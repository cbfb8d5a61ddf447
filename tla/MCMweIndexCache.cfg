\* Two readers that make three requests between them, one expression and its
\* sense upserted meanwhile.
SPECIFICATION Spec
CONSTANTS
    Readers = {r1, r2}
    Occurrences = {w1}
    MaxReads = 3
    None = None
SYMMETRY Symmetry
INVARIANTS
    CurrentVersionMeansCurrentRows
PROPERTIES
    AcknowledgedIsVisible
