SPECIFICATION Spec
CONSTANTS
    Requests = {r1, r2}
    Texts <- MCTexts
    Words <- MCWords
    Versions <- MCVersions
    Single <- MCSingle
    Phrases <- MCPhrases
    Lemma <- MCLemma
    Inflections <- MCInflections
    Wordnet = {"jog", "slow", "run"}
    Near <- MCNear
    Alike <- MCAlike
    Rank <- MCRank
    BertTopK = 2
    Hint <- MCHint
    NoHint = "none"
    Skipped = {"up"}
    MaxTokens = 3
    MaxUnknown <- MCMaxUnknown
    Failures = 2
    MaxEmbeddings = 1
    MaxRuns = 2
INVARIANTS OkMissesNothing AloneIsSound
CHECK_DEADLOCK FALSE
SYMMETRY Symmetric
