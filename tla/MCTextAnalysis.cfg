SPECIFICATION Spec
CONSTANTS
    Particles = {"up", "across", "on", "to"}
    WeakParticles = {"to"}
    Irregular <- MCIrregular
    Cut <- MCCut
    Singular <- MCSingular
    Blocklist = {"it", "to"}
    Unsafe = {",", "come,"}
    MaxItems = 2
    MaxGap = 1
    Synonyms <- MCSynonyms
    Similarity <- MCSimilarity
    TrfScore <- MCTrfScore
    Texts <- MCTexts
    Stores <- MCStores
    Responses <- MCResponses
    MaxParses = 2
INVARIANTS SeparatedIsFound UnresolvedIsInseparable ResolvedShowsItsSense ShownIsStored NoSilentLoss
CHECK_DEADLOCK FALSE
