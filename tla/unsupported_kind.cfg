SPECIFICATION LoadSpec
CONSTANTS
    GemmaLayers = 6
    SizeWord = 128
    Limits <- Bounds
    Fp8Block = 3
    Candidates <- GemmaFiles
    Matrices = {}
INVARIANTS
    OpenedGemmaRuns
CHECK_DEADLOCK FALSE
