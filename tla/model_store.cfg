SPECIFICATION StoreSpec
CONSTANTS
    mine = mine
    other = other
    theirs = theirs
    f1 = f1
    f2 = f2
    one = one
    again = again
    two = two
    bad = bad
    Commands = {c1, c2}
    NoName = NoName
    Unsafe = Unsafe
    Names <- ThreeNames
    Ollama = {theirs}
    Files <- TwoFiles
    Canonical <- Behind
    Registries <- Written
    Word = 4096
    Lengths = {20, 24, 60, 128, 160, 192, 4095}
    Counts = {0, 1, 2, 3}
    MaxCount = 2
    Keys = {"alignment", "tokens"}
    CapturedKeys = {"tokens"}
    Values <- SomeValues
    MaxString = 8
    MaxArray = 3
    MaxCaptured = 2
    MaxCapturedBytes = 30
    TensorNames = {"a", "b"}
    Shapes <- SomeShapes
    Kinds = {0, 2, 9}
    Offsets = {0, 16, 32, 40, 4064}
    Layout <- Blocks
    SafeWord = 256
    ShardNames = {1, 2, 3}
    SafeNames = {1, 2}
    NoIndex = NoIndex
    MaxShards = 2
    MaxRank = 3
    ShardFiles <- SomeShards
    Widths <- Bytes
    MaxHeader = 8
    WeightMaps <- SomeMaps
    Readers <- TwoReaders
    r1 = r1
    r2 = r2
    Ranges <- TwoTensors
    Requests <- Asked
    Handles <- AnyHandle
    FileBytes = 5
    MaxInterrupts = 1
    GemmaLayers = 6
    SizeWord = 128
    Limits <- Bounds
    Fp8Block = 3
    Candidates <- AllFiles
    Matrices <- WrittenMatrices
INVARIANTS
    ErrorsPutBack
    RemovedIsGone
    OneRemover
    TensorsInPlace
    IndexComplete
    ReadsExact
    OpenedModelsRun
    LayoutRecovered
PROPERTIES
    SparesOthers
    ForgottenBeforeDestroyed
CHECK_DEADLOCK FALSE
