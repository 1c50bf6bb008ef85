SPECIFICATION PathSpec
CONSTANTS
    Vocabulary <- ByteTokens
    Buffered = TRUE
    MaxTokens = 4
    Letters <- Words
    Numbers <- Digits
    Whitespace <- Blanks
    MaxTokenId = 40
    VocabularySize = 21
    SpecialTexts <- Named
    Marker <- StopMarks
    TokenizerFiles <- Files
    Alphabet <- Alphabets
    MaxText = 4
    NonFinite = NonFinite
    Weight <- Powers
    LogitVectors <- ThreeLogits
    Configs <- Configurations
    Contents <- Messages
    MaxMessages = 3
INVARIANTS
    StreamIsText
    WithholdsOnlyUnfinished
    PiecesMatchPattern
    RoundTrip
    MergesAreGreedy
    SamplesNucleus
    TurnsExtendPrompt
CHECK_DEADLOCK FALSE
