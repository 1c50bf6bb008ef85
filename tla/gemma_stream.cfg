SPECIFICATION Spec
CONSTANTS
    Vocabulary <- ByteFallback
    Buffered = FALSE
    MaxTokens = 3
INVARIANT StreamIsText
CHECK_DEADLOCK FALSE
