SPECIFICATION Spec
CONSTANTS
    mine = mine
    other = other
    theirs = theirs
    f1 = f1
    f2 = f2
    one = one
    again = again
    two = two
    bad = bad
    Commands = {c1, c2}
    NoName = NoName
    Unsafe = Unsafe
    Names <- ThreeNames
    Ollama = {theirs}
    Files <- TwoFiles
    Canonical <- Behind
    Registries <- Written
PROPERTIES
    SharedFilesKept
CHECK_DEADLOCK FALSE
