SPECIFICATION Spec
CONSTANTS
    Chars <- MCChars
    Texts <- MCTexts
    Nul = "0"
    Bs = "b"
    Delm = {"d"}
    Quote = {"q", "r"}
    Sizes = {0, 1, 2, 3}
    MaxLen = 4
    MaxNumLen = 3
    Args <- MCArgs
    Alphabet <- MCAlphabet
    Words <- MCWords
    Si <- MCSi
INVARIANTS
    InBounds
    TokensAreTheRuns
    QuotesHold
    EscapingIsUndone
    NumbersAreRead
PROPERTY
    EveryCallReturns
CHECK_DEADLOCK FALSE
