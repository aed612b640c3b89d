\* Seven characters: three words, which do not fit, or one that is set twice.
CONSTANTS
    Lines <- ShortLines
    MaxLine = 7
    MaxTokens = 3
SPECIFICATION Spec
INVARIANTS TokensAreWords DevbuildAsSet OnlyDelimitersCleared
\* init returns.
CHECK_DEADLOCK FALSE
