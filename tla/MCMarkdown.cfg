SPECIFICATION Spec
CONSTANTS
    Limit <- MCLimit
    MaxTokens = 10
    MaxEdits = 1
INVARIANT IncrementalIsFull
PROPERTY PrefixIsLongest
