\* Every request ends: one policy chunk, one web page.
SPECIFICATION FairSpec
CONSTANTS
    Local = {p1}
    Web = {w1}
    Flagged = {p1}
    MinEvidence = 1
    MaxPieces = 2
    MaxIterations = 1
    MaxRetrievals = 1
    MaxTokens = 1
    MaxCost = 0
    MaxEvidence = 1
    PolicyMayIgnoreBudget = FALSE
PROPERTY Answers
CHECK_DEADLOCK FALSE
