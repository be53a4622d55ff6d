\* Two revisions, one retrieval, two tokens, any decision policy.
SPECIFICATION FairSpec
CONSTANTS
    Chunks = {c1, c2, w1}
    Local = {c1, c2}
    MaxIterations = 2
    MaxRetrievals = 1
    MaxTokens = 2
    MaxCost = 1
    MaxEvidence = 2
    PolicyMayIgnoreBudget = TRUE
INVARIANTS AcceptedAsJudged NeverHalfRevised WithinBudget
PROPERTIES NothingAfterDeadline Terminates
CHECK_DEADLOCK FALSE
