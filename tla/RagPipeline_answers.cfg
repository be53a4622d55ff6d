\* Two policy chunks, one of them flagged, one web page.
SPECIFICATION Spec
CONSTANTS
    Local = {p1, p2}
    Web = {w1}
    Flagged = {p2}
    MinEvidence = 2
    MaxPieces = 2
    MaxIterations = 1
    MaxRetrievals = 1
    MaxTokens = 1
    MaxCost = 0
    MaxEvidence = 2
    PolicyMayIgnoreBudget = FALSE
INVARIANTS CachedIsWhatThePlanSays ServedCitesItsEvidence ShadowChangesNothing
INVARIANTS CheckedOrAbstained EvidenceIsVetted
CHECK_DEADLOCK FALSE
