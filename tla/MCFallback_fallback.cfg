\* Three claims of one book around a switch of the fallback policy.
SPECIFICATION PipelineSpec
CONSTANTS
    Illustrations = {"page_1"}
    BookInputs = {"i1"}
    MaxClaims = 3
    PipelineBudgets <- Tightened
INVARIANT
    FallbackIsRecorded
CHECK_DEADLOCK FALSE
