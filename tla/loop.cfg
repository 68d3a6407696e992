SPECIFICATION Spec
CONSTANTS
    MaxIterations = 3
    Outcomes = {"success", "temporaryFail", "permanentFail", "missing"}
    WithLock = TRUE
INVARIANTS FreshInputs FailureKept
PROPERTY EndsOnce
\* The loop ends.
CHECK_DEADLOCK FALSE
