SPECIFICATION Spec
CONSTANTS
    a = a  b = b  c = c  d = d
    NoJob = NoJob
    WfJob = WfJob
    Steps = {a, b, c, d}
    Graphs <- Shapes
    MakeError <- BrokenD
    Conditional = {d}
    OnError = "continue"
    OutputsFailures = {TRUE, FALSE}
    Outcomes <- EveryEnd
    Generating = {b}
    EmbeddedOutcomes = {"success", "temporaryFail", "permanentFail", "raise", "silent"}
    Outputless = {b}
INVARIANTS CallsBackOnce ReportsWorst ContinueRunsIndependent HonestGiveUp
PROPERTY ImplementsWorkflow
