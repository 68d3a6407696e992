SPECIFICATION Spec
CONSTANTS
    a = a  b = b  c = c  d = d
    NoJob = NoJob
    NoTask = NoJob
    WfJob = WfJob
    Free = Free
    Main = Main
    Steps = {a, b, c}
    Graphs <- LooseOrJoin
    MakeError <- CrashC
    Conditional = {c}
    OnError = "continue"
    OutputsFailures = {TRUE, FALSE}
    Workers = {w1, w2}
    Commands = {a, b, c}
    Outcomes <- Failing
    Request <- TightRam
    MaxRam = 3
    MaxCuda = 0
INVARIANTS DependencyOrder NoOvercommit NoFalseSuccess IInv
PROPERTIES StatusMonotone ImplementsWorkflow
\* A job that raises makes run_jobs join threads that wait for its lock.
CHECK_DEADLOCK FALSE
