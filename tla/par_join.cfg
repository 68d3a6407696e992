SPECIFICATION Spec
CONSTANTS
    a = a  b = b  c = c  d = d
    NoJob = NoJob
    NoTask = NoJob
    WfJob = WfJob
    Free = Free
    Main = Main
    Steps = {a, b, c}
    Graphs <- AllShapes
    MakeError <- NoErrors
    Conditional = {}
    OnError = "stop"
    OutputsFailures = {FALSE}
    Workers = {w1, w2}
    Commands = {a, b, c}
    Outcomes <- AllSucceed
    Request <- OneEach
    MaxRam = 2
    MaxCuda = 0
INVARIANTS InFlightExact RunOnce SuccessIsReported
PROPERTY HonestGiveUp
