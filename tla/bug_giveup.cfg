SPECIFICATION Spec
CONSTANTS
    a = a  b = b  c = c  d = d
    NoJob = NoJob
    NoTask = NoJob
    WfJob = WfJob
    Free = Free
    Main = Main
    Steps = {a, b, c}
    Graphs <- JustSide
    MakeError <- NoErrors
    Conditional = {}
    OnError = "stop"
    OutputsFailures = {FALSE}
    Workers = {w1, w2}
    Commands = {a, b, c}
    Outcomes <- AllSucceed
    Request <- TightRam
    MaxRam = 3
    MaxCuda = 0
PROPERTY HonestGiveUp
