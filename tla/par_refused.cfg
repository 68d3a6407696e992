SPECIFICATION Spec
CONSTANTS
    a = a  b = b  c = c  d = d
    NoJob = NoJob
    NoTask = NoJob
    WfJob = WfJob
    Free = Free
    Main = Main
    Steps = {a, b, c, d}
    Graphs <- JustSide
    MakeError <- NoErrors
    Conditional = {}
    OnError = "continue"
    OutputsFailures = {FALSE}
    Workers = {w1}
    Commands = {b, c, d}
    Outcomes <- FailD
    Request <- BigB
    MaxRam = 3
    MaxCuda = 0
PROPERTIES ContinueRunsReady Termination
