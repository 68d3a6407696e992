SPECIFICATION Spec
CONSTANTS
    NumJobs = 2
    KindChoices <- Mixed
    Limited = {1}
    Stubborn = {2}
    Secretive = {2}
INVARIANTS EveryJobCallsBack SuccessIsTheTools NothingLeftRunning
PROPERTIES TimeLimitHolds EndIsNoticed
\* The program ends; with threads, SIGTERM makes it wait for ever.
CHECK_DEADLOCK FALSE
