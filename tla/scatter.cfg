SPECIFICATION Spec
CONSTANTS
    Methods <- AllMethods
    Rows = 2
    Cols = 2
    Conditional <- Items
    Unmakeable <- LastItem
    Unevaluable <- NextRow
    Crashing <- FirstRow
    Outcomes = {"success", "temporaryFail", "permanentFail"}
    OnErrors = {"stop", "continue"}
INVARIANTS TypeOK ReportOnce ReportWorst ReportComplete
PROPERTY Reported
\* The scatter ends.
CHECK_DEADLOCK FALSE
