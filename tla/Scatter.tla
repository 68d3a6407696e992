------------------------------ MODULE Scatter ------------------------------
(***************************************************************************)
(* cwltool/workflow_job.py: one step that is scattered.                    *)
(*                                                                         *)
(* The scatter function makes a job for each combination of the scattered  *)
(* inputs (an item here: <<g, i>> is value i of the second input with      *)
(* value g of the first one), unless its 'when' is false, which it reports *)
(* as "skipped" at once.  parallel_steps yields the jobs and a             *)
(* ReceiveScatterOutput collects what they call back with; when it has     *)
(* heard of all items it calls the step's callback.  A nested              *)
(* crossproduct has a ReceiveScatterOutput for each g and one for them.    *)
(***************************************************************************)
EXTENDS Integers, Sequences, FiniteSets

CONSTANTS
    Methods,     \* the scatterMethods
    Rows, Cols,  \* the lengths of the two scattered inputs; the inputs of a
                 \* dotproduct have Rows * Cols values each
    Conditional, \* the items whose 'when' may be false
    Unmakeable,  \* the items whose generator raises a WorkflowException
    Unevaluable, \* the items whose valueFrom or 'when' may raise when they are
                 \* made
    Crashing,    \* the items whose generator may raise anything else
    Outcomes,    \* how a job may end
    OnErrors     \* the settings of runtimeContext.on_error

Items == (1..Rows) \X (1..Cols)
Top   == 0

ASSUME ScatterAssumption ==
    /\ Methods \subseteq {"dotproduct", "flat_crossproduct", "nested_crossproduct"}
    /\ Rows \in Nat /\ Cols \in Nat
    /\ Conditional \subseteq Items /\ Unmakeable \subseteq Items
    /\ Unevaluable \subseteq Items /\ Crashing \subseteq Items
    /\ Outcomes \subseteq {"success", "temporaryFail", "permanentFail"}
    /\ OnErrors \subseteq {"stop", "continue"}

VARIABLES
    method,    \* the scatterMethod
    onError,   \* runtimeContext.on_error
    skip,      \* the items whose 'when' is false
    todo,      \* what the scatter function has still to do: the items to
               \* make and the calls of setTotal
    rc,        \* rc[r]: a ReceiveScatterOutput
    phase,     \* phase[x]: where the job of item x is
    result,    \* result[x]: how it ended
    gen,       \* where the step's generator is, as the executor sees it
    reports    \* the statuses the step's callback was called with

docVars == <<method, onError, skip>>
vars    == <<docVars, todo, rc, phase, result, gen, reports>>

Nested  == method = "nested_crossproduct"
Targets == IF Nested THEN 0..Rows ELSE {Top}
\* The ReceiveScatterOutput and the index that the callback of x is bound to.
Target(x) == IF Nested THEN x[1] ELSE Top

\* A mutant of Index: put starts one too far.
IndexPast(x) == IF Nested THEN x[2] ELSE (x[1] - 1) * Cols + x[2] + 1

Index(x) == IF Nested THEN x[2] ELSE (x[1] - 1) * Cols + x[2]

Total(r) == IF r # Top THEN Cols ELSE IF Nested THEN Rows ELSE Rows * Cols

\* The call of setTotal on r, among the items: after those of its row, or
\* after everything else.
Call(r)      == IF r = Top THEN <<Rows + 1, 1>> ELSE <<r, Cols + 1>>
Before(x, y) == x[1] < y[1] \/ (x[1] = y[1] /\ x[2] < y[2])
Due(x)       == gen = "main" /\ x \in todo /\ \A y \in todo \ {x} : Before(x, y)

-----------------------------------------------------------------------------
(* receive_scatter_output *)

\* A mutant of Received: the last status that is not a success wins.
ReceivedLast(c, index, status) ==
    [c EXCEPT !.got = @ \cup {index},
              !.status = IF status = "success" THEN @ ELSE status]

\* What c becomes when it hears of index.
Received(c, index, status) ==
    [c EXCEPT !.got = @ \cup {index},
              !.status = IF status = "success" \/ @ = "permanentFail"
                         THEN @ ELSE status]

\* A mutant of Completes: the last index is not waited for.
CompletesEarly(c, index) == Cardinality(c.got \cup {index}) >= c.total - 1

\* c hears of index for the first time, and now has heard of all.
Completes(c, index) ==
    index \notin c.got /\ Cardinality(c.got \cup {index}) = c.total

\* The outer ReceiveScatterOutput, or the only one, hears of index.
ReceiveTop(index, status, others) ==
    LET c == Received(rc[Top], index, status) IN
    /\ rc' = [others EXCEPT ![Top] = c]
    /\ reports' = IF Completes(rc[Top], index) THEN Append(reports, c.status)
                  ELSE reports

\* Item x has ended.
Receive(x, status) ==
    IF ~Nested THEN ReceiveTop(Index(x), status, rc)
    ELSE LET g == x[1]
             c == Received(rc[g], Index(x), status)
         IN IF Completes(rc[g], Index(x))
            THEN ReceiveTop(g, c.status, [rc EXCEPT ![g] = c])
            ELSE rc' = [rc EXCEPT ![g] = c] /\ UNCHANGED reports

-----------------------------------------------------------------------------
(* The scatter functions; no job exists yet. *)

MakeItem(x) ==
    /\ Due(x)
    /\ todo' = todo \ {x}
    /\ IF x \in skip
       THEN /\ phase' = [phase EXCEPT ![x] = "ended"]
            /\ result' = [result EXCEPT ![x] = "skipped"]
            /\ Receive(x, "skipped")
       ELSE /\ phase' = [phase EXCEPT ![x] = "ready"]
            /\ UNCHANGED <<result, rc, reports>>
    /\ UNCHANGED <<docVars, gen>>

\* postScatterEval raises while an item is made: there will be no jobs, and
\* try_make_job hands the exception on, or logs it and counts the step as done.
MakeRaises(x) ==
    /\ Due(x) /\ x \in Unevaluable
    /\ gen' = "raised"
    /\ UNCHANGED <<docVars, todo, rc, phase, result, reports>>

\* A mutant of SetTotal: it does not look whether everything was skipped.
SetTotalQuiet(r) ==
    /\ Due(Call(r))
    /\ todo' = todo \ {Call(r)}
    /\ rc' = [rc EXCEPT ![r].total = Total(r)]
    /\ UNCHANGED <<docVars, phase, result, gen, reports>>

\* setTotal: calls back when everything was skipped.
SetTotal(r) ==
    /\ Due(Call(r))
    /\ todo' = todo \ {Call(r)}
    /\ LET c == [rc[r] EXCEPT !.total = Total(r)]
           s == [rc EXCEPT ![r] = c]
       IN IF Cardinality(c.got) # c.total THEN rc' = s /\ UNCHANGED reports
          ELSE IF r = Top THEN rc' = s /\ reports' = Append(reports, c.status)
          ELSE ReceiveTop(r, c.status, s)
    /\ UNCHANGED <<docVars, phase, result, gen>>

-----------------------------------------------------------------------------
(* parallel_steps, with workflow_eval_lock or on the only thread. *)

Complete == Cardinality(rc[Top].got) >= rc[Top].total
Stopped(r) == onError = "stop" /\ rc[r].status \notin {"success", "skipped"}

\* The generator of x is the first that has a job to yield.
Open == {x \in Items : phase[x] = "ready" /\ ~Stopped(Top) /\ ~Stopped(Target(x))}
First(x) == x \in Open /\ \A y \in Open \ {x} : Before(x, y)
Running  == {x \in Items : phase[x] = "running"}
Scanning == todo = {} /\ gen = "main" /\ ~Complete

YieldJob(x) ==
    /\ Scanning /\ First(x) /\ x \notin Unmakeable
    /\ phase' = [phase EXCEPT ![x] = "running"]
    /\ UNCHANGED <<docVars, todo, rc, result, gen, reports>>

\* A mutant of MakeFails: the exception is only logged.
MakeFailsQuiet(x) ==
    /\ Scanning /\ First(x) /\ x \in Unmakeable
    /\ phase' = [phase EXCEPT ![x] = "ended"]
    /\ result' = [result EXCEPT ![x] = "permanentFail"]
    /\ UNCHANGED <<docVars, todo, gen, rc, reports>>

\* "Cannot make scatter job": the exception counts as the item's end.
MakeFails(x) ==
    /\ Scanning /\ First(x) /\ x \in Unmakeable
    /\ phase' = [phase EXCEPT ![x] = "ended"]
    /\ result' = [result EXCEPT ![x] = "permanentFail"]
    /\ Receive(x, "permanentFail")
    /\ UNCHANGED <<docVars, todo, gen>>

\* An exception that is no WorkflowException ends parallel_steps.
ItemRaises(x) ==
    /\ Scanning /\ First(x) /\ x \in Crashing
    /\ gen' = "raised"
    /\ UNCHANGED <<docVars, todo, rc, phase, result, reports>>

\* None is yielded: the executor waits for its jobs, or gives up.
YieldNone ==
    /\ Scanning /\ Open = {}
    /\ gen' = IF Running = {} THEN "stuck" ELSE "waiting"
    /\ UNCHANGED <<docVars, todo, rc, phase, result, reports>>

Resume ==
    /\ gen = "waiting"
    /\ gen' = "main"
    /\ UNCHANGED <<docVars, todo, rc, phase, result, reports>>

Exhausted ==
    /\ todo = {} /\ gen = "main" /\ Complete
    /\ gen' = "end"
    /\ UNCHANGED <<docVars, todo, rc, phase, result, reports>>

\* A job ends and calls back.
EndJob(x) ==
    /\ phase[x] = "running"
    /\ phase' = [phase EXCEPT ![x] = "ended"]
    /\ \E status \in Outcomes :
        /\ result' = [result EXCEPT ![x] = status]
        /\ Receive(x, status)
    /\ UNCHANGED <<docVars, todo, gen>>

-----------------------------------------------------------------------------
Init ==
    /\ method \in Methods /\ onError \in OnErrors
    /\ skip \in SUBSET Conditional
    /\ todo = Items \cup {Call(r) : r \in Targets}
    /\ rc = [r \in Targets |->
                [got |-> {}, status |-> "success",
                 total |-> IF method = "flat_crossproduct" THEN 0 ELSE Total(r)]]
    /\ phase = [x \in Items |-> "new"]
    /\ result = [x \in Items |-> "none"]
    /\ gen = "main"
    /\ reports = <<>>

GenStep ==
    \/ YieldNone \/ Resume \/ Exhausted
    \/ \E x \in Items : \/ MakeItem(x) \/ YieldJob(x) \/ MakeFails(x)
                         \/ MakeRaises(x) \/ ItemRaises(x)
    \/ \E r \in Targets : SetTotal(r)

Next == GenStep \/ (\E x \in Items : EndJob(x))

\* The executor goes on asking for jobs, and every job ends.
Spec == /\ Init /\ [][Next]_vars
        /\ WF_vars(GenStep) /\ \A x \in Items : WF_vars(EndJob(x))

-----------------------------------------------------------------------------
(* Properties *)

Statuses == {"success", "skipped", "temporaryFail", "permanentFail"}

TypeOK ==
    /\ method \in Methods /\ onError \in OnErrors /\ skip \subseteq Items
    /\ todo \subseteq Items \cup {Call(r) : r \in Targets}
    /\ rc \in [Targets -> [got : SUBSET Nat, status : Statuses, total : Nat]]
    /\ \A r \in Targets :
        /\ rc[r].got \subseteq 1..Total(r)
        /\ rc[r].total \in {0, Total(r)}
    /\ phase \in [Items -> {"new", "ready", "running", "ended"}]
    /\ result \in [Items -> Outcomes \cup {"none", "skipped", "permanentFail"}]
    /\ gen \in {"main", "waiting", "stuck", "end", "raised"}
    /\ reports \in Seq(Statuses)

Failed(status) == \E x \in Items : result[x] = status

CalledOnce ==
    skip # Items \/ method = "flat_crossproduct" => Len(reports) <= 1

\* The step ends once at most: receive_output of the workflow stores the outputs
\* and counts the step once, and never after an exception has ended the step.
\* (Not so when every item is skipped and the total was known from the start:
\* setTotal then calls back once more.)
ReportOnce == CalledOnce /\ (gen = "raised" => reports = <<>>)

\* What is reported is the worst that happened to an item: a permanent failure
\* is not hidden by what came before or after it.  (A temporary one may be: see
\* the README.)
ReportWorst ==
    reports # <<>> /\ Failed("permanentFail") => reports[1] = "permanentFail"

\* The callback is called when every item has ended, no item sooner: the
\* indices the callbacks are bound to are the places of the arrays.
ReportComplete == reports # <<>> => \A x \in Items : phase[x] = "ended"

\* Unless on_error is "stop", the step ends, whatever its items do: its callback
\* is called, or an exception from the making of an item, or one that is no
\* WorkflowException, ends its generator.  (Then the callback is never called,
\* and try_make_job makes the step count as done, or it is tried again.)
Reported == onError = "continue" ~> reports # <<>> \/ gen = "raised"

-----------------------------------------------------------------------------
(***************************************************************************)
(* The inductive invariant behind the theorems.                            *)
(***************************************************************************)

Ended(x) == phase[x] = "ended"

\* A ReceiveScatterOutput has heard of what has ended and of nothing else; the
\* outer one of a nested crossproduct hears of a row when all of it has ended.
HeardSound ==
    /\ ~Nested => \A x \in Items : Index(x) \in rc[Top].got <=> Ended(x)
    /\ Nested => \A g \in 1..Rows :
          /\ \A i \in 1..Cols : i \in rc[g].got <=> Ended(<<g, i>>)
          /\ g \in rc[Top].got => rc[g].got = 1..Cols
          /\ rc[g].got = 1..Cols /\ Call(g) \notin todo => g \in rc[Top].got

\* The total is known from the start or after setTotal; until then nothing is
\* reported.
TotalsSound ==
    /\ \A r \in Targets :
          method # "flat_crossproduct" \/ Call(r) \notin todo => rc[r].total = Total(r)
    /\ method = "flat_crossproduct" /\ Call(Top) \in todo =>
          rc[Top].total = 0 /\ reports = <<>>

\* While the scatter function is at work no job exists, and all that is known
\* is that some items were skipped.
SetupSound ==
    /\ \A x \in Items : x \in todo <=> phase[x] = "new"
    /\ todo # {} =>
          /\ Call(Top) \in todo /\ gen \in {"main", "raised"}
          /\ \A x \in Items : /\ phase[x] # "running"
                              /\ Ended(x) => x \in skip
          /\ \A r \in Targets : rc[r].status \in {"success", "skipped"}

\* A permanent failure has reached every ReceiveScatterOutput that has heard
\* of it.
StatusSound ==
    /\ \A x \in Items : result[x] = "permanentFail" =>
          Ended(x) /\ rc[Target(x)].status = "permanentFail"
    /\ Nested => \A g \in rc[Top].got :
          rc[g].status = "permanentFail" => rc[Top].status = "permanentFail"

\* An exception leaves an item without a job.
RaisedSound == gen = "raised" => \E x \in Items : phase[x] \in {"new", "ready"}

\* parallel_steps yields None for good only if on_error is "stop", and ends
\* only when the step's callback has been called.
NeverSilent ==
    /\ gen = "stuck" => onError = "stop"
    /\ gen = "end" => reports # <<>>

\* The step's callback was called when the last index was heard of.
ReportSound ==
    /\ reports # <<>> =>
          /\ rc[Top].got = 1..Total(Top)
          /\ rc[Top].status = "permanentFail" => reports[1] = "permanentFail"
    /\ todo = {} /\ rc[Top].got = 1..Total(Top) => reports # <<>>
    /\ NeverSilent

IInv ==
    /\ TypeOK /\ HeardSound /\ TotalsSound /\ SetupSound /\ StatusSound
    /\ ReportSound /\ CalledOnce
=============================================================================
