---------------------------- MODULE WorkflowJob ----------------------------
(***************************************************************************)
(* cwltool/workflow_job.py: a WorkflowJob.  The executor pulls jobs from   *)
(* the generator WorkflowJob.job; each finished job calls receive_output.  *)
(* Every step runs one job here (scatter and loop are wrappers around the  *)
(* job of a step, not part of this module).                                *)
(*                                                                         *)
(* The module gives the generator's steps and the parts of the callback as *)
(* actions over the state of the WorkflowJob; the modules that extend it   *)
(* say who takes them, on which thread and under which lock.               *)
(***************************************************************************)
EXTENDS Integers, Sequences, FiniteSets, Functions

CONSTANTS
    Steps,        \* the workflow's steps
    Graphs,       \* the ways the steps may be connected
    MakeError,    \* MakeError[s]: "none", or how making the job of s fails:
                  \* a WorkflowException, or any other exception ("crash"),
                  \* before ("Inputs") or after ("Job") step.submitted is set
    Conditional,  \* the steps with a 'when' expression
    OnError,      \* runtimeContext.on_error
    OutputsFailures, \* what outputsFail may be
    NoJob,        \* the None a jobs generator yields when it is not ready
    WfJob         \* the WorkflowJob itself, which Workflow.job yields first

Jobs     == Steps \cup {WfJob}
NumSteps == Cardinality(Steps)

Failures == {"temporaryFail", "permanentFail"}
Done     == {"success", "skipped"}
Status   == Done \cup Failures

\* What a job hands to its callback: a status with all outputs, or "success"
\* with no output ("missing") or with some of them ("partial").
Results == {"success", "temporaryFail", "permanentFail", "missing", "partial"}

EarlyErrors == {"errorInputs", "crashInputs"}
LateErrors  == {"errorJob", "crashJob"}
Crashes     == {"crashInputs", "crashJob"}

ASSUME StepsAssumption ==
    /\ IsFiniteSet(Steps) /\ Steps # {}
    /\ NoJob \notin Jobs /\ WfJob \notin Steps
    /\ Graphs \subseteq [Steps -> SUBSET Steps]
    /\ MakeError \in [Steps -> {"none"} \cup EarlyErrors \cup LateErrors]
    /\ Conditional \subseteq Steps
    /\ OnError \in {"stop", "continue"}
    /\ OutputsFailures \subseteq BOOLEAN

VARIABLES
    order,          \* Workflow.steps, shuffled when the Workflow is loaded
    sources,        \* sources[s]: the steps whose outputs feed an input of s
    outputsFail,    \* object_from_state raises on the workflow's outputs
    submitted,      \* the steps with step.submitted
    completed,      \* the steps with step.completed
    state,          \* state[s]: "none", or the status its outputs came with
    processStatus,  \* self.processStatus
    madeProgress,   \* self.made_progress
    didCallback,    \* self.did_callback
    final,          \* the statuses passed to final_output_callback, in order
    gpc,            \* where the generator is
    gidx,           \* its position in self.steps
    offer           \* what it yielded last

docVars  == <<order, sources, outputsFail>>
stepVars == <<docVars, submitted, completed, state>>
cbVars   == <<processStatus, madeProgress, didCallback, final>>
genVars  == <<gpc, gidx, offer>>
wfVars   == <<stepVars, cbVars, genVars>>

-----------------------------------------------------------------------------
\* on_error is "stop" and some step failed: nothing more is submitted.
Stopping == OnError = "stop" /\ processStatus # "success"

\* A mutant of InputsReady: outputs of failed steps are used as well.
InputsReadyAnyStatus(s) == \A t \in sources[s] : state[t] # "none"

\* object_from_state finds a value for every source of s.
InputsReady(s) == \A t \in sources[s] : state[t] \in Done

-----------------------------------------------------------------------------
(* receive_output, in the pieces another thread can come between. *)

\* What receive_output stores for a step whose job ends with res.
Stored(res) == IF res = "missing" THEN "none"
               ELSE IF res = "partial" THEN "success" ELSE res

\* A mutant of Judged: a missing output field is only logged.
JudgedLenient(res) == IF res \in {"missing", "partial"} THEN "success" ELSE res

\* The status receive_output goes on with: a missing output is a failure.
Judged(res) == IF res \in {"missing", "partial"} THEN "permanentFail" ELSE res

\* The loop over outputparms.
StoreOutput(s, res) ==
    /\ state' = [state EXCEPT ![s] = Stored(res)]
    /\ UNCHANGED <<docVars, submitted, completed, cbVars, genVars>>

\* A mutant of Overwrites: the last failure wins.
OverwritesAlways(old, st) == st \in Failures

\* A mutant of Overwrites: a temporary failure is not one.
OverwritesPermanent(old, st) == st = "permanentFail"

\* A step that ended with st changes the workflow's status, which was old
\* when it was tested.
Overwrites(old, st) == st \in Failures /\ old # "permanentFail"

\* The status is written and the step is marked completed.
RecordStatus(s, old, res) ==
    /\ processStatus' = IF Overwrites(old, Judged(res)) THEN Judged(res)
                        ELSE processStatus
    /\ completed' = completed \cup {s}
    /\ madeProgress' = TRUE
    /\ UNCHANGED <<docVars, submitted, state, didCallback, final, genVars>>

\* A mutant of DoOutputCallback: the status is taken before the outputs are.
DoOutputCallbackEarly ==
    /\ processStatus' = IF outputsFail THEN "permanentFail" ELSE processStatus
    /\ didCallback' = TRUE
    /\ final' = Append(final, processStatus)

\* do_output_callback: the workflow's outputs are collected, which may fail.
DoOutputCallback ==
    LET ps == IF outputsFail THEN "permanentFail" ELSE processStatus IN
    /\ processStatus' = ps
    /\ didCallback' = TRUE
    /\ final' = Append(final, ps)

\* The end of receive_output: the step that completes last reports.
ReceiveFinish ==
    /\ IF Cardinality(completed) = NumSteps
       THEN DoOutputCallback
       ELSE UNCHANGED <<processStatus, didCallback, final>>
    /\ UNCHANGED <<stepVars, madeProgress, genVars>>

-----------------------------------------------------------------------------
(***************************************************************************)
(* The generator.  "loop" is the head of the while loop, "step" the body   *)
(* of the for loop over self.steps at gidx, "made" the inner loop over     *)
(* step.iterable with a job in hand, "sum" the end of the while body,      *)
(* "exit" the code after it; "yield" is suspended and "end" exhausted.     *)
(***************************************************************************)
CurrentStep == order[gidx]

GenLoop ==
    /\ gpc = "loop"
    /\ madeProgress' = FALSE
    /\ gpc' = "step" /\ gidx' = 1
    /\ UNCHANGED <<stepVars, processStatus, didCallback, final, offer>>

\* The for loop ends, by exhaustion or because the workflow is stopping.
GenForEnd ==
    /\ gpc = "step"
    /\ gidx > NumSteps \/ Stopping
    /\ gpc' = "sum"
    /\ UNCHANGED <<stepVars, cbVars, gidx, offer>>

\* try_make_job returns without a job, or the iterable has no more jobs.
GenNotReady ==
    /\ gpc = "step" /\ gidx <= NumSteps /\ ~Stopping
    /\ CurrentStep \in submitted \/ ~InputsReady(CurrentStep)
    /\ gidx' = gidx + 1
    /\ UNCHANGED <<stepVars, cbVars, gpc, offer>>

\* A mutant of CanMake: a step is made again until it has completed.
CanMakeUncompleted ==
    /\ gpc = "step" /\ gidx <= NumSteps /\ ~Stopping
    /\ CurrentStep \notin completed /\ InputsReady(CurrentStep)

\* try_make_job gets past its two early returns.
CanMake ==
    /\ gpc = "step" /\ gidx <= NumSteps /\ ~Stopping
    /\ CurrentStep \notin submitted /\ InputsReady(CurrentStep)

\* try_make_job reaches step.submitted = True and its iterable has a job.
GenMake ==
    /\ CanMake
    /\ MakeError[CurrentStep] = "none"
    /\ submitted' = submitted \cup {CurrentStep}
    /\ gpc' = "made"
    /\ UNCHANGED <<docVars, completed, state, cbVars, gidx, offer>>

\* A mutant of GenMakeRaises: the workflow's status is left alone.
GenMakeRaisesQuiet ==
    /\ CanMake
    /\ MakeError[CurrentStep] # "none"
    /\ submitted' = IF MakeError[CurrentStep] \in LateErrors
                    THEN submitted \cup {CurrentStep} ELSE submitted
    /\ completed' = IF MakeError[CurrentStep] \in Crashes
                    THEN completed \cup {CurrentStep} ELSE completed
    /\ gidx' = gidx + 1
    /\ UNCHANGED <<docVars, state, cbVars, gpc, offer>>

\* try_make_job raises; an exception that is not a WorkflowException is
\* caught in try_make_job itself, which marks the step completed.
GenMakeRaises ==
    /\ CanMake
    /\ MakeError[CurrentStep] # "none"
    /\ submitted' = IF MakeError[CurrentStep] \in LateErrors
                    THEN submitted \cup {CurrentStep} ELSE submitted
    /\ completed' = IF MakeError[CurrentStep] \in Crashes
                    THEN completed \cup {CurrentStep} ELSE completed
    /\ processStatus' = "permanentFail"
    /\ gidx' = gidx + 1
    /\ UNCHANGED <<docVars, state, madeProgress, didCallback, final, gpc, offer>>

\* 'when' is false: the step completes at once, on the generator's thread.
GenSkip ==
    /\ CanMake
    /\ CurrentStep \in Conditional /\ MakeError[CurrentStep] \notin EarlyErrors
    /\ submitted' = submitted \cup {CurrentStep}
    /\ state' = [state EXCEPT ![CurrentStep] = "skipped"]
    /\ completed' = completed \cup {CurrentStep}
    /\ madeProgress' = TRUE
    /\ IF Cardinality(completed') = NumSteps
       THEN DoOutputCallback
       ELSE UNCHANGED <<processStatus, didCallback, final>>
    /\ gidx' = gidx + 1
    /\ UNCHANGED <<docVars, gpc, offer>>

\* The job is yielded, unless a failure arrived since it was made.
GenYieldJob ==
    /\ gpc = "made"
    /\ IF Stopping
       THEN /\ gpc' = "step" /\ gidx' = gidx + 1
            /\ UNCHANGED <<offer, madeProgress>>
       ELSE /\ gpc' = "yield" /\ offer' = CurrentStep
            /\ madeProgress' = TRUE
            /\ UNCHANGED gidx
    /\ UNCHANGED <<stepVars, processStatus, didCallback, final>>

\* A mutant of GenSum: a failure ends the loop.
GenSumHasty ==
    /\ gpc = "sum"
    /\ LET unfinished == Cardinality(completed) < NumSteps IN
       IF unfinished /\ ~madeProgress /\ processStatus = "success"
       THEN gpc' = "yield" /\ offer' = NoJob
       ELSE /\ gpc' = (IF unfinished /\ processStatus = "success"
                      THEN "loop" ELSE "exit")
            /\ UNCHANGED offer
    /\ UNCHANGED <<stepVars, cbVars, gidx>>

\* The end of the while body: go on, give up, or yield None.
GenSum ==
    /\ gpc = "sum"
    /\ LET unfinished == Cardinality(completed) < NumSteps IN
       IF unfinished /\ ~madeProgress /\ processStatus = "success"
       THEN gpc' = "yield" /\ offer' = NoJob
       ELSE /\ gpc' = (IF unfinished /\ madeProgress THEN "loop" ELSE "exit")
            /\ UNCHANGED offer
    /\ UNCHANGED <<stepVars, cbVars, gidx>>

\* A mutant of GenExit: did_callback is not looked at.
GenExitAgain ==
    /\ gpc = "exit"
    /\ DoOutputCallback
    /\ gpc' = "end"
    /\ UNCHANGED <<stepVars, madeProgress, gidx, offer>>

\* After the while loop: report, unless receive_output did.
GenExit ==
    /\ gpc = "exit"
    /\ IF didCallback THEN UNCHANGED <<processStatus, didCallback, final>>
                      ELSE DoOutputCallback
    /\ gpc' = "end"
    /\ UNCHANGED <<stepVars, madeProgress, gidx, offer>>

GenRun ==
    \/ GenLoop \/ GenForEnd \/ GenNotReady \/ GenMake \/ GenMakeRaises
    \/ GenSkip \/ GenYieldJob \/ GenSum \/ GenExit

\* The executor asks a suspended generator for the next job.
GenResume ==
    /\ gpc = "yield"
    /\ IF offer \in Steps THEN gpc' = "step" /\ gidx' = gidx + 1
                          ELSE gpc' = "loop" /\ UNCHANGED gidx
    /\ UNCHANGED <<stepVars, cbVars, offer>>

-----------------------------------------------------------------------------
(* The executor has asked for the first job and holds the WorkflowJob. *)
WfInit ==
    /\ order \in Bijection(1..NumSteps, Steps)
    /\ sources \in Graphs /\ outputsFail \in OutputsFailures
    /\ submitted = {} /\ completed = {}
    /\ state = [s \in Steps |-> "none"]
    /\ processStatus = "success"
    /\ madeProgress = FALSE /\ didCallback = FALSE
    /\ final = <<>>
    /\ gpc = "yield" /\ gidx = 1 /\ offer = WfJob

WfTypeOK ==
    /\ order \in [1..NumSteps -> Steps]
    /\ sources \in Graphs /\ outputsFail \in OutputsFailures
    /\ submitted \subseteq Steps /\ completed \subseteq Steps
    /\ state \in [Steps -> Status \cup {"none"}]
    /\ processStatus \in {"success"} \cup Failures
    /\ madeProgress \in BOOLEAN /\ didCallback \in BOOLEAN
    /\ final \in Seq({"success"} \cup Failures)
    /\ gpc \in {"loop", "step", "made", "sum", "exit", "yield", "end"}
    /\ gidx \in 1..(NumSteps + 1)
    /\ offer \in Jobs \cup {NoJob}

-----------------------------------------------------------------------------
(* What an executor running this promises. *)

\* No step waits for itself: circular_dependency_checker (checker.py) has
\* refused the others when the Workflow was loaded.
Acyclic == \A g \in Graphs : \A S \in SUBSET Steps \ {{}} :
               \E s \in S : g[s] \cap S = {}

\* Where the step is in WorkflowSpec.
PhaseOf(s) ==
    IF state[s] \in Done THEN "delivered"
    ELSE IF state[s] \in Failures \/ s \in completed
            \/ (s \in submitted /\ MakeError[s] # "none") THEN "failed"
    ELSE IF s \in submitted THEN "active" ELSE "idle"

WS == INSTANCE WorkflowSpec WITH
          phase   <- [s \in Steps |-> PhaseOf(s)],
          verdict <- processStatus,
          reports <- final
=============================================================================
