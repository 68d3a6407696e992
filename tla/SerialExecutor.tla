--------------------------- MODULE SerialExecutor ---------------------------
(***************************************************************************)
(* cwltool/executors.py: SingleJobExecutor running one Workflow.  Every    *)
(* job runs inside the for loop over the generator, so a callback comes    *)
(* while the generator is suspended at the job's yield.                    *)
(*                                                                         *)
(* The steps in Generating run a ProcessGenerator (procgenerator.py): the  *)
(* step's iterable yields the job of an embedded tool, waits for its       *)
(* status, and goes on with the job of the tool that the embedded one      *)
(* wrote.  validate_only and provenance are left out.                      *)
(***************************************************************************)
EXTENDS WorkflowJob

CONSTANTS
    Outcomes,         \* Outcomes[s]: the ways the job of s may end; "raise"
                      \* is an exception that leaves job.run
    Generating,       \* the steps that run a ProcessGenerator
    EmbeddedOutcomes, \* the ways the embedded tool may end; "silent": it
                      \* does not call back
    Outputless        \* the steps without outputs

EmbeddedResults == {"success", "temporaryFail", "permanentFail"}

ASSUME SerialAssumption ==
    /\ Outcomes \in [Steps -> SUBSET (Results \cup {"raise"})]
    /\ \A s \in Steps : Outcomes[s] # {}
    /\ Generating \subseteq Steps /\ Outputless \subseteq Steps
    /\ EmbeddedOutcomes # {}
    /\ EmbeddedOutcomes \subseteq EmbeddedResults \cup {"raise", "silent"}

VARIABLES
    epc,       \* where run_jobs is
    part,      \* part[s]: which job the iterable of s is at, "embedded",
               \* "created" or, past both, "over"
    embedded,  \* embedded[s]: ProcessGeneratorJob.processStatus, or "none"
    ended      \* ended[s]: what the job of s handed to its callback, "none"
               \* before, "broken" when it could not be made

serVars == <<epc, part, embedded, ended>>
vars    == <<wfVars, serVars>>

-----------------------------------------------------------------------------
(* run_jobs *)

\* The for loop runs the generator up to its next yield.
Generate ==
    /\ epc = "next"
    /\ \/ GenLoop \/ GenForEnd \/ GenNotReady \/ GenMake
       \/ GenSkip \/ GenYieldJob \/ GenSum \/ GenExit
    /\ UNCHANGED serVars

\* The generator cannot make the job of a step.
MakeRaises ==
    /\ epc = "next"
    /\ GenMakeRaises
    /\ ended' = [ended EXCEPT ![CurrentStep] = "broken"]
    /\ UNCHANGED <<epc, part, embedded>>

\* The executor has a job; the WorkflowJob itself only logs.
Take ==
    /\ epc = "next" /\ gpc = "yield"
    /\ IF offer = WfJob THEN epc' = "resume"
       ELSE IF offer = NoJob THEN epc' = "stuck"
       ELSE epc' = "run"
    /\ UNCHANGED <<wfVars, part, embedded, ended>>

\* The generator is exhausted.
Leave ==
    /\ epc = "next" /\ gpc = "end"
    /\ epc' = "done"
    /\ UNCHANGED <<wfVars, part, embedded, ended>>

AtEmbedded(s) == s \in Generating /\ part[s] = "embedded"

\* job.run of the step's own job is about to call back.
Run ==
    /\ epc = "run" /\ ~AtEmbedded(offer)
    /\ \E r \in Outcomes[offer] \ {"raise"} : ended' = [ended EXCEPT ![offer] = r]
    /\ epc' = "callback"
    /\ UNCHANGED <<wfVars, part, embedded>>

\* A job raises: the exception leaves run_jobs.
RunRaises ==
    /\ epc = "run"
    /\ "raise" \in IF AtEmbedded(offer) THEN EmbeddedOutcomes ELSE Outcomes[offer]
    /\ epc' = "raised"
    /\ UNCHANGED <<wfVars, part, embedded, ended>>

\* ProcessGeneratorJob.receive_output keeps the status of the embedded tool.
RunEmbedded ==
    /\ epc = "run" /\ AtEmbedded(offer)
    /\ \E r \in EmbeddedOutcomes \ {"raise"} :
           embedded' = IF r = "silent" THEN embedded
                       ELSE [embedded EXCEPT ![offer] = r]
    /\ epc' = "resume"
    /\ UNCHANGED <<wfVars, part, ended>>

\* receive_output of the workflow, all of it before the generator goes on.
Callback ==
    /\ epc = "callback"
    /\ StoreOutput(offer, ended[offer])
    /\ epc' = "record"
    /\ UNCHANGED <<part, embedded, ended>>

Record ==
    /\ epc = "record"
    /\ RecordStatus(offer, processStatus, ended[offer])
    /\ epc' = "finish"
    /\ UNCHANGED <<part, embedded, ended>>

Finish ==
    /\ epc = "finish"
    /\ ReceiveFinish
    /\ epc' = "resume"
    /\ UNCHANGED <<part, embedded, ended>>

\* The for loop asks for the next job; the step's iterable has no other one.
Resume ==
    /\ epc = "resume" /\ ~(offer \in Steps /\ AtEmbedded(offer))
    /\ GenResume
    /\ epc' = "next"
    /\ UNCHANGED <<part, embedded, ended>>

-----------------------------------------------------------------------------
(* ProcessGeneratorJob.job, resumed after the embedded tool's job. *)

PgResumed == epc = "resume" /\ offer \in Steps /\ AtEmbedded(offer)

\* No status yet: it yields None, and the workflow goes to its next step.
\* The next passes over the steps find the same (GenNotReady).
PgPoll ==
    /\ PgResumed /\ embedded[offer] = "none"
    /\ GenResume
    /\ epc' = "next"
    /\ UNCHANGED <<part, embedded, ended>>

\* A mutant of PgRefuse: the failure is only logged.
PgRefuseQuiet ==
    /\ PgResumed /\ embedded[offer] \in Failures
    /\ part' = [part EXCEPT ![offer] = "over"]
    /\ GenResume
    /\ epc' = "next"
    /\ UNCHANGED <<embedded, ended>>

\* The embedded tool failed: its outputs and status are the step's.  They
\* hold none of the outputs the step declares.
PgRefuse ==
    /\ PgResumed /\ embedded[offer] \in Failures
    /\ part' = [part EXCEPT ![offer] = "over"]
    /\ ended' = [ended EXCEPT ![offer] = IF offer \in Outputless
                                         THEN embedded[offer] ELSE "missing"]
    /\ epc' = "callback"
    /\ UNCHANGED <<wfVars, embedded>>

\* A mutant of PgBroken: the workflow's status is left alone.
PgBrokenQuiet ==
    /\ PgResumed /\ embedded[offer] = "success"
    /\ part' = [part EXCEPT ![offer] = "over"]
    /\ ended' = [ended EXCEPT ![offer] = "broken"]
    /\ gpc' = "step" /\ gidx' = gidx + 1
    /\ epc' = "next"
    /\ UNCHANGED <<stepVars, cbVars, offer, embedded>>

\* result() raises, and so does the iterable; the step never completes.
PgBroken ==
    /\ PgResumed /\ embedded[offer] = "success"
    /\ part' = [part EXCEPT ![offer] = "over"]
    /\ ended' = [ended EXCEPT ![offer] = "broken"]
    /\ processStatus' = "permanentFail"
    /\ gpc' = "step" /\ gidx' = gidx + 1
    /\ epc' = "next"
    /\ UNCHANGED <<stepVars, madeProgress, didCallback, final, offer, embedded>>

\* The iterable has the created tool's job.
PgCreated ==
    /\ PgResumed /\ embedded[offer] = "success"
    /\ part' = [part EXCEPT ![offer] = "created"]
    /\ gpc' = "made"
    /\ epc' = "next"
    /\ UNCHANGED <<stepVars, cbVars, gidx, offer, embedded, ended>>

PgStep == PgPoll \/ PgRefuse \/ PgBroken \/ PgCreated

-----------------------------------------------------------------------------
Init ==
    /\ WfInit
    /\ epc = "next"
    /\ part = [s \in Steps |-> "embedded"]
    /\ embedded = [s \in Steps |-> "none"]
    /\ ended = [s \in Steps |-> "none"]

Advance ==
    \/ Generate \/ MakeRaises \/ Take \/ Leave
    \/ Run \/ RunRaises \/ RunEmbedded
    \/ Callback \/ Record \/ Finish \/ Resume
    \/ PgStep

\* run_jobs has returned, after "Workflow cannot make any more progress." or
\* not, or has raised.
Over     == epc \in {"done", "stuck", "raised"}
Finished == Over /\ UNCHANGED vars

Next == Advance \/ Finished

Spec == Init /\ [][Next]_vars

-----------------------------------------------------------------------------
(* Properties *)

TypeOK ==
    /\ WfTypeOK
    /\ epc \in {"next", "run", "callback", "record", "finish", "resume",
                "done", "stuck", "raised"}
    /\ part \in [Steps -> {"embedded", "created", "over"}]
    /\ embedded \in [Steps -> EmbeddedResults \cup {"none"}]
    /\ ended \in [Steps -> Results \cup {"none", "broken"}]

\* The same promise as the threaded executor's: the submitter sees the
\* workflow of WorkflowSpec.
ImplementsWorkflow == WS!Spec

\* The workflow calls back exactly once if run_jobs returns, and not at all if
\* it gives up or raises: the reports of receive_output and of the generator's
\* end exclude each other.
CallsBackOnce ==
    /\ Len(final) <= 1
    /\ epc = "done" => final # <<>>
    /\ epc \in {"stuck", "raised"} => final = <<>>

\* The status reported is the worst that happened: permanentFail if a step or
\* the collection of the outputs failed for good, however many temporary
\* failures came before or after, temporaryFail only if nothing worse did.  The
\* failure of an embedded tool is its step's.
FailedForGood(s) ==
    \/ ended[s] \in {"permanentFail", "missing", "partial", "broken"}
    \/ embedded[s] = "permanentFail"
FailedForNow(s) == "temporaryFail" \in {ended[s], embedded[s]}
ReportsWorst ==
    epc = "done" =>
        final[1] = IF outputsFail \/ \E s \in Steps : FailedForGood(s)
                   THEN "permanentFail"
                   ELSE IF \E s \in Steps : FailedForNow(s)
                   THEN "temporaryFail" ELSE "success"

\* With --on-error continue, a failure stops only what depends on it: every
\* step whose sources delivered is taken up before run_jobs returns.
ContinueRunsIndependent ==
    epc = "done" /\ OnError = "continue" =>
        \A s \in Steps : InputsReady(s) =>
            s \in submitted \/ MakeError[s] \in EarlyErrors

\* run_jobs gives up only over a process generator whose embedded tool has
\* not called back: nothing else is ready, and nothing has failed.
HonestGiveUp ==
    epc = "stuck" =>
        /\ \A s \in Steps \ submitted : ~InputsReady(s)
        /\ \E s \in Generating \cap submitted :
               part[s] = "embedded" /\ embedded[s] = "none"
        /\ \A s \in Steps : ended[s] \notin Failures \cup {"broken"}

-----------------------------------------------------------------------------
(***************************************************************************)
(* The inductive invariant behind the theorems.                            *)
(***************************************************************************)

\* Where run_jobs and the generator are together.
Positions ==
    /\ \A s \in Steps : \E i \in 1..NumSteps : order[i] = s
    /\ gpc = "made" => gidx <= NumSteps
    /\ gpc = "yield" /\ offer \in Steps => gidx <= NumSteps /\ offer = CurrentStep
    /\ gpc = "yield" /\ offer = NoJob => completed # Steps
    /\ epc \in {"run", "callback", "record", "finish"} => gpc = "yield" /\ offer \in Steps
    /\ epc \in {"callback", "record", "finish"} => ~AtEmbedded(offer)
    /\ epc = "resume" => gpc = "yield" /\ offer \in Jobs
    /\ epc = "stuck" => gpc = "yield"
    /\ epc = "done" => gpc = "end"

\* The job of s is made or running and has not stored its outputs.
Ahead(s) ==
    \/ gpc = "made" /\ s = CurrentStep
    \/ /\ gpc = "yield" /\ s = offer
       /\ \/ epc \in {"next", "run", "callback"}
          \/ epc = "resume" /\ AtEmbedded(s)

Recording(s) == epc = "record" /\ s = offer

\* The job of s has not been made, or could not be.
Unmade(s) == \/ ended[s] = "none"
             \/ ended[s] = "broken" /\ MakeError[s] \in EarlyErrors

StepSound(s) ==
    /\ s \notin submitted => state[s] = "none" /\ embedded[s] = "none" /\ Unmade(s)
    /\ s \in completed \ submitted => MakeError[s] \in EarlyErrors
    /\ Ahead(s) \/ Recording(s) => /\ s \in submitted /\ s \notin completed
                                   /\ MakeError[s] = "none"
    /\ Ahead(s) => state[s] = "none"
    /\ Ahead(s) /\ epc # "callback" => ended[s] = "none"
    /\ Ahead(s) /\ epc \in {"next", "run"} => embedded[s] \in {"none", "success"}
    /\ epc \in {"callback", "record"} /\ s = offer => ended[s] \in Results
    /\ Recording(s) => state[s] = Stored(ended[s])
    /\ s \in completed /\ processStatus = "success" => state[s] \in Done

\* When the workflow has called back, and with what.
ReportSound ==
    /\ didCallback <=> final # <<>>
    /\ Len(final) <= 1
    /\ final # <<>> => /\ gpc = "end" \/ (completed = Steps /\ epc # "finish")
                       /\ final[1] = processStatus
                       /\ processStatus = "success" => completed = Steps
                       /\ outputsFail => processStatus = "permanentFail"
    /\ gpc = "exit" /\ processStatus = "success" => completed = Steps
    /\ gpc = "end" => final # <<>>
    /\ epc \in {"stuck", "raised"} => final = <<>>

\* The failure of s is not in the workflow's status yet.
Unsettled(s) ==
    /\ s = offer /\ gpc = "yield"
    /\ epc \in {"callback", "record"} \/ (epc = "resume" /\ AtEmbedded(s))

\* The workflow's status is the worst of the failures so far.
VerdictSound ==
    /\ processStatus = "permanentFail" =>
           (outputsFail /\ final # <<>>) \/ \E s \in Steps : FailedForGood(s)
    /\ processStatus = "temporaryFail" => \E s \in Steps : FailedForNow(s)
    /\ \A s \in Steps : ~Unsettled(s) =>
           /\ FailedForGood(s) => processStatus = "permanentFail"
           /\ FailedForNow(s) => processStatus \in Failures
    /\ \A s \in Steps : /\ epc \in {"callback", "record"} /\ s = offer
                         /\ embedded[s] \in Failures
                         => ended[s] \in {embedded[s], "missing"}
    /\ \A s \in completed : MakeError[s] \in EarlyErrors =>
           processStatus = "permanentFail"

\* s was taken up if it could be.
Taken(s) == InputsReady(s) => s \in submitted \/ MakeError[s] \in EarlyErrors

\* A pass over the steps that made no progress found nothing to take up.
ScanSound ==
    /\ gpc = "yield" /\ offer \in Steps => madeProgress
    /\ OnError = "continue" =>
           /\ gpc \in {"step", "made", "sum"} /\ ~madeProgress =>
                  \A i \in 1..(gidx - 1) : Taken(order[i])
           /\ gpc = "sum" => gidx > NumSteps
           /\ gpc \in {"exit", "end"} => \A s \in Steps : Taken(s)

IInv ==
    /\ TypeOK /\ Positions
    /\ \A s \in Steps : StepSound(s)
    /\ ReportSound /\ VerdictSound /\ ScanSound

\* What is known when the generator yields None: the pass was complete, and
\* found only steps that are submitted or wait for others.
PassSound ==
    /\ processStatus = "success" =>
        /\ gpc \in {"step", "made", "sum"} /\ ~madeProgress =>
               \A i \in 1..(gidx - 1) :
                   order[i] \in submitted \/ ~InputsReady(order[i])
        /\ gpc = "sum" => gidx > NumSteps
    /\ gpc = "yield" /\ offer = NoJob =>
        /\ processStatus = "success"
        /\ \A s \in Steps : s \in submitted \/ ~InputsReady(s)
    /\ epc = "stuck" => offer = NoJob

\* A submitted step is under way, completed or a process generator that is
\* only polled, while nothing has failed.
AheadSound ==
    processStatus = "success" /\ epc # "raised" =>
        \A s \in submitted \ completed :
            Ahead(s) \/ Recording(s) \/ (AtEmbedded(s) /\ embedded[s] = "none")

=============================================================================
