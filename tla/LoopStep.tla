------------------------------ MODULE LoopStep ------------------------------
(***************************************************************************)
(* cwltool/workflow_job.py: WorkflowJobLoopStep, a step with a 'loop'.     *)
(*                                                                         *)
(* The generator evaluates 'when' on the joborder, yields the job of one   *)
(* iteration and polls processStatus until loop_callback has set it.  The  *)
(* callback computes the next joborder from the outputs of the iteration.  *)
(* The job of a command calls back with workflow_eval_lock; an             *)
(* ExpressionJob calls back without it, beside the generator.              *)
(***************************************************************************)
EXTENDS Integers, Sequences

CONSTANTS
    MaxIterations, \* bounds how long 'when' may stay true
    WithLock,      \* the jobs call back with workflow_eval_lock
    Outcomes       \* how the job of an iteration may end; "missing" is a
                   \* success without the outputs

ASSUME LoopAssumption ==
    /\ MaxIterations \in Nat \ {0}
    /\ Outcomes \subseteq {"success", "temporaryFail", "permanentFail", "missing"}
    /\ WithLock \in BOOLEAN

VARIABLES
    usesOutputs,   \* some entry of 'loop' has an outputSource
    limit,         \* 'when' is true of a joborder with fewer iterations in it
    badWhen,       \* evaluating 'when' raises for this joborder
    joborder,      \* the iterations whose outputs are in self.joborder
    processStatus, \* self.processStatus
    iteration,     \* self.iteration
    gen,           \* where the generator is
    jobs,          \* jobs[k]: where the job of the k-th iteration is
    inputs,        \* inputs[k]: the joborder it was made with
    ended,         \* ended[k]: how it ended
    aborted,       \* loop_callback has raised, and job.run with it
    reports        \* the statuses the step's callback was called with

jobVars == <<jobs, inputs, ended>>
docVars == <<usesOutputs, limit, badWhen>>
vars == <<docVars, joborder, processStatus, iteration, gen, jobVars,
          aborted, reports>>

\* The generator runs with workflow_eval_lock, unless a callback has it.
GenMayRun == WithLock => \A k \in 1..Len(jobs) : jobs[k] # "callback"

-----------------------------------------------------------------------------
(* The generator. *)

\* 'when' is true: the job of the next iteration is yielded.
Iterate ==
    /\ gen = "when" /\ GenMayRun
    /\ joborder # badWhen /\ joborder < limit
    /\ processStatus' = ""
    /\ jobs' = Append(jobs, "running")
    /\ inputs' = Append(inputs, joborder)
    /\ ended' = Append(ended, "none")
    /\ gen' = "poll"
    /\ UNCHANGED <<docVars, joborder, iteration, aborted, reports>>

\* 'when' is false: the outputs so far are the outputs of the step.
Leave ==
    /\ gen = "when" /\ GenMayRun
    /\ joborder # badWhen /\ joborder >= limit
    /\ reports' = Append(reports, processStatus)
    /\ gen' = "end"
    /\ UNCHANGED <<docVars, joborder, processStatus, iteration, jobVars,
                   aborted>>

\* 'when' is neither true nor false: the WorkflowException goes to the
\* WorkflowJob, which fails; any other exception is reported here.
WhenRaises ==
    /\ gen = "when" /\ GenMayRun
    /\ joborder = badWhen
    /\ \/ /\ gen' = "raised"
          /\ UNCHANGED <<processStatus, reports>>
       \/ /\ processStatus' = "permanentFail"
          /\ reports' = Append(reports, "permanentFail")
          /\ gen' = "end"
    /\ UNCHANGED <<docVars, joborder, iteration, jobVars, aborted>>

\* A mutant of Poll: no status stops the loop.
PollOn ==
    /\ gen = "poll" /\ GenMayRun
    /\ processStatus # ""
    /\ gen' = "when"
    /\ UNCHANGED <<docVars, joborder, processStatus, iteration, jobVars,
                   aborted, reports>>

\* A mutant of Poll: the failure is not reported.
PollSilent ==
    /\ gen = "poll" /\ GenMayRun
    /\ processStatus # ""
    /\ gen' = IF processStatus = "permanentFail" THEN "end" ELSE "when"
    /\ UNCHANGED <<docVars, joborder, processStatus, iteration, jobVars,
                   aborted, reports>>

\* The callback has set the status; until then None is yielded.
Poll ==
    /\ gen = "poll" /\ GenMayRun
    /\ processStatus # ""
    /\ IF processStatus = "permanentFail"
       THEN gen' = "end" /\ reports' = Append(reports, processStatus)
       ELSE gen' = "when" /\ UNCHANGED reports
    /\ UNCHANGED <<docVars, joborder, processStatus, iteration, jobVars,
                   aborted>>

-----------------------------------------------------------------------------
(* loop_callback, for the k-th job. *)

\* What loop_callback takes the status for.
Judged(res) == IF res = "missing" THEN "permanentFail" ELSE res

\* The outputs are stored and the status is set.
CallbackStatus(k) ==
    /\ jobs[k] = "running"
    /\ \E res \in Outcomes :
        /\ ended' = [ended EXCEPT ![k] = res]
        /\ processStatus' = IF processStatus = "permanentFail" THEN processStatus
                            ELSE Judged(res)
    /\ iteration' = iteration + 1
    /\ jobs' = [jobs EXCEPT ![k] = "callback"]
    /\ UNCHANGED <<docVars, joborder, gen, inputs, aborted, reports>>

\* A mutant of CallbackOrder: the joborder is not replaced.
CallbackOrderKeeps(k) ==
    /\ jobs[k] = "callback"
    /\ jobs' = [jobs EXCEPT ![k] = "done"]
    /\ UNCHANGED <<docVars, processStatus, joborder, iteration, gen, inputs,
                   ended, aborted, reports>>

\* The next joborder is computed.  The outputs of a failed iteration do not
\* count: object_from_state returns None or raises, and so does the callback.
CallbackOrder(k) ==
    /\ jobs[k] = "callback"
    /\ jobs' = [jobs EXCEPT ![k] = "done"]
    /\ IF usesOutputs /\ ended[k] # "success"
       THEN /\ processStatus' = "permanentFail" /\ aborted' = TRUE
            /\ UNCHANGED joborder
       ELSE /\ joborder' = joborder + 1
            /\ UNCHANGED <<processStatus, aborted>>
    /\ UNCHANGED <<docVars, iteration, gen, inputs, ended, reports>>

-----------------------------------------------------------------------------
Init ==
    /\ usesOutputs \in BOOLEAN
    /\ limit \in 0..MaxIterations /\ badWhen \in 0..(MaxIterations + 1)
    /\ joborder = 0 /\ processStatus = "success" /\ iteration = 0
    /\ gen = "when"
    /\ jobs = <<>> /\ inputs = <<>> /\ ended = <<>>
    /\ aborted = FALSE /\ reports = <<>>

GenStep == Iterate \/ Leave \/ WhenRaises \/ Poll
Callback(k) == CallbackStatus(k) \/ CallbackOrder(k)

Next == GenStep \/ \E k \in 1..Len(jobs) : Callback(k)

\* The executor goes on asking for jobs, and every job ends.
Spec == /\ Init /\ [][Next]_vars
        /\ WF_vars(GenStep)
        /\ WF_vars(\E k \in 1..Len(jobs) : Callback(k))

-----------------------------------------------------------------------------
(* Properties *)

\* Every iteration runs on the outputs of the one before it: the generator
\* never uses a joborder that loop_callback has yet to replace.
FreshInputs == \A k \in 1..Len(inputs) : inputs[k] = k - 1

\* One iteration at a time, and none once the step is reported: no job of the
\* loop runs beside another or outlives the step.
OneAtATime ==
    \A k \in 1..Len(jobs) : jobs[k] = "running" =>
        k = Len(jobs) /\ gen = "poll" /\ reports = <<>>

\* The step is not reported a success when the job of an iteration failed or
\* lost its outputs.  (A temporary failure is forgotten when the next iteration
\* does not take its inputs from the failed one.)
Fatal == {"permanentFail", "missing"} \cup (IF usesOutputs THEN {"temporaryFail"} ELSE {})
FailureKept ==
    \A i \in 1..Len(reports) : reports[i] = "success" =>
        \A k \in 1..Len(ended) : ended[k] \notin Fatal

\* The step is reported once, or an exception ends the workflow.
Concluded == Len(reports) = 1 \/ gen = "raised" \/ aborted
EndsOnce == <>[]Concluded

-----------------------------------------------------------------------------
(* The inductive invariant behind the theorems, for jobs WithLock. *)

NumRuns   == Len(jobs)
JobStates == {"running", "callback", "done"}
Statuses  == {"", "success", "temporaryFail", "permanentFail"}
Ends      == Outcomes \cup {"none"}

TypeOK ==
    /\ usesOutputs \in BOOLEAN /\ limit \in Nat /\ badWhen \in Nat
    /\ joborder \in Nat /\ iteration \in Nat
    /\ processStatus \in Statuses
    /\ gen \in {"when", "poll", "end", "raised"}
    /\ jobs \in Seq(JobStates) /\ inputs \in Seq(Nat) /\ ended \in Seq(Ends)
    /\ Len(inputs) = NumRuns /\ Len(ended) = NumRuns
    /\ aborted \in BOOLEAN
    /\ reports \in Seq(Statuses)

\* Only the last job may be under way, and only while the generator polls.
LastUnderWay ==
    /\ \A k \in 1..NumRuns : jobs[k] # "done" => k = NumRuns /\ gen = "poll"
    /\ gen = "poll" => NumRuns > 0
    /\ gen = "poll" => (processStatus = "" <=> jobs[NumRuns] = "running")

\* joborder holds the outputs of the jobs that are done, unless the last of
\* them raised.
OrderSound ==
    /\ aborted => processStatus = "permanentFail" /\ gen \in {"poll", "end"}
    /\ ~aborted => joborder = IF NumRuns > 0 /\ jobs[NumRuns] # "done"
                              THEN NumRuns - 1 ELSE NumRuns

\* The generator goes on, or reports a success, past no fatal end.
Harmless(k) == ended[k] \notin Fatal
FailureSeen ==
    /\ \A k \in 1..(NumRuns - 1) : Harmless(k)
    /\ NumRuns > 0 /\ jobs[NumRuns] = "callback" /\ processStatus # "permanentFail"
           => ended[NumRuns] \notin {"permanentFail", "missing"}
    /\ NumRuns > 0 /\ jobs[NumRuns] = "done" /\ processStatus # "permanentFail"
           => Harmless(NumRuns)
    /\ gen = "when" => \A k \in 1..NumRuns : Harmless(k)
    /\ gen \in {"when", "poll"} => reports = <<>>

IInv == TypeOK /\ FreshInputs /\ LastUnderWay /\ OrderSound /\ FailureSeen /\ FailureKept
=============================================================================
