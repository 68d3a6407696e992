---------------------------- MODULE WorkflowSpec ----------------------------
(***************************************************************************)
(* What a workflow promises to whoever submits it, whichever executor runs *)
(* it (cwltool/executors.py, cwltool/workflow_job.py): a step starts when  *)
(* the steps it takes inputs from have delivered, at most once; what it    *)
(* delivered stays; a failure is never forgotten; a success is reported    *)
(* only when everything was delivered, and is final.                       *)
(***************************************************************************)
EXTENDS Naturals, Sequences

CONSTANT Steps

VARIABLES
    sources,      \* sources[s]: the steps that feed s
    outputsFail,  \* the workflow's outputs cannot be collected
    phase,        \* phase[s]: "idle", "active", "delivered" or "failed"
    verdict,      \* the status of the workflow so far
    reports       \* the statuses reported to the submitter, in order

given    == <<sources, outputsFail>>
vars     == <<given, phase, verdict, reports>>
Failures == {"temporaryFail", "permanentFail"}

Ready(s)   == \A t \in sources[s] : phase[t] = "delivered"
Move(s, p) == phase' = [phase EXCEPT ![s] = p]

\* A status only gets worse, and never after a success was reported.
Worsen ==
    /\ verdict' \in Failures
    /\ \A i \in 1..Len(reports) : reports[i] # "success"

\* A report says what the verdict is once the outputs were collected.
Reports ==
    /\ verdict' = IF outputsFail THEN "permanentFail" ELSE verdict
    /\ verdict' = "success" => \A s \in Steps : phase'[s] = "delivered"
    /\ reports' = Append(reports, verdict')

-----------------------------------------------------------------------------
Init ==
    /\ phase = [s \in Steps |-> "idle"]
    /\ verdict = "success"
    /\ reports = <<>>

Start(s) ==
    /\ phase[s] = "idle" /\ Ready(s)
    /\ Move(s, "active")
    /\ UNCHANGED <<given, verdict, reports>>

Deliver(s) ==
    /\ phase[s] = "active"
    /\ Move(s, "delivered")
    /\ UNCHANGED <<given, verdict, reports>>

\* A step is left out; when it is the last one, the workflow reports.
Skip(s) ==
    /\ phase[s] = "idle" /\ Ready(s)
    /\ Move(s, "delivered")
    /\ Reports \/ UNCHANGED <<verdict, reports>>
    /\ UNCHANGED given

\* A step fails; the workflow's status may follow later.
Fail(s) ==
    /\ phase[s] = "active" \/ (phase[s] = "idle" /\ Ready(s))
    /\ Move(s, "failed")
    /\ Worsen \/ UNCHANGED verdict
    /\ UNCHANGED <<given, reports>>

\* The workflow's status becomes a failure.
Degrade ==
    /\ Worsen
    /\ UNCHANGED <<given, phase, reports>>

Report ==
    /\ Reports
    /\ UNCHANGED <<given, phase>>

Next ==
    \/ \E s \in Steps : Start(s) \/ Deliver(s) \/ Skip(s) \/ Fail(s)
    \/ Degrade \/ Report

Spec == Init /\ [][Next]_vars
=============================================================================
