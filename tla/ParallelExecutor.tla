-------------------------- MODULE ParallelExecutor --------------------------
(***************************************************************************)
(* cwltool/executors.py: MultithreadedJobExecutor running one Workflow on  *)
(* a TaskQueue.                                                            *)
(*                                                                         *)
(* The main thread pulls jobs from the workflow's generator, keeps them in *)
(* pending_jobs until the resources they ask for are free, and adds them   *)
(* to the task queue.  The worker threads run them.  workflow_eval_lock    *)
(* (a Condition) is held by the main thread except while it adds a task or *)
(* waits, and by a worker while a command line job calls back and while    *)
(* _runner gives the resources back.  An ExpressionJob calls back without  *)
(* the lock, so receive_output then runs beside the generator.             *)
(***************************************************************************)
EXTENDS WorkflowJob, TaskQueue, SequencesExt

CONSTANTS
    Commands,     \* the steps whose job is a JobBase; the others are
                  \* ExpressionJobs
    Outcomes,     \* Outcomes[s]: the ways the job of s may end; "raise" is an
                  \* exception that leaves job.run before the callback
    Request,      \* Request[s]: builder.resources of a command
    MaxRam,       \* max_ram; max_cores is the number of threads
    MaxCuda,      \* max_cuda
    Free, Main    \* workflow_eval_lock is free; it is held by run_jobs

Resources == {"ram", "cores", "cuda"}
MaxOf     == [ram |-> MaxRam, cores |-> threadCount, cuda |-> MaxCuda]

ASSUME ExecutorAssumption ==
    /\ NoTask = NoJob
    /\ Commands \subseteq Steps
    /\ Outcomes \in [Steps -> SUBSET (Results \cup {"raise"})]
    /\ \A s \in Steps : Outcomes[s] # {}
    \* ExpressionJob.run knows no temporary failure.
    /\ \A s \in Steps \ Commands : "temporaryFail" \notin Outcomes[s]
    /\ Request \in [Commands -> [Resources -> Nat]]
    /\ MaxRam \in Nat /\ MaxCuda \in Nat
    /\ Free # Main /\ Free \notin Workers /\ Main \notin Workers

VARIABLES
    lock,       \* the owner of workflow_eval_lock
    notified,   \* notify_all since the main thread began to wait
    pending,    \* pending_jobs
    allocated,  \* allocated_ram, allocated_cores, allocated_cuda
    exceptions, \* some job raised
    mpc,        \* where run_jobs is
    n,          \* run_job's position in pending_jobs, from 1
    tail,       \* run_jobs has left its for loop
    gaveUp,     \* "Workflow cannot make any more progress."
    raised,     \* wait_for_next_completion has raised
    wres,       \* wres[w]: how the job of w ended
    wold        \* wold[w]: the processStatus that receive_output tested

mainVars == <<mpc, n, tail, gaveUp, raised>>
resVars  == <<pending, allocated>>
lockVars == <<lock, notified>>
jobVars  == <<exceptions, wres, wold>>
vars     == <<wfVars, tqVars, mainVars, resVars, lockVars, jobVars>>

-----------------------------------------------------------------------------
(* run_jobs and run_job, on the main thread. *)

\* The for loop of run_jobs runs the generator up to its next yield.
MainGenerate ==
    /\ mpc = "take"
    /\ GenRun
    /\ UNCHANGED <<tqVars, mainVars, resVars, lockVars, jobVars>>

\* run_job is entered with what the generator yielded.
MainTake ==
    /\ mpc = "take" /\ gpc = "yield"
    /\ pending' = IF offer = NoJob THEN pending ELSE Append(pending, offer)
    /\ n' = 1 /\ mpc' = "scan"
    /\ UNCHANGED <<wfVars, tqVars, tail, gaveUp, raised, allocated, lockVars,
                   jobVars>>

\* The generator is exhausted: run_job(None) after the for loop.
MainTakeEnd ==
    /\ mpc = "take" /\ gpc = "end"
    /\ tail' = TRUE
    /\ n' = 1 /\ mpc' = "scan"
    /\ UNCHANGED <<wfVars, tqVars, gaveUp, raised, resVars, lockVars, jobVars>>

\* The job asks for more than the host has.
TooBig(s) == s \in Commands /\ \E r \in Resources : Request[s][r] > MaxOf[r]

\* A mutant of Busy: only the cores are looked at.
BusyCores(s) ==
    s \in Commands /\ allocated["cores"] + Request[s]["cores"] > MaxOf["cores"]

\* The job asks for more than is left at the moment.
Busy(s) ==
    s \in Commands /\
        \E r \in Resources : allocated[r] + Request[s][r] > MaxOf[r]

\* What run_job adds for a started command: it looks CUDA devices up as
\* "cudaDevices", a key builder.resources does not have.
Charge(s) == [ram   |-> allocated["ram"] + Request[s]["ram"],
              cores |-> allocated["cores"] + Request[s]["cores"],
              cuda  |-> allocated["cuda"] + 0]

\* What _runner takes away for a finished command.
Refund(s) == [r \in Resources |-> allocated[r] - Request[s][r]]

\* The job is dropped, and run_job returns.
MainTooBig ==
    /\ mpc = "scan" /\ n <= Len(pending)
    /\ TooBig(pending[n])
    /\ pending' = RemoveAt(pending, n)
    /\ mpc' = "ret"
    /\ UNCHANGED <<wfVars, tqVars, n, tail, gaveUp, raised, allocated,
                   lockVars, jobVars>>

\* The job has to wait; the next one is tried.
MainBusy ==
    /\ mpc = "scan" /\ n <= Len(pending)
    /\ ~TooBig(pending[n]) /\ Busy(pending[n])
    /\ n' = n + 1
    /\ UNCHANGED <<wfVars, tqVars, mpc, tail, gaveUp, raised, resVars,
                   lockVars, jobVars>>

\* The job is started: its resources are charged and taskqueue.add counts it
\* and releases the lock.
MainStart ==
    /\ mpc = "scan" /\ n <= Len(pending)
    /\ ~TooBig(pending[n]) /\ ~Busy(pending[n])
    /\ allocated' = IF pending[n] \in Commands THEN Charge(pending[n])
                    ELSE allocated
    /\ AddCount
    /\ lock' = Free
    /\ mpc' = "put"
    /\ UNCHANGED <<wfVars, n, tail, gaveUp, raised, pending, notified, jobVars>>

\* The job enters the queue; pending_jobs still holds it.
MainPut ==
    /\ mpc = "put"
    /\ AddPut(pending[n])
    /\ mpc' = "reacquire"
    /\ UNCHANGED <<wfVars, n, tail, gaveUp, raised, resVars, lockVars, jobVars>>

\* put timed out on a full queue.
MainPutFull ==
    /\ mpc = "put" /\ QueueFull
    /\ mpc' = "retry"
    /\ UNCHANGED <<wfVars, tqVars, n, tail, gaveUp, raised, resVars, lockVars,
                   jobVars>>

\* The lock is taken and released again before the next attempt.
MainRetry ==
    /\ mpc = "retry" /\ lock = Free
    /\ mpc' = "put"
    /\ UNCHANGED <<wfVars, tqVars, n, tail, gaveUp, raised, resVars, lockVars,
                   jobVars>>

\* A mutant of MainReacquire: the job stays in pending_jobs.
MainReacquireKeeps ==
    /\ mpc = "reacquire" /\ lock = Free
    /\ lock' = Main
    /\ n' = n + 1
    /\ mpc' = "scan"
    /\ UNCHANGED <<wfVars, tqVars, tail, gaveUp, raised, allocated, pending,
                   notified, jobVars>>

\* add returns with the lock, and the job leaves pending_jobs.
MainReacquire ==
    /\ mpc = "reacquire" /\ lock = Free
    /\ lock' = Main
    /\ pending' = RemoveAt(pending, n)
    /\ mpc' = "scan"
    /\ UNCHANGED <<wfVars, tqVars, n, tail, gaveUp, raised, allocated,
                   notified, jobVars>>

\* run_job has looked at every pending job.
MainScanned ==
    /\ mpc = "scan" /\ n > Len(pending)
    /\ mpc' = "ret"
    /\ UNCHANGED <<wfVars, tqVars, n, tail, gaveUp, raised, resVars, lockVars,
                   jobVars>>

\* run_job returns to the for loop with a job that was not None.
MainNext ==
    /\ mpc = "ret" /\ ~tail /\ offer # NoJob
    /\ GenResume
    /\ mpc' = "take"
    /\ UNCHANGED <<tqVars, n, tail, gaveUp, raised, resVars, lockVars, jobVars>>

\* Nothing to start while jobs run: wait_for_next_completion.
MainWait ==
    /\ mpc = "ret"
    /\ tail \/ offer = NoJob
    /\ inFlight > 0
    /\ lock' = Free /\ notified' = FALSE
    /\ mpc' = "waiting"
    /\ UNCHANGED <<wfVars, tqVars, n, tail, gaveUp, raised, resVars, jobVars>>

\* A mutant of MainGiveUp: in_flight is not looked at.
MainGiveUpBusy ==
    /\ mpc = "ret" /\ ~tail /\ offer = NoJob
    /\ gaveUp' = TRUE /\ tail' = TRUE
    /\ n' = 1 /\ mpc' = "scan"
    /\ UNCHANGED <<wfVars, tqVars, raised, resVars, lockVars, jobVars>>

\* Nothing to start and nothing running: leave the for loop.
MainGiveUp ==
    /\ mpc = "ret" /\ ~tail /\ offer = NoJob
    /\ inFlight = 0
    /\ gaveUp' = TRUE /\ tail' = TRUE
    /\ n' = 1 /\ mpc' = "scan"
    /\ UNCHANGED <<wfVars, tqVars, raised, resVars, lockVars, jobVars>>

\* wait returns, with the lock, after notify_all or after three seconds.
WakeUp == mpc = "waiting" /\ lock = Free

\* A job has raised: the exception leaves run_jobs through its finally
\* clause, with the lock still held.
MainWakeRaise ==
    /\ WakeUp /\ exceptions
    /\ lock' = Main
    /\ raised' = TRUE /\ mpc' = "drain"
    /\ UNCHANGED <<wfVars, tqVars, n, tail, gaveUp, resVars, notified, jobVars>>

\* Back to the for loop, which resumes the generator.
MainWakeNext ==
    /\ WakeUp /\ ~exceptions /\ ~tail
    /\ lock' = Main
    /\ GenResume
    /\ mpc' = "take"
    /\ UNCHANGED <<tqVars, n, tail, gaveUp, raised, resVars, notified, jobVars>>

\* Back to the while loop after it, which calls run_job(None).
MainWakeTail ==
    /\ WakeUp /\ ~exceptions /\ tail
    /\ lock' = Main
    /\ n' = 1 /\ mpc' = "scan"
    /\ UNCHANGED <<wfVars, tqVars, tail, gaveUp, raised, resVars, notified,
                   jobVars>>

\* in_flight is 0 after the for loop: release the lock.
MainLeave ==
    /\ mpc = "ret" /\ tail
    /\ inFlight = 0
    /\ lock' = Free
    /\ mpc' = "drain"
    /\ UNCHANGED <<wfVars, tqVars, n, tail, gaveUp, raised, resVars, notified,
                   jobVars>>

\* The finally clause: drain, then join.
MainDrain ==
    /\ mpc = "drain"
    /\ \/ DrainOne /\ UNCHANGED mpc
       \/ tqueue = <<>> /\ mpc' = "join" /\ UNCHANGED tqVars
    /\ UNCHANGED <<wfVars, n, tail, gaveUp, raised, resVars, lockVars, jobVars>>

MainJoin ==
    /\ mpc = "join"
    /\ \/ JoinPut /\ UNCHANGED mpc
       \/ Joined /\ mpc' = "done" /\ UNCHANGED tqVars
    /\ UNCHANGED <<wfVars, n, tail, gaveUp, raised, resVars, lockVars, jobVars>>

MainStep ==
    \/ MainGenerate \/ MainTake \/ MainTakeEnd
    \/ MainTooBig \/ MainBusy \/ MainStart \/ MainScanned
    \/ MainPut \/ MainPutFull \/ MainRetry \/ MainReacquire
    \/ MainNext \/ MainWait \/ MainGiveUp \/ MainLeave
    \/ MainWakeRaise \/ MainWakeNext \/ MainWakeTail
    \/ MainDrain \/ MainJoin

-----------------------------------------------------------------------------
(* _runner, on a worker thread. *)

WorkerGet(w) ==
    /\ Get(w)
    /\ UNCHANGED <<wfVars, mainVars, resVars, lockVars, jobVars>>

\* WorkflowJob.run only logs.
WorkerRunWf(w) ==
    /\ wpc[w] = "run" /\ wtask[w] = WfJob
    /\ wpc' = [wpc EXCEPT ![w] = "finally"]
    /\ UNCHANGED <<wfVars, queueVars, wtask, mainVars, resVars, lockVars,
                   jobVars>>

\* job.run ends and is about to call back.
WorkerRun(w) ==
    /\ wpc[w] = "run" /\ wtask[w] \in Steps
    /\ \E res \in Outcomes[wtask[w]] \ {"raise"} :
           wres' = [wres EXCEPT ![w] = res]
    /\ wpc' = [wpc EXCEPT ![w] = "callback"]
    /\ UNCHANGED <<wfVars, queueVars, wtask, mainVars, resVars, lockVars,
                   exceptions, wold>>

\* job.run raises: _runner keeps the exception.
WorkerRaise(w) ==
    /\ wpc[w] = "run" /\ wtask[w] \in Steps
    /\ "raise" \in Outcomes[wtask[w]]
    /\ exceptions' = TRUE
    /\ wpc' = [wpc EXCEPT ![w] = "finally"]
    /\ UNCHANGED <<wfVars, queueVars, wtask, mainVars, resVars, lockVars,
                   wres, wold>>

\* receive_output begins; a command's callback takes the lock first.
WorkerCallback(w) ==
    /\ wpc[w] = "callback"
    /\ IF wtask[w] \in Commands THEN lock = Free /\ lock' = w
                                ELSE UNCHANGED lock
    /\ StoreOutput(wtask[w], wres[w])
    /\ wold' = [wold EXCEPT ![w] = processStatus]
    /\ wpc' = [wpc EXCEPT ![w] = "record"]
    /\ UNCHANGED <<queueVars, wtask, mainVars, resVars, notified, exceptions,
                   wres>>

WorkerRecord(w) ==
    /\ wpc[w] = "record"
    /\ RecordStatus(wtask[w], wold[w], wres[w])
    /\ wpc' = [wpc EXCEPT ![w] = "finish"]
    /\ UNCHANGED <<queueVars, wtask, mainVars, resVars, lockVars, jobVars>>

\* receive_output ends, and with it the callback's hold on the lock.
WorkerFinish(w) ==
    /\ wpc[w] = "finish"
    /\ ReceiveFinish
    /\ lock' = IF wtask[w] \in Commands THEN Free ELSE lock
    /\ wpc' = [wpc EXCEPT ![w] = "finally"]
    /\ UNCHANGED <<queueVars, wtask, mainVars, resVars, notified, jobVars>>

\* A mutant of WorkerFinally: only the ram is given back.
WorkerFinallyKeeps(w) ==
    /\ wpc[w] = "finally" /\ lock = Free
    /\ allocated' = IF wtask[w] \in Commands
                    THEN [allocated EXCEPT !["ram"] = Refund(wtask[w])["ram"]]
                    ELSE allocated
    /\ notified' = TRUE
    /\ wpc' = [wpc EXCEPT ![w] = "dec"]
    /\ UNCHANGED <<wfVars, queueVars, wtask, mainVars, pending, lock, jobVars>>

\* The finally clause of _runner, under the lock.
WorkerFinally(w) ==
    /\ wpc[w] = "finally" /\ lock = Free
    /\ allocated' = IF wtask[w] \in Commands THEN Refund(wtask[w])
                    ELSE allocated
    /\ notified' = TRUE
    /\ wpc' = [wpc EXCEPT ![w] = "dec"]
    /\ UNCHANGED <<wfVars, queueVars, wtask, mainVars, pending, lock, jobVars>>

WorkerDec(w) ==
    /\ Dec(w)
    /\ UNCHANGED <<wfVars, mainVars, resVars, lockVars, jobVars>>

WorkerStep(w) ==
    \/ WorkerGet(w) \/ WorkerRunWf(w) \/ WorkerRun(w) \/ WorkerRaise(w)
    \/ WorkerCallback(w) \/ WorkerRecord(w) \/ WorkerFinish(w)
    \/ WorkerFinally(w) \/ WorkerDec(w)

-----------------------------------------------------------------------------
(* run_jobs has the lock and the generator's first job, the WorkflowJob. *)
Init ==
    /\ WfInit /\ TqInit
    /\ lock = Main /\ notified = FALSE
    /\ pending = <<>>
    /\ allocated = [r \in Resources |-> 0]
    /\ exceptions = FALSE
    /\ mpc = "take" /\ n = 1
    /\ tail = FALSE /\ gaveUp = FALSE /\ raised = FALSE
    /\ wres = [w \in Workers |-> "success"]
    /\ wold = [w \in Workers |-> "success"]

\* run_jobs has returned or raised.
Finished == mpc = "done" /\ UNCHANGED vars

Next == MainStep \/ (\E w \in Workers : WorkerStep(w)) \/ Finished

(***************************************************************************)
(* Threads are scheduled and jobs end.  Taking the lock is strongly fair:  *)
(* the main thread gives it up for three seconds at a time, and everyone   *)
(* else holds it for a bounded time.                                       *)
(***************************************************************************)
Fairness ==
    /\ WF_vars(MainStep)
    /\ \A w \in Workers :
        /\ WF_vars(WorkerStep(w))
        /\ SF_vars(WorkerCallback(w))
        /\ SF_vars(WorkerFinally(w))

Spec == Init /\ [][Next]_vars /\ Fairness

-----------------------------------------------------------------------------
(* Properties *)

TypeOK ==
    /\ WfTypeOK
    /\ tqueue \in Seq(Jobs \cup {NoTask})
    /\ inFlight \in Nat /\ pills \in 0..threadCount
    /\ wpc \in [Workers -> {"get", "run", "callback", "record", "finish",
                            "finally", "dec", "exit"}]
    /\ wtask \in [Workers -> Jobs \cup {NoTask}]
    /\ lock \in {Free, Main} \cup Workers
    /\ notified \in BOOLEAN
    /\ pending \in Seq(Jobs)
    /\ allocated \in [Resources -> Int]
    /\ exceptions \in BOOLEAN
    /\ mpc \in {"take", "scan", "put", "retry", "reacquire", "ret", "waiting",
                "drain", "join", "done"}
    /\ n \in Nat \ {0}
    /\ tail \in BOOLEAN /\ gaveUp \in BOOLEAN /\ raised \in BOOLEAN
    /\ wres \in [Workers -> Results]
    /\ wold \in [Workers -> {"success"} \cup Failures]

Adding  == mpc \in {"put", "retry"}
Busying == {w \in Workers : wpc[w] \notin {"get", "exit"}}
Queued(j) == {i \in 1..Len(tqueue) : tqueue[i] = j}
Held(j)   == {w \in Busying : wtask[w] = j}
\* The copies of j in pending_jobs that run_job has not handed over yet.
Waiting(j) == {i \in 1..Len(pending) :
                   pending[i] = j /\ ~(mpc = "reacquire" /\ i = n)}

\* run_jobs decides when to stop by in_flight alone.  Until it drains the
\* queue, in_flight is exactly the number of jobs being added, queued or
\* running, so 0 never hides a job and a job never keeps it above 0.
InFlightExact ==
    mpc \notin {"drain", "join", "done"} =>
        inFlight = Len(tqueue) + Cardinality(Busying) + (IF Adding THEN 1 ELSE 0)

\* The generator, pending_jobs, the queue and the threads between them hold
\* at most one job of a step, and none once the step has completed: no step
\* runs twice or calls receive_output twice.
RunOnce ==
    \A s \in Steps :
        /\ Cardinality(Waiting(s)) + Cardinality(Queued(s))
               + Cardinality(Held(s)) <= 1
        /\ Waiting(s) \cup Queued(s) \cup Held(s) # {} => s \in submitted
        /\ s \in completed =>
               /\ Waiting(s) \cup Queued(s) = {}
               /\ \A w \in Held(s) : wpc[w] \in {"finish", "finally", "dec"}

\* A step is submitted only when every step it takes inputs from delivered
\* them, and what they delivered stays: no later failure or second callback
\* takes the outputs of a source away from a step that uses them.
DependencyOrder ==
    \A s \in submitted : \A t \in sources[s] : state[t] \in Done

\* What the commands in C ask of the resource r.
Asked(r, C) == MapThenSumSet(LAMBDA s : Request[s][r], C)

\* The commands running at one moment never ask for more ram, cores or CUDA
\* devices in sum than the host has ("will not start a job unless it has
\* cores / ram available").
NoOvercommit ==
    LET running == {s \in Commands :
                       \E w \in Workers : wtask[w] = s
                           /\ wpc[w] \in {"run", "callback", "record", "finish"}}
    IN \A r \in Resources : Asked(r, running) <= MaxOf[r]

\* The workflow is reported a success only when every step has completed and
\* delivered its outputs and the workflow's outputs were collected, however
\* callbacks, failures and the generator's own report interleave.
NoFalseSuccess ==
    \A i \in 1..Len(final) : final[i] = "success" =>
        /\ ~outputsFail
        /\ \A s \in Steps : s \in completed /\ state[s] \in Done

\* What JobExecutor.execute returns once run_jobs has returned.
Result == IF final = <<>> THEN "permanentFail" ELSE final[1]

\* A workflow in which nothing failed is reported a success, and reported
\* once: run_jobs does not return before every step has run.
SuccessIsReported ==
    mpc = "done" /\ processStatus = "success" /\ ~exceptions
        /\ (\A s \in Steps : ~TooBig(s)) => Result = "success" /\ Len(final) = 1

\* "Workflow cannot make any more progress." is said only when that is so: no
\* step is ready to be submitted and no job is waiting, queued or running.
GiveUpIsFinal ==
    gaveUp' /\ ~gaveUp =>
        /\ \A s \in Steps \ submitted : ~InputsReady(s)
        /\ \A s \in Steps : Waiting(s) \cup Queued(s) \cup Held(s) = {}
HonestGiveUp == [][GiveUpIsFinal]_vars

\* Once permanentFail, always permanentFail: a temporary failure that comes
\* in later, on another thread, does not hide it.
StatusMonotone ==
    [][processStatus = "permanentFail" => processStatus' = "permanentFail"]_vars

\* An ExpressionJob that feeds s has stored its outputs, without the lock, and
\* has yet to tell the generator that there is progress.
JustStored(s) == \E w \in Workers :
    wpc[w] = "record" /\ wtask[w] \in sources[s] \ Commands

\* With --on-error continue, the generator leaves its loop over the steps only
\* when it has no step left whose inputs are there, whatever has failed: what
\* the threads complete between two looks at the steps is seen by the next one.
\* Not so for a step that cannot be made, and for one whose inputs are being
\* stored at this moment.  (After a failure the generator leaves although jobs
\* run; the steps that need those jobs' outputs are never submitted.)
LeavesNoReadyStep ==
    gpc # "exit" /\ gpc' = "exit" /\ OnError = "continue" =>
        \A s \in Steps \ submitted :
            InputsReady(s) => MakeError[s] \in EarlyErrors \/ JustStored(s)
ContinueRunsReady == [][LeavesNoReadyStep]_vars

\* While nothing has failed, every step whose inputs are there is submitted
\* before run_jobs returns.
ReadyStepsRun ==
    mpc = "done" /\ ~raised /\ processStatus = "success" =>
        \A s \in Steps : InputsReady(s) => s \in submitted

\* Whatever the threads do, the submitter sees the workflow of WorkflowSpec:
\* steps start after their sources, once; a failure is never undone; a success
\* is reported only with everything delivered, and nothing changes it.
ImplementsWorkflow == WS!Spec

\* run_jobs returns (or raises), and its threads stop.
Termination == <>(mpc = "done")
-----------------------------------------------------------------------------
(***************************************************************************)
(* The inductive invariant from which ParallelExecutor_proofs derives      *)
(* TypeOK, InFlightExact, RunOnce, DependencyOrder and NoFalseSuccess.     *)
(***************************************************************************)

\* The generator and run_job index existing entries, and a thread that calls
\* back has the job of a step.
PositionsValid ==
    /\ gpc = "made" \/ (gpc = "yield" /\ offer \in Steps) => gidx <= NumSteps
    /\ Adding \/ mpc = "reacquire" => n <= Len(pending)
    /\ \A w \in Workers :
        /\ wpc[w] \in {"callback", "record", "finish"} => wtask[w] \in Steps
        /\ wpc[w] \in {"run", "finally", "dec"} => wtask[w] \in Jobs

\* Only join puts None into the queue, after drain has emptied it; in_flight
\* never falls behind the busy threads.
FlowSound ==
    /\ mpc \in {"join", "done"} =>
        /\ \A i \in 1..Len(tqueue) : tqueue[i] = NoTask
        /\ inFlight >= Cardinality(Busying)
    /\ mpc \notin {"join", "done"} =>
        /\ \A i \in 1..Len(tqueue) : tqueue[i] # NoTask
        /\ inFlight >= Len(tqueue) + Cardinality(Busying)
                           + (IF Adding THEN 1 ELSE 0)

\* The generator has the job of s and run_job has not got it yet.
Offered(s) ==
    \/ gpc = "made" /\ CurrentStep = s
    \/ gpc = "yield" /\ offer = s /\ mpc = "take"

\* The job of s is in one place.
OnePlace(s) ==
    /\ \A i, j \in Waiting(s) : i = j
    /\ \A i, j \in Queued(s) : i = j
    /\ \A v, w \in Held(s) : v = w
    /\ Waiting(s) = {} \/ Queued(s) = {}
    /\ Held(s) # {} => Waiting(s) \cup Queued(s) = {}
    /\ Offered(s) => Waiting(s) \cup Queued(s) \cup Held(s) = {}

\* The job of s has not called back.
Ahead(s) == \/ Offered(s)
            \/ Waiting(s) \cup Queued(s) # {}
            \/ \E w \in Held(s) : wpc[w] \in {"run", "callback"}

\* What the flags of s and its outputs say about its job.
StepSound(s) ==
    /\ OnePlace(s)
    /\ Ahead(s) \/ Held(s) # {} => s \in submitted
    /\ s \in completed =>
        ~Ahead(s) /\ \A w \in Held(s) : wpc[w] # "record"
    /\ s \in completed \ submitted => MakeError[s] \in EarlyErrors
    /\ Ahead(s) => MakeError[s] = "none"
    /\ Ahead(s) \/ s \notin submitted => state[s] = "none"
    /\ \A w \in Held(s) : wpc[w] = "record" => state[s] = Stored(wres[w])
    /\ s \in submitted => \A t \in sources[s] : state[t] \in Done

\* While the workflow's status is a success, no failure is behind it.
StatusSound ==
    /\ processStatus = "success" =>
        /\ \A s \in completed : state[s] \in Done
        /\ \A w \in Workers : wpc[w] = "record" => wold[w] = "success"
        /\ gpc = "exit" => completed = Steps
    /\ NoFalseSuccess

IInv == /\ TypeOK /\ PositionsValid /\ InFlightExact /\ FlowSound
        /\ \A s \in Steps : StepSound(s)
        /\ StatusSound

\* Who holds workflow_eval_lock, and what it protects: a command's callback
\* writes the status it has tested, if every other writer takes the lock.
LockSound ==
    /\ mpc \in {"take", "scan", "ret"} => lock = Main
    /\ \A w \in Workers :
        wpc[w] \in {"record", "finish"} /\ wtask[w] \in Commands => lock = w
    /\ Commands = Steps =>
        \A w \in Workers : wpc[w] = "record" => wold[w] = processStatus

\* The commands whose resources are charged: they are on the way into the
\* queue, in it, or with a thread that has not given them back.
Charged == {s \in Commands : \/ Adding /\ pending[n] = s
                             \/ Queued(s) # {}
                             \/ \E w \in Held(s) : wpc[w] # "dec"}

\* No command asks for a CUDA device.
NoCuda == \A s \in Commands : Request[s]["cuda"] = 0

\* The allocated_ and max_ variables bound what the charged commands ask for.
\* The jobs that drain throws away stay charged.
ChargesSound ==
    /\ \A s \in Charged : ~TooBig(s)
    /\ \A r \in Resources :
        /\ allocated[r] <= MaxOf[r]
        /\ r # "cuda" \/ NoCuda => Asked(r, Charged) <= allocated[r]
        /\ mpc \notin {"drain", "join", "done"} => allocated[r] <= Asked(r, Charged)

-----------------------------------------------------------------------------
(***************************************************************************)
(* Giving up and ending.  Under Ample no job waits for resources, and then *)
(* PendingSound, PassSound and GaveUpSound are inductive with IInv and     *)
(* LockSound; the other invariants need no assumption.                     *)
(***************************************************************************)

\* The commands that run_job does not refuse fit into the host together.
Ample == \A r \in Resources : Asked(r, {s \in Commands : ~TooBig(s)}) <= MaxOf[r]

\* pending_jobs holds at most what the generator yielded last.
PendingSound ==
    /\ n = 1
    /\ pending = <<>> \/ pending = <<offer>>
    /\ pending # <<>> => /\ mpc \in {"scan", "put", "retry", "reacquire"}
                         /\ offer # NoJob /\ ~tail
    /\ IF mpc = "take" THEN ~tail ELSE tail \/ gpc = "yield"

\* A pass over the steps that has submitted none, nor seen one complete.
Fruitless == ~madeProgress /\ processStatus = "success"

\* The steps that the generator has tried since it last made progress.
Tried == IF tail \/ mpc \notin {"take", "scan", "ret"} THEN {}
         ELSE IF (gpc = "yield" /\ offer = NoJob) \/ (gpc = "sum" /\ Fruitless)
         THEN Steps
         ELSE IF gpc = "step" /\ Fruitless THEN {order[i] : i \in 1..(gidx - 1)}
         ELSE {}

\* A thread that has stored outputs cannot end its job while the main thread
\* holds the lock, so that in_flight is not 0 yet.
PassSound ==
    /\ \A s \in Steps : \E i \in 1..NumSteps : order[i] = s
    /\ gpc = "yield" /\ offer \in Steps => madeProgress
    /\ \/ \E w \in Workers : wpc[w] \in {"record", "finish", "finally"}
       \/ \A s \in Tried : s \in submitted \/ ~InputsReady(s)

\* What a pass of the generator without progress has found, with --on-error
\* continue: the steps it has passed by.
PassedBy == IF gpc = "sum" THEN Steps ELSE {order[i] : i \in 1..(gidx - 1)}
ContinueSound ==
    /\ \A s \in Steps : \E i \in 1..NumSteps : order[i] = s
    /\ gpc \notin {"yield", "end"} => mpc = "take"
    /\ gpc = "yield" /\ offer \in Steps => madeProgress
    /\ OnError = "continue" /\ ~madeProgress /\ gpc \in {"step", "sum"} =>
        \A s \in PassedBy \ submitted :
            InputsReady(s) => MakeError[s] \in EarlyErrors \/ JustStored(s)

\* The job of a submitted step is somewhere until it is recorded, unless it
\* was refused, raised, or met a failure in the generator.
AheadSound ==
    processStatus = "success" /\ ~exceptions /\ mpc \notin {"drain", "join", "done"}
        => \A s \in submitted \ completed :
               Ahead(s) \/ TooBig(s) \/ \E w \in Held(s) : wpc[w] = "record"

\* Nothing is under way after run_jobs gave up, and no step was ready.
GaveUpSound ==
    gaveUp =>
        /\ tail /\ mpc \in {"scan", "ret", "drain", "join", "done"}
        /\ Busying = {} /\ \A i \in 1..Len(tqueue) : tqueue[i] = NoTask
        /\ \A s \in Steps \ submitted : ~InputsReady(s)
        /\ processStatus = "success" /\ ~exceptions =>
               \A s \in submitted \ completed : TooBig(s)

\* How run_jobs comes to its end.
EndSound ==
    /\ tail => gaveUp \/ gpc = "end"
    /\ mpc \in {"drain", "join", "done"} => tail \/ raised
    /\ raised => exceptions
    /\ processStatus = "success" =>
        /\ completed \subseteq submitted
        /\ gpc = "end" => completed = Steps

\* Who reports a success, and that it is one report if the lock is held.
ReportsSound ==
    /\ gpc = "end" \/ didCallback => final # <<>>
    /\ processStatus = "success" =>
        /\ completed = Steps /\ (\A w \in Workers : wpc[w] # "finish")
               => final # <<>>
        /\ Commands = Steps /\ final # <<>> =>
            /\ final = <<"success">> /\ didCallback
            /\ \A w \in Workers : wpc[w] \notin {"record", "finish"}

=============================================================================
