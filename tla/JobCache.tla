------------------------------ MODULE JobCache ------------------------------
(***************************************************************************)
(* cwltool/command_line_tool.py: CommandLineTool.job with --cachedir.  One *)
(* cache directory and its ".status" lock file, and the jobs ("clients")   *)
(* of one or more cwltool processes that compute the same cache key.       *)
(*                                                                         *)
(* A client takes a shared flock on the status file and reads it.  On a    *)
(* hit it yields a CallbackJob that collects the outputs from the          *)
(* directory.  On a miss it turns the lock into an exclusive one, empties  *)
(* the directory, yields the job, and writes the job's status when the job *)
(* calls back.  A process runs its jobs one by one inside the generator's  *)
(* yield (SingleJobExecutor), or on other threads, under                   *)
(* workflow_eval_lock as in ParallelExecutor.                              *)
(***************************************************************************)
EXTENDS Naturals, FiniteSets

CONSTANTS
    Clients,     \* the jobs with this cache key
    Procs,       \* the cwltool processes
    Proc,        \* Proc[c]: the process of client c
    Threaded,    \* the processes that use MultithreadedJobExecutor
    MayFail,     \* the clients whose job may fail
    MayRaise,    \* the clients whose job may turn out impossible to make
    MaxCrashes,  \* how many processes may die
    Nobody       \* holds no lock

ASSUME CacheAssumption ==
    /\ Proc \in [Clients -> Procs] /\ Threaded \subseteq Procs
    /\ MayFail \subseteq Clients /\ MayRaise \subseteq Clients /\ MaxCrashes \in Nat
    /\ Nobody \notin Clients /\ "main" \notin Clients

VARIABLES
    content,   \* what the cache directory holds
    status,    \* what the status file holds
    shared,    \* the clients whose file descriptor has the shared flock
    exclusive, \* the client whose file descriptor has the exclusive one
    evalLock,  \* evalLock[p]: "main" has workflow_eval_lock, or Nobody has
    pc,        \* pc[c]: where client c is
    crashes    \* how many processes have died

fileVars == <<content, status>>
lockVars == <<shared, exclusive>>
vars     == <<fileVars, lockVars, evalLock, pc, crashes>>

Over    == {"done", "raised"}
Waiting == Over \cup {"new", "dead"}
Step(c, from, to) == pc[c] = from /\ pc' = [pc EXCEPT ![c] = to]
IsThreaded(c) == Proc[c] \in Threaded
Siblings(c)   == {d \in Clients \ {c} : Proc[d] = Proc[c]}

-----------------------------------------------------------------------------
\* The main thread of the process gets to the generator of c, after the
\* generators before it have been resumed: with workflow_eval_lock; or,
\* without threads, after the jobs before it have ended.
Begin(c) ==
    /\ Step(c, "new", "share")
    /\ \A d \in Siblings(c) : d \notin shared
    /\ IF IsThreaded(c)
       THEN /\ evalLock[Proc[c]] = Nobody
            /\ evalLock' = [evalLock EXCEPT ![Proc[c]] = "main"]
       ELSE /\ \A d \in Siblings(c) : pc[d] \in Waiting
            /\ UNCHANGED evalLock
    /\ UNCHANGED <<fileVars, lockVars, crashes>>

\* shared_file_lock returns.
Share(c) ==
    /\ Step(c, "share", "read")
    /\ exclusive = Nobody
    /\ shared' = shared \cup {c}
    /\ UNCHANGED <<fileVars, exclusive, evalLock, crashes>>

\* A mutant of Hit: the directory alone decides.
HitDirectory == content # "absent"

Hit == content # "absent" /\ status = "success"

\* On a hit the CallbackJob is yielded, and an executor with threads gives up
\* workflow_eval_lock to add it to its queue.
ReadHit(c) ==
    /\ Step(c, "read", "collect")
    /\ Hit
    /\ evalLock' = [evalLock EXCEPT ![Proc[c]] = Nobody]
    /\ UNCHANGED <<fileVars, lockVars, crashes>>

\* On a miss the lock is upgraded: flock drops the shared lock first.
ReadMiss(c) ==
    /\ Step(c, "read", "upgrade")
    /\ ~Hit
    /\ shared' = shared \ {c}
    /\ UNCHANGED <<fileVars, exclusive, evalLock, crashes>>

\* A mutant of CanUpgrade: readers are not waited for.
CanUpgradeReaders == exclusive = Nobody

CanUpgrade == exclusive = Nobody /\ shared = {}

\* upgrade_lock returns.
Upgrade(c) ==
    /\ Step(c, "upgrade", "clear")
    /\ CanUpgrade
    /\ exclusive' = c
    /\ UNCHANGED <<fileVars, shared, evalLock, crashes>>

\* rmtree and makedirs; then the job is made and yielded.
Clear(c) ==
    /\ Step(c, "clear", "run")
    /\ content' = "partial"
    /\ evalLock' = [evalLock EXCEPT ![Proc[c]] = Nobody]
    /\ UNCHANGED <<status, lockVars, crashes>>

\* The directory was emptied and then making the job raised: it is never
\* yielded, the status file keeps what it holds, and closing it as the
\* generator is freed gives the exclusive lock up.
MakeRaises(c) ==
    /\ c \in MayRaise
    /\ Step(c, "clear", "raised")
    /\ content' = "partial"
    /\ exclusive' = Nobody
    /\ evalLock' = [evalLock EXCEPT ![Proc[c]] = Nobody]
    /\ UNCHANGED <<status, shared, crashes>>

\* The job runs; it leaves all of its outputs, or fails.
Run(c) ==
    \/ /\ Step(c, "run", "succeeded")
       /\ content' = "complete"
       /\ UNCHANGED <<status, lockVars, evalLock, crashes>>
    \/ /\ c \in MayFail
       /\ Step(c, "run", "failed")
       /\ UNCHANGED <<fileVars, lockVars, evalLock, crashes>>

\* A mutant of Report: only a success is written down.
ReportSuccess(c) ==
    /\ \/ Step(c, "succeeded", "done") /\ status' = "success"
       \/ Step(c, "failed", "done") /\ UNCHANGED status
    /\ IsThreaded(c) => evalLock[Proc[c]] = Nobody
    /\ exclusive' = Nobody
    /\ UNCHANGED <<content, shared, evalLock, crashes>>

\* A mutant of Report: the status file is not closed.
ReportOpen(c) ==
    /\ \/ Step(c, "succeeded", "done") /\ status' = "success"
       \/ Step(c, "failed", "done") /\ status' = "permanentFail"
    /\ IsThreaded(c) => evalLock[Proc[c]] = Nobody
    /\ UNCHANGED <<content, lockVars, evalLock, crashes>>

\* update_status_output_callback: a worker thread calls it under
\* workflow_eval_lock.  Closing the file gives the exclusive lock up.
Report(c) ==
    /\ \/ Step(c, "succeeded", "done") /\ status' = "success"
       \/ Step(c, "failed", "done") /\ status' = "permanentFail"
    /\ IsThreaded(c) => evalLock[Proc[c]] = Nobody
    /\ exclusive' = Nobody
    /\ UNCHANGED <<content, shared, evalLock, crashes>>

\* CallbackJob.run has collected the outputs and called back.
Collect(c) ==
    /\ Step(c, "collect", "done")
    /\ UNCHANGED <<fileVars, lockVars, evalLock, crashes>>

\* A mutant of Close: the lock is given up before the job has run.
CloseEarly(c) ==
    /\ pc[c] \in {"collect", "done"} /\ c \in shared
    /\ shared' = shared \ {c}
    /\ UNCHANGED <<fileVars, exclusive, evalLock, pc, crashes>>

\* The generator is resumed after its yield and closes the status file:
\* without threads, once the CallbackJob has run.
Close(c) ==
    /\ pc[c] \in {"collect", "done"} /\ c \in shared
    /\ IF IsThreaded(c) THEN evalLock[Proc[c]] = Nobody ELSE pc[c] = "done"
    /\ shared' = shared \ {c}
    /\ UNCHANGED <<fileVars, exclusive, evalLock, pc, crashes>>

\* A process dies, and the kernel closes its files.
Crash(p) ==
    /\ crashes < MaxCrashes
    /\ \E c \in Clients : Proc[c] = p /\ pc[c] \notin Over
    /\ crashes' = crashes + 1
    /\ pc' = [c \in Clients |-> IF Proc[c] = p /\ pc[c] \notin Over
                                THEN "dead" ELSE pc[c]]
    /\ shared' = {c \in shared : Proc[c] # p}
    /\ exclusive' = IF exclusive # Nobody /\ Proc[exclusive] = p
                    THEN Nobody ELSE exclusive
    /\ evalLock' = [evalLock EXCEPT ![p] = Nobody]
    /\ UNCHANGED fileVars

ClientStep(c) ==
    \/ Begin(c) \/ Share(c) \/ ReadHit(c) \/ ReadMiss(c) \/ Upgrade(c)
    \/ Clear(c) \/ MakeRaises(c) \/ Run(c) \/ Report(c) \/ Collect(c) \/ Close(c)

\* A cache that nobody has used yet.
Init ==
    /\ content = "absent" /\ status = ""
    /\ shared = {} /\ exclusive = Nobody
    /\ evalLock = [p \in Procs |-> Nobody]
    /\ pc = [c \in Clients |-> "new"]
    /\ crashes = 0

Next == (\E c \in Clients : ClientStep(c)) \/ (\E p \in Procs : Crash(p))

\* Threads are scheduled, jobs end, and a lock that is given up again and
\* again is eventually granted.
Fairness == \A c \in Clients : SF_vars(ClientStep(c))

Spec == Init /\ [][Next]_vars /\ Fairness

-----------------------------------------------------------------------------
(* Properties *)

TypeOK ==
    /\ content \in {"absent", "partial", "complete"}
    /\ status \in {"", "success", "permanentFail"}
    /\ shared \subseteq Clients /\ exclusive \in Clients \cup {Nobody}
    /\ evalLock \in [Procs -> {"main", Nobody}]
    /\ pc \in [Clients -> {"new", "share", "read", "collect", "upgrade", "clear",
                           "run", "succeeded", "failed", "done", "raised", "dead"}]
    /\ crashes \in 0..MaxCrashes

\* No process has died and no job was impossible to make, so far.  Either may
\* leave the status of an earlier job beside a directory emptied since.
Undisturbed == crashes = 0 /\ \A c \in Clients : pc[c] # "raised"

\* "get the shared lock to ensure no other process is trying to write to this
\* cache": while a CallbackJob collects its outputs from the cache directory,
\* the directory holds the complete outputs of a job.  Not so with an executor
\* with threads, which closes the status file before the CallbackJob runs, and
\* after a process died or a job could not be made over an emptied directory.
SerialCollectsComplete ==
    Undisturbed =>
        \A c \in Clients : pc[c] = "collect" /\ ~IsThreaded(c) => content = "complete"

\* When nobody has the exclusive lock, a status of "success" describes the
\* directory: the job that filled it ended well and nothing was removed since,
\* unless a process died or the making of a job raised in between.
StatusHonest ==
    exclusive = Nobody /\ status = "success" /\ Undisturbed => content = "complete"

\* The main thread of a process with threads waits, with workflow_eval_lock, for
\* the flock of another of its own jobs, which needs workflow_eval_lock to end.
SelfBlocked ==
    \E c \in Clients : IsThreaded(c) /\ pc[c] = "share" /\ exclusive \in Siblings(c)

\* Every job of every process that does not die ends, unless a process with
\* threads has two jobs with this key and waits for itself for good; then the
\* others wait for it.
AllEnd ==
    \/ <>(\A c \in Clients : pc[c] \in Over \cup {"dead"} /\ c \notin shared)
    \/ <>[]SelfBlocked

-----------------------------------------------------------------------------
(* The inductive invariant behind the theorems. *)

\* Who has which lock, and that nobody shares a lock that is exclusive.
Filling == {"clear", "run", "succeeded", "failed"}
LocksSound ==
    /\ exclusive # Nobody => shared = {}
    /\ \A c \in Clients :
        /\ pc[c] \in Filling <=> exclusive = c
        /\ pc[c] = "read" \/ (pc[c] = "collect" /\ ~IsThreaded(c)) => c \in shared

\* What the lock holders know of the directory.
ContentSound ==
    \A c \in Clients :
        /\ pc[c] = "succeeded" => content = "complete"
        /\ pc[c] = "collect" /\ c \in shared /\ Undisturbed => content = "complete"

IInv == TypeOK /\ LocksSound /\ ContentSound /\ StatusHonest
=============================================================================
