---------------------------- MODULE JobLifecycle ----------------------------
(***************************************************************************)
(* cwltool/job.py: the operating system processes of command line jobs,    *)
(* from Popen to the callback, with the timer of a time limit, the monitor *)
(* of a container and the removal of files with secrets; and main.py:      *)
(* what SIGTERM and the end of the program do to them.                     *)
(*                                                                         *)
(* The jobs run one after the other on the main thread, or each on a       *)
(* thread of its own.  "proc" is the process cwltool starts and waits for, *)
(* "tool" is what does the work: the same process for a "direct" job, a    *)
(* child of the shell for a "scripted" one, a container for a "docker" one.*)
(* What docker and bash do with signals is modelled as external.  At most  *)
(* one SIGTERM arrives.                                                    *)
(***************************************************************************)
EXTENDS Integers, Sequences, FiniteSets

CONSTANTS
    NumJobs,    \* jobs are numbered in the order they start
    KindChoices, \* the assignments of kinds to the jobs
    Limited,    \* the jobs with a time limit
    Stubborn,   \* the jobs whose tool ignores SIGTERM
    Secretive   \* the jobs that made files with secrets

Jobs == 1..NumJobs

ASSUME LifecycleAssumption ==
    /\ NumJobs \in Nat \ {0}
    /\ KindChoices # {}
    /\ KindChoices \subseteq [Jobs -> {"direct", "scripted", "docker"}]
    /\ Limited \subseteq Jobs /\ Stubborn \subseteq Jobs
    /\ Secretive \subseteq Jobs

VARIABLES
    kind,       \* kind[j]
    threaded,   \* each job has its thread
    pc,         \* pc[j]: where _execute is
    proc,       \* proc[j]: "none", "running" or "ended"
    tool,       \* tool[j]: "none", "running" or "ended"
    code,       \* code[j]: the return code of proc, "none" while it runs
    term,       \* term[j]: the tool got a SIGTERM
    timer,      \* timer[j]: "off", "armed", "fired" or "cancelled"
    cid,        \* cid[j]: the cidfile is "absent", "present" or, left by a
                \* monitor that failed, "kept"
    status,     \* status[j]: processStatus
    calls,      \* calls[j]: how often output_callback was called
    toKill,     \* processes_to_kill
    hpc,        \* where the main thread is with ending the program
    hjob,       \* the job of the process it has popped, 0 if none
    early,      \* the jobs whose cidfile it looked for too early
    signalled   \* SIGTERM has arrived

jobVars  == <<pc, status, calls>>
osVars   == <<proc, tool, code, term>>
exitVars == <<hpc, hjob, early, signalled>>
given    == <<kind, threaded>>
vars     == <<given, jobVars, osVars, timer, cid, toKill, exitVars>>

Over(j) == pc[j] \in {"ended", "raised", "aborted", "unlisted"}
Gone    == hpc = "gone"

\* The thread of j executes: on the main thread, the jobs before it have
\* ended, none has raised, and no signal is being handled.
Runs(j) ==
    \/ threaded /\ ~Gone
    \/ ~threaded /\ hpc = "none" /\ \A i \in 1..(j - 1) : pc[i] = "ended"

Goto(j, p) == pc' = [pc EXCEPT ![j] = p]

\* Where a job is once the main thread has left it: "unlisted" if its process
\* had been started but not yet listed.
Left(j) == IF Over(j) THEN pc[j]
           ELSE IF pc[j] = "spawned" THEN "unlisted" ELSE "aborted"

-----------------------------------------------------------------------------
(* _execute and _job_popen, on the thread of j. *)

\* Popen starts the process.
Spawn(j) ==
    /\ Runs(j) /\ pc[j] = "start"
    /\ proc' = [proc EXCEPT ![j] = "running"]
    /\ tool' = [tool EXCEPT ![j] = IF kind[j] = "docker" THEN "none" ELSE "running"]
    /\ Goto(j, "spawned")
    /\ UNCHANGED <<given, status, calls, code, term, timer, cid, toKill, exitVars>>

\* A mutant of Fails: the handler of the exception returns.
FailsSilently(j) ==
    /\ Runs(j) /\ pc[j] \in {"start", "collect"}
    /\ status' = [status EXCEPT ![j] = "permanentFail"]
    /\ Goto(j, "ended")
    /\ UNCHANGED <<given, calls, osVars, timer, cid, toKill, exitVars>>

\* Something in the try block raises: before Popen, Popen itself, or the
\* collection of the outputs.
Fails(j) ==
    /\ Runs(j) /\ pc[j] \in {"start", "collect"}
    /\ status' = [status EXCEPT ![j] = "permanentFail"]
    /\ Goto(j, "scrub")
    /\ UNCHANGED <<given, calls, osVars, timer, cid, toKill, exitVars>>

\* A mutant of List: only containers are listed.
ListContainers(j) ==
    /\ Runs(j) /\ pc[j] = "spawned"
    /\ toKill' = IF kind[j] = "docker" THEN Append(toKill, j) ELSE toKill
    /\ timer' = [timer EXCEPT ![j] = IF j \in Limited THEN "armed" ELSE "off"]
    /\ Goto(j, IF kind[j] = "docker" THEN "poll" ELSE "wait")
    /\ UNCHANGED <<given, status, calls, osVars, cid, exitVars>>

\* A mutant of List: containers have no time limit.
ListUntimed(j) ==
    /\ Runs(j) /\ pc[j] = "spawned"
    /\ toKill' = Append(toKill, j)
    /\ timer' = [timer EXCEPT ![j] = IF j \in Limited /\ kind[j] # "docker"
                                     THEN "armed" ELSE "off"]
    /\ Goto(j, IF kind[j] = "docker" THEN "poll" ELSE "wait")
    /\ UNCHANGED <<given, status, calls, osVars, cid, exitVars>>

\* The process is listed, the timer is started, and the monitor entered;
\* process_monitor only waits as well.
List(j) ==
    /\ Runs(j) /\ pc[j] = "spawned"
    /\ toKill' = Append(toKill, j)
    /\ timer' = [timer EXCEPT ![j] = IF j \in Limited THEN "armed" ELSE "off"]
    /\ Goto(j, IF kind[j] = "docker" THEN "poll" ELSE "wait")
    /\ UNCHANGED <<given, status, calls, osVars, cid, exitVars>>

\* A mutant of PollEnded: it waits for the cidfile only.
PollEndedNot(j) ==
    /\ Runs(j) /\ pc[j] = "poll" /\ proc[j] = "ended"
    /\ Goto(j, "peek")
    /\ UNCHANGED <<given, status, calls, osVars, timer, cid, toKill, exitVars>>

\* docker_monitor: the process has ended; the cidfile, if any, is removed.
PollEnded(j) ==
    /\ Runs(j) /\ pc[j] = "poll" /\ proc[j] = "ended"
    /\ cid' = [cid EXCEPT ![j] = "absent"]
    /\ Goto(j, "wait")
    /\ UNCHANGED <<given, status, calls, osVars, timer, toKill, exitVars>>

\* The process runs, so the cidfile may come.
PollRunning(j) ==
    /\ Runs(j) /\ pc[j] = "poll" /\ proc[j] = "running"
    /\ Goto(j, "peek")
    /\ UNCHANGED <<given, status, calls, osVars, timer, cid, toKill, exitVars>>

\* The cidfile is read, or the loop begins again.
Peek(j) ==
    /\ Runs(j) /\ pc[j] = "peek"
    /\ Goto(j, IF cid[j] = "present" THEN "stats" ELSE "poll")
    /\ UNCHANGED <<given, status, calls, osVars, timer, cid, toKill, exitVars>>

\* The statistics cannot be had; the monitor returns at once.
StatsFail(j) ==
    /\ Runs(j) /\ pc[j] = "stats"
    /\ cid' = [cid EXCEPT ![j] = "kept"]
    /\ Goto(j, "wait")
    /\ UNCHANGED <<given, status, calls, osVars, timer, toKill, exitVars>>

\* The monitor waits for the process, and removes the cidfile.
StatsEnd(j) ==
    /\ Runs(j) /\ pc[j] = "stats" /\ proc[j] = "ended"
    /\ cid' = [cid EXCEPT ![j] = "absent"]
    /\ Goto(j, "wait")
    /\ UNCHANGED <<given, status, calls, osVars, timer, toKill, exitVars>>

\* "ok" stands for the successCodes, "temp" for the temporaryFailCodes, "bad"
\* for all others and for signals.
Codes == {"ok", "temp", "bad"}
StatusOf(c) == CASE c = "ok" -> "success"
                 [] c = "temp" -> "temporaryFail"
                 [] OTHER -> "permanentFail"

\* A mutant of Wait: returncode is read without waiting.
WaitNot(j) ==
    /\ Runs(j) /\ pc[j] = "wait"
    /\ timer' = [timer EXCEPT ![j] = IF @ = "armed" THEN "cancelled" ELSE @]
    /\ status' = [status EXCEPT ![j] = IF code[j] = "none" THEN "success"
                                       ELSE StatusOf(code[j])]
    /\ Goto(j, "collect")
    /\ UNCHANGED <<given, calls, osVars, cid, toKill, exitVars>>

\* sproc.wait returns; only the direct branch cancels the timer.
Wait(j) ==
    /\ Runs(j) /\ pc[j] = "wait" /\ proc[j] = "ended"
    /\ timer' = IF timer[j] = "armed" /\ kind[j] # "scripted"
                THEN [timer EXCEPT ![j] = "cancelled"] ELSE timer
    /\ status' = [status EXCEPT ![j] = StatusOf(code[j])]
    /\ Goto(j, "collect")
    /\ UNCHANGED <<given, calls, osVars, cid, toKill, exitVars>>

\* The outputs are collected.
Collect(j) ==
    /\ Runs(j) /\ pc[j] = "collect"
    /\ Goto(j, "scrub")
    /\ UNCHANGED <<given, status, calls, osVars, timer, cid, toKill, exitVars>>

\* Files with secrets are removed.
Scrub(j) ==
    /\ Runs(j) /\ pc[j] = "scrub"
    /\ Goto(j, "callback")
    /\ UNCHANGED <<given, status, calls, osVars, timer, cid, toKill, exitVars>>

\* os.remove raises, and so does job.run.
ScrubRaises(j) ==
    /\ Runs(j) /\ pc[j] = "scrub" /\ j \in Secretive
    /\ Goto(j, "raised")
    /\ UNCHANGED <<given, status, calls, osVars, timer, cid, toKill, exitVars>>

\* The callback takes workflow_eval_lock, which the main thread holds while
\* it joins the threads.
Callback(j) ==
    /\ Runs(j) /\ pc[j] = "callback" /\ hpc # "join"
    /\ calls' = [calls EXCEPT ![j] = @ + 1]
    /\ Goto(j, "ended")
    /\ UNCHANGED <<given, status, osVars, timer, cid, toKill, exitVars>>

JobStep(j) ==
    \/ Spawn(j) \/ Fails(j) \/ List(j)
    \/ PollEnded(j) \/ PollRunning(j) \/ Peek(j) \/ StatsFail(j) \/ StatsEnd(j)
    \/ Wait(j) \/ Collect(j) \/ Scrub(j) \/ ScrubRaises(j) \/ Callback(j)

-----------------------------------------------------------------------------
(* Processes, tools and the timer. *)

\* proc[j] ends with code c; a direct job's tool is that process.
ProcEnds(j, c) ==
    /\ proc' = [proc EXCEPT ![j] = "ended"]
    /\ code' = [code EXCEPT ![j] = c]
    /\ tool' = IF kind[j] = "direct" THEN [tool EXCEPT ![j] = "ended"] ELSE tool

\* The tool ends with code c, and with it the process that waits for it.
ToolEndsWith(j, c) ==
    /\ tool[j] = "running"
    /\ tool' = [tool EXCEPT ![j] = "ended"]
    /\ IF proc[j] = "running"
       THEN /\ proc' = [proc EXCEPT ![j] = "ended"]
            /\ code' = [code EXCEPT ![j] = c]
       ELSE UNCHANGED <<proc, code>>
    /\ UNCHANGED <<given, jobVars, term, timer, cid, toKill, exitVars>>

\* The tool ends by itself.
ToolEnds(j) == \E c \in Codes : ToolEndsWith(j, c)

\* The tool ends because of the SIGTERM, with any code.
Obey(j) ==
    /\ term[j] /\ j \notin Stubborn
    /\ \E c \in Codes : ToolEndsWith(j, c)

\* docker run writes the cidfile and starts the container.
DockerStart(j) ==
    /\ kind[j] = "docker" /\ proc[j] = "running" /\ tool[j] = "none"
    /\ tool' = [tool EXCEPT ![j] = "running"]
    /\ cid' = [cid EXCEPT ![j] = "present"]
    /\ UNCHANGED <<given, jobVars, proc, code, term, timer, toKill, exitVars>>

\* The time limit is over: Popen.terminate, which does nothing to a process
\* that has ended.  A shell, or docker before there is a container, dies of
\* it; docker hands it on to the container.
TimerFires(j) ==
    /\ timer[j] = "armed" /\ ~Gone
    /\ timer' = [timer EXCEPT ![j] = "fired"]
    /\ IF proc[j] = "ended" THEN UNCHANGED osVars
       ELSE IF kind[j] = "scripted" \/ tool[j] = "none"
       THEN ProcEnds(j, "bad") /\ UNCHANGED term
       ELSE term' = [term EXCEPT ![j] = TRUE] /\ UNCHANGED <<proc, tool, code>>
    /\ UNCHANGED <<given, jobVars, cid, toKill, exitVars>>

-----------------------------------------------------------------------------
(* _signal_handler, _terminate_processes and run, on the main thread. *)

\* SIGTERM: _signal_handler interrupts the main thread.
Signal ==
    /\ hpc = "none"
    /\ hpc' = "pop" /\ signalled' = TRUE
    /\ UNCHANGED <<given, jobVars, osVars, timer, cid, toKill, hjob, early>>

\* Nothing is left to do, or a job raised: run goes to its finally clause.
MainEnds ==
    /\ hpc = "none"
    /\ \/ \A j \in Jobs : Over(j)
       \/ ~threaded /\ \E j \in Jobs : pc[j] = "raised"
    /\ hpc' = "last"
    /\ pc' = [j \in Jobs |-> Left(j)]
    /\ UNCHANGED <<given, status, calls, osVars, timer, cid, toKill, hjob, early,
                   signalled>>

\* _terminate_processes, called by the handler ("pop") or by run ("last").
Looping == hpc \in {"pop", "last"}

PopProcess ==
    /\ Looping /\ hjob = 0 /\ toKill # <<>>
    /\ hjob' = Head(toKill) /\ toKill' = Tail(toKill)
    /\ UNCHANGED <<given, jobVars, osVars, timer, cid, hpc, early, signalled>>

\* A mutant of LookForContainer: it trusts that killing docker is enough.
LookForContainerNot ==
    /\ hjob > 0
    /\ hjob' = -hjob
    /\ UNCHANGED <<given, jobVars, osVars, timer, cid, toKill, hpc, early,
                   signalled>>

\* A container is killed by the id in its cidfile, if that is there.
LookForContainer ==
    /\ hjob > 0
    /\ IF kind[hjob] = "docker" /\ cid[hjob] # "absent"
       THEN /\ tool' = [tool EXCEPT ![hjob] = "ended"]
            /\ proc' = [proc EXCEPT ![hjob] = "ended"]
            /\ code' = IF proc[hjob] = "running"
                       THEN [code EXCEPT ![hjob] = "bad"] ELSE code
       ELSE UNCHANGED <<tool, proc, code>>
    /\ early' = IF kind[hjob] = "docker" /\ cid[hjob] = "absent"
                THEN early \cup {hjob} ELSE early
    /\ hjob' = -hjob
    /\ UNCHANGED <<given, jobVars, term, timer, cid, toKill, hpc, signalled>>

\* A mutant of KillProcess: SIGTERM instead of SIGKILL.
KillProcessSoftly ==
    /\ hjob < 0
    /\ term' = [term EXCEPT ![-hjob] = TRUE]
    /\ hjob' = 0
    /\ UNCHANGED <<given, jobVars, proc, tool, code, timer, cid, toKill, hpc,
                   early, signalled>>

\* After at most ten seconds the process is killed, whatever it does.
KillProcess ==
    /\ hjob < 0
    /\ IF proc[-hjob] = "running" THEN ProcEnds(-hjob, "bad")
                                  ELSE UNCHANGED <<proc, tool, code>>
    /\ hjob' = 0
    /\ UNCHANGED <<given, jobVars, term, timer, cid, toKill, hpc, early,
                   signalled>>

\* sys.exit: the exception leaves the job on the main thread, or run_jobs,
\* whose finally clause empties the queue and joins the threads.
SysExit ==
    /\ hpc = "pop" /\ hjob = 0 /\ toKill = <<>>
    /\ IF threaded
       THEN /\ hpc' = "join"
            /\ \E D \in SUBSET {j \in Jobs : pc[j] = "start"} :
                   pc' = [j \in Jobs |-> IF j \in D THEN "aborted" ELSE pc[j]]
       ELSE /\ hpc' = "last"
            /\ pc' = [j \in Jobs |-> Left(j)]
    /\ UNCHANGED <<given, status, calls, osVars, timer, cid, toKill, hjob, early,
                   signalled>>

Joined ==
    /\ hpc = "join" /\ \A j \in Jobs : Over(j)
    /\ hpc' = "last"
    /\ UNCHANGED <<given, jobVars, osVars, timer, cid, toKill, hjob, early,
                   signalled>>

Exit ==
    /\ hpc = "last" /\ hjob = 0 /\ toKill = <<>>
    /\ hpc' = "gone"
    /\ UNCHANGED <<given, jobVars, osVars, timer, cid, toKill, hjob, early,
                   signalled>>

EndStep ==
    \/ MainEnds \/ PopProcess \/ LookForContainer \/ KillProcess
    \/ SysExit \/ Joined \/ Exit

-----------------------------------------------------------------------------
Init ==
    /\ kind \in KindChoices /\ threaded \in BOOLEAN
    /\ pc = [j \in Jobs |-> "start"]
    /\ proc = [j \in Jobs |-> "none"] /\ tool = [j \in Jobs |-> "none"]
    /\ code = [j \in Jobs |-> "none"] /\ term = [j \in Jobs |-> FALSE]
    /\ timer = [j \in Jobs |-> "off"] /\ cid = [j \in Jobs |-> "absent"]
    /\ status = [j \in Jobs |-> "none"] /\ calls = [j \in Jobs |-> 0]
    /\ toKill = <<>>
    /\ hpc = "none" /\ hjob = 0 /\ early = {} /\ signalled = FALSE

Next ==
    \/ \E j \in Jobs : JobStep(j) \/ ToolEnds(j) \/ Obey(j) \/ DockerStart(j)
                       \/ TimerFires(j)
    \/ Signal \/ EndStep

\* Threads run, a timer fires, docker starts a container, a tool that does
\* not ignore SIGTERM ends after it.  A tool need not end by itself.
Fairness ==
    /\ \A j \in Jobs : /\ WF_vars(JobStep(j)) /\ WF_vars(Obey(j))
                       /\ WF_vars(DockerStart(j)) /\ WF_vars(TimerFires(j))
    /\ WF_vars(EndStep)

Spec == Init /\ [][Next]_vars /\ Fairness

-----------------------------------------------------------------------------
(* Properties *)

TypeOK ==
    /\ kind \in KindChoices /\ threaded \in BOOLEAN
    /\ pc \in [Jobs -> {"start", "spawned", "poll", "peek", "stats", "wait",
                        "collect", "scrub", "callback", "ended", "raised",
                        "aborted", "unlisted"}]
    /\ proc \in [Jobs -> {"none", "running", "ended"}]
    /\ tool \in [Jobs -> {"none", "running", "ended"}]
    /\ code \in [Jobs -> Codes \cup {"none"}]
    /\ term \in [Jobs -> BOOLEAN]
    /\ timer \in [Jobs -> {"off", "armed", "fired", "cancelled"}]
    /\ cid \in [Jobs -> {"absent", "present", "kept"}]
    /\ status \in [Jobs -> {"none", "success", "temporaryFail", "permanentFail"}]
    /\ calls \in [Jobs -> 0..1]
    /\ toKill \in Seq(Jobs)
    /\ hpc \in {"none", "pop", "join", "last", "gone"}
    /\ hjob \in -NumJobs..NumJobs
    /\ early \subseteq Jobs /\ signalled \in BOOLEAN

\* The job has got past its process.
Past(j) == Over(j) \/ pc[j] \in {"collect", "scrub", "callback"}

\* When the program ends without a signal, every job whose _execute was started
\* has called back, once, whether its process could be started or not, timed out,
\* failed or lost its outputs; only the removal of files with secrets may take
\* the callback away.
EveryJobCallsBack ==
    Gone /\ ~signalled =>
        \A j \in Jobs : calls[j] = 1 \/ (pc[j] = "raised" /\ j \in Secretive)
                        \/ (pc[j] = "aborted" /\ proc[j] = "none")

\* A job succeeds, or fails for the time being, only when its own tool ended and
\* said so: no kill, late timer or monitor that returned early makes a success,
\* and no tool is at work on the outputs while they are collected.
SuccessIsTheTools ==
    \A j \in Jobs : Past(j) /\ status[j] \in {"success", "temporaryFail"} =>
        code[j] # "none" /\ status[j] = StatusOf(code[j]) /\ tool[j] = "ended"

\* When the program has ended, no tool that it started is left running,
\* except one it had not listed when SIGTERM came, the child of a shell, and
\* a container whose cidfile was not there yet.
NothingLeftRunning ==
    Gone => \A j \in Jobs : tool[j] = "running" =>
        \/ kind[j] = "scripted"
        \/ j \in early
        \/ pc[j] = "unlisted"

\* The cidfile of a container does not outlive its job, unless the monitor
\* failed.
CidfileRemoved ==
    \A j \in Jobs : Past(j) /\ pc[j] \notin {"aborted", "unlisted"} => cid[j] # "present"

\* A job with a time limit gets past its process, whatever its tool does,
\* unless it ignores SIGTERM.
TimeLimitHolds ==
    \A j \in Limited \ Stubborn : pc[j] \in {"poll", "wait"} ~> Past(j)

\* A job whose process has ended notices, also when the process ended before
\* there was a cidfile.
EndIsNoticed == \A j \in Jobs : proc[j] = "ended" ~> Past(j)

-----------------------------------------------------------------------------
(* The inductive invariant behind the theorems. *)

\* The process, its tool and what is known of its end.
ProcSound(j) ==
    /\ pc[j] = "start" => proc[j] = "none"
    /\ pc[j] \in {"spawned", "poll", "peek", "stats", "wait"} => proc[j] # "none"
    /\ proc[j] = "none" => /\ tool[j] = "none" /\ code[j] = "none"
                           /\ timer[j] = "off" /\ cid[j] = "absent"
    /\ kind[j] = "direct" => tool[j] = proc[j]
    /\ code[j] \in {"ok", "temp"} => tool[j] = "ended" /\ proc[j] = "ended"
    /\ status[j] = "success" => code[j] = "ok"
    /\ status[j] = "temporaryFail" => code[j] = "temp"

\* Once the monitor has returned, no cidfile can come any more.
CidSound(j) ==
    /\ kind[j] # "docker" => cid[j] = "absent"
    /\ pc[j] \in {"poll", "peek", "stats"} => kind[j] = "docker"
    /\ cid[j] # "absent" => tool[j] # "none"
    /\ pc[j] = "stats" => cid[j] = "present"
    /\ pc[j] \in {"wait", "collect", "scrub", "callback", "ended", "raised"} =>
        /\ cid[j] # "present"
        /\ kind[j] # "docker" \/ tool[j] # "none" \/ proc[j] # "running"

CallSound(j) ==
    /\ calls[j] = IF pc[j] = "ended" THEN 1 ELSE 0
    /\ pc[j] = "raised" => j \in Secretive

\* A tool that runs, or a container that may still come, is on its way to be
\* killed, or is one of those that NothingLeftRunning excepts.
Live(j) == tool[j] = "running" \/ (proc[j] = "running" /\ tool[j] = "none")
Listed(j) == \/ \E i \in 1..Len(toKill) : toKill[i] = j
             \/ hjob = j
             \/ hjob = -j /\ kind[j] = "direct"
KillSound(j) ==
    Live(j) /\ kind[j] # "scripted" /\ j \notin early =>
        pc[j] \in {"spawned", "unlisted"} \/ Listed(j)

\* How far the program is with its end.
InTurn == ~threaded /\ hpc = "none" =>
    \A i, j \in Jobs : i < j /\ pc[j] # "start" => pc[i] = "ended"
EndSound ==
    /\ hpc \in {"pop", "join"} => signalled
    /\ ~signalled => \A j \in Jobs : pc[j] \in {"aborted", "unlisted"} =>
           hpc # "none" /\ pc[j] = "aborted" /\ proc[j] = "none"
    /\ hpc \in {"last", "gone"} => \A j \in Jobs : Over(j)
    /\ hjob # 0 => Looping
    /\ Gone => toKill = <<>>

IInv ==
    /\ TypeOK
    /\ \A j \in Jobs : ProcSound(j) /\ CidSound(j) /\ CallSound(j) /\ KillSound(j)
    /\ InTurn /\ EndSound
=============================================================================
