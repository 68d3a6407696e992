# cwltool in TLA+

Models of the parts of [cwltool](https://github.com/common-workflow-language/cwltool)
in which several things happen at once or a long sequence of steps has to come
out right, checked with TLC on small instances. About each of them theorems are
also proved with TLAPS, for every instance; both executors are shown to implement
one abstract workflow. Paths below are relative to the repository; line numbers
are those of the commit this directory was written for. `PROJECT.json` maps every definition to the lines it stands for.

## 1. The system

cwltool loads a CWL document, turns it into a tree of `Process` objects and
asks the root process for *jobs*: `Process.job` is a Python generator that
yields a job that can be run now, or `None` when it has nothing until some
running job ends. An executor pulls on that generator and runs what it yields.
A job reports its outputs and its status by calling back, and callbacks chain:
job -> scatter or loop -> `WorkflowJob.receive_output` -> executor.

| component | state | operations | interacts with |
|---|---|---|---|
| `WorkflowJob` (workflow_job.py) | `state`, `processStatus`, `made_progress`, `did_callback`, `submitted`/`completed` of each step | the generator `job`, `try_make_job`, `receive_output`, `do_output_callback` | called by the executor's main thread (generator) and by whoever runs jobs (callback) |
| scatter (workflow_job.py) | `ReceiveScatterOutput`: completed indices, status, total; the generators of the items | `receive_scatter_output`, `setTotal`, `parallel_steps`, three scatter methods | between a step and the jobs of its items |
| loop (workflow_job.py) | `joborder`, `processStatus`, `iteration` | the generator, `loop_callback` | between a step and the job of one iteration |
| `SingleJobExecutor`, `MultithreadedJobExecutor` (executors.py) | `pending_jobs`, allocated resources, `exceptions`, `workflow_eval_lock` | `run_jobs`, `run_job`, `_runner`, `wait_for_next_completion` | generator, task queue |
| `TaskQueue` (task_queue.py) | a bounded queue, `in_flight`, threads | `add`, `drain`, `join`, the worker loop | executor, `_runner` |
| `MutationManager` (mutation.py) | generation and readers of each file | `register_reader`, `release_reader`, `register_mutation`, `set_generation` | main thread when a job is made, worker when its outputs are collected |
| job cache (command_line_tool.py) | a directory and a status file with a `flock` | lookup, fill, collect | other cwltool processes, executor |
| job life cycle (job.py, docker.py, singularity.py, udocker.py, main.py) | process, timer, monitor thread, `processes_to_kill` | `_execute`, `_job_popen`, `docker_monitor`, signal handlers | operating system, executor |
| process generators (procgenerator.py) | embedded job's status | `ProcessGeneratorJob.job` | embedded tool, executor |
| staging (pathmapper.py, process.py) | the path map | `visit`, `stage_files`, `relocateOutputs`, `cleanIntermediate` | file system |
| secrets (secrets.py) | placeholder -> secret | `add`, `retrieve`, `has_secret` | builder, job |
| resources (process.py, executors.py) | none | `evalResources`, `select_resources` | job making |
| checker, subgraph, update, pack, load_tool, builder, provenance, command line | mostly pure functions over documents | | |

What makes each correct:

* **WorkflowJob with an executor** - a step starts when its sources have
  delivered, once; the workflow is reported once, with the worst status of its
  steps; the executor stops exactly when nothing can progress any more; what
  runs at one time fits the host. Hard because `receive_output` runs on other
  threads than the generator, `TaskQueue.add` gives the lock up in the middle
  of a scan of `pending_jobs`, and the decision to stop is taken from a counter
  that is kept under another lock.
* **Scatter, loop** - report once, when everything has ended, the worst status;
  an iteration sees the outputs of the one before it. Hard because some items
  end while the scatter is still being set up, and because the loop polls what
  the callback writes.
* **MutationManager** - a file under update is in nobody else's hands. Hard
  because registration and release happen on different threads at different
  times, may be refused halfway, and do not happen at all for jobs that fail.
* **Job cache** - outputs are collected from a complete directory, the status
  describes the directory. Hard because of lock upgrades, crashes and threads.
* **Job life cycle** - a job calls back once however it ends, a success is the
  tool's own word, and nothing is left running. Hard because the process, its
  container, the timer of a time limit, the container's monitor and a signal
  handler all go their own way.
* **Process generators** - a step whose tool is written by another tool is
  reported once, with the worst of the two.
* **Staging of outputs** - every output can be read where the output object says
  it is, nothing is lost in between, and a user's file, the cache and a foreign
  file in the destination stay as they are. Hard because outputs are links and
  files, alone and in directories, that wish for the same names.

## 2. Modules

| module | models | state and actions |
|---|---|---|
| `WorkflowSpec` | what the submitter of a workflow may rely on; abstract | `phase` of each step, the `verdict` so far, the `reports`. `Start`, `Deliver`, `Skip`, `Fail` move one step, `Degrade` and `Report` the workflow |
| `WorkflowJob` | `WorkflowJob` of workflow_job.py, one job per step | `submitted`, `completed`, `state`, `processStatus`, `madeProgress`, `didCallback`, `final` are the fields (and what was handed to the executor's callback); `gpc`, `gidx`, `offer` are the suspended generator. `Gen*` are the pieces of `job` and `try_make_job`; `StoreOutput`, `RecordStatus`, `ReceiveFinish` are the pieces of `receive_output` between which another thread can run. `WS` instantiates `WorkflowSpec`: the phase of a step follows from `submitted`, `completed` and `state` |
| `TaskQueue` | task_queue.py | `tqueue`, `inFlight`, `wpc`, `wtask`; one action per step of `add`, the worker loop, `drain`, `join` |
| `ParallelExecutor` | `MultithreadedJobExecutor`; EXTENDS the two above | `mpc` and `n` are the main thread's place in `run_jobs` and `run_job`; `lock` is the owner of `workflow_eval_lock`; `pending`, `allocated`, `exceptions` are the fields. `Main*` run on the main thread, `Worker*` on a worker |
| `SerialExecutor` | `SingleJobExecutor` and `ProcessGeneratorJob`; EXTENDS `WorkflowJob` | `epc` is the place in the for loop over the generator; `part` and `embedded` are a process generator's place and the status of its embedded tool; `ended` records how each step's job ended. `Run`, `Callback`, `Record`, `Finish`, `Resume` are one turn of the loop, `Pg*` the pieces of `ProcessGeneratorJob.job` |
| `Scatter` | `ReceiveScatterOutput`, `parallel_steps`, the three scatter functions | `rc[r]` is a `ReceiveScatterOutput` (0 is the outer or only one), `todo` is what the scatter function has still to do, `phase`/`result` belong to the items |
| `LoopStep` | `WorkflowJobLoopStep` | `joborder` counts the iterations whose outputs are in it; `CallbackStatus`, `CallbackOrder` are `loop_callback` before and after it sets the status the generator polls |
| `MutationManager` | mutation.py and its callers in command_line_tool.py | `generation`, `readers` are the manager's; `objs` are the File objects that travel between steps; `phase`, `use`, `gens`, `todo` belong to the jobs |
| `JobCache` | the `--cachedir` part of `CommandLineTool.job` and the locks of utils.py | `content`, `status` are on disk, `shared`, `exclusive` are the flock, `pc` is where each client is |
| `JobLifecycle` | `_execute`, `_job_popen` and `docker_monitor` of job.py; `_signal_handler`, `_terminate_processes` and `run` of main.py | for each job: `pc` in `_execute`; `proc`, what cwltool waits for; `tool`, what does the work; `code`, `timer`, `cid` (the cidfile), `status`, `calls`. `toKill` is `processes_to_kill`; `hpc`, `hjob` are the main thread's place in ending the program. What docker, bash and tools do with signals is external |
| `Outputs` | `relocateOutputs`, `PathMapper.visit`, `stage_files`, `cleanIntermediate` | `fs` is the disk, `out` the output objects and what they list, `visits` the calls of `visit` still to be made, `pm` the path map in its order, `turn` how far the loop at `pc` is, `moves` the calls of `_relocate` still to be made, `where` the locations written back. `ExpandNext` is `get_listing` for one object, `VisitNext` one call of `visit`, `UnclashNext` and `StageNext` one turn of the first and the second pass of `stage_files`, `RelocateNext` one call of `_relocate`. The operations on a disk (`realpath`, `shutil.move`, `copytree`) are operators. What the code does by recursion is a loop over the work that is left |
| `ParallelExecutor_proofs`, `SerialExecutor_proofs`, `Scatter_proofs`, `LoopStep_proofs`, `MutationManager_proofs`, `JobCache_proofs`, `JobLifecycle_proofs`, `Outputs_proofs` | | the theorems of section 4 |
| `MCParallel`, `MCSerial`, `MCScatter`, `MCLoop`, `MCMutation`, `MCCache`, `MCJobs`, `MCOutputs` | | values of the constants for TLC |

How code becomes actions. An action is the code between two points where
another thread, process or the suspended generator can come in: taking or
giving up `workflow_eval_lock`, a queue operation, a yield, an assignment that
another thread reads, a system call another process sees. `receive_output` is
three actions because an `ExpressionJob` calls it without the lock
(command_line_tool.py:175-195); for a `JobBase` (job.py:449-451) the three run
under the lock and only appear to be interruptible. What is abstracted: the
values of inputs and outputs (only which outputs exist and with which status),
names (except in `Outputs`, where a name is a sequence of pieces so that one can
begin with another), logging, provenance calls. Definitions called "a mutant of
X" are variants of X with a bug a programmer could make; they are not part of
any specification, and show for every checked property that it depends on the
code.

Choices that a document or command line fixes (the connections of the steps,
`method`, `onError`, `skip`, `usesOutputs`, the kinds of jobs, the options about
outputs, whether outputs can be collected) are variables without a next value:
`Init` chooses them, so that one run covers all of them. Loading shuffles the
steps (workflow.py); `order` is any permutation.

## 3. Runs

| run | instance | shows |
|---|---|---|
| `par_join` | 3 steps, all six shapes of dependencies up to renaming in all orders, 2 threads, room for 2 commands | `InFlightExact`, `RunOnce`, `SuccessIsReported`, `HonestGiveUp`: `in_flight` is exact, no step runs twice, a workflow whose jobs succeed is reported a success once, and giving up is justified |
| `par_tight` | 3 steps, alone or joined; two commands fail in every way, the third is skipped or cannot be made; ram for one; `continue` | `DependencyOrder`, `NoOvercommit`, `NoFalseSuccess`, `StatusMonotone`; `ImplementsWorkflow`, the refinement of `WorkflowSpec`; `IInv`, the invariant of the proofs |
| `par_refused` | 4 steps, 1 thread, an `ExpressionJob`, a job too big for the host, one that may fail; `continue` | `ContinueRunsReady` (the generator leaves its loop only when no step is ready, also after the failure) and `Termination`, with a full queue and a dropped job |
| `serial` | 4 steps in five shapes, every job ending in every way, one a process generator whose embedded tool may fail, raise or never call back, one skipped or impossible to make; `continue` | `CallsBackOnce`, `ReportsWorst`, `ContinueRunsIndependent`, `HonestGiveUp`, `ImplementsWorkflow` |
| `scatter` | 2 x 2 items, 3 methods, any items skipped, one that cannot be made, one whose inputs cannot be evaluated, two whose generators may raise, `stop` and `continue` | `TypeOK` (no index outside the result), `ReportOnce`, `ReportWorst`, `ReportComplete`, `Reported` |
| `loop` | up to 3 iterations, any status, `when` may raise anywhere | `FreshInputs`, `FailureKept`, `EndsOnce` |
| `mutation` | 3 jobs, 2 files, symmetric | `Exclusive`, and `IInv`, the invariant of the proofs |
| `cache` | 5 jobs, 3 processes (two jobs in turn; two on threads; alone), two may turn out impossible to make, 1 crash | `SerialCollectsComplete`, `StatusHonest`, `AllEnd` |
| `jobs` | 2 jobs, every kind first and second, the first with a time limit, the second deaf to SIGTERM and with secrets; on threads and without; SIGTERM at any moment | `EveryJobCallsBack`, `SuccessIsTheTools`, `NothingLeftRunning`, `TimeLimitHolds`, `EndIsNoticed` |
| `outputs` | up to 3 of 11 output objects (files in a job's directory, in the cache and in the destination, with a secondary file in another output and with a `dirname`, links to a user's file and directory, literals, directories that hold others), 3 disks, move, copy and leave, with and without cache and clean-up | `IInv`, the invariant of the proofs, `Delivered`, `NothingLost`, `OthersKept`, `CleanedUp` |
| `bug_join`, `bug_giveup` | 3 steps, 2 threads | violated, see below |

Bounds. Two threads are the fewest at which two callbacks interleave with each
other and with the main thread; one thread is the fewest at which the queue is
full (its capacity is the number of threads). Three steps are the fewest with a
join, a fork and a chain; the generator's decisions look at one step at a time
and at whether the pass made progress, and four steps appear in `par_refused`
and `serial`, where the fourth is the one that has no job. Two by two items are
the fewest for which the rows of a nested crossproduct and the numbering of a
flat one differ from a list. Three iterations: the first, one in the middle, the
last. A file needs one job that updates it and two others; a second file lets a
job be refused between two registrations. The cache entry has one writer, one
reader, one waiter, one that comes later, and one that waits for its own process. Two jobs let one start while the
other is killed, and one be left behind when the other raises. Three outputs are
the fewest where a renamed target can meet the target of a third; the eleven
objects are chosen so that any two compete for a name, a directory or a link. No chain of
links on the three disks is longer than `MaxLinks`, which is 2; a longer one would
read like one that does not end. No
link in a directory that is put out leads to a directory (`LinksAssumption`): a
copy of what is below it is not modelled.

Deadlock is checked in `par_join`, `par_refused` and `serial`, where `Finished`
is the only step after `run_jobs` has returned. `par_tight` does not check it,
because its jobs raise and `bug_join` applies; `jobs` does not, because with
threads SIGTERM makes the program wait for ever (below); the other models end.

Fairness. `ParallelExecutor`: weak fairness of the main thread and of each
worker (the operating system schedules threads; jobs end; a put with a time
limit is retried; `wait` has a three-second limit), strong fairness of taking
the lock, which everyone gives up after bounded work: without it a worker could
be overtaken for ever by a main thread that wakes up every three seconds.
`Scatter`, `LoopStep`: weak fairness of the generator, which an executor asks
again as long as jobs run, and of each job. `JobCache`: strong fairness of each
client, a `flock` that is free again and again being granted. `JobLifecycle`:
weak fairness of each job's thread, of a timer that is armed, of docker starting
a container, of a tool that obeys a SIGTERM, and of the end of the program; a
tool need not end by itself, which is what a time limit is for. No fairness is
assumed of crashes, failures or signals, and none at all in `SerialExecutor` and
`Outputs`, which are checked for what they may not do.

### Where the code does not do what is said of it

Two runs check a property that the text of the code states and that it does not
have; `PROJECT.json` quotes the text.

* `bug_join` - an exception in one job leaves `run_jobs` with
  `workflow_eval_lock` held; its finally clause joins threads that need the
  lock. cwltool hangs.
* `bug_giveup` - a pending job is started after the generator is exhausted of
  ready jobs, ends before `TaskQueue.add` has the lock back, and `run_jobs`
  finds `in_flight` = 0: "Workflow cannot make any more progress", although the
  outputs that just arrived make another step ready. The workflow fails.

Other behaviours met while modelling, most of them reproducible by changing a
constant of a run above; the properties above say where they stop short of them:

* `run_job` charges `cudaDevices` but compares and refunds `cudaDeviceCount`
  (executors.py:427): devices are never reserved. With `MaxCuda = 1` and jobs
  that ask for one device each, `NoOvercommit` fails.
* With `OnError = "stop"`, a temporary failure of one of three independent
  commands is reported by the generator while others run and again by the last
  of them: `SuccessIsReported` counts the reports only when nothing failed.
* With `continue`, the threaded executor's generator ends at the first pass
  without progress after a failure (workflow_job.py:844-846), also when jobs are
  running, so a step whose inputs arrive later is skipped depending on timing.
  What holds with failures is `ContinueRunsReady`: no step that is ready at the
  end of that pass is left out, but for a step that cannot be made and one an
  `ExpressionJob` is feeding at this moment, without the lock. That every ready
  step has been submitted when `run_jobs` returns (`ContinueRunsIndependent`)
  holds with failures without threads, and with threads while nothing failed
  (`ReadyStepsRun`, `ContinueHolds`).
* Two `ExpressionJob`s, or one and a command, may both find that all steps are
  completed, and both report; or one may overwrite "permanentFail" with a
  temporary failure it decided on before: `SuccessIsReported` and
  `StatusMonotone` are checked for commands.
* After a stop on failure `run_jobs` may return with pending jobs it never
  started. Nothing depends on them any more.
* "skipped" overwrites "temporaryFail" in `receive_scatter_output`
  (workflow_job.py:107): `ReportWorst` excludes it. All items of a dotproduct or
  nested crossproduct skipped: the step's callback is called twice (`ReportOnce`
  excludes it). A scatter that stops on a temporary failure never calls back
  (`Reported` is about `continue`), and the executor's giving up makes it a
  permanent failure.
* A scatter whose `postScatterEval` raises while items are made
  (workflow_job.py:190, 262, 312: `valueFrom`, `loadContents`, `when`), or whose
  item's generator raises something other than a `WorkflowException`, which
  workflow_job.py:159 does not catch, ends with the exception. `try_make_job`
  hands it on or logs it and sets `completed`; the step's callback is never
  called, and items that run report to nobody. The value "raised" of `gen` is this
  end; `Reported` names it and `ReportOnce` says that it comes without a report.
* A loop goes on after an iteration that failed temporarily, unless it needs
  its outputs (`Fatal`). With `WithLock = FALSE`, as for an `ExpressionJob`
  under threads, the next iteration may start with the previous joborder:
  `FreshInputs` fails, hence `WithLock = TRUE` in the run and in the theorems.
* A file with an `inputBinding` is registered as read twice and released once:
  later in-place updates of it are refused for good. Safe, so `Exclusive` holds.
* Cache: with threads, the shared lock on an entry is given up as soon as the
  job that will collect from it is queued (command_line_tool.py:974), so another
  process may empty the directory first. An upgrade drops the shared lock and
  does not read the status again, so completed outputs can be thrown away and
  recomputed. A process that dies after emptying the directory leaves the old
  status, and so does one whose job turns out impossible to make after that
  (command_line_tool.py:1006-1239, `MakeRaises`): `StatusHonest` and
  `SerialCollectsComplete` are stated for runs without either (`Undisturbed`). A
  second job with the same key in one process with threads waits for a flock of
  its own process while it holds `workflow_eval_lock`, for ever, and so does
  everyone behind it: `AllEnd` says that this (`SelfBlocked`) is the only way not
  to end.
* Jobs: a SIGTERM between `Popen` and the append to `processes_to_kill`
  (job.py:1057) leaves the process running, and so does one that comes before
  the cidfile is there (main.py:132) for the container; `terminate` reaches only
  the shell of a scripted job (job.py:1071), so a time limit or a kill leaves
  its child running while the outputs are collected; with threads, SIGTERM
  raises in the main thread, whose finally clause joins threads that need the
  lock it holds, as in `bug_join`; a tool that handles SIGTERM and exits with a
  success code makes a job that ran out of time a success; an error in the
  removal of files with secrets (job.py:444) skips the callback, and so does
  what `run` raises before it calls `_execute` (`_setup`, the staging of inputs,
  obtaining the image), which is outside the model.
  `NothingLeftRunning` and `EveryJobCallsBack` name the exceptions.
* Outputs (`Apart` excludes these): two directories, or a directory and a file,
  of one name; an output that already lies where another is to go; a file whose target
  is an existing directory; an output that a `dirname` sends below another one; a
  directory that is moved with a link in it, which may
  be left dangling. A file that `dedup` leaves out, because a directory of the
  output holds it, takes its `secondaryFiles` with it, and so does the second of two
  outputs with one location: if nothing else brings them, `_check_adjust` ends in a
  KeyError after everything has been moved (`AllMapped`, which `Delivered`
  assumes). A secondary file, or a file that a literal directory lists, that lies in
  a directory visited later is taken out of it: it is beside its file or in the
  literal directory, and the output object says so, but the
  directory at the destination lacks it (`Delivered` accepts the place the
  file's own object gives). A `dirname` reaches this code in the output of an
  expression or on a directory, for `revmap_file` removes it from a tool's files
  (command_line_tool.py:262); one that leads out of the destination is obeyed
  (`TidyDirs` excludes it). And `--leave-outputs` leaves the outputs in directories that the
  default `--rm-tmpdir` removes afterwards (executors.py:153-161): `Delivered`
  asks for `--leave-tmpdir` with it.

## 4. Proofs

Each module of proofs has one lemma per action, or per group of actions that
disturb the same parts of the invariant, and ends with `Spec => []IInv` and the
theorems that follow from it. `par_tight`, `mutation` and `outputs` also check the invariant
of the proofs, so that a reader can see it on an instance.

### The executor with threads

`ParallelExecutor_proofs` proves about the executor, for every finite set of
steps and of threads, every graph, every outcome of the jobs, every request for
resources, both values of `--on-error`, and with or without `ExpressionJob`s
(that is, also where `receive_output` runs without the lock):

* `Invariance`: `Spec => []IInv`, and from it
* `TypeCorrect`, `InFlightExactHolds`: `in_flight` is exact and never negative;
* `RunOnceHolds`, `DependencyOrderHolds`: each step at most once, and after its
  sources;
* `NoFalseSuccessHolds`: a success is never reported falsely, by whichever of
  the generator and the threads reports it, once or (see above) twice;
* `StatusMonotoneHolds`: if every step is a command, a permanent failure stays
  one. The hypothesis is needed (see above). With it `LockSound` says why:
  whoever runs the generator or a command's callback holds
  `workflow_eval_lock`, so the status a callback writes over is the one it
  tested. `LockInvariance` proves that without the hypothesis where it is about
  the lock alone.

* `ContinueRunsReadyHolds`: with `continue` the generator leaves no ready step
  behind when it leaves its loop. `ContinueSound` is the invariant: in a pass that
  made no progress, each step it has passed by (`PassedBy`) is submitted, not ready,
  cannot be made, or is being fed by a thread that does not hold the lock. Such
  a thread makes steps ready behind the generator's back, and sets
  `made_progress` (workflow_job.py:577) only after it has stored the outputs.

It assumes what the named assumptions of the modules say: steps and threads are
finite and not empty, `None` is not a job, commands are steps and have requests.

None of these is inductive alone. `PositionsValid` says that the generator and
`run_job` index existing entries, and `FlowSound` that a `None` is in the queue
only after it was drained and that `in_flight` never falls behind the threads;
`FlowSound` carries the count over the drain, where `InFlightExact` ends. These
are preserved by themselves and give `TypeOK` and `InFlightExact`. `StepSound`
follows the one job of a step through five places (the generator's hand,
`pending_jobs`, the queue, a thread, nowhere): while it is ahead of its callback
the step has no outputs and is not completed, and a submitted step's sources
have delivered. So `StoreOutput` can never overwrite the outputs of a source:
its step still had none. `RunOnce` is the same fact with cardinalities.
`StatusSound` says that while the status is a success, every completed step has
delivered, no thread is about to write over a failure it has not seen, and the
generator leaves its loop only with all steps completed.

It also shows `ParallelImplements`: `Spec =>
ImplementsWorkflow`. The refinement mapping of `WorkflowJob` reads a step's phase
off `submitted`, `completed` and `state`; every action of the generator and of a
worker is one action of `WorkflowSpec` or changes nothing it sees. The step
that needs an argument is the one that stores the outputs of a job: `StepSound`
says that the step has none yet, so it is "active"; and a report of success
needs `StatusSound`. So the abstract promises (a step starts once and after its
sources, what it delivered stays, a failure is never forgotten by a success) hold
of every interleaving.

Four theorems have hypotheses on the constants, each because the property is
false without it; the hypotheses say which promise the code keeps:

* `NoOvercommitHolds` assumes `NoCuda` (no command asks for a CUDA device;
  without it devices are never reserved, see above). Ram and cores are arbitrary.
  `ChargesSound`, which for ram and cores is proved without the hypothesis, says
  that the `allocated_` variables are at least what the `Charged` commands ask for, and
  until `drain` not more; `drain` throws queued jobs away that stay charged.
* `HonestGiveUpHolds` assumes `Ample`: the commands that `run_job` does not
  refuse fit into the host together. `bug_giveup` is the counterexample where
  they do not. Then nothing waits in `pending_jobs` for resources
  (`PendingSound`); a pass of the generator without progress has tried every
  step (`PassSound`), and no thread is between storing outputs and the end of
  its job, since it needs the lock to get there; so `in_flight` = 0 means that
  nothing is on its way.
* `ContinueHolds` (`ReadyStepsRun`) assumes `Ample`: `GaveUpSound` says that no step was ready when `run_jobs` gave up, and
  `EndSound` that the generator ends by itself only with all steps completed.
* `SuccessIsReportedHolds` assumes `Ample`, `Acyclic` (checker.py refuses a
  workflow with a cycle when it is loaded) and `Commands = Steps` (so that
  `receive_output` has the lock; otherwise two threads may report). If no job
  failed and `run_jobs` gave up, `AheadSound` says that every submitted step has
  completed; among the steps that are not submitted one has no source among
  them, so it is ready, which contradicts `GaveUpSound`. `ReportsSound` carries the
  number of reports.

`Ample` and `Acyclic` are needed only for these; everything listed first holds for
every request and every graph. What a set of commands asks for is a fold. No
induction theorem can be instantiated here, so the lemmas about it (one command
more or less, monotone, never negative) take a smallest set for which the claim
fails and get a contradiction from the set with one element fewer.

### The executor without threads

`SerialExecutor_proofs` proves, for every workflow, every outcome and every set
of process generators: `SerialInvariance`, `SerialTypes`, `SerialCallsBackOnce`,
`SerialReportsWorst`, `SerialContinues` and, with the same refinement mapping,
`SerialImplements`; and, for graphs without a cycle (`Acyclic`), `SerialHonestGiveUp`. The invariant: `Positions` (where the for loop and the
generator are together), `StepSound` (the job of a step that is `Ahead` has not
stored anything, one that is `Recording` has stored what its end says),
`ReportSound` (there is at most one report, and when), `VerdictSound` (the status
is the worst of what happened so far, except for the one step that is
`Unsettled`, whose failure is on its way) and `ScanSound` (a pass over the steps
without progress has `Taken` every step that is ready). `VerdictSound` is what
carries `ReportsWorst`: no single assignment to `processStatus` computes a
maximum, and that the sequence of them does needs the history of the jobs.
`SerialHonestGiveUp` adds `PassSound` (a pass without progress has found no step
ready) and `AheadSound` (while nothing failed, a submitted step is under way,
completed, or a process generator that is only polled): if `run_jobs` gives up
and every submitted step had completed, then a step without a source among those
not submitted would be ready. Without `Acyclic` two steps that feed each other
are given up on although nothing failed.
The lemmas about `WorkflowJob` that both executors need are at the beginning of
both modules.

### Scatter

`Scatter_proofs` proves, for every number of rows and columns (0 included), the
three methods, any items skipped, any that cannot be made, evaluated or whose
generators raise, jobs that end in any order and with any status, and both values of `--on-error`: `ScatterInvariance`
and from it `ScatterTypes` (no index outside the result), `ScatterReportsOnce`,
`ScatterReportsWorst`, `ScatterReportsComplete` and `ScatterNeverSilent`, the
safety part of `Reported`: `parallel_steps` ends without an exception only after
the step's callback was called, and yields None for ever only with `stop`. With an
exception (`RaisedSound`) some item has no job yet, so nothing is reported.

`HeardSound` says that the indices a `ReceiveScatterOutput` has received are those
of the items that ended, and that the outer one of a nested crossproduct has
received a row exactly when all of it ended, except for a row of skipped items
whose `setTotal` is still to come. Completeness is then a matter of numbering:
the running index of `flat_crossproduct_scatter` is injective and reaches every
number from 1 to the product (`FlatPlaceInjective`, `FlatPlaceOnto`), so that a set of
received indices that is full means that every item ended; the code only compares
two lengths. `TotalsSound` and `SetupSound` say that nothing is reported, and no job
runs, while the scatter function still works and a total is 0 or not yet final.
`StatusSound` follows a permanent failure from the item to its row and on to the
step, which hears of a row only when the row is complete and its status final.
`ReportSound` says that the callback was called with the last index, not before.

### In-place updates

`MutationManager_proofs` proves, for every set of jobs and every set of files
(no assumption on either, not even finiteness):

* `Invariance`: `Spec => []IInv`, and from it
* `TypeCorrect`: `[]TypeOK`; in particular no reader count becomes negative;
* `ExclusiveHolds`: `[]Exclusive`, the promise of the class's docstring;
* `ReleaseAcceptedHolds`: `release_reader` never raises;
* `NoPeekingHolds`: no File object carries the generation of an update that is
  still under way.

`Exclusive` alone is not inductive: from a state in which a reader is not in
the list, `register_mutation` would let a second job in. `IInv` adds what the
manager's bookkeeping means: `ReadersListed` (a job that reads a file and has
not released it is listed and holds the current generation; one that has not
registered is not listed), `MutatorAhead` (a job that updates a file got the
generation before the current one, and no object has the current one yet) and
`ObjectsBehind` (no object is ahead of the current generation). Then a second
update is refused because the object it got has an older generation, a read
beside an update for the same reason, and an update beside a read because the
list is not empty.

### Loops, cache and life cycle of jobs

`LoopStep_proofs`, for loops of any length whose jobs call back with the lock
(an assumption of each theorem: without the lock `FreshInputs` fails):
`FreshInputsHolds`, `OneAtATimeHolds`, `FailureKeptHolds`. `LastUnderWay` says
that only the last job may be unfinished and that the status the generator polls
is empty exactly while it runs; `OrderSound` relates the joborder to the number
of jobs, with the last one's outputs missing until its callback is over;
`FailureSeen` says what a status other than "permanentFail" tells of the
iterations so far.

`JobCache_proofs`, for any number of jobs and processes:
`SerialCollectsCompleteHolds` and `StatusHonestHolds`. `LocksSound` says who has
the flock in which state, `ContentSound` what the holders know of the directory.
The theorems are about runs in which no process has died and no job was impossible
to make.

`JobLifecycle_proofs`, for any number of jobs of any kinds:
`EveryJobCallsBackHolds`, `SuccessIsTheToolsHolds`, `NothingLeftRunningHolds`,
`CidfileRemovedHolds`. For each job, `ProcSound` relates process, tool and return
code, `CidSound` says that no cidfile can come once the monitor has returned,
`KillSound` that a tool that is or may come alive is listed in
`processes_to_kill`, in the hands of the one who kills, or one of the exceptions;
`InTurn` and `EndSound` say how far the program is. `KillSound` is the reason for
`NothingLeftRunning`: at the end the list is empty and the hands are, too.

### The output files

`Outputs_proofs` proves about the relocation, for every disk, every output object,
all directories and every choice of move, copy and leave, with and without a cache:

* `OutputsTypes`; and `NoTwoFilesAtOnePlace`, what fix_conflicts is for: from the
  first pass of `stage_files` on no two Files with one target are different files;
* `OutputsInvariance`, `CleanedUpHolds`, and `NothingLostCopied`: `NothingLost` if
  the action is not to move;
* `OthersKeptHolds`, for behaviours in which no directory that is moved holds a
  link (`LinkFree`; outputs that are copied or left are always so). The hypothesis
  is needed: a rename takes links along, and a merge into the directory would
  later follow them and write where they lead.

All but the first line assume `TidyDirs`: the destination and the directories of the
jobs are apart, no link leads into or out of the destination, no `dirname` leads
out of it, and no name on the
disk goes on where that of a job's directory ends. The last is about a comparison
of strings (`os.path.commonprefix([p, src]) == p`, process.py:342), by which
`/tmp/ab` is in the directory `/tmp/a`; cwltool's own directories have random names
of a fixed length. `MCOutputs` checks that the run's instance is tidy.

A step of the staging acts through `realpath` on a disk that earlier steps have
changed, so that what it writes cannot be read off the path map alone. `PlacesSound`
says that the locations in the path map held no link at the beginning and that
every target, also of a secondary file or one with a `dirname`, is in the destination; `DiskSound`, that no link has appeared since
and that every path that is neither at or below a target (`Written`) nor in a
directory to move from (`Given`) is as it was, but for directories made on the way;
so the paths that `_relocate` gets are real still, and it writes where it was told
to (`MovesReal`). `MovesSound` ties the calls that are left to the entry at hand.
`SrcGiven` says that what the comparison of strings allows to be moved is in a job's
directory and nothing that was staged before. What the operators do to a disk is
stated once for each (`MakeDirsFacts`, `GraftFacts`, `MoveFacts`, `RenamedFacts`,
`CopyOverFacts`): which paths stay, and that no link is made. `RealPath` is a
function on the length of the chain, which exists because the chain is bounded
(`ChainExists`).

### Only model-checked

Of `Outputs`, `Delivered`, and `NothingLost` of outputs that are moved: that what
was moved has arrived, and stays where it arrived, needs a history of every tree
that was grafted and the independence of all targets (`Apart`), which is checked
on the instance only. Liveness under fairness (`Termination`, `Reported`,
`AllEnd`, `TimeLimitHolds`, `EndIsNoticed`) is beyond the prover, and so is
`ENABLED`. Of `SuccessIsReported` and `HonestGiveUp` of the threaded executor, the
instance of `par_join`, which is outside the hypothesis `Ample`: it has room for
two commands of three. There they hold because of the shapes of the graphs and
the requests; for those of `bug_giveup` they fail.

## 5. Not modelled

`PROJECT.json` lists every part with its status. Outside on purpose:

* parsing, rewriting and printing (load_tool, update, pack, subgraph, argparser,
  cwlrdf, the formatting of command lines and of docker's options), provenance
  documents, globbing. Expressions and globbing appear in the models as results
  that may fail;
* `object_from_state` appears as "all sources have delivered": `pickValue`,
  `linkMerge` and type matching are left out; the input binding of builder.py
  and the type checks of checker.py are pure recursive functions over schemas
  without a bound that would make them small. The models assume what
  checker.py checks: no workflow in a run has a cycle;
* staging of a tool's inputs (links, writable copies), `process_monitor`,
  writing to the process's standard input, building and pulling of images;
* nested workflows, and scatter and loops inside an executor: scatter and loops
  have modules of their own, in which the executor is the fairness;
* KeyboardInterrupt, `--validate`, and values of `on_error` other than the two;
* jshint/jshint.js and its wrapper: a vendored bundle of a JavaScript linter
  that JavaScript expressions are handed to. It is the work of another project,
  generated and without state that cwltool depends on.

## 6. Plan

Done: `WorkflowSpec`, `WorkflowJob`, `TaskQueue`, both executors and the process
generators, `Scatter`, `LoopStep`, `MutationManager`, `JobCache`, `JobLifecycle`,
`Outputs`; the refinement of `WorkflowSpec` by both executors; proofs about all.

Left, in this order: `NothingLost` of moves and `Delivered` for every instance,
with an invariant that says of each file moved where it is; nested workflows, and
scatter composed with `WorkflowJob` (a scatter that stops while other steps run);
staging of inputs with the same operators as `Outputs`; `match_types` and `object_from_state` with
`pickValue` and `linkMerge`, `evalResources` and `select_resources` as operators
against reference definitions; the secret store, in which a secret added twice
gets two placeholders.
