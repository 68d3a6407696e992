----------------------------- MODULE TaskQueue -----------------------------
(***************************************************************************)
(* cwltool/task_queue.py: a FIFO queue of tasks and the threads that run   *)
(* them.  The queue holds at most as many tasks as there are threads; a    *)
(* None in the queue stops the thread that takes it.                       *)
(*                                                                         *)
(* What a task does between "run" and "dec" belongs to the module that     *)
(* extends this one.  thread_count = 0 (run the task inside add) is not    *)
(* modelled: the only user passes ceil(max_cores), which is at least 1.    *)
(***************************************************************************)
EXTENDS Integers, Sequences, FiniteSets

CONSTANTS
    Workers,   \* the threads
    NoTask     \* the None that stops a thread

ASSUME WorkersAssumption == IsFiniteSet(Workers) /\ Workers # {}

VARIABLES
    tqueue,    \* task_queue
    inFlight,  \* in_flight
    pills,     \* how many None join() has put
    wpc,       \* wpc[w]: where thread w is
    wtask      \* wtask[w]: its task

threadCount == Cardinality(Workers)
queueVars   == <<tqueue, inFlight, pills>>
threadVars  == <<wpc, wtask>>
tqVars      == <<queueVars, threadVars>>

QueueFull == Len(tqueue) >= threadCount

\* add, before its loop.
AddCount ==
    /\ inFlight' = inFlight + 1
    /\ UNCHANGED <<tqueue, pills, threadVars>>

\* task_queue.put inside add; it times out only while the queue is full.
AddPut(task) ==
    /\ ~QueueFull
    /\ tqueue' = Append(tqueue, task)
    /\ UNCHANGED <<inFlight, pills, threadVars>>

\* _task_queue_func takes the next task, or stops.
Get(w) ==
    /\ wpc[w] = "get"
    /\ tqueue # <<>>
    /\ tqueue' = Tail(tqueue)
    /\ IF Head(tqueue) = NoTask
       THEN wpc' = [wpc EXCEPT ![w] = "exit"] /\ UNCHANGED wtask
       ELSE /\ wpc' = [wpc EXCEPT ![w] = "run"]
            /\ wtask' = [wtask EXCEPT ![w] = Head(tqueue)]
    /\ UNCHANGED <<inFlight, pills>>

\* A mutant of Dec: in_flight is not decremented.
DecNot(w) ==
    /\ wpc[w] = "dec"
    /\ wpc' = [wpc EXCEPT ![w] = "get"]
    /\ wtask' = [wtask EXCEPT ![w] = NoTask]
    /\ UNCHANGED queueVars

\* The finally clause of _task_queue_func.
Dec(w) ==
    /\ wpc[w] = "dec"
    /\ inFlight' = inFlight - 1
    /\ wpc' = [wpc EXCEPT ![w] = "get"]
    /\ wtask' = [wtask EXCEPT ![w] = NoTask]
    /\ UNCHANGED <<tqueue, pills>>

\* drain throws one queued task away; in_flight keeps counting it.
DrainOne ==
    /\ tqueue # <<>>
    /\ tqueue' = Tail(tqueue)
    /\ UNCHANGED <<inFlight, pills, threadVars>>

\* join puts a None for each thread, waiting while the queue is full.
JoinPut ==
    /\ pills < threadCount
    /\ ~QueueFull
    /\ tqueue' = Append(tqueue, NoTask)
    /\ pills' = pills + 1
    /\ UNCHANGED <<inFlight, threadVars>>

\* Every t.join() of join returns.
Joined == pills = threadCount /\ \A w \in Workers : wpc[w] = "exit"

TqInit ==
    /\ tqueue = <<>> /\ inFlight = 0 /\ pills = 0
    /\ wpc = [w \in Workers |-> "get"]
    /\ wtask = [w \in Workers |-> NoTask]
=============================================================================
