---------------------- MODULE ParallelExecutor_proofs ----------------------
(***************************************************************************)
(* Proofs about ParallelExecutor, for any workflow, any number of threads, *)
(* any requests and any outcomes of the jobs.                              *)
(***************************************************************************)
EXTENDS ParallelExecutor, FiniteSetTheorems, WellFoundedInduction, TLAPS

-----------------------------------------------------------------------------
(* The generator and the callback of WorkflowJob. *)

LEMMA NumStepsFacts ==
    /\ NumSteps \in Nat \ {0}
    /\ \A S \in SUBSET Steps : Cardinality(S) = NumSteps => S = Steps
<1>1. NumSteps \in Nat /\ NumSteps # 0
    BY StepsAssumption, FS_CardinalityType, FS_EmptySet DEF NumSteps
<1>2. ASSUME NEW S \in SUBSET Steps, Cardinality(S) = NumSteps PROVE S = Steps
    BY StepsAssumption, <1>2, FS_Subset DEF NumSteps
<1> QED BY <1>1, <1>2

LEMMA WfInitTypes == WfInit => WfTypeOK
<1> SUFFICES ASSUME WfInit PROVE WfTypeOK
    OBVIOUS
<1> USE DEF WfInit
<1>1. order \in [1..NumSteps -> Steps]
    BY DEF Bijection, Injection
<1>2. gidx \in 1..(NumSteps + 1)
    BY NumStepsFacts
<1>3. final \in Seq({"success"} \cup Failures)
    OBVIOUS
<1> QED BY <1>1, <1>2, <1>3 DEF WfTypeOK, Jobs, Status

LEMMA StatusTypes ==
    ASSUME NEW r \in Results, NEW old \in {"success"} \cup Failures,
           processStatus \in {"success"} \cup Failures
    PROVE  /\ Stored(r) \in Status \cup {"none"}
           /\ Stored(r) = "success" \/ Judged(r) \in Failures
           /\ Judged(r) \in {"success"} \cup Failures
    BY DEF Results, Stored, Judged, Status, Done, Failures

LEMMA DoOutputCallbackTypes ==
    ASSUME processStatus \in {"success"} \cup Failures,
           final \in Seq({"success"} \cup Failures), DoOutputCallback
    PROVE  /\ processStatus' \in {"success"} \cup Failures
           /\ didCallback' \in BOOLEAN
           /\ final' \in Seq({"success"} \cup Failures)
<1>1. processStatus' \in {"success"} \cup Failures /\ didCallback' = TRUE
      /\ final' = Append(final, processStatus')
    BY DEF DoOutputCallback, Failures
<1>2. \A S : \A q \in Seq(S) : \A e \in S : Append(q, e) \in Seq(S)
    OBVIOUS
<1> QED BY <1>1, <1>2

LEMMA GenTypes ==
    ASSUME WfTypeOK, GenRun \/ GenResume,
           gpc = "made" \/ (gpc = "yield" /\ offer \in Steps) => gidx <= NumSteps
    PROVE  /\ WfTypeOK'
           /\ gpc' = "made" \/ (gpc' = "yield" /\ offer' \in Steps) =>
                  gidx' <= NumSteps
<1> DEFINE Place == gpc = "made" \/ (gpc = "yield" /\ offer \in Steps) =>
                        gidx <= NumSteps
<1> SUFFICES WfTypeOK' /\ Place'
    OBVIOUS
<1>0. NumSteps \in Nat \ {0} /\ NoJob \notin Steps
    BY NumStepsFacts, StepsAssumption DEF Jobs
<1> USE DEF docVars, stepVars, cbVars, WfTypeOK
<1>1. CASE GenLoop
    <2>1. /\ madeProgress' \in BOOLEAN /\ gpc' = "step" /\ gidx' = 1
          /\ UNCHANGED <<stepVars, processStatus, didCallback, final, offer>>
        BY <1>1 DEF GenLoop
    <2> QED BY <1>0, <2>1
<1>2. CASE GenForEnd
    BY <1>0, <1>2 DEF GenForEnd
<1>3. CASE GenNotReady
    BY <1>0, <1>3 DEF GenNotReady
<1>4. CASE GenMake
    BY <1>0, <1>4 DEF GenMake, CanMake, CurrentStep
<1>5. CASE GenMakeRaises
    BY <1>0, <1>5 DEF GenMakeRaises, CanMake, CurrentStep, Failures
<1>6. CASE GenSkip
    <2>1. /\ CanMake /\ gidx' = gidx + 1 /\ madeProgress' = TRUE
          /\ submitted' = submitted \cup {CurrentStep}
          /\ state' = [state EXCEPT ![CurrentStep] = "skipped"]
          /\ completed' = completed \cup {CurrentStep}
          /\ UNCHANGED <<docVars, gpc, offer>>
        BY <1>6 DEF GenSkip
    <2>2. DoOutputCallback \/ UNCHANGED <<processStatus, didCallback, final>>
        BY <1>6 DEF GenSkip
    <2>3. /\ processStatus' \in {"success"} \cup Failures
          /\ didCallback' \in BOOLEAN
          /\ final' \in Seq({"success"} \cup Failures)
        BY <2>2, DoOutputCallbackTypes
    <2>4. Place'
        BY <2>1 DEF CanMake
    <2> QED BY <1>0, <2>1, <2>3, <2>4 DEF CanMake, CurrentStep, Status, Done
<1>7. CASE GenYieldJob
    <2>1. madeProgress' \in BOOLEAN
        BY <1>7 DEF GenYieldJob
    <2>2. /\ gpc = "made" /\ UNCHANGED <<stepVars, processStatus, didCallback, final>>
          /\ \/ gpc' = "step" /\ gidx' = gidx + 1 /\ UNCHANGED offer
             \/ gpc' = "yield" /\ offer' = CurrentStep /\ UNCHANGED gidx
        BY <1>7 DEF GenYieldJob
    <2> QED BY <1>0, <2>1, <2>2 DEF CurrentStep, Jobs
<1>8. CASE GenSum
    BY <1>0, <1>8 DEF GenSum
<1>9. CASE GenExit
    <2>1. gpc' = "end" /\ UNCHANGED <<stepVars, madeProgress, gidx, offer>>
        BY <1>9 DEF GenExit
    <2>2. DoOutputCallback \/ UNCHANGED <<processStatus, didCallback, final>>
        BY <1>9 DEF GenExit
    <2>3. /\ processStatus' \in {"success"} \cup Failures
          /\ didCallback' \in BOOLEAN
          /\ final' \in Seq({"success"} \cup Failures)
        BY <2>2, DoOutputCallbackTypes
    <2> QED BY <2>1, <2>3
<1>10. CASE GenResume
    BY <1>0, <1>10 DEF GenResume
<1> QED BY <1>1, <1>2, <1>3, <1>4, <1>5, <1>6, <1>7, <1>8, <1>9, <1>10
        DEF GenRun

-----------------------------------------------------------------------------
(* Sequences, and the number of busy threads. *)

\* What `pending_jobs.remove` leaves.
LEMMA RemoveAtFacts ==
    ASSUME NEW S, NEW s \in Seq(S), NEW k \in 1..Len(s)
    PROVE  /\ RemoveAt(s, k) \in Seq(S)
           /\ Len(RemoveAt(s, k)) = Len(s) - 1
           /\ \A i \in 1..(Len(s) - 1) :
                  RemoveAt(s, k)[i] = IF i < k THEN s[i] ELSE s[i + 1]
<1> DEFINE front == SubSeq(s, 1, k - 1)
           back  == SubSeq(s, k + 1, Len(s))
<1>1. /\ front \in Seq(S) /\ Len(front) = k - 1
      /\ \A i \in 1..(k - 1) : front[i] = s[i]
    OBVIOUS
<1>2. /\ back \in Seq(S) /\ Len(back) = Len(s) - k
      /\ \A i \in 1..(Len(s) - k) : back[i] = s[k + i]
    OBVIOUS
<1>3. RemoveAt(s, k) = front \o back
    BY DEF RemoveAt
<1> HIDE DEF front, back
<1>4. /\ front \o back \in Seq(S)
      /\ Len(front \o back) = Len(s) - 1
    BY <1>1, <1>2
<1>5. ASSUME NEW i \in 1..(Len(s) - 1)
      PROVE  (front \o back)[i] = IF i < k THEN s[i] ELSE s[i + 1]
    <2>1. CASE i < k
        BY <1>1, <1>2, <2>1
    <2>2. CASE ~(i < k)
        <3>1. i - Len(front) \in 1..(Len(s) - k) /\ k + (i - Len(front)) = i + 1
            BY <1>1, <2>2
        <3>2. (front \o back)[i] = back[i - Len(front)]
            BY <1>1, <1>2, <2>2
        <3> QED BY <1>2, <2>2, <3>1, <3>2
    <2> QED BY <2>1, <2>2
<1> QED BY <1>3, <1>4, <1>5

LEMMA BusyFacts ==
    /\ IsFiniteSet(Busying) /\ Cardinality(Busying) \in Nat
    /\ IsFiniteSet(Busying') /\ Cardinality(Busying') \in Nat
<1>1. Busying \subseteq Workers /\ Busying' \subseteq Workers
    BY DEF Busying
<1> QED BY <1>1, WorkersAssumption, FS_Subset, FS_CardinalityType

LEMMA BusySame == ASSUME UNCHANGED wpc PROVE Busying' = Busying
    BY DEF Busying

\* A thread becomes busy, or stops being busy.
LEMMA BusyMore ==
    ASSUME NEW w \in Workers, w \notin Busying, Busying' = Busying \cup {w}
    PROVE  Cardinality(Busying') = Cardinality(Busying) + 1
    BY BusyFacts, FS_AddElement

LEMMA BusyLess ==
    ASSUME NEW w \in Workers, w \in Busying, Busying' = Busying \ {w}
    PROVE  Cardinality(Busying') = Cardinality(Busying) - 1
    BY BusyFacts, FS_RemoveElement

-----------------------------------------------------------------------------
(***************************************************************************)
(* Types, positions and the count of in_flight.  This part of the          *)
(* invariant is inductive by itself; one lemma per group of actions.       *)
(***************************************************************************)
Flow == TypeOK /\ PositionsValid /\ InFlightExact /\ FlowSound

LEMMA InitFlow == Init => Flow
<1> SUFFICES ASSUME Init PROVE Flow
    OBVIOUS
<1> USE DEF Init, WfInit, TqInit
<1>1. WfTypeOK
    BY WfInitTypes
<1>2. TypeOK
    <2>1. threadCount \in Nat
        BY WorkersAssumption, FS_CardinalityType DEF threadCount
    <2>2. tqueue \in Seq(Jobs \cup {NoTask}) /\ pending \in Seq(Jobs)
        OBVIOUS
    <2>3. lock \in {Free, Main} \cup Workers
        OBVIOUS
    <2>4. inFlight \in Nat /\ pills \in 0..threadCount /\ allocated \in [Resources -> Int]
        BY <2>1
    <2>5. wres \in [Workers -> Results] /\ wold \in [Workers -> {"success"} \cup Failures]
        BY DEF Results
    <2>6. /\ wpc \in [Workers -> {"get", "run", "callback", "record", "finish",
                                  "finally", "dec", "exit"}]
          /\ wtask \in [Workers -> Jobs \cup {NoTask}]
        OBVIOUS
    <2>7. /\ mpc \in {"take", "scan", "put", "retry", "reacquire", "ret",
                      "waiting", "drain", "join", "done"}
          /\ n \in Nat \ {0}
        OBVIOUS
    <2>8. /\ notified \in BOOLEAN /\ exceptions \in BOOLEAN
          /\ tail \in BOOLEAN /\ gaveUp \in BOOLEAN /\ raised \in BOOLEAN
        OBVIOUS
    <2> HIDE DEF Init, WfInit, TqInit
    <2> QED BY <1>1, <2>2, <2>3, <2>4, <2>5, <2>6, <2>7, <2>8 DEF TypeOK
<1>3. PositionsValid
    BY StepsAssumption DEF PositionsValid, Adding
<1>4. Cardinality(Busying) = 0
    BY FS_EmptySet DEF Busying
<1>5. InFlightExact /\ FlowSound
    BY <1>4 DEF InFlightExact, FlowSound, Adding
<1> QED BY <1>2, <1>3, <1>5 DEF Flow

-----------------------------------------------------------------------------
(* The main thread's own variables. *)
MainTypes ==
    /\ lock \in {Free, Main} \cup Workers /\ notified \in BOOLEAN
    /\ pending \in Seq(Jobs) /\ allocated \in [Resources -> Int]
    /\ mpc \in {"take", "scan", "put", "retry", "reacquire", "ret", "waiting",
                "drain", "join", "done"}
    /\ n \in Nat \ {0}
    /\ tail \in BOOLEAN /\ gaveUp \in BOOLEAN /\ raised \in BOOLEAN

\* A step of the main thread that leaves the workflow, the queue and the
\* threads alone.
LEMMA QuietFlow ==
    ASSUME Flow, UNCHANGED <<wfVars, tqVars, jobVars>>, MainTypes',
           (Adding \/ mpc = "reacquire" => n <= Len(pending))',
           Adding' = Adding,
           mpc \in {"drain", "join", "done"} =>
               mpc' \in {"drain", "join", "done"},
           mpc' \in {"join", "done"} =>
               mpc \in {"join", "done"} \/ tqueue = <<>>,
           mpc \in {"join", "done"} => mpc' \in {"join", "done"}
    PROVE  Flow'
<1> USE DEF wfVars, stepVars, docVars, cbVars, genVars, tqVars, queueVars,
            threadVars, jobVars, Flow
<1>1. WfTypeOK'
    BY DEF TypeOK, WfTypeOK
<1>2. TypeOK'
    BY <1>1 DEF TypeOK, MainTypes
<1>3. PositionsValid'
    BY DEF PositionsValid
<1>4. Busying' = Busying
    BY BusySame
<1>5. InFlightExact'
    BY <1>4 DEF InFlightExact
<1>6. FlowSound'
    <2>1. CASE mpc' \in {"join", "done"} /\ mpc \notin {"join", "done"}
        BY <1>4, <2>1, BusyFacts DEF FlowSound, TypeOK
    <2>2. CASE ~(mpc' \in {"join", "done"} /\ mpc \notin {"join", "done"})
        BY <1>4, <2>2 DEF FlowSound
    <2> QED BY <2>1, <2>2
<1> QED BY <1>2, <1>3, <1>5, <1>6

LEMMA MainQuietFlow ==
    ASSUME Flow,
           \/ MainTake \/ MainTakeEnd \/ MainTooBig \/ MainBusy \/ MainPutFull
           \/ MainRetry \/ MainReacquire \/ MainScanned \/ MainWait
           \/ MainGiveUp \/ MainWakeRaise \/ MainWakeTail \/ MainLeave
    PROVE  Flow'
<1>0. /\ MainTypes /\ (Adding \/ mpc = "reacquire" => n <= Len(pending))
      /\ offer \in Jobs \cup {NoJob} /\ Free # Main
    BY ExecutorAssumption DEF Flow, TypeOK, WfTypeOK, MainTypes, PositionsValid
<1> USE <1>0 DEF MainTypes, resVars, lockVars, mainVars, Adding
<1>1. CASE MainTake
    <2>1. pending' \in Seq(Jobs) /\ mpc' = "scan" /\ n' = 1
        BY <1>1 DEF MainTake
    <2> QED BY <1>1, <2>1, QuietFlow DEF MainTake
<1>2. CASE MainTakeEnd
    BY <1>2, QuietFlow DEF MainTakeEnd
<1>3. CASE MainTooBig
    <2>1. pending' \in Seq(Jobs)
        BY <1>3, RemoveAtFacts DEF MainTooBig
    <2> QED BY <1>3, <2>1, QuietFlow DEF MainTooBig
<1>4. CASE MainBusy
    BY <1>4, QuietFlow DEF MainBusy
<1>5. CASE MainPutFull
    BY <1>5, QuietFlow DEF MainPutFull
<1>6. CASE MainRetry
    BY <1>6, QuietFlow DEF MainRetry
<1>7. CASE MainReacquire
    <2>1. pending' \in Seq(Jobs)
        BY <1>7, RemoveAtFacts DEF MainReacquire
    <2> QED BY <1>7, <2>1, QuietFlow DEF MainReacquire
<1>8. CASE MainScanned
    BY <1>8, QuietFlow DEF MainScanned
<1>9. CASE MainWait
    <2>1. lock' \in {Free, Main} \cup Workers /\ notified' \in BOOLEAN
        BY <1>9 DEF MainWait
    <2> QED BY <1>9, <2>1, QuietFlow DEF MainWait
<1>10. CASE MainGiveUp
    BY <1>10, QuietFlow DEF MainGiveUp
<1>11. CASE MainWakeRaise
    BY <1>11, QuietFlow DEF MainWakeRaise, WakeUp
<1>12. CASE MainWakeTail
    BY <1>12, QuietFlow DEF MainWakeTail, WakeUp
<1>13. CASE MainLeave
    BY <1>13, QuietFlow DEF MainLeave
<1> QED BY <1>1, <1>2, <1>3, <1>4, <1>5, <1>6, <1>7, <1>8, <1>9, <1>10,
           <1>11, <1>12, <1>13

LEMMA MainGenFlow ==
    ASSUME Flow, MainGenerate \/ MainNext \/ MainWakeNext PROVE Flow'
<1> USE DEF Flow, mainVars, resVars, lockVars, jobVars, tqVars, queueVars,
            threadVars
<1>1. /\ GenRun \/ GenResume
      /\ UNCHANGED <<tqVars, n, tail, gaveUp, raised, resVars, notified, jobVars>>
      /\ mpc' \in {"take", mpc} /\ lock' \in {lock, Main}
      /\ mpc \in {"take", "ret", "waiting"}
    BY DEF MainGenerate, MainNext, MainWakeNext, WakeUp
<1>2. /\ WfTypeOK'
      /\ gpc' = "made" \/ (gpc' = "yield" /\ offer' \in Steps) =>
             gidx' <= NumSteps
    BY <1>1, GenTypes DEF TypeOK, PositionsValid
<1>3. TypeOK'
    BY <1>1, <1>2 DEF TypeOK
<1>4. PositionsValid'
    BY <1>1, <1>2 DEF PositionsValid, Adding
<1>5. Busying' = Busying
    BY <1>1, BusySame
<1>6. InFlightExact' /\ FlowSound'
    BY <1>1, <1>5 DEF InFlightExact, FlowSound, Adding
<1> QED BY <1>3, <1>4, <1>6

\* taskqueue.add, drain and join.
LEMMA MainQueueFlow ==
    ASSUME Flow, MainStart \/ MainPut \/ MainDrain \/ MainJoin PROVE Flow'
<1> USE DEF Flow, wfVars, stepVars, docVars, cbVars, genVars, tqVars,
            queueVars, threadVars, jobVars, resVars, lockVars, mainVars
<1>1. UNCHANGED <<wfVars, threadVars, jobVars>>
    BY DEF MainStart, MainPut, MainDrain, MainJoin, AddCount, AddPut, DrainOne,
           JoinPut
<1>2. WfTypeOK'
    BY <1>1 DEF TypeOK, WfTypeOK
<1>3. Busying' = Busying
    BY <1>1, BusySame
<1>4. CASE MainStart
    <2>0. /\ mpc = "scan" /\ n \in 1..Len(pending) /\ mpc' = "put"
          /\ UNCHANGED <<n, tail, gaveUp, raised, pending, notified, tqueue, pills>>
          /\ lock' = Free /\ inFlight' = inFlight + 1
        BY <1>4 DEF MainStart, AddCount, TypeOK
    <2>1. allocated' \in [Resources -> Int]
        <3>1. CASE pending[n] \in Commands
            <4>1. Request[pending[n]] \in [Resources -> Nat]
                BY <3>1, ExecutorAssumption
            <4>2. Charge(pending[n]) \in [Resources -> Int]
                BY <4>1 DEF Charge, Resources, TypeOK
            <4> QED BY <1>4, <3>1, <4>2 DEF MainStart
        <3>2. CASE pending[n] \notin Commands
            BY <1>4, <3>2 DEF MainStart, TypeOK
        <3> QED BY <3>1, <3>2
    <2>2. TypeOK'
        BY <1>1, <1>2, <2>0, <2>1 DEF TypeOK
    <2>3. PositionsValid'
        BY <1>1, <2>0 DEF PositionsValid, Adding
    <2>4. InFlightExact' /\ FlowSound'
        BY <1>3, <2>0, BusyFacts DEF InFlightExact, FlowSound, Adding, TypeOK
    <2> QED BY <2>2, <2>3, <2>4
<1>5. CASE MainPut
    <2>0. /\ mpc = "put" /\ mpc' = "reacquire" /\ n \in 1..Len(pending)
          /\ tqueue' = Append(tqueue, pending[n])
          /\ UNCHANGED <<inFlight, pills, n, tail, gaveUp, raised, resVars,
                         lockVars>>
        BY <1>5 DEF MainPut, AddPut, TypeOK, PositionsValid, Adding
    <2>1. pending[n] \in Jobs /\ pending[n] # NoTask
        BY <2>0, StepsAssumption, ExecutorAssumption DEF TypeOK
    <2>2. tqueue' \in Seq(Jobs \cup {NoTask}) /\ Len(tqueue') = Len(tqueue) + 1
        BY <2>0, <2>1 DEF TypeOK
    <2>3. TypeOK'
        BY <1>1, <1>2, <2>0, <2>2 DEF TypeOK
    <2>4. PositionsValid'
        BY <1>1, <2>0 DEF PositionsValid, Adding
    <2>5. \A i \in 1..Len(tqueue') : tqueue'[i] # NoTask
        BY <2>0, <2>1, <2>2 DEF TypeOK, FlowSound
    <2>6. InFlightExact' /\ FlowSound'
        BY <1>3, <2>0, <2>2, <2>5, BusyFacts
           DEF InFlightExact, FlowSound, Adding, TypeOK
    <2> QED BY <2>3, <2>4, <2>6
<1>6. CASE MainDrain
    <2>0. mpc = "drain" /\ UNCHANGED <<inFlight, pills, n, tail, gaveUp, raised,
                                       resVars, lockVars>>
        BY <1>6 DEF MainDrain, DrainOne
    <2>1. CASE tqueue = <<>> /\ mpc' = "join" /\ UNCHANGED tqVars
        <3>1. TypeOK'
            BY <1>1, <1>2, <2>0, <2>1 DEF TypeOK
        <3>2. PositionsValid'
            BY <1>1, <2>0, <2>1 DEF PositionsValid, Adding
        <3>3. InFlightExact' /\ FlowSound'
            BY <1>3, <2>0, <2>1, BusyFacts
               DEF InFlightExact, FlowSound, Adding, TypeOK
        <3> QED BY <3>1, <3>2, <3>3
    <2>2. CASE DrainOne /\ UNCHANGED mpc
        <3>1. tqueue # <<>> /\ tqueue' = Tail(tqueue)
            BY <2>2 DEF DrainOne
        <3>2. /\ tqueue' \in Seq(Jobs \cup {NoTask})
              /\ Len(tqueue') = Len(tqueue) - 1
              /\ \A i \in 1..Len(tqueue') : tqueue'[i] = tqueue[i + 1]
            BY <3>1 DEF TypeOK
        <3>3. TypeOK'
            BY <1>1, <1>2, <2>0, <2>2, <3>2 DEF TypeOK
        <3>4. PositionsValid'
            BY <1>1, <2>0, <2>2 DEF PositionsValid, Adding
        <3>5. InFlightExact' /\ FlowSound'
            BY <1>3, <2>0, <2>2, <3>2, BusyFacts
               DEF InFlightExact, FlowSound, Adding, TypeOK
        <3> QED BY <3>3, <3>4, <3>5
    <2> QED BY <1>6, <2>1, <2>2 DEF MainDrain
<1>7. CASE MainJoin
    <2>0. mpc = "join" /\ UNCHANGED <<inFlight, n, tail, gaveUp, raised,
                                      resVars, lockVars>>
        BY <1>7 DEF MainJoin, JoinPut
    <2>1. CASE mpc' = "done" /\ UNCHANGED tqVars
        <3>1. TypeOK'
            BY <1>1, <1>2, <2>0, <2>1 DEF TypeOK
        <3>2. PositionsValid'
            BY <1>1, <2>0, <2>1 DEF PositionsValid, Adding
        <3>3. InFlightExact' /\ FlowSound'
            BY <1>3, <2>0, <2>1 DEF InFlightExact, FlowSound, Adding
        <3> QED BY <3>1, <3>2, <3>3
    <2>2. CASE JoinPut /\ UNCHANGED mpc
        <3>1. /\ pills < threadCount /\ pills' = pills + 1
              /\ tqueue' = Append(tqueue, NoTask)
            BY <2>2 DEF JoinPut
        <3>2. /\ tqueue' \in Seq(Jobs \cup {NoTask})
              /\ \A i \in 1..Len(tqueue') : tqueue'[i] = NoTask
            BY <2>0, <3>1 DEF TypeOK, FlowSound
        <3>3. pills' \in 0..threadCount
            <4>1. threadCount \in Nat
                BY WorkersAssumption, FS_CardinalityType DEF threadCount
            <4> QED BY <3>1, <4>1 DEF TypeOK
        <3>4. TypeOK'
            BY <1>1, <1>2, <2>0, <2>2, <3>2, <3>3 DEF TypeOK
        <3>5. PositionsValid'
            BY <1>1, <2>0, <2>2 DEF PositionsValid, Adding
        <3>6. InFlightExact' /\ FlowSound'
            BY <1>3, <2>0, <2>2, <3>2 DEF InFlightExact, FlowSound, Adding
        <3> QED BY <3>4, <3>5, <3>6
    <2> QED BY <1>7, <2>1, <2>2 DEF MainJoin
<1> QED BY <1>4, <1>5, <1>6, <1>7

-----------------------------------------------------------------------------
(* The worker threads. *)

\* The parts of receive_output keep the types of the WorkflowJob.
LEMMA CallbackTypes ==
    ASSUME WfTypeOK, NEW s \in Steps, NEW r \in Results,
           NEW old \in {"success"} \cup Failures,
           StoreOutput(s, r) \/ RecordStatus(s, old, r) \/ ReceiveFinish
    PROVE  WfTypeOK' /\ UNCHANGED genVars
<1> USE DEF WfTypeOK, stepVars, docVars, cbVars, genVars
<1>1. CASE StoreOutput(s, r)
    BY <1>1, StatusTypes DEF StoreOutput
<1>2. CASE RecordStatus(s, old, r)
    <2>1. processStatus' \in {"success"} \cup Failures
        BY <1>2, StatusTypes DEF RecordStatus
    <2>2. madeProgress' \in BOOLEAN
        BY <1>2 DEF RecordStatus
    <2> QED BY <1>2, <2>1, <2>2 DEF RecordStatus
<1>3. CASE ReceiveFinish
    <2>1. DoOutputCallback \/ UNCHANGED <<processStatus, didCallback, final>>
        BY <1>3 DEF ReceiveFinish
    <2>2. /\ processStatus' \in {"success"} \cup Failures
          /\ didCallback' \in BOOLEAN
          /\ final' \in Seq({"success"} \cup Failures)
        BY <2>1, DoOutputCallbackTypes
    <2> QED BY <1>3, <2>2 DEF ReceiveFinish
<1> QED BY <1>1, <1>2, <1>3

\* A step of a thread that stays busy.
LEMMA BusyFlow ==
    ASSUME Flow, NEW w \in Workers,
           NEW p \in {"run", "callback", "record", "finish", "finally", "dec"},
           wpc[w] \notin {"get", "exit"}, wpc' = [wpc EXCEPT ![w] = p],
           p \in {"callback", "record", "finish"} => wtask[w] \in Steps,
           p \in {"run", "finally", "dec"} => wtask[w] \in Jobs,
           WfTypeOK', UNCHANGED <<genVars, queueVars, wtask, mainVars, pending>>,
           lock' \in {Free, Main} \cup Workers, notified' \in BOOLEAN,
           allocated' \in [Resources -> Int], exceptions' \in BOOLEAN,
           wres' \in [Workers -> Results],
           wold' \in [Workers -> {"success"} \cup Failures]
    PROVE  Flow'
<1> USE DEF Flow, genVars, queueVars, mainVars
<1>1. TypeOK'
    BY DEF TypeOK
<1>2. PositionsValid'
    BY DEF PositionsValid, Adding, TypeOK
<1>3. Busying' = Busying
    BY DEF Busying, TypeOK
<1>4. InFlightExact' /\ FlowSound'
    BY <1>3 DEF InFlightExact, FlowSound, Adding
<1> QED BY <1>1, <1>2, <1>4

LEMMA WorkerGetFlow == ASSUME Flow, NEW w \in Workers, WorkerGet(w) PROVE Flow'
<1> USE DEF Flow, wfVars, stepVars, docVars, cbVars, genVars, mainVars, resVars,
            lockVars, jobVars
<1>0. /\ wpc[w] = "get" /\ tqueue # <<>> /\ tqueue' = Tail(tqueue)
      /\ UNCHANGED <<inFlight, pills>>
      /\ UNCHANGED <<wfVars, mainVars, resVars, lockVars, jobVars>>
    BY DEF WorkerGet, Get
<1>1. /\ tqueue' \in Seq(Jobs \cup {NoTask}) /\ Len(tqueue') = Len(tqueue) - 1
      /\ \A i \in 1..Len(tqueue') : tqueue'[i] = tqueue[i + 1]
      /\ Head(tqueue) = tqueue[1] /\ 1 \in 1..Len(tqueue)
      /\ Len(tqueue) \in Nat
    BY <1>0 DEF TypeOK
<1>2. WfTypeOK'
    BY <1>0 DEF TypeOK, WfTypeOK
<1>3. CASE Head(tqueue) = NoTask
    <2>1. wpc' = [wpc EXCEPT ![w] = "exit"] /\ UNCHANGED wtask
        BY <1>3 DEF WorkerGet, Get
    <2>2. TypeOK'
        BY <1>0, <1>1, <1>2, <2>1 DEF TypeOK
    <2>3. PositionsValid'
        BY <1>0, <2>1 DEF PositionsValid, Adding, TypeOK
    <2>4. Busying' = Busying
        BY <1>0, <2>1 DEF Busying, TypeOK
    <2>5. mpc \in {"join", "done"}
        BY <1>1, <1>3 DEF FlowSound
    <2>6. InFlightExact' /\ FlowSound'
        BY <1>0, <1>1, <2>4, <2>5 DEF InFlightExact, FlowSound, Adding
    <2> QED BY <2>2, <2>3, <2>6
<1>4. CASE Head(tqueue) # NoTask
    <2>1. /\ wpc' = [wpc EXCEPT ![w] = "run"]
          /\ wtask' = [wtask EXCEPT ![w] = Head(tqueue)]
        BY <1>4 DEF WorkerGet, Get
    <2>2. Head(tqueue) \in Jobs
        BY <1>1, <1>4 DEF TypeOK
    <2>3. TypeOK'
        BY <1>0, <1>1, <1>2, <2>1, <2>2 DEF TypeOK
    <2>4. PositionsValid'
        BY <1>0, <2>1, <2>2 DEF PositionsValid, Adding, TypeOK
    <2>5. w \notin Busying /\ Busying' = Busying \cup {w}
        BY <1>0, <2>1 DEF Busying, TypeOK
    <2>6. Cardinality(Busying') = Cardinality(Busying) + 1
        BY <2>5, BusyMore
    <2>7. mpc \notin {"join", "done"}
        BY <1>1, <1>4 DEF FlowSound
    <2>8. Len(tqueue') + Cardinality(Busying') = Len(tqueue) + Cardinality(Busying)
        BY <1>1, <2>6, BusyFacts
    <2>9. \A i \in 1..Len(tqueue') : tqueue'[i] # NoTask
        BY <1>1, <2>7 DEF FlowSound
    <2>10. InFlightExact' /\ FlowSound'
        BY <1>0, <2>7, <2>8, <2>9 DEF InFlightExact, FlowSound, Adding
    <2> QED BY <2>3, <2>4, <2>10
<1> QED BY <1>3, <1>4

LEMMA WorkerDecFlow == ASSUME Flow, NEW w \in Workers, WorkerDec(w) PROVE Flow'
<1> USE DEF Flow, wfVars, stepVars, docVars, cbVars, genVars, mainVars, resVars,
            lockVars, jobVars
<1>0. /\ wpc[w] = "dec" /\ inFlight' = inFlight - 1
      /\ wpc' = [wpc EXCEPT ![w] = "get"]
      /\ wtask' = [wtask EXCEPT ![w] = NoTask]
      /\ UNCHANGED <<tqueue, pills>>
      /\ UNCHANGED <<wfVars, mainVars, resVars, lockVars, jobVars>>
    BY DEF WorkerDec, Dec
<1>1. WfTypeOK'
    BY <1>0 DEF TypeOK, WfTypeOK
<1>2. w \in Busying /\ Busying' = Busying \ {w}
    BY <1>0 DEF Busying, TypeOK
<1>3. /\ Cardinality(Busying') = Cardinality(Busying) - 1
      /\ Cardinality(Busying) >= 1
    <2>1. Cardinality(Busying') = Cardinality(Busying) - 1
        BY <1>2, BusyLess
    <2> QED BY <2>1, BusyFacts
<1>4. inFlight' \in Nat
    BY <1>0, <1>3, BusyFacts DEF TypeOK, FlowSound
<1>5. TypeOK'
    BY <1>0, <1>1, <1>4 DEF TypeOK
<1>6. PositionsValid'
    BY <1>0 DEF PositionsValid, Adding, TypeOK
<1>7. InFlightExact' /\ FlowSound'
    BY <1>0, <1>3, BusyFacts DEF InFlightExact, FlowSound, Adding, TypeOK
<1> QED BY <1>5, <1>6, <1>7

LEMMA WorkerBusyFlow ==
    ASSUME Flow, NEW w \in Workers,
           \/ WorkerRunWf(w) \/ WorkerRun(w) \/ WorkerRaise(w)
           \/ WorkerCallback(w) \/ WorkerRecord(w) \/ WorkerFinish(w)
           \/ WorkerFinally(w)
    PROVE  Flow'
<1> USE DEF jobVars, lockVars, resVars, queueVars
<1>0. /\ TypeOK /\ WfTypeOK /\ wtask[w] \in Jobs \cup {NoTask}
      /\ wres[w] \in Results /\ wold[w] \in {"success"} \cup Failures
      /\ wpc[w] \in {"callback", "record", "finish"} => wtask[w] \in Steps
      /\ wpc[w] \in {"run", "finally", "dec"} => wtask[w] \in Jobs
    BY DEF Flow, TypeOK, PositionsValid
<1>1. UNCHANGED wfVars => WfTypeOK' /\ UNCHANGED genVars
    BY <1>0 DEF wfVars, stepVars, docVars, cbVars, genVars, WfTypeOK
<1>2. CASE WorkerRunWf(w)
    <2>1. WfTypeOK' /\ UNCHANGED genVars
        BY <1>1, <1>2 DEF WorkerRunWf
    <2> QED BY <1>0, <1>2, <2>1, BusyFlow DEF WorkerRunWf, TypeOK
<1>3. CASE WorkerRun(w)
    <2>1. WfTypeOK' /\ UNCHANGED genVars
        BY <1>1, <1>3 DEF WorkerRun
    <2>2. wres' \in [Workers -> Results]
        BY <1>0, <1>3, ExecutorAssumption DEF WorkerRun, TypeOK
    <2> QED BY <1>0, <1>3, <2>1, <2>2, BusyFlow DEF WorkerRun, TypeOK
<1>4. CASE WorkerRaise(w)
    <2>1. WfTypeOK' /\ UNCHANGED genVars
        BY <1>1, <1>4 DEF WorkerRaise
    <2>2. exceptions' \in BOOLEAN
        BY <1>4 DEF WorkerRaise
    <2> QED BY <1>0, <1>4, <2>1, <2>2, BusyFlow DEF WorkerRaise, TypeOK, Jobs
<1>5. CASE WorkerCallback(w)
    <2>1. wpc[w] = "callback" /\ wtask[w] \in Steps
        BY <1>0, <1>5 DEF WorkerCallback
    <2>2. WfTypeOK' /\ UNCHANGED genVars
        BY <1>0, <1>5, <2>1, CallbackTypes DEF WorkerCallback
    <2>3. wold' \in [Workers -> {"success"} \cup Failures]
        BY <1>0, <1>5 DEF WorkerCallback, TypeOK, WfTypeOK
    <2>4. lock' \in {Free, Main} \cup Workers
        BY <1>0, <1>5 DEF WorkerCallback, TypeOK
    <2> QED BY <1>0, <1>5, <2>1, <2>2, <2>3, <2>4, BusyFlow
            DEF WorkerCallback, TypeOK
<1>6. CASE WorkerRecord(w)
    <2>1. wpc[w] = "record" /\ wtask[w] \in Steps
        BY <1>0, <1>6 DEF WorkerRecord
    <2>2. WfTypeOK' /\ UNCHANGED genVars
        BY <1>0, <1>6, <2>1, CallbackTypes DEF WorkerRecord
    <2> QED BY <1>0, <1>6, <2>1, <2>2, BusyFlow DEF WorkerRecord, TypeOK
<1>7. CASE WorkerFinish(w)
    <2>1. wpc[w] = "finish" /\ wtask[w] \in Steps
        BY <1>0, <1>7 DEF WorkerFinish
    <2>2. WfTypeOK' /\ UNCHANGED genVars
        BY <1>0, <1>7, <2>1, CallbackTypes DEF WorkerFinish
    <2>3. lock' \in {Free, Main} \cup Workers
        BY <1>0, <1>7 DEF WorkerFinish, TypeOK
    <2> QED BY <1>0, <1>7, <2>1, <2>2, <2>3, BusyFlow
            DEF WorkerFinish, TypeOK, Jobs
<1>8. CASE WorkerFinally(w)
    <2>1. WfTypeOK' /\ UNCHANGED genVars
        BY <1>1, <1>8 DEF WorkerFinally
    <2>2. notified' \in BOOLEAN
        BY <1>8 DEF WorkerFinally
    <2>3. allocated' \in [Resources -> Int]
        <3>1. CASE wtask[w] \in Commands
            <4>1. Request[wtask[w]] \in [Resources -> Nat]
                BY <3>1, ExecutorAssumption
            <4>2. Refund(wtask[w]) \in [Resources -> Int]
                BY <1>0, <4>1 DEF Refund, TypeOK
            <4> QED BY <1>8, <3>1, <4>2 DEF WorkerFinally
        <3>2. CASE wtask[w] \notin Commands
            BY <1>0, <1>8, <3>2 DEF WorkerFinally, TypeOK
        <3> QED BY <3>1, <3>2
    <2> QED BY <1>0, <1>8, <2>1, <2>2, <2>3, BusyFlow DEF WorkerFinally, TypeOK
<1> QED BY <1>2, <1>3, <1>4, <1>5, <1>6, <1>7, <1>8

LEMMA StepFlow == Flow /\ [Next]_vars => Flow'
<1> SUFFICES ASSUME Flow, [Next]_vars PROVE Flow'
    OBVIOUS
<1>1. CASE UNCHANGED vars
    <2>1. UNCHANGED <<wfVars, tqVars, jobVars, mainVars, resVars, lockVars>>
        BY <1>1 DEF vars
    <2> QED BY <2>1, QuietFlow DEF Flow, TypeOK, PositionsValid, MainTypes,
               mainVars, resVars, lockVars, Adding
<1>2. CASE MainStep
    BY <1>2, MainQuietFlow, MainGenFlow, MainQueueFlow DEF MainStep
<1>3. CASE \E w \in Workers : WorkerStep(w)
    BY <1>3, WorkerGetFlow, WorkerBusyFlow, WorkerDecFlow DEF WorkerStep
<1> QED BY <1>1, <1>2, <1>3 DEF Next, Finished

-----------------------------------------------------------------------------
(* One place for every job, and what the flags and outputs of its step say. *)

\* A step that leaves the flags, the outputs and the threads alone.
LEMMA MovedSound ==
    ASSUME NEW s \in Steps, StepSound(s), UNCHANGED <<stepVars, wpc, wtask, wres>>,
           OnePlace(s)', Ahead(s)' => Ahead(s)
    PROVE  StepSound(s)'
<1>1. Held(s)' = Held(s)
    BY DEF Held, Busying
<1> QED BY <1>1 DEF StepSound, stepVars, docVars

\* Nothing moves either.
LEMMA QuietSound ==
    ASSUME NEW s \in Steps, StepSound(s), UNCHANGED <<stepVars, wpc, wtask, wres>>,
           Waiting(s)' = Waiting(s), Queued(s)' = Queued(s),
           Offered(s)' => Offered(s)
    PROVE  StepSound(s)'
<1>1. Held(s)' = Held(s)
    BY DEF Held, Busying
<1>2. OnePlace(s)'
    BY <1>1 DEF StepSound, OnePlace
<1>3. Ahead(s)' => Ahead(s)
    BY <1>1 DEF Ahead
<1> QED BY <1>2, <1>3, MovedSound

LEMMA MainQuietSound ==
    ASSUME NEW s \in Steps, StepSound(s),
           \/ MainTakeEnd \/ MainBusy \/ MainPutFull \/ MainRetry \/ MainScanned
           \/ MainWait \/ MainGiveUp \/ MainWakeRaise \/ MainWakeTail
           \/ MainLeave \/ MainStart \/ UNCHANGED vars
    PROVE  StepSound(s)'
<1> USE DEF wfVars, stepVars, docVars, cbVars, genVars, tqVars, queueVars,
            threadVars, jobVars, resVars, lockVars, mainVars
<1>1. /\ UNCHANGED <<stepVars, genVars, wpc, wtask, wres, pending, tqueue>>
      /\ \/ mpc # "reacquire" /\ mpc' # "reacquire"
         \/ UNCHANGED <<mpc, n>>
      /\ mpc' = "take" => mpc = "take"
    BY DEF MainTakeEnd, MainBusy, MainPutFull, MainRetry, MainScanned, MainWait,
           MainGiveUp, MainWakeRaise, MainWakeTail, MainLeave, MainStart,
           WakeUp, AddCount, vars
<1>2. Waiting(s)' = Waiting(s) /\ Queued(s)' = Queued(s)
    BY <1>1 DEF Waiting, Queued
<1>3. Offered(s)' => Offered(s)
    BY <1>1 DEF Offered, CurrentStep
<1> QED BY <1>1, <1>2, <1>3, QuietSound

\* run_job takes what the generator offers.
LEMMA MainTakeSound ==
    ASSUME Flow, NEW s \in Steps, StepSound(s), MainTake
    PROVE  StepSound(s)'
<1> USE DEF wfVars, tqVars, queueVars, threadVars, jobVars, genVars
<1>1. /\ UNCHANGED <<stepVars, genVars, wpc, wtask, wres, tqueue>>
      /\ mpc = "take" /\ gpc = "yield" /\ mpc' = "scan"
    BY DEF MainTake
<1>2. Queued(s)' = Queued(s) /\ Held(s)' = Held(s) /\ ~Offered(s)'
    BY <1>1 DEF Queued, Held, Busying, Offered
<1>3. CASE offer = s
    <2>1. pending' = Append(pending, s) /\ pending \in Seq(Jobs) /\ Offered(s)
        BY <1>1, <1>3, StepsAssumption
           DEF MainTake, Flow, TypeOK, Offered, Jobs
    <2>2. Waiting(s) = {} /\ Queued(s) = {} /\ Held(s) = {}
        BY <2>1 DEF StepSound, OnePlace
    <2>3. Waiting(s)' \subseteq {Len(pending) + 1}
        BY <1>1, <2>1, <2>2 DEF Waiting, Jobs
    <2>4. OnePlace(s)'
        BY <1>2, <2>2, <2>3 DEF OnePlace
    <2>5. Ahead(s)' => Ahead(s)
        BY <2>1 DEF Ahead
    <2> QED BY <1>1, <2>4, <2>5, MovedSound
<1>4. CASE offer # s
    <2>1. Waiting(s)' = Waiting(s)
        <3>1. CASE offer = NoJob
            BY <1>1, <3>1 DEF MainTake, Waiting
        <3>2. CASE offer # NoJob
            <4>1. /\ pending' = Append(pending, offer) /\ pending \in Seq(Jobs)
                  /\ offer \in Jobs
                BY <3>2 DEF MainTake, Flow, TypeOK, WfTypeOK
            <4> QED BY <1>1, <1>4, <4>1 DEF Waiting
        <3> QED BY <3>1, <3>2
    <2> QED BY <1>1, <1>2, <2>1, QuietSound
<1> QED BY <1>3, <1>4

\* A job leaves pending_jobs.
LEMMA MainRemoveSound ==
    ASSUME Flow, NEW s \in Steps, StepSound(s), MainTooBig \/ MainReacquire
    PROVE  StepSound(s)'
<1> USE DEF wfVars, tqVars, queueVars, threadVars, jobVars, genVars, lockVars
<1>1. /\ UNCHANGED <<stepVars, genVars, wpc, wtask, wres, tqueue>>
      /\ mpc \in {"scan", "reacquire"} /\ mpc' \in {"ret", "scan"}
      /\ n \in 1..Len(pending) /\ pending' = RemoveAt(pending, n)
    BY DEF MainTooBig, MainReacquire, Flow, TypeOK, PositionsValid
<1>2. Queued(s)' = Queued(s) /\ Held(s)' = Held(s)
    BY <1>1 DEF Queued, Held, Busying
<1>3. Offered(s)' => Offered(s)
    BY <1>1 DEF Offered, CurrentStep, stepVars, docVars
<1>4. pending \in Seq(Jobs)
    BY DEF Flow, TypeOK
<1>5. /\ Len(pending') = Len(pending) - 1
      /\ \A i \in 1..(Len(pending) - 1) :
             pending'[i] = IF i < n THEN pending[i] ELSE pending[i + 1]
    BY <1>1, <1>4, RemoveAtFacts
<1>6. ASSUME NEW i \in Waiting(s)'
      PROVE  (IF i < n THEN i ELSE i + 1) \in Waiting(s)
    <2>1. i \in 1..(Len(pending) - 1) /\ pending'[i] = s
        BY <1>4, <1>5, <1>6 DEF Waiting
    <2> QED BY <1>1, <1>4, <1>5, <2>1 DEF Waiting
<1>7. \A i \in Waiting(s)' : i \in Int
    BY DEF Waiting
<1>8. OnePlace(s)'
    <2>1. \A i, j \in Waiting(s)' : i = j
        <3> SUFFICES ASSUME NEW i \in Waiting(s)', NEW j \in Waiting(s)'
                     PROVE  i = j
            OBVIOUS
        <3>1. (IF i < n THEN i ELSE i + 1) = (IF j < n THEN j ELSE j + 1)
            BY <1>6 DEF StepSound, OnePlace
        <3> QED BY <1>1, <1>7, <3>1
    <2>2. Waiting(s) = {} => Waiting(s)' = {}
        BY <1>6
    <2> QED BY <1>2, <1>3, <2>1, <2>2 DEF StepSound, OnePlace
<1>9. Ahead(s)' => Ahead(s)
    <2>1. Waiting(s)' # {} => Waiting(s) # {}
        BY <1>6
    <2> QED BY <1>1, <1>2, <1>3, <2>1 DEF Ahead
<1> QED BY <1>1, <1>8, <1>9, MovedSound

\* A job enters the queue: from now on the queue holds it, not pending_jobs.
LEMMA MainPutSound ==
    ASSUME Flow, NEW s \in Steps, StepSound(s), MainPut
    PROVE  StepSound(s)'
<1> USE DEF wfVars, tqVars, queueVars, threadVars, jobVars, genVars, lockVars,
            resVars
<1>1. /\ UNCHANGED <<stepVars, genVars, wpc, wtask, wres, pending, n>>
      /\ mpc = "put" /\ mpc' = "reacquire" /\ n \in 1..Len(pending)
      /\ tqueue' = Append(tqueue, pending[n])
      /\ tqueue \in Seq(Jobs \cup {NoTask}) /\ pending \in Seq(Jobs)
    BY DEF MainPut, AddPut, Flow, TypeOK, PositionsValid, Adding
<1>2. Held(s)' = Held(s) /\ (Offered(s)' => Offered(s))
    BY <1>1 DEF Held, Busying, Offered, CurrentStep, stepVars, docVars
<1>3. Waiting(s)' = Waiting(s) \ {n}
    BY <1>1 DEF Waiting
<1>4. CASE pending[n] # s
    <2>1. Queued(s)' = Queued(s)
        BY <1>1, <1>4 DEF Queued
    <2>2. Waiting(s)' = Waiting(s)
        BY <1>3, <1>4 DEF Waiting
    <2> QED BY <1>1, <1>2, <2>1, <2>2, QuietSound
<1>5. CASE pending[n] = s
    <2>1. n \in Waiting(s)
        BY <1>1, <1>5 DEF Waiting
    <2>2. Queued(s) = {} /\ Held(s) = {} /\ ~Offered(s) /\ Waiting(s)' = {}
        BY <1>3, <2>1 DEF StepSound, OnePlace
    <2>3. Queued(s)' \subseteq {Len(tqueue) + 1}
        BY <1>1, <2>2 DEF Queued
    <2>4. OnePlace(s)'
        BY <1>2, <2>2, <2>3 DEF OnePlace
    <2>5. Ahead(s)' => Ahead(s)
        BY <2>1 DEF Ahead
    <2> QED BY <1>1, <2>4, <2>5, MovedSound
<1> QED BY <1>4, <1>5

\* drain throws jobs away, and join puts no job.
LEMMA MainEndSound ==
    ASSUME Flow, NEW s \in Steps, StepSound(s), MainDrain \/ MainJoin
    PROVE  StepSound(s)'
<1> USE DEF wfVars, tqVars, queueVars, threadVars, jobVars, genVars, resVars
<1>1. /\ UNCHANGED <<stepVars, genVars, wpc, wtask, wres, pending>>
      /\ mpc \in {"drain", "join"} /\ mpc' \in {"drain", "join", "done"}
      /\ tqueue \in Seq(Jobs \cup {NoTask})
    BY DEF MainDrain, MainJoin, DrainOne, JoinPut, Flow, TypeOK
<1>2. /\ Held(s)' = Held(s) /\ (Offered(s)' => Offered(s))
      /\ Waiting(s)' = Waiting(s)
    BY <1>1 DEF Held, Busying, Offered, Waiting, CurrentStep, stepVars, docVars
<1>3. CASE tqueue' = tqueue \/ tqueue' = Append(tqueue, NoTask)
    <2>1. NoTask # s
        BY StepsAssumption, ExecutorAssumption DEF Jobs
    <2>2. Queued(s)' = Queued(s)
        BY <1>1, <1>3, <2>1 DEF Queued
    <2> QED BY <1>1, <1>2, <2>2, QuietSound
<1>4. CASE tqueue # <<>> /\ tqueue' = Tail(tqueue)
    <2>1. \A i \in Queued(s)' : i \in Int /\ i + 1 \in Queued(s)
        BY <1>1, <1>4 DEF Queued
    <2>2. OnePlace(s)'
        BY <1>2, <2>1 DEF StepSound, OnePlace
    <2>3. Ahead(s)' => Ahead(s)
        BY <1>1, <1>2, <2>1 DEF Ahead
    <2> QED BY <1>1, <2>2, <2>3, MovedSound
<1> QED BY <1>3, <1>4 DEF MainDrain, MainJoin, DrainOne, JoinPut

\* A thread takes a job from the queue.
LEMMA WorkerGetSound ==
    ASSUME Flow, NEW s \in Steps, StepSound(s), NEW w \in Workers, WorkerGet(w)
    PROVE  StepSound(s)'
<1> USE DEF wfVars, jobVars, genVars, mainVars, resVars
<1>1. /\ UNCHANGED <<stepVars, genVars, wres, pending, mpc, n>>
      /\ wpc[w] = "get" /\ tqueue # <<>> /\ tqueue' = Tail(tqueue)
      /\ tqueue \in Seq(Jobs \cup {NoTask})
      /\ wpc \in [Workers -> {"get", "run", "callback", "record", "finish",
                              "finally", "dec", "exit"}]
      /\ wtask \in [Workers -> Jobs \cup {NoTask}]
    BY DEF WorkerGet, Get, Flow, TypeOK
<1>2. (Offered(s)' <=> Offered(s)) /\ Waiting(s)' = Waiting(s)
    BY <1>1 DEF Offered, Waiting, CurrentStep, stepVars, docVars
<1>3. /\ \A i \in Queued(s)' : i \in Int /\ i + 1 \in Queued(s)
      /\ Head(tqueue) = s => 1 \in Queued(s) /\ 1 \notin {i + 1 : i \in Queued(s)'}
    BY <1>1 DEF Queued
<1>4. CASE Head(tqueue) = s
    <2>1. /\ wpc' = [wpc EXCEPT ![w] = "run"]
          /\ wtask' = [wtask EXCEPT ![w] = s]
        BY <1>4, StepsAssumption, ExecutorAssumption DEF WorkerGet, Get, Jobs
    <2>2. Waiting(s) = {} /\ Held(s) = {} /\ ~Offered(s)
        BY <1>3, <1>4 DEF StepSound, OnePlace
    <2>3. Queued(s)' = {}
        BY <1>3, <1>4 DEF StepSound, OnePlace
    <2>4. Held(s)' = {w}
        BY <1>1, <2>1, <2>2 DEF Held, Busying
    <2>5. OnePlace(s)'
        BY <1>2, <2>2, <2>3, <2>4 DEF OnePlace
    <2>6. Ahead(s) /\ Ahead(s)' /\ wpc'[w] = "run"
        BY <1>1, <1>3, <1>4, <2>1, <2>4 DEF Ahead
    <2> QED BY <1>1, <2>4, <2>5, <2>6 DEF StepSound, stepVars, docVars
<1>5. CASE Head(tqueue) # s
    <2>1. Held(s)' = Held(s) /\ \A v \in Held(s) : wpc'[v] = wpc[v]
        BY <1>1, <1>5 DEF WorkerGet, Get, Held, Busying
    <2>2. OnePlace(s)'
        BY <1>2, <1>3, <2>1 DEF StepSound, OnePlace
    <2>3. Ahead(s)' => Ahead(s)
        BY <1>2, <1>3, <2>1 DEF Ahead
    <2> QED BY <1>1, <2>1, <2>2, <2>3 DEF StepSound, stepVars, docVars
<1> QED BY <1>4, <1>5

\* A thread goes on with its job, and the outputs and flags stay.
LEMMA BusySound ==
    ASSUME Flow, NEW s \in Steps, StepSound(s), NEW w \in Workers,
           NEW p \in {"callback", "finish", "finally", "dec"},
           wpc[w] \notin {"get", "exit"}, wpc' = [wpc EXCEPT ![w] = p],
           p = "callback" => wpc[w] = "run",
           \A v \in Workers : wpc[v] = "record" => wres'[v] = wres[v],
           UNCHANGED <<stepVars, genVars, tqueue, wtask, pending, mpc, n>>
    PROVE  StepSound(s)'
<1>0. wpc \in [Workers -> {"get", "run", "callback", "record", "finish",
                           "finally", "dec", "exit"}]
    BY DEF Flow, TypeOK
<1>1. /\ Held(s)' = Held(s) /\ Queued(s)' = Queued(s) /\ Waiting(s)' = Waiting(s)
      /\ Offered(s)' <=> Offered(s)
    BY <1>0 DEF Held, Busying, Queued, Waiting, Offered, CurrentStep, genVars,
                stepVars, docVars
<1>2. OnePlace(s)'
    BY <1>1 DEF StepSound, OnePlace
<1>3. Ahead(s)' => Ahead(s)
    BY <1>0, <1>1 DEF Ahead
<1>4. \A v \in Held(s) : wpc'[v] = "record" => wpc[v] = "record" /\ v \in Workers
    BY <1>0 DEF Held, Busying
<1> QED BY <1>1, <1>2, <1>3, <1>4 DEF StepSound, stepVars, docVars

\* receive_output stores what the job delivered.
LEMMA WorkerCallbackSound ==
    ASSUME Flow, NEW s \in Steps, \A t \in Steps : StepSound(t),
           NEW w \in Workers, WorkerCallback(w)
    PROVE  StepSound(s)'
<1> DEFINE x == wtask[w]
<1>0. /\ wpc \in [Workers -> {"get", "run", "callback", "record", "finish",
                              "finally", "dec", "exit"}]
      /\ state \in [Steps -> Status \cup {"none"}]
      /\ x \in Steps /\ wpc[w] = "callback"
      /\ sources[s] \subseteq Steps
    BY StepsAssumption
       DEF WorkerCallback, Flow, TypeOK, WfTypeOK, PositionsValid
<1>1. /\ UNCHANGED <<docVars, submitted, completed, genVars, tqueue, wtask,
                     wres, pending, mpc, n>>
      /\ state' = [state EXCEPT ![x] = Stored(wres[w])]
      /\ wpc' = [wpc EXCEPT ![w] = "record"]
    BY DEF WorkerCallback, StoreOutput, queueVars, mainVars, resVars, cbVars
<1> HIDE DEF x
<1>2. /\ Held(s)' = Held(s) /\ Queued(s)' = Queued(s) /\ Waiting(s)' = Waiting(s)
      /\ Offered(s)' <=> Offered(s)
    BY <1>0, <1>1 DEF Held, Busying, Queued, Waiting, Offered, CurrentStep,
                      genVars, docVars
<1>3. OnePlace(s)'
    BY <1>2 DEF StepSound, OnePlace
<1>4. w \in Held(x) /\ Ahead(x)
    BY <1>0 DEF Held, Busying, Ahead, x
<1>5. state[x] = "none" /\ "none" \notin Done
    BY <1>0, <1>4 DEF StepSound, Done
<1>6. s \in submitted => \A t \in sources[s] : state'[t] \in Done
    BY <1>0, <1>1, <1>5 DEF StepSound
<1>7. CASE s = x
    <2>1. /\ \A v \in Held(s) : v = w
          /\ Queued(s) = {} /\ Waiting(s) = {} /\ ~Offered(s)
        BY <1>4, <1>7 DEF StepSound, OnePlace
    <2>2. ~Ahead(s)'
        BY <1>0, <1>1, <1>2, <2>1 DEF Ahead
    <2>3. s \in submitted /\ s \notin completed
        BY <1>4, <1>7 DEF StepSound
    <2>4. state'[s] = Stored(wres[w])
        BY <1>0, <1>1, <1>7
    <2> QED BY <1>1, <1>2, <1>3, <1>6, <2>1, <2>2, <2>3, <2>4
            DEF StepSound, docVars
<1>8. CASE s # x
    <2>1. \A v \in Held(s) : v # w
        BY <1>8 DEF Held, x
    <2>2. \A v \in Held(s) : wpc'[v] = wpc[v]
        BY <1>0, <1>1, <2>1 DEF Held, Busying
    <2>3. state'[s] = state[s]
        BY <1>0, <1>1, <1>8
    <2>4. Ahead(s)' <=> Ahead(s)
        BY <1>2, <2>2 DEF Ahead
    <2> QED BY <1>1, <1>2, <1>3, <1>6, <2>2, <2>3, <2>4 DEF StepSound, docVars
<1> QED BY <1>7, <1>8

\* receive_output marks the step completed.
LEMMA WorkerRecordSound ==
    ASSUME Flow, NEW s \in Steps, StepSound(s), NEW w \in Workers, WorkerRecord(w)
    PROVE  StepSound(s)'
<1>0. /\ wpc \in [Workers -> {"get", "run", "callback", "record", "finish",
                              "finally", "dec", "exit"}]
      /\ wtask[w] \in Steps /\ wpc[w] = "record"
    BY DEF WorkerRecord, Flow, TypeOK, PositionsValid
<1>1. /\ UNCHANGED <<docVars, submitted, state, genVars, tqueue, wtask,
                     wres, pending, mpc, n>>
      /\ completed' = completed \cup {wtask[w]}
      /\ wpc' = [wpc EXCEPT ![w] = "finish"]
    BY DEF WorkerRecord, RecordStatus, queueVars, mainVars, resVars, jobVars
<1>2. /\ Held(s)' = Held(s) /\ Queued(s)' = Queued(s) /\ Waiting(s)' = Waiting(s)
      /\ Offered(s)' <=> Offered(s)
    BY <1>0, <1>1 DEF Held, Busying, Queued, Waiting, Offered, CurrentStep,
                      genVars, docVars
<1>3. OnePlace(s)'
    BY <1>2 DEF StepSound, OnePlace
<1>4. Ahead(s)' <=> Ahead(s)
    BY <1>0, <1>1, <1>2 DEF Ahead
<1>5. \A v \in Held(s) : wpc'[v] = "record" => wpc[v] = "record"
    BY <1>0, <1>1 DEF Held, Busying
<1>6. CASE s = wtask[w]
    <2>1. w \in Held(s)
        BY <1>0, <1>6 DEF Held, Busying
    <2>2. \A v \in Held(s) : v = w
        BY <2>1 DEF StepSound, OnePlace
    <2>3. ~Ahead(s) /\ s \in submitted
        BY <1>0, <2>1, <2>2 DEF StepSound, OnePlace, Ahead
    <2>4. \A v \in Held(s)' : wpc'[v] # "record"
        BY <1>0, <1>1, <1>2, <2>2
    <2> QED BY <1>1, <1>2, <1>3, <1>4, <2>3, <2>4 DEF StepSound, docVars
<1>7. CASE s # wtask[w]
    BY <1>1, <1>2, <1>3, <1>4, <1>5, <1>7 DEF StepSound, docVars
<1> QED BY <1>6, <1>7

LEMMA WorkerDecSound ==
    ASSUME Flow, NEW s \in Steps, StepSound(s), NEW w \in Workers, WorkerDec(w)
    PROVE  StepSound(s)'
<1>0. /\ wpc \in [Workers -> {"get", "run", "callback", "record", "finish",
                              "finally", "dec", "exit"}]
      /\ wtask \in [Workers -> Jobs \cup {NoTask}]
      /\ wpc[w] = "dec"
    BY DEF WorkerDec, Dec, Flow, TypeOK
<1>1. /\ UNCHANGED <<stepVars, genVars, tqueue, wres, pending, mpc, n>>
      /\ wpc' = [wpc EXCEPT ![w] = "get"]
      /\ wtask' = [wtask EXCEPT ![w] = NoTask]
    BY DEF WorkerDec, Dec, wfVars, mainVars, resVars, jobVars
<1>2. /\ Queued(s)' = Queued(s) /\ Waiting(s)' = Waiting(s)
      /\ Offered(s)' <=> Offered(s)
    BY <1>1 DEF Queued, Waiting, Offered, CurrentStep, genVars, stepVars, docVars
<1>3. /\ Held(s)' \subseteq Held(s)
      /\ \A v \in Held(s)' : wpc'[v] = wpc[v]
    BY <1>0, <1>1 DEF Held, Busying
<1>4. OnePlace(s)'
    BY <1>2, <1>3 DEF StepSound, OnePlace
<1>5. Ahead(s)' => Ahead(s)
    BY <1>2, <1>3 DEF Ahead
<1> QED BY <1>1, <1>2, <1>3, <1>4, <1>5 DEF StepSound, stepVars, docVars

LEMMA WorkerSound ==
    ASSUME Flow, NEW s \in Steps, \A t \in Steps : StepSound(t),
           NEW w \in Workers, WorkerStep(w)
    PROVE  StepSound(s)'
<1> USE DEF wfVars, queueVars, mainVars, resVars, lockVars, jobVars
<1>1. CASE WorkerRunWf(w)
    BY <1>1, BusySound DEF WorkerRunWf
<1>2. CASE WorkerRun(w)
    <2>1. \A v \in Workers : wpc[v] = "record" => wres'[v] = wres[v]
        BY <1>2 DEF WorkerRun, Flow, TypeOK
    <2> QED BY <1>2, <2>1, BusySound DEF WorkerRun
<1>3. CASE WorkerRaise(w)
    BY <1>3, BusySound DEF WorkerRaise
<1>4. CASE WorkerFinish(w)
    <2>1. UNCHANGED <<stepVars, genVars>>
        BY <1>4 DEF WorkerFinish, ReceiveFinish
    <2> QED BY <1>4, <2>1, BusySound DEF WorkerFinish
<1>5. CASE WorkerFinally(w)
    BY <1>5, BusySound DEF WorkerFinally
<1> QED BY <1>1, <1>2, <1>3, <1>4, <1>5, WorkerGetSound, WorkerCallbackSound,
           WorkerRecordSound, WorkerDecSound DEF WorkerStep

\* The generator submits the step it is at.
LEMMA SubmitSound ==
    ASSUME Flow, NEW s \in Steps, StepSound(s), MainGenerate,
           GenMake \/ GenMakeRaises \/ GenSkip
    PROVE  StepSound(s)'
<1> DEFINE c == CurrentStep
<1>0. /\ UNCHANGED <<tqVars, mainVars, resVars, lockVars, jobVars>>
      /\ c \in Steps /\ c \notin submitted /\ gpc = "step"
      /\ mpc = "take" /\ UNCHANGED docVars
      /\ \A t \in sources[c] : state[t] \in Done
      /\ \A t \in sources[s] : t \in Steps
      /\ state \in [Steps -> Status \cup {"none"}]
    <2>1. CanMake /\ UNCHANGED docVars
        BY DEF GenMake, GenMakeRaises, GenSkip
    <2>2. /\ sources \in [Steps -> SUBSET Steps]
          /\ state \in [Steps -> Status \cup {"none"}]
          /\ order \in [1..NumSteps -> Steps] /\ gidx \in 1..(NumSteps + 1)
        BY StepsAssumption DEF Flow, TypeOK, WfTypeOK
    <2>3. c \in Steps
        BY <2>1, <2>2, NumStepsFacts DEF CanMake, CurrentStep
    <2> QED BY <2>1, <2>2, <2>3 DEF MainGenerate, CanMake, InputsReady
<1>1. /\ Held(s)' = Held(s) /\ Queued(s)' = Queued(s) /\ Waiting(s)' = Waiting(s)
      /\ UNCHANGED <<wpc, wres>>
    BY <1>0 DEF Held, Busying, Queued, Waiting, tqVars, queueVars, threadVars,
                mainVars, resVars, jobVars
<1>2. ~Offered(s)
    BY <1>0 DEF Offered
<1>3. s = c => Held(s) = {} /\ ~Ahead(s) /\ state[s] = "none"
    BY <1>0 DEF StepSound
<1>4. s = c => Queued(s) = {} /\ Waiting(s) = {}
    BY <1>3 DEF Ahead
<1>5. CASE GenMake
    <2>1. /\ MakeError[c] = "none" /\ submitted' = submitted \cup {c}
          /\ UNCHANGED <<completed, state, gidx>> /\ gpc' = "made"
        BY <1>5 DEF GenMake
    <2>2. Offered(s)' <=> s = c
        BY <1>0, <2>1 DEF Offered, CurrentStep, docVars
    <2>3. OnePlace(s)'
        BY <1>1, <1>3, <1>4, <2>2 DEF StepSound, OnePlace
    <2>4. Ahead(s)' <=> Ahead(s) \/ s = c
        BY <1>1, <1>2, <2>2 DEF Ahead
    <2>5. s = c => s \notin completed
        BY <1>0, <2>1 DEF StepSound, EarlyErrors
    <2> QED BY <1>0, <1>1, <1>3, <2>1, <2>3, <2>4, <2>5 DEF StepSound, docVars
<1>6. CASE GenMakeRaises
    <2>1. /\ MakeError[c] # "none"
          /\ submitted' = submitted \/ submitted' = submitted \cup {c}
          /\ completed' = completed \/ completed' = completed \cup {c}
          /\ UNCHANGED <<state, gpc>>
        BY <1>6 DEF GenMakeRaises
    <2>2. ~Offered(s)'
        BY <1>0, <2>1 DEF Offered
    <2>3. OnePlace(s)'
        BY <1>1, <2>2 DEF StepSound, OnePlace
    <2>4. Ahead(s)' <=> Ahead(s)
        BY <1>1, <1>2, <2>2 DEF Ahead
    <2>5. s \in completed' \ submitted' => MakeError[s] \in EarlyErrors
        <3>1. CASE MakeError[c] \in LateErrors
            BY <1>6, <3>1 DEF GenMakeRaises, StepSound
        <3>2. CASE MakeError[c] \notin LateErrors
            <4>1. MakeError[c] \in EarlyErrors
                BY <1>0, <2>1, <3>2, StepsAssumption
            <4> QED BY <2>1, <4>1 DEF StepSound
        <3> QED BY <3>1, <3>2
    <2> QED BY <1>0, <1>1, <1>3, <2>1, <2>3, <2>4, <2>5 DEF StepSound, docVars
<1>7. CASE GenSkip
    <2>1. /\ submitted' = submitted \cup {c} /\ completed' = completed \cup {c}
          /\ state' = [state EXCEPT ![c] = "skipped"] /\ UNCHANGED gpc
        BY <1>7 DEF GenSkip
    <2>2. ~Offered(s)'
        BY <1>0, <2>1 DEF Offered
    <2>3. OnePlace(s)'
        BY <1>1, <2>2 DEF StepSound, OnePlace
    <2>4. Ahead(s)' <=> Ahead(s)
        BY <1>1, <1>2, <2>2 DEF Ahead
    <2>5. state'[c] \in Done /\ \A t \in Steps : t # c => state'[t] = state[t]
        BY <1>0, <2>1 DEF Done
    <2>6. s \in submitted' => \A t \in sources[s] : state'[t] \in Done
        BY <1>0, <2>1, <2>5 DEF StepSound
    <2> QED BY <1>0, <1>1, <1>3, <2>1, <2>3, <2>4, <2>5, <2>6
            DEF StepSound, docVars
<1> QED BY <1>5, <1>6, <1>7

LEMMA MainGenSound ==
    ASSUME Flow, NEW s \in Steps, StepSound(s),
           MainGenerate \/ MainNext \/ MainWakeNext
    PROVE  StepSound(s)'
<1>1. CASE MainGenerate /\ (GenMake \/ GenMakeRaises \/ GenSkip)
    BY <1>1, SubmitSound
<1>2. CASE ~(MainGenerate /\ (GenMake \/ GenMakeRaises \/ GenSkip))
    <2>1. /\ UNCHANGED <<tqVars, n, resVars, jobVars>>
          /\ mpc' = "take" /\ mpc # "reacquire"
          /\ mpc = "take" \/ GenResume
          /\ \/ GenLoop \/ GenForEnd \/ GenNotReady \/ GenYieldJob \/ GenSum
             \/ GenExit \/ GenResume
        BY <1>2 DEF MainGenerate, MainNext, MainWakeNext, GenRun, mainVars,
                    WakeUp
    <2>2. UNCHANGED stepVars
        BY <2>1 DEF GenLoop, GenForEnd, GenNotReady, GenYieldJob, GenSum,
                    GenExit, GenResume
    <2>3. Offered(s)' => Offered(s)
        <3>1. CASE GenYieldJob
            BY <2>1, <3>1 DEF GenYieldJob, Offered, CurrentStep
        <3>2. CASE ~GenYieldJob
            BY <2>1, <3>2, StepsAssumption
               DEF GenLoop, GenForEnd, GenNotReady, GenSum, GenExit, GenResume,
                   Offered, Jobs
        <3> QED BY <3>1, <3>2
    <2>4. Waiting(s)' = Waiting(s) /\ Queued(s)' = Queued(s)
        BY <2>1 DEF Waiting, Queued, tqVars, queueVars, resVars
    <2> QED BY <2>1, <2>2, <2>3, <2>4, QuietSound
            DEF tqVars, threadVars, jobVars
<1> QED BY <1>1, <1>2

Sound == \A s \in Steps : StepSound(s)

LEMMA InitSound == Init => Sound
<1> SUFFICES ASSUME Init, NEW s \in Steps PROVE StepSound(s)
    BY DEF Sound
<1>1. Waiting(s) = {} /\ Queued(s) = {} /\ Held(s) = {} /\ ~Offered(s)
    BY StepsAssumption
       DEF Init, WfInit, TqInit, Waiting, Queued, Held, Busying, Offered
<1>2. submitted = {} /\ completed = {} /\ state[s] = "none"
    BY DEF Init, WfInit
<1> QED BY <1>1, <1>2 DEF StepSound, OnePlace, Ahead

LEMMA StepSoundness == Flow /\ Sound /\ [Next]_vars => Sound'
<1> SUFFICES ASSUME Flow, Sound, [Next]_vars, NEW s \in Steps
             PROVE  StepSound(s)'
    BY DEF Sound
<1>1. StepSound(s) /\ \A t \in Steps : StepSound(t)
    BY DEF Sound
<1>2. CASE MainStep
    BY <1>1, <1>2, MainQuietSound, MainTakeSound, MainRemoveSound, MainPutSound,
       MainEndSound, MainGenSound DEF MainStep
<1>3. CASE \E w \in Workers : WorkerStep(w)
    BY <1>1, <1>3, WorkerSound
<1>4. CASE UNCHANGED vars
    BY <1>1, <1>4, MainQuietSound
<1> QED BY <1>2, <1>3, <1>4 DEF Next, Finished

-----------------------------------------------------------------------------
(* The status of the workflow and its report. *)

\* NoFalseSuccess survives whatever completes more steps and keeps the
\* outputs of the completed ones.
LEMMA ReportKept ==
    ASSUME NoFalseSuccess, UNCHANGED <<outputsFail, final>>,
           completed \subseteq completed',
           \A s \in completed : state[s] \in Done => state'[s] \in Done
    PROVE  NoFalseSuccess'
    BY DEF NoFalseSuccess

\* do_output_callback in a state where the status is not a false success.
LEMMA ReportSound ==
    ASSUME Flow, NoFalseSuccess, UNCHANGED <<outputsFail>>, DoOutputCallback,
           completed \subseteq completed',
           \A s \in completed : state[s] \in Done => state'[s] \in Done,
           processStatus = "success" =>
               \A s \in Steps : s \in completed' /\ state'[s] \in Done
    PROVE  NoFalseSuccess'
<1>1. /\ final \in Seq({"success"} \cup Failures)
      /\ final' = Append(final, processStatus')
      /\ processStatus' = "success" => processStatus = "success" /\ ~outputsFail
    BY DEF DoOutputCallback, Flow, TypeOK, WfTypeOK
<1>2. /\ Len(final') = Len(final) + 1
      /\ \A i \in 1..Len(final) : final'[i] = final[i]
      /\ final'[Len(final) + 1] = processStatus'
    BY <1>1 DEF DoOutputCallback, Flow, TypeOK, WfTypeOK, Failures
<1> SUFFICES ASSUME NEW i \in 1..Len(final'), final'[i] = "success"
             PROVE  ~outputsFail /\ \A s \in Steps : s \in completed' /\ state'[s] \in Done
    BY DEF NoFalseSuccess
<1>3. CASE i \in 1..Len(final)
    BY <1>2, <1>3 DEF NoFalseSuccess
<1>4. CASE i = Len(final) + 1
    BY <1>1, <1>2, <1>4
<1> QED BY <1>1, <1>2, <1>3, <1>4

LEMMA InitStatus == Init => StatusSound
<1> SUFFICES ASSUME Init PROVE StatusSound
    OBVIOUS
<1>1. /\ completed = {} /\ final = <<>> /\ gpc = "yield"
      /\ \A w \in Workers : wpc[w] # "record"
    BY DEF Init, WfInit, TqInit
<1> QED BY <1>1 DEF StatusSound, NoFalseSuccess

LEMMA QuietStatus ==
    ASSUME StatusSound, UNCHANGED <<stepVars, processStatus, final, gpc>>,
           \A w \in Workers : wpc'[w] = "record" =>
               wpc[w] = "record" /\ wold'[w] = wold[w]
    PROVE  StatusSound'
<1>1. NoFalseSuccess'
    BY ReportKept DEF StatusSound, stepVars, docVars
<1> QED BY <1>1 DEF StatusSound, stepVars, docVars

LEMMA MainStatus ==
    ASSUME Flow, StatusSound, MainStep \/ UNCHANGED vars,
           ~(MainGenerate \/ MainNext \/ MainWakeNext)
    PROVE  StatusSound'
<1>1. UNCHANGED <<wfVars, wpc, wold>>
    BY DEF MainStep, MainTake, MainTakeEnd, MainTooBig, MainBusy, MainStart,
           MainScanned, MainPut, MainPutFull, MainRetry, MainReacquire,
           MainWait, MainGiveUp, MainLeave, MainWakeRaise, MainWakeTail,
           MainDrain, MainJoin, WakeUp, AddCount, AddPut, DrainOne, JoinPut,
           vars, tqVars, queueVars, threadVars, jobVars
<1> QED BY <1>1, QuietStatus DEF wfVars, cbVars, genVars

\* A step of the generator, which leaves the threads alone.
LEMMA GenStatusKept ==
    ASSUME StatusSound, UNCHANGED <<wpc, wold>>, NoFalseSuccess',
           processStatus' = "success" =>
               /\ processStatus = "success"
               /\ \A s \in completed' : state'[s] \in Done
               /\ gpc' = "exit" => completed' = Steps
    PROVE  StatusSound'
<1>1. processStatus' = "success" =>
          \A w \in Workers : wpc'[w] = "record" => wold'[w] = "success"
    BY DEF StatusSound
<1> QED BY <1>1 DEF StatusSound

LEMMA GenStatus ==
    ASSUME Flow, Sound, StatusSound, MainGenerate \/ MainNext \/ MainWakeNext
    PROVE  StatusSound'
<1>0. /\ UNCHANGED <<wpc, wold>>
      /\ GenRun \/ GenResume
      /\ processStatus \in {"success"} \cup Failures
      /\ completed \subseteq Steps
      /\ state \in [Steps -> Status \cup {"none"}]
    BY DEF MainGenerate, MainNext, MainWakeNext, WakeUp, tqVars, threadVars,
           jobVars, Flow, TypeOK, WfTypeOK
<1> USE DEF stepVars, docVars, cbVars
<1>1. CASE GenLoop \/ GenForEnd \/ GenNotReady \/ GenMake \/ GenYieldJob
              \/ GenResume
    <2>1. /\ UNCHANGED <<docVars, completed, state, processStatus, final>>
          /\ gpc' # "exit"
        BY <1>1 DEF GenLoop, GenForEnd, GenNotReady, GenMake, GenYieldJob,
                    GenResume
    <2>2. NoFalseSuccess'
        BY <2>1, ReportKept DEF StatusSound
    <2> QED BY <1>0, <2>1, <2>2, GenStatusKept DEF StatusSound
<1>2. CASE GenSum
    <2>1. UNCHANGED <<stepVars, cbVars>>
        BY <1>2 DEF GenSum
    <2>2. gpc' = "exit" /\ processStatus = "success" => completed = Steps
        <3>1. gpc' = "exit" /\ processStatus = "success" =>
                  ~(Cardinality(completed) < NumSteps)
            BY <1>2 DEF GenSum
        <3>2. Cardinality(completed) \in Nat /\ Cardinality(completed) <= NumSteps
            BY <1>0, StepsAssumption, FS_Subset, FS_CardinalityType DEF NumSteps
        <3> QED BY <1>0, <3>1, <3>2, NumStepsFacts
    <2>3. NoFalseSuccess'
        BY <2>1, ReportKept DEF StatusSound
    <2> QED BY <1>0, <2>1, <2>2, <2>3, GenStatusKept DEF StatusSound
<1>3. CASE GenExit
    <2>1. gpc = "exit" /\ gpc' = "end" /\ UNCHANGED stepVars
        BY <1>3 DEF GenExit
    <2>2. CASE UNCHANGED <<processStatus, final>>
        <3>1. NoFalseSuccess'
            BY <2>1, <2>2, ReportKept DEF StatusSound
        <3> QED BY <1>0, <2>1, <2>2, <3>1, GenStatusKept DEF StatusSound
    <2>3. CASE DoOutputCallback
        <3>1. processStatus' = "success" => processStatus = "success"
            BY <2>3 DEF DoOutputCallback
        <3>2. processStatus = "success" =>
                  \A s \in Steps : s \in completed' /\ state'[s] \in Done
            BY <2>1 DEF StatusSound
        <3>3. NoFalseSuccess'
            BY <2>1, <2>3, <3>2, ReportSound DEF StatusSound
        <3> QED BY <1>0, <2>1, <3>1, <3>3, GenStatusKept DEF StatusSound
    <2> QED BY <1>3, <2>2, <2>3 DEF GenExit
<1>4. CASE GenMakeRaises
    <2>1. /\ UNCHANGED <<docVars, state, final, gpc>>
          /\ processStatus' = "permanentFail" /\ completed \subseteq completed'
        BY <1>4 DEF GenMakeRaises
    <2>2. NoFalseSuccess'
        BY <2>1, ReportKept DEF StatusSound
    <2> QED BY <1>0, <2>1, <2>2, GenStatusKept
<1>5. CASE GenSkip
    <2>1. /\ gpc = "step" /\ UNCHANGED <<docVars, gpc>>
          /\ completed' = completed \cup {CurrentStep}
          /\ state' = [state EXCEPT ![CurrentStep] = "skipped"]
          /\ \/ UNCHANGED <<processStatus, final>>
             \/ DoOutputCallback /\ Cardinality(completed') = NumSteps
        BY <1>5 DEF GenSkip, CanMake
    <2>2. /\ CurrentStep \in Steps
          /\ \A s \in Steps : state[s] \in Done => state'[s] \in Done
          /\ state'[CurrentStep] \in Done
        <3>1. CurrentStep \in Steps
            BY <1>5, NumStepsFacts
               DEF GenSkip, CanMake, CurrentStep, Flow, TypeOK, WfTypeOK
        <3> QED BY <1>0, <2>1, <3>1 DEF Done
    <2>3. processStatus = "success" => \A s \in completed' : state'[s] \in Done
        BY <1>0, <2>1, <2>2 DEF StatusSound
    <2>4. CASE UNCHANGED <<processStatus, final>>
        <3>1. NoFalseSuccess'
            BY <1>0, <2>1, <2>2, <2>4, ReportKept DEF StatusSound
        <3> QED BY <1>0, <2>1, <2>3, <2>4, <3>1, GenStatusKept
    <2>5. CASE DoOutputCallback /\ Cardinality(completed') = NumSteps
        <3>1. completed' = Steps
            BY <1>0, <2>1, <2>2, <2>5, NumStepsFacts
        <3>2. processStatus' = "success" => processStatus = "success"
            BY <2>5 DEF DoOutputCallback
        <3>3. NoFalseSuccess'
            BY <1>0, <2>1, <2>2, <2>3, <2>5, <3>1, ReportSound DEF StatusSound
        <3> QED BY <1>0, <2>1, <2>3, <3>1, <3>2, <3>3, GenStatusKept
    <2> QED BY <2>1, <2>4, <2>5
<1> QED BY <1>0, <1>1, <1>2, <1>3, <1>4, <1>5 DEF GenRun

LEMMA WorkerStatus ==
    ASSUME Flow, Sound, StatusSound, NEW w \in Workers, WorkerStep(w)
    PROVE  StatusSound'
<1> USE DEF wfVars, queueVars, mainVars, resVars, lockVars, jobVars, cbVars,
            genVars
<1>0. /\ wpc \in [Workers -> {"get", "run", "callback", "record", "finish",
                              "finally", "dec", "exit"}]
      /\ wold \in [Workers -> {"success"} \cup Failures]
      /\ state \in [Steps -> Status \cup {"none"}] /\ completed \subseteq Steps
      /\ wpc[w] \in {"callback", "record", "finish"} => wtask[w] \in Steps
    BY DEF Flow, TypeOK, WfTypeOK, PositionsValid
<1>1. CASE \/ WorkerGet(w) \/ WorkerRunWf(w) \/ WorkerRun(w) \/ WorkerRaise(w)
           \/ WorkerFinally(w) \/ WorkerDec(w)
    <2>1. UNCHANGED <<wfVars, wold>>
        BY <1>1 DEF WorkerGet, WorkerRunWf, WorkerRun, WorkerRaise,
                    WorkerFinally, WorkerDec
    <2>2. \A v \in Workers : wpc'[v] = "record" => wpc[v] = "record"
        BY <1>0, <1>1 DEF WorkerGet, WorkerRunWf, WorkerRun, WorkerRaise,
                          WorkerFinally, WorkerDec, Get, Dec
    <2> QED BY <2>1, <2>2, QuietStatus
<1>2. CASE WorkerCallback(w)
    <2>1. /\ UNCHANGED <<docVars, completed, processStatus, final, gpc>>
          /\ state' = [state EXCEPT ![wtask[w]] = Stored(wres[w])]
          /\ wold' = [wold EXCEPT ![w] = processStatus]
          /\ wpc' = [wpc EXCEPT ![w] = "record"] /\ wpc[w] = "callback"
        BY <1>2 DEF WorkerCallback, StoreOutput
    <2>2. wtask[w] \in Steps /\ wtask[w] \notin completed
        <3>1. wtask[w] \in Steps /\ w \in Held(wtask[w])
            BY <1>0, <2>1 DEF Held, Busying
        <3>2. Ahead(wtask[w])
            BY <2>1, <3>1 DEF Ahead
        <3> QED BY <3>1, <3>2 DEF Sound, StepSound
    <2>3. \A s \in completed : state'[s] = state[s]
        BY <1>0, <2>1, <2>2
    <2>4. NoFalseSuccess'
        BY <2>1, <2>3, ReportKept DEF StatusSound, docVars
    <2>5. \A v \in Workers : wpc'[v] = "record" =>
              wold'[v] = processStatus \/ (wpc[v] = "record" /\ wold'[v] = wold[v])
        BY <1>0, <2>1
    <2> QED BY <2>1, <2>3, <2>4, <2>5 DEF StatusSound
<1>3. CASE WorkerRecord(w)
    <2>1. /\ UNCHANGED <<docVars, state, final, gpc, wold>> /\ wpc[w] = "record"
          /\ completed' = completed \cup {wtask[w]}
          /\ processStatus' = IF Overwrites(wold[w], Judged(wres[w]))
                              THEN Judged(wres[w]) ELSE processStatus
          /\ wpc' = [wpc EXCEPT ![w] = "finish"]
        BY <1>3 DEF WorkerRecord, RecordStatus
    <2>2. NoFalseSuccess'
        BY <2>1, ReportKept DEF StatusSound, docVars
    <2>3. state[wtask[w]] = Stored(wres[w])
        <3>1. wtask[w] \in Steps /\ w \in Held(wtask[w])
            BY <1>0, <2>1 DEF Held, Busying
        <3> QED BY <2>1, <3>1 DEF Sound, StepSound
    <2>4. ASSUME processStatus' = "success"
          PROVE  processStatus = "success" /\ state[wtask[w]] \in Done
        <3>1. ~Overwrites(wold[w], Judged(wres[w])) /\ processStatus = "success"
            BY <2>1, <2>4 DEF Overwrites, Failures
        <3>2. wold[w] = "success"
            BY <2>1, <3>1 DEF StatusSound
        <3>3. Judged(wres[w]) \notin Failures
            BY <3>1, <3>2 DEF Overwrites
        <3>4. wres[w] \in Results
            BY DEF Flow, TypeOK
        <3>5. Stored(wres[w]) = "success"
            BY <3>3, <3>4 DEF Judged, Stored, Results, Failures
        <3> QED BY <2>3, <3>1, <3>5 DEF Done
    <2>5. processStatus' = "success" =>
              /\ \A s \in completed' : state'[s] \in Done
              /\ \A v \in Workers : wpc'[v] = "record" => wold'[v] = "success"
        BY <1>0, <2>1, <2>4 DEF StatusSound
    <2>6. processStatus' = "success" /\ gpc' = "exit" => completed' = Steps
        BY <1>0, <2>1, <2>4 DEF StatusSound
    <2> QED BY <2>2, <2>5, <2>6 DEF StatusSound
<1>4. CASE WorkerFinish(w)
    <2>1. /\ UNCHANGED <<stepVars, gpc, wold>> /\ wpc' = [wpc EXCEPT ![w] = "finally"]
          /\ \/ UNCHANGED <<processStatus, final>>
             \/ DoOutputCallback /\ Cardinality(completed) = NumSteps
        BY <1>4 DEF WorkerFinish, ReceiveFinish
    <2>2. \A v \in Workers : wpc'[v] = "record" => wpc[v] = "record"
        BY <1>0, <2>1
    <2>3. CASE UNCHANGED <<processStatus, final>>
        BY <2>1, <2>2, <2>3, QuietStatus
    <2>4. CASE DoOutputCallback /\ Cardinality(completed) = NumSteps
        <3>1. completed = Steps
            BY <1>0, <2>4, NumStepsFacts
        <3>2. processStatus' = "success" => processStatus = "success"
            BY <2>4 DEF DoOutputCallback
        <3>3. NoFalseSuccess'
            BY <2>1, <2>4, <3>1, ReportSound DEF StatusSound, stepVars, docVars
        <3> QED BY <2>1, <2>2, <3>1, <3>2, <3>3
                DEF StatusSound, stepVars, docVars
    <2> QED BY <2>1, <2>3, <2>4
<1> QED BY <1>1, <1>2, <1>3, <1>4 DEF WorkerStep

-----------------------------------------------------------------------------
(***************************************************************************)
(* The theorems.                                                           *)
(***************************************************************************)

\* The inductive invariant holds: types, positions, counts, the place of every
\* job and what flags, outputs and status say about each other.
THEOREM Invariance == Spec => []IInv
<1>1. Init => IInv
    BY InitFlow, InitSound, InitStatus DEF IInv, Flow, Sound
<1>2. IInv /\ [Next]_vars => IInv'
    <2> SUFFICES ASSUME IInv, [Next]_vars PROVE IInv'
        OBVIOUS
    <2>1. Flow /\ Sound /\ StatusSound
        BY DEF IInv, Flow, Sound
    <2>2. Flow' /\ Sound'
        BY <2>1, StepFlow, StepSoundness
    <2>3. StatusSound'
        <3>1. CASE MainGenerate \/ MainNext \/ MainWakeNext
            BY <2>1, <3>1, GenStatus
        <3>2. CASE (MainStep \/ UNCHANGED vars)
                       /\ ~(MainGenerate \/ MainNext \/ MainWakeNext)
            BY <2>1, <3>2, MainStatus
        <3>3. CASE \E w \in Workers : WorkerStep(w)
            BY <2>1, <3>3, WorkerStatus
        <3> QED BY <3>1, <3>2, <3>3 DEF Next, Finished
    <2> QED BY <2>2, <2>3 DEF IInv, Flow, Sound
<1> QED BY <1>1, <1>2, PTL DEF Spec

\* Every variable of the executor keeps its type; in particular in_flight is
\* never negative, and the generator never reads past self.steps.
THEOREM TypeCorrect == Spec => []TypeOK
<1>1. IInv => TypeOK
    BY DEF IInv
<1> QED BY <1>1, Invariance, PTL

\* in_flight, by which run_jobs decides when to stop, is exactly the number of
\* jobs being added, queued or running until the queue is drained.
THEOREM InFlightExactHolds == Spec => []InFlightExact
<1>1. IInv => InFlightExact
    BY DEF IInv
<1> QED BY <1>1, Invariance, PTL

\* No step is submitted before the steps that feed it delivered, and what they
\* delivered stays.
THEOREM DependencyOrderHolds == Spec => []DependencyOrder
<1>1. IInv => DependencyOrder
    BY DEF IInv, StepSound, DependencyOrder, TypeOK, WfTypeOK
<1> QED BY <1>1, Invariance, PTL

\* The workflow is never falsely reported a success, whichever thread reports.
THEOREM NoFalseSuccessHolds == Spec => []NoFalseSuccess
<1>1. IInv => NoFalseSuccess
    BY DEF IInv, StatusSound
<1> QED BY <1>1, Invariance, PTL

\* No step runs twice or calls back twice.
THEOREM RunOnceHolds == Spec => []RunOnce
<1>1. ASSUME IInv PROVE RunOnce
    <2> SUFFICES ASSUME NEW s \in Steps
        PROVE /\ Cardinality(Waiting(s)) + Cardinality(Queued(s))
                     + Cardinality(Held(s)) <= 1
              /\ Waiting(s) \cup Queued(s) \cup Held(s) # {} => s \in submitted
              /\ s \in completed =>
                     /\ Waiting(s) \cup Queued(s) = {}
                     /\ \A w \in Held(s) : wpc[w] \in {"finish", "finally", "dec"}
        BY DEF RunOnce
    <2>1. StepSound(s) /\ OnePlace(s)
        BY <1>1 DEF IInv, StepSound
    <2>2. ASSUME NEW S, \A x, y \in S : x = y
          PROVE  /\ Cardinality(S) \in {0, 1}
                 /\ S = {} => Cardinality(S) = 0
        <3>1. CASE S = {}
            BY <3>1, FS_EmptySet
        <3>2. CASE S # {}
            <4>1. PICK x \in S : TRUE
                BY <3>2
            <4>2. S = {x}
                BY <2>2, <4>1
            <4> QED BY <3>2, <4>2, FS_Singleton
        <3> QED BY <3>1, <3>2
    <2>3. /\ Cardinality(Waiting(s)) \in {0, 1}
          /\ Cardinality(Queued(s)) \in {0, 1}
          /\ Cardinality(Held(s)) \in {0, 1}
          /\ Waiting(s) = {} => Cardinality(Waiting(s)) = 0
          /\ Queued(s) = {} => Cardinality(Queued(s)) = 0
          /\ Held(s) = {} => Cardinality(Held(s)) = 0
        BY <2>1, <2>2 DEF OnePlace
    <2>4. Cardinality(Waiting(s)) + Cardinality(Queued(s))
              + Cardinality(Held(s)) <= 1
        BY <2>1, <2>3 DEF OnePlace
    <2>5. Waiting(s) \cup Queued(s) \cup Held(s) # {} => s \in submitted
        BY <2>1 DEF StepSound, Ahead
    <2>6. s \in completed =>
              /\ Waiting(s) \cup Queued(s) = {}
              /\ \A w \in Held(s) : wpc[w] \in {"finish", "finally", "dec"}
        BY <1>1, <2>1 DEF StepSound, Ahead, Held, Busying, IInv, TypeOK
    <2> QED BY <2>4, <2>5, <2>6
<1> QED BY <1>1, Invariance, PTL
-----------------------------------------------------------------------------
(***************************************************************************)
(* The lock keeps a permanent failure: when every step is a command, no    *)
(* status is written between receive_output's test of it and its write.    *)
(***************************************************************************)

LEMMA MainLock ==
    ASSUME IInv, LockSound, MainStep \/ UNCHANGED vars PROVE LockSound'
<1> USE DEF vars, wfVars, cbVars, tqVars, queueVars, threadVars, mainVars,
            resVars, lockVars, jobVars
<1>1. Free # Main /\ Main \notin Workers /\ Free \notin Workers
    BY ExecutorAssumption
<1>2. mpc' \in {"take", "scan", "ret"} => lock' = Main
    BY <1>1 DEF LockSound, MainStep, MainGenerate, MainTake, MainTakeEnd,
        MainTooBig, MainBusy, MainStart, MainScanned, MainPut, MainPutFull,
        MainRetry, MainReacquire, MainNext, MainWait, MainGiveUp, MainLeave,
        MainWakeRaise, MainWakeNext, MainWakeTail, MainDrain, MainJoin, WakeUp
<1>3. UNCHANGED <<wpc, wtask, wold>>
    BY DEF MainStep, MainGenerate, MainTake, MainTakeEnd,
        MainTooBig, MainBusy, MainStart, MainScanned, MainPut, MainPutFull,
        MainRetry, MainReacquire, MainNext, MainWait, MainGiveUp, MainLeave,
        MainWakeRaise, MainWakeNext, MainWakeTail, MainDrain, MainJoin,
        AddCount, AddPut, DrainOne, JoinPut
\* The main thread moves the lock only from itself or from nobody.
<1>4. lock' # lock => lock \in {Free, Main}
    BY <1>1 DEF LockSound, MainStep, MainGenerate, MainTake, MainTakeEnd,
        MainTooBig, MainBusy, MainStart, MainScanned, MainPut, MainPutFull,
        MainRetry, MainReacquire, MainNext, MainWait, MainGiveUp, MainLeave,
        MainWakeRaise, MainWakeNext, MainWakeTail, MainDrain, MainJoin, WakeUp
<1>5. processStatus' # processStatus => lock = Main
    BY DEF LockSound, MainStep, MainGenerate, MainTake, MainTakeEnd,
        MainTooBig, MainBusy, MainStart, MainScanned, MainPut, MainPutFull,
        MainRetry, MainReacquire, MainNext, MainWait, MainGiveUp, MainLeave,
        MainWakeRaise, MainWakeNext, MainWakeTail, MainDrain, MainJoin,
        GenResume
<1>6. \A w \in Workers : wpc[w] = "record" => wtask[w] \in Steps
    BY DEF IInv, PositionsValid
<1> QED BY <1>1, <1>2, <1>3, <1>4, <1>5, <1>6 DEF LockSound

LEMMA WorkerLock ==
    ASSUME IInv, LockSound, NEW w \in Workers, WorkerStep(w) PROVE LockSound'
<1> USE DEF wfVars, cbVars, stepVars, genVars, queueVars, mainVars, resVars,
            lockVars, jobVars
<1>0. /\ wpc \in [Workers -> {"get", "run", "callback", "record", "finish",
                              "finally", "dec", "exit"}]
      /\ wold \in [Workers -> {"success"} \cup Failures]
      /\ wtask \in [Workers -> Jobs \cup {NoTask}]
      /\ \A v \in Workers : wpc[v] \in {"callback", "record", "finish"}
                                => wtask[v] \in Steps
      /\ Free # Main /\ Main \notin Workers /\ Free \notin Workers
    BY ExecutorAssumption DEF IInv, TypeOK, PositionsValid
<1>1. CASE \/ WorkerGet(w) \/ WorkerRunWf(w) \/ WorkerRun(w) \/ WorkerRaise(w)
           \/ WorkerFinally(w) \/ WorkerDec(w)
    <2>1. /\ UNCHANGED <<mpc, lock, processStatus, wold>>
          /\ wpc[w] \notin {"record", "finish"}
          /\ wpc'[w] \notin {"record", "finish"}
          /\ \A v \in Workers \ {w} : wpc'[v] = wpc[v] /\ wtask'[v] = wtask[v]
        BY <1>0, <1>1 DEF WorkerGet, WorkerRunWf, WorkerRun, WorkerRaise,
                          WorkerFinally, WorkerDec, Get, Dec
    <2> QED BY <1>0, <2>1 DEF LockSound
<1>2. CASE WorkerCallback(w)
    <2>1. /\ UNCHANGED <<mpc, processStatus, wtask>>
          /\ IF wtask[w] \in Commands THEN lock = Free /\ lock' = w
                                      ELSE lock' = lock
          /\ wold' = [wold EXCEPT ![w] = processStatus]
          /\ wpc' = [wpc EXCEPT ![w] = "record"]
        BY <1>2 DEF WorkerCallback, StoreOutput
    <2> QED BY <1>0, <2>1 DEF LockSound
<1>3. CASE WorkerRecord(w)
    <2>1. /\ UNCHANGED <<mpc, lock, wold, wtask>> /\ wpc[w] = "record"
          /\ wpc' = [wpc EXCEPT ![w] = "finish"]
        BY <1>3 DEF WorkerRecord
    <2>2. Commands = Steps =>
              \A v \in Workers \ {w} : wpc[v] # "record"
        BY <1>0, <2>1 DEF LockSound
    <2> QED BY <1>0, <2>1, <2>2 DEF LockSound
<1>4. CASE WorkerFinish(w)
    <2>1. /\ UNCHANGED <<mpc, wold, wtask>> /\ wpc[w] = "finish"
          /\ lock' = IF wtask[w] \in Commands THEN Free ELSE lock
          /\ wpc' = [wpc EXCEPT ![w] = "finally"]
        BY <1>4 DEF WorkerFinish
    <2>2. \A v \in Workers \ {w} :
              lock = v => ~(wtask[w] \in Commands)
        BY <1>0, <2>1 DEF LockSound
    <2>3. mpc \in {"take", "scan", "ret"} => ~(wtask[w] \in Commands)
        BY <1>0, <2>1 DEF LockSound
    <2>4. Commands = Steps => \A v \in Workers \ {w} : wpc[v] # "record"
        BY <1>0, <2>1 DEF LockSound
    <2> QED BY <1>0, <2>1, <2>2, <2>3, <2>4 DEF LockSound
<1> QED BY <1>1, <1>2, <1>3, <1>4 DEF WorkerStep

\* At every moment the lock is with whoever runs the generator or the callback
\* of a command, and such a callback writes the status it tested.
THEOREM LockInvariance == Spec => []LockSound
<1>1. Init => LockSound
    BY DEF Init, TqInit, LockSound
<1>2. IInv /\ LockSound /\ [Next]_vars => LockSound'
    BY MainLock, WorkerLock DEF Next, Finished
<1> QED BY <1>1, <1>2, Invariance, PTL DEF Spec

LEMMA ReportWorsens ==
    ASSUME DoOutputCallback \/ UNCHANGED processStatus,
           processStatus = "permanentFail"
    PROVE  processStatus' = "permanentFail"
    BY DEF DoOutputCallback

\* In a workflow of commands a permanent failure stays one, whatever fails
\* temporarily on another thread meanwhile.
THEOREM StatusMonotoneHolds ==
    ASSUME Commands = Steps PROVE Spec => StatusMonotone
<1>1. ASSUME IInv, LockSound, [Next]_vars, processStatus = "permanentFail"
      PROVE  processStatus' = "permanentFail"
    <2> USE <1>1 DEF wfVars, cbVars, stepVars, genVars
    <2>1. CASE MainGenerate
        <3>1. CASE GenMakeRaises
            BY <3>1 DEF GenMakeRaises
        <3>2. CASE GenRun /\ ~GenMakeRaises
            <4>1. DoOutputCallback \/ UNCHANGED processStatus
                BY <3>2 DEF GenRun, GenLoop, GenForEnd, GenNotReady, GenMake,
                            GenSkip, GenYieldJob, GenSum, GenExit
            <4> QED BY <4>1, ReportWorsens
        <3> QED BY <2>1, <3>1, <3>2 DEF MainGenerate
    <2>2. CASE (MainStep /\ ~MainGenerate) \/ UNCHANGED vars
        BY <2>2 DEF vars, MainStep, MainTake, MainTakeEnd,
            MainTooBig, MainBusy, MainStart, MainScanned, MainPut, MainPutFull,
            MainRetry, MainReacquire, MainNext, MainWait, MainGiveUp,
            MainLeave, MainWakeRaise, MainWakeNext, MainWakeTail, MainDrain,
            MainJoin, GenResume
    <2>3. ASSUME NEW w \in Workers, WorkerStep(w)
          PROVE  processStatus' = "permanentFail"
        <3>1. CASE WorkerRecord(w)
            <4>1. wold[w] = "permanentFail"
                BY <3>1 DEF LockSound, WorkerRecord
            <4> QED BY <3>1, <4>1 DEF WorkerRecord, RecordStatus, Overwrites
        <3>2. CASE WorkerFinish(w)
            BY <3>2, ReportWorsens DEF WorkerFinish, ReceiveFinish
        <3>3. CASE ~WorkerRecord(w) /\ ~WorkerFinish(w)
            BY <2>3, <3>3 DEF WorkerStep, WorkerGet, WorkerRunWf, WorkerRun,
                WorkerRaise, WorkerCallback, WorkerFinally, WorkerDec,
                StoreOutput
        <3> QED BY <3>1, <3>2, <3>3
    <2> QED BY <2>1, <2>2, <2>3 DEF Next, Finished
<1>2. IInv /\ LockSound /\ [Next]_vars
          => [processStatus = "permanentFail"
                  => processStatus' = "permanentFail"]_vars
    BY <1>1
<1> QED BY <1>2, Invariance, LockInvariance, PTL DEF Spec, StatusMonotone

-----------------------------------------------------------------------------
(* The refinement: every step of a thread is a step of WorkflowSpec, or none. *)

\* What WorkflowSpec sees of the state.
seen == <<docVars, submitted, completed, state, processStatus, final>>

LEMMA UnseenStutters == ASSUME UNCHANGED seen PROVE UNCHANGED WS!vars
<1>1. \A s \in Steps : PhaseOf(s)' = PhaseOf(s)
    BY DEF seen, PhaseOf
<1> QED BY <1>1 DEF seen, docVars, WS!vars, WS!given

\* Only the step s moves.
LEMMA OneMoves ==
    ASSUME NEW s \in Steps, \A t \in Steps \ {s} : PhaseOf(t)' = PhaseOf(t)
    PROVE  WS!Move(s, PhaseOf(s)')
    BY DEF WS!Move

\* A step that has not been submitted is idle, if its job can be made.
LEMMA PhaseFacts ==
    ASSUME IInv, NEW s \in Steps
    PROVE  /\ state[s] \in Status \cup {"none"}
           /\ sources[s] \subseteq Steps
           /\ s \notin submitted /\ MakeError[s] \notin EarlyErrors
                => PhaseOf(s) = "idle" /\ s \notin completed
           /\ InputsReady(s) => WS!Ready(s)
           /\ Ahead(s) => /\ PhaseOf(s) = "active" /\ state[s] = "none"
                          /\ s \in submitted /\ s \notin completed
                          /\ MakeError[s] = "none"
<1>1. /\ state[s] \in Status \cup {"none"} /\ sources \in [Steps -> SUBSET Steps]
      /\ StepSound(s)
    BY StepsAssumption DEF IInv, TypeOK, WfTypeOK
<1>2. "none" \notin Done /\ "none" \notin Failures
    BY DEF Done, Failures
<1>3. s \notin submitted /\ MakeError[s] \notin EarlyErrors
          => PhaseOf(s) = "idle" /\ s \notin completed
    BY <1>1, <1>2 DEF PhaseOf, StepSound
<1>4. InputsReady(s) => WS!Ready(s)
    BY <1>1 DEF InputsReady, WS!Ready, PhaseOf
<1>5. Ahead(s) => /\ PhaseOf(s) = "active" /\ state[s] = "none"
                  /\ s \in submitted /\ s \notin completed
                  /\ MakeError[s] = "none"
    BY <1>1, <1>2 DEF StepSound, PhaseOf
<1> QED BY <1>1, <1>3, <1>4, <1>5

\* A success was not reported while a step has not completed or not delivered.
LEMMA NotReported ==
    ASSUME IInv, NEW s \in Steps, s \notin completed \/ state[s] \notin Done
    PROVE  \A i \in 1..Len(final) : final[i] # "success"
    BY DEF IInv, StatusSound, NoFalseSuccess

\* The workflow reports.
LEMMA CallbackReports ==
    ASSUME IInv, IInv', DoOutputCallback, UNCHANGED docVars
    PROVE  WS!Reports
<1> DEFINE ps == IF outputsFail THEN "permanentFail" ELSE processStatus
<1>1. /\ processStatus' = ps /\ final' = Append(final, ps)
      /\ final \in Seq({"success"} \cup Failures)
    BY DEF DoOutputCallback, IInv, TypeOK, WfTypeOK
<1>2. final'[Len(final')] = ps /\ Len(final') \in 1..Len(final')
    BY <1>1
<1>3. ps = "success" => \A s \in Steps : state'[s] \in Done
    BY <1>1, <1>2 DEF IInv, StatusSound, NoFalseSuccess
<1>4. ps = "success" => \A s \in Steps : PhaseOf(s)' = "delivered"
    BY <1>3 DEF PhaseOf
<1> QED BY <1>1, <1>4 DEF WS!Reports

-----------------------------------------------------------------------------
(* The generator. *)

LEMMA GenMakeRefines ==
    ASSUME IInv, GenMake, NEW c \in Steps, c = CurrentStep
    PROVE  WS!Start(c)
<1>1. /\ c \notin submitted /\ InputsReady(c) /\ MakeError[c] = "none"
      /\ submitted' = submitted \cup {c}
      /\ UNCHANGED <<docVars, completed, state, processStatus, final>>
    BY DEF GenMake, CanMake, cbVars
<1>2. PhaseOf(c) = "idle" /\ c \notin completed /\ WS!Ready(c)
    BY <1>1, PhaseFacts DEF EarlyErrors
<1>3. PhaseOf(c)' = "active"
    BY <1>1, <1>2 DEF PhaseOf
<1>4. WS!Move(c, "active")
    <2>1. \A t \in Steps \ {c} : PhaseOf(t)' = PhaseOf(t)
        BY <1>1 DEF PhaseOf
    <2> QED BY <1>3, <2>1, OneMoves
<1> QED BY <1>1, <1>2, <1>4 DEF WS!Start, WS!given, docVars

LEMMA GenMakeRaisesRefines ==
    ASSUME IInv, GenMakeRaises, NEW c \in Steps, c = CurrentStep
    PROVE  WS!Fail(c) \/ WS!Degrade
<1>1. /\ c \notin submitted /\ InputsReady(c) /\ MakeError[c] # "none"
      /\ submitted' = submitted \/ submitted' = submitted \cup {c}
      /\ completed' = completed \/ completed' = completed \cup {c}
      /\ processStatus' = "permanentFail"
      /\ UNCHANGED <<docVars, state, final>>
    BY DEF GenMakeRaises, CanMake
<1>2. state[c] = "none" /\ "none" \notin Done /\ "none" \notin Failures
    BY <1>1 DEF IInv, StepSound, Done, Failures
<1>3. WS!Worsen
    <2>1. \A i \in 1..Len(final) : final[i] # "success"
        BY <1>2, NotReported
    <2> QED BY <1>1, <2>1 DEF WS!Worsen, WS!Failures
<1>4. \A t \in Steps \ {c} : PhaseOf(t)' = PhaseOf(t)
    BY <1>1 DEF PhaseOf
<1>5. CASE PhaseOf(c)' = PhaseOf(c)
    BY <1>1, <1>3, <1>4, <1>5 DEF WS!Degrade, WS!given, docVars
<1>6. CASE PhaseOf(c)' # PhaseOf(c)
    <2>1. PhaseOf(c) = "idle" /\ PhaseOf(c)' = "failed"
        BY <1>1, <1>2, <1>6 DEF PhaseOf
    <2>2. WS!Move(c, "failed") /\ WS!Ready(c)
        BY <1>1, <1>4, <2>1, OneMoves, PhaseFacts
    <2> QED BY <1>1, <1>3, <2>1, <2>2 DEF WS!Fail, WS!given, docVars
<1> QED BY <1>5, <1>6

LEMMA GenSkipRefines ==
    ASSUME IInv, IInv', GenSkip, NEW c \in Steps, c = CurrentStep
    PROVE  WS!Skip(c)
<1>1. /\ c \notin submitted /\ InputsReady(c) /\ MakeError[c] \notin EarlyErrors
      /\ submitted' = submitted \cup {c} /\ completed' = completed \cup {c}
      /\ state' = [state EXCEPT ![c] = "skipped"]
      /\ DoOutputCallback \/ UNCHANGED <<processStatus, didCallback, final>>
      /\ UNCHANGED docVars
    BY DEF GenSkip, CanMake
<1>2. PhaseOf(c) = "idle" /\ WS!Ready(c)
    BY <1>1, PhaseFacts
<1>3. state \in [Steps -> Status \cup {"none"}]
    BY DEF IInv, TypeOK, WfTypeOK
<1>4. PhaseOf(c)' = "delivered"
    BY <1>1, <1>3 DEF PhaseOf, Done
<1>5. \A t \in Steps \ {c} : PhaseOf(t)' = PhaseOf(t)
    BY <1>1, <1>3 DEF PhaseOf
<1>6. WS!Move(c, "delivered")
    BY <1>4, <1>5, OneMoves
<1>7. WS!Reports \/ UNCHANGED <<processStatus, final>>
    BY <1>1, CallbackReports
<1> QED BY <1>1, <1>2, <1>6, <1>7 DEF WS!Skip, WS!given, docVars

\* The other steps of the generator.
LEMMA GenQuietRefines ==
    ASSUME IInv, IInv',
           \/ GenLoop \/ GenForEnd \/ GenNotReady \/ GenYieldJob \/ GenSum
           \/ GenExit \/ GenResume
    PROVE  WS!Report \/ UNCHANGED WS!vars
<1> USE DEF stepVars, cbVars
<1>1. CASE GenExit /\ DoOutputCallback
    <2>1. UNCHANGED stepVars
        BY <1>1 DEF GenExit
    <2>2. UNCHANGED [s \in Steps |-> PhaseOf(s)]
        BY <2>1 DEF PhaseOf
    <2> QED BY <1>1, <2>1, <2>2, CallbackReports DEF WS!Report, WS!given, docVars
<1>2. CASE ~(GenExit /\ DoOutputCallback)
    <2>1. UNCHANGED seen
        BY <1>2 DEF GenLoop, GenForEnd, GenNotReady, GenYieldJob, GenSum, GenExit,
                    GenResume, seen
    <2> QED BY <2>1, UnseenStutters
<1> QED BY <1>1, <1>2

LEMMA GenRefines ==
    ASSUME IInv, IInv', GenRun
    PROVE  WS!Next \/ UNCHANGED WS!vars
<1>1. CASE GenMake \/ GenMakeRaises \/ GenSkip
    <2>1. CurrentStep \in Steps
        <3>1. /\ order \in [1..NumSteps -> Steps] /\ gidx \in 1..(NumSteps + 1)
              /\ gidx <= NumSteps
            BY <1>1 DEF IInv, TypeOK, WfTypeOK, GenMake, GenMakeRaises, GenSkip,
                        CanMake
        <3> QED BY <3>1, NumStepsFacts DEF CurrentStep
    <2> QED BY <1>1, <2>1, GenMakeRefines, GenMakeRaisesRefines, GenSkipRefines
            DEF WS!Next
<1>2. CASE ~(GenMake \/ GenMakeRaises \/ GenSkip)
    BY <1>2, GenQuietRefines DEF GenRun, WS!Next
<1> QED BY <1>1, <1>2

-----------------------------------------------------------------------------
(* The threads. *)

LEMMA WorkerCallbackRefines ==
    ASSUME IInv, NEW w \in Workers, WorkerCallback(w),
           NEW x \in Steps, x = wtask[w]
    PROVE  \/ WS!Deliver(x) \/ WS!Fail(x)
           \/ UNCHANGED WS!vars
<1>1. /\ wpc[w] = "callback" /\ x \in Steps
      /\ state' = [state EXCEPT ![x] = Stored(wres[w])]
      /\ UNCHANGED <<docVars, submitted, completed, processStatus, final>>
      /\ state \in [Steps -> Status \cup {"none"}] /\ wres[w] \in Results
    BY DEF WorkerCallback, StoreOutput, IInv, PositionsValid, TypeOK, WfTypeOK,
           cbVars
<1>2. Ahead(x)
    BY <1>1 DEF Ahead, Held, Busying
<1>3. /\ PhaseOf(x) = "active" /\ x \in submitted /\ x \notin completed
      /\ MakeError[x] = "none"
    BY <1>1, <1>2, PhaseFacts
<1>4. \A t \in Steps \ {x} : PhaseOf(t)' = PhaseOf(t)
    BY <1>1 DEF PhaseOf
<1>5. Stored(wres[w]) \in Done \cup Failures \cup {"none"}
    BY <1>1 DEF Stored, Results, Done, Failures
<1>6. state'[x] = Stored(wres[w])
    BY <1>1
<1>7. CASE Stored(wres[w]) \in Done
    <2>1. PhaseOf(x)' = "delivered"
        BY <1>6, <1>7 DEF PhaseOf
    <2>2. WS!Move(x, "delivered")
        BY <1>1, <1>4, <2>1, OneMoves
    <2> QED BY <1>1, <1>3, <2>2 DEF WS!Deliver, WS!given, docVars
<1>8. CASE Stored(wres[w]) \in Failures
    <2>1. PhaseOf(x)' = "failed"
        BY <1>6, <1>8 DEF PhaseOf, Done, Failures
    <2>2. WS!Move(x, "failed")
        BY <1>1, <1>4, <2>1, OneMoves
    <2> QED BY <1>1, <1>3, <2>2 DEF WS!Fail, WS!given, docVars
<1>9. CASE Stored(wres[w]) = "none"
    <2>1. PhaseOf(x)' = PhaseOf(x)
        BY <1>1, <1>3, <1>6, <1>9 DEF PhaseOf, Done, Failures
    <2> QED BY <1>1, <1>4, <2>1 DEF WS!vars, WS!given, docVars
<1> QED BY <1>5, <1>7, <1>8, <1>9

LEMMA WorkerRecordRefines ==
    ASSUME IInv, NEW w \in Workers, WorkerRecord(w),
           NEW x \in Steps, x = wtask[w]
    PROVE  WS!Fail(x) \/ WS!Degrade \/ UNCHANGED WS!vars
<1>1. /\ wpc[w] = "record" /\ x \in Steps /\ completed' = completed \cup {x}
      /\ processStatus' = IF Overwrites(wold[w], Judged(wres[w]))
                          THEN Judged(wres[w]) ELSE processStatus
      /\ UNCHANGED <<docVars, submitted, state, final>>
    BY DEF WorkerRecord, RecordStatus, IInv, PositionsValid
<1>2. w \in Held(x)
    BY <1>1 DEF Held, Busying
<1>3. /\ x \notin completed /\ x \in submitted
    BY <1>1, <1>2 DEF IInv, StepSound
<1>4. WS!Worsen \/ UNCHANGED processStatus
    <2>1. \A i \in 1..Len(final) : final[i] # "success"
        BY <1>1, <1>3, NotReported
    <2> QED BY <1>1, <2>1 DEF WS!Worsen, WS!Failures, Overwrites, Failures
<1>5. \A t \in Steps \ {x} : PhaseOf(t)' = PhaseOf(t)
    BY <1>1 DEF PhaseOf
<1>6. CASE PhaseOf(x)' = PhaseOf(x)
    BY <1>1, <1>4, <1>5, <1>6 DEF WS!Degrade, WS!vars, WS!given, docVars
<1>7. CASE PhaseOf(x)' # PhaseOf(x)
    <2>1. PhaseOf(x) = "active" /\ PhaseOf(x)' = "failed"
        BY <1>1, <1>3, <1>7 DEF PhaseOf
    <2>2. WS!Move(x, "failed")
        BY <1>1, <1>5, <2>1, OneMoves
    <2> QED BY <1>1, <1>4, <2>1, <2>2 DEF WS!Fail, WS!given, docVars
<1> QED BY <1>6, <1>7

LEMMA WorkerRefines ==
    ASSUME IInv, IInv', NEW w \in Workers, WorkerStep(w)
    PROVE  WS!Next \/ UNCHANGED WS!vars
<1> USE DEF wfVars, stepVars, cbVars
<1>1. CASE WorkerCallback(w)
    BY <1>1, WorkerCallbackRefines
       DEF WS!Next, WorkerCallback, IInv, PositionsValid
<1>2. CASE WorkerRecord(w)
    BY <1>2, WorkerRecordRefines DEF WS!Next, WorkerRecord, IInv, PositionsValid
<1>3. CASE WorkerFinish(w)
    <2>1. UNCHANGED stepVars /\ ReceiveFinish
        BY <1>3 DEF WorkerFinish, ReceiveFinish
    <2>2. CASE DoOutputCallback
        <3>1. UNCHANGED [s \in Steps |-> PhaseOf(s)]
            BY <2>1 DEF PhaseOf
        <3> QED BY <2>1, <2>2, <3>1, CallbackReports
                DEF WS!Next, WS!Report, WS!given, docVars
    <2>3. CASE UNCHANGED <<processStatus, didCallback, final>>
        BY <2>1, <2>3, UnseenStutters DEF seen
    <2> QED BY <2>1, <2>2, <2>3 DEF ReceiveFinish
<1>4. CASE \/ WorkerGet(w) \/ WorkerRunWf(w) \/ WorkerRun(w) \/ WorkerRaise(w)
           \/ WorkerFinally(w) \/ WorkerDec(w)
    BY <1>4, UnseenStutters
       DEF seen, WorkerGet, WorkerRunWf, WorkerRun, WorkerRaise, WorkerFinally,
           WorkerDec
<1> QED BY <1>1, <1>2, <1>3, <1>4 DEF WorkerStep

-----------------------------------------------------------------------------
LEMMA MainRefines ==
    ASSUME IInv, IInv', MainStep
    PROVE  WS!Next \/ UNCHANGED WS!vars
<1>1. CASE MainGenerate
    BY <1>1, GenRefines DEF MainGenerate
<1>2. CASE MainNext \/ MainWakeNext
    BY <1>2, GenQuietRefines DEF MainNext, MainWakeNext, WS!Next
<1>3. CASE ~(MainGenerate \/ MainNext \/ MainWakeNext)
    <2>1. UNCHANGED wfVars
        BY <1>3 DEF MainStep, MainTake, MainTakeEnd, MainTooBig, MainBusy,
                    MainStart, MainScanned, MainPut, MainPutFull, MainRetry,
                    MainReacquire, MainWait, MainGiveUp, MainLeave,
                    MainWakeRaise, MainWakeTail, MainDrain, MainJoin
    <2> QED BY <2>1, UnseenStutters DEF wfVars, stepVars, cbVars, seen
<1> QED BY <1>1, <1>2, <1>3

LEMMA StepRefines ==
    IInv /\ IInv' /\ [Next]_vars => [WS!Next]_(WS!vars)
<1> SUFFICES ASSUME IInv, IInv', [Next]_vars
             PROVE  WS!Next \/ UNCHANGED WS!vars
    OBVIOUS
<1>1. CASE UNCHANGED vars
    BY <1>1, UnseenStutters DEF vars, wfVars, stepVars, cbVars, seen
<1> QED BY <1>1, MainRefines, WorkerRefines DEF Next, Finished

LEMMA InitRefines == Init => WS!Init
<1> SUFFICES ASSUME Init PROVE WS!Init
    OBVIOUS
<1>1. \A s \in Steps : PhaseOf(s) = "idle"
    BY DEF Init, WfInit, PhaseOf, Done, Failures
<1> QED BY <1>1 DEF Init, WfInit, WS!Init

\* The threaded executor keeps every promise of WorkflowSpec, for every
\* workflow, however its jobs end and its threads are scheduled.
THEOREM ParallelImplements == Spec => ImplementsWorkflow
<1>1. Init => WS!Init
    BY InitRefines
<1>2. IInv /\ IInv' /\ [Next]_vars => [WS!Next]_(WS!vars)
    BY StepRefines
<1>3. Spec => []IInv
    BY Invariance
<1> QED BY <1>1, <1>2, <1>3, PTL DEF Spec, WS!Spec, ImplementsWorkflow

-----------------------------------------------------------------------------
(***************************************************************************)
(* What a set of commands asks for is a fold, to the provers a recursive   *)
(* function; these lemmas show that it exists and what it computes, by     *)
(* looking at a smallest set of commands for which they would fail.        *)
(***************************************************************************)

LEMMA SmallestSubset ==
    ASSUME NEW F, F \subseteq SUBSET Commands, F # {}
    PROVE  \E C \in F : \A B \in F : ~(B \subseteq C /\ B # C)
<1>1. IsFiniteSet(Commands)
    BY StepsAssumption, ExecutorAssumption, FS_Subset
<1>2. IsWellFoundedOn(StrictSubsetOrdering(Commands), SUBSET Commands)
    BY <1>1, FS_StrictSubsetOrderingWellFounded, FS_FiniteSubsetsOfFinite
<1>3. \E C \in F : \A B \in F : ~(<<B, C>> \in StrictSubsetOrdering(Commands))
    BY <1>2, WFMin
<1>4. \A B, C \in F : B \subseteq C /\ B # C
          => <<B, C>> \in StrictSubsetOrdering(Commands)
    BY DEF StrictSubsetOrdering
<1> QED BY <1>3, <1>4

\* The element a fold takes next, and the equation of the recursive function.
Pick(C) == CHOOSE s \in C : TRUE
Sums(g, r, C) ==
    g = [B \in SUBSET C |-> IF B = {} THEN 0
                            ELSE Request[Pick(B)][r] + g[B \ {Pick(B)}]]

LEMMA PickFacts == ASSUME NEW C, C # {} PROVE Pick(C) \in C
    BY DEF Pick

LEMMA AskedFolds ==
    ASSUME NEW r, NEW C PROVE Asked(r, C) = (CHOOSE g : Sums(g, r, C))[C]
    BY DEF Asked, MapThenSumSet, MapThenFoldSet, Sums, Pick

LEMMA SumsUnique ==
    ASSUME NEW r, NEW C \in SUBSET Commands, NEW g, Sums(g, r, C),
           NEW D \in SUBSET Commands, NEW h, Sums(h, r, D),
           NEW B \in SUBSET (C \cap D)
    PROVE  g[B] = h[B]
<1> DEFINE F == {A \in SUBSET (C \cap D) : g[A] # h[A]}
<1> SUFFICES ASSUME F # {} PROVE FALSE
    OBVIOUS
<1>1. PICK A \in F : \A E \in F : ~(E \subseteq A /\ E # A)
    <2>1. F \subseteq SUBSET Commands
        OBVIOUS
    <2> HIDE DEF F
    <2> QED BY <2>1, SmallestSubset
<1>2. A \in SUBSET C /\ A \in SUBSET D /\ g[A] # h[A]
    OBVIOUS
<1>3. A # {}
    BY <1>2 DEF Sums
<1>4. Pick(A) \in A
    BY <1>3, PickFacts
<1>5. g[A \ {Pick(A)}] = h[A \ {Pick(A)}]
    BY <1>1, <1>4
<1>6. g[A] = Request[Pick(A)][r] + g[A \ {Pick(A)}]
    BY <1>2, <1>3 DEF Sums
<1>7. h[A] = Request[Pick(A)][r] + h[A \ {Pick(A)}]
    BY <1>2, <1>3 DEF Sums
<1> QED BY <1>2, <1>5, <1>6, <1>7

LEMMA SumsExist ==
    ASSUME NEW r \in Resources, NEW C \in SUBSET Commands
    PROVE  \E g \in [SUBSET C -> Int] : Sums(g, r, C)
<1> DEFINE F == {A \in SUBSET Commands :
                     ~ \E g \in [SUBSET A -> Int] : Sums(g, r, A)}
<1> SUFFICES ASSUME F # {} PROVE FALSE
    OBVIOUS
<1>1. PICK A \in F : \A E \in F : ~(E \subseteq A /\ E # A)
    <2>1. F \subseteq SUBSET Commands
        OBVIOUS
    <2> HIDE DEF F
    <2> QED BY <2>1, SmallestSubset
<1>2. A \in SUBSET Commands /\ ~ \E g \in [SUBSET A -> Int] : Sums(g, r, A)
    OBVIOUS
<1> DEFINE of(B) == CHOOSE g : g \in [SUBSET B -> Int] /\ Sums(g, r, B)
<1>3. ASSUME NEW B \in SUBSET A, B # A
      PROVE  of(B) \in [SUBSET B -> Int] /\ Sums(of(B), r, B)
    <2>1. \E g : g \in [SUBSET B -> Int] /\ Sums(g, r, B)
        BY <1>1, <1>2, <1>3
    <2> QED BY <2>1
<1> HIDE DEF of, F
<1> DEFINE h == [B \in SUBSET A |-> IF B = {} THEN 0 ELSE
                     Request[Pick(B)][r] + of(B \ {Pick(B)})[B \ {Pick(B)}]]
<1>4. ASSUME NEW B \in SUBSET A, B # {}
      PROVE  /\ Pick(B) \in B /\ B \ {Pick(B)} \in SUBSET A
             /\ B \ {Pick(B)} # A
             /\ Request[Pick(B)][r] \in Nat
    BY <1>2, <1>4, PickFacts, ExecutorAssumption
<1>5. h \in [SUBSET A -> Int]
    <2>1. ASSUME NEW B \in SUBSET A, B # {}
          PROVE  of(B \ {Pick(B)})[B \ {Pick(B)}] \in Int
        <3> DEFINE D == B \ {Pick(B)}
        <3>1. of(D) \in [SUBSET D -> Int]
            BY <1>3, <1>4, <2>1
        <3> QED BY <3>1
    <2> QED BY <1>4, <2>1
<1>6. ASSUME NEW B \in SUBSET A, B # A PROVE h[B] = of(B)[B]
    <2>1. Sums(of(B), r, B)
        BY <1>3, <1>6
    <2>2. CASE B = {}
        BY <2>1, <2>2 DEF Sums
    <2>3. CASE B # {}
        <3> DEFINE D == B \ {Pick(B)}
        <3>1. Sums(of(D), r, D) /\ D \in SUBSET Commands /\ B \in SUBSET Commands
            BY <1>2, <1>3, <1>4, <2>3
        <3>2. of(B)[D] = of(D)[D]
            BY <2>1, <3>1, SumsUnique
        <3>3. of(B)[B] = Request[Pick(B)][r] + of(B)[D]
            BY <2>1, <2>3 DEF Sums
        <3> QED BY <2>3, <3>2, <3>3
    <2> QED BY <2>2, <2>3
<1>7. Sums(h, r, A)
    <2>1. ASSUME NEW B \in SUBSET A, B # {}
          PROVE  of(B \ {Pick(B)})[B \ {Pick(B)}] = h[B \ {Pick(B)}]
        BY <1>4, <1>6, <2>1
    <2> QED BY <2>1 DEF Sums
<1> QED BY <1>2, <1>5, <1>7

\* The fold takes one element out.
LEMMA AskedPick ==
    ASSUME NEW r \in Resources
    PROVE  /\ Asked(r, {}) = 0
           /\ \A C \in SUBSET Commands :
                /\ Asked(r, C) \in Int
                /\ C # {} => Asked(r, C) = Request[Pick(C)][r] + Asked(r, C \ {Pick(C)})
<1> DEFINE of(C) == CHOOSE g : Sums(g, r, C)
<1>1. ASSUME NEW C \in SUBSET Commands
      PROVE  Asked(r, C) = of(C)[C] /\ Sums(of(C), r, C) /\ Asked(r, C) \in Int
    <2>1. PICK g \in [SUBSET C -> Int] : Sums(g, r, C)
        BY SumsExist
    <2>2. Sums(of(C), r, C)
        BY <2>1
    <2>3. Asked(r, C) = of(C)[C]
        BY AskedFolds
    <2>4. of(C)[C] = g[C]
        BY <2>1, <2>2, SumsUnique
    <2> QED BY <2>1, <2>2, <2>3, <2>4
<1> HIDE DEF of
<1>2. Asked(r, {}) = 0
    BY <1>1 DEF Sums
<1>3. ASSUME NEW C \in SUBSET Commands, C # {}
      PROVE  Asked(r, C) = Request[Pick(C)][r] + Asked(r, C \ {Pick(C)})
    <2> DEFINE D == C \ {Pick(C)}
    <2>1. of(C)[C] = Request[Pick(C)][r] + of(C)[D]
        BY <1>1, <1>3 DEF Sums
    <2>2. of(C)[D] = of(D)[D]
        BY <1>1, SumsUnique
    <2> QED BY <1>1, <2>1, <2>2
<1> QED BY <1>1, <1>2, <1>3

\* The order does not matter.
LEMMA AskedWithout ==
    ASSUME NEW r \in Resources, NEW C \in SUBSET Commands, NEW s \in C
    PROVE  Asked(r, C) = Request[s][r] + Asked(r, C \ {s})
<1> DEFINE F == {A \in SUBSET Commands :
                     \E t \in A : Asked(r, A) # Request[t][r] + Asked(r, A \ {t})}
<1> SUFFICES ASSUME F # {} PROVE FALSE
    OBVIOUS
<1>1. PICK A \in F : \A E \in F : ~(E \subseteq A /\ E # A)
    <2>1. F \subseteq SUBSET Commands
        OBVIOUS
    <2> HIDE DEF F
    <2> QED BY <2>1, SmallestSubset
<1>2. PICK t \in A : Asked(r, A) # Request[t][r] + Asked(r, A \ {t})
    OBVIOUS
<1> DEFINE p == Pick(A)
<1>3. p \in A /\ A \in SUBSET Commands
    BY PickFacts
<1>4. Asked(r, A) = Request[p][r] + Asked(r, A \ {p})
    BY <1>3, AskedPick
<1>5. p # t
    BY <1>2, <1>4
<1>6. A \ {p} \notin F /\ A \ {t} \notin F
    BY <1>1, <1>3
<1>7. Asked(r, A \ {p}) = Request[t][r] + Asked(r, (A \ {p}) \ {t})
    BY <1>3, <1>5, <1>6
<1>8. Asked(r, A \ {t}) = Request[p][r] + Asked(r, (A \ {t}) \ {p})
    BY <1>3, <1>5, <1>6
<1>9. (A \ {p}) \ {t} = (A \ {t}) \ {p}
    OBVIOUS
<1>10. Request[p][r] \in Nat /\ Request[t][r] \in Nat
    BY <1>3, ExecutorAssumption
<1>11. (A \ {p}) \ {t} \in SUBSET Commands /\ A \ {p} \in SUBSET Commands
       /\ A \ {t} \in SUBSET Commands
    BY <1>3
<1>12. Asked(r, (A \ {p}) \ {t}) \in Int
    BY <1>11, AskedPick
<1> HIDE DEF p, F
<1> DEFINE rest == Asked(r, (A \ {p}) \ {t})
<1>13. /\ Asked(r, A) = Request[p][r] + (Request[t][r] + rest)
       /\ Asked(r, A \ {t}) = Request[p][r] + rest
    BY <1>4, <1>7, <1>8, <1>9, Zenon
<1>14. Request[p][r] + (Request[t][r] + rest) = Request[t][r] + (Request[p][r] + rest)
    BY <1>10, <1>12
<1> QED BY <1>2, <1>13, <1>14, Zenon

LEMMA AskedWith ==
    ASSUME NEW r \in Resources, NEW C \in SUBSET Commands,
           NEW s \in Commands, s \notin C
    PROVE  Asked(r, C \cup {s}) = Asked(r, C) + Request[s][r]
<1>1. (C \cup {s}) \ {s} = C
    OBVIOUS
<1>2. Asked(r, C \cup {s}) = Request[s][r] + Asked(r, (C \cup {s}) \ {s})
    BY AskedWithout
<1>3. Asked(r, C) \in Int /\ Request[s][r] \in Nat
    BY AskedPick, ExecutorAssumption
<1>4. Asked(r, C \cup {s}) = Request[s][r] + Asked(r, C)
    BY <1>1, <1>2, Zenon
<1> QED BY <1>3, <1>4

\* More commands ask for more.
LEMMA AskedMonotone ==
    ASSUME NEW r \in Resources, NEW C \in SUBSET Commands, NEW B \in SUBSET C
    PROVE  Asked(r, B) <= Asked(r, C)
<1> DEFINE F == {A \in SUBSET Commands : B \subseteq A /\ ~(Asked(r, B) <= Asked(r, A))}
<1> SUFFICES ASSUME F # {} PROVE FALSE
    OBVIOUS
<1>1. PICK A \in F : \A E \in F : ~(E \subseteq A /\ E # A)
    <2>1. F \subseteq SUBSET Commands
        OBVIOUS
    <2> HIDE DEF F
    <2> QED BY <2>1, SmallestSubset
<1>2. A \in SUBSET Commands /\ B \subseteq A /\ ~(Asked(r, B) <= Asked(r, A))
    OBVIOUS
<1>3. Asked(r, B) \in Int /\ Asked(r, A) \in Int
    BY <1>2, AskedPick
<1>4. PICK s \in A : s \notin B
    BY <1>2, <1>3
<1>5. Asked(r, A) = Request[s][r] + Asked(r, A \ {s})
    BY <1>2, AskedWithout
<1>6. A \ {s} \notin F
    BY <1>1, <1>4
<1>7. Asked(r, B) <= Asked(r, A \ {s})
    BY <1>2, <1>4, <1>6
<1>8. Request[s][r] \in Nat /\ Asked(r, A \ {s}) \in Int
    BY <1>2, AskedPick, ExecutorAssumption
<1> QED BY <1>2, <1>3, <1>5, <1>7, <1>8

-----------------------------------------------------------------------------
(* The resources of the host. *)

Draining == mpc \in {"drain", "join", "done"}

LEMMA ChargedFacts ==
    ASSUME IInv
    PROVE  /\ Charged \in SUBSET Commands
           /\ \A r \in Resources : /\ Asked(r, Charged) \in Int
                                   /\ allocated[r] \in Int /\ MaxOf[r] \in Nat
<1>1. Charged \in SUBSET Commands
    BY DEF Charged
<1>2. threadCount \in Nat
    BY WorkersAssumption, FS_CardinalityType DEF threadCount
<1>3. \A r \in Resources : allocated[r] \in Int /\ MaxOf[r] \in Nat
    BY <1>2, ExecutorAssumption DEF IInv, TypeOK, MaxOf, Resources
<1> QED BY <1>1, <1>3, AskedPick

\* Nothing is charged, nothing given back, and at most a queued job lost.
LEMMA QuietCharges ==
    ASSUME IInv, IInv', ChargesSound, UNCHANGED allocated,
           Charged' = Charged \/ (Draining /\ Charged' \subseteq Charged),
           Draining => Draining'
    PROVE  ChargesSound'
<1>1. ASSUME NEW r \in Resources PROVE Asked(r, Charged') <= Asked(r, Charged)
    <2>1. Charged' \in SUBSET Charged
        OBVIOUS
    <2> QED BY <2>1, ChargedFacts, AskedMonotone
<1>2. \A r \in Resources : /\ Asked(r, Charged) \in Int
                           /\ Asked(r, Charged') \in Int
                           /\ allocated[r] \in Int /\ MaxOf[r] \in Nat
    <2>1. Charged' \in SUBSET Commands
        BY DEF Charged
    <2> QED BY <2>1, ChargedFacts, AskedPick
<1>3. ~Draining' => Charged' = Charged
    OBVIOUS
<1>4. ASSUME NEW r \in Resources
      PROVE  /\ allocated[r] <= MaxOf[r]
             /\ r # "cuda" \/ NoCuda => Asked(r, Charged') <= allocated[r]
             /\ ~Draining' => allocated[r] <= Asked(r, Charged')
    BY <1>1, <1>2, <1>3 DEF ChargesSound, Draining
<1>5. \A r \in Resources : Asked(r, Charged)' = Asked(r, Charged')
    OBVIOUS
<1>6. \A s \in Charged' : ~TooBig(s)
    BY DEF ChargesSound
<1> QED BY <1>4, <1>5, <1>6 DEF ChargesSound, Draining

LEMMA QueuedAfter ==
    ASSUME NEW s \in Steps, tqueue \in Seq(Jobs \cup {NoTask}),
           \/ UNCHANGED tqueue
           \/ tqueue' = Append(tqueue, NoTask)
           \/ tqueue # <<>> /\ tqueue' = Tail(tqueue) /\ Head(tqueue) # s
    PROVE  Queued(s)' = {} <=> Queued(s) = {}
<1>0. s # NoTask
    BY StepsAssumption, ExecutorAssumption DEF Jobs
<1>1. CASE UNCHANGED tqueue
    BY <1>1 DEF Queued
<1>2. CASE tqueue' = Append(tqueue, NoTask)
    BY <1>0, <1>2 DEF Queued
<1>3. CASE tqueue # <<>> /\ tqueue' = Tail(tqueue) /\ Head(tqueue) # s
    <2>1. \A i \in Queued(s)' : i + 1 \in Queued(s)
        BY <1>3 DEF Queued
    <2>2. \A i \in Queued(s) : i - 1 \in Queued(s)'
        <3> SUFFICES ASSUME NEW i \in Queued(s) PROVE i - 1 \in Queued(s)'
            OBVIOUS
        <3>1. i \in 1..Len(tqueue) /\ tqueue[i] = s /\ i # 1
            BY <1>3 DEF Queued
        <3>2. i - 1 \in 1..Len(tqueue') /\ tqueue'[i - 1] = tqueue[i]
            BY <1>3, <3>1
        <3> QED BY <3>1, <3>2 DEF Queued
    <2> QED BY <2>1, <2>2
<1> QED BY <1>1, <1>2, <1>3

LEMMA MainQuietCharges ==
    ASSUME IInv, IInv', ChargesSound,
           \/ MainGenerate \/ MainTake \/ MainTakeEnd \/ MainTooBig \/ MainBusy
           \/ MainPutFull \/ MainRetry \/ MainReacquire \/ MainScanned
           \/ MainNext \/ MainWait \/ MainGiveUp \/ MainWakeRaise
           \/ MainWakeNext \/ MainWakeTail \/ MainLeave \/ UNCHANGED vars
    PROVE  ChargesSound'
<1>1. /\ UNCHANGED <<tqueue, wpc, wtask, allocated>>
      /\ Draining => Draining'
      /\ Adding' <=> Adding
      /\ Adding => UNCHANGED <<pending, n>>
    BY DEF vars, tqVars, queueVars, threadVars, resVars, mainVars, Adding,
        Draining, MainGenerate, MainTake, MainTakeEnd, MainTooBig, MainBusy,
        MainPutFull, MainRetry, MainReacquire, MainScanned, MainNext, MainWait,
        MainGiveUp, MainWakeRaise, MainWakeNext, MainWakeTail, MainLeave, WakeUp
<1>2. \A s \in Commands : Queued(s)' = Queued(s) /\ Held(s)' = Held(s)
    BY <1>1 DEF Queued, Held, Busying
<1>3. Charged' = Charged
    BY <1>1, <1>2 DEF Charged
<1> QED BY <1>1, <1>3, QuietCharges

\* The started job is charged, or it is an ExpressionJob.
LEMMA MainStartCharges ==
    ASSUME IInv, IInv', ChargesSound, MainStart
    PROVE  ChargesSound'
<1> DEFINE s == pending[n]
<1>1. /\ mpc = "scan" /\ mpc' = "put" /\ n \in 1..Len(pending)
      /\ ~TooBig(s) /\ ~Busy(s)
      /\ UNCHANGED <<tqueue, wpc, wtask, pending, n>>
      /\ allocated' = IF s \in Commands THEN Charge(s) ELSE allocated
    BY DEF MainStart, AddCount, threadVars, wfVars, IInv, TypeOK
<1>2. \A t \in Commands : Queued(t)' = Queued(t) /\ Held(t)' = Held(t)
    BY <1>1 DEF Queued, Held, Busying
<1>3. Charged' = IF s \in Commands THEN Charged \cup {s} ELSE Charged
    BY <1>1, <1>2 DEF Charged, Adding
<1>4. CASE s \notin Commands
    BY <1>1, <1>3, <1>4, QuietCharges DEF Draining
<1>5. CASE s \in Commands
    <2>1. s \notin Charged
        <3>1. s \in Steps /\ n \in Waiting(s)
            BY <1>1, <1>5, ExecutorAssumption DEF Waiting
        <3>2. Queued(s) = {} /\ Held(s) = {}
            BY <3>1 DEF IInv, StepSound, OnePlace
        <3> QED BY <1>1, <3>2 DEF Charged, Adding
    <2>2. ASSUME NEW r \in Resources
          PROVE  /\ Asked(r, Charged') = Asked(r, Charged) + Request[s][r]
                 /\ Request[s][r] \in Nat
                 /\ Asked(r, Charged) \in Int /\ allocated[r] \in Int
                 /\ MaxOf[r] \in Nat
                 /\ allocated[r] + Request[s][r] <= MaxOf[r]
                 /\ allocated'[r] = IF r = "cuda" THEN allocated[r] + 0
                                    ELSE allocated[r] + Request[s][r]
        <3>1. Asked(r, Charged \cup {s}) = Asked(r, Charged) + Request[s][r]
            BY <1>5, <2>1, ChargedFacts, AskedWith
        <3>2. Request[s][r] \in Nat
            BY <1>5, ExecutorAssumption
        <3>3. Asked(r, Charged) \in Int /\ allocated[r] \in Int /\ MaxOf[r] \in Nat
            BY ChargedFacts
        <3>4. allocated[r] + Request[s][r] <= MaxOf[r]
            BY <1>1, <1>5, <3>2, <3>3 DEF Busy
        <3>5. allocated'[r] = IF r = "cuda" THEN allocated[r] + 0
                              ELSE allocated[r] + Request[s][r]
            BY <1>1, <1>5 DEF Charge, Resources
        <3> QED BY <1>3, <1>5, <3>1, <3>2, <3>3, <3>4, <3>5
    <2>3. NoCuda => Request[s]["cuda"] = 0
        BY <1>5 DEF NoCuda
    <2> HIDE DEF s
    <2>4. ASSUME NEW r \in Resources
          PROVE  /\ allocated'[r] <= MaxOf[r]
                 /\ r # "cuda" \/ NoCuda => Asked(r, Charged') <= allocated'[r]
                 /\ allocated'[r] <= Asked(r, Charged')
        BY <1>1, <2>2, <2>3 DEF ChargesSound
    <2>5. \A r \in Resources : Asked(r, Charged)' = Asked(r, Charged')
        OBVIOUS
    <2>6. \A t \in Charged' : ~TooBig(t)
        BY <1>1, <1>3 DEF ChargesSound
    <2> QED BY <2>4, <2>5, <2>6 DEF ChargesSound
<1> QED BY <1>4, <1>5

LEMMA MainQueueCharges ==
    ASSUME IInv, IInv', ChargesSound, MainPut \/ MainDrain \/ MainJoin
    PROVE  ChargesSound'
<1>0. tqueue \in Seq(Jobs \cup {NoTask}) /\ pending \in Seq(Jobs)
    BY DEF IInv, TypeOK
<1>1. CASE MainPut
    <2>1. /\ UNCHANGED <<wpc, wtask, pending, n, allocated>>
          /\ tqueue' = Append(tqueue, pending[n])
          /\ mpc = "put" /\ mpc' = "reacquire" /\ n \in 1..Len(pending)
        BY <1>1 DEF MainPut, AddPut, threadVars, resVars, IInv, TypeOK,
                    PositionsValid, Adding
    <2>2. \A s \in Commands : Held(s)' = Held(s)
        BY <2>1 DEF Held, Busying
    <2>3. \A s \in Commands : Queued(s)' # {} <=> Queued(s) # {} \/ pending[n] = s
        <3> SUFFICES ASSUME NEW s \in Commands
                     PROVE  Queued(s)' # {} <=> Queued(s) # {} \/ pending[n] = s
            OBVIOUS
        <3>1. Queued(s) \subseteq Queued(s)'
            BY <1>0, <2>1 DEF Queued
        <3>2. pending[n] = s => Len(tqueue) + 1 \in Queued(s)'
            BY <1>0, <2>1 DEF Queued
        <3>3. Queued(s)' \subseteq Queued(s) \cup
                  (IF pending[n] = s THEN {Len(tqueue) + 1} ELSE {})
            BY <1>0, <2>1 DEF Queued
        <3> QED BY <3>1, <3>2, <3>3
    <2>4. Charged' = Charged
        BY <2>1, <2>2, <2>3 DEF Charged, Adding
    <2> QED BY <2>1, <2>4, QuietCharges DEF Draining
<1>2. CASE MainDrain \/ MainJoin
    <2>1. /\ UNCHANGED <<wpc, wtask, pending, n, allocated>>
          /\ Draining /\ Draining' /\ ~Adding /\ ~Adding'
          /\ \/ UNCHANGED tqueue
             \/ tqueue' = Append(tqueue, NoTask)
             \/ tqueue # <<>> /\ tqueue' = Tail(tqueue)
        BY <1>2 DEF MainDrain, MainJoin, DrainOne, JoinPut, threadVars, tqVars,
                    queueVars, resVars, Draining, Adding
    <2>2. \A s \in Commands : Held(s)' = Held(s)
        BY <2>1 DEF Held, Busying
    <2>3. ASSUME NEW s \in Commands, Queued(s)' # {} PROVE Queued(s) # {}
        <3>1. s \in Steps
            BY ExecutorAssumption
        <3>2. CASE tqueue # <<>> /\ tqueue' = Tail(tqueue)
            <4>1. \A i \in Queued(s)' : i + 1 \in Queued(s)
                BY <1>0, <3>2 DEF Queued
            <4> QED BY <2>3, <4>1
        <3>3. CASE UNCHANGED tqueue \/ tqueue' = Append(tqueue, NoTask)
            BY <1>0, <2>3, <3>1, <3>3, QueuedAfter
        <3> QED BY <2>1, <3>2, <3>3
    <2>4. Charged' \subseteq Charged
        BY <2>1, <2>2, <2>3 DEF Charged
    <2> QED BY <2>1, <2>4, QuietCharges
<1> QED BY <1>1, <1>2

\* The threads: a job stays charged from the queue to the finally clause.
LEMMA WorkerQuietCharges ==
    ASSUME IInv, IInv', ChargesSound, NEW w \in Workers,
           \/ WorkerGet(w) \/ WorkerRunWf(w) \/ WorkerRun(w) \/ WorkerRaise(w)
           \/ WorkerCallback(w) \/ WorkerRecord(w) \/ WorkerFinish(w)
           \/ WorkerDec(w)
    PROVE  ChargesSound'
<1>0. /\ tqueue \in Seq(Jobs \cup {NoTask})
      /\ wpc \in [Workers -> {"get", "run", "callback", "record", "finish",
                              "finally", "dec", "exit"}]
      /\ wtask \in [Workers -> Jobs \cup {NoTask}]
    BY DEF IInv, TypeOK
<1>1. UNCHANGED <<mpc, n, pending, allocated>> /\ (Adding' <=> Adding)
    BY DEF WorkerGet, WorkerRunWf, WorkerRun, WorkerRaise, WorkerCallback,
        WorkerRecord, WorkerFinish, WorkerDec, mainVars, resVars, Adding
<1>2. CASE WorkerGet(w)
    <2>1. /\ wpc[w] = "get" /\ tqueue # <<>> /\ tqueue' = Tail(tqueue)
          /\ IF Head(tqueue) = NoTask
             THEN wpc' = [wpc EXCEPT ![w] = "exit"] /\ UNCHANGED wtask
             ELSE /\ wpc' = [wpc EXCEPT ![w] = "run"]
                  /\ wtask' = [wtask EXCEPT ![w] = Head(tqueue)]
        BY <1>2 DEF WorkerGet, Get
    <2>2. ASSUME NEW s \in Commands PROVE s \in Charged' <=> s \in Charged
        <3>0. s \in Steps /\ s # NoTask
            BY StepsAssumption, ExecutorAssumption DEF Jobs
        <3>1. CASE Head(tqueue) = s
            <4>1. 1 \in Queued(s)
                BY <1>0, <2>1, <3>1 DEF Queued
            <4>2. w \in Held(s)' /\ wpc'[w] = "run"
                BY <1>0, <2>1, <3>0, <3>1 DEF Held, Busying
            <4> QED BY <4>1, <4>2 DEF Charged
        <3>2. CASE Head(tqueue) # s
            <4>1. Queued(s)' = {} <=> Queued(s) = {}
                BY <1>0, <2>1, <3>0, <3>2, QueuedAfter
            <4>2. Held(s)' = Held(s) /\ \A v \in Held(s) : wpc'[v] = wpc[v]
                BY <1>0, <2>1, <3>2 DEF Held, Busying
            <4> QED BY <1>1, <4>1, <4>2 DEF Charged
        <3> QED BY <3>1, <3>2
    <2>3. Charged' = Charged
        BY <2>2 DEF Charged
    <2> QED BY <1>1, <2>3, QuietCharges DEF Draining
<1>3. CASE ~WorkerGet(w)
    <2>1. /\ UNCHANGED tqueue
          /\ \/ /\ UNCHANGED wtask
                /\ wpc[w] \notin {"get", "dec", "exit"}
                /\ \E p \in {"callback", "record", "finish", "finally"} :
                       wpc' = [wpc EXCEPT ![w] = p]
             \/ /\ wpc[w] = "dec" /\ wpc' = [wpc EXCEPT ![w] = "get"]
                /\ wtask' = [wtask EXCEPT ![w] = NoTask]
        BY <1>3 DEF WorkerRunWf, WorkerRun, WorkerRaise, WorkerCallback,
            WorkerRecord, WorkerFinish, WorkerDec, Dec, queueVars
    <2>2. \A s \in Commands : Queued(s)' = Queued(s)
        BY <2>1 DEF Queued
    <2>3. ASSUME NEW s \in Commands
          PROVE  (\E v \in Held(s)' : wpc'[v] # "dec")
                     <=> (\E v \in Held(s) : wpc[v] # "dec")
        <3>1. \A v \in Workers :
                  (v \in Held(s)' /\ wpc'[v] # "dec")
                      <=> (v \in Held(s) /\ wpc[v] # "dec")
            BY <1>0, <2>1 DEF Held, Busying
        <3>2. Held(s) \subseteq Workers /\ Held(s)' \subseteq Workers
            BY DEF Held, Busying
        <3> QED BY <3>1, <3>2
    <2>4. Charged' = Charged
        BY <1>1, <2>2, <2>3 DEF Charged
    <2> QED BY <1>1, <2>4, QuietCharges DEF Draining
<1> QED BY <1>2, <1>3

LEMMA WorkerFinallyCharges ==
    ASSUME IInv, IInv', ChargesSound, NEW w \in Workers, WorkerFinally(w)
    PROVE  ChargesSound'
<1> DEFINE s == wtask[w]
<1>0. /\ wpc \in [Workers -> {"get", "run", "callback", "record", "finish",
                              "finally", "dec", "exit"}]
      /\ wpc[w] = "finally" /\ wpc' = [wpc EXCEPT ![w] = "dec"]
      /\ UNCHANGED <<tqueue, wtask, mpc, n, pending>>
      /\ allocated' = IF s \in Commands THEN Refund(s) ELSE allocated
    BY DEF WorkerFinally, queueVars, mainVars, IInv, TypeOK
<1>1. \A t \in Commands : Queued(t)' = Queued(t) /\ Held(t)' = Held(t)
    BY <1>0 DEF Queued, Held, Busying
<1>2. \A t \in Commands : t # s => (t \in Charged' <=> t \in Charged)
    BY <1>0, <1>1 DEF Charged, Held, Busying, Adding
<1>3. CASE s \notin Commands
    <2>1. Charged' = Charged
        BY <1>2, <1>3 DEF Charged
    <2> QED BY <1>0, <1>3, <2>1, QuietCharges DEF Draining
<1>4. CASE s \in Commands
    <2>1. s \in Charged /\ s \notin Charged'
        <3>1. w \in Held(s) /\ s \in Steps
            BY <1>0, <1>4, ExecutorAssumption DEF Held, Busying
        <3>2. /\ \A v \in Held(s) : v = w
              /\ Queued(s) = {} /\ Waiting(s) = {}
            BY <3>1 DEF IInv, StepSound, OnePlace
        <3>3. Adding => pending[n] # s
            <4>1. Adding => n \in 1..Len(pending) /\ mpc # "reacquire"
                BY DEF IInv, TypeOK, PositionsValid, Adding
            <4> QED BY <3>2, <4>1 DEF Waiting
        <3>4. s \in Charged
            BY <1>0, <1>4, <3>1 DEF Charged
        <3>5. wpc'[w] = "dec"
            BY <1>0
        <3>6. s \notin Charged'
            BY <1>0, <1>1, <1>4, <3>2, <3>3, <3>5 DEF Charged, Adding
        <3> QED BY <3>4, <3>6
    <2>2. Charged' = Charged \ {s}
        BY <1>2, <2>1 DEF Charged
    <2>3. ASSUME NEW r \in Resources
          PROVE  /\ Asked(r, Charged) = Request[s][r] + Asked(r, Charged')
                 /\ Request[s][r] \in Nat
                 /\ Asked(r, Charged') \in Int /\ allocated[r] \in Int
                 /\ MaxOf[r] \in Nat
                 /\ allocated'[r] = allocated[r] - Request[s][r]
        <3>1. Asked(r, Charged) = Request[s][r] + Asked(r, Charged \ {s})
            BY <2>1, ChargedFacts, AskedWithout
        <3>2. Asked(r, Charged \ {s}) \in Int
            BY ChargedFacts, AskedPick
        <3>3. allocated'[r] = allocated[r] - Request[s][r]
            BY <1>0, <1>4 DEF Refund
        <3> QED BY <1>4, <2>2, <3>1, <3>2, <3>3, ChargedFacts, ExecutorAssumption
    <2> HIDE DEF s
    <2>4. ASSUME NEW r \in Resources
          PROVE  /\ allocated'[r] <= MaxOf[r]
                 /\ r # "cuda" \/ NoCuda => Asked(r, Charged') <= allocated'[r]
                 /\ ~Draining => allocated'[r] <= Asked(r, Charged')
        BY <2>3 DEF ChargesSound, Draining
    <2>5. \A r \in Resources : Asked(r, Charged)' = Asked(r, Charged')
        OBVIOUS
    <2>6. \A t \in Charged' : ~TooBig(t)
        BY <2>2 DEF ChargesSound
    <2> QED BY <1>0, <2>4, <2>5, <2>6 DEF ChargesSound, Draining
<1> QED BY <1>3, <1>4

\* What is allocated stays within the host and covers what the charged
\* commands ask for: a job is charged before it is queued and until its
\* thread gives the resources back.
THEOREM ChargesInvariance == Spec => []ChargesSound
<1>1. Init => ChargesSound
    <2> SUFFICES ASSUME Init PROVE ChargesSound
        OBVIOUS
    <2>1. Charged = {}
        <3>1. \A s \in Commands : Queued(s) = {} /\ Held(s) = {}
            BY DEF Init, TqInit, Queued, Held, Busying
        <3> QED BY <3>1 DEF Init, Charged, Adding
    <2>2. \A r \in Resources : allocated[r] = 0 /\ MaxOf[r] \in Nat
        <3>1. threadCount \in Nat
            BY WorkersAssumption, FS_CardinalityType DEF threadCount
        <3> QED BY <3>1, ExecutorAssumption DEF Init, MaxOf, Resources
    <2> QED BY <2>1, <2>2, AskedPick DEF ChargesSound
<1>2. IInv /\ IInv' /\ ChargesSound /\ [Next]_vars => ChargesSound'
    BY MainQuietCharges, MainStartCharges, MainQueueCharges,
       WorkerQuietCharges, WorkerFinallyCharges
       DEF Next, MainStep, WorkerStep, Finished
<1> QED BY <1>1, <1>2, Invariance, PTL DEF Spec

\* The commands that run together never ask for more ram or cores than the
\* host has, whenever threads give back and the main thread hands out.
THEOREM NoOvercommitHolds == ASSUME NoCuda PROVE Spec => []NoOvercommit
<1>1. ASSUME IInv, ChargesSound PROVE NoOvercommit
    <2> DEFINE running == {s \in Commands : \E w \in Workers : wtask[w] = s
                    /\ wpc[w] \in {"run", "callback", "record", "finish"}}
    <2>1. running \in SUBSET Charged
        BY DEF Charged, Held, Busying
    <2>2. ASSUME NEW r \in Resources PROVE Asked(r, running) <= MaxOf[r]
        <3> HIDE DEF running
        <3>1. Asked(r, running) <= Asked(r, Charged)
            BY <1>1, <2>1, ChargedFacts, AskedMonotone
        <3>2. Asked(r, Charged) <= allocated[r] /\ allocated[r] <= MaxOf[r]
            BY <1>1, NoCuda DEF ChargesSound
        <3>3. Asked(r, running) \in Int
            <4>1. running \in SUBSET Commands
                BY <1>1, <2>1, ChargedFacts
            <4> QED BY <4>1, AskedPick
        <3> QED BY <1>1, <3>1, <3>2, <3>3, ChargedFacts
    <2> QED BY <2>2 DEF NoOvercommit
<1> QED BY <1>1, Invariance, ChargesInvariance, PTL

-----------------------------------------------------------------------------
(* How run_jobs ends, and what is reported then. *)

\* The workflow's status never becomes a success again.
LEMMA SuccessBefore ==
    ASSUME [Next]_vars, processStatus' = "success" PROVE processStatus = "success"
<1> USE DEF wfVars, cbVars, stepVars, genVars, DoOutputCallback
<1>1. CASE MainGenerate
    BY <1>1 DEF MainGenerate, GenRun, GenLoop, GenForEnd, GenNotReady, GenMake,
        GenMakeRaises, GenSkip, GenYieldJob, GenSum, GenExit
<1>2. CASE (MainStep /\ ~MainGenerate) \/ UNCHANGED vars
    BY <1>2 DEF vars, MainStep, MainTake, MainTakeEnd,
        MainTooBig, MainBusy, MainStart, MainScanned, MainPut, MainPutFull,
        MainRetry, MainReacquire, MainNext, MainWait, MainGiveUp,
        MainLeave, MainWakeRaise, MainWakeNext, MainWakeTail, MainDrain,
        MainJoin, GenResume
<1>3. ASSUME NEW w \in Workers, WorkerStep(w) PROVE processStatus = "success"
    BY <1>3 DEF WorkerStep, WorkerGet, WorkerRunWf, WorkerRun, WorkerRaise,
        WorkerCallback, WorkerRecord, WorkerFinish, WorkerFinally, WorkerDec,
        StoreOutput, RecordStatus, Overwrites, Failures, ReceiveFinish
<1> QED BY <1>1, <1>2, <1>3 DEF Next, Finished

\* What the generator does to the flags while the workflow is a success.
LEMMA GenFlags ==
    ASSUME IInv, GenRun, processStatus' = "success"
    PROVE  /\ processStatus = "success"
           /\ \/ UNCHANGED <<submitted, completed, state>>
              \/ GenMake
              \/ GenSkip
           /\ UNCHANGED <<order, sources>>
           /\ gpc # "end" /\ (gpc' = "end" => GenExit /\ completed = Steps)
<1> USE DEF docVars, stepVars, cbVars, genVars, DoOutputCallback
<1>1. ~GenMakeRaises
    BY DEF GenMakeRaises
<1>2. gpc = "exit" /\ processStatus = "success" => completed = Steps
    BY DEF IInv, StatusSound
<1> QED BY <1>1, <1>2 DEF GenRun, GenLoop, GenForEnd, GenNotReady, GenMake,
                          GenSkip, GenYieldJob, GenSum, GenExit, CanMake

LEMMA EndStep == IInv /\ EndSound /\ [Next]_vars => EndSound'
<1> SUFFICES ASSUME IInv, EndSound, [Next]_vars PROVE EndSound'
    OBVIOUS
<1> DEFINE Flags == /\ completed' \subseteq submitted'
                    /\ gpc' = "end" => completed' = Steps
<1>0. processStatus' = "success" => processStatus = "success"
    BY SuccessBefore
<1> USE DEF wfVars, docVars, stepVars, cbVars, genVars, mainVars, jobVars,
            lockVars, resVars
<1>1. CASE MainGenerate
    <2>1. UNCHANGED <<mpc, tail, gaveUp, raised, exceptions>> /\ GenRun
        BY <1>1 DEF MainGenerate
    <2>2. gpc # "end"
        BY <2>1 DEF GenRun, GenLoop, GenForEnd, GenNotReady, GenMake, CanMake,
            GenMakeRaises, GenSkip, GenYieldJob, GenSum, GenExit
    <2>3. processStatus' = "success" => Flags
        <3> SUFFICES ASSUME processStatus' = "success" PROVE Flags
            OBVIOUS
        <3>1. /\ completed \subseteq submitted
              /\ UNCHANGED <<submitted, completed, state>> \/ GenMake \/ GenSkip
              /\ gpc' = "end" => GenExit /\ completed = Steps
            BY <1>0, <2>1, GenFlags DEF EndSound
        <3>2. gpc' = "end" => UNCHANGED completed
            BY <3>1 DEF GenExit
        <3> QED BY <3>1, <3>2 DEF GenMake, GenSkip
    <2> QED BY <2>1, <2>2, <2>3 DEF EndSound
<1>2. CASE (MainStep /\ ~MainGenerate) \/ UNCHANGED vars
    <2>1. /\ UNCHANGED <<submitted, completed, processStatus, exceptions>>
          /\ gpc' # gpc => gpc = "yield" /\ gpc' # "end"
        BY <1>2 DEF vars, MainStep, MainTake, MainTakeEnd,
            MainTooBig, MainBusy, MainStart, MainScanned, MainPut, MainPutFull,
            MainRetry, MainReacquire, MainNext, MainWait, MainGiveUp,
            MainLeave, MainWakeRaise, MainWakeNext, MainWakeTail, MainDrain,
            MainJoin, GenResume
    <2>2. /\ tail' => tail \/ gaveUp' \/ gpc = "end"
          /\ gaveUp => gaveUp'
          /\ raised' => raised \/ exceptions
          /\ raised => raised'
          /\ mpc' \in {"drain", "join", "done"} =>
                 mpc \in {"drain", "join", "done"} \/ tail \/ raised'
        BY <1>2 DEF vars, MainStep, MainTake, MainTakeEnd,
            MainTooBig, MainBusy, MainStart, MainScanned, MainPut, MainPutFull,
            MainRetry, MainReacquire, MainNext, MainWait, MainGiveUp,
            MainLeave, MainWakeRaise, MainWakeNext, MainWakeTail, MainDrain,
            MainJoin
    <2>3. tail => tail'
        BY <1>2 DEF vars, MainStep, MainTake, MainTakeEnd,
            MainTooBig, MainBusy, MainStart, MainScanned, MainPut, MainPutFull,
            MainRetry, MainReacquire, MainNext, MainWait, MainGiveUp,
            MainLeave, MainWakeRaise, MainWakeNext, MainWakeTail, MainDrain,
            MainJoin
    <2> QED BY <2>1, <2>2, <2>3 DEF EndSound
<1>3. ASSUME NEW w \in Workers, WorkerStep(w) PROVE EndSound'
    <2>1. /\ UNCHANGED <<submitted, gpc, tail, gaveUp, mpc, raised>>
          /\ exceptions => exceptions'
          /\ UNCHANGED completed \/ WorkerRecord(w)
        BY <1>3 DEF WorkerStep, WorkerGet, WorkerRunWf, WorkerRun, WorkerRaise,
            WorkerCallback, WorkerRecord, WorkerFinish, WorkerFinally, WorkerDec,
            StoreOutput, RecordStatus, ReceiveFinish
    <2>2. CASE WorkerRecord(w)
        <3>1. completed' = completed \cup {wtask[w]} /\ w \in Held(wtask[w])
              /\ wtask[w] \in Steps
            BY <2>2 DEF WorkerRecord, RecordStatus, Held, Busying, IInv,
                        PositionsValid
        <3>2. wtask[w] \in submitted
            BY <3>1 DEF IInv, StepSound
        <3> QED BY <1>0, <2>1, <3>1, <3>2 DEF EndSound
    <2> QED BY <1>0, <2>1, <2>2 DEF EndSound
<1> QED BY <1>1, <1>2, <1>3 DEF Next, Finished

THEOREM EndInvariance == Spec => []EndSound
<1>1. Init => EndSound
    BY DEF Init, WfInit, EndSound
<1> QED BY <1>1, EndStep, Invariance, PTL DEF Spec

\* A report is one more entry.
LEMMA CallbackFacts ==
    ASSUME IInv, DoOutputCallback, processStatus' = "success"
    PROVE  /\ didCallback' /\ final' # <<>>
           /\ final = <<>> => final' = <<"success">>
<1>1. final \in Seq({"success"} \cup Failures)
    BY DEF IInv, TypeOK, WfTypeOK
<1>2. final' = Append(final, "success") /\ didCallback'
    BY DEF DoOutputCallback
<1>3. Len(final') = Len(final) + 1 /\ Len(final) \in Nat
    BY <1>1, <1>2
<1>4. final = <<>> => final' = <<"success">>
    BY <1>2
<1> QED BY <1>2, <1>3, <1>4

LEMMA CallbackReported ==
    ASSUME IInv, DoOutputCallback PROVE didCallback' /\ final' # <<>>
<1>1. final \in Seq({"success"} \cup Failures)
    BY DEF IInv, TypeOK, WfTypeOK
<1>2. PICK st : final' = Append(final, st)
    BY DEF DoOutputCallback
<1>3. Len(final') = Len(final) + 1 /\ Len(final) \in Nat
    BY <1>1, <1>2
<1>4. didCallback'
    BY DEF DoOutputCallback
<1> QED BY <1>3, <1>4

\* A success was reported after every step had completed.
LEMMA ReportedComplete ==
    ASSUME IInv, final = <<"success">> PROVE completed = Steps
<1>1. Len(final) = 1 /\ final[1] = "success"
    OBVIOUS
<1>2. \A s \in Steps : s \in completed
    BY <1>1 DEF IInv, StatusSound, NoFalseSuccess
<1> QED BY <1>2 DEF IInv, TypeOK, WfTypeOK

\* With the lock, nobody is in a callback while the generator runs, or while
\* another callback does.
LEMMA CallbackAlone ==
    ASSUME IInv, LockSound, Commands = Steps,
           NEW w \in Workers, wpc[w] \in {"record", "finish"}
    PROVE  lock = w
    BY DEF IInv, PositionsValid, LockSound

LEMMA GenReports ==
    ASSUME IInv, LockSound, EndSound, ReportsSound, MainGenerate
    PROVE  ReportsSound'
<1>1. /\ GenRun /\ UNCHANGED <<wpc, mpc>> /\ mpc = "take"
    BY DEF MainGenerate, tqVars, threadVars, mainVars
<1>2. Commands = Steps => \A w \in Workers : wpc[w] \notin {"record", "finish"}
    <2>1. lock = Main /\ Main \notin Workers
        BY <1>1, ExecutorAssumption DEF LockSound
    <2> QED BY <2>1, CallbackAlone
<1>3. \/ DoOutputCallback /\ (GenSkip \/ GenExit)
      \/ UNCHANGED <<didCallback, final>>
    BY <1>1 DEF GenRun, GenLoop, GenForEnd, GenNotReady, GenMake, GenMakeRaises,
        GenSkip, GenYieldJob, GenSum, GenExit, cbVars
<1>4. gpc' = "end" \/ didCallback' => final' # <<>>
    <2>1. gpc' = "end" => DoOutputCallback \/ (didCallback /\ UNCHANGED final)
        BY <1>1, GenFlags DEF GenRun, GenLoop, GenForEnd, GenNotReady, GenMake,
            GenMakeRaises, GenSkip, GenYieldJob, GenSum, GenExit, CanMake
    <2> QED BY <1>3, <2>1, CallbackReported DEF ReportsSound
<1>5. ASSUME processStatus' = "success"
      PROVE  /\ completed' = Steps /\ (\A w \in Workers : wpc'[w] # "finish")
                    => final' # <<>>
             /\ Commands = Steps /\ final' # <<>> =>
                 /\ final' = <<"success">> /\ didCallback'
                 /\ \A w \in Workers : wpc'[w] \notin {"record", "finish"}
    <2>1. /\ processStatus = "success" /\ gpc # "end"
          /\ UNCHANGED completed \/ GenSkip
        BY <1>1, <1>5, GenFlags DEF GenMake
    <2>2. CASE DoOutputCallback /\ (GenSkip \/ GenExit)
        <3>1. Commands = Steps => final = <<>>
            <4> SUFFICES ASSUME Commands = Steps, final # <<>> PROVE FALSE
                OBVIOUS
            <4>1. final = <<"success">> /\ didCallback /\ completed = Steps
                BY <2>1, ReportedComplete DEF ReportsSound
            <4>2. CASE GenSkip
                <5>1. CurrentStep \notin submitted /\ CurrentStep \in Steps
                    BY <4>2, NumStepsFacts
                       DEF GenSkip, CanMake, CurrentStep, IInv, TypeOK, WfTypeOK
                <5> QED BY <2>1, <4>1, <5>1 DEF EndSound
            <4>3. CASE GenExit
                <5>1. UNCHANGED final
                    BY <4>1, <4>3 DEF GenExit
                <5>2. final' = Append(final, "success")
                    BY <1>5, <2>2 DEF DoOutputCallback
                <5> QED BY <4>1, <5>1, <5>2
            <4> QED BY <2>2, <4>2, <4>3
        <3> QED BY <1>1, <1>2, <1>5, <2>2, <3>1, CallbackFacts
    <2>3. CASE UNCHANGED <<didCallback, final>>
        <3>1. ASSUME completed' = Steps, final = <<>> PROVE UNCHANGED completed
            <4> SUFFICES ASSUME GenSkip PROVE FALSE
                BY <2>1
            <4>1. Cardinality(completed') = NumSteps
                BY <3>1 DEF NumSteps
            <4>2. DoOutputCallback
                BY <4>1 DEF GenSkip
            <4> QED BY <2>3, <3>1, <4>2, CallbackReported
        <3> QED BY <1>1, <1>2, <2>1, <2>3, <3>1 DEF ReportsSound
    <2> QED BY <1>3, <2>2, <2>3
<1> QED BY <1>4, <1>5 DEF ReportsSound

LEMMA WorkerReports ==
    ASSUME IInv, LockSound, EndSound, ReportsSound, NEW w \in Workers,
           WorkerStep(w), processStatus' = "success" => processStatus = "success"
    PROVE  ReportsSound'
<1> USE DEF wfVars, stepVars, cbVars, genVars
<1>0. wpc \in [Workers -> {"get", "run", "callback", "record", "finish",
                           "finally", "dec", "exit"}]
    BY DEF IInv, TypeOK
<1>1. CASE WorkerCallback(w)
    <2>1. /\ UNCHANGED <<completed, cbVars, genVars>>
          /\ wpc' = [wpc EXCEPT ![w] = "record"]
          /\ w \in Held(wtask[w]) /\ wpc[w] = "callback"
        BY <1>1 DEF WorkerCallback, StoreOutput, Held, Busying
    <2>2. ASSUME processStatus = "success", Commands = Steps, final # <<>>
          PROVE  FALSE
        <3>1. completed = Steps
            BY <2>2, ReportedComplete DEF ReportsSound
        <3>2. wtask[w] \in Steps /\ Ahead(wtask[w])
            BY <2>1 DEF IInv, PositionsValid, Ahead
        <3> QED BY <3>1, <3>2 DEF IInv, StepSound
    <2> QED BY <1>0, <2>1, <2>2 DEF ReportsSound
<1>2. CASE WorkerRecord(w)
    <2>1. /\ UNCHANGED <<didCallback, final, gpc>>
          /\ wpc[w] = "record" /\ wpc' = [wpc EXCEPT ![w] = "finish"]
        BY <1>2 DEF WorkerRecord, RecordStatus
    <2> QED BY <1>0, <2>1 DEF ReportsSound
<1>3. CASE WorkerFinish(w)
    <2>1. /\ UNCHANGED <<completed, gpc>> /\ completed \in SUBSET Steps
          /\ wpc[w] = "finish" /\ wpc' = [wpc EXCEPT ![w] = "finally"]
          /\ IF Cardinality(completed) = NumSteps THEN DoOutputCallback
             ELSE UNCHANGED <<didCallback, final>>
        BY <1>3 DEF WorkerFinish, ReceiveFinish, IInv, TypeOK, WfTypeOK
    <2>2. CASE Cardinality(completed) = NumSteps
        <3>1. ASSUME Commands = Steps
              PROVE  \A v \in Workers : wpc'[v] \notin {"record", "finish"}
            <4>1. lock = w
                BY <2>1, <3>1, CallbackAlone
            <4>2. \A v \in Workers : wpc[v] \in {"record", "finish"} => v = w
                BY <3>1, <4>1, CallbackAlone
            <4> QED BY <1>0, <2>1, <4>2
        <3>2. processStatus = "success" /\ Commands = Steps => final = <<>>
            BY <2>1 DEF ReportsSound
        <3> QED BY <2>1, <2>2, <3>1, <3>2, CallbackFacts, CallbackReported
                DEF ReportsSound
    <2>3. CASE Cardinality(completed) # NumSteps
        <3>1. completed # Steps
            BY <2>3 DEF NumSteps
        <3> QED BY <1>0, <2>1, <2>3, <3>1 DEF ReportsSound
    <2> QED BY <2>2, <2>3
<1>4. CASE ~WorkerCallback(w) /\ ~WorkerRecord(w) /\ ~WorkerFinish(w)
    <2>1. /\ UNCHANGED <<completed, cbVars, genVars>>
          /\ wpc[w] \notin {"record", "finish"}
          /\ \E p \in {"get", "run", "callback", "finally", "dec", "exit"} :
                 wpc' = [wpc EXCEPT ![w] = p]
        BY <1>4 DEF WorkerStep, WorkerGet, Get, WorkerRunWf, WorkerRun,
            WorkerRaise, WorkerFinally, WorkerDec, Dec
    <2> QED BY <1>0, <2>1 DEF ReportsSound
<1> QED BY <1>1, <1>2, <1>3, <1>4

LEMMA ReportsStep ==
    IInv /\ LockSound /\ EndSound /\ ReportsSound /\ [Next]_vars => ReportsSound'
<1> SUFFICES ASSUME IInv, LockSound, EndSound, ReportsSound, [Next]_vars
             PROVE  ReportsSound'
    OBVIOUS
<1>1. CASE (MainStep /\ ~MainGenerate) \/ UNCHANGED vars
    <2>1. /\ UNCHANGED <<completed, cbVars, wpc>>
          /\ gpc' = "end" => gpc = "end"
        BY <1>1 DEF vars, MainStep, MainTake, MainTakeEnd, MainTooBig, MainBusy,
            MainStart, MainScanned, MainPut, MainPutFull, MainRetry,
            MainReacquire, MainNext, MainWait, MainGiveUp, MainLeave,
            MainWakeRaise, MainWakeNext, MainWakeTail, MainDrain, MainJoin,
            GenResume, wfVars, stepVars, genVars, tqVars, threadVars, AddCount,
            AddPut, DrainOne, JoinPut
    <2> QED BY <2>1 DEF ReportsSound, cbVars
<1> QED BY <1>1, GenReports, WorkerReports, SuccessBefore DEF Next, Finished

THEOREM ReportsInvariance == Spec => []ReportsSound
<1>1. Init => ReportsSound
    <2> SUFFICES ASSUME Init PROVE ReportsSound
        OBVIOUS
    <2>1. completed # Steps
        BY StepsAssumption DEF Init, WfInit
    <2> QED BY <2>1 DEF Init, WfInit, ReportsSound
<1> QED BY <1>1, ReportsStep, Invariance, LockInvariance, EndInvariance, PTL
        DEF Spec

-----------------------------------------------------------------------------
(* No job is lost while nothing has failed. *)

\* Where a job may be that has not been recorded.
Somewhere(s) == Ahead(s) \/ TooBig(s) \/ \E w \in Held(s) : wpc[w] = "record"
Ending       == mpc \in {"drain", "join", "done"}

\* The generator puts a job in run_job's way.
LEMMA GenAhead ==
    ASSUME IInv, NEW s \in Steps, MainGenerate, processStatus' = "success",
           s \in submitted \ completed => Somewhere(s),
           s \in submitted' \ completed'
    PROVE  Somewhere(s)'
<1>1. /\ GenRun /\ UNCHANGED <<wpc, wtask, tqueue, pending, mpc, n>>
      /\ mpc = "take"
    BY DEF MainGenerate, tqVars, threadVars, queueVars, mainVars, resVars
<1>2. /\ Waiting(s)' = Waiting(s) /\ Queued(s)' = Queued(s)
      /\ Held(s)' = Held(s)
    BY <1>1 DEF Waiting, Queued, Held, Busying
<1>3. /\ processStatus = "success" /\ UNCHANGED <<order, sources>>
      /\ UNCHANGED <<submitted, completed, state>> \/ GenMake \/ GenSkip
    BY <1>1, GenFlags
<1>4. Offered(s) => Offered(s)'
    <2> SUFFICES ASSUME Offered(s) PROVE Offered(s)'
        OBVIOUS
    <2>1. gpc = "made" /\ CurrentStep = s
        BY <1>1 DEF Offered, GenRun, GenLoop, GenForEnd, GenNotReady, GenMake,
            GenMakeRaises, CanMake, GenSkip, GenYieldJob, GenSum, GenExit
    <2>2. GenYieldJob
        BY <1>1, <2>1 DEF GenRun, GenLoop, GenForEnd, GenNotReady, GenMake,
            GenMakeRaises, CanMake, GenSkip, GenYieldJob, GenSum, GenExit
    <2>3. gpc' = "yield" /\ offer' = s
        BY <1>3, <2>1, <2>2 DEF GenYieldJob, Stopping
    <2> QED BY <1>1, <2>3 DEF Offered
<1>5. CASE s \in submitted
    <2>1. s \notin completed
        BY <1>3, <1>5 DEF GenMake, GenSkip
    <2> QED BY <1>1, <1>2, <1>4, <1>5, <2>1 DEF Somewhere, Ahead
<1>6. CASE s \notin submitted
    <2>1. GenMake /\ s = CurrentStep
        BY <1>3, <1>6 DEF GenMake, GenSkip
    <2>2. Offered(s)'
        BY <2>1 DEF GenMake, Offered, CurrentStep, docVars
    <2> QED BY <2>2 DEF Somewhere, Ahead
<1> QED BY <1>5, <1>6

\* The main thread hands a job on, or drops one that is too big.
LEMMA MainAhead ==
    ASSUME IInv, NEW s \in Steps,
           (MainStep /\ ~MainGenerate) \/ UNCHANGED vars, ~Ending', Somewhere(s)
    PROVE  Somewhere(s)'
<1>0. pending \in Seq(Jobs) /\ tqueue \in Seq(Jobs \cup {NoTask})
    BY DEF IInv, TypeOK
<1>2. CASE MainTake
    <2>1. /\ UNCHANGED <<wpc, wtask, tqueue, order, gpc, gidx, offer>>
          /\ mpc = "take" /\ mpc' = "scan" /\ gpc = "yield"
          /\ pending' = IF offer = NoJob THEN pending ELSE Append(pending, offer)
        BY <1>2 DEF MainTake, wfVars, stepVars, docVars, genVars, tqVars,
                    threadVars, queueVars
    <2>2. offer = s => Len(pending) + 1 \in Waiting(s)'
        BY <1>0, <2>1, StepsAssumption DEF Waiting, Jobs
    <2>3. Waiting(s) \subseteq Waiting(s)'
        <3>1. CASE offer = NoJob
            BY <2>1, <3>1 DEF Waiting
        <3>2. CASE offer # NoJob
            BY <1>0, <2>1, <3>2 DEF Waiting
        <3> QED BY <3>1, <3>2
    <2>4. Queued(s)' = Queued(s) /\ Held(s)' = Held(s)
        BY <2>1 DEF Queued, Held, Busying
    <2>5. Offered(s) => offer = s
        BY <2>1 DEF Offered
    <2> QED BY <2>1, <2>2, <2>3, <2>4, <2>5 DEF Somewhere, Ahead
<1>3. CASE MainTooBig \/ MainReacquire
    <2>1. /\ UNCHANGED <<wpc, wtask, tqueue, order, gpc, gidx, offer>>
          /\ mpc # "take" /\ mpc' # "reacquire"
          /\ n \in 1..Len(pending) /\ pending' = RemoveAt(pending, n)
          /\ TooBig(pending[n]) \/ mpc = "reacquire"
        BY <1>3 DEF MainTooBig, MainReacquire, wfVars, stepVars, docVars, genVars,
            tqVars, threadVars, queueVars, IInv, TypeOK, PositionsValid
    <2>2. /\ Len(pending') = Len(pending) - 1
          /\ \A i \in 1..(Len(pending) - 1) :
                 pending'[i] = IF i < n THEN pending[i] ELSE pending[i + 1]
        BY <1>0, <2>1, RemoveAtFacts
    <2>3. ASSUME NEW i \in Waiting(s), ~TooBig(s) PROVE Waiting(s)' # {}
        <3>1. i \in 1..Len(pending) /\ pending[i] = s /\ i # n
            BY <2>1, <2>3 DEF Waiting
        <3>2. CASE i < n
            <4>1. i \in 1..(Len(pending) - 1) /\ pending'[i] = s
                BY <1>0, <2>1, <2>2, <3>1, <3>2
            <4> QED BY <2>1, <2>2, <4>1 DEF Waiting
        <3>3. CASE ~(i < n)
            <4>1. i - 1 \in 1..(Len(pending) - 1) /\ ~(i - 1 < n)
                  /\ (i - 1) + 1 = i
                BY <1>0, <2>1, <3>1, <3>3
            <4>2. pending'[i - 1] = s
                BY <2>2, <3>1, <4>1
            <4> QED BY <2>1, <2>2, <4>1, <4>2 DEF Waiting
        <3> QED BY <3>2, <3>3
    <2>4. /\ Queued(s)' = Queued(s) /\ Held(s)' = Held(s)
          /\ Offered(s) => Offered(s)'
        BY <2>1 DEF Queued, Held, Busying, Offered, CurrentStep
    <2> QED BY <2>1, <2>3, <2>4 DEF Somewhere, Ahead
<1>4. CASE MainPut
    <2>1. /\ UNCHANGED <<wpc, wtask, pending, n, order, gpc, gidx, offer>>
          /\ mpc = "put" /\ mpc' = "reacquire" /\ n \in 1..Len(pending)
          /\ tqueue' = Append(tqueue, pending[n])
        BY <1>4 DEF MainPut, AddPut, wfVars, stepVars, docVars, genVars,
            threadVars, resVars, IInv, TypeOK, PositionsValid, Adding
    <2>2. pending[n] = s => Len(tqueue) + 1 \in Queued(s)'
        BY <1>0, <2>1 DEF Queued
    <2>3. pending[n] # s => Waiting(s)' = Waiting(s)
        BY <2>1 DEF Waiting
    <2>4. Queued(s) \subseteq Queued(s)'
        BY <1>0, <2>1 DEF Queued
    <2>5. Held(s)' = Held(s) /\ (Offered(s) => Offered(s)')
        BY <2>1 DEF Held, Busying, Offered, CurrentStep
    <2> QED BY <2>1, <2>2, <2>3, <2>4, <2>5 DEF Somewhere, Ahead
<1>5. CASE \/ MainTakeEnd \/ MainBusy \/ MainPutFull \/ MainRetry \/ MainScanned
           \/ MainWait \/ MainGiveUp \/ MainWakeTail \/ MainStart \/ MainNext
           \/ MainWakeNext \/ UNCHANGED vars
    <2>1. /\ UNCHANGED <<wpc, wtask, tqueue, pending>>
          /\ \/ mpc # "reacquire" /\ mpc' # "reacquire"
             \/ UNCHANGED <<mpc, n>>
          /\ \/ UNCHANGED <<order, gpc, gidx, offer>> /\ mpc # "take"
             \/ UNCHANGED <<order, gpc, gidx, offer, mpc>>
             \/ mpc # "take" /\ gpc = "yield"
             \/ gpc = "end"
        BY <1>5 DEF MainTakeEnd, MainBusy, MainPutFull, MainRetry, MainScanned,
            MainWait, MainGiveUp, MainWakeTail, MainStart, MainNext, MainWakeNext,
            WakeUp, GenResume, AddCount, vars, wfVars, stepVars, docVars, genVars,
            tqVars, threadVars, queueVars, resVars, mainVars
    <2>2. Waiting(s)' = Waiting(s)
        BY <2>1 DEF Waiting
    <2>3. Queued(s)' = Queued(s) /\ Held(s)' = Held(s)
        BY <2>1 DEF Queued, Held, Busying
    <2>4. Offered(s) => Offered(s)'
        BY <2>1 DEF Offered, CurrentStep
    <2> QED BY <2>1, <2>2, <2>3, <2>4 DEF Somewhere, Ahead
<1>6. CASE MainLeave \/ MainWakeRaise \/ MainDrain \/ MainJoin
    BY <1>6 DEF MainLeave, MainWakeRaise, MainDrain, MainJoin, Ending
<1> QED BY <1>2, <1>3, <1>4, <1>5, <1>6 DEF MainStep

\* A thread takes the job through to its record, or raises.
LEMMA WorkerAhead ==
    ASSUME IInv, NEW s \in Steps, NEW w \in Workers, WorkerStep(w),
           ~exceptions', s \in submitted \ completed, s \notin completed',
           Somewhere(s)
    PROVE  Somewhere(s)'
<1>0. /\ tqueue \in Seq(Jobs \cup {NoTask})
      /\ wpc \in [Workers -> {"get", "run", "callback", "record", "finish",
                              "finally", "dec", "exit"}]
      /\ wtask \in [Workers -> Jobs \cup {NoTask}]
      /\ s # NoTask /\ s # WfJob
    BY StepsAssumption, ExecutorAssumption DEF IInv, TypeOK, Jobs
<1>1. UNCHANGED <<mpc, n, pending, order, gpc, gidx, offer>>
    BY DEF WorkerStep, WorkerGet, WorkerRunWf, WorkerRun, WorkerRaise,
        WorkerCallback, WorkerRecord, WorkerFinish, WorkerFinally, WorkerDec,
        mainVars, resVars, wfVars, stepVars, docVars, genVars, StoreOutput,
        RecordStatus, ReceiveFinish
<1>2. Waiting(s)' = Waiting(s) /\ (Offered(s) => Offered(s)')
    BY <1>1 DEF Waiting, Offered, CurrentStep
<1>3. CASE WorkerGet(w)
    <2>1. /\ wpc[w] = "get" /\ tqueue # <<>> /\ tqueue' = Tail(tqueue)
          /\ IF Head(tqueue) = NoTask
             THEN wpc' = [wpc EXCEPT ![w] = "exit"] /\ UNCHANGED wtask
             ELSE /\ wpc' = [wpc EXCEPT ![w] = "run"]
                  /\ wtask' = [wtask EXCEPT ![w] = Head(tqueue)]
        BY <1>3 DEF WorkerGet, Get
    <2>2. CASE Head(tqueue) = s
        <3>1. w \in Held(s)' /\ wpc'[w] = "run"
            BY <1>0, <2>1, <2>2 DEF Held, Busying
        <3> QED BY <3>1 DEF Somewhere, Ahead
    <2>3. CASE Head(tqueue) # s
        <3>1. Queued(s)' = {} <=> Queued(s) = {}
            BY <1>0, <2>1, <2>3, QueuedAfter
        <3>2. Held(s)' = Held(s) /\ \A v \in Held(s) : wpc'[v] = wpc[v]
            BY <1>0, <2>1, <2>3 DEF Held, Busying
        <3> QED BY <1>2, <3>1, <3>2 DEF Somewhere, Ahead
    <2> QED BY <2>2, <2>3
<1>4. CASE ~WorkerGet(w)
    <2>1. UNCHANGED tqueue
        BY <1>4 DEF WorkerStep, WorkerRunWf, WorkerRun, WorkerRaise,
            WorkerCallback, WorkerRecord, WorkerFinish, WorkerFinally, WorkerDec,
            Dec, queueVars
    <2>2. Queued(s)' = Queued(s)
        BY <2>1 DEF Queued
    <2>3. \/ /\ UNCHANGED wtask
             /\ \/ wpc[w] = "run" /\ wpc' = [wpc EXCEPT ![w] = "callback"]
                \/ wpc[w] = "callback" /\ wpc' = [wpc EXCEPT ![w] = "record"]
                \/ wtask[w] # s /\ \E p : wpc' = [wpc EXCEPT ![w] = p]
                                          /\ p \notin {"get", "exit"}
                \/ wpc[w] \in {"finish", "finally"}
                   /\ \E p : wpc' = [wpc EXCEPT ![w] = p]
          \/ /\ wpc[w] = "dec" /\ wtask' = [wtask EXCEPT ![w] = NoTask]
             /\ wpc' = [wpc EXCEPT ![w] = "get"]
        BY <1>0, <1>4 DEF WorkerStep, WorkerRunWf, WorkerRun, WorkerRaise,
            WorkerCallback, WorkerRecord, WorkerFinish, WorkerFinally, WorkerDec,
            Dec, RecordStatus, queueVars
    <2>4. ASSUME NEW v \in Held(s), wpc[v] \in {"run", "callback", "record"}
          PROVE  v \in Held(s)' /\ wpc'[v] \in {"run", "callback", "record"}
        BY <1>0, <2>3, <2>4 DEF Held, Busying
    <2> QED BY <1>2, <2>2, <2>4 DEF Somewhere, Ahead
<1> QED BY <1>3, <1>4

LEMMA AheadStep == IInv /\ IInv' /\ AheadSound /\ [Next]_vars => AheadSound'
<1> SUFFICES ASSUME IInv, IInv', AheadSound, [Next]_vars,
                    processStatus' = "success", ~exceptions', ~Ending',
                    NEW s \in submitted' \ completed'
             PROVE  Somewhere(s)'
    BY DEF AheadSound, Somewhere, Ending
<1>0. s \in Steps
    BY DEF IInv, TypeOK, WfTypeOK
<1>1. processStatus = "success" /\ ~exceptions /\ ~Ending
    <2>1. processStatus = "success"
        BY SuccessBefore
    <2>2. ~exceptions /\ ~Ending
        BY DEF Ending, Next, Finished, vars, jobVars, mainVars, MainStep,
            MainGenerate, MainTake, MainTakeEnd, MainTooBig, MainBusy, MainStart,
            MainScanned, MainPut, MainPutFull, MainRetry, MainReacquire,
            MainNext, MainWait, MainGiveUp, MainLeave, MainWakeRaise,
            MainWakeNext, MainWakeTail, MainDrain, MainJoin, WakeUp,
            WorkerStep, WorkerGet, WorkerRunWf, WorkerRun, WorkerRaise,
            WorkerCallback, WorkerRecord, WorkerFinish, WorkerFinally, WorkerDec
    <2> QED BY <2>1, <2>2
<1>2. s \in submitted \ completed => Somewhere(s)
    BY <1>1 DEF AheadSound, Somewhere, Ending
<1>3. CASE MainGenerate
    BY <1>0, <1>2, <1>3, GenAhead
<1>4. CASE (MainStep /\ ~MainGenerate) \/ UNCHANGED vars
    <2>1. UNCHANGED <<submitted, completed>>
        BY <1>4 DEF vars, MainStep, MainTake, MainTakeEnd, MainTooBig, MainBusy,
            MainStart, MainScanned, MainPut, MainPutFull, MainRetry,
            MainReacquire, MainNext, MainWait, MainGiveUp, MainLeave,
            MainWakeRaise, MainWakeNext, MainWakeTail, MainDrain, MainJoin,
            GenResume, wfVars, stepVars
    <2> QED BY <1>0, <1>2, <1>4, <2>1, MainAhead
<1>5. ASSUME NEW w \in Workers, WorkerStep(w) PROVE Somewhere(s)'
    <2>1. UNCHANGED submitted /\ completed \subseteq completed'
        BY <1>5 DEF WorkerStep, WorkerGet, WorkerRunWf, WorkerRun, WorkerRaise,
            WorkerCallback, WorkerRecord, WorkerFinish, WorkerFinally, WorkerDec,
            wfVars, stepVars, StoreOutput, RecordStatus, ReceiveFinish
    <2> QED BY <1>0, <1>2, <1>5, <2>1, WorkerAhead
<1> QED BY <1>3, <1>4, <1>5 DEF Next, Finished

THEOREM AheadInvariance == Spec => []AheadSound
<1>1. Init => AheadSound
    BY DEF Init, WfInit, AheadSound
<1> QED BY <1>1, AheadStep, Invariance, PTL DEF Spec

-----------------------------------------------------------------------------
(* Without waiting for resources, run_jobs gives up only when it may. *)

LEMMA AmpleFits ==
    ASSUME Ample, IInv, ChargesSound, ~Ending, NEW s \in Commands,
           s \notin Charged, ~TooBig(s)
    PROVE  ~Busy(s)
<1> DEFINE fitting == {t \in Commands : ~TooBig(t)}
<1> SUFFICES ASSUME NEW r \in Resources
             PROVE  ~(allocated[r] + Request[s][r] > MaxOf[r])
    BY DEF Busy
<1>1. fitting \in SUBSET Commands /\ Charged \cup {s} \in SUBSET fitting
    BY ChargedFacts DEF ChargesSound
<1>2. Asked(r, fitting) <= MaxOf[r]
    BY DEF Ample
<1> HIDE DEF fitting
<1>3. Asked(r, Charged \cup {s}) = Asked(r, Charged) + Request[s][r]
    BY ChargedFacts, AskedWith
<1>4. Asked(r, Charged \cup {s}) <= Asked(r, fitting)
    BY <1>1, AskedMonotone
<1>5. allocated[r] <= Asked(r, Charged)
    BY DEF ChargesSound, Ending
<1>6. /\ Asked(r, fitting) \in Int /\ Asked(r, Charged) \in Int
      /\ allocated[r] \in Int /\ MaxOf[r] \in Nat /\ Request[s][r] \in Nat
    BY <1>1, ChargedFacts, AskedPick, ExecutorAssumption
<1> QED BY <1>2, <1>3, <1>4, <1>5, <1>6

LEMMA NeverBusy ==
    ASSUME Ample, IInv, ChargesSound PROVE ~MainBusy
<1> SUFFICES ASSUME MainBusy PROVE FALSE
    OBVIOUS
<1> DEFINE s == pending[n]
<1>1. /\ mpc = "scan" /\ n \in 1..Len(pending) /\ ~TooBig(s) /\ Busy(s)
      /\ s \in Commands
    BY DEF MainBusy, Busy, IInv, TypeOK
<1>2. n \in Waiting(s) /\ s \in Steps
    BY <1>1, ExecutorAssumption DEF Waiting
<1>3. Queued(s) = {} /\ Held(s) = {}
    BY <1>2 DEF IInv, StepSound, OnePlace
<1>4. s \notin Charged
    BY <1>1, <1>3 DEF Charged, Adding
<1> QED BY <1>1, <1>4, AmpleFits DEF Ending

LEMMA PendingStep ==
    ASSUME Ample, IInv, ChargesSound, PendingSound, [Next]_vars
    PROVE  PendingSound'
<1> USE DEF wfVars, stepVars, genVars, tqVars, mainVars, resVars, lockVars, jobVars
<1>1. CASE MainGenerate
    <2>1. UNCHANGED <<mainVars, resVars>> /\ mpc = "take"
        BY <1>1 DEF MainGenerate
    <2> QED BY <2>1 DEF PendingSound
<1>2. CASE MainTake
    <2>1. /\ UNCHANGED <<gpc, offer, tail>> /\ mpc = "take" /\ gpc = "yield"
          /\ n' = 1 /\ mpc' = "scan"
          /\ pending' = IF offer = NoJob THEN pending ELSE Append(pending, offer)
          /\ pending = <<>>
        BY <1>2 DEF MainTake, PendingSound
    <2> QED BY <2>1 DEF PendingSound
<1>3. CASE MainTooBig \/ MainReacquire
    <2>1. /\ UNCHANGED <<gpc, offer, tail, n>> /\ mpc \in {"scan", "reacquire"}
          /\ mpc' \in {"ret", "scan"}
          /\ pending' = RemoveAt(pending, n) /\ n \in 1..Len(pending)
        BY <1>3 DEF MainTooBig, MainReacquire, IInv, TypeOK, PositionsValid
    <2>2. Len(pending) = 1 /\ pending \in Seq(Jobs)
        BY <2>1 DEF PendingSound, IInv, TypeOK
    <2>3. /\ RemoveAt(pending, n) \in Seq(Jobs)
          /\ Len(RemoveAt(pending, n)) = Len(pending) - 1
        BY <2>1, <2>2, RemoveAtFacts
    <2>4. pending' = <<>>
        BY <2>1, <2>2, <2>3
    <2> QED BY <2>1, <2>4 DEF PendingSound
<1>4. CASE MainScanned
    <2>1. Len(pending) # 1
        BY <1>4 DEF MainScanned, PendingSound
    <2>2. pending = <<>>
        BY <2>1 DEF PendingSound
    <2> QED BY <1>4, <2>2 DEF MainScanned, PendingSound
<1>5. CASE \/ MainTakeEnd \/ MainStart \/ MainPut \/ MainPutFull \/ MainRetry
           \/ MainNext \/ MainWait \/ MainGiveUp \/ MainLeave \/ MainWakeRaise
           \/ MainWakeNext \/ MainWakeTail \/ MainDrain \/ MainJoin
    BY <1>5 DEF PendingSound, MainTakeEnd, MainStart, MainPut, MainPutFull,
        MainRetry, MainNext, MainWait, MainGiveUp, MainLeave, MainWakeRaise,
        MainWakeNext, MainWakeTail, MainDrain, MainJoin, WakeUp, GenResume
<1>6. CASE MainBusy
    BY <1>6, NeverBusy
<1>7. CASE UNCHANGED vars
    BY <1>7 DEF PendingSound, vars
<1>8. ASSUME NEW w \in Workers, WorkerStep(w) PROVE PendingSound'
    <2>1. UNCHANGED <<pending, gpc, offer, mainVars>>
        BY <1>8 DEF WorkerStep, WorkerGet, WorkerRunWf, WorkerRun, WorkerRaise,
            WorkerCallback, WorkerRecord, WorkerFinish, WorkerFinally, WorkerDec,
            StoreOutput, RecordStatus, ReceiveFinish
    <2> QED BY <2>1 DEF PendingSound
<1> QED BY <1>1, <1>2, <1>3, <1>4, <1>5, <1>6, <1>7, <1>8
        DEF Next, MainStep, Finished

THEOREM PendingInvariance == ASSUME Ample PROVE Spec => []PendingSound
<1>1. Init => PendingSound
    BY DEF Init, PendingSound
<1>2. IInv /\ ChargesSound /\ PendingSound /\ [Next]_vars => PendingSound'
    BY Ample, PendingStep
<1> QED BY <1>1, <1>2, Invariance, ChargesInvariance, PTL DEF Spec

\* What a pass over the steps has found, on the generator's side.
LEMMA GenPass ==
    ASSUME IInv, PassSound, MainGenerate PROVE PassSound'
<1>0. /\ GenRun /\ UNCHANGED <<wpc, mpc, tail>> /\ mpc = "take"
      /\ NumSteps \in Nat \ {0} /\ gidx \in 1..(NumSteps + 1)
      /\ NoJob \notin Steps
    BY NumStepsFacts, StepsAssumption
       DEF MainGenerate, tqVars, threadVars, mainVars, IInv, TypeOK, WfTypeOK, Jobs
<1> USE DEF stepVars, docVars, cbVars, genVars
<1>1. UNCHANGED <<order, sources>>
    BY <1>0 DEF GenRun, GenLoop, GenForEnd, GenNotReady, GenMake, GenMakeRaises,
        GenSkip, GenYieldJob, GenSum, GenExit
<1>2. gpc' = "yield" /\ offer' \in Steps => madeProgress'
    BY <1>0 DEF GenRun, GenLoop, GenForEnd, GenNotReady, GenMake, GenMakeRaises,
        CanMake, GenSkip, GenYieldJob, GenSum, GenExit
<1>3. ASSUME \A s \in Tried : s \in submitted \/ ~InputsReady(s),
             NEW s \in Tried'
      PROVE  s \in submitted' \/ ~InputsReady(s)'
    <2>1. CASE GenForEnd
        <3>1. /\ UNCHANGED <<submitted, state, sources, order, gidx, offer>>
              /\ gpc = "step" /\ gpc' = "sum" /\ (Fruitless' <=> Fruitless)
              /\ gidx > NumSteps \/ processStatus # "success"
            BY <2>1 DEF GenForEnd, Fruitless, Stopping
        <3>2. Fruitless /\ s \in Steps /\ ~tail
            BY <1>0, <1>3, <3>1 DEF Tried
        <3>3. gidx > NumSteps
            BY <3>1, <3>2 DEF Fruitless
        <3>4. PICK i \in 1..NumSteps : order[i] = s
            BY <3>2 DEF PassSound
        <3>5. s \in Tried
            BY <1>0, <3>1, <3>2, <3>3, <3>4 DEF Tried
        <3> QED BY <1>3, <3>1, <3>5 DEF InputsReady
    <2>2. CASE GenNotReady
        <3>1. /\ UNCHANGED <<submitted, state, sources, order, gpc, offer>>
              /\ gpc = "step" /\ gidx' = gidx + 1 /\ (Fruitless' <=> Fruitless)
              /\ CurrentStep \in submitted \/ ~InputsReady(CurrentStep)
            BY <2>2 DEF GenNotReady, Fruitless
        <3>2. PICK i \in 1..gidx : order[i] = s /\ Fruitless /\ ~tail
            BY <1>0, <1>3, <3>1 DEF Tried
        <3>3. CASE i = gidx
            BY <3>1, <3>2, <3>3 DEF CurrentStep, InputsReady
        <3>4. CASE i # gidx
            <4>1. s \in Tried
                BY <1>0, <3>1, <3>2, <3>4 DEF Tried
            <4> QED BY <1>3, <3>1, <4>1 DEF InputsReady
        <3> QED BY <3>3, <3>4
    <2>3. CASE GenSum
        <3>1. /\ UNCHANGED <<submitted, state, sources, order>> /\ gpc = "sum"
              /\ gpc' = "yield" => Fruitless
              /\ gpc' \in {"yield", "loop", "exit"}
            BY <2>3 DEF GenSum, Fruitless
        <3>2. s \in Steps /\ Fruitless /\ ~tail
            BY <1>0, <1>3, <3>1 DEF Tried
        <3>3. s \in Tried
            BY <1>0, <3>1, <3>2 DEF Tried
        <3> QED BY <1>3, <3>1, <3>3 DEF InputsReady
    <2>4. CASE GenLoop
        <3>1. gpc' = "step" /\ gidx' = 1
            BY <2>4 DEF GenLoop
        <3> QED BY <1>0, <1>3, <3>1 DEF Tried
    <2>5. CASE GenYieldJob
        <3>1. CurrentStep \in Steps
            BY <1>0, <2>5
               DEF GenYieldJob, CurrentStep, IInv, TypeOK, WfTypeOK, PositionsValid
        <3>2. \/ gpc' = "step" /\ processStatus' # "success"
              \/ gpc' = "yield" /\ offer' \in Steps
            BY <2>5, <3>1 DEF GenYieldJob, Stopping
        <3> QED BY <1>0, <1>3, <3>2 DEF Tried, Fruitless
    <2>6. CASE GenMake \/ GenMakeRaises \/ GenSkip \/ GenExit
        <3>1. \/ gpc' \in {"made", "end"}
              \/ gpc' = "step" /\ (processStatus' # "success" \/ madeProgress')
            BY <2>6 DEF GenMake, GenMakeRaises, GenSkip, GenExit, CanMake
        <3> QED BY <1>0, <1>3, <3>1 DEF Tried, Fruitless
    <2> QED BY <1>0, <2>1, <2>2, <2>3, <2>4, <2>5, <2>6 DEF GenRun
<1> QED BY <1>0, <1>1, <1>2, <1>3 DEF PassSound

\* The steps of run_jobs itself forget what was tried, or leave it alone.
LEMMA MainPass ==
    ASSUME IInv, PendingSound, PassSound,
           (MainStep /\ ~MainGenerate) \/ UNCHANGED vars
    PROVE  PassSound'
<1> USE DEF wfVars, stepVars, docVars, cbVars, genVars, tqVars, threadVars,
            mainVars, resVars, lockVars, jobVars
<1>1. /\ UNCHANGED <<stepVars, cbVars, wpc, offer>>
      /\ gpc' = "yield" => gpc = "yield"
    BY DEF vars, MainStep, MainTake, MainTakeEnd, MainTooBig, MainBusy,
        MainStart, MainScanned, MainPut, MainPutFull, MainRetry,
        MainReacquire, MainNext, MainWait, MainGiveUp, MainLeave,
        MainWakeRaise, MainWakeNext, MainWakeTail, MainDrain, MainJoin,
        GenResume, AddCount, AddPut, DrainOne, JoinPut
<1>2. Tried' \subseteq Tried
    <2>1. CASE MainTake \/ MainTooBig \/ MainBusy \/ MainScanned \/ UNCHANGED vars
        <3>1. /\ UNCHANGED <<order, gpc, gidx, offer, tail, madeProgress,
                             processStatus>>
              /\ mpc \in {"take", "scan", "ret"} \/ UNCHANGED mpc
            BY <2>1 DEF vars, MainTake, MainTooBig, MainBusy, MainScanned
        <3> QED BY <3>1 DEF Tried, Fruitless
    <2>2. CASE MainReacquire
        <3>1. /\ UNCHANGED <<gpc, offer, tail>> /\ mpc = "reacquire"
              /\ n \in 1..Len(pending)
            BY <2>2 DEF MainReacquire, IInv, TypeOK, PositionsValid
        <3>2. pending # <<>>
            BY <3>1
        <3>3. gpc' = "yield" /\ offer' # NoJob
            BY <3>1, <3>2 DEF PendingSound
        <3> QED BY <3>3 DEF Tried
    <2>3. CASE MainNext \/ MainWakeNext
        <3>1. /\ gpc = "yield" /\ UNCHANGED <<offer, madeProgress>>
              /\ gpc' = IF offer \in Steps THEN "step" ELSE "loop"
            BY <2>3 DEF MainNext, MainWakeNext, GenResume
        <3>2. offer \in Steps => madeProgress'
            BY <3>1 DEF PassSound
        <3> QED BY <3>1, <3>2 DEF Tried, Fruitless
    <2>4. CASE \/ MainTakeEnd \/ MainStart \/ MainPut \/ MainPutFull \/ MainRetry
               \/ MainWait \/ MainGiveUp \/ MainLeave \/ MainWakeRaise
               \/ MainWakeTail \/ MainDrain \/ MainJoin
        <3>1. tail' \/ mpc' \notin {"take", "scan", "ret"}
            BY <2>4 DEF MainTakeEnd, MainStart, MainPut, MainPutFull, MainRetry,
                MainWait, MainGiveUp, MainLeave, MainWakeRaise, MainWakeTail,
                MainDrain, MainJoin
        <3> QED BY <3>1 DEF Tried
    <2> QED BY <2>1, <2>2, <2>3, <2>4 DEF MainStep
<1>3. \A s : InputsReady(s)' <=> InputsReady(s)
    BY <1>1 DEF InputsReady
<1> QED BY <1>1, <1>2, <1>3 DEF PassSound

\* A thread that stores outputs stays in its job while the pass lasts.
LEMMA WorkerPass ==
    ASSUME IInv, LockSound, PassSound, NEW w \in Workers, WorkerStep(w),
           processStatus' = "success" => processStatus = "success"
    PROVE  PassSound'
<1> USE DEF wfVars, stepVars, docVars, cbVars, genVars, mainVars
<1>0. /\ UNCHANGED <<order, sources, submitted, genVars, tail, mpc>>
      /\ madeProgress => madeProgress'
      /\ wpc \in [Workers -> {"get", "run", "callback", "record", "finish",
                              "finally", "dec", "exit"}]
    BY DEF WorkerStep, WorkerGet, WorkerRunWf, WorkerRun, WorkerRaise,
        WorkerCallback, WorkerRecord, WorkerFinish, WorkerFinally, WorkerDec,
        StoreOutput, RecordStatus, ReceiveFinish, IInv, TypeOK
<1>1. CASE \/ WorkerRunWf(w) \/ WorkerRaise(w) \/ WorkerCallback(w)
           \/ WorkerRecord(w) \/ WorkerFinish(w)
    <2>1. wpc'[w] \in {"record", "finish", "finally"}
        BY <1>0, <1>1 DEF WorkerRunWf, WorkerRaise, WorkerCallback, WorkerRecord,
                          WorkerFinish
    <2> QED BY <1>0, <2>1 DEF PassSound
<1>2. CASE WorkerFinally(w)
    <2>1. mpc' \notin {"take", "scan", "ret"}
        BY <1>0, <1>2, ExecutorAssumption DEF WorkerFinally, LockSound
    <2>2. Tried' = {}
        BY <2>1 DEF Tried
    <2> QED BY <1>0, <2>2 DEF PassSound
<1>3. CASE WorkerGet(w) \/ WorkerRun(w) \/ WorkerDec(w)
    <2>1. /\ UNCHANGED <<state, processStatus, madeProgress>>
          /\ wpc[w] \notin {"record", "finish", "finally"}
          /\ \E p : wpc' = [wpc EXCEPT ![w] = p]
        BY <1>3 DEF WorkerGet, Get, WorkerRun, WorkerDec, Dec
    <2>2. \A v \in Workers : wpc[v] \in {"record", "finish", "finally"}
                                 => wpc'[v] = wpc[v]
        BY <1>0, <2>1
    <2>3. Tried' = Tried
        BY <1>0, <2>1 DEF Tried, Fruitless
    <2>4. \A s : InputsReady(s)' <=> InputsReady(s)
        BY <1>0, <2>1 DEF InputsReady
    <2> QED BY <1>0, <2>2, <2>3, <2>4 DEF PassSound
<1> QED BY <1>1, <1>2, <1>3 DEF WorkerStep

THEOREM PassInvariance == ASSUME Ample PROVE Spec => []PassSound
<1>1. Init => PassSound
    <2> SUFFICES ASSUME Init PROVE PassSound
        OBVIOUS
    <2>1. Tried = {} /\ offer \notin Steps
        BY StepsAssumption DEF Init, WfInit, Tried, Jobs
    <2>2. \A s \in Steps : \E i \in 1..NumSteps : order[i] = s
        BY DEF Init, WfInit, Bijection, Surjection
    <2> QED BY <2>1, <2>2 DEF PassSound
<1>2. IInv /\ LockSound /\ PendingSound /\ PassSound /\ [Next]_vars => PassSound'
    BY GenPass, MainPass, WorkerPass, SuccessBefore DEF Next, Finished
<1> QED BY <1>1, <1>2, Invariance, LockInvariance, PendingInvariance, PTL DEF Spec

\* Nothing is under way when run_jobs gives up, and no step is ready.
LEMMA GiveUpFacts ==
    ASSUME IInv, PendingSound, PassSound, AheadSound, MainGiveUp
    PROVE  /\ Busying = {} /\ tqueue = <<>> /\ pending = <<>>
           /\ \A s \in Steps \ submitted : ~InputsReady(s)
           /\ processStatus = "success" /\ ~exceptions =>
                  \A s \in submitted \ completed : TooBig(s)
<1>1. mpc = "ret" /\ ~tail /\ offer = NoJob /\ inFlight = 0
    BY DEF MainGiveUp
<1>2. pending = <<>> /\ gpc = "yield"
    BY <1>1 DEF PendingSound
<1>3. Busying = {} /\ tqueue = <<>>
    <2>1. /\ Len(tqueue) \in Nat /\ tqueue \in Seq(Jobs \cup {NoTask})
          /\ 0 = Len(tqueue) + Cardinality(Busying) + 0
        BY <1>1 DEF IInv, TypeOK, InFlightExact, Adding
    <2>2. Cardinality(Busying) = 0 /\ Len(tqueue) = 0
        BY <2>1, BusyFacts
    <2> QED BY <2>1, <2>2, BusyFacts, FS_EmptySet
<1>4. \A s \in Steps \ submitted : ~InputsReady(s)
    <2>1. Tried = Steps
        BY <1>1, <1>2 DEF Tried
    <2>2. \A w \in Workers : wpc[w] \notin {"record", "finish", "finally"}
        BY <1>3 DEF Busying
    <2> QED BY <2>1, <2>2 DEF PassSound
<1>5. ASSUME processStatus = "success", ~exceptions,
             NEW s \in submitted \ completed
      PROVE  TooBig(s)
    <2>1. Somewhere(s)
        BY <1>1, <1>5 DEF AheadSound, Somewhere
    <2>2. Held(s) = {} /\ Queued(s) = {} /\ Waiting(s) = {} /\ ~Offered(s)
        BY <1>1, <1>2, <1>3 DEF Held, Queued, Waiting, Offered
    <2> QED BY <2>1, <2>2 DEF Somewhere, Ahead
<1> QED BY <1>2, <1>3, <1>4, <1>5

LEMMA GaveUpStep ==
    ASSUME IInv, PendingSound, PassSound, AheadSound, GaveUpSound, [Next]_vars
    PROVE  GaveUpSound'
<1> USE DEF wfVars, stepVars, docVars, cbVars, genVars, tqVars, queueVars,
            threadVars, mainVars, resVars, lockVars, jobVars
<1>0. tqueue \in Seq(Jobs \cup {NoTask}) /\ inFlight \in Nat
    BY DEF IInv, TypeOK
<1>1. CASE MainGiveUp
    <2>1. /\ UNCHANGED <<wpc, tqueue, stepVars, processStatus, exceptions>>
          /\ tail' /\ mpc' = "scan"
        BY <1>1 DEF MainGiveUp
    <2>2. \A s : InputsReady(s)' <=> InputsReady(s)
        BY <2>1 DEF InputsReady
    <2> QED BY <1>1, <2>1, <2>2, GiveUpFacts DEF GaveUpSound, Busying
<1>2. CASE ~MainGiveUp /\ ~gaveUp
    <2>1. UNCHANGED gaveUp
        BY <1>2 DEF Next, Finished, vars, MainStep, MainGenerate, MainTake,
            MainTakeEnd, MainTooBig, MainBusy, MainStart, MainScanned, MainPut,
            MainPutFull, MainRetry, MainReacquire, MainNext, MainWait, MainLeave,
            MainWakeRaise, MainWakeNext, MainWakeTail, MainDrain, MainJoin,
            WorkerStep, WorkerGet, WorkerRunWf, WorkerRun, WorkerRaise,
            WorkerCallback, WorkerRecord, WorkerFinish, WorkerFinally, WorkerDec
    <2> QED BY <1>2, <2>1 DEF GaveUpSound
<1>3. CASE gaveUp
    <2>1. /\ tail /\ mpc \in {"scan", "ret", "drain", "join", "done"}
          /\ pending = <<>> /\ Busying = {}
          /\ \A i \in 1..Len(tqueue) : tqueue[i] = NoTask
        BY <1>3 DEF GaveUpSound, PendingSound
    <2>2. mpc = "ret" => inFlight = 0
        <3> SUFFICES ASSUME mpc = "ret" PROVE inFlight = 0
            OBVIOUS
        <3>1. tqueue = <<>>
            BY <1>0, <2>1 DEF IInv, FlowSound
        <3>2. Cardinality(Busying) = 0
            BY <2>1, FS_EmptySet
        <3> QED BY <3>1, <3>2 DEF IInv, InFlightExact, Adding
    <2>3. /\ UNCHANGED <<stepVars, processStatus, exceptions, tail>>
          /\ mpc' \in {"scan", "ret", "drain", "join", "done"}
          /\ Busying' = {}
          /\ \A i \in 1..Len(tqueue') : tqueue'[i] = NoTask
        <3>1. CASE MainScanned \/ MainLeave \/ UNCHANGED vars
            BY <2>1, <3>1 DEF MainScanned, MainLeave, vars, Busying
        <3>2. CASE MainDrain \/ MainJoin
            <4>1. /\ UNCHANGED <<stepVars, processStatus, exceptions, tail, wpc>>
                  /\ mpc' \in {"drain", "join", "done"}
                  /\ \/ UNCHANGED tqueue
                     \/ tqueue' = Append(tqueue, NoTask)
                     \/ tqueue # <<>> /\ tqueue' = Tail(tqueue)
                BY <3>2 DEF MainDrain, MainJoin, DrainOne, JoinPut
            <4>2. \A i \in 1..Len(tqueue') : tqueue'[i] = NoTask
                BY <1>0, <2>1, <4>1
            <4> QED BY <2>1, <4>1, <4>2 DEF Busying
        <3>3. CASE MainStep /\ ~MainScanned /\ ~MainLeave /\ ~MainDrain /\ ~MainJoin
            <4>0. ~(n <= Len(pending))
                BY <2>1 DEF IInv, TypeOK
            <4>1. ~MainTooBig /\ ~MainBusy /\ ~MainStart
                BY <4>0 DEF MainTooBig, MainBusy, MainStart
            <4>2. ~MainNext /\ ~MainGiveUp
                BY <2>1 DEF MainNext, MainGiveUp
            <4>3. ~MainWait
                BY <1>0, <2>2 DEF MainWait
            <4>4. /\ ~MainGenerate /\ ~MainTake /\ ~MainTakeEnd /\ ~MainPut
                  /\ ~MainPutFull /\ ~MainRetry /\ ~MainReacquire
                  /\ ~MainWakeRaise /\ ~MainWakeNext /\ ~MainWakeTail
                BY <2>1 DEF MainGenerate, MainTake, MainTakeEnd, MainPut,
                    MainPutFull, MainRetry, MainReacquire, MainWakeRaise,
                    MainWakeNext, MainWakeTail, WakeUp
            <4> QED BY <3>3, <4>1, <4>2, <4>3, <4>4 DEF MainStep
        <3>4. ASSUME NEW w \in Workers, WorkerStep(w)
              PROVE  /\ UNCHANGED <<stepVars, processStatus, exceptions, tail, mpc>>
                     /\ Busying' = {}
                     /\ \A i \in 1..Len(tqueue') : tqueue'[i] = NoTask
            <4>1. wpc[w] \in {"get", "exit"}
                BY <2>1 DEF Busying
            <4>2. WorkerGet(w)
                BY <3>4, <4>1 DEF WorkerStep, WorkerRunWf, WorkerRun, WorkerRaise,
                    WorkerCallback, WorkerRecord, WorkerFinish, WorkerFinally,
                    WorkerDec, Dec
            <4>3. /\ UNCHANGED <<stepVars, processStatus, exceptions, tail, mpc>>
                  /\ tqueue # <<>> /\ tqueue' = Tail(tqueue)
                BY <4>2 DEF WorkerGet, Get
            <4>4. Head(tqueue) = NoTask
                BY <1>0, <2>1, <4>3
            <4>5. wpc' = [wpc EXCEPT ![w] = "exit"]
                BY <4>2, <4>4 DEF WorkerGet, Get
            <4>6. Busying' = {}
                BY <2>1, <4>5 DEF Busying, IInv, TypeOK
            <4>7. \A i \in 1..Len(tqueue') : tqueue'[i] = NoTask
                BY <1>0, <2>1, <4>3
            <4> QED BY <4>3, <4>6, <4>7
        <3> QED BY <2>1, <3>1, <3>2, <3>3, <3>4 DEF Next, Finished
    <2>4. \A s : InputsReady(s)' <=> InputsReady(s)
        BY <2>3 DEF InputsReady
    <2> QED BY <1>3, <2>1, <2>3, <2>4 DEF GaveUpSound
<1> QED BY <1>1, <1>2, <1>3

THEOREM GaveUpInvariance == ASSUME Ample PROVE Spec => []GaveUpSound
<1>1. Init => GaveUpSound
    BY DEF Init, GaveUpSound
<1>2. IInv /\ PendingSound /\ PassSound /\ AheadSound /\ GaveUpSound /\ [Next]_vars
          => GaveUpSound'
    BY GaveUpStep
<1> QED BY <1>1, <1>2, Invariance, PendingInvariance, PassInvariance,
           AheadInvariance, PTL DEF Spec

\* If no job ever has to wait for resources, run_jobs gives up only when no
\* step is ready and no job is waiting, queued or running.
THEOREM HonestGiveUpHolds == ASSUME Ample PROVE Spec => HonestGiveUp
<1>1. ASSUME IInv, PendingSound, PassSound, AheadSound, [Next]_vars
      PROVE  GiveUpIsFinal \/ UNCHANGED vars
    <2> SUFFICES ASSUME gaveUp', ~gaveUp PROVE GiveUpIsFinal
        BY DEF GiveUpIsFinal
    <2>1. MainGiveUp
        BY <1>1 DEF Next, Finished, vars, MainStep, MainGenerate, MainTake,
            MainTakeEnd, MainTooBig, MainBusy, MainStart, MainScanned, MainPut,
            MainPutFull, MainRetry, MainReacquire, MainNext, MainWait, MainLeave,
            MainWakeRaise, MainWakeNext, MainWakeTail, MainDrain, MainJoin,
            WorkerStep, WorkerGet, WorkerRunWf, WorkerRun, WorkerRaise,
            WorkerCallback, WorkerRecord, WorkerFinish, WorkerFinally, WorkerDec,
            mainVars
    <2>2. /\ Busying = {} /\ tqueue = <<>> /\ pending = <<>>
          /\ \A s \in Steps \ submitted : ~InputsReady(s)
        BY <1>1, <2>1, GiveUpFacts
    <2> QED BY <2>2 DEF GiveUpIsFinal, Waiting, Queued, Held
<1>2. IInv /\ PendingSound /\ PassSound /\ AheadSound /\ [Next]_vars
          => [GiveUpIsFinal]_vars
    BY <1>1
<1> QED BY <1>2, Invariance, PendingInvariance, PassInvariance, AheadInvariance,
           PTL DEF Spec, HonestGiveUp

\* While nothing has failed, a step that is ready is submitted before run_jobs
\* returns, if no job has to wait for resources.
THEOREM ContinueHolds == ASSUME Ample PROVE Spec => []ReadyStepsRun
<1>1. ASSUME IInv, EndSound, GaveUpSound PROVE ReadyStepsRun
    <2> SUFFICES ASSUME mpc = "done", ~raised, processStatus = "success",
                        NEW s \in Steps, InputsReady(s)
                 PROVE  s \in submitted
        BY DEF ReadyStepsRun
    <2>1. gaveUp \/ gpc = "end"
        BY <1>1 DEF EndSound
    <2> QED BY <1>1, <2>1 DEF EndSound, GaveUpSound
<1> QED BY <1>1, Invariance, EndInvariance, GaveUpInvariance, PTL

-----------------------------------------------------------------------------
(* --on-error continue, whatever fails and however long jobs wait. *)

\* The generator passes a step by only when it is submitted, not ready, or
\* impossible to make.
LEMMA ContinueGen ==
    ASSUME IInv, ContinueSound, MainGenerate PROVE ContinueSound'
<1>0. /\ GenRun /\ UNCHANGED <<wpc, wtask, mpc>> /\ mpc = "take"
      /\ NumSteps \in Nat \ {0} /\ gidx \in 1..(NumSteps + 1)
      /\ OnError \in {"stop", "continue"}
    BY NumStepsFacts, StepsAssumption
       DEF MainGenerate, tqVars, threadVars, mainVars, IInv, TypeOK, WfTypeOK
<1> USE DEF stepVars, docVars, cbVars, genVars
<1>1. UNCHANGED <<order, sources>>
    BY <1>0 DEF GenRun, GenLoop, GenForEnd, GenNotReady, GenMake, GenMakeRaises,
        GenSkip, GenYieldJob, GenSum, GenExit
<1>2. gpc' = "yield" /\ offer' \in Steps => madeProgress'
    BY <1>0, StepsAssumption DEF GenRun, GenLoop, GenForEnd, GenNotReady, GenMake,
        GenMakeRaises, CanMake, GenSkip, GenYieldJob, GenSum, GenExit, Jobs
<1>3. \A s : JustStored(s)' <=> JustStored(s)
    BY <1>0, <1>1 DEF JustStored
<1>4. ASSUME OnError = "continue", ~madeProgress', gpc' \in {"step", "sum"},
             NEW s \in PassedBy' \ submitted', InputsReady(s)'
      PROVE  MakeError[s] \in EarlyErrors \/ JustStored(s)
    <2>0. ~Stopping
        BY <1>4 DEF Stopping
    <2>1. CASE GenForEnd
        <3>1. /\ UNCHANGED <<submitted, state, madeProgress>>
              /\ gpc = "step" /\ gpc' = "sum" /\ gidx > NumSteps
            BY <2>0, <2>1 DEF GenForEnd
        <3>2. s \in Steps
            BY <1>4, <3>1 DEF PassedBy
        <3>3. PICK k \in 1..NumSteps : order[k] = s
            BY <3>2 DEF ContinueSound
        <3>4. s \in PassedBy
            BY <1>0, <3>1, <3>3 DEF PassedBy
        <3> QED BY <1>1, <1>4, <3>1, <3>4 DEF ContinueSound, InputsReady
    <2>2. CASE GenNotReady \/ GenMakeRaises
        <3>1. /\ UNCHANGED <<state, madeProgress, gpc>> /\ submitted \subseteq submitted'
              /\ gpc = "step" /\ gidx' = gidx + 1
              /\ \/ CurrentStep \in submitted' \/ ~InputsReady(CurrentStep)
                 \/ MakeError[CurrentStep] \in EarlyErrors
            BY <1>0, <2>2, StepsAssumption
               DEF GenNotReady, GenMakeRaises, CanMake, CurrentStep, LateErrors,
                   EarlyErrors, IInv, TypeOK, WfTypeOK
        <3>2. PICK k \in 1..gidx : order[k] = s
            BY <1>0, <1>1, <1>4, <3>1 DEF PassedBy
        <3>3. CASE k = gidx
            BY <1>1, <1>4, <3>1, <3>2, <3>3 DEF CurrentStep, InputsReady
        <3>4. CASE k # gidx
            <4>1. s \in PassedBy
                BY <1>0, <3>1, <3>2, <3>4 DEF PassedBy
            <4> QED BY <1>1, <1>4, <3>1, <4>1 DEF ContinueSound, InputsReady
        <3> QED BY <3>3, <3>4
    <2>3. CASE GenLoop
        <3>1. gpc' = "step" /\ gidx' = 1
            BY <2>3 DEF GenLoop
        <3> QED BY <1>4, <3>1 DEF PassedBy
    <2>4. CASE GenMake \/ GenSkip \/ GenYieldJob \/ GenSum \/ GenExit
        BY <1>4, <2>0, <2>4 DEF GenMake, GenSkip, GenYieldJob, GenSum, GenExit
    <2> QED BY <1>0, <2>1, <2>2, <2>3, <2>4 DEF GenRun
<1> QED BY <1>0, <1>1, <1>2, <1>3, <1>4 DEF ContinueSound

\* run_jobs itself takes part only between two yields of the generator.
LEMMA ContinueMain ==
    ASSUME IInv, ContinueSound, (MainStep /\ ~MainGenerate) \/ UNCHANGED vars
    PROVE  ContinueSound'
<1> USE DEF wfVars, stepVars, docVars, cbVars, genVars, tqVars, threadVars,
            mainVars, resVars, lockVars, jobVars
<1>1. /\ UNCHANGED <<stepVars, cbVars, wpc, wtask, offer>>
      /\ \/ UNCHANGED <<gpc, gidx>> /\ (UNCHANGED mpc \/ gpc \in {"yield", "end"})
         \/ GenResume /\ mpc' = "take"
    <2>1. CASE MainTake \/ MainTakeEnd
        BY <2>1 DEF MainTake, MainTakeEnd
    <2>2. CASE MainNext \/ MainWakeNext
        BY <2>2 DEF MainNext, MainWakeNext, GenResume
    <2>3. CASE \/ MainTooBig \/ MainBusy \/ MainStart \/ MainScanned \/ MainPut
               \/ MainPutFull \/ MainRetry \/ MainReacquire \/ MainWait
               \/ MainGiveUp \/ MainLeave \/ MainWakeRaise \/ MainWakeTail
               \/ MainDrain \/ MainJoin
        <3>1. mpc # "take" => gpc \in {"yield", "end"}
            BY DEF ContinueSound, IInv, TypeOK, WfTypeOK
        <3>2. mpc # "take"
            BY <2>3 DEF MainTooBig, MainBusy, MainStart, MainScanned, MainPut,
                MainPutFull, MainRetry, MainReacquire, MainWait, MainGiveUp,
                MainLeave, MainWakeRaise, MainWakeTail, MainDrain, MainJoin, WakeUp
        <3>3. UNCHANGED <<stepVars, cbVars, wpc, wtask, offer, gpc, gidx>>
            BY <2>3 DEF MainTooBig, MainBusy, MainStart, MainScanned, MainPut,
                MainPutFull, MainRetry, MainReacquire, MainWait, MainGiveUp,
                MainLeave, MainWakeRaise, MainWakeTail, MainDrain, MainJoin,
                AddCount, AddPut, DrainOne, JoinPut
        <3> QED BY <3>1, <3>2, <3>3
    <2>4. CASE UNCHANGED vars
        BY <2>4 DEF vars
    <2> QED BY <2>1, <2>2, <2>3, <2>4 DEF MainStep
<1>2. \A s : (InputsReady(s)' <=> InputsReady(s)) /\ (JustStored(s)' <=> JustStored(s))
    BY <1>1 DEF InputsReady, JustStored
<1>3. CASE UNCHANGED <<gpc, gidx>> /\ (UNCHANGED mpc \/ gpc \in {"yield", "end"})
    <2>1. PassedBy' = PassedBy
        BY <1>1, <1>3 DEF PassedBy
    <2> QED BY <1>1, <1>2, <1>3, <2>1 DEF ContinueSound
<1>4. CASE GenResume /\ mpc' = "take"
    <2>1. \/ gpc' = "loop"
          \/ gpc' = "step" /\ madeProgress'
        BY <1>1, <1>4 DEF GenResume, ContinueSound
    <2> QED BY <1>1, <1>4, <2>1 DEF ContinueSound
<1> QED BY <1>1, <1>3, <1>4

\* While the generator runs, only an ExpressionJob can store outputs, and it has
\* not recorded them yet: from then on there is progress.
LEMMA ContinueWorker ==
    ASSUME IInv, LockSound, ContinueSound, NEW w \in Workers, WorkerStep(w)
    PROVE  ContinueSound'
<1> USE DEF wfVars, stepVars, docVars, cbVars, genVars, mainVars
<1>0. /\ UNCHANGED <<order, sources, submitted, genVars, mpc>>
      /\ madeProgress => madeProgress'
      /\ wpc \in [Workers -> {"get", "run", "callback", "record", "finish",
                              "finally", "dec", "exit"}]
    BY DEF WorkerStep, WorkerGet, WorkerRunWf, WorkerRun, WorkerRaise,
        WorkerCallback, WorkerRecord, WorkerFinish, WorkerFinally, WorkerDec,
        StoreOutput, RecordStatus, ReceiveFinish, IInv, TypeOK
<1>1. PassedBy' = PassedBy
    BY <1>0 DEF PassedBy
<1>2. ASSUME OnError = "continue", ~madeProgress', gpc \in {"step", "sum"},
             NEW s \in PassedBy \ submitted, InputsReady(s)'
      PROVE  MakeError[s] \in EarlyErrors \/ JustStored(s)'
    <2>1. lock = Main /\ Main \notin Workers /\ Main # Free
        BY <1>2, ExecutorAssumption DEF ContinueSound, LockSound
    <2>2. CASE WorkerCallback(w)
        <3>1. /\ wtask[w] \notin Commands /\ UNCHANGED wtask
              /\ wpc' = [wpc EXCEPT ![w] = "record"]
              /\ state' = [state EXCEPT ![wtask[w]] = Stored(wres[w])]
            BY <2>1, <2>2 DEF WorkerCallback, StoreOutput
        <3>2. wpc'[w] = "record" /\ \A v \in Workers : wpc[v] = "record" => wpc'[v] = "record"
            BY <1>0, <3>1
        <3>3. CASE wtask[w] \in sources[s]
            BY <1>0, <3>1, <3>2, <3>3 DEF JustStored
        <3>4. CASE wtask[w] \notin sources[s]
            <4>1. \A t \in sources[s] : state'[t] = state[t]
                BY <3>1, <3>4 DEF IInv, TypeOK, WfTypeOK
            <4>2. InputsReady(s)
                BY <1>0, <1>2, <4>1 DEF InputsReady
            <4>3. MakeError[s] \in EarlyErrors \/ JustStored(s)
                BY <1>0, <1>2, <4>2 DEF ContinueSound
            <4> QED BY <1>0, <3>1, <3>2, <4>3 DEF JustStored
        <3> QED BY <3>3, <3>4
    <2>3. CASE WorkerRecord(w)
        BY <1>2, <2>3 DEF WorkerRecord, RecordStatus
    <2>4. CASE \/ WorkerGet(w) \/ WorkerRunWf(w) \/ WorkerRun(w) \/ WorkerRaise(w)
               \/ WorkerFinish(w) \/ WorkerFinally(w) \/ WorkerDec(w)
        <3>1. /\ UNCHANGED <<state, madeProgress>>
              /\ wpc[w] # "record"
              /\ \E q : wpc' = [wpc EXCEPT ![w] = q]
              /\ \A v \in Workers \ {w} : wtask'[v] = wtask[v]
            BY <2>4 DEF WorkerGet, Get, WorkerRunWf, WorkerRun, WorkerRaise,
                WorkerFinish, ReceiveFinish, WorkerFinally, WorkerDec, Dec, IInv, TypeOK
        <3>2. \A v \in Workers : wpc[v] = "record" =>
                  wpc'[v] = "record" /\ wtask'[v] = wtask[v]
            BY <1>0, <3>1
        <3>3. MakeError[s] \in EarlyErrors \/ JustStored(s)
            BY <1>0, <1>2, <3>1 DEF ContinueSound, InputsReady
        <3> QED BY <1>0, <3>2, <3>3 DEF JustStored
    <2> QED BY <2>2, <2>3, <2>4 DEF WorkerStep
<1> QED BY <1>0, <1>1, <1>2 DEF ContinueSound

THEOREM ContinueInvariance == Spec => []ContinueSound
<1>1. Init => ContinueSound
    <2> SUFFICES ASSUME Init PROVE ContinueSound
        OBVIOUS
    <2>1. gpc = "yield" /\ offer \notin Steps
        BY StepsAssumption DEF Init, WfInit
    <2>2. \A s \in Steps : \E i \in 1..NumSteps : order[i] = s
        BY DEF Init, WfInit, Bijection, Surjection
    <2> QED BY <2>1, <2>2 DEF ContinueSound
<1>2. IInv /\ LockSound /\ ContinueSound /\ [Next]_vars => ContinueSound'
    BY ContinueGen, ContinueMain, ContinueWorker DEF Next, Finished
<1> QED BY <1>1, <1>2, Invariance, LockInvariance, PTL DEF Spec

\* With --on-error continue, the generator leaves its loop only when no step is
\* left that is ready, can be made, and is not fed at this moment.
THEOREM ContinueRunsReadyHolds == Spec => ContinueRunsReady
<1>1. ASSUME IInv, ContinueSound, [Next]_vars PROVE LeavesNoReadyStep \/ UNCHANGED vars
    <2> SUFFICES ASSUME gpc # "exit", gpc' = "exit", OnError = "continue",
                        NEW s \in Steps \ submitted, InputsReady(s)
                 PROVE  MakeError[s] \in EarlyErrors \/ JustStored(s)
        BY DEF LeavesNoReadyStep
    <2> USE DEF wfVars, stepVars, docVars, cbVars, genVars
    <2>1. GenSum
        BY <1>1 DEF Next, Finished, vars, MainStep, MainGenerate, GenRun, GenLoop,
            GenForEnd, GenNotReady, GenMake, GenMakeRaises, CanMake, GenSkip,
            GenYieldJob, GenExit, GenResume, MainTake, MainTakeEnd, MainTooBig,
            MainBusy, MainStart, MainScanned, MainPut, MainPutFull, MainRetry,
            MainReacquire, MainNext, MainWait, MainGiveUp, MainLeave,
            MainWakeRaise, MainWakeNext, MainWakeTail, MainDrain, MainJoin,
            WorkerStep, WorkerGet, WorkerRunWf, WorkerRun, WorkerRaise,
            WorkerCallback, WorkerRecord, WorkerFinish, WorkerFinally, WorkerDec,
            StoreOutput, RecordStatus, ReceiveFinish
    <2>2. gpc = "sum" /\ (~madeProgress \/ ~(Cardinality(completed) < NumSteps))
        BY <2>1 DEF GenSum
    <2>3. CASE ~madeProgress
        BY <1>1, <2>2, <2>3 DEF ContinueSound, PassedBy
    <2>4. CASE ~(Cardinality(completed) < NumSteps)
        <3>1. completed = Steps
            <4>1. /\ completed \subseteq Steps /\ IsFiniteSet(Steps)
                  /\ NumSteps = Cardinality(Steps)
                BY <1>1, StepsAssumption DEF IInv, TypeOK, WfTypeOK, NumSteps
            <4>2. /\ IsFiniteSet(completed) /\ Cardinality(completed) <= NumSteps
                  /\ Cardinality(completed) = NumSteps => completed = Steps
                  /\ NumSteps \in Nat
                BY <4>1, FS_Subset, FS_CardinalityType
            <4>3. Cardinality(completed) \in Nat
                BY <4>2, FS_CardinalityType
            <4> QED BY <2>4, <4>2, <4>3
        <3> QED BY <1>1, <3>1 DEF IInv, StepSound
    <2> QED BY <2>2, <2>3, <2>4
<1>2. IInv /\ ContinueSound /\ [Next]_vars => [LeavesNoReadyStep]_vars
    BY <1>1
<1> QED BY <1>2, Invariance, ContinueInvariance, PTL DEF Spec, ContinueRunsReady

-----------------------------------------------------------------------------
\* A workflow of commands in which nothing failed and no job had to wait for
\* resources is reported a success, and reported once.
THEOREM SuccessIsReportedHolds ==
    ASSUME Ample, Acyclic, Commands = Steps PROVE Spec => []SuccessIsReported
<1>1. ASSUME IInv, EndSound, ReportsSound, GaveUpSound PROVE SuccessIsReported
    <2> SUFFICES ASSUME mpc = "done", processStatus = "success", ~exceptions,
                        \A s \in Steps : ~TooBig(s)
                 PROVE  Result = "success" /\ Len(final) = 1
        BY DEF SuccessIsReported
    <2>1. gaveUp \/ gpc = "end"
        BY <1>1 DEF EndSound
    <2>2. ASSUME gpc = "end" PROVE final # <<>>
        BY <1>1, <2>2 DEF ReportsSound
    <2>3. ASSUME gaveUp PROVE final # <<>>
        <3>1. /\ submitted \subseteq Steps /\ completed \subseteq submitted
              /\ sources \in Graphs
            BY <1>1 DEF IInv, TypeOK, WfTypeOK, EndSound
        <3>2. submitted \subseteq completed
            BY <1>1, <2>3, <3>1 DEF GaveUpSound
        <3>3. submitted = Steps
            <4> SUFFICES ASSUME submitted # Steps PROVE FALSE
                OBVIOUS
            <4> DEFINE later == Steps \ submitted
            <4>1. later \in SUBSET Steps /\ later # {}
                BY <3>1
            <4>2. PICK s \in later : sources[s] \cap later = {}
                <5> HIDE DEF later
                <5> QED BY <3>1, <4>1, Acyclic DEF Acyclic
            <4>3. sources[s] \subseteq Steps
                BY <3>1, StepsAssumption
            <4>4. \A t \in sources[s] : t \in completed
                BY <3>2, <4>2, <4>3
            <4>5. InputsReady(s)
                BY <1>1, <4>4 DEF IInv, StatusSound, InputsReady
            <4> QED BY <1>1, <2>3, <4>2, <4>5 DEF GaveUpSound
        <3>4. completed = Steps /\ \A w \in Workers : wpc[w] # "finish"
            BY <1>1, <2>3, <3>1, <3>2, <3>3 DEF GaveUpSound, Busying
        <3> QED BY <1>1, <3>4 DEF ReportsSound
    <2>4. final = <<"success">>
        BY <1>1, <2>1, <2>2, <2>3 DEF ReportsSound
    <2> QED BY <2>4 DEF Result
<1> QED BY <1>1, Invariance, EndInvariance, ReportsInvariance, GaveUpInvariance,
           PTL
=============================================================================
