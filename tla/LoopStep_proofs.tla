-------------------------- MODULE LoopStep_proofs --------------------------
(***************************************************************************)
(* Theorems about LoopStep, for loops of any length whose jobs call back   *)
(* with workflow_eval_lock.                                                *)
(***************************************************************************)
EXTENDS LoopStep, SequenceTheorems, TLAPS

LEMMA AppendFacts ==
    ASSUME NEW S, NEW s \in Seq(S), NEW e \in S
    PROVE  /\ Append(s, e) \in Seq(S) /\ Len(Append(s, e)) = Len(s) + 1
           /\ \A k \in 1..Len(s) : Append(s, e)[k] = s[k]
           /\ Append(s, e)[Len(s) + 1] = e
    OBVIOUS

LEMMA EmptyReports ==
    ASSUME reports' = <<>>
    PROVE  FailureKept'
<1>1. Len(reports') = 0
    OBVIOUS
<1> QED BY <1>1 DEF FailureKept

\* What the types say of the jobs, without sequences.
LEMMA Shapes ==
    ASSUME TypeOK
    PROVE  /\ NumRuns \in Nat /\ NumRuns = Len(jobs)
           /\ NumRuns = Len(inputs) /\ NumRuns = Len(ended)
           /\ \A k \in 1..NumRuns : jobs[k] \in JobStates /\ ended[k] \in Ends
<1>1. jobs \in Seq(JobStates) /\ ended \in Seq(Ends)
      /\ Len(inputs) = Len(jobs) /\ Len(ended) = Len(jobs)
    BY DEF TypeOK, NumRuns
<1>2. Len(jobs) \in Nat /\ \A k \in 1..Len(jobs) : jobs[k] \in JobStates
    BY <1>1, LenProperties, ElementOfSeq
<1>3. \A k \in 1..Len(ended) : ended[k] \in Ends
    BY <1>1, ElementOfSeq
<1> QED BY <1>1, <1>2, <1>3 DEF NumRuns

LEMMA Initially == Init => IInv
<1> SUFFICES ASSUME Init PROVE IInv
    OBVIOUS
<1>1. Len(jobs) = 0 /\ Len(inputs) = 0 /\ Len(ended) = 0 /\ Len(reports) = 0
    BY DEF Init
<1>2. /\ jobs \in Seq(JobStates) /\ inputs \in Seq(Nat) /\ ended \in Seq(Ends)
      /\ reports \in Seq(Statuses)
    BY EmptySeq DEF Init
<1>3. limit \in Nat /\ badWhen \in Nat
    BY LoopAssumption DEF Init
<1>4. TypeOK
    BY <1>1, <1>2, <1>3 DEF Init, TypeOK, NumRuns, Statuses
<1>5. FreshInputs /\ LastUnderWay /\ OrderSound
    BY <1>1 DEF Init, FreshInputs, LastUnderWay, OrderSound, NumRuns
<1>6. FailureSeen /\ FailureKept
    BY <1>1 DEF Init, FailureSeen, FailureKept, NumRuns
<1> QED BY <1>4, <1>5, <1>6 DEF IInv

\* The generator yields the job of one more iteration.
LEMMA IterateKeeps == ASSUME WithLock, IInv, Iterate PROVE IInv'
<1>1. TypeOK /\ NumRuns \in Nat
    BY Shapes DEF IInv
<1>2. "running" \in JobStates /\ joborder \in Nat /\ "none" \in Ends
    BY <1>1 DEF TypeOK, JobStates, Ends
<1>3. /\ jobs' \in Seq(JobStates) /\ Len(jobs') = NumRuns + 1
      /\ jobs'[NumRuns + 1] = "running"
      /\ \A k \in 1..NumRuns : jobs'[k] = jobs[k]
    <2>1. jobs \in Seq(JobStates) /\ NumRuns = Len(jobs) /\ jobs' = Append(jobs, "running")
        BY <1>1 DEF TypeOK, Iterate, NumRuns
    <2> QED BY <1>2, <2>1, AppendFacts
<1>4. /\ inputs' \in Seq(Nat) /\ Len(inputs') = NumRuns + 1
      /\ inputs'[NumRuns + 1] = joborder
      /\ \A k \in 1..NumRuns : inputs'[k] = inputs[k]
    <2>1. inputs \in Seq(Nat) /\ NumRuns = Len(inputs) /\ inputs' = Append(inputs, joborder)
        BY <1>1 DEF TypeOK, Iterate
    <2> QED BY <1>2, <2>1, AppendFacts
<1>5. /\ ended' \in Seq(Ends) /\ Len(ended') = NumRuns + 1
      /\ ended'[NumRuns + 1] = "none"
      /\ \A k \in 1..NumRuns : ended'[k] = ended[k]
    <2>1. ended \in Seq(Ends) /\ NumRuns = Len(ended) /\ ended' = Append(ended, "none")
        BY <1>1 DEF TypeOK, Iterate
    <2> QED BY <1>2, <2>1, AppendFacts
<1>6. TypeOK'
    BY <1>1, <1>3, <1>4, <1>5 DEF TypeOK, Iterate, NumRuns, docVars, Statuses, Ends
<1>7. \A k \in 1..NumRuns : jobs[k] = "done"
    BY DEF IInv, LastUnderWay, Iterate
<1>8. joborder = NumRuns /\ ~aborted
    <2>1. NumRuns > 0 => NumRuns \in 1..NumRuns
        BY <1>1
    <2>2. NumRuns > 0 => jobs[NumRuns] = "done"
        BY <1>7, <2>1
    <2>3. gen = "when"
        BY DEF Iterate
    <2> QED BY <1>1, <2>2, <2>3 DEF IInv, OrderSound
<1>9. NumRuns' = NumRuns + 1
    BY <1>3 DEF NumRuns
<1>10. FreshInputs'
    BY <1>1, <1>4, <1>8, Shapes DEF IInv, FreshInputs
<1>11. LastUnderWay' /\ OrderSound'
    <2>1. gen' = "poll" /\ processStatus' = "" /\ aborted' = aborted /\ joborder' = joborder
        BY DEF Iterate
    <2>2. LastUnderWay'
        <3>1. \A k \in 1..(NumRuns + 1) : k = NumRuns + 1 \/ k \in 1..NumRuns
            BY <1>1
        <3>2. \A k \in 1..(NumRuns + 1) : jobs'[k] # "done" => k = NumRuns + 1
            BY <1>3, <1>7, <3>1
        <3>3. NumRuns' > 0
            BY <1>1, <1>9
        <3>4. jobs'[NumRuns + 1] = "running"
            BY <1>3
        <3>5. jobs'[NumRuns'] = "running"
            BY <1>9, <3>4
        <3>6. \A k \in 1..NumRuns' : jobs'[k] # "done" => k = NumRuns' /\ gen' = "poll"
            BY <1>9, <2>1, <3>2
        <3> QED BY <2>1, <3>3, <3>5, <3>6 DEF LastUnderWay
    <2>3. OrderSound'
        <3>1. ~aborted' /\ joborder' = joborder
            BY <1>8, <2>1
        <3>2. joborder = NumRuns /\ jobs'[NumRuns + 1] = "running"
            BY <1>3, <1>8
        <3>3. NumRuns' > 0 /\ jobs'[NumRuns'] # "done" /\ joborder' = NumRuns' - 1
            BY <1>1, <1>9, <3>1, <3>2
        <3> QED BY <3>1, <3>3 DEF OrderSound
    <2> QED BY <2>2, <2>3
<1>12. \A k \in 1..NumRuns : Harmless(k) /\ Harmless(k)'
    BY <1>5 DEF IInv, FailureSeen, Harmless, Fatal, Iterate, docVars
<1>13. FailureSeen'
    <2>1. gen' = "poll" /\ reports' = <<>>
        BY DEF IInv, FailureSeen, Iterate
    <2> QED BY <1>1, <1>3, <1>9, <1>12, <2>1 DEF FailureSeen
<1>14. reports = <<>> /\ reports' = <<>>
    BY DEF IInv, FailureSeen, Iterate
<1>15. FailureKept'
    BY <1>14, EmptyReports
<1> QED BY <1>6, <1>10, <1>11, <1>13, <1>15 DEF IInv

\* The other steps of the generator leave the jobs alone, none of which is
\* under way.
LEMMA GenKeeps == ASSUME WithLock, IInv, Leave \/ WhenRaises \/ Poll PROVE IInv'
<1>1. /\ TypeOK /\ NumRuns \in Nat /\ NumRuns = Len(jobs)
      /\ \A k \in 1..NumRuns : jobs[k] \in JobStates
    BY Shapes DEF IInv
<1>2. /\ UNCHANGED <<usesOutputs, limit, badWhen, joborder, iteration, jobs,
                     inputs, ended, aborted, NumRuns>>
      /\ gen \in {"when", "poll"} /\ gen' # "poll" /\ gen' \in {"when", "end", "raised"}
    BY DEF Leave, WhenRaises, Poll, NumRuns, docVars, jobVars
<1>3. \A k \in 1..NumRuns : jobs[k] = "done"
    <2>1. CASE gen = "when"
        BY <2>1 DEF IInv, LastUnderWay
    <2>2. CASE gen = "poll"
        <3>1. processStatus # "" /\ \A k \in 1..NumRuns : jobs[k] # "callback"
            BY <2>2 DEF Leave, WhenRaises, Poll, GenMayRun, NumRuns
        <3> QED BY <1>1, <2>2, <3>1 DEF IInv, LastUnderWay, JobStates
    <2> QED BY <1>2, <2>1, <2>2
<1>4. LastUnderWay' /\ FreshInputs'
    BY <1>2, <1>3 DEF IInv, LastUnderWay, FreshInputs
<1>5. OrderSound'
    BY <1>2 DEF IInv, OrderSound, Leave, WhenRaises, Poll
<1>6. /\ reports = <<>>
      /\ reports' = <<>> \/ \E r \in Statuses : reports' = <<r>>
    <2>1. reports = <<>> /\ processStatus \in Statuses /\ "permanentFail" \in Statuses
        BY <1>1, <1>2 DEF IInv, TypeOK, FailureSeen, Statuses
    <2>2. \/ reports' = reports \/ reports' = Append(reports, processStatus)
          \/ reports' = Append(reports, "permanentFail")
        BY DEF Leave, WhenRaises, Poll
    <2> QED BY <2>1, <2>2
<1>7. reports' \in Seq(Statuses)
    <2>1. CASE reports' = <<>>
        BY <2>1
    <2>2. ASSUME NEW r \in Statuses, reports' = <<r>> PROVE reports' \in Seq(Statuses)
        BY <2>2
    <2> QED BY <1>6, <2>1, <2>2
<1>8. TypeOK'
    BY <1>1, <1>2, <1>7 DEF TypeOK, Statuses, Leave, WhenRaises, Poll
<1>9. /\ \A k \in 1..NumRuns : Harmless(k)' <=> Harmless(k)
      /\ gen = "when" \/ processStatus # "permanentFail"
           => \A k \in 1..NumRuns : Harmless(k)
    BY <1>1, <1>2, <1>3 DEF IInv, FailureSeen, Harmless, Fatal
<1>10. FailureSeen'
    <2>1. /\ gen' = "when" => reports' = <<>> /\ processStatus # "permanentFail"
          /\ processStatus' = processStatus \/ processStatus' = "permanentFail"
        BY <1>6 DEF Leave, WhenRaises, Poll
    <2> QED BY <1>1, <1>2, <1>3, <1>9, <2>1 DEF IInv, FailureSeen
<1>11. FailureKept'
    <2>1. ASSUME NEW i \in 1..Len(reports'), reports'[i] = "success"
          PROVE  gen = "when"
        <3>1. reports' # reports
            <4>1. Len(<<>>) = 0
                OBVIOUS
            <4> QED BY <1>6, <2>1, <4>1
        <3>2. CASE gen = "poll"
            <4>1. reports' = Append(<<>>, "permanentFail")
                BY <1>6, <3>1, <3>2 DEF Leave, WhenRaises, Poll
            <4>2. Len(reports') = 1 /\ reports'[1] = "permanentFail"
                BY <4>1
            <4> QED BY <2>1, <4>2
        <3> QED BY <1>2, <3>2
    <2>2. Len(ended') = NumRuns
        BY <1>1, <1>2, Shapes
    <2> QED BY <1>9, <2>1, <2>2 DEF FailureKept, Harmless
<1> QED BY <1>4, <1>5, <1>8, <1>10, <1>11 DEF IInv

\* A job that has not called back is the last, and its generator polls.
LEMMA UnderWay ==
    ASSUME IInv, NEW k \in 1..Len(jobs), jobs[k] # "done"
    PROVE  /\ TypeOK /\ k = NumRuns /\ NumRuns \in Nat /\ NumRuns > 0
           /\ gen = "poll" /\ reports = <<>>
    BY Shapes DEF IInv, LastUnderWay, FailureSeen, NumRuns

LEMMA StatusKeeps ==
    ASSUME IInv, NEW k \in 1..Len(jobs), CallbackStatus(k) PROVE IInv'
<1>1. /\ TypeOK /\ k = NumRuns /\ NumRuns \in Nat /\ NumRuns > 0
      /\ gen = "poll" /\ reports = <<>> /\ processStatus = ""
    BY UnderWay DEF CallbackStatus, IInv, LastUnderWay
<1>num. k = NumRuns /\ NumRuns \in Nat /\ NumRuns > 0
    BY <1>1
<1>2. PICK res \in Outcomes : /\ ended' = [ended EXCEPT ![k] = res]
                              /\ processStatus' = Judged(res)
    BY <1>1 DEF CallbackStatus
<1>3. /\ res \in Ends /\ "callback" \in JobStates
      /\ res \in {"success", "temporaryFail", "permanentFail", "missing"}
      /\ processStatus' \in {"success", "temporaryFail", "permanentFail"}
    BY <1>2, LoopAssumption DEF Judged, Ends, JobStates
<1>4. /\ jobs' \in Seq(JobStates) /\ Len(jobs') = NumRuns /\ jobs'[k] = "callback"
      /\ \A i \in 1..NumRuns : i # k => jobs'[i] = jobs[i]
    <2>1. jobs \in Seq(JobStates) /\ NumRuns = Len(jobs)
          /\ jobs' = [jobs EXCEPT ![k] = "callback"]
        BY <1>1 DEF TypeOK, CallbackStatus, NumRuns
    <2> QED BY <1>3, <2>1, ExceptSeq
<1>5. /\ ended' \in Seq(Ends) /\ Len(ended') = NumRuns /\ ended'[k] = res
      /\ \A i \in 1..NumRuns : i # k => ended'[i] = ended[i]
    <2>1. ended \in Seq(Ends) /\ NumRuns = Len(ended) /\ k \in 1..Len(ended)
        BY <1>1 DEF TypeOK, NumRuns
    <2> QED BY <1>2, <1>3, <2>1, ExceptSeq
<1>6. NumRuns' = NumRuns
    BY <1>4 DEF NumRuns
<1>7. TypeOK'
    <2>1. iteration' \in Nat /\ Len(inputs') = NumRuns
        <3>1. iteration \in Nat /\ Len(inputs) = NumRuns
            BY <1>1 DEF TypeOK
        <3>2. iteration' = iteration + 1 /\ inputs' = inputs
            BY DEF CallbackStatus
        <3> QED BY <3>1, <3>2
    <2>2. processStatus' \in Statuses
        BY <1>3 DEF Statuses
    <2>3. UNCHANGED <<usesOutputs, limit, badWhen, joborder, gen, inputs, aborted, reports>>
        BY DEF CallbackStatus, docVars
    <2> QED BY <1>1, <1>4, <1>5, <1>6, <2>1, <2>2, <2>3 DEF TypeOK
<1>8. FreshInputs'
    BY DEF IInv, FreshInputs, CallbackStatus
<1>9. LastUnderWay' /\ OrderSound'
    BY <1>1, <1>3, <1>4, <1>6 DEF IInv, LastUnderWay, OrderSound, CallbackStatus
<1>10. \A i \in 1..(NumRuns - 1) : Harmless(i)'
    <2>1. ASSUME NEW i \in 1..(NumRuns - 1) PROVE Harmless(i)'
        <3>1. i \in 1..NumRuns /\ i # k
            BY <1>num
        <3>2. ended'[i] = ended[i]
            BY <1>5, <3>1
        <3>3. Harmless(i) /\ usesOutputs' = usesOutputs
            BY DEF IInv, FailureSeen, CallbackStatus, docVars
        <3> QED BY <3>2, <3>3 DEF Harmless, Fatal
    <2> QED BY <2>1
<1>11. FailureSeen'
    BY <1>1, <1>2, <1>3, <1>4, <1>5, <1>6, <1>10
    DEF FailureSeen, Judged, CallbackStatus
<1>12. FailureKept'
    BY <1>1, EmptyReports DEF CallbackStatus
<1> QED BY <1>7, <1>8, <1>9, <1>11, <1>12 DEF IInv

LEMMA OrderKeeps ==
    ASSUME IInv, NEW k \in 1..Len(jobs), CallbackOrder(k) PROVE IInv'
<1>1. /\ TypeOK /\ k = NumRuns /\ NumRuns \in Nat /\ NumRuns > 0
      /\ gen = "poll" /\ reports = <<>> /\ processStatus # ""
    BY UnderWay DEF CallbackOrder, IInv, LastUnderWay
<1>num. k = NumRuns /\ NumRuns \in Nat /\ NumRuns > 0
    BY <1>1
<1>2. "done" \in JobStates
    BY DEF JobStates
<1>3. /\ jobs' \in Seq(JobStates) /\ Len(jobs') = NumRuns /\ jobs'[k] = "done"
      /\ \A i \in 1..NumRuns : i # k => jobs'[i] = jobs[i]
    <2>1. jobs \in Seq(JobStates) /\ NumRuns = Len(jobs)
          /\ jobs' = [jobs EXCEPT ![k] = "done"]
        BY <1>1 DEF TypeOK, CallbackOrder, NumRuns
    <2> QED BY <1>2, <2>1, ExceptSeq
<1>4. ended[k] \in {"none", "success", "temporaryFail", "permanentFail", "missing"}
    BY <1>1, Shapes, LoopAssumption DEF Ends
<1>5. NumRuns' = NumRuns
    BY <1>3 DEF NumRuns
<1>6. TypeOK'
    <2>1. joborder' \in Nat /\ aborted' \in BOOLEAN
        <3>1. joborder \in Nat /\ aborted \in BOOLEAN
            BY <1>1 DEF TypeOK
        <3>2. \/ joborder' = joborder /\ aborted' = TRUE
              \/ joborder' = joborder + 1 /\ aborted' = aborted
            BY DEF CallbackOrder
        <3>3. joborder' = joborder \/ joborder' = joborder + 1
            BY <3>2
        <3>4. joborder' \in Nat
            BY <3>1, <3>3
        <3>5. aborted' \in BOOLEAN
            BY <3>1, <3>2, Zenon
        <3> QED BY <3>4, <3>5
    <2>2. processStatus' \in Statuses
        BY <1>1 DEF TypeOK, CallbackOrder, Statuses
    <2>3. UNCHANGED <<usesOutputs, limit, badWhen, iteration, gen, inputs, ended, reports>>
        BY DEF CallbackOrder, docVars
    <2> QED BY <1>1, <1>3, <1>5, <2>1, <2>2, <2>3 DEF TypeOK
<1>7. FreshInputs'
    BY DEF IInv, FreshInputs, CallbackOrder
<1>8. LastUnderWay' /\ OrderSound'
    <2>1. \A i \in 1..NumRuns : i # k => jobs[i] = "done"
        BY <1>1 DEF IInv, LastUnderWay
    <2>2. /\ processStatus' # "" /\ gen' = "poll"
          /\ aborted' => aborted \/ processStatus' = "permanentFail"
          /\ ~aborted' => ~aborted /\ joborder' = joborder + 1
          /\ aborted => processStatus' = "permanentFail" \/ aborted' = aborted
        BY <1>1 DEF CallbackOrder, IInv, TypeOK
    <2>3. LastUnderWay'
        BY <1>1, <1>3, <1>5, <2>1, <2>2 DEF LastUnderWay
    <2>4. processStatus = "permanentFail" => processStatus' = "permanentFail"
        BY DEF CallbackOrder
    <2>5. ~aborted => joborder = NumRuns - 1
        BY <1>1 DEF IInv, OrderSound, CallbackOrder
    <2>6. aborted' => processStatus' = "permanentFail"
        BY <2>2, <2>4 DEF IInv, OrderSound
    <2>7. ASSUME ~aborted'
          PROVE  joborder' = IF NumRuns' > 0 /\ jobs'[NumRuns'] # "done"
                             THEN NumRuns' - 1 ELSE NumRuns'
        <3>1. joborder = NumRuns - 1 /\ joborder' = joborder + 1
            BY <2>2, <2>5, <2>7
        <3>2. jobs'[NumRuns] = "done"
            BY <1>3, <1>num
        <3> QED BY <1>5, <1>num, <3>1, <3>2
    <2>8. OrderSound'
        BY <2>2, <2>6, <2>7 DEF OrderSound
    <2> QED BY <2>3, <2>8
<1>9. \A i \in 1..NumRuns : Harmless(i)' <=> Harmless(i)
    BY DEF Harmless, Fatal, CallbackOrder, docVars
<1>10. processStatus' # "permanentFail" => Harmless(k)
    <2>1. processStatus # "permanentFail" => ended[k] \notin {"permanentFail", "missing"}
        BY <1>1 DEF IInv, FailureSeen, CallbackOrder
    <2> QED BY <1>4, <2>1 DEF CallbackOrder, Harmless, Fatal
<1>11. FailureSeen'
    <2>1. gen' = "poll" /\ reports' = <<>> /\ \A i \in 1..(NumRuns - 1) : Harmless(i)
        BY <1>1 DEF IInv, FailureSeen, CallbackOrder
    <2>2. \A i \in 1..(NumRuns - 1) : i \in 1..NumRuns
        BY <1>num
    <2>3. \A i \in 1..(NumRuns - 1) : Harmless(i)'
        BY <1>9, <2>1, <2>2
    <2>4. k \in 1..NumRuns
        BY <1>num
    <2> QED BY <1>1, <1>3, <1>5, <1>9, <1>10, <2>1, <2>3, <2>4 DEF FailureSeen
<1>12. FailureKept'
    BY <1>1, EmptyReports DEF CallbackOrder
<1> QED BY <1>6, <1>7, <1>8, <1>11, <1>12 DEF IInv

LEMMA StutterKeeps == ASSUME IInv, UNCHANGED vars PROVE IInv'
    BY DEF IInv, TypeOK, FreshInputs, LastUnderWay, OrderSound, FailureSeen,
           FailureKept, Harmless, Fatal, NumRuns, vars, docVars, jobVars

\* The invariant holds of every loop whose jobs call back with the lock,
\* however long 'when' stays true.
THEOREM Invariance == ASSUME WithLock PROVE Spec => []IInv
<1>1. IInv /\ [Next]_vars => IInv'
    BY IterateKeeps, GenKeeps, StatusKeeps, OrderKeeps, StutterKeeps
    DEF Next, GenStep, Callback
<1> QED BY <1>1, Initially, PTL DEF Spec

\* Every iteration runs on the outputs of the one before it: polling the
\* status that loop_callback writes before the joborder is safe under the lock.
THEOREM FreshInputsHolds == ASSUME WithLock PROVE Spec => []FreshInputs
<1>1. IInv => FreshInputs
    BY DEF IInv
<1> QED BY <1>1, Invariance, PTL

\* No job of the loop runs beside another or outlives the report of the step.
THEOREM OneAtATimeHolds == ASSUME WithLock PROVE Spec => []OneAtATime
<1>1. IInv => OneAtATime
    BY DEF IInv, LastUnderWay, FailureSeen, OneAtATime, NumRuns
<1> QED BY <1>1, Invariance, PTL

\* The step is not reported a success over an iteration that failed, although
\* loop_callback overwrites the status of the iteration before.
THEOREM FailureKeptHolds == ASSUME WithLock PROVE Spec => []FailureKept
<1>1. IInv => FailureKept
    BY DEF IInv
<1> QED BY <1>1, Invariance, PTL
=============================================================================
