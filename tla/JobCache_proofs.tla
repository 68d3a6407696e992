-------------------------- MODULE JobCache_proofs --------------------------
(***************************************************************************)
(* Theorems about JobCache, for any set of jobs and processes.             *)
(***************************************************************************)
EXTENDS JobCache, TLAPS

LEMMA Initially == Init => IInv
<1> SUFFICES ASSUME Init PROVE IInv
    OBVIOUS
<1>1. TypeOK
    <2>1. crashes \in 0..MaxCrashes
        <3>1. crashes = 0 /\ MaxCrashes \in Nat
            BY CacheAssumption DEF Init
        <3> QED BY <3>1
    <2> QED BY <2>1 DEF Init, TypeOK
<1>2. LocksSound
    BY CacheAssumption DEF Init, LocksSound, Filling
<1>3. ContentSound /\ StatusHonest
    BY DEF Init, ContentSound, StatusHonest
<1> QED BY <1>1, <1>2, <1>3 DEF IInv

\* How pc changes in a step of one client.
LEMMA StepFacts ==
    ASSUME TypeOK, NEW c \in Clients, NEW from, NEW to, Step(c, from, to)
    PROVE  /\ pc[c] = from /\ pc'[c] = to
           /\ \A d \in Clients : d # c => pc'[d] = pc[d]
    BY DEF TypeOK, Step

LEMMA BeginKeeps == ASSUME IInv, NEW c \in Clients, Begin(c) PROVE IInv'
<1>1. /\ TypeOK /\ Step(c, "new", "share")
      /\ UNCHANGED <<content, status, shared, exclusive, crashes>>
    BY DEF IInv, Begin, fileVars, lockVars
<1>2. pc[c] = "new" /\ pc'[c] = "share" /\ \A d \in Clients : d # c => pc'[d] = pc[d]
    BY <1>1, StepFacts
<1>3. TypeOK'
    BY <1>1 DEF TypeOK, Begin, Step
<1>4. LocksSound'
    BY <1>1, <1>2 DEF IInv, LocksSound, Filling, IsThreaded
<1>5. ContentSound' /\ StatusHonest'
    BY <1>1, <1>2 DEF IInv, ContentSound, StatusHonest, Undisturbed
<1> QED BY <1>3, <1>4, <1>5 DEF IInv

LEMMA ShareKeeps == ASSUME IInv, NEW c \in Clients, Share(c) PROVE IInv'
<1>1. /\ TypeOK /\ Step(c, "share", "read") /\ exclusive = Nobody
      /\ shared' = shared \cup {c}
      /\ UNCHANGED <<content, status, exclusive, crashes>>
    BY DEF IInv, Share, fileVars
<1>2. pc[c] = "share" /\ pc'[c] = "read" /\ \A d \in Clients : d # c => pc'[d] = pc[d]
    BY <1>1, StepFacts
<1>3. TypeOK'
    BY <1>1 DEF TypeOK, Share, Step
<1>4. LocksSound'
    BY <1>1, <1>2 DEF IInv, LocksSound, Filling, IsThreaded
<1>5. ContentSound' /\ StatusHonest'
    BY <1>1, <1>2 DEF IInv, ContentSound, StatusHonest, Undisturbed
<1> QED BY <1>3, <1>4, <1>5 DEF IInv

\* The client reads the status with the shared lock, so nobody is filling the
\* directory that the status describes.
LEMMA ReadHitKeeps == ASSUME IInv, NEW c \in Clients, ReadHit(c) PROVE IInv'
<1>1. /\ TypeOK /\ Step(c, "read", "collect") /\ status = "success"
      /\ UNCHANGED <<content, status, shared, exclusive, crashes>>
    BY DEF IInv, ReadHit, Hit, fileVars, lockVars
<1>2. pc[c] = "read" /\ pc'[c] = "collect" /\ \A d \in Clients : d # c => pc'[d] = pc[d]
    BY <1>1, StepFacts
<1>3. TypeOK'
    BY <1>1 DEF TypeOK, ReadHit, Step
<1>4. c \in shared /\ exclusive = Nobody
    BY <1>2 DEF IInv, LocksSound
<1>5. LocksSound'
    BY <1>1, <1>2, <1>4 DEF IInv, LocksSound, Filling, IsThreaded
<1>6. Undisturbed => content = "complete"
    BY <1>1, <1>4 DEF IInv, StatusHonest
<1>7. ContentSound' /\ StatusHonest'
    BY <1>1, <1>2, <1>6 DEF IInv, ContentSound, StatusHonest, Undisturbed
<1> QED BY <1>3, <1>5, <1>7 DEF IInv

LEMMA ReadMissKeeps == ASSUME IInv, NEW c \in Clients, ReadMiss(c) PROVE IInv'
<1>1. /\ TypeOK /\ Step(c, "read", "upgrade") /\ shared' = shared \ {c}
      /\ UNCHANGED <<content, status, exclusive, crashes>>
    BY DEF IInv, ReadMiss, fileVars
<1>2. pc[c] = "read" /\ pc'[c] = "upgrade" /\ \A d \in Clients : d # c => pc'[d] = pc[d]
    BY <1>1, StepFacts
<1>3. TypeOK'
    BY <1>1 DEF TypeOK, ReadMiss, Step
<1>4. LocksSound'
    BY <1>1, <1>2 DEF IInv, LocksSound, Filling, IsThreaded
<1>5. ContentSound' /\ StatusHonest'
    BY <1>1, <1>2 DEF IInv, ContentSound, StatusHonest, Undisturbed
<1> QED BY <1>3, <1>4, <1>5 DEF IInv

LEMMA UpgradeKeeps == ASSUME IInv, NEW c \in Clients, Upgrade(c) PROVE IInv'
<1>1. /\ TypeOK /\ Step(c, "upgrade", "clear")
      /\ exclusive = Nobody /\ shared = {} /\ exclusive' = c
      /\ UNCHANGED <<content, status, shared, crashes>>
    BY DEF IInv, Upgrade, CanUpgrade, fileVars
<1>2. pc[c] = "upgrade" /\ pc'[c] = "clear" /\ \A d \in Clients : d # c => pc'[d] = pc[d]
    BY <1>1, StepFacts
<1>3. c # Nobody
    BY CacheAssumption
<1>4. TypeOK'
    BY <1>1 DEF TypeOK, Upgrade, Step
<1>5. LocksSound'
    BY <1>1, <1>2, <1>3, CacheAssumption DEF IInv, LocksSound, Filling, IsThreaded
<1>6. ContentSound' /\ StatusHonest'
    BY <1>1, <1>2, <1>3 DEF IInv, ContentSound, StatusHonest, Undisturbed
<1> QED BY <1>4, <1>5, <1>6 DEF IInv

\* A client that fills the directory has it to itself.
LEMMA FillerAlone ==
    ASSUME IInv, NEW c \in Clients, pc[c] \in Filling
    PROVE  /\ exclusive = c /\ exclusive # Nobody /\ shared = {}
           /\ \A d \in Clients : pc[d] \in Filling => d = c
    BY CacheAssumption DEF IInv, LocksSound

LEMMA ClearKeeps == ASSUME IInv, NEW c \in Clients, Clear(c) PROVE IInv'
<1>1. /\ TypeOK /\ Step(c, "clear", "run") /\ content' = "partial"
      /\ UNCHANGED <<status, shared, exclusive, crashes>>
    BY DEF IInv, Clear, lockVars
<1>2. pc[c] = "clear" /\ pc'[c] = "run" /\ \A d \in Clients : d # c => pc'[d] = pc[d]
    BY <1>1, StepFacts
<1>3. /\ exclusive = c /\ exclusive # Nobody /\ shared = {}
      /\ \A d \in Clients : pc[d] \in Filling => d = c
    BY <1>2, FillerAlone DEF Filling
<1>4. TypeOK'
    BY <1>1 DEF TypeOK, Clear, Step
<1>5. LocksSound'
    BY <1>1, <1>2, <1>3 DEF IInv, LocksSound, Filling, IsThreaded
<1>6. ContentSound' /\ StatusHonest'
    BY <1>1, <1>2, <1>3 DEF ContentSound, StatusHonest, Filling, Undisturbed
<1> QED BY <1>4, <1>5, <1>6 DEF IInv

LEMMA MakeRaisesKeeps == ASSUME IInv, NEW c \in Clients, MakeRaises(c) PROVE IInv'
<1>1. /\ TypeOK /\ Step(c, "clear", "raised") /\ exclusive' = Nobody
      /\ content' = "partial" /\ UNCHANGED <<status, shared, crashes>>
    BY DEF IInv, MakeRaises
<1>2. pc[c] = "clear" /\ pc'[c] = "raised" /\ \A d \in Clients : d # c => pc'[d] = pc[d]
    BY <1>1, StepFacts
<1>3. /\ exclusive = c /\ exclusive # Nobody /\ shared = {}
      /\ \A d \in Clients : pc[d] \in Filling => d = c
    BY <1>2, FillerAlone DEF Filling
<1>4. TypeOK'
    BY <1>1 DEF TypeOK, MakeRaises, Step
<1>5. LocksSound'
    BY <1>1, <1>2, <1>3, CacheAssumption DEF IInv, LocksSound, Filling, IsThreaded
<1>6. ContentSound' /\ StatusHonest'
    BY <1>1, <1>2, <1>3 DEF ContentSound, StatusHonest, Undisturbed, Filling
<1> QED BY <1>4, <1>5, <1>6 DEF IInv

LEMMA RunKeeps == ASSUME IInv, NEW c \in Clients, Run(c) PROVE IInv'
<1>1. TypeOK /\ UNCHANGED <<status, shared, exclusive, evalLock, crashes>>
    BY DEF IInv, Run, fileVars, lockVars
<1>2. /\ pc[c] = "run" /\ \A d \in Clients : d # c => pc'[d] = pc[d]
      /\ \/ pc'[c] = "succeeded" /\ content' = "complete"
         \/ pc'[c] = "failed" /\ content' = content
    BY <1>1, StepFacts DEF Run, fileVars
<1>3. /\ exclusive = c /\ exclusive # Nobody /\ shared = {}
      /\ \A d \in Clients : pc[d] \in Filling => d = c
    BY <1>2, FillerAlone DEF Filling
<1>4. TypeOK'
    BY <1>1, <1>2 DEF TypeOK, Run, Step
<1>5. LocksSound'
    BY <1>1, <1>2, <1>3 DEF IInv, LocksSound, Filling, IsThreaded
<1>6. ContentSound' /\ StatusHonest'
    BY <1>1, <1>2, <1>3 DEF ContentSound, StatusHonest, Filling, Undisturbed
<1> QED BY <1>4, <1>5, <1>6 DEF IInv

\* The status is written before the exclusive lock is given up.
LEMMA ReportKeeps == ASSUME IInv, NEW c \in Clients, Report(c) PROVE IInv'
<1>1. /\ TypeOK /\ exclusive' = Nobody
      /\ UNCHANGED <<content, shared, evalLock, crashes>>
    BY DEF IInv, Report
<1>2. /\ pc'[c] = "done" /\ \A d \in Clients : d # c => pc'[d] = pc[d]
      /\ \/ pc[c] = "succeeded" /\ status' = "success"
         \/ pc[c] = "failed" /\ status' = "permanentFail"
    BY <1>1, StepFacts DEF Report
<1>3. /\ exclusive = c /\ exclusive # Nobody /\ shared = {}
      /\ \A d \in Clients : pc[d] \in Filling => d = c
    BY <1>2, FillerAlone DEF Filling
<1>4. TypeOK'
    BY <1>1, <1>2 DEF TypeOK, Report, Step
<1>5. LocksSound'
    BY <1>1, <1>2, <1>3, CacheAssumption DEF IInv, LocksSound, Filling, IsThreaded
<1>6. ContentSound' /\ StatusHonest'
    BY <1>1, <1>2, <1>3 DEF IInv, ContentSound, StatusHonest, Filling, Undisturbed
<1> QED BY <1>4, <1>5, <1>6 DEF IInv

LEMMA CollectKeeps == ASSUME IInv, NEW c \in Clients, Collect(c) PROVE IInv'
<1>1. /\ TypeOK /\ Step(c, "collect", "done")
      /\ UNCHANGED <<content, status, shared, exclusive, evalLock, crashes>>
    BY DEF IInv, Collect, fileVars, lockVars
<1>2. pc[c] = "collect" /\ pc'[c] = "done" /\ \A d \in Clients : d # c => pc'[d] = pc[d]
    BY <1>1, StepFacts
<1>3. TypeOK'
    BY <1>1 DEF TypeOK, Step
<1>4. LocksSound'
    BY <1>1, <1>2 DEF IInv, LocksSound, Filling, IsThreaded
<1>5. ContentSound' /\ StatusHonest'
    BY <1>1, <1>2 DEF IInv, ContentSound, StatusHonest, Undisturbed
<1> QED BY <1>3, <1>4, <1>5 DEF IInv

\* Without threads, the status file is closed after the CallbackJob has run.
LEMMA CloseKeeps == ASSUME IInv, NEW c \in Clients, Close(c) PROVE IInv'
<1>1. /\ TypeOK /\ shared' = shared \ {c} /\ (~IsThreaded(c) => pc[c] = "done")
      /\ UNCHANGED <<content, status, exclusive, evalLock, pc, crashes>>
    BY DEF IInv, Close, fileVars
<1>2. TypeOK'
    BY <1>1 DEF TypeOK
<1>3. LocksSound'
    BY <1>1 DEF IInv, LocksSound, Filling, IsThreaded, Close
<1>4. ContentSound' /\ StatusHonest'
    BY <1>1 DEF IInv, ContentSound, StatusHonest, Undisturbed
<1> QED BY <1>2, <1>3, <1>4 DEF IInv

LEMMA CrashKeeps == ASSUME IInv, NEW p \in Procs, Crash(p) PROVE IInv'
<1>1. /\ TypeOK /\ UNCHANGED <<content, status>>
      /\ crashes < MaxCrashes /\ crashes' = crashes + 1
      /\ shared' \subseteq shared
      /\ \A c \in Clients : c \in shared /\ Proc[c] # p => c \in shared'
      /\ exclusive' = IF exclusive # Nobody /\ Proc[exclusive] = p
                      THEN Nobody ELSE exclusive
    BY DEF IInv, Crash, fileVars
<1>2. \A c \in Clients : pc'[c] = IF Proc[c] = p /\ pc[c] \notin Over THEN "dead" ELSE pc[c]
    BY DEF Crash
<1>3. crashes' \in 0..MaxCrashes /\ crashes' # 0
    <2>1. crashes \in 0..MaxCrashes /\ MaxCrashes \in Nat
        BY <1>1, CacheAssumption DEF TypeOK
    <2>2. crashes < MaxCrashes /\ crashes' = crashes + 1
        BY <1>1
    <2> QED BY <2>1, <2>2
<1>4. TypeOK'
    <2>1. exclusive' \in Clients \cup {Nobody} /\ shared' \subseteq Clients
        BY <1>1 DEF TypeOK
    <2>2. evalLock' \in [Procs -> {"main", Nobody}]
        BY <1>1 DEF TypeOK, Crash
    <2>3. pc' \in [Clients -> {"new", "share", "read", "collect", "upgrade", "clear",
                               "run", "succeeded", "failed", "done", "raised", "dead"}]
        BY <1>1 DEF TypeOK, Crash
    <2> QED BY <1>1, <1>3, <2>1, <2>2, <2>3 DEF TypeOK
<1>5. LocksSound'
    <2>1. exclusive' # Nobody => shared' = {}
        BY <1>1 DEF IInv, LocksSound
    <2>2. ASSUME NEW c \in Clients PROVE pc'[c] \in Filling <=> exclusive' = c
        <3>1. c # Nobody
            BY CacheAssumption
        <3> QED BY <1>1, <1>2, <3>1 DEF IInv, LocksSound, Filling, Over
    <2>3. ASSUME NEW c \in Clients,
                 pc'[c] = "read" \/ (pc'[c] = "collect" /\ ~IsThreaded(c))
          PROVE  c \in shared'
        <3>1. pc[c] = pc'[c] /\ Proc[c] # p
            BY <1>2, <2>3 DEF Over
        <3> QED BY <1>1, <2>3, <3>1 DEF IInv, LocksSound
    <2> QED BY <2>1, <2>2, <2>3 DEF LocksSound, IsThreaded
<1>6. ContentSound' /\ StatusHonest'
    BY <1>1, <1>2, <1>3 DEF IInv, ContentSound, StatusHonest, Undisturbed
<1> QED BY <1>4, <1>5, <1>6 DEF IInv

LEMMA StutterKeeps == ASSUME IInv, UNCHANGED vars PROVE IInv'
    BY DEF IInv, TypeOK, LocksSound, ContentSound, StatusHonest, Undisturbed,
           IsThreaded, vars, fileVars, lockVars

\* The invariant holds of any number of processes over one cache directory.
THEOREM Invariance == Spec => []IInv
<1>1. IInv /\ [Next]_vars => IInv'
    BY BeginKeeps, ShareKeeps, ReadHitKeeps, ReadMissKeeps, UpgradeKeeps,
       ClearKeeps, MakeRaisesKeeps, RunKeeps, ReportKeeps, CollectKeeps, CloseKeeps, CrashKeeps,
       StutterKeeps
    DEF Next, ClientStep
<1> QED BY <1>1, Initially, PTL DEF Spec

\* While no process has died and no job was impossible to make, a
\* CallbackJob of the executor without threads collects its outputs from a
\* complete directory: no process fills it under the shared lock.
THEOREM SerialCollectsCompleteHolds == Spec => []SerialCollectsComplete
<1>1. IInv => SerialCollectsComplete
    BY DEF IInv, LocksSound, ContentSound, SerialCollectsComplete
<1> QED BY <1>1, Invariance, PTL

\* While no process has died and no job was impossible to make, a status
\* file of "success" that nobody is about to rewrite stands beside a complete directory.
THEOREM StatusHonestHolds == Spec => []StatusHonest
<1>1. IInv => StatusHonest
    BY DEF IInv
<1> QED BY <1>1, Invariance, PTL
=============================================================================
