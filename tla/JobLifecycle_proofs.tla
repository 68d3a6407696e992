------------------------ MODULE JobLifecycle_proofs ------------------------
(***************************************************************************)
(* Theorems about JobLifecycle, for any number of jobs of every kind.      *)
(***************************************************************************)
EXTENDS JobLifecycle, SequenceTheorems, TLAPS

PCs == {"start", "spawned", "poll", "peek", "stats", "wait", "collect", "scrub",
        "callback", "ended", "raised", "aborted", "unlisted"}

\* All that the invariant says of one job.
Sound(j) == ProcSound(j) /\ CidSound(j) /\ CallSound(j) /\ KillSound(j)

\* Nothing that the invariant says of one job changes for the others.
SameAt(k) == /\ pc'[k] = pc[k] /\ proc'[k] = proc[k] /\ tool'[k] = tool[k]
             /\ code'[k] = code[k] /\ timer'[k] = timer[k] /\ cid'[k] = cid[k]
             /\ status'[k] = status[k] /\ calls'[k] = calls[k]
OthersSame(j) == \A k \in Jobs \ {j} : SameAt(k)

LEMMA JobsFact == Jobs \subseteq Nat /\ \A j \in Jobs : j \in 1..NumJobs
    BY LifecycleAssumption DEF Jobs

LEMMA SoundNow == ASSUME IInv, NEW j \in Jobs PROVE Sound(j)
    BY DEF IInv, Sound

LEMMA Initially == Init => IInv
<1> SUFFICES ASSUME Init PROVE IInv
    OBVIOUS
<1>1. TypeOK
    <2>1. hjob \in -NumJobs..NumJobs
        BY LifecycleAssumption DEF Init
    <2>2. toKill \in Seq(Jobs)
        BY DEF Init
    <2>3. calls \in [Jobs -> 0..1]
        BY DEF Init
    <2>4. term \in [Jobs -> BOOLEAN] /\ threaded \in BOOLEAN /\ signalled \in BOOLEAN
        BY Zenon DEF Init
    <2>5. /\ kind \in KindChoices /\ early \subseteq Jobs
          /\ hpc \in {"none", "pop", "join", "last", "gone"}
        BY DEF Init
    <2>6. /\ pc \in [Jobs -> PCs]
          /\ proc \in [Jobs -> {"none", "running", "ended"}]
          /\ tool \in [Jobs -> {"none", "running", "ended"}]
          /\ code \in [Jobs -> Codes \cup {"none"}]
        BY DEF Init, PCs
    <2>7. /\ timer \in [Jobs -> {"off", "armed", "fired", "cancelled"}]
          /\ cid \in [Jobs -> {"absent", "present", "kept"}]
          /\ status \in [Jobs -> {"none", "success", "temporaryFail", "permanentFail"}]
        BY DEF Init
    <2> QED BY <2>1, <2>2, <2>3, <2>4, <2>5, <2>6, <2>7 DEF TypeOK, PCs
<1>2. ASSUME NEW j \in Jobs PROVE Sound(j)
    <2>1. /\ pc[j] = "start" /\ proc[j] = "none" /\ tool[j] = "none"
          /\ code[j] = "none" /\ timer[j] = "off" /\ cid[j] = "absent"
          /\ status[j] = "none" /\ calls[j] = 0
        BY DEF Init
    <2> QED BY <2>1 DEF Sound, ProcSound, CidSound, CallSound, KillSound, Live
<1>3. InTurn
    <2>1. \A j \in Jobs : pc[j] = "start"
        BY DEF Init
    <2> QED BY <2>1 DEF InTurn
<1>4. EndSound
    BY DEF Init, EndSound, Gone, Looping
<1> QED BY <1>1, <1>2, <1>3, <1>4 DEF IInv, Sound

(***************************************************************************)
(* Frames.                                                                 *)
(***************************************************************************)
\* A job that nothing changes stays sound, if it stays listed.
LEMMA SameKeeps ==
    ASSUME NEW k \in Jobs, Sound(k), SameAt(k), kind' = kind,
           k \in early => k \in early', Listed(k) => Listed(k)'
    PROVE  Sound(k)'
<1>1. ProcSound(k)' /\ CidSound(k)' /\ CallSound(k)'
    BY DEF Sound, SameAt, ProcSound, CidSound, CallSound
<1>2. KillSound(k)'
    BY DEF Sound, SameAt, KillSound, Live
<1> QED BY <1>1, <1>2 DEF Sound

\* A step of the thread of j.
LEMMA TurnKeeps ==
    ASSUME IInv, NEW j \in Jobs, Runs(j), ~Over(j),
           NEW p \in PCs \ {"start", "aborted", "unlisted"}, Goto(j, p),
           \A k \in Jobs \ {j} : proc'[k] = proc[k],
           UNCHANGED <<threaded, hpc, hjob, signalled>>
    PROVE  InTurn' /\ EndSound'
<1>1. pc'[j] = p /\ \A k \in Jobs \ {j} : pc'[k] = pc[k]
    BY DEF IInv, TypeOK, Goto
<1>2. InTurn'
    <2>1. SUFFICES ASSUME ~threaded, hpc = "none", NEW i \in Jobs, NEW k \in Jobs,
                          i < k, pc'[k] # "start"
                   PROVE  pc'[i] = "ended"
        BY DEF InTurn
    <2>2. i # k
        BY <2>1, JobsFact
    <2>3. CASE k = j
        <3>1. i \in 1..(j - 1)
            BY <2>1, <2>3, JobsFact
        <3>2. \A h \in 1..(j - 1) : pc[h] = "ended"
            BY <2>1 DEF Runs
        <3> QED BY <1>1, <2>2, <2>3, <3>1, <3>2
    <2>4. CASE k # j
        <3>1. pc[i] = "ended"
            BY <1>1, <2>1, <2>4 DEF IInv, InTurn
        <3>2. i # j
            BY <3>1 DEF Over
        <3> QED BY <1>1, <3>1, <3>2
    <2> QED BY <2>3, <2>4
<1>3. hpc \notin {"last", "gone"}
    BY DEF IInv, EndSound
<1>4. EndSound'
    BY <1>1, <1>3 DEF IInv, EndSound, Gone, Looping
<1> QED BY <1>2, <1>4

LEMMA ThreadKeeps ==
    ASSUME IInv, NEW j \in Jobs, Runs(j), ~Over(j),
           NEW p \in PCs \ {"start", "aborted", "unlisted"}, Goto(j, p),
           OthersSame(j), UNCHANGED <<given, exitVars>>,
           toKill' = toKill \/ toKill' = Append(toKill, j),
           TypeOK', Sound(j)'
    PROVE  IInv'
<1>1. \A k \in Jobs \ {j} : Listed(k) => Listed(k)'
    <2>1. toKill \in Seq(Jobs)
        BY DEF IInv, TypeOK
    <2>2. CASE toKill' = toKill
        BY <2>2 DEF Listed, given, exitVars
    <2>3. CASE toKill' = Append(toKill, j)
        <3>1. /\ Len(toKill') = Len(toKill) + 1 /\ Len(toKill) \in Nat
              /\ \A i \in 1..Len(toKill) : toKill'[i] = toKill[i]
            BY <2>1, <2>3
        <3>2. \A i \in 1..Len(toKill) : i \in 1..Len(toKill')
            BY <3>1
        <3> QED BY <3>1, <3>2 DEF Listed, given, exitVars
    <2> QED BY <2>2, <2>3
<1>2. \A k \in Jobs \ {j} : Sound(k)'
    BY <1>1, SoundNow, SameKeeps DEF OthersSame, given, exitVars
<1>3. InTurn' /\ EndSound'
    BY TurnKeeps DEF OthersSame, SameAt, given, exitVars
<1> QED BY <1>2, <1>3 DEF IInv, Sound

\* A step of a process, a tool or a timer of job j.
LEMMA OutsideKeeps ==
    ASSUME IInv, NEW j \in Jobs, OthersSame(j),
           UNCHANGED <<given, jobVars, toKill, exitVars>>,
           proc'[j] = "none" <=> proc[j] = "none",
           TypeOK', Sound(j)'
    PROVE  IInv'
<1>1. \A k \in Jobs \ {j} : Sound(k)'
    BY SoundNow, SameKeeps DEF OthersSame, given, exitVars, Listed
<1>2. InTurn'
    BY DEF IInv, InTurn, given, jobVars, exitVars
<1>3. \A k \in Jobs : proc'[k] = "none" <=> proc[k] = "none"
    BY DEF OthersSame, SameAt
<1>4. EndSound'
    BY <1>3 DEF IInv, EndSound, Over, Gone, Looping, jobVars, exitVars
<1> QED BY <1>1, <1>2, <1>4 DEF IInv, Sound

(***************************************************************************)
(* The steps of a job's thread.                                            *)
(***************************************************************************)
LEMMA SpawnKeeps == ASSUME IInv, NEW j \in Jobs, Spawn(j) PROVE IInv'
<1>1. TypeOK /\ Sound(j) /\ Runs(j) /\ pc[j] = "start" /\ Goto(j, "spawned")
    BY SoundNow DEF IInv, Spawn
<1>2. /\ pc'[j] = "spawned" /\ proc'[j] = "running"
      /\ tool'[j] = IF kind[j] = "docker" THEN "none" ELSE "running"
      /\ UNCHANGED <<given, status, calls, code, term, timer, cid, toKill, exitVars>>
    BY <1>1 DEF Spawn, TypeOK, Goto
<1>3. OthersSame(j)
    BY <1>1 DEF Spawn, TypeOK, Goto, OthersSame, SameAt
<1>4. TypeOK'
    BY <1>1 DEF Spawn, TypeOK, Goto, given, exitVars
<1>5. Sound(j)'
    BY <1>1, <1>2 DEF Sound, ProcSound, CidSound, CallSound, KillSound, Live, given
<1>6. ~Over(j)
    BY <1>1 DEF Over
<1> QED BY <1>1, <1>2, <1>3, <1>4, <1>5, <1>6, ThreadKeeps DEF PCs

LEMMA FailsKeeps == ASSUME IInv, NEW j \in Jobs, Fails(j) PROVE IInv'
<1>1. /\ TypeOK /\ Sound(j) /\ Runs(j) /\ pc[j] \in {"start", "collect"}
    BY SoundNow DEF IInv, Fails
<1>2. /\ pc'[j] = "scrub" /\ status'[j] = "permanentFail"
      /\ UNCHANGED <<given, calls, osVars, timer, cid, toKill, exitVars>>
    BY <1>1 DEF Fails, TypeOK, Goto
<1>3. OthersSame(j)
    BY <1>1 DEF Fails, TypeOK, Goto, OthersSame, SameAt, osVars
<1>4. TypeOK'
    BY <1>1 DEF Fails, TypeOK, Goto, given, osVars, exitVars
<1>5. Sound(j)'
    BY <1>1, <1>2
    DEF Sound, ProcSound, CidSound, CallSound, KillSound, Live, Listed, given, osVars, exitVars
<1>6. ~Over(j)
    BY <1>1 DEF Over
<1> QED BY <1>1, <1>2, <1>3, <1>4, <1>5, <1>6, ThreadKeeps DEF PCs, Fails, Goto

LEMMA PollEndedKeeps == ASSUME IInv, NEW j \in Jobs, PollEnded(j) PROVE IInv'
<1>1. /\ TypeOK /\ Sound(j) /\ Runs(j) /\ pc[j] = "poll" /\ proc[j] = "ended"
    BY SoundNow DEF IInv, PollEnded
<1>2. /\ pc'[j] = "wait" /\ cid'[j] = "absent"
      /\ UNCHANGED <<given, status, calls, osVars, timer, toKill, exitVars>>
    BY <1>1 DEF PollEnded, TypeOK, Goto
<1>3. OthersSame(j)
    BY <1>1 DEF PollEnded, TypeOK, Goto, OthersSame, SameAt, osVars
<1>4. TypeOK'
    BY <1>1 DEF PollEnded, TypeOK, Goto, given, osVars, exitVars
<1>5. Sound(j)'
    BY <1>1, <1>2
    DEF Sound, ProcSound, CidSound, CallSound, KillSound, Live, Listed, given, osVars, exitVars
<1>6. ~Over(j)
    BY <1>1 DEF Over
<1> QED BY <1>1, <1>2, <1>3, <1>4, <1>5, <1>6, ThreadKeeps DEF PCs, PollEnded, Goto

LEMMA PollRunningKeeps == ASSUME IInv, NEW j \in Jobs, PollRunning(j) PROVE IInv'
<1>1. /\ TypeOK /\ Sound(j) /\ Runs(j) /\ pc[j] = "poll" /\ proc[j] = "running"
    BY SoundNow DEF IInv, PollRunning
<1>2. /\ pc'[j] = "peek"
      /\ UNCHANGED <<given, status, calls, osVars, timer, cid, toKill, exitVars>>
    BY <1>1 DEF PollRunning, TypeOK, Goto
<1>3. OthersSame(j)
    BY <1>1 DEF PollRunning, TypeOK, Goto, OthersSame, SameAt, osVars
<1>4. TypeOK'
    BY <1>1 DEF PollRunning, TypeOK, Goto, given, osVars, exitVars
<1>5. Sound(j)'
    BY <1>1, <1>2
    DEF Sound, ProcSound, CidSound, CallSound, KillSound, Live, Listed, given, osVars, exitVars
<1>6. ~Over(j)
    BY <1>1 DEF Over
<1> QED BY <1>1, <1>2, <1>3, <1>4, <1>5, <1>6, ThreadKeeps DEF PCs, PollRunning, Goto

LEMMA PeekKeeps == ASSUME IInv, NEW j \in Jobs, Peek(j) PROVE IInv'
<1>1. /\ TypeOK /\ Sound(j) /\ Runs(j) /\ pc[j] = "peek"
    BY SoundNow DEF IInv, Peek
<1>2. /\ pc'[j] = IF cid[j] = "present" THEN "stats" ELSE "poll"
      /\ UNCHANGED <<given, status, calls, osVars, timer, cid, toKill, exitVars>>
    BY <1>1 DEF Peek, TypeOK, Goto
<1>3. OthersSame(j)
    BY <1>1 DEF Peek, TypeOK, Goto, OthersSame, SameAt, osVars
<1>4. TypeOK'
    BY <1>1 DEF Peek, TypeOK, Goto, given, osVars, exitVars
<1>5. Sound(j)'
    BY <1>1, <1>2
    DEF Sound, ProcSound, CidSound, CallSound, KillSound, Live, Listed, given, osVars, exitVars
<1>6. ~Over(j)
    BY <1>1 DEF Over
<1> QED BY <1>1, <1>2, <1>3, <1>4, <1>5, <1>6, ThreadKeeps DEF PCs, Peek, Goto

LEMMA StatsFailKeeps == ASSUME IInv, NEW j \in Jobs, StatsFail(j) PROVE IInv'
<1>1. /\ TypeOK /\ Sound(j) /\ Runs(j) /\ pc[j] = "stats"
    BY SoundNow DEF IInv, StatsFail
<1>2. /\ pc'[j] = "wait" /\ cid'[j] = "kept"
      /\ UNCHANGED <<given, status, calls, osVars, timer, toKill, exitVars>>
    BY <1>1 DEF StatsFail, TypeOK, Goto
<1>3. OthersSame(j)
    BY <1>1 DEF StatsFail, TypeOK, Goto, OthersSame, SameAt, osVars
<1>4. TypeOK'
    BY <1>1 DEF StatsFail, TypeOK, Goto, given, osVars, exitVars
<1>5. Sound(j)'
    BY <1>1, <1>2
    DEF Sound, ProcSound, CidSound, CallSound, KillSound, Live, Listed, given, osVars, exitVars
<1>6. ~Over(j)
    BY <1>1 DEF Over
<1> QED BY <1>1, <1>2, <1>3, <1>4, <1>5, <1>6, ThreadKeeps DEF PCs, StatsFail, Goto

LEMMA StatsEndKeeps == ASSUME IInv, NEW j \in Jobs, StatsEnd(j) PROVE IInv'
<1>1. /\ TypeOK /\ Sound(j) /\ Runs(j) /\ pc[j] = "stats" /\ proc[j] = "ended"
    BY SoundNow DEF IInv, StatsEnd
<1>2. /\ pc'[j] = "wait" /\ cid'[j] = "absent"
      /\ UNCHANGED <<given, status, calls, osVars, timer, toKill, exitVars>>
    BY <1>1 DEF StatsEnd, TypeOK, Goto
<1>3. OthersSame(j)
    BY <1>1 DEF StatsEnd, TypeOK, Goto, OthersSame, SameAt, osVars
<1>4. TypeOK'
    BY <1>1 DEF StatsEnd, TypeOK, Goto, given, osVars, exitVars
<1>5. Sound(j)'
    BY <1>1, <1>2
    DEF Sound, ProcSound, CidSound, CallSound, KillSound, Live, Listed, given, osVars, exitVars
<1>6. ~Over(j)
    BY <1>1 DEF Over
<1> QED BY <1>1, <1>2, <1>3, <1>4, <1>5, <1>6, ThreadKeeps DEF PCs, StatsEnd, Goto

\* The status is that of a process that has ended.
LEMMA WaitKeeps == ASSUME IInv, NEW j \in Jobs, Wait(j) PROVE IInv'
<1>1. /\ TypeOK /\ Sound(j) /\ Runs(j) /\ pc[j] = "wait" /\ proc[j] = "ended"
    BY SoundNow DEF IInv, Wait
<1>2. /\ pc'[j] = "collect" /\ status'[j] = StatusOf(code[j])
      /\ UNCHANGED <<given, calls, osVars, cid, toKill, exitVars>>
    BY <1>1 DEF Wait, TypeOK, Goto
<1>3. OthersSame(j)
    BY <1>1 DEF Wait, TypeOK, Goto, OthersSame, SameAt, osVars
<1>4. TypeOK'
    BY <1>1 DEF Wait, TypeOK, Goto, given, osVars, exitVars, StatusOf
<1>5. Sound(j)'
    BY <1>1, <1>2
    DEF Sound, ProcSound, CidSound, CallSound, KillSound, Live, Listed, given, osVars, exitVars, StatusOf
<1>6. ~Over(j)
    BY <1>1 DEF Over
<1> QED BY <1>1, <1>2, <1>3, <1>4, <1>5, <1>6, ThreadKeeps DEF PCs, Wait, Goto

LEMMA CollectKeeps == ASSUME IInv, NEW j \in Jobs, Collect(j) PROVE IInv'
<1>1. /\ TypeOK /\ Sound(j) /\ Runs(j) /\ pc[j] = "collect"
    BY SoundNow DEF IInv, Collect
<1>2. /\ pc'[j] = "scrub"
      /\ UNCHANGED <<given, status, calls, osVars, timer, cid, toKill, exitVars>>
    BY <1>1 DEF Collect, TypeOK, Goto
<1>3. OthersSame(j)
    BY <1>1 DEF Collect, TypeOK, Goto, OthersSame, SameAt, osVars
<1>4. TypeOK'
    BY <1>1 DEF Collect, TypeOK, Goto, given, osVars, exitVars
<1>5. Sound(j)'
    BY <1>1, <1>2
    DEF Sound, ProcSound, CidSound, CallSound, KillSound, Live, Listed, given, osVars, exitVars
<1>6. ~Over(j)
    BY <1>1 DEF Over
<1> QED BY <1>1, <1>2, <1>3, <1>4, <1>5, <1>6, ThreadKeeps DEF PCs, Collect, Goto

LEMMA ScrubKeeps == ASSUME IInv, NEW j \in Jobs, Scrub(j) PROVE IInv'
<1>1. /\ TypeOK /\ Sound(j) /\ Runs(j) /\ pc[j] = "scrub"
    BY SoundNow DEF IInv, Scrub
<1>2. /\ pc'[j] = "callback"
      /\ UNCHANGED <<given, status, calls, osVars, timer, cid, toKill, exitVars>>
    BY <1>1 DEF Scrub, TypeOK, Goto
<1>3. OthersSame(j)
    BY <1>1 DEF Scrub, TypeOK, Goto, OthersSame, SameAt, osVars
<1>4. TypeOK'
    BY <1>1 DEF Scrub, TypeOK, Goto, given, osVars, exitVars
<1>5. Sound(j)'
    BY <1>1, <1>2
    DEF Sound, ProcSound, CidSound, CallSound, KillSound, Live, Listed, given, osVars, exitVars
<1>6. ~Over(j)
    BY <1>1 DEF Over
<1> QED BY <1>1, <1>2, <1>3, <1>4, <1>5, <1>6, ThreadKeeps DEF PCs, Scrub, Goto

LEMMA ScrubRaisesKeeps == ASSUME IInv, NEW j \in Jobs, ScrubRaises(j) PROVE IInv'
<1>1. /\ TypeOK /\ Sound(j) /\ Runs(j) /\ pc[j] = "scrub" /\ j \in Secretive
    BY SoundNow DEF IInv, ScrubRaises
<1>2. /\ pc'[j] = "raised"
      /\ UNCHANGED <<given, status, calls, osVars, timer, cid, toKill, exitVars>>
    BY <1>1 DEF ScrubRaises, TypeOK, Goto
<1>3. OthersSame(j)
    BY <1>1 DEF ScrubRaises, TypeOK, Goto, OthersSame, SameAt, osVars
<1>4. TypeOK'
    BY <1>1 DEF ScrubRaises, TypeOK, Goto, given, osVars, exitVars
<1>5. Sound(j)'
    BY <1>1, <1>2
    DEF Sound, ProcSound, CidSound, CallSound, KillSound, Live, Listed, given, osVars, exitVars
<1>6. ~Over(j)
    BY <1>1 DEF Over
<1> QED BY <1>1, <1>2, <1>3, <1>4, <1>5, <1>6, ThreadKeeps DEF PCs, ScrubRaises, Goto

LEMMA CallbackKeeps == ASSUME IInv, NEW j \in Jobs, Callback(j) PROVE IInv'
<1>1. /\ TypeOK /\ Sound(j) /\ Runs(j) /\ pc[j] = "callback"
    BY SoundNow DEF IInv, Callback
<1>2. /\ pc'[j] = "ended" /\ calls'[j] = calls[j] + 1
      /\ UNCHANGED <<given, status, osVars, timer, cid, toKill, exitVars>>
    BY <1>1 DEF Callback, TypeOK, Goto
<1>3. OthersSame(j)
    BY <1>1 DEF Callback, TypeOK, Goto, OthersSame, SameAt, osVars
<1>4. TypeOK'
    <2>1. calls[j] = 0 /\ calls \in [Jobs -> 0..1]
        BY <1>1 DEF Sound, CallSound, TypeOK
    <2>2. calls' = [calls EXCEPT ![j] = calls[j] + 1]
        BY DEF Callback
    <2>3. calls' \in [Jobs -> 0..1]
        BY <2>1, <2>2
    <2> QED BY <1>1, <2>3 DEF Callback, TypeOK, Goto, given, osVars, exitVars
<1>5. Sound(j)'
    BY <1>1, <1>2
    DEF Sound, ProcSound, CidSound, CallSound, KillSound, Live, Listed, given, osVars, exitVars
<1>6. ~Over(j)
    BY <1>1 DEF Over
<1> QED BY <1>1, <1>2, <1>3, <1>4, <1>5, <1>6, ThreadKeeps DEF PCs, Callback, Goto

LEMMA ListKeeps == ASSUME IInv, NEW j \in Jobs, List(j) PROVE IInv'
<1>1. TypeOK /\ Sound(j) /\ Runs(j) /\ pc[j] = "spawned"
    BY SoundNow DEF IInv, List
<1>2. /\ pc'[j] = IF kind[j] = "docker" THEN "poll" ELSE "wait"
      /\ UNCHANGED <<given, status, calls, osVars, cid, exitVars>>
    BY <1>1 DEF List, TypeOK, Goto
<1>3. OthersSame(j)
    BY <1>1 DEF List, TypeOK, Goto, OthersSame, SameAt, osVars
<1>4. toKill' \in Seq(Jobs) /\ Listed(j)'
    <2>1. toKill \in Seq(Jobs) /\ toKill' = Append(toKill, j)
        BY <1>1 DEF List, TypeOK
    <2>2. /\ toKill' \in Seq(Jobs) /\ Len(toKill') = Len(toKill) + 1
          /\ Len(toKill) \in Nat /\ toKill'[Len(toKill) + 1] = j
        BY <2>1
    <2>3. Len(toKill) + 1 \in 1..Len(toKill')
        BY <2>2
    <2> QED BY <2>2, <2>3 DEF Listed
<1>5. TypeOK'
    BY <1>1, <1>4 DEF List, TypeOK, Goto, given, osVars, exitVars
<1>6. Sound(j)'
    <2>1. timer'[j] = "off" \/ timer'[j] = "armed"
        BY <1>1 DEF List, TypeOK
    <2>2. ProcSound(j)' /\ CidSound(j)' /\ CallSound(j)'
        BY <1>1, <1>2 DEF Sound, ProcSound, CidSound, CallSound, given, osVars
    <2> QED BY <1>4, <2>2 DEF Sound, KillSound
<1>7. ~Over(j)
    BY <1>1 DEF Over
<1> QED BY <1>1, <1>2, <1>3, <1>5, <1>6, <1>7, ThreadKeeps DEF PCs, List, Goto

(***************************************************************************)
(* The steps of processes, tools and timers.                               *)
(***************************************************************************)
LEMMA ToolEndsKeeps ==
    ASSUME IInv, NEW j \in Jobs, NEW c \in Codes, ToolEndsWith(j, c)
    PROVE  IInv'
<1>1. TypeOK /\ Sound(j) /\ tool[j] = "running"
    BY SoundNow DEF IInv, ToolEndsWith
<1>2. /\ tool'[j] = "ended"
      /\ IF proc[j] = "running" THEN proc'[j] = "ended" /\ code'[j] = c
                                ELSE proc'[j] = proc[j] /\ code'[j] = code[j]
      /\ UNCHANGED <<given, jobVars, term, timer, cid, toKill, exitVars>>
    BY <1>1 DEF ToolEndsWith, TypeOK
<1>3. OthersSame(j)
    BY <1>1 DEF ToolEndsWith, TypeOK, OthersSame, SameAt, jobVars
<1>4. TypeOK'
    BY <1>1 DEF ToolEndsWith, TypeOK, given, jobVars, exitVars
<1>5. Sound(j)'
    BY <1>1, <1>2
    DEF Sound, ProcSound, CidSound, CallSound, KillSound, Live, Listed, TypeOK,
        given, jobVars, exitVars
<1> QED BY <1>2, <1>3, <1>4, <1>5, OutsideKeeps

LEMMA DockerStartKeeps == ASSUME IInv, NEW j \in Jobs, DockerStart(j) PROVE IInv'
<1>1. /\ TypeOK /\ Sound(j)
      /\ kind[j] = "docker" /\ proc[j] = "running" /\ tool[j] = "none"
    BY SoundNow DEF IInv, DockerStart
<1>2. /\ tool'[j] = "running" /\ cid'[j] = "present"
      /\ UNCHANGED <<given, jobVars, proc, code, term, timer, toKill, exitVars>>
    BY <1>1 DEF DockerStart, TypeOK
<1>3. OthersSame(j)
    BY <1>1 DEF DockerStart, TypeOK, OthersSame, SameAt, jobVars
<1>4. TypeOK'
    BY <1>1 DEF DockerStart, TypeOK, given, jobVars, exitVars
<1>5. Sound(j)'
    BY <1>1, <1>2
    DEF Sound, ProcSound, CidSound, CallSound, KillSound, Live, Listed, TypeOK,
        given, jobVars, exitVars
<1> QED BY <1>2, <1>3, <1>4, <1>5, OutsideKeeps

LEMMA TimerKeeps == ASSUME IInv, NEW j \in Jobs, TimerFires(j) PROVE IInv'
<1>1. TypeOK /\ Sound(j) /\ timer[j] = "armed"
    BY SoundNow DEF IInv, TimerFires
<1>2. /\ timer'[j] = "fired"
      /\ \/ proc'[j] = proc[j] /\ tool'[j] = tool[j] /\ code'[j] = code[j]
         \/ /\ proc[j] # "ended" /\ proc'[j] = "ended" /\ code'[j] = "bad"
            /\ kind[j] = "scripted" \/ tool[j] = "none"
            /\ tool'[j] = IF kind[j] = "direct" THEN "ended" ELSE tool[j]
      /\ UNCHANGED <<given, jobVars, cid, toKill, exitVars>>
    BY <1>1 DEF TimerFires, ProcEnds, TypeOK, osVars
<1>3. OthersSame(j)
    BY <1>1 DEF TimerFires, ProcEnds, TypeOK, OthersSame, SameAt, jobVars, osVars
<1>4. TypeOK'
    <2>1. term' \in [Jobs -> BOOLEAN]
        BY <1>1 DEF TimerFires, TypeOK, osVars
    <2>2. timer' \in [Jobs -> {"off", "armed", "fired", "cancelled"}]
        BY <1>1 DEF TimerFires, TypeOK
    <2>3. UNCHANGED <<proc, tool, code>> \/ ProcEnds(j, "bad")
        BY DEF TimerFires, osVars
    <2>4. /\ proc' \in [Jobs -> {"none", "running", "ended"}]
          /\ tool' \in [Jobs -> {"none", "running", "ended"}]
          /\ code' \in [Jobs -> Codes \cup {"none"}]
        <3>1. CASE UNCHANGED <<proc, tool, code>>
            BY <1>1, <3>1 DEF TypeOK
        <3>2. CASE ProcEnds(j, "bad")
            BY <1>1, <3>2 DEF ProcEnds, TypeOK, Codes
        <3> QED BY <2>3, <3>1, <3>2
    <2> QED BY <1>1, <1>2, <2>1, <2>2, <2>4 DEF TypeOK, given, jobVars, exitVars
<1>5. Sound(j)'
    BY <1>1, <1>2
    DEF Sound, ProcSound, CidSound, CallSound, KillSound, Live, Listed, TypeOK,
        given, jobVars, exitVars
<1>6. proc'[j] = "none" <=> proc[j] = "none"
    BY <1>1, <1>2 DEF Sound, ProcSound
<1> QED BY <1>2, <1>3, <1>4, <1>5, <1>6, OutsideKeeps

(***************************************************************************)
(* The end of the program.                                                 *)
(***************************************************************************)
LEMMA SignalKeeps == ASSUME IInv, Signal PROVE IInv'
<1>1. /\ TypeOK /\ hpc = "none" /\ hpc' = "pop" /\ signalled'
      /\ UNCHANGED <<given, jobVars, osVars, timer, cid, toKill, hjob, early>>
    BY DEF IInv, Signal
<1>2. TypeOK'
    <2>1. signalled' \in BOOLEAN
        BY DEF Signal
    <2> QED BY <1>1, <2>1 DEF TypeOK, given, jobVars, osVars
<1>3. \A j \in Jobs : Sound(j)'
    BY <1>1, SoundNow, SameKeeps DEF SameAt, Listed, given, jobVars, osVars
<1>4. InTurn' /\ EndSound'
    BY <1>1 DEF InTurn, EndSound, Gone, Looping
<1> QED BY <1>2, <1>3, <1>4 DEF IInv, Sound

\* The main thread leaves its jobs: no process that may live is forgotten.
LEMMA LeftKeeps ==
    ASSUME IInv, pc' = [j \in Jobs |-> Left(j)],
           UNCHANGED <<given, status, calls, osVars, timer, cid, toKill, hjob, early>>
    PROVE  \A j \in Jobs : pc'[j] \in PCs /\ Over(j)' /\ Sound(j)'
<1> SUFFICES ASSUME NEW j \in Jobs PROVE pc'[j] \in PCs /\ Over(j)' /\ Sound(j)'
    OBVIOUS
<1>1. Sound(j) /\ TypeOK /\ pc[j] \in PCs
    BY SoundNow DEF IInv, TypeOK, PCs
<1>2. /\ Over(j) => pc'[j] = pc[j]
      /\ ~Over(j) => pc'[j] = IF pc[j] = "spawned" THEN "unlisted" ELSE "aborted"
    BY DEF Left
<1>3. pc'[j] \in PCs /\ Over(j)'
    BY <1>1, <1>2 DEF PCs, Over
<1>4. Sound(j)'
    BY <1>1, <1>2
    DEF Sound, ProcSound, CidSound, CallSound, KillSound, Live, Listed, Over, given, osVars
<1> QED BY <1>3, <1>4

LEMMA MainEndsKeeps == ASSUME IInv, MainEnds PROVE IInv'
<1>1. /\ TypeOK /\ hpc = "none" /\ hpc' = "last" /\ pc' = [j \in Jobs |-> Left(j)]
      /\ UNCHANGED <<given, status, calls, osVars, timer, cid, toKill, hjob, early,
                     signalled>>
    BY DEF IInv, MainEnds
<1>2. \A j \in Jobs : pc'[j] \in PCs /\ Over(j)' /\ Sound(j)'
    BY <1>1, LeftKeeps
<1>3. TypeOK'
    BY <1>1, <1>2 DEF TypeOK, PCs, given, osVars
<1>4. ASSUME NEW j \in Jobs, ~signalled, pc'[j] \in {"aborted", "unlisted"}
      PROVE  pc'[j] = "aborted" /\ proc'[j] = "none"
    <2>1. ~Over(j)
        BY <1>1, <1>4 DEF IInv, EndSound, Left, Over
    <2>2. PICK i \in Jobs : ~threaded /\ pc[i] = "raised"
        BY <2>1 DEF MainEnds
    <2>3. pc[j] = "start"
        <3>1. i # j /\ pc[j] # "ended" /\ pc[i] # "ended" /\ pc[i] # "start"
            BY <2>1, <2>2 DEF Over
        <3>2. i < j \/ j < i
            BY <3>1, JobsFact
        <3> QED BY <1>1, <2>2, <3>1, <3>2 DEF IInv, InTurn
    <2>4. proc[j] = "none"
        BY <2>3, SoundNow DEF Sound, ProcSound
    <2> QED BY <1>1, <2>1, <2>3, <2>4 DEF Left, osVars
<1>5. InTurn' /\ EndSound'
    BY <1>1, <1>2, <1>4 DEF InTurn, EndSound, Gone, Looping
<1> QED BY <1>2, <1>3, <1>5 DEF IInv, Sound

LEMMA SysExitKeeps == ASSUME IInv, SysExit PROVE IInv'
<1>1. /\ TypeOK /\ hpc = "pop" /\ hjob = 0 /\ signalled
      /\ UNCHANGED <<given, status, calls, osVars, timer, cid, toKill, hjob, early,
                     signalled>>
    BY DEF IInv, SysExit, EndSound
<1>2. CASE threaded
    <2>1. PICK D \in SUBSET {j \in Jobs : pc[j] = "start"} :
              pc' = [j \in Jobs |-> IF j \in D THEN "aborted" ELSE pc[j]]
        BY <1>2 DEF SysExit
    <2>2. hpc' = "join"
        BY <1>2 DEF SysExit
    <2>3. \A j \in Jobs : Sound(j)'
        <3> SUFFICES ASSUME NEW j \in Jobs PROVE Sound(j)'
            OBVIOUS
        <3>1. Sound(j)
            BY SoundNow
        <3>2. pc'[j] = pc[j] \/ (pc[j] = "start" /\ pc'[j] = "aborted")
            BY <2>1
        <3> QED BY <1>1, <3>1, <3>2
            DEF Sound, ProcSound, CidSound, CallSound, KillSound, Live, Listed, given, osVars
    <2>4. TypeOK'
        BY <1>1, <2>1, <2>2 DEF TypeOK, given, osVars
    <2>5. InTurn' /\ EndSound'
        BY <1>1, <2>2 DEF InTurn, EndSound, Gone, Looping
    <2> QED BY <2>3, <2>4, <2>5 DEF IInv, Sound
<1>3. CASE ~threaded
    <2>1. hpc' = "last" /\ pc' = [j \in Jobs |-> Left(j)]
        BY <1>3 DEF SysExit
    <2>2. \A j \in Jobs : pc'[j] \in PCs /\ Over(j)' /\ Sound(j)'
        BY <1>1, <2>1, LeftKeeps
    <2>3. TypeOK'
        BY <1>1, <2>1, <2>2 DEF TypeOK, PCs, given, osVars
    <2>4. InTurn' /\ EndSound'
        BY <1>1, <2>1, <2>2 DEF InTurn, EndSound, Gone, Looping
    <2> QED BY <2>2, <2>3, <2>4 DEF IInv, Sound
<1> QED BY <1>2, <1>3

LEMMA LeaveKeeps == ASSUME IInv, Joined \/ Exit PROVE IInv'
<1>1. /\ TypeOK
      /\ \/ hpc = "join" /\ hpc' = "last" /\ \A j \in Jobs : Over(j)
         \/ hpc = "last" /\ hpc' = "gone" /\ hjob = 0 /\ toKill = <<>>
      /\ UNCHANGED <<given, jobVars, osVars, timer, cid, toKill, hjob, early, signalled>>
    BY DEF IInv, Joined, Exit
<1>2. TypeOK'
    BY <1>1 DEF TypeOK, given, jobVars, osVars
<1>3. \A j \in Jobs : Sound(j)'
    BY <1>1, SoundNow, SameKeeps DEF SameAt, Listed, given, jobVars, osVars
<1>4. InTurn' /\ EndSound'
    BY <1>1 DEF IInv, InTurn, EndSound, Gone, Looping, Over, jobVars, osVars
<1> QED BY <1>2, <1>3, <1>4 DEF IInv, Sound

LEMMA PopKeeps == ASSUME IInv, PopProcess PROVE IInv'
<1>1. /\ TypeOK /\ Looping /\ hjob = 0 /\ toKill # <<>>
      /\ hjob' = Head(toKill) /\ toKill' = Tail(toKill)
      /\ UNCHANGED <<given, jobVars, osVars, timer, cid, hpc, early, signalled>>
    BY DEF IInv, PopProcess
<1>2. toKill \in Seq(Jobs) /\ toKill # <<>>
    BY <1>1 DEF TypeOK
<1>3. /\ Head(toKill) = toKill[1] /\ toKill[1] \in Jobs
      /\ Tail(toKill) \in Seq(Jobs) /\ Len(toKill) \in Nat \ {0}
      /\ Len(Tail(toKill)) = Len(toKill) - 1
      /\ \A i \in 1..(Len(toKill) - 1) : Tail(toKill)[i] = toKill[i + 1]
    BY <1>2
<1>4. hjob' \in -NumJobs..NumJobs
    BY <1>1, <1>3, LifecycleAssumption DEF Jobs
<1>5. TypeOK'
    BY <1>1, <1>3, <1>4 DEF TypeOK, given, jobVars, osVars
<1>6. ASSUME NEW j \in Jobs, Listed(j) PROVE Listed(j)'
    <2>1. hjob # j /\ hjob # -j
        BY <1>1, JobsFact
    <2>2. PICK i \in 1..Len(toKill) : toKill[i] = j
        BY <1>1, <1>6, <2>1 DEF Listed
    <2>3. CASE i = 1
        BY <1>1, <1>3, <2>2, <2>3 DEF Listed
    <2>4. CASE i # 1
        <3>1. i - 1 \in 1..(Len(toKill) - 1)
            BY <1>3, <2>4
        <3>2. Tail(toKill)[i - 1] = toKill[i - 1 + 1] /\ i - 1 + 1 = i
            BY <1>3, <3>1
        <3>3. i - 1 \in 1..Len(toKill') /\ toKill'[i - 1] = j
            BY <1>1, <1>3, <2>2, <3>1, <3>2
        <3> QED BY <3>3 DEF Listed
    <2> QED BY <2>3, <2>4
<1>7. \A j \in Jobs : Sound(j)'
    BY <1>1, <1>6, SoundNow, SameKeeps DEF SameAt, given, jobVars, osVars
<1>8. InTurn' /\ EndSound'
    BY <1>1 DEF IInv, InTurn, EndSound, Gone, Looping, Over, jobVars, osVars, given
<1> QED BY <1>5, <1>7, <1>8 DEF IInv, Sound

\* What holds of the job h whose process was popped, while the others stay.
LEMMA PoppedKeeps ==
    ASSUME IInv, NEW h \in Jobs, hjob = h \/ hjob = -h, hjob' = -h \/ hjob' = 0,
           OthersSame(h), UNCHANGED <<given, jobVars, toKill, hpc, signalled>>,
           hpc \in {"pop", "last"},
           early \subseteq early',
           proc[h] = "none" => proc'[h] = "none",
           TypeOK', Sound(h)'
    PROVE  IInv'
<1>1. ASSUME NEW k \in Jobs \ {h}, Listed(k) PROVE Listed(k)'
    <2>1. hjob # k /\ hjob # -k
        BY JobsFact
    <2> QED BY <1>1, <2>1 DEF Listed, given
<1>2. \A k \in Jobs \ {h} : Sound(k)'
    BY <1>1, SoundNow, SameKeeps DEF OthersSame, given
<1>3. InTurn'
    BY DEF IInv, InTurn, given, jobVars
<1>4. \A k \in Jobs : proc[k] = "none" => proc'[k] = "none"
    BY DEF OthersSame, SameAt
<1>5. EndSound'
    BY <1>4 DEF IInv, EndSound, Over, Gone, Looping, jobVars
<1> QED BY <1>2, <1>3, <1>5 DEF IInv, Sound

\* A container without a cidfile is noted as such before docker is killed.
LEMMA LookKeeps ==
    ASSUME IInv, LookForContainer, hpc \in {"pop", "last"} PROVE IInv'
<1>1. /\ TypeOK /\ hjob > 0 /\ hjob' = -hjob
      /\ UNCHANGED <<given, jobVars, term, timer, cid, toKill, hpc, signalled>>
    BY DEF IInv, LookForContainer
<1>2. PICK h \in Jobs : hjob = h
    <2>1. hjob \in -NumJobs..NumJobs
        BY <1>1 DEF TypeOK
    <2> QED BY <1>1, <2>1, LifecycleAssumption DEF Jobs
<1>3. hjob' = -h /\ hjob' \in -NumJobs..NumJobs /\ Sound(h)
    BY <1>1, <1>2, JobsFact, LifecycleAssumption, SoundNow
<1>4. CASE kind[h] = "docker" /\ cid[h] # "absent"
    <2>1. /\ tool' = [tool EXCEPT ![h] = "ended"]
          /\ proc' = [proc EXCEPT ![h] = "ended"]
          /\ code' = IF proc[h] = "running" THEN [code EXCEPT ![h] = "bad"] ELSE code
          /\ early' = early
        BY <1>2, <1>4 DEF LookForContainer
    <2>2. /\ tool'[h] = "ended" /\ proc'[h] = "ended" /\ proc[h] # "none"
          /\ code'[h] = IF proc[h] = "running" THEN "bad" ELSE code[h]
        BY <1>1, <1>3, <1>4, <2>1 DEF TypeOK, Sound, ProcSound
    <2>3. OthersSame(h)
        BY <1>1, <2>1 DEF TypeOK, OthersSame, SameAt, jobVars
    <2>4. TypeOK'
        BY <1>1, <1>3, <2>1 DEF TypeOK, Codes, given, jobVars
    <2>5. Sound(h)'
        BY <1>1, <1>3, <1>4, <2>2
        DEF Sound, ProcSound, CidSound, CallSound, KillSound, Live, TypeOK, given, jobVars
    <2> QED BY <1>1, <1>2, <1>3, <2>1, <2>2, <2>3, <2>4, <2>5, PoppedKeeps
<1>5. CASE ~(kind[h] = "docker" /\ cid[h] # "absent")
    <2>1. /\ UNCHANGED <<tool, proc, code>>
          /\ early' = IF kind[h] = "docker" THEN early \cup {h} ELSE early
        BY <1>2, <1>5 DEF LookForContainer
    <2>2. OthersSame(h)
        BY <1>1, <2>1 DEF OthersSame, SameAt, jobVars
    <2>3. TypeOK'
        BY <1>1, <1>3, <2>1 DEF TypeOK, Codes, given, jobVars
    <2>4. ProcSound(h)' /\ CidSound(h)' /\ CallSound(h)'
        BY <1>1, <1>3, <2>1 DEF Sound, ProcSound, CidSound, CallSound, given, jobVars
    <2>5. kind[h] = "docker" \/ kind[h] = "scripted" \/ kind[h] = "direct"
        BY <1>1, LifecycleAssumption DEF TypeOK
    <2>6. KillSound(h)'
        BY <1>1, <1>3, <2>1, <2>5 DEF KillSound, Listed, given
    <2>7. Sound(h)' /\ early \subseteq early'
        BY <2>1, <2>4, <2>6 DEF Sound
    <2> QED BY <1>1, <1>2, <1>3, <2>1, <2>2, <2>3, <2>7, PoppedKeeps
<1> QED BY <1>4, <1>5

\* Once docker is killed, only a container that was noted may still live.
LEMMA KillKeeps ==
    ASSUME IInv, KillProcess, hpc \in {"pop", "last"} PROVE IInv'
<1>1. /\ TypeOK /\ hjob < 0 /\ hjob' = 0
      /\ UNCHANGED <<given, jobVars, term, timer, cid, toKill, hpc, early, signalled>>
    BY DEF IInv, KillProcess
<1>2. PICK h \in Jobs : hjob = -h /\ -hjob = h
    <2>1. hjob \in -NumJobs..NumJobs
        BY <1>1 DEF TypeOK
    <2>2. -hjob \in Jobs /\ hjob = -(-hjob)
        BY <1>1, <2>1, LifecycleAssumption DEF Jobs
    <2> QED BY <2>2
<1>3. Sound(h) /\ hjob' \in -NumJobs..NumJobs
    BY <1>1, SoundNow, LifecycleAssumption
<1>4. IF proc[h] = "running" THEN ProcEnds(h, "bad") ELSE UNCHANGED <<proc, tool, code>>
    BY <1>2 DEF KillProcess
<1>5. /\ proc'[h] = IF proc[h] = "running" THEN "ended" ELSE proc[h]
      /\ code'[h] = IF proc[h] = "running" THEN "bad" ELSE code[h]
      /\ tool'[h] = IF proc[h] = "running" /\ kind[h] = "direct" THEN "ended" ELSE tool[h]
    BY <1>1, <1>4 DEF TypeOK, ProcEnds
<1>6. OthersSame(h)
    BY <1>1, <1>4 DEF TypeOK, ProcEnds, OthersSame, SameAt, jobVars
<1>7. TypeOK'
    <2>1. /\ proc' \in [Jobs -> {"none", "running", "ended"}]
          /\ tool' \in [Jobs -> {"none", "running", "ended"}]
          /\ code' \in [Jobs -> Codes \cup {"none"}]
        <3>1. UNCHANGED <<proc, tool, code>> \/ ProcEnds(h, "bad")
            BY <1>4
        <3> QED BY <1>1, <3>1 DEF TypeOK, ProcEnds, Codes
    <2> QED BY <1>1, <1>3, <2>1 DEF TypeOK, given, jobVars
<1>8. ProcSound(h)' /\ CidSound(h)' /\ CallSound(h)'
    BY <1>1, <1>3, <1>5
    DEF Sound, ProcSound, CidSound, CallSound, TypeOK, given, jobVars
<1>9. KillSound(h)'
    <2>1. hjob # h
        BY <1>2, JobsFact
    <2>2. \/ kind[h] = "direct" /\ ~Live(h)'
          \/ kind[h] # "direct" /\ (Live(h)' => Live(h))
        BY <1>1, <1>3, <1>5 DEF TypeOK, Sound, ProcSound, Live
    <2>3. Listed(h) => kind[h] = "direct" \/ Listed(h)'
        BY <1>1, <2>1 DEF Listed
    <2> QED BY <1>1, <1>3, <2>2, <2>3 DEF Sound, KillSound, given, jobVars
<1>10. Sound(h)' /\ (proc[h] = "none" => proc'[h] = "none")
    BY <1>5, <1>8, <1>9 DEF Sound
<1> QED BY <1>1, <1>2, <1>6, <1>7, <1>10, PoppedKeeps

\* The main thread pops processes only at the end.
LEMMA PoppedAtEnd == ASSUME IInv, hjob # 0 PROVE hpc \in {"pop", "last"}
    BY DEF IInv, EndSound, Looping

LEMMA StutterKeeps == ASSUME IInv, UNCHANGED vars PROVE IInv'
<1>1. TypeOK'
    BY DEF IInv, TypeOK, vars, given, jobVars, osVars, exitVars
<1>2. \A j \in Jobs : Sound(j)'
    BY SoundNow, SameKeeps DEF SameAt, Listed, vars, given, jobVars, osVars, exitVars
<1>3. InTurn' /\ EndSound'
    BY DEF IInv, InTurn, EndSound, Gone, Looping, Over, vars, given, jobVars, osVars, exitVars
<1> QED BY <1>1, <1>2, <1>3 DEF IInv, Sound

(***************************************************************************)
(* The theorems.                                                           *)
(***************************************************************************)
LEMMA JobStepKeeps == ASSUME IInv, NEW j \in Jobs, JobStep(j) PROVE IInv'
    BY SpawnKeeps, FailsKeeps, ListKeeps, PollEndedKeeps, PollRunningKeeps,
       PeekKeeps, StatsFailKeeps, StatsEndKeeps, WaitKeeps, CollectKeeps,
       ScrubKeeps, ScrubRaisesKeeps, CallbackKeeps
    DEF JobStep

LEMMA OutsideStepKeeps ==
    ASSUME IInv, NEW j \in Jobs,
           ToolEnds(j) \/ Obey(j) \/ DockerStart(j) \/ TimerFires(j)
    PROVE  IInv'
    BY ToolEndsKeeps, DockerStartKeeps, TimerKeeps DEF ToolEnds, Obey

LEMMA EndStepKeeps == ASSUME IInv, EndStep PROVE IInv'
<1>1. CASE LookForContainer
    <2>1. hjob # 0
        BY <1>1 DEF LookForContainer
    <2> QED BY <1>1, <2>1, PoppedAtEnd, LookKeeps
<1>2. CASE KillProcess
    <2>1. hjob # 0
        BY <1>2 DEF KillProcess
    <2> QED BY <1>2, <2>1, PoppedAtEnd, KillKeeps
<1> QED BY <1>1, <1>2, MainEndsKeeps, PopKeeps, SysExitKeeps, LeaveKeeps DEF EndStep

\* The invariant holds of any number of jobs, whatever kinds they are.
THEOREM Invariance == Spec => []IInv
<1>1. IInv /\ [Next]_vars => IInv'
    BY JobStepKeeps, OutsideStepKeeps, SignalKeeps, EndStepKeeps, StutterKeeps
    DEF Next
<1> QED BY <1>1, Initially, PTL DEF Spec

\* Every job that was started calls back before a program that no signal
\* stopped ends: _execute reaches its callback past every failure but that of
\* removing a file with secrets.
THEOREM EveryJobCallsBackHolds == Spec => []EveryJobCallsBack
<1>1. IInv => EveryJobCallsBack
    <2> SUFFICES ASSUME IInv, Gone, ~signalled, NEW j \in Jobs
                 PROVE  calls[j] = 1 \/ (pc[j] = "raised" /\ j \in Secretive)
                        \/ (pc[j] = "aborted" /\ proc[j] = "none")
        BY DEF EveryJobCallsBack
    <2>1. Sound(j) /\ Over(j)
        BY SoundNow DEF IInv, EndSound, Gone
    <2>2. pc[j] \in {"aborted", "unlisted"} => pc[j] = "aborted" /\ proc[j] = "none"
        BY DEF IInv, EndSound
    <2> QED BY <2>1, <2>2 DEF Sound, CallSound, Over
<1> QED BY <1>1, Invariance, PTL

\* _execute takes a job for a success only from the return code of a process
\* that has ended and whose tool has ended with it.
THEOREM SuccessIsTheToolsHolds == Spec => []SuccessIsTheTools
<1>1. IInv => SuccessIsTheTools
    BY DEF IInv, Sound, ProcSound, SuccessIsTheTools, StatusOf
<1> QED BY <1>1, Invariance, PTL

\* _terminate_processes leaves no tool running but those it cannot reach.
THEOREM NothingLeftRunningHolds == Spec => []NothingLeftRunning
<1>1. IInv => NothingLeftRunning
    <2> SUFFICES ASSUME IInv, Gone, NEW j \in Jobs, tool[j] = "running",
                        kind[j] # "scripted", j \notin early
                 PROVE  pc[j] = "unlisted"
        BY DEF NothingLeftRunning
    <2>1. hjob = 0 /\ toKill = <<>> /\ Over(j)
        BY DEF IInv, EndSound, Gone, Looping
    <2>2. hjob # j /\ hjob # -j /\ Len(toKill) = 0
        BY <2>1, JobsFact
    <2>3. ~Listed(j)
        BY <2>2 DEF Listed
    <2> QED BY <2>1, <2>3 DEF IInv, KillSound, Live, Over
<1> QED BY <1>1, Invariance, PTL

\* The monitor of a container removes its cidfile before the job goes on,
\* unless reading the statistics failed.
THEOREM CidfileRemovedHolds == Spec => []CidfileRemoved
<1>1. IInv => CidfileRemoved
    BY DEF IInv, CidSound, CidfileRemoved, Past, Over
<1> QED BY <1>1, Invariance, PTL
=============================================================================
