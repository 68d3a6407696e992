----------------------- MODULE MutationManager_proofs -----------------------
(***************************************************************************)
(* Proofs about MutationManager, for any set of jobs and files.            *)
(***************************************************************************)
EXTENDS MutationManager, TLAPS

\* At the start no job has a file, and every File object has generation 0.
LEMMA InitIInv == Init => IInv
<1> SUFFICES ASSUME Init PROVE IInv
    OBVIOUS
<1>1. TypeOK
    BY DEF Init, TypeOK, File, Uses, Phases
<1>2. ObjectsBehind
    BY DEF Init, ObjectsBehind, File
<1>3. ReadersListed
    BY DEF Init, ReadersListed, Fresh, Reading, Active, Reads
<1>4. MutatorAhead
    BY DEF Init, MutatorAhead, Active
<1> QED BY <1>1, <1>2, <1>3, <1>4 DEF IInv

\* In a state of the inductive invariant, a job that updates f in place is
\* alone with f.
LEMMA IInvExclusive ==
    ASSUME IInv, NEW f \in Files, NEW j \in Jobs, NEW k \in Jobs,
           Active(j, f), use[j][f] = "mutate", Active(k, f)
    PROVE  j = k
<1>1. CASE use[k][f] = "mutate"
    BY <1>1 DEF IInv, MutatorAhead
<1>2. CASE use[k][f] \in Reads
    <2>1. gens[k][f] = generation[f]
        BY <1>2 DEF IInv, ReadersListed, Reading
    <2>2. File(f, generation[f]) \in objs
        BY <2>1 DEF IInv, ObjectsBehind
    <2> QED BY <2>2 DEF IInv, MutatorAhead
<1>3. use[k][f] \in Uses \ {"none"}
    BY DEF IInv, TypeOK, Active
<1> QED BY <1>1, <1>2, <1>3 DEF Uses, Reads

(***************************************************************************)
(* Every step preserves the invariant.                                     *)
(***************************************************************************)
LEMMA QuietIInv ==
    ASSUME IInv, NEW j \in Jobs, NEW p \in {"running", "refused", "lost", "done"},
           phase' = [phase EXCEPT ![j] = p],
           p = "running" => phase[j] = "register" /\ todo[j] = {},
           UNCHANGED <<generation, readers, objs, use, gens, todo>>
    PROVE  IInv'
<1>1. TypeOK' /\ ObjectsBehind'
    BY DEF IInv, TypeOK, ObjectsBehind, Phases, File
<1>2. \A k \in Jobs, h \in Files :
          /\ Active(k, h)' => Active(k, h)
          /\ Reading(k, h)' => Reading(k, h)
          /\ Fresh(k, h)' => Fresh(k, h)
          /\ phase'[k] = "release" => phase[k] = "release"
    BY DEF IInv, TypeOK, Active, Reading, Fresh
<1>3. ReadersListed' /\ MutatorAhead'
    BY <1>2 DEF IInv, ReadersListed, MutatorAhead, File
<1> QED BY <1>1, <1>3 DEF IInv

LEMMA MakeIInv == ASSUME IInv, NEW j \in Jobs, Make(j) PROVE IInv'
<1> PICK u \in [Files -> Uses], g \in [Files -> {o.gen : o \in objs}] :
        /\ \A f \in Files : File(f, g[f]) \in objs
        /\ use' = [use EXCEPT ![j] = u]
        /\ gens' = [gens EXCEPT ![j] = g]
        /\ todo' = [todo EXCEPT ![j] = {f \in Files : u[f] # "none"}]
    BY DEF Make
<1>0. /\ phase[j] = "idle" /\ phase' = [phase EXCEPT ![j] = "register"]
      /\ UNCHANGED <<generation, readers, objs>>
    BY DEF Make
<1> USE <1>0 DEF IInv
<1>1. TypeOK'
    <2>1. g \in [Files -> Nat]
        BY DEF TypeOK
    <2> QED BY <2>1 DEF TypeOK, Phases
<1>2. ObjectsBehind'
    BY DEF TypeOK, ObjectsBehind, File
<1>3. \A k \in Jobs, f \in Files :
          /\ Active(k, f)' => k # j /\ Active(k, f)
          /\ k # j => /\ (Reading(k, f)' <=> Reading(k, f))
                      /\ (Fresh(k, f)' <=> Fresh(k, f))
                      /\ use'[k] = use[k] /\ gens'[k] = gens[k]
                      /\ phase'[k] = phase[k] /\ todo'[k] = todo[k]
    BY DEF TypeOK, Active, Reading, Fresh
<1>4. phase'[j] # "release" /\ \A f \in Files : ~Reading(j, f)' /\ Fresh(j, f)
    BY DEF TypeOK, Active, Reading, Fresh, Reads
<1>5. ReadersListed'
    <2> SUFFICES ASSUME NEW k \in Jobs, NEW f \in Files
                 PROVE  /\ Fresh(k, f)' => readers[f][k] = 0
                        /\ Reading(k, f)' => /\ readers[f][k] > 0
                                             /\ gens'[k][f] = generation[f]
                        /\ phase'[k] = "release" /\ f \in todo'[k] =>
                               use'[k][f] \in Reads
        BY DEF ReadersListed
    <2>1. CASE k = j
        BY <1>4, <2>1 DEF ReadersListed
    <2>2. CASE k # j
        BY <1>3, <2>2 DEF ReadersListed
    <2> QED BY <2>1, <2>2
<1>6. MutatorAhead'
    <2> SUFFICES ASSUME NEW k \in Jobs, NEW f \in Files,
                        Active(k, f)', use'[k][f] = "mutate"
                 PROVE  /\ gens'[k][f] + 1 = generation[f]
                        /\ File(f, generation[f]) \notin objs
                        /\ \A i \in Jobs :
                               Active(i, f)' /\ use'[i][f] = "mutate" => k = i
        BY DEF MutatorAhead, File
    <2>1. k # j /\ Active(k, f) /\ use[k][f] = "mutate" /\ gens'[k] = gens[k]
        BY <1>3
    <2>2. \A i \in Jobs : Active(i, f)' /\ use'[i][f] = "mutate" =>
              Active(i, f) /\ use[i][f] = "mutate"
        BY <1>3
    <2> QED BY <2>1, <2>2 DEF MutatorAhead
<1> QED BY <1>1, <1>2, <1>5, <1>6

LEMMA RegisterReaderIInv ==
    ASSUME IInv, NEW j \in Jobs, NEW f \in Files, RegisterReader(j, f)
    PROVE  IInv'
<1> USE DEF IInv, RegisterReader
<1>1. CASE gens[j][f] # generation[f]
    BY <1>1, QuietIInv DEF Refuse
<1>2. CASE gens[j][f] = generation[f]
    <2> USE <1>2
    <2> DEFINE d == IF use[j][f] = "bound" THEN 2 ELSE 1
    <2>0. /\ readers' = [readers EXCEPT ![f] =
                            [readers[f] EXCEPT ![j] = readers[f][j] + d]]
          /\ todo' = [todo EXCEPT ![j] = todo[j] \ {f}]
          /\ UNCHANGED <<generation, objs, phase, use, gens>>
        BY DEF TypeOK
    <2>1. TypeOK' /\ ObjectsBehind'
        BY <2>0 DEF TypeOK, ObjectsBehind, File
    <2>2. \A k \in Jobs, h \in Files :
              <<k, h>> # <<j, f>> =>
                  /\ Active(k, h)' => Active(k, h)
                  /\ Reading(k, h)' => Reading(k, h)
                  /\ Fresh(k, h)' => Fresh(k, h)
                  /\ readers'[h][k] = readers[h][k]
        BY DEF TypeOK, Active, Reading, Fresh
    <2>3. ~Fresh(j, f)' /\ use[j][f] # "mutate" /\ Fresh(j, f)
        BY DEF TypeOK, Fresh, Reads
    <2>4. readers'[f][j] > 0
        BY <2>3 DEF TypeOK, ReadersListed
    <2>5. ReadersListed'
        BY <2>0, <2>2, <2>3, <2>4 DEF ReadersListed, TypeOK
    <2>6. MutatorAhead'
        BY <2>2, <2>3 DEF MutatorAhead, File
    <2> QED BY <2>1, <2>5, <2>6
<1> QED BY <1>1, <1>2

LEMMA RegisterMutationIInv ==
    ASSUME IInv, NEW j \in Jobs, NEW f \in Files, RegisterMutation(j, f)
    PROVE  IInv'
<1> USE DEF IInv, RegisterMutation
<1>1. CASE ~MayMutate(j, f)
    BY <1>1, QuietIInv DEF Refuse
<1>2. CASE MayMutate(j, f)
    <2> USE <1>2
    <2>0. /\ generation' = [generation EXCEPT ![f] = generation[f] + 1]
          /\ generation[f] \in Nat
          /\ todo' = [todo EXCEPT ![j] = todo[j] \ {f}]
          /\ UNCHANGED <<readers, objs, phase, use, gens>>
          /\ \A k \in Jobs : readers[f][k] = 0
          /\ gens[j][f] = generation[f]
        BY DEF MayMutate, TypeOK
    <2>1. TypeOK'
        BY <2>0 DEF TypeOK
    <2>2. ObjectsBehind'
        BY <2>0 DEF TypeOK, ObjectsBehind, File
    <2>3. \A k \in Jobs, h \in Files :
              (<<k, h>> # <<j, f>> /\ Active(k, h)') => Active(k, h)
        BY <2>0 DEF TypeOK, Active
    <2>4. \A k \in Jobs, h \in Files :
              /\ Reading(k, h)' => Reading(k, h) /\ h # f
              /\ Fresh(k, h)' => Fresh(k, h)
        <3>1. \A k \in Jobs : ~Reading(k, f)
            BY <2>0 DEF TypeOK, ReadersListed
        <3>2. \A k \in Jobs, h \in Files : Reading(k, h)' => Reading(k, h)
            BY <2>0 DEF TypeOK, Active, Reading, Reads
        <3>3. \A k \in Jobs, h \in Files : Fresh(k, h)' => Fresh(k, h)
            BY <2>0 DEF TypeOK, Fresh
        <3> QED BY <3>1, <3>2, <3>3
    <2>5. ReadersListed'
        BY <2>0, <2>4 DEF TypeOK, ReadersListed
    <2>6. \A k \in Jobs : Active(k, f)' /\ use'[k][f] = "mutate" => k = j
        <3> SUFFICES ASSUME NEW k \in Jobs, Active(k, f)', use'[k][f] = "mutate",
                            k # j
                     PROVE  FALSE
            OBVIOUS
        <3>1. Active(k, f) /\ use[k][f] = "mutate"
            BY <2>3
        <3>2. File(f, generation[f]) \in objs
            BY <2>0 DEF ObjectsBehind
        <3> QED BY <3>1, <3>2 DEF MutatorAhead
    <2>7. File(f, generation'[f]) \notin objs'
        BY <2>0 DEF TypeOK, ObjectsBehind, File
    <2>8. MutatorAhead'
        BY <2>0, <2>3, <2>6, <2>7 DEF TypeOK, MutatorAhead, File
    <2> QED BY <2>1, <2>2, <2>5, <2>8
<1> QED BY <1>1, <1>2

LEMMA CollectIInv == ASSUME IInv, NEW j \in Jobs, Collect(j) PROVE IInv'
<1> PICK out \in SUBSET {f \in Files : use[j][f] # "none"} :
        objs' = objs \cup {File(f, generation[f]) : f \in out}
    BY DEF Collect
<1> USE DEF Collect
<1>1. TypeOK'
    BY DEF IInv, TypeOK, File, Phases
<1>2. ObjectsBehind'
    BY DEF IInv, TypeOK, ObjectsBehind, File
<1>3. \A k \in Jobs, h \in Files :
          /\ Active(k, h)' => k # j /\ Active(k, h)
          /\ Reading(k, h)' => Reading(k, h)
          /\ Fresh(k, h)' => Fresh(k, h)
    <2>1. /\ todo' = [todo EXCEPT ![j] = {f \in Files : use[j][f] \in Reads}]
          /\ phase' = [phase EXCEPT ![j] = "release"]
          /\ phase[j] = "running"
          /\ UNCHANGED <<generation, readers, use, gens>>
        OBVIOUS
    <2>2. \A k \in Jobs, h \in Files : Active(k, h)' => k # j /\ Active(k, h)
        BY <2>1 DEF IInv, TypeOK, Active
    <2>3. \A k \in Jobs, h \in Files : Reading(k, h)' => Reading(k, h)
        BY <2>1 DEF IInv, TypeOK, Active, Reading, Reads
    <2>4. \A k \in Jobs, h \in Files : Fresh(k, h)' => Fresh(k, h)
        BY <2>1 DEF IInv, TypeOK, Fresh
    <2> QED BY <2>2, <2>3, <2>4
<1>4. ReadersListed'
    BY <1>3 DEF IInv, TypeOK, ReadersListed
<1>5. \A k \in Jobs, h \in Files :
          Active(k, h)' /\ use'[k][h] = "mutate" => h \notin out
    <2> SUFFICES ASSUME NEW k \in Jobs, NEW h \in out,
                        Active(k, h)', use'[k][h] = "mutate"
                 PROVE  FALSE
        OBVIOUS
    <2>1. k # j /\ Active(k, h) /\ use[k][h] = "mutate"
        BY <1>3
    <2>2. Active(j, h)
        BY DEF Active
    <2> QED BY <2>1, <2>2, IInvExclusive
<1>6. \A k \in Jobs, h \in Files :
          Active(k, h)' /\ use'[k][h] = "mutate" =>
              File(h, generation'[h]) \notin objs'
    <2> SUFFICES ASSUME NEW k \in Jobs, NEW h \in Files,
                        Active(k, h)', use'[k][h] = "mutate"
                 PROVE  File(h, generation[h]) \notin objs'
        BY DEF File
    <2>1. File(h, generation[h]) \notin objs
        BY <1>3 DEF IInv, MutatorAhead
    <2>2. File(h, generation[h]) \notin {File(f, generation[f]) : f \in out}
        BY <1>5 DEF File
    <2> QED BY <2>1, <2>2
<1>7. MutatorAhead'
    BY <1>3, <1>6 DEF IInv, MutatorAhead, File
<1> QED BY <1>1, <1>2, <1>4, <1>7 DEF IInv

LEMMA ReleaseIInv ==
    ASSUME IInv, NEW j \in Jobs, NEW f \in Files, Release(j, f)
    PROVE  IInv'
<1> USE DEF IInv, Release
<1>1. CASE gens[j][f] = generation[f]
    <2>0. /\ readers' = [readers EXCEPT ![f] =
                            [readers[f] EXCEPT ![j] = readers[f][j] - 1]]
          /\ todo' = [todo EXCEPT ![j] = todo[j] \ {f}]
          /\ phase[j] = "release" /\ f \in todo[j]
          /\ UNCHANGED <<generation, objs, phase, use, gens>>
        BY <1>1 DEF TypeOK
    <2>1. \A k \in Jobs, h \in Files :
              /\ Active(k, h)' => Active(k, h)
              /\ Reading(k, h)' => Reading(k, h) /\ <<k, h>> # <<j, f>>
              /\ Fresh(k, h)' => Fresh(k, h) /\ k # j
        BY <2>0 DEF TypeOK, Active, Reading, Fresh
    <2>2. \A k \in Jobs, h \in Files :
              <<k, h>> # <<j, f>> => readers'[h][k] = readers[h][k]
        BY <2>0 DEF TypeOK
    <2>3. use[j][f] \in Reads /\ readers[f][j] > 0
        BY <2>0 DEF ReadersListed, Reading
    <2>4. TypeOK' /\ ObjectsBehind'
        BY <2>0, <2>3 DEF TypeOK, ObjectsBehind, File
    <2>5. ReadersListed'
        BY <2>0, <2>1, <2>2 DEF TypeOK, ReadersListed
    <2>6. MutatorAhead'
        BY <2>0, <2>1 DEF MutatorAhead, File
    <2> QED BY <2>4, <2>5, <2>6
<1>2. CASE gens[j][f] # generation[f]
    <2>0. /\ phase' = [phase EXCEPT ![j] = "lost"]
          /\ phase[j] = "release"
          /\ UNCHANGED <<generation, readers, objs, use, gens, todo>>
        BY <1>2
    <2> QED BY <2>0, QuietIInv
<1> QED BY <1>1, <1>2

LEMMA NextIInv == IInv /\ [Next]_vars => IInv'
<1> SUFFICES ASSUME IInv, [Next]_vars PROVE IInv'
    OBVIOUS
<1>1. ASSUME NEW j \in Jobs, JobStep(j) PROVE IInv'
    <2>1. CASE Make(j)
        BY <2>1, MakeIInv
    <2>2. CASE Run(j)
        BY <2>2, QuietIInv DEF Run
    <2>3. CASE Lose(j)
        BY <2>3, QuietIInv DEF Lose
    <2>4. CASE Collect(j)
        BY <2>4, CollectIInv
    <2>5. CASE Finish(j)
        BY <2>5, QuietIInv DEF Finish
    <2>6. CASE \E f \in Files : RegisterReader(j, f)
        BY <2>6, RegisterReaderIInv
    <2>7. CASE \E f \in Files : RegisterMutation(j, f)
        BY <2>7, RegisterMutationIInv
    <2>8. CASE \E f \in Files : Release(j, f)
        BY <2>8, ReleaseIInv
    <2> QED BY <1>1, <2>1, <2>2, <2>3, <2>4, <2>5, <2>6, <2>7, <2>8 DEF JobStep
<1>2. CASE UNCHANGED vars
    BY <1>2 DEF vars, IInv, TypeOK, ObjectsBehind, ReadersListed, MutatorAhead,
                Fresh, Reading, Active, File
<1> QED BY <1>1, <1>2 DEF Next

\* The inductive invariant holds in every reachable state.
THEOREM Invariance == Spec => []IInv
BY InitIInv, NextIInv, PTL DEF Spec

\* Variables keep their types; in particular no list of readers loses an
\* entry that is not there.
THEOREM TypeCorrect == Spec => []TypeOK
<1>1. IInv => TypeOK
    BY DEF IInv
<1> QED BY Invariance, <1>1, PTL

\* A file that one job updates in place is not used by any other job
\* meanwhile, whatever jobs and files there are.
THEOREM ExclusiveHolds == Spec => []Exclusive
<1>1. IInv => Exclusive
    BY IInvExclusive DEF Exclusive
<1> QED BY Invariance, <1>1, PTL

\* release_reader never meets another generation than the job registered.
THEOREM ReleaseAcceptedHolds == Spec => []ReleaseAccepted
<1>1. IInv => ReleaseAccepted
    BY DEF IInv, TypeOK, ReleaseAccepted, ReadersListed, Reading
<1> QED BY Invariance, <1>1, PTL

\* While a job updates a file in place, no File object in circulation has the
\* generation that the job is making.
THEOREM NoPeekingHolds == Spec => []NoPeeking
<1>1. IInv => NoPeeking
    BY DEF IInv, NoPeeking, MutatorAhead
<1> QED BY Invariance, <1>1, PTL
=============================================================================
