--------------------------- MODULE Scatter_proofs ---------------------------
(***************************************************************************)
(* Proofs about Scatter, for arrays of any length and any outcomes of the  *)
(* items.                                                                  *)
(***************************************************************************)
EXTENDS Scatter, FiniteSetTheorems, TLAPS

-----------------------------------------------------------------------------
(* The places of the items in a flat result. *)

LEMMA LaterRow ==
    ASSUME NEW c \in Nat, NEW g \in Nat, NEW h \in Nat, g < h
    PROVE  /\ (g - 1) * c + c <= (h - 1) * c
           /\ (g - 1) * c \in Int /\ (h - 1) * c \in Int
<1>1. PICK k \in Nat : h = g + 1 + k
    <2>1. h = g + 1 + (h - g - 1) /\ h - g - 1 \in Nat
        OBVIOUS
    <2> QED BY <2>1
<1>2. k * c \in Nat /\ (g - 1) * c \in Int
    OBVIOUS
<1>3. (h - 1) * c = (g - 1) * c + c + k * c
    BY <1>1
<1> QED BY <1>2, <1>3

LEMMA FlatPlace ==
    ASSUME NEW g \in 1..Rows, NEW i \in 1..Cols
    PROVE  (g - 1) * Cols + i \in 1..(Rows * Cols)
<1> USE ScatterAssumption
<1>1. (g - 1) * Cols + Cols <= Rows * Cols /\ (g - 1) * Cols \in Int
    <2>1. (Rows + 1 - 1) * Cols = Rows * Cols
        OBVIOUS
    <2> QED BY <2>1, LaterRow
<1>2. 0 <= (g - 1) * Cols
    <2>1. CASE g = 1
        BY <2>1
    <2>2. CASE 1 < g
        <3>1. (1 - 1) * Cols + Cols <= (g - 1) * Cols
            BY <2>2, LaterRow
        <3> QED BY <3>1, <1>1
    <2> QED BY <2>1, <2>2
<1> QED BY <1>1, <1>2

LEMMA FlatPlaceInjective ==
    ASSUME NEW g \in 1..Rows, NEW i \in 1..Cols, NEW h \in 1..Rows, NEW j \in 1..Cols,
           (g - 1) * Cols + i = (h - 1) * Cols + j
    PROVE  g = h /\ i = j
<1> USE ScatterAssumption
<1>1. ~(g < h)
    <2> SUFFICES ASSUME g < h PROVE FALSE
        OBVIOUS
    <2> QED BY LaterRow
<1>2. ~(h < g)
    <2> SUFFICES ASSUME h < g PROVE FALSE
        OBVIOUS
    <2> QED BY LaterRow
<1>3. g = h
    BY <1>1, <1>2
<1>4. (g - 1) * Cols \in Int
    OBVIOUS
<1> QED BY <1>3, <1>4

LEMMA PlaceOf ==
    ASSUME NEW a \in 0..(Rows - 1), NEW b \in 0..(Cols - 1)
    PROVE  \E g \in 1..Rows : \E i \in 1..Cols :
               a * Cols + (b + 1) = (g - 1) * Cols + i
<1>1. a + 1 \in 1..Rows /\ b + 1 \in 1..Cols /\ (a + 1) - 1 = a
    BY ScatterAssumption
<1>2. a * Cols + (b + 1) = ((a + 1) - 1) * Cols + (b + 1)
    BY <1>1
<1> QED BY <1>1, <1>2, Zenon

LEMMA FlatPlaceOnto ==
    ASSUME NEW k \in 1..(Rows * Cols)
    PROVE  \E g \in 1..Rows : \E i \in 1..Cols : k = (g - 1) * Cols + i
<1> USE ScatterAssumption
<1> DEFINE q == (k - 1) \div Cols
           m == (k - 1) % Cols
<1>1. Cols > 0
    OBVIOUS
<1>2. /\ q \in Nat /\ m \in 0..(Cols - 1)
      /\ k - 1 = q * Cols + m
    BY <1>1
<1>3. q < Rows
    <2> SUFFICES ASSUME Rows <= q PROVE FALSE
        BY <1>2
    <2>1. q = Rows \/ Rows < q
        BY <1>2
    <2>2. Rows * Cols <= q * Cols
        BY <1>2, <2>1, LaterRow
    <2> QED BY <1>2, <2>2
<1>4. q \in 0..(Rows - 1) /\ m \in 0..(Cols - 1)
    BY <1>2, <1>3
<1> HIDE DEF q, m
<1>5. k = q * Cols + (m + 1)
    BY <1>2
<1>6. \E g \in 1..Rows : \E i \in 1..Cols :
          q * Cols + (m + 1) = (g - 1) * Cols + i
    BY <1>4, PlaceOf, Zenon
<1> QED BY <1>5, <1>6, Zenon

LEMMA ItemParts ==
    ASSUME NEW x \in Items
    PROVE  x[1] \in 1..Rows /\ x[2] \in 1..Cols /\ x = <<x[1], x[2]>>
    BY DEF Items

LEMMA TotalTypes ==
    /\ Rows \in Nat /\ Cols \in Nat /\ Rows * Cols \in Nat
    /\ \A r : Total(r) \in Nat
    BY ScatterAssumption DEF Total

LEMMA TargetFacts ==
    /\ Top \in Targets /\ Top \notin 1..Rows
    /\ ~Nested => Targets = {Top}
    /\ Nested => Targets = {Top} \cup (1..Rows)
    /\ \A x \in Items : Target(x) \in Targets
    BY ScatterAssumption, ItemParts DEF Targets, Target, Top

LEMMA IndexInRange ==
    ASSUME NEW x \in Items
    PROVE  Index(x) \in 1..Total(Target(x))
<1>1. x[1] \in 1..Rows /\ x[2] \in 1..Cols
    BY ItemParts
<1>2. (x[1] - 1) * Cols + x[2] \in 1..(Rows * Cols)
    BY <1>1, FlatPlace
<1>3. Top \notin 1..Rows
    BY DEF Top
<1> QED BY <1>1, <1>2, <1>3 DEF Index, Total, Target

LEMMA IndexInjective ==
    ASSUME NEW x \in Items, NEW y \in Items,
           Target(x) = Target(y), Index(x) = Index(y)
    PROVE  x = y
<1>1. /\ x[1] \in 1..Rows /\ x[2] \in 1..Cols /\ x = <<x[1], x[2]>>
      /\ y[1] \in 1..Rows /\ y[2] \in 1..Cols /\ y = <<y[1], y[2]>>
    BY ItemParts
<1>2. x[1] = y[1] /\ x[2] = y[2]
    <2>1. CASE Nested
        BY <2>1 DEF Target, Index
    <2>2. CASE ~Nested
        <3>1. (x[1] - 1) * Cols + x[2] = (y[1] - 1) * Cols + y[2]
            BY <2>2 DEF Index
        <3> QED BY <1>1, <3>1, FlatPlaceInjective
    <2> QED BY <2>1, <2>2
<1> QED BY <1>1, <1>2

LEMMA IndexOnto ==
    ASSUME ~Nested, NEW k \in 1..Total(Top)
    PROVE  \E x \in Items : Index(x) = k
<1>1. PICK g \in 1..Rows, i \in 1..Cols : k = (g - 1) * Cols + i
    BY FlatPlaceOnto DEF Total
<1>2. <<g, i>> \in Items /\ Index(<<g, i>>) = k
    BY <1>1 DEF Items, Index
<1> QED BY <1>2

\* The calls of setTotal are neither items nor each other.
LEMMA CallFacts ==
    /\ \A r \in Targets : Call(r) \notin Items
    /\ \A r, q \in Targets : Call(r) = Call(q) => r = q
<1>1. \A r \in Targets : r = Top \/ r \in 1..Rows
    BY TargetFacts
<1>2. \A r \in Targets : r # Top =>
          Call(r) = <<r, Cols + 1>> /\ r < Rows + 1 /\ r \in Nat
    BY <1>1, ScatterAssumption DEF Call
<1>3. Call(Top) = <<Rows + 1, 1>>
    BY DEF Call
<1>4. Rows + 1 \notin 1..Rows /\ Cols + 1 \notin 1..Cols /\ Rows \in Nat
    BY ScatterAssumption
<1>5. \A r \in Targets : Call(r) \notin Items
    BY <1>2, <1>3, <1>4, ItemParts
<1>6. \A r, q \in Targets : Call(r) = Call(q) => r = q
    BY <1>2, <1>3, <1>4
<1> QED BY <1>5, <1>6

\* The call of setTotal on the outer ReceiveScatterOutput is the last.
LEMMA TopIsLast ==
    ASSUME TypeOK, Due(Call(Top))
    PROVE  todo = {Call(Top)}
<1>1. \A y \in todo \ {Call(Top)} : y[1] \in 1..Rows
    <2>1. \A y \in todo : y \in Items \/ \E r \in Targets : y = Call(r)
        BY DEF TypeOK
    <2>2. \A r \in Targets \ {Top} : Call(r)[1] \in 1..Rows
        BY TargetFacts DEF Call
    <2> QED BY <2>1, <2>2, ItemParts
<1>2. \A y \in todo \ {Call(Top)} : Rows + 1 < y[1] \/ Rows + 1 = y[1]
    BY DEF Due, Before, Call
<1>3. todo \ {Call(Top)} = {}
    BY <1>1, <1>2, ScatterAssumption
<1> QED BY <1>3 DEF Due

-----------------------------------------------------------------------------
(* receive_scatter_output *)

\* All indices have been heard of when there are as many as the total.
LEMMA FullRange ==
    ASSUME NEW n \in Nat, NEW S \in SUBSET (1..n)
    PROVE  /\ IsFiniteSet(S) /\ Cardinality(S) \in Nat /\ Cardinality(S) <= n
           /\ Cardinality(S) = n <=> S = 1..n
           /\ Cardinality(S) = 0 <=> S = {}
<1>1. IsFiniteSet(1..n) /\ Cardinality(1..n) = n
    BY FS_Interval
<1>2. IsFiniteSet(S) /\ Cardinality(S) <= n /\ (Cardinality(S) = n => S = 1..n)
    BY <1>1, FS_Subset
<1> QED BY <1>1, <1>2, FS_CardinalityType, FS_EmptySet

LEMMA CompletesFull ==
    ASSUME NEW n \in Nat, NEW c, c.got \subseteq 1..n, c.total \in {0, n},
           NEW index \in 1..n
    PROVE  Completes(c, index) <=>
               c.total = n /\ index \notin c.got /\ c.got \cup {index} = 1..n
<1>1. c.got \cup {index} \in SUBSET (1..n)
    OBVIOUS
<1>2. /\ Cardinality(c.got \cup {index}) = n <=> c.got \cup {index} = 1..n
      /\ Cardinality(c.got \cup {index}) # 0
    BY <1>1, FullRange
<1> QED BY <1>2 DEF Completes

\* The status of a ReceiveScatterOutput that was old and hears of st.
Worse(old, st) == IF st = "success" \/ old = "permanentFail" THEN old ELSE st

LEMMA ReceivedFields ==
    ASSUME NEW c \in [got : SUBSET Nat, status : Statuses, total : Nat],
           NEW index \in Nat, NEW st \in Statuses
    PROVE  /\ Received(c, index, st)
                  \in [got : SUBSET Nat, status : Statuses, total : Nat]
           /\ Received(c, index, st).got = c.got \cup {index}
           /\ Received(c, index, st).status = Worse(c.status, st)
           /\ Received(c, index, st).total = c.total
    BY DEF Received, Worse

Records == [Targets -> [got : SUBSET Nat, status : Statuses, total : Nat]]

\* What the outer ReceiveScatterOutput, or the only one, makes of an index.
LEMMA TopHears ==
    ASSUME TypeOK, NEW others \in Records, others[Top] = rc[Top],
           NEW index \in 1..Total(Top), NEW st \in Statuses,
           ReceiveTop(index, st, others)
    PROVE  /\ rc' \in Records
           /\ \A r \in Targets : r # Top => rc'[r] = others[r]
           /\ rc'[Top].got = rc[Top].got \cup {index}
           /\ rc'[Top].status = Worse(rc[Top].status, st)
           /\ rc'[Top].total = rc[Top].total
           /\ reports' = IF /\ rc[Top].total = Total(Top)
                            /\ index \notin rc[Top].got
                            /\ rc[Top].got \cup {index} = 1..Total(Top)
                         THEN Append(reports, rc'[Top].status) ELSE reports
<1> DEFINE c == Received(rc[Top], index, st)
<1>1. /\ rc' = [others EXCEPT ![Top] = c]
      /\ reports' = IF Completes(rc[Top], index) THEN Append(reports, c.status)
                    ELSE reports
    BY DEF ReceiveTop
<1>2. /\ Top \in Targets /\ rc[Top].got \subseteq 1..Total(Top)
      /\ rc[Top].total \in {0, Total(Top)}
      /\ rc[Top] \in [got : SUBSET Nat, status : Statuses, total : Nat]
    BY TargetFacts DEF TypeOK
<1>3. /\ c \in [got : SUBSET Nat, status : Statuses, total : Nat]
      /\ c.got = rc[Top].got \cup {index}
      /\ c.status = Worse(rc[Top].status, st)
      /\ c.total = rc[Top].total
    BY <1>2, ReceivedFields, TotalTypes
<1>4. Completes(rc[Top], index) <=>
          /\ rc[Top].total = Total(Top)
          /\ index \notin rc[Top].got
          /\ rc[Top].got \cup {index} = 1..Total(Top)
    BY <1>2, CompletesFull, TotalTypes
<1> HIDE DEF c
<1> QED BY <1>1, <1>2, <1>3, <1>4 DEF Records

LEMMA WorseFacts ==
    ASSUME NEW old \in Statuses, NEW st \in Statuses
    PROVE  /\ Worse(old, st) \in Statuses
           /\ old = "permanentFail" \/ st = "permanentFail"
                 => Worse(old, st) = "permanentFail"
           /\ old \in {"success", "skipped"} /\ st \in {"success", "skipped"}
                 => Worse(old, st) \in {"success", "skipped"}
    BY DEF Worse, Statuses

\* An item of a dotproduct or a flat crossproduct has ended.
LEMMA FlatReceive ==
    ASSUME TypeOK, ~Nested, NEW x \in Items, NEW st \in Statuses, Receive(x, st)
    PROVE  /\ rc' \in Records
           /\ rc'[Top].got = rc[Top].got \cup {Index(x)}
           /\ rc'[Top].status = Worse(rc[Top].status, st)
           /\ rc'[Top].total = rc[Top].total
           /\ reports' = IF /\ rc[Top].total = Total(Top)
                            /\ Index(x) \notin rc[Top].got
                            /\ rc[Top].got \cup {Index(x)} = 1..Total(Top)
                         THEN Append(reports, rc'[Top].status) ELSE reports
<1>1. ReceiveTop(Index(x), st, rc) /\ rc \in Records
    BY DEF Receive, TypeOK, Records
<1>2. Index(x) \in 1..Total(Top)
    BY IndexInRange DEF Target
<1> QED BY <1>1, <1>2, TopHears

\* An item of a nested crossproduct has ended: its row hears of it, and the
\* outer ReceiveScatterOutput when the row is full.
LEMMA NestedReceive ==
    ASSUME TypeOK, Nested, TotalsSound, NEW g \in 1..Rows, NEW i \in 1..Cols,
           i \notin rc[g].got, NEW st \in Statuses, Receive(<<g, i>>, st)
    PROVE  /\ rc' \in Records
           /\ \A h \in 1..Rows : h # g => rc'[h] = rc[h]
           /\ rc'[g].got = rc[g].got \cup {i}
           /\ rc'[g].status = Worse(rc[g].status, st)
           /\ rc'[g].total = rc[g].total
           /\ rc'[Top].total = rc[Top].total
           /\ rc'[g].got # 1..Cols => rc'[Top] = rc[Top] /\ reports' = reports
           /\ rc'[g].got = 1..Cols =>
                 /\ rc'[Top].got = rc[Top].got \cup {g}
                 /\ rc'[Top].status = Worse(rc[Top].status, rc'[g].status)
                 /\ reports' = IF /\ rc[Top].total = Total(Top)
                                  /\ g \notin rc[Top].got
                                  /\ rc[Top].got \cup {g} = 1..Total(Top)
                               THEN Append(reports, rc'[Top].status) ELSE reports
<1> DEFINE c == Received(rc[g], i, st)
<1>1. /\ g \in Targets /\ Top \in Targets /\ g # Top /\ g \in Nat /\ i \in Nat
      /\ \A h \in 1..Rows : h \in Targets /\ h # Top
    BY TargetFacts, ScatterAssumption
<1>2. /\ rc \in Records /\ rc[g].got \subseteq 1..Cols
      /\ rc[g] \in [got : SUBSET Nat, status : Statuses, total : Nat]
      /\ rc[g].total = Cols /\ Cols \in Nat
    BY <1>1, ScatterAssumption DEF TypeOK, Total, TotalsSound, Nested, Records
<1>3. /\ c \in [got : SUBSET Nat, status : Statuses, total : Nat]
      /\ c.got = rc[g].got \cup {i}
      /\ c.status = Worse(rc[g].status, st)
      /\ c.total = rc[g].total
    BY <1>1, <1>2, ReceivedFields
<1>4. Completes(rc[g], i) <=> c.got = 1..Cols
    BY <1>2, <1>3, CompletesFull
<1>5. Receive(<<g, i>>, st) =
          IF Completes(rc[g], i) THEN ReceiveTop(g, c.status, [rc EXCEPT ![g] = c])
          ELSE rc' = [rc EXCEPT ![g] = c] /\ UNCHANGED reports
    BY DEF Receive, Index
<1> DEFINE others == [rc EXCEPT ![g] = c]
<1>6. /\ others \in Records /\ others[g] = c /\ others[Top] = rc[Top]
      /\ \A h \in 1..Rows : h # g => others[h] = rc[h]
    BY <1>1, <1>2, <1>3 DEF Records
<1> HIDE DEF c, others
<1>7. CASE c.got = 1..Cols
    <2>1. ReceiveTop(g, c.status, others)
        BY <1>4, <1>5, <1>7 DEF others
    <2>2. g \in 1..Total(Top) /\ c.status \in Statuses
        BY <1>3 DEF Total
    <2>3. /\ rc' \in Records
          /\ \A r \in Targets : r # Top => rc'[r] = others[r]
          /\ rc'[Top].got = rc[Top].got \cup {g}
          /\ rc'[Top].status = Worse(rc[Top].status, c.status)
          /\ rc'[Top].total = rc[Top].total
          /\ reports' = IF /\ rc[Top].total = Total(Top)
                           /\ g \notin rc[Top].got
                           /\ rc[Top].got \cup {g} = 1..Total(Top)
                        THEN Append(reports, rc'[Top].status) ELSE reports
        BY <1>6, <2>1, <2>2, TopHears
    <2> QED BY <1>1, <1>3, <1>6, <1>7, <2>3
<1>8. CASE c.got # 1..Cols
    <2>1. rc' = others /\ reports' = reports
        BY <1>4, <1>5, <1>8 DEF others
    <2> QED BY <1>1, <1>3, <1>6, <1>8, <2>1
<1> QED BY <1>7, <1>8

-----------------------------------------------------------------------------
(* An item ends, in whichever way. *)

\* What MakeItem of a skipped item, MakeFails and EndJob have in common.
ItemEnds(x, st) ==
    /\ ~Ended(x)
    /\ todo' = todo \ {x}
    /\ todo # {} => x \in skip /\ st = "skipped" /\ gen = "main"
    /\ phase' = [phase EXCEPT ![x] = "ended"]
    /\ result' = [result EXCEPT ![x] = st]
    /\ Receive(x, st)
    /\ UNCHANGED <<docVars, gen>>

Ends == Outcomes \cup {"skipped", "permanentFail"}

LEMMA EndsAreStatuses == Ends \subseteq Statuses
    BY ScatterAssumption DEF Ends, Statuses

\* While an item has not ended, nothing was reported.
LEMMA NothingReported ==
    ASSUME IInv, NEW x \in Items, ~Ended(x)
    PROVE  reports = <<>> /\ rc[Top].got # 1..Total(Top)
<1>1. ASSUME rc[Top].got = 1..Total(Top) PROVE FALSE
    <2>1. CASE ~Nested
        <3>1. Index(x) \in rc[Top].got
            BY <1>1, <2>1, IndexInRange DEF Target
        <3> QED BY <2>1, <3>1 DEF IInv, HeardSound
    <2>2. CASE Nested
        <3>1. x[1] \in 1..Rows /\ x[2] \in 1..Cols /\ x = <<x[1], x[2]>>
            BY ItemParts
        <3>2. x[1] \in rc[Top].got
            BY <1>1, <2>2, <3>1 DEF Total
        <3>3. x[2] \in rc[x[1]].got
            BY <2>2, <3>1, <3>2 DEF IInv, HeardSound
        <3> QED BY <2>2, <3>1, <3>3 DEF IInv, HeardSound
    <2> QED BY <2>1, <2>2
<1> QED BY <1>1 DEF IInv, ReportSound

\* The parts of the state that a ReceiveScatterOutput does not decide.
LEMMA EndsTypes ==
    ASSUME IInv, NEW x \in Items, NEW st \in Ends, ItemEnds(x, st)
    PROVE  /\ todo' \subseteq Items \cup {Call(r) : r \in Targets}'
           /\ \A r \in Targets : Call(r) \in todo' <=> Call(r) \in todo
           /\ phase' \in [Items -> {"new", "ready", "running", "ended"}]
           /\ result' \in [Items -> Outcomes \cup {"none", "skipped", "permanentFail"}]
           /\ \A y \in Items : /\ Ended(y)' <=> y = x \/ Ended(y)
                               /\ result'[y] = IF y = x THEN st ELSE result[y]
           /\ \A y \in Items : y \in todo' <=> phase'[y] = "new"
           /\ todo' # {} => /\ Call(Top) \in todo' /\ gen' = "main"
                            /\ st = "skipped"
                            /\ \A y \in Items : /\ phase'[y] # "running"
                                                /\ Ended(y)' => y \in skip'
<1>1. /\ todo' = todo \ {x} /\ phase' = [phase EXCEPT ![x] = "ended"]
      /\ result' = [result EXCEPT ![x] = st]
      /\ UNCHANGED <<method, onError, skip, gen>>
      /\ todo # {} => x \in skip /\ st = "skipped" /\ gen = "main"
    BY DEF ItemEnds, docVars
<1>2. /\ todo \subseteq Items \cup {Call(r) : r \in Targets}
      /\ phase \in [Items -> {"new", "ready", "running", "ended"}]
      /\ result \in [Items -> Outcomes \cup {"none", "skipped", "permanentFail"}]
    BY DEF IInv, TypeOK
<1>3. Targets' = Targets
    BY <1>1 DEF Targets, Nested
<1>4. \A r \in Targets : Call(r) \in todo' <=> Call(r) \in todo
    BY <1>1, CallFacts
<1>5. todo' \subseteq Items \cup {Call(r) : r \in Targets}'
    BY <1>1, <1>2, <1>3
<1>6. /\ phase' \in [Items -> {"new", "ready", "running", "ended"}]
      /\ result' \in [Items -> Outcomes \cup {"none", "skipped", "permanentFail"}]
    BY <1>1, <1>2 DEF Ends
<1>7. \A y \in Items : /\ Ended(y)' <=> y = x \/ Ended(y)
                       /\ result'[y] = IF y = x THEN st ELSE result[y]
    BY <1>1, <1>2 DEF Ended
<1>8. \A y \in Items : y \in todo' <=> phase'[y] = "new"
    BY <1>1, <1>2 DEF IInv, SetupSound
<1>9. todo' # {} => /\ Call(Top) \in todo' /\ gen' = "main" /\ st = "skipped"
                    /\ \A y \in Items : /\ phase'[y] # "running"
                                        /\ Ended(y)' => y \in skip'
    <2> SUFFICES ASSUME todo' # {}
                 PROVE  /\ Call(Top) \in todo' /\ gen' = "main" /\ st = "skipped"
                        /\ \A y \in Items : /\ phase'[y] # "running"
                                            /\ Ended(y)' => y \in skip'
        OBVIOUS
    <2>1. todo # {}
        BY <1>1
    <2>2. /\ Call(Top) \in todo /\ gen = "main"
          /\ \A y \in Items : phase[y] # "running" /\ (Ended(y) => y \in skip)
        BY <1>1, <2>1 DEF IInv, SetupSound
    <2>3. \A y \in Items : phase'[y] # "running"
        BY <1>1, <1>2, <2>2
    <2> QED BY <1>1, <1>4, <1>7, <2>1, <2>2, <2>3, TargetFacts
<1> QED BY <1>4, <1>5, <1>6, <1>7, <1>8, <1>9

\* What the step's callback was called with, when an item ends.
LEMMA EndsReports ==
    ASSUME IInv, NEW x \in Items, NEW st \in Ends, ItemEnds(x, st),
           rc'[Top].got \in SUBSET Nat, rc'[Top].status \in Statuses,
           \/ rc'[Top].got = rc[Top].got /\ reports' = reports
           \/ /\ rc'[Top].got # rc[Top].got
              /\ rc'[Top].got \subseteq 1..Total(Top)
              /\ reports' = IF /\ rc[Top].total = Total(Top)
                               /\ rc'[Top].got = 1..Total(Top)
                            THEN Append(reports, rc'[Top].status) ELSE reports
    PROVE  /\ reports' \in Seq(Statuses)
           /\ ReportSound' /\ CalledOnce'
           /\ reports' # <<>> => method # "flat_crossproduct" \/ Call(Top) \notin todo
<1>1. /\ UNCHANGED <<method, onError, skip, gen>>
      /\ reports = <<>> /\ rc[Top].got # 1..Total(Top)
    BY NothingReported DEF ItemEnds, docVars
<1>2. Total(Top)' = Total(Top)
    BY <1>1 DEF Total, Nested
<1>3. reports' # <<>> =>
          /\ reports' = <<rc'[Top].status>>
          /\ rc'[Top].got = 1..Total(Top)
          /\ rc[Top].total = Total(Top)
          /\ rc'[Top].got # rc[Top].got
    BY <1>1
<1>4. reports' \in Seq(Statuses) /\ Len(reports') <= 1
    <2>1. CASE reports' = <<>>
        BY <2>1
    <2>2. CASE reports' # <<>>
        <3> DEFINE v == rc'[Top].status
        <3>1. reports' = <<v>> /\ v \in Statuses
            BY <1>3, <2>2
        <3> HIDE DEF v
        <3> QED BY <3>1
    <2> QED BY <2>1, <2>2
<1>5. todo' = {} /\ rc'[Top].got = 1..Total(Top) => reports' # <<>>
    <2> SUFFICES ASSUME todo' = {}, rc'[Top].got = 1..Total(Top)
                 PROVE  reports' # <<>>
        OBVIOUS
    <2>1. Call(Top) \notin todo
        BY EndsTypes, TargetFacts
    <2>2. rc[Top].total = Total(Top)
        BY <2>1, TargetFacts DEF IInv, TotalsSound
    <2> QED BY <1>1, <2>2
<1>6. NeverSilent'
    BY <1>1 DEF IInv, ReportSound, NeverSilent
<1>7. reports' # <<>> =>
          (rc'[Top].status = "permanentFail" => reports'[1] = "permanentFail")
    BY <1>3
<1>8. reports' # <<>> => method # "flat_crossproduct" \/ Call(Top) \notin todo
    <2> SUFFICES ASSUME reports' # <<>>, method = "flat_crossproduct",
                        Call(Top) \in todo
                 PROVE  FALSE
        OBVIOUS
    <2>1. Total(Top) = 0
        BY <1>3 DEF IInv, TotalsSound
    <2>2. rc'[Top].got = {} /\ rc[Top].got \subseteq 1..Total(Top)
        BY <1>3, <2>1, TargetFacts DEF IInv, TypeOK
    <2> QED BY <1>3, <2>1, <2>2
<1> QED BY <1>2, <1>3, <1>4, <1>5, <1>6, <1>7, <1>8 DEF ReportSound, CalledOnce

LEMMA FlatEnds ==
    ASSUME IInv, ~Nested, NEW x \in Items, NEW st \in Ends, ItemEnds(x, st)
    PROVE  IInv'
<1>0. /\ UNCHANGED <<method, onError, skip, gen, Targets>> /\ ~Nested'
      /\ UNCHANGED <<Total(Top), Call(Top)>>
      /\ Targets = {Top} /\ st \in Statuses /\ ~Ended(x)
      /\ TypeOK /\ HeardSound /\ TotalsSound /\ SetupSound /\ StatusSound
      /\ \A y \in Items : /\ Target(y) = Top /\ Target(y)' = Top
                          /\ Index(y)' = Index(y)
      /\ Total(Top) \in Nat
    BY TargetFacts, EndsAreStatuses, TotalTypes
       DEF ItemEnds, docVars, Nested, Targets, IInv, Total, Target, Index, Call
<1>1. /\ rc' \in Records
      /\ rc'[Top].got = rc[Top].got \cup {Index(x)}
      /\ rc'[Top].status = Worse(rc[Top].status, st)
      /\ rc'[Top].total = rc[Top].total
      /\ reports' = IF /\ rc[Top].total = Total(Top)
                       /\ Index(x) \notin rc[Top].got
                       /\ rc[Top].got \cup {Index(x)} = 1..Total(Top)
                    THEN Append(reports, rc'[Top].status) ELSE reports
    BY <1>0, FlatReceive DEF ItemEnds
<1>2. Index(x) \in 1..Total(Top) /\ Index(x) \notin rc[Top].got
    BY <1>0, IndexInRange DEF HeardSound
<1>3. /\ rc'[Top].got \subseteq 1..Total(Top)
      /\ rc[Top].status \in Statuses /\ rc'[Top].status \in Statuses
    BY <1>0, <1>1, <1>2, WorseFacts DEF TypeOK, Records
<1>4. /\ reports' \in Seq(Statuses)
      /\ ReportSound' /\ CalledOnce'
      /\ reports' # <<>> => method # "flat_crossproduct" \/ Call(Top) \notin todo
    BY <1>1, <1>2, <1>3, EndsReports
<1>5. TypeOK'
    BY <1>0, <1>1, <1>3, <1>4, EndsTypes DEF TypeOK, Records
<1>6. HeardSound'
    <2>1. \A y \in Items : Index(y) = Index(x) => y = x
        BY <1>0, IndexInjective
    <2> QED BY <1>0, <1>1, <2>1, EndsTypes DEF HeardSound
<1>7. TotalsSound'
    BY <1>0, <1>1, <1>4, EndsTypes, NothingReported DEF TotalsSound
<1>8. SetupSound'
    <2>1. todo' # {} => rc'[Top].status \in {"success", "skipped"}
        <3> SUFFICES ASSUME todo' # {} PROVE rc'[Top].status \in {"success", "skipped"}
            OBVIOUS
        <3>1. st = "skipped" /\ todo # {}
            BY EndsTypes DEF ItemEnds
        <3>2. rc[Top].status \in {"success", "skipped"}
            BY <1>0, <3>1 DEF SetupSound
        <3> QED BY <1>1, <1>3, <1>0, <3>1, <3>2, WorseFacts
    <2> QED BY <1>0, <2>1, EndsTypes DEF SetupSound
<1>9. StatusSound'
    <2>1. \A y \in Items : result'[y] = "permanentFail" =>
              Ended(y)' /\ rc'[Top].status = "permanentFail"
        BY <1>0, <1>1, <1>3, EndsTypes, WorseFacts DEF StatusSound
    <2> QED BY <1>0, <2>1 DEF StatusSound
<1> QED BY <1>4, <1>5, <1>6, <1>7, <1>8, <1>9 DEF IInv

LEMMA NestedEnds ==
    ASSUME IInv, Nested, NEW x \in Items, NEW st \in Ends, ItemEnds(x, st)
    PROVE  IInv'
<1> DEFINE g == x[1]
           i == x[2]
<1>0. /\ UNCHANGED <<method, onError, skip, gen, Targets>> /\ Nested'
      /\ st \in Statuses /\ ~Ended(x)
      /\ TypeOK /\ HeardSound /\ TotalsSound /\ SetupSound /\ StatusSound
      /\ \A r : UNCHANGED <<Total(r), Call(r)>>
      /\ \A y \in Items : Target(y) = y[1] /\ Target(y)' = y[1]
    BY EndsAreStatuses
       DEF ItemEnds, docVars, Nested, Targets, IInv, Total, Target, Call
<1>1. g \in 1..Rows /\ i \in 1..Cols /\ x = <<g, i>>
    BY ItemParts
<1>2. i \notin rc[g].got
    BY <1>0, <1>1 DEF HeardSound
<1>3. /\ rc' \in Records
      /\ \A h \in 1..Rows : h # g => rc'[h] = rc[h]
      /\ rc'[g].got = rc[g].got \cup {i}
      /\ rc'[g].status = Worse(rc[g].status, st)
      /\ rc'[g].total = rc[g].total
      /\ rc'[Top].total = rc[Top].total
      /\ rc'[g].got # 1..Cols => rc'[Top] = rc[Top] /\ reports' = reports
      /\ rc'[g].got = 1..Cols =>
            /\ rc'[Top].got = rc[Top].got \cup {g}
            /\ rc'[Top].status = Worse(rc[Top].status, rc'[g].status)
            /\ reports' = IF /\ rc[Top].total = Total(Top)
                             /\ g \notin rc[Top].got
                             /\ rc[Top].got \cup {g} = 1..Total(Top)
                          THEN Append(reports, rc'[Top].status) ELSE reports
    <2>1. Receive(<<g, i>>, st)
        BY <1>1 DEF ItemEnds
    <2> HIDE DEF g, i
    <2> QED BY <1>0, <1>1, <1>2, <2>1, NestedReceive
<1> HIDE DEF g, i
<1>4. /\ Top \in Targets /\ Top \notin 1..Rows
      /\ Targets = {Top} \cup (1..Rows)
      /\ Total(Top) = Rows /\ \A h \in 1..Rows : Total(h) = Cols
      /\ Rows \in Nat /\ Cols \in Nat
    BY <1>0, TargetFacts, TotalTypes DEF Total
<1>5. /\ rc[g].got \subseteq 1..Cols /\ rc[Top].got \subseteq 1..Rows
      /\ rc[g].status \in Statuses /\ rc[Top].status \in Statuses
      /\ \A r \in Targets : rc[r].total \in {0, Total(r)}
      /\ \A r \in Targets : rc[r].got \subseteq 1..Total(r)
    BY <1>0, <1>1, <1>4 DEF TypeOK
\* The row was not full, so the outer one had not heard of it.
<1>6. g \notin rc[Top].got
    BY <1>0, <1>1, <1>2 DEF HeardSound
<1>7. /\ rc'[g].got \subseteq 1..Cols /\ rc'[Top].got \subseteq 1..Rows
      /\ rc'[g].status \in Statuses /\ rc'[Top].status \in Statuses
      /\ rc'[g].got = 1..Cols => rc'[Top].got # rc[Top].got
    BY <1>0, <1>1, <1>3, <1>5, <1>6, WorseFacts
<1>8. /\ reports' \in Seq(Statuses)
      /\ ReportSound' /\ CalledOnce'
      /\ reports' # <<>> => method # "flat_crossproduct" \/ Call(Top) \notin todo
    <2>1. rc'[Top].got \in SUBSET Nat
        BY <1>7
    <2>2. \/ rc'[Top].got = rc[Top].got /\ reports' = reports
          \/ /\ rc'[Top].got # rc[Top].got
             /\ rc'[Top].got \subseteq 1..Total(Top)
             /\ reports' = IF /\ rc[Top].total = Total(Top)
                              /\ rc'[Top].got = 1..Total(Top)
                           THEN Append(reports, rc'[Top].status) ELSE reports
        BY <1>3, <1>4, <1>6, <1>7
    <2> QED BY <1>7, <2>1, <2>2, EndsReports
<1>9. TypeOK'
    <2>1. \A r \in Targets : /\ rc'[r].got \subseteq 1..Total(r)
                             /\ rc'[r].total \in {0, Total(r)}
        BY <1>3, <1>4, <1>5, <1>7
    <2> QED BY <1>0, <1>3, <1>8, <2>1, EndsTypes DEF TypeOK, Records
<1>10. HeardSound'
    <2> SUFFICES ASSUME NEW h \in 1..Rows
                 PROVE  /\ \A j \in 1..Cols : j \in rc'[h].got <=> Ended(<<h, j>>)'
                        /\ h \in rc'[Top].got => rc'[h].got = 1..Cols
                        /\ rc'[h].got = 1..Cols /\ Call(h) \notin todo'
                              => h \in rc'[Top].got
        BY <1>0 DEF HeardSound
    <2>1. /\ \A j \in 1..Cols : <<h, j>> \in Items
          /\ \A j \in 1..Cols : Ended(<<h, j>>)' <=>
                                    (h = g /\ j = i) \/ Ended(<<h, j>>)
          /\ Call(h) \in todo' <=> Call(h) \in todo
        BY <1>1, <1>4, EndsTypes DEF Items
    <2>2. CASE h = g
        BY <1>0, <1>3, <1>5, <1>6, <1>7, <2>1, <2>2 DEF HeardSound
    <2>3. CASE h # g
        BY <1>0, <1>3, <2>1, <2>3 DEF HeardSound
    <2> QED BY <2>2, <2>3
<1>11. TotalsSound'
    <2>1. \A r \in Targets : rc'[r].total = rc[r].total
        BY <1>3, <1>4
    <2> QED BY <1>0, <2>1, EndsTypes DEF TotalsSound, Nested
<1>12. SetupSound'
    <2>1. ASSUME todo' # {}, NEW r \in Targets
          PROVE  rc'[r].status \in {"success", "skipped"}
        <3>1. st = "skipped" /\ todo # {}
            BY <2>1, EndsTypes DEF ItemEnds
        <3>2. \A q \in Targets : rc[q].status \in {"success", "skipped"}
            BY <1>0, <3>1 DEF SetupSound
        <3>3. rc'[g].status \in {"success", "skipped"}
            BY <1>0, <1>1, <1>3, <1>4, <1>5, <3>1, <3>2, WorseFacts
        <3>4. rc'[Top].status \in {"success", "skipped"}
            BY <1>3, <1>4, <1>5, <1>7, <3>2, <3>3, WorseFacts
        <3> QED BY <1>3, <1>4, <3>2, <3>3, <3>4
    <2> QED BY <1>0, <2>1, EndsTypes DEF SetupSound
<1>13. StatusSound'
    <2>1. ASSUME NEW y \in Items, result'[y] = "permanentFail"
          PROVE  Ended(y)' /\ rc'[Target(y)'].status = "permanentFail"
        <3>1. y[1] \in 1..Rows /\ Target(y)' = y[1] /\ Target(y) = y[1]
            BY <1>0, ItemParts
        <3>2. CASE y = x
            BY <1>0, <1>3, <1>5, <2>1, <3>1, <3>2, EndsTypes, WorseFacts DEF g
        <3>3. CASE y # x
            <4>1. Ended(y) /\ rc[y[1]].status = "permanentFail"
                BY <1>0, <2>1, <3>1, <3>3, EndsTypes DEF StatusSound
            <4>2. rc'[y[1]].status = "permanentFail"
                BY <1>0, <1>3, <1>5, <3>1, <4>1, WorseFacts
            <4> QED BY <3>1, <4>1, <4>2, EndsTypes
        <3> QED BY <3>2, <3>3
    <2>2. ASSUME NEW h \in rc'[Top].got, rc'[h].status = "permanentFail"
          PROVE  rc'[Top].status = "permanentFail"
        <3>1. h \in 1..Rows
            BY <1>7
        <3>2. CASE h = g
            BY <1>3, <1>5, <1>6, <1>7, <2>2, <3>2, WorseFacts
        <3>3. CASE h # g
            <4>1. h \in rc[Top].got /\ rc[h].status = "permanentFail"
                BY <1>3, <2>2, <3>1, <3>3
            <4>2. rc[Top].status = "permanentFail"
                BY <1>0, <4>1 DEF StatusSound
            <4> QED BY <1>3, <1>5, <1>7, <4>2, WorseFacts
        <3> QED BY <3>2, <3>3
    <2> QED BY <2>1, <2>2 DEF StatusSound
<1> QED BY <1>8, <1>9, <1>10, <1>11, <1>12, <1>13 DEF IInv

\* Whatever the method, an item that ends leaves the invariant true.
LEMMA EndsInvariant ==
    ASSUME IInv, NEW x \in Items, NEW st \in Ends, ItemEnds(x, st)
    PROVE  IInv'
    BY FlatEnds, NestedEnds

-----------------------------------------------------------------------------
(* setTotal *)

\* When something is still to be made, nothing has failed for good.
LEMMA SetupFacts ==
    ASSUME IInv, todo # {}
    PROVE  /\ \A r \in Targets : rc[r].status \in {"success", "skipped"}
           /\ \A x \in Items : result[x] # "permanentFail"
           /\ reports # <<>> => skip = Items /\ method # "flat_crossproduct"
<1>1. /\ Call(Top) \in todo
      /\ \A r \in Targets : rc[r].status \in {"success", "skipped"}
      /\ \A x \in Items : Ended(x) => x \in skip
    BY DEF IInv, SetupSound
<1>2. \A x \in Items : result[x] # "permanentFail"
    BY <1>1, TargetFacts DEF IInv, StatusSound
<1>3. reports # <<>> => \A x \in Items : Ended(x)
    BY NothingReported
<1>4. reports # <<>> => skip = Items
    BY <1>1, <1>3 DEF IInv, TypeOK
<1>5. reports # <<>> => method # "flat_crossproduct"
    BY <1>1 DEF IInv, TotalsSound
<1> QED BY <1>1, <1>2, <1>4, <1>5

LEMMA SetTotalTop ==
    ASSUME IInv, SetTotal(Top) PROVE IInv'
<1>0. /\ UNCHANGED <<method, onError, skip, phase, result, gen, Targets>>
      /\ (Nested' <=> Nested) /\ \A r : UNCHANGED <<Total(r), Call(r)>>
      /\ \A x \in Items : UNCHANGED <<Target(x), Index(x), Ended(x)>>
      /\ Top \in Targets /\ Total(Top) \in Nat
      /\ \A g \in 1..Rows : g # Top
    BY TargetFacts, TotalTypes
       DEF SetTotal, docVars, Nested, Targets, Total, Call, Target, Index, Ended
<1>1. todo = {Call(Top)} /\ todo' = {}
    BY TopIsLast DEF SetTotal, IInv
<1>2. /\ rc \in Records /\ rc[Top].got \subseteq 1..Total(Top)
      /\ rc[Top] \in [got : SUBSET Nat, status : Statuses, total : Nat]
      /\ reports \in Seq(Statuses)
    BY <1>0 DEF IInv, TypeOK, Records
<1>3. Cardinality(rc[Top].got) = Total(Top) <=> rc[Top].got = 1..Total(Top)
    BY <1>0, <1>2, FullRange
<1>4. /\ rc' = [rc EXCEPT ![Top] = [rc[Top] EXCEPT !.total = Total(Top)]]
      /\ reports' = IF rc[Top].got = 1..Total(Top)
                    THEN Append(reports, rc[Top].status) ELSE reports
    BY <1>0, <1>2, <1>3 DEF SetTotal
<1>5. /\ rc' \in Records
      /\ rc'[Top].got = rc[Top].got /\ rc'[Top].status = rc[Top].status
      /\ rc'[Top].total = Total(Top)
      /\ \A r \in Targets : r # Top => rc'[r] = rc[r]
    BY <1>0, <1>2, <1>4 DEF Records
<1>6. /\ gen = "main"
      /\ \A r \in Targets : rc[r].status \in {"success", "skipped"}
      /\ \A x \in Items : result[x] # "permanentFail"
      /\ reports # <<>> => skip = Items /\ method # "flat_crossproduct"
    BY <1>1, SetupFacts DEF SetTotal, Due
<1>7. \A r \in Targets : rc'[r].got = rc[r].got /\ rc'[r].status = rc[r].status
    BY <1>5
<1>8. reports' \in Seq(Statuses)
    BY <1>2, <1>4
<1>9. TypeOK'
    <2>1. \A r \in Targets : /\ rc'[r].got \subseteq 1..Total(r)
                             /\ rc'[r].total \in {0, Total(r)}
        BY <1>5, <1>7 DEF IInv, TypeOK
    <2> QED BY <1>0, <1>1, <1>5, <1>8, <2>1 DEF IInv, TypeOK, Records
<1>10. \A g \in Targets : g # Top => Call(g) \notin todo /\ Call(g) \notin todo'
    BY <1>0, <1>1, CallFacts
<1>11. HeardSound'
    <2>1. CASE ~Nested
        BY <1>0, <1>7, <2>1 DEF IInv, HeardSound
    <2>2. CASE Nested
        <3> SUFFICES ASSUME NEW h \in 1..Rows
                     PROVE  /\ \A j \in 1..Cols :
                                   j \in rc'[h].got <=> Ended(<<h, j>>)'
                            /\ h \in rc'[Top].got => rc'[h].got = 1..Cols
                            /\ rc'[h].got = 1..Cols /\ Call(h) \notin todo'
                                  => h \in rc'[Top].got
            BY <1>0, <2>2 DEF HeardSound
        <3>1. /\ h \in Targets /\ \A j \in 1..Cols : <<h, j>> \in Items
              /\ Call(h) \notin todo
            BY <1>0, <1>10, <2>2, TargetFacts DEF Items
        <3> QED BY <1>0, <1>7, <2>2, <3>1 DEF IInv, HeardSound
    <2> QED BY <2>1, <2>2
<1>12. TotalsSound'
    BY <1>0, <1>1, <1>5, <1>10 DEF IInv, TotalsSound
<1>13. SetupSound'
    <2>1. \A x \in Items : x \notin todo /\ phase[x] # "new"
        BY <1>0, <1>1, CallFacts DEF IInv, SetupSound
    <2> QED BY <1>0, <1>1, <2>1 DEF SetupSound
<1>14. StatusSound'
    <2>1. Nested => rc[Top].got \subseteq Targets
        BY <1>2, TargetFacts DEF Total
    <2> QED BY <1>0, <1>6, <1>7, <2>1 DEF StatusSound
<1>15. ReportSound' /\ CalledOnce'
    <2>1. reports' # <<>> => rc[Top].got = 1..Total(Top)
        BY <1>4 DEF IInv, ReportSound
    <2>2. rc[Top].got = 1..Total(Top) => reports' # <<>>
        BY <1>2, <1>4
    <2>3. ReportSound'
        BY <1>0, <1>6, <1>7, <2>1, <2>2 DEF ReportSound, NeverSilent
    <2>4. CASE reports = <<>>
        <3>1. \A v : Append(reports, v) = <<v>> /\ Len(<<v>>) <= 1
            BY <2>4
        <3>2. Len(reports') <= 1
            BY <1>4, <2>4, <3>1
        <3> QED BY <2>3, <3>2 DEF CalledOnce
    <2>5. CASE reports # <<>>
        <3>1. skip' = Items /\ method' # "flat_crossproduct"
            BY <1>0, <1>6, <2>5
        <3> QED BY <2>3, <3>1 DEF CalledOnce
    <2> QED BY <2>4, <2>5
<1> QED BY <1>9, <1>11, <1>12, <1>13, <1>14, <1>15 DEF IInv

LEMMA SetTotalRow ==
    ASSUME IInv, NEW r \in Targets, r # Top, SetTotal(r) PROVE IInv'
<1>0. /\ UNCHANGED <<method, onError, skip, phase, result, gen, Targets>>
      /\ Nested /\ Nested' /\ \A q : UNCHANGED <<Total(q), Call(q)>>
      /\ \A x \in Items : UNCHANGED <<Target(x), Index(x), Ended(x)>>
      /\ todo' = todo \ {Call(r)} /\ Call(r) \in todo
      /\ r \in 1..Rows /\ Top \in Targets /\ Top \notin 1..Rows
      /\ Targets = {Top} \cup (1..Rows)
      /\ Total(Top) = Rows /\ Total(r) = Cols /\ Rows \in Nat /\ Cols \in Nat
    BY TargetFacts, TotalTypes
       DEF SetTotal, docVars, Nested, Targets, Total, Call, Target, Index, Ended, Due
<1>1. /\ rc \in Records /\ rc[r].got \subseteq 1..Cols
      /\ rc[r] \in [got : SUBSET Nat, status : Statuses, total : Nat]
      /\ rc[r].total = Cols /\ reports \in Seq(Statuses)
      /\ rc[Top].got \subseteq 1..Rows /\ rc[Top].status \in Statuses
      /\ rc[r].status \in Statuses /\ rc[Top].got \in SUBSET Nat
    BY <1>0 DEF IInv, TypeOK, TotalsSound, Nested, Records
<1>2. /\ [rc[r] EXCEPT !.total = Total(r)] = rc[r]
      /\ [rc EXCEPT ![r] = rc[r]] = rc
    BY <1>0, <1>1 DEF Records
<1>3. Cardinality(rc[r].got) = Cols <=> rc[r].got = 1..Cols
    BY <1>0, <1>1, FullRange
<1>4. /\ rc[r].got # 1..Cols => rc' = rc /\ reports' = reports
      /\ rc[r].got = 1..Cols => ReceiveTop(r, rc[r].status, rc)
    BY <1>0, <1>1, <1>2, <1>3 DEF SetTotal
<1>5. /\ gen = "main" /\ Call(Top) \in todo /\ Call(Top) \in todo'
      /\ \A q \in Targets : rc[q].status \in {"success", "skipped"}
      /\ \A x \in Items : result[x] # "permanentFail"
      /\ todo # {} /\ todo' # {}
    <2>1. Call(Top) # Call(r) /\ todo # {}
        BY <1>0, CallFacts
    <2> QED BY <1>0, <2>1, SetupFacts DEF IInv, SetupSound, SetTotal, Due
<1>6. rc[r].got = 1..Cols =>
          /\ rc' \in Records
          /\ \A q \in Targets : q # Top => rc'[q] = rc[q]
          /\ rc'[Top].got = rc[Top].got \cup {r}
          /\ rc'[Top].status = Worse(rc[Top].status, rc[r].status)
          /\ rc'[Top].total = rc[Top].total
          /\ reports' = IF /\ rc[Top].total = Total(Top)
                           /\ r \notin rc[Top].got
                           /\ rc[Top].got \cup {r} = 1..Total(Top)
                        THEN Append(reports, rc'[Top].status) ELSE reports
    <2> SUFFICES ASSUME rc[r].got = 1..Cols
                 PROVE  /\ rc' \in Records
                        /\ \A q \in Targets : q # Top => rc'[q] = rc[q]
                        /\ rc'[Top].got = rc[Top].got \cup {r}
                        /\ rc'[Top].status = Worse(rc[Top].status, rc[r].status)
                        /\ rc'[Top].total = rc[Top].total
                        /\ reports' = IF /\ rc[Top].total = Total(Top)
                                         /\ r \notin rc[Top].got
                                         /\ rc[Top].got \cup {r} = 1..Total(Top)
                                      THEN Append(reports, rc'[Top].status)
                                      ELSE reports
        OBVIOUS
    <2>1. r \in 1..Total(Top) /\ ReceiveTop(r, rc[r].status, rc) /\ TypeOK
        BY <1>0, <1>4 DEF IInv
    <2> QED BY <1>1, <2>1, TopHears
\* In both cases.
<1>7. /\ rc' \in Records
      /\ \A q \in Targets : q # Top => rc'[q] = rc[q]
      /\ rc'[Top].total = rc[Top].total
      /\ rc'[Top].got = IF rc[r].got = 1..Cols THEN rc[Top].got \cup {r}
                        ELSE rc[Top].got
      /\ rc'[Top].status \in {"success", "skipped"}
    <2>1. CASE rc[r].got = 1..Cols
        BY <1>0, <1>1, <1>5, <1>6, <2>1, WorseFacts
    <2>2. CASE rc[r].got # 1..Cols
        BY <1>0, <1>1, <1>4, <1>5, <2>2
    <2> QED BY <2>1, <2>2
<1>8. \/ reports' = reports
      \/ /\ reports = <<>> /\ reports' = <<rc'[Top].status>>
         /\ rc'[Top].got = 1..Total(Top)
    <2>1. reports # <<>> => r \in rc[Top].got
        BY <1>0 DEF IInv, ReportSound
    <2>2. CASE rc[r].got = 1..Cols /\ r \notin rc[Top].got
        <3>1. reports = <<>> /\ \A v : Append(<<>>, v) = <<v>>
            BY <2>1, <2>2
        <3> QED BY <1>6, <2>2, <3>1
    <2>3. CASE rc[r].got # 1..Cols \/ r \in rc[Top].got
        BY <1>4, <1>6, <2>3
    <2> QED BY <2>2, <2>3
<1>9. /\ reports' \in Seq(Statuses)
      /\ reports' # <<>> => rc'[Top].got = 1..Total(Top)
    <2>1. reports # <<>> => rc'[Top].got = 1..Total(Top)
        BY <1>0, <1>7 DEF IInv, ReportSound
    <2>2. \A v \in Statuses : <<v>> \in Seq(Statuses)
        OBVIOUS
    <2>3. rc'[Top].status \in Statuses
        BY <1>7 DEF Statuses
    <2> QED BY <1>1, <1>8, <2>1, <2>2, <2>3
<1>10. \A q \in Targets : rc'[q].total = rc[q].total
    BY <1>7
<1>11. TypeOK'
    <2>1. \A q \in Targets : /\ rc'[q].got \subseteq 1..Total(q)
                             /\ rc'[q].total \in {0, Total(q)}
        BY <1>0, <1>1, <1>7 DEF IInv, TypeOK
    <2> QED BY <1>0, <1>7, <1>9, <2>1 DEF IInv, TypeOK, Records
<1>12. \A q \in Targets : Call(q) \in todo' <=> q # r /\ Call(q) \in todo
    BY <1>0, CallFacts
<1>13. HeardSound'
    <2> SUFFICES ASSUME NEW h \in 1..Rows
                 PROVE  /\ \A j \in 1..Cols : j \in rc'[h].got <=> Ended(<<h, j>>)'
                        /\ h \in rc'[Top].got => rc'[h].got = 1..Cols
                        /\ rc'[h].got = 1..Cols /\ Call(h) \notin todo'
                              => h \in rc'[Top].got
        BY <1>0 DEF HeardSound
    <2>1. /\ h \in Targets /\ rc'[h] = rc[h]
          /\ \A j \in 1..Cols : <<h, j>> \in Items
          /\ Call(h) \in todo' <=> h # r /\ Call(h) \in todo
        BY <1>0, <1>7, <1>12 DEF Items
    <2>2. /\ \A j \in 1..Cols : j \in rc[h].got <=> Ended(<<h, j>>)
          /\ h \in rc[Top].got => rc[h].got = 1..Cols
          /\ rc[h].got = 1..Cols /\ Call(h) \notin todo => h \in rc[Top].got
        BY <1>0 DEF IInv, HeardSound
    <2> QED BY <1>0, <1>7, <2>1, <2>2
<1>14. TotalsSound'
    BY <1>0, <1>10 DEF IInv, TotalsSound, Nested
<1>15. SetupSound'
    <2>1. \A x \in Items : x \in todo' <=> x \in todo
        BY <1>0, CallFacts
    <2>2. \A q \in Targets : rc'[q].status \in {"success", "skipped"}
        BY <1>5, <1>7
    <2> QED BY <1>0, <1>5, <2>1, <2>2 DEF IInv, SetupSound
<1>16. StatusSound'
    <2>1. \A g \in rc'[Top].got : g \in Targets /\ rc'[g].status # "permanentFail"
        BY <1>0, <1>1, <1>5, <1>7
    <2> QED BY <1>0, <1>5, <2>1 DEF StatusSound
<1>17. ReportSound'
    BY <1>0, <1>5, <1>7, <1>9 DEF ReportSound, NeverSilent
<1>18. CalledOnce'
    <2>1. CASE reports' = reports
        BY <1>0, <2>1 DEF IInv, CalledOnce
    <2>2. CASE reports' # reports
        <3>1. \A v : Len(<<v>>) <= 1
            OBVIOUS
        <3>2. Len(reports') <= 1
            BY <1>8, <2>2, <3>1
        <3> QED BY <3>2 DEF CalledOnce
    <2> QED BY <2>1, <2>2
<1> QED BY <1>11, <1>13, <1>14, <1>15, <1>16, <1>17, <1>18 DEF IInv

-----------------------------------------------------------------------------
(* The steps that no ReceiveScatterOutput hears of. *)

\* An item is not skipped, or its job starts.
LEMMA PhaseStep ==
    ASSUME IInv, NEW x \in Items, NEW p \in {"ready", "running"}, ~Ended(x),
           phase' = [phase EXCEPT ![x] = p],
           todo' = todo \ {x}, todo # {} => p = "ready",
           UNCHANGED <<docVars, rc, result, gen, reports>>
    PROVE  IInv'
<1>0. /\ UNCHANGED <<method, onError, skip, rc, result, gen, reports, Targets>>
      /\ (Nested' <=> Nested) /\ \A r : UNCHANGED <<Total(r), Call(r)>>
      /\ \A y \in Items : UNCHANGED <<Target(y), Index(y)>>
      /\ \A r \in Targets : Call(r) \in todo' <=> Call(r) \in todo
      /\ phase \in [Items -> {"new", "ready", "running", "ended"}]
    <2>1. UNCHANGED <<method, onError, skip>>
        BY DEF docVars
    <2>2. \A r \in Targets : Call(r) # x
        BY CallFacts
    <2>3. phase \in [Items -> {"new", "ready", "running", "ended"}]
        BY DEF IInv, TypeOK
    <2> QED BY <2>1, <2>2, <2>3 DEF Nested, Targets, Total, Call, Target, Index
<1>1. \A y \in Items : Ended(y)' <=> Ended(y)
    BY <1>0 DEF Ended
<1>2. todo = {} => todo' = {}
    OBVIOUS
<1>3. Top \in Targets /\ (Nested => \A g \in 1..Rows : g \in Targets)
    BY TargetFacts
<1>4. TypeOK'
    BY <1>0 DEF IInv, TypeOK
<1>5. HeardSound'
    <2>1. CASE ~Nested
        BY <1>0, <1>1, <2>1 DEF IInv, HeardSound
    <2>2. CASE Nested
        <3>1. \A g \in 1..Rows : \A i \in 1..Cols : <<g, i>> \in Items
            BY DEF Items
        <3> QED BY <1>0, <1>1, <1>3, <2>2, <3>1 DEF IInv, HeardSound
    <2> QED BY <2>1, <2>2
<1>6. TotalsSound'
    BY <1>0, <1>3 DEF IInv, TotalsSound
<1>7. SetupSound'
    <2>1. \A y \in Items : y \in todo' <=> phase'[y] = "new"
        BY <1>0 DEF IInv, SetupSound
    <2>2. todo' # {} => todo # {} /\ p = "ready"
        OBVIOUS
    <2> QED BY <1>0, <1>1, <1>3, <2>1, <2>2 DEF IInv, SetupSound
<1>8. StatusSound'
    BY <1>0, <1>1 DEF IInv, StatusSound
<1>9. ReportSound' /\ CalledOnce'
    <2>1. todo' = {} => todo = {} \/ Call(Top) \notin todo
        BY <1>0, <1>3
    <2>2. todo' = {} => todo = {}
        BY <2>1 DEF IInv, SetupSound
    <2> QED BY <1>0, <2>2 DEF IInv, ReportSound, NeverSilent, CalledOnce
<1> QED BY <1>4, <1>5, <1>6, <1>7, <1>8, <1>9 DEF IInv

\* Only parallel_steps moves.
LEMMA GenMoves ==
    ASSUME IInv, UNCHANGED <<docVars, todo, rc, phase, result, reports>>,
           gen' \in {"main", "waiting", "stuck", "end", "raised"},
           todo = {} \/ gen' \in {"main", "raised"}, NeverSilent'
    PROVE  IInv'
<1>0. UNCHANGED <<method, onError, skip>>
    BY DEF docVars
<1> USE <1>0 DEF Nested, Targets, Total, Call, Target, Index, Ended
<1>1. TypeOK'
    BY DEF IInv, TypeOK
<1>2. HeardSound'
    BY DEF IInv, HeardSound
<1>3. TotalsSound'
    BY DEF IInv, TotalsSound
<1>4. SetupSound'
    BY DEF IInv, SetupSound
<1>5. StatusSound'
    BY DEF IInv, StatusSound
<1>6. ReportSound' /\ CalledOnce'
    BY DEF IInv, ReportSound, CalledOnce
<1> QED BY <1>1, <1>2, <1>3, <1>4, <1>5, <1>6 DEF IInv

\* When all items have ended, all is heard of.
LEMMA AllHeard ==
    ASSUME IInv, todo = {}, \A x \in Items : Ended(x)
    PROVE  rc[Top].got = 1..Total(Top)
<1>1. Top \in Targets /\ rc[Top].got \subseteq 1..Total(Top)
    BY TargetFacts DEF IInv, TypeOK
<1>2. CASE ~Nested
    <2>1. \A k \in 1..Total(Top) : k \in rc[Top].got
        BY <1>2, IndexOnto DEF IInv, HeardSound
    <2> QED BY <1>1, <2>1
<1>3. CASE Nested
    <2>1. ASSUME NEW g \in 1..Rows PROVE g \in rc[Top].got
        <3>1. g \in Targets /\ rc[g].got \subseteq 1..Cols
            BY <1>3, TargetFacts DEF IInv, TypeOK, Total
        <3>2. \A i \in 1..Cols : <<g, i>> \in Items
            BY DEF Items
        <3>3. rc[g].got = 1..Cols
            BY <1>3, <3>1, <3>2 DEF IInv, HeardSound
        <3> QED BY <1>3, <3>3 DEF IInv, HeardSound
    <2> QED BY <1>1, <1>3, <2>1 DEF Total
<1> QED BY <1>2, <1>3

\* The loop of parallel_steps ends when all is heard of.
LEMMA CompleteIsFull ==
    ASSUME IInv, todo = {}
    PROVE  Complete <=> rc[Top].got = 1..Total(Top)
<1>1. /\ rc[Top].got \subseteq 1..Total(Top) /\ rc[Top].total = Total(Top)
      /\ Total(Top) \in Nat
    BY TargetFacts, TotalTypes DEF IInv, TypeOK, TotalsSound
<1>2. /\ Cardinality(rc[Top].got) \in Nat /\ Cardinality(rc[Top].got) <= Total(Top)
      /\ Cardinality(rc[Top].got) = Total(Top) <=> rc[Top].got = 1..Total(Top)
    BY <1>1, FullRange
<1> QED BY <1>1, <1>2 DEF Complete

\* With --on-error continue, parallel_steps always has a job, or a job runs, or
\* it is complete.
LEMMA NoneIsWaiting ==
    ASSUME IInv, Scanning, Open = {}, Running = {}
    PROVE  onError = "stop"
<1> SUFFICES ASSUME onError # "stop" PROVE FALSE
    OBVIOUS
<1>1. todo = {} /\ ~Complete
    BY DEF Scanning
<1>2. \A x \in Items : phase[x] # "ready" /\ phase[x] # "running" /\ phase[x] # "new"
    BY <1>1 DEF Open, Running, Stopped, IInv, SetupSound
<1>3. \A x \in Items : Ended(x)
    BY <1>2 DEF IInv, TypeOK, Ended
<1> QED BY <1>1, <1>3, AllHeard, CompleteIsFull

-----------------------------------------------------------------------------
(* The invariant is inductive. *)

LEMMA InitInvariant == Init => IInv
<1> SUFFICES ASSUME Init PROVE IInv
    OBVIOUS
<1>1. /\ method \in Methods /\ onError \in OnErrors /\ skip \subseteq Items
      /\ todo = Items \cup {Call(r) : r \in Targets}
      /\ rc = [r \in Targets |->
                  [got |-> {}, status |-> "success",
                   total |-> IF method = "flat_crossproduct" THEN 0 ELSE Total(r)]]
      /\ phase = [x \in Items |-> "new"] /\ result = [x \in Items |-> "none"]
      /\ gen = "main" /\ reports = <<>>
    BY ScatterAssumption DEF Init
<1>2. /\ rc \in Records
      /\ \A r \in Targets : /\ rc[r].got = {} /\ rc[r].status = "success"
                            /\ rc[r].total = IF method = "flat_crossproduct"
                                             THEN 0 ELSE Total(r)
    BY <1>1, TotalTypes DEF Records, Statuses
<1>3. /\ Top \in Targets /\ (Nested => \A g \in 1..Rows : g \in Targets)
      /\ \A r \in Targets : Call(r) \in todo
      /\ \A x \in Items : x \in todo
    BY <1>1, TargetFacts
<1>4. TypeOK
    BY <1>1, <1>2 DEF TypeOK, Records
<1>5. HeardSound
    BY <1>1, <1>2, <1>3 DEF HeardSound, Ended, Items
<1>6. TotalsSound
    BY <1>1, <1>2, <1>3 DEF TotalsSound
<1>7. SetupSound
    BY <1>1, <1>2, <1>3 DEF SetupSound, Ended
<1>8. StatusSound
    BY <1>1, <1>2, <1>3 DEF StatusSound
<1>9. ReportSound /\ CalledOnce
    <2>1. todo # {} /\ gen = "main" /\ reports = <<>>
        BY <1>1, <1>3
    <2>2. Len(reports) <= 1
        BY <2>1
    <2> QED BY <2>1, <2>2 DEF ReportSound, NeverSilent, CalledOnce
<1> QED BY <1>4, <1>5, <1>6, <1>7, <1>8, <1>9 DEF IInv

LEMMA StepInvariant == ASSUME IInv, Next PROVE IInv'
<1>1. ASSUME NEW x \in Items, MakeItem(x) PROVE IInv'
    <2>1. x \in todo /\ todo # {} /\ ~Ended(x)
        BY <1>1 DEF MakeItem, Due, IInv, SetupSound, Ended
    <2>2. CASE x \in skip
        <3>1. ItemEnds(x, "skipped")
            BY <1>1, <2>1, <2>2 DEF MakeItem, ItemEnds, Due
        <3> QED BY <3>1, EndsInvariant DEF Ends
    <2>3. CASE x \notin skip
        BY <1>1, <2>1, <2>3, PhaseStep DEF MakeItem
    <2> QED BY <2>2, <2>3
<1>2. ASSUME NEW r \in Targets, SetTotal(r) PROVE IInv'
    BY <1>2, SetTotalTop, SetTotalRow
<1>3. ASSUME NEW x \in Items, YieldJob(x) PROVE IInv'
    <2>1. /\ todo = {} /\ todo' = todo \ {x} /\ ~Ended(x)
          /\ phase' = [phase EXCEPT ![x] = "running"]
          /\ UNCHANGED <<docVars, rc, result, gen, reports>>
        BY <1>3 DEF YieldJob, Scanning, First, Open, Ended
    <2> QED BY <2>1, PhaseStep
<1>4. ASSUME NEW x \in Items, MakeFails(x) PROVE IInv'
    <2>1. ItemEnds(x, "permanentFail")
        BY <1>4 DEF MakeFails, Scanning, First, Open, Ended, ItemEnds
    <2> QED BY <2>1, EndsInvariant DEF Ends
<1>5. ASSUME NEW x \in Items, EndJob(x) PROVE IInv'
    <2>1. PICK st \in Outcomes : /\ result' = [result EXCEPT ![x] = st]
                                 /\ Receive(x, st)
        BY <1>5 DEF EndJob
    <2>2. /\ phase[x] = "running" /\ phase' = [phase EXCEPT ![x] = "ended"]
          /\ UNCHANGED <<docVars, todo, gen>>
        BY <1>5 DEF EndJob
    <2>3. todo = {} /\ ~Ended(x)
        BY <2>2 DEF IInv, SetupSound, Ended
    <2>4. ItemEnds(x, st)
        BY <2>1, <2>2, <2>3 DEF ItemEnds
    <2> QED BY <2>4, EndsInvariant DEF Ends
<1>6. CASE YieldNone
    <2>1. NeverSilent'
        BY <1>6, NoneIsWaiting DEF YieldNone, NeverSilent, docVars
    <2> QED BY <1>6, <2>1, GenMoves DEF YieldNone, Scanning
<1>7. CASE Resume
    BY <1>7, GenMoves DEF Resume, NeverSilent
<1>8. CASE Exhausted
    <2>1. reports # <<>>
        BY <1>8, CompleteIsFull DEF Exhausted, IInv, ReportSound
    <2> QED BY <1>8, <2>1, GenMoves DEF Exhausted, NeverSilent
<1>9. ASSUME NEW x \in Items, MakeRaises(x) \/ ItemRaises(x) PROVE IInv'
    BY <1>9, GenMoves DEF MakeRaises, ItemRaises, Scanning, NeverSilent
<1> QED BY <1>1, <1>2, <1>3, <1>4, <1>5, <1>6, <1>7, <1>8, <1>9 DEF Next, GenStep

\* The inductive invariant: the ReceiveScatterOutputs have heard of the items
\* that have ended, and have called back when they had heard of all.
THEOREM ScatterInvariance == Spec => []IInv
<1>1. ASSUME IInv, [Next]_vars PROVE IInv'
    <2>1. CASE UNCHANGED vars
        BY <1>1, <2>1, GenMoves
           DEF vars, IInv, TypeOK, SetupSound, ReportSound, NeverSilent, docVars
    <2> QED BY <1>1, <2>1, StepInvariant
<1>2. IInv /\ [Next]_vars => IInv'
    BY <1>1
<1> QED BY <1>2, InitInvariant, PTL DEF Spec

\* An item that an exception left without a job stays without one.
LEMMA RaisedStep ==
    ASSUME IInv, RaisedSound, [Next]_vars PROVE RaisedSound'
<1> SUFFICES ASSUME gen' = "raised"
             PROVE  \E x \in Items : phase'[x] \in {"new", "ready"}
    BY DEF RaisedSound
<1>1. ASSUME NEW x \in Items, phase[x] \in {"new", "ready"}, phase' = phase
      PROVE  \E y \in Items : phase'[y] \in {"new", "ready"}
    BY <1>1
<1>2. CASE gen = "raised"
    <2>1. PICK x \in Items : phase[x] \in {"new", "ready"}
        BY <1>2 DEF RaisedSound
    <2>2. ASSUME NEW y \in Items, EndJob(y) PROVE phase'[x] = phase[x]
        BY <2>1, <2>2 DEF EndJob, IInv, TypeOK
    <2>3. ASSUME NEW y \in Items, MakeItem(y) \/ YieldJob(y) \/ MakeFails(y)
          PROVE  FALSE
        BY <1>2, <2>3 DEF MakeItem, YieldJob, MakeFails, Due, Scanning
    <2>4. ASSUME NEW r \in Targets, SetTotal(r) PROVE FALSE
        BY <1>2, <2>4 DEF SetTotal, Due
    <2>5. ASSUME NEW y \in Items, MakeRaises(y) \/ ItemRaises(y) PROVE phase' = phase
        BY <2>5 DEF MakeRaises, ItemRaises
    <2>6. YieldNone \/ Resume \/ Exhausted \/ UNCHANGED vars => phase' = phase
        BY DEF YieldNone, Resume, Exhausted, vars
    <2>7. phase'[x] = phase[x]
        BY <2>2, <2>3, <2>4, <2>5, <2>6 DEF Next, GenStep
    <2> QED BY <2>1, <2>7
<1>3. CASE gen # "raised"
    <2>1. \E x \in Items : MakeRaises(x) \/ ItemRaises(x)
        BY <1>3 DEF Next, GenStep, MakeItem, YieldJob, MakeFails, SetTotal, YieldNone,
                    Resume, Exhausted, EndJob, vars
    <2>2. PICK x \in Items : MakeRaises(x) \/ ItemRaises(x)
        BY <2>1
    <2>3. phase' = phase /\ phase[x] \in {"new", "ready"}
        BY <2>2 DEF MakeRaises, ItemRaises, Due, First, Open, IInv, SetupSound
    <2> QED BY <1>1, <2>3
<1> QED BY <1>2, <1>3

LEMMA ScatterRaised == Spec => []RaisedSound
<1>1. Init => RaisedSound
    BY DEF Init, RaisedSound
<1>2. IInv /\ RaisedSound /\ [Next]_vars => RaisedSound'
    BY RaisedStep
<1> QED BY <1>1, <1>2, ScatterInvariance, PTL DEF Spec

-----------------------------------------------------------------------------
(* What follows from it. *)

\* Every variable keeps its type; in particular no callback is bound to an
\* index outside the arrays of the result.
THEOREM ScatterTypes == Spec => []TypeOK
<1>1. IInv => TypeOK
    BY DEF IInv
<1> QED BY <1>1, ScatterInvariance, PTL

\* The step ends once at most, by its callback or by an exception, unless every
\* item was skipped and the total was known from the start.
THEOREM ScatterReportsOnce == Spec => []ReportOnce
<1>1. IInv /\ RaisedSound => ReportOnce
    <2>1. ASSUME IInv, NEW x \in Items, phase[x] \in {"new", "ready"}
          PROVE  reports = <<>>
        BY <2>1, NothingReported DEF Ended
    <2> QED BY <2>1 DEF IInv, RaisedSound, ReportOnce
<1> QED BY <1>1, ScatterInvariance, ScatterRaised, PTL

\* A permanent failure of an item is reported, whatever ended before or after.
THEOREM ScatterReportsWorst == Spec => []ReportWorst
<1>1. ASSUME IInv, reports # <<>>, NEW x \in Items, result[x] = "permanentFail"
      PROVE  reports[1] = "permanentFail"
    <2>1. rc[Target(x)].status = "permanentFail"
        BY <1>1 DEF IInv, StatusSound
    <2>2. rc[Top].got = 1..Total(Top)
        BY <1>1 DEF IInv, ReportSound
    <2>3. rc[Top].status = "permanentFail"
        <3>1. CASE ~Nested
            BY <2>1, <3>1 DEF Target
        <3>2. CASE Nested
            <4>1. PICK g \in 1..Rows : g = x[1]
                BY ItemParts
            <4>2. g \in rc[Top].got /\ rc[g].status = "permanentFail"
                BY <2>1, <2>2, <3>2, <4>1 DEF Target, Total
            <4> QED BY <1>1, <3>2, <4>2 DEF IInv, StatusSound
        <3> QED BY <3>1, <3>2
    <2> QED BY <1>1, <2>3 DEF IInv, ReportSound
<1>2. IInv => ReportWorst
    BY <1>1 DEF ReportWorst, Failed
<1> QED BY <1>2, ScatterInvariance, PTL

\* The step is not reported while an item is still to end.
THEOREM ScatterReportsComplete == Spec => []ReportComplete
<1>1. IInv => ReportComplete
    BY NothingReported DEF ReportComplete, Ended
<1> QED BY <1>1, ScatterInvariance, PTL

\* parallel_steps waits for good only with --on-error stop, and its end is
\* reported.
THEOREM ScatterNeverSilent == Spec => []NeverSilent
<1>1. IInv => NeverSilent
    BY DEF IInv, ReportSound
<1> QED BY <1>1, ScatterInvariance, PTL
=============================================================================
