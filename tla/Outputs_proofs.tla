--------------------------- MODULE Outputs_proofs ---------------------------
(***************************************************************************)
(* Proofs about Outputs: what becomes of the disk while the outputs of a   *)
(* workflow are relocated and the directories of its jobs are removed.     *)
(***************************************************************************)
EXTENDS Outputs, FiniteSetTheorems, SequenceTheorems, WellFoundedInduction, TLAPS

(***************************************************************************)
(* Paths.                                                                  *)
(***************************************************************************)

LEMMA PrefixByPlaces ==
    ASSUME NEW S, NEW s \in Seq(S), NEW t \in Seq(S)
    PROVE  IsPrefix(s, t) <=> Len(s) <= Len(t) /\ \A i \in 1..Len(s) : s[i] = t[i]
<1>1. Len(s) \in Nat /\ Len(t) \in Nat
    OBVIOUS
<1>2. ASSUME Len(s) <= Len(t)
      PROVE  /\ DOMAIN SubSeq(s, 1, Len(s)) = 1..Len(s)
             /\ DOMAIN SubSeq(t, 1, Len(s)) = 1..Len(s)
             /\ \A i \in 1..Len(s) : /\ SubSeq(s, 1, Len(s))[i] = s[i]
                                     /\ SubSeq(t, 1, Len(s))[i] = t[i]
             /\ SubSeq(s, 1, Len(s)) \in Seq(S)
             /\ SubSeq(t, 1, Len(s)) \in Seq(S)
    BY <1>1, <1>2
<1>3. ASSUME Len(s) <= Len(t), \A i \in 1..Len(s) : s[i] = t[i]
      PROVE  SubSeq(s, 1, Len(s)) = SubSeq(t, 1, Len(s))
    BY <1>2, <1>3, SeqEqual
<1> QED BY <1>2, <1>3 DEF IsPrefix

LEMMA PrefixEmpty == ASSUME NEW S, NEW t \in Seq(S) PROVE IsPrefix(<<>>, t)
<1>1. Len(<<>>) = 0 /\ Len(t) \in Nat
    OBVIOUS
<1>2. SubSeq(<<>>, 1, 0) = <<>> /\ SubSeq(t, 1, 0) = <<>>
    OBVIOUS
<1> QED BY <1>1, <1>2 DEF IsPrefix

LEMMA PrefixOrder ==
    ASSUME NEW S
    PROVE  /\ \A s \in Seq(S) : IsPrefix(s, s)
           /\ \A s, t, u \in Seq(S) : IsPrefix(s, t) /\ IsPrefix(t, u) => IsPrefix(s, u)
           /\ \A s, t, u \in Seq(S) : IsPrefix(s, u) /\ IsPrefix(t, u) /\ Len(s) <= Len(t)
                  => IsPrefix(s, t)
           /\ \A s, t \in Seq(S) : IsPrefix(s, t) /\ Len(t) <= Len(s) => s = t
<1>1. \A s \in Seq(S) : Len(s) \in Nat
    OBVIOUS
<1>2. ASSUME NEW s \in Seq(S), NEW t \in Seq(S), IsPrefix(s, t), Len(t) <= Len(s)
      PROVE  s = t
    <2>1. Len(s) = Len(t) /\ \A i \in 1..Len(s) : s[i] = t[i]
        BY <1>1, <1>2, PrefixByPlaces
    <2> QED BY <2>1, SeqEqual
<1> QED BY <1>1, <1>2, PrefixByPlaces

LEMMA PrefixConcat ==
    ASSUME NEW S, NEW s \in Seq(S), NEW t \in Seq(S)
    PROVE  /\ s \o t \in Seq(S) /\ IsPrefix(s, s \o t)
           /\ Len(s \o t) = Len(s) + Len(t)
           /\ SubSeq(s \o t, Len(s) + 1, Len(s \o t)) = t
<1> DEFINE w == s \o t
           u == SubSeq(w, Len(s) + 1, Len(w))
<1>1. /\ w \in Seq(S) /\ Len(w) = Len(s) + Len(t)
      /\ Len(s) \in Nat /\ Len(t) \in Nat
      /\ \A i \in 1..Len(s) : w[i] = s[i]
      /\ \A i \in 1..Len(t) : w[Len(s) + i] = t[i]
    OBVIOUS
<1> HIDE DEF w
<1>2. IsPrefix(s, w)
    BY <1>1, PrefixByPlaces
<1>3. u \in Seq(S) /\ Len(u) = Len(t) /\ \A i \in 1..Len(t) : u[i] = t[i]
    BY <1>1
<1> HIDE DEF u
<1>4. u = t
    BY <1>3, SeqEqual
<1> QED BY <1>1, <1>2, <1>4 DEF u, w

LEMMA PrefixSuffix ==
    ASSUME NEW S, NEW s \in Seq(S), NEW t \in Seq(S), IsPrefix(s, t)
    PROVE  /\ SubSeq(t, Len(s) + 1, Len(t)) \in Seq(S)
           /\ t = s \o SubSeq(t, Len(s) + 1, Len(t))
<1> DEFINE u == SubSeq(t, Len(s) + 1, Len(t))
           w == s \o u
<1>1. /\ Len(s) \in Nat /\ Len(t) \in Nat /\ Len(s) <= Len(t)
      /\ \A i \in 1..Len(s) : s[i] = t[i]
    BY PrefixByPlaces
<1>2. u \in Seq(S) /\ Len(u) = Len(t) - Len(s) /\ \A i \in 1..Len(u) : u[i] = t[Len(s) + i]
    BY <1>1
<1> HIDE DEF u
<1>3. /\ w \in Seq(S) /\ Len(w) = Len(t)
      /\ \A i \in 1..Len(s) : w[i] = s[i]
      /\ \A i \in 1..Len(u) : w[Len(s) + i] = u[i]
    BY <1>1, <1>2
<1> HIDE DEF w
<1>4. ASSUME NEW i \in 1..Len(t) PROVE w[i] = t[i]
    <2>1. CASE i <= Len(s)
        <3>1. i \in 1..Len(s)
            BY <1>1, <2>1
        <3> QED BY <1>1, <1>3, <3>1
    <2>2. CASE i > Len(s)
        <3> DEFINE j == i - Len(s)
        <3>1. j \in 1..Len(u) /\ i = Len(s) + j
            BY <1>1, <1>2, <2>2
        <3> HIDE DEF j
        <3> QED BY <1>2, <1>3, <3>1
    <2> QED BY <1>1, <2>1, <2>2
<1>5. w = t
    BY <1>3, <1>4, SeqEqual
<1> QED BY <1>2, <1>5 DEF u, w

LEMMA PrefixFront ==
    ASSUME NEW S, NEW s \in Seq(S) \ {<<>>}
    PROVE  /\ Front(s) \in Seq(S) /\ Len(Front(s)) = Len(s) - 1
           /\ IsPrefix(Front(s), s) /\ Last(s) \in S
           /\ \A t \in Seq(S) : IsPrefix(t, s) /\ t # s => IsPrefix(t, Front(s))
           /\ s = Append(Front(s), Last(s))
<1> DEFINE u == Front(s)
           w == Append(u, Last(s))
<1>1. s \in Seq(S) /\ Len(s) \in Nat /\ Len(s) > 0
    OBVIOUS
<1>2. /\ u \in Seq(S) /\ Len(u) = Len(s) - 1
      /\ \A i \in 1..Len(u) : u[i] = s[i]
    <2>1. \A n \in Nat : n < Len(s) =>
              /\ SubSeq(s, 1, n) \in Seq(S) /\ Len(SubSeq(s, 1, n)) = n
              /\ \A i \in 1..n : SubSeq(s, 1, n)[i] = s[i]
        BY <1>1
    <2>2. Len(s) - 1 \in Nat /\ Len(s) - 1 < Len(s)
        BY <1>1
    <2> QED BY <2>1, <2>2 DEF Front
<1>3. Last(s) \in S /\ Last(s) = s[Len(s)]
    BY <1>1 DEF Last
<1> HIDE DEF u
<1>4. IsPrefix(u, s)
    BY <1>1, <1>2, PrefixByPlaces
<1>5. ASSUME NEW t \in Seq(S), IsPrefix(t, s), t # s PROVE IsPrefix(t, u)
    <2>1. Len(t) \in Nat /\ Len(t) <= Len(s)
        BY <1>5, PrefixByPlaces
    <2>2. ~(Len(s) <= Len(t))
        BY <1>5, PrefixOrder
    <2>3. Len(t) <= Len(u)
        BY <1>1, <1>2, <2>1, <2>2
    <2> QED BY <1>2, <1>4, <1>5, <2>3, PrefixOrder
<1>6. /\ w \in Seq(S) /\ Len(w) = Len(s)
      /\ \A i \in 1..Len(u) : w[i] = u[i]
      /\ w[Len(s)] = Last(s)
    BY <1>1, <1>2, <1>3
<1> HIDE DEF w
<1>7. \A i \in 1..Len(s) : w[i] = s[i]
    BY <1>1, <1>2, <1>3, <1>6
<1>8. w = s
    BY <1>6, <1>7, SeqEqual
<1> QED BY <1>2, <1>3, <1>4, <1>5, <1>8 DEF u, w

LEMMA PrefixAppend ==
    ASSUME NEW S, NEW s \in Seq(S), NEW x \in S
    PROVE  /\ Append(s, x) \in Seq(S) /\ Len(Append(s, x)) = Len(s) + 1
           /\ IsPrefix(s, Append(s, x)) /\ Front(Append(s, x)) = s
           /\ Last(Append(s, x)) = x
<1> DEFINE w == Append(s, x)
           u == Front(w)
<1>1. /\ w \in Seq(S) /\ Len(w) = Len(s) + 1
      /\ Len(s) \in Nat /\ \A i \in 1..Len(s) : w[i] = s[i]
      /\ w[Len(s) + 1] = x
    OBVIOUS
<1> HIDE DEF w
<1>2. IsPrefix(s, w)
    BY <1>1, PrefixByPlaces
<1>3. u \in Seq(S) /\ Len(u) = Len(s) /\ \A i \in 1..Len(s) : u[i] = s[i]
    BY <1>1 DEF Front
<1> HIDE DEF u
<1>4. u = s
    BY <1>1, <1>3, SeqEqual
<1>5. Last(w) = x
    BY <1>1 DEF Last
<1> QED BY <1>1, <1>2, <1>4, <1>5 DEF u, w

LEMMA PrefixParts ==
    ASSUME NEW S, NEW s \in Seq(S), NEW k \in 1..Len(s)
    PROVE  /\ SubSeq(s, 1, k) \in Seq(S) /\ Len(SubSeq(s, 1, k)) = k
           /\ IsPrefix(SubSeq(s, 1, k), s)
<1> DEFINE u == SubSeq(s, 1, k)
<1>1. /\ Len(s) \in Nat /\ u \in Seq(S) /\ Len(u) = k
      /\ k \in Nat /\ k <= Len(s) /\ \A i \in 1..k : u[i] = s[i]
    OBVIOUS
<1> HIDE DEF u
<1>2. IsPrefix(u, s)
    BY <1>1, PrefixByPlaces
<1> QED BY <1>1, <1>2 DEF u

LEMMA PrefixIsPart ==
    ASSUME NEW S, NEW s \in Seq(S), NEW t \in Seq(S), IsPrefix(t, s)
    PROVE  SubSeq(s, 1, Len(t)) = t
<1> DEFINE u == SubSeq(s, 1, Len(t))
<1>1. Len(t) \in Nat /\ Len(s) \in Nat /\ Len(t) <= Len(s) /\ \A i \in 1..Len(t) : t[i] = s[i]
    BY PrefixByPlaces
<1>2. /\ u \in Seq(S) /\ Len(u) = Len(t)
      /\ \A i \in 1..Len(t) : u[i] = s[i]
    BY <1>1
<1> HIDE DEF u
<1>3. u = t
    BY <1>1, <1>2, SeqEqual
<1> QED BY <1>3 DEF u

LEMMA PathFacts ==
    /\ Path \subseteq Seq(Name) /\ Dest \in Path /\ CacheDir \in Path
    /\ OutputDirs \subseteq Path /\ Path = Seq(Name) \ {<<>>}
    /\ \A p \in Path : Len(p) \in Nat /\ Len(p) > 0 /\ p[1] \in Name
    BY DirsAssumption DEF DirsAssumption, Path

\* A longer path is a path.
LEMMA PathConcat ==
    ASSUME NEW p \in Path, NEW s \in Seq(Name) PROVE p \o s \in Path
    BY PathFacts, PrefixConcat

\* The paths on the way to p, and what is left of it.
LEMMA PathParts ==
    ASSUME NEW p \in Path, NEW k \in 1..Len(p)
    PROVE  /\ SubSeq(p, 1, k) \in Path /\ Len(SubSeq(p, 1, k)) = k
           /\ IsPrefix(SubSeq(p, 1, k), p) /\ SubSeq(p, 1, k)[1] = p[1]
           /\ SubSeq(p, k + 1, Len(p)) \in Seq(Name)
<1>1. p \in Seq(Name) /\ k \in Nat /\ k >= 1 /\ Len(p) \in Nat /\ k <= Len(p)
    BY PathFacts
<1>2. /\ SubSeq(p, 1, k) \in Seq(Name) /\ Len(SubSeq(p, 1, k)) = k
      /\ IsPrefix(SubSeq(p, 1, k), p)
    BY <1>1, PrefixParts
<1>3. SubSeq(p, 1, k)[1] = p[1] /\ SubSeq(p, k + 1, Len(p)) \in Seq(Name)
    BY <1>1
<1>4. SubSeq(p, 1, k) # <<>>
    BY <1>1, <1>2
<1> QED BY <1>2, <1>3, <1>4 DEF Path

LEMMA SmallestNumber ==
    ASSUME NEW T, T \subseteq Nat, T # {}
    PROVE  \E n \in T : \A m \in T : n <= m
<1> DEFINE R == {ss \in Nat \X Nat : ss[1] < ss[2]}
<1>1. IsWellFoundedOn(R, Nat)
    BY NatLessThanWellFounded, Zenon DEF OpToRel
<1>2. \A m, n \in T : m < n => <<m, n>> \in R
    OBVIOUS
<1> HIDE DEF R
<1>3. \E n \in T : \A m \in T : ~(<<m, n>> \in R)
    BY <1>1, WFMin
<1>4. PICK n \in T : \A m \in T : ~(<<m, n>> \in R)
    BY <1>3
<1>5. \A m \in T : ~(m < n)
    BY <1>2, <1>4
<1>6. n \in Nat /\ \A m \in T : m \in Nat
    OBVIOUS
<1>7. \A m \in T : n <= m
    BY <1>5, <1>6
<1> QED BY <1>7

(***************************************************************************)
(* os.path.realpath.  The function it is defined by is recursive; that it  *)
(* exists, and what it computes, is shown by looking at the smallest       *)
(* number for which that would fail.                                       *)
(***************************************************************************)

\* What a disk is, whatever has been done to it.
Disk(F) == DOMAIN F \subseteq Path /\ F \in [DOMAIN F -> Node]

Chain(F, path, g, n) ==
    g = [k \in 0..n |-> IF k = 0 THEN path ELSE Follow(F, g[k - 1])]
Reached(F, path) == CHOOSE g : Chain(F, path, g, MaxLinks)

LEMMA RealPathReached ==
    ASSUME NEW F, NEW path
    PROVE  RealPath(F, path) =
               IF Links(F, Reached(F, path)[MaxLinks]) = {}
               THEN Reached(F, path)[MaxLinks] ELSE Nowhere
    BY DEF RealPath, Reached, Chain

LEMMA ChainExists ==
    ASSUME NEW F, NEW path, NEW n \in Nat
    PROVE  \E g : Chain(F, path, g, n)
<1> DEFINE T == {m \in Nat : ~ \E g : Chain(F, path, g, m)}
<1> SUFFICES ASSUME T # {} PROVE FALSE
    OBVIOUS
<1>1. PICK m \in T : \A i \in T : m <= i
    <2>1. T \subseteq Nat
        OBVIOUS
    <2> HIDE DEF T
    <2> QED BY <2>1, SmallestNumber
<1>2. m \in Nat /\ ~ \E g : Chain(F, path, g, m)
    OBVIOUS
<1>3. CASE m = 0
    <2>1. Chain(F, path, [k \in 0..0 |-> path], 0)
        BY DEF Chain
    <2> QED BY <1>2, <1>3, <2>1
<1>4. CASE m > 0
    <2>1. m - 1 \in Nat /\ m - 1 \notin T
        BY <1>1, <1>2, <1>4
    <2>2. PICK g : Chain(F, path, g, m - 1)
        BY <2>1
    <2> DEFINE h == [k \in 0..m |-> IF k = 0 THEN path ELSE Follow(F, g[k - 1])]
    <2>3. \A k \in 0..(m - 1) : h[k] = g[k]
        <3>1. ASSUME NEW k \in 0..(m - 1) PROVE h[k] = g[k]
            <4>1. k \in 0..m
                BY <1>2, <2>1
            <4>2. g[k] = IF k = 0 THEN path ELSE Follow(F, g[k - 1])
                BY <2>2 DEF Chain
            <4> QED BY <4>1, <4>2
        <3> QED BY <3>1
    <2>4. \A k \in 0..m : h[k] = IF k = 0 THEN path ELSE Follow(F, h[k - 1])
        <3>1. ASSUME NEW k \in 0..m, k # 0 PROVE h[k - 1] = g[k - 1]
            <4>1. k - 1 \in 0..(m - 1)
                BY <1>2, <3>1
            <4> HIDE DEF h
            <4> QED BY <2>3, <4>1
        <3> QED BY <3>1
    <2>5. Chain(F, path, h, m)
        <3>1. DOMAIN h = 0..m /\ h = [k \in DOMAIN h |-> h[k]]
            OBVIOUS
        <3> HIDE DEF h
        <3>2. h = [k \in 0..m |-> h[k]]
            BY <3>1
        <3>3. [k \in 0..m |-> h[k]] =
                  [k \in 0..m |-> IF k = 0 THEN path ELSE Follow(F, h[k - 1])]
            BY <2>4
        <3> QED BY <3>2, <3>3 DEF Chain
    <2> QED BY <1>2, <2>5
<1> QED BY <1>2, <1>3, <1>4

LEMMA ReachedFacts ==
    ASSUME NEW F, NEW path
    PROVE  /\ Reached(F, path)[0] = path
           /\ \A k \in 1..MaxLinks :
                 Reached(F, path)[k] = Follow(F, Reached(F, path)[k - 1])
<1>1. MaxLinks \in Nat
    BY ObjectsAssumption DEF ObjectsAssumption
<1>2. Chain(F, path, Reached(F, path), MaxLinks)
    BY <1>1, ChainExists DEF Reached
<1> DEFINE g == Reached(F, path)
<1> HIDE DEF g
<1>3. g = [k \in 0..MaxLinks |-> IF k = 0 THEN path ELSE Follow(F, g[k - 1])]
    BY <1>2 DEF g, Chain
<1>4. \A k \in 0..MaxLinks : g[k] = IF k = 0 THEN path ELSE Follow(F, g[k - 1])
    BY <1>3
<1>5. 0 \in 0..MaxLinks /\ \A k \in 1..MaxLinks : k \in 0..MaxLinks /\ k # 0
    BY <1>1
<1> QED BY <1>4, <1>5 DEF g

\* What holds of a path, and of what a path with that property leads to by one
\* link, holds of every path reached: here for a set of paths.
LEMMA ReachedIn ==
    ASSUME NEW F, NEW S, NEW path \in S, \A p \in S : Follow(F, p) \in S
    PROVE  Reached(F, path)[MaxLinks] \in S
<1>1. MaxLinks \in Nat
    BY ObjectsAssumption DEF ObjectsAssumption
<1> DEFINE g == Reached(F, path)
           T == {k \in 0..MaxLinks : g[k] \notin S}
<1>2. /\ g[0] = path
      /\ \A k \in 1..MaxLinks : g[k] = Follow(F, g[k - 1])
    BY ReachedFacts
<1> HIDE DEF g
<1>3. T = {}
    <2> SUFFICES ASSUME T # {} PROVE FALSE
        OBVIOUS
    <2>1. PICK n \in T : \A m \in T : n <= m
        <3>1. T \subseteq Nat
            BY <1>1
        <3> HIDE DEF T
        <3> QED BY <3>1, SmallestNumber
    <2>2. n # 0
        BY <1>2
    <2>3. n \in 1..MaxLinks /\ n - 1 \in 0..MaxLinks /\ n - 1 \notin T
        BY <1>1, <2>1, <2>2
    <2>4. g[n - 1] \in S /\ g[n] = Follow(F, g[n - 1])
        BY <1>2, <2>3
    <2> QED BY <2>4
<1> QED BY <1>1, <1>3 DEF g

LEMMA LinksSmallest ==
    ASSUME NEW F, NEW path \in Path, Links(F, path) # {}
    PROVE  Min(Links(F, path)) \in Links(F, path)
<1>1. Links(F, path) \subseteq Nat
    BY PathFacts DEF Links
<1> QED BY <1>1, SmallestNumber DEF Min

LEMMA FollowTypes ==
    ASSUME NEW F, Disk(F), NEW path \in Path PROVE Follow(F, path) \in Path
<1>1. CASE Links(F, path) = {}
    BY <1>1 DEF Follow
<1>2. CASE Links(F, path) # {}
    <2> DEFINE k == Min(Links(F, path))
               p == SubSeq(path, 1, k)
    <2>1. k \in Links(F, path)
        BY <1>2, LinksSmallest
    <2> HIDE DEF k
    <2>2. /\ k \in 1..Len(path) /\ p \in DOMAIN F /\ F[p].kind = "link"
        BY <2>1 DEF Links, Exists
    <2> HIDE DEF p
    <2>3. F[p].to \in Path
        BY <2>2 DEF Disk, Node
    <2>4. SubSeq(path, k + 1, Len(path)) \in Seq(Name)
        BY <2>2, PathParts
    <2>5. Follow(F, path) = F[p].to \o SubSeq(path, k + 1, Len(path))
        BY <1>2 DEF Follow, k, p
    <2> QED BY <2>3, <2>4, <2>5, PathConcat
<1> QED BY <1>1, <1>2

LEMMA NowherePath == Nowhere \in Path /\ Nowhere[1] = <<>> /\ Len(Nowhere) = 1
<1>1. <<>> \in Seq(Strings)
    OBVIOUS
<1> QED BY <1>1 DEF Nowhere, Path, Name

LEMMA RealPathTypes ==
    ASSUME NEW F, Disk(F), NEW path \in Path PROVE RealPath(F, path) \in Path
<1>1. Reached(F, path)[MaxLinks] \in Path
    BY FollowTypes, ReachedIn
<1> QED BY <1>1, RealPathReached, NowherePath

\* A path without links is real.
LEMMA RealPathOfReal ==
    ASSUME NEW F, NEW path, Links(F, path) = {} PROVE RealPath(F, path) = path
<1>1. \A p \in {path} : Follow(F, p) \in {path}
    BY DEF Follow
<1>2. Reached(F, path)[MaxLinks] \in {path}
    BY <1>1, ReachedIn
<1> QED BY <1>2, RealPathReached

\* What is real holds no link, on a disk without nameless ones.
Named(F) == Nowhere \in DOMAIN F => F[Nowhere].kind # "link"

LEMMA RealPathIsReal ==
    ASSUME NEW F, NEW path, Named(F) PROVE Links(F, RealPath(F, path)) = {}
<1>1. Links(F, Nowhere) = {}
    <2>0. Nowhere \in Path /\ Len(Nowhere) = 1
        BY NowherePath
    <2>1. ASSUME NEW k \in 1..Len(Nowhere) PROVE SubSeq(Nowhere, 1, k) = Nowhere
        <3>1. Len(Nowhere) = k /\ Nowhere \in Seq(Name)
            BY <2>0, <2>1, PathFacts
        <3>2. IsPrefix(Nowhere, Nowhere)
            BY <3>1, PrefixOrder
        <3> QED BY <3>1, <3>2, PrefixIsPart
    <2> QED BY <2>1 DEF Links, Exists, Named
<1> QED BY <1>1, RealPathReached

(***************************************************************************)
(* The disk: what each operation keeps, and where it writes.               *)
(***************************************************************************)

SameAt(F, G, p) == /\ p \in DOMAIN F <=> p \in DOMAIN G
                   /\ p \in DOMAIN F => F[p] = G[p]

\* G has no link that F has not.
NoNewLink(F, G) ==
    \A p \in DOMAIN G : G[p].kind = "link" => p \in DOMAIN F /\ G[p] = F[p]

LEMMA SuffixFacts ==
    ASSUME NEW p \in Path, NEW s \in Path
    PROVE  /\ IsPrefix(s, p) => Suffix(p, s) \in Seq(Name) /\ p = s \o Suffix(p, s)
           /\ \A t \in Seq(Name) : /\ s \o t \in Path /\ IsPrefix(s, s \o t)
                                   /\ Suffix(s \o t, s) = t
<1>1. IsPrefix(s, p) => Suffix(p, s) \in Seq(Name) /\ p = s \o Suffix(p, s)
    BY PathFacts, PrefixSuffix DEF Suffix
<1>2. ASSUME NEW t \in Seq(Name)
      PROVE  s \o t \in Path /\ IsPrefix(s, s \o t) /\ Suffix(s \o t, s) = t
    BY PathFacts, PathConcat, PrefixConcat DEF Suffix
<1> QED BY <1>1, <1>2

LEMMA WithoutFacts ==
    ASSUME NEW F, Disk(F), NEW D, D \subseteq DOMAIN F
    PROVE  /\ Disk([p \in D |-> F[p]])
           /\ NoNewLink(F, [p \in D |-> F[p]])
    BY DEF Disk, NoNewLink

LEMMA MakeDirsFacts ==
    ASSUME NEW F, Disk(F), NEW dir \in Seq(Name)
    PROVE  /\ Disk(MakeDirs(F, dir))
           /\ NoNewLink(F, MakeDirs(F, dir))
           /\ DOMAIN F \subseteq DOMAIN MakeDirs(F, dir)
           /\ \A p \in Path :
                 \/ SameAt(F, MakeDirs(F, dir), p)
                 \/ p \notin DOMAIN F /\ IsDir(MakeDirs(F, dir), p) /\ IsPrefix(p, dir)
<1> DEFINE above == {SubSeq(dir, 1, k) : k \in 1..Len(dir)}
           G == [p \in DOMAIN F \cup above |-> IF p \in DOMAIN F THEN F[p] ELSE DirNode]
<1>1. \A p \in above : p \in Path /\ IsPrefix(p, dir)
    <2>1. ASSUME NEW k \in 1..Len(dir)
          PROVE  SubSeq(dir, 1, k) \in Path /\ IsPrefix(SubSeq(dir, 1, k), dir)
        <3>1. dir # <<>>
            OBVIOUS
        <3> QED BY <3>1, PathParts DEF Path
    <2> QED BY <2>1
<1>2. MakeDirs(F, dir) = F \/ MakeDirs(F, dir) = G
    BY DEF MakeDirs
<1>3. DirNode \in Node /\ DirNode.kind = "dir"
    BY DEF DirNode, Node
<1> HIDE DEF above
<1>4. Disk(G)
    BY <1>1, <1>3 DEF Disk
<1>5. NoNewLink(F, G) /\ NoNewLink(F, F)
    BY <1>3 DEF NoNewLink
<1>6. \A p \in Path : \/ SameAt(F, G, p)
                      \/ p \notin DOMAIN F /\ IsDir(G, p) /\ IsPrefix(p, dir)
    BY <1>1, <1>3 DEF SameAt, IsDir, Exists
<1>7. DOMAIN F \subseteq DOMAIN G
    OBVIOUS
<1> HIDE DEF G
<1> QED BY <1>2, <1>4, <1>5, <1>6, <1>7 DEF SameAt

LEMMA GraftFacts ==
    ASSUME NEW F, Disk(F), NEW tree, NEW src \in Path, NEW dst \in Path,
           \A s \in DOMAIN tree : s \in Path /\ IsPrefix(src, s) /\ tree[s] \in Node
    PROVE  /\ Disk(Graft(F, tree, src, dst))
           /\ \A p \in Path : \/ SameAt(F, Graft(F, tree, src, dst), p)
                              \/ IsPrefix(dst, p)
           /\ \A p \in DOMAIN Graft(F, tree, src, dst) :
                 \/ p \in DOMAIN F /\ Graft(F, tree, src, dst)[p] = F[p]
                 \/ \E s \in DOMAIN tree : Graft(F, tree, src, dst)[p] = tree[s]
<1> DEFINE To(s) == dst \o Suffix(s, src)
           From(p) == src \o Suffix(p, dst)
           D == {To(s) : s \in DOMAIN tree}
           copied == [p \in D |-> tree[From(p)]]
           G == [p \in DOMAIN F \cup D |-> IF p \in D THEN copied[p] ELSE F[p]]
<1>1. ASSUME NEW s \in DOMAIN tree
      PROVE  To(s) \in Path /\ IsPrefix(dst, To(s)) /\ From(To(s)) = s
    <2>1. Suffix(s, src) \in Seq(Name) /\ s = src \o Suffix(s, src)
        BY SuffixFacts
    <2> QED BY <2>1, SuffixFacts
<1>2. \A p \in D : p \in Path /\ IsPrefix(dst, p) /\ From(p) \in DOMAIN tree
    BY <1>1
<1>3. Graft(F, tree, src, dst) = G
    BY DEF Graft
<1> HIDE DEF To, From
<1>4. \A p \in D : \E s \in DOMAIN tree : copied[p] = tree[s] /\ copied[p] \in Node
    BY <1>2
<1> HIDE DEF D, copied
<1>5. Disk(G)
    BY <1>2, <1>4 DEF Disk
<1>6. \A p \in Path : SameAt(F, G, p) \/ IsPrefix(dst, p)
    BY <1>2 DEF SameAt
<1>7. \A p \in DOMAIN G : \/ p \in DOMAIN F /\ G[p] = F[p]
                          \/ \E s \in DOMAIN tree : G[p] = tree[s]
    BY <1>4
<1> QED BY <1>3, <1>5, <1>6, <1>7

\* The place that Move and CopyOver write to.
LEMMA RealTarget ==
    ASSUME NEW src \in Path, NEW dst \in Path
    PROVE  /\ Append(dst, Last(src)) \in Path /\ IsPrefix(dst, Append(dst, Last(src)))
           /\ IsPrefix(dst, dst)
<1>1. Last(src) \in Name
    BY PathFacts, PrefixFront
<1>2. /\ Append(dst, Last(src)) \in Seq(Name) /\ IsPrefix(dst, Append(dst, Last(src)))
      /\ Len(Append(dst, Last(src))) = Len(dst) + 1
    BY <1>1, PathFacts, PrefixAppend
<1>3. Append(dst, Last(src)) # <<>>
    <2> DEFINE w == Append(dst, Last(src))
    <2>1. Len(w) = Len(dst) + 1 /\ Len(dst) \in Nat
        BY <1>2, PathFacts
    <2> HIDE DEF w
    <2>2. w # <<>>
        BY <2>1
    <2> QED BY <2>2 DEF w
<1> QED BY <1>2, <1>3, PathFacts, PrefixOrder DEF Path

LEMMA WithoutSame ==
    ASSUME NEW F, Disk(F), NEW dir \in Path
    PROVE  /\ Disk(Without(F, dir)) /\ NoNewLink(F, Without(F, dir))
           /\ \A p \in Path : SameAt(F, Without(F, dir), p) \/ (IsPrefix(dir, p) /\ p \in DOMAIN F)
           /\ At(Without(F, dir), dir) = {}
<1>1. Disk(Without(F, dir)) /\ NoNewLink(F, Without(F, dir))
    BY WithoutFacts DEF Without
<1>2. /\ DOMAIN Without(F, dir) = DOMAIN F \ At(F, dir)
      /\ \A p \in DOMAIN F \ At(F, dir) : Without(F, dir)[p] = F[p]
    BY DEF Without
<1>3. \A p \in Path : SameAt(F, Without(F, dir), p) \/ (IsPrefix(dir, p) /\ p \in DOMAIN F)
    BY <1>2 DEF At, SameAt
<1>4. At(Without(F, dir), dir) = {}
    BY <1>2 DEF At
<1> QED BY <1>1, <1>3, <1>4

\* shutil.move without the removal of the source.
LEMMA MoveFacts ==
    ASSUME NEW F, Disk(F), NEW src \in Path, NEW dst \in Path
    PROVE  /\ Disk(Move(F, src, dst).fs)
           /\ Move(F, src, dst).ok => src \in DOMAIN F
           /\ \A p \in Path : SameAt(F, Move(F, src, dst).fs, p) \/ IsPrefix(dst, p)
           /\ (\A p \in At(F, src) : F[p].kind # "link") => NoNewLink(F, Move(F, src, dst).fs)
<1> DEFINE real == IF IsDir(F, dst) THEN Append(dst, Last(src)) ELSE dst
           W == Without(F, real)
           tree == Kept(W, src)
           G == Graft(W, tree, src, real)
<1>1. real \in Path /\ IsPrefix(dst, real)
    BY RealTarget
<1>2. \/ Move(F, src, dst) = [ok |-> FALSE, fs |-> F]
      \/ Move(F, src, dst) = [ok |-> TRUE, fs |-> G] /\ src \in DOMAIN F
    BY DEF Move, Exists
<1> HIDE DEF real
<1>3. /\ Disk(W) /\ NoNewLink(F, W)
      /\ \A p \in Path : SameAt(F, W, p) \/ IsPrefix(real, p)
    BY <1>1, WithoutSame
<1> HIDE DEF W
<1>4. /\ Disk(G)
      /\ \A p \in Path : SameAt(W, G, p) \/ IsPrefix(real, p)
      /\ \A p \in DOMAIN G : (p \in DOMAIN W /\ G[p] = W[p])
                                 \/ \E s \in At(W, src) : G[p] = W[s]
    <2>1. DOMAIN tree = At(W, src) /\ \A s \in At(W, src) : tree[s] = W[s]
        BY DEF Kept
    <2>2. \A s \in At(W, src) : s \in Path /\ IsPrefix(src, s) /\ W[s] \in Node
        BY <1>3 DEF At, Disk
    <2> HIDE DEF tree
    <2>3. /\ Disk(G)
          /\ \A p \in Path : SameAt(W, G, p) \/ IsPrefix(real, p)
          /\ \A p \in DOMAIN G : (p \in DOMAIN W /\ G[p] = W[p])
                                     \/ \E s \in DOMAIN tree : G[p] = tree[s]
        BY <1>1, <1>3, <2>1, <2>2, GraftFacts
    <2> HIDE DEF G
    <2> QED BY <2>1, <2>3
<1> HIDE DEF G
<1>5. \A p \in Path : SameAt(F, G, p) \/ IsPrefix(dst, p)
    <2>1. \A p \in Path : IsPrefix(real, p) => IsPrefix(dst, p)
        BY <1>1, PathFacts, PrefixOrder
    <2> QED BY <1>3, <1>4, <2>1 DEF SameAt
<1>6. ASSUME \A p \in At(F, src) : F[p].kind # "link" PROVE NoNewLink(F, G)
    <2>1. ASSUME NEW s \in At(W, src) PROVE W[s].kind # "link"
        <3>1. s \in DOMAIN W /\ IsPrefix(src, s)
            BY DEF At
        <3>2. W[s].kind = "link" => s \in At(F, src) /\ W[s] = F[s]
            BY <1>3, <3>1 DEF NoNewLink, At
        <3> QED BY <1>6, <3>2
    <2> QED BY <1>3, <1>4, <2>1 DEF NoNewLink
<1>7. NoNewLink(F, F) /\ \A p \in Path : SameAt(F, F, p)
    BY DEF NoNewLink, SameAt
<1> QED BY <1>2, <1>4, <1>5, <1>6, <1>7

LEMMA RenamedFacts ==
    ASSUME NEW F, Disk(F), NEW src \in Path, NEW dst \in Path
    PROVE  /\ Disk(Renamed(F, src, dst).fs)
           /\ \A p \in Path : \/ SameAt(F, Renamed(F, src, dst).fs, p)
                              \/ IsPrefix(dst, p)
                              \/ IsPrefix(src, p) /\ src \in DOMAIN F
           /\ (\A p \in At(F, src) : F[p].kind # "link") => NoNewLink(F, Renamed(F, src, dst).fs)
<1> DEFINE m == Move(F, src, dst)
<1>1. /\ Disk(m.fs) /\ (m.ok => src \in DOMAIN F)
      /\ \A p \in Path : SameAt(F, m.fs, p) \/ IsPrefix(dst, p)
      /\ (\A p \in At(F, src) : F[p].kind # "link") => NoNewLink(F, m.fs)
    BY MoveFacts
<1>2. m = [ok |-> m.ok, fs |-> m.fs]
    BY DEF Move
<1> HIDE DEF m
<1>3. \/ Renamed(F, src, dst).fs = m.fs
      \/ m.ok /\ Renamed(F, src, dst).fs = Without(m.fs, src)
    BY <1>2 DEF Renamed, m
<1>4. /\ Disk(Without(m.fs, src)) /\ NoNewLink(m.fs, Without(m.fs, src))
      /\ \A p \in Path : SameAt(m.fs, Without(m.fs, src), p) \/ IsPrefix(src, p)
    BY <1>1, WithoutSame
<1> DEFINE W == Without(m.fs, src)
<1> HIDE DEF W
<1>5. NoNewLink(F, m.fs) /\ NoNewLink(m.fs, W) => NoNewLink(F, W)
    BY DEF NoNewLink
<1>6. \A p \in Path : m.ok => \/ SameAt(F, W, p) \/ IsPrefix(dst, p)
                              \/ (IsPrefix(src, p) /\ src \in DOMAIN F)
    BY <1>1, <1>4 DEF SameAt, W
<1> QED BY <1>1, <1>3, <1>4, <1>5, <1>6 DEF W

LEMMA CopyOverFacts ==
    ASSUME NEW F, Disk(F), NEW src \in Path, NEW dst \in Path
    PROVE  /\ Disk(CopyOver(F, src, dst).fs)
           /\ \A p \in Path : SameAt(F, CopyOver(F, src, dst).fs, p) \/ IsPrefix(dst, p)
           /\ Named(F) => NoNewLink(F, CopyOver(F, src, dst).fs)
<1> DEFINE real == IF ~IsDir(F, src) /\ IsDir(F, dst) THEN Append(dst, Last(src)) ELSE dst
           W == Without(F, real)
           tree == Followed(W, src)
           G == Graft(W, tree, src, real)
<1>1. real \in Path /\ IsPrefix(dst, real)
    BY RealTarget
<1>2. \/ CopyOver(F, src, dst) = [ok |-> FALSE, fs |-> F]
      \/ CopyOver(F, src, dst) = [ok |-> FALSE, fs |-> W]
      \/ /\ CopyOver(F, src, dst) = [ok |-> TRUE, fs |-> G]
         /\ \A p \in At(F, src) : Exists(W, RealPath(W, p))
    BY DEF CopyOver
<1> HIDE DEF real
<1>3. /\ Disk(W) /\ NoNewLink(F, W)
      /\ \A p \in Path : SameAt(F, W, p) \/ IsPrefix(real, p)
      /\ At(W, src) \subseteq At(F, src) /\ (Named(F) => Named(W))
    <2>1. DOMAIN W \subseteq DOMAIN F /\ \A p \in DOMAIN W : W[p] = F[p]
        BY DEF Without
    <2> QED BY <1>1, <2>1, WithoutSame DEF At, Named
<1> HIDE DEF W
<1>4. \A p \in Path : IsPrefix(real, p) => IsPrefix(dst, p)
    BY <1>1, PathFacts, PrefixOrder
<1>5. ASSUME \A p \in At(F, src) : Exists(W, RealPath(W, p))
      PROVE  /\ Disk(G) /\ (Named(F) => NoNewLink(F, G))
             /\ \A p \in Path : SameAt(F, G, p) \/ IsPrefix(dst, p)
    <2>1. /\ Disk(G)
          /\ \A p \in Path : SameAt(W, G, p) \/ IsPrefix(real, p)
          /\ \A p \in DOMAIN G : (p \in DOMAIN W /\ G[p] = W[p])
                                     \/ \E s \in At(W, src) : G[p] = W[RealPath(W, s)]
        <3>1. DOMAIN tree = At(W, src) /\ \A s \in At(W, src) : tree[s] = W[RealPath(W, s)]
            BY DEF Followed
        <3>2. \A s \in At(W, src) : /\ s \in Path /\ IsPrefix(src, s)
                                    /\ W[RealPath(W, s)] \in Node
            BY <1>3, <1>5 DEF At, Disk, Exists
        <3>4. \A s \in DOMAIN tree : s \in Path /\ IsPrefix(src, s) /\ tree[s] \in Node
            BY <3>1, <3>2
        <3>5. Disk(W) /\ real \in Path
            BY <1>1, <1>3
        <3> HIDE DEF tree
        <3>3. /\ Disk(G)
              /\ \A p \in Path : SameAt(W, G, p) \/ IsPrefix(real, p)
              /\ \A p \in DOMAIN G : (p \in DOMAIN W /\ G[p] = W[p])
                                         \/ \E s \in DOMAIN tree : G[p] = tree[s]
            BY <3>4, <3>5, GraftFacts
        <3> HIDE DEF G
        <3> QED BY <3>1, <3>3
    <2> HIDE DEF G
    <2>2. ASSUME NEW s \in At(W, src), Named(F) PROVE W[RealPath(W, s)].kind # "link"
        <3> DEFINE r == RealPath(W, s)
        <3>1. Links(W, r) = {}
            BY <1>3, <2>2, RealPathIsReal
        <3>2. r \in DOMAIN W /\ r \in Path
            BY <1>3, <1>5 DEF Exists, Disk
        <3> HIDE DEF r
        <3>3. Len(r) \in 1..Len(r) /\ SubSeq(r, 1, Len(r)) = r
            <4>1. r \in Seq(Name) /\ Len(r) \in Nat /\ Len(r) > 0
                BY <3>2, PathFacts
            <4>2. IsPrefix(r, r)
                BY <4>1, PrefixOrder
            <4> QED BY <4>1, <4>2, PrefixIsPart
        <3>4. W[r].kind # "link"
            BY <3>1, <3>2, <3>3 DEF Links, Exists
        <3> QED BY <3>4 DEF r
    <2>3. Named(F) => NoNewLink(F, G)
        BY <1>3, <2>1, <2>2 DEF NoNewLink
    <2> QED BY <1>3, <1>4, <2>1, <2>3 DEF SameAt
<1>6. NoNewLink(F, F) /\ \A p \in Path : SameAt(F, F, p)
    BY DEF NoNewLink, SameAt
<1> HIDE DEF G
<1> QED BY <1>2, <1>3, <1>4, <1>5, <1>6

(***************************************************************************)
(* The types.                                                              *)
(***************************************************************************)

Types == TypeOK /\ Fresh /\ Contents

LEMMA DisksAreDisks ==
    ASSUME NEW F \in FileSystems
    PROVE  /\ Disk(F) /\ IsFiniteSet(DOMAIN F) /\ Nowhere \notin DOMAIN F /\ Named(F)
           /\ \A p \in DOMAIN F : p[1] # Anonymous
<1>1. /\ F \in [DOMAIN F -> Node] /\ IsFiniteSet(DOMAIN F)
      /\ \A p \in DOMAIN F : p \in Path /\ p[1] # Anonymous /\ p[1] # <<>>
    BY DiskAssumption DEF DiskAssumption
<1>2. Nowhere \notin DOMAIN F
    BY <1>1, NowherePath
<1> QED BY <1>1, <1>2 DEF Disk, Named

LEMMA SeqRange == ASSUME NEW S, NEW s \in Seq(S) PROVE s \in Seq(Range(s))
<1>1. /\ Len(s) \in Nat /\ DOMAIN s = 1..Len(s) /\ s = [i \in 1..Len(s) |-> s[i]]
      /\ \A i \in 1..Len(s) : s[i] \in Range(s)
    BY DEF Range
<1>2. [i \in 1..Len(s) |-> s[i]] \in Seq(Range(s))
    BY <1>1
<1> QED BY <1>1, <1>2

LEMMA SeqByItems ==
    ASSUME NEW S, NEW n \in Nat, NEW f, f = [i \in 1..n |-> f[i]],
           \A i \in 1..n : f[i] \in S
    PROVE  f \in Seq(S)
<1>1. [i \in 1..n |-> f[i]] \in Seq(S)
    OBVIOUS
<1> QED BY <1>1

LEMMA HeadTail ==
    ASSUME NEW S, NEW s \in Seq(S), s # <<>>
    PROVE  Head(s) \in S /\ Tail(s) \in Seq(S)
    OBVIOUS

LEMMA SeqConcat ==
    ASSUME NEW A, NEW B, NEW s \in Seq(A), NEW t \in Seq(B)
    PROVE  /\ s \o t \in Seq(A \cup B) /\ Len(s \o t) = Len(s) + Len(t)
           /\ \A k \in 1..(Len(s) + Len(t)) :
                 (s \o t)[k] = IF k <= Len(s) THEN s[k] ELSE t[k - Len(s)]
    OBVIOUS

LEMMA InitTypes == Init => Types
<1> SUFFICES ASSUME Init PROVE Types
    OBVIOUS
<1> USE DEF Init
<1>1. fs0 \in FileSystems /\ fs = fs0 /\ Disk(fs)
    BY DisksAreDisks
<1>2. PICK n \in 1..MaxOutputs : out \in [1..n -> Objects]
    OBVIOUS
<1>3. n \in Nat /\ out \in Seq(Objects) /\ Len(out) = n /\ DOMAIN out = 1..n
    <2>1. n \in Nat
        BY ObjectsAssumption DEF ObjectsAssumption
    <2> QED BY <1>2, <2>1
<1>4. out \in Seq(Range(out))
    BY <1>3, SeqRange
<1>5. visits \in Seq([obj : DOMAIN out, dir : Path, staged : BOOLEAN])
    BY <1>3, PathFacts
<1>6. options.action = "move" => ~options.cached
    BY DEF MoveOutputs
<1>7. \A k \in DOMAIN out : k > 0 /\ out[k] \in Object(Objects)
    BY <1>2, <1>3, ObjectsAssumption DEF ObjectsAssumption
<1>8. pm = <<>> /\ moves = {} /\ turn = 0 /\ pc = "expand"
    OBVIOUS
<1> HIDE DEF Init
<1>9. pm \in Seq([key : Path, target : Path, staged : BOOLEAN, resolved : Path,
                  type : {"File", "Directory", "CreateFile"}])
    BY <1>8
<1>10. Contents
    BY <1>8 DEF Contents, Range
<1> QED BY <1>1, <1>3, <1>4, <1>5, <1>6, <1>7, <1>8, <1>9, <1>10 DEF Types, TypeOK, Fresh, Disk

LEMMA FoundTypes ==
    ASSUME NEW F, NEW p \in Path PROVE Found(F, p) \in Object(Objects)
<1>1. Last(p) \in Name
    BY PathFacts, PrefixFront
<1>2. <<>> \in Seq(Objects)
    OBVIOUS
<1>3. "none" \in Strings
    BY DEF Strings
<1> QED BY <1>1, <1>2, <1>3 DEF Found, Object

LEMMA AppendPath ==
    ASSUME NEW p \in Path, NEW x \in Name
    PROVE  Append(p, x) \in Path /\ IsPrefix(p, Append(p, x)) /\ Len(Append(p, x)) = Len(p) + 1
<1> DEFINE w == Append(p, x)
<1>1. w \in Seq(Name) /\ IsPrefix(p, w) /\ Len(w) = Len(p) + 1
    BY PathFacts, PrefixAppend
<1> HIDE DEF w
<1>2. w # <<>>
    BY <1>1, PathFacts
<1> QED BY <1>1, <1>2 DEF Path, w

LEMMA ListingTypes ==
    ASSUME NEW F \in FileSystems, NEW obj \in Object(Objects), NEW listed \in Listings(F, obj)
    PROVE  listed \in Seq(Object(Objects))
<1> DEFINE below == {Append(obj.loc, Last(p)) : p \in Entries(F, RealPath(F, obj.loc))}
<1>1. CASE obj.class = "File" \/ Literal(obj.loc)
    <2>1. listed = obj.listing
        BY <1>1 DEF Listings
    <2>2. obj.listing \in Seq(Objects) /\ Objects \subseteq Object(Objects)
        BY ObjectsAssumption DEF ObjectsAssumption, Object
    <2> QED BY <2>1, <2>2
<1>2. CASE ~(obj.class = "File" \/ Literal(obj.loc))
    <2>1. PICK paths \in SetToSeqs(below) : listed = [i \in DOMAIN paths |-> Found(F, paths[i])]
        BY <1>2 DEF Listings
    <2>2. Cardinality(below) \in Nat
        <3> DEFINE E == Entries(F, RealPath(F, obj.loc))
        <3>1. E \subseteq DOMAIN F
            BY DEF Entries
        <3>2. IsFiniteSet(E)
            BY <3>1, DisksAreDisks, FS_Subset
        <3> HIDE DEF E
        <3>3. IsFiniteSet({Append(obj.loc, Last(p)) : p \in E})
            <4> DEFINE B == {Append(obj.loc, Last(p)) : p \in E}
                       f == [p \in E |-> Append(obj.loc, Last(p))]
            <4>1. f \in Surjection(E, B)
                BY DEF Surjection
            <4> HIDE DEF f, B
            <4>2. IsFiniteSet(B)
                BY <3>2, <4>1, FS_Surjection
            <4> QED BY <4>2 DEF B
        <3> QED BY <3>3, FS_CardinalityType DEF E
    <2>3. below \subseteq Path
        <3>1. obj.loc \in Path /\ \A p \in DOMAIN F : p \in Path
            BY DisksAreDisks DEF Object, Disk
        <3>2. \A p \in DOMAIN F : Last(p) \in Name
            BY <3>1, PathFacts, PrefixFront
        <3> QED BY <3>1, <3>2, AppendPath DEF Entries
    <2> HIDE DEF below
    <2>4. PICK n \in Nat : paths \in [1..n -> below]
        BY <2>1, <2>2 DEF SetToSeqs
    <2>5. \A i \in 1..n : Found(F, paths[i]) \in Object(Objects)
        BY <2>3, <2>4, FoundTypes
    <2> QED BY <2>1, <2>4, <2>5
<1> QED BY <1>1, <1>2

LEMMA ExpandTypes == Types /\ ExpandNext => Types'
<1> SUFFICES ASSUME Types, ExpandNext PROVE Types'
    OBVIOUS
<1> DEFINE obj == out[turn + 1]
<1>1. /\ pc = "expand" /\ turn < Len(out) /\ turn' = turn + 1
      /\ UNCHANGED <<fs, visits, pm, moves, where, options, fs0, pc>>
    BY DEF ExpandNext
<1>2. PICK listed \in Listings(fs, obj) :
          out' = [out EXCEPT ![turn + 1].listing = [i \in DOMAIN listed |-> Len(out) + i]]
                 \o listed
    BY DEF ExpandNext
<1>3. /\ fs = fs0 /\ fs0 \in FileSystems /\ out \in Seq(Range(out)) /\ turn \in Nat
      /\ Len(out) \in Nat /\ DOMAIN out = 1..Len(out)
      /\ \A k \in 1..Len(out) : out[k] \in IF k > turn THEN Object(Objects)
                                                      ELSE Object(1..Len(out))
    BY <1>1 DEF Types, TypeOK, Fresh
<1>4. turn + 1 \in 1..Len(out) /\ obj \in Object(Objects)
    BY <1>1, <1>3
<1>6. listed \in Seq(Object(Objects))
    BY <1>3, <1>4, ListingTypes
<1> DEFINE places == [i \in DOMAIN listed |-> Len(out) + i]
           N == Len(out) + Len(listed)
           new == [obj EXCEPT !.listing = places]
           E == [out EXCEPT ![turn + 1] = new]
<1>7. Len(listed) \in Nat /\ N \in Nat /\ places \in Seq(1..N)
    BY <1>3, <1>6
<1> HIDE DEF places
<1>8. new \in Object(1..N)
    BY <1>4, <1>7 DEF Object
<1>9. out' = E \o listed
    BY <1>2 DEF places
<1> HIDE DEF new, obj
<1>10. E \in Seq(Range(out) \cup {new}) /\ Len(E) = Len(out)
       /\ \A k \in 1..Len(out) : E[k] = IF k = turn + 1 THEN new ELSE out[k]
    BY <1>3, <1>4
<1> HIDE DEF E
<1>11. /\ out' \in Seq(Range(out) \cup {new} \cup Object(Objects)) /\ Len(out') = N
       /\ \A k \in 1..N : out'[k] = IF k <= Len(out) THEN E[k] ELSE listed[k - Len(out)]
    <2> DEFINE A == Range(out) \cup {new}
               B == Object(Objects)
    <2>1. E \in Seq(A) /\ listed \in Seq(B)
        BY <1>6, <1>10
    <2> HIDE DEF A, B
    <2>2. /\ E \o listed \in Seq(A \cup B)
          /\ Len(E \o listed) = Len(E) + Len(listed)
          /\ \A k \in 1..(Len(E) + Len(listed)) :
                (E \o listed)[k] = IF k <= Len(E) THEN E[k] ELSE listed[k - Len(E)]
        BY <2>1, SeqConcat
    <2> QED BY <1>9, <1>10, <2>2 DEF A, B
<1>12. DOMAIN out' = 1..N /\ out' \in Seq(Range(out'))
    BY <1>7, <1>11, SeqRange
<1> HIDE DEF N
<1>13. ASSUME NEW k \in 1..N
       PROVE  out'[k] \in IF k > turn' THEN Object(Objects) ELSE Object(1..N)
    <2>1. CASE k <= Len(out) /\ k # turn + 1
        <3>1. k \in 1..Len(out) /\ out'[k] = out[k]
            BY <1>3, <1>7, <1>10, <1>11, <2>1
        <3>2. Object(1..Len(out)) \subseteq Object(1..N)
            <4>1. Seq(1..Len(out)) \subseteq Seq(1..N)
                BY <1>3, <1>7 DEF N
            <4> QED BY <4>1 DEF Object
        <3> QED BY <1>1, <1>3, <1>7, <2>1, <3>1, <3>2
    <2>2. CASE k = turn + 1
        BY <1>1, <1>3, <1>4, <1>8, <1>10, <1>11, <2>2
    <2>3. CASE k > Len(out)
        <3>1. k - Len(out) \in 1..Len(listed) /\ out'[k] = listed[k - Len(out)]
            BY <1>3, <1>7, <1>11, <2>3 DEF N
        <3>2. listed[k - Len(out)] \in Object(Objects)
            BY <1>6, <3>1
        <3> QED BY <1>1, <1>3, <1>4, <1>7, <2>3, <3>1, <3>2
    <2> QED BY <1>3, <1>7, <2>1, <2>2, <2>3
<1>14. visits' \in Seq([obj : DOMAIN out', dir : Path, staged : BOOLEAN])
    <2>1. visits \in Seq([obj : DOMAIN out, dir : Path, staged : BOOLEAN])
        BY DEF Types, TypeOK
    <2>2. DOMAIN out \subseteq DOMAIN out'
        BY <1>3, <1>7, <1>12 DEF N
    <2>3. [obj : DOMAIN out, dir : Path, staged : BOOLEAN]
              \subseteq [obj : DOMAIN out', dir : Path, staged : BOOLEAN]
        BY <2>2
    <2>4. \A A, B : A \subseteq B => Seq(A) \subseteq Seq(B)
        OBVIOUS
    <2> QED BY <1>1, <2>1, <2>3, <2>4
<1>15. turn' \in 0..Len(out')
    BY <1>1, <1>3, <1>4, <1>7, <1>11 DEF N
<1> QED BY <1>1, <1>12, <1>13, <1>14, <1>15 DEF Types, TypeOK, Fresh, Contents

Entry == [key : Path, target : Path, staged : BOOLEAN, resolved : Path,
          type : {"File", "Directory", "CreateFile"}]

\* When the loop has ended, what an object lists are places in out.
LEMMA ExpandedAll ==
    ASSUME Types, pc = "expand", turn = Len(out)
    PROVE  \A k \in DOMAIN out : out[k] \in Object(DOMAIN out)
<1>1. out \in Seq(Range(out))
    BY DEF Types, TypeOK
<1>2. \A k \in DOMAIN out : ~(k > turn)
    BY <1>1
<1> QED BY <1>2 DEF Types, TypeOK

LEMMA LocatedFacts ==
    ASSUME NEW F \in FileSystems, NEW S, NEW obj \in Object(S)
    PROVE  /\ Located(F, obj) \in Object(S)
           /\ Links(F, Located(F, obj).loc) = {}
<1>1. obj.loc \in Path
    BY DEF Object
<1>2. CASE Literal(obj.loc)
    <2>1. Located(F, obj) = obj
        BY <1>2 DEF Located
    <2>2. ASSUME NEW k \in 1..Len(obj.loc) PROVE SubSeq(obj.loc, 1, k) \notin DOMAIN F
        BY <1>1, <1>2, PathParts, DisksAreDisks DEF Literal
    <2> QED BY <2>1, <2>2 DEF Links, Exists
<1>3. CASE ~Literal(obj.loc)
    <2> DEFINE real == RealPath(F, obj.loc)
    <2>1. Located(F, obj) = [obj EXCEPT !.loc = real]
        BY <1>3 DEF Located
    <2>2. real \in Path /\ Links(F, real) = {}
        BY <1>1, DisksAreDisks, RealPathTypes, RealPathIsReal
    <2> HIDE DEF real
    <2> QED BY <2>1, <2>2 DEF Object
<1> QED BY <1>2, <1>3

LEMMA ExpandedTypes == Types /\ Expanded => Types'
<1> SUFFICES ASSUME Types, Expanded PROVE Types'
    OBVIOUS
<1>1. /\ pc = "expand" /\ turn = Len(out) /\ turn' = 0 /\ pc' \in {"clean", "map"}
      /\ out' = out \/ out' = [k \in DOMAIN out |-> Located(fs, out[k])]
      /\ UNCHANGED <<fs, visits, pm, moves, options, fs0>>
    BY DEF Expanded
<1>2. /\ fs \in FileSystems /\ out \in Seq(Range(out)) /\ Len(pm) \in Nat
      /\ \A k \in DOMAIN out : out[k] \in Object(DOMAIN out)
    BY <1>1, ExpandedAll DEF Types, TypeOK, Fresh
<1>3. /\ DOMAIN out' = DOMAIN out /\ out' \in Seq(Range(out'))
      /\ \A k \in DOMAIN out' : out'[k] \in Object(DOMAIN out')
    <2>1. CASE out' = out
        BY <1>2, <2>1
    <2>2. CASE out' = [k \in DOMAIN out |-> Located(fs, out[k])]
        <3>1. DOMAIN out = 1..Len(out) /\ Len(out) \in Nat /\ DOMAIN out' = DOMAIN out
            BY <1>2, <2>2
        <3>2. \A k \in DOMAIN out : out'[k] \in Object(DOMAIN out)
            BY <1>2, <2>2, LocatedFacts
        <3>3. out' = [k \in 1..Len(out) |-> out'[k]]
            BY <2>2, <3>1
        <3>4. out' \in Seq(Object(DOMAIN out))
            <4> DEFINE O == Object(DOMAIN out)
            <4>1. \A k \in 1..Len(out) : out'[k] \in O
                BY <3>1, <3>2
            <4> HIDE DEF O
            <4> QED BY <3>1, <3>3, <4>1, SeqByItems DEF O
        <3> QED BY <3>1, <3>2, <3>4, SeqRange
    <2> QED BY <1>1, <2>1, <2>2
<1> QED BY <1>1, <1>2, <1>3 DEF Types, TypeOK, Fresh, Contents

LEMMA StageDirTypes ==
    ASSUME NEW v, v.dir \in Path, out[v.obj] \in Object(DOMAIN out)
    PROVE  StageDir(v) \in Path
    BY DEF StageDir, Object

LEMMA EntryTypes ==
    ASSUME NEW v, v.obj \in DOMAIN out, v.dir \in Path, v.staged \in BOOLEAN,
           out[v.obj] \in Object(DOMAIN out)
    PROVE  /\ EntryOf(v) \in Entry
           /\ EntryOf(v).key = out[v.obj].loc
           /\ EntryOf(v).target = Append(StageDir(v), out[v.obj].name)
           /\ EntryOf(v).type = "CreateFile" =>
                 Len(EntryOf(v).resolved) = 1 /\ Len(EntryOf(v).resolved[1]) = 1
           /\ EntryOf(v).type # "CreateFile" => EntryOf(v).resolved = out[v.obj].loc
<1> DEFINE obj == out[v.obj]
<1>1. /\ obj.loc \in Path /\ obj.name \in Name /\ obj.contents \in Strings
      /\ obj.class \in {"File", "Directory"}
    BY DEF Object
<1>2. Append(StageDir(v), obj.name) \in Path
    BY <1>1, StageDirTypes, AppendPath
<1>3. <<obj.contents>> \in Name
    BY <1>1 DEF Name
<1>4. << <<obj.contents>> >> \in Path
    BY <1>3 DEF Path
<1>5. Len(<< <<obj.contents>> >>) = 1 /\ Len(<< <<obj.contents>> >>[1]) = 1
    BY <1>3
<1> HIDE DEF obj
<1> QED BY <1>1, <1>2, <1>4, <1>5 DEF EntryOf, Entry, obj

LEMMA VisitListedTypes ==
    ASSUME NEW v, v.obj \in DOMAIN out, v.dir \in Path, v.staged \in BOOLEAN,
           out[v.obj] \in Object(DOMAIN out), NEW i \in DOMAIN out
    PROVE  /\ VisitListed(v, i) \in [obj : DOMAIN out, dir : Path, staged : BOOLEAN]
           /\ VisitListed(v, i).dir \in {StageDir(v), EntryOf(v).target}
<1>1. StageDir(v) \in Path /\ EntryOf(v).target \in Path
    BY StageDirTypes, EntryTypes DEF Entry
<1>2. (v.staged /\ Literal(out[v.obj].loc)) \in BOOLEAN
    OBVIOUS
<1> QED BY <1>1, <1>2 DEF VisitListed

LEMMA VisitTypes == Types /\ VisitNext => Types'
<1> SUFFICES ASSUME Types, VisitNext PROVE Types'
    OBVIOUS
<1> DEFINE v == Head(visits)
           obj == out[v.obj]
           listed == [i \in DOMAIN obj.listing |-> VisitListed(v, obj.listing[i])]
           Visit == [obj : DOMAIN out, dir : Path, staged : BOOLEAN]
<1>1. /\ pc = "map" /\ visits # <<>>
      /\ UNCHANGED <<fs, out, turn, moves, where, options, fs0, pc>>
    BY DEF VisitNext
<1>2. \/ /\ visits' = Tail(visits) /\ pm' = pm
      \/ /\ ~ \E e \in Range(pm) : e.key = obj.loc
         /\ visits' = listed \o Tail(visits) /\ pm' = Append(pm, EntryOf(v))
    BY DEF VisitNext
<1>3. /\ visits \in Seq(Visit) /\ pm \in Seq(Entry) /\ turn \in 0..Len(pm)
      /\ \A i, j \in DOMAIN pm : pm[i].key = pm[j].key => i = j
      /\ \A k \in DOMAIN out : out[k] \in Object(DOMAIN out)
    BY <1>1 DEF Types, TypeOK, Entry
<1>4. v \in Visit /\ Tail(visits) \in Seq(Visit)
    <2> HIDE DEF Visit
    <2> QED BY <1>1, <1>3, HeadTail
<1>5. v.obj \in DOMAIN out /\ v.dir \in Path /\ v.staged \in BOOLEAN
      /\ obj \in Object(DOMAIN out)
    BY <1>3, <1>4
<1>6. listed \in Seq(Visit)
    <2>1. obj.listing \in Seq(DOMAIN out)
        BY <1>5 DEF Object
    <2>2. \A i \in DOMAIN obj.listing : obj.listing[i] \in DOMAIN out
        BY <2>1
    <2>3. \A i \in DOMAIN out : VisitListed(v, i) \in Visit
        BY <1>5, VisitListedTypes
    <2> HIDE DEF v, obj, Visit
    <2>4. \A i \in DOMAIN obj.listing : listed[i] \in Visit
        BY <2>2, <2>3
    <2>5. DOMAIN obj.listing = 1..Len(obj.listing) /\ Len(obj.listing) \in Nat
        BY <2>1
    <2>6. listed = [i \in 1..Len(obj.listing) |-> listed[i]]
        BY <2>5
    <2> HIDE DEF listed, Visit
    <2> QED BY <2>4, <2>5, <2>6, SeqByItems
<1>7. listed \o Tail(visits) \in Seq(Visit)
    BY <1>4, <1>6
<1>8. /\ EntryOf(v) \in Entry
      /\ EntryOf(v).key = obj.loc
      /\ EntryOf(v).type = "CreateFile" =>
             Len(EntryOf(v).resolved) = 1 /\ Len(EntryOf(v).resolved[1]) = 1
    BY <1>5, EntryTypes
<1> DEFINE e == EntryOf(v)
<1> HIDE DEF e, listed, obj, v
<1>9. ASSUME pm' = Append(pm, e), ~ \E x \in Range(pm) : x.key = obj.loc
      PROVE  /\ pm' \in Seq(Entry) /\ turn \in 0..Len(pm')
             /\ \A i, j \in DOMAIN pm' : pm'[i].key = pm'[j].key => i = j
             /\ Contents'
    <2>1. /\ pm' \in Seq(Entry) /\ Len(pm') = Len(pm) + 1 /\ pm'[Len(pm) + 1] = e
          /\ DOMAIN pm = 1..Len(pm) /\ DOMAIN pm' = 1..(Len(pm) + 1) /\ Len(pm) \in Nat
          /\ \A i \in 1..Len(pm) : pm'[i] = pm[i]
        BY <1>3, <1>8, <1>9 DEF e
    <2>2. \A i \in 1..Len(pm) : pm[i].key # e.key
        BY <1>8, <1>9, <2>1 DEF Range, e
    <2>3. \A i \in DOMAIN pm' : i = Len(pm) + 1 \/ i \in 1..Len(pm)
        BY <2>1
    <2>4. \A i, j \in DOMAIN pm' : pm'[i].key = pm'[j].key => i = j
        BY <1>3, <2>1, <2>2, <2>3
    <2>5. Contents'
        BY <1>8, <2>1, <2>3 DEF Types, Contents, Range, e
    <2> QED BY <1>3, <2>1, <2>4, <2>5
<1>10. /\ pm' \in Seq(Entry) /\ turn \in 0..Len(pm')
       /\ \A i, j \in DOMAIN pm' : pm'[i].key = pm'[j].key => i = j
       /\ Contents' /\ visits' \in Seq(Visit)
    <2>1. pm' = pm => Contents'
        BY DEF Types, Contents
    <2> QED BY <1>2, <1>3, <1>4, <1>7, <1>9, <2>1 DEF e
<1> QED BY <1>1, <1>3, <1>10 DEF Types, TypeOK, Fresh, Entry

\* fix_conflicts: a target among those with two marks and more is free, for
\* there are fewer Files before the i-th than entries.
TakenIn(m, i, t) == \E j \in 1..(i - 1) : m[j].type # "Directory" /\ m[j].target = t
NumberedOf(t, n) == Append(Front(t), Last(t) \o [k \in 1..n |-> "_"])

LEMMA NumberedFacts ==
    ASSUME NEW t \in Path, NEW n \in Nat
    PROVE  /\ NumberedOf(t, n) \in Path /\ Len(NumberedOf(t, n)) = Len(t)
           /\ Len(Last(NumberedOf(t, n))) = Len(Last(t)) + n /\ Len(Last(t)) \in Nat
           /\ Front(NumberedOf(t, n)) = Front(t)
<1> DEFINE marks == [k \in 1..n |-> "_"]
           last == Last(t) \o marks
           w == Append(Front(t), last)
<1>1. t \in Seq(Name) \ {<<>>} /\ Len(t) \in Nat /\ Len(t) > 0
    BY PathFacts
<1>2. Front(t) \in Seq(Name) /\ Len(Front(t)) = Len(t) - 1 /\ Last(t) \in Seq(Strings)
    BY <1>1, PrefixFront DEF Name
<1>3. marks \in Seq(Strings) /\ Len(marks) = n
    BY DEF Strings
<1> HIDE DEF marks
<1>4. last \in Name /\ Len(last) = Len(Last(t)) + n /\ Len(Last(t)) \in Nat
    <2>1. last \in Seq(Strings) /\ Len(last) = Len(Last(t)) + Len(marks)
        BY <1>2, <1>3, PrefixConcat
    <2> QED BY <1>2, <1>3, <2>1 DEF Name
<1> HIDE DEF last
<1>5. w \in Seq(Name) /\ Len(w) = Len(Front(t)) + 1 /\ Front(w) = Front(t) /\ Last(w) = last
    BY <1>2, <1>4, PrefixAppend
<1> HIDE DEF w
<1>6. w # <<>> /\ Len(w) = Len(t)
    BY <1>1, <1>2, <1>5
<1> QED BY <1>4, <1>5, <1>6 DEF NumberedOf, w, last, marks, Path

LEMMA OneIsFree ==
    ASSUME NEW m \in Seq(Entry), NEW i \in 1..Len(m), NEW t \in Path
    PROVE  \E n \in 2..(Len(m) + 1) : ~TakenIn(m, i, NumberedOf(t, n))
<1> DEFINE S == 2..(Len(m) + 1)
           T == 1..(i - 1)
<1> SUFFICES ASSUME \A n \in S : TakenIn(m, i, NumberedOf(t, n)) PROVE FALSE
    OBVIOUS
<1>1. Len(m) \in Nat /\ i \in Nat /\ i >= 1 /\ i <= Len(m)
    OBVIOUS
<1>2. IsFiniteSet(S) /\ Cardinality(S) = Len(m)
    <2> DEFINE b == Len(m) + 1
    <2>1. 2 \in Int /\ b \in Int /\ S = 2..b
        BY <1>1
    <2>2. (IF 2 > b THEN 0 ELSE b - 2 + 1) = Len(m)
        BY <1>1
    <2> HIDE DEF b, S
    <2>3. IsFiniteSet(2..b) /\ Cardinality(2..b) = IF 2 > b THEN 0 ELSE b - 2 + 1
        BY <2>1, FS_Interval
    <2> QED BY <2>1, <2>2, <2>3
<1>3. IsFiniteSet(T) /\ Cardinality(T) = i - 1
    <2>1. 1 \in Int /\ i - 1 \in Int
        BY <1>1
    <2>2. IsFiniteSet(T) /\ Cardinality(T) = IF 1 > i - 1 THEN 0 ELSE i - 1 - 1 + 1
        BY <2>1, FS_Interval
    <2>3. i - 1 - 1 + 1 = i - 1 /\ (1 > i - 1 => 0 = i - 1)
        BY <1>1
    <2> HIDE DEF T
    <2> QED BY <2>2, <2>3
<1> DEFINE f == [n \in S |-> CHOOSE j \in T : m[j].target = NumberedOf(t, n)]
<1>4. \A n \in S : \E j \in T : m[j].target = NumberedOf(t, n)
    BY DEF TakenIn
<1>5. \A n \in S : f[n] \in T /\ m[f[n]].target = NumberedOf(t, n)
    BY <1>4
<1>6. f \in [S -> T]
    BY <1>5
<1> HIDE DEF f
<1>7. Cardinality(T) < Cardinality(S)
    BY <1>1, <1>2, <1>3
<1>8. \A n \in S : n \in Nat
    BY <1>1
<1> HIDE DEF S, T
<1>9. PICK x, y \in S : x # y /\ f[x] = f[y]
    BY <1>2, <1>3, <1>6, <1>7, FS_PigeonHole
<1>10. NumberedOf(t, x) = NumberedOf(t, y)
    BY <1>5, <1>9
<1>11. Len(Last(t)) + x = Len(Last(t)) + y /\ Len(Last(t)) \in Nat
    BY <1>8, <1>10, NumberedFacts
<1> QED BY <1>8, <1>9, <1>11

LEMMA UnclashFacts ==
    ASSUME NEW m \in Seq(Entry), NEW i \in 1..Len(m)
    PROVE  \/ /\ Unclash(m, i) = m
              /\ \/ m[i].type = "Directory"
                 \/ ~TakenIn(m, i, m[i].target)
                 \/ \E j \in 1..(i - 1) : /\ m[j].type # "Directory"
                                          /\ m[j].target = m[i].target
                                          /\ m[j].resolved = m[i].resolved
           \/ \E n \in 2..(Len(m) + 1) :
                 /\ Unclash(m, i) = [m EXCEPT ![i].target = NumberedOf(m[i].target, n)]
                 /\ ~TakenIn(m, i, NumberedOf(m[i].target, n))
<1> DEFINE t == m[i].target
           free == {n \in 2..(Len(m) + 1) : ~TakenIn(m, i, NumberedOf(t, n))}
           Same == \E j \in 1..(i - 1) : /\ m[j].type # "Directory" /\ m[j].target = t
                                         /\ m[j].resolved = m[i].resolved
           least == CHOOSE n \in free : \A k \in free : n <= k
<1>1. Unclash(m, i) = IF m[i].type = "Directory" \/ ~TakenIn(m, i, t) \/ Same THEN m
                      ELSE [m EXCEPT ![i].target = NumberedOf(t, least)]
    BY DEF Unclash, TakenIn, NumberedOf
<1>2. t \in Path /\ Len(m) \in Nat
    <2>1. m[i] \in Entry /\ Len(m) \in Nat
        OBVIOUS
    <2> QED BY <2>1 DEF Entry
<1>3. free # {} /\ free \subseteq Nat
    BY <1>2, OneIsFree
<1>4. least \in free
    <2> HIDE DEF free
    <2> QED BY <1>3, SmallestNumber
<1> HIDE DEF least
<1> QED BY <1>1, <1>4

\* What becomes of the entry at hand: nothing, or another target beside it.
LEMMA UnclashTypes == Types /\ UnclashNext => Types'
<1> SUFFICES ASSUME Types, UnclashNext PROVE Types'
    OBVIOUS
<1> DEFINE i == turn + 1
<1>1. /\ pc = "map" /\ visits = <<>> /\ turn < Len(pm)
      /\ pm' = Unclash(pm, i) /\ turn' = turn + 1
      /\ UNCHANGED <<fs, out, visits, moves, where, options, fs0, pc>>
    BY DEF UnclashNext
<1>2. pm \in Seq(Entry) /\ turn \in Nat /\ Len(pm) \in Nat /\ i \in 1..Len(pm)
    BY <1>1 DEF Types, TypeOK, Entry
<1>3. pm' = pm \/ \E t \in Path : pm' = [pm EXCEPT ![i].target = t]
    <2>1. pm[i] \in Entry
        BY <1>2
    <2>2. pm[i].target \in Path
        BY <2>1 DEF Entry
    <2>3. \A n \in 2..(Len(pm) + 1) : NumberedOf(pm[i].target, n) \in Path
        BY <1>2, <2>2, NumberedFacts
    <2> HIDE DEF i
    <2> QED BY <1>1, <1>2, <2>3, UnclashFacts
<1>4. /\ pm' \in Seq(Entry) /\ Len(pm') = Len(pm) /\ DOMAIN pm' = DOMAIN pm
      /\ \A k \in DOMAIN pm : /\ pm'[k].key = pm[k].key /\ pm'[k].type = pm[k].type
                              /\ pm'[k].resolved = pm[k].resolved
    <2>1. ASSUME NEW t \in Path, pm' = [pm EXCEPT ![i].target = t]
          PROVE  /\ pm' \in Seq(Entry) /\ Len(pm') = Len(pm) /\ DOMAIN pm' = DOMAIN pm
                 /\ \A k \in DOMAIN pm : /\ pm'[k].key = pm[k].key /\ pm'[k].type = pm[k].type
                                         /\ pm'[k].resolved = pm[k].resolved
        <3> DEFINE e == [pm[i] EXCEPT !.target = t]
        <3>1. e \in Entry /\ e.key = pm[i].key /\ e.type = pm[i].type
              /\ e.resolved = pm[i].resolved
            <4>1. pm[i] \in Entry
                BY <1>2
            <4> HIDE DEF i
            <4> QED BY <4>1 DEF Entry
        <3>2. pm' = [pm EXCEPT ![i] = e]
            BY <2>1
        <3> HIDE DEF e, i
        <3>3. pm' \in Seq(Entry) /\ Len(pm') = Len(pm) /\ DOMAIN pm' = DOMAIN pm
            BY <1>2, <3>1, <3>2
        <3>4. \A k \in DOMAIN pm : pm'[k] = IF k = i THEN e ELSE pm[k]
            BY <1>2, <3>2
        <3> QED BY <3>1, <3>3, <3>4
    <2> QED BY <1>2, <1>3, <2>1
<1>5. \A j, k \in DOMAIN pm' : pm'[j].key = pm'[k].key => j = k
    BY <1>4 DEF Types, TypeOK
<1>6. Contents'
    BY <1>4 DEF Types, Contents, Range
<1>7. turn' \in 0..Len(pm')
    BY <1>1, <1>2, <1>4
<1> QED BY <1>1, <1>4, <1>5, <1>6, <1>7 DEF Types, TypeOK, Fresh, Entry

LEMMA MappedTypes == Types /\ Mapped => Types'
<1> SUFFICES ASSUME Types, Mapped PROVE Types'
    OBVIOUS
<1>1. /\ pc = "map" /\ pc' = "stage" /\ turn' = 0
      /\ UNCHANGED <<fs, out, visits, pm, moves, where, options, fs0>>
    BY DEF Mapped
<1>2. Len(pm) \in Nat
    BY DEF Types, TypeOK
<1> QED BY <1>1, <1>2 DEF Types, TypeOK, Fresh, Contents

\* What one turn of the second pass does before _relocate: directories on the
\* way to the target and the target of a file that is created.
LEMMA StageEntryFacts ==
    ASSUME NEW F, Disk(F), NEW e \in Entry,
           e.type = "CreateFile" => Len(e.resolved) = 1 /\ Len(e.resolved[1]) = 1
    PROVE  /\ Disk(StageEntry(F, e).fs) /\ NoNewLink(F, StageEntry(F, e).fs)
           /\ StageEntry(F, e).moves \subseteq {[from |-> e.resolved, to |-> e.target]}
           /\ StageEntry(F, e).moves # {} => e.type # "CreateFile"
           /\ \A p \in Path :
                 \/ SameAt(F, StageEntry(F, e).fs, p)
                 \/ /\ p \notin DOMAIN F /\ IsDir(StageEntry(F, e).fs, p)
                    /\ IsPrefix(p, e.target)
                 \/ e.type = "CreateFile" /\ p = e.target
<1> DEFINE made == MakeDirs(F, Front(e.target))
           New == [p \in DOMAIN made \cup {e.target} |->
                       IF p = e.target THEN FileNode(e.resolved[1][1]) ELSE made[p]]
           again == MakeDirs(made, e.target)
           r == StageEntry(F, e)
           move == [from |-> e.resolved, to |-> e.target]
           Sound(G) == /\ Disk(G) /\ NoNewLink(F, G)
                       /\ \A p \in Path :
                             \/ SameAt(F, G, p)
                             \/ p \notin DOMAIN F /\ IsDir(G, p) /\ IsPrefix(p, e.target)
                             \/ e.type = "CreateFile" /\ p = e.target
<1>1. /\ e.target \in Path /\ e.resolved \in Path
      /\ e.type \in {"File", "Directory", "CreateFile"} /\ e.staged \in BOOLEAN
    BY DEF Entry
<1>2. \/ r = [ok |-> r.ok, fs |-> F, moves |-> {}]
      \/ r = [ok |-> r.ok, fs |-> made, moves |-> {}]
      \/ r = [ok |-> r.ok, fs |-> New, moves |-> {}] /\ e.type = "CreateFile"
      \/ r = [ok |-> r.ok, fs |-> made, moves |-> {move}] /\ e.type # "CreateFile"
      \/ r = [ok |-> r.ok, fs |-> again, moves |-> {}]
    BY <1>1 DEF StageEntry
<1> HIDE DEF r
<1>3. Sound(F)
    BY DEF SameAt, NoNewLink
<1>4. Front(e.target) \in Seq(Name) /\ e.target \in Seq(Name) /\ IsPrefix(Front(e.target), e.target)
    BY <1>1, PathFacts, PrefixFront
<1>5. /\ Disk(made) /\ NoNewLink(F, made) /\ DOMAIN F \subseteq DOMAIN made
      /\ \A p \in Path :
            SameAt(F, made, p)
            \/ (p \notin DOMAIN F /\ IsDir(made, p) /\ IsPrefix(p, Front(e.target)))
    BY <1>4, MakeDirsFacts
<1> HIDE DEF made
<1>6. \A p \in Path : IsPrefix(p, Front(e.target)) => IsPrefix(p, e.target)
    BY <1>4, PathFacts, PrefixOrder
<1>7. Sound(made)
    BY <1>5, <1>6
<1>8. ASSUME e.type = "CreateFile" PROVE Sound(New)
    <2>1. FileNode(e.resolved[1][1]) \in Node /\ FileNode(e.resolved[1][1]).kind = "file"
        <3>1. e.resolved[1] \in Name /\ Len(e.resolved[1]) = 1
            BY <1>1, <1>8, PathFacts
        <3>2. e.resolved[1][1] \in Strings
            BY <3>1 DEF Name
        <3> QED BY <3>2 DEF FileNode, Node
    <2> DEFINE node == FileNode(e.resolved[1][1])
    <2> HIDE DEF node
    <2>2. New = [p \in DOMAIN made \cup {e.target} |->
                     IF p = e.target THEN node ELSE made[p]]
        BY DEF node
    <2>3. Disk(New)
        BY <1>1, <1>5, <2>1, <2>2 DEF Disk, node
    <2>4. NoNewLink(F, New)
        BY <1>5, <2>1, <2>2 DEF NoNewLink, node
    <2>6. \A p \in Path : p = e.target \/ SameAt(made, New, p)
        BY <2>2 DEF SameAt
    <2> QED BY <1>5, <1>6, <1>8, <2>3, <2>4, <2>6 DEF SameAt, IsDir, Exists
<1>9. Sound(again)
    <2>1. /\ Disk(again) /\ NoNewLink(made, again) /\ DOMAIN made \subseteq DOMAIN again
          /\ \A p \in Path :
                SameAt(made, again, p)
                \/ (p \notin DOMAIN made /\ IsDir(again, p) /\ IsPrefix(p, e.target))
        BY <1>4, <1>5, MakeDirsFacts
    <2> HIDE DEF again
    <2>2. NoNewLink(F, again)
        BY <1>5, <2>1 DEF NoNewLink
    <2>3. \A p \in Path : \/ SameAt(F, again, p)
                          \/ p \notin DOMAIN F /\ IsDir(again, p) /\ IsPrefix(p, e.target)
        BY <1>5, <1>6, <2>1 DEF SameAt, IsDir, Exists
    <2> QED BY <2>1, <2>2, <2>3
<1> HIDE DEF New, again, Sound
<1>10. Sound(r.fs)
    BY <1>2, <1>3, <1>7, <1>8, <1>9
<1>11. r.moves \subseteq {move} /\ (r.moves # {} => e.type # "CreateFile")
    BY <1>2
<1> QED BY <1>10, <1>11 DEF Sound, r

LEMMA StageTypes == Types /\ StageNext => Types'
<1> SUFFICES ASSUME Types, StageNext PROVE Types'
    OBVIOUS
<1> DEFINE e == pm[turn + 1]
           done == StageEntry(fs, e)
<1>1. /\ pc = "stage" /\ turn < Len(pm) /\ turn' = turn + 1
      /\ fs' = done.fs /\ moves' = done.moves /\ pc' \in {"stage", "failed"}
      /\ UNCHANGED <<out, visits, pm, where, options, fs0>>
    BY DEF StageNext
<1>2. pm \in Seq(Entry) /\ turn \in Nat /\ Len(pm) \in Nat /\ Disk(fs)
    BY <1>1 DEF Types, TypeOK, Entry, Disk
<1>3. e \in Entry /\ e \in Range(pm)
    BY <1>1, <1>2 DEF Range
<1>4. e.type = "CreateFile" => Len(e.resolved) = 1 /\ Len(e.resolved[1]) = 1
    BY <1>3 DEF Types, Contents
<1> HIDE DEF e
<1>5. Disk(fs') /\ moves' \subseteq {[from |-> e.resolved, to |-> e.target]}
    BY <1>1, <1>2, <1>3, <1>4, StageEntryFacts
<1>6. moves' \subseteq [from : Path, to : Path]
    BY <1>3, <1>5 DEF Entry
<1>7. turn' \in 0..Len(pm')
    BY <1>1, <1>2
<1> QED BY <1>1, <1>5, <1>6, <1>7 DEF Types, TypeOK, Fresh, Contents, Disk

LEMMA RelocateTypes == Types /\ RelocateNext => Types'
<1> SUFFICES ASSUME Types, RelocateNext PROVE Types'
    OBVIOUS
<1>1. pc = "stage" /\ UNCHANGED <<out, visits, pm, turn, where, options, fs0>>
      /\ pc' \in {"stage", "failed"} /\ Disk(fs') /\ moves' \subseteq [from : Path, to : Path]
    <2>1. PICK m \in moves :
              LET src == RealPath(fs, m.from)
                  dst == RealPath(fs, m.to)
                  moving == options.action = "move" /\ SrcCanDeleted(src)
                  merging == moving /\ IsDir(fs, src) /\ IsDir(fs, dst)
                  done == IF moving THEN Renamed(fs, src, dst) ELSE CopyOver(fs, src, dst)
              IN  /\ pc = "stage"
                  /\ \/ /\ src = dst
                        /\ moves' = moves \ {m}
                        /\ UNCHANGED <<fs, pc>>
                     \/ /\ src # dst /\ merging
                        /\ moves' = (moves \ {m}) \cup
                              {[from |-> p, to |-> Append(dst, Last(p))] : p \in Entries(fs, src)}
                        /\ UNCHANGED <<fs, pc>>
                     \/ /\ src # dst /\ ~merging
                        /\ fs' = done.fs
                        /\ moves' = moves \ {m}
                        /\ pc' = IF done.ok THEN "stage" ELSE "failed"
                  /\ UNCHANGED <<out, visits, pm, turn, where, options, fs0>>
        BY DEF RelocateNext
    <2> DEFINE src == RealPath(fs, m.from)
               dst == RealPath(fs, m.to)
               calls == {[from |-> p, to |-> Append(dst, Last(p))] : p \in Entries(fs, src)}
    <2>2. Disk(fs) /\ moves \subseteq [from : Path, to : Path]
        BY DEF Types, TypeOK, Disk
    <2>3. src \in Path /\ dst \in Path
        BY <2>2, RealPathTypes
    <2>4. /\ pc = "stage" /\ pc' \in {"stage", "failed"}
          /\ UNCHANGED <<out, visits, pm, turn, where, options, fs0>>
          /\ moves' \subseteq moves \cup calls
          /\ fs' \in {fs, Renamed(fs, src, dst).fs, CopyOver(fs, src, dst).fs}
        BY <2>1
    <2> HIDE DEF src, dst
    <2>5. Disk(fs')
        <3>1. Disk(Renamed(fs, src, dst).fs)
            BY <2>2, <2>3, RenamedFacts
        <3>2. Disk(CopyOver(fs, src, dst).fs)
            BY <2>2, <2>3, CopyOverFacts
        <3> QED BY <2>2, <2>4, <3>1, <3>2
    <2>6. calls \subseteq [from : Path, to : Path]
        <3>1. ASSUME NEW p \in Entries(fs, src)
              PROVE  [from |-> p, to |-> Append(dst, Last(p))] \in [from : Path, to : Path]
            <4>1. p \in Path
                BY <2>2 DEF Entries, Disk
            <4>2. Append(dst, Last(p)) \in Path
                BY <2>3, <4>1, RealTarget
            <4> QED BY <4>1, <4>2
        <3> QED BY <3>1
    <2> HIDE DEF calls
    <2> QED BY <2>2, <2>4, <2>5, <2>6
<1> QED BY <1>1 DEF Types, TypeOK, Fresh, Contents, Disk

LEMMA AdjustTypes == Types /\ AdjustLocations => Types'
    BY DEF Types, TypeOK, Fresh, Contents, AdjustLocations

LEMMA CleanTypes == Types /\ CleanIntermediate => Types'
<1> SUFFICES ASSUME Types, CleanIntermediate PROVE Types'
    OBVIOUS
<1> DEFINE D == {q \in DOMAIN fs : \A d \in ToClean : ~IsPrefix(d, q)}
<1>1. /\ pc = "clean" /\ pc' = "done" /\ (fs' = fs \/ fs' = [p \in D |-> fs[p]])
      /\ UNCHANGED <<out, visits, pm, turn, moves, where, options, fs0>>
    BY DEF CleanIntermediate
<1>2. Disk(fs) /\ D \subseteq DOMAIN fs
    BY DEF Types, TypeOK, Disk
<1> HIDE DEF D
<1>3. Disk(fs')
    BY <1>1, <1>2, WithoutFacts
<1> QED BY <1>1, <1>3 DEF Types, TypeOK, Fresh, Contents, Disk

LEMMA StepTypes == Types /\ [Next]_vars => Types'
<1>1. Types /\ UNCHANGED vars => Types'
    BY DEF vars, Types, TypeOK, Fresh, Contents
<1> QED BY <1>1, ExpandTypes, ExpandedTypes, VisitTypes, UnclashTypes, MappedTypes,
           StageTypes, RelocateTypes, AdjustTypes, CleanTypes DEF Next

\* The variables have their types, whatever is on the disk and whatever the
\* workflow puts out: a location has one entry in the path map, every target
\* fix_conflicts chooses is a path, and a run with a cache never moves.
THEOREM OutputsTypes == Spec => []TypeOK
<1>1. Types => TypeOK
    BY DEF Types
<1> QED BY <1>1, InitTypes, StepTypes, PTL DEF Spec

(***************************************************************************)
(* Conflicts: what fix_conflicts achieves.                                 *)
(***************************************************************************)

SameFile(m, i, j) ==
    "Directory" \notin {m[i].type, m[j].type} /\ m[i].target = m[j].target =>
        m[i].resolved = m[j].resolved

LEMMA UnclashTargets == Types /\ TargetsSound /\ UnclashNext => TargetsSound'
<1> SUFFICES ASSUME Types, TargetsSound, UnclashNext PROVE TargetsSound'
    OBVIOUS
<1> DEFINE i0 == turn + 1
<1>1. /\ pc = "map" /\ pc' = "map" /\ turn < Len(pm)
      /\ pm' = Unclash(pm, i0) /\ turn' = turn + 1
    BY DEF UnclashNext
<1>2. pm \in Seq(Entry) /\ turn \in Nat /\ Len(pm) \in Nat /\ i0 \in 1..Len(pm)
    BY <1>1 DEF Types, TypeOK, Entry
<1>3. \A i, j \in 1..turn : SameFile(pm, i, j)
    BY <1>1 DEF TargetsSound, SameFile
<1>4. /\ \A k \in 1..turn : pm'[k] = pm[k]
      /\ \A k \in 1..turn : SameFile(pm', i0, k) /\ SameFile(pm', k, i0)
    <2>1. CASE /\ Unclash(pm, i0) = pm
               /\ \/ pm[i0].type = "Directory"
                  \/ ~TakenIn(pm, i0, pm[i0].target)
                  \/ \E j \in 1..(i0 - 1) : /\ pm[j].type # "Directory"
                                            /\ pm[j].target = pm[i0].target
                                            /\ pm[j].resolved = pm[i0].resolved
        <3>1. pm' = pm /\ 1..(i0 - 1) = 1..turn
            BY <1>1, <1>2, <2>1
        <3>2. \A k \in 1..turn : SameFile(pm, i0, k) /\ SameFile(pm, k, i0)
            <4>1. CASE pm[i0].type = "Directory"
                BY <4>1 DEF SameFile
            <4>2. CASE ~TakenIn(pm, i0, pm[i0].target)
                BY <3>1, <4>2 DEF SameFile, TakenIn
            <4>3. CASE \E j \in 1..turn : /\ pm[j].type # "Directory"
                                          /\ pm[j].target = pm[i0].target
                                          /\ pm[j].resolved = pm[i0].resolved
                BY <1>3, <4>3 DEF SameFile
            <4> QED BY <2>1, <3>1, <4>1, <4>2, <4>3
        <3> QED BY <1>1, <1>2, <3>1, <3>2 DEF SameFile
    <2>2. ASSUME NEW n \in 2..(Len(pm) + 1),
                 Unclash(pm, i0) = [pm EXCEPT ![i0].target = NumberedOf(pm[i0].target, n)],
                 ~TakenIn(pm, i0, NumberedOf(pm[i0].target, n))
          PROVE  /\ \A k \in 1..turn : pm'[k] = pm[k]
                 /\ \A k \in 1..turn : SameFile(pm', i0, k) /\ SameFile(pm', k, i0)
        <3> DEFINE t == NumberedOf(pm[i0].target, n)
        <3>1. pm[i0] \in Entry
            BY <1>2
        <3>2. pm[i0] = [key |-> pm[i0].key, target |-> pm[i0].target,
                        staged |-> pm[i0].staged, resolved |-> pm[i0].resolved,
                        type |-> pm[i0].type]
            BY <3>1 DEF Entry
        <3>3. \A k \in 1..turn : k \in 1..Len(pm) /\ k # i0 /\ k \in 1..(i0 - 1)
            BY <1>2, <1>1
        <3>4. \A k \in 1..turn : ~(pm[k].type # "Directory" /\ pm[k].target = t)
            BY <2>2, <3>3 DEF TakenIn
        <3> HIDE DEF t
        <3>5. pm' = [pm EXCEPT ![i0].target = t]
            BY <1>1, <2>2 DEF t
        <3> HIDE DEF i0
        <3>6. /\ pm'[i0].target = t
              /\ \A k \in 1..turn : pm'[k] = pm[k]
            BY <1>2, <3>2, <3>3, <3>5
        <3> QED BY <3>4, <3>6 DEF SameFile
    <2> QED BY <1>2, <2>1, <2>2, UnclashFacts
<1>5. \A i \in 1..turn' : i \in 1..turn \/ i = i0
    BY <1>1, <1>2
<1>6. \A i, j \in 1..turn : SameFile(pm', i, j)
    BY <1>3, <1>4 DEF SameFile
<1>7. SameFile(pm', i0, i0)
    BY DEF SameFile
<1>8. \A i, j \in 1..turn' : SameFile(pm', i, j)
    BY <1>4, <1>5, <1>6, <1>7
<1> QED BY <1>1, <1>8 DEF TargetsSound, SameFile

LEMMA StepTargets == Types /\ TargetsSound /\ [Next]_vars => TargetsSound'
<1> SUFFICES ASSUME Types, TargetsSound, [Next]_vars PROVE TargetsSound'
    OBVIOUS
<1>1. CASE ExpandNext
    BY <1>1 DEF ExpandNext, TargetsSound
<1>2. CASE Expanded
    <2>1. turn' = 0 /\ pm' = <<>> /\ Len(<<>>) = 0 /\ pc' \in {"clean", "map"}
        BY <1>2 DEF Expanded, Types, Fresh
    <2>2. 1..(IF pc' \in {"expand", "map"} THEN turn' ELSE Len(pm')) = {}
        BY <2>1
    <2> QED BY <2>2 DEF TargetsSound
<1>3. CASE VisitNext
    <2>1. /\ pc = "map" /\ UNCHANGED <<turn, pc>>
          /\ pm' = pm \/ pm' = Append(pm, EntryOf(Head(visits)))
        BY <1>3 DEF VisitNext
    <2>2. pm \in Seq(Entry) /\ turn \in 0..Len(pm) /\ Len(pm) \in Nat
        BY <2>1 DEF Types, TypeOK, Entry
    <2> DEFINE e == EntryOf(Head(visits))
    <2> HIDE DEF e
    <2>3. \A k \in 1..turn : pm'[k] = pm[k]
        BY <2>1, <2>2 DEF e
    <2> QED BY <2>1, <2>3 DEF TargetsSound
<1>4. CASE UnclashNext
    BY <1>4, UnclashTargets
<1>5. CASE Mapped
    BY <1>5 DEF Mapped, TargetsSound
<1>6. CASE StageNext
    BY <1>6 DEF StageNext, TargetsSound
<1>7. CASE RelocateNext
    <2>1. UNCHANGED pm /\ pc = "stage" /\ pc' \in {"stage", "failed"}
        BY <1>7 DEF RelocateNext
    <2> QED BY <2>1 DEF TargetsSound
<1>8. CASE AdjustLocations \/ CleanIntermediate
    BY <1>8 DEF AdjustLocations, CleanIntermediate, TargetsSound
<1>9. CASE UNCHANGED vars
    BY <1>9 DEF vars, TargetsSound
<1> QED BY <1>1, <1>2, <1>3, <1>4, <1>5, <1>6, <1>7, <1>8, <1>9 DEF Next

LEMMA InitTargets == Init => TargetsSound
    BY DEF Init, TargetsSound

\* fix_conflicts: when the entries are staged, Files that go to one place are
\* one File, however many have one name and whatever numbers are taken.
THEOREM NoTwoFilesAtOnePlace == Spec => []TargetsSound
    BY InitTypes, StepTypes, InitTargets, StepTargets, PTL DEF Spec

(***************************************************************************)
(* Places: locations are real, targets are in the destination.             *)
(***************************************************************************)

LEMMA ExpandedPlaces == Types /\ PlacesSound /\ Expanded => PlacesSound'
<1> SUFFICES ASSUME Types, PlacesSound, Expanded PROVE PlacesSound'
    OBVIOUS
<1>1. /\ pc = "expand" /\ turn = Len(out) /\ UNCHANGED <<fs, fs0, visits, pm>>
      /\ pc' = "map" => out' = [k \in DOMAIN out |-> Located(fs, out[k])]
    BY DEF Expanded
<1>2. /\ fs = fs0 /\ fs0 \in FileSystems
      /\ \A k \in DOMAIN out : out[k] \in Object(DOMAIN out)
    BY <1>1, ExpandedAll DEF Types, TypeOK, Fresh
<1>3. \A k \in DOMAIN out : Links(fs0, Located(fs, out[k]).loc) = {}
    BY <1>2, LocatedFacts
<1>4. ASSUME NEW k \in DOMAIN out PROVE Located(fs, out[k]).dirname = out[k].dirname
    <2>1. out[k] \in Object(DOMAIN out)
        BY <1>2
    <2> QED BY <2>1 DEF Located, Object
<1>5. \A k \in DOMAIN out' : k \in DOMAIN out /\ StaysInside(out'[k])
    <2>1. out' = out \/ out' = [k \in DOMAIN out |-> Located(fs, out[k])]
        BY DEF Expanded
    <2> QED BY <1>4, <2>1 DEF PlacesSound, StaysInside
<1> QED BY <1>1, <1>3, <1>5 DEF PlacesSound

LEMMA VisitPlaces == Types /\ PlacesSound /\ VisitNext => PlacesSound'
<1> SUFFICES ASSUME Types, PlacesSound, VisitNext PROVE PlacesSound'
    OBVIOUS
<1> DEFINE v == Head(visits)
           obj == out[v.obj]
           listed == [i \in DOMAIN obj.listing |-> VisitListed(v, obj.listing[i])]
           Visit == [obj : DOMAIN out, dir : Path, staged : BOOLEAN]
           Below == {x \in Visit : IsPrefix(Dest, x.dir)}
<1>1. /\ pc = "map" /\ pc' = "map" /\ visits # <<>>
      /\ UNCHANGED <<fs, out, turn, moves, where, options, fs0>>
    BY DEF VisitNext
<1>2. \/ visits' = Tail(visits) /\ pm' = pm
      \/ visits' = listed \o Tail(visits) /\ pm' = Append(pm, EntryOf(v))
    BY DEF VisitNext
<1>3. /\ visits \in Seq(Visit) /\ pm \in Seq(Entry)
      /\ \A k \in DOMAIN out : out[k] \in Object(DOMAIN out)
    BY <1>1 DEF Types, TypeOK, Entry
<1>4. visits \in Seq(Below)
    <2>1. \A i \in DOMAIN visits : visits[i] \in Below
        <3>1. \A i \in DOMAIN visits : visits[i] \in Visit
            <4> HIDE DEF Visit
            <4> QED BY <1>3
        <3> QED BY <3>1 DEF PlacesSound
    <2>2. visits = [i \in 1..Len(visits) |-> visits[i]] /\ DOMAIN visits = 1..Len(visits)
          /\ Len(visits) \in Nat
        BY <1>3
    <2> HIDE DEF Below
    <2> QED BY <2>1, <2>2, SeqByItems
<1>5. v \in Below /\ Tail(visits) \in Seq(Below)
    <2> HIDE DEF Below
    <2> QED BY <1>1, <1>4, HeadTail
<1>6. /\ v.obj \in DOMAIN out /\ v.dir \in Path /\ v.staged \in BOOLEAN
      /\ IsPrefix(Dest, v.dir) /\ obj \in Object(DOMAIN out)
    BY <1>3, <1>5
<1> DEFINE dir == StageDir(v)
<1>14. dir \in Path /\ IsPrefix(Dest, dir)
    <2>1. StaysInside(obj)
        BY <1>6 DEF PlacesSound
    <2> QED BY <1>6, <2>1, StageDirTypes DEF StageDir, StaysInside
<1>7. /\ Append(dir, obj.name) \in Path /\ IsPrefix(dir, Append(dir, obj.name))
      /\ Len(Append(dir, obj.name)) = Len(dir) + 1
    <2> HIDE DEF dir
    <2> QED BY <1>6, <1>14, AppendPath DEF Object
<1>8. IsPrefix(Dest, Append(dir, obj.name)) /\ Len(Append(dir, obj.name)) > Len(Dest)
    <2>1. Len(Dest) <= Len(dir) /\ Len(Dest) \in Nat /\ Len(dir) \in Nat
        BY <1>14, PathFacts, PrefixByPlaces
    <2> DEFINE w == Append(dir, obj.name)
    <2>3. /\ Dest \in Seq(Name) /\ dir \in Seq(Name) /\ w \in Seq(Name)
          /\ IsPrefix(Dest, dir) /\ IsPrefix(dir, w)
        BY <1>14, <1>7, PathFacts
    <2> HIDE DEF w, dir
    <2>2. IsPrefix(Dest, w)
        BY <2>3, PrefixOrder
    <2> QED BY <1>7, <2>1, <2>2 DEF w
<1>9. listed \in Seq(Below)
    <2>1. obj.listing \in Seq(DOMAIN out)
        BY <1>6 DEF Object
    <2>2. \A i \in DOMAIN obj.listing : obj.listing[i] \in DOMAIN out
        BY <2>1
    <2>3. ASSUME NEW i \in DOMAIN out PROVE VisitListed(v, i) \in Below
        <3>1. EntryOf(v).target = Append(dir, obj.name)
            BY <1>6, EntryTypes
        <3>2. VisitListed(v, i) \in Visit /\ VisitListed(v, i).dir \in {dir, EntryOf(v).target}
            BY <1>6, VisitListedTypes
        <3> HIDE DEF v, obj, dir, Visit
        <3> QED BY <1>8, <1>14, <3>1, <3>2
    <2> HIDE DEF v, obj, Below
    <2>4. \A i \in DOMAIN obj.listing : listed[i] \in Below
        BY <2>2, <2>3
    <2>5. DOMAIN obj.listing = 1..Len(obj.listing) /\ Len(obj.listing) \in Nat
        BY <2>1
    <2>6. listed = [i \in 1..Len(obj.listing) |-> listed[i]]
        BY <2>5
    <2> HIDE DEF listed, Below
    <2> QED BY <2>4, <2>5, <2>6, SeqByItems
<1> DEFINE e == EntryOf(v)
<1>10. /\ IsPrefix(Dest, e.target) /\ Len(e.target) > Len(Dest)
       /\ e.type # "CreateFile" => Links(fs0, e.resolved) = {}
    BY <1>1, <1>6, <1>8, EntryTypes DEF PlacesSound
<1> HIDE DEF e, listed, v, obj, dir, Below
<1>11. visits' \in Seq(Below)
    <2>1. listed \o Tail(visits) \in Seq(Below)
        BY <1>5, <1>9, PrefixConcat
    <2> QED BY <1>2, <1>5, <2>1
<1>12. \A x \in Range(pm') : x \in Range(pm) \/ x = e
    <2>1. pm' = pm \/ pm' = Append(pm, e)
        BY <1>2 DEF e
    <2> QED BY <1>3, <2>1 DEF Range
<1>13. \A i \in DOMAIN visits' : IsPrefix(Dest, visits'[i].dir)
    BY <1>11 DEF Below
<1> QED BY <1>1, <1>10, <1>12, <1>13 DEF PlacesSound

\* A target beside another one is in the same directories.
LEMMA Beside ==
    ASSUME NEW t \in Path, NEW u \in Path, Front(u) = Front(t), Len(u) = Len(t),
           NEW p \in Path
    PROVE  /\ IsPrefix(p, t) /\ Len(p) < Len(t) => IsPrefix(p, u)
<1> SUFFICES ASSUME IsPrefix(p, t), Len(p) < Len(t) PROVE IsPrefix(p, u)
    OBVIOUS
<1>1. p # t /\ Front(u) \in Seq(Name) /\ p \in Seq(Name) /\ u \in Seq(Name)
    <2>1. Len(p) \in Nat /\ Len(t) \in Nat
        BY PathFacts
    <2>2. p # t
        BY <2>1
    <2> QED BY <2>2, PathFacts, PrefixFront
<1>2. IsPrefix(p, Front(t)) /\ IsPrefix(Front(u), u)
    BY <1>1, PathFacts, PrefixFront
<1> QED BY <1>1, <1>2, PrefixOrder

LEMMA UnclashPlaces == Types /\ PlacesSound /\ UnclashNext => PlacesSound'
<1> SUFFICES ASSUME Types, PlacesSound, UnclashNext PROVE PlacesSound'
    OBVIOUS
<1> DEFINE i == turn + 1
<1>1. /\ pc = "map" /\ pc' = "map" /\ turn < Len(pm) /\ pm' = Unclash(pm, i)
      /\ UNCHANGED <<fs, out, visits, moves, where, options, fs0>>
    BY DEF UnclashNext
<1>2. pm \in Seq(Entry) /\ turn \in Nat /\ Len(pm) \in Nat /\ i \in 1..Len(pm)
    BY <1>1 DEF Types, TypeOK, Entry
<1>3. ASSUME NEW n \in 2..(Len(pm) + 1),
             pm' = [pm EXCEPT ![i].target = NumberedOf(pm[i].target, n)]
      PROVE  \A x \in Range(pm') :
                 /\ IsPrefix(Dest, x.target) /\ Len(x.target) > Len(Dest)
                 /\ x.type # "CreateFile" => Links(fs0, x.resolved) = {}
    <2> DEFINE t == NumberedOf(pm[i].target, n)
               e == [pm[i] EXCEPT !.target = t]
    <2>1. pm[i] \in Entry /\ pm[i] \in Range(pm) /\ n \in Nat
        BY <1>2 DEF Range
    <2>2. pm[i].target \in Path /\ IsPrefix(Dest, pm[i].target)
          /\ Len(pm[i].target) > Len(Dest)
        BY <2>1 DEF Entry, PlacesSound
    <2>3. t \in Path /\ Len(t) = Len(pm[i].target) /\ Front(t) = Front(pm[i].target)
        BY <2>1, <2>2, NumberedFacts
    <2> HIDE DEF t, i
    <2>4. IsPrefix(Dest, t) /\ Len(t) > Len(Dest)
        <3>1. Len(Dest) \in Nat /\ Len(t) \in Nat
            BY <2>3, PathFacts
        <3> QED BY <2>2, <2>3, <3>1, PathFacts, Beside
    <2>5. e.target = t /\ e.type = pm[i].type /\ e.resolved = pm[i].resolved
        BY <2>1 DEF Entry
    <2>6. pm' = [pm EXCEPT ![i] = e]
        BY <1>3 DEF t
    <2> HIDE DEF e
    <2>7. \A x \in Range(pm') : x \in Range(pm) \/ x = e
        BY <1>2, <2>6 DEF Range
    <2> QED BY <2>1, <2>4, <2>5, <2>7 DEF PlacesSound
<1>4. \A x \in Range(pm') :
          /\ IsPrefix(Dest, x.target) /\ Len(x.target) > Len(Dest)
          /\ x.type # "CreateFile" => Links(fs0, x.resolved) = {}
    <2> HIDE DEF i
    <2> QED BY <1>1, <1>2, <1>3, UnclashFacts DEF PlacesSound
<1> QED BY <1>1, <1>4 DEF PlacesSound

LEMMA InitPlaces == ASSUME TidyDirs PROVE Init => PlacesSound
<1> SUFFICES ASSUME Init PROVE PlacesSound
    OBVIOUS
<1>4. \A k \in DOMAIN out : StaysInside(out[k])
    BY DEF Init, TidyDirs
<1>1. pc = "expand" /\ turn = 0 /\ pm = <<>> /\ Range(pm) = {}
    BY DEF Init, Range
<1>2. \A i \in DOMAIN visits : visits[i].dir = Dest
    BY DEF Init
<1>3. IsPrefix(Dest, Dest)
    BY PathFacts, PrefixOrder
<1> QED BY <1>1, <1>2, <1>3, <1>4 DEF PlacesSound

\* What is listed brings no dirname, or is an object of the constant.
LEMMA ExpandPlaces == ASSUME TidyDirs PROVE Types /\ PlacesSound /\ ExpandNext => PlacesSound'
<1> SUFFICES ASSUME Types, PlacesSound, ExpandNext PROVE PlacesSound'
    OBVIOUS
<1> DEFINE obj == out[turn + 1]
<1>1. /\ pc = "expand" /\ pc' = "expand" /\ turn < Len(out)
      /\ UNCHANGED <<visits, pm, fs0>>
    BY DEF ExpandNext
<1>2. PICK listed \in Listings(fs, obj) :
          out' = [out EXCEPT ![turn + 1].listing = [i \in DOMAIN listed |-> Len(out) + i]]
                 \o listed
    BY DEF ExpandNext
<1>3. /\ fs \in FileSystems /\ out \in Seq(Range(out)) /\ turn \in Nat
      /\ \A k \in DOMAIN out : out[k] \in IF k > turn THEN Object(Objects)
                                                      ELSE Object(DOMAIN out)
    BY <1>1 DEF Types, TypeOK, Fresh
<1>4. obj \in Object(Objects)
    BY <1>1, <1>3
<1>5. listed \in Seq(Object(Objects))
    BY <1>3, <1>4, ListingTypes
<1>6. ASSUME NEW i \in DOMAIN listed PROVE StaysInside(listed[i])
    <2>1. CASE obj.class = "File" \/ Literal(obj.loc)
        <3>1. listed = obj.listing /\ obj.listing \in Seq(Objects)
            BY <1>4, <2>1 DEF Listings, Object
        <3>2. listed[i] \in Objects
            BY <3>1
        <3> QED BY <3>2 DEF TidyDirs
    <2>2. CASE ~(obj.class = "File" \/ Literal(obj.loc))
        <3> DEFINE below == {Append(obj.loc, Last(p)) : p \in Entries(fs, RealPath(fs, obj.loc))}
        <3>1. PICK paths \in SetToSeqs(below) :
                  listed = [j \in DOMAIN paths |-> Found(fs, paths[j])]
            BY <1>2, <2>2 DEF Listings
        <3> HIDE DEF below
        <3>2. listed[i] = Found(fs, paths[i])
            BY <1>6, <3>1
        <3>3. listed[i].dirname = <<>>
            BY <3>2 DEF Found
        <3> QED BY <3>3 DEF StaysInside
    <2> QED BY <2>1, <2>2
<1> DEFINE places == [i \in DOMAIN listed |-> Len(out) + i]
           E == [out EXCEPT ![turn + 1] = [out[turn + 1] EXCEPT !.listing = places]]
<1>7. out' = E \o listed
    BY <1>2
<1>8. E \in Seq(Range(out) \cup {[out[turn + 1] EXCEPT !.listing = places]}) /\ Len(E) = Len(out)
      /\ \A k \in 1..Len(out) : E[k].dirname = out[k].dirname
    <2> HIDE DEF places
    <2>1. [obj EXCEPT !.listing = places].dirname = obj.dirname
        BY <1>4 DEF Object
    <2> QED BY <1>1, <1>3, <2>1
<1> HIDE DEF places, E, obj
<1>9. /\ Len(out) \in Nat /\ Len(listed) \in Nat /\ DOMAIN out = 1..Len(out)
      /\ DOMAIN listed = 1..Len(listed)
      /\ DOMAIN out' = 1..(Len(out) + Len(listed))
      /\ \A k \in DOMAIN out' :
            out'[k] = IF k <= Len(out) THEN E[k] ELSE listed[k - Len(out)]
    BY <1>3, <1>5, <1>7, <1>8
<1>10. ASSUME NEW k \in DOMAIN out' PROVE StaysInside(out'[k])
    <2>1. CASE k <= Len(out)
        <3>1. k \in DOMAIN out /\ out'[k].dirname = out[k].dirname
            BY <1>8, <1>9, <2>1
        <3> QED BY <3>1 DEF PlacesSound, StaysInside
    <2>2. CASE k > Len(out)
        <3>1. k - Len(out) \in DOMAIN listed /\ out'[k] = listed[k - Len(out)]
            BY <1>9, <2>2
        <3> QED BY <1>6, <3>1
    <2> QED BY <1>9, <2>1, <2>2
<1> QED BY <1>1, <1>10 DEF PlacesSound

LEMMA StepPlaces ==
    ASSUME TidyDirs PROVE Types /\ PlacesSound /\ [Next]_vars => PlacesSound'
<1> SUFFICES ASSUME Types, PlacesSound, [Next]_vars PROVE PlacesSound'
    OBVIOUS
<1>1. CASE ExpandNext
    BY <1>1, ExpandPlaces
<1>2. CASE Mapped \/ StageNext \/ AdjustLocations \/ CleanIntermediate
    BY <1>2 DEF Mapped, StageNext, AdjustLocations, CleanIntermediate, PlacesSound
<1>3. CASE RelocateNext
    <2>1. UNCHANGED <<out, visits, pm, fs0>> /\ pc = "stage" /\ pc' \in {"stage", "failed"}
        BY <1>3 DEF RelocateNext
    <2> QED BY <2>1 DEF PlacesSound
<1>4. CASE UNCHANGED vars
    BY <1>4 DEF vars, PlacesSound
<1> QED BY <1>1, <1>2, <1>3, <1>4, ExpandedPlaces, VisitPlaces, UnclashPlaces DEF Next

(***************************************************************************)
(* The destination and the directories the jobs wrote to.                  *)
(***************************************************************************)

LEMMA PrefixNames ==
    \A s, t, u \in Name : /\ IsPrefix(s, s)
                          /\ IsPrefix(s, t) /\ IsPrefix(t, u) => IsPrefix(s, u)
    BY PrefixOrder DEF Name

\* Of two paths on the way to a third one begins the other.
LEMMA Comparable ==
    ASSUME NEW p \in Path, NEW q \in Path, NEW r \in Path, IsPrefix(p, r), IsPrefix(q, r)
    PROVE  IsPrefix(p, q) \/ IsPrefix(q, p)
<1>1. Len(p) \in Nat /\ Len(q) \in Nat
    BY PathFacts
<1>2. Len(p) <= Len(q) \/ Len(q) <= Len(p)
    BY <1>1
<1> QED BY <1>2, PathFacts, PrefixOrder

LEMMA PathOrder ==
    ASSUME NEW p \in Path, NEW q \in Path, NEW r \in Path
    PROVE  /\ IsPrefix(p, p)
           /\ IsPrefix(p, q) /\ IsPrefix(q, r) => IsPrefix(p, r)
    BY PathFacts, PrefixOrder

\* StartsWith, name by name.
LEMMA StartsWithByPlaces ==
    ASSUME NEW p \in Path, NEW d \in Path
    PROVE  StartsWith(p, d) <=> /\ Len(d) <= Len(p)
                                /\ \A i \in 1..(Len(d) - 1) : d[i] = p[i]
                                /\ IsPrefix(d[Len(d)], p[Len(d)])
<1>1. /\ d \in Seq(Name) \ {<<>>} /\ Len(d) \in Nat /\ Len(d) > 0
      /\ p \in Seq(Name) /\ Len(p) \in Nat
    BY PathFacts
<1>2. Front(d) \in Seq(Name) /\ Len(Front(d)) = Len(d) - 1
    BY <1>1, PrefixFront
<1>3. \A i \in 1..(Len(d) - 1) : Front(d)[i] = d[i]
    BY <1>1 DEF Front
<1>4. IsPrefix(Front(d), p) <=> /\ Len(Front(d)) <= Len(p)
                                /\ \A i \in 1..Len(Front(d)) : Front(d)[i] = p[i]
    BY <1>1, <1>2, PrefixByPlaces
<1>5. Len(d) <= Len(p) => Len(Front(d)) <= Len(p)
    BY <1>1, <1>2
<1>6. StartsWith(p, d) <=> /\ Len(p) >= Len(d) /\ IsPrefix(Front(d), p)
                           /\ IsPrefix(d[Len(d)], p[Len(d)])
    BY DEF StartsWith
<1> QED BY <1>1, <1>2, <1>3, <1>4, <1>5, <1>6

LEMMA StartsWithPrefix ==
    ASSUME NEW p \in Path, NEW d \in Path, IsPrefix(d, p) PROVE StartsWith(p, d)
<1>1. /\ d \in Seq(Name) /\ p \in Seq(Name) /\ Len(d) \in Nat /\ Len(d) > 0 /\ Len(p) \in Nat
      /\ Len(d) <= Len(p) /\ \A i \in 1..Len(d) : d[i] = p[i]
    BY PathFacts, PrefixByPlaces
<1>2. d[Len(d)] = p[Len(d)] /\ d[Len(d)] \in Name
    BY <1>1
<1>3. IsPrefix(d[Len(d)], p[Len(d)])
    BY <1>2, PrefixNames
<1> QED BY <1>1, <1>3, StartsWithByPlaces

\* Nothing on the way to the destination or in it begins like one of them.
LEMMA DestApart ==
    ASSUME TidyDirs, NEW d \in OutputDirs, NEW p \in Path,
           IsPrefix(p, Dest) \/ IsPrefix(Dest, p)
    PROVE  ~StartsWith(p, d)
<1> SUFFICES ASSUME StartsWith(p, d) PROVE FALSE
    OBVIOUS
<1>1. /\ d \in Path /\ Dest \in Path /\ ~StartsWith(Dest, d) /\ ~IsPrefix(Dest, d)
      /\ Len(d) \in Nat /\ Len(d) > 0 /\ Len(p) \in Nat /\ Len(Dest) \in Nat
    BY PathFacts DEF TidyDirs
<1>2. /\ Len(d) <= Len(p) /\ \A i \in 1..(Len(d) - 1) : d[i] = p[i]
      /\ IsPrefix(d[Len(d)], p[Len(d)])
    BY <1>1, StartsWithByPlaces
<1>3. \/ Len(p) <= Len(Dest) /\ \A i \in 1..Len(p) : p[i] = Dest[i]
      \/ Len(Dest) <= Len(p) /\ \A i \in 1..Len(Dest) : p[i] = Dest[i]
    BY <1>1, PathFacts, PrefixByPlaces
<1>4. CASE Len(d) <= Len(Dest)
    <2>1. \A i \in 1..Len(d) : p[i] = Dest[i]
        BY <1>1, <1>2, <1>3, <1>4
    <2>2. StartsWith(Dest, d)
        <3>1. Len(d) \in 1..Len(d) /\ \A i \in 1..(Len(d) - 1) : i \in 1..Len(d)
            BY <1>1
        <3>2. IsPrefix(d[Len(d)], Dest[Len(d)]) /\ \A i \in 1..(Len(d) - 1) : d[i] = Dest[i]
            BY <1>2, <2>1, <3>1
        <3> QED BY <1>1, <1>4, <3>2, StartsWithByPlaces
    <2> QED BY <1>1, <2>2
<1>5. CASE Len(d) > Len(Dest)
    <2>1. \A i \in 1..Len(Dest) : i \in 1..(Len(d) - 1) /\ p[i] = Dest[i]
        BY <1>1, <1>2, <1>3, <1>5
    <2>2. Len(Dest) <= Len(d) /\ \A i \in 1..Len(Dest) : Dest[i] = d[i]
        BY <1>1, <1>2, <1>5, <2>1
    <2>3. IsPrefix(Dest, d)
        BY <1>1, <2>2, PathFacts, PrefixByPlaces
    <2> QED BY <1>1, <2>3
<1> QED BY <1>1, <1>4, <1>5

(***************************************************************************)
(* The disk.                                                               *)
(***************************************************************************)

Comp(p) == IsPrefix(p, Dest) \/ IsPrefix(Dest, p)

\* What is moved is what a job wrote.
LEMMA SrcGiven ==
    ASSUME TidyDirs, Types, PlacesSound, DiskSound, pc # "done", options.action = "move",
           NEW src \in DOMAIN fs, SrcCanDeleted(src)
    PROVE  Given(src)
<1>1. PICK d \in OutputDirs : StartsWith(src, d)
    BY DEF SrcCanDeleted
<1>2. src \in Path /\ pm \in Seq(Entry) /\ fs0 \in FileSystems
    BY DEF Types, TypeOK, Entry
<1>3. ~Comp(src)
    BY <1>1, <1>2, DestApart DEF Comp
<1>4. Written(src) \/ Given(src) \/ Untouched(src)
    BY DEF DiskSound
<1>5. ~Written(src)
    <2> SUFFICES ASSUME NEW e \in Range(pm), IsPrefix(e.target, src) PROVE FALSE
        BY DEF Written
    <2>1. e.target \in Path /\ IsPrefix(Dest, e.target)
        <3>1. e \in Entry
            BY <1>2 DEF Range
        <3> QED BY <3>1 DEF Entry, PlacesSound
    <2> QED BY <1>2, <1>3, <2>1, PathFacts, PathOrder DEF Comp
<1>6. ASSUME Untouched(src) PROVE Given(src)
    <2>1. src \in DOMAIN fs0
        BY <1>3, <1>6 DEF Untouched, Comp
    <2>2. IsPrefix(d, src)
        BY <1>1, <1>2, <2>1 DEF TidyDirs
    <2> QED BY <2>2 DEF Given
<1> QED BY <1>4, <1>5, <1>6

LEMMA NamedNow == ASSUME Types, DiskSound PROVE Named(fs)
    BY DisksAreDisks DEF Types, TypeOK, DiskSound, Named

LEMMA TurnEntry ==
    ASSUME Types, turn \in 1..Len(pm)
    PROVE  /\ pm[turn] \in Entry /\ pm[turn] \in Range(pm)
           /\ pm[turn].target \in Path /\ pm[turn].resolved \in Path
<1>1. pm \in Seq(Entry)
    BY DEF Types, TypeOK, Entry
<1>2. pm[turn] \in Entry /\ pm[turn] \in Range(pm)
    BY <1>1 DEF Range
<1> QED BY <1>2 DEF Entry

\* Both paths of a call of _relocate are real.
LEMMA MovesReal ==
    ASSUME TidyDirs, Types, PlacesSound, MovesSound, DiskSound, LinkFree, NEW m \in moves
    PROVE  /\ m.from \in Path /\ m.to \in Path
           /\ RealPath(fs, m.from) = m.from /\ RealPath(fs, m.to) = m.to
           /\ turn \in 1..Len(pm)
           /\ IsPrefix(pm[turn].target, m.to) /\ IsPrefix(pm[turn].resolved, m.from)
           /\ options.action = "move" => \A p \in At(fs, m.from) : fs[p].kind # "link"
<1> DEFINE e == pm[turn]
<1>1. /\ pc \in {"stage", "failed"} /\ turn \in 1..Len(pm) /\ e.type # "CreateFile"
      /\ \/ m = [from |-> e.resolved, to |-> e.target]
         \/ /\ options.action = "move"
            /\ IsPrefix(e.target, m.to) /\ IsPrefix(e.resolved, m.from)
    BY DEF MovesSound
<1>2. e \in Entry /\ e \in Range(pm) /\ e.target \in Path /\ e.resolved \in Path
    BY <1>1, TurnEntry
<1>3. m.from \in Path /\ m.to \in Path
    BY DEF Types, TypeOK
<1>4. IsPrefix(e.target, m.to) /\ IsPrefix(e.resolved, m.from)
    BY <1>1, <1>2, PathOrder
<1>5. IsPrefix(Dest, m.to)
    <2>1. IsPrefix(Dest, e.target)
        BY <1>2 DEF PlacesSound
    <2> QED BY <1>2, <1>3, <1>4, <2>1, PathFacts, PathOrder
<1>6. Links(fs0, e.resolved) = {}
    BY <1>1, <1>2 DEF PlacesSound
<1> HIDE DEF e
<1>7. fs0 \in FileSystems /\ \A p \in DOMAIN fs : fs[p].kind = "link" =>
          p \in DOMAIN fs0 /\ fs0[p].kind = "link"
    BY DEF DiskSound, Types, TypeOK
<1>8. Links(fs, m.to) = {}
    <2> SUFFICES ASSUME NEW k \in 1..Len(m.to), SubSeq(m.to, 1, k) \in DOMAIN fs,
                        fs[SubSeq(m.to, 1, k)].kind = "link"
                 PROVE  FALSE
        BY DEF Links, Exists
    <2> DEFINE q == SubSeq(m.to, 1, k)
    <2>1. q \in Path /\ IsPrefix(q, m.to)
        BY <1>3, PathParts
    <2>2. q \in DOMAIN fs0 /\ fs0[q].kind = "link"
        BY <1>7
    <2> HIDE DEF q
    <2>3. IsPrefix(q, Dest) \/ IsPrefix(Dest, q)
        BY <1>3, <1>5, <2>1, PathFacts, Comparable
    <2> QED BY <1>7, <2>2, <2>3 DEF TidyDirs
<1>9. ASSUME NEW q \in DOMAIN fs, fs[q].kind = "link", IsPrefix(q, e.resolved) PROVE FALSE
    <2>1. q \in Path /\ q \in DOMAIN fs0 /\ fs0[q].kind = "link"
        BY <1>7, <1>9 DEF Types, TypeOK
    <2>2. Len(q) \in Nat /\ Len(q) > 0 /\ Len(q) <= Len(e.resolved) /\ Len(e.resolved) \in Nat
        BY <1>2, <1>9, <2>1, PathFacts, PrefixByPlaces
    <2>3. Len(q) \in 1..Len(e.resolved)
        BY <2>2
    <2>4. SubSeq(e.resolved, 1, Len(q)) = q
        BY <1>2, <1>9, <2>1, PathFacts, PrefixIsPart
    <2> QED BY <1>6, <2>1, <2>3, <2>4 DEF Links, Exists
<1>10. ASSUME options.action = "move", NEW q \in DOMAIN fs, IsPrefix(e.resolved, q)
       PROVE  fs[q].kind # "link"
    BY <1>1, <1>2, <1>7, <1>10 DEF LinkFree, At, e
<1>11. Links(fs, m.from) = {}
    <2> SUFFICES ASSUME NEW k \in 1..Len(m.from), SubSeq(m.from, 1, k) \in DOMAIN fs,
                        fs[SubSeq(m.from, 1, k)].kind = "link"
                 PROVE  FALSE
        BY DEF Links, Exists
    <2> DEFINE q == SubSeq(m.from, 1, k)
    <2>1. q \in Path /\ IsPrefix(q, m.from)
        BY <1>3, PathParts
    <2>2. q \in DOMAIN fs /\ fs[q].kind = "link"
        OBVIOUS
    <2> HIDE DEF q
    <2>3. IsPrefix(q, e.resolved) \/ IsPrefix(e.resolved, q)
        BY <1>2, <1>3, <1>4, <2>1, Comparable
    <2>4. CASE m = [from |-> e.resolved, to |-> e.target]
        <3>1. IsPrefix(q, e.resolved)
            BY <2>1, <2>4
        <3> QED BY <1>9, <2>2, <3>1
    <2>5. CASE options.action = "move"
        BY <1>9, <1>10, <2>2, <2>3, <2>5
    <2> QED BY <1>1, <2>4, <2>5 DEF e
<1>12. options.action = "move" => \A p \in At(fs, m.from) : fs[p].kind # "link"
    <2> SUFFICES ASSUME options.action = "move", NEW p \in DOMAIN fs, IsPrefix(m.from, p)
                 PROVE  fs[p].kind # "link"
        BY DEF At
    <2>1. p \in Path
        BY DEF Types, TypeOK
    <2>2. IsPrefix(e.resolved, p)
        BY <1>2, <1>3, <1>4, <2>1, PathOrder
    <2> QED BY <1>10, <2>2
<1> QED BY <1>1, <1>3, <1>4, <1>8, <1>11, <1>12, RealPathOfReal DEF e

\* One step of the staging, by what it writes.
LEMMA DiskStep ==
    ASSUME Types, DiskSound, pc # "done", UNCHANGED <<pm, options, fs0>>, Disk(fs'),
           NoNewLink(fs, fs'),
           \A p \in Path :
               \/ SameAt(fs, fs', p)
               \/ Written(p) \/ Given(p)
               \/ p \notin DOMAIN fs /\ IsDir(fs', p) /\ Comp(p)
    PROVE  DiskSound'
<1>1. \A p \in DOMAIN fs' : fs'[p].kind = "link" => p \in DOMAIN fs0' /\ fs0'[p] = fs'[p]
    BY DEF DiskSound, NoNewLink
<1>2. ASSUME NEW p \in DOMAIN fs' \cup DOMAIN fs0'
      PROVE  Written(p)' \/ Given(p)' \/ Untouched(p)'
    <2>1. p \in Path
        BY <1>2, DisksAreDisks DEF Disk, Types, TypeOK
    <2>2. Written(p) => Written(p)'
        BY DEF Written
    <2>3. Given(p) => Given(p)'
        BY DEF Given
    <2>4. CASE SameAt(fs, fs', p)
        <3>1. p \in DOMAIN fs \cup DOMAIN fs0
            BY <1>2, <2>4 DEF SameAt
        <3>2. Untouched(p) => Untouched(p)'
            BY <2>4 DEF Untouched, SameAt, IsDir, Exists
        <3> QED BY <2>2, <2>3, <3>1, <3>2 DEF DiskSound
    <2>5. CASE p \notin DOMAIN fs /\ IsDir(fs', p) /\ Comp(p)
        <3>1. CASE p \in DOMAIN fs0
            <4>1. ~Untouched(p)
                BY <2>5, <3>1 DEF Untouched
            <4> QED BY <2>2, <2>3, <3>1, <4>1 DEF DiskSound
        <3>2. CASE p \notin DOMAIN fs0
            BY <2>5, <3>2 DEF Untouched, Comp
        <3> QED BY <3>1, <3>2
    <2> QED BY <2>1, <2>2, <2>3, <2>4, <2>5
<1> QED BY <1>1, <1>2 DEF DiskSound

LEMMA StageWrites ==
    ASSUME TidyDirs, Types, PlacesSound, StageNext
    PROVE  /\ Disk(fs') /\ NoNewLink(fs, fs') /\ MovesSound'
           /\ \A p \in Path : \/ SameAt(fs, fs', p)
                              \/ Written(p)
                              \/ p \notin DOMAIN fs /\ IsDir(fs', p) /\ Comp(p)
<1> DEFINE e == pm[turn + 1]
           done == StageEntry(fs, e)
<1>1. /\ pc = "stage" /\ moves = {} /\ turn < Len(pm) /\ turn' = turn + 1
      /\ fs' = done.fs /\ moves' = done.moves /\ pc' \in {"stage", "failed"}
      /\ UNCHANGED <<out, visits, pm, where, options, fs0>>
    BY DEF StageNext
<1>2. pm \in Seq(Entry) /\ turn \in Nat /\ Len(pm) \in Nat /\ Disk(fs)
    BY <1>1 DEF Types, TypeOK, Entry, Disk
<1>3. e \in Entry /\ e \in Range(pm) /\ turn + 1 \in 1..Len(pm)
    BY <1>1, <1>2 DEF Range
<1>4. e.type = "CreateFile" => Len(e.resolved) = 1 /\ Len(e.resolved[1]) = 1
    BY <1>3 DEF Types, Contents
<1>5. /\ e.target \in Path /\ IsPrefix(Dest, e.target) /\ Len(e.target) > Len(Dest)
    BY <1>3 DEF Entry, PlacesSound
<1> HIDE DEF e
<1>6. /\ Disk(fs') /\ NoNewLink(fs, fs')
      /\ moves' \subseteq {[from |-> e.resolved, to |-> e.target]}
      /\ moves' # {} => e.type # "CreateFile"
      /\ \A p \in Path :
            \/ SameAt(fs, fs', p)
            \/ p \notin DOMAIN fs /\ IsDir(fs', p) /\ IsPrefix(p, e.target)
            \/ e.type = "CreateFile" /\ p = e.target
    BY <1>1, <1>2, <1>3, <1>4, StageEntryFacts
<1>7. e.type = "CreateFile" => Written(e.target)
    <2> SUFFICES ASSUME e.type = "CreateFile" PROVE Written(e.target)
        OBVIOUS
    <2>1. Len(e.resolved) = 1 /\ Len(Dest) \in Nat /\ Len(Dest) > 0 /\ Len(e.target) \in Nat
        BY <1>4, <1>5, PathFacts
    <2> DEFINE a == Len(e.target)
               b == Len(e.resolved)
               c == Len(Dest)
    <2>5. b = 1 /\ c \in Nat /\ c > 0 /\ a \in Nat /\ a > c
        BY <1>5, <2>1
    <2> HIDE DEF a, b, c
    <2>6. a # b
        BY <2>5
    <2>2. Len(e.target) # Len(e.resolved)
        BY <2>6 DEF a, b
    <2>3. ~InPlace(e)
        BY <2>2 DEF InPlace
    <2>4. IsPrefix(e.target, e.target)
        BY <1>5, PathOrder
    <2> QED BY <1>3, <2>3, <2>4 DEF Written
<1>8. \A p \in Path : IsPrefix(p, e.target) => Comp(p)
    BY <1>5, PathFacts, Comparable DEF Comp
<1>9. MovesSound'
    <2>1. pm'[turn'] = e
        BY <1>1 DEF e
    <2>2. turn' \in 1..Len(pm')
        BY <1>1, <1>3
    <2> QED BY <1>1, <1>6, <2>1, <2>2 DEF MovesSound
<1> QED BY <1>6, <1>7, <1>8, <1>9

\* The cases of a call of _relocate.
LEMMA RelocateCases ==
    ASSUME TidyDirs, Types, PlacesSound, MovesSound, DiskSound, LinkFree, RelocateNext
    PROVE  \E m \in moves :
              /\ pc = "stage" /\ pc' \in {"stage", "failed"}
              /\ UNCHANGED <<out, visits, pm, turn, where, options, fs0>>
              /\ \/ fs' = fs /\ moves' = moves \ {m}
                 \/ /\ fs' = fs /\ m.from # m.to /\ options.action = "move"
                    /\ moves' = (moves \ {m}) \cup
                          {[from |-> p, to |-> Append(m.to, Last(p))] : p \in Entries(fs, m.from)}
                 \/ /\ moves' = moves \ {m} /\ m.from # m.to
                    /\ \/ fs' = CopyOver(fs, m.from, m.to).fs
                       \/ /\ options.action = "move" /\ SrcCanDeleted(m.from)
                          /\ fs' = Renamed(fs, m.from, m.to).fs
<1>1. PICK m \in moves :
          LET src == RealPath(fs, m.from)
              dst == RealPath(fs, m.to)
              moving == options.action = "move" /\ SrcCanDeleted(src)
              merging == moving /\ IsDir(fs, src) /\ IsDir(fs, dst)
              done == IF moving THEN Renamed(fs, src, dst) ELSE CopyOver(fs, src, dst)
          IN  /\ pc = "stage"
              /\ \/ /\ src = dst
                    /\ moves' = moves \ {m}
                    /\ UNCHANGED <<fs, pc>>
                 \/ /\ src # dst /\ merging
                    /\ moves' = (moves \ {m}) \cup
                          {[from |-> p, to |-> Append(dst, Last(p))] : p \in Entries(fs, src)}
                    /\ UNCHANGED <<fs, pc>>
                 \/ /\ src # dst /\ ~merging
                    /\ fs' = done.fs
                    /\ moves' = moves \ {m}
                    /\ pc' = IF done.ok THEN "stage" ELSE "failed"
              /\ UNCHANGED <<out, visits, pm, turn, where, options, fs0>>
    BY DEF RelocateNext
<1>2. RealPath(fs, m.from) = m.from /\ RealPath(fs, m.to) = m.to
    BY MovesReal
<1>3. /\ pc = "stage" /\ pc' \in {"stage", "failed"}
      /\ UNCHANGED <<out, visits, pm, turn, where, options, fs0>>
    BY <1>1
<1>4. \/ fs' = fs /\ moves' = moves \ {m}
      \/ /\ fs' = fs /\ m.from # m.to /\ options.action = "move"
         /\ moves' = (moves \ {m}) \cup
               {[from |-> p, to |-> Append(m.to, Last(p))] : p \in Entries(fs, m.from)}
      \/ /\ moves' = moves \ {m} /\ m.from # m.to
         /\ \/ fs' = CopyOver(fs, m.from, m.to).fs
            \/ /\ options.action = "move" /\ SrcCanDeleted(m.from)
               /\ fs' = Renamed(fs, m.from, m.to).fs
    BY <1>1, <1>2
<1> QED BY <1>3, <1>4

LEMMA RelocateWrites ==
    ASSUME TidyDirs, Types, PlacesSound, MovesSound, DiskSound, LinkFree, RelocateNext
    PROVE  /\ Disk(fs') /\ NoNewLink(fs, fs') /\ MovesSound'
           /\ pc = "stage" /\ UNCHANGED <<pm, options, fs0>>
           /\ \A p \in Path : SameAt(fs, fs', p) \/ Written(p) \/ Given(p)
<1>1. PICK m \in moves :
          /\ pc = "stage" /\ pc' \in {"stage", "failed"}
          /\ UNCHANGED <<out, visits, pm, turn, where, options, fs0>>
          /\ \/ fs' = fs /\ moves' = moves \ {m}
             \/ /\ fs' = fs /\ m.from # m.to /\ options.action = "move"
                /\ moves' = (moves \ {m}) \cup
                      {[from |-> p, to |-> Append(m.to, Last(p))] : p \in Entries(fs, m.from)}
             \/ /\ moves' = moves \ {m} /\ m.from # m.to
                /\ \/ fs' = CopyOver(fs, m.from, m.to).fs
                   \/ /\ options.action = "move" /\ SrcCanDeleted(m.from)
                      /\ fs' = Renamed(fs, m.from, m.to).fs
    BY RelocateCases
<1> DEFINE e == pm[turn]
<1>2. /\ m.from \in Path /\ m.to \in Path /\ turn \in 1..Len(pm)
      /\ IsPrefix(e.target, m.to) /\ IsPrefix(e.resolved, m.from)
      /\ options.action = "move" => \A p \in At(fs, m.from) : fs[p].kind # "link"
    BY MovesReal
<1>3. e \in Range(pm) /\ e.target \in Path /\ e.resolved \in Path
    BY <1>2, TurnEntry
<1>4. m.from # m.to => ~InPlace(e)
    BY DEF MovesSound, InPlace
<1> HIDE DEF e
<1>5. Disk(fs) /\ Named(fs)
    BY NamedNow DEF Types, TypeOK, Disk
<1>6. ASSUME m.from # m.to, NEW p \in Path, IsPrefix(m.to, p) PROVE Written(p)
    <2>1. IsPrefix(e.target, p) /\ ~InPlace(e)
        BY <1>2, <1>3, <1>4, <1>6, PathOrder
    <2> QED BY <1>3, <2>1 DEF Written
<1>7. ASSUME options.action = "move", SrcCanDeleted(m.from), m.from \in DOMAIN fs,
             NEW p \in Path, IsPrefix(m.from, p)
      PROVE  Given(p)
    <2>1. PICK d \in OutputDirs : IsPrefix(d, m.from)
        BY <1>1, <1>7, SrcGiven DEF Given
    <2>2. IsPrefix(d, p)
        BY <1>2, <1>7, <2>1, PathFacts, PathOrder
    <2> QED BY <1>7, <2>2 DEF Given
<1> DEFINE Sound == /\ Disk(fs') /\ NoNewLink(fs, fs')
                    /\ \A p \in Path : SameAt(fs, fs', p) \/ Written(p) \/ Given(p)
<1>8. ASSUME fs' = fs PROVE Sound
    BY <1>5, <1>8 DEF NoNewLink, SameAt
<1>9. ASSUME m.from # m.to, fs' = CopyOver(fs, m.from, m.to).fs PROVE Sound
    <2>1. /\ Disk(fs') /\ NoNewLink(fs, fs')
          /\ \A p \in Path : SameAt(fs, fs', p) \/ IsPrefix(m.to, p)
        BY <1>2, <1>5, <1>9, CopyOverFacts
    <2> QED BY <1>6, <1>9, <2>1
<1>10. ASSUME options.action = "move", SrcCanDeleted(m.from), m.from # m.to,
              fs' = Renamed(fs, m.from, m.to).fs
       PROVE  Sound
    <2>1. /\ Disk(fs') /\ NoNewLink(fs, fs')
          /\ \A p \in Path : \/ SameAt(fs, fs', p) \/ IsPrefix(m.to, p)
                             \/ IsPrefix(m.from, p) /\ m.from \in DOMAIN fs
        BY <1>2, <1>5, <1>10, RenamedFacts
    <2> QED BY <1>6, <1>7, <1>10, <2>1
<1> HIDE DEF Sound
<1>12. Sound
    BY <1>1, <1>8, <1>9, <1>10
<1>11. MovesSound'
    <2> DEFINE calls == {[from |-> p, to |-> Append(m.to, Last(p))] : p \in Entries(fs, m.from)}
    <2>1. \/ moves' = moves \ {m}
          \/ /\ moves' = (moves \ {m}) \cup calls
             /\ m.from # m.to /\ options.action = "move"
        BY <1>1
    <2>2. ASSUME NEW c \in calls
          PROVE  IsPrefix(e.target, c.to) /\ IsPrefix(e.resolved, c.from)
        <3>1. PICK p \in Entries(fs, m.from) : c = [from |-> p, to |-> Append(m.to, Last(p))]
            OBVIOUS
        <3>2. p \in Path /\ IsPrefix(m.from, p)
            BY <1>5 DEF Entries, Disk
        <3>3. Append(m.to, Last(p)) \in Path /\ IsPrefix(m.to, Append(m.to, Last(p)))
            BY <1>2, <3>2, RealTarget
        <3>4. c.from = p /\ c.to = Append(m.to, Last(p))
            BY <3>1
        <3> HIDE DEF calls
        <3> QED BY <1>2, <1>3, <3>2, <3>3, <3>4, PathOrder
    <2>3. /\ pc' \in {"stage", "failed"} /\ UNCHANGED <<turn, pm, options>>
          /\ pm[turn].type # "CreateFile" /\ turn \in 1..Len(pm)
        BY <1>1, <1>2 DEF MovesSound
    <2> HIDE DEF calls
    <2>4. ASSUME NEW c \in moves'
          PROVE  \/ c = [from |-> e.resolved, to |-> e.target]
                 \/ /\ options.action = "move" /\ ~InPlace(e)
                    /\ IsPrefix(e.target, c.to) /\ IsPrefix(e.resolved, c.from)
        <3>1. CASE c \in moves
            BY <3>1 DEF MovesSound, e
        <3>2. CASE c \in calls /\ m.from # m.to /\ options.action = "move"
            BY <1>4, <2>2, <3>2
        <3> QED BY <2>1, <3>1, <3>2
    <2> QED BY <2>3, <2>4 DEF MovesSound, e
<1> QED BY <1>1, <1>11, <1>12 DEF Sound

\* Entries are kept, or get another target: a link is not forgotten.
LEMMA EntriesKept ==
    ASSUME Types, [Next]_vars
    PROVE  /\ UNCHANGED <<options, fs0>>
           /\ \A e \in Range(pm) : \E x \in Range(pm') :
                  x.type = e.type /\ x.resolved = e.resolved
<1>1. UNCHANGED <<options, fs0>>
    <2>1. CASE RelocateNext
        BY <2>1 DEF RelocateNext
    <2> QED BY <2>1 DEF Next, vars, ExpandNext, Expanded, VisitNext, UnclashNext, Mapped,
                    StageNext, AdjustLocations, CleanIntermediate
<1>2. pm \in Seq(Entry)
    BY DEF Types, TypeOK, Entry
<1>3. CASE VisitNext
    <2>1. pm' = pm \/ pm' = Append(pm, EntryOf(Head(visits)))
        BY <1>3 DEF VisitNext
    <2> DEFINE e == EntryOf(Head(visits))
    <2> HIDE DEF e
    <2>2. pm' = Append(pm, e) => \A i \in DOMAIN pm : i \in DOMAIN pm' /\ pm'[i] = pm[i]
        BY <1>2
    <2>3. \A i \in DOMAIN pm : i \in DOMAIN pm' /\ pm'[i] = pm[i]
        BY <2>1, <2>2 DEF e
    <2> QED BY <1>1, <2>3 DEF Range
<1>4. CASE UnclashNext
    <2> DEFINE i == turn + 1
    <2>1. i \in 1..Len(pm) /\ pm' = Unclash(pm, i)
        BY <1>2, <1>4 DEF UnclashNext, Types, TypeOK
    <2> HIDE DEF i
    <2>3. pm[i] \in Entry /\ pm[i].target \in Path /\ Len(pm) \in Nat
        <3>1. pm[i] \in Entry /\ Len(pm) \in Nat
            BY <1>2, <2>1
        <3> QED BY <3>1 DEF Entry
    <2>2. pm' = pm \/ \E t \in Path : pm' = [pm EXCEPT ![i].target = t]
        <3>1. \A n \in 2..(Len(pm) + 1) : NumberedOf(pm[i].target, n) \in Path
            BY <2>3, NumberedFacts
        <3> QED BY <1>2, <2>1, <3>1, UnclashFacts
    <2>4. ASSUME NEW t \in Path, pm' = [pm EXCEPT ![i].target = t], NEW k \in DOMAIN pm
          PROVE  k \in DOMAIN pm' /\ pm'[k].type = pm[k].type
                     /\ pm'[k].resolved = pm[k].resolved
        <3> DEFINE e == [pm[i] EXCEPT !.target = t]
        <3>1. e.type = pm[i].type /\ e.resolved = pm[i].resolved
            BY <2>3 DEF Entry
        <3>2. pm' = [pm EXCEPT ![i] = e]
            BY <2>4
        <3> HIDE DEF e
        <3> QED BY <1>2, <2>1, <3>1, <3>2
    <2>5. \A k \in DOMAIN pm : k \in DOMAIN pm' /\ pm'[k].type = pm[k].type
                                   /\ pm'[k].resolved = pm[k].resolved
        BY <2>2, <2>4
    <2> QED BY <1>1, <2>5 DEF Range
<1>5. CASE UNCHANGED pm
    BY <1>1, <1>5
<1>6. CASE RelocateNext
    BY <1>5, <1>6 DEF RelocateNext
<1> QED BY <1>3, <1>4, <1>5, <1>6 DEF Next, vars, ExpandNext, Expanded, Mapped,
               StageNext, AdjustLocations, CleanIntermediate

LEMMA LinkFreeBefore == ASSUME Types, [Next]_vars, LinkFree' PROVE LinkFree
<1>1. UNCHANGED <<options, fs0>> /\ \A e \in Range(pm) : \E x \in Range(pm') :
          x.type = e.type /\ x.resolved = e.resolved
    BY EntriesKept
<1> SUFFICES ASSUME options.action = "move", NEW e \in Range(pm), e.type # "CreateFile",
                    NEW p \in At(fs0, e.resolved)
             PROVE  fs0[p].kind # "link"
    BY DEF LinkFree
<1>2. PICK x \in Range(pm') : x.type = e.type /\ x.resolved = e.resolved
    BY <1>1
<1> QED BY <1>1, <1>2 DEF LinkFree

\* As long as nothing has been written there is nothing to show.
LEMMA FreshSound == ASSUME Types, fs = fs0, moves = {} PROVE MovesSound /\ DiskSound
<1>1. \A p \in DOMAIN fs \cup DOMAIN fs0 : Untouched(p)
    BY DEF Untouched
<1> QED BY <1>1 DEF MovesSound, DiskSound

LEMMA StepDisk ==
    ASSUME TidyDirs, Types, PlacesSound, MovesSound, DiskSound, LinkFree, [Next]_vars
    PROVE  MovesSound' /\ DiskSound'
<1>1. CASE ExpandNext \/ Expanded \/ VisitNext \/ UnclashNext \/ Mapped
    <2>1. pc \in {"expand", "map"} /\ UNCHANGED <<fs, fs0, moves>>
        BY <1>1 DEF ExpandNext, Expanded, VisitNext, UnclashNext, Mapped
    <2>2. fs' = fs0' /\ moves' = {}
        BY <2>1 DEF Types, Fresh
    <2>3. \A p \in DOMAIN fs' \cup DOMAIN fs0' : Untouched(p)'
        BY <2>2 DEF Untouched
    <2> QED BY <2>2, <2>3 DEF MovesSound, DiskSound
<1>2. CASE StageNext
    <2>1. /\ Disk(fs') /\ NoNewLink(fs, fs') /\ MovesSound'
          /\ \A p \in Path : \/ SameAt(fs, fs', p)
                             \/ Written(p)
                             \/ p \notin DOMAIN fs /\ IsDir(fs', p) /\ Comp(p)
        BY <1>2, StageWrites
    <2>2. pc # "done" /\ UNCHANGED <<pm, options, fs0>>
        BY <1>2 DEF StageNext
    <2> QED BY <2>1, <2>2, DiskStep
<1>3. CASE RelocateNext
    <2>1. /\ Disk(fs') /\ NoNewLink(fs, fs') /\ MovesSound'
          /\ pc = "stage" /\ UNCHANGED <<pm, options, fs0>>
          /\ \A p \in Path : SameAt(fs, fs', p) \/ Written(p) \/ Given(p)
        BY <1>3, RelocateWrites
    <2> QED BY <2>1, DiskStep
<1>4. CASE AdjustLocations
    <2>1. /\ pc = "stage" /\ pc' \in {"clean", "failed"} /\ moves' = {}
          /\ UNCHANGED <<fs, fs0, pm, options>>
        BY <1>4 DEF AdjustLocations
    <2> QED BY <2>1 DEF MovesSound, DiskSound, Written, Given, Untouched
<1>5. CASE CleanIntermediate
    <2> DEFINE D == {q \in DOMAIN fs : \A d \in ToClean : ~IsPrefix(d, q)}
    <2>1. /\ pc = "clean" /\ pc' = "done" /\ (fs' = fs \/ fs' = [p \in D |-> fs[p]])
          /\ UNCHANGED <<fs0, moves>>
        BY <1>5 DEF CleanIntermediate
    <2>2. moves' = {}
        BY <2>1 DEF MovesSound
    <2>3. \A p \in DOMAIN fs' : p \in DOMAIN fs /\ fs'[p] = fs[p]
        BY <2>1
    <2> QED BY <2>1, <2>2, <2>3 DEF MovesSound, DiskSound
<1>6. CASE UNCHANGED vars
    BY <1>6 DEF vars, MovesSound, DiskSound, Written, Given, Untouched
<1> QED BY <1>1, <1>2, <1>3, <1>4, <1>5, <1>6 DEF Next

LEMMA OutputsInit == ASSUME TidyDirs PROVE Init => IInv
<1>1. Init => fs = fs0 /\ moves = {}
    BY DEF Init
<1> QED BY <1>1, InitTypes, InitPlaces, InitTargets, FreshSound DEF IInv, Types

LEMMA OutputsStep == ASSUME TidyDirs PROVE IInv /\ [Next]_vars => IInv'
<1> SUFFICES ASSUME IInv, [Next]_vars PROVE IInv'
    OBVIOUS
<1>1. Types /\ PlacesSound /\ TargetsSound
    BY DEF IInv, Types
<1>2. Types' /\ PlacesSound' /\ TargetsSound'
    BY <1>1, StepTypes, StepPlaces, StepTargets
<1>3. ASSUME LinkFree' PROVE MovesSound' /\ DiskSound'
    <2>1. LinkFree
        BY <1>1, <1>3, LinkFreeBefore
    <2>2. MovesSound /\ DiskSound
        BY <2>1 DEF IInv
    <2> QED BY <1>1, <2>1, <2>2, StepDisk
<1> QED BY <1>2, <1>3 DEF IInv, Types

\* At every moment of the staging each path of the disk is as it was, or at or
\* below the target of an output, or was given up by a move out of a directory
\* a job wrote to; no link appears, and what _relocate has still to do is for
\* the entry at hand.
THEOREM OutputsInvariance == ASSUME TidyDirs PROVE Spec => []IInv
    BY OutputsInit, OutputsStep, PTL DEF Spec

(***************************************************************************)
(* What follows from the invariant.                                        *)
(***************************************************************************)


\* The slash at its end makes the cache's name begin only what is in the cache.
LEMMA CacheStarts ==
    ASSUME NEW p \in Path
    PROVE  /\ StartsWith(p, CacheArg) => IsPrefix(CacheDir, p)
           /\ IsPrefix(CacheDir, p) /\ ~IsPrefix(p, CacheDir) => StartsWith(p, CacheArg)
<1>1. /\ CacheDir \in Seq(Name) /\ p \in Seq(Name) /\ CacheDir \in Path
      /\ Len(CacheDir) \in Nat /\ Len(p) \in Nat /\ Len(p) > 0
    BY PathFacts
<1>2. /\ CacheArg \in Path /\ Len(CacheArg) = Len(CacheDir) + 1
      /\ \A i \in 1..Len(CacheDir) : CacheArg[i] = CacheDir[i]
      /\ CacheArg[Len(CacheDir) + 1] = <<>>
    <2>1. <<>> \in Name
        BY DEF Name
    <2> QED BY <1>1, <2>1, PathFacts DEF CacheArg
<1>3. IsPrefix(CacheDir, p) <=> /\ Len(CacheDir) <= Len(p)
                                /\ \A i \in 1..Len(CacheDir) : CacheDir[i] = p[i]
    BY <1>1, PrefixByPlaces
<1>4. IsPrefix(CacheDir, p) /\ Len(p) <= Len(CacheDir) => IsPrefix(p, CacheDir)
    BY <1>1, PrefixOrder
<1>5. StartsWith(p, CacheArg) <=>
          /\ Len(CacheArg) <= Len(p)
          /\ \A i \in 1..(Len(CacheArg) - 1) : CacheArg[i] = p[i]
          /\ IsPrefix(CacheArg[Len(CacheArg)], p[Len(CacheArg)])
    BY <1>2, StartsWithByPlaces
<1>6. ASSUME StartsWith(p, CacheArg) PROVE IsPrefix(CacheDir, p)
    BY <1>1, <1>2, <1>3, <1>5, <1>6
<1>7. ASSUME IsPrefix(CacheDir, p), ~IsPrefix(p, CacheDir) PROVE StartsWith(p, CacheArg)
    <2>1. Len(CacheDir) < Len(p)
        BY <1>1, <1>4, <1>7
    <2>2. p[Len(CacheDir) + 1] \in Name
        BY <1>1, <2>1
    <2>3. IsPrefix(<<>>, p[Len(CacheDir) + 1])
        BY <2>2, PrefixEmpty DEF Name
    <2> QED BY <1>1, <1>2, <1>3, <1>5, <1>7, <2>1, <2>3
<1> QED BY <1>6, <1>7

PathsKept == \A p \in DOMAIN fs :
            \/ p \in DOMAIN fs' /\ fs'[p] = fs[p]
            \/ \E e \in Range(pm) : IsPrefix(e.target, p)
            \/ /\ \E d \in OutputDirs : IsPrefix(d, p)
               /\ options.action = "move" \/ pc = "clean"
               /\ options.cached => ~IsPrefix(CacheDir, p)

LEMMA CleanKeeps ==
    ASSUME TidyDirs, NEW p \in Path, NEW d \in ToClean, IsPrefix(d, p), options.cached
    PROVE  ~IsPrefix(CacheDir, p)
<1> SUFFICES ASSUME IsPrefix(CacheDir, p) PROVE FALSE
    OBVIOUS
<1>1. d \in OutputDirs /\ d \in Path /\ ~StartsWith(d, CacheArg) /\ ~IsPrefix(d, CacheDir)
    BY PathFacts DEF ToClean, TidyDirs
<1>2. IsPrefix(CacheDir, d)
    BY <1>1, PathFacts, Comparable
<1> QED BY <1>1, <1>2, CacheStarts

\* The steps write where they may.
LEMMA StepKeeps ==
    ASSUME TidyDirs, IInv, LinkFree, [Next]_vars PROVE PathsKept
<1> SUFFICES ASSUME NEW p \in DOMAIN fs, ~(p \in DOMAIN fs' /\ fs'[p] = fs[p])
             PROVE  \/ \E e \in Range(pm) : IsPrefix(e.target, p)
                    \/ /\ \E d \in OutputDirs : IsPrefix(d, p)
                       /\ options.action = "move" \/ pc = "clean"
                       /\ options.cached => ~IsPrefix(CacheDir, p)
    BY DEF PathsKept
<1>1. Types /\ PlacesSound /\ MovesSound /\ DiskSound /\ p \in Path
      /\ (options.action = "move" => ~options.cached)
    BY DEF IInv, Types, TypeOK
<1>2. ~SameAt(fs, fs', p)
    BY DEF SameAt
<1>3. Written(p) => \E e \in Range(pm) : IsPrefix(e.target, p)
    BY DEF Written
<1>4. Given(p) => /\ \E d \in OutputDirs : IsPrefix(d, p)
                  /\ options.action = "move" /\ ~options.cached
    BY <1>1 DEF Given
<1>5. CASE StageNext
    BY <1>1, <1>2, <1>3, <1>5, StageWrites
<1>6. CASE RelocateNext
    BY <1>1, <1>2, <1>3, <1>4, <1>6, RelocateWrites
<1>7. CASE CleanIntermediate
    <2> DEFINE D == {q \in DOMAIN fs : \A d \in ToClean : ~IsPrefix(d, q)}
    <2>1. pc = "clean" /\ (fs' = fs \/ fs' = [q \in D |-> fs[q]])
        BY <1>7 DEF CleanIntermediate
    <2>2. p \notin D
        BY <2>1
    <2>3. PICK d \in ToClean : IsPrefix(d, p)
        BY <2>2
    <2>4. d \in OutputDirs
        BY <2>3 DEF ToClean
    <2>5. options.cached => ~IsPrefix(CacheDir, p)
        BY <1>1, <2>3, CleanKeeps
    <2> QED BY <2>1, <2>3, <2>4, <2>5
<1>8. fs' # fs
    OBVIOUS
<1> QED BY <1>5, <1>6, <1>7, <1>8 DEF Next, vars, ExpandNext, Expanded, VisitNext,
               UnclashNext, Mapped, AdjustLocations

\* "We're not allowed to delete it": outside of the destination a path changes
\* only in a directory a job wrote to, by a move or by the clean-up at the end,
\* and never in the cache; in the destination only at or below the target of an
\* output.  A link that is moved may lead a later merge elsewhere, hence the
\* hypothesis.
THEOREM OthersKeptHolds == ASSUME TidyDirs PROVE Spec /\ []LinkFree => OthersKept
<1>1. IInv /\ LinkFree /\ [Next]_vars => [PathsKept]_vars
    BY StepKeeps
<1>2. Spec => []IInv
    BY OutputsInvariance
<1>3. OthersKept <=> [][PathsKept]_vars
    BY DEF OthersKept, PathsKept
<1> QED BY <1>1, <1>2, <1>3, PTL DEF Spec

\* A directory a job wrote to is as it was, but for what was moved out of it.
LEMMA DirsKept ==
    ASSUME TidyDirs, Types, PlacesSound, DiskSound, pc # "done",
           NEW d \in OutputDirs, NEW p \in Path, IsPrefix(d, p)
    PROVE  SameAt(fs, fs0, p) \/ Given(p)
<1>1. d \in Path /\ pm \in Seq(Entry)
    BY PathFacts DEF Types, TypeOK, Entry
<1>2. ~Comp(p)
    <2>1. StartsWith(p, d)
        BY <1>1, StartsWithPrefix
    <2> QED BY <2>1, DestApart DEF Comp
<1>3. ~Written(p)
    <2> SUFFICES ASSUME NEW e \in Range(pm), IsPrefix(e.target, p) PROVE FALSE
        BY DEF Written
    <2>1. e.target \in Path /\ IsPrefix(Dest, e.target) /\ Dest \in Path
        <3>1. e \in Entry
            BY <1>1 DEF Range
        <3> QED BY <3>1, PathFacts DEF PlacesSound, Entry
    <2>2. IsPrefix(Dest, p)
        BY <2>1, PathOrder
    <2> QED BY <1>2, <2>2 DEF Comp
<1>4. CASE p \in DOMAIN fs \cup DOMAIN fs0
    BY <1>2, <1>3, <1>4 DEF DiskSound, Untouched, SameAt, Comp
<1>5. CASE p \notin DOMAIN fs \cup DOMAIN fs0
    BY <1>5 DEF SameAt
<1> QED BY <1>4, <1>5

\* What the clean-up takes away, and what it leaves.
LEMMA CleanStep == ASSUME TidyDirs, IInv, CleanIntermediate PROVE CleanedUp'
<1> DEFINE D == {q \in DOMAIN fs : \A c \in ToClean : ~IsPrefix(c, q)}
<1>1. /\ pc = "clean" /\ UNCHANGED <<options, fs0>>
      /\ options.rm => fs' = [q \in D |-> fs[q]]
    BY DEF CleanIntermediate
<1>2. /\ Types /\ PlacesSound /\ Disk(fs) /\ Disk(fs0)
      /\ options.cached => DiskSound /\ options.action # "move"
    <2>1. Types /\ PlacesSound /\ (options.action = "move" => ~options.cached)
        BY DEF IInv, Types, TypeOK
    <2>2. options.cached => LinkFree
        BY <2>1 DEF LinkFree
    <2> QED BY <2>1, <2>2, DisksAreDisks DEF IInv, Types, TypeOK, Disk, Given
<1> SUFFICES ASSUME options.rm, NEW d \in OutputDirs
             PROVE  IF options.cached /\ IsPrefix(CacheDir, d)
                    THEN [p \in At(fs', d) |-> fs'[p]] = [p \in At(fs0, d) |-> fs0[p]]
                    ELSE At(fs', d) = {}
    BY <1>1 DEF CleanedUp
<1>3. fs' = [q \in D |-> fs[q]] /\ d \in Path /\ CacheDir \in Path
    BY <1>1, PathFacts
<1>4. ASSUME options.cached, IsPrefix(CacheDir, d)
      PROVE  [p \in At(fs', d) |-> fs'[p]] = [p \in At(fs0, d) |-> fs0[p]]
    <2>1. ASSUME NEW p \in Path, IsPrefix(d, p) PROVE SameAt(fs', fs0, p)
        <3>1. SameAt(fs, fs0, p)
            BY <1>1, <1>2, <1>4, <2>1, DirsKept DEF Given
        <3>2. IsPrefix(CacheDir, p)
            BY <1>3, <1>4, <2>1, PathOrder
        <3>3. \A c \in ToClean : ~IsPrefix(c, p)
            BY <1>4, <3>2, CleanKeeps
        <3>4. p \in DOMAIN fs' <=> p \in DOMAIN fs
            BY <1>3, <3>3
        <3> QED BY <1>3, <3>1, <3>4 DEF SameAt
    <2>2. DOMAIN fs' \subseteq Path /\ DOMAIN fs0 \subseteq Path
        BY <1>2, <1>3 DEF Disk
    <2>3. At(fs', d) = At(fs0, d)
        BY <2>1, <2>2 DEF At, SameAt
    <2>4. \A p \in At(fs', d) : fs'[p] = fs0[p]
        BY <2>1, <2>2 DEF At, SameAt
    <2> QED BY <2>3, <2>4
<1>5. ASSUME ~(options.cached /\ IsPrefix(CacheDir, d)) PROVE At(fs', d) = {}
    <2>1. d \in ToClean
        BY <1>3, <1>5, CacheStarts DEF ToClean
    <2> QED BY <1>3, <2>1 DEF At
<1> QED BY <1>4, <1>5

\* When the run has ended with --rm-tmpdir nothing is left of the directories
\* the jobs wrote to, but for those of the cache, which are as they were.
THEOREM CleanedUpHolds == ASSUME TidyDirs PROVE Spec => []CleanedUp
<1>1. Init => CleanedUp
    BY DEF Init, CleanedUp
<1>2. ASSUME IInv, CleanedUp, [Next]_vars PROVE CleanedUp'
    <2>1. CASE CleanIntermediate
        BY <1>2, <2>1, CleanStep
    <2>2. CASE UNCHANGED vars
        BY <1>2, <2>2 DEF vars, CleanedUp
    <2>3. CASE RelocateNext
        <3>1. pc' \in {"stage", "failed"}
            BY <1>2, <2>3 DEF RelocateNext
        <3> QED BY <3>1 DEF CleanedUp
    <2>4. CASE Next /\ ~CleanIntermediate /\ ~RelocateNext
        <3>1. pc' # "done"
            BY <2>4 DEF Next, ExpandNext, Expanded, VisitNext, UnclashNext, Mapped, StageNext,
                        AdjustLocations
        <3> QED BY <3>1 DEF CleanedUp
    <2> QED BY <1>2, <2>1, <2>2, <2>3, <2>4
<1>3. Spec => []IInv
    BY OutputsInvariance
<1> QED BY <1>1, <1>2, <1>3, PTL DEF Spec

\* Where no link is, none appears.
LEMMA StaysReal ==
    ASSUME DiskSound, NEW p, Links(fs0, p) = {} PROVE Links(fs, p) = {}
    BY DEF DiskSound, Links, Exists

\* A file that nothing is put over reads as it did.
LEMMA ReadsSame ==
    ASSUME Types, DiskSound, pc # "done", NEW p \in Path, Links(fs0, p) = {},
           ~Written(p), ~Given(p)
    PROVE  Text(fs, p) = Text(fs0, p)
<1>1. RealPath(fs, p) = p /\ RealPath(fs0, p) = p
    BY StaysReal, RealPathOfReal
<1>2. IsFile(fs, p) <=> IsFile(fs0, p)
    BY DEF DiskSound, Untouched, IsFile, IsDir, Exists
<1>3. IsFile(fs, p) => fs[p] = fs0[p]
    BY DEF DiskSound, Untouched, IsFile, IsDir, Exists
<1> QED BY <1>1, <1>2, <1>3 DEF Text

\* Outputs that are copied are not lost, whenever the staging stops: each file
\* is where it was, with what the tool wrote.
THEOREM NothingLostCopied ==
    ASSUME TidyDirs PROVE Spec => [](options.action # "move" => NothingLost)
<1>1. ASSUME IInv, options.action # "move" PROVE NothingLost
    <2>1. Types /\ PlacesSound /\ DiskSound /\ pm \in Seq(Entry)
        BY <1>1 DEF IInv, Types, TypeOK, LinkFree, Entry
    <2> SUFFICES ASSUME pc \in {"stage", "clean", "failed"}, Apart,
                        NEW e \in Range(pm), e.type = "File"
                 PROVE  Text(fs, e.resolved) = Text(fs0, e.resolved)
        BY DEF NothingLost
    <2>2. e.resolved \in Path /\ Links(fs0, e.resolved) = {}
        <3>1. e \in Entry
            BY <2>1 DEF Range
        <3> QED BY <2>1, <3>1 DEF PlacesSound, Entry
    <2>3. ~Written(e.resolved)
        BY DEF Apart, Written, Range
    <2>4. ~Given(e.resolved)
        BY <1>1 DEF Given
    <2> QED BY <2>1, <2>2, <2>3, <2>4, ReadsSame
<1>2. Spec => []IInv
    BY OutputsInvariance
<1> QED BY <1>1, <1>2, PTL
=============================================================================
