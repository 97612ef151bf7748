------------------------- MODULE CachePersist_proofs -------------------------
(***************************************************************************)
(* Proofs about the cache persistence.  First, what the pure functions of  *)
(* CacheLog do, for all logs, batches and segments of any size: coalescing *)
(* a batch before it is written is invisible to a later recovery, and the  *)
(* segments a rotation drops hold nothing the snapshot does not cover.     *)
(* Then the inductive invariant IInv of the protocol between the data      *)
(* plane, the actor, the snapshot thread and the disk, with every I/O      *)
(* failure, a crash between any two steps and policy swaps that change     *)
(* entries without an event (undone), and what follows from it.            *)
(* Next, DInv: where on disk everything promised is, as long as no append, *)
(* no sync and no first manifest fails, and that a restart finds it.       *)
(* Last, SInv: how a shutdown nothing disturbs gets the cache to disk.     *)
(***************************************************************************)
EXTENDS CachePersist, FiniteSetTheorems, WellFoundedInduction, TLAPS

-----------------------------------------------------------------------------
(* Smallest and largest numbers *)

\* Every non-empty set of natural numbers has a smallest element.
LEMMA SmallestNumber ==
    ASSUME NEW T \in SUBSET Nat, T # {}
    PROVE  \E m \in T : \A n \in T : m <= n
<1> DEFINE R == OpToRel(<, Nat)
<1>1. IsWellFoundedOn(R, Nat)
  BY NatLessThanWellFounded
<1>2. PICK m \in T : \A n \in T : ~ (<<n, m>> \in R)
  BY <1>1, WFMin
<1>3. \A n \in T : n < m => <<n, m>> \in R
  BY DEF OpToRel
<1>4. \A n \in T : ~ (n < m)
  BY <1>2, <1>3
<1> QED
  BY <1>4

\* A finite set of natural numbers has an upper bound.
LEMMA FiniteIsBounded ==
    ASSUME NEW S \in SUBSET Nat, IsFiniteSet(S)
    PROVE  \E b \in Nat : \A s \in S : s <= b
<1> DEFINE Bounded(T) == \E b \in Nat : \A s \in T : s <= b
           Bad == {Cardinality(T) : T \in {U \in SUBSET S : ~Bounded(U)}}
<1>1. \A T \in SUBSET S : IsFiniteSet(T) /\ Cardinality(T) \in Nat
  BY FS_Subset, FS_CardinalityType
<1> SUFFICES ASSUME ~Bounded(S) PROVE FALSE
  OBVIOUS
<1>2. Bad \in SUBSET Nat /\ Bad # {}
  BY <1>1
<1>3. PICK n \in Bad : \A c \in Bad : n <= c
  BY <1>2, SmallestNumber
<1>4. PICK T \in SUBSET S : ~Bounded(T) /\ Cardinality(T) = n
  BY <1>3
<1>5. T # {}
  BY <1>4
<1>6. PICK x \in T : TRUE
  BY <1>5
<1>7. Cardinality(T \ {x}) = n - 1 /\ n \in Nat
  BY <1>1, <1>4, <1>6, FS_RemoveElement
<1>8. Bounded(T \ {x})
  <2>1. T \ {x} \in SUBSET S
    OBVIOUS
  <2>2. ~Bounded(T \ {x}) => n - 1 \in Bad
    BY <2>1, <1>7
  <2> QED
    BY <2>2, <1>3, <1>7
<1>9. PICK b \in Nat : \A s \in T \ {x} : s <= b
  BY <1>8
<1>10. b + x \in Nat /\ \A s \in T : s <= b + x
  <2>1. x \in Nat
    BY <1>6
  <2> QED
    BY <2>1, <1>9
<1>11. Bounded(T)
  BY <1>10
<1> QED
  BY <1>11, <1>4

\* Largest is what its name says.
LEMMA LargestIs ==
    ASSUME NEW S \in SUBSET Nat, IsFiniteSet(S)
    PROVE  /\ Largest(S) \in S \cup {0}
           /\ Largest(S) \in Nat
           /\ \A s \in S : s <= Largest(S)
<1> DEFINE Bounds == {b \in Nat : \A s \in S : s <= b}
<1>1. PICK m \in Bounds : \A b \in Bounds : m <= b
  BY FiniteIsBounded, SmallestNumber
<1>2. m \in S \cup {0}
  <2> SUFFICES ASSUME m \notin S, m # 0 PROVE FALSE
    OBVIOUS
  <2>1. m - 1 \in Bounds
    BY <1>1
  <2> QED
    BY <2>1, <1>1
<1>3. m \in S \cup {0} /\ \A s \in S : m >= s
  BY <1>1, <1>2
<1>4. Largest(S) \in S \cup {0} /\ \A s \in S : Largest(S) >= s
  BY <1>3 DEF Largest
<1>5. Largest(S) \in Nat
  <2>1. \A x \in S \cup {0} : x \in Nat
    OBVIOUS
  <2> QED
    BY <2>1, <1>4
<1> QED
  BY <1>4, <1>5

\* The element of a set that is above all others is the largest.
LEMMA LargestUnique ==
    ASSUME NEW S \in SUBSET Nat, IsFiniteSet(S), NEW m \in S, \A s \in S : s <= m
    PROVE  Largest(S) = m
<1>1. m <= Largest(S) /\ Largest(S) \in S \cup {0} /\ Largest(S) \in Nat
  BY LargestIs
<1> QED
  BY <1>1

\* The largest of the numbers above a bound.
LEMMA LargestAbove ==
    ASSUME NEW T \in SUBSET Nat, IsFiniteSet(T), NEW S \in Nat
    PROVE  Largest({s \in T : s > S}) = IF Largest(T) > S THEN Largest(T) ELSE 0
<1> DEFINE U == {s \in T : s > S}
<1>1. /\ Largest(T) \in T \cup {0} /\ Largest(T) \in Nat
      /\ \A s \in T : s <= Largest(T)
  BY LargestIs
<1>2. U \in SUBSET Nat /\ IsFiniteSet(U)
  BY FS_Subset
<1>3. Largest(U) \in U \cup {0}
  BY <1>2, LargestIs
<1>4. CASE Largest(T) > S
  <2>1. Largest(T) \in U /\ \A s \in U : s <= Largest(T)
    BY <1>1, <1>4
  <2> QED
    BY <2>1, <1>2, <1>4, LargestUnique
<1>5. CASE ~(Largest(T) > S)
  <2>1. U = {}
    <3> SUFFICES ASSUME NEW s \in T, s > S PROVE FALSE
      OBVIOUS
    <3>1. s \in Nat /\ s <= Largest(T) /\ Largest(T) \in Nat
      BY <1>1
    <3> QED
      BY <3>1, <1>5
  <2>2. Largest(U) = 0
    BY <2>1, <1>3
  <2> QED
    BY <2>2, <1>5
<1> QED
  BY <1>4, <1>5

-----------------------------------------------------------------------------
(* Coalescing *)

\* A log of events in which only the holes have no key.
WellFormed(lg) ==
    /\ lg \in Seq(Events)
    /\ \A s \in DOMAIN lg : lg[s].op = "hole" => lg[s].key = NoKey

\* Among the records R of earlier batches and a batch B, the last one that decides the
\* fate of a key is the same whether the batch is coalesced or not.
LEMMA SameLastEvent ==
    ASSUME NEW lg, WellFormed(lg), NEW k \in Keys,
           NEW R \in SUBSET DOMAIN lg, NEW B \in SUBSET DOMAIN lg,
           IsFiniteSet(R), IsFiniteSet(B)
    PROVE  Largest({s \in R \cup Kept(lg, B) : Affects(lg, s, k)})
             = Largest({s \in R \cup B : Affects(lg, s, k)})
<1> DEFINE All == {s \in R \cup B : Affects(lg, s, k)}
           Some == {s \in R \cup Kept(lg, B) : Affects(lg, s, k)}
           last == Largest(All)
           lastClear == Largest({s \in B : IsClear(lg, s)})
<1>1. DOMAIN lg \in SUBSET Nat
  BY DEF WellFormed
<1>2. Kept(lg, B) \in SUBSET B
  BY DEF Kept
<1>3. All \in SUBSET Nat /\ IsFiniteSet(All) /\ Some \in SUBSET All /\ IsFiniteSet(Some)
  <2>1. IsFiniteSet(R \cup B)
    BY FS_Union
  <2> QED
    BY <1>1, <1>2, <2>1, FS_Subset
<1>4. last \in All \cup {0} /\ last \in Nat /\ \A s \in All : s <= last
  BY <1>3, LargestIs
<1>5. CASE All = {}
  BY <1>5, <1>3
<1>6. CASE All # {}
  <2>1. last \in All
    <3>1. PICK s \in All : TRUE
      BY <1>6
    <3>2. s \in Nat /\ s <= last
      BY <1>3, <1>4
    <3> QED
      BY <3>2, <1>4
  <2>2. last \in B => last \in Kept(lg, B)
    <3> SUFFICES ASSUME last \in B, ~IsClear(lg, last)
                 PROVE  last \in Kept(lg, B)
      BY DEF Kept
    <3>1. lg[last].key = k
      BY <2>1 DEF Affects
    <3>2. ASSUME NEW t \in B, ~IsClear(lg, t), lg[t].key = k
          PROVE  t <= last
      <4>1. lg[t] \in Events /\ lg[t].op # "hole" /\ lg[t].op # "clear"
        BY <3>2, NoKeyAssumption DEF WellFormed, IsClear
      <4>2. t \in All
        BY <4>1, <3>2 DEF Affects, Events, Ops
      <4> QED
        BY <4>2, <1>4
    <3>3. last > lastClear
      <4>1. {s \in B : IsClear(lg, s)} \in SUBSET All
        BY DEF Affects
      <4>2. lastClear \in {s \in B : IsClear(lg, s)} \cup {0} /\ lastClear \in Nat
        BY <4>1, <1>3, FS_Subset, LargestIs
      <4>3. last # 0
        BY <2>1, <1>3 DEF WellFormed
      <4>4. CASE lastClear = 0
        BY <4>3, <4>4, <1>4
      <4>5. CASE lastClear # 0
        <5>1. lastClear \in All /\ IsClear(lg, lastClear)
          BY <4>5, <4>2, <4>1
        <5>2. lastClear <= last /\ lastClear # last
          BY <5>1, <1>4
        <5> QED
          BY <5>2, <4>2, <1>4
      <4> QED
        BY <4>4, <4>5
    <3> QED
      BY <3>1, <3>2, <3>3 DEF Kept
  <2>3. last \in Some
    BY <2>1, <2>2
  <2>4. Largest(Some) = last
    BY <2>3, <1>3, <1>4, LargestUnique
  <2> QED
    BY <2>4
<1> QED
  BY <1>5, <1>6

\* Coalescing a batch before it is appended never changes what recovery rebuilds, for any
\* snapshot number, any snapshot entry and any records written before or after.
THEOREM CoalescingIsInvisible ==
    ASSUME NEW lg, WellFormed(lg), NEW k \in Keys, NEW e, NEW S \in Nat,
           NEW R \in SUBSET DOMAIN lg, NEW B \in SUBSET DOMAIN lg,
           IsFiniteSet(R), IsFiniteSet(B)
    PROVE  ReplayKey(lg, e, {s \in R \cup Kept(lg, B) : s > S}, k)
             = ReplayKey(lg, e, {s \in R \cup B : s > S}, k)
<1> DEFINE Final(T) == Largest({s \in T : Affects(lg, s, k)})
<1>1. ASSUME NEW T \in SUBSET DOMAIN lg, IsFiniteSet(T)
      PROVE  Final({s \in T : s > S}) = IF Final(T) > S THEN Final(T) ELSE 0
  <2> DEFINE U == {s \in T : Affects(lg, s, k)}
  <2>1. U \in SUBSET Nat /\ IsFiniteSet(U)
    BY <1>1, FS_Subset DEF WellFormed
  <2>2. {s \in {t \in T : t > S} : Affects(lg, s, k)} = {s \in U : s > S}
    OBVIOUS
  <2> QED
    BY <2>1, <2>2, LargestAbove
<1>2. /\ R \cup Kept(lg, B) \in SUBSET DOMAIN lg /\ IsFiniteSet(R \cup Kept(lg, B))
      /\ R \cup B \in SUBSET DOMAIN lg /\ IsFiniteSet(R \cup B)
  <2>1. Kept(lg, B) \in SUBSET B
    BY DEF Kept
  <2> QED
    BY <2>1, FS_Subset, FS_Union
<1>3. Final(R \cup Kept(lg, B)) = Final(R \cup B)
  BY SameLastEvent
<1>4. Final({s \in R \cup Kept(lg, B) : s > S}) = Final({s \in R \cup B : s > S})
  BY <1>1, <1>2, <1>3
<1> QED
  BY <1>4 DEF ReplayKey

-----------------------------------------------------------------------------
(* Rotation *)

\* What KeepFrom returns: everything before it is covered by the snapshot, and it is the
\* last segment or the first with a successor that is not.
LEMMA KeepFromIs ==
    ASSUME NEW base \in Seq(Nat), base # <<>>, NEW S \in Nat
    PROVE  /\ KeepFrom(base, S) \in 1..Len(base)
           /\ KeepFrom(base, S) = Len(base) \/ base[KeepFrom(base, S) + 1] > S
           /\ \A j \in 1..(KeepFrom(base, S) - 1) : base[j + 1] <= S
<1> DEFINE Ends == {i \in 1..Len(base) : i = Len(base) \/ base[i + 1] > S}
<1>1. Ends \in SUBSET Nat /\ Len(base) \in Ends
  OBVIOUS
<1>2. PICK i \in Ends : \A j \in Ends : i <= j
  BY <1>1, SmallestNumber
<1>3. \A j \in 1..(i - 1) : base[j + 1] <= S
  <2> SUFFICES ASSUME NEW j \in 1..(i - 1), ~(base[j + 1] <= S) PROVE FALSE
    OBVIOUS
  <2>1. j \in 1..Len(base) /\ j + 1 \in 1..Len(base) /\ j < i
    BY <1>2
  <2>2. base[j + 1] \in Nat
    BY <2>1
  <2>3. j \in Ends
    BY <2>1, <2>2
  <2> QED
    BY <2>1, <2>3, <1>2
<1>4. \E n \in 1..Len(base) :
         /\ n = Len(base) \/ base[n + 1] > S
         /\ \A j \in 1..(n - 1) : base[j + 1] <= S
  BY <1>2, <1>3
<1> QED
  BY <1>4 DEF KeepFrom

\* A rotation loses no record the snapshot does not cover: when the records of a segment
\* are below the bases of the segments after it, a record above the snapshot number is in
\* a segment that KeptSegments keeps.
THEOREM RotationKeepsRecords ==
    ASSUME NEW base \in Seq(Nat), base # <<>>, NEW S \in Nat,
           NEW recs, \A i \in 1..Len(base) : recs[i] \in SUBSET Nat,
           \A i, j \in 1..Len(base) : i < j => \A s \in recs[i] : s < base[j],
           NEW i \in 1..Len(base), NEW s \in recs[i], s > S
    PROVE  base[i] \in ToSet(KeptSegments(base, S))
<1> DEFINE from == KeepFrom(base, S)
<1>1. from \in 1..Len(base) /\ \A j \in 1..(from - 1) : base[j + 1] <= S
  BY KeepFromIs
<1>2. i >= from
  <2> SUFFICES ASSUME i < from PROVE FALSE
    BY <1>1
  <2>1. i \in 1..(from - 1) /\ i + 1 \in 1..Len(base)
    BY <1>1
  <2>2. base[i + 1] \in Nat /\ base[i + 1] <= S /\ s < base[i + 1] /\ s \in Nat
    BY <1>1, <2>1
  <2> QED
    BY <2>2
<1>3. KeptSegments(base, S) = SubSeq(base, from, Len(base))
  BY DEF KeptSegments
<1> HIDE DEF from
<1>4. /\ i - from + 1 \in DOMAIN SubSeq(base, from, Len(base))
      /\ SubSeq(base, from, Len(base))[i - from + 1] = base[i]
  BY <1>1, <1>2
<1> QED
  BY <1>3, <1>4 DEF ToSet

-----------------------------------------------------------------------------
(* Batches, segment lists and what a recovery reads *)

\* A set of naturals up to n is finite, and Largest is its largest element.
LEMMA LargestBelow ==
    ASSUME NEW n \in Nat, NEW S \in SUBSET (0..n)
    PROVE  /\ IsFiniteSet(S) /\ S \in SUBSET Nat
           /\ Largest(S) \in 0..n /\ Largest(S) \in S \cup {0}
           /\ \A s \in S : s <= Largest(S)
<1>1. IsFiniteSet(S) /\ S \in SUBSET Nat
  <2>1. IsFiniteSet(0..n)
    <3>1. 0 \in Int /\ n \in Int
      OBVIOUS
    <3> QED
      BY <3>1, FS_Interval
  <2>2. S \in SUBSET Nat
    OBVIOUS
  <2> QED
    BY <2>1, <2>2, FS_Subset
<1>2. /\ Largest(S) \in S \cup {0} /\ Largest(S) \in Nat
      /\ \A s \in S : s <= Largest(S)
  BY <1>1, LargestIs
<1> QED
  BY <1>1, <1>2

\* Every finite set of naturals can be listed in increasing order, and Ascending does it.
LEMMA AscendingIs ==
    ASSUME NEW S \in SUBSET Nat, IsFiniteSet(S)
    PROVE  Ascending(S) \in Seq(S) /\ ToSet(Ascending(S)) = S
<1> DEFINE Listed(T) == \E q \in [1..Cardinality(T) -> T] :
                           \A i, j \in DOMAIN q : i < j => q[i] < q[j]
           Bad == {Cardinality(T) : T \in {U \in SUBSET S : ~Listed(U)}}
<1>1. \A T \in SUBSET S : IsFiniteSet(T) /\ Cardinality(T) \in Nat
  BY FS_Subset, FS_CardinalityType
<1>2. Listed(S)
  <2> SUFFICES ASSUME ~Listed(S) PROVE FALSE
    OBVIOUS
  <2>1. Bad \in SUBSET Nat /\ Bad # {}
    BY <1>1
  <2>2. PICK n \in Bad : \A c \in Bad : n <= c
    BY <2>1, SmallestNumber
  <2>3. PICK T \in SUBSET S : ~Listed(T) /\ Cardinality(T) = n
    BY <2>2
  <2>4. n \in Nat /\ IsFiniteSet(T)
    BY <2>1, <1>1
  <2>5. T # {}
    <3> SUFFICES ASSUME T = {} PROVE FALSE
      OBVIOUS
    <3>1. Cardinality(T) = 0
      BY FS_EmptySet
    <3>2. <<>> \in [1..0 -> T] /\ \A i, j \in DOMAIN <<>> : i < j => <<>>[i] < <<>>[j]
      OBVIOUS
    <3> QED
      BY <3>1, <3>2, <2>3
  <2> DEFINE x == Largest(T)
  <2>6. x \in T /\ \A t \in T : t <= x
    <3>1. PICK t \in T : TRUE
      BY <2>5
    <3>2. x \in T \cup {0} /\ \A s \in T : s <= x
      BY <2>4, LargestIs
    <3>3. t \in Nat /\ t <= x
      BY <3>1, <3>2
    <3> QED
      BY <3>2, <3>3
  <2> HIDE DEF x
  <2>7. Cardinality(T \ {x}) = n - 1 /\ n - 1 \in Nat
    <3>1. Cardinality(T \ {x}) = n - 1
      BY <2>3, <2>4, <2>6, FS_RemoveElement
    <3>2. Cardinality(T \ {x}) \in Nat
      BY <1>1
    <3> QED
      BY <3>1, <3>2
  <2>8. Listed(T \ {x})
    <3>1. ~Listed(T \ {x}) => n - 1 \in Bad
      BY <2>7
    <3>2. n - 1 \notin Bad
      <4>1. ~(n <= n - 1)
        BY <2>4
      <4> QED
        BY <4>1, <2>2
    <3> QED
      BY <3>1, <3>2
  <2>9. PICK q \in [1..(n - 1) -> T \ {x}] : \A i, j \in 1..(n - 1) : i < j => q[i] < q[j]
    <3>1. PICK q \in [1..Cardinality(T \ {x}) -> T \ {x}] :
             \A i, j \in DOMAIN q : i < j => q[i] < q[j]
      BY <2>8
    <3> QED
      BY <3>1, <2>7
  <2> DEFINE p == [i \in 1..n |-> IF i = n THEN x ELSE q[i]]
  <2>10. p \in [1..n -> T]
    <3>1. \A i \in 1..n : i # n => i \in 1..(n - 1)
      BY <2>4
    <3> QED
      BY <3>1, <2>6, <2>9
  <2>11. ASSUME NEW i \in 1..n, NEW j \in 1..n, i < j PROVE p[i] < p[j]
    <3>1. i \in 1..(n - 1) /\ p[i] = q[i] /\ q[i] \in T \ {x}
      BY <2>4, <2>9, <2>11
    <3>2. CASE j = n
      <4>1. p[j] = x /\ q[i] <= x /\ q[i] # x /\ q[i] \in Nat /\ x \in Nat
        BY <3>1, <3>2, <2>6
      <4> QED
        BY <3>1, <4>1
    <3>3. CASE j # n
      <4>1. j \in 1..(n - 1) /\ p[j] = q[j]
        BY <2>4, <3>3
      <4> QED
        BY <3>1, <4>1, <2>9, <2>11
    <3> QED
      BY <3>2, <3>3
  <2>12. Listed(T)
    BY <2>3, <2>10, <2>11
  <2> QED
    BY <2>12, <2>3
<1>3. /\ Ascending(S) \in [1..Cardinality(S) -> S]
      /\ \A i, j \in DOMAIN Ascending(S) : i < j => Ascending(S)[i] < Ascending(S)[j]
  BY <1>2 DEF Ascending
<1> DEFINE q == Ascending(S)
           n == Cardinality(S)
<1>4. n \in Nat /\ q \in [1..n -> S] /\ \A i, j \in 1..n : i < j => q[i] < q[j]
  BY <1>1, <1>3
<1> HIDE DEF q, n
<1>5. q \in Injection(1..n, S)
  <2>1. ASSUME NEW i \in 1..n, NEW j \in 1..n, q[i] = q[j] PROVE i = j
    <3>1. q[i] \in Nat /\ q[j] \in Nat
      BY <1>4
    <3>2. i < j => q[i] < q[j]
      BY <1>4
    <3>3. j < i => q[j] < q[i]
      BY <1>4
    <3> QED
      BY <2>1, <3>1, <3>2, <3>3
  <2> QED
    BY <1>4, <2>1 DEF Injection, IsInjective
<1>6. q \in Surjection(1..n, S)
  <2>1. Cardinality(1..n) = Cardinality(S)
    <3>1. 1 \in Int /\ n \in Int
      BY <1>4
    <3>2. Cardinality(1..n) = IF 1 > n THEN 0 ELSE n - 1 + 1
      BY <3>1, FS_Interval
    <3> QED
      BY <1>4, <3>2 DEF n
  <2> QED
    BY <1>5, <2>1, FS_Injection
<1>7. ToSet(q) = S
  BY <1>4, <1>6 DEF Surjection, ToSet
<1> QED
  BY <1>1, <1>3, <1>7 DEF q

\* What is appended to a segment for a batch is a sequence of events of the batch.
LEMMA CoalesceIs ==
    ASSUME NEW lg, NEW n \in Nat, NEW b \in Seq(Nat), ToSet(b) \in SUBSET (0..n)
    PROVE  /\ Coalesce(lg, b) \in Seq(Nat) /\ ToSet(Coalesce(lg, b)) \subseteq ToSet(b)
           /\ ToSet(Coalesce(lg, b)) = Kept(lg, ToSet(b))
<1>1. Kept(lg, ToSet(b)) \in SUBSET ToSet(b)
  BY DEF Kept
<1>2. Kept(lg, ToSet(b)) \in SUBSET Nat /\ IsFiniteSet(Kept(lg, ToSet(b)))
  BY <1>1, LargestBelow
<1>3. Coalesce(lg, b) \in Seq(Kept(lg, ToSet(b))) /\ ToSet(Coalesce(lg, b)) = Kept(lg, ToSet(b))
  BY <1>2, AscendingIs DEF Coalesce
<1>4. Coalesce(lg, b) \in Seq(Nat)
  BY <1>2, <1>3
<1> QED
  BY <1>1, <1>3, <1>4

\* The elements of a sequence are finitely many.
LEMMA FiniteList ==
    ASSUME NEW T, NEW q \in Seq(T)
    PROVE  IsFiniteSet(ToSet(q))
<1>1. IsFiniteSet(1..Len(q))
  <2>1. 1 \in Int /\ Len(q) \in Int
    OBVIOUS
  <2> QED
    BY <2>1, FS_Interval
<1>2. q \in Surjection(1..Len(q), ToSet(q))
  BY DEF Surjection, ToSet
<1> QED
  BY <1>1, <1>2, FS_Surjection

\* A rotation keeps a non-empty end of the list of segments.
LEMMA KeptIs ==
    ASSUME NEW base \in Seq(Nat), base # <<>>, NEW S \in Nat
    PROVE  \E d \in 0..(Len(base) - 1) :
              /\ KeptSegments(base, S) \in Seq(Nat)
              /\ Len(KeptSegments(base, S)) = Len(base) - d
              /\ \A i \in 1..(Len(base) - d) :
                    KeptSegments(base, S)[i] = base[d + i] /\ d + i \in 1..Len(base)
<1> DEFINE from == KeepFrom(base, S)
<1>1. from \in 1..Len(base)
  BY KeepFromIs
<1>2. KeptSegments(base, S) = SubSeq(base, from, Len(base))
  BY DEF KeptSegments
<1> HIDE DEF from
<1>3. /\ from - 1 \in 0..(Len(base) - 1)
      /\ KeptSegments(base, S) \in Seq(Nat)
      /\ Len(KeptSegments(base, S)) = Len(base) - (from - 1)
      /\ \A i \in 1..(Len(base) - (from - 1)) :
            KeptSegments(base, S)[i] = base[(from - 1) + i] /\ (from - 1) + i \in 1..Len(base)
  BY <1>1, <1>2
<1> QED
  BY <1>3

\* Reading stops at the first segment with a gap, or one past the end.
LEMMA ReadEndIs ==
    ASSUME NEW m, m.segs \in Seq(Nat), NEW segs
    PROVE  /\ ReadEnd(m, segs) \in 1..(Len(m.segs) + 1)
           /\ HasGap(m, segs) => ReadEnd(m, segs) \in 1..(Len(m.segs) - 1)
           /\ ~HasGap(m, segs) => ReadEnd(m, segs) = Len(m.segs) + 1
<1> DEFINE gaps == {i \in 1..(Len(m.segs) - 1) : segs[m.segs[i]].torn}
<1>1. CASE gaps = {}
  BY <1>1 DEF ReadEnd, HasGap
<1>2. CASE gaps # {}
  <2>1. PICK g \in gaps : \A j \in gaps : g <= j
    <3>1. gaps \in SUBSET Nat
      OBVIOUS
    <3> QED
      BY <3>1, <1>2, SmallestNumber
  <2>2. ReadEnd(m, segs) \in gaps
    BY <1>2, <2>1 DEF ReadEnd
  <2> QED
    BY <2>2 DEF HasGap
<1> QED
  BY <1>1, <1>2

-----------------------------------------------------------------------------
(* The inductive invariant *)

\* What the place of the actor says about its state: the first manifest is due exactly while
\* there is none, the active segment is the last one named, and a process that is down keeps
\* nothing in memory.
Control ==
    /\ man.snap = 0 => man = NoManifest
    /\ pc # "down" => (needsInitial <=> man.snap = 0)
    /\ pc \in {"initial", "commit"} => man.snap = 0
    /\ pc \in {"rotate", "rename", "r2", "unlink"} \/ snapper.current => man.snap # 0
    /\ pc = "sync" => wal # 0
    /\ pc \in {"rename", "r2"} => snapper.st = "done"
    /\ pc = "unlink" => wal # 0 /\ man.segs = <<wal>>
    /\ pc # "down" /\ man.snap # 0 =>
          /\ wal \in {0, lastBase}
          /\ lastBase = man.segs[Len(man.segs)]
    /\ pc = "down" =>
          /\ mem = [k \in Keys |-> 0] /\ fresh = [k \in Keys |-> 0]
          /\ ring = <<>> /\ batch = <<>>
          /\ wal = 0 /\ lastBase = 0 /\ durSeq = 0
          /\ snapper = Idle /\ needsInitial = FALSE

\* Every number in memory, in a queue or in a record was issued.
Issued ==
    /\ Current >= 1
    /\ \A k \in Keys : mem[k] <= Current
    /\ \A s \in ToSet(ring) \cup ToSet(batch) : s <= Current
    /\ durSeq <= Current /\ man.seq <= Current
    /\ \A b \in DOMAIN segFile : \A s \in ToSet(segFile[b].recs) : s <= Current

\* What a reload has copied was issued, and so were the events a swap may have undone.
Swapped == \A k \in Keys : fresh[k] <= Current /\ undone[k] <= Current

\* A list of segments that exist, in increasing order, each with records below the bases of
\* the ones after it.
Ordered(segs, files) ==
    /\ ToSet(segs) \subseteq DOMAIN files
    /\ \A i, j \in 1..Len(segs) : i < j => segs[i] < segs[j]
    /\ \A i, j \in 1..Len(segs) : i < j => \A s \in ToSet(files[segs[i]].recs) : s < segs[j]

\* The segments the manifest names and the active one.
Segments ==
    /\ wal # 0 => wal \in DOMAIN segFile
    /\ man.snap # 0 => Len(man.segs) \in 1..MaxSegments
    /\ Ordered(man.segs, segFile)

\* No entry of data was evicted, cleared or replaced by an event up to S, except by an EVICT
\* that a put overtook or by an event that a swap may have undone.
NotStale(lg, data, un, S) ==
    \A k \in Keys : data[k] # 0 =>
        \A s \in (data[k] + 1)..S : Affects(lg, s, k) => lg[s].op = "late" \/ s <= un[k]

\* The content of a snapshot of number S.
Sound(lg, data, un, S) ==
    /\ S \in 1..Len(lg)
    /\ \A k \in Keys : data[k] <= S
    /\ NotStale(lg, data, un, S)

\* The snapshot the manifest names, the one just written and the one about to be named.
Snapshots ==
    /\ man.snap # 0 =>
          man.snap \in DOMAIN snapFile /\ Sound(log, snapFile[man.snap], undone, man.snap)
    /\ snapper.st # "none" => snapper.seq \in 1..Current
    /\ snapper.st = "done" => Sound(log, snapper.data, undone, snapper.seq)
    /\ pc = "r2" => snapper.seq \in DOMAIN snapFile /\ snapFile[snapper.seq] = snapper.data

IInv == TypeOK /\ Control /\ Issued /\ Swapped /\ Segments /\ Snapshots /\ MemoryNotStale

-----------------------------------------------------------------------------
(* The effects shared by several actions *)

\* What a restart reads was issued.
LEMMA ReadIs ==
    ASSUME IInv
    PROVE  /\ ReadRecords(man, segFile) \in SUBSET (0..Current)
           /\ ReadEnd(man, segFile) \in 1..(Len(man.segs) + 1)
           /\ HasGap(man, segFile) => ReadEnd(man, segFile) \in 1..(Len(man.segs) - 1)
           /\ ~HasGap(man, segFile) => ReadEnd(man, segFile) = Len(man.segs) + 1
<1>1. man.segs \in Seq(Nat) /\ Current \in Nat
  BY DEF IInv, TypeOK, Current
<1>2. ASSUME NEW i \in 1..Len(man.segs) PROVE ToSet(segFile[man.segs[i]].recs) \in SUBSET (0..Current)
  <2>1. man.segs[i] \in DOMAIN segFile
    BY <1>1 DEF IInv, Segments, Ordered, ToSet
  <2>2. segFile[man.segs[i]].recs \in Seq(Nat)
    BY <2>1 DEF IInv, TypeOK
  <2>3. \A s \in ToSet(segFile[man.segs[i]].recs) : s \in Nat /\ s <= Current
    BY <2>1, <2>2 DEF IInv, Issued, ToSet
  <2> QED
    BY <2>3, <1>1
<1>3. ReadRecords(man, segFile) \in SUBSET (0..Current)
  BY <1>2 DEF ReadRecords
<1> QED
  BY <1>1, <1>3, ReadEndIs

\* The numbers a recovery sees were issued, and the plan continues above them and above the
\* segments named.
LEMMA PlanIs ==
    ASSUME IInv, man.snap # 0
    PROVE  /\ MaxSeen \in 1..Current /\ man.snap <= MaxSeen /\ man.seq <= MaxSeen
           /\ \A s \in ReadRecords(man, segFile) : s <= MaxSeen
           /\ PlanNext \in Nat /\ PlanNext >= MaxSeen + 1
           /\ HasGap(man, segFile) => \A b \in ToSet(man.segs) : b < PlanNext
<1> DEFINE seen == {man.snap, man.seq} \cup ReadRecords(man, segFile)
                     \cup {snapFile[man.snap][k] : k \in Keys}
<1>1. Current \in Nat /\ man.snap \in Nat /\ man.seq \in Nat /\ man.segs \in Seq(Nat)
  BY DEF IInv, TypeOK, Current
<1>2. man.snap \in 1..Current /\ man.seq \in 0..Current
  BY <1>1 DEF IInv, Snapshots, Sound, Issued, Current
<1>3. \A k \in Keys : snapFile[man.snap][k] \in 0..Current
  <2>1. \A k \in Keys : snapFile[man.snap][k] \in Nat /\ snapFile[man.snap][k] <= man.snap
    BY DEF IInv, TypeOK, Snapshots, Sound
  <2> QED
    BY <2>1, <1>1, <1>2
<1>4. seen \in SUBSET (0..Current)
  BY <1>2, <1>3, ReadIs
<1>5. MaxSeen \in 0..Current /\ \A s \in seen : s <= MaxSeen
  BY <1>1, <1>4, LargestBelow DEF MaxSeen
<1>6. MaxSeen \in 1..Current /\ man.snap <= MaxSeen /\ man.seq <= MaxSeen
  <2>1. man.snap \in seen /\ man.seq \in seen
    OBVIOUS
  <2> HIDE DEF seen
  <2> QED
    BY <2>1, <1>1, <1>2, <1>5
<1>7. /\ Largest(ToSet(man.segs)) \in Nat
      /\ \A b \in ToSet(man.segs) : b \in Nat /\ b <= Largest(ToSet(man.segs))
  <2>1. \A b \in ToSet(man.segs) : b \in Nat
    BY <1>1 DEF ToSet
  <2>2. IsFiniteSet(ToSet(man.segs))
    BY <1>1, FiniteList
  <2> QED
    BY <2>1, <2>2, LargestIs
<1> HIDE DEF seen
<1>8. PlanNext \in Nat /\ PlanNext >= MaxSeen + 1
      /\ (HasGap(man, segFile) => PlanNext >= Largest(ToSet(man.segs)) + 1)
  BY <1>1, <1>6, <1>7 DEF PlanNext, Larger
<1> QED
  BY <1>5, <1>6, <1>7, <1>8 DEF seen

-----------------------------------------------------------------------------
(* Types *)

\* TypeOK in parts.
PlaneType ==
    /\ mem \in [Keys -> Nat] /\ log \in Seq(Events)
    /\ fresh \in [Keys -> Nat] /\ undone \in [Keys -> Nat]
    /\ ring \in Seq(Nat) /\ Len(ring) <= RingCap /\ needsResync \in BOOLEAN /\ snapReq \in BOOLEAN
    /\ deleting \subseteq Keys
ActorType ==
    /\ batch \in Seq(Nat) /\ Len(batch) <= BatchMax /\ wal \in Nat /\ lastBase \in Nat /\ durSeq \in Nat
    /\ needsInitial \in BOOLEAN /\ inflight \in BOOLEAN /\ exiting \in BOOLEAN
    /\ old \in [snap : Nat, segs : Seq(Nat)]
SnapperType ==
    snapper \in [st : {"none", "running", "done", "failed"}, current : BOOLEAN, seq : Nat,
                 data : [Keys -> Nat]]
DiskType ==
    /\ man \in [snap : Nat, segs : Seq(Nat), seq : Nat]
    /\ DOMAIN snapFile \subseteq Nat /\ \A s \in DOMAIN snapFile : snapFile[s] \in [Keys -> Nat]
    /\ DOMAIN segFile \subseteq Nat
    /\ \A b \in DOMAIN segFile : segFile[b] \in [recs : Seq(Nat), dur : Nat, torn : BOOLEAN]
PlaceType == pc \in PCs /\ phase \in Phases
HistoryType ==
    /\ acked \subseteq Nat /\ exitSeq \in Nat /\ spoiled \in BOOLEAN
    /\ crashes \in Nat /\ fails \in Nat /\ swaps \in Nat

LEMMA TypeParts ==
    TypeOK <=> /\ PlaneType /\ ActorType /\ SnapperType /\ DiskType /\ PlaceType /\ HistoryType
BY DEF TypeOK, PlaneType, ActorType, SnapperType, DiskType, PlaceType, HistoryType

\* The places where the actor goes on after a step several others share.
LEMMA AfterIs ==
    ASSUME PlaceType,
           \/ AfterDrain \/ AfterBatch \/ AfterFailedBatch \/ AfterMessage \/ AfterCompaction
           \/ AfterRefusal \/ AfterStart \/ AfterPump
    PROVE  /\ pc' \in {"wait", "take", "decide", "drain", "start", "pump", "final"}
           /\ PlaceType'
BY DEF PlaceType, AfterDrain, AfterBatch, AfterFailedBatch, AfterMessage, AfterCompaction,
       AfterRefusal, AfterStart, AfterPump, Goto, GotoIn, PCs, Phases

\* Parts make up the whole after a step as well.
LEMMA TypePartsNext ==
    ASSUME PlaneType', ActorType', SnapperType', DiskType', PlaceType', HistoryType'
    PROVE  TypeOK'
BY DEF TypeOK, PlaneType, ActorType, SnapperType, DiskType, PlaceType, HistoryType

\* Queueing events: what is in the queue was there or is one of the events.
LEMMA OfferIs ==
    ASSUME TypeOK, NEW e \in Seq(Nat), Offer(e)
    PROVE  /\ ring' \in Seq(Nat) /\ Len(ring') <= RingCap /\ needsResync' \in BOOLEAN
           /\ ToSet(ring') \subseteq ToSet(ring) \cup ToSet(e)
<1> DEFINE room == RingCap - Len(ring)
           n == IF Len(e) <= room THEN Len(e) ELSE room
<1>1. ring \in Seq(Nat) /\ Len(ring) <= RingCap /\ needsResync \in BOOLEAN
  BY DEF TypeOK
<1>2. room \in Nat /\ n \in 0..Len(e) /\ n <= room
  BY <1>1, RingAssumption
<1> HIDE DEF n
<1>3. SubSeq(e, 1, n) \in Seq(Nat) /\ Len(SubSeq(e, 1, n)) = n /\ \A i \in 1..n : SubSeq(e, 1, n)[i] = e[i]
  BY <1>2
<1>4. ring' = ring \o SubSeq(e, 1, n) /\ needsResync' = (needsResync \/ Len(e) > room)
  BY DEF Offer, n
<1>5. ring' \in Seq(Nat) /\ Len(ring') = Len(ring) + n
  BY <1>1, <1>3, <1>4
<1>6. \A i \in 1..Len(ring') : ring'[i] \in ToSet(ring) \cup ToSet(e)
  <2> TAKE i \in 1..Len(ring')
  <2>1. CASE i <= Len(ring)
    BY <2>1, <1>1, <1>3, <1>4, <1>5 DEF ToSet
  <2>2. CASE i > Len(ring)
    <3> DEFINE j == i - Len(ring)
               new == SubSeq(e, 1, n)
    <3>1. j \in 1..n /\ j \in 1..Len(e)
      BY <2>2, <1>1, <1>2, <1>5
    <3>2. i \in Len(ring) + 1..Len(ring) + Len(new)
      BY <2>2, <1>1, <1>2, <1>3, <1>5
    <3> HIDE DEF new
    <3>3. ring'[i] = new[j]
      BY <3>2, <1>1, <1>3, <1>4 DEF new
    <3>4. ring'[i] = e[j]
      BY <3>1, <3>3, <1>3 DEF new
    <3> QED
      BY <3>1, <3>4 DEF ToSet
  <2> QED
    BY <2>1, <2>2, <1>1, <1>5
<1>7. DOMAIN ring' = 1..Len(ring') /\ Len(ring') <= RingCap /\ needsResync' \in BOOLEAN
  BY <1>1, <1>2, <1>4, <1>5, RingAssumption
<1> QED
  BY <1>5, <1>6, <1>7 DEF ToSet

LEMMA TypeClient ==
    ASSUME TypeOK, Client
    PROVE  TypeOK'
<1> USE DEF plane, actor, disk, history, Current
<1>1. PlaneType /\ ActorType /\ SnapperType /\ DiskType /\ PlaceType /\ HistoryType
  BY TypeParts
<1>2. Current \in Nat /\ log \in Seq(Events)
  BY <1>1 DEF PlaneType
<1>3. ASSUME NEW k \in Keys, PutWithRoom(k) PROVE TypeOK'
  <2>1. PlaneType'
    <3>1. Offer(<<Current + 1>>) /\ <<Current + 1>> \in Seq(Nat)
      BY <1>2, <1>3 DEF PutWithRoom
    <3>2. [op |-> "put", key |-> k] \in Events
      BY DEF Events, Ops
    <3>3. log' \in Seq(Events)
      BY <1>2, <1>3, <3>2 DEF PutWithRoom
    <3>4. mem' \in [Keys -> Nat]
      BY <1>1, <1>2, <1>3 DEF PutWithRoom, PlaneType
    <3> QED
      BY <1>1, <1>3, <3>1, <3>3, <3>4, OfferIs DEF PutWithRoom, PlaneType
  <2> QED
    BY <1>1, <1>3, <2>1, TypePartsNext
       DEF PutWithRoom, ActorType, SnapperType, DiskType, PlaceType, HistoryType
<1>4. ASSUME NEW k \in Keys, NEW v \in Keys, PutEvicting(k, v) PROVE TypeOK'
  <2>1. PlaneType'
    <3>1. Offer(<<Current + 2, Current + 1>>) /\ <<Current + 2, Current + 1>> \in Seq(Nat)
      BY <1>2, <1>4 DEF PutEvicting
    <3>2. [op |-> "put", key |-> k] \in Events /\ [op |-> "evict", key |-> v] \in Events
      BY DEF Events, Ops
    <3>3. log' \in Seq(Events)
      BY <1>2, <1>4, <3>2 DEF PutEvicting
    <3>4. mem' \in [Keys -> Nat]
      <4>1. mem' = [mem EXCEPT ![k] = Current + 1, ![v] = 0]
        BY <1>4 DEF PutEvicting
      <4>2. mem \in [Keys -> Nat] /\ Current + 1 \in Nat
        BY <1>1, <1>2 DEF PlaneType
      <4> HIDE DEF Current
      <4> QED
        BY <4>1, <4>2
    <3> QED
      BY <1>1, <1>4, <3>1, <3>3, <3>4, OfferIs DEF PutEvicting, PlaneType
  <2> QED
    BY <1>1, <1>4, <2>1, TypePartsNext
       DEF PutEvicting, ActorType, SnapperType, DiskType, PlaceType, HistoryType
<1>5. ASSUME NEW k \in Keys, DeleteMemory(k) PROVE TypeOK'
  BY <1>5 DEF DeleteMemory, TypeOK
<1>6. ASSUME NEW k \in Keys, DeleteLog(k) PROVE TypeOK'
  <2>1. PlaneType'
    <3>1. Offer(<<Current + 1>>) /\ <<Current + 1>> \in Seq(Nat)
      BY <1>2, <1>6 DEF DeleteLog
    <3>2. [op |-> IF mem[k] = 0 THEN "evict" ELSE "late", key |-> k] \in Events
      BY DEF Events, Ops
    <3>3. log' \in Seq(Events)
      BY <1>2, <1>6, <3>2 DEF DeleteLog
    <3> QED
      BY <1>1, <1>6, <3>1, <3>3, OfferIs DEF DeleteLog, PlaneType
  <2> QED
    BY <1>1, <1>6, <2>1, TypePartsNext
       DEF DeleteLog, ActorType, SnapperType, DiskType, PlaceType, HistoryType
<1>7. CASE Clear
  <2>1. PlaneType'
    <3>1. Offer(<<Current + 1>>) /\ <<Current + 1>> \in Seq(Nat)
      BY <1>2, <1>7 DEF Clear
    <3>2. [op |-> "clear", key |-> NoKey] \in Events
      BY DEF Events, Ops
    <3>3. log' \in Seq(Events)
      BY <1>2, <1>7, <3>2 DEF Clear
    <3> QED
      BY <1>1, <1>7, <3>1, <3>3, OfferIs DEF Clear, PlaneType
  <2> QED
    BY <1>1, <1>7, <2>1, TypePartsNext
       DEF Clear, ActorType, SnapperType, DiskType, PlaceType, HistoryType
<1>8. ASSUME NEW k \in Keys, Migrate(k) PROVE TypeOK'
  BY <1>8 DEF Migrate, TypeOK
<1>9. CASE HotSwap
  <2>1. /\ mem' \in [Keys -> Nat] /\ fresh' \in [Keys -> Nat] /\ undone' \in [Keys -> Nat]
        /\ swaps' \in Nat
    BY <1>1, <1>2, <1>9 DEF HotSwap, PlaneType, HistoryType
  <2>2. PlaneType'
    BY <1>1, <1>9, <2>1 DEF HotSwap, PlaneType
  <2>3. SnapperType'
    BY <1>1, <1>9 DEF HotSwap, SnapperType
  <2>4. HistoryType'
    BY <1>1, <1>9, <2>1 DEF HotSwap, HistoryType
  <2> QED
    BY <1>1, <1>9, <2>2, <2>3, <2>4, TypePartsNext DEF HotSwap, ActorType, DiskType, PlaceType
<1> QED
  BY <1>3, <1>4, <1>5, <1>6, <1>7, <1>8, <1>9 DEF Client

\* Collections of snapshot and segment files.
Snaps(f) == DOMAIN f \subseteq Nat /\ \A s \in DOMAIN f : f[s] \in [Keys -> Nat]
Segs(f) ==
    /\ DOMAIN f \subseteq Nat
    /\ \A b \in DOMAIN f : f[b] \in [recs : Seq(Nat), dur : Nat, torn : BOOLEAN]

LEMMA FilesIs ==
    /\ \A f, n, c : Snaps(f) /\ n \in Nat /\ c \in [Keys -> Nat] => Snaps(Written(f, n, c))
    /\ \A f, N : Snaps(f) => Snaps(Removed(f, N))
    /\ \A f, n : Segs(f) /\ n \in Nat => Segs(Written(f, n, EmptySegment))
    /\ \A f, N : Segs(f) => Segs(Removed(f, N))
BY DEF Snaps, Segs, Written, Removed, EmptySegment

LEMMA DiskParts ==
    /\ DiskType <=> man \in [snap : Nat, segs : Seq(Nat), seq : Nat] /\ Snaps(snapFile) /\ Segs(segFile)
    /\ DiskType' <=> man' \in [snap : Nat, segs : Seq(Nat), seq : Nat] /\ Snaps(snapFile') /\ Segs(segFile')
BY DEF DiskType, Snaps, Segs

\* How much a batch takes from the queue, and what that leaves.
Taken == IF Len(ring) <= BatchMax THEN Len(ring) ELSE BatchMax
LEMMA TakenIs ==
    ASSUME TypeOK
    PROVE  /\ Taken \in 0..Len(ring)
           /\ SubSeq(ring, 1, Taken) \in Seq(Nat) /\ Len(SubSeq(ring, 1, Taken)) <= BatchMax
           /\ SubSeq(ring, Taken + 1, Len(ring)) \in Seq(Nat)
           /\ Len(SubSeq(ring, Taken + 1, Len(ring))) <= RingCap
           /\ ToSet(SubSeq(ring, 1, Taken)) \subseteq ToSet(ring)
           /\ ToSet(SubSeq(ring, Taken + 1, Len(ring))) \subseteq ToSet(ring)
<1>1. ring \in Seq(Nat) /\ Len(ring) <= RingCap
  BY DEF TypeOK
<1>2. Taken \in 0..Len(ring) /\ Taken <= BatchMax
  BY <1>1, RingAssumption DEF Taken
<1>3. /\ SubSeq(ring, 1, Taken) \in Seq(Nat) /\ Len(SubSeq(ring, 1, Taken)) = Taken
      /\ DOMAIN SubSeq(ring, 1, Taken) = 1..Taken
      /\ \A i \in 1..Taken : SubSeq(ring, 1, Taken)[i] = ring[i] /\ i \in DOMAIN ring
  BY <1>1, <1>2
<1>4. /\ SubSeq(ring, Taken + 1, Len(ring)) \in Seq(Nat)
      /\ Len(SubSeq(ring, Taken + 1, Len(ring))) = Len(ring) - Taken
      /\ DOMAIN SubSeq(ring, Taken + 1, Len(ring)) = 1..(Len(ring) - Taken)
      /\ \A i \in 1..(Len(ring) - Taken) :
            SubSeq(ring, Taken + 1, Len(ring))[i] = ring[Taken + i] /\ Taken + i \in DOMAIN ring
  BY <1>1, <1>2
<1>5. /\ Len(SubSeq(ring, 1, Taken)) <= BatchMax
      /\ Len(SubSeq(ring, Taken + 1, Len(ring))) <= RingCap
  BY <1>1, <1>2, <1>3, <1>4, RingAssumption
<1>6. ToSet(SubSeq(ring, 1, Taken)) \subseteq ToSet(ring)
  BY <1>3 DEF ToSet
<1>7. ToSet(SubSeq(ring, Taken + 1, Len(ring))) \subseteq ToSet(ring)
  BY <1>4 DEF ToSet
<1> QED
  BY <1>2, <1>3, <1>4, <1>5, <1>6, <1>7

\* A new segment and the manifest that names it, or neither.
LEMMA NewSegmentTypes ==
    ASSUME TypeOK, NEW keep \in Seq(Nat), NewSegment(keep)
    PROVE  /\ NewBase \in Nat /\ man' \in [snap : Nat, segs : Seq(Nat), seq : Nat]
           /\ Segs(segFile') /\ wal' \in Nat /\ lastBase' \in Nat
<1>1. NewBase \in Nat
  BY DEF TypeOK, NewBase, Larger, Current
<1>2. Segs(segFile')
  BY <1>1, FilesIs DEF TypeOK, NewSegment, Segs
<1>3. man' \in [snap : Nat, segs : Seq(Nat), seq : Nat]
  BY <1>1 DEF TypeOK, NewSegment, Larger
<1> QED
  BY <1>1, <1>2, <1>3 DEF NewSegment

LEMMA FailsTypes ==
    ASSUME TypeOK, NEW point, Fails(point)
    PROVE  fails' \in Nat /\ spoiled' \in BOOLEAN
BY DEF TypeOK, Fails

LEMMA KeptType ==
    ASSUME IInv, man.snap # 0
    PROVE  /\ man.segs \in Seq(Nat) /\ man.segs # <<>>
           /\ KeptSegments(man.segs, man.snap) \in Seq(Nat)
           /\ Len(KeptSegments(man.segs, man.snap)) <= Len(man.segs)
<1>1. man.segs \in Seq(Nat) /\ man.segs # <<>> /\ man.snap \in Nat
  BY DEF IInv, TypeOK, Segments
<1>2. PICK d \in 0..(Len(man.segs) - 1) :
         /\ KeptSegments(man.segs, man.snap) \in Seq(Nat)
         /\ Len(KeptSegments(man.segs, man.snap)) = Len(man.segs) - d
  BY <1>1, KeptIs
<1> QED
  BY <1>1, <1>2

\* The states of the snapshot thread the actions set.
Snapper == [st : {"none", "running", "done", "failed"}, current : BOOLEAN, seq : Nat,
            data : [Keys -> Nat]]
LEMMA SnapperIs ==
    ASSUME SnapperType, NEW n \in Nat
    PROVE  /\ snapper \in Snapper /\ Idle \in Snapper
           /\ [snapper EXCEPT !.current = FALSE] \in Snapper
           /\ [Idle EXCEPT !.st = "running", !.seq = n] \in Snapper
           /\ [Idle EXCEPT !.st = "running", !.seq = n, !.current = TRUE] \in Snapper
BY DEF SnapperType, Snapper, Idle

LEMMA TypeActor ==
    ASSUME IInv, Actor
    PROVE  TypeOK'
<1> USE DEF plane, actor, disk, history
<1>0. /\ Current \in Nat /\ snapper.seq \in Nat /\ snapper.data \in [Keys -> Nat]
      /\ 1..snapper.seq \subseteq Nat /\ snapper.seq + 1 \in Nat
      /\ man.snap \in Nat /\ wal \in Nat /\ durSeq \in Nat
      /\ ToSet(batch) \subseteq Nat /\ Largest(ToSet(batch)) \in Nat
      /\ Coalesce(log, batch) \in Seq(Nat)
      /\ Larger(durSeq, Largest(ToSet(batch))) \in Nat /\ Larger(durSeq, snapper.seq) \in Nat
      /\ <<wal>> \in Seq(Nat) /\ <<snapper.seq + 1>> \in Seq(Nat)
  <2>1. TypeOK
    BY DEF IInv
  <2>2. Current \in Nat /\ batch \in Seq(Nat)
    BY <2>1 DEF TypeOK, Current
  <2>3. ToSet(batch) \in SUBSET (0..Current)
    <3>1. \A s \in ToSet(batch) : s \in Nat /\ s <= Current
      BY <2>2 DEF IInv, Issued, ToSet
    <3> QED
      BY <2>2, <3>1
  <2>4. Coalesce(log, batch) \in Seq(Nat) /\ Largest(ToSet(batch)) \in Nat
    <3>1. Coalesce(log, batch) \in Seq(Nat)
      BY <2>2, <2>3, CoalesceIs
    <3>2. Largest(ToSet(batch)) \in 0..Current
      BY <2>2, <2>3, LargestBelow
    <3> QED
      BY <3>1, <3>2, <2>2
  <2>5. ToSet(batch) \subseteq Nat
    BY <2>2, <2>3
  <2>6. /\ snapper.seq \in Nat /\ snapper.data \in [Keys -> Nat]
        /\ man.snap \in Nat /\ wal \in Nat /\ durSeq \in Nat
    BY <2>1 DEF TypeOK
  <2> QED
    BY <2>2, <2>4, <2>5, <2>6 DEF Larger
<1>1. /\ PlaneType /\ ActorType /\ SnapperType /\ DiskType /\ PlaceType /\ HistoryType
      /\ IInv /\ TypeOK
  BY TypeParts DEF IInv
<1>2. CASE WaitTimeout \/ Shutdown
  <2>1. HistoryType'
    BY <1>0, <1>1, <1>2 DEF WaitTimeout, Shutdown, Goto, PCs, HistoryType
  <2>2. PlaneType' /\ ActorType' /\ SnapperType' /\ DiskType' /\ PlaceType'
    BY <1>1, <1>2 DEF WaitTimeout, Shutdown, Goto, PCs, PlaneType, ActorType, SnapperType,
       DiskType, PlaceType
  <2> QED
    BY <2>1, <2>2, TypePartsNext
<1>3. CASE Message
  <2>1. SnapperType'
    BY <1>0, <1>1, <1>3, SnapperIs DEF Message, SnapshotFailed, SnapshotStale, SnapshotDone,
       Snapper, SnapperType
  <2>2. PlaceType'
    BY <1>0, <1>1, <1>3, AfterIs DEF Message, SnapshotFailed, SnapshotStale, SnapshotDone,
       Goto, PCs, PlaceType
  <2>3. PlaneType' /\ ActorType' /\ DiskType' /\ HistoryType'
    BY <1>1, <1>3 DEF Message, SnapshotFailed, SnapshotStale, SnapshotDone, PlaneType,
       ActorType, DiskType, HistoryType
  <2> QED
    BY <2>1, <2>2, <2>3, TypePartsNext
<1>4. CASE RenameSnapshot
  <2>1. SnapperType'
    BY <1>0, <1>1, <1>4, SnapperIs DEF RenameSnapshot, Snapper, SnapperType
  <2>2. PlaceType'
    BY <1>0, <1>1, <1>4, AfterIs DEF RenameSnapshot, Goto, PCs, PlaceType
  <2>3. DiskType'
    BY <1>0, <1>1, <1>4, FilesIs, DiskParts DEF RenameSnapshot, DiskType
  <2>4. HistoryType'
    BY <1>0, <1>1, <1>4, FailsTypes DEF RenameSnapshot, HistoryType
  <2>5. PlaneType' /\ ActorType'
    BY <1>1, <1>4 DEF RenameSnapshot, PlaneType, ActorType
  <2> QED
    BY <2>1, <2>2, <2>3, <2>4, <2>5, TypePartsNext
<1>5. CASE WriteR2
  <2>1. SnapperType'
    BY <1>0, <1>1, <1>5, SnapperIs DEF WriteR2, Snapper, SnapperType
  <2>2. PlaceType'
    BY <1>0, <1>1, <1>5, AfterIs DEF WriteR2, Goto, PCs, PlaceType
  <2>3. DiskType'
    <3>1. Snaps(snapFile') /\ Segs(segFile') /\ man \in [snap : Nat, segs : Seq(Nat), seq : Nat]
      BY <1>1, <1>5, DiskParts DEF WriteR2
    <3>2. man' \in [snap : Nat, segs : Seq(Nat), seq : Nat]
      <4>1. CASE man' = [snap |-> snapper.seq, segs |-> <<wal>>, seq |-> Larger(durSeq, snapper.seq)]
        BY <4>1, <1>0
      <4> QED
        BY <4>1, <3>1, <1>5 DEF WriteR2
    <3> QED
      BY <3>1, <3>2, DiskParts
  <2>4. HistoryType'
    BY <1>0, <1>1, <1>5, FailsTypes DEF WriteR2, HistoryType
  <2>5. ActorType'
    BY <1>0, <1>1, <1>5 DEF WriteR2, DiskType, ActorType
  <2>6. PlaneType'
    BY <1>1, <1>5 DEF WriteR2, PlaneType
  <2> QED
    BY <2>1, <2>2, <2>3, <2>4, <2>5, <2>6, TypePartsNext
<1>6. CASE UnlinkOld
  <2>1. PlaceType'
    BY <1>0, <1>1, <1>6, AfterIs DEF UnlinkOld, PlaceType
  <2>2. DiskType'
    BY <1>0, <1>1, <1>6, FilesIs, DiskParts DEF UnlinkOld, DiskType
  <2>3. ActorType'
    BY <1>0, <1>1, <1>6 DEF UnlinkOld, NothingOld, ActorType
  <2>4. PlaneType' /\ SnapperType' /\ HistoryType'
    BY <1>1, <1>6 DEF UnlinkOld, PlaneType, SnapperType, HistoryType
  <2> QED
    BY <2>1, <2>2, <2>3, <2>4, TypePartsNext
<1>7. CASE TakeBatch
  <2>1. PlaneType'
    BY <1>0, <1>1, <1>7, TakenIs DEF TakeBatch, Taken, PlaneType
  <2>2. ActorType'
    BY <1>0, <1>1, <1>7, TakenIs DEF TakeBatch, Taken, ActorType
  <2>3. PlaceType'
    BY <1>0, <1>1, <1>7 DEF TakeBatch, Taken, Goto, PCs, PlaceType
  <2>4. SnapperType' /\ DiskType' /\ HistoryType'
    BY <1>1, <1>7 DEF TakeBatch, Taken, SnapperType, DiskType, HistoryType
  <2> QED
    BY <2>1, <2>2, <2>3, <2>4, TypePartsNext
<1>8. CASE InitialCompact
  <2>1. SnapperType'
    BY <1>0, <1>1, <1>8, SnapperIs DEF InitialCompact, Snapper, SnapperType
  <2>2. PlaceType'
    BY <1>0, <1>1, <1>8 DEF InitialCompact, Goto, PCs, PlaceType
  <2>3. PlaneType' /\ ActorType' /\ DiskType' /\ HistoryType'
    BY <1>1, <1>8 DEF InitialCompact, PlaneType, ActorType, DiskType, HistoryType
  <2> QED
    BY <2>1, <2>2, <2>3, TypePartsNext
<1>9. CASE InitialCommit
  <2>1. SnapperType'
    BY <1>0, <1>1, <1>9, SnapperIs DEF InitialCommit, Snapper, SnapperType
  <2>2. PlaceType'
    BY <1>0, <1>1, <1>9 DEF InitialCommit, Goto, PCs, PlaceType
  <2>3. DiskType'
    <3>1. Snaps(snapFile) /\ Segs(segFile) /\ man \in [snap : Nat, segs : Seq(Nat), seq : Nat]
      BY <1>1, DiskParts
    <3>2. Snaps(snapFile') /\ Segs(segFile')
      BY <3>1, <1>0, <1>9, FilesIs DEF InitialCommit
    <3>3. man' \in [snap : Nat, segs : Seq(Nat), seq : Nat]
      <4>1. CASE man' = [snap |-> snapper.seq, segs |-> <<snapper.seq + 1>>, seq |-> snapper.seq]
        BY <4>1, <1>0
      <4> QED
        BY <4>1, <3>1, <1>9 DEF InitialCommit
    <3> QED
      BY <3>2, <3>3, DiskParts
  <2>4. ActorType'
    BY <1>0, <1>1, <1>9 DEF InitialCommit, ActorType
  <2>5. HistoryType'
    BY <1>0, <1>1, <1>9, FailsTypes DEF InitialCommit, HistoryType
  <2>6. PlaneType'
    BY <1>1, <1>9 DEF InitialCommit, PlaneType
  <2> QED
    BY <2>1, <2>2, <2>3, <2>4, <2>5, <2>6, TypePartsNext
<1>10. CASE InitialSnapshotFailed
  <2>1. SnapperType'
    BY <1>0, <1>1, <1>10, SnapperIs DEF InitialSnapshotFailed, Snapper, SnapperType
  <2>2. PlaceType'
    BY <1>0, <1>1, <1>10 DEF InitialSnapshotFailed, Goto, PCs, PlaceType
  <2>3. PlaneType' /\ ActorType' /\ DiskType' /\ HistoryType'
    BY <1>1, <1>10 DEF InitialSnapshotFailed, PlaneType, ActorType, DiskType, HistoryType
  <2> QED
    BY <2>1, <2>2, <2>3, TypePartsNext
<1>11. CASE RotateForAppend
  <2>0. man.snap # 0
    BY <1>1, <1>11 DEF RotateForAppend, IInv, Control
  <2>1. ActorType'
    BY <1>0, <1>1, <1>11, KeptType, NewSegmentTypes, <2>0 DEF RotateForAppend, NoNewSegment, ActorType
  <2>2. DiskType'
    BY <1>0, <1>1, <1>11, KeptType, NewSegmentTypes, DiskParts, <2>0 DEF RotateForAppend,
       NoNewSegment, DiskType
  <2>3. PlaceType'
    BY <1>0, <1>1, <1>11 DEF RotateForAppend, NoNewSegment, Goto, PCs, PlaceType
  <2>4. HistoryType'
    BY <1>0, <1>1, <1>11, FailsTypes DEF RotateForAppend, NoNewSegment, HistoryType
  <2>5. PlaneType' /\ SnapperType'
    BY <1>1, <1>11 DEF RotateForAppend, NoNewSegment, PlaneType, SnapperType
  <2> QED
    BY <2>1, <2>2, <2>3, <2>4, <2>5, TypePartsNext
<1>12. CASE AppendNowhere
  <2>1. PlaceType'
    BY <1>0, <1>1, <1>12, AfterIs DEF AppendNowhere, PlaceType
  <2>2. PlaneType' /\ ActorType' /\ SnapperType' /\ DiskType' /\ HistoryType'
    BY <1>1, <1>12, RingAssumption DEF AppendNowhere, PlaneType, ActorType, SnapperType, DiskType,
       HistoryType
  <2> QED
    BY <2>1, <2>2, TypePartsNext
<1>13. CASE AppendBatch
  <2>1. DiskType'
    <3>1. segFile[wal] \in [recs : Seq(Nat), dur : Nat, torn : BOOLEAN] /\ wal \in DOMAIN segFile
      BY <1>1, <1>13 DEF AppendBatch, IInv, Segments, DiskType
    <3>2. segFile[wal].recs \o Coalesce(log, batch) \in Seq(Nat)
      BY <3>1, <1>0
    <3>3. [segFile[wal] EXCEPT !.recs = @ \o Coalesce(log, batch)] \in
             [recs : Seq(Nat), dur : Nat, torn : BOOLEAN]
      BY <3>1, <3>2
    <3> QED
      BY <1>1, <1>13, <3>1, <3>3 DEF AppendBatch, DiskType
  <2>2. PlaceType'
    BY <1>0, <1>1, <1>13 DEF AppendBatch, Goto, PCs, PlaceType
  <2>3. HistoryType'
    BY <1>0, <1>1, <1>13, FailsTypes DEF AppendBatch, HistoryType
  <2>4. PlaneType' /\ ActorType' /\ SnapperType'
    BY <1>1, <1>13 DEF AppendBatch, PlaneType, ActorType, SnapperType
  <2> QED
    BY <2>1, <2>2, <2>3, <2>4, TypePartsNext
<1>14. CASE SyncBatch
  <2>1. ActorType'
    <3>1. batch' \in Seq(Nat) /\ Len(batch') <= BatchMax
      <4>1. <<>> \in Seq(Nat) /\ Len(<<>>) <= BatchMax
        BY RingAssumption
      <4> QED
        BY <4>1, <1>1, <1>14 DEF SyncBatch, ActorType
    <3>2. durSeq' \in Nat
      BY <1>0, <1>1, <1>14 DEF SyncBatch
    <3>3. UNCHANGED <<wal, lastBase, needsInitial, inflight, exiting, old>>
      BY <1>14 DEF SyncBatch
    <3> QED
      BY <3>1, <3>2, <3>3, <1>1 DEF ActorType
  <2>2. DiskType'
    <3>1. segFile[wal] \in [recs : Seq(Nat), dur : Nat, torn : BOOLEAN] /\ wal \in DOMAIN segFile
      BY <1>1, <1>14 DEF SyncBatch, IInv, Segments, Control, DiskType
    <3>2. [segFile[wal] EXCEPT !.dur = Len(segFile[wal].recs)] \in
             [recs : Seq(Nat), dur : Nat, torn : BOOLEAN]
      BY <3>1
    <3> QED
      BY <1>1, <1>14, <3>1, <3>2 DEF SyncBatch, DiskType
  <2>3. PlaceType'
    BY <1>0, <1>1, <1>14, AfterIs DEF SyncBatch, Goto, PCs, PlaceType
  <2>4. HistoryType'
    BY <1>0, <1>1, <1>14, FailsTypes DEF SyncBatch, HistoryType
  <2>5. PlaneType' /\ SnapperType'
    BY <1>1, <1>14 DEF SyncBatch, PlaneType, SnapperType
  <2> QED
    BY <2>1, <2>2, <2>3, <2>4, <2>5, TypePartsNext
<1>15. CASE ResyncAfterFailure
  <2>1. ActorType'
    <3>1. batch' = <<>> /\ <<>> \in Seq(Nat) /\ Len(<<>>) <= BatchMax
      BY <1>15, RingAssumption DEF ResyncAfterFailure
    <3>2. wal' \in Nat /\ lastBase' \in Nat
      BY <1>1, <1>15, KeptType, NewSegmentTypes DEF ResyncAfterFailure, NoNewSegment, ActorType
    <3>3. needsInitial' \in BOOLEAN /\ UNCHANGED <<durSeq, inflight, exiting, old>>
      BY <1>1, <1>15 DEF ResyncAfterFailure, ActorType
    <3> QED
      BY <3>1, <3>2, <3>3, <1>1 DEF ActorType
  <2>2. DiskType'
    BY <1>0, <1>1, <1>15, KeptType, NewSegmentTypes, DiskParts DEF ResyncAfterFailure,
       NoNewSegment, DiskType
  <2>3. PlaceType'
    BY <1>0, <1>1, <1>15, AfterIs DEF ResyncAfterFailure, NoNewSegment, PlaceType
  <2>4. HistoryType'
    BY <1>0, <1>1, <1>15, FailsTypes DEF ResyncAfterFailure, NoNewSegment, HistoryType
  <2>5. PlaneType' /\ SnapperType'
    BY <1>1, <1>15 DEF ResyncAfterFailure, NoNewSegment, PlaneType, SnapperType
  <2> QED
    BY <2>1, <2>2, <2>3, <2>4, <2>5, TypePartsNext
<1>16. CASE Decide \/ DecideThreshold
  <2>1. PlaceType'
    BY <1>0, <1>1, <1>16, AfterIs DEF Decide, DecideThreshold, GotoIn, PCs, Phases, PlaceType
  <2>2. PlaneType' /\ ActorType' /\ SnapperType' /\ DiskType' /\ HistoryType'
    BY <1>1, <1>16 DEF Decide, DecideThreshold, PlaneType, ActorType, SnapperType, DiskType, HistoryType
  <2> QED
    BY <2>1, <2>2, TypePartsNext
<1>17. CASE DrainMore \/ DrainEnd
  <2>1. PlaneType'
    BY <1>0, <1>1, <1>17, TakenIs DEF DrainMore, DrainEnd, Taken, PlaneType
  <2>2. ActorType'
    BY <1>0, <1>1, <1>17, TakenIs DEF DrainMore, DrainEnd, Taken, ActorType
  <2>3. PlaceType'
    BY <1>0, <1>1, <1>17, AfterIs DEF DrainMore, DrainEnd, Taken, Goto, PCs, PlaceType
  <2>4. SnapperType' /\ DiskType' /\ HistoryType'
    BY <1>1, <1>17 DEF DrainMore, DrainEnd, Taken, SnapperType, DiskType, HistoryType
  <2> QED
    BY <2>1, <2>2, <2>3, <2>4, TypePartsNext
<1>18. CASE StartRefused \/ StartNotNeeded
  <2>1. PlaceType'
    BY <1>0, <1>1, <1>18, AfterIs DEF StartRefused, StartNotNeeded, PlaceType
  <2>2. PlaneType' /\ ActorType' /\ SnapperType' /\ DiskType' /\ HistoryType'
    BY <1>1, <1>18 DEF StartRefused, StartNotNeeded, PlaneType, ActorType, SnapperType,
       DiskType, HistoryType
  <2> QED
    BY <2>1, <2>2, TypePartsNext
<1>19. CASE StartCompaction
  <2>1. ActorType'
    BY <1>0, <1>1, <1>19, KeptType, NewSegmentTypes DEF StartCompaction, NoNewSegment, ActorType
  <2>2. DiskType'
    BY <1>0, <1>1, <1>19, KeptType, NewSegmentTypes, DiskParts DEF StartCompaction,
       NoNewSegment, DiskType
  <2>3. SnapperType'
    BY <1>0, <1>1, <1>19, SnapperIs DEF StartCompaction, NoNewSegment, Snapper, SnapperType
  <2>4. PlaceType'
    BY <1>0, <1>1, <1>19, AfterIs DEF StartCompaction, NoNewSegment, PlaceType
  <2>5. HistoryType'
    BY <1>0, <1>1, <1>19, FailsTypes DEF StartCompaction, NoNewSegment, HistoryType
  <2>6. PlaneType'
    BY <1>1, <1>19 DEF StartCompaction, NoNewSegment, PlaneType
  <2> QED
    BY <2>1, <2>2, <2>3, <2>4, <2>5, <2>6, TypePartsNext
<1>20. CASE PumpDone \/ PumpTimeout
  <2>1. PlaceType'
    BY <1>0, <1>1, <1>20, AfterIs DEF PumpDone, PumpTimeout, PlaceType
  <2>2. PlaneType' /\ ActorType' /\ SnapperType' /\ DiskType' /\ HistoryType'
    BY <1>1, <1>20 DEF PumpDone, PumpTimeout, PlaneType, ActorType, SnapperType, DiskType, HistoryType
  <2> QED
    BY <2>1, <2>2, TypePartsNext
<1>21. CASE FinalManifest
  <2>1. DiskType'
    BY <1>0, <1>1, <1>21 DEF FinalManifest, Larger, ActorType, DiskType
  <2>2. PlaceType'
    BY <1>0, <1>1, <1>21 DEF FinalManifest, Goto, PCs, PlaceType
  <2>3. HistoryType'
    BY <1>0, <1>1, <1>21, FailsTypes DEF FinalManifest, HistoryType
  <2>4. PlaneType' /\ ActorType' /\ SnapperType'
    BY <1>1, <1>21 DEF FinalManifest, PlaneType, ActorType, SnapperType
  <2> QED
    BY <2>1, <2>2, <2>3, <2>4, TypePartsNext
<1> QED
  BY <1>2, <1>3, <1>4, <1>5, <1>6, <1>7, <1>8, <1>9, <1>10, <1>11, <1>12, <1>13, <1>14, <1>15,
     <1>16, <1>17, <1>18, <1>19, <1>20, <1>21 DEF Actor

LEMMA TypeWriter ==
    ASSUME TypeOK, WriteSnapshotFile
    PROVE  TypeOK'
<1> USE DEF plane, actor, disk, history
<1>1. PlaneType /\ ActorType /\ SnapperType /\ DiskType /\ PlaceType /\ HistoryType
  BY TypeParts
<1>2. [k \in Keys |-> IF mem[k] <= snapper.seq THEN mem[k] ELSE 0] \in [Keys -> Nat]
  BY <1>1 DEF PlaneType
<1>3. SnapperType'
  BY <1>1, <1>2 DEF WriteSnapshotFile, SnapperType
<1>4. HistoryType'
  BY <1>1, FailsTypes DEF WriteSnapshotFile, HistoryType
<1>5. PlaneType' /\ ActorType' /\ DiskType' /\ PlaceType'
  BY <1>1 DEF WriteSnapshotFile, PlaneType, ActorType, DiskType, PlaceType
<1> QED
  BY <1>3, <1>4, <1>5, TypePartsNext

\* A crash keeps the files and takes records away from the segments.
LEMMA CrashIs ==
    ASSUME TypeOK, Crash
    PROVE  /\ Segs(segFile') /\ DOMAIN segFile' = DOMAIN segFile
           /\ \A b \in DOMAIN segFile : ToSet(segFile'[b].recs) \subseteq ToSet(segFile[b].recs)
<1> DEFINE unsynced == {b \in DOMAIN segFile : segFile[b].dur < Len(segFile[b].recs)}
<1>1. PICK kept \in [unsynced -> 0..MaxSeq], torn \in SUBSET unsynced :
         /\ \A b \in unsynced : kept[b] \in segFile[b].dur..Len(segFile[b].recs)
         /\ segFile' = Surviving(kept, torn)
  BY DEF Crash
<1>2. DOMAIN kept = unsynced /\ unsynced \subseteq DOMAIN segFile
  BY <1>1
<1> HIDE DEF unsynced
<1>3. DOMAIN segFile' = DOMAIN segFile
  BY <1>1 DEF Surviving
<1>4. ASSUME NEW b \in DOMAIN segFile
      PROVE  /\ segFile'[b] \in [recs : Seq(Nat), dur : Nat, torn : BOOLEAN]
             /\ ToSet(segFile'[b].recs) \subseteq ToSet(segFile[b].recs)
  <2>1. segFile[b] \in [recs : Seq(Nat), dur : Nat, torn : BOOLEAN]
    BY DEF TypeOK
  <2>2. CASE b \in unsynced
    <3>1. segFile'[b] = [recs |-> SubSeq(segFile[b].recs, 1, kept[b]), dur |-> kept[b], torn |-> b \in torn]
      BY <1>1, <1>2, <2>2 DEF Surviving
    <3>2. segFile[b].recs \in Seq(Nat) /\ kept[b] \in 0..Len(segFile[b].recs) /\ kept[b] \in Nat
      BY <1>1, <2>1, <2>2
    <3>3. /\ SubSeq(segFile[b].recs, 1, kept[b]) \in Seq(Nat)
          /\ DOMAIN SubSeq(segFile[b].recs, 1, kept[b]) = 1..kept[b]
          /\ \A i \in 1..kept[b] : /\ i \in DOMAIN segFile[b].recs
                                   /\ SubSeq(segFile[b].recs, 1, kept[b])[i] = segFile[b].recs[i]
      BY <3>2
    <3>4. ToSet(SubSeq(segFile[b].recs, 1, kept[b])) \subseteq ToSet(segFile[b].recs)
      BY <3>3 DEF ToSet
    <3>5. (b \in torn) \in BOOLEAN
      OBVIOUS
    <3> QED
      BY <3>1, <3>2, <3>3, <3>4, <3>5
  <2>3. CASE b \notin unsynced
    <3>1. segFile'[b] = segFile[b]
      BY <1>1, <1>2, <2>3 DEF Surviving
    <3> QED
      BY <3>1, <2>1
  <2> QED
    BY <2>2, <2>3
<1> QED
  BY <1>3, <1>4 DEF Segs, TypeOK

LEMMA TypeCrash ==
    ASSUME TypeOK, Crash
    PROVE  TypeOK'
<1>1. PlaneType /\ ActorType /\ SnapperType /\ DiskType /\ PlaceType /\ HistoryType
  BY TypeParts
<1>2. DiskType'
  BY <1>1, CrashIs, DiskParts DEF Crash
<1>3. /\ <<>> \in Seq(Nat) /\ Len(<<>>) <= RingCap /\ Len(<<>>) <= BatchMax
      /\ [k \in Keys |-> 0] \in [Keys -> Nat]
  BY RingAssumption
<1>0. /\ pc' = "down" /\ phase' = "tick" /\ mem' = [k \in Keys |-> 0]
      /\ ring' = <<>> /\ needsResync' = FALSE /\ snapReq' = FALSE
      /\ batch' = <<>> /\ wal' = 0 /\ lastBase' = 0 /\ durSeq' = 0
      /\ needsInitial' = FALSE /\ inflight' = FALSE /\ exiting' = FALSE
      /\ old' = NothingOld /\ exitSeq' = 0 /\ spoiled' = FALSE /\ crashes' = crashes + 1
      /\ fresh' = [k \in Keys |-> 0]
      /\ UNCHANGED <<log, deleting, undone, acked, fails, swaps>>
  BY DEF Crash
<1>4. PlaneType'
  BY <1>0, <1>1, <1>3 DEF PlaneType
<1>5. ActorType'
  <2>1. NothingOld \in [snap : Nat, segs : Seq(Nat)]
    BY DEF NothingOld
  <2> QED
    BY <1>0, <1>3, <2>1 DEF ActorType
<1>6. SnapperType'
  BY <1>1, SnapperIs DEF Crash, SnapperType, Snapper
<1>7. PlaceType'
  BY <1>0 DEF PlaceType, PCs, Phases
<1>8. HistoryType'
  <2>1. acked' \subseteq Nat /\ crashes' \in Nat /\ fails' \in Nat /\ swaps' \in Nat
    BY <1>0, <1>1 DEF HistoryType
  <2>2. exitSeq' \in Nat /\ spoiled' \in BOOLEAN
    BY <1>0
  <2> QED
    BY <2>1, <2>2 DEF HistoryType
<1> QED
  BY <1>2, <1>4, <1>5, <1>6, <1>7, <1>8, TypePartsNext

\* What a recovery rebuilds for a key was issued: it is the entry of the snapshot, if no record
\* read after the snapshot says more about the key, or the newest of those records.
LEMMA RecoveredIs ==
    ASSUME IInv, man.snap # 0, NEW k \in Keys
    PROVE  /\ Recovered[k] \in 0..Current /\ Recovered[k] <= MaxSeen
           /\ Recovered[k] # 0 =>
                 /\ \A s \in ReadRecords(man, segFile) :
                       s > man.snap /\ Affects(log, s, k) => s <= Recovered[k]
                 /\ Recovered[k] <= man.snap => Recovered[k] = snapFile[man.snap][k]
<1> DEFINE e == snapFile[man.snap][k]
           R == {s \in ReadRecords(man, segFile) : s > man.snap}
           A == {s \in R : Affects(log, s, k)}
           last == Largest(A)
<1>1. Current \in Nat /\ man.snap \in Nat /\ man.snap \in DOMAIN snapFile
  BY DEF IInv, TypeOK, Current, Snapshots
<1>2. e \in Nat /\ e <= man.snap
  BY <1>1 DEF IInv, TypeOK, Snapshots, Sound
<1>3. MaxSeen \in 1..Current /\ man.snap <= MaxSeen /\ \A s \in R : s <= MaxSeen
  BY PlanIs
<1>4. A \in SUBSET (0..Current)
  BY ReadIs
<1>5. last \in 0..Current /\ last \in A \cup {0} /\ \A s \in A : s <= last
  BY <1>1, <1>4, LargestBelow
<1> HIDE DEF last
<1>6. Recovered[k] = IF last = 0 THEN e ELSE IF IsPut(log, last) THEN last ELSE 0
  BY DEF Recovered, Replay, ReplayKey, last
<1>7. CASE last = 0
  <2>1. ~\E s \in A : TRUE
    <3> SUFFICES ASSUME NEW s \in A PROVE FALSE
      OBVIOUS
    <3>1. s <= 0 /\ s > man.snap /\ s \in Nat
      BY <1>4, <1>5, <1>7
    <3> QED
      BY <3>1, <1>1
  <2>2. Recovered[k] = e
    BY <1>6, <1>7
  <2> QED
    BY <2>1, <2>2, <1>1, <1>2, <1>3
<1>8. CASE last # 0
  <2>1. last \in A
    BY <1>5, <1>8
  <2>2. last > man.snap /\ last <= MaxSeen
    BY <2>1, <1>3
  <2>3. Recovered[k] \in {0, last}
    BY <1>6, <1>8
  <2> QED
    BY <2>1, <2>2, <2>3, <1>1, <1>3, <1>5, <1>8
<1> QED
  BY <1>7, <1>8

\* What a restart makes of an event that left a trace: the same event, or a surplus PUT.
Recalled(a, b) == b = a \/ (a.op \in {"put", "surplus"} /\ b = [a EXCEPT !.op = "surplus"])

LEMMA RecalledIs ==
    ASSUME NEW a \in Events, NEW b, Recalled(a, b)
    PROVE  /\ b \in Events /\ b.key = a.key
           /\ b.op = "late" <=> a.op = "late"
           /\ b.op = "hole" <=> a.op = "hole"
           /\ b.op = "clear" <=> a.op = "clear"
           /\ b.op = "put" => b = a
           /\ b.op \in {"put", "surplus"} <=> a.op \in {"put", "surplus"}
           /\ b.op \in {"put", "surplus", "evict", "late"}
                 <=> a.op \in {"put", "surplus", "evict", "late"}
BY DEF Recalled, Events, Ops

LEMMA RecalledAffects ==
    ASSUME NEW lg, NEW lg2, NEW s, lg[s] \in Events, Recalled(lg[s], lg2[s]), NEW k \in Keys
    PROVE  Affects(lg2, s, k) <=> Affects(lg, s, k)
<1>1. /\ lg2[s].key = lg[s].key /\ (lg2[s].op = "clear" <=> lg[s].op = "clear")
      /\ lg2[s].op \in {"put", "surplus", "evict", "late"}
            <=> lg[s].op \in {"put", "surplus", "evict", "late"}
  BY RecalledIs
<1> QED
  BY <1>1 DEF Affects, IsClear

\* The state a restart starts from: the cache holds what was recovered, and the log what left
\* a trace; a PUT still in the log is in the cache if it is what was recovered.
LEMMA RestoredIs ==
    ASSUME IInv, man.snap # 0, Restored
    PROVE  /\ PlanNext \in Nat /\ PlanNext >= MaxSeen + 1 /\ MaxSeen \in 1..Current
           /\ mem' \in [Keys -> Nat] /\ \A k \in Keys : mem'[k] \in {0, Recovered[k]}
           /\ log' \in Seq(Events) /\ Current' = PlanNext
           /\ \A i \in 1..PlanNext : \/ log'[i] = Hole /\ ~Traced(i)
                                     \/ /\ Recalled(log[i], log'[i]) /\ log[i] \in Events
                                        /\ Traced(i) /\ i \in 1..Current
           /\ \A k \in Keys, i \in 1..PlanNext :
                 i = Recovered[k] /\ log'[i] = [op |-> "put", key |-> k] => mem'[k] = i
           /\ acked' = 1..man.snap \cup KeptRecords /\ acked' \subseteq Nat
           /\ durSeq' \in Nat /\ durSeq' <= MaxSeen
           /\ undone' \in [Keys -> Nat]
           /\ \A k \in Keys : undone'[k] = IF undone[k] <= man.snap THEN undone[k] ELSE man.snap
<1>1. /\ Current \in Nat /\ man.snap \in Nat /\ man.seq \in Nat /\ log \in Seq(Events)
      /\ man.snap \in 1..Current
  BY DEF IInv, TypeOK, Current, Snapshots, Sound
<1>2. /\ PlanNext \in Nat /\ PlanNext >= MaxSeen + 1 /\ MaxSeen \in 1..Current
      /\ ReadRecords(man, segFile) \in SUBSET (0..Current)
      /\ man.seq <= MaxSeen /\ \A s \in ReadRecords(man, segFile) : s <= MaxSeen
  BY PlanIs, ReadIs
<1>3. \A k \in Keys : Recovered[k] \in Nat
  BY <1>1, RecoveredIs
<1>4. PICK kept \in SUBSET Keys :
         /\ mem' = [k \in Keys |-> IF k \in kept THEN Recovered[k] ELSE 0]
         /\ log' = [i \in 1..PlanNext |->
                       IF ~Traced(i) THEN Hole
                       ELSE IF IsPut(log, i) /\ \E k \in Keys \ kept : Recovered[k] = i
                            THEN [log[i] EXCEPT !.op = "surplus"]
                            ELSE log[i]]
  <2>1. PICK kept \in SUBSET {k \in Keys : Recovered[k] # 0} :
           /\ mem' = [k \in Keys |-> IF k \in kept THEN Recovered[k] ELSE 0]
           /\ LET Surplus(i) == IsPut(log, i) /\ \E k \in Keys \ kept : Recovered[k] = i
              IN  log' = [i \in 1..PlanNext |->
                             IF ~Traced(i) THEN Hole
                             ELSE IF Surplus(i) THEN [log[i] EXCEPT !.op = "surplus"]
                             ELSE log[i]]
    BY Zenon DEF Restored
  <2>2. kept \in SUBSET Keys
    OBVIOUS
  <2> QED
    BY <2>1, <2>2
<1>0. acked' = 1..man.snap \cup KeptRecords
  BY DEF Restored
<1>5. mem' \in [Keys -> Nat] /\ \A k \in Keys : mem'[k] \in {0, Recovered[k]}
  BY <1>3, <1>4
<1>6. acked' \subseteq Nat
  <2>1. KeptRecords \subseteq ReadRecords(man, segFile)
    <3>1. man.segs \in Seq(Nat)
      BY DEF IInv, TypeOK
    <3>2. ReadEnd(man, segFile) \in Nat /\ Len(man.segs) \in Nat
      BY <3>1, ReadIs
    <3> QED
      BY <3>2 DEF KeptRecords, ReadRecords
  <2> QED
    BY <1>0, <1>1, <1>2, <2>1
<1>7. \A i \in 1..PlanNext : Traced(i) => i \in 1..Current /\ log[i] \in Events
  BY <1>1, <1>2 DEF Traced, Current
<1>8. Hole \in Events
  BY DEF Hole, Events, Ops
<1>10. \A i \in 1..PlanNext : \/ log'[i] = Hole /\ ~Traced(i)
                              \/ /\ Recalled(log[i], log'[i]) /\ log[i] \in Events
                                 /\ Traced(i) /\ i \in 1..Current
  <2> TAKE i \in 1..PlanNext
  <2>1. CASE ~Traced(i)
    BY <1>4, <2>1
  <2>2. CASE Traced(i)
    <3>1. log'[i] = log[i] \/ (IsPut(log, i) /\ log'[i] = [log[i] EXCEPT !.op = "surplus"])
      BY <1>4, <2>2
    <3> QED
      BY <1>7, <2>2, <3>1 DEF Recalled, IsPut
  <2> QED
    BY <2>1, <2>2
<1>11. log' \in Seq(Events) /\ Len(log') = PlanNext
  <2>1. \A i \in 1..PlanNext : log'[i] \in Events
    BY <1>8, <1>10, RecalledIs
  <2>2. DOMAIN log' = 1..PlanNext /\ log' = [i \in DOMAIN log' |-> log'[i]]
    BY <1>4
  <2> QED
    BY <1>2, <2>1, <2>2
<1>12. \A k \in Keys, i \in 1..PlanNext :
          i = Recovered[k] /\ log'[i] = [op |-> "put", key |-> k] => mem'[k] = i
  <2> TAKE k \in Keys, i \in 1..PlanNext
  <2> HAVE i = Recovered[k] /\ log'[i] = [op |-> "put", key |-> k]
  <2>1. log'[i].op = "put" /\ log'[i] # Hole
    BY DEF Hole
  <2>2. Traced(i) /\ log[i] \in Events /\ Recalled(log[i], log'[i])
    BY <1>10, <2>1
  <2>3. log'[i] = log[i] /\ IsPut(log, i)
    <3>1. log'[i] = log[i]
      BY <2>1, <2>2, RecalledIs
    <3> QED
      BY <2>1, <3>1 DEF IsPut
  <2>4. ASSUME k \notin kept PROVE FALSE
    <3>1. log'[i] = [log[i] EXCEPT !.op = "surplus"]
      BY <1>4, <2>2, <2>3, <2>4
    <3>2. log'[i].op = "surplus"
      BY <2>2, <3>1 DEF Events
    <3> QED
      BY <2>1, <3>2
  <2> QED
    BY <1>4, <2>4
<1>13. durSeq' \in Nat /\ durSeq' <= MaxSeen
  <2>1. Largest(ReadRecords(man, segFile)) \in Nat /\ Largest(ReadRecords(man, segFile)) <= MaxSeen
    <3>1. /\ Largest(ReadRecords(man, segFile)) \in 0..Current
          /\ Largest(ReadRecords(man, segFile)) \in ReadRecords(man, segFile) \cup {0}
      BY <1>1, <1>2, LargestBelow
    <3> QED
      BY <3>1, <1>2
  <2> QED
    BY <2>1, <1>1, <1>2 DEF Restored, Larger
<1>14. /\ undone' \in [Keys -> Nat]
       /\ \A k \in Keys : undone'[k] = IF undone[k] <= man.snap THEN undone[k] ELSE man.snap
  BY <1>1 DEF Restored, IInv, TypeOK
<1> QED
  BY <1>0, <1>2, <1>5, <1>6, <1>10, <1>11, <1>12, <1>13, <1>14 DEF Current

LEMMA TypeRecovery ==
    ASSUME IInv, Recovery
    PROVE  TypeOK'
<1>1. /\ PlaneType /\ ActorType /\ SnapperType /\ DiskType /\ PlaceType /\ HistoryType
      /\ TypeOK
  BY TypeParts DEF IInv
<1>2. /\ man \in [snap : Nat, segs : Seq(Nat), seq : Nat] /\ Snaps(snapFile) /\ Segs(segFile)
  BY <1>1, DiskParts
<1>3. CASE RestartEmpty
  <2>1. Hole \in Events /\ <<Hole>> \in Seq(Events)
    BY DEF Hole, Events, Ops
  <2>2. PlaneType'
    BY <1>1, <1>3, <2>1 DEF RestartEmpty, PlaneType
  <2>3. DiskType'
    BY <1>2, <1>3, FilesIs, DiskParts DEF RestartEmpty
  <2>4. ActorType' /\ SnapperType' /\ PlaceType' /\ HistoryType'
    BY <1>1, <1>3 DEF RestartEmpty, ActorType, SnapperType, PlaceType, HistoryType, PCs
  <2> QED
    BY <2>2, <2>3, <2>4, TypePartsNext
<1>4. CASE Restart
  <2> DEFINE last == man.segs[Len(man.segs)]
  <2>1. man.snap # 0 /\ Restored
    BY <1>4 DEF Restart
  <2>2. PlaneType'
    BY <1>1, <1>4, <2>1, RestoredIs DEF Restart, PlaneType
  <2>3. last \in Nat
    BY <1>2, <2>1, KeptType
  <2>4. Segs(segFile')
    <3>1. \A b \in DOMAIN segFile : [segFile[b] EXCEPT !.torn = FALSE] \in
             [recs : Seq(Nat), dur : Nat, torn : BOOLEAN]
      BY <1>2 DEF Segs
    <3> QED
      BY <1>2, <1>4, <3>1 DEF Restart, Segs
  <2>5. DiskType'
    BY <1>2, <1>4, <2>4, FilesIs, DiskParts DEF Restart
  <2>6. ActorType' /\ HistoryType'
    <3>1. durSeq' \in Nat /\ acked' \subseteq Nat
      BY <1>1, <2>1, RestoredIs
    <3>2. wal' \in Nat /\ lastBase' \in Nat
      BY <1>4, <2>3 DEF Restart
    <3>3. fails' \in Nat /\ spoiled' \in BOOLEAN
      BY <1>1, <1>4, FailsTypes DEF Restart, HistoryType
    <3>4. UNCHANGED <<batch, needsInitial, inflight, exiting, old, exitSeq, crashes, swaps>>
      BY <1>4 DEF Restart
    <3> QED
      BY <1>1, <3>1, <3>2, <3>3, <3>4 DEF ActorType, HistoryType
  <2>7. SnapperType' /\ PlaceType'
    BY <1>1, <1>4 DEF Restart, SnapperType, PlaceType, PCs
  <2> QED
    BY <2>2, <2>5, <2>6, <2>7, TypePartsNext
<1>5. CASE RestartAfterGap
  <2> DEFINE kept == SubSeq(man.segs, 1, ReadEnd(man, segFile) - 1)
  <2>1. man.snap # 0 /\ Restored /\ HasGap(man, segFile)
    BY <1>5 DEF RestartAfterGap
  <2>2. PlaneType'
    BY <1>1, <1>5, <2>1, RestoredIs DEF RestartAfterGap, PlaneType
  <2>3. PlanNext \in Nat /\ kept \in Seq(Nat)
    BY <1>2, <2>1, PlanIs, ReadIs
  <2>4. Segs(segFile')
    <3>1. Segs([b \in DOMAIN segFile \cap ToSet(kept) |-> segFile[b]])
      BY <1>2 DEF Segs
    <3> QED
      BY <1>5, <2>3, <3>1, FilesIs DEF RestartAfterGap
  <2>5. man' \in [snap : Nat, segs : Seq(Nat), seq : Nat]
    <3>1. Append(kept, PlanNext) \in Seq(Nat)
      BY <2>3
    <3> HIDE DEF kept
    <3>2. [man EXCEPT !.segs = Append(kept, PlanNext)] \in [snap : Nat, segs : Seq(Nat), seq : Nat]
      BY <1>2, <3>1
    <3> QED
      BY <1>5, <3>2 DEF RestartAfterGap, kept
  <2>6. DiskType'
    BY <1>2, <1>5, <2>4, <2>5, FilesIs, DiskParts DEF RestartAfterGap
  <2>7. ActorType' /\ HistoryType'
    BY <1>1, <1>5, <2>1, <2>3, RestoredIs DEF RestartAfterGap, ActorType, HistoryType
  <2>8. SnapperType' /\ PlaceType'
    BY <1>1, <1>5 DEF RestartAfterGap, SnapperType, PlaceType, PCs
  <2> QED
    BY <2>2, <2>6, <2>7, <2>8, TypePartsNext
<1> QED
  BY <1>3, <1>4, <1>5 DEF Recovery

\* Every step keeps the types.
LEMMA TypeNext ==
    ASSUME IInv, [Next]_vars
    PROVE  TypeOK'
<1>1. CASE UNCHANGED vars
  BY <1>1 DEF vars, plane, actor, disk, history, IInv, TypeOK
<1> QED
  BY <1>1, TypeClient, TypeActor, TypeWriter, TypeCrash, TypeRecovery DEF Next, IInv

-----------------------------------------------------------------------------
(* Segment lists *)

\* A new empty segment above the bases and the records of a list goes at its end.
LEMMA OrderedAppend ==
    ASSUME NEW segs \in Seq(Nat), NEW files, Ordered(segs, files), NEW nb \in Nat,
           \A i \in 1..Len(segs) : segs[i] < nb,
           \A i \in 1..Len(segs) : \A s \in ToSet(files[segs[i]].recs) : s < nb
    PROVE  Ordered(Append(segs, nb), Written(files, nb, EmptySegment))
<1> DEFINE new == Append(segs, nb)
           wri == Written(files, nb, EmptySegment)
<1>1. /\ Len(new) = Len(segs) + 1 /\ new[Len(segs) + 1] = nb /\ DOMAIN new = 1..(Len(segs) + 1)
      /\ \A i \in 1..Len(segs) : new[i] = segs[i] /\ segs[i] \in Nat
  OBVIOUS
<1>2. DOMAIN wri = DOMAIN files \cup {nb}
  BY DEF Written
<1>3. \A i \in 1..Len(segs) : segs[i] \in DOMAIN files /\ segs[i] # nb
  <2>1. \A i \in 1..Len(segs) : segs[i] \in ToSet(segs)
    BY DEF ToSet
  <2>2. \A i \in 1..Len(segs) : segs[i] # nb
    BY <1>1
  <2> QED
    BY <2>1, <2>2 DEF Ordered
<1>4. \A i \in 1..Len(segs) : wri[segs[i]] = files[segs[i]]
  BY <1>3 DEF Written
<1> HIDE DEF new, wri
<1>5. ToSet(new) \subseteq DOMAIN wri
  BY <1>1, <1>2, <1>3 DEF ToSet
<1>6. ASSUME NEW i \in 1..Len(new), NEW j \in 1..Len(new), i < j
      PROVE  new[i] < new[j] /\ \A s \in ToSet(wri[new[i]].recs) : s < new[j]
  <2>1. i \in 1..Len(segs) /\ new[i] = segs[i] /\ wri[new[i]] = files[segs[i]]
    BY <1>1, <1>4, <1>6
  <2>2. CASE j = Len(segs) + 1
    BY <2>1, <2>2, <1>1
  <2>3. CASE j # Len(segs) + 1
    <3>1. j \in 1..Len(segs) /\ new[j] = segs[j]
      BY <1>1, <2>3
    <3> QED
      BY <2>1, <3>1, <1>6 DEF Ordered
  <2> QED
    BY <2>2, <2>3
<1> QED
  BY <1>5, <1>6 DEF Ordered, new, wri

\* A stretch of an ordered list is ordered.
LEMMA OrderedPart ==
    ASSUME NEW segs \in Seq(Nat), NEW files, Ordered(segs, files),
           NEW d \in Nat, NEW part \in Seq(Nat),
           \A i \in 1..Len(part) : part[i] = segs[d + i] /\ d + i \in 1..Len(segs)
    PROVE  Ordered(part, files) /\ ToSet(part) \subseteq ToSet(segs)
<1>1. ToSet(part) \subseteq ToSet(segs)
  <2>1. DOMAIN part = 1..Len(part) /\ DOMAIN segs = 1..Len(segs)
    OBVIOUS
  <2> QED
    BY <2>1 DEF ToSet
<1>2. ASSUME NEW i \in 1..Len(part), NEW j \in 1..Len(part), i < j
      PROVE  part[i] < part[j] /\ \A s \in ToSet(files[part[i]].recs) : s < part[j]
  <2>1. part[i] = segs[d + i] /\ d + i \in 1..Len(segs)
    OBVIOUS
  <2>2. part[j] = segs[d + j] /\ d + j \in 1..Len(segs)
    OBVIOUS
  <2>3. d + i < d + j
    BY <1>2
  <2> QED
    BY <2>1, <2>2, <2>3 DEF Ordered
<1> QED
  BY <1>1, <1>2 DEF Ordered

\* Files that agree on a list, or hold fewer records, keep it ordered.
LEMMA OrderedFiles ==
    ASSUME NEW segs \in Seq(Nat), NEW files, Ordered(segs, files), NEW files2,
           ToSet(segs) \subseteq DOMAIN files2,
           \A b \in ToSet(segs) : ToSet(files2[b].recs) \subseteq ToSet(files[b].recs)
    PROVE  Ordered(segs, files2)
<1>1. \A i \in 1..Len(segs) : segs[i] \in ToSet(segs)
  BY DEF ToSet
<1> QED
  BY <1>1 DEF Ordered

\* What a rotation does: the new segment is active, is named last and lies above everything
\* issued; the other segments named were named before.
LEMMA NewSegmentIs ==
    ASSUME IInv, man.snap # 0, pc # "down",
           Len(KeptSegments(man.segs, man.snap)) <= MaxSegments - 1,
           NewSegment(KeptSegments(man.segs, man.snap))
    PROVE  /\ man'.snap = man.snap /\ man'.seq = Larger(durSeq, man.snap)
           /\ Segments' /\ wal' = lastBase' /\ wal' # 0
           /\ Len(man'.segs) \in Nat /\ lastBase' = man'.segs[Len(man'.segs)]
           /\ \A b \in DOMAIN segFile' :
                 segFile'[b] = EmptySegment \/ (b \in DOMAIN segFile /\ segFile'[b] = segFile[b])
<1> DEFINE keep == KeptSegments(man.segs, man.snap)
<1>1. /\ man.segs \in Seq(Nat) /\ man.segs # <<>> /\ man.snap \in Nat /\ Current \in Nat
      /\ lastBase \in Nat
  BY KeptType DEF IInv, TypeOK, Current
<1>2. PICK d \in 0..(Len(man.segs) - 1) :
         /\ keep \in Seq(Nat) /\ Len(keep) = Len(man.segs) - d
         /\ \A i \in 1..(Len(man.segs) - d) : keep[i] = man.segs[d + i] /\ d + i \in 1..Len(man.segs)
  BY <1>1, KeptIs
<1>3. NewBase \in Nat /\ NewBase > lastBase /\ NewBase > Current
  BY <1>1 DEF NewBase, Larger
<1>4. Ordered(man.segs, segFile) /\ lastBase = man.segs[Len(man.segs)]
  BY DEF IInv, Segments, Control
<1> HIDE DEF keep
<1>5. Ordered(keep, segFile) /\ ToSet(keep) \subseteq ToSet(man.segs)
  <2>1. d \in Nat /\ \A i \in 1..Len(keep) : keep[i] = man.segs[d + i] /\ d + i \in 1..Len(man.segs)
    <3>1. d \in Nat /\ 1..Len(keep) = 1..(Len(man.segs) - d)
      BY <1>1, <1>2
    <3> QED
      BY <1>2, <3>1
  <2> QED
    BY <2>1, <1>1, <1>2, <1>4, OrderedPart
<1>6. \A i \in 1..Len(man.segs) : man.segs[i] \in Nat /\ man.segs[i] <= lastBase
  <2> TAKE i \in 1..Len(man.segs)
  <2>1. Len(man.segs) \in 1..Len(man.segs) /\ man.segs[i] \in Nat
    BY <1>1
  <2>2. CASE i = Len(man.segs)
    BY <2>1, <2>2, <1>1, <1>4
  <2>3. CASE i < Len(man.segs)
    <3>1. man.segs[i] < man.segs[Len(man.segs)]
      BY <2>1, <2>3, <1>4 DEF Ordered
    <3> QED
      BY <2>1, <3>1, <1>1, <1>4
  <2> QED
    BY <2>1, <2>2, <2>3
<1>7. \A i \in 1..Len(keep) : keep[i] < NewBase
  <2> TAKE i \in 1..Len(keep)
  <2>1. keep[i] = man.segs[d + i] /\ d + i \in 1..Len(man.segs)
    BY <1>1, <1>2
  <2>2. keep[i] \in Nat /\ keep[i] <= lastBase
    BY <2>1, <1>6
  <2> QED
    BY <2>2, <1>1, <1>3
<1>8. \A i \in 1..Len(keep) : \A s \in ToSet(segFile[keep[i]].recs) : s < NewBase
  <2> SUFFICES ASSUME NEW i \in 1..Len(keep), NEW s \in ToSet(segFile[keep[i]].recs)
               PROVE  s < NewBase
    OBVIOUS
  <2>1. keep[i] \in DOMAIN segFile
    BY <1>5 DEF Ordered, ToSet
  <2>2. segFile[keep[i]].recs \in Seq(Nat)
    BY <2>1 DEF IInv, TypeOK
  <2>3. s \in Nat /\ s <= Current
    BY <2>1, <2>2 DEF IInv, Issued, ToSet
  <2> QED
    BY <2>3, <1>1, <1>3
<1>9. /\ segFile' = Written(segFile, NewBase, EmptySegment)
      /\ man'.segs = Append(keep, NewBase) /\ man'.snap = man.snap /\ man'.seq = Larger(durSeq, man.snap)
      /\ wal' = NewBase /\ lastBase' = NewBase
  BY DEF NewSegment, keep
<1>10. Ordered(man'.segs, segFile')
  BY <1>2, <1>3, <1>5, <1>7, <1>8, <1>9, OrderedAppend
<1>11. Len(man'.segs) \in 1..MaxSegments /\ NewBase = man'.segs[Len(man'.segs)]
  <2>1. Len(keep) <= MaxSegments - 1
    BY DEF keep
  <2> QED
    BY <1>2, <1>3, <1>9, <2>1, SegmentsAssumption
<1>12. wal' \in DOMAIN segFile'
  BY <1>9 DEF Written
<1>13. \A b \in DOMAIN segFile' :
         segFile'[b] = EmptySegment \/ (b \in DOMAIN segFile /\ segFile'[b] = segFile[b])
  BY <1>9 DEF Written
<1> QED
  BY <1>1, <1>3, <1>9, <1>10, <1>11, <1>12, <1>13 DEF Segments

-----------------------------------------------------------------------------
(* Control *)

\* The data plane and the snapshot thread do not move the actor.
LEMMA ControlOthers ==
    ASSUME IInv, Client \/ WriteSnapshotFile
    PROVE  Control'
<1> USE DEF plane, actor, disk, history
<1>1. pc # "down" /\ SnapperType
  <2>1. CASE WriteSnapshotFile
    BY <2>1, TypeParts DEF WriteSnapshotFile, IInv
  <2>2. CASE Client
    BY <2>2, TypeParts DEF Client, PutWithRoom, PutEvicting, DeleteMemory, DeleteLog, Clear,
       Migrate, HotSwap, Up, IInv
  <2> QED
    BY <2>1, <2>2
<1>2. /\ UNCHANGED <<pc, man, wal, lastBase, needsInitial>>
      /\ snapper'.current => snapper.current
      /\ pc \in {"rename", "r2"} => snapper'.st = "done"
  <2>1. CASE WriteSnapshotFile
    BY <2>1, <1>1 DEF WriteSnapshotFile, SnapperType, IInv, Control
  <2>2. CASE HotSwap
    BY <2>2, <1>1 DEF HotSwap, SnapperType, IInv, Control
  <2>3. CASE Client /\ ~HotSwap
    BY <2>3 DEF Client, PutWithRoom, PutEvicting, DeleteMemory, DeleteLog, Clear, Migrate, IInv,
       Control
  <2> QED
    BY <2>1, <2>2, <2>3
<1> QED
  BY <1>1, <1>2 DEF IInv, Control

LEMMA ControlActor ==
    ASSUME IInv, Actor
    PROVE  Control'
<1> USE DEF plane, actor, disk, history, Control, Goto, GotoIn
<1>1. TypeOK /\ PlaceType /\ SnapperType /\ Control
  BY TypeParts DEF IInv
<1>2. /\ Idle.st = "none" /\ Idle.current = FALSE
      /\ \A n \in Nat : [Idle EXCEPT !.st = "running", !.seq = n].current = FALSE
  BY DEF Idle
<1>3. CASE WaitTimeout \/ Shutdown
  BY <1>1, <1>2, <1>3 DEF WaitTimeout, Shutdown
<1>4. CASE Message
  BY <1>1, <1>2, <1>4, AfterIs DEF Message, SnapshotFailed, SnapshotStale, SnapshotDone, SnapperType
<1>5. CASE RenameSnapshot
  BY <1>1, <1>2, <1>5, AfterIs DEF RenameSnapshot
<1>6. CASE WriteR2
  <2>1. man.snap # 0 /\ snapper.seq # 0 /\ wal \in {0, lastBase} /\ ~needsInitial /\ pc = "r2"
    BY <1>1, <1>6 DEF WriteR2, IInv, Snapshots
  <2>2. CASE /\ wal # 0 /\ pc' = "unlink"
             /\ man' = [snap |-> snapper.seq, segs |-> <<wal>>, seq |-> Larger(durSeq, snapper.seq)]
    <3>1. man'.snap = snapper.seq /\ man'.segs = <<wal>> /\ <<wal>>[Len(<<wal>>)] = wal
      BY <2>2
    <3> QED
      BY <1>1, <1>2, <1>6, <2>1, <2>2, <3>1 DEF WriteR2
  <2>3. CASE UNCHANGED man /\ AfterMessage
    BY <1>1, <1>2, <1>6, <2>1, <2>3, AfterIs DEF WriteR2
  <2> QED
    BY <1>6, <2>2, <2>3 DEF WriteR2
<1>7. CASE UnlinkOld
  BY <1>1, <1>2, <1>7, AfterIs DEF UnlinkOld
<1>8. CASE TakeBatch
  BY <1>1, <1>2, <1>8 DEF TakeBatch
<1>9. CASE InitialCompact
  BY <1>1, <1>2, <1>9 DEF InitialCompact, Current
<1>10. CASE InitialCommit
  <2> DEFINE S == snapper.seq
  <2>1. S # 0 /\ man.snap = 0 /\ needsInitial /\ pc' = "append" /\ snapper'.current = FALSE
    BY <1>1, <1>2, <1>10 DEF InitialCommit, IInv, Snapshots
  <2>2. CASE /\ man' = [snap |-> S, segs |-> <<S + 1>>, seq |-> S]
             /\ wal' = S + 1 /\ lastBase' = S + 1 /\ needsInitial' = FALSE
    <3>1. man'.snap = S /\ man'.segs[Len(man'.segs)] = S + 1
      BY <2>2
    <3> QED
      BY <2>1, <2>2, <3>1
  <2>3. CASE UNCHANGED <<man, needsInitial>>
    BY <1>1, <2>1, <2>3
  <2> QED
    BY <1>10, <2>2, <2>3 DEF InitialCommit
<1>11. CASE InitialSnapshotFailed
  BY <1>1, <1>2, <1>11 DEF InitialSnapshotFailed
<1>12. CASE RotateForAppend
  <2>1. /\ man.snap # 0 /\ pc # "down" /\ pc' = "append" /\ ~needsInitial
        /\ UNCHANGED <<needsInitial, snapper>>
    BY <1>1, <1>12 DEF RotateForAppend
  <2>2. CASE UNCHANGED <<man, wal, lastBase>>
    BY <1>1, <2>1, <2>2
  <2>3. CASE Len(man.segs) < MaxSegments - 1 /\ NewSegment(KeptSegments(man.segs, man.snap))
    <3>1. Len(KeptSegments(man.segs, man.snap)) <= MaxSegments - 1
      BY <2>1, <2>3, KeptType, SegmentsAssumption
    <3> QED
      BY <1>1, <2>1, <2>3, <3>1, NewSegmentIs
  <2> QED
    BY <1>12, <2>2, <2>3 DEF RotateForAppend, NoNewSegment
<1>13. CASE AppendNowhere
  BY <1>1, <1>2, <1>13, AfterIs DEF AppendNowhere
<1>14. CASE AppendBatch
  BY <1>1, <1>2, <1>14 DEF AppendBatch
<1>15. CASE SyncBatch
  BY <1>1, <1>2, <1>15, AfterIs DEF SyncBatch
<1>16. CASE ResyncAfterFailure
  <2>1. /\ pc' \in {"wait", "take", "decide", "drain", "start", "pump", "final"} /\ pc # "down"
        /\ UNCHANGED snapper
    BY <1>1, <1>16, AfterIs DEF ResyncAfterFailure
  <2>2. CASE man.snap = 0 /\ needsInitial' /\ UNCHANGED <<man, wal, lastBase>>
    BY <1>1, <2>1, <2>2
  <2>3. CASE man.snap # 0 /\ UNCHANGED <<needsInitial, man, wal, lastBase>>
    BY <1>1, <2>1, <2>3
  <2>4. CASE /\ man.snap # 0 /\ Len(man.segs) < MaxSegments - 1 /\ ~needsInitial'
             /\ NewSegment(KeptSegments(man.segs, man.snap))
    <3>1. Len(KeptSegments(man.segs, man.snap)) <= MaxSegments - 1 /\ pc # "down"
      BY <1>16, <2>4, KeptType, SegmentsAssumption DEF ResyncAfterFailure
    <3>2. /\ man'.snap = man.snap /\ wal' = lastBase' /\ wal' # 0
          /\ lastBase' = man'.segs[Len(man'.segs)]
      BY <2>4, <3>1, NewSegmentIs
    <3> QED
      BY <1>1, <2>1, <2>4, <3>2
  <2> QED
    BY <1>16, <2>2, <2>3, <2>4 DEF ResyncAfterFailure, NoNewSegment
<1>17. CASE Decide \/ DecideThreshold
  BY <1>1, <1>2, <1>17, AfterIs DEF Decide, DecideThreshold
<1>18. CASE DrainMore \/ DrainEnd
  BY <1>1, <1>2, <1>18, AfterIs DEF DrainMore, DrainEnd
<1>19. CASE StartRefused \/ StartNotNeeded
  BY <1>1, <1>2, <1>19, AfterIs DEF StartRefused, StartNotNeeded
<1>20. CASE StartCompaction
  BY <1>1, <1>2, <1>20, KeptType, NewSegmentIs, AfterIs DEF StartCompaction, NoNewSegment
<1>21. CASE PumpDone \/ PumpTimeout
  BY <1>1, <1>2, <1>21, AfterIs DEF PumpDone, PumpTimeout
<1>22. CASE FinalManifest
  <2>1. pc' = "stopped" /\ pc # "down" /\ UNCHANGED <<wal, lastBase, needsInitial, snapper>>
    BY <1>22 DEF FinalManifest
  <2>2. CASE man' = man
    BY <1>1, <2>1, <2>2
  <2>3. CASE man.snap # 0 /\ man' = [man EXCEPT !.seq = Larger(durSeq, man.seq)]
    <3>1. man'.snap = man.snap /\ man'.segs = man.segs
      BY <1>1, <2>3 DEF TypeOK
    <3> QED
      BY <1>1, <2>1, <2>3, <3>1
  <2> QED
    BY <1>22, <2>2, <2>3 DEF FinalManifest
<1> QED
  BY <1>3, <1>4, <1>5, <1>6, <1>7, <1>8, <1>9, <1>10, <1>11, <1>12, <1>13, <1>14, <1>15, <1>16,
     <1>17, <1>18, <1>19, <1>20, <1>21, <1>22 DEF Actor

LEMMA ControlCrash ==
    ASSUME IInv, Crash
    PROVE  Control'
<1>1. /\ pc' = "down" /\ mem' = [k \in Keys |-> 0] /\ ring' = <<>> /\ batch' = <<>>
      /\ wal' = 0 /\ lastBase' = 0 /\ durSeq' = 0 /\ needsInitial' = FALSE
      /\ snapper' = Idle /\ fresh' = [k \in Keys |-> 0] /\ UNCHANGED man
  BY DEF Crash
<1>2. Idle.current = FALSE
  BY DEF Idle
<1> QED
  BY <1>1, <1>2 DEF IInv, Control

LEMMA ControlRecovery ==
    ASSUME IInv, Recovery
    PROVE  Control'
<1>1. /\ pc = "down" /\ pc' = "wait" /\ snapper' = Idle
      /\ needsInitial = FALSE
  BY DEF Recovery, RestartEmpty, Restart, RestartAfterGap, IInv, Control
<1>2. Idle.current = FALSE /\ Idle.st = "none"
  BY DEF Idle
<1>3. CASE RestartEmpty
  BY <1>1, <1>2, <1>3 DEF RestartEmpty, IInv, Control
<1>4. CASE Restart
  BY <1>1, <1>2, <1>4 DEF Restart, IInv, Control
<1>5. CASE RestartAfterGap
  <2> DEFINE kept == SubSeq(man.segs, 1, ReadEnd(man, segFile) - 1)
  <2>1. kept \in Seq(Nat) /\ PlanNext \in Nat /\ man.segs \in Seq(Nat)
    <3>1. man.segs \in Seq(Nat) /\ man.snap # 0
      BY <1>5 DEF RestartAfterGap, IInv, TypeOK
    <3>2. ReadEnd(man, segFile) - 1 \in 0..Len(man.segs)
      BY <3>1, ReadIs
    <3>3. kept \in Seq(Nat)
      BY <3>1, <3>2
    <3> QED
      BY <3>1, <3>3, PlanIs
  <2> HIDE DEF kept
  <2>2. /\ man' = [man EXCEPT !.segs = Append(kept, PlanNext)] /\ man.snap # 0
        /\ wal' = PlanNext /\ lastBase' = PlanNext /\ UNCHANGED needsInitial
    BY <1>5 DEF RestartAfterGap, kept
  <2>3. man'.snap = man.snap /\ man'.segs = Append(kept, PlanNext)
    BY <2>2 DEF IInv, TypeOK
  <2>4. PlanNext = man'.segs[Len(man'.segs)]
    BY <2>1, <2>3
  <2> QED
    BY <1>1, <1>2, <2>2, <2>3, <2>4 DEF IInv, Control
<1> QED
  BY <1>3, <1>4, <1>5 DEF Recovery

LEMMA ControlNext ==
    ASSUME IInv, [Next]_vars
    PROVE  Control'
<1>1. CASE UNCHANGED vars
  BY <1>1 DEF vars, plane, actor, disk, history, IInv, Control
<1> QED
  BY <1>1, ControlOthers, ControlActor, ControlCrash, ControlRecovery DEF Next

-----------------------------------------------------------------------------
(* Segments *)

\* A list of segments survives a change of the files that keeps those it names and adds
\* no records to them.
LEMMA SegmentsKept ==
    ASSUME IInv, UNCHANGED man,
           ToSet(man.segs) \subseteq DOMAIN segFile',
           \A b \in ToSet(man.segs) : ToSet(segFile'[b].recs) \subseteq ToSet(segFile[b].recs),
           wal' # 0 => wal' \in DOMAIN segFile'
    PROVE  Segments'
<1>1. man.segs \in Seq(Nat) /\ Ordered(man.segs, segFile)
  BY DEF IInv, TypeOK, Segments
<1>2. Ordered(man.segs, segFile')
  BY <1>1, OrderedFiles
<1> QED
  BY <1>2 DEF IInv, Segments

LEMMA SegmentsUnchanged ==
    ASSUME IInv, UNCHANGED <<man, segFile, wal>>
    PROVE  Segments'
BY DEF IInv, Segments, Ordered

LEMMA SegmentsActor ==
    ASSUME IInv, Actor
    PROVE  Segments'
<1> USE DEF plane, actor, disk, history
<1>1. /\ man.segs \in Seq(Nat) /\ Ordered(man.segs, segFile) /\ wal \in Nat /\ snapper.seq \in Nat
      /\ wal # 0 => wal \in DOMAIN segFile
      /\ Segs(segFile) /\ Current \in Nat /\ man.snap \in Nat
  BY DEF IInv, TypeOK, Segments, Segs, Current
<1>2. ASSUME NEW b, b \in Nat PROVE
         /\ <<b>> \in Seq(Nat) /\ Len(<<b>>) \in 1..MaxSegments
         /\ b \in DOMAIN segFile => Ordered(<<b>>, segFile)
         /\ Ordered(<<b>>, Written(segFile, b, EmptySegment))
  <2>1. <<b>> \in Seq(Nat) /\ Len(<<b>>) = 1 /\ ToSet(<<b>>) = {b}
    BY <1>2 DEF ToSet
  <2>2. b \in DOMAIN Written(segFile, b, EmptySegment)
    BY DEF Written
  <2> QED
    BY <2>1, <2>2, SegmentsAssumption DEF Ordered
<1>3. CASE UNCHANGED <<man, segFile, wal>>
  BY <1>3, SegmentsUnchanged
<1>4. CASE WriteR2
  <2>1. CASE man' = [snap |-> snapper.seq, segs |-> <<wal>>, seq |-> Larger(durSeq, snapper.seq)] /\ wal # 0
    <3>1. man'.segs = <<wal>> /\ UNCHANGED <<segFile, wal>>
      BY <1>4, <2>1 DEF WriteR2
    <3> QED
      BY <1>1, <1>2, <2>1, <3>1 DEF Segments
  <2> QED
    BY <1>3, <1>4, <2>1 DEF WriteR2
<1>5. CASE UnlinkOld
  <2>1. /\ man.segs = <<wal>> /\ wal # 0 /\ UNCHANGED <<man, wal>>
        /\ segFile' = Removed(segFile, ToSet(old.segs) \ {wal})
    BY <1>5 DEF UnlinkOld, IInv, Control
  <2>2. ToSet(man.segs) = {wal}
    BY <2>1 DEF ToSet
  <2>3. wal \in DOMAIN segFile' /\ segFile'[wal] = segFile[wal]
    BY <1>1, <2>1 DEF Removed
  <2> QED
    BY <2>1, <2>2, <2>3, SegmentsKept
<1>6. CASE InitialCommit
  <2> DEFINE S == snapper.seq
  <2>1. man.snap = 0 /\ man.segs = <<>>
    BY <1>6 DEF InitialCommit, IInv, Control, NoManifest
  <2>2. CASE /\ man' = [snap |-> S, segs |-> <<S + 1>>, seq |-> S]
             /\ segFile' = Written(segFile, S + 1, EmptySegment) /\ wal' = S + 1
    <3>1. man'.segs = <<S + 1>> /\ S + 1 \in Nat
      BY <1>1, <2>2
    <3>2. S + 1 \in DOMAIN segFile'
      BY <2>2 DEF Written
    <3> QED
      BY <1>2, <2>2, <3>1, <3>2 DEF Segments
  <2>3. CASE UNCHANGED man /\ segFile' = Written(segFile, S + 1, EmptySegment) /\ wal' = S + 1
    <3>1. ToSet(man.segs) = {} /\ S + 1 \in DOMAIN segFile'
      BY <2>1, <2>3 DEF Written, ToSet
    <3> QED
      BY <2>3, <3>1, SegmentsKept
  <2> QED
    BY <1>3, <1>6, <2>2, <2>3 DEF InitialCommit
<1>7. CASE RotateForAppend
  <2>1. man.snap # 0 /\ pc # "down"
    BY <1>7 DEF RotateForAppend, IInv, Control
  <2>2. CASE Len(man.segs) < MaxSegments - 1 /\ NewSegment(KeptSegments(man.segs, man.snap))
    <3>1. Len(KeptSegments(man.segs, man.snap)) <= MaxSegments - 1
      BY <2>1, <2>2, KeptType, SegmentsAssumption
    <3> QED
      BY <2>1, <2>2, <3>1, NewSegmentIs
  <2> QED
    BY <1>3, <1>7, <2>2 DEF RotateForAppend, NoNewSegment
<1>8. CASE ResyncAfterFailure
  <2>1. CASE /\ man.snap # 0 /\ Len(man.segs) < MaxSegments - 1
             /\ NewSegment(KeptSegments(man.segs, man.snap))
    <3>1. Len(KeptSegments(man.segs, man.snap)) <= MaxSegments - 1
      BY <2>1, KeptType, SegmentsAssumption
    <3>2. pc # "down"
      BY <1>8 DEF ResyncAfterFailure
    <3> QED
      BY <2>1, <3>1, <3>2, NewSegmentIs
  <2> QED
    BY <1>3, <1>8, <2>1 DEF ResyncAfterFailure, NoNewSegment
<1>9. CASE StartCompaction
  <2>1. CASE /\ Len(KeptSegments(man.segs, man.snap)) <= MaxSegments - 1
             /\ NewSegment(KeptSegments(man.segs, man.snap))
    <3>1. man.snap # 0 /\ pc # "down"
      BY <1>9 DEF StartCompaction
    <3> QED
      BY <2>1, <3>1, NewSegmentIs
  <2> QED
    BY <1>3, <1>9, <2>1 DEF StartCompaction, NoNewSegment
<1>10. CASE AppendBatch
  <2>1. CASE segFile' = [segFile EXCEPT ![wal].recs = @ \o Coalesce(log, batch)]
    <3>1. /\ UNCHANGED <<man, wal>> /\ DOMAIN segFile' = DOMAIN segFile
          /\ \A b \in DOMAIN segFile : b # wal => segFile'[b] = segFile[b]
      BY <1>10, <2>1 DEF AppendBatch
    <3>2. CASE man.snap = 0
      <4>1. ToSet(man.segs) = {}
        BY <3>2 DEF IInv, Control, NoManifest, ToSet
      <4> QED
        BY <1>1, <3>1, <4>1, SegmentsKept
    <3>3. CASE man.snap # 0
      <4>1. wal = man.segs[Len(man.segs)]
        BY <1>10, <3>3 DEF AppendBatch, IInv, Control
      <4>2. ASSUME NEW i \in 1..Len(man.segs), NEW j \in 1..Len(man.segs), i < j
            PROVE  segFile'[man.segs[i]] = segFile[man.segs[i]]
        <5>1. Len(man.segs) \in 1..Len(man.segs) /\ i < Len(man.segs)
          BY <1>1, <4>2
        <5>2. man.segs[i] < wal /\ man.segs[i] \in Nat
          <6>1. man.segs[i] < man.segs[Len(man.segs)]
            BY <1>1, <5>1 DEF Ordered
          <6>2. man.segs[i] \in Nat
            BY <1>1
          <6> QED
            BY <4>1, <6>1, <6>2
        <5>3. man.segs[i] \in DOMAIN segFile /\ man.segs[i] # wal
          BY <1>1, <5>2 DEF Ordered, ToSet
        <5> QED
          BY <3>1, <5>3
      <4>3. Ordered(man.segs, segFile')
        BY <1>1, <3>1, <4>2 DEF Ordered
      <4> QED
        BY <1>1, <3>1, <4>3 DEF IInv, Segments
    <3> QED
      BY <3>2, <3>3
  <2> QED
    BY <1>3, <1>10, <2>1 DEF AppendBatch
<1>11. CASE SyncBatch
  <2>1. CASE segFile' = [segFile EXCEPT ![wal].dur = Len(segFile[wal].recs)]
    <3>1. /\ UNCHANGED <<man, wal>> /\ DOMAIN segFile' = DOMAIN segFile
          /\ \A b \in DOMAIN segFile : segFile'[b].recs = segFile[b].recs
      BY <1>1, <1>11, <2>1 DEF SyncBatch, Segs
    <3> QED
      BY <1>1, <3>1, SegmentsKept DEF Ordered
  <2> QED
    BY <1>3, <1>11, <2>1 DEF SyncBatch
<1>12. CASE FinalManifest
  <2>1. man'.segs = man.segs /\ man'.snap = man.snap /\ UNCHANGED <<segFile, wal>>
    BY <1>12 DEF FinalManifest, IInv, TypeOK
  <2> QED
    BY <2>1 DEF IInv, Segments, Ordered
<1>13. CASE \/ WaitTimeout \/ Shutdown \/ Message \/ RenameSnapshot \/ TakeBatch \/ InitialCompact
            \/ InitialSnapshotFailed \/ AppendNowhere \/ Decide \/ DecideThreshold \/ DrainMore
            \/ DrainEnd \/ StartRefused \/ StartNotNeeded \/ PumpDone \/ PumpTimeout
  BY <1>3, <1>13 DEF WaitTimeout, Shutdown, Message, SnapshotFailed, SnapshotStale, SnapshotDone,
     RenameSnapshot, TakeBatch, InitialCompact, InitialSnapshotFailed, AppendNowhere, Decide,
     DecideThreshold, DrainMore, DrainEnd, StartRefused, StartNotNeeded, PumpDone, PumpTimeout
<1> QED
  BY <1>4, <1>5, <1>6, <1>7, <1>8, <1>9, <1>10, <1>11, <1>12, <1>13 DEF Actor

LEMMA SegmentsRecovery ==
    ASSUME IInv, Recovery
    PROVE  Segments'
<1>1. /\ man.segs \in Seq(Nat) /\ Ordered(man.segs, segFile) /\ Segs(segFile)
      /\ wal = 0 /\ Current \in Nat
  <2>1. pc = "down"
    BY DEF Recovery, RestartEmpty, Restart, RestartAfterGap
  <2> QED
    BY <2>1 DEF IInv, TypeOK, Segments, Segs, Current, Control
<1>2. CASE RestartEmpty
  <2>1. ToSet(man.segs) = {}
    BY <1>2 DEF RestartEmpty, IInv, Control, NoManifest, ToSet
  <2>2. UNCHANGED <<man, wal>>
    BY <1>2 DEF RestartEmpty
  <2> QED
    BY <1>1, <2>1, <2>2, SegmentsKept
<1>3. CASE Restart
  <2> DEFINE last == man.segs[Len(man.segs)]
  <2>1. last \in ToSet(man.segs)
    BY <1>1, <1>3, KeptType DEF Restart, ToSet
  <2> HIDE DEF last
  <2>2. /\ UNCHANGED man /\ wal' \in {0, last}
        /\ segFile' = [b \in DOMAIN segFile \cap ToSet(man.segs) |->
                          IF b = last THEN [segFile[b] EXCEPT !.torn = FALSE] ELSE segFile[b]]
    BY <1>3 DEF Restart, last
  <2>3. \A b \in DOMAIN segFile : [segFile[b] EXCEPT !.torn = FALSE].recs = segFile[b].recs
    BY <1>1 DEF Segs
  <2>4. /\ ToSet(man.segs) \subseteq DOMAIN segFile'
        /\ \A b \in ToSet(man.segs) : segFile'[b].recs = segFile[b].recs
    BY <1>1, <2>2, <2>3 DEF Ordered
  <2> QED
    BY <2>1, <2>2, <2>4, SegmentsKept
<1>4. CASE RestartAfterGap
  <2> DEFINE n == ReadEnd(man, segFile) - 1
             kept == SubSeq(man.segs, 1, n)
             keptFiles == [b \in DOMAIN segFile \cap ToSet(kept) |-> segFile[b]]
  <2>1. man.snap # 0 /\ HasGap(man, segFile)
    BY <1>4 DEF RestartAfterGap
  <2>2. n \in 0..(Len(man.segs) - 2) /\ Len(man.segs) \in 1..MaxSegments
    BY <1>1, <2>1, ReadIs DEF IInv, Segments
  <2> HIDE DEF n
  <2>3. kept \in Seq(Nat) /\ Len(kept) = n /\ \A i \in 1..n : kept[i] = man.segs[i] /\ i \in 1..Len(man.segs)
    BY <1>1, <2>2
  <2>4. /\ man'.segs = Append(kept, PlanNext) /\ wal' = PlanNext /\ man'.snap = man.snap
        /\ segFile' = Written(keptFiles, PlanNext, EmptySegment)
    BY <1>4 DEF RestartAfterGap, IInv, TypeOK, n
  <2>5. /\ PlanNext \in Nat /\ PlanNext >= MaxSeen + 1 /\ MaxSeen \in Nat
        /\ \A b \in ToSet(man.segs) : b < PlanNext
        /\ \A s \in ReadRecords(man, segFile) : s <= MaxSeen /\ s \in Nat
    BY <1>1, <2>1, PlanIs, ReadIs
  <2> HIDE DEF kept
  <2>6. Ordered(kept, segFile) /\ ToSet(kept) \subseteq ToSet(man.segs)
    <3>1. \A i \in 1..Len(kept) : kept[i] = man.segs[0 + i] /\ 0 + i \in 1..Len(man.segs)
      BY <2>3, <2>2
    <3> QED
      BY <1>1, <2>3, <3>1, OrderedPart
  <2>7. /\ ToSet(kept) \subseteq DOMAIN keptFiles
        /\ \A b \in ToSet(kept) : keptFiles[b] = segFile[b]
    BY <2>6 DEF Ordered
  <2> HIDE DEF keptFiles
  <2>8. Ordered(kept, keptFiles)
    BY <2>3, <2>6, <2>7, OrderedFiles
  <2>9. \A i \in 1..Len(kept) : kept[i] < PlanNext
    BY <2>5, <2>6 DEF ToSet
  <2>10. \A i \in 1..Len(kept) : \A s \in ToSet(keptFiles[kept[i]].recs) : s < PlanNext
    <3> TAKE i \in 1..Len(kept)
    <3>1. kept[i] \in ToSet(kept)
      BY <2>3 DEF ToSet
    <3>2. keptFiles[kept[i]] = segFile[man.segs[i]] /\ i \in 1..Len(man.segs) /\ i <= ReadEnd(man, segFile)
      <4>1. ReadEnd(man, segFile) \in Nat /\ i \in 1..(ReadEnd(man, segFile) - 1)
        BY <1>1, <2>3, ReadIs DEF n
      <4> QED
        BY <2>3, <2>7, <3>1, <4>1
    <3>3. ToSet(keptFiles[kept[i]].recs) \subseteq ReadRecords(man, segFile)
      BY <3>2 DEF ReadRecords
    <3> QED
      BY <3>3, <2>5
  <2>11. Ordered(man'.segs, segFile')
    BY <2>3, <2>4, <2>5, <2>8, <2>9, <2>10, OrderedAppend
  <2>12. Len(man'.segs) \in 1..MaxSegments /\ wal' \in DOMAIN segFile'
    BY <2>2, <2>3, <2>4, SegmentsAssumption DEF Written
  <2> QED
    BY <2>11, <2>12 DEF Segments
<1> QED
  BY <1>2, <1>3, <1>4 DEF Recovery

LEMMA SegmentsNext ==
    ASSUME IInv, [Next]_vars
    PROVE  Segments'
<1> USE DEF plane, actor, disk, history
<1>1. CASE Crash
  <2>1. UNCHANGED man /\ wal' = 0
    BY <1>1 DEF Crash
  <2>2. \A b \in ToSet(man.segs) : b \in DOMAIN segFile
    BY DEF IInv, Segments, Ordered
  <2> QED
    BY <1>1, <2>1, <2>2, CrashIs, SegmentsKept DEF IInv
<1>2. CASE Client \/ WriteSnapshotFile
  BY <1>2, SegmentsUnchanged DEF Client, PutWithRoom, PutEvicting, DeleteMemory, DeleteLog, Clear,
     Migrate, HotSwap, WriteSnapshotFile
<1>3. CASE UNCHANGED vars
  BY <1>3, SegmentsUnchanged DEF vars
<1> QED
  BY <1>1, <1>2, <1>3, SegmentsActor, SegmentsRecovery DEF Next

-----------------------------------------------------------------------------
(* Numbers *)

\* The records of a set of files were issued.
RecordsIssued(files, n) == \A b \in DOMAIN files : \A s \in ToSet(files[b].recs) : s <= n

LEMMA NumbersIs ==
    ASSUME IInv
    PROVE  /\ Current \in Nat /\ Current >= 1
           /\ ring \in Seq(Nat) /\ ToSet(ring) \in SUBSET (0..Current)
           /\ batch \in Seq(Nat) /\ ToSet(batch) \in SUBSET (0..Current)
           /\ durSeq \in 0..Current /\ man.seq \in 0..Current /\ man.snap \in 0..Current
           /\ snapper.seq \in Nat /\ (snapper.st # "none" => snapper.seq \in 1..Current)
           /\ RecordsIssued(segFile, Current)
<1>1. /\ Current \in Nat /\ Current >= 1 /\ ring \in Seq(Nat) /\ batch \in Seq(Nat)
      /\ durSeq \in Nat /\ man.seq \in Nat /\ man.snap \in Nat /\ snapper.seq \in Nat
  BY DEF IInv, TypeOK, Issued, Current
<1>2. (\A s \in ToSet(ring) : s \in Nat) /\ (\A s \in ToSet(batch) : s \in Nat)
  BY <1>1 DEF ToSet
<1>3. ToSet(ring) \in SUBSET (0..Current) /\ ToSet(batch) \in SUBSET (0..Current)
  BY <1>1, <1>2 DEF IInv, Issued
<1>4. man.snap \in 0..Current
  BY <1>1 DEF IInv, Snapshots, Sound, Current
<1>5. durSeq \in 0..Current /\ man.seq \in 0..Current /\ RecordsIssued(segFile, Current)
  BY <1>1 DEF IInv, Issued, RecordsIssued
<1>6. snapper.st # "none" => snapper.seq \in 1..Current
  BY DEF IInv, Snapshots
<1> QED
  BY <1>1, <1>3, <1>4, <1>5, <1>6

\* A step that adds to the log and queues what it added.
LEMMA IssuedOffer ==
    ASSUME IInv, NEW e \in Seq(Nat), Offer(e), Current' \in Nat, Current' >= Current,
           \A s \in ToSet(e) : s <= Current',
           mem' \in [Keys -> Nat], \A k \in Keys : mem'[k] \in {0, mem[k]} \/ mem'[k] <= Current',
           UNCHANGED <<batch, durSeq, man, segFile>>
    PROVE  Issued'
<1>1. \A s \in ToSet(ring') \cup ToSet(batch') : s <= Current'
  <2>1. ToSet(ring') \subseteq ToSet(ring) \cup ToSet(e)
    BY OfferIs DEF IInv
  <2>2. \A s \in ToSet(ring) \cup ToSet(batch) : s \in Nat /\ s <= Current
    BY NumbersIs
  <2>3. batch' = batch /\ Current \in Nat
    BY NumbersIs
  <2>4. \A s \in ToSet(ring) \cup ToSet(batch) : s <= Current'
    BY <2>2, <2>3
  <2> QED
    BY <2>1, <2>3, <2>4
<1>2. \A k \in Keys : mem'[k] <= Current'
  <2>1. \A k \in Keys : mem[k] \in Nat /\ mem[k] <= Current
    BY DEF IInv, TypeOK, Issued
  <2> TAKE k \in Keys
  <2>2. mem'[k] = 0 \/ mem'[k] = mem[k] \/ mem'[k] <= Current'
    OBVIOUS
  <2>3. Current \in Nat /\ mem[k] \in Nat /\ mem[k] <= Current
    BY <2>1, NumbersIs
  <2> QED
    BY <2>2, <2>3
<1>3. durSeq' <= Current' /\ man'.seq <= Current' /\ Current' >= 1
  BY NumbersIs
<1>4. \A b \in DOMAIN segFile' : \A s \in ToSet(segFile'[b].recs) : s <= Current'
  <2> SUFFICES ASSUME NEW b \in DOMAIN segFile, NEW s \in ToSet(segFile[b].recs)
               PROVE  s <= Current'
    OBVIOUS
  <2>1. segFile[b].recs \in Seq(Nat)
    BY DEF IInv, TypeOK
  <2>2. s \in Nat /\ s <= Current
    BY <2>1, NumbersIs DEF RecordsIssued, ToSet
  <2> QED
    BY <2>2, NumbersIs
<1> QED
  BY <1>1, <1>2, <1>3, <1>4 DEF Issued

LEMMA IssuedClient ==
    ASSUME IInv, Client
    PROVE  Issued'
<1> USE DEF plane, actor, disk, history
<1>1. TypeOK' /\ Current \in Nat /\ log \in Seq(Events) /\ mem \in [Keys -> Nat]
  BY TypeClient, NumbersIs DEF IInv, TypeOK
<1>2. mem' \in [Keys -> Nat] /\ Current' \in Nat
  <2>1. mem' \in [Keys -> Nat] /\ log' \in Seq(Events)
    BY <1>1 DEF TypeOK
  <2> QED
    BY <2>1 DEF Current
<1>3. ASSUME NEW k \in Keys, PutWithRoom(k) PROVE Issued'
  <2>1. Current' = Current + 1 /\ ToSet(<<Current + 1>>) = {Current + 1}
    BY <1>1, <1>3 DEF PutWithRoom, Current, ToSet
  <2>2. <<Current + 1>> \in Seq(Nat)
    BY <1>1
  <2>3. \A j \in Keys : mem'[j] \in {0, mem[j]} \/ mem'[j] <= Current'
    BY <1>1, <1>3, <2>1 DEF PutWithRoom
  <2>4. Offer(<<Current + 1>>) /\ UNCHANGED <<batch, durSeq, man, segFile>>
    BY <1>3 DEF PutWithRoom
  <2>5. Current' >= Current /\ \A s \in ToSet(<<Current + 1>>) : s <= Current'
    BY <1>1, <2>1
  <2> QED
    BY <1>2, <2>2, <2>3, <2>4, <2>5, IssuedOffer
<1>4. ASSUME NEW k \in Keys, NEW v \in Keys, PutEvicting(k, v) PROVE Issued'
  <2> DEFINE e == <<Current + 2, Current + 1>>
  <2>1. Current' = Current + 2 /\ ToSet(e) = {Current + 1, Current + 2}
    <3>1. Len(log') = Len(log) + 2
      BY <1>1, <1>4 DEF PutEvicting
    <3> QED
      BY <1>1, <3>1 DEF Current, ToSet
  <2>2. e \in Seq(Nat)
    BY <1>1
  <2>3. \A j \in Keys : mem'[j] \in {0, mem[j]} \/ mem'[j] <= Current'
    BY <1>1, <1>4, <2>1 DEF PutEvicting
  <2>4. Offer(e) /\ UNCHANGED <<batch, durSeq, man, segFile>>
    BY <1>4 DEF PutEvicting
  <2>5. Current' >= Current /\ \A s \in ToSet(e) : s <= Current'
    BY <1>1, <2>1
  <2> HIDE DEF e
  <2> QED
    BY <1>2, <2>2, <2>3, <2>4, <2>5, IssuedOffer
<1>5. ASSUME NEW k \in Keys, DeleteMemory(k) PROVE Issued'
  <2>1. \A j \in Keys : mem'[j] \in {0, mem[j]}
    BY <1>1, <1>5 DEF DeleteMemory
  <2>2. UNCHANGED <<log, ring, batch, durSeq, man, segFile>>
    BY <1>5 DEF DeleteMemory
  <2>3. \A j \in Keys : mem[j] <= Current /\ 0 <= Current
    <3>1. \A j \in Keys : mem[j] <= Current
      BY DEF IInv, Issued
    <3> QED
      BY <3>1, NumbersIs
  <2>4. \A j \in Keys : mem'[j] <= Current
    BY <2>1, <2>3
  <2> QED
    BY <2>2, <2>4 DEF IInv, Issued, Current
<1>6. ASSUME NEW k \in Keys, DeleteLog(k) PROVE Issued'
  <2>1. Current' = Current + 1 /\ ToSet(<<Current + 1>>) = {Current + 1}
    BY <1>1, <1>6 DEF DeleteLog, Current, ToSet
  <2>2. <<Current + 1>> \in Seq(Nat)
    BY <1>1
  <2>3. Offer(<<Current + 1>>) /\ UNCHANGED <<mem, batch, durSeq, man, segFile>>
    BY <1>6 DEF DeleteLog
  <2>4. Current' >= Current /\ \A s \in ToSet(<<Current + 1>>) : s <= Current'
    BY <1>1, <2>1
  <2> QED
    BY <1>2, <2>2, <2>3, <2>4, IssuedOffer
<1>7. CASE Clear
  <2>1. Current' = Current + 1 /\ ToSet(<<Current + 1>>) = {Current + 1}
    BY <1>1, <1>7 DEF Clear, Current, ToSet
  <2>2. <<Current + 1>> \in Seq(Nat)
    BY <1>1
  <2>3. Offer(<<Current + 1>>) /\ UNCHANGED <<batch, durSeq, man, segFile>> /\ \A j \in Keys : mem'[j] = 0
    BY <1>7 DEF Clear
  <2>4. Current' >= Current /\ \A s \in ToSet(<<Current + 1>>) : s <= Current'
    BY <1>1, <2>1
  <2> QED
    BY <1>2, <2>2, <2>3, <2>4, IssuedOffer
<1>8. ASSUME NEW k \in Keys, Migrate(k) PROVE Issued'
  BY <1>8 DEF Migrate, IInv, Issued, Current
<1>9. CASE HotSwap
  <2>1. UNCHANGED <<log, ring, batch, durSeq, man, segFile>>
    BY <1>9 DEF HotSwap
  <2>2. \A j \in Keys : mem'[j] \in {0, fresh[j]}
    BY <1>9 DEF HotSwap
  <2>3. \A j \in Keys : fresh[j] <= Current /\ 0 <= Current
    BY NumbersIs DEF IInv, Swapped
  <2>4. \A j \in Keys : mem'[j] <= Current
    BY <2>2, <2>3
  <2> QED
    BY <2>1, <2>4 DEF IInv, Issued, Current
<1> QED
  BY <1>3, <1>4, <1>5, <1>6, <1>7, <1>8, <1>9 DEF Client

\* A step that leaves the log and the memory alone and moves only numbers that were issued.
LEMMA IssuedMoved ==
    ASSUME IInv, UNCHANGED <<log, mem>>,
           ToSet(ring') \subseteq ToSet(ring),
           ToSet(batch') \subseteq ToSet(ring) \cup ToSet(batch),
           durSeq' \in 0..Current, man'.seq \in 0..Current,
           RecordsIssued(segFile', Current)
    PROVE  Issued'
<1>1. Current' = Current /\ Current \in Nat
  BY NumbersIs DEF Current
<1>2. \A s \in ToSet(ring') \cup ToSet(batch') : s <= Current
  BY NumbersIs DEF IInv, Issued
<1>3. durSeq' <= Current /\ man'.seq <= Current
  BY <1>1
<1> QED
  BY <1>1, <1>2, <1>3 DEF IInv, Issued, RecordsIssued

LEMMA IssuedSame ==
    ASSUME IInv, UNCHANGED <<log, mem, durSeq, segFile>>, man'.seq = man.seq,
           ToSet(ring') \subseteq ToSet(ring),
           ToSet(batch') \subseteq ToSet(ring) \cup ToSet(batch)
    PROVE  Issued'
BY NumbersIs, IssuedMoved

\* A rotation adds no record.
LEMMA IssuedNewSegment ==
    ASSUME IInv, UNCHANGED <<log, mem, ring, durSeq>>, batch' \in {batch, <<>>},
           man.snap # 0, pc # "down",
           Len(KeptSegments(man.segs, man.snap)) <= MaxSegments - 1,
           NewSegment(KeptSegments(man.segs, man.snap))
    PROVE  Issued'
<1>1. ToSet(<<>>) = {} /\ ToSet(EmptySegment.recs) = {}
  BY DEF ToSet, EmptySegment
<1>2. ToSet(batch') \subseteq ToSet(batch)
  BY <1>1
<1>3. RecordsIssued(segFile', Current)
  BY <1>1, NewSegmentIs, NumbersIs DEF RecordsIssued
<1>4. man'.seq \in 0..Current
  BY NewSegmentIs, NumbersIs DEF Larger
<1> QED
  BY <1>2, <1>3, <1>4, NumbersIs, IssuedMoved

LEMMA IssuedActor ==
    ASSUME IInv, Actor
    PROVE  Issued'
<1> USE DEF plane, actor, disk, history
<1>1. /\ ToSet(<<>>) = {} /\ ToSet(EmptySegment.recs) = {}
      /\ man \in [snap : Nat, segs : Seq(Nat), seq : Nat] /\ Segs(segFile)
  BY DEF ToSet, EmptySegment, IInv, TypeOK, Segs
<1>2. CASE UNCHANGED <<log, mem, ring, batch, durSeq, man, segFile>>
  BY <1>2, IssuedSame
<1>3. CASE \/ WaitTimeout \/ Shutdown \/ Message \/ RenameSnapshot \/ InitialCompact
           \/ InitialSnapshotFailed \/ Decide \/ DecideThreshold
           \/ DrainEnd \/ StartRefused \/ StartNotNeeded \/ PumpDone \/ PumpTimeout
  BY <1>2, <1>3 DEF WaitTimeout, Shutdown, Message, SnapshotFailed, SnapshotStale, SnapshotDone,
     RenameSnapshot, InitialCompact, InitialSnapshotFailed, Decide,
     DecideThreshold, DrainEnd, StartRefused, StartNotNeeded, PumpDone, PumpTimeout
<1>4. CASE WriteR2
  <2>1. UNCHANGED <<log, mem, ring, batch, durSeq, segFile>>
    BY <1>4 DEF WriteR2
  <2>2. man'.seq \in 0..Current
    <3>1. CASE man' = [snap |-> snapper.seq, segs |-> <<wal>>, seq |-> Larger(durSeq, snapper.seq)]
      <4>1. snapper.seq \in 0..Current
        BY <1>4, NumbersIs DEF WriteR2, IInv, Control
      <4> QED
        BY <3>1, <4>1, NumbersIs DEF Larger
    <3>2. CASE UNCHANGED man
      BY <3>2, NumbersIs
    <3> QED
      BY <1>4, <3>1, <3>2 DEF WriteR2
  <2> QED
    BY <2>1, <2>2, NumbersIs, IssuedMoved
<1>5. CASE UnlinkOld
  <2>1. UNCHANGED <<log, mem, ring, batch, durSeq, man>>
    BY <1>5 DEF UnlinkOld
  <2>2. RecordsIssued(segFile', Current)
    BY <1>5, NumbersIs DEF UnlinkOld, Removed, RecordsIssued
  <2> QED
    BY <2>1, <2>2, NumbersIs, IssuedMoved
<1>6. CASE TakeBatch \/ DrainMore
  <2>1. batch' = SubSeq(ring, 1, Taken) /\ ring' = SubSeq(ring, Taken + 1, Len(ring))
    BY <1>6 DEF TakeBatch, DrainMore, Taken
  <2>2. ToSet(ring') \subseteq ToSet(ring) /\ ToSet(batch') \subseteq ToSet(ring)
    BY <2>1, TakenIs DEF IInv
  <2>3. UNCHANGED <<log, mem, durSeq, man, segFile>>
    BY <1>6 DEF TakeBatch, DrainMore
  <2> QED
    BY <2>2, <2>3, IssuedSame
<1>7. CASE InitialCommit
  <2>1. UNCHANGED <<log, mem, ring, batch, durSeq>> /\ snapper.seq \in 1..Current
    BY <1>7, NumbersIs DEF InitialCommit
  <2>2. man'.seq \in 0..Current
    BY <1>7, <2>1, NumbersIs DEF InitialCommit
  <2>3. RecordsIssued(segFile', Current)
    <3>1. segFile' = segFile \/ segFile' = Written(segFile, snapper.seq + 1, EmptySegment)
      BY <1>7 DEF InitialCommit
    <3>2. RecordsIssued(Written(segFile, snapper.seq + 1, EmptySegment), Current)
      BY <1>1, NumbersIs DEF Written, RecordsIssued
    <3> QED
      BY <3>1, <3>2, NumbersIs
  <2> QED
    BY <2>1, <2>2, <2>3, NumbersIs, IssuedMoved
<1>8. CASE RotateForAppend
  <2>1. CASE Len(man.segs) < MaxSegments - 1 /\ NewSegment(KeptSegments(man.segs, man.snap))
    <3>1. man.snap # 0 /\ pc # "down"
      BY <1>8 DEF RotateForAppend, IInv, Control
    <3>2. Len(KeptSegments(man.segs, man.snap)) <= MaxSegments - 1
      BY <2>1, <3>1, KeptType, SegmentsAssumption
    <3>3. UNCHANGED <<log, mem, ring, batch, durSeq>>
      BY <1>8 DEF RotateForAppend
    <3> QED
      BY <2>1, <3>1, <3>2, <3>3, IssuedNewSegment
  <2> QED
    BY <1>2, <1>8, <2>1 DEF RotateForAppend, NoNewSegment
<1>9. CASE AppendNowhere
  BY <1>1, <1>9, IssuedSame DEF AppendNowhere
<1>10. CASE AppendBatch
  <2>1. CASE segFile' = [segFile EXCEPT ![wal].recs = @ \o Coalesce(log, batch)]
    <3> DEFINE new == Coalesce(log, batch)
    <3>1. UNCHANGED <<log, mem, ring, batch, durSeq, man>> /\ wal \in DOMAIN segFile
      BY <1>10 DEF AppendBatch, IInv, Segments
    <3>2. new \in Seq(Nat) /\ ToSet(new) \subseteq 0..Current
      BY NumbersIs, CoalesceIs
    <3> HIDE DEF new
    <3>3. segFile[wal] \in [recs : Seq(Nat), dur : Nat, torn : BOOLEAN]
      BY <1>1, <3>1 DEF Segs
    <3>4. segFile'[wal].recs = segFile[wal].recs \o new
      BY <2>1, <3>1, <3>3 DEF new
    <3>5. ASSUME NEW s \in ToSet(segFile'[wal].recs) PROVE s <= Current
      <4> DEFINE a == segFile[wal].recs
      <4>1. a \in Seq(Nat)
        BY <3>3
      <4> HIDE DEF a
      <4>2. PICK i \in 1..(Len(a) + Len(new)) : s = (a \o new)[i]
        BY <3>2, <3>4, <3>5, <4>1 DEF ToSet, a
      <4>3. CASE i <= Len(a)
        <5>1. s = a[i] /\ i \in DOMAIN a
          BY <3>2, <4>1, <4>2, <4>3
        <5> QED
          BY <3>1, <5>1, NumbersIs DEF RecordsIssued, ToSet, a
      <4>4. CASE i > Len(a)
        <5>1. s = new[i - Len(a)] /\ i - Len(a) \in DOMAIN new
          BY <3>2, <4>1, <4>2, <4>4
        <5>2. s \in ToSet(new)
          BY <5>1 DEF ToSet
        <5> QED
          BY <3>2, <5>2, NumbersIs
      <4> QED
        BY <4>1, <4>2, <4>3, <4>4, <3>2
    <3>6. RecordsIssued(segFile', Current)
      BY <2>1, <3>5, NumbersIs DEF RecordsIssued
    <3> QED
      BY <3>1, <3>6, NumbersIs, IssuedMoved
  <2> QED
    BY <1>2, <1>10, <2>1 DEF AppendBatch
<1>11. CASE SyncBatch
  <2>1. CASE /\ segFile' = [segFile EXCEPT ![wal].dur = Len(segFile[wal].recs)]
             /\ durSeq' = Larger(durSeq, Largest(ToSet(batch))) /\ batch' = <<>>
    <3>1. UNCHANGED <<log, mem, ring, man>>
      BY <1>11 DEF SyncBatch
    <3>2. Largest(ToSet(batch)) \in 0..Current
      BY NumbersIs, LargestBelow
    <3>3. durSeq' \in 0..Current
      BY <2>1, <3>2, NumbersIs DEF Larger
    <3>4. DOMAIN segFile' = DOMAIN segFile /\ \A b \in DOMAIN segFile : segFile'[b].recs = segFile[b].recs
      BY <1>1, <2>1 DEF Segs
    <3>5. RecordsIssued(segFile', Current)
      BY <3>4, NumbersIs DEF RecordsIssued
    <3> QED
      BY <1>1, <2>1, <3>1, <3>3, <3>5, NumbersIs, IssuedMoved
  <2> QED
    BY <1>2, <1>11, <2>1 DEF SyncBatch
<1>12. CASE ResyncAfterFailure
  <2>1. UNCHANGED <<log, mem, ring, durSeq>> /\ batch' = <<>> /\ pc # "down"
    BY <1>12 DEF ResyncAfterFailure
  <2>2. CASE /\ man.snap # 0 /\ Len(man.segs) < MaxSegments - 1
             /\ NewSegment(KeptSegments(man.segs, man.snap))
    <3>1. Len(KeptSegments(man.segs, man.snap)) <= MaxSegments - 1
      BY <2>2, KeptType, SegmentsAssumption
    <3> QED
      BY <2>1, <2>2, <3>1, IssuedNewSegment
  <2>3. CASE UNCHANGED <<man, segFile>>
    BY <1>1, <2>1, <2>3, IssuedSame
  <2> QED
    BY <1>12, <2>2, <2>3 DEF ResyncAfterFailure, NoNewSegment
<1>13. CASE StartCompaction
  <2>1. UNCHANGED <<log, mem, ring, batch, durSeq>> /\ pc # "down" /\ man.snap # 0
    BY <1>13 DEF StartCompaction
  <2>2. CASE /\ Len(KeptSegments(man.segs, man.snap)) <= MaxSegments - 1
             /\ NewSegment(KeptSegments(man.segs, man.snap))
    BY <2>1, <2>2, IssuedNewSegment
  <2> QED
    BY <1>2, <1>13, <2>1, <2>2 DEF StartCompaction, NoNewSegment
<1>14. CASE FinalManifest
  <2>1. UNCHANGED <<log, mem, ring, batch, durSeq, segFile>>
    BY <1>14 DEF FinalManifest
  <2>2. man'.seq \in 0..Current
    BY <1>1, <1>14, NumbersIs DEF FinalManifest, Larger
  <2> QED
    BY <2>1, <2>2, NumbersIs, IssuedMoved
<1> QED
  BY <1>3, <1>4, <1>5, <1>6, <1>7, <1>8, <1>9, <1>10, <1>11, <1>12, <1>13, <1>14 DEF Actor

LEMMA IssuedRecovery ==
    ASSUME IInv, Recovery
    PROVE  Issued'
<1>1. /\ mem = [k \in Keys |-> 0] /\ ring = <<>> /\ batch = <<>> /\ durSeq = 0
      /\ UNCHANGED <<ring, batch>>
  BY DEF Recovery, RestartEmpty, Restart, RestartAfterGap, IInv, Control
<1>2. ToSet(ring') \cup ToSet(batch') = {} /\ ToSet(EmptySegment.recs) = {}
  BY <1>1 DEF ToSet, EmptySegment
<1>3. CASE RestartEmpty
  <2>1. Current' = 1 /\ UNCHANGED <<mem, durSeq, man>> /\ man.seq = 0 /\ DOMAIN segFile' = {}
    BY <1>3 DEF RestartEmpty, IInv, Control, NoManifest, Current, Removed
  <2>2. \A k \in Keys : mem'[k] <= Current'
    BY <1>1, <2>1
  <2> QED
    BY <1>1, <1>2, <2>1, <2>2 DEF Issued
<1>4. CASE Restart \/ RestartAfterGap
  <2>1. man.snap # 0 /\ Restored
    BY <1>4 DEF Restart, RestartAfterGap
  <2>2. /\ PlanNext \in Nat /\ MaxSeen \in Nat /\ PlanNext >= MaxSeen + 1 /\ Current' = PlanNext
        /\ durSeq' \in Nat /\ durSeq' <= MaxSeen
        /\ \A k \in Keys : mem'[k] \in {0, Recovered[k]}
    BY <2>1, NumbersIs, RestoredIs
  <2>3. \A k \in Keys : mem'[k] <= PlanNext
    <3> TAKE k \in Keys
    <3>1. Recovered[k] \in Nat /\ Recovered[k] <= MaxSeen
      BY <2>1, NumbersIs, RecoveredIs
    <3> QED
      BY <2>2, <3>1
  <2>4. man'.seq = man.seq /\ man.seq <= MaxSeen /\ man.seq \in Nat
    BY <1>4, <2>1, PlanIs DEF Restart, RestartAfterGap, IInv, TypeOK
  <2>5. /\ ReadEnd(man, segFile) \in Nat /\ man.segs \in Seq(Nat)
        /\ \A i \in 1..Len(man.segs) : i <= ReadEnd(man, segFile) =>
              \A s \in ToSet(segFile[man.segs[i]].recs) : s <= PlanNext
    <3>1. man.segs \in Seq(Nat)
      BY DEF IInv, TypeOK
    <3>2. \A i \in 1..Len(man.segs) : i <= ReadEnd(man, segFile) =>
              ToSet(segFile[man.segs[i]].recs) \subseteq ReadRecords(man, segFile)
      BY DEF ReadRecords
    <3>3. \A s \in ReadRecords(man, segFile) : s <= PlanNext
      <4>1. \A s \in ReadRecords(man, segFile) : s \in Nat /\ s <= MaxSeen
        BY <2>1, NumbersIs, PlanIs, ReadIs
      <4> QED
        BY <2>2, <4>1
    <3> QED
      BY <3>1, <3>2, <3>3, ReadIs
  <2>6. ASSUME NEW b \in DOMAIN segFile', NEW s \in ToSet(segFile'[b].recs) PROVE s <= PlanNext
    <3>1. CASE Restart
      <4>1. PICK i \in 1..Len(man.segs) : b = man.segs[i] /\ b \in DOMAIN segFile
        <5>1. b \in DOMAIN segFile /\ b \in ToSet(man.segs)
          BY <2>6, <3>1 DEF Restart
        <5>2. DOMAIN man.segs = 1..Len(man.segs)
          BY <2>5
        <5> QED
          BY <5>1, <5>2 DEF ToSet
      <4>2. segFile'[b].recs = segFile[b].recs
        <5>1. segFile[b] \in [recs : Seq(Nat), dur : Nat, torn : BOOLEAN]
          BY <4>1 DEF IInv, TypeOK
        <5>2. segFile'[b] = [segFile[b] EXCEPT !.torn = FALSE] \/ segFile'[b] = segFile[b]
          BY <2>6, <3>1 DEF Restart
        <5> QED
          BY <5>1, <5>2
      <4>3. i <= ReadEnd(man, segFile)
        BY <2>5, <3>1, ReadIs DEF Restart
      <4> QED
        BY <2>5, <2>6, <4>1, <4>2, <4>3
    <3>2. CASE RestartAfterGap
      <4> DEFINE n == ReadEnd(man, segFile) - 1
                 kept == SubSeq(man.segs, 1, n)
      <4>1. n \in 0..Len(man.segs)
        BY <2>5, ReadIs
      <4>2. DOMAIN kept = 1..n /\ \A i \in 1..n : kept[i] = man.segs[i] /\ i \in 1..Len(man.segs)
        BY <2>5, <4>1
      <4> HIDE DEF kept
      <4>3. segFile' = Written([c \in DOMAIN segFile \cap ToSet(kept) |-> segFile[c]],
                               PlanNext, EmptySegment)
        BY <3>2 DEF RestartAfterGap, kept
      <4>4. b # PlanNext /\ b \in ToSet(kept) /\ segFile'[b] = segFile[b]
        BY <1>2, <2>6, <4>3 DEF Written
      <4>5. PICK i \in 1..n : b = man.segs[i] /\ i \in 1..Len(man.segs)
        BY <4>2, <4>4 DEF ToSet
      <4>6. i <= ReadEnd(man, segFile)
        BY <2>5, <4>5
      <4> QED
        BY <2>5, <2>6, <4>4, <4>5, <4>6
    <3> QED
      BY <1>4, <3>1, <3>2
  <2> QED
    BY <1>2, <2>2, <2>3, <2>4, <2>6 DEF Issued
<1> QED
  BY <1>3, <1>4 DEF Recovery

LEMMA IssuedNext ==
    ASSUME IInv, [Next]_vars
    PROVE  Issued'
<1> USE DEF plane, actor, disk, history
<1>1. CASE Crash
  <2>1. /\ UNCHANGED <<log, man>> /\ mem' = [k \in Keys |-> 0]
        /\ ring' = <<>> /\ batch' = <<>> /\ durSeq' = 0
    BY <1>1 DEF Crash
  <2>2. ToSet(ring') \cup ToSet(batch') = {} /\ Current' = Current
    BY <2>1 DEF ToSet, Current
  <2>3. \A b \in DOMAIN segFile' : \A s \in ToSet(segFile'[b].recs) : s <= Current
    BY <1>1, CrashIs, NumbersIs DEF IInv, RecordsIssued
  <2>4. \A k \in Keys : mem'[k] <= Current
    BY <2>1, NumbersIs
  <2> QED
    BY <2>1, <2>2, <2>3, <2>4, NumbersIs DEF Issued
<1>2. CASE WriteSnapshotFile
  BY <1>2, IssuedSame DEF WriteSnapshotFile
<1>3. CASE UNCHANGED vars
  BY <1>3, IssuedSame DEF vars
<1> QED
  BY <1>1, <1>2, <1>3, IssuedClient, IssuedActor, IssuedRecovery DEF Next

-----------------------------------------------------------------------------
(* Snapshots *)

\* A snapshot stays sound when the log grows, or forgets events that left no trace.
LEMMA SoundLater ==
    ASSUME NEW lg, NEW lg2, Len(lg) \in Nat, Len(lg2) \in Nat,
           NEW data \in [Keys -> Nat], NEW S \in Nat, NEW un, NEW un2,
           Sound(lg, data, un, S), S <= Len(lg2),
           \A k \in Keys, s \in 1..S : s <= un[k] => s <= un2[k],
           \A s \in 1..Len(lg2) : s <= Len(lg) =>
               lg2[s] = Hole \/ (lg[s] \in Events /\ Recalled(lg[s], lg2[s]))
    PROVE  Sound(lg2, data, un2, S)
<1>1. S \in 1..Len(lg) /\ S \in 1..Len(lg2) /\ \A k \in Keys : data[k] <= S
  BY DEF Sound
<1>2. ASSUME NEW k \in Keys, data[k] # 0, NEW s \in (data[k] + 1)..S, Affects(lg2, s, k)
      PROVE  lg2[s].op = "late" \/ s <= un2[k]
  <2>1. s \in 1..Len(lg2) /\ s <= Len(lg)
    <3>1. data[k] \in Nat
      OBVIOUS
    <3> QED
      BY <3>1, <1>1, <1>2
  <2>2. lg2[s] # Hole
    BY <1>2 DEF Affects, IsClear, Hole
  <2>3. lg[s] \in Events /\ Recalled(lg[s], lg2[s])
    BY <2>1, <2>2
  <2>4. Affects(lg, s, k) /\ (lg2[s].op = "late" <=> lg[s].op = "late")
    <3>1. lg2[s].op = "late" <=> lg[s].op = "late"
      BY <2>3, RecalledIs
    <3>2. Affects(lg2, s, k) <=> Affects(lg, s, k)
      BY <2>3, RecalledAffects
    <3> QED
      BY <1>2, <3>1, <3>2
  <2>5. lg[s].op = "late" \/ s <= un[k]
    BY <1>2, <2>4 DEF Sound, NotStale
  <2>6. s \in 1..S
    BY <1>1, <1>2, <2>1
  <2> QED
    BY <2>4, <2>5, <2>6
<1> QED
  BY <1>1, <1>2 DEF Sound, NotStale

LEMMA SnapperTyped ==
    ASSUME IInv
    PROVE  /\ snapper.st \in {"none", "running", "done", "failed"} /\ snapper.seq \in Nat
           /\ snapper.data \in [Keys -> Nat] /\ snapper \in Snapper
           /\ \A s \in DOMAIN snapFile : s \in Nat /\ snapFile[s] \in [Keys -> Nat]
           /\ Current \in Nat /\ man.snap \in Nat
<1>1. snapper \in Snapper /\ man.snap \in Nat
  BY DEF IInv, TypeOK, Snapper
<1>2. \A s \in DOMAIN snapFile : s \in Nat /\ snapFile[s] \in [Keys -> Nat]
  BY DEF IInv, TypeOK
<1> QED
  BY <1>1, <1>2, NumbersIs DEF Snapper

\* The data plane adds to the log and touches no snapshot.
LEMMA SnapshotsGrow ==
    ASSUME IInv, Current' \in Nat, Current' >= Current,
           \A s \in 1..Current : log'[s] = log[s],
           \A k \in Keys, s \in 1..Current : s <= undone[k] => s <= undone'[k],
           UNCHANGED <<pc, man, snapFile>>,
           snapper'.st = snapper.st, snapper'.seq = snapper.seq, snapper'.data = snapper.data
    PROVE  Snapshots'
<1>1. \A data \in [Keys -> Nat], S \in Nat : Sound(log, data, undone, S) => Sound(log', data, undone', S)
  <2> TAKE data \in [Keys -> Nat], S \in Nat
  <2> HAVE Sound(log, data, undone, S)
  <2>1. /\ Len(log) \in Nat /\ Len(log') \in Nat /\ S <= Len(log')
        /\ \A s \in 1..Len(log') : s <= Len(log) => log[s] \in Events /\ Recalled(log[s], log'[s])
        /\ \A k \in Keys, s \in 1..S : s <= undone[k] => s <= undone'[k]
    <3>1. log \in Seq(Events) /\ Current = Len(log) /\ Current' = Len(log')
      BY DEF IInv, TypeOK, Current
    <3>2. \A s \in 1..Current : log[s] \in Events /\ Recalled(log[s], log'[s])
      BY <3>1 DEF Recalled
    <3>3. Len(log') \in Nat /\ Len(log') >= Len(log) /\ Len(log) \in Nat
      BY <3>1
    <3>4. S \in 1..Len(log)
      BY DEF Sound
    <3>5. \A s \in 1..Len(log') : s <= Len(log) => s \in 1..Current
      BY <3>1, <3>3
    <3>6. \A s \in 1..S : s \in 1..Current
      BY <3>1, <3>3, <3>4
    <3> QED
      BY <3>2, <3>3, <3>4, <3>5, <3>6
  <2> QED
    BY <2>1, SoundLater
<1>2. man.snap # 0 =>
         man.snap \in DOMAIN snapFile /\ Sound(log', snapFile[man.snap], undone', man.snap)
  BY <1>1, SnapperTyped DEF IInv, Snapshots
<1>3. snapper.st # "none" => snapper.seq \in 1..Current'
  BY SnapperTyped DEF IInv, Snapshots
<1>4. snapper.st = "done" => Sound(log', snapper.data, undone', snapper.seq)
  BY <1>1, SnapperTyped DEF IInv, Snapshots
<1> QED
  BY <1>2, <1>3, <1>4 DEF IInv, Snapshots

\* The actor moves on, its snapshot thread keeps its result or is done with.
LEMMA SnapshotsSame ==
    ASSUME IInv, UNCHANGED <<log, undone, snapFile>>, man'.snap = man.snap, pc' # "r2",
           \/ snapper'.st = "none"
           \/ snapper'.st = snapper.st /\ snapper'.seq = snapper.seq /\ snapper'.data = snapper.data
    PROVE  Snapshots'
BY DEF IInv, Snapshots, Current

\* A snapshot thread starts.
LEMMA SnapshotsStart ==
    ASSUME IInv, UNCHANGED <<log, undone, snapFile>>, man'.snap = man.snap, pc' # "r2",
           snapper'.st = "running", snapper'.seq = Current
    PROVE  Snapshots'
BY NumbersIs DEF IInv, Snapshots, Current

LEMMA SnapshotsActor ==
    ASSUME IInv, Actor
    PROVE  Snapshots'
<1> USE DEF plane, actor, disk, history, Goto, GotoIn
<1>1. /\ Idle.st = "none" /\ PlaceType /\ man \in [snap : Nat, segs : Seq(Nat), seq : Nat]
      /\ [snapper EXCEPT !.current = FALSE].st = snapper.st
      /\ [snapper EXCEPT !.current = FALSE].seq = snapper.seq
      /\ [snapper EXCEPT !.current = FALSE].data = snapper.data
  BY SnapperTyped, TypeParts DEF Idle, Snapper, IInv, TypeOK
<1>2. \A n \in Nat : /\ [Idle EXCEPT !.st = "running", !.seq = n].st = "running"
                     /\ [Idle EXCEPT !.st = "running", !.seq = n].seq = n
                     /\ [Idle EXCEPT !.st = "running", !.seq = n, !.current = TRUE].st = "running"
                     /\ [Idle EXCEPT !.st = "running", !.seq = n, !.current = TRUE].seq = n
  BY DEF Idle
<1>3. CASE RenameSnapshot
  <2>1. CASE Goto("r2") /\ snapFile' = Written(snapFile, snapper.seq, snapper.data) /\ UNCHANGED snapper
    <3>1. snapper.st = "done" /\ UNCHANGED <<log, undone, man>>
      BY <1>3 DEF RenameSnapshot, IInv, Control
    <3>2. /\ snapper.seq \in DOMAIN snapFile' /\ snapFile'[snapper.seq] = snapper.data
          /\ \A s \in DOMAIN snapFile :
                s \in DOMAIN snapFile' /\ (s # snapper.seq => snapFile'[s] = snapFile[s])
      BY <2>1 DEF Written
    <3>3. man.snap # 0 => man.snap \in DOMAIN snapFile'
                                  /\ Sound(log, snapFile'[man.snap], undone, man.snap)
      <4>1. CASE man.snap = snapper.seq
        BY <3>1, <3>2, <4>1 DEF IInv, Snapshots
      <4>2. CASE man.snap # snapper.seq
        BY <3>2, <4>2 DEF IInv, Snapshots
      <4> QED
        BY <4>1, <4>2
    <3> QED
      BY <2>1, <3>1, <3>2, <3>3 DEF IInv, Snapshots, Current
  <2>2. CASE snapper' = Idle /\ AfterMessage /\ UNCHANGED snapFile
    <3>1. pc' # "r2" /\ UNCHANGED <<log, undone, man>>
      BY <1>1, <1>3, <2>2, AfterIs DEF RenameSnapshot
    <3> QED
      BY <1>1, <2>2, <3>1, SnapshotsSame
  <2> QED
    BY <1>3, <2>1, <2>2 DEF RenameSnapshot
<1>4. CASE WriteR2
  <2>1. UNCHANGED <<log, undone, snapFile>> /\ snapper' = Idle
    BY <1>4 DEF WriteR2
  <2>2. CASE /\ Goto("unlink")
             /\ man' = [snap |-> snapper.seq, segs |-> <<wal>>, seq |-> Larger(durSeq, snapper.seq)]
    <3>1. man'.snap = snapper.seq
      BY <2>2
    <3>2. snapper.seq \in DOMAIN snapFile /\ Sound(log, snapFile[snapper.seq], undone, snapper.seq)
      BY <1>4 DEF WriteR2, IInv, Snapshots, Control
    <3> QED
      BY <1>1, <2>1, <2>2, <3>1, <3>2 DEF Snapshots
  <2>3. CASE UNCHANGED man /\ AfterMessage
    BY <1>1, <2>1, <2>3, AfterIs, SnapshotsSame
  <2> QED
    BY <1>4, <2>2, <2>3 DEF WriteR2
<1>5. CASE UnlinkOld
  <2>1. pc' # "r2" /\ UNCHANGED <<log, undone, man, snapper>>
    BY <1>1, <1>5, AfterIs DEF UnlinkOld
  <2>2. man.snap \in DOMAIN snapFile =>
           man.snap \in DOMAIN snapFile' /\ snapFile'[man.snap] = snapFile[man.snap]
    BY <1>5 DEF UnlinkOld, Removed
  <2> QED
    BY <2>1, <2>2 DEF IInv, Snapshots, Current
<1>6. CASE InitialCommit
  <2> DEFINE S == snapper.seq
  <2>1. /\ UNCHANGED <<log, undone>> /\ snapper' = Idle /\ pc' = "append" /\ man.snap = 0
        /\ Sound(log, snapper.data, undone, S)
    BY <1>6 DEF InitialCommit, IInv, Control, Snapshots
  <2>2. CASE /\ man' = [snap |-> S, segs |-> <<S + 1>>, seq |-> S]
             /\ snapFile' = Written(snapFile, S, snapper.data)
    <3>1. man'.snap = S /\ S \in DOMAIN snapFile' /\ snapFile'[S] = snapper.data
      BY <2>2 DEF Written
    <3> QED
      BY <1>1, <2>1, <3>1 DEF Snapshots
  <2>3. CASE UNCHANGED man
    BY <1>1, <2>1, <2>3 DEF Snapshots
  <2> QED
    BY <1>6, <2>2, <2>3 DEF InitialCommit
<1>7. CASE InitialCompact
  BY <1>2, <1>7, NumbersIs, SnapshotsStart DEF InitialCompact
<1>8. CASE StartCompaction
  <2>1. UNCHANGED <<log, undone, snapFile>> /\ pc' # "r2" /\ pc # "down" /\ man.snap # 0
    BY <1>1, <1>8, AfterIs DEF StartCompaction
  <2>2. man'.snap = man.snap
    <3>1. CASE NewSegment(KeptSegments(man.segs, man.snap))
      BY <3>1 DEF NewSegment
    <3> QED
      BY <1>8, <3>1 DEF StartCompaction, NoNewSegment
  <2>3. UNCHANGED snapper \/ snapper' = [Idle EXCEPT !.st = "running", !.seq = Current, !.current = TRUE]
    BY <1>8 DEF StartCompaction
  <2>4. CASE UNCHANGED snapper
    BY <2>1, <2>2, <2>4, SnapshotsSame
  <2>5. CASE snapper' = [Idle EXCEPT !.st = "running", !.seq = Current, !.current = TRUE]
    <3>1. snapper'.st = "running" /\ snapper'.seq = Current
      BY <1>2, <2>5, NumbersIs
    <3> QED
      BY <2>1, <2>2, <3>1, SnapshotsStart
  <2> QED
    BY <2>3, <2>4, <2>5
<1>9. CASE RotateForAppend
  <2>1. man'.snap = man.snap
    BY <1>9 DEF RotateForAppend, NewSegment, NoNewSegment
  <2> QED
    BY <1>9, <2>1, SnapshotsSame DEF RotateForAppend
<1>10. CASE ResyncAfterFailure
  <2>1. man'.snap = man.snap
    BY <1>10 DEF ResyncAfterFailure, NewSegment, NoNewSegment
  <2>2. UNCHANGED <<log, undone, snapFile, snapper>> /\ pc' # "r2"
    BY <1>1, <1>10, AfterIs DEF ResyncAfterFailure
  <2> QED
    BY <2>1, <2>2, SnapshotsSame
<1>11. CASE FinalManifest
  <2>1. man'.snap = man.snap
    BY <1>1, <1>11 DEF FinalManifest
  <2> QED
    BY <1>11, <2>1, SnapshotsSame DEF FinalManifest
<1>12. CASE \/ WaitTimeout \/ Shutdown \/ TakeBatch \/ AppendBatch \/ DrainMore \/ InitialSnapshotFailed
            \/ DecideThreshold
  <2>1. UNCHANGED <<log, undone, man, snapFile>> /\ (UNCHANGED snapper \/ snapper' = Idle) /\ pc' # "r2"
    BY <1>12 DEF WaitTimeout, Shutdown, TakeBatch, AppendBatch, DrainMore, InitialSnapshotFailed,
       DecideThreshold
  <2> QED
    BY <1>1, <2>1, SnapshotsSame
<1>13. CASE Message
  <2>1. UNCHANGED <<log, undone, man, snapFile>> /\ pc' # "r2"
    BY <1>1, <1>13, AfterIs DEF Message, SnapshotFailed, SnapshotStale, SnapshotDone
  <2>2. snapper' = Idle \/ snapper' = [snapper EXCEPT !.current = FALSE]
    BY <1>13 DEF Message, SnapshotFailed, SnapshotStale, SnapshotDone
  <2> QED
    BY <1>1, <2>1, <2>2, SnapshotsSame
<1>14. CASE \/ AppendNowhere \/ SyncBatch \/ Decide \/ DrainEnd \/ StartRefused \/ StartNotNeeded
            \/ PumpDone \/ PumpTimeout
  <2>1. UNCHANGED <<log, undone, man, snapFile, snapper>> /\ pc' # "r2"
    BY <1>1, <1>14, AfterIs DEF AppendNowhere, SyncBatch, Decide, DrainEnd, StartRefused,
       StartNotNeeded, PumpDone, PumpTimeout
  <2> QED
    BY <2>1, SnapshotsSame
<1> QED
  BY <1>3, <1>4, <1>5, <1>6, <1>7, <1>8, <1>9, <1>10, <1>11, <1>12, <1>13, <1>14 DEF Actor

\* The log never forgets a number while the process is up.
LEMMA LogGrows ==
    ASSUME IInv, Client
    PROVE  /\ Current' \in Nat /\ Current' >= Current /\ \A s \in 1..Current : log'[s] = log[s]
<1> USE DEF plane
<1>1. log \in Seq(Events) /\ Current = Len(log)
  BY DEF IInv, TypeOK, Current
<1>2. ASSUME NEW e, log' = Append(log, e)
      PROVE  Current' \in Nat /\ Current' >= Current /\ \A s \in 1..Current : log'[s] = log[s]
  BY <1>1, <1>2 DEF Current
<1>3. ASSUME NEW e, NEW f, log' = log \o <<e, f>>
      PROVE  Current' \in Nat /\ Current' >= Current /\ \A s \in 1..Current : log'[s] = log[s]
  <2>1. Len(log') = Len(log) + 2 /\ \A s \in 1..Len(log) : log'[s] = log[s]
    BY <1>1, <1>3
  <2> QED
    BY <1>1, <2>1 DEF Current
<1>4. CASE UNCHANGED log
  BY <1>1, <1>4 DEF Current
<1>5. ASSUME NEW k \in Keys, PutWithRoom(k) \/ DeleteLog(k) \/ DeleteMemory(k)
      PROVE  UNCHANGED log \/ \E e : log' = Append(log, e)
  BY <1>5 DEF PutWithRoom, DeleteLog, DeleteMemory
<1>6. ASSUME NEW k \in Keys, NEW v \in Keys, PutEvicting(k, v)
      PROVE  \E e, f : log' = log \o <<e, f>>
  BY <1>6 DEF PutEvicting
<1>7. CASE Clear \/ HotSwap \/ \E k \in Keys : Migrate(k)
  BY <1>2, <1>4, <1>7 DEF Clear, HotSwap, Migrate
<1> QED
  BY <1>2, <1>3, <1>4, <1>5, <1>6, <1>7 DEF Client

\* A swap may undo everything so far, and no other operation undoes anything.
LEMMA UndoneGrows ==
    ASSUME IInv, Client
    PROVE  \A k \in Keys : /\ undone'[k] \in Nat /\ undone[k] \in Nat
                           /\ undone'[k] = undone[k] \/ undone'[k] = Current
                           /\ undone'[k] >= undone[k] /\ undone'[k] <= Current
<1> USE DEF plane
<1>1. undone \in [Keys -> Nat] /\ Current \in Nat /\ \A k \in Keys : undone[k] <= Current
  BY NumbersIs DEF IInv, TypeOK, Swapped
<1>2. CASE UNCHANGED undone
  BY <1>1, <1>2
<1>3. CASE HotSwap
  <2>1. \A k \in Keys : undone'[k] = undone[k] \/ undone'[k] = Current
    BY <1>3 DEF HotSwap
  <2> QED
    BY <1>1, <2>1
<1>4. UNCHANGED undone \/ HotSwap
  BY DEF Client, PutWithRoom, PutEvicting, DeleteMemory, DeleteLog, Clear, Migrate
<1> QED
  BY <1>2, <1>3, <1>4

\* The steps of the actor leave the data plane's entries alone.
LEMMA ActorPlane ==
    ASSUME Actor
    PROVE  UNCHANGED <<mem, log, fresh, undone>>
BY DEF plane, Actor, WaitTimeout, Shutdown, Message, SnapshotFailed, SnapshotStale, SnapshotDone,
   RenameSnapshot, WriteR2, UnlinkOld, TakeBatch, InitialCompact, InitialCommit,
   InitialSnapshotFailed, RotateForAppend, AppendNowhere, AppendBatch, SyncBatch,
   ResyncAfterFailure, Decide, DecideThreshold, DrainMore, DrainEnd, StartRefused,
   StartNotNeeded, StartCompaction, PumpDone, PumpTimeout, FinalManifest

LEMMA SwappedNext ==
    ASSUME IInv, [Next]_vars
    PROVE  Swapped'
<1>1. /\ fresh \in [Keys -> Nat] /\ undone \in [Keys -> Nat] /\ mem \in [Keys -> Nat]
      /\ Current \in Nat /\ Current >= 1
      /\ \A k \in Keys : mem[k] <= Current /\ fresh[k] <= Current /\ undone[k] <= Current
  BY NumbersIs DEF IInv, TypeOK, Swapped, Issued
<1>2. CASE UNCHANGED <<log, fresh, undone>>
  BY <1>2 DEF IInv, Swapped, Current
<1>3. CASE Client
  <2>1. Current' \in Nat /\ Current' >= Current /\ \A k \in Keys : undone'[k] \in Nat /\ undone'[k] <= Current
    BY <1>3, LogGrows, UndoneGrows
  <2>2. \A k \in Keys : fresh'[k] \in {0, fresh[k], mem[k]}
    <3>1. CASE UNCHANGED fresh
      BY <3>1
    <3>2. ASSUME NEW k \in Keys, Migrate(k) PROVE \A j \in Keys : fresh'[j] \in {fresh[j], mem[j]}
      BY <1>1, <3>2 DEF Migrate
    <3>3. CASE HotSwap
      BY <3>3 DEF HotSwap
    <3>4. UNCHANGED fresh \/ HotSwap \/ \E k \in Keys : Migrate(k)
      BY <1>3 DEF Client, PutWithRoom, PutEvicting, DeleteMemory, DeleteLog, Clear
    <3> QED
      BY <3>1, <3>2, <3>3, <3>4
  <2> QED
    BY <1>1, <2>1, <2>2 DEF Swapped
<1>4. CASE Crash
  <2>1. UNCHANGED <<log, undone>> /\ \A k \in Keys : fresh'[k] = 0
    BY <1>4 DEF Crash
  <2> QED
    BY <1>1, <2>1 DEF Swapped, Current
<1>5. CASE Recovery
  <2>1. \A k \in Keys : fresh'[k] = 0
    BY <1>5 DEF Recovery, RestartEmpty, Restart, RestartAfterGap, IInv, Control
  <2>2. CASE RestartEmpty
    <3>1. \A k \in Keys : undone'[k] = 0
      BY <2>2 DEF RestartEmpty
    <3>2. Current' = 1
      BY <2>2 DEF RestartEmpty, Current
    <3> QED
      BY <2>1, <3>1, <3>2 DEF Swapped
  <2>3. CASE Restart \/ RestartAfterGap
    <3>1. man.snap # 0 /\ Restored
      BY <2>3 DEF Restart, RestartAfterGap
    <3>2. /\ Current' \in Nat /\ Current' >= man.snap /\ man.snap \in Nat
          /\ \A k \in Keys : undone'[k] \in Nat /\ undone'[k] <= man.snap
      <4>1. /\ Current' = PlanNext /\ PlanNext \in Nat /\ PlanNext >= MaxSeen + 1
            /\ MaxSeen \in 1..Current
        BY <3>1, RestoredIs
      <4>2. \A k \in Keys : undone'[k] = IF undone[k] <= man.snap THEN undone[k] ELSE man.snap
        BY <3>1, RestoredIs
      <4>3. man.snap <= MaxSeen /\ man.snap \in Nat
        BY <3>1, PlanIs, NumbersIs
      <4>4. Current' \in Nat /\ Current' >= man.snap
        BY <1>1, <4>1, <4>3
      <4>5. \A k \in Keys : undone'[k] \in Nat /\ undone'[k] <= man.snap
        BY <1>1, <4>2, <4>3
      <4> QED
        BY <4>3, <4>4, <4>5
    <3> QED
      BY <2>1, <3>2 DEF Swapped
  <2> QED
    BY <1>5, <2>2, <2>3 DEF Recovery
<1>6. CASE Actor \/ WriteSnapshotFile \/ UNCHANGED vars
  BY <1>2, <1>6, ActorPlane DEF WriteSnapshotFile, vars, plane
<1> QED
  BY <1>3, <1>4, <1>5, <1>6 DEF Next

\* A snapshot is as good as the memory it was taken from: what was numbered later is left out.
LEMMA SnapshotsWriter ==
    ASSUME IInv, WriteSnapshotFile
    PROVE  Snapshots'
<1> USE DEF plane, actor, disk, history
<1> DEFINE d == [k \in Keys |-> IF mem[k] <= snapper.seq THEN mem[k] ELSE 0]
<1>1. /\ UNCHANGED <<log, undone, man, snapFile, pc>> /\ snapper.st = "running"
      /\ snapper.seq \in 1..Current /\ pc # "r2"
  BY DEF WriteSnapshotFile, IInv, Snapshots, Control
<1>2. mem \in [Keys -> Nat] /\ snapper.seq \in Nat /\ Current \in Nat
  BY SnapperTyped DEF IInv, TypeOK
<1>3. Sound(log, d, undone, snapper.seq)
  <2>1. \A k \in Keys : d[k] <= snapper.seq
    BY <1>2
  <2>2. ASSUME NEW k \in Keys, d[k] # 0, NEW s \in (d[k] + 1)..snapper.seq, Affects(log, s, k)
        PROVE  log[s].op = "late" \/ s <= undone[k]
    <3>1. d[k] = mem[k] /\ mem[k] # 0 /\ mem[k] \in Nat
      BY <1>2, <2>2
    <3>2. s \in (mem[k] + 1)..Current
      BY <1>1, <1>2, <2>2, <3>1
    <3> QED
      BY <2>2, <3>1, <3>2 DEF IInv, MemoryNotStale
  <2> QED
    BY <1>1, <2>1, <2>2 DEF Sound, NotStale, Current
<1> HIDE DEF d
<1>4. CASE snapper' = [snapper EXCEPT !.st = "failed"]
  <2>1. snapper'.st = "failed" /\ snapper'.seq = snapper.seq
    BY <1>4, SnapperTyped DEF Snapper
  <2> QED
    BY <1>1, <2>1 DEF IInv, Snapshots, Current
<1>5. CASE snapper' = [snapper EXCEPT !.st = "done", !.data = d]
  <2>1. snapper'.st = "done" /\ snapper'.seq = snapper.seq /\ snapper'.data = d
    BY <1>5, SnapperTyped DEF Snapper
  <2> QED
    BY <1>1, <1>3, <2>1 DEF IInv, Snapshots, Current
<1> QED
  BY <1>4, <1>5 DEF WriteSnapshotFile, d

LEMMA SnapshotsRecovery ==
    ASSUME IInv, Recovery
    PROVE  Snapshots'
<1>1. snapper' = Idle /\ Idle.st = "none" /\ pc' = "wait" /\ man'.snap = man.snap
  BY DEF Recovery, RestartEmpty, Restart, RestartAfterGap, IInv, Control, Idle, TypeOK
<1>2. CASE man.snap = 0
  BY <1>1, <1>2 DEF Snapshots
<1>3. CASE man.snap # 0
  <2>1. Restored /\ snapFile' = Removed(snapFile, DOMAIN snapFile \ {man.snap})
    BY <1>3 DEF Recovery, RestartEmpty, Restart, RestartAfterGap
  <2>2. man.snap \in DOMAIN snapFile /\ Sound(log, snapFile[man.snap], undone, man.snap)
    BY <1>3 DEF IInv, Snapshots
  <2>3. man.snap \in DOMAIN snapFile' /\ snapFile'[man.snap] = snapFile[man.snap]
    BY <2>1, <2>2 DEF Removed
  <2>4. /\ Len(log') = PlanNext /\ PlanNext \in Nat /\ man.snap <= PlanNext
        /\ \A s \in 1..PlanNext : log'[s] = Hole \/ (log[s] \in Events /\ Recalled(log[s], log'[s]))
    <3>1. /\ Current' = PlanNext /\ PlanNext \in Nat /\ PlanNext >= MaxSeen + 1 /\ MaxSeen \in 1..Current
          /\ \A s \in 1..PlanNext : log'[s] = Hole \/ (log[s] \in Events /\ Recalled(log[s], log'[s]))
      BY <1>3, <2>1, RestoredIs
    <3>2. man.snap <= MaxSeen /\ man.snap \in Nat /\ Current \in Nat
      BY <1>3, PlanIs, SnapperTyped
    <3> QED
      BY <3>1, <3>2 DEF Current
  <2>5. Sound(log', snapFile[man.snap], undone', man.snap)
    <3>1. snapFile[man.snap] \in [Keys -> Nat] /\ man.snap \in Nat /\ Len(log) \in Nat
      BY <2>2, SnapperTyped DEF Current
    <3>2. \A k \in Keys : undone'[k] = IF undone[k] <= man.snap THEN undone[k] ELSE man.snap
      BY <1>3, <2>1, RestoredIs
    <3>3. \A k \in Keys, s \in 1..man.snap : s <= undone[k] => s <= undone'[k]
      BY <3>1, <3>2
    <3> QED
      BY <2>2, <2>4, <3>1, <3>3, SoundLater
  <2> QED
    BY <1>1, <2>3, <2>5 DEF Snapshots
<1> QED
  BY <1>2, <1>3

LEMMA SnapshotsNext ==
    ASSUME IInv, [Next]_vars
    PROVE  Snapshots'
<1> USE DEF plane, actor, disk, history
<1>1. CASE Client
  <2>1. UNCHANGED <<pc, man, snapFile>>
    BY <1>1 DEF Client, PutWithRoom, PutEvicting, DeleteMemory, DeleteLog, Clear, Migrate,
       HotSwap
  <2>2. snapper' = snapper \/ snapper' = [snapper EXCEPT !.current = FALSE]
    BY <1>1 DEF Client, PutWithRoom, PutEvicting, DeleteMemory, DeleteLog, Clear, Migrate,
       HotSwap
  <2>3. snapper'.st = snapper.st /\ snapper'.seq = snapper.seq /\ snapper'.data = snapper.data
    BY <2>2, SnapperTyped DEF Snapper
  <2>4. \A k \in Keys, s \in 1..Current : s <= undone[k] => s <= undone'[k]
    BY <1>1, UndoneGrows, NumbersIs
  <2> QED
    BY <1>1, <2>1, <2>3, <2>4, LogGrows, SnapshotsGrow
<1>2. CASE Crash
  <2>1. UNCHANGED <<log, undone, snapFile, man>> /\ snapper' = Idle /\ Idle.st = "none" /\ pc' # "r2"
    BY <1>2 DEF Crash, Idle
  <2> QED
    BY <2>1, SnapshotsSame
<1>3. CASE UNCHANGED vars
  BY <1>3 DEF vars, IInv, Snapshots, Current
<1> QED
  BY <1>1, <1>2, <1>3, SnapshotsActor, SnapshotsWriter, SnapshotsRecovery DEF Next

-----------------------------------------------------------------------------
(* Memory *)

LEMMA MemoryClient ==
    ASSUME IInv, Client
    PROVE  MemoryNotStale'
<1> USE DEF plane, actor, disk, history
<1>0. TypeOK'
  BY TypeClient DEF IInv
<1>1. /\ log \in Seq(Events) /\ mem \in [Keys -> Nat] /\ Current \in Nat /\ Current = Len(log)
      /\ \A j \in Keys : mem[j] <= Current
  BY NumbersIs DEF IInv, TypeOK, Issued, Current
<1>2. Current' \in Nat /\ Current' >= Current /\ \A s \in 1..Current : log'[s] = log[s]
  BY LogGrows
\* An entry that was there already, when only newer events are added.
<1>3. ASSUME NEW j \in Keys, mem[j] # 0, NEW s \in (mem[j] + 1)..Current, Affects(log', s, j)
      PROVE  log'[s].op = "late" \/ s <= undone'[j]
  <2>1. s \in 1..Current /\ log'[s] = log[s]
    <3>1. mem[j] \in Nat
      BY <1>1
    <3>2. s \in 1..Current
      BY <1>1, <1>3, <3>1
    <3> QED
      BY <1>2, <3>2
  <2>2. Affects(log, s, j)
    BY <1>3, <2>1 DEF Affects, IsClear
  <2>3. log[s].op = "late" \/ s <= undone[j]
    BY <1>3, <2>1, <2>2 DEF IInv, MemoryNotStale
  <2> QED
    BY <2>1, <2>3, UndoneGrows
<1>4. ASSUME NEW j \in Keys, mem[j] # 0, NEW s \in (mem[j] + 1)..Current', Affects(log', s, j),
             s <= Current
      PROVE  log'[s].op = "late" \/ s <= undone'[j]
  <2>1. s \in (mem[j] + 1)..Current
    <3>1. mem[j] \in Nat
      BY <1>1
    <3> QED
      BY <3>1, <1>1, <1>2, <1>4
  <2> QED
    BY <1>3, <1>4, <2>1
<1>5. ASSUME NEW k \in Keys, PutWithRoom(k) PROVE MemoryNotStale'
  <2>1. /\ Current' = Current + 1 /\ log'[Current + 1] = [op |-> "put", key |-> k]
        /\ mem' = [mem EXCEPT ![k] = Current + 1]
    BY <1>1, <1>5 DEF PutWithRoom, Current
  <2>2. ASSUME NEW j \in Keys, mem'[j] # 0, NEW s \in (mem'[j] + 1)..Current', Affects(log', s, j)
        PROVE  log'[s].op = "late" \/ s <= undone'[j]
    <3>1. j # k
      <4>1. mem'[k] = Current + 1
        BY <1>1, <2>1
      <4> QED
        BY <1>1, <2>1, <2>2, <4>1
    <3>2. mem'[j] = mem[j] /\ mem[j] \in Nat
      BY <1>1, <2>1, <3>1
    <3>3. s # Current + 1
      BY <2>1, <2>2, <3>1 DEF Affects, IsClear
    <3>4. s <= Current
      BY <1>1, <2>1, <2>2, <3>2, <3>3
    <3> QED
      BY <1>4, <2>2, <3>2, <3>4
  <2> QED
    BY <2>2 DEF MemoryNotStale
<1>6. ASSUME NEW k \in Keys, NEW v \in Keys \ {k}, PutEvicting(k, v) PROVE MemoryNotStale'
  <2>1. /\ Current' = Current + 2 /\ log'[Current + 1] = [op |-> "put", key |-> k]
        /\ log'[Current + 2] = [op |-> "evict", key |-> v]
    <3>1. log' = log \o <<[op |-> "put", key |-> k], [op |-> "evict", key |-> v]>>
      BY <1>6 DEF PutEvicting
    <3>2. Len(log') = Len(log) + 2
      BY <1>1, <3>1
    <3>3. /\ log'[Len(log) + 1] = [op |-> "put", key |-> k]
          /\ log'[Len(log) + 2] = [op |-> "evict", key |-> v]
      BY <1>1, <3>1
    <3> QED
      BY <1>1, <3>2, <3>3 DEF Current
  <2>2. mem' = [mem EXCEPT ![k] = Current + 1, ![v] = 0]
    BY <1>6 DEF PutEvicting
  <2>3. ASSUME NEW j \in Keys, mem'[j] # 0, NEW s \in (mem'[j] + 1)..Current', Affects(log', s, j)
        PROVE  log'[s].op = "late" \/ s <= undone'[j]
    <3>1. j # v
      BY <1>1, <2>2, <2>3
    <3>2. s # Current + 2
      BY <2>1, <2>3, <3>1 DEF Affects, IsClear
    <3>3. CASE j = k
      <4>1. mem'[k] = Current + 1
        BY <1>1, <2>2, <3>1, <3>3
      <4> QED
        BY <1>1, <2>1, <2>3, <3>2, <3>3, <4>1
    <3>4. CASE j # k
      <4>1. mem'[j] = mem[j] /\ mem[j] \in Nat
        BY <1>1, <2>2, <3>1, <3>4
      <4>2. s # Current + 1
        BY <2>1, <2>3, <3>4 DEF Affects, IsClear
      <4>3. s <= Current
        <5>1. Current' = Current + 2 /\ Current \in Nat
          BY <1>1, <2>1
        <5>2. s \in (mem'[j] + 1)..(Current + 2) /\ mem'[j] \in Nat
          BY <2>3, <4>1, <5>1
        <5> QED
          BY <3>2, <4>2, <5>1, <5>2
      <4> QED
        BY <1>4, <2>3, <4>1, <4>3
    <3> QED
      BY <3>3, <3>4
  <2> QED
    BY <2>3 DEF MemoryNotStale
<1>7. ASSUME NEW k \in Keys, DeleteMemory(k) PROVE MemoryNotStale'
  <2>1. UNCHANGED <<log, undone>> /\ Current' = Current /\ \A j \in Keys : mem'[j] \in {0, mem[j]}
    BY <1>1, <1>7 DEF DeleteMemory, Current
  <2> QED
    BY <2>1 DEF IInv, MemoryNotStale
<1>8. ASSUME NEW k \in Keys, DeleteLog(k) PROVE MemoryNotStale'
  <2>1. /\ Current' = Current + 1 /\ UNCHANGED mem
        /\ log'[Current + 1] = [op |-> IF mem[k] = 0 THEN "evict" ELSE "late", key |-> k]
    BY <1>1, <1>8 DEF DeleteLog, Current
  <2>2. ASSUME NEW j \in Keys, mem[j] # 0, NEW s \in (mem[j] + 1)..Current', Affects(log', s, j)
        PROVE  log'[s].op = "late" \/ s <= undone'[j]
    <3>1. CASE s = Current + 1
      <4>1. j = k
        BY <2>1, <2>2, <3>1 DEF Affects, IsClear
      <4> QED
        BY <2>1, <2>2, <3>1, <4>1
    <3>2. CASE s # Current + 1
      <4>1. s <= Current
        BY <1>1, <2>1, <2>2, <3>2
      <4> QED
        BY <1>4, <2>2, <4>1
    <3> QED
      BY <3>1, <3>2
  <2> QED
    BY <2>1, <2>2 DEF MemoryNotStale
<1>9. CASE Clear
  <2>1. \A j \in Keys : mem'[j] = 0
    BY <1>9 DEF Clear
  <2> QED
    BY <2>1 DEF MemoryNotStale
<1>10. ASSUME NEW k \in Keys, Migrate(k) PROVE MemoryNotStale'
  BY <1>10 DEF Migrate, IInv, MemoryNotStale, Current
\* What the swap changed is excepted up to the last number issued.
<1>11. CASE HotSwap
  <2>1. UNCHANGED log /\ Current' = Current
    BY <1>11 DEF HotSwap, Current
  <2>2. \A j \in Keys : mem'[j] = mem[j] \/ undone'[j] = Current
    BY <1>11 DEF HotSwap
  <2>3. ASSUME NEW j \in Keys, mem'[j] # 0, NEW s \in (mem'[j] + 1)..Current', Affects(log', s, j)
        PROVE  log'[s].op = "late" \/ s <= undone'[j]
    <3>1. CASE mem'[j] = mem[j]
      BY <1>3, <2>1, <2>3, <3>1
    <3>2. CASE undone'[j] = Current
      <4>1. mem'[j] \in Nat
        BY <1>0 DEF TypeOK
      <4> QED
        BY <1>1, <2>1, <2>3, <3>2, <4>1
    <3> QED
      BY <2>2, <3>1, <3>2
  <2> QED
    BY <2>3 DEF MemoryNotStale
<1> QED
  BY <1>5, <1>6, <1>7, <1>8, <1>9, <1>10, <1>11 DEF Client

LEMMA MemoryRecovery ==
    ASSUME IInv, Recovery
    PROVE  MemoryNotStale'
<1>1. CASE RestartEmpty
  <2>1. \A k \in Keys : mem'[k] = 0
    BY <1>1 DEF RestartEmpty, IInv, Control
  <2> QED
    BY <2>1 DEF MemoryNotStale
<1>2. CASE Restart \/ RestartAfterGap
  <2>1. man.snap # 0 /\ Restored
    BY <1>2 DEF Restart, RestartAfterGap
  <2>2. /\ PlanNext \in Nat /\ Current' = PlanNext /\ \A k \in Keys : mem'[k] \in {0, Recovered[k]}
        /\ \A i \in 1..PlanNext : \/ log'[i] = Hole
                                  \/ (log[i] \in Events /\ Recalled(log[i], log'[i]) /\ Traced(i))
    BY <2>1, RestoredIs
  <2>3. ASSUME NEW k \in Keys, mem'[k] # 0, NEW s \in (mem'[k] + 1)..PlanNext, Affects(log', s, k)
        PROVE  log'[s].op = "late" \/ s <= undone'[k]
    <3>1. /\ mem'[k] = Recovered[k] /\ Recovered[k] # 0 /\ Recovered[k] \in Nat
          /\ \A t \in ReadRecords(man, segFile) :
                t > man.snap /\ Affects(log, t, k) => t <= Recovered[k]
          /\ Recovered[k] <= man.snap => Recovered[k] = snapFile[man.snap][k]
      BY <2>1, <2>2, <2>3, NumbersIs, RecoveredIs
    <3>2. s \in 1..PlanNext /\ s > Recovered[k] /\ s \in Nat
      BY <2>2, <2>3, <3>1
    <3>3. log'[s] # Hole
      BY <2>3 DEF Affects, IsClear, Hole
    <3>4. log[s] \in Events /\ Recalled(log[s], log'[s]) /\ Traced(s)
      BY <2>2, <3>2, <3>3
    <3>5. Affects(log, s, k) /\ (log'[s].op = "late" <=> log[s].op = "late")
      <4>1. log'[s].op = "late" <=> log[s].op = "late"
        BY <3>4, RecalledIs
      <4>2. Affects(log', s, k) <=> Affects(log, s, k)
        BY <3>4, RecalledAffects
      <4> QED
        BY <2>3, <4>1, <4>2
    <3>6. ~(s > man.snap)
      <4> SUFFICES ASSUME s > man.snap PROVE FALSE
        OBVIOUS
      <4>1. s \in ReadRecords(man, segFile)
        BY <3>2, <3>4, NumbersIs DEF Traced
      <4>2. s <= Recovered[k]
        BY <3>1, <3>5, <4>1
      <4> QED
        BY <3>1, <3>2, <4>2
    <3>7. Recovered[k] = snapFile[man.snap][k] /\ s \in (Recovered[k] + 1)..man.snap
      <4>1. man.snap \in Nat
        BY NumbersIs
      <4> QED
        BY <3>1, <3>2, <3>6, <4>1
    <3>8. log[s].op = "late" \/ s <= undone[k]
      BY <2>1, <3>1, <3>5, <3>7 DEF IInv, Snapshots, Sound, NotStale
    <3>9. undone'[k] = IF undone[k] <= man.snap THEN undone[k] ELSE man.snap
      BY <2>1, RestoredIs
    <3> QED
      BY <3>1, <3>5, <3>7, <3>8, <3>9, NumbersIs
  <2> QED
    BY <2>2, <2>3 DEF MemoryNotStale
<1> QED
  BY <1>1, <1>2 DEF Recovery

LEMMA MemoryNext ==
    ASSUME IInv, [Next]_vars
    PROVE  MemoryNotStale'
<1> USE DEF plane, actor, disk, history
<1>1. CASE UNCHANGED <<mem, log, undone>>
  BY <1>1 DEF IInv, MemoryNotStale, Current
<1>2. CASE Actor
  BY <1>1, <1>2, ActorPlane
<1>3. CASE WriteSnapshotFile
  BY <1>1, <1>3 DEF WriteSnapshotFile
<1>4. CASE Crash
  <2>1. \A k \in Keys : mem'[k] = 0
    BY <1>4 DEF Crash
  <2> QED
    BY <2>1 DEF MemoryNotStale
<1>5. CASE UNCHANGED vars
  BY <1>1, <1>5 DEF vars
<1> QED
  BY <1>2, <1>3, <1>4, <1>5, MemoryClient, MemoryRecovery DEF Next

-----------------------------------------------------------------------------
(* The theorems *)

LEMMA InvInit ==
    ASSUME Init
    PROVE  IInv
<1>1. /\ Hole \in Events /\ <<Hole>> \in Seq(Events) /\ Len(<<Hole>>) = 1
      /\ [k \in Keys |-> 0] \in [Keys -> Nat] /\ DOMAIN <<>> = {} /\ ToSet(<<>>) = {}
      /\ <<>> \in Seq(Nat) /\ Len(<<>>) = 0
  BY DEF Hole, Events, Ops, ToSet
<1>2. /\ NothingOld \in [snap : Nat, segs : Seq(Nat)]
      /\ NoManifest \in [snap : Nat, segs : Seq(Nat), seq : Nat]
      /\ NoManifest.snap = 0 /\ NoManifest.seq = 0 /\ NoManifest.segs = <<>>
      /\ Idle \in Snapper /\ Idle.st = "none" /\ Idle.current = FALSE
  BY DEF NothingOld, NoManifest, Idle, Snapper
<1>3. PlaneType /\ ActorType
  <2>1. <<>> \in Seq(Nat) /\ Len(<<>>) <= RingCap /\ Len(<<>>) <= BatchMax
    BY RingAssumption
  <2>2. PlaneType
    BY <1>1, <2>1 DEF Init, PlaneType
  <2>3. ActorType
    BY <1>2, <2>1 DEF Init, ActorType
  <2> QED
    BY <2>2, <2>3
<1>4. SnapperType /\ DiskType /\ PlaceType /\ HistoryType
  BY <1>1, <1>2 DEF Init, SnapperType, Snapper, DiskType, PlaceType, HistoryType, PCs, Phases
<1>5. TypeOK
  BY <1>3, <1>4, TypeParts
<1>6. Control
  BY <1>2 DEF Init, Control
<1>7. Issued /\ Swapped
  BY <1>1, <1>2 DEF Init, Issued, Swapped, Current
<1>8. Segments
  BY <1>1, <1>2 DEF Init, Segments, Ordered
<1>9. Snapshots /\ MemoryNotStale
  BY <1>2 DEF Init, Snapshots, MemoryNotStale
<1> QED
  BY <1>5, <1>6, <1>7, <1>8, <1>9 DEF IInv

LEMMA InvNext == IInv /\ [Next]_vars => IInv'
BY TypeNext, ControlNext, IssuedNext, SwappedNext, SegmentsNext, SnapshotsNext, MemoryNext DEF IInv

\* The inductive invariant holds in every reachable state.
THEOREM Invariance == Spec => []IInv
BY InvInit, InvNext, PTL DEF Spec

\* Every variable keeps its type: no number goes below zero, the queue and the batches stay
\* within their capacities, files are addressed by numbers.
THEOREM TypeCorrect == Spec => []TypeOK
<1>1. IInv => TypeOK
  BY DEF IInv
<1> QED
  BY <1>1, Invariance, PTL

\* Whatever I/O fails and wherever a crash falls, the manifest names files that exist, in
\* order and within the limit, and its snapshot holds nothing newer than its number.
THEOREM ManifestNamesFiles == Spec => []ManifestSound
<1>1. IInv => ManifestSound
  BY DEF IInv, Snapshots, Sound, Segments, Ordered, ManifestSound
<1> QED
  BY <1>1, Invariance, PTL

\* Every record of a segment is below the bases of the segments after it, which is what lets
\* a rotation drop a segment by the base of its successor.
THEOREM SegmentsInRange == Spec => []SegmentRanges
<1>1. IInv => SegmentRanges
  BY DEF IInv, Segments, Ordered, SegmentRanges
<1> QED
  BY <1>1, Invariance, PTL

\* Recovery never numbers an event with a number that a file it would read still holds.
THEOREM NumbersNeverReused == Spec => []NumbersFresh
<1>1. IInv => NumbersFresh
  <2> SUFFICES ASSUME IInv, man.snap # 0 PROVE MaxSeen <= Current
    BY DEF NumbersFresh
  <2> QED
    BY PlanIs, NumbersIs
<1> QED
  BY <1>1, Invariance, PTL

\* The cache never holds, before or after a restart, an entry that was evicted or cleared, unless
\* a policy swap has changed the entry of that key since: whatever entries a swap drops or brings
\* back, it outdates no other key.
THEOREM MemoryTrue == Spec => []MemoryNotStale
<1>1. IInv => MemoryNotStale
  BY DEF IInv
<1> QED
  BY <1>1, Invariance, PTL

-----------------------------------------------------------------------------
(* What was acknowledged is recovered.  DInv adds to the inductive invariant    *)
(* which records of the log are where: what is acknowledged is in the named     *)
(* snapshot or in the part of a named segment that a crash spares, and the      *)
(* cache, from which the next snapshot is taken, is never behind the log.       *)

\* The newest event about key k is the PUT s.
LastPut(lg, k, s) ==
    /\ s \in 1..Len(lg) /\ lg[s] = [op |-> "put", key |-> k]
    /\ \A t \in (s + 1)..Len(lg) : ~Affects(lg, t, k)

\* Record r is in the part of a listed segment that a crash spares.
Stored(segs, files, r) ==
    \E i \in 1..Len(segs) : \E j \in 1..files[segs[i]].dur : files[segs[i]].recs[j] = r

\* Holes have no key, and no event has the number 0.
Numbered == WellFormed(log) /\ \A s \in ToSet(ring) \cup ToSet(batch) : s >= 1

\* The cache holds what was put last, unless it was deleted or a swap has changed it since ...
Held ==
    pc # "down" =>
        \A k \in Keys \ deleting : \A s \in 1..Current :
            s > undone[k] /\ LastPut(log, k, s) => mem[k] = s

\* ... and so does a snapshot of a number not below it.
Complete ==
    \A k \in Keys \ deleting : \A s \in 1..Current : s > undone[k] /\ LastPut(log, k, s) =>
        /\ man.snap # 0 /\ s <= man.snap => snapFile[man.snap][k] = s
        /\ snapper.st = "done" /\ s <= snapper.seq => snapper.data[k] = s

\* Only the last segment is not synced, and only between an append and its sync.
Sealed ==
    \A i \in 1..Len(man.segs) :
        /\ segFile[man.segs[i]].dur \in 0..Len(segFile[man.segs[i]].recs)
        /\ i < Len(man.segs) \/ pc # "down" => ~segFile[man.segs[i]].torn
        /\ i < Len(man.segs) \/ pc # "sync" =>
              segFile[man.segs[i]].dur = Len(segFile[man.segs[i]].recs)

\* While a snapshot is on its way, what it does not cover goes to the active segment.
Covered ==
    snapper.current \/ pc \in {"rename", "r2"} =>
        /\ man.snap <= snapper.seq
        /\ \A i \in 1..Len(man.segs) : i < Len(man.segs) \/ wal = 0 =>
              \A r \in ToSet(segFile[man.segs[i]].recs) : r <= snapper.seq

\* What an acknowledged event above the snapshot decided is stored, by the event itself or by
\* a newer one.
Logged ==
    /\ \A s \in acked : s <= Current
    /\ \A s \in acked, k \in Keys : s > man.snap /\ Affects(log, s, k) =>
          \E r \in Nat : r >= s /\ Affects(log, r, k) /\ Stored(man.segs, segFile, r)

\* The same for a batch that has been appended and not yet synced.
Pending ==
    pc = "sync" => \A s \in ToSet(batch), k \in Keys : Affects(log, s, k) =>
        \E r \in ToSet(segFile[wal].recs) : r >= s /\ Affects(log, r, k)

\* Without a manifest there is no active segment, and nothing is acknowledged.
Begun == man.snap = 0 => wal = 0 /\ acked = {}

\* No flush ever fails, a rotation for want of a segment has none, and a snapshot of the
\* current generation is in flight.
Placed == pc # "resync" /\ (pc = "rotate" => wal = 0) /\ (snapper.current => inflight)

DInv ==
    /\ Numbered /\ Held /\ Complete
    /\ Sealed /\ Covered /\ Logged /\ Pending /\ Begun /\ Placed

Reliable == FailPoints \cap {"append", "sync", "first"} = {}

\* The newest event of a batch about a key, or a CLEAR after it, is among what is appended.
LEMMA KeptDecides ==
    ASSUME NEW lg, WellFormed(lg), NEW b \in Seq(Nat), ToSet(b) \in SUBSET (1..Len(lg)),
           NEW s \in ToSet(b), NEW k \in Keys, Affects(lg, s, k)
    PROVE  \E r \in ToSet(Coalesce(lg, b)) : r >= s /\ Affects(lg, r, k)
<1> DEFINE B == ToSet(b)
           n == Len(lg)
           All == {t \in B : Affects(lg, t, k)}
           Some == {t \in Kept(lg, B) : Affects(lg, t, k)}
<1>1. n \in Nat /\ DOMAIN lg = 1..n
  BY DEF WellFormed
<1>2. B \in SUBSET (0..n) /\ B \in SUBSET DOMAIN lg /\ {} \in SUBSET DOMAIN lg
  BY <1>1
<1>3. IsFiniteSet(B) /\ IsFiniteSet({})
  BY FiniteList, FS_EmptySet
<1>4. Largest({t \in {} \cup Kept(lg, B) : Affects(lg, t, k)})
        = Largest({t \in {} \cup B : Affects(lg, t, k)})
  BY <1>2, <1>3, SameLastEvent
<1>5. Largest(Some) = Largest(All)
  <2>1. {} \cup Kept(lg, B) = Kept(lg, B) /\ {} \cup B = B
    OBVIOUS
  <2> QED
    BY <1>4, <2>1
<1>6. Kept(lg, B) \in SUBSET B /\ ToSet(Coalesce(lg, b)) = Kept(lg, B)
  <2>1. Kept(lg, B) \in SUBSET B
    BY DEF Kept
  <2>2. ToSet(b) \in SUBSET (0..n)
    BY <1>2
  <2> QED
    BY <1>1, <2>1, <2>2, CoalesceIs
<1>7. All \in SUBSET (0..n) /\ Some \in SUBSET (0..n)
  BY <1>2, <1>6
<1>8. Largest(Some) \in Some \cup {0} /\ \A t \in All : t <= Largest(All)
  BY <1>1, <1>7, LargestBelow
<1>9. s \in All /\ s >= 1 /\ s \in Nat
  BY <1>1, <1>2
<1>10. Largest(Some) \in Some /\ Largest(Some) >= s
  <2>1. s <= Largest(Some)
    BY <1>5, <1>8, <1>9
  <2>2. Largest(Some) # 0
    BY <1>9, <2>1
  <2>3. Largest(Some) \in Some
    BY <1>8, <2>2
  <2>4. Largest(Some) \in Nat
    BY <1>7, <2>3
  <2> QED
    BY <1>9, <2>1, <2>3, <2>4
<1> QED
  BY <1>6, <1>10

\* The actor takes events from the queue and changes nothing of the cache.
LEMMA ActorQueues ==
    ASSUME IInv, Actor
    PROVE  /\ UNCHANGED <<log, mem, deleting>> /\ pc # "down" /\ pc' # "down"
           /\ ToSet(ring') \subseteq ToSet(ring)
           /\ ToSet(batch') \subseteq ToSet(ring) \cup ToSet(batch)
<1> USE DEF plane, actor, disk, history
<1>1. TypeOK /\ PlaceType
  BY TypeParts DEF IInv
<1>2. UNCHANGED <<log, mem, deleting>> /\ pc # "down"
  BY DEF Actor, WaitTimeout, Shutdown, Message, SnapshotFailed, SnapshotStale, SnapshotDone,
     RenameSnapshot, WriteR2, UnlinkOld, TakeBatch, InitialCompact, InitialCommit,
     InitialSnapshotFailed, RotateForAppend, AppendNowhere, AppendBatch, SyncBatch,
     ResyncAfterFailure, Decide, DecideThreshold, DrainMore, DrainEnd, StartRefused,
     StartNotNeeded, StartCompaction, PumpDone, PumpTimeout, FinalManifest
<1>3. CASE TakeBatch \/ DrainMore
  <2>1. /\ batch' = SubSeq(ring, 1, Taken) /\ ring' = SubSeq(ring, Taken + 1, Len(ring))
    BY <1>3 DEF TakeBatch, DrainMore, Taken
  <2>2. pc' # "down"
    BY <1>3 DEF TakeBatch, DrainMore, Goto
  <2> QED
    BY <1>1, <1>2, <2>1, <2>2, TakenIs
<1>4. CASE \/ WaitTimeout \/ Shutdown \/ Message \/ RenameSnapshot \/ WriteR2 \/ UnlinkOld
           \/ InitialCompact \/ InitialCommit \/ InitialSnapshotFailed
  <2>1. UNCHANGED <<ring, batch>>
    BY <1>4 DEF WaitTimeout, Shutdown, Message, SnapshotFailed, SnapshotStale, SnapshotDone,
       RenameSnapshot, WriteR2, UnlinkOld, InitialCompact, InitialCommit, InitialSnapshotFailed
  <2>2. pc' # "down"
    BY <1>1, <1>4, AfterIs DEF WaitTimeout, Shutdown, Message, SnapshotFailed, SnapshotStale,
       SnapshotDone, RenameSnapshot, WriteR2, UnlinkOld, InitialCompact, InitialCommit,
       InitialSnapshotFailed, Goto
  <2> QED
    BY <1>2, <2>1, <2>2
<1>5. CASE \/ RotateForAppend \/ AppendNowhere \/ AppendBatch \/ SyncBatch \/ ResyncAfterFailure
           \/ Decide \/ DecideThreshold
  <2>1. UNCHANGED ring /\ (batch' = batch \/ batch' = <<>>)
    BY <1>5 DEF RotateForAppend, AppendNowhere, AppendBatch, SyncBatch, ResyncAfterFailure,
       Decide, DecideThreshold
  <2>2. pc' # "down"
    BY <1>1, <1>5, AfterIs DEF RotateForAppend, AppendNowhere, AppendBatch, SyncBatch,
       ResyncAfterFailure, Decide, DecideThreshold, Goto, GotoIn
  <2>3. ToSet(<<>>) = {}
    BY DEF ToSet
  <2> QED
    BY <1>2, <2>1, <2>2, <2>3
<1>6. CASE \/ DrainEnd \/ StartRefused \/ StartNotNeeded \/ StartCompaction
           \/ PumpDone \/ PumpTimeout \/ FinalManifest
  <2>1. UNCHANGED <<ring, batch>>
    BY <1>6 DEF DrainEnd, StartRefused, StartNotNeeded, StartCompaction, PumpDone, PumpTimeout,
       FinalManifest
  <2>2. pc' # "down"
    BY <1>1, <1>6, AfterIs DEF DrainEnd, StartRefused, StartNotNeeded, StartCompaction, PumpDone,
       PumpTimeout, FinalManifest, Goto
  <2> QED
    BY <1>2, <2>1, <2>2
<1> QED
  BY <1>3, <1>4, <1>5, <1>6 DEF Actor

LEMMA NumberedNext ==
    ASSUME IInv, Numbered, [Next]_vars
    PROVE  Numbered'
<1> USE DEF plane, actor, disk, history
<1>1. /\ log \in Seq(Events) /\ DOMAIN log = 1..Current /\ Current \in Nat /\ Current = Len(log)
      /\ \A s \in DOMAIN log : log[s].op = "hole" => log[s].key = NoKey
  BY DEF Numbered, WellFormed, IInv, TypeOK, Current
<1>2. ASSUME UNCHANGED log, ToSet(ring') \subseteq ToSet(ring),
             ToSet(batch') \subseteq ToSet(ring) \cup ToSet(batch)
      PROVE  Numbered'
  BY <1>2 DEF Numbered
<1>3. ASSUME NEW e, e \in Events, e.op # "hole", log' = Append(log, e), Offer(<<Current + 1>>),
             UNCHANGED batch
      PROVE  Numbered'
  <2>1. WellFormed(log')
    BY <1>1, <1>3 DEF WellFormed
  <2>2. ToSet(ring') \subseteq ToSet(ring) \cup {Current + 1}
    <3>1. <<Current + 1>> \in Seq(Nat) /\ ToSet(<<Current + 1>>) = {Current + 1}
      BY <1>1 DEF ToSet
    <3>2. TypeOK
      BY DEF IInv
    <3> QED
      BY <1>3, <3>1, <3>2, OfferIs
  <2> QED
    BY <1>1, <1>3, <2>1, <2>2 DEF Numbered
<1>4. CASE Client
  <2>1. ASSUME NEW k \in Keys, PutWithRoom(k) PROVE Numbered'
    <3>1. [op |-> "put", key |-> k] \in Events /\ [op |-> "put", key |-> k].op # "hole"
      BY DEF Events, Ops
    <3> QED
      BY <1>3, <2>1, <3>1 DEF PutWithRoom
  <2>2. ASSUME NEW k \in Keys, NEW v \in Keys \ {k}, PutEvicting(k, v) PROVE Numbered'
    <3> DEFINE p == [op |-> "put", key |-> k]
               e == [op |-> "evict", key |-> v]
    <3>1. p \in Events /\ e \in Events /\ p.op # "hole" /\ e.op # "hole"
      BY DEF Events, Ops
    <3>2. log' = log \o <<p, e>> /\ Offer(<<Current + 2, Current + 1>>) /\ UNCHANGED batch
      BY <2>2 DEF PutEvicting
    <3> HIDE DEF p, e
    <3>3. WellFormed(log')
      <4>1. <<p, e>> \in Seq(Events) /\ Len(<<p, e>>) = 2
        BY <3>1
      <4>2. log' \in Seq(Events) /\ Len(log') = Current + 2
        BY <1>1, <3>2, <4>1
      <4>3. \A s \in 1..(Current + 2) : (log'[s] = log[s] /\ s \in 1..Current) \/ log'[s] = p \/ log'[s] = e
        BY <1>1, <3>2
      <4> QED
        BY <1>1, <3>1, <4>2, <4>3 DEF WellFormed
    <3>4. ToSet(ring') \subseteq ToSet(ring) \cup {Current + 2, Current + 1}
      <4>1. /\ <<Current + 2, Current + 1>> \in Seq(Nat)
            /\ ToSet(<<Current + 2, Current + 1>>) = {Current + 2, Current + 1}
        BY <1>1 DEF ToSet
      <4>2. TypeOK
        BY DEF IInv
      <4> QED
        BY <3>2, <4>1, <4>2, OfferIs
    <3> QED
      BY <1>1, <3>2, <3>3, <3>4 DEF Numbered
  <2>3. ASSUME NEW k \in Keys, DeleteMemory(k) PROVE Numbered'
    BY <2>3 DEF DeleteMemory, Numbered
  <2>4. ASSUME NEW k \in Keys, DeleteLog(k) PROVE Numbered'
    <3> DEFINE e == [op |-> IF mem[k] = 0 THEN "evict" ELSE "late", key |-> k]
    <3>1. e \in Events /\ e.op # "hole"
      BY DEF Events, Ops
    <3>2. log' = Append(log, e) /\ Offer(<<Current + 1>>) /\ UNCHANGED batch
      BY <2>4 DEF DeleteLog
    <3> HIDE DEF e
    <3> QED
      BY <1>3, <3>1, <3>2
  <2>5. CASE Clear
    <3>1. [op |-> "clear", key |-> NoKey] \in Events /\ [op |-> "clear", key |-> NoKey].op # "hole"
      BY DEF Events, Ops
    <3> QED
      BY <1>3, <2>5, <3>1 DEF Clear
  <2>6. CASE HotSwap \/ \E k \in Keys : Migrate(k)
    BY <2>6 DEF HotSwap, Migrate, Numbered
  <2> QED
    BY <1>4, <2>1, <2>2, <2>3, <2>4, <2>5, <2>6 DEF Client
<1>5. CASE Actor
  BY <1>2, <1>5, ActorQueues
<1>6. CASE WriteSnapshotFile
  BY <1>6 DEF WriteSnapshotFile, Numbered
<1>7. ToSet(<<>>) = {}
  BY DEF ToSet
<1>8. CASE Crash
  BY <1>7, <1>8, <1>2 DEF Crash
<1>9. CASE Recovery
  <2>1. ring = <<>> /\ batch = <<>> /\ UNCHANGED <<ring, batch>>
    BY <1>9 DEF Recovery, RestartEmpty, Restart, RestartAfterGap, IInv, Control
  <2>2. CASE RestartEmpty
    <3>1. Hole \in Events /\ Hole.key = NoKey /\ <<Hole>> \in Seq(Events) /\ Len(<<Hole>>) = 1
      BY DEF Hole, Events, Ops
    <3>2. log' = <<Hole>>
      BY <2>2 DEF RestartEmpty
    <3>3. WellFormed(log')
      BY <3>1, <3>2 DEF WellFormed
    <3> QED
      BY <2>1, <3>3, <1>7 DEF Numbered
  <2>3. CASE man.snap # 0 /\ Restored
    <3>1. /\ log' \in Seq(Events) /\ DOMAIN log' = 1..PlanNext
          /\ \A i \in 1..PlanNext : \/ log'[i] = Hole
                                    \/ /\ Recalled(log[i], log'[i]) /\ log[i] \in Events
                                       /\ i \in 1..Current
      BY <2>3, RestoredIs DEF Current
    <3>2. \A i \in 1..PlanNext : log'[i].op = "hole" => log'[i].key = NoKey
      <4> TAKE i \in 1..PlanNext
      <4>1. CASE log'[i] = Hole
        BY <4>1 DEF Hole
      <4>2. CASE Recalled(log[i], log'[i]) /\ log[i] \in Events /\ i \in 1..Current
        <5>1. (log'[i].op = "hole" <=> log[i].op = "hole") /\ log'[i].key = log[i].key
          BY <4>2, RecalledIs
        <5> QED
          BY <1>1, <4>2, <5>1
      <4> QED
        BY <3>1, <4>1, <4>2
    <3> QED
      BY <2>1, <3>1, <3>2, <1>7 DEF Numbered, WellFormed
  <2> QED
    BY <1>9, <2>2, <2>3 DEF Recovery, Restart, RestartAfterGap
<1>10. CASE UNCHANGED vars
  BY <1>10 DEF vars, Numbered
<1> QED
  BY <1>4, <1>5, <1>6, <1>8, <1>9, <1>10 DEF Next

\* What a step of the data plane adds to the log leaves what was put last before it, unless
\* it is about the key.
LEMMA ClientKeeps ==
    ASSUME IInv, Client, NEW k \in Keys \ deleting', NEW s \in 1..Current, LastPut(log', k, s)
    PROVE  k \notin deleting /\ LastPut(log, k, s)
<1> USE DEF plane, actor, disk, history
<1>1. /\ log \in Seq(Events) /\ Current \in Nat /\ Current = Len(log) /\ Current' = Len(log')
      /\ Current' \in Nat /\ Current' >= Current /\ \A t \in 1..Current : log'[t] = log[t]
  <2>1. /\ Current' \in Nat /\ Current' >= Current /\ \A t \in 1..Current : log'[t] = log[t]
        /\ Current \in Nat
    BY LogGrows, NumbersIs
  <2>2. log \in Seq(Events)
    BY DEF IInv, TypeOK
  <2>3. Current = Len(log) /\ Current' = Len(log')
    BY DEF Current
  <2> QED
    BY <2>1, <2>2, <2>3
<1>2. LastPut(log, k, s)
  <2>1. ASSUME NEW t \in (s + 1)..Current PROVE ~Affects(log, t, k)
    <3>1. t \in (s + 1)..Len(log') /\ log'[t] = log[t]
      BY <1>1
    <3> QED
      BY <3>1 DEF LastPut, Affects, IsClear
  <2> QED
    BY <1>1, <2>1 DEF LastPut
<1>3. ASSUME k \in deleting PROVE FALSE
  <2>1. DeleteLog(k)
    BY <1>3 DEF Client, PutWithRoom, PutEvicting, DeleteMemory, DeleteLog, Clear, Migrate,
       HotSwap
  <2>2. /\ Current' = Current + 1
        /\ log'[Current + 1] = [op |-> IF mem[k] = 0 THEN "evict" ELSE "late", key |-> k]
    BY <1>1, <2>1 DEF DeleteLog
  <2>3. Affects(log', Current + 1, k)
    BY <2>2 DEF Affects, IsClear
  <2>4. Current + 1 \in (s + 1)..Len(log')
    BY <1>1, <2>2
  <2> QED
    BY <2>3, <2>4 DEF LastPut
<1> QED
  BY <1>2, <1>3

LEMMA HeldClient ==
    ASSUME IInv, Held, Client
    PROVE  Held'
<1> USE DEF plane, actor, disk, history
<1>1. /\ log \in Seq(Events) /\ Current \in Nat /\ Current = Len(log) /\ Current' = Len(log')
      /\ Current' \in Nat /\ Current' >= Current /\ mem \in [Keys -> Nat]
  <2>1. Current' \in Nat /\ Current' >= Current /\ Current \in Nat
    BY LogGrows, NumbersIs
  <2>2. log \in Seq(Events) /\ mem \in [Keys -> Nat]
    BY DEF IInv, TypeOK
  <2>3. Current = Len(log) /\ Current' = Len(log')
    BY DEF Current
  <2> QED
    BY <2>1, <2>2, <2>3
<1>2. pc # "down"
  BY DEF Client, PutWithRoom, PutEvicting, DeleteMemory, DeleteLog, Clear, Migrate, HotSwap,
     Up
<1>3. SUFFICES ASSUME NEW k \in Keys \ deleting', NEW s \in 1..Current',
                      s > undone'[k], LastPut(log', k, s)
               PROVE  mem'[k] = s
  BY DEF Held
<1>4. /\ log'[s].op = "put" /\ log'[s].key = k
      /\ \A t \in 1..Current' : Affects(log', t, k) => t <= s
  <2>1. \A t \in 1..Current' : t <= s \/ t \in (s + 1)..Len(log')
    BY <1>1
  <2>2. log'[s] = [op |-> "put", key |-> k] /\ \A t \in (s + 1)..Len(log') : ~Affects(log', t, k)
    BY <1>3 DEF LastPut
  <2> QED
    BY <2>1, <2>2
<1>5. ASSUME s <= Current PROVE mem[k] = s
  <2>1. s \in 1..Current
    BY <1>1, <1>5
  <2>2. k \in Keys \ deleting /\ LastPut(log, k, s)
    BY <2>1, <1>3, ClientKeeps
  <2>3. s > undone[k]
    BY <1>3, <2>1, UndoneGrows
  <2> QED
    BY <2>1, <2>2, <2>3, <1>2 DEF Held
<1>6. ASSUME NEW j \in Keys, PutWithRoom(j) PROVE mem'[k] = s
  <2>1. /\ Current' = Current + 1 /\ log'[Current + 1] = [op |-> "put", key |-> j]
        /\ mem' = [mem EXCEPT ![j] = Current + 1]
    BY <1>1, <1>6 DEF PutWithRoom
  <2>2. CASE k = j
    <3>1. Affects(log', Current + 1, k)
      BY <2>1, <2>2 DEF Affects
    <3>2. s = Current + 1
      BY <1>1, <1>4, <2>1, <3>1
    <3> QED
      BY <1>1, <2>1, <2>2, <3>2
  <2>3. CASE k # j
    <3>1. s # Current + 1
      BY <1>4, <2>1, <2>3
    <3>2. s <= Current
      BY <1>1, <2>1, <3>1
    <3> QED
      BY <1>1, <1>5, <2>1, <2>3, <3>2
  <2> QED
    BY <2>2, <2>3
<1>7. ASSUME NEW j \in Keys, NEW v \in Keys \ {j}, PutEvicting(j, v) PROVE mem'[k] = s
  <2> DEFINE p == [op |-> "put", key |-> j]
             e == [op |-> "evict", key |-> v]
  <2>1. log' = log \o <<p, e>>
    BY <1>7 DEF PutEvicting
  <2>2. Current' = Current + 2 /\ log'[Current + 1] = p /\ log'[Current + 2] = e
    BY <1>1, <2>1
  <2>3. mem' = [mem EXCEPT ![j] = Current + 1, ![v] = 0]
    BY <1>7 DEF PutEvicting
  <2>4. s # Current + 2
    BY <1>4, <2>2
  <2>5. CASE k = j
    <3>1. Affects(log', Current + 1, k) /\ Current + 1 \in 1..Current'
      BY <1>1, <2>2, <2>5 DEF Affects
    <3>2. s = Current + 1
      BY <1>1, <1>4, <2>2, <2>4, <3>1
    <3> QED
      BY <1>1, <2>3, <2>5, <3>2
  <2>6. CASE k = v
    <3>1. Affects(log', Current + 2, k) /\ Current + 2 \in 1..Current'
      BY <1>1, <2>2, <2>6 DEF Affects
    <3> QED
      BY <1>1, <1>4, <2>2, <2>4, <3>1
  <2>7. CASE k # j /\ k # v
    <3>1. s # Current + 1
      BY <1>4, <2>2, <2>7
    <3>2. s <= Current
      BY <1>1, <2>2, <2>4, <3>1
    <3> QED
      BY <1>1, <1>5, <2>3, <2>7, <3>2
  <2> QED
    BY <2>5, <2>6, <2>7
<1>8. ASSUME NEW j \in Keys, DeleteMemory(j) PROVE mem'[k] = s
  <2>1. UNCHANGED log /\ deleting' = deleting \cup {j} /\ mem' = [mem EXCEPT ![j] = 0]
    BY <1>8 DEF DeleteMemory
  <2>2. s <= Current /\ k # j
    BY <1>1, <2>1
  <2> QED
    BY <1>1, <1>5, <2>1, <2>2
<1>9. ASSUME NEW j \in Keys, DeleteLog(j) PROVE mem'[k] = s
  <2>1. /\ Current' = Current + 1 /\ UNCHANGED mem
        /\ log'[Current + 1] = [op |-> IF mem[j] = 0 THEN "evict" ELSE "late", key |-> j]
    BY <1>1, <1>9 DEF DeleteLog
  <2>2. s # Current + 1
    BY <1>4, <2>1
  <2>3. s <= Current
    BY <1>1, <2>1, <2>2
  <2> QED
    BY <1>5, <2>1, <2>3
<1>10. CASE Clear
  <2>1. Current' = Current + 1 /\ log'[Current + 1] = [op |-> "clear", key |-> NoKey]
    BY <1>1, <1>10 DEF Clear
  <2>2. Affects(log', Current + 1, k) /\ Current + 1 \in 1..Current'
    BY <1>1, <2>1 DEF Affects, IsClear
  <2>3. s = Current + 1
    BY <1>1, <1>4, <2>1, <2>2
  <2> QED
    BY <1>4, <2>1, <2>3
<1>11. ASSUME NEW j \in Keys, Migrate(j) PROVE mem'[k] = s
  <2>1. UNCHANGED <<log, mem>>
    BY <1>11 DEF Migrate
  <2> QED
    BY <1>1, <1>5, <2>1
<1>12. CASE HotSwap
  <2>1. UNCHANGED log /\ (mem'[k] = mem[k] \/ undone'[k] = Current)
    BY <1>12 DEF HotSwap
  <2>2. s <= Current /\ undone'[k] # Current
    BY <1>1, <1>3, <2>1
  <2> QED
    BY <1>5, <2>1, <2>2
<1> QED
  BY <1>6, <1>7, <1>8, <1>9, <1>10, <1>11, <1>12 DEF Client

\* What recovery makes of a key whose newest event is a PUT it reads.
LEMMA RecoveredNewest ==
    ASSUME IInv, man.snap # 0, NEW k \in Keys, NEW s \in 1..Current,
           log[s] = [op |-> "put", key |-> k],
           s > man.snap => s \in ReadRecords(man, segFile),
           s <= man.snap => snapFile[man.snap][k] = s,
           \A t \in ReadRecords(man, segFile) : t > s /\ t > man.snap => ~Affects(log, t, k)
    PROVE  Recovered[k] = s
<1> DEFINE e == snapFile[man.snap][k]
           R == {t \in ReadRecords(man, segFile) : t > man.snap}
           A == {t \in R : Affects(log, t, k)}
           last == Largest(A)
<1>1. Current \in Nat /\ man.snap \in Nat /\ s \in Nat /\ s >= 1
  BY NumbersIs
<1>2. A \in SUBSET (0..Current)
  BY ReadIs
<1>3. last \in A \cup {0} /\ \A t \in A : t <= last /\ t \in Nat
  BY <1>1, <1>2, LargestBelow
<1> HIDE DEF last
<1>4. Recovered[k] = IF last = 0 THEN e ELSE IF IsPut(log, last) THEN last ELSE 0
  BY DEF Recovered, Replay, ReplayKey, last
<1>5. CASE s > man.snap
  <2>1. s \in A
    BY <1>5 DEF Affects
  <2>2. last \in A /\ last >= s
    BY <1>1, <1>3, <2>1
  <2>3. ~(last > s)
    BY <2>2
  <2>4. last = s
    BY <1>1, <1>3, <2>2, <2>3
  <2> QED
    BY <1>1, <1>4, <2>4 DEF IsPut
<1>6. CASE s <= man.snap
  <2>1. last \notin A
    <3> SUFFICES ASSUME last \in A PROVE FALSE
      OBVIOUS
    <3>1. last > man.snap /\ last \in Nat
      BY <1>3
    <3>2. last > s
      BY <1>1, <1>6, <3>1
    <3> QED
      BY <3>1, <3>2
  <2> QED
    BY <1>3, <1>4, <1>6, <2>1
<1> QED
  BY <1>1, <1>5, <1>6

LEMMA HeldRecovery ==
    ASSUME IInv, Recovery
    PROVE  Held' /\ \A k \in Keys, s \in 1..Current' : LastPut(log', k, s) =>
                       (man'.snap # 0 /\ s <= man'.snap => snapFile'[man'.snap][k] = s)
<1> USE DEF plane, actor, disk, history
<1>1. CASE RestartEmpty
  <2>1. log' = <<Hole>> /\ Current' = 1 /\ log'[1] = Hole
    BY <1>1 DEF RestartEmpty, Current
  <2>2. \A k \in Keys, s \in 1..Current' : ~LastPut(log', k, s)
    BY <2>1 DEF LastPut, Hole
  <2> QED
    BY <2>2 DEF Held
<1>2. CASE man.snap # 0 /\ Restored /\ (Restart \/ RestartAfterGap)
  <2>1. /\ PlanNext \in Nat /\ Current' = PlanNext /\ Len(log') = PlanNext /\ MaxSeen <= PlanNext
        /\ MaxSeen \in 1..Current /\ Current \in Nat /\ man.snap \in Nat
        /\ \A i \in 1..PlanNext : \/ log'[i] = Hole /\ ~Traced(i)
                                  \/ /\ Recalled(log[i], log'[i]) /\ log[i] \in Events
                                     /\ Traced(i) /\ i \in 1..Current
        /\ \A k \in Keys, i \in 1..PlanNext :
              i = Recovered[k] /\ log'[i] = [op |-> "put", key |-> k] => mem'[k] = i
    <3>1. Current \in Nat /\ man.snap \in Nat
      BY NumbersIs
    <3>2. /\ PlanNext \in Nat /\ PlanNext >= MaxSeen + 1 /\ MaxSeen \in 1..Current
          /\ Current' = PlanNext
          /\ \A k \in Keys, i \in 1..PlanNext :
                i = Recovered[k] /\ log'[i] = [op |-> "put", key |-> k] => mem'[k] = i
      BY <1>2, RestoredIs
    <3>3. \A i \in 1..PlanNext : \/ log'[i] = Hole /\ ~Traced(i)
                                \/ /\ Recalled(log[i], log'[i]) /\ log[i] \in Events
                                   /\ Traced(i) /\ i \in 1..Current
      BY <1>2, RestoredIs
    <3>4. Len(log') = PlanNext /\ MaxSeen <= PlanNext
      BY <3>1, <3>2 DEF Current
    <3> QED
      BY <3>1, <3>2, <3>3, <3>4
  <2>2. \A t \in ReadRecords(man, segFile) : t \in Nat /\ t <= PlanNext
    BY <1>2, <2>1, PlanIs, ReadIs
  <2>3. ASSUME NEW k \in Keys, NEW s \in 1..Current', LastPut(log', k, s)
        PROVE  /\ mem'[k] = s /\ s \in 1..Current
               /\ s <= man.snap => snapFile[man.snap][k] = s
    <3>1. log'[s] = [op |-> "put", key |-> k] /\ \A t \in (s + 1)..PlanNext : ~Affects(log', t, k)
      BY <2>1, <2>3 DEF LastPut
    <3>2. log'[s].op = "put" /\ log'[s] # Hole
      BY <3>1 DEF Hole
    <3>3. Recalled(log[s], log'[s]) /\ log[s] \in Events /\ Traced(s) /\ s \in 1..Current
      BY <2>1, <2>3, <3>2
    <3>4. log[s] = [op |-> "put", key |-> k] /\ IsPut(log, s)
      <4>1. log[s] = log'[s]
        BY <3>2, <3>3, RecalledIs
      <4> QED
        BY <3>1, <4>1 DEF IsPut
    <3>5. /\ s > man.snap => s \in ReadRecords(man, segFile)
          /\ s <= man.snap => snapFile[man.snap][k] = s
      BY <2>1, <3>3, <3>4 DEF Traced
    <3>6. ASSUME NEW t \in ReadRecords(man, segFile), t > s, t > man.snap PROVE ~Affects(log, t, k)
      <4>1. t \in (s + 1)..PlanNext /\ t \in 1..PlanNext /\ Traced(t)
        BY <2>1, <2>2, <3>6 DEF Traced
      <4>2. Recalled(log[t], log'[t]) /\ log[t] \in Events /\ ~Affects(log', t, k)
        BY <2>1, <3>1, <4>1
      <4> QED
        BY <4>2, RecalledAffects
    <3>7. Recovered[k] = s
      BY <1>2, <3>3, <3>4, <3>5, <3>6, RecoveredNewest
    <3> QED
      BY <2>1, <2>3, <3>1, <3>3, <3>5, <3>7
  <2>4. man'.snap = man.snap /\ man.snap \in DOMAIN snapFile
    BY <1>2 DEF Restart, RestartAfterGap, IInv, TypeOK, Snapshots
  <2>5. snapFile'[man.snap] = snapFile[man.snap]
    BY <1>2, <2>4 DEF Restart, RestartAfterGap, Removed
  <2> QED
    BY <2>3, <2>4, <2>5 DEF Held
<1> QED
  BY <1>1, <1>2 DEF Recovery, Restart, RestartAfterGap

LEMMA HeldNext ==
    ASSUME IInv, Held, [Next]_vars
    PROVE  Held'
<1> USE DEF plane, actor, disk, history
<1>1. CASE Actor
  BY <1>1, ActorQueues, ActorPlane DEF Held, Current
<1>2. CASE WriteSnapshotFile
  BY <1>2 DEF WriteSnapshotFile, Held, Current
<1>3. CASE Crash
  BY <1>3 DEF Crash, Held
<1>4. CASE UNCHANGED vars
  BY <1>4 DEF vars, Held, Current
<1> QED
  BY <1>1, <1>2, <1>3, <1>4, HeldClient, HeldRecovery DEF Next

\* The snapshot that is named stays complete.
LEMMA CompleteNext ==
    ASSUME IInv, Held, Complete, [Next]_vars
    PROVE  Complete'
<1> USE DEF plane, actor, disk, history
<1>1. /\ Current \in Nat /\ man.snap \in 0..Current /\ snapper.seq \in Nat
      /\ (snapper.st # "none" => snapper.seq \in 1..Current)
      /\ snapper \in Snapper /\ man \in [snap : Nat, segs : Seq(Nat), seq : Nat]
      /\ man.snap # 0 => man.snap \in DOMAIN snapFile
  BY NumbersIs, SnapperTyped DEF IInv, TypeOK, Snapshots
<1>2. CASE Client
  <2>1. UNCHANGED <<man, snapFile>>
    BY <1>2 DEF Client, PutWithRoom, PutEvicting, DeleteMemory, DeleteLog, Clear, Migrate,
       HotSwap
  <2>2. snapper'.st = snapper.st /\ snapper'.seq = snapper.seq /\ snapper'.data = snapper.data
    <3>1. snapper' = snapper \/ snapper' = [snapper EXCEPT !.current = FALSE]
      BY <1>2 DEF Client, PutWithRoom, PutEvicting, DeleteMemory, DeleteLog, Clear, Migrate,
       HotSwap
    <3> QED
      BY <1>1, <3>1 DEF Snapper
  <2>3. ASSUME NEW k \in Keys \ deleting', NEW s \in 1..Current', s > undone'[k],
               LastPut(log', k, s), s <= Current
        PROVE  /\ man.snap # 0 /\ s <= man.snap => snapFile[man.snap][k] = s
               /\ snapper.st = "done" /\ s <= snapper.seq => snapper.data[k] = s
    <3>1. Current' \in Nat /\ s \in 1..Current
      BY <1>1, <1>2, <2>3, LogGrows
    <3>2. k \in Keys \ deleting /\ LastPut(log, k, s)
      BY <1>2, <2>3, <3>1, ClientKeeps
    <3>3. s > undone[k]
      BY <1>2, <2>3, <3>1, UndoneGrows
    <3> QED
      BY <3>1, <3>2, <3>3 DEF Complete
  <2>4. \A s \in 1..Current' : /\ man.snap # 0 /\ s <= man.snap => s <= Current
                               /\ snapper.st = "done" /\ s <= snapper.seq => s <= Current
    BY <1>1, <1>2, LogGrows
  <2>5. ASSUME NEW k \in Keys \ deleting', NEW s \in 1..Current', s > undone'[k],
               LastPut(log', k, s)
        PROVE  /\ man.snap # 0 /\ s <= man.snap => snapFile[man.snap][k] = s
               /\ snapper.st = "done" /\ s <= snapper.seq => snapper.data[k] = s
    <3>1. CASE s <= Current
      BY <2>3, <2>5, <3>1
    <3>2. CASE ~(s <= Current)
      <4>1. ~(man.snap # 0 /\ s <= man.snap)
        BY <2>4, <3>2
      <4>2. ~(snapper.st = "done" /\ s <= snapper.seq)
        BY <2>4, <3>2
      <4> QED
        BY <4>1, <4>2
    <3> QED
      BY <3>1, <3>2
  <2> QED
    BY <2>1, <2>2, <2>5 DEF Complete
<1>3. ASSUME UNCHANGED <<log, deleting, undone>>,
             man'.snap = man.snap, man.snap # 0 => snapFile'[man.snap] = snapFile[man.snap],
             \/ snapper'.st # "done"
             \/ snapper'.st = snapper.st /\ snapper'.seq = snapper.seq /\ snapper'.data = snapper.data
      PROVE  Complete'
  BY <1>3 DEF Complete, Current
<1>4. ASSUME UNCHANGED <<log, deleting, undone>>, snapper.st = "done",
             man'.snap = snapper.seq, snapFile'[snapper.seq] = snapper.data, snapper'.st # "done"
      PROVE  Complete'
  BY <1>4 DEF Complete, Current
<1>5. Idle.st = "none"
  BY DEF Idle
<1>6. CASE Actor
  <2>1. UNCHANGED <<log, deleting, undone>>
    BY <1>6, ActorQueues, ActorPlane
  <2>2. CASE RenameSnapshot
    <3>1. pc = "rename" /\ snapper.st = "done" /\ UNCHANGED man
      BY <2>2 DEF RenameSnapshot, IInv, Control
    <3>2. CASE snapFile' = Written(snapFile, snapper.seq, snapper.data) /\ UNCHANGED snapper
      <4>1. CASE man.snap = snapper.seq
        <5>1. snapFile'[man.snap] = snapper.data
          BY <3>2, <4>1 DEF Written
        <5> QED
          BY <2>1, <3>1, <3>2, <4>1, <5>1 DEF Complete, Current
      <4>2. CASE man.snap # snapper.seq
        <5>1. man.snap # 0 => snapFile'[man.snap] = snapFile[man.snap]
          BY <1>1, <3>2, <4>2 DEF Written
        <5> QED
          BY <1>3, <2>1, <3>1, <3>2, <5>1
      <4> QED
        BY <4>1, <4>2
    <3>3. CASE snapper' = Idle /\ UNCHANGED snapFile
      BY <1>3, <1>5, <2>1, <3>1, <3>3
    <3> QED
      BY <2>2, <3>2, <3>3 DEF RenameSnapshot
  <2>3. CASE WriteR2
    <3>1. pc = "r2" /\ snapper.st = "done" /\ snapper' = Idle /\ UNCHANGED snapFile
      BY <2>3 DEF WriteR2, IInv, Control
    <3>2. snapFile[snapper.seq] = snapper.data
      BY <3>1 DEF IInv, Snapshots
    <3>3. CASE man'.snap = snapper.seq
      BY <1>4, <1>5, <2>1, <3>1, <3>2, <3>3
    <3>4. CASE UNCHANGED man
      BY <1>3, <1>5, <2>1, <3>1, <3>4
    <3>5. man'.snap = snapper.seq \/ UNCHANGED man
      BY <2>3 DEF WriteR2
    <3> QED
      BY <3>3, <3>4, <3>5
  <2>4. CASE UnlinkOld
    <3>1. snapFile' = Removed(snapFile, {old.snap} \ {man.snap}) /\ UNCHANGED <<man, snapper>>
      BY <2>4 DEF UnlinkOld
    <3>2. man.snap # 0 => snapFile'[man.snap] = snapFile[man.snap]
      BY <1>1, <3>1 DEF Removed
    <3> QED
      BY <1>3, <2>1, <3>1, <3>2
  <2>5. CASE InitialCommit
    <3>1. snapper.st = "done" /\ snapper' = Idle /\ snapFile' = Written(snapFile, snapper.seq, snapper.data)
      BY <2>5 DEF InitialCommit
    <3>2. man.snap = 0
      BY <2>5 DEF InitialCommit, IInv, Control
    <3>3. snapFile'[snapper.seq] = snapper.data
      BY <3>1 DEF Written
    <3>4. man'.snap = snapper.seq \/ UNCHANGED man
      BY <2>5 DEF InitialCommit
    <3> QED
      BY <1>3, <1>4, <1>5, <2>1, <3>1, <3>2, <3>3, <3>4
  <2>6. CASE InitialCompact \/ StartCompaction
    <3>1. UNCHANGED snapFile /\ man'.snap = man.snap
      BY <2>6 DEF InitialCompact, StartCompaction, NewSegment, NoNewSegment
    <3>2. snapper'.st = "running" \/ UNCHANGED snapper
      BY <2>6 DEF InitialCompact, StartCompaction, Idle
    <3> QED
      BY <1>3, <2>1, <3>1, <3>2
  <2>7. CASE \/ WaitTimeout \/ Shutdown \/ Message \/ TakeBatch \/ InitialSnapshotFailed
             \/ RotateForAppend \/ AppendNowhere \/ AppendBatch \/ SyncBatch
             \/ ResyncAfterFailure
    <3>1. UNCHANGED snapFile
      BY <2>7 DEF WaitTimeout, Shutdown, Message, SnapshotFailed, SnapshotStale, SnapshotDone,
         TakeBatch, InitialSnapshotFailed, RotateForAppend, AppendNowhere, AppendBatch,
         SyncBatch, ResyncAfterFailure
    <3>2. man'.snap = man.snap
      BY <2>7 DEF WaitTimeout, Shutdown, Message, SnapshotFailed, SnapshotStale, SnapshotDone,
         TakeBatch, InitialSnapshotFailed, RotateForAppend, AppendNowhere, AppendBatch,
         SyncBatch, ResyncAfterFailure, NewSegment, NoNewSegment
    <3>3. \/ snapper' = Idle \/ UNCHANGED snapper
          \/ snapper' = [snapper EXCEPT !.current = FALSE]
      BY <2>7 DEF WaitTimeout, Shutdown, Message, SnapshotFailed, SnapshotStale, SnapshotDone,
         TakeBatch, InitialSnapshotFailed, RotateForAppend, AppendNowhere, AppendBatch,
         SyncBatch, ResyncAfterFailure
    <3>4. \/ snapper'.st = "none"
          \/ snapper'.st = snapper.st /\ snapper'.seq = snapper.seq /\ snapper'.data = snapper.data
      BY <1>1, <1>5, <3>3 DEF Snapper
    <3> QED
      BY <1>3, <2>1, <3>1, <3>2, <3>4
  <2>8. CASE \/ Decide \/ DecideThreshold \/ DrainMore \/ DrainEnd \/ StartRefused
             \/ StartNotNeeded \/ PumpDone \/ PumpTimeout \/ FinalManifest
    <3>1. UNCHANGED <<snapFile, snapper>>
      BY <2>8 DEF Decide, DecideThreshold, DrainMore, DrainEnd, StartRefused, StartNotNeeded,
         PumpDone, PumpTimeout, FinalManifest
    <3>2. man'.snap = man.snap
      BY <1>1, <2>8 DEF Decide, DecideThreshold, DrainMore, DrainEnd, StartRefused, StartNotNeeded,
         PumpDone, PumpTimeout, FinalManifest
    <3> QED
      BY <1>3, <2>1, <3>1, <3>2
  <2> QED
    BY <1>6, <2>2, <2>3, <2>4, <2>5, <2>6, <2>7, <2>8 DEF Actor
<1>7. CASE WriteSnapshotFile
  <2>1. UNCHANGED <<log, deleting, undone, man, snapFile>> /\ pc # "down"
    BY <1>7 DEF WriteSnapshotFile
  <2>2. CASE snapper' = [snapper EXCEPT !.st = "done",
                 !.data = [k \in Keys |-> IF mem[k] <= snapper.seq THEN mem[k] ELSE 0]]
    <3>1. /\ snapper'.seq = snapper.seq
          /\ snapper'.data = [k \in Keys |-> IF mem[k] <= snapper.seq THEN mem[k] ELSE 0]
      BY <1>1, <2>2 DEF Snapper
    <3> QED
      BY <2>1, <3>1 DEF Complete, Held, Current
  <2>3. CASE snapper' = [snapper EXCEPT !.st = "failed"]
    <3>1. snapper'.st = "failed"
      BY <1>1, <2>3 DEF Snapper
    <3> QED
      BY <1>3, <2>1, <3>1
  <2> QED
    BY <1>7, <2>2, <2>3 DEF WriteSnapshotFile
<1>8. CASE Crash
  <2>1. UNCHANGED <<log, deleting, undone, man, snapFile>> /\ snapper' = Idle
    BY <1>8 DEF Crash
  <2> QED
    BY <1>3, <1>5, <2>1
<1>9. CASE Recovery
  <2>1. pc = "down" /\ UNCHANGED snapper
    BY <1>9 DEF Recovery, RestartEmpty, Restart, RestartAfterGap
  <2>2. snapper'.st = "none"
    BY <1>5, <2>1 DEF IInv, Control
  <2> QED
    BY <1>9, <2>2, HeldRecovery DEF Complete
<1>10. CASE UNCHANGED vars
  BY <1>10 DEF vars, Complete, Current
<1> QED
  BY <1>2, <1>6, <1>7, <1>8, <1>9, <1>10 DEF Next

\* The segments the manifest names.
LEMMA NamedSegments ==
    ASSUME IInv
    PROVE  /\ man.segs \in Seq(Nat) /\ Len(man.segs) \in Nat /\ Current \in Nat /\ wal \in Nat
           /\ man \in [snap : Nat, segs : Seq(Nat), seq : Nat] /\ acked \subseteq Nat
           /\ \A i \in 1..Len(man.segs) :
                 /\ man.segs[i] \in Nat /\ man.segs[i] \in DOMAIN segFile
                 /\ segFile[man.segs[i]] \in [recs : Seq(Nat), dur : Nat, torn : BOOLEAN]
                 /\ \A r \in ToSet(segFile[man.segs[i]].recs) : r \in Nat /\ r <= Current
           /\ \A i, j \in 1..Len(man.segs) : i < j => man.segs[i] < man.segs[j]
           /\ man.snap # 0 => Len(man.segs) >= 1
           /\ man.snap = 0 => man.segs = <<>>
           /\ pc # "down" /\ man.snap # 0 /\ wal # 0 => wal = man.segs[Len(man.segs)]
<1>1. /\ man.segs \in Seq(Nat) /\ Len(man.segs) \in Nat /\ Current \in Nat /\ wal \in Nat
      /\ man \in [snap : Nat, segs : Seq(Nat), seq : Nat] /\ acked \subseteq Nat
  BY DEF IInv, TypeOK, Current
<1>2. ASSUME NEW i \in 1..Len(man.segs)
      PROVE  /\ man.segs[i] \in Nat /\ man.segs[i] \in DOMAIN segFile
             /\ segFile[man.segs[i]] \in [recs : Seq(Nat), dur : Nat, torn : BOOLEAN]
             /\ \A r \in ToSet(segFile[man.segs[i]].recs) : r \in Nat /\ r <= Current
  <2>1. man.segs[i] \in Nat /\ man.segs[i] \in DOMAIN segFile
    BY <1>1 DEF IInv, Segments, Ordered, ToSet
  <2>2. segFile[man.segs[i]] \in [recs : Seq(Nat), dur : Nat, torn : BOOLEAN]
    BY <2>1 DEF IInv, TypeOK
  <2>3. \A r \in ToSet(segFile[man.segs[i]].recs) : r \in Nat /\ r <= Current
    BY <2>1, <2>2 DEF IInv, Issued, ToSet
  <2> QED
    BY <2>1, <2>2, <2>3
<1>3. \A i, j \in 1..Len(man.segs) : i < j => man.segs[i] < man.segs[j]
  BY DEF IInv, Segments, Ordered
<1>4. man.snap # 0 => Len(man.segs) >= 1
  BY DEF IInv, Segments
<1>5. man.snap = 0 => man.segs = <<>>
  BY DEF IInv, Control, NoManifest
<1>6. pc # "down" /\ man.snap # 0 /\ wal # 0 => wal = man.segs[Len(man.segs)]
  BY DEF IInv, Control
<1> QED
  BY <1>1, <1>2, <1>3, <1>4, <1>5, <1>6

\* A stored record is a record of a segment named.
LEMMA StoredIs ==
    ASSUME IInv, Sealed, NEW r, Stored(man.segs, segFile, r)
    PROVE  /\ r \in Nat /\ r <= Current
           /\ \E i \in 1..Len(man.segs) :
                 /\ r \in ToSet(segFile[man.segs[i]].recs)
                 /\ \E j \in 1..segFile[man.segs[i]].dur :
                       j \in 1..Len(segFile[man.segs[i]].recs) /\ segFile[man.segs[i]].recs[j] = r
<1>1. PICK i \in 1..Len(man.segs) :
         \E n \in 1..segFile[man.segs[i]].dur : segFile[man.segs[i]].recs[n] = r
  BY DEF Stored
<1>2. PICK j \in 1..segFile[man.segs[i]].dur : segFile[man.segs[i]].recs[j] = r
  BY <1>1
<1>3. segFile[man.segs[i]] \in [recs : Seq(Nat), dur : Nat, torn : BOOLEAN]
  BY NamedSegments
<1>4. segFile[man.segs[i]].dur \in 0..Len(segFile[man.segs[i]].recs)
  BY DEF Sealed
<1>5. j \in 1..Len(segFile[man.segs[i]].recs)
  BY <1>3, <1>4
<1>6. r \in ToSet(segFile[man.segs[i]].recs)
  BY <1>2, <1>3, <1>5 DEF ToSet
<1>7. r \in Nat /\ r <= Current
  BY <1>6, NamedSegments
<1> QED
  BY <1>2, <1>5, <1>6, <1>7

\* What is stored above the new snapshot stays stored, and nothing above it is acknowledged.
LEMMA LoggedStays ==
    ASSUME IInv, Sealed, Logged,
           Current' \in Nat, Current' >= Current, \A s \in 1..Current : log'[s] = log[s],
           man'.snap \in Nat, man'.snap >= man.snap,
           \A s \in acked' : s \in acked \/ (s \in Nat /\ s <= man'.snap /\ s <= Current),
           \A r \in Nat : r > man'.snap /\ Stored(man.segs, segFile, r) => Stored(man'.segs, segFile', r)
    PROVE  Logged'
<1>1. /\ Current \in Nat /\ man.snap \in Nat /\ acked \subseteq Nat
  BY NamedSegments, NumbersIs
<1>2. ASSUME NEW s \in acked' PROVE s \in Nat /\ s <= Current /\ s <= Current'
  <2>1. s \in Nat /\ s <= Current
    BY <1>1 DEF Logged
  <2> QED
    BY <1>1, <2>1
<1>3. ASSUME NEW s \in acked', NEW k \in Keys, s > man'.snap, Affects(log', s, k)
      PROVE  \E r \in Nat : r >= s /\ Affects(log', r, k) /\ Stored(man'.segs, segFile', r)
  <2>0. s \in Nat /\ s <= Current /\ s > man.snap /\ s >= 1
    BY <1>1, <1>2, <1>3
  <2>1. s \in acked /\ s \in 1..Current /\ s > man.snap
    <3>1. s \in acked
      BY <1>3, <2>0
    <3> QED
      BY <1>1, <2>0, <3>1
  <2>2. Affects(log, s, k)
    BY <1>3, <2>1 DEF Affects, IsClear
  <2>3. PICK r \in Nat : r >= s /\ Affects(log, r, k) /\ Stored(man.segs, segFile, r)
    BY <2>1, <2>2 DEF Logged
  <2>4. r \in 1..Current
    <3>1. r <= Current
      BY <2>3, StoredIs
    <3> QED
      BY <1>1, <2>1, <2>3, <3>1
  <2>5. Affects(log', r, k)
    BY <2>3, <2>4 DEF Affects, IsClear
  <2>6. r > man'.snap
    BY <1>1, <1>3, <2>1, <2>3
  <2> QED
    BY <2>3, <2>5, <2>6
<1> QED
  BY <1>2, <1>3 DEF Logged

DiskInv == Sealed /\ Covered /\ Logged /\ Pending /\ Begun

\* The snapshot on its way is none, or the one that was.
SameFlight ==
    snapper'.current \/ pc' \in {"rename", "r2"} =>
        (snapper.current \/ pc \in {"rename", "r2"}) /\ snapper'.seq = snapper.seq

\* The actor takes a step that leaves the named segments alone.
LEMMA DiskStill ==
    ASSUME IInv, DiskInv, UNCHANGED <<log, wal, acked>>, pc \notin {"down", "sync"},
           pc' \notin {"down", "sync"}, SameFlight,
           man'.snap = man.snap, man'.segs = man.segs,
           \A i \in 1..Len(man.segs) : segFile'[man.segs[i]] = segFile[man.segs[i]]
    PROVE  DiskInv'
<1>1. Sealed' /\ Begun' /\ Pending'
  BY DEF DiskInv, Sealed, Begun, Pending
<1>2. Covered'
  BY DEF DiskInv, Covered, SameFlight
<1>3. Logged'
  <2>1. \A r \in Nat : Stored(man.segs, segFile, r) => Stored(man'.segs, segFile', r)
    BY DEF Stored
  <2>2. man'.snap \in Nat /\ man'.snap >= man.snap /\ Current' \in Nat /\ Current' >= Current
    BY NumbersIs DEF Current
  <2>3. \A s \in 1..Current : log'[s] = log[s]
    OBVIOUS
  <2>4. (\A s \in acked' : s \in acked) /\ Sealed /\ Logged
    BY DEF DiskInv
  <2> QED
    BY <2>1, <2>2, <2>3, <2>4, LoggedStays
<1> QED
  BY <1>1, <1>2, <1>3 DEF DiskInv

\* A new segment is named after the ones the snapshot does not cover.
LEMMA DiskRotated ==
    ASSUME IInv, DiskInv, UNCHANGED <<log, acked>>, pc \notin {"down", "sync"},
           pc' \notin {"down", "sync"}, man.snap # 0,
           Len(KeptSegments(man.segs, man.snap)) <= MaxSegments - 1,
           NewSegment(KeptSegments(man.segs, man.snap))
    PROVE  /\ Sealed' /\ Logged' /\ Pending' /\ Begun' /\ man'.snap = man.snap
           /\ \A i \in 1..Len(man'.segs) : \A r \in ToSet(segFile'[man'.segs[i]].recs) :
                 \E j \in 1..Len(man.segs) : r \in ToSet(segFile[man.segs[j]].recs)
<1> DEFINE keep == KeptSegments(man.segs, man.snap)
<1>1. /\ man.segs \in Seq(Nat) /\ man.segs # <<>> /\ man.snap \in Nat /\ Current \in Nat
      /\ lastBase \in Nat /\ lastBase = man.segs[Len(man.segs)]
  <2>1. man.segs \in Seq(Nat) /\ man.segs # <<>> /\ man.snap \in Nat
    BY KeptType, NumbersIs
  <2>2. lastBase \in Nat /\ lastBase = man.segs[Len(man.segs)]
    BY DEF IInv, TypeOK, Control
  <2> QED
    BY <2>1, <2>2, NumbersIs
<1>2. PICK d \in 0..(Len(man.segs) - 1) :
         /\ keep \in Seq(Nat) /\ Len(keep) = Len(man.segs) - d
         /\ \A i \in 1..(Len(man.segs) - d) : keep[i] = man.segs[d + i] /\ d + i \in 1..Len(man.segs)
  BY <1>1, KeptIs
<1>3. NewBase \in Nat /\ NewBase > lastBase
  BY <1>1 DEF NewBase, Larger
<1>4. /\ segFile' = Written(segFile, NewBase, EmptySegment) /\ man'.segs = Append(keep, NewBase)
      /\ man'.snap = man.snap
  BY DEF NewSegment
<1>5. ToSet(keep) = {keep[i] : i \in 1..Len(keep)}
  BY <1>2 DEF ToSet
<1>6. \A i \in 1..Len(man.segs) : man.segs[i] # NewBase /\ segFile'[man.segs[i]] = segFile[man.segs[i]]
  <2> TAKE i \in 1..Len(man.segs)
  <2>1. man.segs[i] <= lastBase /\ man.segs[i] \in Nat /\ man.segs[i] \in DOMAIN segFile
    <3>1. man.segs[i] \in Nat /\ man.segs[i] \in DOMAIN segFile
      BY NamedSegments
    <3>2. CASE i = Len(man.segs)
      BY <1>1, <3>1, <3>2
    <3>3. CASE i # Len(man.segs)
      <4>1. i < Len(man.segs) /\ Len(man.segs) \in 1..Len(man.segs)
        BY <1>1, <3>3
      <4>2. man.segs[i] < man.segs[Len(man.segs)]
        BY <4>1, NamedSegments
      <4> QED
        BY <1>1, <3>1, <4>2
    <3> QED
      BY <3>2, <3>3
  <2> QED
    BY <1>1, <1>3, <1>4, <2>1 DEF Written
<1>7. segFile'[NewBase] = EmptySegment
  BY <1>4 DEF Written
<1> HIDE DEF keep
<1>8. ASSUME NEW i \in 1..Len(man'.segs)
      PROVE  \/ i = Len(man'.segs) /\ segFile'[man'.segs[i]] = EmptySegment
             \/ \E j \in 1..Len(man.segs) : /\ j < Len(man.segs) \/ pc # "sync"
                                           /\ segFile'[man'.segs[i]] = segFile[man.segs[j]]
  <2>1. Len(man'.segs) = Len(keep) + 1
    <3>1. keep \in Seq(Nat) /\ man'.segs = Append(keep, NewBase) /\ NewBase \in Nat
      BY <1>2, <1>3, <1>4 DEF keep
    <3> QED
      BY <3>1
  <2>2. CASE i = Len(keep) + 1
    <3>1. man'.segs[i] = NewBase
      <4>1. keep \in Seq(Nat)
        BY <1>2
      <4> QED
        BY <1>4, <2>2, <4>1
    <3> QED
      BY <1>7, <2>1, <2>2, <3>1
  <2>3. CASE i # Len(keep) + 1
    <3>1. i \in 1..Len(keep) /\ man'.segs[i] = keep[i]
      <4>1. keep \in Seq(Nat) /\ Len(keep) \in Nat
        BY <1>2
      <4>2. i \in 1..Len(keep)
        BY <2>1, <2>3, <4>1
      <4> QED
        BY <1>4, <4>1, <4>2
    <3>2. d + i \in 1..Len(man.segs) /\ keep[i] = man.segs[d + i]
      BY <1>2, <3>1
    <3> QED
      BY <1>6, <3>1, <3>2
  <2> QED
    BY <2>2, <2>3
<1>9. EmptySegment.recs = <<>> /\ EmptySegment.dur = 0 /\ ~EmptySegment.torn /\ ToSet(<<>>) = {}
  BY DEF EmptySegment, ToSet
<1>10. Sealed'
  <2> SUFFICES ASSUME NEW i \in 1..Len(man'.segs)
               PROVE  /\ segFile'[man'.segs[i]].dur \in 0..Len(segFile'[man'.segs[i]].recs)
                      /\ ~segFile'[man'.segs[i]].torn
                      /\ segFile'[man'.segs[i]].dur = Len(segFile'[man'.segs[i]].recs)
    BY DEF Sealed
  <2>1. CASE segFile'[man'.segs[i]] = EmptySegment
    BY <1>9, <2>1
  <2>2. CASE \E j \in 1..Len(man.segs) : segFile'[man'.segs[i]] = segFile[man.segs[j]]
    BY <2>2 DEF DiskInv, Sealed
  <2> QED
    BY <1>8, <2>1, <2>2
<1>11. ASSUME NEW r \in Nat, r > man.snap, Stored(man.segs, segFile, r)
       PROVE  Stored(man'.segs, segFile', r)
  <2>1. PICK i \in 1..Len(man.segs) :
           /\ r \in ToSet(segFile[man.segs[i]].recs)
           /\ \E j \in 1..segFile[man.segs[i]].dur : segFile[man.segs[i]].recs[j] = r
    BY <1>11, StoredIs DEF DiskInv
  <2> DEFINE recs == [n \in 1..Len(man.segs) |-> ToSet(segFile[man.segs[n]].recs)]
  <2>3. /\ \A n \in 1..Len(man.segs) : recs[n] \in SUBSET Nat
        /\ \A n, m \in 1..Len(man.segs) : n < m => \A s \in recs[n] : s < man.segs[m]
        /\ r \in recs[i]
    BY <2>1, NamedSegments DEF IInv, Segments, Ordered
  <2> HIDE DEF recs
  <2>4. man.segs[i] \in ToSet(keep)
    BY <1>1, <1>11, <2>3, RotationKeepsRecords DEF keep
  <2>5. PICK n \in 1..Len(keep) : keep[n] = man.segs[i]
    BY <1>5, <2>4
  <2>6. n \in 1..Len(man'.segs) /\ man'.segs[n] = man.segs[i]
    BY <1>2, <1>4, <2>5
  <2>7. segFile'[man'.segs[n]] = segFile[man.segs[i]]
    BY <1>6, <2>6
  <2> QED
    BY <2>1, <2>6, <2>7 DEF Stored
<1>12. Logged'
  <2>1. man'.snap \in Nat /\ man'.snap >= man.snap /\ Current' \in Nat /\ Current' >= Current
    BY <1>1, <1>4 DEF Current
  <2>2. \A s \in 1..Current : log'[s] = log[s]
    OBVIOUS
  <2>3. (\A s \in acked' : s \in acked) /\ Sealed /\ Logged
    BY DEF DiskInv
  <2>4. \A r \in Nat : r > man'.snap /\ Stored(man.segs, segFile, r) => Stored(man'.segs, segFile', r)
    BY <1>4, <1>11
  <2> QED
    BY <2>1, <2>2, <2>3, <2>4, LoggedStays
<1>13. Pending' /\ Begun'
  BY <1>1, <1>4 DEF Pending, Begun
<1>14. \A i \in 1..Len(man'.segs) : \A r \in ToSet(segFile'[man'.segs[i]].recs) :
          \E j \in 1..Len(man.segs) : r \in ToSet(segFile[man.segs[j]].recs)
  BY <1>8, <1>9
<1> QED
  BY <1>4, <1>10, <1>12, <1>13, <1>14

LEMMA PlacedNext ==
    ASSUME IInv, Reliable, Placed, [Next]_vars
    PROVE  Placed'
<1> USE DEF plane, actor, disk, history
<1>1. /\ Idle.current = FALSE /\ snapper \in Snapper /\ PlaceType
      /\ [snapper EXCEPT !.current = FALSE].current = FALSE
  BY SnapperTyped, TypeParts DEF Idle, Snapper, IInv
<1>2. ~Fails("append") /\ ~Fails("sync")
  BY DEF Fails, Reliable
<1>3. ASSUME snapper'.current => snapper.current, UNCHANGED inflight,
             pc' = pc \/ pc' \notin {"resync", "rotate"}, UNCHANGED wal
      PROVE  Placed'
  BY <1>3 DEF Placed
<1>4. CASE Client \/ WriteSnapshotFile
  <2>1. snapper'.current => snapper.current
    BY <1>1, <1>4 DEF Client, PutWithRoom, PutEvicting, DeleteMemory, DeleteLog, Clear, Migrate,
       HotSwap, WriteSnapshotFile, Snapper
  <2>2. UNCHANGED <<pc, inflight, wal>>
    BY <1>4 DEF Client, PutWithRoom, PutEvicting, DeleteMemory, DeleteLog, Clear, Migrate, HotSwap,
       WriteSnapshotFile
  <2> QED
    BY <1>3, <2>1, <2>2
<1>5. CASE Actor
  <2>1. CASE TakeBatch
    <3>1. UNCHANGED <<snapper, inflight, wal>>
      BY <2>1 DEF TakeBatch
    <3>2. pc' # "resync" /\ (pc' = "rotate" => wal = 0)
      BY <2>1 DEF TakeBatch, Goto
    <3> QED
      BY <3>1, <3>2 DEF Placed
  <2>2. CASE SnapshotFailed \/ SnapshotStale \/ SnapshotDone
    <3>1. snapper'.current = FALSE
      BY <1>1, <2>2 DEF SnapshotFailed, SnapshotStale, SnapshotDone
    <3>2. pc' \notin {"resync", "rotate"}
      BY <1>1, <2>2, AfterIs DEF SnapshotFailed, SnapshotStale, SnapshotDone, Goto
    <3> QED
      BY <3>1, <3>2 DEF Placed
  <2>3. CASE \/ WaitTimeout \/ Shutdown \/ RenameSnapshot \/ WriteR2 \/ UnlinkOld
             \/ InitialCompact \/ InitialCommit \/ InitialSnapshotFailed
    <3>1. snapper'.current => snapper.current
      BY <1>1, <2>3 DEF WaitTimeout, Shutdown, RenameSnapshot, WriteR2, UnlinkOld, InitialCompact,
         InitialCommit, InitialSnapshotFailed, Idle
    <3>2. UNCHANGED inflight
      BY <2>3 DEF WaitTimeout, Shutdown, RenameSnapshot, WriteR2, UnlinkOld, InitialCompact,
         InitialCommit, InitialSnapshotFailed
    <3>3. pc' \notin {"resync", "rotate"}
      BY <1>1, <2>3, AfterIs DEF WaitTimeout, Shutdown, RenameSnapshot, WriteR2, UnlinkOld,
         InitialCompact, InitialCommit, InitialSnapshotFailed, Goto
    <3> QED
      BY <3>1, <3>2, <3>3 DEF Placed
  <2>4. CASE StartCompaction
    <3>1. snapper'.current => inflight'
      <4>1. CASE inflight' = TRUE
        BY <4>1
      <4>2. CASE UNCHANGED <<inflight, snapper>>
        BY <4>2 DEF Placed
      <4> QED
        BY <2>4, <4>1, <4>2 DEF StartCompaction
    <3>2. pc' \notin {"resync", "rotate"}
      BY <1>1, <2>4, AfterIs DEF StartCompaction
    <3> QED
      BY <3>1, <3>2 DEF Placed
  <2>5. CASE \/ RotateForAppend \/ AppendNowhere \/ AppendBatch \/ SyncBatch
             \/ Decide \/ DecideThreshold \/ DrainMore \/ DrainEnd \/ StartRefused
             \/ StartNotNeeded \/ PumpDone \/ PumpTimeout \/ FinalManifest
    <3>1. UNCHANGED <<snapper, inflight>>
      BY <2>5 DEF RotateForAppend, AppendNowhere, AppendBatch, SyncBatch, Decide,
         DecideThreshold, DrainMore, DrainEnd, StartRefused, StartNotNeeded, PumpDone,
         PumpTimeout, FinalManifest
    <3>2. pc' \notin {"resync", "rotate"}
      <4>1. CASE RotateForAppend \/ AppendNowhere \/ AppendBatch \/ SyncBatch
        BY <1>1, <1>2, <4>1, AfterIs DEF RotateForAppend, AppendNowhere, AppendBatch, SyncBatch, Goto
      <4>2. CASE \/ Decide \/ DecideThreshold \/ DrainMore \/ DrainEnd \/ StartRefused
                 \/ StartNotNeeded \/ PumpDone \/ PumpTimeout \/ FinalManifest
        BY <1>1, <4>2, AfterIs DEF Decide, DecideThreshold, DrainMore, DrainEnd, StartRefused,
           StartNotNeeded, PumpDone, PumpTimeout, FinalManifest, Goto, GotoIn
      <4> QED
        BY <2>5, <4>1, <4>2
    <3> QED
      BY <3>1, <3>2 DEF Placed
  <2>6. ~ResyncAfterFailure
    BY DEF ResyncAfterFailure, Placed
  <2> QED
    BY <1>5, <2>1, <2>2, <2>3, <2>4, <2>5, <2>6 DEF Actor, Message
<1>6. CASE Crash
  BY <1>1, <1>6 DEF Crash, Placed
<1>7. CASE Recovery
  <2>1. pc' = "wait" /\ snapper' = Idle
    BY <1>7 DEF Recovery, RestartEmpty, Restart, RestartAfterGap, IInv, Control
  <2> QED
    BY <1>1, <2>1 DEF Placed
<1>8. CASE UNCHANGED vars
  BY <1>3, <1>8 DEF vars
<1> QED
  BY <1>4, <1>5, <1>6, <1>7, <1>8 DEF Next

\* The steps of the actor between the ones that write.
LEMMA DiskQuiet ==
    ASSUME IInv, DiskInv, Placed,
           \/ WaitTimeout \/ Shutdown \/ Message \/ RenameSnapshot \/ UnlinkOld
           \/ TakeBatch \/ InitialCompact \/ InitialSnapshotFailed \/ AppendNowhere
           \/ Decide \/ DecideThreshold \/ DrainMore \/ DrainEnd \/ StartRefused
           \/ StartNotNeeded \/ PumpDone \/ PumpTimeout \/ FinalManifest
    PROVE  DiskInv'
<1> USE DEF plane, actor, disk, history
<1>1. /\ Idle.current = FALSE /\ snapper \in Snapper /\ PlaceType
      /\ [snapper EXCEPT !.current = FALSE].current = FALSE
      /\ [snapper EXCEPT !.current = FALSE].seq = snapper.seq
      /\ man \in [snap : Nat, segs : Seq(Nat), seq : Nat]
  BY SnapperTyped, TypeParts DEF Idle, Snapper, IInv, TypeOK
<1>2. CASE UnlinkOld
  <2>1. man.segs = <<wal>> /\ wal \in DOMAIN segFile
    BY <1>2 DEF UnlinkOld, IInv, Control, Segments
  <2>2. segFile' = Removed(segFile, ToSet(old.segs) \ {wal})
    BY <1>2 DEF UnlinkOld
  <2>3. \A i \in 1..Len(man.segs) : segFile'[man.segs[i]] = segFile[man.segs[i]]
    BY <2>1, <2>2 DEF Removed
  <2>4. pc' \notin {"down", "sync", "rename", "r2"}
    BY <1>1, <1>2, AfterIs DEF UnlinkOld
  <2>5. /\ UNCHANGED <<log, wal, acked, man, snapper>> /\ pc = "unlink"
    BY <1>2 DEF UnlinkOld
  <2> QED
    BY <2>3, <2>4, <2>5, DiskStill DEF SameFlight
<1>3. ASSUME UNCHANGED <<log, wal, acked, segFile>>, pc \notin {"down", "sync"},
             pc' \notin {"down", "sync"}, SameFlight, man'.snap = man.snap, man'.segs = man.segs
      PROVE  DiskInv'
  BY <1>3, DiskStill
<1>4. CASE SnapshotDone
  <2>1. /\ UNCHANGED <<log, wal, acked, segFile, man>> /\ pc \in {"wait", "pump"}
        /\ pc' = "rename" /\ snapper.current /\ snapper' = [snapper EXCEPT !.current = FALSE]
    BY <1>4 DEF SnapshotDone, Goto
  <2> QED
    BY <1>1, <1>3, <2>1 DEF SameFlight
<1>5. CASE RenameSnapshot
  <2>1. UNCHANGED <<log, wal, acked, segFile, man>> /\ pc = "rename"
    BY <1>5 DEF RenameSnapshot
  <2>2. \/ UNCHANGED snapper /\ pc' = "r2"
        \/ snapper' = Idle /\ pc' \notin {"down", "sync", "rename", "r2"}
    BY <1>1, <1>5, AfterIs DEF RenameSnapshot, Goto
  <2> QED
    BY <1>1, <1>3, <2>1, <2>2 DEF SameFlight
<1>6. CASE \/ WaitTimeout \/ Shutdown \/ SnapshotFailed \/ SnapshotStale \/ TakeBatch
           \/ InitialCompact \/ InitialSnapshotFailed \/ AppendNowhere
  <2>1. UNCHANGED <<log, wal, acked, segFile, man>>
    BY <1>6 DEF WaitTimeout, Shutdown, SnapshotFailed, SnapshotStale, TakeBatch, InitialCompact,
       InitialSnapshotFailed, AppendNowhere
  <2>2. pc \notin {"down", "sync", "rename", "r2"}
    BY <1>6 DEF WaitTimeout, Shutdown, SnapshotFailed, SnapshotStale, TakeBatch, InitialCompact,
       InitialSnapshotFailed, AppendNowhere
  <2>3. pc' \notin {"down", "sync", "rename", "r2"}
    BY <1>1, <1>6, AfterIs DEF WaitTimeout, Shutdown, SnapshotFailed, SnapshotStale, TakeBatch,
       InitialCompact, InitialSnapshotFailed, AppendNowhere, Goto
  <2>4. snapper'.current = FALSE \/ UNCHANGED snapper
    BY <1>1, <1>6 DEF WaitTimeout, Shutdown, SnapshotFailed, SnapshotStale, TakeBatch,
       InitialCompact, InitialSnapshotFailed, AppendNowhere, Idle
  <2> QED
    BY <1>3, <2>1, <2>2, <2>3, <2>4 DEF SameFlight
<1>7. CASE \/ Decide \/ DecideThreshold \/ DrainMore \/ DrainEnd \/ StartRefused
           \/ StartNotNeeded \/ PumpDone \/ PumpTimeout \/ FinalManifest
  <2>1. UNCHANGED <<log, wal, acked, segFile, snapper>>
    BY <1>7 DEF Decide, DecideThreshold, DrainMore, DrainEnd, StartRefused, StartNotNeeded,
       PumpDone, PumpTimeout, FinalManifest
  <2>2. pc \notin {"down", "sync", "rename", "r2"}
    BY <1>7 DEF Decide, DecideThreshold, DrainMore, DrainEnd, StartRefused, StartNotNeeded,
       PumpDone, PumpTimeout, FinalManifest
  <2>3. pc' \notin {"down", "sync", "rename", "r2"}
    BY <1>1, <1>7, AfterIs DEF Decide, DecideThreshold, DrainMore, DrainEnd, StartRefused,
       StartNotNeeded, PumpDone, PumpTimeout, FinalManifest, Goto, GotoIn
  <2>4. man'.snap = man.snap /\ man'.segs = man.segs
    BY <1>1, <1>7 DEF Decide, DecideThreshold, DrainMore, DrainEnd, StartRefused, StartNotNeeded,
       PumpDone, PumpTimeout, FinalManifest
  <2> QED
    BY <1>3, <2>1, <2>2, <2>3, <2>4 DEF SameFlight
<1> QED
  BY <1>2, <1>4, <1>5, <1>6, <1>7 DEF Message

\* The steps that name a new segment: nothing is on its way, or nothing is added.
LEMMA DiskRotations ==
    ASSUME IInv, DiskInv, Placed, RotateForAppend \/ StartCompaction
    PROVE  DiskInv'
<1> USE DEF plane, actor, disk, history
<1> DEFINE keep == KeptSegments(man.segs, man.snap)
<1>1. /\ man.segs \in Seq(Nat) /\ Len(keep) <= Len(man.segs) /\ Len(keep) \in Nat
      /\ Len(man.segs) \in Nat /\ man.snap # 0 /\ PlaceType
  <2>1. man.snap # 0
    BY DEF RotateForAppend, StartCompaction, IInv, Control
  <2>2. man.segs \in Seq(Nat) /\ keep \in Seq(Nat) /\ Len(keep) <= Len(man.segs)
    BY <2>1, KeptType
  <2> QED
    BY <2>1, <2>2, TypeParts DEF IInv
<1>2. /\ Current \in Nat /\ man.snap \in 0..Current
      /\ \A i \in 1..Len(man.segs) : \A r \in ToSet(segFile[man.segs[i]].recs) : r \in Nat /\ r <= Current
  BY NamedSegments, NumbersIs
<1> HIDE DEF keep
<1>3. CASE RotateForAppend
  <2>1. /\ pc = "rotate" /\ pc' = "append" /\ wal = 0 /\ UNCHANGED <<log, acked, snapper>>
    BY <1>3 DEF RotateForAppend, Goto, Placed
  <2>2. CASE UNCHANGED <<man, segFile, wal>>
    BY <2>1, <2>2, DiskStill DEF SameFlight
  <2>3. CASE Len(man.segs) < MaxSegments - 1 /\ NewSegment(keep)
    <3>1. Len(keep) <= MaxSegments - 1
      BY <1>1, <2>3, SegmentsAssumption
    <3>2. /\ Sealed' /\ Logged' /\ Pending' /\ Begun' /\ man'.snap = man.snap
          /\ \A i \in 1..Len(man'.segs) : \A r \in ToSet(segFile'[man'.segs[i]].recs) :
                \E j \in 1..Len(man.segs) : r \in ToSet(segFile[man.segs[j]].recs)
      BY <1>1, <2>1, <2>3, <3>1, DiskRotated DEF keep
    <3>3. Covered'
      BY <2>1, <3>2 DEF DiskInv, Covered
    <3> QED
      BY <3>2, <3>3 DEF DiskInv
  <2> QED
    BY <1>3, <2>2, <2>3 DEF RotateForAppend, NoNewSegment, keep
<1>4. CASE StartCompaction
  <2>1. /\ pc = "start" /\ UNCHANGED <<log, acked>> /\ ~snapper.current
        /\ pc' \notin {"down", "sync", "rename", "r2"}
    <3>1. pc' \notin {"down", "sync", "rename", "r2"}
      BY <1>1, <1>4, AfterIs DEF StartCompaction
    <3> QED
      BY <1>4, <3>1 DEF StartCompaction, Placed
  <2>2. \/ UNCHANGED snapper
        \/ snapper' = [Idle EXCEPT !.st = "running", !.seq = Current, !.current = TRUE]
    BY <1>4 DEF StartCompaction
  <2>3. ~snapper'.current \/ (snapper'.current /\ snapper'.seq = Current)
    BY <2>1, <2>2 DEF Idle
  <2>4. CASE UNCHANGED <<man, segFile, wal>>
    <3>1. Covered'
      BY <1>2, <2>1, <2>3, <2>4 DEF Covered
    <3>2. Sealed' /\ Pending' /\ Begun'
      BY <2>1, <2>4 DEF DiskInv, Sealed, Pending, Begun
    <3>3. Logged'
      BY <2>1, <2>4 DEF DiskInv, Logged, Current
    <3> QED
      BY <3>1, <3>2, <3>3 DEF DiskInv
  <2>5. CASE Len(keep) <= MaxSegments - 1 /\ NewSegment(keep)
    <3>1. /\ Sealed' /\ Logged' /\ Pending' /\ Begun' /\ man'.snap = man.snap
          /\ \A i \in 1..Len(man'.segs) : \A r \in ToSet(segFile'[man'.segs[i]].recs) :
                \E j \in 1..Len(man.segs) : r \in ToSet(segFile[man.segs[j]].recs)
      BY <1>1, <2>1, <2>5, DiskRotated DEF keep
    <3>2. \A i \in 1..Len(man'.segs) : \A r \in ToSet(segFile'[man'.segs[i]].recs) : r <= Current
      BY <1>2, <3>1
    <3>3. Covered'
      BY <1>2, <2>1, <2>3, <3>1, <3>2 DEF Covered
    <3> QED
      BY <3>1, <3>3 DEF DiskInv
  <2>6. (Len(keep) <= MaxSegments - 1 /\ NewSegment(keep)) \/ UNCHANGED <<man, segFile, wal>>
    BY <1>4 DEF StartCompaction, NoNewSegment, keep
  <2> QED
    BY <2>4, <2>5, <2>6
<1> QED
  BY <1>3, <1>4

\* The new manifest names the active segment only: everything above the snapshot is there.
LEMMA DiskR2 ==
    ASSUME IInv, DiskInv, Placed, WriteR2
    PROVE  DiskInv'
<1> USE DEF plane, actor, disk, history
<1> DEFINE n == Len(man.segs)
<1>1. /\ pc = "r2" /\ man.snap # 0 /\ snapper.st = "done" /\ snapper.seq \in 1..Current
      /\ Current \in Nat /\ man.snap \in Nat /\ Idle.current = FALSE /\ PlaceType
  BY NumbersIs, TypeParts DEF WriteR2, IInv, Control, Idle
<1>2. /\ UNCHANGED <<log, wal, segFile>> /\ snapper' = Idle
  BY DEF WriteR2
<1>3. CASE UNCHANGED <<man, acked>> /\ AfterMessage
  <2>1. pc' \notin {"down", "sync", "rename", "r2"}
    BY <1>1, <1>3, AfterIs
  <2> QED
    BY <1>1, <1>2, <1>3, <2>1, DiskStill DEF SameFlight
<1>4. CASE /\ wal # 0 /\ pc' = "unlink" /\ acked' = acked \cup 1..snapper.seq
           /\ man' = [snap |-> snapper.seq, segs |-> <<wal>>, seq |-> Larger(durSeq, snapper.seq)]
  <2>1. man'.snap = snapper.seq /\ man'.segs = <<wal>> /\ Len(man'.segs) = 1 /\ man'.segs[1] = wal
    BY <1>4
  <2>2. n \in Nat /\ n >= 1 /\ wal = man.segs[n]
    BY <1>1, <1>4, NamedSegments
  <2>3. man.snap <= snapper.seq
    BY <1>1 DEF DiskInv, Covered
  <2>4. Sealed'
    <3>1. /\ segFile[wal].dur \in 0..Len(segFile[wal].recs) /\ ~segFile[wal].torn
          /\ segFile[wal].dur = Len(segFile[wal].recs)
      BY <1>1, <2>2 DEF DiskInv, Sealed
    <3> QED
      BY <1>2, <2>1, <3>1 DEF Sealed
  <2>5. ASSUME NEW r \in Nat, r > snapper.seq, Stored(man.segs, segFile, r)
        PROVE  Stored(man'.segs, segFile', r)
    <3>1. PICK i \in 1..n :
             /\ r \in ToSet(segFile[man.segs[i]].recs)
             /\ \E j \in 1..segFile[man.segs[i]].dur : segFile[man.segs[i]].recs[j] = r
      BY <2>5, StoredIs DEF DiskInv
    <3>2. PICK j \in 1..segFile[man.segs[i]].dur : segFile[man.segs[i]].recs[j] = r
      BY <3>1
    <3>5. ~(i < n)
      <4>1. i < n => r <= snapper.seq
        BY <1>1, <3>1 DEF DiskInv, Covered
      <4> QED
        BY <1>1, <2>5, <4>1
    <3>6. i = n
      BY <2>2, <3>5
    <3>7. j \in 1..segFile'[man'.segs[1]].dur /\ segFile'[man'.segs[1]].recs[j] = r
      BY <1>2, <2>1, <2>2, <3>2, <3>6
    <3> QED
      BY <2>1, <3>7 DEF Stored
  <2>6. Logged'
    <3>1. /\ Current' \in Nat /\ Current' >= Current /\ man'.snap \in Nat /\ man'.snap >= man.snap
      BY <1>1, <1>2, <2>1, <2>3 DEF Current
    <3>2. \A s \in acked' : s \in acked \/ (s \in Nat /\ s <= man'.snap /\ s <= Current)
      BY <1>1, <1>4, <2>1
    <3>3. \A s \in 1..Current : log'[s] = log[s]
      BY <1>2
    <3>4. \A r \in Nat : r > man'.snap /\ Stored(man.segs, segFile, r) => Stored(man'.segs, segFile', r)
      BY <2>1, <2>5
    <3> QED
      BY <3>1, <3>2, <3>3, <3>4, LoggedStays DEF DiskInv
  <2>7. Covered' /\ Pending' /\ Begun'
    BY <1>1, <1>2, <1>4, <2>1 DEF Covered, Pending, Begun
  <2> QED
    BY <2>4, <2>6, <2>7 DEF DiskInv
<1> QED
  BY <1>3, <1>4 DEF WriteR2, Goto

\* The first manifest names an empty segment, and everything before it is in its snapshot.
LEMMA DiskFirst ==
    ASSUME IInv, Reliable, DiskInv, InitialCommit
    PROVE  DiskInv'
<1> USE DEF plane, actor, disk, history
<1> DEFINE S == snapper.seq
<1>1. /\ pc = "commit" /\ man.snap = 0 /\ man.segs = <<>> /\ wal = 0 /\ acked = {}
      /\ S \in 1..Current /\ Current \in Nat /\ Idle.current = FALSE
  <2>1. pc = "commit" /\ man.snap = 0 /\ S \in 1..Current
    BY NumbersIs DEF InitialCommit, IInv, Control
  <2> QED
    BY <2>1, NamedSegments DEF DiskInv, Begun, Idle
<1>2. UNCHANGED log /\ snapper' = Idle /\ pc' = "append"
  BY DEF InitialCommit, Goto
<1>3. ~Fails("first")
  BY DEF Fails, Reliable
<1>4. CASE UNCHANGED <<segFile, man, wal, acked>>
  BY <1>1, <1>2, <1>4, DiskStill DEF SameFlight
<1>5. CASE /\ segFile' = Written(segFile, S + 1, EmptySegment) /\ wal' = S + 1
           /\ man' = [snap |-> S, segs |-> <<S + 1>>, seq |-> S] /\ acked' = acked \cup 1..S
  <2>1. /\ man'.snap = S /\ man'.segs = <<S + 1>> /\ Len(man'.segs) = 1 /\ man'.segs[1] = S + 1
        /\ segFile'[S + 1] = EmptySegment /\ acked' = 1..S
    BY <1>1, <1>5 DEF Written
  <2>2. Sealed'
    <3>1. EmptySegment.dur = 0 /\ EmptySegment.recs = <<>> /\ ~EmptySegment.torn /\ Len(<<>>) = 0
      BY DEF EmptySegment
    <3> QED
      BY <2>1, <3>1 DEF Sealed
  <2>3. Logged'
    <3>1. \A s \in acked' : s \in Nat /\ s <= S /\ s <= Current
      BY <1>1, <2>1
    <3>2. Current' = Current
      BY <1>2 DEF Current
    <3>3. \A s \in acked' : ~(s > man'.snap)
      BY <1>1, <2>1, <3>1
    <3> QED
      BY <3>1, <3>2, <3>3 DEF Logged
  <2>4. Covered' /\ Pending' /\ Begun'
    BY <1>1, <1>2, <2>1 DEF Covered, Pending, Begun
  <2> QED
    BY <2>2, <2>3, <2>4 DEF DiskInv
<1> QED
  BY <1>3, <1>4, <1>5 DEF InitialCommit

\* The active segment is the last one named, and no other segment has its name.
LEMMA ActiveIsLast ==
    ASSUME IInv, Begun, pc # "down", wal # 0
    PROVE  /\ man.snap # 0 /\ Len(man.segs) \in Nat /\ Len(man.segs) >= 1
           /\ wal = man.segs[Len(man.segs)] /\ wal \in DOMAIN segFile
           /\ segFile[wal] \in [recs : Seq(Nat), dur : Nat, torn : BOOLEAN]
           /\ \A i \in 1..Len(man.segs) : i = Len(man.segs) \/ (i < Len(man.segs) /\ man.segs[i] # wal)
<1> DEFINE n == Len(man.segs)
<1>1. man.snap # 0
  BY DEF Begun
<1>2. n \in Nat /\ n >= 1 /\ wal = man.segs[n]
  BY <1>1, NamedSegments
<1>3. n \in 1..n
  BY <1>2
<1>4. wal \in DOMAIN segFile /\ segFile[wal] \in [recs : Seq(Nat), dur : Nat, torn : BOOLEAN]
  BY <1>2, <1>3, NamedSegments
<1>5. ASSUME NEW i \in 1..n, i # n PROVE i < n /\ man.segs[i] # wal
  <2>1. i < n
    BY <1>2, <1>5
  <2>2. man.segs[i] < man.segs[n] /\ man.segs[i] \in Nat /\ man.segs[n] \in Nat
    BY <1>3, <2>1, NamedSegments
  <2> QED
    BY <1>2, <2>1, <2>2
<1> QED
  BY <1>1, <1>2, <1>4, <1>5

\* The batch goes to the end of the active segment, with what decides about every key of it.
LEMMA DiskAppend ==
    ASSUME IInv, Reliable, Numbered, DiskInv, AppendBatch
    PROVE  DiskInv'
<1> USE DEF plane, actor, disk, history
<1> DEFINE n == Len(man.segs)
           c == Coalesce(log, batch)
<1>1. ~Fails("append")
  BY DEF Fails, Reliable
<1>2. /\ pc = "append" /\ wal # 0 /\ pc' = "sync"
      /\ segFile' = [segFile EXCEPT ![wal].recs = @ \o c]
      /\ UNCHANGED <<log, wal, man, acked, snapper, batch>>
  BY <1>1 DEF AppendBatch, Goto
<1>3. /\ man.snap # 0 /\ n \in Nat /\ n >= 1 /\ wal = man.segs[n] /\ wal \in DOMAIN segFile
      /\ segFile[wal] \in [recs : Seq(Nat), dur : Nat, torn : BOOLEAN]
      /\ \A i \in 1..n : i = n \/ (i < n /\ man.segs[i] # wal)
  BY <1>2, ActiveIsLast DEF DiskInv
<1>4. c \in Seq(Nat) /\ Current \in Nat /\ ToSet(batch) \in SUBSET (1..Current) /\ batch \in Seq(Nat)
  <2>1. Current \in Nat /\ batch \in Seq(Nat) /\ ToSet(batch) \in SUBSET (0..Current)
    BY NumbersIs
  <2>2. c \in Seq(Nat)
    BY <2>1, CoalesceIs
  <2>3. \A s \in ToSet(batch) : s \in 0..Current /\ s >= 1
    BY <2>1 DEF Numbered
  <2>4. \A s \in ToSet(batch) : s \in 1..Current
    BY <2>1, <2>3
  <2> QED
    BY <2>1, <2>2, <2>4
<1> HIDE DEF c
<1>5. /\ segFile'[wal].recs = segFile[wal].recs \o c
      /\ segFile'[wal].dur = segFile[wal].dur /\ segFile'[wal].torn = segFile[wal].torn
      /\ \A b \in DOMAIN segFile : b # wal => segFile'[b] = segFile[b]
  BY <1>2, <1>3
<1>6. /\ Len(segFile'[wal].recs) = Len(segFile[wal].recs) + Len(c)
      /\ Len(segFile[wal].recs) \in Nat /\ Len(c) \in Nat
      /\ \A j \in 1..Len(segFile[wal].recs) : segFile'[wal].recs[j] = segFile[wal].recs[j]
      /\ \A r \in ToSet(c) : r \in ToSet(segFile'[wal].recs)
  <2>1. segFile[wal].recs \in Seq(Nat)
    BY <1>3
  <2>2. ASSUME NEW r \in ToSet(c) PROVE r \in ToSet(segFile'[wal].recs)
    <3>1. PICK j \in 1..Len(c) : c[j] = r
      BY <1>4 DEF ToSet
    <3>2. Len(segFile[wal].recs) + j \in DOMAIN (segFile[wal].recs \o c)
      BY <1>4, <2>1
    <3>3. (segFile[wal].recs \o c)[Len(segFile[wal].recs) + j] = r
      BY <1>4, <2>1, <3>1
    <3> QED
      BY <1>5, <3>2, <3>3 DEF ToSet
  <2> QED
    BY <1>4, <1>5, <2>1, <2>2
<1>7. \A i \in 1..n : i < n => segFile'[man.segs[i]] = segFile[man.segs[i]]
  <2> SUFFICES ASSUME NEW i \in 1..n, i < n PROVE segFile'[man.segs[i]] = segFile[man.segs[i]]
    OBVIOUS
  <2>1. man.segs[i] # wal
    BY <1>3
  <2>2. man.segs[i] \in DOMAIN segFile
    BY NamedSegments
  <2> QED
    BY <1>5, <2>1, <2>2
<1>8. Sealed'
  <2> SUFFICES ASSUME NEW i \in 1..n
               PROVE  /\ segFile'[man.segs[i]].dur \in 0..Len(segFile'[man.segs[i]].recs)
                      /\ ~segFile'[man.segs[i]].torn
                      /\ i < n => segFile'[man.segs[i]].dur = Len(segFile'[man.segs[i]].recs)
    BY <1>2 DEF Sealed
  <2>1. /\ segFile[man.segs[i]].dur \in 0..Len(segFile[man.segs[i]].recs)
        /\ ~segFile[man.segs[i]].torn
        /\ segFile[man.segs[i]].dur = Len(segFile[man.segs[i]].recs)
    BY <1>2 DEF DiskInv, Sealed
  <2>2. CASE i < n
    BY <1>7, <2>1, <2>2
  <2>3. CASE i = n
    <3>1. man.segs[i] = wal
      BY <1>3, <2>3
    <3>2. segFile'[wal].dur = segFile[wal].dur /\ segFile'[wal].torn = segFile[wal].torn
      BY <1>3, <1>5
    <3>3. segFile'[wal].recs = segFile[wal].recs \o c
      BY <1>3, <1>5
    <3>4. Len(segFile'[wal].recs) = Len(segFile[wal].recs) + Len(c) /\ Len(c) \in Nat
      BY <1>3, <1>4, <3>3
    <3>5. segFile[wal].dur \in 0..Len(segFile[wal].recs) /\ Len(segFile[wal].recs) \in Nat
      BY <1>3, <2>1, <3>1
    <3>6. segFile'[wal].dur \in 0..Len(segFile'[wal].recs)
      BY <3>2, <3>4, <3>5
    <3> QED
      BY <2>1, <2>3, <3>1, <3>2, <3>6
  <2> QED
    BY <1>3, <2>2, <2>3
<1>9. \A r \in Nat : Stored(man.segs, segFile, r) => Stored(man'.segs, segFile', r)
  <2> SUFFICES ASSUME NEW r \in Nat, Stored(man.segs, segFile, r)
               PROVE  Stored(man.segs, segFile', r)
    BY <1>2
  <2>1. PICK i \in 1..n :
           \E j \in 1..segFile[man.segs[i]].dur :
              j \in 1..Len(segFile[man.segs[i]].recs) /\ segFile[man.segs[i]].recs[j] = r
    BY StoredIs DEF DiskInv
  <2>2. CASE i < n
    <3>1. segFile'[man.segs[i]] = segFile[man.segs[i]]
      BY <1>7, <2>2
    <3> QED
      BY <2>1, <3>1 DEF Stored
  <2>3. CASE i = n
    <3>1. PICK j \in 1..segFile[wal].dur : j \in 1..Len(segFile[wal].recs) /\ segFile[wal].recs[j] = r
      BY <1>3, <2>1, <2>3
    <3>2. j \in 1..segFile'[wal].dur /\ segFile'[wal].recs[j] = r
      BY <1>5, <1>6, <3>1
    <3> QED
      BY <1>3, <2>3, <3>2 DEF Stored
  <2> QED
    BY <1>3, <2>2, <2>3
<1>10. Logged'
  <2>1. /\ Current' \in Nat /\ Current' >= Current /\ man'.snap \in Nat /\ man'.snap >= man.snap
    BY <1>2, <1>4, NumbersIs DEF Current
  <2>2. (\A s \in 1..Current : log'[s] = log[s]) /\ (\A s \in acked' : s \in acked)
    BY <1>2
  <2> QED
    BY <1>9, <2>1, <2>2, LoggedStays DEF DiskInv
<1>11. Covered'
  <2> SUFFICES ASSUME snapper.current
               PROVE  /\ man.snap <= snapper.seq
                      /\ \A i \in 1..n : i < n =>
                            \A r \in ToSet(segFile'[man.segs[i]].recs) : r <= snapper.seq
    BY <1>2 DEF Covered
  <2> QED
    BY <1>7 DEF DiskInv, Covered
<1>12. Pending'
  <2> SUFFICES ASSUME NEW s \in ToSet(batch), NEW k \in Keys, Affects(log, s, k)
               PROVE  \E r \in ToSet(segFile'[wal].recs) : r >= s /\ Affects(log, r, k)
    BY <1>2 DEF Pending
  <2>1. WellFormed(log) /\ ToSet(batch) \in SUBSET (1..Len(log))
    BY <1>4 DEF Numbered, Current
  <2>2. \E r \in ToSet(c) : r >= s /\ Affects(log, r, k)
    BY <1>4, <2>1, KeptDecides DEF c
  <2> QED
    BY <1>6, <2>2
<1>13. Begun'
  BY <1>2, <1>3 DEF Begun
<1> QED
  BY <1>8, <1>10, <1>11, <1>12, <1>13 DEF DiskInv

\* The sync makes the appended records survive, and acknowledges the batch.
LEMMA DiskSync ==
    ASSUME IInv, Reliable, DiskInv, SyncBatch
    PROVE  DiskInv'
<1> USE DEF plane, actor, disk, history
<1> DEFINE n == Len(man.segs)
<1>1. ~Fails("sync")
  BY DEF Fails, Reliable
<1>2. /\ pc = "sync" /\ segFile' = [segFile EXCEPT ![wal].dur = Len(segFile[wal].recs)]
      /\ acked' = acked \cup ToSet(batch) /\ UNCHANGED <<log, wal, man, snapper>>
      /\ pc' \notin {"down", "sync", "rename", "r2"}
  <2>1. PlaceType
    BY TypeParts DEF IInv
  <2>2. AfterBatch
    BY <1>1 DEF SyncBatch
  <2>3. pc' \notin {"down", "sync", "rename", "r2"}
    BY <2>1, <2>2, AfterIs
  <2> QED
    BY <1>1, <2>3 DEF SyncBatch
<1>3. wal # 0
  BY <1>2 DEF IInv, Control
<1>4. /\ man.snap # 0 /\ n \in Nat /\ n >= 1 /\ wal = man.segs[n] /\ wal \in DOMAIN segFile
      /\ segFile[wal] \in [recs : Seq(Nat), dur : Nat, torn : BOOLEAN]
      /\ \A i \in 1..n : i = n \/ (i < n /\ man.segs[i] # wal)
  BY <1>2, <1>3, ActiveIsLast DEF DiskInv
<1>5. /\ segFile'[wal].recs = segFile[wal].recs
      /\ segFile'[wal].dur = Len(segFile[wal].recs) /\ segFile'[wal].torn = segFile[wal].torn
      /\ \A b \in DOMAIN segFile : b # wal => segFile'[b] = segFile[b]
  BY <1>2, <1>4
<1>6. Len(segFile[wal].recs) \in Nat /\ segFile[wal].recs \in Seq(Nat)
  BY <1>4
<1>7. \A i \in 1..n : i < n => segFile'[man.segs[i]] = segFile[man.segs[i]]
  <2> SUFFICES ASSUME NEW i \in 1..n, i < n PROVE segFile'[man.segs[i]] = segFile[man.segs[i]]
    OBVIOUS
  <2>1. man.segs[i] # wal
    BY <1>4
  <2>2. man.segs[i] \in DOMAIN segFile
    BY NamedSegments
  <2> QED
    BY <1>5, <2>1, <2>2
<1>8. Sealed'
  <2> SUFFICES ASSUME NEW i \in 1..n
               PROVE  /\ segFile'[man.segs[i]].dur \in 0..Len(segFile'[man.segs[i]].recs)
                      /\ ~segFile'[man.segs[i]].torn
                      /\ segFile'[man.segs[i]].dur = Len(segFile'[man.segs[i]].recs)
    BY <1>2 DEF Sealed
  <2>1. CASE i < n
    BY <1>7, <2>1 DEF DiskInv, Sealed
  <2>2. CASE i = n
    <3>1. ~segFile[man.segs[i]].torn
      BY <1>2 DEF DiskInv, Sealed
    <3> QED
      BY <1>4, <1>5, <1>6, <2>2, <3>1
  <2> QED
    BY <1>4, <2>1, <2>2
<1>9. \A r \in Nat : Stored(man.segs, segFile, r) => Stored(man'.segs, segFile', r)
  <2> SUFFICES ASSUME NEW r \in Nat, Stored(man.segs, segFile, r)
               PROVE  Stored(man.segs, segFile', r)
    BY <1>2
  <2>1. PICK i \in 1..n :
           \E j \in 1..segFile[man.segs[i]].dur :
              j \in 1..Len(segFile[man.segs[i]].recs) /\ segFile[man.segs[i]].recs[j] = r
    BY StoredIs DEF DiskInv
  <2>2. CASE i < n
    <3>1. segFile'[man.segs[i]] = segFile[man.segs[i]]
      BY <1>7, <2>2
    <3> QED
      BY <2>1, <3>1 DEF Stored
  <2>3. CASE i = n
    <3>1. PICK j \in 1..segFile[wal].dur : j \in 1..Len(segFile[wal].recs) /\ segFile[wal].recs[j] = r
      BY <1>4, <2>1, <2>3
    <3>2. j \in 1..segFile'[wal].dur /\ segFile'[wal].recs[j] = r
      BY <1>5, <3>1
    <3> QED
      BY <1>4, <2>3, <3>2 DEF Stored
  <2> QED
    BY <1>4, <2>2, <2>3
<1>10. \A r \in ToSet(segFile[wal].recs) : r \in Nat /\ Stored(man'.segs, segFile', r)
  <2> TAKE r \in ToSet(segFile[wal].recs)
  <2>1. PICK j \in 1..Len(segFile[wal].recs) : segFile[wal].recs[j] = r
    BY <1>6 DEF ToSet
  <2>2. j \in 1..segFile'[wal].dur /\ segFile'[wal].recs[j] = r
    BY <1>5, <2>1
  <2>3. n \in 1..n /\ wal = man'.segs[n] /\ n = Len(man'.segs)
    BY <1>2, <1>4
  <2>4. r \in Nat
    BY <1>6, <2>1
  <2> QED
    BY <2>2, <2>3, <2>4 DEF Stored
<1>11. Logged'
  <2>1. Current' = Current /\ man'.snap = man.snap /\ log' = log
    BY <1>2 DEF Current
  <2>2. \A s \in acked' : s <= Current'
    BY <1>2, <2>1, NumbersIs DEF DiskInv, Logged
  <2>3. ASSUME NEW s \in acked', NEW k \in Keys, s > man.snap, Affects(log, s, k)
        PROVE  \E r \in Nat : r >= s /\ Affects(log, r, k) /\ Stored(man'.segs, segFile', r)
    <3>1. CASE s \in acked
      BY <1>9, <2>3, <3>1 DEF DiskInv, Logged
    <3>2. CASE s \in ToSet(batch)
      <4>1. \E r \in ToSet(segFile[wal].recs) : r >= s /\ Affects(log, r, k)
        BY <1>2, <2>3, <3>2 DEF DiskInv, Pending
      <4> QED
        BY <1>10, <4>1
    <3> QED
      BY <1>2, <3>1, <3>2
  <2> QED
    BY <2>1, <2>2, <2>3 DEF Logged
<1>12. Covered'
  <2> SUFFICES ASSUME snapper.current
               PROVE  /\ man.snap <= snapper.seq
                      /\ \A i \in 1..n : i < n =>
                            \A r \in ToSet(segFile'[man.segs[i]].recs) : r <= snapper.seq
    BY <1>2, <1>3 DEF Covered
  <2> QED
    BY <1>7 DEF DiskInv, Covered
<1>13. Pending' /\ Begun'
  BY <1>2, <1>4 DEF Pending, Begun
<1> QED
  BY <1>8, <1>11, <1>12, <1>13 DEF DiskInv

\* The actor keeps the disk invariant.
LEMMA DiskActor ==
    ASSUME IInv, Reliable, Numbered, Placed, DiskInv, Actor
    PROVE  DiskInv'
<1>1. ~ResyncAfterFailure
  BY DEF ResyncAfterFailure, Placed
<1> QED
  BY <1>1, DiskQuiet, DiskRotations, DiskR2, DiskFirst, DiskAppend, DiskSync DEF Actor

\* The data plane adds to the log, and the snapshot thread finishes, without touching a file
\* the manifest names.
LEMMA DiskOthers ==
    ASSUME IInv, DiskInv, Numbered, Client \/ WriteSnapshotFile
    PROVE  DiskInv'
<1> USE DEF plane, actor, disk, history
<1>1. UNCHANGED <<pc, wal, batch, man, segFile, acked>>
  BY DEF Client, PutWithRoom, PutEvicting, DeleteMemory, DeleteLog, Clear, Migrate, HotSwap,
     WriteSnapshotFile
<1>2. snapper'.seq = snapper.seq /\ (snapper'.current => snapper.current)
  <2>1. \/ snapper' = snapper \/ snapper' = [snapper EXCEPT !.current = FALSE]
        \/ \E d : snapper' = [snapper EXCEPT !.st = "done", !.data = d]
        \/ snapper' = [snapper EXCEPT !.st = "failed"]
    BY DEF Client, PutWithRoom, PutEvicting, DeleteMemory, DeleteLog, Clear, Migrate, HotSwap,
       WriteSnapshotFile
  <2>2. snapper \in Snapper
    BY SnapperTyped
  <2> QED
    BY <2>1, <2>2 DEF Snapper
<1>3. /\ Current \in Nat /\ Current' \in Nat /\ Current' >= Current
      /\ \A s \in 1..Current : log'[s] = log[s]
  <2>1. CASE Client
    BY <2>1, LogGrows, NumbersIs
  <2>2. CASE WriteSnapshotFile
    <3>1. log' = log /\ Current' = Current
      BY <2>2 DEF WriteSnapshotFile, Current
    <3> QED
      BY <3>1, NumbersIs
  <2> QED
    BY <2>1, <2>2
<1>4. Sealed' /\ Begun'
  BY <1>1 DEF DiskInv, Sealed, Begun
<1>5. Covered'
  BY <1>1, <1>2 DEF DiskInv, Covered
<1>6. Logged'
  <2>1. \A r \in Nat : Stored(man.segs, segFile, r) => Stored(man'.segs, segFile', r)
    BY <1>1 DEF Stored
  <2>2. man'.snap \in Nat /\ man'.snap >= man.snap /\ (\A s \in acked' : s \in acked)
    BY <1>1, NumbersIs
  <2> QED
    BY <1>3, <2>1, <2>2, LoggedStays DEF DiskInv
<1>7. Pending'
  <2> SUFFICES ASSUME pc = "sync", NEW s \in ToSet(batch), NEW k \in Keys, Affects(log', s, k)
               PROVE  \E r \in ToSet(segFile[wal].recs) : r >= s /\ Affects(log', r, k)
    BY <1>1 DEF Pending
  <2>1. wal \in DOMAIN segFile /\ segFile[wal].recs \in Seq(Nat)
    BY DEF IInv, Control, Segments, TypeOK
  <2>2. \A r \in ToSet(segFile[wal].recs) : r \in Nat /\ r <= Current
    <3>1. RecordsIssued(segFile, Current)
      BY NumbersIs
    <3>2. \A r \in ToSet(segFile[wal].recs) : r <= Current
      BY <2>1, <3>1 DEF RecordsIssued
    <3>3. \A r \in ToSet(segFile[wal].recs) : r \in Nat
      BY <2>1 DEF ToSet
    <3> QED
      BY <3>2, <3>3
  <2>3. s \in Nat /\ s >= 1 /\ s <= Current
    BY NumbersIs DEF Numbered
  <2>4. \A t \in 1..Current : Affects(log', t, k) <=> Affects(log, t, k)
    BY <1>3 DEF Affects, IsClear
  <2>5. Affects(log, s, k)
    BY <1>3, <2>3, <2>4
  <2>6. PICK r \in ToSet(segFile[wal].recs) : r >= s /\ Affects(log, r, k)
    BY <2>5 DEF DiskInv, Pending
  <2>7. r \in 1..Current
    BY <1>3, <2>2, <2>3, <2>6
  <2> QED
    BY <2>4, <2>6, <2>7
<1> QED
  BY <1>4, <1>5, <1>6, <1>7 DEF DiskInv

\* A crash spares what was synced.
LEMMA DiskCrash ==
    ASSUME IInv, DiskInv, Crash
    PROVE  DiskInv'
<1> USE DEF plane, actor, disk, history
<1> DEFINE unsynced == {b \in DOMAIN segFile : segFile[b].dur < Len(segFile[b].recs)}
           n == Len(man.segs)
<1>1. PICK kept \in [unsynced -> 0..MaxSeq], torn \in SUBSET unsynced :
         /\ \A b \in unsynced : kept[b] \in segFile[b].dur..Len(segFile[b].recs)
         /\ segFile' = Surviving(kept, torn)
  BY DEF Crash
<1>2. DOMAIN kept = unsynced
  BY <1>1
<1>3. /\ pc' = "down" /\ wal' = 0 /\ snapper' = Idle /\ Idle.current = FALSE
      /\ UNCHANGED <<log, man, acked>>
  BY DEF Crash, Idle
<1>4. ASSUME NEW i \in 1..n
      PROVE  /\ segFile'[man.segs[i]].dur = Len(segFile'[man.segs[i]].recs)
             /\ segFile'[man.segs[i]].dur \in Nat
             /\ segFile'[man.segs[i]].dur >= segFile[man.segs[i]].dur
             /\ \A j \in 1..segFile[man.segs[i]].dur :
                   segFile'[man.segs[i]].recs[j] = segFile[man.segs[i]].recs[j]
             /\ i < n => ~segFile'[man.segs[i]].torn
  <2> DEFINE b == man.segs[i]
  <2>1. b \in DOMAIN segFile /\ segFile[b] \in [recs : Seq(Nat), dur : Nat, torn : BOOLEAN]
    BY NamedSegments
  <2>2. /\ segFile[b].dur \in 0..Len(segFile[b].recs) /\ (i < n => ~segFile[b].torn)
        /\ (i < n => segFile[b].dur = Len(segFile[b].recs))
    BY DEF DiskInv, Sealed
  <2> HIDE DEF b
  <2>3. CASE b \in unsynced
    <3>1. segFile'[b] = [recs |-> SubSeq(segFile[b].recs, 1, kept[b]), dur |-> kept[b], torn |-> b \in torn]
      BY <1>1, <1>2, <2>1, <2>3 DEF Surviving
    <3>2. kept[b] \in segFile[b].dur..Len(segFile[b].recs)
      BY <1>1, <2>3
    <3>3. segFile[b].recs \in Seq(Nat) /\ kept[b] \in 0..Len(segFile[b].recs) /\ kept[b] \in Nat
      BY <2>1, <3>2
    <3>4. /\ Len(SubSeq(segFile[b].recs, 1, kept[b])) = kept[b]
          /\ \A j \in 1..kept[b] : SubSeq(segFile[b].recs, 1, kept[b])[j] = segFile[b].recs[j]
      BY <3>3
    <3>5. ~(i < n)
      BY <2>1, <2>2, <2>3
    <3>6. \A j \in 1..segFile[b].dur : j \in 1..kept[b]
      BY <2>1, <3>2, <3>3
    <3>7. /\ segFile'[b].dur = kept[b] /\ Len(segFile'[b].recs) = kept[b]
          /\ \A j \in 1..kept[b] : segFile'[b].recs[j] = segFile[b].recs[j]
      BY <3>1, <3>3, <3>4
    <3>8. segFile'[b].dur = Len(segFile'[b].recs) /\ segFile'[b].dur \in Nat
      BY <3>3, <3>7
    <3>9. segFile'[b].dur >= segFile[b].dur
      BY <2>1, <3>2, <3>7
    <3>10. \A j \in 1..segFile[b].dur : segFile'[b].recs[j] = segFile[b].recs[j]
      BY <3>6, <3>7
    <3> QED
      BY <3>5, <3>8, <3>9, <3>10 DEF b
  <2>4. CASE b \notin unsynced
    <3>1. segFile'[b] = segFile[b]
      BY <1>1, <1>2, <2>1, <2>4 DEF Surviving
    <3>2. segFile[b].dur = Len(segFile[b].recs)
      BY <2>1, <2>2, <2>4
    <3> QED
      BY <2>1, <2>2, <3>1, <3>2 DEF b
  <2> QED
    BY <2>3, <2>4
<1> HIDE DEF unsynced
<1>5. Sealed'
  <2> SUFFICES ASSUME NEW i \in 1..n
               PROVE  /\ segFile'[man.segs[i]].dur \in 0..Len(segFile'[man.segs[i]].recs)
                      /\ i < n => ~segFile'[man.segs[i]].torn
                      /\ segFile'[man.segs[i]].dur = Len(segFile'[man.segs[i]].recs)
    BY <1>3 DEF Sealed
  <2> QED
    BY <1>4
<1>6. Logged'
  <2>1. ASSUME NEW r \in Nat, Stored(man.segs, segFile, r) PROVE Stored(man'.segs, segFile', r)
    <3>1. PICK i \in 1..n : \E m \in 1..segFile[man.segs[i]].dur : segFile[man.segs[i]].recs[m] = r
      BY <2>1 DEF Stored
    <3>2. PICK j \in 1..segFile[man.segs[i]].dur : segFile[man.segs[i]].recs[j] = r
      BY <3>1
    <3>3. segFile'[man.segs[i]].recs[j] = r
      BY <1>4, <3>2
    <3>4. segFile[man.segs[i]].dur \in Nat
      BY NamedSegments
    <3>5. j \in 1..segFile'[man.segs[i]].dur
      BY <1>4, <3>2, <3>4
    <3> QED
      BY <1>3, <3>3, <3>5 DEF Stored
  <2>2. /\ man'.snap \in Nat /\ man'.snap >= man.snap /\ (\A s \in acked' : s \in acked)
        /\ Current' \in Nat /\ Current' >= Current /\ (\A s \in 1..Current : log'[s] = log[s])
    BY <1>3, NumbersIs DEF Current
  <2> QED
    BY <2>1, <2>2, LoggedStays DEF DiskInv
<1>7. Covered' /\ Pending' /\ Begun'
  BY <1>3 DEF DiskInv, Covered, Pending, Begun
<1> QED
  BY <1>5, <1>6, <1>7 DEF DiskInv

\* What a recovery reads: every record stored, for no segment but the last ends in half a record.
LEMMA ReadAll ==
    ASSUME IInv, Sealed, pc = "down"
    PROVE  /\ ~HasGap(man, segFile)
           /\ \A r : r \in ReadRecords(man, segFile) \cup KeptRecords =>
                 \E i \in 1..Len(man.segs) : r \in ToSet(segFile[man.segs[i]].recs)
           /\ \A r : Stored(man.segs, segFile, r) => r \in ReadRecords(man, segFile)
<1>1. ~HasGap(man, segFile)
  <2>1. {i \in 1..(Len(man.segs) - 1) : segFile[man.segs[i]].torn} = {}
    <3> SUFFICES ASSUME NEW i \in 1..(Len(man.segs) - 1), segFile[man.segs[i]].torn PROVE FALSE
      OBVIOUS
    <3>1. i \in 1..Len(man.segs) /\ i < Len(man.segs)
      BY NamedSegments
    <3> QED
      BY <3>1 DEF Sealed
  <2>2. ReadEnd(man, segFile) = Len(man.segs) + 1
    BY <2>1 DEF ReadEnd
  <2>3. Len(man.segs) \in Nat
    BY NamedSegments
  <2> QED
    BY <2>2, <2>3 DEF HasGap
<1>2. \A r : r \in ReadRecords(man, segFile) \cup KeptRecords =>
         \E i \in 1..Len(man.segs) : r \in ToSet(segFile[man.segs[i]].recs)
  BY DEF ReadRecords, KeptRecords
<1>3. ASSUME NEW r, Stored(man.segs, segFile, r) PROVE r \in ReadRecords(man, segFile)
  <2>1. PICK i \in 1..Len(man.segs) : r \in ToSet(segFile[man.segs[i]].recs)
    BY <1>3, StoredIs
  <2>2. i <= ReadEnd(man, segFile)
    <3>1. ReadEnd(man, segFile) = Len(man.segs) + 1 /\ Len(man.segs) \in Nat
      BY <1>1, ReadIs, NamedSegments
    <3> QED
      BY <3>1
  <2> QED
    BY <2>1, <2>2 DEF ReadRecords
<1> QED
  BY <1>1, <1>2, <1>3

\* A restart promises what it has read.
LEMMA DiskRecovery ==
    ASSUME IInv, DiskInv, Recovery
    PROVE  DiskInv'
<1> USE DEF plane, actor, disk, history
<1> DEFINE n == Len(man.segs)
<1>1. /\ pc = "down" /\ pc' = "wait" /\ snapper' = Idle /\ Idle.current = FALSE
  BY DEF Recovery, RestartEmpty, Restart, RestartAfterGap, IInv, Control, Idle
<1>2. CASE RestartEmpty
  <2>1. /\ man' = man /\ man.snap = 0 /\ wal' = 0 /\ acked' = {} /\ man.segs = <<>> /\ Len(<<>>) = 0
    BY <1>2, NamedSegments DEF RestartEmpty, IInv, Control
  <2>2. Sealed'
    BY <2>1 DEF Sealed
  <2>3. Logged' /\ Covered' /\ Pending' /\ Begun'
    BY <1>1, <2>1 DEF Logged, Covered, Pending, Begun
  <2> QED
    BY <2>2, <2>3 DEF DiskInv
<1>3. CASE Restart
  <2>1. /\ man' = man /\ man.snap # 0 /\ Restored
    BY <1>3 DEF Restart
  <2>2. ASSUME NEW i \in 1..n
        PROVE  /\ segFile'[man.segs[i]].recs = segFile[man.segs[i]].recs
               /\ segFile'[man.segs[i]].dur = Len(segFile[man.segs[i]].recs)
               /\ Len(segFile[man.segs[i]].recs) \in Nat
               /\ ~segFile'[man.segs[i]].torn
    <3> DEFINE b == man.segs[i]
    <3>1. b \in DOMAIN segFile /\ segFile[b] \in [recs : Seq(Nat), dur : Nat, torn : BOOLEAN]
      BY NamedSegments
    <3>2. b \in ToSet(man.segs)
      BY NamedSegments DEF ToSet
    <3>3. n \in Nat /\ segFile[b].dur = Len(segFile[b].recs) /\ (i < n => ~segFile[b].torn)
      BY <1>1, NamedSegments DEF DiskInv, Sealed
    <3>4. segFile'[b] = IF b = man.segs[n] THEN [segFile[b] EXCEPT !.torn = FALSE] ELSE segFile[b]
      BY <1>3, <3>1, <3>2 DEF Restart
    <3> HIDE DEF b
    <3>5. CASE i = n
      <4>1. segFile'[b] = [segFile[b] EXCEPT !.torn = FALSE]
        BY <3>4, <3>5 DEF b
      <4> QED
        BY <3>1, <3>3, <4>1 DEF b
    <3>6. CASE i # n
      <4>1. ~segFile[b].torn
        BY <3>3, <3>6
      <4>2. segFile'[b].recs = segFile[b].recs /\ segFile'[b].dur = segFile[b].dur /\ ~segFile'[b].torn
        BY <3>1, <3>4, <4>1
      <4> QED
        BY <3>1, <3>3, <4>2 DEF b
    <3> QED
      BY <3>5, <3>6
  <2>3. Sealed'
    BY <2>1, <2>2 DEF Sealed
  <2>4. Covered' /\ Pending' /\ Begun'
    BY <1>1, <2>1 DEF Covered, Pending, Begun
  <2>5. /\ acked' = 1..man.snap \cup KeptRecords /\ Current' \in Nat /\ man.snap \in Nat
        /\ MaxSeen \in Nat /\ MaxSeen <= Current' /\ man.snap <= MaxSeen
        /\ \A r \in ReadRecords(man, segFile) : r <= MaxSeen
    <3>1. /\ acked' = 1..man.snap \cup KeptRecords /\ Current' = PlanNext
          /\ PlanNext \in Nat /\ MaxSeen \in Nat /\ PlanNext >= MaxSeen + 1
      BY <2>1, NumbersIs, RestoredIs
    <3> QED
      BY <2>1, <3>1, NumbersIs, PlanIs
  <2>6. ASSUME NEW s \in KeptRecords
        PROVE  s \in Nat /\ s <= MaxSeen /\ Stored(man'.segs, segFile', s)
    <3>1. PICK i \in 1..n : s \in ToSet(segFile[man.segs[i]].recs)
      BY <1>1, ReadAll DEF DiskInv
    <3>2. segFile[man.segs[i]] \in [recs : Seq(Nat), dur : Nat, torn : BOOLEAN]
      BY NamedSegments
    <3>3. PICK j \in 1..Len(segFile[man.segs[i]].recs) : segFile[man.segs[i]].recs[j] = s
      BY <3>1, <3>2 DEF ToSet
    <3>4. s \in Nat
      BY <3>2, <3>3
    <3>5. Stored(man'.segs, segFile', s)
      BY <2>1, <2>2, <3>3 DEF Stored
    <3>6. Stored(man.segs, segFile, s)
      <4>1. segFile[man.segs[i]].dur = Len(segFile[man.segs[i]].recs)
        BY <1>1 DEF DiskInv, Sealed
      <4> QED
        BY <3>3, <4>1 DEF Stored
    <3>7. s \in ReadRecords(man, segFile)
      BY <1>1, <3>6, ReadAll DEF DiskInv
    <3> QED
      BY <2>5, <3>4, <3>5, <3>7
  <2>7. Logged'
    <3>1. \A s \in acked' : s <= Current'
      <4>1. \A s \in 1..man.snap : s <= Current'
        BY <2>5
      <4>2. \A s \in KeptRecords : s <= Current'
        BY <2>5, <2>6
      <4> QED
        BY <2>5, <4>1, <4>2
    <3>2. ASSUME NEW s \in acked', NEW k \in Keys, s > man'.snap, Affects(log', s, k)
          PROVE  \E r \in Nat : r >= s /\ Affects(log', r, k) /\ Stored(man'.segs, segFile', r)
      <4>1. s \in KeptRecords
        BY <2>1, <2>5, <3>2
      <4>2. s \in Nat /\ s >= s /\ Stored(man'.segs, segFile', s)
        BY <2>6, <4>1
      <4> QED
        BY <3>2, <4>2
    <3> QED
      BY <3>1, <3>2 DEF Logged
  <2> QED
    BY <2>3, <2>4, <2>7 DEF DiskInv
<1>4. ~RestartAfterGap
  BY <1>1, ReadAll DEF RestartAfterGap, DiskInv
<1> QED
  BY <1>2, <1>3, <1>4 DEF Recovery

LEMMA DInvInit ==
    ASSUME Init
    PROVE  DInv
<1>1. /\ log = <<Hole>> /\ Len(log) = 1 /\ log[1] = Hole /\ Hole \in Events
      /\ Hole.op = "hole" /\ Hole.key = NoKey /\ DOMAIN log = {1} /\ ToSet(<<>>) = {}
  BY DEF Init, Hole, Events, Ops, ToSet
<1>2. /\ NoManifest.snap = 0 /\ NoManifest.segs = <<>> /\ Len(<<>>) = 0
      /\ Idle.current = FALSE /\ Idle.st = "none"
  BY DEF NoManifest, Idle
<1>3. Numbered
  BY <1>1 DEF Init, Numbered, WellFormed
<1>4. Held /\ Complete
  <2>1. \A k \in Keys, s \in 1..Current : ~LastPut(log, k, s)
    BY <1>1 DEF LastPut, Current
  <2> QED
    BY <2>1 DEF Held, Complete
<1>5. Sealed /\ Covered /\ Logged /\ Pending /\ Begun /\ Placed
  BY <1>2 DEF Init, Sealed, Covered, Logged, Pending, Begun, Placed
<1> QED
  BY <1>3, <1>4, <1>5 DEF DInv

LEMMA DInvNext ==
    ASSUME Reliable, IInv, DInv, [Next]_vars
    PROVE  DInv'
<1>1. DiskInv /\ Numbered /\ Held /\ Complete /\ Placed
  BY DEF DInv, DiskInv
<1>2. Numbered' /\ Held' /\ Complete' /\ Placed'
  BY <1>1, NumberedNext, HeldNext, CompleteNext, PlacedNext
<1>3. DiskInv'
  <2>1. CASE UNCHANGED vars
    BY <1>1, <2>1 DEF vars, plane, actor, disk, history, DiskInv, Sealed, Covered, Logged, Pending,
       Begun, Current
  <2> QED
    BY <1>1, <2>1, DiskActor, DiskOthers, DiskCrash, DiskRecovery DEF Next
<1> QED
  BY <1>2, <1>3 DEF DInv, DiskInv

\* What the invariant says of a state in which the process is down.
LEMMA DInvRecovers ==
    ASSUME IInv, DInv
    PROVE  DurableRecoverable
<1> SUFFICES ASSUME pc = "down", NEW k \in Keys
             PROVE  /\ Recovered[k] # 0 => Recovered[k] >= LastDurable(k)
                    /\ (/\ LastDurable(k) # 0 /\ IsPut(log, LastDurable(k)) /\ k \notin deleting
                        /\ \A s \in 1..Current : Affects(log, s, k) => s <= LastDurable(k))
                       => Recovered[k] = LastDurable(k)
  BY DEF DurableRecoverable
<1> DEFINE D == {s \in acked : /\ Affects(log, s, k) /\ s > undone[k]
                                /\ log[s].op \notin {"late", "surplus"}}
           last == LastDurable(k)
<1>1. Current \in Nat /\ man.snap \in 0..Current /\ D \in SUBSET (0..Current)
  <2>1. \A s \in acked : s \in Nat /\ s <= Current
    BY NamedSegments DEF DInv, Logged
  <2> QED
    BY <2>1, NumbersIs
<1>2. last \in D \cup {0} /\ last \in 0..Current
  BY <1>1, LargestBelow DEF LastDurable
<1>5. undone[k] \in Nat
  BY DEF IInv, TypeOK
<1>3. CASE man.snap = 0
  <2>1. acked = {} /\ Recovered[k] = 0
    BY <1>3 DEF DInv, Begun, Recovered
  <2>2. last = 0
    BY <1>2, <2>1
  <2> QED
    BY <2>1, <2>2
<1>4. CASE man.snap # 0
  <2>1. ASSUME last # 0, last > man.snap
        PROVE  \E r \in ReadRecords(man, segFile) : r >= last /\ Affects(log, r, k)
    <3>1. last \in acked /\ Affects(log, last, k)
      BY <1>2, <2>1
    <3>2. PICK r \in Nat : r >= last /\ Affects(log, r, k) /\ Stored(man.segs, segFile, r)
      BY <2>1, <3>1 DEF DInv, Logged
    <3> QED
      BY <3>2, ReadAll DEF DInv
  <2>2. Recovered[k] # 0 => Recovered[k] >= last
    <3> SUFFICES ASSUME Recovered[k] # 0, ~(Recovered[k] >= last) PROVE FALSE
      OBVIOUS
    <3>1. /\ Recovered[k] \in 0..Current
          /\ \A s \in ReadRecords(man, segFile) : s > man.snap /\ Affects(log, s, k) => s <= Recovered[k]
          /\ Recovered[k] <= man.snap => Recovered[k] = snapFile[man.snap][k]
      BY <1>4, RecoveredIs
    <3>2. Recovered[k] < last /\ last # 0
      BY <1>1, <1>2, <3>1
    <3>3. CASE last > man.snap
      <4>1. PICK r \in ReadRecords(man, segFile) : r >= last /\ Affects(log, r, k)
        BY <2>1, <3>2, <3>3
      <4>2. r \in 0..Current
        BY ReadIs
      <4>3. r > man.snap
        BY <1>1, <1>2, <3>3, <4>1, <4>2
      <4>4. r <= Recovered[k]
        BY <3>1, <4>1, <4>3
      <4> QED
        BY <1>1, <1>2, <3>1, <3>2, <4>1, <4>2, <4>4
    <3>4. CASE last <= man.snap
      <4>1. Recovered[k] = snapFile[man.snap][k]
        BY <1>1, <1>2, <3>1, <3>2, <3>4
      <4>2. NotStale(log, snapFile[man.snap], undone, man.snap)
        BY <1>4 DEF IInv, Snapshots, Sound
      <4>3. last \in (Recovered[k] + 1)..man.snap
        BY <1>1, <1>2, <3>1, <3>2, <3>4
      <4>4. Affects(log, last, k) /\ log[last].op # "late" /\ ~(last <= undone[k])
        BY <1>1, <1>2, <1>5, <3>2
      <4> QED
        BY <4>1, <4>2, <4>3, <4>4 DEF NotStale
    <3> QED
      BY <1>1, <1>2, <3>3, <3>4
  <2>3. ASSUME last # 0, IsPut(log, last), k \notin deleting,
               \A s \in 1..Current : Affects(log, s, k) => s <= last
        PROVE  Recovered[k] = last
    <3>1. /\ last \in 1..Current /\ last \in acked /\ Affects(log, last, k) /\ last > undone[k]
          /\ log[last].op \notin {"late", "surplus"}
      BY <1>1, <1>2, <2>3
    <3>2. log[last] \in Events
      BY <3>1 DEF IInv, TypeOK, Current
    <3>3. log[last] = [op |-> "put", key |-> k]
      <4>1. log[last].op = "put" /\ log[last].key = k
        BY <2>3, <3>1 DEF IsPut, Affects, IsClear
      <4> QED
        BY <3>2, <4>1 DEF Events
    <3>4. LastPut(log, k, last)
      BY <1>1, <2>3, <3>1, <3>3 DEF LastPut, Current
    <3>5. last <= man.snap => snapFile[man.snap][k] = last
      BY <1>4, <2>3, <3>1, <3>4 DEF DInv, Complete
    <3>6. last > man.snap => last \in ReadRecords(man, segFile)
      <4> SUFFICES ASSUME last > man.snap PROVE last \in ReadRecords(man, segFile)
        OBVIOUS
      <4>1. PICK r \in ReadRecords(man, segFile) : r >= last /\ Affects(log, r, k)
        BY <2>1, <2>3
      <4>2. r \in 1..Current
        BY <1>1, <3>1, <4>1, ReadIs
      <4>3. r <= last
        BY <2>3, <4>1, <4>2
      <4>4. r = last
        BY <3>1, <4>1, <4>2, <4>3
      <4> QED
        BY <4>1, <4>4
    <3>7. ASSUME NEW t \in ReadRecords(man, segFile), t > last, t > man.snap PROVE ~Affects(log, t, k)
      <4>1. t \in 1..Current /\ ~(t <= last)
        BY <1>1, <3>1, <3>7, ReadIs
      <4> QED
        BY <2>3, <4>1
    <3> HIDE DEF last
    <3> QED
      BY <1>4, <3>1, <3>3, <3>5, <3>6, <3>7, RecoveredNewest
  <2> QED
    BY <2>2, <2>3
<1> QED
  BY <1>3, <1>4

\* If no append, no sync and no write of the first manifest fails, then after any number of
\* crashes, wherever they fall and whatever else fails, a recovery brings back no entry older
\* than the last acknowledged event about its key, and brings back exactly the entry that was
\* acknowledged last when nothing newer happened to the key.  An event counts while no policy swap
\* has changed the entry of its key since: what a swap drops is not in the next snapshot.
THEOREM AcknowledgedSurvives ==
    ASSUME FailPoints \cap {"append", "sync", "first"} = {}
    PROVE  Spec => []DurableRecoverable
<1>1. Reliable
  BY DEF Reliable
<1>2. Init => IInv /\ DInv
  BY InvInit, DInvInit
<1>3. IInv /\ DInv /\ [Next]_vars => (IInv /\ DInv)'
  BY <1>1, InvNext, DInvNext
<1>4. IInv /\ DInv => DurableRecoverable
  BY DInvRecovers
<1> QED
  BY <1>2, <1>3, <1>4, PTL DEF Spec

-----------------------------------------------------------------------------
(* A graceful shutdown.  The snapshot written last is the cache, because its number is the last  *)
(* one issued and the snapshot thread copies what is in memory; without a manifest nothing       *)
(* happened.  Neither follows from the invariants above: the stages of the shutdown, what is in  *)
(* flight at each and what a run without failures never meets have to be part of the induction.  *)

\* The empty cache.
Zeros == [k \in Keys |-> 0]

\* The stages of a shutdown and the steps each one goes through: the pass, the flush, the wait
\* for a snapshot in flight, the last snapshot, the tail.  A process that is down has none.
Staged ==
    /\ phase = "tick" => pc \notin {"drain", "start", "pump", "final", "stopped"}
    /\ phase = "compact" => pc \in {"drain", "append", "sync", "resync", "start"}
    /\ phase = "exitFlush" => pc \in {"drain", "append", "sync", "resync"}
    /\ phase = "exitWait" => pc \in {"pump", "rename", "r2", "unlink"}
    /\ phase = "exitSnap" => pc \in {"start", "pump", "rename", "r2", "unlink"}
    /\ phase = "exitTail" => pc \in {"drain", "append", "sync", "resync", "final", "stopped"}
    /\ phase \notin {"tick", "compact"} => exiting
    /\ exiting => pc # "wait"
    /\ exitSeq <= Current
    /\ pc = "down" => /\ phase = "tick" /\ ~exiting /\ exitSeq = 0
                      /\ ~snapReq /\ ~needsResync /\ ~inflight

\* A snapshot whose number nothing issued since exceeds holds the entry of the cache in memory, the
\* one the manifest names as well as the one just written, while no two-step delete is halfway, and
\* unless a swap has changed the entry since.
Fresh ==
    pc # "down" /\ deleting = {} =>
        \A k \in Keys : undone[k] < Current =>
            /\ man.snap # 0 /\ Current <= man.snap => snapFile[man.snap][k] = mem[k]
            /\ snapper.st = "done" /\ Current <= snapper.seq => snapper.data[k] = mem[k]

\* A shutdown nothing has disturbed so far, with the data plane still.
Quiet == exiting /\ ~spoiled /\ Current = exitSeq

\* The last number is covered by the snapshot named, or there was nothing to name or to name it with.
Saved == man.snap >= Current \/ man.snap = 0 \/ wal = 0

\* How an undisturbed shutdown gets there: at the last snapshot none is in flight, or the one in
\* flight was started for the last number and is not refused, and afterwards the number is covered.
Closing ==
    /\ snapper.current => inflight
    /\ pc \in {"rename", "r2", "unlink"} => ~inflight
    /\ Quiet =>
          /\ pc # "resync"
          /\ phase = "exitSnap" =>
                /\ pc = "start" => ~inflight
                /\ pc = "pump" /\ inflight => /\ snapper.current /\ snapper.seq >= Current
                                             /\ snapper.st \in {"running", "done"}
                /\ pc \in {"rename", "r2"} => snapper.seq >= Current
                /\ pc = "unlink" \/ (pc = "pump" /\ ~inflight) => Saved
          /\ phase = "exitTail" => Saved

\* No segment has the number 0; and as long as nothing has failed, no snapshot is given up and
\* a process with a manifest has an active segment.
Unfailed ==
    /\ \A i \in 1..Len(man.segs) : man.segs[i] # 0
    /\ fails = 0 => /\ snapper.st # "failed"
                    /\ pc # "down" /\ man.snap # 0 => wal # 0

\* Nothing happened since the start.
Blank == Current = 1 /\ mem = Zeros /\ fresh = Zeros /\ ring = <<>>

\* As long as nothing has failed and there is no manifest, the actor has nothing in flight and
\* either nothing happened or there are events left in the queue, which it will take: a shutdown
\* finds none left once its pass has begun.
Untouched ==
    fails = 0 /\ man.snap = 0 /\ pc # "down" /\ (exiting => Current = exitSeq) =>
        /\ ~inflight
        /\ pc \in {"initial", "commit"} \/ ~snapReq
        /\ pc \in {"initial", "commit"} \/ snapper.st = "none"
        /\ needsResync => ring # <<>>
        /\ pc \in {"initial", "commit"} \/ Blank \/ (ring # <<>> /\ (exiting => pc = "take"))
        /\ pc \notin {"append", "sync", "resync", "rotate", "rename", "r2", "unlink"}
        /\ phase # "compact"

\* What an undisturbed shutdown rests on.
SInv == Staged /\ Fresh /\ Closing /\ Unfailed /\ Untouched

-----------------------------------------------------------------------------
\* An offer of an event leaves the queue non-empty, whether or not there was room.
LEMMA RingFills ==
    ASSUME TypeOK, NEW e \in Seq(Nat), Len(e) >= 1, Offer(e)
    PROVE  ring' # <<>>
<1>1. ring \in Seq(Nat) /\ Len(ring) <= RingCap
  BY DEF TypeOK
<1> DEFINE room == RingCap - Len(ring)
           n == IF Len(e) <= room THEN Len(e) ELSE room
<1>2. room \in Nat /\ n \in 0..Len(e) /\ (Len(ring) = 0 => n >= 1)
  BY <1>1, RingAssumption
<1> HIDE DEF n
<1>3. ring' = ring \o SubSeq(e, 1, n)
  BY DEF Offer, n
<1>4. SubSeq(e, 1, n) \in Seq(Nat) /\ Len(SubSeq(e, 1, n)) = n
  BY <1>2
<1>5. Len(ring') = Len(ring) + n
  BY <1>1, <1>3, <1>4
<1> QED
  BY <1>1, <1>2, <1>5

\* What the data plane can do to a shutdown: outdate the snapshot in flight (and spoil it) while
\* it changes entries without a number, drop an entry whose EVICT is still to come, copy an entry
\* for a swap, or issue a number and queue an event.
LEMMA ClientSteps ==
    ASSUME IInv, Client
    PROVE  /\ UNCHANGED <<snapReq, actor, disk, acked, exitSeq, crashes, fails>>
           /\ pc # "down" /\ Current' \in Nat /\ Current' >= Current
           /\ \/ /\ UNCHANGED <<log, ring, needsResync, deleting>>
                 /\ snapper' = [snapper EXCEPT !.current = FALSE]
                 /\ spoiled' = (spoiled \/ exiting)
                 /\ mem' \in [Keys -> Nat] /\ \A k \in Keys : mem'[k] \in {0, fresh[k]}
                 /\ fresh' = Zeros
                 /\ \A k \in Keys : \/ mem'[k] = mem[k] /\ undone'[k] = undone[k]
                                    \/ undone'[k] = Current
              \/ /\ UNCHANGED <<log, ring, needsResync, snapper, spoiled, fresh, undone>>
                 /\ deleting' # {}
                 /\ mem' \in [Keys -> Nat] /\ \A k \in Keys : mem'[k] \in {0, mem[k]}
              \/ /\ UNCHANGED <<mem, log, ring, needsResync, snapper, spoiled, deleting, undone>>
                 /\ \E k \in Keys : mem[k] # 0
              \/ /\ Current' > Current /\ ring' # <<>> /\ UNCHANGED <<snapper, spoiled, undone>>
<1> USE DEF plane, history
<1> DEFINE one == <<Current + 1>>
           two == <<Current + 2, Current + 1>>
<1>0. TypeOK /\ log \in Seq(Events) /\ mem \in [Keys -> Nat] /\ fresh \in [Keys -> Nat]
  BY DEF IInv, TypeOK
<1>1. /\ TypeOK /\ log \in Seq(Events) /\ Current \in Nat /\ mem \in [Keys -> Nat]
      /\ one \in Seq(Nat) /\ Len(one) = 1
      /\ two \in Seq(Nat) /\ Len(two) = 2
      /\ \A e : Len(Append(log, e)) = Len(log) + 1
  BY <1>0, NumbersIs
<1> HIDE DEF one, two
<1>2. TypeOK /\ one \in Seq(Nat) /\ Len(one) >= 1 /\ two \in Seq(Nat) /\ Len(two) >= 1
  BY <1>1
<1>3. ASSUME NEW k \in Keys, PutWithRoom(k)
      PROVE  Current' = Current + 1 /\ ring' # <<>>
  <2>1. log' = Append(log, [op |-> "put", key |-> k]) /\ Offer(one)
    BY <1>3 DEF PutWithRoom, one
  <2>2. Current' = Current + 1
    BY <1>1, <2>1 DEF Current
  <2>3. ring' # <<>>
    BY <1>2, <2>1, RingFills
  <2> QED
    BY <2>2, <2>3
<1>4. ASSUME NEW k \in Keys, NEW v \in Keys \ {k}, PutEvicting(k, v)
      PROVE  Current' = Current + 2 /\ ring' # <<>>
  <2>1. log' = log \o <<[op |-> "put", key |-> k], [op |-> "evict", key |-> v]>>
    BY <1>4 DEF PutEvicting
  <2>2. Len(log') = Len(log) + 2
    BY <1>1, <2>1
  <2>3. Offer(two)
    BY <1>4 DEF PutEvicting, two
  <2>4. ring' # <<>>
    BY <1>2, <2>3, RingFills
  <2> QED
    BY <1>1, <2>2, <2>4 DEF Current
<1>5. ASSUME NEW k \in Keys, DeleteMemory(k)
      PROVE  /\ UNCHANGED <<log, ring, needsResync, snapper, spoiled, fresh, undone>>
             /\ deleting' # {}
             /\ mem' \in [Keys -> Nat] /\ \A j \in Keys : mem'[j] \in {0, mem[j]}
  BY <1>1, <1>5 DEF DeleteMemory
<1>6. ASSUME NEW k \in Keys, DeleteLog(k)
      PROVE  Current' = Current + 1 /\ ring' # <<>>
  <2>1. /\ \E e : log' = Append(log, e)
        /\ Offer(one)
    BY <1>6 DEF DeleteLog, one
  <2>2. Current' = Current + 1
    BY <1>1, <2>1 DEF Current
  <2>3. ring' # <<>>
    BY <1>2, <2>1, RingFills
  <2> QED
    BY <2>2, <2>3
<1>7. ASSUME Clear
      PROVE  Current' = Current + 1 /\ ring' # <<>>
  <2>1. log' = Append(log, [op |-> "clear", key |-> NoKey]) /\ Offer(one)
    BY <1>7 DEF Clear, one
  <2>2. Current' = Current + 1
    BY <1>1, <2>1 DEF Current
  <2>3. ring' # <<>>
    BY <1>2, <2>1, RingFills
  <2> QED
    BY <2>2, <2>3
<1>8. UNCHANGED <<snapReq, actor, disk, acked, exitSeq, crashes, fails>> /\ pc # "down"
  BY DEF Client, PutWithRoom, PutEvicting, DeleteMemory, DeleteLog, Clear, Migrate, HotSwap, Up
<1>9. CASE UNCHANGED <<snapper, spoiled, undone>> /\ ring' # <<>> /\ Current' \in {Current + 1, Current + 2}
  BY <1>1, <1>8, <1>9
<1>10. CASE HotSwap
  <2>1. /\ UNCHANGED <<log, ring, needsResync, deleting>>
        /\ snapper' = [snapper EXCEPT !.current = FALSE] /\ spoiled' = (spoiled \/ exiting)
        /\ fresh' = Zeros
    BY <1>10 DEF HotSwap, Zeros
  <2>2. mem' \in [Keys -> Nat] /\ \A k \in Keys : mem'[k] \in {0, fresh[k]}
    BY <1>0, <1>10 DEF HotSwap
  <2>3. \A k \in Keys : \/ mem'[k] = mem[k] /\ undone'[k] = undone[k]
                       \/ undone'[k] = Current
    BY <1>10 DEF HotSwap
  <2> QED
    BY <1>1, <1>8, <2>1, <2>2, <2>3 DEF Current
<1>14. CASE \E k \in Keys : Migrate(k)
  <2>1. /\ UNCHANGED <<mem, log, ring, needsResync, snapper, spoiled, deleting, undone>>
        /\ \E k \in Keys : mem[k] # 0
    BY <1>14 DEF Migrate
  <2> QED
    BY <1>1, <1>8, <2>1 DEF Current
<1>11. CASE \E k \in Keys : DeleteMemory(k)
  BY <1>1, <1>5, <1>8, <1>11 DEF Current
<1>12. CASE Clear
  <2>1. UNCHANGED <<snapper, spoiled, undone>>
    BY <1>12 DEF Clear
  <2> QED
    BY <1>7, <1>9, <1>12, <2>1
<1>13. CASE \E k \in Keys : PutWithRoom(k) \/ DeleteLog(k) \/ \E v \in Keys \ {k} : PutEvicting(k, v)
  <2>1. UNCHANGED <<snapper, spoiled, undone>>
    BY <1>13 DEF PutWithRoom, DeleteLog, PutEvicting
  <2> QED
    BY <1>3, <1>4, <1>6, <1>9, <1>13, <2>1
<1> QED
  BY <1>10, <1>11, <1>12, <1>13, <1>14 DEF Client

\* The stages, over the steps of the actor.
LEMMA StagedActor ==
    ASSUME IInv, Staged, Actor
    PROVE  Staged'
<1> USE DEF plane, actor, disk, history, Goto, GotoIn
<1>1. /\ pc \in PCs /\ phase \in Phases /\ exiting \in BOOLEAN
      /\ Current' = Current /\ exitSeq' \in {exitSeq, Current} /\ Current \in Nat /\ pc # "down"
  <2>1. UNCHANGED log /\ exitSeq' \in {exitSeq, Current} /\ pc # "down"
    BY DEF Actor, WaitTimeout, Shutdown, Message, SnapshotFailed, SnapshotStale, SnapshotDone,
       RenameSnapshot, WriteR2, UnlinkOld, TakeBatch, InitialCompact, InitialCommit,
       InitialSnapshotFailed, RotateForAppend, AppendNowhere, AppendBatch, SyncBatch,
       ResyncAfterFailure, Decide, DecideThreshold, DrainMore, DrainEnd, StartRefused,
       StartNotNeeded, StartCompaction, PumpDone, PumpTimeout, FinalManifest
  <2>2. pc \in PCs /\ phase \in Phases /\ exiting \in BOOLEAN
    BY DEF IInv, TypeOK
  <2> QED
    BY <2>1, <2>2, NumbersIs DEF Current
<1>2. exitSeq' <= Current'
  BY <1>1 DEF Staged
<1> SUFFICES /\ pc' # "down"
             /\ phase' = "tick" => pc' \notin {"drain", "start", "pump", "final", "stopped"}
             /\ phase' = "compact" => pc' \in {"drain", "append", "sync", "resync", "start"}
             /\ phase' = "exitFlush" => pc' \in {"drain", "append", "sync", "resync"}
             /\ phase' = "exitWait" => pc' \in {"pump", "rename", "r2", "unlink"}
             /\ phase' = "exitSnap" => pc' \in {"start", "pump", "rename", "r2", "unlink"}
             /\ phase' = "exitTail" =>
                   pc' \in {"drain", "append", "sync", "resync", "final", "stopped"}
             /\ phase' \notin {"tick", "compact"} => exiting'
             /\ exiting' => pc' # "wait"
  BY <1>2 DEF Staged
<1> USE <1>1 DEF Staged, Phases
<1>3. CASE WaitTimeout \/ Shutdown
  BY <1>3 DEF WaitTimeout, Shutdown
<1>4. CASE Message
  BY <1>4 DEF Message, SnapshotFailed, SnapshotStale, SnapshotDone, AfterMessage
<1>5. CASE RenameSnapshot \/ WriteR2 \/ UnlinkOld
  BY <1>5 DEF RenameSnapshot, WriteR2, UnlinkOld, AfterMessage
<1>6. CASE TakeBatch
  BY <1>6 DEF TakeBatch
<1>7. CASE InitialCompact \/ InitialCommit \/ InitialSnapshotFailed \/ RotateForAppend
  BY <1>7 DEF InitialCompact, InitialCommit, InitialSnapshotFailed, RotateForAppend
<1>8. CASE AppendNowhere \/ ResyncAfterFailure
  BY <1>8 DEF AppendNowhere, ResyncAfterFailure, AfterFailedBatch, AfterDrain
<1>9. CASE AppendBatch \/ SyncBatch
  BY <1>9 DEF AppendBatch, SyncBatch, AfterBatch
<1>10. CASE Decide \/ DecideThreshold
  BY <1>10 DEF Decide, DecideThreshold, AfterCompaction
<1>11. CASE DrainMore \/ DrainEnd
  BY <1>11 DEF DrainMore, DrainEnd, AfterDrain
<1>12. CASE StartRefused \/ StartNotNeeded \/ StartCompaction
  BY <1>12 DEF StartRefused, StartNotNeeded, StartCompaction, AfterRefusal, AfterStart, AfterCompaction
<1>13. CASE PumpDone \/ PumpTimeout \/ FinalManifest
  BY <1>13 DEF PumpDone, PumpTimeout, FinalManifest, AfterPump
<1> QED
  BY <1>3, <1>4, <1>5, <1>6, <1>7, <1>8, <1>9, <1>10, <1>11, <1>12, <1>13 DEF Actor

\* The stages, over every step.
LEMMA StagedNext ==
    ASSUME IInv, Staged, [Next]_vars
    PROVE  Staged'
<1> USE DEF plane, actor, disk, history
<1>1. Current \in Nat /\ exitSeq \in Nat
  BY NumbersIs DEF IInv, TypeOK
<1>2. CASE Client
  BY <1>1, <1>2, ClientSteps DEF Staged
<1>3. CASE WriteSnapshotFile
  BY <1>3 DEF WriteSnapshotFile, Staged, Current
<1>4. CASE Crash
  BY <1>1, <1>4 DEF Crash, Staged, Current
<1>5. CASE Recovery
  <2>1. pc = "down" /\ pc' = "wait" /\ UNCHANGED <<phase, exiting, exitSeq>>
    BY <1>5 DEF Recovery, RestartEmpty, Restart, RestartAfterGap
  <2>2. Current' \in Nat
    BY <1>5, InvNext DEF IInv, TypeOK, Next, Current
  <2> QED
    BY <2>1, <2>2 DEF Staged
<1>6. CASE UNCHANGED vars
  BY <1>6 DEF vars, Staged, Current
<1> QED
  BY <1>2, <1>3, <1>4, <1>5, <1>6, StagedActor DEF Next

\* A snapshot that covers everything is the cache, over the steps of the actor: it leaves the
\* memory alone, and names only what the snapshot thread wrote.
LEMMA FreshActor ==
    ASSUME IInv, Fresh, Actor
    PROVE  Fresh'
<1> USE DEF plane, actor, disk, history
<1>1. UNCHANGED <<mem, log, deleting, undone>> /\ pc # "down"
  BY DEF Actor, WaitTimeout, Shutdown, Message, SnapshotFailed, SnapshotStale, SnapshotDone,
     RenameSnapshot, WriteR2, UnlinkOld, TakeBatch, InitialCompact, InitialCommit,
     InitialSnapshotFailed, RotateForAppend, AppendNowhere, AppendBatch, SyncBatch,
     ResyncAfterFailure, Decide, DecideThreshold, DrainMore, DrainEnd, StartRefused,
     StartNotNeeded, StartCompaction, PumpDone, PumpTimeout, FinalManifest
<1>2. /\ Idle.st = "none" /\ \A n \in Nat : [Idle EXCEPT !.st = "running", !.seq = n].st = "running"
      /\ [Idle EXCEPT !.st = "running", !.seq = Current, !.current = TRUE].st = "running"
  BY DEF Idle
<1>3. /\ man.snap \in Nat /\ Current \in Nat /\ snapper.seq \in Nat /\ SnapperType
      /\ man \in [snap : Nat, segs : Seq(Nat), seq : Nat]
  BY NumbersIs, TypeParts, DiskParts DEF IInv
<1>4. /\ man.snap # 0 => man.snap \in DOMAIN snapFile
      /\ pc = "r2" => snapper.seq \in DOMAIN snapFile /\ snapFile[snapper.seq] = snapper.data
      /\ pc \in {"rename", "r2"} => snapper.st = "done"
  BY DEF IInv, Snapshots, Control
<1> SUFFICES ASSUME deleting = {}, NEW k \in Keys, undone[k] < Current
             PROVE  /\ man'.snap # 0 /\ Current <= man'.snap => snapFile'[man'.snap][k] = mem[k]
                    /\ snapper'.st = "done" /\ Current <= snapper'.seq => snapper'.data[k] = mem[k]
  BY <1>1 DEF Fresh, Current
<1>5. /\ man.snap # 0 /\ Current <= man.snap => snapFile[man.snap][k] = mem[k]
      /\ snapper.st = "done" /\ Current <= snapper.seq => snapper.data[k] = mem[k]
  BY <1>1 DEF Fresh
<1>6. CASE /\ UNCHANGED <<snapFile, man>>
           /\ snapper'.st = "done" =>
                 snapper.st = "done" /\ snapper'.seq = snapper.seq /\ snapper'.data = snapper.data
  BY <1>5, <1>6
<1>7. CASE WaitTimeout \/ Shutdown \/ TakeBatch \/ AppendNowhere \/ AppendBatch \/ SyncBatch
           \/ Decide \/ DecideThreshold \/ DrainMore \/ DrainEnd \/ StartRefused \/ StartNotNeeded
           \/ PumpDone \/ PumpTimeout
  <2>1. UNCHANGED <<snapFile, man, snapper>>
    BY <1>7 DEF WaitTimeout, Shutdown, TakeBatch, AppendNowhere, AppendBatch, SyncBatch, Decide,
       DecideThreshold, DrainMore, DrainEnd, StartRefused, StartNotNeeded, PumpDone, PumpTimeout
  <2> QED
    BY <1>6, <2>1
<1>8. CASE Message \/ InitialCompact \/ InitialSnapshotFailed
  <2>1. UNCHANGED <<snapFile, man>>
    BY <1>8 DEF Message, SnapshotFailed, SnapshotStale, SnapshotDone, InitialCompact,
       InitialSnapshotFailed
  <2>2. snapper' = [snapper EXCEPT !.current = FALSE] \/ snapper'.st # "done"
    BY <1>2, <1>3, <1>8 DEF Message, SnapshotFailed, SnapshotStale, SnapshotDone, InitialCompact,
       InitialSnapshotFailed
  <2>3. CASE snapper' = [snapper EXCEPT !.current = FALSE]
    BY <1>3, <1>6, <2>1, <2>3 DEF SnapperType, Snapper
  <2> QED
    BY <1>6, <2>1, <2>2, <2>3
<1>9. CASE RotateForAppend \/ ResyncAfterFailure \/ StartCompaction \/ FinalManifest
  <2>1. UNCHANGED snapFile /\ man'.snap = man.snap
    BY <1>3, <1>9 DEF RotateForAppend, ResyncAfterFailure, StartCompaction, FinalManifest,
       NewSegment, NoNewSegment
  <2>2. UNCHANGED snapper \/ snapper'.st = "running"
    BY <1>2, <1>9 DEF RotateForAppend, ResyncAfterFailure, StartCompaction, FinalManifest
  <2> QED
    BY <1>5, <2>1, <2>2
<1>10. CASE RenameSnapshot
  <2>1. UNCHANGED man /\ (snapper' = snapper \/ snapper' = Idle)
    BY <1>10 DEF RenameSnapshot
  <2>2. snapFile' = snapFile \/ snapFile' = Written(snapFile, snapper.seq, snapper.data)
    BY <1>10 DEF RenameSnapshot
  <2>3. pc = "rename"
    BY <1>10 DEF RenameSnapshot
  <2>4. CASE snapFile' = snapFile
    BY <1>2, <1>5, <2>1, <2>4
  <2>5. CASE snapFile' = Written(snapFile, snapper.seq, snapper.data)
    <3>1. man.snap # 0 => snapFile'[man.snap] = IF man.snap = snapper.seq THEN snapper.data
                                                ELSE snapFile[man.snap]
      BY <1>4, <2>5 DEF Written
    <3> QED
      BY <1>2, <1>4, <1>5, <2>1, <2>3, <3>1
  <2> QED
    BY <2>2, <2>4, <2>5
<1>11. CASE WriteR2
  <2>1. UNCHANGED snapFile /\ snapper' = Idle /\ pc = "r2"
    BY <1>11 DEF WriteR2
  <2>2. UNCHANGED man \/ man'.snap = snapper.seq
    BY <1>11 DEF WriteR2
  <2> QED
    BY <1>2, <1>4, <1>5, <2>1, <2>2
<1>12. CASE UnlinkOld
  <2>1. UNCHANGED <<man, snapper>> /\ snapFile' = Removed(snapFile, {old.snap} \ {man.snap})
    BY <1>12 DEF UnlinkOld
  <2>2. man.snap # 0 => snapFile'[man.snap] = snapFile[man.snap]
    BY <1>4, <2>1 DEF Removed
  <2> QED
    BY <1>5, <2>1, <2>2
<1>13. CASE InitialCommit
  <2>1. snapper' = Idle /\ man.snap = 0 /\ snapper.st = "done"
    BY <1>13 DEF InitialCommit, IInv, Control
  <2>2. CASE /\ snapFile' = Written(snapFile, snapper.seq, snapper.data)
             /\ man'.snap = snapper.seq
    <3>1. snapFile'[man'.snap] = snapper.data
      BY <2>2 DEF Written
    <3> QED
      BY <1>2, <1>5, <2>1, <2>2, <3>1
  <2>3. CASE UNCHANGED man
    BY <1>2, <2>1, <2>3
  <2> QED
    BY <1>13, <2>2, <2>3 DEF InitialCommit
<1> QED
  BY <1>7, <1>8, <1>9, <1>10, <1>11, <1>12, <1>13 DEF Actor

\* The same over every step: the snapshot thread writes what is in memory up to its number, and a
\* restart numbers on above everything a snapshot covers.
LEMMA FreshNext ==
    ASSUME IInv, Fresh, [Next]_vars
    PROVE  Fresh'
<1> USE DEF plane, actor, disk, history
<1>1. /\ Current \in Nat /\ man.snap \in 0..Current /\ snapper.seq \in Nat
      /\ (snapper.st # "none" => snapper.seq \in 1..Current) /\ SnapperType
      /\ mem \in [Keys -> Nat] /\ (\A k \in Keys : mem[k] <= Current)
      /\ undone \in [Keys -> Nat]
  BY NumbersIs, TypeParts DEF IInv, TypeOK, Issued
<1>2. CASE Client
  <2>1. /\ snapper'.st = snapper.st /\ snapper'.seq = snapper.seq /\ snapper'.data = snapper.data
        /\ UNCHANGED <<pc, man, snapFile>>
    BY <1>1, <1>2, ClientSteps DEF SnapperType, Snapper
  <2>2. CASE deleting' # {}
    BY <2>2 DEF Fresh
  <2>3. CASE Current' > Current /\ Current' \in Nat
    BY <1>1, <2>1, <2>3 DEF Fresh
  <2>4. CASE /\ UNCHANGED <<log, deleting>>
             /\ \A k \in Keys : \/ mem'[k] = mem[k] /\ undone'[k] = undone[k]
                                \/ undone'[k] = Current
    <3>1. Current' = Current
      BY <2>4 DEF Current
    <3>2. \A k \in Keys : undone'[k] < Current' => mem'[k] = mem[k] /\ undone'[k] = undone[k]
      BY <1>1, <2>4, <3>1
    <3> QED
      BY <2>1, <2>4, <3>1, <3>2 DEF Fresh
  <2> QED
    BY <1>2, <2>2, <2>3, <2>4, ClientSteps
<1>3. CASE WriteSnapshotFile
  <2>1. UNCHANGED <<mem, log, deleting, undone, pc, man, snapFile>> /\ snapper.st = "running"
    BY <1>3 DEF WriteSnapshotFile
  <2>2. CASE snapper' = [snapper EXCEPT !.st = "done",
                            !.data = [k \in Keys |-> IF mem[k] <= snapper.seq THEN mem[k] ELSE 0]]
    <3>1. /\ snapper'.seq = snapper.seq
          /\ snapper'.data = [k \in Keys |-> IF mem[k] <= snapper.seq THEN mem[k] ELSE 0]
      BY <1>1, <2>2 DEF SnapperType, Snapper
    <3>2. Current <= snapper.seq => \A k \in Keys : snapper'.data[k] = mem[k]
      BY <1>1, <3>1
    <3> QED
      BY <2>1, <3>1, <3>2 DEF Fresh, Current
  <2>3. CASE snapper' = [snapper EXCEPT !.st = "failed"]
    <3>1. snapper'.st = "failed"
      BY <1>1, <2>3 DEF SnapperType, Snapper
    <3> QED
      BY <2>1, <3>1 DEF Fresh, Current
  <2> QED
    BY <1>3, <2>2, <2>3 DEF WriteSnapshotFile
<1>4. CASE Crash
  BY <1>4 DEF Crash, Fresh
<1>5. CASE Recovery
  <2>1. pc = "down" /\ UNCHANGED snapper /\ snapper.st = "none"
    BY <1>5 DEF Recovery, RestartEmpty, Restart, RestartAfterGap, IInv, Control, Idle
  <2>2. CASE man.snap = 0
    <3>1. man'.snap = 0
      BY <1>5, <2>2 DEF Recovery, RestartEmpty, Restart, RestartAfterGap
    <3> QED
      BY <2>1, <3>1 DEF Fresh
  <2>3. CASE man.snap # 0
    <3>1. man'.snap = man.snap /\ Restored
      BY <1>5, <2>3, DiskParts DEF Recovery, RestartEmpty, Restart, RestartAfterGap, IInv, TypeOK
    <3>2. Current' = PlanNext /\ PlanNext \in Nat /\ PlanNext >= MaxSeen + 1 /\ MaxSeen \in Nat
          /\ man.snap <= MaxSeen
      BY <2>3, <3>1, RestoredIs, PlanIs
    <3> QED
      BY <1>1, <2>1, <3>1, <3>2 DEF Fresh
  <2> QED
    BY <2>2, <2>3
<1>6. CASE UNCHANGED vars
  BY <1>6 DEF vars, Fresh, Current
<1> QED
  BY <1>2, <1>3, <1>4, <1>5, <1>6, FreshActor DEF Next

\* A failure counts, and disturbs a shutdown under way.
LEMMA FailsCounts ==
    ASSUME TypeOK, NEW point, Fails(point)
    PROVE  fails' # 0 /\ (exiting => spoiled')
BY DEF TypeOK, Fails

\* The names in a list are those of segments.
Named(segs) == \A i \in 1..Len(segs) : segs[i] # 0

\* A new segment and the manifest after it: the names stay real ones.
LEMMA NewSegmentNamed ==
    ASSUME IInv, man.snap # 0, Named(man.segs),
           NewSegment(KeptSegments(man.segs, man.snap))
    PROVE  Named(man'.segs) /\ wal' # 0 /\ man'.snap = man.snap
<1> DEFINE keep == KeptSegments(man.segs, man.snap)
<1>1. man.segs \in Seq(Nat) /\ man.segs # <<>> /\ man.snap \in Nat
  BY KeptType DEF IInv, TypeOK
<1>2. PICK d \in 0..(Len(man.segs) - 1) :
         /\ keep \in Seq(Nat) /\ Len(keep) = Len(man.segs) - d
         /\ \A i \in 1..(Len(man.segs) - d) : keep[i] = man.segs[d + i] /\ d + i \in 1..Len(man.segs)
  BY <1>1, KeptIs
<1> HIDE DEF keep
<1>3. \A i \in 1..Len(keep) : keep[i] # 0
  BY <1>2 DEF Named
<1>4. NewBase \in Nat /\ NewBase # 0
  <2>1. lastBase \in Nat /\ Current \in Nat
    BY NumbersIs DEF IInv, TypeOK
  <2> QED
    BY <2>1 DEF NewBase, Larger
<1>5. man'.segs = Append(keep, NewBase) /\ man'.snap = man.snap /\ wal' = NewBase
  BY DEF NewSegment, keep
<1>6. Named(Append(keep, NewBase))
  BY <1>2, <1>3, <1>4 DEF Named
<1> QED
  BY <1>4, <1>5, <1>6

\* No failure, no loss of the segment: over the steps of the actor.
LEMMA UnfailedActor ==
    ASSUME IInv, Unfailed, Actor
    PROVE  Unfailed'
<1> USE DEF plane, actor, disk, history
<1>1. /\ Named(man.segs) /\ fails \in Nat /\ SnapperType /\ pc # "down"
      /\ (fails = 0 => snapper.st # "failed" /\ (man.snap # 0 => wal # 0))
      /\ Idle.st = "none" /\ \A n \in Nat : [Idle EXCEPT !.st = "running", !.seq = n].st = "running"
      /\ \A n \in Nat : [Idle EXCEPT !.st = "running", !.seq = n, !.current = TRUE].st = "running"
      /\ [snapper EXCEPT !.current = FALSE].st = snapper.st
  <2>1. pc # "down"
    BY DEF Actor, WaitTimeout, Shutdown, Message, SnapshotFailed, SnapshotStale, SnapshotDone,
       RenameSnapshot, WriteR2, UnlinkOld, TakeBatch, InitialCompact, InitialCommit,
       InitialSnapshotFailed, RotateForAppend, AppendNowhere, AppendBatch, SyncBatch,
       ResyncAfterFailure, Decide, DecideThreshold, DrainMore, DrainEnd, StartRefused,
       StartNotNeeded, StartCompaction, PumpDone, PumpTimeout, FinalManifest
  <2>2. fails \in Nat /\ SnapperType
    BY TypeParts DEF IInv, TypeOK
  <2>3. [snapper EXCEPT !.current = FALSE].st = snapper.st
    BY <2>2 DEF SnapperType
  <2> QED
    BY <2>1, <2>2, <2>3 DEF Unfailed, Named, Idle
<1> SUFFICES /\ Named(man'.segs)
             /\ fails' = 0 => snapper'.st # "failed" /\ (man'.snap # 0 => wal' # 0)
  BY DEF Unfailed, Named
<1>2. ASSUME UNCHANGED <<man, wal>> \/ (man'.segs = man.segs /\ man'.snap = man.snap /\ UNCHANGED wal),
             fails' = 0 => fails = 0 /\ (UNCHANGED snapper \/ snapper'.st # "failed")
      PROVE  /\ Named(man'.segs)
             /\ fails' = 0 => snapper'.st # "failed" /\ (man'.snap # 0 => wal' # 0)
  BY <1>1, <1>2
<1>3. \A point : Fails(point) => fails' # 0
  BY FailsCounts DEF IInv
<1>4. CASE WaitTimeout \/ Shutdown \/ TakeBatch \/ AppendNowhere \/ Decide \/ DecideThreshold
           \/ DrainMore \/ DrainEnd \/ StartRefused \/ StartNotNeeded \/ PumpDone \/ PumpTimeout
           \/ UnlinkOld
  <2>1. UNCHANGED <<man, wal, snapper, fails>>
    BY <1>4 DEF WaitTimeout, Shutdown, TakeBatch, AppendNowhere, Decide,
       DecideThreshold, DrainMore, DrainEnd, StartRefused, StartNotNeeded, PumpDone, PumpTimeout,
       UnlinkOld
  <2> QED
    BY <1>2, <2>1
<1>5. CASE Message \/ InitialCompact \/ InitialSnapshotFailed
  <2>1. UNCHANGED <<man, wal, fails>>
    BY <1>5 DEF Message, SnapshotFailed, SnapshotStale, SnapshotDone, InitialCompact,
       InitialSnapshotFailed
  <2>2. snapper' = [snapper EXCEPT !.current = FALSE] \/ snapper'.st # "failed"
    BY <1>1, <1>5, NumbersIs DEF Message, SnapshotFailed, SnapshotStale, SnapshotDone, InitialCompact,
       InitialSnapshotFailed
  <2> QED
    BY <1>1, <1>2, <2>1, <2>2
<1>6. CASE RenameSnapshot \/ AppendBatch \/ SyncBatch
  <2>1. UNCHANGED <<man, wal>> /\ (fails' = 0 => UNCHANGED <<snapper, fails>>)
    BY <1>3, <1>6 DEF RenameSnapshot, AppendBatch, SyncBatch
  <2> QED
    BY <1>2, <2>1
<1>7. CASE WriteR2
  <2>1. UNCHANGED wal /\ snapper'.st = "none" /\ (fails' = 0 => UNCHANGED fails)
    BY <1>1, <1>3, <1>7 DEF WriteR2
  <2>2. CASE UNCHANGED man
    BY <1>2, <2>1, <2>2
  <2>3. CASE wal # 0 /\ man' = [snap |-> snapper.seq, segs |-> <<wal>>, seq |-> Larger(durSeq, snapper.seq)]
    BY <2>1, <2>3 DEF Named
  <2> QED
    BY <1>7, <2>2, <2>3 DEF WriteR2
<1>8. CASE InitialCommit
  <2>1. snapper'.st = "none" /\ man.snap = 0
    BY <1>1, <1>8 DEF InitialCommit, IInv, Control
  <2>2. CASE man' = [snap |-> snapper.seq, segs |-> <<snapper.seq + 1>>, seq |-> snapper.seq]
             /\ wal' = snapper.seq + 1
    BY <2>1, <2>2, NumbersIs DEF Named
  <2>3. CASE UNCHANGED man
    BY <1>1, <2>1, <2>3
  <2> QED
    BY <1>8, <2>2, <2>3 DEF InitialCommit
<1>9. CASE FinalManifest
  <2>1. man'.segs = man.segs /\ man'.snap = man.snap /\ UNCHANGED <<wal, snapper>>
    BY <1>9 DEF FinalManifest, IInv, TypeOK
  <2>2. fails' = 0 => fails = 0
    BY <1>3, <1>9 DEF FinalManifest
  <2> QED
    BY <1>2, <2>1, <2>2
<1>10. CASE RotateForAppend \/ ResyncAfterFailure \/ StartCompaction
  <2>1. /\ \/ UNCHANGED <<man, wal>>
           \/ man.snap # 0 /\ NewSegment(KeptSegments(man.segs, man.snap))
        /\ fails' = 0 => fails = 0
        /\ UNCHANGED snapper \/ snapper'.st = "running"
    BY <1>1, <1>3, <1>10, NumbersIs DEF RotateForAppend, ResyncAfterFailure, StartCompaction, NoNewSegment,
       IInv, Control
  <2>2. CASE UNCHANGED <<man, wal>>
    BY <1>1, <2>1, <2>2
  <2>3. CASE man.snap # 0 /\ NewSegment(KeptSegments(man.segs, man.snap))
    BY <1>1, <2>1, <2>3, NewSegmentNamed
  <2> QED
    BY <2>1, <2>2, <2>3
<1> QED
  BY <1>4, <1>5, <1>6, <1>7, <1>8, <1>9, <1>10 DEF Actor

\* The same over every step; a restart goes on with the last segment or creates one.
LEMMA UnfailedNext ==
    ASSUME IInv, Unfailed, [Next]_vars
    PROVE  Unfailed'
<1> USE DEF plane, actor, disk, history
<1>1. /\ Named(man.segs) /\ fails \in Nat /\ SnapperType
      /\ man.segs \in Seq(Nat) /\ man \in [snap : Nat, segs : Seq(Nat), seq : Nat]
  BY TypeParts, DiskParts DEF Unfailed, Named, IInv, TypeOK
<1>2. CASE Client
  <2>1. snapper'.st = snapper.st /\ UNCHANGED <<man, wal, fails, pc>>
    BY <1>1, <1>2, ClientSteps DEF SnapperType, Snapper
  <2> QED
    BY <2>1 DEF Unfailed
<1>3. CASE WriteSnapshotFile
  <2>1. UNCHANGED <<man, wal, pc>> /\ (fails' = 0 => fails = 0 /\ snapper'.st = "done")
    BY <1>1, <1>3, FailsCounts DEF WriteSnapshotFile, IInv, SnapperType
  <2> QED
    BY <2>1 DEF Unfailed
<1>4. CASE Crash
  BY <1>4 DEF Crash, Unfailed, Idle
<1>5. CASE RestartEmpty
  <2>1. UNCHANGED <<man, fails, snapper>> /\ man.snap = 0
    BY <1>5 DEF RestartEmpty
  <2> QED
    BY <2>1 DEF Unfailed
<1>6. CASE Restart
  <2>1. man.segs # <<>>
    BY <1>6 DEF Restart, IInv, Segments
  <2>2. UNCHANGED <<man, snapper>> /\ (fails' = 0 => fails = 0 /\ wal' = man.segs[Len(man.segs)])
    BY <1>6, FailsCounts DEF Restart, IInv
  <2>3. man.segs[Len(man.segs)] # 0
    BY <1>1, <2>1 DEF Named
  <2> QED
    BY <2>2, <2>3 DEF Unfailed
<1>7. CASE RestartAfterGap
  <2> DEFINE e == ReadEnd(man, segFile)
             kept == SubSeq(man.segs, 1, e - 1)
  <2>1. e \in 1..(Len(man.segs) - 1)
    BY <1>7, ReadIs DEF RestartAfterGap
  <2>2. PlanNext \in Nat /\ PlanNext # 0
    BY <1>7, PlanIs DEF RestartAfterGap
  <2>3. man'.segs = Append(kept, PlanNext) /\ wal' = PlanNext /\ UNCHANGED <<fails, snapper>>
    BY <1>1, <1>7 DEF RestartAfterGap
  <2> HIDE DEF e
  <2>4. kept \in Seq(Nat) /\ Len(kept) = e - 1 /\ \A i \in 1..(e - 1) : kept[i] = man.segs[i]
    BY <1>1, <2>1
  <2>5. \A i \in 1..(e - 1) : kept[i] # 0
    BY <1>1, <2>1, <2>4 DEF Named
  <2> HIDE DEF kept
  <2>6. Named(man'.segs)
    BY <2>1, <2>2, <2>3, <2>4, <2>5 DEF Named
  <2> QED
    BY <2>2, <2>3, <2>6 DEF Unfailed, Named
<1>8. CASE UNCHANGED vars
  BY <1>8 DEF vars, Unfailed
<1> QED
  BY <1>2, <1>3, <1>4, <1>5, <1>6, <1>7, <1>8, UnfailedActor DEF Next, Recovery

\* What no step of the actor does: touch the memory, forget a failure, fail during a shutdown
\* without spoiling it.
LEMMA ActorUp ==
    ASSUME TypeOK, Actor
    PROVE  /\ pc # "down" /\ UNCHANGED <<mem, log, deleting>>
           /\ fails' = 0 => fails = 0
           /\ exiting /\ ~spoiled' => ~spoiled /\ \A point : ~Fails(point)
           /\ UNCHANGED <<exiting, exitSeq>> \/ Shutdown
<1> USE DEF plane, actor, disk, history
<1>1. pc # "down" /\ UNCHANGED <<mem, log, deleting>> /\ (UNCHANGED <<exiting, exitSeq>> \/ Shutdown)
  BY DEF Actor, WaitTimeout, Shutdown, Message, SnapshotFailed, SnapshotStale, SnapshotDone,
     RenameSnapshot, WriteR2, UnlinkOld, TakeBatch, InitialCompact, InitialCommit,
     InitialSnapshotFailed, RotateForAppend, AppendNowhere, AppendBatch, SyncBatch,
     ResyncAfterFailure, Decide, DecideThreshold, DrainMore, DrainEnd, StartRefused,
     StartNotNeeded, StartCompaction, PumpDone, PumpTimeout, FinalManifest
<1>2. \/ UNCHANGED <<fails, spoiled>> \/ (UNCHANGED fails /\ spoiled')
      \/ \E point \in AllFailPoints : Fails(point)
  BY DEF Actor, WaitTimeout, Shutdown, Message, SnapshotFailed, SnapshotStale, SnapshotDone,
     RenameSnapshot, WriteR2, UnlinkOld, TakeBatch, InitialCompact, InitialCommit,
     InitialSnapshotFailed, RotateForAppend, AppendNowhere, AppendBatch, SyncBatch,
     ResyncAfterFailure, Decide, DecideThreshold, DrainMore, DrainEnd, StartRefused,
     StartNotNeeded, StartCompaction, PumpDone, PumpTimeout, FinalManifest, NoNewSegment,
     AllFailPoints
<1>3. \A point : Fails(point) => fails' # 0 /\ (exiting => spoiled')
  BY FailsCounts
<1> QED
  BY <1>1, <1>2, <1>3

\* Nothing lost before the first manifest, over the steps of the actor: a batch taken without a
\* manifest leads to the initial compaction, and without a failure that one names a snapshot.
LEMMA UntouchedActor ==
    ASSUME IInv, Staged, Unfailed, Untouched, Actor
    PROVE  Untouched'
<1> USE DEF plane, actor, disk, history, Goto, GotoIn
<1> SUFFICES ASSUME fails' = 0, man'.snap = 0, exiting' => Current' = exitSeq'
             PROVE  /\ ~inflight'
                    /\ pc' \in {"initial", "commit"} \/ ~snapReq'
                    /\ pc' \in {"initial", "commit"} \/ snapper'.st = "none"
                    /\ needsResync' => ring' # <<>>
                    /\ \/ pc' \in {"initial", "commit"} \/ Blank'
                       \/ ring' # <<>> /\ (exiting' => pc' = "take")
                    /\ pc' \notin {"append", "sync", "resync", "rotate", "rename", "r2", "unlink"}
                    /\ phase' # "compact"
  BY DEF Untouched
<1>1. /\ fails = 0 /\ pc # "down" /\ UNCHANGED <<mem, fresh, Current>>
      /\ UNCHANGED <<exiting, exitSeq>> \/ Shutdown
  BY ActorUp, ActorPlane DEF IInv, Current
<1>2. man.snap = 0
  <2>1. CASE WaitTimeout \/ Shutdown \/ Message \/ RenameSnapshot \/ UnlinkOld \/ TakeBatch
             \/ InitialCompact \/ InitialSnapshotFailed \/ AppendNowhere \/ AppendBatch \/ SyncBatch
             \/ Decide \/ DecideThreshold \/ DrainMore \/ DrainEnd \/ StartRefused \/ StartNotNeeded
             \/ PumpDone \/ PumpTimeout
    <3>1. UNCHANGED man
      BY <2>1 DEF WaitTimeout, Shutdown, Message, SnapshotFailed, SnapshotStale, SnapshotDone,
         RenameSnapshot, UnlinkOld, TakeBatch, InitialCompact, InitialSnapshotFailed, AppendNowhere,
         AppendBatch, SyncBatch, Decide, DecideThreshold, DrainMore, DrainEnd, StartRefused,
         StartNotNeeded, PumpDone, PumpTimeout
    <3> QED
      BY <3>1
  <2>2. CASE RotateForAppend \/ ResyncAfterFailure \/ StartCompaction
    <3>1. UNCHANGED man \/ man'.snap = man.snap
      BY <2>2 DEF RotateForAppend, ResyncAfterFailure, StartCompaction, NoNewSegment, NewSegment
    <3> QED
      BY <3>1
  <2>3. CASE FinalManifest
    BY <2>3 DEF FinalManifest, IInv, TypeOK
  <2>4. CASE InitialCommit
    BY <2>4 DEF InitialCommit, IInv, Control
  <2>5. CASE WriteR2
    <3>1. man' = man \/ man'.snap = snapper.seq
      BY <2>5 DEF WriteR2
    <3>2. snapper.seq # 0
      BY <2>5, NumbersIs DEF WriteR2, IInv, Control
    <3> QED
      BY <3>1, <3>2
  <2> QED
    BY <2>1, <2>2, <2>3, <2>4, <2>5 DEF Actor
<1>3. exiting => Current = exitSeq
  BY <1>1 DEF Staged, Shutdown
<1>4. /\ ~inflight
      /\ pc \in {"initial", "commit"} \/ ~snapReq
      /\ pc \in {"initial", "commit"} \/ snapper.st = "none"
      /\ needsResync => ring # <<>>
      /\ pc \in {"initial", "commit"} \/ Blank \/ (ring # <<>> /\ (exiting => pc = "take"))
      /\ pc \notin {"append", "sync", "resync", "rotate", "rename", "r2", "unlink"}
      /\ phase # "compact"
  BY <1>1, <1>2, <1>3 DEF Untouched
<1>5. UNCHANGED ring => UNCHANGED Blank
  BY <1>1 DEF Blank
<1>6. CASE WaitTimeout \/ Shutdown
  BY <1>4, <1>5, <1>6 DEF WaitTimeout, Shutdown, Staged
<1>7. CASE Message \/ RenameSnapshot \/ WriteR2 \/ UnlinkOld
  BY <1>4, <1>7 DEF Message, SnapshotFailed, SnapshotStale, SnapshotDone, RenameSnapshot, WriteR2,
     UnlinkOld
<1>8. CASE TakeBatch
  <2>1. needsInitial /\ ring \in Seq(Nat) /\ BatchMax \in Nat \ {0}
    BY <1>1, <1>2, RingAssumption DEF IInv, Control, TypeOK
  <2>2. CASE ring = <<>>
    <3>1. Taken = 0
      BY <2>1, <2>2 DEF Taken
    <3>2. ring' = SubSeq(ring, 1, Len(ring)) /\ pc' = "decide"
      BY <1>8, <2>2, <3>1 DEF TakeBatch, Taken
    <3>3. ring' = ring
      BY <2>1, <3>2
    <3> QED
      BY <1>4, <1>5, <1>8, <2>2, <3>2, <3>3 DEF TakeBatch
  <2>3. CASE ring # <<>>
    <3>1. Taken \in Nat /\ Taken > 0
      BY <2>1, <2>3 DEF Taken
    <3>2. pc' = "initial"
      BY <1>8, <2>1, <3>1 DEF TakeBatch, Taken
    <3> QED
      BY <1>4, <1>8, <3>2 DEF TakeBatch
  <2> QED
    BY <2>2, <2>3
<1>9. CASE InitialCompact
  BY <1>4, <1>9 DEF InitialCompact
<1>10. CASE InitialCommit
  <2>1. \A point : ~Fails(point)
    BY FailsCounts DEF IInv
  <2>2. man'.snap = snapper.seq /\ snapper.st # "none"
    BY <1>10, <2>1 DEF InitialCommit
  <2> QED
    BY <2>2, NumbersIs
<1>11. CASE InitialSnapshotFailed
  BY <1>1, <1>11 DEF InitialSnapshotFailed, Unfailed
<1>12. CASE RotateForAppend \/ AppendNowhere \/ AppendBatch \/ SyncBatch \/ ResyncAfterFailure
  BY <1>4, <1>12 DEF RotateForAppend, AppendNowhere, AppendBatch, SyncBatch, ResyncAfterFailure
<1>13. CASE Decide \/ DecideThreshold
  BY <1>2, <1>4, <1>5, <1>13 DEF Decide, DecideThreshold, AfterCompaction
<1>14. CASE DrainMore
  BY <1>4, <1>14 DEF DrainMore, Staged, Blank, IInv, TypeOK, Phases
<1>15. CASE DrainEnd
  BY <1>4, <1>5, <1>15 DEF DrainEnd, AfterDrain
<1>16. CASE StartRefused \/ StartNotNeeded \/ StartCompaction
  BY <1>2, <1>4, <1>5, <1>16 DEF StartRefused, StartNotNeeded, StartCompaction, AfterRefusal
<1>17. CASE PumpDone \/ PumpTimeout
  BY <1>4, <1>5, <1>17 DEF PumpDone, PumpTimeout, AfterPump
<1>18. CASE FinalManifest
  BY <1>4, <1>5, <1>18 DEF FinalManifest
<1> QED
  BY <1>6, <1>7, <1>8, <1>9, <1>10, <1>11, <1>12, <1>13, <1>14, <1>15, <1>16, <1>17, <1>18 DEF Actor

\* The same over every step.
LEMMA UntouchedNext ==
    ASSUME IInv, Staged, Unfailed, Untouched, [Next]_vars
    PROVE  Untouched'
<1> USE DEF plane, actor, disk, history
<1>1. SnapperType /\ Current \in Nat /\ exitSeq \in Nat /\ mem \in [Keys -> Nat]
  BY TypeParts, NumbersIs DEF IInv, TypeOK
<1>2. CASE Client
  <2> SUFFICES ASSUME fails' = 0, man'.snap = 0, exiting' => Current' = exitSeq'
               PROVE  /\ ~inflight'
                      /\ pc' \in {"initial", "commit"} \/ ~snapReq'
                      /\ pc' \in {"initial", "commit"} \/ snapper'.st = "none"
                      /\ needsResync' => ring' # <<>>
                      /\ \/ pc' \in {"initial", "commit"} \/ Blank'
                         \/ ring' # <<>> /\ (exiting' => pc' = "take")
                      /\ pc' \notin {"append", "sync", "resync", "rotate", "rename", "r2", "unlink"}
                      /\ phase' # "compact"
    BY DEF Untouched
  <2>1. /\ UNCHANGED <<snapReq, pc, phase, inflight, exiting, man, exitSeq, fails>>
        /\ pc # "down" /\ Current' \in Nat /\ Current' >= Current
    BY <1>2, ClientSteps
  <2>2. exiting => Current = exitSeq
    BY <1>1, <2>1 DEF Staged
  <2>3. /\ ~inflight
        /\ pc \in {"initial", "commit"} \/ ~snapReq
        /\ pc \in {"initial", "commit"} \/ snapper.st = "none"
        /\ needsResync => ring # <<>>
        /\ pc \in {"initial", "commit"} \/ Blank \/ (ring # <<>> /\ (exiting => pc = "take"))
        /\ pc \notin {"append", "sync", "resync", "rotate", "rename", "r2", "unlink"}
        /\ phase # "compact"
    BY <2>1, <2>2 DEF Untouched
  <2>4. CASE /\ UNCHANGED <<log, ring, needsResync>>
             /\ snapper' = [snapper EXCEPT !.current = FALSE]
             /\ mem' \in [Keys -> Nat] /\ \A k \in Keys : mem'[k] \in {0, fresh[k]}
             /\ fresh' = Zeros
    <3>1. fresh = Zeros => mem' = Zeros
      BY <2>4 DEF Zeros
    <3>2. Blank => Blank'
      BY <2>4, <3>1 DEF Blank, Current, Zeros
    <3>3. snapper'.st = snapper.st
      BY <1>1, <2>4 DEF SnapperType, Snapper
    <3> QED
      BY <2>1, <2>3, <2>4, <3>2, <3>3
  <2>5. CASE /\ UNCHANGED <<log, ring, needsResync, snapper, fresh>>
             /\ mem' \in [Keys -> Nat] /\ \A k \in Keys : mem'[k] \in {0, mem[k]}
    <3>1. mem = Zeros => mem' = Zeros
      BY <2>5 DEF Zeros
    <3>2. Blank => Blank'
      BY <2>5, <3>1 DEF Blank, Current, Zeros
    <3> QED
      BY <2>1, <2>3, <2>5, <3>2
  <2>7. CASE /\ UNCHANGED <<mem, log, ring, needsResync, snapper>>
             /\ \E k \in Keys : mem[k] # 0
    <3>1. ~Blank
      BY <2>7 DEF Blank, Zeros
    <3> QED
      BY <2>1, <2>3, <2>7, <3>1
  <2>6. CASE Current' > Current /\ ring' # <<>> /\ UNCHANGED snapper
    <3>1. ~exiting
      BY <1>1, <2>1, <2>2, <2>6
    <3> QED
      BY <2>1, <2>3, <2>6, <3>1
  <2> QED
    BY <1>2, <2>4, <2>5, <2>6, <2>7, ClientSteps
<1>3. CASE WriteSnapshotFile
  <2>1. snapper.st = "running" /\ UNCHANGED <<plane, actor, man, exitSeq>> /\ (fails' = 0 => fails = 0)
    BY <1>3, FailsCounts DEF WriteSnapshotFile, IInv
  <2> QED
    BY <2>1 DEF Untouched, Blank, Current
<1>4. CASE Crash
  BY <1>4 DEF Crash, Untouched
<1>5. CASE RestartEmpty
  <2>1. /\ UNCHANGED <<mem, fresh, ring, needsResync, snapReq, phase, inflight, exiting, snapper>>
        /\ pc = "down" /\ pc' = "wait" /\ log' = <<Hole>>
    BY <1>5 DEF RestartEmpty
  <2>2. /\ mem = Zeros /\ fresh = Zeros /\ ring = <<>> /\ snapper.st = "none"
        /\ phase = "tick" /\ ~snapReq /\ ~needsResync /\ ~inflight
    BY <2>1 DEF Staged, IInv, Control, Idle, Zeros
  <2>3. Blank'
    BY <2>1, <2>2 DEF Blank, Current, Zeros
  <2> QED
    BY <2>1, <2>2, <2>3 DEF Untouched
<1>6. CASE Restart \/ RestartAfterGap
  <2>1. man.snap # 0 /\ man'.snap = man.snap
    BY <1>6 DEF Restart, RestartAfterGap, IInv, TypeOK
  <2> QED
    BY <2>1 DEF Untouched
<1>7. CASE UNCHANGED vars
  BY <1>7 DEF vars, Untouched, Blank, Current
<1> QED
  BY <1>2, <1>3, <1>4, <1>5, <1>6, <1>7, UntouchedActor DEF Next, Recovery

\* An undisturbed shutdown saves the last number, over the steps of the actor, one by one.
LEMMA ClosingActor ==
    ASSUME IInv, Staged, Unfailed, Closing, Actor
    PROVE  Closing'
<1> USE DEF plane, actor, disk, history, Goto, GotoIn
<1> DEFINE Aiming == snapper.current /\ snapper.seq >= Current /\ snapper.st \in {"running", "done"}
           Still == UNCHANGED <<man, wal, inflight, exiting, exitSeq, snapper, fails, spoiled>>
<1>1. /\ pc # "down" /\ UNCHANGED <<mem, Current>> /\ SnapperType
      /\ phase \in Phases /\ Current \in Nat
      /\ UNCHANGED <<exiting, exitSeq>> \/ Shutdown
      /\ exiting /\ ~spoiled' => ~spoiled /\ \A point : ~Fails(point)
  BY ActorUp, NumbersIs, TypeParts DEF IInv, Current, TypeOK
<1>2. /\ snapper.current => inflight
      /\ pc \in {"rename", "r2", "unlink"} => ~inflight
  BY DEF Closing
<1>3. /\ snapper'.current => inflight'
      /\ pc' \in {"rename", "r2", "unlink"} => ~inflight'
  <2>1. CASE WaitTimeout \/ Shutdown \/ TakeBatch \/ AppendNowhere \/ AppendBatch \/ SyncBatch
             \/ RotateForAppend \/ ResyncAfterFailure \/ Decide \/ DecideThreshold \/ DrainMore
             \/ DrainEnd \/ StartRefused \/ StartNotNeeded \/ PumpDone \/ PumpTimeout \/ FinalManifest
    <3>1. UNCHANGED <<snapper, inflight>> /\ pc' \notin {"rename", "r2", "unlink"}
      BY <2>1 DEF WaitTimeout, Shutdown, TakeBatch, AppendNowhere, AppendBatch, SyncBatch,
         RotateForAppend, ResyncAfterFailure, Decide, DecideThreshold, DrainMore, DrainEnd,
         StartRefused, StartNotNeeded, PumpDone, PumpTimeout, FinalManifest, AfterBatch,
         AfterFailedBatch, AfterDrain, AfterCompaction, AfterRefusal, AfterStart, AfterPump
    <3> QED
      BY <1>2, <3>1
  <2>2. CASE Message
    <3>1. ~inflight' /\ (snapper' = Idle \/ snapper' = [snapper EXCEPT !.current = FALSE])
      BY <2>2 DEF Message, SnapshotFailed, SnapshotStale, SnapshotDone
    <3>2. ~snapper'.current
      BY <1>1, <3>1 DEF SnapperType, Idle
    <3> QED
      BY <3>1, <3>2
  <2>3. CASE RenameSnapshot \/ WriteR2 \/ UnlinkOld
    <3>1. UNCHANGED inflight /\ pc \in {"rename", "r2", "unlink"} /\ (UNCHANGED snapper \/ snapper' = Idle)
      BY <2>3 DEF RenameSnapshot, WriteR2, UnlinkOld
    <3> QED
      BY <1>2, <3>1 DEF Idle
  <2>4. CASE InitialCompact \/ InitialCommit \/ InitialSnapshotFailed
    <3>1. /\ UNCHANGED inflight /\ pc' \notin {"rename", "r2", "unlink"}
          /\ snapper' = Idle \/ snapper' = [Idle EXCEPT !.st = "running", !.seq = Current]
      BY <2>4 DEF InitialCompact, InitialCommit, InitialSnapshotFailed
    <3>2. ~Idle.current /\ ~[Idle EXCEPT !.st = "running", !.seq = Current].current
      BY DEF Idle
    <3> QED
      BY <3>1, <3>2
  <2>5. CASE StartCompaction
    <3>1. inflight' \/ UNCHANGED <<inflight, snapper>>
      BY <2>5 DEF StartCompaction
    <3>2. pc' \notin {"rename", "r2", "unlink"}
      BY <2>5 DEF StartCompaction, AfterRefusal, AfterStart, AfterCompaction
    <3> QED
      BY <1>2, <3>1, <3>2
  <2> QED
    BY <2>1, <2>2, <2>3, <2>4, <2>5 DEF Actor
<1> SUFFICES ASSUME exiting', ~spoiled', Current' = exitSeq'
             PROVE  /\ pc' # "resync"
                    /\ phase' = "exitSnap" =>
                          /\ pc' = "start" => ~inflight'
                          /\ pc' = "pump" /\ inflight' => Aiming'
                          /\ pc' \in {"rename", "r2"} => snapper'.seq >= Current'
                          /\ pc' = "unlink" \/ (pc' = "pump" /\ ~inflight') => Saved'
                    /\ phase' = "exitTail" => Saved'
  BY <1>3 DEF Closing, Quiet
<1>4. CASE Shutdown
  BY <1>4 DEF Shutdown, Staged
<1>5. CASE ~Shutdown
  <2>1. exiting /\ ~spoiled /\ Current = exitSeq /\ UNCHANGED <<exiting, exitSeq, Current>>
        /\ \A point : ~Fails(point)
    BY <1>1, <1>5
  <2>2. /\ pc # "resync"
        /\ phase = "exitSnap" =>
              /\ pc = "start" => ~inflight
              /\ pc = "pump" /\ inflight => Aiming
              /\ pc \in {"rename", "r2"} => snapper.seq >= Current
              /\ pc = "unlink" \/ (pc = "pump" /\ ~inflight) => Saved
        /\ phase = "exitTail" => Saved
    BY <2>1 DEF Closing, Quiet
  <2>3. man'.snap = man.snap /\ wal' = wal => (Saved => Saved')
    BY <2>1 DEF Saved
  <2>4. CASE WaitTimeout \/ TakeBatch \/ Decide \/ DecideThreshold
    BY <2>1, <2>2, <2>4 DEF WaitTimeout, TakeBatch, Decide, DecideThreshold, AfterCompaction, Staged
  <2>5. CASE InitialCompact \/ InitialCommit \/ InitialSnapshotFailed \/ RotateForAppend
             \/ ResyncAfterFailure
    BY <2>1, <2>2, <2>5 DEF InitialCompact, InitialCommit, InitialSnapshotFailed, RotateForAppend,
       ResyncAfterFailure, Staged, IInv, Control
  <2>6. CASE AppendNowhere \/ AppendBatch \/ SyncBatch \/ DrainMore \/ DrainEnd
    <3>1. UNCHANGED <<man, wal>>
      BY <2>6 DEF AppendNowhere, AppendBatch, SyncBatch, DrainMore, DrainEnd
    <3>2. phase # "exitSnap" /\ pc' # "resync" /\ phase' # "exitSnap"
          /\ (phase' = "exitTail" => phase = "exitTail")
      BY <2>1, <2>6, <1>1 DEF AppendNowhere, AppendBatch, SyncBatch, DrainMore, DrainEnd, AfterBatch,
         AfterFailedBatch, AfterDrain, Staged, Phases
    <3> QED
      BY <2>2, <2>3, <3>1, <3>2
  <2>7. CASE Message
    <3>1. UNCHANGED <<man, wal, phase>> /\ ~inflight' /\ pc = "pump" /\ pc' \in {"pump", "rename", "take"}
      BY <2>1, <2>7 DEF Message, SnapshotFailed, SnapshotStale, SnapshotDone, AfterMessage, Staged
    <3>2. phase # "exitTail"
      BY <3>1 DEF Staged
    <3>3. ASSUME phase = "exitSnap"
          PROVE  (pc' = "pump" => Saved) /\ (pc' = "rename" => snapper'.seq >= Current)
      <4>1. pc' = "pump" => ~inflight
        BY <2>2, <2>7, <3>1, <3>3 DEF Message, SnapshotFailed, SnapshotStale, SnapshotDone
      <4>2. pc' = "rename" => snapper.current /\ snapper' = [snapper EXCEPT !.current = FALSE]
        BY <2>7, <3>1, <3>3 DEF Message, SnapshotFailed, SnapshotStale, SnapshotDone, AfterMessage
      <4>3. [snapper EXCEPT !.current = FALSE].seq = snapper.seq
        BY <1>1 DEF SnapperType
      <4> QED
        BY <1>2, <2>2, <3>1, <3>3, <4>1, <4>2, <4>3
    <3> QED
      BY <2>1, <2>3, <3>1, <3>2, <3>3
  <2>8. CASE RenameSnapshot
    <3>1. UNCHANGED <<man, wal, phase, snapper>> /\ pc = "rename" /\ pc' = "r2"
      BY <2>1, <2>8 DEF RenameSnapshot
    <3> QED
      BY <2>1, <2>2, <3>1 DEF Staged
  <2>9. CASE WriteR2
    <3>1. pc = "r2" /\ UNCHANGED <<wal, inflight>>
      BY <2>9 DEF WriteR2
    <3>2. /\ pc' \in {"unlink", "pump", "take"} /\ UNCHANGED phase
          /\ pc' = "pump" => wal = 0
          /\ pc' = "unlink" => man'.snap = snapper.seq
      BY <2>1, <2>9 DEF WriteR2, AfterMessage
    <3> QED
      BY <1>2, <2>1, <2>2, <3>1, <3>2 DEF Staged, Saved
  <2>10. CASE UnlinkOld
    <3>1. pc = "unlink" /\ UNCHANGED <<man, wal, inflight, phase>> /\ pc' \in {"pump", "take"}
      BY <2>10 DEF UnlinkOld, AfterMessage
    <3> QED
      BY <1>2, <2>1, <2>2, <2>3, <3>1 DEF Staged
  <2>11. CASE StartRefused
    <3>1. UNCHANGED <<man, wal>> /\ pc = "start" /\ (inflight \/ man.snap = 0)
      BY <2>11 DEF StartRefused
    <3>2. CASE phase = "compact"
      BY <2>1, <2>11, <3>2 DEF StartRefused, AfterRefusal, AfterCompaction
    <3>3. CASE phase # "compact"
      <4>1. phase = "exitSnap" /\ phase' = "exitTail" /\ pc' = "drain"
        BY <1>1, <2>11, <3>1, <3>3 DEF StartRefused, AfterRefusal, Staged, Phases
      <4> QED
        BY <2>1, <2>2, <2>3, <3>1, <4>1 DEF Saved
    <3> QED
      BY <3>2, <3>3
  <2>12. CASE StartNotNeeded
    <3>1. UNCHANGED <<man, wal, inflight>> /\ pc = "start" /\ ~inflight /\ Current <= man.snap
      BY <2>12 DEF StartNotNeeded
    <3>2. CASE phase = "compact"
      BY <2>1, <2>12, <3>2 DEF StartNotNeeded, AfterStart, AfterCompaction
    <3>3. CASE phase # "compact"
      <4>1. phase = "exitSnap" /\ phase' = "exitSnap" /\ pc' = "pump"
        BY <1>1, <2>12, <3>1, <3>3 DEF StartNotNeeded, AfterStart, Staged, Phases
      <4>2. Saved
        BY <1>1, <3>1, NumbersIs DEF Saved
      <4> QED
        BY <2>1, <2>3, <3>1, <4>1, <4>2
    <3> QED
      BY <3>2, <3>3
  <2>13. CASE StartCompaction
    <3>1. /\ inflight' = TRUE /\ AfterStart
          /\ snapper' = [Idle EXCEPT !.st = "running", !.seq = Current, !.current = TRUE]
      BY <2>1, <2>13 DEF StartCompaction, NoNewSegment
    <3>2. pc' # "start" /\ pc' # "unlink" /\ pc' \notin {"rename", "r2", "resync"} /\ phase' # "exitTail"
      BY <1>1, <2>1, <2>13, <3>1 DEF StartCompaction, AfterStart, AfterCompaction, Staged, Phases
    <3>3. Aiming'
      BY <1>1, <2>1, <3>1 DEF Idle
    <3> HIDE DEF Aiming
    <3> QED
      BY <2>1, <3>1, <3>2, <3>3
  <2>14. CASE PumpDone
    <3>1. UNCHANGED <<man, wal, inflight>> /\ pc = "pump" /\ ~inflight
      BY <2>14 DEF PumpDone
    <3>2. \/ phase = "exitWait" /\ pc' = "start" /\ phase' = "exitSnap"
          \/ phase = "exitSnap" /\ pc' = "drain" /\ phase' = "exitTail"
      BY <1>1, <2>14, <3>1 DEF PumpDone, AfterPump, Staged, Phases
    <3> QED
      BY <2>1, <2>2, <2>3, <3>1, <3>2
  <2>15. CASE PumpTimeout
    BY <2>15 DEF PumpTimeout
  <2>16. CASE FinalManifest
    <3>1. man'.snap = man.snap /\ UNCHANGED <<wal, phase>> /\ pc' = "stopped" /\ pc = "final"
      BY <2>16 DEF FinalManifest, IInv, TypeOK
    <3> QED
      BY <2>1, <2>2, <2>3, <3>1 DEF Staged
  <2> QED
    BY <1>5, <2>4, <2>5, <2>6, <2>7, <2>8, <2>9, <2>10, <2>11, <2>12, <2>13, <2>14, <2>15, <2>16 DEF Actor
<1> QED
  BY <1>4, <1>5

\* The same over every step: what the data plane does either spoils the shutdown or moves its number.
LEMMA ClosingNext ==
    ASSUME IInv, Staged, Unfailed, Closing, [Next]_vars
    PROVE  Closing'
<1> USE DEF plane, actor, disk, history
<1>1. SnapperType /\ Current \in Nat /\ exitSeq \in Nat /\ exitSeq <= Current
  BY TypeParts, NumbersIs DEF IInv, TypeOK, Staged
<1>2. CASE Client
  <2>1. /\ UNCHANGED <<pc, phase, wal, inflight, exiting, man, exitSeq>>
        /\ Current' \in Nat /\ Current' >= Current
    BY <1>2, ClientSteps
  <2>2. CASE snapper' = [snapper EXCEPT !.current = FALSE] /\ spoiled' = (spoiled \/ exiting)
    <3>1. ~snapper'.current /\ ~Quiet'
      BY <1>1, <2>1, <2>2 DEF SnapperType, Quiet
    <3> QED
      BY <2>1, <3>1 DEF Closing
  <2>3. CASE UNCHANGED <<log, snapper, spoiled>>
    BY <2>1, <2>3 DEF Closing, Quiet, Saved, Current
  <2>4. CASE Current' > Current /\ UNCHANGED <<snapper, spoiled>>
    <3>1. ~Quiet'
      BY <1>1, <2>1, <2>4 DEF Quiet
    <3> QED
      BY <2>1, <2>4, <3>1 DEF Closing
  <2> QED
    BY <1>2, <2>2, <2>3, <2>4, ClientSteps
<1>3. CASE WriteSnapshotFile
  <2>1. /\ UNCHANGED <<plane, actor, man, exitSeq>>
        /\ snapper'.seq = snapper.seq /\ snapper'.current = snapper.current
        /\ \/ UNCHANGED spoiled /\ snapper'.st = "done"
           \/ exiting => spoiled'
    BY <1>1, <1>3, FailsCounts DEF WriteSnapshotFile, SnapperType, IInv
  <2> QED
    BY <2>1 DEF Closing, Quiet, Saved, Current
<1>4. CASE Crash
  BY <1>4 DEF Crash, Closing, Quiet, Idle
<1>5. CASE Recovery
  <2>1. pc' = "wait" /\ UNCHANGED <<exiting, snapper, inflight>> /\ pc = "down"
    BY <1>5 DEF Recovery, RestartEmpty, Restart, RestartAfterGap
  <2> QED
    BY <2>1 DEF Closing, Quiet, Staged
<1>6. CASE UNCHANGED vars
  BY <1>6 DEF vars, Closing, Quiet, Saved, Current
<1> QED
  BY <1>2, <1>3, <1>4, <1>5, <1>6, ClosingActor DEF Next

\* The start of a new process satisfies the invariant ...
LEMMA SInvInit == Init => SInv
BY NoKeyAssumption DEF Init, SInv, Staged, Fresh, Closing, Quiet, Saved, Unfailed, Untouched, Blank, Zeros,
   Current, Idle, NoManifest

\* ... every step preserves it ...
LEMMA SInvNext == IInv /\ SInv /\ [Next]_vars => SInv'
BY StagedNext, FreshNext, ClosingNext, UnfailedNext, UntouchedNext DEF SInv

\* ... and where the actor has stopped it says what is on disk.
LEMMA SInvSaves == IInv /\ SInv => ShutdownComplete
<1> SUFFICES ASSUME IInv, SInv, pc = "stopped", ~spoiled, Current = exitSeq, deleting = {},
                    fails = 0 \/ (man.snap # 0 /\ wal # 0)
             PROVE  \A k \in Keys : undone[k] < Current => Recovered[k] = mem[k]
  BY DEF ShutdownComplete
<1>1. /\ phase = "exitTail" /\ exiting
      /\ mem \in [Keys -> Nat] /\ man.snap \in Nat /\ Current \in Nat /\ phase \in Phases
  BY NumbersIs DEF SInv, Staged, IInv, TypeOK, Phases
<1>2. Saved
  BY <1>1 DEF SInv, Closing, Quiet
<1>3. CASE man.snap = 0
  <2>1. mem = Zeros
    BY <1>1, <1>3 DEF SInv, Untouched, Blank
  <2> QED
    BY <1>3, <2>1 DEF Recovered, Zeros
<1>4. CASE man.snap # 0
  <2> SUFFICES ASSUME NEW k \in Keys, undone[k] < Current
               PROVE  Recovered[k] = mem[k]
    OBVIOUS
  <2>1. wal # 0 /\ Current <= man.snap
    BY <1>1, <1>2, <1>4 DEF Saved, SInv, Unfailed
  <2>2. snapFile[man.snap][k] = mem[k]
    BY <1>1, <1>4, <2>1 DEF SInv, Fresh
  <2>3. ~\E s \in ReadRecords(man, segFile) : s > man.snap
    BY <1>1, <2>1, ReadIs
  <2> DEFINE newer == {s \in ReadRecords(man, segFile) : s > man.snap}
  <2>4. newer = {}
    BY <2>3
  <2>5. ReplayKey(log, snapFile[man.snap][k], newer, k) = snapFile[man.snap][k]
    <3>1. {s \in newer : Affects(log, s, k)} = {}
      BY <2>4
    <3>2. Largest({}) = 0
      BY LargestBelow
    <3> QED
      BY <3>1, <3>2 DEF ReplayKey
  <2> QED
    BY <1>1, <1>4, <2>2, <2>5 DEF Recovered, Replay
<1> QED
  BY <1>3, <1>4

\* After a shutdown that nothing disturbed, what a restart would recover is exactly the cache in
\* memory, for every key whose entry no policy swap has changed after the last event, whatever
\* failed, was dropped or crashed in the processes and passes before it: for every
\* set of keys, capacity, size of the queue and set of operations that may fail
\* (the exit of actor_main, pump_snapshot and start_compaction of cache_persist.rs).
THEOREM ShutdownSavesAll == Spec => []ShutdownComplete
<1>1. Spec => []SInv
  BY Invariance, SInvInit, SInvNext, PTL DEF Spec
<1> QED
  BY <1>1, Invariance, SInvSaves, PTL
=============================================================================
