------------------------------ MODULE CacheLog ------------------------------
(***************************************************************************)
(* The journal events of the ebpdns cache and the pure functions of the    *)
(* persistence layer over them: coalescing one batch before it is written  *)
(* (cache_persist.rs, coalesce), replaying records over a snapshot         *)
(* (recover.rs, recover_v2) and choosing the WAL segments a rotation must  *)
(* keep (cache_persist.rs, wal_keep_from).                                 *)
(*                                                                         *)
(* Every journal event has a unique sequence number, so an event is named  *)
(* by its number and `log' maps the numbers issued so far to what they     *)
(* say.  A cache entry carries the number of the PUT that wrote it and is  *)
(* named by it; 0 is the absent entry.                                     *)
(***************************************************************************)
EXTENDS Naturals, Sequences, FiniteSets, SequencesExt

CONSTANTS
    Keys,       \* the cache keys
    NoKey       \* the key of an event that has none

ASSUME NoKeyAssumption == NoKey \notin Keys

(***************************************************************************)
(* "late" is an EVICT logged by an explicit delete after another thread    *)
(* had already put the key back (see CachePersist!DeleteLog); the log      *)
(* holds an ordinary EVICT.  "surplus" is a PUT whose entry a restart had  *)
(* no room for; the files still hold it as an ordinary PUT.  "hole" is a   *)
(* number no event has: next_seq skips some after a restart.               *)
(***************************************************************************)
Ops == {"put", "surplus", "evict", "late", "clear", "hole"}
Events == [op : Ops, key : Keys \cup {NoKey}]

Hole == [op |-> "hole", key |-> NoKey]

IsPut(log, s) == log[s].op \in {"put", "surplus"}
IsClear(log, s) == log[s].op = "clear"

\* Event s decides the fate of key k.
Affects(log, s, k) ==
    IsClear(log, s) \/ (log[s].op \in {"put", "surplus", "evict", "late"} /\ log[s].key = k)

\* The larger of two numbers, and the largest of a set of them, 0 if it is empty.
Larger(a, b) == IF a >= b THEN a ELSE b
Largest(S) == CHOOSE m \in S \cup {0} : \A s \in S : m >= s

-----------------------------------------------------------------------------
(* The writer's side *)

\* The numbers coalesce keeps: every CLEAR, and for each key its newest event
\* unless a CLEAR of the batch is newer.
Kept(log, B) ==
    LET lastClear == Largest({s \in B : IsClear(log, s)})
    IN  {s \in B : \/ IsClear(log, s)
                   \/ /\ s > lastClear
                      /\ \A t \in B : (~IsClear(log, t) /\ log[t].key = log[s].key) => t <= s}

\* What is written to the WAL for a batch, in increasing order of number.
Ascending(S) ==
    CHOOSE q \in [1..Cardinality(S) -> S] : \A i, j \in DOMAIN q : i < j => q[i] < q[j]
Coalesce(log, batch) == Ascending(Kept(log, ToSet(batch)))

\* Mutant: a rotation keeps the last segment only.
KeepFromLastOnly(base, S) == IF base = <<>> THEN 1 ELSE Len(base)

\* The index of the first segment a rotation keeps: segment i holds numbers
\* below base[i+1], so it is covered by a snapshot S when base[i+1] <= S.
KeepFrom(base, S) ==
    IF base = <<>> THEN 1
    ELSE CHOOSE i \in 1..Len(base) :
            /\ i = Len(base) \/ base[i + 1] > S
            /\ \A j \in 1..(i - 1) : base[j + 1] <= S

KeptSegments(base, S) == SubSeq(base, KeepFrom(base, S), Len(base))

-----------------------------------------------------------------------------
(* The reader's side *)

\* Mutant: the newest PUT wins, whatever came after it.
ReplayKeyPutsOnly(log, e, R, k) ==
    LET last == Largest({s \in R : IsPut(log, s) /\ log[s].key = k})
    IN  IF last = 0 THEN e ELSE last

\* The entry of key k after replaying the records R (a set of numbers, applied in
\* increasing order) over a snapshot that holds entry e for it (0 for none).
ReplayKey(log, e, R, k) ==
    LET last == Largest({s \in R : Affects(log, s, k)})
    IN  IF last = 0 THEN e
        ELSE IF IsPut(log, last) THEN last
        ELSE 0

\* The cache after replaying the records R newer than snapshot number S.
Replay(log, data, S, R) ==
    [k \in Keys |-> ReplayKey(log, data[k], {s \in R : s > S}, k)]
=============================================================================
