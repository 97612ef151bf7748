-------------------------- MODULE Resolver_proofs --------------------------
(***************************************************************************)
(* Proofs of the safety properties of the three components a question of   *)
(* the resolver goes through: SingleFlight, which merges the calls for one *)
(* key, for every finite set of callers and all sets of keys and entries,  *)
(* Fanout, the fetch of the call that leads, for every finite set of       *)
(* upstreams and all limits, and CachePolicy, the cache they ask and fill, *)
(* for all domains, partitions, sizes, shards and lists of configurations. *)
(*                                                                         *)
(* The inductive invariant IInv of SingleFlight adds to the properties     *)
(* what relates the pointers of the calls to the table: a call is idle     *)
(* exactly when it holds no pointer, the calls that point to an entry of   *)
(* the table asked for its key, a running call holds the permit of its     *)
(* entry, and, as long as nothing was cancelled, an entry whose value is   *)
(* missing is listed.                                                      *)
(*                                                                         *)
(* The inductive invariant FetchInv of Fanout keeps account of the         *)
(* upstreams: who was asked has voted, is in flight, or was aborted by     *)
(* votes that decide; nobody is in flight between two waves; the first two *)
(* waves have no upstream in common.                                       *)
(*                                                                         *)
(* The inductive invariant CacheInv of CachePolicy says of a cache that    *)
(* every entry is where the key reported for it is looked up, and alone    *)
(* with its key there; and of a cache that reload is filling that each     *)
(* live entry of the old one is still to be copied, or is in the new one,  *)
(* or has no room there.                                                   *)
(***************************************************************************)
EXTENDS SingleFlight, Fanout, CachePolicy, FiniteSetTheorems, SequenceTheorems, WellFoundedInduction, TLAPS

Pointers == \A c \in Callers : pc[c] = "idle" <=> ent[c] = NoEntry

OwnKey ==
    \A k \in Keys, c \in Callers :
        (table[k] # NoEntry /\ ent[c] = table[k]) => key[c] = k

RunnerHasPermit ==
    \A c \in Callers :
        pc[c] = "running" => permit[ent[c]] = c /\ cell[ent[c]] = "empty"

DoneWhenLeaving ==
    ~cancelled => \A c \in Callers :
        pc[c] \in {"leaving", "removing"} => cell[ent[c]] = "done"

UnfinishedListed ==
    ~cancelled => \A c \in Callers :
        (pc[c] # "idle" /\ cell[ent[c]] = "empty") => table[key[c]] = ent[c]

IInv ==
    /\ TypeOK /\ Pointers /\ RefsExact
    /\ OwnKey /\ NoOrphan
    /\ RunnerHasPermit /\ DoneWhenLeaving /\ UnfinishedListed

-----------------------------------------------------------------------------
(* The participants of an entry *)

\* The participants of an entry are finitely many.
LEMMA HoldersFinite ==
    ASSUME NEW e
    PROVE  IsFiniteSet(Holders(e)) /\ Cardinality(Holders(e)) \in Nat
<1>1. Holders(e) \in SUBSET Callers
  BY DEF Holders
<1>2. IsFiniteSet(Holders(e))
  BY <1>1, CallersAssumption, FS_Subset
<1> QED
  BY <1>2, FS_CardinalityType

\* An entry no live pointer refers to has no participant.
LEMMA FreeHasNoHolder ==
    ASSUME NEW e, Free(e)
    PROVE  Holders(e) = {}
BY DEF Free, Holders

-----------------------------------------------------------------------------
(* The initial states *)

LEMMA InitIInv == Init => IInv
<1> SUFFICES ASSUME Init PROVE IInv
  OBVIOUS
<1>1. TypeOK
  BY DEF Init, TypeOK, PCs
<1>2. \A e \in Entries : Holders(e) = {}
  BY DEF Init, Holders, Counted
<1>3. RefsExact
  BY <1>2, FS_EmptySet DEF RefsExact, Init
<1>4. Pointers /\ OwnKey /\ NoOrphan
  BY EntriesAssumption DEF Init, Pointers, OwnKey, NoOrphan
<1>5. RunnerHasPermit /\ DoneWhenLeaving /\ UnfinishedListed
  BY DEF Init, RunnerHasPermit, DoneWhenLeaving, UnfinishedListed
<1> QED
  BY <1>1, <1>3, <1>4, <1>5 DEF IInv

\* What a call that is not idle points to is an entry in use, counted exactly.
LEMMA LivePointer ==
    ASSUME IInv, NEW c \in Callers, pc[c] # "idle"
    PROVE  /\ ent[c] \in Entries /\ ~Free(ent[c])
           /\ refs[ent[c]] = Cardinality(Holders(ent[c]))
BY DEF IInv, TypeOK, Pointers, RefsExact, Free

\* A step that changes no count, no set of participants, and brings no free entry into
\* use keeps the counts exact.
LEMMA SameHolders ==
    ASSUME RefsExact, refs' = refs,
           \A x \in Entries : Holders(x)' = Holders(x),
           \A x \in Entries : Free(x) => Free(x)'
    PROVE  RefsExact'
BY DEF RefsExact

-----------------------------------------------------------------------------
(* Every step keeps the invariant: one lemma per action *)

LEMMA FindKeeps ==
    ASSUME IInv, NEW c \in Callers, NEW k \in Keys, Find(c, k)
    PROVE  IInv'
<1> USE DEF IInv, TypeOK
<1>1. TypeOK'
  BY DEF Find, PCs
<1>2. \A d \in Callers : d # c => pc'[d] = pc[d] /\ ent'[d] = ent[d] /\ key'[d] = key[d]
  BY DEF Find
<1>3. pc'[c] = "joining" /\ ent'[c] = table[k] /\ key'[c] = k /\ table[k] # NoEntry
  BY DEF Find
<1>4. UNCHANGED <<table, refs, cell, permit, cancelled>> /\ pc[c] = "idle"
  BY DEF Find
<1>5. RefsExact'
  <2>1. \A x \in Entries : Holders(x)' = Holders(x)
    BY <1>2, <1>3, <1>4 DEF Holders, Counted
  <2>2. \A x \in Entries : Free(x) => Free(x)'
    BY <1>2, <1>3, <1>4 DEF Free
  <2> QED
    BY <2>1, <2>2, <1>4, SameHolders
<1>6. Pointers'
  BY <1>2, <1>3 DEF Pointers
<1>7. OwnKey'
  <2>1. \A j \in Keys : table[j] = table[k] => j = k
    BY <1>3 DEF NoOrphan, OwnKey
  <2> QED
    BY <2>1, <1>2, <1>3, <1>4 DEF OwnKey
<1>8. NoOrphan'
  BY <1>2, <1>3, <1>4 DEF NoOrphan
<1>9. RunnerHasPermit' /\ DoneWhenLeaving' /\ UnfinishedListed'
  BY <1>2, <1>3, <1>4 DEF RunnerHasPermit, DoneWhenLeaving, UnfinishedListed
<1> QED
  BY <1>1, <1>5, <1>6, <1>7, <1>8, <1>9

LEMMA CreateKeeps ==
    ASSUME IInv, NEW c \in Callers, NEW k \in Keys, NEW e \in Entries, Create(c, k, e)
    PROVE  IInv'
<1> USE DEF IInv, TypeOK
<1>1. TypeOK'
  BY DEF Create, PCs
<1>2. \A d \in Callers : d # c => pc'[d] = pc[d] /\ ent'[d] = ent[d] /\ key'[d] = key[d]
  BY DEF Create
<1>3. pc[c] = "idle" /\ pc'[c] = "joining" /\ ent'[c] = e /\ key'[c] = k
  BY DEF Create
<1>4. Free(e) /\ table[k] = NoEntry /\ table' = [table EXCEPT ![k] = e] /\ cancelled' = cancelled
  BY DEF Create
<1>5. \A x \in Entries : x # e => refs'[x] = refs[x] /\ cell'[x] = cell[x] /\ permit'[x] = permit[x]
  BY DEF Create
<1>6. \A d \in Callers : ent[d] # e
  BY <1>4 DEF Free
<1>7. RefsExact'
  <2>1. \A x \in Entries : Holders(x)' = Holders(x)
    BY <1>2, <1>3 DEF Holders, Counted
  <2>2. refs'[e] = 0 /\ Holders(e)' = {}
    BY <2>1, <1>4, FreeHasNoHolder DEF Create
  <2>3. \A x \in Entries : x # e /\ Free(x) => Free(x)'
    BY <1>2, <1>3, <1>4 DEF Free
  <2> QED
    BY <2>1, <2>2, <2>3, <1>5, FS_EmptySet DEF RefsExact
<1>8. Pointers'
  BY <1>2, <1>3, EntriesAssumption DEF Pointers
<1>9. OwnKey'
  BY <1>2, <1>3, <1>4, <1>6 DEF OwnKey, Free
<1>10. NoOrphan'
  BY <1>2, <1>3, <1>4 DEF NoOrphan
<1>11. RunnerHasPermit' /\ DoneWhenLeaving'
  BY <1>2, <1>3, <1>4, <1>5, <1>6 DEF RunnerHasPermit, DoneWhenLeaving, Pointers
<1>12. UnfinishedListed'
  BY <1>2, <1>3, <1>4, <1>5, <1>6 DEF UnfinishedListed, Pointers
<1> QED
  BY <1>1, <1>7, <1>8, <1>9, <1>10, <1>11, <1>12

LEMMA JoinKeeps ==
    ASSUME IInv, NEW c \in Callers, Join(c)
    PROVE  IInv'
<1> USE DEF IInv, TypeOK
<1>0. PICK e \in Entries : e = ent[c]
  BY LivePointer DEF Join
<1>1. ent[c] = e /\ refs[e] = Cardinality(Holders(e)) /\ ~Free(e) /\ pc[c] = "joining"
  BY <1>0, LivePointer DEF Join
<1>2. TypeOK'
  BY <1>1 DEF Join, PCs
<1>3. UNCHANGED <<table, cell, permit, key, ent, cancelled>> /\ pc' = [pc EXCEPT ![c] = "waiting"]
  BY DEF Join
<1>4. RefsExact'
  <2>1. Holders(e)' = Holders(e) \cup {c} /\ c \notin Holders(e)
    BY <1>1, <1>3 DEF Holders, Counted
  <2>2. Cardinality(Holders(e)') = Cardinality(Holders(e)) + 1
    BY <2>1, HoldersFinite, FS_AddElement
  <2>3. refs'[e] = Cardinality(Holders(e)')
    BY <2>2, <1>1 DEF Join
  <2>4. \A x \in Entries : x # e => Holders(x)' = Holders(x) /\ refs'[x] = refs[x]
    BY <1>1, <1>3 DEF Holders, Join
  <2>5. \A x \in Entries : Free(x)' <=> Free(x)
    BY <1>3 DEF Free
  <2> QED
    BY <2>3, <2>4, <2>5 DEF RefsExact
<1>5. Pointers' /\ OwnKey' /\ NoOrphan'
  BY <1>1, <1>3 DEF Pointers, OwnKey, NoOrphan
<1>6. RunnerHasPermit' /\ DoneWhenLeaving' /\ UnfinishedListed'
  BY <1>1, <1>3 DEF RunnerHasPermit, DoneWhenLeaving, UnfinishedListed
<1> QED
  BY <1>2, <1>4, <1>5, <1>6

\* Start, Finish, Follow and Cancel move a participant from one counted place to another.
LEMMA StayCounted ==
    ASSUME IInv, NEW c \in Callers, NEW p \in Counted, pc[c] \in Counted,
           pc' = [pc EXCEPT ![c] = p], UNCHANGED <<table, refs, key, ent>>
    PROVE  RefsExact' /\ Pointers' /\ OwnKey' /\ NoOrphan'
<1> USE DEF IInv, TypeOK
<1>1. \A x \in Entries : Holders(x)' = Holders(x)
  BY DEF Holders
<1>2. \A x \in Entries : Free(x)' <=> Free(x)
  BY DEF Free
<1>3. RefsExact'
  BY <1>1, <1>2, SameHolders
<1>4. Pointers' /\ OwnKey' /\ NoOrphan'
  BY DEF Pointers, OwnKey, NoOrphan, Counted
<1> QED
  BY <1>3, <1>4

LEMMA StartKeeps ==
    ASSUME IInv, NEW c \in Callers, Start(c)
    PROVE  IInv'
<1> USE DEF IInv, TypeOK
<1>1. TypeOK'
  BY DEF Start, PCs
<1>2. RefsExact' /\ Pointers' /\ OwnKey' /\ NoOrphan'
  BY StayCounted DEF Start, Counted
<1>3. RunnerHasPermit'
  BY LivePointer, CallersAssumption DEF Start, RunnerHasPermit
<1>4. DoneWhenLeaving' /\ UnfinishedListed'
  BY DEF Start, DoneWhenLeaving, UnfinishedListed
<1> QED
  BY <1>1, <1>2, <1>3, <1>4

LEMMA FinishKeeps ==
    ASSUME IInv, NEW c \in Callers, Finish(c)
    PROVE  IInv'
<1> USE DEF IInv, TypeOK
<1>1. TypeOK'
  BY DEF Finish, PCs
<1>2. RefsExact' /\ Pointers' /\ OwnKey' /\ NoOrphan'
  BY StayCounted DEF Finish, Counted
<1>3. ent[c] \in Entries
  BY LivePointer DEF Finish
<1>4. RunnerHasPermit'
  BY <1>3, LivePointer DEF Finish, RunnerHasPermit
<1>5. DoneWhenLeaving' /\ UnfinishedListed'
  BY <1>3, LivePointer DEF Finish, DoneWhenLeaving, UnfinishedListed
<1> QED
  BY <1>1, <1>2, <1>4, <1>5

LEMMA FollowKeeps ==
    ASSUME IInv, NEW c \in Callers, Follow(c)
    PROVE  IInv'
<1> USE DEF IInv, TypeOK
<1>1. TypeOK'
  BY DEF Follow, PCs
<1>2. RefsExact' /\ Pointers' /\ OwnKey' /\ NoOrphan'
  BY StayCounted DEF Follow, Counted
<1>3. RunnerHasPermit' /\ DoneWhenLeaving' /\ UnfinishedListed'
  BY DEF Follow, RunnerHasPermit, DoneWhenLeaving, UnfinishedListed
<1> QED
  BY <1>1, <1>2, <1>3

LEMMA CancelKeeps ==
    ASSUME IInv, NEW c \in Callers, Cancel(c)
    PROVE  IInv'
<1> USE DEF IInv, TypeOK
<1>1. TypeOK'
  BY DEF Cancel, PCs
<1>2. RefsExact' /\ Pointers' /\ OwnKey' /\ NoOrphan'
  BY StayCounted DEF Cancel, Counted
<1>3. RunnerHasPermit'
  BY LivePointer DEF Cancel, RunnerHasPermit
<1>4. DoneWhenLeaving' /\ UnfinishedListed'
  BY DEF Cancel, DoneWhenLeaving, UnfinishedListed
<1> QED
  BY <1>1, <1>2, <1>3, <1>4

LEMMA LeaveKeeps ==
    ASSUME IInv, NEW c \in Callers, Leave(c)
    PROVE  IInv'
<1> USE DEF IInv, TypeOK
<1>0. PICK e \in Entries : e = ent[c]
  BY LivePointer DEF Leave
<1>1. ent[c] = e /\ refs[e] = Cardinality(Holders(e)) /\ ~Free(e) /\ pc[c] = "leaving"
  BY <1>0, LivePointer DEF Leave
<1>2. UNCHANGED <<table, cell, permit, key, cancelled>>
  BY DEF Leave
<1>3. \A d \in Callers : d # c => pc'[d] = pc[d] /\ ent'[d] = ent[d]
  BY DEF Leave
<1>4. \/ refs[e] = 1 /\ pc'[c] = "removing" /\ ent'[c] = e
      \/ refs[e] # 1 /\ pc'[c] = "idle" /\ ent'[c] = NoEntry
  BY <1>1 DEF Leave
<1>5. /\ c \in Holders(e)
      /\ Cardinality(Holders(e) \ {c}) = refs[e] - 1
      /\ refs[e] - 1 \in Nat
  <2>1. c \in Holders(e)
    BY <1>1 DEF Holders, Counted
  <2>2. /\ IsFiniteSet(Holders(e) \ {c})
        /\ Cardinality(Holders(e) \ {c}) = Cardinality(Holders(e)) - 1
    BY <2>1, HoldersFinite, FS_RemoveElement
  <2> QED
    BY <2>1, <2>2, <1>1, FS_CardinalityType
<1>6. TypeOK'
  BY <1>1, <1>5 DEF Leave, PCs
<1>7. RefsExact'
  <2>1. Holders(e)' = Holders(e) \ {c}
    BY <1>1, <1>3, <1>4 DEF Holders, Counted
  <2>2. refs'[e] = Cardinality(Holders(e)')
    BY <2>1, <1>1, <1>5 DEF Leave
  <2>3. \A x \in Entries : x # e => Holders(x)' = Holders(x) /\ refs'[x] = refs[x]
    BY <1>1, <1>3, <1>4, EntriesAssumption DEF Holders, Counted, Leave
  <2>4. \A x \in Entries : Free(x) => Free(x)'
    <3> SUFFICES ASSUME NEW x \in Entries, Free(x)  PROVE  Free(x)'
      OBVIOUS
    <3>1. x # e
      BY <1>1 DEF Free
    <3>2. ent'[c] # x
      BY <3>1, <1>4, EntriesAssumption
    <3> QED
      BY <3>2, <1>2, <1>3 DEF Free
  <2> QED
    BY <2>2, <2>3, <2>4 DEF RefsExact
<1>8. Pointers' /\ OwnKey'
  BY <1>1, <1>2, <1>3, <1>4, EntriesAssumption DEF Pointers, OwnKey
<1>9. NoOrphan'
  <2> SUFFICES ASSUME NEW k \in Keys, table[k] # NoEntry
               PROVE  \E d \in Callers : pc'[d] # "idle" /\ ent'[d] = table[k] /\ key[d] = k
    BY <1>2 DEF NoOrphan
  <2>1. PICK d \in Callers : pc[d] # "idle" /\ ent[d] = table[k] /\ key[d] = k
    BY DEF NoOrphan
  <2>2. CASE d # c
    BY <2>1, <2>2, <1>3
  <2>3. CASE d = c /\ refs[e] = 1
    BY <2>1, <2>3, <1>1, <1>4
  <2>4. CASE d = c /\ refs[e] # 1
    <3>1. Holders(e) \ {c} # {}
      <4>1. refs[e] \in Nat
        BY <1>1
      <4>2. Cardinality(Holders(e) \ {c}) # 0
        BY <4>1, <2>4, <1>5
      <4> QED
        BY <4>2, FS_EmptySet
    <3>2. PICK h \in Holders(e) : h # c
      BY <3>1
    <3>3. h \in Callers /\ pc[h] # "idle" /\ ent[h] = table[k]
      BY <3>2, <2>1, <2>4, <1>1 DEF Holders, Counted
    <3> QED
      BY <3>2, <3>3, <1>3 DEF OwnKey
  <2> QED
    BY <2>2, <2>3, <2>4
<1>10. RunnerHasPermit' /\ DoneWhenLeaving' /\ UnfinishedListed'
  BY <1>1, <1>2, <1>3, <1>4 DEF RunnerHasPermit, DoneWhenLeaving, UnfinishedListed
<1> QED
  BY <1>6, <1>7, <1>8, <1>9, <1>10

LEMMA RemoveKeeps ==
    ASSUME IInv, NEW c \in Callers, RemoveEntry(c)
    PROVE  IInv'
<1> USE DEF IInv, TypeOK
<1>1. TypeOK'
  BY DEF RemoveEntry, PCs
<1>2. /\ pc[c] = "removing" /\ ent[c] \in Entries /\ key[c] \in Keys
      /\ pc'[c] = "idle" /\ ent'[c] = NoEntry
  BY LivePointer DEF RemoveEntry
<1>3. \A d \in Callers : d # c => pc'[d] = pc[d] /\ ent'[d] = ent[d]
  BY DEF RemoveEntry
<1>4. /\ \A k \in Keys : table'[k] = IF k = key[c] /\ table[k] = ent[c] THEN NoEntry ELSE table[k]
      /\ UNCHANGED <<refs, cell, permit, key, cancelled>>
  BY DEF RemoveEntry
<1>5. RefsExact'
  <2>1. \A x \in Entries : Holders(x)' = Holders(x)
    BY <1>2, <1>3 DEF Holders, Counted
  <2>2. \A x \in Entries : Free(x) => Free(x)'
    BY <1>2, <1>3, <1>4, EntriesAssumption DEF Free
  <2> QED
    BY <2>1, <2>2, <1>4, SameHolders
<1>6. Pointers' /\ OwnKey'
  BY <1>2, <1>3, <1>4 DEF Pointers, OwnKey
<1>7. NoOrphan'
  BY <1>2, <1>3, <1>4 DEF NoOrphan
<1>8. RunnerHasPermit' /\ DoneWhenLeaving'
  BY <1>2, <1>3, <1>4 DEF RunnerHasPermit, DoneWhenLeaving
<1>9. UnfinishedListed'
  BY <1>2, <1>3, <1>4 DEF UnfinishedListed, DoneWhenLeaving
<1> QED
  BY <1>1, <1>5, <1>6, <1>7, <1>8, <1>9

LEMMA StepIInv == IInv /\ [Next]_vars => IInv'
<1> SUFFICES ASSUME IInv, [Next]_vars PROVE IInv'
  OBVIOUS
<1>1. CASE Next
  BY <1>1, FindKeeps, CreateKeeps, JoinKeeps, StartKeeps, FinishKeeps, FollowKeeps,
     LeaveKeeps, RemoveKeeps, CancelKeeps DEF Next, Proceed
<1>2. CASE UNCHANGED vars
  <2>1. TypeOK' /\ Pointers' /\ OwnKey' /\ NoOrphan'
    BY <1>2 DEF vars, IInv, TypeOK, Pointers, OwnKey, NoOrphan
  <2>2. RefsExact'
    BY <1>2, SameHolders DEF vars, IInv, Holders, Free
  <2>3. RunnerHasPermit' /\ DoneWhenLeaving' /\ UnfinishedListed'
    BY <1>2 DEF vars, IInv, RunnerHasPermit, DoneWhenLeaving, UnfinishedListed
  <2> QED
    BY <2>1, <2>2, <2>3 DEF IInv
<1> QED
  BY <1>1, <1>2

-----------------------------------------------------------------------------
(* The theorems *)

\* Every reachable state satisfies the inductive invariant.
THEOREM Invariance == Spec => []IInv
<1> QED
  BY InitIInv, StepIInv, PTL DEF Spec

\* The variables keep their types; in particular no reference count goes below zero.
THEOREM TypeCorrect == Spec => []TypeOK
<1>1. IInv => TypeOK
  BY DEF IInv
<1> QED
  BY <1>1, Invariance, PTL

\* The reference count of an entry is exactly the number of its participants.
THEOREM RefsAreExact == Spec => []RefsExact
<1>1. IInv => RefsExact
  BY DEF IInv
<1> QED
  BY <1>1, Invariance, PTL

\* An entry in the table always has a call that will take it out.
THEOREM TableIsCleaned == Spec => []NoOrphan
<1>1. IInv => NoOrphan
  BY DEF IInv
<1> QED
  BY <1>1, Invariance, PTL

\* The fetch of an entry is run by one call at a time and never after its value is there.
THEOREM OneRun == Spec => []OneRunPerEntry
<1>1. IInv => OneRunPerEntry
  BY DEF IInv, RunnerHasPermit, OneRunPerEntry
<1> QED
  BY <1>1, Invariance, PTL

\* As long as no call is cancelled, two calls never run the fetch of one key at once.
THEOREM SingleRunnerWithoutCancel == Spec => []SingleRunnerUncancelled
<1>1. IInv => SingleRunnerUncancelled
  BY DEF IInv, RunnerHasPermit, UnfinishedListed, SingleRunnerUncancelled, SingleRunner
<1> QED
  BY <1>1, Invariance, PTL

-----------------------------------------------------------------------------
(* A fetch *)

\* Where the fetch is: between fetches nothing is in flight, and a fetch that was only planned has
\* asked nobody.
Planned ==
    /\ stage \in {"idle", "chosen", "answered"} => flying = {}
    /\ stage = "chosen" => asked = {} /\ votes = NoVotes /\ extra = 0
    /\ primary \cap backup = {}
    /\ stage = "primary" => asked \subseteq primary /\ wave \subseteq primary
    /\ extra <= EXTRA_WAVES
    /\ stage = "chosen" => outcome = "none"
    /\ stage \notin {"idle", "chosen"} => outcome = "none"

\* Who was asked has voted, is in flight, or was aborted by votes that decide.
Accounted ==
    /\ Voted(Kinds) \subseteq asked
    /\ flying \subseteq asked /\ flying \cap Voted(Kinds) = {}
    /\ todo \subseteq wave /\ todo \cap asked = {}
    /\ NeedMoreVotes => asked \subseteq Voted(Kinds) \cup flying

\* The waves end only when there is no reason or no way to ask more, and a verdict has its
\* evidence.
Decided ==
    /\ stage = "answered" => ~MoreToAsk
    /\ Done => VerdictsEarned

\* The inductive invariant.
FetchInv == FetchTypeOK /\ OpenEarned /\ Planned /\ Accounted /\ Decided

\* Min of FiniteSetsExt, for two numbers.
LEMMA MinIs ==
    ASSUME NEW a \in Nat, NEW b \in Nat
    PROVE  Min({a, b}) = IF a <= b THEN a ELSE b
<1> DEFINE m == IF a <= b THEN a ELSE b
<1>1. m \in {a, b} /\ \A y \in {a, b} : m <= y
  OBVIOUS
<1>2. \A x \in {a, b} : (\A y \in {a, b} : x <= y) => x = m
  OBVIOUS
<1> QED
  BY <1>1, <1>2 DEF Min

\* However answers are fed to the breakers, an open one has its failures.
LEMMA FeedKeeps ==
    ASSUME fails \in [Upstreams -> 0..FAILS], open \subseteq Upstreams, OpenEarned,
           NEW oks \in SUBSET Upstreams, NEW bad \in SUBSET Upstreams, oks \cap bad = {},
           NEW n \in Nat \ {0}, Feed(oks, bad, n)
    PROVE  fails' \in [Upstreams -> 0..FAILS] /\ open' \subseteq Upstreams /\ OpenEarned'
<1>1. FAILS \in Nat \ {0}
  BY NumbersAssumption
<1>2. ASSUME NEW u \in Upstreams
      PROVE  Min({fails[u] + n, FAILS}) = IF fails[u] + n <= FAILS THEN fails[u] + n ELSE FAILS
  BY <1>1, MinIs
<1>3. ASSUME NEW u \in Upstreams
      PROVE  fails'[u] = IF u \in oks THEN 0
                         ELSE IF u \in bad THEN IF fails[u] + n <= FAILS THEN fails[u] + n ELSE FAILS
                         ELSE fails[u]
  BY <1>2 DEF Feed
<1>4. fails' \in [Upstreams -> 0..FAILS]
  BY <1>1, <1>2 DEF Feed
<1>5. open' \subseteq Upstreams
  BY DEF Feed
<1>6. ASSUME NEW u \in open' PROVE fails'[u] = FAILS
  <2>1. u \in Upstreams /\ u \notin oks /\ (u \in open \/ (u \in bad /\ fails[u] + n >= FAILS))
    BY <1>5, <1>6 DEF Feed
  <2>2. u \in open => fails[u] = FAILS
    BY DEF OpenEarned
  <2> QED
    BY <1>1, <1>3, <2>1, <2>2
<1> QED
  BY <1>4, <1>5, <1>6 DEF OpenEarned

\* Sets of upstreams can be counted.
LEMMA VotesFinite ==
    ASSUME NEW S \in SUBSET Upstreams
    PROVE  IsFiniteSet(S) /\ Cardinality(S) \in Nat
BY UpstreamsAssumption, FS_Subset, FS_CardinalityType

\* The first of a list are of the list.
LEMMA FirstOfIs ==
    ASSUME NEW ups, NEW n, NEW s \in FirstOf(ups, n)
    PROVE  s \subseteq ups
BY DEF FirstOf

\* The invariant holds before the first fetch.
LEMMA FetchInitInv == FetchInit => FetchInv
<1> SUFFICES ASSUME FetchInit PROVE FetchInv
  OBVIOUS
<1>1. FetchTypeOK
  <2>1. {adaptive, fallback, single} \subseteq BOOLEAN
    BY DEF FetchInit
  <2>2. fails \in [Upstreams -> 0..FAILS]
    BY NumbersAssumption DEF FetchInit
  <2> QED
    BY <2>1, <2>2 DEF FetchInit, FetchTypeOK, NoVotes, Stages
<1>2. Voted(Kinds) = {}
  BY DEF FetchInit, Voted, NoVotes, Kinds
<1> QED
  BY <1>1, <1>2 DEF FetchInit, FetchInv, OpenEarned, Planned, Accounted, Decided, Done, EXTRA_WAVES

\* A wave of upstreams nobody has asked yet.
LEMMA StartWaveKeeps ==
    ASSUME FetchInv, NEW ups \in SUBSET Upstreams, StartWave(ups), ups \cap asked = {}, flying = {},
           UNCHANGED <<config_vars, breaker_vars, plan_vars, votes, outcome>>
    PROVE  /\ wave' \subseteq ups /\ flying' \subseteq wave' /\ todo' = wave' \ flying'
           /\ asked' = asked \cup flying'
           /\ Accounted'
<1>1. wave' \subseteq ups /\ flying' \subseteq wave' /\ todo' = wave' \ flying'
      /\ asked' = asked \cup flying'
  BY FirstOfIs DEF StartWave, Select, Live
<1>2. /\ UNCHANGED <<Voted(Kinds), NeedMoreVotes>>
  BY DEF Voted, NeedMoreVotes, plan_vars, QuorumTarget
<1>3. /\ Voted(Kinds) \subseteq asked /\ (NeedMoreVotes => asked \subseteq Voted(Kinds))
  BY DEF FetchInv, Accounted
<1> QED
  BY <1>1, <1>2, <1>3 DEF Accounted

\* A step that only changes the breakers.
LEMMA BreakerSteps ==
    ASSUME FetchInv, NEW u \in Upstreams, Other(u) \/ Expire(u) \/ Reset
    PROVE  FetchInv'
<1> USE DEF config_vars, plan_vars, wave_vars
<1>1. UNCHANGED <<config_vars, plan_vars, stage, extra, wave_vars, votes, outcome>>
  BY DEF Other, Expire, Reset
<1>2. fails \in [Upstreams -> 0..FAILS] /\ open \subseteq Upstreams /\ OpenEarned
  BY DEF FetchInv, FetchTypeOK
<1>3. fails' \in [Upstreams -> 0..FAILS] /\ open' \subseteq Upstreams /\ OpenEarned'
  <2>1. CASE Other(u)
    BY <1>2, <2>1, FeedKeeps DEF Other
  <2>2. CASE Expire(u)
    BY <1>2, <2>2 DEF Expire, breaker_vars, OpenEarned
  <2>3. CASE Reset
    BY <1>2, <2>3, NumbersAssumption DEF Reset, OpenEarned
  <2> QED
    BY <2>1, <2>2, <2>3
<1>4. FetchTypeOK'
  BY <1>1, <1>3 DEF FetchInv, FetchTypeOK
<1>5. Planned' /\ Accounted' /\ Decided'
  BY <1>1 DEF FetchInv, Planned, Accounted, Decided, MoreToAsk, Done, VerdictsEarned, NegativeConfirmed,
     ServfailLast, NeedMoreVotes, Voted, QuorumTarget, EXTRA_WAVES, NotQueried
<1> QED
  BY <1>3, <1>4, <1>5 DEF FetchInv

\* The plan of a fetch: nobody is asked yet, and the two waves have nobody in common.
LEMMA ChooseKeeps ==
    ASSUME FetchInv, Choose
    PROVE  FetchInv'
<1> USE DEF config_vars, breaker_vars, wave_vars
<1>1. /\ stage = "idle" /\ stage' = "chosen" /\ single' \in BOOLEAN /\ extra' = 0 /\ asked' = {}
      /\ votes' = NoVotes /\ outcome' = "none"
      /\ UNCHANGED <<adaptive, fallback, fails, open, wave, todo, flying>>
  BY DEF Choose
<1>2. primary' \subseteq Upstreams /\ backup' \subseteq Upstreams /\ primary' \cap backup' = {}
  BY FirstOfIs DEF Choose, Live
<1>3. FetchTypeOK'
  BY <1>1, <1>2 DEF FetchInv, FetchTypeOK, Stages, NoVotes
<1>4. Voted(Kinds)' = {}
  BY <1>1 DEF Voted, NoVotes, Kinds
<1>5. flying = {} /\ todo \subseteq wave
  BY <1>1 DEF FetchInv, Planned, Accounted
<1>6. Planned' /\ Accounted' /\ Decided'
  BY <1>1, <1>2, <1>4, <1>5 DEF Planned, Accounted, Decided, Done, EXTRA_WAVES
<1>7. OpenEarned'
  BY <1>1 DEF FetchInv, OpenEarned
<1> QED
  BY <1>3, <1>6, <1>7 DEF FetchInv

\* Each wave asks upstreams that have not been asked.
LEMMA WavesKeep ==
    ASSUME FetchInv, Primary \/ Backup \/ Extra
    PROVE  FetchInv' /\ (flying' \ flying) \cap asked = {}
<1> USE DEF config_vars, breaker_vars, plan_vars
<1>1. /\ flying = {} /\ asked \subseteq Upstreams /\ outcome = "none" /\ extra \in 0..2
      /\ UNCHANGED <<config_vars, breaker_vars, plan_vars, votes, outcome>>
      /\ primary \in SUBSET Upstreams /\ backup \in SUBSET Upstreams /\ primary \cap backup = {}
  BY DEF Primary, Backup, Extra, WaveOver, FetchInv, Planned, FetchTypeOK
<1>2. PICK ups \in SUBSET Upstreams :
         /\ StartWave(ups) /\ ups \cap asked = {}
         /\ \/ stage' = "primary" /\ extra' = extra /\ ups = primary /\ asked = {}
            \/ stage' = "backup" /\ extra' = extra
            \/ stage' = "extra" /\ extra' = extra + 1 /\ extra < EXTRA_WAVES
  <2>1. CASE Primary
    <3>1. asked = {}
      BY <2>1 DEF Primary, FetchInv, Planned
    <3> QED
      BY <1>1, <2>1, <3>1 DEF Primary
  <2>2. CASE Backup
    <3>1. asked \subseteq primary
      BY <2>2 DEF Backup, FetchInv, Planned
    <3> QED
      BY <1>1, <2>2, <3>1 DEF Backup
  <2>3. CASE Extra
    <3>1. NotQueried \cap asked = {}
      BY <1>1, <2>3 DEF Extra, MoreToAsk, NotQueried, FetchInv, Accounted
    <3>2. PICK s \in FirstOf(NotQueried, MAX_PARALLEL) : StartWave(s)
      BY <2>3 DEF Extra
    <3>3. s \subseteq NotQueried
      BY FirstOfIs
    <3> QED
      BY <2>3, <3>1, <3>2, <3>3 DEF Extra, MoreToAsk, NotQueried
  <2> QED
    BY <2>1, <2>2, <2>3
<1>3. /\ wave' \subseteq ups /\ flying' \subseteq wave' /\ todo' = wave' \ flying'
      /\ asked' = asked \cup flying' /\ Accounted'
  BY <1>1, <1>2, StartWaveKeeps
<1>4. EXTRA_WAVES \in {0, 2} /\ EXTRA_WAVES' = EXTRA_WAVES
  BY <1>1 DEF EXTRA_WAVES
<1>5. stage' \in Stages /\ extra' \in 0..2 /\ extra' <= EXTRA_WAVES'
  BY <1>1, <1>2, <1>4 DEF FetchInv, Planned, Stages
<1>6. FetchTypeOK'
  BY <1>1, <1>3, <1>5 DEF FetchInv, FetchTypeOK
<1>7. Planned' /\ Decided'
  BY <1>1, <1>2, <1>3, <1>5 DEF Planned, Decided, Done
<1>8. OpenEarned'
  BY <1>1 DEF FetchInv, OpenEarned
<1> QED
  BY <1>2, <1>3, <1>6, <1>7, <1>8 DEF FetchInv

\* The others of the wave are launched because the first is late.
LEMMA HedgeKeeps ==
    ASSUME FetchInv, Hedge
    PROVE  FetchInv' /\ (flying' \ flying) \cap asked = {}
<1> USE DEF config_vars, breaker_vars, plan_vars
<1>1. /\ flying # {} /\ flying' = flying \cup todo /\ asked' = asked \cup todo /\ todo' = {}
      /\ UNCHANGED <<config_vars, breaker_vars, plan_vars, stage, extra, wave, votes, outcome>>
  BY DEF Hedge
<1>2. UNCHANGED <<Voted(Kinds), NeedMoreVotes, EXTRA_WAVES>>
  BY <1>1 DEF Voted, NeedMoreVotes, QuorumTarget, EXTRA_WAVES
<1>3. FetchTypeOK' /\ OpenEarned'
  BY <1>1 DEF FetchInv, FetchTypeOK, OpenEarned
<1>4. stage \notin {"idle", "chosen", "answered"} /\ outcome = "none"
  BY <1>1 DEF FetchInv, Planned
<1>5. Planned' /\ Decided'
  BY <1>1, <1>2, <1>4 DEF FetchInv, Planned, Decided, Done, Accounted
<1>6. Accounted' /\ (flying' \ flying) \cap asked = {}
  BY <1>1, <1>2 DEF FetchInv, Accounted
<1> QED
  BY <1>3, <1>5, <1>6 DEF FetchInv

\* A vote: those that it aborts are no longer needed for a decision.
LEMMA AnswerKeeps ==
    ASSUME FetchInv, NEW u \in Upstreams, NEW kind \in Kinds, Answer(u, kind)
    PROVE  FetchInv' /\ (flying' \ flying) \cap asked = {}
<1> USE DEF config_vars, breaker_vars, plan_vars
<1>1. /\ u \in flying /\ votes' = [votes EXCEPT ![u] = kind]
      /\ UNCHANGED <<config_vars, breaker_vars, plan_vars, stage, extra, wave, outcome>>
  BY DEF Answer
<1>2. /\ votes \in [Upstreams -> Kinds \cup {"none"}] /\ u \notin Voted(Kinds) /\ u \in asked
      /\ todo \cap asked = {} /\ todo \subseteq wave /\ Voted(Kinds) \subseteq asked
      /\ flying \subseteq asked
  BY <1>1 DEF FetchInv, FetchTypeOK, Accounted
<1>3. ASSUME NEW K \in SUBSET Kinds
      PROVE  /\ kind \in K => Voted(K)' = Voted(K) \cup {u}
             /\ kind \notin K => Voted(K)' = Voted(K)
             /\ u \notin Voted(K) /\ Voted(K) \in SUBSET Upstreams
  BY <1>1, <1>2 DEF Voted
<1>4. {"positive"} \subseteq Kinds /\ Negative \subseteq Kinds /\ Kinds \subseteq Kinds /\ "none" \notin Kinds
  BY DEF Kinds, Negative
<1>5. Voted(Kinds)' = Voted(Kinds) \cup {u}
  BY <1>3, <1>4
<1>6. NeedMoreVotes' => NeedMoreVotes
  <2>1. Voted({"positive"}) \subseteq Voted({"positive"})'
    BY <1>3, <1>4
  <2>2. Cardinality(Voted(Negative)) <= Cardinality(Voted(Negative)')
    BY <1>3, <1>4, VotesFinite, FS_AddElement
  <2>3. QuorumTarget' = QuorumTarget /\ QuorumTarget \in Nat
    BY <1>1, NumbersAssumption DEF QuorumTarget
  <2>4. /\ Cardinality(Voted(Negative)) \in Nat
        /\ Cardinality(Voted(Negative)') \in Nat
    BY <1>3, <1>4, VotesFinite, FS_AddElement
  <2> QED
    BY <2>1, <2>2, <2>3, <2>4 DEF NeedMoreVotes
<1>7. kind = "positive" \/ (kind \in Negative /\ Enough) => ~NeedMoreVotes'
  <2>1. CASE kind = "positive"
    BY <1>3, <1>4, <2>1 DEF NeedMoreVotes
  <2>2. CASE kind \in Negative /\ Enough
    <3> DEFINE V == Voted(Negative)
    <3>1. /\ IsFiniteSet(V) /\ Cardinality(V) \in Nat
          /\ Cardinality(wave \cap V) \in Nat /\ Cardinality(wave \cap V) <= Cardinality(V)
      BY <1>3, <1>4, VotesFinite, FS_Subset
    <3>2. Cardinality(V') = Cardinality(V) + 1
      BY <1>3, <1>4, <2>2, <3>1, FS_AddElement
    <3>3. Cardinality(wave \cap V) + 1 >= QUORUM
      BY <2>2 DEF Enough
    <3>4. QUORUM \in Nat \ {0} /\ QuorumTarget' \in {1, QUORUM}
      BY NumbersAssumption DEF QuorumTarget
    <3>5. Cardinality(V') >= QuorumTarget' /\ Cardinality(V') \in Nat
      BY <3>1, <3>2, <3>3, <3>4
    <3> QED
      BY <3>4, <3>5 DEF NeedMoreVotes
  <2> QED
    BY <2>1, <2>2
<1>8. (NeedMoreVotes => asked \subseteq Voted(Kinds) \cup flying) /\ flying \cap Voted(Kinds) = {}
  BY DEF FetchInv, Accounted
<1>9. /\ flying' \subseteq asked' /\ asked \subseteq asked' /\ asked' \subseteq asked \cup todo
      /\ flying' \cap Voted(Kinds)' = {} /\ todo' \subseteq todo /\ todo' \cap asked' = {}
      /\ (flying' \ flying) \cap asked = {}
      /\ NeedMoreVotes' => asked' \subseteq Voted(Kinds)' \cup flying'
  <2>1. CASE kind = "positive" \/ (kind \in Negative /\ Enough)
    <3>1. CASE flying' = {} /\ UNCHANGED <<todo, asked>>
      BY <1>2, <1>7, <2>1, <3>1
    <3>2. ~(kind \in Negative /\ ~Enough) /\ kind \notin {"truncated", "fail"}
      BY <2>1 DEF Negative
    <3> QED
      BY <3>1, <3>2 DEF Answer
  <2>2. CASE flying' = (flying \ {u}) \cup todo /\ asked' = asked \cup todo /\ todo' = {}
    BY <1>1, <1>2, <1>5, <1>6, <1>8, <2>2
  <2>3. CASE flying' = flying \ {u} /\ UNCHANGED <<todo, asked>>
    BY <1>1, <1>2, <1>5, <1>6, <1>8, <2>3
  <2> QED
    BY <2>1, <2>2, <2>3 DEF Answer
<1>10. Accounted'
  BY <1>1, <1>2, <1>5, <1>9 DEF Accounted
<1>11. FetchTypeOK' /\ OpenEarned'
  BY <1>1, <1>2, <1>9 DEF FetchInv, FetchTypeOK, OpenEarned
<1>12. stage \notin {"idle", "chosen", "answered"} /\ outcome = "none"
  BY <1>1 DEF FetchInv, Planned
<1>13. Planned' /\ Decided'
  BY <1>1, <1>2, <1>9, <1>12 DEF FetchInv, Planned, Decided, Done, EXTRA_WAVES
<1> QED
  BY <1>9, <1>10, <1>11, <1>13 DEF FetchInv

\* The waves are over.
LEMMA FetchedKeeps ==
    ASSUME FetchInv, Fetched
    PROVE  FetchInv'
<1> USE DEF config_vars, breaker_vars
<1>1. /\ stage' = "answered" /\ wave' = {} /\ todo' = {} /\ primary' = {} /\ backup' = {}
      /\ flying = {} /\ ~MoreToAsk /\ stage \in {"primary", "backup", "extra"}
      /\ UNCHANGED <<config_vars, breaker_vars, single, extra, flying, asked, votes, outcome>>
  BY DEF Fetched, WaveOver
<1>2. UNCHANGED <<Voted(Kinds), NeedMoreVotes, EXTRA_WAVES, MoreToAsk>>
  BY <1>1 DEF Voted, NeedMoreVotes, QuorumTarget, EXTRA_WAVES, MoreToAsk, NotQueried
<1>3. FetchTypeOK' /\ OpenEarned'
  BY <1>1 DEF FetchInv, FetchTypeOK, OpenEarned, Stages
<1>4. Planned' /\ Decided' /\ Accounted'
  BY <1>1, <1>2 DEF FetchInv, Planned, Decided, Done, Accounted
<1> QED
  BY <1>3, <1>4 DEF FetchInv

\* The verdict is given, and it has the evidence it needs.
LEMMA FinishFetchKeeps ==
    ASSUME FetchInv, FinishFetch
    PROVE  FetchInv'
<1> USE DEF config_vars, plan_vars, wave_vars
<1>1. /\ stage = "answered" /\ stage' = "idle"
      /\ UNCHANGED <<config_vars, plan_vars, extra, wave_vars, votes>>
      /\ \E aliases \in BOOLEAN : outcome' = Verdict(aliases)
      /\ \E n \in 1..CALLERS :
            Feed(Voted(Kinds \ {"fail"}), IF single THEN {} ELSE Voted({"fail"}), n)
  BY DEF FinishFetch
<1>2. fails' \in [Upstreams -> 0..FAILS] /\ open' \subseteq Upstreams /\ OpenEarned'
  <2>1. PICK n \in 1..CALLERS :
           Feed(Voted(Kinds \ {"fail"}), IF single THEN {} ELSE Voted({"fail"}), n)
    BY <1>1
  <2>2. n \in Nat \ {0}
    BY NumbersAssumption
  <2>3. /\ Voted(Kinds \ {"fail"}) \in SUBSET Upstreams /\ Voted({"fail"}) \in SUBSET Upstreams
        /\ Voted(Kinds \ {"fail"}) \cap Voted({"fail"}) = {}
    BY DEF Voted
  <2> DEFINE bad == IF single THEN {} ELSE Voted({"fail"})
  <2>4. bad \in SUBSET Upstreams /\ Voted(Kinds \ {"fail"}) \cap bad = {}
    BY <2>3
  <2>5. fails \in [Upstreams -> 0..FAILS] /\ open \subseteq Upstreams /\ OpenEarned
    BY DEF FetchInv, FetchTypeOK
  <2>6. Feed(Voted(Kinds \ {"fail"}), bad, n)
    BY <2>1
  <2> HIDE DEF bad
  <2> QED
    BY <2>2, <2>3, <2>4, <2>5, <2>6, FeedKeeps
<1>3. \A K : Voted(K)' = Voted(K)
  BY <1>1 DEF Voted
<1>4. QuorumTarget' = QuorumTarget /\ EXTRA_WAVES' = EXTRA_WAVES /\ QuorumTarget \in Nat
      /\ EXTRA_WAVES \in Nat /\ extra \in Nat /\ extra <= EXTRA_WAVES
  BY <1>1, NumbersAssumption DEF QuorumTarget, EXTRA_WAVES, FetchInv, FetchTypeOK, Planned
<1>5. PICK aliases \in BOOLEAN : outcome' = Verdict(aliases)
  BY <1>1
<1>6. outcome' \in {"answer", "truncated", "nxdomain", "alias", "nodata", "servfail"}
  BY <1>5 DEF Verdict
<1>7. outcome' \in {"nxdomain", "nodata", "servfail"} =>
         Voted({"positive"}) = {} /\ Voted({"truncated"}) = {}
  BY <1>5 DEF Verdict
<1>8. outcome' \in {"nxdomain", "nodata"} => Cardinality(Voted({outcome'})) >= QuorumTarget
  BY <1>5 DEF Verdict, Confirmed
<1>9. NegativeConfirmed'
  <2>1. Voted({outcome})' = Voted({outcome'})
    BY <1>1 DEF Voted
  <2>2. ASSUME outcome' \in {"nxdomain", "nodata"}
        PROVE  Voted({"positive"})' = {} /\ Cardinality(Voted({outcome})') >= QuorumTarget'
    BY <1>3, <1>4, <1>7, <1>8, <2>1, <2>2
  <2> QED
    BY <2>2 DEF NegativeConfirmed
<1>10. ServfailLast'
  <2>1. ASSUME outcome' = "servfail", Cardinality(Voted(Negative)) < QuorumTarget, Voted({"cname"}) = {}
        PROVE  asked = Upstreams \/ extra = EXTRA_WAVES
    <3>1. ~MoreToAsk /\ Voted(Kinds) \subseteq asked /\ asked \subseteq Upstreams
      BY <1>1 DEF FetchInv, Decided, Accounted, FetchTypeOK
    <3>2. NeedMoreVotes
      BY <1>7, <2>1 DEF NeedMoreVotes
    <3>3. Voted({"positive", "truncated", "cname"}) = {}
      BY <1>7, <2>1 DEF Voted
    <3>4. CASE extra < EXTRA_WAVES
      BY <3>1, <3>2, <3>3, <3>4 DEF MoreToAsk, NotQueried
    <3>5. CASE ~(extra < EXTRA_WAVES)
      BY <1>4, <3>5
    <3> QED
      BY <3>4, <3>5
  <2> QED
    BY <1>1, <1>3, <1>4, <2>1 DEF ServfailLast
<1>11. FetchTypeOK'
  BY <1>1, <1>2, <1>6 DEF FetchInv, FetchTypeOK, Stages
<1>12. Accounted'
  BY <1>1, <1>3, <1>4 DEF FetchInv, Accounted, NeedMoreVotes
<1>13. Planned' /\ Decided'
  BY <1>1, <1>4, <1>9, <1>10 DEF FetchInv, Planned, Decided, VerdictsEarned
<1> QED
  BY <1>2, <1>11, <1>12, <1>13 DEF FetchInv

\* Every step keeps the invariant and launches only upstreams that have not been asked.
LEMMA FetchStep == FetchInv /\ [FetchNext]_fetch_vars => FetchInv' /\ (flying' \ flying) \cap asked = {}
<1> SUFFICES ASSUME FetchInv, [FetchNext]_fetch_vars PROVE FetchInv' /\ (flying' \ flying) \cap asked = {}
  OBVIOUS
<1>1. CASE Choose
  BY <1>1, ChooseKeeps DEF Choose
<1>2. CASE Primary \/ Backup \/ Extra
  BY <1>2, WavesKeep
<1>3. CASE Fetched
  BY <1>3, FetchedKeeps DEF Fetched
<1>4. CASE FinishFetch
  BY <1>4, FinishFetchKeeps DEF FinishFetch, wave_vars
<1>5. CASE \E u \in Upstreams, kind \in Kinds : Answer(u, kind)
  BY <1>5, AnswerKeeps
<1>6. CASE Hedge
  BY <1>6, HedgeKeeps
<1>7. CASE (\E u \in Upstreams : Other(u) \/ Expire(u)) \/ Reset
  <2>1. flying' = flying
    BY <1>7 DEF Other, Expire, Reset, wave_vars
  <2>2. \E u \in Upstreams : Other(u) \/ Expire(u) \/ Reset
    BY <1>7, UpstreamsAssumption
  <2> QED
    BY <2>1, <2>2, BreakerSteps
<1>8. CASE UNCHANGED fetch_vars
  <2> USE DEF fetch_vars, config_vars, breaker_vars, plan_vars, wave_vars
  <2>1. FetchTypeOK' /\ OpenEarned' /\ flying' = flying
    BY <1>8 DEF FetchInv, FetchTypeOK, OpenEarned
  <2>2. Planned' /\ Accounted' /\ Decided'
    BY <1>8 DEF FetchInv, Planned, Accounted, Decided, MoreToAsk, Done, VerdictsEarned, NegativeConfirmed,
       ServfailLast, NeedMoreVotes, Voted, QuorumTarget, EXTRA_WAVES, NotQueried
  <2> QED
    BY <2>1, <2>2 DEF FetchInv
<1> QED
  BY <1>1, <1>2, <1>3, <1>4, <1>5, <1>6, <1>7, <1>8 DEF FetchNext, FetchProceed

\* The invariant of a fetch holds at all times, whatever the number of upstreams and the
\* limits are.
THEOREM FetchInvariance == FetchSpec => []FetchInv
BY FetchInitInv, FetchStep, PTL DEF FetchSpec

\* Every variable of a fetch stays in the set of values it is meant for.
THEOREM FetchTypeCorrect == FetchSpec => []FetchTypeOK
<1>1. FetchInv => FetchTypeOK
  BY DEF FetchInv
<1> QED
  BY <1>1, FetchInvariance, PTL

\* A breaker is open because of as many failures in a row as the configuration says.
THEOREM BreakersTrue == FetchSpec => []OpenEarned
<1>1. FetchInv => OpenEarned
  BY DEF FetchInv
<1> QED
  BY <1>1, FetchInvariance, PTL

\* A fetch says no on the word of a quorum and against no complete answer, and admits failure
\* only when everybody was asked or all waves were made.
THEOREM VerdictsHaveEvidence == FetchSpec => []VerdictsEarned
<1>1. FetchInv => VerdictsEarned
  BY DEF FetchInv, Decided, VerdictsEarned, NegativeConfirmed, ServfailLast
<1> QED
  BY <1>1, FetchInvariance, PTL

\* No upstream is asked twice in one fetch, whatever becomes of the breakers between the waves.
THEOREM AskedOnce == FetchSpec => NoneAskedTwice
<1>1. FetchInv /\ [FetchNext]_fetch_vars => [(flying' \ flying) \cap asked = {}]_fetch_vars
  BY FetchStep
<1> QED
  BY <1>1, FetchInvariance, PTL DEF FetchSpec, NoneAskedTwice

-----------------------------------------------------------------------------
(***************************************************************************)
(* The cache.  First what the operators on lists of entries do, then what  *)
(* is left of a cache after an operation (Rest), then what a put adds, and *)
(* at last what a change of policy keeps.                                  *)
(***************************************************************************)
\* Every non-empty set of natural numbers has a smallest element.
LEMMA Smallest ==
    ASSUME NEW T \in SUBSET Nat, T # {}
    PROVE  \E m \in T : \A n \in T : m <= n
<1> DEFINE R == OpToRel(<, Nat)
<1>1. IsWellFoundedOn(R, Nat)
  BY NatLessThanWellFounded
<1>2. PICK m \in T : \A n \in T : ~ (<<n, m>> \in R)
  BY <1>1, WFMin
<1>3. \A n \in T : n < m => <<n, m>> \in R
  BY DEF OpToRel
<1>4. \A n \in T : ~ (n < m)
  BY <1>2, <1>3
<1> QED
  BY <1>4

\* Every non-empty set of numbers up to n has a largest element, Max.
LEMMA MaxIs ==
    ASSUME NEW n \in Nat, NEW T \in SUBSET (0..n), T # {}
    PROVE  Max(T) \in T /\ \A m \in T : m <= Max(T)
<1> DEFINE U == {v \in Nat : \E m \in T : v + m = n}
<1>0. \A m \in T : m \in Nat /\ m <= n
  OBVIOUS
<1>1. U \in SUBSET Nat /\ U # {}
  <2>1. PICK m \in T : TRUE
    OBVIOUS
  <2>2. n - m \in Nat /\ (n - m) + m = n
    BY <1>0
  <2> QED
    BY <2>2
<1>2. PICK u \in U : \A v \in U : u <= v
  BY <1>1, Smallest
<1>3. PICK x \in T : u + x = n
  BY <1>2
<1>4. ASSUME NEW m \in T PROVE x >= m
  <2>1. n - m \in Nat /\ (n - m) + m = n /\ m \in Nat /\ x \in Nat /\ u \in Nat
    BY <1>0, <1>2
  <2>2. n - m \in U
    BY <2>1
  <2>3. u <= n - m
    BY <1>2, <2>2
  <2> QED
    BY <1>3, <2>1, <2>3
<1>5. Max(T) \in T /\ \A m \in T : Max(T) >= m
  BY <1>4 DEF Max
<1> QED
  BY <1>0, <1>5

\* Min of FiniteSetsExt.
LEMMA MinSetIs ==
    ASSUME NEW T \in SUBSET Nat, T # {}
    PROVE  Min(T) \in T
BY Smallest DEF Min

-----------------------------------------------------------------------------
(* Lists *)

\* No two entries of a list have the same key.
Distinct(q) == \A a, b \in DOMAIN q : q[a].key = q[b].key => a = b

\* No entry of one list has the key of an entry of the other.
Apart(p, q) == \A i \in ToSet(p), j \in ToSet(q) : i.key # j.key

\* The n-th of a finite set of numbers, and that there is one for each n.
LEMMA Ranks ==
    ASSUME NEW I, IsFiniteSet(I), I \subseteq Nat,
           NEW m \in 1..Cardinality(I)
    PROVE  \E n \in I : Cardinality({p \in I : p < n}) = m - 1
<1> DEFINE Below(n) == {p \in I : p < n}
           rank == [n \in I |-> Cardinality(Below(n))]
           N == Cardinality(I)
<1>1. N \in Nat /\ \A n \in I : IsFiniteSet(Below(n)) /\ Cardinality(Below(n)) \in Nat
  BY FS_CardinalityType, FS_Subset
<1>2. ASSUME NEW n \in I PROVE Cardinality(Below(n)) \in 0..(N - 1)
  <2>1. Below(n) \subseteq I \ {n} /\ Cardinality(I \ {n}) = N - 1 /\ IsFiniteSet(I \ {n})
    BY FS_RemoveElement
  <2>2. Cardinality(Below(n)) <= N - 1
    BY <2>1, FS_Subset
  <2> QED
    BY <1>1, <2>2
<1>3. rank \in [I -> 0..(N - 1)]
  BY <1>2
<1>4. ASSUME NEW x \in I, NEW y \in I, x < y PROVE rank[x] # rank[y]
  <2>0. x \in Nat /\ y \in Nat /\ \A p \in I : p \in Nat
    OBVIOUS
  <2>1. ASSUME NEW p \in I, p < x \/ p = x PROVE p < y
    BY <1>4, <2>0, <2>1
  <2>2. IsFiniteSet(Below(x)) /\ x \notin Below(x)
    BY <1>1
  <2>3. Cardinality(Below(x) \cup {x}) = Cardinality(Below(x)) + 1
    BY <2>2, FS_AddElement
  <2>4. Cardinality(Below(x) \cup {x}) <= Cardinality(Below(y))
    <3>1. Below(x) \cup {x} \in SUBSET Below(y)
      BY <2>1
    <3> QED
      BY <1>1, <3>1, FS_Subset
  <2> QED
    BY <1>1, <2>3, <2>4
<1>5. ASSUME NEW x \in I, NEW y \in I, rank[x] = rank[y] PROVE x = y
  BY <1>4, <1>5
<1>6. rank \in Injection(I, 0..(N - 1))
  BY <1>3, <1>5 DEF Injection, IsInjective
<1>7. IsFiniteSet(0..(N - 1)) /\ Cardinality(0..(N - 1)) = N
  <2>1. 0 \in Int /\ N - 1 \in Int /\ N \in Nat
    BY <1>1
  <2>2. Cardinality(0..(N - 1)) = IF 0 > N - 1 THEN 0 ELSE N - 1 - 0 + 1
    BY <2>1, FS_Interval
  <2> HIDE DEF N
  <2> QED
    BY <2>1, <2>2, FS_Interval
<1>8. rank \in Surjection(I, 0..(N - 1))
  BY <1>6, <1>7, FS_Injection
<1>9. m - 1 \in 0..(N - 1)
  BY <1>1
<1> QED
  BY <1>8, <1>9 DEF Surjection

\* The entries a cache may hold.
Cached == [key: CacheKeys, exp: Nat, newest: BOOLEAN]

\* Numbers from one on.
LEMMA CountIs ==
    ASSUME NEW n \in Nat
    PROVE  IsFiniteSet(1..n) /\ Cardinality(1..n) = n
<1>1. IsFiniteSet(1..n) /\ Cardinality(1..n) = IF 1 > n THEN 0 ELSE n - 1 + 1
  BY FS_Interval
<1> QED
  BY <1>1

\* The elements of a list of entries.
LEMMA ListIs ==
    ASSUME NEW q \in Seq(Cached)
    PROVE  /\ Len(q) \in Nat /\ DOMAIN q = 1..Len(q)
           /\ \A n \in 1..Len(q) : q[n] \in ToSet(q) /\ q[n] \in Cached
           /\ \A i \in ToSet(q) : i \in Cached /\ \E n \in 1..Len(q) : q[n] = i
<1>1. Len(q) \in Nat /\ DOMAIN q = 1..Len(q) /\ \A n \in 1..Len(q) : q[n] \in Cached
  BY LenProperties, ElementOfSeq
<1> QED
  BY <1>1 DEF ToSet

\* A piece of a list has the elements at its places.
LEMMA SubSeqIs ==
    ASSUME NEW q \in Seq(Cached), NEW m \in Nat \ {0}, NEW n \in 0..Len(q)
    PROVE  LET r == SubSeq(q, m, n)
           IN  /\ r \in Seq(Cached) /\ Len(r) = (IF m <= n THEN n - m + 1 ELSE 0)
               /\ \A i \in ToSet(r) : \E j \in m..n : q[j] = i
               /\ \A j \in m..n : q[j] \in ToSet(r)
               /\ ToSet(r) \subseteq ToSet(q)
               /\ Distinct(q) => Distinct(r)
<1> DEFINE r == SubSeq(q, m, n)
<1>0. Len(q) \in Nat /\ DOMAIN q = 1..Len(q) /\ m \in Int /\ n \in Int /\ n <= Len(q) /\ m >= 1
  BY ListIs
<1>1. \A j \in m..n : j \in 1..Len(q) /\ q[j] \in Cached /\ q[j] \in ToSet(q)
  BY <1>0, ListIs
<1>2. /\ r \in Seq(Cached) /\ Len(r) = (IF m <= n THEN n - m + 1 ELSE 0)
      /\ \A j \in 1..(n - m + 1) : r[j] = q[m + j - 1]
  BY <1>0, <1>1, SubSeqProperties
<1>3. DOMAIN r = 1..Len(r) /\ Len(r) \in Nat
  BY <1>2, ListIs
<1> HIDE DEF r
<1>4. \A x \in 1..Len(r) : x \in 1..(n - m + 1) /\ m + x - 1 \in m..n /\ r[x] = q[m + x - 1]
  BY <1>0, <1>2, <1>3
<1>5. \A i \in ToSet(r) : \E j \in m..n : q[j] = i
  <2>1. TAKE i \in ToSet(r)
  <2>2. PICK x \in 1..Len(r) : r[x] = i
    BY <1>2, ListIs
  <2> QED
    BY <1>4, <2>2
<1>6. ASSUME NEW j \in m..n PROVE q[j] \in ToSet(r)
  <2>1. j - m + 1 \in 1..(n - m + 1) /\ m + (j - m + 1) - 1 = j /\ m <= n
    BY <1>0
  <2>2. j - m + 1 \in 1..Len(r)
    BY <1>2, <2>1
  <2>3. r[j - m + 1] = q[j]
    BY <1>2, <2>1
  <2> QED
    BY <1>2, <2>2, <2>3, ListIs
<1>7. ASSUME Distinct(q) PROVE Distinct(r)
  <2>1. SUFFICES ASSUME NEW a \in 1..Len(r), NEW b \in 1..Len(r), r[a].key = r[b].key PROVE a = b
    BY <1>3 DEF Distinct
  <2>2. m + a - 1 \in DOMAIN q /\ m + b - 1 \in DOMAIN q
    BY <1>0, <1>1, <1>4
  <2>3. q[m + a - 1].key = q[m + b - 1].key
    BY <1>4, <2>1
  <2>4. m + a - 1 = m + b - 1
    BY <1>7, <2>2, <2>3 DEF Distinct
  <2> QED
    BY <1>0, <1>3, <2>4
<1>8. ToSet(r) \subseteq ToSet(q)
  BY <1>1, <1>5
<1> QED
  BY <1>2, <1>5, <1>6, <1>7, <1>8 DEF r

\* Two pieces of a list without repetition, one after the other, share no key.
LEMMA PiecesApart ==
    ASSUME NEW q \in Seq(Cached), Distinct(q),
           NEW m \in Nat \ {0}, NEW n \in 0..Len(q), NEW x \in Nat \ {0}, NEW y \in 0..Len(q), n < x
    PROVE  Apart(SubSeq(q, m, n), SubSeq(q, x, y)) /\ Apart(SubSeq(q, x, y), SubSeq(q, m, n))
<1> DEFINE p == SubSeq(q, m, n)
           r == SubSeq(q, x, y)
<1>0. Len(q) \in Nat /\ DOMAIN q = 1..Len(q)
  BY ListIs
<1>1. ASSUME NEW i \in ToSet(p), NEW j \in ToSet(r), i.key = j.key PROVE FALSE
  <2>1. PICK a \in m..n : q[a] = i
    BY SubSeqIs
  <2>2. PICK b \in x..y : q[b] = j
    BY SubSeqIs
  <2>3. a \in DOMAIN q /\ b \in DOMAIN q /\ a < b
    BY <1>0
  <2> QED
    BY <1>1, <2>1, <2>2, <2>3 DEF Distinct
<1> HIDE DEF p, r
<1>2. Apart(p, r) /\ Apart(r, p)
  BY <1>1 DEF Apart
<1> QED
  BY <1>2 DEF p, r

\* Two lists, one after the other.
LEMMA ConcatIs ==
    ASSUME NEW p \in Seq(Cached), NEW q \in Seq(Cached)
    PROVE  /\ p \o q \in Seq(Cached) /\ Len(p \o q) = Len(p) + Len(q)
           /\ ToSet(p \o q) = ToSet(p) \cup ToSet(q)
           /\ Distinct(p) /\ Distinct(q) /\ Apart(p, q) => Distinct(p \o q)
<1> DEFINE r == p \o q
<1>0. Len(p) \in Nat /\ Len(q) \in Nat /\ DOMAIN p = 1..Len(p) /\ DOMAIN q = 1..Len(q)
  BY ListIs
<1>1. /\ r \in Seq(Cached) /\ Len(r) = Len(p) + Len(q)
      /\ \A i \in 1..(Len(p) + Len(q)) : r[i] = IF i <= Len(p) THEN p[i] ELSE q[i - Len(p)]
  BY ConcatProperties
<1>2. DOMAIN r = 1..Len(r)
  BY <1>1, ListIs
<1> HIDE DEF r
<1>3. \A i \in ToSet(r) : i \in ToSet(p) \cup ToSet(q)
  <2>1. TAKE i \in ToSet(r)
  <2>2. PICK n \in 1..Len(r) : r[n] = i
    BY <1>1, ListIs
  <2>3. CASE n <= Len(p)
    BY <1>0, <1>1, <2>2, <2>3, ListIs
  <2>4. CASE n > Len(p)
    <3>1. n - Len(p) \in 1..Len(q) /\ i = q[n - Len(p)]
      BY <1>0, <1>1, <2>2, <2>4
    <3> QED
      BY <3>1, ListIs
  <2> QED
    BY <1>0, <2>3, <2>4
<1>4. \A i \in ToSet(p) : i \in ToSet(r)
  <2>1. TAKE i \in ToSet(p)
  <2>2. PICK n \in 1..Len(p) : p[n] = i
    BY ListIs
  <2>3. n \in 1..(Len(p) + Len(q)) /\ r[n] = i
    BY <1>0, <1>1, <2>2
  <2> QED
    BY <1>1, <2>3, ListIs
<1>5. \A i \in ToSet(q) : i \in ToSet(r)
  <2>1. TAKE i \in ToSet(q)
  <2>2. PICK n \in 1..Len(q) : q[n] = i
    BY ListIs
  <2>3. Len(p) + n \in 1..(Len(p) + Len(q)) /\ ~(Len(p) + n <= Len(p)) /\ Len(p) + n - Len(p) = n
    BY <1>0, <2>2
  <2>4. r[Len(p) + n] = i
    BY <1>1, <2>2, <2>3
  <2> QED
    BY <1>1, <2>3, <2>4, ListIs
<1>6. ASSUME Distinct(p), Distinct(q), Apart(p, q) PROVE Distinct(r)
  <2>1. SUFFICES ASSUME NEW a \in 1..Len(r), NEW b \in 1..Len(r), r[a].key = r[b].key, a < b PROVE FALSE
    <3>1. \A a, b \in 1..Len(r) : a \in Int /\ b \in Int
      OBVIOUS
    <3>2. \A a, b \in 1..Len(r) : r[a].key = r[b].key => ~(a < b) /\ ~(b < a)
      BY <2>1
    <3> QED
      BY <1>2, <3>1, <3>2 DEF Distinct
  <2>2. CASE b <= Len(p)
    <3>1. a \in DOMAIN p /\ b \in DOMAIN p /\ r[a] = p[a] /\ r[b] = p[b]
      <4>1. /\ a \in 1..Len(p) /\ b \in 1..Len(p) /\ a <= Len(p)
            /\ a \in 1..(Len(p) + Len(q)) /\ b \in 1..(Len(p) + Len(q))
        BY <1>0, <1>1, <2>1, <2>2
      <4> QED
        BY <1>0, <1>1, <2>2, <4>1
    <3> QED
      BY <1>0, <1>6, <2>1, <3>1 DEF Distinct
  <2>3. CASE a > Len(p)
    <3>1. a - Len(p) \in DOMAIN q /\ b - Len(p) \in DOMAIN q /\ r[a] = q[a - Len(p)] /\ r[b] = q[b - Len(p)]
      BY <1>0, <1>1, <2>1, <2>3
    <3>2. a - Len(p) = b - Len(p)
      BY <1>6, <2>1, <3>1 DEF Distinct
    <3> QED
      BY <1>0, <1>1, <2>1, <3>2
  <2>4. CASE a <= Len(p) /\ b > Len(p)
    <3>1. a \in 1..Len(p) /\ b - Len(p) \in 1..Len(q) /\ r[a] = p[a] /\ r[b] = q[b - Len(p)]
      BY <1>0, <1>1, <2>1, <2>4
    <3>2. p[a] \in ToSet(p) /\ q[b - Len(p)] \in ToSet(q)
      BY <3>1, ListIs
    <3> QED
      BY <1>6, <2>1, <3>1, <3>2 DEF Apart
  <2> QED
    BY <1>0, <1>1, <2>1, <2>2, <2>3, <2>4
<1> QED
  BY <1>1, <1>3, <1>4, <1>5, <1>6 DEF r

\* A list of one entry.
LEMMA OneIs ==
    ASSUME NEW i \in Cached
    PROVE  <<i>> \in Seq(Cached) /\ Len(<<i>>) = 1 /\ ToSet(<<i>>) = {i} /\ Distinct(<<i>>)
BY DEF ToSet, Distinct

\* The empty list.
LEMMA NoneIs ==
    <<>> \in Seq(Cached) /\ Len(<<>>) = 0 /\ ToSet(<<>>) = {} /\ Distinct(<<>>)
BY DEF ToSet, Distinct

\* A list with one more entry at its end.
LEMMA AppendIs ==
    ASSUME NEW q \in Seq(Cached), NEW i \in Cached
    PROVE  /\ Append(q, i) \in Seq(Cached) /\ Len(Append(q, i)) = Len(q) + 1
           /\ ToSet(Append(q, i)) = ToSet(q) \cup {i}
           /\ Distinct(q) /\ (\A j \in ToSet(q) : j.key # i.key) => Distinct(Append(q, i))
<1>1. <<i>> \in Seq(Cached) /\ Len(<<i>>) = 1 /\ ToSet(<<i>>) = {i} /\ Distinct(<<i>>)
  BY OneIs
<1>2. Append(q, i) = q \o <<i>>
  BY AppendIsConcat
<1>3. (\A j \in ToSet(q) : j.key # i.key) => Apart(q, <<i>>)
  BY <1>1 DEF Apart
<1> HIDE DEF Cached
<1>4. /\ q \o <<i>> \in Seq(Cached) /\ Len(q \o <<i>>) = Len(q) + 1
      /\ ToSet(q \o <<i>>) = ToSet(q) \cup {i}
      /\ Distinct(q) /\ Apart(q, <<i>>) => Distinct(q \o <<i>>)
  BY <1>1, ConcatIs
<1> QED
  BY <1>2, <1>3, <1>4

\* A list in the opposite order.
LEMMA ReverseIs ==
    ASSUME NEW q \in Seq(Cached)
    PROVE  /\ Reverse(q) \in Seq(Cached) /\ Len(Reverse(q)) = Len(q)
           /\ ToSet(Reverse(q)) = ToSet(q)
           /\ Distinct(q) => Distinct(Reverse(q))
<1> DEFINE r == Reverse(q)
<1>0. Len(q) \in Nat /\ DOMAIN q = 1..Len(q)
  BY ListIs
<1>1. \A n \in 1..Len(q) : Len(q) - n + 1 \in 1..Len(q) /\ q[Len(q) - n + 1] \in Cached
  <2>1. \A n \in 1..Len(q) : Len(q) - n + 1 \in 1..Len(q)
    BY <1>0
  <2> QED
    BY <2>1, ListIs
<1>2. r = [n \in 1..Len(q) |-> q[Len(q) - n + 1]]
  BY DEF Reverse
<1>3. r \in Seq(Cached)
  BY <1>0, <1>1, <1>2
<1>4. DOMAIN r = 1..Len(r) /\ DOMAIN r = 1..Len(q)
  BY <1>2, <1>3, ListIs
<1>5. Len(r) = Len(q)
  BY <1>0, <1>2
<1>6. \A n \in 1..Len(q) : r[n] = q[Len(q) - n + 1]
  BY <1>2
<1> HIDE DEF r
<1>7. \A i \in ToSet(r) : i \in ToSet(q)
  <2>1. TAKE i \in ToSet(r)
  <2>2. PICK n \in 1..Len(q) : r[n] = i
    BY <1>3, <1>5, ListIs
  <2> QED
    BY <1>1, <1>6, <2>2, ListIs
<1>8. \A i \in ToSet(q) : i \in ToSet(r)
  <2>1. TAKE i \in ToSet(q)
  <2>2. PICK n \in 1..Len(q) : q[n] = i
    BY ListIs
  <2>3. Len(q) - n + 1 \in 1..Len(q) /\ Len(q) - (Len(q) - n + 1) + 1 = n
    BY <1>0
  <2>4. r[Len(q) - n + 1] = i
    BY <1>6, <2>2, <2>3
  <2> QED
    BY <1>3, <1>5, <2>3, <2>4, ListIs
<1>9. ASSUME Distinct(q) PROVE Distinct(r)
  <2>1. SUFFICES ASSUME NEW a \in 1..Len(q), NEW b \in 1..Len(q), r[a].key = r[b].key PROVE a = b
    BY <1>4 DEF Distinct
  <2>2. Len(q) - a + 1 = Len(q) - b + 1
    BY <1>0, <1>1, <1>6, <1>9, <2>1 DEF Distinct
  <2> QED
    BY <1>0, <2>2
<1> QED
  BY <1>3, <1>5, <1>7, <1>8, <1>9 DEF r

\* What is left of a list, in its order: nothing else, nothing twice, and all of it if all
\* of it is asked for.
LEMMA OnlyIs ==
    ASSUME NEW q \in Seq(Cached), NEW S
    PROVE  LET r == Only(q, S)
           IN  /\ r \in Seq(Cached) /\ ToSet(r) = ToSet(q) \cap S
               /\ Len(r) = Cardinality({n \in DOMAIN q : q[n] \in S})
               /\ Distinct(q) => Distinct(r)
<1> DEFINE I == {n \in DOMAIN q : q[n] \in S}
           Below(n) == {p \in I : p < n}
           Nth(m) == CHOOSE n \in I : Cardinality(Below(n)) = m - 1
           C == Cardinality(I)
           r == Only(q, S)
<1>0. Len(q) \in Nat /\ DOMAIN q = 1..Len(q)
  BY ListIs
<1>1. IsFiniteSet(I) /\ I \subseteq Nat /\ C \in Nat
  <2>1. IsFiniteSet(1..Len(q))
    BY <1>0, CountIs
  <2>2. I \subseteq 1..Len(q) /\ I \subseteq Nat
    BY <1>0
  <2> QED
    BY <2>1, <2>2, FS_Subset, FS_CardinalityType
<1>2. \A m \in 1..C : Nth(m) \in I /\ Cardinality(Below(Nth(m))) = m - 1
  <2>1. TAKE m \in 1..C
  <2>2. \E n \in I : Cardinality(Below(n)) = m - 1
    BY <1>1, Ranks
  <2> QED
    BY <2>2
<1>3. r = [m \in 1..C |-> q[Nth(m)]]
  BY DEF Only
<1>4. \A m \in 1..C : q[Nth(m)] \in Cached /\ q[Nth(m)] \in ToSet(q) \cap S
  BY <1>0, <1>2, ListIs
<1>5. r \in Seq(Cached) /\ Len(r) = C /\ DOMAIN r = 1..C /\ \A m \in 1..C : r[m] = q[Nth(m)]
  <2> HIDE DEF Nth, C, r
  <2>1. r \in Seq(Cached)
    BY <1>1, <1>3, <1>4
  <2>2. DOMAIN r = 1..C /\ \A m \in 1..C : r[m] = q[Nth(m)]
    BY <1>3
  <2>3. DOMAIN r = 1..Len(r) /\ Len(r) \in Nat
    BY <2>1, ListIs
  <2> QED
    BY <1>1, <2>1, <2>2, <2>3
<1>6. \A m \in I : \E n \in 1..C : Nth(n) = m
  <2> DEFINE nth == [n \in 1..C |-> Nth(n)]
  <2>1. nth \in [1..C -> I]
    BY <1>2
  <2>2. \A x, y \in 1..C : nth[x] = nth[y] => x = y
    <3>1. TAKE x, y \in 1..C
    <3>2. HAVE nth[x] = nth[y]
    <3>3. Nth(x) = Nth(y)
      BY <3>2
    <3>4. x - 1 = y - 1
      BY <1>2, <3>3
    <3> QED
      BY <1>1, <3>4
  <2>3. nth \in Injection(1..C, I)
    BY <2>1, <2>2 DEF Injection, IsInjective
  <2>4. IsFiniteSet(1..C) /\ Cardinality(1..C) = C
    <3> HIDE DEF C
    <3> QED
      BY <1>1, CountIs
  <2>5. nth \in Surjection(1..C, I)
    BY <1>1, <2>3, <2>4, FS_Injection
  <2>6. \A m \in I : \E n \in 1..C : nth[n] = m
    BY <2>5 DEF Surjection
  <2> QED
    BY <2>6
<1>7. ASSUME NEW i \in ToSet(q), i \in S PROVE i \in ToSet(r)
  <2>1. PICK m \in 1..Len(q) : q[m] = i
    BY ListIs
  <2>2. m \in I
    BY <1>0, <1>7, <2>1
  <2>3. PICK n \in 1..C : Nth(n) = m
    BY <1>6, <2>2
  <2>4. r[n] = i /\ n \in DOMAIN r
    BY <1>5, <2>1, <2>3
  <2> QED
    BY <2>4 DEF ToSet
<1>8. ASSUME NEW i \in ToSet(r) PROVE i \in ToSet(q) \cap S
  <2>1. PICK m \in 1..C : r[m] = i
    BY <1>5 DEF ToSet
  <2> QED
    BY <1>4, <1>5, <2>1
<1>9. ASSUME Distinct(q) PROVE Distinct(r)
  <2>1. SUFFICES ASSUME NEW a \in 1..C, NEW b \in 1..C, r[a].key = r[b].key PROVE a = b
    BY <1>5 DEF Distinct
  <2>2. Nth(a) \in DOMAIN q /\ Nth(b) \in DOMAIN q /\ q[Nth(a)].key = q[Nth(b)].key
    BY <1>2, <1>5, <2>1
  <2>3. Nth(a) = Nth(b)
    BY <1>9, <2>2 DEF Distinct
  <2>4. a - 1 = b - 1
    BY <1>2, <2>3
  <2> QED
    BY <1>1, <2>4
<1> HIDE DEF r, Nth, Below
<1>10. r \in Seq(Cached) /\ ToSet(r) = ToSet(q) \cap S /\ Len(r) = C
  BY <1>5, <1>7, <1>8
<1> QED
  BY <1>9, <1>10 DEF r

\* All of a list: as long as it was.
LEMMA AllIs ==
    ASSUME NEW q \in Seq(Cached), NEW S, ToSet(q) \subseteq S
    PROVE  LET r == Only(q, S)
           IN  r \in Seq(Cached) /\ ToSet(r) = ToSet(q) /\ Len(r) = Len(q) /\ (Distinct(q) => Distinct(r))
<1>0. Len(q) \in Nat /\ DOMAIN q = 1..Len(q) /\ \A n \in 1..Len(q) : q[n] \in ToSet(q)
  BY ListIs
<1>1. {n \in DOMAIN q : q[n] \in S} = 1..Len(q)
  BY <1>0
<1>2. Cardinality(1..Len(q)) = Len(q)
  BY <1>0, CountIs
<1> QED
  BY <1>1, <1>2, OnlyIs

\* A list without the entry that has some key.
LEMMA DropIs ==
    ASSUME NEW q \in Seq(Cached), NEW k
    PROVE  LET r == Drop(q, k)
           IN  /\ r \in Seq(Cached) /\ ToSet(r) = {i \in ToSet(q) : i.key # k}
               /\ Distinct(q) => Distinct(r)
               /\ (\A i \in ToSet(q) : i.key # k) => Len(r) = Len(q)
               /\ Distinct(q) /\ (\E i \in ToSet(q) : i.key = k) => Len(r) = Len(q) - 1
<1> DEFINE S == {i \in ToSet(q) : i.key # k}
           r == Only(q, S)
           I == {n \in DOMAIN q : q[n] \in S}
<1>0. Len(q) \in Nat /\ DOMAIN q = 1..Len(q) /\ \A n \in 1..Len(q) : q[n] \in ToSet(q)
  BY ListIs
<1>1. r \in Seq(Cached) /\ ToSet(r) = S /\ (Distinct(q) => Distinct(r)) /\ Len(r) = Cardinality(I)
  BY OnlyIs
<1>2. ASSUME \A i \in ToSet(q) : i.key # k PROVE Len(r) = Len(q)
  BY <1>2, AllIs
<1>3. ASSUME Distinct(q), NEW i \in ToSet(q), i.key = k PROVE Len(r) = Len(q) - 1
  <2>1. PICK m \in 1..Len(q) : q[m] = i
    BY ListIs
  <2>2. \A n \in 1..Len(q) : q[n].key = k => n = m
    BY <1>0, <1>3, <2>1 DEF Distinct
  <2>3. I = 1..Len(q) \ {m}
    BY <1>0, <1>3, <2>1, <2>2
  <2>4. IsFiniteSet(1..Len(q)) /\ Cardinality(1..Len(q)) = Len(q)
    BY <1>0, CountIs
  <2>5. Cardinality(1..Len(q) \ {m}) = Len(q) - 1
    <3> DEFINE D == 1..Len(q)
    <3>1. IsFiniteSet(D) /\ Cardinality(D) = Len(q) /\ m \in D
      BY <2>1, <2>4
    <3> HIDE DEF D
    <3>2. Cardinality(D \ {m}) = IF m \in D THEN Cardinality(D) - 1 ELSE Cardinality(D)
      BY <3>1, FS_RemoveElement
    <3> QED
      BY <3>1, <3>2 DEF D
  <2> QED
    BY <1>1, <2>3, <2>5
<1> HIDE DEF I
<1>4. r = Drop(q, k)
  BY DEF Drop
<1> HIDE DEF r
<1> QED
  BY <1>1, <1>2, <1>3, <1>4

\* The last entries of a list are no more than asked for, and all when it is short.
LEMMA LastOnesIs ==
    ASSUME NEW q \in Seq(Cached), NEW n \in Nat
    PROVE  LET r == LastOnes(q, n)
           IN  /\ r \in Seq(Cached) /\ ToSet(r) \subseteq ToSet(q)
               /\ Len(r) = IF Len(q) <= n THEN Len(q) ELSE n
               /\ Len(q) <= n => r = q
               /\ Distinct(q) => Distinct(r)
<1>0. Len(q) \in Nat
  BY ListIs
<1>1. CASE Len(q) <= n
  BY <1>1 DEF LastOnes
<1>2. CASE Len(q) > n
  <2> DEFINE m == Len(q) - n + 1
  <2>1. m \in Nat \ {0} /\ Len(q) \in 0..Len(q) /\ LastOnes(q, n) = SubSeq(q, m, Len(q)) /\ ~(Len(q) <= n)
    BY <1>0, <1>2 DEF LastOnes
  <2>2. (IF m <= Len(q) THEN Len(q) - m + 1 ELSE 0) = n
    BY <1>0, <1>2
  <2> HIDE DEF m
  <2>3. LET r == SubSeq(q, m, Len(q))
        IN  r \in Seq(Cached) /\ ToSet(r) \subseteq ToSet(q) /\ (Distinct(q) => Distinct(r)) /\ Len(r) = n
    BY <2>1, <2>2, SubSeqIs
  <2> QED
    BY <2>1, <2>3
<1> QED
  BY <1>0, <1>1, <1>2

\* Trimming takes only entries of the set away.
LEMMA TrimFrontIs ==
    ASSUME NEW q \in Seq(Cached), NEW S
    PROVE  LET r == TrimFront(q, S)
           IN  /\ r \in Seq(Cached) /\ ToSet(r) \subseteq ToSet(q)
               /\ \A i \in ToSet(q) : i \notin S => i \in ToSet(r)
               /\ Distinct(q) => Distinct(r)
               /\ S = {} => r = q
<1> DEFINE T == {n \in 0..Len(q) : \A j \in 1..n : q[j] \in S}
           m == Max(T)
           r == SubSeq(q, 1 + m, Len(q))
<1>0. Len(q) \in Nat
  BY ListIs
<1>1. 0 \in T /\ T \in SUBSET (0..Len(q))
  BY <1>0
<1>2. m \in T
  <2> HIDE DEF T
  <2> QED
    BY <1>0, <1>1, MaxIs
<1>3. m \in 0..Len(q) /\ \A j \in 1..m : q[j] \in S
  BY <1>2
<1>4. r = TrimFront(q, S)
  BY DEF TrimFront
<1> HIDE DEF m
<1>5. /\ r \in Seq(Cached) /\ ToSet(r) \subseteq ToSet(q) /\ (Distinct(q) => Distinct(r))
      /\ \A j \in (1 + m)..Len(q) : q[j] \in ToSet(r)
  <2>1. 1 + m \in Nat \ {0} /\ Len(q) \in 0..Len(q)
    BY <1>0, <1>3
  <2> QED
    BY <2>1, SubSeqIs
<1>6. ASSUME NEW i \in ToSet(q), i \notin S PROVE i \in ToSet(r)
  <2>1. PICK n \in 1..Len(q) : q[n] = i
    BY ListIs
  <2>2. n \notin 1..m
    BY <1>3, <1>6, <2>1
  <2>3. n \in (1 + m)..Len(q)
    BY <1>0, <1>3, <2>2
  <2> QED
    BY <1>5, <2>1, <2>3
<1>7. ASSUME S = {} PROVE r = q
  <2>1. m = 0
    BY <1>3, <1>7
  <2> QED
    BY <2>1, SubSeqFull
<1> HIDE DEF r
<1> QED
  BY <1>4, <1>5, <1>6, <1>7

\* The entries of one cache: its record, with a list of entries in each segment of its policy.
Shaped(c) ==
    /\ c = [policy |-> c.policy, size |-> c.size, window |-> c.window, segs |-> c.segs]
    /\ c.policy \in {x.policy : x \in Configs}
    /\ c.size \in {x.size : x \in Configs}
    /\ c.window \in Nat
    /\ c.segs \in [SegIds(c.policy) -> Seq(Cached)]

\* Each entry is where the key that is reported for it finds it.
Placed(c) ==
    \A s \in SegIds(c.policy) : \A i \in ToSet(c.segs[s]) :
        LET k == ReportedKey(c, s, i) IN s \in Homes(c, k) /\ i.key = StoredKey(c, k)

\* No two entries of a segment, nor of two segments of W-TinyLFU, have the same key.
Alone(c) ==
    /\ \A s \in SegIds(c.policy) : Distinct(c.segs[s])
    /\ Tiny(c) => \A s, t \in SegIds(c.policy) : s # t => Apart(c.segs[s], c.segs[t])

\* e is what is left of c, of which W-TinyLFU alone moves entries from segment to segment.
Rest(e, c) ==
    /\ Shaped(e) /\ e.policy = c.policy /\ e.size = c.size /\ e.window = c.window
    /\ \A s \in SegIds(c.policy) : \A i \in ToSet(e.segs[s]) :
           \E t \in SegIds(c.policy) : i \in ToSet(c.segs[t]) /\ (s = t \/ Tiny(c))
    /\ Alone(c) => Alone(e)

\* The kind of a configured policy, and the partitions it may have.
LEMMA PolicyIs ==
    ASSUME NEW p \in {x.policy : x \in Configs}
    PROVE  /\ p.kind \in {"tinylfu", "lru", "partitioned"} /\ p.parts \subseteq Groups
           /\ p.parts # {} <=> p.kind = "partitioned"
BY PoliciesAssumption

\* Capacities are positive.
LEMMA CapsAre ==
    ASSUME NEW c, Shaped(c)
    PROVE  /\ Caps(c).win \in Nat \ {0} /\ Caps(c).prob \in Nat \ {0} /\ Caps(c).prot \in Nat \ {0}
           /\ ShardCap[c.size] \in Nat \ {0}
<1>1. PICK x \in Configs : c.size = x.size
  BY DEF Shaped
<1>2. /\ TinyCaps[x.size]["win"] \in Nat \ {0} /\ TinyCaps[x.size]["prob"] \in Nat \ {0}
      /\ TinyCaps[x.size]["prot"] \in Nat \ {0} /\ ShardCap[x.size] \in Nat \ {0}
  BY CapsAssumption
<1> QED
  BY <1>1, <1>2 DEF Caps

\* A key is sent to a partition that there is, and to its own if there is one.
LEMMA PartIs ==
    ASSUME NEW parts \in SUBSET Groups, parts # {}, NEW k
    PROVE  Part(parts, k) \in parts /\ (k[1] \in parts => Part(parts, k) = k[1])
<1> DEFINE T == {n \in DOMAIN GroupOrder : GroupOrder[n] \in parts}
<1>1. DOMAIN GroupOrder = 1..Len(GroupOrder) /\ Len(GroupOrder) \in Nat
  BY GroupsAssumption, LenProperties
<1>2. T \in SUBSET Nat
  BY <1>1
<1>3. T # {}
  BY DEF Groups, ToSet
<1>4. FirstPart(parts) \in parts
  <2>1. Min(T) \in T
    BY <1>2, <1>3, MinSetIs
  <2> QED
    BY <2>1 DEF FirstPart
<1>5. k[1] \in parts => k[1] # NoGroup
  BY GroupsAssumption
<1> QED
  BY <1>4, <1>5 DEF Part

\* A key has a group, or none, and a domain.
LEMMA KeyIs ==
    ASSUME NEW k \in CacheKeys
    PROVE  /\ Plain(k) \in CacheKeys /\ k[1] \in Groups \cup {NoGroup} /\ k[2] \in Domains
           /\ k = <<k[1], k[2]>> /\ Hash[k] \in Shards
BY ShardsAssumption DEF CacheKeys, Plain

\* The segments of each kind of cache.
LEMMA SegIdsAre ==
    ASSUME NEW c, Shaped(c)
    PROVE  /\ Tiny(c) => SegIds(c.policy) = {Window, Probation, Protected}
           /\ c.policy.kind = "lru" => SegIds(c.policy) = {NoGroup} \X Shards
           /\ c.policy.kind = "partitioned" => SegIds(c.policy) = c.policy.parts \X Shards
           /\ Tiny(c) \/ c.policy.kind = "lru" \/ c.policy.kind = "partitioned"
           /\ Window # Probation /\ Window # Protected /\ Probation # Protected
<1>1. c.policy.kind \in {"tinylfu", "lru", "partitioned"}
  BY PolicyIs DEF Shaped
<1>2. Window # Probation /\ Window # Protected /\ Probation # Protected
  BY DEF Window, Probation, Protected
<1> QED
  BY <1>1, <1>2 DEF SegIds, Tiny

\* A key is looked for in segments that there are, one alone unless it is W-TinyLFU.
LEMMA HomesAre ==
    ASSUME NEW c, Shaped(c), NEW k \in CacheKeys
    PROVE  /\ Homes(c, k) \subseteq SegIds(c.policy) /\ Homes(c, k) # {}
           /\ StoredKey(c, k) \in CacheKeys /\ StoredKey(c, k)[2] = k[2]
           /\ Tiny(c) => Homes(c, k) = SegIds(c.policy)
           /\ ~Tiny(c) => \A s, t \in Homes(c, k) : s = t
<1>1. Plain(k) \in CacheKeys /\ Plain(k)[2] = k[2]
  BY KeyIs DEF Plain
<1>2. Hash[k] \in Shards /\ Hash[Plain(k)] \in Shards
  BY <1>1, KeyIs
<1>3. StoredKey(c, k) \in CacheKeys /\ StoredKey(c, k)[2] = k[2]
  BY <1>1 DEF StoredKey
<1>4. CASE Tiny(c)
  BY <1>3, <1>4, SegIdsAre DEF Homes, Tiny
<1>5. CASE ~Tiny(c) /\ c.policy.kind = "lru"
  BY <1>2, <1>3, <1>5, SegIdsAre DEF Homes, Tiny
<1>6. CASE ~Tiny(c) /\ c.policy.kind # "lru"
  <2>1. c.policy.parts \in SUBSET Groups /\ c.policy.parts # {} /\ c.policy.kind = "partitioned"
    BY <1>6, SegIdsAre, PolicyIs DEF Shaped
  <2>2. Part(c.policy.parts, k) \in c.policy.parts
    BY <2>1, PartIs
  <2>3. Homes(c, k) = {<<Part(c.policy.parts, k), Hash[Plain(k)]>>}
    BY <1>6 DEF Homes
  <2> QED
    BY <1>2, <1>3, <1>6, <2>1, <2>2, <2>3, SegIdsAre
<1> HIDE DEF Tiny
<1>7. Tiny(c) \/ ~Tiny(c)
  OBVIOUS
<1> QED
  BY <1>4, <1>5, <1>6, <1>7

\* The entry found for a key is in the segment found for it.
LEMMA HasIs ==
    ASSUME NEW c, Shaped(c), NEW k \in CacheKeys
    PROVE  /\ Has(c, k) => /\ Seg(c, k) \in Homes(c, k) /\ Seg(c, k) \in SegIds(c.policy)
                           /\ Item(c, k) \in ToSet(c.segs[Seg(c, k)])
                           /\ Item(c, k).key = StoredKey(c, k) /\ Item(c, k) \in Cached
           /\ Has(c, k) <=> \E s \in Homes(c, k) : \E i \in ToSet(c.segs[s]) : i.key = StoredKey(c, k)
<1>1. Has(c, k) <=> \E s \in Homes(c, k) : \E i \in ToSet(c.segs[s]) : i.key = StoredKey(c, k)
  BY DEF Has, Holding
<1>2. ASSUME Has(c, k)
      PROVE  /\ Seg(c, k) \in Homes(c, k) /\ Seg(c, k) \in SegIds(c.policy)
             /\ Item(c, k) \in ToSet(c.segs[Seg(c, k)]) /\ Item(c, k).key = StoredKey(c, k)
  <2>1. Seg(c, k) \in Holding(c, k)
    BY <1>2 DEF Has, Seg
  <2>2. Seg(c, k) \in Homes(c, k) /\ \E i \in ToSet(c.segs[Seg(c, k)]) : i.key = StoredKey(c, k)
    BY <2>1 DEF Holding
  <2> QED
    BY <2>2, HomesAre DEF Item
<1>3. ASSUME Has(c, k) PROVE Item(c, k) \in Cached
  BY <1>2, <1>3, ListIs DEF Shaped
<1> QED
  BY <1>1, <1>2, <1>3

\* A step that handles each segment for itself.
LEMMA ListwiseRest ==
    ASSUME NEW c, Shaped(c), NEW f \in [SegIds(c.policy) -> Seq(Cached)],
           \A s \in SegIds(c.policy) : /\ ToSet(f[s]) \subseteq ToSet(c.segs[s])
                                       /\ Distinct(c.segs[s]) => Distinct(f[s])
    PROVE  Rest([c EXCEPT !.segs = f], c) /\ [c EXCEPT !.segs = f].segs = f
<1> DEFINE e == [c EXCEPT !.segs = f]
<1>1. e = [policy |-> c.policy, size |-> c.size, window |-> c.window, segs |-> f]
  <2>1. c = [policy |-> c.policy, size |-> c.size, window |-> c.window, segs |-> c.segs]
    BY DEF Shaped
  <2> QED
    BY <2>1
<1> HIDE DEF e
<1>2. e.policy = c.policy /\ e.size = c.size /\ e.window = c.window /\ e.segs = f
  BY <1>1
<1>3. Shaped(e)
  BY <1>1, <1>2 DEF Shaped
<1>4. Alone(c) => Alone(e)
  BY <1>2 DEF Alone, Apart, Tiny
<1> QED
  BY <1>2, <1>3, <1>4 DEF Rest, e

\* A step of W-TinyLFU that gives it three new lists.
With(c, w, pb, pt) == [c EXCEPT !.segs[Window] = w, !.segs[Probation] = pb, !.segs[Protected] = pt]

\* Three lists made of the entries of a W-TinyLFU cache, in place of its segments.
LEMMA TinyRest ==
    ASSUME NEW c, Shaped(c), Tiny(c),
           NEW w \in Seq(Cached), NEW pb \in Seq(Cached), NEW pt \in Seq(Cached),
           ToSet(w) \cup ToSet(pb) \cup ToSet(pt) \subseteq
               ToSet(c.segs[Window]) \cup ToSet(c.segs[Probation]) \cup ToSet(c.segs[Protected]),
           Alone(c) => /\ Distinct(w) /\ Distinct(pb) /\ Distinct(pt)
                       /\ Apart(w, pb) /\ Apart(w, pt) /\ Apart(pb, pt)
    PROVE  LET e == With(c, w, pb, pt)
           IN  Rest(e, c) /\ e.segs[Window] = w /\ e.segs[Probation] = pb /\ e.segs[Protected] = pt
<1> DEFINE e == With(c, w, pb, pt)
           f == [s \in SegIds(c.policy) |-> IF s = Window THEN w ELSE IF s = Probation THEN pb ELSE pt]
<1>0. /\ SegIds(c.policy) = {Window, Probation, Protected}
      /\ Window # Probation /\ Window # Protected /\ Probation # Protected
  BY SegIdsAre
<1>1. f \in [SegIds(c.policy) -> Seq(Cached)] /\ f[Window] = w /\ f[Probation] = pb /\ f[Protected] = pt
  BY <1>0
<1>2. e = [policy |-> c.policy, size |-> c.size, window |-> c.window, segs |-> f]
  <2>1. [[[c.segs EXCEPT ![Window] = w] EXCEPT ![Probation] = pb] EXCEPT ![Protected] = pt] = f
    BY <1>0 DEF Shaped
  <2>2. e = [c EXCEPT !.segs =
               [[[c.segs EXCEPT ![Window] = w] EXCEPT ![Probation] = pb] EXCEPT ![Protected] = pt]]
    BY DEF Shaped, With
  <2> HIDE DEF e, f
  <2> QED
    BY <2>1, <2>2 DEF Shaped
<1> HIDE DEF e, f
<1>3. e.policy = c.policy /\ e.size = c.size /\ e.window = c.window /\ e.segs = f
  BY <1>2
<1>4. Shaped(e)
  BY <1>1, <1>2, <1>3 DEF Shaped
<1>5. ASSUME Alone(c) PROVE Alone(e)
  <2>1. \A s \in {Window, Probation, Protected} : Distinct(f[s])
    BY <1>1, <1>5
  <2>2. \A s, t \in {Window, Probation, Protected} : s # t => Apart(f[s], f[t])
    BY <1>1, <1>5 DEF Apart
  <2> QED
    BY <1>0, <1>3, <2>1, <2>2 DEF Alone
<1>6. \A s \in SegIds(c.policy) : \A i \in ToSet(f[s]) : \E t \in SegIds(c.policy) : i \in ToSet(c.segs[t])
  BY <1>0, <1>1
<1> QED
  BY <1>1, <1>3, <1>4, <1>5, <1>6 DEF Rest, e

\* What is left of what is left.
LEMMA RestTrans ==
    ASSUME NEW c, NEW d, NEW e, Rest(d, c), Rest(e, d)
    PROVE  Rest(e, c)
<1>1. ASSUME NEW s \in SegIds(c.policy), NEW i \in ToSet(e.segs[s])
      PROVE  \E t \in SegIds(c.policy) : i \in ToSet(c.segs[t]) /\ (s = t \/ Tiny(c))
  <2>1. PICK u \in SegIds(c.policy) : i \in ToSet(d.segs[u]) /\ (s = u \/ Tiny(d))
    BY <1>1 DEF Rest
  <2>2. PICK t \in SegIds(c.policy) : i \in ToSet(c.segs[t]) /\ (u = t \/ Tiny(c))
    BY <2>1 DEF Rest
  <2> QED
    BY <2>1, <2>2 DEF Rest, Tiny
<1> QED
  BY <1>1 DEF Rest

\* A cache is what is left of itself.
LEMMA RestSelf ==
    ASSUME NEW c, Shaped(c)
    PROVE  Rest(c, c)
BY DEF Rest

\* What is left of a cache is placed as it was, and hides no entry that was not hidden.
LEMMA RestIs ==
    ASSUME NEW c, NEW e, Shaped(c), Rest(e, c)
    PROVE  /\ Placed(c) => Placed(e)
           /\ Shadowed(e) \subseteq Shadowed(c)
<1>1. \A k : Homes(e, k) = Homes(c, k) /\ StoredKey(e, k) = StoredKey(c, k)
  BY DEF Rest, Homes, StoredKey, Tiny
<1>2. \A s, i : ReportedKey(e, s, i) = ReportedKey(c, s, i)
  BY DEF Rest, ReportedKey
<1>3. \A s, t, i : Tiny(c) => ReportedKey(c, s, i) = ReportedKey(c, t, i)
  BY DEF Tiny, ReportedKey
<1>4. Tiny(c) => \A k : Homes(c, k) = SegIds(c.policy)
  BY DEF Homes, Tiny
<1>5. ASSUME Placed(c), NEW s \in SegIds(c.policy), NEW i \in ToSet(e.segs[s])
      PROVE  s \in Homes(c, ReportedKey(c, s, i)) /\ i.key = StoredKey(c, ReportedKey(c, s, i))
  <2>1. PICK t \in SegIds(c.policy) : i \in ToSet(c.segs[t]) /\ (s = t \/ Tiny(c))
    BY <1>5 DEF Rest
  <2>2. t \in Homes(c, ReportedKey(c, t, i)) /\ i.key = StoredKey(c, ReportedKey(c, t, i))
    BY <1>5, <2>1 DEF Placed
  <2>3. ReportedKey(c, s, i) = ReportedKey(c, t, i)
    BY <1>3, <2>1
  <2> QED
    BY <1>4, <1>5, <2>1, <2>2, <2>3
<1>6. Placed(c) => Placed(e)
  <2>1. HAVE Placed(c)
  <2>2. SegIds(e.policy) = SegIds(c.policy)
    BY DEF Rest
  <2>3. \A s \in SegIds(e.policy) : \A i \in ToSet(e.segs[s]) :
            s \in Homes(e, ReportedKey(e, s, i)) /\ i.key = StoredKey(e, ReportedKey(e, s, i))
    BY <1>1, <1>2, <1>5, <2>1, <2>2
  <2> QED
    BY <2>3 DEF Placed
<1>7. ASSUME NEW d \in Domains, NEW s \in DOMAIN e.segs, NEW i \in ToSet(e.segs[s]),
             i.key[2] = d, ~(i.key = <<NoGroup, d>> /\ s \in Homes(e, <<NoGroup, d>>))
      PROVE  d \in Shadowed(c)
  <2>0. DOMAIN e.segs = SegIds(c.policy) /\ DOMAIN c.segs = SegIds(c.policy)
    BY DEF Rest, Shaped
  <2>1. PICK t \in SegIds(c.policy) : i \in ToSet(c.segs[t]) /\ (s = t \/ Tiny(c))
    BY <1>7, <2>0 DEF Rest
  <2>2. ~(i.key = <<NoGroup, d>> /\ t \in Homes(c, <<NoGroup, d>>))
    BY <1>1, <1>4, <1>7, <2>0, <2>1
  <2> QED
    BY <1>7, <2>0, <2>1, <2>2 DEF Shadowed
<1>8. Shadowed(e) \subseteq Shadowed(c)
  BY <1>7 DEF Shadowed
<1> QED
  BY <1>6, <1>8

\* The smaller of two numbers.
LEMMA MinTwoIs ==
    ASSUME NEW m \in Nat, NEW n \in Nat
    PROVE  Min({m, n}) = IF m <= n THEN m ELSE n
<1>1. {m, n} \in SUBSET Nat /\ {m, n} # {}
  OBVIOUS
<1>2. PICK x \in {m, n} : \A y \in {m, n} : x <= y
  BY <1>1, Smallest
<1>3. Min({m, n}) \in {m, n} /\ \A y \in {m, n} : Min({m, n}) <= y
  BY <1>2 DEF Min
<1> QED
  BY <1>3

\* Subtraction that stops at zero.
LEMMA MinusIs ==
    ASSUME NEW m \in Nat, NEW n \in Nat
    PROVE  Minus(m, n) \in Nat /\ Minus(m, n) = (IF m > n THEN m - n ELSE 0)
BY DEF Minus

\* Parts of lists that share no key share none.
LEMMA ApartIs ==
    ASSUME NEW p, NEW q, NEW r, NEW s, Apart(p, q), ToSet(r) \subseteq ToSet(p), ToSet(s) \subseteq ToSet(q)
    PROVE  Apart(r, s) /\ Apart(s, r)
BY DEF Apart

\* What leaves the end of a list, and what stays.
LEMMA CutIs ==
    ASSUME NEW q \in Seq(Cached), NEW n \in Nat
    PROVE  LET r == LastOnes(q, n)
               p == SubSeq(q, 1, Len(q) - Len(r))
           IN  /\ p \in Seq(Cached) /\ ToSet(p) \subseteq ToSet(q)
               /\ Distinct(q) => Distinct(p) /\ Apart(p, r)
               /\ Len(q) <= n => p = <<>>
<1> DEFINE r == LastOnes(q, n)
           p == SubSeq(q, 1, Len(q) - Len(r))
<1>0. Len(q) \in Nat /\ r \in Seq(Cached) /\ Len(r) = IF Len(q) <= n THEN Len(q) ELSE n
  BY ListIs, LastOnesIs
<1>1. Len(q) - Len(r) \in 0..Len(q) /\ 1 \in Nat \ {0}
  BY <1>0
<1>2. p \in Seq(Cached) /\ ToSet(p) \subseteq ToSet(q) /\ (Distinct(q) => Distinct(p))
  BY <1>1, SubSeqIs
<1>3. ASSUME Len(q) <= n PROVE p = <<>> /\ Apart(p, r)
  <2>1. Len(q) - Len(r) < 1 /\ Len(q) - Len(r) \in Int /\ 1 \in Int
    BY <1>0, <1>3
  <2>2. p = <<>>
    BY <2>1, SubSeqEmpty
  <2>3. ToSet(p) = {}
    BY <2>2, NoneIs
  <2> QED
    BY <2>2, <2>3 DEF Apart
<1>4. ASSUME Distinct(q), Len(q) > n PROVE Apart(p, r)
  <2> DEFINE m == Len(q) - n + 1
  <2>1. r = SubSeq(q, m, Len(q)) /\ m \in Nat \ {0} /\ Len(q) \in 0..Len(q) /\ Len(q) - Len(r) < m
    BY <1>0, <1>4 DEF LastOnes
  <2> HIDE DEF m, r
  <2> QED
    BY <1>1, <1>4, <2>1, PiecesApart
<1> QED
  BY <1>0, <1>2, <1>3, <1>4

\* The lists after the first loop of the eviction.
LEMMA AdmitLists ==
    ASSUME NEW w \in Seq(Cached), NEW pb \in Seq(Cached), NEW pt \in Seq(Cached),
           NEW a \in Nat, NEW b \in Nat, NEW o \in Nat, a <= b, b <= o, o <= Len(w), NEW n \in Nat, NEW S
    PROVE  LET w2 == SubSeq(w, o + 1, Len(w))
               b2 == LastOnes(pb \o SubSeq(w, 1, a) \o Only(SubSeq(w, b + 1, o), S), n)
               t2 == pt \o SubSeq(w, a + 1, b)
           IN  /\ w2 \in Seq(Cached) /\ b2 \in Seq(Cached) /\ t2 \in Seq(Cached)
               /\ ToSet(w2) \subseteq ToSet(w) /\ ToSet(t2) \subseteq ToSet(pt) \cup ToSet(w)
               /\ ToSet(b2) \subseteq ToSet(pb) \cup ToSet(w)
               /\ Distinct(w) /\ Distinct(pb) /\ Distinct(pt) /\ Apart(w, pb) /\ Apart(w, pt) /\ Apart(pb, pt)
                  => /\ Distinct(w2) /\ Distinct(b2) /\ Distinct(t2)
                     /\ Apart(w2, b2) /\ Apart(w2, t2) /\ Apart(b2, t2)
<1> DEFINE p1 == SubSeq(w, 1, a)
           p2 == SubSeq(w, a + 1, b)
           p3 == SubSeq(w, b + 1, o)
           w2 == SubSeq(w, o + 1, Len(w))
           l3 == Only(p3, S)
           lb == pb \o p1 \o l3
           b2 == LastOnes(lb, n)
           t2 == pt \o p2
<1>0. /\ Len(w) \in Nat /\ 1 \in Nat \ {0} /\ a + 1 \in Nat \ {0} /\ b + 1 \in Nat \ {0} /\ o + 1 \in Nat \ {0}
      /\ a \in 0..Len(w) /\ b \in 0..Len(w) /\ o \in 0..Len(w) /\ Len(w) \in 0..Len(w)
      /\ a < a + 1 /\ a < b + 1 /\ a < o + 1 /\ b < b + 1 /\ b < o + 1 /\ o < o + 1
  <2>1. Len(w) \in Nat
    BY ListIs
  <2> QED
    BY <2>1
<1>1. /\ p1 \in Seq(Cached) /\ p2 \in Seq(Cached) /\ p3 \in Seq(Cached) /\ w2 \in Seq(Cached)
      /\ ToSet(p1) \subseteq ToSet(w) /\ ToSet(p2) \subseteq ToSet(w) /\ ToSet(p3) \subseteq ToSet(w)
      /\ ToSet(w2) \subseteq ToSet(w)
      /\ Distinct(w) => Distinct(p1) /\ Distinct(p2) /\ Distinct(p3) /\ Distinct(w2)
  <2>1. p1 \in Seq(Cached) /\ ToSet(p1) \subseteq ToSet(w) /\ (Distinct(w) => Distinct(p1))
    BY <1>0, SubSeqIs
  <2>2. p2 \in Seq(Cached) /\ ToSet(p2) \subseteq ToSet(w) /\ (Distinct(w) => Distinct(p2))
    BY <1>0, SubSeqIs
  <2>3. p3 \in Seq(Cached) /\ ToSet(p3) \subseteq ToSet(w) /\ (Distinct(w) => Distinct(p3))
    BY <1>0, SubSeqIs
  <2>4. w2 \in Seq(Cached) /\ ToSet(w2) \subseteq ToSet(w) /\ (Distinct(w) => Distinct(w2))
    BY <1>0, SubSeqIs
  <2> QED
    BY <2>1, <2>2, <2>3, <2>4
<1>2. ASSUME Distinct(w)
      PROVE  /\ Apart(p1, p2) /\ Apart(p1, p3) /\ Apart(p1, w2) /\ Apart(p2, w2) /\ Apart(p3, w2)
             /\ Apart(p3, p2)
  <2>1. Apart(p1, p2)
    BY <1>0, <1>2, PiecesApart
  <2>2. Apart(p1, p3)
    BY <1>0, <1>2, PiecesApart
  <2>3. Apart(p1, w2)
    BY <1>0, <1>2, PiecesApart
  <2>4. Apart(p2, w2)
    BY <1>0, <1>2, PiecesApart
  <2>5. Apart(p3, w2)
    BY <1>0, <1>2, PiecesApart
  <2>6. Apart(p3, p2)
    BY <1>0, <1>2, PiecesApart
  <2> QED
    BY <2>1, <2>2, <2>3, <2>4, <2>5, <2>6
<1> HIDE DEF p1, p2, p3, w2
<1>3. l3 \in Seq(Cached) /\ ToSet(l3) \subseteq ToSet(p3) /\ (Distinct(p3) => Distinct(l3))
  <2>1. p3 \in Seq(Cached)
    BY <1>1
  <2>2. l3 \in Seq(Cached) /\ ToSet(l3) = ToSet(p3) \cap S /\ (Distinct(p3) => Distinct(l3))
    BY <2>1, OnlyIs
  <2> QED
    BY <2>2
<1> HIDE DEF l3
<1>4. /\ pb \o p1 \in Seq(Cached) /\ ToSet(pb \o p1) = ToSet(pb) \cup ToSet(p1)
      /\ Distinct(pb) /\ Distinct(p1) /\ Apart(pb, p1) => Distinct(pb \o p1)
  BY <1>1, ConcatIs
<1>5. /\ lb \in Seq(Cached) /\ ToSet(lb) = ToSet(pb) \cup ToSet(p1) \cup ToSet(l3)
      /\ Distinct(pb \o p1) /\ Distinct(l3) /\ Apart(pb \o p1, l3) => Distinct(lb)
  BY <1>3, <1>4, ConcatIs
<1>6. /\ t2 \in Seq(Cached) /\ ToSet(t2) = ToSet(pt) \cup ToSet(p2)
      /\ Distinct(pt) /\ Distinct(p2) /\ Apart(pt, p2) => Distinct(t2)
  BY <1>1, ConcatIs
<1>7. b2 \in Seq(Cached) /\ ToSet(b2) \subseteq ToSet(lb) /\ (Distinct(lb) => Distinct(b2))
  BY <1>5, LastOnesIs
<1>8. ASSUME Distinct(w), Distinct(pb), Distinct(pt), Apart(w, pb), Apart(w, pt), Apart(pb, pt)
      PROVE  /\ Distinct(w2) /\ Distinct(b2) /\ Distinct(t2)
             /\ Apart(w2, b2) /\ Apart(w2, t2) /\ Apart(b2, t2)
  <2> HIDE DEF lb, b2, t2
  <2>1. Distinct(pb \o p1)
    <3>1. Apart(pb, p1)
      BY <1>1, <1>8, ApartIs
    <3> QED
      BY <1>1, <1>4, <1>8, <3>1
  <2>2. Distinct(lb)
    <3>1. Apart(pb \o p1, l3)
      BY <1>1, <1>2, <1>3, <1>4, <1>8 DEF Apart
    <3> QED
      BY <1>1, <1>3, <1>5, <1>8, <2>1, <3>1
  <2>3. Distinct(t2)
    <3>1. Apart(pt, p2)
      BY <1>1, <1>8, ApartIs
    <3> QED
      BY <1>1, <1>6, <1>8, <3>1
  <2>4. Apart(w2, lb)
    BY <1>1, <1>2, <1>3, <1>5, <1>8 DEF Apart
  <2>5. Apart(w2, t2)
    BY <1>1, <1>2, <1>6, <1>8 DEF Apart
  <2>6. Apart(lb, t2)
    BY <1>1, <1>2, <1>3, <1>5, <1>6, <1>8 DEF Apart
  <2>7. Apart(w2, b2) /\ Apart(b2, t2)
    BY <1>7, <2>4, <2>6, ApartIs
  <2> QED
    BY <1>1, <1>7, <1>8, <2>2, <2>3, <2>5, <2>7
<1>9. ToSet(t2) \subseteq ToSet(pt) \cup ToSet(w) /\ ToSet(b2) \subseteq ToSet(pb) \cup ToSet(w)
  BY <1>1, <1>3, <1>5, <1>6, <1>7
<1>10. w2 \in Seq(Cached) /\ ToSet(w2) \subseteq ToSet(w)
  BY <1>1
<1> HIDE DEF b2, t2
<1>11. b2 \in Seq(Cached) /\ t2 \in Seq(Cached)
  BY <1>6, <1>7
<1>12. /\ w2 \in Seq(Cached) /\ b2 \in Seq(Cached) /\ t2 \in Seq(Cached)
       /\ ToSet(w2) \subseteq ToSet(w) /\ ToSet(t2) \subseteq ToSet(pt) \cup ToSet(w)
       /\ ToSet(b2) \subseteq ToSet(pb) \cup ToSet(w)
       /\ Distinct(w) /\ Distinct(pb) /\ Distinct(pt) /\ Apart(w, pb) /\ Apart(w, pt) /\ Apart(pb, pt)
          => /\ Distinct(w2) /\ Distinct(b2) /\ Distinct(t2)
             /\ Apart(w2, b2) /\ Apart(w2, t2) /\ Apart(b2, t2)
  BY <1>8, <1>9, <1>10, <1>11
<1> QED
  BY <1>12 DEF w2, b2, t2, lb, l3, p1, p2, p3

\* The lists of W-TinyLFU.
LEMMA TinyIs ==
    ASSUME NEW c, Shaped(c), Tiny(c)
    PROVE  /\ c.segs[Window] \in Seq(Cached) /\ c.segs[Probation] \in Seq(Cached)
           /\ c.segs[Protected] \in Seq(Cached)
           /\ Alone(c) <=> LET w == c.segs[Window]
                               b == c.segs[Probation]
                               t == c.segs[Protected]
                           IN  /\ Distinct(w) /\ Distinct(b) /\ Distinct(t)
                               /\ Apart(w, b) /\ Apart(w, t) /\ Apart(b, t)
<1>1. /\ SegIds(c.policy) = {Window, Probation, Protected}
      /\ Window # Probation /\ Window # Protected /\ Probation # Protected
  BY SegIdsAre
<1>2. /\ c.segs[Window] \in Seq(Cached) /\ c.segs[Probation] \in Seq(Cached)
      /\ c.segs[Protected] \in Seq(Cached)
  BY <1>1 DEF Shaped
<1>3. \A p, q : Apart(p, q) => Apart(q, p)
  BY DEF Apart
<1> QED
  BY <1>1, <1>2, <1>3 DEF Alone

\* The first loop of the eviction of W-TinyLFU adds nothing.
LEMMA AdmitRest ==
    ASSUME NEW c, Shaped(c), Tiny(c), NEW e \in Admit(c)
    PROVE  Rest(e, c)
<1> DEFINE w == c.segs[Window]
           pb == c.segs[Probation]
           pt == c.segs[Protected]
           over == Minus(Len(w), Caps(c).win)
           a == Min({over, Minus(Caps(c).prob, Len(pb))})
           b == Min({over, a + Minus(MainCap(c), Len(pb) + a + Len(pt))})
           w2 == SubSeq(w, over + 1, Len(w))
           b2(S) == LastOnes(pb \o SubSeq(w, 1, a) \o Only(SubSeq(w, b + 1, over), S), Len(pb) + a)
           t2 == pt \o SubSeq(w, a + 1, b)
<1>1. PICK S : e = With(c, w2, b2(S), t2)
  <2>1. \E S : e = [c EXCEPT !.segs[Window] = w2, !.segs[Probation] = b2(S), !.segs[Protected] = t2]
    BY DEF Admit
  <2> HIDE DEF w2, b2, t2
  <2> QED
    BY <2>1 DEF With
<1>2. w \in Seq(Cached) /\ pb \in Seq(Cached) /\ pt \in Seq(Cached)
  BY TinyIs
<1> HIDE DEF w, pb, pt
<1>3. Len(w) \in Nat /\ Len(pb) \in Nat /\ Len(pt) \in Nat
  BY <1>2, ListIs
<1>4. Caps(c).win \in Nat /\ Caps(c).prob \in Nat /\ MainCap(c) \in Nat
  BY CapsAre DEF MainCap
<1>5. over \in Nat /\ over <= Len(w)
  <2>1. over \in Nat /\ over = IF Len(w) > Caps(c).win THEN Len(w) - Caps(c).win ELSE 0
    BY <1>3, <1>4, MinusIs
  <2> HIDE DEF over
  <2> QED
    BY <1>3, <1>4, <2>1
<1> HIDE DEF over
<1>6. a \in Nat /\ a <= over
  <2>1. Minus(Caps(c).prob, Len(pb)) \in Nat
    BY <1>3, <1>4, MinusIs
  <2> QED
    BY <1>5, <2>1, MinTwoIs
<1> HIDE DEF a
<1>7. b \in Nat /\ a <= b /\ b <= over
  <2>0. Len(pb) + a + Len(pt) \in Nat
    BY <1>3, <1>6
  <2>1. Minus(MainCap(c), Len(pb) + a + Len(pt)) \in Nat
    BY <1>4, <2>0, MinusIs
  <2>2. a + Minus(MainCap(c), Len(pb) + a + Len(pt)) \in Nat
    BY <1>6, <2>1
  <2> QED
    BY <1>5, <1>6, <2>1, <2>2, MinTwoIs
<1> HIDE DEF b
<1>8. Len(pb) + a \in Nat
  BY <1>3, <1>6
<1>9. /\ w2 \in Seq(Cached) /\ b2(S) \in Seq(Cached) /\ t2 \in Seq(Cached)
      /\ ToSet(w2) \subseteq ToSet(w) /\ ToSet(t2) \subseteq ToSet(pt) \cup ToSet(w)
      /\ ToSet(b2(S)) \subseteq ToSet(pb) \cup ToSet(w)
      /\ Distinct(w) /\ Distinct(pb) /\ Distinct(pt) /\ Apart(w, pb) /\ Apart(w, pt) /\ Apart(pb, pt)
         => /\ Distinct(w2) /\ Distinct(b2(S)) /\ Distinct(t2)
            /\ Apart(w2, b2(S)) /\ Apart(w2, t2) /\ Apart(b2(S), t2)
  BY <1>2, <1>5, <1>6, <1>7, <1>8, AdmitLists
<1> HIDE DEF w2, b2, t2
<1>10. Alone(c) => /\ Distinct(w) /\ Distinct(pb) /\ Distinct(pt)
                   /\ Apart(w, pb) /\ Apart(w, pt) /\ Apart(pb, pt)
  BY TinyIs DEF w, pb, pt
<1>11. ToSet(w2) \cup ToSet(b2(S)) \cup ToSet(t2) \subseteq
           ToSet(c.segs[Window]) \cup ToSet(c.segs[Probation]) \cup ToSet(c.segs[Protected])
  BY <1>9 DEF w, pb, pt
<1> QED
  BY <1>1, <1>9, <1>10, <1>11, TinyRest

\* Nor do the two others.
LEMMA DemoteRest ==
    ASSUME NEW c, Shaped(c), Tiny(c)
    PROVE  Rest(Demote(c), c)
<1> DEFINE w == c.segs[Window]
           pb == c.segs[Probation]
           pt == c.segs[Protected]
           kept == LastOnes(pt, Caps(c).prot)
           first == SubSeq(pt, 1, Len(pt) - Len(kept))
           back == Reverse(first)
           lb == back \o pb
           b2 == LastOnes(lb, Caps(c).prob)
<1>1. w \in Seq(Cached) /\ pb \in Seq(Cached) /\ pt \in Seq(Cached)
  BY TinyIs
<1>2. Caps(c).prot \in Nat /\ Caps(c).prob \in Nat
  BY CapsAre
<1>3. Demote(c) = [c EXCEPT !.segs[Protected] = kept, !.segs[Probation] = b2]
  <2>1. SegIds(c.policy) = {Window, Probation, Protected} /\ Probation # Protected
    BY SegIdsAre
  <2> HIDE DEF kept, back
  <2>2. [c.segs EXCEPT ![Protected] = kept][Probation] = c.segs[Probation]
    BY <2>1 DEF Shaped
  <2> QED
    BY <2>2 DEF Demote, kept, back
<1>4. Demote(c) = With(c, w, b2, kept)
  <2>1. /\ SegIds(c.policy) = {Window, Probation, Protected}
        /\ Window # Probation /\ Window # Protected /\ Probation # Protected
    BY SegIdsAre
  <2> HIDE DEF kept, b2
  <2>2. [[c.segs EXCEPT ![Protected] = kept] EXCEPT ![Probation] = b2]
            = [[[c.segs EXCEPT ![Window] = w] EXCEPT ![Probation] = b2] EXCEPT ![Protected] = kept]
    BY <2>1 DEF Shaped
  <2> QED
    BY <1>3, <2>2 DEF Shaped, With
<1> HIDE DEF w, pb, pt
<1>5. kept \in Seq(Cached) /\ ToSet(kept) \subseteq ToSet(pt) /\ (Distinct(pt) => Distinct(kept))
  BY <1>1, <1>2, LastOnesIs
<1>6. /\ first \in Seq(Cached) /\ ToSet(first) \subseteq ToSet(pt)
      /\ Distinct(pt) => Distinct(first) /\ Apart(first, kept)
  BY <1>1, <1>2, CutIs
<1> HIDE DEF kept, first
<1>7. back \in Seq(Cached) /\ ToSet(back) = ToSet(first) /\ (Distinct(first) => Distinct(back))
  BY <1>6, ReverseIs
<1> HIDE DEF back
<1>8. /\ lb \in Seq(Cached) /\ ToSet(lb) = ToSet(back) \cup ToSet(pb)
      /\ Distinct(back) /\ Distinct(pb) /\ Apart(back, pb) => Distinct(lb)
  BY <1>1, <1>7, ConcatIs
<1> HIDE DEF lb
<1>9. b2 \in Seq(Cached) /\ ToSet(b2) \subseteq ToSet(lb) /\ (Distinct(lb) => Distinct(b2))
  BY <1>2, <1>8, LastOnesIs
<1> HIDE DEF b2
<1>10. ASSUME Alone(c)
       PROVE  /\ Distinct(w) /\ Distinct(b2) /\ Distinct(kept)
              /\ Apart(w, b2) /\ Apart(w, kept) /\ Apart(b2, kept)
  <2>1. /\ Distinct(w) /\ Distinct(pb) /\ Distinct(pt)
        /\ Apart(w, pb) /\ Apart(w, pt) /\ Apart(pb, pt)
    BY <1>10, TinyIs DEF w, pb, pt
  <2>2. Apart(back, pb)
    BY <1>6, <1>7, <2>1, ApartIs
  <2>3. Apart(lb, kept)
    BY <1>5, <1>6, <1>7, <1>8, <2>1 DEF Apart
  <2>4. Apart(w, lb)
    BY <1>6, <1>7, <1>8, <2>1 DEF Apart
  <2>5. Apart(w, b2) /\ Apart(b2, kept)
    BY <1>9, <2>3, <2>4, ApartIs
  <2>6. Apart(w, kept)
    BY <1>5, <2>1, ApartIs
  <2> QED
    BY <1>5, <1>6, <1>7, <1>8, <1>9, <2>1, <2>2, <2>5, <2>6
<1>11. ToSet(w) \cup ToSet(b2) \cup ToSet(kept) \subseteq
           ToSet(c.segs[Window]) \cup ToSet(c.segs[Probation]) \cup ToSet(c.segs[Protected])
  BY <1>5, <1>6, <1>7, <1>8, <1>9 DEF w, pb, pt
<1> QED
  BY <1>1, <1>4, <1>5, <1>9, <1>10, <1>11, TinyRest

\* An eviction leaves some of the entries.
LEMMA EvictRest ==
    ASSUME NEW c, Shaped(c), NEW e \in Evict(c)
    PROVE  Rest(e, c)
<1>1. CASE Tiny(c)
  <2>1. PICK d \in Admit(c) : e = Demote(d)
    BY <1>1 DEF Evict
  <2>2. Rest(d, c)
    BY <1>1, AdmitRest
  <2>3. Rest(e, d)
    BY <1>1, <2>1, <2>2, DemoteRest DEF Rest, Tiny
  <2> QED
    BY <2>2, <2>3, RestTrans
<1>2. CASE ~Tiny(c)
  <2> DEFINE n == ShardCap[c.size]
             f == [s \in DOMAIN c.segs |-> LastOnes(c.segs[s], n)]
  <2>1. e = [c EXCEPT !.segs = f]
    BY <1>2 DEF Evict
  <2>2. DOMAIN c.segs = SegIds(c.policy) /\ \A s \in SegIds(c.policy) : c.segs[s] \in Seq(Cached)
    BY DEF Shaped
  <2>3. n \in Nat
    BY CapsAre
  <2>4. \A s \in SegIds(c.policy) : /\ f[s] \in Seq(Cached) /\ ToSet(f[s]) \subseteq ToSet(c.segs[s])
                                    /\ Distinct(c.segs[s]) => Distinct(f[s])
    BY <2>2, <2>3, LastOnesIs
  <2>5. f \in [SegIds(c.policy) -> Seq(Cached)]
    BY <2>2, <2>4
  <2> HIDE DEF f
  <2> QED
    BY <2>1, <2>4, <2>5, ListwiseRest
<1> QED
  BY <1>1, <1>2

\* The head of a list, and the rest of it.
LEMMA HeadIs ==
    ASSUME NEW q \in Seq(Cached), q # <<>>
    PROVE  /\ Head(q) \in Cached /\ Head(q) \in ToSet(q) /\ Tail(q) \in Seq(Cached)
           /\ ToSet(Tail(q)) \subseteq ToSet(q) /\ ToSet(q) \subseteq {Head(q)} \cup ToSet(Tail(q))
           /\ Len(Tail(q)) = Len(q) - 1
           /\ Distinct(q) => Distinct(Tail(q)) /\ \A i \in ToSet(Tail(q)) : i.key # Head(q).key
<1>0. Len(q) \in Nat \ {0} /\ DOMAIN q = 1..Len(q) /\ Head(q) = q[1]
  BY ListIs, EmptySeq
<1>1. Tail(q) = SubSeq(q, 2, Len(q)) /\ Len(Tail(q)) = Len(q) - 1 /\ Head(q) \in Cached
  BY HeadTailProperties, TailIsSubSeq
<1>2. /\ Tail(q) \in Seq(Cached) /\ ToSet(Tail(q)) \subseteq ToSet(q) /\ (Distinct(q) => Distinct(Tail(q)))
      /\ \A i \in ToSet(Tail(q)) : \E j \in 2..Len(q) : q[j] = i
      /\ \A j \in 2..Len(q) : q[j] \in ToSet(Tail(q))
  <2>1. 2 \in Nat \ {0} /\ Len(q) \in 0..Len(q)
    BY <1>0
  <2>2. LET r == SubSeq(q, 2, Len(q))
        IN  /\ r \in Seq(Cached) /\ ToSet(r) \subseteq ToSet(q) /\ (Distinct(q) => Distinct(r))
            /\ \A i \in ToSet(r) : \E j \in 2..Len(q) : q[j] = i
            /\ \A j \in 2..Len(q) : q[j] \in ToSet(r)
    BY <2>1, SubSeqIs
  <2> QED
    BY <1>1, <2>2
<1>3. Head(q) \in ToSet(q)
  BY <1>0, ListIs
<1>4. ToSet(q) \subseteq {Head(q)} \cup ToSet(Tail(q))
  <2>1. SUFFICES ASSUME NEW i \in ToSet(q) PROVE i \in {Head(q)} \cup ToSet(Tail(q))
    OBVIOUS
  <2>2. PICK n \in 1..Len(q) : q[n] = i
    BY ListIs
  <2>3. n = 1 \/ n \in 2..Len(q)
    BY <1>0
  <2> QED
    BY <1>0, <1>2, <2>2, <2>3
<1>5. ASSUME Distinct(q), NEW i \in ToSet(Tail(q)), i.key = Head(q).key PROVE FALSE
  <2>1. PICK j \in 2..Len(q) : q[j] = i
    BY <1>2
  <2>2. j \in DOMAIN q /\ 1 \in DOMAIN q /\ j # 1
    BY <1>0
  <2> QED
    BY <1>0, <1>5, <2>1, <2>2 DEF Distinct
<1> QED
  BY <1>1, <1>2, <1>3, <1>4, <1>5

\* A deletion takes the entry of the key away, and no other.
LEMMA WithoutKeyRest ==
    ASSUME NEW c, Shaped(c), NEW k \in CacheKeys
    PROVE  /\ Rest(WithoutKey(c, k), c)
           /\ \A s \in SegIds(c.policy) : \A i \in ToSet(c.segs[s]) :
                  ~(s \in Homes(c, k) /\ i.key = StoredKey(c, k)) => i \in ToSet(WithoutKey(c, k).segs[s])
           /\ \A s \in Homes(c, k) : \A i \in ToSet(WithoutKey(c, k).segs[s]) : i.key # StoredKey(c, k)
<1> DEFINE f == [s \in DOMAIN c.segs |->
                    IF s \in Homes(c, k) THEN Drop(c.segs[s], StoredKey(c, k)) ELSE c.segs[s]]
<1>1. DOMAIN c.segs = SegIds(c.policy) /\ \A s \in SegIds(c.policy) : c.segs[s] \in Seq(Cached)
  BY DEF Shaped
<1>2. \A s \in SegIds(c.policy) :
          /\ f[s] \in Seq(Cached) /\ (Distinct(c.segs[s]) => Distinct(f[s]))
          /\ ToSet(f[s]) = IF s \in Homes(c, k) THEN {i \in ToSet(c.segs[s]) : i.key # StoredKey(c, k)}
                                                ELSE ToSet(c.segs[s])
  <2> TAKE s \in SegIds(c.policy)
  <2>1. c.segs[s] \in Seq(Cached)
    BY <1>1
  <2>2. f[s] = IF s \in Homes(c, k) THEN Drop(c.segs[s], StoredKey(c, k)) ELSE c.segs[s]
    BY <1>1
  <2> HIDE DEF f
  <2>3. CASE s \in Homes(c, k)
    BY <2>1, <2>2, <2>3, DropIs
  <2>4. CASE s \notin Homes(c, k)
    BY <2>1, <2>2, <2>4
  <2> QED
    BY <2>3, <2>4
<1>3. f \in [SegIds(c.policy) -> Seq(Cached)]
  BY <1>1, <1>2
<1>4. WithoutKey(c, k) = [c EXCEPT !.segs = f]
  BY DEF WithoutKey
<1> HIDE DEF f
<1>5. Rest([c EXCEPT !.segs = f], c) /\ [c EXCEPT !.segs = f].segs = f
  <2>1. \A s \in SegIds(c.policy) : /\ ToSet(f[s]) \subseteq ToSet(c.segs[s])
                                    /\ Distinct(c.segs[s]) => Distinct(f[s])
    BY <1>2
  <2> QED
    BY <1>3, <2>1, ListwiseRest
<1>6. Rest(WithoutKey(c, k), c) /\ WithoutKey(c, k).segs = f
  BY <1>4, <1>5
<1>7. \A s \in SegIds(c.policy) : \A i \in ToSet(c.segs[s]) :
          ~(s \in Homes(c, k) /\ i.key = StoredKey(c, k)) => i \in ToSet(f[s])
  BY <1>2
<1>8. \A s \in Homes(c, k) : \A i \in ToSet(f[s]) : i.key # StoredKey(c, k)
  <2>1. Homes(c, k) \subseteq SegIds(c.policy)
    BY HomesAre
  <2> QED
    BY <1>2, <2>1
<1> QED
  BY <1>6, <1>7, <1>8

\* A cache with one list exchanged.
LEMMA OneList ==
    ASSUME NEW c, Shaped(c), NEW s \in SegIds(c.policy), NEW q \in Seq(Cached)
    PROVE  LET e == [c EXCEPT !.segs[s] = q]
           IN  /\ Shaped(e) /\ e.policy = c.policy /\ e.size = c.size /\ e.window = c.window
               /\ e.segs = [c.segs EXCEPT ![s] = q] /\ e = [c EXCEPT !.segs = [c.segs EXCEPT ![s] = q]]
               /\ e.segs[s] = q /\ \A t \in SegIds(c.policy) : t # s => e.segs[t] = c.segs[t]
<1> DEFINE e == [c EXCEPT !.segs[s] = q]
           f == [c.segs EXCEPT ![s] = q]
<1>1. e = [policy |-> c.policy, size |-> c.size, window |-> c.window, segs |-> f] /\ e = [c EXCEPT !.segs = f]
  <2>1. e = [c EXCEPT !.segs = f]
    BY DEF Shaped
  <2> HIDE DEF e, f
  <2> QED
    BY <2>1 DEF Shaped
<1>2. f \in [SegIds(c.policy) -> Seq(Cached)] /\ f[s] = q /\ \A t \in SegIds(c.policy) : t # s => f[t] = c.segs[t]
  BY DEF Shaped
<1> HIDE DEF e, f
<1>3. e.policy = c.policy /\ e.size = c.size /\ e.window = c.window /\ e.segs = f
  BY <1>1
<1>4. Shaped(e)
  BY <1>1, <1>2, <1>3 DEF Shaped
<1> QED
  BY <1>1, <1>2, <1>3, <1>4 DEF e, f

\* An entry that is moved to the end of its segment stays, and so do the others.
LEMMA MovedRest ==
    ASSUME NEW c, Shaped(c), NEW k \in CacheKeys, Has(c, k)
    PROVE  /\ Rest(MovedToEnd(c, k), c)
           /\ Alone(c) => \A s \in SegIds(c.policy) : ToSet(c.segs[s]) \subseteq ToSet(MovedToEnd(c, k).segs[s])
<1> DEFINE s == Seg(c, k)
           i == Item(c, k)
           p == Drop(c.segs[s], StoredKey(c, k))
           q == Append(p, i)
           f == [c.segs EXCEPT ![s] = q]
<1>0. /\ s \in SegIds(c.policy) /\ i \in ToSet(c.segs[s]) /\ i.key = StoredKey(c, k) /\ i \in Cached
      /\ c.segs[s] \in Seq(Cached)
  BY HasIs DEF Shaped
<1>1. MovedToEnd(c, k) = [c EXCEPT !.segs[s] = q]
  BY DEF MovedToEnd
<1> HIDE DEF s, i
<1>2. /\ p \in Seq(Cached) /\ ToSet(p) = {j \in ToSet(c.segs[s]) : j.key # StoredKey(c, k)}
      /\ Distinct(c.segs[s]) => Distinct(p)
  BY <1>0, DropIs
<1> HIDE DEF p
<1>3. /\ q \in Seq(Cached) /\ ToSet(q) = ToSet(p) \cup {i}
      /\ Distinct(c.segs[s]) => Distinct(q)
  BY <1>0, <1>2, AppendIs
<1> HIDE DEF q
<1>4. [c EXCEPT !.segs[s] = q] = [c EXCEPT !.segs = f]
  BY <1>0, <1>3, OneList
<1>5. f \in [SegIds(c.policy) -> Seq(Cached)] /\ f[s] = q /\ \A t \in SegIds(c.policy) : t # s => f[t] = c.segs[t]
  BY <1>0, <1>3 DEF Shaped
<1> HIDE DEF f
<1>6. Rest([c EXCEPT !.segs = f], c) /\ [c EXCEPT !.segs = f].segs = f
  <2>1. \A t \in SegIds(c.policy) : /\ ToSet(f[t]) \subseteq ToSet(c.segs[t])
                                    /\ Distinct(c.segs[t]) => Distinct(f[t])
    BY <1>0, <1>2, <1>3, <1>5
  <2> QED
    BY <1>5, <2>1, ListwiseRest
<1>7. ASSUME Alone(c), NEW t \in SegIds(c.policy), NEW j \in ToSet(c.segs[t]) PROVE j \in ToSet(f[t])
  <2>1. CASE t # s
    BY <1>5, <1>7, <2>1
  <2>2. CASE t = s /\ j.key = StoredKey(c, k)
    <3>1. j = i
      BY <1>0, <1>7, <2>2 DEF Alone, Distinct, ToSet
    <3> QED
      BY <1>3, <1>5, <2>2, <3>1
  <2>3. CASE t = s /\ j.key # StoredKey(c, k)
    BY <1>2, <1>3, <1>5, <1>7, <2>3
  <2> QED
    BY <2>1, <2>2, <2>3
<1> QED
  BY <1>1, <1>4, <1>6, <1>7

\* An entry that is promoted stays, and so do the others.
LEMMA PromotedRest ==
    ASSUME NEW c, Shaped(c), Tiny(c), NEW k \in CacheKeys, Has(c, k), Seg(c, k) = Probation
    PROVE  /\ Rest(Promoted(c, k), c)
           /\ Alone(c) => \A s \in SegIds(c.policy) : \A i \in ToSet(c.segs[s]) :
                              \E t \in SegIds(c.policy) : i \in ToSet(Promoted(c, k).segs[t])
<1> DEFINE w == c.segs[Window]
           pb == c.segs[Probation]
           pt == c.segs[Protected]
           i == Item(c, k)
           full == Len(pt) >= Caps(c).prot /\ pt # <<>>
           h == IF full THEN <<Head(pt)>> ELSE <<>>
           p == Drop(pb, k)
           b2 == h \o p
           r == IF full THEN Tail(pt) ELSE pt
           t2 == Append(r, i)
<1>0. /\ SegIds(c.policy) = {Window, Probation, Protected}
      /\ Window # Probation /\ Window # Protected /\ Probation # Protected
  BY SegIdsAre
<1>1. w \in Seq(Cached) /\ pb \in Seq(Cached) /\ pt \in Seq(Cached)
  BY TinyIs
<1>2. i \in ToSet(pb) /\ i.key = k /\ i \in Cached
  BY HasIs DEF StoredKey, Tiny
<1>3. Promoted(c, k) = With(c, w, b2, t2)
  <2>1. Promoted(c, k) = [c EXCEPT !.segs[Probation] = b2, !.segs[Protected] = t2]
    BY DEF Promoted
  <2> HIDE DEF b2, i, full, t2
  <2>2. [[c.segs EXCEPT ![Probation] = b2] EXCEPT ![Protected] = t2]
            = [[[c.segs EXCEPT ![Window] = w] EXCEPT ![Probation] = b2] EXCEPT ![Protected] = t2]
    BY <1>0 DEF Shaped
  <2> QED
    BY <2>1, <2>2 DEF Shaped, With
<1> HIDE DEF w, pb, pt, i
<1>4. /\ full => /\ Head(pt) \in Cached /\ Head(pt) \in ToSet(pt)
                 /\ Tail(pt) \in Seq(Cached) /\ ToSet(Tail(pt)) \subseteq ToSet(pt)
                 /\ ToSet(pt) \subseteq {Head(pt)} \cup ToSet(Tail(pt))
                 /\ Distinct(pt) => Distinct(Tail(pt)) /\ \A j \in ToSet(Tail(pt)) : j.key # Head(pt).key
  BY <1>1, HeadIs
<1>5. /\ h \in Seq(Cached) /\ ToSet(h) \subseteq ToSet(pt) /\ Distinct(h)
      /\ r \in Seq(Cached) /\ ToSet(r) \subseteq ToSet(pt) /\ (Distinct(pt) => Distinct(r) /\ Apart(h, r))
      /\ ToSet(pt) \subseteq ToSet(h) \cup ToSet(r)
  <2>1. CASE full
    <3>1. h = <<Head(pt)>> /\ r = Tail(pt)
      BY <2>1
    <3>2. h \in Seq(Cached) /\ ToSet(h) = {Head(pt)} /\ Distinct(h)
      BY <1>4, <2>1, <3>1, OneIs
    <3> HIDE DEF h, r
    <3> QED
      BY <1>4, <2>1, <3>1, <3>2 DEF Apart
  <2>2. CASE ~full
    <3>1. h = <<>> /\ r = pt
      BY <2>2
    <3>2. h \in Seq(Cached) /\ ToSet(h) = {} /\ Distinct(h)
      BY <3>1, NoneIs
    <3> HIDE DEF h, r
    <3> QED
      BY <1>1, <3>1, <3>2 DEF Apart
  <2> HIDE DEF h, r, full
  <2> QED
    BY <2>1, <2>2
<1> HIDE DEF h, r
<1>6. /\ p \in Seq(Cached) /\ ToSet(p) = {j \in ToSet(pb) : j.key # k}
      /\ Distinct(pb) => Distinct(p)
  BY <1>1, DropIs
<1> HIDE DEF p
<1>7. /\ b2 \in Seq(Cached) /\ ToSet(b2) = ToSet(h) \cup ToSet(p)
      /\ Distinct(h) /\ Distinct(p) /\ Apart(h, p) => Distinct(b2)
  BY <1>5, <1>6, ConcatIs
<1>8. /\ t2 \in Seq(Cached) /\ ToSet(t2) = ToSet(r) \cup {i}
      /\ Distinct(r) /\ (\A j \in ToSet(r) : j.key # i.key) => Distinct(t2)
  BY <1>2, <1>5, AppendIs
<1> HIDE DEF b2, t2
<1>9. Alone(c) => /\ Distinct(w) /\ Distinct(b2) /\ Distinct(t2)
                  /\ Apart(w, b2) /\ Apart(w, t2) /\ Apart(b2, t2)
  <2>0. HAVE Alone(c)
  <2>1. /\ Distinct(w) /\ Distinct(pb) /\ Distinct(pt)
        /\ Apart(w, pb) /\ Apart(w, pt) /\ Apart(pb, pt)
    BY <2>0, TinyIs DEF w, pb, pt
  <2>2. Apart(h, p)
    BY <1>5, <1>6, <2>1 DEF Apart
  <2>3. \A j \in ToSet(r) : j.key # i.key
    BY <1>2, <1>5, <2>1 DEF Apart
  <2>4. Apart(w, b2)
    BY <1>5, <1>6, <1>7, <2>1 DEF Apart
  <2>5. Apart(w, t2)
    BY <1>2, <1>5, <1>8, <2>1 DEF Apart
  <2>6. Apart(b2, t2)
    <3>1. Apart(h, r) /\ Apart(p, r)
      BY <1>5, <1>6, <2>1 DEF Apart
    <3>2. \A j \in ToSet(h) : j.key # i.key
      BY <1>2, <1>5, <2>1 DEF Apart
    <3>3. \A j \in ToSet(p) : j.key # i.key
      BY <1>2, <1>6
    <3> QED
      BY <1>7, <1>8, <3>1, <3>2, <3>3 DEF Apart
  <2> QED
    BY <1>5, <1>6, <1>7, <1>8, <2>1, <2>2, <2>3, <2>4, <2>5, <2>6
<1>10. ToSet(w) \cup ToSet(b2) \cup ToSet(t2) \subseteq
           ToSet(c.segs[Window]) \cup ToSet(c.segs[Probation]) \cup ToSet(c.segs[Protected])
  BY <1>2, <1>5, <1>6, <1>7, <1>8 DEF w, pb, pt
<1>12. /\ Rest(Promoted(c, k), c) /\ Promoted(c, k).segs[Window] = w
       /\ Promoted(c, k).segs[Probation] = b2 /\ Promoted(c, k).segs[Protected] = t2
  BY <1>1, <1>3, <1>7, <1>8, <1>9, <1>10, TinyRest
<1>13. ASSUME Alone(c), NEW s \in SegIds(c.policy), NEW j \in ToSet(c.segs[s])
       PROVE  \E t \in SegIds(c.policy) : j \in ToSet(Promoted(c, k).segs[t])
  <2>1. CASE s = Window
    BY <1>0, <1>12, <1>13, <2>1 DEF w
  <2>2. CASE s = Protected
    BY <1>0, <1>5, <1>7, <1>8, <1>12, <1>13, <2>2 DEF pt
  <2>3. CASE s = Probation /\ j.key # k
    BY <1>0, <1>6, <1>7, <1>12, <1>13, <2>3 DEF pb
  <2>4. CASE s = Probation /\ j.key = k
    <3>1. j \in ToSet(pb)
      BY <1>13, <2>4 DEF pb
    <3>2. j = i
      BY <1>0, <1>2, <1>13, <2>4, <3>1 DEF Alone, Distinct, ToSet, pb
    <3> QED
      BY <1>0, <1>8, <1>12, <3>2
  <2> QED
    BY <1>0, <1>13, <2>1, <2>2, <2>3, <2>4
<1> QED
  BY <1>12, <1>13

\* A purge takes only what is past away.
LEMMA PurgedRest ==
    ASSUME NEW c, Shaped(c), NEW k, NEW t, NEW e \in Purged(c, k, t)
    PROVE  /\ Rest(e, c)
           /\ /\ \A s \in SegIds(c.policy) : \A i \in ToSet(c.segs[s]) : ~Past(c, i, t)
              /\ Homes(c, k) \subseteq SegIds(c.policy)
              =>
                  \A s \in SegIds(c.policy) : ToSet(e.segs[s]) = ToSet(c.segs[s]) /\ Len(e.segs[s]) = Len(c.segs[s])
<1> DEFINE past(s) == {i \in ToSet(c.segs[s]) : Past(c, i, t)}
<1>1. DOMAIN c.segs = SegIds(c.policy) /\ \A s \in SegIds(c.policy) : c.segs[s] \in Seq(Cached)
  BY DEF Shaped
<1>2. CASE Tiny(c)
  <2> DEFINE f == [s \in DOMAIN c.segs |-> TrimFront(c.segs[s], past(s))]
  <2>1. e = [c EXCEPT !.segs = f]
    BY <1>2 DEF Purged
  <2> HIDE DEF past
  <2>2. \A s \in SegIds(c.policy) :
            /\ f[s] \in Seq(Cached) /\ ToSet(f[s]) \subseteq ToSet(c.segs[s])
            /\ Distinct(c.segs[s]) => Distinct(f[s])
            /\ past(s) = {} => f[s] = c.segs[s]
    BY <1>1, TrimFrontIs
  <2>3. f \in [SegIds(c.policy) -> Seq(Cached)]
    BY <1>1, <2>2
  <2> HIDE DEF f
  <2>4. Rest(e, c) /\ e.segs = f
    BY <2>1, <2>2, <2>3, ListwiseRest
  <2> QED
    BY <2>2, <2>4 DEF past
<1>3. CASE ~Tiny(c)
  <2>1. PICK X \in SUBSET UNION {past(s) : s \in Homes(c, k)} :
            e = [c EXCEPT !.segs = [s \in DOMAIN @ |->
                    IF s \in Homes(c, k) THEN Only(@[s], ToSet(@[s]) \ X) ELSE @[s]]]
    BY <1>3 DEF Purged
  <2> DEFINE f == [s \in DOMAIN c.segs |->
                      IF s \in Homes(c, k) THEN Only(c.segs[s], ToSet(c.segs[s]) \ X) ELSE c.segs[s]]
  <2>2. e = [c EXCEPT !.segs = f]
    BY <2>1
  <2>3. ASSUME NEW s \in SegIds(c.policy)
        PROVE  /\ f[s] \in Seq(Cached) /\ ToSet(f[s]) \subseteq ToSet(c.segs[s])
               /\ Distinct(c.segs[s]) => Distinct(f[s])
               /\ X = {} => ToSet(f[s]) = ToSet(c.segs[s]) /\ Len(f[s]) = Len(c.segs[s])
    <3>1. c.segs[s] \in Seq(Cached)
      BY <1>1
    <3>2. CASE s \in Homes(c, k)
      <4>1. f[s] = Only(c.segs[s], ToSet(c.segs[s]) \ X)
        BY <1>1, <3>2
      <4> HIDE DEF f
      <4>2. /\ f[s] \in Seq(Cached) /\ ToSet(f[s]) = ToSet(c.segs[s]) \cap (ToSet(c.segs[s]) \ X)
            /\ Distinct(c.segs[s]) => Distinct(f[s])
        BY <3>1, <4>1, OnlyIs
      <4>3. ASSUME X = {} PROVE Len(f[s]) = Len(c.segs[s]) /\ ToSet(f[s]) = ToSet(c.segs[s])
        <5>1. ToSet(c.segs[s]) \subseteq ToSet(c.segs[s]) \ X
          BY <4>3
        <5> QED
          BY <3>1, <4>1, <5>1, AllIs
      <4> QED
        BY <4>2, <4>3
    <3>3. CASE s \notin Homes(c, k)
      <4>1. f[s] = c.segs[s]
        BY <1>1, <3>3
      <4> QED
        BY <3>1, <4>1
    <3> QED
      BY <3>2, <3>3
  <2>4. f \in [SegIds(c.policy) -> Seq(Cached)]
    BY <1>1, <2>3
  <2> HIDE DEF f
  <2>5. Rest(e, c) /\ e.segs = f
    BY <2>2, <2>3, <2>4, ListwiseRest
  <2>6. ASSUME \A s \in SegIds(c.policy) : \A i \in ToSet(c.segs[s]) : ~Past(c, i, t),
               Homes(c, k) \subseteq SegIds(c.policy)
        PROVE  X = {}
    BY <2>1, <2>6
  <2> QED
    BY <2>3, <2>5, <2>6
<1> QED
  BY <1>2, <1>3

\* A sweep takes only what has expired away.
LEMMA SweptRest ==
    ASSUME NEW c, Shaped(c), NEW t
    PROVE  /\ Rest(Swept(c, t), c)
           /\ \A s \in SegIds(c.policy) : \A i \in ToSet(c.segs[s]) :
                  ~Expired(i, t) => i \in ToSet(Swept(c, t).segs[s])
<1> DEFINE S(q) == {q[n] : n \in {m \in DOMAIN q : m <= 4 /\ Expired(q[m], t)}}
           f == [s \in DOMAIN c.segs |-> TrimFront(c.segs[s], S(c.segs[s]))]
<1>1. DOMAIN c.segs = SegIds(c.policy) /\ \A s \in SegIds(c.policy) : c.segs[s] \in Seq(Cached)
  BY DEF Shaped
<1>2. Swept(c, t) = [c EXCEPT !.segs = f]
  BY DEF Swept
<1>3. \A s \in SegIds(c.policy) :
          /\ f[s] \in Seq(Cached) /\ ToSet(f[s]) \subseteq ToSet(c.segs[s])
          /\ Distinct(c.segs[s]) => Distinct(f[s])
          /\ \A i \in ToSet(c.segs[s]) : ~Expired(i, t) => i \in ToSet(f[s])
  <2> TAKE s \in SegIds(c.policy)
  <2>1. \A i : ~Expired(i, t) => i \notin S(c.segs[s])
    OBVIOUS
  <2> HIDE DEF S
  <2> QED
    BY <1>1, <2>1, TrimFrontIs
<1>4. f \in [SegIds(c.policy) -> Seq(Cached)]
  BY <1>1, <1>3
<1> HIDE DEF f
<1>5. Rest([c EXCEPT !.segs = f], c) /\ [c EXCEPT !.segs = f].segs = f
  BY <1>3, <1>4, ListwiseRest
<1> QED
  BY <1>2, <1>3, <1>5

\* There is one entry under a key.
LEMMA OneItem ==
    ASSUME NEW c, Shaped(c), Alone(c), NEW k \in CacheKeys,
           NEW s \in Homes(c, k), NEW i \in ToSet(c.segs[s]), i.key = StoredKey(c, k)
    PROVE  Has(c, k) /\ s = Seg(c, k) /\ i = Item(c, k)
<1>1. Has(c, k)
  BY HasIs
<1>2. /\ Seg(c, k) \in Homes(c, k) /\ Seg(c, k) \in SegIds(c.policy)
      /\ Item(c, k) \in ToSet(c.segs[Seg(c, k)]) /\ Item(c, k).key = StoredKey(c, k)
  BY <1>1, HasIs
<1>3. s \in SegIds(c.policy) /\ (~Tiny(c) => s = Seg(c, k))
  BY <1>2, HomesAre
<1>4. s = Seg(c, k)
  BY <1>2, <1>3 DEF Alone, Apart
<1>5. i = Item(c, k)
  <2>1. Distinct(c.segs[s])
    BY <1>3 DEF Alone
  <2>2. Item(c, k) \in ToSet(c.segs[s])
    BY <1>2, <1>4
  <2> QED
    BY <1>2, <2>1, <2>2 DEF Distinct, ToSet
<1> QED
  BY <1>1, <1>4, <1>5

\* A lookup takes nothing away that is live, and nothing at all while the cache has a window.
LEMMA GetRest ==
    ASSUME NEW c, Shaped(c), NEW k \in CacheKeys, NEW t \in Nat, NEW e \in GetIn(c, k, t)
    PROVE  /\ Rest(e, c)
           /\ Alone(c) /\ c.window > 0 =>
                  \A s \in SegIds(c.policy) : \A i \in ToSet(c.segs[s]) :
                      \E u \in SegIds(c.policy) : i \in ToSet(e.segs[u])
           /\ Alone(c) => \A s \in SegIds(c.policy) : \A i \in ToSet(c.segs[s]) :
                              i.exp > t => \E u \in SegIds(c.policy) : i \in ToSet(e.segs[u])
<1>0. Rest(c, c)
  BY RestSelf
<1>1. CASE ~Has(c, k)
  <2>1. e = c \/ (e = Swept(c, t) /\ c.window = 0)
    BY <1>1 DEF GetIn, Hit
  <2>2. ASSUME e = Swept(c, t), c.window = 0, NEW s \in SegIds(c.policy), NEW i \in ToSet(c.segs[s]), i.exp > t
        PROVE  i \in ToSet(e.segs[s])
    <3>1. ~Expired(i, t)
      <4>1. i.exp \in Nat
        BY <2>2, ListIs DEF Shaped, Cached
      <4> QED
        BY <2>2, <4>1 DEF Expired
    <3> QED
      BY <2>2, <3>1, SweptRest
  <2>3. e = Swept(c, t) => Rest(e, c)
    BY SweptRest
  <2> QED
    BY <1>0, <2>1, <2>2, <2>3
<1>2. CASE Has(c, k) /\ Expired(Item(c, k), t)
  <2>1. e = (IF c.window = 0 THEN WithoutKey(c, k) ELSE c)
    BY <1>2 DEF GetIn, Hit
  <2>2. CASE c.window # 0
    BY <1>0, <2>1, <2>2
  <2>3. CASE c.window = 0
    <3>1. e = WithoutKey(c, k) /\ ~(c.window > 0)
      BY <2>1, <2>3
    <3>2. ASSUME Alone(c), NEW s \in SegIds(c.policy), NEW i \in ToSet(c.segs[s]), i.exp > t
          PROVE  i \in ToSet(e.segs[s])
      <4>1. i.exp \in Nat
        BY <3>2, ListIs DEF Shaped, Cached
      <4>2. ~(s \in Homes(c, k) /\ i.key = StoredKey(c, k))
        BY <1>2, <3>2, <4>1, OneItem DEF Expired
      <4> QED
        BY <3>1, <3>2, <4>2, WithoutKeyRest
    <3>3. Rest(e, c)
      BY <3>1, WithoutKeyRest
    <3> QED
      BY <3>1, <3>2, <3>3
  <2> QED
    BY <2>2, <2>3
<1>3. CASE Hit(c, k, t)
  <2>0. Has(c, k) /\ ~Expired(Item(c, k), t)
    BY <1>3 DEF Hit
  <2>1. e = (IF Tiny(c) /\ Seg(c, k) = Probation THEN Promoted(c, k) ELSE MovedToEnd(c, k))
    BY <1>3, <2>0 DEF GetIn
  <2>2. CASE Tiny(c) /\ Seg(c, k) = Probation
    <3>1. e = Promoted(c, k)
      BY <2>1, <2>2
    <3> QED
      BY <2>0, <2>2, <3>1, PromotedRest
  <2>3. CASE ~(Tiny(c) /\ Seg(c, k) = Probation)
    <3>1. e = MovedToEnd(c, k)
      BY <2>1, <2>3
    <3> QED
      BY <2>0, <3>1, MovedRest
  <2> QED
    BY <2>2, <2>3
<1> QED
  BY <1>1, <1>2, <1>3 DEF Hit

\* A stale lookup takes nothing away that is within its window.
LEMMA GetStaleRest ==
    ASSUME NEW c, Shaped(c), NEW k \in CacheKeys, NEW t \in Nat, NEW w \in Nat
    PROVE  LET e == GetStaleIn(c, k, t, w)
           IN  /\ Rest(e, c)
               /\ Alone(c) => \A s \in SegIds(c.policy) : \A i \in ToSet(c.segs[s]) :
                                  t - i.exp <= w => \E u \in SegIds(c.policy) : i \in ToSet(e.segs[u])
<1> DEFINE e == GetStaleIn(c, k, t, w)
<1>0. Rest(c, c)
  BY RestSelf
<1>1. CASE ~Has(c, k) \/ Hit(c, k, t)
  <2>1. Hit(c, k, t) => ~(t - Item(c, k).exp > w)
    <3>1. HAVE Hit(c, k, t)
    <3>2. Has(c, k) /\ ~(Item(c, k).exp <= t)
      BY <3>1 DEF Hit, Expired
    <3>3. Item(c, k).exp \in Nat
      BY <3>2, HasIs DEF Cached
    <3> QED
      BY <3>2, <3>3
  <2>2. e = c
    BY <1>1, <2>1 DEF GetStaleIn
  <2> QED
    BY <1>0, <2>2
<1>2. CASE Has(c, k) /\ ~Hit(c, k, t) /\ t - Item(c, k).exp > w
  <2>1. e = WithoutKey(c, k)
    BY <1>2 DEF GetStaleIn
  <2> HIDE DEF e
  <2>2. ASSUME Alone(c), NEW s \in SegIds(c.policy), NEW i \in ToSet(c.segs[s]), t - i.exp <= w
        PROVE  i \in ToSet(e.segs[s])
    <3>1. i.exp \in Nat
      BY <2>2, ListIs DEF Shaped, Cached
    <3>2. Item(c, k).exp \in Nat
      BY <1>2, HasIs DEF Cached
    <3>3. ~(s \in Homes(c, k) /\ i.key = StoredKey(c, k))
      BY <1>2, <2>2, <3>1, <3>2, OneItem
    <3> QED
      BY <2>1, <2>2, <3>3, WithoutKeyRest
  <2>3. Rest(e, c)
    BY <2>1, WithoutKeyRest
  <2> QED
    BY <2>2, <2>3 DEF e
<1>3. CASE Has(c, k) /\ ~Hit(c, k, t) /\ ~(t - Item(c, k).exp > w)
  <2>1. e = MovedToEnd(c, k)
    BY <1>3 DEF GetStaleIn
  <2> HIDE DEF e
  <2>2. Rest(e, c) /\ (Alone(c) => \A s \in SegIds(c.policy) : ToSet(c.segs[s]) \subseteq ToSet(e.segs[s]))
    BY <1>3, <2>1, MovedRest
  <2> QED
    BY <2>2 DEF e
<1> QED
  BY <1>1, <1>2, <1>3

\* A peek leaves some of the entries.
LEMMA PeekRest ==
    ASSUME NEW c, Shaped(c), NEW k \in CacheKeys, NEW t
    PROVE  Rest(PeekIn(c, k, t), c)
BY RestSelf, WithoutKeyRest DEF PeekIn

\* Marking the entries of some domains as out of date moves none.
LEMMA AgedIs ==
    ASSUME NEW c, Shaped(c), NEW ds
    PROVE  LET e == Aged(c, ds)
           IN  /\ Shaped(e) /\ e.policy = c.policy /\ e.size = c.size /\ e.window = c.window
               /\ \A s \in SegIds(c.policy) :
                      /\ Len(e.segs[s]) = Len(c.segs[s])
                      /\ \A i \in ToSet(e.segs[s]) : \E j \in ToSet(c.segs[s]) :
                             /\ i.key = j.key /\ i.exp = j.exp
                             /\ j.key[2] \notin ds => i = j
                      /\ \A j \in ToSet(c.segs[s]) : \E i \in ToSet(e.segs[s]) :
                             i.key = j.key /\ i.exp = j.exp
               /\ Alone(c) => Alone(e)
               /\ Placed(c) => Placed(e)
               /\ Shadowed(e) \subseteq Shadowed(c)
               /\ \A k : Homes(e, k) = Homes(c, k) /\ StoredKey(e, k) = StoredKey(c, k)
               /\ \A k \in CacheKeys : Has(e, k) <=> Has(c, k)
<1> DEFINE g(s, n) == IF c.segs[s][n].key[2] \in ds THEN [c.segs[s][n] EXCEPT !.newest = FALSE] ELSE c.segs[s][n]
           f == [s \in DOMAIN c.segs |-> [n \in DOMAIN c.segs[s] |-> g(s, n)]]
           e == Aged(c, ds)
<1>1. DOMAIN c.segs = SegIds(c.policy) /\ \A s \in SegIds(c.policy) : c.segs[s] \in Seq(Cached)
  BY DEF Shaped
<1>2. e = [policy |-> c.policy, size |-> c.size, window |-> c.window, segs |-> f]
  <2>1. e = [c EXCEPT !.segs = f]
    BY DEF Aged
  <2> HIDE DEF e, f
  <2> QED
    BY <2>1 DEF Shaped
<1>3. ASSUME NEW s \in SegIds(c.policy), NEW n \in 1..Len(c.segs[s])
      PROVE  /\ g(s, n) \in Cached /\ g(s, n).key = c.segs[s][n].key /\ g(s, n).exp = c.segs[s][n].exp
             /\ c.segs[s][n].key[2] \notin ds => g(s, n) = c.segs[s][n]
  <2>1. c.segs[s][n] \in Cached
    BY <1>1, ListIs
  <2> QED
    BY <2>1 DEF Cached
<1> HIDE DEF g
<1>4. ASSUME NEW s \in SegIds(c.policy)
      PROVE  /\ f[s] \in Seq(Cached) /\ Len(f[s]) = Len(c.segs[s]) /\ Len(c.segs[s]) \in Nat
             /\ DOMAIN f[s] = 1..Len(c.segs[s]) /\ DOMAIN c.segs[s] = 1..Len(c.segs[s])
             /\ \A n \in 1..Len(c.segs[s]) : f[s][n] = g(s, n)
  <2>1. DOMAIN c.segs[s] = 1..Len(c.segs[s]) /\ Len(c.segs[s]) \in Nat
    BY <1>1, ListIs
  <2>2. f[s] = [n \in 1..Len(c.segs[s]) |-> g(s, n)]
    BY <1>1, <2>1
  <2> HIDE DEF f
  <2>3. f[s] \in Seq(Cached)
    BY <1>3, <2>1, <2>2
  <2>4. DOMAIN f[s] = 1..Len(f[s]) /\ Len(f[s]) \in Nat
    BY <2>3, ListIs
  <2>5. DOMAIN f[s] = 1..Len(c.segs[s])
    BY <2>2
  <2>6. Len(f[s]) = Len(c.segs[s])
    BY <2>1, <2>2, <2>3
  <2> QED
    BY <2>1, <2>2, <2>3, <2>5, <2>6
<1> HIDE DEF e
<1>5. e.policy = c.policy /\ e.size = c.size /\ e.window = c.window /\ e.segs = f
  BY <1>2
<1>6. Shaped(e)
  <2>1. f \in [SegIds(c.policy) -> Seq(Cached)]
    BY <1>1, <1>4
  <2> HIDE DEF f
  <2> QED
    BY <1>2, <1>5, <2>1 DEF Shaped
<1> HIDE DEF f
<1>7. ASSUME NEW s \in SegIds(c.policy)
      PROVE  /\ Len(f[s]) = Len(c.segs[s])
             /\ \A i \in ToSet(f[s]) : \E j \in ToSet(c.segs[s]) :
                    /\ i.key = j.key /\ i.exp = j.exp
                    /\ j.key[2] \notin ds => i = j
             /\ \A j \in ToSet(c.segs[s]) : \E i \in ToSet(f[s]) : i.key = j.key /\ i.exp = j.exp
             /\ Distinct(c.segs[s]) => Distinct(f[s])
  <2>0. f[s] \in Seq(Cached) /\ c.segs[s] \in Seq(Cached)
    BY <1>1, <1>4
  <2>1. \A n \in 1..Len(c.segs[s]) : /\ f[s][n] \in ToSet(f[s]) /\ c.segs[s][n] \in ToSet(c.segs[s])
                                     /\ f[s][n].key = c.segs[s][n].key /\ f[s][n].exp = c.segs[s][n].exp
                                     /\ c.segs[s][n].key[2] \notin ds => f[s][n] = c.segs[s][n]
    BY <1>3, <1>4, <2>0, ListIs
  <2>2. \A i \in ToSet(f[s]) : \E n \in 1..Len(c.segs[s]) : f[s][n] = i
    BY <1>4, <2>0, ListIs
  <2>3. \A i \in ToSet(c.segs[s]) : \E n \in 1..Len(c.segs[s]) : c.segs[s][n] = i
    BY <2>0, ListIs
  <2>4. Distinct(c.segs[s]) => Distinct(f[s])
    BY <1>4, <2>1 DEF Distinct
  <2>5. \A i \in ToSet(f[s]) : \E j \in ToSet(c.segs[s]) :
            i.key = j.key /\ i.exp = j.exp /\ (j.key[2] \notin ds => i = j)
    BY <2>1, <2>2
  <2>6. \A j \in ToSet(c.segs[s]) : \E i \in ToSet(f[s]) : i.key = j.key /\ i.exp = j.exp
    <3> TAKE j \in ToSet(c.segs[s])
    <3>1. PICK n \in 1..Len(c.segs[s]) : c.segs[s][n] = j
      BY <2>3
    <3>2. f[s][n] \in ToSet(f[s]) /\ f[s][n].key = j.key /\ f[s][n].exp = j.exp
      BY <2>1, <3>1
    <3> QED
      BY <3>2
  <2> QED
    BY <1>4, <2>4, <2>5, <2>6
<1>8. Alone(c) => Alone(e)
  <2>1. HAVE Alone(c)
  <2>2. \A s \in SegIds(e.policy) : Distinct(e.segs[s])
    BY <1>5, <1>7, <2>1 DEF Alone
  <2>3. ASSUME Tiny(e), NEW s \in SegIds(e.policy), NEW t \in SegIds(e.policy), s # t
        PROVE  Apart(e.segs[s], e.segs[t])
    <3>1. Apart(c.segs[s], c.segs[t])
      BY <1>5, <2>1, <2>3 DEF Alone, Tiny
    <3>2. ASSUME NEW x \in ToSet(f[s]), NEW y \in ToSet(f[t]) PROVE x.key # y.key
      <4>1. PICK i \in ToSet(c.segs[s]) : x.key = i.key
        BY <1>5, <1>7, <2>3, <3>2
      <4>2. PICK j \in ToSet(c.segs[t]) : y.key = j.key
        BY <1>5, <1>7, <2>3, <3>2
      <4> QED
        BY <3>1, <4>1, <4>2 DEF Apart
    <3> QED
      BY <1>5, <3>2 DEF Apart
  <2> QED
    BY <2>2, <2>3 DEF Alone
<1>9. \A k : Homes(e, k) = Homes(c, k) /\ StoredKey(e, k) = StoredKey(c, k)
  BY <1>5 DEF Homes, StoredKey, Tiny
<1>10. \A s, i, j : i.key = j.key => ReportedKey(e, s, i) = ReportedKey(c, s, j)
  BY <1>5 DEF ReportedKey
<1>11. ASSUME Placed(c), NEW s \in SegIds(e.policy), NEW i \in ToSet(e.segs[s])
       PROVE  s \in Homes(e, ReportedKey(e, s, i)) /\ i.key = StoredKey(e, ReportedKey(e, s, i))
  <2>1. PICK j \in ToSet(c.segs[s]) : i.key = j.key
    BY <1>5, <1>7, <1>11
  <2>2. s \in Homes(c, ReportedKey(c, s, j)) /\ j.key = StoredKey(c, ReportedKey(c, s, j))
    BY <1>5, <1>11 DEF Placed
  <2>3. ReportedKey(e, s, i) = ReportedKey(c, s, j)
    BY <1>10, <2>1
  <2> QED
    BY <1>9, <2>1, <2>2, <2>3
<1>12. Placed(c) => Placed(e)
  BY <1>11 DEF Placed
<1>13. Shadowed(e) \subseteq Shadowed(c)
  <2>1. ASSUME NEW d \in Domains, NEW s \in SegIds(c.policy), NEW i \in ToSet(f[s]),
               i.key[2] = d, ~(i.key = <<NoGroup, d>> /\ s \in Homes(e, <<NoGroup, d>>))
        PROVE  d \in Shadowed(c)
    <3>1. PICK j \in ToSet(c.segs[s]) : i.key = j.key
      BY <1>7, <2>1
    <3>2. j.key[2] = d /\ ~(j.key = <<NoGroup, d>> /\ s \in Homes(c, <<NoGroup, d>>))
      BY <1>9, <2>1, <3>1
    <3> QED
      BY <1>1, <2>1, <3>2 DEF Shadowed
  <2>2. DOMAIN e.segs = SegIds(c.policy)
    BY <1>5, <1>6 DEF Shaped
  <2> QED
    BY <1>5, <2>1, <2>2 DEF Shadowed
<1>14. ASSUME NEW k \in CacheKeys, Has(e, k) PROVE Has(c, k)
  <2>1. PICK s \in Homes(e, k) : \E i \in ToSet(e.segs[s]) : i.key = StoredKey(e, k)
    BY <1>14 DEF Has, Holding
  <2>2. s \in SegIds(c.policy)
    BY <1>9, HomesAre
  <2> QED
    BY <1>5, <1>7, <1>9, <2>1, <2>2 DEF Has, Holding
<1>15. ASSUME NEW k \in CacheKeys, Has(c, k) PROVE Has(e, k)
  <2>1. PICK s \in Homes(c, k) : \E i \in ToSet(c.segs[s]) : i.key = StoredKey(c, k)
    BY <1>15 DEF Has, Holding
  <2>2. s \in SegIds(c.policy)
    BY HomesAre
  <2> QED
    BY <1>5, <1>7, <1>9, <2>1, <2>2 DEF Has, Holding
<1> QED
  BY <1>5, <1>6, <1>7, <1>8, <1>9, <1>12, <1>13, <1>14, <1>15 DEF e

\* A key that is reported leads back to where its entry is.
LEMMA ReportedIs ==
    ASSUME NEW c, Shaped(c), NEW k \in CacheKeys, NEW s \in Homes(c, k), NEW i, i.key = StoredKey(c, k)
    PROVE  LET r == ReportedKey(c, s, i) IN s \in Homes(c, r) /\ i.key = StoredKey(c, r)
<1> DEFINE r == ReportedKey(c, s, i)
<1>1. CASE c.policy.kind # "partitioned"
  <2>1. r = k
    BY <1>1 DEF ReportedKey, StoredKey
  <2> QED
    BY <2>1
<1>2. CASE c.policy.kind = "partitioned"
  <2>1. s = <<Part(c.policy.parts, k), Hash[Plain(k)]>>
    BY <1>2 DEF Homes, Tiny
  <2>2. c.policy.parts \in SUBSET Groups /\ c.policy.parts # {}
    BY <1>2, PolicyIs DEF Shaped
  <2>3. Part(c.policy.parts, k) \in c.policy.parts
    BY <2>2, PartIs
  <2>4. i.key = Plain(k) /\ r = <<Part(c.policy.parts, k), k[2]>>
    BY <1>2, <2>1 DEF ReportedKey, StoredKey, Plain
  <2>5. r[1] = Part(c.policy.parts, k) /\ Plain(r) = Plain(k)
    BY <2>4 DEF Plain
  <2> HIDE DEF r
  <2>6. Part(c.policy.parts, r) = r[1]
    BY <2>2, <2>3, <2>5, PartIs
  <2>7. Homes(c, r) = {<<Part(c.policy.parts, r), Hash[Plain(r)]>>}
    BY <1>2 DEF Homes, Tiny
  <2>8. StoredKey(c, r) = Plain(r)
    BY <1>2 DEF StoredKey
  <2> QED
    BY <2>1, <2>4, <2>5, <2>6, <2>7, <2>8 DEF r
<1> QED
  BY <1>1, <1>2

\* The cache with the new entry, before what is too much leaves it.
Added(c, k, item) ==
    LET i == [item EXCEPT !.key = StoredKey(c, k)]
    IN  [c EXCEPT !.segs[PutHome(c, k)] = Append(Drop(@, i.key), i)]

\* The entry as it is stored.
New0(c, k, item) == [item EXCEPT !.key = StoredKey(c, k)]

\* A put goes to a segment where a lookup of its key looks.
LEMMA PutHomeIs ==
    ASSUME NEW c, Shaped(c), NEW k \in CacheKeys
    PROVE  /\ PutHome(c, k) \in Homes(c, k) /\ PutHome(c, k) \in SegIds(c.policy)
           /\ Has(c, k) => PutHome(c, k) = Seg(c, k)
           /\ ~Has(c, k) /\ Tiny(c) => PutHome(c, k) = Window
<1>1. Homes(c, k) \subseteq SegIds(c.policy) /\ Homes(c, k) # {} /\ (Tiny(c) => Window \in Homes(c, k))
  BY HomesAre, SegIdsAre
<1>2. Has(c, k) => Seg(c, k) \in Homes(c, k)
  BY HasIs
<1> QED
  BY <1>1, <1>2 DEF PutHome

\* What a put adds: its entry, in the place of the one with the same key.
LEMMA AddedIs ==
    ASSUME NEW c, Shaped(c), NEW k \in CacheKeys, NEW item \in Cached
    PROVE  LET d == Added(c, k, item)
               s == PutHome(c, k)
               i == New0(c, k, item)
           IN  /\ Shaped(d) /\ d.policy = c.policy /\ d.size = c.size /\ d.window = c.window
               /\ i \in Cached /\ i.key = StoredKey(c, k) /\ i.exp = item.exp /\ i.newest = item.newest
               /\ i \in ToSet(d.segs[s])
               /\ \A t \in SegIds(c.policy) : t # s => d.segs[t] = c.segs[t]
               /\ \A j \in ToSet(d.segs[s]) : j = i \/ (j \in ToSet(c.segs[s]) /\ j.key # i.key)
               /\ \A j \in ToSet(c.segs[s]) : j.key # i.key => j \in ToSet(d.segs[s])
               /\ Alone(c) => /\ Alone(d)
                              /\ \A t \in Homes(c, k) : \A j \in ToSet(d.segs[t]) : j.key = i.key => j = i
                              /\ Len(d.segs[s]) = IF Has(c, k) THEN Len(c.segs[s]) ELSE Len(c.segs[s]) + 1
<1> DEFINE d == Added(c, k, item)
           s == PutHome(c, k)
           i == New0(c, k, item)
           p == Drop(c.segs[s], i.key)
           q == Append(p, i)
<1>0. s \in SegIds(c.policy) /\ s \in Homes(c, k)
  BY PutHomeIs
<1>1. StoredKey(c, k) \in CacheKeys
  BY HomesAre
<1>2. i \in Cached /\ i.key = StoredKey(c, k) /\ i.exp = item.exp /\ i.newest = item.newest
  BY <1>1 DEF Cached, New0
<1>3. d = [c EXCEPT !.segs[s] = q]
  BY DEF Added, New0
<1> HIDE DEF d, s, i
<1>4. c.segs[s] \in Seq(Cached)
  BY <1>0 DEF Shaped
<1>5. /\ p \in Seq(Cached) /\ ToSet(p) = {j \in ToSet(c.segs[s]) : j.key # i.key}
      /\ Distinct(c.segs[s]) => Distinct(p)
      /\ (\A j \in ToSet(c.segs[s]) : j.key # i.key) => Len(p) = Len(c.segs[s])
      /\ Distinct(c.segs[s]) /\ (\E j \in ToSet(c.segs[s]) : j.key = i.key) => Len(p) = Len(c.segs[s]) - 1
  BY <1>4, DropIs
<1> HIDE DEF p
<1>6. /\ q \in Seq(Cached) /\ Len(q) = Len(p) + 1 /\ ToSet(q) = ToSet(p) \cup {i}
      /\ Distinct(p) /\ (\A j \in ToSet(p) : j.key # i.key) => Distinct(q)
  BY <1>2, <1>5, AppendIs
<1> HIDE DEF q
<1>7. /\ Shaped(d) /\ d.policy = c.policy /\ d.size = c.size /\ d.window = c.window
      /\ d.segs[s] = q /\ \A t \in SegIds(c.policy) : t # s => d.segs[t] = c.segs[t]
  <2>1. LET e == [c EXCEPT !.segs[s] = q]
        IN  /\ Shaped(e) /\ e.policy = c.policy /\ e.size = c.size /\ e.window = c.window
            /\ e.segs = [c.segs EXCEPT ![s] = q] /\ e = [c EXCEPT !.segs = [c.segs EXCEPT ![s] = q]]
            /\ e.segs[s] = q /\ \A t \in SegIds(c.policy) : t # s => e.segs[t] = c.segs[t]
    <3>1. s \in SegIds(c.policy)
      BY <1>0
    <3>2. q \in Seq(Cached)
      BY <1>6
    <3> HIDE DEF s
    <3> QED
      BY <3>1, <3>2, OneList
  <2> QED
    BY <1>3, <2>1
<1>8. ASSUME Alone(c), NEW t \in Homes(c, k), NEW j \in ToSet(c.segs[t]), t # s PROVE j.key # i.key
  <2>1. SUFFICES ASSUME j.key = i.key PROVE FALSE
    OBVIOUS
  <2>2. Has(c, k) /\ t = Seg(c, k)
    BY <1>2, <1>8, <2>1, OneItem
  <2> QED
    BY <1>8, <2>2, PutHomeIs DEF s
<1>9. ASSUME Alone(c) PROVE Alone(d)
  <2>1. \A t \in SegIds(c.policy) : Distinct(c.segs[t])
    BY <1>9 DEF Alone
  <2>2. Distinct(q)
    BY <1>0, <1>5, <1>6, <2>1
  <2>3. \A t \in SegIds(d.policy) : Distinct(d.segs[t])
    BY <1>7, <2>1, <2>2
  <2>4. ASSUME Tiny(d), NEW t \in SegIds(d.policy), t # s PROVE Apart(c.segs[t], q)
    <3>1. Apart(c.segs[t], c.segs[s]) /\ t \in Homes(c, k)
      BY <1>0, <1>7, <1>9, <2>4, HomesAre DEF Alone, Tiny
    <3>2. \A j \in ToSet(c.segs[t]) : j.key # i.key
      BY <1>8, <1>9, <2>4, <3>1
    <3> QED
      BY <1>5, <1>6, <3>1, <3>2 DEF Apart
  <2>5. ASSUME Tiny(d), NEW t \in SegIds(d.policy), NEW u \in SegIds(d.policy), t # u
        PROVE  Apart(d.segs[t], d.segs[u])
    <3>1. CASE t # s /\ u # s
      <4>1. Apart(c.segs[t], c.segs[u])
        BY <1>7, <1>9, <2>5 DEF Alone, Tiny
      <4> QED
        BY <1>7, <2>5, <3>1, <4>1
    <3>2. CASE u = s
      BY <1>7, <2>4, <2>5, <3>2
    <3>3. CASE t = s
      <4>1. Apart(c.segs[u], q)
        BY <2>4, <2>5, <3>3
      <4> QED
        BY <1>7, <2>5, <3>3, <4>1 DEF Apart
    <3> QED
      BY <3>1, <3>2, <3>3
  <2> QED
    BY <2>3, <2>5 DEF Alone
<1>10. ASSUME Alone(c), NEW t \in Homes(c, k), NEW j \in ToSet(d.segs[t]), j.key = i.key PROVE j = i
  <2>1. CASE t = s
    BY <1>5, <1>6, <1>7, <1>10, <2>1
  <2>2. CASE t # s
    <3>1. t \in SegIds(c.policy)
      BY HomesAre
    <3> QED
      BY <1>7, <1>8, <1>10, <2>2, <3>1
  <2> QED
    BY <2>1, <2>2
<1>11. ASSUME Alone(c) PROVE Len(q) = IF Has(c, k) THEN Len(c.segs[s]) ELSE Len(c.segs[s]) + 1
  <2>1. Len(c.segs[s]) \in Nat /\ Distinct(c.segs[s])
    BY <1>0, <1>4, <1>11, ListIs DEF Alone
  <2>2. CASE Has(c, k)
    <3>1. \E j \in ToSet(c.segs[s]) : j.key = i.key
      BY <1>2, <2>2, HasIs, PutHomeIs DEF s
    <3> QED
      BY <1>5, <1>6, <2>1, <2>2, <3>1
  <2>3. CASE ~Has(c, k)
    <3>1. \A j \in ToSet(c.segs[s]) : j.key # i.key
      BY <1>0, <1>2, <2>3, HasIs
    <3> QED
      BY <1>5, <1>6, <2>1, <2>3, <3>1
  <2> QED
    BY <2>2, <2>3
<1>12. /\ i \in ToSet(q)
       /\ \A j \in ToSet(q) : j = i \/ (j \in ToSet(c.segs[s]) /\ j.key # i.key)
       /\ \A j \in ToSet(c.segs[s]) : j.key # i.key => j \in ToSet(q)
  BY <1>5, <1>6
<1>13. Alone(c) => /\ Alone(d)
                   /\ \A t \in Homes(c, k) : \A j \in ToSet(d.segs[t]) : j.key = i.key => j = i
                   /\ Len(d.segs[s]) = IF Has(c, k) THEN Len(c.segs[s]) ELSE Len(c.segs[s]) + 1
  BY <1>7, <1>9, <1>10, <1>11
<1> QED
  BY <1>2, <1>7, <1>12, <1>13 DEF d, s, i

\* What put does: the new entry is placed as the others are, and hidden by nothing if its
\* key is without group.
LEMMA PutRest ==
    ASSUME NEW c, Shaped(c), NEW k \in CacheKeys, NEW item \in Cached, NEW t \in Nat,
           NEW e \in PutIn(c, k, item, t)
    PROVE  LET i == New0(c, k, item)
           IN  /\ Shaped(e) /\ e.policy = c.policy /\ e.size = c.size /\ e.window = c.window
               /\ Alone(c) => Alone(e)
               /\ Placed(c) => Placed(e)
               /\ k[1] = NoGroup => Shadowed(e) \subseteq Shadowed(c)
               /\ i.exp = item.exp /\ i.newest = item.newest /\ i.key = StoredKey(c, k)
               /\ \A s \in SegIds(c.policy) : \A j \in ToSet(e.segs[s]) :
                      j = i \/ \E u \in SegIds(c.policy) : j \in ToSet(c.segs[u]) /\ (s = u \/ Tiny(c))
               /\ Alone(c) => \A s \in Homes(c, k) : \A j \in ToSet(e.segs[s]) : j.key = i.key => j = i
<1> DEFINE d == Added(c, k, item)
           s0 == PutHome(c, k)
           i == New0(c, k, item)
<1>0. s0 \in SegIds(c.policy) /\ s0 \in Homes(c, k)
  BY PutHomeIs
<1>1. /\ Shaped(d) /\ d.policy = c.policy /\ d.size = c.size /\ d.window = c.window
      /\ i \in Cached /\ i.key = StoredKey(c, k) /\ i.exp = item.exp /\ i.newest = item.newest
      /\ \A u \in SegIds(c.policy) : u # s0 => d.segs[u] = c.segs[u]
      /\ \A j \in ToSet(d.segs[s0]) : j = i \/ (j \in ToSet(c.segs[s0]) /\ j.key # i.key)
      /\ Alone(c) => /\ Alone(d)
                     /\ \A u \in Homes(c, k) : \A j \in ToSet(d.segs[u]) : j.key = i.key => j = i
  BY AddedIs
<1>2. PICK a \in Evict(d) : e = a \/ e \in Purged(a, k, t)
  BY DEF PutIn, Added
<1> HIDE DEF d, s0, i
<1>3. Rest(e, d)
  <2>1. Rest(a, d)
    BY <1>1, EvictRest
  <2>2. Shaped(a)
    BY <2>1 DEF Rest
  <2>3. e \in Purged(a, k, t) => Rest(e, a)
    BY <2>2, PurgedRest
  <2> QED
    BY <1>2, <2>1, <2>3, RestTrans
<1>4. \A u \in SegIds(c.policy) : \A j \in ToSet(d.segs[u]) : (j = i /\ u = s0) \/ j \in ToSet(c.segs[u])
  BY <1>0, <1>1
<1>5. \A x : Homes(d, x) = Homes(c, x) /\ StoredKey(d, x) = StoredKey(c, x)
  BY <1>1 DEF Homes, StoredKey, Tiny
<1>6. \A s, j : ReportedKey(d, s, j) = ReportedKey(c, s, j)
  BY <1>1 DEF ReportedKey
<1>7. Placed(c) => Placed(d)
  <2>1. HAVE Placed(c)
  <2>2. ASSUME NEW u \in SegIds(c.policy), NEW j \in ToSet(d.segs[u])
        PROVE  u \in Homes(c, ReportedKey(c, u, j)) /\ j.key = StoredKey(c, ReportedKey(c, u, j))
    <3>1. CASE j = i /\ u = s0
      BY <1>0, <1>1, <3>1, ReportedIs
    <3>2. CASE j \in ToSet(c.segs[u])
      BY <2>1, <2>2, <3>2 DEF Placed
    <3> QED
      BY <1>4, <2>2, <3>1, <3>2
  <2> QED
    BY <1>1, <1>5, <1>6, <2>2 DEF Placed
<1>8. k[1] = NoGroup => Shadowed(d) \subseteq Shadowed(c)
  <2>1. HAVE k[1] = NoGroup
  <2>2. k = <<NoGroup, k[2]>> /\ StoredKey(c, k) = k
    BY <2>1, KeyIs DEF StoredKey, Plain
  <2>3. ASSUME NEW x \in Domains, NEW u \in SegIds(c.policy), NEW j \in ToSet(d.segs[u]),
               j.key[2] = x, ~(j.key = <<NoGroup, x>> /\ u \in Homes(c, <<NoGroup, x>>))
        PROVE  x \in Shadowed(c)
    <3>1. CASE j = i /\ u = s0
      <4>1. j.key = k /\ k[2] = x
        BY <1>1, <2>2, <2>3, <3>1
      <4> QED
        BY <1>0, <2>2, <2>3, <3>1, <4>1
    <3>2. CASE j \in ToSet(c.segs[u])
      <4>1. DOMAIN c.segs = SegIds(c.policy)
        BY DEF Shaped
      <4> QED
        BY <2>3, <3>2, <4>1 DEF Shadowed
    <3> QED
      BY <1>4, <2>3, <3>1, <3>2
  <2>4. DOMAIN d.segs = SegIds(c.policy)
    BY <1>1 DEF Shaped
  <2> QED
    BY <1>5, <2>3, <2>4 DEF Shadowed
<1>9. Placed(e) \/ ~Placed(d)
  BY <1>1, <1>3, RestIs
<1>10. Shadowed(e) \subseteq Shadowed(d)
  BY <1>1, <1>3, RestIs
<1>11. ASSUME NEW s \in SegIds(c.policy), NEW j \in ToSet(e.segs[s])
       PROVE  j = i \/ \E u \in SegIds(c.policy) : j \in ToSet(c.segs[u]) /\ (s = u \/ Tiny(c))
  <2>1. PICK u \in SegIds(c.policy) : j \in ToSet(d.segs[u]) /\ (s = u \/ Tiny(d))
    BY <1>1, <1>3, <1>11 DEF Rest
  <2> QED
    BY <1>1, <1>4, <2>1 DEF Tiny
<1>12. ASSUME Alone(c), NEW s \in Homes(c, k), NEW j \in ToSet(e.segs[s]), j.key = i.key PROVE j = i
  <2>1. s \in SegIds(c.policy)
    BY HomesAre
  <2>2. PICK u \in SegIds(c.policy) : j \in ToSet(d.segs[u]) /\ (s = u \/ Tiny(d))
    BY <1>1, <1>3, <1>12, <2>1 DEF Rest
  <2>3. u \in Homes(c, k)
    BY <1>1, <1>12, <2>2, HomesAre DEF Tiny
  <2> QED
    BY <1>1, <1>12, <2>2, <2>3
<1>13. Shaped(e) /\ e.policy = c.policy /\ e.size = c.size /\ e.window = c.window /\ (Alone(c) => Alone(e))
  BY <1>1, <1>3 DEF Rest
<1> QED
  BY <1>1, <1>7, <1>8, <1>9, <1>10, <1>11, <1>12, <1>13 DEF i

\* What is in probation and protected together.
Main(c) == Len(c.segs[Probation]) + Len(c.segs[Protected])

\* No list is longer than its capacity.
Fits(c) ==
    IF Tiny(c) THEN /\ Len(c.segs[Window]) <= Caps(c).win
                    /\ Len(c.segs[Probation]) <= Caps(c).prob
                    /\ Len(c.segs[Protected]) <= Caps(c).prot
               ELSE \A s \in SegIds(c.policy) : Len(c.segs[s]) <= ShardCap[c.size]

\* The lengths after the first loop of the eviction, and that nothing is lost while there
\* is room.
LEMMA AdmitLengths ==
    ASSUME NEW w \in Seq(Cached), NEW pb \in Seq(Cached), NEW pt \in Seq(Cached),
           NEW a \in Nat, NEW b \in Nat, NEW o \in Nat, a <= b, b <= o, o <= Len(w), NEW S
    PROVE  LET w2 == SubSeq(w, o + 1, Len(w))
               b2 == LastOnes(pb \o SubSeq(w, 1, a) \o Only(SubSeq(w, b + 1, o), S), Len(pb) + a)
               t2 == pt \o SubSeq(w, a + 1, b)
           IN  /\ Len(w2) = Len(w) - o /\ Len(b2) = Len(pb) + a /\ Len(t2) = Len(pt) + (b - a)
               /\ b = o => ToSet(w) \cup ToSet(pb) \cup ToSet(pt) \subseteq
                               ToSet(w2) \cup ToSet(b2) \cup ToSet(t2)
<1> DEFINE p1 == SubSeq(w, 1, a)
           p2 == SubSeq(w, a + 1, b)
           p3 == SubSeq(w, b + 1, o)
           w2 == SubSeq(w, o + 1, Len(w))
           l3 == Only(p3, S)
           lb == pb \o p1 \o l3
           b2 == LastOnes(lb, Len(pb) + a)
           t2 == pt \o p2
<1>0. /\ Len(w) \in Nat /\ 1 \in Nat \ {0} /\ a + 1 \in Nat \ {0} /\ b + 1 \in Nat \ {0} /\ o + 1 \in Nat \ {0}
      /\ a \in 0..Len(w) /\ b \in 0..Len(w) /\ o \in 0..Len(w) /\ Len(w) \in 0..Len(w)
      /\ Len(pb) \in Nat /\ Len(pt) \in Nat
  <2>1. Len(w) \in Nat /\ Len(pb) \in Nat /\ Len(pt) \in Nat
    BY ListIs
  <2> QED
    BY <2>1
<1>1. p1 \in Seq(Cached) /\ Len(p1) = a /\ \A j \in 1..a : w[j] \in ToSet(p1)
  <2>1. p1 \in Seq(Cached) /\ Len(p1) = (IF 1 <= a THEN a - 1 + 1 ELSE 0) /\ \A j \in 1..a : w[j] \in ToSet(p1)
    BY <1>0, SubSeqIs
  <2> QED
    BY <2>1
<1>2. p2 \in Seq(Cached) /\ Len(p2) = b - a /\ \A j \in (a + 1)..b : w[j] \in ToSet(p2)
  <2>1. /\ p2 \in Seq(Cached) /\ Len(p2) = (IF a + 1 <= b THEN b - (a + 1) + 1 ELSE 0)
        /\ \A j \in (a + 1)..b : w[j] \in ToSet(p2)
    BY <1>0, SubSeqIs
  <2> QED
    BY <2>1
<1>3. p3 \in Seq(Cached) /\ (b = o => Len(p3) = 0)
  <2>1. p3 \in Seq(Cached) /\ Len(p3) = (IF b + 1 <= o THEN o - (b + 1) + 1 ELSE 0)
    BY <1>0, SubSeqIs
  <2> QED
    BY <2>1
<1>4. Len(w2) = Len(w) - o /\ \A j \in (o + 1)..Len(w) : w[j] \in ToSet(w2)
  <2> DEFINE m == o + 1
             n == Len(w)
             r == SubSeq(w, m, n)
  <2>1. m \in Nat \ {0} /\ n \in 0..Len(w) /\ r = w2
    BY <1>0
  <2> HIDE DEF m, n
  <2>2. Len(r) = (IF m <= n THEN n - m + 1 ELSE 0) /\ \A j \in m..n : w[j] \in ToSet(r)
    BY <2>1, SubSeqIs
  <2> QED
    BY <1>0, <2>1, <2>2 DEF m, n
<1> HIDE DEF p1, p2, p3, w2
<1>5. l3 \in Seq(Cached) /\ Len(l3) \in Nat /\ (b = o => Len(l3) = 0)
  <2>1. l3 \in Seq(Cached) /\ Len(l3) \in Nat
    BY <1>3, OnlyIs, ListIs
  <2>2. ASSUME b = o PROVE Len(l3) = 0
    <3>1. Len(p3) = 0 /\ DOMAIN p3 = 1..Len(p3)
      BY <1>3, <2>2, ListIs
    <3>2. ToSet(p3) \subseteq S
      BY <3>1 DEF ToSet
    <3> QED
      BY <1>3, <3>1, <3>2, AllIs
  <2> QED
    BY <2>1, <2>2
<1> HIDE DEF l3
<1>6. pb \o p1 \in Seq(Cached) /\ Len(pb \o p1) = Len(pb) + a /\ ToSet(pb \o p1) = ToSet(pb) \cup ToSet(p1)
  BY <1>1, ConcatIs
<1>7. lb \in Seq(Cached) /\ Len(lb) = Len(pb) + a + Len(l3) /\ ToSet(lb) = ToSet(pb) \cup ToSet(p1) \cup ToSet(l3)
  BY <1>5, <1>6, ConcatIs
<1> HIDE DEF lb
<1>8. /\ Len(b2) = (IF Len(lb) <= Len(pb) + a THEN Len(lb) ELSE Len(pb) + a)
      /\ Len(lb) <= Len(pb) + a => b2 = lb
  <2>1. Len(pb) + a \in Nat
    BY <1>0
  <2> QED
    BY <1>7, <2>1, LastOnesIs
<1>9. Len(t2) = Len(pt) + (b - a) /\ ToSet(t2) = ToSet(pt) \cup ToSet(p2)
  BY <1>2, ConcatIs
<1> HIDE DEF b2, t2
<1>10. Len(b2) = Len(pb) + a
  <2> DEFINE n == Len(pb) + a
             l == Len(l3)
             m == Len(lb)
  <2>1. n \in Nat /\ l \in Nat /\ m = n + l
    BY <1>0, <1>5, <1>7
  <2>2. Len(b2) = IF m <= n THEN m ELSE n
    BY <1>8
  <2> HIDE DEF n, l, m
  <2>3. Len(b2) = n
    BY <2>1, <2>2
  <2> QED
    BY <2>3 DEF n
<1>11. ASSUME b = o PROVE ToSet(w) \cup ToSet(pb) \cup ToSet(pt) \subseteq ToSet(w2) \cup ToSet(b2) \cup ToSet(t2)
  <2>1. b2 = lb
    BY <1>0, <1>5, <1>7, <1>8, <1>11
  <2>2. ASSUME NEW i \in ToSet(w) PROVE i \in ToSet(w2) \cup ToSet(b2) \cup ToSet(t2)
    <3>1. PICK n \in 1..Len(w) : w[n] = i
      BY ListIs
    <3>2. n \in 1..a \/ n \in (a + 1)..b \/ n \in (o + 1)..Len(w)
      BY <1>0, <1>11
    <3> QED
      BY <1>1, <1>2, <1>4, <1>7, <1>9, <2>1, <3>1, <3>2
  <2> QED
    BY <1>7, <1>9, <2>1, <2>2
<1> QED
  BY <1>4, <1>9, <1>10, <1>11 DEF w2, b2, t2, lb, l3, p1, p2, p3

\* The first loop of the eviction fills the main segments before it drops anything.
LEMMA AdmitKeeps ==
    ASSUME NEW c, Shaped(c), Tiny(c), NEW e \in Admit(c),
           Len(c.segs[Probation]) <= Caps(c).prob, Len(c.segs[Protected]) <= Caps(c).prot
    PROVE  /\ Fits(e) /\ Main(e) >= Main(c)
           /\ Main(e) = MainCap(c) \/ \A s \in SegIds(c.policy) : \A i \in ToSet(c.segs[s]) :
                                          \E u \in SegIds(c.policy) : i \in ToSet(e.segs[u])
<1> DEFINE w == c.segs[Window]
           pb == c.segs[Probation]
           pt == c.segs[Protected]
           over == Minus(Len(w), Caps(c).win)
           a == Min({over, Minus(Caps(c).prob, Len(pb))})
           b == Min({over, a + Minus(MainCap(c), Len(pb) + a + Len(pt))})
           w2 == SubSeq(w, over + 1, Len(w))
           b2(S) == LastOnes(pb \o SubSeq(w, 1, a) \o Only(SubSeq(w, b + 1, over), S), Len(pb) + a)
           t2 == pt \o SubSeq(w, a + 1, b)
<1>0. /\ SegIds(c.policy) = {Window, Probation, Protected}
      /\ Window # Probation /\ Window # Protected /\ Probation # Protected
  BY SegIdsAre
<1>1. PICK S : e = With(c, w2, b2(S), t2)
  <2>1. \E S : e = [c EXCEPT !.segs[Window] = w2, !.segs[Probation] = b2(S), !.segs[Protected] = t2]
    BY DEF Admit
  <2> HIDE DEF w2, b2, t2
  <2> QED
    BY <2>1 DEF With
<1>2. e.segs[Window] = w2 /\ e.segs[Probation] = b2(S) /\ e.segs[Protected] = t2
  <2> HIDE DEF w2, b2, t2
  <2>1. e.segs = [[[c.segs EXCEPT ![Window] = w2] EXCEPT ![Probation] = b2(S)] EXCEPT ![Protected] = t2]
    BY <1>1 DEF With, Shaped
  <2> QED
    BY <1>0, <2>1 DEF Shaped
<1>3. e.policy = c.policy /\ e.size = c.size
  BY AdmitRest DEF Rest
<1>4. w \in Seq(Cached) /\ pb \in Seq(Cached) /\ pt \in Seq(Cached)
  BY TinyIs
<1>5. Len(w) \in Nat /\ Len(pb) \in Nat /\ Len(pt) \in Nat
  BY <1>4, ListIs
<1>6. /\ Caps(c).win \in Nat /\ Caps(c).prob \in Nat /\ Caps(c).prot \in Nat /\ MainCap(c) \in Nat
      /\ MainCap(c) = Caps(c).prob + Caps(c).prot
  BY CapsAre DEF MainCap
<1>7. Len(pb) <= Caps(c).prob /\ Len(pt) <= Caps(c).prot
  OBVIOUS
<1> HIDE DEF w, pb, pt
<1> DEFINE x == Minus(Caps(c).prob, Len(pb))
           y == Minus(MainCap(c), Len(pb) + a + Len(pt))
<1>8. over \in Nat /\ over = IF Len(w) > Caps(c).win THEN Len(w) - Caps(c).win ELSE 0
  BY <1>5, <1>6, MinusIs
<1>9. x \in Nat /\ x = IF Caps(c).prob > Len(pb) THEN Caps(c).prob - Len(pb) ELSE 0
  BY <1>5, <1>6, MinusIs
<1> HIDE DEF over, x
<1>10. a \in Nat /\ a = IF over <= x THEN over ELSE x
  <2>1. a = IF over <= x THEN over ELSE x
    BY <1>8, <1>9, MinTwoIs DEF x
  <2> QED
    BY <1>8, <1>9, <2>1
<1> HIDE DEF a
<1>11. y \in Nat /\ y = IF MainCap(c) > Len(pb) + a + Len(pt) THEN MainCap(c) - (Len(pb) + a + Len(pt)) ELSE 0
  <2>1. Len(pb) + a + Len(pt) \in Nat
    BY <1>5, <1>10
  <2> QED
    BY <1>6, <2>1, MinusIs
<1> HIDE DEF y
<1>20. b \in Nat /\ b = IF over <= a + y THEN over ELSE a + y
  <2>1. a + y \in Nat
    <3>1. a \in Nat /\ y \in Nat
      BY <1>10, <1>11
    <3> QED
      BY <3>1
  <2>2. b = IF over <= a + y THEN over ELSE a + y
    BY <1>8, <2>1, MinTwoIs DEF y
  <2> QED
    BY <1>8, <2>1, <2>2
<1> HIDE DEF b
<1>21. /\ over <= Len(w) /\ Len(w) - over <= Caps(c).win
       /\ a <= b /\ b <= over
       /\ Len(pb) + a <= Caps(c).prob /\ Len(pt) + (b - a) <= Caps(c).prot
       /\ b = over \/ Len(pb) + b + Len(pt) = MainCap(c)
       /\ (Len(pb) + a) + (Len(pt) + (b - a)) = Len(pb) + b + Len(pt)
  <2> DEFINE lw == Len(w)
             lb == Len(pb)
             lt == Len(pt)
             win == Caps(c).win
             prob == Caps(c).prob
             prot == Caps(c).prot
             main == MainCap(c)
  <2>1. /\ lw \in Nat /\ lb \in Nat /\ lt \in Nat /\ win \in Nat /\ prob \in Nat /\ prot \in Nat
        /\ main = prob + prot /\ lb <= prob /\ lt <= prot
    BY <1>5, <1>6, <1>7
  <2>2. /\ over \in Nat /\ over = (IF lw > win THEN lw - win ELSE 0)
        /\ x \in Nat /\ x = (IF prob > lb THEN prob - lb ELSE 0)
        /\ a \in Nat /\ a = (IF over <= x THEN over ELSE x)
        /\ y \in Nat /\ y = (IF main > lb + a + lt THEN main - (lb + a + lt) ELSE 0)
        /\ b \in Nat /\ b = (IF over <= a + y THEN over ELSE a + y)
    BY <1>8, <1>9, <1>10, <1>11, <1>20
  <2> HIDE DEF lw, lb, lt, win, prob, prot, main
  <2>3. /\ over <= lw /\ lw - over <= win
        /\ a <= b /\ b <= over
        /\ lb + a <= prob /\ lt + (b - a) <= prot
        /\ b = over \/ lb + b + lt = main
        /\ (lb + a) + (lt + (b - a)) = lb + b + lt
    BY <2>1, <2>2
  <2> QED
    BY <2>3 DEF lw, lb, lt, win, prob, prot, main
<1>12. /\ Len(w2) = Len(w) - over /\ Len(b2(S)) = Len(pb) + a /\ Len(t2) = Len(pt) + (b - a)
       /\ b = over => ToSet(w) \cup ToSet(pb) \cup ToSet(pt) \subseteq
                          ToSet(w2) \cup ToSet(b2(S)) \cup ToSet(t2)
  <2>1. over <= Len(w) /\ a <= b /\ b <= over /\ a \in Nat /\ b \in Nat /\ over \in Nat
    BY <1>8, <1>10, <1>20, <1>21
  <2> QED
    BY <1>4, <2>1, AdmitLengths
<1> HIDE DEF w2, b2, t2
<1>13. Fits(e)
  <2>1. Tiny(e) /\ Caps(e) = Caps(c)
    BY <1>3 DEF Tiny, Caps
  <2>2. Len(w2) <= Caps(c).win /\ Len(b2(S)) <= Caps(c).prob /\ Len(t2) <= Caps(c).prot
    BY <1>12, <1>21
  <2> QED
    BY <1>2, <2>1, <2>2 DEF Fits
<1>14. Main(e) = Len(pb) + b + Len(pt) /\ Main(c) = Len(pb) + Len(pt)
  <2>1. Main(e) = Len(b2(S)) + Len(t2) /\ Main(c) = Len(pb) + Len(pt)
    BY <1>2 DEF Main, pb, pt
  <2> QED
    BY <1>12, <1>21, <2>1
<1>15. ASSUME b = over, NEW s \in SegIds(c.policy), NEW i \in ToSet(c.segs[s])
       PROVE  \E u \in SegIds(c.policy) : i \in ToSet(e.segs[u])
  <2>1. i \in ToSet(w) \cup ToSet(pb) \cup ToSet(pt)
    BY <1>0, <1>15 DEF w, pb, pt
  <2>2. i \in ToSet(w2) \cup ToSet(b2(S)) \cup ToSet(t2)
    BY <1>12, <1>15, <2>1
  <2> QED
    BY <1>0, <1>2, <2>2
<1>16. Main(e) >= Main(c)
  <2> DEFINE m == Len(pb)
             n == Len(pt)
  <2>1. m \in Nat /\ n \in Nat /\ b \in Nat /\ Main(e) = m + b + n /\ Main(c) = m + n
    BY <1>5, <1>14, <1>20
  <2> HIDE DEF m, n
  <2> QED
    BY <2>1
<1>17. b = over \/ Main(e) = MainCap(c)
  BY <1>14, <1>21
<1> QED
  BY <1>13, <1>15, <1>16, <1>17

\* The other loops change nothing of a cache that fits.
LEMMA DemoteKeeps ==
    ASSUME NEW c, Shaped(c), Tiny(c), Fits(c)
    PROVE  \A s \in SegIds(c.policy) : Demote(c).segs[s] = c.segs[s]
<1> DEFINE w == c.segs[Window]
           pb == c.segs[Probation]
           pt == c.segs[Protected]
           kept == LastOnes(pt, Caps(c).prot)
           first == SubSeq(pt, 1, Len(pt) - Len(kept))
           back == Reverse(first)
           b2 == LastOnes(back \o pb, Caps(c).prob)
<1>0. /\ SegIds(c.policy) = {Window, Probation, Protected}
      /\ Window # Probation /\ Window # Protected /\ Probation # Protected
  BY SegIdsAre
<1>1. w \in Seq(Cached) /\ pb \in Seq(Cached) /\ pt \in Seq(Cached)
  BY TinyIs
<1>2. Caps(c).prot \in Nat /\ Caps(c).prob \in Nat
  BY CapsAre
<1>3. Len(pb) <= Caps(c).prob /\ Len(pt) <= Caps(c).prot
  BY DEF Fits
<1>4. Demote(c).segs = [[c.segs EXCEPT ![Protected] = kept] EXCEPT ![Probation] = b2]
  <2> HIDE DEF kept, back
  <2>1. [c.segs EXCEPT ![Protected] = kept][Probation] = c.segs[Probation]
    BY <1>0 DEF Shaped
  <2>2. Demote(c) = [c EXCEPT !.segs[Protected] = kept, !.segs[Probation] = b2]
    BY <2>1 DEF Demote, kept, back
  <2> HIDE DEF b2
  <2> QED
    BY <2>2 DEF Shaped
<1> HIDE DEF w, pb, pt
<1>5. kept = pt
  BY <1>1, <1>2, <1>3, LastOnesIs
<1>6. first = <<>>
  BY <1>1, <1>2, <1>3, CutIs
<1> HIDE DEF kept, first
<1>7. back = <<>>
  <2>1. first \in Seq(Cached) /\ Len(first) = 0
    BY <1>6, NoneIs
  <2>2. back \in Seq(Cached) /\ Len(back) = 0
    BY <2>1, ReverseIs
  <2> HIDE DEF back
  <2> QED
    BY <2>2, EmptySeq
<1> HIDE DEF back
<1>8. back \o pb = pb
  BY <1>1, <1>7, ConcatEmptySeq
<1>9. b2 = pb
  BY <1>1, <1>2, <1>3, <1>8, LastOnesIs
<1> HIDE DEF b2
<1>10. Demote(c).segs[Window] = w /\ Demote(c).segs[Probation] = pb /\ Demote(c).segs[Protected] = pt
  BY <1>0, <1>4, <1>5, <1>9 DEF Shaped, w
<1> QED
  BY <1>0, <1>10 DEF w, pb, pt

\* The eviction of a cache whose main segments fit.
LEMMA EvictKeeps ==
    ASSUME NEW c, Shaped(c), NEW e \in Evict(c),
           Tiny(c) => Len(c.segs[Probation]) <= Caps(c).prob /\ Len(c.segs[Protected]) <= Caps(c).prot
    PROVE  /\ Fits(e)
           /\ Tiny(c) => /\ Main(e) >= Main(c)
                         /\ Main(e) = MainCap(c) \/ \A s \in SegIds(c.policy) : \A i \in ToSet(c.segs[s]) :
                                                        \E u \in SegIds(c.policy) : i \in ToSet(e.segs[u])
           /\ ~Tiny(c) => \A s \in SegIds(c.policy) :
                              /\ Len(e.segs[s]) = ShardCap[c.size] \/ e.segs[s] = c.segs[s]
                              /\ Len(c.segs[s]) >= ShardCap[c.size] => Len(e.segs[s]) = ShardCap[c.size]
<1>1. CASE Tiny(c)
  <2>1. PICK d \in Admit(c) : e = Demote(d)
    BY <1>1 DEF Evict
  <2>2. /\ Fits(d) /\ Main(d) >= Main(c)
        /\ Main(d) = MainCap(c) \/ \A s \in SegIds(c.policy) : \A i \in ToSet(c.segs[s]) :
                                       \E u \in SegIds(c.policy) : i \in ToSet(d.segs[u])
    BY <1>1, AdmitKeeps
  <2>3. Shaped(d) /\ d.policy = c.policy /\ d.size = c.size /\ Tiny(d)
    BY <1>1, AdmitRest DEF Rest, Tiny
  <2>4. e.policy = c.policy /\ e.size = c.size
    BY <2>1, <2>3, DemoteRest DEF Rest
  <2>5. \A s \in SegIds(c.policy) : e.segs[s] = d.segs[s]
    BY <2>1, <2>2, <2>3, DemoteKeeps
  <2>6. SegIds(c.policy) = {Window, Probation, Protected}
    BY <1>1, SegIdsAre
  <2>7. Fits(e) /\ Main(e) = Main(d)
    BY <2>2, <2>3, <2>4, <2>5, <2>6 DEF Fits, Main, Tiny, Caps
  <2> QED
    BY <1>1, <2>2, <2>5, <2>7
<1>2. CASE ~Tiny(c)
  <2> DEFINE n == ShardCap[c.size]
             f == [s \in DOMAIN c.segs |-> LastOnes(c.segs[s], n)]
  <2>1. e = [c EXCEPT !.segs = f]
    BY <1>2 DEF Evict
  <2>2. DOMAIN c.segs = SegIds(c.policy) /\ \A s \in SegIds(c.policy) : c.segs[s] \in Seq(Cached)
    BY DEF Shaped
  <2>3. n \in Nat
    BY CapsAre
  <2>4. ASSUME NEW s \in SegIds(c.policy)
        PROVE  /\ Len(f[s]) <= n /\ (Len(f[s]) = n \/ f[s] = c.segs[s])
               /\ Len(c.segs[s]) >= n => Len(f[s]) = n
    <3>1. f[s] = LastOnes(c.segs[s], n) /\ Len(c.segs[s]) \in Nat
      BY <2>2, <2>4, ListIs
    <3> HIDE DEF f, n
    <3>2. Len(f[s]) = (IF Len(c.segs[s]) <= n THEN Len(c.segs[s]) ELSE n)
          /\ (Len(c.segs[s]) <= n => f[s] = c.segs[s])
      BY <2>2, <2>3, <2>4, <3>1, LastOnesIs
    <3> QED
      BY <2>3, <3>1, <3>2
  <2> HIDE DEF f
  <2>5. e.segs = f /\ e.policy = c.policy /\ e.size = c.size
    BY <2>1 DEF Shaped
  <2> QED
    BY <1>2, <2>4, <2>5 DEF Fits, Tiny
<1> QED
  BY <1>1, <1>2

\* Cached that are live at a time.
AllLive(c, t) == \A s \in SegIds(c.policy) : \A i \in ToSet(c.segs[s]) : i.exp > t

\* A key is safe when a cache has an entry for it or no room left for one.
Safe(c, k) == Has(c, k) \/ Full(c, k)

\* What is full is as long as can be.
LEMMA MainIs ==
    ASSUME NEW c, Shaped(c), Tiny(c), Fits(c)
    PROVE  /\ Main(c) \in Nat /\ Main(c) <= MainCap(c) /\ MainCap(c) \in Nat
           /\ \A k : Full(c, k) <=> Main(c) = MainCap(c)
<1>1. Len(c.segs[Probation]) \in Nat /\ Len(c.segs[Protected]) \in Nat
  BY TinyIs, ListIs
<1>2. Caps(c).prob \in Nat /\ Caps(c).prot \in Nat
  BY CapsAre
<1>3. Len(c.segs[Probation]) <= Caps(c).prob /\ Len(c.segs[Protected]) <= Caps(c).prot
  BY DEF Fits
<1>4. \A k : Full(c, k) <=> Main(c) = MainCap(c)
  BY DEF Full, Main
<1> DEFINE m == Len(c.segs[Probation])
           n == Len(c.segs[Protected])
           prob == Caps(c).prob
           prot == Caps(c).prot
<1>5. /\ m \in Nat /\ n \in Nat /\ prob \in Nat /\ prot \in Nat /\ m <= prob /\ n <= prot
      /\ Main(c) = m + n /\ MainCap(c) = prob + prot
  BY <1>1, <1>2, <1>3 DEF Main, MainCap
<1> HIDE DEF m, n, prob, prot
<1>6. Main(c) \in Nat /\ Main(c) <= MainCap(c) /\ MainCap(c) \in Nat
  BY <1>5
<1> QED
  BY <1>4, <1>6

\* A purge leaves live entries alone.
LEMMA PurgedKeeps ==
    ASSUME NEW c, Shaped(c), NEW t \in Nat, AllLive(c, t), NEW k \in CacheKeys, NEW e \in Purged(c, k, t)
    PROVE  /\ Rest(e, c)
           /\ \A s \in SegIds(c.policy) : ToSet(e.segs[s]) = ToSet(c.segs[s]) /\ Len(e.segs[s]) = Len(c.segs[s])
<1>1. ASSUME NEW s \in SegIds(c.policy), NEW i \in ToSet(c.segs[s]) PROVE ~Past(c, i, t)
  <2>1. i.exp \in Nat /\ i.exp > t
    BY <1>1, ListIs DEF Shaped, Cached, AllLive
  <2> QED
    BY <2>1 DEF Past, Expired
<1>2. Homes(c, k) \subseteq SegIds(c.policy)
  BY HomesAre
<1> QED
  BY <1>1, <1>2, PurgedRest

\* What a cache has, and what is full, depends on the elements and the lengths of its lists.
LEMMA SafeSame ==
    ASSUME NEW c, NEW e, e.policy = c.policy, e.size = c.size, Shaped(c), Shaped(e),
           \A s \in SegIds(c.policy) : ToSet(e.segs[s]) = ToSet(c.segs[s]) /\ Len(e.segs[s]) = Len(c.segs[s])
    PROVE  /\ Fits(c) => Fits(e)
           /\ \A k \in CacheKeys : Safe(c, k) => Safe(e, k)
<1>1. \A k : Homes(e, k) = Homes(c, k) /\ StoredKey(e, k) = StoredKey(c, k)
  BY DEF Homes, StoredKey, Tiny
<1>2. (Tiny(e) <=> Tiny(c)) /\ Caps(e) = Caps(c) /\ MainCap(e) = MainCap(c)
  BY DEF Tiny, Caps, MainCap
<1>3. Tiny(c) => SegIds(c.policy) = {Window, Probation, Protected}
  BY SegIdsAre
<1>4. Fits(c) => Fits(e)
  BY <1>2, <1>3 DEF Fits
<1>5. ASSUME NEW k \in CacheKeys PROVE (Has(c, k) => Has(e, k)) /\ (Full(c, k) => Full(e, k))
  <2>1. Homes(c, k) \subseteq SegIds(c.policy)
    BY HomesAre
  <2>2. Has(c, k) => Has(e, k)
    BY <1>1, <2>1, HasIs
  <2>3. Full(c, k) => Full(e, k)
    <3>1. CASE Tiny(c)
      <4>1. Len(e.segs[Probation]) = Len(c.segs[Probation]) /\ Len(e.segs[Protected]) = Len(c.segs[Protected])
        BY <1>3, <3>1
      <4>2. (Full(e, k) <=> Len(e.segs[Probation]) + Len(e.segs[Protected]) = MainCap(e))
            /\ (Full(c, k) <=> Len(c.segs[Probation]) + Len(c.segs[Protected]) = MainCap(c))
        BY <1>2, <3>1 DEF Full
      <4> QED
        BY <1>2, <4>1, <4>2
    <3>2. CASE ~Tiny(c)
      BY <1>1, <1>2, <2>1, <3>2 DEF Full
    <3> QED
      BY <3>1, <3>2
  <2> QED
    BY <2>2, <2>3
<1> QED
  BY <1>4, <1>5 DEF Safe

\* An eviction loses nothing while there is room: what is safe stays so.
LEMMA EvictSafe ==
    ASSUME NEW c, Shaped(c), NEW e \in Evict(c),
           Tiny(c) => Len(c.segs[Probation]) <= Caps(c).prob /\ Len(c.segs[Protected]) <= Caps(c).prot
    PROVE  /\ Fits(e)
           /\ \A k \in CacheKeys : Has(c, k) => Safe(e, k)
           /\ Tiny(c) => /\ \A k : Main(c) >= MainCap(c) => Full(e, k)
           /\ ~Tiny(c) => \A k \in CacheKeys : \A s \in Homes(c, k) :
                              Len(c.segs[s]) >= ShardCap[c.size] => Full(e, k)
<1>1. Rest(e, c)
  BY EvictRest
<1>2. /\ Shaped(e) /\ e.policy = c.policy /\ e.size = c.size /\ (Tiny(e) <=> Tiny(c))
      /\ MainCap(e) = MainCap(c)
  BY <1>1 DEF Rest, Tiny, MainCap, Caps
<1>3. \A k : Homes(e, k) = Homes(c, k) /\ StoredKey(e, k) = StoredKey(c, k)
  BY <1>2 DEF Homes, StoredKey, Tiny
<1>4. Fits(e)
  BY EvictKeeps
<1>5. ASSUME Tiny(c)
      PROVE  /\ \A k \in CacheKeys : Has(c, k) => Safe(e, k)
             /\ \A k : Main(c) >= MainCap(c) => Full(e, k)
  <2>1. /\ Main(e) >= Main(c)
        /\ Main(e) = MainCap(c) \/ \A s \in SegIds(c.policy) : \A i \in ToSet(c.segs[s]) :
                                       \E u \in SegIds(c.policy) : i \in ToSet(e.segs[u])
    BY <1>5, EvictKeeps
  <2>2. /\ Main(e) \in Nat /\ Main(e) <= MainCap(c) /\ MainCap(c) \in Nat
        /\ \A k : Full(e, k) <=> Main(e) = MainCap(c)
    BY <1>2, <1>4, <1>5, MainIs
  <2>3. Main(c) \in Nat
    <3>1. Len(c.segs[Probation]) \in Nat /\ Len(c.segs[Protected]) \in Nat
      BY <1>5, TinyIs, ListIs
    <3> DEFINE m == Len(c.segs[Probation])
               n == Len(c.segs[Protected])
    <3>2. m \in Nat /\ n \in Nat /\ Main(c) = m + n
      BY <3>1 DEF Main
    <3> HIDE DEF m, n
    <3> QED
      BY <3>2
  <2>4. ASSUME NEW k \in CacheKeys, Has(c, k) PROVE Safe(e, k)
    <3>1. CASE Main(e) = MainCap(c)
      BY <2>2, <3>1 DEF Safe
    <3>2. CASE Main(e) # MainCap(c)
      <4>1. PICK s \in Homes(c, k) : \E i \in ToSet(c.segs[s]) : i.key = StoredKey(c, k)
        BY <2>4, HasIs
      <4>2. Homes(c, k) = SegIds(c.policy)
        BY <1>5, HomesAre
      <4>3. \E u \in Homes(c, k) : \E i \in ToSet(e.segs[u]) : i.key = StoredKey(c, k)
        BY <2>1, <3>2, <4>1, <4>2
      <4> QED
        BY <1>2, <1>3, <4>3, HasIs DEF Safe
    <3> QED
      BY <3>1, <3>2
  <2> QED
    BY <2>1, <2>2, <2>3, <2>4
<1>6. ASSUME ~Tiny(c), NEW k \in CacheKeys
      PROVE  /\ Has(c, k) => Safe(e, k)
             /\ \A s \in Homes(c, k) : Len(c.segs[s]) >= ShardCap[c.size] => Full(e, k)
  <2>1. \A s \in SegIds(c.policy) : /\ Len(e.segs[s]) = ShardCap[c.size] \/ e.segs[s] = c.segs[s]
                                    /\ Len(c.segs[s]) >= ShardCap[c.size] => Len(e.segs[s]) = ShardCap[c.size]
    BY <1>6, EvictKeeps
  <2>2. Homes(c, k) \subseteq SegIds(c.policy)
    BY HomesAre
  <2>3. \A s \in Homes(c, k) : Len(e.segs[s]) = ShardCap[c.size] => Full(e, k)
    BY <1>2, <1>3, <1>6 DEF Full
  <2>4. Has(c, k) => Safe(e, k)
    <3>1. HAVE Has(c, k)
    <3>2. PICK s \in Homes(c, k) : \E i \in ToSet(c.segs[s]) : i.key = StoredKey(c, k)
      BY <3>1, HasIs
    <3>3. CASE Len(e.segs[s]) = ShardCap[c.size]
      BY <2>3, <3>3 DEF Safe
    <3>4. CASE e.segs[s] = c.segs[s]
      BY <1>2, <1>3, <3>2, <3>4, HasIs DEF Safe
    <3> QED
      BY <2>1, <2>2, <3>3, <3>4
  <2> QED
    BY <2>1, <2>2, <2>3, <2>4
<1> QED
  BY <1>4, <1>5, <1>6

\* A put of a live entry into a cache of live entries that fits: it is safe then, and
\* what was safe stays so.
LEMMA PutKeeps ==
    ASSUME NEW c, Shaped(c), Alone(c), Fits(c), NEW t \in Nat, AllLive(c, t),
           NEW k \in CacheKeys, NEW item \in Cached, item.exp > t, NEW e \in PutIn(c, k, item, t)
    PROVE  /\ Fits(e) /\ AllLive(e, t) /\ Safe(e, k)
           /\ \A x \in CacheKeys : Safe(c, x) => Safe(e, x)
<1> DEFINE d == Added(c, k, item)
           s0 == PutHome(c, k)
           i == New0(c, k, item)
<1>0. s0 \in SegIds(c.policy) /\ s0 \in Homes(c, k) /\ (~Has(c, k) /\ Tiny(c) => s0 = Window)
  BY PutHomeIs
<1>1. /\ Shaped(d) /\ d.policy = c.policy /\ d.size = c.size /\ d.window = c.window
      /\ i.key = StoredKey(c, k) /\ i.exp = item.exp /\ i \in ToSet(d.segs[s0])
      /\ \A u \in SegIds(c.policy) : u # s0 => d.segs[u] = c.segs[u]
      /\ \A j \in ToSet(d.segs[s0]) : j = i \/ (j \in ToSet(c.segs[s0]) /\ j.key # i.key)
      /\ \A j \in ToSet(c.segs[s0]) : j.key # i.key => j \in ToSet(d.segs[s0])
      /\ Len(d.segs[s0]) = IF Has(c, k) THEN Len(c.segs[s0]) ELSE Len(c.segs[s0]) + 1
  BY AddedIs
<1>2. PICK a \in Evict(d) : e = a \/ e \in Purged(a, k, t)
  BY DEF PutIn, Added
<1> HIDE DEF d, s0, i
<1>3. (Tiny(d) <=> Tiny(c)) /\ Caps(d) = Caps(c) /\ MainCap(d) = MainCap(c)
  BY <1>1 DEF Tiny, Caps, MainCap
<1>4. \A x : Homes(d, x) = Homes(c, x) /\ StoredKey(d, x) = StoredKey(c, x)
  BY <1>1 DEF Homes, StoredKey, Tiny
<1>5. \A s \in SegIds(c.policy) : Len(c.segs[s]) \in Nat
  BY ListIs DEF Shaped
<1>6. AllLive(d, t)
  <2>1. \A u \in SegIds(c.policy) : \A j \in ToSet(d.segs[u]) : j = i \/ j \in ToSet(c.segs[u])
    BY <1>1
  <2> QED
    BY <1>1, <2>1 DEF AllLive
<1>7. ASSUME Tiny(c)
      PROVE  /\ Len(d.segs[Probation]) <= Caps(d).prob /\ Len(d.segs[Protected]) <= Caps(d).prot
             /\ Main(d) = Main(c)
  <2>1. /\ SegIds(c.policy) = {Window, Probation, Protected}
        /\ Window # Probation /\ Window # Protected
    BY <1>7, SegIdsAre
  <2>2. \A s \in {Probation, Protected} : Len(d.segs[s]) = Len(c.segs[s])
    BY <1>0, <1>1, <1>7, <2>1
  <2> QED
    BY <1>3, <1>7, <2>2 DEF Fits, Main
<1>8. /\ Fits(a)
      /\ \A x \in CacheKeys : Has(d, x) => Safe(a, x)
      /\ Tiny(d) => /\ \A x : Main(d) >= MainCap(d) => Full(a, x)
      /\ ~Tiny(d) => \A x \in CacheKeys : \A s \in Homes(d, x) :
                         Len(d.segs[s]) >= ShardCap[d.size] => Full(a, x)
  BY <1>1, <1>3, <1>7, EvictSafe
<1>9. Rest(a, d)
  BY <1>1, EvictRest
<1>10. AllLive(a, t)
  BY <1>6, <1>9 DEF AllLive, Rest
<1>11. Has(d, k)
  BY <1>0, <1>1, <1>4, HasIs
<1>12. ASSUME NEW x \in CacheKeys, Has(c, x) PROVE Has(d, x)
  <2>1. PICK s \in Homes(c, x) : \E j \in ToSet(c.segs[s]) : j.key = StoredKey(c, x)
    BY <1>12, HasIs
  <2>2. s \in SegIds(c.policy)
    BY HomesAre
  <2>3. \E j \in ToSet(d.segs[s]) : j.key = StoredKey(c, x)
    BY <1>1, <2>1, <2>2
  <2> QED
    BY <1>1, <1>4, <2>1, <2>3, HasIs
<1>13. ASSUME NEW x \in CacheKeys, Full(c, x) PROVE Full(a, x)
  <2>1. CASE Tiny(c)
    <3>1. Main(c) = MainCap(c) /\ MainCap(c) \in Nat
      BY <1>13, <2>1, MainIs
    <3> QED
      BY <1>3, <1>7, <1>8, <2>1, <3>1
  <2>2. CASE ~Tiny(c)
    <3>1. PICK s \in Homes(c, x) : Len(c.segs[s]) = ShardCap[c.size]
      BY <1>13, <2>2 DEF Full
    <3>2. s \in SegIds(c.policy) /\ Len(c.segs[s]) \in Nat
      BY <1>5, HomesAre
    <3>3. Len(d.segs[s]) >= Len(c.segs[s])
      <4>1. CASE s = s0
        <5>1. Len(d.segs[s]) = Len(c.segs[s]) \/ Len(d.segs[s]) = Len(c.segs[s]) + 1
          BY <1>1, <4>1
        <5> QED
          BY <3>2, <5>1
      <4>2. CASE s # s0
        BY <1>1, <3>2, <4>2
      <4> QED
        BY <4>1, <4>2
    <3> QED
      BY <1>1, <1>3, <1>4, <1>8, <2>2, <3>1, <3>2, <3>3
  <2> QED
    BY <2>1, <2>2
<1>14. Safe(a, k) /\ \A x \in CacheKeys : Safe(c, x) => Safe(a, x)
  BY <1>8, <1>11, <1>12, <1>13 DEF Safe
<1>15. Shaped(a)
  BY <1>9 DEF Rest
<1>16. CASE e = a
  BY <1>8, <1>10, <1>14, <1>16
<1>17. CASE e \in Purged(a, k, t)
  <2>1. /\ Rest(e, a)
        /\ \A s \in SegIds(a.policy) : ToSet(e.segs[s]) = ToSet(a.segs[s]) /\ Len(e.segs[s]) = Len(a.segs[s])
    BY <1>10, <1>15, <1>17, PurgedKeeps
  <2>2. Shaped(e) /\ e.policy = a.policy /\ e.size = a.size
    BY <2>1 DEF Rest
  <2>3. Fits(e) /\ \A x \in CacheKeys : Safe(a, x) => Safe(e, x)
    BY <1>8, <1>15, <2>1, <2>2, SafeSame
  <2>4. AllLive(e, t)
    BY <1>10, <2>1, <2>2 DEF AllLive
  <2> QED
    BY <1>14, <2>3, <2>4
<1> QED
  BY <1>2, <1>16, <1>17

\* The invariant of a single cache.
Sound(c) == Shaped(c) /\ Placed(c) /\ Alone(c)

\* The entries of some domains are what was put for them last.
Current(c, ds) == \A s \in SegIds(c.policy) : \A i \in ToSet(c.segs[s]) : i.key[2] \in ds => i.newest

\* What cache c holds, and reload has yet to copy or has copied into cache f, of some domains
\* and later than a time.
Carried(c, f, keys, ds, t) ==
    \A s \in SegIds(c.policy) : \A i \in ToSet(c.segs[s]) :
        i.key[2] \in ds /\ i.exp > t =>
            LET k == ReportedKey(c, s, i) IN k \in ToSet(keys) \/ Safe(f, k)

\* The parts of an entry, and the key that is reported for it.
LEMMA EntryIs ==
    ASSUME NEW c, Shaped(c), NEW s \in SegIds(c.policy), NEW i \in ToSet(c.segs[s])
    PROVE  /\ i \in Cached /\ i.key \in CacheKeys /\ i.exp \in Nat /\ i.newest \in BOOLEAN
           /\ ReportedKey(c, s, i) \in CacheKeys /\ ReportedKey(c, s, i)[2] = i.key[2]
<1>1. i \in Cached
  BY ListIs DEF Shaped
<1>2. i.key \in CacheKeys /\ i.exp \in Nat /\ i.newest \in BOOLEAN
  BY <1>1 DEF Cached
<1>3. i.key[2] \in Domains
  BY <1>2, KeyIs
<1>4. CASE c.policy.kind # "partitioned"
  BY <1>1, <1>2, <1>4 DEF ReportedKey
<1>5. CASE c.policy.kind = "partitioned"
  <2>1. s[1] \in Groups
    <3>1. SegIds(c.policy) = c.policy.parts \X Shards
      BY <1>5, SegIdsAre
    <3>2. c.policy.parts \subseteq Groups
      BY PolicyIs DEF Shaped
    <3> QED
      BY <3>1, <3>2
  <2>2. ReportedKey(c, s, i) = <<s[1], i.key[2]>>
    BY <1>5 DEF ReportedKey
  <2> QED
    BY <1>1, <1>2, <1>3, <2>1, <2>2 DEF CacheKeys
<1> QED
  BY <1>4, <1>5

\* A cache of which something is left: what held for all of its entries holds for those.
LEMMA RestKeeps ==
    ASSUME NEW c, NEW e, Sound(c), Rest(e, c)
    PROVE  /\ Sound(e) /\ Shadowed(e) \subseteq Shadowed(c)
           /\ \A ds : Current(c, ds) => Current(e, ds)
           /\ \A f, keys, ds, t : Carried(c, f, keys, ds, t) => Carried(e, f, keys, ds, t)
<1>1. Sound(e) /\ Shadowed(e) \subseteq Shadowed(c)
  BY RestIs DEF Sound, Rest
<1>2. e.policy = c.policy /\ \A s \in SegIds(c.policy) : \A i \in ToSet(e.segs[s]) :
          \E t \in SegIds(c.policy) : i \in ToSet(c.segs[t]) /\ (s = t \/ Tiny(c))
  BY DEF Rest
<1>3. \A s, t, i : ReportedKey(e, s, i) = ReportedKey(c, s, i)
                   /\ (Tiny(c) => ReportedKey(c, s, i) = ReportedKey(c, t, i))
  BY <1>2 DEF ReportedKey, Tiny
<1>4. \A ds : Current(c, ds) => Current(e, ds)
  BY <1>2 DEF Current
<1>5. ASSUME NEW f, NEW keys, NEW ds, NEW t, Carried(c, f, keys, ds, t),
             NEW s \in SegIds(c.policy), NEW i \in ToSet(e.segs[s]), i.key[2] \in ds, i.exp > t
      PROVE  ReportedKey(e, s, i) \in ToSet(keys) \/ Safe(f, ReportedKey(e, s, i))
  <2>1. PICK u \in SegIds(c.policy) : i \in ToSet(c.segs[u]) /\ (s = u \/ Tiny(c))
    BY <1>2, <1>5
  <2>2. ReportedKey(e, s, i) = ReportedKey(c, u, i)
    BY <1>3, <2>1
  <2> QED
    BY <1>5, <2>1, <2>2 DEF Carried
<1>6. \A f, keys, ds, t : Carried(c, f, keys, ds, t) => Carried(e, f, keys, ds, t)
  BY <1>2, <1>5 DEF Carried
<1> QED
  BY <1>1, <1>4, <1>6

\* Marking the entries of some domains as out of date.
LEMMA AgedKeeps ==
    ASSUME NEW c, Sound(c), NEW ds
    PROVE  LET e == Aged(c, ds)
           IN  /\ Sound(e) /\ Shadowed(e) \subseteq Shadowed(c)
               /\ e.policy = c.policy /\ e.size = c.size /\ e.window = c.window
               /\ \A xs : Current(c, xs) => Current(e, xs \ ds)
               /\ \A t : AllLive(c, t) => AllLive(e, t)
               /\ Fits(c) => Fits(e)
               /\ \A k \in CacheKeys : Safe(c, k) => Safe(e, k)
               /\ \A f, keys, xs, t : Carried(c, f, keys, xs, t) => Carried(e, f, keys, xs, t)
<1> DEFINE e == Aged(c, ds)
<1>1. /\ Shaped(e) /\ e.policy = c.policy /\ e.size = c.size /\ e.window = c.window
      /\ \A s \in SegIds(c.policy) :
             /\ Len(e.segs[s]) = Len(c.segs[s])
             /\ \A i \in ToSet(e.segs[s]) : \E j \in ToSet(c.segs[s]) :
                    i.key = j.key /\ i.exp = j.exp /\ (j.key[2] \notin ds => i = j)
      /\ Alone(c) => Alone(e)
      /\ Placed(c) => Placed(e)
      /\ Shadowed(e) \subseteq Shadowed(c)
      /\ \A k : Homes(e, k) = Homes(c, k)
      /\ \A k \in CacheKeys : Has(e, k) <=> Has(c, k)
  BY AgedIs DEF Sound
<1> HIDE DEF e
<1>2. Sound(e)
  BY <1>1 DEF Sound
<1>3. ASSUME NEW xs, Current(c, xs), NEW s \in SegIds(c.policy), NEW i \in ToSet(e.segs[s]), i.key[2] \in xs \ ds
      PROVE  i.newest
  <2>1. PICK j \in ToSet(c.segs[s]) : i.key = j.key /\ (j.key[2] \notin ds => i = j)
    BY <1>1, <1>3
  <2>2. i = j
    BY <1>3, <2>1
  <2> QED
    BY <1>3, <2>2 DEF Current
<1>4. \A t : AllLive(c, t) => AllLive(e, t)
  BY <1>1 DEF AllLive
<1>5. (Tiny(e) <=> Tiny(c)) /\ Caps(e) = Caps(c) /\ MainCap(e) = MainCap(c)
  BY <1>1 DEF Tiny, Caps, MainCap
<1>6. Shaped(c) /\ (Tiny(c) => SegIds(c.policy) = {Window, Probation, Protected})
  BY SegIdsAre DEF Sound
<1>7. Fits(c) => Fits(e)
  BY <1>1, <1>5, <1>6 DEF Fits
<1>8. ASSUME NEW k \in CacheKeys, Full(c, k) PROVE Full(e, k)
  <2>1. CASE Tiny(c)
    <3>1. Len(e.segs[Probation]) = Len(c.segs[Probation]) /\ Len(e.segs[Protected]) = Len(c.segs[Protected])
      BY <1>1, <1>6, <2>1
    <3>2. (Full(e, k) <=> Len(e.segs[Probation]) + Len(e.segs[Protected]) = MainCap(e))
          /\ (Full(c, k) <=> Len(c.segs[Probation]) + Len(c.segs[Protected]) = MainCap(c))
      BY <1>5, <2>1 DEF Full
    <3> QED
      BY <1>5, <1>8, <3>1, <3>2
  <2>2. CASE ~Tiny(c)
    <3>1. Homes(c, k) \subseteq SegIds(c.policy)
      BY <1>6, HomesAre
    <3> QED
      BY <1>1, <1>5, <1>8, <2>2, <3>1 DEF Full
  <2> QED
    BY <2>1, <2>2
<1>9. \A k \in CacheKeys : Safe(c, k) => Safe(e, k)
  BY <1>1, <1>8 DEF Safe
<1>10. ASSUME NEW f, NEW keys, NEW xs, NEW t, Carried(c, f, keys, xs, t),
              NEW s \in SegIds(c.policy), NEW i \in ToSet(e.segs[s]), i.key[2] \in xs, i.exp > t
       PROVE  ReportedKey(e, s, i) \in ToSet(keys) \/ Safe(f, ReportedKey(e, s, i))
  <2>1. PICK j \in ToSet(c.segs[s]) : i.key = j.key /\ i.exp = j.exp
    BY <1>1, <1>10
  <2>2. ReportedKey(e, s, i) = ReportedKey(c, s, j)
    BY <1>1, <2>1 DEF ReportedKey
  <2>3. ReportedKey(c, s, j) \in ToSet(keys) \/ Safe(f, ReportedKey(c, s, j))
    BY <1>10, <2>1 DEF Carried
  <2> QED
    BY <2>2, <2>3
<1>11. \A f, keys, xs, t : Carried(c, f, keys, xs, t) => Carried(e, f, keys, xs, t)
  BY <1>1, <1>10 DEF Carried
<1>12. \A xs : Current(c, xs) => Current(e, xs \ ds)
  BY <1>1, <1>3 DEF Current
<1> QED
  BY <1>1, <1>2, <1>4, <1>7, <1>9, <1>11, <1>12 DEF e

\* A new cache.
LEMMA NewIs ==
    ASSUME NEW p \in {x.policy : x \in Configs}, NEW n \in {x.size : x \in Configs}
    PROVE  LET c == New(p, n)
           IN  /\ Sound(c) /\ Fits(c) /\ Shadowed(c) = {}
               /\ c.policy = p /\ c.size = n /\ c.window = 0
               /\ \A s \in SegIds(p) : c.segs[s] = <<>>
               /\ \A ds : Current(c, ds)
               /\ \A t : AllLive(c, t)
<1> DEFINE c == New(p, n)
<1>1. /\ c.policy = p /\ c.size = n /\ c.window = 0 /\ DOMAIN c.segs = SegIds(p)
      /\ c = [policy |-> c.policy, size |-> c.size, window |-> c.window, segs |-> c.segs]
      /\ \A s \in SegIds(p) : c.segs[s] = <<>>
  BY DEF New
<1>2. c.segs \in [SegIds(p) -> Seq(Cached)]
  <2>1. c.segs = [s \in SegIds(p) |-> <<>>]
    BY DEF New
  <2> QED
    BY <2>1, NoneIs
<1> HIDE DEF c
<1>3. Shaped(c)
  BY <1>1, <1>2 DEF Shaped
<1>4. \A s \in SegIds(p) : ToSet(c.segs[s]) = {} /\ Len(c.segs[s]) = 0 /\ Distinct(c.segs[s])
  BY <1>1, NoneIs
<1>5. Placed(c) /\ Shadowed(c) = {} /\ (\A ds : Current(c, ds)) /\ (\A t : AllLive(c, t))
  BY <1>1, <1>4 DEF Placed, Shadowed, Current, AllLive
<1>6. Alone(c)
  BY <1>1, <1>4 DEF Alone, Apart
<1>7. Fits(c)
  <2>1. /\ Caps(c).win \in Nat \ {0} /\ Caps(c).prob \in Nat \ {0} /\ Caps(c).prot \in Nat \ {0}
        /\ ShardCap[c.size] \in Nat \ {0}
    BY <1>3, CapsAre
  <2>2. Tiny(c) => SegIds(p) = {Window, Probation, Protected}
    BY <1>1, <1>3, SegIdsAre
  <2> QED
    BY <1>1, <1>4, <2>1, <2>2 DEF Fits
<1> QED
  BY <1>1, <1>3, <1>5, <1>6, <1>7 DEF Sound, c

\* Another size, or another window, changes no entry.
LEMMA SameEntries ==
    ASSUME NEW c, Sound(c), NEW e, Shaped(e), e.policy = c.policy, e.segs = c.segs
    PROVE  /\ Sound(e) /\ Shadowed(e) = Shadowed(c)
           /\ \A ds : Current(c, ds) <=> Current(e, ds)
<1>1. \A k : Homes(e, k) = Homes(c, k) /\ StoredKey(e, k) = StoredKey(c, k)
  BY DEF Homes, StoredKey, Tiny
<1>2. \A s, i : ReportedKey(e, s, i) = ReportedKey(c, s, i)
  BY DEF ReportedKey
<1>3. Placed(e)
  BY <1>1, <1>2 DEF Placed, Sound
<1>4. Alone(e)
  BY DEF Alone, Tiny, Sound
<1>5. Shadowed(e) = Shadowed(c)
  BY <1>1 DEF Shadowed
<1>6. \A ds : Current(c, ds) <=> Current(e, ds)
  BY DEF Current
<1> QED
  BY <1>3, <1>4, <1>5, <1>6 DEF Sound

\* A cache with another size.
LEMMA ResizedIs ==
    ASSUME NEW c, Sound(c), NEW n \in {x.size : x \in Configs}
    PROVE  LET e == [c EXCEPT !.size = n]
           IN  /\ Sound(e) /\ Shadowed(e) = Shadowed(c) /\ \A ds : Current(c, ds) <=> Current(e, ds)
               /\ e.policy = c.policy /\ e.size = n /\ e.window = c.window
<1> DEFINE e == [c EXCEPT !.size = n]
<1>1. e = [policy |-> c.policy, size |-> n, window |-> c.window, segs |-> c.segs]
  BY DEF Sound, Shaped
<1> HIDE DEF e
<1>2. e.policy = c.policy /\ e.size = n /\ e.window = c.window /\ e.segs = c.segs
  BY <1>1
<1>3. Shaped(e)
  BY <1>1, <1>2 DEF Sound, Shaped
<1>4. Sound(e) /\ Shadowed(e) = Shadowed(c) /\ \A ds : Current(c, ds) <=> Current(e, ds)
  BY <1>2, <1>3, SameEntries
<1> QED
  BY <1>2, <1>4 DEF e

\* A cache with another serve-stale window.
LEMMA WindowSetIs ==
    ASSUME NEW c, Sound(c), NEW w \in Nat
    PROVE  LET e == [c EXCEPT !.window = w]
           IN  /\ Sound(e) /\ Shadowed(e) = Shadowed(c) /\ \A ds : Current(c, ds) <=> Current(e, ds)
               /\ e.policy = c.policy /\ e.size = c.size /\ e.window = w
<1> DEFINE e == [c EXCEPT !.window = w]
<1>1. e = [policy |-> c.policy, size |-> c.size, window |-> w, segs |-> c.segs]
  BY DEF Sound, Shaped
<1> HIDE DEF e
<1>2. e.policy = c.policy /\ e.size = c.size /\ e.window = w /\ e.segs = c.segs
  BY <1>1
<1>3. Shaped(e)
  BY <1>1, <1>2 DEF Sound, Shaped
<1>4. Sound(e) /\ Shadowed(e) = Shadowed(c) /\ \A ds : Current(c, ds) <=> Current(e, ds)
  BY <1>2, <1>3, SameEntries
<1> QED
  BY <1>2, <1>4 DEF e

\* The values of a function with a finite domain are finitely many, and so are their elements
\* when each is a finite set.
LEMMA ImageFinite ==
    ASSUME NEW f, IsFiniteSet(DOMAIN f)
    PROVE  IsFiniteSet({f[x] : x \in DOMAIN f})
<1> DEFINE T == {f[x] : x \in DOMAIN f}
           g == [x \in DOMAIN f |-> f[x]]
<1>1. g \in Surjection(DOMAIN f, T)
  <2>1. g \in [DOMAIN f -> T]
    OBVIOUS
  <2>2. \A y \in T : \E x \in DOMAIN f : g[x] = y
    OBVIOUS
  <2> QED
    BY <2>1, <2>2 DEF Surjection
<1> HIDE DEF g, T
<1>2. IsFiniteSet(T)
  BY <1>1, FS_Surjection
<1> QED
  BY <1>2 DEF T

\* The union of a finite family of finite sets is finite.
LEMMA UnionFinite ==
    ASSUME NEW f, IsFiniteSet(DOMAIN f), \A x \in DOMAIN f : IsFiniteSet(f[x])
    PROVE  IsFiniteSet(UNION {f[x] : x \in DOMAIN f})
<1> DEFINE T == {f[x] : x \in DOMAIN f}
<1>1. IsFiniteSet(T)
  BY ImageFinite
<1>2. \A y \in T : IsFiniteSet(y)
  OBVIOUS
<1> HIDE DEF T
<1>3. IsFiniteSet(UNION T)
  BY <1>1, <1>2, FS_UNION
<1> QED
  BY <1>3 DEF T

\* There are finitely many partitions and shards.
LEMMA SegIdsFinite ==
    ASSUME NEW c, Shaped(c)
    PROVE  IsFiniteSet(SegIds(c.policy))
<1>1. IsFiniteSet(Groups)
  <2>1. DOMAIN GroupOrder = 1..Len(GroupOrder) /\ Len(GroupOrder) \in Nat
    BY GroupsAssumption
  <2>2. IsFiniteSet(DOMAIN GroupOrder)
    BY <2>1, CountIs
  <2> QED
    BY <2>2, ImageFinite DEF Groups, ToSet
<1>2. c.policy.parts \subseteq Groups
  BY PolicyIs DEF Shaped
<1>3. IsFiniteSet(c.policy.parts)
  BY <1>1, <1>2, FS_Subset
<1>4. IsFiniteSet({Window, Probation, Protected})
  <2>1. IsFiniteSet({} \cup {Window})
    BY FS_EmptySet, FS_AddElement
  <2>2. IsFiniteSet(({} \cup {Window}) \cup {Probation})
    BY <2>1, FS_AddElement
  <2>3. IsFiniteSet((({} \cup {Window}) \cup {Probation}) \cup {Protected})
    BY <2>2, FS_AddElement
  <2>4. (({} \cup {Window}) \cup {Probation}) \cup {Protected} = {Window, Probation, Protected}
    OBVIOUS
  <2> QED
    BY <2>3, <2>4
<1>5. IsFiniteSet({NoGroup} \X Shards)
  BY FS_Singleton, FS_Product, ShardsAssumption
<1>6. IsFiniteSet(c.policy.parts \X Shards)
  BY <1>3, FS_Product, ShardsAssumption
<1> QED
  BY <1>4, <1>5, <1>6, SegIdsAre

\* The elements of a finite set in some order.
LEMMA OrdersAre ==
    ASSUME NEW S, IsFiniteSet(S), NEW p \in SetToSeqs(S)
    PROVE  /\ p \in Seq(S) /\ ToSet(p) = S
           /\ \A x, y \in DOMAIN p : p[x] = p[y] => x = y
<1> DEFINE n == Cardinality(S)
<1>1. n \in Nat
  BY FS_CardinalityType
<1>2. p \in [1..n -> S] /\ \A x, y \in 1..n : x # y => p[x] # p[y]
  BY DEF SetToSeqs
<1>3. IsFiniteSet(1..n) /\ Cardinality(1..n) = n
  BY <1>1, CountIs
<1>4. p \in Injection(1..n, S)
  BY <1>2 DEF Injection, IsInjective
<1>5. p \in Surjection(1..n, S)
  BY <1>3, <1>4, FS_Injection
<1>6. \A x \in S : \E y \in 1..n : p[y] = x
  BY <1>5 DEF Surjection
<1> HIDE DEF n
<1>7. p \in Seq(S)
  BY <1>1, <1>2
<1>8. DOMAIN p = 1..n
  BY <1>2
<1> QED
  BY <1>2, <1>6, <1>7, <1>8 DEF ToSet

\* The places of the entries are finitely many.
LEMMA PlacesFinite ==
    ASSUME NEW c, Shaped(c)
    PROVE  IsFiniteSet(UNION {{s} \X DOMAIN c.segs[s] : s \in DOMAIN c.segs})
<1> DEFINE f == [s \in DOMAIN c.segs |-> {s} \X DOMAIN c.segs[s]]
<1>1. DOMAIN c.segs = SegIds(c.policy) /\ \A s \in DOMAIN c.segs : c.segs[s] \in Seq(Cached)
  BY DEF Shaped
<1>2. \A s \in DOMAIN c.segs : IsFiniteSet(f[s])
  <2> TAKE s \in DOMAIN c.segs
  <2>1. DOMAIN c.segs[s] = 1..Len(c.segs[s]) /\ Len(c.segs[s]) \in Nat
    BY <1>1, ListIs
  <2>2. IsFiniteSet(DOMAIN c.segs[s])
    BY <2>1, CountIs
  <2>3. IsFiniteSet({s} \X DOMAIN c.segs[s])
    BY <2>2, FS_Singleton, FS_Product
  <2> QED
    BY <2>3
<1>3. DOMAIN f = DOMAIN c.segs /\ IsFiniteSet(DOMAIN f)
  BY <1>1, SegIdsFinite
<1>4. {f[s] : s \in DOMAIN f} = {{s} \X DOMAIN c.segs[s] : s \in DOMAIN c.segs}
  OBVIOUS
<1> HIDE DEF f
<1>5. IsFiniteSet(UNION {f[s] : s \in DOMAIN f})
  BY <1>2, <1>3, UnionFinite
<1> QED
  BY <1>4, <1>5

\* The keys of a segment, in its order.
LEMMA KeysOfIs ==
    ASSUME NEW c, Shaped(c), NEW s \in SegIds(c.policy)
    PROVE  /\ KeysOf(c, s) \in Seq(CacheKeys) /\ Len(KeysOf(c, s)) = Len(c.segs[s])
           /\ DOMAIN KeysOf(c, s) = DOMAIN c.segs[s]
           /\ \A j \in DOMAIN c.segs[s] : KeysOf(c, s)[j] = ReportedKey(c, s, c.segs[s][j])
           /\ \A i \in ToSet(c.segs[s]) : ReportedKey(c, s, i) \in ToSet(KeysOf(c, s))
<1> DEFINE q == c.segs[s]
           r == KeysOf(c, s)
<1>1. q \in Seq(Cached)
  BY DEF Shaped
<1>2. DOMAIN q = 1..Len(q) /\ Len(q) \in Nat /\ \A n \in 1..Len(q) : q[n] \in ToSet(q)
  BY <1>1, ListIs
<1>3. \A n \in 1..Len(q) : ReportedKey(c, s, q[n]) \in CacheKeys
  BY <1>2, EntryIs
<1>4. r = [j \in DOMAIN q |-> ReportedKey(c, s, q[j])]
  BY DEF KeysOf
<1>5. \A i \in ToSet(q) : \E n \in 1..Len(q) : q[n] = i
  BY <1>1, ListIs
<1> HIDE DEF q, r
<1>6. r \in [1..Len(q) -> CacheKeys]
  BY <1>2, <1>3, <1>4
<1>7. r \in Seq(CacheKeys) /\ Len(r) = Len(q)
  BY <1>2, <1>6
<1>8. \A i \in ToSet(q) : ReportedKey(c, s, i) \in ToSet(r)
  BY <1>2, <1>4, <1>5 DEF ToSet
<1> QED
  BY <1>2, <1>4, <1>7, <1>8 DEF q, r

\* Two lists of keys, one after the other.
LEMMA KeysConcat ==
    ASSUME NEW p \in Seq(CacheKeys), NEW q \in Seq(CacheKeys)
    PROVE  p \o q \in Seq(CacheKeys) /\ ToSet(p) \cup ToSet(q) \subseteq ToSet(p \o q)
<1>1. p \o q \in Seq(CacheKeys) /\ Len(p \o q) = Len(p) + Len(q)
  OBVIOUS
<1>2. Len(p) \in Nat /\ Len(q) \in Nat /\ DOMAIN p = 1..Len(p) /\ DOMAIN q = 1..Len(q)
      /\ DOMAIN (p \o q) = 1..(Len(p) + Len(q))
  BY <1>1
<1>3. ASSUME NEW n \in 1..Len(p) PROVE p[n] \in ToSet(p \o q)
  <2>1. n \in DOMAIN (p \o q) /\ (p \o q)[n] = p[n]
    BY <1>2
  <2> QED
    BY <2>1 DEF ToSet
<1>4. ASSUME NEW n \in 1..Len(q) PROVE q[n] \in ToSet(p \o q)
  <2>1. Len(p) + n \in DOMAIN (p \o q) /\ (p \o q)[Len(p) + n] = q[n]
    BY <1>2
  <2> QED
    BY <2>1 DEF ToSet
<1> QED
  BY <1>1, <1>2, <1>3, <1>4 DEF ToSet

\* What keys() lists: the key of every entry.
LEMMA KeyListsAre ==
    ASSUME NEW c, Shaped(c), NEW q \in KeyLists(c)
    PROVE  /\ q \in Seq(CacheKeys)
           /\ \A s \in SegIds(c.policy) : \A i \in ToSet(c.segs[s]) : ReportedKey(c, s, i) \in ToSet(q)
<1>1. CASE Tiny(c)
  <2>1. SegIds(c.policy) = {Window, Probation, Protected}
    BY <1>1, SegIdsAre
  <2> DEFINE w == KeysOf(c, Window)
             b == KeysOf(c, Probation)
             t == KeysOf(c, Protected)
  <2>2. /\ w \in Seq(CacheKeys) /\ b \in Seq(CacheKeys) /\ t \in Seq(CacheKeys)
        /\ \A i \in ToSet(c.segs[Window]) : ReportedKey(c, Window, i) \in ToSet(w)
        /\ \A i \in ToSet(c.segs[Probation]) : ReportedKey(c, Probation, i) \in ToSet(b)
        /\ \A i \in ToSet(c.segs[Protected]) : ReportedKey(c, Protected, i) \in ToSet(t)
    BY <2>1, KeysOfIs
  <2>3. q = w \o b \o t
    BY <1>1 DEF KeyLists
  <2> HIDE DEF w, b, t
  <2>4. w \o b \in Seq(CacheKeys) /\ ToSet(w) \cup ToSet(b) \subseteq ToSet(w \o b)
    BY <2>2, KeysConcat
  <2>5. q \in Seq(CacheKeys) /\ ToSet(w \o b) \cup ToSet(t) \subseteq ToSet(q)
    BY <2>2, <2>3, <2>4, KeysConcat
  <2> QED
    BY <2>1, <2>2, <2>4, <2>5
<1>2. CASE ~Tiny(c)
  <2> DEFINE places == UNION {{s} \X DOMAIN c.segs[s] : s \in DOMAIN c.segs}
  <2>1. q \in ListsOf(c)
    BY <1>2 DEF KeyLists
  <2>2. PICK p \in ListOrders(c) : q = [n \in DOMAIN p |-> KeysOf(c, p[n][1])[p[n][2]]]
    BY <2>1 DEF ListsOf
  <2>3. p \in SetToSeqs(places)
    BY DEF ListOrders
  <2>4. IsFiniteSet(places)
    BY PlacesFinite
  <2>5. \A s \in DOMAIN c.segs : \A n \in DOMAIN c.segs[s] : <<s, n>> \in places
    OBVIOUS
  <2>6. \A x \in places : x[1] \in DOMAIN c.segs /\ x[2] \in DOMAIN c.segs[x[1]]
    OBVIOUS
  <2> HIDE DEF places
  <2>7. p \in Seq(places) /\ ToSet(p) = places
    BY <2>3, <2>4, OrdersAre
  <2>8. DOMAIN p = 1..Len(p) /\ Len(p) \in Nat /\ \A n \in DOMAIN p : p[n] \in places
    BY <2>7
  <2>9. DOMAIN c.segs = SegIds(c.policy)
    BY DEF Shaped
  <2>10. \A n \in DOMAIN p : q[n] \in CacheKeys
    <3> TAKE n \in DOMAIN p
    <3> DEFINE s == p[n][1]
               m == p[n][2]
    <3>1. s \in SegIds(c.policy) /\ m \in DOMAIN c.segs[s] /\ q[n] = KeysOf(c, s)[m]
      BY <2>2, <2>6, <2>8, <2>9
    <3> HIDE DEF s, m
    <3>2. KeysOf(c, s) \in Seq(CacheKeys) /\ m \in DOMAIN KeysOf(c, s)
      BY <3>1, KeysOfIs
    <3> QED
      BY <3>1, <3>2
  <2>11. q \in Seq(CacheKeys)
    <3>1. q \in [1..Len(p) -> CacheKeys]
      BY <2>2, <2>8, <2>10
    <3> QED
      BY <2>8, <3>1
  <2>12. ASSUME NEW s \in SegIds(c.policy), NEW i \in ToSet(c.segs[s])
         PROVE  ReportedKey(c, s, i) \in ToSet(q)
    <3>1. PICK m \in DOMAIN c.segs[s] : c.segs[s][m] = i
      BY DEF ToSet
    <3>2. <<s, m>> \in ToSet(p)
      BY <2>5, <2>7, <2>9
    <3>3. PICK n \in DOMAIN p : p[n] = <<s, m>>
      BY <3>2 DEF ToSet
    <3>4. q[n] = KeysOf(c, s)[m] /\ n \in DOMAIN q
      BY <2>2, <3>3
    <3>5. KeysOf(c, s)[m] = ReportedKey(c, s, i)
      BY <3>1, KeysOfIs
    <3> QED
      BY <3>4, <3>5 DEF ToSet
  <2> QED
    BY <2>11, <2>12
<1> QED
  BY <1>1, <1>2

\* What is left of the cache when the process ends: its live entries, under their keys.
Survivors(c, t) ==
    UNION {{[i EXCEPT !.key = ReportedKey(c, s, i)] : i \in {x \in ToSet(c.segs[s]) : ~Expired(x, t)}} :
               s \in DOMAIN c.segs}

\* They are finitely many, with keys of their own, and as current as they were.
LEMMA SurvivorsAre ==
    ASSUME NEW c, Sound(c), NEW t \in Nat
    PROVE  LET X == Survivors(c, t)
           IN  /\ X \subseteq Cached /\ IsFiniteSet(X)
               /\ \A x, y \in X : x.key = y.key => x = y
               /\ \A ds : Current(c, ds) => \A x \in X : x.key[2] \in ds => x.newest
<1> DEFINE X == Survivors(c, t)
           Listed(s) == {[i EXCEPT !.key = ReportedKey(c, s, i)] :
                            i \in {x \in ToSet(c.segs[s]) : ~Expired(x, t)}}
<1>1. Shaped(c) /\ Placed(c) /\ Alone(c) /\ DOMAIN c.segs = SegIds(c.policy)
  BY DEF Sound, Shaped
<1>2. ASSUME NEW x \in X
      PROVE  \E s \in SegIds(c.policy) : \E i \in ToSet(c.segs[s]) :
                 /\ x = [key |-> ReportedKey(c, s, i), exp |-> i.exp, newest |-> i.newest]
                 /\ i = [key |-> i.key, exp |-> i.exp, newest |-> i.newest]
  <2>1. PICK s \in SegIds(c.policy) : x \in Listed(s)
    BY <1>1, <1>2 DEF Survivors
  <2>2. PICK i \in ToSet(c.segs[s]) : x = [i EXCEPT !.key = ReportedKey(c, s, i)]
    BY <2>1
  <2>3. i \in Cached
    BY <1>1, EntryIs
  <2> QED
    BY <2>2, <2>3 DEF Cached
<1>3. X \subseteq Cached
  <2> SUFFICES ASSUME NEW x \in X PROVE x \in Cached
    OBVIOUS
  <2>1. PICK s \in SegIds(c.policy) : \E i \in ToSet(c.segs[s]) :
            x = [key |-> ReportedKey(c, s, i), exp |-> i.exp, newest |-> i.newest]
    BY <1>2
  <2>1a. PICK i \in ToSet(c.segs[s]) : x = [key |-> ReportedKey(c, s, i), exp |-> i.exp, newest |-> i.newest]
    BY <2>1
  <2>2. i.exp \in Nat /\ i.newest \in BOOLEAN /\ ReportedKey(c, s, i) \in CacheKeys
    BY <1>1, EntryIs
  <2> QED
    BY <2>1a, <2>2 DEF Cached
<1>4. IsFiniteSet(X)
  <2> DEFINE g == [s \in DOMAIN c.segs |-> Listed(s)]
  <2>1. \A s \in DOMAIN c.segs : IsFiniteSet(g[s])
    <3> TAKE s \in DOMAIN c.segs
    <3> DEFINE q == c.segs[s]
               h == [n \in DOMAIN q |-> [q[n] EXCEPT !.key = ReportedKey(c, s, q[n])]]
    <3>1. q \in Seq(Cached)
      BY <1>1 DEF Shaped
    <3>2. DOMAIN q = 1..Len(q) /\ Len(q) \in Nat
      BY <3>1, ListIs
    <3>3. IsFiniteSet(DOMAIN h)
      BY <3>2, CountIs
    <3>4. IsFiniteSet({h[n] : n \in DOMAIN h})
      BY <3>3, ImageFinite
    <3>5. Listed(s) \subseteq {h[n] : n \in DOMAIN h}
      BY DEF ToSet
    <3>6. IsFiniteSet(Listed(s))
      BY <3>4, <3>5, FS_Subset
    <3> QED
      BY <3>6
  <2>2. {g[s] : s \in DOMAIN g} = {Listed(s) : s \in DOMAIN c.segs} /\ DOMAIN g = DOMAIN c.segs
    OBVIOUS
  <2>3. IsFiniteSet(DOMAIN g)
    BY <1>1, SegIdsFinite
  <2> HIDE DEF g
  <2>4. IsFiniteSet(UNION {g[s] : s \in DOMAIN g})
    BY <2>1, <2>2, <2>3, UnionFinite
  <2> QED
    BY <2>2, <2>4 DEF Survivors
<1>5. ASSUME NEW x \in X, NEW y \in X, x.key = y.key PROVE x = y
  <2>1. PICK s \in SegIds(c.policy) : \E i \in ToSet(c.segs[s]) :
            x = [key |-> ReportedKey(c, s, i), exp |-> i.exp, newest |-> i.newest]
    BY <1>2
  <2>1a. PICK i \in ToSet(c.segs[s]) : x = [key |-> ReportedKey(c, s, i), exp |-> i.exp, newest |-> i.newest]
    BY <2>1
  <2>2. PICK u \in SegIds(c.policy) : \E j \in ToSet(c.segs[u]) :
            y = [key |-> ReportedKey(c, u, j), exp |-> j.exp, newest |-> j.newest]
    BY <1>2
  <2>2a. PICK j \in ToSet(c.segs[u]) : y = [key |-> ReportedKey(c, u, j), exp |-> j.exp, newest |-> j.newest]
    BY <2>2
  <2> DEFINE k == x.key
  <2>3. k = ReportedKey(c, s, i) /\ k = ReportedKey(c, u, j)
    BY <1>5, <2>1a, <2>2a
  <2>4. k \in CacheKeys
    BY <1>1, <2>3, EntryIs
  <2>5. s \in Homes(c, k) /\ i.key = StoredKey(c, k) /\ u \in Homes(c, k) /\ j.key = StoredKey(c, k)
    BY <1>1, <2>3 DEF Placed
  <2> HIDE DEF k
  <2>6. i = Item(c, k)
    BY <1>1, <2>4, <2>5, OneItem
  <2>7. j = Item(c, k)
    BY <1>1, <2>4, <2>5, OneItem
  <2> QED
    BY <2>1a, <2>2a, <2>3, <2>6, <2>7
<1>6. ASSUME NEW ds, Current(c, ds), NEW x \in X, x.key[2] \in ds PROVE x.newest
  <2>1. PICK s \in SegIds(c.policy) : \E i \in ToSet(c.segs[s]) :
            x = [key |-> ReportedKey(c, s, i), exp |-> i.exp, newest |-> i.newest]
    BY <1>2
  <2>1a. PICK i \in ToSet(c.segs[s]) : x = [key |-> ReportedKey(c, s, i), exp |-> i.exp, newest |-> i.newest]
    BY <2>1
  <2>2. i.key[2] \in ds
    BY <1>1, <1>6, <2>1a, EntryIs
  <2> QED
    BY <1>6, <2>1a, <2>2 DEF Current
<1> QED
  BY <1>3, <1>4, <1>5, <1>6

\* A restored W-TinyLFU cache.
LEMMA RestoredTinyIs ==
    ASSUME NEW p \in {x.policy : x \in Configs}, NEW n \in {x.size : x \in Configs}, p.kind = "tinylfu",
           NEW X, X \subseteq Cached, IsFiniteSet(X), \A x, y \in X : x.key = y.key => x = y,
           NEW q \in SetToSeqs(X)
    PROVE  LET r == RestoredTiny(New(p, n), q)
           IN  /\ Sound(r) /\ r.policy = p /\ r.size = n
               /\ \A ds : (\A x \in X : x.key[2] \in ds => x.newest) => Current(r, ds)
<1> DEFINE c == New(p, n)
           m == MainCap(c)
           l == LastOnes(q, m)
           d == [c EXCEPT !.segs[Protected] = l]
           r == Demote(d)
<1>1. /\ Sound(c) /\ c.policy = p /\ c.size = n
      /\ \A s \in SegIds(p) : c.segs[s] = <<>>
  BY NewIs
<1>2. RestoredTiny(c, q) = r
  BY DEF RestoredTiny
<1>3. Shaped(c) /\ Tiny(c)
  BY <1>1 DEF Sound, Tiny
<1>4. m \in Nat
  <2>1. Caps(c).prob \in Nat \ {0} /\ Caps(c).prot \in Nat \ {0}
    BY <1>3, CapsAre
  <2> QED
    BY <2>1 DEF MainCap
<1>5. SegIds(p) = {Window, Probation, Protected} /\ Window # Protected /\ Probation # Protected
  BY <1>1, <1>3, SegIdsAre
<1>6. q \in Seq(X) /\ ToSet(q) = X /\ \A x, y \in DOMAIN q : q[x] = q[y] => x = y
  BY OrdersAre
<1>7. q \in Seq(Cached) /\ Distinct(q)
  <2>1. q \in Seq(Cached)
    BY <1>6
  <2>2. \A x \in DOMAIN q : q[x] \in X
    BY <1>6
  <2> QED
    BY <1>6, <2>1, <2>2 DEF Distinct
<1> HIDE DEF c, m
<1>8. l \in Seq(Cached) /\ ToSet(l) \subseteq X /\ Distinct(l)
  BY <1>4, <1>6, <1>7, LastOnesIs
<1> HIDE DEF l
<1>9. Protected \in SegIds(c.policy)
  BY <1>1, <1>5
<1>10. /\ Shaped(d) /\ d.policy = c.policy /\ d.size = c.size /\ d.window = c.window
       /\ d.segs[Protected] = l /\ \A t \in SegIds(c.policy) : t # Protected => d.segs[t] = c.segs[t]
  BY <1>3, <1>8, <1>9, OneList
<1> HIDE DEF d
<1>11. Tiny(d) /\ d.segs[Window] = <<>> /\ d.segs[Probation] = <<>>
  BY <1>1, <1>3, <1>5, <1>10 DEF Tiny
<1>12. \A s \in SegIds(d.policy) : ToSet(d.segs[s]) \subseteq X
  BY <1>1, <1>5, <1>8, <1>10, <1>11, NoneIs
<1>13. Alone(d)
  BY <1>8, <1>10, <1>11, TinyIs, NoneIs DEF Apart
<1>14. Placed(d)
  BY <1>11 DEF Placed, Tiny, ReportedKey, StoredKey, Homes
<1>15. Rest(r, d)
  BY <1>10, <1>11, DemoteRest
<1> HIDE DEF r
<1>16. Sound(d)
  BY <1>10, <1>13, <1>14 DEF Sound
<1>17. Sound(r)
  BY <1>15, <1>16, RestKeeps
<1>18. r.policy = p /\ r.size = n
  BY <1>1, <1>10, <1>15 DEF Rest
<1>19. ASSUME NEW ds, \A x \in X : x.key[2] \in ds => x.newest PROVE Current(r, ds)
  <2>1. Current(d, ds)
    BY <1>12, <1>19 DEF Current
  <2> QED
    BY <1>15, <1>16, <2>1, RestKeeps
<1> QED
  BY <1>2, <1>17, <1>18, <1>19 DEF c

\* The restored shards of the two other caches.
LEMMA RestoredShardsAre ==
    ASSUME NEW p \in {x.policy : x \in Configs}, NEW n \in {x.size : x \in Configs}, p.kind # "tinylfu",
           NEW X, X \subseteq Cached, IsFiniteSet(X), NEW r \in RestoredShards(New(p, n), X)
    PROVE  /\ Sound(r) /\ r.policy = p /\ r.size = n
           /\ \A ds : (\A x \in X : x.key[2] \in ds => x.newest) => Current(r, ds)
<1> DEFINE c == New(p, n)
           Given(s) == {[i EXCEPT !.key = Plain(@)] : i \in {x \in X : RestoreSeg(c, x.key) = s}}
           Lists(s) == UNION {SetToSeqs(Y) : Y \in OneOfEach(Given(s))}
           cap == ShardCap[c.size]
<1>1. Sound(c) /\ c.policy = p /\ c.size = n
  BY NewIs
<1>2. Shaped(c) /\ ~Tiny(c) /\ DOMAIN c.segs = SegIds(p)
  BY <1>1 DEF Sound, Shaped, Tiny
<1>3. cap \in Nat
  BY <1>2, CapsAre
<1>4. PICK f : /\ \A s \in DOMAIN c.segs : f[s] \in Lists(s)
               /\ r = [c EXCEPT !.segs = [s \in DOMAIN @ |-> LastOnes(f[s], ShardCap[c.size])]]
  BY DEF RestoredShards
<1> DEFINE g == [s \in DOMAIN c.segs |-> LastOnes(f[s], cap)]
<1>5. r = [c EXCEPT !.segs = g]
  BY <1>4
<1>6. ASSUME NEW s \in SegIds(p)
      PROVE  /\ IsFiniteSet(Given(s))
             /\ \A i \in Given(s) : \E x \in X :
                    /\ RestoreSeg(c, x.key) = s
                    /\ i = [key |-> Plain(x.key), exp |-> x.exp, newest |-> x.newest]
                    /\ i \in Cached
  <2>1. ASSUME NEW x \in X
        PROVE  /\ [x EXCEPT !.key = Plain(@)] = [key |-> Plain(x.key), exp |-> x.exp, newest |-> x.newest]
               /\ [x EXCEPT !.key = Plain(@)] \in Cached
    <3>1. x \in Cached
      BY <2>1
    <3>2. x = [key |-> x.key, exp |-> x.exp, newest |-> x.newest] /\ x.key \in CacheKeys
          /\ x.exp \in Nat /\ x.newest \in BOOLEAN
      BY <3>1 DEF Cached
    <3>3. Plain(x.key) \in CacheKeys
      BY <3>2, KeyIs
    <3> QED
      BY <3>2, <3>3 DEF Cached
  <2> DEFINE h == [x \in X |-> [x EXCEPT !.key = Plain(@)]]
  <2>2. IsFiniteSet({h[x] : x \in DOMAIN h})
    BY ImageFinite
  <2>3. Given(s) \subseteq {h[x] : x \in DOMAIN h}
    OBVIOUS
  <2>4. IsFiniteSet(Given(s))
    BY <2>2, <2>3, FS_Subset
  <2> QED
    BY <2>1, <2>4
<1>7. ASSUME NEW s \in SegIds(p)
      PROVE  f[s] \in Seq(Cached) /\ ToSet(f[s]) \subseteq Given(s) /\ Distinct(f[s])
  <2>1. PICK Y \in OneOfEach(Given(s)) : f[s] \in SetToSeqs(Y)
    BY <1>2, <1>4
  <2> DEFINE G == Given(s)
  <2>2. Y \subseteq G /\ \A i \in G : Cardinality({x \in Y : x.key = i.key}) = 1
    BY <2>1 DEF OneOfEach
  <2>3. IsFiniteSet(G) /\ G \subseteq Cached
    BY <1>6
  <2> HIDE DEF G
  <2>4. IsFiniteSet(Y)
    BY <2>2, <2>3, FS_Subset
  <2>5. ASSUME NEW i \in Y, NEW j \in Y, i.key = j.key PROVE i = j
    <3> DEFINE Z == {x \in Y : x.key = i.key}
    <3>1. IsFiniteSet(Z)
      BY <2>4, FS_Subset
    <3>2. Cardinality(Z) = 1 /\ i \in Z /\ j \in Z
      BY <2>2, <2>5
    <3> HIDE DEF Z
    <3>3. \E x : Z = {x}
      BY <3>1, <3>2, FS_Singleton
    <3> QED
      BY <3>2, <3>3
  <2>6. f[s] \in Seq(Y) /\ ToSet(f[s]) = Y /\ \A x, y \in DOMAIN f[s] : f[s][x] = f[s][y] => x = y
    BY <2>1, <2>4, OrdersAre
  <2>7. f[s] \in Seq(Cached)
    BY <2>2, <2>3, <2>6
  <2>8. \A x \in DOMAIN f[s] : f[s][x] \in Y
    BY <2>6
  <2>9. Distinct(f[s])
    BY <2>5, <2>6, <2>8 DEF Distinct
  <2> QED
    BY <2>2, <2>6, <2>7, <2>9 DEF G
<1> HIDE DEF c, cap, Given, Lists
<1>8. \A s \in SegIds(p) : LastOnes(f[s], cap) \in Seq(Cached) /\ ToSet(LastOnes(f[s], cap)) \subseteq Given(s)
                           /\ Distinct(LastOnes(f[s], cap))
  BY <1>3, <1>7, LastOnesIs
<1>9. g \in [SegIds(p) -> Seq(Cached)]
      /\ \A s \in SegIds(p) : ToSet(g[s]) \subseteq Given(s) /\ Distinct(g[s])
  BY <1>2, <1>8
<1> HIDE DEF g
<1>10. r = [policy |-> p, size |-> n, window |-> c.window, segs |-> g] /\ c.window \in Nat
  BY <1>1, <1>2, <1>5 DEF Shaped
<1>11. r.policy = p /\ r.size = n /\ r.window \in Nat /\ r.segs = g
  BY <1>10
<1>12. Shaped(r) /\ ~Tiny(r)
  BY <1>1, <1>2, <1>9, <1>10, <1>11 DEF Shaped, Tiny
<1>13. Alone(r)
  BY <1>9, <1>11, <1>12 DEF Alone
<1>14. ASSUME NEW s \in SegIds(p), NEW i \in ToSet(g[s])
       PROVE  \E x \in X : /\ RestoreSeg(c, x.key) = s
                           /\ i.key = Plain(x.key) /\ i.newest = x.newest /\ x.key \in CacheKeys
  <2>1. i \in Given(s)
    BY <1>9, <1>14
  <2>2. PICK x \in X : /\ RestoreSeg(c, x.key) = s
                       /\ i = [key |-> Plain(x.key), exp |-> x.exp, newest |-> x.newest]
    BY <1>6, <2>1
  <2>3. x.key \in CacheKeys
    BY DEF Cached
  <2> QED
    BY <2>2, <2>3
<1>15. ASSUME NEW s \in SegIds(p), NEW i \in ToSet(g[s])
       PROVE  LET k == ReportedKey(r, s, i) IN s \in Homes(r, k) /\ i.key = StoredKey(r, k)
  <2>1. PICK x \in X : RestoreSeg(c, x.key) = s /\ i.key = Plain(x.key) /\ x.key \in CacheKeys
    BY <1>14, <1>15
  <2> DEFINE k == ReportedKey(r, s, i)
  <2>2. CASE p.kind = "lru"
    <3>1. k = Plain(x.key) /\ StoredKey(r, k) = k
      BY <1>11, <2>1, <2>2 DEF ReportedKey, StoredKey
    <3>2. s = <<NoGroup, Hash[Plain(x.key)]>>
      BY <1>1, <2>1, <2>2 DEF RestoreSeg
    <3>3. Homes(r, k) = {<<NoGroup, Hash[k]>>}
      BY <1>11, <1>12, <2>2 DEF Homes
    <3> QED
      BY <2>1, <3>1, <3>2, <3>3
  <2>3. CASE p.kind = "partitioned"
    <3>1. s[1] \in p.parts /\ s = <<s[1], s[2]>>
      BY <1>11, <1>12, <2>3, SegIdsAre
    <3>2. Plain(x.key) = <<NoGroup, x.key[2]>>
      BY DEF Plain
    <3>3. k = <<s[1], x.key[2]>>
      BY <1>11, <2>1, <2>3, <3>2 DEF ReportedKey
    <3>4. Plain(k) = Plain(x.key) /\ k[1] = s[1]
      BY <3>2, <3>3 DEF Plain
    <3>5. s[2] = Hash[Plain(x.key)]
      BY <1>1, <2>1, <2>3 DEF RestoreSeg
    <3>6. p.parts \subseteq Groups /\ p.parts # {}
      BY <3>1, PolicyIs
    <3> HIDE DEF k
    <3>7. Part(p.parts, k) = s[1]
      BY <3>1, <3>4, <3>6, PartIs
    <3>8. Homes(r, k) = {<<Part(p.parts, k), Hash[Plain(k)]>>} /\ StoredKey(r, k) = Plain(k)
      BY <1>11, <1>12, <2>3 DEF Homes, StoredKey
    <3>9. s \in Homes(r, k) /\ i.key = StoredKey(r, k)
      BY <2>1, <3>1, <3>4, <3>5, <3>7, <3>8
    <3> QED
      BY <3>9 DEF k
  <2> QED
    BY <2>2, <2>3, PolicyIs
<1>16. Placed(r)
  BY <1>11, <1>15 DEF Placed
<1>17. ASSUME NEW ds, \A x \in X : x.key[2] \in ds => x.newest,
              NEW s \in SegIds(p), NEW i \in ToSet(g[s]), i.key[2] \in ds
       PROVE  i.newest
  <2>1. PICK x \in X : i.key = Plain(x.key) /\ i.newest = x.newest
    BY <1>14, <1>17
  <2>2. x.key[2] \in ds
    BY <1>17, <2>1 DEF Plain
  <2> QED
    BY <1>17, <2>1, <2>2
<1>18. \A ds : (\A x \in X : x.key[2] \in ds => x.newest) => Current(r, ds)
  BY <1>11, <1>17 DEF Current
<1> QED
  BY <1>11, <1>12, <1>13, <1>16, <1>18 DEF Sound

\* What a restart leaves is sound and as current as what was there.
LEMMA RestoredIs ==
    ASSUME NEW c, Sound(c), NEW t \in Nat,
           NEW p \in {x.policy : x \in Configs}, NEW n \in {x.size : x \in Configs},
           NEW r \in Restored(New(p, n), Survivors(c, t))
    PROVE  /\ Sound(r) /\ r.policy = p /\ r.size = n
           /\ \A ds : Current(c, ds) => Current(r, ds)
<1> DEFINE X == Survivors(c, t)
<1>1. /\ X \subseteq Cached /\ IsFiniteSet(X) /\ \A x, y \in X : x.key = y.key => x = y
      /\ \A ds : Current(c, ds) => \A x \in X : x.key[2] \in ds => x.newest
  BY SurvivorsAre
<1>2. Tiny(New(p, n)) <=> p.kind = "tinylfu"
  BY DEF Tiny, New
<1>3. r \in Restored(New(p, n), X)
  OBVIOUS
<1> HIDE DEF X
<1>4. CASE p.kind = "tinylfu"
  <2>1. PICK q \in SetToSeqs(X) : r = RestoredTiny(New(p, n), q)
    BY <1>2, <1>3, <1>4 DEF Restored
  <2>2. /\ Sound(r) /\ r.policy = p /\ r.size = n
        /\ \A ds : (\A x \in X : x.key[2] \in ds => x.newest) => Current(r, ds)
    BY <1>1, <1>4, <2>1, RestoredTinyIs
  <2> QED
    BY <1>1, <2>2
<1>5. CASE p.kind # "tinylfu"
  <2>1. r \in RestoredShards(New(p, n), X)
    BY <1>2, <1>3, <1>5 DEF Restored
  <2>2. /\ Sound(r) /\ r.policy = p /\ r.size = n
        /\ \A ds : (\A x \in X : x.key[2] \in ds => x.newest) => Current(r, ds)
    BY <1>1, <1>5, <2>1, RestoredShardsAre
  <2> QED
    BY <1>1, <2>2
<1> QED
  BY <1>4, <1>5

\* The domains whose entries are known to be in order.
Settled == Domains \ (torn \cup shadowed)

\* The variables of reload keep their types.
CacheTypes ==
    /\ conf \in Configs /\ to \in Configs
    /\ now \in Nat /\ start \in Nat
    /\ phase \in {"idle", "copy", "set", "store"}
    /\ to_copy \in Seq(CacheKeys)

\* Which configuration the cache in use, and the one being filled, have.
InEffect ==
    /\ phase \in {"idle", "copy"} =>
           cur.policy = conf.policy /\ cur.size = conf.size /\ cur.window = conf.window
    /\ phase = "idle" => conf = to
    /\ phase = "copy" => fresh.policy = to.policy /\ fresh.size = to.size /\ fresh.window = 0
    /\ phase \in {"set", "store"} => cur.policy = to.policy /\ cur.size = to.size
    /\ phase = "set" => cur.window \in {conf.window, 0}
    /\ phase = "store" => cur.window = to.window

\* The cache in use.
InUse == Sound(cur) /\ Shadowed(cur) \subseteq shadowed /\ Current(cur, Settled)

\* The cache reload is filling: it has, or has no room for, what it has been told of.
Filling ==
    phase = "copy" =>
        /\ Sound(fresh) /\ Fits(fresh) /\ Current(fresh, Settled)
        /\ start <= now /\ AllLive(fresh, start)
        /\ Carried(cur, fresh, to_copy, Settled, now)

\* The inductive invariant of the cache and its change of policy.
CacheInv == CacheTypes /\ InEffect /\ InUse /\ Filling

\* A configuration names a policy, a size and a window.
LEMMA ConfigIs ==
    ASSUME NEW c \in Configs
    PROVE  /\ c.policy \in {x.policy : x \in Configs} /\ c.size \in {x.size : x \in Configs}
           /\ c.window \in Nat
BY CapsAssumption

\* What is carried stays so for fewer domains, later, and for a cache in which more is safe.
LEMMA CarriedOn ==
    ASSUME NEW c, Shaped(c), NEW f, NEW g, NEW keys, NEW ds, NEW xs \in SUBSET ds, NEW t \in Nat, NEW u \in Nat,
           t <= u, Carried(c, f, keys, ds, t), \A k \in CacheKeys : Safe(f, k) => Safe(g, k)
    PROVE  Carried(c, g, keys, xs, u)
<1> SUFFICES ASSUME NEW s \in SegIds(c.policy), NEW i \in ToSet(c.segs[s]), i.key[2] \in xs, i.exp > u
             PROVE  ReportedKey(c, s, i) \in ToSet(keys) \/ Safe(g, ReportedKey(c, s, i))
  BY DEF Carried
<1>1. i.exp \in Nat /\ ReportedKey(c, s, i) \in CacheKeys
  BY EntryIs
<1>2. i.exp > t
  BY <1>1
<1> QED
  BY <1>1, <1>2 DEF Carried

\* The head of a list of keys, and the rest of it.
LEMMA HeadKeyIs ==
    ASSUME NEW q \in Seq(CacheKeys), q # <<>>
    PROVE  /\ Head(q) \in CacheKeys /\ Tail(q) \in Seq(CacheKeys)
           /\ \A k \in ToSet(q) : k = Head(q) \/ k \in ToSet(Tail(q))
<1>1. Len(q) \in Nat \ {0} /\ DOMAIN q = 1..Len(q) /\ Head(q) = q[1]
  OBVIOUS
<1>2. Tail(q) \in Seq(CacheKeys) /\ Len(Tail(q)) = Len(q) - 1 /\ Head(q) \in CacheKeys
  BY <1>1
<1>3. ASSUME NEW n \in 1..Len(q), n # 1 PROVE q[n] \in ToSet(Tail(q))
  <2>1. n - 1 \in 1..Len(Tail(q)) /\ Tail(q)[n - 1] = q[n]
    BY <1>1, <1>2, <1>3
  <2>2. DOMAIN Tail(q) = 1..Len(Tail(q))
    BY <1>2
  <2> QED
    BY <2>1, <2>2 DEF ToSet
<1> QED
  BY <1>1, <1>2, <1>3 DEF ToSet

\* A domain that is not shadowed has entries only where a query looks.
LEMMA FoundByQuery ==
    ASSUME NEW c, Shaped(c), NEW d \in Domains, d \notin Shadowed(c),
           NEW s \in SegIds(c.policy), NEW i \in ToSet(c.segs[s]), i.key[2] = d
    PROVE  i.key = <<NoGroup, d>> /\ s \in Homes(c, <<NoGroup, d>>) /\ i.key = StoredKey(c, <<NoGroup, d>>)
<1>1. i.key = <<NoGroup, d>> /\ s \in Homes(c, <<NoGroup, d>>)
  BY DEF Shadowed, Shaped
<1>2. Plain(<<NoGroup, d>>) = <<NoGroup, d>>
  BY DEF Plain
<1> QED
  BY <1>1, <1>2 DEF StoredKey

\* The invariant holds at the start.
LEMMA CacheInitInv == CacheInit => CacheInv
<1> SUFFICES ASSUME CacheInit PROVE CacheInv
  OBVIOUS
<1>1. conf \in Configs
  BY DEF CacheInit
<1>2. conf.policy \in {x.policy : x \in Configs} /\ conf.size \in {x.size : x \in Configs} /\ conf.window \in Nat
  BY <1>1, ConfigIs
<1> DEFINE c == New(conf.policy, conf.size)
<1>3. /\ Sound(c) /\ Shadowed(c) = {} /\ c.policy = conf.policy /\ c.size = conf.size
      /\ Current(c, Settled)
  BY <1>2, NewIs
<1>4. cur = [c EXCEPT !.window = conf.window]
  BY DEF CacheInit
<1> HIDE DEF c
<1>5. /\ Sound(cur) /\ Shadowed(cur) = {} /\ Current(cur, Settled)
      /\ cur.policy = conf.policy /\ cur.size = conf.size /\ cur.window = conf.window
  BY <1>2, <1>3, <1>4, WindowSetIs
<1>6. CacheTypes
  BY DEF CacheInit, CacheTypes
<1>7. InEffect
  BY <1>5 DEF CacheInit, InEffect
<1>8. InUse
  BY <1>5 DEF InUse
<1>9. Filling
  BY DEF CacheInit, Filling
<1> QED
  BY <1>6, <1>7, <1>8, <1>9 DEF CacheInv

\* A query leaves of the cache what it does not take away.
LEMMA QueryInv ==
    ASSUME CacheInv, Rest(cur', cur), UNCHANGED <<now, reload_vars, fresh, torn, shadowed>>
    PROVE  CacheInv'
<1>1. Sound(cur) /\ Shadowed(cur) \subseteq shadowed /\ Current(cur, Settled)
  BY DEF CacheInv, InUse
<1>2. /\ Sound(cur') /\ Shadowed(cur') \subseteq Shadowed(cur)
      /\ \A ds : Current(cur, ds) => Current(cur', ds)
      /\ \A f, keys, ds, t : Carried(cur, f, keys, ds, t) => Carried(cur', f, keys, ds, t)
  BY <1>1, RestKeeps
<1>3. cur'.policy = cur.policy /\ cur'.size = cur.size /\ cur'.window = cur.window
  BY DEF Rest
<1>4. Settled' = Settled
  BY DEF Settled
<1>5. CacheTypes'
  BY DEF CacheInv, CacheTypes, reload_vars
<1>6. InEffect'
  BY <1>3 DEF CacheInv, InEffect, reload_vars
<1>7. InUse'
  BY <1>1, <1>2, <1>4 DEF InUse
<1>8. Filling'
  BY <1>2, <1>4 DEF CacheInv, Filling, reload_vars
<1> QED
  BY <1>5, <1>6, <1>7, <1>8 DEF CacheInv

\* The keys of queries are keys.
LEMMA QueryKey == ASSUME NEW d \in Domains PROVE <<NoGroup, d>> \in CacheKeys
BY DEF CacheKeys

\* The queries and the dashboard: each leaves some of the entries.
LEMMA GetInv == ASSUME CacheInv, NEW d \in Domains, Get(d) PROVE CacheInv'
<1>1. Shaped(cur) /\ now \in Nat
  BY DEF CacheInv, InUse, Sound, CacheTypes
<1>2. <<NoGroup, d>> \in CacheKeys
  BY QueryKey
<1>3. cur' \in GetIn(cur, <<NoGroup, d>>, now)
  BY DEF Get
<1>4. Rest(cur', cur)
  BY <1>1, <1>2, <1>3, GetRest
<1> QED
  BY <1>4, QueryInv DEF Get

\* A stale lookup likewise.
LEMMA GetStaleInv == ASSUME CacheInv, NEW d \in Domains, GetStale(d) PROVE CacheInv'
<1>1. Shaped(cur) /\ now \in Nat /\ conf.window \in Nat
  BY ConfigIs DEF CacheInv, InUse, Sound, CacheTypes
<1>2. <<NoGroup, d>> \in CacheKeys
  BY QueryKey
<1>3. cur' = GetStaleIn(cur, <<NoGroup, d>>, now, conf.window)
  BY DEF GetStale
<1>4. Rest(cur', cur)
  BY <1>1, <1>2, <1>3, GetStaleRest
<1> QED
  BY <1>4, QueryInv DEF GetStale

\* A peek likewise.
LEMMA PeekInv == ASSUME CacheInv, NEW k \in CacheKeys, Peek(k) PROVE CacheInv'
<1>1. Shaped(cur)
  BY DEF CacheInv, InUse, Sound
<1>2. Rest(cur', cur)
  BY <1>1, PeekRest DEF Peek
<1> QED
  BY <1>2, QueryInv DEF Peek

\* What a change of domains leaves of the cache that is being filled.
LEMMA TearInv ==
    ASSUME CacheInv, NEW ds \in SUBSET Domains, Tear(ds), UNCHANGED <<now, reload_vars, shadowed>>
    PROVE  /\ Settled' = IF phase = "copy" THEN Settled \ ds ELSE Settled \cup (ds \ shadowed)
           /\ CacheTypes'
           /\ phase = "copy" =>
                  /\ Sound(fresh') /\ Fits(fresh') /\ Current(fresh', Settled') /\ AllLive(fresh', start)
                  /\ fresh'.policy = to.policy /\ fresh'.size = to.size /\ fresh'.window = 0
                  /\ \A k \in CacheKeys : Safe(fresh, k) => Safe(fresh', k)
<1>1. CacheTypes'
  BY DEF CacheInv, CacheTypes, reload_vars
<1>2. Settled' = IF phase = "copy" THEN Settled \ ds ELSE Settled \cup (ds \ shadowed)
  BY DEF Settled, Tear
<1>3. ASSUME phase = "copy"
      PROVE  /\ Sound(fresh') /\ Fits(fresh') /\ Current(fresh', Settled') /\ AllLive(fresh', start)
             /\ fresh'.policy = to.policy /\ fresh'.size = to.size /\ fresh'.window = 0
             /\ \A k \in CacheKeys : Safe(fresh, k) => Safe(fresh', k)
  <2>1. /\ Sound(fresh) /\ Fits(fresh) /\ Current(fresh, Settled) /\ AllLive(fresh, start)
        /\ fresh.policy = to.policy /\ fresh.size = to.size /\ fresh.window = 0
    BY <1>3 DEF CacheInv, Filling, InEffect
  <2>2. fresh' = Aged(fresh, ds)
    BY <1>3 DEF Tear
  <2> QED
    BY <1>2, <1>3, <2>1, <2>2, AgedKeeps
<1> QED
  BY <1>1, <1>2, <1>3

\* A put leaves one entry for the domain, where a query looks, unless it is shadowed.
LEMMA PutInv == ASSUME CacheInv, NEW d \in Domains, Put(d) PROVE CacheInv'
<1> DEFINE k == <<NoGroup, d>>
           c == Aged(cur, {d})
<1>1. /\ Sound(cur) /\ Shadowed(cur) \subseteq shadowed /\ Current(cur, Settled)
      /\ now \in Nat /\ start \in Nat
  BY DEF CacheInv, InUse, CacheTypes
<1>2. /\ Sound(c) /\ Shadowed(c) \subseteq Shadowed(cur)
      /\ c.policy = cur.policy /\ c.size = cur.size /\ c.window = cur.window
      /\ Current(c, Settled \ {d})
      /\ \A f, keys, xs, t : Carried(cur, f, keys, xs, t) => Carried(c, f, keys, xs, t)
  BY <1>1, AgedKeeps
<1>3. PICK ttl \in Ttls : cur' \in PutIn(c, k, [key |-> k, exp |-> now + ttl, newest |-> TRUE], now)
  BY DEF Put
<1> DEFINE item == [key |-> k, exp |-> now + ttl, newest |-> TRUE]
           i == New0(c, k, item)
<1>4. k \in CacheKeys
  BY QueryKey
<1>5. item \in Cached /\ item.newest = TRUE
  <2>1. now + ttl \in Nat
    BY <1>1, TimesAssumption
  <2> QED
    BY <1>4, <2>1 DEF Cached
<1>6. k[1] = NoGroup /\ k[2] = d /\ StoredKey(c, k) = k
  BY DEF StoredKey, Plain
<1>7. cur' \in PutIn(c, k, item, now)
  BY <1>3
<1> HIDE DEF k, c, item, i
<1>8. Shaped(c) /\ Placed(c) /\ Alone(c)
  BY <1>2 DEF Sound
<1>9. /\ Shaped(cur') /\ cur'.policy = c.policy /\ cur'.size = c.size /\ cur'.window = c.window
      /\ Alone(cur') /\ Placed(cur') /\ Shadowed(cur') \subseteq Shadowed(c)
      /\ i.newest = TRUE /\ i.key = k
      /\ \A s \in SegIds(c.policy) : \A j \in ToSet(cur'.segs[s]) :
             j = i \/ \E u \in SegIds(c.policy) : j \in ToSet(c.segs[u]) /\ (s = u \/ Tiny(c))
      /\ \A s \in Homes(c, k) : \A j \in ToSet(cur'.segs[s]) : j.key = i.key => j = i
  BY <1>1, <1>4, <1>5, <1>6, <1>7, <1>8, PutRest DEF i
<1>10. Tear({d}) /\ UNCHANGED <<now, reload_vars, shadowed>>
  BY DEF Put
<1>11. /\ Settled' = IF phase = "copy" THEN Settled \ {d} ELSE Settled \cup ({d} \ shadowed)
       /\ CacheTypes'
       /\ phase = "copy" =>
                  /\ Sound(fresh') /\ Fits(fresh') /\ Current(fresh', Settled') /\ AllLive(fresh', start)
                  /\ fresh'.policy = to.policy /\ fresh'.size = to.size /\ fresh'.window = 0
                  /\ \A x \in CacheKeys : Safe(fresh, x) => Safe(fresh', x)
  BY <1>10, TearInv
<1>12. InEffect'
  BY <1>2, <1>9, <1>10, <1>11 DEF CacheInv, InEffect, reload_vars
<1>13. Current(cur', Settled')
  <2> SUFFICES ASSUME NEW s \in SegIds(c.policy), NEW j \in ToSet(cur'.segs[s]), j.key[2] \in Settled'
               PROVE  j.newest
    BY <1>9 DEF Current
  <2>1. CASE j.key[2] \in Settled \ {d}
    <3>1. CASE j = i
      BY <1>9, <3>1
    <3>2. CASE j # i
      <4>1. PICK u \in SegIds(c.policy) : j \in ToSet(c.segs[u])
        BY <1>9, <3>2
      <4> QED
        BY <1>2, <2>1, <4>1 DEF Current
    <3> QED
      BY <3>1, <3>2
  <2>2. CASE j.key[2] = d /\ d \notin shadowed
    <3>1. d \notin Shadowed(cur')
      BY <1>1, <1>2, <1>9, <2>2
    <3>2. j.key = k /\ s \in Homes(cur', k)
      BY <1>9, <2>2, <3>1, FoundByQuery DEF k
    <3>3. Homes(cur', k) = Homes(c, k)
      BY <1>9 DEF Homes, Tiny
    <3>4. j = i
      BY <1>9, <3>2, <3>3
    <3> QED
      BY <1>9, <3>4
  <2> QED
    BY <1>11, <2>1, <2>2 DEF Settled
<1>14. InUse'
  BY <1>1, <1>2, <1>9, <1>10, <1>13 DEF InUse, Sound
<1>15. ASSUME phase = "copy" PROVE Carried(cur', fresh', to_copy, Settled', now)
  <2>1. Carried(c, fresh, to_copy, Settled, now)
    BY <1>2, <1>15 DEF CacheInv, Filling
  <2> SUFFICES ASSUME NEW s \in SegIds(c.policy), NEW j \in ToSet(cur'.segs[s]),
                      j.key[2] \in Settled', j.exp > now
               PROVE  ReportedKey(cur', s, j) \in ToSet(to_copy) \/ Safe(fresh', ReportedKey(cur', s, j))
    BY <1>9 DEF Carried
  <2>2. j.key[2] # d /\ j.key[2] \in Settled
    BY <1>11, <1>15
  <2>3. j # i
    BY <1>6, <1>9, <2>2
  <2>4. PICK u \in SegIds(c.policy) : j \in ToSet(c.segs[u]) /\ (s = u \/ Tiny(c))
    BY <1>9, <2>3
  <2>5. ReportedKey(cur', s, j) = ReportedKey(c, u, j)
    BY <1>9, <2>4 DEF ReportedKey, Tiny
  <2>6. ReportedKey(c, u, j) \in ToSet(to_copy) \/ Safe(fresh, ReportedKey(c, u, j))
    BY <2>1, <2>2, <2>4 DEF Carried
  <2>7. ReportedKey(c, u, j) \in CacheKeys
    BY <1>8, <2>4, EntryIs
  <2> QED
    BY <1>11, <1>15, <2>5, <2>6, <2>7
<1>16. Filling'
  BY <1>10, <1>11, <1>15 DEF CacheInv, Filling, reload_vars
<1> QED
  BY <1>11, <1>12, <1>14, <1>16 DEF CacheInv

\* A delete leaves no entry for the domain, unless it is shadowed.
LEMMA DeleteInv == ASSUME CacheInv, NEW d \in Domains, Delete(d) PROVE CacheInv'
<1> DEFINE k == <<NoGroup, d>>
           c == Aged(cur, {d})
<1>1. /\ Sound(cur) /\ Shadowed(cur) \subseteq shadowed /\ Current(cur, Settled)
      /\ now \in Nat /\ start \in Nat
  BY DEF CacheInv, InUse, CacheTypes
<1>2. /\ Sound(c) /\ Shadowed(c) \subseteq Shadowed(cur)
      /\ c.policy = cur.policy /\ c.size = cur.size /\ c.window = cur.window
      /\ Current(c, Settled \ {d})
      /\ \A f, keys, xs, t : Carried(cur, f, keys, xs, t) => Carried(c, f, keys, xs, t)
  BY <1>1, AgedKeeps
<1>3. cur' = WithoutKey(c, k)
  BY DEF Delete
<1>4. k \in CacheKeys
  BY QueryKey
<1> HIDE DEF k, c
<1>5. Shaped(c)
  BY <1>2 DEF Sound
<1>6. /\ Rest(cur', c)
      /\ \A s \in Homes(c, k) : \A j \in ToSet(cur'.segs[s]) : j.key # StoredKey(c, k)
  BY <1>3, <1>4, <1>5, WithoutKeyRest
<1>7. /\ Sound(cur') /\ Shadowed(cur') \subseteq Shadowed(c) /\ Current(cur', Settled \ {d})
      /\ \A f, keys, xs, t : Carried(c, f, keys, xs, t) => Carried(cur', f, keys, xs, t)
      /\ cur'.policy = c.policy /\ cur'.size = c.size /\ cur'.window = c.window
  BY <1>2, <1>6, RestKeeps DEF Rest
<1>8. Tear({d}) /\ UNCHANGED <<now, reload_vars, shadowed>>
  BY DEF Delete
<1>9. /\ Settled' = IF phase = "copy" THEN Settled \ {d} ELSE Settled \cup ({d} \ shadowed)
      /\ CacheTypes'
      /\ phase = "copy" =>
             /\ Sound(fresh') /\ Fits(fresh') /\ Current(fresh', Settled') /\ AllLive(fresh', start)
             /\ fresh'.policy = to.policy /\ fresh'.size = to.size /\ fresh'.window = 0
             /\ \A x \in CacheKeys : Safe(fresh, x) => Safe(fresh', x)
  BY <1>8, TearInv
<1>10. InEffect'
  BY <1>2, <1>7, <1>8, <1>9 DEF CacheInv, InEffect, reload_vars
<1>11. Current(cur', Settled')
  <2> SUFFICES ASSUME NEW s \in SegIds(cur'.policy), NEW j \in ToSet(cur'.segs[s]), j.key[2] \in Settled'
               PROVE  j.newest
    BY DEF Current
  <2>1. CASE j.key[2] \in Settled \ {d}
    BY <1>7, <2>1 DEF Current
  <2>2. CASE j.key[2] = d /\ d \notin shadowed
    <3>1. d \notin Shadowed(cur') /\ Shaped(cur')
      BY <1>1, <1>2, <1>7, <2>2 DEF Sound
    <3>2. s \in Homes(cur', k) /\ j.key = StoredKey(cur', k)
      BY <2>2, <3>1, FoundByQuery DEF k
    <3>3. Homes(cur', k) = Homes(c, k) /\ StoredKey(cur', k) = StoredKey(c, k)
      BY <1>7 DEF Homes, StoredKey, Tiny
    <3> QED
      BY <1>6, <3>2, <3>3
  <2> QED
    BY <1>9, <2>1, <2>2 DEF Settled
<1>12. InUse'
  BY <1>1, <1>2, <1>7, <1>8, <1>11 DEF InUse
<1>13. ASSUME phase = "copy" PROVE Carried(cur', fresh', to_copy, Settled', now)
  <2>1. Carried(cur', fresh, to_copy, Settled, now)
    BY <1>2, <1>7, <1>13 DEF CacheInv, Filling
  <2>2. Settled' \in SUBSET Settled
    BY <1>9, <1>13
  <2>3. Shaped(cur')
    BY <1>7 DEF Sound
  <2> QED
    BY <1>1, <1>9, <1>13, <2>1, <2>2, <2>3, CarriedOn
<1>14. Filling'
  BY <1>8, <1>9, <1>13 DEF CacheInv, Filling, reload_vars
<1> QED
  BY <1>9, <1>10, <1>12, <1>14 DEF CacheInv

\* The policy and size of a cache that is sound are those of configurations.
LEMMA SoundIs ==
    ASSUME NEW c, Sound(c)
    PROVE  c.policy \in {x.policy : x \in Configs} /\ c.size \in {x.size : x \in Configs} /\ c.window \in Nat
BY DEF Sound, Shaped

\* A cleared cache has nothing that could be out of date.
LEMMA ClearInv == ASSUME CacheInv, Clear PROVE CacheInv'
<1> DEFINE c == New(cur.policy, cur.size)
<1>1. Sound(cur)
  BY DEF CacheInv, InUse
<1>2. /\ cur.policy \in {x.policy : x \in Configs} /\ cur.size \in {x.size : x \in Configs}
      /\ cur.window \in Nat
  BY <1>1, SoundIs
<1>3. /\ Sound(c) /\ Shadowed(c) = {} /\ c.policy = cur.policy /\ c.size = cur.size
      /\ Current(c, Settled')
      /\ \A s \in SegIds(cur.policy) : c.segs[s] = <<>>
  <2>1. /\ Sound(c) /\ Shadowed(c) = {} /\ c.policy = cur.policy /\ c.size = cur.size
        /\ \A s \in SegIds(cur.policy) : c.segs[s] = <<>>
    BY <1>2, NewIs
  <2>2. \A ds : Current(c, ds)
    BY <1>2, NewIs
  <2> QED
    BY <2>1, <2>2
<1>4. cur' = [c EXCEPT !.window = cur.window]
  BY DEF Clear
<1>5. cur'.segs = c.segs
  BY <1>4 DEF New
<1> HIDE DEF c
<1>6. /\ Sound(cur') /\ Shadowed(cur') = {} /\ Current(cur', Settled')
      /\ cur'.policy = cur.policy /\ cur'.size = cur.size /\ cur'.window = cur.window
  BY <1>2, <1>3, <1>4, WindowSetIs
<1>7. \A s \in SegIds(cur'.policy) : ToSet(cur'.segs[s]) = {}
  BY <1>3, <1>5, <1>6, NoneIs
<1>8. Tear(Domains) /\ UNCHANGED <<now, reload_vars, shadowed>>
  BY DEF Clear
<1>9. /\ CacheTypes'
      /\ phase = "copy" =>
             /\ Sound(fresh') /\ Fits(fresh') /\ Current(fresh', Settled') /\ AllLive(fresh', start)
             /\ fresh'.policy = to.policy /\ fresh'.size = to.size /\ fresh'.window = 0
  BY <1>8, TearInv
<1>10. InEffect'
  BY <1>6, <1>8, <1>9 DEF CacheInv, InEffect, reload_vars
<1>11. InUse'
  BY <1>6 DEF InUse
<1>12. Carried(cur', fresh', to_copy, Settled', now)
  BY <1>7 DEF Carried
<1>13. Filling'
  BY <1>8, <1>9, <1>12 DEF CacheInv, Filling, reload_vars
<1> QED
  BY <1>9, <1>10, <1>11, <1>13 DEF CacheInv

\* The clock advances: less is live.
LEMMA TickInv == ASSUME CacheInv, Tick PROVE CacheInv'
<1>1. now \in Nat /\ now' = now + 1 /\ UNCHANGED <<cur, reload_vars, fresh, torn, shadowed>>
  BY DEF CacheInv, CacheTypes, Tick
<1>2. Settled' = Settled
  BY <1>1 DEF Settled
<1>3. CacheTypes' /\ InEffect' /\ InUse'
  BY <1>1, <1>2 DEF CacheInv, CacheTypes, InEffect, InUse, reload_vars
<1>4. ASSUME phase = "copy" PROVE Carried(cur, fresh, to_copy, Settled, now + 1)
  <2>1. Carried(cur, fresh, to_copy, Settled, now) /\ Shaped(cur)
    BY <1>4 DEF CacheInv, Filling, InUse, Sound
  <2>2. now + 1 \in Nat /\ now <= now + 1 /\ Settled \in SUBSET Settled
    BY <1>1
  <2> QED
    BY <1>1, <2>1, <2>2, CarriedOn
<1>5. start <= now => start <= now'
  BY <1>1 DEF CacheInv, CacheTypes
<1>6. Filling'
  BY <1>1, <1>2, <1>4, <1>5 DEF CacheInv, Filling, reload_vars
<1> QED
  BY <1>3, <1>6 DEF CacheInv

\* A change of configuration begins: another policy gets an empty cache and the list of all
\* the keys; another size evicts at once.
LEMMA ReloadInv == ASSUME CacheInv, NEW c \in Configs, Reload(c) PROVE CacheInv'
<1>1. /\ phase = "idle" /\ to' = c /\ start' = now
      /\ UNCHANGED <<now, conf, torn, shadowed>>
  BY DEF Reload
<1>2. /\ Sound(cur) /\ Shadowed(cur) \subseteq shadowed /\ Current(cur, Settled)
      /\ now \in Nat /\ conf \in Configs /\ to_copy \in Seq(CacheKeys)
      /\ cur.policy = conf.policy /\ cur.size = conf.size /\ cur.window = conf.window
  BY <1>1 DEF CacheInv, InUse, CacheTypes, InEffect
<1>3. c.policy \in {x.policy : x \in Configs} /\ c.size \in {x.size : x \in Configs}
  BY ConfigIs
<1>4. Settled' = Settled
  BY <1>1 DEF Settled
<1>5. CASE c.policy # conf.policy
  <2>1. phase' = "copy" /\ fresh' = New(c.policy, c.size) /\ to_copy' \in KeyLists(cur) /\ cur' = cur
    BY <1>5 DEF Reload
  <2>2. /\ Sound(fresh') /\ Fits(fresh') /\ Current(fresh', Settled) /\ AllLive(fresh', now)
        /\ fresh'.policy = c.policy /\ fresh'.size = c.size /\ fresh'.window = 0
    BY <1>3, <2>1, NewIs
  <2>3. /\ to_copy' \in Seq(CacheKeys)
        /\ \A s \in SegIds(cur.policy) : \A i \in ToSet(cur.segs[s]) : ReportedKey(cur, s, i) \in ToSet(to_copy')
    BY <1>2, <2>1, KeyListsAre DEF Sound
  <2>4. Carried(cur, fresh', to_copy', Settled, now)
    BY <2>3 DEF Carried
  <2>5. CacheTypes'
    BY <1>1, <1>2, <2>1, <2>3 DEF CacheTypes
  <2>6. InEffect'
    BY <1>1, <1>2, <2>1, <2>2 DEF InEffect
  <2>7. InUse'
    BY <1>1, <1>2, <1>4, <2>1 DEF InUse
  <2>8. Filling'
    BY <1>1, <1>2, <1>4, <2>1, <2>2, <2>4 DEF Filling
  <2> QED
    BY <2>5, <2>6, <2>7, <2>8 DEF CacheInv
<1>6. CASE c.policy = conf.policy
  <2>1. /\ phase' = "set" /\ UNCHANGED <<fresh, to_copy>>
        /\ IF c.size # conf.size THEN cur' \in Evict([cur EXCEPT !.size = c.size]) ELSE cur' = cur
    BY <1>6 DEF Reload
  <2>2. /\ Sound(cur') /\ Shadowed(cur') \subseteq Shadowed(cur) /\ Current(cur', Settled)
        /\ cur'.policy = cur.policy /\ cur'.size = c.size /\ cur'.window = cur.window
    <3>1. CASE c.size = conf.size
      BY <1>2, <2>1, <3>1
    <3>2. CASE c.size # conf.size
      <4> DEFINE e == [cur EXCEPT !.size = c.size]
      <4>1. /\ Sound(e) /\ Shadowed(e) = Shadowed(cur) /\ Current(e, Settled)
            /\ e.policy = cur.policy /\ e.size = c.size /\ e.window = cur.window
        BY <1>2, <1>3, ResizedIs
      <4>2. cur' \in Evict(e)
        BY <2>1, <3>2
      <4> HIDE DEF e
      <4>3. Rest(cur', e)
        BY <4>1, <4>2, EvictRest DEF Sound
      <4>4. cur'.policy = e.policy /\ cur'.size = e.size /\ cur'.window = e.window
        BY <4>3 DEF Rest
      <4> QED
        BY <4>1, <4>3, <4>4, RestKeeps
    <3> QED
      BY <3>1, <3>2
  <2>3. CacheTypes'
    BY <1>1, <1>2, <2>1 DEF CacheTypes
  <2>4. InEffect'
    BY <1>1, <1>2, <1>6, <2>1, <2>2 DEF InEffect
  <2>5. InUse'
    BY <1>1, <1>2, <1>4, <2>2 DEF InUse
  <2>6. Filling'
    BY <2>1 DEF Filling
  <2> QED
    BY <2>3, <2>4, <2>5, <2>6 DEF CacheInv
<1> QED
  BY <1>5, <1>6

\* An entry is copied: the cache that is filled then has it, or has no room for it.
LEMMA CopyOneInv == ASSUME CacheInv, CopyOne PROVE CacheInv'
<1> DEFINE k == Head(to_copy)
<1>1. /\ phase = "copy" /\ to_copy # <<>> /\ to_copy' = Tail(to_copy)
      /\ cur' \in GetIn(cur, k, start)
      /\ IF Hit(cur, k, start) THEN fresh' \in PutIn(fresh, k, Item(cur, k), start) ELSE UNCHANGED fresh
      /\ UNCHANGED <<now, conf, phase, to, start, torn, shadowed>>
  BY DEF CopyOne
<1>2. /\ Sound(cur) /\ Shadowed(cur) \subseteq shadowed /\ Current(cur, Settled)
      /\ now \in Nat /\ start \in Nat /\ start <= now /\ to_copy \in Seq(CacheKeys)
      /\ cur.policy = conf.policy /\ cur.size = conf.size /\ cur.window = conf.window
      /\ Sound(fresh) /\ Fits(fresh) /\ Current(fresh, Settled) /\ AllLive(fresh, start)
      /\ Carried(cur, fresh, to_copy, Settled, now)
      /\ fresh.policy = to.policy /\ fresh.size = to.size /\ fresh.window = 0
  BY <1>1 DEF CacheInv, InUse, CacheTypes, InEffect, Filling
<1>3. /\ k \in CacheKeys /\ to_copy' \in Seq(CacheKeys)
      /\ \A x \in ToSet(to_copy) : x = k \/ x \in ToSet(to_copy')
  BY <1>1, <1>2, HeadKeyIs
<1> HIDE DEF k
<1>4. Shaped(cur) /\ Placed(cur) /\ Alone(cur) /\ Shaped(fresh) /\ Placed(fresh) /\ Alone(fresh)
  BY <1>2 DEF Sound
<1>5. Rest(cur', cur)
  BY <1>1, <1>2, <1>3, <1>4, GetRest
<1>6. /\ Sound(cur') /\ Shadowed(cur') \subseteq Shadowed(cur) /\ Current(cur', Settled)
      /\ cur'.policy = cur.policy /\ cur'.size = cur.size /\ cur'.window = cur.window
  BY <1>2, <1>5, RestKeeps DEF Rest
<1>7. /\ Sound(fresh') /\ Fits(fresh') /\ Current(fresh', Settled) /\ AllLive(fresh', start)
      /\ fresh'.policy = to.policy /\ fresh'.size = to.size /\ fresh'.window = 0
      /\ Hit(cur, k, start) => Safe(fresh', k)
      /\ \A x \in CacheKeys : Safe(fresh, x) => Safe(fresh', x)
  <2>1. CASE ~Hit(cur, k, start)
    BY <1>1, <1>2, <2>1
  <2>2. CASE Hit(cur, k, start)
    <3> DEFINE item == Item(cur, k)
               i == New0(fresh, k, item)
    <3>1. Has(cur, k) /\ ~(item.exp <= start)
      BY <2>2 DEF Hit, Expired
    <3>2. /\ Seg(cur, k) \in SegIds(cur.policy) /\ item \in ToSet(cur.segs[Seg(cur, k)])
          /\ item.key = StoredKey(cur, k) /\ item \in Cached
      BY <1>3, <1>4, <3>1, HasIs
    <3>3. fresh' \in PutIn(fresh, k, item, start)
      BY <1>1, <2>2
    <3> HIDE DEF item, i
    <3>4. item.exp > start
      BY <1>2, <3>1, <3>2 DEF Cached
    <3>5. start \in Nat
      BY <1>2
    <3>6. /\ Shaped(fresh') /\ fresh'.policy = fresh.policy /\ fresh'.size = fresh.size
          /\ fresh'.window = fresh.window
          /\ Alone(fresh) => Alone(fresh')
          /\ Placed(fresh) => Placed(fresh')
          /\ New0(fresh, k, item).newest = item.newest /\ New0(fresh, k, item).key = StoredKey(fresh, k)
          /\ \A s \in SegIds(fresh.policy) : \A j \in ToSet(fresh'.segs[s]) :
                 \/ j = New0(fresh, k, item)
                 \/ \E u \in SegIds(fresh.policy) : j \in ToSet(fresh.segs[u]) /\ (s = u \/ Tiny(fresh))
      <4>1. LET i0 == New0(fresh, k, item)
            IN  /\ Shaped(fresh') /\ fresh'.policy = fresh.policy /\ fresh'.size = fresh.size
                /\ fresh'.window = fresh.window
                /\ Alone(fresh) => Alone(fresh')
                /\ Placed(fresh) => Placed(fresh')
                /\ k[1] = NoGroup => Shadowed(fresh') \subseteq Shadowed(fresh)
                /\ i0.exp = item.exp /\ i0.newest = item.newest /\ i0.key = StoredKey(fresh, k)
                /\ \A s \in SegIds(fresh.policy) : \A j \in ToSet(fresh'.segs[s]) :
                      j = i0 \/ \E u \in SegIds(fresh.policy) :
                                    j \in ToSet(fresh.segs[u]) /\ (s = u \/ Tiny(fresh))
                /\ Alone(fresh) => \A s \in Homes(fresh, k) : \A j \in ToSet(fresh'.segs[s]) :
                                       j.key = i0.key => j = i0
        <5>1. k \in CacheKeys /\ Shaped(fresh) /\ item \in Cached
          BY <1>3, <1>4, <3>2
        <5> QED
          BY <3>3, <3>5, <5>1, PutRest
      <4> QED
        BY <4>1
    <3>7. /\ Shaped(fresh') /\ fresh'.policy = fresh.policy /\ fresh'.size = fresh.size
          /\ fresh'.window = fresh.window /\ Alone(fresh') /\ Placed(fresh')
          /\ i.newest = item.newest /\ i.key = StoredKey(fresh, k)
          /\ \A s \in SegIds(fresh.policy) : \A j \in ToSet(fresh'.segs[s]) :
                 j = i \/ \E u \in SegIds(fresh.policy) : j \in ToSet(fresh.segs[u])
      BY <1>4, <3>6 DEF i
    <3>8. /\ Fits(fresh') /\ AllLive(fresh', start) /\ Safe(fresh', k)
          /\ \A x \in CacheKeys : Safe(fresh, x) => Safe(fresh', x)
      BY <1>2, <1>3, <1>4, <3>2, <3>3, <3>4, PutKeeps
    <3>9. i.key[2] = k[2] /\ item.key[2] = k[2]
      BY <1>3, <1>4, <3>2, <3>7, HomesAre
    <3>10. i.key[2] \in Settled => i.newest
      BY <1>2, <3>2, <3>7, <3>9 DEF Current
    <3>11. Current(fresh', Settled)
      BY <1>2, <3>7, <3>10 DEF Current
    <3> QED
      BY <1>2, <3>7, <3>8, <3>11 DEF Sound
  <2> QED
    BY <2>1, <2>2
<1>8. Carried(cur', fresh', to_copy', Settled, now)
  <2> SUFFICES ASSUME NEW s \in SegIds(cur.policy), NEW j \in ToSet(cur'.segs[s]),
                      j.key[2] \in Settled, j.exp > now
               PROVE  ReportedKey(cur', s, j) \in ToSet(to_copy') \/ Safe(fresh', ReportedKey(cur', s, j))
    BY <1>6 DEF Carried
  <2>1. PICK u \in SegIds(cur.policy) : j \in ToSet(cur.segs[u]) /\ (s = u \/ Tiny(cur))
    BY <1>5 DEF Rest
  <2> DEFINE r == ReportedKey(cur, u, j)
  <2>2. ReportedKey(cur', s, j) = r
    BY <1>6, <2>1 DEF ReportedKey, Tiny
  <2>3. r \in ToSet(to_copy) \/ Safe(fresh, r)
    BY <1>2, <2>1 DEF Carried
  <2>4. r \in CacheKeys /\ j.exp \in Nat
    BY <1>4, <2>1, EntryIs
  <2>5. u \in Homes(cur, r) /\ j.key = StoredKey(cur, r)
    BY <1>4, <2>1 DEF Placed
  <2> HIDE DEF r
  <2>6. ASSUME r = k PROVE Safe(fresh', k)
    <3>1. Has(cur, k) /\ j = Item(cur, k)
      BY <1>3, <1>4, <2>1, <2>5, <2>6, OneItem
    <3>2. ~Expired(j, start)
      BY <1>2, <2>4 DEF Expired
    <3>3. Hit(cur, k, start)
      BY <3>1, <3>2 DEF Hit
    <3> QED
      BY <1>7, <3>3
  <2> QED
    BY <1>3, <1>7, <2>2, <2>3, <2>4, <2>6
<1>9. Settled' = Settled
  BY <1>1 DEF Settled
<1>10. CacheTypes'
  BY <1>1, <1>3 DEF CacheInv, CacheTypes
<1>11. InEffect'
  BY <1>1, <1>2, <1>6, <1>7 DEF InEffect
<1>12. InUse'
  BY <1>1, <1>2, <1>6, <1>9 DEF InUse
<1>13. Filling'
  BY <1>1, <1>2, <1>7, <1>8, <1>9 DEF Filling
<1> QED
  BY <1>10, <1>11, <1>12, <1>13 DEF CacheInv

\* The cache that was filled comes into use, with what is shadowed in it.
LEMMA SwapInv == ASSUME CacheInv, Swap PROVE CacheInv'
<1>1. /\ phase = "copy" /\ cur' = fresh /\ phase' = "set" /\ shadowed' = shadowed \cup Shadowed(fresh)
      /\ UNCHANGED <<now, conf, to, to_copy, start, torn>>
  BY DEF Swap
<1>2. /\ Sound(fresh) /\ Current(fresh, Settled)
      /\ fresh.policy = to.policy /\ fresh.size = to.size /\ fresh.window = 0
  BY <1>1 DEF CacheInv, Filling, InEffect
<1>3. Settled' \subseteq Settled
  BY <1>1 DEF Settled
<1>4. Current(fresh, Settled')
  BY <1>2, <1>3 DEF Current
<1>5. CacheTypes'
  BY <1>1 DEF CacheInv, CacheTypes
<1>6. InEffect'
  BY <1>1, <1>2 DEF InEffect
<1>7. InUse'
  BY <1>1, <1>2, <1>4 DEF InUse
<1>8. Filling'
  BY <1>1 DEF Filling
<1> QED
  BY <1>5, <1>6, <1>7, <1>8 DEF CacheInv

\* The window of the configuration is set.
LEMMA SetWindowInv == ASSUME CacheInv, SetWindow PROVE CacheInv'
<1>1. /\ phase = "set" /\ phase' = "store" /\ cur' = [cur EXCEPT !.window = to.window]
      /\ UNCHANGED <<now, conf, to, fresh, to_copy, start, torn, shadowed>>
  BY DEF SetWindow
<1>2. /\ Sound(cur) /\ Shadowed(cur) \subseteq shadowed /\ Current(cur, Settled)
      /\ cur.policy = to.policy /\ cur.size = to.size /\ to.window \in Nat
  BY <1>1, ConfigIs DEF CacheInv, InUse, InEffect, CacheTypes
<1>3. /\ Sound(cur') /\ Shadowed(cur') = Shadowed(cur) /\ Current(cur', Settled)
      /\ cur'.policy = to.policy /\ cur'.size = to.size /\ cur'.window = to.window
  BY <1>1, <1>2, WindowSetIs
<1>4. Settled' = Settled
  BY <1>1 DEF Settled
<1>5. CacheTypes'
  BY <1>1 DEF CacheInv, CacheTypes
<1>6. InEffect'
  BY <1>1, <1>3 DEF InEffect
<1>7. InUse'
  BY <1>1, <1>2, <1>3, <1>4 DEF InUse
<1>8. Filling'
  BY <1>1 DEF Filling
<1> QED
  BY <1>5, <1>6, <1>7, <1>8 DEF CacheInv

\* The configuration is stored.
LEMMA StoreConfInv == ASSUME CacheInv, StoreConf PROVE CacheInv'
<1>1. /\ phase = "store" /\ phase' = "idle" /\ conf' = to
      /\ UNCHANGED <<cur, now, to, fresh, to_copy, start, torn, shadowed>>
  BY DEF StoreConf
<1>2. Settled' = Settled
  BY <1>1 DEF Settled
<1>3. CacheTypes' /\ InUse' /\ Filling'
  BY <1>1, <1>2 DEF CacheInv, CacheTypes, InUse, Filling
<1>4. InEffect'
  BY <1>1 DEF CacheInv, InEffect
<1> QED
  BY <1>3, <1>4 DEF CacheInv

\* The process restarts with what was live, and with what that shadows.
LEMMA RestartInv == ASSUME CacheInv, NEW c \in Configs, Restart(c) PROVE CacheInv'
<1>1. /\ Sound(cur) /\ Current(cur, Settled) /\ now \in Nat
  BY DEF CacheInv, InUse, CacheTypes
<1>2. PICK r \in Restored(New(c.policy, c.size), Survivors(cur, now)) :
          cur' = [r EXCEPT !.window = c.window] /\ shadowed' = shadowed \cup Shadowed(r)
  BY DEF Restart, Survivors
<1>3. /\ conf' = c /\ to' = c /\ phase' = "idle" /\ to_copy' = <<>> /\ start' = 0
      /\ UNCHANGED <<now, torn>>
  BY DEF Restart
<1>4. /\ c.policy \in {x.policy : x \in Configs} /\ c.size \in {x.size : x \in Configs}
      /\ c.window \in Nat
  BY ConfigIs
<1>5. Sound(r) /\ r.policy = c.policy /\ r.size = c.size /\ Current(r, Settled)
  BY <1>1, <1>2, <1>4, RestoredIs
<1>6. Settled' \subseteq Settled
  BY <1>2, <1>3 DEF Settled
<1>7. Current(r, Settled')
  BY <1>5, <1>6 DEF Current
<1>8. /\ Sound(cur') /\ Shadowed(cur') = Shadowed(r) /\ Current(cur', Settled')
      /\ cur'.policy = c.policy /\ cur'.size = c.size /\ cur'.window = c.window
  BY <1>2, <1>4, <1>5, <1>7, WindowSetIs
<1>9. CacheTypes'
  BY <1>1, <1>3 DEF CacheTypes
<1>10. InEffect'
  BY <1>3, <1>8 DEF InEffect
<1>11. InUse'
  BY <1>2, <1>8 DEF InUse
<1>12. Filling'
  BY <1>3 DEF Filling
<1> QED
  BY <1>9, <1>10, <1>11, <1>12 DEF CacheInv

\* Every step keeps the invariant.
LEMMA CacheStepInv == CacheInv /\ [CacheNext]_cache_vars => CacheInv'
<1> SUFFICES ASSUME CacheInv, [CacheNext]_cache_vars PROVE CacheInv'
  OBVIOUS
<1>1. CASE UNCHANGED cache_vars
  BY <1>1 DEF cache_vars, CacheInv, CacheTypes, InEffect, InUse, Filling, Settled
<1>2. ASSUME NEW d \in Domains, Get(d) \/ GetStale(d) \/ Put(d) \/ Delete(d) PROVE CacheInv'
  BY <1>2, GetInv, GetStaleInv, PutInv, DeleteInv
<1>3. ASSUME NEW k \in CacheKeys, Peek(k) PROVE CacheInv'
  BY <1>3, PeekInv
<1>4. ASSUME NEW c \in Configs, Reload(c) \/ Restart(c) PROVE CacheInv'
  BY <1>4, ReloadInv, RestartInv
<1>5. CASE CopyOne \/ Swap \/ SetWindow \/ StoreConf
  BY <1>5, CopyOneInv, SwapInv, SetWindowInv, StoreConfInv
<1>6. CASE Clear \/ Tick
  BY <1>6, ClearInv, TickInv
<1> QED
  BY <1>1, <1>2, <1>3, <1>4, <1>5, <1>6 DEF CacheNext

\* The cache in use, whatever its policy, has each key in one place at most and where
\* lookups of that key look, and reload never forgets a key it has yet to copy.
THEOREM CacheSound == CacheSpec => []CacheInv
<1> QED
  BY CacheInitInv, CacheStepInv, PTL DEF CacheSpec

\* What a query finds is what was put last.
THEOREM CacheServesNewest == CacheSpec => []ServedIsNewest
<1>1. CacheInv => ServedIsNewest
  <2> SUFFICES ASSUME CacheInv, NEW d \in Domains \ (torn \cup shadowed), Has(cur, <<NoGroup, d>>)
               PROVE  Item(cur, <<NoGroup, d>>).newest
    BY DEF ServedIsNewest
  <2> DEFINE k == <<NoGroup, d>>
             i == Item(cur, k)
  <2>1. k \in CacheKeys /\ k[2] = d
    BY QueryKey
  <2>2. Shaped(cur) /\ Current(cur, Settled) /\ d \in Settled
    BY DEF CacheInv, InUse, Sound, Settled
  <2> HIDE DEF k
  <2>3. Seg(cur, k) \in SegIds(cur.policy) /\ i \in ToSet(cur.segs[Seg(cur, k)]) /\ i.key = StoredKey(cur, k)
    BY <2>1, <2>2, HasIs DEF k
  <2>4. i.key[2] = d
    BY <2>1, <2>2, <2>3, HomesAre
  <2> QED
    BY <2>2, <2>3, <2>4 DEF Current, k
<1> QED
  BY <1>1, CacheSound, PTL

\* While a query is served, nothing usable is taken away.
THEOREM CacheKeepsUsable == CacheSpec => QueriesKeepUsable
<1>1. ASSUME CacheInv, NEW d \in Domains, Get(d) \/ GetStale(d), ~(phase = "set" /\ cur.window = 0),
             NEW i \in Items(cur), Usable(i)
      PROVE  i \in Items(cur')
  <2> DEFINE k == <<NoGroup, d>>
  <2>1. k \in CacheKeys
    BY QueryKey
  <2>2. /\ Shaped(cur) /\ Alone(cur) /\ DOMAIN cur.segs = SegIds(cur.policy)
        /\ now \in Nat /\ conf.window \in Nat /\ to.window \in Nat
    BY <1>1, ConfigIs DEF CacheInv, InUse, Sound, Shaped, CacheTypes
  <2>3. /\ conf.window > 0 /\ to.window > 0 /\ now - i.exp <= conf.window
    BY <1>1 DEF Usable
  <2>4. cur.window > 0
    BY <1>1, <2>2, <2>3 DEF CacheInv, CacheTypes, InEffect
  <2>5. PICK s \in SegIds(cur.policy) : i \in ToSet(cur.segs[s])
    BY <1>1, <2>2 DEF Items
  <2> HIDE DEF k
  <2>6. CASE Get(d)
    <3>1. cur' \in GetIn(cur, k, now)
      BY <2>6 DEF Get, k
    <3>2. Rest(cur', cur) /\ \E u \in SegIds(cur.policy) : i \in ToSet(cur'.segs[u])
      BY <2>1, <2>2, <2>4, <2>5, <3>1, GetRest
    <3> QED
      BY <3>2 DEF Items, Rest, Shaped
  <2>7. CASE GetStale(d)
    <3>1. cur' = GetStaleIn(cur, k, now, conf.window)
      BY <2>7 DEF GetStale, k
    <3>2. Rest(cur', cur) /\ \E u \in SegIds(cur.policy) : i \in ToSet(cur'.segs[u])
      BY <2>1, <2>2, <2>3, <2>5, <3>1, GetStaleRest
    <3> QED
      BY <3>2 DEF Items, Rest, Shaped
  <2> QED
    BY <1>1, <2>6, <2>7
<1>2. CacheInv /\ [CacheNext]_cache_vars =>
          [\A d \in Domains : (Get(d) \/ GetStale(d)) /\ ~(phase = "set" /\ cur.window = 0) =>
              \A i \in Items(cur) : Usable(i) => i \in Items(cur')]_cache_vars
  BY <1>1
<1> QED
  BY <1>2, CacheSound, PTL DEF CacheSpec, QueriesKeepUsable

\* A swap loses nothing that there is room for.
THEOREM CacheSwapKeeps == CacheSpec => SwapKeepsLive
<1>1. ASSUME CacheInv, Swap, NEW d \in Domains \ (torn \cup shadowed'), Hit(cur, <<NoGroup, d>>, now)
      PROVE  LET k == <<NoGroup, d>>
                 Reported == ReportedKey(cur, Seg(cur, k), Item(cur, k))
             IN  Has(cur', k) \/ Full(cur', Reported)
  <2> DEFINE k == <<NoGroup, d>>
             i == Item(cur, k)
             s == Seg(cur, k)
             r == ReportedKey(cur, s, i)
  <2>1. /\ phase = "copy" /\ to_copy = <<>> /\ cur' = fresh /\ shadowed' = shadowed \cup Shadowed(fresh)
    BY <1>1 DEF Swap
  <2>2. /\ Shaped(cur) /\ Shaped(fresh) /\ now \in Nat
        /\ Carried(cur, fresh, to_copy, Settled, now)
    BY <1>1, <2>1 DEF CacheInv, InUse, Filling, Sound, CacheTypes
  <2>3. k \in CacheKeys /\ k[2] = d
    BY QueryKey
  <2>4. Has(cur, k) /\ ~(i.exp <= now)
    BY <1>1 DEF Hit, Expired
  <2> HIDE DEF k
  <2>5. s \in SegIds(cur.policy) /\ i \in ToSet(cur.segs[s]) /\ i.key = StoredKey(cur, k) /\ i \in Cached
    BY <2>2, <2>3, <2>4, HasIs
  <2>6. i.key[2] = d
    BY <2>2, <2>3, <2>5, HomesAre
  <2>7. i.exp > now
    BY <2>2, <2>4, <2>5 DEF Cached
  <2>8. d \in Settled /\ d \notin Shadowed(fresh)
    BY <2>1 DEF Settled
  <2>9. Safe(fresh, r)
    <3>1. r \in ToSet(to_copy) \/ Safe(fresh, r)
      BY <2>2, <2>5, <2>6, <2>7, <2>8 DEF Carried
    <3>2. ToSet(to_copy) = {}
      BY <2>1, NoneIs
    <3> QED
      BY <3>1, <3>2
  <2>10. r \in CacheKeys /\ r[2] = d
    BY <2>2, <2>5, <2>6, EntryIs
  <2> HIDE DEF i, s, r
  <2>11. ASSUME Has(fresh, r) PROVE Has(fresh, k)
    <3>1. PICK u \in Homes(fresh, r) : \E j \in ToSet(fresh.segs[u]) : j.key = StoredKey(fresh, r)
      BY <2>2, <2>10, <2>11, HasIs
    <3>2. PICK j \in ToSet(fresh.segs[u]) : j.key = StoredKey(fresh, r)
      BY <3>1
    <3>3. u \in SegIds(fresh.policy) /\ j.key[2] = d
      BY <2>2, <2>10, <3>1, <3>2, HomesAre
    <3>4. u \in Homes(fresh, k) /\ j.key = StoredKey(fresh, k)
      BY <2>2, <2>8, <3>2, <3>3, FoundByQuery DEF k
    <3> QED
      BY <2>2, <2>3, <3>2, <3>4, HasIs
  <2>12. Has(cur', k) \/ Full(cur', r)
    BY <2>1, <2>9, <2>11 DEF Safe
  <2> QED
    BY <2>12 DEF k, i, s, r
<1>2. CacheInv /\ [CacheNext]_cache_vars =>
          [Swap => \A d \in Domains \ (torn \cup shadowed') :
              LET k == <<NoGroup, d>>
                  Reported == ReportedKey(cur, Seg(cur, k), Item(cur, k))
              IN  Hit(cur, k, now) => Has(cur', k) \/ Full(cur', Reported)]_cache_vars
  BY <1>1
<1> QED
  BY <1>2, CacheSound, PTL DEF CacheSpec, SwapKeepsLive
=============================================================================
