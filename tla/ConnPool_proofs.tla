-------------------------- MODULE ConnPool_proofs --------------------------
(***************************************************************************)
(* Proofs about ConnPool, for every finite set of callers and connections, *)
(* all sets of keys and entries, and all limits: its invariants, and that  *)
(* it implements ConnUse.                                                  *)
(*                                                                         *)
(* The inductive invariant IInv adds to the invariants what a call has at  *)
(* each point (Pointers), that no connection is in two places (Apart), and *)
(* that an entry nobody has listed or discarded is as it was made          *)
(* (UnusedFresh).                                                          *)
(***************************************************************************)
EXTENDS ConnPool, FiniteSetTheorems, TLAPS

Pointers ==
    \A c \in Callers :
        /\ ent[c] \in Entries <=> pc[c] \in HasPermit \cup {"permit", "discard"}
        /\ pc[c] \in {"lookup", "permit"} => key[c] \in Keys
        /\ held[c] # NoConn => pc[c] \in {"using", "release", "requeue"}
        /\ pc[c] \in {"using", "requeue"} => held[c] # NoConn
        /\ victims[c] # {} => pc[c] \in {"reclaimed", "trimmed", "emptied"}
        /\ pc[c] = "cut" => excess[c] > 0

Apart ==
    /\ \A c \in Callers : held[c] \notin Queued /\ held[c] \notin Uncounted
    /\ \A c, d \in Callers : c # d /\ held[c] = held[d] => held[c] = NoConn
    /\ \A c \in Callers : victims[c] \cap Queued = {}
    /\ \A c, d \in Callers : c # d => victims[c] \cap victims[d] = {}
    /\ \A e, f \in Entries : e # f => idle[e] \cap idle[f] = {}

UnusedFresh ==
    \A e \in Entries : Unused(e) => idle[e] = {} /\ \A c \in Callers : ent[c] # e

\* The entry of a key is not discarded, and no other key has it.
TableSound ==
    /\ \A k \in Keys : table[k] # NoEntry => ~discarded[table[k]]
    /\ \A k, l \in Keys : k # l /\ table[k] = table[l] => table[k] = NoEntry

IInv == TypeOK /\ Pointers /\ Apart /\ UnusedFresh /\ TableSound /\ SlotsAccounted

-----------------------------------------------------------------------------
(* The holders of an entry, and the sets of connections *)

LEMMA Finite ==
    ASSUME TypeOK
    PROVE  /\ \A e \in Entries : IsFiniteSet(Holders(e)) /\ Cardinality(Holders(e)) \in Nat
           /\ \A e \in Entries : IsFiniteSet(idle[e]) /\ Cardinality(idle[e]) \in Nat
           /\ \A c \in Callers : IsFiniteSet(victims[c]) /\ Cardinality(victims[c]) \in Nat
           /\ \A S : S \subseteq Conns => IsFiniteSet(S) /\ Cardinality(S) \in Nat
           /\ IsFiniteSet(Queued \cup Uncounted)
<1>1. \A S : S \subseteq Conns => IsFiniteSet(S) /\ Cardinality(S) \in Nat
  BY SetsAssumption, FS_Subset, FS_CardinalityType
<1>2. \A S : S \subseteq Callers => IsFiniteSet(S) /\ Cardinality(S) \in Nat
  BY SetsAssumption, FS_Subset, FS_CardinalityType
<1>3. \A e \in Entries : Holders(e) \subseteq Callers /\ idle[e] \subseteq Conns
  BY DEF Holders, TypeOK
<1>4. \A c \in Callers : victims[c] \subseteq Conns
  BY DEF TypeOK
<1>5. Queued \cup Uncounted \subseteq Conns
  BY <1>3, <1>4 DEF Queued, Uncounted
<1> QED
  BY <1>1, <1>2, <1>3, <1>4, <1>5

\* A caller that comes to hold a slot is one more holder of its entry, ...
LEMMA OneMoreHolder ==
    ASSUME TypeOK, NEW e \in Entries, NEW c, c \notin Holders(e)
    PROVE  Cardinality(Holders(e) \cup {c}) = Cardinality(Holders(e)) + 1
BY Finite, FS_AddElement

\* ... and one that gives it back is one less.
LEMMA OneHolderLess ==
    ASSUME TypeOK, NEW e \in Entries, NEW c \in Holders(e)
    PROVE  Cardinality(Holders(e) \ {c}) = Cardinality(Holders(e)) - 1
BY Finite, FS_RemoveElement

\* While the holders and the slots stay, the account does.
LEMMA SameSlots ==
    ASSUME SlotsAccounted, permits' = permits, \A e \in Entries : Holders(e)' = Holders(e)
    PROVE  SlotsAccounted'
BY DEF SlotsAccounted

LEMMA AcquireIInv ==
    ASSUME IInv, NEW c \in Callers, NEW k \in Keys, Acquire(c, k)
    PROVE  IInv'
<1> USE NonesAssumption, LimitsAssumption
<1>1. TypeOK'
  BY DEF IInv, TypeOK, Pointers, HasPermit, PCs, Queued, table_vars, Acquire, Goto
<1>2. Pointers'
  BY DEF IInv, TypeOK, Pointers, HasPermit, PCs, table_vars, Acquire, Goto
<1>3. Apart'
  BY DEF IInv, TypeOK, Pointers, HasPermit, Apart, Queued, Uncounted, table_vars, Acquire, Goto
<1>4. UnusedFresh'
  BY DEF IInv, TypeOK, Pointers, HasPermit, UnusedFresh, Unused, Listed, table_vars, Acquire, Goto
<1>5. \A f \in Entries : Holders(f)' = Holders(f)
  BY DEF IInv, TypeOK, Pointers, Holders, HasPermit, table_vars, Acquire, Goto
<1>6. SlotsAccounted'
  BY <1>5, SameSlots DEF IInv, Acquire, Goto
<1>7. TableSound'
  BY DEF IInv, TypeOK, TableSound, Unused, Listed, table_vars, Acquire, Goto
<1> QED
  BY <1>1, <1>2, <1>3, <1>4, <1>6, <1>7 DEF IInv

LEMMA FindIInv ==
    ASSUME IInv, NEW c \in Callers, Find(c)
    PROVE  IInv'
<1> USE NonesAssumption, LimitsAssumption
<1>1. TypeOK'
  BY DEF IInv, TypeOK, Pointers, HasPermit, PCs, Queued, table_vars, Find, Goto
<1>2. Pointers'
  BY DEF IInv, TypeOK, Pointers, HasPermit, PCs, table_vars, Find, Goto
<1>3. Apart'
  BY DEF IInv, TypeOK, Pointers, HasPermit, Apart, Queued, Uncounted, table_vars, Find, Goto
<1>4. UnusedFresh'
  BY DEF IInv, TypeOK, Pointers, HasPermit, UnusedFresh, Unused, Listed, table_vars, Find, Goto
<1>5. \A f \in Entries : Holders(f)' = Holders(f)
  BY DEF IInv, TypeOK, Pointers, Holders, HasPermit, table_vars, Find, Goto
<1>6. SlotsAccounted'
  BY <1>5, SameSlots DEF IInv, Find, Goto
<1>7. TableSound'
  BY DEF IInv, TypeOK, TableSound, Unused, Listed, table_vars, Find, Goto
<1> QED
  BY <1>1, <1>2, <1>3, <1>4, <1>6, <1>7 DEF IInv

LEMMA CreateIInv ==
    ASSUME IInv, NEW c \in Callers, NEW e \in Entries, Create(c, e)
    PROVE  IInv'
<1> USE NonesAssumption, LimitsAssumption
<1>1. TypeOK'
  BY DEF IInv, TypeOK, Pointers, HasPermit, PCs, Queued, table_vars, Create, Goto
<1>2. Pointers'
  BY DEF IInv, TypeOK, Pointers, HasPermit, PCs, table_vars, Create, Goto
<1>3. Apart'
  BY DEF IInv, TypeOK, Pointers, HasPermit, Apart, Queued, Uncounted, table_vars, Create, Goto
<1>4. UnusedFresh'
  BY DEF IInv, TypeOK, Pointers, HasPermit, UnusedFresh, Unused, Listed, table_vars, Create, Goto
<1>5. \A f \in Entries : Holders(f)' = Holders(f)
  BY DEF IInv, TypeOK, Pointers, Holders, HasPermit, table_vars, Create, Goto
<1>6. SlotsAccounted'
  BY <1>5, SameSlots DEF IInv, Create, Goto
<1>7. TableSound'
  BY DEF IInv, TypeOK, TableSound, Unused, Listed, table_vars, Create, Goto
<1> QED
  BY <1>1, <1>2, <1>3, <1>4, <1>6, <1>7 DEF IInv

LEMMA CheckIInv ==
    ASSUME IInv, NEW c \in Callers, Check(c)
    PROVE  IInv'
<1> USE NonesAssumption, LimitsAssumption
<1>1. TypeOK'
  BY DEF IInv, TypeOK, Pointers, HasPermit, PCs, Queued, table_vars, Check, Goto
<1>2. Pointers'
  BY DEF IInv, TypeOK, Pointers, HasPermit, PCs, table_vars, Check, Goto
<1>3. Apart'
  BY DEF IInv, TypeOK, Pointers, HasPermit, Apart, Queued, Uncounted, table_vars, Check, Goto
<1>4. UnusedFresh'
  BY DEF IInv, TypeOK, Pointers, HasPermit, UnusedFresh, Unused, Listed, table_vars, Check, Goto
<1>5. \A f \in Entries : Holders(f)' = Holders(f)
  BY DEF IInv, TypeOK, Pointers, Holders, HasPermit, table_vars, Check, Goto
<1>6. SlotsAccounted'
  BY <1>5, SameSlots DEF IInv, Check, Goto
<1>7. TableSound'
  BY DEF IInv, TypeOK, TableSound, Unused, Listed, table_vars, Check, Goto
<1> QED
  BY <1>1, <1>2, <1>3, <1>4, <1>6, <1>7 DEF IInv

LEMMA ConnectIInv ==
    ASSUME IInv, NEW c \in Callers, NEW x \in Conns, Connect(c, x)
    PROVE  IInv'
<1> USE NonesAssumption, LimitsAssumption
<1>1. TypeOK'
  BY DEF IInv, TypeOK, Pointers, HasPermit, PCs, Queued, table_vars, Connect, Goto, Open
<1>2. Pointers'
  BY DEF IInv, TypeOK, Pointers, HasPermit, PCs, table_vars, Connect, Goto, Open
<1>3. Apart'
  BY DEF IInv, TypeOK, Pointers, HasPermit, Apart, Queued, Uncounted, table_vars, Connect, Goto, Open
<1>4. UnusedFresh'
  BY DEF IInv, TypeOK, Pointers, HasPermit, UnusedFresh, Unused, Listed, table_vars, Connect, Goto, Open
<1>5. \A f \in Entries : Holders(f)' = Holders(f)
  BY DEF IInv, TypeOK, Pointers, Holders, HasPermit, table_vars, Connect, Goto, Open
<1>6. SlotsAccounted'
  BY <1>5, SameSlots DEF IInv, Connect, Goto, Open
<1>7. TableSound'
  BY DEF IInv, TypeOK, TableSound, Unused, Listed, table_vars, Connect, Goto, Open
<1> QED
  BY <1>1, <1>2, <1>3, <1>4, <1>6, <1>7 DEF IInv

LEMMA ConnectFailsIInv ==
    ASSUME IInv, NEW c \in Callers, ConnectFails(c)
    PROVE  IInv'
<1> USE NonesAssumption, LimitsAssumption
<1>1. TypeOK'
  BY DEF IInv, TypeOK, Pointers, HasPermit, PCs, Queued, table_vars, ConnectFails, Goto
<1>2. Pointers'
  BY DEF IInv, TypeOK, Pointers, HasPermit, PCs, table_vars, ConnectFails, Goto
<1>3. Apart'
  BY DEF IInv, TypeOK, Pointers, HasPermit, Apart, Queued, Uncounted, table_vars, ConnectFails, Goto
<1>4. UnusedFresh'
  BY DEF IInv, TypeOK, Pointers, HasPermit, UnusedFresh, Unused, Listed, table_vars, ConnectFails, Goto
<1>5. \A f \in Entries : Holders(f)' = Holders(f)
  BY DEF IInv, TypeOK, Pointers, Holders, HasPermit, table_vars, ConnectFails, Goto
<1>6. SlotsAccounted'
  BY <1>5, SameSlots DEF IInv, ConnectFails, Goto
<1>7. TableSound'
  BY DEF IInv, TypeOK, TableSound, Unused, Listed, table_vars, ConnectFails, Goto
<1> QED
  BY <1>1, <1>2, <1>3, <1>4, <1>6, <1>7 DEF IInv

LEMMA ExchangeFailsIInv ==
    ASSUME IInv, NEW c \in Callers, ExchangeFails(c)
    PROVE  IInv'
<1> USE NonesAssumption, LimitsAssumption
<1>1. TypeOK'
  BY DEF IInv, TypeOK, Pointers, HasPermit, PCs, Queued, table_vars, ExchangeFails, Goto
<1>2. Pointers'
  BY DEF IInv, TypeOK, Pointers, HasPermit, PCs, table_vars, ExchangeFails, Goto
<1>3. Apart'
  BY DEF IInv, TypeOK, Pointers, HasPermit, Apart, Queued, Uncounted, table_vars, ExchangeFails, Goto
<1>4. UnusedFresh'
  BY DEF IInv, TypeOK, Pointers, HasPermit, UnusedFresh, Unused, Listed, table_vars, ExchangeFails, Goto
<1>5. \A f \in Entries : Holders(f)' = Holders(f)
  BY DEF IInv, TypeOK, Pointers, Holders, HasPermit, table_vars, ExchangeFails, Goto
<1>6. SlotsAccounted'
  BY <1>5, SameSlots DEF IInv, ExchangeFails, Goto
<1>7. TableSound'
  BY DEF IInv, TypeOK, TableSound, Unused, Listed, table_vars, ExchangeFails, Goto
<1> QED
  BY <1>1, <1>2, <1>3, <1>4, <1>6, <1>7 DEF IInv

LEMMA ExchangeSucceedsIInv ==
    ASSUME IInv, NEW c \in Callers, ExchangeSucceeds(c)
    PROVE  IInv'
<1> USE NonesAssumption, LimitsAssumption
<1>1. TypeOK'
  BY DEF IInv, TypeOK, Pointers, HasPermit, PCs, Queued, table_vars, ExchangeSucceeds, Goto
<1>2. Pointers'
  BY DEF IInv, TypeOK, Pointers, HasPermit, PCs, table_vars, ExchangeSucceeds, Goto
<1>3. Apart'
  BY DEF IInv, TypeOK, Pointers, HasPermit, Apart, Queued, Uncounted, table_vars, ExchangeSucceeds, Goto
<1>4. UnusedFresh'
  BY DEF IInv, TypeOK, Pointers, HasPermit, UnusedFresh, Unused, Listed, table_vars, ExchangeSucceeds, Goto
<1>5. \A f \in Entries : Holders(f)' = Holders(f)
  BY DEF IInv, TypeOK, Pointers, Holders, HasPermit, table_vars, ExchangeSucceeds, Goto
<1>6. SlotsAccounted'
  BY <1>5, SameSlots DEF IInv, ExchangeSucceeds, Goto
<1>7. TableSound'
  BY DEF IInv, TypeOK, TableSound, Unused, Listed, table_vars, ExchangeSucceeds, Goto
<1> QED
  BY <1>1, <1>2, <1>3, <1>4, <1>6, <1>7 DEF IInv

LEMMA ReclaimIInv ==
    ASSUME IInv, NEW c \in Callers, Reclaim(c)
    PROVE  IInv'
<1> USE NonesAssumption, LimitsAssumption
<1>1. TypeOK'
  BY DEF IInv, TypeOK, Pointers, HasPermit, PCs, Queued, table_vars, Reclaim, Goto, Pooled, Listed
<1>2. Pointers'
  BY DEF IInv, TypeOK, Pointers, HasPermit, PCs, table_vars, Reclaim, Goto, Pooled, Listed
<1>3. Apart'
  BY DEF IInv, TypeOK, Pointers, HasPermit, Apart, Queued, Uncounted, table_vars, Reclaim, Goto, Pooled, Listed
<1>4. UnusedFresh'
  BY DEF IInv, TypeOK, Pointers, HasPermit, UnusedFresh, Unused, Listed, table_vars, Reclaim, Goto, Pooled, Listed
<1>5. \A f \in Entries : Holders(f)' = Holders(f)
  BY DEF IInv, TypeOK, Pointers, Holders, HasPermit, table_vars, Reclaim, Goto, Pooled, Listed
<1>6. SlotsAccounted'
  BY <1>5, SameSlots DEF IInv, Reclaim, Goto, Pooled, Listed
<1>7. TableSound'
  BY DEF IInv, TypeOK, TableSound, Unused, Listed, table_vars, Reclaim, Goto, Pooled, Listed
<1> QED
  BY <1>1, <1>2, <1>3, <1>4, <1>6, <1>7 DEF IInv

LEMMA MeasureIInv ==
    ASSUME IInv, NEW c \in Callers, Measure(c)
    PROVE  IInv'
<1> USE NonesAssumption, LimitsAssumption
<1>1. TypeOK'
  BY DEF IInv, TypeOK, Pointers, HasPermit, PCs, Queued, table_vars, Measure, Goto, AfterTrim, Target
<1>2. Pointers'
  BY DEF IInv, TypeOK, Pointers, HasPermit, PCs, table_vars, Measure, Goto, AfterTrim, Target
<1>3. Apart'
  BY DEF IInv, TypeOK, Pointers, HasPermit, Apart, Queued, Uncounted, table_vars, Measure, Goto, AfterTrim, Target
<1>4. UnusedFresh'
  BY DEF IInv, TypeOK, Pointers, HasPermit, UnusedFresh, Unused, Listed, table_vars, Measure, Goto, AfterTrim, Target
<1>5. \A f \in Entries : Holders(f)' = Holders(f)
  BY DEF IInv, TypeOK, Pointers, Holders, HasPermit, table_vars, Measure, Goto, AfterTrim, Target
<1>6. SlotsAccounted'
  BY <1>5, SameSlots DEF IInv, Measure, Goto, AfterTrim, Target
<1>7. TableSound'
  BY DEF IInv, TypeOK, TableSound, Unused, Listed, table_vars, Measure, Goto, AfterTrim, Target
<1> QED
  BY <1>1, <1>2, <1>3, <1>4, <1>6, <1>7 DEF IInv

LEMMA CutIInv ==
    ASSUME IInv, NEW c \in Callers, Cut(c)
    PROVE  IInv'
<1> USE NonesAssumption, LimitsAssumption
<1>1. TypeOK'
  BY DEF IInv, TypeOK, Pointers, HasPermit, PCs, Queued, table_vars, Cut, Goto, Cuts, Pooled, Listed
<1>2. Pointers'
  BY DEF IInv, TypeOK, Pointers, HasPermit, PCs, table_vars, Cut, Goto, Cuts, Pooled, Listed
<1>3. Apart'
  BY DEF IInv, TypeOK, Pointers, HasPermit, Apart, Queued, Uncounted, table_vars, Cut, Goto, Cuts, Pooled, Listed
<1>4. UnusedFresh'
  BY DEF IInv, TypeOK, Pointers, HasPermit, UnusedFresh, Unused, Listed, table_vars, Cut, Goto, Cuts, Pooled, Listed
<1>5. \A f \in Entries : Holders(f)' = Holders(f)
  BY DEF IInv, TypeOK, Pointers, Holders, HasPermit, table_vars, Cut, Goto, Cuts, Pooled, Listed
<1>6. SlotsAccounted'
  BY <1>5, SameSlots DEF IInv, Cut, Goto, Cuts, Pooled, Listed
<1>7. TableSound'
  BY DEF IInv, TypeOK, TableSound, Unused, Listed, table_vars, Cut, Goto, Cuts, Pooled, Listed
<1> QED
  BY <1>1, <1>2, <1>3, <1>4, <1>6, <1>7 DEF IInv

LEMMA DiscardIInv ==
    ASSUME IInv, NEW c \in Callers, NEW k \in Keys, Discard(c, k)
    PROVE  IInv'
<1> USE NonesAssumption, LimitsAssumption
<1>1. TypeOK'
  BY DEF IInv, TypeOK, Pointers, HasPermit, PCs, Queued, table_vars, Discard, Goto
<1>2. Pointers'
  BY DEF IInv, TypeOK, Pointers, HasPermit, PCs, table_vars, Discard, Goto
<1>3. Apart'
  BY DEF IInv, TypeOK, Pointers, HasPermit, Apart, Queued, Uncounted, table_vars, Discard, Goto
<1>4. UnusedFresh'
  BY DEF IInv, TypeOK, Pointers, HasPermit, UnusedFresh, Unused, Listed, table_vars, Discard, Goto
<1>5. \A f \in Entries : Holders(f)' = Holders(f)
  BY DEF IInv, TypeOK, Pointers, Holders, HasPermit, table_vars, Discard, Goto
<1>6. SlotsAccounted'
  BY <1>5, SameSlots DEF IInv, Discard, Goto
<1>7. TableSound'
  BY DEF IInv, TypeOK, TableSound, Unused, Listed, table_vars, Discard, Goto
<1> QED
  BY <1>1, <1>2, <1>3, <1>4, <1>6, <1>7 DEF IInv

LEMMA EmptyIInv ==
    ASSUME IInv, NEW c \in Callers, Empty(c)
    PROVE  IInv'
<1> USE NonesAssumption, LimitsAssumption
<1>1. TypeOK'
  BY DEF IInv, TypeOK, Pointers, HasPermit, PCs, Queued, table_vars, Empty, Goto
<1>2. Pointers'
  BY DEF IInv, TypeOK, Pointers, HasPermit, PCs, table_vars, Empty, Goto
<1>3. Apart'
  BY DEF IInv, TypeOK, Pointers, HasPermit, Apart, Queued, Uncounted, table_vars, Empty, Goto
<1>4. UnusedFresh'
  BY DEF IInv, TypeOK, Pointers, HasPermit, UnusedFresh, Unused, Listed, table_vars, Empty, Goto
<1>5. \A f \in Entries : Holders(f)' = Holders(f)
  BY DEF IInv, TypeOK, Pointers, Holders, HasPermit, table_vars, Empty, Goto
<1>6. SlotsAccounted'
  BY <1>5, SameSlots DEF IInv, Empty, Goto
<1>7. TableSound'
  BY DEF IInv, TypeOK, TableSound, Unused, Listed, table_vars, Empty, Goto
<1> QED
  BY <1>1, <1>2, <1>3, <1>4, <1>6, <1>7 DEF IInv

LEMMA AgeIInv ==
    ASSUME IInv, NEW x \in Conns, Age(x)
    PROVE  IInv'
<1> USE NonesAssumption, LimitsAssumption
<1>1. TypeOK'
  BY DEF IInv, TypeOK, Pointers, HasPermit, PCs, Queued, table_vars, Age, Pooled, Listed, call_vars
<1>2. Pointers'
  BY DEF IInv, TypeOK, Pointers, HasPermit, PCs, table_vars, Age, Pooled, Listed, call_vars
<1>3. Apart'
  BY DEF IInv, TypeOK, Pointers, HasPermit, Apart, Queued, Uncounted, table_vars, Age, Pooled, Listed, call_vars
<1>4. UnusedFresh'
  BY DEF IInv, TypeOK, Pointers, HasPermit, UnusedFresh, Unused, Listed, table_vars, Age, Pooled, Listed, call_vars
<1>5. \A f \in Entries : Holders(f)' = Holders(f)
  BY DEF IInv, TypeOK, Pointers, Holders, HasPermit, table_vars, Age, Pooled, Listed, call_vars
<1>6. SlotsAccounted'
  BY <1>5, SameSlots DEF IInv, Age, Pooled, Listed, call_vars
<1>7. TableSound'
  BY DEF IInv, TypeOK, TableSound, Unused, Listed, table_vars, Age, Pooled, Listed, call_vars
<1> QED
  BY <1>1, <1>2, <1>3, <1>4, <1>6, <1>7 DEF IInv

LEMMA PermitIInv ==
    ASSUME IInv, NEW c \in Callers, Permit(c)
    PROVE  IInv'
<1> USE NonesAssumption, LimitsAssumption
<1>1. TypeOK'
  BY DEF IInv, TypeOK, Pointers, HasPermit, PCs, Queued, table_vars, Permit, Goto
<1>2. Pointers'
  BY DEF IInv, TypeOK, Pointers, HasPermit, PCs, table_vars, Permit, Goto
<1>3. Apart'
  BY DEF IInv, TypeOK, Apart, Queued, Uncounted, table_vars, Permit, Goto
<1>4. UnusedFresh'
  BY DEF IInv, TypeOK, Pointers, HasPermit, UnusedFresh, Unused, Listed, table_vars, Permit, Goto
<1>5. SlotsAccounted'
  <2>1. PICK e \in Entries : e = ent[c] /\ c \notin Holders(e)
    BY DEF IInv, Pointers, Holders, HasPermit, Permit
  <2>2. Holders(e)' = Holders(e) \cup {c}
    BY <2>1 DEF IInv, TypeOK, Holders, HasPermit, Permit, Goto
  <2>3. \A f \in Entries \ {e} : Holders(f)' = Holders(f)
    BY <2>1 DEF IInv, TypeOK, Holders, HasPermit, Permit, Goto
  <2>4. Cardinality(Holders(e)') = Cardinality(Holders(e)) + 1
    BY <2>1, <2>2, OneMoreHolder DEF IInv
  <2>5. \A f \in Entries : Cardinality(Holders(f)) \in Nat
    BY Finite DEF IInv
  <2>6. permits' = [permits EXCEPT ![e] = @ - 1]
    BY <2>1 DEF Permit
  <2>7. permits'[e] + Cardinality(Holders(e)') = MAX_CONN
    BY <2>1, <2>4, <2>5, <2>6 DEF IInv, TypeOK, SlotsAccounted
  <2>8. \A f \in Entries \ {e} : permits'[f] + Cardinality(Holders(f)') = MAX_CONN
    BY <2>3, <2>6 DEF IInv, TypeOK, SlotsAccounted
  <2>9. SUFFICES ASSUME NEW f \in Entries PROVE permits'[f] + Cardinality(Holders(f)') = MAX_CONN
    BY DEF SlotsAccounted
  <2> QED
    BY <2>7, <2>8
<1>9. TableSound'
  BY DEF IInv, TableSound, table_vars, Permit
<1> QED
  BY <1>1, <1>2, <1>3, <1>4, <1>5, <1>9 DEF IInv

\* A holder gives its slot back: the slots stay accounted for, and in their range.
LEMMA SlotBack ==
    ASSUME IInv, NEW c \in Callers, NEW e \in Entries, c \in Holders(e),
           permits' = [permits EXCEPT ![e] = @ + 1],
           Holders(e)' = Holders(e) \ {c},
           \A f \in Entries \ {e} : Holders(f)' = Holders(f)
    PROVE  SlotsAccounted' /\ permits' \in [Entries -> 0..MAX_CONN]
<1> USE LimitsAssumption
<1>2. Cardinality(Holders(e)') = Cardinality(Holders(e)) - 1
  BY OneHolderLess DEF IInv
<1>3. \A f \in Entries : Cardinality(Holders(f)) \in Nat
  BY Finite DEF IInv
<1>4. Cardinality(Holders(e)) > 0
  BY <1>3, Finite, FS_EmptySet DEF IInv
<1>5. permits'[e] + Cardinality(Holders(e)') = MAX_CONN /\ permits'[e] \in 0..MAX_CONN
  BY <1>2, <1>3, <1>4 DEF IInv, TypeOK, SlotsAccounted
<1>6. \A f \in Entries \ {e} : permits'[f] + Cardinality(Holders(f)') = MAX_CONN
  BY DEF IInv, TypeOK, SlotsAccounted
<1>7. permits' \in [Entries -> 0..MAX_CONN]
  BY <1>5 DEF IInv, TypeOK
<1>8. SUFFICES ASSUME NEW f \in Entries PROVE permits'[f] + Cardinality(Holders(f)') = MAX_CONN
  BY <1>7 DEF SlotsAccounted
<1> QED
  BY <1>5, <1>6

LEMMA UnpermitIInv ==
    ASSUME IInv, NEW c \in Callers, Unpermit(c)
    PROVE  IInv'
<1> USE NonesAssumption, LimitsAssumption
<1>1. PICK e \in Entries : e = ent[c] /\ c \in Holders(e)
  BY DEF IInv, Pointers, Holders, HasPermit, Unpermit
<1>2. /\ Holders(e)' = Holders(e) \ {c}
      /\ \A f \in Entries \ {e} : Holders(f)' = Holders(f)
  BY <1>1 DEF IInv, TypeOK, Holders, HasPermit, Unpermit, Goto
<1>3. SlotsAccounted' /\ permits' \in [Entries -> 0..MAX_CONN]
  BY <1>1, <1>2, SlotBack DEF Unpermit
<1>4. TypeOK'
  BY <1>3 DEF IInv, TypeOK, Pointers, HasPermit, PCs, Queued, table_vars, Unpermit, Goto
<1>5. Pointers'
  BY DEF IInv, TypeOK, Pointers, HasPermit, PCs, table_vars, Unpermit, Goto
<1>6. Apart'
  BY DEF IInv, TypeOK, Apart, Queued, Uncounted, table_vars, Unpermit, Goto
<1>7. UnusedFresh'
  BY DEF IInv, TypeOK, Pointers, UnusedFresh, Unused, Listed, table_vars, Unpermit, Goto
<1>9. TableSound'
  BY DEF IInv, TableSound, table_vars, Unpermit
<1> QED
  BY <1>3, <1>4, <1>5, <1>6, <1>7, <1>9 DEF IInv

LEMMA GiveUpIInv ==
    ASSUME IInv, NEW c \in Callers, GiveUp(c)
    PROVE  IInv'
<1> USE NonesAssumption, LimitsAssumption
<1>1. SlotsAccounted' /\ permits' \in [Entries -> 0..MAX_CONN]
  <2>1. CASE pc[c] = "permit"
    <3>1. permits' = permits
      BY <2>1 DEF GiveUp
    <3>2. \A f \in Entries : Holders(f)' = Holders(f)
      BY <2>1 DEF IInv, TypeOK, Holders, HasPermit, GiveUp, Goto
    <3> QED
      BY <3>1, <3>2, SameSlots DEF IInv, TypeOK
  <2>2. CASE pc[c] # "permit"
    <3>1. PICK e \in Entries : e = ent[c] /\ c \in Holders(e)
      BY <2>2 DEF IInv, Pointers, Holders, HasPermit, GiveUp
    <3>2. permits' = [permits EXCEPT ![e] = @ + 1]
      BY <2>2, <3>1 DEF GiveUp
    <3>3. /\ Holders(e)' = Holders(e) \ {c}
          /\ \A f \in Entries \ {e} : Holders(f)' = Holders(f)
      BY <3>1 DEF IInv, TypeOK, Holders, HasPermit, GiveUp, Goto
    <3> QED
      BY <3>1, <3>2, <3>3, SlotBack
  <2> QED
    BY <2>1, <2>2
<1>2. TypeOK'
  BY <1>1 DEF IInv, TypeOK, Pointers, HasPermit, PCs, Queued, table_vars, GiveUp, Goto
<1>3. Pointers'
  BY DEF IInv, TypeOK, Pointers, HasPermit, PCs, table_vars, GiveUp, Goto
<1>4. Apart'
  BY DEF IInv, TypeOK, Apart, Queued, Uncounted, table_vars, GiveUp, Goto
<1>5. UnusedFresh'
  BY DEF IInv, TypeOK, Pointers, UnusedFresh, Unused, Listed, table_vars, GiveUp, Goto
<1>9. TableSound'
  BY DEF IInv, TableSound, table_vars, GiveUp
<1> QED
  BY <1>1, <1>2, <1>3, <1>4, <1>5, <1>9 DEF IInv

LEMMA PopIInv ==
    ASSUME IInv, NEW c \in Callers, Pop(c)
    PROVE  IInv'
<1> USE NonesAssumption, LimitsAssumption
<1>1. PICK e \in Entries : e = ent[c]
  BY DEF IInv, Pointers, HasPermit, Pop
<1> DEFINE old == idle[e] \cap aged
<1>2. /\ pc[c] = "pop"
      /\ aged' = aged \ old
      /\ UNCHANGED <<table_vars, permits, key, ent, victims, excess>>
      /\ held[c] = NoConn /\ idle[e] \subseteq Conns
  BY <1>1 DEF Pop, IInv, TypeOK, Pointers
<1>3. idle_total' \in Nat
  <2>1. \A S : S \subseteq Conns => Cardinality(S) \in Nat
    BY Finite DEF IInv
  <2>2. PICK S \in SUBSET Conns : idle_total' = Less(idle_total, Cardinality(S))
    BY <1>1, <1>2 DEF Pop
  <2> QED
    BY <2>1, <2>2 DEF Less, IInv, TypeOK
<1>4. \A f \in Entries : Holders(f)' = Holders(f)
  BY <1>2 DEF IInv, TypeOK, Holders, HasPermit, Pop, Goto
<1>5. SlotsAccounted'
  BY <1>2, <1>4, SameSlots DEF IInv
<1>9. TableSound'
  BY <1>2 DEF IInv, TableSound, table_vars
<1>6. CASE /\ idle' = [idle EXCEPT ![e] = {}] /\ held' = held
           /\ idle[e] \subseteq aged /\ Goto(c, "connect")
  <2>1. TypeOK'
    BY <1>2, <1>3, <1>6 DEF IInv, TypeOK, PCs, Queued, table_vars, Goto
  <2>2. Pointers'
    BY <1>2, <1>6 DEF IInv, TypeOK, Pointers, HasPermit, PCs, table_vars, Goto
  <2>3. Apart'
    BY <1>2, <1>6 DEF IInv, TypeOK, Apart, Queued, Uncounted, table_vars
  <2>4. UnusedFresh'
    BY <1>2, <1>6 DEF IInv, TypeOK, UnusedFresh, Unused, Listed, table_vars
  <2> QED
    BY <1>5, <1>9, <2>1, <2>2, <2>3, <2>4 DEF IInv
<1>7. ASSUME NEW x \in idle[e] \ aged,
             idle' = [idle EXCEPT ![e] = (idle[e] \ aged) \ {x}],
             held' = [held EXCEPT ![c] = x], Goto(c, "using")
      PROVE  IInv'
  <2>1. TypeOK'
    BY <1>2, <1>3, <1>7 DEF IInv, TypeOK, PCs, Queued, table_vars, Goto
  <2>2. Pointers'
    BY <1>2, <1>7 DEF IInv, TypeOK, Pointers, HasPermit, PCs, table_vars, Goto
  <2>3. Apart'
    <3>1. x \in Conns /\ x # NoConn /\ x \in Queued
      BY <1>2 DEF Queued
    <3>2. Queued' \subseteq Queued \ {x}
      BY <1>2, <1>7 DEF IInv, TypeOK, Apart, Queued
    <3>3. Uncounted' = Uncounted /\ x \notin Uncounted
      BY <1>2, <3>1 DEF IInv, Apart, Uncounted
    <3> QED
      BY <1>2, <1>7, <3>1, <3>2, <3>3 DEF IInv, TypeOK, Apart
  <2>4. UnusedFresh'
    BY <1>2, <1>7 DEF IInv, TypeOK, UnusedFresh, Unused, Listed, table_vars
  <2> QED
    BY <1>5, <1>9, <2>1, <2>2, <2>3, <2>4 DEF IInv
<1> QED
  BY <1>1, <1>6, <1>7 DEF Pop

LEMMA ReleaseIInv ==
    ASSUME IInv, NEW c \in Callers, Release(c)
    PROVE  IInv'
<1> USE NonesAssumption, LimitsAssumption
<1>1. TypeOK'
  BY DEF IInv, TypeOK, PCs, Queued, table_vars, Release, Goto
<1>2. Pointers'
  BY DEF IInv, TypeOK, Pointers, HasPermit, PCs, table_vars, Release, Goto
<1>3. Apart'
  <2>1. Queued' = Queued /\ Uncounted' = Uncounted
    BY DEF Queued, Uncounted, Release
  <2>2. CASE held' = held
    BY <2>1, <2>2 DEF IInv, Apart, Release
  <2>3. CASE held' = [held EXCEPT ![c] = NoConn]
    BY <2>1, <2>3 DEF IInv, TypeOK, Apart, Queued, Uncounted, Release
  <2> QED
    BY <2>2, <2>3 DEF Release
<1>4. UnusedFresh'
  BY DEF IInv, UnusedFresh, Unused, Listed, table_vars, Release
<1>5. \A f \in Entries : Holders(f)' = Holders(f)
  BY DEF IInv, TypeOK, Holders, HasPermit, Release, Goto
<1>6. SlotsAccounted'
  BY <1>5, SameSlots DEF IInv, Release
<1>9. TableSound'
  BY DEF IInv, TableSound, table_vars, Release
<1> QED
  BY <1>1, <1>2, <1>3, <1>4, <1>6, <1>9 DEF IInv

LEMMA RequeueIInv ==
    ASSUME IInv, NEW c \in Callers, Requeue(c)
    PROVE  IInv'
<1> USE NonesAssumption, LimitsAssumption
<1>1. TypeOK'
  <2>1. \A S : S \subseteq Conns => Cardinality(S) \in Nat
    BY Finite DEF IInv
  <2>2. idle_total' \in Nat
    BY <2>1 DEF IInv, TypeOK, Pointers, HasPermit, Requeue, Oldest, Less
  <2> QED
    BY <2>2 DEF IInv, TypeOK, Pointers, HasPermit, PCs, Queued, table_vars, Requeue, Goto, Oldest
<1>2. Pointers'
  BY DEF IInv, TypeOK, Pointers, HasPermit, PCs, table_vars, Requeue, Goto
<1>3. Apart'
  BY DEF IInv, TypeOK, Pointers, HasPermit, Apart, Queued, Uncounted, table_vars, Requeue, Goto, Oldest
<1>4. UnusedFresh'
  BY DEF IInv, TypeOK, Pointers, HasPermit, UnusedFresh, Unused, Listed, table_vars, Requeue, Goto
<1>5. \A f \in Entries : Holders(f)' = Holders(f)
  BY DEF IInv, TypeOK, Holders, HasPermit, Requeue, Goto
<1>6. SlotsAccounted'
  BY <1>5, SameSlots DEF IInv, Requeue
<1>9. TableSound'
  BY DEF IInv, TableSound, table_vars, Requeue
<1> QED
  BY <1>1, <1>2, <1>3, <1>4, <1>6, <1>9 DEF IInv

LEMMA UncountIInv ==
    ASSUME IInv, NEW c \in Callers, Uncount(c)
    PROVE  IInv'
<1> USE NonesAssumption, LimitsAssumption
<1>1. TypeOK'
  <2>1. Cardinality(victims[c]) \in Nat
    BY Finite DEF IInv
  <2>2. idle_total' \in Nat
    BY <2>1 DEF IInv, TypeOK, Uncount, Less
  <2> QED
    BY <2>2 DEF IInv, TypeOK, PCs, Queued, table_vars, Uncount, Goto, AfterUncount, AfterTrim
<1>2. Pointers'
  BY DEF IInv, TypeOK, Pointers, HasPermit, PCs, table_vars, Uncount, Goto, AfterUncount, AfterTrim
<1>3. Apart'
  BY DEF IInv, TypeOK, Apart, Queued, Uncounted, table_vars, Uncount
<1>4. UnusedFresh'
  BY DEF IInv, UnusedFresh, Unused, Listed, table_vars, Uncount
<1>5. \A f \in Entries : Holders(f)' = Holders(f)
  BY DEF IInv, TypeOK, Holders, HasPermit, Uncount, Goto, AfterUncount, AfterTrim
<1>6. SlotsAccounted'
  BY <1>5, SameSlots DEF IInv, Uncount
<1>9. TableSound'
  BY DEF IInv, TableSound, table_vars, Uncount
<1> QED
  BY <1>1, <1>2, <1>3, <1>4, <1>6, <1>9 DEF IInv

-----------------------------------------------------------------------------
LEMMA InitIInv == Init => IInv
<1> SUFFICES ASSUME Init PROVE IInv
  OBVIOUS
<1> USE NonesAssumption, LimitsAssumption
<1>1. Queued = {} /\ Uncounted = {}
  BY DEF Init, Queued, Uncounted
<1>2. TypeOK
  BY <1>1 DEF Init, TypeOK, PCs
<1>3. Pointers
  BY DEF Init, Pointers, HasPermit
<1>4. Apart
  BY <1>1 DEF Init, Apart
<1>5. UnusedFresh
  BY DEF Init, UnusedFresh
<1>6. \A e \in Entries : Holders(e) = {}
  BY DEF Init, Holders, HasPermit
<1>7. SlotsAccounted
  BY <1>6, FS_EmptySet DEF Init, SlotsAccounted
<1>8. TableSound
  BY DEF Init, TableSound
<1> QED
  BY <1>2, <1>3, <1>4, <1>5, <1>7, <1>8 DEF IInv

LEMMA StutterIInv == IInv /\ UNCHANGED vars => IInv'
BY DEF IInv, TypeOK, Pointers, Apart, UnusedFresh, TableSound, SlotsAccounted, vars, table_vars, Queued,
       Uncounted, Unused, Listed, Holders, call_vars

LEMMA StepIInv == IInv /\ [Next]_vars => IInv'
<1> SUFFICES ASSUME IInv, [Next]_vars PROVE IInv'
  OBVIOUS
<1>1. ASSUME NEW c \in Callers, NEW k \in Keys, Acquire(c, k) \/ Discard(c, k) PROVE IInv'
  BY <1>1, AcquireIInv, DiscardIInv
<1>2. ASSUME NEW c \in Callers, NEW x \in Conns, Connect(c, x) PROVE IInv'
  BY <1>2, ConnectIInv
<1>3. ASSUME NEW c \in Callers, Proceed(c) PROVE IInv'
  <2>1. ASSUME NEW e \in Entries, Create(c, e) PROVE IInv'
    BY <2>1, CreateIInv
  <2> QED
    BY <1>3, <2>1, FindIInv, PermitIInv, CheckIInv, PopIInv, ConnectFailsIInv, ExchangeFailsIInv,
       ExchangeSucceedsIInv, ReleaseIInv, RequeueIInv, UnpermitIInv, ReclaimIInv, MeasureIInv,
       CutIInv, UncountIInv, EmptyIInv DEF Proceed
<1>4. ASSUME NEW c \in Callers, GiveUp(c) PROVE IInv'
  BY <1>4, GiveUpIInv
<1>5. ASSUME NEW x \in Conns, Age(x) PROVE IInv'
  BY <1>5, AgeIInv
<1> QED
  BY <1>1, <1>2, <1>3, <1>4, <1>5, StutterIInv DEF Next

\* Every variable stays in the set of values it is meant for.
THEOREM TypeCorrect == Spec => []TypeOK
<1>1. IInv => TypeOK
  BY DEF IInv
<1> QED
  BY <1>1, InitIInv, StepIInv, PTL DEF Spec

\* A slot of an entry is free or held by one call: none is lost or given back twice.
THEOREM SlotsNeverLost == Spec => []SlotsAccounted
<1>1. IInv => SlotsAccounted
  BY DEF IInv
<1> QED
  BY <1>1, InitIInv, StepIInv, PTL DEF Spec

-----------------------------------------------------------------------------
(* IdleAccounted *)

Counted == Queued \cup Uncounted

LEMMA CountedFinite ==
    ASSUME IInv
    PROVE  IsFiniteSet(Counted) /\ Cardinality(Counted) \in Nat
BY Finite, FS_CardinalityType DEF IInv, Counted

\* What leaves the set that is counted may be subtracted, ...
LEMMA FewerCounted ==
    ASSUME IInv, IdleAccounted, NEW S, S \subseteq Counted,
           Counted' = Counted \ S, idle_total' = Less(idle_total, Cardinality(S))
    PROVE  IdleAccounted'
<1>1. /\ IsFiniteSet(Counted) /\ Cardinality(Counted) \in Nat
  BY CountedFinite
<1>2. Cardinality(S) \in Nat /\ Cardinality(S) <= Cardinality(Counted)
  BY <1>1, FS_Subset, FS_CardinalityType
<1>3. Cardinality(Counted \ S) = Cardinality(Counted) - Cardinality(S)
  <2>1. Counted \cap S = S
    OBVIOUS
  <2> QED
    BY <1>1, <2>1, FS_Difference
<1>4. idle_total' = Cardinality(Counted) - Cardinality(S)
  BY <1>1, <1>2 DEF IdleAccounted, Less, Counted
<1> QED
  BY <1>3, <1>4 DEF IdleAccounted, Counted

\* ... and while neither changes, they agree.
LEMMA SameCounted ==
    ASSUME IdleAccounted, Counted' = Counted, idle_total' = idle_total
    PROVE  IdleAccounted'
BY DEF IdleAccounted, Counted

LEMMA PopCounted ==
    ASSUME IInv, IdleAccounted, NEW c \in Callers, Pop(c)
    PROVE  IdleAccounted'
<1>1. PICK e \in Entries : e = ent[c]
  BY DEF IInv, Pointers, HasPermit, Pop
<1>2. victims' = victims /\ Uncounted \cap Queued = {} /\ idle[e] \subseteq Queued
  BY DEF Pop, IInv, Apart, Queued, Uncounted
<1>3. Uncounted' = Uncounted
  BY <1>2 DEF Uncounted
<1>4. CASE /\ idle' = [idle EXCEPT ![e] = {}] /\ idle[e] \subseteq aged
           /\ idle_total' = Less(idle_total, Cardinality(idle[e] \cap aged))
  <2>1. idle[e] \cap aged = idle[e]
    BY <1>4
  <2>2. Queued' = Queued \ idle[e]
    BY <1>4 DEF IInv, TypeOK, Apart, Queued
  <2>3. Counted' = Counted \ idle[e]
    BY <1>2, <1>3, <2>2 DEF Counted
  <2> QED
    BY <1>2, <1>4, <2>1, <2>3, FewerCounted DEF Counted
<1>5. ASSUME NEW x \in idle[e] \ aged,
             idle' = [idle EXCEPT ![e] = (idle[e] \ aged) \ {x}],
             idle_total' = Less(idle_total, Cardinality((idle[e] \cap aged) \cup {x}))
      PROVE  IdleAccounted'
  <2> DEFINE S == (idle[e] \cap aged) \cup {x}
  <2>1. Queued' = Queued \ S
    BY <1>5 DEF IInv, TypeOK, Apart, Queued
  <2>2. Counted' = Counted \ S
    BY <1>2, <1>3, <2>1 DEF Counted
  <2> QED
    BY <1>2, <1>5, <2>2, FewerCounted DEF Counted
<1> QED
  BY <1>1, <1>4, <1>5 DEF Pop

LEMMA UncountCounted ==
    ASSUME IInv, IdleAccounted, NEW c \in Callers, Uncount(c)
    PROVE  IdleAccounted'
<1>1. Queued' = Queued
  BY DEF Queued, Uncount
<1>2. Uncounted' = Uncounted \ victims[c]
  BY DEF IInv, TypeOK, Apart, Uncounted, Uncount
<1>3. Counted' = Counted \ victims[c] /\ victims[c] \subseteq Counted
  BY <1>1, <1>2 DEF IInv, Apart, Counted, Uncounted
<1> QED
  BY <1>3, FewerCounted DEF Uncount

LEMMA RequeueCounted ==
    ASSUME IInv, IdleAccounted, NEW c \in Callers, Requeue(c)
    PROVE  IdleAccounted'
<1>1. PICK e \in Entries : e = ent[c]
  BY DEF IInv, Pointers, HasPermit, Requeue
<1>2. PICK out \in SUBSET idle[e] :
        /\ idle' = [idle EXCEPT ![e] = (@ \ out) \cup {held[c]}]
        /\ idle_total' = Less(idle_total, Cardinality(out)) + 1
  BY <1>1 DEF Requeue, Oldest
<1>3. /\ Uncounted' = Uncounted /\ Uncounted \cap Queued = {}
      /\ out \subseteq Queued /\ held[c] \notin Counted
  BY <1>2 DEF Requeue, IInv, Apart, Queued, Uncounted, Counted
<1>4. Queued' = (Queued \ out) \cup {held[c]}
  BY <1>2 DEF IInv, TypeOK, Apart, Queued
<1>5. Counted' = (Counted \ out) \cup {held[c]}
  BY <1>3, <1>4 DEF Counted
<1>6. IsFiniteSet(Counted) /\ Cardinality(Counted) \in Nat /\ out \subseteq Counted
  BY <1>3, CountedFinite DEF Counted
<1>7. /\ Cardinality(out) \in Nat /\ Cardinality(out) <= Cardinality(Counted)
      /\ IsFiniteSet(Counted \ out)
      /\ Cardinality(Counted \ out) = Cardinality(Counted) - Cardinality(out)
  <2>1. Counted \cap out = out
    BY <1>6
  <2> QED
    BY <1>6, <2>1, FS_Difference, FS_Subset, FS_CardinalityType
<1>8. Cardinality(Counted') = Cardinality(Counted \ out) + 1
  BY <1>3, <1>5, <1>7, FS_AddElement
<1> QED
  BY <1>2, <1>6, <1>7, <1>8 DEF IdleAccounted, Less, Counted

LEMMA SweepCounted ==
    ASSUME IInv, IdleAccounted, NEW c \in Callers, Reclaim(c) \/ Cut(c) \/ Empty(c)
    PROVE  IdleAccounted'
<1>1. victims[c] = {}
  BY DEF IInv, Pointers, Reclaim, Cut, Empty
<1>2. CASE Reclaim(c)
  <2>1. /\ idle' = [e \in Entries |-> IF e \in Listed THEN idle[e] \ aged ELSE idle[e]]
        /\ victims' = [victims EXCEPT ![c] = Pooled \cap aged]
        /\ idle_total' = idle_total
    BY <1>2 DEF Reclaim
  <2>2. Queued' \cup (Pooled \cap aged) = Queued
    BY <2>1 DEF IInv, TypeOK, Apart, Queued, Pooled, Listed
  <2>3. Uncounted' = Uncounted \cup (Pooled \cap aged)
    BY <1>1, <2>1 DEF IInv, TypeOK, Uncounted
  <2> QED
    BY <2>1, <2>2, <2>3, SameCounted DEF Counted
<1>3. CASE Cut(c)
  <2>1. PICK out \in SUBSET Pooled :
            /\ idle' = [e \in Entries |-> idle[e] \ out]
            /\ victims' = [victims EXCEPT ![c] = out]
            /\ idle_total' = idle_total
    BY <1>3 DEF Cut, Cuts
  <2>2. Queued' \cup out = Queued
    BY <2>1 DEF IInv, TypeOK, Apart, Queued, Pooled, Listed
  <2>3. Uncounted' = Uncounted \cup out
    BY <1>1, <2>1 DEF IInv, TypeOK, Uncounted
  <2> QED
    BY <2>1, <2>2, <2>3, SameCounted DEF Counted
<1>4. CASE Empty(c)
  <2>1. PICK e \in Entries :
            /\ idle' = [idle EXCEPT ![e] = {}]
            /\ victims' = [victims EXCEPT ![c] = idle[e]]
            /\ idle_total' = idle_total
    BY <1>4 DEF Empty, IInv, Pointers, HasPermit
  <2>2. Queued' \cup idle[e] = Queued
    BY <2>1 DEF IInv, TypeOK, Queued
  <2>3. Uncounted' = Uncounted \cup idle[e]
    BY <1>1, <2>1 DEF IInv, TypeOK, Uncounted
  <2> QED
    BY <2>1, <2>2, <2>3, SameCounted DEF Counted
<1> QED
  BY <1>2, <1>3, <1>4

LEMMA OtherCounted ==
    ASSUME IInv, IdleAccounted, [Next]_vars,
           \A c \in Callers : ~(Pop(c) \/ Uncount(c) \/ Requeue(c) \/ Reclaim(c) \/ Cut(c) \/ Empty(c))
    PROVE  IdleAccounted'
<1>1. UNCHANGED <<idle, victims, idle_total>>
  BY DEF Next, Proceed, vars, Acquire, Find, Create, Permit, Check, Connect, ConnectFails,
     ExchangeFails, ExchangeSucceeds, GiveUp, Release, Unpermit, Measure, Discard, Age
<1>2. Counted' = Counted
  BY <1>1 DEF Counted, Queued, Uncounted
<1> QED
  BY <1>1, <1>2, SameCounted

\* The counter is the number of the queued connections and of those a sweep has taken out
\* but not subtracted yet: it never saturates.
THEOREM CounterExact == Spec => []IdleAccounted
<1>1. Init => IdleAccounted
  <2> SUFFICES ASSUME Init PROVE IdleAccounted
    OBVIOUS
  <2>1. Queued \cup Uncounted = {}
    BY DEF Init, Queued, Uncounted
  <2> QED
    BY <2>1, FS_EmptySet DEF Init, IdleAccounted
<1>2. IInv /\ IdleAccounted /\ [Next]_vars => IdleAccounted'
  BY PopCounted, UncountCounted, RequeueCounted, SweepCounted, OtherCounted
<1> QED
  BY <1>1, <1>2, InitIInv, StepIInv, PTL DEF Spec

-----------------------------------------------------------------------------
(* OpenBounded *)

\* The holders of a slot that have a connection or are about to make one.
Openers(e) == {c \in Holders(e) : pc[c] \notin {"check", "pop", "unpermit"}}

Bounded(e) == Cardinality(idle[e]) + Cardinality(Openers(e)) <= MAX_CONN

LEMMA OpenersFinite ==
    ASSUME IInv, NEW e \in Entries
    PROVE  /\ IsFiniteSet(Openers(e)) /\ Cardinality(Openers(e)) \in Nat
           /\ Cardinality(Openers(e)) <= MAX_CONN
           /\ IsFiniteSet(idle[e]) /\ Cardinality(idle[e]) \in Nat
<1>1. /\ IsFiniteSet(Holders(e)) /\ Cardinality(Holders(e)) \in Nat
      /\ IsFiniteSet(idle[e]) /\ Cardinality(idle[e]) \in Nat
  BY Finite DEF IInv
<1>2. /\ IsFiniteSet(Openers(e)) /\ Cardinality(Openers(e)) \in Nat
      /\ Cardinality(Openers(e)) <= Cardinality(Holders(e))
  BY <1>1, FS_Subset, FS_CardinalityType DEF Openers
<1>3. permits[e] \in Nat /\ permits[e] + Cardinality(Holders(e)) = MAX_CONN
  BY LimitsAssumption DEF IInv, TypeOK, SlotsAccounted
<1> QED
  BY <1>1, <1>2, <1>3, LimitsAssumption

\* Fewer idle connections and no more openers.
LEMMA FewerOpen ==
    ASSUME IInv, IInv', NEW e \in Entries, Bounded(e),
           idle'[e] \subseteq idle[e], Openers(e)' \subseteq Openers(e)
    PROVE  Bounded(e)'
<1>1. Cardinality(idle'[e]) <= Cardinality(idle[e]) /\ Cardinality(idle'[e]) \in Nat
  BY OpenersFinite, FS_Subset, FS_CardinalityType
<1>2. Cardinality(Openers(e)') <= Cardinality(Openers(e)) /\ Cardinality(Openers(e)') \in Nat
  BY OpenersFinite, FS_Subset, FS_CardinalityType
<1> QED
  BY <1>1, <1>2, OpenersFinite, LimitsAssumption DEF Bounded

LEMMA PopOpen ==
    ASSUME IInv, IInv', NEW c \in Callers, Pop(c), NEW f \in Entries, Bounded(f)
    PROVE  Bounded(f)'
<1>1. PICK e \in Entries : e = ent[c]
  BY DEF IInv, Pointers, HasPermit, Pop
<1>2. CASE f # e
  <2>1. idle'[f] = idle[f] /\ Openers(f)' = Openers(f)
    BY <1>1, <1>2 DEF Pop, Goto, IInv, TypeOK, Openers, Holders, HasPermit
  <2> QED
    BY <2>1 DEF Bounded
<1>3. CASE f = e /\ idle'[f] = {}
  <2>1. Cardinality(idle'[f]) = 0
    BY <1>3, FS_EmptySet
  <2>2. Cardinality(Openers(f)') \in Nat /\ Cardinality(Openers(f)') <= MAX_CONN
    <3>1. permits'[f] \in Nat /\ permits'[f] + Cardinality(Holders(f)') = MAX_CONN
      BY LimitsAssumption DEF IInv, TypeOK, SlotsAccounted
    <3>2. IsFiniteSet(Holders(f)') /\ Cardinality(Holders(f)') \in Nat
      <4>1. Holders(f)' \in SUBSET Callers
        BY DEF Holders
      <4> QED
        BY <4>1, SetsAssumption, FS_Subset, FS_CardinalityType
    <3>3. Openers(f)' \in SUBSET Holders(f)'
      BY DEF Openers
    <3>4. Cardinality(Openers(f)') \in Nat /\ Cardinality(Openers(f)') <= Cardinality(Holders(f)')
      BY <3>2, <3>3, FS_Subset, FS_CardinalityType
    <3> QED
      BY <3>1, <3>2, <3>4, LimitsAssumption
  <2> QED
    BY <2>1, <2>2 DEF Bounded
<1>4. ASSUME f = e, NEW x \in idle[e],
             idle' = [idle EXCEPT ![e] = (idle[e] \ aged) \ {x}]
      PROVE  Bounded(f)'
  <2>1. c \notin Openers(f) /\ Openers(f)' \subseteq Openers(f) \cup {c}
    BY <1>1, <1>4 DEF Pop, Goto, IInv, TypeOK, Openers, Holders, HasPermit
  <2>2. Cardinality(Openers(f)') \in Nat /\ Cardinality(Openers(f)') <= Cardinality(Openers(f)) + 1
    <3>1. /\ IsFiniteSet(Openers(f) \cup {c})
          /\ Cardinality(Openers(f) \cup {c}) = Cardinality(Openers(f)) + 1
      BY <2>1, OpenersFinite, FS_AddElement
    <3> QED
      BY <2>1, <3>1, FS_Subset, FS_CardinalityType
  <2>3. idle'[f] \in SUBSET (idle[f] \ {x})
    BY <1>4 DEF IInv, TypeOK
  <2>4. Cardinality(idle'[f]) \in Nat /\ Cardinality(idle'[f]) <= Cardinality(idle[f]) - 1
    <3>1. /\ IsFiniteSet(idle[f] \ {x})
          /\ Cardinality(idle[f] \ {x}) = Cardinality(idle[f]) - 1
      BY <1>4, OpenersFinite, FS_RemoveElement
    <3> QED
      BY <2>3, <3>1, FS_Subset, FS_CardinalityType
  <2> QED
    BY <2>2, <2>4, OpenersFinite, LimitsAssumption DEF Bounded
<1> QED
  BY <1>1, <1>2, <1>3, <1>4 DEF Pop, IInv, TypeOK

LEMMA RequeueOpen ==
    ASSUME IInv, IInv', NEW c \in Callers, Requeue(c), NEW f \in Entries, Bounded(f)
    PROVE  Bounded(f)'
<1>1. PICK e \in Entries : e = ent[c]
  BY DEF IInv, Pointers, HasPermit, Requeue
<1>2. CASE f # e
  <2>1. idle'[f] = idle[f] /\ Openers(f)' = Openers(f)
    BY <1>1, <1>2 DEF Requeue, Goto, IInv, TypeOK, Openers, Holders, HasPermit
  <2> QED
    BY <2>1 DEF Bounded
<1>3. CASE f = e
  <2>1. c \in Openers(f) /\ Openers(f)' = Openers(f) \ {c}
    BY <1>1, <1>3 DEF Requeue, Goto, IInv, TypeOK, Openers, Holders, HasPermit
  <2>2. Cardinality(Openers(f)') = Cardinality(Openers(f)) - 1
    BY <2>1, OpenersFinite, FS_RemoveElement
  <2>3. idle'[f] \in SUBSET (idle[f] \cup {held[c]})
    BY <1>1, <1>3 DEF Requeue, Oldest, IInv, TypeOK
  <2>4. Cardinality(idle'[f]) \in Nat /\ Cardinality(idle'[f]) <= Cardinality(idle[f]) + 1
    <3>1. /\ IsFiniteSet(idle[f] \cup {held[c]})
          /\ Cardinality(idle[f] \cup {held[c]}) \in Nat
          /\ Cardinality(idle[f] \cup {held[c]}) <= Cardinality(idle[f]) + 1
      <4>1. IsFiniteSet(idle[f]) /\ Cardinality(idle[f]) \in Nat
        BY OpenersFinite
      <4> DEFINE I == idle[f]
                 h == held[c]
      <4> HIDE DEF I, h
      <4>2. /\ IsFiniteSet(I \cup {h})
            /\ Cardinality(I \cup {h}) \in {Cardinality(I), Cardinality(I) + 1}
        BY <4>1, FS_AddElement DEF I
      <4> QED
        BY <4>1, <4>2 DEF I, h
    <3>2. Cardinality(idle'[f]) \in Nat /\ Cardinality(idle'[f]) <= Cardinality(idle[f] \cup {held[c]})
      BY <2>3, <3>1, FS_Subset, FS_CardinalityType
    <3> QED
      BY <3>1, <3>2, OpenersFinite
  <2> QED
    BY <2>2, <2>4, OpenersFinite, LimitsAssumption DEF Bounded
<1> QED
  BY <1>2, <1>3

\* An entry is listed by the step that makes it only, which leaves it empty.
LEMMA NewlyListed ==
    ASSUME IInv, IInv', [Next]_vars, NEW e \in Entries, e \in Listed', e \notin Listed
    PROVE  Bounded(e)'
<1>1. PICK c \in Callers : Create(c, e)
  <2>1. ASSUME NEW c \in Callers, NEW k \in Keys, Discard(c, k) PROVE FALSE
    BY <2>1, NonesAssumption DEF Discard, Listed, IInv, TypeOK
  <2>2. ASSUME NEW c \in Callers, NEW f \in Entries, Create(c, f) PROVE f = e
    BY <2>2 DEF Create, Listed, IInv, TypeOK
  <2>3. CASE table' = table
    BY <2>3 DEF Listed
  <2>4. table' = table \/ \E c \in Callers :
            \/ \E k \in Keys : Discard(c, k)
            \/ \E f \in Entries : Create(c, f)
    BY DEF Next, Proceed, vars, table_vars, Acquire, Find, Permit, Check, Pop, Connect,
       ConnectFails, ExchangeFails, ExchangeSucceeds, GiveUp, Release, Requeue, Unpermit,
       Reclaim, Measure, Cut, Uncount, Empty, Age
  <2> QED
    BY <2>1, <2>2, <2>3, <2>4
<1>2. idle'[e] = {} /\ Openers(e)' = {}
  BY <1>1, NonesAssumption
     DEF Create, Goto, IInv, TypeOK, UnusedFresh, Openers, Holders, HasPermit
<1> QED
  BY <1>2, FS_EmptySet, LimitsAssumption DEF Bounded

LEMMA OtherOpen ==
    ASSUME IInv, [Next]_vars, NEW e \in Entries, e \in Listed,
           \A c \in Callers : ~(Pop(c) \/ Requeue(c))
    PROVE  idle'[e] \subseteq idle[e] /\ Openers(e)' \subseteq Openers(e)
<1> USE NonesAssumption
<1>1. ~discarded[e]
  BY DEF IInv, TableSound, Listed
<1>2. idle'[e] \subseteq idle[e]
  <2>1. ASSUME NEW c \in Callers, Reclaim(c) \/ Cut(c) \/ Empty(c) PROVE idle'[e] \subseteq idle[e]
    BY <2>1 DEF IInv, TypeOK, Reclaim, Cut, Empty
  <2>2. idle' = idle \/ \E c \in Callers : Reclaim(c) \/ Cut(c) \/ Empty(c)
    BY DEF Next, Proceed, vars, Acquire, Find, Create, Permit, Check, Connect, ConnectFails,
       ExchangeFails, ExchangeSucceeds, GiveUp, Release, Unpermit, Measure, Uncount, Discard, Age
  <2> QED
    BY <2>1, <2>2
<1> DEFINE Shrinks == Openers(e)' \subseteq Openers(e)
<1> USE DEF Openers, Holders, HasPermit, Goto
<1>3. ASSUME NEW c \in Callers, NEW k \in Keys, Acquire(c, k) \/ Discard(c, k) PROVE Shrinks
  BY <1>3 DEF IInv, TypeOK, Acquire, Discard
<1>4. ASSUME NEW c \in Callers, NEW x \in Conns, Connect(c, x) PROVE Shrinks
  BY <1>4 DEF IInv, TypeOK, Connect
<1>5. ASSUME NEW c \in Callers, Proceed(c) PROVE Shrinks
  <2>1. CASE Find(c) \/ Permit(c) \/ Check(c)
    BY <1>1, <2>1 DEF IInv, TypeOK, Find, Permit, Check
  <2>2. CASE ConnectFails(c) \/ ExchangeFails(c) \/ ExchangeSucceeds(c)
    BY <2>2 DEF IInv, TypeOK, ConnectFails, ExchangeFails, ExchangeSucceeds
  <2>3. CASE Release(c) \/ Unpermit(c) \/ Reclaim(c)
    BY <2>3 DEF IInv, TypeOK, Release, Unpermit, Reclaim
  <2>4. CASE Measure(c) \/ Cut(c) \/ Uncount(c) \/ Empty(c)
    BY <2>4 DEF IInv, TypeOK, Measure, Cut, Uncount, Empty, AfterUncount, AfterTrim
  <2>5. CASE \E f \in Entries : Create(c, f)
    BY <2>5 DEF IInv, TypeOK, Create
  <2> QED
    BY <1>5, <2>1, <2>2, <2>3, <2>4, <2>5 DEF Proceed
<1>6. ASSUME NEW c \in Callers, GiveUp(c) PROVE Shrinks
  BY <1>6 DEF IInv, TypeOK, GiveUp
<1>7. CASE UNCHANGED vars \/ \E x \in Conns : Age(x)
  BY <1>7 DEF vars, Age, call_vars
<1>8. Shrinks
  BY <1>3, <1>4, <1>5, <1>6, <1>7 DEF Next
<1> QED
  BY <1>2, <1>8

\* A key has at most MAX_CONN connections, idle and in use together.
LEMMA OpenConnectionsBounded == Spec => []OpenBounded
<1>1. OpenBounded <=> \A e \in Listed : Bounded(e)
  BY DEF OpenBounded, Bounded, Openers
<1>2. Init => OpenBounded
  BY NonesAssumption DEF Init, OpenBounded, Listed
<1>3. IInv /\ OpenBounded /\ [Next]_vars => OpenBounded'
  <2> SUFFICES ASSUME IInv, OpenBounded, [Next]_vars PROVE OpenBounded'
    OBVIOUS
  <2>1. IInv'
    BY StepIInv
  <2>2. ASSUME NEW e \in Entries, e \in Listed' PROVE Bounded(e)'
    <3>1. CASE e \notin Listed
      BY <2>1, <2>2, <3>1, NewlyListed
    <3>2. CASE e \in Listed
      <4>1. Bounded(e)
        BY <1>1, <3>2
      <4>2. CASE \E c \in Callers : Pop(c) \/ Requeue(c)
        BY <2>1, <4>1, <4>2, PopOpen, RequeueOpen
      <4>3. CASE \A c \in Callers : ~(Pop(c) \/ Requeue(c))
        BY <2>1, <3>2, <4>1, <4>3, OtherOpen, FewerOpen
      <4> QED
        BY <4>2, <4>3
    <3> QED
      BY <3>1, <3>2
  <2>3. Listed' \subseteq Entries
    BY DEF Listed
  <2> QED
    BY <2>2, <2>3 DEF OpenBounded, Bounded, Openers
<1> QED
  BY <1>2, <1>3, InitIInv, StepIInv, PTL DEF Spec

-----------------------------------------------------------------------------
(* IdleBounded *)

\* The calls that are still to trim.
Trimming == {c \in Callers : pc[c] \in {"unpermit", "measure", "cut"}}

LEMMA PooledFinite ==
    ASSUME TypeOK
    PROVE  /\ IsFiniteSet(Pooled) /\ Cardinality(Pooled) \in Nat
           /\ IsFiniteSet(Trimming) /\ Cardinality(Trimming) \in Nat
           /\ Pooled \subseteq Counted
<1>1. Pooled \in SUBSET Conns /\ Trimming \in SUBSET Callers
  BY DEF Pooled, Listed, Trimming, TypeOK
<1>2. Pooled \subseteq Counted
  BY DEF Pooled, Listed, Counted, Queued
<1> QED
  BY <1>1, <1>2, SetsAssumption, FS_Subset, FS_CardinalityType

LEMMA PooledFinitePrimed ==
    ASSUME IInv'
    PROVE  /\ IsFiniteSet(Pooled') /\ Cardinality(Pooled') \in Nat
           /\ IsFiniteSet(Trimming') /\ Cardinality(Trimming') \in Nat
<1>1. Pooled' \in SUBSET Conns /\ Trimming' \in SUBSET Callers
  BY DEF IInv, Pooled, Listed, Trimming, TypeOK
<1> QED
  BY <1>1, SetsAssumption, FS_Subset, FS_CardinalityType

LEMMA FewerPooled ==
    ASSUME IInv, IInv', IdleBounded, Pooled' \subseteq Pooled, Trimming \subseteq Trimming'
    PROVE  IdleBounded'
<1>1. /\ IsFiniteSet(Pooled) /\ Cardinality(Pooled) \in Nat
      /\ IsFiniteSet(Trimming') /\ Cardinality(Trimming') \in Nat /\ Cardinality(Pooled') \in Nat
      /\ Cardinality(Trimming) \in Nat
  BY PooledFinite, PooledFinitePrimed DEF IInv
<1>2. Cardinality(Pooled') <= Cardinality(Pooled) /\ Cardinality(Trimming) <= Cardinality(Trimming')
  BY <1>1, FS_Subset
<1> QED
  BY <1>1, <1>2, LimitsAssumption DEF IdleBounded, Trimming

\* A connection comes back, and with it a call that is to trim.
LEMMA RequeuePooled ==
    ASSUME IInv, IInv', IdleBounded, NEW c \in Callers, Requeue(c)
    PROVE  IdleBounded'
<1>1. Pooled' \in SUBSET (Pooled \cup {held[c]})
  BY DEF Requeue, Oldest, IInv, TypeOK, Pointers, HasPermit, Pooled, Listed, table_vars
<1>2. Trimming' = Trimming \cup {c} /\ c \notin Trimming
  BY DEF Requeue, Goto, Trimming, IInv, TypeOK
<1>3. /\ IsFiniteSet(Pooled) /\ Cardinality(Pooled) \in Nat /\ IsFiniteSet(Trimming)
      /\ Cardinality(Trimming) \in Nat /\ Cardinality(Pooled') \in Nat
  BY PooledFinite, PooledFinitePrimed DEF IInv
<1>4. Cardinality(Trimming') = Cardinality(Trimming) + 1
  BY <1>2, <1>3, FS_AddElement
<1>5. /\ IsFiniteSet(Pooled \cup {held[c]})
      /\ Cardinality(Pooled \cup {held[c]}) \in Nat
      /\ Cardinality(Pooled \cup {held[c]}) <= Cardinality(Pooled) + 1
  <2>1. IsFiniteSet(Pooled) /\ Cardinality(Pooled) \in Nat
    BY <1>3
  <2> QED
    BY <2>1, FS_AddElement
<1>6. Cardinality(Pooled') <= Cardinality(Pooled \cup {held[c]})
  BY <1>1, <1>5, FS_Subset
<1> QED
  BY <1>3, <1>4, <1>5, <1>6, LimitsAssumption DEF IdleBounded, Trimming

\* A call trims nothing only when the counter, which is exact, is within the limit.
LEMMA MeasurePooled ==
    ASSUME IInv, IInv', IdleBounded, IdleAccounted, NEW c \in Callers, Measure(c)
    PROVE  IdleBounded'
<1>1. Pooled' = Pooled
  BY DEF Measure, Pooled, Listed, table_vars
<1>2. CASE idle_total > MAX_TOTAL_IDLE
  <2>1. Trimming \subseteq Trimming'
    BY <1>2, LimitsAssumption DEF Measure, Goto, Trimming, IInv, TypeOK
  <2> QED
    BY <1>1, <2>1, FewerPooled
<1>3. CASE ~(idle_total > MAX_TOTAL_IDLE)
  <2>1. idle_total <= MAX_TOTAL_IDLE /\ idle_total \in Nat
    BY <1>3, LimitsAssumption DEF IInv, TypeOK
  <2>2. Cardinality(Counted) = idle_total /\ IsFiniteSet(Counted)
    BY CountedFinite DEF IdleAccounted, Counted
  <2>3. Cardinality(Pooled) <= Cardinality(Counted)
    BY <2>2, PooledFinite, FS_Subset DEF IInv
  <2>4. Cardinality(Pooled') \in Nat /\ Cardinality(Trimming') \in Nat
    BY PooledFinitePrimed
  <2> QED
    BY <1>1, <2>1, <2>2, <2>3, <2>4, LimitsAssumption DEF IdleBounded, Trimming
<1> QED
  BY <1>2, <1>3

\* A call that trims closes at least one connection, if there is one.
LEMMA CutPooled ==
    ASSUME IInv, IInv', IdleBounded, NEW c \in Callers, Cut(c)
    PROVE  IdleBounded'
<1>1. PICK out \in SUBSET Pooled :
        /\ Cardinality(out) = Min({excess[c], Cardinality(Pooled)})
        /\ idle' = [e \in Entries |-> idle[e] \ out]
  BY DEF Cut, Cuts
<1>2. Pooled' = Pooled \ out
  BY <1>1 DEF Cut, Pooled, Listed, table_vars
<1>3. Trimming' = Trimming \ {c} /\ c \in Trimming
  BY DEF Cut, Goto, Trimming, IInv, TypeOK
<1>4. /\ IsFiniteSet(Pooled) /\ Cardinality(Pooled) \in Nat /\ IsFiniteSet(Trimming)
      /\ Cardinality(Trimming) \in Nat
  BY PooledFinite DEF IInv
<1>5. excess[c] \in Nat /\ excess[c] > 0
  BY DEF Cut, IInv, TypeOK, Pointers
<1>6. Cardinality(out) > 0 \/ Cardinality(out) = Cardinality(Pooled)
  BY <1>1, <1>4, <1>5 DEF Min
<1>7. Cardinality(out) \in Nat /\ Cardinality(Pooled \ out) = Cardinality(Pooled) - Cardinality(out)
  <2>1. Pooled \cap out = out
    OBVIOUS
  <2> QED
    BY <1>4, <2>1, FS_Difference, FS_Subset, FS_CardinalityType
<1>8. Cardinality(Trimming') = Cardinality(Trimming) - 1 /\ Cardinality(Trimming') \in Nat
  BY <1>3, <1>4, FS_RemoveElement, PooledFinitePrimed
<1> QED
  BY <1>2, <1>4, <1>6, <1>7, <1>8, LimitsAssumption DEF IdleBounded, Trimming

LEMMA OtherPooled ==
    ASSUME IInv, [Next]_vars, \A c \in Callers : ~(Requeue(c) \/ Measure(c) \/ Cut(c))
    PROVE  Pooled' \subseteq Pooled /\ Trimming \subseteq Trimming'
<1> DEFINE Shrinks == Pooled' \subseteq Pooled
           Grows == Trimming \subseteq Trimming'
<1>1. Shrinks
  <2> USE DEF Pooled, Listed
  <2>1. ASSUME NEW c \in Callers, NEW k \in Keys, Discard(c, k) PROVE Shrinks
    <3>1. Listed' \subseteq Listed /\ idle' = idle
      BY <2>1, NonesAssumption DEF Discard, IInv, TypeOK
    <3> QED
      BY <3>1
  <2>2. ASSUME NEW c \in Callers, NEW e \in Entries, Create(c, e) PROVE Shrinks
    BY <2>2 DEF Create, IInv, TypeOK, UnusedFresh
  <2>3. ASSUME NEW c \in Callers, Pop(c) PROVE Shrinks
    <3>1. PICK e \in Entries : e = ent[c]
      BY <2>3 DEF Pop, IInv, Pointers, HasPermit
    <3>2. PICK S \in SUBSET idle[e] : idle' = [idle EXCEPT ![e] = S]
      BY <2>3, <3>1 DEF Pop
    <3>3. \A f \in Entries : idle'[f] \subseteq idle[f]
      BY <3>2 DEF IInv, TypeOK
    <3>4. Listed' = Listed /\ Listed \subseteq Entries
      BY <2>3 DEF Pop, table_vars
    <3> QED
      BY <3>3, <3>4
  <2>4. ASSUME NEW c \in Callers, Reclaim(c) \/ Empty(c) PROVE Shrinks
    BY <2>4 DEF Reclaim, Empty, IInv, TypeOK, table_vars
  <2>5. CASE table' = table /\ idle' = idle
    BY <2>5
  <2>6. \/ table' = table /\ idle' = idle
        \/ \E c \in Callers :
              \/ Pop(c) \/ Reclaim(c) \/ Empty(c)
              \/ \E k \in Keys : Discard(c, k)
              \/ \E e \in Entries : Create(c, e)
    BY DEF Next, Proceed, vars, table_vars, Acquire, Find, Permit, Check, Connect, ConnectFails,
       ExchangeFails, ExchangeSucceeds, GiveUp, Release, Unpermit, Uncount, Age
  <2> QED
    BY <2>1, <2>2, <2>3, <2>4, <2>5, <2>6
<1>2. Grows
  <2> USE DEF Trimming, Goto
  <2>1. ASSUME NEW c \in Callers, NEW k \in Keys, Acquire(c, k) \/ Discard(c, k) PROVE Grows
    BY <2>1 DEF IInv, TypeOK, Acquire, Discard
  <2>2. ASSUME NEW c \in Callers, NEW x \in Conns, Connect(c, x) PROVE Grows
    BY <2>2 DEF IInv, TypeOK, Connect
  <2>3. ASSUME NEW c \in Callers, Proceed(c) PROVE Grows
    <3>1. CASE Find(c) \/ Permit(c) \/ Check(c) \/ \E e \in Entries : Create(c, e)
      BY <3>1 DEF IInv, TypeOK, Find, Permit, Check, Create
    <3>2. CASE ConnectFails(c) \/ ExchangeFails(c) \/ ExchangeSucceeds(c)
      BY <3>2 DEF IInv, TypeOK, ConnectFails, ExchangeFails, ExchangeSucceeds
    <3>3. CASE Release(c) \/ Unpermit(c) \/ Pop(c)
      BY <3>3 DEF IInv, TypeOK, Release, Unpermit, Pop
    <3>4. CASE Reclaim(c) \/ Uncount(c) \/ Empty(c)
      BY <3>4 DEF IInv, TypeOK, Reclaim, Uncount, Empty, AfterUncount, AfterTrim
    <3> QED
      BY <2>3, <3>1, <3>2, <3>3, <3>4 DEF Proceed
  <2>4. ASSUME NEW c \in Callers, GiveUp(c) PROVE Grows
    BY <2>4 DEF IInv, TypeOK, GiveUp
  <2>5. CASE UNCHANGED vars \/ \E x \in Conns : Age(x)
    BY <2>5 DEF vars, Age, call_vars
  <2> QED
    BY <2>1, <2>2, <2>3, <2>4, <2>5 DEF Next
<1> QED
  BY <1>1, <1>2

\* The pool holds at most MAX_TOTAL_IDLE idle connections and one for each call that is
\* still to trim.
LEMMA IdleConnectionsBounded == Spec => []IdleBounded
<1>1. Init => IdleBounded
  <2> SUFFICES ASSUME Init PROVE IdleBounded
    OBVIOUS
  <2>1. Pooled = {} /\ Trimming = {}
    BY NonesAssumption DEF Init, Pooled, Listed, Trimming
  <2> QED
    BY <2>1, FS_EmptySet, LimitsAssumption DEF IdleBounded, Trimming
<1>2. IInv /\ IInv' /\ IdleAccounted /\ IdleBounded /\ [Next]_vars => IdleBounded'
  BY RequeuePooled, MeasurePooled, CutPooled, OtherPooled, FewerPooled
<1> QED
  BY <1>1, <1>2, InitIInv, StepIInv, CounterExact, PTL DEF Spec

\* However calls overlap, the pool keeps both of its limits: idle connections in all, and
\* connections of a key.
THEOREM PoolBounded == Spec => []ConnectionsBounded
<1>1. IdleBounded /\ OpenBounded => ConnectionsBounded
  BY DEF ConnectionsBounded
<1> QED
  BY <1>1, IdleConnectionsBounded, OpenConnectionsBounded, PTL

-----------------------------------------------------------------------------
(* The refinement *)

\* An instance has operators of its own of the modules it extends.
LEMMA SameCardinality == \A S : Use!Cardinality(S) = Cardinality(S)
BY DEF Cardinality, Use!Cardinality

\* A caller that uses no connection, although it holds a slot, leaves room for one more.
LEMMA RoomForOneMore ==
    ASSUME IInv, NEW c \in Callers, held[c] = NoConn, pc[c] \in HasPermit
    PROVE  /\ ent[c] \in Entries
           /\ Cardinality(Use!InUse(ent[c])) < MAX_CONN
<1>1. PICK e \in Entries : e = ent[c] /\ c \in Holders(e)
  BY DEF IInv, Pointers, Holders
<1>2. Use!InUse(e) \in SUBSET (Holders(e) \ {c})
  BY NonesAssumption DEF Use!InUse, At, IInv, TypeOK, Pointers, Holders, HasPermit
<1>3. IsFiniteSet(Holders(e)) /\ Cardinality(Holders(e)) \in Nat
  BY Finite DEF IInv
<1>4. /\ IsFiniteSet(Holders(e) \ {c})
      /\ Cardinality(Holders(e) \ {c}) = Cardinality(Holders(e)) - 1
  BY <1>1, <1>3, FS_RemoveElement
<1>5. /\ Cardinality(Use!InUse(e)) \in Nat
      /\ Cardinality(Use!InUse(e)) <= Cardinality(Holders(e)) - 1
  BY <1>2, <1>4, FS_Subset, FS_CardinalityType
<1>6. permits[e] \in Nat /\ permits[e] + Cardinality(Holders(e)) = MAX_CONN
  BY LimitsAssumption DEF IInv, TypeOK, SlotsAccounted
<1> QED
  BY <1>1, <1>3, <1>5, <1>6, LimitsAssumption

LEMMA ConnectUse ==
    ASSUME IInv, NEW c \in Callers, NEW x \in Conns, Connect(c, x)
    PROVE  Use!Next
<1> USE NonesAssumption
<1>1. held[c] = NoConn /\ ent[c] \in Entries /\ Cardinality(Use!InUse(ent[c])) < MAX_CONN
  BY RoomForOneMore DEF Connect, IInv, Pointers, HasPermit
<1>2. At' = [At EXCEPT ![c] = ent[c]]
  BY DEF At, Connect, IInv, TypeOK
<1>3. \A f \in Entries : x \notin idle[f]
  BY DEF Connect, Open, Queued
<1>4. \A d \in Callers : x # held[d]
  BY DEF Connect, Open
<1>5. held' = [held EXCEPT ![c] = x] /\ idle' = idle
  BY DEF Connect
<1>6. Use!Open(c, ent[c], x)
  BY <1>1, <1>2, <1>3, <1>4, <1>5, SameCardinality DEF Use!Open, Use!Use
<1> QED
  BY <1>1, <1>6 DEF Use!Next

LEMMA PopUse ==
    ASSUME IInv, NEW c \in Callers, Pop(c)
    PROVE  Use!Next
<1> USE NonesAssumption
<1>1. PICK e \in Entries : e = ent[c]
  BY DEF IInv, Pointers, HasPermit, Pop
<1>2. held[c] = NoConn /\ Cardinality(Use!InUse(e)) < MAX_CONN /\ ent' = ent
  BY <1>1, RoomForOneMore DEF Pop, IInv, Pointers, HasPermit
<1>3. CASE idle' = [idle EXCEPT ![e] = {}] /\ held' = held
  <2>1. At' = At
    BY <1>2, <1>3 DEF At
  <2>2. Use!CloseIdle
    BY <1>3, <2>1 DEF Use!CloseIdle, IInv, TypeOK
  <2> QED
    BY <2>2 DEF Use!Next
<1>4. ASSUME NEW x \in idle[e] \ aged,
             idle' = [idle EXCEPT ![e] = (idle[e] \ aged) \ {x}],
             held' = [held EXCEPT ![c] = x]
      PROVE  Use!Next
  <2>1. x \in Conns /\ x # NoConn
    BY DEF IInv, TypeOK
  <2>2. At' = [At EXCEPT ![c] = e]
    BY <1>1, <1>2, <1>4, <2>1 DEF At, IInv, TypeOK
  <2>3. Use!Use(c, e, x)
    BY <1>2, <1>4, <2>2, SameCardinality DEF Use!Use
  <2>4. Use!Reuse(c, e, x, (idle[e] \ aged) \ {x})
    BY <1>4, <2>3 DEF Use!Reuse
  <2> QED
    BY <2>1, <2>4 DEF Use!Next
<1> QED
  BY <1>1, <1>3, <1>4 DEF Pop

\* A call that lets its connection go without queueing it closes it.
LEMMA CloseUse ==
    ASSUME IInv, NEW c \in Callers, idle' = idle, held' = [held EXCEPT ![c] = NoConn],
           ent' = ent \/ ent' = [ent EXCEPT ![c] = NoEntry]
    PROVE  [Use!Next]_(Use!vars)
<1>1. At' = [At EXCEPT ![c] = NoEntry]
  BY DEF At, IInv, TypeOK
<1>2. CASE held[c] = NoConn
  <2>1. held' = held /\ At' = At
    BY <1>1, <1>2 DEF At, IInv, TypeOK
  <2> QED
    BY <2>1 DEF Use!vars
<1>3. CASE held[c] # NoConn
  BY <1>1, <1>3 DEF Use!Next, Use!Close, Use!LetGo
<1> QED
  BY <1>2, <1>3

LEMMA RequeueUse ==
    ASSUME IInv, NEW c \in Callers, Requeue(c)
    PROVE  Use!Next
<1> USE NonesAssumption, LimitsAssumption
<1>1. PICK e \in Entries : e = ent[c] /\ At[c] = e /\ held[c] # NoConn
  BY DEF IInv, Pointers, HasPermit, Requeue, At
<1>2. PICK out \in SUBSET idle[e] :
        /\ Cardinality(out) = Less(Cardinality(idle[e]) + 1, MAX_IDLE_PER_KEY)
        /\ idle' = [idle EXCEPT ![e] = (@ \ out) \cup {held[c]}]
  BY <1>1 DEF Requeue, Oldest
<1>3. IsFiniteSet(idle[e]) /\ Cardinality(idle[e]) \in Nat
  BY Finite DEF IInv
<1>4. Cardinality(idle[e] \ out) < MAX_CONN
  <2>1. idle[e] \cap out = out
    OBVIOUS
  <2>2. Cardinality(idle[e] \ out) = Cardinality(idle[e]) - Cardinality(out)
    BY <1>3, <2>1, FS_Difference
  <2> QED
    BY <1>2, <1>3, <2>2 DEF Less, MAX_IDLE_PER_KEY
<1>5. held' = [held EXCEPT ![c] = NoConn] /\ At' = [At EXCEPT ![c] = NoEntry]
  BY DEF Requeue, At, IInv, TypeOK
<1>6. idle' = [idle EXCEPT ![At[c]] = (idle[e] \ out) \cup {held[c]}]
  BY <1>1, <1>2
<1>7. Use!LetGo(c)
  BY <1>1, <1>5 DEF Use!LetGo
<1>8. Use!Keep(c, idle[e] \ out)
  BY <1>1, <1>4, <1>6, <1>7, SameCardinality DEF Use!Keep
<1> QED
  BY <1>1, <1>8 DEF Use!Next

LEMMA SweepUse ==
    ASSUME IInv, NEW c \in Callers, Reclaim(c) \/ Cut(c) \/ Empty(c)
    PROVE  Use!Next
<1>1. held' = held /\ At' = At
  BY DEF Reclaim, Cut, Empty, At, IInv, TypeOK, Pointers, HasPermit
<1>2. idle' \in [Entries -> SUBSET Conns] /\ \A e \in Entries : idle'[e] \subseteq idle[e]
  BY DEF Reclaim, Cut, Empty, IInv, TypeOK
<1>3. Use!CloseIdle
  BY <1>1, <1>2 DEF Use!CloseIdle
<1> QED
  BY <1>3 DEF Use!Next

\* A step that does not concern the connections.
LEMMA StutterUse ==
    ASSUME IInv, IInv', idle' = idle, held' = held,
           \A c \in Callers : held[c] # NoConn => ent'[c] = ent[c]
    PROVE  UNCHANGED Use!vars
<1>1. At' = At
  BY DEF At
<1> QED
  BY <1>1 DEF Use!vars

LEMMA StepUse == IInv /\ IInv' /\ [Next]_vars => [Use!Next]_(Use!vars)
<1> SUFFICES ASSUME IInv, IInv', [Next]_vars PROVE [Use!Next]_(Use!vars)
  OBVIOUS
<1>1. ASSUME NEW c \in Callers, NEW k \in Keys, Acquire(c, k) \/ Discard(c, k)
      PROVE  UNCHANGED Use!vars
  BY <1>1, StutterUse DEF Acquire, Discard, IInv, TypeOK, Pointers
<1>2. ASSUME NEW c \in Callers, NEW x \in Conns, Connect(c, x) PROVE Use!Next
  BY <1>2, ConnectUse
<1>3. ASSUME NEW c \in Callers, Proceed(c) PROVE [Use!Next]_(Use!vars)
  <2>1. CASE Find(c) \/ \E e \in Entries : Create(c, e)
    BY <2>1, StutterUse DEF Find, Create, IInv, TypeOK, Pointers
  <2>2. CASE Permit(c) \/ Check(c) \/ ConnectFails(c) \/ ExchangeSucceeds(c) \/ Measure(c) \/ Uncount(c)
    BY <2>2, StutterUse DEF Permit, Check, ConnectFails, ExchangeSucceeds, Measure, Uncount
  <2>3. CASE Unpermit(c)
    BY <2>3, StutterUse DEF Unpermit, IInv, TypeOK, Pointers
  <2>4. CASE Pop(c)
    BY <2>4, PopUse
  <2>5. CASE ExchangeFails(c)
    BY <2>5, CloseUse DEF ExchangeFails
  <2>6. CASE Release(c)
    BY <2>6, CloseUse, StutterUse DEF Release
  <2>7. CASE Requeue(c)
    BY <2>7, RequeueUse
  <2>8. CASE Reclaim(c) \/ Cut(c) \/ Empty(c)
    BY <2>8, SweepUse
  <2> QED
    BY <1>3, <2>1, <2>2, <2>3, <2>4, <2>5, <2>6, <2>7, <2>8 DEF Proceed
<1>4. ASSUME NEW c \in Callers, GiveUp(c) PROVE [Use!Next]_(Use!vars)
  BY <1>4, CloseUse DEF GiveUp
<1>5. ASSUME NEW x \in Conns, Age(x) PROVE UNCHANGED Use!vars
  BY <1>5, StutterUse DEF Age, call_vars
<1>6. CASE UNCHANGED vars
  BY <1>6, StutterUse DEF vars
<1> QED
  BY <1>1, <1>2, <1>3, <1>4, <1>5, <1>6 DEF Next

\* The pool implements ConnUse.
THEOREM PoolRefinesConnUse == Spec => ImplementsConnUse
<1>1. Init => Use!Init
  BY DEF Init, Use!Init, At
<1> QED
  BY <1>1, InitIInv, StepIInv, StepUse, PTL DEF Spec, ImplementsConnUse, Use!Spec
=============================================================================
