----------------------- MODULE RuleGeneration_proofs -----------------------
(***************************************************************************)
(* Proofs of the properties of RuleGeneration for all sets of editors,     *)
(* queries and texts and any number of rule sets.                          *)
(*                                                                         *)
(* As long as no rebuild overtakes another, the index is that of the       *)
(* newest rule set a rebuild was made for, or says the same, and so does   *)
(* what is noted of the last build; the disk is ahead of it only while an  *)
(* editor is on its way with the rules of the disk, or has failed with     *)
(* them, and the generation is another only while an editor is on its way  *)
(* to replace it (InOrder).  So what a query decides under the generation  *)
(* it has read is decided by rules that are in force, and stays so as long *)
(* as the generation does (Decided, Kept).                                 *)
(***************************************************************************)
EXTENDS RuleGeneration, TLAPS

\* Whatever has been read or built has been committed, and what it says does not change.
Committed ==
    /\ engine <= disk /\ newest <= disk
    /\ \A e \in Editors : snap[e] <= disk
    /\ \A n \in rule_src_fp : n <= disk
    /\ txn # NoEditor => disk > 0

OnItsWay(e) == epc[e] = "read" \/ (epc[e] \in {"build", "publish"} /\ snap[e] = disk)

Swapping(e, n) == epc[e] = "swap" /\ snap[e] = n

InOrder ==
    ~overtaken =>
        /\ engine <= newest /\ text[engine] = text[newest]
        /\ \A e \in Editors : epc[e] \in {"swap", "stamp"} => snap[e] <= engine
        /\ \A n \in rule_src_fp : text[n] = text[engine]
        /\ newest < disk /\ failed < disk => \E e \in Editors : OnItsWay(e)
        /\ rule_gen # text[engine] \/ (\E e \in Editors : epc[e] = "swap" /\ snap[e] # engine) =>
              \E e \in Editors : Swapping(e, engine)

Decided ==
    ~overtaken =>
        \A q \in Queries :
            pc[q] \in {"wait", "gate", "put", "register"} /\ rule[q] # Astray
                /\ entry_gen[q] = rule_gen => InForce(rule[q])

KeptIn(place) ==
    \A entry \in place : entry.rules # Astray /\ entry.stamp = rule_gen => InForce(entry.rules)

Kept == ~overtaken => KeptIn(cache) /\ KeptIn(names)

IInv == TypeOK /\ Committed /\ InOrder /\ Decided /\ Kept

-----------------------------------------------------------------------------
(* Steps of the rebuilds *)

\* What is in force after a step.
InForceNext(t) ==
    t = rule_gen' \/ \E e \in Editors : epc'[e] = "swap" /\ text'[snap'[e]] = t

\* A step that replaces no generation leaves in force what is in force.
LEMMA InForceStays ==
    ASSUME IInv,
           overtaken => overtaken', rule_gen' = rule_gen, store_vars' = store_vars,
           query_vars' = query_vars,
           \A e \in Editors : epc[e] = "swap" =>
               epc'[e] = "swap" /\ snap'[e] = snap[e] /\ text'[snap[e]] = text[snap[e]]
    PROVE  Decided' /\ Kept'
<1>1. \A t : InForce(t) => InForceNext(t)
  BY DEF InForce, InForceNext
<1>2. /\ pc' = pc /\ rule' = rule /\ entry_gen' = entry_gen
      /\ cache' = cache /\ names' = names
  BY DEF store_vars, query_vars
<1> QED
  BY <1>1, <1>2 DEF IInv, Decided, Kept, KeptIn, InForce, InForceNext

LEMMA CommitKeeps ==
    ASSUME IInv, NEW t \in Texts, Commit(t)
    PROVE  /\ disk' = disk + 1 /\ disk \in Nat /\ disk' \in RuleSets /\ text' \in [RuleSets -> Texts]
           /\ \A n \in RuleSets : n <= disk => text'[n] = text[n]
BY NumbersAssumption DEF IInv, TypeOK, RuleSets, Commit

LEMMA ChangeIInv ==
    ASSUME IInv, NEW e \in Editors, Change(e) \/ Put(e)
    PROVE  IInv'
<1> USE NonesAssumption
<1>1. PICK t \in Texts : Commit(t)
  BY DEF Change, Put
<1>2. /\ disk' = disk + 1 /\ disk \in Nat /\ disk' \in RuleSets /\ text' \in [RuleSets -> Texts]
      /\ \A n \in RuleSets : n <= disk => text'[n] = text[n]
  BY <1>1, CommitKeeps
<1>3. /\ epc[e] = "idle" /\ epc' = [epc EXCEPT ![e] = "read"] /\ txn' \in {txn, e}
      /\ UNCHANGED <<index_vars, snap, undone, history_vars, store_vars, query_vars>>
  BY DEF Change, Put
<1>4. TypeOK'
  BY <1>2, <1>3 DEF IInv, TypeOK, Waiting, index_vars, history_vars, store_vars, query_vars
<1>5. Committed'
  <2>1. /\ engine' = engine /\ newest' = newest /\ snap' = snap /\ rule_src_fp' = rule_src_fp
        /\ {engine, newest} \subseteq Nat /\ snap \in [Editors -> Nat] /\ rule_src_fp \subseteq Nat
    BY <1>3 DEF IInv, TypeOK, RuleSets, index_vars, history_vars
  <2> QED
    BY <1>2, <2>1 DEF IInv, Committed
<1>6. InOrder'
  <2> SUFFICES ASSUME ~overtaken PROVE InOrder'
    BY <1>3 DEF InOrder, history_vars
  <2>1. /\ text'[engine] = text[engine] /\ text'[newest] = text[newest]
        /\ \A n \in rule_src_fp : text'[n] = text[n]
    BY <1>2 DEF IInv, TypeOK, RuleSets, Committed
  <2>2. epc'[e] = "read" /\ \A f \in Editors : f # e => epc'[f] = epc[f]
    BY <1>3 DEF IInv, TypeOK
  <2>3. /\ engine' = engine /\ newest' = newest /\ snap' = snap /\ rule_src_fp' = rule_src_fp
        /\ rule_gen' = rule_gen /\ \A f \in Editors : epc[f] = "swap" => f # e
    BY <1>3 DEF index_vars, history_vars
  <2>4. \E f \in Editors : OnItsWay(f)'
    BY <2>2 DEF OnItsWay
  <2> QED
    BY <2>1, <2>2, <2>3, <2>4 DEF IInv, InOrder, Swapping
<1>7. Decided' /\ Kept'
  <2>1. \A f \in Editors : epc[f] = "swap" =>
            epc'[f] = "swap" /\ snap'[f] = snap[f] /\ text'[snap[f]] = text[snap[f]]
    BY <1>2, <1>3 DEF IInv, TypeOK, Committed
  <2> QED
    BY <1>3, <2>1, InForceStays DEF index_vars, history_vars
<1> QED
  BY <1>4, <1>5, <1>6, <1>7 DEF IInv

\* The end of a call.
LEMMA FinishKeeps ==
    ASSUME IInv, NEW e \in Editors, Finish(e), pc' = pc, leader' = leader
    PROVE  /\ snap' \in [Editors -> RuleSets] /\ undone' \subseteq Editors
           /\ epc' \in [Editors -> {"idle", "read", "build", "publish", "swap", "stamp"}]
           /\ epc'[e] = "idle" /\ \A f \in Editors : f # e => epc'[f] = epc[f] /\ snap'[f] = snap[f]
           /\ snap'[e] = 0
           /\ txn' \in Editors \cup {NoEditor} /\ (txn' # NoEditor => epc'[txn'] # "idle" /\ txn' = txn)
BY NonesAssumption, NumbersAssumption DEF IInv, TypeOK, RuleSets, Finish

LEMMA SkipIInv ==
    ASSUME IInv, NEW e \in Editors, Skip(e)
    PROVE  IInv'
<1>1. /\ epc[e] \in {"idle", "read"} /\ newest' = disk /\ failed' \in {failed, 0}
      /\ UNCHANGED <<disk, text, index_vars, overtaken, store_vars, query_vars>>
  BY DEF Skip, Reads, Made
<1>2. PICK m \in rule_src_fp : text[m] = text[disk]
  BY DEF Skip, Known
<1>3. /\ snap' \in [Editors -> RuleSets] /\ undone' \subseteq Editors
      /\ epc' \in [Editors -> {"idle", "read", "build", "publish", "swap", "stamp"}]
      /\ epc'[e] = "idle" /\ \A f \in Editors : f # e => epc'[f] = epc[f] /\ snap'[f] = snap[f]
      /\ snap'[e] = 0
      /\ txn' \in Editors \cup {NoEditor} /\ (txn' # NoEditor => epc'[txn'] # "idle" /\ txn' = txn)
  BY <1>1, FinishKeeps DEF Skip, query_vars
<1>4. TypeOK'
  BY <1>1, <1>3, NumbersAssumption
     DEF IInv, TypeOK, RuleSets, Waiting, index_vars, store_vars, query_vars
<1>5. Committed'
  <2>1. engine' = engine /\ rule_src_fp' = rule_src_fp /\ disk \in Nat
    BY <1>1 DEF IInv, TypeOK, RuleSets, index_vars
  <2> QED
    BY <1>1, <1>3, <2>1 DEF IInv, Committed
<1>6. InOrder'
  <2> SUFFICES ASSUME ~overtaken PROVE InOrder'
    BY <1>1 DEF InOrder
  <2>1. /\ engine' = engine /\ rule_gen' = rule_gen /\ rule_src_fp' = rule_src_fp
        /\ text' = text /\ disk' = disk
    BY <1>1 DEF index_vars
  <2>2. engine <= disk /\ disk \in Nat /\ ~(disk < disk)
    BY DEF IInv, TypeOK, RuleSets, Committed
  <2>3. text[engine] = text[disk]
    BY <1>2 DEF IInv, InOrder
  <2>4. \A f \in Editors : epc'[f] \in {"swap", "stamp"} =>
            f # e /\ epc'[f] = epc[f] /\ snap'[f] = snap[f]
    BY <1>3
  <2>5. \A f \in Editors : epc[f] = "swap" => epc'[f] = "swap" /\ snap'[f] = snap[f]
    BY <1>1, <1>3
  <2> QED
    BY <1>1, <2>1, <2>2, <2>3, <2>4, <2>5 DEF IInv, InOrder, Swapping
<1>7. Decided' /\ Kept'
  <2>1. \A f \in Editors : epc[f] = "swap" =>
            epc'[f] = "swap" /\ snap'[f] = snap[f] /\ text'[snap[f]] = text[snap[f]]
    BY <1>1, <1>3
  <2> QED
    BY <1>1, <2>1, InForceStays DEF index_vars
<1> QED
  BY <1>4, <1>5, <1>6, <1>7 DEF IInv

LEMMA ReadIInv ==
    ASSUME IInv, NEW e \in Editors, Read(e)
    PROVE  IInv'
<1>1. /\ epc[e] \in {"idle", "read"}
      /\ snap' = [snap EXCEPT ![e] = disk] /\ epc' = [epc EXCEPT ![e] = "build"]
      /\ UNCHANGED <<disk, text, txn, index_vars, undone, history_vars, store_vars, query_vars>>
  BY DEF Read, Reads
<1>2. TypeOK'
  BY <1>1 DEF IInv, TypeOK, Waiting, index_vars, history_vars, store_vars, query_vars
<1>3. Committed'
  BY <1>1 DEF IInv, TypeOK, RuleSets, Committed, index_vars, history_vars
<1>4. InOrder'
  <2>1. /\ epc'[e] = "build" /\ snap'[e] = disk
        /\ \A f \in Editors : f # e => epc'[f] = epc[f] /\ snap'[f] = snap[f]
    BY <1>1 DEF IInv, TypeOK
  <2> QED
    BY <1>1, <2>1 DEF IInv, InOrder, OnItsWay, Swapping, index_vars, history_vars
<1>5. Decided' /\ Kept'
  <2>1. \A f \in Editors : epc[f] = "swap" =>
            epc'[f] = "swap" /\ snap'[f] = snap[f] /\ text'[snap[f]] = text[snap[f]]
    BY <1>1 DEF IInv, TypeOK
  <2> QED
    BY <1>1, <2>1, InForceStays DEF index_vars, history_vars
<1> QED
  BY <1>2, <1>3, <1>4, <1>5 DEF IInv

\* A rebuild that fails ends the call, ...
LEMMA FailEndsIInv ==
    ASSUME IInv, NEW e \in Editors, Fail(e), Finish(e), UNCHANGED <<disk, text>>
    PROVE  IInv'
<1>1. /\ epc[e] = "build"
      /\ failed' = IF snap[e] > newest /\ snap[e] > failed THEN snap[e] ELSE failed
      /\ UNCHANGED <<index_vars, newest, overtaken, store_vars, query_vars>>
  BY DEF Fail
<1>2. /\ snap' \in [Editors -> RuleSets] /\ undone' \subseteq Editors
      /\ epc' \in [Editors -> {"idle", "read", "build", "publish", "swap", "stamp"}]
      /\ epc'[e] = "idle" /\ \A f \in Editors : f # e => epc'[f] = epc[f] /\ snap'[f] = snap[f]
      /\ snap'[e] = 0
      /\ txn' \in Editors \cup {NoEditor} /\ (txn' # NoEditor => epc'[txn'] # "idle" /\ txn' = txn)
  BY <1>1, FinishKeeps DEF query_vars
<1>3. TypeOK'
  BY <1>1, <1>2 DEF IInv, TypeOK, Waiting, index_vars, store_vars, query_vars
<1>4. Committed'
  <2>1. engine' = engine /\ rule_src_fp' = rule_src_fp /\ disk \in Nat
    BY <1>1 DEF IInv, TypeOK, RuleSets, index_vars
  <2> QED
    BY <1>1, <1>2, <2>1 DEF IInv, Committed
<1>5. InOrder'
  <2> SUFFICES ASSUME ~overtaken PROVE InOrder'
    BY <1>1 DEF InOrder
  <2>1. newest' < disk' /\ failed' < disk' => \E f \in Editors : OnItsWay(f)'
    <3> SUFFICES ASSUME newest < disk, failed' < disk PROVE \E f \in Editors : OnItsWay(f)'
      BY <1>1
    <3>1. failed < disk /\ snap[e] # disk
      BY <1>1 DEF IInv, TypeOK, RuleSets
    <3>2. PICK f \in Editors : OnItsWay(f)
      BY <3>1 DEF IInv, InOrder
    <3>3. f # e
      BY <1>1, <3>1, <3>2 DEF OnItsWay
    <3> QED
      BY <1>2, <3>2, <3>3 DEF OnItsWay
  <2> QED
    BY <1>1, <1>2, <2>1 DEF IInv, InOrder, Swapping, index_vars
<1>6. Decided' /\ Kept'
  <2>1. \A f \in Editors : epc[f] = "swap" =>
            epc'[f] = "swap" /\ snap'[f] = snap[f] /\ text'[snap[f]] = text[snap[f]]
    BY <1>1, <1>2
  <2> QED
    BY <1>1, <2>1, InForceStays DEF index_vars
<1> QED
  BY <1>3, <1>4, <1>5, <1>6 DEF IInv

\* ... or a rule call goes back to the old rules and rebuilds.
LEMMA FailUndoesIInv ==
    ASSUME IInv, NEW e \in Editors, Fail(e), ~Finish(e)
    PROVE  IInv'
<1>1. /\ epc[e] = "build" /\ txn = e
      /\ failed' = IF snap[e] > newest /\ snap[e] > failed THEN snap[e] ELSE failed
      /\ undone' = undone \cup {e} /\ snap' = [snap EXCEPT ![e] = 0]
      /\ epc' = [epc EXCEPT ![e] = "read"]
      /\ UNCHANGED <<index_vars, newest, overtaken, store_vars, query_vars>> /\ txn' = txn
      /\ Commit(text[disk - 1]) \/ UNCHANGED <<disk, text>>
  BY DEF Fail
<1>2. /\ disk \in Nat /\ disk' \in RuleSets /\ text' \in [RuleSets -> Texts] /\ disk' >= disk
      /\ \A n \in RuleSets : n <= disk => text'[n] = text[n]
  <2>1. text[disk - 1] \in Texts
    <3>1. disk \in 1..MAX_RULES
      BY <1>1, NonesAssumption, NumbersAssumption DEF IInv, TypeOK, Committed, RuleSets
    <3>2. disk - 1 \in RuleSets
      BY <3>1, NumbersAssumption DEF RuleSets
    <3> QED
      BY <3>2 DEF IInv, TypeOK
  <2>2. CASE Commit(text[disk - 1])
    BY <2>1, <2>2, CommitKeeps
  <2>3. CASE UNCHANGED <<disk, text>>
    BY <2>3 DEF IInv, TypeOK, RuleSets
  <2> QED
    BY <1>1, <2>2, <2>3
<1>3. /\ epc'[e] = "read" /\ snap'[e] = 0
      /\ \A f \in Editors : f # e => epc'[f] = epc[f] /\ snap'[f] = snap[f]
  BY <1>1 DEF IInv, TypeOK
<1>4. TypeOK'
  <2>1. 0 \in RuleSets /\ failed' \in RuleSets
    BY <1>1, NumbersAssumption DEF IInv, TypeOK, RuleSets
  <2> QED
    BY <1>1, <1>2, <2>1 DEF IInv, TypeOK, Waiting, index_vars, store_vars, query_vars
<1>5. Committed'
  BY <1>1, <1>2, <1>3 DEF IInv, TypeOK, RuleSets, Committed, index_vars
<1>6. InOrder'
  <2> SUFFICES ASSUME ~overtaken PROVE InOrder'
    BY <1>1 DEF InOrder
  <2>1. /\ text'[engine] = text[engine] /\ text'[newest] = text[newest]
        /\ \A n \in rule_src_fp : text'[n] = text[n]
    BY <1>2 DEF IInv, TypeOK, RuleSets, Committed
  <2>2. \A f \in Editors : epc[f] = "swap" => f # e
    BY <1>1
  <2> QED
    BY <1>1, <1>3, <2>1, <2>2 DEF IInv, InOrder, OnItsWay, Swapping, index_vars
<1>7. Decided' /\ Kept'
  <2>1. \A f \in Editors : epc[f] = "swap" =>
            epc'[f] = "swap" /\ snap'[f] = snap[f] /\ text'[snap[f]] = text[snap[f]]
    BY <1>1, <1>2, <1>3 DEF IInv, TypeOK, Committed
  <2> QED
    BY <1>1, <2>1, InForceStays DEF index_vars
<1> QED
  BY <1>4, <1>5, <1>6, <1>7 DEF IInv

LEMMA FailIInv ==
    ASSUME IInv, NEW e \in Editors, Fail(e)
    PROVE  IInv'
<1>1. CASE Finish(e)
  <2>1. epc'[e] = "idle"
    BY <1>1 DEF Finish, IInv, TypeOK
  <2>2. UNCHANGED <<disk, text>>
    <3>1. epc' # [epc EXCEPT ![e] = "read"]
      BY <2>1 DEF IInv, TypeOK
    <3> QED
      BY <3>1 DEF Fail
  <2> QED
    BY <1>1, <2>2, FailEndsIInv
<1>2. CASE ~Finish(e)
  BY <1>2, FailUndoesIInv
<1> QED
  BY <1>1, <1>2

LEMMA ForgetIInv ==
    ASSUME IInv, NEW e \in Editors, Forget(e)
    PROVE  IInv'
<1>1. /\ epc[e] = "build" /\ epc' = [epc EXCEPT ![e] = "publish"] /\ rule_src_fp' = {}
      /\ UNCHANGED <<disk, text, txn, engine, rule_gen, snap, undone, history_vars, store_vars,
                     query_vars>>
  BY DEF Forget
<1>2. TypeOK'
  BY <1>1 DEF IInv, TypeOK, Waiting, history_vars, store_vars, query_vars
<1>3. Committed'
  BY <1>1 DEF IInv, TypeOK, Committed, history_vars
<1>4. InOrder'
  <2>1. epc'[e] = "publish" /\ \A f \in Editors : f # e => epc'[f] = epc[f]
    BY <1>1 DEF IInv, TypeOK
  <2> QED
    BY <1>1, <2>1 DEF IInv, InOrder, OnItsWay, Swapping, history_vars
<1>5. Decided' /\ Kept'
  <2>1. \A f \in Editors : epc[f] = "swap" =>
            epc'[f] = "swap" /\ snap'[f] = snap[f] /\ text'[snap[f]] = text[snap[f]]
    BY <1>1 DEF IInv, TypeOK
  <2> QED
    BY <1>1, <2>1, InForceStays DEF history_vars
<1> QED
  BY <1>2, <1>3, <1>4, <1>5 DEF IInv

LEMMA PublishIInv ==
    ASSUME IInv, NEW e \in Editors, Publish(e)
    PROVE  IInv'
<1>1. /\ epc[e] = "publish" /\ engine' = snap[e] /\ newest' = snap[e]
      /\ failed' = IF failed > snap[e] THEN failed ELSE 0
      /\ epc' = [epc EXCEPT ![e] = "swap"]
      /\ UNCHANGED <<disk, text, txn, rule_gen, rule_src_fp, snap, undone, store_vars, query_vars>>
  BY DEF Publish, Made
<1>2. epc'[e] = "swap" /\ \A f \in Editors : f # e => epc'[f] = epc[f]
  BY <1>1 DEF IInv, TypeOK
<1>3. overtaken => overtaken'
  BY Zenon DEF Publish
<1>4. ASSUME ~overtaken' PROVE ~overtaken /\ ~(snap[e] < newest) /\ rule_src_fp \subseteq {snap[e]}
  BY <1>4, Zenon DEF Publish
<1>5. TypeOK'
  <2>1. overtaken' \in BOOLEAN
    BY DEF Publish
  <2>2. snap[e] \in RuleSets /\ 0 \in RuleSets
    BY NumbersAssumption DEF IInv, TypeOK, RuleSets
  <2> QED
    BY <1>1, <1>2, <2>1, <2>2 DEF IInv, TypeOK, Waiting, store_vars, query_vars
<1>6. Committed'
  BY <1>1 DEF IInv, TypeOK, Committed
<1>7. InOrder'
  <2> SUFFICES ASSUME ~overtaken' PROVE InOrder'
    BY DEF InOrder
  <2>1. ~overtaken /\ newest <= snap[e] /\ rule_src_fp \subseteq {snap[e]}
    BY <1>4 DEF IInv, TypeOK, RuleSets
  <2>2. /\ {disk, engine, newest, failed} \subseteq Nat /\ snap \in [Editors -> Nat]
        /\ snap[e] <= disk
    BY DEF IInv, TypeOK, RuleSets, Committed
  <2>3. \A f \in Editors : epc'[f] \in {"swap", "stamp"} => snap'[f] <= engine'
    BY <1>1, <1>2, <2>1, <2>2 DEF IInv, InOrder
  <2>4. ASSUME newest' < disk', failed' < disk' PROVE \E f \in Editors : OnItsWay(f)'
    <3>1. newest < disk /\ failed < disk /\ snap[e] # disk
      BY <1>1, <2>1, <2>2, <2>4
    <3>2. PICK f \in Editors : OnItsWay(f)
      BY <2>1, <3>1 DEF IInv, InOrder
    <3>3. f # e
      BY <1>1, <3>1, <3>2 DEF OnItsWay
    <3> QED
      BY <1>1, <1>2, <3>2, <3>3 DEF OnItsWay
  <2>5. Swapping(e, engine)'
    BY <1>1, <1>2 DEF Swapping
  <2>6. engine' <= newest' /\ text'[engine'] = text'[newest']
    BY <1>1, <2>2
  <2>7. \A n \in rule_src_fp' : text'[n] = text'[engine']
    BY <1>1, <2>1
  <2> QED
    BY <2>3, <2>4, <2>5, <2>6, <2>7 DEF InOrder
<1>8. Decided' /\ Kept'
  <2>1. \A f \in Editors : epc[f] = "swap" =>
            epc'[f] = "swap" /\ snap'[f] = snap[f] /\ text'[snap[f]] = text[snap[f]]
    BY <1>1, <1>2
  <2> QED
    BY <1>1, <1>3, <2>1, InForceStays
<1> QED
  BY <1>5, <1>6, <1>7, <1>8 DEF IInv

\* What is in force under a generation stays so when an index of the same generation follows.
LEMMA SwapInForce ==
    ASSUME IInv, NEW e \in Editors, Swap(e), rule_gen' = rule_gen, NEW t, InForce(t)
    PROVE  InForceNext(t)
<1>1. CASE t = rule_gen
  BY <1>1 DEF InForceNext
<1>2. CASE \E f \in Editors : epc[f] = "swap" /\ text[snap[f]] = t
  <2>1. PICK f \in Editors : epc[f] = "swap" /\ text[snap[f]] = t
    BY <1>2
  <2>2. CASE f = e
    BY <2>1, <2>2 DEF Swap, InForceNext
  <2>3. CASE f # e
    BY <2>1, <2>3 DEF Swap, InForceNext, IInv, TypeOK
  <2> QED
    BY <2>2, <2>3
<1> QED
  BY <1>1, <1>2 DEF InForce

LEMMA OutlivedKept ==
    ASSUME IInv, NEW e \in Editors, Swap(e), NEW place, place \subseteq Entries, KeptIn(place)
    PROVE  Outlived(place) \subseteq Entries
           /\ \A entry \in Outlived(place) : entry.rules # Astray /\ entry.stamp = rule_gen' =>
                  InForceNext(entry.rules)
<1> SUFFICES ASSUME NEW old \in place,
                    NEW entry, entry = IF old.stamp = rule_gen /\ old.stamp = rule_gen' THEN old
                                       ELSE [old EXCEPT !.rules = Astray]
             PROVE  /\ entry \in Entries
                    /\ entry.rules # Astray /\ entry.stamp = rule_gen' => InForceNext(entry.rules)
  BY DEF Outlived
<1>1. CASE old.stamp = rule_gen /\ old.stamp = rule_gen'
  <2>1. old.rules # Astray => InForce(old.rules)
    BY <1>1 DEF KeptIn
  <2>2. old.rules # Astray => InForceNext(old.rules)
    BY <1>1, <2>1, SwapInForce
  <2> QED
    BY <1>1, <2>2
<1>2. CASE ~(old.stamp = rule_gen /\ old.stamp = rule_gen')
  <2>1. old \in [stamp : Texts, rules : Decisions] /\ entry = [old EXCEPT !.rules = Astray]
    BY <1>2 DEF Entries
  <2>2. entry.rules = Astray /\ entry \in [stamp : Texts, rules : Decisions]
    BY <2>1 DEF Decisions
  <2> QED
    BY <2>2 DEF Entries
<1> QED
  BY <1>1, <1>2

LEMMA SwapIInv ==
    ASSUME IInv, NEW e \in Editors, Swap(e)
    PROVE  IInv'
<1>1. /\ epc[e] = "swap" /\ rule_gen' = text[snap[e]] /\ epc' = [epc EXCEPT ![e] = "stamp"]
      /\ UNCHANGED <<disk, text, txn, engine, rule_src_fp, snap, undone, newest, failed, pc,
                     entry_gen, kind, leader>>
      /\ cache' \in {Outlived(cache), Nothing} /\ names' = Outlived(names)
      /\ rule' = [q \in Queries |->
                    IF pc[q] # "idle" /\ ComesBack(entry_gen[q]) THEN Astray ELSE rule[q]]
  BY DEF Swap
<1>2. epc'[e] = "stamp" /\ \A f \in Editors : f # e => epc'[f] = epc[f]
  BY <1>1 DEF IInv, TypeOK
<1>3. ASSUME ~overtaken'
      PROVE  ~overtaken /\ \A f \in Editors : epc[f] = "swap" => ~(snap[f] < snap[e])
  <2>1. ~(overtaken \/ \E f \in Editors : epc[f] = "swap" /\ snap[f] < snap[e])
    BY <1>3, Zenon DEF Swap
  <2> QED
    BY <2>1
<1>4. TypeOK'
  <2>1. overtaken' \in BOOLEAN
    BY DEF Swap
  <2>2. \A entry \in Entries : [entry EXCEPT !.rules = Astray] \in Entries
    BY DEF Entries, Decisions
  <2>3. cache' \subseteq Entries /\ names' \subseteq Entries
    BY <1>1, <2>2 DEF IInv, TypeOK, Outlived, Nothing
  <2>4. rule' \in [Queries -> Decisions]
    BY <1>1 DEF IInv, TypeOK, Decisions
  <2>5. rule_gen' \in Texts
    BY <1>1 DEF IInv, TypeOK
  <2> QED
    BY <1>1, <1>2, <2>1, <2>3, <2>4, <2>5 DEF IInv, TypeOK, Waiting
<1>5. Committed'
  BY <1>1 DEF IInv, Committed
<1>6. InOrder'
  <2> SUFFICES ASSUME ~overtaken' PROVE InOrder'
    BY DEF InOrder
  <2>1. ~overtaken /\ \A f \in Editors : epc[f] = "swap" => ~(snap[f] < snap[e])
    BY <1>3
  <2>2. engine \in Nat /\ snap \in [Editors -> Nat]
    BY DEF IInv, TypeOK, RuleSets
  <2>3. /\ \A f \in Editors : epc'[f] \in {"swap", "stamp"} => snap'[f] <= engine'
        /\ newest' < disk' /\ failed' < disk' => \E f \in Editors : OnItsWay(f)'
    BY <1>1, <1>2, <2>1 DEF IInv, InOrder, OnItsWay
  <2>4. ASSUME rule_gen' # text'[engine'] \/ (\E f \in Editors : epc'[f] = "swap" /\ snap'[f] # engine')
        PROVE  \E f \in Editors : Swapping(f, engine)'
    <3>1. CASE snap[e] = engine
      <4>1. PICK f \in Editors : epc'[f] = "swap" /\ snap'[f] # engine'
        BY <1>1, <2>4, <3>1
      <4>2. epc[f] = "swap" /\ snap[f] # engine
        BY <1>1, <1>2, <4>1
      <4>3. snap[f] < snap[e]
        BY <2>1, <2>2, <3>1, <4>2 DEF IInv, InOrder
      <4> QED
        BY <2>1, <4>2, <4>3
    <3>2. CASE snap[e] # engine
      <4>1. PICK f \in Editors : Swapping(f, engine)
        BY <1>1, <2>1, <3>2 DEF IInv, InOrder
      <4>2. f # e
        BY <3>2, <4>1 DEF Swapping
      <4> QED
        BY <1>1, <1>2, <4>1, <4>2 DEF Swapping
    <3> QED
      BY <3>1, <3>2
  <2>5. engine' <= newest' /\ text'[engine'] = text'[newest'] /\ \A n \in rule_src_fp' : text'[n] = text'[engine']
    BY <1>1, <2>1 DEF IInv, InOrder
  <2> QED
    BY <2>3, <2>4, <2>5 DEF InOrder
<1>7. Decided'
  <2> SUFFICES ASSUME ~overtaken', NEW q \in Queries,
                      pc'[q] \in {"wait", "gate", "put", "register"}, rule'[q] # Astray,
                      entry_gen'[q] = rule_gen'
               PROVE  InForceNext(rule'[q])
    BY DEF Decided, InForce, InForceNext
  <2>1. ~overtaken
    BY <1>3
  <2>2. /\ pc[q] \in {"wait", "gate", "put", "register"} /\ entry_gen[q] = rule_gen'
        /\ ~ComesBack(entry_gen[q]) /\ rule'[q] = rule[q]
    BY <1>1 DEF IInv, TypeOK
  <2>3. rule_gen' = rule_gen
    BY <2>2 DEF ComesBack
  <2>4. InForce(rule[q])
    BY <2>1, <2>2, <2>3 DEF IInv, Decided
  <2>5. InForceNext(rule[q])
    BY <2>3, <2>4, SwapInForce
  <2> QED
    BY <2>2, <2>5
<1>8. Kept'
  <2> SUFFICES ASSUME ~overtaken' PROVE KeptIn(cache)' /\ KeptIn(names)'
    BY DEF Kept
  <2>1. KeptIn(cache) /\ KeptIn(names) /\ cache \subseteq Entries /\ names \subseteq Entries
    BY <1>3 DEF IInv, Kept, TypeOK
  <2>2. \A entry \in Outlived(cache) \cup Outlived(names) :
            entry.rules # Astray /\ entry.stamp = rule_gen' => InForceNext(entry.rules)
    BY <2>1, OutlivedKept
  <2> QED
    BY <1>1, <2>2 DEF KeptIn, Nothing, InForce, InForceNext
<1> QED
  BY <1>4, <1>5, <1>6, <1>7, <1>8 DEF IInv

LEMMA StampIInv ==
    ASSUME IInv, NEW e \in Editors, Stamp(e)
    PROVE  IInv'
<1>1. /\ epc[e] = "stamp" /\ rule_src_fp' = {snap[e]}
      /\ UNCHANGED <<disk, text, engine, rule_gen, newest, failed, store_vars, query_vars>>
  BY DEF Stamp
<1>2. /\ snap' \in [Editors -> RuleSets] /\ undone' \subseteq Editors
      /\ epc' \in [Editors -> {"idle", "read", "build", "publish", "swap", "stamp"}]
      /\ epc'[e] = "idle" /\ \A f \in Editors : f # e => epc'[f] = epc[f] /\ snap'[f] = snap[f]
      /\ snap'[e] = 0
      /\ txn' \in Editors \cup {NoEditor} /\ (txn' # NoEditor => epc'[txn'] # "idle" /\ txn' = txn)
  BY <1>1, FinishKeeps DEF Stamp, query_vars
<1>3. (overtaken => overtaken') /\ (~overtaken' => ~overtaken /\ ~(snap[e] < engine))
  BY Zenon DEF Stamp
<1>4. TypeOK'
  <2>1. overtaken' \in BOOLEAN /\ rule_src_fp' \subseteq RuleSets
    BY DEF Stamp, IInv, TypeOK
  <2> QED
    BY <1>1, <1>2, <2>1 DEF IInv, TypeOK, Waiting, store_vars, query_vars
<1>5. Committed'
  <2>1. disk \in Nat
    BY DEF IInv, TypeOK, RuleSets
  <2> QED
    BY <1>1, <1>2, <2>1 DEF IInv, Committed
<1>6. InOrder'
  <2> SUFFICES ASSUME ~overtaken' PROVE InOrder'
    BY DEF InOrder
  <2>1. ~overtaken
    BY <1>3
  <2>2. snap[e] = engine
    BY <1>1, <1>3, <2>1 DEF IInv, TypeOK, RuleSets, InOrder
  <2> QED
    BY <1>1, <1>2, <2>1, <2>2 DEF IInv, InOrder, OnItsWay, Swapping
<1>7. Decided' /\ Kept'
  <2>1. \A f \in Editors : epc[f] = "swap" =>
            epc'[f] = "swap" /\ snap'[f] = snap[f] /\ text'[snap[f]] = text[snap[f]]
    BY <1>1, <1>2
  <2> QED
    BY <1>1, <1>3, <2>1, InForceStays
<1> QED
  BY <1>4, <1>5, <1>6, <1>7 DEF IInv

-----------------------------------------------------------------------------
(* Steps of the queries: the rebuilds are where they were *)

LEMMA RebuildsStay ==
    ASSUME IInv, UNCHANGED rebuild_vars
    PROVE  /\ Committed' /\ InOrder' /\ \A t : InForceNext(t) <=> InForce(t)
           /\ overtaken' = overtaken /\ rule_gen' = rule_gen
           /\ text' = text /\ engine' = engine
BY DEF IInv, rebuild_vars, index_vars, history_vars, Committed, InOrder, OnItsWay, Swapping, InForce,
   InForceNext

\* What queries have decided, and what is kept, is in force after the step if it is before it.
LEMMA DecisionsStay ==
    ASSUME IInv, UNCHANGED rebuild_vars,
           ~overtaken => \A q \in Queries :
               pc'[q] \in {"wait", "gate", "put", "register"} /\ rule'[q] # Astray
                   /\ entry_gen'[q] = rule_gen => InForce(rule'[q])
    PROVE  Decided'
BY RebuildsStay DEF Decided, InForce, InForceNext

LEMMA EntriesStay ==
    ASSUME IInv, UNCHANGED rebuild_vars,
           ~overtaken => \A entry \in cache' \cup names' :
               entry.rules # Astray /\ entry.stamp = rule_gen => InForce(entry.rules)
    PROVE  Kept'
BY RebuildsStay DEF Kept, KeptIn, InForce, InForceNext

\* The index a query matches is in force.
LEMMA IndexInForce == IInv /\ ~overtaken => InForce(text[engine])
BY DEF IInv, InOrder, Swapping, InForce

LEMMA EnterIInv ==
    ASSUME IInv, NEW q \in Queries, Enter(q)
    PROVE  IInv'
<1> USE NonesAssumption
<1>1. UNCHANGED rebuild_vars /\ UNCHANGED store_vars
  BY DEF Enter
<1>2. TypeOK'
  BY <1>1 DEF IInv, TypeOK, PCs, Waiting, rebuild_vars, index_vars, history_vars, store_vars, Enter
<1>3. Decided' /\ Kept'
  BY <1>1, DecisionsStay, EntriesStay DEF IInv, TypeOK, Decided, Kept, KeptIn, store_vars, Enter
<1> QED
  BY <1>1, <1>2, <1>3, RebuildsStay DEF IInv

LEMMA LookIInv ==
    ASSUME IInv, NEW q \in Queries, Hit(q) \/ Miss(q)
    PROVE  IInv'
<1> USE NonesAssumption
<1>1. UNCHANGED rebuild_vars /\ UNCHANGED store_vars /\ UNCHANGED leader /\ pc[q] = "look"
  BY DEF Hit, Miss
<1>2. (Return(q) \/ Goto(q, "infer")) /\ text[0] \in Texts
  BY NumbersAssumption DEF Hit, Miss, IInv, TypeOK, RuleSets
<1>3. TypeOK'
  BY <1>1, <1>2 DEF IInv, TypeOK, PCs, Waiting, Decisions, rebuild_vars, index_vars, history_vars,
     store_vars, Goto, Return
<1>4. Decided' /\ Kept'
  BY <1>1, <1>2, DecisionsStay, EntriesStay
     DEF IInv, TypeOK, Decided, Kept, KeptIn, store_vars, Goto, Return
<1> QED
  BY <1>1, <1>3, <1>4, RebuildsStay DEF IInv

LEMMA InferIInv ==
    ASSUME IInv, NEW q \in Queries, Infer(q)
    PROVE  IInv'
<1> USE NonesAssumption
<1>1. /\ UNCHANGED rebuild_vars /\ UNCHANGED cache /\ UNCHANGED leader /\ pc[q] = "infer"
      /\ names' \in {names, Nothing}
  BY DEF Infer
<1>2. (Return(q) \/ Goto(q, "match")) /\ text[0] \in Texts
  BY NumbersAssumption DEF Infer, IInv, TypeOK, RuleSets
<1>3. TypeOK'
  BY <1>1, <1>2 DEF IInv, TypeOK, PCs, Waiting, Decisions, Nothing, rebuild_vars, index_vars,
     history_vars, Goto, Return
<1>4. Decided' /\ Kept'
  BY <1>1, <1>2, DecisionsStay, EntriesStay
     DEF IInv, TypeOK, Decided, Kept, KeptIn, Nothing, Goto, Return
<1> QED
  BY <1>1, <1>3, <1>4, RebuildsStay DEF IInv

LEMMA MatchIInv ==
    ASSUME IInv, NEW q \in Queries, Match(q)
    PROVE  IInv'
<1> USE NonesAssumption
<1>1. /\ UNCHANGED rebuild_vars /\ UNCHANGED store_vars /\ UNCHANGED entry_gen
      /\ rule' = [rule EXCEPT ![q] = IF rule[q] = Astray THEN Astray ELSE text[engine]]
  BY DEF Match
<1>2. TypeOK'
  <2>1. rule' \in [Queries -> Decisions]
    BY <1>1 DEF IInv, TypeOK, Decisions
  <2> QED
    BY <1>1, <2>1 DEF IInv, TypeOK, PCs, Waiting, rebuild_vars, index_vars, history_vars,
       store_vars, Match
<1>3. Decided'
  <2> SUFFICES ASSUME ~overtaken, NEW r \in Queries,
                      pc'[r] \in {"wait", "gate", "put", "register"}, rule'[r] # Astray,
                      entry_gen[r] = rule_gen
               PROVE  InForce(rule'[r])
    BY <1>1, DecisionsStay
  <2>1. CASE r = q
    BY <1>1, <2>1, IndexInForce DEF IInv, TypeOK
  <2>2. CASE r # q
    <3>1. rule'[r] = rule[r] /\ pc'[r] = pc[r]
      BY <1>1, <2>2 DEF IInv, TypeOK, Match
    <3> QED
      BY <3>1 DEF IInv, Decided
  <2> QED
    BY <2>1, <2>2
<1>4. Kept'
  BY <1>1, DecisionsStay, EntriesStay DEF IInv, Kept, KeptIn, store_vars
<1> QED
  BY <1>1, <1>2, <1>3, <1>4, RebuildsStay DEF IInv

LEMMA FetchedIInv ==
    ASSUME IInv, Fetched
    PROVE  IInv'
<1> USE NonesAssumption
<1>1. /\ UNCHANGED rebuild_vars /\ UNCHANGED store_vars /\ UNCHANGED entry_gen
      /\ leader' = NoQuery
      /\ pc' = [q \in Queries |-> IF q \in Waiting THEN "gate" ELSE pc[q]]
      /\ rule' = [q \in Queries |->
                    IF q \notin Waiting THEN rule[q]
                    ELSE IF rule[q] # Astray /\ entry_gen[q] = entry_gen[leader] THEN rule[leader]
                    ELSE Astray]
  BY DEF Fetched
<1>2. leader \in Queries /\ pc[leader] = "wait"
  BY DEF Fetched, IInv, TypeOK, Waiting
<1>3. TypeOK'
  <2>1. PICK k \in {"answer", "missing", "none"} :
            kind' = [q \in Queries |-> IF q \in Waiting THEN k ELSE kind[q]]
    BY DEF Fetched
  <2>2. kind' \in [Queries -> {"answer", "missing", "none"}]
    BY <2>1 DEF IInv, TypeOK
  <2>3. pc' \in [Queries -> PCs] /\ rule' \in [Queries -> Decisions]
    BY <1>1, <1>2 DEF IInv, TypeOK, PCs, Decisions
  <2>4. Waiting' = {}
    BY <1>1 DEF Waiting
  <2> QED
    BY <1>1, <2>2, <2>3, <2>4 DEF IInv, TypeOK, rebuild_vars, index_vars, history_vars, store_vars
<1>4. Decided'
  <2> SUFFICES ASSUME ~overtaken, NEW r \in Queries,
                      pc'[r] \in {"wait", "gate", "put", "register"}, rule'[r] # Astray,
                      entry_gen[r] = rule_gen
               PROVE  InForce(rule'[r])
    BY <1>1, DecisionsStay
  <2>1. CASE r \in Waiting
    <3>1. rule'[r] = rule[leader] /\ entry_gen[leader] = rule_gen
      BY <1>1, <2>1
    <3> QED
      BY <1>2, <3>1 DEF IInv, Decided
  <2>2. CASE r \notin Waiting
    BY <1>1, <2>2 DEF IInv, Decided
  <2> QED
    BY <2>1, <2>2
<1>5. Kept'
  BY <1>1, DecisionsStay, EntriesStay DEF IInv, Kept, KeptIn, store_vars
<1> QED
  BY <1>1, <1>3, <1>4, <1>5, RebuildsStay DEF IInv

LEMMA CancelIInv ==
    ASSUME IInv, NEW q \in Queries, Cancel(q) \/ CancelLeader(q)
    PROVE  IInv'
<1> USE NonesAssumption
<1>1. UNCHANGED rebuild_vars /\ UNCHANGED store_vars /\ Return(q) /\ text[0] \in Texts
  BY NumbersAssumption DEF Cancel, CancelLeader, IInv, TypeOK, RuleSets
<1>2. TypeOK'
  BY <1>1 DEF IInv, TypeOK, PCs, Waiting, Decisions, rebuild_vars, index_vars, history_vars,
     store_vars, Cancel, CancelLeader, Return
<1>3. Decided' /\ Kept'
  BY <1>1, DecisionsStay, EntriesStay DEF IInv, TypeOK, Decided, Kept, KeptIn, store_vars, Return
<1> QED
  BY <1>1, <1>2, <1>3, RebuildsStay DEF IInv

LEMMA GateIInv ==
    ASSUME IInv, NEW q \in Queries, Gate(q)
    PROVE  IInv'
<1> USE NonesAssumption
<1>1. /\ UNCHANGED rebuild_vars /\ UNCHANGED store_vars /\ UNCHANGED leader /\ pc[q] = "gate"
      /\ text[0] \in Texts
  BY NumbersAssumption DEF Gate, IInv, TypeOK, RuleSets
<1>2. Return(q) \/ Goto(q, "put") \/ Goto(q, "register")
  BY DEF Gate
<1>3. TypeOK'
  BY <1>1, <1>2 DEF IInv, TypeOK, PCs, Waiting, Decisions, rebuild_vars, index_vars, history_vars,
     store_vars, Goto, Return
<1>4. Decided' /\ Kept'
  BY <1>1, <1>2, DecisionsStay, EntriesStay
     DEF IInv, TypeOK, Decided, Kept, KeptIn, store_vars, Goto, Return
<1> QED
  BY <1>1, <1>3, <1>4, RebuildsStay DEF IInv

LEMMA PutAnswerIInv ==
    ASSUME IInv, NEW q \in Queries, PutAnswer(q)
    PROVE  IInv'
<1> USE NonesAssumption
<1>1. /\ UNCHANGED rebuild_vars /\ UNCHANGED names /\ UNCHANGED leader /\ pc[q] = "put"
      /\ text[0] \in Texts /\ cache' = {[stamp |-> entry_gen[q], rules |-> rule[q]]}
  BY NumbersAssumption DEF PutAnswer, IInv, TypeOK, RuleSets
<1>2. Return(q) \/ Goto(q, "register")
  BY DEF PutAnswer
<1>3. TypeOK'
  <2>1. cache' \subseteq Entries
    BY <1>1 DEF IInv, TypeOK, Entries
  <2> QED
    BY <1>1, <1>2, <2>1 DEF IInv, TypeOK, PCs, Waiting, Decisions, rebuild_vars, index_vars,
       history_vars, Goto, Return
<1>4. Decided'
  BY <1>1, <1>2, DecisionsStay, EntriesStay DEF IInv, TypeOK, Decided, Goto, Return
<1>5. Kept'
  BY <1>1, DecisionsStay, EntriesStay DEF IInv, Decided, Kept, KeptIn
<1> QED
  BY <1>1, <1>3, <1>4, <1>5, RebuildsStay DEF IInv

LEMMA RegisterIInv ==
    ASSUME IInv, NEW q \in Queries, Register(q)
    PROVE  IInv'
<1> USE NonesAssumption
<1>1. /\ UNCHANGED rebuild_vars /\ UNCHANGED cache /\ UNCHANGED leader /\ pc[q] = "register"
      /\ Return(q) /\ text[0] \in Texts
      /\ names' = {[stamp |-> rule_gen, rules |-> IF Current(q) THEN rule[q] ELSE Astray]}
  BY NumbersAssumption DEF Register, IInv, TypeOK, RuleSets
<1>2. TypeOK'
  <2>1. names' \subseteq Entries
    BY <1>1 DEF IInv, TypeOK, Entries, Decisions
  <2> QED
    BY <1>1, <2>1 DEF IInv, TypeOK, PCs, Waiting, Decisions, rebuild_vars, index_vars,
       history_vars, Return
<1>3. Decided'
  BY <1>1, DecisionsStay, EntriesStay DEF IInv, TypeOK, Decided, Return
<1>4. Kept'
  BY <1>1, DecisionsStay, EntriesStay DEF IInv, Decided, Kept, KeptIn, Current
<1> QED
  BY <1>1, <1>2, <1>3, <1>4, RebuildsStay DEF IInv

LEMMA ExpireIInv ==
    ASSUME IInv, Expire
    PROVE  IInv'
<1>1. /\ UNCHANGED rebuild_vars /\ UNCHANGED query_vars
      /\ cache' \in {cache, Nothing} /\ names' \in {names, Nothing}
  BY DEF Expire
<1>2. TypeOK'
  BY <1>1 DEF IInv, TypeOK, Waiting, Nothing, rebuild_vars, index_vars, history_vars, query_vars
<1>3. Decided' /\ Kept'
  BY <1>1, DecisionsStay, EntriesStay DEF IInv, Decided, Kept, KeptIn, Nothing, query_vars
<1> QED
  BY <1>1, <1>2, <1>3, RebuildsStay DEF IInv

-----------------------------------------------------------------------------
LEMMA InitIInv == Init => IInv
<1> SUFFICES ASSUME Init PROVE IInv
  OBVIOUS
<1> USE NonesAssumption, NumbersAssumption DEF Init
<1>1. TypeOK
  <2>1. Waiting = {} /\ 0 \in RuleSets /\ text[0] \in Texts
    BY DEF Waiting, RuleSets
  <2>2. /\ pc \in [Queries -> PCs] /\ rule \in [Queries -> Decisions]
        /\ kind \in [Queries -> {"answer", "missing", "none"}]
        /\ entry_gen \in [Queries -> Texts]
    BY <2>1 DEF PCs, Decisions
  <2>3. /\ epc \in [Editors -> {"idle", "read", "build", "publish", "swap", "stamp"}]
        /\ snap \in [Editors -> RuleSets]
    BY <2>1
  <2> QED
    BY <2>1, <2>2, <2>3 DEF TypeOK, Nothing
<1>2. Committed
  BY DEF Committed
<1>3. InOrder
  BY DEF InOrder, Swapping
<1>4. Decided
  BY DEF Decided
<1>5. Kept
  BY DEF Kept, KeptIn, Nothing
<1> QED
  BY <1>1, <1>2, <1>3, <1>4, <1>5 DEF IInv

LEMMA StepIInv == IInv /\ [Next]_vars => IInv'
<1> SUFFICES ASSUME IInv, [Next]_vars PROVE IInv'
  OBVIOUS
<1>1. ASSUME NEW e \in Editors, Change(e) \/ Put(e) \/ Rebuild(e) PROVE IInv'
  BY <1>1, ChangeIInv, SkipIInv, ReadIInv, FailIInv, ForgetIInv, PublishIInv, SwapIInv, StampIInv
     DEF Rebuild
<1>2. ASSUME NEW q \in Queries, Enter(q) \/ Hit(q) \/ Miss(q) \/ Infer(q) \/ Match(q) PROVE IInv'
  BY <1>2, EnterIInv, LookIInv, InferIInv, MatchIInv
<1>3. ASSUME NEW q \in Queries,
             Cancel(q) \/ CancelLeader(q) \/ Gate(q) \/ PutAnswer(q) \/ Register(q) PROVE IInv'
  BY <1>3, CancelIInv, GateIInv, PutAnswerIInv, RegisterIInv
<1>4. CASE Fetched \/ Expire
  BY <1>4, FetchedIInv, ExpireIInv
<1>5. CASE UNCHANGED vars
  <2>1. UNCHANGED rebuild_vars /\ UNCHANGED store_vars /\ UNCHANGED query_vars
    BY <1>5 DEF vars
  <2>2. TypeOK'
    BY <2>1 DEF IInv, TypeOK, Waiting, rebuild_vars, index_vars, history_vars, store_vars, query_vars
  <2>3. Decided' /\ Kept'
    BY <2>1, DecisionsStay, EntriesStay DEF IInv, Decided, Kept, KeptIn, store_vars, query_vars
  <2> QED
    BY <2>1, <2>2, <2>3, RebuildsStay DEF IInv
<1> QED
  BY <1>1, <1>2, <1>3, <1>4, <1>5 DEF Next

-----------------------------------------------------------------------------
\* Every variable stays in the set of values it is meant for, and nobody waits for a fetch
\* that nobody makes.
THEOREM TypeCorrect == Spec => []TypeOK
<1>1. IInv => TypeOK
  BY DEF IInv
<1> QED
  BY <1>1, InitIInv, StepIInv, PTL DEF Spec

\* Unless a rebuild overtook another, or failed with rules that none has been made for since,
\* the index is that of the rules on disk whenever no call is at work, though rebuilds of
\* what is taken to be the same rules are skipped.
THEOREM IndexFollowsDisk == Spec => []IndexCurrentInOrder
<1>1. ASSUME IInv, ~overtaken, failed = 0, Quiet
      PROVE  text[engine] = text[disk] /\ rule_gen = text[disk]
  <2>1. \A e \in Editors : ~OnItsWay(e) /\ ~Swapping(e, engine)
    BY <1>1 DEF Quiet, OnItsWay, Swapping
  <2>2. ~(newest < disk /\ failed < disk)
    BY <1>1, <2>1 DEF IInv, InOrder
  <2>3. newest = disk
    BY <1>1, <2>2 DEF IInv, TypeOK, RuleSets, Committed
  <2> QED
    BY <1>1, <2>1, <2>3 DEF IInv, InOrder
<1>2. IInv => IndexCurrentInOrder
  BY <1>1 DEF IndexCurrentInOrder
<1> QED
  BY <1>2, InitIInv, StepIInv, PTL DEF Spec

\* When no rebuild is at work, what is in force is what the index says.
LEMMA QuietInForce ==
    ASSUME IInv, ~overtaken, Quiet, NEW t, InForce(t)
    PROVE  t = text[engine]
<1>1. \A e \in Editors : epc[e] # "swap" /\ ~Swapping(e, engine)
  BY DEF Quiet, Swapping
<1> QED
  BY <1>1 DEF IInv, InOrder, InForce

\* No answer that is served was decided by other rules than those in force, after failed and
\* skipped rebuilds as well.
THEOREM OldAnswersVoid == Spec => []AnswersCurrent
<1>1. IInv => AnswersCurrent
  BY QuietInForce DEF IInv, Kept, KeptIn, AnswersCurrent
<1> QED
  BY <1>1, InitIInv, StepIInv, PTL DEF Spec

\* Nor was a name taken not to exist by such rules.
THEOREM OldNamesVoid == Spec => []NamesCurrent
<1>1. IInv => NamesCurrent
  BY QuietInForce DEF IInv, Kept, KeptIn, NamesCurrent
<1> QED
  BY <1>1, InitIInv, StepIInv, PTL DEF Spec
=============================================================================
