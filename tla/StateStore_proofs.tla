------------------------- MODULE StateStore_proofs -------------------------
(***************************************************************************)
(* Proofs about the state directory for every number of writes, crashes,   *)
(* losses, failures, edits and kept generations, and for both layouts:     *)
(* every file has contents, never a damaged copy, and what is served of    *)
(* the required parts belongs to one generation; without damage and edits  *)
(* a startup always finds a generation, and kills alone leave what was     *)
(* there before the last commit or what it wants.                          *)
(*                                                                         *)
(* The inductive invariant IInv adds to the properties that a generation   *)
(* lists the required parts it was to hold, what a commit has renamed so   *)
(* far, and that the generation being put back was verified.               *)
(* AInv adds what history holds at each step of a commit, and CInv how the *)
(* live parts, the current generation and the copies compare when nothing  *)
(* but kills happened.                                                     *)
(***************************************************************************)
EXTENDS StateStore, TLAPS

\* What a generation was to hold of the required parts, it lists.
Whole(g) == \A p \in Required : g.all[p] # 0 => p \in DOMAIN g.parts /\ g.parts[p] = g.all[p]

WholeGenerations ==
    /\ Whole(point) /\ Whole(job)
    /\ \A r \in DOMAIN hist : Whole(hist[r].commit)

\* While parts are renamed the commit point is the job, and what has its name is live.
Renaming ==
    pc = "rename" =>
        /\ point = job /\ todo \subseteq DOMAIN job.parts
        /\ \A p \in DOMAIN job.parts \ todo : live[p] = job.parts[p]

\* A generation that is put back was verified.
Restoring ==
    pc \in {"restore", "repoint"} =>
        /\ source \in DOMAIN hist /\ Verify(hist[source].commit, hist[source].parts)
        /\ todo \subseteq DOMAIN hist[source].commit.parts

\* What is served is whole until the next commit replaces the commit point.
Serving ==
    (pc \in {"idle", "copy", "point"} /\ ~failed /\ load \in {"Committed", "RolledBack"}) =>
        \A p \in Required : point.all[p] # 0 => live[p] = point.all[p]

IInv == TypeOK /\ WholeGenerations /\ Renaming /\ Restoring /\ Serving

-----------------------------------------------------------------------------
(* Choosing a part, and generations *)

\* The first of some parts is one of them, and none comes before it.
LEMMA FirstIsMember ==
    ASSUME NEW S \in SUBSET Parts, S # {}, NEW order \in {Listing, Staged}
    PROVE  First(order, S) \in S /\ \A q \in S : order[First(order, S)] <= order[q]
<1>1. /\ order["config"] = 1
      /\ \/ order["rules"] = 2 /\ order["sub"] = 3
         \/ order["rules"] = 3 /\ order["sub"] = 2
  BY LayoutAssumption DEF Listing, Staged
<1>2. \E p \in S : \A q \in S : order[p] <= order[q]
  <2>1. \A q \in S : q \in {"config", "rules", "sub"}
    BY DEF Parts
  <2>2. CASE "config" \in S
    BY <1>1, <2>1, <2>2
  <2>3. CASE "config" \notin S /\ "rules" \in S /\ ("sub" \notin S \/ order["rules"] = 2)
    BY <1>1, <2>1, <2>3
  <2>4. CASE "config" \notin S /\ "sub" \in S /\ ("rules" \notin S \/ order["rules"] = 3)
    BY <1>1, <2>1, <2>4
  <2> QED
    BY <1>1, <2>1, <2>2, <2>3, <2>4
<1> QED
  BY <1>2 DEF First

\* No generation is a generation, and it was to hold nothing.
LEMMA NoneIsWhole == IsGeneration(NoGeneration) /\ Whole(NoGeneration)
BY DEF IsGeneration, NoGeneration, Whole, NoFiles, Contents, Parts, Required

\* What a verified generation was to hold of the required parts is in the files.
LEMMA VerifiedIsWhole ==
    ASSUME NEW g, NEW files, Whole(g), Verify(g, files)
    PROVE  \A p \in Required : g.all[p] # 0 => files[p] = g.all[p]
BY DEF Whole, Verify, Missing

\* A step of a commit goes on, or fails and leaves no job.
LEMMA GoesOnOrFails ==
    ASSUME TypeOK,
           \/ /\ UNCHANGED <<job, failed, fails>>
              /\ pc' \in {"copy", "point", "rename"} /\ todo' \subseteq Parts
           \/ Fails /\ Give(TRUE)
    PROVE  /\ pc' \in {"copy", "point", "rename", "idle"} /\ todo' \subseteq Parts
           /\ failed' \in BOOLEAN /\ fails' \in Nat /\ IsGeneration(job')
<1>1. CASE UNCHANGED <<job, failed, fails>>
  BY <1>1 DEF TypeOK, Give
<1>2. CASE Fails /\ Give(TRUE)
  <2>1. fails' \in Nat
    BY <1>2 DEF Fails, TypeOK
  <2> QED
    BY <1>2, <2>1, NoneIsWhole DEF Give
<1> QED
  BY <1>1, <1>2

\* History holds a copy under every revision it has.
LEMMA KeptIsCopy ==
    ASSUME TypeOK, WholeGenerations, NEW r \in Nat
    PROVE  IsCopy(Kept(r)) /\ Whole(Kept(r).commit)
<1>1. CASE r \in DOMAIN hist
  BY <1>1 DEF Kept, TypeOK, WholeGenerations
<1>2. CASE r \notin DOMAIN hist
  <2>1. Kept(r) = [commit |-> NoGeneration, parts |-> NoFiles]
    BY <1>2 DEF Kept
  <2>2. NoFiles \in Files
    BY DEF NoFiles, Files
  <2> QED
    BY <2>1, <2>2, NoneIsWhole DEF IsCopy
<1> QED
  BY <1>1, <1>2

\* Replacing an entry of history by a whole one keeps all of it whole.
LEMMA WithKeepsHistory ==
    ASSUME TypeOK, WholeGenerations, NEW r \in Nat, NEW h, IsCopy(h), Whole(h.commit),
           hist' = With(r, h)
    PROVE  /\ DOMAIN hist' \subseteq Nat
           /\ \A s \in DOMAIN hist' : IsCopy(hist'[s]) /\ Whole(hist'[s].commit)
BY DEF With, TypeOK, WholeGenerations

-----------------------------------------------------------------------------
(* The initial states *)

LEMMA InitIInv == Init => IInv
<1> SUFFICES ASSUME Init PROVE IInv
  OBVIOUS
<1>1. live \in Contents
  BY DEF Init, Contents, Parts
<1>2. TypeOK
  BY <1>1, NoneIsWhole DEF Init, TypeOK
<1>3. WholeGenerations
  BY NoneIsWhole DEF Init, WholeGenerations
<1>4. Renaming /\ Restoring /\ Serving
  BY DEF Init, Renaming, Restoring, Serving
<1> QED
  BY <1>2, <1>3, <1>4 DEF IInv

-----------------------------------------------------------------------------
(* Every step keeps the invariant: one lemma per action *)

LEMMA BeginKeeps ==
    ASSUME IInv, NEW plan \in Plans, NEW rev \in Revisions, Begin(plan, rev)
    PROVE  IInv'
<1> USE DEF IInv
<1>1. rev \in Nat
  BY DEF Revisions, TypeOK, IsGeneration
<1> DEFINE wanted == [p \in Parts |-> IF p \in plan THEN written + 1 ELSE live[p]]
<1>2. wanted \in Contents
  BY DEF TypeOK, Contents
<1>3. plan \subseteq Parts /\ "config" \in plan /\ Listed(plan) \subseteq Parts
  BY DEF Plans, Listed, Parts
<1>4. /\ job' = [rev |-> rev, parts |-> [p \in Listed(plan) |-> wanted[p]], all |-> wanted]
      /\ after' = wanted /\ before' = live /\ written' = written + 1
      /\ pc' \in {"copy", "point"} /\ pc = "idle"
      /\ todo' = {} \/ todo' = DOMAIN point.parts
      /\ unsynced' = {}
      /\ UNCHANGED <<live, point, hist, source, load, acked, failed, crashes, losses, fails, edits>>
  BY DEF Begin
<1>5. IsGeneration(job')
  <2>1. /\ DOMAIN job'.parts = Listed(plan) /\ job'.all = wanted /\ job'.rev = rev
        /\ \A p \in Listed(plan) : job'.parts[p] = wanted[p]
        /\ job' = [rev |-> job'.rev, parts |-> job'.parts, all |-> job'.all]
    BY <1>4
  <2>2. \A p \in Parts : wanted[p] \in Nat
    BY <1>2 DEF Contents
  <2> HIDE DEF wanted
  <2> QED
    BY <2>1, <2>2, <1>1, <1>2, <1>3 DEF IsGeneration
<1>6. Whole(job')
  BY <1>3, <1>4 DEF Whole, Listed, Required, Parts
<1> HIDE DEF wanted
<1>7. TypeOK'
  BY <1>2, <1>4, <1>5 DEF TypeOK, IsGeneration
<1>8. WholeGenerations'
  BY <1>4, <1>6 DEF WholeGenerations
<1>9. Renaming' /\ Restoring' /\ Serving'
  BY <1>4 DEF Renaming, Restoring, Serving
<1> QED
  BY <1>7, <1>8, <1>9

LEMMA CopyPartKeeps == IInv /\ CopyPart => IInv'
<1> SUFFICES ASSUME IInv, CopyPart PROVE IInv'
  OBVIOUS
<1> USE DEF IInv
<1> DEFINE p == First(Listing, todo)
           old == Kept(point.rev)
           copy(c) == [commit |-> old.commit,
                       parts |-> [old.parts EXCEPT ![p] = IF live[p] = 0 THEN @ ELSE c]]
<1>1. p \in Parts /\ pc = "copy"
  BY FirstIsMember DEF CopyPart, TypeOK
<1>2. PICK c \in {live[p], Garbage} : hist' = With(point.rev, copy(c))
  BY DEF CopyPart
<1>3. /\ unsynced' \subseteq unsynced \cup {<<point.rev, p>>}
      /\ \/ todo' = todo \ {p} /\ UNCHANGED <<pc, job, failed, fails>>
         \/ Fails /\ Give(TRUE)
      /\ UNCHANGED <<live, point, source, load, before, after, acked, written, crashes, losses, edits>>
  BY DEF CopyPart
<1>4. point.rev \in Nat
  BY DEF TypeOK, IsGeneration
<1>5. IsCopy(copy(c)) /\ Whole(copy(c).commit)
  <2>1. IsCopy(Kept(point.rev)) /\ Whole(Kept(point.rev).commit)
    BY <1>4, KeptIsCopy
  <2>2. c \in Nat \cup {Garbage}
    BY <1>1 DEF TypeOK, Contents
  <2> HIDE DEF old
  <2>3. [old.parts EXCEPT ![p] = IF live[p] = 0 THEN @ ELSE c] \in Files
    BY <1>1, <2>1, <2>2 DEF IsCopy, Files, old
  <2> QED
    BY <2>1, <2>3 DEF IsCopy, old
<1> HIDE DEF copy
<1>6. /\ DOMAIN hist' \subseteq Nat
      /\ \A s \in DOMAIN hist' : IsCopy(hist'[s]) /\ Whole(hist'[s].commit)
  BY <1>2, <1>4, <1>5, WithKeepsHistory
<1> HIDE DEF p
<1>7. TypeOK'
  <2>1. todo' \subseteq Parts \/ (Fails /\ Give(TRUE))
    BY <1>3 DEF TypeOK
  <2>2. unsynced' \subseteq Nat \X Parts
    BY <1>1, <1>3, <1>4 DEF TypeOK
  <2> QED
    BY <1>1, <1>3, <1>6, <2>1, <2>2, GoesOnOrFails DEF TypeOK
<1>8. WholeGenerations'
  BY <1>3, <1>6, NoneIsWhole DEF WholeGenerations, Give
<1>9. Renaming' /\ Restoring' /\ Serving'
  BY <1>1, <1>3 DEF Renaming, Restoring, Serving, Give
<1> QED
  BY <1>7, <1>8, <1>9

LEMMA CopyRecordKeeps == IInv /\ CopyRecord => IInv'
<1> SUFFICES ASSUME IInv, CopyRecord PROVE IInv'
  OBVIOUS
<1> USE DEF IInv
<1>1. /\ pc = "copy"
      /\ \/ pc' = "point" /\ UNCHANGED <<todo, job, failed, fails>>
         \/ Fails /\ Give(TRUE)
      /\ UNCHANGED <<live, point, unsynced, source, load, before, after, acked, written,
                     crashes, losses, edits>>
  BY DEF CopyRecord
<1>2. /\ DOMAIN hist' \subseteq Nat
      /\ \A s \in DOMAIN hist' : IsCopy(hist'[s]) /\ Whole(hist'[s].commit)
  <2>1. CASE hist' = hist
    BY <2>1 DEF TypeOK, WholeGenerations
  <2> DEFINE h == [commit |-> point, parts |-> Kept(point.rev).parts]
  <2>2. CASE hist' = With(point.rev, h)
    <3>1. point.rev \in Nat /\ IsGeneration(point) /\ Whole(point)
      BY DEF TypeOK, IsGeneration, WholeGenerations
    <3>2. IsCopy(Kept(point.rev))
      BY <3>1, KeptIsCopy
    <3>3. IsCopy(h) /\ h.commit = point
      BY <3>1, <3>2 DEF IsCopy
    <3> HIDE DEF h
    <3> QED
      BY <2>2, <3>1, <3>3, WithKeepsHistory
  <2> QED
    BY <2>1, <2>2 DEF CopyRecord
<1>3. TypeOK'
  <2>1. todo' \subseteq Parts \/ (Fails /\ Give(TRUE))
    BY <1>1 DEF TypeOK
  <2> QED
    BY <1>1, <1>2, <2>1, GoesOnOrFails DEF TypeOK
<1>4. WholeGenerations'
  BY <1>1, <1>2, NoneIsWhole DEF WholeGenerations, Give
<1>5. Renaming' /\ Restoring' /\ Serving'
  BY <1>1 DEF Renaming, Restoring, Serving, Give
<1> QED
  BY <1>3, <1>4, <1>5

LEMMA PointKeeps == IInv /\ Point => IInv'
<1> SUFFICES ASSUME IInv, Point PROVE IInv'
  OBVIOUS
<1> USE DEF IInv
<1>1. TypeOK'
  <2>1. todo' \subseteq Parts \/ (Fails /\ Give(TRUE))
    BY DEF Point, TypeOK, IsGeneration
  <2> QED
    BY <2>1, GoesOnOrFails DEF Point, TypeOK
<1>2. WholeGenerations'
  BY NoneIsWhole DEF Point, Give, WholeGenerations
<1>3. Renaming' /\ Restoring' /\ Serving'
  BY DEF Point, Give, Renaming, Restoring, Serving
<1> QED
  BY <1>1, <1>2, <1>3

LEMMA RenamePartKeeps == IInv /\ RenamePart => IInv'
<1> SUFFICES ASSUME IInv, RenamePart PROVE IInv'
  OBVIOUS
<1> USE DEF IInv
<1> DEFINE p == First(Staged, todo)
<1>1. p \in todo /\ p \in Parts /\ pc = "rename"
  BY FirstIsMember DEF RenamePart, TypeOK
<1>2. /\ \/ /\ live' = [live EXCEPT ![p] = job.parts[p]] /\ todo' = todo \ {p}
            /\ UNCHANGED <<pc, job, failed, fails>>
         \/ Fails /\ Give(TRUE) /\ UNCHANGED live
      /\ UNCHANGED <<point, hist, unsynced, source, load, before, after, acked, written,
                     crashes, losses, edits>>
  BY DEF RenamePart
<1> HIDE DEF p
<1>3. p \in DOMAIN job.parts /\ job.parts[p] \in Nat
  BY <1>1 DEF Renaming, TypeOK, IsGeneration
<1>4. TypeOK'
  <2>1. live' \in Contents
    BY <1>2, <1>3 DEF TypeOK, Contents
  <2> QED
    BY <1>1, <1>2, <2>1, GoesOnOrFails DEF TypeOK
<1>5. WholeGenerations'
  BY <1>2, NoneIsWhole DEF WholeGenerations, Give
<1>6. Renaming'
  BY <1>1, <1>2, <1>3 DEF Renaming, Give, TypeOK, IsGeneration, Contents
<1>7. Restoring' /\ Serving'
  BY <1>1, <1>2 DEF Restoring, Serving, Give
<1> QED
  BY <1>4, <1>5, <1>6, <1>7

LEMMA PruneKeeps == IInv /\ Prune => IInv'
<1> SUFFICES ASSUME IInv, Prune PROVE IInv'
  OBVIOUS
<1> USE DEF IInv
<1>1. DOMAIN hist' \subseteq DOMAIN hist /\ \A r \in DOMAIN hist' : hist'[r] = hist[r]
  BY DEF Prune
<1>2. /\ pc = "rename" /\ todo = {} /\ unsynced' \subseteq unsynced /\ acked' = TRUE /\ Give(FALSE)
      /\ UNCHANGED <<live, point, source, load, before, after, written, crashes, losses, fails, edits>>
  BY DEF Prune
<1>3. TypeOK'
  BY <1>1, <1>2, NoneIsWhole DEF TypeOK, Give
<1>4. WholeGenerations'
  BY <1>1, <1>2, NoneIsWhole DEF WholeGenerations, Give
<1>5. Renaming' /\ Restoring'
  BY <1>2 DEF Renaming, Restoring, Give
<1>6. Serving'
  BY <1>2 DEF Serving, Give, Renaming, WholeGenerations, Whole
<1> QED
  BY <1>3, <1>4, <1>5, <1>6

LEMMA DownKeeps ==
    ASSUME IInv, Down, UNCHANGED <<live, point, load, before, after, acked, written, fails, edits>>,
           DOMAIN hist' \subseteq Nat, unsynced' \subseteq Nat \X Parts,
           \A r \in DOMAIN hist' : IsCopy(hist'[r]) /\ Whole(hist'[r].commit),
           crashes' \in Nat, losses' \in Nat
    PROVE  IInv'
<1> USE DEF IInv
<1>1. /\ pc' = "down" /\ todo' = {} /\ source' = 0 /\ failed' \in BOOLEAN
      /\ IsGeneration(job') /\ Whole(job')
  BY NoneIsWhole DEF Down
<1>2. TypeOK'
  BY <1>1 DEF TypeOK
<1>3. WholeGenerations'
  BY <1>1 DEF WholeGenerations
<1>4. Renaming' /\ Restoring' /\ Serving'
  BY <1>1 DEF Renaming, Restoring, Serving
<1> QED
  BY <1>2, <1>3, <1>4

LEMMA KillKeeps == IInv /\ Kill => IInv'
<1> SUFFICES ASSUME IInv, Kill PROVE IInv'
  OBVIOUS
<1>1. /\ crashes' \in Nat /\ losses' \in Nat /\ Down
      /\ UNCHANGED <<live, point, hist, unsynced, load, before, after, acked, written, fails, edits>>
  BY DEF IInv, Kill, disk, TypeOK
<1>2. /\ DOMAIN hist' \subseteq Nat /\ unsynced' \subseteq Nat \X Parts
      /\ \A r \in DOMAIN hist' : IsCopy(hist'[r]) /\ Whole(hist'[r].commit)
  BY <1>1 DEF IInv, TypeOK, WholeGenerations
<1> QED
  BY <1>1, <1>2, DownKeeps

LEMMA PowerLossKeeps == IInv /\ PowerLoss => IInv'
<1> SUFFICES ASSUME IInv, PowerLoss PROVE IInv'
  OBVIOUS
<1>1. /\ crashes' \in Nat /\ losses' \in Nat /\ unsynced' = {} /\ Down
      /\ UNCHANGED <<live, point, load, before, after, acked, written, fails, edits>>
  BY DEF IInv, PowerLoss, TypeOK
<1>2. PICK damaged \in SUBSET unsynced, content \in {0, Garbage} :
         hist' = [r \in DOMAIN hist |->
                    [commit |-> hist[r].commit,
                     parts |-> [p \in Parts |->
                                  IF <<r, p>> \in damaged THEN content ELSE hist[r].parts[p]]]]
  BY DEF PowerLoss
<1>3. ASSUME NEW r \in DOMAIN hist'
      PROVE  IsCopy(hist'[r]) /\ Whole(hist'[r].commit)
  <2> DEFINE parts == [p \in Parts |-> IF <<r, p>> \in damaged THEN content ELSE hist[r].parts[p]]
  <2>1. hist'[r] = [commit |-> hist[r].commit, parts |-> parts]
    BY <1>2, <1>3
  <2>2. IsCopy(hist[r]) /\ Whole(hist[r].commit)
    BY <1>2, <1>3 DEF IInv, TypeOK, WholeGenerations
  <2>3. parts \in Files
    BY <2>2 DEF IsCopy, Files
  <2> HIDE DEF parts
  <2> QED
    BY <2>1, <2>2, <2>3 DEF IsCopy
<1>4. DOMAIN hist' \subseteq Nat
  BY <1>2 DEF IInv, TypeOK
<1> QED
  BY <1>1, <1>3, <1>4, DownKeeps

LEMMA EditKeeps == IInv /\ Edit => IInv'
<1> SUFFICES ASSUME IInv, Edit PROVE IInv'
  OBVIOUS
<1> USE DEF IInv
<1>1. TypeOK'
  <2>1. written' \in Nat /\ edits' \in Nat
    BY DEF Edit, TypeOK
  <2>2. live' = [live EXCEPT !["config"] = written'] /\ live \in Contents
    BY DEF Edit, TypeOK
  <2>3. live' \in Contents
    BY <2>1, <2>2 DEF Contents
  <2> QED
    BY <2>1, <2>3 DEF Edit, TypeOK, process
<1>2. WholeGenerations'
  BY DEF Edit, WholeGenerations, process
<1>3. Renaming' /\ Restoring' /\ Serving'
  BY DEF Edit, process, Renaming, Restoring, Serving
<1> QED
  BY <1>1, <1>2, <1>3

LEMMA ReanchorKeeps == IInv /\ Reanchor => IInv'
<1> SUFFICES ASSUME IInv, Reanchor PROVE IInv'
  OBVIOUS
<1> USE DEF IInv
<1> DEFINE anchored(f) == [p \in DOMAIN f |->
                             IF p \in DOMAIN point.parts /\ live[p] # 0 THEN live[p] ELSE f[p]]
<1>1. /\ point' = [rev |-> point.rev, parts |-> anchored(point.parts), all |-> anchored(point.all)]
      /\ pc = "down" /\ UNCHANGED <<live, hist, unsynced, process, history>>
  BY DEF Reanchor
<1>2. IsGeneration(point) /\ Whole(point) /\ live \in Contents
  BY DEF TypeOK, WholeGenerations
<1>3. anchored(point.all) \in Contents
  BY <1>2 DEF IsGeneration, Contents
<1>4. /\ DOMAIN anchored(point.parts) = DOMAIN point.parts
      /\ \A p \in DOMAIN point.parts : anchored(point.parts)[p] \in Nat
  BY <1>2 DEF IsGeneration, Contents
<1>5. Whole(point')
  <2> SUFFICES ASSUME NEW p \in Required, point'.all[p] # 0
               PROVE  p \in DOMAIN point'.parts /\ point'.parts[p] = point'.all[p]
    BY DEF Whole
  <2>1. p \in Parts /\ p \in DOMAIN point.all
    BY <1>2 DEF IsGeneration, Contents, Required, Parts
  <2>2. CASE p \in DOMAIN point.parts /\ live[p] # 0
    BY <1>1, <2>1, <2>2
  <2>3. CASE ~(p \in DOMAIN point.parts /\ live[p] # 0)
    BY <1>1, <1>2, <2>1, <2>3 DEF Whole
  <2> QED
    BY <2>2, <2>3
<1> HIDE DEF anchored
<1>6. IsGeneration(point')
  BY <1>1, <1>2, <1>3, <1>4 DEF IsGeneration
<1>7. TypeOK'
  BY <1>1, <1>6 DEF TypeOK, process, history
<1>8. WholeGenerations'
  BY <1>1, <1>5 DEF WholeGenerations, process
<1>9. Renaming' /\ Restoring' /\ Serving'
  BY <1>1 DEF process, Renaming, Restoring, Serving
<1> QED
  BY <1>7, <1>8, <1>9

LEMMA BootCurrentKeeps == IInv /\ BootCurrent => IInv'
<1> SUFFICES ASSUME IInv, BootCurrent PROVE IInv'
  OBVIOUS
<1> USE DEF IInv
<1>1. /\ pc' = "idle" /\ todo' = {} /\ source' = 0
      /\ load' \in {"Legacy", "Committed"} /\ (load' = "Committed" => Verify(point, live))
      /\ UNCHANGED <<live, point, hist, unsynced, job, history>>
  BY DEF BootCurrent, Loaded, disk
<1>2. TypeOK'
  BY <1>1 DEF TypeOK, history
<1>3. WholeGenerations'
  BY <1>1 DEF WholeGenerations
<1>4. Serving'
  <2>1. Verify(point, live) => \A p \in Required : point.all[p] # 0 => live[p] = point.all[p]
    BY VerifiedIsWhole DEF WholeGenerations
  <2> QED
    BY <1>1, <2>1 DEF Serving
<1>5. Renaming' /\ Restoring'
  BY <1>1 DEF Renaming, Restoring
<1> QED
  BY <1>2, <1>3, <1>4, <1>5

LEMMA BootRollbackKeeps == IInv /\ BootRollback => IInv'
<1> SUFFICES ASSUME IInv, BootRollback PROVE IInv'
  OBVIOUS
<1> USE DEF IInv
<1>1. PICK r \in Candidates :
         source' = r /\ pc' = "restore" /\ todo' = DOMAIN hist[r].commit.parts
  BY DEF BootRollback
<1>2. UNCHANGED <<live, point, hist, unsynced, job, load, history>>
  BY DEF BootRollback, disk
<1>3. r \in DOMAIN hist /\ r \in Nat /\ Verify(hist[r].commit, hist[r].parts) /\ IsCopy(hist[r])
  BY DEF Candidates, TypeOK
<1>4. TypeOK'
  <2>1. todo' \subseteq Parts
    BY <1>1, <1>3 DEF IsCopy, IsGeneration
  <2> QED
    BY <1>1, <1>2, <1>3, <2>1 DEF TypeOK, history
<1>5. WholeGenerations'
  BY <1>2 DEF WholeGenerations
<1>6. Restoring'
  BY <1>1, <1>2, <1>3 DEF Restoring
<1>7. Renaming' /\ Serving'
  BY <1>1 DEF Renaming, Serving
<1> QED
  BY <1>4, <1>5, <1>6, <1>7

LEMMA BootTornKeeps == IInv /\ BootTorn => IInv'
<1> SUFFICES ASSUME IInv, BootTorn PROVE IInv'
  OBVIOUS
<1>1. /\ pc' = "idle" /\ todo' = {} /\ source' = 0 /\ load' = "Torn"
      /\ UNCHANGED <<live, point, hist, unsynced, job, history>>
  BY DEF BootTorn, Loaded, disk
<1> QED
  BY <1>1 DEF IInv, TypeOK, history, WholeGenerations, Renaming, Restoring, Serving

\* A restore goes on, or fails and starts the service with what is there.
LEMMA RestoreGoesOnOrEnds ==
    ASSUME IInv, pc = "restore",
           UNCHANGED <<point, hist, unsynced, job, before, after, acked, failed, written,
                       crashes, losses, edits>>,
           live' \in Contents,
           \/ /\ UNCHANGED <<source, load, fails>>
              /\ pc' \in {"restore", "repoint"} /\ todo' \subseteq todo
           \/ Fails /\ Loaded("Torn")
    PROVE  IInv'
<1> USE DEF IInv
<1>1. CASE /\ UNCHANGED <<source, load, fails>>
           /\ pc' \in {"restore", "repoint"} /\ todo' \subseteq todo
  <2>1. TypeOK'
    BY <1>1 DEF TypeOK
  <2>2. WholeGenerations'
    BY DEF WholeGenerations
  <2>3. Restoring'
    BY <1>1 DEF Restoring
  <2>4. Renaming' /\ Serving'
    BY <1>1 DEF Renaming, Serving
  <2> QED
    BY <2>1, <2>2, <2>3, <2>4
<1>2. CASE Fails /\ Loaded("Torn")
  <2>1. pc' = "idle" /\ load' = "Torn" /\ todo' = {} /\ source' = 0 /\ fails' \in Nat
    BY <1>2 DEF Fails, Loaded, TypeOK
  <2>2. TypeOK'
    BY <2>1 DEF TypeOK
  <2>3. WholeGenerations'
    BY DEF WholeGenerations
  <2>4. Renaming' /\ Restoring' /\ Serving'
    BY <2>1 DEF Renaming, Restoring, Serving
  <2> QED
    BY <2>2, <2>3, <2>4
<1> QED
  BY <1>1, <1>2

LEMMA RestorePartKeeps == IInv /\ RestorePart => IInv'
<1> SUFFICES ASSUME IInv, RestorePart PROVE IInv'
  OBVIOUS
<1> DEFINE p == First(Listing, todo)
           copy == hist[source].parts[p]
<1>1. p \in todo /\ p \in Parts /\ pc = "restore"
  BY FirstIsMember DEF IInv, RestorePart, TypeOK
<1>2. /\ \/ /\ live' = [live EXCEPT ![p] = IF copy = 0 THEN @ ELSE copy] /\ todo' = todo \ {p}
            /\ UNCHANGED <<pc, source, load, fails>>
         \/ Fails /\ Loaded("Torn") /\ UNCHANGED live
      /\ UNCHANGED <<point, hist, unsynced, job, before, after, acked, failed, written,
                     crashes, losses, edits>>
  BY DEF RestorePart
<1>3. copy \in Nat
  <2>1. /\ source \in DOMAIN hist /\ Verify(hist[source].commit, hist[source].parts)
        /\ p \in DOMAIN hist[source].commit.parts /\ IsGeneration(hist[source].commit)
    BY <1>1 DEF IInv, Restoring, TypeOK, IsCopy
  <2>2. copy = 0 \/ copy = hist[source].commit.parts[p]
    BY <2>1 DEF Verify, Missing
  <2> QED
    BY <2>1, <2>2 DEF IsGeneration
<1> HIDE DEF p, copy
<1>4. live' \in Contents
  BY <1>2, <1>3 DEF IInv, TypeOK, Contents
<1> QED
  BY <1>1, <1>2, <1>4, RestoreGoesOnOrEnds

LEMMA RestoreCleanKeeps == IInv /\ RestoreClean => IInv'
<1> SUFFICES ASSUME IInv, RestoreClean PROVE IInv'
  OBVIOUS
<1>1. live' \in Contents
  BY DEF IInv, RestoreClean, TypeOK, Contents
<1> QED
  BY <1>1, RestoreGoesOnOrEnds DEF RestoreClean

LEMMA RestorePointKeeps == IInv /\ RestorePoint => IInv'
<1> SUFFICES ASSUME IInv, RestorePoint PROVE IInv'
  OBVIOUS
<1> USE DEF IInv
<1> DEFINE g == hist[source].commit
<1>1. /\ pc = "repoint" /\ pc' = "idle" /\ todo' = {} /\ source' = 0
      /\ \/ Verify(g, live) /\ point' = g /\ load' = "RolledBack"
         \/ point' = point /\ load' = "Torn"
      /\ fails' \in {fails, fails + 1}
      /\ UNCHANGED <<live, hist, unsynced, job, before, after, acked, failed, written,
                     crashes, losses, edits>>
  BY DEF RestorePoint, Loaded, Fails
<1>2. IsGeneration(g) /\ Whole(g)
  BY <1>1 DEF Restoring, TypeOK, IsCopy, WholeGenerations
<1> HIDE DEF g
<1>3. IsGeneration(point') /\ Whole(point')
  BY <1>1, <1>2 DEF TypeOK, WholeGenerations
<1>4. fails' \in Nat
  BY <1>1 DEF TypeOK
<1>5. TypeOK'
  BY <1>1, <1>3, <1>4 DEF TypeOK
<1>6. WholeGenerations'
  BY <1>1, <1>3 DEF WholeGenerations
<1>7. Serving'
  <2>1. Verify(g, live) => \A p \in Required : g.all[p] # 0 => live[p] = g.all[p]
    BY <1>2, VerifiedIsWhole
  <2> QED
    BY <1>1, <2>1 DEF Serving
<1>8. Renaming' /\ Restoring'
  BY <1>1 DEF Renaming, Restoring
<1> QED
  BY <1>5, <1>6, <1>7, <1>8

-----------------------------------------------------------------------------
(* The theorems *)

\* Every step of the specification keeps the inductive invariant.
LEMMA StepIInv == IInv /\ [Next]_vars => IInv'
<1> SUFFICES ASSUME IInv, [Next]_vars PROVE IInv'
  OBVIOUS
<1>1. ASSUME NEW plan \in Plans, NEW rev \in Revisions, Begin(plan, rev) PROVE IInv'
  BY <1>1, BeginKeeps
<1>2. CASE Commit
  BY <1>2, CopyPartKeeps, CopyRecordKeeps, PointKeeps, RenamePartKeeps, PruneKeeps DEF Commit
<1>3. CASE Kill \/ PowerLoss \/ Edit \/ Reanchor
  BY <1>3, KillKeeps, PowerLossKeeps, EditKeeps, ReanchorKeeps
<1>4. CASE Startup
  BY <1>4, BootCurrentKeeps, BootRollbackKeeps, BootTornKeeps, RestorePartKeeps,
     RestoreCleanKeeps, RestorePointKeeps DEF Startup
<1>5. CASE UNCHANGED vars
  BY <1>5 DEF vars, disk, process, history, IInv, TypeOK, WholeGenerations, Renaming,
     Restoring, Serving
<1> QED
  BY <1>1, <1>2, <1>3, <1>4, <1>5 DEF Next

\* The inductive invariant holds at every moment, whatever is killed, lost, edited or fails.
THEOREM Invariance == Spec => []IInv
<1> QED
  BY InitIInv, StepIInv, PTL DEF Spec

\* Every file always has contents: a damaged copy of history is never put back.
THEOREM TypeCorrect == Spec => []TypeOK
<1>1. IInv => TypeOK
  BY DEF IInv
<1> QED
  BY <1>1, Invariance, PTL

\* A startup or a commit that succeeds leaves the configuration and the rules of one
\* generation, until the next one replaces the commit point.
THEOREM OneGenerationServed == Spec => []ServedIsWhole
<1>1. IInv => ServedIsWhole
  BY DEF IInv, Serving, ServedIsWhole
<1> QED
  BY <1>1, Invariance, PTL

-----------------------------------------------------------------------------
(* What a startup can put back *)

\* Nothing was damaged or edited.
Calm == losses = 0 /\ edits = 0

\* A commit is newer than the current generation, and its parts have contents.
Newer ==
    /\ acked \/ pc \in {"copy", "rename"} => point.rev # 0
    /\ pc \in {"copy", "point"} => job.rev > point.rev
    /\ pc \in {"copy", "point", "rename"} => \A p \in DOMAIN job.parts : job.parts[p] # 0

\* The parts copied so far are copies of the live ones, as far as these exist ...
Copying ==
    pc = "copy" => \A p \in DOMAIN point.parts \ todo :
                       live[p] # 0 => Kept(point.rev).parts[p] = live[p]

\* ... and history has those of the current generation before it is replaced.
Copied ==
    pc = "point" /\ point.rev # 0 =>
        /\ point.rev \in DOMAIN hist /\ hist[point.rev].commit = point
        /\ \A p \in DOMAIN point.parts : live[p] # 0 => hist[point.rev].parts[p] = live[p]

\* All files of the current generation are there.
Intact == Verify(point, live) /\ Missing(point, live) = {}

\* The current generation is there, or there is one in history that a startup accepts; while
\* parts are renamed, and while one is put back, there is one in history.
Available ==
    /\ acked => Intact \/ Candidates # {}
    /\ pc = "rename" /\ acked => Candidates # {}
    /\ pc \in {"restore", "repoint"} => source \in Candidates

AInv == Calm => Newer /\ Copying /\ Copied /\ Available

\* Candidates are a matter of history and the commit point alone.
LEMMA CandidatesStay ==
    ASSUME UNCHANGED <<hist, point>> PROVE Candidates' = Candidates
BY DEF Candidates, Verify, Missing

\* A startup, a kill and a commit that fails change nothing of it.
LEMMA StandstillKeeps ==
    ASSUME AInv, UNCHANGED <<live, point, hist, acked, losses, edits>>,
           pc' \in {"idle", "down"} \/ UNCHANGED <<pc, todo, job, source>>
    PROVE  AInv'
<1> SUFFICES ASSUME Calm' PROVE (Newer /\ Copying /\ Copied /\ Available)'
  BY DEF AInv
<1>1. Newer /\ Copying /\ Copied /\ Available
  BY DEF AInv, Calm
<1>2. Candidates' = Candidates
  BY CandidatesStay
<1>3. Newer' /\ Copying' /\ Copied'
  BY <1>1 DEF Newer, Copying, Copied, Kept
<1>4. Available'
  BY <1>1, <1>2 DEF Available, Intact, Verify, Missing
<1> QED
  BY <1>3, <1>4

\* History changes at the current revision only: what is older stays a candidate.
LEMMA OlderStay ==
    ASSUME TypeOK, NEW h, hist' = With(point.rev, h), UNCHANGED point
    PROVE  Candidates \subseteq Candidates'
<1> SUFFICES ASSUME NEW r \in Candidates PROVE r \in Candidates'
  OBVIOUS
<1>1. /\ r \in DOMAIN hist /\ r < point.rev /\ hist[r].commit.rev # 0
      /\ Verify(hist[r].commit, hist[r].parts)
  BY DEF Candidates
<1>2. r \in Nat /\ point.rev \in Nat
  BY <1>1 DEF TypeOK, IsGeneration
<1>3. r \in DOMAIN hist' /\ hist'[r] = hist[r]
  BY <1>1, <1>2 DEF With
<1> QED
  BY <1>1, <1>3 DEF Candidates, Verify, Missing

LEMMA BeginAvailable ==
    ASSUME IInv, AInv, NEW plan \in Plans, NEW rev \in Revisions, Begin(plan, rev)
    PROVE  AInv'
<1> SUFFICES ASSUME Calm' PROVE (Newer /\ Copying /\ Copied /\ Available)'
  BY DEF AInv
<1>1. UNCHANGED <<live, point, hist, source, acked, losses, edits>>
  BY DEF Begin
<1>2. Newer /\ Copying /\ Copied /\ Available
  BY <1>1 DEF AInv, Calm
<1>3. TypeOK /\ point.rev \in Nat
  BY DEF IInv, TypeOK, IsGeneration
<1>4. rev > point.rev
  <2>1. CASE rev = point.rev + 1
    BY <1>3, <2>1
  <2>2. CASE rev # point.rev + 1
    <3>1. PICK r \in DOMAIN hist \cup {point.rev} :
             rev = r + 1 /\ \A s \in DOMAIN hist \cup {point.rev} : s <= r
      BY <2>2 DEF Revisions
    <3>2. r \in Nat /\ point.rev <= r
      BY <1>3, <3>1 DEF TypeOK
    <3> QED
      BY <1>3, <3>1, <3>2
  <2> QED
    BY <2>1, <2>2
<1> DEFINE wanted == [p \in Parts |-> IF p \in plan THEN written + 1 ELSE live[p]]
<1>6. job' = [rev |-> rev, parts |-> [p \in Listed(plan) |-> wanted[p]], all |-> wanted]
  BY DEF Begin
<1>7. \A p \in Listed(plan) : p \in Parts /\ wanted[p] # 0
  BY <1>3 DEF Listed, Plans, Parts, TypeOK, Contents
<1>8. job'.rev = rev /\ \A p \in DOMAIN job'.parts : job'.parts[p] # 0
  <2> HIDE DEF wanted
  <2> QED
    BY <1>6, <1>7
<1>9. /\ pc' \in {"copy", "point"} /\ (pc' = "copy" <=> point.rev # 0)
      /\ pc' = "copy" => todo' = DOMAIN point.parts
  BY DEF Begin
<1>10. Newer'
  BY <1>1, <1>2, <1>4, <1>8, <1>9 DEF Newer
<1>11. Copying' /\ Copied'
  BY <1>1, <1>9 DEF Copying, Copied
<1>12. Candidates' = Candidates
  BY <1>1, CandidatesStay
<1>13. Available'
  BY <1>1, <1>2, <1>9, <1>12 DEF Available, Intact, Verify, Missing
<1> QED
  BY <1>10, <1>11, <1>13

LEMMA CopyPartAvailable == IInv /\ AInv /\ CopyPart => AInv'
<1> SUFFICES ASSUME IInv, AInv, CopyPart, Calm'
             PROVE  (Newer /\ Copying /\ Copied /\ Available)'
  BY DEF AInv
<1> DEFINE p == First(Listing, todo)
           old == Kept(point.rev)
           copy(c) == [commit |-> old.commit,
                       parts |-> [old.parts EXCEPT ![p] = IF live[p] = 0 THEN @ ELSE c]]
<1>1. p \in todo /\ p \in Parts /\ pc = "copy"
  BY FirstIsMember DEF CopyPart, IInv, TypeOK
<1>2. PICK c \in {live[p], Garbage} :
        /\ hist' = With(point.rev, copy(c))
        /\ \/ c = live[p] /\ todo' = todo \ {p} /\ UNCHANGED <<pc, job>>
           \/ pc' = "idle"
  BY DEF CopyPart, Give
<1>3. UNCHANGED <<live, point, source, acked, losses, edits>>
  BY DEF CopyPart
<1>4. Newer /\ Copying /\ Copied /\ Available
  BY <1>3 DEF AInv, Calm
<1>5. TypeOK /\ point.rev \in Nat
  BY DEF IInv, TypeOK, IsGeneration
<1>6. IsCopy(old)
  BY <1>5, KeptIsCopy DEF IInv
<1> HIDE DEF old, p
<1>8. /\ DOMAIN copy(c).parts = Parts
      /\ \A q \in Parts : copy(c).parts[q] = IF q = p /\ live[p] # 0 THEN c ELSE old.parts[q]
  BY <1>1, <1>6 DEF IsCopy, Files
<1>9. Kept(point.rev)' = copy(c)
  BY <1>2, <1>3 DEF Kept, With
<1> HIDE DEF copy
<1>11. Newer'
  BY <1>1, <1>2, <1>3, <1>4 DEF Newer
<1>12. Copying'
  <2> SUFFICES ASSUME pc' = "copy", NEW q \in DOMAIN point.parts \ todo', live[q] # 0
               PROVE  Kept(point.rev)'.parts[q] = live[q]
    BY <1>3 DEF Copying
  <2>1. c = live[p] /\ todo' = todo \ {p} /\ q \in Parts
    BY <1>2, <1>5 DEF TypeOK, IsGeneration
  <2>2. CASE q = p
    BY <1>8, <1>9, <2>1, <2>2
  <2>3. CASE q # p
    <3>1. old.parts[q] = live[q]
      BY <1>1, <1>4, <2>1, <2>3 DEF Copying, old
    <3> QED
      BY <1>8, <1>9, <2>1, <2>3, <3>1
  <2> QED
    BY <2>2, <2>3
<1>13. Copied'
  BY <1>1, <1>2 DEF Copied
<1>14. Available'
  <2>1. Candidates \subseteq Candidates'
    BY <1>2, <1>3, <1>5, OlderStay
  <2> QED
    BY <1>1, <1>2, <1>3, <1>4, <2>1 DEF Available, Intact, Verify, Missing
<1> QED
  BY <1>11, <1>12, <1>13, <1>14

LEMMA CopyRecordAvailable == IInv /\ AInv /\ CopyRecord => AInv'
<1> SUFFICES ASSUME IInv, AInv, CopyRecord PROVE AInv'
  OBVIOUS
<1>1. /\ pc = "copy" /\ todo = {}
      /\ UNCHANGED <<live, point, source, acked, losses, edits>>
  BY DEF CopyRecord
<1>2. CASE pc' = "idle" /\ UNCHANGED hist
  BY <1>1, <1>2, StandstillKeeps
<1>3. CASE /\ hist' = With(point.rev, [commit |-> point, parts |-> Kept(point.rev).parts])
           /\ pc' = "point" /\ UNCHANGED <<todo, job>>
  <2> SUFFICES ASSUME Calm' PROVE (Newer /\ Copying /\ Copied /\ Available)'
    BY DEF AInv
  <2>1. Newer /\ Copying /\ Copied /\ Available
    BY <1>1 DEF AInv, Calm
  <2> DEFINE h == [commit |-> point, parts |-> Kept(point.rev).parts]
  <2>2. /\ h.commit = point /\ h.parts = Kept(point.rev).parts
        /\ hist' = With(point.rev, h)
    BY <1>3
  <2> HIDE DEF h
  <2>3. /\ point.rev \in DOMAIN hist' /\ hist'[point.rev] = h
        /\ \A r \in DOMAIN hist' : r # point.rev => r \in DOMAIN hist /\ hist'[r] = hist[r]
    BY <2>2 DEF With
  <2>5. Newer' /\ Copying'
    BY <1>1, <1>3, <2>1 DEF Newer, Copying
  <2>6. Copied'
    BY <1>1, <2>1, <2>2, <2>3 DEF Copied, Copying
  <2>7. Candidates \subseteq Candidates'
    BY <1>1, <2>2, OlderStay DEF IInv
  <2>8. Available'
    BY <1>1, <1>3, <2>1, <2>7 DEF Available, Intact, Verify, Missing
  <2> QED
    BY <2>5, <2>6, <2>8
<1> QED
  BY <1>2, <1>3 DEF CopyRecord, Give

\* The old generation was intact, and history has all of it, or an older one was there and
\* still is older.
LEMMA PointAvailable == IInv /\ AInv /\ Point => AInv'
<1> SUFFICES ASSUME IInv, AInv, Point PROVE AInv'
  OBVIOUS
<1>1. pc = "point" /\ UNCHANGED <<live, hist, source, acked, losses, edits>>
  BY DEF Point
<1>2. CASE pc' = "idle" /\ UNCHANGED point
  BY <1>1, <1>2, StandstillKeeps
<1>3. CASE point' = job /\ pc' = "rename" /\ UNCHANGED job
  <2> SUFFICES ASSUME Calm' PROVE (Newer /\ Copying /\ Copied /\ Available)'
    BY DEF AInv
  <2>1. Newer /\ Copying /\ Copied /\ Available
    BY <1>1 DEF AInv, Calm
  <2>2. point.rev \in Nat /\ job.rev \in Nat /\ job.rev > point.rev
    BY <1>1, <2>1 DEF IInv, TypeOK, IsGeneration, Newer
  <2>3. (Newer /\ Copying /\ Copied)'
    BY <1>1, <1>3, <2>1, <2>2 DEF Newer, Copying, Copied
  <2>4. Candidates \subseteq Candidates'
    <3> SUFFICES ASSUME NEW r \in Candidates PROVE r \in Candidates'
      OBVIOUS
    <3>1. /\ r \in DOMAIN hist /\ r < point.rev /\ hist[r].commit.rev # 0
          /\ Verify(hist[r].commit, hist[r].parts) /\ r \in Nat
      BY DEF Candidates, IInv, TypeOK
    <3>2. r < point'.rev
      BY <1>3, <2>2, <3>1
    <3> QED
      BY <1>1, <3>1, <3>2 DEF Candidates, Verify, Missing
  <2>5. ASSUME acked, Intact PROVE point.rev \in Candidates'
    <3>1. /\ point.rev \in DOMAIN hist /\ hist[point.rev].commit = point /\ point.rev # 0
          /\ \A p \in DOMAIN point.parts : hist[point.rev].parts[p] = live[p]
      BY <1>1, <2>1, <2>5 DEF Copied, Newer, Intact, Missing
    <3>2. Verify(point, hist[point.rev].parts)
      BY <2>5, <3>1 DEF Intact, Verify, Missing
    <3>3. point.rev < point'.rev
      BY <1>3, <2>2
    <3> QED
      BY <1>1, <3>1, <3>2, <3>3 DEF Candidates, Verify, Missing
  <2>6. Available'
    BY <1>1, <1>3, <2>1, <2>4, <2>5 DEF Available
  <2> QED
    BY <2>3, <2>6
<1> QED
  BY <1>2, <1>3 DEF Point, Give

\* A step that changes files and leaves the commit point and history alone.
LEMMA FilesAvailable ==
    ASSUME AInv, UNCHANGED <<point, hist, acked, losses, edits>>,
           pc \in {"rename", "restore", "repoint"},
           \/ pc' = "idle"
           \/ pc = "rename" /\ pc' = "rename" /\ UNCHANGED job
           \/ pc # "rename" /\ pc' \in {"restore", "repoint"} /\ UNCHANGED source
    PROVE  AInv'
<1> SUFFICES ASSUME Calm' PROVE (Newer /\ Copying /\ Copied /\ Available)'
  BY DEF AInv
<1>1. Newer /\ Copying /\ Copied /\ Available
  BY DEF AInv, Calm
<1>2. Candidates' = Candidates
  BY CandidatesStay
<1>3. Newer' /\ Copying' /\ Copied'
  BY <1>1 DEF Newer, Copying, Copied
<1>4. Available'
  BY <1>1, <1>2 DEF Available, Intact, Verify, Missing
<1> QED
  BY <1>3, <1>4

LEMMA RenamePartAvailable == IInv /\ AInv /\ RenamePart => AInv'
<1> SUFFICES ASSUME IInv, AInv, RenamePart PROVE AInv'
  OBVIOUS
<1>1. /\ pc = "rename" /\ (pc' = "idle" \/ UNCHANGED <<pc, job>>)
      /\ UNCHANGED <<point, hist, acked, losses, edits>>
  BY DEF RenamePart, Give
<1> QED
  BY <1>1, FilesAvailable

\* With all parts renamed the current generation is intact.
LEMMA PruneAvailable == IInv /\ AInv /\ Prune => AInv'
<1> SUFFICES ASSUME IInv, AInv, Prune, Calm'
             PROVE  (Newer /\ Copying /\ Copied /\ Available)'
  BY DEF AInv
<1>1. /\ pc = "rename" /\ todo = {} /\ pc' = "idle"
      /\ DOMAIN hist' \subseteq DOMAIN hist /\ \A r \in DOMAIN hist' : hist'[r] = hist[r]
      /\ UNCHANGED <<live, point, source, losses, edits>>
  BY DEF Prune, Give
<1>2. Newer
  BY <1>1 DEF AInv, Calm
<1>3. Newer' /\ Copying' /\ Copied'
  BY <1>1, <1>2 DEF Newer, Copying, Copied
<1>4. Intact
  BY <1>1, <1>2 DEF IInv, Renaming, Newer, Intact, Verify, Missing
<1>5. Available'
  BY <1>1, <1>4 DEF Available, Intact, Verify, Missing
<1> QED
  BY <1>3, <1>5

LEMMA BootRollbackAvailable == AInv /\ BootRollback => AInv'
<1> SUFFICES ASSUME AInv, BootRollback, Calm'
             PROVE  (Newer /\ Copying /\ Copied /\ Available)'
  BY DEF AInv
<1>1. /\ pc' = "restore" /\ source' \in Candidates
      /\ UNCHANGED <<live, point, hist, acked, losses, edits>>
  BY DEF BootRollback, disk, history
<1>2. Newer /\ Copying /\ Copied /\ Available
  BY <1>1 DEF AInv, Calm
<1>3. Candidates' = Candidates
  BY <1>1, CandidatesStay
<1>4. Newer' /\ Copying' /\ Copied'
  BY <1>1, <1>2 DEF Newer, Copying, Copied
<1>5. Available'
  BY <1>1, <1>2, <1>3 DEF Available, Intact, Verify, Missing
<1> QED
  BY <1>4, <1>5

LEMMA RestorePartAvailable == AInv /\ RestorePart => AInv'
<1> SUFFICES ASSUME AInv, RestorePart PROVE AInv'
  OBVIOUS
<1>1. /\ pc = "restore" /\ (pc' = "idle" \/ UNCHANGED <<pc, source>>)
      /\ UNCHANGED <<point, hist, acked, losses, edits>>
  BY DEF RestorePart, Loaded
<1> QED
  BY <1>1, FilesAvailable

LEMMA RestoreCleanAvailable == AInv /\ RestoreClean => AInv'
<1> SUFFICES ASSUME AInv, RestoreClean PROVE AInv'
  OBVIOUS
<1>1. /\ pc = "restore"
      /\ pc' = "idle" \/ (pc' = "repoint" /\ UNCHANGED source)
      /\ UNCHANGED <<point, hist, acked, losses, edits>>
  BY DEF RestoreClean, Loaded
<1> QED
  BY <1>1, FilesAvailable

LEMMA RestorePointAvailable == IInv /\ AInv /\ RestorePoint => AInv'
<1> SUFFICES ASSUME IInv, AInv, RestorePoint PROVE AInv'
  OBVIOUS
<1> DEFINE g == hist[source].commit
<1>1. /\ pc = "repoint" /\ pc' = "idle"
      /\ UNCHANGED <<live, hist, acked, losses, edits>>
      /\ (Verify(g, live) /\ Missing(g, live) = {} /\ point' = g) \/ UNCHANGED point
  BY DEF RestorePoint, Loaded
<1>2. CASE UNCHANGED point
  BY <1>1, <1>2, StandstillKeeps
<1>3. CASE Verify(g, live) /\ Missing(g, live) = {} /\ point' = g
  <2> SUFFICES ASSUME Calm' PROVE (Newer /\ Copying /\ Copied /\ Available)'
    BY DEF AInv
  <2>1. Newer /\ Available
    BY <1>1 DEF AInv, Calm
  <2>2. g.rev # 0
    BY <1>1, <2>1 DEF Available, Candidates
  <2> HIDE DEF g
  <2>3. Newer' /\ Copying' /\ Copied'
    BY <1>1, <1>3, <2>1, <2>2 DEF Newer, Copying, Copied
  <2>4. Available'
    BY <1>1, <1>3 DEF Available, Intact, Verify, Missing
  <2> QED
    BY <2>3, <2>4
<1> QED
  BY <1>1, <1>2, <1>3

LEMMA StepAInv == IInv /\ AInv /\ [Next]_vars => AInv'
<1> SUFFICES ASSUME IInv, AInv, [Next]_vars PROVE AInv'
  OBVIOUS
<1>1. ASSUME NEW plan \in Plans, NEW rev \in Revisions, Begin(plan, rev) PROVE AInv'
  BY <1>1, BeginAvailable
<1>2. CASE Commit
  BY <1>2, CopyPartAvailable, CopyRecordAvailable, PointAvailable, RenamePartAvailable,
     PruneAvailable DEF Commit
<1>3. CASE Kill \/ BootCurrent \/ BootTorn
  <2>1. /\ pc' \in {"idle", "down"}
        /\ UNCHANGED <<live, point, hist, acked, losses, edits>>
    BY <1>3 DEF Kill, Down, BootCurrent, BootTorn, Loaded, disk, history
  <2> QED
    BY <2>1, StandstillKeeps
<1>4. CASE PowerLoss \/ Edit \/ Reanchor
  <2>1. losses \in Nat /\ edits \in Nat
    BY DEF IInv, TypeOK
  <2>2. ~Calm'
    BY <1>4, <2>1 DEF PowerLoss, Edit, Reanchor, Calm, history
  <2> QED
    BY <2>2 DEF AInv
<1>5. CASE BootRollback \/ RestorePart \/ RestoreClean \/ RestorePoint
  BY <1>5, BootRollbackAvailable, RestorePartAvailable, RestoreCleanAvailable,
     RestorePointAvailable
<1>6. CASE UNCHANGED vars
  BY <1>6, StandstillKeeps DEF vars, disk, process, history
<1> QED
  BY <1>1, <1>2, <1>3, <1>4, <1>5, <1>6 DEF Next, Startup

\* At every moment after the first acknowledged commit, inside a commit or a startup and
\* after any number of kills and failed operations, a startup finds a generation: the
\* copies are complete before commit.json is replaced, and are pruned only after the last
\* rename.
THEOREM GenerationAlwaysThere == Spec => []AlwaysAvailable
<1>1. Init => AInv
  BY DEF Init, AInv, Newer, Copying, Copied, Available
<1>2. AInv => AlwaysAvailable
  BY DEF AInv, Calm, Available, Intact, AlwaysAvailable
<1> QED
  BY <1>1, <1>2, StepAInv, Invariance, PTL DEF Spec

-----------------------------------------------------------------------------
(* What kills alone can do *)

Quiet == Calm /\ fails = 0

\* The parts no startup deletes.
Lasting == IF SubInStateDir THEN Required ELSE Parts

\* The generations history has a record of, the parts it has a copy of, and the generation
\* a startup would put back.
Recorded(r) == r \in DOMAIN hist /\ hist[r].commit.rev # 0
Saved(r, p) == p \in DOMAIN hist[r].commit.parts /\ hist[r].parts[p] # 0
Newest == {r \in Candidates : \A s \in Candidates : s <= r}

\* A generation is filed under its revision and always lists config.json.
Filed ==
    /\ live["config"] # 0
    /\ point.rev = 0 => DOMAIN point.parts = {}
    /\ point.rev # 0 => "config" \in DOMAIN point.parts
    /\ \A r \in DOMAIN hist :
          Recorded(r) => hist[r].commit.rev = r /\ "config" \in DOMAIN hist[r].commit.parts

\* Every commit writes a new config.json: its content tells the generations apart.
Distinct ==
    /\ \A r, s \in DOMAIN hist : Recorded(r) /\ Recorded(s) /\ r # s =>
          hist[r].commit.parts["config"] # hist[s].commit.parts["config"]
    /\ \A r \in DOMAIN hist : Recorded(r) /\ hist[r].commit # point =>
          point.rev # 0 /\ hist[r].commit.parts["config"] # point.parts["config"]
    /\ \A r \in DOMAIN hist : Recorded(r) => hist[r].commit.parts["config"] <= written
    /\ point.rev # 0 => point.parts["config"] <= written

\* What a rollback left behind under a revision that is used again is never put back.
Stale ==
    \A r \in DOMAIN hist : Recorded(r) /\ r >= point.rev /\ hist[r].commit # point =>
        /\ ~Verify(hist[r].commit, hist[r].parts)
        /\ hist[r].commit.parts["config"] # live["config"]

\* Copies of a current generation that is not intact are copies of what is live, and that
\* is what the last rollback made of it.
Own ==
    Recorded(point.rev) /\ hist[point.rev].commit = point /\ ~Verify(point, live) =>
        /\ \A p \in DOMAIN point.parts : live[p] # 0 => hist[point.rev].parts[p] = live[p]
        /\ \A r \in Newest, p \in Parts : Saved(r, p) => hist[r].parts[p] = live[p]

\* The current generation lists the required parts that exist.
ListsLive ==
    point.rev # 0 => \A p \in Required : live[p] # 0 => p \in DOMAIN point.parts

\* A required part that does not exist never did.
Absent == \A p \in Required : live[p] = 0 => \A r \in DOMAIN hist : hist[r].parts[p] = 0

Disk == Filed /\ Distinct /\ Stale /\ Own /\ ListsLive /\ Absent

\* The job of a commit, and how far its renames are.
Drafted ==
    pc \in {"copy", "point", "rename"} =>
        /\ "config" \in DOMAIN job.parts /\ job.parts["config"] <= written
        /\ \A p \in Required : live[p] # 0 => p \in DOMAIN job.parts
        /\ \A r \in DOMAIN hist : Recorded(r) =>
              hist[r].commit.parts["config"] # job.parts["config"]
        /\ job.all = after
        /\ \A p \in Parts : IF p \in DOMAIN job.parts THEN job.parts[p] = after[p]
                            ELSE after[p] = before[p]
        /\ "sub" \in DOMAIN job.parts => after["rules"] = before["rules"]
        /\ pc # "rename" =>
              live = before /\ (point.rev # 0 => job.parts["config"] # point.parts["config"])
        /\ pc = "rename" =>
              /\ \A p \in todo : live[p] = before[p]
              /\ todo = {} \/ "rules" \in todo \/ "rules" \notin DOMAIN job.parts

\* Every part is as the last commit found it or as it wants it; while the current
\* generation is not intact, the rules are as it found them.
Between ==
    /\ \A p \in Lasting : live[p] \in {before[p], after[p]}
    /\ \A p \in Required : before[p] # 0 => after[p] # 0
    /\ point.all = after \/ \A p \in Required : live[p] = before[p]
    /\ ~Verify(point, live) => live["rules"] = before["rules"]
    /\ pc = "idle" /\ ~Verify(point, live) /\ Candidates # {} => live["config"] = before["config"]

\* Putting back a generation undoes the last commit, ...
Undoes(r) ==
    /\ \A p \in Required : IF before[p] # 0 THEN Saved(r, p) /\ hist[r].parts[p] = before[p]
                           ELSE ~Saved(r, p)
    /\ ~SubInStateDir /\ Saved(r, "sub") => hist[r].parts["sub"] \in {before["sub"], live["sub"]}

\* ... or has been done already.
Agrees(r) ==
    /\ \A p \in Required : live[p] # 0 => Saved(r, p)
    /\ \A p \in Parts : Saved(r, p) => hist[r].parts[p] = live[p]

Back ==
    /\ pc \in {"idle", "copy", "point"} /\ ~Verify(point, live) => \A r \in Newest : Agrees(r)
    /\ pc = "rename" \/ ~Verify(point, live) => \A r \in Newest : Undoes(r)
    /\ pc \in {"restore", "repoint"} =>
          /\ source \in Newest /\ ~Verify(point, live)
          /\ \A p \in DOMAIN hist[source].commit.parts \ todo :
                Saved(source, p) => live[p] = hist[source].parts[p]
    /\ pc = "repoint" => todo = {}

\* The subscriptions are optional, and a rollback may delete them.  A copy of them is one of
\* a generation that can be put back, or of the current one.
Copies ==
    \A r \in DOMAIN hist : hist[r].parts["sub"] # 0 =>
        \/ r \in Candidates /\ Saved(r, "sub")
        \/ /\ r = point.rev /\ Verify(point, live) /\ "sub" \in DOMAIN point.parts
           /\ hist[r].parts["sub"] = live["sub"]

Subs ==
    /\ point.rev = 0 => live["sub"] = 0
    /\ Copies
    /\ pc = "copy" => todo \subseteq DOMAIN point.parts
    /\ pc = "rename" /\ point.rev \in DOMAIN hist => hist[point.rev].parts["sub"] = 0
    /\ ~Verify(point, live) /\ live["sub"] # 0 =>
          /\ Newest # {}
          /\ \A r \in Newest : "sub" \in DOMAIN hist[r].commit.parts => Saved(r, "sub")
    /\ pc \in {"idle", "copy", "point"} /\ ~Verify(point, live) =>
          \A r \in Newest : "sub" \in DOMAIN hist[r].commit.parts /\ ~Saved(r, "sub")

CInv == Quiet => Disk /\ Drafted /\ Between /\ Back /\ Subs

\* Nothing but kills so far means nothing but kills before.
LEMMA QuietBefore ==
    ASSUME IInv, [Next]_vars, Quiet' PROVE Quiet /\ UNCHANGED <<fails, losses, edits>>
<1>1. fails \in Nat /\ losses \in Nat /\ edits \in Nat
  BY DEF IInv, TypeOK
<1>2. fails' = 0 /\ losses' = 0 /\ edits' = 0
  BY DEF Quiet, Calm
<1>3. fails' >= fails /\ losses' >= losses /\ edits' >= edits
  <2>1. ASSUME NEW plan \in Plans, NEW rev \in Revisions, Begin(plan, rev)
        PROVE  UNCHANGED <<fails, losses, edits>>
    BY <2>1 DEF Begin
  <2>2. CASE Commit \/ RestorePart \/ RestoreClean \/ RestorePoint
    <3>1. UNCHANGED <<losses, edits>> /\ (fails' = fails \/ fails' = fails + 1)
      BY <2>2 DEF Commit, CopyPart, CopyRecord, Point, RenamePart, Prune, RestorePart,
                  RestoreClean, RestorePoint, Fails
    <3> QED
      BY <1>1, <3>1
  <2>3. CASE Kill \/ PowerLoss \/ Edit \/ Reanchor \/ BootCurrent \/ BootRollback \/ BootTorn
    <3>1. /\ UNCHANGED fails /\ (losses' = losses \/ losses' = losses + 1)
          /\ edits' = edits \/ edits' = edits + 1
      BY <2>3 DEF Kill, PowerLoss, Edit, Reanchor, BootCurrent, BootRollback, BootTorn, history
    <3> QED
      BY <1>1, <3>1
  <2>4. CASE UNCHANGED vars
    BY <1>1, <2>4 DEF vars, history
  <2> QED
    BY <1>1, <2>1, <2>2, <2>3, <2>4 DEF Next, Startup
<1> QED
  BY <1>1, <1>2, <1>3 DEF Quiet, Calm

LEMMA Mismatch ==
    ASSUME NEW g, NEW files, "config" \in DOMAIN g.parts,
           files["config"] # 0, files["config"] # g.parts["config"]
    PROVE  ~Verify(g, files)
BY DEF Verify, Missing

\* There is one newest candidate, older than the current generation and recorded.
LEMMA NewestIs ==
    ASSUME TypeOK, Disk, NEW r \in Newest
    PROVE  /\ r \in Candidates /\ Recorded(r) /\ r \in Nat /\ r < point.rev /\ point.rev \in Nat
           /\ hist[r].commit # point /\ point.rev # 0
           /\ Verify(hist[r].commit, hist[r].parts)
           /\ Newest = {r}
<1>1. /\ r \in Candidates /\ Recorded(r) /\ r < point.rev
      /\ Verify(hist[r].commit, hist[r].parts)
  BY DEF Newest, Candidates, Recorded
<1>2. r \in Nat /\ point.rev \in Nat
  BY <1>1 DEF TypeOK, IsGeneration, Recorded
<1>3. hist[r].commit # point /\ point.rev # 0
  BY <1>1, <1>2 DEF Disk, Filed, Recorded
<1>4. ASSUME NEW s \in Newest PROVE s = r
  <2>1. s \in Nat /\ s <= r /\ r <= s
    BY <1>1, <1>4 DEF Newest, Candidates, TypeOK
  <2> QED
    BY <1>2, <2>1
<1> QED
  BY <1>1, <1>2, <1>3, <1>4

\* What depends on history and the commit point alone.
LEMMA NewestStays ==
    ASSUME UNCHANGED <<hist, point>>
    PROVE  /\ Candidates' = Candidates /\ Newest' = Newest
           /\ \A r : Recorded(r)' <=> Recorded(r)
           /\ \A r, p : Saved(r, p)' <=> Saved(r, p)
BY CandidatesStay DEF Newest, Recorded, Saved

LEMMA DiskStays ==
    ASSUME TypeOK, Disk, UNCHANGED <<live, point, hist>>, written' \in Nat, written' >= written
    PROVE  Disk'
<1>1. /\ Newest' = Newest /\ \A r : Recorded(r)' <=> Recorded(r)
      /\ \A r, p : Saved(r, p)' <=> Saved(r, p)
  BY NewestStays
<1>2. Filed' /\ Stale' /\ ListsLive' /\ Absent'
  BY <1>1 DEF Disk, Filed, Stale, ListsLive, Absent, Verify, Missing
<1>3. Own'
  BY <1>1 DEF Disk, Own, Verify, Missing
<1>4. Distinct'
  <2>1. \A r \in DOMAIN hist : Recorded(r) => hist[r].commit.parts["config"] \in Nat
    BY DEF TypeOK, IsCopy, IsGeneration, Disk, Filed
  <2>2. point.rev # 0 => point.parts["config"] \in Nat
    BY DEF TypeOK, IsGeneration, Disk, Filed
  <2>3. written \in Nat
    BY DEF TypeOK
  <2>4. ASSUME NEW r \in DOMAIN hist, Recorded(r) PROVE hist[r].commit.parts["config"] <= written'
    BY <2>1, <2>3, <2>4 DEF Disk, Distinct
  <2>5. point.rev # 0 => point.parts["config"] <= written'
    BY <2>2, <2>3 DEF Disk, Distinct
  <2> QED
    BY <1>1, <2>4, <2>5 DEF Disk, Distinct
<1> QED
  BY <1>2, <1>3, <1>4 DEF Disk

\* So does what there is of the subscriptions, where no new stage claims more.
LEMMA SubsStay ==
    ASSUME Subs, UNCHANGED <<live, point, hist>>,
           pc' = "copy" => todo' \subseteq DOMAIN point.parts, pc' = "rename" => pc = "rename",
           \/ pc' \notin {"idle", "copy", "point"} \/ pc \in {"idle", "copy", "point"}
           \/ Verify(point, live) \/ Newest = {}
    PROVE  Subs'
<1>1. /\ Newest' = Newest /\ Candidates' = Candidates
      /\ \A r, p : Saved(r, p)' <=> Saved(r, p)
      /\ Verify(point, live)' <=> Verify(point, live)
  BY NewestStays DEF Verify, Missing
<1> QED
  BY <1>1 DEF Subs, Copies

LEMMA InitAtomic == Init => CInv
<1> SUFFICES ASSUME Init PROVE Disk /\ Drafted /\ Between /\ Back /\ Subs
  BY DEF CInv
<1>1. /\ point = NoGeneration /\ DOMAIN hist = {} /\ live["config"] = 1 /\ pc = "idle"
      /\ before = live /\ after = live /\ written = 1
      /\ NoGeneration.rev = 0 /\ DOMAIN NoGeneration.parts = {}
  BY DEF Init, NoGeneration
<1>2. Candidates = {} /\ Verify(point, live)
  BY <1>1 DEF Candidates, Verify, Missing
<1>3. Disk
  BY <1>1, <1>2 DEF Disk, Filed, Distinct, Stale, Own, ListsLive, Absent, Recorded
<1>4. Drafted /\ Between /\ Back
  BY <1>1, <1>2 DEF Drafted, Between, Back
<1>5. Subs
  BY <1>1, <1>2 DEF Init, Subs, Copies
<1> QED
  BY <1>3, <1>4, <1>5

\* A kill, and a startup that puts nothing back.
LEMMA StandstillAtomic ==
    ASSUME IInv, Disk, Drafted, Between, Back,
           UNCHANGED <<live, point, hist, before, after, written>>,
           \/ UNCHANGED <<pc, todo, job, source>>
           \/ pc' = "down"
           \/ pc' = "idle" /\ (Verify(point, live) \/ Candidates = {})
    PROVE  Disk' /\ Drafted' /\ Between' /\ Back'
<1>1. Disk'
  BY DiskStays DEF IInv, TypeOK
<1>2. /\ Newest' = Newest /\ Candidates' = Candidates /\ \A r : Recorded(r)' <=> Recorded(r)
      /\ \A r, p : Saved(r, p)' <=> Saved(r, p)
      /\ Verify(point, live)' <=> Verify(point, live)
  BY NewestStays DEF Verify, Missing
<1>3. /\ \A r : Undoes(r)' <=> Undoes(r)
      /\ \A r : Agrees(r)' <=> Agrees(r)
  BY <1>2 DEF Undoes, Agrees
<1>4. Drafted'
  BY <1>2 DEF Drafted
<1>5. Between'
  BY <1>2 DEF Between
<1>6. Back'
  <2>1. Candidates = {} => Newest = {}
    BY DEF Newest
  <2> QED
    BY <1>2, <1>3, <2>1 DEF Back
<1> QED
  BY <1>1, <1>4, <1>5, <1>6

LEMMA BeginAtomic ==
    ASSUME IInv, Disk, Drafted, Between, Back,
           NEW plan \in Plans, NEW rev \in Revisions, Begin(plan, rev)
    PROVE  Disk' /\ Drafted' /\ Between' /\ Back'
<1> DEFINE wanted == [p \in Parts |-> IF p \in plan THEN written + 1 ELSE live[p]]
<1>1. /\ pc = "idle" /\ UNCHANGED <<live, point, hist>> /\ written' = written + 1
      /\ before' = live /\ after' = wanted /\ pc' \in {"copy", "point"}
      /\ job' = [rev |-> rev, parts |-> [p \in Listed(plan) |-> wanted[p]], all |-> wanted]
  BY DEF Begin
<1>2. TypeOK /\ written \in Nat /\ \A p \in Parts : live[p] \in Nat
  BY DEF IInv, TypeOK, Contents
<1>3. Disk'
  BY <1>1, <1>2, DiskStays
<1>4. \A p \in Parts : wanted[p] = IF p \in plan THEN written + 1 ELSE live[p]
  OBVIOUS
<1>5. /\ "config" \in plan /\ plan \subseteq Parts /\ Listed(plan) \subseteq Parts
      /\ plan \subseteq Listed(plan) /\ (live["rules"] # 0 => "rules" \in Listed(plan))
  BY DEF Plans, Parts, Listed
<1> HIDE DEF wanted
<1>6. /\ DOMAIN job'.parts = Listed(plan) /\ \A p \in Listed(plan) : job'.parts[p] = wanted[p]
      /\ job'.all = wanted
  BY <1>1
<1>7. /\ Newest' = Newest /\ \A r : Recorded(r)' <=> Recorded(r)
      /\ \A r, p : Saved(r, p)' <=> Saved(r, p)
      /\ Verify(point, live)' <=> Verify(point, live)
  BY <1>1, NewestStays DEF Verify, Missing
<1>8. Drafted'
  <2>1. /\ "config" \in DOMAIN job'.parts /\ job'.parts["config"] = written + 1
        /\ \A p \in Required : live'[p] # 0 => p \in DOMAIN job'.parts
    BY <1>1, <1>4, <1>5, <1>6 DEF Required, Parts
  <2>2. \A r \in DOMAIN hist : Recorded(r) => hist[r].commit.parts["config"] # written + 1
    <3>1. \A r \in DOMAIN hist : Recorded(r) => hist[r].commit.parts["config"] \in Nat
      BY <1>2 DEF TypeOK, IsCopy, IsGeneration, Disk, Filed
    <3> QED
      BY <1>2, <3>1 DEF Disk, Distinct
  <2>3. point.rev # 0 => point.parts["config"] # written + 1
    <3>1. point.rev # 0 => point.parts["config"] \in Nat
      BY <1>2 DEF TypeOK, IsGeneration, Disk, Filed
    <3> QED
      BY <1>2, <3>1 DEF Disk, Distinct
  <2>4. \A p \in Parts : IF p \in DOMAIN job'.parts THEN job'.parts[p] = after'[p]
                         ELSE after'[p] = before'[p]
    BY <1>1, <1>4, <1>5, <1>6
  <2>5. "sub" \in DOMAIN job'.parts => after'["rules"] = before'["rules"]
    BY <1>1, <1>4, <1>6 DEF Plans, Listed, Parts
  <2> QED
    BY <1>1, <1>2, <1>6, <1>7, <2>1, <2>2, <2>3, <2>4, <2>5 DEF Drafted
<1>9. Between'
  BY <1>1, <1>2, <1>4 DEF Between, Lasting, Required, Parts
<1>10. Back'
  <2> SUFFICES ASSUME ~Verify(point, live), NEW r \in Newest
               PROVE  Agrees(r)' /\ Undoes(r)'
    BY <1>1, <1>7 DEF Back
  <2>1. Agrees(r)
    BY <1>1 DEF Back
  <2>2. Agrees(r)'
    BY <1>1, <1>7, <2>1 DEF Agrees
  <2>3. Undoes(r)'
    BY <1>1, <1>7, <2>1 DEF Agrees, Undoes, Saved, Required, Parts
  <2> QED
    BY <2>2, <2>3
<1> QED
  BY <1>3, <1>8, <1>9, <1>10

\* What a copy, or the record, of the current generation leaves alone.
LEMMA CopyingStays ==
    ASSUME TypeOK, Disk, NEW h, hist' = With(point.rev, h), UNCHANGED point
    PROVE  /\ Candidates' = Candidates /\ Newest' = Newest
           /\ \A r \in Newest : hist'[r] = hist[r] /\ (\A p : Saved(r, p)' <=> Saved(r, p))
           /\ \A r \in DOMAIN hist' : r # point.rev => r \in DOMAIN hist /\ hist'[r] = hist[r]
           /\ DOMAIN hist' = DOMAIN hist \cup {point.rev} /\ hist'[point.rev] = h
<1>1. /\ \A r \in DOMAIN hist' : r # point.rev => r \in DOMAIN hist /\ hist'[r] = hist[r]
      /\ DOMAIN hist' = DOMAIN hist \cup {point.rev} /\ hist'[point.rev] = h
      /\ \A r \in DOMAIN hist : r # point.rev => hist'[r] = hist[r]
  BY DEF With
<1>2. Candidates' = Candidates
  <2>1. point.rev \in Nat
    BY DEF TypeOK, IsGeneration
  <2> QED
    BY <1>1, <2>1 DEF Candidates, Verify, Missing
<1>3. Newest' = Newest
  BY <1>2 DEF Newest
<1>4. ASSUME NEW r \in Newest
      PROVE  hist'[r] = hist[r] /\ (\A p : Saved(r, p)' <=> Saved(r, p))
  <2>1. r \in DOMAIN hist /\ r # point.rev
    BY NewestIs DEF Recorded
  <2> QED
    BY <1>1, <2>1 DEF Saved
<1> QED
  BY <1>1, <1>2, <1>3, <1>4

\* With the same files and the same candidates, Between and Back need no new argument.
LEMMA CopyingKeepsBack ==
    ASSUME TypeOK, Disk, Between, Back, NEW h, hist' = With(point.rev, h),
           UNCHANGED <<live, point, before, after>>, pc = "copy", pc' \in {"copy", "point"}
    PROVE  Between' /\ Back'
<1>1. /\ Candidates' = Candidates /\ Newest' = Newest
      /\ \A r \in Newest : hist'[r] = hist[r] /\ (\A p : Saved(r, p)' <=> Saved(r, p))
  BY CopyingStays
<1>2. Verify(point, live)' <=> Verify(point, live)
  BY DEF Verify, Missing
<1>3. Between'
  BY <1>1, <1>2 DEF Between
<1>4. ASSUME NEW r \in Newest PROVE (Agrees(r)' <=> Agrees(r)) /\ (Undoes(r)' <=> Undoes(r))
  BY <1>1 DEF Agrees, Undoes
<1>5. Back'
  BY <1>1, <1>2, <1>4 DEF Back
<1> QED
  BY <1>3, <1>5

LEMMA CopyPartAtomic ==
    ASSUME IInv, Quiet, AInv, Disk, Drafted, Between, Back, CopyPart, UNCHANGED fails
    PROVE  Disk' /\ Drafted' /\ Between' /\ Back'
<1> DEFINE p == First(Listing, todo)
           old == Kept(point.rev)
           h == [commit |-> old.commit,
                 parts |-> [old.parts EXCEPT ![p] = IF live[p] = 0 THEN @ ELSE live[p]]]
<1>1. TypeOK /\ WholeGenerations /\ point.rev \in Nat /\ ~Fails
  BY DEF IInv, TypeOK, IsGeneration, Fails
<1>2. /\ hist' = With(point.rev, h) /\ pc = "copy" /\ pc' = "copy" /\ todo' = todo \ {p}
      /\ UNCHANGED <<live, point, job, source, before, after, written>>
  BY <1>1 DEF CopyPart
<1>3. p \in todo /\ p \in Parts /\ todo \subseteq Parts /\ \A q \in todo : Listing[p] <= Listing[q]
  BY <1>1, FirstIsMember DEF CopyPart, TypeOK
<1>4. point.rev # 0 /\ Copying
  BY <1>2 DEF AInv, Newer, Quiet
<1>5. IsCopy(old)
  BY <1>1, KeptIsCopy
<1> HIDE DEF old, p
<1>6. /\ h.commit = old.commit /\ DOMAIN h.parts = Parts
      /\ \A q \in Parts : h.parts[q] = IF q = p /\ live[p] # 0 THEN live[p] ELSE old.parts[q]
  BY <1>3, <1>5 DEF IsCopy, Files
<1> HIDE DEF h
<1>7. /\ Candidates' = Candidates /\ Newest' = Newest
      /\ \A r \in Newest : hist'[r] = hist[r] /\ (\A q : Saved(r, q)' <=> Saved(r, q))
      /\ \A r \in DOMAIN hist' : r # point.rev => r \in DOMAIN hist /\ hist'[r] = hist[r]
      /\ DOMAIN hist' = DOMAIN hist \cup {point.rev} /\ hist'[point.rev] = h
  BY <1>1, <1>2, CopyingStays
<1>8. Between' /\ Back'
  BY <1>1, <1>2, CopyingKeepsBack
<1>9. /\ point.rev \in DOMAIN hist => old = hist[point.rev]
      /\ point.rev \notin DOMAIN hist => old.commit.rev = 0
  BY DEF old, Kept, NoGeneration
<1>10. \A r \in DOMAIN hist' : Recorded(r)' => Recorded(r) /\ hist'[r].commit = hist[r].commit
  BY <1>6, <1>7, <1>9 DEF Recorded
<1>11. h.parts["config"] = live["config"] /\ live["config"] # 0
  <2>1. live["config"] # 0 /\ "config" \in DOMAIN point.parts /\ "config" \in Parts
    BY <1>4 DEF Disk, Filed, Parts
  <2>2. CASE "config" \in todo
    <3>1. Listing[p] <= Listing["config"] => p = "config"
      BY <1>3 DEF Listing, Parts
    <3> QED
      BY <1>3, <1>6, <2>1, <2>2, <3>1
  <2>3. CASE "config" \notin todo
    BY <1>2, <1>3, <1>4, <1>6, <2>1, <2>3 DEF Copying, old
  <2> QED
    BY <2>1, <2>2, <2>3
<1>12. Filed' /\ Distinct' /\ ListsLive'
  BY <1>2, <1>10 DEF Disk, Filed, Distinct, ListsLive, Recorded
<1>16. Absent'
  <2> SUFFICES ASSUME NEW q \in Required, live[q] = 0, NEW r \in DOMAIN hist' PROVE hist'[r].parts[q] = 0
    BY <1>2 DEF Absent
  <2>1. q \in Parts /\ old.parts[q] = 0
    BY DEF Disk, Absent, old, Kept, NoFiles, Required, Parts
  <2>2. h.parts[q] = 0
    BY <1>6, <2>1
  <2> QED
    BY <1>7, <2>2 DEF Disk, Absent
<1>13. Stale'
  <2> SUFFICES ASSUME NEW r \in DOMAIN hist', Recorded(r)', r >= point.rev,
                      hist'[r].commit # point
               PROVE  /\ ~Verify(hist'[r].commit, hist'[r].parts)
                      /\ hist'[r].commit.parts["config"] # live["config"]
    BY <1>2 DEF Stale
  <2>1. Recorded(r) /\ r \in DOMAIN hist /\ hist'[r].commit = hist[r].commit
    BY <1>10 DEF Recorded
  <2>2. hist[r].commit.parts["config"] # live["config"] /\ ~Verify(hist[r].commit, hist[r].parts)
    BY <2>1 DEF Disk, Stale
  <2>3. CASE r # point.rev
    BY <1>7, <2>2, <2>3
  <2>4. CASE r = point.rev
    <3>1. "config" \in DOMAIN hist'[r].commit.parts
      BY <2>1 DEF Disk, Filed
    <3>2. hist'[r].parts["config"] = live["config"]
      BY <1>7, <1>11, <2>4
    <3> QED
      BY <1>11, <2>1, <2>2, <3>1, <3>2, Mismatch
  <2> QED
    BY <2>3, <2>4
<1>14. Own'
  <2> SUFFICES ASSUME Recorded(point.rev)', hist'[point.rev].commit = point, ~Verify(point, live)
               PROVE  /\ \A q \in DOMAIN point.parts :
                             live[q] # 0 => hist'[point.rev].parts[q] = live[q]
                      /\ \A r \in Newest, q \in Parts : Saved(r, q) => hist[r].parts[q] = live[q]
    BY <1>2, <1>7 DEF Own, Verify, Missing
  <2>1. Recorded(point.rev) /\ hist[point.rev].commit = point
    BY <1>2, <1>7, <1>10
  <2>2. /\ \A q \in DOMAIN point.parts : live[q] # 0 => hist[point.rev].parts[q] = live[q]
        /\ \A r \in Newest, q \in Parts : Saved(r, q) => hist[r].parts[q] = live[q]
    BY <2>1 DEF Disk, Own
  <2>3. old = hist[point.rev] /\ DOMAIN point.parts \subseteq Parts
    BY <1>1, <1>9, <2>1 DEF Recorded, TypeOK, IsGeneration
  <2> QED
    BY <1>6, <1>7, <2>2, <2>3
<1>15. Drafted'
  BY <1>2, <1>10 DEF Drafted, Recorded
<1> QED
  BY <1>8, <1>12, <1>13, <1>14, <1>15, <1>16 DEF Disk

LEMMA CopyRecordAtomic ==
    ASSUME IInv, Quiet, AInv, Disk, Drafted, Between, Back, CopyRecord, UNCHANGED fails
    PROVE  Disk' /\ Drafted' /\ Between' /\ Back'
<1> DEFINE h == [commit |-> point, parts |-> Kept(point.rev).parts]
<1>1. TypeOK /\ WholeGenerations /\ point.rev \in Nat /\ ~Fails
  BY DEF IInv, TypeOK, IsGeneration, Fails
<1>2. /\ hist' = With(point.rev, h) /\ pc = "copy" /\ pc' = "point" /\ todo = {}
      /\ UNCHANGED <<live, point, job, source, before, after, written>>
  BY <1>1 DEF CopyRecord
<1>3. point.rev # 0 /\ Copying
  BY <1>2 DEF AInv, Newer, Quiet
<1>4. h.commit = point /\ h.parts = Kept(point.rev).parts
  OBVIOUS
<1> HIDE DEF h
<1>5. /\ Candidates' = Candidates /\ Newest' = Newest
      /\ \A r \in Newest : hist'[r] = hist[r] /\ (\A q : Saved(r, q)' <=> Saved(r, q))
      /\ \A r \in DOMAIN hist' : r # point.rev => r \in DOMAIN hist /\ hist'[r] = hist[r]
      /\ DOMAIN hist' = DOMAIN hist \cup {point.rev} /\ hist'[point.rev] = h
  BY <1>1, <1>2, CopyingStays
<1>6. Between' /\ Back'
  BY <1>1, <1>2, CopyingKeepsBack
<1>7. \A r \in DOMAIN hist' : Recorded(r)' =>
         \/ r = point.rev /\ hist'[r].commit = point
         \/ r # point.rev /\ Recorded(r) /\ hist'[r] = hist[r] /\ hist[r].commit # point
  BY <1>4, <1>5 DEF Recorded, Disk, Filed
<1>8. Filed' /\ Stale' /\ ListsLive'
  BY <1>2, <1>3, <1>7 DEF Disk, Filed, Stale, ListsLive, Recorded
<1>12. Absent'
  <2>1. \A q \in Required : live[q] = 0 => h.parts[q] = 0
    BY <1>4 DEF Disk, Absent, Kept, NoFiles, Required, Parts
  <2> QED
    BY <1>2, <1>5, <2>1 DEF Disk, Absent
<1>9. Distinct'
  <2>1. ASSUME NEW r \in DOMAIN hist', NEW s \in DOMAIN hist', Recorded(r)', Recorded(s)', r # s
        PROVE  hist'[r].commit.parts["config"] # hist'[s].commit.parts["config"]
    <3>1. \A t \in DOMAIN hist : Recorded(t) /\ hist[t].commit # point =>
             hist[t].commit.parts["config"] # point.parts["config"]
      BY DEF Disk, Distinct
    <3> QED
      BY <1>7, <2>1, <3>1 DEF Disk, Distinct, Recorded
  <2> QED
    BY <1>2, <1>3, <1>7, <2>1 DEF Disk, Distinct, Recorded
<1>10. Own'
  <2>1. \A q \in DOMAIN point.parts : live[q] # 0 => h.parts[q] = live[q]
    BY <1>2, <1>3, <1>4 DEF Copying
  <2>2. ~Verify(point, live) =>
           \A r \in Newest, q \in Parts : Saved(r, q) => hist[r].parts[q] = live[q]
    BY <1>2 DEF Back, Agrees
  <2> QED
    BY <1>2, <1>5, <2>1, <2>2 DEF Own, Verify, Missing
<1>11. Drafted'
  BY <1>2, <1>3, <1>7 DEF Drafted, Recorded
<1> QED
  BY <1>6, <1>8, <1>9, <1>10, <1>11, <1>12 DEF Disk

\* The commit point moves on: the old generation becomes a candidate if it was intact, and
\* only then.
LEMMA PointCandidates ==
    ASSUME IInv, Quiet, AInv, Disk, Drafted, Subs, Point, UNCHANGED fails
    PROVE  /\ Candidates \subseteq Candidates'
           /\ \A r \in Candidates' : r \in Candidates \/ (r = point.rev /\ Verify(point, live))
           /\ Verify(point, live) /\ point.rev # 0 => point.rev \in Candidates'
           /\ point.rev \in Candidates' =>
                 /\ point.rev # 0 /\ point.rev \in DOMAIN hist /\ hist[point.rev].commit = point
                 /\ \A p \in DOMAIN point.parts : hist[point.rev].parts[p] = live[p]
<1>1. TypeOK /\ point.rev \in Nat /\ job.rev \in Nat /\ ~Fails /\ DOMAIN point.parts \subseteq Parts
  BY DEF IInv, TypeOK, IsGeneration, Fails
<1>2. /\ pc = "point" /\ point' = job /\ UNCHANGED <<live, hist>>
  BY <1>1 DEF Point
<1>3. job.rev > point.rev /\ Copied
  BY <1>2 DEF AInv, Newer, Quiet
<1>4. /\ \A r \in DOMAIN hist : Recorded(r) => hist[r].commit.rev = r
      /\ \A r \in DOMAIN hist : r \in Nat
  BY <1>1 DEF Disk, Filed, TypeOK
<1>5. Candidates \subseteq Candidates'
  <2> SUFFICES ASSUME NEW r \in Candidates PROVE r \in Candidates'
    OBVIOUS
  <2>1. r \in DOMAIN hist /\ r < job.rev
    BY <1>1, <1>3, <1>4 DEF Candidates
  <2> QED
    BY <1>2, <2>1 DEF Candidates, Verify, Missing
\* A copy of what does not exist would be one of a required part, or of subscriptions that
\* were deleted.
<1>6. ASSUME point.rev # 0, NEW p \in DOMAIN point.parts
      PROVE  hist[point.rev].parts[p] = live[p]
  <2>1. point.rev \in DOMAIN hist /\ (live[p] # 0 => hist[point.rev].parts[p] = live[p])
    BY <1>2, <1>3, <1>6 DEF Copied
  <2>2. CASE p \in Required
    BY <2>1, <2>2 DEF Disk, Absent
  <2>3. CASE p = "sub"
    <3>1. point.rev \notin Candidates
      BY <1>1 DEF Candidates
    <3> QED
      BY <2>1, <2>3, <3>1 DEF Subs, Copies
  <2> QED
    BY <1>1, <2>2, <2>3 DEF Parts, Required
<1>7. ASSUME NEW r \in Candidates', r \notin Candidates
      PROVE  r = point.rev /\ Verify(point, live)
  <2>1. Recorded(r) /\ r \in DOMAIN hist /\ Verify(hist[r].commit, hist[r].parts) /\ r \in Nat
    BY <1>2, <1>4, <1>7 DEF Candidates, Recorded, Verify, Missing
  <2>2. hist[r].commit.rev = r /\ ~(r < point.rev)
    BY <1>4, <1>7, <2>1 DEF Candidates, Recorded
  <2>3. r > point.rev => hist[r].commit # point
    BY <1>1, <2>1, <2>2
  <2>4. r = point.rev
    BY <1>1, <2>1, <2>2, <2>3 DEF Disk, Stale
  <2>5. point.rev # 0 /\ hist[r].commit = point
    BY <1>2, <1>3, <2>1, <2>2, <2>4 DEF Copied, Recorded
  <2>6. \A p \in DOMAIN point.parts : hist[r].parts[p] = live[p]
    BY <1>6, <2>4, <2>5
  <2>7. Verify(point, live)
    BY <2>1, <2>5, <2>6 DEF Verify, Missing
  <2> QED
    BY <2>4, <2>7
<1>8. ASSUME point.rev # 0
      PROVE  point.rev \in DOMAIN hist /\ hist[point.rev].commit = point
  BY <1>2, <1>3, <1>8 DEF Copied
<1>9. ASSUME Verify(point, live), point.rev # 0 PROVE point.rev \in Candidates'
  <2>1. Verify(point, hist[point.rev].parts)
    BY <1>6, <1>9 DEF Verify, Missing
  <2> QED
    BY <1>2, <1>3, <1>8, <1>9, <2>1 DEF Candidates, Verify, Missing
<1>10. ASSUME point.rev \in Candidates' PROVE point.rev # 0
  <2>1. point.rev \in DOMAIN hist /\ Recorded(point.rev)
    BY <1>2, <1>10 DEF Candidates, Recorded
  <2> QED
    BY <1>4, <2>1 DEF Recorded
<1>11. ASSUME point.rev \in Candidates'
       PROVE  /\ point.rev # 0 /\ point.rev \in DOMAIN hist /\ hist[point.rev].commit = point
              /\ \A p \in DOMAIN point.parts : hist[point.rev].parts[p] = live[p]
  <2>1. point.rev # 0
    BY <1>10, <1>11
  <2> QED
    BY <1>6, <1>8, <2>1
<1> QED
  BY <1>5, <1>7, <1>9, <1>11

\* The old generation, if it was intact, is the one to go back
\* to, since history has all of it; otherwise it is the one it was.
LEMMA PointAtomic ==
    ASSUME IInv, Quiet, AInv, Disk, Drafted, Between, Back, Subs, Point, UNCHANGED fails
    PROVE  Disk' /\ Drafted' /\ Between' /\ Back'
<1>1. TypeOK /\ point.rev \in Nat /\ job.rev \in Nat /\ ~Fails
  BY DEF IInv, TypeOK, IsGeneration, Fails
<1>2. /\ pc = "point" /\ pc' = "rename" /\ point' = job /\ todo' = DOMAIN job.parts
      /\ UNCHANGED <<live, hist, job, source, before, after, written>>
  BY <1>1 DEF Point
<1>3. job.rev > point.rev /\ Copied
  BY <1>2 DEF AInv, Newer, Quiet
<1>4. /\ "config" \in DOMAIN job.parts /\ job.parts["config"] <= written
      /\ \A p \in Required : live[p] # 0 => p \in DOMAIN job.parts
      /\ \A r \in DOMAIN hist : Recorded(r) =>
            hist[r].commit.parts["config"] # job.parts["config"]
      /\ job.all = after /\ live = before /\ DOMAIN job.parts \subseteq Parts
  BY <1>1, <1>2 DEF Drafted, TypeOK, IsGeneration
<1>5. \A r : Recorded(r)' <=> Recorded(r)
  BY <1>2 DEF Recorded
<1>6. /\ \A r \in DOMAIN hist : Recorded(r) => hist[r].commit.rev = r /\ hist[r].commit # job
      /\ \A r \in DOMAIN hist : r \in Nat
      /\ point.rev = 0 => \A r \in DOMAIN hist : ~Recorded(r)
  <2>1. \A r \in DOMAIN hist : Recorded(r) => hist[r].commit.rev = r /\ r # 0
    BY DEF Disk, Filed, Recorded
  <2> QED
    BY <1>1, <1>4, <2>1 DEF Disk, Distinct, TypeOK
<1>7. Filed' /\ Distinct' /\ ListsLive'
  <2>1. job.rev # 0
    BY <1>1, <1>3
  <2> QED
    BY <1>2, <1>4, <1>5, <1>6, <2>1 DEF Disk, Filed, Distinct, ListsLive
<1>8. Stale'
  <2> SUFFICES ASSUME NEW r \in DOMAIN hist, Recorded(r), r >= job.rev
               PROVE  /\ ~Verify(hist[r].commit, hist[r].parts)
                      /\ hist[r].commit.parts["config"] # live["config"]
    BY <1>2, <1>5 DEF Stale
  <2>1. r > point.rev /\ hist[r].commit # point
    BY <1>1, <1>3, <1>6
  <2> QED
    BY <1>1, <1>6, <2>1 DEF Disk, Stale
<1>9. Own' /\ Absent'
  BY <1>2, <1>5, <1>6 DEF Disk, Own, Absent, Recorded
<1>10. Drafted'
  BY <1>2, <1>4, <1>5 DEF Drafted
<1>11. Between'
  BY <1>2, <1>4 DEF Between
<1>12. /\ Candidates \subseteq Candidates'
       /\ \A r \in Candidates' : r \in Candidates \/ (r = point.rev /\ Verify(point, live))
       /\ Verify(point, live) /\ point.rev # 0 => point.rev \in Candidates'
       /\ point.rev \in Candidates' =>
             /\ point.rev # 0 /\ point.rev \in DOMAIN hist /\ hist[point.rev].commit = point
             /\ \A p \in DOMAIN point.parts : hist[point.rev].parts[p] = live[p]
  BY PointCandidates
<1>14. Back'
  <2> SUFFICES ASSUME NEW r \in Newest' PROVE Undoes(r)'
    BY <1>2 DEF Back
  <2>1. r \in Candidates' /\ \A s \in Candidates' : s <= r
    BY DEF Newest
  <2>2. CASE r \notin Candidates
    <3>1. /\ r = point.rev /\ point.rev # 0 /\ hist[r].commit = point
          /\ \A p \in DOMAIN point.parts : hist[r].parts[p] = live[p]
      BY <1>12, <2>1, <2>2
    <3>2. \A p \in Required : live[p] # 0 => p \in DOMAIN point.parts
      BY <3>1 DEF Disk, ListsLive
    <3> QED
      BY <1>2, <1>4, <3>1, <3>2 DEF Undoes, Saved
  <2>3. CASE r \in Candidates
    <3>1. r \in Newest
      BY <1>12, <2>1, <2>3 DEF Newest
    <3>2. ~Verify(point, live)
      <4> SUFFICES ASSUME Verify(point, live) PROVE FALSE
        OBVIOUS
      <4>1. r < point.rev /\ r \in Nat
        BY <1>6, <2>3 DEF Candidates
      <4>4. point.rev \in Candidates'
        BY <1>1, <1>12, <4>1
      <4> QED
        BY <1>1, <2>1, <4>1, <4>4
    <3>3. Undoes(r)
      BY <3>1, <3>2 DEF Back
    <3> QED
      BY <1>2, <3>3 DEF Undoes, Saved
  <2> QED
    BY <2>2, <2>3
<1> QED
  BY <1>7, <1>8, <1>9, <1>10, <1>11, <1>14 DEF Disk

\* config.json is renamed first and the rules last: in between nothing else matches.
LEMMA RenamePartAtomic ==
    ASSUME IInv, Quiet, AInv, Disk, Drafted, Between, Back, RenamePart, UNCHANGED fails
    PROVE  Disk' /\ Drafted' /\ Between' /\ Back'
<1> DEFINE p == First(Staged, todo)
<1>1. TypeOK /\ Renaming /\ ~Fails /\ live \in [Parts -> Nat]
  BY DEF IInv, TypeOK, Contents, Fails
<1>2. /\ pc = "rename" /\ pc' = "rename" /\ live' = [live EXCEPT ![p] = job.parts[p]]
      /\ todo' = todo \ {p} /\ UNCHANGED <<point, hist, job, source, before, after, written>>
  BY <1>1 DEF RenamePart
<1>3. p \in todo /\ todo \subseteq Parts /\ \A q \in todo : Staged[p] <= Staged[q]
  BY <1>1, FirstIsMember DEF RenamePart, TypeOK
<1> HIDE DEF p
<1>4. /\ p \in Parts /\ p \in DOMAIN job.parts /\ point = job
      /\ live'[p] = job.parts[p] /\ \A q \in Parts : q # p => live'[q] = live[q]
  BY <1>1, <1>2, <1>3 DEF Renaming
<1>5. /\ \A q \in DOMAIN job.parts : job.parts[q] # 0
      /\ point.rev # 0 /\ DOMAIN job.parts \subseteq Parts
  BY <1>1, <1>2 DEF AInv, Quiet, Newer, TypeOK, IsGeneration
<1>6. /\ "config" \in DOMAIN job.parts /\ "config" \in Parts
      /\ \A q \in Required : live[q] # 0 => q \in DOMAIN job.parts
      /\ \A r \in DOMAIN hist : Recorded(r) =>
            hist[r].commit.parts["config"] # job.parts["config"]
      /\ \A q \in Parts : IF q \in DOMAIN job.parts THEN job.parts[q] = after[q]
                          ELSE after[q] = before[q]
      /\ job.all = after
      /\ \A q \in todo : live[q] = before[q]
      /\ todo = {} \/ "rules" \in todo \/ "rules" \notin DOMAIN job.parts
  BY <1>2 DEF Drafted, Parts
<1>7. /\ Candidates' = Candidates /\ Newest' = Newest
      /\ \A r : Recorded(r)' <=> Recorded(r)
      /\ \A r, q : Saved(r, q)' <=> Saved(r, q)
  BY <1>2, NewestStays
<1>8. live'["config"] # 0 /\ \A q \in Required : live'[q] # 0 => q \in DOMAIN job.parts
  BY <1>4, <1>5, <1>6 DEF Disk, Filed, Required, Parts
<1>9. Filed' /\ Distinct' /\ ListsLive'
  BY <1>2, <1>4, <1>7, <1>8 DEF Disk, Filed, Distinct, ListsLive
<1>10. Stale'
  <2>1. live'["config"] \in {live["config"], job.parts["config"]}
    BY <1>4, <1>6
  <2> QED
    BY <1>2, <1>6, <1>7, <2>1 DEF Disk, Stale, Verify, Missing
<1>11. Own'
  BY <1>2, <1>4, <1>6, <1>7 DEF Own, Recorded
<1>18. Absent'
  <2>1. \A q \in Required : live'[q] = 0 => live[q] = 0
    BY <1>4, <1>5 DEF Required, Parts
  <2> QED
    BY <1>2, <2>1 DEF Disk, Absent
<1>12. "rules" \notin todo' => p = "rules" \/ "rules" \notin DOMAIN job.parts
  BY <1>2, <1>3, <1>6
<1>13. p = "rules" => todo' = {}
  <2> SUFFICES ASSUME p = "rules", NEW q \in todo, q # "rules" PROVE FALSE
    BY <1>2
  <2>1. q \in {"config", "sub"} /\ Staged["rules"] <= Staged[q]
    BY <1>3 DEF Parts
  <2> QED
    BY <2>1 DEF Staged
<1>14. Drafted'
  <2>1. \A q \in todo' : live'[q] = before[q]
    BY <1>2, <1>3, <1>4, <1>6
  <2>2. todo' = {} \/ "rules" \in todo' \/ "rules" \notin DOMAIN job.parts
    BY <1>12, <1>13
  <2>3. job.parts["config"] <= written /\ ("sub" \in DOMAIN job.parts => after["rules"] = before["rules"])
    BY <1>2 DEF Drafted
  <2> QED
    BY <1>2, <1>6, <1>7, <1>8, <2>1, <2>2, <2>3 DEF Drafted
<1>15. ~Verify(point, live') => live'["rules"] = before["rules"]
  <2>1. CASE p = "rules"
    <3>1. \A q \in DOMAIN job.parts : live'[q] = job.parts[q]
      BY <1>1, <1>2, <1>3, <1>4, <1>5, <1>13, <2>1 DEF Renaming
    <3> QED
      BY <1>4, <1>5, <3>1 DEF Verify, Missing
  <2>2. CASE p # "rules"
    <3>1. "rules" \in Parts /\ live'["rules"] = live["rules"]
      BY <1>4, <2>2 DEF Parts
    <3>2. CASE "rules" \in todo
      BY <1>6, <3>1, <3>2
    <3>3. CASE "rules" \notin DOMAIN job.parts
      BY <1>6, <3>1, <3>3 DEF Between, Lasting, Required
    <3> QED
      BY <1>3, <1>6, <3>2, <3>3
  <2> QED
    BY <2>1, <2>2
<1>16. Between'
  <2>1. \A q \in Lasting : live'[q] \in {before[q], after[q]}
    BY <1>4, <1>6 DEF Between, Lasting, Required, Parts
  <2> QED
    BY <1>2, <1>4, <1>6, <1>15, <2>1 DEF Between, Verify, Missing
<1>17. Back'
  <2> SUFFICES ASSUME NEW r \in Newest PROVE Undoes(r)'
    BY <1>2, <1>7 DEF Back
  <2>1. Undoes(r)
    BY <1>2 DEF Back
  <2>2. ~SubInStateDir /\ Saved(r, "sub") => hist[r].parts["sub"] \in {before["sub"], live'["sub"]}
    <3>1. live["sub"] \in {before["sub"], live'["sub"]}
      BY <1>3, <1>4, <1>6 DEF Parts
    <3> QED
      BY <2>1, <3>1 DEF Undoes
  <2> QED
    BY <1>2, <1>7, <2>1, <2>2 DEF Undoes
<1> QED
  BY <1>9, <1>10, <1>11, <1>14, <1>16, <1>17, <1>18 DEF Disk

LEMMA PruneAtomic ==
    ASSUME IInv, Quiet, AInv, Disk, Drafted, Between, Back, Prune
    PROVE  Disk' /\ Drafted' /\ Between' /\ Back'
<1>1. /\ pc = "rename" /\ todo = {} /\ pc' = "idle"
      /\ DOMAIN hist' \subseteq DOMAIN hist /\ \A r \in DOMAIN hist' : hist'[r] = hist[r]
      /\ UNCHANGED <<live, point, source, before, after, written>>
  BY DEF Prune, Give
<1>2. Verify(point, live)'
  BY <1>1 DEF AInv, Quiet, IInv, Renaming, Newer, Verify, Missing
<1>3. \A r \in DOMAIN hist' : Recorded(r)' => Recorded(r)
  BY <1>1 DEF Recorded
<1>4. Disk'
  BY <1>1, <1>2, <1>3 DEF Disk, Filed, Distinct, Stale, Own, ListsLive, Absent, Recorded
<1>5. Drafted' /\ Between' /\ Back'
  BY <1>1, <1>2 DEF Drafted, Between, Back
<1> QED
  BY <1>4, <1>5

LEMMA BootRollbackAtomic ==
    ASSUME IInv, Disk, Drafted, Between, Back, BootRollback
    PROVE  Disk' /\ Drafted' /\ Between' /\ Back'
<1>1. /\ pc' = "restore" /\ source' \in Newest /\ ~Verify(point, live)
      /\ todo' = DOMAIN hist[source'].commit.parts
      /\ UNCHANGED <<live, point, hist, before, after, written>>
  BY DEF BootRollback, Newest, disk, history
<1>2. Disk'
  BY <1>1, DiskStays DEF IInv, TypeOK
<1>3. /\ Newest' = Newest /\ Candidates' = Candidates
      /\ \A r, p : Saved(r, p)' <=> Saved(r, p)
      /\ Verify(point, live)' <=> Verify(point, live)
  BY <1>1, NewestStays DEF Verify, Missing
<1>4. Drafted' /\ Between'
  BY <1>1, <1>3 DEF Drafted, Between
<1>5. \A r : Undoes(r)' <=> Undoes(r)
  BY <1>1, <1>3 DEF Undoes
<1>6. Back'
  BY <1>1, <1>3, <1>5 DEF Back
<1> QED
  BY <1>2, <1>4, <1>6

\* config.json is put back first, and from then on the current generation does not match.
LEMMA RestorePartAtomic ==
    ASSUME IInv, Quiet, AInv, Disk, Drafted, Between, Back, RestorePart, UNCHANGED fails
    PROVE  Disk' /\ Drafted' /\ Between' /\ Back'
<1> DEFINE p == First(Listing, todo)
           g == hist[source].commit
           copy == hist[source].parts[p]
<1>1. TypeOK /\ Restoring /\ ~Fails /\ live \in [Parts -> Nat]
  BY DEF IInv, TypeOK, Contents, Fails
<1>2. /\ pc = "restore" /\ pc' = "restore" /\ todo' = todo \ {p}
      /\ live' = [live EXCEPT ![p] = IF copy = 0 THEN @ ELSE copy]
      /\ UNCHANGED <<point, hist, job, source, before, after, written>>
  BY <1>1 DEF RestorePart
<1>3. p \in todo /\ todo \subseteq Parts /\ \A q \in todo : Listing[p] <= Listing[q]
  BY <1>1, FirstIsMember DEF RestorePart, TypeOK
<1> HIDE DEF p
<1>4. /\ p \in Parts /\ p \in DOMAIN g.parts
      /\ live'[p] = (IF copy = 0 THEN live[p] ELSE copy)
      /\ \A q \in Parts : q # p => live'[q] = live[q]
      /\ copy # 0 <=> Saved(source, p)
  BY <1>1, <1>2, <1>3 DEF Restoring, Saved
<1>5. /\ source \in Newest /\ ~Verify(point, live)
      /\ \A q \in DOMAIN g.parts \ todo : Saved(source, q) => live[q] = hist[source].parts[q]
      /\ Undoes(source)
  BY <1>2 DEF Back
<1>6. /\ Recorded(source) /\ source \in Nat /\ source < point.rev /\ point.rev \in Nat
      /\ g # point /\ point.rev # 0 /\ Verify(g, hist[source].parts) /\ Newest = {source}
  BY <1>1, <1>5, NewestIs
<1>7. /\ "config" \in DOMAIN g.parts /\ "config" \in DOMAIN point.parts /\ "config" \in Parts
      /\ hist[source].parts["config"] = g.parts["config"] /\ Saved(source, "config")
      /\ g.parts["config"] # point.parts["config"]
      /\ \A r \in DOMAIN hist : Recorded(r) /\ r # source =>
            hist[r].commit.parts["config"] # g.parts["config"]
  <2>1. "config" \in DOMAIN g.parts /\ "config" \in DOMAIN point.parts
    BY <1>6 DEF Disk, Filed, Recorded
  <2>2. hist[source].parts["config"] = g.parts["config"] /\ hist[source].parts["config"] # 0
    BY <1>6, <2>1 DEF Verify, Missing, Required
  <2> QED
    BY <1>6, <2>1, <2>2 DEF Disk, Distinct, Saved, Parts, Recorded
<1> HIDE DEF g, copy
<1>8. /\ Candidates' = Candidates /\ Newest' = Newest
      /\ \A r : Recorded(r)' <=> Recorded(r)
      /\ \A r, q : Saved(r, q)' <=> Saved(r, q)
  BY <1>2, NewestStays
\* What is put back was there before, under the same name or as the content before.
<1>9. \A q \in Required : live'[q] # 0 <=> live[q] # 0
  <2>1. p \in Required /\ copy # 0 => live[p] # 0
    BY <1>6 DEF Disk, Absent, copy, Recorded
  <2> QED
    BY <1>4, <2>1 DEF Required, Parts
<1>10. live'["config"] # 0 /\ live'["config"] \in {live["config"], g.parts["config"]}
  BY <1>4, <1>7 DEF Disk, Filed, copy
<1>11. ~Verify(point, live')
  <2>1. live'["config"] = g.parts["config"]
    <3>1. CASE "config" \in todo
      <4>1. Listing[p] <= Listing["config"] => p = "config"
        BY <1>4 DEF Listing, Parts
      <4> QED
        BY <1>3, <1>4, <1>7, <3>1, <4>1 DEF copy
    <3>2. CASE "config" \notin todo
      BY <1>3, <1>4, <1>5, <1>7, <3>2
    <3> QED
      BY <3>1, <3>2
  <2> QED
    BY <1>7, <1>10, <2>1, Mismatch
<1>12. Filed' /\ Distinct' /\ ListsLive' /\ Absent'
  BY <1>2, <1>8, <1>9, <1>10 DEF Disk, Filed, Distinct, ListsLive, Absent
<1>13. Stale'
  BY <1>2, <1>6, <1>7, <1>8, <1>10 DEF Disk, Stale, Verify, Missing
<1>14. Own'
  <2> SUFFICES ASSUME Recorded(point.rev), hist[point.rev].commit = point
               PROVE  \A q \in Parts : live'[q] = live[q]
    BY <1>1, <1>2, <1>5, <1>8 DEF Disk, Own, TypeOK, IsGeneration
  <2>1. Saved(source, p) => copy = live[p]
    BY <1>4, <1>5 DEF Disk, Own, copy
  <2> QED
    BY <1>4, <2>1
<1>15. Drafted'
  BY <1>2 DEF Drafted
<1>16. \A q \in Required : live'[q] \in {live[q], before[q]}
  BY <1>4, <1>5 DEF Undoes, Required, Parts, copy
<1>17. ~SubInStateDir => /\ live["sub"] \in {before["sub"], after["sub"]}
                        /\ live'["sub"] \in {live["sub"], before["sub"]}
  BY <1>4, <1>5 DEF Between, Lasting, Undoes, Parts, copy
<1>18. Between'
  <2>1. \A q \in Lasting : live'[q] \in {before[q], after[q]}
    BY <1>16, <1>17 DEF Between, Lasting, Parts, Required
  <2>2. live'["rules"] = before["rules"]
    BY <1>5, <1>16 DEF Between, Required
  <2> QED
    BY <1>2, <1>16, <2>1, <2>2 DEF Between, Verify, Missing
<1>19. Back'
  <2>1. ~SubInStateDir /\ Saved(source, "sub") => hist[source].parts["sub"] \in {before["sub"], live'["sub"]}
    BY <1>4, <1>5 DEF Undoes, Parts, copy
  <2>2. Undoes(source)'
    BY <1>2, <1>5, <1>8, <2>1 DEF Undoes
  <2>3. \A q \in DOMAIN g.parts \ todo' : Saved(source, q) => live'[q] = hist[source].parts[q]
    <3>1. DOMAIN g.parts \subseteq Parts
      BY <1>1, <1>6 DEF TypeOK, IsCopy, IsGeneration, Recorded, g
    <3> QED
      BY <1>2, <1>4, <1>5, <3>1 DEF copy
  <2>4. ~Verify(point, live)'
    BY <1>2, <1>11 DEF Verify, Missing
  <2> QED
    BY <1>2, <1>5, <1>6, <1>8, <2>2, <2>3, <2>4 DEF Back, g
<1> QED
  BY <1>12, <1>13, <1>14, <1>15, <1>18, <1>19 DEF Disk

\* Subscriptions are deleted that the generation put back does not list.
LEMMA RestoreCleanAtomic ==
    ASSUME IInv, Quiet, Disk, Drafted, Between, Back, RestoreClean, UNCHANGED fails
    PROVE  Disk' /\ Drafted' /\ Between' /\ Back'
<1> DEFINE g == hist[source].commit
<1>1. TypeOK /\ ~Fails /\ DOMAIN point.parts \subseteq Parts
  BY DEF IInv, TypeOK, IsGeneration, Fails
<1>2. /\ pc = "restore" /\ pc' = "repoint" /\ todo = {} /\ todo' = {}
      /\ UNCHANGED <<point, hist, job, source, before, after, written>>
  BY <1>1 DEF RestoreClean
<1>3. \A p \in Parts :
         \/ live'[p] = live[p]
         \/ p = "sub" /\ SubInStateDir /\ p \notin DOMAIN g.parts /\ live'[p] = 0
  BY <1>1 DEF RestoreClean
<1>4. /\ \A p \in Required : live'[p] = live[p]
      /\ \A p \in Lasting : live'[p] = live[p]
      /\ \A p \in Parts : Saved(source, p) \/ live'[p] # 0 => live'[p] = live[p]
  BY <1>3 DEF Lasting, Required, Parts, Saved
<1>5. /\ source \in Newest /\ ~Verify(point, live) /\ Undoes(source)
      /\ \A p \in DOMAIN g.parts : Saved(source, p) => live[p] = hist[source].parts[p]
  BY <1>2 DEF Back
<1>6. /\ Recorded(source) /\ g # point /\ point.rev # 0
      /\ Verify(g, hist[source].parts) /\ Newest = {source}
  BY <1>1, <1>5, NewestIs
<1>7. /\ Newest' = Newest /\ Candidates' = Candidates
      /\ \A r : Recorded(r)' <=> Recorded(r)
      /\ \A r, p : Saved(r, p)' <=> Saved(r, p)
  BY <1>2, NewestStays
<1>8. ~Verify(point, live')
  <2>1. "config" \in DOMAIN g.parts /\ "config" \in DOMAIN point.parts /\ live["config"] # 0
    BY <1>6 DEF Disk, Filed, Recorded
  <2>2. hist[source].parts["config"] = g.parts["config"] /\ Saved(source, "config")
    BY <1>6, <2>1 DEF Verify, Missing, Required, Saved
  <2>3. live'["config"] = g.parts["config"]
    BY <1>4, <1>5, <2>1, <2>2 DEF Required
  <2>4. g.parts["config"] # point.parts["config"]
    BY <1>6 DEF Disk, Distinct, Recorded
  <2> QED
    BY <1>4, <2>1, <2>3, <2>4, Mismatch DEF Required
<1>9. Filed' /\ Distinct' /\ ListsLive' /\ Absent'
  BY <1>2, <1>4, <1>7 DEF Disk, Filed, Distinct, ListsLive, Absent, Required
<1>10. Stale'
  BY <1>2, <1>4, <1>7 DEF Disk, Stale, Required, Verify, Missing
<1>11. Own'
  <2> SUFFICES ASSUME Recorded(point.rev), hist[point.rev].commit = point
               PROVE  /\ \A p \in DOMAIN point.parts :
                             live'[p] # 0 => hist[point.rev].parts[p] = live'[p]
                      /\ \A r \in Newest, p \in Parts : Saved(r, p) => hist[r].parts[p] = live'[p]
    BY <1>2, <1>7 DEF Own
  <2> QED
    BY <1>1, <1>4, <1>5, <1>6 DEF Disk, Own
<1>12. Drafted'
  BY <1>2 DEF Drafted
<1>13. Between'
  BY <1>2, <1>4, <1>5, <1>7 DEF Between, Required
<1>14. Back'
  <2>1. ~SubInStateDir => live'["sub"] = live["sub"]
    BY <1>4 DEF Lasting, Parts
  <2>2. Undoes(source)'
    BY <1>2, <1>5, <1>7, <2>1 DEF Undoes
  <2>3. \A p \in DOMAIN g.parts : Saved(source, p) => live'[p] = hist[source].parts[p]
    <3>1. DOMAIN g.parts \subseteq Parts
      BY <1>1, <1>6 DEF TypeOK, IsCopy, IsGeneration, Recorded
    <3> QED
      BY <1>4, <1>5, <3>1
  <2>4. ~Verify(point, live)'
    BY <1>2, <1>8 DEF Verify, Missing
  <2> QED
    BY <1>2, <1>5, <1>6, <1>7, <2>2, <2>3, <2>4 DEF Back
<1> QED
  BY <1>9, <1>10, <1>11, <1>12, <1>13, <1>14 DEF Disk

\* The generation put back is current again, or a part of it is missing and the service goes
\* on with what was put back: the configuration and the rules are as before in both cases.
LEMMA RestorePointAtomic ==
    ASSUME IInv, Quiet, Disk, Drafted, Between, Back, RestorePoint, UNCHANGED fails
    PROVE  Disk' /\ Drafted' /\ Between' /\ Back'
<1> DEFINE g == hist[source].commit
<1>1. TypeOK /\ ~Fails
  BY DEF IInv, TypeOK, Fails
<1>2. /\ pc = "repoint" /\ pc' = "idle"
      /\ UNCHANGED <<live, hist, job, before, after, written>>
      /\ \/ Verify(g, live) /\ point' = g
         \/ UNCHANGED point
  BY <1>1 DEF RestorePoint, Loaded
<1>3. /\ source \in Newest /\ ~Verify(point, live)
      /\ \A q \in DOMAIN g.parts : Saved(source, q) => live[q] = hist[source].parts[q]
      /\ Undoes(source)
  BY <1>2 DEF Back
<1>4. /\ Recorded(source) /\ source \in Nat /\ source < point.rev /\ point.rev \in Nat
      /\ source \in Candidates /\ g # point /\ point.rev # 0
      /\ Verify(g, hist[source].parts) /\ Newest = {source}
  BY <1>1, <1>3, NewestIs
<1>5. g.rev = source /\ "config" \in DOMAIN g.parts /\ "config" \in Parts
  BY <1>4 DEF Disk, Filed, Recorded, Parts
<1>6. Saved(source, "config") /\ hist[source].parts["config"] = g.parts["config"]
  BY <1>4, <1>5 DEF Verify, Missing, Required, Saved
<1>7. \A p \in Required : live[p] = before[p]
  <2>1. live["config"] = before["config"]
    BY <1>3, <1>5, <1>6 DEF Undoes, Required
  <2>2. live["rules"] = before["rules"]
    BY <1>3 DEF Between
  <2> QED
    BY <2>1, <2>2 DEF Required
<1> HIDE DEF g
<1>8. \A p \in Required : live[p] # 0 => Saved(source, p) /\ p \in DOMAIN g.parts
  BY <1>3, <1>7 DEF Undoes, Saved, g
<1>9. Drafted'
  BY <1>2 DEF Drafted
<1>10. CASE UNCHANGED point
  <2>1. Disk'
    BY <1>1, <1>2, <1>10, DiskStays DEF TypeOK
  <2>2. /\ Newest' = Newest /\ Candidates' = Candidates
        /\ \A r, p : Saved(r, p)' <=> Saved(r, p)
        /\ Verify(point, live)' <=> Verify(point, live)
    BY <1>2, <1>10, NewestStays DEF Verify, Missing
  <2>3. Between'
    BY <1>2, <1>7, <1>10, <2>2 DEF Between, Required
  <2>4. ASSUME NEW r \in Newest PROVE Agrees(r)' /\ Undoes(r)'
    <3>1. r = source
      BY <1>4
    <3>2. Agrees(r)'
      BY <1>2, <1>3, <1>8, <2>2, <3>1 DEF Agrees, Saved, g
    <3>3. Undoes(r)'
      BY <1>2, <1>3, <2>2, <3>1 DEF Undoes
    <3> QED
      BY <3>2, <3>3
  <2>5. Back'
    BY <1>2, <2>2, <2>4 DEF Back
  <2> QED
    BY <1>9, <2>1, <2>3, <2>5
<1>11. CASE Verify(g, live) /\ point' = g
  <2>1. Verify(point, live)'
    BY <1>2, <1>11 DEF Verify, Missing
  <2>2. \A r : Recorded(r)' <=> Recorded(r)
    BY <1>2 DEF Recorded
  <2>3. live["config"] = g.parts["config"] /\ g.rev # 0
    BY <1>3, <1>4, <1>5, <1>6 DEF Recorded, g
  <2>4. ASSUME NEW r \in DOMAIN hist, Recorded(r), hist[r].commit # g
        PROVE  /\ r # source /\ r \in Nat /\ hist[r].commit.rev = r
               /\ hist[r].commit.parts["config"] # g.parts["config"]
    BY <1>1, <1>4, <2>4 DEF Disk, Filed, Distinct, Recorded, TypeOK, g
  <2>5. Filed' /\ ListsLive'
    BY <1>2, <1>5, <1>8, <1>11, <2>2, <2>3 DEF Disk, Filed, ListsLive
  <2>6. Distinct'
    BY <1>2, <1>4, <1>5, <1>11, <2>2, <2>3, <2>4 DEF Disk, Distinct, Recorded, g
  <2>7. Stale'
    <3> SUFFICES ASSUME NEW r \in DOMAIN hist, Recorded(r), r >= source, hist[r].commit # g
                 PROVE  /\ ~Verify(hist[r].commit, hist[r].parts)
                        /\ hist[r].commit.parts["config"] # live["config"]
      BY <1>2, <1>5, <1>11, <2>2 DEF Stale
    <3>1. r > source /\ r \in Nat /\ hist[r].commit.rev = r
      BY <1>4, <2>4
    <3>2. CASE r < point.rev
      <4>1. r \notin Candidates
        BY <1>3, <1>4, <3>1 DEF Newest
      <4> QED
        BY <2>3, <2>4, <3>2, <4>1 DEF Candidates, Recorded
    <3>3. CASE r = point.rev /\ hist[r].commit = point
      <4>1. "config" \in DOMAIN point.parts /\ live["config"] # 0
        BY <1>4 DEF Disk, Filed
      <4>2. hist[r].parts["config"] = live["config"]
        BY <1>3, <3>3, <4>1 DEF Disk, Own
      <4>3. ~Verify(point, hist[r].parts)
        BY <2>3, <2>4, <3>3, <4>1, <4>2, Mismatch
      <4> QED
        BY <2>3, <2>4, <3>3, <4>3
    <3>4. CASE r >= point.rev /\ hist[r].commit # point
      BY <3>4 DEF Disk, Stale
    <3> QED
      BY <1>4, <3>1, <3>2, <3>3, <3>4
  <2>8. Own' /\ Absent'
    BY <1>2, <2>1 DEF Disk, Own, Absent
  <2>9. Between'
    BY <1>2, <1>7, <2>1 DEF Between
  <2>10. Back'
    BY <1>2, <2>1 DEF Back
  <2> QED
    BY <1>9, <2>5, <2>6, <2>7, <2>8, <2>9, <2>10 DEF Disk
<1> QED
  BY <1>2, <1>10, <1>11

-----------------------------------------------------------------------------
(* The subscriptions, step by step *)

\* A copy of the subscriptions is made where they exist: of an intact generation, since a
\* rollback that is not complete leaves none.
LEMMA CopyingSubs ==
    ASSUME TypeOK, Disk, Subs, NEW h, hist' = With(point.rev, h), UNCHANGED <<live, point>>,
           pc = "copy", pc' \in {"copy", "point"}, todo' \subseteq todo,
           \/ h.parts["sub"] = Kept(point.rev).parts["sub"]
           \/ h.parts["sub"] = live["sub"] /\ "sub" \in todo
    PROVE  Subs'
<1>1. /\ Candidates' = Candidates /\ Newest' = Newest
      /\ \A r \in Newest : hist'[r] = hist[r] /\ (\A p : Saved(r, p)' <=> Saved(r, p))
      /\ \A r \in DOMAIN hist' : r # point.rev => r \in DOMAIN hist /\ hist'[r] = hist[r]
      /\ DOMAIN hist' = DOMAIN hist \cup {point.rev} /\ hist'[point.rev] = h
  BY CopyingStays
<1>2. Verify(point, live)' <=> Verify(point, live)
  BY DEF Verify, Missing
<1>3. point.rev \notin Candidates
  BY DEF Candidates, TypeOK, IsGeneration
<1>4. ASSUME h.parts["sub"] # 0
      PROVE  Verify(point, live) /\ "sub" \in DOMAIN point.parts /\ h.parts["sub"] = live["sub"]
  <2>1. CASE h.parts["sub"] = Kept(point.rev).parts["sub"]
    <3>1. point.rev \in DOMAIN hist /\ hist[point.rev].parts["sub"] = h.parts["sub"]
      BY <1>4, <2>1 DEF Kept, NoFiles, Parts
    <3> QED
      BY <1>3, <1>4, <3>1 DEF Subs, Copies
  <2>2. CASE h.parts["sub"] = live["sub"] /\ "sub" \in todo
    <3>1. Verify(point, live)
      BY <1>4, <2>2 DEF Subs
    <3> QED
      BY <2>2, <3>1 DEF Subs
  <2> QED
    BY <2>1, <2>2
<1>5. Copies'
  <2> SUFFICES ASSUME NEW r \in DOMAIN hist', hist'[r].parts["sub"] # 0
               PROVE  \/ r \in Candidates /\ "sub" \in DOMAIN hist'[r].commit.parts
                      \/ /\ r = point.rev /\ Verify(point, live) /\ "sub" \in DOMAIN point.parts
                         /\ hist'[r].parts["sub"] = live["sub"]
    BY <1>1, <1>2 DEF Copies, Saved
  <2>1. CASE r = point.rev
    BY <1>1, <1>4, <2>1
  <2>2. CASE r # point.rev
    BY <1>1, <2>2 DEF Subs, Copies, Saved
  <2> QED
    BY <2>1, <2>2
<1> QED
  BY <1>1, <1>2, <1>5 DEF Subs

LEMMA CopySubs ==
    ASSUME IInv, Quiet, Disk, Subs, CopyPart \/ CopyRecord, UNCHANGED fails
    PROVE  Subs'
<1>1. TypeOK /\ WholeGenerations /\ point.rev \in Nat /\ ~Fails
  BY DEF IInv, TypeOK, IsGeneration, Fails
<1>2. CASE CopyRecord
  <2> DEFINE h == [commit |-> point, parts |-> Kept(point.rev).parts]
  <2>1. /\ hist' = With(point.rev, h) /\ UNCHANGED <<live, point, todo>>
        /\ pc = "copy" /\ pc' = "point"
    BY <1>1, <1>2 DEF CopyRecord
  <2>2. h.parts = Kept(point.rev).parts
    OBVIOUS
  <2> HIDE DEF h
  <2> QED
    BY <1>1, <2>1, <2>2, CopyingSubs
<1>3. CASE CopyPart
  <2> DEFINE p == First(Listing, todo)
             old == Kept(point.rev)
             h == [commit |-> old.commit,
                   parts |-> [old.parts EXCEPT ![p] = IF live[p] = 0 THEN @ ELSE live[p]]]
  <2>1. /\ hist' = With(point.rev, h) /\ UNCHANGED <<live, point>> /\ todo' = todo \ {p}
        /\ pc = "copy" /\ pc' = "copy"
    BY <1>1, <1>3 DEF CopyPart
  <2>2. p \in todo /\ p \in Parts
    BY <1>1, <1>3, FirstIsMember DEF CopyPart, TypeOK
  <2>3. IsCopy(old)
    BY <1>1, KeptIsCopy
  <2> HIDE DEF p
  <2>4. \/ h.parts["sub"] = Kept(point.rev).parts["sub"]
        \/ h.parts["sub"] = live["sub"] /\ "sub" \in todo
    <3> HIDE DEF old
    <3>1. h.parts["sub"] = old.parts["sub"] \/ (p = "sub" /\ h.parts["sub"] = live["sub"])
      BY <2>2, <2>3 DEF IsCopy, Files, Parts
    <3> QED
      BY <2>2, <3>1 DEF old
  <2> HIDE DEF h
  <2> QED
    BY <1>1, <2>1, <2>4, CopyingSubs
<1> QED
  BY <1>2, <1>3

LEMMA PointSubs ==
    ASSUME IInv, Quiet, AInv, Disk, Drafted, Subs, Point, UNCHANGED fails
    PROVE  Subs'
<1>1. TypeOK /\ point.rev \in Nat /\ job.rev \in Nat /\ ~Fails
  BY DEF IInv, TypeOK, IsGeneration, Fails
<1>2. pc = "point" /\ pc' = "rename" /\ point' = job /\ UNCHANGED <<live, hist>>
  BY <1>1 DEF Point
<1>3. job.rev > point.rev
  BY <1>2 DEF AInv, Newer, Quiet
<1>4. /\ Candidates \subseteq Candidates'
      /\ \A r \in Candidates' : r \in Candidates \/ (r = point.rev /\ Verify(point, live))
      /\ Verify(point, live) /\ point.rev # 0 => point.rev \in Candidates'
      /\ point.rev \in Candidates' => point.rev # 0 /\ hist[point.rev].commit = point
      /\ point.rev \in Candidates' =>
            \A p \in DOMAIN point.parts : hist[point.rev].parts[p] = live[p]
  BY PointCandidates
<1>5. /\ \A r \in Candidates : r \in Nat /\ r < point.rev
      /\ \A r, p : Saved(r, p)' <=> Saved(r, p)
  BY <1>1, <1>2 DEF Candidates, TypeOK, Saved
<1>6. Copies'
  <2> SUFFICES ASSUME NEW r \in DOMAIN hist, hist[r].parts["sub"] # 0
               PROVE  r \in Candidates' /\ Saved(r, "sub")
    BY <1>2, <1>5 DEF Copies
  <2>1. CASE r \in Candidates /\ Saved(r, "sub")
    BY <1>4, <2>1
  <2>2. CASE /\ r = point.rev /\ Verify(point, live) /\ "sub" \in DOMAIN point.parts
             /\ hist[r].parts["sub"] = live["sub"]
    <3>1. point.rev # 0
      BY <2>2 DEF Subs
    <3> QED
      BY <1>4, <2>2, <3>1 DEF Saved
  <2> QED
    BY <2>1, <2>2 DEF Subs, Copies
<1>7. job.rev \in DOMAIN hist => hist[job.rev].parts["sub"] = 0
  BY <1>1, <1>3, <1>5 DEF Subs, Copies
<1>8. ASSUME live["sub"] # 0
      PROVE  /\ Newest' # {}
             /\ \A r \in Newest' : "sub" \in DOMAIN hist[r].commit.parts => Saved(r, "sub")
  <2>1. point.rev # 0
    BY <1>8 DEF Subs
  <2>2. CASE Verify(point, live)
    <3>1. point.rev \in Candidates' /\ \A r \in Candidates' : r \in Nat /\ r <= point.rev
      BY <1>1, <1>4, <1>5, <2>1, <2>2
    <3>2. Newest' = {point.rev}
      BY <1>1, <3>1 DEF Newest
    <3>3. hist[point.rev].commit = point /\ \A p \in DOMAIN point.parts : hist[point.rev].parts[p] = live[p]
      BY <1>4, <3>1
    <3> QED
      BY <1>8, <3>2, <3>3 DEF Saved
  <2>3. CASE ~Verify(point, live)
    <3>1. Candidates' = Candidates
      BY <1>4, <2>3
    <3>2. Newest' = Newest
      BY <3>1 DEF Newest
    <3> QED
      BY <1>8, <2>3, <3>2 DEF Subs
  <2> QED
    BY <2>2, <2>3
<1>9. job.rev # 0
  BY <1>1, <1>3
<1> QED
  BY <1>2, <1>5, <1>6, <1>7, <1>8, <1>9 DEF Subs

\* A commit renames the subscriptions after config.json, and its rules are the old ones: the
\* generation is intact with them.
LEMMA RenamePartSubs ==
    ASSUME IInv, Quiet, AInv, Drafted, Subs, RenamePart, UNCHANGED fails
    PROVE  Subs'
<1> DEFINE p == First(Staged, todo)
<1>1. TypeOK /\ Renaming /\ ~Fails /\ live \in [Parts -> Nat]
  BY DEF IInv, TypeOK, Contents, Fails
<1>2. /\ pc = "rename" /\ pc' = "rename" /\ live' = [live EXCEPT ![p] = job.parts[p]]
      /\ UNCHANGED <<point, hist>>
  BY <1>1 DEF RenamePart
<1>3. p \in todo /\ todo \subseteq Parts /\ \A q \in todo : Staged[p] <= Staged[q]
  BY <1>1, FirstIsMember DEF RenamePart, TypeOK
<1> HIDE DEF p
<1>4. /\ p \in Parts /\ p \in DOMAIN job.parts /\ point = job
      /\ live'[p] = job.parts[p] /\ \A q \in Parts : q # p => live'[q] = live[q]
  BY <1>1, <1>2, <1>3 DEF Renaming
<1>5. /\ \A q \in DOMAIN job.parts : job.parts[q] # 0
      /\ point.rev # 0 /\ DOMAIN job.parts \subseteq Parts
  BY <1>1, <1>2 DEF AInv, Quiet, Newer, TypeOK, IsGeneration
<1>6. /\ Candidates' = Candidates /\ Newest' = Newest
      /\ \A r, q : Saved(r, q)' <=> Saved(r, q)
  BY <1>2, NewestStays
<1>7. Verify(point, live) => Verify(point, live')
  BY <1>4, <1>5 DEF Verify, Missing
<1>8. p = "sub" => Verify(point, live')
  <2> SUFFICES ASSUME p = "sub", NEW q \in DOMAIN job.parts PROVE live'[q] = job.parts[q]
    BY <1>4, <1>5 DEF Verify, Missing
  <2>1. CASE q = "sub"
    BY <1>4, <2>1
  <2>2. CASE q # "sub" /\ q \notin todo
    BY <1>1, <1>2, <1>4, <1>5, <2>2 DEF Renaming
  <2>3. CASE q # "sub" /\ q \in todo
    <3>1. q = "rules"
      <4>1. q \in {"config", "rules"} /\ Staged["sub"] <= Staged[q]
        BY <1>3, <2>3 DEF Parts
      <4> QED
        BY <4>1 DEF Staged
    <3>2. job.parts[q] = after[q] /\ live[q] = before[q] /\ after["rules"] = before["rules"]
      BY <1>2, <1>4, <1>5, <2>3 DEF Drafted
    <3> QED
      BY <1>4, <1>5, <2>3, <3>1, <3>2
  <2> QED
    BY <2>1, <2>2, <2>3
<1>9. Copies'
  <2> SUFFICES ASSUME NEW r \in DOMAIN hist, hist[r].parts["sub"] # 0
               PROVE  r \in Candidates /\ Saved(r, "sub")
    BY <1>2, <1>6 DEF Copies
  <2> QED
    BY <1>2 DEF Subs, Copies
<1>10. ASSUME ~Verify(point, live'), live'["sub"] # 0
       PROVE  /\ Newest # {}
              /\ \A r \in Newest : "sub" \in DOMAIN hist[r].commit.parts => Saved(r, "sub")
  <2>1. live["sub"] = live'["sub"]
    BY <1>4, <1>8, <1>10 DEF Parts
  <2> QED
    BY <1>7, <1>10, <2>1 DEF Subs
<1>11. Verify(point, live)' <=> Verify(point, live')
  BY <1>2 DEF Verify, Missing
<1> QED
  BY <1>2, <1>5, <1>6, <1>9, <1>10, <1>11 DEF Subs

LEMMA PruneSubs ==
    ASSUME IInv, Quiet, AInv, Subs, Prune
    PROVE  Subs'
<1>1. /\ pc = "rename" /\ todo = {} /\ pc' = "idle"
      /\ DOMAIN hist' \subseteq DOMAIN hist /\ \A r \in DOMAIN hist' : hist'[r] = hist[r]
      /\ UNCHANGED <<live, point>>
  BY DEF Prune, Give
<1>2. Verify(point, live)' /\ Verify(point, live)
  BY <1>1 DEF AInv, Quiet, IInv, Renaming, Newer, Verify, Missing
<1>3. \A r \in DOMAIN hist' : r \in Candidates => r \in Candidates'
  BY <1>1 DEF Candidates, Verify, Missing
<1>4. Copies'
  BY <1>1, <1>2, <1>3 DEF Subs, Copies, Saved
<1> QED
  BY <1>1, <1>2, <1>4 DEF Subs

\* While a generation is put back the current one is not intact, and copies are of candidates.
LEMMA RestoringSubs ==
    ASSUME Subs, UNCHANGED <<point, hist>>, ~Verify(point, live), ~Verify(point, live)',
           pc' \in {"restore", "repoint"}, point.rev # 0,
           live'["sub"] # 0 => live["sub"] # 0 \/ \E r : Newest = {r} /\ Saved(r, "sub")
    PROVE  Subs'
<1>1. /\ Newest' = Newest /\ Candidates' = Candidates
      /\ \A r, p : Saved(r, p)' <=> Saved(r, p)
  BY NewestStays
<1>2. Copies'
  BY <1>1 DEF Subs, Copies
<1>3. live'["sub"] # 0 =>
         /\ Newest # {}
         /\ \A r \in Newest : "sub" \in DOMAIN hist[r].commit.parts => Saved(r, "sub")
  BY DEF Subs
<1> QED
  BY <1>1, <1>2, <1>3 DEF Subs

LEMMA RestoreSubs ==
    ASSUME IInv, Quiet, Disk, Back, Back', Subs, RestorePart \/ RestoreClean, UNCHANGED fails
    PROVE  Subs'
<1>1. TypeOK /\ ~Fails /\ live \in [Parts -> Nat]
  BY DEF IInv, TypeOK, Contents, Fails
<1>2. /\ pc = "restore" /\ pc' \in {"restore", "repoint"} /\ UNCHANGED <<point, hist, source>>
  BY <1>1 DEF RestorePart, RestoreClean
<1>3. source \in Newest /\ ~Verify(point, live) /\ ~Verify(point, live)'
  BY <1>2 DEF Back
<1>4. point.rev # 0 /\ Newest = {source}
  BY <1>1, <1>3, NewestIs
<1>5. CASE RestorePart
  <2> DEFINE p == First(Listing, todo)
             copy == hist[source].parts[p]
  <2>1. live' = [live EXCEPT ![p] = IF copy = 0 THEN @ ELSE copy] /\ p \in todo /\ p \in Parts
    BY <1>1, <1>5, FirstIsMember DEF RestorePart, TypeOK
  <2>2. p \in DOMAIN hist[source].commit.parts
    BY <1>2, <2>1 DEF IInv, Restoring
  <2> HIDE DEF p
  <2>3. live'["sub"] # 0 => live["sub"] # 0 \/ Saved(source, "sub")
    BY <1>1, <2>1, <2>2 DEF Saved, Parts
  <2> QED
    BY <1>2, <1>3, <1>4, <2>3, RestoringSubs
<1>6. CASE RestoreClean
  <2>1. live'["sub"] # 0 => live["sub"] # 0
    BY <1>1, <1>6 DEF RestoreClean, Parts
  <2> QED
    BY <1>2, <1>3, <1>4, <2>1, RestoringSubs
<1> QED
  BY <1>5, <1>6

\* Where a part is missing, it is the subscriptions: history does not have those of the
\* generation put back.
LEMMA RestorePointSubs ==
    ASSUME IInv, Quiet, Disk, Back, Subs, RestorePoint, UNCHANGED fails
    PROVE  Subs'
<1> DEFINE g == hist[source].commit
<1>1. TypeOK /\ ~Fails
  BY DEF IInv, TypeOK, Fails
<1>2. /\ pc = "repoint" /\ pc' = "idle" /\ UNCHANGED <<live, hist>>
      /\ \/ Verify(g, live) /\ point' = g
         \/ ~(Verify(g, live) /\ Missing(g, live) = {}) /\ UNCHANGED point
  BY <1>1 DEF RestorePoint, Loaded
<1>3. /\ source \in Newest /\ ~Verify(point, live)
      /\ \A q \in DOMAIN g.parts : Saved(source, q) => live[q] = hist[source].parts[q]
  BY <1>2 DEF Back
<1>4. /\ Recorded(source) /\ source \in Nat /\ source < point.rev /\ point.rev \in Nat
      /\ source \in Candidates /\ g.rev = source /\ source # 0 /\ point.rev # 0
      /\ Verify(g, hist[source].parts) /\ Newest = {source} /\ DOMAIN g.parts \subseteq Parts
  BY <1>1, <1>3, NewestIs DEF Disk, Filed, Recorded, TypeOK, IsCopy, IsGeneration
<1>5. \A r \in DOMAIN hist : hist[r].parts["sub"] # 0 => r \in Candidates /\ Saved(r, "sub")
  BY <1>3 DEF Subs, Copies
<1>6. CASE ~(Verify(g, live) /\ Missing(g, live) = {}) /\ UNCHANGED point
  <2>1. "sub" \in DOMAIN g.parts /\ ~Saved(source, "sub")
    <3>1. \A q \in DOMAIN g.parts : Saved(source, q) => live[q] = g.parts[q] /\ live[q] # 0
      BY <1>3, <1>4 DEF Saved, Verify, Missing
    <3>2. \A q \in DOMAIN g.parts : q \in Required => Saved(source, q)
      BY <1>4 DEF Saved, Verify, Missing
    <3>3. PICK q \in DOMAIN g.parts : ~Saved(source, q)
      BY <1>6, <3>1 DEF Verify, Missing
    <3> QED
      BY <1>4, <3>2, <3>3 DEF Parts, Required
  <2> HIDE DEF g
  <2>2. /\ Newest' = Newest /\ Candidates' = Candidates
        /\ \A r, p : Saved(r, p)' <=> Saved(r, p)
        /\ Verify(point, live)' <=> Verify(point, live)
    BY <1>2, <1>6, NewestStays DEF Verify, Missing
  <2>3. Copies'
    BY <1>2, <1>5, <2>2 DEF Copies
  <2> QED
    BY <1>2, <1>4, <1>6, <2>1, <2>2, <2>3 DEF Subs, g
<1>7. CASE Verify(g, live) /\ point' = g
  <2>1. Verify(point, live)'
    BY <1>2, <1>7 DEF Verify, Missing
  <2>2. Copies'
    <3> SUFFICES ASSUME NEW r \in DOMAIN hist, hist[r].parts["sub"] # 0
                 PROVE  \/ r \in Candidates' /\ Saved(r, "sub")'
                        \/ /\ r = g.rev /\ "sub" \in DOMAIN g.parts
                           /\ hist[r].parts["sub"] = live["sub"]
      BY <1>2, <1>7, <2>1 DEF Copies
    <3>1. r \in Candidates /\ Saved(r, "sub") /\ r <= source /\ r \in Nat
      BY <1>1, <1>3, <1>5 DEF Newest, TypeOK
    <3>2. CASE r < source
      BY <1>2, <1>4, <1>7, <3>1, <3>2 DEF Candidates, Saved, Verify, Missing
    <3>3. CASE r = source
      BY <1>3, <1>4, <3>1, <3>3 DEF Saved
    <3> QED
      BY <1>4, <3>1, <3>2, <3>3
  <2> QED
    BY <1>2, <1>4, <1>7, <2>1, <2>2 DEF Subs
<1> QED
  BY <1>2, <1>6, <1>7

LEMMA StepAtomic == IInv /\ AInv /\ CInv /\ [Next]_vars => CInv'
<1> SUFFICES ASSUME IInv, AInv, CInv, [Next]_vars, Quiet'
             PROVE  Disk' /\ Drafted' /\ Between' /\ Back' /\ Subs'
  BY DEF CInv
<1>1. Quiet /\ UNCHANGED <<fails, losses, edits>> /\ Disk /\ Drafted /\ Between /\ Back /\ Subs
  BY QuietBefore DEF CInv
<1>2. ASSUME NEW plan \in Plans, NEW rev \in Revisions, Begin(plan, rev)
      PROVE  Disk' /\ Drafted' /\ Between' /\ Back' /\ Subs'
  <2>1. Disk' /\ Drafted' /\ Between' /\ Back'
    BY <1>1, <1>2, BeginAtomic
  <2>2. /\ UNCHANGED <<live, point, hist>> /\ pc = "idle" /\ pc' \in {"copy", "point"}
        /\ pc' = "copy" => todo' = DOMAIN point.parts
    BY <1>2 DEF Begin
  <2>3. Subs'
    BY <1>1, <2>2, SubsStay
  <2> QED
    BY <2>1, <2>3
<1>3. CASE Commit
  <2>1. Disk' /\ Drafted' /\ Between' /\ Back'
    BY <1>1, <1>3, CopyPartAtomic, CopyRecordAtomic, PointAtomic, RenamePartAtomic, PruneAtomic
    DEF Commit
  <2>2. Subs'
    BY <1>1, <1>3, CopySubs, PointSubs, RenamePartSubs, PruneSubs DEF Commit
  <2> QED
    BY <2>1, <2>2
<1>4. CASE Kill
  <2>1. pc' = "down" /\ UNCHANGED <<live, point, hist, before, after, written>>
    BY <1>4 DEF Kill, Down, disk
  <2> QED
    BY <1>1, <2>1, StandstillAtomic, SubsStay
<1>5. CASE BootCurrent \/ BootTorn
  <2>1. point.rev = 0 => Verify(point, live)
    BY <1>1 DEF Disk, Filed, Verify, Missing
  <2>2. /\ pc' = "idle" /\ (Verify(point, live) \/ Candidates = {})
        /\ UNCHANGED <<live, point, hist, before, after, written>>
    BY <1>5, <2>1 DEF BootCurrent, BootTorn, Loaded, disk, history
  <2>3. Candidates = {} => Newest = {}
    BY DEF Newest
  <2> QED
    BY <1>1, <2>2, <2>3, StandstillAtomic, SubsStay
<1>6. CASE PowerLoss \/ Edit \/ Reanchor
  <2>1. losses \in Nat /\ edits \in Nat /\ edits = 0
    BY <1>1 DEF IInv, TypeOK, Quiet, Calm
  <2> QED
    BY <1>1, <1>6, <2>1 DEF PowerLoss, Edit, Reanchor
<1>7. CASE BootRollback \/ RestorePart \/ RestoreClean \/ RestorePoint
  <2>1. Disk' /\ Drafted' /\ Between' /\ Back'
    BY <1>1, <1>7, BootRollbackAtomic, RestorePartAtomic, RestoreCleanAtomic, RestorePointAtomic
  <2>2. CASE BootRollback
    <3>1. UNCHANGED <<live, point, hist>> /\ pc' = "restore"
      BY <2>2 DEF BootRollback, disk
    <3> QED
      BY <1>1, <2>1, <3>1, SubsStay
  <2>3. CASE RestorePart \/ RestoreClean \/ RestorePoint
    BY <1>1, <2>1, <2>3, RestoreSubs, RestorePointSubs
  <2> QED
    BY <1>7, <2>1, <2>2, <2>3
<1>8. CASE UNCHANGED vars
  <2>1. UNCHANGED <<live, point, hist, before, after, written, pc, todo, job, source>>
    BY <1>8 DEF vars, disk, process, history
  <2>2. pc' = "copy" => todo' \subseteq DOMAIN point.parts
    BY <1>1, <2>1 DEF Subs
  <2> QED
    BY <1>1, <2>1, <2>2, StandstillAtomic, SubsStay
<1> QED
  BY <1>2, <1>3, <1>4, <1>5, <1>6, <1>7, <1>8 DEF Next, Startup

\* After an acknowledged commit, kills at any steps of commits and startups, however many,
\* leave the configuration and the rules both as the last commit found them or both as it
\* wants them, in both layouts, and the subscriptions as one or the other where no rollback
\* deletes them.
THEOREM KillsAreAtomic == Spec => []CrashIsAtomic
<1>1. Init => AInv
  BY DEF Init, AInv, Newer, Copying, Copied, Available
<1>2. IInv /\ AInv /\ CInv => CrashIsAtomic
  <2> SUFFICES ASSUME IInv, AInv, CInv, pc = "idle", OnlyKills
               PROVE  /\ \E outcome \in {before, after} : \A p \in Required : live[p] = outcome[p]
                      /\ ~SubInStateDir => live["sub"] \in {before["sub"], after["sub"]}
    BY DEF CrashIsAtomic
  <2>1. Quiet /\ acked
    BY DEF OnlyKills, Quiet, Calm
  <2>2. Between /\ (Verify(point, live) \/ Candidates # {}) /\ Whole(point)
    BY <2>1 DEF CInv, AInv, Quiet, Available, Intact, IInv, WholeGenerations
  <2>3. ~SubInStateDir => live["sub"] \in {before["sub"], after["sub"]}
    BY <2>2 DEF Between, Lasting, Parts
  <2>4. CASE Verify(point, live) /\ point.all = after
    <3>1. ASSUME NEW p \in Required PROVE live[p] = after[p]
      <4>1. CASE after[p] # 0
        BY <2>2, <2>4, <4>1 DEF Whole, Verify, Missing
      <4>2. CASE after[p] = 0
        BY <2>2, <4>2 DEF Between, Lasting, Required, Parts
      <4> QED
        BY <4>1, <4>2
    <3> QED
      BY <2>3, <3>1
  <2>5. CASE \A p \in Required : live[p] = before[p]
    BY <2>3, <2>5
  <2>6. CASE ~Verify(point, live)
    BY <2>2, <2>5, <2>6 DEF Between, Required
  <2> QED
    BY <2>2, <2>4, <2>5, <2>6 DEF Between
<1> QED
  BY <1>1, <1>2, StepAInv, StepAtomic, InitAtomic, Invariance, PTL DEF Spec
=============================================================================
