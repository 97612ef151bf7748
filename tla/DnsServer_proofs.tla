-------------------------- MODULE DnsServer_proofs --------------------------
(***************************************************************************)
(* Proofs of the safety properties of DnsServer, for all sets of addresses *)
(* and loops, any number of workers, slots and changes of the addresses.   *)
(*                                                                         *)
(* The inductive invariant IInv says how the handle and the loops agree    *)
(* (Bookkept), what a change in progress has bound (Fresh, Batched,        *)
(* Handling), that the loops of an address are complete (Complete), that a *)
(* loop ends only after a signal or its own errors (Signals), and that     *)
(* tasks belong to loops that run (Busy).                                  *)
(***************************************************************************)
EXTENDS DnsServer, TLAPS

New(a) == {l \in Loops : pc[l] = "new" /\ at[l] = a}
Listening(a) == {l \in listed : at[l] = a}

\* What the handle lists is bound, and was started and not told to stop; what is being
\* closed was told; every other loop that runs was told too.
Bookkept ==
    /\ \A l \in listed : ~own[l] /\ at[l] \in bound
    /\ \A l \in closing : own[l]
    /\ \A l \in listed \cup closing : pc[l] \notin {"free", "new"}
    /\ \A l \in Loops : Running(l) => l \in listed \/ own[l]

\* A new socket is of an address this change adds, and still silent.
Fresh ==
    \A l \in Loops : pc[l] = "new" =>
        /\ ctl \in {"start", "bind"}
        /\ at[l] \in want \ todo /\ at[l] \notin bound
        /\ ~own[l]

Batched == \A a \in Addrs : New(a) = {} \/ Cardinality(New(a)) = Copies(a)

Handling ==
    /\ ctl \in {"start", "bind"} => todo \cap bound = {}
    /\ ctl = "start" => bound = {} /\ listed = {}
    /\ ctl = "join" => \A l \in listed : at[l] \in want

Complete ==
    ctl \in {"idle", "bind", "request", "join"} =>
        \A a \in Addrs : Stays(a) => Cardinality(Listening(a)) = Copies(a)

Signals ==
    /\ stop => ctl \in {"shutdown", "stopping", "off"}
    /\ \A l \in Loops : woken[l] => pc[l] \in {"armed", "receive"} /\ (stop \/ own[l])
    /\ \A l \in Loops : pc[l] = "drain" => stop \/ own[l] \/ l \in broken
    /\ \A l \in listed : pc[l] = "ended" => stop \/ l \in broken

Busy == \A l \in Loops : tasks[l] > 0 => Running(l)

IInv ==
    /\ TypeOK /\ Bookkept /\ Fresh /\ Batched /\ Handling /\ Complete /\ Signals /\ Busy

-----------------------------------------------------------------------------
(* A loop *)

LEMMA LookKeeps ==
    ASSUME IInv, NEW l \in Loops, Look(l) PROVE IInv'
<1>1. TypeOK'
  BY DEF IInv, TypeOK, PCs, Look, Kept, Goto, handle_vars, work_vars
<1>2. Bookkept'
  BY DEF IInv, TypeOK, Bookkept, Running, PCs, Look, Kept, Goto, handle_vars, work_vars
<1>3. Signals'
  BY DEF IInv, TypeOK, Signals, Look, Kept, Goto, handle_vars, work_vars
<1>4. Busy'
  BY DEF IInv, TypeOK, Busy, Running, PCs, Look, Kept, Goto, handle_vars, work_vars
<1>5. Fresh' /\ Batched' /\ Handling' /\ Complete'
  BY DEF IInv, TypeOK, Fresh, Batched, Handling, Complete, New, Copies, Stays, Listening, Look,
    Kept, Goto, handle_vars, work_vars
<1> QED
  BY <1>1, <1>2, <1>3, <1>4, <1>5 DEF IInv

LEMMA AwaitStopKeeps ==
    ASSUME IInv, NEW l \in Loops, AwaitStop(l) PROVE IInv'
<1>1. TypeOK'
  BY DEF IInv, TypeOK, PCs, AwaitStop, Kept, Goto, handle_vars, work_vars
<1>2. Bookkept'
  BY DEF IInv, TypeOK, Bookkept, Running, PCs, AwaitStop, Kept, Goto, handle_vars, work_vars
<1>3. Signals'
  BY DEF IInv, TypeOK, Signals, AwaitStop, Kept, Goto, handle_vars, work_vars
<1>4. Busy'
  BY DEF IInv, TypeOK, Busy, Running, PCs, AwaitStop, Kept, Goto, handle_vars, work_vars
<1>5. Fresh' /\ Batched' /\ Handling' /\ Complete'
  BY DEF IInv, TypeOK, Fresh, Batched, Handling, Complete, New, Copies, Stays, Listening,
    AwaitStop, Kept, Goto, handle_vars, work_vars
<1> QED
  BY <1>1, <1>2, <1>3, <1>4, <1>5 DEF IInv

LEMMA AwaitOwnKeeps ==
    ASSUME IInv, NEW l \in Loops, AwaitOwn(l) PROVE IInv'
<1>1. TypeOK'
  BY DEF IInv, TypeOK, PCs, AwaitOwn, Kept, Goto, handle_vars, work_vars
<1>2. Bookkept'
  BY DEF IInv, TypeOK, Bookkept, Running, PCs, AwaitOwn, Kept, Goto, handle_vars, work_vars
<1>3. Signals'
  BY DEF IInv, TypeOK, Signals, AwaitOwn, Kept, Goto, handle_vars, work_vars
<1>4. Busy'
  BY DEF IInv, TypeOK, Busy, Running, PCs, AwaitOwn, Kept, Goto, handle_vars, work_vars
<1>5. Fresh' /\ Batched' /\ Handling' /\ Complete'
  BY DEF IInv, TypeOK, Fresh, Batched, Handling, Complete, New, Copies, Stays, Listening,
    AwaitOwn, Kept, Goto, handle_vars, work_vars
<1> QED
  BY <1>1, <1>2, <1>3, <1>4, <1>5 DEF IInv

LEMMA WakeKeeps ==
    ASSUME IInv, NEW l \in Loops, Wake(l) PROVE IInv'
<1>1. TypeOK'
  BY DEF IInv, TypeOK, PCs, Wake, Kept, Goto, Leaves, handle_vars, work_vars
<1>2. Bookkept'
  BY DEF IInv, TypeOK, Bookkept, Running, PCs, Wake, Kept, Goto, Leaves, handle_vars, work_vars
<1>3. Signals'
  BY DEF IInv, TypeOK, Signals, Wake, Kept, Goto, Leaves, handle_vars, work_vars
<1>4. Busy'
  BY DEF IInv, TypeOK, Busy, Running, PCs, Wake, Kept, Goto, Leaves, handle_vars, work_vars
<1>5. Fresh' /\ Batched' /\ Handling' /\ Complete'
  BY DEF IInv, TypeOK, Fresh, Batched, Handling, Complete, New, Copies, Stays, Listening, Wake,
    Kept, Goto, Leaves, handle_vars, work_vars
<1> QED
  BY <1>1, <1>2, <1>3, <1>4, <1>5 DEF IInv

LEMMA AnswerKeeps ==
    ASSUME IInv, NEW l \in Loops, Answer(l) PROVE IInv'
<1>1. TypeOK'
  BY DEF IInv, TypeOK, PCs, Answer, Receives, Kept, Goto, Leaves, handle_vars
<1>2. Bookkept'
  BY DEF IInv, TypeOK, Bookkept, Running, PCs, Answer, Receives, Kept, Goto, Leaves, handle_vars
<1>3. Signals'
  BY DEF IInv, TypeOK, Signals, Answer, Receives, Kept, Goto, Leaves, handle_vars
<1>4. Busy'
  BY DEF IInv, TypeOK, Busy, Running, PCs, Answer, Receives, Kept, Goto, Leaves, handle_vars
<1>5. Fresh' /\ Batched' /\ Handling' /\ Complete'
  BY DEF IInv, TypeOK, Fresh, Batched, Handling, Complete, New, Copies, Stays, Listening,
    Answer, Receives, Kept, Goto, Leaves, handle_vars
<1> QED
  BY <1>1, <1>2, <1>3, <1>4, <1>5 DEF IInv

LEMMA TakeOnKeeps ==
    ASSUME IInv, NEW l \in Loops, TakeOn(l) PROVE IInv'
<1>1. TypeOK'
  BY DEF IInv, TypeOK, PCs, TakeOn, Receives, Kept, Goto, Leaves, handle_vars
<1>2. Bookkept'
  BY DEF IInv, TypeOK, Bookkept, Running, PCs, TakeOn, Receives, Kept, Goto, Leaves, handle_vars
<1>3. Signals'
  BY DEF IInv, TypeOK, Signals, TakeOn, Receives, Kept, Goto, Leaves, handle_vars
<1>4. Busy'
  BY DEF IInv, TypeOK, Busy, Running, PCs, TakeOn, Receives, Kept, Goto, Leaves, handle_vars
<1>5. Fresh' /\ Batched' /\ Handling' /\ Complete'
  BY DEF IInv, TypeOK, Fresh, Batched, Handling, Complete, New, Copies, Stays, Listening,
    TakeOn, Receives, Kept, Goto, Leaves, handle_vars
<1> QED
  BY <1>1, <1>2, <1>3, <1>4, <1>5 DEF IInv

LEMMA ErrorKeeps ==
    ASSUME IInv, NEW l \in Loops, Error(l) PROVE IInv'
<1>1. TypeOK'
  BY DEF IInv, TypeOK, PCs, Error, Receives, Kept, Goto, Leaves, handle_vars
<1>2. Bookkept'
  BY DEF IInv, TypeOK, Bookkept, Running, PCs, Error, Receives, Kept, Goto, Leaves, handle_vars
<1>3. Signals'
  BY DEF IInv, TypeOK, Signals, Error, Receives, Kept, Goto, Leaves, handle_vars
<1>4. Busy'
  BY DEF IInv, TypeOK, Busy, Running, PCs, Error, Receives, Kept, Goto, Leaves, handle_vars
<1>5. Fresh' /\ Batched' /\ Handling' /\ Complete'
  BY DEF IInv, TypeOK, Fresh, Batched, Handling, Complete, New, Copies, Stays, Listening, Error,
    Receives, Kept, Goto, Leaves, handle_vars
<1> QED
  BY <1>1, <1>2, <1>3, <1>4, <1>5 DEF IInv

LEMMA FatalKeeps ==
    ASSUME IInv, NEW l \in Loops, Fatal(l) PROVE IInv'
<1>1. TypeOK'
  BY DEF IInv, TypeOK, PCs, Fatal, Receives, Kept, Goto, Leaves, handle_vars
<1>2. Bookkept'
  BY DEF IInv, TypeOK, Bookkept, Running, PCs, Fatal, Receives, Kept, Goto, Leaves, handle_vars
<1>3. Signals'
  BY DEF IInv, TypeOK, Signals, Fatal, Receives, Kept, Goto, Leaves, handle_vars
<1>4. Busy'
  BY DEF IInv, TypeOK, Busy, Running, PCs, Fatal, Receives, Kept, Goto, Leaves, handle_vars
<1>5. Fresh' /\ Batched' /\ Handling' /\ Complete'
  BY DEF IInv, TypeOK, Fresh, Batched, Handling, Complete, New, Copies, Stays, Listening, Fatal,
    Receives, Kept, Goto, Leaves, handle_vars
<1> QED
  BY <1>1, <1>2, <1>3, <1>4, <1>5 DEF IInv

LEMMA FinishKeeps ==
    ASSUME IInv, NEW l \in Loops, Finish(l) PROVE IInv'
<1>1. TypeOK'
  BY DEF IInv, TypeOK, PCs, Finish, Kept, handle_vars, loop_vars
<1>2. Busy'
  BY DEF IInv, TypeOK, Busy, Running, PCs, Finish, Kept, handle_vars, loop_vars
<1>3. Bookkept' /\ Fresh' /\ Batched' /\ Handling' /\ Complete' /\ Signals'
  BY DEF IInv, TypeOK, Bookkept, Fresh, Batched, Handling, Complete, Signals, Running, PCs, New,
    Copies, Stays, Listening, Finish, Kept, handle_vars, loop_vars
<1> QED
  BY <1>1, <1>2, <1>3 DEF IInv

LEMMA ReapKeeps ==
    ASSUME IInv, NEW l \in Loops, Reap(l) PROVE IInv'
<1>1. TypeOK'
  BY DEF IInv, TypeOK, PCs, Reap, Kept, Goto, Leaves, handle_vars
<1>2. Bookkept'
  BY DEF IInv, TypeOK, Bookkept, Running, PCs, Reap, Kept, Goto, Leaves, handle_vars
<1>3. Signals'
  BY DEF IInv, TypeOK, Signals, Reap, Kept, Goto, Leaves, handle_vars
<1>4. Busy'
  BY DEF IInv, TypeOK, Busy, Running, PCs, Reap, Kept, Goto, Leaves, handle_vars
<1>5. Fresh' /\ Batched' /\ Handling' /\ Complete'
  BY DEF IInv, TypeOK, Fresh, Batched, Handling, Complete, New, Copies, Stays, Listening, Reap,
    Kept, Goto, Leaves, handle_vars
<1> QED
  BY <1>1, <1>2, <1>3, <1>4, <1>5 DEF IInv

LEMMA DrainKeeps ==
    ASSUME IInv, NEW l \in Loops, Drain(l) PROVE IInv'
<1>1. TypeOK'
  BY DEF IInv, TypeOK, PCs, Drain, Kept, Goto, handle_vars
<1>2. Bookkept'
  BY DEF IInv, TypeOK, Bookkept, Running, PCs, Drain, Kept, Goto, handle_vars
<1>3. Signals'
  BY DEF IInv, TypeOK, Signals, Bookkept, Drain, Kept, Goto, handle_vars
<1>4. Busy'
  BY DEF IInv, TypeOK, Busy, Running, PCs, Drain, Kept, Goto, handle_vars
<1>5. Fresh' /\ Batched' /\ Handling' /\ Complete'
  BY DEF IInv, TypeOK, Fresh, Batched, Handling, Complete, New, Copies, Stays, Listening, Drain,
    Kept, Goto, handle_vars
<1> QED
  BY <1>1, <1>2, <1>3, <1>4, <1>5 DEF IInv

-----------------------------------------------------------------------------
(* The handler *)

LEMMA ChangeKeeps ==
    ASSUME IInv, NEW plan \in Plans, Change(plan) PROVE IInv'
<1>1. TypeOK'
  BY PlansAssumption, SizesAssumption DEF IInv, TypeOK, PCs, Phases, Change, loop_vars,
    work_vars
<1>2. Fresh'
  BY DEF IInv, TypeOK, Fresh, Change, loop_vars, work_vars
<1>3. Handling'
  BY DEF IInv, TypeOK, Handling, Change, loop_vars, work_vars
<1>4. Complete'
  BY DEF IInv, TypeOK, Complete, Stays, Listening, Copies, Change, loop_vars, work_vars
<1>5. Bookkept' /\ Batched' /\ Signals' /\ Busy'
  BY DEF IInv, TypeOK, Bookkept, Batched, Signals, Busy, Running, PCs, New, Copies, Change,
    loop_vars, work_vars
<1> QED
  BY <1>1, <1>2, <1>3, <1>4, <1>5 DEF IInv

LEMMA DegradeKeeps ==
    ASSUME IInv, NEW a \in Addrs, Degrade(a) PROVE IInv'
<1>1. TypeOK'
  BY DEF IInv, TypeOK, PCs, Degrade, Unbindable, Candidates, loop_vars, work_vars
<1>2. Fresh'
  BY DEF IInv, TypeOK, Fresh, Degrade, Unbindable, Candidates, loop_vars, work_vars
<1>3. Handling'
  BY DEF IInv, TypeOK, Handling, Degrade, Unbindable, Candidates, loop_vars, work_vars
<1>4. Bookkept' /\ Batched' /\ Complete' /\ Signals' /\ Busy'
  BY DEF IInv, TypeOK, Bookkept, Batched, Complete, Signals, Busy, Running, PCs, New, Copies,
    Stays, Listening, Degrade, Unbindable, Candidates, loop_vars, work_vars
<1> QED
  BY <1>1, <1>2, <1>3, <1>4 DEF IInv

LEMMA GiveUpKeeps ==
    ASSUME IInv, NEW a \in Addrs, GiveUp(a) PROVE IInv'
<1>1. TypeOK'
  BY DEF IInv, TypeOK, PCs, Phases, GiveUp, work_vars
<1>2. Bookkept'
  BY DEF IInv, TypeOK, Bookkept, Running, PCs, GiveUp, work_vars
<1>3. Fresh'
  BY DEF IInv, TypeOK, Fresh, GiveUp, work_vars
<1>4. Batched'
  BY DEF IInv, TypeOK, Batched, New, Copies, GiveUp, work_vars
<1>5. Handling'
  BY DEF IInv, TypeOK, Handling, GiveUp, work_vars
<1>6. Complete'
  BY DEF IInv, TypeOK, Complete, Stays, Listening, Copies, GiveUp, work_vars
<1>7. Signals'
  BY DEF IInv, TypeOK, Signals, GiveUp, work_vars
<1>8. Busy'
  BY DEF IInv, TypeOK, Busy, Running, PCs, GiveUp, work_vars
<1> QED
  BY <1>1, <1>2, <1>3, <1>4, <1>5, <1>6, <1>7, <1>8 DEF IInv

LEMMA RequestKeeps ==
    ASSUME IInv, Request PROVE IInv'
<1>1. TypeOK'
  BY DEF IInv, TypeOK, PCs, Phases, Request, Dropped, handle_vars, work_vars
<1>2. Bookkept'
  BY DEF IInv, TypeOK, Bookkept, Running, PCs, Request, Dropped, handle_vars, work_vars
<1>3. Fresh'
  BY DEF IInv, TypeOK, Fresh, Request, Dropped, handle_vars, work_vars
<1>4. Handling'
  BY DEF IInv, TypeOK, Handling, Request, Dropped, handle_vars, work_vars
<1>5. Complete'
  BY DEF IInv, TypeOK, Complete, Stays, Listening, Copies, Request, Dropped, handle_vars,
    work_vars
<1>6. Signals'
  BY DEF IInv, TypeOK, Signals, Request, Dropped, handle_vars, work_vars
<1>7. Batched' /\ Busy'
  BY DEF IInv, TypeOK, Batched, Busy, New, Copies, Running, PCs, Request, Dropped, handle_vars,
    work_vars
<1> QED
  BY <1>1, <1>2, <1>3, <1>4, <1>5, <1>6, <1>7 DEF IInv

LEMMA JoinedKeeps ==
    ASSUME IInv, NEW l \in Loops, Joined(l) PROVE IInv'
<1>1. TypeOK'
  BY DEF IInv, TypeOK, PCs, Joined, handle_vars, work_vars
<1>2. Bookkept'
  BY DEF IInv, TypeOK, Bookkept, Running, PCs, Joined, handle_vars, work_vars
<1>3. Fresh'
  BY DEF IInv, TypeOK, Fresh, Joined, handle_vars, work_vars
<1>4. Signals'
  BY DEF IInv, TypeOK, Signals, Bookkept, Joined, handle_vars, work_vars
<1>5. Busy'
  BY DEF IInv, TypeOK, Busy, Running, PCs, Joined, handle_vars, work_vars
<1>6. Batched' /\ Handling' /\ Complete'
  BY DEF IInv, TypeOK, Batched, Handling, Complete, New, Copies, Stays, Listening, Joined,
    handle_vars, work_vars
<1> QED
  BY <1>1, <1>2, <1>3, <1>4, <1>5, <1>6 DEF IInv

LEMMA JoinTimeoutKeeps ==
    ASSUME IInv, NEW l \in Loops, JoinTimeout(l) PROVE IInv'
<1>1. TypeOK'
  BY DEF IInv, TypeOK, PCs, JoinTimeout, handle_vars, loop_vars, work_vars
<1>2. Bookkept'
  BY DEF IInv, TypeOK, Bookkept, Running, PCs, JoinTimeout, handle_vars, loop_vars, work_vars
<1>3. Fresh' /\ Batched' /\ Handling' /\ Complete' /\ Signals' /\ Busy'
  BY DEF IInv, TypeOK, Fresh, Batched, Handling, Complete, Signals, Busy, New, Copies, Stays,
    Listening, Running, PCs, JoinTimeout, handle_vars, loop_vars, work_vars
<1> QED
  BY <1>1, <1>2, <1>3 DEF IInv

LEMMA RetainKeeps ==
    ASSUME IInv, Retain PROVE IInv'
<1>1. TypeOK'
  BY DEF IInv, TypeOK, PCs, Phases, Retain, loop_vars, work_vars
<1>2. Bookkept'
  BY DEF IInv, TypeOK, Bookkept, Running, PCs, Handling, Retain, loop_vars, work_vars
<1>3. Fresh'
  BY DEF IInv, TypeOK, Fresh, Retain, loop_vars, work_vars
<1>4. Handling'
  BY DEF IInv, TypeOK, Handling, Retain, loop_vars, work_vars
<1>5. Complete'
  BY DEF IInv, TypeOK, Complete, Stays, Listening, Copies, Retain, loop_vars, work_vars
<1>6. Signals'
  BY DEF IInv, TypeOK, Signals, Retain, loop_vars, work_vars
<1>7. Batched' /\ Busy'
  BY DEF IInv, TypeOK, Batched, Busy, New, Copies, Running, PCs, Retain, loop_vars, work_vars
<1> QED
  BY <1>1, <1>2, <1>3, <1>4, <1>5, <1>6, <1>7 DEF IInv

LEMMA ShutdownKeeps ==
    ASSUME IInv, Shutdown PROVE IInv'
<1>1. TypeOK'
  BY DEF IInv, TypeOK, PCs, Phases, Shutdown, handle_vars, work_vars
<1>2. Fresh'
  BY DEF IInv, TypeOK, Fresh, Shutdown, handle_vars, work_vars
<1>3. Handling'
  BY DEF IInv, TypeOK, Handling, Shutdown, handle_vars, work_vars
<1>4. Complete'
  BY DEF IInv, TypeOK, Complete, Stays, Listening, Copies, Shutdown, handle_vars, work_vars
<1>5. Signals'
  BY DEF IInv, TypeOK, Signals, Shutdown, handle_vars, work_vars
<1>6. Bookkept' /\ Batched' /\ Busy'
  BY DEF IInv, TypeOK, Bookkept, Batched, Busy, Running, PCs, New, Copies, Shutdown,
    handle_vars, work_vars
<1> QED
  BY <1>1, <1>2, <1>3, <1>4, <1>5, <1>6 DEF IInv

LEMMA RequestAllKeeps ==
    ASSUME IInv, RequestAll PROVE IInv'
<1>1. TypeOK'
  BY DEF IInv, TypeOK, PCs, Phases, RequestAll, handle_vars, work_vars
<1>2. Bookkept'
  BY DEF IInv, TypeOK, Bookkept, Running, PCs, RequestAll, handle_vars, work_vars
<1>3. Fresh'
  BY DEF IInv, TypeOK, Fresh, RequestAll, handle_vars, work_vars
<1>4. Handling'
  BY DEF IInv, TypeOK, Handling, RequestAll, handle_vars, work_vars
<1>5. Complete'
  BY DEF IInv, TypeOK, Complete, Stays, Listening, Copies, RequestAll, handle_vars, work_vars
<1>6. Signals'
  BY DEF IInv, TypeOK, Signals, RequestAll, handle_vars, work_vars
<1>7. Batched' /\ Busy'
  BY DEF IInv, TypeOK, Batched, Busy, New, Copies, Running, PCs, RequestAll, handle_vars,
    work_vars
<1> QED
  BY <1>1, <1>2, <1>3, <1>4, <1>5, <1>6, <1>7 DEF IInv

LEMMA OffKeeps ==
    ASSUME IInv, Off PROVE IInv'
<1>1. TypeOK'
  BY DEF IInv, TypeOK, PCs, Phases, Off, handle_vars, loop_vars, work_vars
<1>2. Fresh'
  BY DEF IInv, TypeOK, Fresh, Off, handle_vars, loop_vars, work_vars
<1>3. Handling'
  BY DEF IInv, TypeOK, Handling, Off, handle_vars, loop_vars, work_vars
<1>4. Complete'
  BY DEF IInv, TypeOK, Complete, Stays, Listening, Copies, Off, handle_vars, loop_vars,
    work_vars
<1>5. Signals'
  BY DEF IInv, TypeOK, Signals, Off, handle_vars, loop_vars, work_vars
<1>6. Bookkept' /\ Batched' /\ Busy'
  BY DEF IInv, TypeOK, Bookkept, Batched, Busy, Running, PCs, New, Copies, Off, handle_vars,
    loop_vars, work_vars
<1> QED
  BY <1>1, <1>2, <1>3, <1>4, <1>5, <1>6 DEF IInv

\* The copies of an address are bound together, and only addresses without any are tried.
LEMMA BindKeeps ==
    ASSUME IInv, NEW a \in Addrs, Bind(a) PROVE IInv'
<1> DEFINE batch == CHOOSE ls \in Batches(a) : TRUE
<1>1. batch \in SUBSET Unused /\ Cardinality(batch) = Copies(a)
  BY DEF Bind, Batches
<1>2. \A l \in batch : l \in Loops /\ pc[l] = "free"
  BY <1>1 DEF Unused
<1>3. /\ ctl \in {"start", "bind"} /\ a \in todo /\ todo' = todo \ {a}
      /\ pc' = [l \in Loops |-> IF l \in batch THEN "new" ELSE pc[l]]
      /\ at' = [l \in Loops |-> IF l \in batch THEN a ELSE at[l]]
      /\ dual' = [l \in Loops |-> IF l \in batch THEN Dual(a) ELSE dual[l]]
      /\ own' = [l \in Loops |-> own[l] /\ l \notin batch]
      /\ UNCHANGED <<ctl, want, bound, listed, closing, changes, stop, woken, missed, broken, tasks, reap>>
  BY DEF Bind, Candidates, work_vars
<1> HIDE DEF batch
<1>4. \A l \in listed \cup closing : l \in Loops /\ l \notin batch
  BY <1>2 DEF IInv, TypeOK, Bookkept
<1>5. Dual(a) \in BOOLEAN
  BY DEF Dual
<1>6. TypeOK'
  BY <1>2, <1>3, <1>5 DEF IInv, TypeOK, PCs
<1>7. Bookkept'
  BY <1>2, <1>3, <1>4 DEF IInv, TypeOK, Bookkept, Running, PCs
<1>8. Fresh'
  BY <1>2, <1>3 DEF IInv, TypeOK, Fresh, Handling
<1>9. Batched'
  <2>1. New(a) = {}
    BY <1>3 DEF IInv, Fresh, New
  <2>2. New(a)' = batch
    BY <1>2, <1>3, <2>1 DEF New
  <2>3. ASSUME NEW b \in Addrs, b # a PROVE New(b)' = New(b)
    BY <1>2, <1>3, <2>3 DEF New
  <2> QED
    BY <1>1, <2>2, <2>3 DEF IInv, Batched, Copies
<1>10. Handling'
  BY <1>3 DEF IInv, TypeOK, Handling
<1>11. Complete'
  <2>1. ASSUME NEW b PROVE Listening(b)' = Listening(b) /\ Stays(b)' = Stays(b)
    BY <1>3, <1>4 DEF Listening, Stays
  <2> QED
    BY <1>3, <2>1 DEF IInv, Complete, Copies
<1>12. Signals' /\ Busy'
  BY <1>2, <1>3, <1>4 DEF IInv, TypeOK, Signals, Busy, Running, PCs
<1> QED
  BY <1>6, <1>7, <1>8, <1>9, <1>10, <1>11, <1>12 DEF IInv

\* The new loops are all those of their addresses, which had none.
LEMMA SpawnKeeps ==
    ASSUME IInv, Spawn PROVE IInv'
<1> DEFINE new == {l \in Loops : pc[l] = "new"}
<1>1. /\ ctl \in {"start", "bind"} /\ ctl' = IF ctl = "start" THEN "idle" ELSE "request"
      /\ pc' = [l \in Loops |-> IF l \in new THEN "top" ELSE pc[l]]
      /\ listed' = listed \cup new
      /\ bound' = bound \cup {at[l] : l \in new}
      /\ UNCHANGED <<want, todo, closing, changes, at, dual, stop, own, woken, missed, broken, tasks, reap>>
  BY DEF Spawn, work_vars
<1>2. \A l \in new : l \in Loops /\ at[l] \in Addrs /\ at[l] \in want /\ at[l] \notin bound /\ ~own[l]
  BY DEF IInv, TypeOK, Fresh
<1> HIDE DEF new
<1>3. TypeOK'
  BY <1>1, <1>2 DEF IInv, TypeOK, PCs, Phases, new
<1>4. Bookkept'
  BY <1>1, <1>2 DEF IInv, TypeOK, Bookkept, Running, PCs, new
<1>5. Fresh' /\ Handling'
  BY <1>1 DEF IInv, TypeOK, Fresh, Handling, new
<1>6. Batched'
  BY <1>1 DEF IInv, TypeOK, Batched, New, new
<1>7. Complete'
  <2> SUFFICES ASSUME NEW a \in Addrs, a \in bound' PROVE Cardinality(Listening(a)') = Copies(a)
    BY DEF Complete, Stays, Copies
  <2>1. CASE a \in bound
    <3>1. Listening(a)' = Listening(a)
      BY <1>1, <1>2, <2>1 DEF Listening
    <3>2. ctl = "bind"
      BY <1>1, <2>1 DEF IInv, Handling
    <3> QED
      BY <2>1, <3>1, <3>2 DEF IInv, Complete, Stays
  <2>2. CASE a \notin bound
    <3>1. Listening(a)' = New(a)
      BY <1>1, <2>2 DEF IInv, TypeOK, Bookkept, Listening, New, new
    <3>2. New(a) # {}
      BY <1>1, <2>2 DEF New, new
    <3> QED
      BY <3>1, <3>2 DEF IInv, Batched
  <2> QED
    BY <2>1, <2>2
<1>8. Signals' /\ Busy'
  BY <1>1 DEF IInv, TypeOK, Signals, Busy, Running, PCs, new
<1> QED
  BY <1>3, <1>4, <1>5, <1>6, <1>7, <1>8 DEF IInv

-----------------------------------------------------------------------------
LEMMA InitIInv == Init => IInv
<1> SUFFICES ASSUME Init PROVE IInv
  OBVIOUS
<1>1. TypeOK
  <2>1. \E a \in Addrs : TRUE
    BY PlansAssumption DEF Init
  <2> DEFINE any == CHOOSE a \in Addrs : TRUE
  <2>2. any \in Addrs
    BY <2>1
  <2>3. at = [l \in Loops |-> any]
    BY DEF Init
  <2> HIDE DEF any
  <2>4. at \in [Loops -> Addrs]
    BY <2>2, <2>3
  <2>5. want \subseteq Addrs
    BY PlansAssumption DEF Init
  <2>6. pc \in [Loops -> PCs] /\ tasks \in [Loops -> Nat]
    BY DEF Init, PCs
  <2>7. dual \in [Loops -> BOOLEAN] /\ own \in [Loops -> BOOLEAN] /\ woken \in [Loops -> BOOLEAN]
    BY DEF Init
  <2>8. /\ ctl \in Phases /\ todo = want /\ bound = {} /\ listed = {} /\ closing = {} /\ changes = 0
        /\ stop = FALSE /\ missed = {} /\ reap = {} /\ broken = {}
    BY DEF Init, Phases
  <2> QED
    <3>1. MaxRebinds \in Nat
      BY SizesAssumption
    <3>2. ctl \in Phases /\ want \subseteq Addrs /\ todo \subseteq want /\ bound \subseteq Addrs
      BY <2>5, <2>8
    <3>3. listed \subseteq Loops /\ closing \subseteq Loops /\ changes \in 0..MaxRebinds
      BY <2>8, <3>1
    <3>4. {dual, own, woken} \subseteq [Loops -> BOOLEAN] /\ stop \in BOOLEAN
      BY <2>7, <2>8
    <3>5. reap \subseteq Loops /\ {missed, broken} \subseteq SUBSET Loops
      BY <2>8
    <3> QED
      BY <2>4, <2>6, <3>2, <3>3, <3>4, <3>5 DEF TypeOK
<1>2. Bookkept /\ Fresh /\ Handling /\ Complete /\ Signals /\ Busy
  BY DEF Init, Bookkept, Running, PCs, Fresh, Handling, Complete, Signals, Busy
<1>3. Batched
  BY DEF Init, Batched, New
<1> QED
  BY <1>1, <1>2, <1>3 DEF IInv

LEMMA StepIInv == IInv /\ [Next]_vars => IInv'
<1> SUFFICES ASSUME IInv, [Next]_vars PROVE IInv'
  OBVIOUS
<1>1. ASSUME NEW plan \in Plans, Change(plan) PROVE IInv'
  BY <1>1, ChangeKeeps
<1>2. CASE Shutdown
  BY <1>2, ShutdownKeeps
<1>3. CASE Handler
  <2>1. ASSUME NEW a \in Addrs, Bind(a) \/ Degrade(a) \/ GiveUp(a) PROVE IInv'
    BY <2>1, BindKeeps, DegradeKeeps, GiveUpKeeps
  <2>2. ASSUME NEW l \in Loops, Joined(l) \/ JoinTimeout(l) PROVE IInv'
    BY <2>2, JoinedKeeps, JoinTimeoutKeeps
  <2> QED
    BY <1>3, <2>1, <2>2, SpawnKeeps, RequestKeeps, RetainKeeps, RequestAllKeeps, OffKeeps DEF Handler
<1>4. ASSUME NEW l \in Loops, Step(l) PROVE IInv'
  BY <1>4, LookKeeps, AwaitStopKeeps, AwaitOwnKeeps, WakeKeeps, DrainKeeps DEF Step
<1>5. ASSUME NEW l \in Loops, Traffic(l) PROVE IInv'
  BY <1>5, AnswerKeeps, TakeOnKeeps, ErrorKeeps, FatalKeeps, FinishKeeps, ReapKeeps DEF Traffic
<1>6. CASE UNCHANGED vars
  <2>1. \A a : New(a)' = New(a) /\ Listening(a)' = Listening(a) /\ Stays(a)' = Stays(a)
    BY <1>6 DEF vars, New, Listening, Stays
  <2>2. TypeOK' /\ Bookkept' /\ Fresh' /\ Handling' /\ Signals' /\ Busy'
    BY <1>6 DEF IInv, vars, TypeOK, Bookkept, Running, Fresh, Handling, Signals, Busy
  <2>3. Batched' /\ Complete'
    BY <1>6, <2>1 DEF IInv, vars, Batched, Complete, Copies
  <2> QED
    BY <2>2, <2>3 DEF IInv
<1> QED
  BY <1>1, <1>2, <1>3, <1>4, <1>5, <1>6 DEF Next

\* The inductive invariant.
THEOREM Invariance == Spec => []IInv
  BY InitIInv, StepIInv, PTL DEF Spec

\* Every variable keeps its type.
THEOREM TypeCorrect == Spec => []TypeOK
<1>1. IInv => TypeOK
  BY DEF IInv
<1> QED
  BY <1>1, Invariance, PTL

\* While the addresses change, fail to change or are given up, an address that is bound and
\* not dropped keeps all its loops, however many workers it has.
THEOREM AddressesStayServed == Spec => []KeptServed
<1>1. IInv => KeptServed
  <2> SUFFICES ASSUME IInv, ctl \in {"idle", "bind", "request", "join"}, NEW a \in Addrs, Stays(a)
               PROVE  Cardinality({l \in listed : at[l] = a /\ ~own[l] /\ (Running(l) \/ l \in broken)})
                         = Copies(a)
    BY DEF KeptServed
  <2>1. ~stop
    BY DEF IInv, Signals
  <2>2. \A l \in listed : ~own[l] /\ (Running(l) \/ l \in broken)
    BY <2>1 DEF IInv, TypeOK, Bookkept, Signals, Running
  <2>3. {l \in listed : at[l] = a /\ ~own[l] /\ (Running(l) \/ l \in broken)} = Listening(a)
    BY <2>2 DEF Listening
  <2> QED
    BY <2>3 DEF IInv, Complete
<1> QED
  BY <1>1, Invariance, PTL

\* No socket is left behind by a change that failed, a loop that ended or a join that timed
\* out, except one whose loop was told to stop.
THEOREM NoSocketLost == Spec => []SocketsAccounted
<1>1. IInv => SocketsAccounted
  <2> SUFFICES ASSUME IInv, NEW l \in Loops, Open(l)
               PROVE  \/ l \in listed \cup closing /\ pc[l] \notin {"new", "ended"}
                      \/ pc[l] = "new" /\ ctl \in {"start", "bind"}
                      \/ pc[l] \notin {"new", "ended"} /\ own[l]
    BY DEF SocketsAccounted
  <2>1. pc[l] \notin {"free", "ended"}
    BY DEF IInv, TypeOK, Open, Busy, Running
  <2>2. CASE pc[l] = "new"
    BY <2>2 DEF IInv, Fresh
  <2>3. CASE pc[l] # "new"
    BY <2>1, <2>3 DEF IInv, TypeOK, Bookkept, Running
  <2> QED
    BY <2>2, <2>3
<1> QED
  BY <1>1, Invariance, PTL
=============================================================================
