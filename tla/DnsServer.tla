----------------------------- MODULE DnsServer -----------------------------
(***************************************************************************)
(* The listening sockets of ebpdns (ebpdns-server, dns.rs, driven by       *)
(* main.rs): one receive loop per UDP socket and one accept loop per TCP   *)
(* socket, each with a stop signal of its own besides the global one;      *)
(* startup, the change of the listen addresses while the server runs       *)
(* (rebind) and the shutdown.                                              *)
(*                                                                         *)
(* The handler of a change binds the new sockets, starts their loops, asks *)
(* the loops of the dropped addresses to stop, waits for each one at most  *)
(* for a time, and then forgets the addresses.  It is serialised by a      *)
(* mutex, also against the shutdown.  The loops run in parallel with it.   *)
(*                                                                         *)
(* A stop signal is a flag and a notification that reaches only those who  *)
(* wait for it already.  The steps of a loop are cut where it has read a   *)
(* flag and has not begun to wait yet: "unarmed" comes after the flag of   *)
(* the global signal was read, "armed" after that of its own was.          *)
(***************************************************************************)
EXTENDS Naturals, FiniteSets, FiniteSetsExt

CONSTANTS
    Udp, Tcp,      \* the addresses a configuration may name, with their protocol
    V6,            \* those of IPv6
    Overlaps,      \* {v4, v6}: the wildcard addresses of one port
    Foreign,       \* addresses another process may hold
    Plans,         \* what listen_binds may ask for: each a set of addresses
    Workers,       \* sockets of a UDP address (udp_workers)
    Slots,         \* tasks at a time: udp_slots, tcp_slots
    Loops,         \* names for the sockets with their loops
    MaxRebinds     \* bound: changes of the addresses

Addrs == Udp \cup Tcp

ASSUME AddrsAssumption == Udp \cap Tcp = {} /\ V6 \subseteq Addrs /\ Foreign \subseteq Addrs
ASSUME PlansAssumption == \A p \in Plans : p \subseteq Addrs /\ p \cap Udp # {} /\ p \cap Tcp # {}
ASSUME SizesAssumption ==
    /\ Workers \in Nat \ {0}
    /\ {Slots, MaxRebinds} \subseteq Nat

VARIABLES
  (* the handle: DnsServer and the task that holds it *)
    ctl,           \* where the handler is
    want,          \* the addresses of the change in progress
    todo,          \* those it has not tried to bind yet
    bound,         \* udp_bound and tcp_bound
    listed,        \* the loops of udp_sockets and tcp_sockets
    closing,       \* the loops taken out of them and not joined yet
    changes,       \* changes made so far (bounded)
  (* the loops; a loop has one socket *)
    at, pc,        \* its address, where it is
    dual,          \* an IPv6 socket that takes the port for IPv4 too
    stop, own,     \* the flags of the signals
    woken,         \* a notification reached the loop
    missed,        \* history: its own signal came between the flag and the wait
    tasks,         \* misses or connections it has in flight
    reap,          \* accept loops with a finished connection to collect
    broken         \* loops that gave up after errors

handle_vars == <<want, todo, bound>>
loop_vars == <<pc, woken, missed>>
work_vars == <<tasks, reap>>
vars == <<ctl, want, todo, bound, listed, closing, changes,
          at, pc, dual, stop, own, woken, missed, tasks, reap, broken>>

Phases == {"start", "bind", "request", "join", "idle", "shutdown", "stopping", "off"}
PCs == {"free", "new", "top", "unarmed", "armed", "receive", "drain", "ended"}

Running(l) == pc[l] \in PCs \ {"free", "new", "ended"}

\* A task of a UDP loop keeps the socket open too.
Open(l) == pc[l] \notin {"free", "ended"} \/ (at[l] \in Udp /\ tasks[l] > 0)

Protocol(a) == IF a \in Udp THEN Udp ELSE Tcp
Copies(a) == IF a \in Udp THEN Workers ELSE 1

Init ==
    /\ ctl = "start" /\ want \in Plans /\ todo = want
    /\ bound = {} /\ listed = {} /\ closing = {} /\ changes = 0
    /\ at = [l \in Loops |-> CHOOSE a \in Addrs : TRUE] /\ pc = [l \in Loops |-> "free"]
    /\ dual = [l \in Loops |-> FALSE]
    /\ stop = FALSE /\ own = [l \in Loops |-> FALSE] /\ woken = [l \in Loops |-> FALSE]
    /\ missed = {}
    /\ tasks = [l \in Loops |-> 0] /\ reap = {} /\ broken = {}

-----------------------------------------------------------------------------
(* Startup and rebind *)

\* The supervisor takes the next configuration that names other addresses.
Change(plan) ==
    /\ ctl = "idle" /\ changes < MaxRebinds /\ plan # bound
    /\ ctl' = "bind" /\ want' = plan /\ todo' = plan \ bound /\ changes' = changes + 1
    /\ UNCHANGED <<bound, listed, closing, at, dual, stop, own, broken, loop_vars, work_vars>>

\* The UDP addresses come first.
Candidates == IF todo \cap Udp # {} THEN todo \cap Udp ELSE todo

\* v6only_for: an IPv6 socket also takes the IPv4 port unless the same list names both.
Dual(a) == a \in V6 /\ want \cap Protocol(a) \subseteq V6

\* A socket of this process is in the way.
Taken(a) ==
    \E l \in Loops :
        /\ Open(l)
        /\ \/ at[l] = a
           \/ {at[l], a} \in Overlaps /\ (dual[l] \/ Dual(a))

Unused == {l \in Loops : pc[l] = "free"}
Batches(a) == {ls \in SUBSET Unused : Cardinality(ls) = Copies(a)}

\* All the copies of an address are bound, or none.
Bind(a) ==
    /\ ctl \in {"start", "bind"} /\ a \in Candidates /\ ~Taken(a) /\ Batches(a) # {}
    /\ todo' = todo \ {a}
    /\ LET batch == CHOOSE ls \in Batches(a) : TRUE
       IN  /\ pc' = [l \in Loops |-> IF l \in batch THEN "new" ELSE pc[l]]
           /\ at' = [l \in Loops |-> IF l \in batch THEN a ELSE at[l]]
           /\ dual' = [l \in Loops |-> IF l \in batch THEN Dual(a) ELSE dual[l]]
           /\ own' = [l \in Loops |-> own[l] /\ l \notin batch]
    /\ UNCHANGED <<ctl, want, bound, listed, closing, changes, stop, woken, missed, broken, work_vars>>

Unbindable(a) == a \in Candidates /\ (Taken(a) \/ a \in Foreign)

\* With more than one worker rebind probes a UDP address first, and gives up when that
\* fails, for IPv6 too.  A copy that cannot be bound after the probe is another matter.
ProbeIsFatal(a) == ctl = "bind" /\ a \in Udp /\ Workers > 1

\* An IPv6 address that cannot be bound is left out.
Degrade(a) ==
    /\ ctl \in {"start", "bind"} /\ Unbindable(a) /\ a \in V6
    /\ ProbeIsFatal(a) => a \in Foreign /\ ~Taken(a)
    /\ todo' = todo \ {a}
    /\ UNCHANGED <<ctl, want, bound, listed, closing, changes, at, dual, stop, own, broken,
                   loop_vars, work_vars>>

\* An IPv4 address that cannot be bound fails the rebind, and the process at startup; the
\* sockets bound so far are closed.
GiveUp(a) ==
    /\ ctl \in {"start", "bind"} /\ Unbindable(a)
    /\ a \notin V6 \/ ProbeIsFatal(a)
    /\ ctl' = IF ctl = "start" THEN "off" ELSE "idle"
    /\ todo' = {}
    /\ pc' = [l \in Loops |-> IF pc[l] = "new" THEN "free" ELSE pc[l]]
    /\ UNCHANGED <<want, bound, listed, closing, changes, at, dual, stop, own, woken, missed, broken,
                   work_vars>>

\* Everything new is bound: the loops start.
Spawn ==
    /\ ctl \in {"start", "bind"} /\ todo = {}
    /\ LET new == {l \in Loops : pc[l] = "new"}
       IN  /\ pc' = [l \in Loops |-> IF l \in new THEN "top" ELSE pc[l]]
           /\ listed' = listed \cup new
           /\ bound' = bound \cup {at[l] : l \in new}
    /\ ctl' = IF ctl = "start" THEN "idle" ELSE "request"
    /\ UNCHANGED <<want, todo, closing, changes, at, dual, stop, own, woken, missed, broken, work_vars>>

Dropped == {l \in listed : at[l] \notin want}

\* Their own signal reaches the loops that wait for it already.
Request ==
    /\ ctl = "request"
    /\ own' = [l \in Loops |-> own[l] \/ l \in Dropped]
    /\ woken' = [l \in Loops |-> woken[l] \/ (l \in Dropped /\ pc[l] = "receive")]
    /\ missed' = missed \cup {l \in Dropped : pc[l] = "armed"}
    /\ closing' = Dropped /\ listed' = listed \ Dropped
    /\ ctl' = "join"
    /\ UNCHANGED <<changes, at, pc, dual, stop, broken, handle_vars, work_vars>>

\* A loop that is joined or let go; it is not in the handle any more.
Joined(l) ==
    /\ ctl \in {"join", "stopping"} /\ l \in closing /\ pc[l] = "ended"
    /\ closing' = closing \ {l}
    /\ pc' = [pc EXCEPT ![l] = "free"]
    /\ broken' = broken \ {l}
    /\ UNCHANGED <<ctl, listed, changes, at, dual, stop, own, woken, missed, handle_vars, work_vars>>

\* Mutant: the handle is awaited without a timeout.
JoinForever(l) ==
    /\ l \in closing /\ FALSE
    /\ UNCHANGED vars

JoinTimeout(l) ==
    /\ ctl \in {"join", "stopping"} /\ l \in closing /\ pc[l] # "ended"
    /\ closing' = closing \ {l}
    /\ UNCHANGED <<ctl, listed, changes, at, dual, stop, own, broken, handle_vars, loop_vars, work_vars>>

\* Mutant: the list of bound addresses keeps the ones that were closed.
RetainAll ==
    /\ ctl = "join" /\ closing = {}
    /\ ctl' = "idle"
    /\ UNCHANGED <<want, todo, bound, listed, closing, changes, at, dual, stop, own, broken, loop_vars, work_vars>>

Retain ==
    /\ ctl = "join" /\ closing = {}
    /\ bound' = bound \cap want
    /\ ctl' = "idle"
    /\ UNCHANGED <<want, todo, listed, closing, changes, at, dual, stop, own, broken, loop_vars, work_vars>>

-----------------------------------------------------------------------------
(* Shutdown: the global signal, then the loops' own *)

Shutdown ==
    /\ ctl = "idle"
    /\ stop' = TRUE
    /\ woken' = [l \in Loops |-> woken[l] \/ pc[l] \in {"armed", "receive"}]
    /\ ctl' = "shutdown"
    /\ UNCHANGED <<listed, closing, changes, at, pc, dual, own, missed, broken, handle_vars, work_vars>>

RequestAll ==
    /\ ctl = "shutdown"
    /\ own' = [l \in Loops |-> own[l] \/ l \in listed]
    /\ woken' = [l \in Loops |-> woken[l] \/ (l \in listed /\ pc[l] = "receive")]
    /\ missed' = missed \cup {l \in listed : pc[l] = "armed"}
    /\ closing' = listed /\ listed' = {}
    /\ ctl' = "stopping"
    /\ UNCHANGED <<changes, at, pc, dual, stop, broken, handle_vars, work_vars>>

Off ==
    /\ ctl = "stopping" /\ closing = {}
    /\ ctl' = "off"
    /\ UNCHANGED <<listed, closing, changes, at, dual, stop, own, broken, handle_vars, loop_vars, work_vars>>

-----------------------------------------------------------------------------
(* A receive or accept loop *)

Kept == UNCHANGED <<ctl, listed, closing, changes, at, dual, stop, own, handle_vars>>
Goto(l, p) == pc' = [pc EXCEPT ![l] = p]
Leaves(l, p) == Goto(l, p) /\ woken' = [woken EXCEPT ![l] = FALSE] /\ missed' = missed \ {l}

\* The top of the loop, and the flag of stop.wait().
Look(l) ==
    /\ pc[l] = "top"
    /\ Goto(l, IF stop \/ own[l] THEN "drain" ELSE "unarmed")
    /\ Kept /\ UNCHANGED <<woken, missed, broken, work_vars>>

\* Mutant: the wait is for the notification alone, its flag is not looked at.
AwaitStopBlind(l) ==
    /\ pc[l] = "unarmed"
    /\ Goto(l, "armed")
    /\ Kept /\ UNCHANGED <<woken, missed, broken, work_vars>>

\* stop.wait() begins to wait; own.wait() reads its flag.
AwaitStop(l) ==
    /\ pc[l] = "unarmed"
    /\ Goto(l, IF own[l] THEN "drain" ELSE "armed")
    /\ Kept /\ UNCHANGED <<woken, missed, broken, work_vars>>

AwaitOwn(l) ==
    /\ pc[l] = "armed"
    /\ Goto(l, "receive")
    /\ Kept /\ UNCHANGED <<woken, missed, broken, work_vars>>

Wake(l) ==
    /\ pc[l] = "receive" /\ woken[l]
    /\ Leaves(l, "drain")
    /\ Kept /\ UNCHANGED <<broken, work_vars>>

\* The UDP loop looks at the signals before it looks at its socket, the TCP loop at random.
Receives(l) == pc[l] = "receive" /\ (woken[l] => at[l] \in Tcp)

InFlight(protocol) == MapThenSumSet(LAMBDA l : tasks[l], {l \in Loops : at[l] \in protocol})

\* A query answered from the cache, or one that finds no slot and is dropped; a connection
\* that finds no slot and is closed.
Answer(l) ==
    /\ Receives(l) /\ Leaves(l, "top")
    /\ at[l] \in Tcp => InFlight(Tcp) >= Slots
    /\ Kept /\ UNCHANGED <<tasks, reap, broken>>

\* A miss or a connection gets a slot and a task.
TakeOn(l) ==
    /\ Receives(l) /\ Leaves(l, "top")
    /\ InFlight(Protocol(at[l])) < Slots
    /\ tasks' = [tasks EXCEPT ![l] = @ + 1]
    /\ Kept /\ UNCHANGED <<reap, broken>>

\* recv_from or accept fails: the loop goes on after a pause, or gives up after the last
\* of ERR_FATAL_AFTER failures in a row (they are not counted here).
Error(l) ==
    /\ Receives(l) /\ Leaves(l, "top")
    /\ Kept /\ UNCHANGED <<tasks, reap, broken>>

Fatal(l) ==
    /\ Receives(l) /\ Leaves(l, "drain")
    /\ broken' = broken \cup {l}
    /\ Kept /\ UNCHANGED <<tasks, reap>>

\* A task ends; the accept loop collects it where it waits.
Finish(l) ==
    /\ tasks[l] > 0
    /\ tasks' = [tasks EXCEPT ![l] = @ - 1]
    /\ reap' = IF at[l] \in Tcp THEN reap \cup {l} ELSE reap
    /\ Kept /\ UNCHANGED <<broken, loop_vars>>

Reap(l) ==
    /\ pc[l] = "receive" /\ l \in reap
    /\ Leaves(l, "top") /\ reap' = reap \ {l}
    /\ Kept /\ UNCHANGED <<tasks, broken>>

\* Mutant: tasks that are spawned detached outlive the loop and hold its socket.
DrainDetached(l) ==
    /\ pc[l] = "drain"
    /\ Goto(l, IF l \in listed \cup closing THEN "ended" ELSE "free")
    /\ woken' = [woken EXCEPT ![l] = FALSE] /\ missed' = missed \ {l}
    /\ broken' = IF l \in listed \cup closing THEN broken ELSE broken \ {l}
    /\ Kept /\ UNCHANGED work_vars

\* After the loop its tasks are aborted and the socket is closed.
Drain(l) ==
    /\ pc[l] = "drain"
    /\ Goto(l, IF l \in listed \cup closing THEN "ended" ELSE "free")
    /\ tasks' = [tasks EXCEPT ![l] = 0] /\ reap' = reap \ {l}
    /\ woken' = [woken EXCEPT ![l] = FALSE] /\ missed' = missed \ {l}
    /\ broken' = IF l \in listed \cup closing THEN broken ELSE broken \ {l}
    /\ Kept

-----------------------------------------------------------------------------
Handler ==
    \/ \E a \in Addrs : Bind(a) \/ Degrade(a) \/ GiveUp(a)
    \/ Spawn \/ Request \/ Retain \/ RequestAll \/ Off
    \/ \E l \in Loops : Joined(l) \/ JoinTimeout(l)

Step(l) == Look(l) \/ AwaitStop(l) \/ AwaitOwn(l) \/ Wake(l) \/ Drain(l)

Traffic(l) == Answer(l) \/ TakeOn(l) \/ Error(l) \/ Fatal(l) \/ Finish(l) \/ Reap(l)

Next ==
    \/ \E plan \in Plans : Change(plan)
    \/ Shutdown
    \/ Handler
    \/ \E l \in Loops : Step(l) \/ Traffic(l)

Spec == Init /\ [][Next]_vars

\* tokio polls a task that can go on, and every join is cut off by its timeout.  Nothing
\* is assumed of the traffic.
FairSpec == Spec /\ WF_vars(Handler) /\ \A l \in Loops : WF_vars(Step(l))

-----------------------------------------------------------------------------
(* Properties *)

\* Every variable stays in the set of values it is meant for.
TypeOK ==
    /\ ctl \in Phases /\ want \subseteq Addrs /\ todo \subseteq want /\ bound \subseteq Addrs
    /\ listed \subseteq Loops /\ closing \subseteq Loops /\ changes \in 0..MaxRebinds
    /\ at \in [Loops -> Addrs] /\ pc \in [Loops -> PCs]
    /\ {dual, own, woken} \subseteq [Loops -> BOOLEAN] /\ stop \in BOOLEAN
    /\ tasks \in [Loops -> Nat] /\ reap \subseteq Loops
    /\ {missed, broken} \subseteq SUBSET Loops

\* An address the handle calls bound, and that no change in progress drops, has all its
\* loops: each one is in the handle, was not told to stop, and runs unless its own errors
\* ended it.  This is what "keep" promises ("listening all the time, no packet lost",
\* dns.rs:565-567), also while new sockets are bound, fail to, or old ones are closed.
Stays(a) == a \in bound /\ (ctl \in {"request", "join"} => a \in want)
KeptServed ==
    ctl \in {"idle", "bind", "request", "join"} =>
        \A a \in Addrs : Stays(a) =>
            Cardinality({l \in listed : at[l] = a /\ ~own[l] /\ (Running(l) \/ l \in broken)})
                = Copies(a)

\* Every socket is accounted for: it belongs to a loop in the handle or being closed, it is
\* new in the change in progress, or its loop was told to stop.  A failed or finished
\* change leaves no other, and a loop that has ended has left nothing that holds its port.
SocketsAccounted ==
    \A l \in Loops : Open(l) =>
        \/ l \in listed \cup closing /\ pc[l] \notin {"new", "ended"}
        \/ pc[l] = "new" /\ ctl \in {"start", "bind"}
        \/ pc[l] \notin {"new", "ended"} /\ own[l]

\* A change or a shutdown that has begun ends, whatever the loops do meanwhile.
HandlerReturns == (ctl \notin {"idle", "off"}) ~> (ctl \in {"idle", "off"})

\* Again and again, and for good once the handler is done, no loop that was told to stop
\* runs: it needs no traffic to end, unless it has missed the signal.
StopHeard == []<>(\A l \in Loops : Running(l) /\ own[l] => l \in missed)

\* "A failure is rolled back and the old listeners are kept (never bare)" (main.rs:756-757,
\* dns.rs:570-571): between changes each protocol has an address it listens on.
NeverBare == ctl = "idle" => bound \cap Udp # {} /\ bound \cap Tcp # {}
=============================================================================
