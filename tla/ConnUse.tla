------------------------------ MODULE ConnUse ------------------------------
(***************************************************************************)
(* What the pool of connections (ConnPool) promises to its callers: a      *)
(* connection belongs to the entry it was opened for until it is closed,   *)
(* is used by one caller at a time, and is never given out again once it   *)
(* is closed; an entry has at most MAX_CONN connections in use and keeps   *)
(* at most MAX_CONN idle ones.  Nothing is said of when a connection is    *)
(* reused, kept or closed.                                                 *)
(***************************************************************************)
EXTENDS Naturals, FiniteSets

CONSTANTS Callers, Entries, Conns, NoEntry, NoConn, MAX_CONN

VARIABLES
    idle,           \* the idle connections of each entry
    held,           \* the connection each caller uses
    at              \* the entry it uses it for

vars == <<idle, held, at>>

Init ==
    /\ idle = [e \in Entries |-> {}]
    /\ held = [c \in Callers |-> NoConn]
    /\ at = [c \in Callers |-> NoEntry]

InUse(e) == {c \in Callers : at[c] = e}

Use(c, e, x) ==
    /\ held[c] = NoConn /\ Cardinality(InUse(e)) < MAX_CONN
    /\ held' = [held EXCEPT ![c] = x]
    /\ at' = [at EXCEPT ![c] = e]

LetGo(c) ==
    /\ held[c] # NoConn
    /\ held' = [held EXCEPT ![c] = NoConn]
    /\ at' = [at EXCEPT ![c] = NoEntry]

\* A new connection, which nobody has.
Open(c, e, x) ==
    /\ \A f \in Entries : x \notin idle[f]
    /\ \A d \in Callers : x # held[d]
    /\ Use(c, e, x)
    /\ UNCHANGED idle

\* An idle one of the entry; others may be closed along with it.
Reuse(c, e, x, kept) ==
    /\ x \in idle[e] /\ kept \subseteq idle[e] \ {x}
    /\ Use(c, e, x)
    /\ idle' = [idle EXCEPT ![e] = kept]

\* The connection goes back to its entry, where it may take the place of others.
Keep(c, kept) ==
    /\ kept \subseteq idle[at[c]] /\ Cardinality(kept) < MAX_CONN
    /\ idle' = [idle EXCEPT ![at[c]] = kept \cup {held[c]}]
    /\ LetGo(c)

Close(c) == LetGo(c) /\ UNCHANGED idle

CloseIdle ==
    /\ idle' \in [Entries -> SUBSET Conns]
    /\ \A e \in Entries : idle'[e] \subseteq idle[e]
    /\ UNCHANGED <<held, at>>

Next ==
    \/ \E c \in Callers :
          \/ \E e \in Entries, x \in Conns :
                Open(c, e, x) \/ \E kept \in SUBSET idle[e] : Reuse(c, e, x, kept)
          \/ \E e \in Entries : at[c] = e /\ \E kept \in SUBSET idle[e] : Keep(c, kept)
          \/ Close(c)
    \/ CloseIdle

Spec == Init /\ [][Next]_vars
=============================================================================
