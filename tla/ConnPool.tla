------------------------------ MODULE ConnPool ------------------------------
(***************************************************************************)
(* The pool of TLS connections to DoT and DoH upstreams (ebpdns-upstream,  *)
(* pool.rs, used by dot.rs and doh.rs).  A key of the pool has an entry    *)
(* with a queue of idle connections and a semaphore; one counter,          *)
(* idle_total, is shared by all the keys and decides when the pool is      *)
(* trimmed.                                                                *)
(*                                                                         *)
(* The table of entries and each queue have a lock of their own.  The      *)
(* counter follows the queues: with the lock of the queue held in acquire  *)
(* and release, but after the locks are given back in trim_idle,           *)
(* reclaim_idle and discard; trim_idle also reads it before it takes any.  *)
(* An action is what a call does between two such points, or between two   *)
(* awaits.                                                                 *)
(*                                                                         *)
(* A queue is ordered by last use, so that only the ages tell its members  *)
(* apart: it is a set, of which the members in "aged" are the oldest.      *)
(***************************************************************************)
EXTENDS Naturals, FiniteSets, FiniteSetsExt

CONSTANTS
    Callers,        \* the tasks that use the pool
    Keys,           \* (protocol, host, port, path)
    Entries,        \* the entries that are made, one after the other
    Conns,          \* the connections
    NoKey, NoEntry, NoConn,
    MAX_CONN,       \* permits of an entry, and the limit of its idle queue
    MAX_TOTAL_IDLE

ASSUME SetsAssumption == IsFiniteSet(Callers) /\ IsFiniteSet(Conns)
ASSUME NonesAssumption == NoKey \notin Keys /\ NoEntry \notin Entries /\ NoConn \notin Conns
ASSUME LimitsAssumption == MAX_CONN \in Nat \ {0} /\ MAX_TOTAL_IDLE \in Nat \ {0}

VARIABLES
    table,          \* the entry of each key
    discarded,      \* entry: the flag set by discard
    permits,        \* entry: free permits of its semaphore
    idle,           \* entry: its idle connections
    aged,           \* the connections idle for MAX_IDLE or more
    idle_total,
    pc, key, ent,   \* where each call is, its key, the entry it points to
    held,           \* the connection it works with
    victims,        \* connections it took out of queues and has not counted yet
    excess          \* how many connections its trim is to close

table_vars == <<table, discarded>>
call_vars == <<pc, key, ent>>
vars == <<table, discarded, permits, idle, aged, idle_total, pc, key, ent, held, victims, excess>>

MAX_IDLE_PER_KEY == MAX_CONN
Target == (MAX_TOTAL_IDLE * 9) \div 10

PCs == {"idle", "reclaim", "reclaimed", "measure", "cut", "trimmed", "lookup", "permit", "check",
        "pop", "connect", "using", "release", "requeue", "unpermit", "discard", "emptied"}

\* The calls between the permit and its return.
HasPermit == {"check", "pop", "connect", "using", "release", "requeue", "unpermit"}
Holders(e) == {c \in Callers : pc[c] \in HasPermit /\ ent[c] = e}

Listed == {e \in Entries : \E k \in Keys : table[k] = e}
Queued == UNION {idle[e] : e \in Entries}
Uncounted == UNION {victims[c] : c \in Callers}
Pooled == UNION {idle[e] : e \in Listed}
Open == Queued \cup Uncounted \cup {held[c] : c \in Callers}

\* Every entry is a new one: none has the place of another.
Unused(e) == e \notin Listed /\ ~discarded[e]

Init ==
    /\ table = [k \in Keys |-> NoEntry]
    /\ discarded = [e \in Entries |-> FALSE]
    /\ permits = [e \in Entries |-> MAX_CONN]
    /\ idle = [e \in Entries |-> {}]
    /\ aged = {}
    /\ idle_total = 0
    /\ pc = [c \in Callers |-> "idle"]
    /\ key = [c \in Callers |-> NoKey]
    /\ ent = [c \in Callers |-> NoEntry]
    /\ held = [c \in Callers |-> NoConn]
    /\ victims = [c \in Callers |-> {}]
    /\ excess = [c \in Callers |-> 0]

\* saturating_sub.
Less(n, m) == IF n < m THEN 0 ELSE n - m

Goto(c, where) == pc' = [pc EXCEPT ![c] = where]

-----------------------------------------------------------------------------
(* acquire *)

\* Every tenth call sweeps the pool first; which one it is does not matter here.
Acquire(c, k) ==
    /\ pc[c] = "idle"
    /\ key' = [key EXCEPT ![c] = k]
    /\ Goto(c, "reclaim") \/ Goto(c, "lookup")
    /\ UNCHANGED <<table_vars, permits, idle, aged, idle_total, ent, held, victims, excess>>

\* With the table locked, the entry of the key is found ...
Find(c) ==
    /\ pc[c] = "lookup" /\ table[key[c]] # NoEntry
    /\ ent' = [ent EXCEPT ![c] = table[key[c]]]
    /\ Goto(c, "permit")
    /\ UNCHANGED <<table_vars, permits, idle, aged, idle_total, key, held, victims, excess>>

\* ... or made.
Create(c, e) ==
    /\ pc[c] = "lookup" /\ table[key[c]] = NoEntry /\ Unused(e)
    /\ table' = [table EXCEPT ![key[c]] = e]
    /\ ent' = [ent EXCEPT ![c] = e]
    /\ Goto(c, "permit")
    /\ UNCHANGED <<discarded, permits, idle, aged, idle_total, key, held, victims, excess>>

Permit(c) ==
    /\ pc[c] = "permit" /\ permits[ent[c]] > 0
    /\ permits' = [permits EXCEPT ![ent[c]] = @ - 1]
    /\ Goto(c, "check")
    /\ UNCHANGED <<table_vars, idle, aged, idle_total, key, ent, held, victims, excess>>

\* Mutant: every call makes a connection of its own.
CheckOnly(c) ==
    /\ pc[c] = "check"
    /\ Goto(c, "connect")
    /\ UNCHANGED <<table_vars, permits, idle, aged, idle_total, key, ent, held, victims, excess>>

\* An entry that was discarded meanwhile has no connection to offer.
Check(c) ==
    /\ pc[c] = "check"
    /\ IF discarded[ent[c]] THEN Goto(c, "connect") ELSE Goto(c, "pop")
    /\ UNCHANGED <<table_vars, permits, idle, aged, idle_total, key, ent, held, victims, excess>>

\* Mutant: the connection stays in the queue while it is used.
PopShared(c) ==
    /\ pc[c] = "pop"
    /\ LET e == ent[c]
           fresh == idle[e] \ aged
           old == idle[e] \cap aged
       IN  \/ \E x \in fresh :
                /\ idle' = [idle EXCEPT ![e] = fresh]
                /\ held' = [held EXCEPT ![c] = x]
                /\ idle_total' = Less(idle_total, Cardinality(old))
                /\ aged' = aged \ old
                /\ Goto(c, "using")
           \/ /\ fresh = {}
              /\ idle' = [idle EXCEPT ![e] = {}]
              /\ idle_total' = Less(idle_total, Cardinality(old))
              /\ aged' = aged \ old
              /\ Goto(c, "connect")
              /\ UNCHANGED held
    /\ UNCHANGED <<table_vars, permits, key, ent, victims, excess>>

\* With the queue locked: the oldest are taken out, and closed if too old, until one is
\* fresh or the queue is empty.
Pop(c) ==
    /\ pc[c] = "pop"
    /\ LET e == ent[c]
           fresh == idle[e] \ aged
           old == idle[e] \cap aged
       IN  \/ \E x \in fresh :
                /\ idle' = [idle EXCEPT ![e] = fresh \ {x}]
                /\ held' = [held EXCEPT ![c] = x]
                /\ idle_total' = Less(idle_total, Cardinality(old \cup {x}))
                /\ aged' = aged \ old
                /\ Goto(c, "using")
           \/ /\ fresh = {}
              /\ idle' = [idle EXCEPT ![e] = {}]
              /\ idle_total' = Less(idle_total, Cardinality(old))
              /\ aged' = aged \ old
              /\ Goto(c, "connect")
              /\ UNCHANGED held
    /\ UNCHANGED <<table_vars, permits, key, ent, victims, excess>>

-----------------------------------------------------------------------------
(* The exchange over the connection (dot_query, doh_query) *)

Connect(c, x) ==
    /\ pc[c] = "connect" /\ x \notin Open
    /\ held' = [held EXCEPT ![c] = x]
    /\ Goto(c, "using")
    /\ UNCHANGED <<table_vars, permits, idle, aged, idle_total, key, ent, victims, excess>>

\* No connection comes about: there may be another attempt; the slot goes back after
\* the last one.
ConnectFails(c) ==
    /\ pc[c] = "connect"
    /\ Goto(c, "release")
    /\ UNCHANGED <<table_vars, permits, idle, aged, idle_total, key, ent, held, victims, excess>>

\* An exchange that fails closes its connection; the first one is followed by another
\* over a new connection.
ExchangeFails(c) ==
    /\ pc[c] = "using"
    /\ held' = [held EXCEPT ![c] = NoConn]
    /\ Goto(c, "connect") \/ Goto(c, "release")
    /\ UNCHANGED <<table_vars, permits, idle, aged, idle_total, key, ent, victims, excess>>

ExchangeSucceeds(c) ==
    /\ pc[c] = "using"
    /\ Goto(c, "release")
    /\ UNCHANGED <<table_vars, permits, idle, aged, idle_total, key, ent, held, victims, excess>>

\* Mutant: the slot of a call that is dropped does not come back.
GiveUpWithSlot(c) ==
    /\ pc[c] \in {"permit", "connect", "using"}
    /\ held' = [held EXCEPT ![c] = NoConn]
    /\ key' = [key EXCEPT ![c] = NoKey]
    /\ ent' = [ent EXCEPT ![c] = NoEntry]
    /\ Goto(c, "idle")
    /\ UNCHANGED <<table_vars, permits, idle, aged, idle_total, victims, excess>>

\* The wait for a permit times out, or the future is dropped at an await: the permit, if
\* it had one, goes back and the connection is closed.  Nothing is trimmed.
GiveUp(c) ==
    /\ pc[c] \in {"permit", "connect", "using"}
    /\ permits' = IF pc[c] = "permit" THEN permits
                  ELSE [permits EXCEPT ![ent[c]] = @ + 1]
    /\ held' = [held EXCEPT ![c] = NoConn]
    /\ key' = [key EXCEPT ![c] = NoKey]
    /\ ent' = [ent EXCEPT ![c] = NoEntry]
    /\ Goto(c, "idle")
    /\ UNCHANGED <<table_vars, idle, aged, idle_total, victims, excess>>

-----------------------------------------------------------------------------
(* release *)

\* The flag is read; a degraded connection, like one of a discarded entry, is closed.
Release(c) ==
    /\ pc[c] = "release"
    /\ \/ /\ held[c] # NoConn /\ ~discarded[ent[c]]
          /\ Goto(c, "requeue")
          /\ UNCHANGED held
       \/ /\ held' = [held EXCEPT ![c] = NoConn]
          /\ Goto(c, "unpermit")
    /\ UNCHANGED <<table_vars, permits, idle, aged, idle_total, key, ent, victims, excess>>

\* The oldest members of a queue come first: n of them make way.
Oldest(e, n) ==
    {out \in SUBSET idle[e] :
        /\ Cardinality(out) = n
        /\ out \subseteq aged \/ idle[e] \cap aged \subseteq out}

\* With the queue locked, the connection is queued, in the place of the oldest if there
\* are MAX_IDLE_PER_KEY.
Requeue(c) ==
    /\ pc[c] = "requeue"
    /\ \E out \in Oldest(ent[c], Less(Cardinality(idle[ent[c]]) + 1, MAX_IDLE_PER_KEY)) :
          /\ idle' = [idle EXCEPT ![ent[c]] = (@ \ out) \cup {held[c]}]
          /\ idle_total' = Less(idle_total, Cardinality(out)) + 1
          /\ aged' = aged \ out
    /\ held' = [held EXCEPT ![c] = NoConn]
    /\ Goto(c, "unpermit")
    /\ UNCHANGED <<table_vars, permits, key, ent, victims, excess>>

Unpermit(c) ==
    /\ pc[c] = "unpermit"
    /\ permits' = [permits EXCEPT ![ent[c]] = @ + 1]
    /\ key' = [key EXCEPT ![c] = NoKey]
    /\ ent' = [ent EXCEPT ![c] = NoEntry]
    /\ Goto(c, "measure")
    /\ UNCHANGED <<table_vars, idle, aged, idle_total, held, victims, excess>>

-----------------------------------------------------------------------------
(* reclaim_idle, trim_idle *)

\* With the table locked: whatever is too old leaves the queues.
Reclaim(c) ==
    /\ pc[c] = "reclaim"
    /\ victims' = [victims EXCEPT ![c] = Pooled \cap aged]
    /\ idle' = [e \in Entries |-> IF e \in Listed THEN idle[e] \ aged ELSE idle[e]]
    /\ aged' = aged \ Pooled
    /\ Goto(c, "reclaimed")
    /\ UNCHANGED <<table_vars, permits, idle_total, key, ent, held, excess>>

AfterTrim(c) == IF key[c] = NoKey THEN "idle" ELSE "lookup"

\* The counter is read, with no lock held.
Measure(c) ==
    /\ pc[c] = "measure"
    /\ \/ /\ idle_total <= MAX_TOTAL_IDLE
          /\ Goto(c, AfterTrim(c))
          /\ UNCHANGED excess
       \/ /\ idle_total > MAX_TOTAL_IDLE
          /\ excess' = [excess EXCEPT ![c] = idle_total - Target]
          /\ Goto(c, "cut")
    /\ UNCHANGED <<table_vars, permits, idle, aged, idle_total, key, ent, held, victims>>

\* What n rounds over the listed keys, one connection of each at a time, may take:
\* the oldest of each queue, and of no queue two more than of one that has any left.
Cuts(n) ==
    {out \in SUBSET Pooled :
        /\ Cardinality(out) = Min({n, Cardinality(Pooled)})
        /\ \A e \in Listed :
              /\ out \cap idle[e] \in Oldest(e, Cardinality(out \cap idle[e]))
              /\ \A f \in Listed :
                    ~(idle[e] \subseteq out) =>
                        Cardinality(out \cap idle[f]) <= Cardinality(out \cap idle[e]) + 1}

\* With the table locked.  The others push and pop at the queues meanwhile; it comes to
\* the same as if they did so before or after.
Cut(c) ==
    /\ pc[c] = "cut"
    /\ \E out \in Cuts(excess[c]) :
          /\ victims' = [victims EXCEPT ![c] = out]
          /\ idle' = [e \in Entries |-> idle[e] \ out]
          /\ aged' = aged \ out
    /\ excess' = [excess EXCEPT ![c] = 0]
    /\ Goto(c, "trimmed")
    /\ UNCHANGED <<table_vars, permits, idle_total, key, ent, held>>

AfterUncount(c) ==
    CASE pc[c] = "reclaimed" -> "measure"
      [] pc[c] = "trimmed" -> AfterTrim(c)
      [] pc[c] = "emptied" -> "idle"

\* Mutant: what was reclaimed or discarded stays counted.
UncountTrimmed(c) ==
    /\ pc[c] \in {"reclaimed", "trimmed", "emptied"}
    /\ idle_total' = IF pc[c] = "trimmed" THEN Less(idle_total, Cardinality(victims[c]))
                     ELSE idle_total
    /\ victims' = [victims EXCEPT ![c] = {}]
    /\ Goto(c, AfterUncount(c))
    /\ UNCHANGED <<table_vars, permits, idle, aged, key, ent, held, excess>>

\* The locks are given back: the counter is corrected and the connections are closed.
Uncount(c) ==
    /\ pc[c] \in {"reclaimed", "trimmed", "emptied"}
    /\ idle_total' = Less(idle_total, Cardinality(victims[c]))
    /\ victims' = [victims EXCEPT ![c] = {}]
    /\ Goto(c, AfterUncount(c))
    /\ UNCHANGED <<table_vars, permits, idle, aged, key, ent, held, excess>>

-----------------------------------------------------------------------------
(* discard *)

\* With the table locked, the entry is taken out and marked, ...
\* Bound: as long as every key can have another entry.
Discard(c, k) ==
    /\ pc[c] = "idle" /\ table[k] # NoEntry
    /\ Cardinality({e \in Entries : ~discarded[e]}) > Cardinality(Keys)
    /\ table' = [table EXCEPT ![k] = NoEntry]
    /\ discarded' = [discarded EXCEPT ![table[k]] = TRUE]
    /\ ent' = [ent EXCEPT ![c] = table[k]]
    /\ Goto(c, "discard")
    /\ UNCHANGED <<permits, idle, aged, idle_total, key, held, victims, excess>>

\* ... then, with the queue locked, it is emptied.
Empty(c) ==
    /\ pc[c] = "discard"
    /\ victims' = [victims EXCEPT ![c] = idle[ent[c]]]
    /\ idle' = [idle EXCEPT ![ent[c]] = {}]
    /\ aged' = aged \ idle[ent[c]]
    /\ ent' = [ent EXCEPT ![c] = NoEntry]
    /\ Goto(c, "emptied")
    /\ UNCHANGED <<table_vars, permits, idle_total, key, held, excess>>

\* MAX_IDLE passes for the oldest connection of a queue that had not reached it; the
\* queue of an entry that is gone is of no interest.
Age(x) ==
    /\ x \in Pooled \ aged
    /\ aged' = aged \cup {x}
    /\ UNCHANGED <<table_vars, permits, idle, idle_total, call_vars, held, victims, excess>>

-----------------------------------------------------------------------------
\* What a call does by itself once it is under way; connecting and exchanging are bounded
\* by the deadline of the query.
Proceed(c) ==
    \/ Find(c) \/ Permit(c) \/ Check(c) \/ Pop(c)
    \/ ConnectFails(c) \/ ExchangeFails(c) \/ ExchangeSucceeds(c)
    \/ Release(c) \/ Requeue(c) \/ Unpermit(c)
    \/ Reclaim(c) \/ Measure(c) \/ Cut(c) \/ Uncount(c) \/ Empty(c)
    \/ \E e \in Entries : Create(c, e)

Next ==
    \/ \E c \in Callers :
          \/ \E k \in Keys : Acquire(c, k) \/ Discard(c, k)
          \/ \E x \in Conns : Connect(c, x)
          \/ Proceed(c)
          \/ GiveUp(c)
    \/ \E x \in Conns : Age(x)

Spec == Init /\ [][Next]_vars

-----------------------------------------------------------------------------
(* Properties *)

\* Every variable stays in the set of values it is meant for.
TypeOK ==
    /\ table \in [Keys -> Entries \cup {NoEntry}]
    /\ discarded \in [Entries -> BOOLEAN]
    /\ permits \in [Entries -> 0..MAX_CONN]
    /\ idle \in [Entries -> SUBSET Conns]
    /\ aged \in SUBSET Queued
    /\ idle_total \in Nat
    /\ pc \in [Callers -> PCs]
    /\ key \in [Callers -> Keys \cup {NoKey}]
    /\ ent \in [Callers -> Entries \cup {NoEntry}]
    /\ held \in [Callers -> Conns \cup {NoConn}]
    /\ victims \in [Callers -> SUBSET Conns]
    /\ excess \in [Callers -> Nat]

\* idle_total counts the queued connections, those of discarded entries too, and the ones
\* taken out by a sweep that has not corrected it yet: whatever the order in which the
\* queues and the counter are changed, it never saturates.
IdleAccounted == idle_total = Cardinality(Queued \cup Uncounted)

\* The pool holds no more idle connections than MAX_TOTAL_IDLE and one for every call that
\* is still to trim, although trims work with a count that is out of date.
IdleBounded ==
    Cardinality(Pooled) <=
        MAX_TOTAL_IDLE + Cardinality({c \in Callers : pc[c] \in {"unpermit", "measure", "cut"}})

\* "At most MAX_CONN connections of a key", in use or idle: the permits bound the former
\* only, and the queue has no other bound than that each call looks into it before it
\* connects; so no connection ever makes way for another in release.
OpenBounded ==
    \A e \in Listed :
        Cardinality(idle[e]) + Cardinality({c \in Holders(e) : pc[c] \notin {"check", "pop", "unpermit"}})
            <= MAX_CONN

\* Both limits hold together: the pool neither hoards idle connections over its total nor
\* opens more to one upstream than the limit of a key.
ConnectionsBounded == IdleBounded /\ OpenBounded

\* A slot of an entry is free or held by one call, whatever the order of time-outs,
\* cancellations, failures and discards: none is lost or given back twice.
SlotsAccounted == \A e \in Entries : permits[e] + Cardinality(Holders(e)) = MAX_CONN

-----------------------------------------------------------------------------
(* What the pool promises: ConnUse *)

At == [c \in Callers |-> IF held[c] = NoConn THEN NoEntry ELSE ent[c]]

Use == INSTANCE ConnUse WITH at <- At

\* The pool implements ConnUse: whatever the sweeps, time-outs and discards do meanwhile, a
\* connection is used by one caller at a time, for the entry it was opened for, never
\* after it was closed, and by no more than MAX_CONN callers of an entry.
ImplementsConnUse == Use!Spec
=============================================================================
