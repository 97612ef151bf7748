---------------------------- MODULE SingleFlight ----------------------------
(***************************************************************************)
(* Merging of concurrent upstream fetches (ebpdns-resolver,                *)
(* singleflight.rs).  Calls for the same key share an entry of a table:    *)
(* the entry's OnceCell lets one call run the fetch while the others wait  *)
(* for its result, and a reference count lets the last call out remove     *)
(* the entry from the table.                                               *)
(*                                                                         *)
(* The entry is looked up under the lock of the table, but counted after   *)
(* the lock is released; on the way out the count is dropped before the    *)
(* lock is taken.  A call that is cancelled, at an await, still runs its   *)
(* guard.  An action is one of those indivisible steps of one call.        *)
(***************************************************************************)
EXTENDS Naturals, FiniteSets

CONSTANTS
    Callers,    \* the tasks that call run_tagged
    Keys,       \* the keys they ask for
    Entries,    \* the places in memory an entry can have
    NoCaller, NoEntry

ASSUME CallersAssumption == IsFiniteSet(Callers) /\ NoCaller \notin Callers
ASSUME EntriesAssumption == NoEntry \notin Entries

VARIABLES
    table,      \* the entry the table holds for each key
    refs,       \* reference count of each entry
    cell,       \* whether the OnceCell of each entry has its value
    permit,     \* the call that is running the fetch of each entry
    pc,         \* where each call is
    key,        \* the key it asked for
    ent,        \* the entry it holds a pointer to
    cancelled   \* history: some call was cancelled

vars == <<table, refs, cell, permit, pc, key, ent, cancelled>>

PCs == {"idle", "joining", "waiting", "running", "leaving", "removing"}

\* The calls that count as participants of entry e: between the increment and the
\* decrement of its reference count.
Counted == {"waiting", "running", "leaving"}
Holders(e) == {c \in Callers : pc[c] \in Counted /\ ent[c] = e}

\* Memory that no live pointer refers to may be used for a new entry.
Free(e) == (\A k \in Keys : table[k] # e) /\ (\A c \in Callers : ent[c] # e)

Init ==
    /\ table = [k \in Keys |-> NoEntry]
    /\ refs = [e \in Entries |-> 0]
    /\ cell = [e \in Entries |-> "empty"]
    /\ permit = [e \in Entries |-> NoCaller]
    /\ pc = [c \in Callers |-> "idle"]
    /\ key \in [Callers -> Keys]
    /\ ent = [c \in Callers |-> NoEntry]
    /\ cancelled = FALSE

-----------------------------------------------------------------------------
\* Under the lock of the table, the entry of the key is found ...
Find(c, k) ==
    /\ pc[c] = "idle" /\ table[k] # NoEntry
    /\ ent' = [ent EXCEPT ![c] = table[k]]
    /\ key' = [key EXCEPT ![c] = k]
    /\ pc' = [pc EXCEPT ![c] = "joining"]
    /\ UNCHANGED <<table, refs, cell, permit, cancelled>>

\* ... or made.
Create(c, k, e) ==
    /\ pc[c] = "idle" /\ table[k] = NoEntry
    /\ Free(e)
    /\ table' = [table EXCEPT ![k] = e]
    /\ refs' = [refs EXCEPT ![e] = 0]
    /\ cell' = [cell EXCEPT ![e] = "empty"]
    /\ permit' = [permit EXCEPT ![e] = NoCaller]
    /\ ent' = [ent EXCEPT ![c] = e]
    /\ key' = [key EXCEPT ![c] = k]
    /\ pc' = [pc EXCEPT ![c] = "joining"]
    /\ UNCHANGED cancelled

\* The lock is released by now: the call is counted.
Join(c) ==
    /\ pc[c] = "joining"
    /\ refs' = [refs EXCEPT ![ent[c]] = @ + 1]
    /\ pc' = [pc EXCEPT ![c] = "waiting"]
    /\ UNCHANGED <<table, cell, permit, key, ent, cancelled>>

\* get_or_init: the call gets the permit of the cell and runs the fetch, ...
Start(c) ==
    /\ pc[c] = "waiting" /\ cell[ent[c]] = "empty" /\ permit[ent[c]] = NoCaller
    /\ permit' = [permit EXCEPT ![ent[c]] = c]
    /\ pc' = [pc EXCEPT ![c] = "running"]
    /\ UNCHANGED <<table, refs, cell, key, ent, cancelled>>

\* ... which completes, ...
Finish(c) ==
    /\ pc[c] = "running"
    /\ cell' = [cell EXCEPT ![ent[c]] = "done"]
    /\ permit' = [permit EXCEPT ![ent[c]] = NoCaller]
    /\ pc' = [pc EXCEPT ![c] = "leaving"]
    /\ UNCHANGED <<table, refs, key, ent, cancelled>>

\* ... or it takes the value another call has put there.
Follow(c) ==
    /\ pc[c] = "waiting" /\ cell[ent[c]] = "done"
    /\ pc' = [pc EXCEPT ![c] = "leaving"]
    /\ UNCHANGED <<table, refs, cell, permit, key, ent, cancelled>>

\* Mutant: the future is dropped without its guard.
CancelWithoutGuard(c) ==
    /\ pc[c] \in {"waiting", "running"}
    /\ permit' = [e \in Entries |-> IF permit[e] = c THEN NoCaller ELSE permit[e]]
    /\ pc' = [pc EXCEPT ![c] = "idle"]
    /\ ent' = [ent EXCEPT ![c] = NoEntry]
    /\ cancelled' = TRUE
    /\ UNCHANGED <<table, refs, cell, key>>

\* Mutant: a leader that is cancelled keeps the permit.
CancelKeepsPermit(c) ==
    /\ pc[c] \in {"waiting", "running"}
    /\ pc' = [pc EXCEPT ![c] = "leaving"]
    /\ cancelled' = TRUE
    /\ UNCHANGED <<table, refs, cell, permit, key, ent>>

\* The future is dropped at its await, by a timeout or an abort: an unfinished fetch is
\* abandoned and its permit released.
Cancel(c) ==
    /\ pc[c] \in {"waiting", "running"}
    /\ permit' = [e \in Entries |-> IF permit[e] = c THEN NoCaller ELSE permit[e]]
    /\ pc' = [pc EXCEPT ![c] = "leaving"]
    /\ cancelled' = TRUE
    /\ UNCHANGED <<table, refs, cell, key, ent>>

\* Mutant: the last one out does not come back for the table.
LeaveForGood(c) ==
    /\ pc[c] = "leaving"
    /\ refs' = [refs EXCEPT ![ent[c]] = @ - 1]
    /\ pc' = [pc EXCEPT ![c] = "idle"]
    /\ ent' = [ent EXCEPT ![c] = NoEntry]
    /\ UNCHANGED <<table, cell, permit, key, cancelled>>

\* RefGuard::drop: one participant less ...
Leave(c) ==
    /\ pc[c] = "leaving"
    /\ refs' = [refs EXCEPT ![ent[c]] = @ - 1]
    /\ \/ /\ refs[ent[c]] = 1
          /\ pc' = [pc EXCEPT ![c] = "removing"]
          /\ UNCHANGED ent
       \/ /\ refs[ent[c]] # 1
          /\ pc' = [pc EXCEPT ![c] = "idle"]
          /\ ent' = [ent EXCEPT ![c] = NoEntry]
    /\ UNCHANGED <<table, cell, permit, key, cancelled>>

\* Mutant: whatever the table holds for the key is removed.
RemoveAnyGeneration(c) ==
    /\ pc[c] = "removing"
    /\ table' = [table EXCEPT ![key[c]] = NoEntry]
    /\ pc' = [pc EXCEPT ![c] = "idle"]
    /\ ent' = [ent EXCEPT ![c] = NoEntry]
    /\ UNCHANGED <<refs, cell, permit, key, cancelled>>

\* ... and the last one takes the lock again and removes the entry, if it is still its own.
RemoveEntry(c) ==
    /\ pc[c] = "removing"
    /\ table' = [table EXCEPT ![key[c]] = IF @ = ent[c] THEN NoEntry ELSE @]
    /\ pc' = [pc EXCEPT ![c] = "idle"]
    /\ ent' = [ent EXCEPT ![c] = NoEntry]
    /\ UNCHANGED <<refs, cell, permit, key, cancelled>>

Proceed(c) ==
    \/ Join(c) \/ Start(c) \/ Finish(c) \/ Follow(c) \/ Leave(c) \/ RemoveEntry(c)

Next ==
    \E c \in Callers :
        \/ \E k \in Keys : Find(c, k) \/ \E e \in Entries : Create(c, k, e)
        \/ Proceed(c)
        \/ Cancel(c)

Spec == Init /\ [][Next]_vars

\* Every call is polled again while it can go on; the fetch ends, by its own timeouts;
\* the permit of the cell is handed out first come first served.
FairSpec == Spec /\ \A c \in Callers : WF_vars(Proceed(c)) /\ SF_vars(Start(c))

-----------------------------------------------------------------------------
(* Properties *)

\* Every variable stays in the set of values it is meant for.
TypeOK ==
    /\ table \in [Keys -> Entries \cup {NoEntry}]
    /\ refs \in [Entries -> Nat]
    /\ cell \in [Entries -> {"empty", "done"}]
    /\ permit \in [Entries -> Callers \cup {NoCaller}]
    /\ pc \in [Callers -> PCs]
    /\ key \in [Callers -> Keys]
    /\ ent \in [Callers -> Entries \cup {NoEntry}]
    /\ cancelled \in BOOLEAN

\* The count of an entry is the number of its participants whatever the order of joins,
\* cancellations and departures: it never reaches zero early nor goes below it.
RefsExact ==
    \A e \in Entries : ~Free(e) => refs[e] = Cardinality(Holders(e))

\* "The table does not grow without bound": an entry in the table always has a call that
\* will take it out, also when a cancellation races with a lookup.
NoOrphan ==
    \A k \in Keys : table[k] # NoEntry =>
        \E c \in Callers : pc[c] # "idle" /\ ent[c] = table[k] /\ key[c] = k

\* At most one call runs the fetch of an entry, and none once its value is there.
OneRunPerEntry ==
    \A c, d \in Callers :
        (pc[c] = "running" /\ pc[d] = "running" /\ ent[c] = ent[d]) =>
            c = d /\ cell[ent[c]] = "empty"

\* "For one key the fetch runs once at a time": two calls never run it for one key at the
\* same time, although entries are removed while others look them up.
SingleRunner ==
    \A c, d \in Callers :
        (pc[c] = "running" /\ pc[d] = "running" /\ key[c] = key[d]) => c = d

\* It holds as long as no call has been cancelled.
SingleRunnerUncancelled == ~cancelled => SingleRunner

\* A call always returns: a follower takes over when its leader is cancelled.
EveryCallReturns == \A c \in Callers : pc[c] # "idle" ~> pc[c] = "idle"
=============================================================================
