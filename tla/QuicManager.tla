---------------------------- MODULE QuicManager ----------------------------
(***************************************************************************)
(* The manager of the QUIC connection to one DoH3 upstream                 *)
(* (ebpdns-upstream, quic.rs: QuicManager).  All the queries share one     *)
(* connection; whoever finds it lost makes another, one at a time, behind  *)
(* connect_lock; a failure starts a time in which queries fail at once.    *)
(*                                                                         *)
(* The stored connection, the handles of its critical streams, its         *)
(* endpoint and the time of the failure have a lock each, so that          *)
(* mark_failed and the end of a reconnect change them one after the other. *)
(* An exchange runs in a task of its own, which the query registers, waits *)
(* for with a time limit, and aborts when it goes away for any reason.     *)
(*                                                                         *)
(* A DoQ upstream differs in that there are no critical streams.  close()  *)
(* has no caller in the program and is left out, as are the texts of the   *)
(* errors (last_err).                                                      *)
(***************************************************************************)
EXTENDS Naturals, FiniteSets, Sequences, SequencesExt

CONSTANTS
    Queries,        \* the queries in progress
    Conns,          \* the connections that are made, one after the other
    NoQuery, NoConn

ASSUME NonesAssumption == NoQuery \notin Queries /\ NoConn \notin Conns

VARIABLES
    conn,           \* the stored connection
    endpoint,       \* the connection whose endpoint is stored
    h3_uni,         \* the connection whose critical streams are held
    backoff,        \* failed_since: a failure is remembered and not FAIL_BACKOFF old
    lost,           \* the connections closed by the peer or by their idle time-out
    holder, waiting,\* connect_lock and its queue
    pc, on,         \* where each query is, and the connection it works with
    tasks,          \* the queries whose exchange has a task that runs
    inflight,       \* the queries whose task is registered
    robbed          \* history: connections that lost their critical streams to a failure
                    \* that was not theirs

lock_vars == <<holder, waiting>>
exchange_vars == <<on, tasks, inflight>>
vars == <<conn, endpoint, h3_uni, backoff, lost, holder, waiting, pc, on, tasks, inflight, robbed>>

PCs == {"idle", "exchange", "check", "waiting", "connecting", "setup", "publish",
        "drop", "note"}

Init ==
    /\ conn = NoConn /\ endpoint = NoConn /\ h3_uni = NoConn
    /\ backoff = FALSE
    /\ lost = {}
    /\ holder = NoQuery /\ waiting = <<>>
    /\ pc = [q \in Queries |-> "idle"]
    /\ on = [q \in Queries |-> NoConn]
    /\ tasks = {} /\ inflight = {}
    /\ robbed = {}

Goto(q, where) == pc' = [pc EXCEPT ![q] = where]

\* ready_conn: there is a connection and it has no close_reason.
Ready == conn # NoConn /\ conn \notin lost

\* exchange_with_timeout: the task is spawned and registered.
Exchange(q, c) ==
    /\ on' = [on EXCEPT ![q] = c]
    /\ tasks' = tasks \cup {q}
    /\ inflight' = inflight \cup {q}
    /\ Goto(q, "exchange")

\* InflightGuard: with the exchange goes its task, if still running, and its registration.
Unregister(q) ==
    /\ tasks' = tasks \ {q}
    /\ inflight' = inflight \ {q}

Unlock(q) == holder' = IF holder = q THEN NoQuery ELSE holder

LeaveQueue(q) ==
    \/ /\ pc[q] = "waiting"
       /\ \E i \in DOMAIN waiting : waiting[i] = q /\ waiting' = RemoveAt(waiting, i)
    \/ pc[q] # "waiting" /\ UNCHANGED waiting

\* The query returns, or goes on if the exchange was the first it tried.
Return(q) ==
    /\ Goto(q, "idle")
    /\ Unlock(q)
    /\ on' = [on EXCEPT ![q] = NoConn]

-----------------------------------------------------------------------------
(* query *)

\* A connection that is ready is used without the lock.
Query(q) ==
    /\ pc[q] = "idle"
    /\ \/ /\ Ready
          /\ Exchange(q, conn)
       \/ /\ ~Ready
          /\ Goto(q, "check")
          /\ UNCHANGED exchange_vars
    /\ UNCHANGED <<conn, endpoint, h3_uni, backoff, lost, lock_vars, robbed>>

FailFast(q) ==
    /\ pc[q] = "check" /\ backoff
    /\ Return(q)
    /\ UNCHANGED <<conn, endpoint, h3_uni, backoff, lost, waiting, tasks, inflight, robbed>>

Wait(q) ==
    /\ pc[q] = "check" /\ ~backoff
    /\ waiting' = Append(waiting, q)
    /\ Goto(q, "waiting")
    /\ UNCHANGED <<conn, endpoint, h3_uni, backoff, lost, holder, exchange_vars, robbed>>

TakesLock(q) ==
    /\ pc[q] = "waiting" /\ holder = NoQuery
    /\ waiting # <<>> /\ Head(waiting) = q
    /\ holder' = q
    /\ waiting' = Tail(waiting)

\* Mutant: a query that got the lock does not look whether another has connected.
Reconnect(q) ==
    /\ TakesLock(q)
    /\ backoff' = FALSE
    /\ Goto(q, "connecting")
    /\ UNCHANGED <<conn, endpoint, h3_uni, lost, exchange_vars, robbed>>

\* The lock is granted in the order of the requests.  Somebody else may have connected
\* meanwhile; if not, the failure is forgotten, however fresh, and a handshake begins.
Locked(q) ==
    /\ TakesLock(q)
    /\ \/ /\ Ready
          /\ Exchange(q, conn)
          /\ UNCHANGED backoff
       \/ /\ ~Ready
          /\ backoff' = FALSE
          /\ Goto(q, "connecting")
          /\ UNCHANGED exchange_vars
    /\ UNCHANGED <<conn, endpoint, h3_uni, lost, robbed>>

-----------------------------------------------------------------------------
(* do_connect *)

Free(c) == c \notin {conn, endpoint, h3_uni} /\ \A q \in Queries : on[q] # c

\* The handshake makes a new connection; what was known of its name goes with the old one.
Handshake(q) ==
    /\ pc[q] = "connecting" /\ \E c \in Conns : Free(c)
    /\ LET c == CHOOSE c \in Conns : Free(c)
       IN  /\ on' = [on EXCEPT ![q] = c]
           /\ lost' = lost \ {c}
           /\ robbed' = robbed \ {c}
    /\ Goto(q, "setup")
    /\ UNCHANGED <<conn, endpoint, h3_uni, backoff, lock_vars, tasks, inflight>>

\* The address, the handshake or the critical streams are not to be had in time.
ConnectFails(q) ==
    /\ pc[q] \in {"connecting", "setup"}
    /\ Goto(q, "drop")
    /\ UNCHANGED <<conn, endpoint, h3_uni, backoff, lost, lock_vars, exchange_vars, robbed>>

\* The critical streams are open: they and the endpoint are stored first, ...
SetUp(q) ==
    /\ pc[q] = "setup"
    /\ h3_uni' = on[q]
    /\ endpoint' = on[q]
    /\ Goto(q, "publish")
    /\ UNCHANGED <<conn, backoff, lost, lock_vars, exchange_vars, robbed>>

\* ... the connection after them; the query's own exchange follows.
Publish(q) ==
    /\ pc[q] = "publish"
    /\ backoff' = FALSE
    /\ conn' = on[q]
    /\ Exchange(q, on[q])
    /\ UNCHANGED <<endpoint, h3_uni, lost, lock_vars, robbed>>

-----------------------------------------------------------------------------
(* The exchange and its end *)

\* The task ends with an answer.
Answered(q) ==
    /\ pc[q] = "exchange" /\ on[q] \notin lost
    /\ Unregister(q)
    /\ Return(q)
    /\ UNCHANGED <<conn, endpoint, h3_uni, backoff, lost, waiting, robbed>>

\* Mutant: the wait for an exchange has no time limit.
NotAnsweredEver(q) ==
    /\ pc[q] = "exchange" /\ on[q] \in lost
    /\ Unregister(q)
    /\ Goto(q, "drop")
    /\ UNCHANGED <<conn, endpoint, h3_uni, backoff, lost, lock_vars, on, robbed>>

\* It ends with an error, or the time is over while it runs.
NotAnswered(q) ==
    /\ pc[q] = "exchange"
    /\ Unregister(q)
    /\ Goto(q, "drop")
    /\ UNCHANGED <<conn, endpoint, h3_uni, backoff, lost, lock_vars, on, robbed>>

\* Mutant: mark_failed leaves the streams where they are.
DropConn(q) ==
    /\ pc[q] = "drop"
    /\ conn' = NoConn
    /\ Goto(q, "note")
    /\ UNCHANGED <<endpoint, h3_uni, backoff, lost, lock_vars, exchange_vars, robbed>>

\* mark_failed drops the connection that is stored by now, and the streams that are held
\* by now.  These are two locks: what another query does between them has the same effect
\* before them.
Drop(q) ==
    /\ pc[q] = "drop"
    /\ conn' = NoConn
    /\ h3_uni' = NoConn
    /\ robbed' = IF h3_uni \in {NoConn, on[q]} THEN robbed ELSE robbed \cup {h3_uni}
    /\ Goto(q, "note")
    /\ UNCHANGED <<endpoint, backoff, lost, lock_vars, exchange_vars>>

\* A query whose first exchange failed goes on, to find itself in the time of failing
\* fast that it has just begun, unless that is over or was ended by another.
Note(q) ==
    /\ pc[q] = "note"
    /\ backoff' = TRUE
    /\ \/ /\ holder = q
          /\ Return(q)
       \/ /\ holder # q
          /\ Goto(q, "check")
          /\ on' = [on EXCEPT ![q] = NoConn]
          /\ UNCHANGED holder
    /\ UNCHANGED <<conn, endpoint, h3_uni, lost, waiting, tasks, inflight, robbed>>

-----------------------------------------------------------------------------
(* What happens to it *)

Awaiting == {"exchange", "waiting", "connecting", "setup"}

\* Mutant: only the handle of the task is dropped, which does not end the task.
CancelOnly(q) ==
    /\ pc[q] \in Awaiting
    /\ inflight' = inflight \ {q}
    /\ LeaveQueue(q)
    /\ Return(q)
    /\ UNCHANGED <<conn, endpoint, h3_uni, backoff, lost, tasks, robbed>>

\* The future is dropped at an await, as when another upstream answers first.
Cancel(q) ==
    /\ pc[q] \in Awaiting
    /\ Unregister(q)
    /\ LeaveQueue(q)
    /\ Return(q)
    /\ UNCHANGED <<conn, endpoint, h3_uni, backoff, lost, robbed>>

\* The peer closes a connection, or its idle time-out does.
Lose(c) ==
    /\ c = conn \/ \E q \in tasks : on[q] = c
    /\ lost' = lost \cup {c}
    /\ UNCHANGED <<conn, endpoint, h3_uni, backoff, lock_vars, pc, exchange_vars, robbed>>

\* FAIL_BACKOFF passes.
Elapse ==
    /\ backoff
    /\ backoff' = FALSE
    /\ UNCHANGED <<conn, endpoint, h3_uni, lost, lock_vars, pc, exchange_vars, robbed>>

-----------------------------------------------------------------------------
\* What a query does once it is under way; its awaits have time limits.
Proceed(q) ==
    \/ FailFast(q) \/ Wait(q) \/ Locked(q)
    \/ ConnectFails(q) \/ SetUp(q) \/ Publish(q)
    \/ NotAnswered(q)
    \/ Drop(q) \/ Note(q)

Next ==
    \/ \E q \in Queries :
          \/ Query(q) \/ Proceed(q) \/ Cancel(q)
          \/ Handshake(q) \/ Answered(q)
    \/ \E c \in Conns : Lose(c)
    \/ Elapse

\* The tasks are scheduled and the timers fire; the peer and the network owe nothing.
Fairness == \A q \in Queries : WF_vars(Proceed(q))

Spec == Init /\ [][Next]_vars /\ Fairness

-----------------------------------------------------------------------------
(* Properties *)

\* Every variable stays in the set of values it is meant for.
TypeOK ==
    /\ {conn, endpoint, h3_uni} \subseteq Conns \cup {NoConn}
    /\ backoff \in BOOLEAN
    /\ lost \in SUBSET Conns /\ robbed \in SUBSET Conns
    /\ holder \in Queries \cup {NoQuery}
    /\ waiting \in Seq(Queries) /\ IsInjective(waiting)
    /\ pc \in [Queries -> PCs]
    /\ on \in [Queries -> Conns \cup {NoConn}]
    /\ tasks \in SUBSET Queries /\ inflight \in SUBSET Queries

\* "The critical streams must not be closed before the connection ends": a connection that
\* is offered to queries has its streams held, but for one case: the late failure of an
\* exchange over an older connection has dropped them, since mark_failed does not look
\* whose they are.
CriticalStreamsHeld == Ready => h3_uni = conn \/ conn \in robbed

\* No critical streams keep a connection alive that no query can be given any more: they
\* are those of the stored connection or of the one about to be stored.
NoZombie ==
    h3_uni \notin {NoConn, conn} => \E q \in Queries : pc[q] = "publish" /\ on[q] = h3_uni

\* The critical streams live exactly as long as the connection they belong to.
StreamsFollowConnection == CriticalStreamsHeld /\ NoZombie

\* "An endpoint must live as long as its connection": a reconnect never replaces the
\* endpoint of a connection that is still offered to queries, however many queries find
\* the connection lost at the same time.
EndpointAlive == Ready => endpoint = conn

\* No exchange goes on in the background: a task that runs is one that its query waits
\* for and close could abort, whatever time-outs and cancellations there were.
NoTaskLeft == \A q \in tasks : pc[q] = "exchange" /\ q \in inflight

\* Every query returns, although an exchange, a handshake and every query ahead in the
\* queue for the lock may take all the time they are given.
QueryReturns == \A q \in Queries : (pc[q] # "idle") ~> (pc[q] = "idle")
=============================================================================
