------------------------- MODULE QuicManager_proofs -------------------------
(***************************************************************************)
(* Proofs of the safety properties of QuicManager, for all sets of queries *)
(* and connections.                                                        *)
(*                                                                         *)
(* The inductive invariant IInv says, besides, that only the query that    *)
(* has the lock connects and that no connection is offered meanwhile       *)
(* (OneConnects), that the connection it makes is nobody else's (Fresh),   *)
(* and that its endpoint and its streams are stored before it is, unless   *)
(* a failure elsewhere takes the streams away (Stored).                    *)
(***************************************************************************)
EXTENDS QuicManager, TLAPS

Connecting == {"connecting", "setup", "publish"}

OneConnects == \A q \in Queries : pc[q] \in Connecting => holder = q /\ ~Ready

Fresh ==
    \A q \in Queries : pc[q] \in {"setup", "publish"} =>
        /\ on[q] \in Conns /\ on[q] # conn
        /\ \A r \in Queries : r # q => on[r] # on[q]

Stored ==
    \A q \in Queries : pc[q] = "publish" =>
        /\ endpoint = on[q]
        /\ h3_uni = on[q] \/ (h3_uni = NoConn /\ on[q] \in robbed)

Queue == \A i \in DOMAIN waiting : pc[waiting[i]] = "waiting"

IInv ==
    /\ TypeOK /\ Queue /\ OneConnects /\ Fresh /\ Stored
    /\ NoTaskLeft /\ EndpointAlive /\ CriticalStreamsHeld /\ NoZombie

-----------------------------------------------------------------------------
(* The queue for the lock *)

LEMMA RemoveAtSeq ==
    ASSUME NEW S, NEW s \in Seq(S), IsInjective(s), NEW n \in DOMAIN s
    PROVE  /\ RemoveAt(s, n) \in Seq(S) /\ IsInjective(RemoveAt(s, n))
           /\ \A j \in DOMAIN RemoveAt(s, n) :
                 /\ RemoveAt(s, n)[j] # s[n]
                 /\ \E i \in DOMAIN s : RemoveAt(s, n)[j] = s[i]
<1> DEFINE front == SubSeq(s, 1, n - 1)
           back == SubSeq(s, n + 1, Len(s))
           t == front \o back
<1>1. Len(s) \in Nat /\ DOMAIN s = 1..Len(s) /\ n \in 1..Len(s)
  OBVIOUS
<1>2. /\ front \in Seq(S) /\ Len(front) = n - 1
      /\ \A j \in 1..(n - 1) : front[j] = s[j]
  BY <1>1
<1>3. /\ back \in Seq(S) /\ Len(back) = Len(s) - n
      /\ \A j \in 1..(Len(s) - n) : back[j] = s[j + n]
  BY <1>1
<1>4. t \in Seq(S) /\ Len(t) = Len(s) - 1 /\ DOMAIN t = 1..(Len(s) - 1)
  BY <1>1, <1>2, <1>3
<1> HIDE DEF front, back
<1>5. ASSUME NEW j \in 1..(Len(s) - 1) PROVE t[j] = s[IF j < n THEN j ELSE j + 1]
  <2>1. CASE j < n
    BY <1>1, <1>2, <1>3, <2>1
  <2>2. CASE ~(j < n)
    <3> DEFINE k == j - (n - 1)
    <3>1. k \in 1..(Len(s) - n) /\ k + n = j + 1
      BY <1>1, <2>2
    <3>2. t[j] = back[k]
      BY <1>1, <1>2, <1>3, <2>2
    <3>3. back[k] = s[k + n]
      BY <1>3, <3>1
    <3> QED
      BY <2>2, <3>1, <3>2, <3>3
  <2> QED
    BY <2>1, <2>2
<1> HIDE DEF t
<1>6. \A i, j \in DOMAIN s : s[i] = s[j] => i = j
  BY DEF IsInjective
<1>7. IsInjective(t)
  <2> SUFFICES ASSUME NEW i \in DOMAIN t, NEW j \in DOMAIN t, t[i] = t[j] PROVE i = j
    BY Zenon DEF IsInjective
  <2> DEFINE At(k) == IF k < n THEN k ELSE k + 1
  <2>1. At(i) \in DOMAIN s /\ At(j) \in DOMAIN s
    BY <1>1, <1>4
  <2>2. s[At(i)] = s[At(j)]
    BY <1>4, <1>5
  <2>3. At(i) = At(j)
    BY <1>6, <2>1, <2>2
  <2> QED
    BY <1>1, <1>4, <2>3
<1>8. \A j \in DOMAIN t : t[j] # s[n] /\ \E i \in DOMAIN s : t[j] = s[i]
  <2> SUFFICES ASSUME NEW j \in DOMAIN t PROVE t[j] # s[n] /\ \E i \in DOMAIN s : t[j] = s[i]
    OBVIOUS
  <2> DEFINE i == IF j < n THEN j ELSE j + 1
  <2>1. i \in DOMAIN s /\ i # n /\ t[j] = s[i]
    BY <1>1, <1>4, <1>5
  <2> QED
    BY <1>6, <2>1
<1>9. RemoveAt(s, n) = t
  BY DEF RemoveAt, t, front, back
<1> QED
  BY <1>4, <1>7, <1>8, <1>9

LEMMA TailSeq ==
    ASSUME NEW S, NEW s \in Seq(S), IsInjective(s), s # <<>>
    PROVE  /\ Tail(s) \in Seq(S) /\ IsInjective(Tail(s))
           /\ \A j \in DOMAIN Tail(s) : Tail(s)[j] # Head(s) /\ \E i \in DOMAIN s : Tail(s)[j] = s[i]
<1>1. Tail(s) \in Seq(S) /\ Len(Tail(s)) = Len(s) - 1 /\ Len(s) \in Nat /\ Len(s) > 0
  OBVIOUS
<1>2. \A j \in 1..Len(Tail(s)) : Tail(s)[j] = s[j + 1] /\ j + 1 \in DOMAIN s
  BY <1>1
<1>3. Head(s) = s[1] /\ 1 \in DOMAIN s
  BY <1>1
<1> QED
  BY <1>1, <1>2, <1>3 DEF IsInjective

LEMMA AppendSeq ==
    ASSUME NEW S, NEW s \in Seq(S), IsInjective(s), NEW e \in S, \A i \in DOMAIN s : s[i] # e
    PROVE  /\ Append(s, e) \in Seq(S) /\ IsInjective(Append(s, e))
           /\ \A j \in DOMAIN Append(s, e) : Append(s, e)[j] = e \/ \E i \in DOMAIN s : Append(s, e)[j] = s[i]
<1>1. Append(s, e) \in Seq(S) /\ Len(Append(s, e)) = Len(s) + 1 /\ Len(s) \in Nat
  OBVIOUS
<1>2. \A j \in 1..Len(s) : Append(s, e)[j] = s[j]
  OBVIOUS
<1>3. Append(s, e)[Len(s) + 1] = e
  OBVIOUS
<1>4. DOMAIN s = 1..Len(s) /\ DOMAIN Append(s, e) = 1..(Len(s) + 1)
  BY <1>1
<1> QED
  BY <1>1, <1>2, <1>3, <1>4 DEF IsInjective

LEMMA QueryIInv ==
    ASSUME IInv, NEW q \in Queries, Query(q)
    PROVE  IInv'
<1> USE NonesAssumption
<1>1. TypeOK'
  BY DEF IInv, TypeOK, PCs, Query, Goto, Exchange, lock_vars, exchange_vars
<1>2. Queue'
  BY DEF IInv, TypeOK, Queue, Query, Goto, Exchange, lock_vars, exchange_vars
<1>3. OneConnects'
  BY DEF IInv, TypeOK, OneConnects, Connecting, Ready, Query, Goto, Exchange, lock_vars, exchange_vars
<1>4. Fresh'
  BY DEF IInv, TypeOK, OneConnects, Connecting, Fresh, Ready, Query, Goto, Exchange, lock_vars, exchange_vars
<1>5. Stored'
  BY DEF IInv, TypeOK, OneConnects, Connecting, Fresh, Stored, Query, Goto, Exchange, lock_vars, exchange_vars
<1>6. NoTaskLeft'
  BY DEF IInv, TypeOK, NoTaskLeft, Query, Goto, Exchange, lock_vars, exchange_vars
<1>7. EndpointAlive'
  BY DEF IInv, TypeOK, OneConnects, Connecting, Stored, EndpointAlive, Ready, Query, Goto, Exchange, lock_vars, exchange_vars
<1>8. CriticalStreamsHeld'
  BY DEF IInv, TypeOK, OneConnects, Connecting, Fresh, Stored, CriticalStreamsHeld, Ready, Query, Goto, Exchange, lock_vars, exchange_vars
<1>9. NoZombie'
  BY DEF IInv, TypeOK, OneConnects, Connecting, Fresh, Stored, NoZombie, Query, Goto, Exchange, lock_vars, exchange_vars
<1> QED
  BY <1>1, <1>2, <1>3, <1>4, <1>5, <1>6, <1>7, <1>8, <1>9 DEF IInv

LEMMA FailFastIInv ==
    ASSUME IInv, NEW q \in Queries, FailFast(q)
    PROVE  IInv'
<1> USE NonesAssumption
<1>1. TypeOK'
  BY DEF IInv, TypeOK, PCs, FailFast, Goto, Return, Unlock, lock_vars, exchange_vars
<1>2. Queue'
  BY DEF IInv, TypeOK, Queue, FailFast, Goto, Return, Unlock, lock_vars, exchange_vars
<1>3. OneConnects'
  BY DEF IInv, TypeOK, OneConnects, Connecting, Ready, FailFast, Goto, Return, Unlock, lock_vars, exchange_vars
<1>4. Fresh'
  BY DEF IInv, TypeOK, OneConnects, Connecting, Fresh, Ready, FailFast, Goto, Return, Unlock, lock_vars, exchange_vars
<1>5. Stored'
  BY DEF IInv, TypeOK, OneConnects, Connecting, Fresh, Stored, FailFast, Goto, Return, Unlock, lock_vars, exchange_vars
<1>6. NoTaskLeft'
  BY DEF IInv, TypeOK, NoTaskLeft, FailFast, Goto, Return, Unlock, lock_vars, exchange_vars
<1>7. EndpointAlive'
  BY DEF IInv, TypeOK, OneConnects, Connecting, Stored, EndpointAlive, Ready, FailFast, Goto, Return, Unlock, lock_vars, exchange_vars
<1>8. CriticalStreamsHeld'
  BY DEF IInv, TypeOK, OneConnects, Connecting, Fresh, Stored, CriticalStreamsHeld, Ready, FailFast, Goto, Return, Unlock, lock_vars, exchange_vars
<1>9. NoZombie'
  BY DEF IInv, TypeOK, OneConnects, Connecting, Fresh, Stored, NoZombie, FailFast, Goto, Return, Unlock, lock_vars, exchange_vars
<1> QED
  BY <1>1, <1>2, <1>3, <1>4, <1>5, <1>6, <1>7, <1>8, <1>9 DEF IInv

LEMMA WaitIInv ==
    ASSUME IInv, NEW q \in Queries, Wait(q)
    PROVE  IInv'
<1> USE NonesAssumption
<1>1. TypeOK'
  <2>1. \A i \in DOMAIN waiting : waiting[i] # q
    BY DEF IInv, Queue, Wait
  <2>2. waiting' \in Seq(Queries) /\ IsInjective(waiting')
    BY <2>1, AppendSeq DEF IInv, TypeOK, Wait
  <2> QED
    BY <2>2 DEF IInv, TypeOK, PCs, Wait, Goto, exchange_vars
<1>2. Queue'
  BY DEF IInv, TypeOK, Queue, Wait, Goto, lock_vars, exchange_vars
<1>3. OneConnects'
  BY DEF IInv, TypeOK, OneConnects, Connecting, Ready, Wait, Goto, lock_vars, exchange_vars
<1>4. Fresh'
  BY DEF IInv, TypeOK, OneConnects, Connecting, Fresh, Ready, Wait, Goto, lock_vars, exchange_vars
<1>5. Stored'
  BY DEF IInv, TypeOK, OneConnects, Connecting, Fresh, Stored, Wait, Goto, lock_vars, exchange_vars
<1>6. NoTaskLeft'
  BY DEF IInv, TypeOK, NoTaskLeft, Wait, Goto, lock_vars, exchange_vars
<1>7. EndpointAlive'
  BY DEF IInv, TypeOK, OneConnects, Connecting, Stored, EndpointAlive, Ready, Wait, Goto, lock_vars, exchange_vars
<1>8. CriticalStreamsHeld'
  BY DEF IInv, TypeOK, OneConnects, Connecting, Fresh, Stored, CriticalStreamsHeld, Ready, Wait, Goto, lock_vars, exchange_vars
<1>9. NoZombie'
  BY DEF IInv, TypeOK, OneConnects, Connecting, Fresh, Stored, NoZombie, Wait, Goto, lock_vars, exchange_vars
<1> QED
  BY <1>1, <1>2, <1>3, <1>4, <1>5, <1>6, <1>7, <1>8, <1>9 DEF IInv

LEMMA LockedIInv ==
    ASSUME IInv, NEW q \in Queries, Locked(q)
    PROVE  IInv'
<1> USE NonesAssumption
<1>10. waiting # <<>>
  BY DEF Locked, TakesLock
<1>11. /\ waiting' \in Seq(Queries) /\ IsInjective(waiting')
       /\ \A j \in DOMAIN waiting' : waiting'[j] # q /\ \E i \in DOMAIN waiting : waiting'[j] = waiting[i]
  BY <1>10, TailSeq DEF Locked, TakesLock, IInv, TypeOK
<1>1. TypeOK'
  <2>1. holder' = q
    BY DEF Locked, TakesLock
  <2>2. CASE Ready
    BY <1>11, <2>1, <2>2 DEF IInv, TypeOK, PCs, Locked, Goto, Exchange, Ready
  <2>3. CASE ~Ready
    BY <1>11, <2>1, <2>3 DEF IInv, TypeOK, PCs, Locked, Goto, exchange_vars
  <2> QED
    BY <2>2, <2>3
<1>2. Queue'
  BY <1>11 DEF IInv, TypeOK, Queue, Locked, Goto, Exchange
<1>3. OneConnects'
  BY DEF IInv, TypeOK, OneConnects, Connecting, Ready, Locked, TakesLock, Goto, Exchange, lock_vars, exchange_vars
<1>4. Fresh'
  BY DEF IInv, TypeOK, OneConnects, Connecting, Fresh, Ready, Locked, TakesLock, Goto, Exchange, lock_vars, exchange_vars
<1>5. Stored'
  BY DEF IInv, TypeOK, OneConnects, Connecting, Fresh, Stored, Locked, TakesLock, Goto, Exchange, lock_vars, exchange_vars
<1>6. NoTaskLeft'
  BY DEF IInv, TypeOK, NoTaskLeft, Locked, TakesLock, Goto, Exchange, lock_vars, exchange_vars
<1>7. EndpointAlive'
  BY DEF IInv, TypeOK, OneConnects, Connecting, Stored, EndpointAlive, Ready, Locked, TakesLock, Goto, Exchange, lock_vars, exchange_vars
<1>8. CriticalStreamsHeld'
  BY DEF IInv, TypeOK, OneConnects, Connecting, Fresh, Stored, CriticalStreamsHeld, Ready, Locked, TakesLock, Goto, Exchange, lock_vars, exchange_vars
<1>9. NoZombie'
  BY DEF IInv, TypeOK, OneConnects, Connecting, Fresh, Stored, NoZombie, Locked, TakesLock, Goto, Exchange, lock_vars, exchange_vars
<1> QED
  BY <1>1, <1>2, <1>3, <1>4, <1>5, <1>6, <1>7, <1>8, <1>9 DEF IInv

LEMMA ConnectFailsIInv ==
    ASSUME IInv, NEW q \in Queries, ConnectFails(q)
    PROVE  IInv'
<1> USE NonesAssumption
<1>1. TypeOK'
  BY DEF IInv, TypeOK, PCs, ConnectFails, Goto, lock_vars, exchange_vars
<1>2. Queue'
  BY DEF IInv, TypeOK, Queue, ConnectFails, Goto, lock_vars, exchange_vars
<1>3. OneConnects'
  BY DEF IInv, TypeOK, OneConnects, Connecting, Ready, ConnectFails, Goto, lock_vars, exchange_vars
<1>4. Fresh'
  BY DEF IInv, TypeOK, OneConnects, Connecting, Fresh, Ready, ConnectFails, Goto, lock_vars, exchange_vars
<1>5. Stored'
  BY DEF IInv, TypeOK, OneConnects, Connecting, Fresh, Stored, ConnectFails, Goto, lock_vars, exchange_vars
<1>6. NoTaskLeft'
  BY DEF IInv, TypeOK, NoTaskLeft, ConnectFails, Goto, lock_vars, exchange_vars
<1>7. EndpointAlive'
  BY DEF IInv, TypeOK, OneConnects, Connecting, Stored, EndpointAlive, Ready, ConnectFails, Goto, lock_vars, exchange_vars
<1>8. CriticalStreamsHeld'
  BY DEF IInv, TypeOK, OneConnects, Connecting, Fresh, Stored, CriticalStreamsHeld, Ready, ConnectFails, Goto, lock_vars, exchange_vars
<1>9. NoZombie'
  BY DEF IInv, TypeOK, OneConnects, Connecting, Fresh, Stored, NoZombie, ConnectFails, Goto, lock_vars, exchange_vars
<1> QED
  BY <1>1, <1>2, <1>3, <1>4, <1>5, <1>6, <1>7, <1>8, <1>9 DEF IInv

LEMMA HandshakeIInv ==
    ASSUME IInv, NEW q \in Queries, Handshake(q)
    PROVE  IInv'
<1> USE NonesAssumption
<1>1. TypeOK'
  BY DEF IInv, TypeOK, PCs, Handshake, Goto, Free, lock_vars, exchange_vars
<1>2. Queue'
  BY DEF IInv, TypeOK, Queue, Handshake, Goto, Free, lock_vars, exchange_vars
<1>3. OneConnects'
  BY DEF IInv, TypeOK, OneConnects, Connecting, Ready, Handshake, Goto, Free, lock_vars, exchange_vars
<1>4. Fresh'
  BY DEF IInv, TypeOK, OneConnects, Connecting, Fresh, Ready, Handshake, Goto, Free, lock_vars, exchange_vars
<1>5. Stored'
  BY DEF IInv, TypeOK, OneConnects, Connecting, Fresh, Stored, Handshake, Goto, Free, lock_vars, exchange_vars
<1>6. NoTaskLeft'
  BY DEF IInv, TypeOK, NoTaskLeft, Handshake, Goto, Free, lock_vars, exchange_vars
<1>7. EndpointAlive'
  BY DEF IInv, TypeOK, OneConnects, Connecting, Stored, EndpointAlive, Ready, Handshake, Goto, Free, lock_vars, exchange_vars
<1>8. CriticalStreamsHeld'
  BY DEF IInv, TypeOK, OneConnects, Connecting, Fresh, Stored, CriticalStreamsHeld, Ready, Handshake, Goto, Free, lock_vars, exchange_vars
<1>9. NoZombie'
  BY DEF IInv, TypeOK, OneConnects, Connecting, Fresh, Stored, NoZombie, Handshake, Goto, Free, lock_vars, exchange_vars
<1> QED
  BY <1>1, <1>2, <1>3, <1>4, <1>5, <1>6, <1>7, <1>8, <1>9 DEF IInv

LEMMA SetUpIInv ==
    ASSUME IInv, NEW q \in Queries, SetUp(q)
    PROVE  IInv'
<1> USE NonesAssumption
<1>1. TypeOK'
  BY DEF IInv, TypeOK, PCs, SetUp, Goto, lock_vars, exchange_vars
<1>2. Queue'
  BY DEF IInv, TypeOK, Queue, SetUp, Goto, lock_vars, exchange_vars
<1>3. OneConnects'
  BY DEF IInv, TypeOK, OneConnects, Connecting, Ready, SetUp, Goto, lock_vars, exchange_vars
<1>4. Fresh'
  BY DEF IInv, TypeOK, OneConnects, Connecting, Fresh, Ready, SetUp, Goto, lock_vars, exchange_vars
<1>5. Stored'
  BY DEF IInv, TypeOK, OneConnects, Connecting, Fresh, Stored, SetUp, Goto, lock_vars, exchange_vars
<1>6. NoTaskLeft'
  BY DEF IInv, TypeOK, NoTaskLeft, SetUp, Goto, lock_vars, exchange_vars
<1>7. EndpointAlive'
  BY DEF IInv, TypeOK, OneConnects, Connecting, Stored, EndpointAlive, Ready, SetUp, Goto, lock_vars, exchange_vars
<1>8. CriticalStreamsHeld'
  BY DEF IInv, TypeOK, OneConnects, Connecting, Fresh, Stored, CriticalStreamsHeld, Ready, SetUp, Goto, lock_vars, exchange_vars
<1>9. NoZombie'
  BY DEF IInv, TypeOK, OneConnects, Connecting, Fresh, Stored, NoZombie, SetUp, Goto, lock_vars, exchange_vars
<1> QED
  BY <1>1, <1>2, <1>3, <1>4, <1>5, <1>6, <1>7, <1>8, <1>9 DEF IInv

LEMMA PublishIInv ==
    ASSUME IInv, NEW q \in Queries, Publish(q)
    PROVE  IInv'
<1> USE NonesAssumption
<1>1. TypeOK'
  BY DEF IInv, TypeOK, PCs, Publish, Goto, Exchange, lock_vars, exchange_vars
<1>2. Queue'
  BY DEF IInv, TypeOK, Queue, Publish, Goto, Exchange, lock_vars, exchange_vars
<1>3. OneConnects'
  BY DEF IInv, TypeOK, OneConnects, Connecting, Ready, Publish, Goto, Exchange, lock_vars, exchange_vars
<1>4. Fresh'
  BY DEF IInv, TypeOK, OneConnects, Connecting, Fresh, Ready, Publish, Goto, Exchange, lock_vars, exchange_vars
<1>5. Stored'
  BY DEF IInv, TypeOK, OneConnects, Connecting, Fresh, Stored, Publish, Goto, Exchange, lock_vars, exchange_vars
<1>6. NoTaskLeft'
  BY DEF IInv, TypeOK, NoTaskLeft, Publish, Goto, Exchange, lock_vars, exchange_vars
<1>7. EndpointAlive'
  BY DEF IInv, TypeOK, OneConnects, Connecting, Stored, EndpointAlive, Ready, Publish, Goto, Exchange, lock_vars, exchange_vars
<1>8. CriticalStreamsHeld'
  BY DEF IInv, TypeOK, OneConnects, Connecting, Fresh, Stored, CriticalStreamsHeld, Ready, Publish, Goto, Exchange, lock_vars, exchange_vars
<1>9. NoZombie'
  BY DEF IInv, TypeOK, OneConnects, Connecting, Fresh, Stored, NoZombie, Publish, Goto, Exchange, lock_vars, exchange_vars
<1> QED
  BY <1>1, <1>2, <1>3, <1>4, <1>5, <1>6, <1>7, <1>8, <1>9 DEF IInv

LEMMA AnsweredIInv ==
    ASSUME IInv, NEW q \in Queries, Answered(q)
    PROVE  IInv'
<1> USE NonesAssumption
<1>1. TypeOK'
  BY DEF IInv, TypeOK, PCs, Answered, Goto, Return, Unlock, Unregister, lock_vars, exchange_vars
<1>2. Queue'
  BY DEF IInv, TypeOK, Queue, Answered, Goto, Return, Unlock, Unregister, lock_vars, exchange_vars
<1>3. OneConnects'
  BY DEF IInv, TypeOK, OneConnects, Connecting, Ready, Answered, Goto, Return, Unlock, Unregister, lock_vars, exchange_vars
<1>4. Fresh'
  BY DEF IInv, TypeOK, OneConnects, Connecting, Fresh, Ready, Answered, Goto, Return, Unlock, Unregister, lock_vars, exchange_vars
<1>5. Stored'
  BY DEF IInv, TypeOK, OneConnects, Connecting, Fresh, Stored, Answered, Goto, Return, Unlock, Unregister, lock_vars, exchange_vars
<1>6. NoTaskLeft'
  BY DEF IInv, TypeOK, NoTaskLeft, Answered, Goto, Return, Unlock, Unregister, lock_vars, exchange_vars
<1>7. EndpointAlive'
  BY DEF IInv, TypeOK, OneConnects, Connecting, Stored, EndpointAlive, Ready, Answered, Goto, Return, Unlock, Unregister, lock_vars, exchange_vars
<1>8. CriticalStreamsHeld'
  BY DEF IInv, TypeOK, OneConnects, Connecting, Fresh, Stored, CriticalStreamsHeld, Ready, Answered, Goto, Return, Unlock, Unregister, lock_vars, exchange_vars
<1>9. NoZombie'
  BY DEF IInv, TypeOK, OneConnects, Connecting, Fresh, Stored, NoZombie, Answered, Goto, Return, Unlock, Unregister, lock_vars, exchange_vars
<1> QED
  BY <1>1, <1>2, <1>3, <1>4, <1>5, <1>6, <1>7, <1>8, <1>9 DEF IInv

LEMMA NotAnsweredIInv ==
    ASSUME IInv, NEW q \in Queries, NotAnswered(q)
    PROVE  IInv'
<1> USE NonesAssumption
<1>1. TypeOK'
  BY DEF IInv, TypeOK, PCs, NotAnswered, Goto, Unregister, lock_vars, exchange_vars
<1>2. Queue'
  BY DEF IInv, TypeOK, Queue, NotAnswered, Goto, Unregister, lock_vars, exchange_vars
<1>3. OneConnects'
  BY DEF IInv, TypeOK, OneConnects, Connecting, Ready, NotAnswered, Goto, Unregister, lock_vars, exchange_vars
<1>4. Fresh'
  BY DEF IInv, TypeOK, OneConnects, Connecting, Fresh, Ready, NotAnswered, Goto, Unregister, lock_vars, exchange_vars
<1>5. Stored'
  BY DEF IInv, TypeOK, OneConnects, Connecting, Fresh, Stored, NotAnswered, Goto, Unregister, lock_vars, exchange_vars
<1>6. NoTaskLeft'
  BY DEF IInv, TypeOK, NoTaskLeft, NotAnswered, Goto, Unregister, lock_vars, exchange_vars
<1>7. EndpointAlive'
  BY DEF IInv, TypeOK, OneConnects, Connecting, Stored, EndpointAlive, Ready, NotAnswered, Goto, Unregister, lock_vars, exchange_vars
<1>8. CriticalStreamsHeld'
  BY DEF IInv, TypeOK, OneConnects, Connecting, Fresh, Stored, CriticalStreamsHeld, Ready, NotAnswered, Goto, Unregister, lock_vars, exchange_vars
<1>9. NoZombie'
  BY DEF IInv, TypeOK, OneConnects, Connecting, Fresh, Stored, NoZombie, NotAnswered, Goto, Unregister, lock_vars, exchange_vars
<1> QED
  BY <1>1, <1>2, <1>3, <1>4, <1>5, <1>6, <1>7, <1>8, <1>9 DEF IInv

LEMMA DropIInv ==
    ASSUME IInv, NEW q \in Queries, Drop(q)
    PROVE  IInv'
<1> USE NonesAssumption
<1>1. TypeOK'
  BY DEF IInv, TypeOK, PCs, Drop, Goto, lock_vars, exchange_vars
<1>2. Queue'
  BY DEF IInv, TypeOK, Queue, Drop, Goto, lock_vars, exchange_vars
<1>3. OneConnects'
  BY DEF IInv, TypeOK, OneConnects, Connecting, Ready, Drop, Goto, lock_vars, exchange_vars
<1>4. Fresh'
  BY DEF IInv, TypeOK, OneConnects, Connecting, Fresh, Ready, Drop, Goto, lock_vars, exchange_vars
<1>5. Stored'
  BY DEF IInv, TypeOK, OneConnects, Connecting, Fresh, Stored, Drop, Goto, lock_vars, exchange_vars
<1>6. NoTaskLeft'
  BY DEF IInv, TypeOK, NoTaskLeft, Drop, Goto, lock_vars, exchange_vars
<1>7. EndpointAlive'
  BY DEF IInv, TypeOK, OneConnects, Connecting, Stored, EndpointAlive, Ready, Drop, Goto, lock_vars, exchange_vars
<1>8. CriticalStreamsHeld'
  BY DEF IInv, TypeOK, OneConnects, Connecting, Fresh, Stored, CriticalStreamsHeld, Ready, Drop, Goto, lock_vars, exchange_vars
<1>9. NoZombie'
  BY DEF IInv, TypeOK, OneConnects, Connecting, Fresh, Stored, NoZombie, Drop, Goto, lock_vars, exchange_vars
<1> QED
  BY <1>1, <1>2, <1>3, <1>4, <1>5, <1>6, <1>7, <1>8, <1>9 DEF IInv

LEMMA NoteIInv ==
    ASSUME IInv, NEW q \in Queries, Note(q)
    PROVE  IInv'
<1> USE NonesAssumption
<1>1. TypeOK'
  BY DEF IInv, TypeOK, PCs, Note, Goto, Return, Unlock, lock_vars, exchange_vars
<1>2. Queue'
  BY DEF IInv, TypeOK, Queue, Note, Goto, Return, Unlock, lock_vars, exchange_vars
<1>3. OneConnects'
  BY DEF IInv, TypeOK, OneConnects, Connecting, Ready, Note, Goto, Return, Unlock, lock_vars, exchange_vars
<1>4. Fresh'
  BY DEF IInv, TypeOK, OneConnects, Connecting, Fresh, Ready, Note, Goto, Return, Unlock, lock_vars, exchange_vars
<1>5. Stored'
  BY DEF IInv, TypeOK, OneConnects, Connecting, Fresh, Stored, Note, Goto, Return, Unlock, lock_vars, exchange_vars
<1>6. NoTaskLeft'
  BY DEF IInv, TypeOK, NoTaskLeft, Note, Goto, Return, Unlock, lock_vars, exchange_vars
<1>7. EndpointAlive'
  BY DEF IInv, TypeOK, OneConnects, Connecting, Stored, EndpointAlive, Ready, Note, Goto, Return, Unlock, lock_vars, exchange_vars
<1>8. CriticalStreamsHeld'
  BY DEF IInv, TypeOK, OneConnects, Connecting, Fresh, Stored, CriticalStreamsHeld, Ready, Note, Goto, Return, Unlock, lock_vars, exchange_vars
<1>9. NoZombie'
  BY DEF IInv, TypeOK, OneConnects, Connecting, Fresh, Stored, NoZombie, Note, Goto, Return, Unlock, lock_vars, exchange_vars
<1> QED
  BY <1>1, <1>2, <1>3, <1>4, <1>5, <1>6, <1>7, <1>8, <1>9 DEF IInv

LEMMA CancelIInv ==
    ASSUME IInv, NEW q \in Queries, Cancel(q)
    PROVE  IInv'
<1> USE NonesAssumption
<1>10. /\ waiting' \in Seq(Queries) /\ IsInjective(waiting')
       /\ \A j \in DOMAIN waiting' : waiting'[j] # q /\ \E i \in DOMAIN waiting : waiting'[j] = waiting[i]
  <2>1. CASE pc[q] # "waiting"
    BY <2>1 DEF Cancel, LeaveQueue, IInv, TypeOK, Queue
  <2>2. CASE pc[q] = "waiting"
    <3>1. PICK i \in DOMAIN waiting : waiting[i] = q /\ waiting' = RemoveAt(waiting, i)
      BY <2>2 DEF Cancel, LeaveQueue
    <3> QED
      BY <3>1, RemoveAtSeq DEF IInv, TypeOK
  <2> QED
    BY <2>1, <2>2
<1>1. TypeOK'
  BY <1>10 DEF IInv, TypeOK, PCs, Cancel, Goto, Return, Unlock, Unregister
<1>2. Queue'
  BY <1>10 DEF IInv, TypeOK, Queue, Cancel, Goto, Return
<1>3. OneConnects'
  BY DEF IInv, TypeOK, OneConnects, Connecting, Ready, Cancel, Awaiting, Goto, Return, Unlock, Unregister, LeaveQueue, lock_vars, exchange_vars
<1>4. Fresh'
  BY DEF IInv, TypeOK, OneConnects, Connecting, Fresh, Ready, Cancel, Awaiting, Goto, Return, Unlock, Unregister, LeaveQueue, lock_vars, exchange_vars
<1>5. Stored'
  BY DEF IInv, TypeOK, OneConnects, Connecting, Fresh, Stored, Cancel, Awaiting, Goto, Return, Unlock, Unregister, LeaveQueue, lock_vars, exchange_vars
<1>6. NoTaskLeft'
  BY DEF IInv, TypeOK, NoTaskLeft, Cancel, Awaiting, Goto, Return, Unlock, Unregister, LeaveQueue, lock_vars, exchange_vars
<1>7. EndpointAlive'
  BY DEF IInv, TypeOK, OneConnects, Connecting, Stored, EndpointAlive, Ready, Cancel, Awaiting, Goto, Return, Unlock, Unregister, LeaveQueue, lock_vars, exchange_vars
<1>8. CriticalStreamsHeld'
  BY DEF IInv, TypeOK, OneConnects, Connecting, Fresh, Stored, CriticalStreamsHeld, Ready, Cancel, Awaiting, Goto, Return, Unlock, Unregister, LeaveQueue, lock_vars, exchange_vars
<1>9. NoZombie'
  BY DEF IInv, TypeOK, OneConnects, Connecting, Fresh, Stored, NoZombie, Cancel, Awaiting, Goto, Return, Unlock, Unregister, LeaveQueue, lock_vars, exchange_vars
<1> QED
  BY <1>1, <1>2, <1>3, <1>4, <1>5, <1>6, <1>7, <1>8, <1>9 DEF IInv

LEMMA LoseIInv ==
    ASSUME IInv, NEW c \in Conns, Lose(c)
    PROVE  IInv'
<1> USE NonesAssumption
<1>1. TypeOK'
  BY DEF IInv, TypeOK, PCs, Lose, lock_vars, exchange_vars
<1>2. Queue'
  BY DEF IInv, TypeOK, Queue, Lose, lock_vars, exchange_vars
<1>3. OneConnects'
  BY DEF IInv, TypeOK, OneConnects, Connecting, Ready, Lose, lock_vars, exchange_vars
<1>4. Fresh'
  BY DEF IInv, TypeOK, OneConnects, Connecting, Fresh, Ready, Lose, lock_vars, exchange_vars
<1>5. Stored'
  BY DEF IInv, TypeOK, OneConnects, Connecting, Fresh, Stored, Lose, lock_vars, exchange_vars
<1>6. NoTaskLeft'
  BY DEF IInv, TypeOK, NoTaskLeft, Lose, lock_vars, exchange_vars
<1>7. EndpointAlive'
  BY DEF IInv, TypeOK, OneConnects, Connecting, Stored, EndpointAlive, Ready, Lose, lock_vars, exchange_vars
<1>8. CriticalStreamsHeld'
  BY DEF IInv, TypeOK, OneConnects, Connecting, Fresh, Stored, CriticalStreamsHeld, Ready, Lose, lock_vars, exchange_vars
<1>9. NoZombie'
  BY DEF IInv, TypeOK, OneConnects, Connecting, Fresh, Stored, NoZombie, Lose, lock_vars, exchange_vars
<1> QED
  BY <1>1, <1>2, <1>3, <1>4, <1>5, <1>6, <1>7, <1>8, <1>9 DEF IInv

LEMMA ElapseIInv ==
    ASSUME IInv, Elapse
    PROVE  IInv'
<1> USE NonesAssumption
<1>1. TypeOK'
  BY DEF IInv, TypeOK, PCs, Elapse, lock_vars, exchange_vars
<1>2. Queue'
  BY DEF IInv, TypeOK, Queue, Elapse, lock_vars, exchange_vars
<1>3. OneConnects'
  BY DEF IInv, TypeOK, OneConnects, Connecting, Ready, Elapse, lock_vars, exchange_vars
<1>4. Fresh'
  BY DEF IInv, TypeOK, OneConnects, Connecting, Fresh, Ready, Elapse, lock_vars, exchange_vars
<1>5. Stored'
  BY DEF IInv, TypeOK, OneConnects, Connecting, Fresh, Stored, Elapse, lock_vars, exchange_vars
<1>6. NoTaskLeft'
  BY DEF IInv, TypeOK, NoTaskLeft, Elapse, lock_vars, exchange_vars
<1>7. EndpointAlive'
  BY DEF IInv, TypeOK, OneConnects, Connecting, Stored, EndpointAlive, Ready, Elapse, lock_vars, exchange_vars
<1>8. CriticalStreamsHeld'
  BY DEF IInv, TypeOK, OneConnects, Connecting, Fresh, Stored, CriticalStreamsHeld, Ready, Elapse, lock_vars, exchange_vars
<1>9. NoZombie'
  BY DEF IInv, TypeOK, OneConnects, Connecting, Fresh, Stored, NoZombie, Elapse, lock_vars, exchange_vars
<1> QED
  BY <1>1, <1>2, <1>3, <1>4, <1>5, <1>6, <1>7, <1>8, <1>9 DEF IInv

LEMMA InitIInv == Init => IInv
<1> SUFFICES ASSUME Init PROVE IInv
  OBVIOUS
<1> USE NonesAssumption DEF Init
<1>1. TypeOK
  <2>1. DOMAIN waiting = {} /\ waiting \in Seq(Queries)
    OBVIOUS
  <2>2. IsInjective(waiting)
    BY <2>1 DEF IsInjective
  <2> QED
    BY <2>1, <2>2 DEF TypeOK, PCs
<1>2. Queue
  BY DEF Queue
<1>3. OneConnects /\ Fresh /\ Stored
  BY DEF OneConnects, Connecting, Fresh, Stored
<1>4. NoTaskLeft /\ EndpointAlive /\ CriticalStreamsHeld /\ NoZombie
  BY DEF NoTaskLeft, EndpointAlive, CriticalStreamsHeld, NoZombie, Ready
<1> QED
  BY <1>1, <1>2, <1>3, <1>4 DEF IInv

LEMMA StepIInv == IInv /\ [Next]_vars => IInv'
<1> SUFFICES ASSUME IInv, [Next]_vars PROVE IInv'
  OBVIOUS
<1>1. ASSUME NEW q \in Queries, Proceed(q) PROVE IInv'
  BY <1>1, FailFastIInv, WaitIInv, LockedIInv, ConnectFailsIInv, SetUpIInv, PublishIInv,
     NotAnsweredIInv, DropIInv, NoteIInv DEF Proceed
<1>2. ASSUME NEW q \in Queries, Query(q) \/ Cancel(q) \/ Handshake(q) \/ Answered(q) PROVE IInv'
  BY <1>2, QueryIInv, CancelIInv, HandshakeIInv, AnsweredIInv
<1>3. ASSUME NEW c \in Conns, Lose(c) PROVE IInv'
  BY <1>3, LoseIInv
<1>4. CASE Elapse
  BY <1>4, ElapseIInv
<1>5. CASE UNCHANGED vars
  BY <1>5 DEF vars, IInv, TypeOK, Queue, OneConnects, Ready, Fresh, Stored, NoTaskLeft,
     EndpointAlive, CriticalStreamsHeld, NoZombie
<1> QED
  BY <1>1, <1>2, <1>3, <1>4, <1>5 DEF Next

\* Every variable stays in the set of values it is meant for.
THEOREM TypeCorrect == Spec => []TypeOK
<1>1. IInv => TypeOK
  BY DEF IInv
<1> QED
  BY <1>1, InitIInv, StepIInv, PTL DEF Spec

\* The connection on offer has its critical streams held, unless the late failure of an
\* exchange over another connection dropped them; and none are kept for a connection that
\* is not, or not about to be, stored.
THEOREM StreamsHeld == Spec => []StreamsFollowConnection
<1>1. IInv => StreamsFollowConnection
  BY DEF IInv, StreamsFollowConnection
<1> QED
  BY <1>1, InitIInv, StepIInv, PTL DEF Spec

\* The endpoint of a connection on offer is never replaced.
THEOREM EndpointKept == Spec => []EndpointAlive
<1>1. IInv => EndpointAlive
  BY DEF IInv
<1> QED
  BY <1>1, InitIInv, StepIInv, PTL DEF Spec

\* No exchange goes on without its query.
THEOREM NoTaskLeftBehind == Spec => []NoTaskLeft
<1>1. IInv => NoTaskLeft
  BY DEF IInv
<1> QED
  BY <1>1, InitIInv, StepIInv, PTL DEF Spec
=============================================================================
