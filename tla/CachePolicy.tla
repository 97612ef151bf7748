---------------------------- MODULE CachePolicy -----------------------------
(***************************************************************************)
(* The answer cache (ebpdns-cache: tinylfu.rs, lru.rs, partitioned.rs,     *)
(* behind swap.rs) and the change of its policy, size and serve-stale      *)
(* window while it is in use (Resolver::reload).                           *)
(*                                                                         *)
(* A cache is a record: policy, size, serve-stale window and the ordered   *)
(* lists ("segments") that hold its entries, each from the least to the    *)
(* most recently used: window, probation and protected of W-TinyLFU, the   *)
(* shards of the LRU cache, or the shards of each partition.  An entry is  *)
(* its key <<group, domain>>, its expiry, and whether it is what was put   *)
(* for the domain last (history).  The resolver looks up and puts under    *)
(* the key without group; the keys that partitions report have one.        *)
(*                                                                         *)
(* A method is one step, also where it locks shard after shard.            *)
(* reload is not: it lists the keys, copies the entries one by one into a  *)
(* new cache, swaps it in, sets its window and stores the configuration,   *)
(* and queries go on meanwhile.  The frequencies of the count-min sketch   *)
(* are not modelled: a comparison of two of them may go either way.        *)
(***************************************************************************)
EXTENDS Naturals, FiniteSets, Sequences, SequencesExt

CONSTANTS
    Domains,        \* domains with their query types
    GroupOrder,     \* names of partitions, in the order of the map of partitions
    Default,        \* the partition of keys without group
    NoGroup,        \* the group of a key without one
    NoCache,        \* no cache is being filled
    Configs,        \* records [policy, size, window] (cache_policy, cache_size and the
                    \* serve-stale window, 0 for serve_stale = false); a policy is a record
                    \* [kind, parts], with parts # {} when kind is "partitioned"
    TinyCaps,       \* the capacities [win, prob, prot] of W-TinyLFU for each size
    ShardCap,       \* the capacity of a shard for each size
    Shards,
    Hash,           \* the shard of each key
    Ttls,
    MaxTime         \* bound of the clock

Groups == ToSet(GroupOrder)
CacheKeys == (Groups \cup {NoGroup}) \X Domains

ASSUME GroupsAssumption == GroupOrder \in Seq(Groups) /\ NoGroup \notin Groups
ASSUME ShardsAssumption == IsFiniteSet(Shards) /\ Hash \in [CacheKeys -> Shards]
ASSUME TimesAssumption == Ttls \subseteq Nat /\ MaxTime \in Nat
ASSUME PoliciesAssumption ==
    \A c \in Configs : LET p == c.policy
                       IN  /\ p.kind \in {"tinylfu", "lru", "partitioned"}
                           /\ p.parts \subseteq Groups
                           /\ p.parts # {} <=> p.kind = "partitioned"
ASSUME CapsAssumption ==
    \A c \in Configs : /\ \A s \in {"win", "prob", "prot"} : TinyCaps[c.size][s] \in Nat \ {0}
                       /\ ShardCap[c.size] \in Nat \ {0}
                       /\ c.window \in Nat

VARIABLES
    cur,        \* the cache in use
    now,        \* the clock
    conf,       \* the stored configuration [policy, size, window]
    phase,      \* where reload is: "idle", "copy", "set" or "store"
    to,         \* the configuration it was called with
    fresh,      \* the cache it fills
    to_copy,    \* the keys it has yet to copy
    start,      \* the time it has read
    torn,       \* history: domains put or deleted while entries were being copied
    shadowed    \* history: domains that have had an entry no query finds

cache_vars == <<cur, now, conf, phase, to, fresh, to_copy, start, torn, shadowed>>
reload_vars == <<conf, phase, to, to_copy, start>>

-----------------------------------------------------------------------------
\* Segments.
Window == <<"window", 0>>
Probation == <<"probation", 0>>
Protected == <<"protected", 0>>
SegIds(p) == CASE p.kind = "tinylfu" -> {Window, Probation, Protected}
               [] p.kind = "lru" -> {NoGroup} \X Shards
               [] p.kind = "partitioned" -> p.parts \X Shards

New(p, n) == [policy |-> p, size |-> n, window |-> 0, segs |-> [s \in SegIds(p) |-> <<>>]]

Tiny(c) == c.policy.kind = "tinylfu"
Caps(c) == TinyCaps[c.size]
MainCap(c) == Caps(c).prob + Caps(c).prot
Plain(k) == <<NoGroup, k[2]>>
FirstPart(parts) == GroupOrder[Min({n \in DOMAIN GroupOrder : GroupOrder[n] \in parts})]

\* resolve_group: a group that is not configured falls back to "default", then to the first.
Part(parts, k) ==
    LET want == IF k[1] = NoGroup THEN Default ELSE k[1]
    IN  IF want \in parts THEN want ELSE IF Default \in parts THEN Default ELSE FirstPart(parts)

\* The key an entry is stored under, and the segments it may be in.
StoredKey(c, k) == IF c.policy.kind = "partitioned" THEN Plain(k) ELSE k
Homes(c, k) ==
    CASE Tiny(c) -> SegIds(c.policy)
      [] c.policy.kind = "lru" -> {<<NoGroup, Hash[k]>>}
      [] OTHER -> {<<Part(c.policy.parts, k), Hash[Plain(k)]>>}

Holding(c, k) == {s \in Homes(c, k) : \E i \in ToSet(c.segs[s]) : i.key = StoredKey(c, k)}
Has(c, k) == Holding(c, k) # {}
Seg(c, k) == CHOOSE s \in Holding(c, k) : TRUE
Item(c, k) == CHOOSE i \in ToSet(c.segs[Seg(c, k)]) : i.key = StoredKey(c, k)

\* The entries of a list that are in a set, in their order.
Only(q, S) ==
    LET places == {n \in DOMAIN q : q[n] \in S}
        Nth(m) == CHOOSE n \in places : Cardinality({p \in places : p < n}) = m - 1
    IN  [m \in 1..Cardinality(places) |-> q[Nth(m)]]

Drop(q, k) == Only(q, {i \in ToSet(q) : i.key # k})

\* Mutant: only the window is searched.
WithoutKeyInWindow(c, k) ==
    [c EXCEPT !.segs = [s \in DOMAIN @ |->
        IF s = Window \/ ~Tiny(c) THEN Drop(@[s], StoredKey(c, k)) ELSE @[s]]]

WithoutKey(c, k) ==
    [c EXCEPT !.segs = [s \in DOMAIN @ |->
        IF s \in Homes(c, k) THEN Drop(@[s], StoredKey(c, k)) ELSE @[s]]]

MovedToEnd(c, k) ==
    LET s == Seg(c, k)
    IN  [c EXCEPT !.segs[s] = Append(Drop(@, StoredKey(c, k)), Item(c, k))]

Expired(i, t) == i.exp <= t

\* An expired entry is kept while the window of the cache has not passed.
Past(c, i, t) == Expired(i, t) /\ ~(c.window > 0 /\ t - i.exp <= c.window)

\* The entries left when the run of entries at the front that are in a set is dropped.
TrimFront(q, S) == SubSeq(q, 1 + Max({n \in 0..Len(q) : \A j \in 1..n : q[j] \in S}), Len(q))

Minus(m, n) == IF m > n THEN m - n ELSE 0

LastOnes(q, n) == IF Len(q) <= n THEN q ELSE SubSeq(q, Len(q) - n + 1, Len(q))

-----------------------------------------------------------------------------
\* evict_locked of W-TinyLFU, first loop: what leaves the window goes to probation, then to
\* protected while there is room in either; of the rest, each takes the place of the head of
\* probation if it is used more often.
Admit(c) ==
    LET w == c.segs[Window]
        pb == c.segs[Probation]
        pt == c.segs[Protected]
        over == Minus(Len(w), Caps(c).win)
        a == Min({over, Minus(Caps(c).prob, Len(pb))})
        b == Min({over, a + Minus(MainCap(c), Len(pb) + a + Len(pt))})
    IN  {[c EXCEPT !.segs[Window] = SubSeq(w, over + 1, Len(w)),
                   !.segs[Probation] = LastOnes(pb \o SubSeq(w, 1, a) \o Only(SubSeq(w, b + 1, over), S),
                                                Len(pb) + a),
                   !.segs[Protected] = pt \o SubSeq(w, a + 1, b)] :
            S \in SUBSET ToSet(SubSeq(w, b + 1, over))}

\* Second and third loop: the head of protected goes to the head of probation, and the
\* head of probation goes.
Demote(c) ==
    LET pt == c.segs[Protected]
        kept == LastOnes(pt, Caps(c).prot)
        back == Reverse(SubSeq(pt, 1, Len(pt) - Len(kept)))
    IN  [c EXCEPT !.segs[Protected] = kept,
                  !.segs[Probation] = LastOnes(back \o @, Caps(c).prob)]

Evict(c) ==
    IF Tiny(c) THEN {Demote(d) : d \in Admit(c)}
    ELSE {[c EXCEPT !.segs = [s \in DOMAIN @ |-> LastOnes(@[s], ShardCap[c.size])]]}

\* put: where the key is, or in the window; then the purge of every 32nd put.  That of an
\* LRU cache samples the shard of the key: of what is past any part may be found.
PutHome(c, k) ==
    IF Has(c, k) THEN Seg(c, k) ELSE IF Tiny(c) THEN Window ELSE CHOOSE s \in Homes(c, k) : TRUE

Purged(c, k, t) ==
    LET past(s) == {i \in ToSet(c.segs[s]) : Past(c, i, t)}
    IN  IF Tiny(c) THEN {[c EXCEPT !.segs = [s \in DOMAIN @ |-> TrimFront(@[s], past(s))]]}
        ELSE {[c EXCEPT !.segs = [s \in DOMAIN @ |->
                  IF s \in Homes(c, k) THEN Only(@[s], ToSet(@[s]) \ X) ELSE @[s]]] :
                      X \in SUBSET UNION {past(s) : s \in Homes(c, k)}}

PutIn(c, k, item, t) ==
    LET s == PutHome(c, k)
        i == [item EXCEPT !.key = StoredKey(c, k)]
        d == [c EXCEPT !.segs[s] = Append(Drop(@, i.key), i)]
    IN  UNION {{e} \cup Purged(e, k, t) : e \in Evict(d)}

\* A hit in probation moves to protected; if that is full, its head goes back to the head
\* of probation.
Promoted(c, k) ==
    LET pt == c.segs[Protected]
        full == Len(pt) >= Caps(c).prot /\ pt # <<>>
    IN  [c EXCEPT !.segs[Probation] = (IF full THEN <<Head(pt)>> ELSE <<>>) \o Drop(@, k),
                  !.segs[Protected] = Append(IF full THEN Tail(pt) ELSE pt, Item(c, k))]

Hit(c, k, t) == Has(c, k) /\ ~Expired(Item(c, k), t)

\* get_arc; without a window it deletes what has expired, and every 32nd miss sweeps up to
\* four from the head of each segment of W-TinyLFU.
Swept(c, t) ==
    [c EXCEPT !.segs = [s \in DOMAIN @ |->
        TrimFront(@[s], {@[s][n] : n \in {m \in DOMAIN @[s] : m <= 4 /\ Expired(@[s][m], t)}})]]

\* Mutant: what has expired is deleted, whatever the window.
GetInEager(c, k, t) ==
    CASE ~Has(c, k) -> {c}
      [] Has(c, k) /\ Expired(Item(c, k), t) -> {WithoutKey(c, k)}
      [] Hit(c, k, t) -> {MovedToEnd(c, k)}

GetIn(c, k, t) ==
    CASE ~Has(c, k) -> {c} \cup (IF Tiny(c) /\ c.window = 0 THEN {Swept(c, t)} ELSE {})
      [] Has(c, k) /\ Expired(Item(c, k), t) -> {IF c.window = 0 THEN WithoutKey(c, k) ELSE c}
      [] Hit(c, k, t) -> {IF Tiny(c) /\ Seg(c, k) = Probation THEN Promoted(c, k)
                                                              ELSE MovedToEnd(c, k)}

\* get_stale with the window of the configuration: only what has expired is returned.
GetStaleIn(c, k, t, w) ==
    CASE ~Has(c, k) \/ Hit(c, k, t) -> c
      [] Has(c, k) /\ t - Item(c, k).exp > w -> WithoutKey(c, k)
      [] OTHER -> MovedToEnd(c, k)

\* peek deletes what has expired, whatever the window.
PeekIn(c, k, t) == IF Has(c, k) /\ ~Hit(c, k, t) THEN WithoutKey(c, k) ELSE c

\* keys, in the order of the segments; partitions add their names.
ReportedKey(c, s, i) == IF c.policy.kind = "partitioned" THEN <<s[1], i.key[2]>> ELSE i.key
KeysOf(c, s) == [j \in DOMAIN c.segs[s] |-> ReportedKey(c, s, c.segs[s][j])]

\* One segment after the other, in any order.
ListOrders(c) ==
    LET places == UNION {{s} \X DOMAIN c.segs[s] : s \in DOMAIN c.segs}
    IN  {p \in SetToSeqs(places) :
            \A x, y \in DOMAIN p : x < y /\ p[x][1] = p[y][1] =>
                p[x][2] < p[y][2] /\ \A z \in x..y : p[z][1] = p[x][1]}
ListsOf(c) == {[n \in DOMAIN p |-> KeysOf(c, p[n][1])[p[n][2]]] : p \in ListOrders(c)}

\* Mutant: the protected segment is forgotten.
KeyListsUnprotected(c) ==
    IF Tiny(c) THEN {KeysOf(c, Window) \o KeysOf(c, Probation)} ELSE ListsOf(c)

KeyLists(c) ==
    IF Tiny(c) THEN {KeysOf(c, Window) \o KeysOf(c, Probation) \o KeysOf(c, Protected)}
               ELSE ListsOf(c)

\* The domains with an entry that no query finds: under a key, or in a partition, that
\* lookups do not use.
Shadowed(c) ==
    {d \in Domains : \E s \in DOMAIN c.segs : \E i \in ToSet(c.segs[s]) :
        i.key[2] = d /\ ~(i.key = <<NoGroup, d>> /\ s \in Homes(c, <<NoGroup, d>>))}

\* Entries that are no longer what was put for their domain last.
Aged(c, ds) ==
    [c EXCEPT !.segs = [s \in DOMAIN @ |-> [n \in DOMAIN @[s] |->
        IF @[s][n].key[2] \in ds THEN [@[s][n] EXCEPT !.newest = FALSE] ELSE @[s][n]]]]

-----------------------------------------------------------------------------
CacheInit ==
    /\ conf \in Configs
    /\ cur = [New(conf.policy, conf.size) EXCEPT !.window = conf.window]
    /\ now = 0
    /\ phase = "idle" /\ to = conf /\ fresh = NoCache /\ to_copy = <<>> /\ start = 0
    /\ torn = {} /\ shadowed = {}

\* Domains change while entries are being copied, or their entries are in order again.
Tear(ds) ==
    /\ torn' = IF phase = "copy" THEN torn \cup ds ELSE torn \ ds
    /\ fresh' = IF phase = "copy" THEN Aged(fresh, ds) ELSE fresh

Get(d) ==
    /\ cur' \in GetIn(cur, <<NoGroup, d>>, now)
    /\ UNCHANGED <<now, reload_vars, fresh, torn, shadowed>>

GetStale(d) ==
    /\ conf.window > 0
    /\ cur' = GetStaleIn(cur, <<NoGroup, d>>, now, conf.window)
    /\ UNCHANGED <<now, reload_vars, fresh, torn, shadowed>>

\* /api/snapshot: peek at a key that sample_keys has listed.
Peek(k) ==
    /\ \E s \in DOMAIN cur.segs : k \in ToSet(KeysOf(cur, s))
    /\ cur' = PeekIn(cur, k, now)
    /\ UNCHANGED <<now, reload_vars, fresh, torn, shadowed>>

Put(d) ==
    /\ \E ttl \in Ttls :
          LET item == [key |-> <<NoGroup, d>>, exp |-> now + ttl, newest |-> TRUE]
          IN  cur' \in PutIn(Aged(cur, {d}), <<NoGroup, d>>, item, now)
    /\ Tear({d})
    /\ UNCHANGED <<now, reload_vars, shadowed>>

Delete(d) ==
    /\ cur' = WithoutKey(Aged(cur, {d}), <<NoGroup, d>>)
    /\ Tear({d})
    /\ UNCHANGED <<now, reload_vars, shadowed>>

Clear ==
    /\ cur' = [New(cur.policy, cur.size) EXCEPT !.window = cur.window]
    /\ Tear(Domains)
    /\ UNCHANGED <<now, reload_vars, shadowed>>

Tick ==
    /\ now < MaxTime /\ now' = now + 1
    /\ UNCHANGED <<cur, reload_vars, fresh, torn, shadowed>>

-----------------------------------------------------------------------------
\* Resolver::reload: another policy is filled first; another size is set at once.
Reload(c) ==
    /\ phase = "idle" /\ to' = c /\ start' = now
    /\ IF c.policy # conf.policy
       THEN /\ phase' = "copy"
            /\ fresh' = New(c.policy, c.size)
            /\ to_copy' \in KeyLists(cur)
            /\ UNCHANGED cur
       ELSE /\ phase' = "set"
            /\ IF c.size # conf.size THEN cur' \in Evict([cur EXCEPT !.size = c.size])
                                     ELSE UNCHANGED cur
            /\ UNCHANGED <<fresh, to_copy>>
    /\ UNCHANGED <<now, conf, torn, shadowed>>

\* get_arc in the old cache, put in the new one.
CopyOne ==
    /\ phase = "copy" /\ to_copy # <<>>
    /\ to_copy' = Tail(to_copy)
    /\ LET k == Head(to_copy)
       IN  /\ cur' \in GetIn(cur, k, start)
           /\ IF Hit(cur, k, start) THEN fresh' \in PutIn(fresh, k, Item(cur, k), start)
                                    ELSE UNCHANGED fresh
    /\ UNCHANGED <<now, conf, phase, to, start, torn, shadowed>>

Swap ==
    /\ phase = "copy" /\ to_copy = <<>>
    /\ cur' = fresh /\ fresh' = NoCache /\ phase' = "set"
    /\ shadowed' = shadowed \cup Shadowed(fresh)
    /\ UNCHANGED <<now, conf, to, to_copy, start, torn>>

SetWindow ==
    /\ phase = "set" /\ phase' = "store"
    /\ cur' = [cur EXCEPT !.window = to.window]
    /\ UNCHANGED <<now, conf, to, fresh, to_copy, start, torn, shadowed>>

StoreConf ==
    /\ phase = "store" /\ phase' = "idle" /\ conf' = to
    /\ UNCHANGED <<cur, now, to, fresh, to_copy, start, torn, shadowed>>

\* The process ends and starts again with some configuration: restore_records is given the
\* live entries under the keys of the journal.  W-TinyLFU fills its protected segment
\* with those that live longest; the others strip the group of the key.
RestoredTiny(c, items) ==
    LET q == LastOnes(items, MainCap(c)) IN Demote([c EXCEPT !.segs[Protected] = q])

\* Without the partition named the entry goes to the first one, not to "default".
RestoreSeg(c, k) ==
    IF c.policy.kind = "lru" THEN <<NoGroup, Hash[Plain(k)]>>
    ELSE LET g == IF k[1] = NoGroup THEN Default ELSE k[1]
         IN  <<IF g \in c.policy.parts THEN g ELSE FirstPart(c.policy.parts), Hash[Plain(k)]>>

\* Of the entries that get the same key in a segment the last one stays; the order is any.
OneOfEach(S) == {X \in SUBSET S : \A i \in S : Cardinality({x \in X : x.key = i.key}) = 1}

RestoredShards(c, items) ==
    LET Given(s) == {[i EXCEPT !.key = Plain(@)] : i \in {x \in items : RestoreSeg(c, x.key) = s}}
        Lists(s) == UNION {SetToSeqs(X) : X \in OneOfEach(Given(s))}
    IN  {[c EXCEPT !.segs = [s \in DOMAIN @ |-> LastOnes(f[s], ShardCap[c.size])]] :
            f \in {g \in [DOMAIN c.segs -> UNION {Lists(s) : s \in DOMAIN c.segs}] :
                       \A s \in DOMAIN c.segs : g[s] \in Lists(s)}}

Restored(c, items) ==
    IF Tiny(c)
    THEN {RestoredTiny(c, q) : q \in {r \in SetToSeqs(items) :
             \A a, b \in DOMAIN r : a < b => r[a].exp <= r[b].exp}}
    ELSE RestoredShards(c, items)

Restart(c) ==
    /\ LET items == UNION {{[i EXCEPT !.key = ReportedKey(cur, s, i)] :
                               i \in {x \in ToSet(cur.segs[s]) : ~Expired(x, now)}} :
                                   s \in DOMAIN cur.segs}
       IN  \E r \in Restored(New(c.policy, c.size), items) :
              /\ cur' = [r EXCEPT !.window = c.window]
              /\ shadowed' = shadowed \cup Shadowed(r)
    /\ conf' = c /\ to' = c
    /\ phase' = "idle" /\ fresh' = NoCache /\ to_copy' = <<>> /\ start' = 0
    /\ UNCHANGED <<now, torn>>

CacheNext ==
    \/ \E d \in Domains : Get(d) \/ GetStale(d) \/ Put(d) \/ Delete(d)
    \/ \E k \in CacheKeys : Peek(k)
    \/ \E c \in Configs : Reload(c) \/ Restart(c)
    \/ CopyOne \/ Swap \/ SetWindow \/ StoreConf
    \/ Clear \/ Tick

CacheSpec == CacheInit /\ [][CacheNext]_cache_vars

-----------------------------------------------------------------------------
\* What a query finds is what was put for its domain last, and nothing that was deleted:
\* except for domains that changed while reload was copying, and for those that once had an
\* entry under a key no query uses (which a later change of policy may bring back).
ServedIsNewest ==
    \A d \in Domains \ (torn \cup shadowed) :
        LET k == <<NoGroup, d>> IN Has(cur, k) => Item(cur, k).newest

Items(c) == UNION {ToSet(c.segs[s]) : s \in DOMAIN c.segs}

\* Serve-stale (RFC 8767): a query never takes away an entry that the stored
\* configuration, and the one being loaded, would still serve.  The step between
\* the swap and the setting of the window is the only time when one does.
Usable(i) ==
    \A w \in {conf.window, to.window} : w > 0 /\ now - i.exp <= w

QueriesKeepUsable ==
    [][\A d \in Domains : (Get(d) \/ GetStale(d)) /\ ~(phase = "set" /\ cur.window = 0) =>
          \A i \in Items(cur) : Usable(i) => i \in Items(cur')]_cache_vars

\* The place an entry with key k needs in cache c is taken.
Full(c, k) ==
    IF Tiny(c) THEN Len(c.segs[Probation]) + Len(c.segs[Protected]) = MainCap(c)
               ELSE \E s \in Homes(c, k) : Len(c.segs[s]) = ShardCap[c.size]

\* A change of policy loses no live entry that a query could find while the new cache has
\* room for it, where it puts what is reported under its key; except for domains that
\* changed meanwhile, and for those with an entry no query finds.
SwapKeepsLive ==
    [][Swap => \A d \in Domains \ (torn \cup shadowed') :
          LET k == <<NoGroup, d>>
              Reported == ReportedKey(cur, Seg(cur, k), Item(cur, k))
          IN  Hit(cur, k, now) => Has(cur', k) \/ Full(cur', Reported)]_cache_vars
=============================================================================
