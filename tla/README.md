# ebpdns: TLA+ models and proofs

ebpdns is a caching DNS forwarder in Rust: it answers from a cache, asks several
upstreams in parallel when it has to, applies block and rewrite rules, and is
administered through an HTTP API and a web front end.  This directory holds TLA+
modules of the parts of it whose correctness depends on the order of events:
what several threads, a crash, a failed system call or a cancelled task do to
state that is meant to stay consistent.  TLC checks the modules on small
instances; TLAPS proves most of the safety properties for every size.

Paths below are relative to the repository root; `server/` stands for
`crates/ebpdns-server/src/`, `resolver/` for `crates/ebpdns-resolver/src/` and
`upstream/` for `crates/ebpdns-upstream/src/`.

## 1. The system

| Component | Code | State | Operations | Hard part | Module |
|---|---|---|---|---|---|
| Cache container | `crates/ebpdns-cache/src/{swap,lru,tinylfu,partitioned,ordered_map}.rs` | entries, recency, frequency, generation | put, get, get_stale, peek, delete, clear, resize, policy swap | two-step delete and journal, swap during traffic | `CachePolicy`, `CachePersist` |
| Cache journal | `crates/ebpdns-cache/src/persist/journal.rs` | bounded queue, next number, `needs_resync` | send, recv, drain, request_snapshot | overflow, numbers issued before they are queued | `CachePersist` |
| Persistence actor | `crates/ebpdns/src/cache_persist.rs` | active segment, durable number, snapshot in flight | batch, append, fsync, rotate, snapshot, manifest, shutdown | a crash between any two file operations, failures in the middle | `CachePersist`, `CacheLog` |
| Recovery | `crates/ebpdns-cache/src/persist/{recover,wal,snapshot,manifest}.rs` | none | recover_v2 | torn tails, gaps, reuse of numbers | `CachePersist`, `CacheLog` |
| State directory | `server/state_store.rs`, `crates/ebpdns/src/main_state.rs` | commit.json, live parts, history | commit, load, rollback, prune, reanchor | a crash inside a commit or a rollback | `StateStore` |
| Configuration writers | `server/{api,api_state,rules_admin,subscribe}.rs` | the configuration in memory, `state_txn` | put_config, upstreams, reprobe, rules, subscriptions, reload | readings that are out of date when they are written | `ConfigWriters` |
| Rules from disk to answers | `server/{rules_admin,subscribe}.rs`, `resolver/{lib,resolve,rfc8020}.rs` | rule index, generation, cached answers, missing names | rebuild, resolve, put_negative, register | results that outlive the rules they were decided by | `RuleGeneration` |
| Upstream queries, breaker | `resolver/{resolve,production,breaker}.rs` | votes; failures and window per upstream | choose, waves, hedge, quorum, fail, ok | late results, breakers that change between two looks | `Fanout` |
| Single-flight | `resolver/singleflight.rs` | table, entry, reference count | run_tagged | cancellation, a count taken outside the lock | `SingleFlight` |
| Connection pool | `upstream/{pool,dot,doh}.rs` | permits, idle queues, `idle_total` | acquire, release, trim, reclaim, discard | a counter that follows queues under other locks | `ConnPool`, `ConnUse` |
| QUIC manager | `upstream/quic.rs` | connection, endpoint, streams, backoff, tasks | query, do_connect, exchange | late failures, cancellation, reconnects in a queue | `QuicManager` |
| DNS server | `server/dns.rs`, `crates/ebpdns/src/main.rs` | sockets, loops, stop signals, tasks | start, rebind, stop | lost signals, joins that time out, binds that fail | `DnsServer` |
| Transports, wire format, rule matching, telemetry, security, static files, web, packaging, tools | | | | no protocol of their own | not modelled |

How they interact.  A query takes the cache first; on a miss it is matched with the
rules, goes through single-flight to a fetch, which asks upstreams in waves
through the pool or the QUIC manager, feeds the breakers, and fills the cache
through `SwappableCache`, which numbers the change and offers it to the journal.
The persistence actor is the only reader of the journal and the only writer of
the cache directory.  The API handlers change the configuration: they commit
parts to the state directory, put the result in memory and start a rebuild of
the rule index, which raises the rule generation and so makes cached answers
void.  A change of the listen addresses goes to a task that rebinds the sockets.

The modules are cut along these interfaces.  What one assumes of another is stated
where it is used: `ConfigWriters` takes a commit as one step, which is what
`StateStore` is about; `RuleGeneration` takes the commit and the lock as one
step of `Change`, which is what `ConfigWriters` is about; `Fanout` follows the
leader of a `SingleFlight`; the exchange of an upstream in `Fanout` is a query of
`ConnPool` or `QuicManager`.

What makes each part correct:

* persistence: after a crash the cache comes back sound, complete for what was
  synced, with nothing in it that had been evicted, cleared or replaced; every
  change is eventually in a snapshot; an orderly shutdown saves everything;
* cache: what is found is what was put last, what serve-stale may need is kept, and a
  new policy keeps what it has room for;
* state directory: required parts change together whatever is killed; there is
  always a generation to fall back to; what is served is one generation;
* writers: what a call has reported is true of disk and memory, also when a
  commit, an index or a rollback fails;
* rules: the index is that of the disk when nobody works on it; no answer and no
  missing name outlives the rules it was decided by;
* upstreams: nobody is asked twice, a name is missing only by a quorum, a failure
  is admitted last, an open breaker has been earned;
* single-flight: counts are exact, no entry stays behind, a key is fetched once at
  a time, every call returns;
* connections: a connection has one user, limits hold, slots come back, streams and
  endpoint live as long as the connection, no task outlives its query;
* DNS server: kept addresses stay served, no socket is lost, a change and a shutdown
  end, a loop that was told to stop hears it.

`PROJECT.json` lists the hazards with their lines ("hazards") and, for each, the
properties that cover it, or why none does.

## 2. Modules

| Module | Models | Proved in |
|---|---|---|
| `CacheLog` | events, `coalesce`, `wal_keep_from`, replay (operators only) | `CachePersist_proofs` |
| `CachePersist` | data plane, journal, actor, snapshot thread, disk, crash, recovery | `CachePersist_proofs` |
| `CachePolicy` | the three policies, serve-stale, and the change of policy, size and window in use | `Resolver_proofs` |
| `StateStore` | commit, startup, rollback, edits, kills, power loss | `StateStore_proofs` |
| `ConfigWriters` | configuration in memory and on disk, `state_txn`, the calls that change them | `ConfigWriters_proofs` |
| `RuleGeneration` | rebuild of the index, generation, cached answers and missing names | `RuleGeneration_proofs` |
| `Fanout` | choice of upstreams, waves, votes, verdict, breakers | `Resolver_proofs` |
| `SingleFlight` | `run_tagged`, `RefGuard::drop` | `Resolver_proofs` |
| `ConnUse` | abstract: connections that callers open, use, keep and close | |
| `ConnPool` | pool of TLS connections; refines `ConnUse` | `ConnPool_proofs` |
| `QuicManager` | one QUIC connection shared by queries | `QuicManager_proofs` |
| `DnsServer` | sockets, receive loops, stop signals, rebind, shutdown | `DnsServer_proofs` |
| `MCCachePersist`, `MCCachePolicy`, `MCConfigWriters`, `MCConnPool`, `MCRuleGeneration`, `MCDnsServer` | symmetry and the values of set-valued constants | |

### CacheLog and CachePersist

Every journal event has a unique number, so events are named by their numbers:
`log[s]` says what event `s` is, a cache entry is named by the number of its put,
and a snapshot is a function from keys to numbers.  The queue, a batch and a
segment are sequences of numbers.  Encoding, checksums and TTLs are abstracted:
a segment is a list of records of which a prefix (`dur`) survives a crash for
certain and the rest may survive up to any point, possibly with half a record at
the end (`torn`).

The data plane (`PutWithRoom`, `PutEvicting`, `DeleteMemory`, `DeleteLog`,
`Clear`, `Migrate`, `HotSwap`) follows `SwappableCache`.  A put, with the eviction it
causes, is one step: it changes the shard and takes its numbers under the same
lock.  An explicit delete is two steps, memory then journal, because it has only
the shared side of `mutation_barrier`; a clear and a swap hold it alone.  A change
of policy copies the entries one by one into a new container (`Migrate`, `fresh`),
outside the barrier, while the data plane goes on; the swap (`HotSwap`) then replaces
the content by any part of what was copied that fits.  Nothing of that is journaled:
neither what the new container had no room for, nor what was put, deleted or evicted
during the copying and is now lost or back.  `undone[k]` is a history variable, the last
number issued when a swap changed the entry of `k`; what the journal said of `k` up to
then need not be true of memory any more.  A swap also makes a snapshot in flight one of
an older generation, which is all that the generation counter is for: it is the flag
`snapper.current`.

The actor is one thread; `pc` is where it is in `actor_main`, and one action is
the code up to the next durable change that a restart can see.  A file that the
manifest does not name is never read, so writing a file and naming it is one
step.  `phase` says on whose behalf a step that several callers share (drain,
append, start of a snapshot) is made.  `FailPoints` names the system calls that
may fail in a run.  `Crash` may come between any two steps; `Restart`,
`RestartAfterGap` and `RestartEmpty` follow `startup` and `recover_v2`.  An entry for
which a restart has no room is a "surplus" put from then on: its record may still be on
disk and may come back at the next restart, but nobody counts on it any more.

### CachePolicy

A cache is a record with its policy, size, window and segments, so that the cache
in use and the one `reload` fills (`cur`, `fresh`) go through the same operators
(`PutIn`, `GetIn`, ...).  A segment is a sequence of entries; the arena below it
(ordered_map.rs) is taken for granted.  `Reload`, `CopyOne`, `Swap`, `SetWindow`
and `StoreConf` are the steps of `Resolver::reload`, between which queries run.  A
comparison of two frequencies of the count-min sketch may go either way, and the
purge of every 32nd put or miss may come with any.  Keys have their group, which
is what goes wrong when partitions are left (section 4).

The three loops of W-TinyLFU's `evict_locked` are not run turn by turn: `Admit` and
`Demote` say what they leave, in terms of how many entries are over.  Of those that
leave the window the first `a` fit into probation and the next into protected; of the
others any subset wins the comparison with the head of probation, and the last
`Len(pb) + a` of the resulting list stay.  Purges are described the same way:
W-TinyLFU drops the expired run at the head of each list (`TrimFront`), a sweep after a
miss at most four, and LRU, which samples a shard from a cursor, any part of what is
past in it (`Purged`).

### StateStore

The contents of a file are a number that grows with every write.  A generation
(`commit.json`) lists parts with their contents, which stand for the digests.
The parts are `config` (config.json), `rules` (rules.json) and `sub`
(rules_sub.json); the first two are required by `is_required_part`.
`SubInStateDir` says where rules_sub.json lies: beside config.json in the shipped
layout, which the run uses; in the other one, which only the proofs cover, a rollback
may delete it, which `CrashIsAtomic` excepts.  A commit copies the current generation to history
(`CopyPart`, `CopyRecord`), replaces commit.json (`Point`), renames the parts
(`RenamePart`) and prunes (`Prune`).  Startup verifies and, if it has to,
restores part after part (`RestorePart`, `RestoreClean`, `RestorePoint`).
`Kill` may come anywhere, also in a startup.  `PowerLoss` also damages copies
that `fs::copy` has not synced.  `job.all` and `point.all` are history
variables: what every part was to hold with that generation.

### ConfigWriters

The configuration is in memory (`mem` and `memRules`, which are `state.cfg`) and on
disk (`file`, `rules`, `revision`).  `memRules` is the `rules` key of `state.cfg`, a
copy of rules.json that may be missing: config.json has no such key.  A list is the set of the calls whose additions it holds,
and `scalars` stands for all other keys; this is all that is needed to see an
update lost or a failed one left behind.  A call is a task with a `pc`; its
stages are the code between two awaits.  What differs between the calls is when
they read and what lock they hold:

* rules, subscriptions and the updater (`AddRule`, `DeleteRule`, `Subscribe`,
  `Unsubscribe`, `Refresh`) hold `state_txn` from the reading to the end;
* `put_config`, the upstreams and reprobe (`Put`, `Upstream`, `Probe`) read
  first, hold the lock for the commit (`PutCommit`, `CommitUpstreams`) and change
  the memory after it is released (`Apply`, `Undo`);
* `touch_last_checked` commits without the lock; it is cut where the commit has
  read rules.json and has not written it yet (`TouchRules`, `TouchCommit`);
* `reload` replaces the memory by what it read of the file.

Memory's copy of the rules is written in two ways.  A call about rules replaces it alone
(`ApplyRulesLive`), before its commit and again in a rollback; a call that installs a
whole configuration puts back the copy it has `carried` since its reading
(`InstallRules`).  A put decides from that copy, before it has the lock, whether the
rules it submits have to be written (`rules_changed`).

A commit fails without effect (what an interrupted one leaves is the subject of
`StateStore`), an index may fail to build (`RuleFails`, `SubApply`), and the
commit of a rollback may fail too (`RestoreFails`).  History variables name the
races the code has, so that the properties can except them and nothing else:
`stale` is the set of calls whose reading memory and disk have left behind,
`overtaken` says that one of these has written, `lagging` that memory was not
the disk when a call read it, `reverted` that the commit outside the lock has
taken rules back.  `staleRules` and `outdated` are the same for memory's copy of the
rules, and `misjudged` says that a put has left its list unwritten by a reading out of
date.  `told` is the list of rules that follows from what the calls were told, one after
the other; `gone` holds what other calls were asked to remove.

Abstractions: `update_rule` has the shape of an addition with a removal and `update`
of a subscription whose contents have changed that of `Subscribe`; the contents of subscriptions and the note
when they were looked at are not told apart; a put that submits rules submits new ones,
those on disk or those in memory; other commits that overlap the one of touch are not
cut at its finer grain; every call is made once.

### RuleGeneration

Rule sets are numbered as they are committed; what a rule set says is its `text`, which
may come again, and stands for its fingerprint.  `Change` (a rule, a subscription) holds
the lock from the commit to the end of the rebuild, `Put` for the commit; a rebuild may
also start at any time with no commit, as `on_reload` does.  A rebuild reads the rules
(`Read`) or, if they are what the last build was made from, leaves the index as it is
(`Skip`, `rule_src_fp`).  It may fail (`Fail`): the old index stays, and a rule call
takes its change back once, with a commit that may fail as well and a second rebuild.
Otherwise it forgets what the last build was made from (`Forget`), replaces the index
(`Publish`) and then the generation (`Swap`), and notes what it was made from (`Stamp`).
Other rebuilds may come between any two of these steps.

A query reads the generation when it comes in (`Enter`), looks at the cache (`Hit`,
`Miss`) and at the missing names (`Infer`), matches the index and fetches or waits for
the fetch of another (`Match`, `Fetched`, `Cancel`, `CancelLeader`), passes the gates of
`fill_cache` and `put_negative` (`Gate`, `PutAnswer`) and registers a missing name
(`Register`).  An entry has the generation it is stamped with and the rules it was decided
by.  The latter are `Astray` in three cases: the fetch was that of a query of another
generation; the name was registered after the generation had changed; or the generation
has been another in the meantime and has come back, since generations are fingerprints.
`failed` is the newest rule set of which a rebuild failed, with none as new since, and
`overtaken` says that a rebuild replaced, or is noted over, the outcome of a newer one.

Abstractions: the sources (rules.json, rules_sub.json, the list of subscriptions, which
is read from memory a little later) are one rule set, read in one step; two sets of the
same text have the same source bytes; a `Change` whose commit fails is one that commits
the text there was; the two rebuilds that end a put with new rules are one `Put` and a
rebuild by another editor.

### Fanout

One fetch after another is followed, with breakers that other fetches, probes and a
reset change at any time (`Other`, `Expire`, `Reset`).  `Choose` splits the
upstreams into two waves; `Primary`, `Backup`, `Extra` start one (the breakers
are looked at again); `Hedge` and the answers launch more in an adaptive wave;
the wave ends with a complete answer, a quorum or nobody left; the verdict counts
the votes of all waves and feeds the breakers once for each caller that shares
the fetch.  The order of upstreams by latency is free.

### SingleFlight

One action per indivisible step of a call: lookup under the lock of the table,
the increment, the `OnceCell`, the decrement, the removal.  `Cancel` drops the
future at its await.  Memory may be reused as soon as no pointer refers to it
(`Free`), so an entry's address may come back, as `Arc::ptr_eq` may see it.

### ConnPool and ConnUse

An action is what a call does between two locks or two awaits of `acquire`,
`release`, `trim_idle`, `reclaim_idle` and `discard`, with `dot_query` and
`doh_query` as callers that may run out of time or be cancelled anywhere.
A queue is ordered by last use, so it is a set of which the members in `aged`
are the oldest.  `ConnUse` promises that a connection is used by one caller at a
time for the entry it was opened for and never after it was closed;
`ImplementsConnUse` is the refinement with `at` (the entry a caller holds a
connection of) as the mapping.

### QuicManager

The stored connection, the handles of its critical streams, the endpoint and the
time of the failure have a lock each; `mark_failed` and the end of a reconnect
change them one after the other.  `connect_lock` is fair, so its queue is a
sequence.  An exchange is a task that its query registers, waits for and aborts
when it goes away.  A DoQ upstream differs in having no critical streams.

### DnsServer

One loop per socket with its own stop signal besides the global one; the handler
starts, rebinds (bind, request, join with a timeout, forget) and shuts down.  A
stop signal is a flag and a notification that reaches only those who wait
already, so a loop's steps are cut where it has read a flag and has not begun to
wait (`unarmed`, `armed`).  `Overlaps` holds the wildcard addresses of a port
that exclude each other, `Foreign` those another process may hold.

## 3. Properties and runs

The comment before each property says which behaviour of the code it is about.

| Run | Instance | States | Shows |
|---|---|---|---|
| `cache_compaction` | 2 keys, room for 1, queue 2, batch 2, 3 segments, `MaxSeq` 4, 1 failure (opening included), 1 crash, 1 policy swap | 4.2 M | `ManifestSound`, `DurableRecoverable`, `MemoryNotStale` |
| `cache_log` | 1 key, queue 1, batch 2, 4 segments, `MaxSeq` 3, 1 failure of anything but opening, 1 crash, 1 policy swap, shutdown | 667 k | `SegmentRanges`, `NumbersFresh`, `ShutdownComplete`, `EventuallySnapshotted` |
| `cache_reload` | tinylfu of 3 and 4 entries, lru, partitions; serve-stale on and off; 2 domains, 1 tick | 139 k | `ServedIsNewest`, `SwapKeepsLive`, `QueriesKeepUsable` |
| `state_store` | 5 contents, 2 ends of the process (1 power loss), 1 failure, 1 edit | | `CrashIsAtomic`, `AlwaysAvailable`, `ServedIsWhole` |
| `config_writers` | 3 calls of any kind, 3 bodies of a put | 2.0 M | `RulesAsReported`, `ConfigAsReported`, `InStep`, `GuardedPutLosesNothing` |
| `rules` | 2 editors, 2 queries, 2 changes, 2 texts | 4.2 M | `IndexCurrentInOrder`, `AnswersCurrent`, `NamesCurrent` |
| `fanout` | 3 upstreams, waves of 2, quorum 2, breakers of 2 failures, 2 callers | 840 k | `OpenEarned`, `VerdictsEarned`, `NoneAskedTwice`, `FetchEnds` |
| `singleflight` | 3 callers of 1 key, 3 entries | | `RefsExact`, `NoOrphan`, `SingleRunnerUncancelled`, `EveryCallReturns` |
| `conn_pool` | 3 callers, 2 keys, 3 entries, 3 connections, limits of 2 | 460 k | `IdleAccounted`, `ConnectionsBounded`, `SlotsAccounted`, `ImplementsConnUse` |
| `quic` | 3 queries, 2 connections | 164 k | `StreamsFollowConnection`, `EndpointAlive`, `NoTaskLeft`, `QueryReturns` |
| `dns_rebind` | UDP over IPv4 and IPv6, TCP; 1 change, 3 loops, 1 slot | 739 k | `KeptServed`, `SocketsAccounted`, `HandlerReturns`, `StopHeard` |
| `dns_bare` | TCP moves between wildcards, 2 UDP workers | | finding: `NeverBare` fails |

Why the bounds are enough.  Every bound is a constant and stands in the guard of
the action that counts it.

* Persistence: number 1 is taken before the first event, so `MaxSeq` 4 is three
  events: one that leads to the initial snapshot, one that meets it, one after.
  A queue of 1 (`cache_log`) overflows in the middle of a batch.  Three
  segments reach the limit, four let a snapshot keep some and drop others.  Two
  keys tell a key that is touched from one that is not, and one slot makes each put
  evict the other.  One policy swap (`MaxSwaps`) may fall into a snapshot, between
  two, or between a failure and its retry; `cache_compaction` was also run with two (10.7 M
  states).  `cache_log` was also run with
  two failures in a row and neither swap nor shutdown; the theorems hold for any number.
  `cache_log` has no failure to open the last segment, which may end all snapshots (section 4);
  `cache_compaction` has it.  A failed sync or append, and a first manifest that
  cannot be written, are in `cache_log` only: what `DurableRecoverable` promises
  does not hold after them (section 4).
* Cache: segments and shards hold one entry, so that two domains compete; the size
  of 4 gives the protected segment a second place and shrinks to 3.  The partitions
  have no "default", which is where the fallbacks of `resolve_group` and
  `restore_records` differ.  The same checks were also run with two sets of
  partitions, both windows for each of four policies and one size (760 k states),
  without an error.
* State directory: five contents give three generations above the first, so that
  pruning happens; two ends of the process let one fall into a rollback that the
  other caused.
* Writers: two calls race and a third is what one of them loses; each call may
  be of any kind.  Three bodies are a put of other keys, one with rules and one of
  the lists that other calls change.
* Rules: with two changes and two texts the old rules may come back after the new ones,
  and each editor has a rebuild, which may fail, be skipped or overtake the other; two
  queries are a leader with its follower, or one that finds what the other has stored.
  A state in which a rebuild has overtaken another is checked and not gone beyond, nor is
  one with an entry in both tables (`Explored` in `MCRuleGeneration`): nothing is claimed
  after the former, and entries of different tables do not depend on each other, and
  either may expire at any time.
* Fan-out: three upstreams make a wave of two, a wave of the one that is left,
  and a quorum that two of the three form.
* Single-flight: a leader, a follower and a latecomer; a fourth call would repeat
  one of these roles.
* Pool: two keys make the shared counter matter; with limits of 2 a third caller
  waits, and `MAX_TOTAL_IDLE` is reached with both keys.  Two trims and a sweep
  overlap.
* QUIC: the query that fails late, the one that reconnects and the one that waits
  behind it; a connection that is lost and its successor (connections are named
  again when nothing refers to them).
* Sockets: kept, new and dropped addresses, with startup, a change and a shutdown.
  The same checks were also run with three plans and two changes (2.1 M states) and
  with two workers, no slots and five loops (15.4 M states), without an error.

Symmetry is used in runs without liveness properties only (in `conn_pool`
`ImplementsConnUse` is a safety property: the abstract specification has no
fairness).  Deadlock is not checked where the system stops: after a shutdown in
`cache_log` and the runs of `DnsServer`, when each call has been made in
`config_writers`, and in `cache_compaction` and the state directory once the bounds are
used up.

Fairness.  `CachePersist!FairSpec`: the actor thread and the snapshot thread keep
running (weak fairness); a message that a thread has sent is eventually received
although each wait may time out first, and the time threshold of
`should_compact` is eventually noticed (strong fairness, since both are only
enabled at certain points of the loop).  `SingleFlight!FairSpec`: tokio polls a
task that can go on, a fetch ends by its own timeouts, and `OnceCell` hands its
permit to waiters in order (strong fairness of `Start`, since the permit may be
taken by others in between).  `QuicManager!Fairness`, `Fanout!FairFetchSpec`,
`DnsServer!FairSpec`: a task that can go on is polled, and every exchange,
handshake and join has a time limit whose timer fires.  No fairness is assumed of
clients, peers, traffic, failures or crashes.  `EventuallySnapshotted` assumes
that the policy is not swapped for ever while snapshots are being written: each
swap discards the one in flight.

What the properties except.  Some promises of comments fail in one narrow case.
The model then marks the case with a history variable, and the property excepts
exactly what is marked: `late` deletes of the cache (section 4), `cancelled`
calls of single-flight, keys that a policy swap has `undone`, `torn` and `shadowed`
domains of the cache policies, `overtaken`, `outdated`, `misjudged`, `lagging` and
`reverted` of the writers, `overtaken`, `failed` and `Astray` of the rules, `robbed`
connections, `missed` stop signals.

## 4. Disagreements between the code and its comments

With a run of its own:

* **never bare** (`dns_bare`).  When `listen.tcp` moves from `0.0.0.0` to
  the dual-stack `[::]` alone, the new socket clashes with the server's own on the
  same port; `rebind` skips it ("degraded to IPv4 only"), closes the old one, which
  the new list does not name, and returns Ok with no TCP listener.  dns.rs:570-571
  and main.rs:756-757 promise that after a failure the old listeners are kept.

Met while modelling, and modelled unless stated otherwise, without a run of
their own.

Cache:

* `reload` copies entries under the keys that the old cache reports.  Partitions
  report them with their group, tinylfu and lru store them so, and queries look
  without it (lib.rs:1893): after a change from partitioned no copied entry is ever
  hit.  They stay until they expire or are evicted, and a later change back to
  partitions may put one over a newer answer (`shadowed`).  lib.rs:2218 and
  README.md:163 promise that the same keys hit.
* `peek` removes what has expired, also within the serve-stale window (tinylfu.rs:516,
  lru.rs:179), against its own documentation (cache lib.rs:67, tinylfu.rs:499,
  api.rs:1429).  An open dashboard takes away what serve-stale would answer with.
* After a change to a smaller size what is over in protected goes to the head of
  probation and is dropped first, however often it was hit (tinylfu.rs:347);
  lib.rs:2271 says that TinyLFU drops what is used least.
* From 47 to 48 entries the least segment becomes 16 instead of 1, and probation and
  protected shrink (tinylfu.rs:199); lib.rs:2270 and README.md:162 say that growth
  loses not a single entry.  Shares under 16 are raised to 16 by the LRU cache of the
  partition: with `cache_size` 16 three partitions hold 48 (README.md:162,
  partitioned.rs:99).  The division of the size is not modelled.
* Since queries never name a group, all entries are in the partition "default"; the
  others, 40 % of the size by default, stay empty, although partitioned.rs:6 speaks
  of pools isolated by group.
* Between the swap and `set_stale_window` (lib.rs:2244-2248) the new cache has no
  window, and a query deletes an expired entry it meets (the exception of
  `QueriesKeepUsable`).
* A put or delete that comes while entries are being copied is undone by the swap
  (`torn`), although swap.rs:90-92 says that the write guard covers "migration puts
  and swap": the copying of `reload` (lib.rs:2231-2242) is outside it.
* The same swap makes memory and journal differ (`undone`), since what it drops or brings
  back has no event.  An entry whose EVICT or DELETE is in the log is served again, and a
  later snapshot saves it as it is in memory; an entry whose put was synced is lost with
  the next snapshot; and a shutdown after which no newer event came does not write
  another snapshot, so that a restart recovers what memory had lost.

Persistence:

* swap.rs:11-14 says that the order of the numbers is the order of the changes in
  memory.  `delete` and `put` share the barrier, so an EVICT may be logged after
  a put that overtook it; a restart then lacks the entry (marked "late").
* cache_persist.rs:1841: a request for a snapshot is refused while one is in
  flight and not put back; a dropped event stays unsaved until the time
  threshold of `should_compact`.
* cache_persist.rs:1374: after a failed append with a snapshot in flight the
  manifest of that snapshot names only the newest segment; records synced in
  between are no longer named.
* cache_persist.rs:2006: with a last segment that cannot be opened and the list
  full, the second manifest would name no segment and is refused, for ever.
* After a gap in a segment that is not the last, recovery keeps the segments
  before it and drops later ones, synced or not.
* When the first manifest cannot be written the new segment stays active although
  nothing names it (cache_persist.rs:1652-1671): what is synced to it is lost by a crash.
* When the initial snapshot fails it is retried at the next event, not at the
  next tick.

State directory:

* state_store.rs:354: a first commit with rules_sub.json that is killed after
  config.json was renamed is accepted, with the new configuration and no
  subscriptions.
* state_store.rs:465: a rollback deletes rules_sub.json only in the state
  directory, where the shipped layout does not put it; in a layout with
  rules_sub.json there, a rollback to a commit of config.json alone deletes
  subscriptions that an earlier commit had stored.
* An operation that fails after commit.json was replaced is reported as "not
  committed, the previous generation is intact" (state_store.rs:1224-1232).
* `fs::copy` into history is not synced: after a power loss a rollback may find
  no intact generation (`Torn`), or an older one.  The first commit ever, killed
  after commit.json was written, is `Torn` as well.
* `reanchor_commit_after_external_write` accepts whatever is on the disk.

Writers:

* state_store.rs:1000-1003 says that with `PUT /api/config` all three faces read,
  compute and commit in one critical section, and api_state.rs:141-143 that the
  lock serialises the upstreams.  `put_config` (api.rs:649-656), `commit_upstreams`
  and reprobe read before they lock: an acknowledged rule subscription, put or
  upstream may be written over.
* Between the commit of a put and its write to memory (api.rs:727, the lock is
  released) a rule call commits the configuration that is still in memory, and
  takes the put back on disk, which the comment F08 (rules_admin.rs:1423-1426)
  means to exclude.  With `if_revision` (api_state.rs:17-22) the same reading
  passes the comparison (`lagging`).
* `touch_last_checked` (subscribe.rs:2230-2252) commits without `state_txn`, which
  state_store.rs:989-995 calls the only point of serialisation.  The commit writes
  back the rules.json it has read (state_store.rs:636), so that an acknowledged
  rule may be lost against rules_admin.rs:1416 "of 50 rounds at once no update is
  lost".
* When a commit of upstreams or latencies fails, memory becomes what it was when the
  call came in, changes of other calls included.  Latencies are in memory before
  they are committed, where another call may commit them.
* A subscription whose index cannot be built is reported as failed and stays.
* api.rs:647-653: a put whose `rules` are those of memory does not write them, and is
  acknowledged.  Memory's copy may be another than the disk: at a start it is missing or
  `[]` (main.rs:1588), a rule call may have replaced rules.json meanwhile, and a call
  that installs a whole configuration (api.rs:727, 2047, 4587, subscribe.rs:2249) may have
  put an old copy back.  Then an acknowledged list is not stored (`misjudged`).
* `config_rules_view` (rules_admin.rs:1267-1300) says that `GET /api/config` and
  `GET /api/rules` cannot disagree; with the `[]` of a start, or with an old copy
  (`outdated`), they do.

Rules:

* main.rs:961 says that the hook is called with the lock held; `put_config`
  (api.rs:724-739), `commit_upstreams`, reprobe and reload call it after the lock
  is released, so that rebuilds may overtake each other.
* A rebuild that fails leaves the old index in force and the change on disk
  (`failed`): api.rs:731 logs it, a subscription is reported as failed and stays, and a
  rule call whose second commit fails as well keeps its change.
* subscribe.rs:1787-1788 says that the index and what it is noted to be made from always
  agree.
  The note is written after the index (subscribe.rs:1789) with no lock over the two, so
  that of two rebuilds the older may note its own over the newer one's index, and a later
  rebuild of those rules is skipped (counted as `overtaken`).
* Generations are fingerprints, so rules that come back make old entries valid again, and
  an answer decided in between passes the gate (`Astray`).
* `rfc8020_register` (resolve.rs:1594) stamps the generation of the moment and runs
  even when `put_negative` has dropped the answer, contrary to rfc8020.rs:36.
* A follower of a newer generation takes the answer of a leader of an older one
  and stamps it with its own (`Astray`).
* Not modelled: the sub-chain of a prefetched CNAME writes negative
  answers although prefetches are said not to; `rebuild_rules` (tests only) swaps
  the generation before the index.

Upstreams:

* production.rs:830-832 ends a wave at a quorum of one kind, but `is_negative`
  (962-964) counts NXDOMAIN and NODATA alike.
* At most four upstreams are asked before SERVFAIL by an adaptive fetch with fast
  failures, although resolve.rs:212 and 249 say all that are enabled;
  `fallback = false` still makes up to two extra waves (resolve.rs:224, 666).
* `finish_resolve` feeds the breakers once for every caller that shares a fetch
  (resolve.rs:1453), so that one failure may open a breaker.
* A caller of single-flight that has looked the entry up but not counted itself does
  not keep it in the table: after a cancellation a key may be fetched twice at a
  time (singleflight.rs:144).
* quic.rs: the reconnect after a failed exchange that the comment near line 220
  announces never happens, since `mark_failed` starts the backoff; a late failure
  over an older connection drops the streams of the new one (`robbed`); those who
  wait for the lock do not look at the backoff again; `close`, `ConnPool::discard`
  and `UpstreamRuntime::discard` have no caller.
* runtime.rs:116-127: the comment on lowering the cap of the semaphore; not
  modelled.

DNS server:

* dns.rs:103: `Stop::wait` looks at the flag and then creates its future; a request
  in between is lost, although dns.rs:80-82 says that there is no such window.  An
  idle loop then outlives the join and its socket stays bound (`missed`).
* dns.rs:2390: queries in flight are aborted at once, although the comment promises
  two seconds.
* A loop that ends after 20 errors in a row stays in `udp_bound` and nobody watches
  its handle (`broken`).  With more than one worker an IPv6 address that cannot be
  bound makes the change fail instead of degrading it.  A change from `[::]` to
  `0.0.0.0` and `[::]` can never bind.

## 5. Proofs

Each proof is about the specification that TLC checks, for all values of the
constants that its named assumptions allow.  None of the properties is inductive
alone; `IInv` is the strengthening, checked by TLC before it was proved, with one
lemma per action that are collected in a step lemma, and `Spec => []IInv` by
temporal reasoning from it.

`CachePersist_proofs`.  First two results about the operators of `CacheLog`.
`CoalescingIsInvisible`: replaying what `coalesce` keeps of a batch has the same
result for every key as replaying the whole batch.  `RotationKeepsRecords`: given
that each record is below the base of later segments, which is what
`SegmentRanges` checks, `wal_keep_from` keeps each segment with a record above the
snapshot.
Then the state machine, with any failures and any number of crashes; no property is
inductive without the others.  `Control`: what the place of the actor says of the
manifest, the active segment (the last one named, if any) and the snapshot thread,
and that a process that is down remembers nothing.  `Issued`: no number in memory,
the queue, a batch or a record is above the counter; that recovery keeps it so is
`NumbersFresh`.  `Segments` (`Ordered`): the segments of the manifest exist, in
order, each with records below the bases of those after it, which is
`SegmentRanges` and half of `ManifestSound`.  `Snapshots` (`Sound`): a snapshot just
written, or named, has nothing newer than its number, and nothing (`NotStale`) that
an event up to it had evicted, cleared or replaced; so what recovery replays over
it is not stale either (`MemoryNotStale`).  `Swapped`: what a reload has copied, and every event a swap may have
undone, was issued.  A swap changes entries without an event, so `NotStale` and the parts
below that relate memory to the journal leave out the events of a key up to `undone`,
and from the next event on hold again.
For `DurableRecoverable` a second invariant, `DInv`, says where on disk everything
promised is.  `Logged`: an acknowledged event is covered by the snapshot of the
manifest or, for each key it is about, it or a later event about the key is a synced
record of a named segment; `Pending` says the same of a batch appended and not yet
synced.  `Sealed`: every segment but the last is synced to its end and none is torn
outside a recovery, so that a crash cuts only the last.  `Held`: what was put last, and
not evicted, deleted or cleared since, is in memory; `Complete`: so it is in a snapshot
that includes its number, and `Covered`: while such a snapshot is on its way to the
manifest, what is above its number is only in the active segment, the one that stays
named.  `Numbered`, `Begun` and `Placed` rule out states that do not occur, for instance
a promise before the first manifest.
`AcknowledgedSurvives` assumes what the run `cache_compaction` does: appends, syncs and
the first manifest do not fail, for after such a failure the code itself gives up the
promise (section 4).  Everything else may fail, and crashes may come between any steps,
any number of times.
For `ShutdownComplete` a third one, `SInv`; the theorem `ShutdownSavesAll` restricts no
failure.  `Staged`: which steps belong to which stage of the shutdown, and that the
number it has to save (`exitSeq`) was issued.  `Fresh`: a snapshot whose number nothing
issued since exceeds is the cache itself.  `Closing`: at the last snapshot of an
undisturbed shutdown none is in flight, or the one in flight was started for that
number, is current and is not given up; once it is over, the manifest covers the number.
`Unfailed` and `Untouched` are about a process that has met no failure: with a manifest
it has an active segment, and without one either nothing happened or the events are
still in the queue, so that the initial compaction is to come.

`Resolver_proofs`, `SingleFlight`.  `IInv` adds how pointers relate to the table: a call is
idle exactly when it holds no pointer; calls that point to an entry of the table
asked for its key; a running call holds the permit of an entry whose value is
missing; and, as long as nothing was cancelled, a call that leaves has its value
and an entry without one is listed.  `RefsExact` is needed for `NoOrphan`: the
call that brings the count to zero is the last holder, and it goes on to remove
the entry.
`Fanout`, in the same module, for every finite set of upstreams and all limits.
`FetchInv` adds to `OpenEarned` an account of the upstreams.  `Planned`: between waves
nobody is in flight, and the first two waves have nobody in common.  `Accounted`: who
was asked has voted, is in flight, or was aborted by votes that already decide; so those
who have not voted when more votes are needed were never asked, which is what keeps
the later waves from asking them again.  `Decided`: the waves end only when there is no
reason or no way to ask more, and a verdict has its evidence.
`CachePolicy`, in the same module, for every set of domains, partitions, shards,
capacities and configurations.  The proof is in three layers.  First what the
operators on lists do (`OnlyIs`, `SubSeqIs`, `LastOnesIs` and so on).  Then what an
operation does to any cache: nothing but a put adds an entry, and what is left is
where it was or, in W-TinyLFU, in another segment (`Rest`).  Last the reload.
`CacheInv` has four parts.  `InEffect` says which configuration the two caches have at
each step.  `InUse`: the cache in use is `Sound`, that is, each entry is where the key
reported for it is looked up (`Placed`), and no two entries there have the same key
(`Alone`, in W-TinyLFU across its three segments, which is why `delete` and `put` have
to search them all); what no query finds is counted in `shadowed`; and the entries of
all other domains are the newest.  `Filling`: so is the cache being filled, which also
fits its capacities and holds only what was live when the copying began; and
(`Carried`) each live entry of the old cache is still to be copied, is in the new one,
or the new one is full where it would go.  `ServedIsNewest` is not inductive without
`Alone`: an older entry in another segment would be found once the newer one is
evicted.  `SwapKeepsLive` needs `Fits`, `AllLive` and the fact that an eviction takes
nothing unless a segment is full and leaves it full; for that, nothing copied may ever
be purged, and nothing is, since copying compares with the time it started at.  The
proof found that the property had been stated too strongly: it named the place where a
query looks, but partitions are copied to a partition of the same name, which may be
full when the one for queries is not.  With the configurations "domestic alone, size 2"
and "default and domestic" TLC has a counterexample.  `Full` is now asked for the key
that the old cache reports.

`StateStore_proofs`.  `WholeGenerations`: a generation lists each required part it
was to hold; this is what `auto_rules_part` is for, and without it (the mutant of
`ServedIsWhole`) a startup accepts rules that no commit wrote.  `Renaming`: the
commit point is the job while its parts are renamed, and those renamed so far are
live.  `Restoring`: the generation being put back was verified, so no damaged copy
becomes live.  `Serving`: `ServedIsWhole` also holds while the next commit is
prepared.
For `AlwaysAvailable` a second invariant, `AInv`, is added to it, while nothing was
damaged or edited (`Calm`).  `Copying` and `Copied`: before commit.json is replaced,
history has every live part of the current generation, so that it is a candidate
of the next startup if it was intact.  `Newer`: a commit has a higher revision
than what it replaces, which keeps older candidates older, and its parts have
contents, so that after the last rename the new generation is intact and the
history can be pruned.  `Available`: while parts are renamed there is a
candidate, and the one being put back stays one.  A generation that `Verify` accepts
without its subscriptions is not enough here: where a rollback deletes them, history
may keep an older copy that does not fit.  `Available` therefore asks for all files
of the current generation (`Intact`) or a candidate.
For `CrashIsAtomic` a third, `CInv`, while nothing failed as well (`Quiet`).  Every
commit writes a new config.json, so that its content tells generations apart
(`Distinct`) and what a rollback left under a revision that is used again is never
intact (`Stale`).  `Between`: each part is as the last commit found it or as it wants
it, and while the current generation is not intact, the rules, which a commit renames
last, are as it found them.  `Back`: the generation a startup would put back undoes
exactly the last commit, or has been put back already, whatever number of kills falls
into the restoring; `Own` is what lets it be put back twice.  `Absent`: a required
part that does not exist has no copies.  The subscriptions can be deleted and leave
copies behind, and a commit that follows copies what is there next to what was there;
that it does not mix two contents is `Subs`: every copy of subscriptions belongs to a
candidate or to the current generation (`Copies`), and a service that goes on with a
rollback that could not be completed is one that lacks just them.  Both theorems hold
for both places of rules_sub.json (`SubInStateDir`).

`ConfigWriters_proofs`.  `LockHeld`: `state_txn` is held exactly by a call in one of
the locked stages.  `Kinds`: what a stage says of the parts a call adds to.
`Prepared`: for each stage, how what a call has read and prepared relates to memory
and disk, unless its reading is out of date (`stale`).  `Settled`: while memory and
disk differ and nothing was overtaken, some call is between the two, and
`Prepared` says that it will make them equal.
`ConfigKept`: an addition that was committed is on disk or `gone`, one that was not
is nowhere.
The rules have an account of their own.  `CarriedTrue`: the copy that a call may yet
install is the list on disk, unless its reading is out of date (`staleRules`); `PutLists`
says which list a put has.  `SettledRules`: while memory's copy and the disk differ and
memory is not `outdated`, a call is between the two, and (`LiveRules`) memory has the
list that the holder of the lock is about to write.  `ToldRules`: the disk has the old or
the new list of that holder, and otherwise the one that follows from what the calls were
told.
`Guarded`: a put whose `if_revision` is the current one, read when memory was the
disk, still has the disk's other keys, since every commit raises the revision.

`RuleGeneration_proofs`.  `Committed`: whatever was read or built has been committed.
`InOrder`, unless overtaken: the index says what the newest rule set says of which a
rebuild was made or skipped, and so does what is noted of the last build; a newer rule
set on disk has an editor on its way with it, or a rebuild of it has failed; and the
generation is that of the index, or an editor is about to make it so.  `Decided`: what a
query has matched under the generation of now is in force (`InForce`), that is, the text
of the generation or of an index about to get its own; this is why the index is replaced
before the generation.  `Kept`: the same for what is stored.

`ConnPool_proofs`.  `Pointers`: a call points to an entry exactly from lookup to
return.  `Apart`: queues, users and victims of sweeps share no connection.
`UnusedFresh`: an entry that was neither listed nor discarded yet has no connections
and no callers.  `TableSound`: the entry of a key is not discarded and no other
key's.  `SlotsAccounted` is inductive with these.
`PoolRefinesConnUse` shows that each step is one of `ConnUse` or changes none of
its variables; two connections of one entry in use need two permits.

`QuicManager_proofs`.  `Queue`: the queue of the lock has no query twice and only
those who wait.  `OneConnects`: at most the holder of the lock is between the
handshake and the end of a reconnect.  `Fresh`: the connection it makes is not
stored and nobody else's.  `Stored`: its endpoint and, unless `robbed`, its streams
are stored before it is.

`DnsServer_proofs`.  `Bookkept`: the lists of the handle against the states of the
loops in each phase.  `Fresh`, `Batched`, `Handling`: new sockets are of an
address the change adds, and an address has all of its new sockets or none.  `Complete`: a bound address that stays has
all its loops.  `Signals`, `Busy`: who has been told to stop, and that only running
loops have tasks.

| Theorems | Statements |
|---|---|
| `CachePersist_proofs` | `CoalescingIsInvisible`, `RotationKeepsRecords` (about operators), `Invariance`, `TypeCorrect`, `ManifestNamesFiles` (`ManifestSound`), `SegmentsInRange` (`SegmentRanges`), `NumbersNeverReused` (`NumbersFresh`), `MemoryTrue` (`MemoryNotStale`), `AcknowledgedSurvives` (`DurableRecoverable`, while no append, sync or first manifest fails), `ShutdownSavesAll` (`ShutdownComplete`) |
| `Resolver_proofs` | `Invariance`, `TypeCorrect`, `RefsAreExact` (`RefsExact`), `TableIsCleaned` (`NoOrphan`), `OneRun` (`OneRunPerEntry`), `SingleRunnerWithoutCancel` (`SingleRunnerUncancelled`); `FetchInvariance`, `FetchTypeCorrect`, `BreakersTrue` (`OpenEarned`), `VerdictsHaveEvidence` (`VerdictsEarned`), `AskedOnce` (`NoneAskedTwice`); `CacheSound` (`CacheInv`), `CacheServesNewest` (`ServedIsNewest`), `CacheKeepsUsable` (`QueriesKeepUsable`), `CacheSwapKeeps` (`SwapKeepsLive`) |
| `StateStore_proofs` | `Invariance`, `TypeCorrect`, `OneGenerationServed` (`ServedIsWhole`), `GenerationAlwaysThere` (`AlwaysAvailable`), `KillsAreAtomic` (`CrashIsAtomic`) |
| `ConfigWriters_proofs` | `TypeCorrect`, `RulesTrue` (`RulesAsReported`), `ConfigTrue` (`ConfigAsReported`), `MemoryIsDisk` (`InStep`), `GuardedPuts` (`GuardedPutLosesNothing`) |
| `RuleGeneration_proofs` | `TypeCorrect`, `IndexFollowsDisk` (`IndexCurrentInOrder`), `OldAnswersVoid` (`AnswersCurrent`), `OldNamesVoid` (`NamesCurrent`) |
| `ConnPool_proofs` | `TypeCorrect`, `SlotsNeverLost` (`SlotsAccounted`), `CounterExact` (`IdleAccounted`), `PoolBounded` (`ConnectionsBounded`), `PoolRefinesConnUse` (`ImplementsConnUse`) |
| `QuicManager_proofs` | `TypeCorrect`, `StreamsHeld` (`StreamsFollowConnection`), `EndpointKept` (`EndpointAlive`), `NoTaskLeftBehind` (`NoTaskLeft`) |
| `DnsServer_proofs` | `Invariance`, `TypeCorrect`, `AddressesStayServed` (`KeptServed`), `NoSocketLost` (`SocketsAccounted`) |

Only model-checked, being out of the prover's reach, is liveness:
`EventuallySnapshotted`, `EveryCallReturns`, `QueryReturns`, `FetchEnds`,
`HandlerReturns`, `StopHeard`.

## 6. Limits of the models

* Rules: which sources a rebuild reads and in what order, and what makes one fail, are
  left out (section 2).
* Time is not modelled, except in `CachePolicy`: timeouts and thresholds are choices.
* A file operation that is atomic and synced in the code (temporary file, rename,
  fsync of the directory) is one step.
* Cache: hashing, the count-min sketch and its aging, the promotion gate that only
  benchmarks turn on, the limit of a restore (four times the capacity, at least
  65536 records), the v1 restore of JSON records, and rounding errors of weights are left out.  A method
  that locks shard after shard is one step.
* Persistence without a journal (`journal_off`), with an interval of 0, the
  migration of the v1 format, and failures while a restart takes over after a gap
  are left out.
* State directory: temporary files and `history/<rev>.meta.json` (never read for a
  decision), `serving_revision`, the cache of `prev_generation_ok`,
  `rules_local.json` (a mirror no longer written) and the manual rollback through
  the API are left out.
* Writers: the import of a configuration (api.rs:4140-4316) is left out.  It sets
  the rules in memory outside the lock and persists whatever they are then, and on
  a failure writes rules.json as it was read; its races are of the kinds the
  module has.  So are validation, the scheduler and the path without a state
  directory.
* Fan-out: the levels of the backoff, raw passthrough, panics, the filter of
  private addresses and the speed test of addresses are left out.
* Sockets: 20 errors in a row are one step, the flag of a stop signal and its
  notification another; `dns_rebind` has one worker; the order of the addresses of
  one protocol is free.  What a packet or a connection carries is left out.

### Not modelled

The map covers a small part of the implementation's lines, and most of the rest
would not gain by a model.  Of the large files, `api.rs` is routes, validation and
the JSON of responses around the handlers of `ConfigWriters`; `dns.rs` is parsing,
rate limits and the building of answers around the loops of `DnsServer`; `main.rs`
is wiring; `telemetry.rs` counts for display; `web/` is a browser client; `config.rs`,
`subscribe.rs` and `rules_admin.rs` mostly check input and convert formats;
`crates/ebpdns-proto` and `crates/ebpdns-rules` are pure functions of bytes and
names with vectors and tests.  These are sequential: a unit test reaches all they
can do.

What a model could still say:

* stale answers with their refresh in the background, and the queue of prefetches;
* the cap of the upstream runtime and its pool of probes;
* the indexed match of rules against a linear definition;
* the import of a configuration (above).

## 7. Next steps

1. The arena list of the cache (`ordered_map.rs`) and the division of its size.
2. Stale answers and their refresh in `RuleGeneration`.
3. A composition of `ConfigWriters` with the steps of `StateStore`, so that a kill
   falls between the steps of a call.
