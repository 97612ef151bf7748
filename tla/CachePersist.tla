---------------------------- MODULE CachePersist ----------------------------
(***************************************************************************)
(* Cache persistence of ebpdns, format v2.  Resolver threads change the    *)
(* in-memory cache and offer one journal event per change to a bounded     *)
(* queue (swap.rs, lru.rs, tinylfu.rs, journal.rs); a single actor thread  *)
(* drains the queue into a write-ahead log, rotates segments and switches  *)
(* the manifest; a short-lived thread writes snapshots (cache_persist.rs). *)
(* A crash may happen between any two steps; a restart recovers from what  *)
(* the manifest names (recover.rs).                                        *)
(*                                                                         *)
(* Each action performs at most one durable change that a restart can see, *)
(* so that a crash can fall between any two of them.  A file the manifest  *)
(* does not name is never read, so writing one and naming it is one step.  *)
(***************************************************************************)
EXTENDS CacheLog

CONSTANTS
    Capacity,     \* entries the cache holds before it evicts
    RingCap,      \* capacity of the journal queue (JOURNAL_RING)
    BatchMax,     \* events taken per batch (WAL_BATCH_MAX_EVENTS)
    MaxSegments,  \* segments a manifest may name (MAX_WAL_SEGMENTS)
    FailPoints,   \* the I/O operations that may fail
    MaxSeq,       \* bound: events numbered
    MaxCrashes,   \* bound: crashes, the end of a stopped process included
    MaxFails,     \* bound: I/O failures
    MaxSwaps,     \* bound: policy hot swaps
    MayExit       \* whether a graceful shutdown may be requested

AllFailPoints ==
    {"append", "sync", "create", "manifest", "rename", "snapshot", "spawn", "open", "first"}

ASSUME CapacityAssumption == Capacity \in Nat \ {0}
ASSUME RingAssumption == RingCap \in Nat \ {0} /\ BatchMax \in Nat \ {0}
ASSUME SegmentsAssumption == MaxSegments \in Nat /\ MaxSegments >= 2
ASSUME FailAssumption == FailPoints \subseteq AllFailPoints
ASSUME BoundsAssumption ==
    /\ {MaxSeq, MaxCrashes, MaxFails, MaxSwaps} \subseteq Nat
    /\ MayExit \in BOOLEAN

VARIABLES
  (* data plane *)
    mem,          \* mem[k]: number of the entry cached for k, 0 if none
    log,          \* what each number issued so far says
    ring,         \* the journal queue
    needsResync,  \* an event was dropped because the queue was full
    snapReq,      \* a snapshot was requested
    fresh,        \* what a reload has copied for the new container of a policy swap
    undone,       \* history: undone[k] is the last number issued when a swap changed the
                  \* entry of k, 0 if none did; what a swap drops or brings back has no event
    deleting,     \* keys deleted from memory whose EVICT is not yet logged
  (* actor *)
    pc, phase,    \* where the actor is, and on behalf of what
    batch,        \* events taken from the queue, not yet written
    wal,          \* base of the active segment, 0 if none
    lastBase,     \* base of the last segment created
    durSeq,       \* largest number the actor believes durable
    needsInitial, \* the initial compaction is due
    inflight,     \* a snapshot is being written
    exiting,      \* shutdown was requested
    old,          \* the snapshot and segments a switched manifest replaced
  (* snapshot thread and the message it sends *)
    snapper,
  (* disk *)
    man,          \* the manifest: snapshot number (0: no manifest), segments, seq
    snapFile,     \* the snapshot files
    segFile,      \* the WAL segments
  (* history and bounds *)
    acked,        \* numbers whose effect has been made durable
    exitSeq,      \* largest number issued when shutdown was requested
    spoiled,      \* a failure, timeout or hot swap disturbed the shutdown
    crashes, fails, swaps

plane == <<mem, log, ring, needsResync, snapReq, deleting, fresh, undone>>
actor == <<pc, phase, batch, wal, lastBase, durSeq, needsInitial, inflight, exiting, old>>
disk == <<man, snapFile, segFile>>
history == <<acked, exitSeq, spoiled, crashes, fails, swaps>>
vars == <<plane, actor, snapper, disk, history>>

Numbers == 0..MaxSeq
Current == Len(log)              \* journal.current_seq()
NothingOld == [snap |-> 0, segs |-> <<>>]
NoManifest == [snap |-> 0, segs |-> <<>>, seq |-> 0]
Idle == [st |-> "none", current |-> FALSE, seq |-> 0, data |-> [k \in Keys |-> 0]]
EmptySegment == [recs |-> <<>>, dur |-> 0, torn |-> FALSE]

\* A file is written (or replaced) / a set of files is removed.
Written(files, name, content) ==
    [n \in DOMAIN files \cup {name} |-> IF n = name THEN content ELSE files[n]]
Removed(files, names) == [n \in DOMAIN files \ names |-> files[n]]

\* An I/O operation fails: fails counts it, spoiled remembers it during a shutdown.
Fails(point) ==
    /\ point \in FailPoints
    /\ fails < MaxFails
    /\ fails' = fails + 1
    /\ spoiled' = (spoiled \/ exiting)

-----------------------------------------------------------------------------
(* Recovery: what a restart makes of the files (recover_v2) *)

\* The index of the first segment that is not the last and ends in half a record;
\* one past the end if there is none.
ReadEnd(m, segs) ==
    LET gaps == {i \in 1..(Len(m.segs) - 1) : segs[m.segs[i]].torn}
    IN  IF gaps = {} THEN Len(m.segs) + 1
        ELSE CHOOSE i \in gaps : \A j \in gaps : i <= j

HasGap(m, segs) == ReadEnd(m, segs) <= Len(m.segs)

\* The records of the segments read: up to and including the one with the gap.
ReadRecords(m, segs) ==
    UNION {ToSet(segs[m.segs[i]].recs) :
              i \in {j \in 1..Len(m.segs) : j <= ReadEnd(m, segs)}}

\* The records of the segments a restart keeps: the ones before the gap.
KeptRecords ==
    UNION {ToSet(segFile[man.segs[i]].recs) :
              i \in {j \in 1..Len(man.segs) : j < ReadEnd(man, segFile)}}

\* The cache content a restart rebuilds, before the capacity is applied.
Recovered ==
    IF man.snap = 0 THEN [k \in Keys |-> 0]
    ELSE Replay(log, snapFile[man.snap], man.snap, ReadRecords(man, segFile))

\* The largest number recovery sees, and the next_seq of its plan.
MaxSeen ==
    Largest({man.snap, man.seq} \cup ReadRecords(man, segFile)
              \cup {snapFile[man.snap][k] : k \in Keys})
\* Mutant: numbering goes on from the number in the manifest.
PlanNextOfManifest == Larger(man.snap, man.seq)
PlanNext ==
    IF HasGap(man, segFile)
    THEN Larger(MaxSeen + 1, Largest(ToSet(man.segs)) + 1)
    ELSE MaxSeen + 1

-----------------------------------------------------------------------------
(* The data plane.  mutation_barrier: put and delete share it, clear and the  *)
(* policy hot swap hold it alone, so neither runs inside a two-step delete.   *)

Up == pc \notin {"down", "stopped"}

\* The queue takes events while it has room and drops the rest (CacheJournal::send).
Offer(events) ==
    LET room == RingCap - Len(ring)
    IN  /\ ring' = ring \o SubSeq(events, 1, IF Len(events) <= room THEN Len(events) ELSE room)
        /\ needsResync' = (needsResync \/ Len(events) > room)

\* A put into a cache with room: one number, one event.
PutWithRoom(k) ==
    /\ Up /\ Current < MaxSeq
    /\ mem[k] # 0 \/ Cardinality({j \in Keys : mem[j] # 0}) < Capacity
    /\ mem' = [mem EXCEPT ![k] = Current + 1]
    /\ log' = Append(log, [op |-> "put", key |-> k])
    /\ Offer(<<Current + 1>>)
    /\ UNCHANGED <<snapReq, deleting, fresh, undone, actor, snapper, disk, history>>

\* A put into a full cache evicts v.  The PUT is numbered first, but its event is
\* queued after the EVICT of v.
PutEvicting(k, v) ==
    /\ Up /\ Current + 1 < MaxSeq
    /\ mem[k] = 0 /\ mem[v] # 0
    /\ Cardinality({j \in Keys : mem[j] # 0}) >= Capacity
    /\ mem' = [mem EXCEPT ![k] = Current + 1, ![v] = 0]
    /\ log' = log \o <<[op |-> "put", key |-> k], [op |-> "evict", key |-> v]>>
    /\ Offer(<<Current + 2, Current + 1>>)
    /\ UNCHANGED <<snapReq, deleting, fresh, undone, actor, snapper, disk, history>>

\* An explicit delete drops the entry under the cache lock ...
DeleteMemory(k) ==
    /\ Up /\ Current < MaxSeq
    /\ k \notin deleting
    /\ mem' = [mem EXCEPT ![k] = 0]
    /\ deleting' = deleting \cup {k}
    /\ UNCHANGED <<log, ring, needsResync, snapReq, fresh, undone, actor, snapper, disk, history>>

\* ... and numbers its EVICT afterwards; a put may have come between.
DeleteLog(k) ==
    /\ Up /\ Current < MaxSeq
    /\ k \in deleting
    /\ deleting' = deleting \ {k}
    /\ log' = Append(log, [op |-> IF mem[k] = 0 THEN "evict" ELSE "late", key |-> k])
    /\ Offer(<<Current + 1>>)
    /\ UNCHANGED <<mem, snapReq, fresh, undone, actor, snapper, disk, history>>

Clear ==
    /\ Up /\ Current < MaxSeq
    /\ deleting = {}
    /\ mem' = [k \in Keys |-> 0]
    /\ log' = Append(log, [op |-> "clear", key |-> NoKey])
    /\ Offer(<<Current + 1>>)
    /\ UNCHANGED <<snapReq, deleting, fresh, undone, actor, snapper, disk, history>>

\* A reload that changes the policy lists the keys and copies the entries to a new
\* container, one after the other, while the data plane goes on ...
Migrate(k) ==
    /\ Up /\ swaps < MaxSwaps
    /\ mem[k] # 0 /\ fresh[k] = 0
    /\ fresh' = [fresh EXCEPT ![k] = mem[k]]
    /\ UNCHANGED <<mem, log, ring, needsResync, snapReq, deleting, undone, actor, snapper,
                   disk, history>>

\* ... which then replaces the content, less what it had no room for or had refused: no
\* journal is attached to it before that, so no event says so.  The generation is counted
\* up, which makes a snapshot in flight one of an older generation.
HotSwap ==
    /\ Up /\ swaps < MaxSwaps
    /\ deleting = {}
    /\ \E copied \in SUBSET Keys :
          /\ Cardinality({k \in copied : fresh[k] # 0}) <= Capacity
          /\ mem' = [k \in Keys |-> IF k \in copied THEN fresh[k] ELSE 0]
    /\ undone' = [k \in Keys |-> IF mem'[k] = mem[k] THEN undone[k] ELSE Current]
    /\ fresh' = [k \in Keys |-> 0]
    /\ snapper' = [snapper EXCEPT !.current = FALSE]
    /\ swaps' = swaps + 1
    /\ spoiled' = (spoiled \/ exiting)
    /\ UNCHANGED <<log, ring, needsResync, snapReq, deleting, actor, disk, acked, exitSeq,
                   crashes, fails>>

-----------------------------------------------------------------------------
(* The actor: one pass of the loop of actor_main.  pc is the next step; phase   *)
(* says on whose behalf a shared step runs: the pass itself ("tick"), the drain *)
(* before a compaction ("compact"), or a stage of the shutdown.                 *)

PCs == {"wait", "take", "initial", "commit", "rotate", "append", "sync",
        "resync", "decide", "drain", "start", "rename", "r2", "unlink", "pump",
        "final", "stopped", "down"}
Phases == {"tick", "compact", "exitFlush", "exitWait", "exitSnap", "exitTail"}

Goto(p) == pc' = p /\ UNCHANGED phase
GotoIn(ph, p) == pc' = p /\ phase' = ph

\* Where the actor resumes after a batch: a drain takes another one, unless it failed.
AfterDrain ==
    CASE phase = "compact" -> GotoIn("compact", "start")
      [] phase = "exitFlush" -> GotoIn("exitWait", "pump")
      [] OTHER -> GotoIn("exitTail", "final")
AfterBatch == IF phase = "tick" THEN Goto("decide") ELSE Goto("drain")
AfterFailedBatch == IF phase = "tick" THEN Goto("decide") ELSE AfterDrain

\* Where it resumes after a snapshot message, and at the end of step 5.
AfterMessage == IF phase = "tick" THEN Goto("take") ELSE Goto("pump")
\* Mutant: the shutdown skips the flush and the last snapshot.
AfterCompactionNoFlush == IF exiting THEN GotoIn("exitTail", "final") ELSE GotoIn("tick", "wait")
AfterCompaction == IF exiting THEN GotoIn("exitFlush", "drain") ELSE GotoIn("tick", "wait")

\* Step 1: the wait for a command times out, or the command is Shutdown.
WaitTimeout ==
    /\ pc = "wait"
    /\ Goto("take")
    /\ UNCHANGED <<plane, batch, wal, lastBase, durSeq, needsInitial, inflight, exiting, old,
                   snapper, disk, history>>

Shutdown ==
    /\ pc = "wait" /\ MayExit
    /\ exiting' = TRUE
    /\ exitSeq' = Current
    /\ Goto("take")
    /\ UNCHANGED <<plane, batch, wal, lastBase, durSeq, needsInitial, inflight, old,
                   snapper, disk, acked, spoiled, crashes, fails, swaps>>

\* Mutant: the failed snapshot stays in flight.
SnapshotFailedStuck ==
    /\ pc \in {"wait", "pump"} /\ snapper.st = "failed"
    /\ snapper' = Idle
    /\ UNCHANGED inflight
    /\ AfterMessage
    /\ UNCHANGED <<plane, batch, wal, lastBase, durSeq, needsInitial, exiting, old, disk, history>>

\* SnapshotFailed: the old manifest stays.  The message is handled by the loop and,
\* during shutdown, by pump_snapshot.
SnapshotFailed ==
    /\ pc \in {"wait", "pump"} /\ snapper.st = "failed"
    /\ snapper' = Idle
    /\ inflight' = FALSE
    /\ AfterMessage
    /\ UNCHANGED <<plane, batch, wal, lastBase, durSeq, needsInitial, exiting, old, disk, history>>

\* SnapshotDone of an older generation: the snapshot is discarded and asked for again.
SnapshotStale ==
    /\ pc \in {"wait", "pump"} /\ snapper.st = "done" /\ ~snapper.current
    /\ snapper' = Idle
    /\ inflight' = FALSE
    /\ snapReq' = TRUE
    /\ AfterMessage
    /\ UNCHANGED <<mem, log, ring, needsResync, deleting, fresh, undone, batch, wal, lastBase,
                   durSeq,
                   needsInitial, exiting, old, disk, history>>

SnapshotDone ==
    /\ pc \in {"wait", "pump"} /\ snapper.st = "done" /\ snapper.current
    /\ inflight' = FALSE
    /\ snapper' = [snapper EXCEPT !.current = FALSE]
    /\ Goto("rename")
    /\ UNCHANGED <<plane, batch, wal, lastBase, durSeq, needsInitial, exiting, old, disk, history>>

\* Mutant: a rename that failed goes unnoticed.
RenameUnchecked ==
    /\ pc = "rename"
    /\ Goto("r2")
    /\ \/ /\ snapFile' = Written(snapFile, snapper.seq, snapper.data)
          /\ UNCHANGED <<spoiled, fails>>
       \/ Fails("rename") /\ UNCHANGED snapFile
    /\ UNCHANGED <<plane, batch, wal, lastBase, durSeq, needsInitial, inflight, exiting, old,
                   snapper, man, segFile, acked, exitSeq, crashes, swaps>>

\* on_snapshot_done: the temporary file gets its name ...
RenameSnapshot ==
    /\ pc = "rename"
    /\ \/ /\ snapFile' = Written(snapFile, snapper.seq, snapper.data)
          /\ Goto("r2")
          /\ UNCHANGED <<snapper, spoiled, fails>>
       \/ /\ Fails("rename")
          /\ snapper' = Idle
          /\ AfterMessage
          /\ UNCHANGED snapFile
    /\ UNCHANGED <<plane, batch, wal, lastBase, durSeq, needsInitial, inflight, exiting, old,
                   man, segFile, acked, exitSeq, crashes, swaps>>

\* ... the manifest names it and the active segment only (R2); without an active segment
\* the manifest is refused by its own encoder ...
WriteR2 ==
    /\ pc = "r2"
    /\ snapper' = Idle
    /\ \/ /\ wal # 0
          /\ man' = [snap |-> snapper.seq, segs |-> <<wal>>, seq |-> Larger(durSeq, snapper.seq)]
          /\ old' = [snap |-> man.snap, segs |-> man.segs]
          /\ acked' = acked \cup 1..snapper.seq
          /\ Goto("unlink")
          /\ UNCHANGED <<spoiled, fails>>
       \/ /\ wal = 0
          /\ AfterMessage
          /\ UNCHANGED <<man, old, acked, spoiled, fails>>
       \/ /\ Fails("manifest")
          /\ AfterMessage
          /\ UNCHANGED <<man, old, acked>>
    /\ UNCHANGED <<plane, batch, wal, lastBase, durSeq, needsInitial, inflight, exiting,
                   snapFile, segFile, exitSeq, crashes, swaps>>

\* ... and what the old manifest named is deleted.
UnlinkOld ==
    /\ pc = "unlink"
    /\ snapFile' = Removed(snapFile, {old.snap} \ {man.snap})
    /\ segFile' = Removed(segFile, ToSet(old.segs) \ {wal})
    /\ old' = NothingOld
    /\ AfterMessage
    /\ UNCHANGED <<plane, batch, wal, lastBase, durSeq, needsInitial, inflight, exiting,
                   snapper, man, history>>

\* Step 2: take a batch and the overflow mark; an overflow requests a snapshot.
TakeBatch ==
    /\ pc = "take"
    /\ LET n == IF Len(ring) <= BatchMax THEN Len(ring) ELSE BatchMax
       IN  /\ batch' = SubSeq(ring, 1, n)
           /\ ring' = SubSeq(ring, n + 1, Len(ring))
           /\ Goto(CASE n = 0 -> "decide"
                     [] n > 0 /\ needsInitial -> "initial"
                     [] n > 0 /\ ~needsInitial /\ wal = 0 -> "rotate"
                     [] OTHER -> "append")
    /\ needsResync' = FALSE
    /\ snapReq' = (snapReq \/ needsResync)
    /\ UNCHANGED <<mem, log, deleting, fresh, undone, wal, lastBase, durSeq, needsInitial, inflight,
                   exiting, old, snapper, disk, history>>

\* Step 3: the initial compaction reads S and writes a snapshot itself ...
InitialCompact ==
    /\ pc = "initial"
    /\ snapper' = [Idle EXCEPT !.st = "running", !.seq = Current]
    /\ Goto("commit")
    /\ UNCHANGED <<plane, batch, wal, lastBase, durSeq, needsInitial, inflight, exiting, old,
                   disk, history>>

\* ... then creates segment S+1 and the first manifest.  When the manifest cannot be
\* written the segment stays active although nothing names it.
InitialCommit ==
    /\ pc = "commit" /\ snapper.st = "done"
    /\ snapper' = Idle
    /\ LET S == snapper.seq
       IN  \/ /\ snapFile' = Written(snapFile, S, snapper.data)
              /\ segFile' = Written(segFile, S + 1, EmptySegment)
              /\ man' = [snap |-> S, segs |-> <<S + 1>>, seq |-> S]
              /\ wal' = S + 1
              /\ lastBase' = S + 1
              /\ needsInitial' = FALSE
              /\ acked' = acked \cup 1..S
              /\ UNCHANGED <<spoiled, fails>>
           \/ /\ Fails("first")
              /\ snapFile' = Written(snapFile, S, snapper.data)
              /\ segFile' = Written(segFile, S + 1, EmptySegment)
              /\ wal' = S + 1
              /\ UNCHANGED <<man, lastBase, needsInitial, acked>>
           \/ /\ Fails("create")
              /\ snapFile' = Written(snapFile, S, snapper.data)
              /\ UNCHANGED <<segFile, man, wal, lastBase, needsInitial, acked>>
    /\ Goto("append")
    /\ UNCHANGED <<plane, batch, durSeq, inflight, exiting, old, exitSeq, crashes, swaps>>

InitialSnapshotFailed ==
    /\ pc = "commit" /\ snapper.st = "failed"
    /\ snapper' = Idle
    /\ Goto("append")
    /\ UNCHANGED <<plane, batch, wal, lastBase, durSeq, needsInitial, inflight, exiting, old,
                   disk, history>>

\* A new segment and the manifest that names it after the segments still needed (R1).
\* The base is above every number issued.  If the manifest cannot be written the
\* actor keeps its old segment.
\* Mutant: the base is above every number issued, whatever the base before it.
NewBaseOverCurrent == Current + 1
NewBase == Larger(lastBase + 1, Current + 1)
NewSegment(segs) ==
    /\ segFile' = Written(segFile, NewBase, EmptySegment)
    /\ man' = [snap |-> man.snap, segs |-> Append(segs, NewBase), seq |-> Larger(durSeq, man.snap)]
    /\ wal' = NewBase
    /\ lastBase' = NewBase
NoNewSegment ==
    /\ \E point \in {"create", "manifest"} : Fails(point)
    /\ UNCHANGED <<man, segFile, wal, lastBase>>

\* rotate_for_append: a restart could not open its last segment.
RotateForAppend ==
    /\ pc = "rotate"
    /\ \/ /\ Len(man.segs) >= MaxSegments - 1
          /\ snapReq' = TRUE
          /\ UNCHANGED <<man, segFile, wal, lastBase, spoiled, fails>>
       \/ /\ Len(man.segs) < MaxSegments - 1
          /\ \/ NewSegment(KeptSegments(man.segs, man.snap)) /\ UNCHANGED <<spoiled, fails>>
             \/ NoNewSegment
          /\ UNCHANGED snapReq
    /\ Goto("append")
    /\ UNCHANGED <<mem, log, ring, needsResync, deleting, fresh, undone, batch, durSeq,
                   needsInitial,
                   inflight, exiting, old, snapper, snapFile, acked, exitSeq, crashes, swaps>>

\* Step 4: flush_batch without an active segment drops the batch and asks for a snapshot.
AppendNowhere ==
    /\ pc = "append" /\ wal = 0
    /\ batch' = <<>>
    /\ snapReq' = TRUE
    /\ AfterFailedBatch
    /\ UNCHANGED <<mem, log, ring, needsResync, deleting, fresh, undone, wal, lastBase, durSeq,
                   needsInitial, inflight, exiting, old, snapper, disk, history>>

\* The coalesced batch is written; a failed write is cut off again.
AppendBatch ==
    /\ pc = "append" /\ wal # 0
    /\ \/ /\ segFile' = [segFile EXCEPT ![wal].recs = @ \o Coalesce(log, batch)]
          /\ Goto("sync")
          /\ UNCHANGED <<spoiled, fails>>
       \/ /\ Fails("append")
          /\ Goto("resync")
          /\ UNCHANGED segFile
    /\ UNCHANGED <<plane, batch, wal, lastBase, durSeq, needsInitial, inflight, exiting, old,
                   snapper, man, snapFile, acked, exitSeq, crashes, swaps>>

\* fdatasync: the batch is durable.  After a failure the records stay in the file:
\* append_bytes had already advanced valid_len, so truncate_to_valid cuts nothing.
SyncBatch ==
    /\ pc = "sync"
    /\ \/ /\ segFile' = [segFile EXCEPT ![wal].dur = Len(segFile[wal].recs)]
          /\ durSeq' = Larger(durSeq, Largest(ToSet(batch)))
          /\ acked' = acked \cup ToSet(batch)
          /\ batch' = <<>>
          /\ AfterBatch
          /\ UNCHANGED <<spoiled, fails>>
       \/ /\ Fails("sync")
          /\ Goto("resync")
          /\ UNCHANGED <<segFile, durSeq, acked, batch>>
    /\ UNCHANGED <<plane, wal, lastBase, needsInitial, inflight, exiting, old, snapper,
                   man, snapFile, exitSeq, crashes, swaps>>

\* resync_after_flush_failure: the batch is lost; ask for a snapshot and go on in a
\* new segment, if there is a snapshot to build on and the manifest has room.
ResyncAfterFailure ==
    /\ pc = "resync"
    /\ batch' = <<>>
    /\ snapReq' = TRUE
    /\ \/ /\ man.snap = 0
          /\ needsInitial' = TRUE
          /\ UNCHANGED <<man, segFile, wal, lastBase, spoiled, fails>>
       \/ /\ man.snap # 0 /\ Len(man.segs) >= MaxSegments - 1
          /\ UNCHANGED <<needsInitial, man, segFile, wal, lastBase, spoiled, fails>>
       \/ /\ man.snap # 0 /\ Len(man.segs) < MaxSegments - 1
          /\ \/ /\ NewSegment(KeptSegments(man.segs, man.snap))
                /\ needsInitial' = FALSE
                /\ UNCHANGED <<spoiled, fails>>
             \/ NoNewSegment /\ UNCHANGED needsInitial
    /\ AfterFailedBatch
    /\ UNCHANGED <<mem, log, ring, needsResync, deleting, fresh, undone, durSeq, inflight,
                   exiting, old,
                   snapper, snapFile, acked, exitSeq, crashes, swaps>>

\* Step 5: the snapshot request is consumed.  Without one, a compaction starts when the
\* segment has outgrown its threshold or enough time has passed, which may be any time.
Decide ==
    /\ pc = "decide"
    /\ snapReq' = FALSE
    /\ \/ snapReq /\ GotoIn("compact", "drain")
       \/ ~snapReq /\ AfterCompaction
    /\ UNCHANGED <<mem, log, ring, needsResync, deleting, fresh, undone, batch, wal, lastBase,
                   durSeq,
                   needsInitial, inflight, exiting, old, snapper, disk, history>>

DecideThreshold ==
    /\ pc = "decide" /\ ~snapReq
    /\ ~inflight /\ man.snap # 0 /\ Current > man.snap
    /\ GotoIn("compact", "drain")
    /\ UNCHANGED <<plane, batch, wal, lastBase, durSeq, needsInitial, inflight, exiting, old,
                   snapper, disk, history>>

\* drain_into_wal takes further batches until the queue is empty.  (It also stops after
\* eight batches; what is then left in the queue is as if it had come a moment later.)
DrainMore ==
    /\ pc = "drain" /\ ring # <<>>
    /\ LET n == IF Len(ring) <= BatchMax THEN Len(ring) ELSE BatchMax
       IN  /\ batch' = SubSeq(ring, 1, n)
           /\ ring' = SubSeq(ring, n + 1, Len(ring))
    /\ Goto("append")
    /\ UNCHANGED <<mem, log, needsResync, snapReq, deleting, fresh, undone, wal, lastBase, durSeq,
                   needsInitial, inflight, exiting, old, snapper, disk, history>>

DrainEnd ==
    /\ pc = "drain" /\ ring = <<>>
    /\ AfterDrain
    /\ UNCHANGED <<plane, batch, wal, lastBase, durSeq, needsInitial, inflight, exiting, old,
                   snapper, disk, history>>

\* start_compaction, called for a compaction and for the snapshot of the shutdown.
\* What the caller does when it returns false / when it returns true.
AfterRefusal == IF phase = "compact" THEN AfterCompaction ELSE GotoIn("exitTail", "drain")
AfterStart == IF phase = "compact" THEN AfterCompaction ELSE Goto("pump")

\* It refuses while a snapshot is in flight or when there is none to replace, and
\* does nothing when nothing has changed since the last one.
StartRefused ==
    /\ pc = "start"
    /\ inflight \/ man.snap = 0
    /\ AfterRefusal
    /\ UNCHANGED <<plane, batch, wal, lastBase, durSeq, needsInitial, inflight, exiting, old,
                   snapper, disk, history>>

StartNotNeeded ==
    /\ pc = "start" /\ ~inflight /\ man.snap # 0
    /\ Current <= man.snap
    /\ AfterStart
    /\ UNCHANGED <<plane, batch, wal, lastBase, durSeq, needsInitial, inflight, exiting, old,
                   snapper, disk, history>>

\* Otherwise it rotates to a new segment, unless the segments the old snapshot still
\* needs fill the manifest, and starts the snapshot thread for S, the current number.
StartCompaction ==
    /\ pc = "start" /\ ~inflight /\ man.snap # 0
    /\ Current > man.snap
    /\ LET keep == KeptSegments(man.segs, man.snap)
           rotated == IF Len(keep) <= MaxSegments - 1 THEN NewSegment(keep)
                      ELSE UNCHANGED <<man, segFile, wal, lastBase>>
       IN  \/ /\ rotated
              /\ inflight' = TRUE
              /\ snapper' = [Idle EXCEPT !.st = "running", !.seq = Current, !.current = TRUE]
              /\ AfterStart
              /\ UNCHANGED <<spoiled, fails>>
           \/ /\ Len(keep) <= MaxSegments - 1 /\ NoNewSegment
              /\ AfterRefusal
              /\ UNCHANGED <<inflight, snapper>>
           \/ /\ Fails("spawn")
              /\ rotated
              /\ AfterRefusal
              /\ UNCHANGED <<inflight, snapper>>
    /\ UNCHANGED <<plane, batch, durSeq, needsInitial, exiting, old, snapFile, acked,
                   exitSeq, crashes, swaps>>

\* Step 6: pump_snapshot waits until no snapshot is in flight, or for four seconds.
AfterPump == IF phase = "exitWait" THEN GotoIn("exitSnap", "start") ELSE GotoIn("exitTail", "drain")
PumpDone ==
    /\ pc = "pump" /\ ~inflight
    /\ AfterPump
    /\ UNCHANGED <<plane, batch, wal, lastBase, durSeq, needsInitial, inflight, exiting, old,
                   snapper, disk, history>>

PumpTimeout ==
    /\ pc = "pump" /\ inflight
    /\ spoiled' = TRUE
    /\ AfterPump
    /\ UNCHANGED <<plane, batch, wal, lastBase, durSeq, needsInitial, inflight, exiting, old,
                   snapper, disk, acked, exitSeq, crashes, fails, swaps>>

\* The last manifest is written, if there is a segment, and the actor ends.
FinalManifest ==
    /\ pc = "final"
    /\ \/ /\ man' = IF wal = 0 \/ man.snap = 0 THEN man
                   ELSE [man EXCEPT !.seq = Larger(durSeq, man.seq)]
          /\ UNCHANGED <<spoiled, fails>>
       \/ Fails("manifest") /\ UNCHANGED man
    /\ Goto("stopped")
    /\ UNCHANGED <<plane, batch, wal, lastBase, durSeq, needsInitial, inflight, exiting, old,
                   snapper, snapFile, segFile, acked, exitSeq, crashes, swaps>>

-----------------------------------------------------------------------------
(* The snapshot thread: write_snapshot_file collects the entries under the cache *)
(* lock some time after S was read, and keeps those numbered S or less.          *)

WriteSnapshotFile ==
    /\ pc # "down" /\ snapper.st = "running"
    /\ \/ /\ snapper' = [snapper EXCEPT !.st = "done",
                                 !.data = [k \in Keys |-> IF mem[k] <= snapper.seq THEN mem[k] ELSE 0]]
          /\ UNCHANGED <<spoiled, fails>>
       \/ /\ Fails("snapshot")
          /\ snapper' = [snapper EXCEPT !.st = "failed"]
    /\ UNCHANGED <<plane, actor, disk, acked, exitSeq, crashes, swaps>>

-----------------------------------------------------------------------------
(* Crash and restart *)

\* What may be left of the segments: everything synced, and of what was written after
\* it any prefix, perhaps with half a record at its end.
Surviving(kept, torn) ==
    [b \in DOMAIN segFile |->
        IF b \in DOMAIN kept
        THEN [recs |-> SubSeq(segFile[b].recs, 1, kept[b]), dur |-> kept[b], torn |-> b \in torn]
        ELSE segFile[b]]

\* (deleting keeps, for the record, the deletes the crash cut short.)
Crash ==
    /\ pc # "down"
    /\ crashes < MaxCrashes
    /\ crashes' = crashes + 1
    /\ LET unsynced == {b \in DOMAIN segFile : segFile[b].dur < Len(segFile[b].recs)}
       IN  \E kept \in [unsynced -> 0..MaxSeq] :
              /\ \A b \in unsynced : kept[b] \in segFile[b].dur..Len(segFile[b].recs)
              /\ \E torn \in SUBSET {b \in unsynced : kept[b] < Len(segFile[b].recs)} :
                    segFile' = Surviving(kept, torn)
    /\ pc' = "down" /\ phase' = "tick"
    /\ mem' = [k \in Keys |-> 0]
    /\ ring' = <<>> /\ needsResync' = FALSE /\ snapReq' = FALSE
    /\ batch' = <<>> /\ wal' = 0 /\ lastBase' = 0 /\ durSeq' = 0
    /\ needsInitial' = FALSE /\ inflight' = FALSE /\ exiting' = FALSE
    /\ old' = NothingOld
    /\ snapper' = Idle
    /\ exitSeq' = 0 /\ spoiled' = FALSE
    /\ fresh' = [k \in Keys |-> 0]
    /\ UNCHANGED <<log, deleting, undone, man, snapFile, acked, fails, swaps>>

\* Without a manifest the cache starts empty; leftover files are deleted.
RestartEmpty ==
    /\ pc = "down" /\ man.snap = 0
    /\ pc' = "wait" /\ deleting' = {}
    /\ needsInitial' = TRUE
    /\ log' = <<Hole>> /\ undone' = [k \in Keys |-> 0]
    /\ snapFile' = Removed(snapFile, DOMAIN snapFile)
    /\ segFile' = Removed(segFile, DOMAIN segFile)
    /\ acked' = {}
    /\ UNCHANGED <<mem, ring, needsResync, snapReq, fresh, phase, batch, wal, lastBase,
                   durSeq, inflight, exiting, old, snapper, man, exitSeq, spoiled, crashes, fails,
                   swaps>>

\* The number i left a trace in the files read: a record newer than the snapshot, or an
\* entry, or the removal of one, in the snapshot.
Traced(i) ==
    \/ i > man.snap /\ i \in ReadRecords(man, segFile)
    \/ i <= man.snap /\ (IsPut(log, i) => snapFile[man.snap][log[i].key] = i)

\* The entries are restored up to the capacity and numbering goes on above every number
\* seen.  What left no trace never happened: its number is a hole, or is issued again.
\* The entries beyond the capacity are dropped without an event: they are surplus.  (What a
\* swap undid is settled up to the snapshot; the events after it are replayed.)
Restored ==
    /\ \E kept \in SUBSET {k \in Keys : Recovered[k] # 0} :
          /\ \/ kept = {k \in Keys : Recovered[k] # 0} /\ Cardinality(kept) <= Capacity
             \/ Cardinality(kept) = Capacity
          /\ mem' = [k \in Keys |-> IF k \in kept THEN Recovered[k] ELSE 0]
          /\ LET Surplus(i) == IsPut(log, i) /\ \E k \in Keys \ kept : Recovered[k] = i
             IN  log' = [i \in 1..PlanNext |->
                            IF ~Traced(i) THEN Hole
                            ELSE IF Surplus(i) THEN [log[i] EXCEPT !.op = "surplus"]
                            ELSE log[i]]
    /\ acked' = 1..man.snap \cup KeptRecords
    /\ undone' = [k \in Keys |-> IF undone[k] <= man.snap THEN undone[k] ELSE man.snap]
    /\ durSeq' = Larger(man.seq, Largest(ReadRecords(man, segFile)))

\* The actor takes over.  The last segment loses its half record and is appended to.
Restart ==
    /\ pc = "down" /\ man.snap # 0 /\ ~HasGap(man, segFile)
    /\ Restored
    /\ LET last == man.segs[Len(man.segs)]
       IN  /\ segFile' = [b \in DOMAIN segFile \cap ToSet(man.segs) |->
                            IF b = last THEN [segFile[b] EXCEPT !.torn = FALSE] ELSE segFile[b]]
           /\ lastBase' = last
           /\ \/ wal' = last /\ UNCHANGED <<spoiled, fails>>
              \/ Fails("open") /\ wal' = 0
    /\ snapFile' = Removed(snapFile, DOMAIN snapFile \ {man.snap})
    /\ pc' = "wait" /\ deleting' = {}
    /\ UNCHANGED <<ring, needsResync, snapReq, fresh, phase, batch, needsInitial,
                   inflight, exiting, old, snapper, man, exitSeq, crashes, swaps>>

\* After a gap only the segments before it are kept, and a new one is named at once.
RestartAfterGap ==
    /\ pc = "down" /\ man.snap # 0 /\ HasGap(man, segFile)
    /\ Restored
    /\ LET kept == SubSeq(man.segs, 1, ReadEnd(man, segFile) - 1)
           base == PlanNext
       IN  /\ man' = [man EXCEPT !.segs = Append(kept, base)]
           /\ segFile' = Written([b \in DOMAIN segFile \cap ToSet(kept) |-> segFile[b]],
                                 base, EmptySegment)
           /\ lastBase' = base
           /\ wal' = base
    /\ snapFile' = Removed(snapFile, DOMAIN snapFile \ {man.snap})
    /\ pc' = "wait" /\ deleting' = {}
    /\ UNCHANGED <<ring, needsResync, snapReq, fresh, phase, batch, needsInitial,
                   inflight, exiting, old, snapper, exitSeq, spoiled, crashes, fails, swaps>>

-----------------------------------------------------------------------------
Init ==
    /\ mem = [k \in Keys |-> 0] /\ log = <<Hole>>
    /\ fresh = [k \in Keys |-> 0] /\ undone = [k \in Keys |-> 0]
    /\ ring = <<>> /\ needsResync = FALSE /\ snapReq = FALSE /\ deleting = {}
    /\ pc = "wait" /\ phase = "tick" /\ batch = <<>> /\ wal = 0 /\ lastBase = 0 /\ durSeq = 0
    /\ needsInitial = TRUE /\ inflight = FALSE /\ exiting = FALSE
    /\ old = NothingOld /\ snapper = Idle
    /\ man = NoManifest /\ snapFile = <<>> /\ segFile = <<>>
    /\ acked = {} /\ exitSeq = 0 /\ spoiled = FALSE /\ crashes = 0 /\ fails = 0 /\ swaps = 0

Client ==
    \/ \E k \in Keys :
          \/ PutWithRoom(k)
          \/ \E v \in Keys \ {k} : PutEvicting(k, v)
          \/ DeleteMemory(k)
          \/ DeleteLog(k)
          \/ Migrate(k)
    \/ Clear
    \/ HotSwap

Message == SnapshotFailed \/ SnapshotStale \/ SnapshotDone
Actor ==
    \/ WaitTimeout \/ Shutdown \/ Message
    \/ RenameSnapshot \/ WriteR2 \/ UnlinkOld
    \/ TakeBatch \/ InitialCompact \/ InitialCommit \/ InitialSnapshotFailed
    \/ RotateForAppend \/ AppendNowhere \/ AppendBatch \/ SyncBatch \/ ResyncAfterFailure
    \/ Decide \/ DecideThreshold \/ DrainMore \/ DrainEnd
    \/ StartRefused \/ StartNotNeeded \/ StartCompaction
    \/ PumpDone \/ PumpTimeout \/ FinalManifest

Recovery == RestartEmpty \/ Restart \/ RestartAfterGap

Next == Client \/ Actor \/ WriteSnapshotFile \/ Crash \/ Recovery

Spec == Init /\ [][Next]_vars

\* The actor and the snapshot thread keep running; a message that was sent is received
\* by one of the next waits; and once COMPACT_MIN_INTERVAL_S has passed should_compact
\* stays true until a snapshot is written.
FairSpec ==
    /\ Spec
    /\ WF_vars(Actor) /\ WF_vars(WriteSnapshotFile)
    /\ SF_vars(Message) /\ SF_vars(DecideThreshold)

-----------------------------------------------------------------------------
(* Properties *)

\* Every variable stays in the set of values it is meant for.
TypeOK ==
    /\ mem \in [Keys -> Nat] /\ log \in Seq(Events)
    /\ fresh \in [Keys -> Nat] /\ undone \in [Keys -> Nat]
    /\ ring \in Seq(Nat) /\ Len(ring) <= RingCap /\ needsResync \in BOOLEAN /\ snapReq \in BOOLEAN
    /\ deleting \subseteq Keys
    /\ pc \in PCs /\ phase \in Phases
    /\ batch \in Seq(Nat) /\ Len(batch) <= BatchMax /\ wal \in Nat /\ lastBase \in Nat /\ durSeq \in Nat
    /\ needsInitial \in BOOLEAN /\ inflight \in BOOLEAN /\ exiting \in BOOLEAN
    /\ old \in [snap : Nat, segs : Seq(Nat)]
    /\ snapper \in [st : {"none", "running", "done", "failed"}, current : BOOLEAN, seq : Nat,
                    data : [Keys -> Nat]]
    /\ man \in [snap : Nat, segs : Seq(Nat), seq : Nat]
    /\ DOMAIN snapFile \subseteq Nat /\ \A s \in DOMAIN snapFile : snapFile[s] \in [Keys -> Nat]
    /\ DOMAIN segFile \subseteq Nat
    /\ \A b \in DOMAIN segFile : segFile[b] \in [recs : Seq(Nat), dur : Nat, torn : BOOLEAN]
    /\ acked \subseteq Nat /\ exitSeq \in Nat /\ spoiled \in BOOLEAN
    /\ crashes \in Nat /\ fails \in Nat /\ swaps \in Nat

\* Whatever fails and wherever a crash falls, the manifest names only files that exist,
\* in increasing order of base and within the limit, and a snapshot holds nothing newer
\* than its number: a restart never finds the cache corrupt.
ManifestSound ==
    man.snap # 0 =>
        /\ man.snap \in DOMAIN snapFile
        /\ \A k \in Keys : snapFile[man.snap][k] <= man.snap
        /\ ToSet(man.segs) \subseteq DOMAIN segFile
        /\ Len(man.segs) \in 1..MaxSegments
        /\ \A i, j \in 1..Len(man.segs) : i < j => man.segs[i] < man.segs[j]

\* wal_keep_from drops segment i when the base of its successor is covered by the
\* snapshot.  That is right only if every record of a segment is below the bases of
\* the segments after it, although events may be queued out of order and rotations
\* race with the data plane.
SegmentRanges ==
    \A i, j \in 1..Len(man.segs) :
        i < j => \A s \in ToSet(segFile[man.segs[i]].recs) : s < man.segs[j]

\* A number is never issued twice while a file a restart would read still holds it:
\* everything in the manifest's files was issued in the history the log records.
NumbersFresh ==
    man.snap # 0 => MaxSeen <= Current

\* After a crash, a restart rebuilds for every key an entry no older than the last event
\* about the key that had been made durable (nothing evicted, cleared or replaced comes
\* back), and rebuilds exactly that entry when nothing newer happened to the key.
\* An EVICT logged late does not count against the put that overtook it, an entry a restart
\* had no room for is no longer promised, and no event counts whose effect on the key a
\* policy swap may have undone in memory: the next snapshot saves what the swap left.
LastDurable(k) ==
    Largest({s \in acked : /\ Affects(log, s, k) /\ s > undone[k]
                           /\ log[s].op \notin {"late", "surplus"}})
DurableRecoverable ==
    pc = "down" =>
        \A k \in Keys :
            /\ Recovered[k] # 0 => Recovered[k] >= LastDurable(k)
            /\ (/\ LastDurable(k) # 0 /\ IsPut(log, LastDurable(k)) /\ k \notin deleting
                /\ \A s \in 1..Current : Affects(log, s, k) => s <= LastDurable(k))
               => Recovered[k] = LastDurable(k)

\* The cache never holds an entry that the log says was later evicted or cleared, except
\* where a put overtook an explicit delete of the same key, or a policy swap installed what
\* had been copied before.
MemoryNotStale ==
    \A k \in Keys : mem[k] # 0 =>
        \A s \in (mem[k] + 1)..Current :
            Affects(log, s, k) => log[s].op = "late" \/ s <= undone[k]

\* Whatever was dropped, failed or made stale on the way, every change ends up in a
\* snapshot: the requests that get lost are made good by the next threshold.
EventuallySnapshotted ==
    (<>[][~HotSwap]_vars) =>
        \A s \in 1..MaxSeq : (man.snap # 0 /\ Current >= s) ~> (man.snap >= s \/ ~Up)

\* A shutdown that nothing disturbed leaves on disk exactly the cache in memory, provided
\* the data plane was still and the actor had a segment to name (a manifest without one is
\* refused), and whatever had failed or been dropped before.  Left out is a key whose entry
\* a policy swap has changed after the last event of all: nothing tells the actor of it, and
\* a snapshot that covers the last number is not written again.
ShutdownComplete ==
    (/\ pc = "stopped" /\ ~spoiled
     /\ Current = exitSeq /\ deleting = {}
     /\ fails = 0 \/ (man.snap # 0 /\ wal # 0)) =>
        \A k \in Keys : undone[k] < Current => Recovered[k] = mem[k]
=============================================================================
