------------------------------ MODULE StateStore ------------------------------
(***************************************************************************)
(* The state directory of ebpdns (ebpdns-server, state_store.rs): a commit *)
(* writes several files, the parts, as one generation.  It copies the live *)
(* parts of the current generation into history, replaces commit.json, the *)
(* commit point, renames the new parts into place one after the other and  *)
(* prunes the history.  At startup the live parts are compared with        *)
(* commit.json; when they do not match, the newest older generation whose  *)
(* copies are intact is put back.                                          *)
(*                                                                         *)
(* The writers hold one lock around a commit, so there is one commit at a  *)
(* time.  The process may be killed between any two steps, a startup       *)
(* included; a power loss also damages what was not synced; an operation   *)
(* may fail; an operator may edit config.json while the process is down.   *)
(* Temporary files are never read and are left out.                        *)
(***************************************************************************)
EXTENDS Naturals, FiniteSets

CONSTANTS
    Garbage,        \* what a damaged file holds
    SubInStateDir,  \* rule_sub_file lies in the state directory, not beside config.json
    HistoryKeep,    \* generations the history keeps (HISTORY_KEEP)
    MaxWrites,      \* bound: different contents written
    MaxCrashes,     \* bound: ends of the process, power losses included
    MaxLosses,      \* bound: power losses
    MaxFails,       \* bound: failed operations
    MaxEdits        \* bound: edits by the operator

Parts == {"config", "rules", "sub"}
Required == {"config", "rules"}

ASSUME GarbageAssumption == Garbage \notin Nat
ASSUME LayoutAssumption == SubInStateDir \in BOOLEAN
ASSUME KeepAssumption == HistoryKeep \in Nat \ {0}
ASSUME BoundsAssumption ==
    {MaxWrites, MaxCrashes, MaxLosses, MaxFails, MaxEdits} \subseteq Nat

VARIABLES
  (* disk; a content is a number, 0 is a file that does not exist *)
    live,       \* what each part holds
    point,      \* commit.json: the revision (0: no file) and its parts
    hist,       \* history/<rev>: a copy of commit.json and of the parts
    unsynced,   \* the copies that were not synced
  (* process *)
    pc,
    job,        \* the generation being committed
    todo,       \* the parts that are still to be copied, renamed or put back
    source,     \* the generation being put back
    load,       \* what the last startup found (LoadState)
  (* history and bounds *)
    before, after,  \* all parts before the last commit, and as it wants them
    acked,          \* some commit has been acknowledged
    failed,         \* a commit of this process failed, none has succeeded since
    written, crashes, losses, fails, edits

disk == <<live, point, hist, unsynced>>
process == <<pc, job, todo, source, load>>
history == <<before, after, acked, failed, written, crashes, losses, fails, edits>>
vars == <<disk, process, history>>

\* A generation lists some parts; `all' is history, what every part was to hold with it.
\* History keeps, for a generation, its record and a copy of its parts.
Contents == [Parts -> Nat]
Files == [Parts -> Nat \cup {Garbage}]
IsGeneration(g) ==
    /\ g = [rev |-> g.rev, parts |-> g.parts, all |-> g.all]
    /\ g.rev \in Nat /\ g.all \in Contents
    /\ DOMAIN g.parts \subseteq Parts /\ \A p \in DOMAIN g.parts : g.parts[p] \in Nat
IsCopy(h) ==
    /\ h = [commit |-> h.commit, parts |-> h.parts]
    /\ IsGeneration(h.commit) /\ h.parts \in Files
NoFiles == [p \in Parts |-> 0]
NoGeneration == [rev |-> 0, parts |-> [p \in {} |-> 0], all |-> NoFiles]

\* A commit.json lists its parts in the order of their paths; a commit renames rules.json
\* last if it is not in the plan, and no plan has both other files.
Listing == IF SubInStateDir THEN [config |-> 1, rules |-> 2, sub |-> 3]
           ELSE [config |-> 1, sub |-> 2, rules |-> 3]
Staged == [config |-> 1, sub |-> 2, rules |-> 3]
First(order, S) == CHOOSE p \in S : \A q \in S : order[p] <= order[q]

\* An operation fails.
Fails == fails < MaxFails /\ fails' = fails + 1

\* The parts a generation lists that do not exist, and whether the files can be those of
\* the generation: an optional one may be missing, no other may differ.
Missing(g, files) == {p \in DOMAIN g.parts : files[p] = 0}
Verify(g, files) ==
    /\ Missing(g, files) \cap Required = {}
    /\ \A p \in DOMAIN g.parts \ Missing(g, files) : files[p] = g.parts[p]

-----------------------------------------------------------------------------
(* A commit *)

\* Mutant: a commit lists only the parts it changes.
ListedAsPlanned(plan) == plan
\* The parts a commit lists: the ones it changes and always rules.json, if it exists.
Listed(plan) == plan \cup {p \in {"rules"} : live[p] # 0}

\* Mutant: the current generation is not copied.
BeginNoSnapshot(plan, rev) ==
    /\ pc = "idle" /\ written < MaxWrites
    /\ written' = written + 1
    /\ LET wanted == [p \in Parts |-> IF p \in plan THEN written + 1 ELSE live[p]]
       IN  /\ job' = [rev |-> rev, parts |-> [p \in Listed(plan) |-> wanted[p]], all |-> wanted]
           /\ after' = wanted
    /\ before' = live
    /\ pc' = "point" /\ todo' = {}
    /\ unsynced' = {}
    /\ UNCHANGED <<live, point, hist, source, load, acked, failed, crashes, losses, fails, edits>>

\* next_revision: above the current one, and above every one that left a trace unless the
\* clock was set back.
Revisions ==
    LET used == DOMAIN hist \cup {point.rev}
    IN  {point.rev + 1} \cup {r + 1 : r \in {r \in used : \A s \in used : s <= r}}

\* A writer commits new contents for the parts of its plan.  Copies made by an earlier commit have been written back.
Begin(plan, rev) ==
    /\ pc = "idle" /\ written < MaxWrites
    /\ written' = written + 1
    /\ LET wanted == [p \in Parts |-> IF p \in plan THEN written + 1 ELSE live[p]]
       IN  /\ job' = [rev |-> rev, parts |-> [p \in Listed(plan) |-> wanted[p]], all |-> wanted]
           /\ after' = wanted
    /\ before' = live
    /\ \/ /\ point.rev = 0
          /\ pc' = "point" /\ todo' = {}
       \/ /\ point.rev # 0
          /\ pc' = "copy" /\ todo' = DOMAIN point.parts
    /\ unsynced' = {}
    /\ UNCHANGED <<live, point, hist, source, load, acked, failed, crashes, losses, fails, edits>>

\* What history holds for a revision, and with one of its copies or its record replaced.
Kept(rev) == IF rev \in DOMAIN hist THEN hist[rev] ELSE [commit |-> NoGeneration, parts |-> NoFiles]
With(rev, entry) == [r \in DOMAIN hist \cup {rev} |-> IF r = rev THEN entry ELSE hist[r]]

Give(up) == pc' = "idle" /\ todo' = {} /\ job' = NoGeneration /\ failed' = up

\* Step 1: the live parts of the current generation are copied, without a sync; a copy
\* that fails is left half done ...
CopyPart ==
    /\ pc = "copy" /\ todo # {}
    /\ LET p == First(Listing, todo)
           old == Kept(point.rev)
           copy(c) == [commit |-> old.commit,
                       parts |-> [old.parts EXCEPT ![p] = IF live[p] = 0 THEN @ ELSE c]]
       IN  /\ unsynced' = IF live[p] = 0 THEN unsynced ELSE unsynced \cup {<<point.rev, p>>}
           /\ \/ /\ hist' = With(point.rev, copy(live[p]))
                 /\ todo' = todo \ {p}
                 /\ UNCHANGED <<pc, job, failed, fails>>
              \/ /\ Fails
                 /\ hist' = With(point.rev, copy(Garbage))
                 /\ Give(TRUE)
    /\ UNCHANGED <<live, point, source, load, before, after, acked, written, crashes, losses, edits>>

\* ... and its record.
CopyRecord ==
    /\ pc = "copy" /\ todo = {}
    /\ \/ /\ hist' = With(point.rev, [commit |-> point, parts |-> Kept(point.rev).parts])
          /\ pc' = "point"
          /\ UNCHANGED <<todo, job, failed, fails>>
       \/ /\ Fails
          /\ Give(TRUE)
          /\ UNCHANGED hist
    /\ UNCHANGED <<live, point, unsynced, source, load, before, after, acked, written,
                   crashes, losses, edits>>

\* Steps 2 and 3: the new parts are written to temporary files, then commit.json is replaced.
Point ==
    /\ pc = "point"
    /\ \/ /\ point' = job
          /\ pc' = "rename" /\ todo' = DOMAIN job.parts
          /\ UNCHANGED <<job, failed, fails>>
       \/ /\ Fails
          /\ Give(TRUE)
          /\ UNCHANGED point
    /\ UNCHANGED <<live, hist, unsynced, source, load, before, after, acked, written,
                   crashes, losses, edits>>

\* Step 4: one part after the other gets its name.
RenamePart ==
    /\ pc = "rename" /\ todo # {}
    /\ \/ /\ LET p == First(Staged, todo)
             IN  live' = [live EXCEPT ![p] = job.parts[p]] /\ todo' = todo \ {p}
          /\ UNCHANGED <<pc, job, failed, fails>>
       \/ /\ Fails
          /\ Give(TRUE)
          /\ UNCHANGED live
    /\ UNCHANGED <<point, hist, unsynced, source, load, before, after, acked, written,
                   crashes, losses, edits>>

\* Step 5: the history keeps its newest generations; the commit is acknowledged.
Prune ==
    /\ pc = "rename" /\ todo = {}
    /\ hist' = [r \in {r \in DOMAIN hist :
                          Cardinality({s \in DOMAIN hist : s > r}) < HistoryKeep} |-> hist[r]]
    /\ unsynced' = {u \in unsynced : u[1] \in DOMAIN hist'}
    /\ acked' = TRUE
    /\ Give(FALSE)
    /\ UNCHANGED <<live, point, source, load, before, after, written, crashes, losses, fails, edits>>

-----------------------------------------------------------------------------
(* The end of the process, and what happens while it is down *)

Down == pc' = "down" /\ todo' = {} /\ job' = NoGeneration /\ source' = 0 /\ failed' = FALSE

Kill ==
    /\ pc # "down" /\ crashes < MaxCrashes
    /\ crashes' = crashes + 1
    /\ Down
    /\ UNCHANGED <<disk, load, before, after, acked, written, losses, fails, edits>>

\* Copies that were not synced are lost, or hold garbage.
PowerLoss ==
    /\ pc # "down" /\ crashes < MaxCrashes /\ losses < MaxLosses
    /\ crashes' = crashes + 1 /\ losses' = losses + 1
    /\ \E damaged \in SUBSET unsynced, content \in {0, Garbage} :
          hist' = [r \in DOMAIN hist |->
                     [commit |-> hist[r].commit,
                      parts |-> [p \in Parts |->
                                   IF <<r, p>> \in damaged THEN content ELSE hist[r].parts[p]]]]
    /\ unsynced' = {}
    /\ Down
    /\ UNCHANGED <<live, point, load, before, after, acked, written, fails, edits>>

\* The operator edits config.json, in an editor or with the command line, ...
Edit ==
    /\ pc = "down" /\ edits < MaxEdits /\ written < MaxWrites
    /\ edits' = edits + 1
    /\ written' = written + 1
    /\ live' = [live EXCEPT !["config"] = written + 1]
    /\ UNCHANGED <<point, hist, unsynced, process, before, after, acked, failed, crashes,
                   losses, fails>>

\* ... and the command line makes the current generation what is on the disk.
Reanchor ==
    /\ pc = "down" /\ point.rev # 0 /\ ~Verify(point, live)
    /\ edits > 0
    /\ LET anchored(f) == [p \in DOMAIN f |->
                              IF p \in DOMAIN point.parts /\ live[p] # 0 THEN live[p] ELSE f[p]]
       IN  point' = [rev |-> point.rev, parts |-> anchored(point.parts), all |-> anchored(point.all)]
    /\ UNCHANGED <<live, hist, unsynced, process, history>>

-----------------------------------------------------------------------------
(* Startup: load_inner *)

\* Older generations whose copies are intact.
Candidates ==
    {r \in DOMAIN hist : /\ r < point.rev
                         /\ hist[r].commit.rev # 0
                         /\ Verify(hist[r].commit, hist[r].parts)}

Loaded(state) == pc' = "idle" /\ load' = state /\ todo' = {} /\ source' = 0

\* The current generation is intact, or there is none yet, ...
BootCurrent ==
    /\ pc = "down"
    /\ \/ point.rev = 0 /\ Loaded("Legacy")
       \/ point.rev # 0 /\ Verify(point, live) /\ Loaded("Committed")
    /\ UNCHANGED <<disk, job, history>>

\* Mutant: the oldest intact generation is put back.
BootRollbackOldest ==
    /\ pc = "down" /\ point.rev # 0 /\ ~Verify(point, live)
    /\ \E r \in Candidates :
          /\ \A s \in Candidates : s >= r
          /\ source' = r
          /\ pc' = "restore" /\ todo' = DOMAIN hist[r].commit.parts
    /\ UNCHANGED <<disk, job, load, history>>

\* ... or the newest older one is put back, ...
BootRollback ==
    /\ pc = "down" /\ point.rev # 0 /\ ~Verify(point, live)
    /\ \E r \in Candidates :
          /\ \A s \in Candidates : s <= r
          /\ source' = r
          /\ pc' = "restore" /\ todo' = DOMAIN hist[r].commit.parts
    /\ UNCHANGED <<disk, job, load, history>>

\* ... or there is none: the service starts all the same.
BootTorn ==
    /\ pc = "down" /\ point.rev # 0 /\ ~Verify(point, live)
    /\ Candidates = {}
    /\ Loaded("Torn")
    /\ UNCHANGED <<disk, job, history>>

\* restore_history_parts: a part whose copy is missing is left alone.
RestorePart ==
    /\ pc = "restore" /\ todo # {}
    /\ \/ /\ LET p == First(Listing, todo)
                 copy == hist[source].parts[p]
             IN  live' = [live EXCEPT ![p] = IF copy = 0 THEN @ ELSE copy] /\ todo' = todo \ {p}
          /\ UNCHANGED <<pc, source, load, fails>>
       \/ /\ Fails
          /\ Loaded("Torn")
          /\ UNCHANGED live
    /\ UNCHANGED <<point, hist, unsynced, job, before, after, acked, failed, written,
                   crashes, losses, edits>>

\* A rules_sub.json of the state directory that the generation does not list is deleted.
RestoreClean ==
    /\ pc = "restore" /\ todo = {}
    /\ \/ /\ live' = [p \in Parts |->
                        IF p = "sub" /\ SubInStateDir /\ p \notin DOMAIN hist[source].commit.parts
                        THEN 0 ELSE live[p]]
          /\ pc' = "repoint"
          /\ UNCHANGED <<todo, source, load, fails>>
       \/ /\ Fails
          /\ Loaded("Torn")
          /\ UNCHANGED live
    /\ UNCHANGED <<point, hist, unsynced, job, before, after, acked, failed, written,
                   crashes, losses, edits>>

\* The live parts are verified again and commit.json is replaced.
RestorePoint ==
    /\ pc = "repoint"
    /\ LET g == hist[source].commit
           intact == Verify(g, live) /\ Missing(g, live) = {}
       IN  \/ intact /\ point' = g /\ Loaded("RolledBack") /\ UNCHANGED fails
           \/ intact /\ Fails /\ Loaded("Torn") /\ UNCHANGED point
           \/ ~intact /\ Loaded("Torn") /\ UNCHANGED <<point, fails>>
    /\ UNCHANGED <<live, hist, unsynced, job, before, after, acked, failed, written,
                   crashes, losses, edits>>

-----------------------------------------------------------------------------
\* A fresh installation has a config.json, and rules if they were migrated.
Init ==
    /\ live \in {[config |-> 1, rules |-> r, sub |-> 0] : r \in {0, 1}}
    /\ point = NoGeneration /\ hist = [r \in {} |-> 0] /\ unsynced = {}
    /\ pc = "idle" /\ job = NoGeneration /\ todo = {} /\ source = 0 /\ load = "Legacy"
    /\ before = live /\ after = live /\ acked = FALSE /\ failed = FALSE
    /\ written = 1 /\ crashes = 0 /\ losses = 0 /\ fails = 0 /\ edits = 0

\* What the writers put into one commit: the configuration alone, the rules, or the
\* subscriptions.
Plans == {{"config"}, {"config", "rules"}, {"config", "sub"}}

Commit == CopyPart \/ CopyRecord \/ Point \/ RenamePart \/ Prune
Startup == BootCurrent \/ BootRollback \/ BootTorn \/ RestorePart \/ RestoreClean \/ RestorePoint

Next ==
    \/ \E plan \in Plans, rev \in Revisions : Begin(plan, rev)
    \/ Commit \/ Kill \/ PowerLoss \/ Edit \/ Reanchor \/ Startup

Spec == Init /\ [][Next]_vars

-----------------------------------------------------------------------------
(* Properties *)

\* Every variable stays in the set of values it is meant for; a damaged copy is never put back.
TypeOK ==
    /\ live \in Contents /\ IsGeneration(point)
    /\ DOMAIN hist \subseteq Nat /\ \A r \in DOMAIN hist : IsCopy(hist[r])
    /\ unsynced \subseteq Nat \X Parts
    /\ pc \in {"idle", "copy", "point", "rename", "down", "restore", "repoint"}
    /\ IsGeneration(job) /\ todo \subseteq Parts /\ source \in Nat
    /\ load \in {"Legacy", "Committed", "RolledBack", "Torn"}
    /\ before \in Contents /\ after \in Contents /\ acked \in BOOLEAN /\ failed \in BOOLEAN
    /\ written \in Nat /\ crashes \in Nat /\ losses \in Nat /\ fails \in Nat /\ edits \in Nat

\* Kills alone, at any step of a commit or of a startup and however often.
OnlyKills == acked /\ fails = 0 /\ losses = 0 /\ edits = 0

\* Once a commit has been acknowledged, kills leave the configuration and the rules both as
\* they were before the commit in progress, or both as it wants them; the subscriptions are
\* one or the other, where a rollback does not delete them.
CrashIsAtomic ==
    (pc = "idle" /\ OnlyKills) =>
        /\ \E outcome \in {before, after} : \A p \in Required : live[p] = outcome[p]
        /\ ~SubInStateDir => live["sub"] \in {before["sub"], after["sub"]}

\* At every moment, also inside a commit and after commits that failed half way, the disk
\* holds a generation that a startup would accept.
AlwaysAvailable ==
    (acked /\ losses = 0 /\ edits = 0) => (Verify(point, live) \/ Candidates # {})

\* Whatever was killed, lost, edited or failed before, the configuration and the rules that
\* a startup accepts belong to the same generation.
ServedIsWhole ==
    (pc = "idle" /\ ~failed /\ load \in {"Committed", "RolledBack"}) =>
        \A p \in Required : point.all[p] # 0 => live[p] = point.all[p]
=============================================================================
