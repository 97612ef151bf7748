--------------------------- MODULE ConfigWriters ---------------------------
(***************************************************************************)
(* The calls of the API that change the configuration (ebpdns-server:      *)
(* api.rs, api_state.rs, rules_admin.rs, subscribe.rs).  It is kept twice: *)
(* in memory (state.cfg), where every call reads it, and on disk, where a  *)
(* commit replaces config.json and the rules as one generation.  A call    *)
(* reads, computes, commits and puts the result in memory.  Calls about    *)
(* rules and subscriptions hold state_txn all the while; put_config, the   *)
(* upstreams and reprobe hold it for the commit alone; the note that a     *)
(* subscription was looked at (touch_last_checked) does not take it.       *)
(*                                                                         *)
(* A list is the set of the calls whose additions it holds; "scalars"      *)
(* stands for the other keys and holds the call that set them last.  The   *)
(* rules have a file of their own; memory keeps a copy of it, the `rules`  *)
(* key, or none: config.json has no such key, and at a start the key is    *)
(* missing or an empty list, whatever rules there are.  A commit is one    *)
(* step, which has its effect or fails without: what becomes of one that   *)
(* is interrupted is the subject of StateStore.  What a handler reads      *)
(* between two awaits it reads in one step.                                *)
(***************************************************************************)
EXTENDS Naturals

CONSTANTS
    Calls,          \* the calls, each of which is made once
    NoCall,         \* in a list: the rules that were there at the start
    Bodies          \* the keys that a put_config may submit

Keys == {"scalars", "upstreams", "rule_subscriptions"}
Parts == Keys \cup {"rules"}

ASSUME NoneAssumption == NoCall \notin Calls
ASSUME BodiesAssumption == Bodies \subseteq SUBSET Parts

VARIABLES
    mem,            \* state.cfg without its `rules`
    memRules,       \* its `rules`, if it has the key
    file,           \* config.json
    rules,          \* rules.json
    revision,       \* of commit.json
    txn,            \* who holds state_txn
  (* a call *)
    pc,
    sets,           \* the parts it adds itself to
    old, new,       \* the configuration it read and the one it has prepared
    oldRules, newRules,
    carried,        \* the `rules` of the configuration it has prepared
    rules_changed,  \* the puts whose rules are not those of memory
    expect,         \* if-revision, or 0
  (* history *)
    lagging,        \* calls that read the memory when it was not what is on disk
    stale,          \* calls whose reading is not what memory and disk hold any more
    overtaken,      \* one of these has written
    staleRules,     \* the same for the `rules` of memory and the rules on disk
    outdated,       \* memory has a list out of date, and no call about rules has replaced it
    told,           \* the list that follows from what the calls were told
    misjudged,      \* a put has left its list unwritten, by a reading out of date
    reverted,       \* a commit outside the lock has taken rules back
    gone            \* additions that another call was asked to remove or replace

disk_vars == <<file, rules, revision>>
store_vars == <<mem, memRules, disk_vars, txn>>
lists_vars == <<oldRules, newRules, carried, rules_changed>>
plan_vars == <<sets, old, new, lists_vars, expect>>
race_vars == <<lagging, stale, overtaken>>
list_races == <<staleRules, outdated>>
told_vars == <<told, misjudged, reverted, gone>>
vars == <<store_vars, pc, plan_vars, race_vars, list_races, told_vars>>

Lists == SUBSET (Calls \cup {NoCall})

\* Memory has a list of rules or none.
NoList == {}

Configs == [Keys -> SUBSET Calls]
Empty == [k \in Keys |-> {}]

\* The stages in which a call holds the lock.
Locked == {"rule", "index", "back", "restore", "sub", "subApply", "refresh", "refreshApply"}
\* ... and the others in which it is under way.
Unlocked == {"put", "upstream", "apply", "undo", "probe", "reload", "touch", "touchRules"}
Ended == {"ok", "failed", "kept"}
Stages == {"idle"} \cup Locked \cup Unlocked \cup Ended

Working == {w \in Calls : pc[w] \in Locked \cup Unlocked}

Init ==
    /\ mem = Empty /\ file = Empty /\ revision = 1
    /\ rules = {NoCall} /\ memRules \in {NoList, {{}}}
    /\ txn = NoCall
    /\ pc = [w \in Calls |-> "idle"]
    /\ sets = [w \in Calls |-> {}]
    /\ old = [w \in Calls |-> Empty] /\ new = [w \in Calls |-> Empty]
    /\ oldRules = [w \in Calls |-> {}] /\ newRules = [w \in Calls |-> {}]
    /\ carried = [w \in Calls |-> NoList] /\ rules_changed = {}
    /\ expect = [w \in Calls |-> 0]
    /\ lagging = {} /\ stale = {} /\ overtaken = FALSE
    /\ staleRules = {} /\ outdated = (memRules # NoList)
    /\ told = rules /\ misjudged = FALSE /\ reverted = FALSE
    /\ gone = [k \in Keys |-> {}]

-----------------------------------------------------------------------------
(* What the steps of the calls are made of *)

Goto(w, stage) == pc' = [pc EXCEPT ![w] = stage]
Begins(w, stage) == pc[w] = "idle" /\ Goto(w, stage)

\* The configuration is read and another is prepared from it.
Prepare(w, config) ==
    /\ old' = [old EXCEPT ![w] = mem]
    /\ new' = [new EXCEPT ![w] = config]
    /\ lagging' = IF mem = file THEN lagging \ {w} ELSE lagging \cup {w}

Reads(w) ==
    /\ stale' = IF mem = file THEN stale \ {w} ELSE stale \cup {w}
    /\ UNCHANGED overtaken

\* The others have read what is not there any more.
Overtakes(w, changes) ==
    /\ stale' = IF changes THEN stale \cup (Working \ {w}) ELSE stale
    /\ overtaken' = (overtaken \/ w \in stale)
    /\ UNCHANGED lagging

\* The same for the rules: a list that is read with the configuration, ...
Carry(w, list) ==
    /\ carried' = [carried EXCEPT ![w] = list]
    /\ staleRules' = IF memRules \subseteq {rules} THEN staleRules \ {w} ELSE staleRules \cup {w}
    /\ UNCHANGED <<memRules, oldRules, outdated>>

\* ... installed with it, ...
InstallRules(w) ==
    /\ memRules' = carried[w]
    /\ outdated' = (outdated \/ (w \in staleRules /\ carried[w] # NoList))
    /\ UNCHANGED staleRules

\* ... replaced in memory alone, by a call about rules (apply_rules_live), ...
ApplyRulesLive(w, list) ==
    /\ memRules' = {list}
    /\ staleRules' = staleRules \cup (Working \ {w})
    /\ outdated' = FALSE

\* ... and written to the disk.
WriteRules(w, list) ==
    /\ rules' = list
    /\ staleRules' = (IF list # rules THEN staleRules \cup Working ELSE staleRules) \ {w}
    /\ UNCHANGED <<memRules, outdated>>

KeepRules == UNCHANGED <<memRules, rules, list_races>>

Adds(w, parts) == sets' = [sets EXCEPT ![w] = parts]

Lock(w) == txn = NoCall /\ txn' = w
Unlock == txn' = NoCall

\* The configuration of the call is written to the disk.
Commit(w) ==
    /\ file' = new[w]
    /\ revision' = revision + 1
    /\ Overtakes(w, new[w] # file)

\* The configuration in memory is replaced.
Install(w, config) ==
    /\ mem' = config
    /\ Overtakes(w, config # mem)
    /\ UNCHANGED <<file, revision>>

-----------------------------------------------------------------------------
(* put_config *)

\* Everything but the submitted keys is taken from memory, before any lock; so is the decision
\* whether the rules that are submitted have to be written.
Put(w, body) ==
    /\ Begins(w, "put")
    /\ Prepare(w, [k \in Keys |-> IF k \in body THEN {w} ELSE mem[k]])
    /\ Reads(w)
    /\ \/ /\ "rules" \notin body
          /\ Carry(w, memRules)
          /\ UNCHANGED <<newRules, rules_changed>>
       \/ /\ "rules" \in body
          /\ \E list \in {{w}, rules} \cup memRules :
                /\ Carry(w, {list})
                /\ newRules' = [newRules EXCEPT ![w] = list]
                /\ rules_changed' = IF memRules = {list} THEN rules_changed
                                    ELSE rules_changed \cup {w}
    /\ \E guard \in {0, revision} : expect' = [expect EXCEPT ![w] = guard]
    /\ Adds(w, body)
    /\ UNCHANGED <<mem, disk_vars, txn, told_vars>>

Conflict(w) == expect[w] \notin {0, revision}

\* What is committed under the lock, and told.
PutCommits(w) ==
    /\ Commit(w)
    /\ IF w \in rules_changed THEN WriteRules(w, newRules[w]) ELSE KeepRules
    /\ told' = IF "rules" \in sets[w] THEN newRules[w] ELSE told
    /\ misjudged' = (misjudged \/ ("rules" \in sets[w] /\ w \in staleRules \ rules_changed))
    /\ gone' = [k \in Keys |-> IF k \in sets[w] THEN gone[k] \cup file[k] ELSE gone[k]]
    /\ Goto(w, "apply")
    /\ UNCHANGED <<mem, txn, plan_vars, reverted>>

\* Mutant: the revision is not compared under the lock.
PutCommitUnchecked(w) == pc[w] = "put" /\ txn = NoCall /\ PutCommits(w)

\* put_config_commit, under the lock.
PutCommit(w) == pc[w] = "put" /\ txn = NoCall /\ ~Conflict(w) /\ PutCommits(w)

\* The revision is another one (409), or the commit fails (500).
PutFails(w) ==
    /\ pc[w] = "put" /\ txn = NoCall
    /\ Goto(w, "failed")
    /\ UNCHANGED <<store_vars, plan_vars, race_vars, list_races, told_vars>>

\* Mutant: only the disk is written.
ApplyNothing(w) ==
    /\ pc[w] = "apply"
    /\ Goto(w, "ok")
    /\ UNCHANGED <<store_vars, plan_vars, race_vars, list_races, told_vars>>

\* The end of put_config, of commit_upstreams and of touch_last_checked: memory becomes what
\* was committed, with the rules that were read or submitted, and with no lock.
Apply(w) ==
    /\ pc[w] = "apply"
    /\ Install(w, new[w]) /\ InstallRules(w)
    /\ Goto(w, "ok")
    /\ UNCHANGED <<rules, txn, plan_vars, told_vars>>

-----------------------------------------------------------------------------
(* The upstreams and their latencies: api_add_upstream and the like, reprobe *)

WithUpstream(w) == [mem EXCEPT !["upstreams"] = @ \cup {w}]

Upstream(w) ==
    /\ Begins(w, "upstream")
    /\ Prepare(w, WithUpstream(w)) /\ Reads(w) /\ Carry(w, memRules)
    /\ Adds(w, {"upstreams"})
    /\ UNCHANGED <<mem, disk_vars, txn, newRules, rules_changed, expect, told_vars>>

\* The latencies are in memory first.
Probe(w) ==
    /\ Begins(w, "probe")
    /\ mem' = WithUpstream(w)
    /\ Prepare(w, WithUpstream(w)) /\ Carry(w, memRules)
    /\ stale' = (IF mem = file THEN stale \ {w} ELSE stale \cup {w}) \cup (Working \ {w})
    /\ Adds(w, {"upstreams"})
    /\ UNCHANGED <<disk_vars, txn, overtaken, newRules, rules_changed, expect, told_vars>>

\* commit_cfg_only, under the lock.
CommitUpstreams(w) ==
    /\ pc[w] \in {"upstream", "probe"} /\ txn = NoCall
    /\ Commit(w)
    /\ KeepRules
    /\ Goto(w, IF pc[w] = "upstream" THEN "apply" ELSE "ok")
    /\ UNCHANGED <<mem, txn, plan_vars, told_vars>>

CommitUpstreamsFails(w) ==
    /\ pc[w] \in {"upstream", "probe"} /\ txn = NoCall
    /\ Goto(w, "undo")
    /\ UNCHANGED <<store_vars, plan_vars, race_vars, list_races, told_vars>>

\* Mutant: latencies that could not be stored stay in memory.
UndoNothing(w) ==
    /\ pc[w] = "undo"
    /\ Goto(w, "failed")
    /\ UNCHANGED <<store_vars, plan_vars, race_vars, list_races, told_vars>>

\* Memory becomes what it was when the call came in.
Undo(w) ==
    /\ pc[w] = "undo"
    /\ Install(w, old[w]) /\ InstallRules(w)
    /\ Goto(w, "failed")
    /\ UNCHANGED <<rules, txn, plan_vars, told_vars>>

-----------------------------------------------------------------------------
(* add_rule, delete_rule: under the lock from the reading to the index *)

\* The rules are those on disk; memory gets the new list before the disk does.
ChangesRules(w, list) ==
    /\ Begins(w, "rule")
    /\ Lock(w)
    /\ oldRules' = [oldRules EXCEPT ![w] = rules]
    /\ newRules' = [newRules EXCEPT ![w] = list]
    /\ Prepare(w, mem) /\ Reads(w)
    /\ ApplyRulesLive(w, list)
    /\ UNCHANGED <<mem, disk_vars, carried, rules_changed, expect, told_vars>>

AddRule(w) == ChangesRules(w, rules \cup {w}) /\ Adds(w, {"rules"})
DeleteRule(w, r) == ChangesRules(w, rules \ {r}) /\ r \in rules /\ Adds(w, {})

RuleCommit(w) ==
    /\ pc[w] = "rule"
    /\ Commit(w)
    /\ WriteRules(w, newRules[w])
    /\ Goto(w, "index")
    /\ UNCHANGED <<mem, txn, plan_vars, told_vars>>

Indexed(w) ==
    /\ pc[w] = "index"
    /\ told' = (told \ (oldRules[w] \ newRules[w])) \cup (newRules[w] \ oldRules[w])
    /\ Unlock /\ Goto(w, "ok")
    /\ UNCHANGED <<mem, memRules, disk_vars, plan_vars, race_vars, list_races, misjudged,
                   reverted, gone>>

\* The commit fails, or the index cannot be built from the new list.
RuleFails(w) ==
    /\ pc[w] \in {"rule", "index"}
    /\ Goto(w, "back")
    /\ UNCHANGED <<store_vars, plan_vars, race_vars, list_races, told_vars>>

\* rollback: memory has the old list again, which is written with the configuration that is
\* in memory by now.
Back(w) ==
    /\ pc[w] = "back"
    /\ Prepare(w, mem) /\ Reads(w)
    /\ ApplyRulesLive(w, oldRules[w])
    /\ Goto(w, "restore")
    /\ UNCHANGED <<mem, disk_vars, txn, sets, lists_vars, expect, told_vars>>

\* Mutant: the rollback leaves the list on disk.
RestoreConfig(w) ==
    /\ pc[w] = "restore"
    /\ Commit(w)
    /\ KeepRules
    /\ Unlock /\ Goto(w, "failed")
    /\ UNCHANGED <<mem, plan_vars, told_vars>>

Restore(w) ==
    /\ pc[w] = "restore"
    /\ Commit(w)
    /\ WriteRules(w, oldRules[w])
    /\ Unlock /\ Goto(w, "failed")
    /\ UNCHANGED <<mem, plan_vars, told_vars>>

\* The second commit fails too: "disk and memory may differ".
RestoreFails(w) ==
    /\ pc[w] = "restore"
    /\ told' = rules
    /\ outdated' = (outdated \/ ~(memRules \subseteq {rules}))
    /\ Unlock /\ Goto(w, "kept")
    /\ UNCHANGED <<mem, memRules, disk_vars, plan_vars, race_vars, staleRules, misjudged,
                   reverted, gone>>

-----------------------------------------------------------------------------
(* subscribe, delete, update_once: under the lock as well *)

\* Only the list of subscriptions is a new one.
ChangesSubscriptions(w, list) ==
    /\ Begins(w, "sub")
    /\ Lock(w)
    /\ Prepare(w, [mem EXCEPT !["rule_subscriptions"] = list]) /\ Reads(w)
    /\ KeepRules
    /\ UNCHANGED <<mem, file, revision, lists_vars, expect, told_vars>>

Subscribe(w) ==
    /\ ChangesSubscriptions(w, mem["rule_subscriptions"] \cup {w})
    /\ Adds(w, {"rule_subscriptions"})

Unsubscribe(w, s) ==
    /\ s \in mem["rule_subscriptions"]
    /\ ChangesSubscriptions(w, mem["rule_subscriptions"] \ {s})
    /\ Adds(w, {})

SubCommit(w) ==
    /\ pc[w] = "sub"
    /\ Commit(w)
    /\ KeepRules
    /\ gone' = [gone EXCEPT !["rule_subscriptions"] =
                   @ \cup (old[w]["rule_subscriptions"] \ new[w]["rule_subscriptions"])]
    /\ Goto(w, "subApply")
    /\ UNCHANGED <<mem, txn, plan_vars, told, misjudged, reverted>>

\* commit_sub_txn puts the list in memory; an index that cannot be built makes the call fail,
\* and the change stays.
SubApply(w) ==
    /\ pc[w] = "subApply"
    /\ Install(w, [mem EXCEPT !["rule_subscriptions"] = new[w]["rule_subscriptions"]])
    /\ KeepRules
    /\ Unlock
    /\ Goto(w, "ok") \/ Goto(w, "kept")
    /\ UNCHANGED <<plan_vars, told_vars>>

\* The contents of the subscriptions are fetched anew; what changes in the configuration is
\* when they were, but all of it is written.
Refresh(w) ==
    /\ Begins(w, "refresh")
    /\ Lock(w)
    /\ Prepare(w, mem) /\ Reads(w) /\ Carry(w, memRules)
    /\ UNCHANGED <<mem, disk_vars, sets, newRules, rules_changed, expect, told_vars>>

RefreshCommit(w) ==
    /\ pc[w] = "refresh"
    /\ Commit(w)
    /\ KeepRules
    /\ Goto(w, "refreshApply")
    /\ UNCHANGED <<mem, txn, plan_vars, told_vars>>

RefreshApply(w) ==
    /\ pc[w] = "refreshApply"
    /\ Install(w, new[w]) /\ InstallRules(w)
    /\ Unlock /\ Goto(w, "ok")
    /\ UNCHANGED <<rules, plan_vars, told_vars>>

\* A commit of either fails without effect.
SubscriptionsFail(w) ==
    /\ pc[w] \in {"sub", "refresh"}
    /\ Unlock /\ Goto(w, "failed")
    /\ UNCHANGED <<mem, memRules, disk_vars, plan_vars, race_vars, list_races, told_vars>>

-----------------------------------------------------------------------------
(* update, of a subscription whose contents are the same (touch_last_checked): no lock *)

Touch(w) ==
    /\ Begins(w, "touch")
    /\ Prepare(w, mem) /\ Reads(w) /\ Carry(w, memRules)
    /\ UNCHANGED <<mem, disk_vars, txn, sets, newRules, rules_changed, expect, told_vars>>

\* The commit reads the rules that are on disk ...
TouchRules(w) ==
    /\ pc[w] = "touch"
    /\ newRules' = [newRules EXCEPT ![w] = rules]
    /\ Goto(w, "touchRules")
    /\ UNCHANGED <<store_vars, sets, old, new, oldRules, carried, rules_changed, expect,
                   race_vars, list_races, told_vars>>

\* ... and writes them, whatever has been committed meanwhile.
TouchCommit(w) ==
    /\ pc[w] = "touchRules"
    /\ Commit(w)
    /\ rules' = newRules[w]
    /\ staleRules' = IF newRules[w] # rules THEN staleRules \cup Working ELSE staleRules
    /\ reverted' = (reverted \/ newRules[w] # rules)
    /\ Goto(w, "apply")
    /\ UNCHANGED <<mem, memRules, txn, plan_vars, outdated, told, misjudged, gone>>

TouchFails(w) ==
    /\ pc[w] \in {"touch", "touchRules"}
    /\ Goto(w, "failed")
    /\ UNCHANGED <<store_vars, plan_vars, race_vars, list_races, told_vars>>

-----------------------------------------------------------------------------
(* reload *)

\* config.json is read, and becomes what is in memory: no rules with it.
Reload(w) ==
    /\ Begins(w, "reload")
    /\ Prepare(w, file) /\ Reads(w) /\ Carry(w, NoList)
    /\ UNCHANGED <<mem, disk_vars, txn, sets, newRules, rules_changed, expect, told_vars>>

Reloaded(w) ==
    /\ pc[w] = "reload"
    /\ Install(w, new[w]) /\ InstallRules(w)
    /\ Goto(w, "ok")
    /\ UNCHANGED <<rules, txn, plan_vars, told_vars>>

-----------------------------------------------------------------------------
PutStep(w) ==
    \/ \E body \in Bodies : Put(w, body)
    \/ PutCommit(w) \/ PutFails(w) \/ Apply(w)

UpstreamStep(w) ==
    Upstream(w) \/ Probe(w) \/ CommitUpstreams(w) \/ CommitUpstreamsFails(w) \/ Undo(w)

RuleStep(w) ==
    \/ AddRule(w) \/ \E r \in Calls : DeleteRule(w, r)
    \/ RuleCommit(w) \/ Indexed(w) \/ RuleFails(w)
    \/ Back(w) \/ Restore(w) \/ RestoreFails(w)

SubscriptionStep(w) ==
    \/ Subscribe(w) \/ \E s \in Calls : Unsubscribe(w, s)
    \/ SubCommit(w) \/ SubApply(w)
    \/ Refresh(w) \/ RefreshCommit(w) \/ RefreshApply(w) \/ SubscriptionsFail(w)

TouchStep(w) == Touch(w) \/ TouchRules(w) \/ TouchCommit(w) \/ TouchFails(w)

ReloadStep(w) == Reload(w) \/ Reloaded(w)

Next ==
    \E w \in Calls :
        \/ PutStep(w) \/ UpstreamStep(w) \/ RuleStep(w)
        \/ SubscriptionStep(w) \/ TouchStep(w) \/ ReloadStep(w)

Spec == Init /\ [][Next]_vars

-----------------------------------------------------------------------------
(* Properties *)

\* Every variable stays in the set of values it is meant for.
TypeOK ==
    /\ mem \in Configs /\ file \in Configs
    /\ rules \in Lists /\ memRules \in SUBSET Lists
    /\ revision \in Nat \ {0} /\ txn \in Calls \cup {NoCall}
    /\ pc \in [Calls -> Stages] /\ sets \in [Calls -> SUBSET Parts]
    /\ old \in [Calls -> Configs] /\ new \in [Calls -> Configs]
    /\ oldRules \in [Calls -> Lists] /\ newRules \in [Calls -> Lists]
    /\ carried \in [Calls -> SUBSET Lists] /\ rules_changed \in SUBSET Calls
    /\ expect \in [Calls -> Nat]
    /\ lagging \in SUBSET Calls /\ stale \in SUBSET Calls /\ staleRules \in SUBSET Calls
    /\ {overtaken, outdated, misjudged, reverted} \subseteq BOOLEAN
    /\ told \in Lists
    /\ gone \in [Keys -> SUBSET Calls]

\* The stages of a call about rules at which the disk may have what is not told yet.
Pending == {"index", "back", "restore"}

\* "Of 50 rounds at once no update is lost" (rules_admin.rs:1416): the rules on disk are those
\* that follow from what the calls were told, one after the other: a list that a put has
\* submitted, an addition, a removal; what failed has left nothing.  This holds for all calls
\* that take the lock, and with those that take it for the commit alone.  Two races are left
\* out: a commit outside the lock may take rules back, and a put compares its list with that
\* of memory before it has the lock, and leaves it unwritten if the two are the same.
RulesAsReported ==
    ~reverted /\ ~misjudged /\ (\A w \in Calls : pc[w] \notin Pending) => rules = told

\* The same for the configuration: an acknowledged change is on disk, and a failed one
\* neither there nor in memory, unless a call has written what it computed from a reading
\* that other calls had made out of date.
ConfigAsReported ==
    ~overtaken =>
        \A w \in Calls : \A k \in sets[w] \cap Keys :
            /\ pc[w] = "ok" => w \in file[k] \cup gone[k]
            /\ pc[w] = "failed" => w \notin file[k] \cup mem[k]

\* "Memory and disk have one source": when no call is at work the two are the same,
\* whichever of them failed, with the same exception.  The rules in memory, if there are any,
\* are those on disk, unless memory still has the list of the start, a list that was installed
\* when others had made it out of date, or one that a rollback could not write to the disk.
InStep ==
    Working = {} =>
        /\ ~overtaken => mem = file
        /\ ~outdated => memRules \subseteq {rules}

\* With if-revision no update is lost: a put that is let through changes nothing on disk but
\* the keys it submits, whatever was at work when it came in and whatever was written since,
\* unless memory was not what is on disk at the moment it was read.
GuardedPutLosesNothing ==
    [][\A w \in Calls :
          pc[w] = "put" /\ pc'[w] = "apply" /\ expect[w] # 0 /\ w \notin lagging =>
              \A k \in Keys \ sets[w] : file'[k] = file[k]]_vars
=============================================================================
