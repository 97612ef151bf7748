------------------------ MODULE ConfigWriters_proofs ------------------------
(***************************************************************************)
(* What ConfigWriters promises holds for any set of calls and any keys     *)
(* that they submit.  The inductive invariant says what a call under way   *)
(* has prepared, as long as nobody else has changed what it was prepared   *)
(* from: the disk, with the call's own change.  Then a commit takes no     *)
(* other call's change with it, and the step after the commit, or after a  *)
(* failure, brings memory back to the disk.                                *)
(***************************************************************************)
EXTENDS ConfigWriters, TLAPS

RuleStages == {"rule", "index", "back", "restore"}

\* The lock is held by the call that is in one of its stages, by no other.
LockHeld == \A w \in Calls : pc[w] \in Locked <=> txn = w

\* What a call adds itself to, by what it does.
Kinds ==
    \A w \in Calls :
        /\ pc[w] \in {"idle", "refresh", "refreshApply", "touch", "touchRules",
            "reload"} => sets[w] = {}
        /\ pc[w] \in RuleStages => sets[w] \subseteq {"rules"}
        /\ pc[w] \in {"sub", "subApply"} => sets[w] \subseteq {"rule_subscriptions"}
        /\ pc[w] \in {"upstream", "probe", "undo"} => sets[w] = {"upstreams"}

\* What a call has prepared from a reading that is not out of date.
Sound(w) ==
    /\ pc[w] \in {"put", "upstream", "rule", "index", "restore", "sub", "refresh",
                  "touch", "touchRules", "reload"} => mem = file
    /\ pc[w] \in {"rule", "index", "restore", "refresh", "touch", "touchRules", "reload",
                  "apply", "subApply", "refreshApply"} => new[w] = file
    /\ pc[w] \in {"upstream", "probe", "undo", "sub"} => old[w] = file
    /\ pc[w] = "put" => \A k \in Keys : new[w][k] = IF k \in sets[w] THEN {w} ELSE file[k]
    /\ pc[w] \in {"upstream", "probe"} =>
           new[w] = [file EXCEPT !["upstreams"] = @ \cup {w}]
    /\ pc[w] = "probe" => mem = new[w]
    /\ pc[w] = "sub" =>
           /\ new[w] = [file EXCEPT !["rule_subscriptions"] = new[w]["rule_subscriptions"]]
           /\ new[w]["rule_subscriptions"] \subseteq file["rule_subscriptions"] \cup {w}
           /\ "rule_subscriptions" \in sets[w] => w \in new[w]["rule_subscriptions"]
    /\ pc[w] = "subApply" =>
           mem = [file EXCEPT !["rule_subscriptions"] = mem["rule_subscriptions"]]

Prepared == \A w \in Calls : w \notin stale => Sound(w)

\* Memory and disk differ only while a call is between the two.
Settled ==
    ~overtaken /\ mem # file =>
        \E w \in Calls : pc[w] \in {"apply", "subApply", "refreshApply", "probe", "undo"}

\* ConfigAsReported, of calls under way too.
ConfigKept ==
    ~overtaken =>
        \A w \in Calls :
            /\ pc[w] = "idle" => \A k \in Keys : w \notin file[k] \cup mem[k]
            /\ \A k \in sets[w] \cap Keys :
                   /\ pc[w] \in {"apply", "subApply", "ok"} => w \in file[k] \cup gone[k]
                   /\ pc[w] \in {"put", "upstream", "sub",
                       "failed"} => w \notin file[k] \cup mem[k]
                   /\ pc[w] \in {"probe", "undo"} => w \notin file[k]

\* The list that a call carries and may yet install is the one on disk, unless the reading is
\* out of date; so is that of a put that has decided not to write its own.
Carrying == {"upstream", "probe", "undo", "apply", "reload", "touch", "touchRules", "refresh",
             "refreshApply"}
Carries(w) == pc[w] \in Carrying \/ (pc[w] = "put" /\ w \notin rules_changed)

CarriedTrue == \A w \in Calls \ staleRules : Carries(w) => carried[w] \subseteq {rules}

PutLists ==
    \A w \in Calls :
        /\ w \in rules_changed => "rules" \in sets[w] /\ pc[w] # "idle"
        /\ pc[w] = "put" /\ "rules" \in sets[w] => carried[w] = {newRules[w]}

\* Memory has another list than the disk only while a call is between the two, ...
SettledRules ==
    ~outdated /\ ~(memRules \subseteq {rules}) =>
        \E w \in Calls : pc[w] \in {"apply", "rule", "back", "restore"}

\* ... and then the one that a call about rules is about to write, which no other call
\* replaces by what it has read before.
Holds(list, v) ==
    /\ memRules \subseteq {list}
    /\ \A w \in Calls \ staleRules :
           w # v /\ pc[w] \in Carrying => carried[w] \subseteq {list}

LiveRules ==
    ~outdated =>
        \A v \in Calls :
            /\ pc[v] = "rule" => Holds(newRules[v], v)
            /\ pc[v] = "restore" => Holds(oldRules[v], v)

\* RulesAsReported, with a call about rules under way too.
ToldRules ==
    ~reverted /\ ~misjudged =>
        /\ (\A w \in Calls : pc[w] \notin Pending) => rules = told
        /\ \A v \in Calls :
               /\ pc[v] = "rule" => rules = oldRules[v]
               /\ pc[v] = "index" => rules = newRules[v] /\ told = oldRules[v]
               /\ pc[v] \in {"back", "restore"} => told = oldRules[v]

\* A revision that is still the last one vouches for what was read with it.
Guarded ==
    \A w \in Calls :
        /\ expect[w] <= revision
        /\ pc[w] = "put" /\ expect[w] = revision /\ w \notin lagging =>
               \A k \in Keys \ sets[w] : new[w][k] = file[k]

IInv ==
    /\ TypeOK /\ LockHeld /\ Kinds /\ Prepared
    /\ Settled /\ ConfigKept /\ Guarded
    /\ CarriedTrue /\ PutLists /\ SettledRules /\ LiveRules /\ ToldRules

-----------------------------------------------------------------------------
USE NoneAssumption

\* The calls at work are calls.
LEMMA Workers == Working \subseteq Calls
BY DEF Working

\* The names that the actions use are keys or parts.
LEMMA Names ==
    /\ "upstreams" \in Keys /\ "rule_subscriptions" \in Keys
    /\ "rules" \in Parts /\ "rules" \notin Keys /\ Keys \subseteq Parts
BY DEF Keys, Parts

\* A configuration stays one when a key is replaced.
LEMMA Config ==
    ASSUME NEW config \in Configs
    PROVE  /\ \A k \in Keys : config[k] \in SUBSET Calls
           /\ \A k \in Keys : \A s \in SUBSET Calls : [config EXCEPT ![k] = s] \in Configs
BY DEF Configs

\* A call about rules writes a list of rules, ...
LEMMA RuleCalls ==
    ASSUME TypeOK, NEW w \in Calls, AddRule(w) \/ \E r \in Calls : DeleteRule(w, r)
    PROVE  \E list \in Lists, parts \in {{}, {"rules"}} : ChangesRules(w, list) /\ Adds(w, parts)
<1>1. \A r : rules \cup {w} \in Lists /\ rules \ {r} \in Lists
  BY DEF TypeOK, Lists
<1> QED BY <1>1 DEF AddRule, DeleteRule

\* ... and one about subscriptions a list of these.
LEMMA SubscriptionCalls ==
    ASSUME TypeOK, NEW w \in Calls, Subscribe(w) \/ \E s \in Calls : Unsubscribe(w, s)
    PROVE  \E list \in SUBSET Calls, parts \in {{}, {"rule_subscriptions"}} :
               ChangesSubscriptions(w, list) /\ Adds(w, parts)
<1>1. mem["rule_subscriptions"] \in SUBSET Calls
  BY Names, Config DEF TypeOK
<1> QED BY <1>1 DEF Subscribe, Unsubscribe

\* The initial state is well typed.
LEMMA TypeInit == Init => TypeOK
<1> SUFFICES ASSUME Init PROVE TypeOK
  OBVIOUS
<1>1. Empty \in Configs /\ "idle" \in Stages
  BY DEF Empty, Configs, Stages
<1>2. {NoCall} \in Lists /\ {} \in Lists /\ {} \in SUBSET Lists /\ {{}} \in SUBSET Lists
  BY DEF Lists
<1>3. mem \in Configs /\ file \in Configs /\ rules \in Lists /\ memRules \in SUBSET Lists
  BY <1>1, <1>2 DEF Init, NoList
<1>4. revision \in Nat \ {0} /\ txn \in Calls \cup {NoCall} /\ told \in Lists
  BY <1>2 DEF Init
<1>5. pc \in [Calls -> Stages] /\ sets \in [Calls -> SUBSET Parts] /\ expect \in [Calls -> Nat]
  BY <1>1 DEF Init
<1>6. old \in [Calls -> Configs] /\ new \in [Calls -> Configs]
  BY <1>1 DEF Init
<1>7. /\ oldRules \in [Calls -> Lists] /\ newRules \in [Calls -> Lists]
      /\ carried \in [Calls -> SUBSET Lists] /\ rules_changed \in SUBSET Calls
  BY <1>2 DEF Init, NoList
<1>8. /\ lagging \in SUBSET Calls /\ stale \in SUBSET Calls /\ staleRules \in SUBSET Calls
      /\ {overtaken, outdated, misjudged, reverted} \subseteq BOOLEAN
  BY DEF Init
<1>9. gone \in [Keys -> SUBSET Calls]
  BY DEF Init
<1> QED BY <1>3, <1>4, <1>5, <1>6, <1>7, <1>8, <1>9 DEF TypeOK

\* Each action keeps the variables in their sets.
LEMMA TypeStep ==
    ASSUME TypeOK, Next
    PROVE  TypeOK'
<1>1. PICK w \in Calls : \/ PutStep(w) \/ UpstreamStep(w) \/ RuleStep(w)
                         \/ SubscriptionStep(w) \/ TouchStep(w) \/ ReloadStep(w)
  BY DEF Next
<1> USE DEF TypeOK, Stages, Locked, Unlocked, Ended, store_vars, disk_vars, plan_vars,
        lists_vars, race_vars, list_races, told_vars, Goto, Begins, Prepare, Reads, Overtakes,
        Adds, Lock, Unlock, Commit, Install, Carry, InstallRules, ApplyRulesLive, WriteRules,
        KeepRules, NoList
<1>2. CASE PutStep(w)
  <2>1. CASE \E body \in Bodies : Put(w, body)
    <3>1. PICK body \in Bodies : Put(w, body)
      BY <2>1
    <3>2. [k \in Keys |-> IF k \in body THEN {w} ELSE mem[k]] \in Configs
      BY DEF Configs
    <3>3. {w} \in Lists /\ memRules \in SUBSET Lists /\ rules \in Lists /\ body \in SUBSET Parts
      BY BodiesAssumption DEF Lists
    <3>4. CASE "rules" \notin body
      BY <3>1, <3>2, <3>3, <3>4 DEF Put
    <3>5. CASE "rules" \in body
      <4>1. PICK list \in {{w}, rules} \cup memRules :
               /\ Carry(w, {list})
               /\ newRules' = [newRules EXCEPT ![w] = list]
               /\ rules_changed' = IF memRules = {list} THEN rules_changed
                                   ELSE rules_changed \cup {w}
        BY <3>1, <3>5 DEF Put
      <4>2. list \in Lists
        BY <3>3
      <4> QED BY <3>1, <3>2, <3>3, <4>1, <4>2 DEF Put
    <3> QED BY <3>4, <3>5
  <2>2. CASE PutCommit(w)
    <3>1. gone' \in [Keys -> SUBSET Calls]
      BY <2>2 DEF PutCommit, PutCommits, Configs
    <3> QED BY <2>2, <3>1, Workers DEF PutCommit, PutCommits
  <2>3. CASE PutFails(w)
    BY <2>3, Workers, Names, Config DEF PutFails
  <2>4. CASE Apply(w)
    BY <2>4, Workers, Names, Config DEF Apply
  <2> QED BY <1>2, <2>1, <2>2, <2>3, <2>4 DEF PutStep
<1>3. CASE UpstreamStep(w)
  <2>1. CASE Upstream(w)
    BY <2>1, Workers, Names, Config DEF Upstream, WithUpstream
  <2>2. CASE Probe(w)
    BY <2>2, Workers, Names, Config DEF Probe, WithUpstream
  <2>3. CASE CommitUpstreams(w)
    BY <2>3, Workers, Names, Config DEF CommitUpstreams
  <2>4. CASE CommitUpstreamsFails(w)
    BY <2>4, Workers, Names, Config DEF CommitUpstreamsFails
  <2>5. CASE Undo(w)
    BY <2>5, Workers, Names, Config DEF Undo
  <2> QED BY <1>3, <2>1, <2>2, <2>3, <2>4, <2>5 DEF UpstreamStep
<1>4. CASE RuleStep(w)
  <2>1. CASE AddRule(w) \/ \E r \in Calls : DeleteRule(w, r)
    <3>1. PICK list \in Lists, parts \in {{}, {"rules"}} : ChangesRules(w, list) /\ Adds(w, parts)
      BY <2>1, RuleCalls
    <3> QED BY <3>1, Workers, Names, Config DEF ChangesRules
  <2>2. CASE RuleCommit(w)
    BY <2>2, Workers, Names, Config DEF RuleCommit
  <2>3. CASE Indexed(w)
    <3>1. told' \in Lists
      <4>1. newRules[w] \in Lists /\ told \in Lists
        OBVIOUS
      <4>2. told' = (told \ (oldRules[w] \ newRules[w])) \cup (newRules[w] \ oldRules[w])
        BY <2>3 DEF Indexed
      <4> QED BY <4>1, <4>2 DEF Lists
    <3> QED BY <2>3, <3>1, Workers DEF Indexed
  <2>4. CASE RuleFails(w)
    BY <2>4, Workers, Names, Config DEF RuleFails
  <2>5. CASE Back(w)
    <3>1. oldRules[w] \in Lists /\ mem \in Configs
      OBVIOUS
    <3>2. memRules' \in SUBSET Lists /\ staleRules' \in SUBSET Calls
      BY <2>5, <3>1, Workers DEF Back
    <3> QED BY <2>5, <3>1, <3>2 DEF Back
  <2>6. CASE Restore(w)
    BY <2>6, Workers, Names, Config DEF Restore
  <2>7. CASE RestoreFails(w)
    BY <2>7, Workers, Names, Config DEF RestoreFails
  <2> QED BY <1>4, <2>1, <2>2, <2>3, <2>4, <2>5, <2>6, <2>7 DEF RuleStep
<1>5. CASE SubscriptionStep(w)
  <2>1. CASE Subscribe(w) \/ \E s \in Calls : Unsubscribe(w, s)
    <3>1. mem["rule_subscriptions"] \in SUBSET Calls
      BY Names, Config
    <3>2. \A list \in SUBSET Calls : [mem EXCEPT !["rule_subscriptions"] = list] \in Configs
      BY Names, Config
    <3>3. CASE Subscribe(w)
      BY <3>1, <3>2, <3>3, Names DEF Subscribe, ChangesSubscriptions
    <3>4. CASE \E s \in Calls : Unsubscribe(w, s)
      <4>1. PICK s \in Calls : Unsubscribe(w, s)
        BY <3>4
      <4>2. [mem EXCEPT !["rule_subscriptions"] = mem["rule_subscriptions"] \ {s}] \in Configs
        BY <3>1, <3>2
      <4> QED BY <4>1, <4>2 DEF Unsubscribe, ChangesSubscriptions
    <3> QED BY <2>1, <3>3, <3>4
  <2>2. CASE SubCommit(w)
    BY <2>2, Workers, Names, Config DEF SubCommit
  <2>3. CASE SubApply(w)
    BY <2>3, Workers, Names, Config DEF SubApply
  <2>4. CASE Refresh(w)
    BY <2>4, Workers, Names, Config DEF Refresh
  <2>5. CASE RefreshCommit(w)
    BY <2>5, Workers, Names, Config DEF RefreshCommit
  <2>6. CASE RefreshApply(w)
    BY <2>6, Workers, Names, Config DEF RefreshApply
  <2>7. CASE SubscriptionsFail(w)
    BY <2>7, Workers, Names, Config DEF SubscriptionsFail
  <2> QED BY <1>5, <2>1, <2>2, <2>3, <2>4, <2>5, <2>6, <2>7 DEF SubscriptionStep
<1>6. CASE TouchStep(w)
  <2>1. CASE Touch(w)
    BY <2>1, Workers, Names, Config DEF Touch
  <2>2. CASE TouchRules(w)
    BY <2>2, Workers, Names, Config DEF TouchRules
  <2>3. CASE TouchCommit(w)
    BY <2>3, Workers, Names, Config DEF TouchCommit
  <2>4. CASE TouchFails(w)
    BY <2>4, Workers, Names, Config DEF TouchFails
  <2> QED BY <1>6, <2>1, <2>2, <2>3, <2>4 DEF TouchStep
<1>7. CASE ReloadStep(w)
  <2>1. CASE Reload(w)
    BY <2>1, Workers, Names, Config DEF Reload
  <2>2. CASE Reloaded(w)
    BY <2>2, Workers, Names, Config DEF Reloaded
  <2> QED BY <1>7, <2>1, <2>2 DEF ReloadStep
<1> QED BY <1>1, <1>2, <1>3, <1>4, <1>5, <1>6, <1>7

\* The lock is taken where a stage that holds it begins and released where it ends.
LEMMA LockStep ==
    ASSUME TypeOK, LockHeld, Next
    PROVE  LockHeld'
<1>1. PICK w \in Calls : \/ PutStep(w) \/ UpstreamStep(w) \/ RuleStep(w)
                         \/ SubscriptionStep(w) \/ TouchStep(w) \/ ReloadStep(w)
  BY DEF Next
<1> USE DEF TypeOK, LockHeld, Stages, Locked, Unlocked, Ended, store_vars, disk_vars, plan_vars,
        lists_vars, race_vars, list_races, told_vars, Goto, Begins, Prepare, Reads, Overtakes,
        Adds, Lock, Unlock, Commit, Install
<1>2. CASE PutStep(w)
  BY <1>2 DEF PutStep, Put, PutCommit, PutCommits, PutFails, Apply
<1>3. CASE UpstreamStep(w)
  BY <1>3 DEF UpstreamStep, Upstream, WithUpstream, Probe, CommitUpstreams,
        CommitUpstreamsFails, Undo
<1>4. CASE RuleStep(w)
  <2>1. CASE AddRule(w) \/ \E r \in Calls : DeleteRule(w, r)
    <3>1. PICK list \in Lists, parts \in {{}, {"rules"}} : ChangesRules(w, list) /\ Adds(w, parts)
      BY <2>1, RuleCalls
    <3> QED BY <3>1 DEF ChangesRules
  <2>2. CASE RuleCommit(w)
    BY <2>2 DEF RuleCommit
  <2>3. CASE Indexed(w)
    BY <2>3 DEF Indexed
  <2>4. CASE RuleFails(w)
    BY <2>4 DEF RuleFails
  <2>5. CASE Back(w)
    BY <2>5 DEF Back
  <2>6. CASE Restore(w)
    BY <2>6 DEF Restore
  <2>7. CASE RestoreFails(w)
    BY <2>7 DEF RestoreFails
  <2> QED BY <1>4, <2>1, <2>2, <2>3, <2>4, <2>5, <2>6, <2>7 DEF RuleStep
<1>5. CASE SubscriptionStep(w)
  BY <1>5 DEF SubscriptionStep, Subscribe, Unsubscribe, ChangesSubscriptions, SubCommit,
        SubApply, Refresh, RefreshCommit, RefreshApply, SubscriptionsFail
<1>6. CASE TouchStep(w)
  BY <1>6 DEF TouchStep, Touch, TouchRules, TouchCommit, TouchFails
<1>7. CASE ReloadStep(w)
  BY <1>7 DEF ReloadStep, Reload, Reloaded
<1> QED BY <1>1, <1>2, <1>3, <1>4, <1>5, <1>6, <1>7

\* What a call adds itself to does not change under way.
LEMMA KindsStep ==
    ASSUME TypeOK, LockHeld, Kinds, Next
    PROVE  Kinds'
<1>1. PICK w \in Calls : \/ PutStep(w) \/ UpstreamStep(w) \/ RuleStep(w)
                         \/ SubscriptionStep(w) \/ TouchStep(w) \/ ReloadStep(w)
  BY DEF Next
<1> USE DEF TypeOK, Kinds, RuleStages, Stages, Locked, Unlocked, Ended, store_vars, disk_vars,
        plan_vars, lists_vars, race_vars, list_races, told_vars, Goto, Begins, Prepare, Reads,
        Overtakes, Adds, Lock, Unlock, Commit, Install
<1>2. CASE PutStep(w)
  BY <1>2 DEF PutStep, Put, PutCommit, PutCommits, PutFails, Apply
<1>3. CASE UpstreamStep(w)
  BY <1>3 DEF UpstreamStep, Upstream, WithUpstream, Probe, CommitUpstreams,
        CommitUpstreamsFails, Undo
<1>4. CASE RuleStep(w)
  <2>1. CASE AddRule(w) \/ \E r \in Calls : DeleteRule(w, r)
    <3>1. PICK list \in Lists, parts \in {{}, {"rules"}} : ChangesRules(w, list) /\ Adds(w, parts)
      BY <2>1, RuleCalls
    <3> QED BY <3>1 DEF ChangesRules
  <2>2. CASE RuleCommit(w)
    BY <2>2 DEF RuleCommit
  <2>3. CASE Indexed(w)
    BY <2>3 DEF Indexed
  <2>4. CASE RuleFails(w)
    BY <2>4 DEF RuleFails
  <2>5. CASE Back(w)
    BY <2>5 DEF Back
  <2>6. CASE Restore(w)
    BY <2>6 DEF Restore
  <2>7. CASE RestoreFails(w)
    BY <2>7 DEF RestoreFails
  <2> QED BY <1>4, <2>1, <2>2, <2>3, <2>4, <2>5, <2>6, <2>7 DEF RuleStep
<1>5. CASE SubscriptionStep(w)
  BY <1>5 DEF SubscriptionStep, Subscribe, Unsubscribe, ChangesSubscriptions, SubCommit,
        SubApply, Refresh, RefreshCommit, RefreshApply, SubscriptionsFail
<1>6. CASE TouchStep(w)
  BY <1>6 DEF TouchStep, Touch, TouchRules, TouchCommit, TouchFails
<1>7. CASE ReloadStep(w)
  BY <1>7 DEF ReloadStep, Reload, Reloaded
<1> QED BY <1>1, <1>2, <1>3, <1>4, <1>5, <1>6, <1>7

\* The file changes only with the revision.
LEMMA GuardedStep ==
    ASSUME TypeOK, Guarded, Next
    PROVE  Guarded'
<1>1. PICK w \in Calls : \/ PutStep(w) \/ UpstreamStep(w) \/ RuleStep(w)
                         \/ SubscriptionStep(w) \/ TouchStep(w) \/ ReloadStep(w)
  BY DEF Next
<1> USE DEF TypeOK, Guarded, Configs, store_vars, disk_vars, plan_vars, lists_vars, race_vars,
        list_races, told_vars, Goto, Begins, Prepare, Reads, Overtakes, Adds, Lock, Unlock,
        Commit, Install
<1>2. CASE PutStep(w)
  <2>1. CASE \E body \in Bodies : Put(w, body)
    BY <2>1 DEF Put
  <2>2. CASE PutCommit(w)
    BY <2>2 DEF PutCommit, PutCommits
  <2>3. CASE PutFails(w)
    BY <2>3 DEF PutFails
  <2>4. CASE Apply(w)
    BY <2>4 DEF Apply
  <2> QED BY <1>2, <2>1, <2>2, <2>3, <2>4 DEF PutStep
<1>3. CASE UpstreamStep(w)
  <2>1. CASE Upstream(w)
    BY <2>1 DEF Upstream, WithUpstream
  <2>2. CASE Probe(w)
    BY <2>2 DEF Probe, WithUpstream
  <2>3. CASE CommitUpstreams(w)
    BY <2>3 DEF CommitUpstreams
  <2>4. CASE CommitUpstreamsFails(w)
    BY <2>4 DEF CommitUpstreamsFails
  <2>5. CASE Undo(w)
    BY <2>5 DEF Undo
  <2> QED BY <1>3, <2>1, <2>2, <2>3, <2>4, <2>5 DEF UpstreamStep
<1>4. CASE RuleStep(w)
  <2>1. CASE AddRule(w) \/ \E r \in Calls : DeleteRule(w, r)
    <3>1. PICK list \in Lists, parts \in {{}, {"rules"}} : ChangesRules(w, list) /\ Adds(w, parts)
      BY <2>1, RuleCalls
    <3> QED BY <3>1 DEF ChangesRules
  <2>2. CASE RuleCommit(w)
    BY <2>2 DEF RuleCommit
  <2>3. CASE Indexed(w)
    BY <2>3 DEF Indexed
  <2>4. CASE RuleFails(w)
    BY <2>4 DEF RuleFails
  <2>5. CASE Back(w)
    BY <2>5 DEF Back
  <2>6. CASE Restore(w)
    BY <2>6 DEF Restore
  <2>7. CASE RestoreFails(w)
    BY <2>7 DEF RestoreFails
  <2> QED BY <1>4, <2>1, <2>2, <2>3, <2>4, <2>5, <2>6, <2>7 DEF RuleStep
<1>5. CASE SubscriptionStep(w)
  <2>1. CASE Subscribe(w) \/ \E s \in Calls : Unsubscribe(w, s)
    <3>1. PICK list \in SUBSET Calls, parts \in {{}, {"rule_subscriptions"}} :
             ChangesSubscriptions(w, list) /\ Adds(w, parts)
      BY <2>1, SubscriptionCalls
    <3> QED BY <3>1 DEF ChangesSubscriptions
  <2>2. CASE SubCommit(w)
    BY <2>2 DEF SubCommit
  <2>3. CASE SubApply(w)
    BY <2>3 DEF SubApply
  <2>4. CASE Refresh(w)
    BY <2>4 DEF Refresh
  <2>5. CASE RefreshCommit(w)
    BY <2>5 DEF RefreshCommit
  <2>6. CASE RefreshApply(w)
    BY <2>6 DEF RefreshApply
  <2>7. CASE SubscriptionsFail(w)
    BY <2>7 DEF SubscriptionsFail
  <2> QED BY <1>5, <2>1, <2>2, <2>3, <2>4, <2>5, <2>6, <2>7 DEF SubscriptionStep
<1>6. CASE TouchStep(w)
  <2>1. CASE Touch(w)
    BY <2>1 DEF Touch
  <2>2. CASE TouchRules(w)
    BY <2>2 DEF TouchRules
  <2>3. CASE TouchCommit(w)
    BY <2>3 DEF TouchCommit
  <2>4. CASE TouchFails(w)
    BY <2>4 DEF TouchFails
  <2> QED BY <1>6, <2>1, <2>2, <2>3, <2>4 DEF TouchStep
<1>7. CASE ReloadStep(w)
  <2>1. CASE Reload(w)
    BY <2>1 DEF Reload
  <2>2. CASE Reloaded(w)
    BY <2>2 DEF Reloaded
  <2> QED BY <1>7, <2>1, <2>2 DEF ReloadStep
<1> QED BY <1>1, <1>2, <1>3, <1>4, <1>5, <1>6, <1>7

\* A step that makes memory and disk differ leaves a call that is going to repair it.
LEMMA SettledStep ==
    ASSUME TypeOK, Prepared, Settled, Next
    PROVE  Settled'
<1>1. PICK w \in Calls : \/ PutStep(w) \/ UpstreamStep(w) \/ RuleStep(w)
                         \/ SubscriptionStep(w) \/ TouchStep(w) \/ ReloadStep(w)
  BY DEF Next
<1> USE DEF TypeOK, Prepared, Sound, Settled, Configs, store_vars, disk_vars, plan_vars,
        lists_vars, race_vars, list_races, told_vars, Goto, Begins, Prepare, Reads, Overtakes,
        Adds, Lock, Unlock, Commit, Install
<1>2. CASE PutStep(w)
  <2>1. CASE \E body \in Bodies : Put(w, body)
    BY <2>1 DEF Put
  <2>2. CASE PutCommit(w)
    BY <2>2 DEF PutCommit, PutCommits
  <2>3. CASE PutFails(w)
    BY <2>3 DEF PutFails
  <2>4. CASE Apply(w)
    BY <2>4 DEF Apply
  <2> QED BY <1>2, <2>1, <2>2, <2>3, <2>4 DEF PutStep
<1>3. CASE UpstreamStep(w)
  <2>1. CASE Upstream(w)
    BY <2>1 DEF Upstream, WithUpstream
  <2>2. CASE Probe(w)
    BY <2>2 DEF Probe, WithUpstream
  <2>3. CASE CommitUpstreams(w)
    <3>1. CASE pc[w] = "upstream"
      BY <2>3, <3>1 DEF CommitUpstreams
    <3>2. CASE pc[w] = "probe"
      BY <2>3, <3>2 DEF CommitUpstreams
    <3> QED BY <2>3, <3>1, <3>2 DEF CommitUpstreams
  <2>4. CASE CommitUpstreamsFails(w)
    BY <2>4 DEF CommitUpstreamsFails
  <2>5. CASE Undo(w)
    BY <2>5 DEF Undo
  <2> QED BY <1>3, <2>1, <2>2, <2>3, <2>4, <2>5 DEF UpstreamStep
<1>4. CASE RuleStep(w)
  <2>1. CASE AddRule(w) \/ \E r \in Calls : DeleteRule(w, r)
    <3>1. PICK list \in Lists, parts \in {{}, {"rules"}} : ChangesRules(w, list) /\ Adds(w, parts)
      BY <2>1, RuleCalls
    <3> QED BY <3>1 DEF ChangesRules
  <2>2. CASE RuleCommit(w)
    BY <2>2 DEF RuleCommit
  <2>3. CASE Indexed(w)
    BY <2>3 DEF Indexed
  <2>4. CASE RuleFails(w)
    BY <2>4 DEF RuleFails
  <2>5. CASE Back(w)
    BY <2>5 DEF Back
  <2>6. CASE Restore(w)
    BY <2>6 DEF Restore
  <2>7. CASE RestoreFails(w)
    BY <2>7 DEF RestoreFails
  <2> QED BY <1>4, <2>1, <2>2, <2>3, <2>4, <2>5, <2>6, <2>7 DEF RuleStep
<1>5. CASE SubscriptionStep(w)
  <2>1. CASE Subscribe(w) \/ \E s \in Calls : Unsubscribe(w, s)
    <3>1. PICK list \in SUBSET Calls, parts \in {{}, {"rule_subscriptions"}} :
             ChangesSubscriptions(w, list) /\ Adds(w, parts)
      BY <2>1, SubscriptionCalls
    <3> QED BY <3>1 DEF ChangesSubscriptions
  <2>2. CASE SubCommit(w)
    BY <2>2 DEF SubCommit
  <2>3. CASE SubApply(w)
    BY <2>3 DEF SubApply
  <2>4. CASE Refresh(w)
    BY <2>4 DEF Refresh
  <2>5. CASE RefreshCommit(w)
    BY <2>5 DEF RefreshCommit
  <2>6. CASE RefreshApply(w)
    BY <2>6 DEF RefreshApply
  <2>7. CASE SubscriptionsFail(w)
    BY <2>7 DEF SubscriptionsFail
  <2> QED BY <1>5, <2>1, <2>2, <2>3, <2>4, <2>5, <2>6, <2>7 DEF SubscriptionStep
<1>6. CASE TouchStep(w)
  BY <1>6 DEF TouchStep, Touch, TouchRules, TouchCommit, TouchFails
<1>7. CASE ReloadStep(w)
  BY <1>7 DEF ReloadStep, Reload, Reloaded
<1> QED BY <1>1, <1>2, <1>3, <1>4, <1>5, <1>6, <1>7

\* A step changes nothing of another call, and changes neither memory nor disk under one that
\* is at work without making its reading out of date.
LEMMA Others ==
    ASSUME TypeOK, NEW w \in Calls,
           \/ PutStep(w) \/ UpstreamStep(w) \/ RuleStep(w)
           \/ SubscriptionStep(w) \/ TouchStep(w) \/ ReloadStep(w)
    PROVE  \A v \in Calls \ {w} :
               /\ pc'[v] = pc[v] /\ sets'[v] = sets[v] /\ old'[v] = old[v] /\ new'[v] = new[v]
               /\ v \notin stale' => v \notin stale /\ (v \in Working => mem' = mem /\ file' = file)
<1>1. \/ PutStep(w) \/ UpstreamStep(w) \/ RuleStep(w)
      \/ SubscriptionStep(w) \/ TouchStep(w) \/ ReloadStep(w)
  OBVIOUS
<1> USE DEF TypeOK, store_vars, disk_vars, plan_vars, lists_vars, race_vars, list_races,
        told_vars, Goto, Begins, Prepare, Reads, Overtakes, Adds, Lock, Unlock, Commit, Install
<1>2. CASE PutStep(w)
  BY <1>2 DEF PutStep, Put, PutCommit, PutCommits, PutFails, Apply
<1>3. CASE UpstreamStep(w)
  BY <1>3 DEF UpstreamStep, Upstream, WithUpstream, Probe, CommitUpstreams,
        CommitUpstreamsFails, Undo
<1>4. CASE RuleStep(w)
  BY <1>4 DEF RuleStep, AddRule, DeleteRule, ChangesRules, RuleCommit, Indexed, RuleFails,
        Back, Restore, RestoreFails
<1>5. CASE SubscriptionStep(w)
  BY <1>5 DEF SubscriptionStep, Subscribe, Unsubscribe, ChangesSubscriptions, SubCommit,
        SubApply, Refresh, RefreshCommit, RefreshApply, SubscriptionsFail
<1>6. CASE TouchStep(w)
  BY <1>6 DEF TouchStep, Touch, TouchRules, TouchCommit, TouchFails
<1>7. CASE ReloadStep(w)
  BY <1>7 DEF ReloadStep, Reload, Reloaded
<1> QED BY <1>1, <1>2, <1>3, <1>4, <1>5, <1>6, <1>7

\* What a call prepares is what it found with its own change.
LEMMA OwnSound ==
    ASSUME TypeOK, Kinds, Prepared, NEW w \in Calls,
           \/ PutStep(w) \/ UpstreamStep(w) \/ RuleStep(w)
           \/ SubscriptionStep(w) \/ TouchStep(w) \/ ReloadStep(w)
    PROVE  w \notin stale' => Sound(w)'
<1>1. \/ PutStep(w) \/ UpstreamStep(w) \/ RuleStep(w)
      \/ SubscriptionStep(w) \/ TouchStep(w) \/ ReloadStep(w)
  OBVIOUS
<1> USE DEF TypeOK, Kinds, RuleStages, Prepared, Sound, Configs, store_vars, disk_vars,
        plan_vars, lists_vars, race_vars, list_races, told_vars, Goto, Begins, Prepare, Reads,
        Overtakes, Adds, Lock, Unlock, Commit, Install
<1>2. CASE PutStep(w)
  <2>1. CASE \E body \in Bodies : Put(w, body)
    BY <2>1, Names DEF Put
  <2>2. CASE PutCommit(w)
    BY <2>2, Names DEF PutCommit, PutCommits
  <2>3. CASE PutFails(w)
    BY <2>3, Names DEF PutFails
  <2>4. CASE Apply(w)
    BY <2>4, Names DEF Apply
  <2> QED BY <1>2, <2>1, <2>2, <2>3, <2>4 DEF PutStep
<1>3. CASE UpstreamStep(w)
  <2>1. CASE Upstream(w)
    <3>1. /\ pc'[w] = "upstream" /\ mem' = mem /\ file' = file
          /\ new'[w] = WithUpstream(w) /\ old'[w] = mem
          /\ w \notin stale' => mem = file
      BY <2>1, Names DEF Upstream
    <3> HIDE DEF TypeOK, Kinds, Prepared, Configs, Goto, Begins, Prepare, Reads, Overtakes, Adds
    <3> QED BY <3>1 DEF Sound, WithUpstream
  <2>2. CASE Probe(w)
    <3>1. /\ pc'[w] = "probe" /\ mem' = WithUpstream(w) /\ file' = file
          /\ new'[w] = WithUpstream(w) /\ old'[w] = mem
          /\ w \notin stale' => mem = file
      BY <2>2, Names DEF Probe
    <3> HIDE DEF TypeOK, Kinds, Prepared, Configs, Goto, Begins, Prepare, Reads, Overtakes, Adds
    <3> QED BY <3>1 DEF Sound, WithUpstream
  <2>3. CASE CommitUpstreams(w)
    BY <2>3, Names DEF CommitUpstreams
  <2>4. CASE CommitUpstreamsFails(w)
    BY <2>4, Names DEF CommitUpstreamsFails
  <2>5. CASE Undo(w)
    BY <2>5, Names DEF Undo
  <2> QED BY <1>3, <2>1, <2>2, <2>3, <2>4, <2>5 DEF UpstreamStep
<1>4. CASE RuleStep(w)
  <2>1. CASE AddRule(w) \/ \E r \in Calls : DeleteRule(w, r)
    <3>1. PICK list \in Lists, parts \in {{}, {"rules"}} : ChangesRules(w, list) /\ Adds(w, parts)
      BY <2>1, RuleCalls
    <3> QED BY <3>1, Names DEF ChangesRules
  <2>2. CASE RuleCommit(w)
    <3>1. pc[w] = "rule" /\ pc'[w] = "index" /\ mem' = mem /\ file' = new[w] /\ new' = new
      BY <2>2 DEF RuleCommit
    <3>2. w \notin stale' => Sound(w)
      BY <2>2 DEF RuleCommit
    <3> HIDE DEF TypeOK, Kinds, Prepared, Configs, Goto, Begins, Prepare, Reads, Overtakes,
        Adds, Commit
    <3> QED BY <3>1, <3>2 DEF Sound
  <2>3. CASE Indexed(w)
    BY <2>3, Names DEF Indexed
  <2>4. CASE RuleFails(w)
    BY <2>4, Names DEF RuleFails
  <2>5. CASE Back(w)
    BY <2>5, Names DEF Back
  <2>6. CASE Restore(w)
    BY <2>6, Names DEF Restore
  <2>7. CASE RestoreFails(w)
    BY <2>7, Names DEF RestoreFails
  <2> QED BY <1>4, <2>1, <2>2, <2>3, <2>4, <2>5, <2>6, <2>7 DEF RuleStep
<1>5. CASE SubscriptionStep(w)
  <2>1. CASE Subscribe(w) \/ \E s \in Calls : Unsubscribe(w, s)
    <3>1. CASE Subscribe(w)
      <4>1. /\ pc'[w] = "sub" /\ mem' = mem /\ file' = file /\ old'[w] = mem
            /\ w \notin stale' => mem = file
            /\ new'[w] = [mem EXCEPT !["rule_subscriptions"] = mem["rule_subscriptions"] \cup {w}]
        BY <3>1 DEF Subscribe, ChangesSubscriptions
      <4>2. new'[w]["rule_subscriptions"] = mem["rule_subscriptions"] \cup {w}
        BY <4>1, Names
      <4> HIDE DEF TypeOK, Kinds, Prepared, Configs, Goto, Begins, Prepare, Reads, Adds, Lock
      <4> QED BY <4>1, <4>2 DEF Sound
    <3>2. CASE \E s \in Calls : Unsubscribe(w, s)
      <4>1. PICK s \in Calls : Unsubscribe(w, s)
        BY <3>2
      <4>2. /\ pc'[w] = "sub" /\ mem' = mem /\ file' = file /\ old'[w] = mem /\ sets'[w] = {}
            /\ w \notin stale' => mem = file
            /\ new'[w] = [mem EXCEPT !["rule_subscriptions"] = mem["rule_subscriptions"] \ {s}]
        BY <4>1 DEF Unsubscribe, ChangesSubscriptions
      <4>3. new'[w]["rule_subscriptions"] = mem["rule_subscriptions"] \ {s}
        BY <4>2, Names
      <4> HIDE DEF TypeOK, Kinds, Prepared, Configs, Goto, Begins, Prepare, Reads, Adds, Lock
      <4> QED BY <4>2, <4>3 DEF Sound
    <3> QED BY <2>1, <3>1, <3>2
  <2>2. CASE SubCommit(w)
    <3>1. pc[w] = "sub" /\ pc'[w] = "subApply" /\ mem' = mem /\ file' = new[w] /\ new' = new
      BY <2>2 DEF SubCommit
    <3>2. w \notin stale' => Sound(w)
      BY <2>2 DEF SubCommit
    <3>3. mem \in Configs /\ file \in Configs /\ new[w] \in Configs
      BY DEF TypeOK
    <3>4. w \notin stale' => mem = [new[w] EXCEPT !["rule_subscriptions"] = mem["rule_subscriptions"]]
      BY <3>1, <3>2, <3>3, Names DEF Sound, Configs
    <3> HIDE DEF TypeOK, Kinds, Prepared, Configs, Goto, Begins, Prepare, Reads, Overtakes,
        Adds, Commit
    <3> QED BY <3>1, <3>2, <3>4 DEF Sound
  <2>3. CASE SubApply(w)
    BY <2>3, Names DEF SubApply
  <2>4. CASE Refresh(w)
    BY <2>4, Names DEF Refresh
  <2>5. CASE RefreshCommit(w)
    BY <2>5, Names DEF RefreshCommit
  <2>6. CASE RefreshApply(w)
    BY <2>6, Names DEF RefreshApply
  <2>7. CASE SubscriptionsFail(w)
    BY <2>7, Names DEF SubscriptionsFail
  <2> QED BY <1>5, <2>1, <2>2, <2>3, <2>4, <2>5, <2>6, <2>7 DEF SubscriptionStep
<1>6. CASE TouchStep(w)
  <2>1. CASE Touch(w)
    BY <2>1, Names DEF Touch
  <2>2. CASE TouchRules(w)
    <3>1. /\ pc[w] = "touch" /\ pc'[w] = "touchRules" /\ mem' = mem /\ file' = file
          /\ new' = new /\ stale' = stale
      BY <2>2 DEF TouchRules
    <3>2. w \notin stale' => Sound(w)
      BY <3>1
    <3> HIDE DEF TypeOK, Kinds, Prepared, Configs, Goto
    <3> QED BY <3>1, <3>2 DEF Sound
  <2>3. CASE TouchCommit(w)
    BY <2>3, Names DEF TouchCommit
  <2>4. CASE TouchFails(w)
    BY <2>4, Names DEF TouchFails
  <2> QED BY <1>6, <2>1, <2>2, <2>3, <2>4 DEF TouchStep
<1>7. CASE ReloadStep(w)
  BY <1>7, Names DEF ReloadStep, Reload, Reloaded
<1> QED BY <1>1, <1>2, <1>3, <1>4, <1>5, <1>6, <1>7

\* A step that is not out of date adds no other call to the disk or to memory, and what it
\* takes from the disk it was asked to remove or replace.
LEMMA Growth ==
    ASSUME TypeOK, Kinds, Prepared, ~overtaken', NEW w \in Calls,
           \/ PutStep(w) \/ UpstreamStep(w) \/ RuleStep(w)
           \/ SubscriptionStep(w) \/ TouchStep(w) \/ ReloadStep(w)
    PROVE  \A k \in Keys :
               /\ file'[k] \subseteq file[k] \cup {w}
               /\ mem'[k] \subseteq file[k] \cup mem[k] \cup {w}
               /\ file[k] \cup gone[k] \subseteq file'[k] \cup gone'[k]
<1>1. \/ PutStep(w) \/ UpstreamStep(w) \/ RuleStep(w)
      \/ SubscriptionStep(w) \/ TouchStep(w) \/ ReloadStep(w)
  OBVIOUS
<1> USE DEF TypeOK, Kinds, RuleStages, Prepared, Sound, Configs, store_vars, disk_vars,
        plan_vars, lists_vars, race_vars, list_races, told_vars, Goto, Begins, Prepare, Reads,
        Overtakes, Adds, Lock, Unlock, Commit, Install
<1>2. CASE PutStep(w)
  <2>1. CASE \E body \in Bodies : Put(w, body)
    BY <2>1, Names DEF Put
  <2>2. CASE PutCommit(w)
    <3>1. w \notin stale /\ Sound(w)
      BY <2>2 DEF PutCommit, PutCommits
    <3>2. mem' = mem
      BY <2>2 DEF PutCommit, PutCommits
    <3>3. \A k \in Keys \cap sets[w] : file'[k] = {w} /\ gone'[k] = gone[k] \cup file[k]
      BY <2>2, <3>1, Names DEF PutCommit, PutCommits
    <3>4. \A k \in Keys \ sets[w] : file'[k] = file[k] /\ gone'[k] = gone[k]
      BY <2>2, <3>1, Names DEF PutCommit, PutCommits
    <3> HIDE DEF TypeOK, Kinds, Prepared, Configs, Goto, Begins, Prepare, Reads, Overtakes,
        Adds,
             Lock, Unlock, Commit, Install, Sound
    <3>5. TAKE k \in Keys
    <3>6. CASE k \in sets[w]
      BY <3>2, <3>3, <3>6
    <3>7. CASE k \notin sets[w]
      BY <3>2, <3>4, <3>7
    <3> QED BY <3>6, <3>7
  <2>3. CASE PutFails(w)
    BY <2>3, Names DEF PutFails
  <2>4. CASE Apply(w)
    BY <2>4, Names DEF Apply
  <2> QED BY <1>2, <2>1, <2>2, <2>3, <2>4 DEF PutStep
<1>3. CASE UpstreamStep(w)
  <2>1. CASE Upstream(w)
    BY <2>1, Names DEF Upstream, WithUpstream
  <2>2. CASE Probe(w)
    BY <2>2, Names DEF Probe, WithUpstream
  <2>3. CASE CommitUpstreams(w)
    <3>1. w \notin stale /\ Sound(w)
      BY <2>3 DEF CommitUpstreams
    <3>2. mem' = mem /\ file' = new[w] /\ gone' = gone
      BY <2>3 DEF CommitUpstreams
    <3>3. new[w] = [file EXCEPT !["upstreams"] = file["upstreams"] \cup {w}]
      BY <2>3, <3>1 DEF CommitUpstreams
    <3>4. file \in [Keys -> SUBSET Calls]
      OBVIOUS
    <3> HIDE DEF TypeOK, Kinds, Prepared, Configs, Goto, Begins, Prepare, Reads, Overtakes,
        Adds,
             Lock, Unlock, Commit, Install, Sound
    <3>5. /\ file'["upstreams"] = file["upstreams"] \cup {w}
          /\ \A k \in Keys \ {"upstreams"} : file'[k] = file[k]
      BY <3>2, <3>3, <3>4, Names
    <3> QED BY <3>2, <3>5
  <2>4. CASE CommitUpstreamsFails(w)
    BY <2>4, Names DEF CommitUpstreamsFails
  <2>5. CASE Undo(w)
    BY <2>5, Names DEF Undo
  <2> QED BY <1>3, <2>1, <2>2, <2>3, <2>4, <2>5 DEF UpstreamStep
<1>4. CASE RuleStep(w)
  <2>1. CASE AddRule(w) \/ \E r \in Calls : DeleteRule(w, r)
    <3>1. PICK list \in Lists, parts \in {{}, {"rules"}} : ChangesRules(w, list) /\ Adds(w, parts)
      BY <2>1, RuleCalls
    <3> QED BY <3>1, Names DEF ChangesRules
  <2>2. CASE RuleCommit(w)
    BY <2>2, Names DEF RuleCommit
  <2>3. CASE Indexed(w)
    BY <2>3, Names DEF Indexed
  <2>4. CASE RuleFails(w)
    BY <2>4, Names DEF RuleFails
  <2>5. CASE Back(w)
    BY <2>5, Names DEF Back
  <2>6. CASE Restore(w)
    <3>1. w \notin stale /\ Sound(w)
      BY <2>6 DEF Restore
    <3>2. mem' = mem /\ file' = file /\ \A k \in Keys : gone'[k] = gone[k]
      BY <2>6, <3>1, Names DEF Restore
    <3> HIDE DEF TypeOK, Kinds, Prepared, Configs, Goto, Begins, Prepare, Reads, Overtakes,
        Adds,
             Lock, Unlock, Commit, Install, Sound
    <3> QED BY <3>2
  <2>7. CASE RestoreFails(w)
    BY <2>7, Names DEF RestoreFails
  <2> QED BY <1>4, <2>1, <2>2, <2>3, <2>4, <2>5, <2>6, <2>7 DEF RuleStep
<1>5. CASE SubscriptionStep(w)
  <2>1. CASE Subscribe(w) \/ \E s \in Calls : Unsubscribe(w, s)
    <3>1. PICK list \in SUBSET Calls, parts \in {{}, {"rule_subscriptions"}} :
             ChangesSubscriptions(w, list) /\ Adds(w, parts)
      BY <2>1, SubscriptionCalls
    <3> QED BY <3>1, Names DEF ChangesSubscriptions
  <2>2. CASE SubCommit(w)
    <3>1. w \notin stale /\ Sound(w)
      BY <2>2 DEF SubCommit
    <3>2. mem' = mem /\ file' = new[w] /\ old[w] = file
      BY <2>2, <3>1 DEF SubCommit
    <3>3. /\ new[w] = [file EXCEPT !["rule_subscriptions"] = new[w]["rule_subscriptions"]]
          /\ new[w]["rule_subscriptions"] \subseteq file["rule_subscriptions"] \cup {w}
      BY <2>2, <3>1 DEF SubCommit
    <3>4. \A k \in Keys : k # "rule_subscriptions" => new[w][k] = file[k] /\ gone'[k] = gone[k]
      BY <2>2, <3>3, Names DEF SubCommit
    <3>5. gone'["rule_subscriptions"] = gone["rule_subscriptions"]
             \cup (file["rule_subscriptions"] \ new[w]["rule_subscriptions"])
      BY <2>2, <3>2, Names DEF SubCommit
    <3> HIDE DEF TypeOK, Kinds, Prepared, Configs, Goto, Begins, Prepare, Reads, Overtakes,
        Adds,
             Lock, Unlock, Commit, Install, Sound
    <3> QED BY <3>2, <3>3, <3>4, <3>5
  <2>3. CASE SubApply(w)
    <3>1. w \notin stale /\ Sound(w)
      BY <2>3 DEF SubApply
    <3>2. /\ file' = file /\ gone' = gone /\ new[w] = file
          /\ mem' = [mem EXCEPT !["rule_subscriptions"] = new[w]["rule_subscriptions"]]
          /\ mem = [file EXCEPT !["rule_subscriptions"] = mem["rule_subscriptions"]]
      BY <2>3, <3>1 DEF SubApply
    <3>3. \A k \in Keys : mem'[k] = file[k]
      BY <3>2
    <3> HIDE DEF TypeOK, Kinds, Prepared, Configs, Goto, Begins, Prepare, Reads, Overtakes,
        Adds,
             Lock, Unlock, Commit, Install, Sound
    <3> QED BY <3>2, <3>3
  <2>4. CASE Refresh(w)
    BY <2>4, Names DEF Refresh
  <2>5. CASE RefreshCommit(w)
    BY <2>5, Names DEF RefreshCommit
  <2>6. CASE RefreshApply(w)
    BY <2>6, Names DEF RefreshApply
  <2>7. CASE SubscriptionsFail(w)
    BY <2>7, Names DEF SubscriptionsFail
  <2> QED BY <1>5, <2>1, <2>2, <2>3, <2>4, <2>5, <2>6, <2>7 DEF SubscriptionStep
<1>6. CASE TouchStep(w)
  BY <1>6, Names DEF TouchStep, Touch, TouchRules, TouchCommit, TouchFails
<1>7. CASE ReloadStep(w)
  BY <1>7, Names DEF ReloadStep, Reload, Reloaded
<1> QED BY <1>1, <1>2, <1>3, <1>4, <1>5, <1>6, <1>7

\* A commit has the call's own additions on disk, a failure leaves none.
LEMMA OwnKept ==
    ASSUME TypeOK, Kinds, Prepared, ConfigKept, ~overtaken', NEW w \in Calls,
           \/ PutStep(w) \/ UpstreamStep(w) \/ RuleStep(w)
           \/ SubscriptionStep(w) \/ TouchStep(w) \/ ReloadStep(w)
    PROVE  \A k \in sets'[w] \cap Keys :
               /\ pc'[w] \in {"apply", "subApply", "ok"} => w \in file'[k] \cup gone'[k]
               /\ pc'[w] \in {"put", "upstream", "sub",
                   "failed"} => w \notin file'[k] \cup mem'[k]
               /\ pc'[w] \in {"probe", "undo"} => w \notin file'[k]
<1>1. \/ PutStep(w) \/ UpstreamStep(w) \/ RuleStep(w)
      \/ SubscriptionStep(w) \/ TouchStep(w) \/ ReloadStep(w)
  OBVIOUS
<1> USE DEF TypeOK, Kinds, RuleStages, Prepared, Sound, ConfigKept, Configs, store_vars,
        disk_vars, plan_vars, lists_vars, race_vars, list_races, told_vars, Goto, Begins,
        Prepare, Reads, Overtakes, Adds, Lock, Unlock, Commit, Install
<1>2. CASE PutStep(w)
  <2>1. CASE \E body \in Bodies : Put(w, body)
    BY <2>1, Names DEF Put
  <2>2. CASE PutCommit(w)
    <3>1. w \notin stale /\ Sound(w)
      BY <2>2 DEF PutCommit, PutCommits
    <3>2. pc'[w] = "apply" /\ sets' = sets /\ file' = new[w]
      BY <2>2 DEF PutCommit, PutCommits
    <3>3. \A k \in Keys \cap sets[w] : file'[k] = {w}
      BY <2>2, <3>1 DEF PutCommit, PutCommits
    <3> HIDE DEF TypeOK, Kinds, Prepared, Configs, Goto, Begins, Prepare, Reads, Overtakes,
        Adds,
             Lock, Unlock, Commit, Install, Sound
    <3> QED BY <3>2, <3>3
  <2>3. CASE PutFails(w)
    BY <2>3, Names DEF PutFails
  <2>4. CASE Apply(w)
    BY <2>4, Names DEF Apply
  <2> QED BY <1>2, <2>1, <2>2, <2>3, <2>4 DEF PutStep
<1>3. CASE UpstreamStep(w)
  <2>1. CASE Upstream(w)
    BY <2>1, Names DEF Upstream, WithUpstream
  <2>2. CASE Probe(w)
    BY <2>2, Names DEF Probe, WithUpstream
  <2>3. CASE CommitUpstreams(w)
    <3>1. w \notin stale /\ Sound(w)
      BY <2>3 DEF CommitUpstreams
    <3>2. pc'[w] \in {"apply", "ok"} /\ sets'[w] = {"upstreams"} /\ file' = new[w]
      BY <2>3 DEF CommitUpstreams
    <3>3. w \in new[w]["upstreams"]
      BY <2>3, <3>1, Names DEF CommitUpstreams
    <3> HIDE DEF TypeOK, Kinds, Prepared, Configs, Goto, Begins, Prepare, Reads, Overtakes,
        Adds,
             Lock, Unlock, Commit, Install, Sound
    <3> QED BY <3>2, <3>3
  <2>4. CASE CommitUpstreamsFails(w)
    BY <2>4, Names DEF CommitUpstreamsFails
  <2>5. CASE Undo(w)
    <3>1. w \notin stale /\ Sound(w)
      BY <2>5 DEF Undo
    <3>2. pc'[w] = "failed" /\ sets' = sets /\ file' = file /\ mem' = file
      BY <2>5, <3>1 DEF Undo
    <3>3. \A k \in sets[w] \cap Keys : w \notin file[k]
      BY <2>5 DEF Undo
    <3> HIDE DEF TypeOK, Kinds, Prepared, Configs, Goto, Begins, Prepare, Reads, Overtakes,
        Adds,
             Lock, Unlock, Commit, Install, Sound
    <3> QED BY <3>2, <3>3
  <2> QED BY <1>3, <2>1, <2>2, <2>3, <2>4, <2>5 DEF UpstreamStep
<1>4. CASE RuleStep(w)
  <2>1. CASE AddRule(w) \/ \E r \in Calls : DeleteRule(w, r)
    <3>1. PICK list \in Lists, parts \in {{}, {"rules"}} : ChangesRules(w, list) /\ Adds(w, parts)
      BY <2>1, RuleCalls
    <3> QED BY <3>1, Names DEF ChangesRules
  <2>2. CASE RuleCommit(w)
    BY <2>2, Names DEF RuleCommit
  <2>3. CASE Indexed(w)
    BY <2>3, Names DEF Indexed
  <2>4. CASE RuleFails(w)
    BY <2>4, Names DEF RuleFails
  <2>5. CASE Back(w)
    BY <2>5, Names DEF Back
  <2>6. CASE Restore(w)
    BY <2>6, Names DEF Restore
  <2>7. CASE RestoreFails(w)
    BY <2>7, Names DEF RestoreFails
  <2> QED BY <1>4, <2>1, <2>2, <2>3, <2>4, <2>5, <2>6, <2>7 DEF RuleStep
<1>5. CASE SubscriptionStep(w)
  <2>1. CASE Subscribe(w) \/ \E s \in Calls : Unsubscribe(w, s)
    <3>1. PICK list \in SUBSET Calls, parts \in {{}, {"rule_subscriptions"}} :
             ChangesSubscriptions(w, list) /\ Adds(w, parts)
      BY <2>1, SubscriptionCalls
    <3> QED BY <3>1, Names DEF ChangesSubscriptions
  <2>2. CASE SubCommit(w)
    <3>1. w \notin stale /\ Sound(w)
      BY <2>2 DEF SubCommit
    <3>2. pc'[w] = "subApply" /\ sets' = sets /\ file' = new[w] /\ sets[w] \subseteq {"rule_subscriptions"}
      BY <2>2 DEF SubCommit
    <3>3. "rule_subscriptions" \in sets[w] => w \in new[w]["rule_subscriptions"]
      BY <2>2, <3>1 DEF SubCommit
    <3> HIDE DEF TypeOK, Kinds, Prepared, Configs, Goto, Begins, Prepare, Reads, Overtakes,
        Adds,
             Lock, Unlock, Commit, Install, Sound
    <3> QED BY <3>2, <3>3
  <2>3. CASE SubApply(w)
    BY <2>3, Names DEF SubApply
  <2>4. CASE Refresh(w)
    BY <2>4, Names DEF Refresh
  <2>5. CASE RefreshCommit(w)
    BY <2>5, Names DEF RefreshCommit
  <2>6. CASE RefreshApply(w)
    BY <2>6, Names DEF RefreshApply
  <2>7. CASE SubscriptionsFail(w)
    BY <2>7, Names DEF SubscriptionsFail
  <2> QED BY <1>5, <2>1, <2>2, <2>3, <2>4, <2>5, <2>6, <2>7 DEF SubscriptionStep
<1>6. CASE TouchStep(w)
  BY <1>6, Names DEF TouchStep, Touch, TouchRules, TouchCommit, TouchFails
<1>7. CASE ReloadStep(w)
  BY <1>7, Names DEF ReloadStep, Reload, Reloaded
<1> QED BY <1>1, <1>2, <1>3, <1>4, <1>5, <1>6, <1>7

\* A step changes no list of another call, and not the disk under one that is at work without
\* making its reading out of date.
LEMMA OthersLists ==
    ASSUME TypeOK, NEW w \in Calls,
           \/ PutStep(w) \/ UpstreamStep(w) \/ RuleStep(w)
           \/ SubscriptionStep(w) \/ TouchStep(w) \/ ReloadStep(w)
    PROVE  \A v \in Calls \ {w} :
               /\ pc'[v] = pc[v] /\ sets'[v] = sets[v] /\ carried'[v] = carried[v]
               /\ oldRules'[v] = oldRules[v] /\ newRules'[v] = newRules[v]
               /\ v \in rules_changed' <=> v \in rules_changed
               /\ v \notin staleRules' => v \notin staleRules /\ (v \in Working => rules' = rules)
<1>1. \/ PutStep(w) \/ UpstreamStep(w) \/ RuleStep(w)
      \/ SubscriptionStep(w) \/ TouchStep(w) \/ ReloadStep(w)
  OBVIOUS
<1> USE DEF TypeOK, store_vars, disk_vars, lists_vars, plan_vars, race_vars, list_races,
        told_vars, Goto, Begins, Prepare, Reads, Overtakes, Carry, InstallRules, ApplyRulesLive,
        WriteRules, KeepRules, Adds, Lock, Unlock, Commit, Install
<1>2. CASE PutStep(w)
  <2>1. CASE \E body \in Bodies : Put(w, body)
    BY <2>1 DEF Put
  <2>2. CASE PutCommit(w)
    BY <2>2 DEF PutCommit, PutCommits
  <2>3. CASE PutFails(w)
    BY <2>3 DEF PutFails
  <2>4. CASE Apply(w)
    BY <2>4 DEF Apply
  <2> QED BY <1>2, <2>1, <2>2, <2>3, <2>4 DEF PutStep
<1>3. CASE UpstreamStep(w)
  <2>1. CASE Upstream(w)
    BY <2>1 DEF Upstream, WithUpstream
  <2>2. CASE Probe(w)
    BY <2>2 DEF Probe, WithUpstream
  <2>3. CASE CommitUpstreams(w)
    BY <2>3 DEF CommitUpstreams
  <2>4. CASE CommitUpstreamsFails(w)
    BY <2>4 DEF CommitUpstreamsFails
  <2>5. CASE Undo(w)
    BY <2>5 DEF Undo
  <2> QED BY <1>3, <2>1, <2>2, <2>3, <2>4, <2>5 DEF UpstreamStep
<1>4. CASE RuleStep(w)
  <2>1. CASE AddRule(w) \/ \E r \in Calls : DeleteRule(w, r)
    <3>1. PICK list \in Lists, parts \in {{}, {"rules"}} : ChangesRules(w, list) /\ Adds(w, parts)
      BY <2>1, RuleCalls
    <3> QED BY <3>1 DEF ChangesRules
  <2>2. CASE RuleCommit(w)
    BY <2>2 DEF RuleCommit
  <2>3. CASE Indexed(w)
    BY <2>3 DEF Indexed
  <2>4. CASE RuleFails(w)
    BY <2>4 DEF RuleFails
  <2>5. CASE Back(w)
    BY <2>5 DEF Back
  <2>6. CASE Restore(w)
    BY <2>6 DEF Restore
  <2>7. CASE RestoreFails(w)
    BY <2>7 DEF RestoreFails
  <2> QED BY <1>4, <2>1, <2>2, <2>3, <2>4, <2>5, <2>6, <2>7 DEF RuleStep
<1>5. CASE SubscriptionStep(w)
  <2>1. CASE Subscribe(w) \/ \E s \in Calls : Unsubscribe(w, s)
    <3>1. PICK list \in SUBSET Calls, parts \in {{}, {"rule_subscriptions"}} :
             ChangesSubscriptions(w, list) /\ Adds(w, parts)
      BY <2>1, SubscriptionCalls
    <3> QED BY <3>1 DEF ChangesSubscriptions
  <2>2. CASE SubCommit(w)
    BY <2>2 DEF SubCommit
  <2>3. CASE SubApply(w)
    BY <2>3 DEF SubApply
  <2>4. CASE Refresh(w)
    BY <2>4 DEF Refresh
  <2>5. CASE RefreshCommit(w)
    BY <2>5 DEF RefreshCommit
  <2>6. CASE RefreshApply(w)
    BY <2>6 DEF RefreshApply
  <2>7. CASE SubscriptionsFail(w)
    BY <2>7 DEF SubscriptionsFail
  <2> QED BY <1>5, <2>1, <2>2, <2>3, <2>4, <2>5, <2>6, <2>7 DEF SubscriptionStep
<1>6. CASE TouchStep(w)
  <2>1. CASE Touch(w)
    BY <2>1 DEF Touch
  <2>2. CASE TouchRules(w)
    BY <2>2 DEF TouchRules
  <2>3. CASE TouchCommit(w)
    BY <2>3 DEF TouchCommit
  <2>4. CASE TouchFails(w)
    BY <2>4 DEF TouchFails
  <2> QED BY <1>6, <2>1, <2>2, <2>3, <2>4 DEF TouchStep
<1>7. CASE ReloadStep(w)
  <2>1. CASE Reload(w)
    BY <2>1 DEF Reload
  <2>2. CASE Reloaded(w)
    BY <2>2 DEF Reloaded
  <2> QED BY <1>7, <2>1, <2>2 DEF ReloadStep
<1> QED BY <1>1, <1>2, <1>3, <1>4, <1>5, <1>6, <1>7

\* A call carries what it has found, and finds out that this is not what is on disk.
LEMMA OwnCarried ==
    ASSUME TypeOK, CarriedTrue, PutLists, NEW w \in Calls,
           \/ PutStep(w) \/ UpstreamStep(w) \/ RuleStep(w)
           \/ SubscriptionStep(w) \/ TouchStep(w) \/ ReloadStep(w)
    PROVE  w \notin staleRules' /\ Carries(w)' => carried'[w] \subseteq {rules'}
<1>1. \/ PutStep(w) \/ UpstreamStep(w) \/ RuleStep(w)
      \/ SubscriptionStep(w) \/ TouchStep(w) \/ ReloadStep(w)
  OBVIOUS
<1> USE DEF TypeOK, CarriedTrue, Carries, Carrying, PutLists, NoList, Working, Locked, Unlocked,
        store_vars, disk_vars, lists_vars, plan_vars, race_vars, list_races, told_vars, Goto,
        Begins, Prepare, Reads, Overtakes, Carry, InstallRules, ApplyRulesLive, WriteRules,
        KeepRules, Adds, Lock, Unlock, Commit, Install
<1>2. CASE PutStep(w)
  <2>1. CASE \E body \in Bodies : Put(w, body)
    BY <2>1 DEF Put
  <2>2. CASE PutCommit(w)
    BY <2>2 DEF PutCommit, PutCommits
  <2>3. CASE PutFails(w)
    BY <2>3 DEF PutFails
  <2>4. CASE Apply(w)
    BY <2>4 DEF Apply
  <2> QED BY <1>2, <2>1, <2>2, <2>3, <2>4 DEF PutStep
<1>3. CASE UpstreamStep(w)
  <2>1. CASE Upstream(w)
    BY <2>1 DEF Upstream, WithUpstream
  <2>2. CASE Probe(w)
    BY <2>2 DEF Probe, WithUpstream
  <2>3. CASE CommitUpstreams(w)
    BY <2>3 DEF CommitUpstreams
  <2>4. CASE CommitUpstreamsFails(w)
    BY <2>4 DEF CommitUpstreamsFails
  <2>5. CASE Undo(w)
    BY <2>5 DEF Undo
  <2> QED BY <1>3, <2>1, <2>2, <2>3, <2>4, <2>5 DEF UpstreamStep
<1>4. CASE RuleStep(w)
  <2>1. CASE AddRule(w) \/ \E r \in Calls : DeleteRule(w, r)
    <3>1. PICK list \in Lists, parts \in {{}, {"rules"}} : ChangesRules(w, list) /\ Adds(w, parts)
      BY <2>1, RuleCalls
    <3> QED BY <3>1 DEF ChangesRules
  <2>2. CASE RuleCommit(w)
    BY <2>2 DEF RuleCommit
  <2>3. CASE Indexed(w)
    BY <2>3 DEF Indexed
  <2>4. CASE RuleFails(w)
    BY <2>4 DEF RuleFails
  <2>5. CASE Back(w)
    BY <2>5 DEF Back
  <2>6. CASE Restore(w)
    BY <2>6 DEF Restore
  <2>7. CASE RestoreFails(w)
    BY <2>7 DEF RestoreFails
  <2> QED BY <1>4, <2>1, <2>2, <2>3, <2>4, <2>5, <2>6, <2>7 DEF RuleStep
<1>5. CASE SubscriptionStep(w)
  <2>1. CASE Subscribe(w) \/ \E s \in Calls : Unsubscribe(w, s)
    <3>1. PICK list \in SUBSET Calls, parts \in {{}, {"rule_subscriptions"}} :
             ChangesSubscriptions(w, list) /\ Adds(w, parts)
      BY <2>1, SubscriptionCalls
    <3> QED BY <3>1 DEF ChangesSubscriptions
  <2>2. CASE SubCommit(w)
    BY <2>2 DEF SubCommit
  <2>3. CASE SubApply(w)
    BY <2>3 DEF SubApply
  <2>4. CASE Refresh(w)
    BY <2>4 DEF Refresh
  <2>5. CASE RefreshCommit(w)
    BY <2>5 DEF RefreshCommit
  <2>6. CASE RefreshApply(w)
    BY <2>6 DEF RefreshApply
  <2>7. CASE SubscriptionsFail(w)
    BY <2>7 DEF SubscriptionsFail
  <2> QED BY <1>5, <2>1, <2>2, <2>3, <2>4, <2>5, <2>6, <2>7 DEF SubscriptionStep
<1>6. CASE TouchStep(w)
  <2>1. CASE Touch(w)
    BY <2>1 DEF Touch
  <2>2. CASE TouchRules(w)
    BY <2>2 DEF TouchRules
  <2>3. CASE TouchCommit(w)
    BY <2>3 DEF TouchCommit
  <2>4. CASE TouchFails(w)
    BY <2>4 DEF TouchFails
  <2> QED BY <1>6, <2>1, <2>2, <2>3, <2>4 DEF TouchStep
<1>7. CASE ReloadStep(w)
  <2>1. CASE Reload(w)
    BY <2>1 DEF Reload
  <2>2. CASE Reloaded(w)
    BY <2>2 DEF Reloaded
  <2> QED BY <1>7, <2>1, <2>2 DEF ReloadStep
<1> QED BY <1>1, <1>2, <1>3, <1>4, <1>5, <1>6, <1>7

\* What a call carries stays what is on disk, or the reading is out of date.
LEMMA CarriedStep ==
    ASSUME TypeOK, CarriedTrue, PutLists, Next
    PROVE  CarriedTrue'
<1> SUFFICES ASSUME NEW v \in Calls, v \notin staleRules', Carries(v)'
             PROVE  carried'[v] \subseteq {rules'}
  BY DEF CarriedTrue
<1>1. PICK w \in Calls : \/ PutStep(w) \/ UpstreamStep(w) \/ RuleStep(w)
                         \/ SubscriptionStep(w) \/ TouchStep(w) \/ ReloadStep(w)
  BY DEF Next
<1>2. CASE v = w
  BY <1>1, <1>2, OwnCarried
<1>3. CASE v # w
  <2>1. /\ pc'[v] = pc[v] /\ carried'[v] = carried[v] /\ v \notin staleRules
        /\ v \in rules_changed' <=> v \in rules_changed
        /\ v \in Working => rules' = rules
    BY <1>1, <1>3, OthersLists
  <2>2. Carries(v) /\ v \in Working
    BY <2>1 DEF Carries, Carrying, Working, Locked, Unlocked
  <2> QED BY <2>1, <2>2 DEF CarriedTrue
<1> QED BY <1>2, <1>3

\* A put carries the list that it submits.
LEMMA PutListsStep ==
    ASSUME TypeOK, PutLists, Next
    PROVE  PutLists'
<1>1. PICK w \in Calls : \/ PutStep(w) \/ UpstreamStep(w) \/ RuleStep(w)
                         \/ SubscriptionStep(w) \/ TouchStep(w) \/ ReloadStep(w)
  BY DEF Next
<1> USE DEF TypeOK, PutLists, store_vars, disk_vars, lists_vars, plan_vars, race_vars,
        list_races, told_vars, Goto, Begins, Prepare, Reads, Overtakes, Carry, InstallRules,
        ApplyRulesLive, WriteRules, KeepRules, Adds, Lock, Unlock, Commit, Install
<1>2. CASE PutStep(w)
  <2>1. CASE \E body \in Bodies : Put(w, body)
    BY <2>1 DEF Put
  <2>2. CASE PutCommit(w)
    BY <2>2 DEF PutCommit, PutCommits
  <2>3. CASE PutFails(w)
    BY <2>3 DEF PutFails
  <2>4. CASE Apply(w)
    BY <2>4 DEF Apply
  <2> QED BY <1>2, <2>1, <2>2, <2>3, <2>4 DEF PutStep
<1>3. CASE UpstreamStep(w)
  <2>1. CASE Upstream(w)
    BY <2>1 DEF Upstream, WithUpstream
  <2>2. CASE Probe(w)
    BY <2>2 DEF Probe, WithUpstream
  <2>3. CASE CommitUpstreams(w)
    BY <2>3 DEF CommitUpstreams
  <2>4. CASE CommitUpstreamsFails(w)
    BY <2>4 DEF CommitUpstreamsFails
  <2>5. CASE Undo(w)
    BY <2>5 DEF Undo
  <2> QED BY <1>3, <2>1, <2>2, <2>3, <2>4, <2>5 DEF UpstreamStep
<1>4. CASE RuleStep(w)
  <2>1. CASE AddRule(w) \/ \E r \in Calls : DeleteRule(w, r)
    <3>1. PICK list \in Lists, parts \in {{}, {"rules"}} : ChangesRules(w, list) /\ Adds(w, parts)
      BY <2>1, RuleCalls
    <3> QED BY <3>1 DEF ChangesRules
  <2>2. CASE RuleCommit(w)
    BY <2>2 DEF RuleCommit
  <2>3. CASE Indexed(w)
    BY <2>3 DEF Indexed
  <2>4. CASE RuleFails(w)
    BY <2>4 DEF RuleFails
  <2>5. CASE Back(w)
    BY <2>5 DEF Back
  <2>6. CASE Restore(w)
    BY <2>6 DEF Restore
  <2>7. CASE RestoreFails(w)
    BY <2>7 DEF RestoreFails
  <2> QED BY <1>4, <2>1, <2>2, <2>3, <2>4, <2>5, <2>6, <2>7 DEF RuleStep
<1>5. CASE SubscriptionStep(w)
  <2>1. CASE Subscribe(w) \/ \E s \in Calls : Unsubscribe(w, s)
    <3>1. PICK list \in SUBSET Calls, parts \in {{}, {"rule_subscriptions"}} :
             ChangesSubscriptions(w, list) /\ Adds(w, parts)
      BY <2>1, SubscriptionCalls
    <3> QED BY <3>1 DEF ChangesSubscriptions
  <2>2. CASE SubCommit(w)
    BY <2>2 DEF SubCommit
  <2>3. CASE SubApply(w)
    BY <2>3 DEF SubApply
  <2>4. CASE Refresh(w)
    BY <2>4 DEF Refresh
  <2>5. CASE RefreshCommit(w)
    BY <2>5 DEF RefreshCommit
  <2>6. CASE RefreshApply(w)
    BY <2>6 DEF RefreshApply
  <2>7. CASE SubscriptionsFail(w)
    BY <2>7 DEF SubscriptionsFail
  <2> QED BY <1>5, <2>1, <2>2, <2>3, <2>4, <2>5, <2>6, <2>7 DEF SubscriptionStep
<1>6. CASE TouchStep(w)
  <2>1. CASE Touch(w)
    BY <2>1 DEF Touch
  <2>2. CASE TouchRules(w)
    BY <2>2 DEF TouchRules
  <2>3. CASE TouchCommit(w)
    BY <2>3 DEF TouchCommit
  <2>4. CASE TouchFails(w)
    BY <2>4 DEF TouchFails
  <2> QED BY <1>6, <2>1, <2>2, <2>3, <2>4 DEF TouchStep
<1>7. CASE ReloadStep(w)
  <2>1. CASE Reload(w)
    BY <2>1 DEF Reload
  <2>2. CASE Reloaded(w)
    BY <2>2 DEF Reloaded
  <2> QED BY <1>7, <2>1, <2>2 DEF ReloadStep
<1> QED BY <1>1, <1>2, <1>3, <1>4, <1>5, <1>6, <1>7

\* A step that makes memory and disk differ leaves a call that is going to write.
LEMMA SettledRulesStep ==
    ASSUME TypeOK, CarriedTrue, SettledRules, LiveRules, Next
    PROVE  SettledRules'
<1>1. PICK w \in Calls : \/ PutStep(w) \/ UpstreamStep(w) \/ RuleStep(w)
                         \/ SubscriptionStep(w) \/ TouchStep(w) \/ ReloadStep(w)
  BY DEF Next
<1> USE DEF TypeOK, CarriedTrue, Carries, Carrying, SettledRules, LiveRules, Holds, NoList,
        store_vars, disk_vars, lists_vars, plan_vars, race_vars, list_races, told_vars, Goto,
        Begins, Prepare, Reads, Overtakes, Carry, InstallRules, ApplyRulesLive, WriteRules,
        KeepRules, Adds, Lock, Unlock, Commit, Install
<1>2. CASE PutStep(w)
  <2>1. CASE \E body \in Bodies : Put(w, body)
    BY <2>1 DEF Put
  <2>2. CASE PutCommit(w)
    BY <2>2 DEF PutCommit, PutCommits
  <2>3. CASE PutFails(w)
    BY <2>3 DEF PutFails
  <2>4. CASE Apply(w)
    BY <2>4 DEF Apply
  <2> QED BY <1>2, <2>1, <2>2, <2>3, <2>4 DEF PutStep
<1>3. CASE UpstreamStep(w)
  <2>1. CASE Upstream(w)
    BY <2>1 DEF Upstream, WithUpstream
  <2>2. CASE Probe(w)
    BY <2>2 DEF Probe, WithUpstream
  <2>3. CASE CommitUpstreams(w)
    BY <2>3 DEF CommitUpstreams
  <2>4. CASE CommitUpstreamsFails(w)
    BY <2>4 DEF CommitUpstreamsFails
  <2>5. CASE Undo(w)
    BY <2>5 DEF Undo
  <2> QED BY <1>3, <2>1, <2>2, <2>3, <2>4, <2>5 DEF UpstreamStep
<1>4. CASE RuleStep(w)
  <2>1. CASE AddRule(w) \/ \E r \in Calls : DeleteRule(w, r)
    <3>1. PICK list \in Lists, parts \in {{}, {"rules"}} : ChangesRules(w, list) /\ Adds(w, parts)
      BY <2>1, RuleCalls
    <3> QED BY <3>1 DEF ChangesRules
  <2>2. CASE RuleCommit(w)
    BY <2>2 DEF RuleCommit
  <2>3. CASE Indexed(w)
    BY <2>3 DEF Indexed
  <2>4. CASE RuleFails(w)
    BY <2>4 DEF RuleFails
  <2>5. CASE Back(w)
    BY <2>5 DEF Back
  <2>6. CASE Restore(w)
    BY <2>6 DEF Restore
  <2>7. CASE RestoreFails(w)
    BY <2>7 DEF RestoreFails
  <2> QED BY <1>4, <2>1, <2>2, <2>3, <2>4, <2>5, <2>6, <2>7 DEF RuleStep
<1>5. CASE SubscriptionStep(w)
  <2>1. CASE Subscribe(w) \/ \E s \in Calls : Unsubscribe(w, s)
    <3>1. PICK list \in SUBSET Calls, parts \in {{}, {"rule_subscriptions"}} :
             ChangesSubscriptions(w, list) /\ Adds(w, parts)
      BY <2>1, SubscriptionCalls
    <3> QED BY <3>1 DEF ChangesSubscriptions
  <2>2. CASE SubCommit(w)
    BY <2>2 DEF SubCommit
  <2>3. CASE SubApply(w)
    BY <2>3 DEF SubApply
  <2>4. CASE Refresh(w)
    BY <2>4 DEF Refresh
  <2>5. CASE RefreshCommit(w)
    BY <2>5 DEF RefreshCommit
  <2>6. CASE RefreshApply(w)
    BY <2>6 DEF RefreshApply
  <2>7. CASE SubscriptionsFail(w)
    BY <2>7 DEF SubscriptionsFail
  <2> QED BY <1>5, <2>1, <2>2, <2>3, <2>4, <2>5, <2>6, <2>7 DEF SubscriptionStep
<1>6. CASE TouchStep(w)
  <2>1. CASE Touch(w)
    BY <2>1 DEF Touch
  <2>2. CASE TouchRules(w)
    BY <2>2 DEF TouchRules
  <2>3. CASE TouchCommit(w)
    BY <2>3 DEF TouchCommit
  <2>4. CASE TouchFails(w)
    BY <2>4 DEF TouchFails
  <2> QED BY <1>6, <2>1, <2>2, <2>3, <2>4 DEF TouchStep
<1>7. CASE ReloadStep(w)
  <2>1. CASE Reload(w)
    BY <2>1 DEF Reload
  <2>2. CASE Reloaded(w)
    BY <2>2 DEF Reloaded
  <2> QED BY <1>7, <2>1, <2>2 DEF ReloadStep
<1> QED BY <1>1, <1>2, <1>3, <1>4, <1>5, <1>6, <1>7

\* What a call about rules has put in memory stays there until it is on disk.
LEMMA LiveRulesStep ==
    ASSUME TypeOK, LockHeld, CarriedTrue, LiveRules, Next
    PROVE  LiveRules'
<1>1. PICK w \in Calls : \/ PutStep(w) \/ UpstreamStep(w) \/ RuleStep(w)
                         \/ SubscriptionStep(w) \/ TouchStep(w) \/ ReloadStep(w)
  BY DEF Next
<1> USE DEF TypeOK, LockHeld, Locked, Unlocked, Working, CarriedTrue, Carries, Carrying,
        LiveRules, Holds, NoList, store_vars, disk_vars, lists_vars, plan_vars, race_vars,
        list_races, told_vars, Goto, Begins, Prepare, Reads, Overtakes, Carry, InstallRules,
        ApplyRulesLive, WriteRules, KeepRules, Adds, Lock, Unlock, Commit, Install
<1>2. CASE PutStep(w)
  <2>1. CASE \E body \in Bodies : Put(w, body)
    BY <2>1 DEF Put
  <2>2. CASE PutCommit(w)
    BY <2>2 DEF PutCommit, PutCommits
  <2>3. CASE PutFails(w)
    BY <2>3 DEF PutFails
  <2>4. CASE Apply(w)
    <3> SUFFICES ASSUME ~outdated', NEW v \in Calls, NEW list,
                        \/ pc'[v] = "rule" /\ list = newRules'[v]
                        \/ pc'[v] = "restore" /\ list = oldRules'[v]
                 PROVE  Holds(list, v)'
      BY Zenon DEF LiveRules
    <3>1. /\ pc[w] = "apply" /\ pc' = [pc EXCEPT ![w] = "ok"] /\ memRules' = carried[w]
          /\ newRules' = newRules /\ oldRules' = oldRules /\ carried' = carried
          /\ staleRules' = staleRules /\ ~outdated
          /\ w \in staleRules => carried[w] = {}
      BY <2>4 DEF Apply
    <3>2. v # w /\ Holds(list, v)
      <4>1. v # w
        BY <3>1
      <4>2. \/ pc[v] = "rule" /\ list = newRules[v]
            \/ pc[v] = "restore" /\ list = oldRules[v]
        BY <3>1, <4>1
      <4> HIDE DEF Holds
      <4> QED BY <3>1, <4>1, <4>2 DEF LiveRules
    <3>3. carried[w] \subseteq {list}
      BY <3>1, <3>2
    <3>4. \A u \in Calls \ staleRules' :
             u # v /\ pc'[u] \in Carrying => carried'[u] \subseteq {list}
      BY <3>1, <3>2
    <3> QED BY <3>1, <3>3, <3>4
  <2> QED BY <1>2, <2>1, <2>2, <2>3, <2>4 DEF PutStep
<1>3. CASE UpstreamStep(w)
  <2>1. CASE Upstream(w)
    BY <2>1 DEF Upstream, WithUpstream
  <2>2. CASE Probe(w)
    BY <2>2 DEF Probe, WithUpstream
  <2>3. CASE CommitUpstreams(w)
    BY <2>3 DEF CommitUpstreams
  <2>4. CASE CommitUpstreamsFails(w)
    BY <2>4 DEF CommitUpstreamsFails
  <2>5. CASE Undo(w)
    <3> SUFFICES ASSUME ~outdated', NEW v \in Calls, NEW list,
                        \/ pc'[v] = "rule" /\ list = newRules'[v]
                        \/ pc'[v] = "restore" /\ list = oldRules'[v]
                 PROVE  Holds(list, v)'
      BY Zenon DEF LiveRules
    <3>1. /\ pc[w] = "undo" /\ pc' = [pc EXCEPT ![w] = "failed"] /\ memRules' = carried[w]
          /\ newRules' = newRules /\ oldRules' = oldRules /\ carried' = carried
          /\ staleRules' = staleRules /\ ~outdated
          /\ w \in staleRules => carried[w] = {}
      BY <2>5 DEF Undo
    <3>2. v # w /\ Holds(list, v)
      <4>1. v # w
        BY <3>1
      <4>2. \/ pc[v] = "rule" /\ list = newRules[v]
            \/ pc[v] = "restore" /\ list = oldRules[v]
        BY <3>1, <4>1
      <4> HIDE DEF Holds
      <4> QED BY <3>1, <4>1, <4>2 DEF LiveRules
    <3>3. carried[w] \subseteq {list}
      BY <3>1, <3>2
    <3>4. \A u \in Calls \ staleRules' :
             u # v /\ pc'[u] \in Carrying => carried'[u] \subseteq {list}
      BY <3>1, <3>2
    <3> QED BY <3>1, <3>3, <3>4
  <2> QED BY <1>3, <2>1, <2>2, <2>3, <2>4, <2>5 DEF UpstreamStep
<1>4. CASE RuleStep(w)
  <2>1. CASE AddRule(w) \/ \E r \in Calls : DeleteRule(w, r)
    <3>1. PICK list \in Lists, parts \in {{}, {"rules"}} : ChangesRules(w, list) /\ Adds(w, parts)
      BY <2>1, RuleCalls
    <3> QED BY <3>1 DEF ChangesRules
  <2>2. CASE RuleCommit(w)
    BY <2>2 DEF RuleCommit
  <2>3. CASE Indexed(w)
    BY <2>3 DEF Indexed
  <2>4. CASE RuleFails(w)
    BY <2>4 DEF RuleFails
  <2>5. CASE Back(w)
    BY <2>5 DEF Back
  <2>6. CASE Restore(w)
    BY <2>6 DEF Restore
  <2>7. CASE RestoreFails(w)
    BY <2>7 DEF RestoreFails
  <2> QED BY <1>4, <2>1, <2>2, <2>3, <2>4, <2>5, <2>6, <2>7 DEF RuleStep
<1>5. CASE SubscriptionStep(w)
  <2>1. CASE Subscribe(w) \/ \E s \in Calls : Unsubscribe(w, s)
    <3>1. PICK list \in SUBSET Calls, parts \in {{}, {"rule_subscriptions"}} :
             ChangesSubscriptions(w, list) /\ Adds(w, parts)
      BY <2>1, SubscriptionCalls
    <3> QED BY <3>1 DEF ChangesSubscriptions
  <2>2. CASE SubCommit(w)
    BY <2>2 DEF SubCommit
  <2>3. CASE SubApply(w)
    BY <2>3 DEF SubApply
  <2>4. CASE Refresh(w)
    BY <2>4 DEF Refresh
  <2>5. CASE RefreshCommit(w)
    BY <2>5 DEF RefreshCommit
  <2>6. CASE RefreshApply(w)
    BY <2>6 DEF RefreshApply
  <2>7. CASE SubscriptionsFail(w)
    BY <2>7 DEF SubscriptionsFail
  <2> QED BY <1>5, <2>1, <2>2, <2>3, <2>4, <2>5, <2>6, <2>7 DEF SubscriptionStep
<1>6. CASE TouchStep(w)
  <2>1. CASE Touch(w)
    BY <2>1 DEF Touch
  <2>2. CASE TouchRules(w)
    BY <2>2 DEF TouchRules
  <2>3. CASE TouchCommit(w)
    BY <2>3 DEF TouchCommit
  <2>4. CASE TouchFails(w)
    BY <2>4 DEF TouchFails
  <2> QED BY <1>6, <2>1, <2>2, <2>3, <2>4 DEF TouchStep
<1>7. CASE ReloadStep(w)
  <2>1. CASE Reload(w)
    BY <2>1 DEF Reload
  <2>2. CASE Reloaded(w)
    <3> SUFFICES ASSUME ~outdated', NEW v \in Calls, NEW list,
                        \/ pc'[v] = "rule" /\ list = newRules'[v]
                        \/ pc'[v] = "restore" /\ list = oldRules'[v]
                 PROVE  Holds(list, v)'
      BY Zenon DEF LiveRules
    <3>1. /\ pc[w] = "reload" /\ pc' = [pc EXCEPT ![w] = "ok"] /\ memRules' = carried[w]
          /\ newRules' = newRules /\ oldRules' = oldRules /\ carried' = carried
          /\ staleRules' = staleRules /\ ~outdated
          /\ w \in staleRules => carried[w] = {}
      BY <2>2 DEF Reloaded
    <3>2. v # w /\ Holds(list, v)
      <4>1. v # w
        BY <3>1
      <4>2. \/ pc[v] = "rule" /\ list = newRules[v]
            \/ pc[v] = "restore" /\ list = oldRules[v]
        BY <3>1, <4>1
      <4> HIDE DEF Holds
      <4> QED BY <3>1, <4>1, <4>2 DEF LiveRules
    <3>3. carried[w] \subseteq {list}
      BY <3>1, <3>2
    <3>4. \A u \in Calls \ staleRules' :
             u # v /\ pc'[u] \in Carrying => carried'[u] \subseteq {list}
      BY <3>1, <3>2
    <3> QED BY <3>1, <3>3, <3>4
  <2> QED BY <1>7, <2>1, <2>2 DEF ReloadStep
<1> QED BY <1>1, <1>2, <1>3, <1>4, <1>5, <1>6, <1>7

\* The disk has what the calls were told, or one that has the lock is about to tell.
LEMMA ToldStep ==
    ASSUME TypeOK, LockHeld, CarriedTrue, PutLists, ToldRules, Next
    PROVE  ToldRules'
<1>1. PICK w \in Calls : \/ PutStep(w) \/ UpstreamStep(w) \/ RuleStep(w)
                         \/ SubscriptionStep(w) \/ TouchStep(w) \/ ReloadStep(w)
  BY DEF Next
<1> USE DEF TypeOK, LockHeld, Locked, CarriedTrue, Carries, PutLists, ToldRules, Pending,
        store_vars, disk_vars, lists_vars, plan_vars, race_vars, list_races, told_vars, Goto,
        Begins, Prepare, Reads, Overtakes, Carry, InstallRules, ApplyRulesLive, WriteRules,
        KeepRules, Adds, Lock, Unlock, Commit, Install
<1>2. CASE PutStep(w)
  <2>1. CASE \E body \in Bodies : Put(w, body)
    BY <2>1 DEF Put
  <2>2. CASE PutCommit(w)
    <3> SUFFICES ASSUME ~reverted', ~misjudged' PROVE ToldRules'
      OBVIOUS
    <3>1. /\ pc[w] = "put" /\ pc' = [pc EXCEPT ![w] = "apply"] /\ txn = NoCall
          /\ "rules" \in sets[w] => w \in rules_changed \/ w \notin staleRules
          /\ ~reverted /\ ~misjudged
          /\ told' = IF "rules" \in sets[w] THEN newRules[w] ELSE told
          /\ rules' = IF w \in rules_changed THEN newRules[w] ELSE rules
      BY <2>2 DEF PutCommit, PutCommits
    <3>2. \A v \in Calls : pc[v] \notin {"rule", "index", "back", "restore"}
      BY <3>1
    <3>3. rules = told
      BY <3>1, <3>2
    <3>4. rules' = told'
      BY <3>1, <3>3
    <3> QED BY <3>1, <3>2, <3>4
  <2>3. CASE PutFails(w)
    BY <2>3 DEF PutFails
  <2>4. CASE Apply(w)
    BY <2>4 DEF Apply
  <2> QED BY <1>2, <2>1, <2>2, <2>3, <2>4 DEF PutStep
<1>3. CASE UpstreamStep(w)
  <2>1. CASE Upstream(w)
    BY <2>1 DEF Upstream, WithUpstream
  <2>2. CASE Probe(w)
    BY <2>2 DEF Probe, WithUpstream
  <2>3. CASE CommitUpstreams(w)
    BY <2>3 DEF CommitUpstreams
  <2>4. CASE CommitUpstreamsFails(w)
    BY <2>4 DEF CommitUpstreamsFails
  <2>5. CASE Undo(w)
    BY <2>5 DEF Undo
  <2> QED BY <1>3, <2>1, <2>2, <2>3, <2>4, <2>5 DEF UpstreamStep
<1>4. CASE RuleStep(w)
  <2>1. CASE AddRule(w) \/ \E r \in Calls : DeleteRule(w, r)
    <3>1. PICK list \in Lists, parts \in {{}, {"rules"}} : ChangesRules(w, list) /\ Adds(w, parts)
      BY <2>1, RuleCalls
    <3> QED BY <3>1 DEF ChangesRules
  <2>2. CASE RuleCommit(w)
    BY <2>2 DEF RuleCommit
  <2>3. CASE Indexed(w)
    BY <2>3 DEF Indexed
  <2>4. CASE RuleFails(w)
    BY <2>4 DEF RuleFails
  <2>5. CASE Back(w)
    BY <2>5 DEF Back
  <2>6. CASE Restore(w)
    BY <2>6 DEF Restore
  <2>7. CASE RestoreFails(w)
    BY <2>7 DEF RestoreFails
  <2> QED BY <1>4, <2>1, <2>2, <2>3, <2>4, <2>5, <2>6, <2>7 DEF RuleStep
<1>5. CASE SubscriptionStep(w)
  <2>1. CASE Subscribe(w) \/ \E s \in Calls : Unsubscribe(w, s)
    <3>1. PICK list \in SUBSET Calls, parts \in {{}, {"rule_subscriptions"}} :
             ChangesSubscriptions(w, list) /\ Adds(w, parts)
      BY <2>1, SubscriptionCalls
    <3> QED BY <3>1 DEF ChangesSubscriptions
  <2>2. CASE SubCommit(w)
    BY <2>2 DEF SubCommit
  <2>3. CASE SubApply(w)
    BY <2>3 DEF SubApply
  <2>4. CASE Refresh(w)
    BY <2>4 DEF Refresh
  <2>5. CASE RefreshCommit(w)
    BY <2>5 DEF RefreshCommit
  <2>6. CASE RefreshApply(w)
    BY <2>6 DEF RefreshApply
  <2>7. CASE SubscriptionsFail(w)
    BY <2>7 DEF SubscriptionsFail
  <2> QED BY <1>5, <2>1, <2>2, <2>3, <2>4, <2>5, <2>6, <2>7 DEF SubscriptionStep
<1>6. CASE TouchStep(w)
  <2>1. CASE Touch(w)
    BY <2>1 DEF Touch
  <2>2. CASE TouchRules(w)
    BY <2>2 DEF TouchRules
  <2>3. CASE TouchCommit(w)
    BY <2>3 DEF TouchCommit
  <2>4. CASE TouchFails(w)
    BY <2>4 DEF TouchFails
  <2> QED BY <1>6, <2>1, <2>2, <2>3, <2>4 DEF TouchStep
<1>7. CASE ReloadStep(w)
  <2>1. CASE Reload(w)
    BY <2>1 DEF Reload
  <2>2. CASE Reloaded(w)
    BY <2>2 DEF Reloaded
  <2> QED BY <1>7, <2>1, <2>2 DEF ReloadStep
<1> QED BY <1>1, <1>2, <1>3, <1>4, <1>5, <1>6, <1>7

\* A write that was out of date is remembered, and a call is made once.
LEMMA Moves ==
    ASSUME TypeOK, NEW w \in Calls,
           \/ PutStep(w) \/ UpstreamStep(w) \/ RuleStep(w)
           \/ SubscriptionStep(w) \/ TouchStep(w) \/ ReloadStep(w)
    PROVE  (overtaken => overtaken') /\ pc'[w] # "idle"
<1>1. \/ PutStep(w) \/ UpstreamStep(w) \/ RuleStep(w)
      \/ SubscriptionStep(w) \/ TouchStep(w) \/ ReloadStep(w)
  OBVIOUS
<1> USE DEF TypeOK, store_vars, disk_vars, plan_vars, lists_vars, race_vars, list_races,
        told_vars, Goto, Begins, Prepare, Reads, Overtakes, Adds, Lock, Unlock, Commit, Install
<1>2. CASE PutStep(w)
  BY <1>2 DEF PutStep, Put, PutCommit, PutCommits, PutFails, Apply
<1>3. CASE UpstreamStep(w)
  BY <1>3 DEF UpstreamStep, Upstream, WithUpstream, Probe, CommitUpstreams,
        CommitUpstreamsFails, Undo
<1>4. CASE RuleStep(w)
  <2>1. CASE AddRule(w) \/ \E r \in Calls : DeleteRule(w, r)
    <3>1. PICK list \in Lists, parts \in {{}, {"rules"}} : ChangesRules(w, list) /\ Adds(w, parts)
      BY <2>1, RuleCalls
    <3> QED BY <3>1 DEF ChangesRules
  <2>2. CASE RuleCommit(w)
    BY <2>2 DEF RuleCommit
  <2>3. CASE Indexed(w)
    BY <2>3 DEF Indexed
  <2>4. CASE RuleFails(w)
    BY <2>4 DEF RuleFails
  <2>5. CASE Back(w)
    BY <2>5 DEF Back
  <2>6. CASE Restore(w)
    BY <2>6 DEF Restore
  <2>7. CASE RestoreFails(w)
    BY <2>7 DEF RestoreFails
  <2> QED BY <1>4, <2>1, <2>2, <2>3, <2>4, <2>5, <2>6, <2>7 DEF RuleStep
<1>5. CASE SubscriptionStep(w)
  BY <1>5 DEF SubscriptionStep, Subscribe, Unsubscribe, ChangesSubscriptions, SubCommit,
        SubApply, Refresh, RefreshCommit, RefreshApply, SubscriptionsFail
<1>6. CASE TouchStep(w)
  BY <1>6 DEF TouchStep, Touch, TouchRules, TouchCommit, TouchFails
<1>7. CASE ReloadStep(w)
  BY <1>7 DEF ReloadStep, Reload, Reloaded
<1> QED BY <1>1, <1>2, <1>3, <1>4, <1>5, <1>6, <1>7

\* Only its commit takes a put to the end.
LEMMA OnlyByCommit ==
    ASSUME TypeOK, NEW w \in Calls,
           \/ PutStep(w) \/ UpstreamStep(w) \/ RuleStep(w)
           \/ SubscriptionStep(w) \/ TouchStep(w) \/ ReloadStep(w)
    PROVE  \A v \in Calls : pc[v] = "put" /\ pc'[v] = "apply" => PutCommit(v)
<1>1. \/ PutStep(w) \/ UpstreamStep(w) \/ RuleStep(w)
      \/ SubscriptionStep(w) \/ TouchStep(w) \/ ReloadStep(w)
  OBVIOUS
<1> USE DEF TypeOK, store_vars, disk_vars, plan_vars, lists_vars, race_vars, list_races,
        told_vars, Goto, Begins, Prepare, Reads, Overtakes, Adds, Lock, Unlock, Commit, Install
<1>2. CASE PutStep(w)
  BY <1>2 DEF PutStep, Put, PutCommit, PutCommits, PutFails, Apply
<1>3. CASE UpstreamStep(w)
  BY <1>3 DEF UpstreamStep, Upstream, WithUpstream, Probe, CommitUpstreams,
        CommitUpstreamsFails, Undo
<1>4. CASE RuleStep(w)
  BY <1>4 DEF RuleStep, AddRule, DeleteRule, ChangesRules, RuleCommit, Indexed, RuleFails,
        Back, Restore, RestoreFails
<1>5. CASE SubscriptionStep(w)
  BY <1>5 DEF SubscriptionStep, Subscribe, Unsubscribe, ChangesSubscriptions, SubCommit,
        SubApply, Refresh, RefreshCommit, RefreshApply, SubscriptionsFail
<1>6. CASE TouchStep(w)
  BY <1>6 DEF TouchStep, Touch, TouchRules, TouchCommit, TouchFails
<1>7. CASE ReloadStep(w)
  BY <1>7 DEF ReloadStep, Reload, Reloaded
<1> QED BY <1>1, <1>2, <1>3, <1>4, <1>5, <1>6, <1>7

\* What was prepared stays what it is, or the reading is out of date.
LEMMA PreparedStep ==
    ASSUME TypeOK, Kinds, Prepared, Next
    PROVE  Prepared'
<1> SUFFICES ASSUME NEW v \in Calls, v \notin stale'
             PROVE  Sound(v)'
  BY DEF Prepared
<1>1. PICK w \in Calls : \/ PutStep(w) \/ UpstreamStep(w) \/ RuleStep(w)
                         \/ SubscriptionStep(w) \/ TouchStep(w) \/ ReloadStep(w)
  BY DEF Next
<1>2. CASE v = w
  BY <1>1, <1>2, OwnSound
<1>3. CASE v # w
  <2>1. /\ pc'[v] = pc[v] /\ sets'[v] = sets[v] /\ old'[v] = old[v] /\ new'[v] = new[v]
        /\ Sound(v)
        /\ v \in Working => mem' = mem /\ file' = file
    BY <1>1, <1>3, Others DEF Prepared
  <2>2. CASE v \in Working
    BY <2>1, <2>2 DEF Sound
  <2>3. CASE v \notin Working
    BY <2>1, <2>3 DEF Sound, Working, Locked, Unlocked
  <2> QED BY <2>2, <2>3
<1> QED BY <1>2, <1>3

\* The parts of the configuration are as reported.
LEMMA ConfigStep ==
    ASSUME TypeOK, Kinds, Prepared, ConfigKept, Next
    PROVE  ConfigKept'
<1>1. PICK w \in Calls : \/ PutStep(w) \/ UpstreamStep(w) \/ RuleStep(w)
                         \/ SubscriptionStep(w) \/ TouchStep(w) \/ ReloadStep(w)
  BY DEF Next
<1> SUFFICES ASSUME ~overtaken', NEW v \in Calls
             PROVE  /\ pc'[v] = "idle" => \A k \in Keys : v \notin file'[k] \cup mem'[k]
                    /\ \A k \in sets'[v] \cap Keys :
                         /\ pc'[v] \in {"apply", "subApply",
                             "ok"} => v \in file'[k] \cup gone'[k]
                         /\ pc'[v] \in {"put", "upstream", "sub",
                             "failed"} => v \notin file'[k] \cup mem'[k]
                         /\ pc'[v] \in {"probe", "undo"} => v \notin file'[k]
  BY DEF ConfigKept
<1>2. ~overtaken /\ pc'[w] # "idle"
  BY <1>1, Moves
<1>3. CASE v = w
  BY <1>1, <1>2, <1>3, OwnKept
<1>4. CASE v # w
  <2>1. pc'[v] = pc[v] /\ sets'[v] = sets[v]
    BY <1>1, <1>4, Others
  <2>2. \A k \in Keys :
           /\ file'[k] \subseteq file[k] \cup {w}
           /\ mem'[k] \subseteq file[k] \cup mem[k] \cup {w}
           /\ file[k] \cup gone[k] \subseteq file'[k] \cup gone'[k]
    BY <1>1, Growth
  <2>3. pc[v] = "idle" => \A k \in Keys : v \notin file[k] \cup mem[k]
    BY <1>2 DEF ConfigKept
  <2>4. \A k \in sets[v] \cap Keys :
           /\ pc[v] \in {"apply", "subApply", "ok"} => v \in file[k] \cup gone[k]
           /\ pc[v] \in {"put", "upstream", "sub", "failed"} => v \notin file[k] \cup mem[k]
           /\ pc[v] \in {"probe", "undo"} => v \notin file[k]
    BY <1>2 DEF ConfigKept
  <2> QED BY <1>4, <2>1, <2>2, <2>3, <2>4
<1> QED BY <1>3, <1>4

\* The invariant holds at the start.
LEMMA InitInv == Init => IInv
<1> SUFFICES ASSUME Init PROVE IInv
  OBVIOUS
<1>1. TypeOK
  BY TypeInit
<1>2. LockHeld /\ Kinds /\ Prepared /\ Settled
  BY DEF Init, LockHeld, Locked, Kinds, RuleStages, Prepared, Sound, Settled
<1>3. ConfigKept
  BY DEF Init, ConfigKept, Empty
<1>4. Guarded /\ CarriedTrue /\ PutLists
  BY DEF Init, Guarded, CarriedTrue, Carries, Carrying, PutLists
<1>5. SettledRules /\ LiveRules /\ ToldRules
  BY DEF Init, SettledRules, LiveRules, ToldRules, Pending, NoList
<1> QED BY <1>1, <1>2, <1>3, <1>4, <1>5 DEF IInv

\* Every step keeps the invariant.
LEMMA StepInv == IInv /\ [Next]_vars => IInv'
<1> SUFFICES ASSUME IInv, [Next]_vars PROVE IInv'
  OBVIOUS
<1>1. CASE Next
  BY <1>1, TypeStep, LockStep, KindsStep, PreparedStep, SettledStep, ConfigStep, GuardedStep,
     CarriedStep, PutListsStep, SettledRulesStep, LiveRulesStep, ToldStep DEF IInv
<1>2. CASE UNCHANGED vars
  <2> USE <1>2 DEF vars, store_vars, disk_vars, plan_vars, lists_vars, race_vars, list_races, told_vars
  <2>1. TypeOK' /\ LockHeld' /\ Kinds'
    BY DEF IInv, TypeOK, LockHeld, Kinds
  <2>2. Prepared'
    BY DEF IInv, Prepared, Sound
  <2>3. Settled' /\ ConfigKept'
    BY DEF IInv, Settled, ConfigKept
  <2>4. Guarded' /\ CarriedTrue' /\ PutLists'
    BY DEF IInv, Guarded, CarriedTrue, Carries, PutLists
  <2>5. SettledRules' /\ LiveRules' /\ ToldRules'
    BY DEF IInv, SettledRules, LiveRules, Holds, ToldRules
  <2> QED BY <2>1, <2>2, <2>3, <2>4, <2>5 DEF IInv
<1> QED BY <1>1, <1>2

\* The invariant is inductive.
THEOREM Invariant == Spec => []IInv
BY InitInv, StepInv, PTL DEF Spec

-----------------------------------------------------------------------------
(* What follows *)

\* Every variable stays in the set of values it is meant for.
THEOREM TypeCorrect == Spec => []TypeOK
<1>1. IInv => TypeOK
  BY DEF IInv
<1> QED BY <1>1, Invariant, PTL

\* The rules on disk are those that follow from what the calls were told, one after the other,
\* whatever calls of the API run at once (commit_rules_locked, rollback, put_config and
\* put_config_commit): as long as no commit outside the lock takes rules back, and no put leaves
\* its list unwritten because a memory that is out of date had the same.
THEOREM RulesTrue == Spec => []RulesAsReported
<1>1. IInv => RulesAsReported
  BY DEF IInv, ToldRules, RulesAsReported
<1> QED BY <1>1, Invariant, PTL

\* The same for the other parts of the configuration, in memory too, as long as no call
\* writes what it made from a reading that is out of date (put_config, commit_upstreams,
\* reprobe, commit_sub_txn).
THEOREM ConfigTrue == Spec => []ConfigAsReported
<1>1. IInv => ConfigAsReported
  BY DEF IInv, ConfigKept, ConfigAsReported
<1> QED BY <1>1, Invariant, PTL

\* Memory is what the disk holds whenever no call is at work, whichever of them failed, as long
\* as none has written what it made from a reading out of date; and the list of rules in memory
\* (apply_rules_live, and the `rules` of a configuration that is installed) is the one on disk,
\* as long as no such list has been installed since a call about rules wrote its own.
THEOREM MemoryIsDisk == Spec => []InStep
<1>1. IInv => InStep
  BY DEF IInv, Settled, SettledRules, InStep, Working, Unlocked, Locked
<1> QED BY <1>1, Invariant, PTL

\* if-revision: a put that is let through takes no other call's change from the disk.
THEOREM GuardedPuts == Spec => GuardedPutLosesNothing
<1>1. IInv /\ [Next]_vars =>
        [\A w \in Calls :
           pc[w] = "put" /\ pc'[w] = "apply" /\ expect[w] # 0 /\ w \notin lagging =>
               \A k \in Keys \ sets[w] : file'[k] = file[k]]_vars
  <2> SUFFICES ASSUME IInv, Next, NEW w \in Calls,
                      pc[w] = "put", pc'[w] = "apply", expect[w] # 0, w \notin lagging
               PROVE  \A k \in Keys \ sets[w] : file'[k] = file[k]
    OBVIOUS
  <2>1. PutCommit(w)
    BY OnlyByCommit DEF IInv, Next
  <2> QED BY <2>1 DEF PutCommit, PutCommits, Conflict, Commit, IInv, Guarded
<1> QED BY <1>1, Invariant, PTL DEF Spec, GuardedPutLosesNothing
=============================================================================
