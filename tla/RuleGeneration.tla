--------------------------- MODULE RuleGeneration ---------------------------
(***************************************************************************)
(* From a change of the rules to the answers that are given (ebpdns-server *)
(* rules_admin.rs, subscribe.rs, api.rs; ebpdns-resolver lib.rs,           *)
(* resolve.rs, rfc8020.rs).  The rules are kept on disk; a rebuild reads   *)
(* them, replaces the index that queries match, and then the generation,   *)
(* a fingerprint of the rules, and notes what it was built from, so that   *)
(* a rebuild of the same is skipped.  It may fail, and leaves everything   *)
(* as it is.  Answers are cached with the generation that was read when    *)
(* their query came in, and are of use as long as it is the current one;   *)
(* whatever a query in flight decided under rules that have changed must   *)
(* not be stored.  Names that do not exist are kept in a second table, by  *)
(* which their subdomains are answered.                                    *)
(*                                                                         *)
(* Rule sets are numbered as they are committed; what a rule set says is   *)
(* its text, which may come again and is its own fingerprint.  One name is *)
(* followed.                                                               *)
(***************************************************************************)
EXTENDS Naturals

CONSTANTS
    Editors,        \* the calls of the API that change or reload the rules
    Queries,        \* the queries for the name
    NoEditor, NoQuery,
    Texts,          \* what a rule set may say
    Astray,         \* no text: see `rule`
    MAX_RULES       \* bound: the number of the last rule set

ASSUME NonesAssumption == NoEditor \notin Editors /\ NoQuery \notin Queries /\ Astray \notin Texts
ASSUME NumbersAssumption == MAX_RULES \in Nat

VARIABLES
    disk,           \* the rule set that is committed
    text,           \* what each rule set says
    txn,            \* who has the lock of the rules
    engine,         \* the rule set of the index
    rule_gen,       \* the text the generation is the fingerprint of
    rule_src_fp,    \* the rule set the last build is known to be of, if it is
    epc, snap,      \* where each editor is, and the rule set it has read
    undone,         \* who has taken a change back
    newest,         \* history: the newest rule set of which a rebuild was made or skipped
    failed,         \* history: the newest rule set of which one failed, 0 if none since
    overtaken,      \* history: a rebuild replaced the outcome of a newer one
    cache,          \* the answer that is cached
    names,          \* the entry of the name in the table of missing names
    pc,             \* where each query is
    entry_gen,      \* the generation it read when it came in
    rule,           \* history: what the rules said that it has matched, or its answer was
                    \* decided by; Astray if the generation has been another since it came
                    \* in, or the answer was decided for a query of another one
    kind,           \* what the answer is
    leader          \* the query whose fetch the others wait for

index_vars == <<engine, rule_gen, rule_src_fp>>
history_vars == <<newest, failed, overtaken>>
rebuild_vars == <<disk, text, txn, index_vars, epc, snap, undone, history_vars>>
store_vars == <<cache, names>>
query_vars == <<pc, entry_gen, rule, kind, leader>>
vars == <<rebuild_vars, store_vars, query_vars>>

RuleSets == 0..MAX_RULES
Decisions == Texts \cup {Astray}
Entries == [stamp : Texts, rules : Decisions]

\* The place of the name in a table holds an entry or none.
Nothing == {}

Init ==
    /\ text \in [RuleSets -> Texts] /\ \A n \in RuleSets : text[n] = text[0]
    /\ disk = 0 /\ engine = 0 /\ rule_gen = text[0] /\ rule_src_fp = {0}
    /\ txn = NoEditor
    /\ epc = [e \in Editors |-> "idle"]
    /\ snap = [e \in Editors |-> 0]
    /\ undone = {}
    /\ newest = 0 /\ failed = 0 /\ overtaken = FALSE
    /\ cache = Nothing /\ names = Nothing
    /\ pc = [q \in Queries |-> "idle"]
    /\ entry_gen = [q \in Queries |-> text[0]]
    /\ rule = [q \in Queries |-> text[0]]
    /\ kind = [q \in Queries |-> "none"]
    /\ leader = NoQuery

-----------------------------------------------------------------------------
(* Changes of the rules *)

\* The next rule set is committed.
Commit(t) ==
    /\ disk < MAX_RULES
    /\ disk' = disk + 1
    /\ text' = [text EXCEPT ![disk + 1] = t]

\* Mutant: the rules are read before the change is committed.
ChangeReadFirst(e) ==
    /\ epc[e] = "idle" /\ txn = NoEditor
    /\ \E t \in Texts : Commit(t)
    /\ txn' = e
    /\ snap' = [snap EXCEPT ![e] = disk]
    /\ epc' = [epc EXCEPT ![e] = "build"]
    /\ UNCHANGED <<index_vars, undone, history_vars, store_vars, query_vars>>

\* A rule or a subscription changes: the lock is held until the index is rebuilt.
Change(e) ==
    /\ epc[e] = "idle" /\ txn = NoEditor
    /\ \E t \in Texts : Commit(t)
    /\ txn' = e
    /\ epc' = [epc EXCEPT ![e] = "read"]
    /\ UNCHANGED <<index_vars, snap, undone, history_vars, store_vars, query_vars>>

\* put_config: the lock is held for the commit only.
Put(e) ==
    /\ epc[e] = "idle" /\ txn = NoEditor
    /\ \E t \in Texts : Commit(t)
    /\ epc' = [epc EXCEPT ![e] = "read"]
    /\ UNCHANGED <<txn, index_vars, snap, undone, history_vars, store_vars, query_vars>>

\* The call is over.
Finish(e) ==
    /\ epc' = [epc EXCEPT ![e] = "idle"]
    /\ snap' = [snap EXCEPT ![e] = 0]
    /\ undone' = undone \ {e}
    /\ txn' = IF txn = e THEN NoEditor ELSE txn

\* The index is now that of this rule set.
Made(n) ==
    /\ newest' = n
    /\ failed' = IF failed > n THEN failed ELSE 0

\* rebuild_all_disk, after a commit or, by on_reload, at any time: the rules are read, all at
\* once.  If they are what the last build was made from, the index stays ...
Reads(e) == epc[e] \in {"idle", "read"}
Known(n) == \E m \in rule_src_fp : text[m] = text[n]

Skip(e) ==
    /\ Reads(e) /\ Known(disk)
    /\ Made(disk)
    /\ Finish(e)
    /\ UNCHANGED <<disk, text, index_vars, overtaken, store_vars, query_vars>>

\* ... otherwise another is built, which may happen to say the same, ...
Read(e) ==
    /\ Reads(e)
    /\ snap' = [snap EXCEPT ![e] = disk]
    /\ epc' = [epc EXCEPT ![e] = "build"]
    /\ UNCHANGED <<disk, text, txn, index_vars, undone, history_vars, store_vars, query_vars>>

\* ... unless a source cannot be read or no rule is accepted: the old index stays, whatever
\* is on disk.  A rule call, which has had the lock since, takes its change back once: it writes
\* the old rules again, which may fail as well, and rebuilds.
Fail(e) ==
    /\ epc[e] = "build"
    /\ failed' = IF snap[e] > newest /\ snap[e] > failed THEN snap[e] ELSE failed
    /\ \/ /\ Finish(e)
          /\ UNCHANGED <<disk, text>>
       \/ /\ txn = e /\ e \notin undone
          /\ Commit(text[disk - 1]) \/ UNCHANGED <<disk, text>>
          /\ undone' = undone \cup {e}
          /\ epc' = [epc EXCEPT ![e] = "read"]
          /\ snap' = [snap EXCEPT ![e] = 0]
          /\ UNCHANGED txn
    /\ UNCHANGED <<index_vars, newest, overtaken, store_vars, query_vars>>

\* What is known of the last build is forgotten ...
Forget(e) ==
    /\ epc[e] = "build"
    /\ rule_src_fp' = {}
    /\ epc' = [epc EXCEPT ![e] = "publish"]
    /\ UNCHANGED <<disk, text, txn, engine, rule_gen, snap, undone, history_vars, store_vars,
                   query_vars>>

\* ... when the index is replaced, which is too late if another has noted its own since, ...
Publish(e) ==
    /\ epc[e] = "publish"
    /\ engine' = snap[e]
    /\ overtaken' = (overtaken \/ snap[e] < newest \/ ~(rule_src_fp \subseteq {snap[e]}))
    /\ Made(snap[e])
    /\ epc' = [epc EXCEPT ![e] = "swap"]
    /\ UNCHANGED <<disk, text, txn, rule_gen, rule_src_fp, snap, undone, store_vars,
                   query_vars>>

\* ... followed by its generation.  If groups appeared or went, the cache is cleared.  (An
\* entry of another generation is of no use before that comes back.)
ComesBack(gen) == gen # rule_gen /\ gen = rule_gen'

Outlived(place) ==
    {IF entry.stamp = rule_gen /\ entry.stamp = rule_gen' THEN entry
     ELSE [entry EXCEPT !.rules = Astray] : entry \in place}

Swap(e) ==
    /\ epc[e] = "swap"
    /\ rule_gen' = text[snap[e]]
    /\ overtaken' = (overtaken \/ \E f \in Editors : epc[f] = "swap" /\ snap[f] < snap[e])
    /\ cache' \in {Outlived(cache), Nothing}
    /\ names' = Outlived(names)
    /\ rule' = [q \in Queries |->
                  IF pc[q] # "idle" /\ ComesBack(entry_gen[q]) THEN Astray ELSE rule[q]]
    /\ epc' = [epc EXCEPT ![e] = "stamp"]
    /\ UNCHANGED <<disk, text, txn, engine, rule_src_fp, snap, undone, newest, failed, pc,
                   entry_gen, kind, leader>>

\* note_rule_source_build, after all: by then the index may be another's.
Stamp(e) ==
    /\ epc[e] = "stamp"
    /\ rule_src_fp' = {snap[e]}
    /\ overtaken' = (overtaken \/ snap[e] < engine)
    /\ Finish(e)
    /\ UNCHANGED <<disk, text, engine, rule_gen, newest, failed, store_vars, query_vars>>

-----------------------------------------------------------------------------
(* A query *)

Goto(q, where) ==
    /\ pc' = [pc EXCEPT ![q] = where]
    /\ UNCHANGED <<entry_gen, rule, kind>>

Return(q) ==
    /\ pc' = [pc EXCEPT ![q] = "idle"]
    /\ entry_gen' = [entry_gen EXCEPT ![q] = text[0]]
    /\ rule' = [rule EXCEPT ![q] = text[0]]
    /\ kind' = [kind EXCEPT ![q] = "none"]

\* The generation is read.  A refresh in the background does not look in the tables.
Enter(q) ==
    /\ pc[q] = "idle"
    /\ entry_gen' = [entry_gen EXCEPT ![q] = rule_gen]
    /\ \E where \in {"look", "match"} : pc' = [pc EXCEPT ![q] = where]
    /\ UNCHANGED <<rebuild_vars, store_vars, rule, kind, leader>>

Usable(place) == \E entry \in place : entry.stamp = rule_gen

\* An answer of the current generation is served, ...
Hit(q) ==
    /\ pc[q] = "look" /\ Usable(cache)
    /\ Return(q)
    /\ UNCHANGED <<rebuild_vars, store_vars, leader>>

\* ... another is no answer; it is deleted in a step of its own, which is that of Expire.
Miss(q) ==
    /\ pc[q] = "look" /\ ~Usable(cache)
    /\ Goto(q, "infer")
    /\ UNCHANGED <<rebuild_vars, store_vars, leader>>

\* The table of missing names; a rule for the name goes before it.
Infer(q) ==
    /\ pc[q] = "infer"
    /\ \/ Usable(names) /\ Return(q)
       \/ Goto(q, "match")
    /\ names' = IF Usable(names) THEN names ELSE Nothing
    /\ UNCHANGED <<rebuild_vars, cache, leader>>

\* match_rule, and whatever follows from the rule: it may give the answer itself, or the
\* upstreams to ask.  Queries for one name share a fetch, whatever they have matched.
Match(q) ==
    /\ pc[q] = "match"
    /\ rule' = [rule EXCEPT ![q] = IF rule[q] = Astray THEN Astray ELSE text[engine]]
    /\ \/ /\ pc' = [pc EXCEPT ![q] = "wait"]
          /\ leader' = IF leader = NoQuery THEN q ELSE leader
          /\ UNCHANGED kind
       \/ /\ pc' = [pc EXCEPT ![q] = "gate"]
          /\ kind' = [kind EXCEPT ![q] = "answer"]
          /\ UNCHANGED leader
    /\ UNCHANGED <<rebuild_vars, store_vars, entry_gen>>

Waiting == {q \in Queries : pc[q] = "wait"}

\* The fetch ends: the answer is for all, or for none.
Fetched ==
    /\ leader # NoQuery
    /\ \E k \in {"answer", "missing", "none"} :
          kind' = [q \in Queries |-> IF q \in Waiting THEN k ELSE kind[q]]
    /\ pc' = [q \in Queries |-> IF q \in Waiting THEN "gate" ELSE pc[q]]
    /\ rule' = [q \in Queries |->
                  IF q \notin Waiting THEN rule[q]
                  ELSE IF rule[q] # Astray /\ entry_gen[q] = entry_gen[leader] THEN rule[leader]
                  ELSE Astray]
    /\ leader' = NoQuery
    /\ UNCHANGED <<rebuild_vars, store_vars, entry_gen>>

\* The future of a query that waits is dropped ...
Cancel(q) ==
    /\ pc[q] = "wait" /\ leader # q
    /\ Return(q)
    /\ UNCHANGED <<rebuild_vars, store_vars, leader>>

\* ... or that of the one that fetches: another starts a fetch of its own.
CancelLeader(q) ==
    /\ leader = q
    /\ leader' \in IF Waiting = {q} THEN {NoQuery} ELSE Waiting \ {q}
    /\ Return(q)
    /\ UNCHANGED <<rebuild_vars, store_vars>>

\* put_negative and fill_cache compare the generations, ...
Current(q) == entry_gen[q] = rule_gen

Gate(q) ==
    /\ pc[q] = "gate"
    /\ \/ kind[q] # "none" /\ Current(q) /\ Goto(q, "put")
       \/ kind[q] = "missing" /\ ~Current(q) /\ Goto(q, "register")
       \/ kind[q] = "answer" /\ ~Current(q) /\ Return(q)
       \/ kind[q] = "none" /\ Return(q)
    /\ UNCHANGED <<rebuild_vars, store_vars, leader>>

\* Mutant: the entry gets the generation of the time it is stored at.
PutAnswerNow(q) ==
    /\ pc[q] = "put"
    /\ cache' = {[stamp |-> rule_gen, rules |-> rule[q]]}
    /\ IF kind[q] = "missing" THEN Goto(q, "register") ELSE Return(q)
    /\ UNCHANGED <<rebuild_vars, names, leader>>

\* ... and store the answer, with the generation of the query.
PutAnswer(q) ==
    /\ pc[q] = "put"
    /\ cache' = {[stamp |-> entry_gen[q], rules |-> rule[q]]}
    /\ IF kind[q] = "missing" THEN Goto(q, "register") ELSE Return(q)
    /\ UNCHANGED <<rebuild_vars, names, leader>>

\* rfc8020_register, whether the answer was stored or not, and with the generation of now.
Register(q) ==
    /\ pc[q] = "register"
    /\ names' = {[stamp |-> rule_gen, rules |-> IF Current(q) THEN rule[q] ELSE Astray]}
    /\ Return(q)
    /\ UNCHANGED <<rebuild_vars, cache, leader>>

\* An entry expires or is evicted.
Expire ==
    /\ \/ cache' = Nothing /\ UNCHANGED names
       \/ names' = Nothing /\ UNCHANGED cache
    /\ UNCHANGED <<rebuild_vars, query_vars>>

-----------------------------------------------------------------------------
\* Mutant: the generation comes before the index.
RebuildGenerationFirst(e) ==
    \/ Skip(e) \/ Read(e) \/ Fail(e) \/ Forget(e) \/ Stamp(e)
    \/ /\ epc[e] = "publish"
       /\ rule_gen' = text[snap[e]]
       /\ cache' = Outlived(cache) /\ names' = Outlived(names)
       /\ rule' = [q \in Queries |->
                     IF pc[q] # "idle" /\ ComesBack(entry_gen[q]) THEN Astray ELSE rule[q]]
       /\ epc' = [epc EXCEPT ![e] = "swap"]
       /\ UNCHANGED <<disk, text, txn, engine, rule_src_fp, snap, undone, history_vars, pc,
                      entry_gen, kind, leader>>
    \/ /\ epc[e] = "swap"
       /\ engine' = snap[e]
       /\ overtaken' = (overtaken \/ snap[e] < newest)
       /\ Made(snap[e])
       /\ epc' = [epc EXCEPT ![e] = "stamp"]
       /\ UNCHANGED <<disk, text, txn, rule_gen, rule_src_fp, snap, undone, store_vars,
                      query_vars>>

\* try_rebuild_rules
Rebuild(e) ==
    Skip(e) \/ Read(e) \/ Fail(e) \/ Forget(e) \/ Publish(e) \/ Swap(e) \/ Stamp(e)

Next ==
    \/ \E e \in Editors : Change(e) \/ Put(e) \/ Rebuild(e)
    \/ \E q \in Queries :
          \/ Enter(q) \/ Hit(q) \/ Miss(q) \/ Infer(q) \/ Match(q)
          \/ Cancel(q) \/ CancelLeader(q)
          \/ Gate(q) \/ PutAnswer(q) \/ Register(q)
    \/ Fetched
    \/ Expire

Spec == Init /\ [][Next]_vars

-----------------------------------------------------------------------------
(* Properties *)

PCs == {"idle", "look", "infer", "match", "wait", "gate", "put", "register"}

\* Every variable stays in the set of values it is meant for; the lock belongs to an editor at
\* work, and a query waits only while one of those that wait fetches.
TypeOK ==
    /\ {disk, engine, newest, failed} \subseteq RuleSets /\ rule_src_fp \subseteq RuleSets
    /\ text \in [RuleSets -> Texts] /\ rule_gen \in Texts
    /\ txn \in Editors \cup {NoEditor}
    /\ epc \in [Editors -> {"idle", "read", "build", "publish", "swap", "stamp"}]
    /\ snap \in [Editors -> RuleSets]
    /\ undone \subseteq Editors
    /\ overtaken \in BOOLEAN
    /\ cache \subseteq Entries /\ names \subseteq Entries
    /\ pc \in [Queries -> PCs]
    /\ entry_gen \in [Queries -> Texts] /\ rule \in [Queries -> Decisions]
    /\ kind \in [Queries -> {"answer", "missing", "none"}]
    /\ leader \in Waiting \cup {NoQuery}
    /\ txn # NoEditor => epc[txn] # "idle"
    /\ Waiting # {} => leader # NoQuery

Quiet == \A e \in Editors : epc[e] = "idle"

\* When no call is at work on the rules, the index and the generation are those of the
\* rules on disk, whichever rebuilds were skipped because the index was known to be of the
\* same rules.  Two cases are left out.  One is a rebuild that overtakes another: it has read
\* the rules before a change and publishes them, or notes them as those of the index, after
\* the change.  The other is a rebuild that failed, with none of a rule set as new since: the
\* change is committed and not in force.
IndexCurrentInOrder ==
    ~overtaken /\ failed = 0 /\ Quiet => text[engine] = text[disk] /\ rule_gen = text[disk]

\* The rules are those of the generation, or of an index that is to get its generation.
InForce(rules) ==
    rules = rule_gen \/ \E e \in Editors : epc[e] = "swap" /\ text[snap[e]] = rules

\* "Once the rules have changed, old answers are void": an answer that is served was decided
\* by rules that are in force, and by those of the index once no rebuild is at work, whether
\* the last one was skipped or failed and whenever its query came in.  Rebuilds that overtake
\* each other are left out, and an answer that a query of another generation has fetched, or
\* whose generation has gone and come back since its query read it.
AnswersCurrent ==
    \A answer \in cache :
        ~overtaken /\ answer.stamp = rule_gen /\ answer.rules # Astray =>
            InForce(answer.rules) /\ (Quiet => answer.rules = text[engine])

\* The same for the names that are taken not to exist.  One that is registered after the
\* generation has changed is left out as well: the register has no gate.
NamesCurrent ==
    \A name \in names :
        ~overtaken /\ name.stamp = rule_gen /\ name.rules # Astray =>
            InForce(name.rules) /\ (Quiet => name.rules = text[engine])
=============================================================================
