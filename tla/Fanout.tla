------------------------------- MODULE Fanout -------------------------------
(***************************************************************************)
(* How a question is put to the upstreams (ebpdns-resolver: resolve.rs,    *)
(* production.rs, breaker.rs).  A fetch asks in waves: the best upstreams  *)
(* first, then the rest, then those nobody has asked yet, as long as the   *)
(* answers decide nothing.  A wave skips the upstreams whose circuit       *)
(* breaker is open and, if it is adaptive, starts with one upstream and    *)
(* launches the others when that one is late or votes against the name.    *)
(* A name counts as missing, or as empty, when QUORUM upstreams say so.    *)
(*                                                                         *)
(* One fetch is followed, time after time.  The breakers are shared:       *)
(* other fetches, the probes of upstreams and a reset change them at any   *)
(* time.  The order of upstreams follows their latency, which is free:     *)
(* whatever takes the first of a list takes any.                           *)
(***************************************************************************)
EXTENDS Naturals, FiniteSets, FiniteSetsExt

CONSTANTS
    Upstreams,      \* the enabled upstreams of the question
    MAX_PARALLEL,   \* max_parallel_upstreams
    QUORUM,         \* nxdomain_quorum
    FAILS,          \* circuit_fails
    CALLERS         \* bound: calls that share one fetch

ASSUME UpstreamsAssumption == IsFiniteSet(Upstreams) /\ Upstreams # {}
ASSUME NumbersAssumption == {MAX_PARALLEL, QUORUM, FAILS, CALLERS} \subseteq Nat \ {0}

VARIABLES
    adaptive, fallback,     \* the configuration
    fails, open,            \* the breakers: failures in a row, and which are open
    single,                 \* the fetch is one of the prefetcher
    stage,
    primary, backup,        \* the upstreams of the first two waves
    extra,                  \* the waves made after them
    wave,                   \* the upstreams selected for the wave
    todo,                   \* those of them that are not launched
    flying,                 \* launched and not answered
    asked,                  \* launched in any wave of the fetch
    votes,                  \* what each has answered
    outcome

config_vars == <<adaptive, fallback>>
breaker_vars == <<fails, open>>
plan_vars == <<single, primary, backup>>
wave_vars == <<wave, todo, flying, asked>>
fetch_vars == <<config_vars, breaker_vars, plan_vars, stage, extra, wave_vars, votes, outcome>>

\* A complete answer, one that is cut short, an alias without its target, "it has no such
\* record", "there is no such name", and everything that is no vote: an error, or nothing
\* within the time limit.
Kinds == {"positive", "truncated", "cname", "nodata", "nxdomain", "fail"}
Negative == {"cname", "nodata", "nxdomain"}

Voted(kinds) == {u \in Upstreams : votes[u] \in kinds}

Stages == {"idle", "chosen", "primary", "backup", "extra", "answered"}
EXTRA_WAVES == IF single THEN 0 ELSE 2
QuorumTarget == IF single THEN 1 ELSE QUORUM

NoVotes == [u \in Upstreams |-> "none"]

FetchInit ==
    /\ adaptive \in BOOLEAN /\ fallback \in BOOLEAN
    /\ fails = [u \in Upstreams |-> 0]
    /\ open = {}
    /\ single = FALSE
    /\ stage = "idle"
    /\ primary = {} /\ backup = {}
    /\ extra = 0
    /\ wave = {} /\ todo = {} /\ flying = {} /\ asked = {}
    /\ votes = NoVotes
    /\ outcome = "none"

-----------------------------------------------------------------------------
(* The breakers *)

\* Mutant: a success resets the count and leaves the window as it is.
FeedCountOnly(oks, bad, n) ==
    /\ fails' = [u \in Upstreams |->
                   IF u \in oks THEN 0
                   ELSE IF u \in bad THEN Min({fails[u] + n, FAILS}) ELSE fails[u]]
    /\ open' = open \cup {u \in bad : fails[u] + n >= FAILS}

\* n times, the answers of "oks" are fed as successes and those of "bad" as failures.
\* The window of an open breaker is its time, however long it has got by now.
Feed(oks, bad, n) ==
    /\ fails' = [u \in Upstreams |->
                   IF u \in oks THEN 0
                   ELSE IF u \in bad THEN Min({fails[u] + n, FAILS}) ELSE fails[u]]
    /\ open' = (open \ oks) \cup {u \in bad : fails[u] + n >= FAILS}

\* Another fetch ends, or a probe of an upstream succeeds; one that fails counts nothing.
Other(u) ==
    /\ Feed({u}, {}, 1) \/ Feed({}, {u}, 1)
    /\ UNCHANGED <<config_vars, plan_vars, stage, extra, wave_vars, votes, outcome>>

\* The window of an open breaker ends.
Expire(u) ==
    /\ u \in open
    /\ open' = open \ {u}
    /\ UNCHANGED <<config_vars, fails, plan_vars, stage, extra, wave_vars, votes, outcome>>

Reset ==
    /\ fails' = [u \in Upstreams |-> 0]
    /\ open' = {}
    /\ UNCHANGED <<config_vars, plan_vars, stage, extra, wave_vars, votes, outcome>>

-----------------------------------------------------------------------------
(* The plan of a fetch *)

FirstOf(ups, n) == {s \in SUBSET ups : Cardinality(s) = Min({n, Cardinality(ups)})}

\* If all breakers are open, none counts.
Live(ups) == IF ups \subseteq open THEN ups ELSE ups \ open

\* select_upstreams, and query_targets for a prefetch.
Choose ==
    /\ stage = "idle"
    /\ single' \in BOOLEAN
    /\ \E s \in FirstOf(Live(Upstreams), IF fallback /\ ~single' THEN MAX_PARALLEL ELSE 1) :
          /\ primary' = s
          /\ backup' = IF fallback /\ ~single' THEN Live(Upstreams) \ s ELSE {}
    /\ stage' = "chosen"
    /\ extra' = 0
    /\ asked' = {}
    /\ votes' = NoVotes
    /\ outcome' = "none"
    /\ UNCHANGED <<config_vars, breaker_vars, wave, todo, flying>>

\* query_parallel: the breakers are looked at again.
Select(ups) == Live(ups)

\* The wave starts, with one upstream if it is adaptive and has a choice.
StartWave(ups) ==
    \E f \in FirstOf(Select(ups), IF adaptive THEN 1 ELSE Cardinality(Upstreams)) :
        /\ wave' = Select(ups)
        /\ flying' = f
        /\ todo' = Select(ups) \ f
        /\ asked' = asked \cup f

Primary ==
    /\ stage = "chosen"
    /\ StartWave(primary)
    /\ stage' = "primary"
    /\ UNCHANGED <<config_vars, breaker_vars, plan_vars, extra, votes, outcome>>

-----------------------------------------------------------------------------
(* A wave *)

\* With one vote more, the votes of this wave against the name come to a quorum.  The
\* configured one counts, also for a prefetch, and all negative votes count alike.
Enough == Cardinality(wave \cap Voted(Negative)) + 1 >= QUORUM

\* An answer arrives, or a time limit passes.  A positive one and a quorum end the wave and
\* the others are aborted; a negative one that does not has all the others launched.
Answer(u, kind) ==
    /\ u \in flying
    /\ votes' = [votes EXCEPT ![u] = kind]
    /\ \/ /\ kind = "positive" \/ (kind \in Negative /\ Enough)
          /\ flying' = {}
          /\ UNCHANGED <<todo, asked>>
       \/ /\ kind \in Negative /\ ~Enough
          /\ flying' = (flying \ {u}) \cup todo
          /\ asked' = asked \cup todo
          /\ todo' = {}
       \/ /\ kind \in {"truncated", "fail"}
          /\ flying' = flying \ {u}
          /\ UNCHANGED <<todo, asked>>
    /\ UNCHANGED <<config_vars, breaker_vars, plan_vars, stage, extra, wave, outcome>>

\* The first one is late: the others are launched.
Hedge ==
    /\ flying # {} /\ todo # {}
    /\ flying' = flying \cup todo
    /\ asked' = asked \cup todo
    /\ todo' = {}
    /\ UNCHANGED <<config_vars, breaker_vars, plan_vars, stage, extra, wave, votes, outcome>>

-----------------------------------------------------------------------------
(* From wave to wave *)

WaveOver == stage \in {"primary", "backup", "extra"} /\ flying = {}

NeedMoreVotes ==
    /\ Voted({"positive"}) = {}
    /\ Cardinality(Voted(Negative)) < QuorumTarget

Backup ==
    /\ WaveOver /\ stage = "primary" /\ backup # {} /\ NeedMoreVotes
    /\ StartWave(backup)
    /\ stage' = "backup"
    /\ UNCHANGED <<config_vars, breaker_vars, plan_vars, extra, votes, outcome>>

BackupDone == stage = "primary" => backup = {} \/ ~NeedMoreVotes

\* Mutant: whoever has given no vote is asked again.
VotelessAgain == Upstreams \ Voted(Kinds \ {"fail"})

\* Those that are not among the results.
NotQueried == Upstreams \ Voted(Kinds)

\* There is no answer of any kind, and somebody is left.
MoreToAsk ==
    /\ extra < EXTRA_WAVES
    /\ Voted({"positive", "truncated", "cname"}) = {}
    /\ NeedMoreVotes
    /\ NotQueried # {}

Extra ==
    /\ WaveOver /\ BackupDone /\ MoreToAsk
    /\ \E s \in FirstOf(NotQueried, MAX_PARALLEL) : StartWave(s)
    /\ stage' = "extra"
    /\ extra' = extra + 1
    /\ UNCHANGED <<config_vars, breaker_vars, plan_vars, votes, outcome>>

\* Mutant: the fetch waits for upstreams that were never launched.
FetchedComplete ==
    /\ WaveOver /\ BackupDone /\ ~MoreToAsk /\ todo = {}
    /\ stage' = "answered"
    /\ wave' = {} /\ todo' = {} /\ primary' = {} /\ backup' = {}
    /\ UNCHANGED <<config_vars, breaker_vars, single, extra, flying, asked, votes, outcome>>

Fetched ==
    /\ WaveOver /\ BackupDone /\ ~MoreToAsk
    /\ stage' = "answered"
    /\ wave' = {} /\ todo' = {} /\ primary' = {} /\ backup' = {}
    /\ UNCHANGED <<config_vars, breaker_vars, single, extra, flying, asked, votes, outcome>>

\* Mutant: all votes against the name count alike.
ConfirmedByAny(kind) == Cardinality(Voted(Negative)) >= QuorumTarget

Confirmed(kind) == Cardinality(Voted({kind})) >= QuorumTarget

\* What is made of the answers.  An alias is followed for addresses only.
Verdict(aliases) ==
    CASE Voted({"positive"}) # {} -> "answer"
      [] Voted({"positive"}) = {} /\ Voted({"truncated"}) # {} -> "truncated"
      [] OTHER ->
         IF Confirmed("nxdomain") THEN "nxdomain"
         ELSE IF aliases /\ Voted({"cname"}) # {} THEN "alias"
         ELSE IF Confirmed("nodata") THEN "nodata"
         ELSE "servfail"

\* finish_resolve, in each of the n calls that share the fetch: the answers are fed to the
\* breakers, the failures of a prefetch to no one.
FinishFetch ==
    /\ stage = "answered"
    /\ \E n \in 1..CALLERS : Feed(Voted(Kinds \ {"fail"}), IF single THEN {} ELSE Voted({"fail"}), n)
    /\ \E aliases \in BOOLEAN : outcome' = Verdict(aliases)
    /\ stage' = "idle"
    /\ UNCHANGED <<config_vars, plan_vars, extra, wave_vars, votes>>

-----------------------------------------------------------------------------
\* The fetch goes on; every upstream answers or runs out of time.
FetchProceed ==
    \/ Primary \/ Backup \/ Extra \/ Fetched \/ FinishFetch
    \/ \E u \in Upstreams, kind \in Kinds : Answer(u, kind)

FetchNext ==
    \/ Choose \/ FetchProceed \/ Hedge
    \/ \E u \in Upstreams : Other(u) \/ Expire(u)
    \/ Reset

FetchSpec == FetchInit /\ [][FetchNext]_fetch_vars

\* The task is scheduled, and each exchange with an upstream has a time limit.
FairFetchSpec == FetchSpec /\ WF_fetch_vars(FetchProceed)

-----------------------------------------------------------------------------
(* Properties *)

\* Every variable stays in the set of values it is meant for.
FetchTypeOK ==
    /\ {adaptive, fallback, single} \subseteq BOOLEAN
    /\ fails \in [Upstreams -> 0..FAILS]
    /\ \A s \in {open, primary, backup, wave, todo, flying, asked} : s \subseteq Upstreams
    /\ stage \in Stages /\ extra \in 0..2
    /\ votes \in [Upstreams -> Kinds \cup {"none"}]
    /\ outcome \in {"none", "answer", "truncated", "nxdomain", "alias", "nodata", "servfail"}

Done == stage = "idle" /\ outcome # "none"

\* No upstream is asked twice for one question, by whatever waves and whatever becomes of
\* the breakers between them: its one vote would count for two, its one failure twice.
NoneAskedTwice == [][(flying' \ flying) \cap asked = {}]_fetch_vars

\* A breaker is open because of as many failures in a row, and no success or reset has come
\* between them and now.
OpenEarned == \A u \in open : fails[u] = FAILS

\* A name is declared missing or empty on the word of a quorum of upstreams, and never
\* against a complete answer that was received: "positive answers win".
NegativeConfirmed ==
    Done /\ outcome \in {"nxdomain", "nodata"} =>
        /\ Voted({"positive"}) = {}
        /\ \E s \in SUBSET Voted({outcome}) : Cardinality(s) >= QuorumTarget

\* A failure is admitted only when everybody was asked or all waves were made, as long as
\* the votes against the name are fewer than a quorum and no alias was offered.
ServfailLast ==
    Done /\ outcome = "servfail" /\ Cardinality(Voted(Negative)) < QuorumTarget
         /\ Voted({"cname"}) = {} =>
        asked = Upstreams \/ extra = EXTRA_WAVES

\* A fetch says no, or that it failed, only on the evidence that each verdict needs.
VerdictsEarned == NegativeConfirmed /\ ServfailLast

\* Every fetch ends, whichever breakers open and close meanwhile.
FetchEnds == (stage # "idle") ~> (stage = "idle")
=============================================================================
