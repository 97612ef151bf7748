---------------------------- MODULE MCCachePolicy ---------------------------
EXTENDS CachePolicy

TinyConf(n, w) == [policy |-> [kind |-> "tinylfu", parts |-> {}], size |-> n, window |-> w]
LruConf(n, w) == [policy |-> [kind |-> "lru", parts |-> {}], size |-> n, window |-> w]
PartConf(ps, w) == [policy |-> [kind |-> "partitioned", parts |-> ps], size |-> 1, window |-> w]

\* Every kind of policy, two sizes, with and without serve-stale, no "default" partition.
FourConfigs == {TinyConf(1, 0), TinyConf(2, 1), LruConf(1, 1), PartConf({"domestic"}, 0)}

\* In alphabetic order, as in the BTreeMap.
Names == <<"default", "domestic">>

Caps12 == 1 :> [win |-> 1, prob |-> 1, prot |-> 1] @@ 2 :> [win |-> 1, prob |-> 1, prot |-> 2]
Shard12 == 1 :> 1 @@ 2 :> 2
\* Domains share one shard, so none is told from another.
OneShard == [k \in CacheKeys |-> 1]
Symmetry == Permutations(Domains)
=============================================================================
