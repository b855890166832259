-------------------------- MODULE MCAnalyticsCache --------------------------
(* Instances of AnalyticsCache for TLC: two edge tables, two computations on
   the first and one on the second, entries of size 1 and 3. *)
EXTENDS AnalyticsCacheHistory, TLC

CONSTANTS c1, c2, t1, t2, k1, k2, k3

MCKeyTable == (k1 :> t1) @@ (k2 :> t1) @@ (k3 :> t2)

Query(k) == [op |-> "query", key |-> k]
RelateIn(t) == [op |-> "relate", table |-> t]
BatchOf(tables, searched) == [op |-> "batch", tables |-> tables, searched |-> searched]

\* Both connections query and write; a batch may fail after its commit.
MCConcurrent == (c1 :> {Query(k1), Query(k3), RelateIn(t1)})
                  @@ (c2 :> {Query(k1), Query(k2), BatchOf(<<t1, t2>>, TRUE)})
MCRace == (c1 :> {Query(k1)}) @@ (c2 :> {RelateIn(t1)})
=============================================================================
