----------------------- MODULE AnalyticsCacheHistory -----------------------
(***************************************************************************)
(* AnalyticsCache with a history variable: has anything happened that the  *)
(* version counters cannot tell?  It constrains no step.                   *)
(***************************************************************************)
EXTENDS AnalyticsCache

VARIABLE blurred

hvars == <<vars, blurred>>

HInit == Init /\ blurred = FALSE

\* An edge is committed between the scan of a query and the version it is stamped
\* with, or a batch that is committed fails before its bumps.
Blurs ==
  \/ \E c \in Conns : At(c, "stamp") /\ commits'[Table(c)] # commits[Table(c)]
  \/ \E c \in Conns : At(c, "reindex") /\ pc'[c] = "idle" /\ stmt'[c] = stmt[c]

HNext == Next /\ blurred' = (blurred \/ Blurs)

HSpec == HInit /\ [][HNext]_hvars /\ Fairness

\* These two are the only ways to a stale answer: whatever else queries, writes,
\* evictions and restarts do between each other's steps, a result that a lookup
\* would serve is the result on the present edges.
StaleOnlyIfBlurred == ~blurred => NoStaleHit
=============================================================================
