-------------------------- MODULE DocumentsHistory --------------------------
(***************************************************************************)
(* Documents with two history variables: for every statement with a WHERE  *)
(* clause, the records that have matched it ever since it began, and the   *)
(* records that were written behind the back of a connection.  They only   *)
(* observe; reads and writes of several transactions are judged by them.   *)
(***************************************************************************)
EXTENDS Documents

VARIABLES
  steady,  \* steady[c]: the ids that matched without interruption
  crossed  \* ids written between a read of another connection and its write

HInit == Init /\ steady = [c \in Conns |-> {}] /\ crossed = {}

\* The clause of a statement that has one; every record matches the others.
Clause(s) == IF s # NoStmt /\ s.op \in {"select", "count", "delete_where", "update_all"}
             THEN s.where ELSE [f \in {} |-> Missing]

Meeting(c) == Matching(Clause(stmt[c]))

\* What connection c is about to write depends on a read of record i.
Holds(c, i) ==
  \/ At(c, "write") /\ loc[c].cur = i
  \/ At(c, "unique") /\ stmt[c].id = i
  \/ loc[c].bdocs[i] # NoDoc

Crossed == {i \in Ids : docs'[i] # docs[i] /\ \E c \in Conns : Holds(c, i) /\ Holds(c, i)'}

Observe ==
  /\ crossed' = crossed \cup Crossed
  /\ steady' = [c \in Conns |-> IF At(c, "idle") /\ pc'[c] # "idle" THEN Meeting(c)'
                                ELSE steady[c] \cap Meeting(c)']

HNext == Next /\ Observe

HSpec == HInit /\ [][HNext]_<<vars, steady, crossed>> /\ Fairness

-----------------------------------------------------------------------------
(* Properties *)

\* exec_select, exec_count and exec_delete_where read the catalog, the index and
\* the documents in separate transactions.  A record that matched all the while
\* is returned, counted, or deleted, whatever other connections wrote meanwhile.
QueryComplete ==
  \A c \in Conns : At(c, "idle") /\ reply[c].outcome = "ok" =>
    CASE stmt[c].op = "select" -> steady[c] \subseteq reply[c].rows
      [] stmt[c].op = "count" -> Cardinality(steady[c]) <= reply[c].total
      [] stmt[c].op = "delete_where" -> steady[c] = {}
      [] OTHER -> TRUE

\* Records whose read-modify-write steps no other writer interrupted have exactly
\* the entries their document calls for; so the lost update is the only way to a
\* stale entry.
SoundUnlessCrossed ==
  \A e \in entries :
    \/ e.id \in crossed
    \/ docs[e.id] # NoDoc /\ e \in IndexEntries(e.id, docs[e.id], catalog)
=============================================================================
