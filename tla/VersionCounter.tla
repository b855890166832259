--------------------------- MODULE VersionCounter ---------------------------
(***************************************************************************)
(* What WriteVersions promises its callers: one counter per edge table,    *)
(* and every call of bump adds one to it, once, in one indivisible step.   *)
(* The counters are not persistent: a restart sets all of them back.       *)
(***************************************************************************)
EXTENDS Naturals

CONSTANTS Conns, Tables, NoTable

VARIABLES count,  \* count[t]: bumps of table t so far
          owed    \* owed[c]: the table whose bump call connection c is in

Init ==
  /\ count = [t \in Tables |-> 0]
  /\ owed = [c \in Conns |-> NoTable]

Call(c) ==
  /\ owed[c] = NoTable
  /\ \E t \in Tables : owed' = [owed EXCEPT ![c] = t]
  /\ UNCHANGED count

Increment(c) ==
  /\ owed[c] # NoTable
  /\ count' = [count EXCEPT ![owed[c]] = @ + 1]
  /\ owed' = [owed EXCEPT ![c] = NoTable]

Restart ==
  /\ count' = [t \in Tables |-> 0]
  /\ owed' = [c \in Conns |-> NoTable]

Next == Restart \/ \E c \in Conns : Call(c) \/ Increment(c)

Spec == Init /\ [][Next]_<<count, owed>>
=============================================================================
