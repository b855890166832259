------------------------------ MODULE EdgeSet ------------------------------
(***************************************************************************)
(* What an edge table promises: a directed graph whose edges carry         *)
(* properties, changed one atomic step at a time.  Every edge can be found *)
(* from both of its ends at any moment.                                    *)
(***************************************************************************)
CONSTANTS Edges, Props, NoEdge

VARIABLES
  forward,   \* properties of the edges, found from the source
  backward   \* the edges found from the destination

Init == forward = [e \in Edges |-> NoEdge] /\ backward = {}

\* RELATE, alone or in a batch: the edges exist with these properties.
Relate ==
  /\ backward \subseteq backward'
  /\ backward' \subseteq Edges
  /\ forward' \in [Edges -> Props \cup {NoEdge}]
  /\ \A e \in backward' \ backward : forward'[e] \in Props
  /\ \A e \in Edges : forward'[e] # forward[e] => e \in backward' /\ forward'[e] \in Props

Delete ==
  \E e \in backward :
    /\ forward' = [forward EXCEPT ![e] = NoEdge]
    /\ backward' = backward \ {e}

\* Only an edge that exists has its properties replaced.
Replace ==
  \E e \in backward : \E p \in Props :
    /\ forward' = [forward EXCEPT ![e] = p]
    /\ UNCHANGED backward

Next == Relate \/ Delete \/ Replace

Spec == Init /\ [][Next]_<<forward, backward>>
=============================================================================
