------------------------------- MODULE Branch -------------------------------
(***************************************************************************)
(* The message tree of a thread.  Every message row names its parent, and  *)
(* the code walks these links upwards in three places: the cycle check of  *)
(* the message PUT, the rebuilding of a conversation from its rows, and    *)
(* the search for the snapshot nearest to a branch head.  All three stop   *)
(* at a row without a parent, at a missing row, or at a row already seen.  *)
(*                                                                         *)
(* A tree is a function parent \in [MsgIds -> MsgIds \cup {None}]; a        *)
(* message that has no row has no parent.                                  *)
(***************************************************************************)
EXTENDS Naturals, FiniteSets

CONSTANTS MsgIds,   \* the message ids clients and server use
          None      \* SQL NULL

ASSUME NoneIsNoMessage == None \notin MsgIds

MsgRef == MsgIds \cup {None}

\* The id reached k links above head; None once the walk has left the tree.
\* After Cardinality(MsgIds) links every id has been seen.
Upwards(parent, head) ==
    LET up[k \in 0..Cardinality(MsgIds)] ==
            IF k = 0 THEN head
            ELSE IF up[k - 1] = None THEN None ELSE parent[up[k - 1]]
    IN  up

\* The ids of the branch that ends at head, all that a walk from there visits:
\* the smallest set that holds head and with every id its parent.
Closed(parent, S) == \A m \in S : parent[m] \in S \cup {None}
Path(parent, head) ==
    {m \in MsgIds : \A S \in SUBSET MsgIds :
                        head \in S \cup {None} /\ Closed(parent, S) => m \in S}

\* nearest_anchor: the first id of the branch that has an anchor, else the
\* thread-level anchor stored under None.
NearestAnchor(parent, anchors, head) ==
    LET up   == Upwards(parent, head)
        hits == {k \in DOMAIN up : up[k] \in anchors \ {None}}
    IN  IF hits = {} THEN None
        ELSE up[CHOOSE k \in hits : \A j \in hits : k <= j]

Acyclic(parent) == \A m \in MsgIds : m \notin Path(parent, parent[m])
=============================================================================
