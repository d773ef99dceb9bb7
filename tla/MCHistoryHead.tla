---------------------------- MODULE MCHistoryHead ----------------------------
(* Instances of HistoryHead: a restored turn, its regeneration, a follow-up
   on the new answer. *)
EXTENDS HistoryHead, TLC

TreeOfTurns == ("u1" :> None) @@ ("a1" :> "u1") @@ ("a2" :> "u1")
               @@ ("u2" :> "a2") @@ ("a3" :> "u2")
               @@ ("u3" :> "a1")
=============================================================================
