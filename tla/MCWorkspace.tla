---------------------------- MODULE MCWorkspace ----------------------------
(* Two projects: the first with a thread or two, the second with none. *)
EXTENDS Workspace, TLC

OneProject == <<"p1">>
OneThread  == ("p1" :> <<"t1">>) @@ [p \in Projects |-> <<>>]
NoThreads  == [p \in Projects |-> <<>>]
=============================================================================
