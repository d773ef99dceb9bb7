---------------------------- MODULE MCFixtureRun ----------------------------
(* Every fixture script of up to four events, well formed or not. *)
EXTENDS FixtureRun

Tails == UNION {[1..n -> {"body", "finished", "error"}] : n \in 0..3}
ShortScripts == {<<"started">> \o t : t \in Tails}
=============================================================================
