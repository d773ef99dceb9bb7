---------------------------- MODULE MCProviders ----------------------------
(* Two tabs; a draft with a model of its own and one without. *)
EXTENDS Providers, TLC

ModelOfDraft == ("gateway" :> "m1") @@ ("plain" :> None)
TabsAlike == Permutations(Tabs)
=============================================================================
