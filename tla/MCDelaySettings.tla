-------------------------- MODULE MCDelaySettings ---------------------------
(* Two groups of two pins each, with short delay chains.                   *)
EXTENDS DelaySettings, TLC

MCDqChoices == {0 :> 0 @@ 1 :> 1, 0 :> 1 @@ 1 :> 1}

=============================================================================
