---------------------------- MODULE MCControlInput ----------------------------
(* ControlInput with two players. *)
EXTENDS ControlInput, TLC

CONSTANTS A, B

FewInputs == (A :> 2 @@ B :> 1)
=============================================================================
