------------------------------ MODULE MCServer -----------------------------
(***************************************************************************)
(* Server with connections that are told apart only by what happens to     *)
(* them: no action and no safety property names one.                       *)
(***************************************************************************)
EXTENDS Server, TLC

Symmetric == Permutations(Conns)
=============================================================================
