------------------------------ MODULE MCClient -----------------------------
(***************************************************************************)
(* Client with bytes of two values, so that a string of three characters   *)
(* is too long for its 16-bit length, which is then that of no string, and *)
(* with the picks that send a text, a ping and a run's archive, or quit.   *)
(***************************************************************************)
EXTENDS Client

MCText == <<1>>
MCArchives == {<<1, 1>>, <<1, 1, 1>>}
MCAnswers == {<<1, 1, 1>>}
=============================================================================
