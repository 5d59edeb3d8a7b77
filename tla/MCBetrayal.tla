----------------------------- MODULE MCBetrayal -----------------------------
(***************************************************************************)
(* Betrayal with the states that the program gives by itself.              *)
(***************************************************************************)
EXTENDS Betrayal

Learned == {"CAT", "PARTY", "IPC", "TEXTMODE", "RAGE"}

=============================================================================
