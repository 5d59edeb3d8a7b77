--------------------------- MODULE MCQuitElection ---------------------------
(* Instances of QuitElection for TLC: two bots, or three, and a spare slot. *)
EXTENDS QuitElection

=============================================================================
