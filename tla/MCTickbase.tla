----------------------------- MODULE MCTickbase -----------------------------
(* Instances of Tickbase for TLC: shifts of up to four ticks. *)
EXTENDS Tickbase

=============================================================================
