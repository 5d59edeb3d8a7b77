------------------------------ MODULE MCNavBot ------------------------------
(***************************************************************************)
(* The priorities of Priority_list, for NavBot.                            *)
(***************************************************************************)
EXTENDS NavBot

PriorityList == patrol..danger

=============================================================================
