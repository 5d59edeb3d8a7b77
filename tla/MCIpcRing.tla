----------------------------- MODULE MCIpcRing -----------------------------
(* Instances of IpcRing for TLC: two peers, a ring of two or three slots. *)
EXTENDS IpcRing, TLC

Symmetry == Permutations(Peers)

=============================================================================
