----------------------------- MODULE MCIpcPeers -----------------------------
(***************************************************************************)
(* Small instances of IpcPeers for TLC.                                    *)
(***************************************************************************)
EXTENDS IpcPeers, TLC

\* No server: the processes create the segment, and somebody forces mutexes.
Cold == [server |-> FALSE, sweeping |-> FALSE, faults |-> {"unlock"}]
\* A server that only creates the segment, and processes that are killed.
Plain == [server |-> TRUE, sweeping |-> FALSE, faults |-> {"crash"}]
\* A server that sweeps as well.
Swept == [server |-> TRUE, sweeping |-> TRUE, faults |-> {"crash"}]
Everything == {Cold, Plain, Swept}

=============================================================================
