------------------------------ MODULE IpcPeers ------------------------------
(***************************************************************************)
(* The peer table of simple-ipc (external/simple-ipc, ipcb.hpp): how the   *)
(* game processes find or create the shared memory segment (Connect, called*)
(* from ipc_connect in src/ipc.cpp), take a slot of the table, keep it with*)
(* a heartbeat thread, and give it back (~Peer).                           *)
(*                                                                         *)
(* The segment outlives its name: shm_unlink only removes the name, so     *)
(* several segments may be mapped at once.  Segments are numbered in the   *)
(* order of their creation; 0 is "none".                                   *)
(***************************************************************************)
EXTENDS Naturals, FiniteSets

CONSTANTS
  Procs,      \* game processes
  Server,     \* the external server process, which may call SweepDead
  Nobody,     \* owner of the unlocked mutex
  max_peers,  \* slots of the peer table
  MaxSegs,    \* bound on the segments created in a behaviour
  Deployments \* the ways to run the system that are considered

\* server: a server created segment 1 before the behaviour starts; sweeping: it
\* calls SweepDead; faults: what the environment may do to the processes.
Deployment == [server : BOOLEAN, sweeping : BOOLEAN, faults : SUBSET {"crash", "unlock"}]

ASSUME PeersAssumption == max_peers \in Nat \ {0}
ASSUME SegsAssumption == MaxSegs \in Nat \ {0}
ASSUME DeploymentAssumption ==
  Deployments \subseteq {d \in Deployment : d.sweeping => d.server}
ASSUME OwnerAssumption == Server \notin Procs /\ Nobody \notin Procs /\ Server # Nobody

Slots == 0 .. max_peers - 1
Segs == 1 .. MaxSegs

VARIABLES
  deployment, \* how the system runs; never changes
  named,      \* the segment that has the name ipc.server, 0 if none has it
  made,       \* how many segments were created
  threw,      \* history: the segments where a Connect found no slot
  phase,      \* how far each segment is: "none", "empty", "zero" or "cleared"
  setup,      \* how many slots InitManager has made free in each segment
  mutex,      \* IPCMemory::mutex of each segment
  table,      \* IPCMemory::peer_data of each segment
  peer_count, \* IPCMemory::peer_count of segment 1
  pc,         \* where the game thread of each process is
  seg,        \* the segment each process has mapped, 0 if none
  client_id,  \* Peer::client_id
  manager,    \* Peer::is_manager
  beat,       \* the heartbeat thread: "none", "check" or "write"
  sweep       \* the server: [at, doomed], at = max_peers outside SweepDead

names == <<named, made, threw>>
memory == <<phase, setup, mutex, table>>
procs == <<pc, seg, client_id, manager, beat>>
vars == <<deployment, named, made, threw, phase, setup, mutex, table, peer_count,
          pc, seg, client_id, manager, beat, sweep>>

\* stale: the heartbeat is ten seconds old or was never written.
PeerData == [free : BOOLEAN, pid : Procs \cup {Nobody}, stale : BOOLEAN]
ZeroTable == [s \in Slots |-> [free |-> FALSE, pid |-> Nobody, stale |-> TRUE]]
FreeTable == [s \in Slots |-> [free |-> TRUE, pid |-> Nobody, stale |-> TRUE]]

PC == {"off", "remove", "create", "truncate", "init", "setup", "lock", "slot",
       "store", "unlock", "on", "leave", "unwind", "dead"}

TypeOK ==
  /\ deployment \in Deployments
  /\ named \in 0 .. MaxSegs
  /\ made \in 0 .. MaxSegs
  /\ threw \in SUBSET Segs
  /\ phase \in [Segs -> {"none", "empty", "zero", "cleared"}]
  /\ setup \in [Segs -> 0 .. max_peers]
  /\ mutex \in [Segs -> Procs \cup {Server, Nobody}]
  /\ table \in [Segs -> [Slots -> PeerData]]
  /\ peer_count \in 0 .. max_peers
  /\ pc \in [Procs -> PC]
  /\ seg \in [Procs -> 0 .. MaxSegs]
  /\ client_id \in [Procs -> Slots]
  /\ manager \in [Procs -> BOOLEAN]
  /\ beat \in [Procs -> {"none", "check", "write"}]
  /\ sweep \in [at : 0 .. max_peers, doomed : BOOLEAN]

NoSweep == [at |-> max_peers, doomed |-> FALSE]

Init ==
  /\ deployment \in Deployments
  /\ named = IF deployment.server THEN 1 ELSE 0
  /\ made = named
  /\ threw = {}
  /\ phase = [g \in Segs |-> IF g <= made THEN "cleared" ELSE "none"]
  /\ setup = [g \in Segs |-> IF g <= made THEN max_peers ELSE 0]
  /\ mutex = [g \in Segs |-> Nobody]
  /\ table = [g \in Segs |-> IF g <= made THEN FreeTable ELSE ZeroTable]
  /\ peer_count = 0
  /\ pc = [p \in Procs |-> "off"]
  /\ seg = [p \in Procs |-> 0]
  /\ client_id = [p \in Procs |-> 0]
  /\ manager = [p \in Procs |-> FALSE]
  /\ beat = [p \in Procs |-> "none"]
  /\ sweep = NoSweep

Goto(p, where) == pc' = [pc EXCEPT ![p] = where]

\* The Peer object of p is gone: nothing of it is left but where p goes next.
Gone(p, where) ==
  /\ Goto(p, where)
  /\ seg' = [seg EXCEPT ![p] = 0]
  /\ client_id' = [client_id EXCEPT ![p] = 0]
  /\ manager' = [manager EXCEPT ![p] = FALSE]
  /\ beat' = [beat EXCEPT ![p] = "none"]

-----------------------------------------------------------------------------
(* ipc_connect: attach(false), and attach(true) when that throws.          *)

\* open_only and mapping succeed.
Open(p) ==
  /\ pc[p] = "off"
  /\ named # 0
  /\ phase[named] # "empty"
  /\ seg' = [seg EXCEPT ![p] = named]
  /\ Goto(p, "lock")
  /\ UNCHANGED <<deployment, names, memory, peer_count, client_id, manager,
                 beat, sweep>>

\* There is no such name, or the segment has no size yet and cannot be mapped:
\* the process decides to create the segment.
OpenFails(p) ==
  /\ pc[p] = "off"
  /\ named # 0 => phase[named] = "empty"
  /\ Goto(p, "remove")
  /\ UNCHANGED <<deployment, names, memory, peer_count, seg, client_id,
                 manager, beat, sweep>>

\* shared_memory_object::remove: "Ensure it doesn't exist".
Remove(p) ==
  /\ pc[p] = "remove"
  /\ named' = 0
  /\ Goto(p, "create")
  /\ UNCHANGED <<deployment, made, threw, memory, peer_count, seg, client_id,
                 manager, beat, sweep>>

\* create_only.
Create(p) ==
  /\ pc[p] = "create"
  /\ named = 0
  /\ made < MaxSegs
  /\ made' = made + 1
  /\ named' = made + 1
  /\ phase' = [phase EXCEPT ![made + 1] = "empty"]
  /\ seg' = [seg EXCEPT ![p] = made + 1]
  /\ manager' = [manager EXCEPT ![p] = TRUE]
  /\ Goto(p, "truncate")
  /\ UNCHANGED <<deployment, threw, setup, mutex, table, peer_count, client_id,
                 beat, sweep>>

\* The name exists again: create_only throws and ~Peer of the would-be manager
\* unlinks the name.
CreateFails(p) ==
  /\ pc[p] = "create"
  /\ named # 0
  /\ named' = 0
  /\ Gone(p, "off")
  /\ UNCHANGED <<deployment, made, threw, memory, peer_count, sweep>>

Truncate(p) ==
  /\ pc[p] = "truncate"
  /\ phase' = [phase EXCEPT ![seg[p]] = "zero"]
  /\ Goto(p, "init")
  /\ UNCHANGED <<deployment, names, setup, mutex, table, peer_count, seg, client_id,
                 manager, beat, sweep>>

\* InitManager does not take the mutex, and who has the segment open works on.
\* Its memset makes every slot one that is not free, and covers the mutex too...
InitManager(p) ==
  /\ pc[p] = "init"
  /\ table' = [table EXCEPT ![seg[p]] = ZeroTable]
  /\ mutex' = [mutex EXCEPT ![seg[p]] = Nobody]
  /\ phase' = [phase EXCEPT ![seg[p]] = "cleared"]
  /\ Goto(p, "setup")
  /\ UNCHANGED <<deployment, names, setup, peer_count, seg, client_id, manager,
                 beat, sweep>>

\* ... its loop makes the slots free one after the other...
InitSlot(p) ==
  /\ pc[p] = "setup"
  /\ setup[seg[p]] < max_peers
  /\ table' = [table EXCEPT ![seg[p]][setup[seg[p]]].free = TRUE]
  /\ setup' = [setup EXCEPT ![seg[p]] = @ + 1]
  /\ UNCHANGED <<deployment, names, phase, mutex, peer_count, procs, sweep>>

\* ... and the pool comes last.
InitPool(p) ==
  /\ pc[p] = "setup"
  /\ setup[seg[p]] = max_peers
  /\ Goto(p, "lock")
  /\ UNCHANGED <<deployment, names, memory, peer_count, seg, client_id,
                 manager, beat, sweep>>

-----------------------------------------------------------------------------
(* Connect: a slot of the table.                                           *)

Lock(p) ==
  /\ pc[p] = "lock"
  /\ mutex[seg[p]] = Nobody
  /\ mutex' = [mutex EXCEPT ![seg[p]] = p]
  /\ Goto(p, "slot")
  /\ UNCHANGED <<deployment, names, phase, setup, table, peer_count, seg,
                 client_id, manager, beat, sweep>>

\* Mutants: a slot without a heartbeat, or without an owner, counts as free.
FreeSlots_Stale(g) == {s \in Slots : table[g][s].free \/ table[g][s].stale}
FreeSlots_ByPid(g) == {s \in Slots : table[g][s].pid = Nobody}

FreeSlots(g) == {s \in Slots : table[g][s].free}
FirstAvailableSlot(g) == CHOOSE s \in FreeSlots(g) : \A r \in FreeSlots(g) : s <= r

TakeSlot(p) ==
  /\ pc[p] = "slot"
  /\ FreeSlots(seg[p]) # {}
  /\ client_id' = [client_id EXCEPT ![p] = FirstAvailableSlot(seg[p])]
  /\ Goto(p, "store")
  /\ UNCHANGED <<deployment, names, memory, peer_count, seg, manager, beat, sweep>>

\* Mutant: the slot stays free until the first heartbeat.
StorePeerData_StillFree(p) ==
  /\ pc[p] = "store"
  /\ table' = [table EXCEPT ![seg[p]][client_id[p]].pid = p]
  /\ Goto(p, "unlock")
  /\ UNCHANGED <<deployment, names, phase, setup, mutex, peer_count, seg,
                 client_id, manager, beat, sweep>>

\* The owner of the slot is written, but not its heartbeat.
StorePeerData(p) ==
  /\ pc[p] = "store"
  /\ table' = [table EXCEPT ![seg[p]][client_id[p]] =
                 [@ EXCEPT !.free = FALSE, !.pid = p]]
  /\ Goto(p, "unlock")
  /\ UNCHANGED <<deployment, names, phase, setup, mutex, peer_count, seg,
                 client_id, manager, beat, sweep>>

\* FirstAvailableSlot throws with the mutex locked.  ~Peer of a manager unmaps
\* the memory and unlinks the name; any other peer goes on to lock the mutex.
NoSlot(p) ==
  /\ pc[p] = "slot"
  /\ FreeSlots(seg[p]) = {}
  /\ threw' = threw \cup {seg[p]}
  /\ IF manager[p]
       THEN named' = 0 /\ Gone(p, "off")
       ELSE /\ Goto(p, "unwind")
            /\ UNCHANGED <<named, seg, client_id, manager, beat>>
  /\ UNCHANGED <<deployment, made, memory, peer_count, sweep>>

\* The unlock, and the start of the heartbeat thread.
Unlock(p) ==
  /\ pc[p] = "unlock"
  /\ mutex' = [mutex EXCEPT ![seg[p]] = Nobody]
  /\ beat' = [beat EXCEPT ![p] = "check"]
  /\ Goto(p, "on")
  /\ UNCHANGED <<deployment, names, phase, setup, table, peer_count, seg,
                 client_id, manager, sweep>>

-----------------------------------------------------------------------------
(* The heartbeat thread writes its slot, without the mutex, if the slot is *)
(* still its own.                                                          *)

Owns(p) == table[seg[p]][client_id[p]].pid = p

HeartbeatCheck(p) ==
  /\ beat[p] = "check"
  /\ Owns(p)
  /\ beat' = [beat EXCEPT ![p] = "write"]
  /\ UNCHANGED <<deployment, names, memory, peer_count, pc, seg, client_id,
                 manager, sweep>>

\* Mutant: the heartbeat does not take the slot back.
HeartbeatWrite_KeepsFree(p) ==
  /\ beat[p] = "write"
  /\ table' = [table EXCEPT ![seg[p]][client_id[p]].stale = FALSE]
  /\ beat' = [beat EXCEPT ![p] = "check"]
  /\ UNCHANGED <<deployment, names, phase, setup, mutex, peer_count, pc, seg,
                 client_id, manager, sweep>>

HeartbeatWrite(p) ==
  /\ beat[p] = "write"
  /\ table' = [table EXCEPT ![seg[p]][client_id[p]] =
                 [@ EXCEPT !.free = FALSE, !.stale = FALSE]]
  /\ beat' = [beat EXCEPT ![p] = "check"]
  /\ UNCHANGED <<deployment, names, phase, setup, mutex, peer_count, pc, seg,
                 client_id, manager, sweep>>

\* Ten seconds pass without a heartbeat: no thread writes the slot every second.
Beating(p, g, s) == beat[p] # "none" /\ seg[p] = g /\ client_id[p] = s /\ Owns(p)

GrowStale(g, s) ==
  /\ ~table[g][s].stale
  /\ \A p \in Procs : ~Beating(p, g, s)
  /\ table' = [table EXCEPT ![g][s].stale = TRUE]
  /\ UNCHANGED <<deployment, names, phase, setup, mutex, peer_count, procs, sweep>>

-----------------------------------------------------------------------------
(* ipc_disconnect, and the unwinding of a Connect that threw: ~Peer.       *)

\* The heartbeat thread is joined first.  The manager then unlinks the name,
\* whichever segment has it, and leaves its slot as it is.
Disconnect(p) ==
  /\ pc[p] = "on"
  /\ beat[p] = "check"
  /\ IF manager[p]
       THEN named' = 0 /\ Gone(p, "off")
       ELSE /\ Goto(p, "leave")
            /\ beat' = [beat EXCEPT ![p] = "none"]
            /\ UNCHANGED <<named, seg, client_id, manager>>
  /\ UNCHANGED <<deployment, made, threw, memory, peer_count, sweep>>

\* The slot is freed between lock and unlock.  After a Connect that threw,
\* client_id still has its initial value 0, and attach(true) comes next.
Leave(p) ==
  /\ pc[p] \in {"leave", "unwind"}
  /\ mutex[seg[p]] = Nobody
  /\ table' = [table EXCEPT ![seg[p]][client_id[p]].free = TRUE]
  /\ Gone(p, IF pc[p] = "leave" THEN "off" ELSE "remove")
  /\ UNCHANGED <<deployment, names, phase, setup, mutex, peer_count, sweep>>

-----------------------------------------------------------------------------
(* SweepDead, called by the external server on its own segment.            *)

SweepLock ==
  /\ deployment.sweeping
  /\ sweep.at = max_peers
  /\ mutex[1] = Nobody
  /\ mutex' = [mutex EXCEPT ![1] = Server]
  /\ peer_count' = 0
  /\ sweep' = [at |-> 0, doomed |-> FALSE]
  /\ UNCHANGED <<deployment, names, phase, setup, table, procs>>

IsPeerDead(s) == table[1][s].stale

\* The test of one slot...
SweepTest ==
  /\ sweep.at < max_peers
  /\ ~sweep.doomed
  /\ IsPeerDead(sweep.at)
  /\ sweep' = [sweep EXCEPT !.doomed = TRUE]
  /\ UNCHANGED <<deployment, names, memory, peer_count, procs>>

\* Mutant: a dead peer is not counted, but its slot is not freed.
SweepSlot_KeepsSlot ==
  /\ sweep.at < max_peers
  /\ sweep.doomed \/ ~IsPeerDead(sweep.at)
  /\ peer_count' = IF sweep.doomed \/ table[1][sweep.at].free THEN peer_count ELSE peer_count + 1
  /\ sweep' = [at |-> sweep.at + 1, doomed |-> FALSE]
  /\ mutex' = [mutex EXCEPT ![1] = IF sweep.at + 1 = max_peers THEN Nobody ELSE @]
  /\ UNCHANGED <<deployment, names, phase, setup, table, procs>>

\* ... and what follows it, with the unlock after the last slot.
SweepSlot ==
  /\ sweep.at < max_peers
  /\ sweep.doomed \/ ~IsPeerDead(sweep.at)
  /\ table' = IF sweep.doomed THEN [table EXCEPT ![1][sweep.at].free = TRUE] ELSE table
  /\ peer_count' = IF table'[1][sweep.at].free THEN peer_count ELSE peer_count + 1
  /\ sweep' = [at |-> sweep.at + 1, doomed |-> FALSE]
  /\ mutex' = [mutex EXCEPT ![1] = IF sweep.at + 1 = max_peers THEN Nobody ELSE @]
  /\ UNCHANGED <<deployment, names, phase, setup, procs>>

-----------------------------------------------------------------------------
(* Faults.                                                                 *)

Crash(p) ==
  /\ "crash" \in deployment.faults
  /\ pc[p] \notin {"off", "dead"}
  /\ Gone(p, "dead")
  /\ UNCHANGED <<deployment, names, memory, peer_count, sweep>>

\* The game is started again.
Restart(p) ==
  /\ pc[p] = "dead"
  /\ Goto(p, "off")
  /\ UNCHANGED <<deployment, names, memory, peer_count, seg, client_id,
                 manager, beat, sweep>>

fix_deadlock(p) ==
  /\ "unlock" \in deployment.faults
  /\ pc[p] = "on"
  /\ mutex[seg[p]] # Nobody
  /\ mutex' = [mutex EXCEPT ![seg[p]] = Nobody]
  /\ UNCHANGED <<deployment, names, phase, setup, table, peer_count, procs, sweep>>

-----------------------------------------------------------------------------
Connecting(p) ==
  \/ Remove(p) \/ Create(p) \/ CreateFails(p) \/ Truncate(p)
  \/ InitManager(p) \/ InitSlot(p) \/ InitPool(p)
  \/ Lock(p) \/ TakeSlot(p) \/ StorePeerData(p) \/ NoSlot(p) \/ Unlock(p)

Heartbeat(p) == HeartbeatCheck(p) \/ HeartbeatWrite(p)

SweepDead == SweepLock \/ SweepTest \/ SweepSlot

Next ==
  \/ \E p \in Procs :
       \/ Open(p) \/ OpenFails(p) \/ Connecting(p) \/ Heartbeat(p)
       \/ Disconnect(p) \/ Leave(p)
       \/ Crash(p) \/ Restart(p) \/ fix_deadlock(p)
  \/ \E g \in Segs, s \in Slots : GrowStale(g, s)
  \/ SweepDead

Spec == Init /\ [][Next]_vars

\* A thread that is connecting, leaving or beating keeps running, time passes,
\* and a server that sweeps does so again and again: the mutex it needs is
\* held for moments only, so its lock is strongly fair.  Nobody is obliged to
\* connect, to disconnect or to restart.
Fairness ==
  /\ \A p \in Procs : /\ WF_vars(Connecting(p))
                      /\ WF_vars(Heartbeat(p))
                      /\ WF_vars(Leave(p))
  /\ \A g \in Segs, s \in Slots : WF_vars(GrowStale(g, s))
  /\ SF_vars(SweepLock)
  /\ WF_vars(SweepTest \/ SweepSlot)
FairSpec == Spec /\ Fairness

-----------------------------------------------------------------------------
(* Properties.                                                             *)

Attached(p) == pc[p] = "on"

\* Two connected peers of a server that does not sweep never have the same
\* client_id, whatever crashes and restarts: a peer recognises its own commands
\* by it (ProcessCommands), and the index of its user data is the id (ipc.cpp).
SlotExclusive ==
  deployment.server /\ ~deployment.sweeping =>
    \A p, q \in Procs :
      Attached(p) /\ Attached(q) /\ p # q => client_id[p] # client_id[q]

\* The creator of a segment initialises it without the mutex, while others find
\* it by its name; still its memset never wipes the slot of a connected peer, nor
\* does its loop make one free again: nobody gets a slot before its turn.  Not so
\* once a Connect has thrown on the segment, as its ~Peer frees slot 0, whatever
\* has become of that.
AttachedSetUp ==
  \A p \in Procs : Attached(p) =>
    /\ phase[seg[p]] = "cleared"
    /\ client_id[p] < setup[seg[p]] \/ seg[p] \in threw

\* A mutex that its owner left locked: the owner was killed, or waits for it.
Abandoned(g) ==
  \E p \in Procs : mutex[g] = p /\ ~(seg[p] = g /\ pc[p] \in {"slot", "store", "unlock"})

\* A slot that is taken although no process holds it.
Orphaned(s) ==
  /\ ~table[1][s].free
  /\ \A p \in Procs : ~(seg[p] = 1 /\ client_id[p] = s /\ Owns(p))

\* A server that sweeps gives the slot of every killed peer back, unless a
\* peer was killed with the mutex locked.
OrphansReclaimed ==
  \A s \in Slots :
    (deployment.sweeping /\ Orphaned(s)) ~> (~Orphaned(s) \/ Abandoned(1))

\* The server takes the slot of a live peer away when it finds the heartbeat of
\* the last owner there, before the peer has written its own or between its two
\* writes.  A peer that stays, and whose slot is not given to another meanwhile,
\* gets it back for good.
SweptHeals ==
  \A p \in Procs :
    <>[](Attached(p) /\ Owns(p)) => <>[]~(Attached(p) /\ table[seg[p]][client_id[p]].free)

=============================================================================
