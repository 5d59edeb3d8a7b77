--------------------------- MODULE IpcPeersProofs ---------------------------
(***************************************************************************)
(* Proofs about the peer table, for any number of processes and slots.     *)
(***************************************************************************)
EXTENDS IpcPeers, WellFoundedInduction, TLAPS

-----------------------------------------------------------------------------
(* Types.                                                                  *)

USE DEF names

\* A set of slots that is not empty has a first.
LEMMA FirstSlot ==
  ASSUME NEW S \in SUBSET Slots, S # {}
  PROVE  \E s \in S : \A r \in S : s <= r
<1>1. Slots \subseteq Nat
  BY PeersAssumption DEF Slots
<1> DEFINE R == {ss \in Nat \X Nat : ss[1] < ss[2]}
<1>2. IsWellFoundedOn(R, Nat)
  BY NatLessThanWellFounded DEF OpToRel
<1>3. PICK s \in S : \A r \in S : ~(<<r, s>> \in R)
  <2> HIDE DEF R
  <2> QED BY <1>1, <1>2, WFMin
<1>4. \A r \in S : ~(r < s)
  BY <1>1, <1>3
<1> QED BY <1>1, <1>4

\* FirstAvailableSlot finds a free slot if there is one.
LEMMA FirstIsFree ==
  ASSUME TypeOK, NEW g \in Segs, FreeSlots(g) # {}
  PROVE  FirstAvailableSlot(g) \in Slots /\ table[g][FirstAvailableSlot(g)].free
<1>1. FreeSlots(g) \in SUBSET Slots
  BY DEF FreeSlots
<1>2. \E s \in FreeSlots(g) : \A r \in FreeSlots(g) : s <= r
  BY <1>1, FirstSlot
<1>3. FirstAvailableSlot(g) \in FreeSlots(g)
  BY <1>2 DEF FirstAvailableSlot
<1> QED BY <1>3 DEF FreeSlots

\* A process has a segment mapped from attach until its Peer object is gone.
Detached == {"off", "remove", "create", "dead"}
Mapped == \A p \in Procs : seg[p] = 0 <=> pc[p] \in Detached

\* The server counts one peer a slot at most, and only a server that sweeps is
\* ever in SweepDead.
Counted == peer_count <= sweep.at /\ (sweep.at < max_peers => deployment.sweeping)

TypeInv == TypeOK /\ Mapped /\ Counted

\* The memory starts as the server, if there is one, has left it.
LEMMA TypeInit == Init => TypeInv
<1> SUFFICES ASSUME Init PROVE TypeInv
  OBVIOUS
<1> USE PeersAssumption, SegsAssumption, DeploymentAssumption DEF Deployment
<1>1. deployment.server \in BOOLEAN
  BY DEF Init
<1>2. named \in 0 .. MaxSegs /\ made \in 0 .. MaxSegs
  BY <1>1 DEF Init
<1>3. FreeTable \in [Slots -> PeerData] /\ ZeroTable \in [Slots -> PeerData]
  BY DEF FreeTable, ZeroTable, PeerData
<1>4. table \in [Segs -> [Slots -> PeerData]]
  BY <1>3 DEF Init
<1>5. client_id \in [Procs -> Slots]
  BY DEF Init, Slots
<1>6. phase \in [Segs -> {"none", "empty", "zero", "cleared"}] /\ mutex \in [Segs -> Procs \cup {Server, Nobody}]
  BY DEF Init
<1>7. /\ pc \in [Procs -> PC] /\ seg \in [Procs -> 0 .. MaxSegs]
      /\ manager \in [Procs -> BOOLEAN] /\ beat \in [Procs -> {"none", "check", "write"}]
  BY DEF Init, PC
<1>11. threw \in SUBSET Segs /\ setup \in [Segs -> 0 .. max_peers]
  BY DEF Init
<1>8. deployment \in Deployments /\ peer_count \in 0 .. max_peers
      /\ sweep \in [at : 0 .. max_peers, doomed : BOOLEAN]
  BY DEF Init, NoSweep
<1>9. Mapped
  BY DEF Init, Mapped, Detached
<1>10. Counted
  BY DEF Init, Counted, NoSweep
<1> QED BY <1>2, <1>4, <1>5, <1>6, <1>7, <1>8, <1>9, <1>10, <1>11 DEF TypeInv, TypeOK

\* The segment of a process that has one.
LEMMA SegMapped ==
  ASSUME TypeInv, NEW p \in Procs, pc[p] \notin Detached PROVE seg[p] \in Segs
<1>1. seg[p] \in 0 .. MaxSegs /\ seg[p] # 0
  BY DEF TypeInv, TypeOK, Mapped
<1> QED BY <1>1, SegsAssumption DEF Segs

\* Writing a slot keeps the type of the table.
LEMMA TableWrite ==
  ASSUME TypeOK, NEW g \in Segs, NEW s \in Slots, NEW d \in PeerData
  PROVE  [table EXCEPT ![g][s] = d] \in [Segs -> [Slots -> PeerData]]
  BY DEF TypeOK

\* And so do the fields that are written.
LEMMA RowWrite ==
  ASSUME TypeOK, NEW g \in Segs, NEW s \in Slots
  PROVE  /\ \A p \in Procs : [table[g][s] EXCEPT !.free = FALSE, !.pid = p] \in PeerData
         /\ [table[g][s] EXCEPT !.free = FALSE, !.stale = FALSE] \in PeerData
         /\ [table[g][s] EXCEPT !.free = TRUE] \in PeerData
         /\ [table[g][s] EXCEPT !.stale = TRUE] \in PeerData
<1>1. table[g][s] \in PeerData
  BY DEF TypeOK
<1> QED BY <1>1 DEF PeerData

\* The end of a Peer object.
LEMMA GoneType ==
  ASSUME TypeInv, NEW p \in Procs, NEW where \in Detached, Gone(p, where)
  PROVE  /\ pc' \in [Procs -> PC] /\ seg' \in [Procs -> 0 .. MaxSegs]
         /\ client_id' \in [Procs -> Slots] /\ manager' \in [Procs -> BOOLEAN]
         /\ beat' \in [Procs -> {"none", "check", "write"}]
         /\ Mapped'
<1>1. 0 \in Slots /\ 0 \in 0 .. MaxSegs /\ where \in PC
  <2>1. 0 \in Slots /\ 0 \in 0 .. MaxSegs
    BY PeersAssumption, SegsAssumption DEF Slots
  <2>2. where \in PC
    BY Zenon DEF Detached, PC
  <2> QED BY <2>1, <2>2
<1>2. /\ pc' \in [Procs -> PC] /\ seg' \in [Procs -> 0 .. MaxSegs]
      /\ client_id' \in [Procs -> Slots] /\ manager' \in [Procs -> BOOLEAN]
      /\ beat' \in [Procs -> {"none", "check", "write"}]
  BY <1>1 DEF Gone, Goto, TypeInv, TypeOK
<1>3. Mapped'
  BY <1>1 DEF Gone, Goto, TypeInv, TypeOK, Mapped
<1> QED BY <1>2, <1>3

\* The next slot of the loop of InitManager.
LEMMA InitSlotType == ASSUME TypeInv, NEW p \in Procs, InitSlot(p) PROVE TypeInv'
<1>1. seg[p] \in Segs
  BY SegMapped DEF InitSlot, Detached
<1>2. setup[seg[p]] \in Slots /\ setup[seg[p]] + 1 \in 0 .. max_peers
  BY <1>1, PeersAssumption DEF InitSlot, Slots, TypeInv, TypeOK
<1>3. [table[seg[p]][setup[seg[p]]] EXCEPT !.free = TRUE] \in PeerData
  BY <1>1, <1>2, RowWrite DEF TypeInv
<1>4. table' \in [Segs -> [Slots -> PeerData]]
  BY <1>1, <1>2, <1>3, TableWrite DEF InitSlot, TypeInv
<1>5. setup' \in [Segs -> 0 .. max_peers]
  BY <1>1, <1>2 DEF InitSlot, TypeInv, TypeOK
<1> QED BY <1>4, <1>5 DEF InitSlot, procs, TypeInv, TypeOK, Mapped, Counted

\* attach, up to the lock of Connect, and its unlock.
LEMMA ConnectType ==
  ASSUME TypeInv, NEW p \in Procs,
         \/ Open(p) \/ OpenFails(p) \/ Remove(p) \/ Create(p) \/ Truncate(p)
         \/ InitManager(p) \/ InitSlot(p) \/ InitPool(p) \/ Lock(p) \/ Unlock(p)
  PROVE  TypeInv'
<1> USE DEF TypeInv, TypeOK, Mapped, Counted, Goto, memory, Detached, PC
<1>1. CASE Open(p)
  BY <1>1 DEF Open
<1>2. CASE OpenFails(p)
  BY <1>2 DEF OpenFails
<1>3. CASE Remove(p)
  BY <1>3, SegsAssumption DEF Remove
<1>4. CASE Create(p)
  <2>1. made + 1 \in 0 .. MaxSegs /\ made + 1 # 0
    BY <1>4, SegsAssumption DEF Create
  <2> QED BY <1>4, <2>1 DEF Create
<1>5. CASE Truncate(p)
  BY <1>5 DEF Truncate
<1>6. CASE InitManager(p)
  <2>1. ZeroTable \in [Slots -> PeerData]
    BY DEF ZeroTable, PeerData
  <2> QED BY <1>6, <2>1 DEF InitManager
<1>7. CASE Lock(p)
  BY <1>7 DEF Lock
<1>8. CASE Unlock(p)
  BY <1>8 DEF Unlock
<1>9. CASE InitSlot(p)
  BY <1>9, InitSlotType
<1>10. CASE InitPool(p)
  BY <1>10 DEF InitPool
<1> QED BY <1>1, <1>2, <1>3, <1>4, <1>5, <1>6, <1>7, <1>8, <1>9, <1>10

\* A slot is searched, stored, beaten and given back.
LEMMA SlotType ==
  ASSUME TypeInv, NEW p \in Procs,
         \/ TakeSlot(p) \/ StorePeerData(p) \/ HeartbeatCheck(p) \/ HeartbeatWrite(p)
         \/ Leave(p)
  PROVE  TypeInv'
<1>0. client_id[p] \in Slots
  BY DEF TypeInv, TypeOK
<1>1. CASE TakeSlot(p)
  <2>1. seg[p] \in Segs
    BY <1>1, SegMapped DEF TakeSlot, Detached
  <2>2. FirstAvailableSlot(seg[p]) \in Slots
    BY <1>1, <2>1, FirstIsFree DEF TakeSlot, TypeInv
  <2> QED BY <1>1, <2>2 DEF TakeSlot, Goto, memory, TypeInv, TypeOK, Mapped, Counted, Detached, PC
<1>2. CASE StorePeerData(p)
  <2>1. seg[p] \in Segs
    BY <1>2, SegMapped DEF StorePeerData, Detached
  <2>2. [table[seg[p]][client_id[p]] EXCEPT !.free = FALSE, !.pid = p] \in PeerData
    BY <1>0, <2>1, RowWrite DEF TypeInv
  <2>3. table' \in [Segs -> [Slots -> PeerData]]
    BY <1>0, <1>2, <2>1, <2>2, TableWrite DEF StorePeerData, TypeInv
  <2> QED BY <1>2, <2>3 DEF StorePeerData, Goto, TypeInv, TypeOK, Mapped, Counted, Detached, PC
<1>3. CASE HeartbeatCheck(p)
  BY <1>3 DEF HeartbeatCheck, memory, TypeInv, TypeOK, Mapped, Counted
<1>4. CASE HeartbeatWrite(p)
  <2>1. table' \in [Segs -> [Slots -> PeerData]]
    <3>1. CASE seg[p] \in Segs
      <4>1. [table[seg[p]][client_id[p]] EXCEPT !.free = FALSE, !.stale = FALSE] \in PeerData
        BY <1>0, <3>1, RowWrite DEF TypeInv
      <4> QED BY <1>0, <1>4, <3>1, <4>1, TableWrite DEF HeartbeatWrite, TypeInv
    <3>2. CASE seg[p] \notin Segs
      BY <1>4, <3>2 DEF HeartbeatWrite, TypeInv, TypeOK
    <3> QED BY <3>1, <3>2
  <2> QED BY <1>4, <2>1 DEF HeartbeatWrite, TypeInv, TypeOK, Mapped, Counted
<1>5. CASE Leave(p)
  <2>1. seg[p] \in Segs
    BY <1>5, SegMapped DEF Leave, Detached
  <2>2. [table[seg[p]][client_id[p]] EXCEPT !.free = TRUE] \in PeerData
    BY <1>0, <2>1, RowWrite DEF TypeInv
  <2>3. table' \in [Segs -> [Slots -> PeerData]]
    BY <1>0, <1>5, <2>1, <2>2, TableWrite DEF Leave, TypeInv
  <2>4. PICK where \in Detached : Gone(p, where)
    BY <1>5 DEF Leave, Detached
  <2> QED BY <1>5, <2>3, <2>4, GoneType DEF Leave, TypeInv, TypeOK, Counted
<1> QED BY <1>1, <1>2, <1>3, <1>4, <1>5

\* Peers that end, or fail to start.
LEMMA EndType ==
  ASSUME TypeInv, NEW p \in Procs,
         \/ CreateFails(p) \/ NoSlot(p) \/ Disconnect(p) \/ Crash(p) \/ Restart(p)
         \/ fix_deadlock(p)
  PROVE  TypeInv'
<1>0. 0 \in 0 .. MaxSegs
  BY SegsAssumption
<1>1. CASE /\ Gone(p, "off") \/ Gone(p, "dead")
           /\ named' \in {0, named}
           /\ threw' \in SUBSET Segs
           /\ UNCHANGED <<deployment, made, memory, peer_count, sweep>>
  <2>1. PICK where \in Detached : Gone(p, where)
    BY <1>1 DEF Detached
  <2> QED BY <1>0, <1>1, <2>1, GoneType DEF memory, TypeInv, TypeOK, Counted
<1>6. NoSlot(p) => threw' \in SUBSET Segs
  BY SegMapped DEF NoSlot, Detached, TypeInv, TypeOK
<1>2. CASE NoSlot(p) /\ ~manager[p]
  <2>1. pc[p] \notin Detached /\ pc' = [pc EXCEPT ![p] = "unwind"]
    BY <1>2 DEF NoSlot, Goto, Detached
  <2>2. UNCHANGED <<deployment, named, made, phase, setup, mutex, table, peer_count, seg,
                    client_id, manager, beat, sweep>>
    BY <1>2 DEF NoSlot, memory
  <2>3. TypeOK'
    BY <1>2, <1>6, <2>1, <2>2, SMTT(30) DEF TypeInv, TypeOK, PC
  <2>4. Mapped'
    BY <2>1, <2>2 DEF TypeInv, TypeOK, Mapped, Detached
  <2> QED BY <2>2, <2>3, <2>4 DEF TypeInv, Counted
<1>3. CASE Disconnect(p) /\ ~manager[p]
  <2>1. pc[p] \notin Detached /\ pc' = [pc EXCEPT ![p] = "leave"]
        /\ beat' = [beat EXCEPT ![p] = "none"]
    BY <1>3 DEF Disconnect, Goto, Detached
  <2>2. UNCHANGED <<deployment, named, made, threw, phase, setup, mutex, table, peer_count, seg,
                    client_id, manager, sweep>>
    BY <1>3 DEF Disconnect, memory
  <2>3. TypeOK'
    BY <2>1, <2>2, SMTT(30) DEF TypeInv, TypeOK, PC
  <2>4. Mapped'
    BY <2>1, <2>2 DEF TypeInv, TypeOK, Mapped, Detached
  <2> QED BY <2>2, <2>3, <2>4 DEF TypeInv, Counted
<1>4. CASE Restart(p)
  BY <1>4 DEF Restart, Goto, memory, TypeInv, TypeOK, Mapped, Counted, Detached, PC
<1>5. CASE fix_deadlock(p)
  BY <1>5 DEF fix_deadlock, procs, TypeInv, TypeOK, Mapped, Counted
<1>7. CASE CreateFails(p) \/ Crash(p) \/ (Disconnect(p) /\ manager[p])
           \/ (NoSlot(p) /\ manager[p])
  <2>1. threw' \in SUBSET Segs
    BY <1>6, <1>7 DEF CreateFails, Disconnect, Crash, TypeInv, TypeOK
  <2> QED BY <1>1, <1>7, <2>1 DEF CreateFails, NoSlot, Disconnect, Crash
<1> QED BY <1>2, <1>3, <1>4, <1>5, <1>7

\* The sweep of the server.
LEMMA SweepType == ASSUME TypeInv, SweepDead PROVE TypeInv'
<1>0. max_peers \in Nat \ {0} /\ 1 \in Segs
  BY PeersAssumption, SegsAssumption DEF Segs
<1>1. CASE SweepLock
  <2>1. sweep' \in [at : 0 .. max_peers, doomed : BOOLEAN] /\ peer_count' \in 0 .. max_peers
    BY <1>0, <1>1 DEF SweepLock
  <2>2. Counted'
    BY <1>0, <1>1 DEF SweepLock, Counted
  <2> QED BY <1>1, <2>1, <2>2 DEF SweepLock, procs, TypeInv, TypeOK, Mapped
<1>2. CASE SweepTest
  BY <1>2 DEF SweepTest, memory, procs, TypeInv, TypeOK, Mapped, Counted
<1>3. CASE SweepSlot
  <2>1. sweep.at \in Slots /\ sweep.at \in Nat /\ sweep.at + 1 \in 0 .. max_peers
    BY <1>0, <1>3 DEF SweepSlot, TypeInv, TypeOK, Slots
  <2>2. table' \in [Segs -> [Slots -> PeerData]]
    <3>1. [table[1][sweep.at] EXCEPT !.free = TRUE] \in PeerData
      BY <1>0, <2>1, RowWrite DEF TypeInv
    <3> QED BY <1>0, <1>3, <2>1, <3>1, TableWrite DEF SweepSlot, TypeInv, TypeOK
  <2>3. sweep' \in [at : 0 .. max_peers, doomed : BOOLEAN] /\ sweep'.at = sweep.at + 1
    BY <1>3, <2>1 DEF SweepSlot
  <2>4. peer_count' \in 0 .. sweep'.at
    <3>1. peer_count \in Nat /\ peer_count <= sweep.at
      BY <1>0 DEF TypeInv, TypeOK, Counted
    <3>2. peer_count' = peer_count \/ peer_count' = peer_count + 1
      BY <1>3 DEF SweepSlot
    <3> QED BY <2>1, <2>3, <3>1, <3>2
  <2>5. mutex' \in [Segs -> Procs \cup {Server, Nobody}]
    BY <1>3 DEF SweepSlot, TypeInv, TypeOK
  <2>6. peer_count' \in 0 .. max_peers /\ Counted'
    BY <1>0, <1>3, <2>1, <2>3, <2>4 DEF SweepSlot, TypeInv, Counted
  <2> QED BY <1>3, <2>2, <2>3, <2>5, <2>6 DEF SweepSlot, procs, TypeInv, TypeOK, Mapped
<1> QED BY <1>1, <1>2, <1>3 DEF SweepDead

\* Every step keeps the types.
LEMMA TypeStep == TypeInv /\ [Next]_vars => TypeInv'
<1> SUFFICES ASSUME TypeInv, [Next]_vars PROVE TypeInv'
  OBVIOUS
<1>1. CASE UNCHANGED vars
  BY <1>1 DEF vars, TypeInv, TypeOK, Mapped, Counted
<1>2. ASSUME NEW p \in Procs,
             \/ Open(p) \/ OpenFails(p) \/ Connecting(p) \/ Heartbeat(p)
             \/ Disconnect(p) \/ Leave(p)
             \/ Crash(p) \/ Restart(p) \/ fix_deadlock(p)
      PROVE  TypeInv'
  BY <1>2, ConnectType, SlotType, EndType DEF Connecting, Heartbeat
<1>3. ASSUME NEW g \in Segs, NEW s \in Slots, GrowStale(g, s) PROVE TypeInv'
  <2>1. [table[g][s] EXCEPT !.stale = TRUE] \in PeerData
    BY RowWrite DEF TypeInv
  <2>2. table' \in [Segs -> [Slots -> PeerData]]
    BY <1>3, <2>1, TableWrite DEF GrowStale, TypeInv
  <2> QED BY <1>3, <2>2 DEF GrowStale, procs, TypeInv, TypeOK, Mapped, Counted
<1> QED BY <1>1, <1>2, <1>3, SweepType DEF Next

\* Every variable keeps its type: a search of the table ends at a slot of it,
\* and the server never counts more peers than it has slots.
THEOREM TypeCorrect == Spec => []TypeOK
<1>1. Spec => []TypeInv
  BY TypeInit, TypeStep, PTL DEF Spec
<1> QED BY <1>1, PTL DEF TypeInv

-----------------------------------------------------------------------------
(* A segment is used when it is set up.                                   *)

\* Segments are numbered as they are made; that of a server is cleared.
Numbered ==
  /\ named <= made
  /\ \A p \in Procs : seg[p] <= made
  /\ \A g \in Segs : made < g => phase[g] = "none"
  /\ deployment.server => phase[1] = "cleared" /\ setup[1] = max_peers

\* A slot is free because InitManager has made it so, or a Connect that threw.
NothingFree ==
  \A g \in Segs, s \in Slots :
    table[g][s].free => phase[g] = "cleared" /\ (s < setup[g] \/ g \in threw)

\* And so is the slot that a process has.
Placed ==
  \A p \in Procs :
    /\ pc[p] \in {"store", "unlock", "on", "leave"} =>
         client_id[p] < setup[seg[p]] \/ seg[p] \in threw
    /\ pc[p] = "unwind" => seg[p] \in threw

\* Whoever makes a segment is alone with it.
Making(p) == pc[p] \in {"truncate", "init"}
OneMaker ==
  /\ \A p \in Procs : /\ pc[p] = "truncate" => phase[seg[p]] = "empty"
                      /\ pc[p] = "init" => phase[seg[p]] = "zero"
  /\ \A p, q \in Procs : Making(p) /\ Making(q) /\ seg[p] = seg[q] => p = q

\* Whoever has locked a segment before its memset keeps it locked: nobody
\* comes so far as to unlock it, and forcing it takes a peer that is connected.
Premature(p) == pc[p] \notin Detached /\ phase[seg[p]] # "cleared"
Kept ==
  \A p \in Procs : Premature(p) =>
    /\ pc[p] \in {"truncate", "init", "lock", "slot", "unwind"}
    /\ pc[p] \in {"slot", "unwind"} => mutex[seg[p]] = p

SegInv == TypeInv /\ Numbered /\ NothingFree /\ OneMaker /\ Kept /\ Placed

\* What a process may do.
Step(p) ==
  \/ Open(p) \/ OpenFails(p) \/ Connecting(p) \/ Heartbeat(p)
  \/ Disconnect(p) \/ Leave(p)
  \/ Crash(p) \/ Restart(p) \/ fix_deadlock(p)

\* A process does not change what another has for itself.
LEMMA OthersStay ==
  ASSUME TypeInv, NEW p \in Procs, Step(p), NEW q \in Procs \ {p}
  PROVE  /\ pc'[q] = pc[q] /\ seg'[q] = seg[q] /\ client_id'[q] = client_id[q]
         /\ beat'[q] = beat[q] /\ manager'[q] = manager[q]
<1> USE DEF TypeInv, TypeOK, Goto, Gone, procs
<1>1. CASE Open(p) \/ OpenFails(p) \/ Remove(p) \/ Create(p)
  BY <1>1 DEF Open, OpenFails, Remove, Create
<1>2. CASE \/ CreateFails(p) \/ Truncate(p) \/ InitManager(p) \/ InitSlot(p) \/ InitPool(p)
           \/ Lock(p)
  BY <1>2 DEF CreateFails, Truncate, InitManager, InitSlot, InitPool, Lock
<1>3. CASE TakeSlot(p) \/ StorePeerData(p)
  BY <1>3 DEF TakeSlot, StorePeerData
<1>4. CASE NoSlot(p)
  BY <1>4 DEF NoSlot
<1>5. CASE Disconnect(p)
  BY <1>5 DEF Disconnect
<1>6. CASE Unlock(p) \/ HeartbeatCheck(p) \/ HeartbeatWrite(p)
  BY <1>6 DEF Unlock, HeartbeatCheck, HeartbeatWrite
<1>7. CASE Leave(p) \/ Crash(p) \/ Restart(p) \/ fix_deadlock(p)
  BY <1>7 DEF Leave, Crash, Restart, fix_deadlock
<1> QED BY <1>1, <1>2, <1>3, <1>4, <1>5, <1>6, <1>7 DEF Step, Connecting, Heartbeat

\* Most steps leave the segments alone, and a process keeps its segment or
\* loses it.
LEMMA SegmentsStay ==
  ASSUME TypeInv, NEW p \in Procs,
         \/ OpenFails(p) \/ Remove(p) \/ CreateFails(p) \/ InitPool(p) \/ Lock(p) \/ TakeSlot(p)
         \/ StorePeerData(p) \/ NoSlot(p) \/ Unlock(p) \/ Heartbeat(p)
         \/ Disconnect(p) \/ Leave(p) \/ Crash(p) \/ Restart(p) \/ fix_deadlock(p)
  PROVE  /\ UNCHANGED <<deployment, made, phase, setup>>
         /\ named' \in {0, named}
         /\ \A q \in Procs : seg'[q] \in {0, seg[q]}
<1> USE DEF memory, Goto, Gone
<1>1. UNCHANGED <<deployment, made, phase, setup>>
  BY DEF OpenFails, Remove, CreateFails, InitPool, Lock, TakeSlot, StorePeerData, NoSlot, Unlock, Heartbeat,
         HeartbeatCheck, HeartbeatWrite, Disconnect, Leave, Crash, Restart, fix_deadlock
<1>2. named' \in {0, named}
  BY DEF OpenFails, Remove, CreateFails, InitPool, Lock, TakeSlot, StorePeerData, NoSlot, Unlock, Heartbeat,
         HeartbeatCheck, HeartbeatWrite, Disconnect, Leave, Crash, Restart, fix_deadlock
<1>3. seg' = seg \/ seg' = [seg EXCEPT ![p] = 0]
  BY DEF OpenFails, Remove, CreateFails, InitPool, Lock, TakeSlot, StorePeerData, NoSlot, Unlock, Heartbeat,
         HeartbeatCheck, HeartbeatWrite, Disconnect, Leave, Crash, Restart, fix_deadlock, procs
<1> QED BY <1>1, <1>2, <1>3 DEF TypeInv, TypeOK

\* Segments are numbered on and stay what they are.
LEMMA NumberedStep ==
  ASSUME SegInv, TypeInv', [Next]_vars PROVE Numbered'
<1> USE SegsAssumption DEF Segs, SegInv, TypeInv, TypeOK, Numbered
<1>1. CASE UNCHANGED vars
  BY <1>1 DEF vars
<1>2. ASSUME NEW p \in Procs,
             Open(p) \/ Create(p) \/ Truncate(p) \/ InitManager(p) \/ InitSlot(p)
      PROVE  Numbered'
  <2>1. CASE Open(p)
    BY <1>2, <2>1 DEF Open, memory
  <2>2. CASE Create(p)
    BY <1>2, <2>2 DEF Create
  <2>3. CASE Truncate(p)
    BY <1>2, <2>3 DEF Truncate, OneMaker
  <2>4. CASE InitManager(p)
    BY <1>2, <2>4 DEF InitManager
  <2>5. CASE InitSlot(p)
    BY <1>2, <2>5 DEF InitSlot, procs
  <2> QED BY <1>2, <2>1, <2>2, <2>3, <2>4, <2>5
<1>3. ASSUME NEW p \in Procs,
             \/ OpenFails(p) \/ Remove(p) \/ CreateFails(p) \/ InitPool(p) \/ Lock(p) \/ TakeSlot(p)
             \/ StorePeerData(p) \/ NoSlot(p) \/ Unlock(p) \/ Heartbeat(p)
             \/ Disconnect(p) \/ Leave(p) \/ Crash(p) \/ Restart(p) \/ fix_deadlock(p)
      PROVE  Numbered'
  <2>1. made \in Nat /\ named \in Nat /\ \A q \in Procs : seg[q] \in Nat
    OBVIOUS
  <2>2. /\ UNCHANGED <<deployment, made, phase, setup>> /\ named' \in {0, named}
        /\ \A q \in Procs : seg'[q] \in {0, seg[q]}
    BY <1>3, SegmentsStay
  <2>3. Numbered
    OBVIOUS
  <2> HIDE DEF SegInv, TypeInv, TypeOK
  <2> QED BY <2>1, <2>2, <2>3
<1>4. ASSUME NEW g \in Segs, NEW s \in Slots, GrowStale(g, s) PROVE Numbered'
  BY <1>4 DEF GrowStale, procs
<1>5. CASE SweepDead
  BY <1>5 DEF SweepDead, SweepLock, SweepTest, SweepSlot, memory, procs
<1> QED BY <1>1, <1>2, <1>3, <1>4, <1>5 DEF Next, Connecting

\* Whoever makes a segment is alone with it until it is made.
LEMMA OneMakerStep ==
  ASSUME SegInv, TypeInv', [Next]_vars PROVE OneMaker'
<1> USE SegsAssumption DEF Segs, SegInv, TypeInv, TypeOK, OneMaker, Making
<1>1. CASE UNCHANGED vars
  BY <1>1 DEF vars
<1>2. ASSUME NEW p \in Procs,
             Open(p) \/ Create(p) \/ Truncate(p) \/ InitManager(p) \/ InitSlot(p)
      PROVE  OneMaker'
  <2>1. CASE Open(p)
    BY <1>2, <2>1 DEF Open, memory, Goto
  <2>2. CASE Create(p)
    <3>1. \A q \in Procs : seg[q] # made + 1
      BY DEF Numbered
    <3> QED BY <1>2, <2>2, <3>1 DEF Create, Goto
  <2>3. CASE Truncate(p)
    <3>1. seg[p] \in Segs
      BY <2>3, SegMapped DEF Truncate, Detached
    <3> QED BY <1>2, <2>3, <3>1 DEF Truncate, Goto
  <2>4. CASE InitManager(p)
    BY <1>2, <2>4 DEF InitManager, Goto
  <2>5. CASE InitSlot(p)
    BY <1>2, <2>5 DEF InitSlot, procs
  <2> QED BY <1>2, <2>1, <2>2, <2>3, <2>4, <2>5
<1>3. ASSUME NEW p \in Procs,
             \/ OpenFails(p) \/ Remove(p) \/ CreateFails(p) \/ InitPool(p) \/ Lock(p) \/ TakeSlot(p)
             \/ StorePeerData(p) \/ NoSlot(p) \/ Unlock(p) \/ Heartbeat(p)
             \/ Disconnect(p) \/ Leave(p) \/ Crash(p) \/ Restart(p) \/ fix_deadlock(p)
      PROVE  OneMaker'
  <2>1. \A q \in Procs : Making(q)' => Making(q) /\ pc'[q] = pc[q] /\ seg'[q] = seg[q]
    <3>1. \A q \in Procs \ {p} : pc'[q] = pc[q] /\ seg'[q] = seg[q]
      BY <1>3, OthersStay DEF Step, Connecting
    <3>2. Making(p)' => Heartbeat(p)
      BY <1>3, SMTT(30)
         DEF OpenFails, Remove, CreateFails, InitPool, Lock, TakeSlot, StorePeerData, NoSlot, Unlock,
             Disconnect, Leave, Crash, Restart, fix_deadlock, procs, Goto, Gone
    <3>3. Heartbeat(p) => pc' = pc /\ seg' = seg
      BY DEF Heartbeat, HeartbeatCheck, HeartbeatWrite
    <3> QED BY <3>1, <3>2, <3>3
  <2>2. phase' = phase
    BY <1>3, SegmentsStay
  <2> QED BY <2>1, <2>2
<1>4. ASSUME NEW g \in Segs, NEW s \in Slots, GrowStale(g, s) PROVE OneMaker'
  BY <1>4 DEF GrowStale, procs
<1>5. CASE SweepDead
  BY <1>5 DEF SweepDead, SweepLock, SweepTest, SweepSlot, memory, procs
<1> QED BY <1>1, <1>2, <1>3, <1>4, <1>5 DEF Next, Connecting

\* Who has come further than the lock has a segment that is cleared.
LEMMA ClearedWhen ==
  ASSUME SegInv, NEW p \in Procs
  PROVE  /\ pc[p] \in {"store", "unlock", "on", "leave"} => phase[seg[p]] = "cleared"
         /\ Leave(p) => phase[seg[p]] = "cleared"
         /\ TakeSlot(p) => phase[seg[p]] = "cleared"
<1>1. pc[p] \in {"store", "unlock", "on", "leave"} => phase[seg[p]] = "cleared"
  BY DEF SegInv, Kept, Premature, Detached
<1>2. Leave(p) => phase[seg[p]] = "cleared"
  <2>1. CASE pc[p] = "leave"
    BY <1>1, <2>1
  <2>2. CASE pc[p] = "unwind"
    BY <2>2, OwnerAssumption DEF Leave, SegInv, Kept, Premature, Detached
  <2> QED BY <2>1, <2>2 DEF Leave
<1>3. TakeSlot(p) => phase[seg[p]] = "cleared"
  <2>1. SUFFICES ASSUME TakeSlot(p) PROVE phase[seg[p]] = "cleared"
    OBVIOUS
  <2>2. seg[p] \in Segs
    BY <2>1, SegMapped DEF TakeSlot, Detached, SegInv
  <2>3. PICK s \in Slots : table[seg[p]][s].free
    BY <2>1 DEF TakeSlot, FreeSlots
  <2> QED BY <2>2, <2>3 DEF SegInv, NothingFree
<1> QED BY <1>1, <1>2, <1>3

\* What has thrown has thrown.
LEMMA ThrewGrows == ASSUME [Next]_vars PROVE threw \subseteq threw'
<1>1. ASSUME NEW p \in Procs, Step(p) PROVE threw \subseteq threw'
  BY <1>1 DEF Step, Connecting, Heartbeat, Open, OpenFails, Remove, Create, CreateFails, Truncate,
     InitManager, InitSlot, InitPool, Lock, TakeSlot, StorePeerData, NoSlot, Unlock,
     HeartbeatCheck, HeartbeatWrite, Disconnect, Leave, Crash, Restart, fix_deadlock
<1> QED
  BY <1>1 DEF Next, Step, GrowStale, SweepDead, SweepLock, SweepTest, SweepSlot, vars

\* The loop of InitManager goes one way.
LEMMA SetupGrows == ASSUME SegInv, [Next]_vars, NEW g \in Segs PROVE setup[g] <= setup'[g]
<1>0. setup \in [Segs -> 0 .. max_peers]
  BY DEF SegInv, TypeInv, TypeOK
<1>1. CASE setup' = setup
  BY <1>0, <1>1
<1>2. ASSUME NEW p \in Procs, InitSlot(p) PROVE setup[g] <= setup'[g]
  <2>1. setup'[g] = setup[g] \/ setup'[g] = setup[g] + 1
    BY <1>0, <1>2 DEF InitSlot
  <2> QED BY <1>0, <2>1
<1>3. ASSUME NEW p \in Procs, Step(p), ~InitSlot(p) PROVE setup' = setup
  BY <1>3 DEF Step, Connecting, Heartbeat, Open, OpenFails, Remove, Create, CreateFails, Truncate,
     InitManager, InitPool, Lock, TakeSlot, StorePeerData, NoSlot, Unlock, memory,
     HeartbeatCheck, HeartbeatWrite, Disconnect, Leave, Crash, Restart, fix_deadlock
<1> QED
  BY <1>1, <1>2, <1>3 DEF Next, Step, GrowStale, SweepDead, SweepLock, SweepTest, SweepSlot,
     memory, vars

\* Slots become free in their turn, or when a Connect has thrown.
LEMMA NothingFreeStep ==
  ASSUME SegInv, TypeInv', [Next]_vars PROVE NothingFree'
<1>0. /\ phase \in [Segs -> {"none", "empty", "zero", "cleared"}]
      /\ table \in [Segs -> [Slots -> PeerData]] /\ NothingFree
      /\ setup \in [Segs -> 0 .. max_peers]
  BY DEF SegInv, TypeInv, TypeOK
<1>11. threw \subseteq threw'
  BY ThrewGrows
<1>1. CASE UNCHANGED <<phase, setup, table>>
  BY <1>0, <1>1, <1>11 DEF NothingFree
<1>2. ASSUME NEW p \in Procs, Create(p) \/ Truncate(p) PROVE NothingFree'
  <2>1. PICK g \in Segs : phase[g] # "cleared" /\ \A h \in Segs \ {g} : phase'[h] = phase[h]
    <3>1. CASE Create(p)
      <4>1. made + 1 \in Segs /\ made < made + 1
        BY <3>1 DEF Create, Segs, SegInv, TypeInv, TypeOK
      <4> QED BY <1>0, <3>1, <4>1 DEF Create, SegInv, Numbered
    <3>2. CASE Truncate(p)
      <4>1. seg[p] \in Segs
        BY <3>2, SegMapped DEF Truncate, Detached, SegInv
      <4> QED BY <1>0, <3>2, <4>1 DEF Truncate, SegInv, OneMaker
    <3> QED BY <1>2, <3>1, <3>2
  <2>2. table' = table /\ setup' = setup
    BY <1>2 DEF Create, Truncate
  <2> QED BY <1>0, <1>11, <2>1, <2>2 DEF NothingFree
<1>3. ASSUME NEW p \in Procs, InitManager(p) PROVE NothingFree'
  <2>1. seg[p] \in Segs
    BY <1>3, SegMapped DEF InitManager, Detached, SegInv
  <2>2. \A s \in Slots : ~table'[seg[p]][s].free
    BY <1>0, <1>3, <2>1 DEF InitManager, ZeroTable
  <2>3. \A g \in Segs \ {seg[p]} : table'[g] = table[g] /\ phase'[g] = phase[g]
    BY <1>0, <1>3 DEF InitManager
  <2>4. setup' = setup
    BY <1>3 DEF InitManager
  <2> QED BY <1>0, <1>11, <2>2, <2>3, <2>4 DEF NothingFree
<1>12. ASSUME NEW p \in Procs, InitSlot(p) PROVE NothingFree'
  <2>1. seg[p] \in Segs /\ phase[seg[p]] = "cleared"
    BY <1>12, SegMapped DEF InitSlot, Detached, SegInv, Kept, Premature
  <2>2. setup[seg[p]] \in Slots /\ setup[seg[p]] \in Nat
    BY <1>0, <1>12, <2>1, PeersAssumption DEF InitSlot, Slots
  <2>3. setup' = [setup EXCEPT ![seg[p]] = setup[seg[p]] + 1] /\ phase' = phase
        /\ table' = [table EXCEPT ![seg[p]][setup[seg[p]]].free = TRUE]
    BY <1>0, <1>12, <2>1 DEF InitSlot
  <2>4. ASSUME NEW g \in Segs, NEW s \in Slots, table'[g][s].free
        PROVE  phase'[g] = "cleared" /\ (s < setup'[g] \/ g \in threw')
    <3>1. CASE g = seg[p] /\ s = setup[seg[p]]
      BY <1>0, <2>1, <2>2, <2>3, <3>1
    <3>2. CASE ~(g = seg[p] /\ s = setup[seg[p]])
      <4>1. table'[g][s] = table[g][s]
        BY <1>0, <2>1, <2>2, <2>3, <3>2
      <4>2. phase[g] = "cleared" /\ (s < setup[g] \/ g \in threw)
        BY <1>0, <2>4, <4>1 DEF NothingFree
      <4>3. setup'[g] = setup[g] \/ setup'[g] = setup[g] + 1
        BY <1>0, <2>3
      <4>4. s \in Nat /\ setup[g] \in Nat
        BY <1>0 DEF Slots
      <4> QED BY <1>11, <2>3, <4>2, <4>3, <4>4
    <3> QED BY <3>1, <3>2
  <2> QED BY <2>4 DEF NothingFree
<1>4. ASSUME NEW g \in Segs, NEW s \in Slots, NEW d \in PeerData,
             table' = [table EXCEPT ![g][s] = d], phase' = phase, setup' = setup,
             \/ ~d.free
             \/ table[g][s].free
             \/ phase[g] = "cleared" /\ (s < setup[g] \/ g \in threw)
      PROVE  NothingFree'
  <2> SUFFICES ASSUME NEW h \in Segs, NEW r \in Slots, table'[h][r].free
               PROVE  phase[h] = "cleared" /\ (r < setup[h] \/ h \in threw)
    BY <1>4, <1>11 DEF NothingFree
  <2>1. CASE h = g /\ r = s
    BY <1>0, <1>4, <2>1 DEF NothingFree
  <2>2. CASE ~(h = g /\ r = s)
    BY <1>0, <1>4, <2>2 DEF NothingFree
  <2> QED BY <2>1, <2>2
<1>5. ASSUME NEW p \in Procs, StorePeerData(p) \/ HeartbeatWrite(p) \/ Leave(p)
      PROVE  NothingFree'
  <2>0. client_id[p] \in Slots
    BY DEF SegInv, TypeInv, TypeOK
  <2>1. CASE seg[p] \in Segs
    <3>1. table[seg[p]][client_id[p]] \in PeerData
      BY <1>0, <2>0, <2>1
    <3>2. CASE StorePeerData(p)
      <4> DEFINE d == [table[seg[p]][client_id[p]] EXCEPT !.free = FALSE, !.pid = p]
      <4>1. d \in PeerData /\ ~d.free
        BY <2>0, <2>1, <3>1, RowWrite DEF SegInv, TypeInv, PeerData
      <4>2. table' = [table EXCEPT ![seg[p]][client_id[p]] = d]
            /\ UNCHANGED <<phase, setup>>
        BY <2>0, <2>1, <3>2 DEF StorePeerData
      <4> HIDE DEF d
      <4> QED BY <1>4, <2>0, <2>1, <4>1, <4>2
    <3>3. CASE HeartbeatWrite(p)
      <4> DEFINE d == [table[seg[p]][client_id[p]] EXCEPT !.free = FALSE, !.stale = FALSE]
      <4>1. d \in PeerData /\ ~d.free
        BY <2>0, <2>1, <3>1, RowWrite DEF SegInv, TypeInv, PeerData
      <4>2. table' = [table EXCEPT ![seg[p]][client_id[p]] = d]
            /\ UNCHANGED <<phase, setup>>
        BY <2>0, <2>1, <3>3 DEF HeartbeatWrite
      <4> HIDE DEF d
      <4> QED BY <1>4, <2>0, <2>1, <4>1, <4>2
    <3>4. CASE Leave(p)
      <4> DEFINE d == [table[seg[p]][client_id[p]] EXCEPT !.free = TRUE]
      <4>1. d \in PeerData
        BY <2>0, <2>1, RowWrite DEF SegInv, TypeInv
      <4>2. table' = [table EXCEPT ![seg[p]][client_id[p]] = d]
            /\ UNCHANGED <<phase, setup>>
        BY <2>0, <2>1, <3>4 DEF Leave
      <4>3. phase[seg[p]] = "cleared" /\ (client_id[p] < setup[seg[p]] \/ seg[p] \in threw)
        BY <3>4, ClearedWhen DEF Leave, SegInv, Placed
      <4> HIDE DEF d
      <4> QED BY <1>4, <2>0, <2>1, <4>1, <4>2, <4>3
    <3> QED BY <1>5, <3>2, <3>3, <3>4
  <2>2. CASE seg[p] \notin Segs
    <3>1. UNCHANGED <<phase, setup, table>>
      BY <1>0, <1>5, <2>2 DEF StorePeerData, HeartbeatWrite, Leave
    <3> QED BY <1>1, <3>1
  <2> QED BY <2>1, <2>2
<1>6. ASSUME NEW g \in Segs, NEW s \in Slots, GrowStale(g, s) PROVE NothingFree'
  <2>1. [table[g][s] EXCEPT !.stale = TRUE] \in PeerData
    BY RowWrite DEF SegInv, TypeInv
  <2>2. [table[g][s] EXCEPT !.stale = TRUE].free = table[g][s].free
    BY <1>0 DEF PeerData
  <2>3. /\ table' = [table EXCEPT ![g][s] = [table[g][s] EXCEPT !.stale = TRUE]]
        /\ phase' = phase /\ setup' = setup
    BY <1>0, <1>6 DEF GrowStale
  <2> QED BY <1>4, <2>1, <2>2, <2>3
<1>7. CASE SweepSlot
  <2>1. 1 \in Segs /\ sweep.at \in Slots
    BY <1>7, PeersAssumption, SegsAssumption DEF Segs, Slots, SweepSlot, SegInv, TypeInv, TypeOK
  <2>2. phase[1] = "cleared" /\ sweep.at < setup[1]
    <3>1. deployment.sweeping /\ deployment \in Deployments
      BY <1>7 DEF SweepSlot, SegInv, TypeInv, TypeOK, Counted
    <3>2. deployment.server
      BY <3>1, DeploymentAssumption
    <3> QED BY <1>7, <3>2 DEF SweepSlot, SegInv, Numbered
  <2>3. [table[1][sweep.at] EXCEPT !.free = TRUE] \in PeerData
    BY <2>1, RowWrite DEF SegInv, TypeInv
  <2>4. CASE sweep.doomed
    <3>1. table' = [table EXCEPT ![1][sweep.at] = [table[1][sweep.at] EXCEPT !.free = TRUE]]
          /\ UNCHANGED <<phase, setup>>
      BY <1>7, <2>1, <2>4 DEF SweepSlot
    <3> QED BY <1>4, <2>1, <2>2, <2>3, <3>1
  <2>5. CASE ~sweep.doomed
    BY <1>1, <1>7, <2>5 DEF SweepSlot
  <2> QED BY <2>4, <2>5
<1>8. ASSUME NEW p \in Procs, Step(p),
             ~(Create(p) \/ Truncate(p) \/ InitManager(p) \/ InitSlot(p)),
             ~(StorePeerData(p) \/ HeartbeatWrite(p) \/ Leave(p))
      PROVE  UNCHANGED <<phase, setup, table>>
  BY <1>8 DEF Step, Connecting, Heartbeat, Open, OpenFails, Remove, CreateFails, InitPool, Lock, TakeSlot,
         NoSlot, Unlock, HeartbeatCheck, Disconnect, Crash, Restart, fix_deadlock, memory
<1>9. CASE SweepLock \/ SweepTest \/ UNCHANGED vars
  <2>1. UNCHANGED <<phase, setup, table>>
    BY <1>9 DEF SweepLock, SweepTest, vars, memory
  <2> QED BY <1>1, <2>1
<1>10. ASSUME NEW p \in Procs, Step(p) PROVE NothingFree'
  BY <1>1, <1>2, <1>3, <1>5, <1>8, <1>10, <1>12
<1> QED BY <1>6, <1>7, <1>9, <1>10 DEF Next, SweepDead, Step

\* A search takes a slot that is free, and a throw leaves its trace.
LEMMA PlacedStep == ASSUME SegInv, TypeInv', [Next]_vars PROVE Placed'
<1>0. /\ setup \in [Segs -> 0 .. max_peers] /\ pc \in [Procs -> PC]
      /\ setup' \in [Segs -> 0 .. max_peers] /\ threw \subseteq threw'
      /\ client_id \in [Procs -> Slots] /\ seg \in [Procs -> 0 .. MaxSegs]
  BY ThrewGrows DEF SegInv, TypeInv, TypeOK
<1> DEFINE Has == {"store", "unlock", "on", "leave"}
<1>1. ASSUME NEW q \in Procs, pc'[q] = pc[q], seg'[q] = seg[q], client_id'[q] = client_id[q]
      PROVE  /\ pc'[q] \in Has => client_id'[q] < setup'[seg'[q]] \/ seg'[q] \in threw'
             /\ pc'[q] = "unwind" => seg'[q] \in threw'
  <2>1. CASE pc[q] \in Has
    <3>1. seg[q] \in Segs
      BY <2>1, SegMapped DEF Detached, SegInv
    <3>2. client_id[q] < setup[seg[q]] \/ seg[q] \in threw
      BY <2>1 DEF SegInv, Placed
    <3>3. client_id[q] \in Nat /\ setup[seg[q]] \in Nat /\ setup'[seg[q]] \in Nat
          /\ setup[seg[q]] <= setup'[seg[q]]
      BY <1>0, <3>1, SetupGrows DEF Slots
    <3> QED BY <1>0, <1>1, <2>1, <3>2, <3>3
  <2>2. CASE pc[q] \notin Has
    BY <1>0, <1>1, <2>2 DEF SegInv, Placed
  <2> QED BY <2>1, <2>2
<1>2. ASSUME NEW p \in Procs, Step(p)
      PROVE  /\ pc'[p] \in Has => client_id'[p] < setup'[seg'[p]] \/ seg'[p] \in threw'
             /\ pc'[p] = "unwind" => seg'[p] \in threw'
  <2>1. CASE Open(p) \/ OpenFails(p) \/ Remove(p) \/ Create(p) \/ CreateFails(p)
             \/ Truncate(p) \/ InitManager(p) \/ InitPool(p) \/ Lock(p)
    <3>1. pc'[p] \notin Has /\ pc'[p] # "unwind"
      BY <1>0, <2>1 DEF Open, OpenFails, Remove, Create, CreateFails, Truncate, InitManager,
         InitPool, Lock, Goto, Gone
    <3> QED BY <3>1
  <2>2. CASE Leave(p) \/ Crash(p) \/ Restart(p)
    <3>1. pc'[p] \notin Has /\ pc'[p] # "unwind"
      BY <1>0, <2>2 DEF Leave, Crash, Restart, Goto, Gone
    <3> QED BY <3>1
  <2>3. CASE Heartbeat(p) \/ fix_deadlock(p) \/ InitSlot(p)
    BY <1>1, <2>3 DEF Heartbeat, HeartbeatCheck, HeartbeatWrite, fix_deadlock, InitSlot, procs
  <2>4. CASE TakeSlot(p)
    <3>1. seg[p] \in Segs
      BY <2>4, SegMapped DEF TakeSlot, Detached, SegInv
    <3>2. FirstAvailableSlot(seg[p]) \in Slots /\ table[seg[p]][FirstAvailableSlot(seg[p])].free
      BY <2>4, <3>1, FirstIsFree DEF TakeSlot, SegInv, TypeInv
    <3>3. FirstAvailableSlot(seg[p]) < setup[seg[p]] \/ seg[p] \in threw
      BY <3>1, <3>2 DEF SegInv, NothingFree
    <3>4. client_id'[p] = FirstAvailableSlot(seg[p]) /\ UNCHANGED <<seg, setup>>
          /\ pc'[p] = "store"
      BY <1>0, <2>4 DEF TakeSlot, memory, Goto
    <3> QED BY <1>0, <3>3, <3>4
  <2>5. CASE StorePeerData(p) \/ Unlock(p) \/ (Disconnect(p) /\ ~manager[p])
    <3>1. UNCHANGED <<seg, client_id, setup>> /\ pc[p] \in Has /\ pc'[p] \in Has
      BY <1>0, <2>5 DEF StorePeerData, Unlock, Disconnect, memory, Goto
    <3> QED BY <1>0, <3>1 DEF SegInv, Placed
  <2>6. CASE NoSlot(p)
    <3>1. CASE manager[p]
      BY <1>0, <2>6, <3>1 DEF NoSlot, Gone, Goto
    <3>2. CASE ~manager[p]
      BY <1>0, <2>6, <3>2 DEF NoSlot, Goto
    <3> QED BY <3>1, <3>2
  <2>7. CASE Disconnect(p) /\ manager[p]
    BY <1>0, <2>7 DEF Disconnect, Gone, Goto
  <2> QED BY <1>2, <2>1, <2>2, <2>3, <2>4, <2>5, <2>6, <2>7 DEF Step, Connecting
<1>3. ASSUME NEW p \in Procs, Step(p) PROVE Placed'
  <2>1. \A q \in Procs \ {p} : pc'[q] = pc[q] /\ seg'[q] = seg[q] /\ client_id'[q] = client_id[q]
    BY <1>3, OthersStay DEF SegInv
  <2> QED BY <1>1, <1>2, <1>3, <2>1 DEF Placed
<1>4. CASE UNCHANGED <<pc, seg, client_id>>
  BY <1>1, <1>4 DEF Placed
<1> QED
  BY <1>3, <1>4 DEF Next, Step, GrowStale, SweepDead, SweepLock, SweepTest, SweepSlot, procs, vars

\* Who steps in a segment that is not cleared keeps it locked...
LEMMA KeptByStepper ==
  ASSUME SegInv, TypeInv', NEW p \in Procs, Step(p), Premature(p)'
  PROVE  /\ pc'[p] \in {"truncate", "init", "lock", "slot", "unwind"}
         /\ pc'[p] \in {"slot", "unwind"} => mutex'[seg'[p]] = p
<1>0. pc \in [Procs -> PC] /\ seg \in [Procs -> 0 .. MaxSegs]
  BY DEF SegInv, TypeInv, TypeOK
<1>1. pc'[p] \notin Detached /\ phase'[seg'[p]] # "cleared"
  BY DEF Premature
<1>2. CASE pc'[p] \in {"truncate", "init", "lock"}
  BY <1>2
<1>3. CASE Lock(p)
  <2>1. seg[p] \in Segs
    BY <1>3, SegMapped DEF Lock, Detached, SegInv
  <2> QED BY <1>0, <1>3, <2>1 DEF Lock, Goto, SegInv, TypeInv, TypeOK
<1>4. CASE NoSlot(p)
  <2>1. UNCHANGED <<seg, mutex, phase>> /\ pc'[p] = "unwind"
    BY <1>0, <1>1, <1>4 DEF NoSlot, Goto, Gone, memory, Detached
  <2>2. Premature(p) /\ pc[p] = "slot"
    BY <1>1, <1>4, <2>1 DEF NoSlot, Premature, Detached
  <2> QED BY <2>1, <2>2 DEF SegInv, Kept
<1>5. CASE Heartbeat(p)
  <2>1. UNCHANGED <<pc, seg, mutex, phase>>
    BY <1>5 DEF Heartbeat, HeartbeatCheck, HeartbeatWrite, memory
  <2>2. Premature(p)
    BY <1>1, <2>1 DEF Premature
  <2> QED BY <2>1, <2>2 DEF SegInv, Kept
<1>6. CASE InitManager(p)
  <2>1. seg[p] \in Segs
    BY <1>6, SegMapped DEF InitManager, Detached, SegInv
  <2> QED BY <1>1, <1>6, <2>1 DEF InitManager, SegInv, TypeInv, TypeOK
<1>11. CASE InitSlot(p) \/ InitPool(p)
  <2>1. UNCHANGED <<seg, phase>> /\ pc[p] = "setup"
    BY <1>11 DEF InitSlot, InitPool, memory, procs
  <2> QED BY <1>1, <2>1 DEF SegInv, Kept, Premature, Detached
<1>7. CASE TakeSlot(p) \/ StorePeerData(p) \/ Unlock(p) \/ fix_deadlock(p)
  <2>1. phase[seg[p]] = "cleared"
    BY <1>7, ClearedWhen DEF StorePeerData, Unlock, fix_deadlock
  <2>2. UNCHANGED <<seg, phase>>
    BY <1>7 DEF TakeSlot, StorePeerData, Unlock, fix_deadlock, memory, procs
  <2> QED BY <1>1, <2>1, <2>2
<1>8. CASE Disconnect(p)
  <2>1. phase[seg[p]] = "cleared"
    BY <1>8, ClearedWhen DEF Disconnect
  <2>2. phase' = phase /\ (seg' = seg \/ pc'[p] = "off")
    BY <1>0, <1>8 DEF Disconnect, memory, Gone, Goto
  <2> QED BY <1>1, <2>1, <2>2 DEF Detached
<1>9. CASE OpenFails(p) \/ Remove(p) \/ CreateFails(p) \/ Leave(p) \/ Crash(p) \/ Restart(p)
  <2>1. pc'[p] \in Detached
    BY <1>0, <1>9 DEF OpenFails, Remove, CreateFails, Leave, Crash, Restart, Gone, Goto, Detached
  <2> QED BY <1>1, <2>1
<1>10. CASE Open(p) \/ Create(p) \/ Truncate(p)
  <2>1. pc'[p] \in {"truncate", "init", "lock"}
    BY <1>0, <1>10 DEF Open, Create, Truncate, Goto
  <2> QED BY <2>1
<1> QED
  BY <1>3, <1>4, <1>5, <1>6, <1>7, <1>8, <1>9, <1>10, <1>11 DEF Step, Connecting

\* ... and nobody else unlocks it.
LEMMA KeptByOthers ==
  ASSUME SegInv, TypeInv', NEW p \in Procs, Step(p), NEW q \in Procs \ {p}, Premature(q)'
  PROVE  /\ Premature(q)
         /\ pc[q] \in {"slot", "unwind"} => mutex'[seg[q]] = mutex[seg[q]]
<1>0. pc'[q] = pc[q] /\ seg'[q] = seg[q]
  BY OthersStay DEF SegInv
<1>1. pc[q] \notin Detached /\ phase'[seg[q]] # "cleared"
  BY <1>0 DEF Premature
<1>2. /\ phase \in [Segs -> {"none", "empty", "zero", "cleared"}]
      /\ mutex \in [Segs -> Procs \cup {Server, Nobody}]
  BY DEF SegInv, TypeInv, TypeOK
<1>3. seg[q] \in Segs
  BY <1>1, SegMapped DEF SegInv
<1>4. Premature(q)
  <2>1. CASE Create(p)
    <3>1. seg[q] # made + 1
      BY DEF SegInv, Numbered, TypeInv, TypeOK
    <3> QED BY <1>1, <1>2, <1>3, <2>1, <3>1 DEF Create, Premature
  <2>2. CASE Truncate(p)
    <3>1. phase[seg[p]] = "empty"
      BY <2>2 DEF Truncate, SegInv, OneMaker
    <3> QED BY <1>1, <1>2, <1>3, <2>2, <3>1 DEF Truncate, Premature
  <2>3. CASE InitManager(p)
    BY <1>1, <1>2, <1>3, <2>3 DEF InitManager, Premature
  <2>4. CASE ~(Create(p) \/ Truncate(p) \/ InitManager(p))
    <3>1. phase' = phase
      BY <2>4 DEF Step, Connecting, InitSlot, InitPool, Open, memory, Heartbeat, OpenFails, Remove, CreateFails, Lock,
         TakeSlot, StorePeerData, NoSlot, Unlock, HeartbeatCheck, HeartbeatWrite, Disconnect,
         Leave, Crash, Restart, fix_deadlock
    <3> QED BY <1>1, <3>1 DEF Premature
  <2> QED BY <2>1, <2>2, <2>3, <2>4
<1>5. ASSUME pc[q] \in {"slot", "unwind"} PROVE mutex'[seg[q]] = mutex[seg[q]]
  <2>1. mutex[seg[q]] = q /\ q # Nobody
    BY <1>4, <1>5, OwnerAssumption DEF SegInv, Kept
  <2>2. CASE Lock(p)
    BY <1>2, <1>3, <2>1, <2>2 DEF Lock
  <2>3. CASE InitManager(p)
    <3>1. seg[p] # seg[q]
      BY <1>1, <1>2, <1>3, <2>3 DEF InitManager
    <3> QED BY <1>2, <1>3, <2>3, <3>1 DEF InitManager
  <2>4. CASE Unlock(p) \/ fix_deadlock(p)
    <3>1. seg[p] # seg[q]
      BY <1>4, <2>4, ClearedWhen DEF Unlock, fix_deadlock, Premature
    <3> QED BY <1>2, <1>3, <2>4, <3>1 DEF Unlock, fix_deadlock
  <2>5. CASE ~(Lock(p) \/ InitManager(p) \/ Unlock(p) \/ fix_deadlock(p))
    <3>1. mutex' = mutex
      BY <2>5 DEF Step, Connecting, InitSlot, InitPool, Open, memory, Heartbeat, OpenFails, Remove, Create, CreateFails,
         Truncate, TakeSlot, StorePeerData, NoSlot, HeartbeatCheck, HeartbeatWrite, Disconnect,
         Leave, Crash, Restart
    <3> QED BY <3>1
  <2> QED BY <2>2, <2>3, <2>4, <2>5
<1> QED BY <1>4, <1>5

\* The server's segment is cleared, so its sweep unlocks none that is not.
LEMMA KeptStep == ASSUME SegInv, TypeInv', [Next]_vars PROVE Kept'
<1>1. ASSUME NEW p \in Procs, Step(p) PROVE Kept'
  <2> SUFFICES ASSUME NEW q \in Procs, Premature(q)'
               PROVE  /\ pc'[q] \in {"truncate", "init", "lock", "slot", "unwind"}
                      /\ pc'[q] \in {"slot", "unwind"} => mutex'[seg'[q]] = q
    BY DEF Kept
  <2>1. CASE q = p
    BY <1>1, <2>1, KeptByStepper
  <2>2. CASE q # p
    <3>1. pc'[q] = pc[q] /\ seg'[q] = seg[q]
      BY <1>1, <2>2, OthersStay DEF SegInv
    <3> QED BY <1>1, <2>2, <3>1, KeptByOthers DEF SegInv, Kept
  <2> QED BY <2>1, <2>2
<1>2. ASSUME UNCHANGED <<phase, mutex, pc, seg>> PROVE Kept'
  BY <1>2 DEF SegInv, Kept, Premature
<1>3. ASSUME SweepLock \/ SweepSlot PROVE Kept'
  <2>1. UNCHANGED <<phase, pc, seg>>
    BY <1>3 DEF SweepLock, SweepSlot, procs
  <2>2. phase[1] = "cleared"
    <3>1. deployment.sweeping /\ deployment \in Deployments
      BY <1>3 DEF SweepLock, SweepSlot, SegInv, TypeInv, TypeOK, Counted
    <3>2. deployment.server
      BY <3>1, DeploymentAssumption
    <3> QED BY <3>2 DEF SegInv, Numbered
  <2>3. \A g \in Segs \ {1} : mutex'[g] = mutex[g]
    BY <1>3 DEF SweepLock, SweepSlot, SegInv, TypeInv, TypeOK
  <2>4. \A q \in Procs : Premature(q) => seg[q] \in Segs \ {1}
    BY <2>2, SegMapped DEF Premature, SegInv
  <2> QED BY <2>1, <2>3, <2>4 DEF SegInv, Kept, Premature
<1>4. CASE UNCHANGED vars
  BY <1>2, <1>4 DEF vars
<1>5. CASE SweepTest
  BY <1>2, <1>5 DEF SweepTest, memory, procs
<1>6. ASSUME NEW g \in Segs, NEW s \in Slots, GrowStale(g, s) PROVE Kept'
  BY <1>2, <1>6 DEF GrowStale, procs
<1> QED BY <1>1, <1>3, <1>4, <1>5, <1>6 DEF Next, SweepDead, Step

\* No segment is there but that of the server, and it is cleared.
LEMMA SegInit == Init => SegInv
<1> SUFFICES ASSUME Init PROVE SegInv
  OBVIOUS
<1>1. named \in Nat /\ made = named /\ (deployment.server => named = 1)
  BY DEF Init
<1>2. Numbered
  BY <1>1, SegsAssumption DEF Init, Numbered, Segs
<1>3. NothingFree
  <2> SUFFICES ASSUME NEW g \in Segs, NEW s \in Slots, table[g][s].free
               PROVE  phase[g] = "cleared" /\ s < setup[g]
    BY DEF NothingFree
  <2>1. g <= made
    BY DEF Init, ZeroTable
  <2> QED BY <2>1, PeersAssumption DEF Init, Slots, Segs
<1>4. OneMaker /\ Kept /\ Placed
  BY DEF Init, OneMaker, Making, Kept, Placed, Premature, Detached
<1> QED BY <1>2, <1>3, <1>4, TypeInit DEF SegInv

\* The invariant holds in every reachable state.
LEMMA SegInductive == Spec => []SegInv
<1>1. SegInv /\ [Next]_vars => SegInv'
  BY TypeStep, NumberedStep, NothingFreeStep, OneMakerStep, KeptStep, PlacedStep DEF SegInv
<1> QED BY <1>1, SegInit, PTL DEF Spec

\* Nobody has a slot of a segment before InitManager has come to it, for any
\* number of processes that find, remove and create the name at once and any
\* number of slots, whatever is killed and whoever forces a mutex: the memset and
\* the loop, which work without the mutex, never undo what a connected peer has.
THEOREM AttachedSetUpHolds == Spec => []AttachedSetUp
<1>1. SegInv => AttachedSetUp
  BY ClearedWhen DEF AttachedSetUp, Attached, SegInv, Placed
<1> QED BY <1>1, SegInductive, PTL

-----------------------------------------------------------------------------
(* A server whose mutex nobody forces.                                     *)

\* Nobody forces the mutex of a server.
Unforced == \A d \in Deployments : d.server => "unlock" \notin d.faults

\* Everybody finds the segment of the server, and nobody makes another: a
\* search that fails keeps the mutex, so it never comes to attach(true).
Served ==
  deployment.server =>
    /\ named = 1
    /\ \A p \in Procs : /\ ~manager[p]
                        /\ pc[p] \notin {"remove", "create", "truncate", "init", "setup"}
                        /\ seg[p] \in {0, 1}
                        /\ pc[p] \in {"slot", "store", "unlock", "unwind"} => mutex[1] = p
    /\ sweep.at < max_peers => mutex[1] = Server

\* The heartbeat thread runs while its peer is connected.  Without a sweep a
\* connected peer keeps its slot, and the slot that a search has found stays
\* free until it is taken.
Held ==
  /\ \A p \in Procs : beat[p] # "none" => pc[p] = "on"
  /\ deployment.server /\ ~deployment.sweeping =>
       \A p \in Procs :
         /\ pc[p] \in {"unlock", "on", "leave"} =>
              ~table[1][client_id[p]].free /\ table[1][client_id[p]].pid = p
         /\ pc[p] = "store" => table[1][client_id[p]].free

ServerInv == SegInv /\ Served /\ Held

\* With a server some steps are never taken.
LEMMA NeverServed ==
  ASSUME ServerInv, Unforced, deployment.server, NEW p \in Procs
  PROVE  /\ ~OpenFails(p) /\ ~Remove(p) /\ ~Create(p) /\ ~CreateFails(p) /\ ~Truncate(p)
         /\ ~InitManager(p) /\ ~InitSlot(p) /\ ~InitPool(p) /\ ~fix_deadlock(p) /\ ~manager[p]
         /\ Leave(p) => pc[p] = "leave"
         /\ pc[p] \notin Detached => seg[p] = 1
<1>1. phase[1] = "cleared" /\ named = 1
  BY DEF ServerInv, SegInv, Numbered, Served
<1>2. ~OpenFails(p)
  BY <1>1 DEF OpenFails
<1>3. /\ ~Remove(p) /\ ~Create(p) /\ ~CreateFails(p) /\ ~Truncate(p)
      /\ ~InitManager(p) /\ ~InitSlot(p) /\ ~InitPool(p) /\ ~manager[p]
  BY DEF ServerInv, Served, Remove, Create, CreateFails, Truncate, InitManager, InitSlot, InitPool
<1>4. ~fix_deadlock(p)
  BY DEF fix_deadlock, Unforced, ServerInv, SegInv, TypeInv, TypeOK
<1>5. pc[p] \notin Detached => seg[p] = 1
  BY DEF ServerInv, SegInv, TypeInv, Mapped, Served
<1>6. Leave(p) => pc[p] = "leave"
  BY <1>5, OwnerAssumption DEF Leave, ServerInv, Served, Detached
<1> QED BY <1>2, <1>3, <1>4, <1>5, <1>6

\* A step of a process that has a server.
LEMMA ServedByStep ==
  ASSUME ServerInv, Unforced, TypeInv', NEW p \in Procs, Step(p), deployment.server
  PROVE  Served'
<1>0. /\ mutex \in [Segs -> Procs \cup {Server, Nobody}] /\ 1 \in Segs
      /\ pc \in [Procs -> PC] /\ seg \in [Procs -> 0 .. MaxSegs]
      /\ manager \in [Procs -> BOOLEAN]
  BY SegsAssumption DEF Segs, ServerInv, SegInv, TypeInv, TypeOK
<1>1. \/ Open(p) \/ Lock(p) \/ TakeSlot(p) \/ StorePeerData(p) \/ NoSlot(p) \/ Unlock(p)
      \/ Heartbeat(p) \/ Disconnect(p) \/ Leave(p) \/ Crash(p) \/ Restart(p)
  BY NeverServed DEF Step, Connecting
<1>2. named' = 1 /\ sweep' = sweep /\ deployment' = deployment
  <2>1. named' = named /\ sweep' = sweep /\ deployment' = deployment
    BY <1>1, NeverServed DEF Open, Lock, TakeSlot, StorePeerData, NoSlot, Unlock, Heartbeat,
       HeartbeatCheck, HeartbeatWrite, Disconnect, Leave, Crash, Restart, memory
  <2> QED BY <2>1 DEF ServerInv, Served
<1>3. /\ ~manager'[p] /\ seg'[p] \in {0, 1}
      /\ pc'[p] \notin {"remove", "create", "truncate", "init", "setup"}
  <2>0. ~manager[p] /\ seg[p] \in {0, 1} /\ named = 1
        /\ pc[p] \notin {"remove", "create", "truncate", "init", "setup"}
    BY DEF ServerInv, Served
  <2>1. CASE Open(p)
    BY <1>0, <2>0, <2>1 DEF Open, Goto
  <2>2. CASE Heartbeat(p)
    BY <2>0, <2>2 DEF Heartbeat, HeartbeatCheck, HeartbeatWrite
  <2>3. CASE Lock(p) \/ TakeSlot(p) \/ StorePeerData(p) \/ NoSlot(p) \/ Unlock(p)
    BY <1>0, <2>0, <2>3 DEF Lock, TakeSlot, StorePeerData, NoSlot, Unlock, Goto, Gone
  <2>4. CASE Disconnect(p) \/ Leave(p) \/ Crash(p) \/ Restart(p)
    BY <1>0, <2>0, <2>4, NeverServed DEF Disconnect, Leave, Crash, Restart, Goto, Gone
  <2> QED BY <1>1, <2>1, <2>2, <2>3, <2>4
<1>4. /\ pc'[p] \in {"slot", "store", "unlock", "unwind"} => mutex'[1] = p
      /\ \A q \in Procs \ {p} : mutex[1] = q => mutex'[1] = q
      /\ mutex[1] = Server => mutex'[1] = Server
  <2>0. pc[p] \in {"slot", "store", "unlock", "unwind"} => mutex[1] = p
    BY DEF ServerInv, Served
  <2>1. CASE Lock(p)
    <3>1. seg[p] = 1
      BY <2>1, NeverServed DEF Lock, Detached
    <3> QED BY <1>0, <2>1, <3>1, OwnerAssumption DEF Lock, Goto
  <2>2. CASE Unlock(p)
    <3>1. seg[p] = 1 /\ mutex[1] = p
      BY <2>0, <2>2, NeverServed DEF Unlock, Detached
    <3> QED BY <1>0, <2>2, <3>1, OwnerAssumption DEF Unlock, Goto
  <2>3. CASE TakeSlot(p) \/ StorePeerData(p) \/ NoSlot(p)
    <3>1. mutex' = mutex
      BY <2>3 DEF TakeSlot, StorePeerData, NoSlot, memory
    <3> QED BY <2>0, <2>3, <3>1 DEF TakeSlot, StorePeerData, NoSlot
  <2>4. CASE Heartbeat(p)
    BY <2>0, <2>4 DEF Heartbeat, HeartbeatCheck, HeartbeatWrite, memory
  <2>5. CASE Open(p) \/ Disconnect(p) \/ Leave(p) \/ Crash(p) \/ Restart(p)
    <3>1. mutex' = mutex
      BY <2>5 DEF Open, Disconnect, Leave, Crash, Restart, memory
    <3>2. pc'[p] \notin {"slot", "store", "unlock", "unwind"}
      BY <1>0, <2>5 DEF Open, Disconnect, Leave, Crash, Restart, Goto, Gone
    <3> QED BY <3>1, <3>2
  <2> QED BY <1>1, <2>1, <2>2, <2>3, <2>4, <2>5
<1>5. \A q \in Procs \ {p} : pc'[q] = pc[q] /\ seg'[q] = seg[q] /\ manager'[q] = manager[q]
  BY OthersStay DEF ServerInv, SegInv
<1> QED BY <1>2, <1>3, <1>4, <1>5 DEF ServerInv, Served

\* A deployment stays what it is.
LEMMA DeploymentStays == ASSUME [Next]_vars PROVE deployment' = deployment
<1>1. ASSUME NEW p \in Procs, Step(p) PROVE deployment' = deployment
  BY <1>1 DEF Step, Connecting, Heartbeat, Open, OpenFails, Remove, Create, CreateFails, Truncate,
     InitManager, InitSlot, InitPool, Lock, TakeSlot, StorePeerData, NoSlot, Unlock,
     HeartbeatCheck, HeartbeatWrite, Disconnect, Leave, Crash, Restart, fix_deadlock
<1> QED
  BY <1>1 DEF Next, Step, GrowStale, SweepDead, SweepLock, SweepTest, SweepSlot, vars

\* Writers and the sweep take turns.
LEMMA ServedStep ==
  ASSUME ServerInv, Unforced, TypeInv', [Next]_vars PROVE Served'
<1> SUFFICES ASSUME deployment.server PROVE Served'
  BY DeploymentStays DEF Served
<1>0. mutex \in [Segs -> Procs \cup {Server, Nobody}] /\ 1 \in Segs
  BY SegsAssumption DEF Segs, ServerInv, SegInv, TypeInv, TypeOK
<1>1. ASSUME NEW p \in Procs, Step(p) PROVE Served'
  BY <1>1, ServedByStep
<1>2. CASE SweepLock
  <2>1. UNCHANGED <<deployment, named, manager, pc, seg>> /\ mutex[1] = Nobody /\ mutex'[1] = Server
    BY <1>0, <1>2 DEF SweepLock, procs
  <2> QED BY <2>1, OwnerAssumption DEF ServerInv, Served
<1>3. CASE SweepTest
  BY <1>3 DEF SweepTest, memory, procs, ServerInv, Served, SegInv, TypeInv, TypeOK
<1>4. CASE SweepSlot
  <2>1. UNCHANGED <<deployment, named, manager, pc, seg>> /\ mutex[1] = Server
        /\ sweep'.at = sweep.at + 1
        /\ mutex'[1] = IF sweep.at + 1 = max_peers THEN Nobody ELSE mutex[1]
    BY <1>0, <1>4 DEF SweepSlot, procs, ServerInv, Served
  <2>2. sweep'.at < max_peers => sweep.at + 1 # max_peers
    BY <2>1, PeersAssumption
  <2>3. \A p \in Procs : pc[p] \notin {"slot", "store", "unlock", "unwind"}
    BY <2>1, OwnerAssumption DEF ServerInv, Served
  <2> QED BY <2>1, <2>2, <2>3 DEF ServerInv, Served
<1>5. ASSUME NEW g \in Segs, NEW s \in Slots, GrowStale(g, s) PROVE Served'
  BY <1>5 DEF GrowStale, procs, ServerInv, Served
<1>6. CASE UNCHANGED vars
  BY <1>6 DEF vars, ServerInv, Served
<1> QED BY <1>1, <1>2, <1>3, <1>4, <1>5, <1>6 DEF Next, SweepDead, Step

\* The rows of the table that a process relies on.
Rows(p) ==
  /\ pc[p] \in {"unlock", "on", "leave"} =>
       ~table[1][client_id[p]].free /\ table[1][client_id[p]].pid = p
  /\ pc[p] = "store" => table[1][client_id[p]].free

\* A process has the heartbeat thread only while it is connected.
LEMMA BeatStep ==
  ASSUME ServerInv, TypeInv', [Next]_vars
  PROVE  \A q \in Procs : beat'[q] # "none" => pc'[q] = "on"
<1> SUFFICES ASSUME NEW q \in Procs, beat'[q] # "none" PROVE pc'[q] = "on"
  OBVIOUS
<1>0. /\ pc \in [Procs -> PC] /\ beat \in [Procs -> {"none", "check", "write"}]
      /\ beat[q] # "none" => pc[q] = "on"
  BY DEF ServerInv, Held, SegInv, TypeInv, TypeOK
<1>1. CASE Step(q)
  <2>1. CASE Open(q) \/ OpenFails(q) \/ Remove(q) \/ Create(q) \/ Truncate(q)
             \/ InitManager(q) \/ InitSlot(q) \/ InitPool(q) \/ Lock(q) \/ TakeSlot(q)
             \/ StorePeerData(q)
    BY <1>0, <2>1 DEF Open, OpenFails, Remove, Create, Truncate, InitManager, InitSlot, InitPool,
       Lock, TakeSlot, StorePeerData, procs
  <2>2. CASE CreateFails(q) \/ NoSlot(q) \/ Disconnect(q) \/ Leave(q) \/ Crash(q)
    BY <1>0, <2>2 DEF CreateFails, NoSlot, Disconnect, Leave, Crash, Gone
  <2>3. CASE Unlock(q) \/ Heartbeat(q)
    BY <1>0, <2>3 DEF Unlock, Goto, Heartbeat, HeartbeatCheck, HeartbeatWrite
  <2>4. CASE Restart(q) \/ fix_deadlock(q)
    BY <1>0, <2>4 DEF Restart, fix_deadlock, procs
  <2> QED BY <1>1, <2>1, <2>2, <2>3, <2>4 DEF Step, Connecting
<1>2. ASSUME NEW p \in Procs \ {q}, Step(p) PROVE pc'[q] = "on"
  BY <1>0, <1>2, OthersStay DEF ServerInv, SegInv
<1>3. CASE UNCHANGED <<pc, beat>>
  BY <1>0, <1>3
<1> QED
  BY <1>1, <1>2, <1>3 DEF Next, Step, GrowStale, SweepDead, SweepLock, SweepTest, SweepSlot,
     procs, vars

\* A process that has a server steps, and its own row is as it needs it.
LEMMA RowsOfStepper ==
  ASSUME ServerInv, Unforced, NEW p \in Procs, Step(p),
         deployment.server, ~deployment.sweeping
  PROVE  Rows(p)'
<1>0. /\ pc \in [Procs -> PC] /\ client_id \in [Procs -> Slots]
      /\ table \in [Segs -> [Slots -> PeerData]] /\ 1 \in Segs /\ TypeOK
      /\ Rows(p) /\ (beat[p] # "none" => pc[p] = "on")
  BY SegsAssumption DEF Segs, ServerInv, SegInv, TypeInv, TypeOK, Held, Rows
<1>1. \/ Open(p) \/ Lock(p) \/ TakeSlot(p) \/ StorePeerData(p) \/ NoSlot(p) \/ Unlock(p)
      \/ Heartbeat(p) \/ Disconnect(p) \/ Leave(p) \/ Crash(p) \/ Restart(p)
  BY NeverServed DEF Step, Connecting
<1>2. CASE Open(p) \/ Lock(p) \/ NoSlot(p) \/ Leave(p) \/ Crash(p) \/ Restart(p)
  <2>1. pc'[p] \in {"lock", "slot", "unwind", "off", "remove", "dead"}
    BY <1>0, <1>2 DEF Open, Lock, NoSlot, Leave, Crash, Restart, Goto, Gone
  <2> QED BY <2>1 DEF Rows
<1>3. CASE TakeSlot(p)
  <2>1. seg[p] = 1
    BY <1>3, NeverServed DEF TakeSlot, Detached
  <2>2. table[1][FirstAvailableSlot(1)].free
    BY <1>0, <1>3, <2>1, FirstIsFree DEF TakeSlot
  <2>3. client_id'[p] = FirstAvailableSlot(1) /\ table' = table /\ pc'[p] = "store"
    BY <1>0, <1>3, <2>1 DEF TakeSlot, Goto, memory
  <2> QED BY <2>2, <2>3 DEF Rows
<1>4. CASE StorePeerData(p)
  <2>1. seg[p] = 1
    BY <1>4, NeverServed DEF StorePeerData, Detached
  <2>2. table'[1][client_id[p]] = [table[1][client_id[p]] EXCEPT !.free = FALSE, !.pid = p]
    BY <1>0, <1>4, <2>1 DEF StorePeerData
  <2>3. table[1][client_id[p]] \in PeerData
    BY <1>0
  <2>4. ~table'[1][client_id[p]].free /\ table'[1][client_id[p]].pid = p
    BY <2>2, <2>3 DEF PeerData
  <2>5. pc'[p] = "unlock" /\ client_id' = client_id
    BY <1>0, <1>4 DEF StorePeerData, Goto
  <2> QED BY <2>4, <2>5 DEF Rows
<1>5. CASE Unlock(p) \/ Disconnect(p)
  <2>1. UNCHANGED <<table, client_id>> /\ pc'[p] \in {"on", "leave"}
        /\ pc[p] \in {"unlock", "on"}
    BY <1>0, <1>5, NeverServed DEF Unlock, Disconnect, Goto, memory
  <2> QED BY <1>0, <2>1 DEF Rows
<1>6. CASE HeartbeatCheck(p)
  BY <1>0, <1>6 DEF HeartbeatCheck, memory, Rows
<1>7. CASE HeartbeatWrite(p)
  <2>1. pc[p] = "on" /\ UNCHANGED <<pc, client_id>>
    BY <1>0, <1>7 DEF HeartbeatWrite
  <2>2. seg[p] = 1
    BY <2>1, NeverServed DEF Detached
  <2>3. table'[1][client_id[p]] = [table[1][client_id[p]] EXCEPT !.free = FALSE, !.stale = FALSE]
    BY <1>0, <1>7, <2>2 DEF HeartbeatWrite
  <2>4. table[1][client_id[p]] \in PeerData
    BY <1>0
  <2>5. ~table'[1][client_id[p]].free /\ table'[1][client_id[p]].pid = table[1][client_id[p]].pid
    BY <2>3, <2>4 DEF PeerData
  <2> QED BY <1>0, <2>1, <2>5 DEF Rows
<1> QED BY <1>1, <1>2, <1>3, <1>4, <1>5, <1>6, <1>7 DEF Heartbeat

\* The rows of the others are not touched: a search finds a free slot and none
\* of theirs, one process at a time, and a peer beats and leaves its own.
LEMMA RowsOfOthers ==
  ASSUME ServerInv, Unforced, NEW p \in Procs, Step(p), NEW q \in Procs \ {p},
         deployment.server, ~deployment.sweeping
  PROVE  Rows(q)'
<1>0. /\ client_id \in [Procs -> Slots] /\ table \in [Segs -> [Slots -> PeerData]]
      /\ 1 \in Segs /\ Rows(q) /\ Rows(p) /\ (beat[p] # "none" => pc[p] = "on")
  BY SegsAssumption DEF Segs, ServerInv, SegInv, TypeInv, TypeOK, Held, Rows
<1>1. pc'[q] = pc[q] /\ client_id'[q] = client_id[q]
  BY OthersStay DEF ServerInv, SegInv
<1>2. ASSUME table'[1][client_id[q]] = table[1][client_id[q]] PROVE Rows(q)'
  BY <1>0, <1>1, <1>2 DEF Rows
<1>3. CASE table' = table
  BY <1>2, <1>3
<1>4. CASE StorePeerData(p)
  <2>1. seg[p] = 1 /\ pc[p] = "store"
    BY <1>4, NeverServed DEF StorePeerData, Detached
  <2>2. pc[q] # "store"
    BY <2>1 DEF ServerInv, Served
  <2>3. CASE client_id[p] # client_id[q]
    BY <1>0, <1>2, <1>4, <2>1, <2>3 DEF StorePeerData
  <2>4. CASE client_id[p] = client_id[q]
    BY <1>0, <1>1, <2>1, <2>2, <2>4 DEF Rows
  <2> QED BY <2>3, <2>4
<1>5. CASE HeartbeatWrite(p)
  <2>1. pc[p] = "on"
    BY <1>0, <1>5 DEF HeartbeatWrite
  <2>2. seg[p] = 1
    BY <2>1, NeverServed DEF Detached
  <2>3. CASE client_id[p] # client_id[q]
    BY <1>0, <1>2, <1>5, <2>2, <2>3 DEF HeartbeatWrite
  <2>4. CASE client_id[p] = client_id[q]
    BY <1>0, <1>1, <2>1, <2>4 DEF Rows
  <2> QED BY <2>3, <2>4
<1>6. CASE Leave(p)
  <2>1. pc[p] = "leave"
    BY <1>6, NeverServed
  <2>2. seg[p] = 1
    BY <2>1, NeverServed DEF Detached
  <2>3. CASE client_id[p] # client_id[q]
    BY <1>0, <1>2, <1>6, <2>2, <2>3 DEF Leave
  <2>4. CASE client_id[p] = client_id[q]
    BY <1>0, <1>1, <2>1, <2>4 DEF Rows
  <2> QED BY <2>3, <2>4
<1>7. \/ Open(p) \/ Lock(p) \/ TakeSlot(p) \/ StorePeerData(p) \/ NoSlot(p) \/ Unlock(p)
      \/ Heartbeat(p) \/ Disconnect(p) \/ Leave(p) \/ Crash(p) \/ Restart(p)
  BY NeverServed DEF Step, Connecting
<1> QED
  BY <1>3, <1>4, <1>5, <1>6, <1>7 DEF Heartbeat, HeartbeatCheck, Open, Lock, TakeSlot, NoSlot,
     Unlock, Disconnect, Crash, Restart, memory

\* Every step leaves the peers of a server that does not sweep their slots.
LEMMA HeldStep == ASSUME ServerInv, Unforced, TypeInv', [Next]_vars PROVE Held'
<1> SUFFICES ASSUME deployment.server, ~deployment.sweeping, NEW q \in Procs PROVE Rows(q)'
  BY BeatStep, DeploymentStays DEF Held, Rows
<1>0. Rows(q) /\ sweep.at >= max_peers /\ sweep.at \in Nat
  BY PeersAssumption DEF ServerInv, Held, Rows, SegInv, TypeInv, TypeOK, Counted
<1>1. ASSUME NEW p \in Procs, Step(p) PROVE Rows(q)'
  BY <1>1, RowsOfStepper, RowsOfOthers
<1>2. ASSUME NEW g \in Segs, NEW s \in Slots, GrowStale(g, s) PROVE Rows(q)'
  <2>1. /\ table \in [Segs -> [Slots -> PeerData]] /\ client_id \in [Procs -> Slots] /\ 1 \in Segs
        /\ table' = [table EXCEPT ![g][s].stale = TRUE] /\ UNCHANGED <<pc, client_id>>
    BY <1>2, SegsAssumption DEF Segs, GrowStale, procs, ServerInv, SegInv, TypeInv, TypeOK
  <2>2. table[1][client_id[q]] \in PeerData
    BY <2>1
  <2>3. \/ table'[1][client_id[q]] = table[1][client_id[q]]
        \/ table'[1][client_id[q]] = [table[1][client_id[q]] EXCEPT !.stale = TRUE]
    BY <2>1
  <2>4. /\ table'[1][client_id[q]].free = table[1][client_id[q]].free
        /\ table'[1][client_id[q]].pid = table[1][client_id[q]].pid
    BY <2>2, <2>3 DEF PeerData
  <2> QED BY <1>0, <2>1, <2>4 DEF Rows
<1>3. ~SweepDead
  BY <1>0, PeersAssumption DEF SweepDead, SweepLock, SweepTest, SweepSlot
<1>4. CASE UNCHANGED vars
  BY <1>0, <1>4 DEF vars, Rows
<1> QED BY <1>1, <1>2, <1>3, <1>4 DEF Next, Step

\* A server has made its segment before anybody connects.
LEMMA ServerInit == Init => ServerInv
<1> SUFFICES ASSUME Init PROVE ServerInv
  OBVIOUS
<1>1. Served
  BY PeersAssumption DEF Init, Served, NoSweep
<1>2. Held
  BY DEF Init, Held
<1> QED BY <1>1, <1>2, SegInit DEF ServerInv

\* The invariant of a server whose mutex nobody forces.
LEMMA ServerInductive == ASSUME Unforced PROVE Spec => []ServerInv
<1>1. ServerInv /\ [Next]_vars => ServerInv'
  <2>1. SegInv /\ [Next]_vars => SegInv' /\ TypeInv'
    BY TypeStep, NumberedStep, NothingFreeStep, OneMakerStep, KeptStep, PlacedStep DEF SegInv
  <2> QED BY <2>1, ServedStep, HeldStep DEF ServerInv
<1> QED BY <1>1, ServerInit, PTL DEF Spec

\* Two connected peers of a server that does not sweep never have the same
\* client_id, whatever crashes and restarts, for any number of processes and
\* slots: the row of a connected peer names it.
THEOREM SlotExclusiveHolds == ASSUME Unforced PROVE Spec => []SlotExclusive
<1>1. ServerInv => SlotExclusive
  BY DEF ServerInv, Held, SlotExclusive, Attached
<1> QED BY <1>1, ServerInductive, PTL

=============================================================================
