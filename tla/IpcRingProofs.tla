--------------------------- MODULE IpcRingProofs ---------------------------
(***************************************************************************)
(* Proofs about the command ring for any number of peers, any size of the  *)
(* ring and any mix of faults, unless a theorem says otherwise: first its  *)
(* arithmetic, types, mutual exclusion and order, then the log that it     *)
(* implements and what arrives at the handlers.                            *)
(***************************************************************************)
EXTENDS IpcRing, Integers, TLAPS

-----------------------------------------------------------------------------
(* Arithmetic of the ring.                                                 *)

\* Every number has a slot.
LEMMA SlotOfType == ASSUME NEW n \in Nat PROVE SlotOf(n) \in Slots
  BY BufferAssumption DEF SlotOf, Slots

\* Two different numbers less than a ring apart have different slots.
LEMMA SlotOfInjective ==
  ASSUME NEW n \in Nat, NEW c \in Nat, n < c, c < n + command_buffer
  PROVE  SlotOf(n) # SlotOf(c)
<1> DEFINE B == command_buffer
<1>1. B \in Nat \ {0}
  BY BufferAssumption
<1>2. n = (n \div B) * B + (n % B) /\ c = (c \div B) * B + (c % B)
  BY <1>1
<1>3. SUFFICES ASSUME n % B = c % B PROVE FALSE
  BY DEF SlotOf
<1>4. c - n = (c \div B - n \div B) * B
  BY <1>1, <1>2, <1>3
<1>5. c \div B - n \div B \in Int
  BY <1>1
<1>6. c - n \in 1 .. B - 1
  BY <1>1
<1>7. ASSUME NEW k \in Int, NEW d \in 1 .. B - 1, d = k * B PROVE FALSE
  <2>1. CASE k <= 0
    BY <1>1, <1>7, <2>1
  <2>2. CASE k >= 1
    BY <1>1, <1>7, <2>2
  <2> QED BY <2>1, <2>2, <1>7
<1> QED
  BY <1>4, <1>5, <1>6, <1>7


-----------------------------------------------------------------------------
(* Type correctness.                                                       *)

\* A poller that looks into a slot looks into a slot of the ring.
ReadsInRing ==
  \A p \in Peers : pc[p] \in {"check", "handle"} => scan[p] < command_buffer

\* The commands of the ring stay commands: what the two writes to a slot do.
LEMMA CommandUpdateType ==
  ASSUME commands \in [Slots -> Command],
         NEW s \in Slots, NEW c \in Command
  PROVE  [commands EXCEPT ![s] = c] \in [Slots -> Command]
  OBVIOUS

\* The state of a process that ends is reset to well-typed values.
LEMMA ForgetType ==
  ASSUME TypeOK, NEW p \in Peers, Forget(p)
  PROVE  /\ last_command' \in [Peers -> Nat]
         /\ cmd' \in [Peers -> Nat]
         /\ target' \in [Peers -> Targets]
         /\ scan' \in [Peers -> 0 .. command_buffer]
         /\ joined' \in [Peers -> Nat]
         /\ handled' \in [Peers -> Seq(Call)]
<1>1. Broadcast \in Targets /\ 0 \in 0 .. command_buffer
  BY BufferAssumption DEF Targets
<1>2. <<>> \in Seq(Call)
  OBVIOUS
<1> QED
  BY <1>1, <1>2 DEF TypeOK, Forget

\* Every step of the ring keeps the types.
LEMMA TypeStep == TypeOK /\ ReadsInRing /\ [Next]_vars => TypeOK'
<1> SUFFICES ASSUME TypeOK, ReadsInRing, [Next]_vars PROVE TypeOK'
  OBVIOUS
<1> USE DEF shared, sending, history
<1>u. CASE UNCHANGED vars
  BY <1>u DEF TypeOK, vars
<1>n. ASSUME NEW p \in Peers,
             Send(p) \/ Poll(p) \/ Lifecycle(p) \/ Fault(p)
      PROVE  TypeOK'
  <2>1. ASSUME NEW t \in Targets, NEW long \in LongCommands, SendMessage(p, t, long)
        PROVE  TypeOK'
    BY <2>1 DEF TypeOK, SendMessage, PC, Critical
  <2>2. CASE SendCount(p)
    <3>1. [sender |-> p, target_peer |-> target[p]] \in [sender : Peers, target_peer : Targets]
      BY DEF TypeOK
    <3>2. posted' \in Seq([sender : Peers, target_peer : Targets])
      BY <2>2, <3>1 DEF TypeOK, SendCount
    <3>3. /\ command_count' \in Nat
          /\ cmd' \in [Peers -> Nat]
          /\ pc' \in [Peers -> PC]
      BY <2>2 DEF TypeOK, SendCount, PC, Critical
    <3>4. UNCHANGED <<mutex, commands, last_command, target, scan, joined, lost, handled>>
      BY <2>2 DEF SendCount
    <3> QED BY <3>2, <3>3, <3>4 DEF TypeOK
  <2>3. CASE SendFill(p)
    <3>1. SlotOf(cmd[p]) \in Slots
      BY SlotOfType DEF TypeOK
    <3>2. [commands[SlotOf(cmd[p])] EXCEPT !.cmd_data = cmd[p]] \in Command
      BY <3>1 DEF TypeOK, Command
    <3>3. commands' \in [Slots -> Command]
      BY <2>3, <3>1, <3>2 DEF TypeOK, SendFill
    <3> QED BY <2>3, <3>3 DEF TypeOK, SendFill, PC, Critical
  <2>4. CASE SendPublish(p)
    <3>1. SlotOf(cmd[p]) \in Slots
      BY SlotOfType DEF TypeOK
    <3>2. [commands[SlotOf(cmd[p])] EXCEPT !.sender = p, !.target_peer = target[p],
                                           !.command_number = command_count] \in Command
      BY <3>1 DEF TypeOK, Command
    <3>3. commands' \in [Slots -> Command]
      BY <2>4, <3>1, <3>2 DEF TypeOK, SendPublish, Publish
    <3>4. Broadcast \in Targets
      BY DEF Targets
    <3> QED BY <2>4, <3>3, <3>4 DEF TypeOK, SendPublish, Publish, PC
  <2>5. CASE SendAlloc(p)
    <3>1. [sender |-> p, target_peer |-> target[p]] \in [sender : Peers, target_peer : Targets]
      BY DEF TypeOK
    <3>2. posted' \in Seq([sender : Peers, target_peer : Targets])
      BY <2>5, <3>1 DEF TypeOK, SendAlloc
    <3>3. Forget(p)
      BY <2>5 DEF SendAlloc
    <3>4. command_count' \in Nat /\ pc' \in [Peers -> PC] /\ lost' \subseteq Nat
      BY <2>5 DEF TypeOK, SendAlloc, PC
    <3>5. UNCHANGED <<mutex, commands>>
      BY <2>5 DEF SendAlloc
    <3> QED BY <3>2, <3>3, <3>4, <3>5, ForgetType DEF TypeOK
  <2>6. CASE ProcessCommands(p)
    BY <2>6 DEF TypeOK, ProcessCommands, PC
  <2>7. CASE ScanSkip(p)
    <3>1. scan[p] + 1 \in 0 .. command_buffer
      BY <2>7, BufferAssumption, SMTT(30) DEF TypeOK, ScanSkip
    <3> QED BY <2>7, <3>1 DEF TypeOK, ScanSkip
  <2>8. CASE ScanTake(p)
    <3>1. scan[p] \in Slots
      BY <2>8, BufferAssumption DEF TypeOK, ScanTake, Slots
    <3>2. commands[scan[p]].command_number \in Nat
      BY <3>1 DEF TypeOK, Command
    <3> QED BY <2>8, <3>2 DEF TypeOK, ScanTake, PC
  <2>9. CASE ScanCheck(p)
    <3>1. scan[p] + 1 \in 0 .. command_buffer
      BY <2>9, BufferAssumption DEF TypeOK, ReadsInRing, ScanCheck
    <3> QED BY <2>9, <3>1 DEF TypeOK, ScanCheck, PC
  <2>10. CASE ScanHandle(p)
    <3>1. scan[p] + 1 \in 0 .. command_buffer /\ scan[p] \in Slots
      BY <2>10, BufferAssumption DEF TypeOK, ReadsInRing, ScanHandle, Slots
    <3>2. [called |-> last_command[p], cmd_data |-> commands[scan[p]].cmd_data]
            \in Call
      BY <3>1 DEF TypeOK, Command, Call
    <3>3. handled' \in [Peers -> Seq(Call)]
      BY <2>10, <3>2 DEF TypeOK, ScanHandle
    <3> QED BY <2>10, <3>1, <3>3 DEF TypeOK, ScanHandle, PC
  <2>11. CASE ScanEnd(p)
    <3>1. 0 \in 0 .. command_buffer
      BY BufferAssumption
    <3> QED BY <2>11, <3>1 DEF TypeOK, ScanEnd, PC
  <2>12. CASE ConnectSlot(p)
    BY <2>12 DEF TypeOK, ConnectSlot, PC
  <2>13. CASE ConnectCursor(p)
    BY <2>13 DEF TypeOK, ConnectCursor, PC
  <2>14. CASE Disconnect(p)
    BY <2>14, ForgetType DEF TypeOK, Disconnect, PC
  <2>15. CASE Crash(p)
    <3>1. lost' \subseteq Nat
      BY <2>15 DEF TypeOK, Crash
    <3> QED BY <2>15, <3>1, ForgetType DEF TypeOK, Crash, PC
  <2>16. CASE fix_deadlock(p)
    BY <2>16 DEF TypeOK, fix_deadlock
  <2> QED
    BY <1>n, <2>1, <2>2, <2>3, <2>4, <2>5, <2>6, <2>7, <2>8, <2>9, <2>10,
       <2>11, <2>12, <2>13, <2>14, <2>15, <2>16
       DEF Send, Poll, Lifecycle, Fault
<1> QED
  BY <1>u, <1>n DEF Next

\* The initial states are well typed.
LEMMA TypeInit == Init => TypeOK /\ ReadsInRing
<1> SUFFICES ASSUME Init PROVE TypeOK /\ ReadsInRing
  OBVIOUS
<1>1. EmptyCommand \in Command
  BY DEF EmptyCommand, Command, Targets
<1>2. 0 \in 0 .. command_buffer
  BY BufferAssumption
<1>3. posted \in Seq([sender : Peers, target_peer : Targets])
  BY DEF Init
<1>4. handled \in [Peers -> Seq(Call)]
  BY DEF Init
<1> QED
  BY <1>1, <1>2, <1>3, <1>4 DEF Init, TypeOK, ReadsInRing, PC, Targets

\* Every step keeps the scan inside the ring.
LEMMA ReadsStep == TypeOK /\ ReadsInRing /\ [Next]_vars => ReadsInRing'
<1> SUFFICES ASSUME TypeOK, ReadsInRing, [Next]_vars PROVE ReadsInRing'
  OBVIOUS
<1> USE DEF ReadsInRing, TypeOK, shared, sending, history, Forget
<1>1. CASE UNCHANGED vars
  BY <1>1 DEF vars
<1>2. ASSUME NEW p \in Peers, Send(p) PROVE ReadsInRing'
  BY <1>2 DEF Send, SendMessage, SendCount, SendFill, SendPublish, Publish, SendAlloc
<1>3. ASSUME NEW p \in Peers, Poll(p) PROVE ReadsInRing'
  BY <1>3, BufferAssumption
     DEF Poll, ProcessCommands, ScanSkip, ScanTake, ScanCheck, ScanHandle, ScanEnd
<1>4. ASSUME NEW p \in Peers, Lifecycle(p) PROVE ReadsInRing'
  BY <1>4 DEF Lifecycle, ConnectSlot, ConnectCursor, Disconnect
<1>5. ASSUME NEW p \in Peers, Fault(p) PROVE ReadsInRing'
  BY <1>5 DEF Fault, Crash, fix_deadlock
<1> QED
  BY <1>1, <1>2, <1>3, <1>4, <1>5 DEF Next

\* TypeOK holds in every reachable state, for every choice of faults: no peer
\* ever reads or writes outside of the ring.
THEOREM TypeCorrect == Spec => [](TypeOK /\ ReadsInRing)
<1>1. Init => TypeOK /\ ReadsInRing
  BY TypeInit
<1>2. TypeOK /\ ReadsInRing /\ [Next]_vars => (TypeOK /\ ReadsInRing)'
  BY TypeStep, ReadsStep
<1> QED
  BY <1>1, <1>2, PTL DEF Spec

-----------------------------------------------------------------------------
(* Mutual exclusion and the contents of the ring, when nobody takes the    *)
(* mutex from a live process (ipc_fix_deadlock is run after its owner died *)
(* or not at all).                                                         *)

\* A writer that is past the increment works on the newest number.
WritesNewest ==
  \A p \in Peers :
    pc[p] \in {"fill", "publish"} => cmd[p] = command_count

\* A writer is between taking a number and publishing it.
Writing == \E p \in Peers : pc[p] \in {"fill", "publish"}

\* RingHoldsLatest, also in the middle of a post.
RingKeepsPublished ==
  \A n \in 1 .. command_count :
    n + command_buffer > command_count =>
      \/ commands[SlotOf(n)].command_number = n
      \/ n \in lost
      \/ n = command_count /\ Writing

RingInv == TypeOK /\ ReadsInRing /\ MutualExclusion /\ WritesNewest /\ RingKeepsPublished

\* The initial ring is empty and unlocked.
LEMMA RingInit == Init => RingInv
<1> SUFFICES ASSUME Init PROVE RingInv
  OBVIOUS
<1>1. MutualExclusion /\ WritesNewest
  BY DEF Init, MutualExclusion, WritesNewest, Critical
<1>2. RingKeepsPublished
  BY DEF Init, RingKeepsPublished
<1> QED
  BY <1>1, <1>2, TypeInit DEF RingInv

\* Only the owner of the mutex is inside, and only its steps move the count.
LEMMA MutexStep ==
  ASSUME "unlock" \notin Faults, RingInv, [Next]_vars
  PROVE  MutualExclusion' /\ WritesNewest'
<1> USE DEF RingInv, TypeOK, MutualExclusion, WritesNewest, Critical,
            shared, sending, history
<1>1. CASE UNCHANGED vars
  BY <1>1 DEF vars
<1>2. ASSUME NEW p \in Peers, Send(p) PROVE MutualExclusion' /\ WritesNewest'
  <2>1. ASSUME NEW t \in Targets, NEW long \in LongCommands, SendMessage(p, t, long)
        PROVE  MutualExclusion' /\ WritesNewest'
    BY <2>1, NameAssumption DEF SendMessage
  <2>2. CASE SendCount(p)
    BY <2>2 DEF SendCount
  <2>3. CASE SendFill(p)
    BY <2>3 DEF SendFill
  <2>4. CASE SendPublish(p)
    BY <2>4 DEF SendPublish, Publish
  <2>5. CASE SendAlloc(p)
    BY <2>5 DEF SendAlloc, Forget
  <2> QED BY <1>2, <2>1, <2>2, <2>3, <2>4, <2>5 DEF Send
<1>3. ASSUME NEW p \in Peers, Poll(p) PROVE MutualExclusion' /\ WritesNewest'
  BY <1>3 DEF Poll, ProcessCommands, ScanSkip, ScanTake, ScanCheck, ScanHandle, ScanEnd
<1>4. ASSUME NEW p \in Peers, Lifecycle(p) PROVE MutualExclusion' /\ WritesNewest'
  BY <1>4 DEF Lifecycle, ConnectSlot, ConnectCursor, Disconnect, Forget
<1>5. ASSUME NEW p \in Peers, Fault(p) PROVE MutualExclusion' /\ WritesNewest'
  BY <1>5 DEF Fault, Crash, fix_deadlock, Forget
<1> QED
  BY <1>1, <1>2, <1>3, <1>4, <1>5 DEF Next

\* A step that leaves the ring and its count alone, and ends no post without
\* losing its number, keeps what the ring holds.
LEMMA RingUntouched ==
  ASSUME RingKeepsPublished, UNCHANGED <<command_count, commands>>,
         lost \subseteq lost', Writing => Writing' \/ command_count \in lost'
  PROVE  RingKeepsPublished'
  BY DEF RingKeepsPublished

\* The ring keeps the newest commands through every step.
LEMMA RingStep ==
  ASSUME RingInv, [Next]_vars PROVE RingKeepsPublished'
<1> USE DEF shared, sending, history
<1>1. CASE UNCHANGED vars
  BY <1>1, RingUntouched DEF vars, RingInv, Writing
<1>2. ASSUME NEW p \in Peers, Send(p) PROVE RingKeepsPublished'
  <2>1. ASSUME NEW t \in Targets, NEW long \in LongCommands, SendMessage(p, t, long)
        PROVE  RingKeepsPublished'
    <3>1. Writing => Writing'
      BY <2>1 DEF SendMessage, Writing, RingInv, TypeOK
    <3> QED BY <2>1, <3>1, RingUntouched DEF RingInv, SendMessage
  <2>2. ASSUME pc[p] \in {"count", "alloc"}, command_count' = command_count + 1,
               UNCHANGED commands, lost \subseteq lost',
               Writing' \/ command_count + 1 \in lost'
        PROVE  RingKeepsPublished'
    <3>1. ~Writing
      BY <2>2 DEF RingInv, MutualExclusion, Critical, Writing
    <3>2. SUFFICES ASSUME NEW n \in 1 .. command_count, n + command_buffer > command_count
                   PROVE  commands[SlotOf(n)].command_number = n \/ n \in lost
      <4>1. command_count \in Nat /\ command_buffer \in Nat
        BY BufferAssumption DEF RingInv, TypeOK
      <4> QED BY <2>2, <3>2, <4>1 DEF RingKeepsPublished
    <3> QED BY <3>1, <3>2 DEF RingKeepsPublished, RingInv
  <2>3. CASE SendCount(p)
    BY <2>2, <2>3 DEF SendCount, RingInv, TypeOK, Writing
  <2>4. CASE SendAlloc(p)
    BY <2>2, <2>4 DEF SendAlloc
  <2>5. CASE SendFill(p)
    <3>1. \A s \in Slots : commands'[s].command_number = commands[s].command_number
      BY <2>5 DEF SendFill, RingInv, TypeOK, Command
    <3>2. Writing'
      BY <2>5 DEF SendFill, Writing, RingInv, TypeOK
    <3>3. \A n \in 1 .. command_count : SlotOf(n) \in Slots
      BY SlotOfType DEF RingInv, TypeOK
    <3> QED BY <2>5, <3>1, <3>2, <3>3 DEF SendFill, RingKeepsPublished, RingInv
  <2>6. CASE SendPublish(p)
    <3>1. cmd[p] = command_count /\ command_count \in Nat
      BY <2>6 DEF SendPublish, Publish, RingInv, WritesNewest, TypeOK
    <3>2. SlotOf(command_count) \in Slots
      BY <3>1, SlotOfType
    <3>3. commands'[SlotOf(command_count)].command_number = command_count
      BY <2>6, <3>1, <3>2 DEF SendPublish, Publish, RingInv, TypeOK, Command
    <3>4. SUFFICES ASSUME NEW n \in 1 .. command_count, n # command_count,
                          n + command_buffer > command_count
                   PROVE  commands'[SlotOf(n)].command_number = n \/ n \in lost
      BY <2>6, <3>3 DEF SendPublish, Publish, RingKeepsPublished
    <3>5. SlotOf(n) # SlotOf(command_count)
      BY <3>1, <3>4, SlotOfInjective, BufferAssumption
    <3>6. commands'[SlotOf(n)] = commands[SlotOf(n)]
      BY <2>6, <3>1, <3>5, SlotOfType DEF SendPublish, Publish, RingInv, TypeOK
    <3> QED BY <3>4, <3>6 DEF RingKeepsPublished, RingInv
  <2> QED BY <1>2, <2>1, <2>3, <2>4, <2>5, <2>6 DEF Send
<1>3. ASSUME NEW p \in Peers, pc[p] \notin {"fill", "publish"},
             UNCHANGED <<command_count, commands>>, lost \subseteq lost',
             \A q \in Peers \ {p} : pc'[q] = pc[q]
      PROVE  RingKeepsPublished'
  <2>1. Writing => Writing'
    BY <1>3 DEF Writing
  <2> QED BY <1>3, <2>1, RingUntouched DEF RingInv
<1>4. ASSUME NEW p \in Peers, Poll(p) PROVE RingKeepsPublished'
  BY <1>3, <1>4 DEF Poll, ProcessCommands, ScanSkip, ScanTake, ScanCheck, ScanHandle,
                    ScanEnd, RingInv, TypeOK
<1>5. ASSUME NEW p \in Peers, Lifecycle(p) PROVE RingKeepsPublished'
  BY <1>3, <1>5 DEF Lifecycle, ConnectSlot, ConnectCursor, Disconnect, RingInv, TypeOK
<1>6. ASSUME NEW p \in Peers, Fault(p) PROVE RingKeepsPublished'
  <2>1. CASE fix_deadlock(p)
    BY <1>3, <2>1 DEF fix_deadlock
  <2>2. CASE Crash(p) /\ pc[p] \notin {"fill", "publish"}
    BY <1>3, <2>2 DEF Crash, RingInv, TypeOK
  <2>3. CASE Crash(p) /\ pc[p] \in {"fill", "publish"}
    <3>1. command_count \in lost'
      BY <2>3 DEF Crash, RingInv, WritesNewest
    <3> QED BY <2>3, <3>1, RingUntouched DEF Crash, RingInv
  <2> QED BY <1>6, <2>1, <2>2, <2>3 DEF Fault
<1> QED
  BY <1>1, <1>2, <1>4, <1>5, <1>6 DEF Next

\* The inductive invariant of the ring.
LEMMA RingInductive ==
  ASSUME "unlock" \notin Faults PROVE Spec => []RingInv
<1>1. Init => RingInv
  BY RingInit
<1>2. RingInv /\ [Next]_vars => RingInv'
  BY TypeStep, ReadsStep, MutexStep, RingStep DEF RingInv
<1> QED
  BY <1>1, <1>2, PTL DEF Spec

\* Whatever crashes, as long as nobody takes the mutex from a live process, at
\* most one peer is inside SendMessage and it owns the mutex.
THEOREM MutualExclusionHolds ==
  ASSUME "unlock" \notin Faults PROVE Spec => []MutualExclusion
<1>1. RingInv => MutualExclusion
  BY DEF RingInv
<1> QED
  BY <1>1, RingInductive, PTL

\* Between two posts the ring holds the last command_buffer commands, each in
\* the slot of its number, but for those whose own writer died: also for those
\* who post after a writer was killed in the lock and ipc_fix_deadlock freed it.
THEOREM RingHoldsLatestHolds ==
  ASSUME "unlock" \notin Faults PROVE Spec => []RingHoldsLatest
<1>1. RingInv => RingHoldsLatest
  <2> SUFFICES ASSUME RingInv, mutex = Nobody PROVE ~Writing
    BY DEF RingInv, RingKeepsPublished, RingHoldsLatest
  <2> QED BY NameAssumption DEF RingInv, MutualExclusion, Critical, Writing
<1> QED
  BY <1>1, RingInductive, PTL

-----------------------------------------------------------------------------
(* Every reader sees an increasing sequence, whatever the writers do.      *)

\* What has been handled is behind the cursor, and strictly behind it while the
\* command at the cursor is under examination; a process that is not connected
\* has handled nothing.
CursorInv ==
  \A p \in Peers :
    /\ ~Online(p) => handled[p] = <<>>
    /\ Online(p) => joined[p] <= last_command[p]
    /\ pc[p] \in {"check", "handle"} =>
         /\ joined[p] < last_command[p]
         /\ \A i \in 1 .. Len(handled[p]) :
              handled[p][i].called < last_command[p]

OrderInv == TypeOK /\ ReadsInRing /\ CursorInv /\ CallsInOrder

Increasing(h) ==
  \A i, j \in 1 .. Len(h) : i < j => h[i].called < h[j].called
Within(h, low, high) ==
  \A i \in 1 .. Len(h) : low < h[i].called /\ h[i].called <= high

\* What a history holds are entries.
LEMMA CallType ==
  ASSUME TypeOK, NEW p \in Peers
  PROVE  /\ handled[p] \in Seq(Call)
         /\ \A i \in 1 .. Len(handled[p]) : handled[p][i].called \in Nat
<1>1. handled[p] \in Seq(Call)
  BY DEF TypeOK, Call
<1>2. \A i \in 1 .. Len(handled[p]) : handled[p][i] \in Call
  BY <1>1
<1> QED BY <1>1, <1>2 DEF Call

\* An entry beyond all others keeps a history increasing.
LEMMA AppendIncreasing ==
  ASSUME NEW h \in Seq(Call), NEW e \in Call, NEW low \in Nat,
         low < e.called, Increasing(h),
         \A i \in 1 .. Len(h) : /\ low < h[i].called
                                /\ h[i].called < e.called
  PROVE  Increasing(Append(h, e)) /\ Within(Append(h, e), low, e.called)
<1> DEFINE g == Append(h, e)
           n(i) == g[i].called
<1>1. Len(g) = Len(h) + 1 /\ Len(h) \in Nat
  OBVIOUS
<1>2. \A i \in 1 .. Len(h) : g[i] = h[i] /\ g[i] \in Call
  OBVIOUS
<1>3. g[Len(h) + 1] = e
  OBVIOUS
<1>4. \A i \in 1 .. Len(h) : n(i) \in Nat /\ low < n(i) /\ n(i) < e.called
  BY <1>2 DEF Call
<1>5. n(Len(h) + 1) = e.called /\ e.called \in Nat
  BY <1>3 DEF Call
<1>6. \A i, j \in 1 .. Len(h) : i < j => n(i) < n(j)
  BY <1>2 DEF Increasing
<1>7. \A i, j \in 1 .. Len(g) : i < j => n(i) < n(j)
  <2> HIDE DEF g, n
  <2> QED BY <1>1, <1>4, <1>5, <1>6
<1>8. \A i \in 1 .. Len(g) : low < n(i) /\ n(i) <= e.called
  <2> HIDE DEF g, n
  <2> QED BY <1>1, <1>4, <1>5
<1> QED BY <1>7, <1>8 DEF Increasing, Within

\* CallsInOrder in terms of the two notions above.
LEMMA OrderForm ==
  /\ CallsInOrder <=> \A p \in Peers : Online(p) =>
       Within(handled[p], joined[p], last_command[p]) /\ Increasing(handled[p])
  /\ CallsInOrder' <=> \A p \in Peers : Online(p)' =>
       Within(handled'[p], joined'[p], last_command'[p]) /\ Increasing(handled'[p])
  BY DEF CallsInOrder, Within, Increasing, Online

\* A process that ends leaves nothing for the next one in its slot.
LEMMA OrderForget ==
  ASSUME OrderInv, NEW p \in Peers, Forget(p), ~Online(p)',
         pc'[p] \notin {"check", "handle"},
         \A q \in Peers \ {p} : pc'[q] = pc[q]
  PROVE  CursorInv' /\ CallsInOrder'
<1>1. handled'[p] = <<>>
  BY DEF Forget, OrderInv, TypeOK
<1>2. \A q \in Peers \ {p} : /\ handled'[q] = handled[q]
                             /\ joined'[q] = joined[q]
                             /\ last_command'[q] = last_command[q]
  BY DEF Forget, OrderInv, TypeOK
<1>3. \A q \in Peers \ {p} : Online(q)' <=> Online(q)
  BY DEF Online
<1>4. CursorInv'
  BY <1>1, <1>2, <1>3 DEF OrderInv, CursorInv
<1>5. CallsInOrder'
  BY <1>2, <1>3 DEF OrderInv, CallsInOrder
<1> QED BY <1>4, <1>5

\* A step that changes neither cursors nor histories, and moves no process into
\* or out of the examination of a command.
LEMMA OrderUntouched ==
  ASSUME OrderInv, UNCHANGED <<last_command, joined, handled>>,
         \A q \in Peers : /\ Online(q)' <=> Online(q)
                          /\ pc'[q] \in {"check", "handle"} => pc[q] \in {"check", "handle"}
  PROVE  CursorInv' /\ CallsInOrder'
  BY DEF OrderInv, CursorInv, CallsInOrder

\* Every step keeps the order of what is handled; the mutex plays no part.
LEMMA OrderStep ==
  ASSUME OrderInv, [Next]_vars PROVE CursorInv' /\ CallsInOrder'
<1> USE DEF shared, sending, history
<1>1. CASE UNCHANGED vars
  BY <1>1, OrderUntouched DEF vars, Online
<1>2. ASSUME NEW p \in Peers, Send(p) PROVE CursorInv' /\ CallsInOrder'
  <2>1. CASE SendAlloc(p)
    BY <2>1, OrderForget DEF SendAlloc, OrderInv, TypeOK, Online
  <2>2. ASSUME NEW t \in Targets, NEW long \in LongCommands, SendMessage(p, t, long)
        PROVE  CursorInv' /\ CallsInOrder'
    BY <2>2, OrderUntouched DEF SendMessage, OrderInv, TypeOK, Online
  <2>3. CASE SendCount(p) \/ SendFill(p) \/ SendPublish(p)
    BY <2>3, OrderUntouched
       DEF SendCount, SendFill, SendPublish, Publish, OrderInv, TypeOK, Online
  <2> QED BY <1>2, <2>1, <2>2, <2>3 DEF Send
<1>3. ASSUME NEW p \in Peers, Poll(p) PROVE CursorInv' /\ CallsInOrder'
  <2>1. CASE ProcessCommands(p) \/ ScanSkip(p) \/ ScanCheck(p) \/ ScanEnd(p)
    BY <2>1, OrderUntouched
       DEF ProcessCommands, ScanSkip, ScanCheck, ScanEnd, OrderInv, TypeOK, Online
  <2>2. CASE ScanTake(p)
    <3>1. scan[p] \in Slots
      BY <2>2, BufferAssumption DEF ScanTake, OrderInv, TypeOK, Slots
    <3>2. /\ last_command'[p] = commands[scan[p]].command_number
          /\ commands[scan[p]].command_number \in Nat
          /\ last_command[p] \in Nat /\ joined[p] \in Nat
          /\ last_command'[p] > last_command[p]
      BY <2>2, <3>1 DEF ScanTake, Seen, OrderInv, TypeOK, Command
    <3>3. \A q \in Peers \ {p} : last_command'[q] = last_command[q] /\ pc'[q] = pc[q]
      BY <2>2 DEF ScanTake, OrderInv, TypeOK
    <3>4. Online(p) /\ Online(p)'
      BY <2>2 DEF ScanTake, OrderInv, TypeOK, Online
    <3>5. \A i \in 1 .. Len(handled[p]) :
            /\ handled[p][i].called \in Nat
            /\ joined[p] < handled[p][i].called
            /\ handled[p][i].called <= last_command[p]
      BY <3>4, CallType DEF OrderInv, CallsInOrder
    <3>6. UNCHANGED <<joined, handled>>
      BY <2>2 DEF ScanTake
    <3>7. CursorInv'
      BY <3>2, <3>3, <3>4, <3>5, <3>6 DEF OrderInv, CursorInv, Online
    <3>8. CallsInOrder'
      BY <3>2, <3>3, <3>4, <3>5, <3>6, SMTT(30) DEF OrderInv, CallsInOrder, Online
    <3> QED BY <3>7, <3>8
  <2>3. CASE ScanHandle(p)
    <3> DEFINE h == [called |-> last_command[p], cmd_data |-> commands[scan[p]].cmd_data]
    <3>1. handled'[p] = Append(handled[p], h) /\ UNCHANGED <<last_command, joined>>
      BY <2>3 DEF ScanHandle, OrderInv, TypeOK
    <3>2. \A q \in Peers \ {p} : handled'[q] = handled[q] /\ pc'[q] = pc[q]
      BY <2>3 DEF ScanHandle, OrderInv, TypeOK
    <3>3. Online(p) /\ Online(p)' /\ pc'[p] = "scan" /\ pc[p] = "handle"
      BY <2>3 DEF ScanHandle, OrderInv, TypeOK, Online
    <3>4. h \in Call /\ h.called = last_command[p] /\ joined[p] \in Nat
      <4>1. scan[p] \in Slots
        BY <2>3, BufferAssumption DEF ScanHandle, OrderInv, ReadsInRing, TypeOK, Slots
      <4> QED BY <4>1 DEF OrderInv, TypeOK, Command, Call
    <3>5. handled[p] \in Seq(Call)
      BY CallType DEF OrderInv
    <3>6. /\ joined[p] < last_command[p]
          /\ \A i \in 1 .. Len(handled[p]) :
               /\ joined[p] < handled[p][i].called
               /\ handled[p][i].called < last_command[p]
      BY <3>3 DEF OrderInv, CursorInv, CallsInOrder
    <3>7. CursorInv'
      BY <3>1, <3>2, <3>3, <3>6 DEF OrderInv, CursorInv, Online
    <3>8. Increasing(handled[p])
      BY <3>3, OrderForm DEF OrderInv
    <3>9. Increasing(handled'[p]) /\ Within(handled'[p], joined[p], last_command[p])
      <4> HIDE DEF h
      <4> QED BY <3>1, <3>4, <3>5, <3>6, <3>8, AppendIncreasing
    <3>10. CallsInOrder'
      BY <3>1, <3>2, <3>9, OrderForm DEF OrderInv, Online
    <3> QED BY <3>7, <3>10
  <2> QED BY <1>3, <2>1, <2>2, <2>3 DEF Poll
<1>4. ASSUME NEW p \in Peers, Lifecycle(p) PROVE CursorInv' /\ CallsInOrder'
  <2>1. CASE ConnectSlot(p)
    BY <2>1, OrderUntouched DEF ConnectSlot, OrderInv, TypeOK, Online
  <2>2. CASE ConnectCursor(p)
    <3>1. /\ handled'[p] = <<>>
          /\ joined'[p] = command_count /\ last_command'[p] = command_count
          /\ pc'[p] = "idle"
      BY <2>2 DEF ConnectCursor, OrderInv, CursorInv, TypeOK, Online
    <3>2. \A q \in Peers \ {p} : /\ handled'[q] = handled[q]
                                 /\ joined'[q] = joined[q]
                                 /\ last_command'[q] = last_command[q]
                                 /\ pc'[q] = pc[q]
      BY <2>2 DEF ConnectCursor, OrderInv, TypeOK
    <3>3. command_count <= command_count
      BY DEF OrderInv, TypeOK
    <3>4. /\ Online(p)' /\ pc'[p] \notin {"check", "handle"}
          /\ joined'[p] <= last_command'[p]
      BY <3>1, <3>3 DEF Online
    <3>5. \A q \in Peers \ {p} : Online(q)' <=> Online(q)
      BY <3>2 DEF Online
    <3>6. CursorInv'
      BY <3>4, <3>5, <3>2 DEF OrderInv, CursorInv
    <3>7. Within(<<>>, command_count, command_count) /\ Increasing(<<>>)
      BY DEF Within, Increasing
    <3>8. CallsInOrder'
      BY <3>1, <3>2, <3>7, OrderForm DEF OrderInv, Online
    <3> QED BY <3>6, <3>8
  <2>3. CASE Disconnect(p)
    BY <2>3, OrderForget DEF Disconnect, OrderInv, TypeOK, Online
  <2> QED BY <1>4, <2>1, <2>2, <2>3 DEF Lifecycle
<1>5. ASSUME NEW p \in Peers, Fault(p) PROVE CursorInv' /\ CallsInOrder'
  <2>1. CASE Crash(p)
    BY <2>1, OrderForget DEF Crash, OrderInv, TypeOK, Online
  <2>2. CASE fix_deadlock(p)
    BY <2>2, OrderUntouched DEF fix_deadlock, Online
  <2> QED BY <1>5, <2>1, <2>2 DEF Fault
<1> QED
  BY <1>1, <1>2, <1>3, <1>4, <1>5 DEF Next

\* The handlers of every peer are called for increasing numbers that are newer
\* than the peer, in every behaviour: crashes, fatal payloads and forced unlocks
\* too.
LEMMA CallsInOrderHolds == Spec => []CallsInOrder
<1>1. Init => OrderInv
  <2> SUFFICES ASSUME Init PROVE OrderInv
    OBVIOUS
  <2>1. CursorInv
    BY DEF Init, CursorInv, Online
  <2>2. CallsInOrder
    BY DEF Init, CallsInOrder, Online
  <2> QED BY <2>1, <2>2, TypeInit DEF OrderInv
<1>2. OrderInv /\ [Next]_vars => OrderInv'
  BY TypeStep, ReadsStep, OrderStep DEF OrderInv
<1>3. OrderInv => CallsInOrder
  BY DEF OrderInv
<1> QED
  BY <1>1, <1>2, <1>3, PTL DEF Spec

-----------------------------------------------------------------------------
(***************************************************************************)
(* The ring implements CommandLog, for any number of peers and any size of *)
(* the ring, whatever crashes, as long as nobody forces the mutex open.    *)
(* And what arrives at the handlers: the newest command is never lost to   *)
(* the scan without a lock, and a text reaches addressees only.            *)
(***************************************************************************)

-----------------------------------------------------------------------------
(* The inductive invariant.                                                *)

\* The numbers of the ring are those of the log.
CountIsLog == command_count = Len(posted)

\* A number in the ring is in its own slot, with the header of its post.
SlotTruth ==
  \A s \in Slots :
    LET c == commands[s] IN
    c.command_number > 0 =>
      /\ c.command_number <= command_count
      /\ SlotOf(c.command_number) = s
      /\ c.sender = posted[c.command_number].sender
      /\ c.target_peer = posted[c.command_number].target_peer

\* What a writer is about to publish is what it posted.
WriterPosted ==
  \A p \in Peers : pc[p] \in {"fill", "publish"} =>
    /\ command_count > 0
    /\ posted[command_count] = [sender |-> p, target_peer |-> target[p]]

\* No cursor is ahead of the log, and that of a process that has not joined or
\* has ended is at its start.
CursorBehind ==
  \A p \in Peers : /\ last_command[p] <= command_count
                   /\ ~Online(p) => last_command[p] = 0

\* A peer that decides about a command looks at the slot of its number, which
\* holds that command or a newer one; and it handles what was for it, if the
\* command is still among the newest.
Decides ==
  \A p \in Peers : Deciding(p) =>
    /\ last_command[p] > 0
    /\ SlotOf(last_command[p]) = scan[p]
    /\ commands[scan[p]].command_number >= last_command[p]
    /\ (pc[p] = "handle" /\ command_count < last_command[p] + command_buffer)
         => WasFor(p, last_command[p])

LogInv == /\ RingInv /\ OrderInv
          /\ CountIsLog /\ SlotTruth /\ WriterPosted /\ CursorBehind /\ Decides

\* The log starts empty.
LEMMA LogInvInit == Init => LogInv
<1> SUFFICES ASSUME Init PROVE LogInv
  OBVIOUS
<1>1. CountIsLog /\ SlotTruth
  BY DEF Init, CountIsLog, SlotTruth, EmptyCommand
<1>2. WriterPosted /\ CursorBehind /\ Decides
  BY DEF Init, WriterPosted, CursorBehind, Decides, Deciding
<1>3. CursorInv /\ CallsInOrder
  BY DEF Init, CursorInv, CallsInOrder, Online
<1> QED BY <1>1, <1>2, <1>3, RingInit, TypeInit DEF LogInv, OrderInv

\* The commands posted so far stay what they are.
LEMMA PostedGrows ==
  ASSUME TypeOK, CountIsLog, NEW e \in [sender : Peers, target_peer : Targets],
         posted' = Append(posted, e)
  PROVE  /\ Len(posted') = command_count + 1
         /\ posted'[command_count + 1] = e
         /\ \A n \in 1 .. command_count : posted'[n] = posted[n]
  BY DEF TypeOK, CountIsLog

\* What the two steps that take a number have in common.
LEMMA CountOrAlloc ==
  ASSUME LogInv, NEW p \in Peers, SendCount(p) \/ SendAlloc(p)
  PROVE  /\ posted' = Append(posted, [sender |-> p, target_peer |-> target[p]])
         /\ [sender |-> p, target_peer |-> target[p]] \in [sender : Peers, target_peer : Targets]
         /\ command_count' = command_count + 1
         /\ UNCHANGED commands
         /\ Len(posted') = command_count + 1
         /\ posted'[command_count + 1] = [sender |-> p, target_peer |-> target[p]]
         /\ \A n \in 1 .. command_count : posted'[n] = posted[n]
         /\ \A q \in Peers \ {p} : pc'[q] = pc[q] /\ pc[q] \notin Critical
<1>1. /\ posted' = Append(posted, [sender |-> p, target_peer |-> target[p]])
      /\ command_count' = command_count + 1 /\ UNCHANGED commands
  BY DEF SendCount, SendAlloc
<1>2. [sender |-> p, target_peer |-> target[p]] \in [sender : Peers, target_peer : Targets]
  BY DEF LogInv, RingInv, TypeOK
<1>3. \A q \in Peers \ {p} : pc'[q] = pc[q] /\ pc[q] \notin Critical
  BY DEF SendCount, SendAlloc, LogInv, RingInv, TypeOK, MutualExclusion, Critical
<1> QED BY <1>1, <1>2, <1>3, PostedGrows DEF LogInv, RingInv

\* The other steps of the ring leave the count and the log alone.
LEMMA LogUntouched ==
  ASSUME NEW p \in Peers, Send(p) \/ Poll(p) \/ Lifecycle(p) \/ Fault(p),
         ~SendCount(p), ~SendAlloc(p)
  PROVE  UNCHANGED <<command_count, posted>>
<1> USE DEF shared, sending, history
<1>1. CASE Send(p)
  BY <1>1 DEF Send, SendMessage, SendFill, SendPublish, Publish
<1>2. CASE Poll(p)
  BY <1>2 DEF Poll, ProcessCommands, ScanSkip, ScanTake, ScanCheck, ScanHandle, ScanEnd
<1>3. CASE Lifecycle(p) \/ Fault(p)
  BY <1>3 DEF Lifecycle, ConnectSlot, ConnectCursor, Disconnect, Fault, Crash, fix_deadlock
<1> QED BY <1>1, <1>2, <1>3

\* Only SendFill and SendPublish write the ring.
LEMMA RingUnwritten ==
  ASSUME NEW p \in Peers, Send(p) \/ Poll(p) \/ Lifecycle(p) \/ Fault(p),
         ~SendFill(p), ~SendPublish(p)
  PROVE  UNCHANGED commands
<1> USE DEF shared, sending, history
<1>1. CASE Send(p)
  BY <1>1 DEF Send, SendMessage, SendCount, SendAlloc
<1>2. CASE Poll(p)
  BY <1>2 DEF Poll, ProcessCommands, ScanSkip, ScanTake, ScanCheck, ScanHandle, ScanEnd
<1>3. CASE Lifecycle(p) \/ Fault(p)
  BY <1>3 DEF Lifecycle, ConnectSlot, ConnectCursor, Disconnect, Fault, Crash, fix_deadlock
<1> QED BY <1>1, <1>2, <1>3

\* The text of a command is no part of its header.
LEMMA FillKeepsHeaders ==
  ASSUME LogInv, NEW p \in Peers, SendFill(p)
  PROVE  \A s \in Slots : /\ commands'[s].command_number = commands[s].command_number
                          /\ commands'[s].sender = commands[s].sender
                          /\ commands'[s].target_peer = commands[s].target_peer
  BY DEF SendFill, LogInv, RingInv, TypeOK, Command

\* The slot that a writer publishes, and the others.
LEMMA PublishSlot ==
  ASSUME LogInv, NEW p \in Peers, SendPublish(p)
  PROVE  /\ command_count \in Nat /\ command_count > 0 /\ SlotOf(command_count) \in Slots
         /\ commands'[SlotOf(command_count)].command_number = command_count
         /\ commands'[SlotOf(command_count)].sender = posted[command_count].sender
         /\ commands'[SlotOf(command_count)].target_peer = posted[command_count].target_peer
         /\ \A s \in Slots \ {SlotOf(command_count)} : commands'[s] = commands[s]
<1>1. pc[p] = "publish" /\ cmd[p] = command_count /\ command_count \in Nat
  BY DEF SendPublish, Publish, LogInv, RingInv, WritesNewest, TypeOK
<1>2. SlotOf(command_count) \in Slots
  BY <1>1, SlotOfType
<1>3. command_count > 0 /\ posted[command_count] = [sender |-> p, target_peer |-> target[p]]
  BY <1>1 DEF LogInv, WriterPosted
<1>4. commands' = [commands EXCEPT ![SlotOf(command_count)] =
                     [@ EXCEPT !.sender = p, !.target_peer = target[p], !.command_number = command_count]]
  BY <1>1 DEF SendPublish, Publish
<1>5. commands \in [Slots -> Command]
  BY DEF LogInv, RingInv, TypeOK
<1>6. commands'[SlotOf(command_count)] =
        [commands[SlotOf(command_count)] EXCEPT !.sender = p, !.target_peer = target[p],
                                                !.command_number = command_count]
  BY <1>2, <1>4, <1>5
<1>7. /\ commands'[SlotOf(command_count)].command_number = command_count
      /\ commands'[SlotOf(command_count)].sender = p
      /\ commands'[SlotOf(command_count)].target_peer = target[p]
  BY <1>2, <1>5, <1>6 DEF Command
<1> QED BY <1>1, <1>2, <1>3, <1>4, <1>5, <1>7

-----------------------------------------------------------------------------
(* Every step keeps the invariant.                                         *)

\* The count and the log grow together.
LEMMA CountStep == ASSUME LogInv, [Next]_vars PROVE CountIsLog'
<1>1. CASE UNCHANGED vars
  BY <1>1 DEF vars, LogInv, CountIsLog
<1>2. ASSUME NEW p \in Peers, Send(p) \/ Poll(p) \/ Lifecycle(p) \/ Fault(p)
      PROVE  CountIsLog'
  <2>1. CASE SendCount(p) \/ SendAlloc(p)
    BY <2>1, CountOrAlloc DEF CountIsLog
  <2>2. CASE ~SendCount(p) /\ ~SendAlloc(p)
    BY <1>2, <2>2, LogUntouched DEF LogInv, CountIsLog
  <2> QED BY <2>1, <2>2
<1> QED BY <1>1, <1>2 DEF Next

\* A number gets into the ring with the header that was posted under it.
LEMMA SlotTruthStep == ASSUME LogInv, [Next]_vars PROVE SlotTruth'
<1>1. CASE UNCHANGED vars
  BY <1>1 DEF vars, LogInv, SlotTruth
<1>2. ASSUME NEW p \in Peers, Send(p) \/ Poll(p) \/ Lifecycle(p) \/ Fault(p)
      PROVE  SlotTruth'
  <2>0. \A s \in Slots : commands[s].command_number \in Nat
    BY DEF LogInv, RingInv, TypeOK, Command
  <2>1. CASE SendCount(p) \/ SendAlloc(p)
    <3>1. command_count \in Nat
      BY DEF LogInv, RingInv, TypeOK
    <3>2. /\ command_count' = command_count + 1 /\ UNCHANGED commands
          /\ \A n \in 1 .. command_count : posted'[n] = posted[n]
      BY <2>1, CountOrAlloc
    <3>3. SlotTruth
      BY DEF LogInv
    <3> QED BY <2>0, <3>1, <3>2, <3>3 DEF SlotTruth
  <2>2. CASE SendFill(p)
    <3>1. UNCHANGED <<command_count, posted>>
      BY <2>2 DEF SendFill, shared, sending, history
    <3> QED BY <2>2, <3>1, FillKeepsHeaders DEF LogInv, SlotTruth
  <2>3. CASE SendPublish(p)
    <3>1. UNCHANGED <<command_count, posted>>
      BY <2>3 DEF SendPublish, Publish, history
    <3>2. command_count <= command_count
      BY <2>3, PublishSlot
    <3> QED BY <2>3, <3>1, <3>2, PublishSlot DEF LogInv, SlotTruth
  <2>4. CASE ~(SendCount(p) \/ SendAlloc(p) \/ SendFill(p) \/ SendPublish(p))
    <3>1. UNCHANGED <<commands, command_count, posted>>
      BY <1>2, <2>4, LogUntouched, RingUnwritten
    <3> QED BY <3>1 DEF LogInv, SlotTruth
  <2> QED BY <2>1, <2>2, <2>3, <2>4
<1> QED BY <1>1, <1>2 DEF Next

\* A writer keeps the lock, so the newest entry of the log stays its own.
LEMMA WriterPostedStep == ASSUME LogInv, [Next]_vars PROVE WriterPosted'
<1> USE DEF shared, sending, history
<1>1. CASE UNCHANGED vars
  BY <1>1 DEF vars, LogInv, WriterPosted
<1>2. ASSUME NEW p \in Peers, Send(p) \/ Poll(p) \/ Lifecycle(p) \/ Fault(p)
      PROVE  WriterPosted'
  <2>1. CASE SendCount(p)
    <3>1. target' = target /\ command_count \in Nat
      BY <2>1 DEF SendCount, LogInv, RingInv, TypeOK
    <3>2. \A q \in Peers \ {p} : pc'[q] \notin {"fill", "publish"}
      BY <2>1, CountOrAlloc DEF Critical
    <3> QED BY <2>1, <3>1, <3>2, CountOrAlloc DEF WriterPosted
  <2>2. CASE SendAlloc(p)
    <3>1. \A q \in Peers \ {p} : pc'[q] \notin {"fill", "publish"}
      BY <2>2, CountOrAlloc DEF Critical
    <3>2. pc'[p] = "dead"
      BY <2>2 DEF SendAlloc, LogInv, RingInv, TypeOK
    <3> QED BY <3>1, <3>2 DEF WriterPosted
  <2>3. CASE ~SendCount(p) /\ ~SendAlloc(p)
    <3>1. UNCHANGED <<command_count, posted>>
      BY <1>2, <2>3, LogUntouched
    <3>2. \A q \in Peers \ {p} : pc'[q] = pc[q] /\ target'[q] = target[q]
      <4> USE DEF LogInv, RingInv, TypeOK, Forget
      <4>1. CASE Send(p)
        BY <2>3, <4>1 DEF Send, SendMessage, SendFill, SendPublish, Publish
      <4>2. CASE Poll(p)
        BY <4>2 DEF Poll, ProcessCommands, ScanSkip, ScanTake, ScanCheck, ScanHandle, ScanEnd
      <4>3. CASE Lifecycle(p) \/ Fault(p)
        BY <4>3 DEF Lifecycle, ConnectSlot, ConnectCursor, Disconnect, Fault, Crash, fix_deadlock
      <4> QED BY <1>2, <4>1, <4>2, <4>3
    <3>3. pc'[p] \in {"fill", "publish"} => pc[p] = "fill" /\ target' = target
      <4> USE DEF LogInv, RingInv, TypeOK
      <4>1. CASE Send(p)
        BY <2>3, <4>1 DEF Send, SendMessage, SendFill, SendPublish, Publish
      <4>2. CASE Poll(p)
        BY <4>2 DEF Poll, ProcessCommands, ScanSkip, ScanTake, ScanCheck, ScanHandle, ScanEnd
      <4>3. CASE Lifecycle(p) \/ Fault(p)
        BY <4>3 DEF Lifecycle, ConnectSlot, ConnectCursor, Disconnect, Fault, Crash, fix_deadlock
      <4> QED BY <1>2, <4>1, <4>2, <4>3
    <3> QED BY <3>1, <3>2, <3>3 DEF LogInv, WriterPosted
  <2> QED BY <2>1, <2>2, <2>3
<1> QED BY <1>1, <1>2 DEF Next

\* A command that a scan takes is one that was posted, in its slot.
LEMMA TakenIsPosted ==
  ASSUME LogInv, NEW p \in Peers, ScanTake(p)
  PROVE  LET n == commands[scan[p]].command_number IN
         /\ scan[p] \in Slots /\ n \in Nat /\ last_command[p] \in Nat /\ last_command[p] < n
         /\ n <= command_count /\ SlotOf(n) = scan[p]
         /\ last_command' = [last_command EXCEPT ![p] = n]
         /\ last_command'[p] = n
<1>1. scan[p] \in Slots
  BY BufferAssumption DEF ScanTake, LogInv, RingInv, TypeOK, Slots
<1>2. commands[scan[p]].command_number \in Nat /\ last_command[p] \in Nat
  BY <1>1 DEF LogInv, RingInv, TypeOK, Command
<1>3. last_command[p] < commands[scan[p]].command_number
  BY <1>2 DEF ScanTake, Seen
<1>4. last_command' = [last_command EXCEPT ![p] = commands[scan[p]].command_number]
  BY DEF ScanTake
<1>5. last_command'[p] = commands[scan[p]].command_number
  BY <1>4 DEF LogInv, RingInv, TypeOK
<1> QED BY <1>1, <1>2, <1>3, <1>4, <1>5 DEF LogInv, SlotTruth

\* A cursor moves to what was posted, or back to the start.
LEMMA CursorBehindStep == ASSUME LogInv, [Next]_vars PROVE CursorBehind'
<1> USE DEF shared, sending, history
<1>0. command_count \in Nat /\ last_command \in [Peers -> Nat] /\ pc \in [Peers -> PC]
  BY DEF LogInv, RingInv, TypeOK
<1>1. CASE UNCHANGED vars
  BY <1>1 DEF vars, LogInv, CursorBehind, Online
<1>2. ASSUME NEW p \in Peers, Send(p) \/ Poll(p) \/ Lifecycle(p) \/ Fault(p)
      PROVE  CursorBehind'
  <2>1. command_count <= command_count' /\ command_count' \in Nat
    <3>1. CASE SendCount(p) \/ SendAlloc(p)
      <4>1. command_count' = command_count + 1
        BY <3>1, CountOrAlloc
      <4> QED BY <1>0, <4>1
    <3>2. CASE ~SendCount(p) /\ ~SendAlloc(p)
      <4>1. command_count' = command_count
        BY <1>2, <3>2, LogUntouched
      <4> QED BY <1>0, <4>1
    <3> QED BY <3>1, <3>2
  <2>2. \A q \in Peers \ {p} : last_command'[q] = last_command[q] /\ pc'[q] = pc[q]
    <3> USE <1>0 DEF Forget
    <3>1. CASE Send(p)
      BY <3>1 DEF Send, SendMessage, SendCount, SendFill, SendPublish, Publish, SendAlloc
    <3>2. CASE Poll(p)
      BY <3>2 DEF Poll, ProcessCommands, ScanSkip, ScanTake, ScanCheck, ScanHandle, ScanEnd
    <3>3. CASE Lifecycle(p) \/ Fault(p)
      BY <3>3 DEF Lifecycle, ConnectSlot, ConnectCursor, Disconnect, Fault, Crash, fix_deadlock
    <3> QED BY <1>2, <3>1, <3>2, <3>3
  <2>3. SUFFICES last_command'[p] <= command_count' /\ (~Online(p)' => last_command'[p] = 0)
    BY <1>0, <2>1, <2>2 DEF LogInv, CursorBehind, Online
  <2>4. CASE ScanTake(p)
    <3>1. pc'[p] = "check"
      BY <1>0, <2>4 DEF ScanTake
    <3> QED BY <1>0, <2>1, <2>4, <3>1, TakenIsPosted DEF Online
  <2>5. CASE ConnectCursor(p)
    BY <1>0, <2>5 DEF ConnectCursor, Online
  <2>6. CASE Forget(p)
    <3>1. last_command'[p] = 0
      BY <1>0, <2>6 DEF Forget
    <3> QED BY <2>1, <3>1
  <2>7. CASE ~ScanTake(p) /\ ~ConnectCursor(p) /\ ~Forget(p)
    <3>1. last_command'[p] = last_command[p] /\ (~Online(p)' => ~Online(p))
      <4> USE <1>0 DEF Online
      <4>1. CASE Send(p)
        BY <2>7, <4>1 DEF Send, SendMessage, SendCount, SendFill, SendPublish, Publish, SendAlloc
      <4>2. CASE Poll(p)
        BY <2>7, <4>2 DEF Poll, ProcessCommands, ScanSkip, ScanCheck, ScanHandle, ScanEnd
      <4>3. CASE Lifecycle(p) \/ Fault(p)
        BY <2>7, <4>3 DEF Lifecycle, ConnectSlot, Disconnect, Fault, Crash, fix_deadlock
      <4> QED BY <1>2, <4>1, <4>2, <4>3
    <3> QED BY <1>0, <2>1, <3>1 DEF LogInv, CursorBehind
  <2> QED BY <2>4, <2>5, <2>6, <2>7
<1> QED BY <1>1, <1>2 DEF Next

\* The slot that a peer decides about holds its command as long as that is
\* among the newest, and its header says for whom the command is.
LEMMA DecidedSlot ==
  ASSUME LogInv, NEW p \in Peers, Deciding(p)
  PROVE  /\ scan[p] \in Slots /\ last_command[p] \in 1 .. command_count
         /\ command_count \in Nat
         /\ command_count < last_command[p] + command_buffer =>
              /\ commands[scan[p]].command_number = last_command[p]
              /\ Addressed(p, commands[scan[p]]) <=> WasFor(p, last_command[p])
<1>1. scan[p] \in Slots
  BY BufferAssumption DEF Deciding, LogInv, RingInv, TypeOK, ReadsInRing, Slots
<1>2. last_command[p] \in Nat /\ command_count \in Nat /\ commands[scan[p]].command_number \in Nat
  BY <1>1 DEF LogInv, RingInv, TypeOK, Command
<1>3. last_command[p] > 0 /\ last_command[p] <= command_count
  BY DEF LogInv, Decides, CursorBehind
<1>4. SUFFICES ASSUME command_count < last_command[p] + command_buffer
               PROVE  /\ commands[scan[p]].command_number = last_command[p]
                      /\ Addressed(p, commands[scan[p]]) <=> WasFor(p, last_command[p])
  BY <1>1, <1>2, <1>3
<1> DEFINE n == commands[scan[p]].command_number
<1>5. last_command[p] <= n /\ SlotOf(last_command[p]) = scan[p]
  BY DEF LogInv, Decides
<1>6. n <= command_count /\ SlotOf(n) = scan[p] /\ commands[scan[p]].sender = posted[n].sender
      /\ commands[scan[p]].target_peer = posted[n].target_peer
  BY <1>1, <1>2, <1>3, <1>5 DEF LogInv, SlotTruth
<1>7. n = last_command[p]
  <2>1. SUFFICES ASSUME last_command[p] < n PROVE FALSE
    BY <1>2, <1>5
  <2>2. n < last_command[p] + command_buffer
    BY <1>2, <1>4, <1>6, BufferAssumption
  <2> QED BY <1>2, <1>5, <1>6, <2>1, <2>2, SlotOfInjective
<1>8. Addressed(p, commands[scan[p]]) <=> WasFor(p, last_command[p])
  BY <1>6, <1>7 DEF Addressed, WasFor
<1> QED BY <1>7, <1>8

\* The number in a slot grows with every post.
LEMMA SlotGrows ==
  ASSUME LogInv, NEW p \in Peers, Send(p) \/ Poll(p) \/ Lifecycle(p) \/ Fault(p),
         NEW q \in Peers, Deciding(q)
  PROVE  commands'[scan[q]].command_number >= last_command[q]
<1>1. /\ commands[scan[q]].command_number >= last_command[q]
      /\ scan[q] \in Slots
  BY DecidedSlot DEF LogInv, Decides
<1>2. CASE SendFill(p)
  BY <1>1, <1>2, FillKeepsHeaders
<1>3. CASE SendPublish(p)
  <2>1. CASE scan[q] = SlotOf(command_count)
    BY <1>3, <2>1, PublishSlot DEF LogInv, CursorBehind
  <2>2. CASE scan[q] # SlotOf(command_count)
    BY <1>1, <1>3, <2>2, PublishSlot
  <2> QED BY <2>1, <2>2
<1>4. CASE ~SendFill(p) /\ ~SendPublish(p)
  BY <1>1, <1>4, RingUnwritten
<1> QED BY <1>2, <1>3, <1>4

\* For whom a command is in the log after the step.
PostedFor(p, n) == posted'[n].sender # p /\ posted'[n].target_peer \in {p, Broadcast}

\* For whom a command was stays so, and the newest commands do not grow older
\* than they are.
LEMMA WasForStays ==
  ASSUME LogInv, NEW p \in Peers, Send(p) \/ Poll(p) \/ Lifecycle(p) \/ Fault(p),
         NEW q \in Peers, NEW n \in 1 .. command_count
  PROVE  /\ PostedFor(q, n) <=> WasFor(q, n)
         /\ command_count' < n + command_buffer => command_count < n + command_buffer
<1>0. command_count \in Nat /\ command_buffer \in Nat
  BY BufferAssumption DEF LogInv, RingInv, TypeOK
<1>1. CASE SendCount(p) \/ SendAlloc(p)
  <2>1. posted'[n] = posted[n] /\ command_count' = command_count + 1
    BY <1>1, CountOrAlloc
  <2> QED BY <1>0, <2>1 DEF WasFor, PostedFor
<1>2. CASE ~SendCount(p) /\ ~SendAlloc(p)
  <2>1. UNCHANGED <<command_count, posted>>
    BY <1>2, LogUntouched
  <2> QED BY <2>1 DEF WasFor, PostedFor
<1> QED BY <1>1, <1>2

\* A scan that has taken a slot is overtaken by newer numbers of that slot only.
LEMMA DecidesStep == ASSUME LogInv, [Next]_vars PROVE Decides'
<1> USE DEF shared, sending, history
<1>0. /\ command_count \in Nat /\ last_command \in [Peers -> Nat] /\ pc \in [Peers -> PC]
      /\ scan \in [Peers -> 0 .. command_buffer]
  BY DEF LogInv, RingInv, TypeOK
<1>1. CASE UNCHANGED vars
  BY <1>1 DEF vars, LogInv, Decides, Deciding, WasFor
<1>2. ASSUME NEW p \in Peers, Send(p) \/ Poll(p) \/ Lifecycle(p) \/ Fault(p)
      PROVE  Decides'
  <2> SUFFICES ASSUME NEW q \in Peers, Deciding(q)'
               PROVE  /\ last_command'[q] > 0
                      /\ SlotOf(last_command'[q]) = scan'[q]
                      /\ commands'[scan'[q]].command_number >= last_command'[q]
                      /\ (pc'[q] = "handle" /\ command_count' < last_command'[q] + command_buffer)
                           => PostedFor(q, last_command'[q])
    BY DEF Decides, Deciding, WasFor, PostedFor
  <2>1. CASE ScanTake(p) /\ q = p
    <3>1. UNCHANGED <<commands, scan>> /\ pc'[p] = "check"
      BY <1>0, <2>1 DEF ScanTake
    <3> QED BY <2>1, <3>1, TakenIsPosted
  <2>2. CASE ~(ScanTake(p) /\ q = p)
    <3>1. /\ Deciding(q) /\ scan'[q] = scan[q] /\ last_command'[q] = last_command[q]
          /\ pc'[q] = "handle" => pc[q] = "handle" \/ (ScanCheck(p) /\ q = p)
      <4> USE <1>0 DEF Deciding
      <4>1. CASE Send(p)
        BY <4>1 DEF Send, SendMessage, SendCount, SendFill, SendPublish, Publish, SendAlloc, Forget
      <4>2. CASE Poll(p)
        BY <2>2, <4>2 DEF Poll, ProcessCommands, ScanSkip, ScanTake, ScanCheck, ScanHandle, ScanEnd
      <4>3. CASE Lifecycle(p) \/ Fault(p)
        BY <4>3 DEF Lifecycle, ConnectSlot, ConnectCursor, Disconnect, Fault, Crash, fix_deadlock, Forget
      <4> QED BY <1>2, <4>1, <4>2, <4>3
    <3>2. last_command[q] \in 1 .. command_count
      BY <3>1, DecidedSlot
    <3>3. /\ last_command'[q] > 0 /\ SlotOf(last_command'[q]) = scan'[q]
          /\ commands'[scan'[q]].command_number >= last_command'[q]
      BY <1>2, <3>1, SlotGrows DEF LogInv, Decides
    <3>4. ASSUME pc'[q] = "handle", command_count' < last_command'[q] + command_buffer
          PROVE  PostedFor(q, last_command'[q])
      <4>1. command_count < last_command[q] + command_buffer
        BY <1>2, <3>1, <3>2, <3>4, WasForStays
      <4>2. WasFor(q, last_command[q])
        <5>1. CASE pc[q] = "handle"
          BY <3>1, <4>1, <5>1 DEF LogInv, Decides
        <5>2. CASE ScanCheck(p) /\ q = p
          <6>1. Addressed(p, commands[scan[p]])
            BY <1>0, <3>4, <5>2 DEF ScanCheck
          <6> QED BY <3>1, <4>1, <5>2, <6>1, DecidedSlot
        <5> QED BY <3>1, <3>4, <5>1, <5>2
      <4> QED BY <1>2, <3>1, <3>2, <4>2, WasForStays
    <3> QED BY <3>3, <3>4
  <2> QED BY <2>1, <2>2
<1> QED BY <1>1, <1>2 DEF Next

\* The invariant holds in every reachable state.
LEMMA LogInductive ==
  ASSUME "unlock" \notin Faults PROVE Spec => []LogInv
<1>1. LogInv /\ [Next]_vars => LogInv'
  <2> SUFFICES ASSUME LogInv, [Next]_vars PROVE LogInv'
    OBVIOUS
  <2>1. RingInv'
    BY TypeStep, ReadsStep, MutexStep, RingStep DEF LogInv, RingInv
  <2>2. OrderInv'
    BY TypeStep, ReadsStep, OrderStep DEF LogInv, OrderInv
  <2> QED BY <2>1, <2>2, CountStep, SlotTruthStep, WriterPostedStep, CursorBehindStep,
             DecidesStep DEF LogInv
<1> QED BY <1>1, LogInvInit, PTL DEF Spec

-----------------------------------------------------------------------------
(* The text and the header of a slot.                                      *)

\* The text of a slot is one of that slot and never older than its number, a
\* writer overwrites numbers older than its own only, and what it publishes has
\* its text.
TextAhead ==
  /\ \A s \in Slots : commands[s].command_number <= commands[s].cmd_data
  /\ \A s \in Slots : commands[s].cmd_data > 0 =>
       /\ commands[s].cmd_data <= command_count
       /\ SlotOf(commands[s].cmd_data) = s
  /\ \A p \in Peers :
       /\ pc[p] = "fill" =>
            \A s \in Slots : commands[s].command_number < command_count
       /\ pc[p] = "publish" => commands[SlotOf(command_count)].cmd_data = command_count

\* Texts are written by SendFill only.
LEMMA TextsUnwritten ==
  ASSUME LogInv, NEW p \in Peers, Send(p) \/ Poll(p) \/ Lifecycle(p) \/ Fault(p),
         ~SendFill(p)
  PROVE  \A s \in Slots : commands'[s].cmd_data = commands[s].cmd_data
<1>1. CASE SendPublish(p)
  BY <1>1 DEF SendPublish, Publish, LogInv, RingInv, TypeOK, Command
<1>2. CASE ~SendPublish(p)
  BY <1>2, RingUnwritten
<1> QED BY <1>1, <1>2

\* SendFill writes the newest number as the text of its slot.
LEMMA FillSlot ==
  ASSUME LogInv, NEW p \in Peers, SendFill(p)
  PROVE  /\ SlotOf(command_count) \in Slots /\ command_count \in Nat
         /\ UNCHANGED <<command_count, posted>>
         /\ commands'[SlotOf(command_count)].cmd_data = command_count
         /\ \A s \in Slots \ {SlotOf(command_count)} : commands'[s] = commands[s]
<1>1. pc[p] = "fill" /\ cmd[p] = command_count /\ command_count \in Nat
  BY DEF SendFill, LogInv, RingInv, WritesNewest, TypeOK
<1>2. SlotOf(command_count) \in Slots
  BY <1>1, SlotOfType
<1>3. commands' = [commands EXCEPT ![SlotOf(command_count)].cmd_data = command_count]
  BY <1>1 DEF SendFill
<1>4. commands \in [Slots -> Command]
  BY DEF LogInv, RingInv, TypeOK
<1>5. commands'[SlotOf(command_count)].cmd_data = command_count
  BY <1>2, <1>3, <1>4 DEF Command
<1>6. UNCHANGED <<command_count, posted>>
  BY DEF SendFill, history
<1> QED BY <1>1, <1>2, <1>3, <1>4, <1>5, <1>6

\* The writers that a step leaves behind are where they were, or have just
\* taken the number or written the text.
LEMMA WritersAfter ==
  ASSUME LogInv, NEW p \in Peers, Send(p) \/ Poll(p) \/ Lifecycle(p) \/ Fault(p), NEW q \in Peers
  PROVE  /\ pc'[q] = "fill" => (q = p /\ SendCount(p)) \/ pc[q] = "fill"
         /\ pc'[q] = "publish" => (q = p /\ SendFill(p)) \/ pc[q] = "publish"
         /\ SendPublish(p) => pc'[q] \notin {"fill", "publish"}
         /\ SendFill(p) => pc'[q] # "fill" /\ (pc'[q] = "publish" => q = p)
         /\ SendCount(p) \/ SendAlloc(p) => pc'[q] # "publish" /\ (pc'[q] = "fill" => q = p)
<1> USE DEF shared, sending, history, LogInv, RingInv, TypeOK
<1>1. /\ pc'[q] = "fill" => (q = p /\ SendCount(p)) \/ pc[q] = "fill"
      /\ pc'[q] = "publish" => (q = p /\ SendFill(p)) \/ pc[q] = "publish"
  <2>1. CASE Send(p)
    BY <2>1 DEF Send, SendMessage, SendCount, SendFill, SendPublish, Publish, SendAlloc
  <2>2. CASE Poll(p)
    BY <2>2 DEF Poll, ProcessCommands, ScanSkip, ScanTake, ScanCheck, ScanHandle, ScanEnd
  <2>3. CASE Lifecycle(p) \/ Fault(p)
    BY <2>3 DEF Lifecycle, ConnectSlot, ConnectCursor, Disconnect, Fault, Crash, fix_deadlock
  <2> QED BY <2>1, <2>2, <2>3
<1>2. SendPublish(p) => pc'[q] \notin {"fill", "publish"}
  BY DEF SendPublish, Publish, MutualExclusion, Critical
<1>3. SendFill(p) => pc'[q] # "fill" /\ (pc'[q] = "publish" => q = p)
  BY DEF SendFill, MutualExclusion, Critical
<1>4. SendCount(p) \/ SendAlloc(p) => pc'[q] # "publish" /\ (pc'[q] = "fill" => q = p)
  BY DEF SendCount, SendAlloc, MutualExclusion, Critical
<1> QED BY <1>1, <1>2, <1>3, <1>4

\* What a peer finds in the slot it decides about is the text of its command or
\* that of one a lap or more later.
LEMMA TextOfSlot ==
  ASSUME LogInv, TextAhead, NEW p \in Peers, Deciding(p)
  PROVE  commands[scan[p]].cmd_data \in Texts(last_command[p])
<1> DEFINE d == commands[scan[p]].cmd_data
           n == last_command[p]
<1>1. /\ scan[p] \in Slots /\ n \in 1 .. command_count /\ command_count \in Nat
      /\ d \in Nat /\ commands[scan[p]].command_number \in Nat /\ command_buffer \in Nat
  BY DecidedSlot, BufferAssumption DEF LogInv, RingInv, TypeOK, Command
<1>2. n <= d
  BY <1>1 DEF LogInv, Decides, TextAhead
<1>3. SlotOf(n) = scan[p] /\ d <= command_count /\ SlotOf(d) = scan[p]
  BY <1>1, <1>2 DEF LogInv, Decides, TextAhead
<1>4. d = n \/ n + command_buffer <= d
  BY <1>1, <1>2, <1>3, SlotOfInjective
<1> QED BY <1>1, <1>3, <1>4 DEF Texts

\* The text is written before the number.
LEMMA TextAheadStep == ASSUME LogInv, TextAhead, [Next]_vars PROVE TextAhead'
<1>0. /\ command_count \in Nat
      /\ \A s \in Slots : commands[s].command_number \in Nat /\ commands[s].cmd_data \in Nat
  BY DEF LogInv, RingInv, TypeOK, Command
<1>1. CASE UNCHANGED vars
  BY <1>1 DEF vars, TextAhead
<1>2. ASSUME NEW p \in Peers, Send(p) \/ Poll(p) \/ Lifecycle(p) \/ Fault(p)
      PROVE  TextAhead'
  <2>1. CASE SendCount(p) \/ SendAlloc(p)
    <3>1. command_count' = command_count + 1 /\ UNCHANGED commands
      BY <2>1, CountOrAlloc
    <3>2. \A s \in Slots : commands[s].command_number < command_count + 1
      BY <1>0 DEF LogInv, SlotTruth
    <3>3. \A q \in Peers : pc'[q] # "publish"
      BY <1>2, <2>1, WritersAfter
    <3> QED BY <1>0, <3>1, <3>2, <3>3 DEF TextAhead
  <2>2. CASE SendFill(p)
    <3>1. pc[p] = "fill"
      BY <2>2 DEF SendFill
    <3>2. \A q \in Peers : pc'[q] # "fill"
      BY <1>2, <2>2, WritersAfter
    <3>3. commands[SlotOf(command_count)].command_number < command_count
      BY <2>2, <3>1, FillSlot DEF TextAhead
    <3>4. \A s \in Slots : commands'[s].command_number <= commands'[s].cmd_data
      <4> TAKE s \in Slots
      <4>1. commands'[s].command_number = commands[s].command_number
        BY <2>2, FillKeepsHeaders
      <4>2. CASE s = SlotOf(command_count)
        BY <1>0, <2>2, <3>3, <4>1, <4>2, FillSlot
      <4>3. CASE s # SlotOf(command_count)
        BY <2>2, <4>1, <4>3, FillSlot DEF TextAhead
      <4> QED BY <4>2, <4>3
    <3>5. \A s \in Slots : commands'[s].cmd_data > 0 =>
             commands'[s].cmd_data <= command_count /\ SlotOf(commands'[s].cmd_data) = s
      <4> TAKE s \in Slots
      <4>1. CASE s = SlotOf(command_count)
        <5>1. command_count <= command_count
          BY <1>0
        <5> QED BY <2>2, <4>1, <5>1, FillSlot
      <4>2. CASE s # SlotOf(command_count)
        BY <2>2, <4>2, FillSlot DEF TextAhead
      <4> QED BY <4>1, <4>2
    <3> QED BY <2>2, <3>2, <3>4, <3>5, FillSlot DEF TextAhead
  <2>3. CASE SendPublish(p)
    <3>1. command_count' = command_count /\ pc[p] = "publish"
      BY <2>3 DEF SendPublish, Publish
    <3>2. \A q \in Peers : pc'[q] \notin {"fill", "publish"}
      BY <1>2, <2>3, WritersAfter
    <3>3. \A s \in Slots : commands'[s].cmd_data = commands[s].cmd_data
      BY <2>3, TextsUnwritten DEF Send, SendFill, SendPublish, Publish
    <3>4. \A s \in Slots : commands'[s].command_number <= commands'[s].cmd_data
      <4> TAKE s \in Slots
      <4>1. CASE s = SlotOf(command_count)
        BY <1>0, <2>3, <3>1, <3>3, <4>1, PublishSlot DEF TextAhead
      <4>2. CASE s # SlotOf(command_count)
        BY <2>3, <4>2, PublishSlot DEF TextAhead
      <4> QED BY <4>1, <4>2
    <3> QED BY <3>1, <3>2, <3>3, <3>4 DEF TextAhead
  <2>4. CASE ~(SendCount(p) \/ SendAlloc(p) \/ SendFill(p) \/ SendPublish(p))
    <3>1. UNCHANGED <<commands, command_count>>
      BY <1>2, <2>4, LogUntouched, RingUnwritten
    <3>2. \A q \in Peers : /\ pc'[q] = "fill" => pc[q] = "fill"
                           /\ pc'[q] = "publish" => pc[q] = "publish"
      BY <1>2, <2>4, WritersAfter
    <3> QED BY <3>1, <3>2 DEF TextAhead
  <2> QED BY <2>1, <2>2, <2>3, <2>4
<1> QED BY <1>1, <1>2 DEF Next

-----------------------------------------------------------------------------
(* Every step of the ring is a step of the log.                            *)

\* A step of one peer leaves what the log knows of the others alone.
LEMMA OthersStay ==
  ASSUME LogInv, NEW p \in Peers, Send(p) \/ Poll(p) \/ Lifecycle(p) \/ Fault(p)
  PROVE  \A q \in Peers \ {p} : /\ pc'[q] = pc[q]
                                /\ last_command'[q] = last_command[q]
                                /\ handled'[q] = handled[q]
<1> USE DEF LogInv, RingInv, TypeOK, Forget, shared, sending, history
<1>1. CASE Send(p)
  BY <1>1 DEF Send, SendMessage, SendCount, SendFill, SendPublish, Publish, SendAlloc
<1>2. CASE Poll(p)
  BY <1>2 DEF Poll, ProcessCommands, ScanSkip, ScanTake, ScanCheck, ScanHandle, ScanEnd
<1>3. CASE Lifecycle(p) \/ Fault(p)
  BY <1>3 DEF Lifecycle, ConnectSlot, ConnectCursor, Disconnect, Fault, Crash, fix_deadlock
<1> QED BY <1>1, <1>2, <1>3

\* What the refinement mapping makes of the state after a step of p.
LEMMA MappedStep ==
  ASSUME LogInv, TypeOK', NEW p \in Peers, Send(p) \/ Poll(p) \/ Lifecycle(p) \/ Fault(p)
  PROVE  /\ Online(p)' => {q \in Peers : Online(q)}' = {q \in Peers : Online(q)} \cup {p}
         /\ ~Online(p)' => {q \in Peers : Online(q)}' = {q \in Peers : Online(q)} \ {p}
         /\ Deciding(p)' => {q \in Peers : Deciding(q)}' = {q \in Peers : Deciding(q)} \cup {p}
         /\ ~Deciding(p)' => {q \in Peers : Deciding(q)}' = {q \in Peers : Deciding(q)} \ {p}
         /\ (Online(p)' <=> Online(p)) => {q \in Peers : Online(q)}' = {q \in Peers : Online(q)}
         /\ (Deciding(p)' <=> Deciding(p)) =>
              {q \in Peers : Deciding(q)}' = {q \in Peers : Deciding(q)}
         /\ handled' = [handled EXCEPT ![p] = handled'[p]]
         /\ last_command' = [last_command EXCEPT ![p] = last_command'[p]]
<1>1. \A q \in Peers \ {p} : (Online(q)' <=> Online(q)) /\ (Deciding(q)' <=> Deciding(q))
  BY OthersStay DEF Online, Deciding
<1>2. /\ Online(p)' => {q \in Peers : Online(q)}' = {q \in Peers : Online(q)} \cup {p}
      /\ ~Online(p)' => {q \in Peers : Online(q)}' = {q \in Peers : Online(q)} \ {p}
      /\ (Online(p)' <=> Online(p)) => {q \in Peers : Online(q)}' = {q \in Peers : Online(q)}
  BY <1>1
<1>3. /\ Deciding(p)' => {q \in Peers : Deciding(q)}' = {q \in Peers : Deciding(q)} \cup {p}
      /\ ~Deciding(p)' => {q \in Peers : Deciding(q)}' = {q \in Peers : Deciding(q)} \ {p}
      /\ (Deciding(p)' <=> Deciding(p)) =>
           {q \in Peers : Deciding(q)}' = {q \in Peers : Deciding(q)}
  BY <1>1
<1>4. handled' = [handled EXCEPT ![p] = handled'[p]]
  BY OthersStay DEF LogInv, RingInv, TypeOK
<1>5. last_command' = [last_command EXCEPT ![p] = last_command'[p]]
  BY OthersStay DEF LogInv, RingInv, TypeOK
<1> QED BY <1>2, <1>3, <1>4, <1>5

\* A step after which p is as the log knew it is no step of the log.
LEMMA Stutter ==
  ASSUME LogInv, TypeOK', NEW p \in Peers, Send(p) \/ Poll(p) \/ Lifecycle(p) \/ Fault(p),
         posted' = posted, last_command'[p] = last_command[p], handled'[p] = handled[p],
         Online(p)' <=> Online(p), Deciding(p)' <=> Deciding(p)
  PROVE  UNCHANGED Log!logVars
<1>1. /\ {q \in Peers : Online(q)}' = {q \in Peers : Online(q)}
      /\ {q \in Peers : Deciding(q)}' = {q \in Peers : Deciding(q)}
  BY MappedStep
<1>2. handled' = handled
  <2>1. handled \in [Peers -> Seq(Call)] /\ handled' \in [Peers -> Seq(Call)]
    BY DEF LogInv, RingInv, TypeOK
  <2>2. \A q \in Peers : handled'[q] = handled[q]
    BY OthersStay
  <2> QED BY <2>1, <2>2
<1>3. last_command' = last_command
  <2>1. last_command \in [Peers -> Nat] /\ last_command' \in [Peers -> Nat]
    BY DEF LogInv, RingInv, TypeOK
  <2>2. \A q \in Peers : last_command'[q] = last_command[q]
    BY OthersStay
  <2> QED BY <2>1, <2>2
<1> QED BY <1>1, <1>2, <1>3 DEF Log!logVars

\* The end of a process withdraws it from the log.
LEMMA Withdraws ==
  ASSUME LogInv, TypeOK', NEW p \in Peers, Send(p) \/ Poll(p) \/ Lifecycle(p) \/ Fault(p),
         Forget(p), Online(p), pc'[p] \in {"off", "dead"}
  PROVE  Log!Withdraw(p)
<1>1. last_command'[p] = 0 /\ handled'[p] = <<>>
  BY DEF Forget, LogInv, RingInv, TypeOK
<1>2. ~Online(p)' /\ ~Deciding(p)'
  BY DEF Online, Deciding
<1> QED BY <1>1, <1>2, MappedStep DEF Log!Withdraw

\* A post is a post, or the last step of who posts.
LEMMA PostStep ==
  ASSUME LogInv, TypeOK', NEW p \in Peers, SendCount(p) \/ SendAlloc(p)
  PROVE  Log!Post(p, target[p]) \/ Log!PostAndDie(p, target[p])
<1>1. posted' = Append(posted, Log!Entry(p, target[p]))
  BY CountOrAlloc DEF Log!Entry
<1>2. Send(p)
  BY DEF Send
<1>3. Online(p)
  BY DEF SendCount, SendAlloc, Online
<1>4. CASE SendCount(p)
  <2>1. pc'[p] = "fill" /\ pc[p] = "count" /\ last_command' = last_command /\ handled' = handled
    BY <1>4 DEF SendCount, LogInv, RingInv, TypeOK
  <2>2. Online(p)' /\ ~Deciding(p)' /\ ~Deciding(p)
    BY <2>1 DEF Online, Deciding
  <2>3. /\ {q \in Peers : Online(q)}' = {q \in Peers : Online(q)}
        /\ {q \in Peers : Deciding(q)}' = {q \in Peers : Deciding(q)}
    BY <1>2, <1>3, <2>2, MappedStep
  <2> QED BY <1>1, <1>3, <2>1, <2>3 DEF Log!Post
<1>5. CASE SendAlloc(p)
  <2>1. pc'[p] = "dead" /\ Forget(p)
    BY <1>5 DEF SendAlloc, LogInv, RingInv, TypeOK
  <2> QED BY <1>1, <1>2, <1>3, <2>1, Withdraws DEF Log!PostAndDie
<1> QED BY <1>4, <1>5

\* The three steps of a scan that the log sees.  A command is taken...
LEMMA TakeStep ==
  ASSUME LogInv, TypeOK', NEW p \in Peers, ScanTake(p)
  PROVE  Log!Advance(p)
<1>1. Poll(p)
  BY DEF Poll
<1>2. /\ pc[p] = "scan" /\ pc'[p] = "check"
      /\ posted' = posted /\ handled' = handled
  BY DEF ScanTake, history, LogInv, RingInv, TypeOK
<1>3. Online(p) /\ ~Deciding(p) /\ Online(p)' /\ Deciding(p)'
  BY <1>2 DEF Online, Deciding
<1>4. PICK n \in Nat : /\ last_command[p] < n /\ n <= command_count
                       /\ last_command' = [last_command EXCEPT ![p] = n]
  BY TakenIsPosted
<1>5. n \in last_command[p] + 1 .. Len(posted)
  BY <1>4 DEF LogInv, CountIsLog, RingInv, TypeOK
<1>6. /\ {q \in Peers : Online(q)}' = {q \in Peers : Online(q)}
      /\ {q \in Peers : Deciding(q)}' = {q \in Peers : Deciding(q)} \cup {p}
  BY <1>1, <1>3, MappedStep
<1> QED BY <1>2, <1>3, <1>4, <1>5, <1>6 DEF Log!Advance

\* ... it is handled...
LEMMA GiveStep ==
  ASSUME LogInv, TextAhead, TypeOK', NEW p \in Peers, ScanHandle(p)
  PROVE  Log!Give(p)
<1>1. Poll(p)
  BY DEF Poll
<1>2. /\ pc[p] = "handle" /\ pc'[p] = "scan"
      /\ posted' = posted /\ last_command' = last_command
  BY DEF ScanHandle, LogInv, RingInv, TypeOK
<1>3. Online(p) /\ Deciding(p) /\ Online(p)' /\ ~Deciding(p)'
  BY <1>2 DEF Online, Deciding
<1>4. Log!Intact(last_command[p]) => Log!For(p, last_command[p])
  BY <1>2, <1>3 DEF LogInv, Decides, WasFor, CountIsLog, Log!Intact, Log!For
<1> DEFINE d == commands[scan[p]].cmd_data
<1>5. /\ handled'[p] = Append(handled[p], [called |-> last_command[p], cmd_data |-> d])
      /\ d \in {last_command[p]} \cup last_command[p] + command_buffer .. Len(posted)
  BY <1>3, TextOfSlot DEF ScanHandle, Texts, LogInv, RingInv, TypeOK, CountIsLog
<1>6. /\ {q \in Peers : Online(q)}' = {q \in Peers : Online(q)}
      /\ {q \in Peers : Deciding(q)}' = {q \in Peers : Deciding(q)} \ {p}
      /\ handled' = [handled EXCEPT ![p] = Append(handled[p], [called |-> last_command[p], cmd_data |-> d])]
  BY <1>1, <1>3, <1>5, MappedStep
<1> HIDE DEF d
<1> QED BY <1>2, <1>3, <1>4, <1>5, <1>6 DEF Log!Give

\* ... or found to be for somebody else.
LEMMA SkipStep ==
  ASSUME LogInv, TypeOK', NEW p \in Peers, ScanCheck(p), ~Addressed(p, commands[scan[p]])
  PROVE  Log!Skip(p)
<1>1. Poll(p)
  BY DEF Poll
<1>2. /\ pc[p] = "check" /\ pc'[p] = "scan"
      /\ posted' = posted /\ last_command' = last_command /\ handled' = handled
  BY DEF ScanCheck, history, LogInv, RingInv, TypeOK
<1>3. Online(p) /\ Deciding(p) /\ Online(p)' /\ ~Deciding(p)'
  BY <1>2 DEF Online, Deciding
<1>4. Log!Intact(last_command[p]) => ~Log!For(p, last_command[p])
  BY <1>2, <1>3, DecidedSlot DEF LogInv, CountIsLog, WasFor, Log!Intact, Log!For
<1>5. /\ {q \in Peers : Online(q)}' = {q \in Peers : Online(q)}
      /\ {q \in Peers : Deciding(q)}' = {q \in Peers : Deciding(q)} \ {p}
  BY <1>1, <1>3, MappedStep
<1> QED BY <1>2, <1>3, <1>4, <1>5 DEF Log!Skip

\* A process that has read the count reads the log from there.
LEMMA JoinStep ==
  ASSUME LogInv, TypeOK', NEW p \in Peers, ConnectCursor(p)
  PROVE  Log!Join(p)
<1>1. Lifecycle(p)
  BY DEF Lifecycle
<1>2. /\ pc[p] = "cursor" /\ pc'[p] = "idle" /\ posted' = posted /\ handled' = handled
      /\ last_command' = [last_command EXCEPT ![p] = command_count]
  BY DEF ConnectCursor, LogInv, RingInv, TypeOK
<1>3. ~Online(p) /\ Online(p)' /\ ~Deciding(p) /\ ~Deciding(p)'
  BY <1>2 DEF Online, Deciding
<1>4. /\ {q \in Peers : Online(q)}' = {q \in Peers : Online(q)} \cup {p}
      /\ {q \in Peers : Deciding(q)}' = {q \in Peers : Deciding(q)}
  BY <1>1, <1>3, MappedStep
<1> QED BY <1>2, <1>3, <1>4 DEF Log!Join, LogInv, CountIsLog

\* Who ends has left the log, unless it had not joined yet.
LEMMA EndStep ==
  ASSUME LogInv, TypeOK', NEW p \in Peers, Disconnect(p) \/ Crash(p)
  PROVE  Log!Quit(p) \/ UNCHANGED Log!logVars
<1>1. Lifecycle(p) \/ Fault(p)
  BY DEF Lifecycle, Fault
<1>2. /\ Forget(p) /\ posted' = posted /\ pc'[p] \in {"off", "dead"}
      /\ pc[p] \notin {"off", "dead"}
  BY DEF Disconnect, Crash, LogInv, RingInv, TypeOK
<1>3. CASE Online(p)
  BY <1>1, <1>2, <1>3, Withdraws DEF Log!Quit
<1>4. CASE ~Online(p)
  <2>1. /\ last_command'[p] = 0 /\ handled'[p] = <<>>
        /\ last_command[p] = 0 /\ handled[p] = <<>>
    BY <1>2, <1>4 DEF Forget, LogInv, RingInv, TypeOK, CursorBehind, OrderInv, CursorInv
  <2>2. (Online(p)' <=> Online(p)) /\ (Deciding(p)' <=> Deciding(p))
    BY <1>2, <1>4 DEF Online, Deciding
  <2> QED BY <1>1, <1>2, <2>1, <2>2, Stutter
<1> QED BY <1>3, <1>4

\* What the log does not see: waiting for the lock, writing a slot, the parts
\* of a scan that decide nothing, and the lock forced open.
LEMMA HiddenStep ==
  ASSUME LogInv, TypeOK', NEW p \in Peers,
         \/ \E t \in Targets, long \in LongCommands : SendMessage(p, t, long)
         \/ SendFill(p) \/ SendPublish(p)
         \/ ProcessCommands(p) \/ ScanSkip(p) \/ ScanEnd(p)
         \/ ScanCheck(p) /\ Addressed(p, commands[scan[p]])
         \/ ConnectSlot(p) \/ fix_deadlock(p)
  PROVE  UNCHANGED Log!logVars
<1> USE DEF shared, sending, history
<1>1. Send(p) \/ Poll(p) \/ Lifecycle(p) \/ Fault(p)
  BY DEF Send, Poll, Lifecycle, Fault
<1>2. UNCHANGED <<posted, last_command, handled>>
  BY DEF SendMessage, SendFill, SendPublish, Publish, ProcessCommands, ScanSkip, ScanEnd,
         ScanCheck, ConnectSlot, fix_deadlock
<1>3. (Online(p)' <=> Online(p)) /\ (Deciding(p)' <=> Deciding(p))
  <2>1. pc \in [Peers -> PC]
    BY DEF LogInv, RingInv, TypeOK
  <2> QED BY <2>1 DEF SendMessage, SendFill, SendPublish, Publish, ProcessCommands, ScanSkip,
         ScanEnd, ScanCheck, ConnectSlot, fix_deadlock, Online, Deciding
<1> QED BY <1>1, <1>2, <1>3, Stutter

\* Every step of the ring is a step of the log, or none.
LEMMA NextIsLogNext ==
  ASSUME LogInv, TextAhead, TypeOK', [Next]_vars PROVE [Log!LogNext]_(Log!logVars)
<1>1. CASE UNCHANGED vars
  BY <1>1 DEF vars, Log!logVars, Online, Deciding
<1>2. ASSUME NEW p \in Peers, Send(p) \/ Poll(p) \/ Lifecycle(p) \/ Fault(p)
      PROVE  Log!LogNext \/ UNCHANGED Log!logVars
  <2>1. CASE SendCount(p) \/ SendAlloc(p)
    <3>1. target[p] \in Peers \cup {Broadcast}
      BY DEF LogInv, RingInv, TypeOK, Targets
    <3> QED BY <2>1, <3>1, PostStep DEF Log!LogNext
  <2>2. CASE ScanTake(p)
    BY <2>2, TakeStep DEF Log!LogNext
  <2>3. CASE ScanHandle(p)
    BY <2>3, GiveStep DEF Log!LogNext
  <2>4. CASE ScanCheck(p) /\ ~Addressed(p, commands[scan[p]])
    BY <2>4, SkipStep DEF Log!LogNext
  <2>5. CASE ConnectCursor(p)
    BY <2>5, JoinStep DEF Log!LogNext
  <2>6. CASE Disconnect(p) \/ Crash(p)
    BY <2>6, EndStep DEF Log!LogNext
  <2>7. CASE \/ \E t \in Targets, long \in LongCommands : SendMessage(p, t, long)
             \/ SendFill(p) \/ SendPublish(p)
             \/ ProcessCommands(p) \/ ScanSkip(p) \/ ScanEnd(p)
             \/ ScanCheck(p) /\ Addressed(p, commands[scan[p]])
             \/ ConnectSlot(p) \/ fix_deadlock(p)
    BY <2>7, HiddenStep
  <2> QED BY <1>2, <2>1, <2>2, <2>3, <2>4, <2>5, <2>6, <2>7 DEF Send, Poll, Lifecycle, Fault
<1> QED BY <1>1, <1>2 DEF Next

\* While nobody takes the mutex from a live process, simple-ipc keeps what
\* CommandLog promises: a peer goes on only, is given exactly what is for it of
\* the newest command_buffer commands, and of the older ones at worst the text
\* of a later one.
THEOREM RingImplementsLog ==
  ASSUME "unlock" \notin Faults PROVE Spec => ImplementsLog
<1>1. Init => Log!LogInit
  BY DEF Init, Log!LogInit, Online, Deciding
<1>2. LogInv /\ TextAhead /\ LogInv' /\ [Next]_vars => [Log!LogNext]_(Log!logVars)
  BY NextIsLogNext DEF LogInv, RingInv
<1>3. Spec => [](LogInv /\ TextAhead)
  <2>1. Init => TextAhead
    BY DEF Init, TextAhead, EmptyCommand
  <2>2. LogInv /\ TextAhead /\ [Next]_vars => TextAhead'
    BY TextAheadStep
  <2> QED BY <2>1, <2>2, LogInductive, PTL DEF Spec
<1> QED BY <1>1, <1>2, <1>3, PTL DEF Spec, ImplementsLog, Log!LogSpec

-----------------------------------------------------------------------------
(* What the readers do with header and text.                               *)

\* A peer that has passed the test of the header and still finds the text of
\* its command is an addressee.
TextForReader ==
  \A p \in Peers :
    pc[p] = "handle" /\ commands[scan[p]].cmd_data = last_command[p]
      => WasFor(p, last_command[p])

DeliveryInv == LogInv /\ TextAhead /\ TextForReader /\ TextsOfCalls /\ OnlyAddressed /\ NewestHandled

\* Nothing has been posted, handled or written.
LEMMA DeliveryInit == Init => DeliveryInv
<1> SUFFICES ASSUME Init PROVE DeliveryInv
  OBVIOUS
<1>1. TextAhead /\ TextForReader
  BY DEF Init, TextAhead, TextForReader, EmptyCommand
<1>2. TextsOfCalls /\ OnlyAddressed /\ NewestHandled
  BY DEF Init, TextsOfCalls, OnlyAddressed, NewestHandled, Critical
<1> QED BY <1>1, <1>2, LogInvInit DEF DeliveryInv

\* A reader at its handler has been there before, with the same slot and the
\* same command, or has just passed the test of the header.
LEMMA HandlersAfter ==
  ASSUME LogInv, NEW p \in Peers, Send(p) \/ Poll(p) \/ Lifecycle(p) \/ Fault(p),
         NEW q \in Peers, pc'[q] = "handle"
  PROVE  /\ scan'[q] = scan[q] /\ last_command'[q] = last_command[q]
         /\ Deciding(q)
         /\ \/ pc[q] = "handle"
            \/ q = p /\ ScanCheck(p) /\ Addressed(p, commands[scan[p]])
<1> USE DEF shared, sending, history, LogInv, RingInv, TypeOK, Deciding, Forget
<1>1. CASE Send(p)
  BY <1>1 DEF Send, SendMessage, SendCount, SendFill, SendPublish, Publish, SendAlloc
<1>2. CASE Poll(p)
  BY <1>2 DEF Poll, ProcessCommands, ScanSkip, ScanTake, ScanCheck, ScanHandle, ScanEnd
<1>3. CASE Lifecycle(p) \/ Fault(p)
  BY <1>3 DEF Lifecycle, ConnectSlot, ConnectCursor, Disconnect, Fault, Crash, fix_deadlock
<1> QED BY <1>1, <1>2, <1>3

\* The text of the command a reader is at is there as long as its header: when
\* the next command of the slot is written the text goes first.
LEMMA TextForReaderStep ==
  ASSUME LogInv, TextAhead, TextForReader, [Next]_vars PROVE TextForReader'
<1>0. /\ command_count \in Nat /\ last_command \in [Peers -> Nat]
      /\ \A s \in Slots : commands[s].command_number \in Nat /\ commands[s].cmd_data \in Nat
  BY DEF LogInv, RingInv, TypeOK, Command
<1>1. CASE UNCHANGED vars
  BY <1>1 DEF vars, TextForReader, WasFor
<1>2. ASSUME NEW p \in Peers, Send(p) \/ Poll(p) \/ Lifecycle(p) \/ Fault(p)
      PROVE  TextForReader'
  <2> SUFFICES ASSUME NEW q \in Peers, pc'[q] = "handle",
                      commands'[scan'[q]].cmd_data = last_command'[q]
               PROVE  PostedFor(q, last_command'[q])
    BY DEF TextForReader, WasFor, PostedFor
  <2>1. /\ scan'[q] = scan[q] /\ last_command'[q] = last_command[q] /\ Deciding(q)
        /\ \/ pc[q] = "handle"
           \/ q = p /\ ScanCheck(p) /\ Addressed(p, commands[scan[p]])
    BY <1>2, HandlersAfter
  <2>2. scan[q] \in Slots /\ last_command[q] \in 1 .. command_count
    BY <2>1, DecidedSlot
  <2>3. commands[scan[q]].command_number >= last_command[q]
    BY <2>1 DEF LogInv, Decides
  <2>4. commands[scan[q]].cmd_data = last_command[q]
    <3>1. CASE SendFill(p)
      <4>1. commands[scan[q]].command_number < command_count
        BY <2>2, <3>1 DEF SendFill, TextAhead
      <4>2. scan[q] # SlotOf(command_count)
        BY <1>0, <2>1, <2>2, <2>3, <3>1, <4>1, FillSlot
      <4> QED BY <2>1, <2>2, <3>1, <4>2, FillSlot
    <3>2. CASE ~SendFill(p)
      BY <1>2, <2>1, <2>2, <3>2, TextsUnwritten
    <3> QED BY <3>1, <3>2
  <2>5. WasFor(q, last_command[q])
    <3>1. CASE pc[q] = "handle"
      BY <2>4, <3>1 DEF TextForReader
    <3>2. CASE q = p /\ Addressed(p, commands[scan[p]])
      <4>1. commands[scan[q]].command_number = last_command[q]
        BY <1>0, <2>2, <2>3, <2>4 DEF TextAhead
      <4>2. /\ commands[scan[q]].sender = posted[last_command[q]].sender
            /\ commands[scan[q]].target_peer = posted[last_command[q]].target_peer
        BY <1>0, <2>2, <4>1 DEF LogInv, SlotTruth
      <4> QED BY <3>2, <4>2 DEF Addressed, WasFor
    <3> QED BY <2>1, <3>1, <3>2
  <2> QED BY <1>2, <2>1, <2>2, <2>5, WasForStays
<1> QED BY <1>1, <1>2 DEF Next

\* What was handled is in the log.
LEMMA HandledIsPosted ==
  ASSUME LogInv, NEW p \in Peers, NEW i \in 1 .. Len(handled[p])
  PROVE  handled[p][i].called \in 1 .. command_count
<1>1. handled[p] \in Seq(Call) /\ handled[p][i].called \in Nat
  BY CallType DEF LogInv, RingInv
<1>2. Online(p)
  <2>1. Len(handled[p]) # 0
    BY <1>1
  <2> QED BY <2>1 DEF LogInv, OrderInv, CursorInv
<1>3. joined[p] < handled[p][i].called /\ handled[p][i].called <= last_command[p]
  BY <1>2 DEF LogInv, OrderInv, CallsInOrder
<1>4. last_command[p] <= command_count
  BY DEF LogInv, CursorBehind
<1>5. joined[p] \in Nat /\ last_command[p] \in Nat /\ command_count \in Nat
  BY DEF LogInv, RingInv, TypeOK
<1> QED BY <1>1, <1>3, <1>4, <1>5

\* What a step adds to the histories.
LEMMA HistoriesAfter ==
  ASSUME LogInv, NEW p \in Peers, Send(p) \/ Poll(p) \/ Lifecycle(p) \/ Fault(p), NEW q \in Peers
  PROVE  \/ handled'[q] = handled[q]
         \/ handled'[q] = <<>>
         \/ q = p /\ ScanHandle(p)
<1> USE DEF shared, sending, history, LogInv, RingInv, TypeOK, Forget
<1>1. CASE Send(p)
  BY <1>1 DEF Send, SendMessage, SendCount, SendFill, SendPublish, Publish, SendAlloc
<1>2. CASE Poll(p)
  <2>1. CASE q = p
    BY <1>2, <2>1 DEF Poll, ProcessCommands, ScanSkip, ScanTake, ScanCheck, ScanEnd
  <2>2. CASE q # p
    BY <1>2, <2>2, OthersStay
  <2> QED BY <2>1, <2>2
<1>3. CASE Lifecycle(p) \/ Fault(p)
  BY <1>3 DEF Lifecycle, ConnectSlot, ConnectCursor, Disconnect, Fault, Crash, fix_deadlock
<1> QED BY <1>1, <1>2, <1>3

\* The entry that ScanHandle adds, and those before it.
LEMMA HandleAppends ==
  ASSUME LogInv, NEW p \in Peers, ScanHandle(p)
  PROVE  /\ pc[p] = "handle"
         /\ Len(handled[p]) \in Nat
         /\ Len(handled'[p]) = Len(handled[p]) + 1
         /\ \A i \in 1 .. Len(handled[p]) : handled'[p][i] = handled[p][i]
         /\ handled'[p][Len(handled[p]) + 1].called = last_command[p]
         /\ handled'[p][Len(handled[p]) + 1].cmd_data = commands[scan[p]].cmd_data
<1> DEFINE e == [called |-> last_command[p], cmd_data |-> commands[scan[p]].cmd_data]
<1>1. pc[p] = "handle" /\ handled'[p] = Append(handled[p], e)
  BY DEF ScanHandle, LogInv, RingInv, TypeOK
<1>2. handled[p] \in Seq(Call)
  BY CallType DEF LogInv, RingInv
<1>3. e \in Call
  BY <1>1, DecidedSlot DEF Deciding, Call, LogInv, RingInv, TypeOK, Command
<1> HIDE DEF e
<1>4. /\ Len(handled'[p]) = Len(handled[p]) + 1
      /\ \A i \in 1 .. Len(handled[p]) : handled'[p][i] = handled[p][i]
      /\ handled'[p][Len(handled[p]) + 1] = e
  BY <1>1, <1>2, <1>3
<1>5. Len(handled[p]) \in Nat
  BY <1>2
<1>6. e.called = last_command[p] /\ e.cmd_data = commands[scan[p]].cmd_data
  BY DEF e
<1> QED BY <1>1, <1>4, <1>5, <1>6

\* That entry in full.
LEMMA HandledCall ==
  ASSUME LogInv, NEW p \in Peers, ScanHandle(p)
  PROVE  handled'[p][Len(handled[p]) + 1]
           = [called |-> last_command[p], cmd_data |-> commands[scan[p]].cmd_data]
<1> DEFINE e == [called |-> last_command[p], cmd_data |-> commands[scan[p]].cmd_data]
<1>1. pc[p] = "handle" /\ handled'[p] = Append(handled[p], e)
  BY DEF ScanHandle, LogInv, RingInv, TypeOK
<1>2. handled[p] \in Seq(Call)
  BY CallType DEF LogInv, RingInv
<1> HIDE DEF e
<1>3. handled'[p][Len(handled[p]) + 1] = e
  BY <1>1, <1>2
<1> QED BY <1>3 DEF e

\* What a call may find, in the state after the step.
TextsAfter(n) == {n} \cup n + command_buffer .. command_count'

\* The text that a handler reads is that of its command, or of a later one that
\* took the slot.
LEMMA TextsStep ==
  ASSUME LogInv, TextAhead, TextsOfCalls, [Next]_vars PROVE TextsOfCalls'
<1>0. command_count \in Nat /\ command_buffer \in Nat
  BY BufferAssumption DEF LogInv, RingInv, TypeOK
<1>1. CASE UNCHANGED vars
  BY <1>1 DEF vars, TextsOfCalls, Texts
<1>2. ASSUME NEW p \in Peers, Send(p) \/ Poll(p) \/ Lifecycle(p) \/ Fault(p)
      PROVE  TextsOfCalls'
  <2>1. command_count' = command_count \/ command_count' = command_count + 1
    BY <1>2, CountOrAlloc, LogUntouched
  <2>2. ASSUME NEW n \in Nat, NEW d \in Texts(n) PROVE d \in TextsAfter(n)
    BY <1>0, <2>1, <2>2 DEF Texts, TextsAfter
  <2> SUFFICES ASSUME NEW q \in Peers, NEW i \in 1 .. Len(handled'[q])
               PROVE  handled'[q][i].cmd_data \in TextsAfter(handled'[q][i].called)
    BY DEF TextsOfCalls, Texts, TextsAfter
  <2>3. ASSUME i \in 1 .. Len(handled[q]), handled'[q][i] = handled[q][i]
        PROVE  handled'[q][i].cmd_data \in TextsAfter(handled'[q][i].called)
    <3>1. handled[q][i].called \in Nat
      BY <2>3, CallType DEF LogInv, RingInv
    <3>2. handled[q][i].cmd_data \in Texts(handled[q][i].called)
      BY <2>3 DEF TextsOfCalls
    <3> QED BY <2>2, <2>3, <3>1, <3>2
  <2>4. CASE handled'[q] = handled[q]
    BY <2>3, <2>4
  <2>5. CASE handled'[q] = <<>>
    BY <2>5
  <2>6. CASE q = p /\ ScanHandle(p)
    <3>1. CASE i \in 1 .. Len(handled[p])
      BY <2>3, <2>6, <3>1, HandleAppends
    <3>2. CASE i = Len(handled[p]) + 1
      <4>1. Deciding(p)
        BY <2>6, HandleAppends DEF Deciding
      <4>2. last_command[p] \in Nat
        BY DEF LogInv, RingInv, TypeOK
      <4>3. /\ handled'[q][i].called = last_command[p]
            /\ handled'[q][i].cmd_data \in Texts(last_command[p])
        BY <2>6, <3>2, <4>1, HandleAppends, TextOfSlot
      <4> QED BY <2>2, <4>2, <4>3
    <3>3. Len(handled[p]) \in Nat
      BY <2>6, HandleAppends
    <3> QED BY <2>6, <3>1, <3>2, <3>3, HandleAppends
  <2> QED BY <1>2, <2>4, <2>5, <2>6, HistoriesAfter
<1> QED BY <1>1, <1>2 DEF Next

\* A handler that gets the text of its command is that of an addressee.
LEMMA AddressedStep ==
  ASSUME LogInv, TextForReader, OnlyAddressed, [Next]_vars PROVE OnlyAddressed'
<1>1. CASE UNCHANGED vars
  BY <1>1 DEF vars, OnlyAddressed, WasFor
<1>2. ASSUME NEW p \in Peers, Send(p) \/ Poll(p) \/ Lifecycle(p) \/ Fault(p)
      PROVE  OnlyAddressed'
  <2> SUFFICES ASSUME NEW q \in Peers, NEW i \in 1 .. Len(handled'[q]),
                      handled'[q][i].cmd_data = handled'[q][i].called
               PROVE  PostedFor(q, handled'[q][i].called)
    BY DEF OnlyAddressed, WasFor, PostedFor
  <2>1. ASSUME i \in 1 .. Len(handled[q]), handled'[q][i] = handled[q][i]
        PROVE  PostedFor(q, handled'[q][i].called)
    <3>1. handled[q][i].called \in 1 .. command_count
      BY <2>1, HandledIsPosted
    <3>2. WasFor(q, handled[q][i].called)
      BY <2>1 DEF OnlyAddressed
    <3> QED BY <1>2, <2>1, <3>1, <3>2, WasForStays
  <2>2. CASE handled'[q] = handled[q]
    BY <2>1, <2>2
  <2>3. CASE handled'[q] = <<>>
    BY <2>3
  <2>4. CASE q = p /\ ScanHandle(p)
    <3>1. CASE i \in 1 .. Len(handled[p])
      BY <2>1, <2>4, <3>1, HandleAppends
    <3>2. CASE i = Len(handled[p]) + 1
      <4>1. /\ handled'[q][i].called = last_command[p]
            /\ commands[scan[p]].cmd_data = last_command[p]
        BY <2>4, <3>2, HandleAppends
      <4>2. WasFor(p, last_command[p])
        BY <2>4, <4>1, HandleAppends DEF TextForReader
      <4>3. last_command[p] \in 1 .. command_count
        BY <2>4, HandleAppends, DecidedSlot DEF Deciding
      <4> QED BY <1>2, <2>4, <4>1, <4>2, <4>3, WasForStays
    <3>3. Len(handled[p]) \in Nat
      BY <2>4, HandleAppends
    <3> QED BY <2>4, <3>1, <3>2, <3>3, HandleAppends
  <2> QED BY <1>2, <2>2, <2>3, <2>4, HistoriesAfter
<1> QED BY <1>1, <1>2 DEF Next

\* Where a peer has decided about the command at its cursor.
Settled == {"idle", "scan"} \cup Critical

\* A peer that has decided was so before the step, or has decided in it, or has
\* just joined.
LEMMA SettledAfter ==
  ASSUME LogInv, NEW p \in Peers, Send(p) \/ Poll(p) \/ Lifecycle(p) \/ Fault(p),
         NEW q \in Peers, pc'[q] \in Settled
  PROVE  \/ /\ pc[q] \in Settled
            /\ UNCHANGED <<last_command[q], joined[q], handled[q]>>
         \/ q = p /\ ScanHandle(p)
         \/ /\ q = p /\ pc[p] = "check" /\ ~Addressed(p, commands[scan[p]])
            /\ UNCHANGED <<last_command[p], joined[p], handled[p]>>
         \/ last_command'[q] = joined'[q]
<1> USE DEF shared, sending, history, LogInv, RingInv, TypeOK, Forget, Settled, Critical
<1>1. CASE Send(p)
  BY <1>1 DEF Send, SendMessage, SendCount, SendFill, SendPublish, Publish, SendAlloc
<1>2. CASE Poll(p)
  <2>1. CASE q = p
    BY <1>2, <2>1 DEF Poll, ProcessCommands, ScanSkip, ScanTake, ScanCheck, ScanEnd
  <2>2. CASE q # p
    BY <1>2, <2>2 DEF Poll, ProcessCommands, ScanSkip, ScanTake, ScanCheck, ScanHandle, ScanEnd
  <2> QED BY <2>1, <2>2
<1>3. CASE Lifecycle(p) \/ Fault(p)
  BY <1>3 DEF Lifecycle, ConnectSlot, ConnectCursor, Disconnect, Fault, Crash, fix_deadlock
<1> QED BY <1>1, <1>2, <1>3

\* The newest command does not get lost.
LEMMA NewestStep == ASSUME LogInv, TextAhead, NewestHandled, [Next]_vars PROVE NewestHandled'
<1>0. /\ command_count \in Nat /\ last_command \in [Peers -> Nat] /\ joined \in [Peers -> Nat]
  BY DEF LogInv, RingInv, TypeOK
<1>1. CASE UNCHANGED vars
  BY <1>1 DEF vars, NewestHandled, WasFor, Handled
<1>2. ASSUME NEW p \in Peers, Send(p) \/ Poll(p) \/ Lifecycle(p) \/ Fault(p)
      PROVE  NewestHandled'
  <2> SUFFICES ASSUME NEW q \in Peers, pc'[q] \in Settled,
                      last_command'[q] > joined'[q],
                      command_count' < last_command'[q] + command_buffer,
                      PostedFor(q, last_command'[q])
               PROVE  \E i \in 1 .. Len(handled'[q]) :
                        handled'[q][i] = [called |-> last_command'[q], cmd_data |-> last_command'[q]]
    BY DEF NewestHandled, WasFor, PostedFor, Handled, Settled
  <2>1. ASSUME last_command'[q] = last_command[q], last_command[q] \in 1 .. command_count
        PROVE  WasFor(q, last_command[q]) /\ command_count < last_command[q] + command_buffer
    BY <1>2, <2>1, WasForStays
  <2>2. CASE pc[q] \in Settled /\ UNCHANGED <<last_command[q], joined[q], handled[q]>>
    <3>1. last_command[q] \in 1 .. command_count
      BY <1>0, <2>2 DEF LogInv, CursorBehind
    <3>2. Handled(q, last_command[q])
      BY <2>1, <2>2, <3>1 DEF NewestHandled, Settled
    <3> QED BY <2>2, <3>2 DEF Handled
  <2>3. CASE q = p /\ ScanHandle(p)
    <3>1. last_command' = last_command
      BY <2>3 DEF ScanHandle
    <3>2. Len(handled[p]) + 1 \in 1 .. Len(handled'[p])
      BY <2>3, HandleAppends
    <3>3. commands[scan[p]].cmd_data = last_command[p]
      <4>1. Deciding(p)
        BY <2>3, HandleAppends DEF Deciding
      <4>2. last_command[p] \in 1 .. command_count /\ command_count < last_command[p] + command_buffer
        BY <2>1, <2>3, <3>1, <4>1, DecidedSlot
      <4> QED BY <1>0, <4>1, <4>2, TextOfSlot, BufferAssumption DEF Texts
    <3>4. handled'[p][Len(handled[p]) + 1] = [called |-> last_command[p], cmd_data |-> last_command[p]]
      BY <2>3, <3>3, HandledCall
    <3> QED BY <2>3, <3>1, <3>2, <3>4
  <2>4. CASE /\ q = p /\ pc[p] = "check" /\ ~Addressed(p, commands[scan[p]])
             /\ UNCHANGED <<last_command[p], joined[p], handled[p]>>
    <3>1. Deciding(p)
      BY <2>4 DEF Deciding
    <3> QED BY <2>1, <2>4, <3>1, DecidedSlot
  <2>5. CASE last_command'[q] = joined'[q]
    <3>1. TypeOK'
      BY <1>2, TypeStep DEF LogInv, RingInv, Next
    <3>2. joined'[q] \in Nat
      BY <3>1 DEF TypeOK
    <3> QED BY <2>5, <3>2
  <2> QED BY <1>2, <2>2, <2>3, <2>4, <2>5, SettledAfter
<1> QED BY <1>1, <1>2 DEF Next

-----------------------------------------------------------------------------
(* What the handlers can rely on.                                          *)

\* The invariant holds in every reachable state.
LEMMA DeliveryInductive ==
  ASSUME "unlock" \notin Faults PROVE Spec => []DeliveryInv
<1>1. DeliveryInv /\ LogInv' /\ [Next]_vars => DeliveryInv'
  BY TextAheadStep, TextForReaderStep, TextsStep, AddressedStep, NewestStep DEF DeliveryInv
<1>2. Spec => []LogInv
  BY LogInductive
<1> QED BY <1>1, <1>2, DeliveryInit, PTL DEF Spec

\* ProcessCommands goes on only, in number and in text: its handlers are called
\* for increasing numbers and read, from the shared slot and without the lock,
\* the text of the command they are called for or of one that overwrote it.
THEOREM HandlersMoveOnHolds ==
  ASSUME "unlock" \notin Faults PROVE Spec => []HandlersMoveOn
<1>1. DeliveryInv => HandlersMoveOn
  BY DEF DeliveryInv, LogInv, OrderInv, HandlersMoveOn
<1> QED BY <1>1, DeliveryInductive, PTL

\* A handler of ProcessCommands that gets the text posted under its number is
\* that of a peer the command was for, although header and text are read from
\* the shared slot at different times and without the lock.
THEOREM OnlyAddressedHolds ==
  ASSUME "unlock" \notin Faults PROVE Spec => []OnlyAddressed
  BY DeliveryInductive, PTL DEF DeliveryInv

\* ProcessCommands never passes over a command for the peer while it is among
\* the newest command_buffer, however many peers post during the scan.
THEOREM NewestHandledHolds ==
  ASSUME "unlock" \notin Faults PROVE Spec => []NewestHandled
  BY DeliveryInductive, PTL DEF DeliveryInv

=============================================================================
