------------------------------ MODULE IpcRing ------------------------------
(***************************************************************************)
(* The command ring of simple-ipc (external/simple-ipc, ipcb.hpp) as       *)
(* cathook's game processes use it (src/ipc.cpp).  A peer posts a command  *)
(* with SendMessage, holding the shared mutex; every second the game loop  *)
(* of each peer calls HasCommands and ProcessCommands, which scan the ring *)
(* without the mutex.                                                      *)
(*                                                                         *)
(* Every process runs SendMessage, ProcessCommands, Connect and ~Peer on   *)
(* its game thread, so one program counter per peer is enough.  Peers are  *)
(* named by their slot (client_id); allocation of the slots is modelled in *)
(* IpcPeers.  A slot that is left and taken again is a new process.        *)
(***************************************************************************)
EXTENDS Naturals, Sequences

CONSTANTS
  Peers,           \* client ids of the peers
  Broadcast,       \* target_peer = -1: the command is for every peer
  Nobody,          \* owner of the unlocked mutex
  command_buffer,  \* number of slots of the ring
  MaxCommands,     \* bound on the commands posted in a behaviour
  Faults           \* which of the faults below the environment may inject

\* "crash": a game process is killed; "payload": a command that needs the
\* shared pool is posted; "rescue": somebody runs ipc_fix_deadlock after the
\* owner of the mutex was killed; "unlock": somebody runs it at any time.
FaultKinds == {"crash", "payload", "rescue", "unlock"}

ASSUME BufferAssumption == command_buffer \in Nat \ {0}
ASSUME BoundAssumption == MaxCommands \in Nat
ASSUME NameAssumption == Broadcast \notin Peers /\ Nobody \notin Peers
ASSUME FaultAssumption == Faults \subseteq FaultKinds

VARIABLES
  mutex,          \* owner of IPCMemory::mutex
  command_count,  \* IPCMemory::command_count
  commands,       \* IPCMemory::commands
  last_command,   \* Peer::last_command of every peer
  pc,             \* where the game thread of every peer is
  cmd,            \* SendMessage: the count that selected the slot it fills
  target,         \* SendMessage: the argument peer_id
  scan,           \* ProcessCommands: the loop index
  joined,         \* history: where the cursor of each peer started
  posted,         \* history: what was posted under each number
  lost,           \* history: the numbers whose writer died before publishing
  handled         \* history: the calls of each peer's command handlers

shared == <<mutex, command_count, commands>>
sending == <<cmd, target>>
history == <<joined, posted, lost, handled>>
vars == <<mutex, command_count, commands, last_command, pc, cmd, target,
          scan, joined, posted, lost, handled>>

Slots == 0 .. command_buffer - 1
SlotOf(n) == n % command_buffer
Targets == Peers \cup {Broadcast}

\* A slot of the ring.  cmd_data stands for the text of the command: it is the
\* number under which that text was posted, 0 for none.  The type needs no
\* field: every command that gets to be published is an execute_client_cmd.
Command == [command_number : Nat, sender : Peers \cup {Nobody},
            target_peer : Targets, cmd_data : Nat]
EmptyCommand == [command_number |-> 0, sender |-> Nobody,
                 target_peer |-> Broadcast, cmd_data |-> 0]

\* A call of a handler: the cursor, which is the number it was called for, and
\* the text it read.
Call == [called : Nat, cmd_data : Nat]

\* The places of the game thread inside the mutex.
Critical == {"count", "alloc", "fill", "publish"}
PC == Critical \cup {"off", "cursor", "idle", "scan", "check", "handle", "dead"}

TypeOK ==
  /\ mutex \in Peers \cup {Nobody}
  /\ command_count \in Nat
  /\ commands \in [Slots -> Command]
  /\ last_command \in [Peers -> Nat]
  /\ pc \in [Peers -> PC]
  /\ cmd \in [Peers -> Nat]
  /\ target \in [Peers -> Targets]
  /\ scan \in [Peers -> 0 .. command_buffer]
  /\ joined \in [Peers -> Nat]
  /\ posted \in Seq([sender : Peers, target_peer : Targets])
  /\ lost \subseteq Nat
  /\ handled \in [Peers -> Seq(Call)]

Online(p) == pc[p] \notin {"off", "cursor", "dead"}

\* The commands of the ring are zeroed by the manager.
Init ==
  /\ mutex = Nobody
  /\ command_count = 0
  /\ commands = [s \in Slots |-> EmptyCommand]
  /\ last_command = [p \in Peers |-> 0]
  /\ pc = [p \in Peers |-> "off"]
  /\ cmd = [p \in Peers |-> 0]
  /\ target = [p \in Peers |-> Broadcast]
  /\ scan = [p \in Peers |-> 0]
  /\ joined = [p \in Peers |-> 0]
  /\ posted = <<>>
  /\ lost = {}
  /\ handled = [p \in Peers |-> <<>>]

-----------------------------------------------------------------------------
(* Joining and leaving.                                                    *)

\* The locals of a process and the history of its handlers go with it.
Forget(p) ==
  /\ last_command' = [last_command EXCEPT ![p] = 0]
  /\ cmd' = [cmd EXCEPT ![p] = 0]
  /\ target' = [target EXCEPT ![p] = Broadcast]
  /\ scan' = [scan EXCEPT ![p] = 0]
  /\ joined' = [joined EXCEPT ![p] = 0]
  /\ handled' = [handled EXCEPT ![p] = <<>>]

\* A new process takes slot p under the mutex...
ConnectSlot(p) ==
  /\ pc[p] = "off"
  /\ mutex = Nobody
  /\ pc' = [pc EXCEPT ![p] = "cursor"]
  /\ UNCHANGED <<shared, last_command, sending, scan, history>>

\* ... and, after the unlock, skips the commands that are already there
\* (process_old_commands is false for every peer of ipc.cpp).
ConnectCursor(p) ==
  /\ pc[p] = "cursor"
  /\ pc' = [pc EXCEPT ![p] = "idle"]
  /\ last_command' = [last_command EXCEPT ![p] = command_count]
  /\ joined' = [joined EXCEPT ![p] = command_count]
  /\ UNCHANGED <<shared, sending, scan, posted, lost, handled>>

\* ~Peer of a peer that is not the manager: its slot is freed under the mutex.
Disconnect(p) ==
  /\ pc[p] = "idle"
  /\ mutex = Nobody
  /\ pc' = [pc EXCEPT ![p] = "off"]
  /\ Forget(p)
  /\ UNCHANGED <<shared, posted, lost>>

-----------------------------------------------------------------------------
(* SendMessage.                                                            *)

\* The scoped_lock.  A long command carries a payload for the shared pool.
SendMessage(p, t, long) ==
  /\ pc[p] = "idle"
  /\ command_count < MaxCommands
  /\ mutex = Nobody
  /\ mutex' = p
  /\ target' = [target EXCEPT ![p] = t]
  /\ pc' = [pc EXCEPT ![p] = IF long THEN "alloc" ELSE "count"]
  /\ UNCHANGED <<command_count, commands, last_command, cmd, scan, history>>

\* Mutant: command_count++ selects the slot.
SendCount_PostIncrement(p) ==
  /\ pc[p] = "count"
  /\ command_count' = command_count + 1
  /\ cmd' = [cmd EXCEPT ![p] = command_count]
  /\ posted' = Append(posted, [sender |-> p, target_peer |-> target[p]])
  /\ pc' = [pc EXCEPT ![p] = "fill"]
  /\ UNCHANGED <<mutex, commands, last_command, target, scan, joined, lost, handled>>

\* ++command_count selects the slot.
SendCount(p) ==
  /\ pc[p] = "count"
  /\ command_count' = command_count + 1
  /\ cmd' = [cmd EXCEPT ![p] = command_count + 1]
  /\ posted' = Append(posted, [sender |-> p, target_peer |-> target[p]])
  /\ pc' = [pc EXCEPT ![p] = "fill"]
  /\ UNCHANGED <<mutex, commands, last_command, target, scan, joined, lost, handled>>

\* Mutant: the number is published with the text, before the header.
SendFill_NumberFirst(p) ==
  /\ pc[p] = "fill"
  /\ commands' = [commands EXCEPT ![SlotOf(cmd[p])] =
                    [@ EXCEPT !.cmd_data = cmd[p], !.command_number = cmd[p]]]
  /\ pc' = [pc EXCEPT ![p] = "publish"]
  /\ UNCHANGED <<mutex, command_count, last_command, sending, scan, history>>

\* The text of the command is copied first...
SendFill(p) ==
  /\ pc[p] = "fill"
  /\ commands' = [commands EXCEPT ![SlotOf(cmd[p])].cmd_data = cmd[p]]
  /\ pc' = [pc EXCEPT ![p] = "publish"]
  /\ UNCHANGED <<mutex, command_count, last_command, sending, scan, history>>

Publish(p, n) ==
  /\ pc[p] = "publish"
  /\ commands' = [commands EXCEPT ![SlotOf(cmd[p])] =
                    [@ EXCEPT !.sender = p, !.target_peer = target[p], !.command_number = n]]
  /\ mutex' = Nobody
  /\ pc' = [pc EXCEPT ![p] = "idle"]
  /\ cmd' = [cmd EXCEPT ![p] = 0]
  /\ target' = [target EXCEPT ![p] = Broadcast]
  /\ UNCHANGED <<command_count, last_command, scan, history>>

\* Mutant: the number before the increment.
SendPublish_StaleNumber(p) == Publish(p, command_count - 1)

\* ... then the header and, last of all, the number, and the lock is left.
SendPublish(p) == Publish(p, command_count)

\* A payload is copied to the shared pool.  ChipBlock copies a PoolBlock from
\* p_new_block, which is an offset into the pool and not an address: the
\* process dies there, inside the mutex.  The count is already incremented.
SendAlloc(p) ==
  /\ pc[p] = "alloc"
  /\ command_count' = command_count + 1
  /\ posted' = Append(posted, [sender |-> p, target_peer |-> target[p]])
  /\ lost' = lost \cup {command_count + 1}
  /\ pc' = [pc EXCEPT ![p] = "dead"]
  /\ Forget(p)
  /\ UNCHANGED <<mutex, commands>>

-----------------------------------------------------------------------------
(* PumpEngine polls the ring; ProcessCommands does not take the mutex.     *)

HasCommands(p) == last_command[p] # command_count

ProcessCommands(p) ==
  /\ pc[p] = "idle"
  /\ HasCommands(p)
  /\ pc' = [pc EXCEPT ![p] = "scan"]
  /\ UNCHANGED <<shared, last_command, sending, scan, history>>

\* Mutant: the command at the cursor is new.
Seen_Strict(p, n) == n < last_command[p]

\* A command that this peer has passed already.
Seen(p, n) == n <= last_command[p]

ScanSkip(p) ==
  /\ pc[p] = "scan"
  /\ scan[p] < command_buffer
  /\ Seen(p, commands[scan[p]].command_number)
  /\ scan' = [scan EXCEPT ![p] = @ + 1]
  /\ UNCHANGED <<shared, last_command, pc, sending, history>>

\* Mutant: the cursor jumps to the last command posted.
ScanTake_JumpsToCount(p) ==
  /\ pc[p] = "scan"
  /\ scan[p] < command_buffer
  /\ ~Seen(p, commands[scan[p]].command_number)
  /\ last_command' = [last_command EXCEPT ![p] = command_count]
  /\ pc' = [pc EXCEPT ![p] = "check"]
  /\ UNCHANGED <<shared, scan, sending, history>>

ScanTake(p) ==
  /\ pc[p] = "scan"
  /\ scan[p] < command_buffer
  /\ ~Seen(p, commands[scan[p]].command_number)
  /\ last_command' = [last_command EXCEPT ![p] = commands[scan[p]].command_number]
  /\ pc' = [pc EXCEPT ![p] = "check"]
  /\ UNCHANGED <<shared, scan, sending, history>>

\* Mutant: a peer does not ignore its own commands.
Addressed_Echo(p, c) == c.target_peer \in {p, Broadcast}

\* The header is read again from the shared slot: a peer ignores its own
\* commands and those for another peer.
Addressed(p, c) == c.sender # p /\ c.target_peer \in {p, Broadcast}

ScanCheck(p) ==
  /\ pc[p] = "check"
  /\ IF Addressed(p, commands[scan[p]])
       THEN /\ pc' = [pc EXCEPT ![p] = "handle"]
            /\ UNCHANGED scan
       ELSE /\ pc' = [pc EXCEPT ![p] = "scan"]
            /\ scan' = [scan EXCEPT ![p] = @ + 1]
  /\ UNCHANGED <<shared, last_command, sending, history>>

\* The handler gets a reference to the shared slot: it reads the text that is
\* there now, which need not be that of the number it is called for.
ScanHandle(p) ==
  /\ pc[p] = "handle"
  /\ handled' = [handled EXCEPT ![p] =
                   Append(@, [called |-> last_command[p],
                              cmd_data |-> commands[scan[p]].cmd_data])]
  /\ scan' = [scan EXCEPT ![p] = @ + 1]
  /\ pc' = [pc EXCEPT ![p] = "scan"]
  /\ UNCHANGED <<shared, last_command, sending, joined, posted, lost>>

ScanEnd(p) ==
  /\ pc[p] = "scan"
  /\ scan[p] = command_buffer
  /\ pc' = [pc EXCEPT ![p] = "idle"]
  /\ scan' = [scan EXCEPT ![p] = 0]
  /\ UNCHANGED <<shared, last_command, sending, history>>

-----------------------------------------------------------------------------
(* Faults.                                                                 *)

\* A game process is killed; the mutex is not robust and stays with it, and so
\* does what it has written of a command.
Crash(p) ==
  /\ "crash" \in Faults
  /\ pc[p] \notin {"off", "dead"}
  /\ pc' = [pc EXCEPT ![p] = "dead"]
  /\ lost' = lost \cup {n \in {cmd[p]} : pc[p] \in {"fill", "publish"}}
  /\ Forget(p)
  /\ UNCHANGED <<shared, posted>>

\* The command ipc_fix_deadlock unlocks the mutex whoever owns it; when it is
\* run is up to the users.
fix_deadlock(p) ==
  /\ pc[p] = "idle"
  /\ mutex # Nobody
  /\ "unlock" \in Faults \/ ("rescue" \in Faults /\ pc[mutex] = "dead")
  /\ mutex' = Nobody
  /\ UNCHANGED <<command_count, commands, last_command, pc, sending, scan, history>>

-----------------------------------------------------------------------------
LongCommands == IF "payload" \in Faults THEN BOOLEAN ELSE {FALSE}

Send(p) ==
  \/ \E t \in Targets, long \in LongCommands : SendMessage(p, t, long)
  \/ SendCount(p) \/ SendFill(p) \/ SendPublish(p) \/ SendAlloc(p)

Poll(p) ==
  \/ ProcessCommands(p)
  \/ ScanSkip(p) \/ ScanTake(p) \/ ScanCheck(p) \/ ScanHandle(p) \/ ScanEnd(p)

Lifecycle(p) == ConnectSlot(p) \/ ConnectCursor(p) \/ Disconnect(p)

Fault(p) == Crash(p) \/ fix_deadlock(p)

Next == \E p \in Peers : Send(p) \/ Poll(p) \/ Lifecycle(p) \/ Fault(p)

Spec == Init /\ [][Next]_vars

\* The game loop keeps polling, a thread inside SendMessage or Connect keeps
\* running; nothing obliges a peer to connect, to leave or to post.
Posting(p) == SendCount(p) \/ SendFill(p) \/ SendPublish(p) \/ SendAlloc(p)
Fairness == \A p \in Peers : /\ WF_vars(Poll(p))
                             /\ WF_vars(Posting(p))
                             /\ WF_vars(ConnectCursor(p))
FairSpec == Spec /\ Fairness

-----------------------------------------------------------------------------
(* Properties.                                                             *)

\* At most one game thread is between lock and unlock of SendMessage, and it
\* is the owner of the mutex ("must be locked every time you access
\* IPCMemory", ipcb.hpp).
MutualExclusion == \A p \in Peers : pc[p] \in Critical => mutex = p

\* Whenever nobody is posting, each of the last command_buffer commands is in
\* the slot of its number, unless its own writer died on it: no two posts ever
\* share a number or overwrite a slot that is not the oldest, and a post that
\* dies in the mutex, killed or over its payload, costs one command and leaves
\* the ring in order for those who post after ipc_fix_deadlock.
RingHoldsLatest ==
  mutex = Nobody =>
    \A n \in 1 .. command_count :
      n + command_buffer > command_count
        => commands[SlotOf(n)].command_number = n \/ n \in lost

\* The handlers of a peer are called for numbers that strictly increase, that
\* are newer than the peer itself and not beyond its cursor.
CallsInOrder ==
  \A p \in Peers :
    Online(p) =>
      LET h == handled[p] IN
      /\ \A i \in 1 .. Len(h) : joined[p] < h[i].called /\ h[i].called <= last_command[p]
      /\ \A i, j \in 1 .. Len(h) : i < j => h[i].called < h[j].called

\* What a call for number n may find in the slot: the text of n, or that of a
\* later command that has overwritten it.
Texts(n) == {n} \cup n + command_buffer .. command_count

TextsOfCalls ==
  \A p \in Peers : \A i \in 1 .. Len(handled[p]) :
    handled[p][i].cmd_data \in Texts(handled[p][i].called)

\* Text and number of a slot are read at different times and without the lock,
\* and still no handler is given an old text under a new number: a command that
\* a peer has passed does not come back, whatever overwrites the ring during
\* the scan.  A handler may be given the text of a later command ahead of those
\* before it, and once more when the scan comes to the number of that command.
HandlersMoveOn == CallsInOrder /\ TextsOfCalls

WasFor(p, n) == posted[n].sender # p /\ posted[n].target_peer \in {p, Broadcast}
Handled(p, n) == \E i \in 1 .. Len(handled[p]) : handled[p][i] = [called |-> n, cmd_data |-> n]

\* A handler that gets the text posted under the number it was called for is
\* the handler of an addressee of that command.
OnlyAddressed ==
  \A p \in Peers : \A i \in 1 .. Len(handled[p]) :
    LET h == handled[p][i] IN
    h.cmd_data = h.called => WasFor(p, h.called)

\* The command at the cursor of a peer reached its handlers, with its own text,
\* if it was addressed to the peer and has not been overwritten since: the newest
\* command is never lost, however the scan and the posts interleave.
NewestHandled ==
  \A p \in Peers :
    LET n == last_command[p] IN
    /\ pc[p] \in {"idle", "scan"} \cup Critical
    /\ n > joined[p]
    /\ command_count < n + command_buffer
    /\ WasFor(p, n)
    => Handled(p, n)

\* A connected peer that has commands catches up with command_count or leaves.
CatchesUp ==
  \A p \in Peers :
    (Online(p) /\ HasCommands(p)) ~> (~Online(p) \/ ~HasCommands(p))

\* ProcessCommands "processes every command with command_number higher than
\* this peer's last_command" (ipcb.hpp): what it passed and the ring still
\* holds was handled.
EveryCommandProcessed ==
  \A p \in Peers : pc[p] = "idle" =>
    \A n \in joined[p] + 1 .. last_command[p] :
      /\ commands[SlotOf(n)].command_number = n
      /\ WasFor(p, n)
      => Handled(p, n)

-----------------------------------------------------------------------------
(* The promise of the ring.                                                *)

Deciding(p) == pc[p] \in {"check", "handle"}

\* The log is what was posted; a peer that took a slot in its scan is due.
Log == INSTANCE CommandLog WITH
         Window <- command_buffer,
         log    <- posted,
         online <- {p \in Peers : Online(p)},
         cursor <- last_command,
         due    <- {p \in Peers : Deciding(p)},
         given  <- handled

\* The ring is a log: while nobody forces the mutex, every step of writers and
\* of scans without a lock is a step of CommandLog, or none.
ImplementsLog == Log!LogSpec

=============================================================================
