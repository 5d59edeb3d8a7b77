----------------------------- MODULE CommandLog -----------------------------
(***************************************************************************)
(* What simple-ipc promises its peers (external/simple-ipc, ipcb.hpp),     *)
(* without the ring, the mutex and the scan: a log of commands, of which   *)
(* each peer reads on from where it joined.  A peer may pass over commands *)
(* (the ring is small and its order is not that of the numbers), but it    *)
(* goes on only, and of a command that is among the newest Window it is    *)
(* given exactly what is for it, with the text that was posted.  For an    *)
(* older command it may be given the text of one that is Window or more    *)
(* later, which it may then be given again under its own number.           *)
(***************************************************************************)
EXTENDS Naturals, Sequences

CONSTANTS
  Peers,      \* client ids of the peers
  Broadcast,  \* the target of a command for every peer
  Window      \* how many of the newest commands are certain to be intact

VARIABLES
  log,     \* the commands, in the order of their numbers
  online,  \* the peers that read the log
  cursor,  \* the number of the command each peer has come to
  due,     \* the peers that have yet to decide about that command
  given    \* what each peer's handlers were given: for which number, whose text

logVars == <<log, online, cursor, due, given>>

LogInit ==
  /\ log = <<>>
  /\ online = {}
  /\ cursor = [p \in Peers |-> 0]
  /\ due = {}
  /\ given = [p \in Peers |-> <<>>]

Entry(p, t) == [sender |-> p, target_peer |-> t]

For(p, n) == log[n].sender # p /\ log[n].target_peer \in {p, Broadcast}

Intact(n) == Len(log) < n + Window

Post(p, t) ==
  /\ p \in online
  /\ log' = Append(log, Entry(p, t))
  /\ UNCHANGED <<online, cursor, due, given>>

Join(p) ==
  /\ p \notin online
  /\ online' = online \cup {p}
  /\ cursor' = [cursor EXCEPT ![p] = Len(log)]
  /\ UNCHANGED <<log, due, given>>

Withdraw(p) ==
  /\ p \in online
  /\ online' = online \ {p}
  /\ cursor' = [cursor EXCEPT ![p] = 0]
  /\ due' = due \ {p}
  /\ given' = [given EXCEPT ![p] = <<>>]

Quit(p) == Withdraw(p) /\ UNCHANGED log

\* The number is taken, but the peer does not survive its post.
PostAndDie(p, t) == Withdraw(p) /\ log' = Append(log, Entry(p, t))

\* On to a newer command.
Advance(p) ==
  /\ p \in online \ due
  /\ \E n \in cursor[p] + 1 .. Len(log) : cursor' = [cursor EXCEPT ![p] = n]
  /\ due' = due \cup {p}
  /\ UNCHANGED <<log, online, given>>

Give(p) ==
  /\ p \in due
  /\ Intact(cursor[p]) => For(p, cursor[p])
  /\ \E n \in {cursor[p]} \cup cursor[p] + Window .. Len(log) :
       given' = [given EXCEPT ![p] = Append(@, [called |-> cursor[p], cmd_data |-> n])]
  /\ due' = due \ {p}
  /\ UNCHANGED <<log, online, cursor>>

Skip(p) ==
  /\ p \in due
  /\ Intact(cursor[p]) => ~For(p, cursor[p])
  /\ due' = due \ {p}
  /\ UNCHANGED <<log, online, cursor, given>>

LogNext == \E p \in Peers :
  \/ Join(p) \/ Quit(p) \/ Advance(p) \/ Give(p) \/ Skip(p)
  \/ \E t \in Peers \cup {Broadcast} : Post(p, t) \/ PostAndDie(p, t)

LogSpec == LogInit /\ [][LogNext]_logVars

=============================================================================
