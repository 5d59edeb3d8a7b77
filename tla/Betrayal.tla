------------------------------ MODULE Betrayal ------------------------------
(***************************************************************************)
(* How the bots deal with a player they ignore who kills them: the player  *)
(* list (src/playerlist.cpp), the count of betrayals (src/PlayerTools.cpp),*)
(* the commands they send each other about it (ipc_exec_all of src/ipc.cpp)*)
(* and the stack of commands waiting for the engine (src/hack.cpp).        *)
(*                                                                         *)
(* One player is followed; every bot has an entry for him. Of the IPC ring *)
(* is kept what IpcRing shows of it: a peer handles commands in the order  *)
(* of their numbers, but of those that are under way when it polls it may  *)
(* skip the older ones for good, when a newer one is in a lower slot or    *)
(* has taken theirs; commands to other peers, which are not seen here,     *)
(* move the slots on.  Left out is a slot that is overwritten while a scan *)
(* is at it, whose command may be handled twice.                           *)
(***************************************************************************)
EXTENDS Naturals, FiniteSets, Sequences, SequencesExt

CONSTANTS
    Bots,        \* the bots connected to the IPC server
    Limit,       \* player-tools.betrayal-limit, 2 by default; 0 turns it off
    Sources,     \* the states that the program gives a player by itself
    MaxKills,    \* bound: kills
    MaxChanges   \* bound: changes of the player list

States == {"DEFAULT", "FRIEND", "RAGE", "IPC", "TEXTMODE", "CAT", "PARTY"}

ASSUME BetrayalAssumption ==
    /\ IsFiniteSet(Bots) /\ Limit \in Nat \ {0}
    /\ Sources \subseteq States /\ MaxKills \in Nat /\ MaxChanges \in Nat

VARIABLES
    state,      \* playerlist::data: the state of the player, for each bot
    betrayals,  \* betrayal_list: how often he betrayed the bot
    inbox,      \* commands posted for the bot that it has not polled
    stack,      \* command_stack of the bot, the top last
    own,        \* history: betrayals that the bot counted itself
    warnings,   \* history: how often the bot told the others
    forgiven,   \* history: whether pt_forgive_all was run; at most once
    kills, changes

vars == <<state, betrayals, inbox, stack, own, warnings, forgiven, kills, changes>>

Mark  == "cat_pl_mark_betrayal"
Relay == "cat_ipc_exec_all cat_pl_mark_betrayal"

\* Some of the bots have him in their party, the others know him as a CAT.
Init ==
    /\ state \in [Bots -> {"CAT", "PARTY"}]
    /\ betrayals = [b \in Bots |-> 0] /\ own = betrayals /\ warnings = betrayals
    /\ inbox = [b \in Bots |-> <<>>] /\ stack = inbox
    /\ forgiven = FALSE /\ kills = 0 /\ changes = 0

-----------------------------------------------------------------------------
IsFriendly(s) == s \notin {"RAGE", "DEFAULT", "CAT"}

\* Faulty: a member of the party is taken for a mere user of the cheat.
Gives_PartyToCat(s) ==
    CASE s = "PARTY"    -> {"FRIEND", "CAT"}
      [] s = "IPC"      -> {"FRIEND", "TEXTMODE", "PARTY"}
      [] s = "CAT"      -> {"FRIEND", "IPC", "TEXTMODE", "PARTY"}
      [] s = "DEFAULT"  -> States \ {"DEFAULT"}
      [] OTHER          -> {}

\* The states that a state gives way to when it is not forced.
Gives(s) ==
    CASE s = "TEXTMODE" -> {"IPC", "FRIEND"}
      [] s = "PARTY"    -> {"FRIEND"}
      [] s = "IPC"      -> {"FRIEND", "TEXTMODE", "PARTY"}
      [] s = "CAT"      -> {"FRIEND", "IPC", "TEXTMODE", "PARTY"}
      [] s = "DEFAULT"  -> States \ {"DEFAULT"}
      [] OTHER          -> {}

\* ignoreCathook is on.
ShouldTarget(b) == betrayals[b] > Limit \/ ~(IsFriendly(state[b]) \/ state[b] = "CAT")

\* SendMessage to every peer; a peer skips what it sent itself. Whether the command
\* is handled is seen when it is polled.
Broadcast(queues, b, cmd) ==
    [o \in Bots |-> IF o = b THEN queues[o] ELSE Append(queues[o], cmd)]

\* Faulty: the others are told at the limit and beyond.
OnKilledBy_Beyond(b) ==
    /\ kills < MaxKills /\ kills' = kills + 1
    /\ ~ShouldTarget(b) /\ ~IsFriendly(state[b])
    /\ betrayals' = [betrayals EXCEPT ![b] = @ + 1]
    /\ own' = [own EXCEPT ![b] = @ + 1]
    /\ IF betrayals'[b] >= Limit
       THEN /\ inbox' = Broadcast(inbox, b, Relay)
            /\ warnings' = [warnings EXCEPT ![b] = @ + 1]
       ELSE UNCHANGED <<inbox, warnings>>
    /\ UNCHANGED <<state, stack, forgiven, changes>>

\* The bot was killed by the player. It counts when the player is ignored and is
\* no friend, and tells the others when the count is the limit.
OnKilledBy(b) ==
    /\ kills < MaxKills /\ kills' = kills + 1
    /\ IF ShouldTarget(b) \/ IsFriendly(state[b])
       THEN UNCHANGED <<betrayals, own, inbox, warnings>>
       ELSE /\ betrayals' = [betrayals EXCEPT ![b] = @ + 1]
            /\ own' = [own EXCEPT ![b] = @ + 1]
            /\ IF betrayals'[b] = Limit
               THEN /\ inbox' = Broadcast(inbox, b, Relay)
                    /\ warnings' = [warnings EXCEPT ![b] = @ + 1]
               ELSE UNCHANGED <<inbox, warnings>>
    /\ UNCHANGED <<state, stack, forgiven, changes>>

\* Faulty: a mark is counted like a kill.
Execute_Counts(b, cmd, queues) ==
    /\ inbox' = IF cmd = Relay THEN Broadcast(queues, b, Mark) ELSE queues
    /\ betrayals' = IF cmd = Mark THEN [betrayals EXCEPT ![b] = @ + Limit] ELSE betrayals

\* What the engine does with the command that was on top of the stack.
Execute(b, cmd, queues) ==
    /\ inbox' = IF cmd = Relay THEN Broadcast(queues, b, Mark) ELSE queues
    /\ betrayals' = IF cmd = Mark THEN [betrayals EXCEPT ![b] = Limit] ELSE betrayals

\* What a poll hands over of the commands under way: the newest, in their order;
\* older ones that the scan has passed over are lost. A poll is one step here: a
\* scan that posts overtake while it runs, and which may then pass over one in the
\* middle, is left to IpcRing.
Polled(b) == Suffixes(inbox[b])

\* Faulty: the last command is left on the stack.
PumpEngine_LeavesLast(b, poll) ==
    \E polled \in IF poll THEN Polled(b) ELSE {<<>>} :
      LET pending == stack[b] \o polled
          queues  == IF poll THEN [inbox EXCEPT ![b] = <<>>] ELSE inbox
      IN  /\ IF Len(pending) < 2
             THEN stack' = [stack EXCEPT ![b] = pending] /\ inbox' = queues /\ UNCHANGED betrayals
             ELSE /\ stack' = [stack EXCEPT ![b] = Front(pending)]
                  /\ Execute(b, Last(pending), queues)
          /\ UNCHANGED <<state, own, warnings, forgiven, kills, changes>>

\* The commands that are polled are pushed in their order, then one is popped.
PumpEngine(b, poll) ==
    \E polled \in IF poll THEN Polled(b) ELSE {<<>>} :
      LET pending == stack[b] \o polled
          queues  == IF poll THEN [inbox EXCEPT ![b] = <<>>] ELSE inbox
      IN  /\ IF pending = <<>>
             THEN stack' = stack /\ inbox' = queues /\ UNCHANGED betrayals
             ELSE /\ stack' = [stack EXCEPT ![b] = Front(pending)]
                  /\ Execute(b, Last(pending), queues)
          /\ UNCHANGED <<state, own, warnings, forgiven, kills, changes>>

\* The program learns something about the player: he uses the cheat, is in the
\* party, is a peer, or is suspected of cheating.
ChangeState(b, s) ==
    /\ changes < MaxChanges /\ changes' = changes + 1
    /\ state' = IF s \in Gives(state[b]) THEN [state EXCEPT ![b] = s] ELSE state
    /\ UNCHANGED <<betrayals, inbox, stack, own, warnings, forgiven, kills>>

\* The user sets a state with pl_add_id.
AddId(b, s) ==
    /\ changes < MaxChanges /\ changes' = changes + 1
    /\ state' = [state EXCEPT ![b] = s]
    /\ UNCHANGED <<betrayals, inbox, stack, own, warnings, forgiven, kills>>

\* The user of a bot runs pt_forgive_all.
ForgiveAll(b) ==
    /\ ~forgiven /\ forgiven' = TRUE
    /\ betrayals' = [betrayals EXCEPT ![b] = 0]
    /\ UNCHANGED <<state, inbox, stack, own, warnings, kills, changes>>

Next == \E b \in Bots :
    \/ OnKilledBy(b) \/ ForgiveAll(b)
    \/ \E poll \in BOOLEAN : PumpEngine(b, poll)
    \/ \E s \in Sources : ChangeState(b, s)
    \/ \E s \in States : AddId(b, s)

Spec == Init /\ [][Next]_vars

\* Every bot pumps the engine in every frame, and polls every second.
FairSpec == Spec /\ \A b \in Bots : WF_vars(PumpEngine(b, TRUE))

-----------------------------------------------------------------------------
TypeOK ==
    /\ state \in [Bots -> States]
    /\ betrayals \in [Bots -> Nat] /\ own \in [Bots -> Nat] /\ warnings \in [Bots -> Nat]
    /\ inbox \in [Bots -> Seq({Mark, Relay})] /\ stack \in [Bots -> Seq({Mark, Relay})]
    /\ forgiven \in BOOLEAN /\ kills \in Nat /\ changes \in Nat

\* What other bots say never turns a bot on a player by itself: the count goes
\* beyond the limit by one, and only for a kill the bot has counted.
HearsayNeverTurns == \A b \in Bots :
    betrayals[b] > Limit => betrayals[b] = Limit + 1 /\ own[b] > 0

\* A bot warns the others once, and once more if it forgave; being marked by
\* others, which sets the count back to the limit, never makes it warn again.
WarnsOnce == \A b \in Bots : warnings[b] <= IF forgiven THEN 2 ELSE 1

\* What the program learns by itself never makes an enemy of a friend, in
\* whatever order it learns it.
FriendlyStays == [][\A b \in Bots, s \in Sources :
    ChangeState(b, s) /\ IsFriendly(state[b]) => IsFriendly(state'[b])]_vars

\* When the killing is over the commands about it come to an end, although every
\* bot that is told tells all others.
StormEnds == <>[](\A b \in Bots : inbox[b] = <<>> /\ stack[b] = <<>>)

=============================================================================
