---------------------------- MODULE QuitElection ----------------------------
(***************************************************************************)
(* How the bots of a match decide which of them leaves when there are too  *)
(* many (hacks/CatBot.cpp, update).  Once a second each bot counts the     *)
(* players its player list holds for bots; from abandon_if_ipc_bots_gte on *)
(* it leaves, unless one of them has a lower slot in the peer table: then  *)
(* it waits, and after ten seconds puts that slot on its blacklist.        *)
(*                                                                         *)
(* Time is counted in seconds; every running game in a match runs update   *)
(* once in each (timer_abandon), in any order.  A bot that leaves stays    *)
(* visible to the others for a while.  Slots are taken as in IpcPeers.     *)
(***************************************************************************)
EXTENDS Naturals, FiniteSets, FiniteSetsExt

CONSTANTS
  Bots,       \* the accounts (friendid) of the bots, named by their first slots
  None,       \* no account, no slot
  Policies,   \* the sets of bots that may have requeue_without_abandon
  max_peers,  \* slots of the peer table
  Limit,      \* abandon_if_ipc_bots_gte
  WarmUp,     \* seconds after level_init without an election: 13 in the code
  ListPeriod, \* seconds between two updates of the player list: 10 in the code
  Patience,   \* seconds a bot waits for another one to leave: 10 in the code
  Lag,        \* seconds a bot that has left may stay visible
  MaxArrivals,\* bound on joins and level changes in a behaviour
  MaxMishaps  \* bound on killed games, kicks and party members in a behaviour

Slots == 0 .. max_peers - 1

ASSUME NoneAssumption == Bots \subseteq Slots /\ None \notin Slots
ASSUME PoliciesAssumption == Policies \subseteq SUBSET Bots
ASSUME LimitAssumption == Limit \in Nat \ {0}
ASSUME SecondsAssumption ==
  /\ WarmUp \in Nat /\ Patience \in Nat /\ Lag \in Nat
  /\ ListPeriod \in Nat
  /\ Lag < WarmUp /\ ListPeriod < WarmUp
ASSUME BoundsAssumption ==
  max_peers \in Nat /\ MaxArrivals \in Nat /\ MaxMishaps \in Nat

VARIABLES
  stubborn,   \* the bots with requeue_without_abandon; never changes
  occupant,   \* IPCMemory: the friendid in each slot that is not free
  slot,       \* ipc::peer->client_id, None without a running game
  place,      \* where the server has each bot: "away", "playing" or "leaving"
  age,        \* playing: seconds since level_init; leaving: since the abandon
  listed,     \* playerlist: the accounts with state IPC or TEXTMODE
  friends,    \* playerlist: the accounts with state PARTY or FRIEND
  waiting,    \* waiting_for_quit_bool
  waited,     \* waiting_for_quit_timer, in seconds
  blacklist,  \* ipc_blacklist
  ran,        \* the bots whose update ran in this second
  arrivals, mishaps, \* used up of the bounds
  awaited,    \* history: the slot that each bot's wait began for
  gaveUp      \* history: some bot was put on a blacklist

table == <<occupant, slot>>
match == <<place, age>>
list == <<listed, friends>>
election == <<waiting, waited, blacklist, awaited, gaveUp>>
budget == <<arrivals, mishaps>>
vars == <<stubborn, occupant, slot, place, age, listed, friends, waiting, waited, blacklist,
          ran, arrivals, mishaps, awaited, gaveUp>>

TypeOK ==
  /\ stubborn \in Policies
  /\ occupant \in [Slots -> Bots \cup {None}]
  /\ slot \in [Bots -> Slots \cup {None}]
  /\ place \in [Bots -> {"away", "playing", "leaving"}]
  /\ age \in [Bots -> 0 .. WarmUp]
  /\ listed \in [Bots -> SUBSET Bots] /\ friends \in [Bots -> SUBSET Bots]
  /\ waiting \in [Bots -> BOOLEAN]
  /\ waited \in [Bots -> 0 .. Patience]
  /\ blacklist \in [Bots -> SUBSET Slots]
  /\ ran \subseteq Bots
  /\ arrivals \in 0 .. MaxArrivals
  /\ mishaps \in 0 .. MaxMishaps
  /\ awaited \in [Bots -> Slots \cup {None}]
  /\ gaveUp \in BOOLEAN
  \* two running games never share a slot, and a slot in use carries its account
  /\ \A b \in Bots : slot[b] # None => occupant[slot[b]] = b

\* The games have started and nobody is in a match yet.
Init ==
  /\ stubborn \in Policies
  /\ occupant = [s \in Slots |-> IF s \in Bots THEN s ELSE None]
  /\ slot = [b \in Bots |-> b]
  /\ place = [b \in Bots |-> "away"]
  /\ age = [b \in Bots |-> 0]
  /\ listed = [b \in Bots |-> {}] /\ friends = listed
  /\ waiting = [b \in Bots |-> FALSE]
  /\ waited = [b \in Bots |-> 0]
  /\ blacklist = [b \in Bots |-> {}]
  /\ ran = {}
  /\ arrivals = 0 /\ mishaps = 0
  /\ awaited = [b \in Bots |-> None]
  /\ gaveUp = FALSE

-----------------------------------------------------------------------------
(* The table and the match.                                                *)

FreeSlots == {s \in Slots : occupant[s] = None}

\* A game starts: it takes the first free slot and stores its account there.
Connect(b) ==
  /\ slot[b] = None
  /\ place[b] = "away"
  /\ FreeSlots # {}
  /\ slot' = [slot EXCEPT ![b] = Min(FreeSlots)]
  /\ occupant' = [occupant EXCEPT ![Min(FreeSlots)] = b]
  /\ UNCHANGED <<stubborn, match, list, ran, election, budget>>

\* A game is killed.  Its slot stays taken and the server keeps its player.
Crash(b) ==
  /\ mishaps < MaxMishaps
  /\ slot[b] # None
  /\ mishaps' = mishaps + 1
  /\ slot' = [slot EXCEPT ![b] = None]
  /\ listed' = [listed EXCEPT ![b] = {}]
  /\ waiting' = [waiting EXCEPT ![b] = FALSE]
  /\ waited' = [waited EXCEPT ![b] = 0]
  /\ blacklist' = [blacklist EXCEPT ![b] = {}]
  /\ awaited' = [awaited EXCEPT ![b] = None]
  /\ UNCHANGED <<stubborn, occupant, match, friends, ran, arrivals, gaveUp>>

\* The ipc server frees the slot of a game that is gone, once its heartbeat is
\* ten seconds old; a player that was leaving is no longer visible then.
Sweep(s) ==
  /\ occupant[s] # None
  /\ \A b \in Bots : slot[b] # s
  /\ place[occupant[s]] # "leaving"
  /\ occupant' = [occupant EXCEPT ![s] = None]
  /\ UNCHANGED <<stubborn, slot, match, list, ran, election, budget>>

Visible == {b \in Bots : place[b] # "away"}
Running(b) == place[b] = "playing" /\ slot[b] # None

\* A bot gets into the match, or its match gets another map.  What the
\* election keeps of the last match is not reset by level_init.
LevelInit(b) ==
  /\ arrivals < MaxArrivals
  /\ slot[b] # None
  /\ place[b] # "leaving"
  /\ arrivals' = arrivals + 1
  /\ place' = [place EXCEPT ![b] = "playing"]
  /\ age' = [age EXCEPT ![b] = 0]
  /\ UNCHANGED <<stubborn, table, list, ran, election, mishaps>>

Drop(b) ==
  /\ place' = [place EXCEPT ![b] = "away"]
  /\ age' = [age EXCEPT ![b] = 0]
  /\ UNCHANGED <<stubborn, table, list, ran, election, arrivals>>

\* The server drops a player that left, or whose game was killed...
Vanish(b) == b \in Visible /\ ~Running(b) /\ Drop(b) /\ UNCHANGED mishaps

\* ... or kicks one, which is all the same to its election.
Kick(b) == Running(b) /\ mishaps < MaxMishaps /\ Drop(b) /\ mishaps' = mishaps + 1

-----------------------------------------------------------------------------
(* The election.                                                           *)

Occupants == {occupant[s] : s \in Slots \ FreeSlots}

\* Both have been in the match for the period of UpdatePlayerlist.
Acquainted(b, c) ==
  c \in Visible /\ \A x \in {b, c} : place[x] = "playing" => age[x] >= ListPeriod

\* Whoever comes into the party of a bot, or is made a friend by its user, is no
\* bot in its list any more, and will not be one again; a game that is started
\* again learns its party before it votes.
Befriend(b, c) ==
  /\ mishaps < MaxMishaps /\ mishaps' = mishaps + 1
  /\ slot[b] # None /\ c # b
  /\ listed' = [listed EXCEPT ![b] = @ \ {c}]
  /\ friends' = [friends EXCEPT ![b] = @ \cup {c}]
  /\ UNCHANGED <<stubborn, table, match, election, ran, arrivals>>

\* Once in ListPeriod seconds: whoever has a slot and is no friend is a bot from
\* then on.
UpdatePlayerlist(b) ==
  \/ listed' = [listed EXCEPT ![b] = @ \cup (Occupants \ friends[b])]
  \/ /\ \A c \in Occupants \ friends[b] : Acquainted(b, c) => c \in listed[b]
     /\ UNCHANGED listed

\* Mutant: bots may vote as soon as they are in the match.
WarmedUp_AtOnce(b) == TRUE

WarmedUp(b) == age[b] = WarmUp

\* Mutant: the blacklist is not consulted.
Lower_All(b, ipc_list) == {s \in Slots : occupant[s] \in ipc_list /\ s < slot[b]}

\* The slots before the own one in which there is a bot of this match.
Lower(b, ipc_list) ==
  {s \in Slots \ blacklist[b] : occupant[s] \in ipc_list /\ s < slot[b]}

\* Of each account the lowest slot counts; which account comes first is up to
\* the order of the players.
Candidates(lower) ==
  {s \in lower : \A t \in lower : occupant[t] = occupant[s] => s <= t}

NoWait(b) ==
  /\ waiting' = [waiting EXCEPT ![b] = FALSE]
  /\ waited' = [waited EXCEPT ![b] = 0]
  /\ awaited' = [awaited EXCEPT ![b] = None]

Reset(b) == NoWait(b) /\ blacklist' = [blacklist EXCEPT ![b] = {}] /\ UNCHANGED gaveUp

\* abandon_or_requeue: one that requeues stays in the match.
Quit(b) ==
  /\ Reset(b)
  /\ IF b \in stubborn
       THEN UNCHANGED match
       ELSE /\ place' = [place EXCEPT ![b] = "leaving"]
            /\ age' = [age EXCEPT ![b] = 0]

StartWait(b, quit_id) ==
  /\ ~waiting[b]
  /\ waiting' = [waiting EXCEPT ![b] = TRUE]
  /\ waited' = [waited EXCEPT ![b] = 0]
  /\ awaited' = [awaited EXCEPT ![b] = quit_id]
  /\ UNCHANGED <<match, blacklist, gaveUp>>

KeepWaiting(b) ==
  /\ waiting[b] /\ waited[b] < Patience
  /\ UNCHANGED <<match, election>>

GiveUp(b, quit_id) ==
  /\ waiting[b] /\ waited[b] = Patience
  /\ blacklist' = [blacklist EXCEPT ![b] = @ \cup {quit_id}]
  /\ gaveUp' = TRUE
  /\ NoWait(b)
  /\ UNCHANGED match

Elect(b, lower) ==
  \/ lower = {} /\ Quit(b)
  \/ \E quit_id \in Candidates(lower) :
       StartWait(b, quit_id) \/ KeepWaiting(b) \/ GiveUp(b, quit_id)

TooMany(ipc_list) == Cardinality(ipc_list) >= Limit

\* One second's update of a bot that is in the match.
Update(b) ==
  /\ Running(b)
  /\ b \notin ran
  /\ ran' = ran \cup {b}
  /\ UpdatePlayerlist(b)
  /\ LET ipc_list == listed'[b] \cap Visible IN
     IF ~WarmedUp(b) THEN UNCHANGED <<match, election>>
     ELSE IF TooMany(ipc_list) THEN Elect(b, Lower(b, ipc_list))
     ELSE Reset(b) /\ UNCHANGED match
  /\ UNCHANGED <<stubborn, table, friends, budget>>

\* A second passes.
Older(b) == IF place[b] = "playing" THEN Min({age[b] + 1, WarmUp}) ELSE age[b] + 1

Second ==
  /\ \A b \in Bots : Running(b) => b \in ran
  /\ \A b \in Bots : place[b] = "leaving" => age[b] < Lag
  /\ ran' = {}
  /\ age' = [b \in Bots |-> IF place[b] = "away" THEN 0 ELSE Older(b)]
  /\ waited' = [b \in Bots |-> IF waiting[b] THEN Min({waited[b] + 1, Patience}) ELSE 0]
  /\ UNCHANGED <<stubborn, table, place, list, waiting, blacklist, awaited, gaveUp, budget>>

Next ==
  \/ \E b \in Bots : \/ Connect(b) \/ Crash(b) \/ LevelInit(b) \/ Vanish(b) \/ Kick(b)
                     \/ Update(b) \/ \E c \in Bots : Befriend(b, c)
  \/ \E s \in Slots : Sweep(s)
  \/ Second

Spec == Init /\ [][Next]_vars

\* Games keep running, time passes, and what has left is dropped.
Fairness ==
  /\ WF_vars(Second)
  /\ \A b \in Bots : /\ WF_vars(Update(b))
                     /\ WF_vars(place[b] = "leaving" /\ Vanish(b))
FairSpec == Spec /\ Fairness

-----------------------------------------------------------------------------
(* Properties.                                                             *)

\* A surplus ends: a bot that counts too many bots sees fewer of them, or is
\* no longer in the match, even if bots that never leave or that were killed
\* have the lower slots, or its own account is in the slot of a killed game.
SurplusEnds ==
  \A b \in Bots :
    LET Surplus == Running(b) /\ TooMany(listed[b] \cap Visible)
    IN  Surplus ~> (~Surplus \/ b \in stubborn)

Undisturbed == ~gaveUp /\ \A b \in Bots : friends[b] = {}

\* As long as no bot was given up, and none is in the party of another, no more
\* bots leave than have to: a bot abandons only if too many would stay, not
\* counting those who are on their way out, although these are still counted by
\* its own update. (A bot does not wait for one in its party.)
NoStampede ==
  [][\A b \in Bots :
       /\ place[b] = "playing" /\ place'[b] = "leaving"
       /\ Undisturbed
       => Cardinality({c \in Bots : place[c] = "playing"}) >= Limit]_vars

\* "Waiting for that ipc id to quit, we use this timer in order to blacklist
\* ipc peers which refuse to quit" (CatBot.cpp): a bot gives up the one that it
\* has been waiting for.
GivesUpAwaited ==
  [][\A b \in Bots : \A s \in blacklist'[b] \ blacklist[b] : s = awaited[b]]_vars

=============================================================================
