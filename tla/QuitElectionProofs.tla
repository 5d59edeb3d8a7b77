------------------------- MODULE QuitElectionProofs -------------------------
(***************************************************************************)
(* Proofs about the election, for any number of bots and slots and all     *)
(* times: types, and that no more bots leave than have to.                 *)
(***************************************************************************)
EXTENDS QuitElection, FiniteSetTheorems, WellFoundedInduction, TLAPS

USE NoneAssumption, PoliciesAssumption, LimitAssumption, SecondsAssumption, BoundsAssumption

\* The minimum of a set of slots.
LEMMA MinOfSlots ==
  ASSUME NEW S \in SUBSET Slots, S # {}
  PROVE  Min(S) \in S /\ \A r \in S : Min(S) <= r
<1>1. S \subseteq Nat
  BY DEF Slots
<1> DEFINE R == {ss \in Nat \X Nat : ss[1] < ss[2]}
<1>2. IsWellFoundedOn(R, Nat)
  BY NatLessThanWellFounded DEF OpToRel
<1>3. PICK s \in S : \A r \in S : ~(<<r, s>> \in R)
  <2> HIDE DEF R
  <2> QED BY <1>1, <1>2, WFMin
<1>4. \A r \in S : ~(r < s)
  BY <1>1, <1>3
<1>5. \A r \in S : s <= r
  BY <1>1, <1>4
<1> QED BY <1>5 DEF Min

\* And of two numbers.
LEMMA MinOfTwo ==
  ASSUME NEW a \in Int, NEW b \in Int PROVE Min({a, b}) = IF a <= b THEN a ELSE b
<1>1. CASE a <= b
  BY <1>1 DEF Min
<1>2. CASE ~(a <= b)
  BY <1>2 DEF Min
<1> QED BY <1>1, <1>2

-----------------------------------------------------------------------------
(* Types.                                                                  *)

\* A bot is on its way out for no longer than Lag.
LeavesInTime == \A b \in Bots : place[b] = "leaving" => age[b] <= Lag

TypeInv == TypeOK /\ LeavesInTime

LEMMA TypeInit == Init => TypeInv
<1> SUFFICES ASSUME Init PROVE TypeInv
  OBVIOUS
<1>1. occupant \in [Slots -> Bots \cup {None}] /\ slot \in [Bots -> Slots \cup {None}]
  BY DEF Init
<1>2. \A b \in Bots : occupant[slot[b]] = b
  BY DEF Init
<1>3. age \in [Bots -> 0 .. WarmUp] /\ waited \in [Bots -> 0 .. Patience]
  BY DEF Init
<1>4. LeavesInTime
  BY DEF Init, LeavesInTime
<1>5. /\ place \in [Bots -> {"away", "playing", "leaving"}] /\ listed \in [Bots -> SUBSET Bots]
      /\ waiting \in [Bots -> BOOLEAN] /\ blacklist \in [Bots -> SUBSET Slots]
      /\ awaited \in [Bots -> Slots \cup {None}] /\ friends \in [Bots -> SUBSET Bots]
  BY DEF Init
<1>6. /\ stubborn \in Policies /\ ran \subseteq Bots
      /\ arrivals \in 0 .. MaxArrivals /\ mishaps \in 0 .. MaxMishaps
  BY DEF Init
<1>7. gaveUp \in BOOLEAN
  BY Zenon DEF Init
<1> QED BY <1>1, <1>2, <1>3, <1>4, <1>5, <1>6, <1>7 DEF TypeInv, TypeOK

\* The update keeps the types, whichever way it ends.
LEMMA TypeUpdate ==
  ASSUME TypeInv, NEW b \in Bots, Update(b)
  PROVE  TypeInv'
<1> USE DEF TypeInv, TypeOK
<1> DEFINE ipc_list == listed'[b] \cap Visible
<1>1. listed' \in [Bots -> SUBSET Bots]
  BY DEF Update, UpdatePlayerlist, Occupants, FreeSlots
<1>2. ran' \subseteq Bots /\ UNCHANGED <<stubborn, occupant, slot, friends, arrivals, mishaps>>
  BY DEF Update, table, budget
<1>3. CASE UNCHANGED <<match, election>>
  BY <1>1, <1>2, <1>3 DEF match, election, LeavesInTime
<1>4. CASE Reset(b) /\ UNCHANGED match
  BY <1>1, <1>2, <1>4 DEF match, Reset, NoWait, LeavesInTime
<1>5. CASE Quit(b)
  <2>1. place' \in [Bots -> {"away", "playing", "leaving"}] /\ age' \in [Bots -> 0 .. WarmUp]
    BY <1>5 DEF Quit, match
  <2>2. LeavesInTime'
    <3> SUFFICES ASSUME NEW c \in Bots, place'[c] = "leaving" PROVE age'[c] <= Lag
      BY DEF LeavesInTime
    <3>1. CASE c = b /\ b \notin stubborn
      BY <1>5, <3>1 DEF Quit
    <3>2. CASE ~(c = b /\ b \notin stubborn)
      BY <1>5, <3>2 DEF Quit, match, LeavesInTime
    <3> QED BY <3>1, <3>2
  <2>3. /\ waiting' \in [Bots -> BOOLEAN] /\ waited' \in [Bots -> 0 .. Patience]
        /\ blacklist' \in [Bots -> SUBSET Slots] /\ awaited' \in [Bots -> Slots \cup {None}]
    BY <1>5 DEF Quit, Reset, NoWait
  <2>4. gaveUp' \in BOOLEAN
    BY <1>5 DEF Quit, Reset
  <2> QED BY <1>1, <1>2, <2>1, <2>2, <2>3, <2>4
<1>6. ASSUME NEW quit_id \in Slots, StartWait(b, quit_id)
      PROVE  TypeInv'
  BY <1>1, <1>2, <1>6 DEF StartWait, match, LeavesInTime
<1>7. ASSUME NEW quit_id \in Slots, GiveUp(b, quit_id)
      PROVE  TypeInv'
  BY <1>1, <1>2, <1>7 DEF GiveUp, NoWait, match, LeavesInTime
<1>8. Candidates(Lower(b, ipc_list)) \subseteq Slots
  BY DEF Candidates, Lower
<1>9. \/ UNCHANGED <<match, election>>
      \/ Reset(b) /\ UNCHANGED match
      \/ Elect(b, Lower(b, ipc_list))
  BY DEF Update
<1> QED BY <1>3, <1>4, <1>5, <1>6, <1>7, <1>8, <1>9 DEF Elect, KeepWaiting

\* A second makes everybody a second older.
LEMMA Ages ==
  ASSUME TypeOK, Second, NEW b \in Bots, place[b] # "away"
  PROVE  /\ place[b] = "leaving" => age[b] < Lag /\ age'[b] = age[b] + 1
         /\ place[b] = "playing" =>
              age'[b] = IF age[b] + 1 <= WarmUp THEN age[b] + 1 ELSE WarmUp
<1>1. age[b] + 1 \in Int /\ WarmUp \in Int
  BY DEF TypeOK
<1>2. age'[b] = Older(b)
  BY DEF Second
<1>3. Min({age[b] + 1, WarmUp}) = IF age[b] + 1 <= WarmUp THEN age[b] + 1 ELSE WarmUp
  BY <1>1, MinOfTwo
<1> QED BY <1>2, <1>3 DEF Older, Second

LEMMA TypeSecond == TypeInv /\ Second => TypeInv'
<1> SUFFICES ASSUME TypeInv, Second PROVE TypeInv'
  OBVIOUS
<1> USE DEF TypeInv
<1>1. UNCHANGED <<stubborn, occupant, slot, place, listed, friends, waiting, blacklist, awaited, gaveUp,
                  arrivals, mishaps>> /\ ran' = {}
  BY DEF Second, table, list, budget
<1>2. \A b \in Bots : age'[b] \in 0 .. WarmUp /\ (place[b] = "leaving" => age'[b] <= Lag)
  <2> TAKE b \in Bots
  <2>0. age[b] \in 0 .. WarmUp /\ place[b] \in {"away", "playing", "leaving"}
    BY DEF TypeOK
  <2>1. CASE place[b] = "away"
    BY <2>1 DEF Second
  <2>2. CASE place[b] # "away"
    BY <2>0, <2>2, Ages
  <2> QED BY <2>1, <2>2
<1>3. age' \in [Bots -> 0 .. WarmUp] /\ LeavesInTime'
  BY <1>1, <1>2 DEF Second, LeavesInTime
<1>4. \A b \in Bots : waited'[b] \in 0 .. Patience
  <2> TAKE b \in Bots
  <2>1. waited[b] \in 0 .. Patience
    BY DEF TypeOK
  <2>2. Min({waited[b] + 1, Patience}) =
          IF waited[b] + 1 <= Patience THEN waited[b] + 1 ELSE Patience
    BY <2>1, MinOfTwo
  <2> QED BY <2>1, <2>2 DEF Second
<1>5. waited' \in [Bots -> 0 .. Patience]
  BY <1>4 DEF Second
<1> QED BY <1>1, <1>3, <1>5 DEF TypeOK

LEMMA TypeNext == TypeInv /\ [Next]_vars => TypeInv'
<1> SUFFICES ASSUME TypeInv, [Next]_vars PROVE TypeInv'
  OBVIOUS
<1> USE DEF TypeInv, TypeOK, LeavesInTime, table, match, list, election, budget
<1>1. CASE UNCHANGED vars
  BY <1>1 DEF vars
<1>2. ASSUME NEW b \in Bots, Connect(b) PROVE TypeInv'
  <2>1. Min(FreeSlots) \in Slots /\ occupant[Min(FreeSlots)] = None
    <3>1. FreeSlots \in SUBSET Slots /\ FreeSlots # {}
      BY <1>2 DEF Connect, FreeSlots
    <3>2. Min(FreeSlots) \in FreeSlots
      BY <3>1, MinOfSlots
    <3> QED BY <3>2 DEF FreeSlots
  <2>2. occupant' \in [Slots -> Bots \cup {None}] /\ slot' \in [Bots -> Slots \cup {None}]
    BY <1>2, <2>1 DEF Connect
  <2>3. ASSUME NEW c \in Bots, slot'[c] # None PROVE occupant'[slot'[c]] = c
    <3>1. CASE c = b
      BY <1>2, <2>1, <3>1 DEF Connect
    <3>2. CASE c # b
      BY <1>2, <2>1, <2>3, <3>2 DEF Connect
    <3> QED BY <3>1, <3>2
  <2> QED BY <1>2, <2>2, <2>3 DEF Connect
<1>3. ASSUME NEW b \in Bots, Crash(b) PROVE TypeInv'
  BY <1>3 DEF Crash
<1>4. ASSUME NEW b \in Bots, LevelInit(b) PROVE TypeInv'
  BY <1>4 DEF LevelInit
<1>5. ASSUME NEW b \in Bots, Vanish(b) \/ Kick(b) PROVE TypeInv'
  BY <1>5 DEF Vanish, Kick, Drop
<1>6. ASSUME NEW s \in Slots, Sweep(s) PROVE TypeInv'
  BY <1>6 DEF Sweep
<1>7. ASSUME NEW b \in Bots, NEW c \in Bots, Befriend(b, c) PROVE TypeInv'
  BY <1>7 DEF Befriend
<1> QED BY <1>1, <1>2, <1>3, <1>4, <1>5, <1>6, <1>7, TypeUpdate, TypeSecond DEF Next

\* Every variable keeps its type; two running games never share a slot, and a slot
\* in use carries its account (Connect, ~Peer, update).
THEOREM TypeCorrect == Spec => []TypeOK
<1>1. TypeInv => TypeOK
  BY DEF TypeInv
<1> QED BY TypeInit, TypeNext, <1>1, PTL DEF Spec

-----------------------------------------------------------------------------
(* No more bots leave than have to.                                        *)

\* While nobody was given up or made a friend, blacklists are empty.
NobodyListed == Undisturbed => \A b \in Bots : blacklist[b] = {}

\* A bot c on its way out either has an account in a slot below that of a bot b
\* in the match, or b came so late that c is gone before b may vote.
Before(c, b) == \E s \in Slots : occupant[s] = c /\ s < slot[b]
Late(c, b) == age[b] <= age[c] \/ age[b] < ListPeriod + age[c]

LeaversSeen ==
  Undisturbed => \A b, c \in Bots : Running(b) /\ place[c] = "leaving" => Late(c, b) \/ Before(c, b)

ElectionInv == TypeInv /\ NobodyListed /\ LeaversSeen

\* The bots that an update compares itself with are still in the match, if it
\* has no slot before its own in sight.
LEMMA CountedStay ==
  ASSUME ElectionInv, ListPeriod + Lag <= WarmUp, Undisturbed,
         NEW b \in Bots, Running(b), WarmedUp(b),
         NEW ipc_list \in SUBSET Bots, ipc_list \subseteq Visible, Lower(b, ipc_list) = {}
  PROVE  \A c \in ipc_list : place[c] = "playing"
<1> SUFFICES ASSUME NEW c \in ipc_list, place[c] # "playing" PROVE FALSE
  OBVIOUS
<1>1. place[c] = "leaving" /\ age[c] \in Nat /\ age[c] <= Lag
  BY DEF ElectionInv, TypeInv, TypeOK, LeavesInTime, Visible
<1>2. ~Late(c, b)
  BY <1>1 DEF Late, WarmedUp
<1>3. Before(c, b)
  BY <1>1, <1>2 DEF ElectionInv, LeaversSeen
<1>4. blacklist[b] = {}
  BY DEF ElectionInv, NobodyListed
<1> QED BY <1>3, <1>4 DEF Before, Lower

\* A bot that leaves has its account below that of every bot that is in the match
\* for as long as the player list takes.
LEMMA LeaverLowest ==
  ASSUME ElectionInv, Undisturbed,
         NEW c \in Bots, Running(c), WarmedUp(c), UpdatePlayerlist(c),
         Lower(c, listed'[c] \cap Visible) = {},
         NEW b \in Bots, b # c, Running(b), age[b] >= ListPeriod
  PROVE  occupant[slot[c]] = c /\ slot[c] \in Slots /\ slot[c] < slot[b]
<1> USE DEF ElectionInv, TypeInv, TypeOK, Running
<1>1. /\ occupant[slot[c]] = c /\ slot[c] \in Slots /\ occupant[slot[b]] = b /\ slot[b] \in Slots
      /\ listed[c] \in SUBSET Bots
  OBVIOUS
<1>2. b \in Occupants
  BY <1>1 DEF Occupants, FreeSlots
<1>3. Acquainted(c, b)
  BY DEF Acquainted, Visible, WarmedUp
<1>4. b \in listed'[c] \cap Visible
  BY <1>1, <1>2, <1>3 DEF UpdatePlayerlist, Visible, Undisturbed
<1>5. blacklist[c] = {}
  BY DEF NobodyListed
<1>6. ~(slot[b] < slot[c])
  BY <1>1, <1>4, <1>5 DEF Lower
<1> QED BY <1>1, <1>6 DEF Slots

\* How an update may end, as far as the match and the blacklists go.
LEMMA UpdateEnds ==
  ASSUME TypeOK, NEW b \in Bots, Update(b)
  PROVE  /\ UNCHANGED <<occupant, slot>>
         /\ \/ UNCHANGED match
            \/ /\ place' = [place EXCEPT ![b] = "leaving"] /\ age' = [age EXCEPT ![b] = 0]
               /\ Running(b) /\ WarmedUp(b) /\ UpdatePlayerlist(b)
               /\ TooMany(listed'[b] \cap Visible) /\ Lower(b, listed'[b] \cap Visible) = {}
         /\ gaveUp' \/ blacklist' = blacklist \/ blacklist' = [blacklist EXCEPT ![b] = {}]
<1> DEFINE ipc_list == listed'[b] \cap Visible
<1>1. UNCHANGED <<occupant, slot>> /\ Running(b) /\ UpdatePlayerlist(b)
  BY DEF Update, table
<1>2. \/ UNCHANGED <<match, election>>
      \/ Reset(b) /\ UNCHANGED match
      \/ WarmedUp(b) /\ TooMany(ipc_list) /\ Elect(b, Lower(b, ipc_list))
  BY DEF Update
<1>3. CASE UNCHANGED <<match, election>>
  BY <1>1, <1>3 DEF election
<1>4. CASE Reset(b) /\ UNCHANGED match
  BY <1>1, <1>4 DEF Reset
<1>5. CASE WarmedUp(b) /\ TooMany(ipc_list) /\ Elect(b, Lower(b, ipc_list))
  <2>1. CASE Lower(b, ipc_list) = {} /\ Quit(b)
    BY <1>1, <1>5, <2>1 DEF Quit, Reset
  <2>2. ASSUME NEW quit_id, StartWait(b, quit_id)
        PROVE  UNCHANGED match /\ blacklist' = blacklist
    BY <2>2 DEF StartWait
  <2>3. ASSUME NEW quit_id, GiveUp(b, quit_id)
        PROVE  UNCHANGED match /\ gaveUp'
    BY <2>3 DEF GiveUp
  <2> QED BY <1>1, <1>5, <2>1, <2>2, <2>3 DEF Elect, KeepWaiting, election
<1> QED BY <1>2, <1>3, <1>4, <1>5

\* That somebody was given up, or made a friend, is never forgotten.
LEMMA DisturbedStays == ASSUME TypeOK, [Next]_vars, Undisturbed' PROVE Undisturbed
<1>1. ~gaveUp
  <2> SUFFICES ASSUME gaveUp PROVE gaveUp'
    BY DEF Undisturbed
  <2> USE DEF election
  <2>1. ASSUME NEW b \in Bots, Update(b) PROVE gaveUp'
    BY <2>1 DEF Update, Elect, Quit, Reset, StartWait, KeepWaiting, GiveUp
  <2> QED BY <2>1 DEF Next, vars, Connect, Crash, LevelInit, Befriend, Vanish, Kick, Drop, Sweep,
                      Second
<1>2. \/ friends' = friends
      \/ \E b, c \in Bots : friends' = [friends EXCEPT ![b] = @ \cup {c}]
  <2> USE DEF list
  <2>1. ASSUME NEW b \in Bots, Update(b) PROVE friends' = friends
    BY <2>1 DEF Update
  <2>2. ASSUME NEW b \in Bots, NEW c \in Bots, Befriend(b, c)
        PROVE  friends' = [friends EXCEPT ![b] = @ \cup {c}]
    BY <2>2 DEF Befriend
  <2> QED BY <2>1, <2>2 DEF Next, vars, Connect, Crash, LevelInit, Vanish, Kick, Drop, Sweep, Second
<1>3. \A b \in Bots : friends[b] = {}
  BY <1>2 DEF Undisturbed, TypeOK
<1> QED BY <1>1, <1>3 DEF Undisturbed

\* A step that leaves nobody a friend makes nobody one.
LEMMA NobodyBefriended ==
  ASSUME TypeOK, Undisturbed', NEW b \in Bots, NEW c \in Bots PROVE ~Befriend(b, c)
<1> SUFFICES ASSUME Befriend(b, c) PROVE FALSE
  OBVIOUS
<1>1. friends' = [friends EXCEPT ![b] = @ \cup {c}]
  BY DEF Befriend
<1>2. friends \in [Bots -> SUBSET Bots]
  BY DEF TypeOK
<1>3. c \in friends'[b]
  BY <1>1, <1>2
<1>4. friends'[b] = {}
  BY DEF Undisturbed
<1> QED BY <1>3, <1>4

LEMMA ListsStep == ElectionInv /\ [Next]_vars => NobodyListed'
<1> SUFFICES ASSUME ElectionInv, [Next]_vars, Undisturbed' PROVE \A b \in Bots : blacklist'[b] = {}
  BY DEF NobodyListed
<1>1. \A b \in Bots : blacklist[b] = {}
  BY DisturbedStays DEF ElectionInv, TypeInv, NobodyListed
<1>2. TypeOK
  BY DEF ElectionInv, TypeInv
<1>3. ASSUME NEW d \in Bots, Update(d)
      PROVE  blacklist' = blacklist \/ blacklist' = [blacklist EXCEPT ![d] = {}]
  BY <1>2, <1>3, UpdateEnds DEF Undisturbed
<1>4. ASSUME NEW d \in Bots, Crash(d) PROVE blacklist' = [blacklist EXCEPT ![d] = {}]
  BY <1>4 DEF Crash
<1>5. \/ blacklist' = blacklist
      \/ \E d \in Bots : blacklist' = [blacklist EXCEPT ![d] = {}]
  BY <1>3, <1>4 DEF Next, vars, election, Connect, LevelInit, Befriend, Vanish, Kick, Drop, Sweep,
                    Second
<1> QED BY <1>1, <1>2, <1>5 DEF TypeOK

\* What Late and Before compare does not change by itself.
LEMMA SeenFrame ==
  ASSUME ElectionInv, Undisturbed, NEW b \in Bots, NEW c \in Bots,
         Running(b), place[c] = "leaving", slot'[b] = slot[b],
         age'[b] = age[b], age'[c] = age[c],
         \A s \in Slots : occupant[s] = c => occupant'[s] = c
  PROVE  (Late(c, b) \/ Before(c, b))'
<1>1. Late(c, b) \/ Before(c, b)
  BY DEF ElectionInv, LeaversSeen
<1> QED BY <1>1 DEF Late, Before

LEMMA SeenUpdate ==
  ASSUME ElectionInv, Undisturbed, NEW d \in Bots, Update(d),
         NEW b \in Bots, NEW c \in Bots, Running(b)', place'[c] = "leaving"
  PROVE  (Late(c, b) \/ Before(c, b))'
<1>1. TypeOK
  BY DEF ElectionInv, TypeInv
<1>2. UNCHANGED <<occupant, slot>>
  BY <1>1, UpdateEnds
<1>3. CASE UNCHANGED match
  BY <1>2, <1>3, SeenFrame DEF match, Running
<1>4. CASE /\ place' = [place EXCEPT ![d] = "leaving"] /\ age' = [age EXCEPT ![d] = 0]
           /\ Running(d) /\ WarmedUp(d) /\ UpdatePlayerlist(d)
           /\ TooMany(listed'[d] \cap Visible) /\ Lower(d, listed'[d] \cap Visible) = {}
  <2>1. b # d /\ Running(b) /\ age'[b] = age[b] /\ slot'[b] = slot[b]
    BY <1>1, <1>2, <1>4 DEF Running, TypeOK
  <2>2. CASE c # d
    <3>1. place[c] = "leaving" /\ age'[c] = age[c]
      BY <1>1, <1>4, <2>2 DEF TypeOK
    <3> QED BY <1>2, <2>1, <3>1, SeenFrame
  <2>3. CASE c = d /\ age[b] < ListPeriod
    <3>1. age'[c] = 0
      BY <1>1, <1>4, <2>3 DEF TypeOK
    <3> QED BY <2>1, <2>3, <3>1 DEF Late
  <2>4. CASE c = d /\ ~(age[b] < ListPeriod)
    <3>1. age[b] >= ListPeriod
      BY <1>1, <2>4 DEF TypeOK
    <3>2. occupant[slot[c]] = c /\ slot[c] \in Slots /\ slot[c] < slot[b]
      BY <1>4, <2>1, <2>4, <3>1, LeaverLowest
    <3> QED BY <1>2, <3>2 DEF Before
  <2> QED BY <2>2, <2>3, <2>4
<1> QED BY <1>1, <1>3, <1>4, UpdateEnds

LEMMA SeenSecond ==
  ASSUME ElectionInv, Undisturbed, Second,
         NEW b \in Bots, NEW c \in Bots, Running(b)', place'[c] = "leaving"
  PROVE  (Late(c, b) \/ Before(c, b))'
<1>1. TypeOK
  BY DEF ElectionInv, TypeInv
<1>2. UNCHANGED <<occupant, slot, place>>
  BY DEF Second, table
<1>3. Late(c, b) \/ Before(c, b)
  BY <1>2 DEF ElectionInv, LeaversSeen, Running
<1>4. age'[c] = age[c] + 1
  BY <1>1, <1>2, Ages
<1>5. age'[b] = IF age[b] + 1 <= WarmUp THEN age[b] + 1 ELSE WarmUp
  BY <1>1, <1>2, Ages DEF Running
<1>6. age[b] \in Nat /\ age[c] \in Nat
  BY <1>1 DEF TypeOK
<1>7. CASE Late(c, b)
  BY <1>4, <1>5, <1>6, <1>7 DEF Late
<1>8. CASE Before(c, b)
  BY <1>2, <1>8 DEF Before
<1> QED BY <1>3, <1>7, <1>8

LEMMA SeenStep == ElectionInv /\ [Next]_vars => LeaversSeen'
<1> SUFFICES ASSUME ElectionInv, [Next]_vars, Undisturbed',
                    NEW b \in Bots, NEW c \in Bots, Running(b)', place'[c] = "leaving"
             PROVE  (Late(c, b) \/ Before(c, b))'
  BY DEF LeaversSeen
<1>1. TypeOK /\ Undisturbed
  BY DisturbedStays DEF ElectionInv, TypeInv
<1> USE <1>1 DEF Running
<1>2. CASE UNCHANGED vars
  BY <1>2, SeenFrame DEF vars
<1>3. ASSUME NEW d \in Bots, Connect(d) PROVE (Late(c, b) \/ Before(c, b))'
  <2>1. FreeSlots \in SUBSET Slots /\ FreeSlots # {}
    BY <1>3 DEF Connect, FreeSlots
  <2>2. occupant[Min(FreeSlots)] = None
    BY <2>1, MinOfSlots DEF FreeSlots
  <2>3. \A s \in Slots : occupant[s] = c => occupant'[s] = c
    BY <1>3, <2>2 DEF Connect, TypeOK
  <2>4. UNCHANGED <<place, age>> /\ slot'[b] = slot[b]
    BY <1>3 DEF Connect, match, TypeOK
  <2> QED BY <2>3, <2>4, SeenFrame
<1>4. ASSUME NEW d \in Bots, Crash(d) PROVE (Late(c, b) \/ Before(c, b))'
  <2>1. UNCHANGED <<place, age, occupant>> /\ slot'[b] = slot[b]
    BY <1>4 DEF Crash, match, TypeOK
  <2> QED BY <2>1, SeenFrame
<1>5. ASSUME NEW d \in Bots, LevelInit(d) PROVE (Late(c, b) \/ Before(c, b))'
  <2>1. UNCHANGED <<occupant, slot>> /\ c # d /\ place[c] = "leaving" /\ age'[c] = age[c]
    BY <1>5 DEF LevelInit, table, TypeOK
  <2>2. CASE b = d
    BY <1>5, <2>1, <2>2 DEF LevelInit, Late, TypeOK
  <2>3. CASE b # d
    <3>1. Running(b) /\ age'[b] = age[b]
      BY <1>5, <2>1, <2>3 DEF LevelInit, TypeOK
    <3> QED BY <2>1, <3>1, SeenFrame
  <2> QED BY <2>2, <2>3
<1>6. ASSUME NEW d \in Bots, Vanish(d) \/ Kick(d) PROVE (Late(c, b) \/ Before(c, b))'
  <2>1. /\ UNCHANGED <<occupant, slot>> /\ place[c] = "leaving" /\ Running(b)
        /\ age'[b] = age[b] /\ age'[c] = age[c]
    BY <1>6 DEF Vanish, Kick, Drop, table, TypeOK
  <2> QED BY <2>1, SeenFrame
<1>7. ASSUME NEW s \in Slots, Sweep(s) PROVE (Late(c, b) \/ Before(c, b))'
  <2>1. UNCHANGED <<place, age, slot>>
    BY <1>7 DEF Sweep, match
  <2>2. \A r \in Slots : occupant[r] = c => occupant'[r] = c
    BY <1>7, <2>1 DEF Sweep, TypeOK
  <2> QED BY <2>1, <2>2, SeenFrame
<1> QED BY <1>2, <1>3, <1>4, <1>5, <1>6, <1>7, SeenUpdate, SeenSecond, NobodyBefriended DEF Next

\* A bot that leaves, before anybody was given up or made a friend, had too many others beside it.
LEMMA LeavesSurplus ==
  ASSUME ElectionInv, ListPeriod + Lag <= WarmUp, Undisturbed, [Next]_vars,
         NEW b \in Bots, place[b] = "playing", place'[b] = "leaving"
  PROVE  Cardinality({c \in Bots : place[c] = "playing"}) >= Limit
<1>1. TypeOK
  BY DEF ElectionInv, TypeInv
<1>2. Update(b)
  <2>1. ASSUME NEW d \in Bots, Update(d) PROVE d = b
    <3>1. UNCHANGED place \/ place' = [place EXCEPT ![d] = "leaving"]
      BY <1>1, <2>1, UpdateEnds DEF match
    <3> QED BY <1>1, <3>1 DEF TypeOK
  <2> QED BY <1>1, <2>1 DEF Next, vars, match, TypeOK, Connect, Crash, LevelInit, Befriend,
                           Vanish, Kick, Drop, Sweep, Second
<1> DEFINE ipc_list == listed'[b] \cap Visible
           playing  == {c \in Bots : place[c] = "playing"}
<1>3. Running(b) /\ WarmedUp(b) /\ TooMany(ipc_list) /\ Lower(b, ipc_list) = {}
  BY <1>1, <1>2, UpdateEnds DEF match
<1>4. ipc_list \subseteq playing
  BY <1>3, CountedStay DEF Visible
<1>5. IsFiniteSet(playing)
  <2>1. IsFiniteSet(Slots)
    BY FS_Interval DEF Slots
  <2> QED BY <2>1, FS_Subset
<1>6. /\ Cardinality(ipc_list) <= Cardinality(playing)
      /\ Cardinality(ipc_list) \in Nat /\ Cardinality(playing) \in Nat
  BY <1>4, <1>5, FS_Subset, FS_CardinalityType
<1> HIDE DEF ipc_list, playing
<1>7. Cardinality(playing) >= Limit
  BY <1>3, <1>6 DEF TooMany
<1> QED BY <1>7 DEF playing

\* As long as no bot was given up or is in the party of another, no more bots leave
\* than have to, for any number of bots, if those that leave are gone before one that came too late to be listed by
\* them may vote (update counts them, and their slots are below).
THEOREM NoStampedeHolds ==
  ASSUME ListPeriod + Lag <= WarmUp PROVE Spec => NoStampede
<1>1. Init => ElectionInv
  BY TypeInit DEF Init, ElectionInv, NobodyListed, LeaversSeen
<1>2. ElectionInv /\ [Next]_vars => ElectionInv'
  BY TypeNext, ListsStep, SeenStep DEF ElectionInv
<1> DEFINE Needed == \A b \in Bots :
             /\ place[b] = "playing" /\ place'[b] = "leaving"
             /\ Undisturbed
             => Cardinality({c \in Bots : place[c] = "playing"}) >= Limit
<1>3. ElectionInv /\ [Next]_vars => [Needed]_vars
  BY LeavesSurplus
<1> HIDE DEF Needed
<1>4. Spec => [][Needed]_vars
  BY <1>1, <1>2, <1>3, PTL DEF Spec
<1> QED BY <1>4 DEF NoStampede, Needed

=============================================================================
