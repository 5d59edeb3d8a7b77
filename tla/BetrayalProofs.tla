--------------------------- MODULE BetrayalProofs ---------------------------
(***************************************************************************)
(* Proofs about the betrayal count, for any number of bots, any limit and  *)
(* any number of kills.                                                    *)
(***************************************************************************)
EXTENDS Betrayal, TLAPS

Commands == {Mark, Relay}

\* A broadcast leaves every bot a queue of commands.
LEMMA BroadcastType ==
  ASSUME NEW queues \in [Bots -> Seq(Commands)], NEW b \in Bots, NEW cmd \in Commands
  PROVE  Broadcast(queues, b, cmd) \in [Bots -> Seq(Commands)]
<1>1. ASSUME NEW o \in Bots PROVE Append(queues[o], cmd) \in Seq(Commands)
  BY <1>1
<1> QED
  BY <1>1 DEF Broadcast

\* The top of a stack is a command, and so is all that is below it.
LEMMA PopType ==
  ASSUME NEW s \in Seq(Commands), s # <<>>
  PROVE  Front(s) \in Seq(Commands) /\ Last(s) \in Commands
  BY DEF Front, Last

\* What is polled is a sequence of commands.
LEMMA PolledType ==
  ASSUME inbox \in [Bots -> Seq(Commands)], NEW b \in Bots, NEW polled \in Polled(b)
  PROVE  polled \in Seq(Commands)
<1>1. ASSUME NEW s \in Seq(Commands), NEW l \in 1 .. Len(s) PROVE SubSeq(s, l, Len(s)) \in Seq(Commands)
  BY <1>1
<1>2. <<>> \in Seq(Commands)
  OBVIOUS
<1> QED
  BY <1>1, <1>2 DEF Polled, Suffixes

\* Executing a command leaves queues of commands and counts.
LEMMA ExecuteType ==
  ASSUME betrayals \in [Bots -> Nat], NEW b \in Bots, NEW cmd \in Commands,
         NEW queues \in [Bots -> Seq(Commands)], Execute(b, cmd, queues)
  PROVE  inbox' \in [Bots -> Seq(Commands)] /\ betrayals' \in [Bots -> Nat]
<1>1. Mark \in Commands
  BY DEF Commands
<1>2. Broadcast(queues, b, Mark) \in [Bots -> Seq(Commands)]
  BY <1>1, BroadcastType
<1> QED
  BY <1>2, BetrayalAssumption DEF Execute

\* What a kill does to the two counts of the bot.
LEMMA KillCounts ==
  ASSUME TypeOK, NEW b \in Bots, OnKilledBy(b)
  PROVE  \/ UNCHANGED <<betrayals, own, warnings, forgiven>>
         \/ /\ betrayals[b] <= Limit
            /\ betrayals' = [betrayals EXCEPT ![b] = @ + 1]
            /\ own' = [own EXCEPT ![b] = @ + 1]
            /\ IF betrayals[b] + 1 = Limit
               THEN warnings' = [warnings EXCEPT ![b] = @ + 1] ELSE warnings' = warnings
            /\ forgiven' = forgiven
<1>1. CASE ShouldTarget(b) \/ IsFriendly(state[b])
  BY <1>1 DEF OnKilledBy
<1>2. CASE ~(ShouldTarget(b) \/ IsFriendly(state[b]))
  <2>1. betrayals[b] <= Limit
    BY <1>2, BetrayalAssumption DEF ShouldTarget, TypeOK
  <2>2. betrayals' = [betrayals EXCEPT ![b] = @ + 1] /\ betrayals'[b] = betrayals[b] + 1
    BY <1>2 DEF OnKilledBy, TypeOK
  <2> QED
    BY <1>2, <2>1, <2>2 DEF OnKilledBy
<1> QED
  BY <1>1, <1>2

\* A frame of the engine leaves the counts, or sets the bot's to the limit.
LEMMA PumpCounts ==
  ASSUME NEW b \in Bots, NEW poll \in BOOLEAN, PumpEngine(b, poll)
  PROVE  /\ betrayals' = betrayals \/ betrayals' = [betrayals EXCEPT ![b] = Limit]
         /\ UNCHANGED <<own, warnings, forgiven>>
  BY DEF PumpEngine, Execute

-----------------------------------------------------------------------------
\* Every variable keeps its type.
THEOREM TypeCorrect == Spec => []TypeOK
<1>1. Init => TypeOK
  <2> SUFFICES ASSUME Init PROVE TypeOK
    OBVIOUS
  <2>1. <<>> \in Seq(Commands) /\ 0 \in Nat
    OBVIOUS
  <2>2. [b \in Bots |-> <<>>] \in [Bots -> Seq(Commands)] /\ [b \in Bots |-> 0] \in [Bots -> Nat]
    BY <2>1
  <2>3. state \in [Bots -> States]
    BY DEF Init, States
  <2> QED
    BY <2>2, <2>3 DEF Init, TypeOK, Commands
<1>2. TypeOK /\ [Next]_vars => TypeOK'
  <2> SUFFICES ASSUME TypeOK, [Next]_vars PROVE TypeOK'
    OBVIOUS
  <2>1. ASSUME NEW b \in Bots, OnKilledBy(b) PROVE TypeOK'
    <3>1. Broadcast(inbox, b, Relay) \in [Bots -> Seq(Commands)]
      BY BroadcastType DEF TypeOK, Commands
    <3>2. inbox' \in [Bots -> Seq(Commands)]
      BY <2>1, <3>1 DEF OnKilledBy, TypeOK, Commands
    <3>3. betrayals' \in [Bots -> Nat] /\ own' \in [Bots -> Nat] /\ warnings' \in [Bots -> Nat]
      <4>1. CASE UNCHANGED <<betrayals, own, warnings, forgiven>>
        BY <4>1 DEF TypeOK
      <4>2. CASE ~UNCHANGED <<betrayals, own, warnings, forgiven>>
        <5>1. /\ betrayals' = [betrayals EXCEPT ![b] = @ + 1]
              /\ own' = [own EXCEPT ![b] = @ + 1]
              /\ warnings' = [warnings EXCEPT ![b] = @ + 1] \/ warnings' = warnings
          BY <2>1, <4>2, KillCounts
        <5>2. betrayals' \in [Bots -> Nat] /\ own' \in [Bots -> Nat]
          BY <5>1 DEF TypeOK
        <5>3. CASE warnings' = [warnings EXCEPT ![b] = @ + 1]
          BY <5>2, <5>3 DEF TypeOK
        <5>4. CASE warnings' = warnings
          BY <5>2, <5>4 DEF TypeOK
        <5> QED
          BY <5>1, <5>3, <5>4
      <4> QED
        BY <4>1, <4>2
    <3>4. state' = state /\ stack' = stack /\ forgiven' = forgiven /\ changes' = changes
      BY <2>1 DEF OnKilledBy
    <3>5. kills' \in Nat
      BY <2>1 DEF OnKilledBy, TypeOK
    <3> QED
      BY <3>2, <3>3, <3>4, <3>5 DEF TypeOK, Commands
  <2>2. ASSUME NEW b \in Bots, ForgiveAll(b) PROVE TypeOK'
    BY <2>2 DEF ForgiveAll, TypeOK
  <2>3. ASSUME NEW b \in Bots, NEW poll \in BOOLEAN, PumpEngine(b, poll) PROVE TypeOK'
    <3> DEFINE queues == IF poll THEN [inbox EXCEPT ![b] = <<>>] ELSE inbox
    <3>1. PICK polled \in IF poll THEN Polled(b) ELSE {<<>>} :
            /\ IF stack[b] \o polled = <<>>
               THEN stack' = stack /\ inbox' = queues /\ UNCHANGED betrayals
               ELSE /\ stack' = [stack EXCEPT ![b] = Front(stack[b] \o polled)]
                    /\ Execute(b, Last(stack[b] \o polled), queues)
            /\ UNCHANGED <<state, own, warnings, forgiven, kills, changes>>
      BY <2>3 DEF PumpEngine
    <3> DEFINE pending == stack[b] \o polled
    <3>2. pending \in Seq(Commands) /\ queues \in [Bots -> Seq(Commands)]
      <4>1. polled \in Seq(Commands)
        <5>1. polled \in Polled(b) \/ polled = <<>>
          BY <3>1
        <5>2. inbox \in [Bots -> Seq(Commands)] /\ <<>> \in Seq(Commands)
          BY DEF TypeOK, Commands
        <5> QED
          BY <5>1, <5>2, PolledType
      <4> QED
        BY <4>1 DEF TypeOK, Commands
    <3> HIDE DEF queues
    <3>3. CASE pending = <<>>
      BY <3>1, <3>2, <3>3 DEF TypeOK, Commands
    <3>4. CASE pending # <<>>
      <4>1. Front(pending) \in Seq(Commands) /\ Last(pending) \in Commands
        BY <3>2, <3>4, PopType
      <4>2. Execute(b, Last(pending), queues) /\ stack' = [stack EXCEPT ![b] = Front(pending)]
        BY <3>1, <3>4
      <4>3. inbox' \in [Bots -> Seq(Commands)] /\ betrayals' \in [Bots -> Nat]
        BY <3>2, <4>1, <4>2, ExecuteType DEF TypeOK
      <4> QED
        BY <3>1, <4>1, <4>2, <4>3 DEF TypeOK, Commands
    <3> QED
      BY <3>3, <3>4
  <2>4. ASSUME NEW b \in Bots, NEW s \in Sources, ChangeState(b, s) PROVE TypeOK'
    BY <2>4, BetrayalAssumption DEF ChangeState, TypeOK
  <2>5. ASSUME NEW b \in Bots, NEW s \in States, AddId(b, s) PROVE TypeOK'
    BY <2>5 DEF AddId, TypeOK
  <2>6. CASE UNCHANGED vars
    BY <2>6 DEF TypeOK, vars
  <2> QED
    BY <2>1, <2>2, <2>3, <2>4, <2>5, <2>6 DEF Next
<1> QED
  BY <1>1, <1>2, PTL DEF Spec

-----------------------------------------------------------------------------
\* A bot that has warned the others since it last forgave has a count that is
\* at the limit or beyond: it does not cross the limit again.
Warned == \A b \in Bots :
  /\ warnings[b] <= (IF forgiven THEN 2 ELSE 1)
  /\ warnings[b] = (IF forgiven THEN 2 ELSE 1) => betrayals[b] >= Limit

\* Hearsay sets a count to the limit, never beyond: only a kill that the bot
\* counts itself takes it there, and that ends the counting.
THEOREM HearsayHolds == Spec => []HearsayNeverTurns
<1>1. Init => HearsayNeverTurns
  BY BetrayalAssumption DEF Init, HearsayNeverTurns
<1>2. TypeOK /\ HearsayNeverTurns /\ [Next]_vars => HearsayNeverTurns'
  <2> SUFFICES ASSUME TypeOK, HearsayNeverTurns, [Next]_vars PROVE HearsayNeverTurns'
    OBVIOUS
  <2>1. ASSUME NEW b \in Bots, OnKilledBy(b) PROVE HearsayNeverTurns'
    <3>1. CASE UNCHANGED <<betrayals, own, warnings, forgiven>>
      BY <3>1 DEF HearsayNeverTurns
    <3>2. CASE ~UNCHANGED <<betrayals, own, warnings, forgiven>>
      <4>1. /\ betrayals[b] <= Limit /\ forgiven' = forgiven
            /\ betrayals' = [betrayals EXCEPT ![b] = @ + 1]
            /\ own' = [own EXCEPT ![b] = @ + 1]
            /\ IF betrayals[b] + 1 = Limit
               THEN warnings' = [warnings EXCEPT ![b] = @ + 1] ELSE warnings' = warnings
        BY <2>1, <3>2, KillCounts
      <4> SUFFICES ASSUME NEW o \in Bots PROVE HearsayNeverTurns!(o)'
        BY DEF HearsayNeverTurns
      <4>2. CASE o # b
        BY <4>1, <4>2 DEF HearsayNeverTurns, TypeOK
      <4>3. CASE o = b
        BY <4>1, <4>3, BetrayalAssumption DEF HearsayNeverTurns, TypeOK
      <4> QED
        BY <4>2, <4>3
    <3> QED
      BY <3>1, <3>2
  <2>2. ASSUME NEW b \in Bots, ForgiveAll(b) PROVE HearsayNeverTurns'
    BY <2>2, BetrayalAssumption DEF ForgiveAll, HearsayNeverTurns, TypeOK
  <2>3. ASSUME NEW b \in Bots, NEW poll \in BOOLEAN, PumpEngine(b, poll) PROVE HearsayNeverTurns'
    <3>1. /\ betrayals' = betrayals \/ betrayals' = [betrayals EXCEPT ![b] = Limit]
          /\ UNCHANGED <<own, warnings, forgiven>>
      BY <2>3, PumpCounts
    <3>2. CASE betrayals' = betrayals
      BY <3>1, <3>2 DEF HearsayNeverTurns
    <3>3. CASE betrayals' = [betrayals EXCEPT ![b] = Limit]
      BY <3>1, <3>3, BetrayalAssumption DEF HearsayNeverTurns, TypeOK
    <3> QED
      BY <3>1, <3>2, <3>3
  <2>4. ASSUME NEW b \in Bots, NEW s \in Sources, ChangeState(b, s) PROVE HearsayNeverTurns'
    BY <2>4, BetrayalAssumption DEF ChangeState, HearsayNeverTurns
  <2>5. ASSUME NEW b \in Bots, NEW s \in States, AddId(b, s) PROVE HearsayNeverTurns'
    BY <2>5 DEF AddId, HearsayNeverTurns
  <2>6. CASE UNCHANGED vars
    BY <2>6 DEF HearsayNeverTurns, vars
  <2> QED
    BY <2>1, <2>2, <2>3, <2>4, <2>5, <2>6 DEF Next
<1> QED
  BY <1>1, <1>2, TypeCorrect, PTL DEF Spec

\* A bot warns once, and once more if it forgave, whatever the others tell it.
THEOREM WarnsOnceHolds == Spec => []WarnsOnce
<1>1. Init => Warned
  BY BetrayalAssumption DEF Init, Warned
<1>2. TypeOK /\ Warned /\ [Next]_vars => Warned'
  <2> SUFFICES ASSUME TypeOK, Warned, [Next]_vars PROVE Warned'
    OBVIOUS
  <2>1. ASSUME NEW b \in Bots, OnKilledBy(b) PROVE Warned'
    <3>1. CASE UNCHANGED <<betrayals, own, warnings, forgiven>>
      BY <3>1 DEF Warned
    <3>2. CASE ~UNCHANGED <<betrayals, own, warnings, forgiven>>
      <4>1. /\ betrayals[b] <= Limit /\ forgiven' = forgiven
            /\ betrayals' = [betrayals EXCEPT ![b] = @ + 1]
            /\ own' = [own EXCEPT ![b] = @ + 1]
            /\ IF betrayals[b] + 1 = Limit
               THEN warnings' = [warnings EXCEPT ![b] = @ + 1] ELSE warnings' = warnings
        BY <2>1, <3>2, KillCounts
      <4> SUFFICES ASSUME NEW o \in Bots PROVE Warned!(o)'
        BY DEF Warned
      <4>2. CASE o # b
        BY <4>1, <4>2 DEF Warned, TypeOK
      <4>3. CASE o = b
        BY <4>1, <4>3, BetrayalAssumption DEF Warned, TypeOK
      <4> QED
        BY <4>2, <4>3
    <3> QED
      BY <3>1, <3>2
  <2>2. ASSUME NEW b \in Bots, ForgiveAll(b) PROVE Warned'
    BY <2>2, BetrayalAssumption DEF ForgiveAll, Warned, TypeOK
  <2>3. ASSUME NEW b \in Bots, NEW poll \in BOOLEAN, PumpEngine(b, poll) PROVE Warned'
    <3>1. /\ betrayals' = betrayals \/ betrayals' = [betrayals EXCEPT ![b] = Limit]
          /\ UNCHANGED <<own, warnings, forgiven>>
      BY <2>3, PumpCounts
    <3>2. CASE betrayals' = betrayals
      BY <3>1, <3>2 DEF Warned
    <3>3. CASE betrayals' = [betrayals EXCEPT ![b] = Limit]
      BY <3>1, <3>3, BetrayalAssumption DEF Warned, TypeOK
    <3> QED
      BY <3>1, <3>2, <3>3
  <2>4. ASSUME NEW b \in Bots, NEW s \in Sources, ChangeState(b, s) PROVE Warned'
    BY <2>4, BetrayalAssumption DEF ChangeState, Warned
  <2>5. ASSUME NEW b \in Bots, NEW s \in States, AddId(b, s) PROVE Warned'
    BY <2>5 DEF AddId, Warned
  <2>6. CASE UNCHANGED vars
    BY <2>6 DEF Warned, vars
  <2> QED
    BY <2>1, <2>2, <2>3, <2>4, <2>5, <2>6 DEF Next
<1>3. Warned => WarnsOnce
  BY DEF Warned, WarnsOnce
<1> QED
  BY <1>1, <1>2, <1>3, TypeCorrect, PTL DEF Spec

-----------------------------------------------------------------------------
\* A friend only gives way to another kind of friend.
LEMMA FriendGivesFriend ==
  ASSUME NEW s \in States, IsFriendly(s), NEW t \in Gives(s)
  PROVE  IsFriendly(t)
BY DEF States, IsFriendly, Gives

\* What is learnt about a friend leaves him one, whatever the program learns.
THEOREM FriendlyHolds == Spec => FriendlyStays
<1>1. TypeOK /\ [Next]_vars =>
        [\A b \in Bots, s \in Sources :
           ChangeState(b, s) /\ IsFriendly(state[b]) => IsFriendly(state'[b])]_vars
  <2> SUFFICES ASSUME TypeOK, NEW b \in Bots, NEW s \in Sources,
                      ChangeState(b, s), IsFriendly(state[b])
               PROVE  IsFriendly(state'[b])
    OBVIOUS
  <2>1. CASE s \in Gives(state[b])
    <3>1. state[b] \in States /\ state'[b] = s
      BY <2>1 DEF ChangeState, TypeOK
    <3> QED
      BY <2>1, <3>1, FriendGivesFriend
  <2>2. CASE s \notin Gives(state[b])
    BY <2>2 DEF ChangeState
  <2> QED
    BY <2>1, <2>2
<1> QED
  BY <1>1, TypeCorrect, PTL DEF Spec, FriendlyStays

=============================================================================
