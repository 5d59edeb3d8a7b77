---------------------------- MODULE NavBotProofs ----------------------------
(***************************************************************************)
(* Proofs about NavBot: a tick is taken apart into its jobs, what each job *)
(* may leave is stated once, and the tick is put together again by an      *)
(* induction over the jobs that were tried.                                *)
(***************************************************************************)
EXTENDS NavBot, WellFoundedInduction, TLAPS

JobNames == {"melee", "escape-danger", "health", "ammo", "engineer", "snipe-sentries",
             "capture", "reload", "stay-near", "health-low", "roam"}

\* The types of the engine, of the bot, and of what a tick may leave.
Engines == {e \in [priority : {0} \cup Priorities, pathing : BOOLEAN] : e.pathing => e.priority # 0}
Bots == [cooldown : {"out", "running", "fresh"}, repath : {"out", "running"},
         lock : {"out", "running"}, force : BOOLEAN]
States == [e : Engines, b : Bots]
Results == [done : BOOLEAN, s : States]
Outcomes == [task : JobNames \cup {"idle"}, s : States]

\* The priorities of the list.
Listed == {patrol, lowprio_health, staynear, run_reload, snipe_sentry, followbot,
           ammo, capture, prio_melee, engineer, health, danger}
-----------------------------------------------------------------------------
(* The first-order form of the induction over the natural numbers.         *)

Less == {ss \in Nat \X Nat : ss[1] < ss[2]}

LEMMA LessWellFounded == IsWellFoundedOn(Less, Nat)
BY NatLessThanWellFounded, Zenon DEF OpToRel, Less

LEMMA Induction ==
  ASSUME NEW S, 0 \in S, \A n \in Nat : n \in S => n + 1 \in S
  PROVE  Nat \subseteq S
<1>1. SUFFICES ASSUME Nat \ S # {} PROVE FALSE
  OBVIOUS
<1>2. PICK x \in Nat \ S : \A y \in Nat \ S : ~ (<<y, x>> \in Less)
  <2>1. Nat \ S \subseteq Nat
    OBVIOUS
  <2>2. QED
    BY ONLY <1>1, <2>1, LessWellFounded, WFMin
<1>3. x - 1 \in Nat \ S
  <2>1. x # 0
    OBVIOUS
  <2>2. QED
    BY <2>1
<1>4. <<x - 1, x>> \in Less
  BY <1>3 DEF Less
<1>5. QED
  BY <1>2, <1>3, <1>4

-----------------------------------------------------------------------------
(* The tick as the last of the stages that it goes through.                *)

Stages(f) ==
    [n \in 0 .. Len(Jobs) |->
        IF n = 0 THEN {Fresh} ELSE TryAll(f[n - 1], Jobs[n])]

LEMMA JobsTyped ==
  /\ Len(Jobs) = 11
  /\ \A n \in 1 .. 11 : Jobs[n] \in JobNames
  /\ Jobs[1] = "melee" /\ Jobs[2] = "escape-danger" /\ Jobs[3] = "health" /\ Jobs[4] = "ammo"
  /\ Jobs[5] = "engineer" /\ Jobs[6] = "snipe-sentries" /\ Jobs[7] = "capture" /\ Jobs[8] = "reload"
  /\ Jobs[9] = "stay-near" /\ Jobs[10] = "health-low" /\ Jobs[11] = "roam"
BY DEF Jobs, JobNames

\* There are stages: those of the first n jobs can be continued.
LEMMA StagesExist == \E f : f = Stages(f)
<1> DEFINE Upto(g, n) == g = [i \in 0 .. n |->
               IF i = 0 THEN {Fresh} ELSE TryAll(g[i - 1], Jobs[i])]
           S == {n \in Nat : \E g : Upto(g, n)}
<1>1. 0 \in S
  <2> DEFINE g == [i \in 0 .. 0 |-> {Fresh}]
  <2>1. Upto(g, 0)
    OBVIOUS
  <2>2. QED
    BY <2>1
<1>2. ASSUME NEW n \in Nat, n \in S PROVE n + 1 \in S
  <2>1. PICK g : Upto(g, n)
    BY <1>2
  <2> DEFINE h == [i \in 0 .. n + 1 |->
                     IF i <= n THEN g[i] ELSE TryAll(g[i - 1], Jobs[i])]
             H == [i \in 0 .. n + 1 |->
                     IF i = 0 THEN {Fresh} ELSE TryAll(h[i - 1], Jobs[i])]
  <2>2. ASSUME NEW i \in 0 .. n + 1 PROVE h[i] = H[i]
    <3>1. i # 0 => h[i - 1] = g[i - 1]
      OBVIOUS
    <3>2. ASSUME i <= n PROVE g[i] = IF i = 0 THEN {Fresh} ELSE TryAll(g[i - 1], Jobs[i])
      <4>1. i \in 0 .. n
        BY <3>2
      <4>2. QED
        BY <2>1, <4>1
    <3>3. QED
      BY <3>1, <3>2
  <2>3. h = H
    <3> HIDE DEF H
    <3>1. DOMAIN H = 0 .. n + 1 /\ H = [i \in 0 .. n + 1 |-> H[i]]
      BY DEF H
    <3>2. QED
      BY <2>2, <3>1
  <2>4. Upto(h, n + 1)
    BY <2>3
  <2>5. QED
    <3> HIDE DEF Upto, h
    <3>1. QED
      BY <2>4
<1>3. Len(Jobs) \in S
  <2> HIDE DEF S
  <2>1. Nat \subseteq S
    BY <1>1, <1>2, Induction
  <2>2. QED
    BY <2>1, JobsTyped
<1>4. QED
  BY <1>3 DEF Stages

\* What holds of the first stage, and of each stage if of the one before, holds of
\* the tick.
LEMMA TickWithin ==
  ASSUME NEW Good, Fresh \in Good[0],
         \A n \in 1 .. 11 : \A r \in Good[n - 1] : Try(r, Jobs[n]) \subseteq Good[n]
  PROVE  Tick \subseteq Good[11]
<1> DEFINE F == CHOOSE f : f = Stages(f)
<1>1. F = Stages(F)
  <2> HIDE DEF F
  <2>1. QED
    BY StagesExist, Zenon DEF F
<1>2. Tick = F[11]
  BY JobsTyped, Zenon DEF Tick, Stages
<1> HIDE DEF F
<1> DEFINE S == {n \in Nat : n <= 11 => F[n] \subseteq Good[n]}
<1>3. 0 \in S
  BY <1>1, JobsTyped DEF Stages
<1>4. ASSUME NEW n \in Nat, n \in S PROVE n + 1 \in S
  <2>1. SUFFICES ASSUME n + 1 <= 11 PROVE F[n + 1] \subseteq Good[n + 1]
    OBVIOUS
  <2>2. F[n + 1] = TryAll(F[n], Jobs[n + 1])
    BY <1>1, <2>1, JobsTyped DEF Stages
  <2>3. F[n] \subseteq Good[n]
    BY <1>4, <2>1
  <2>4. \A r \in Good[n] : Try(r, Jobs[n + 1]) \subseteq Good[n + 1]
    BY <2>1
  <2>5. QED
    BY <2>2, <2>3, <2>4 DEF TryAll
<1>5. 11 \in S
  <2> HIDE DEF S
  <2>1. QED
    BY <1>3, <1>4, Induction
<1>6. QED
  BY <1>2, <1>5

-----------------------------------------------------------------------------
(* What the parts of a job may leave.                                      *)

LEMMA PrioritiesTyped ==
  /\ Listed \subseteq Priorities /\ Priorities \subseteq Nat \ {0}
  /\ 0 \notin Listed
BY PriorityListAssumption, PrioritiesAssumption
   DEF Listed, patrol, lowprio_health, staynear, run_reload, snipe_sentry, followbot, ammo,
       capture, prio_melee, engineer, health, danger

LEMMA EnginesTyped ==
  /\ Idle \in Engines
  /\ \A p \in Listed, c \in BOOLEAN : [priority |-> p, pathing |-> c] \in Engines
  /\ \A e \in Engines : e.priority \in Nat /\ e.pathing \in BOOLEAN
<1>1. 0 \in Nat /\ \A p \in Priorities : p \in Nat \ {0}
  BY PrioritiesTyped
<1>2. Idle \in Engines
  BY DEF Engines, Idle
<1>3. ASSUME NEW p \in Listed, NEW c \in BOOLEAN PROVE [priority |-> p, pathing |-> c] \in Engines
  BY PrioritiesTyped DEF Engines
<1>4. ASSUME NEW e \in Engines PROVE e.priority \in Nat /\ e.pathing \in BOOLEAN
  BY <1>1 DEF Engines
<1>5. QED
  BY <1>2, <1>3, <1>4

\* A path that was found for p: the engine has it, and nothing above p had one.
Found(e, s, p) == e = [priority |-> p, pathing |-> TRUE] /\ p >= s.e.priority

LEMMA YesNo ==
  ASSUME NEW s \in States
  PROVE  /\ Yes(s) \subseteq Results /\ No(s) \subseteq Results
         /\ \A x \in Yes(s) : x.done /\ x.s = s
         /\ \A x \in No(s) : ~x.done /\ x.s = s
BY DEF Yes, No, Results

LEMMA WithTyped ==
  ASSUME NEW s \in States, NEW e \in Engines
  PROVE  With(s, e) \in States /\ With(s, e).e = e /\ With(s, e).b = s.b
BY DEF With, States

LEMMA CancelIfLeaves ==
  ASSUME NEW s \in States, NEW c \in BOOLEAN
  PROVE  /\ CancelIf(c, s) \in States /\ CancelIf(c, s).b = s.b
         /\ c => CancelIf(c, s).e = Idle
         /\ ~c => CancelIf(c, s) = s
BY WithTyped, EnginesTyped DEF CancelIf

LEMMA GoneLeaves ==
  ASSUME NEW s \in States, NEW p \in Listed, NEW x \in Gone(s, p)
  PROVE  x \in Results /\ x.done /\ x.s.b = s.b /\ Found(x.s.e, s, p)
<1>1. PICK e \in Started(s.e, p) : x \in Yes(With(s, e))
  BY DEF Gone
<1>2. e = [priority |-> p, pathing |-> TRUE] /\ ~(p < s.e.priority)
  BY <1>1 DEF Started
<1>3. s.e \in Engines /\ s.e.priority \in Nat /\ p \in Nat
  BY EnginesTyped, PrioritiesTyped DEF States
<1>4. e \in Engines
  BY <1>2, EnginesTyped
<1>5. With(s, e) \in States /\ With(s, e).e = e /\ With(s, e).b = s.b
  BY <1>4, WithTyped
<1>6. x \in Results /\ x.done /\ x.s = With(s, e)
  BY <1>1, <1>5, YesNo
<1>7. QED
  BY <1>2, <1>3, <1>5, <1>6 DEF Found

LEMMA GoLeaves ==
  ASSUME NEW s \in States, NEW p \in Listed, NEW x \in Go(s, p)
  PROVE  /\ x \in Results /\ x.s.b = s.b
         /\ x.done => Found(x.s.e, s, p)
         /\ ~x.done => x.s = s
<1>1. CASE x \in Gone(s, p)
  BY <1>1, GoneLeaves
<1>2. CASE x \in No(s)
  BY <1>2, YesNo
<1>3. QED
  BY <1>1, <1>2 DEF Go

\* What a supply may leave in the engine that it finds with the priority p: what
\* there was, under its own priority or not, or a new path.
Served(e, s, p) ==
    \/ e = s.e \/ e = [priority |-> p, pathing |-> s.e.pathing]
    \/ Found(e, s, p)

SupplyLeaves(x, s, p) ==
    /\ x \in Results /\ x.s.b = s.b
    /\ x.done => Served(x.s.e, s, p)
    /\ ~x.done => x.s = s

LEMMA GetDispenserLeaves ==
  ASSUME NEW s \in States, NEW p \in Listed, NEW x \in GetDispenser(s, p)
  PROVE  SupplyLeaves(x, s, p)
<1> DEFINE t == [s EXCEPT !.e.priority = p]
<1>1. t \in States /\ t.e = [priority |-> p, pathing |-> s.e.pathing] /\ t.b = s.b
  <2>1. s.e \in Engines /\ s.e.pathing \in BOOLEAN
    BY EnginesTyped DEF States
  <2>2. s = [e |-> s.e, b |-> s.b] /\ s.e = [priority |-> s.e.priority, pathing |-> s.e.pathing]
    BY <2>1 DEF States, Engines
  <2>3. t = [e |-> [priority |-> p, pathing |-> s.e.pathing], b |-> s.b]
    BY <2>2
  <2>4. [priority |-> p, pathing |-> s.e.pathing] \in Engines
    BY <2>1, EnginesTyped
  <2>5. QED
    BY <2>3, <2>4 DEF States
<1> HIDE DEF t
<1>2. CASE x \in Yes(t)
  BY <1>1, <1>2, YesNo DEF SupplyLeaves, Served
<1>3. CASE x \in Go(s, p)
  BY <1>3, GoLeaves DEF SupplyLeaves, Served
<1>4. QED
  BY <1>2, <1>3 DEF GetDispenser, t

LEMMA GetSupplyLeaves ==
  ASSUME NEW s \in States, NEW p \in Listed, NEW x \in GetSupply(s, p)
  PROVE  SupplyLeaves(x, s, p)
<1>1. CASE x \in Yes(s)
  BY <1>1, YesNo DEF SupplyLeaves, Served
<1>2. CASE x \in GetDispenser(s, p)
  BY <1>2, GetDispenserLeaves
<1>3. QED
  BY <1>1, <1>2 DEF GetSupply

LEMMA RememberedLeaves ==
  ASSUME NEW s \in States, NEW p \in Listed, NEW x \in Remembered(s, p)
  PROVE  SupplyLeaves(x, s, p) /\ (~IsHealth(p) => ~x.done)
<1>1. CASE x \in No(s)
  BY <1>1, YesNo DEF SupplyLeaves
<1>2. CASE x \in GetDispenser(s, p) /\ IsHealth(p)
  BY <1>2, GetDispenserLeaves
<1>3. QED
  BY <1>1, <1>2 DEF Remembered

\* A search that is not busy leaves the engine, and its failure on the timer.
LEMMA FetchLeaves ==
  ASSUME NEW s \in States, NEW p \in Listed, NEW forced \in BOOLEAN, NEW busy \in BOOLEAN,
         NEW x \in Fetch(s, p, forced, busy)
  PROVE  /\ x \in Results
         /\ x.done => Served(x.s.e, s, p)
         /\ ~x.done => /\ x.s.e = s.e
                       /\ x.s.b.repath = s.b.repath /\ x.s.b.lock = s.b.lock
         /\ x.done => x.s.b.force = forced \/ (busy /\ x.s.e = s.e)
<1> DEFINE got == GetSupply(s, p)
<1> HIDE DEF got
<1>1. CASE x \in {[r EXCEPT !.s.b.force = forced] : r \in {y \in got : y.done}}
  <2>1. PICK r \in got : r.done /\ x = [r EXCEPT !.s.b.force = forced]
    BY <1>1
  <2>2. SupplyLeaves(r, s, p)
    BY <2>1, GetSupplyLeaves DEF got
  <2>3. r \in Results /\ Served(r.s.e, s, p)
    BY <2>1, <2>2 DEF SupplyLeaves
  <2>4. r.s \in States /\ r.s.b \in Bots /\ r.s.e \in Engines
    BY <2>3 DEF Results, States
  <2>5. /\ r = [done |-> r.done, s |-> r.s] /\ r.s = [e |-> r.s.e, b |-> r.s.b]
        /\ r.s.b = [cooldown |-> r.s.b.cooldown, repath |-> r.s.b.repath,
                    lock |-> r.s.b.lock, force |-> r.s.b.force]
    BY <2>3, <2>4 DEF Results, States, Bots
  <2>6. x = [done |-> r.done,
             s |-> [e |-> r.s.e,
                    b |-> [cooldown |-> r.s.b.cooldown, repath |-> r.s.b.repath,
                           lock |-> r.s.b.lock, force |-> forced]]]
    BY <2>1, <2>5
  <2>7. [cooldown |-> r.s.b.cooldown, repath |-> r.s.b.repath,
         lock |-> r.s.b.lock, force |-> forced] \in Bots
    BY <2>4 DEF Bots
  <2>8. r.done \in BOOLEAN
    BY <2>3 DEF Results
  <2>9. QED
    BY <2>1, <2>3, <2>4, <2>6, <2>7, <2>8 DEF Results, States
<1>2. CASE x \in Failed(s)
  <2> DEFINE t == [s EXCEPT !.b.cooldown = "fresh"]
  <2>1. s.b \in Bots /\ s.e \in Engines /\ s = [e |-> s.e, b |-> s.b]
    BY DEF States
  <2>2. t = [e |-> s.e, b |-> [s.b EXCEPT !.cooldown = "fresh"]]
    BY <2>1
  <2>3. [s.b EXCEPT !.cooldown = "fresh"] \in Bots
    BY <2>1 DEF Bots
  <2>4. t \in States
    BY <2>1, <2>2, <2>3 DEF States
  <2> HIDE DEF t
  <2>5. x \in No(t)
    BY <1>2 DEF Failed, t
  <2>6. t.e = s.e /\ t.b.repath = s.b.repath /\ t.b.lock = s.b.lock
    BY <2>1, <2>2 DEF Bots
  <2>7. QED
    BY <2>4, <2>5, <2>6, YesNo
<1>3. CASE busy /\ x \in Yes(s)
  BY <1>3, YesNo DEF Served
<1>4. QED
  BY <1>1, <1>2, <1>3 DEF Fetch, got

-----------------------------------------------------------------------------
(* RunSupply: the search as a whole.                                       *)

Active(s, p) == IF IsHealth(p) THEN IsHealth(s.e.priority) ELSE s.e.priority = ammo

Busy(s, p) == Active(s, p) /\ (p = ammo \/ NeedsHealth(p))

Wanted(s, p) == IF IsHealth(p) THEN ShouldSearchHealth(s.e, p) ELSE ShouldSearchAmmo(s.e)

Locked(s) == [s EXCEPT !.b.lock = "running"]

Begun(s, p) ==
    [Locked(s) EXCEPT !.b = [@ EXCEPT !.repath = IF Active(s, p) THEN "running" ELSE s.b.repath,
                                      !.force = FALSE]]

LEMMA SupplyBooleans ==
  ASSUME NEW s, NEW p
  PROVE  Active(s, p) \in BOOLEAN /\ Busy(s, p) \in BOOLEAN
<1>1. CASE IsHealth(p)
  BY <1>1 DEF Active, Busy, IsHealth
<1>2. CASE ~IsHealth(p)
  BY <1>2 DEF Active, Busy
<1>3. QED
  BY <1>1, <1>2

LEMMA LockedBegun ==
  ASSUME NEW s \in States, NEW p
  PROVE  /\ Locked(s) \in States /\ Begun(s, p) \in States
         /\ Locked(s).e = s.e /\ Begun(s, p).e = s.e
         /\ Locked(s).b = [s.b EXCEPT !.lock = "running"]
         /\ Begun(s, p).b.cooldown = s.b.cooldown /\ Begun(s, p).b.lock = "running"
         /\ Begun(s, p).b.repath = IF Active(s, p) THEN "running" ELSE s.b.repath
<1> DEFINE l == [s.b EXCEPT !.lock = "running"]
<1>1. s.b \in Bots /\ s.e \in Engines /\ s = [e |-> s.e, b |-> s.b]
  BY DEF States
<1>2. l \in Bots
  BY <1>1 DEF Bots
<1>3. l.cooldown = s.b.cooldown /\ l.repath = s.b.repath /\ l.lock = "running"
  BY <1>1 DEF Bots
<1>4. Locked(s) = [e |-> s.e, b |-> l]
  BY <1>1 DEF Locked
<1> HIDE DEF l
<1>5. Locked(s) \in States
  BY <1>1, <1>2, <1>4 DEF States
<1> DEFINE r == IF Active(s, p) THEN "running" ELSE s.b.repath
           g == [l EXCEPT !.repath = r, !.force = FALSE]
<1>6. r \in {"out", "running"}
  BY <1>1 DEF Bots
<1>7. Begun(s, p) = [e |-> s.e, b |-> g]
  <2>1. Begun(s, p) = [Locked(s) EXCEPT !.b = g]
    BY <1>4 DEF Begun
  <2> HIDE DEF g
  <2>2. QED
    BY <1>4, <2>1
<1> HIDE DEF r
<1>8. g \in Bots /\ g.cooldown = l.cooldown /\ g.lock = l.lock /\ g.repath = r
  BY <1>2, <1>6 DEF Bots
<1> HIDE DEF g
<1>9. Begun(s, p) \in States /\ Begun(s, p).e = s.e /\ Begun(s, p).b = g
  BY <1>1, <1>7, <1>8 DEF States
<1>10. QED
  BY <1>3, <1>4, <1>5, <1>8, <1>9 DEF l, r

\* The four ways a search goes: it is not wanted, it has to wait for the timers of
\* all supplies, or of its path, or it is made.
LEMMA RunSupplyCases ==
  ASSUME NEW s \in States, NEW p \in Listed, NEW forced \in BOOLEAN, NEW x \in RunSupply(s, p, forced)
  PROVE  \/ /\ ~forced /\ ~Wanted(s, p)
            /\ \/ x \in Remembered(s, p) /\ x.done
               \/ \E r \in Remembered(s, p) :
                    ~r.done /\ x \in IF Busy(s, p) /\ r.s.b.lock = "running" THEN Yes(r.s)
                                     ELSE GiveUp(r.s, p, Active(s, p))
         \/ /\ ~forced /\ Wanted(s, p) /\ s.b.cooldown # "out"
            /\ x \in IF Active(s, p) THEN Yes(Locked(s)) ELSE No(Locked(s))
         \/ Active(s, p) /\ s.b.repath # "out" /\ x \in Yes(Locked(s))
         \/ /\ ~(Active(s, p) /\ s.b.repath # "out")
            /\ \/ x \in Remembered(Begun(s, p), p) /\ x.done
               \/ \E r \in Remembered(Begun(s, p), p) :
                    ~r.done /\ x \in Fetch(r.s, p, forced, Busy(s, p))
<1> DEFINE Drop == OrElse(Remembered(s, p),
                          LAMBDA t : IF Busy(s, p) /\ t.b.lock = "running" THEN Yes(t)
                                     ELSE GiveUp(t, p, Active(s, p)))
           Search == OrElse(Remembered(Begun(s, p), p), LAMBDA t : Fetch(t, p, forced, Busy(s, p)))
<1>1. x \in IF ~forced /\ ~Wanted(s, p) THEN Drop
            ELSE IF ~forced /\ s.b.cooldown # "out"
                 THEN (IF Active(s, p) THEN Yes(Locked(s)) ELSE No(Locked(s)))
            ELSE IF Active(s, p) /\ s.b.repath # "out" THEN Yes(Locked(s))
            ELSE Search
  BY Zenon DEF RunSupply, Busy, Active, Wanted, Begun, Locked
<1>2. ASSUME x \in Drop
      PROVE  \/ x \in Remembered(s, p) /\ x.done
             \/ \E r \in Remembered(s, p) :
                  ~r.done /\ x \in IF Busy(s, p) /\ r.s.b.lock = "running" THEN Yes(r.s)
                                   ELSE GiveUp(r.s, p, Active(s, p))
  BY <1>2 DEF OrElse
<1>3. ASSUME x \in Search
      PROVE  \/ x \in Remembered(Begun(s, p), p) /\ x.done
             \/ \E r \in Remembered(Begun(s, p), p) :
                  ~r.done /\ x \in Fetch(r.s, p, forced, Busy(s, p))
  BY <1>3 DEF OrElse
<1> HIDE DEF Drop, Search
<1>4. CASE ~forced /\ ~Wanted(s, p)
  BY <1>1, <1>2, <1>4
<1>5. CASE ~forced /\ Wanted(s, p) /\ s.b.cooldown # "out"
  BY <1>1, <1>5
<1>6. CASE /\ ~(~forced /\ ~Wanted(s, p)) /\ ~(~forced /\ s.b.cooldown # "out")
           /\ Active(s, p) /\ s.b.repath # "out"
  BY <1>1, <1>6
<1>7. CASE /\ ~(~forced /\ ~Wanted(s, p)) /\ ~(~forced /\ s.b.cooldown # "out")
           /\ ~(Active(s, p) /\ s.b.repath # "out")
  BY <1>1, <1>3, <1>7
<1>8. QED
  BY <1>4, <1>5, <1>6, <1>7

LEMMA GiveUpLeaves ==
  ASSUME NEW s \in States, NEW p \in Listed, NEW active \in BOOLEAN, NEW x \in GiveUp(s, p, active)
  PROVE  /\ x \in Results /\ ~x.done /\ x.s.b = s.b
         /\ x.s.e = s.e \/ (x.s.e = Idle /\ active)
         /\ s.b.force /\ ~IsHealth(p) => x.s = s
<1> DEFINE c == active /\ (IsHealth(p) \/ ~s.b.force)
<1>1. c \in BOOLEAN
  OBVIOUS
<1>2. x \in No(CancelIf(c, s))
  BY Zenon DEF GiveUp
<1>3. (s.b.force /\ ~IsHealth(p) => ~c) /\ (c => active)
  OBVIOUS
<1> HIDE DEF c
<1>4. /\ CancelIf(c, s) \in States /\ CancelIf(c, s).b = s.b
      /\ c => CancelIf(c, s).e = Idle
      /\ ~c => CancelIf(c, s) = s
  BY <1>1, CancelIfLeaves
<1>5. x \in Results /\ ~x.done /\ x.s = CancelIf(c, s)
  BY <1>2, <1>4, YesNo
<1>6. QED
  BY <1>1, <1>3, <1>4, <1>5

\* A search that is busy leaves what a supply may; one that is not leaves the
\* engine as it was, or gives up the path of the supply.
LEMMA RunSupplyLeaves ==
  ASSUME NEW s \in States, NEW p \in Listed, NEW forced \in BOOLEAN, NEW x \in RunSupply(s, p, forced)
  PROVE  /\ x \in Results
         /\ x.done => Served(x.s.e, s, p)
         /\ ~x.done => x.s.e = s.e \/ (x.s.e = Idle /\ Active(s, p))
<1> DEFINE l == Locked(s)
           g == Begun(s, p)
           active == Active(s, p)
           busy == Busy(s, p)
<1>1. active \in BOOLEAN /\ busy \in BOOLEAN
  BY SupplyBooleans
<1>2. l \in States /\ g \in States /\ l.e = s.e /\ g.e = s.e
  BY LockedBegun
<1>3. ASSUME NEW t \in States, t.e = s.e, NEW e, Served(e, t, p) PROVE Served(e, s, p)
  BY <1>3 DEF Served, Found
<1>4. ASSUME NEW r \in Remembered(s, p) PROVE SupplyLeaves(r, s, p) /\ r.s \in States
  BY <1>4, RememberedLeaves DEF SupplyLeaves, Results
<1>5. ASSUME NEW r \in Remembered(g, p) PROVE SupplyLeaves(r, g, p) /\ r.s \in States
  BY <1>2, <1>5, RememberedLeaves DEF SupplyLeaves, Results
<1>6. CASE x \in Remembered(s, p) /\ x.done
  BY <1>4, <1>6 DEF SupplyLeaves
<1>7. ASSUME NEW r \in Remembered(s, p), ~r.done,
             x \in IF busy /\ r.s.b.lock = "running" THEN Yes(r.s) ELSE GiveUp(r.s, p, active)
      PROVE  /\ x \in Results
             /\ x.done => x.s.e = s.e
             /\ ~x.done => x.s.e = s.e \/ (x.s.e = Idle /\ active)
  <2>1. r.s = s
    BY <1>4, <1>7 DEF SupplyLeaves
  <2> HIDE DEF active, busy
  <2>2. CASE x \in Yes(s)
    BY <2>2, YesNo
  <2>3. CASE x \in GiveUp(s, p, active)
    BY <1>1, <2>3, GiveUpLeaves
  <2>4. QED
    BY <1>7, <2>1, <2>2, <2>3
<1>8. CASE x \in Yes(l) \/ x \in No(l)
  BY <1>2, <1>8, YesNo DEF Served
<1>9. CASE x \in Remembered(g, p) /\ x.done
  BY <1>2, <1>3, <1>5, <1>9 DEF SupplyLeaves
<1>10. ASSUME NEW r \in Remembered(g, p), ~r.done, x \in Fetch(r.s, p, forced, busy)
       PROVE  /\ x \in Results
              /\ x.done => Served(x.s.e, s, p)
              /\ ~x.done => x.s.e = s.e
  <2>1. r.s = g
    BY <1>5, <1>10 DEF SupplyLeaves
  <2> HIDE DEF g, busy
  <2>2. /\ x \in Results
        /\ x.done => Served(x.s.e, g, p)
        /\ ~x.done => x.s.e = g.e
    <3>1. x \in Fetch(g, p, forced, busy)
      BY <1>10, <2>1
    <3>2. g.e = s.e /\ g \in States
      BY <1>2
    <3>3. QED
      BY <1>1, <3>1, <3>2, FetchLeaves
  <2>3. QED
    BY <1>2, <1>3, <2>2
<1>11. (x.s.e = s.e) => Served(x.s.e, s, p)
  BY DEF Served
<1> HIDE DEF l, g, active, busy
<1>12. QED
  BY <1>6, <1>7, <1>8, <1>9, <1>10, <1>11, RunSupplyCases DEF l, g, active, busy

-----------------------------------------------------------------------------
(* What a job may leave.                                                   *)

\* The priorities whose path is not that of a supply, of melee or of danger.
Kept == {staynear, run_reload, snipe_sentry, followbot, capture, engineer}

\* The path that a job may give up is one of its own.
Own(job, priority) ==
    \/ job = "melee" /\ priority = prio_melee
    \/ job = "escape-danger" /\ priority = danger
    \/ job \in {"health", "health-low"} /\ IsHealth(priority)
    \/ job \in {"ammo", "engineer"} /\ priority = ammo

\* A job that is not busy leaves the engine, or cancels its own path. One that is
\* busy and has a lower priority leaves the path, under its name or renamed.
JobLeaves(x, s, job) ==
    /\ x \in Results
    /\ job \notin {"health", "ammo", "engineer", "health-low"} => x.s.b = s.b
    /\ ~x.done => x.s.e = s.e \/ (x.s.e = Idle /\ Own(job, s.e.priority))
    /\ /\ x.done /\ s.e.pathing /\ s.e.priority \in Kept \cup {ammo}
       /\ Rank(job) < s.e.priority
       => x.s.e.pathing /\ x.s.e.priority \in {s.e.priority, lowprio_health, ammo}

LEMMA RankIs ==
  /\ Rank("melee") = 13 /\ Rank("escape-danger") = 16 /\ Rank("health") = 15 /\ Rank("ammo") = 11
  /\ Rank("engineer") = 14 /\ Rank("snipe-sentries") = 9 /\ Rank("capture") = 12
  /\ Rank("reload") = 8 /\ Rank("stay-near") = 7 /\ Rank("health-low") = 6 /\ Rank("roam") = 5
  /\ Rank("idle") = 0
BY DEF Rank, patrol, lowprio_health, staynear, run_reload, snipe_sentry, followbot, ammo, capture,
       prio_melee, engineer, health, danger

LEMMA PriorityIs ==
  /\ patrol = 5 /\ lowprio_health = 6 /\ staynear = 7 /\ run_reload = 8 /\ snipe_sentry = 9
  /\ followbot = 10 /\ ammo = 11 /\ capture = 12 /\ prio_melee = 13 /\ engineer = 14
  /\ health = 15 /\ danger = 16
  /\ Kept = {7, 8, 9, 10, 12, 14}
  /\ Listed = {5, 6, 7, 8, 9, 10, 11, 12, 13, 14, 15, 16}
BY DEF Kept, Listed, patrol, lowprio_health, staynear, run_reload, snipe_sentry, followbot, ammo,
       capture, prio_melee, engineer, health, danger

\* Staying busy, not being busy, and going somewhere with the job's priority.
LEMMA YesNoLeave ==
  ASSUME NEW s \in States, NEW job \in JobNames, NEW x \in Yes(s) \cup No(s)
  PROVE  JobLeaves(x, s, job)
BY YesNo DEF JobLeaves

LEMMA GoJobLeaves ==
  ASSUME NEW s \in States, NEW job \in JobNames, NEW p \in Listed, Rank(job) = p, NEW x \in Go(s, p)
  PROVE  JobLeaves(x, s, job)
<1>1. /\ x \in Results /\ x.s.b = s.b
      /\ x.done => Found(x.s.e, s, p)
      /\ ~x.done => x.s = s
  BY GoLeaves
<1>2. s.e.priority \in Nat /\ p \in Nat
  BY EnginesTyped, PrioritiesTyped DEF States
<1>3. x.done => ~(Rank(job) < s.e.priority)
  BY <1>1, <1>2 DEF Found
<1>4. QED
  BY <1>1, <1>3 DEF JobLeaves

\* Standing still, where nothing above has a path.
LEMMA IdleLeaves ==
  ASSUME NEW s \in States, NEW job \in JobNames \ {"health", "ammo", "engineer", "health-low"},
         ~(s.e.priority > Rank(job)), Rank(job) \in Nat,
         NEW x \in Yes(With(s, Idle))
  PROVE  JobLeaves(x, s, job)
<1>1. With(s, Idle) \in States /\ With(s, Idle).b = s.b
  BY WithTyped, EnginesTyped
<1>2. x \in Results /\ x.done /\ x.s = With(s, Idle)
  BY <1>1, YesNo
<1>3. s.e.priority \in Nat
  BY EnginesTyped DEF States
<1>4. ~(Rank(job) < s.e.priority)
  BY <1>3
<1>5. QED
  BY <1>1, <1>2, <1>4 DEF JobLeaves

LEMMA CancelLeaves ==
  ASSUME NEW s \in States, NEW job \in JobNames, NEW c \in BOOLEAN,
         c => Own(job, s.e.priority), NEW x \in No(CancelIf(c, s))
  PROVE  JobLeaves(x, s, job)
<1>1. /\ CancelIf(c, s) \in States /\ CancelIf(c, s).b = s.b
      /\ c => CancelIf(c, s).e = Idle
      /\ ~c => CancelIf(c, s) = s
  BY CancelIfLeaves
<1>2. x \in Results /\ ~x.done /\ x.s = CancelIf(c, s)
  BY <1>1, YesNo
<1>3. QED
  BY <1>1, <1>2 DEF JobLeaves

LEMMA RunSupplyJob ==
  ASSUME NEW s \in States, NEW job \in {"health", "ammo", "health-low", "engineer"},
         NEW p \in {health, ammo, lowprio_health},
         NEW forced \in BOOLEAN, NEW x \in RunSupply(s, p, forced),
         Rank(job) >= p, p = health <=> job = "health", p = lowprio_health <=> job = "health-low"
  PROVE  JobLeaves(x, s, job)
<1>1. p \in Listed /\ p \in Nat /\ s.e.priority \in Nat /\ job \in JobNames
  BY EnginesTyped, PriorityIs DEF States, JobNames
<1>2. /\ x \in Results
      /\ x.done => Served(x.s.e, s, p)
      /\ ~x.done => x.s.e = s.e \/ (x.s.e = Idle /\ Active(s, p))
  BY <1>1, RunSupplyLeaves
<1>3. Active(s, p) => Own(job, s.e.priority)
  BY PriorityIs DEF Active, Own, IsHealth
<1>4. ASSUME x.done, s.e.pathing, s.e.priority \in Kept \cup {ammo}, Rank(job) < s.e.priority
      PROVE  x.s.e.pathing /\ x.s.e.priority \in {s.e.priority, lowprio_health, ammo}
  <2>1. Rank(job) \in Nat /\ p < s.e.priority
    BY <1>1, <1>4, RankIs
  <2>2. p # health
    BY <2>1, <1>4, PriorityIs
  <2>3. ~Found(x.s.e, s, p)
    BY <1>1, <2>1 DEF Found
  <2>4. x.s.e = s.e \/ x.s.e = [priority |-> p, pathing |-> TRUE]
    BY <1>2, <1>4, <2>3, EnginesTyped DEF Served, States
  <2>5. QED
    BY <1>4, <2>2, <2>4
<1>5. QED
  BY <1>2, <1>3, <1>4 DEF JobLeaves

LEMMA MeleeLeaves ==
  ASSUME NEW s \in States, NEW x \in MeleeAttack(s)
  PROVE  JobLeaves(x, s, "melee")
<1>1. "melee" \in JobNames \ {"health", "ammo", "engineer", "health-low"} /\ prio_melee \in Listed
      /\ Rank("melee") = prio_melee /\ prio_melee \in Nat
  BY RankIs, PriorityIs DEF JobNames
<1>2. CASE x \in No(CancelIf(s.e.priority = prio_melee, s))
  <2>1. (s.e.priority = prio_melee) \in BOOLEAN
        /\ (s.e.priority = prio_melee => Own("melee", s.e.priority))
    BY DEF Own
  <2>2. QED
    BY <1>1, <1>2, <2>1, CancelLeaves
<1>3. CASE ~(s.e.priority > prio_melee) /\ x \in Yes(With(s, Idle))
  BY <1>1, <1>3, IdleLeaves
<1>4. CASE x \in Go(s, prio_melee)
  BY <1>1, <1>4, GoJobLeaves
<1>5. CASE x \in Yes(s) \cup No(s)
  BY <1>1, <1>5, YesNoLeave
<1>6. QED
  BY <1>2, <1>3, <1>4, <1>5 DEF MeleeAttack

LEMMA EscapeLeaves ==
  ASSUME NEW s \in States, NEW x \in EscapeDanger(s)
  PROVE  JobLeaves(x, s, "escape-danger")
<1>1. "escape-danger" \in JobNames /\ danger \in Listed /\ Rank("escape-danger") = danger
  BY RankIs, PriorityIs DEF JobNames
<1>2. CASE x \in No(CancelIf(s.e.priority = danger, s))
  <2>1. (s.e.priority = danger) \in BOOLEAN
        /\ (s.e.priority = danger => Own("escape-danger", s.e.priority))
    BY DEF Own
  <2>2. QED
    BY <1>1, <1>2, <2>1, CancelLeaves
<1>3. CASE x \in Go(s, danger)
  BY <1>1, <1>3, GoJobLeaves
<1>4. CASE x \in Yes(s) \cup No(s)
  BY <1>1, <1>4, YesNoLeave
<1>5. QED
  BY <1>2, <1>3, <1>4 DEF EscapeDanger

LEMMA EngineerLeaves ==
  ASSUME NEW s \in States, NEW x \in RunEngineerLogic(s)
  PROVE  JobLeaves(x, s, "engineer")
<1>1. "engineer" \in JobNames /\ engineer \in Listed /\ Rank("engineer") = engineer
  BY RankIs, PriorityIs DEF JobNames
<1>2. CASE x \in RunSupply(s, ammo, TRUE)
  <2>1. ammo # health /\ ammo # lowprio_health /\ Rank("engineer") >= ammo
    BY RankIs, PriorityIs
  <2>2. QED
    BY <1>2, <2>1, RunSupplyJob
<1>3. CASE x \in Go(s, engineer)
  BY <1>1, <1>3, GoJobLeaves
<1>4. CASE x \in Yes(s) \cup No(s)
  BY <1>1, <1>4, YesNoLeave
<1>5. QED
  BY <1>2, <1>3, <1>4 DEF RunEngineerLogic, BuildBuilding, SmackBuilding

LEMMA CaptureLeaves ==
  ASSUME NEW s \in States, NEW x \in CaptureObjectives(s)
  PROVE  JobLeaves(x, s, "capture")
<1>1. "capture" \in JobNames \ {"health", "ammo", "engineer", "health-low"} /\ capture \in Listed
      /\ Rank("capture") = capture /\ capture \in Nat
  BY RankIs, PriorityIs DEF JobNames
<1>2. CASE ~(s.e.priority > capture) /\ x \in Yes(With(s, Idle))
  BY <1>1, <1>2, IdleLeaves
<1>3. CASE x \in Go(s, capture)
  BY <1>1, <1>3, GoJobLeaves
<1>4. CASE x \in Yes(s) \cup No(s)
  BY <1>1, <1>4, YesNoLeave
<1>5. QED
  BY <1>2, <1>3, <1>4 DEF CaptureObjectives

\* The jobs that only go somewhere with their priority, or stay busy.
LEMMA WalkLeaves ==
  ASSUME NEW s \in States, NEW x
  PROVE  /\ x \in SnipeSentries(s) => JobLeaves(x, s, "snipe-sentries")
         /\ x \in RunReload(s) => JobLeaves(x, s, "reload")
         /\ x \in StayNear(s) => JobLeaves(x, s, "stay-near")
         /\ x \in DoRoam(s) => JobLeaves(x, s, "roam")
<1>1. ASSUME NEW job \in JobNames, NEW p \in Listed, Rank(job) = p,
             x \in Go(s, p) \cup Yes(s) \cup No(s)
      PROVE  JobLeaves(x, s, job)
  BY <1>1, GoJobLeaves, YesNoLeave
<1>2. /\ Rank("snipe-sentries") = snipe_sentry /\ Rank("reload") = run_reload
      /\ Rank("stay-near") = staynear /\ Rank("roam") = patrol
      /\ snipe_sentry \in Listed /\ run_reload \in Listed /\ staynear \in Listed /\ patrol \in Listed
  BY RankIs, PriorityIs
<1>3. {"snipe-sentries", "reload", "stay-near", "roam"} \subseteq JobNames
  BY DEF JobNames
<1>4. /\ SnipeSentries(s) \subseteq Go(s, snipe_sentry) \cup Yes(s) \cup No(s)
      /\ RunReload(s) \subseteq Go(s, run_reload) \cup Yes(s) \cup No(s)
      /\ StayNear(s) \subseteq Go(s, staynear) \cup Yes(s) \cup No(s)
      /\ DoRoam(s) \subseteq Go(s, patrol) \cup Yes(s) \cup No(s)
  BY DEF SnipeSentries, RunReload, StayNear, DoRoam
<1>5. QED
  BY <1>1, <1>2, <1>3, <1>4

LEMMA SuppliesLeave ==
  ASSUME NEW s \in States, NEW x
  PROVE  /\ x \in RunSupply(s, health, FALSE) => JobLeaves(x, s, "health")
         /\ x \in RunSupply(s, ammo, FALSE) => JobLeaves(x, s, "ammo")
         /\ x \in RunSupply(s, lowprio_health, FALSE) => JobLeaves(x, s, "health-low")
<1>1. health # ammo /\ health # lowprio_health /\ ammo # lowprio_health
  BY PriorityIs
<1>2. /\ Rank("health") = health /\ Rank("ammo") = ammo /\ Rank("health-low") = lowprio_health
      /\ health >= health /\ ammo >= ammo /\ lowprio_health >= lowprio_health
  BY RankIs, PriorityIs
<1>3. ASSUME x \in RunSupply(s, health, FALSE) PROVE JobLeaves(x, s, "health")
  BY <1>1, <1>2, <1>3, RunSupplyJob
<1>4. ASSUME x \in RunSupply(s, ammo, FALSE) PROVE JobLeaves(x, s, "ammo")
  BY <1>1, <1>2, <1>4, RunSupplyJob
<1>5. ASSUME x \in RunSupply(s, lowprio_health, FALSE) PROVE JobLeaves(x, s, "health-low")
  BY <1>1, <1>2, <1>5, RunSupplyJob
<1>6. QED
  BY <1>3, <1>4, <1>5

LEMMA RunIs ==
  ASSUME NEW s
  PROVE  /\ Run("melee", s) = MeleeAttack(s) /\ Run("escape-danger", s) = EscapeDanger(s)
         /\ Run("health", s) = RunSupply(s, health, FALSE)
         /\ Run("ammo", s) = RunSupply(s, ammo, FALSE)
         /\ Run("engineer", s) = RunEngineerLogic(s)
         /\ Run("snipe-sentries", s) = SnipeSentries(s)
         /\ Run("capture", s) = CaptureObjectives(s)
         /\ Run("reload", s) = RunReload(s) /\ Run("stay-near", s) = StayNear(s)
         /\ Run("health-low", s) = RunSupply(s, lowprio_health, FALSE)
         /\ Run("roam", s) = DoRoam(s)
BY DEF Run

LEMMA EveryJobLeaves ==
  ASSUME NEW s \in States, NEW job \in JobNames, NEW x \in Run(job, s)
  PROVE  JobLeaves(x, s, job)
BY RunIs, MeleeLeaves, EscapeLeaves, EngineerLeaves, CaptureLeaves, WalkLeaves, SuppliesLeave
   DEF JobNames

-----------------------------------------------------------------------------
(* Types.                                                                  *)

LEMMA FreshTyped ==
  ASSUME TypeOK
  PROVE  /\ Fresh \in Outcomes /\ Fresh.task = "idle" /\ Fresh.s.e = engine
         /\ Fresh.s.b.repath = bot.repath /\ Fresh.s.b.force = bot.force
         /\ Fresh.s.b.lock = bot.lock
<1> DEFINE b == [bot EXCEPT !.cooldown = IF @ = "fresh" THEN "running" ELSE @]
<1>1. engine \in Engines /\ bot \in Bots
  BY DEF TypeOK, Engines, Bots
<1>2. b \in Bots /\ b.repath = bot.repath /\ b.force = bot.force /\ b.lock = bot.lock
  BY <1>1 DEF Bots
<1>3. Fresh = [task |-> "idle", s |-> [e |-> engine, b |-> b]]
  BY DEF Fresh
<1> HIDE DEF b
<1>4. QED
  BY <1>1, <1>2, <1>3 DEF Outcomes, States

\* A job that is tried, by its results.
LEMMA TryLeaves ==
  ASSUME NEW r \in Outcomes, NEW job \in JobNames, NEW q \in Try(r, job)
  PROVE  /\ q \in Outcomes
         /\ \/ r.task # "idle" /\ q = r
            \/ /\ r.task = "idle"
               /\ \E x \in Run(job, r.s) :
                    /\ JobLeaves(x, r.s, job)
                    /\ q.task = IF x.done THEN job ELSE "idle"
                    /\ q.s = x.s
<1>1. r.s \in States
  BY DEF Outcomes
<1>2. CASE r.task # "idle"
  BY <1>2 DEF Try
<1>3. CASE r.task = "idle"
  <2>1. PICK x \in Run(job, r.s) : q = [task |-> IF x.done THEN job ELSE "idle", s |-> x.s]
    BY <1>3 DEF Try
  <2>2. JobLeaves(x, r.s, job)
    BY <1>1, EveryJobLeaves
  <2>3. x.s \in States
    BY <2>2 DEF JobLeaves, Results
  <2>4. QED
    BY <1>3, <2>1, <2>2, <2>3 DEF Outcomes
<1>4. QED
  BY <1>2, <1>3

LEMMA TickTyped ==
  ASSUME TypeOK
  PROVE  Tick \subseteq Outcomes
<1> DEFINE Good == [n \in 0 .. 11 |-> Outcomes]
<1>1. Fresh \in Good[0]
  BY FreshTyped
<1>2. \A n \in 1 .. 11 : \A r \in Good[n - 1] : Try(r, Jobs[n]) \subseteq Good[n]
  BY TryLeaves, JobsTyped
<1>3. Good[11] = Outcomes
  OBVIOUS
<1> HIDE DEF Good
<1>4. QED
  BY <1>1, <1>2, <1>3, TickWithin

\* The types are kept, and a path always belongs to a job: whatever the jobs do
\* with the engine and their common timers in one tick.
THEOREM TypeCorrect == Spec => []TypeOK
<1>1. Init => TypeOK
  <2> SUFFICES ASSUME Init PROVE TypeOK
    OBVIOUS
  <2>1. /\ engine \in [priority : {0} \cup Priorities, pathing : BOOLEAN]
        /\ engine.pathing => engine.priority # 0
    BY DEF Init, Idle
  <2>2. bot \in [cooldown : {"out", "running", "fresh"}, repath : {"out", "running"},
                lock : {"out", "running"}, force : BOOLEAN]
    BY DEF Init
  <2>3. metal \in BOOLEAN
    BY NavBotAssumption DEF Init
  <2>4. QED
    BY <2>1, <2>2, <2>3 DEF Init, TypeOK
<1>2. TypeOK /\ [Next]_vars => TypeOK'
  <2> SUFFICES ASSUME TypeOK, [Next]_vars PROVE TypeOK'
    OBVIOUS
  <2>1. engine \in Engines /\ bot \in Bots
    BY DEF TypeOK, Engines, Bots
  <2>2. ASSUME engine' \in Engines, bot' \in Bots, turn' \in {"bot", "engine"}, UNCHANGED World
        PROVE  TypeOK'
    BY <2>2 DEF TypeOK, Engines, Bots, World
  <2>3. CASE BotTick
    <3>1. turn' \in {"bot", "engine"}
      BY <2>3 DEF BotTick
    <3>2. CASE CreateMoveAlive
      <4>1. PICK r \in Tick : engine' = r.s.e /\ bot' = r.s.b
        BY <3>2 DEF CreateMoveAlive
      <4>2. r.s.e \in Engines /\ r.s.b \in Bots
        BY TickTyped DEF Outcomes, States
      <4>3. QED
        BY <2>2, <3>1, <3>2, <4>1, <4>2 DEF CreateMoveAlive
    <3>3. CASE CreateMoveDisabled
      BY <2>1, <2>2, <3>1, <3>3, EnginesTyped DEF CreateMoveDisabled
    <3>4. CASE CreateMoveNotReady
      BY <2>1, <2>2, <3>1, <3>4 DEF CreateMoveNotReady
    <3>5. QED
      BY <2>3, <3>2, <3>3, <3>4 DEF BotTick
  <2>4. CASE EngineTick
    <3>1. Ticked(engine) \subseteq Engines
      <4>1. [priority |-> engine.priority, pathing |-> FALSE] \in Engines
        BY <2>1 DEF Engines
      <4>2. QED
        BY <2>1, <4>1, EnginesTyped DEF Ticked
    <3>2. engine' \in Engines
      BY <2>1, <2>4, <3>1, EnginesTyped DEF EngineTick
    <3>3. QED
      BY <2>1, <2>2, <2>4, <3>2 DEF EngineTick
  <2>5. CASE FollowBot
    <3>1. engine' = [priority |-> followbot, pathing |-> TRUE] \/ engine' = Idle
      BY <2>5 DEF FollowBot, Started
    <3>2. engine' \in Engines
      BY <3>1, EnginesTyped, PriorityIs
    <3>3. turn' \in {"bot", "engine"}
      BY <2>5 DEF FollowBot, TypeOK
    <3>4. QED
      BY <2>1, <2>2, <2>5, <3>2, <3>3 DEF FollowBot
  <2>6. CASE LevelInit
    BY <2>1, <2>2, <2>6, EnginesTyped DEF LevelInit, TypeOK, Bots
  <2>7. ASSUME NEW t \in Timers, Elapse(t) PROVE TypeOK'
    <3>1. bot' \in Bots
      BY <2>1, <2>7 DEF Elapse, Timers, Bots
    <3>2. QED
      BY <2>1, <2>2, <2>7, <3>1 DEF Elapse, TypeOK
  <2>8. CASE PhaseChanges
    BY <2>8 DEF PhaseChanges, TypeOK
  <2>9. CASE WorldChanges
    BY <2>9 DEF WorldChanges, TypeOK
  <2>10. CASE UNCHANGED vars
    BY <2>10 DEF vars, TypeOK
  <2>11. QED
    BY <2>3, <2>4, <2>5, <2>6, <2>7, <2>8, <2>9, <2>10 DEF Next
<1>3. QED
  BY <1>1, <1>2, PTL DEF Spec

-----------------------------------------------------------------------------
(* Paths of other jobs.                                                    *)

\* After each job that was tried: nobody was busy and the engine is as it was, or
\* somebody was, and of a lower priority only without taking the path.
PathLeft(r) ==
    /\ r.task = "idle" => r.s.e = engine
    /\ Rank(r.task) < engine.priority =>
         r.s.e.pathing /\ r.s.e.priority \in {engine.priority, lowprio_health, ammo}

LEMMA TickKeepsPath ==
  ASSUME TypeOK, engine.pathing, engine.priority \in Kept
  PROVE  \A r \in Tick : PathLeft(r)
<1> DEFINE S == {r \in Outcomes : PathLeft(r)}
           Good == [n \in 0 .. 11 |-> S]
<1>1. engine.priority \in Nat /\ 0 < engine.priority /\ engine.priority # 0
  BY PriorityIs
<1>2. Fresh \in Good[0]
  BY FreshTyped DEF PathLeft
<1>3. ASSUME NEW r \in S, NEW job \in JobNames, NEW q \in Try(r, job) PROVE q \in S
  <2>1. CASE r.task # "idle"
    BY <1>3, <2>1, TryLeaves
  <2>2. CASE r.task = "idle"
    <3>1. PICK x \in Run(job, r.s) : /\ JobLeaves(x, r.s, job)
                                     /\ q.task = IF x.done THEN job ELSE "idle"
                                     /\ q.s = x.s
      BY <1>3, <2>2, TryLeaves
    <3>2. r.s.e = engine
      BY <1>3, <2>2 DEF PathLeft
    <3>3. ~Own(job, engine.priority)
      BY PriorityIs DEF Own, IsHealth
    <3>4. ~x.done => q.task = "idle" /\ q.s.e = engine
      BY <3>1, <3>2, <3>3 DEF JobLeaves
    <3>5. x.done => q.task = job /\ q.task # "idle"
      BY <3>1 DEF JobNames
    <3>6. x.done /\ Rank(job) < engine.priority
          => q.s.e.pathing /\ q.s.e.priority \in {engine.priority, lowprio_health, ammo}
      BY <3>1, <3>2 DEF JobLeaves
    <3>7. PathLeft(q)
      BY <3>4, <3>5, <3>6 DEF PathLeft
    <3>8. q \in Outcomes
      BY <1>3, TryLeaves
    <3>9. QED
      BY <3>7, <3>8
  <2>3. QED
    BY <2>1, <2>2
<1>4. \A n \in 1 .. 11 : \A r \in Good[n - 1] : Try(r, Jobs[n]) \subseteq Good[n]
  <2> HIDE DEF S
  <2>1. QED
    BY <1>3, JobsTyped
<1>5. Good[11] = S
  OBVIOUS
<1>6. Tick \subseteq S
  <2> HIDE DEF Good, S
  <2>1. QED
    BY <1>2, <1>4, <1>5, TickWithin
<1>7. QED
  BY <1>6

\* No job of lower priority takes the path from the one that walks it, although all
\* are tried before they give up and several of them cancel or rename paths.
THEOREM PathKeptHolds == Spec => []PathKept
<1>1. TypeOK => PathKept
  <2> SUFFICES ASSUME TypeOK, engine.pathing, engine.priority \in Kept, NEW r \in Tick,
                      Rank(r.task) < engine.priority
               PROVE  r.s.e.pathing /\ r.s.e.priority \in {engine.priority, lowprio_health, ammo}
    BY DEF PathKept, Kept
  <2>1. QED
    BY TickKeepsPath DEF PathLeft
<1>2. QED
  BY <1>1, TypeCorrect, PTL

-----------------------------------------------------------------------------
(* The engineer on the way to metal.                                       *)

\* What keeps the path of the engineer: the path is not looked for again before its
\* time, and it is known who asked for it, or the supply is locked.
Trip(b) == b.repath = "running" /\ (b.force \/ b.lock = "running")

\* A search that is not busy may forget who asked, but then it has locked.
LEMMA SearchKeepsTrip ==
  ASSUME NEW s \in States, NEW x \in RunSupply(s, health, FALSE), ~x.done,
         s.e.priority = ammo, Trip(s.b)
  PROVE  Trip(x.s.b)
<1>1. health \in Listed /\ IsHealth(health) /\ ~IsHealth(ammo)
  BY PriorityIs DEF IsHealth
<1>2. ~Active(s, health)
  BY <1>1 DEF Active
<1>3. /\ Locked(s) \in States /\ Begun(s, health) \in States
      /\ Locked(s).b = [s.b EXCEPT !.lock = "running"]
      /\ Begun(s, health).b.lock = "running" /\ Begun(s, health).b.repath = s.b.repath
  BY <1>2, LockedBegun
<1>4. Locked(s).b.lock = "running" /\ Locked(s).b.repath = s.b.repath
  BY <1>3 DEF States, Bots
<1>5. ASSUME NEW r \in Remembered(s, health), ~r.done,
             x \in IF Busy(s, health) /\ r.s.b.lock = "running" THEN Yes(r.s)
                   ELSE GiveUp(r.s, health, Active(s, health))
      PROVE  Trip(x.s.b)
  <2>1. r.s = s
    BY <1>1, <1>5, RememberedLeaves DEF SupplyLeaves
  <2>2. CASE x \in Yes(s)
    BY <2>2, YesNo
  <2>3. CASE x \in GiveUp(s, health, Active(s, health))
    BY <1>1, <2>3, GiveUpLeaves, SupplyBooleans
  <2>4. QED
    BY <1>5, <2>1, <2>2, <2>3
<1>6. CASE x \in Yes(Locked(s)) \/ x \in No(Locked(s))
  <2>1. x.s = Locked(s)
    BY <1>3, <1>6, YesNo
  <2>2. QED
    BY <1>4, <2>1 DEF Trip
<1>7. ASSUME NEW r \in Remembered(Begun(s, health), health), ~r.done,
             x \in Fetch(r.s, health, FALSE, Busy(s, health))
      PROVE  Trip(x.s.b)
  <2>1. r.s = Begun(s, health)
    BY <1>1, <1>3, <1>7, RememberedLeaves DEF SupplyLeaves
  <2>2. x \in Fetch(Begun(s, health), health, FALSE, Busy(s, health)) /\ Busy(s, health) \in BOOLEAN
    BY <1>7, <2>1, SupplyBooleans
  <2>3. x.s.b.repath = Begun(s, health).b.repath /\ x.s.b.lock = Begun(s, health).b.lock
    <3>1. ASSUME NEW g \in States, NEW busy \in BOOLEAN, x \in Fetch(g, health, FALSE, busy)
          PROVE  x.s.b.repath = g.b.repath /\ x.s.b.lock = g.b.lock
      BY <1>1, <3>1, FetchLeaves
    <3>2. QED
      BY <1>3, <2>2, <3>1
  <2>4. QED
    BY <1>3, <2>3 DEF Trip
<1>8. \/ \E r \in Remembered(s, health) :
           ~r.done /\ x \in IF Busy(s, health) /\ r.s.b.lock = "running" THEN Yes(r.s)
                            ELSE GiveUp(r.s, health, Active(s, health))
      \/ x \in Yes(Locked(s)) \/ x \in No(Locked(s))
      \/ \E r \in Remembered(Begun(s, health), health) :
           ~r.done /\ x \in Fetch(r.s, health, FALSE, Busy(s, health))
  BY <1>1, RunSupplyCases
<1>9. QED
  BY <1>5, <1>6, <1>7, <1>8

\* The search for ammunition, the engineer's own or not, leaves the trip alone.
LEMMA AmmoKeepsTrip ==
  ASSUME NEW s \in States, NEW forced \in BOOLEAN, NEW x \in RunSupply(s, ammo, forced),
         s.e.priority = ammo, Trip(s.b)
  PROVE  x.s.e = s.e /\ (~x.done => x.s = s)
<1>1. ammo \in Listed /\ ~IsHealth(ammo)
  BY PriorityIs DEF IsHealth
<1>2. Active(s, ammo) /\ Busy(s, ammo) /\ Active(s, ammo) \in BOOLEAN
  BY <1>1, SupplyBooleans DEF Active, Busy
<1>3. Locked(s) \in States /\ Locked(s).e = s.e
  BY LockedBegun
<1>4. ASSUME NEW r \in Remembered(s, ammo) PROVE r.s = s /\ ~r.done
  BY <1>1, <1>4, RememberedLeaves DEF SupplyLeaves
<1>5. CASE x \in IF s.b.lock = "running" THEN Yes(s) ELSE GiveUp(s, ammo, Active(s, ammo))
  <2>1. CASE x \in Yes(s)
    BY <2>1, YesNo
  <2>2. CASE s.b.lock # "running" /\ x \in GiveUp(s, ammo, Active(s, ammo))
    BY <1>1, <1>2, <2>2, GiveUpLeaves DEF Trip
  <2>3. QED
    BY <1>5, <2>1, <2>2
<1>6. CASE x \in Yes(Locked(s))
  BY <1>3, <1>6, YesNo
<1>7. \/ \E r \in Remembered(s, ammo) :
           x \in IF r.s.b.lock = "running" THEN Yes(r.s)
                 ELSE GiveUp(r.s, ammo, Active(s, ammo))
      \/ x \in Yes(Locked(s))
  <2>1. s.b.repath # "out"
    BY DEF Trip
  <2>2. QED
    BY <1>1, <1>2, <1>4, <2>1, RunSupplyCases
<1>8. QED
  BY <1>4, <1>5, <1>6, <1>7

\* After n jobs that were tried, on the way to metal.
TripLeft(r, n) ==
    /\ r.task = "idle" => r.s.e = engine /\ (n <= 9 => Trip(r.s.b))
    /\ r.task \in {"ammo", "engineer"} => r.s.e = engine
    /\ r.task \notin {"melee", "escape-danger", "health", "capture"} => r.s.e.pathing

LEMMA TickKeepsTrip ==
  ASSUME TypeOK, isEngieMode, ~metal, engine = [priority |-> ammo, pathing |-> TRUE], Trip(bot)
  PROVE  \A r \in Tick : TripLeft(r, 11)
<1> DEFINE S(n) == {r \in Outcomes : TripLeft(r, n)}
           Good == [n \in 0 .. 11 |-> S(n)]
<1>1. Fresh \in Good[0]
  <2>1. Fresh \in Outcomes /\ TripLeft(Fresh, 0)
    <3>1. Trip(Fresh.s.b)
      BY FreshTyped DEF Trip
    <3>2. QED
      BY <3>1, FreshTyped DEF TripLeft
  <2>2. QED
    BY <2>1
<1>2. ASSUME NEW n \in 1 .. 11, NEW r \in S(n - 1), NEW q \in Try(r, Jobs[n]) PROVE q \in S(n)
  <2> DEFINE job == Jobs[n]
  <2>1. job \in JobNames
    BY JobsTyped
  <2>2. q \in Outcomes
    BY <1>2, <2>1, TryLeaves
  <2>3. CASE r.task # "idle"
    BY <1>2, <2>1, <2>3, TryLeaves DEF TripLeft
  <2>4. CASE r.task = "idle"
    <3>1. PICK x \in Run(job, r.s) : /\ JobLeaves(x, r.s, job)
                                     /\ q.task = IF x.done THEN job ELSE "idle"
                                     /\ q.s = x.s
      BY <1>2, <2>1, <2>4, TryLeaves
    <3>2. r.s \in States /\ r.s.e = engine /\ (n <= 10 => Trip(r.s.b))
      BY <1>2, <2>4 DEF TripLeft, Outcomes
    <3>3. engine.priority = ammo /\ engine.pathing
      OBVIOUS
    <3>4. ~IsHealth(ammo) /\ ammo # prio_melee /\ ammo # danger
      BY PriorityIs DEF IsHealth
    <3>5. CASE job = "ammo"
      <4>1. n <= 10
        BY <3>5, JobsTyped
      <4>2. x \in RunSupply(r.s, ammo, FALSE)
        BY <3>1, <3>5, RunIs
      <4>3. x.s.e = engine /\ (~x.done => x.s = r.s)
        BY <3>2, <3>3, <4>1, <4>2, AmmoKeepsTrip
      <4>4. QED
        BY <2>2, <3>1, <3>2, <3>3, <3>5, <4>1, <4>3 DEF TripLeft
    <3>6. CASE job = "engineer"
      <4>1. n <= 10
        BY <3>6, JobsTyped
      <4>2. x \in No(r.s) \/ x \in RunSupply(r.s, ammo, TRUE)
        BY <3>1, <3>6, RunIs DEF RunEngineerLogic
      <4>3. x.s.e = engine /\ (~x.done => x.s = r.s)
        <5>1. CASE x \in No(r.s)
          BY <3>2, <5>1, YesNo
        <5>2. CASE x \in RunSupply(r.s, ammo, TRUE)
          BY <3>2, <3>3, <4>1, <5>2, AmmoKeepsTrip
        <5>3. QED
          BY <4>2, <5>1, <5>2
      <4>4. QED
        BY <2>2, <3>1, <3>2, <3>3, <3>6, <4>1, <4>3 DEF TripLeft
    <3>7. CASE job \notin {"ammo", "engineer"}
      <4>1. ~Own(job, ammo)
        BY <3>4, <3>7 DEF Own
      <4>2. ~x.done => x.s.e = engine
        BY <3>1, <3>2, <3>3, <4>1 DEF JobLeaves
      <4>3. ~x.done /\ n <= 9 => Trip(x.s.b)
        <5>1. CASE job = "health"
          <6>1. x \in RunSupply(r.s, health, FALSE)
            BY <3>1, <5>1, RunIs
          <6>2. r.s.e.priority = ammo /\ r.s \in States
            BY <3>2, <3>3
          <6>3. n <= 9 => Trip(r.s.b)
            BY <3>2
          <6>4. QED
            BY <6>1, <6>2, <6>3, SearchKeepsTrip
        <5>2. CASE job # "health" /\ n <= 9
          <6>1. job # "health-low"
            BY <5>2, JobsTyped
          <6>2. x.s.b = r.s.b
            BY <3>1, <3>7, <5>2, <6>1 DEF JobLeaves
          <6>3. QED
            BY <3>2, <5>2, <6>2
        <5>3. QED
          BY <5>1, <5>2
      <4>4. ASSUME x.done, job \notin {"melee", "escape-danger", "health", "capture"}
            PROVE  x.s.e.pathing
        <5>1. Rank(job) < ammo
          BY <2>1, <3>7, <4>4, RankIs, PriorityIs DEF JobNames
        <5>2. QED
          BY <3>1, <3>2, <3>3, <4>4, <5>1 DEF JobLeaves
      <4>5. QED
        BY <2>1, <2>2, <3>1, <3>3, <3>7, <4>2, <4>3, <4>4 DEF TripLeft, JobNames
    <3>8. QED
      BY <3>5, <3>6, <3>7
  <2>5. QED
    BY <2>3, <2>4
<1>3. \A n \in 1 .. 11 : \A r \in Good[n - 1] : Try(r, Jobs[n]) \subseteq Good[n]
  <2> HIDE DEF S
  <2>1. QED
    BY <1>2
<1>4. Good[11] = S(11)
  OBVIOUS
<1>5. Tick \subseteq S(11)
  <2> HIDE DEF Good, S
  <2>1. QED
    BY <1>1, <1>3, <1>4, TickWithin
<1>6. QED
  BY <1>5

\* The engineer's own search leaves a path that is one to ammunition, or it is
\* remembered that the engineer asked.
LEMMA EngineerRemembers ==
  ASSUME NEW s \in States, NEW x \in RunSupply(s, ammo, TRUE), x.done
  PROVE  x.s.b.force = TRUE \/ (x.s.e = s.e /\ s.e.priority = ammo)
<1>1. ammo \in Listed /\ ~IsHealth(ammo) /\ TRUE \in BOOLEAN
  BY PriorityIs DEF IsHealth
<1>2. Active(s, ammo) <=> s.e.priority = ammo
  BY <1>1 DEF Active
<1>3. Busy(s, ammo) => Active(s, ammo)
  BY DEF Busy
<1>4. /\ Locked(s) \in States /\ Locked(s).e = s.e
      /\ Begun(s, ammo) \in States /\ Begun(s, ammo).e = s.e
  BY LockedBegun
<1>5. CASE Active(s, ammo) /\ x \in Yes(Locked(s))
  BY <1>2, <1>4, <1>5, YesNo
<1>6. ASSUME NEW r \in Remembered(Begun(s, ammo), ammo), ~r.done,
             x \in Fetch(r.s, ammo, TRUE, Busy(s, ammo))
      PROVE  x.s.b.force = TRUE \/ (Busy(s, ammo) /\ x.s.e = s.e)
  <2>1. r.s = Begun(s, ammo)
    BY <1>1, <1>4, <1>6, RememberedLeaves DEF SupplyLeaves
  <2>2. x \in Fetch(Begun(s, ammo), ammo, TRUE, Busy(s, ammo)) /\ Busy(s, ammo) \in BOOLEAN
    BY <1>6, <2>1, SupplyBooleans
  <2>3. x.s.b.force = TRUE \/ (Busy(s, ammo) /\ x.s.e = Begun(s, ammo).e)
    <3>1. ASSUME NEW g \in States, NEW forced \in BOOLEAN, NEW busy \in BOOLEAN,
                 x \in Fetch(g, ammo, forced, busy)
          PROVE  x.s.b.force = forced \/ (busy /\ x.s.e = g.e)
      BY <1>1, <3>1, FetchLeaves
    <3>2. QED
      BY <1>1, <1>4, <2>2, <3>1
  <2>4. QED
    BY <1>4, <2>3
<1>7. CASE x \in Remembered(Begun(s, ammo), ammo) /\ x.done
  BY <1>1, <1>4, <1>7, RememberedLeaves
<1>8. \/ Active(s, ammo) /\ x \in Yes(Locked(s))
      \/ x \in Remembered(Begun(s, ammo), ammo) /\ x.done
      \/ \E r \in Remembered(Begun(s, ammo), ammo) :
           ~r.done /\ x \in Fetch(r.s, ammo, TRUE, Busy(s, ammo))
  BY <1>1, RunSupplyCases
<1>9. QED
  BY <1>2, <1>3, <1>5, <1>6, <1>7, <1>8

\* Whoever was turned back, and what the search of the engineer's turn leaves then.
TurnedBack(r) ==
    /\ r.task = "idle" => r.s.e \in {engine, Idle}
    /\ r.task = "engineer" => r.s.e = engine \/ r.s.b.force

LEMMA TickResumesTrip ==
  ASSUME TypeOK, isEngieMode, ~metal, engine = [priority |-> ammo, pathing |-> TRUE]
  PROVE  \A r \in Tick : TurnedBack(r)
<1> DEFINE S == {r \in Outcomes : TurnedBack(r)}
           Good == [n \in 0 .. 11 |-> S]
<1>1. Fresh \in Good[0]
  BY FreshTyped DEF TurnedBack
<1>2. Idle.priority # ammo
  BY PriorityIs DEF Idle
<1>3. ASSUME NEW r \in S, NEW job \in JobNames, NEW q \in Try(r, job) PROVE q \in S
  <2>1. CASE r.task # "idle"
    BY <1>3, <2>1, TryLeaves
  <2>2. CASE r.task = "idle"
    <3>1. PICK x \in Run(job, r.s) : /\ JobLeaves(x, r.s, job)
                                     /\ q.task = IF x.done THEN job ELSE "idle"
                                     /\ q.s = x.s
      BY <1>3, <2>2, TryLeaves
    <3>2. r.s.e \in {engine, Idle} /\ r.s \in States
      BY <1>3, <2>2 DEF TurnedBack, Outcomes
    <3>3. ~x.done => q.task = "idle" /\ q.s.e \in {engine, Idle}
      BY <3>1, <3>2 DEF JobLeaves
    <3>4. x.done => q.task = job /\ q.task # "idle"
      BY <3>1 DEF JobNames
    <3>5. ASSUME x.done, job = "engineer" PROVE q.s.e = engine \/ q.s.b.force
      <4>1. x \in No(r.s) \/ x \in RunSupply(r.s, ammo, TRUE)
        BY <3>1, <3>5, RunIs DEF RunEngineerLogic
      <4>2. x \in RunSupply(r.s, ammo, TRUE)
        BY <3>2, <3>5, <4>1, YesNo
      <4>3. x.s.b.force = TRUE \/ (x.s.e = r.s.e /\ r.s.e.priority = ammo)
        BY <3>2, <3>5, <4>2, EngineerRemembers
      <4>4. QED
        BY <1>2, <3>1, <3>2, <4>3
    <3>6. TurnedBack(q)
      BY <3>3, <3>4, <3>5 DEF TurnedBack
    <3>7. q \in Outcomes
      BY <1>3, TryLeaves
    <3>8. QED
      BY <3>6, <3>7
  <2>3. QED
    BY <2>1, <2>2
<1>4. \A n \in 1 .. 11 : \A r \in Good[n - 1] : Try(r, Jobs[n]) \subseteq Good[n]
  <2> HIDE DEF S
  <2>1. QED
    BY <1>3, JobsTyped
<1>5. Good[11] = S
  OBVIOUS
<1>6. Tick \subseteq S
  <2> HIDE DEF Good, S
  <2>1. QED
    BY <1>1, <1>4, <1>5, TickWithin
<1>7. QED
  BY <1>6

\* The search for ammunition that runs before the engineer's in the same tick does
\* not turn an engineer back who is on the way to metal, until it is forgotten who
\* asked for the path and the lock of the supplies is out; after that, the engineer's
\* own search in the same tick finds the path as it was or makes known again who asks.
THEOREM MetalTripKeptHolds == Spec => []MetalTripKept
<1>1. TypeOK => MetalTripKept
  <2>1. SUFFICES ASSUME TypeOK, isEngieMode, ~metal,
                        engine = [priority |-> ammo, pathing |-> TRUE], NEW r \in Tick
                 PROVE  /\ r.task = "engineer" => r.s.e = engine \/ r.s.b.force
                        /\ bot.repath = "running" /\ (bot.force \/ bot.lock = "running")
                           => /\ r.task \in {"ammo", "engineer"} => r.s.e = engine
                              /\ r.task \notin {"melee", "escape-danger", "health", "capture"}
                                 => r.s.e.pathing
    BY DEF MetalTripKept
  <2>2. r.task = "engineer" => r.s.e = engine \/ r.s.b.force
    BY <2>1, TickResumesTrip DEF TurnedBack
  <2>3. ASSUME Trip(bot)
        PROVE  /\ r.task \in {"ammo", "engineer"} => r.s.e = engine
               /\ r.task \notin {"melee", "escape-danger", "health", "capture"} => r.s.e.pathing
    BY <2>1, <2>3, TickKeepsTrip DEF TripLeft
  <2>4. QED
    BY <2>2, <2>3 DEF Trip
<1>2. QED
  BY <1>1, TypeCorrect, PTL

=============================================================================
