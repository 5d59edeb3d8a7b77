------------------------------- MODULE NavBot -------------------------------
(***************************************************************************)
(* The bot of src/hacks/NavBot.cpp: in every tick it tries its jobs in one *)
(* order, until one says that it is busy, and all of them share one        *)
(* navigation engine.  The engine is PathEngine, which NavEngine           *)
(* implements.                                                             *)
(*                                                                         *)
(* A job is an operator from the state s == [e, b] of engine and bot to    *)
(* the set of results [done, s] it may have.  Where the code measures      *)
(* distances, tests visibility, reads a setting or waits for a timer of    *)
(* its own, the model chooses; what the jobs share is kept: the priority,  *)
(* the path, the timers of all supplies, and who asked for ammunition.     *)
(*                                                                         *)
(* In every frame the engine's CreateMove comes first and the bot's last,  *)
(* with the follow bot's somewhere before; the world and the settings      *)
(* change between frames.                                                  *)
(***************************************************************************)
EXTENDS PathEngine, Sequences

CONSTANTS
    Classes,    \* whether the bot may be an engineer, and whether not
    Hps,        \* the levels of health that are visited
    Clips,      \* the levels of ammunition that are visited
    Phases      \* the phases of a game that are visited

\* Below 64 %, up to 80 %, below 90 % (or below 64 % and being healed), below
\* 92 %, and above.
Levels == {"hurt", "worn", "fair", "good", "full"}

ASSUME NavBotAssumption ==
    /\ Classes \subseteq BOOLEAN /\ Hps \subseteq Levels
    /\ Clips \subseteq {"low", "some", "enough"}
    /\ Phases \subseteq {"alive", "dead", "unready", "off"}

VARIABLES
    bot,          \* the timers of all supplies, and supply_was_force
    turn,         \* whose CreateMove the game calls next
    phase,        \* the player is alive or dead, the engine unready, the bot off
    isEngieMode,  \* the bot is an engineer that builds
    hp,           \* the health
    clip,         \* the ammunition: low, low enough to go on fetching some, enough
    metal,        \* what the engineer wants to do next can be paid for
    reached       \* the supplies there is a way to, if a job above has no path

vars == <<engine, bot, turn, phase, isEngieMode, hp, clip, metal, reached>>

World == <<phase, isEngieMode, hp, clip, metal, reached>>

\* Priority_list
patrol == 5
lowprio_health == 6
staynear == 7
run_reload == 8
snipe_sentry == 9
followbot == 10
ammo == 11
capture == 12
prio_melee == 13
engineer == 14
health == 15
danger == 16

ASSUME PriorityListAssumption == patrol..danger \subseteq Priorities

\* The timers are supply_cooldown_timer, supply_repath_timer and
\* sticky_supply_lock_timer. One is out or running; of the first, whether it was
\* restarted in the last tick.
Init ==
    /\ engine = Idle /\ turn = "engine"
    /\ bot = [cooldown |-> "out", repath |-> "out", lock |-> "out", force |-> FALSE]
    /\ phase \in Phases /\ isEngieMode \in Classes
    /\ hp \in Hps /\ clip \in Clips /\ metal \in {isEngieMode, FALSE}
    /\ reached \in SUBSET {"health", "ammo"}

-----------------------------------------------------------------------------
(* Results of a job.                                                       *)

Yes(s) == {[done |-> TRUE, s |-> s]}
No(s) == {[done |-> FALSE, s |-> s]}

\* What is done when a job, or a part of one, was not busy.
OrElse(results, J(_)) ==
    {r \in results : r.done} \cup UNION {J(r.s) : r \in {x \in results : ~x.done}}

With(s, e) == [s EXCEPT !.e = e]

\* Faulty: a job that was cancelled leaves its path.
CancelIf_KeepsPath(c, s) == IF c THEN [s EXCEPT !.e.priority = 0] ELSE s

CancelIf(c, s) == IF c THEN With(s, Idle) ELSE s

\* navTo, where it finds a way.
Gone(s, p) == UNION {Yes(With(s, e)) : e \in Started(s.e, p)}

\* navTo; the bot does not know whether there is a way.
Go(s, p) == Gone(s, p) \cup No(s)

-----------------------------------------------------------------------------
(* Supplies.                                                               *)

IsHealth(p) == p \in {health, lowprio_health}

NeedsHealth(p) == hp \in {"hurt", "worn", "fair"} \cup (IF p = lowprio_health THEN {"good"} ELSE {})

\* The patrol gives way to a supply at 80 %; nobody else does before 64 %.
ShouldSearchHealth(e, p) ==
    /\ e.priority <= health
    /\ IF IsHealth(e.priority) THEN NeedsHealth(p)
       ELSE hp = "hurt" \/ (hp = "worn" /\ p = lowprio_health /\ e.priority <= patrol)

ShouldSearchAmmo(e) ==
    /\ e.priority <= ammo
    /\ clip = "low" \/ (clip = "some" /\ e.priority = ammo)

Reached(p) == (IF IsHealth(p) THEN "health" ELSE "ammo") \in reached

\* At a dispenser the job is taken over, with a path or without; a dispenser that
\* is not near is gone to.
GetDispenser(s, p) == Yes([s EXCEPT !.e.priority = p]) \cup Go(s, p)

\* A pack that is near is walked to; with a way to the supply one cannot fail to
\* get it, except by a path that is above.
GetSupply(s, p) ==
    LET got == Yes(s) \cup GetDispenser(s, p)
    IN  IF Reached(p) /\ p >= s.e.priority THEN got \ No(s) ELSE got

\* A dispenser that was seen in the last two seconds, if one was.
Remembered(s, p) == IF IsHealth(p) /\ NeedsHealth(p) THEN GetDispenser(s, p) \cup No(s) ELSE No(s)

Failed(s) == No([s EXCEPT !.b.cooldown = "fresh"])

\* Faulty: the path to a supply is kept when it is no longer needed.
GiveUp_Not(s, p, active) == No(s)

\* Faulty: the path that the engineer asked for is dropped as well.
GiveUp_Forced(s, p, active) == No(CancelIf(active, s))

\* The path to a supply that is no longer wanted; but not when the engineer
\* asked for it.
GiveUp(s, p, active) == No(CancelIf(active /\ (IsHealth(p) \/ ~s.b.force), s))

\* The supply is looked for: none is known, the best one is fetched, or there is
\* no way to it.
Fetch(s, p, forced, busy) ==
    LET got == GetSupply(s, p)
    IN  {[r EXCEPT !.s.b.force = forced] : r \in {x \in got : x.done}}
        \cup (IF \A r \in got : r.done THEN {} ELSE Failed(s))
        \cup (IF busy /\ ~Reached(p) THEN Yes(s) ELSE {})

\* The timers are those of all supplies, and so is force. A supply that is being
\* fetched is locked for 1250 ms after it was last wanted.
RunSupply(s, p, forced) ==
    LET active == IF IsHealth(p) THEN IsHealth(s.e.priority) ELSE s.e.priority = ammo
        busy   == active /\ (p = ammo \/ NeedsHealth(p))
        wanted == IF IsHealth(p) THEN ShouldSearchHealth(s.e, p) ELSE ShouldSearchAmmo(s.e)
        locked == [s EXCEPT !.b.lock = "running"]
        begun  == [locked EXCEPT !.b = [@ EXCEPT !.repath = IF active THEN "running" ELSE s.b.repath,
                                                 !.force = FALSE]]
    IN  IF ~forced /\ ~wanted
        THEN OrElse(Remembered(s, p),
                    LAMBDA t : IF busy /\ t.b.lock = "running" THEN Yes(t) ELSE GiveUp(t, p, active))
        ELSE IF ~forced /\ s.b.cooldown # "out" THEN (IF active THEN Yes(locked) ELSE No(locked))
        ELSE IF active /\ s.b.repath # "out" THEN Yes(locked)
        ELSE OrElse(Remembered(begun, p), LAMBDA t : Fetch(t, p, forced, busy))

-----------------------------------------------------------------------------
(* The other jobs.                                                         *)

\* There may be nobody to attack, who is then left; the bot charges or walks at
\* them without the engine; waits for its timer; or goes there.
MeleeAttack(s) ==
    No(CancelIf(s.e.priority = prio_melee, s))
    \cup IF s.e.priority > prio_melee THEN {}
         ELSE Yes(With(s, Idle)) \cup Go(s, prio_melee)
              \cup (IF ~s.e.pathing THEN {}
                    ELSE IF s.e.priority = prio_melee THEN Yes(s) ELSE No(s))

\* The bot carries the flag or is at a spot where nothing could be built; is not
\* in danger; is already on its way; or goes to one of five areas.
EscapeDanger(s) ==
    No(s) \cup No(CancelIf(s.e.priority = danger, s)) \cup Go(s, danger)
    \cup (IF s.e.priority = danger THEN Yes(s) ELSE {})

\* Build where the bot stands, or go to its sentry, or to where one could be.
BuildBuilding(s) == Yes(s) \cup Go(s, engineer)

\* A building that is not near is gone to, unless the engine has the priority.
SmackBuilding(s) == Yes(s) \cup (IF s.e.priority = engineer THEN {} ELSE Go(s, engineer))

\* Without metal some is fetched, whatever the timers say, unless nothing could be
\* built here in fifteen attempts.
RunEngineerLogic(s) ==
    No(s) \cup IF ~isEngieMode THEN {}
               ELSE IF ~metal THEN RunSupply(s, ammo, TRUE)
               ELSE BuildBuilding(s) \cup SmackBuilding(s)

\* As long as the last sentry is there, the job is busy between its attempts.
SnipeSentries(s) == Yes(s) \cup Go(s, snipe_sentry)

\* Faulty: whoever has the priority is cancelled at the objective.
CaptureObjectives_NoGuard(s) == No(s) \cup Yes(With(s, Idle)) \cup Go(s, capture)

\* At the objective the bot stands still; a path to it is not asked for again.
CaptureObjectives(s) ==
    No(s) \cup IF s.e.priority > capture THEN {} ELSE Yes(With(s, Idle)) \cup Go(s, capture)

RunReload(s) == Go(s, run_reload) \cup (IF s.e.priority = run_reload THEN Yes(s) ELSE {})

\* The target may be seen from where the bot is, or from where its path ends.
StayNear(s) == Go(s, staynear) \cup (IF s.e.priority <= staynear THEN Yes(s) ELSE {})

\* Nothing is defended: defend_while_patrolling is off.
DoRoam(s) ==
    IF s.e.priority # patrol THEN Go(s, patrol)
    ELSE No(s) \cup (IF s.e.pathing THEN Yes(s) ELSE {})

Run(job, s) ==
    CASE job = "melee"          -> MeleeAttack(s)
      [] job = "escape-danger"  -> EscapeDanger(s)
      [] job = "health"         -> RunSupply(s, health, FALSE)
      [] job = "ammo"           -> RunSupply(s, ammo, FALSE)
      [] job = "engineer"       -> RunEngineerLogic(s)
      [] job = "snipe-sentries" -> SnipeSentries(s)
      [] job = "capture"        -> CaptureObjectives(s)
      [] job = "reload"         -> RunReload(s)
      [] job = "stay-near"      -> StayNear(s)
      [] job = "health-low"     -> RunSupply(s, lowprio_health, FALSE)
      [] job = "roam"           -> DoRoam(s)

\* Faulty: ammunition comes before health.
Jobs_AmmoFirst == <<"melee", "escape-danger", "ammo", "health", "engineer", "snipe-sentries",
                    "capture", "reload", "stay-near", "health-low", "roam">>

\* Faulty: health is looked for with any priority before ammunition is.
Jobs_LowFirst == <<"melee", "escape-danger", "health", "health-low", "ammo", "engineer",
                   "snipe-sentries", "capture", "reload", "stay-near", "roam">>

Jobs == <<"melee", "escape-danger", "health", "ammo", "engineer", "snipe-sentries",
          "capture", "reload", "stay-near", "health-low", "roam">>

\* The first job that is busy is the task of the tick; the rest are not tried.
Try(r, job) ==
    IF r.task # "idle" THEN {r}
    ELSE {[task |-> IF x.done THEN job ELSE "idle", s |-> x.s] : x \in Run(job, r.s)}

TryAll(results, job) == UNION {Try(r, job) : r \in results}

Fresh == [task |-> "idle",
          s |-> [e |-> engine, b |-> [bot EXCEPT !.cooldown = IF @ = "fresh" THEN "running" ELSE @]]]

\* The results of a tick: the task and what it leaves.
Tick ==
    LET tried[n \in 0 .. Len(Jobs)] ==
            IF n = 0 THEN {Fresh} ELSE TryAll(tried[n - 1], Jobs[n])
    IN  tried[Len(Jobs)]

-----------------------------------------------------------------------------
(* The handlers.                                                           *)

CreateMoveAlive ==
    /\ phase = "alive"
    /\ UNCHANGED World
    /\ \E r \in Tick : engine' = r.s.e /\ bot' = r.s.b

\* A path of the bot is cancelled, one of FollowBot is not.
CreateMoveDisabled ==
    /\ phase = "off"
    /\ engine' = IF engine.priority \in patrol..danger \ {followbot} THEN Idle ELSE engine
    /\ UNCHANGED <<bot, World>>

\* A player who is dead, and an engine that is not ready, are left alone.
CreateMoveNotReady == phase \in {"unready", "dead"} /\ UNCHANGED <<engine, bot, World>>

BotTick ==
    /\ turn = "bot" /\ turn' = "engine"
    /\ CreateMoveAlive \/ CreateMoveDisabled \/ CreateMoveNotReady

\* An engine that is not ready waits, or cancels what is left of a job.
EngineTick ==
    /\ turn = "engine" /\ turn' = "bot"
    /\ engine' \in CASE phase = "dead"    -> {Idle}
                     [] phase = "unready" -> {engine, Idle}
                     [] OTHER             -> Ticked(engine)
    /\ UNCHANGED <<bot, World>>

\* The follow bot leaves a path above its own alone. It asks for a path to its
\* target; or, as soon as it follows on foot, cancels the path there is, of
\* whatever job; or its own, when it has no target or the player is dead.
FollowBot ==
    /\ engine.priority <= followbot
    /\ \/ phase \in {"alive", "off"} /\ engine' \in Started(engine, followbot)
       \/ engine' = Idle
    /\ UNCHANGED <<bot, turn, World>>

LevelInit ==
    /\ turn = "engine" /\ engine' = Idle
    /\ bot' = [bot EXCEPT !.force = FALSE]
    /\ UNCHANGED <<turn, World>>

Timers == {"cooldown", "repath", "lock"}

\* A second, or two, since the timer was restarted; ticks come more often than
\* that, when they come.
Elapse(t) ==
    /\ bot[t] = "running" \/ (bot[t] = "fresh" /\ phase # "alive")
    /\ bot' = [bot EXCEPT ![t] = "out"]
    /\ UNCHANGED <<engine, turn, World>>

PhaseChanges ==
    /\ turn = "engine" /\ phase' \in Phases \ {phase}
    /\ UNCHANGED <<engine, bot, turn, isEngieMode, hp, clip, metal, reached>>

\* Damage, shots, supplies that come and go.
WorldChanges ==
    /\ turn = "engine" /\ phase = "alive"
    /\ \/ hp' \in Hps /\ UNCHANGED <<clip, metal, reached>>
       \/ clip' \in Clips /\ UNCHANGED <<hp, metal, reached>>
       \/ isEngieMode /\ metal' = ~metal /\ UNCHANGED <<hp, clip, reached>>
       \/ reached' \in SUBSET {"health", "ammo"} /\ UNCHANGED <<hp, clip, metal>>
    /\ UNCHANGED <<engine, bot, turn, phase, isEngieMode>>

Next ==
    \/ BotTick \/ EngineTick \/ FollowBot \/ LevelInit
    \/ \E t \in Timers : Elapse(t)
    \/ PhaseChanges \/ WorldChanges

Spec == Init /\ [][Next]_vars

\* The game calls the handlers of CreateMove in every frame, and time passes.
FairSpec ==
    Spec /\ WF_turn(turn' \in {"bot", "engine"}) /\ \A t \in Timers : WF_vars(Elapse(t))

-----------------------------------------------------------------------------
(* Properties.                                                             *)

\* The types, and that a path is always that of a job.
TypeOK ==
    /\ engine \in [priority : {0} \cup Priorities, pathing : BOOLEAN]
    /\ engine.pathing => engine.priority # 0
    /\ bot \in [cooldown : {"out", "running", "fresh"}, repath : {"out", "running"},
                lock : {"out", "running"}, force : BOOLEAN]
    /\ turn \in {"bot", "engine"} /\ phase \in Phases /\ isEngieMode \in Classes
    /\ hp \in Hps /\ clip \in Clips /\ metal \in BOOLEAN
    /\ reached \subseteq {"health", "ammo"}

\* The next tick of the bot ends with one of these jobs.
Surely(jobs) == \A r \in Tick : r.task \in jobs

\* A bot with too little health, and a way to more, goes for it, whatever it did
\* before and whatever other supplies it misses: only the enemy it fights or flees
\* comes first. (An engineer who lacks metal as well may wait for ever.)
HealthServed ==
    LET hurt == phase = "alive" /\ hp = "hurt" /\ "health" \in reached /\ ~isEngieMode
    IN  hurt ~> ~hurt \/ engine.priority = danger
                \/ Surely({"melee", "escape-danger", "health"})

\* A bot that is not hurt, has too little ammunition and a way to more goes for it
\* unless a job above is being done: the search for more health than it needs,
\* which shares the timers, comes later and cannot keep it from that.
AmmoServed ==
    LET short == /\ phase = "alive" /\ hp # "hurt" /\ clip = "low" /\ "ammo" \in reached
                 /\ engine.priority <= ammo
    IN  short ~> ~short \/ Surely({"melee", "escape-danger", "health", "ammo"})

\* The path to a supply that is no longer needed is given up, so that the jobs
\* below are not locked out: by RunSupply, once the lock has run out.
Released ==
    LET useless == phase = "alive" /\ \/ IsHealth(engine.priority) /\ hp = "full"
                                      \/ /\ engine.priority = ammo /\ ~bot.force
                                         /\ clip = "enough" /\ hp # "hurt"
    IN  useless ~> ~useless

\* An engineer is not turned back from the way to metal by the search for
\* ammunition, which runs before the engineer's own in the same tick and does not
\* know of the metal: not as long as the program remembers who asked for the path,
\* and when a search for health, which shares its timers, has made it forget that,
\* not before the lock of the supplies is out. After that the path is given up,
\* although metal is lacking still; if the engineer's turn comes in that tick, the
\* way is looked for again and it is remembered once more who asked.
MetalTripKept ==
    /\ phase = "alive" /\ isEngieMode /\ ~metal /\ engine = [priority |-> ammo, pathing |-> TRUE]
    => \A r \in Tick :
         /\ r.task = "engineer" => r.s.e = engine \/ r.s.b.force
         /\ bot.repath = "running" /\ (bot.force \/ bot.lock = "running")
            => /\ r.task \in {"ammo", "engineer"} => r.s.e = engine
               /\ r.task \notin {"melee", "escape-danger", "health", "capture"} => r.s.e.pathing

Rank(task) ==
    CASE task = "melee"          -> prio_melee
      [] task = "escape-danger"  -> danger
      [] task = "health"         -> health
      [] task = "ammo"           -> ammo
      [] task = "engineer"       -> engineer
      [] task = "snipe-sentries" -> snipe_sentry
      [] task = "capture"        -> capture
      [] task = "reload"         -> run_reload
      [] task = "stay-near"      -> staynear
      [] task = "health-low"     -> lowprio_health
      [] task = "roam"           -> patrol
      [] task = "idle"           -> 0

\* A tick that ends with a job of lower priority leaves a path as it was: none of
\* the jobs tried on the way takes it from the one that walks it. (At a dispenser
\* the path may be renamed; melee, danger and supplies end their own.)
PathKept ==
    phase = "alive" /\ engine.pathing
    /\ engine.priority \in {staynear, run_reload, snipe_sentry, followbot, capture, engineer}
    => \A r \in Tick : Rank(r.task) < engine.priority =>
         r.s.e.pathing /\ r.s.e.priority \in {engine.priority, lowprio_health, ammo}

=============================================================================
