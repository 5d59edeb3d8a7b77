------------------------------ MODULE Tickbase ------------------------------
(***************************************************************************)
(* The tick counters of hacks/Tickbase.cpp.  The engine calls CL_Move once *)
(* per tick; the hook (Move) either lets the tick through, keeps it in     *)
(* shifted_ticks, or runs several kept ticks at once, until shifted_ticks  *)
(* is down to shifted_goal.  Every tick that is run builds a command, and  *)
(* in the middle of that the engine calls CreateMove, which may start a    *)
(* doubletap: it lowers the goal of the loop that is running.              *)
(*                                                                         *)
(* All of it runs on the game's thread.  One action is one tick that is    *)
(* run, so that what CreateMove changes is seen by the rest of the loop.   *)
(***************************************************************************)
EXTENDS Integers, FiniteSetsExt

CONSTANTS
  kMaxShift,  \* 22 in the code
  ServerTicks \* the values of sv_maxusrcmdprocessticks that a server may set

ASSUME ShiftAssumption == kMaxShift \in Nat \ {0, 1}
ASSUME ServerAssumption == ServerTicks \subseteq Nat /\ ServerTicks # {}

VARIABLES
  sv_max,           \* the server's limit, 0 for none
  warp_enabled, dt_enabled, \* settings
  shifted_ticks, shifted_goal, goal_reached,
  recharge_queued, in_recharge,
  warp_use, warp_active,
  dt_active, dt_wait,
  shifting, in_doubletap, first_shift_tick,
  choked,           \* chokedcommands, counted up to kMaxShift - 1
  pc,               \* where Move is
  max_shift, final_tick  \* Move: a local and the argument

settings == <<sv_max, warp_enabled, dt_enabled>>
goal == <<shifted_ticks, shifted_goal, goal_reached>>
requests == <<recharge_queued, warp_use>>
modes == <<in_recharge, warp_active, dt_active>>
flags == <<shifting, in_doubletap, first_shift_tick>>
locals == <<max_shift, final_tick>>
vars == <<sv_max, warp_enabled, dt_enabled, shifted_ticks, shifted_goal, goal_reached,
          recharge_queued, in_recharge, warp_use, warp_active, dt_active, dt_wait, shifting,
          in_doubletap, first_shift_tick, choked, pc, max_shift, final_tick>>

Bound(low, n, high) == Max({low, Min({n, high})})

MaxTicks == Bound(1, IF sv_max > 0 THEN Min({kMaxShift, sv_max}) ELSE kMaxShift, kMaxShift)

TickLimit == Max({2, MaxTicks})
Active == warp_enabled \/ dt_enabled

TypeOK ==
  /\ sv_max \in ServerTicks
  /\ {warp_enabled, dt_enabled, goal_reached, recharge_queued, in_recharge, warp_active,
      dt_active, shifting, in_doubletap, first_shift_tick, final_tick} \subseteq BOOLEAN
  /\ shifted_ticks \in 0 .. kMaxShift + 1
  /\ shifted_goal \in 0 .. kMaxShift
  /\ warp_use \in 0 .. kMaxShift
  /\ dt_wait \in -1 .. kMaxShift
  /\ choked \in 0 .. kMaxShift - 1
  /\ pc \in {"idle", "drain", "spend", "through"}
  /\ max_shift \in 1 .. kMaxShift

Init ==
  /\ sv_max \in ServerTicks
  /\ warp_enabled \in BOOLEAN /\ dt_enabled \in BOOLEAN
  /\ shifted_ticks = 0 /\ shifted_goal = 0 /\ goal_reached = TRUE
  /\ recharge_queued = FALSE /\ in_recharge = FALSE
  /\ warp_use = 0 /\ warp_active = FALSE
  /\ dt_active = FALSE /\ dt_wait = 0
  /\ shifting = FALSE /\ in_doubletap = FALSE /\ first_shift_tick = FALSE
  /\ choked = 0
  /\ pc = "idle" /\ max_shift = MaxTicks /\ final_tick = FALSE

Reset ==
  /\ shifted_ticks' = 0 /\ shifted_goal' = 0 /\ goal_reached' = TRUE
  /\ recharge_queued' = FALSE /\ in_recharge' = FALSE
  /\ warp_use' = 0 /\ warp_active' = FALSE
  /\ dt_active' = FALSE /\ dt_wait' = 0
  /\ shifting' = FALSE /\ in_doubletap' = FALSE /\ first_shift_tick' = FALSE

-----------------------------------------------------------------------------
(* One tick that is run: RunTick, the engine's CL_Move, CreateMove in it.  *)

\* Enough ticks for a whole shift, or for a second shot of a rapid weapon.
WorthShifting(ticks, rapid) == ticks >= TickLimit \/ (rapid /\ ticks >= 2)

Worth(ticks, rapid) == WorthShifting(Min({ticks + 1, kMaxShift}), rapid)

\* Mutant: whether a warp is running is not asked.
CanDoubletap_InWarp(ticks, wait, ready, rapid) ==
  dt_enabled /\ ready /\ wait = 0 /\ ~in_recharge /\ Worth(ticks, rapid)

\* ready: the key, the weapon and its next shot permit a doubletap.
CanDoubletap(ticks, wait, ready, rapid) ==
  dt_enabled /\ ready /\ wait = 0 /\ ~warp_active /\ ~in_recharge /\ Worth(ticks, rapid)

DoubletapGoal(ticks) == Max({ticks - TickLimit + 1, 0})

\* CreateMove, after RunTick has counted the tick.
CreateMove(ticks, reached, wait, attack, ready, rapid) ==
  IF reached /\ CanDoubletap(ticks, wait, ready, rapid) /\ (attack \/ dt_active)
    THEN dt_active' = TRUE /\ shifted_goal' = DoubletapGoal(ticks)
    ELSE UNCHANGED <<dt_active, shifted_goal>>

\* The packet goes out with the command, or is held back with it.
SendOrChoke(final) ==
  \/ final /\ choked' = 0
  \/ choked' = Min({choked + 1, kMaxShift - 1})

Cooled(rapid) ==
  IF ~Worth(shifted_ticks - 1, rapid) THEN -1
  ELSE IF dt_wait > 0 THEN dt_wait - 1 ELSE dt_wait

\* Mutant: the goal is compared before the tick is taken.
Reached_Before(final) == final /\ shifted_ticks = shifted_goal

Reached(final) == final /\ shifted_ticks - 1 = shifted_goal

\* CreateMove of Warp.cpp may queue a recharge on the way.
RunTick(final) ==
  \E attack, ready, rapid, queue \in BOOLEAN :
    /\ shifted_ticks' = shifted_ticks - 1
    /\ dt_wait' = Cooled(rapid)
    /\ goal_reached' = Reached(final)
    /\ CreateMove(shifted_ticks', goal_reached', dt_wait', attack, ready, rapid)
    /\ recharge_queued' = (recharge_queued \/ (queue /\ ~shifting))
    /\ SendOrChoke(final)
    /\ UNCHANGED <<settings, in_recharge, warp_use, warp_active, locals>>

-----------------------------------------------------------------------------
(* Move, the hook of CL_Move.                                              *)

Recharges(queued, use) ==
  goal_reached /\ queued /\ ~dt_active /\ use = 0 /\ shifted_ticks < MaxTicks

Warps(queued, use) ==
  goal_reached /\ ~Recharges(queued, use) /\ use > 0 /\ shifted_ticks > 0 /\ ~dt_active

\* firing: the weapon cannot be used for a doubletap, is shooting, or neither.
MoveManage(queued, use, firing) ==
  /\ in_recharge' = Recharges(queued, use)
  /\ warp_active' = (warp_active \/ Warps(queued, use))
  /\ shifted_goal' = IF Recharges(queued, use) THEN shifted_ticks + 1
                     ELSE IF Warps(queued, use) THEN Max({shifted_ticks - use, 0})
                     ELSE shifted_goal
  /\ dt_wait' = CASE firing = "unfit" -> -1
                  [] firing = "shot" -> TickLimit
                  [] OTHER -> IF in_recharge' THEN dt_wait ELSE Max({dt_wait, 0})
  /\ recharge_queued' = FALSE
  /\ warp_use' = 0

\* PrepareShift asks for ticks to keep or to spend before MoveManage decides.
MoveBegin(final) ==
  /\ pc = "idle" /\ Active
  /\ \E queue \in BOOLEAN, use \in 0 .. MaxTicks, firing \in {"unfit", "shot", "none"} :
       /\ use > 0 => warp_enabled
       /\ MoveManage(recharge_queued \/ queue, IF use > 0 THEN use ELSE warp_use, firing)
  /\ max_shift' = MaxTicks
  /\ final_tick' = final
  /\ pc' = "drain"
  /\ UNCHANGED <<settings, shifted_ticks, goal_reached, dt_active, flags, choked>>

\* The server has lowered its limit: the ticks beyond it are run.
MoveDrain ==
  /\ pc = "drain" /\ shifted_ticks > max_shift
  /\ RunTick(FALSE)
  /\ UNCHANGED <<pc, flags>>

\* Mutant: the goal may be beyond the limit.
Clamped_Not(n) == n

Clamped(n) == Bound(0, n, max_shift)

\* The tick of this call is kept; then what is beyond the goal is spent, and
\* as long as commands are choked their tick is let through.
MoveKeep ==
  /\ pc = "drain" /\ shifted_ticks <= max_shift
  /\ shifted_ticks' = Max({shifted_ticks, 0}) + 1
  /\ shifted_goal' = Clamped(shifted_goal)
  /\ IF shifted_ticks' > shifted_goal'
       THEN /\ pc' = "spend"
            /\ shifting' = (shifted_ticks' - 1 > shifted_goal')
            /\ in_doubletap' = dt_active
            /\ first_shift_tick' = TRUE
       ELSE /\ pc' = IF choked > 0 THEN "through" ELSE "idle"
            /\ UNCHANGED flags
  /\ UNCHANGED <<settings, goal_reached, requests, modes, dt_wait, choked, locals>>

LastOfShift == shifted_ticks - 1 = shifted_goal \/ choked >= kMaxShift - 1

MoveSpend ==
  /\ pc = "spend" /\ shifted_ticks > shifted_goal
  /\ RunTick(LastOfShift)
  /\ first_shift_tick' = FALSE
  /\ UNCHANGED <<pc, shifting, in_doubletap>>

MoveSpent ==
  /\ pc = "spend" /\ shifted_ticks <= shifted_goal
  /\ pc' = "idle"
  /\ shifting' = FALSE /\ in_doubletap' = FALSE /\ first_shift_tick' = FALSE
  /\ warp_active' = FALSE /\ dt_active' = FALSE
  /\ UNCHANGED <<settings, goal, requests, in_recharge, dt_wait, choked, locals>>

MoveThrough ==
  /\ pc = "through"
  /\ RunTick(final_tick)
  /\ pc' = "idle"
  /\ UNCHANGED flags

\* Neither feature is on, or the game is not fully in a match: the engine's
\* own CL_Move.
MoveInactive(final) ==
  /\ pc = "idle"
  /\ IF shifted_ticks # 0 \/ shifted_goal # 0 THEN Reset
     ELSE UNCHANGED <<goal, requests, modes, dt_wait, flags>>
  /\ SendOrChoke(final)
  /\ UNCHANGED <<settings, pc, locals>>

LevelShutdown ==
  /\ pc = "idle"
  /\ Reset
  /\ UNCHANGED <<settings, choked, pc, locals>>

\* The user or the server changes a setting between two calls.
Change ==
  /\ pc = "idle"
  /\ sv_max' \in ServerTicks
  /\ warp_enabled' \in BOOLEAN /\ dt_enabled' \in BOOLEAN
  /\ UNCHANGED <<goal, requests, modes, dt_wait, flags, choked, pc, locals>>

Move ==
  \/ \E final \in BOOLEAN : MoveBegin(final) \/ MoveInactive(final)
  \/ MoveDrain \/ MoveKeep \/ MoveSpend \/ MoveSpent \/ MoveThrough

Next == Move \/ LevelShutdown \/ Change

Spec == Init /\ [][Next]_vars

\* The engine keeps calling CL_Move, again and again for the last tick of a
\* frame, and what is let through in such a tick is not choked every time.
FairSpec ==
  /\ Spec
  /\ WF_vars(Move)
  /\ SF_vars(MoveBegin(TRUE))
  /\ SF_vars(MoveThrough /\ choked' = 0)

-----------------------------------------------------------------------------
(* Properties.                                                             *)

\* When Move returns, what is kept is within the goal and the server's limit,
\* and no flag of a shift is left behind, neither by its loop nor by the
\* CreateMove of the tick that it let through.
Settled ==
  pc = "idle" =>
    /\ shifted_ticks <= max_shift /\ shifted_ticks <= shifted_goal
    /\ ~shifting /\ ~in_doubletap /\ ~first_shift_tick
    /\ ~warp_active /\ ~dt_active

\* A doubletap never runs together with a warp or a recharge, although it is
\* started from inside the loop that spends the ticks of another shift.
OneShift == dt_active => ~warp_active /\ ~in_recharge

\* The goal is always reached again, or everything is off: no combination of
\* a request and choked commands locks both out for good.
GoalReturns == []<>(goal_reached \/ ~Active)

=============================================================================
