--------------------------- MODULE TickbaseProofs ---------------------------
(***************************************************************************)
(* Proofs about the tick counters, for every size of a shift and every     *)
(* limit of the server.                                                    *)
(***************************************************************************)
EXTENDS Tickbase, TLAPS

\* Max of two integers.
LEMMA MaxOfTwo ==
  ASSUME NEW a \in Int, NEW b \in Int PROVE Max({a, b}) = IF a >= b THEN a ELSE b
<1>1. CASE a >= b
  BY <1>1 DEF Max
<1>2. CASE ~(a >= b)
  BY <1>2 DEF Max
<1> QED BY <1>1, <1>2

\* And Min.
LEMMA MinOfTwo ==
  ASSUME NEW a \in Int, NEW b \in Int PROVE Min({a, b}) = IF a <= b THEN a ELSE b
<1>1. CASE a <= b
  BY <1>1 DEF Min
<1>2. CASE ~(a <= b)
  BY <1>2 DEF Min
<1> QED BY <1>1, <1>2

-----------------------------------------------------------------------------
(* The inductive invariant: what is left of a shift at each place of Move. *)

\* Outside the loop that spends ticks no flag of a shift is set; a doubletap
\* begins only there; what is kept when Move returns is within goal and limit;
\* and a warp leaves ticks to spend until it is over.
Places ==
  /\ pc # "spend" => ~shifting /\ ~in_doubletap /\ ~first_shift_tick /\ ~dt_active
  /\ pc \in {"idle", "through"} => shifted_ticks <= shifted_goal /\ ~warp_active
  /\ pc = "idle" => shifted_ticks <= max_shift
  /\ pc = "drain" /\ warp_active => shifted_ticks > shifted_goal \/ shifted_ticks >= max_shift
  /\ pc = "spend" => shifted_goal <= max_shift /\ shifted_ticks <= max_shift + 1
  /\ pc = "through" => shifted_goal <= max_shift /\ shifted_ticks > 0

ShiftInv == TypeOK /\ Places /\ OneShift

\* TypeOK, one flag at a time.
Flags ==
  /\ warp_enabled \in BOOLEAN /\ dt_enabled \in BOOLEAN /\ goal_reached \in BOOLEAN
  /\ recharge_queued \in BOOLEAN /\ in_recharge \in BOOLEAN /\ warp_active \in BOOLEAN
  /\ dt_active \in BOOLEAN /\ shifting \in BOOLEAN /\ in_doubletap \in BOOLEAN
  /\ first_shift_tick \in BOOLEAN /\ final_tick \in BOOLEAN

Counters ==
  /\ sv_max \in ServerTicks
  /\ shifted_ticks \in 0 .. kMaxShift + 1
  /\ shifted_goal \in 0 .. kMaxShift
  /\ warp_use \in 0 .. kMaxShift
  /\ dt_wait \in -1 .. kMaxShift
  /\ choked \in 0 .. kMaxShift - 1
  /\ pc \in {"idle", "drain", "spend", "through"}
  /\ max_shift \in 1 .. kMaxShift

\* The two say the same, before and after a step.
LEMMA TypeForm == (TypeOK <=> Flags /\ Counters) /\ (TypeOK' <=> Flags' /\ Counters')
<1>1. TypeOK <=> Flags /\ Counters
  BY DEF TypeOK, Flags, Counters
<1>2. TypeOK' <=> Flags' /\ Counters'
  BY DEF TypeOK, Flags, Counters
<1> QED BY <1>1, <1>2

\* The limits are within the size of a shift.
LEMMA LimitRange ==
  ASSUME sv_max \in ServerTicks
  PROVE  MaxTicks \in 1 .. kMaxShift /\ TickLimit \in 2 .. kMaxShift
<1> DEFINE m == IF sv_max > 0 THEN Min({kMaxShift, sv_max}) ELSE kMaxShift
<1>1. sv_max \in Nat /\ kMaxShift \in Nat /\ kMaxShift >= 2
  BY ShiftAssumption, ServerAssumption
<1>2. m \in Nat
  BY <1>1, MinOfTwo
<1>3. Min({m, kMaxShift}) \in Nat /\ Min({m, kMaxShift}) <= kMaxShift
  <2> HIDE DEF m
  <2> QED BY <1>1, <1>2, MinOfTwo
<1>4. MaxTicks = Max({1, Min({m, kMaxShift})})
  BY DEF MaxTicks, Bound
<1>5. MaxTicks \in 1 .. kMaxShift
  <2> HIDE DEF m
  <2> QED BY <1>1, <1>3, <1>4, MaxOfTwo
<1>6. TickLimit \in 2 .. kMaxShift
  BY <1>1, <1>5, MaxOfTwo DEF TickLimit
<1> QED BY <1>5, <1>6

\* A doubletap asks for less than there is.
LEMMA DoubletapGoalRange ==
  ASSUME sv_max \in ServerTicks, NEW n \in Nat
  PROVE  DoubletapGoal(n) \in 0 .. n
<1>1. TickLimit \in 2 .. kMaxShift
  BY LimitRange
<1> QED BY <1>1, MaxOfTwo DEF DoubletapGoal

\* What one tick that is run does to the counters.
LEMMA TickRun ==
  ASSUME TypeOK, NEW final \in BOOLEAN, RunTick(final), shifted_ticks > 0
  PROVE  /\ shifted_ticks' = shifted_ticks - 1
         /\ UNCHANGED <<settings, in_recharge, warp_use, warp_active, locals>>
         /\ dt_wait' \in -1 .. kMaxShift /\ choked' \in 0 .. kMaxShift - 1
         /\ goal_reached' \in BOOLEAN /\ recharge_queued' \in BOOLEAN
         /\ \/ UNCHANGED <<dt_active, shifted_goal>>
            \/ /\ final /\ shifted_ticks - 1 = shifted_goal
               /\ dt_active' = TRUE /\ ~warp_active /\ ~in_recharge
               /\ shifted_goal' \in 0 .. shifted_goal
<1>0. Flags /\ Counters
  BY TypeForm
<1>1. PICK attack \in BOOLEAN, ready \in BOOLEAN, rapid \in BOOLEAN, queue \in BOOLEAN :
        /\ shifted_ticks' = shifted_ticks - 1
        /\ dt_wait' = Cooled(rapid)
        /\ goal_reached' = Reached(final)
        /\ CreateMove(shifted_ticks', goal_reached', dt_wait', attack, ready, rapid)
        /\ recharge_queued' = (recharge_queued \/ (queue /\ ~shifting))
        /\ SendOrChoke(final)
        /\ UNCHANGED <<settings, in_recharge, warp_use, warp_active, locals>>
  BY DEF RunTick
<1>2. dt_wait' \in -1 .. kMaxShift
  BY <1>0, <1>1, ShiftAssumption DEF Cooled, Counters
<1>3. choked' \in 0 .. kMaxShift - 1
  <2>1. Min({choked + 1, kMaxShift - 1}) \in 0 .. kMaxShift - 1
    BY <1>0, ShiftAssumption, MinOfTwo DEF Counters
  <2> QED BY <1>1, <2>1, ShiftAssumption DEF SendOrChoke
<1>4. goal_reached' \in BOOLEAN /\ recharge_queued' \in BOOLEAN
  <2>1. goal_reached' \in BOOLEAN
    BY <1>1 DEF Reached
  <2>2. recharge_queued' \in BOOLEAN
    BY <1>1
  <2> QED BY <2>1, <2>2
<1>5. CASE UNCHANGED <<dt_active, shifted_goal>>
  BY <1>1, <1>2, <1>3, <1>4, <1>5
<1>6. CASE /\ goal_reached' /\ CanDoubletap(shifted_ticks', dt_wait', ready, rapid)
           /\ dt_active' = TRUE /\ shifted_goal' = DoubletapGoal(shifted_ticks')
  <2>1. final /\ shifted_ticks - 1 = shifted_goal
    BY <1>1, <1>6 DEF Reached
  <2>2. ~warp_active /\ ~in_recharge
    BY <1>6 DEF CanDoubletap
  <2>3. shifted_goal' \in 0 .. shifted_goal
    BY <1>0, <1>1, <1>6, <2>1, DoubletapGoalRange DEF Counters
  <2> QED BY <1>1, <1>2, <1>3, <1>4, <1>6, <2>1, <2>2, <2>3
<1> QED BY <1>1, <1>5, <1>6 DEF CreateMove

-----------------------------------------------------------------------------
(* Every step keeps the invariant.                                         *)

\* Nothing has been given or kept.
LEMMA ShiftInit == Init => ShiftInv
<1> SUFFICES ASSUME Init PROVE ShiftInv
  OBVIOUS
<1>1. Flags
  BY DEF Init, Flags
<1>2. Counters
  BY LimitRange, ShiftAssumption DEF Init, Counters
<1>3. Places /\ OneShift
  BY <1>2 DEF Init, Places, OneShift, Counters
<1> QED BY <1>1, <1>2, <1>3, TypeForm DEF ShiftInv

\* A tick run to get within the server's limit, to come to the goal, or because
\* commands are choked.
LEMMA RunStep ==
  ASSUME ShiftInv, MoveDrain \/ MoveSpend \/ MoveThrough PROVE ShiftInv'
<1>0. Flags /\ Counters /\ Places /\ OneShift
  BY TypeForm DEF ShiftInv
<1>1. PICK final \in BOOLEAN : RunTick(final) /\ (pc = "drain" => ~final)
  <2>1. LastOfShift \in BOOLEAN /\ final_tick \in BOOLEAN
    BY <1>0 DEF LastOfShift, Flags
  <2> QED BY <2>1 DEF MoveDrain, MoveSpend, MoveThrough
<1>2. shifted_ticks > 0
  <2>1. CASE MoveDrain
    BY <1>0, <2>1 DEF MoveDrain, Counters
  <2>2. CASE MoveSpend
    BY <1>0, <2>2 DEF MoveSpend, Counters
  <2>3. CASE MoveThrough
    BY <1>0, <2>3 DEF MoveThrough, Places
  <2> QED BY <2>1, <2>2, <2>3
<1>3. /\ shifted_ticks' = shifted_ticks - 1
      /\ UNCHANGED <<settings, in_recharge, warp_use, warp_active, locals>>
      /\ dt_wait' \in -1 .. kMaxShift /\ choked' \in 0 .. kMaxShift - 1
      /\ goal_reached' \in BOOLEAN /\ recharge_queued' \in BOOLEAN
      /\ \/ UNCHANGED <<dt_active, shifted_goal>>
         \/ /\ final /\ shifted_ticks - 1 = shifted_goal
            /\ dt_active' = TRUE /\ ~warp_active /\ ~in_recharge
            /\ shifted_goal' \in 0 .. shifted_goal
  BY <1>1, <1>2, TickRun DEF ShiftInv
<1>4. Flags'
  <2>1. shifting' \in BOOLEAN /\ in_doubletap' \in BOOLEAN /\ first_shift_tick' \in BOOLEAN
    BY <1>0 DEF MoveDrain, MoveSpend, MoveThrough, flags, Flags
  <2> QED BY <1>0, <1>3, <2>1 DEF Flags, settings, locals
<1>5. Counters'
  <2>1. pc' \in {"idle", "drain", "spend", "through"}
    BY <1>0 DEF MoveDrain, MoveSpend, MoveThrough, Counters
  <2> QED BY <1>0, <1>2, <1>3, <2>1, ShiftAssumption DEF Counters, settings, locals
<1>6. Places'
  <2>1. CASE MoveDrain
    <3>1. UNCHANGED <<dt_active, shifted_goal>>
      BY <1>1, <1>3, <2>1 DEF MoveDrain
    <3> QED BY <1>0, <1>3, <2>1, <3>1 DEF MoveDrain, Places, Counters, flags, locals
  <2>2. CASE MoveSpend
    BY <1>0, <1>3, <2>2 DEF MoveSpend, Places, Counters, locals
  <2>3. CASE MoveThrough
    <3>1. UNCHANGED <<dt_active, shifted_goal>>
      BY <1>0, <1>3, <2>3 DEF MoveThrough, Places, Counters
    <3> QED BY <1>0, <1>3, <2>3, <3>1 DEF MoveThrough, Places, Counters, flags, locals
  <2> QED BY <2>1, <2>2, <2>3
<1>7. OneShift'
  BY <1>0, <1>3 DEF OneShift, Counters
<1> QED BY <1>4, <1>5, <1>6, <1>7, TypeForm DEF ShiftInv

\* The goal of a warp or of a recharge is one that can be reached.
LEMMA BeginStep ==
  ASSUME ShiftInv, NEW final \in BOOLEAN, MoveBegin(final) PROVE ShiftInv'
<1>0. Flags /\ Counters /\ Places /\ OneShift
  BY TypeForm DEF ShiftInv
<1>1. PICK queue \in BOOLEAN, use \in 0 .. MaxTicks, firing \in {"unfit", "shot", "none"} :
        MoveManage(recharge_queued \/ queue, IF use > 0 THEN use ELSE warp_use, firing)
  BY DEF MoveBegin
<1> DEFINE queued == recharge_queued \/ queue
           spend  == IF use > 0 THEN use ELSE warp_use
<1>2. MaxTicks \in 1 .. kMaxShift /\ TickLimit \in 2 .. kMaxShift
  BY <1>0, LimitRange DEF Counters
<1>3. spend \in Nat
  BY <1>0, <1>2 DEF Counters
<1>4. /\ pc = "idle" /\ pc' = "drain" /\ max_shift' = MaxTicks /\ final_tick' = final
      /\ UNCHANGED <<settings, shifted_ticks, goal_reached, dt_active, flags, choked>>
  BY DEF MoveBegin
<1>5. /\ in_recharge' = Recharges(queued, spend)
      /\ warp_active' = (warp_active \/ Warps(queued, spend))
      /\ shifted_goal' = IF Recharges(queued, spend) THEN shifted_ticks + 1
                         ELSE IF Warps(queued, spend) THEN Max({shifted_ticks - spend, 0})
                         ELSE shifted_goal
      /\ recharge_queued' = FALSE /\ warp_use' = 0
  BY <1>1 DEF MoveManage
<1>6. dt_wait' \in -1 .. kMaxShift
  <2>1. Max({dt_wait, 0}) \in 0 .. kMaxShift
    BY <1>0, ShiftAssumption, MaxOfTwo DEF Counters
  <2>2. dt_wait' \in {-1, TickLimit, dt_wait, Max({dt_wait, 0})}
    BY <1>1 DEF MoveManage
  <2> QED BY <1>0, <1>2, <2>1, <2>2, ShiftAssumption DEF Counters
<1>7. Recharges(queued, spend) => shifted_ticks < MaxTicks
  BY DEF Recharges
<1>8. Warps(queued, spend) => spend > 0 /\ shifted_ticks > 0
  BY DEF Warps
<1>9. Max({shifted_ticks - spend, 0}) = IF shifted_ticks >= spend THEN shifted_ticks - spend ELSE 0
  <2> HIDE DEF spend
  <2> QED BY <1>0, <1>3, MaxOfTwo DEF Counters
<1>10. /\ shifted_goal' \in 0 .. kMaxShift
       /\ warp_active' => shifted_ticks > shifted_goal'
  <2>0. ~warp_active /\ shifted_ticks \in Nat /\ shifted_ticks <= kMaxShift + 1
    BY <1>0, <1>4, ShiftAssumption DEF Places, Counters
  <2>1. CASE Recharges(queued, spend)
    <3>1. ~Warps(queued, spend)
      BY <2>1 DEF Warps
    <3>2. shifted_goal' = shifted_ticks + 1 /\ shifted_ticks < MaxTicks
      BY <1>5, <1>7, <2>1
    <3>3. shifted_goal' \in 0 .. kMaxShift
      BY <1>2, <2>0, <3>2, ShiftAssumption
    <3> QED BY <1>5, <2>0, <3>1, <3>3
  <2>2. CASE ~Recharges(queued, spend) /\ Warps(queued, spend)
    <3>1. shifted_goal' = IF shifted_ticks >= spend THEN shifted_ticks - spend ELSE 0
      BY <1>5, <1>9, <2>2
    <3>2. spend > 0 /\ shifted_ticks > 0
      BY <1>8, <2>2
    <3>3. PICK n \in Nat : n = spend
      BY <1>3
    <3> HIDE DEF spend
    <3> QED BY <2>0, <3>1, <3>2, <3>3, ShiftAssumption
  <2>3. CASE ~Recharges(queued, spend) /\ ~Warps(queued, spend)
    <3>1. shifted_goal' = shifted_goal /\ ~warp_active'
      BY <1>5, <2>0, <2>3
    <3> QED BY <1>0, <3>1 DEF Counters
  <2> QED BY <2>1, <2>2, <2>3
<1>11. Flags'
  <2>1. in_recharge' \in BOOLEAN
    BY <1>5 DEF Recharges
  <2>2. warp_active' \in BOOLEAN
    BY <1>0, <1>5 DEF Warps, Flags
  <2> QED BY <1>0, <1>4, <1>5, <2>1, <2>2 DEF Flags, settings, flags
<1>12. Counters'
  BY <1>0, <1>2, <1>4, <1>5, <1>6, <1>10, ShiftAssumption DEF Counters, settings
<1>13. Places'
  BY <1>0, <1>4, <1>10 DEF Places, flags
<1>14. OneShift'
  BY <1>0, <1>4 DEF OneShift, Places
<1> QED BY <1>11, <1>12, <1>13, <1>14, TypeForm DEF ShiftInv

\* The tick that is kept is spent if a warp is running.
LEMMA KeepStep == ASSUME ShiftInv, MoveKeep PROVE ShiftInv'
<1>0. Flags /\ Counters /\ Places /\ OneShift
  BY TypeForm DEF ShiftInv
<1>1. shifted_ticks' = shifted_ticks + 1
  BY <1>0, MaxOfTwo DEF MoveKeep, Counters
<1>2. shifted_goal' = IF shifted_goal <= max_shift THEN shifted_goal ELSE max_shift
  <2>1. Min({shifted_goal, max_shift}) = IF shifted_goal <= max_shift THEN shifted_goal ELSE max_shift
    BY <1>0, MinOfTwo DEF Counters
  <2>2. Max({0, Min({shifted_goal, max_shift})}) = Min({shifted_goal, max_shift})
    BY <1>0, <2>1, MaxOfTwo DEF Counters
  <2> QED BY <2>1, <2>2 DEF MoveKeep, Clamped, Bound
<1>3. /\ pc = "drain" /\ shifted_ticks <= max_shift
      /\ UNCHANGED <<settings, goal_reached, requests, modes, dt_wait, choked, locals>>
      /\ \/ shifted_ticks' > shifted_goal' /\ pc' = "spend"
         \/ /\ ~(shifted_ticks' > shifted_goal') /\ pc' \in {"idle", "through"}
            /\ UNCHANGED flags
  BY DEF MoveKeep
<1>4. Flags'
  <2>1. shifting' \in BOOLEAN /\ in_doubletap' \in BOOLEAN /\ first_shift_tick' \in BOOLEAN
    <3>1. CASE UNCHANGED flags
      BY <1>0, <3>1 DEF flags, Flags
    <3>2. CASE ~UNCHANGED flags
      <4>1. /\ shifting' = (shifted_ticks' - 1 > shifted_goal')
            /\ in_doubletap' = dt_active /\ first_shift_tick' = TRUE
        BY <3>2 DEF MoveKeep
      <4> QED BY <1>0, <4>1 DEF Flags
    <3> QED BY <3>1, <3>2
  <2> QED BY <1>0, <1>3, <2>1 DEF Flags, settings, requests, modes, locals
<1>5. Counters'
  BY <1>0, <1>1, <1>2, <1>3, ShiftAssumption DEF Counters, settings, requests, modes, locals
<1>6. Places'
  <2>1. warp_active => shifted_ticks' > shifted_goal'
    BY <1>0, <1>1, <1>2, <1>3 DEF Places, Counters
  <2>2. ~dt_active /\ ~shifting /\ ~in_doubletap /\ ~first_shift_tick
    BY <1>0, <1>3 DEF Places
  <2>3. max_shift' = max_shift /\ warp_active' = warp_active /\ dt_active' = dt_active
    BY <1>3 DEF locals, modes
  <2>4. CASE pc' = "spend"
    BY <1>0, <1>1, <1>2, <1>3, <2>3, <2>4 DEF Places, Counters
  <2>5. CASE /\ ~(shifted_ticks' > shifted_goal') /\ pc' \in {"idle", "through"}
             /\ UNCHANGED flags
    BY <1>0, <1>1, <1>2, <1>3, <2>1, <2>2, <2>3, <2>5 DEF Places, Counters, flags
  <2> QED BY <1>3, <2>4, <2>5
<1>7. OneShift'
  BY <1>0, <1>1, <1>3 DEF OneShift, modes
<1> QED BY <1>4, <1>5, <1>6, <1>7, TypeForm DEF ShiftInv

\* The end of the loop that spends ticks.
LEMMA SpentStep == ASSUME ShiftInv, MoveSpent PROVE ShiftInv'
<1>0. Flags /\ Counters /\ Places /\ OneShift
  BY TypeForm DEF ShiftInv
<1>1. Flags'
  BY <1>0 DEF MoveSpent, Flags, settings, goal, requests, locals
<1>2. Counters'
  BY <1>0 DEF MoveSpent, Counters, settings, goal, requests, locals
<1>3. Places'
  BY <1>0 DEF MoveSpent, Places, Counters, goal, locals
<1>4. OneShift'
  BY <1>0 DEF MoveSpent, OneShift, goal
<1> QED BY <1>1, <1>2, <1>3, <1>4, TypeForm DEF ShiftInv

\* Everything is off: nothing is kept.
LEMMA ResetStep ==
  ASSUME ShiftInv, pc = "idle",
         Reset \/ UNCHANGED <<goal, requests, modes, dt_wait, flags>>,
         choked' \in 0 .. kMaxShift - 1, UNCHANGED <<settings, pc, locals>>
  PROVE  ShiftInv'
<1>0. Flags /\ Counters /\ Places /\ OneShift
  BY TypeForm DEF ShiftInv
<1>1. CASE Reset
  <2>1. Flags'
    BY <1>0, <1>1 DEF Reset, Flags, settings, locals
  <2>2. Counters'
    BY <1>0, <1>1, ShiftAssumption DEF Reset, Counters, settings, locals
  <2>3. Places' /\ OneShift'
    BY <1>0, <1>1 DEF Reset, Places, OneShift, Counters, locals
  <2> QED BY <2>1, <2>2, <2>3, TypeForm DEF ShiftInv
<1>2. CASE UNCHANGED <<goal, requests, modes, dt_wait, flags>>
  <2>1. Flags'
    BY <1>0, <1>2 DEF Flags, settings, goal, requests, modes, flags, locals
  <2>2. Counters'
    BY <1>0, <1>2 DEF Counters, settings, goal, requests, locals
  <2>3. Places' /\ OneShift'
    BY <1>0, <1>2 DEF Places, OneShift, goal, modes, flags, locals
  <2> QED BY <2>1, <2>2, <2>3, TypeForm DEF ShiftInv
<1> QED BY <1>1, <1>2

\* A setting changes between two calls of Move.
LEMMA ChangeStep == ASSUME ShiftInv, Change PROVE ShiftInv'
<1>0. Flags /\ Counters /\ Places /\ OneShift
  BY TypeForm DEF ShiftInv
<1>1. Flags'
  BY <1>0 DEF Change, Flags, goal, requests, modes, flags, locals
<1>2. Counters'
  BY <1>0 DEF Change, Counters, goal, requests, locals
<1>3. Places' /\ OneShift'
  BY <1>0 DEF Change, Places, OneShift, goal, modes, flags, locals
<1> QED BY <1>1, <1>2, <1>3, TypeForm DEF ShiftInv

\* Every step of the hook and of the user.
LEMMA ShiftStep == ASSUME ShiftInv, [Next]_vars PROVE ShiftInv'
<1>1. CASE UNCHANGED vars
  <2>1. Flags' /\ Counters' /\ Places' /\ OneShift'
    BY <1>1, TypeForm DEF vars, ShiftInv, Flags, Counters, Places, OneShift
  <2> QED BY <2>1, TypeForm DEF ShiftInv
<1>2. CASE MoveDrain \/ MoveSpend \/ MoveThrough
  BY <1>2, RunStep
<1>3. CASE \E final \in BOOLEAN : MoveBegin(final)
  BY <1>3, BeginStep
<1>4. CASE \E final \in BOOLEAN : MoveInactive(final)
  <2>1. PICK final \in BOOLEAN : MoveInactive(final)
    BY <1>4
  <2>2. choked' \in 0 .. kMaxShift - 1
    <3>1. choked \in 0 .. kMaxShift - 1
      BY TypeForm DEF ShiftInv, Counters
    <3>2. Min({choked + 1, kMaxShift - 1}) \in 0 .. kMaxShift - 1
      BY <3>1, ShiftAssumption, MinOfTwo
    <3> QED BY <2>1, <3>2, ShiftAssumption DEF MoveInactive, SendOrChoke
  <2> QED BY <2>1, <2>2, ResetStep DEF MoveInactive
<1>5. CASE LevelShutdown
  <2>1. choked' \in 0 .. kMaxShift - 1
    BY <1>5, TypeForm DEF LevelShutdown, ShiftInv, Counters
  <2> QED BY <1>5, <2>1, ResetStep DEF LevelShutdown
<1> QED BY <1>1, <1>2, <1>3, <1>4, <1>5, KeepStep, SpentStep, ChangeStep DEF Next, Move

\* The invariant holds in every reachable state.
LEMMA ShiftInductive == Spec => []ShiftInv
<1>1. ShiftInv /\ [Next]_vars => ShiftInv'
  BY ShiftStep
<1> QED BY <1>1, ShiftInit, PTL DEF Spec

\* Every counter and flag keeps its range, for every size of a shift.
THEOREM TypeCorrect == Spec => []TypeOK
  BY ShiftInductive, PTL DEF ShiftInv

\* What Move leaves behind when it returns is within the goal and the limit, and
\* no shift goes on after its loop.
THEOREM SettledHolds == Spec => []Settled
<1>1. ShiftInv => Settled
  BY DEF ShiftInv, Places, Settled
<1> QED BY <1>1, ShiftInductive, PTL

\* A doubletap never runs together with a warp or a recharge.
THEOREM OneShiftHolds == Spec => []OneShift
  BY ShiftInductive, PTL DEF ShiftInv

=============================================================================
