----------------------------- MODULE PathEngine -----------------------------
(***************************************************************************)
(* What the navigation engine (src/navparser.cpp) is to the bots that call *)
(* it: one job at a time, with a priority, and whether there is a path for *)
(* it.  Areas, caches and the blacklist are not seen here; a job may fail  *)
(* for reasons of their own.  NavEngine implements this, NavBot uses it.   *)
(***************************************************************************)
EXTENDS Naturals

CONSTANT Priorities   \* the priorities of the jobs, Priority_list in the code

ASSUME PrioritiesAssumption == Priorities \subseteq Nat \ {0}

VARIABLE engine       \* current_priority and isPathing()

Idle == [priority |-> 0, pathing |-> FALSE]

\* A call of navTo that finds a way: only a job above it keeps the path.
Started(e, p) == IF p < e.priority THEN {} ELSE {[priority |-> p, pathing |-> TRUE]}

\* A tick of the engine. A job without a path is over. Of a job with one, the
\* path may go on, or be found again; end, in which case the job lasts until
\* the next tick; or be given up with the job.
Ticked(e) == IF e.pathing THEN {e, [priority |-> e.priority, pathing |-> FALSE], Idle} ELSE {Idle}

NavTo == \E p \in Priorities : engine' \in Started(engine, p)

\* cancelPath, a new level, or a player who is dead.
CancelPath == engine' = Idle

\* A bot at a dispenser takes the priority, with whatever path there is.
SetPriority == \E p \in Priorities : engine' = [engine EXCEPT !.priority = p]

CreateMove == engine' \in Ticked(engine)

EngineSpec ==
  engine = Idle /\ [][NavTo \/ CancelPath \/ SetPriority \/ CreateMove]_engine

=============================================================================
