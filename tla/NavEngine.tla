----------------------------- MODULE NavEngine -----------------------------
(***************************************************************************)
(* The navigation engine of src/navparser.cpp: the Map object (which       *)
(* connections a player can pass, which areas are blacklisted, what the    *)
(* path finder remembers of both), the crumbs of the path being walked,    *)
(* and the job they are walked for.                                        *)
(*                                                                         *)
(* The state of the code is the record nav; a function of the code that    *)
(* changes it is an operator from a record to the set of the records it    *)
(* may leave, so that a handler is the composition of the calls it makes.  *)
(* Everything runs in the game thread: the actions are the handlers the    *)
(* game and the bots call, each of them atomic, between steps of the world *)
(* around them (players move, doors open and close, enemies come and go).  *)
(***************************************************************************)
EXTENDS Naturals, FiniteSets, Sequences, SequencesExt

CONSTANTS
    Areas,      \* the areas of the nav mesh
    NoArea,     \* a null CNavArea pointer
    Conn,       \* the connections of the mesh, pairs of areas
    Doors,      \* the connections that something in the world may block
    Nearby,     \* for each area, the up to five others that are nearest to it
    Dangers,    \* the areas that bots and enemies may get blacklisted
    Ubered,     \* whether the player may be invulnerable, and whether not
    Phases,     \* bound: the phases of a game that are visited
    Levels,     \* the levels of the server
    Meshed,     \* the levels that have a valid nav file
    NoLevel,    \* a null Map pointer
    Jobs,       \* the calls of navTo that the bots make
    Supplies,   \* the priorities of those that fetch something at a dispenser
    MaxStuck    \* bound: connections marked stuck at a time

JobType == [dest : Areas, priority : Nat \ {0}, repath : BOOLEAN, local : BOOLEAN]

ASSUME MeshAssumption ==
    /\ Areas # {} /\ IsFiniteSet(Areas) /\ NoArea \notin Areas
    /\ Conn \subseteq {e \in Areas \X Areas : e[1] # e[2]}
    /\ Nearby \in [Areas -> SUBSET Areas]
    /\ Doors \subseteq Conn /\ Dangers \subseteq Areas
    /\ Meshed \subseteq Levels /\ NoLevel \notin Levels
    /\ Jobs \subseteq JobType /\ Supplies \subseteq {job.priority : job \in Jobs}
    /\ Ubered \subseteq BOOLEAN
    /\ MaxStuck \in Nat

VARIABLES
    game,    \* menu, off (nav disabled), setup, round or dead (in a round)
    level,   \* the level of the server
    pos,     \* the area the local player stands in
    jumped,  \* the local player was moved by more than 400 units in a tick
    closed,  \* the doors that are closed now
    nav      \* the state of NavEngine and of its Map

vars == <<game, level, pos, jumped, closed, nav>>

Keys == Areas \X Areas

Unknown == {NoArea}     \* the path finder has not asked for the neighbours

\* No Map, no path and no job.
NoEngine ==
    [vis |-> [k \in Keys |-> "none"], known |-> [a \in Areas |-> Unknown],
     blacklist |-> {}, blocked |-> FALSE, sized |-> 0, level |-> NoLevel, dirty |-> TRUE,
     crumbs |-> <<>>, last |-> NoArea, goal |-> NoArea, priority |-> 0, local |-> FALSE,
     repath |-> FALSE, destination |-> NoArea, failed |-> NoArea]

Init ==
    /\ game = "menu" /\ level \in Levels /\ jumped = FALSE /\ closed = {}
    /\ pos \in Areas
    /\ nav = NoEngine

-----------------------------------------------------------------------------
(* The Map: path finding over what is cached about it.                     *)

Bad(n, k) == n.vis[k] \in {"fail", "stuck"}
StuckKeys(n) == {k \in Keys : n.vis[k] = "stuck"}

PatherReset(n) == [n EXCEPT !.known = [a \in Areas |-> Unknown]]

\* Whether the area is entered at all, whatever the connection.
MayEnter(n, b) == ~Bad(n, <<b, b>>) /\ (n.blocked \/ b \notin n.blacklist)

\* The connections of a that AdjacentCost finds untested, and tests. Only doors
\* are recorded: a connection that nothing blocks passes, cached or not.
Untested(n, a) == {k \in Doors : k[1] = a /\ MayEnter(n, k[2]) /\ n.vis[k] = "none"}

Passable(n, k) == n.vis[k] = "pass" \/ (n.vis[k] = "none" /\ k \notin closed)

AdjacentCost(n, a) == {b \in Areas : <<a, b>> \in Conn /\ MayEnter(n, b) /\ Passable(n, <<a, b>>)}

Neighbours(n) == [a \in Areas |-> IF n.known[a] # Unknown THEN n.known[a] ELSE AdjacentCost(n, a)]

\* The path finder expands the areas of E: it asks AdjacentCost for the
\* neighbours it does not remember, which caches the tests it makes.
Expand(n, E, near) ==
    LET asked  == {a \in E : n.known[a] = Unknown}
        tested == UNION {Untested(n, a) : a \in asked}
    IN  [n EXCEPT !.known = [a \in Areas |-> IF a \in E THEN near[a] ELSE n.known[a]],
                  !.vis   = [k \in Keys |-> IF k \notin tested THEN n.vis[k]
                                            ELSE IF k \in closed THEN "fail" ELSE "pass"]]

\* The walks that enter no area twice.
Routes == {p \in UNION {[1..i -> Areas] : i \in 1..Cardinality(Areas)} :
             \A i, j \in DOMAIN p : p[i] = p[j] => i = j}

Follows(p, near) == \A i \in 1..Len(p) - 1 : p[i + 1] \in near[p[i]]
RoutesFrom(s, near) == {p \in Routes : p[1] = s /\ Follows(p, near)}

\* A path, or none after everything in reach was expanded. Which of the routes
\* is the cheapest, and how much is expanded to know it, is left open.
Solve(n, s, d) ==
    IF s = d THEN {[nav |-> n, path |-> <<s>>]}
    ELSE LET near   == Neighbours(n)
             walks  == RoutesFrom(s, near)
             solved == {p \in walks : p[Len(p)] = d}
             reach  == {Last(p) : p \in {q \in walks : d \notin ToSet(q)}}
             grown(E) == \A a \in E : \E p \in walks : p[Len(p)] = a /\ ToSet(p) \subseteq E
         IN  IF solved = {} THEN {[nav |-> Expand(n, reach, near), path |-> <<>>]}
             ELSE {[nav |-> Expand(n, x[2], near), path |-> x[1]] :
                     x \in {y \in solved \X SUBSET reach :
                              ToSet(y[1]) \ {d} \subseteq y[2] /\ grown(y[2])}}

Transient(n) == {k \in Keys : n.vis[k] = "fail"}

\* The failed tests are forgotten; connections marked stuck are not.
PurgeTransientVischeck(n) ==
    PatherReset([n EXCEPT !.vis = [k \in Keys |-> IF k \in Transient(n) THEN "none" ELSE n.vis[k]]])

\* Faulty: failed tests are never made again.
FindPath_NoPurge(n, s, d) ==
    {IF f.path # <<>> THEN f ELSE [f EXCEPT !.nav = PatherReset(f.nav)] : f \in Solve(n, s, d)}

\* When nothing is found the failed tests are purged, if there are any, and made
\* once more; when nothing is found then, the path finder forgets it all.
FindPath(n, s, d) ==
    LET retry(f) == IF f.path # <<>> \/ Transient(f.nav) = {} THEN {f}
                    ELSE Solve(PurgeTransientVischeck(f.nav), s, d)
        finish(f) == IF f.path # <<>> THEN f ELSE [f EXCEPT !.nav = PatherReset(f.nav)]
    IN  {finish(g) : g \in UNION {retry(f) : f \in Solve(n, s, d)}}

-----------------------------------------------------------------------------
(* Jobs: navTo, abandonPath, cancelPath.                                   *)

InGame == game # "menu"
Active(n) == n.level \in Meshed

MapReset(n) ==
    PatherReset([n EXCEPT !.vis = [k \in Keys |-> "none"], !.blacklist = {}])

CancelPath(n) ==
    [n EXCEPT !.crumbs = <<>>, !.last = NoArea, !.goal = NoArea, !.priority = 0, !.repath = FALSE]

\* The same level again resets its Map and keeps blocked; another one makes a
\* new Map, without touching the clock of the last failure.
EnsureMapLoaded(n) ==
    IF (~n.dirty /\ n.level # NoLevel) \/ ~InGame THEN n
    ELSE IF n.level = level THEN [MapReset(n) EXCEPT !.dirty = FALSE]
    ELSE [MapReset(CancelPath(n)) EXCEPT !.dirty = FALSE, !.level = level, !.blocked = FALSE]

IsReady(n) == game \in {"round", "dead"} /\ Active(n)

Fail(n, d) == [n EXCEPT !.failed = d]

\* Two crumbs for each area but the last, and the destination itself; a path
\* that does not start at the local area loses its first area.
Crumbs(path, local) ==
    LET p == IF local THEN path ELSE Tail(path)
    IN  [i \in 1..2 * Len(p) |-> IF i = 2 * Len(p) THEN NoArea ELSE p[(i + 1) \div 2]]
        \o (IF p = <<>> THEN <<NoArea>> ELSE <<>>)

\* The area of the local player, unless it is marked bad: then any other.
StartAreas(n) ==
    IF ~Bad(n, <<pos, pos>>) THEN {pos} ELSE {a \in Areas : ~Bad(n, <<a, a>>)}

Found(results, left) == {[nav |-> f.nav, path |-> f.path, left |-> left] : f \in results}

\* One more start is tried for each search that has found nothing so far.
TryAlternative(found, d) ==
    UNION {IF f.path # <<>> \/ f.left = {} THEN {f}
           ELSE UNION {Found(FindPath(f.nav, s, d), f.left \ {s}) : s \in f.left} :
             f \in found}

\* Faulty: the destination to repath to is set by the first job only.
TakeJob_NoDestination(f, job) ==
    [f.nav EXCEPT !.crumbs = Crumbs(f.path, job.local), !.goal = job.dest,
                  !.priority = job.priority, !.local = job.local, !.repath = job.repath,
                  !.failed = NoArea]

\* From the start, then from those of the other areas that are nearest to the
\* player, in any order.
Search(n, s, d) ==
    LET T(found) == TryAlternative(found, d)
    IN  T(T(T(T(T(Found(FindPath(n, s, d), ({pos} \cup Nearby[pos]) \ {s}))))))

TakeJob(f, job) ==
    [f.nav EXCEPT !.crumbs = Crumbs(f.path, job.local), !.goal = job.dest,
                  !.priority = job.priority, !.local = job.local, !.repath = job.repath,
                  !.destination = IF job.repath THEN job.dest ELSE @,
                  !.failed = NoArea]

\* Faulty: the priority of the job there is, is not looked at.
NavTo_AnyPriority(n0, job) ==
    LET n == EnsureMapLoaded(n0) IN
    IF ~IsReady(n) \/ n.failed = job.dest THEN {Fail(n, job.dest)}
    ELSE {IF f.path = <<>> THEN Fail(f.nav, job.dest) ELSE TakeJob(f, job) :
            f \in UNION {Search(n, s, job.dest) : s \in StartAreas(n)}}

NavTo(n0, job) ==
    LET n == EnsureMapLoaded(n0) IN
    IF ~IsReady(n) \/ job.priority < n.priority THEN {Fail(n, job.dest)}
    ELSE IF n.failed = job.dest THEN {n}
    ELSE IF StartAreas(n) = {} THEN {Fail(n, job.dest)}
    ELSE {IF f.path = <<>> THEN Fail(f.nav, job.dest) ELSE TakeJob(f, job) :
            f \in UNION {Search(n, s, job.dest) : s \in StartAreas(n)}}

\* Faulty: the path finder keeps its answers.
AbandonPath_KeepsAnswers(n) ==
    LET dropped == [n EXCEPT !.crumbs = <<>>, !.last = NoArea, !.goal = NoArea]
    IN  IF n.repath THEN NavTo(dropped, [dest |-> n.destination, priority |-> n.priority,
                                         repath |-> TRUE, local |-> n.local])
        ELSE {[dropped EXCEPT !.priority = 0]}

\* Faulty: the defaults of navTo are taken instead of current_navtolocal.
AbandonPath_Defaults(n) ==
    LET dropped == [PatherReset(n) EXCEPT !.crumbs = <<>>, !.last = NoArea, !.goal = NoArea]
    IN  IF n.repath THEN NavTo(dropped, [dest |-> n.destination, priority |-> n.priority,
                                         repath |-> TRUE, local |-> TRUE])
        ELSE {[dropped EXCEPT !.priority = 0]}

\* The path is dropped; a job that repaths starts over to the same destination.
AbandonPath(n) ==
    LET dropped == [PatherReset(n) EXCEPT !.crumbs = <<>>, !.last = NoArea, !.goal = NoArea]
        again   == [dest |-> n.destination, priority |-> n.priority,
                    repath |-> TRUE, local |-> n.local]
    IN  IF n.repath THEN NavTo(dropped, again) ELSE {[dropped EXCEPT !.priority = 0]}

-----------------------------------------------------------------------------
(* The parts of a CreateMove tick, in their order.                         *)

\* A closed door blocks the way to it, within its first area, or the way beyond.
Impassable(i, n, inner) ==
    IF n.crumbs[i] = n.crumbs[i + 1] THEN <<n.crumbs[i + 1], n.crumbs[i + 2]>> \in inner
    ELSE <<n.crumbs[i], n.crumbs[i + 1]>> \in closed \ inner

\* The pairs of crumbs before the first impassable one are cached as passable
\* unless they are marked bad; that one is marked, and the path left. A pair that
\* is impassable within its area marks the area as a whole.
TestCrumbs(n, inner) ==
    LET pairs == {i \in 1..Len(n.crumbs) - 1 : n.crumbs[i] # NoArea /\ n.crumbs[i + 1] # NoArea}
        first == {i \in pairs : /\ Impassable(i, n, inner)
                                /\ \A j \in pairs : Impassable(j, n, inner) => i <= j}
        seen  == {<<n.crumbs[i], n.crumbs[i + 1]>> : i \in {j \in pairs : \A f \in first : j < f}}
        failed == {<<n.crumbs[i], n.crumbs[i + 1]>> : i \in first}
        checked == [n EXCEPT !.vis = [k \in Keys |->
                      IF k \in failed THEN "stuck"
                      ELSE IF k \in seen \cap Doors /\ ~Bad(n, k) THEN "pass" ELSE n.vis[k]]]
    IN  IF first = {} THEN {checked} ELSE AbandonPath(checked)

VischeckPath(n) == UNION {TestCrumbs(n, inner) : inner \in SUBSET closed}

\* Faulty: only the crumb that is walked to is checked.
CheckBlacklist_Next(n, ubered) ==
    IF ubered \/ StartAreas(n) \cap n.blacklist # {}
    THEN {PatherReset([n EXCEPT !.blocked = TRUE])}
    ELSE IF n.crumbs # <<>> /\ n.crumbs[1] \in n.blacklist
    THEN AbandonPath([n EXCEPT !.blocked = FALSE]) ELSE {[n EXCEPT !.blocked = FALSE]}

\* The blacklist is not obeyed by a player who is invulnerable or stands in it.
\* When it is obeyed again the path finder keeps what it remembers.
CheckBlacklist(n, ubered) ==
    LET ignored == PatherReset([n EXCEPT !.blocked = TRUE])
        obeyed  == [n EXCEPT !.blocked = FALSE]
        within  == StartAreas(n) \cap n.blacklist
    IN  (IF ubered \/ within # {} THEN {ignored} ELSE {})
        \cup (IF ubered \/ (within # {} /\ StartAreas(n) \subseteq within) THEN {}
              ELSE IF ToSet(n.crumbs) \cap n.blacklist # {} THEN AbandonPath(obeyed)
              ELSE {obeyed})

\* A crumb is reached from its own area, the last one from the destination's.
Near(n, c) == c = pos \/ (c = NoArea /\ n.goal = pos)

Reach(n, i) == [n EXCEPT !.crumbs = SubSeq(@, i + 1, Len(@)), !.last = n.crumbs[i]]

\* Faulty: a walk that has ended keeps its priority.
FollowCrumbs_KeepsPriority(n) ==
    IF n.crumbs = <<>> THEN {[CancelPath(n) EXCEPT !.priority = n.priority]}
    ELSE {n} \cup (IF Near(n, n.crumbs[1]) THEN {Reach(n, 1)} ELSE {})

\* A walk that has ended ends its job. Otherwise the first crumb may be reached,
\* and then, or instead, the second of those left.
FollowCrumbs(n) ==
    IF n.crumbs = <<>>
    THEN {CancelPath(n)}
    ELSE LET one == {n} \cup (IF Near(n, n.crumbs[1]) THEN {Reach(n, 1)} ELSE {})
         IN  one \cup {Reach(m, 2) : m \in {x \in one : Len(x.crumbs) > 1 /\ Near(x, x.crumbs[2])}}

\* The connection to the next crumb is marked stuck, whether it is one or not.
BlacklistStuckConnectionAndRepath(n) ==
    LET to   == n.crumbs[1]
        from == IF n.last # NoArea THEN n.last ELSE to
    IN  AbandonPath(IF to = NoArea THEN n ELSE [n EXCEPT !.vis[<<from, to>>] = "stuck"])

UpdateStuckTime(n, stuck) ==
    IF n.crumbs # <<>> /\ stuck THEN BlacklistStuckConnectionAndRepath(n) ELSE {n}

\* Sentries and stickies are looked for again, what has expired is dropped; the
\* path finder is reset when something expired or the blacklist has another SIZE.
UpdateIgnores(n, found, gone, keys, forgotten) ==
    LET m == [n EXCEPT !.blacklist = found \ gone, !.sized = Cardinality(found),
                       !.vis = [k \in Keys |-> IF k \in keys THEN "none" ELSE n.vis[k]]]
        erased == Cardinality(found) # n.sized \/ m.blacklist # found \/ m.vis # n.vis \/ forgotten
    IN  IF erased THEN PatherReset(m) ELSE m

\* The part of the tick of a player who is alive in a round, before updateIgnores.
Steps(n, vischeck, check, ubered, stuck) ==
    LET a == IF jumped /\ n.crumbs # <<>> THEN {CancelPath(n)} ELSE {n}
        b == IF vischeck THEN UNION {VischeckPath(m) : m \in a} ELSE a
        c == IF check THEN UNION {CheckBlacklist(m, ubered) : m \in b} ELSE b
        d == UNION {FollowCrumbs(m) : m \in c}
    IN  UNION {UpdateStuckTime(m, stuck) : m \in d}

-----------------------------------------------------------------------------
(* The handlers.                                                           *)

Env == <<game, level, pos, closed>>
Loaded == EnsureMapLoaded(nav)
FewStuck(n) == Cardinality(StuckKeys(n)) <= MaxStuck
MayStick == {s \in BOOLEAN : s => MaxStuck > 0}

\* No game, no mesh, or switched off: whatever is left of a job is cancelled.
CreateMoveUnavailable ==
    /\ game \in {"menu", "off"} \/ ~Active(Loaded)
    /\ nav' = IF Loaded.crumbs # <<>> \/ Loaded.priority # 0 THEN CancelPath(Loaded) ELSE Loaded
    /\ UNCHANGED <<Env, jumped>>

CreateMoveNotReady ==
    /\ game = "setup" /\ Active(Loaded)
    /\ nav' = Loaded
    /\ UNCHANGED <<Env, jumped>>

CreateMoveDead ==
    /\ game = "dead" /\ Active(Loaded)
    /\ nav' = CancelPath(Loaded)
    /\ UNCHANGED <<Env, jumped>>

\* The vischeck and the blacklist check wait for their timers.
Walk(vischeck, check, ubered, stuck) ==
    /\ game = "round" /\ Active(Loaded)
    /\ nav' \in Steps(Loaded, vischeck, check, ubered, stuck)
    /\ FewStuck(nav')
    /\ jumped' = FALSE /\ UNCHANGED Env

\* A tick in which the timer of updateIgnores fires; at most one connection and
\* one area expire in it.
WalkAndUpdate ==
    /\ game = "round" /\ Active(Loaded)
    /\ \E n \in Steps(Loaded, FALSE, FALSE, FALSE, FALSE), found \in SUBSET Dangers,
          gone \in {{}} \cup {{a} : a \in Dangers}, keys \in {{}} \cup {{k} : k \in {x \in Keys : nav.vis[x] # "none"}},
          forgotten \in BOOLEAN :
            nav' = UpdateIgnores(n, found, gone, keys, forgotten)
    /\ jumped' = FALSE /\ UNCHANGED Env

CreateMove ==
    \/ CreateMoveUnavailable \/ CreateMoveNotReady \/ CreateMoveDead \/ WalkAndUpdate
    \/ \E vischeck \in BOOLEAN, stuck \in MayStick :
         \/ Walk(vischeck, FALSE, FALSE, stuck)
         \/ \E ubered \in Ubered : Walk(vischeck, TRUE, ubered, stuck)

LevelInit(n) == [CancelPath(n) EXCEPT !.dirty = TRUE]

\* The server changes the level, or the player joins.
JoinLevel ==
    /\ game' = "setup" /\ level' \in Levels /\ pos' \in Areas
    /\ jumped' = FALSE /\ closed' = {} /\ nav' = LevelInit(nav)

\* The setting nav.enabled is switched on in a game.
Enable ==
    /\ game = "off" /\ game' = "round"
    /\ nav' = LevelInit(nav) /\ jumped' = FALSE
    /\ UNCHANGED <<level, pos, closed>>

\* The command nav_init: the Map is deleted, the next call makes a new one.
NavInit ==
    /\ InGame
    /\ nav' = [MapReset(LevelInit(nav)) EXCEPT !.level = NoLevel, !.blocked = FALSE]
    /\ jumped' = FALSE /\ UNCHANGED Env

Respawn ==
    /\ game = "dead" /\ game' = "round" /\ pos' \in Areas
    /\ jumped' = TRUE /\ nav' = PatherReset(nav)
    /\ UNCHANGED <<level, closed>>

\* A bot has somewhere to go.
NavToJob == \E job \in Jobs :
    /\ InGame /\ nav' \in NavTo(nav, job)
    /\ UNCHANGED <<Env, jumped>>

Cancel ==
    /\ IsReady(Loaded) /\ nav' = CancelPath(Loaded)
    /\ UNCHANGED <<Env, jumped>>

\* A bot that stands at a dispenser and finds no way to it takes the priority.
SetPriority == \E p \in Supplies \ {nav.priority} :
    /\ IsReady(Loaded) /\ nav' = [Loaded EXCEPT !.priority = p]
    /\ UNCHANGED <<Env, jumped>>

\* A bot asks what the way to somewhere would cost.
GetPathCost == \E d \in Areas : \E s \in StartAreas(Loaded) :
    /\ IsReady(Loaded) /\ \E f \in Solve(Loaded, s, d) : nav' = f.nav
    /\ UNCHANGED <<Env, jumped>>

\* A bot edits the map's blacklist through getFreeBlacklist or clears of it.
EditFreeBlacklist == \E S \in SUBSET Dangers :
    /\ IsReady(Loaded) /\ nav' = [Loaded EXCEPT !.blacklist = S]
    /\ UNCHANGED <<Env, jumped>>

-----------------------------------------------------------------------------
(* The world.                                                              *)

Moves == [menu |-> {}, off |-> {"menu"}, setup |-> {"round", "menu"},
          round |-> {"setup", "dead", "off", "menu"}, dead |-> {"setup", "menu"}]

GameChanges ==
    /\ game' \in Moves[game] \cap Phases
    /\ UNCHANGED <<level, pos, jumped, closed, nav>>

PlayerMoves ==
    /\ game \in {"setup", "round", "off"} /\ pos' \in Areas \ {pos}
    /\ jumped' \in {jumped, TRUE} /\ UNCHANGED <<game, level, closed, nav>>

DoorMoves == \E door \in Doors :
    /\ InGame /\ closed' = (closed \ {door}) \cup ({door} \ closed)
    /\ UNCHANGED <<game, level, pos, jumped, nav>>

\* 500 ms since the last failure of navTo.
CooldownEnds ==
    /\ nav' = [nav EXCEPT !.failed = NoArea]
    /\ UNCHANGED <<Env, jumped>>

Next ==
    \/ CreateMove \/ JoinLevel \/ Enable \/ NavInit \/ Respawn
    \/ NavToJob \/ Cancel \/ SetPriority \/ GetPathCost \/ EditFreeBlacklist
    \/ GameChanges \/ PlayerMoves \/ DoorMoves \/ CooldownEnds

Spec == Init /\ [][Next]_vars

\* The game calls CreateMove in every frame.
FairSpec == Spec /\ WF_vars(CreateMove)

-----------------------------------------------------------------------------
(* Properties.                                                             *)

NavType ==
    [vis : [Keys -> {"none", "pass", "fail", "stuck"}],
     known : [Areas -> (SUBSET Areas) \cup {Unknown}],
     blacklist : SUBSET Areas, blocked : BOOLEAN, sized : Nat,
     level : Levels \cup {NoLevel}, dirty : BOOLEAN,
     crumbs : Seq(Areas \cup {NoArea}), last : Areas \cup {NoArea}, goal : Areas \cup {NoArea},
     priority : Nat, local : BOOLEAN, repath : BOOLEAN,
     destination : Areas \cup {NoArea}, failed : Areas \cup {NoArea}]

\* The types, and that a repeating job has somewhere to go: abandonPath passes
\* last_destination to navTo whenever repath_on_fail is set.
TypeOK ==
    /\ game \in {"menu", "off", "setup", "round", "dead"} /\ level \in Levels
    /\ pos \in Areas /\ jumped \in BOOLEAN /\ closed \subseteq Doors
    /\ nav \in NavType
    /\ nav.repath => nav.destination # NoArea

\* Steps of a path: the pairs of crumbs in two different areas.
Crossings(n) == {<<n.crumbs[i], n.crumbs[i + 1]>> : i \in
                   {j \in 1..Len(n.crumbs) - 1 : /\ n.crumbs[j] # n.crumbs[j + 1]
                                                 /\ NoArea \notin {n.crumbs[j], n.crumbs[j + 1]}}}

\* Where a player got stuck no path leads from one of its areas to the next: it
\* crosses no connection that is marked stuck, and goes on into no area marked bad
\* as a whole, although the path finder answers from a cache that knows nothing
\* of marks. This is said of the way from the first crumb on: the starts that navTo
\* tries when nothing is found from the player's own area are not looked up in
\* the marks, so the first area may be a bad one.
AvoidsStuck == \A k \in Crossings(nav) :
                 nav.vis[k] # "stuck" /\ ~Bad(nav, <<k[2], k[2]>>)

\* A tick whose path is to be left; what follows is said of what it then does.
Walking == game = "round" /\ ~nav.dirty /\ IsReady(nav)

\* The starts that navTo tries in place of the player's own area, without a look
\* at the blacklist; all of them when the player's own area is marked bad.
OtherStarts(n) == IF Bad(n, <<pos, pos>>) THEN Areas ELSE Nearby[pos] \ {pos}

\* Only such a start may be in the blacklist, and be entered as the first crumb.
ObeysBlacklist(n) == \A i \in DOMAIN n.crumbs :
    n.crumbs[i] \in n.blacklist =>
        n.local /\ n.crumbs[i] = n.crumbs[1] /\ n.crumbs[1] \in OtherStarts(n)

\* When checkBlacklist has run and the blacklist is to be obeyed, the path leads
\* into no blacklisted area, wherever it came from, but for a start that navTo has
\* tried in place of the player's own area: of a path that does, nothing is left,
\* not even in the path finder that computed it.
BlacklistObeyed == Walking =>
    \A n \in CheckBlacklist(nav, FALSE) : ~n.blocked => ObeysBlacklist(n)

\* There is a way to the destination of the job: through doors that are open, not
\* over connections marked stuck, not into areas marked bad or blacklisted.
WayOpen(n) ==
    ~Bad(n, <<pos, pos>>) /\
    \E p \in Routes : /\ p[1] = pos /\ p[Len(p)] = n.destination
                      /\ \A i \in 1..Len(p) - 1 : /\ <<p[i], p[i + 1]>> \in Conn \ closed
                                                  /\ n.vis[<<p[i], p[i + 1]>>] # "stuck"
                                                  /\ MayEnter(n, p[i + 1])

\* abandonPath finds a way when there is one, whatever failed tests and answers
\* of the path finder are cached, unless a navTo to the same destination failed
\* in the last 500 ms.
AbandonRecovers ==
    Walking /\ nav.repath /\ WayOpen(nav) /\ nav.failed # nav.destination
        => \A n \in AbandonPath(nav) : n.crumbs # <<>>

\* What abandonPath finds a way for is the job that was walked: the same
\* destination at the same priority, started the same way, to be repeated again.
RepathKeepsJob ==
    Walking /\ nav.repath /\ nav.crumbs # <<>> =>
        \A n \in AbandonPath(nav) : n.crumbs # <<>> =>
            <<n.goal, n.priority, n.local, n.repath>> = <<nav.goal, nav.priority, nav.local, TRUE>>

\* The priority of a job that lost its path does not lock out the others for
\* good: in the end it is dropped, walked again, or the engine is not ready.
JobDropped ==
    (nav.crumbs = <<>> /\ nav.priority > 0)
        ~> (nav.priority = 0 \/ nav.crumbs # <<>> \/ ~IsReady(nav))

\* What the bots see of the engine: the job, and whether there is a path.
Seen == INSTANCE PathEngine WITH
          Priorities <- {job.priority : job \in Jobs},
          engine <- [priority |-> nav.priority, pathing |-> nav.crumbs # <<>>]

\* Whatever the Map and its caches do, the engine is what the bots rely on: a
\* job gives way only to one that is not below it, to a cancellation, or after
\* its path is over (navTo, abandonPath, followCrumbs; NavBot is built on it).
ImplementsEngine == Seen!EngineSpec

=============================================================================
