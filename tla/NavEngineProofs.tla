--------------------------- MODULE NavEngineProofs ---------------------------
(***************************************************************************)
(* The navigation engine implements PathEngine, for every mesh, every set  *)
(* of jobs and whatever the caches hold: the functions of the Map change   *)
(* caches only, those of the engine change priority and crumbs in three    *)
(* ways, a tick, a job, a cancellation.  In the second part, what the      *)
(* caches never spoil.                                                     *)
(***************************************************************************)
EXTENDS NavEngine, SequenceTheorems, FiniteSetTheorems, TLAPS

USE MeshAssumption

-----------------------------------------------------------------------------
(* What the functions of the Map leave alone.                              *)

Fields == {"vis", "known", "blacklist", "blocked", "sized", "level", "dirty", "crumbs", "last",
           "goal", "priority", "local", "repath", "destination", "failed"}

\* A record with the fields of nav.
Engine(n) == DOMAIN n = Fields /\ n = [x \in Fields |-> n[x]]

\* Both have the same job, the same crumbs and the same level.
Kept(n, m) ==
  /\ Engine(m)
  /\ m.crumbs = n.crumbs /\ m.priority = n.priority /\ m.dirty = n.dirty /\ m.level = n.level

LEMMA KeptTransitive ==
  ASSUME NEW n, NEW m, NEW o, Kept(n, m), Kept(m, o) PROVE Kept(n, o)
BY DEF Kept

LEMMA PatherResetKeeps ==
  ASSUME NEW n, Engine(n) PROVE Kept(n, PatherReset(n))
BY DEF Engine, Fields, Kept, PatherReset

LEMMA PurgeKeeps ==
  ASSUME NEW n, Engine(n) PROVE Kept(n, PurgeTransientVischeck(n))
<1> DEFINE m == [n EXCEPT !.vis = [k \in Keys |-> IF k \in Transient(n) THEN "none" ELSE n.vis[k]]]
<1>1. Kept(n, m)
  BY DEF Engine, Fields, Kept
<1> HIDE DEF m
<1>2. Engine(m)
  BY <1>1 DEF Kept
<1>3. Kept(m, PatherReset(m))
  BY <1>2, PatherResetKeeps
<1> QED BY <1>1, <1>3, KeptTransitive DEF PurgeTransientVischeck, m

LEMMA ExpandKeeps ==
  ASSUME NEW n, Engine(n), NEW E, NEW near PROVE Kept(n, Expand(n, E, near))
BY DEF Engine, Fields, Kept, Expand

\* A search and its results: paths of areas, and an engine with the job it had.
Result(n, f) == {"nav", "path"} \subseteq DOMAIN f /\ Kept(n, f.nav) /\ f.path \in Seq(Areas)
Searched(n, results) == \A f \in results : Result(n, f)

LEMMA ResultOf ==
  ASSUME NEW n, NEW m, Kept(n, m), NEW path \in Seq(Areas)
  PROVE  Result(n, [nav |-> m, path |-> path])
BY DEF Result

LEMMA RoutesAreSequences == Routes \subseteq Seq(Areas)
<1> SUFFICES ASSUME NEW p \in Routes PROVE p \in Seq(Areas)
  OBVIOUS
<1>1. PICK i \in 1 .. Cardinality(Areas) : p \in [1 .. i -> Areas]
  BY DEF Routes
<1> QED BY <1>1

LEMMA SolveKeeps ==
  ASSUME NEW n, Engine(n), NEW s \in Areas, NEW d PROVE Searched(n, Solve(n, s, d))
<1> DEFINE near   == Neighbours(n)
           walks  == RoutesFrom(s, near)
           solved == {p \in walks : p[Len(p)] = d}
           reach  == {Last(p) : p \in {q \in walks : d \notin ToSet(q)}}
           grown(E) == \A a \in E : \E p \in walks : p[Len(p)] = a /\ ToSet(p) \subseteq E
           chosen == {y \in solved \X SUBSET reach :
                        ToSet(y[1]) \ {d} \subseteq y[2] /\ grown(y[2])}
           here   == [nav |-> n, path |-> <<s>>]
           none   == [nav |-> Expand(n, reach, near), path |-> <<>>]
           some(x) == [nav |-> Expand(n, x[2], near), path |-> x[1]]
<1>1. Solve(n, s, d) = IF s = d THEN {here}
                       ELSE IF solved = {} THEN {none} ELSE {some(x) : x \in chosen}
  BY Zenon DEF Solve
<1>2. Result(n, here)
  <2>1. Kept(n, n)
    BY DEF Kept
  <2>2. <<s>> \in Seq(Areas)
    OBVIOUS
  <2> QED BY <2>1, <2>2, ResultOf
<1>3. Result(n, none)
  <2> HIDE DEF reach, near
  <2>1. Kept(n, Expand(n, reach, near))
    BY ExpandKeeps
  <2>2. <<>> \in Seq(Areas)
    OBVIOUS
  <2> QED BY <2>1, <2>2, ResultOf
<1>4. ASSUME NEW x \in chosen PROVE Result(n, some(x))
  <2>1. x[1] \in Seq(Areas)
    BY RoutesAreSequences DEF RoutesFrom
  <2> HIDE DEF chosen, near
  <2>2. Kept(n, Expand(n, x[2], near))
    BY ExpandKeeps
  <2> QED BY <2>1, <2>2, ResultOf
<1> HIDE DEF here, none, some, chosen, solved
<1> QED BY <1>1, <1>2, <1>3, <1>4 DEF Searched

\* What a search that found nothing leaves behind.
LEMMA FinishKeeps ==
  ASSUME NEW n, NEW f, Result(n, f)
  PROVE  Result(n, IF f.path # <<>> THEN f ELSE [f EXCEPT !.nav = PatherReset(f.nav)])
<1>1. Kept(n, PatherReset(f.nav))
  BY PatherResetKeeps, KeptTransitive DEF Result, Kept
<1> QED BY <1>1 DEF Result

LEMMA FindPathKeeps ==
  ASSUME NEW n, Engine(n), NEW s \in Areas, NEW d PROVE Searched(n, FindPath(n, s, d))
<1> DEFINE retry(f) == IF f.path # <<>> \/ Transient(f.nav) = {} THEN {f}
                       ELSE Solve(PurgeTransientVischeck(f.nav), s, d)
           finish(f) == IF f.path # <<>> THEN f ELSE [f EXCEPT !.nav = PatherReset(f.nav)]
           tries == UNION {retry(f) : f \in Solve(n, s, d)}
<1>1. FindPath(n, s, d) = {finish(g) : g \in tries}
  BY Zenon DEF FindPath
<1>2. \A f \in Solve(n, s, d) : Result(n, f)
  BY SolveKeeps DEF Searched
<1>3. ASSUME NEW g \in tries PROVE Result(n, g)
  <2>1. PICK f \in Solve(n, s, d) : g \in retry(f)
    BY <1>3
  <2>2. Kept(n, PurgeTransientVischeck(f.nav))
    BY <1>2, PurgeKeeps, KeptTransitive DEF Kept, Result
  <2>3. Searched(PurgeTransientVischeck(f.nav), Solve(PurgeTransientVischeck(f.nav), s, d))
    BY <2>2, SolveKeeps DEF Kept
  <2>4. CASE g = f
    BY <1>2, <2>4
  <2>5. CASE g \in Solve(PurgeTransientVischeck(f.nav), s, d)
    BY <2>2, <2>3, <2>5, KeptTransitive DEF Searched, Result
  <2> QED BY <2>1, <2>4, <2>5
<1>4. \A g \in tries : Result(n, finish(g))
  BY <1>3, FinishKeeps
<1> HIDE DEF tries, finish
<1> QED BY <1>1, <1>4 DEF Searched

\* A search from one of several starts, with the starts that are left.
SearchKept(n, found) == \A f \in found : Result(n, f) /\ f.left \subseteq Areas

LEMMA FoundStarts ==
  ASSUME NEW n, NEW results, Searched(n, results), NEW left \in SUBSET Areas
  PROVE  SearchKept(n, Found(results, left))
BY DEF SearchKept, Searched, Result, Found

LEMMA AlternativeKeeps ==
  ASSUME NEW n, NEW found, NEW d, SearchKept(n, found)
  PROVE  SearchKept(n, TryAlternative(found, d))
<1> DEFINE more(f) == UNION {Found(FindPath(f.nav, s, d), f.left \ {s}) : s \in f.left}
           next(f) == IF f.path # <<>> \/ f.left = {} THEN {f} ELSE more(f)
<1>1. TryAlternative(found, d) = UNION {next(f) : f \in found}
  BY Zenon DEF TryAlternative
<1>2. ASSUME NEW f \in found, NEW s \in f.left
      PROVE  SearchKept(n, Found(FindPath(f.nav, s, d), f.left \ {s}))
  <2>1. Result(n, f) /\ f.left \subseteq Areas /\ Engine(f.nav)
    BY DEF SearchKept, Result, Kept
  <2>2. Searched(f.nav, FindPath(f.nav, s, d))
    BY <2>1, FindPathKeeps
  <2>3. Searched(n, FindPath(f.nav, s, d))
    BY <2>1, <2>2, KeptTransitive DEF Searched, Result
  <2> QED BY <2>1, <2>3, FoundStarts
<1>3. ASSUME NEW f \in found, NEW g \in more(f) PROVE Result(n, g) /\ g.left \subseteq Areas
  <2>1. PICK s \in f.left : g \in Found(FindPath(f.nav, s, d), f.left \ {s})
    BY <1>3
  <2> QED BY <1>2, <2>1 DEF SearchKept
<1>4. ASSUME NEW f \in found, NEW g \in next(f) PROVE Result(n, g) /\ g.left \subseteq Areas
  <2> HIDE DEF more
  <2> QED BY <1>3 DEF SearchKept
<1> HIDE DEF next
<1> QED BY <1>1, <1>4 DEF SearchKept

LEMMA SearchKeeps ==
  ASSUME pos \in Areas, NEW n, Engine(n), NEW s \in Areas, NEW d
  PROVE  SearchKept(n, Search(n, s, d))
<1> DEFINE T(found) == TryAlternative(found, d)
           first == Found(FindPath(n, s, d), ({pos} \cup Nearby[pos]) \ {s})
<1>1. Search(n, s, d) = T(T(T(T(T(first)))))
  BY Zenon DEF Search
<1>2. ({pos} \cup Nearby[pos]) \ {s} \in SUBSET Areas
  OBVIOUS
<1>3. SearchKept(n, first)
  BY <1>2, FindPathKeeps, FoundStarts
<1> HIDE DEF first
<1>4. SearchKept(n, T(T(first)))
  BY <1>3, AlternativeKeeps
<1>5. SearchKept(n, T(T(T(T(first)))))
  BY <1>4, AlternativeKeeps
<1> QED BY <1>1, <1>5, AlternativeKeeps

-----------------------------------------------------------------------------
(* Jobs.                                                                   *)

Nothing(n) == n.priority = 0 /\ n.crumbs = <<>>

Clean(n) == ~n.dirty /\ n.level # NoLevel

LEMMA LengthOfBoth ==
  ASSUME NEW X, NEW q \in Seq(X), NEW r \in Seq(X)
  PROVE  Len(q \o r) = Len(q) + Len(r)
BY ConcatProperties

\* A path that was found gives crumbs.
LEMMA CrumbsOfPath ==
  ASSUME NEW path \in Seq(Areas), path # <<>>, NEW local
  PROVE  Crumbs(path, local) # <<>>
<1> DEFINE p == IF local THEN path ELSE Tail(path)
           q == [i \in 1 .. 2 * Len(p) |-> IF i = 2 * Len(p) THEN NoArea ELSE p[(i + 1) \div 2]]
           r == IF p = <<>> THEN <<NoArea>> ELSE <<>>
           X == {q[i] : i \in DOMAIN q} \cup {NoArea}
<1>1. Crumbs(path, local) = q \o r
  BY DEF Crumbs
<1>2. p \in Seq(Areas)
  OBVIOUS
<1>3. Len(p) \in Nat /\ (p # <<>> => Len(p) > 0)
  BY <1>2
<1> HIDE DEF p
<1>4. q \in Seq(X) /\ Len(q) = 2 * Len(p)
  <2>1. 2 * Len(p) \in Nat
    BY <1>3
  <2>2. q \in [1 .. 2 * Len(p) -> X]
    OBVIOUS
  <2> HIDE DEF q, X
  <2> QED BY <2>1, <2>2
<1>5. r \in Seq(X) /\ Len(r) = IF p = <<>> THEN 1 ELSE 0
  <2>1. NoArea \in X
    OBVIOUS
  <2> HIDE DEF X
  <2>2. CASE p = <<>>
    BY <2>1, <2>2
  <2>3. CASE p # <<>>
    BY <2>3
  <2> QED BY <2>2, <2>3
<1> HIDE DEF q, r, X
<1>6. Len(q \o r) = Len(q) + Len(r)
  BY <1>4, <1>5, LengthOfBoth
<1>7. Len(q \o r) > 0
  BY <1>3, <1>4, <1>5, <1>6
<1>8. Len(<<>>) = 0
  OBVIOUS
<1> QED BY <1>1, <1>7, <1>8

\* To cancel leaves nothing.
LEMMA CancelLeavesNothing ==
  ASSUME NEW n, Engine(n)
  PROVE  /\ Engine(CancelPath(n)) /\ Nothing(CancelPath(n))
         /\ CancelPath(n).dirty = n.dirty /\ CancelPath(n).level = n.level
BY DEF Engine, Fields, CancelPath, Nothing

\* A level is loaded once; what there was of a job stays or is cancelled.
LEMMA LoadedOnce ==
  ASSUME NEW n, Engine(n), level \in Levels
  PROVE  LET l == EnsureMapLoaded(n) IN
         /\ Engine(l)
         /\ Kept(n, l) \/ Nothing(l) \/ (l.crumbs = n.crumbs /\ l.priority = n.priority)
         /\ Clean(n) => l = n
         /\ InGame => Clean(l)
         /\ ~InGame => l = n
<1> DEFINE l == EnsureMapLoaded(n)
           m == [MapReset(n) EXCEPT !.dirty = FALSE]
           o == [MapReset(CancelPath(n)) EXCEPT !.dirty = FALSE, !.level = level, !.blocked = FALSE]
<1>1. l = IF (~n.dirty /\ n.level # NoLevel) \/ ~InGame THEN n ELSE IF n.level = level THEN m ELSE o
  BY Zenon DEF EnsureMapLoaded
<1>2. Engine(m) /\ m.crumbs = n.crumbs /\ m.priority = n.priority /\ ~m.dirty /\ m.level = n.level
  BY DEF MapReset, PatherReset, Engine, Fields
<1>3. Engine(o) /\ Nothing(o) /\ ~o.dirty /\ o.level = level
  BY CancelLeavesNothing DEF MapReset, PatherReset, Engine, Fields, Nothing
<1> HIDE DEF m, o, l
<1>4. level # NoLevel
  OBVIOUS
<1> QED BY <1>1, <1>2, <1>3, <1>4 DEF Clean, Kept, l

\* navTo leaves the job there is, or takes its place if that is not above.
Takes(n, m, job) ==
  /\ Engine(m) /\ m.dirty = n.dirty /\ m.level = n.level
  /\ m.priority = job.priority /\ m.crumbs # <<>> /\ ~(job.priority < n.priority)

LEMMA FailKeeps == ASSUME NEW n, Engine(n), NEW d PROVE Kept(n, Fail(n, d))
BY DEF Engine, Fields, Kept, Fail

LEMMA TakeJobTakes ==
  ASSUME NEW n, NEW f, Result(n, f), f.path # <<>>, NEW job, ~(job.priority < n.priority)
  PROVE  Takes(n, TakeJob(f, job), job)
<1>1. Crumbs(f.path, job.local) # <<>>
  BY CrumbsOfPath DEF Result
<1> QED BY <1>1 DEF Result, Kept, Engine, Fields, TakeJob, Takes

LEMMA NavToResults ==
  ASSUME pos \in Areas, level \in Levels, NEW n, Engine(n), NEW job, NEW m \in NavTo(n, job)
  PROVE  LET l == EnsureMapLoaded(n) IN Kept(l, m) \/ Takes(l, m, job)
<1> DEFINE l == EnsureMapLoaded(n)
           found == UNION {Search(l, s, job.dest) : s \in StartAreas(l)}
           ends(f) == IF f.path = <<>> THEN Fail(f.nav, job.dest) ELSE TakeJob(f, job)
<1>1. NavTo(n, job) = IF ~IsReady(l) \/ job.priority < l.priority THEN {Fail(l, job.dest)}
                      ELSE IF l.failed = job.dest THEN {l}
                      ELSE IF StartAreas(l) = {} THEN {Fail(l, job.dest)}
                      ELSE {ends(f) : f \in found}
  BY Zenon DEF NavTo
<1>2. Engine(l)
  BY LoadedOnce
<1> HIDE DEF l
<1>3. Kept(l, l) /\ Kept(l, Fail(l, job.dest))
  BY <1>2, FailKeeps DEF Kept
<1>4. ASSUME NEW f \in found, ~(job.priority < l.priority)
      PROVE  Kept(l, ends(f)) \/ Takes(l, ends(f), job)
  <2>1. PICK s \in StartAreas(l) : f \in Search(l, s, job.dest)
    BY <1>4
  <2>2. s \in Areas
    BY <2>1 DEF StartAreas
  <2>3. Result(l, f)
    BY <1>2, <2>1, <2>2, SearchKeeps DEF SearchKept
  <2>4. CASE f.path = <<>>
    BY <2>3, <2>4, FailKeeps, KeptTransitive DEF Result, Kept
  <2>5. CASE f.path # <<>>
    BY <1>4, <2>3, <2>5, TakeJobTakes
  <2> QED BY <2>4, <2>5
<1> HIDE DEF found, ends
<1>5. CASE ~IsReady(l) \/ job.priority < l.priority
  BY <1>1, <1>3, <1>5 DEF l
<1>6. CASE ~(~IsReady(l) \/ job.priority < l.priority)
  BY <1>1, <1>3, <1>4, <1>6 DEF l
<1> QED BY <1>5, <1>6

-----------------------------------------------------------------------------
(* The parts of a tick.                                                    *)

\* A part of a tick ends the job, or goes on with its priority; a path does not
\* come from nowhere.
Goes(n, m) == Nothing(m) \/ (m.priority = n.priority /\ (n.crumbs = <<>> => m.crumbs = <<>>))

Part(n, m) == Engine(m) /\ Clean(m) /\ Goes(n, m)

LEMMA PartTransitive ==
  ASSUME NEW n, NEW m, NEW o, Part(n, m), Part(m, o) PROVE Part(n, o)
BY DEF Part, Goes, Nothing

LEMMA KeptIsPart == ASSUME NEW n, NEW m, Clean(n), Kept(n, m) PROVE Part(n, m)
BY DEF Kept, Part, Goes, Clean

LEMMA AbandonIsPart ==
  ASSUME pos \in Areas, level \in Levels, NEW n, Engine(n), Clean(n), n.crumbs # <<>>,
         NEW m \in AbandonPath(n)
  PROVE  Part(n, m)
<1> DEFINE o == [PatherReset(n) EXCEPT !.crumbs = <<>>, !.last = NoArea, !.goal = NoArea]
           again == [dest |-> n.destination, priority |-> n.priority,
                     repath |-> TRUE, local |-> n.local]
           over == [o EXCEPT !.priority = 0]
<1>1. AbandonPath(n) = IF n.repath THEN NavTo(o, again) ELSE {over}
  BY Zenon DEF AbandonPath
<1>2. Kept(n, PatherReset(n))
  BY PatherResetKeeps
<1>3. /\ Engine(o) /\ o.crumbs = <<>> /\ o.priority = n.priority
      /\ o.dirty = n.dirty /\ o.level = n.level
  <2> HIDE DEF PatherReset
  <2> QED BY <1>2 DEF Kept, Engine, Fields
<1> HIDE DEF o
<1>4. Part(n, over)
  BY <1>3 DEF Part, Goes, Nothing, Clean, Engine, Fields
<1>5. ASSUME m \in NavTo(o, again) PROVE Part(n, m)
  <2>1. Clean(o)
    BY <1>3 DEF Clean
  <2>2. EnsureMapLoaded(o) = o
    BY <1>3, <2>1, LoadedOnce
  <2>3. Kept(o, m) \/ Takes(o, m, again)
    BY <1>3, <1>5, <2>2, NavToResults
  <2>4. again.priority = n.priority
    OBVIOUS
  <2> HIDE DEF again
  <2> QED BY <1>3, <2>3, <2>4 DEF Kept, Takes, Part, Goes, Clean
<1> HIDE DEF again, over
<1> QED BY <1>1, <1>4, <1>5

LEMMA CrumbsTestedIsPart ==
  ASSUME pos \in Areas, level \in Levels, NEW n, Engine(n), Clean(n), NEW inner,
         NEW m \in TestCrumbs(n, inner)
  PROVE  Part(n, m)
<1> DEFINE pairs == {i \in 1 .. Len(n.crumbs) - 1 : n.crumbs[i] # NoArea /\ n.crumbs[i + 1] # NoArea}
           first == {i \in pairs : /\ Impassable(i, n, inner)
                                   /\ \A j \in pairs : Impassable(j, n, inner) => i <= j}
           seen == {<<n.crumbs[i], n.crumbs[i + 1]>> : i \in {j \in pairs : \A f \in first : j < f}}
           failed == {<<n.crumbs[i], n.crumbs[i + 1]>> : i \in first}
           vis == [k \in Keys |-> IF k \in failed THEN "stuck"
                                  ELSE IF k \in seen \cap Doors /\ ~Bad(n, k) THEN "pass" ELSE n.vis[k]]
           checked == [n EXCEPT !.vis = vis]
<1>1. TestCrumbs(n, inner) = IF first = {} THEN {checked} ELSE AbandonPath(checked)
  BY Zenon DEF TestCrumbs
<1>2. first # {} => n.crumbs # <<>>
  OBVIOUS
<1> HIDE DEF first, vis
<1>3. Kept(n, checked)
  BY DEF Kept, Engine, Fields
<1> HIDE DEF checked
<1>4. Part(n, checked)
  BY <1>3, KeptIsPart
<1>5. ASSUME first # {}, m \in AbandonPath(checked) PROVE Part(n, m)
  <2>1. Engine(checked) /\ Clean(checked) /\ checked.crumbs # <<>>
    BY <1>2, <1>3, <1>5 DEF Kept, Clean
  <2> QED BY <1>4, <1>5, <2>1, AbandonIsPart, PartTransitive
<1> QED BY <1>1, <1>4, <1>5

LEMMA VischeckIsPart ==
  ASSUME pos \in Areas, level \in Levels, NEW n, Engine(n), Clean(n), NEW m \in VischeckPath(n)
  PROVE  Part(n, m)
<1>1. PICK inner \in SUBSET closed : m \in TestCrumbs(n, inner)
  BY Zenon DEF VischeckPath
<1> QED BY <1>1, CrumbsTestedIsPart

LEMMA BlacklistIsPart ==
  ASSUME pos \in Areas, level \in Levels, NEW n, Engine(n), Clean(n), NEW ubered,
         NEW m \in CheckBlacklist(n, ubered)
  PROVE  Part(n, m)
<1> DEFINE strict == [n EXCEPT !.blocked = FALSE]
           loose == [n EXCEPT !.blocked = TRUE]
<1>1. \/ m = PatherReset(loose) \/ m = strict
      \/ ToSet(n.crumbs) \cap n.blacklist # {} /\ m \in AbandonPath(strict)
  BY Zenon DEF CheckBlacklist
<1>2. Kept(n, strict) /\ Kept(n, loose)
  BY DEF Kept, Engine, Fields
<1> HIDE DEF strict, loose
<1>3. Kept(n, PatherReset(loose))
  BY <1>2, PatherResetKeeps, KeptTransitive DEF Kept
<1>4. ASSUME ToSet(n.crumbs) \cap n.blacklist # {}, m \in AbandonPath(strict) PROVE Part(n, m)
  <2>1. n.crumbs # <<>>
    BY <1>4 DEF ToSet
  <2>2. Engine(strict) /\ Clean(strict) /\ strict.crumbs # <<>>
    BY <1>2, <2>1 DEF Kept, Clean
  <2> QED BY <1>2, <1>4, <2>2, AbandonIsPart, KeptIsPart, PartTransitive
<1> QED BY <1>1, <1>2, <1>3, <1>4, KeptIsPart

\* A tick: without a path the job is over, with one it may go on.
Ticks(n, m) ==
  Engine(m) /\ Clean(m) /\ (Nothing(m) \/ (n.crumbs # <<>> /\ m.priority = n.priority))

LEMMA FollowTicks ==
  ASSUME NEW n, NEW m, Part(n, m), NEW o \in FollowCrumbs(m) PROVE Ticks(n, o)
<1> DEFINE one == {m} \cup (IF Near(m, m.crumbs[1]) THEN {Reach(m, 1)} ELSE {})
           two == {Reach(x, 2) : x \in {y \in one : Len(y.crumbs) > 1 /\ Near(y, y.crumbs[2])}}
<1>1. FollowCrumbs(m) = IF m.crumbs = <<>> THEN {CancelPath(m)} ELSE one \cup two
  BY Zenon DEF FollowCrumbs
<1>2. ASSUME NEW x, Engine(x), NEW i
      PROVE  /\ Engine(Reach(x, i)) /\ Reach(x, i).priority = x.priority
             /\ Reach(x, i).dirty = x.dirty /\ Reach(x, i).level = x.level
  BY <1>2 DEF Reach, Engine, Fields
<1>3. CASE m.crumbs = <<>>
  BY <1>1, <1>3, CancelLeavesNothing DEF Part, Ticks, Clean
<1>4. CASE m.crumbs # <<>>
  <2>1. n.crumbs # <<>> /\ m.priority = n.priority
    BY <1>4 DEF Part, Goes, Nothing
  <2>2. \A x \in one : Engine(x) /\ x.priority = m.priority /\ x.dirty = m.dirty /\ x.level = m.level
    BY <1>2 DEF Part
  <2> HIDE DEF one
  <2>3. \A x \in two : Engine(x) /\ x.priority = m.priority /\ x.dirty = m.dirty /\ x.level = m.level
    BY <1>2, <2>2
  <2> HIDE DEF two
  <2> QED BY <1>1, <1>4, <2>1, <2>2, <2>3 DEF Part, Clean, Ticks
<1> QED BY <1>3, <1>4

LEMMA StuckTicks ==
  ASSUME pos \in Areas, level \in Levels, NEW n, NEW m, Ticks(n, m), NEW stuck,
         NEW o \in UpdateStuckTime(m, stuck)
  PROVE  Ticks(n, o)
<1> DEFINE to   == m.crumbs[1]
           from == IF m.last # NoArea THEN m.last ELSE to
           marked == [m EXCEPT !.vis[<<from, to>>] = "stuck"]
           left == IF to = NoArea THEN m ELSE marked
<1>1. o = m \/ (m.crumbs # <<>> /\ o \in AbandonPath(left))
  BY DEF UpdateStuckTime, BlacklistStuckConnectionAndRepath
<1>2. Engine(m) /\ Clean(m)
  BY DEF Ticks
<1>3. Kept(m, left)
  BY <1>2 DEF Kept, Engine, Fields
<1> HIDE DEF left
<1>4. ASSUME m.crumbs # <<>>, o \in AbandonPath(left) PROVE Ticks(n, o)
  <2>1. Engine(left) /\ Clean(left) /\ left.crumbs # <<>>
    BY <1>2, <1>3, <1>4 DEF Kept, Clean
  <2>2. Part(m, o)
    BY <1>2, <1>3, <1>4, <2>1, AbandonIsPart, KeptIsPart, PartTransitive
  <2> QED BY <1>4, <2>2 DEF Part, Goes, Ticks, Nothing
<1> QED BY <1>1, <1>4

LEMMA StepsTick ==
  ASSUME pos \in Areas, level \in Levels, NEW n, Engine(n), Clean(n),
         NEW vischeck, NEW check, NEW ubered, NEW stuck,
         NEW m \in Steps(n, vischeck, check, ubered, stuck)
  PROVE  Ticks(n, m)
<1> DEFINE a == IF jumped /\ n.crumbs # <<>> THEN {CancelPath(n)} ELSE {n}
           b == IF vischeck THEN UNION {VischeckPath(x) : x \in a} ELSE a
           c == IF check THEN UNION {CheckBlacklist(x, ubered) : x \in b} ELSE b
           d == UNION {FollowCrumbs(x) : x \in c}
<1>1. Steps(n, vischeck, check, ubered, stuck) = UNION {UpdateStuckTime(x, stuck) : x \in d}
  BY Zenon DEF Steps
<1>2. \A x \in a : Part(n, x)
  BY CancelLeavesNothing DEF Part, Goes, Clean
<1> HIDE DEF a
<1>3. \A x \in b : Part(n, x)
  <2> SUFFICES ASSUME NEW y \in a, NEW x \in VischeckPath(y) PROVE Part(n, x)
    BY <1>2
  <2> QED BY <1>2, VischeckIsPart, PartTransitive DEF Part
<1> HIDE DEF b
<1>4. \A x \in c : Part(n, x)
  <2> SUFFICES ASSUME NEW y \in b, NEW x \in CheckBlacklist(y, ubered) PROVE Part(n, x)
    BY <1>3
  <2> QED BY <1>3, BlacklistIsPart, PartTransitive DEF Part
<1> HIDE DEF c
<1>5. \A x \in d : Ticks(n, x)
  BY <1>4, FollowTicks
<1> HIDE DEF d
<1> QED BY <1>1, <1>5, StuckTicks

LEMMA UpdateKeeps ==
  ASSUME NEW n, Engine(n), NEW found, NEW gone, NEW keys, NEW forgotten
  PROVE  Kept(n, UpdateIgnores(n, found, gone, keys, forgotten))
<1> DEFINE m == [n EXCEPT !.blacklist = found \ gone, !.sized = Cardinality(found),
                          !.vis = [k \in Keys |-> IF k \in keys THEN "none" ELSE n.vis[k]]]
<1>1. Kept(n, m)
  BY DEF Kept, Engine, Fields
<1>2. UpdateIgnores(n, found, gone, keys, forgotten) \in {m, PatherReset(m)}
  BY DEF UpdateIgnores
<1> HIDE DEF m
<1>3. Kept(n, PatherReset(m))
  BY <1>1, PatherResetKeeps, KeptTransitive DEF Kept
<1> QED BY <1>1, <1>2, <1>3

-----------------------------------------------------------------------------
(* The handlers: each is a step of PathEngine, or none.                    *)

\* A new level finds no job, and is loaded before any job is taken.
EngineInv ==
  /\ pos \in Areas /\ level \in Levels
  /\ Engine(nav)
  /\ Clean(nav) \/ Nothing(nav)

\* What the bots see of two states of the engine is the same.
SameJob(n, m) == m.priority = n.priority /\ (m.crumbs = <<>> <=> n.crumbs = <<>>)

\* The level that is loaded brings no change to the job.
LEMMA LoadedIsSame ==
  ASSUME EngineInv
  PROVE  /\ Engine(Loaded) /\ SameJob(nav, Loaded)
         /\ InGame => Clean(Loaded)
         /\ Clean(Loaded) \/ Nothing(Loaded)
BY LoadedOnce DEF EngineInv, Loaded, SameJob, Kept, Nothing, Clean

\* The steps of the engine, as relations on nav.
Becomes(n, m) ==
  \/ SameJob(n, m)
  \/ Nothing(m)
  \/ Ticks(n, m)
  \/ \E job \in Jobs : m.priority = job.priority /\ m.crumbs # <<>> /\ ~(job.priority < n.priority)
  \/ m.priority \in Supplies /\ (m.crumbs = <<>> <=> n.crumbs = <<>>)

LEMMA BecomesStep ==
  ASSUME NEW n, NEW m, NEW o, SameJob(n, m), Becomes(m, o) PROVE Becomes(n, o)
BY DEF Becomes, SameJob, Ticks

LEMMA KeptStep ==
  ASSUME EngineInv, pos' \in Areas, level' \in Levels,
         Kept(nav, nav') \/ (Kept(Loaded, nav') /\ (Clean(Loaded) \/ Nothing(Loaded)))
  PROVE  EngineInv' /\ Becomes(nav, nav')
<1>1. CASE Kept(nav, nav')
  BY <1>1 DEF EngineInv, Kept, Clean, Nothing, Becomes, SameJob
<1>2. CASE Kept(Loaded, nav') /\ (Clean(Loaded) \/ Nothing(Loaded))
  BY <1>2, LoadedIsSame DEF EngineInv, Kept, Clean, Nothing, Becomes, SameJob
<1> QED BY <1>1, <1>2

LEMMA NothingStep ==
  ASSUME EngineInv, pos' \in Areas, level' \in Levels, Engine(nav'), Nothing(nav')
  PROVE  EngineInv' /\ Becomes(nav, nav')
BY DEF EngineInv, Becomes

LEMMA TickStep ==
  ASSUME EngineInv, pos' \in Areas, level' \in Levels, Ticks(Loaded, nav')
  PROVE  EngineInv' /\ Becomes(nav, nav')
<1>1. Becomes(Loaded, nav')
  BY DEF Becomes
<1> QED BY <1>1, LoadedIsSame, BecomesStep DEF EngineInv, Ticks

LEMMA EngineInit == Init => EngineInv
<1> SUFFICES ASSUME Init PROVE EngineInv
  OBVIOUS
<1>1. Engine(NoEngine) /\ Nothing(NoEngine)
  BY DEF NoEngine, Engine, Fields, Nothing
<1> QED BY <1>1 DEF Init, EngineInv

LEMMA CreateMoveStep ==
  ASSUME EngineInv, CreateMove PROVE EngineInv' /\ Becomes(nav, nav')
<1>1. pos' \in Areas /\ level' \in Levels
  BY DEF EngineInv, CreateMove, CreateMoveUnavailable, CreateMoveNotReady, CreateMoveDead, Walk,
         WalkAndUpdate, Env
<1>2. /\ Engine(Loaded) /\ Kept(Loaded, Loaded) /\ (Clean(Loaded) \/ Nothing(Loaded))
      /\ InGame => Clean(Loaded)
  BY LoadedIsSame DEF Kept
<1>3. Engine(CancelPath(Loaded)) /\ Nothing(CancelPath(Loaded))
  BY <1>2, CancelLeavesNothing
<1>4. CASE CreateMoveUnavailable
  BY <1>1, <1>2, <1>3, <1>4, KeptStep, NothingStep DEF CreateMoveUnavailable
<1>5. CASE CreateMoveNotReady
  BY <1>1, <1>2, <1>5, KeptStep DEF CreateMoveNotReady
<1>6. CASE CreateMoveDead
  BY <1>1, <1>3, <1>6, NothingStep DEF CreateMoveDead
<1>7. ASSUME NEW vischeck, NEW check, NEW ubered, NEW stuck, Walk(vischeck, check, ubered, stuck)
      PROVE  EngineInv' /\ Becomes(nav, nav')
  <2>1. Clean(Loaded)
    BY <1>2, <1>7 DEF Walk, InGame
  <2>2. Ticks(Loaded, nav')
    BY <1>2, <1>7, <2>1, StepsTick DEF Walk, EngineInv
  <2> QED BY <1>1, <2>2, TickStep
<1>8. CASE WalkAndUpdate
  <2>1. Clean(Loaded)
    BY <1>2, <1>8 DEF WalkAndUpdate, InGame
  <2>2. PICK n \in Steps(Loaded, FALSE, FALSE, FALSE, FALSE) :
               \E found, gone, keys, forgotten :
                 nav' = UpdateIgnores(n, found, gone, keys, forgotten)
    BY <1>8 DEF WalkAndUpdate
  <2>3. Ticks(Loaded, n)
    BY <1>2, <2>1, StepsTick DEF EngineInv
  <2>4. Kept(n, nav')
    BY <2>2, <2>3, UpdateKeeps DEF Ticks
  <2>5. Ticks(Loaded, nav')
    BY <2>3, <2>4 DEF Ticks, Kept, Clean, Nothing
  <2> QED BY <1>1, <2>5, TickStep
<1> QED BY <1>4, <1>5, <1>6, <1>7, <1>8 DEF CreateMove

LEMMA LevelInitLeavesNothing ==
  ASSUME NEW n, Engine(n) PROVE Engine(LevelInit(n)) /\ Nothing(LevelInit(n))
<1>1. Engine(CancelPath(n)) /\ Nothing(CancelPath(n))
  BY CancelLeavesNothing
<1> QED BY <1>1 DEF LevelInit, Engine, Fields, Nothing

LEMMA LevelsStep ==
  ASSUME EngineInv, JoinLevel \/ Enable \/ NavInit \/ Respawn
  PROVE  EngineInv' /\ Becomes(nav, nav')
<1>1. pos' \in Areas /\ level' \in Levels
  BY DEF EngineInv, JoinLevel, Enable, NavInit, Respawn, Env
<1>2. Engine(nav) /\ Engine(LevelInit(nav)) /\ Nothing(LevelInit(nav))
  BY LevelInitLeavesNothing DEF EngineInv
<1>3. CASE JoinLevel \/ Enable
  BY <1>1, <1>2, <1>3, NothingStep DEF JoinLevel, Enable
<1>4. CASE NavInit
  <2> DEFINE m == [MapReset(LevelInit(nav)) EXCEPT !.level = NoLevel, !.blocked = FALSE]
  <2>1. Engine(m) /\ Nothing(m)
    <3> HIDE DEF LevelInit
    <3> QED BY <1>2 DEF MapReset, PatherReset, Engine, Fields, Nothing
  <2> HIDE DEF m
  <2>2. nav' = m
    BY <1>4 DEF NavInit, m
  <2> QED BY <1>1, <2>1, <2>2, NothingStep
<1>5. CASE Respawn
  BY <1>1, <1>2, <1>5, PatherResetKeeps, KeptStep DEF Respawn
<1> QED BY <1>3, <1>4, <1>5

LEMMA JobsStep ==
  ASSUME EngineInv, NavToJob \/ Cancel \/ SetPriority \/ GetPathCost \/ EditFreeBlacklist
  PROVE  EngineInv' /\ Becomes(nav, nav')
<1>1. pos' \in Areas /\ level' \in Levels /\ pos \in Areas /\ level \in Levels
  BY DEF EngineInv, NavToJob, Cancel, SetPriority, GetPathCost, EditFreeBlacklist, Env
<1>2. Engine(Loaded) /\ Clean(Loaded) /\ SameJob(nav, Loaded)
  BY LoadedIsSame DEF NavToJob, Cancel, SetPriority, GetPathCost, EditFreeBlacklist, IsReady, InGame
<1>3. CASE NavToJob
  <2>1. PICK job \in Jobs : nav' \in NavTo(nav, job)
    BY <1>3 DEF NavToJob
  <2>2. Kept(Loaded, nav') \/ Takes(Loaded, nav', job)
    BY <1>1, <2>1, NavToResults DEF EngineInv, Loaded
  <2>3. CASE Takes(Loaded, nav', job)
    <3>1. Becomes(Loaded, nav') /\ Engine(nav') /\ Clean(nav')
      BY <1>2, <2>3 DEF Takes, Becomes, Clean
    <3> QED BY <1>1, <1>2, <3>1, BecomesStep DEF EngineInv
  <2> QED BY <1>1, <1>2, <2>2, <2>3, KeptStep
<1>4. CASE Cancel
  BY <1>1, <1>2, <1>4, CancelLeavesNothing, NothingStep DEF Cancel
<1>5. CASE SetPriority
  <2>1. PICK p \in Supplies : nav' = [Loaded EXCEPT !.priority = p]
    BY <1>5 DEF SetPriority
  <2>2. Engine(nav') /\ nav'.priority = p /\ nav'.crumbs = Loaded.crumbs /\ Clean(nav')
    BY <1>2, <2>1 DEF Engine, Fields, Clean
  <2>3. Becomes(Loaded, nav')
    BY <2>2 DEF Becomes
  <2> QED BY <1>1, <1>2, <2>2, <2>3, BecomesStep DEF EngineInv
<1>6. CASE GetPathCost
  <2>1. PICK d \in Areas, s \in StartAreas(Loaded) : \E f \in Solve(Loaded, s, d) : nav' = f.nav
    BY <1>6 DEF GetPathCost
  <2>2. s \in Areas
    BY <1>1 DEF StartAreas
  <2>3. Kept(Loaded, nav')
    BY <1>2, <2>1, <2>2, SolveKeeps DEF Searched, Result
  <2> QED BY <1>1, <1>2, <2>3, KeptStep
<1>7. CASE EditFreeBlacklist
  <2>1. PICK S \in SUBSET Dangers : nav' = [Loaded EXCEPT !.blacklist = S]
    BY <1>7 DEF EditFreeBlacklist
  <2>2. Kept(Loaded, nav')
    BY <1>2, <2>1 DEF Kept, Engine, Fields
  <2> QED BY <1>1, <1>2, <2>2, KeptStep
<1> QED BY <1>3, <1>4, <1>5, <1>6, <1>7

LEMMA WorldStep ==
  ASSUME EngineInv, GameChanges \/ PlayerMoves \/ DoorMoves \/ CooldownEnds \/ UNCHANGED vars
  PROVE  EngineInv' /\ Becomes(nav, nav')
<1>1. pos' \in Areas /\ level' \in Levels
  BY DEF EngineInv, GameChanges, PlayerMoves, DoorMoves, CooldownEnds, Env, vars
<1>2. Kept(nav, nav') \/ nav' = nav
  BY DEF EngineInv, GameChanges, PlayerMoves, DoorMoves, CooldownEnds, Env, vars, Kept, Engine, Fields
<1> QED BY <1>1, <1>2, KeptStep DEF Kept, EngineInv

LEMMA EngineStep == EngineInv /\ [Next]_vars => EngineInv' /\ Becomes(nav, nav')
BY CreateMoveStep, LevelsStep, JobsStep, WorldStep DEF Next

-----------------------------------------------------------------------------
(* The refinement.                                                         *)

Seems(n) == [priority |-> n.priority, pathing |-> n.crumbs # <<>>]

LEMMA SeemsIdle == ASSUME NEW n, Nothing(n) PROVE Seems(n) = Seen!Idle
BY DEF Nothing, Seems, Seen!Idle

LEMMA SeemsSame == ASSUME NEW n, NEW m, SameJob(n, m) PROVE Seems(m) = Seems(n)
<1>1. CASE n.crumbs = <<>>
  BY <1>1 DEF SameJob, Seems
<1>2. CASE n.crumbs # <<>>
  BY <1>2 DEF SameJob, Seems
<1> QED BY <1>1, <1>2

LEMMA SeemsTicked ==
  ASSUME NEW n, NEW m, Ticks(n, m) PROVE Seems(m) \in Seen!Ticked(Seems(n))
<1>1. CASE Nothing(m)
  BY <1>1, SeemsIdle DEF Seen!Ticked
<1>2. CASE n.crumbs # <<>> /\ m.priority = n.priority
  <2>1. Seems(n).pathing
    BY <1>2 DEF Seems
  <2>2. CASE m.crumbs = <<>>
    <3>1. (m.crumbs # <<>>) = FALSE
      BY <2>2
    <3>2. Seems(m) = [priority |-> n.priority, pathing |-> FALSE]
      BY <1>2, <3>1, Zenon DEF Seems
    <3>3. Seems(n).priority = n.priority
      BY DEF Seems
    <3> QED BY <2>1, <3>2, <3>3 DEF Seen!Ticked
  <2>3. CASE m.crumbs # <<>>
    <3>1. Seems(m) = Seems(n)
      BY <1>2, <2>3, SeemsSame DEF SameJob
    <3> QED BY <2>1, <3>1 DEF Seen!Ticked
  <2> QED BY <2>2, <2>3
<1> QED BY <1>1, <1>2 DEF Ticks

\* Every step of the engine is a step of PathEngine, or none.
SeenNext == Seen!NavTo \/ Seen!CancelPath \/ Seen!SetPriority \/ Seen!CreateMove

LEMMA SeenStep ==
  ASSUME Becomes(nav, nav') PROVE SeenNext \/ Seems(nav') = Seems(nav)
<1>1. CASE SameJob(nav, nav')
  BY <1>1, SeemsSame
<1>2. CASE Nothing(nav')
  <2>1. Seen!CancelPath
    BY <1>2, SeemsIdle DEF Seen!CancelPath, Seems
  <2> QED BY <2>1 DEF SeenNext
<1>3. CASE Ticks(nav, nav')
  <2>1. Seen!CreateMove
    BY <1>3, SeemsTicked DEF Seen!CreateMove, Seems
  <2> QED BY <2>1 DEF SeenNext
<1>4. ASSUME NEW job \in Jobs, nav'.priority = job.priority, nav'.crumbs # <<>>,
             ~(job.priority < nav.priority)
      PROVE  Seen!NavTo
  <2>1. Seems(nav') \in Seen!Started(Seems(nav), job.priority)
    BY <1>4 DEF Seen!Started, Seems
  <2> QED BY <2>1 DEF Seen!NavTo, Seems
<1>5. CASE nav'.priority \in Supplies /\ (nav'.crumbs = <<>> <=> nav.crumbs = <<>>)
  <2>1. PICK job \in Jobs : job.priority = nav'.priority
    BY <1>5
  <2>2. Seems(nav') = [Seems(nav) EXCEPT !.priority = job.priority]
    BY <1>5, <2>1 DEF Seems
  <2>3. Seen!SetPriority
    BY <2>2 DEF Seen!SetPriority, Seems
  <2> QED BY <2>3 DEF SeenNext
<1> QED BY <1>1, <1>2, <1>3, <1>4, <1>5 DEF Becomes, SeenNext

\* Whatever the Map and its caches do, for every mesh and all jobs, the engine is what
\* the bots rely on: a job gives way only to one that is not below it, to a
\* cancellation, or after its path is over (navTo, abandonPath, followCrumbs).
THEOREM EngineImplements == Spec => ImplementsEngine
<1>1. Init => Seems(nav) = Seen!Idle
  <2> SUFFICES ASSUME Init PROVE Nothing(nav)
    BY SeemsIdle
  <2> QED BY DEF Init, NoEngine, Nothing
<1>2. EngineInv /\ [Next]_vars => [SeenNext]_(Seems(nav))
  BY EngineStep, SeenStep DEF Seems
<1>3. Spec => Seems(nav) = Seen!Idle /\ [][SeenNext]_(Seems(nav))
  BY EngineInit, EngineStep, <1>1, <1>2, PTL DEF Spec
<1> QED BY <1>3 DEF ImplementsEngine, Seen!EngineSpec, SeenNext, Seems

-----------------------------------------------------------------------------
(***************************************************************************)
(* What the caches of the navigation engine never spoil, for every mesh,   *)
(* every set of jobs and any number of marks: the paths heed the marks of  *)
(* connections where a player got stuck, and the blacklist when it is      *)
(* obeyed; a job that repeats is found again where there is a way.         *)
(*                                                                         *)
(* A search changes failed tests and remembered neighbours only (Same), so *)
(* that a set of connections which holds what it may take and what is      *)
(* remembered holds the path it finds (SearchFinds).                       *)
(***************************************************************************)

-----------------------------------------------------------------------------
(* What the path finder remembers.                                         *)

\* The record of the engine, with somewhere to go for a job that repeats, and no
\* area as a whole that failed a test: tests are of connections.
Typed(n) ==
  /\ n \in NavType
  /\ n.repath => n.destination # NoArea
  /\ \A b \in Areas : n.vis[<<b, b>>] # "fail"

\* The connections that no mark forbids.
Free(n) == {k \in Keys : k \notin StuckKeys(n) /\ <<k[2], k[2]>> \notin StuckKeys(n)}

\* Of these, those that the path finder may take.
Ways(n) == {k \in Free(n) : n.blocked \/ k[2] \notin n.blacklist}

\* All that the path finder remembers is in G.
Within(n, G) == \A a, b \in Areas : b \in n.known[a] => <<a, b>> \in G

\* A search changes tests and answers.
Same(n, m) ==
  /\ StuckKeys(m) = StuckKeys(n)
  /\ m.blacklist = n.blacklist /\ m.blocked = n.blocked /\ m.crumbs = n.crumbs
  /\ m.goal = n.goal /\ m.priority = n.priority /\ m.local = n.local /\ m.repath = n.repath
  /\ m.destination = n.destination

LEMMA SameTransitive ==
  ASSUME NEW n, NEW m, NEW o, Same(n, m), Same(m, o) PROVE Same(n, o)
BY DEF Same

LEMMA SameWays ==
  ASSUME NEW n, NEW m, Same(n, m) PROVE Ways(m) = Ways(n) /\ Free(m) = Free(n)
BY DEF Same, Ways, Free

\* n with other tests and answers.
Cached(n, vis, known) == [n EXCEPT !.vis = vis, !.known = known]

LEMMA TypedAgain ==
  ASSUME NEW n, Typed(n),
         NEW vis \in [Keys -> {"none", "pass", "fail", "stuck"}],
         NEW known \in [Areas -> (SUBSET Areas) \cup {Unknown}],
         \A b \in Areas : vis[<<b, b>>] = "fail" => n.vis[<<b, b>>] = "fail",
         StuckKeys(n) = {k \in Keys : vis[k] = "stuck"}
  PROVE  LET m == Cached(n, vis, known) IN
         Typed(m) /\ Same(n, m) /\ m.vis = vis /\ m.known = known
<1> DEFINE m == Cached(n, vis, known)
<1>1. n \in NavType
  BY DEF Typed
<1>2. m \in NavType
  BY <1>1 DEF Cached, NavType
<1>3. m.vis = vis /\ m.known = known /\ m.repath = n.repath /\ m.destination = n.destination
  BY <1>1 DEF Cached, NavType
<1>4. /\ m.blacklist = n.blacklist /\ m.blocked = n.blocked /\ m.crumbs = n.crumbs
      /\ m.goal = n.goal /\ m.priority = n.priority /\ m.local = n.local
  BY <1>1 DEF Cached, NavType
<1> HIDE DEF m
<1>5. Typed(m)
  BY <1>2, <1>3 DEF Typed
<1>6. Same(n, m)
  BY <1>3, <1>4 DEF Same, StuckKeys
<1> QED BY <1>3, <1>5, <1>6 DEF m

LEMMA TypedParts ==
  ASSUME NEW n, Typed(n)
  PROVE  /\ n.vis \in [Keys -> {"none", "pass", "fail", "stuck"}]
         /\ n.known \in [Areas -> (SUBSET Areas) \cup {Unknown}]
         /\ Engine(n)
<1>1. /\ n.vis \in [Keys -> {"none", "pass", "fail", "stuck"}]
      /\ n.known \in [Areas -> (SUBSET Areas) \cup {Unknown}]
  BY DEF Typed, NavType
<1>2. Engine(n)
  BY DEF Typed, NavType, Engine, Fields
<1> QED BY <1>1, <1>2

LEMMA ResetForgets ==
  ASSUME NEW n, Typed(n), NEW G
  PROVE  Typed(PatherReset(n)) /\ Same(n, PatherReset(n)) /\ Within(PatherReset(n), G)
         /\ PatherReset(n).vis = n.vis /\ PatherReset(n).known = [a \in Areas |-> Unknown]
<1> DEFINE known == [a \in Areas |-> Unknown]
<1>1. n.vis \in [Keys -> {"none", "pass", "fail", "stuck"}] /\ n \in NavType
  BY DEF Typed, NavType
<1>2. PatherReset(n) = Cached(n, n.vis, known)
  BY <1>1 DEF PatherReset, NavType, Cached
<1>3. known \in [Areas -> (SUBSET Areas) \cup {Unknown}]
  OBVIOUS
<1>4. StuckKeys(n) = {k \in Keys : n.vis[k] = "stuck"}
  BY DEF StuckKeys
<1>5. \A a, b \in Areas : b \notin known[a]
  BY DEF Unknown
<1> HIDE DEF known
<1>6. /\ Typed(PatherReset(n)) /\ Same(n, PatherReset(n)) /\ PatherReset(n).known = known
      /\ PatherReset(n).vis = n.vis
  BY <1>1, <1>2, <1>3, <1>4, TypedAgain
<1> QED BY <1>5, <1>6 DEF Within, known

LEMMA PurgeForgets ==
  ASSUME NEW n, Typed(n), NEW G
  PROVE  LET m == PurgeTransientVischeck(n) IN
         /\ Typed(m) /\ Same(n, m) /\ Within(m, G)
         /\ m.vis = [k \in Keys |-> IF n.vis[k] = "fail" THEN "none" ELSE n.vis[k]]
         /\ m.known = [a \in Areas |-> Unknown]
<1> DEFINE vis == [k \in Keys |-> IF n.vis[k] = "fail" THEN "none" ELSE n.vis[k]]
           m == [n EXCEPT !.vis = [k \in Keys |-> IF k \in Transient(n) THEN "none" ELSE n.vis[k]]]
<1>1. /\ n.vis \in [Keys -> {"none", "pass", "fail", "stuck"}] /\ n \in NavType
      /\ n.known \in [Areas -> (SUBSET Areas) \cup {Unknown}]
  BY DEF Typed, NavType
<1>2. m = Cached(n, vis, n.known)
  <2>1. vis = [k \in Keys |-> IF k \in Transient(n) THEN "none" ELSE n.vis[k]]
    BY DEF Transient
  <2> HIDE DEF vis
  <2> QED BY <1>1, <2>1 DEF NavType, Cached
<1>3. vis \in [Keys -> {"none", "pass", "fail", "stuck"}]
  BY <1>1
<1>4. StuckKeys(n) = {k \in Keys : vis[k] = "stuck"}
  BY DEF StuckKeys
<1>5. \A b \in Areas : vis[<<b, b>>] = "fail" => n.vis[<<b, b>>] = "fail"
  BY DEF Keys
<1> HIDE DEF vis, m
<1>6. Typed(m) /\ Same(n, m) /\ m.vis = vis
  BY <1>1, <1>2, <1>3, <1>4, <1>5, TypedAgain
<1>7. PurgeTransientVischeck(n) = PatherReset(m)
  BY DEF PurgeTransientVischeck, m
<1> QED BY <1>6, <1>7, ResetForgets, SameTransitive DEF vis

\* The neighbours of an area, remembered or asked for.
LEMMA NeighboursWithin ==
  ASSUME NEW n, Typed(n), NEW G, Within(n, G), Ways(n) \subseteq G
  PROVE  /\ Neighbours(n) \in [Areas -> SUBSET Areas]
         /\ \A a \in Areas : \A b \in Neighbours(n)[a] : <<a, b>> \in G
<1>1. /\ n.vis \in [Keys -> {"none", "pass", "fail", "stuck"}]
      /\ n.known \in [Areas -> (SUBSET Areas) \cup {Unknown}]
  BY TypedParts
<1>2. ASSUME NEW a \in Areas, NEW b, b \in AdjacentCost(n, a) PROVE b \in Areas /\ <<a, b>> \in Ways(n)
  <2>1. b \in Areas /\ <<a, b>> \in Keys /\ <<b, b>> \in Keys
    BY <1>2 DEF AdjacentCost, Keys
  <2>2. n.vis[<<a, b>>] # "stuck" /\ n.vis[<<b, b>>] # "stuck"
    BY <1>2 DEF AdjacentCost, MayEnter, Passable, Bad
  <2>3. n.blocked \/ b \notin n.blacklist
    BY <1>2 DEF AdjacentCost, MayEnter
  <2> QED BY <2>1, <2>2, <2>3 DEF Ways, Free, StuckKeys
<1>3. ASSUME NEW a \in Areas
      PROVE  Neighbours(n)[a] \subseteq Areas /\ \A b \in Neighbours(n)[a] : <<a, b>> \in G
  <2>1. CASE n.known[a] # Unknown
    BY <1>1, <2>1 DEF Neighbours, Within
  <2>2. CASE n.known[a] = Unknown
    BY <1>2, <2>2 DEF Neighbours
  <2> QED BY <2>1, <2>2
<1> QED BY <1>3 DEF Neighbours

LEMMA ExpandWithin ==
  ASSUME NEW n, Typed(n), NEW G, Within(n, G), NEW E,
         NEW near \in [Areas -> SUBSET Areas], \A a \in Areas : \A b \in near[a] : <<a, b>> \in G
  PROVE  LET m == Expand(n, E, near) IN
         /\ Typed(m) /\ Same(n, m) /\ Within(m, G)
         /\ \A k \in Keys : n.vis[k] = "fail" => m.vis[k] = "fail"
<1> DEFINE asked  == {a \in E : n.known[a] = Unknown}
           tested == UNION {Untested(n, a) : a \in asked}
           known == [a \in Areas |-> IF a \in E THEN near[a] ELSE n.known[a]]
           vis == [k \in Keys |-> IF k \notin tested THEN n.vis[k]
                                  ELSE IF k \in closed THEN "fail" ELSE "pass"]
           m == Cached(n, vis, known)
<1>1. /\ n.vis \in [Keys -> {"none", "pass", "fail", "stuck"}] /\ n \in NavType
      /\ n.known \in [Areas -> (SUBSET Areas) \cup {Unknown}]
  BY DEF Typed, NavType
<1>2. Expand(n, E, near) = m
  <2>1. Expand(n, E, near) = [n EXCEPT !.known = known, !.vis = vis]
    BY Zenon DEF Expand
  <2> HIDE DEF known, vis
  <2> QED BY <1>1, <2>1 DEF NavType, Cached
<1>3. \A k \in tested : k \in Doors /\ k[1] # k[2] /\ n.vis[k] = "none"
  BY DEF Untested
<1> HIDE DEF tested
<1>4. known \in [Areas -> (SUBSET Areas) \cup {Unknown}]
  BY <1>1
<1>5. vis \in [Keys -> {"none", "pass", "fail", "stuck"}]
  BY <1>1
<1>6. StuckKeys(n) = {k \in Keys : vis[k] = "stuck"}
  BY <1>3 DEF StuckKeys
<1>7. \A b \in Areas : vis[<<b, b>>] = "fail" => n.vis[<<b, b>>] = "fail"
  BY <1>3 DEF Keys
<1>8. \A k \in Keys : n.vis[k] = "fail" => vis[k] = "fail"
  BY <1>3
<1>9. \A a, b \in Areas : b \in known[a] => <<a, b>> \in G
  BY DEF Within
<1> HIDE DEF vis, known, m
<1>10. Typed(m) /\ Same(n, m) /\ m.vis = vis /\ m.known = known
  BY <1>4, <1>5, <1>6, <1>7, TypedAgain DEF m
<1> QED BY <1>2, <1>8, <1>9, <1>10 DEF Within

-----------------------------------------------------------------------------
(* What a search finds.                                                    *)

\* Every connection of the path is in G.
Along(p, G) == p \in Seq(Areas) /\ \A i \in 1 .. Len(p) - 1 : <<p[i], p[i + 1]>> \in G

\* An engine that n's searches may leave, for which n may be searched again.
Left(n, m, G) == Typed(m) /\ Same(n, m) /\ Within(m, G) /\ Ways(n) \subseteq G

FoundIn(n, f, G) == {"nav", "path"} \subseteq DOMAIN f /\ Left(n, f.nav, G) /\ Along(f.path, G)

LEMMA FoundInOf ==
  ASSUME NEW n, NEW m, NEW G, Left(n, m, G), NEW path, Along(path, G)
  PROVE  FoundIn(n, [nav |-> m, path |-> path], G)
BY DEF FoundIn

LEMMA LeftTransitive ==
  ASSUME NEW n, NEW m, NEW o, NEW G, Left(n, m, G), Left(m, o, G) PROVE Left(n, o, G)
BY SameTransitive DEF Left

LEMMA LeftAgain ==
  ASSUME NEW n, NEW m, NEW G, Left(n, m, G)
  PROVE  Left(m, m, G) /\ Left(n, PatherReset(m), G) /\ Left(n, PurgeTransientVischeck(m), G)
<1>1. Same(m, m) /\ Ways(m) \subseteq G
  BY SameWays DEF Left, Same
<1>2. LET o == PatherReset(m) IN Typed(o) /\ Same(m, o) /\ Within(o, G)
  BY ResetForgets DEF Left
<1>3. LET o == PurgeTransientVischeck(m) IN Typed(o) /\ Same(m, o) /\ Within(o, G)
  BY PurgeForgets DEF Left
<1> QED BY <1>1, <1>2, <1>3, SameTransitive DEF Left

LEMMA FollowsAlong ==
  ASSUME NEW near \in [Areas -> SUBSET Areas], NEW G,
         \A a \in Areas : \A b \in near[a] : <<a, b>> \in G,
         NEW s, NEW p \in RoutesFrom(s, near)
  PROVE  Along(p, G)
<1>1. p \in Seq(Areas) /\ Follows(p, near)
  BY RoutesAreSequences DEF RoutesFrom
<1>2. ASSUME NEW i \in 1 .. Len(p) - 1 PROVE <<p[i], p[i + 1]>> \in G
  <2>1. p[i] \in Areas /\ p[i + 1] \in near[p[i]]
    BY <1>1 DEF Follows
  <2> QED BY <2>1
<1> QED BY <1>1, <1>2 DEF Along

LEMMA SolveFinds ==
  ASSUME NEW n, NEW G, Left(n, n, G), NEW s \in Areas, NEW d, NEW f \in Solve(n, s, d)
  PROVE  FoundIn(n, f, G)
<1> DEFINE near   == Neighbours(n)
           walks  == RoutesFrom(s, near)
           solved == {p \in walks : p[Len(p)] = d}
           reach  == {Last(p) : p \in {q \in walks : d \notin ToSet(q)}}
           grown(E) == \A a \in E : \E p \in walks : p[Len(p)] = a /\ ToSet(p) \subseteq E
           chosen == {y \in solved \X SUBSET reach :
                        ToSet(y[1]) \ {d} \subseteq y[2] /\ grown(y[2])}
           here   == [nav |-> n, path |-> <<s>>]
           none   == [nav |-> Expand(n, reach, near), path |-> <<>>]
           some(x) == [nav |-> Expand(n, x[2], near), path |-> x[1]]
<1>1. Solve(n, s, d) = IF s = d THEN {here}
                       ELSE IF solved = {} THEN {none} ELSE {some(x) : x \in chosen}
  BY Zenon DEF Solve
<1>2. near \in [Areas -> SUBSET Areas] /\ \A a \in Areas : \A b \in near[a] : <<a, b>> \in G
  BY NeighboursWithin DEF Left
<1> HIDE DEF near
<1>3. ASSUME NEW E PROVE Left(n, Expand(n, E, near), G)
  BY <1>2, ExpandWithin DEF Left
<1>4. FoundIn(n, here, G)
  <2>1. Along(<<s>>, G)
    BY DEF Along
  <2> QED BY <2>1, FoundInOf
<1>5. FoundIn(n, none, G)
  <2>1. Along(<<>>, G)
    BY DEF Along
  <2> HIDE DEF reach
  <2> QED BY <1>3, <2>1, FoundInOf
<1>6. ASSUME NEW x \in chosen PROVE FoundIn(n, some(x), G)
  <2>1. Along(x[1], G)
    BY <1>2, FollowsAlong
  <2> HIDE DEF chosen
  <2> QED BY <1>3, <2>1, FoundInOf
<1> HIDE DEF here, none, some, chosen, solved
<1> QED BY <1>1, <1>4, <1>5, <1>6

LEMMA FindPathFinds ==
  ASSUME NEW n, NEW G, Left(n, n, G), NEW s \in Areas, NEW d, NEW f \in FindPath(n, s, d)
  PROVE  FoundIn(n, f, G)
<1> DEFINE retry(x) == IF x.path # <<>> \/ Transient(x.nav) = {} THEN {x}
                       ELSE Solve(PurgeTransientVischeck(x.nav), s, d)
           finish(x) == IF x.path # <<>> THEN x ELSE [x EXCEPT !.nav = PatherReset(x.nav)]
           tries == UNION {retry(x) : x \in Solve(n, s, d)}
<1>1. FindPath(n, s, d) = {finish(g) : g \in tries}
  BY Zenon DEF FindPath
<1>2. ASSUME NEW g \in tries PROVE FoundIn(n, g, G)
  <2>1. PICK x \in Solve(n, s, d) : g \in retry(x)
    BY <1>2
  <2>2. FoundIn(n, x, G)
    BY SolveFinds
  <2>3. ASSUME g \in Solve(PurgeTransientVischeck(x.nav), s, d) PROVE FoundIn(n, g, G)
    <3> DEFINE o == PurgeTransientVischeck(x.nav)
    <3>1. Left(n, o, G)
      BY <2>2, LeftAgain DEF FoundIn
    <3> HIDE DEF o
    <3>2. FoundIn(o, g, G)
      BY <2>3, <3>1, LeftAgain, SolveFinds DEF o
    <3> QED BY <3>1, <3>2, LeftTransitive DEF FoundIn
  <2> QED BY <2>1, <2>2, <2>3
<1>3. ASSUME NEW g \in tries PROVE FoundIn(n, finish(g), G)
  <2>1. FoundIn(n, g, G) /\ Left(n, PatherReset(g.nav), G)
    BY <1>2, LeftAgain DEF FoundIn
  <2> QED BY <2>1 DEF FoundIn
<1> HIDE DEF tries, finish
<1> QED BY <1>1, <1>3

\* A search from one of several starts.
StartsIn(n, found, G) == \A f \in found : FoundIn(n, f, G) /\ f.left \subseteq Areas

LEMMA FoundStartsIn ==
  ASSUME NEW n, NEW G, NEW results, \A f \in results : FoundIn(n, f, G),
         NEW left \in SUBSET Areas
  PROVE  StartsIn(n, Found(results, left), G)
BY DEF StartsIn, FoundIn, Found

LEMMA AlternativeFinds ==
  ASSUME NEW n, NEW G, NEW found, NEW d, StartsIn(n, found, G)
  PROVE  StartsIn(n, TryAlternative(found, d), G)
<1> DEFINE more(f) == UNION {Found(FindPath(f.nav, s, d), f.left \ {s}) : s \in f.left}
           next(f) == IF f.path # <<>> \/ f.left = {} THEN {f} ELSE more(f)
<1>1. TryAlternative(found, d) = UNION {next(f) : f \in found}
  BY Zenon DEF TryAlternative
<1>2. ASSUME NEW f \in found, NEW s \in f.left
      PROVE  StartsIn(n, Found(FindPath(f.nav, s, d), f.left \ {s}), G)
  <2>1. Left(n, f.nav, G) /\ f.left \subseteq Areas
    BY DEF StartsIn, FoundIn
  <2>2. ASSUME NEW g \in FindPath(f.nav, s, d) PROVE FoundIn(n, g, G)
    <3>1. FoundIn(f.nav, g, G)
      BY <2>1, LeftAgain, FindPathFinds
    <3> QED BY <2>1, <3>1, LeftTransitive DEF FoundIn
  <2> QED BY <2>1, <2>2, FoundStartsIn
<1>3. ASSUME NEW f \in found, NEW g \in more(f) PROVE FoundIn(n, g, G) /\ g.left \subseteq Areas
  <2>1. PICK s \in f.left : g \in Found(FindPath(f.nav, s, d), f.left \ {s})
    BY <1>3
  <2> QED BY <1>2, <2>1 DEF StartsIn
<1>4. ASSUME NEW f \in found, NEW g \in next(f) PROVE FoundIn(n, g, G) /\ g.left \subseteq Areas
  <2> HIDE DEF more
  <2> QED BY <1>3 DEF StartsIn
<1> HIDE DEF next
<1> QED BY <1>1, <1>4 DEF StartsIn

LEMMA SearchFinds ==
  ASSUME pos \in Areas, NEW n, NEW G, Left(n, n, G), NEW s \in Areas, NEW d,
         NEW f \in Search(n, s, d)
  PROVE  FoundIn(n, f, G)
<1> DEFINE T(found) == TryAlternative(found, d)
           first == Found(FindPath(n, s, d), ({pos} \cup Nearby[pos]) \ {s})
<1>1. Search(n, s, d) = T(T(T(T(T(first)))))
  BY Zenon DEF Search
<1>2. ({pos} \cup Nearby[pos]) \ {s} \in SUBSET Areas
  OBVIOUS
<1>3. StartsIn(n, first, G)
  BY <1>2, FindPathFinds, FoundStartsIn
<1> HIDE DEF first
<1>4. StartsIn(n, T(T(first)), G)
  BY <1>3, AlternativeFinds
<1>5. StartsIn(n, T(T(T(T(first)))), G)
  BY <1>4, AlternativeFinds
<1>6. StartsIn(n, Search(n, s, d), G)
  BY <1>1, <1>5, AlternativeFinds
<1> QED BY <1>6 DEF StartsIn

\* A path begins where its search did.
Begins(f, S) == f.path # <<>> => f.path[1] \in S

LEMMA SolveBegins ==
  ASSUME NEW n, NEW s, NEW d, NEW f \in Solve(n, s, d) PROVE Begins(f, {s})
<1> DEFINE near   == Neighbours(n)
           walks  == RoutesFrom(s, near)
           solved == {p \in walks : p[Len(p)] = d}
           reach  == {Last(p) : p \in {q \in walks : d \notin ToSet(q)}}
           grown(E) == \A a \in E : \E p \in walks : p[Len(p)] = a /\ ToSet(p) \subseteq E
           chosen == {y \in solved \X SUBSET reach :
                        ToSet(y[1]) \ {d} \subseteq y[2] /\ grown(y[2])}
           here   == [nav |-> n, path |-> <<s>>]
           none   == [nav |-> Expand(n, reach, near), path |-> <<>>]
           some(x) == [nav |-> Expand(n, x[2], near), path |-> x[1]]
<1>1. Solve(n, s, d) = IF s = d THEN {here}
                       ELSE IF solved = {} THEN {none} ELSE {some(x) : x \in chosen}
  BY Zenon DEF Solve
<1>2. here.path = <<s>> /\ none.path = <<>>
  OBVIOUS
<1>3. ASSUME NEW x \in chosen PROVE some(x).path[1] = s
  BY DEF RoutesFrom
<1> HIDE DEF here, none, some, chosen, solved
<1> QED BY <1>1, <1>2, <1>3 DEF Begins

LEMMA FindPathBegins ==
  ASSUME NEW n, NEW s \in Areas, NEW d, NEW G, Left(n, n, G), NEW f \in FindPath(n, s, d)
  PROVE  Begins(f, {s})
<1> DEFINE retry(x) == IF x.path # <<>> \/ Transient(x.nav) = {} THEN {x}
                       ELSE Solve(PurgeTransientVischeck(x.nav), s, d)
           finish(x) == IF x.path # <<>> THEN x ELSE [x EXCEPT !.nav = PatherReset(x.nav)]
           tries == UNION {retry(x) : x \in Solve(n, s, d)}
<1>1. FindPath(n, s, d) = {finish(g) : g \in tries}
  BY Zenon DEF FindPath
<1>2. PICK g \in tries : f = finish(g)
  BY <1>1
<1>3. PICK x \in Solve(n, s, d) : g \in retry(x)
  BY <1>2
<1>4. Begins(g, {s})
  BY <1>3, SolveBegins
<1>5. CASE g.path # <<>>
  BY <1>2, <1>4, <1>5
<1>6. CASE g.path = <<>>
  <2>1. f = [g EXCEPT !.nav = PatherReset(g.nav)]
    BY <1>2, <1>6
  <2>2. FoundIn(n, x, G)
    BY <1>3, SolveFinds
  <2>3. "path" \in DOMAIN g
    <3>1. CASE g = x
      BY <2>2, <3>1 DEF FoundIn
    <3>2. CASE g \in Solve(PurgeTransientVischeck(x.nav), s, d)
      <4> DEFINE o == PurgeTransientVischeck(x.nav)
      <4>1. Left(n, o, G)
        BY <2>2, LeftAgain DEF FoundIn
      <4> HIDE DEF o
      <4>2. FoundIn(o, g, G)
        BY <3>2, <4>1, LeftAgain, SolveFinds DEF o
      <4> QED BY <4>2 DEF FoundIn
    <3> QED BY <1>3, <3>1, <3>2
  <2>4. f.path = g.path
    BY <2>1, <2>3
  <2> QED BY <1>6, <2>4 DEF Begins
<1> QED BY <1>5, <1>6

\* A search for navTo: from the given start, or another.
BeginsIn(found, S) == \A f \in found : Begins(f, S) /\ f.left \subseteq S

LEMMA AlternativeBegins ==
  ASSUME NEW n, NEW G, NEW found, NEW d, StartsIn(n, found, G), NEW S, BeginsIn(found, S)
  PROVE  BeginsIn(TryAlternative(found, d), S)
<1> DEFINE more(f) == UNION {Found(FindPath(f.nav, s, d), f.left \ {s}) : s \in f.left}
           next(f) == IF f.path # <<>> \/ f.left = {} THEN {f} ELSE more(f)
<1>1. TryAlternative(found, d) = UNION {next(f) : f \in found}
  BY Zenon DEF TryAlternative
<1>2. ASSUME NEW f \in found, NEW g \in more(f) PROVE Begins(g, S) /\ g.left \subseteq S
  <2>1. PICK s \in f.left : g \in Found(FindPath(f.nav, s, d), f.left \ {s})
    BY <1>2
  <2>2. Left(f.nav, f.nav, G) /\ s \in Areas /\ f.left \subseteq S
    BY LeftAgain DEF StartsIn, FoundIn, BeginsIn
  <2>3. PICK h \in FindPath(f.nav, s, d) : g = [nav |-> h.nav, path |-> h.path, left |-> f.left \ {s}]
    BY <2>1 DEF Found
  <2>4. Begins(h, {s})
    BY <2>2, FindPathBegins
  <2> QED BY <2>2, <2>3, <2>4 DEF Begins
<1>3. ASSUME NEW f \in found, NEW g \in next(f) PROVE Begins(g, S) /\ g.left \subseteq S
  <2> HIDE DEF more
  <2> QED BY <1>2 DEF BeginsIn
<1> HIDE DEF next
<1> QED BY <1>1, <1>3 DEF BeginsIn

LEMMA SearchBegins ==
  ASSUME pos \in Areas, NEW n, NEW G, Left(n, n, G), NEW s \in Areas, NEW d,
         NEW f \in Search(n, s, d)
  PROVE  Begins(f, {s, pos} \cup Nearby[pos])
<1> DEFINE T(found) == TryAlternative(found, d)
           first == Found(FindPath(n, s, d), ({pos} \cup Nearby[pos]) \ {s})
           S == {s, pos} \cup Nearby[pos]
<1>1. Search(n, s, d) = T(T(T(T(T(first)))))
  BY Zenon DEF Search
<1>2. StartsIn(n, first, G)
  <2>1. ({pos} \cup Nearby[pos]) \ {s} \in SUBSET Areas
    OBVIOUS
  <2> QED BY <2>1, FindPathFinds, FoundStartsIn
<1>3. BeginsIn(first, S)
  <2> SUFFICES ASSUME NEW g \in first PROVE Begins(g, S) /\ g.left \subseteq S
    BY DEF BeginsIn
  <2>1. PICK h \in FindPath(n, s, d) :
          g = [nav |-> h.nav, path |-> h.path, left |-> ({pos} \cup Nearby[pos]) \ {s}]
    BY DEF Found
  <2>2. Begins(h, {s})
    BY FindPathBegins
  <2> QED BY <2>1, <2>2 DEF Begins
<1> HIDE DEF first, S
<1>4. StartsIn(n, T(first), G) /\ BeginsIn(T(first), S)
  BY <1>2, <1>3, AlternativeFinds, AlternativeBegins
<1>5. StartsIn(n, T(T(first)), G) /\ BeginsIn(T(T(first)), S)
  BY <1>4, AlternativeFinds, AlternativeBegins
<1>6. StartsIn(n, T(T(T(first))), G) /\ BeginsIn(T(T(T(first))), S)
  BY <1>5, AlternativeFinds, AlternativeBegins
<1>7. StartsIn(n, T(T(T(T(first)))), G) /\ BeginsIn(T(T(T(T(first)))), S)
  BY <1>6, AlternativeFinds, AlternativeBegins
<1>8. BeginsIn(Search(n, s, d), S)
  BY <1>1, <1>7, AlternativeBegins
<1> QED BY <1>8 DEF BeginsIn, S

-----------------------------------------------------------------------------
(* What the marks mean to the path and to the path finder.                 *)

\* The path finder remembers no connection that is marked, and no such connection
\* is on the path. A job that repeats walks to where it would start again to.
Heeds(n) ==
  /\ Typed(n)
  /\ Within(n, Free(n))
  /\ Crossings(n) \subseteq Free(n)
  /\ n.repath /\ n.crumbs # <<>> => n.goal = n.destination

LEMMA WithinMore ==
  ASSUME NEW n, NEW G, NEW H, Within(n, G), G \subseteq H PROVE Within(n, H)
BY DEF Within

LEMMA NoCrossings == ASSUME NEW n, n.crumbs = <<>> PROVE Crossings(n) = {}
BY DEF Crossings

LEMMA HeedsAlike ==
  ASSUME NEW n, NEW m, Typed(m), StuckKeys(m) \subseteq StuckKeys(n), Within(m, Free(n)),
         \/ m.crumbs = <<>>
         \/ /\ Crossings(n) \subseteq Free(n) /\ Crossings(m) \subseteq Crossings(n)
            /\ m.repath /\ m.crumbs # <<>> => m.goal = m.destination
  PROVE  Heeds(m)
<1>1. Free(n) \subseteq Free(m)
  BY DEF Free
<1>2. Within(m, Free(m))
  BY <1>1, WithinMore
<1> QED BY <1>1, <1>2, NoCrossings DEF Heeds

\* Two engines with the same tests, answers and crumbs.
LEMMA HeedsSame ==
  ASSUME NEW n, Heeds(n), NEW m, Typed(m), m.vis = n.vis, m.known = n.known,
         \/ m.crumbs = <<>>
         \/ m.crumbs = n.crumbs /\ m.goal = n.goal /\ m.repath = n.repath
            /\ m.destination = n.destination
  PROVE  Heeds(m)
<1>1. StuckKeys(m) = StuckKeys(n) /\ Within(m, Free(n))
  BY DEF Heeds, StuckKeys, Within
<1>2. m.crumbs = n.crumbs => Crossings(m) = Crossings(n)
  BY DEF Crossings
<1> QED BY <1>1, <1>2, HeedsAlike DEF Heeds

LEMMA CancelHeeds ==
  ASSUME NEW n, Heeds(n) PROVE Heeds(CancelPath(n))
<1> DEFINE m == CancelPath(n)
<1>1. n \in NavType
  BY DEF Heeds, Typed
<1>2. m.vis = n.vis /\ m.known = n.known /\ m.crumbs = <<>> /\ ~m.repath
  BY <1>1 DEF CancelPath, NavType
<1>3. <<>> \in Seq(Areas \cup {NoArea}) /\ 0 \in Nat /\ FALSE \in BOOLEAN /\ NoArea \in Areas \cup {NoArea}
  OBVIOUS
<1>4. m \in NavType
  BY <1>1, <1>3 DEF CancelPath, NavType
<1> HIDE DEF m
<1>5. Typed(m)
  BY <1>2, <1>4 DEF Heeds, Typed
<1> QED BY <1>2, <1>5, HeedsSame DEF m

LEMMA ResetHeeds ==
  ASSUME NEW n, Heeds(n) PROVE Heeds(PatherReset(n))
<1> DEFINE m == PatherReset(n)
<1>1. Typed(m) /\ Same(n, m) /\ Within(m, Free(n))
  BY ResetForgets DEF Heeds
<1> HIDE DEF m
<1>2. Crossings(m) = Crossings(n)
  BY <1>1 DEF Crossings, Same
<1> QED BY <1>1, <1>2, HeedsAlike DEF Heeds, Same, m

LEMMA MapResetHeeds ==
  ASSUME NEW n, Heeds(n)
  PROVE  Heeds(MapReset(n)) /\ MapReset(n).crumbs = n.crumbs /\ MapReset(n) \in NavType
<1> DEFINE vis == [k \in Keys |-> "none"]
           o == [n EXCEPT !.vis = vis, !.blacklist = {}]
<1>1. n \in NavType
  BY DEF Heeds, Typed
<1>2. vis \in [Keys -> {"none", "pass", "fail", "stuck"}] /\ \A k \in Keys : vis[k] = "none"
  OBVIOUS
<1> HIDE DEF vis
<1>3. /\ o \in NavType /\ o.vis = vis /\ o.crumbs = n.crumbs /\ o.repath = n.repath
      /\ o.destination = n.destination /\ o.goal = n.goal
  BY <1>1, <1>2 DEF NavType
<1>4. MapReset(n) = PatherReset(o)
  BY DEF MapReset, vis
<1> HIDE DEF o
<1>5. Typed(o) /\ StuckKeys(o) = {}
  BY <1>2, <1>3 DEF Heeds, Typed, StuckKeys, Keys
<1> DEFINE m == PatherReset(o)
<1>6. Typed(m) /\ Same(o, m) /\ Within(m, Free(n))
  BY <1>5, ResetForgets
<1> HIDE DEF m
<1>7. m.crumbs = n.crumbs /\ Crossings(m) = Crossings(n)
  BY <1>3, <1>6 DEF Crossings, Same
<1>8. StuckKeys(m) \subseteq StuckKeys(n)
  BY <1>5, <1>6 DEF Same
<1>9. m.repath /\ m.crumbs # <<>> => m.goal = m.destination
  BY <1>3, <1>6 DEF Heeds, Same
<1>10. Heeds(m)
  BY <1>6, <1>7, <1>8, <1>9, HeedsAlike DEF Heeds
<1> QED BY <1>4, <1>7, <1>10 DEF m, Heeds, Typed

LEMMA LoadedHeeds ==
  ASSUME level \in Levels, NEW n, Heeds(n) PROVE Heeds(EnsureMapLoaded(n))
<1> DEFINE l == EnsureMapLoaded(n)
           m == [MapReset(n) EXCEPT !.dirty = FALSE]
           o == [MapReset(CancelPath(n)) EXCEPT !.dirty = FALSE, !.level = level, !.blocked = FALSE]
<1>1. l = n \/ l = m \/ l = o
  BY Zenon DEF EnsureMapLoaded
<1>2. Heeds(m)
  <2> DEFINE r == MapReset(n)
  <2>1. Heeds(r) /\ r \in NavType
    BY MapResetHeeds
  <2> HIDE DEF r
  <2> DEFINE x == [r EXCEPT !.dirty = FALSE]
  <2>2. /\ x \in NavType /\ x.vis = r.vis /\ x.known = r.known /\ x.crumbs = r.crumbs
        /\ x.goal = r.goal /\ x.repath = r.repath /\ x.destination = r.destination
    BY <2>1 DEF NavType
  <2> HIDE DEF x
  <2>3. Typed(x)
    BY <2>1, <2>2 DEF Heeds, Typed
  <2>4. Heeds(x)
    BY <2>1, <2>2, <2>3, HeedsSame
  <2> QED BY <2>4 DEF r, x
<1>3. Heeds(o)
  <2> DEFINE r == MapReset(CancelPath(n))
  <2>1. Heeds(r) /\ r \in NavType
    BY MapResetHeeds, CancelHeeds
  <2> HIDE DEF r
  <2> DEFINE x == [r EXCEPT !.dirty = FALSE, !.level = level, !.blocked = FALSE]
  <2>2. /\ x \in NavType /\ x.vis = r.vis /\ x.known = r.known /\ x.crumbs = r.crumbs
        /\ x.goal = r.goal /\ x.repath = r.repath /\ x.destination = r.destination
    BY <2>1 DEF NavType
  <2> HIDE DEF x
  <2>3. Typed(x)
    BY <2>1, <2>2 DEF Heeds, Typed
  <2>4. Heeds(x)
    BY <2>1, <2>2, <2>3, HeedsSame
  <2> QED BY <2>4 DEF r, x
<1> HIDE DEF m, o
<1> QED BY <1>1, <1>2, <1>3

-----------------------------------------------------------------------------
(* Jobs and their crumbs.                                                  *)

\* The crumbs of a path: the areas of the path in their order, each of them twice but
\* for the last, after which comes the destination itself; the first area is left out
\* if the path did not start at the local area.
LEMMA CrumbsAlong ==
  ASSUME NEW path \in Seq(Areas), path # <<>>, NEW local \in BOOLEAN
  PROVE  LET c == Crumbs(path, local)
             from == IF local THEN 0 ELSE 1 IN
         /\ c \in Seq(Areas \cup {NoArea})
         /\ \A i \in 1 .. Len(c) : c[i] # NoArea =>
              /\ (i + 1) \div 2 + from \in 1 .. Len(path)
              /\ c[i] = path[(i + 1) \div 2 + from]
         /\ \A i \in 1 .. Len(c) - 1 : c[i] # NoArea
<1> DEFINE from == IF local THEN 0 ELSE 1
           p == IF local THEN path ELSE Tail(path)
           q == [i \in 1 .. 2 * Len(p) |-> IF i = 2 * Len(p) THEN NoArea ELSE p[(i + 1) \div 2]]
           r == IF p = <<>> THEN <<NoArea>> ELSE <<>>
<1>1. Crumbs(path, local) = q \o r
  BY DEF Crumbs
<1>2. /\ p \in Seq(Areas) /\ Len(p) = Len(path) - from /\ Len(path) \in Nat
      /\ \A i \in 1 .. Len(p) : p[i] = path[i + from]
  OBVIOUS
<1> HIDE DEF p
<1>3. CASE p = <<>>
  <2>1. Len(p) = 0
    BY <1>3
  <2>2. q = <<>>
    BY <2>1
  <2>3. Crumbs(path, local) = <<NoArea>>
    BY <1>1, <1>3, <2>2
  <2> QED BY <2>3
<1>4. CASE p # <<>>
  <2>1. Len(p) \in Nat /\ 2 * Len(p) \in Nat
    BY <1>2
  <2>2. \A i \in 1 .. 2 * Len(p) : (i + 1) \div 2 \in 1 .. Len(p)
    BY <2>1
  <2>3. \A i \in 1 .. 2 * Len(p) : q[i] \in Areas \cup {NoArea}
    BY <1>2, <2>2
  <2>4. q \in [1 .. 2 * Len(p) -> Areas \cup {NoArea}]
    BY <2>3
  <2>5. \A i \in 1 .. 2 * Len(p) : q[i] # NoArea => q[i] = p[(i + 1) \div 2]
    OBVIOUS
  <2>6. \A i \in 1 .. 2 * Len(p) - 1 : q[i] # NoArea
    <3> SUFFICES ASSUME NEW i \in 1 .. 2 * Len(p) - 1 PROVE q[i] # NoArea
      OBVIOUS
    <3>1. i \in 1 .. 2 * Len(p) /\ i # 2 * Len(p)
      BY <2>1
    <3>2. q[i] = p[(i + 1) \div 2] /\ (i + 1) \div 2 \in 1 .. Len(p)
      BY <2>2, <3>1
    <3> QED BY <1>2, <3>2
  <2> HIDE DEF q
  <2>7. q \in Seq(Areas \cup {NoArea}) /\ Len(q) = 2 * Len(p)
    BY <2>1, <2>4
  <2>8. Crumbs(path, local) = q
    BY <1>1, <1>4, <2>7, EmptySeq, ConcatEmptySeq
  <2>9. ASSUME NEW i \in 1 .. 2 * Len(p), q[i] # NoArea
        PROVE  /\ (i + 1) \div 2 + from \in 1 .. Len(path)
               /\ q[i] = path[(i + 1) \div 2 + from]
    <3> DEFINE k == (i + 1) \div 2
    <3>1. k \in 1 .. Len(p) /\ q[i] = p[k]
      BY <2>2, <2>5, <2>9
    <3> HIDE DEF k
    <3>2. k + from \in 1 .. Len(path) /\ p[k] = path[k + from]
      BY <1>2, <3>1
    <3> QED BY <3>1, <3>2 DEF k
  <2> HIDE DEF from
  <2>10. /\ q \in Seq(Areas \cup {NoArea})
         /\ \A i \in 1 .. Len(q) : q[i] # NoArea =>
              /\ (i + 1) \div 2 + from \in 1 .. Len(path)
              /\ q[i] = path[(i + 1) \div 2 + from]
         /\ \A i \in 1 .. Len(q) - 1 : q[i] # NoArea
    BY <2>7, <2>6, <2>9
  <2> QED BY <2>8, <2>10 DEF from
<1> QED BY <1>3, <1>4

\* So the crumbs cross what the path crosses.
LEMMA CrossingsAlong ==
  ASSUME NEW n, NEW G, NEW path, Along(path, G), path # <<>>, NEW local \in BOOLEAN,
         n.crumbs = Crumbs(path, local)
  PROVE  Crossings(n) \subseteq G
<1> DEFINE from == IF local THEN 0 ELSE 1
<1>1. path \in Seq(Areas) /\ from \in Nat
  BY DEF Along
<1>2. /\ n.crumbs \in Seq(Areas \cup {NoArea})
      /\ \A i \in 1 .. Len(n.crumbs) : n.crumbs[i] # NoArea =>
           /\ (i + 1) \div 2 + from \in 1 .. Len(path)
           /\ n.crumbs[i] = path[(i + 1) \div 2 + from]
  BY <1>1, CrumbsAlong
<1> HIDE DEF from
<1>3. ASSUME NEW j \in 1 .. Len(n.crumbs) - 1, n.crumbs[j] # n.crumbs[j + 1],
             NoArea \notin {n.crumbs[j], n.crumbs[j + 1]}
      PROVE  <<n.crumbs[j], n.crumbs[j + 1]>> \in G
  <2>1. Len(n.crumbs) \in Nat /\ Len(path) \in Nat /\ j \in Nat
    BY <1>1, <1>2
  <2>2. j \in 1 .. Len(n.crumbs) /\ j + 1 \in 1 .. Len(n.crumbs)
    BY <2>1
  <2> DEFINE k == (j + 1) \div 2 + from
             l == (j + 2) \div 2 + from
  <2>3. /\ k \in 1 .. Len(path) /\ n.crumbs[j] = path[k]
        /\ l \in 1 .. Len(path) /\ n.crumbs[j + 1] = path[l]
    <3>1. (j + 1) + 1 = j + 2
      BY <2>1
    <3> QED BY <1>2, <1>3, <2>2, <3>1
  <2>4. l = k \/ l = k + 1
    BY <1>1, <2>1
  <2> HIDE DEF k, l
  <2>5. l = k + 1
    BY <1>3, <2>3, <2>4
  <2>6. k \in 1 .. Len(path) - 1
    BY <2>1, <2>3, <2>5
  <2> QED BY <2>3, <2>5, <2>6 DEF Along
<1> QED BY <1>3 DEF Crossings

\* The crumb in an area is the first, or the path leads into that area.
LEMMA CrumbsEnter ==
  ASSUME NEW n, NEW G, NEW path, Along(path, G), path # <<>>, NEW local \in BOOLEAN,
         n.crumbs = Crumbs(path, local), NEW i \in DOMAIN n.crumbs, n.crumbs[i] # NoArea
  PROVE  \/ local /\ n.crumbs[i] = n.crumbs[1] /\ n.crumbs[1] = path[1]
         \/ \E a \in Areas : <<a, n.crumbs[i]>> \in G
<1> DEFINE from == IF local THEN 0 ELSE 1
           k == (i + 1) \div 2 + from
<1>1. path \in Seq(Areas) /\ from \in Nat /\ Len(path) \in Nat
  BY DEF Along
<1>2. /\ n.crumbs \in Seq(Areas \cup {NoArea})
      /\ \A x \in 1 .. Len(n.crumbs) : n.crumbs[x] # NoArea =>
           /\ (x + 1) \div 2 + from \in 1 .. Len(path)
           /\ n.crumbs[x] = path[(x + 1) \div 2 + from]
      /\ \A x \in 1 .. Len(n.crumbs) - 1 : n.crumbs[x] # NoArea
  BY <1>1, CrumbsAlong
<1>3. i \in 1 .. Len(n.crumbs) /\ Len(n.crumbs) \in Nat
  BY <1>2
<1>4. k \in 1 .. Len(path) /\ n.crumbs[i] = path[k]
  BY <1>2, <1>3
<1>5. CASE k = 1
  <2>1. local /\ i \in {1, 2}
    BY <1>3, <1>5
  <2>2. n.crumbs[1] = n.crumbs[i] /\ n.crumbs[1] = path[1]
    <3>1. CASE i = 1
      BY <1>4, <1>5, <3>1
    <3>2. CASE i = 2
      <4>1. 1 \in 1 .. Len(n.crumbs) - 1 /\ 1 \in 1 .. Len(n.crumbs) /\ (1 + 1) \div 2 + 0 = 1
        BY <1>3, <3>2
      <4>2. from = 0 /\ n.crumbs[1] # NoArea
        BY <1>2, <2>1, <4>1
      <4>3. n.crumbs[1] = path[1]
        BY <1>2, <4>1, <4>2
      <4> QED BY <1>4, <1>5, <4>3
    <3> QED BY <2>1, <3>1, <3>2
  <2> QED BY <2>1, <2>2
<1>6. CASE k # 1
  <2> HIDE DEF k
  <2>1. k - 1 \in 1 .. Len(path) - 1 /\ (k - 1) + 1 = k
    BY <1>1, <1>4, <1>6
  <2>2. <<path[k - 1], path[k]>> \in G /\ path[k - 1] \in Areas
    BY <1>1, <2>1 DEF Along
  <2> QED BY <1>4, <2>2
<1> QED BY <1>5, <1>6

\* A job as navTo gets it: of a bot, or of abandonPath.
Asked(job) == job.dest \in Areas /\ job.priority \in Nat /\ job.repath \in BOOLEAN /\ job.local \in BOOLEAN

\* The areas that a search for navTo starts from.
Starts(n) == StartAreas(n) \cup {pos} \cup Nearby[pos]

FoundFrom(n, f, G) == FoundIn(n, f, G) /\ Begins(f, Starts(n))

\* navTo ends without a path, or with one of its search.
LEMMA NavToFinds ==
  ASSUME pos \in Areas, level \in Levels, NEW n, NEW job, NEW m \in NavTo(n, job), NEW G,
         Left(EnsureMapLoaded(n), EnsureMapLoaded(n), G)
  PROVE  LET l == EnsureMapLoaded(n) IN
         \/ m = l \/ m = Fail(l, job.dest)
         \/ \E f : FoundFrom(l, f, G) /\ IF f.path = <<>> THEN m = Fail(f.nav, job.dest)
                                                          ELSE m = TakeJob(f, job)
<1> DEFINE l == EnsureMapLoaded(n)
           found == UNION {Search(l, s, job.dest) : s \in StartAreas(l)}
           ends(f) == IF f.path = <<>> THEN Fail(f.nav, job.dest) ELSE TakeJob(f, job)
<1>1. \/ m = l \/ m = Fail(l, job.dest)
      \/ m \in {ends(f) : f \in found}
  BY Zenon DEF NavTo
<1> HIDE DEF l
<1>2. ASSUME NEW f \in found
      PROVE  FoundFrom(l, f, G)
  <2>1. PICK s \in StartAreas(l) : f \in Search(l, s, job.dest)
    BY <1>2
  <2>2. s \in Areas
    BY <2>1 DEF StartAreas
  <2>3. FoundIn(l, f, G)
    BY <2>1, <2>2, SearchFinds DEF l
  <2>4. Begins(f, {s, pos} \cup Nearby[pos])
    BY <2>1, <2>2, SearchBegins DEF l
  <2> QED BY <2>1, <2>3, <2>4 DEF Begins, FoundFrom, Starts
<1> HIDE DEF found
<1> QED BY <1>1, <1>2 DEF l

\* A job that was taken.
TakenBy(n, m, job) ==
  /\ Typed(m) /\ StuckKeys(m) = StuckKeys(n)
  /\ m.blacklist = n.blacklist /\ m.blocked = n.blocked
  /\ m.goal = job.dest /\ m.priority = job.priority /\ m.local = job.local /\ m.repath = job.repath
  /\ job.repath => m.destination = job.dest

\* What a job writes.
Written(o, c, job, d) ==
  [o EXCEPT !.crumbs = c, !.goal = job.dest, !.priority = job.priority, !.local = job.local,
            !.repath = job.repath, !.destination = d, !.failed = NoArea]

LEMMA WrittenTyped ==
  ASSUME NEW o \in NavType, NEW c \in Seq(Areas \cup {NoArea}), NEW job, Asked(job),
         NEW d \in Areas \cup {NoArea}
  PROVE  LET m == Written(o, c, job, d) IN
         /\ m \in NavType
         /\ m.crumbs = c /\ m.goal = job.dest /\ m.priority = job.priority /\ m.local = job.local
         /\ m.repath = job.repath /\ m.destination = d
         /\ m.vis = o.vis /\ m.known = o.known /\ m.blacklist = o.blacklist /\ m.blocked = o.blocked
<1>1. /\ job.dest \in Areas \cup {NoArea} /\ job.priority \in Nat
      /\ job.local \in BOOLEAN /\ job.repath \in BOOLEAN /\ NoArea \in Areas \cup {NoArea}
  BY DEF Asked
<1> DEFINE m == Written(o, c, job, d)
<1>2. m \in NavType
  BY <1>1 DEF NavType, Written
<1>3. /\ m.crumbs = c /\ m.goal = job.dest /\ m.priority = job.priority /\ m.local = job.local
      /\ m.repath = job.repath /\ m.destination = d
      /\ m.vis = o.vis /\ m.known = o.known /\ m.blacklist = o.blacklist /\ m.blocked = o.blocked
  BY DEF NavType, Written
<1> QED BY <1>2, <1>3

LEMMA TakeJobTakesIt ==
  ASSUME NEW n, NEW G, NEW f, FoundIn(n, f, G), f.path # <<>>, NEW job, Asked(job)
  PROVE  LET m == TakeJob(f, job) IN
         TakenBy(n, m, job) /\ Within(m, G) /\ m.crumbs = Crumbs(f.path, job.local)
<1> DEFINE o == f.nav
           m == TakeJob(f, job)
           c == Crumbs(f.path, job.local)
           d == IF job.repath THEN job.dest ELSE o.destination
<1>1. Typed(o) /\ o \in NavType /\ Same(n, o) /\ Within(o, G)
  BY DEF FoundIn, Left, Typed
<1>2. c \in Seq(Areas \cup {NoArea})
  BY CrumbsAlong DEF FoundIn, Along, Asked
<1>3. m = Written(o, c, job, d)
  BY <1>1 DEF TakeJob, Written, NavType
<1>4. d \in Areas \cup {NoArea} /\ (job.repath => d = job.dest) /\ (~job.repath => d = o.destination)
  BY <1>1 DEF NavType, Asked
<1> HIDE DEF o, c, d, m
<1>5. /\ m \in NavType
      /\ m.crumbs = c /\ m.goal = job.dest /\ m.priority = job.priority /\ m.local = job.local
      /\ m.repath = job.repath /\ m.destination = d
      /\ m.vis = o.vis /\ m.known = o.known /\ m.blacklist = o.blacklist /\ m.blocked = o.blocked
  BY <1>1, <1>2, <1>3, <1>4, WrittenTyped
<1>6. StuckKeys(m) = StuckKeys(n) /\ m.blacklist = n.blacklist /\ m.blocked = n.blocked
  BY <1>1, <1>5 DEF Same, StuckKeys
<1>7. Typed(m) /\ Within(m, G)
  BY <1>1, <1>4, <1>5 DEF Typed, Within, Asked
<1> QED BY <1>4, <1>5, <1>6, <1>7 DEF TakenBy, m, c

LEMMA FailHeeds == ASSUME NEW n, Heeds(n), NEW d \in Areas PROVE Heeds(Fail(n, d))
<1> DEFINE m == Fail(n, d)
<1>1. n \in NavType
  BY DEF Heeds, Typed
<1>2. /\ m \in NavType /\ m.vis = n.vis /\ m.known = n.known /\ m.crumbs = n.crumbs
      /\ m.goal = n.goal /\ m.repath = n.repath /\ m.destination = n.destination
  BY <1>1 DEF Fail, NavType
<1> HIDE DEF m
<1>3. Typed(m)
  BY <1>2 DEF Heeds, Typed
<1> QED BY <1>2, <1>3, HeedsSame DEF m

\* What a search leaves behind heeds the marks of what was searched.
LEMMA LeftHeeds ==
  ASSUME NEW n, Heeds(n), NEW m, Left(n, m, Free(n)) PROVE Heeds(m)
<1>1. Crossings(m) = Crossings(n)
  BY DEF Left, Same, Crossings
<1> QED BY <1>1, HeedsAlike DEF Left, Same, Heeds

LEMMA HeedsLeft == ASSUME NEW n, Heeds(n) PROVE Left(n, n, Free(n))
BY DEF Heeds, Left, Same, Ways

LEMMA NavToHeeds ==
  ASSUME pos \in Areas, level \in Levels, NEW n, Heeds(n), NEW job, Asked(job),
         NEW m \in NavTo(n, job)
  PROVE  Heeds(m)
<1> DEFINE l == EnsureMapLoaded(n)
<1>1. Heeds(l)
  BY LoadedHeeds
<1>2. \/ m = l \/ m = Fail(l, job.dest)
      \/ \E f : FoundFrom(l, f, Free(l)) /\ IF f.path = <<>> THEN m = Fail(f.nav, job.dest)
                                                             ELSE m = TakeJob(f, job)
  BY <1>1, HeedsLeft, NavToFinds
<1> HIDE DEF l
<1>3. ASSUME NEW f, FoundIn(l, f, Free(l)), f.path = <<>> PROVE Heeds(Fail(f.nav, job.dest))
  BY <1>1, <1>3, LeftHeeds, FailHeeds DEF FoundIn, Asked
<1>4. ASSUME NEW f, FoundIn(l, f, Free(l)), f.path # <<>> PROVE Heeds(TakeJob(f, job))
  <2> DEFINE o == TakeJob(f, job)
  <2>1. /\ TakenBy(l, o, job) /\ Within(o, Free(l))
        /\ o.crumbs = Crumbs(f.path, job.local)
    BY <1>4, TakeJobTakesIt
  <2> HIDE DEF o
  <2>2. Crossings(o) \subseteq Free(l)
    BY <1>4, <2>1, CrossingsAlong DEF FoundIn, Asked
  <2>3. Free(o) = Free(l)
    BY <2>1 DEF TakenBy, Free
  <2> QED BY <2>1, <2>2, <2>3 DEF Heeds, TakenBy, o
<1> QED BY <1>1, <1>2, <1>3, <1>4, FailHeeds DEF Asked, FoundFrom

\* What abandonPath drops, before it may start again.
Dropped(n) == [PatherReset(n) EXCEPT !.crumbs = <<>>, !.last = NoArea, !.goal = NoArea]

Again(n) == [dest |-> n.destination, priority |-> n.priority, repath |-> TRUE, local |-> n.local]

LEMMA DroppedParts ==
  ASSUME NEW n, Typed(n), NEW G
  PROVE  LET o == Dropped(n) IN
         /\ Heeds(o) /\ Within(o, G) /\ o.crumbs = <<>> /\ o.vis = n.vis
         /\ o.known = [a \in Areas |-> Unknown]
         /\ o.blacklist = n.blacklist /\ o.blocked = n.blocked /\ o.dirty = n.dirty
         /\ o.level = n.level /\ o.failed = n.failed /\ o.priority = n.priority
         /\ o.destination = n.destination
<1> DEFINE r == PatherReset(n)
           o == Dropped(n)
<1>1. /\ Typed(r) /\ r \in NavType /\ Same(n, r) /\ Within(r, G) /\ Within(r, Free(n))
      /\ r.vis = n.vis /\ r.known = [a \in Areas |-> Unknown]
  BY ResetForgets DEF Typed
<1>2. r.dirty = n.dirty /\ r.level = n.level /\ r.failed = n.failed
  BY DEF PatherReset, Typed, NavType
<1>3. <<>> \in Seq(Areas \cup {NoArea}) /\ NoArea \in Areas \cup {NoArea}
  OBVIOUS
<1>4. o = [r EXCEPT !.crumbs = <<>>, !.last = NoArea, !.goal = NoArea]
  BY DEF Dropped
<1> HIDE DEF r, o
<1>5. /\ o.crumbs = <<>> /\ o.vis = r.vis /\ o.known = r.known
      /\ o.blacklist = r.blacklist /\ o.blocked = r.blocked /\ o.dirty = r.dirty
      /\ o.level = r.level /\ o.failed = r.failed /\ o.priority = r.priority
      /\ o.destination = r.destination /\ o.repath = r.repath
  BY <1>1, <1>4 DEF NavType
<1>6. o \in NavType
  BY <1>1, <1>3, <1>4 DEF NavType
<1>7. Typed(o)
  BY <1>1, <1>5, <1>6 DEF Typed
<1>8. StuckKeys(o) = StuckKeys(n) /\ Within(o, Free(n)) /\ Within(o, G)
  BY <1>1, <1>5 DEF StuckKeys, Within
<1>9. Heeds(o)
  BY <1>5, <1>7, <1>8, HeedsAlike
<1> QED BY <1>1, <1>2, <1>5, <1>8, <1>9 DEF Same, o

\* Whatever marks there are, and whatever the path finder remembers.
LEMMA AbandonHeeds ==
  ASSUME pos \in Areas, level \in Levels, NEW n, Typed(n), NEW m \in AbandonPath(n)
  PROVE  Heeds(m)
<1> DEFINE o == Dropped(n)
           over == [o EXCEPT !.priority = 0]
<1>1. AbandonPath(n) = IF n.repath THEN NavTo(o, Again(n)) ELSE {over}
  BY Zenon DEF AbandonPath, Dropped, Again
<1>2. Heeds(o) /\ o.crumbs = <<>>
  BY DroppedParts
<1> HIDE DEF o
<1>3. CASE n.repath
  <2>1. Asked(Again(n))
    BY <1>3 DEF Typed, NavType, Again, Asked
  <2> QED BY <1>1, <1>2, <1>3, <2>1, NavToHeeds
<1>4. CASE ~n.repath
  <2>1. o \in NavType
    BY <1>2 DEF Heeds, Typed
  <2>2. /\ over \in NavType /\ over.vis = o.vis /\ over.known = o.known /\ over.crumbs = o.crumbs
        /\ over.repath = o.repath /\ over.destination = o.destination
    BY <2>1 DEF NavType
  <2> HIDE DEF over
  <2>3. Typed(over)
    BY <1>2, <2>2 DEF Heeds, Typed
  <2>4. Heeds(over)
    BY <1>2, <2>2, <2>3, HeedsSame
  <2> QED BY <1>1, <1>4, <2>4
<1> QED BY <1>3, <1>4

\* The tests of a walked path, before it is left.
LEMMA CrumbsTestedHeeds ==
  ASSUME pos \in Areas, level \in Levels, NEW n, Heeds(n), NEW inner,
         NEW m \in TestCrumbs(n, inner)
  PROVE  Heeds(m)
<1> DEFINE pairs == {i \in 1 .. Len(n.crumbs) - 1 : n.crumbs[i] # NoArea /\ n.crumbs[i + 1] # NoArea}
           first == {i \in pairs : /\ Impassable(i, n, inner)
                                   /\ \A j \in pairs : Impassable(j, n, inner) => i <= j}
           seen == {<<n.crumbs[i], n.crumbs[i + 1]>> : i \in {j \in pairs : \A f \in first : j < f}}
           failed == {<<n.crumbs[i], n.crumbs[i + 1]>> : i \in first}
           vis == [k \in Keys |-> IF k \in failed THEN "stuck"
                                  ELSE IF k \in seen \cap Doors /\ ~Bad(n, k) THEN "pass" ELSE n.vis[k]]
           checked == [n EXCEPT !.vis = vis]
<1>1. TestCrumbs(n, inner) = IF first = {} THEN {checked} ELSE AbandonPath(checked)
  BY Zenon DEF TestCrumbs
<1>2. first = {} => failed = {}
  OBVIOUS
<1>3. n \in NavType /\ n.vis \in [Keys -> {"none", "pass", "fail", "stuck"}]
  BY DEF Heeds, Typed, NavType
<1> HIDE DEF first, failed, seen
<1>4. vis \in [Keys -> {"none", "pass", "fail", "stuck"}]
  BY <1>3
<1>5. \A k \in Keys : vis[k] = "fail" => n.vis[k] = "fail"
  OBVIOUS
<1>6. failed = {} => \A k \in Keys : vis[k] = "stuck" <=> n.vis[k] = "stuck"
  BY DEF Bad
<1> HIDE DEF vis
<1>7. /\ checked \in NavType /\ checked.vis = vis /\ checked.known = n.known
      /\ checked.crumbs = n.crumbs /\ checked.goal = n.goal /\ checked.repath = n.repath
      /\ checked.destination = n.destination
  BY <1>3, <1>4 DEF NavType
<1> HIDE DEF checked
<1>8. Typed(checked)
  BY <1>5, <1>7 DEF Heeds, Typed, Keys
<1>9. CASE first # {}
  BY <1>1, <1>8, <1>9, AbandonHeeds
<1>10. CASE first = {}
  <2>1. StuckKeys(checked) = StuckKeys(n)
    BY <1>2, <1>6, <1>7, <1>10 DEF StuckKeys
  <2>2. Crossings(checked) = Crossings(n) /\ Within(checked, Free(n))
    BY <1>7 DEF Crossings, Heeds, Within
  <2>3. Heeds(checked)
    BY <1>7, <1>8, <2>1, <2>2, HeedsAlike DEF Heeds
  <2> QED BY <1>1, <1>10, <2>3
<1> QED BY <1>9, <1>10

LEMMA VischeckHeeds ==
  ASSUME pos \in Areas, level \in Levels, NEW n, Heeds(n), NEW m \in VischeckPath(n)
  PROVE  Heeds(m)
<1>1. PICK inner \in SUBSET closed : m \in TestCrumbs(n, inner)
  BY Zenon DEF VischeckPath
<1> QED BY <1>1, CrumbsTestedHeeds

LEMMA BlockedHeeds ==
  ASSUME NEW n, Heeds(n), NEW b \in BOOLEAN PROVE Heeds([n EXCEPT !.blocked = b])
<1> DEFINE m == [n EXCEPT !.blocked = b]
<1>1. n \in NavType
  BY DEF Heeds, Typed
<1>2. /\ m \in NavType /\ m.vis = n.vis /\ m.known = n.known /\ m.crumbs = n.crumbs
      /\ m.goal = n.goal /\ m.repath = n.repath /\ m.destination = n.destination
  BY <1>1 DEF NavType
<1> HIDE DEF m
<1>3. Typed(m)
  BY <1>2 DEF Heeds, Typed
<1> QED BY <1>2, <1>3, HeedsSame DEF m

LEMMA BlacklistHeeds ==
  ASSUME pos \in Areas, level \in Levels, NEW n, Heeds(n), NEW ubered,
         NEW m \in CheckBlacklist(n, ubered)
  PROVE  Heeds(m)
<1> DEFINE obeyed == [n EXCEPT !.blocked = FALSE]
           ignored == [n EXCEPT !.blocked = TRUE]
<1>1. m = PatherReset(ignored) \/ m = obeyed \/ m \in AbandonPath(obeyed)
  BY Zenon DEF CheckBlacklist
<1>2. Heeds(obeyed) /\ Heeds(ignored)
  BY BlockedHeeds
<1> HIDE DEF obeyed, ignored
<1> QED BY <1>1, <1>2, ResetHeeds, AbandonHeeds DEF Heeds

\* Crumbs that are reached are taken off the front.
LEMMA ReachHeeds ==
  ASSUME NEW n, Heeds(n), NEW i \in {1, 2}, i <= Len(n.crumbs)
  PROVE  Heeds(Reach(n, i))
<1> DEFINE c == SubSeq(n.crumbs, i + 1, Len(n.crumbs))
           m == Reach(n, i)
<1>1. n \in NavType /\ n.crumbs \in Seq(Areas \cup {NoArea}) /\ Len(n.crumbs) \in Nat
  BY DEF Heeds, Typed, NavType
<1>2. /\ c \in Seq(Areas \cup {NoArea}) /\ Len(c) = Len(n.crumbs) - i
      /\ \A j \in 1 .. Len(c) : c[j] = n.crumbs[i + j]
  BY <1>1, SubSeqProperties
<1>3. n.crumbs[i] \in Areas \cup {NoArea}
  BY <1>1
<1>4. m = [n EXCEPT !.crumbs = c, !.last = n.crumbs[i]]
  BY <1>1 DEF Reach, NavType
<1> HIDE DEF c, m
<1>5. /\ m \in NavType /\ m.vis = n.vis /\ m.known = n.known /\ m.crumbs = c
      /\ m.goal = n.goal /\ m.repath = n.repath /\ m.destination = n.destination
  BY <1>1, <1>2, <1>3, <1>4 DEF NavType
<1>6. Typed(m)
  BY <1>5 DEF Heeds, Typed
<1>7. Crossings(m) \subseteq Crossings(n)
  <2> SUFFICES ASSUME NEW j \in 1 .. Len(c) - 1, c[j] # c[j + 1], NoArea \notin {c[j], c[j + 1]}
               PROVE  <<c[j], c[j + 1]>> \in Crossings(n)
    BY <1>5 DEF Crossings
  <2>1. /\ i + j \in 1 .. Len(n.crumbs) - 1
        /\ c[j] = n.crumbs[i + j] /\ c[j + 1] = n.crumbs[(i + j) + 1]
    <3>1. j \in 1 .. Len(c) /\ j + 1 \in 1 .. Len(c) /\ i + (j + 1) = (i + j) + 1
      BY <1>1, <1>2
    <3> QED BY <1>1, <1>2, <3>1
  <2> QED BY <2>1 DEF Crossings
<1>8. m.repath /\ m.crumbs # <<>> => m.goal = m.destination
  <2>1. c # <<>> => n.crumbs # <<>>
    BY <1>1, <1>2
  <2> QED BY <1>5, <2>1 DEF Heeds
<1>9. StuckKeys(m) = StuckKeys(n) /\ Within(m, Free(n))
  BY <1>5 DEF StuckKeys, Within, Heeds
<1> QED BY <1>6, <1>7, <1>8, <1>9, HeedsAlike DEF Heeds, m

LEMMA FollowHeeds ==
  ASSUME NEW n, Heeds(n), NEW m \in FollowCrumbs(n) PROVE Heeds(m)
<1> DEFINE one == {n} \cup (IF Near(n, n.crumbs[1]) THEN {Reach(n, 1)} ELSE {})
           two == {Reach(x, 2) : x \in {y \in one : Len(y.crumbs) > 1 /\ Near(y, y.crumbs[2])}}
<1>1. FollowCrumbs(n) = IF n.crumbs = <<>> THEN {CancelPath(n)} ELSE one \cup two
  BY Zenon DEF FollowCrumbs
<1>2. CASE n.crumbs = <<>>
  BY <1>1, <1>2, CancelHeeds
<1>3. CASE n.crumbs # <<>>
  <2>1. n.crumbs \in Seq(Areas \cup {NoArea})
    BY DEF Heeds, Typed, NavType
  <2>2. 1 <= Len(n.crumbs)
    BY <1>3, <2>1
  <2>3. \A x \in one : Heeds(x)
    BY <2>2, ReachHeeds
  <2> HIDE DEF one
  <2>4. ASSUME NEW x \in one, Len(x.crumbs) > 1 PROVE Heeds(Reach(x, 2))
    <3>1. x.crumbs \in Seq(Areas \cup {NoArea})
      BY <2>3 DEF Heeds, Typed, NavType
    <3>2. 2 <= Len(x.crumbs)
      BY <2>4, <3>1
    <3> QED BY <2>3, <3>2, ReachHeeds
  <2> QED BY <1>1, <1>3, <2>3, <2>4
<1> QED BY <1>2, <1>3

LEMMA StuckHeeds ==
  ASSUME pos \in Areas, level \in Levels, NEW n, Heeds(n), NEW stuck,
         NEW m \in UpdateStuckTime(n, stuck)
  PROVE  Heeds(m)
<1> DEFINE to   == n.crumbs[1]
           from == IF n.last # NoArea THEN n.last ELSE to
           vis == [n.vis EXCEPT ![<<from, to>>] = "stuck"]
           marked == [n EXCEPT !.vis = vis]
<1>1. m = n \/ m \in AbandonPath(IF to = NoArea THEN n ELSE [n EXCEPT !.vis[<<from, to>>] = "stuck"])
  BY Zenon DEF UpdateStuckTime, BlacklistStuckConnectionAndRepath
<1>2. n \in NavType /\ n.vis \in [Keys -> {"none", "pass", "fail", "stuck"}]
  BY DEF Heeds, Typed, NavType
<1>3. [n EXCEPT !.vis[<<from, to>>] = "stuck"] = marked
  BY <1>2 DEF NavType
<1>4. vis \in [Keys -> {"none", "pass", "fail", "stuck"}] /\ \A k \in Keys : vis[k] \in {n.vis[k], "stuck"}
  BY <1>2
<1> HIDE DEF to, from, vis
<1>5. /\ marked \in NavType /\ marked.vis = vis
      /\ marked.repath = n.repath /\ marked.destination = n.destination
  BY <1>2, <1>4 DEF NavType
<1> HIDE DEF marked
<1>6. Typed(marked)
  BY <1>4, <1>5 DEF Heeds, Typed, Keys
<1> QED BY <1>1, <1>3, <1>6, AbandonHeeds DEF Heeds

LEMMA StepsHeed ==
  ASSUME pos \in Areas, level \in Levels, NEW n, Heeds(n),
         NEW vischeck, NEW check, NEW ubered, NEW stuck,
         NEW m \in Steps(n, vischeck, check, ubered, stuck)
  PROVE  Heeds(m)
<1> DEFINE a == IF jumped /\ n.crumbs # <<>> THEN {CancelPath(n)} ELSE {n}
           b == IF vischeck THEN UNION {VischeckPath(x) : x \in a} ELSE a
           c == IF check THEN UNION {CheckBlacklist(x, ubered) : x \in b} ELSE b
           d == UNION {FollowCrumbs(x) : x \in c}
<1>1. Steps(n, vischeck, check, ubered, stuck) = UNION {UpdateStuckTime(x, stuck) : x \in d}
  BY Zenon DEF Steps
<1>2. \A x \in a : Heeds(x)
  BY CancelHeeds
<1> HIDE DEF a
<1>3. \A x \in b : Heeds(x)
  BY <1>2, VischeckHeeds
<1> HIDE DEF b
<1>4. \A x \in c : Heeds(x)
  BY <1>3, BlacklistHeeds
<1> HIDE DEF c
<1>5. \A x \in d : Heeds(x)
  BY <1>4, FollowHeeds
<1> HIDE DEF d
<1> QED BY <1>1, <1>5, StuckHeeds

\* What expires is a mark less.
LEMMA UpdateHeeds ==
  ASSUME NEW n, Heeds(n), NEW found \in SUBSET Dangers, NEW gone, NEW keys, NEW forgotten
  PROVE  Heeds(UpdateIgnores(n, found, gone, keys, forgotten))
<1> DEFINE vis == [k \in Keys |-> IF k \in keys THEN "none" ELSE n.vis[k]]
           m == [n EXCEPT !.blacklist = found \ gone, !.sized = Cardinality(found), !.vis = vis]
<1>1. n \in NavType /\ n.vis \in [Keys -> {"none", "pass", "fail", "stuck"}]
  BY DEF Heeds, Typed, NavType
<1>2. vis \in [Keys -> {"none", "pass", "fail", "stuck"}] /\ \A k \in Keys : vis[k] \in {n.vis[k], "none"}
  BY <1>1
<1>3. found \ gone \in SUBSET Areas /\ Cardinality(found) \in Nat
  <2>1. IsFiniteSet(found)
    BY FS_Subset
  <2> QED BY <2>1, FS_CardinalityType
<1>4. UpdateIgnores(n, found, gone, keys, forgotten) \in {m, PatherReset(m)}
  BY DEF UpdateIgnores
<1> HIDE DEF vis
<1>5. /\ m \in NavType /\ m.vis = vis /\ m.known = n.known /\ m.crumbs = n.crumbs
      /\ m.goal = n.goal /\ m.repath = n.repath /\ m.destination = n.destination
  BY <1>1, <1>2, <1>3 DEF NavType
<1> HIDE DEF m
<1>6. Typed(m)
  BY <1>2, <1>5 DEF Heeds, Typed, Keys
<1>7. StuckKeys(m) \subseteq StuckKeys(n) /\ Crossings(m) = Crossings(n) /\ Within(m, Free(n))
  BY <1>2, <1>5 DEF StuckKeys, Crossings, Within, Heeds
<1>8. Heeds(m)
  BY <1>5, <1>6, <1>7, HeedsAlike DEF Heeds
<1> QED BY <1>4, <1>8, ResetHeeds

-----------------------------------------------------------------------------
(* The marks: the handlers.                                                *)

MarksInv == TypeOK /\ Heeds(nav)

LEMMA MarksInit == Init => MarksInv
<1> SUFFICES ASSUME Init PROVE MarksInv
  OBVIOUS
<1>1. nav = NoEngine
  BY DEF Init
<1>2. <<>> \in Seq(Areas \cup {NoArea})
  OBVIOUS
<1>3. NoEngine \in NavType
  BY <1>2 DEF NoEngine, NavType, Unknown
<1>4. \A k \in Keys : NoEngine.vis[k] = "none"
  BY DEF NoEngine
<1>5. \A a, b \in Areas : b \notin NoEngine.known[a]
  BY DEF NoEngine, Unknown
<1>6. ~NoEngine.repath /\ NoEngine.crumbs = <<>>
  BY DEF NoEngine
<1>7. Typed(NoEngine) /\ Within(NoEngine, Free(NoEngine))
  BY <1>3, <1>4, <1>5, <1>6 DEF Typed, Within, Keys
<1>8. Heeds(NoEngine)
  BY <1>6, <1>7, HeedsAlike
<1>9. pos \in Areas /\ level \in Levels /\ jumped \in BOOLEAN /\ closed \subseteq Doors
      /\ game = "menu"
  BY DEF Init
<1> QED BY <1>1, <1>3, <1>6, <1>8, <1>9 DEF TypeOK, MarksInv

LEMMA WorldTyped ==
  ASSUME TypeOK, [Next]_vars
  PROVE  /\ game' \in {"menu", "off", "setup", "round", "dead"} /\ level' \in Levels
         /\ pos' \in Areas /\ jumped' \in BOOLEAN /\ closed' \subseteq Doors
<1> USE DEF TypeOK, Env
<1>1. CASE CreateMove
  BY <1>1 DEF CreateMove, CreateMoveUnavailable, CreateMoveNotReady, CreateMoveDead, Walk, WalkAndUpdate
<1>2. CASE JoinLevel \/ Enable \/ NavInit \/ Respawn
  BY <1>2 DEF JoinLevel, Enable, NavInit, Respawn
<1>3. CASE NavToJob \/ Cancel \/ SetPriority \/ GetPathCost \/ EditFreeBlacklist
  BY <1>3 DEF NavToJob, Cancel, SetPriority, GetPathCost, EditFreeBlacklist
<1>4. CASE GameChanges
  BY <1>4 DEF GameChanges, Moves
<1>5. CASE PlayerMoves \/ DoorMoves \/ CooldownEnds
  BY <1>5 DEF PlayerMoves, DoorMoves, CooldownEnds
<1>6. CASE UNCHANGED vars
  BY <1>6 DEF vars
<1> QED BY <1>1, <1>2, <1>3, <1>4, <1>5, <1>6 DEF Next

LEMMA LoadedNow == ASSUME MarksInv PROVE Heeds(Loaded)
BY LoadedHeeds DEF MarksInv, TypeOK, Loaded

LEMMA CreateMoveHeeds == ASSUME MarksInv, CreateMove PROVE Heeds(nav')
<1>1. Heeds(Loaded) /\ Heeds(CancelPath(Loaded)) /\ pos \in Areas /\ level \in Levels
  BY LoadedNow, CancelHeeds DEF MarksInv, TypeOK
<1>2. CASE CreateMoveUnavailable
  BY <1>1, <1>2 DEF CreateMoveUnavailable
<1>3. CASE CreateMoveNotReady
  BY <1>1, <1>3 DEF CreateMoveNotReady
<1>4. CASE CreateMoveDead
  BY <1>1, <1>4 DEF CreateMoveDead
<1>5. ASSUME NEW vischeck, NEW check, NEW ubered, NEW stuck, Walk(vischeck, check, ubered, stuck)
      PROVE  Heeds(nav')
  BY <1>1, <1>5, StepsHeed DEF Walk
<1>6. CASE WalkAndUpdate
  <2>1. PICK n \in Steps(Loaded, FALSE, FALSE, FALSE, FALSE), found \in SUBSET Dangers :
               \E gone, keys, forgotten : nav' = UpdateIgnores(n, found, gone, keys, forgotten)
    BY <1>6 DEF WalkAndUpdate
  <2>2. Heeds(n)
    BY <1>1, StepsHeed
  <2> QED BY <2>1, <2>2, UpdateHeeds
<1> QED BY <1>2, <1>3, <1>4, <1>5, <1>6 DEF CreateMove

LEMMA LevelInitHeeds == ASSUME NEW n, Heeds(n) PROVE Heeds(LevelInit(n))
<1> DEFINE r == CancelPath(n)
           m == [r EXCEPT !.dirty = TRUE]
<1>1. Heeds(r) /\ r \in NavType
  BY CancelHeeds DEF Heeds, Typed
<1> HIDE DEF r
<1>2. /\ m \in NavType /\ m.vis = r.vis /\ m.known = r.known /\ m.crumbs = r.crumbs
      /\ m.goal = r.goal /\ m.repath = r.repath /\ m.destination = r.destination
  BY <1>1 DEF NavType
<1> HIDE DEF m
<1>3. Typed(m)
  BY <1>1, <1>2 DEF Heeds, Typed
<1> QED BY <1>1, <1>2, <1>3, HeedsSame DEF LevelInit, m, r

LEMMA LevelsHeed ==
  ASSUME MarksInv, JoinLevel \/ Enable \/ NavInit \/ Respawn PROVE Heeds(nav')
<1>1. Heeds(nav) /\ Heeds(LevelInit(nav))
  BY LevelInitHeeds DEF MarksInv
<1>2. CASE JoinLevel \/ Enable
  BY <1>1, <1>2 DEF JoinLevel, Enable
<1>3. CASE NavInit
  <2> DEFINE r == MapReset(LevelInit(nav))
             m == [r EXCEPT !.level = NoLevel, !.blocked = FALSE]
  <2>1. Heeds(r) /\ r \in NavType
    BY <1>1, MapResetHeeds
  <2>2. nav' = m
    BY <1>3 DEF NavInit
  <2> HIDE DEF r
  <2>3. /\ m \in NavType /\ m.vis = r.vis /\ m.known = r.known /\ m.crumbs = r.crumbs
        /\ m.goal = r.goal /\ m.repath = r.repath /\ m.destination = r.destination
    BY <2>1 DEF NavType
  <2> HIDE DEF m
  <2>4. Typed(m)
    BY <2>1, <2>3 DEF Heeds, Typed
  <2> QED BY <2>1, <2>2, <2>3, <2>4, HeedsSame
<1>4. CASE Respawn
  BY <1>1, <1>4, ResetHeeds DEF Respawn
<1> QED BY <1>2, <1>3, <1>4

\* A job, a priority or a blacklist written by a bot touches neither crumbs nor marks.
LEMMA WrittenHeeds ==
  ASSUME NEW n, Heeds(n), NEW m, m \in NavType, m.vis = n.vis, m.known = n.known,
         m.crumbs = n.crumbs, m.goal = n.goal, m.repath = n.repath, m.destination = n.destination
  PROVE  Heeds(m)
<1>1. Typed(m)
  BY DEF Heeds, Typed
<1> QED BY <1>1, HeedsSame

LEMMA JobsHeed ==
  ASSUME MarksInv, NavToJob \/ Cancel \/ SetPriority \/ GetPathCost \/ EditFreeBlacklist
  PROVE  Heeds(nav')
<1>1. Heeds(nav) /\ Heeds(Loaded) /\ pos \in Areas /\ level \in Levels
  BY LoadedNow DEF MarksInv, TypeOK
<1>2. Loaded \in NavType
  BY <1>1 DEF Heeds, Typed
<1>3. CASE NavToJob
  <2>1. PICK job \in Jobs : nav' \in NavTo(nav, job)
    BY <1>3 DEF NavToJob
  <2>2. Asked(job)
    BY DEF JobType, Asked
  <2> QED BY <1>1, <2>1, <2>2, NavToHeeds
<1>4. CASE Cancel
  BY <1>1, <1>4, CancelHeeds DEF Cancel
<1>5. CASE SetPriority
  <2>1. PICK p \in Supplies : nav' = [Loaded EXCEPT !.priority = p]
    BY <1>5 DEF SetPriority
  <2>2. p \in Nat
    BY DEF JobType
  <2> HIDE DEF Loaded
  <2> QED BY <1>1, <1>2, <2>1, <2>2, WrittenHeeds DEF NavType
<1>6. CASE GetPathCost
  <2>1. PICK d \in Areas, s \in StartAreas(Loaded) : \E f \in Solve(Loaded, s, d) : nav' = f.nav
    BY <1>6 DEF GetPathCost
  <2>2. s \in Areas
    BY <1>1 DEF StartAreas
  <2>3. Left(Loaded, nav', Free(Loaded))
    BY <1>1, <2>1, <2>2, HeedsLeft, SolveFinds DEF FoundIn
  <2> QED BY <1>1, <2>3, LeftHeeds
<1>7. CASE EditFreeBlacklist
  <2>1. PICK S \in SUBSET Dangers : nav' = [Loaded EXCEPT !.blacklist = S]
    BY <1>7 DEF EditFreeBlacklist
  <2>2. S \in SUBSET Areas
    OBVIOUS
  <2> QED BY <1>1, <1>2, <2>1, <2>2, WrittenHeeds DEF NavType
<1> QED BY <1>3, <1>4, <1>5, <1>6, <1>7

LEMMA MarksStep == MarksInv /\ [Next]_vars => MarksInv'
<1> SUFFICES ASSUME MarksInv, [Next]_vars PROVE MarksInv'
  OBVIOUS
<1>1. ASSUME CooldownEnds PROVE Heeds(nav')
  <2>1. nav' = [nav EXCEPT !.failed = NoArea] /\ nav \in NavType /\ Heeds(nav)
    BY <1>1 DEF CooldownEnds, MarksInv, TypeOK
  <2> QED BY <2>1, WrittenHeeds DEF NavType
<1>2. ASSUME GameChanges \/ PlayerMoves \/ DoorMoves \/ UNCHANGED vars PROVE Heeds(nav')
  <2>1. nav' = nav /\ Heeds(nav)
    BY <1>2 DEF GameChanges, PlayerMoves, DoorMoves, vars, MarksInv
  <2> QED BY <2>1
<1>3. Heeds(nav')
  BY <1>1, <1>2, CreateMoveHeeds, LevelsHeed, JobsHeed DEF Next
<1>4. nav' \in NavType /\ (nav'.repath => nav'.destination # NoArea)
  BY <1>3 DEF Heeds, Typed
<1> QED BY <1>3, <1>4, WorldTyped DEF MarksInv, TypeOK

\* Every variable keeps its type, for every mesh: what navTo is asked to repeat has
\* somewhere to go, and areas as a whole do not fail tests (NavEngine of navparser.cpp).
THEOREM TypeCorrect == Spec => []TypeOK
<1>1. MarksInv => TypeOK
  BY DEF MarksInv
<1> QED BY MarksInit, MarksStep, <1>1, PTL DEF Spec

\* From its first crumb on no path crosses a connection that is marked stuck or leads
\* into an area marked as a whole, for every mesh, any number of marks and whatever is
\* cached (vischeckPath, blacklistStuckConnectionAndRepath, AdjacentCost); the way to
\* the first crumb is not covered, as navTo looks up no mark for its other starts.
THEOREM AvoidsStuckHolds == Spec => []AvoidsStuck
<1>1. MarksInv => AvoidsStuck
  <2> SUFFICES ASSUME MarksInv, NEW k \in Crossings(nav)
               PROVE  nav.vis[k] # "stuck" /\ ~Bad(nav, <<k[2], k[2]>>)
    BY DEF AvoidsStuck
  <2>1. k \in Keys /\ k \notin StuckKeys(nav) /\ <<k[2], k[2]>> \notin StuckKeys(nav)
    BY DEF MarksInv, Heeds, Free
  <2>2. k[2] \in Areas /\ <<k[2], k[2]>> \in Keys
    BY <2>1 DEF Keys
  <2> QED BY <2>1, <2>2 DEF StuckKeys, Bad, MarksInv, Heeds, Typed
<1> QED BY MarksInit, MarksStep, <1>1, PTL DEF Spec

-----------------------------------------------------------------------------
(* What abandonPath finds.                                                 *)

\* Nothing, or a path of its own search for the job that it repeats.
LEMMA AbandonFinds ==
  ASSUME pos \in Areas, level \in Levels, NEW n, Typed(n), Clean(n), NEW m \in AbandonPath(n),
         m.crumbs # <<>>, NEW G, Ways(Dropped(n)) \subseteq G
  PROVE  /\ n.repath
         /\ \E f : /\ FoundIn(Dropped(n), f, G) /\ f.path # <<>>
                   /\ f.path[1] \in Starts(Dropped(n))
                   /\ m = TakeJob(f, Again(n))
<1> DEFINE o == Dropped(n)
           over == [o EXCEPT !.priority = 0]
<1>1. AbandonPath(n) = IF n.repath THEN NavTo(o, Again(n)) ELSE {over}
  BY Zenon DEF AbandonPath, Dropped, Again
<1>2. /\ Heeds(o) /\ Within(o, G) /\ o.crumbs = <<>> /\ o.dirty = n.dirty /\ o.level = n.level
  BY DroppedParts
<1> HIDE DEF o
<1>3. EnsureMapLoaded(o) = o
  BY <1>2 DEF EnsureMapLoaded, Clean
<1>4. Left(o, o, G)
  BY <1>2 DEF Left, Same, Heeds, o
<1>5. n.repath
  <2>1. over.crumbs = <<>>
    BY <1>2 DEF Heeds, Typed, NavType
  <2> HIDE DEF over
  <2> QED BY <1>1, <2>1
<1>6. \/ m = o \/ m = Fail(o, Again(n).dest)
      \/ \E f : FoundFrom(o, f, G) /\ IF f.path = <<>> THEN m = Fail(f.nav, Again(n).dest)
                                                       ELSE m = TakeJob(f, Again(n))
  BY <1>1, <1>3, <1>4, <1>5, NavToFinds
<1>7. ASSUME NEW x, x \in NavType, NEW d PROVE Fail(x, d).crumbs = x.crumbs
  BY <1>7 DEF Fail, NavType
<1>8. m # o /\ m # Fail(o, Again(n).dest)
  BY <1>2, <1>7 DEF Heeds, Typed
<1>9. ASSUME NEW f, FoundIn(o, f, G) PROVE m # Fail(f.nav, Again(n).dest)
  BY <1>2, <1>7, <1>9 DEF FoundIn, Left, Same, Typed
<1> QED BY <1>5, <1>6, <1>8, <1>9 DEF o, FoundFrom, Begins

\* abandonPath starts the job again that was walked, for every mesh: the destination,
\* the priority and the start are those of the last navTo (navTo, abandonPath).
THEOREM RepathKeepsJobHolds == Spec => []RepathKeepsJob
<1>1. MarksInv => RepathKeepsJob
  <2> SUFFICES ASSUME MarksInv, Walking, nav.repath, nav.crumbs # <<>>,
                      NEW m \in AbandonPath(nav), m.crumbs # <<>>
               PROVE  <<m.goal, m.priority, m.local, m.repath>>
                        = <<nav.goal, nav.priority, nav.local, TRUE>>
    BY DEF RepathKeepsJob
  <2>1. Typed(nav) /\ Clean(nav) /\ pos \in Areas /\ level \in Levels /\ nav.goal = nav.destination
    BY DEF MarksInv, TypeOK, Heeds, Walking, IsReady, Active, Clean
  <2>2. Ways(Dropped(nav)) \subseteq Keys
    BY DEF Ways, Free
  <2>3. PICK f : FoundIn(Dropped(nav), f, Keys) /\ f.path # <<>> /\ m = TakeJob(f, Again(nav))
    BY <2>1, <2>2, AbandonFinds
  <2>4. Asked(Again(nav))
    BY <2>1 DEF Typed, NavType, Again, Asked
  <2>5. TakenBy(Dropped(nav), m, Again(nav))
    BY <2>3, <2>4, TakeJobTakesIt
  <2> QED BY <2>1, <2>5 DEF TakenBy, Again
<1> QED BY MarksInit, MarksStep, <1>1, PTL DEF Spec

\* A path that was found while the blacklist is obeyed enters no blacklisted area, but
\* for one that navTo has tried in place of the player's own.
LEMMA AbandonObeys ==
  ASSUME pos \in Areas, level \in Levels, NEW n, Typed(n), Clean(n), ~n.blocked,
         StartAreas(n) # {pos} \/ pos \notin n.blacklist,
         NEW m \in AbandonPath(n)
  PROVE  ObeysBlacklist(m)
<1> DEFINE o == Dropped(n)
<1>1. CASE m.crumbs = <<>>
  BY <1>1 DEF ObeysBlacklist
<1>2. CASE m.crumbs # <<>>
  <2>1. PICK f : FoundIn(o, f, Ways(o)) /\ f.path # <<>> /\ m = TakeJob(f, Again(n))
                /\ f.path[1] \in Starts(o)
    BY <1>2, AbandonFinds
  <2>2. n.repath
    BY <1>2, AbandonFinds
  <2>3. Asked(Again(n))
    BY <2>2 DEF Typed, NavType, Again, Asked
  <2>4. /\ TakenBy(o, m, Again(n)) /\ m.crumbs = Crumbs(f.path, Again(n).local)
    BY <2>1, <2>3, TakeJobTakesIt
  <2>5. m.blacklist = o.blacklist /\ ~o.blocked /\ m.local = Again(n).local
    BY <2>4, DroppedParts DEF TakenBy
  <2>6. m.blacklist \subseteq Areas
    BY <2>4 DEF TakenBy, Typed, NavType
  <2>8. Bad(m, <<pos, pos>>) = Bad(n, <<pos, pos>>) /\ StartAreas(o) = StartAreas(n)
        /\ m.blacklist = n.blacklist
    <3>1. o.vis = n.vis /\ o.blacklist = n.blacklist
      BY DroppedParts
    <3>2. Typed(m) /\ StuckKeys(m) = StuckKeys(o) /\ <<pos, pos>> \in Keys
      BY <2>4 DEF TakenBy, Keys
    <3> QED BY <2>5, <3>1, <3>2 DEF StartAreas, Bad, Typed, StuckKeys
  <2>9. f.path[1] \in n.blacklist => f.path[1] \in OtherStarts(m)
    <3>1. CASE Bad(m, <<pos, pos>>)
      <4>1. n.blacklist \subseteq Areas
        BY DEF Typed, NavType
      <4> QED BY <3>1, <4>1 DEF OtherStarts
    <3>2. CASE ~Bad(m, <<pos, pos>>)
      <4>1. StartAreas(n) = {pos} /\ pos \notin n.blacklist
        BY <2>8, <3>2 DEF StartAreas
      <4> QED BY <2>1, <2>8, <3>2, <4>1 DEF OtherStarts, Starts
    <3> QED BY <3>1, <3>2
  <2> HIDE DEF o
  <2>7. ASSUME NEW i \in DOMAIN m.crumbs, m.crumbs[i] \in m.blacklist
        PROVE  m.local /\ m.crumbs[i] = m.crumbs[1] /\ m.crumbs[1] \in OtherStarts(m)
    <3>1. m.crumbs[i] # NoArea
      BY <2>6, <2>7
    <3>2. Along(f.path, Ways(o)) /\ Again(n).local \in BOOLEAN
      BY <2>1, <2>3 DEF FoundIn, Asked
    <3>3. \/ Again(n).local /\ m.crumbs[i] = m.crumbs[1] /\ m.crumbs[1] = f.path[1]
          \/ \E a \in Areas : <<a, m.crumbs[i]>> \in Ways(o)
      BY <2>1, <2>4, <3>1, <3>2, CrumbsEnter
    <3> QED BY <2>5, <2>7, <2>8, <2>9, <3>3 DEF Ways
  <2> QED BY <2>7 DEF ObeysBlacklist
<1> QED BY <1>1, <1>2

\* When checkBlacklist has run and the blacklist is to be obeyed, no path leads into a
\* blacklisted area, for every mesh and whatever the path finder remembered, but for a
\* first crumb in an area that navTo has tried in place of the player's own.
THEOREM BlacklistObeyedHolds == Spec => []BlacklistObeyed
<1>1. MarksInv => BlacklistObeyed
  <2> SUFFICES ASSUME MarksInv, Walking, NEW m \in CheckBlacklist(nav, FALSE), ~m.blocked
               PROVE  ObeysBlacklist(m)
    BY DEF BlacklistObeyed
  <2> DEFINE obeyed == [nav EXCEPT !.blocked = FALSE]
             ignored == [nav EXCEPT !.blocked = TRUE]
  <2>1. \/ m = PatherReset(ignored)
        \/ m = obeyed /\ ToSet(nav.crumbs) \cap nav.blacklist = {}
        \/ m \in AbandonPath(obeyed)
    BY Zenon DEF CheckBlacklist
  <2>2. Heeds(nav) /\ pos \in Areas /\ level \in Levels /\ Clean(nav) /\ nav \in NavType
    BY DEF MarksInv, TypeOK, Walking, IsReady, Active, Clean
  <2>3. /\ Heeds(obeyed) /\ ~obeyed.blocked /\ Clean(obeyed) /\ obeyed.crumbs = nav.crumbs
        /\ obeyed.blacklist = nav.blacklist
    BY <2>2, BlockedHeeds DEF NavType, Clean
  <2>4. Heeds(ignored) /\ ignored.blocked
    BY <2>2, BlockedHeeds DEF NavType
  <2> HIDE DEF obeyed, ignored
  <2>5. PatherReset(ignored).blocked
    BY <2>4, ResetForgets DEF Heeds, Same
  <2>6. CASE m = obeyed /\ ToSet(nav.crumbs) \cap nav.blacklist = {}
    BY <2>3, <2>6 DEF ObeysBlacklist, ToSet
  <2>7. CASE m \in AbandonPath(obeyed)
    <3>1. StartAreas(nav) # {pos} \/ pos \notin nav.blacklist
      <4>1. CASE StartAreas(nav) \cap nav.blacklist # {}
                 /\ StartAreas(nav) \subseteq StartAreas(nav) \cap nav.blacklist
        <5>1. m \in {PatherReset(ignored)}
          BY <4>1, Zenon DEF CheckBlacklist, ignored
        <5> QED BY <2>5, <5>1
      <4>2. CASE ~(StartAreas(nav) \cap nav.blacklist # {}
                   /\ StartAreas(nav) \subseteq StartAreas(nav) \cap nav.blacklist)
        BY <4>2
      <4> QED BY <4>1, <4>2
    <3>2. StartAreas(obeyed) = StartAreas(nav)
      BY <2>2 DEF StartAreas, Bad, obeyed, NavType
    <3> QED BY <2>2, <2>3, <2>7, <3>1, <3>2, AbandonObeys DEF Heeds
  <2> QED BY <2>1, <2>5, <2>6, <2>7
<1> QED BY MarksInit, MarksStep, <1>1, PTL DEF Spec

-----------------------------------------------------------------------------
(* Where there is a way, it is found.                                      *)

\* A way that a search would find if no test were cached.
Open(n, p) == \A i \in 1 .. Len(p) - 1 :
  /\ <<p[i], p[i + 1]>> \in Conn \ closed
  /\ <<p[i], p[i + 1]>> \in Ways(n)

Forgot(n) == n.known = [a \in Areas |-> Unknown]

LEMMA OpenFollows ==
  ASSUME NEW n, Typed(n), Forgot(n), Transient(n) = {}, NEW p \in Seq(Areas), Open(n, p)
  PROVE  Follows(p, Neighbours(n))
<1> SUFFICES ASSUME NEW i \in 1 .. Len(p) - 1 PROVE p[i + 1] \in Neighbours(n)[p[i]]
  BY DEF Follows
<1> DEFINE a == p[i]
           b == p[i + 1]
<1>1. a \in Areas /\ b \in Areas /\ <<a, b>> \in Keys /\ <<b, b>> \in Keys
  BY DEF Keys
<1>2. <<a, b>> \in Conn /\ <<a, b>> \notin closed /\ <<a, b>> \in Ways(n)
  BY DEF Open
<1> HIDE DEF a, b
<1>3. n.vis \in [Keys -> {"none", "pass", "fail", "stuck"}]
  BY TypedParts
<1>4. n.vis[<<a, b>>] \in {"none", "pass"} /\ n.vis[<<b, b>>] \notin {"fail", "stuck"}
  BY <1>1, <1>2, <1>3 DEF Ways, Free, StuckKeys, Transient
<1>5. MayEnter(n, b) /\ Passable(n, <<a, b>>)
  BY <1>2, <1>4 DEF MayEnter, Bad, Passable, Ways
<1>6. b \in AdjacentCost(n, a)
  BY <1>1, <1>2, <1>5 DEF AdjacentCost
<1>7. Neighbours(n)[a] = AdjacentCost(n, a)
  BY <1>1 DEF Neighbours, Forgot
<1> QED BY <1>6, <1>7 DEF a, b

LEMMA RoutesNotEmpty == ASSUME NEW p \in Routes PROVE p \in Seq(Areas) /\ p # <<>>
<1>1. PICK i \in 1 .. Cardinality(Areas) : p \in [1 .. i -> Areas]
  BY DEF Routes
<1>2. i \in Nat /\ i >= 1
  <2>1. Cardinality(Areas) \in Nat
    BY FS_CardinalityType
  <2> QED BY <2>1
<1>3. 1 \in DOMAIN p
  BY <1>1, <1>2
<1> QED BY <1>1, <1>2, <1>3

LEMMA SolveSucceeds ==
  ASSUME NEW n, NEW s, NEW p \in Routes, p[1] = s, Follows(p, Neighbours(n)),
         NEW f \in Solve(n, s, p[Len(p)])
  PROVE  f.path # <<>>
<1> DEFINE d == p[Len(p)]
           near   == Neighbours(n)
           walks  == RoutesFrom(s, near)
           solved == {q \in walks : q[Len(q)] = d}
           reach  == {Last(q) : q \in {x \in walks : d \notin ToSet(x)}}
           grown(E) == \A a \in E : \E q \in walks : q[Len(q)] = a /\ ToSet(q) \subseteq E
           chosen == {y \in solved \X SUBSET reach :
                        ToSet(y[1]) \ {d} \subseteq y[2] /\ grown(y[2])}
           here   == [nav |-> n, path |-> <<s>>]
           none   == [nav |-> Expand(n, reach, near), path |-> <<>>]
           some(x) == [nav |-> Expand(n, x[2], near), path |-> x[1]]
<1>1. Solve(n, s, d) = IF s = d THEN {here}
                       ELSE IF solved = {} THEN {none} ELSE {some(x) : x \in chosen}
  BY Zenon DEF Solve
<1>2. p \in solved
  BY DEF RoutesFrom
<1>3. here.path # <<>>
  OBVIOUS
<1>4. ASSUME NEW x \in chosen PROVE some(x).path # <<>>
  <2>1. x[1] \in Routes
    BY DEF RoutesFrom
  <2> QED BY <2>1, RoutesNotEmpty
<1> HIDE DEF here, none, some, chosen, solved, d
<1> QED BY <1>1, <1>2, <1>3, <1>4 DEF d

\* Tests that failed stay failed while a search goes on.
LEMMA SolveTransient ==
  ASSUME NEW n, Left(n, n, Keys), NEW s \in Areas, NEW d, NEW f \in Solve(n, s, d),
         Transient(f.nav) = {}
  PROVE  Transient(n) = {}
<1> DEFINE near   == Neighbours(n)
           walks  == RoutesFrom(s, near)
           solved == {p \in walks : p[Len(p)] = d}
           reach  == {Last(p) : p \in {q \in walks : d \notin ToSet(q)}}
           grown(E) == \A a \in E : \E p \in walks : p[Len(p)] = a /\ ToSet(p) \subseteq E
           chosen == {y \in solved \X SUBSET reach :
                        ToSet(y[1]) \ {d} \subseteq y[2] /\ grown(y[2])}
           here   == [nav |-> n, path |-> <<s>>]
           none   == [nav |-> Expand(n, reach, near), path |-> <<>>]
           some(x) == [nav |-> Expand(n, x[2], near), path |-> x[1]]
<1>1. Solve(n, s, d) = IF s = d THEN {here}
                       ELSE IF solved = {} THEN {none} ELSE {some(x) : x \in chosen}
  BY Zenon DEF Solve
<1>2. near \in [Areas -> SUBSET Areas] /\ \A a \in Areas : \A b \in near[a] : <<a, b>> \in Keys
  BY NeighboursWithin DEF Left
<1> HIDE DEF near
<1>3. ASSUME NEW E, Transient(Expand(n, E, near)) = {} PROVE Transient(n) = {}
  <2>1. \A k \in Keys : n.vis[k] = "fail" => Expand(n, E, near).vis[k] = "fail"
    BY <1>2, ExpandWithin DEF Left
  <2> QED BY <1>3, <2>1 DEF Transient
<1> HIDE DEF reach, chosen, solved
<1>4. f = here \/ f = none \/ \E x \in chosen : f = some(x)
  BY <1>1
<1>5. f.nav = n \/ \E E : f.nav = Expand(n, E, near)
  BY <1>4
<1> QED BY <1>3, <1>5

LEMMA SameOpen ==
  ASSUME NEW n, NEW m, Same(n, m), NEW p, Open(n, p) PROVE Open(m, p)
BY SameWays DEF Open

LEMMA FindPathSucceeds ==
  ASSUME NEW n, Typed(n), Forgot(n), NEW p \in Routes, Open(n, p), NEW s, s = p[1],
         NEW f \in FindPath(n, s, p[Len(p)])
  PROVE  f.path # <<>>
<1> DEFINE d == p[Len(p)]
           retry(x) == IF x.path # <<>> \/ Transient(x.nav) = {} THEN {x}
                       ELSE Solve(PurgeTransientVischeck(x.nav), s, d)
           finish(x) == IF x.path # <<>> THEN x ELSE [x EXCEPT !.nav = PatherReset(x.nav)]
           tries == UNION {retry(x) : x \in Solve(n, s, d)}
<1>1. FindPath(n, s, d) = {finish(g) : g \in tries}
  BY Zenon DEF FindPath
<1>2. p \in Seq(Areas) /\ p # <<>> /\ s \in Areas
  BY RoutesNotEmpty
<1>3. Left(n, n, Keys)
  <2>1. Ways(n) \subseteq Keys
    BY DEF Ways, Free
  <2>2. Within(n, Keys)
    BY DEF Within, Keys
  <2> QED BY <2>1, <2>2 DEF Left, Same
<1>4. ASSUME NEW g \in tries PROVE g.path # <<>>
  <2>1. PICK x \in Solve(n, s, d) : g \in retry(x)
    BY <1>4
  <2>2. FoundIn(n, x, Keys)
    BY <1>2, <1>3, SolveFinds
  <2>3. CASE x.path # <<>>
    BY <2>1, <2>3
  <2>4. CASE x.path = <<>> /\ Transient(x.nav) = {}
    <3>1. Transient(n) = {}
      BY <1>2, <1>3, <2>4, SolveTransient
    <3>2. Follows(p, Neighbours(n))
      BY <1>2, <3>1, OpenFollows
    <3> QED BY <2>4, <3>2, SolveSucceeds
  <2>5. CASE x.path = <<>> /\ Transient(x.nav) # {}
    <3> DEFINE o == PurgeTransientVischeck(x.nav)
    <3>1. /\ Typed(o) /\ Same(x.nav, o) /\ Forgot(o)
          /\ o.vis = [k \in Keys |-> IF x.nav.vis[k] = "fail" THEN "none" ELSE x.nav.vis[k]]
      BY <2>2, PurgeForgets DEF FoundIn, Left, Forgot
    <3>2. g \in Solve(o, s, d)
      BY <2>1, <2>5
    <3> HIDE DEF o
    <3>3. Transient(o) = {}
      BY <3>1 DEF Transient
    <3>4. Open(o, p)
      BY <2>2, <3>1, SameOpen DEF FoundIn, Left
    <3>5. Follows(p, Neighbours(o))
      BY <1>2, <3>1, <3>3, <3>4, OpenFollows
    <3> QED BY <3>2, <3>5, SolveSucceeds
  <2> QED BY <2>3, <2>4, <2>5
<1>5. \A g \in tries : finish(g).path # <<>>
  BY <1>4
<1> HIDE DEF tries, finish
<1> QED BY <1>1, <1>5 DEF d

LEMMA SearchSucceeds ==
  ASSUME NEW n, NEW s, NEW d, \A f \in FindPath(n, s, d) : f.path # <<>>,
         NEW f \in Search(n, s, d)
  PROVE  f.path # <<>>
<1> DEFINE T(found) == TryAlternative(found, d)
           first == Found(FindPath(n, s, d), ({pos} \cup Nearby[pos]) \ {s})
           all(found) == \A g \in found : g.path # <<>>
<1>1. Search(n, s, d) = T(T(T(T(T(first)))))
  BY Zenon DEF Search
<1>2. all(first)
  BY DEF Found
<1>3. ASSUME NEW found, all(found) PROVE T(found) = found
  BY <1>3 DEF TryAlternative
<1> HIDE DEF first, T, all
<1>4. Search(n, s, d) = first
  BY <1>1, <1>2, <1>3
<1> QED BY <1>2, <1>4 DEF all

\* abandonPath finds a way when there is one, for every mesh, whatever failed tests and
\* answers are cached, unless a navTo to the same place failed in the last 500 ms.
THEOREM AbandonRecoversHolds == Spec => []AbandonRecovers
<1>1. MarksInv => AbandonRecovers
  <2> SUFFICES ASSUME MarksInv, Walking, nav.repath, WayOpen(nav), nav.failed # nav.destination,
                      NEW m \in AbandonPath(nav)
               PROVE  m.crumbs # <<>>
    BY DEF AbandonRecovers
  <2> DEFINE o == Dropped(nav)
             d == nav.destination
             l == EnsureMapLoaded(o)
             e == Again(nav).dest
             found == UNION {Search(l, s, e) : s \in StartAreas(l)}
             ends(f) == IF f.path = <<>> THEN Fail(f.nav, e) ELSE TakeJob(f, Again(nav))
  <2>1. /\ Typed(nav) /\ Clean(nav) /\ nav \in NavType /\ pos \in Areas /\ level \in Levels
        /\ nav.level \in Meshed /\ game \in {"round", "dead"}
    BY DEF MarksInv, TypeOK, Heeds, Walking, IsReady, Active, Clean
  <2>2. /\ Heeds(o) /\ Forgot(o) /\ o.vis = nav.vis /\ o.blacklist = nav.blacklist
        /\ o.blocked = nav.blocked /\ o.dirty = nav.dirty /\ o.level = nav.level
        /\ o.failed = nav.failed /\ o.priority = nav.priority
    BY <2>1, DroppedParts DEF Forgot
  <2>3. AbandonPath(nav) = NavTo(o, Again(nav))
    BY Zenon DEF AbandonPath, Dropped, Again
  <2> HIDE DEF o
  <2>4. l = o /\ IsReady(o)
    BY <2>1, <2>2 DEF EnsureMapLoaded, Clean, IsReady, Active
  <2>5. ~(Again(nav).priority < o.priority) /\ e = d /\ o.failed # d
    BY <2>1, <2>2 DEF Again, NavType
  <2>6. StartAreas(o) = {pos}
    BY <2>2 DEF StartAreas, WayOpen, Bad
  <2>7. NavTo(o, Again(nav)) =
          IF ~IsReady(l) \/ Again(nav).priority < l.priority THEN {Fail(l, e)}
          ELSE IF l.failed = e THEN {l}
          ELSE IF StartAreas(l) = {} THEN {Fail(l, e)} ELSE {ends(f) : f \in found}
    BY Zenon DEF NavTo
  <2> HIDE DEF l, e, d, ends, found
  <2>8. PICK f \in found : m = ends(f)
    BY <2>3, <2>4, <2>5, <2>6, <2>7
  <2>9. f \in Search(o, pos, d)
    BY <2>4, <2>5, <2>6 DEF found
  <2>10. PICK p \in Routes :
           /\ p[1] = pos /\ p[Len(p)] = d
           /\ \A i \in 1 .. Len(p) - 1 : /\ <<p[i], p[i + 1]>> \in Conn \ closed
                                         /\ nav.vis[<<p[i], p[i + 1]>>] # "stuck"
                                         /\ MayEnter(nav, p[i + 1])
    BY DEF WayOpen, d
  <2>11. Open(o, p)
    <3> SUFFICES ASSUME NEW i \in 1 .. Len(p) - 1 PROVE <<p[i], p[i + 1]>> \in Ways(o)
      BY <2>10 DEF Open
    <3>1. /\ <<p[i], p[i + 1]>> \in Keys /\ p[i + 1] \in Areas
          /\ o.vis[<<p[i], p[i + 1]>>] # "stuck" /\ o.vis[<<p[i + 1], p[i + 1]>>] # "stuck"
          /\ o.blocked \/ p[i + 1] \notin o.blacklist
      BY <2>2, <2>10, RoutesNotEmpty DEF Keys, MayEnter, Bad
    <3> QED BY <3>1 DEF Ways, Free, StuckKeys
  <2>12. \A g \in FindPath(o, pos, d) : g.path # <<>>
    BY <2>2, <2>10, <2>11, FindPathSucceeds DEF Heeds
  <2>13. f.path # <<>>
    BY <2>9, <2>12, SearchSucceeds
  <2>14. Asked(Again(nav))
    BY <2>1 DEF Typed, NavType, Again, Asked
  <2>15. Left(o, o, Keys)
    <3>1. Ways(o) \subseteq Keys
      BY DEF Ways, Free
    <3>2. Within(o, Keys)
      BY DEF Within, Keys
    <3> QED BY <2>2, <3>1, <3>2 DEF Left, Same, Heeds
  <2>16. FoundIn(o, f, Keys)
    BY <2>1, <2>9, <2>15, SearchFinds
  <2>17. m.crumbs = Crumbs(f.path, nav.local)
    BY <2>8, <2>13, <2>14, <2>16, TakeJobTakesIt DEF ends, Again
  <2> QED BY <2>13, <2>16, <2>17, CrumbsOfPath DEF FoundIn, Along
<1> QED BY MarksInit, MarksStep, <1>1, PTL DEF Spec

=============================================================================
