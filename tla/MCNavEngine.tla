---------------------------- MODULE MCNavEngine ----------------------------
(***************************************************************************)
(* A mesh of three areas for NavEngine.                                    *)
(***************************************************************************)
EXTENDS NavEngine

CONSTANTS a1, a2, a3

\* Two ways from a1 to a3, one of them through a2, and one way back.
Triangle == {<<a1, a3>>, <<a1, a2>>, <<a2, a3>>, <<a3, a1>>}

\* One way round.
Cycle == {<<a1, a2>>, <<a2, a3>>, <<a3, a1>>}

\* Destinations two areas away are too far to be started from.
Neighbour == (a1 :> {a2}) @@ (a2 :> {a1}) @@ (a3 :> {a2})

Job(d, p, r, l) == [dest |-> d, priority |-> p, repath |-> r, local |-> l]

\* A patrol, and an escape that does not repath.
BotJobs == {Job(a3, 1, TRUE, FALSE), Job(a2, 2, FALSE, TRUE)}

\* Two bots that want to go to one place.
RivalJobs == {Job(a3, 1, TRUE, TRUE), Job(a3, 2, TRUE, TRUE)}

OneDoor  == {<<a1, a3>>}
NoDoors  == {}

=============================================================================
