---------------------------- MODULE MCHostGateway ----------------------------
(* The instance of HostGateway that TLC explores: two actors and two host    *)
(* instances whose contexts overlap, so that connections collide by actor    *)
(* alone and by host alone; a second project that no context names.          *)
EXTENDS HostGateway, TLC

CONSTANTS p1, p2, a1, a2, h1, h2, c1, c2, c3

MCProjects == {p1, p2}
MCActors == {a1, a2}
MCHosts == {h1, h2}
MCConns == {c1, c2, c3}
MCContexts == { [project |-> p1, actor |-> a1, host |-> h1],
                [project |-> p1, actor |-> a1, host |-> h2],
                [project |-> p1, actor |-> a2, host |-> h1] }

\* Connection objects are interchangeable.
ConnSymmetry == Permutations(MCConns)

==============================================================================
