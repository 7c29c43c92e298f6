---------------------------- MODULE MCHostProtocol ----------------------------
(* One adapter, one launch spec and one invocation id.  Two attempts to       *)
(* connect, of which the second may be made before, while and after the first *)
(* is lost, and two commands; or one connection and three commands, enough to *)
(* initialize, start and stop, with a backend that has no session to report.  *)
EXTENDS HostProtocol, TLC

CONSTANTS claude, k1, i1, s1, exited, c1, c2

MCAdapters == {claude}
MCConfigs == {k1}
MCInvocationIds == {i1}
MCSessions == {s1}
MCNoSessions == {}
MCFacts == {exited}
MCTwoClients == {c1, c2}
MCOneClient == {c1}

\* The attempts are interchangeable.
ClientSymmetry == Permutations(MCTwoClients)

==============================================================================
