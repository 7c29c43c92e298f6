------------------------------ MODULE MCActorHost ------------------------------
(* One adapter and one launch spec of the host's own owner, besides a foreign *)
(* one.                                                                       *)
EXTENDS ActorHost

CONSTANTS claude, own, foreign, k1, i1, s1, exited, c1

MCAdapters == {claude}
MCOwners == {own, foreign}
MCConfigs == {k1}
MCForeignSpecs == [adapter: {claude}, owner: {own, foreign}, config: {k1}]
MCOneInvocation == {i1}
MCSessions == {s1}
MCFacts == {exited}
MCOneClient == {c1}

==============================================================================
