------------------------- MODULE MCBackendSupervisor -------------------------
(* Two invocations, launch specs that differ in the adapter, in the owner and  *)
(* in the rest of the configuration.                                           *)
EXTENDS BackendSupervisor

CONSTANTS claude, other, o1, o2, k1, k2, i1, i2, s1, s2, exited, stopped

MCAdapters == {claude, other}
MCOwners == {o1, o2}
MCConfigs == {k1, k2}
MCSpecs == { [adapter |-> claude, owner |-> o1, config |-> k1],
             [adapter |-> claude, owner |-> o1, config |-> k2],
             [adapter |-> other, owner |-> o1, config |-> k1] }
MCInvocationIds == {i1, i2}
MCSessions == {s1, s2}
MCFacts == {exited, stopped}

==============================================================================
