-------------------------- MODULE MCClaudeCodeBackend --------------------------
(* One launch spec, two invocations, one session that a backend may print.    *)
EXTENDS ClaudeCodeBackend

CONSTANTS claude, own, k1, i1, i2, s1

MCAdapters == {claude}
MCOwners == {own}
MCConfigs == {k1}
MCSpecs == [adapter: {claude}, owner: {own}, config: {k1}]
MCInvocationIds == {i1, i2}
MCSessions == {s1}

==============================================================================
