-------------------------- MODULE BackendSupervisor --------------------------
(***************************************************************************)
(* The BackendSupervisor of the actor host: it initializes one backend     *)
(* adapter, starts at most one invocation at a time on it, stops it, and   *)
(* turns the three promises of an execution (its session, its completion,  *)
(* its stop) into one terminal fact.                                       *)
(*                                                                         *)
(* A call of the public API is one action, and so is each promise reaction *)
(* the supervisor registers.  The adapter port (adapter.ts) says nothing   *)
(* of when or in which order its promises settle, or whether they do.      *)
(***************************************************************************)
EXTENDS Integers, Sequences

CONSTANTS
    Adapters, AdapterId,   \* adapter ids, and that of the injected adapter
    Owners,                \* a project and an actor of it
    Specs,                 \* launch specs: [adapter, owner, config]
    Configs,               \* what else a launch spec holds
    InvocationIds,
    Sessions,              \* backend session ids
    Facts,                 \* terminal process facts: exited, signaled, stopped
    None,
    MaxStarts              \* bound: executions the exploration starts

ASSUME SpecsAssumption == Specs \subseteq [adapter: Adapters, owner: Owners, config: Configs]
ASSUME NoneIsNoSpec == None \notin Specs
ASSUME NoneIsNoSession == None \notin Sessions
ASSUME StatusIsNoSession == {"pending", "rejected"} \intersect (Sessions \union {None}) = {}
ASSUME MaxStartsAssumption == MaxStarts \in Nat

VARIABLES
    state,           \* the SupervisorState
    launchSpec,      \* the spec of a successful initialization
    initialization,  \* the spec of the reservation in flight
    sessionId,       \* the last session observed
    active,          \* the position in execs of the active invocation, 0 if none
    execs            \* every execution the adapter started, in order

vars == <<state, launchSpec, initialization, sessionId, active, execs>>

Invocations == [id: InvocationIds, owner: Owners]

SessionValues == Sessions \union {None}
Completions == [session: SessionValues, fact: Facts]

\* An execution: the settlement of its promises, and the fields of the
\* ActiveInvocation.  "outcome" says which promise of the handle resolved with a
\* value: settled is outcome # "none".
Executions ==
    { x \in [ inv: Invocations,
              session: SessionValues \union {"pending", "rejected"},
              completion: {"pending", "rejected", "fulfilled"},
              value: Completions \union {None},
              stop: {"none", "requested", "rejected"},
              completionSettled: BOOLEAN,
              outcome: {"none", "result", "failure"} ] :
        x.completion = "fulfilled" => x.value \in Completions }

\* Faulty variant: the settled flag is left unset.
NewExecutionUnset(inv) ==
    [ inv |-> inv, session |-> "pending", completion |-> "pending", value |-> None,
      stop |-> "none", completionSettled |-> FALSE, outcome |-> None ]

NewExecution(inv) ==
    [ inv |-> inv, session |-> "pending", completion |-> "pending", value |-> None,
      stop |-> "none", completionSettled |-> FALSE, outcome |-> "none" ]

------------------------------------------------------------------------------
(* initialize *)

InitializeVerdict(spec) ==
    CASE spec.adapter # AdapterId -> "adapter_mismatch"
      [] spec.adapter = AdapterId /\ state = "faulted" -> "quarantined"
      [] spec.adapter = AdapterId /\ state # "faulted" /\ launchSpec # None ->
           IF launchSpec = spec THEN "already_initialized" ELSE "identity_mismatch"
      [] OTHER ->
           IF initialization = None THEN "begin"
           ELSE IF initialization = spec THEN "join" ELSE "identity_mismatch"

\* Only the first call of a reservation starts the adapter; another one with
\* the same configuration waits for the same promise, and any other verdict
\* changes nothing.
Initialize(spec) ==
    /\ InitializeVerdict(spec) = "begin"
    /\ initialization' = spec
    /\ UNCHANGED <<state, launchSpec, sessionId, active, execs>>

\* adapter.initialize rejects: the reservation is given up for a later retry.
InitializationFails ==
    /\ initialization # None
    /\ initialization' = None
    /\ UNCHANGED <<state, launchSpec, sessionId, active, execs>>

InitializationSucceeds ==
    /\ initialization # None
    /\ initialization' = None
    /\ launchSpec' = initialization
    /\ sessionId' = None
    /\ state' = "ready"
    /\ UNCHANGED <<active, execs>>

------------------------------------------------------------------------------
(* start *)

StartVerdict(inv) ==
    CASE state = "uninitialized" \/ launchSpec = None -> "not_initialized"
      [] state = "faulted" -> "quarantined"
      [] state \in {"running", "stopping"} -> "busy"
      [] OTHER -> IF inv.owner # launchSpec.owner THEN "identity_mismatch" ELSE "adapter"

\* The adapter starts an execution.  When it reports a launch failure instead,
\* the supervisor returns that fact and its own state is unchanged.
Start(inv) ==
    /\ StartVerdict(inv) = "adapter"
    /\ Len(execs) < MaxStarts
    /\ execs' = Append(execs, NewExecution(inv))
    /\ active' = Len(execs) + 1
    /\ state' = "running"
    /\ UNCHANGED <<launchSpec, initialization, sessionId>>

------------------------------------------------------------------------------
(* The end of an invocation. *)

IsActive(e) == active = e /\ execs[e].outcome = "none"

\* Faulty variant: a failure leaves the supervisor ready.
FailWithoutQuarantine(e, x) ==
    IF IsActive(e)
    THEN /\ execs' = [execs EXCEPT ![e] = [x EXCEPT !.completionSettled = TRUE,
                                                   !.outcome = "failure"]]
         /\ active' = 0
         /\ state' = "ready"
    ELSE /\ execs' = [execs EXCEPT ![e] = x]
         /\ UNCHANGED <<active, state>>

\* fail: quarantine, unless the invocation has ended already.  The record x is
\* execs[e] with what the calling reaction assigned before.
Fail(e, x) ==
    IF IsActive(e)
    THEN /\ execs' = [execs EXCEPT ![e] = [x EXCEPT !.completionSettled = TRUE,
                                                   !.outcome = "failure"]]
         /\ active' = 0
         /\ state' = "faulted"
    ELSE /\ execs' = [execs EXCEPT ![e] = x]
         /\ UNCHANGED <<active, state>>

------------------------------------------------------------------------------
(* stop *)

StopVerdict(id) ==
    CASE state = "uninitialized" \/ launchSpec = None -> "not_initialized"
      [] active = 0 -> "no_active_invocation"
      [] OTHER ->
           IF execs[active].inv.id # id THEN "invocation_mismatch"
           ELSE IF execs[active].completionSettled \/ state = "stopping" THEN "accepted"
           ELSE "request"

\* Only the first stop of an execution that has not completed reaches it.
Stop(id) ==
    /\ StopVerdict(id) = "request"
    /\ state' = "stopping"
    /\ execs' = [execs EXCEPT ![active].stop = "requested"]
    /\ UNCHANGED <<launchSpec, initialization, sessionId, active>>

\* execution.stop() throws, which fails the invocation at once.
StopThrows(id) ==
    /\ StopVerdict(id) = "request"
    /\ Fail(active, [execs[active] EXCEPT !.stop = "rejected"])
    /\ UNCHANGED <<launchSpec, initialization, sessionId>>

\* The promise of execution.stop() rejects.  Nothing happens when it resolves.
StopRejects(e) ==
    /\ execs[e].stop = "requested"
    /\ Fail(e, [execs[e] EXCEPT !.stop = "rejected"])
    /\ UNCHANGED <<launchSpec, initialization, sessionId>>

------------------------------------------------------------------------------
(* The session and the completion of an execution. *)

SessionResolves(e, s) ==
    /\ execs[e].session = "pending"
    /\ execs' = [execs EXCEPT ![e].session = s]
    /\ sessionId' = IF s # None /\ IsActive(e) THEN s ELSE sessionId
    /\ UNCHANGED <<state, launchSpec, initialization, active>>

SessionRejects(e) ==
    /\ execs[e].session = "pending"
    /\ Fail(e, [execs[e] EXCEPT !.session = "rejected"])
    /\ UNCHANGED <<launchSpec, initialization, sessionId>>

\* The first half of the completion reaction: the value is held until the
\* session is known.
CompletionResolves(e, c) ==
    /\ execs[e].completion = "pending"
    /\ execs' = [execs EXCEPT ![e] = [execs[e] EXCEPT !.completion = "fulfilled", !.value = c,
                                                      !.completionSettled = TRUE]]
    /\ UNCHANGED <<state, launchSpec, initialization, sessionId, active>>

CompletionRejects(e) ==
    /\ execs[e].completion = "pending"
    /\ Fail(e, [execs[e] EXCEPT !.completion = "rejected", !.completionSettled = TRUE])
    /\ UNCHANGED <<launchSpec, initialization, sessionId>>

\* The session the result carries: the one discovered, else the completion's.
ResolvedSession(e) ==
    IF execs[e].session \in Sessions THEN execs[e].session ELSE execs[e].value.session

\* Faulty variants of the second half: without the await; the active invocation
\* is kept; an invocation that is being stopped is not finished.
FinishWithoutSession(e) ==
    /\ execs[e].completion = "fulfilled"
    /\ IsActive(e)
    /\ sessionId' = IF ResolvedSession(e) # None THEN ResolvedSession(e) ELSE sessionId
    /\ execs' = [execs EXCEPT ![e].outcome = "result"]
    /\ active' = 0
    /\ state' = "ready"
    /\ UNCHANGED <<launchSpec, initialization>>

FinishKeepingActive(e) ==
    /\ execs[e].completion = "fulfilled"
    /\ execs[e].session # "pending"
    /\ IsActive(e)
    /\ sessionId' = IF ResolvedSession(e) # None THEN ResolvedSession(e) ELSE sessionId
    /\ execs' = [execs EXCEPT ![e].outcome = "result"]
    /\ state' = "ready"
    /\ UNCHANGED <<launchSpec, initialization, active>>

FinishUnlessStopping(e) ==
    /\ state # "stopping"
    /\ execs[e].completion = "fulfilled"
    /\ execs[e].session # "pending"
    /\ IsActive(e)
    /\ sessionId' = IF ResolvedSession(e) # None THEN ResolvedSession(e) ELSE sessionId
    /\ execs' = [execs EXCEPT ![e].outcome = "result"]
    /\ active' = 0
    /\ state' = "ready"
    /\ UNCHANGED <<launchSpec, initialization>>

\* The second half, after the await of the session.
Finish(e) ==
    /\ execs[e].completion = "fulfilled"
    /\ execs[e].session # "pending"
    /\ IsActive(e)
    /\ sessionId' = IF ResolvedSession(e) # None THEN ResolvedSession(e) ELSE sessionId
    /\ execs' = [execs EXCEPT ![e].outcome = "result"]
    /\ active' = 0
    /\ state' = "ready"
    /\ UNCHANGED <<launchSpec, initialization>>

------------------------------------------------------------------------------

Init ==
    /\ state = "uninitialized"
    /\ launchSpec = None
    /\ initialization = None
    /\ sessionId = None
    /\ active = 0
    /\ execs = <<>>

Call ==
    \/ \E spec \in Specs : Initialize(spec)
    \/ \E inv \in Invocations : Start(inv)
    \/ \E id \in InvocationIds : Stop(id) \/ StopThrows(id)

\* What the adapter decides.
Settlement(e) ==
    \/ \E s \in SessionValues : SessionResolves(e, s)
    \/ SessionRejects(e)
    \/ \E c \in Completions : CompletionResolves(e, c)
    \/ CompletionRejects(e)
    \/ StopRejects(e)

Next ==
    \/ Call
    \/ InitializationFails \/ InitializationSucceeds
    \/ \E e \in 1..Len(execs) : Settlement(e) \/ Finish(e)

Spec == Init /\ [][Next]_vars

\* What the adapter owes (claude-code-adapter.ts): a process that was asked to
\* stop ends, and the session is settled by the observation that settles the
\* completion.  It owes nothing else: a backend may run forever.  A reaction to a
\* settled promise always runs.
SettlesSession(e) == SessionRejects(e) \/ \E s \in SessionValues : SessionResolves(e, s)
SettlesCompletion(e) == CompletionRejects(e) \/ \E c \in Completions : CompletionResolves(e, c)
Fairness ==
    \A e \in 1..MaxStarts :
      /\ WF_vars(/\ e <= Len(execs) /\ execs[e].stop = "requested"
                 /\ SettlesCompletion(e))
      /\ WF_vars(/\ e <= Len(execs) /\ execs[e].completion # "pending"
                 /\ SettlesSession(e))
      /\ WF_vars(e <= Len(execs) /\ Finish(e))

FairSpec == Spec /\ Fairness

------------------------------------------------------------------------------
(* Properties. *)

\* The fields keep their types.
TypeOK ==
    /\ state \in {"uninitialized", "ready", "running", "stopping", "faulted"}
    /\ launchSpec \in Specs \union {None}
    /\ initialization \in Specs \union {None}
    /\ sessionId \in SessionValues
    /\ execs \in Seq(Executions)
    /\ active \in 0..Len(execs)

\* Two backend processes never run at the same time, not even when an
\* invocation failed while its process was still alive: an execution starts
\* only after the completion of every earlier one was observed.
NoOverlappingExecutions ==
    \A d, e \in 1..Len(execs) :
        d < e => execs[d].completion = "fulfilled" /\ execs[d].outcome = "result"

\* The state says whether there is an active invocation, and the active one is
\* the last that was started and has not ended; nothing else is unfinished.
StateMatchesActive ==
    /\ state \in {"running", "stopping"} <=> active # 0
    /\ active # 0 => active = Len(execs) /\ execs[active].outcome = "none"
    /\ \A e \in 1..Len(execs) : e # active => execs[e].outcome # "none"
    /\ state = "faulted" <=> \E e \in 1..Len(execs) : execs[e].outcome = "failure"
    /\ state # "uninitialized" <=> launchSpec # None
    /\ initialization # None => launchSpec = None

\* A failure is terminal and truthful: an invocation has failed only if one of
\* its promises was rejected, and a result is given only when both the session
\* and the completion were observed without an error.
TruthfulOutcome ==
    \A e \in 1..Len(execs) :
        /\ execs[e].outcome = "failure" =>
             \/ "rejected" \in {execs[e].session, execs[e].completion, execs[e].stop}
        /\ execs[e].outcome = "result" =>
             /\ execs[e].completion = "fulfilled"
             /\ execs[e].session \in SessionValues

\* The terminal fact of an invocation is decided once: no step takes it back or
\* turns a result into a failure, and a step decides at most one.
DecidedOnce ==
    [][\A e \in 1..Len(execs) :
         execs[e].outcome # "none" => execs'[e].outcome = execs[e].outcome]_vars

\* Nothing is initialized again, started or accepted after a failure: the
\* supervisor stays quarantined until the host is replaced.
QuarantineIsFinal ==
    [][state = "faulted" => state' = "faulted" /\ Len(execs') = Len(execs)]_vars

\* An invocation whose backend is done, or that was asked to stop, gets its
\* terminal fact, whichever of its promises settled first.
InvocationEnds ==
    \A e \in 1..MaxStarts :
        (e <= Len(execs) /\ (execs[e].completion # "pending" \/ execs[e].stop = "requested"))
          ~> (e <= Len(execs) /\ execs[e].outcome # "none")

\* The abstract promise of an actor host.
InvocationHistory ==
    [e \in 1..Len(execs) |->
       IF execs[e].outcome = "none" THEN "running" ELSE execs[e].outcome]
Lifecycle == INSTANCE InvocationLifecycle WITH history <- InvocationHistory
ImplementsLifecycle == Lifecycle!Spec

==============================================================================
