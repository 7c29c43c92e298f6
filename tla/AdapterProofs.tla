---------------------------- MODULE AdapterProofs ----------------------------
(***************************************************************************)
(* The two adapters.  That of Claude Code runs one backend process at a    *)
(* time, tells the truth about it, and keeps to the port of the supervisor, *)
(* for any number of executions; the WebSocket adapter ends each socket    *)
(* once and each session whole, for any number of upgrades.                *)
(***************************************************************************)
EXTENDS ClaudeCodeBackend, WebSocketAdapter, TLAPS

------------------------------------------------------------------------------
(* The supervisor of the Claude Code adapter.  What is proved about           *)
(* BackendSupervisor is about this instance of it as well.                    *)

SupervisorFacts == INSTANCE BackendSupervisorProofs

SupervisorOK == Supervisor!TypeOK /\ SupervisorFacts!SupervisorInv

LEMMA SameOperators ==
    /\ Supervisor!SessionValues = SupervisorFacts!SessionValues
    /\ Supervisor!Completions = SupervisorFacts!Completions
    /\ Supervisor!Invocations = SupervisorFacts!Invocations
    /\ Supervisor!Executions = SupervisorFacts!Executions
    /\ Supervisor!TypeOK <=> SupervisorFacts!TypeOK
    /\ \A spec : Supervisor!InitializeVerdict(spec) = SupervisorFacts!InitializeVerdict(spec)
    /\ \A inv : Supervisor!StartVerdict(inv) = SupervisorFacts!StartVerdict(inv)
    /\ \A id : Supervisor!StopVerdict(id) = SupervisorFacts!StopVerdict(id)
    /\ \A e : Supervisor!IsActive(e) <=> SupervisorFacts!IsActive(e)
    /\ \A inv : Supervisor!NewExecution(inv) = SupervisorFacts!NewExecution(inv)
<1>1. /\ Supervisor!SessionValues = SupervisorFacts!SessionValues
      /\ Supervisor!Completions = SupervisorFacts!Completions
      /\ Supervisor!Invocations = SupervisorFacts!Invocations
  BY DEF Supervisor!SessionValues, SupervisorFacts!SessionValues, Supervisor!Completions,
         SupervisorFacts!Completions, Supervisor!Invocations, SupervisorFacts!Invocations
<1>2. Supervisor!Executions = SupervisorFacts!Executions
  BY <1>1 DEF Supervisor!Executions, SupervisorFacts!Executions
<1>3. Supervisor!TypeOK <=> SupervisorFacts!TypeOK
  BY <1>1, <1>2 DEF Supervisor!TypeOK, SupervisorFacts!TypeOK
<1>4. \A spec : Supervisor!InitializeVerdict(spec) = SupervisorFacts!InitializeVerdict(spec)
  BY DEF Supervisor!InitializeVerdict, SupervisorFacts!InitializeVerdict
<1>5. \A inv : Supervisor!StartVerdict(inv) = SupervisorFacts!StartVerdict(inv)
  BY DEF Supervisor!StartVerdict, SupervisorFacts!StartVerdict
<1>6. \A id : Supervisor!StopVerdict(id) = SupervisorFacts!StopVerdict(id)
  BY DEF Supervisor!StopVerdict, SupervisorFacts!StopVerdict
<1>7. \A e : Supervisor!IsActive(e) <=> SupervisorFacts!IsActive(e)
  BY DEF Supervisor!IsActive, SupervisorFacts!IsActive
<1>8. \A inv : Supervisor!NewExecution(inv) = SupervisorFacts!NewExecution(inv)
  BY DEF Supervisor!NewExecution, SupervisorFacts!NewExecution
<1> QED BY <1>1, <1>2, <1>3, <1>4, <1>5, <1>6, <1>7, <1>8

LEMMA SameSteps ==
    Supervisor!Next \/ UNCHANGED supervisor
        => SupervisorFacts!Next \/ UNCHANGED SupervisorFacts!vars
<1>1. ASSUME NEW spec, Supervisor!Initialize(spec) PROVE SupervisorFacts!Initialize(spec)
  BY <1>1, SameOperators DEF Supervisor!Initialize, SupervisorFacts!Initialize
<1>2. ASSUME NEW inv, Supervisor!Start(inv) PROVE SupervisorFacts!Start(inv)
  BY <1>2, SameOperators DEF Supervisor!Start, SupervisorFacts!Start
<1>3. ASSUME NEW e, NEW x, Supervisor!Fail(e, x) PROVE SupervisorFacts!Fail(e, x)
  BY <1>3, SameOperators DEF Supervisor!Fail, SupervisorFacts!Fail
<1>4. ASSUME NEW id, Supervisor!Stop(id) PROVE SupervisorFacts!Stop(id)
  BY <1>4, SameOperators DEF Supervisor!Stop, SupervisorFacts!Stop
<1>5. ASSUME NEW id, Supervisor!StopThrows(id) PROVE SupervisorFacts!StopThrows(id)
  BY <1>3, <1>5, SameOperators DEF Supervisor!StopThrows, SupervisorFacts!StopThrows
<1>6. CASE Supervisor!InitializationFails \/ Supervisor!InitializationSucceeds
  BY <1>6 DEF Supervisor!InitializationFails, Supervisor!InitializationSucceeds,
        SupervisorFacts!InitializationFails, SupervisorFacts!InitializationSucceeds,
        SupervisorFacts!Next
<1>7. ASSUME NEW e, NEW s, Supervisor!SessionResolves(e, s)
      PROVE  SupervisorFacts!SessionResolves(e, s)
  BY <1>7, SameOperators DEF Supervisor!SessionResolves, SupervisorFacts!SessionResolves
<1>8. ASSUME NEW e, NEW c, Supervisor!CompletionResolves(e, c)
      PROVE  SupervisorFacts!CompletionResolves(e, c)
  BY <1>8 DEF Supervisor!CompletionResolves, SupervisorFacts!CompletionResolves
<1>9. ASSUME NEW e, Supervisor!SessionRejects(e) PROVE SupervisorFacts!SessionRejects(e)
  BY <1>3, <1>9 DEF Supervisor!SessionRejects, SupervisorFacts!SessionRejects
<1>10. ASSUME NEW e, Supervisor!CompletionRejects(e) PROVE SupervisorFacts!CompletionRejects(e)
  BY <1>3, <1>10 DEF Supervisor!CompletionRejects, SupervisorFacts!CompletionRejects
<1>11. ASSUME NEW e, Supervisor!StopRejects(e) PROVE SupervisorFacts!StopRejects(e)
  BY <1>3, <1>11 DEF Supervisor!StopRejects, SupervisorFacts!StopRejects
<1>12. ASSUME NEW e, Supervisor!Finish(e) PROVE SupervisorFacts!Finish(e)
  BY <1>12, SameOperators DEF Supervisor!Finish, SupervisorFacts!Finish,
        Supervisor!ResolvedSession, SupervisorFacts!ResolvedSession
<1>13. CASE UNCHANGED supervisor
  BY <1>13 DEF supervisor, SupervisorFacts!vars
<1> QED
  BY <1>1, <1>2, <1>4, <1>5, <1>6, <1>7, <1>8, <1>9, <1>10, <1>11, <1>12, <1>13, SameOperators
     DEF Supervisor!Next, SupervisorFacts!Next, Supervisor!Call, SupervisorFacts!Call,
         Supervisor!Settlement, SupervisorFacts!Settlement

LEMMA SupervisorKept ==
    ASSUME SupervisorOK, Supervisor!Next \/ UNCHANGED supervisor PROVE SupervisorOK'
<1>1. [SupervisorFacts!Next]_(SupervisorFacts!vars)
  BY SameSteps
<1>2. SupervisorFacts!TypeOK /\ SupervisorFacts!SupervisorInv
  BY SameOperators DEF SupervisorOK
<1>3. SupervisorFacts!TypeOK'
  BY <1>1, <1>2, SupervisorFacts!TypeStep, SupervisorAssumption
<1>4. SupervisorFacts!SupervisorInv'
  BY <1>1, <1>2, SupervisorFacts!InvStep, SupervisorAssumption
<1>5. Supervisor!TypeOK'
  BY <1>3
     DEF SupervisorFacts!TypeOK, Supervisor!TypeOK, Supervisor!Executions,
         SupervisorFacts!Executions, Supervisor!SessionValues, SupervisorFacts!SessionValues,
         Supervisor!Completions, SupervisorFacts!Completions, Supervisor!Invocations,
         SupervisorFacts!Invocations
<1> QED BY <1>4, <1>5 DEF SupervisorOK

------------------------------------------------------------------------------
(* What the steps of the supervisor do to an execution.                       *)

\* The active execution is asked to stop once, by a supervisor that is stopping
\* from then on.
StopIsAsked == active # 0 => execs[active].stop = "none" \/ state = "stopping"

\* Of two records of an execution, the promises that are the same.
Same(x, y, promises) == \A f \in promises : y[f] = x[f]

\* A step that concerns one execution: either it leaves the invocation as it is,
\* or the invocation ends.
Concerns(e) ==
    /\ Len(execs') = Len(execs)
    /\ \A d \in 1..Len(execs) : d # e => execs'[d] = execs[d]
    /\ \/ UNCHANGED <<active, state>> /\ Same(execs[e], execs'[e], {"outcome"})
       \/ active' = 0 /\ execs'[e].outcome # "none"

LEMMA ExecutionTyped ==
    ASSUME Supervisor!TypeOK, NEW e \in 1..Len(execs)
    PROVE  execs[e] \in Supervisor!Executions
  BY DEF Supervisor!TypeOK

\* An execution is active until it has an outcome.
LEMMA ActiveIsOpen ==
    ASSUME SupervisorOK, NEW e \in 1..Len(execs)
    PROVE  /\ Supervisor!IsActive(e) <=> active = e
           /\ active = e <=> execs[e].outcome = "none"
  BY DEF SupervisorOK, SupervisorFacts!SupervisorInv, SupervisorFacts!StateMatchesActive,
         Supervisor!IsActive

LEMMA UpdateConcerns ==
    ASSUME SupervisorOK, NEW e \in 1..Len(execs), NEW x,
           execs' = [execs EXCEPT ![e] = x]
    PROVE  /\ Len(execs') = Len(execs) /\ execs'[e] = x
           /\ \A d \in 1..Len(execs) : d # e => execs'[d] = execs[d]
  BY DEF SupervisorOK, Supervisor!TypeOK

\* A failure ends the active invocation, and an execution that is not active has
\* ended before.
LEMMA FailConcerns ==
    ASSUME SupervisorOK, NEW e \in 1..Len(execs), NEW x \in Supervisor!Executions,
           x.outcome = execs[e].outcome, Supervisor!Fail(e, x)
    PROVE  /\ Concerns(e) /\ execs'[e].outcome # "none"
           /\ Same(x, execs'[e], {"session", "completion", "value", "stop"})
           /\ active' # e
<1>1. CASE active = e
  <2> DEFINE y == [x EXCEPT !.completionSettled = TRUE, !.outcome = "failure"]
  <2>1. execs' = [execs EXCEPT ![e] = y] /\ active' = 0
    BY <1>1, ActiveIsOpen DEF Supervisor!Fail
  <2>2. /\ y.outcome = "failure" /\ Same(x, y, {"session", "completion", "value", "stop"})
    BY DEF Supervisor!Executions, Same
  <2> HIDE DEF y
  <2> QED BY <2>1, <2>2, UpdateConcerns DEF Concerns
<1>2. CASE active # e
  <2>1. execs' = [execs EXCEPT ![e] = x] /\ UNCHANGED <<active, state>>
    BY <1>2, ActiveIsOpen DEF Supervisor!Fail
  <2> QED BY <1>2, <2>1, UpdateConcerns, ActiveIsOpen DEF Concerns, Same
<1> QED BY <1>1, <1>2

LEMMA SessionSettles ==
    ASSUME SupervisorOK, NEW e \in 1..Len(execs), NEW s \in Supervisor!SessionValues,
           Supervisor!SessionResolves(e, s)
    PROVE  /\ Concerns(e) /\ active' = active /\ execs'[e].session = s
           /\ Same(execs[e], execs'[e], {"completion", "value", "stop", "outcome"})
<1> DEFINE x == [execs[e] EXCEPT !.session = s]
<1>1. execs' = [execs EXCEPT ![e] = x] /\ UNCHANGED <<active, state>>
  BY DEF Supervisor!SessionResolves, SupervisorOK, Supervisor!TypeOK
<1>2. /\ x.session = s
      /\ Same(execs[e], x, {"completion", "value", "stop", "outcome"})
  BY ExecutionTyped DEF SupervisorOK, Supervisor!Executions, Same
<1> HIDE DEF x
<1> QED BY <1>1, <1>2, UpdateConcerns DEF Concerns, Same

LEMMA CompletionSettles ==
    ASSUME SupervisorOK, NEW e \in 1..Len(execs), NEW c,
           Supervisor!CompletionResolves(e, c)
    PROVE  /\ Concerns(e) /\ active' = active
           /\ execs'[e].completion = "fulfilled" /\ execs'[e].value = c
           /\ Same(execs[e], execs'[e], {"session", "stop", "outcome"})
<1> DEFINE x == [execs[e] EXCEPT !.completion = "fulfilled", !.value = c,
                                 !.completionSettled = TRUE]
<1>1. execs' = [execs EXCEPT ![e] = x] /\ UNCHANGED <<active, state>>
  BY DEF Supervisor!CompletionResolves
<1>2. /\ x.completion = "fulfilled" /\ x.value = c
      /\ Same(execs[e], x, {"session", "stop", "outcome"})
  BY ExecutionTyped DEF SupervisorOK, Supervisor!Executions, Same
<1> HIDE DEF x
<1> QED BY <1>1, <1>2, UpdateConcerns DEF Concerns, Same

LEMMA SessionIsRejected ==
    ASSUME SupervisorOK, NEW e \in 1..Len(execs), Supervisor!SessionRejects(e)
    PROVE  /\ Concerns(e) /\ active' # e
           /\ execs'[e].session = "rejected" /\ execs'[e].outcome # "none"
           /\ Same(execs[e], execs'[e], {"completion", "value", "stop"})
<1> DEFINE x == [execs[e] EXCEPT !.session = "rejected"]
<1>1. Supervisor!Fail(e, x)
  BY DEF Supervisor!SessionRejects
<1>2. /\ x \in Supervisor!Executions /\ x.session = "rejected" /\ x.outcome = execs[e].outcome
      /\ Same(execs[e], x, {"completion", "value", "stop"})
  BY ExecutionTyped DEF SupervisorOK, Supervisor!Executions, Same
<1> HIDE DEF x
<1> QED BY <1>1, <1>2, FailConcerns DEF Same

LEMMA CompletionIsRejected ==
    ASSUME SupervisorOK, NEW e \in 1..Len(execs), Supervisor!CompletionRejects(e)
    PROVE  /\ Concerns(e) /\ active' # e
           /\ execs'[e].completion = "rejected" /\ execs'[e].outcome # "none"
           /\ Same(execs[e], execs'[e], {"session", "stop"})
<1> DEFINE x == [execs[e] EXCEPT !.completion = "rejected", !.completionSettled = TRUE]
<1>1. Supervisor!Fail(e, x)
  BY DEF Supervisor!CompletionRejects
<1>2. /\ x \in Supervisor!Executions /\ x.completion = "rejected" /\ x.outcome = execs[e].outcome
      /\ Same(execs[e], x, {"session", "stop"})
  BY ExecutionTyped DEF SupervisorOK, Supervisor!Executions, Same
<1> HIDE DEF x
<1> QED BY <1>1, <1>2, FailConcerns DEF Same

LEMMA StopIsRejected ==
    ASSUME SupervisorOK, NEW e \in 1..Len(execs), Supervisor!StopRejects(e)
    PROVE  /\ Concerns(e) /\ active' # e
           /\ execs'[e].outcome # "none"
           /\ Same(execs[e], execs'[e], {"session", "completion", "value"})
<1> DEFINE x == [execs[e] EXCEPT !.stop = "rejected"]
<1>1. Supervisor!Fail(e, x)
  BY DEF Supervisor!StopRejects
<1>2. /\ x \in Supervisor!Executions /\ x.outcome = execs[e].outcome
      /\ Same(execs[e], x, {"session", "completion", "value"})
  BY ExecutionTyped DEF SupervisorOK, Supervisor!Executions, Same
<1> HIDE DEF x
<1> QED BY <1>1, <1>2, FailConcerns DEF Same

LEMMA InvocationFinishes ==
    ASSUME SupervisorOK, NEW e \in 1..Len(execs),
           IF Supervisor!IsActive(e) THEN Supervisor!Finish(e) ELSE UNCHANGED supervisor
    PROVE  /\ Concerns(e) /\ active' # e
           /\ execs'[e].outcome # "none"
           /\ Same(execs[e], execs'[e], {"session", "completion", "value", "stop"})
<1> DEFINE x == [execs[e] EXCEPT !.outcome = "result"]
<1>1. CASE active = e
  <2>1. execs' = [execs EXCEPT ![e] = x] /\ active' = 0
    BY <1>1, ActiveIsOpen DEF Supervisor!Finish, SupervisorOK, Supervisor!TypeOK
  <2>2. x.outcome = "result" /\ Same(execs[e], x, {"session", "completion", "value", "stop"})
    BY ExecutionTyped DEF SupervisorOK, Supervisor!Executions, Same
  <2> HIDE DEF x
  <2> QED BY <2>1, <2>2, UpdateConcerns DEF Concerns, Same
<1>2. CASE active # e
  BY <1>2, ActiveIsOpen DEF supervisor, Concerns, Same
<1> QED BY <1>1, <1>2

LEMMA StopIsRequested ==
    ASSUME SupervisorOK, StopIsAsked, NEW id, Supervisor!Stop(id)
    PROVE  /\ active \in 1..Len(execs) /\ active' = active /\ state' = "stopping"
           /\ Len(execs') = Len(execs)
           /\ \A d \in 1..Len(execs) : d # active => execs'[d] = execs[d]
           /\ execs[active].stop = "none" /\ execs'[active].stop = "requested"
           /\ Same(execs[active], execs'[active], {"session", "completion", "value", "outcome"})
<1> DEFINE x == [execs[active] EXCEPT !.stop = "requested"]
<1>1. active \in 1..Len(execs) /\ state # "stopping"
  BY DEF Supervisor!Stop, Supervisor!StopVerdict, SupervisorOK, Supervisor!TypeOK
<1>2. execs' = [execs EXCEPT ![active] = x] /\ active' = active /\ state' = "stopping"
  BY <1>1 DEF Supervisor!Stop, SupervisorOK, Supervisor!TypeOK
<1>3. /\ x.stop = "requested"
      /\ Same(execs[active], x, {"session", "completion", "value", "outcome"})
  BY <1>1, ExecutionTyped DEF SupervisorOK, Supervisor!Executions, Same
<1> HIDE DEF x
<1> QED BY <1>1, <1>2, <1>3, UpdateConcerns DEF StopIsAsked

LEMMA ExecutionStarts ==
    ASSUME SupervisorOK, NEW inv \in Supervisor!Invocations, Supervisor!Start(inv)
    PROVE  LET n == Len(execs) + 1
           IN  /\ Len(execs') = n /\ active' = n
               /\ \A d \in 1..Len(execs) : execs'[d] = execs[d]
               /\ execs'[n].session = "pending" /\ execs'[n].completion = "pending"
               /\ execs'[n].stop = "none" /\ execs'[n].outcome = "none"
<1> DEFINE x == Supervisor!NewExecution(inv)
<1>1. execs' = Append(execs, x) /\ active' = Len(execs) + 1
  BY DEF Supervisor!Start
<1>2. /\ x.session = "pending" /\ x.completion = "pending" /\ x.stop = "none"
      /\ x.outcome = "none"
  BY DEF Supervisor!NewExecution
<1> HIDE DEF x
<1> QED BY <1>1, <1>2 DEF SupervisorOK, Supervisor!TypeOK

------------------------------------------------------------------------------
(* The invariant of the adapter: how the child process of an execution, the   *)
(* reactions that wait, and what the supervisor has observed belong together. *)

Children ==
    [os: {"unborn", "running", "zombie", "noticed", "closed"},
     ended: {None, "exited", "signaled"}, output: Outputs, killed: BOOLEAN,
     settled: BOOLEAN, stopRequested: BOOLEAN, stdinError: BOOLEAN]

\* What a completion that is observed, or waits to be, says of the process.
TrueFact(e, c) ==
    /\ c \in Supervisor!Completions
    /\ child[e].os = "closed"
    /\ IF c.fact = "stopped" THEN child[e].killed
       ELSE /\ ~child[e].killed /\ ~child[e].stdinError
            /\ c.fact = child[e].ended /\ c.session = child[e].output

Unobserved(e) == execs[e].session = "pending" /\ execs[e].completion = "pending"
Observed(e) ==
    /\ execs[e].session # "pending" /\ execs[e].completion # "pending"
    /\ execs[e].outcome # "none"

\* The reactions to one observation, by how many of them have run.
NoneRan(e) ==
    /\ child[e].settled /\ Unobserved(e)
    /\ \/ \E s, fact : /\ tasks = Succeeds(e, s, fact)
                       /\ TrueFact(e, [session |-> s, fact |-> fact])
       \/ tasks \in {FailsCompletion(e), FailsSession(e)}
SessionRan(e) ==
    /\ child[e].settled /\ execs[e].session # "pending" /\ execs[e].completion = "pending"
    /\ \/ \E s, fact : /\ tasks = <<CompletionIs(e, s, fact), Finishes(e)>>
                       /\ TrueFact(e, [session |-> s, fact |-> fact])
       \/ tasks = <<CompletionFails(e)>>
CompletionRan(e) ==
    /\ child[e].settled /\ execs[e].session # "pending" /\ execs[e].completion = "fulfilled"
    /\ tasks = <<Finishes(e)>>

\* A signal that could not be delivered fails the stop, and with an error the
\* completion too.
Undelivered(e) ==
    /\ Unobserved(e) /\ execs[e].stop = "requested" /\ ~child[e].killed
    /\ \/ tasks = <<StopFails(e)>> /\ ~child[e].settled
       \/ tasks = Unkillable(e) /\ child[e].settled

TasksOf(e) == NoneRan(e) \/ SessionRan(e) \/ CompletionRan(e) \/ Undelivered(e)

Waits(e) == tasks # <<>> /\ Head(tasks).execution = e

ProcessInv(c) ==
    /\ c.stopRequested <=> c.killed
    /\ c.os \in {"unborn", "closed"} => c.settled
    /\ c.os \in {"zombie", "noticed", "closed"} => c.ended \in {"exited", "signaled"}

\* The process of an execution that is not observed can be observed, and no other.
ChildInv(e) ==
    /\ ProcessInv(child[e])
    /\ child[e].killed => execs[e].stop = "requested"
    /\ execs[e].completion = "fulfilled" => TrueFact(e, execs[e].value)
    /\ ~Waits(e) => IF child[e].settled THEN Observed(e) ELSE Unobserved(e)

ClaudeInv ==
    /\ child \in Seq(Children) /\ Len(child) = Len(execs)
    /\ tasks # <<>> => \E e \in 1..Len(execs) : TasksOf(e)
    /\ \A e \in 1..Len(execs) : ChildInv(e)

ClaudeOK == SupervisorOK /\ StopIsAsked /\ ClaudeInv

------------------------------------------------------------------------------
(* The queue. *)

LEMMA TaskFields ==
    ASSUME NEW e, NEW kind, NEW value
    PROVE  LET t == Task(e, kind, value)
           IN  t.execution = e /\ t.kind = kind /\ t.value = value
  BY DEF Task

LEMMA Queued1 == ASSUME NEW a PROVE <<a>> # <<>> /\ Head(<<a>>) = a /\ Tail(<<a>>) = <<>>
  OBVIOUS
LEMMA Queued2 ==
    ASSUME NEW a, NEW b PROVE <<a, b>> # <<>> /\ Head(<<a, b>>) = a /\ Tail(<<a, b>>) = <<b>>
  OBVIOUS
LEMMA Queued3 ==
    ASSUME NEW a, NEW b, NEW c
    PROVE  <<a, b, c>> # <<>> /\ Head(<<a, b, c>>) = a /\ Tail(<<a, b, c>>) = <<b, c>>
  OBVIOUS

\* The forms of the queue, and whose reactions they are.
QueueOf(q, e) ==
    \/ \E s, fact : q \in {Succeeds(e, s, fact), <<CompletionIs(e, s, fact), Finishes(e)>>}
    \/ q \in {FailsCompletion(e), FailsSession(e), Unkillable(e),
              <<CompletionFails(e)>>, <<Finishes(e)>>, <<StopFails(e)>>}

LEMMA QueueRuns == ASSUME NEW e, NEW q, QueueOf(q, e) PROVE q # <<>> /\ Head(q).execution = e
<1> DEFINE Runs(t) == q # <<>> /\ Head(q) = t
<1>1. CASE \E s, fact : q = Succeeds(e, s, fact)
  <2>1. PICK s : Runs(SessionIs(e, s))
    BY <1>1, Queued3 DEF Succeeds
  <2> QED BY <2>1, TaskFields DEF SessionIs
<1>2. CASE \E s, fact : q = <<CompletionIs(e, s, fact), Finishes(e)>>
  <2>1. PICK s, fact : Runs(CompletionIs(e, s, fact))
    BY <1>2, Queued2
  <2> QED BY <2>1, TaskFields DEF CompletionIs
<1>3. CASE q = FailsCompletion(e)
  <2>1. Runs(SessionIs(e, None))
    BY <1>3, Queued2 DEF FailsCompletion
  <2> QED BY <2>1, TaskFields DEF SessionIs
<1>4. CASE q = FailsSession(e)
  <2>1. Runs(SessionFails(e))
    BY <1>4, Queued2 DEF FailsSession
  <2> QED BY <2>1, TaskFields DEF SessionFails
<1>5. CASE q \in {Unkillable(e), <<StopFails(e)>>}
  <2>1. Runs(StopFails(e))
    BY <1>5, Queued1, Queued3 DEF Unkillable
  <2> QED BY <2>1, TaskFields DEF StopFails
<1>6. CASE q = <<CompletionFails(e)>>
  BY <1>6, Queued1, TaskFields DEF CompletionFails
<1>7. CASE q = <<Finishes(e)>>
  BY <1>7, Queued1, TaskFields DEF Finishes
<1> QED BY <1>1, <1>2, <1>3, <1>4, <1>5, <1>6, <1>7 DEF QueueOf

LEMMA TasksWait == ASSUME NEW e PROVE (TasksOf(e) => Waits(e)) /\ (TasksOf(e)' => Waits(e)')
<1>1. TasksOf(e) => QueueOf(tasks, e)
  BY DEF TasksOf, NoneRan, SessionRan, CompletionRan, Undelivered, QueueOf
<1>2. TasksOf(e)' => QueueOf(tasks', e)
  BY DEF TasksOf, NoneRan, SessionRan, CompletionRan, Undelivered, QueueOf
<1> QED BY <1>1, <1>2, QueueRuns DEF Waits

------------------------------------------------------------------------------
(* What a step leaves alone. *)

LEMMA NothingChanges ==
    ASSUME ClaudeInv, UNCHANGED <<execs, child, tasks>> PROVE ClaudeInv'
<1>1. ASSUME NEW e PROVE TrueFact(e, execs[e].value)' <=> TrueFact(e, execs[e].value)
  BY DEF TrueFact
<1>2. ASSUME NEW e, NEW c PROVE TrueFact(e, c)' <=> TrueFact(e, c)
  BY DEF TrueFact
<1>3. ASSUME NEW e, TasksOf(e) PROVE TasksOf(e)'
  <2>1. NoneRan(e) => NoneRan(e)'
    BY <1>2 DEF NoneRan, Unobserved
  <2>2. SessionRan(e) => SessionRan(e)'
    BY <1>2 DEF SessionRan
  <2>3. CompletionRan(e) => CompletionRan(e)'
    BY DEF CompletionRan
  <2>4. Undelivered(e) => Undelivered(e)'
    BY DEF Undelivered, Unobserved
  <2> QED BY <1>3, <2>1, <2>2, <2>3, <2>4 DEF TasksOf
<1>4. ASSUME NEW e, ChildInv(e) PROVE ChildInv(e)'
  BY <1>1, <1>4 DEF ChildInv, Waits, Observed, Unobserved
<1> QED BY <1>3, <1>4 DEF ClaudeInv

\* A step that changes the process, the queue and the execution of one execution.
LEMMA OneChanges ==
    ASSUME ClaudeInv, NEW e \in 1..Len(execs),
           child' \in Seq(Children), Len(child') = Len(child), Len(execs') = Len(execs),
           \A d \in 1..Len(execs) : d # e => execs'[d] = execs[d] /\ child'[d] = child[d],
           tasks = <<>> \/ Waits(e), tasks' = <<>> \/ TasksOf(e)', ChildInv(e)'
    PROVE  ClaudeInv'
<1>1. ASSUME NEW d \in 1..Len(execs), d # e PROVE ChildInv(d)'
  <2>1. execs'[d] = execs[d] /\ child'[d] = child[d]
    BY <1>1
  <2>2. ~Waits(d)
    BY <1>1 DEF Waits
  <2>3. ~Waits(d)'
    BY <1>1, TasksWait DEF Waits
  <2> QED
    BY <2>1, <2>2, <2>3, <1>1 DEF ClaudeInv, ChildInv, TrueFact, Observed, Unobserved
<1> QED BY <1>1 DEF ClaudeInv

\* An event of a process that changes no execution.
LEMMA ProcessChanges ==
    ASSUME ClaudeInv, Quiet, UNCHANGED <<supervisor, tasks>>, NEW e \in 1..Len(execs),
           child[e].os # "closed",
           NEW c \in Children, child' = [child EXCEPT ![e] = c], ProcessInv(c),
           c.killed = child[e].killed, c.settled = child[e].settled
    PROVE  ClaudeInv'
<1>1. /\ Len(child') = Len(child) /\ child' \in Seq(Children) /\ child'[e] = c
      /\ \A d \in 1..Len(execs) : d # e => child'[d] = child[d]
  BY DEF ClaudeInv
<1>2. execs' = execs /\ tasks = <<>> /\ tasks' = <<>>
  BY DEF supervisor, Quiet
<1>3. execs[e].completion # "fulfilled"
  BY DEF ClaudeInv, ChildInv, TrueFact
<1>4. ~Waits(e) /\ ~Waits(e)'
  BY <1>2 DEF Waits
<1>5. ChildInv(e)'
  BY <1>1, <1>2, <1>3, <1>4 DEF ClaudeInv, ChildInv, Observed, Unobserved
<1> QED BY <1>1, <1>2, <1>5, OneChanges

------------------------------------------------------------------------------
(* The reactions. *)

LEMMA StopStaysAsked ==
    ASSUME SupervisorOK, StopIsAsked, NEW e \in 1..Len(execs), Concerns(e),
           active' = e => execs'[e].stop = execs[e].stop
    PROVE  StopIsAsked'
<1>1. active \in 0..Len(execs)
  BY DEF SupervisorOK, Supervisor!TypeOK
<1> QED BY <1>1 DEF Concerns, StopIsAsked

\* What a queued reaction is.
LEMMA ReactsTo ==
    ASSUME NEW e
    PROVE  /\ \A s : Reacts(SessionIs(e, s)) = Supervisor!SessionResolves(e, s)
           /\ Reacts(SessionFails(e)) = Supervisor!SessionRejects(e)
           /\ \A s, fact : Reacts(CompletionIs(e, s, fact))
                = Supervisor!CompletionResolves(e, [session |-> s, fact |-> fact])
           /\ Reacts(CompletionFails(e)) = Supervisor!CompletionRejects(e)
           /\ Reacts(StopFails(e)) = Supervisor!StopRejects(e)
           /\ Reacts(Finishes(e)) =
                IF Supervisor!IsActive(e) THEN Supervisor!Finish(e) ELSE UNCHANGED supervisor
  BY TaskFields
     DEF Reacts, SessionIs, SessionFails, CompletionIs, CompletionFails, StopFails, Finishes

LEMMA SettlementIsStep ==
    ASSUME NEW e \in 1..Len(execs),
           \/ \E s \in Supervisor!SessionValues : Supervisor!SessionResolves(e, s)
           \/ \E c \in Supervisor!Completions : Supervisor!CompletionResolves(e, c)
           \/ Supervisor!SessionRejects(e) \/ Supervisor!CompletionRejects(e)
           \/ Supervisor!StopRejects(e) \/ Supervisor!Finish(e)
    PROVE  Supervisor!Next
  BY DEF Supervisor!Next, Supervisor!Settlement

\* A reaction of e that ends the queue, or leads to its next form.
Reacted(e) ==
    /\ Supervisor!Next \/ UNCHANGED supervisor
    /\ Concerns(e)
    /\ active' = e => execs'[e].stop = execs[e].stop
    /\ tasks' = <<>> \/ TasksOf(e)'
    /\ ChildInv(e)'

LEMMA SessionReaction ==
    ASSUME ClaudeOK, NEW e \in 1..Len(execs), NoneRan(e), React PROVE Reacted(e)
<1>0. /\ SupervisorOK /\ child[e].settled /\ Unobserved(e) /\ ChildInv(e)
      /\ child' = child /\ Reacts(Head(tasks)) /\ tasks' = Tail(tasks)
  BY DEF ClaudeOK, ClaudeInv, NoneRan, React
<1>1. CASE \E s, fact : tasks = Succeeds(e, s, fact) /\ TrueFact(e, [session |-> s, fact |-> fact])
  <2>1. PICK s, fact :
          /\ tasks = <<SessionIs(e, s), CompletionIs(e, s, fact), Finishes(e)>>
          /\ TrueFact(e, [session |-> s, fact |-> fact])
    BY <1>1 DEF Succeeds
  <2>2. Supervisor!SessionResolves(e, s) /\ tasks' = <<CompletionIs(e, s, fact), Finishes(e)>>
    BY <1>0, <2>1, Queued3, ReactsTo
  <2>3. s \in Supervisor!SessionValues /\ s # "pending"
    BY <2>1, SupervisorAssumption DEF TrueFact, Supervisor!Completions, Supervisor!SessionValues
  <2>4. /\ Concerns(e) /\ execs'[e].session = s
        /\ Same(execs[e], execs'[e], {"completion", "value", "stop", "outcome"})
    BY <1>0, <2>2, <2>3, SessionSettles
  <2>5. TrueFact(e, [session |-> s, fact |-> fact])'
    BY <1>0, <2>1 DEF TrueFact
  <2>6. SessionRan(e)'
    BY <1>0, <2>2, <2>3, <2>4, <2>5 DEF SessionRan, Same, Unobserved
  <2>7. ChildInv(e)'
    BY <1>0, <2>4, <2>6, TasksWait DEF ChildInv, TasksOf, Same, Unobserved
  <2> QED BY <2>2, <2>3, <2>4, <2>6, <2>7, SettlementIsStep DEF Reacted, TasksOf, Same
<1>2. CASE tasks \in {FailsCompletion(e), FailsSession(e)}
  <2>1. /\ Supervisor!SessionResolves(e, None) \/ Supervisor!SessionRejects(e)
        /\ tasks' = <<CompletionFails(e)>>
    <3>1. PICK t \in {SessionIs(e, None), SessionFails(e)} : tasks = <<t, CompletionFails(e)>>
      BY <1>2 DEF FailsCompletion, FailsSession
    <3>2. Reacts(t) /\ tasks' = <<CompletionFails(e)>>
      BY <1>0, <3>1, Queued2
    <3> QED BY <3>1, <3>2, ReactsTo
  <2>2. None \in Supervisor!SessionValues /\ None # "pending"
    BY SupervisorAssumption DEF Supervisor!SessionValues
  <2>3. /\ Concerns(e) /\ execs'[e].session # "pending"
        /\ Same(execs[e], execs'[e], {"completion", "value", "stop"})
    BY <1>0, <2>1, <2>2, SessionSettles, SessionIsRejected DEF Same
  <2>4. SessionRan(e)'
    BY <1>0, <2>1, <2>3 DEF SessionRan, Same, Unobserved
  <2>5. ChildInv(e)'
    BY <1>0, <2>3, <2>4, TasksWait DEF ChildInv, TasksOf, Same, Unobserved
  <2> QED BY <2>1, <2>2, <2>3, <2>4, <2>5, SettlementIsStep DEF Reacted, TasksOf, Same
<1> QED BY <1>1, <1>2 DEF NoneRan

LEMMA CompletionReaction ==
    ASSUME ClaudeOK, NEW e \in 1..Len(execs), SessionRan(e), React PROVE Reacted(e)
<1>0. /\ SupervisorOK /\ child[e].settled /\ ChildInv(e)
      /\ execs[e].session # "pending" /\ execs[e].completion = "pending"
      /\ child' = child /\ Reacts(Head(tasks)) /\ tasks' = Tail(tasks)
  BY DEF ClaudeOK, ClaudeInv, SessionRan, React
<1>1. CASE \E s, fact : /\ tasks = <<CompletionIs(e, s, fact), Finishes(e)>>
                        /\ TrueFact(e, [session |-> s, fact |-> fact])
  <2>1. PICK s, fact : /\ tasks = <<CompletionIs(e, s, fact), Finishes(e)>>
                       /\ TrueFact(e, [session |-> s, fact |-> fact])
    BY <1>1
  <2> DEFINE c == [session |-> s, fact |-> fact]
  <2>2. Supervisor!CompletionResolves(e, c) /\ tasks' = <<Finishes(e)>>
    BY <1>0, <2>1, Queued2, ReactsTo
  <2>3. c \in Supervisor!Completions
    BY <2>1 DEF TrueFact
  <2>4. TrueFact(e, c)'
    BY <1>0, <2>1 DEF TrueFact
  <2> HIDE DEF c
  <2>5. /\ Concerns(e) /\ execs'[e].completion = "fulfilled" /\ execs'[e].value = c
        /\ Same(execs[e], execs'[e], {"session", "stop", "outcome"})
    BY <1>0, <2>2, CompletionSettles
  <2>6. CompletionRan(e)'
    BY <1>0, <2>2, <2>5 DEF CompletionRan, Same
  <2>7. TrueFact(e, execs[e].value)'
    BY <2>4, <2>5 DEF TrueFact
  <2>8. ChildInv(e)'
    BY <1>0, <2>5, <2>6, <2>7, TasksWait DEF ChildInv, TasksOf, Same
  <2> QED BY <2>2, <2>3, <2>5, <2>6, <2>8, SettlementIsStep DEF Reacted, TasksOf, Same
<1>2. CASE tasks = <<CompletionFails(e)>>
  <2>1. Supervisor!CompletionRejects(e) /\ tasks' = <<>>
    BY <1>0, <1>2, Queued1, ReactsTo
  <2>2. /\ Concerns(e) /\ execs'[e].completion = "rejected" /\ execs'[e].outcome # "none"
        /\ Same(execs[e], execs'[e], {"session", "stop"})
    BY <1>0, <2>1, CompletionIsRejected
  <2>3. Observed(e)'
    BY <1>0, <2>2 DEF Observed, Same
  <2>4. ChildInv(e)'
    BY <1>0, <2>2, <2>3 DEF ChildInv, Same
  <2> QED BY <2>1, <2>2, <2>4, SettlementIsStep DEF Reacted, Same
<1> QED BY <1>1, <1>2 DEF SessionRan

LEMMA FinishReaction ==
    ASSUME ClaudeOK, NEW e \in 1..Len(execs), CompletionRan(e), React PROVE Reacted(e)
<1>0. /\ SupervisorOK /\ child[e].settled /\ ChildInv(e)
      /\ execs[e].session # "pending" /\ execs[e].completion = "fulfilled"
      /\ tasks = <<Finishes(e)>>
      /\ child' = child /\ Reacts(Head(tasks)) /\ tasks' = Tail(tasks)
  BY DEF ClaudeOK, ClaudeInv, CompletionRan, React
<1>1. /\ IF Supervisor!IsActive(e) THEN Supervisor!Finish(e) ELSE UNCHANGED supervisor
      /\ tasks' = <<>>
  BY <1>0, Queued1, ReactsTo
<1>2. /\ Concerns(e) /\ execs'[e].outcome # "none"
      /\ Same(execs[e], execs'[e], {"session", "completion", "value", "stop"})
  BY <1>0, <1>1, InvocationFinishes
<1>3. Observed(e)'
  BY <1>0, <1>2 DEF Observed, Same
<1>4. TrueFact(e, execs[e].value)'
  BY <1>0, <1>2 DEF ChildInv, TrueFact, Same
<1>5. ChildInv(e)'
  BY <1>0, <1>2, <1>3, <1>4 DEF ChildInv, Same
<1>6. Supervisor!Next \/ UNCHANGED supervisor
  BY <1>1, SettlementIsStep
<1> QED BY <1>1, <1>2, <1>5, <1>6 DEF Reacted, Same

LEMMA StopReaction ==
    ASSUME ClaudeOK, NEW e \in 1..Len(execs), Undelivered(e), React PROVE Reacted(e)
<1>0. /\ SupervisorOK /\ ChildInv(e) /\ Unobserved(e) /\ ~child[e].killed
      /\ child' = child /\ Reacts(Head(tasks)) /\ tasks' = Tail(tasks)
  BY DEF ClaudeOK, ClaudeInv, Undelivered, React
<1>1. /\ Supervisor!StopRejects(e)
      /\ \/ tasks' = <<>> /\ ~child[e].settled
         \/ tasks' = FailsCompletion(e) /\ child[e].settled
  <2>1. CASE tasks = <<StopFails(e)>> /\ ~child[e].settled
    BY <1>0, <2>1, Queued1, ReactsTo
  <2>2. CASE tasks = Unkillable(e) /\ child[e].settled
    <3>1. tasks = <<StopFails(e), SessionIs(e, None), CompletionFails(e)>>
      BY <2>2 DEF Unkillable
    <3>2. Reacts(StopFails(e)) /\ tasks' = FailsCompletion(e)
      BY <1>0, <3>1, Queued3 DEF FailsCompletion
    <3> QED BY <2>2, <3>2, ReactsTo
  <2> QED BY <2>1, <2>2 DEF Undelivered
<1>2. /\ Concerns(e) /\ active' # e /\ execs'[e].outcome # "none"
      /\ Same(execs[e], execs'[e], {"session", "completion", "value"})
  BY <1>0, <1>1, StopIsRejected
<1>3. Unobserved(e)'
  BY <1>0, <1>2 DEF Unobserved, Same
<1>4. tasks' = FailsCompletion(e) /\ child[e].settled => NoneRan(e)'
  BY <1>0, <1>3 DEF NoneRan
<1>5. ~child'[e].settled \/ Waits(e)'
  BY <1>0, <1>1, <1>4, TasksWait DEF TasksOf
<1>6. ChildInv(e)'
  BY <1>0, <1>2, <1>3, <1>5 DEF ChildInv, Same, Unobserved
<1> QED BY <1>1, <1>2, <1>4, <1>6, SettlementIsStep DEF Reacted, TasksOf

LEMMA ReactStep ==
    ASSUME ClaudeOK, React
    PROVE  (Supervisor!Next \/ UNCHANGED supervisor) /\ StopIsAsked' /\ ClaudeInv'
<1>1. PICK e \in 1..Len(execs) : TasksOf(e)
  BY DEF ClaudeOK, ClaudeInv, React
<1>2. Reacted(e)
  BY <1>1, SessionReaction, CompletionReaction, FinishReaction, StopReaction DEF TasksOf
<1>3. Waits(e)
  BY <1>1, TasksWait
<1>4. /\ child' = child /\ child' \in Seq(Children)
      /\ \A d \in 1..Len(execs) : d # e => execs'[d] = execs[d]
  BY <1>2 DEF React, Reacted, Concerns, ClaudeOK, ClaudeInv
<1>5. ClaudeInv'
  BY <1>2, <1>3, <1>4, OneChanges DEF ClaudeOK, Reacted, Concerns
<1> QED BY <1>2, <1>5, StopStaysAsked DEF Reacted, ClaudeOK

------------------------------------------------------------------------------
(* The calls of the supervisor. *)

LEMMA InitializationStep ==
    ASSUME ClaudeOK, Initialization PROVE Supervisor!Next /\ StopIsAsked' /\ ClaudeInv'
<1>1. UNCHANGED <<active, execs, child, tasks>> /\ (state' = state \/ initialization # None)
  BY DEF Initialization, Supervisor!Initialize, Supervisor!InitializationFails,
         Supervisor!InitializationSucceeds
<1>2. initialization # None => active = 0
  BY DEF ClaudeOK, SupervisorOK, SupervisorFacts!SupervisorInv,
         SupervisorFacts!StateMatchesActive
<1>3. StopIsAsked'
  BY <1>1, <1>2 DEF ClaudeOK, StopIsAsked
<1>4. ClaudeInv'
  BY <1>1, NothingChanges DEF ClaudeOK
<1>5. Supervisor!Next
  BY DEF Initialization, Supervisor!Next, Supervisor!Call
<1> QED BY <1>3, <1>4, <1>5

LEMMA StartStep ==
    ASSUME ClaudeOK, NEW inv \in Supervisor!Invocations, Start(inv)
    PROVE  Supervisor!Next /\ StopIsAsked' /\ ClaudeInv'
<1>0. PICK n \in Nat : n = Len(execs) + 1
  BY DEF ClaudeOK, SupervisorOK, Supervisor!TypeOK
<1>1. /\ Len(execs') = n /\ active' = n
      /\ \A d \in 1..Len(execs) : execs'[d] = execs[d]
      /\ execs'[n].completion = "pending" /\ execs'[n].stop = "none" /\ Unobserved(n)'
  BY <1>0, ExecutionStarts DEF Start, ClaudeOK, Unobserved
<1>2. PICK c \in {NewChild("running"), [NewChild("unborn") EXCEPT !.settled = TRUE]} :
        /\ child' = Append(child, c)
        /\ tasks' = IF c.settled THEN FailsCompletion(n) ELSE <<>>
  BY <1>0 DEF Start, Quiet, NewChild
<1>3. c \in Children /\ ProcessInv(c) /\ ~c.killed
  <2>1. CASE c = NewChild("running")
    BY <2>1 DEF NewChild, Children, Outputs, ProcessInv
  <2>2. CASE c = [NewChild("unborn") EXCEPT !.settled = TRUE]
    BY <2>2 DEF NewChild, Children, Outputs, ProcessInv
  <2> QED BY <2>1, <2>2
<1>4. /\ child' \in Seq(Children) /\ Len(child') = n /\ child'[n] = c
      /\ \A d \in 1..Len(execs) : child'[d] = child[d]
  BY <1>0, <1>2, <1>3 DEF ClaudeOK, ClaudeInv
<1>5. n \in 1..Len(execs') /\ \A d \in 1..Len(execs') : d = n \/ d \in 1..Len(execs)
  BY <1>0, <1>1 DEF ClaudeOK, SupervisorOK, Supervisor!TypeOK
<1>6. tasks' # <<>> => NoneRan(n)'
  BY <1>1, <1>2, <1>4 DEF NoneRan
<1>7. c.settled => NoneRan(n)'
  BY <1>1, <1>2, <1>4 DEF NoneRan
<1>8. (tasks' # <<>> => Waits(n)') /\ (c.settled => Waits(n)')
  BY <1>6, <1>7, TasksWait DEF TasksOf
<1>9. ChildInv(n)'
  BY <1>1, <1>3, <1>4, <1>8 DEF ChildInv
<1>10. ASSUME NEW d \in 1..Len(execs) PROVE ChildInv(d)'
  <2>1. execs'[d] = execs[d] /\ child'[d] = child[d] /\ d # n
    BY <1>0, <1>1, <1>4
  <2>2. ~Waits(d) /\ ~Waits(d)'
    BY <1>8, <2>1 DEF Waits, Start, Quiet
  <2> QED BY <2>1, <2>2 DEF ClaudeOK, ClaudeInv, ChildInv, TrueFact, Observed, Unobserved
<1>11. ClaudeInv'
  BY <1>1, <1>4, <1>5, <1>6, <1>9, <1>10 DEF ClaudeInv, TasksOf
<1>12. StopIsAsked'
  BY <1>1 DEF StopIsAsked
<1>13. Supervisor!Next
  BY DEF Start, Supervisor!Next, Supervisor!Call
<1> QED BY <1>11, <1>12, <1>13

LEMMA StopStep ==
    ASSUME ClaudeOK, NEW id \in InvocationIds, Stop(id)
    PROVE  Supervisor!Next /\ StopIsAsked' /\ ClaudeInv'
<1>1. PICK e \in 1..Len(execs) :
      /\ active = e /\ state' = "stopping" /\ Len(execs') = Len(execs)
      /\ \A d \in 1..Len(execs) : d # e => execs'[d] = execs[d]
      /\ execs[e].stop = "none" /\ execs'[e].stop = "requested"
      /\ Same(execs[e], execs'[e], {"session", "completion", "value", "outcome"})
  BY StopIsRequested DEF Stop, ClaudeOK
<1> DEFINE c == child[e]
<1>2. /\ c \in Children /\ Len(child) = Len(execs) /\ ChildInv(e)
      /\ tasks = <<>> /\ ~c.settled /\ Killed(e, c)
  BY <1>1 DEF ClaudeOK, ClaudeInv, Stop, Quiet
<1>3. ~c.killed /\ ProcessInv(c) /\ Unobserved(e) /\ ~Waits(e) /\ Unobserved(e)'
  BY <1>1, <1>2 DEF ChildInv, Waits, Unobserved, Same
<1>4. PICK x \in Children :
        /\ child' = [child EXCEPT ![e] = x]
        /\ ProcessInv(x)
        /\ \/ ~x.settled /\ tasks' = <<>>
           \/ ~x.settled /\ ~x.killed /\ tasks' = <<StopFails(e)>>
           \/ x.settled /\ ~x.killed /\ tasks' = Unkillable(e)
  <2>1. CASE /\ c.os \in {"running", "zombie"} /\ UNCHANGED tasks
             /\ child' = [child EXCEPT ![e].stopRequested = TRUE, ![e].killed = TRUE]
    <3> DEFINE x == [c EXCEPT !.stopRequested = TRUE, !.killed = TRUE]
    <3>1. x \in Children /\ ProcessInv(x) /\ ~x.settled
      BY <1>2, <1>3 DEF Children, ProcessInv
    <3>2. child' = [child EXCEPT ![e] = x]
      BY <1>1, <1>2, <2>1 DEF ClaudeOK, ClaudeInv
    <3> QED BY <1>2, <2>1, <3>1, <3>2
  <2>2. CASE c.os = "noticed" /\ tasks' = <<StopFails(e)>> /\ UNCHANGED child
    <3>1. child' = [child EXCEPT ![e] = c]
      BY <1>1, <2>2 DEF ClaudeOK, ClaudeInv
    <3> QED BY <1>2, <1>3, <2>2, <3>1
  <2>3. CASE /\ c.os \in {"running", "zombie"} /\ tasks' = Unkillable(e)
             /\ child' = [child EXCEPT ![e].settled = TRUE]
    <3> DEFINE x == [c EXCEPT !.settled = TRUE]
    <3>1. x \in Children /\ ProcessInv(x) /\ x.settled /\ ~x.killed
      BY <1>2, <1>3, <2>3 DEF Children, ProcessInv
    <3>2. child' = [child EXCEPT ![e] = x]
      BY <1>1, <1>2, <2>3 DEF ClaudeOK, ClaudeInv
    <3> QED BY <2>3, <3>1, <3>2
  <2> QED BY <1>2, <2>1, <2>2, <2>3 DEF Killed
<1>5. /\ child' \in Seq(Children) /\ Len(child') = Len(child) /\ child'[e] = x
      /\ \A d \in 1..Len(execs) : d # e => child'[d] = child[d]
  BY <1>1, <1>2, <1>4 DEF ClaudeOK, ClaudeInv
<1>6. tasks' = <<>> \/ Undelivered(e)'
  BY <1>1, <1>3, <1>4, <1>5 DEF Undelivered
<1>7. ASSUME x.settled PROVE Waits(e)'
  <2>1. tasks' = Unkillable(e) /\ Unkillable(e) # <<>>
    BY <1>4, <1>7, Queued3 DEF Unkillable
  <2> QED BY <1>6, <2>1, TasksWait DEF TasksOf
<1>8. ChildInv(e)'
  BY <1>1, <1>3, <1>4, <1>5, <1>7 DEF ChildInv, Unobserved
<1>9. ClaudeInv'
  BY <1>1, <1>2, <1>5, <1>6, <1>8, OneChanges DEF ClaudeOK, TasksOf
<1>10. StopIsAsked'
  BY <1>1 DEF StopIsAsked
<1>11. Supervisor!Next
  BY DEF Stop, Supervisor!Next, Supervisor!Call
<1> QED BY <1>9, <1>10, <1>11

------------------------------------------------------------------------------
(* The events of a child. *)

LEMMA ProcessStep ==
    ASSUME ClaudeOK, NEW e \in 1..Len(child), Ends(e) \/ StdinFails(e) \/ Exit(e)
    PROVE  ClaudeInv'
<1>1. /\ ClaudeInv /\ Quiet /\ e \in 1..Len(execs) /\ child[e] \in Children /\ ProcessInv(child[e])
      /\ UNCHANGED <<supervisor, tasks>> /\ child[e].os # "closed"
  BY DEF ClaudeOK, ClaudeInv, ChildInv, Ends, StdinFails, Exit
<1> DEFINE Changed(c) == /\ child' = [child EXCEPT ![e] = c] /\ c \in Children /\ ProcessInv(c)
                         /\ c.killed = child[e].killed /\ c.settled = child[e].settled
<1>2. CASE Ends(e)
  <2>1. PICK ended \in {"exited", "signaled"}, output \in Outputs :
          child' = [child EXCEPT ![e].os = "zombie", ![e].ended = ended, ![e].output = output]
    BY <1>2 DEF Ends
  <2> DEFINE c == [child[e] EXCEPT !.os = "zombie", !.ended = ended, !.output = output]
  <2>2. child' = [child EXCEPT ![e] = c]
    BY <1>1, <2>1 DEF ClaudeInv
  <2>3. /\ c \in Children /\ ProcessInv(c)
        /\ c.killed = child[e].killed /\ c.settled = child[e].settled
    BY <1>1, <1>2 DEF Children, ProcessInv, Ends
  <2> QED BY <1>1, <2>2, <2>3, ProcessChanges
<1>3. CASE StdinFails(e)
  <2> DEFINE c == [child[e] EXCEPT !.stdinError = TRUE]
  <2>2. child' = [child EXCEPT ![e] = c]
    BY <1>1, <1>3 DEF ClaudeInv, StdinFails
  <2>3. /\ c \in Children /\ ProcessInv(c)
        /\ c.killed = child[e].killed /\ c.settled = child[e].settled
    BY <1>1 DEF Children, ProcessInv
  <2> QED BY <1>1, <2>2, <2>3, ProcessChanges
<1>4. CASE Exit(e)
  <2> DEFINE c == [child[e] EXCEPT !.os = "noticed"]
  <2>2. child' = [child EXCEPT ![e] = c]
    BY <1>1, <1>4 DEF ClaudeInv, Exit
  <2>3. /\ c \in Children /\ ProcessInv(c)
        /\ c.killed = child[e].killed /\ c.settled = child[e].settled
    BY <1>1, <1>4 DEF Children, ProcessInv, Exit
  <2> QED BY <1>1, <2>2, <2>3, ProcessChanges
<1> QED BY <1>2, <1>3, <1>4

LEMMA CloseStep ==
    ASSUME ClaudeOK, NEW e \in 1..Len(child), Closes(e) PROVE ClaudeInv'
<1> DEFINE c == child[e]
           x == [c EXCEPT !.os = "closed", !.settled = TRUE]
<1>1. /\ ClaudeInv /\ e \in 1..Len(execs) /\ c \in Children /\ ChildInv(e) /\ c.os = "noticed"
      /\ tasks = <<>> /\ execs' = execs
  BY DEF ClaudeOK, ClaudeInv, Closes, Quiet, supervisor
<1>2. x \in Children /\ ProcessInv(x) /\ x.os = "closed" /\ x.settled
      /\ x.killed = c.killed /\ x.stdinError = c.stdinError /\ x.ended = c.ended
      /\ x.output = c.output
  BY <1>1 DEF Children, ChildInv, ProcessInv
<1>3. child' = [child EXCEPT ![e] = x]
  BY <1>1 DEF Closes, ClaudeInv
<1> HIDE DEF x
<1>4. /\ child' \in Seq(Children) /\ Len(child') = Len(child) /\ child'[e] = x
      /\ \A d \in 1..Len(execs) : d # e => child'[d] = child[d]
  BY <1>1, <1>2, <1>3 DEF ClaudeInv
<1>5. execs[e].completion # "fulfilled" /\ ~Waits(e)
  BY <1>1 DEF ChildInv, TrueFact, Waits
<1>6. CASE c.settled
  <2>1. tasks' = <<>> /\ Observed(e)'
    BY <1>1, <1>5, <1>6 DEF Closes, ChildInv, Observed
  <2>2. ChildInv(e)'
    BY <1>1, <1>2, <1>4, <1>5, <2>1 DEF ChildInv
  <2> QED BY <1>1, <1>4, <2>1, <2>2, OneChanges
<1>7. CASE ~c.settled
  <2>1. tasks' = Observation(e, c) /\ Unobserved(e)'
    BY <1>1, <1>5, <1>7 DEF Closes, ChildInv, Unobserved
  <2>2. NoneRan(e)'
    <3>1. CASE c.stopRequested
      <4>1. tasks' = Succeeds(e, None, "stopped")
        BY <2>1, <3>1 DEF Observation
      <4>2. TrueFact(e, [session |-> None, fact |-> "stopped"])'
        BY <1>1, <1>2, <1>4, <3>1
           DEF TrueFact, ChildInv, ProcessInv, Supervisor!Completions, Supervisor!SessionValues,
               Facts
      <4> QED BY <1>2, <1>4, <2>1, <4>1, <4>2 DEF NoneRan
    <3>2. CASE ~c.stopRequested /\ ~c.stdinError /\ c.output \in Sessions
      <4>1. tasks' = Succeeds(e, c.output, c.ended)
        BY <2>1, <3>2 DEF Observation
      <4>2. TrueFact(e, [session |-> c.output, fact |-> c.ended])'
        BY <1>1, <1>2, <1>4, <3>2
           DEF TrueFact, ChildInv, ProcessInv, Supervisor!Completions, Supervisor!SessionValues,
               Facts
      <4> QED BY <1>2, <1>4, <2>1, <4>1, <4>2 DEF NoneRan
    <3>3. CASE ~c.stopRequested /\ (c.stdinError \/ c.output \notin Sessions)
      <4>1. tasks' \in {FailsCompletion(e), FailsSession(e)}
        BY <2>1, <3>3 DEF Observation
      <4> QED BY <1>2, <1>4, <2>1, <4>1 DEF NoneRan
    <3> QED BY <3>1, <3>2, <3>3
  <2>3. ChildInv(e)'
    BY <1>1, <1>2, <1>4, <1>5, <2>2, TasksWait DEF ChildInv, TasksOf
  <2> QED BY <1>1, <1>4, <2>2, <2>3, OneChanges DEF TasksOf
<1> QED BY <1>6, <1>7

------------------------------------------------------------------------------

LEMMA ClaudeStep ==
    ClaudeOK /\ [Next]_vars => ClaudeOK' /\ (Supervisor!Next \/ UNCHANGED supervisor)
<1> SUFFICES ASSUME ClaudeOK, [Next]_vars
             PROVE  ClaudeOK' /\ (Supervisor!Next \/ UNCHANGED supervisor)
  OBVIOUS
<1>1. (Supervisor!Next \/ UNCHANGED supervisor) /\ StopIsAsked' /\ ClaudeInv'
  <2>1. CASE Initialization
    BY <2>1, InitializationStep
  <2>2. CASE \E inv \in Supervisor!Invocations : Start(inv)
    BY <2>2, StartStep
  <2>3. CASE \E id \in InvocationIds : Stop(id)
    BY <2>3, StopStep
  <2>4. CASE \E e \in 1..Len(child) : ChildStep(e)
    <3>1. UNCHANGED supervisor /\ ClaudeInv'
      BY <2>4, ProcessStep, CloseStep DEF ChildStep, Ends, StdinFails, Exit, Closes
    <3> QED BY <3>1 DEF ClaudeOK, StopIsAsked, supervisor
  <2>5. CASE React
    BY <2>5, ReactStep
  <2>6. CASE UNCHANGED vars
    <3>1. UNCHANGED <<active, state, execs, child, tasks>> /\ UNCHANGED supervisor
      BY <2>6 DEF vars, supervisor
    <3>2. StopIsAsked'
      BY <3>1 DEF ClaudeOK, StopIsAsked
    <3>3. ClaudeInv'
      BY <3>1, NothingChanges DEF ClaudeOK
    <3> QED BY <3>1, <3>2, <3>3
  <2> QED BY <2>1, <2>2, <2>3, <2>4, <2>5, <2>6 DEF Next
<1> QED BY <1>1, SupervisorKept DEF ClaudeOK

LEMMA ClaudeStarts == Init => ClaudeOK
<1> SUFFICES ASSUME Init PROVE ClaudeOK
  OBVIOUS
<1>1. SupervisorOK
  BY DEF Init, SupervisorOK, Supervisor!Init, Supervisor!TypeOK, Supervisor!SessionValues,
         SupervisorFacts!SupervisorInv, SupervisorFacts!StateMatchesActive,
         SupervisorFacts!OutcomesObserved, SupervisorFacts!OnlyLastIsOpen
<1>2. StopIsAsked /\ ClaudeInv
  BY DEF Init, Supervisor!Init, StopIsAsked, ClaudeInv
<1> QED BY <1>1, <1>2 DEF ClaudeOK

LEMMA ClaudeInvariant == Spec => []ClaudeOK
  BY ClaudeStarts, ClaudeStep, PTL DEF Spec

------------------------------------------------------------------------------
(* The theorems about the Claude Code adapter. *)

\* A result was observed of a closed process.
LEMMA ResultIsTrue ==
    ASSUME ClaudeOK, NEW e \in 1..Len(execs), execs[e].outcome = "result"
    PROVE  TrueFact(e, execs[e].value) /\ ChildInv(e)
<1>1. execs[e].completion = "fulfilled"
  BY DEF ClaudeOK, SupervisorOK, SupervisorFacts!SupervisorInv, SupervisorFacts!OutcomesObserved,
         SupervisorFacts!OutcomeObserved
<1> QED BY <1>1 DEF ClaudeOK, ClaudeInv, ChildInv

\* Whatever is killed, refused or lost, no second backend process is ever started
\* beside one that may still run: an invocation whose process was not observed to
\* close quarantines the supervisor (NodeProcessExecution, BackendSupervisor.fail).
THEOREM OneProcess == Spec => []OneBackendProcess
<1>1. ClaudeOK => OneBackendProcess
  <2> SUFFICES ASSUME ClaudeOK PROVE OneBackendProcess
    OBVIOUS
  <2>1. DOMAIN child = 1..Len(execs)
    BY DEF ClaudeOK, ClaudeInv
  <2>2. ASSUME NEW e \in 1..Len(execs), e # Len(execs) PROVE child[e].os = "closed"
    <3>1. execs[e].outcome = "result"
      BY <2>2 DEF ClaudeOK, SupervisorOK, SupervisorFacts!SupervisorInv,
                  SupervisorFacts!OnlyLastIsOpen
    <3> QED BY <3>1, ResultIsTrue DEF TrueFact
  <2>3. ASSUME state \in {"uninitialized", "ready"}, NEW e \in 1..Len(execs)
        PROVE  child[e].os = "closed"
    <3>1. active = 0 /\ state # "faulted"
      BY <2>3 DEF ClaudeOK, SupervisorOK, SupervisorFacts!SupervisorInv,
                  SupervisorFacts!StateMatchesActive
    <3>2. execs[e].outcome \notin {"none", "failure"}
      BY <3>1 DEF ClaudeOK, SupervisorOK, SupervisorFacts!SupervisorInv,
                  SupervisorFacts!StateMatchesActive
    <3>3. execs[e].outcome = "result"
      BY <3>2, ExecutionTyped DEF ClaudeOK, SupervisorOK, Supervisor!Executions
    <3> QED BY <3>3, ResultIsTrue DEF TrueFact
  <2> QED BY <2>1, <2>2, <2>3 DEF OneBackendProcess
<1> QED BY <1>1, ClaudeInvariant, PTL

\* What the host is told of an invocation is what happened to its process: it is
\* closed, and "stopped" means that an accepted stop found it, anything else that
\* it ended so unsignalled and printed that session (NodeProcessExecution.finish,
\* ClaudeCodeExecution, mapCompletion).
THEOREM FactsTruthful == Spec => []ProcessFactsTruthful
<1>1. ClaudeOK => ProcessFactsTruthful
  <2> SUFFICES ASSUME ClaudeOK, NEW e \in DOMAIN child, execs[e].outcome = "result"
               PROVE  /\ child[e].os = "closed"
                      /\ IF execs[e].value.fact = "stopped"
                         THEN child[e].killed /\ execs[e].stop = "requested"
                         ELSE /\ ~child[e].killed
                              /\ execs[e].value.fact = child[e].ended
                              /\ execs[e].value.session = child[e].output
                              /\ ~child[e].stdinError
    BY DEF ProcessFactsTruthful
  <2>1. e \in 1..Len(execs)
    BY DEF ClaudeOK, ClaudeInv
  <2> QED BY <2>1, ResultIsTrue DEF TrueFact, ChildInv
<1> QED BY <1>1, ClaudeInvariant, PTL

\* The adapter keeps to its port: its steps are steps of the supervisor over any
\* adapter, whose session, completion and stop settle at most once (adapter.ts).
THEOREM PortKept == Spec => Supervisor!Spec
<1>1. Init => Supervisor!Init
  BY DEF Init
<1>2. ClaudeOK /\ [Next]_vars => [Supervisor!Next]_(Supervisor!vars)
  BY ClaudeStep DEF supervisor, Supervisor!vars
<1> QED BY <1>1, <1>2, ClaudeInvariant, PTL DEF Spec, Supervisor!Spec

\* A stop that the supervisor requests is the first of a process that is not
\* settled: the early returns of NodeProcessExecution.stop, for a second stop and
\* for a settled process, are never taken (BackendSupervisor.stop).
StopMeetsProcess ==
    Quiet => \A id \in InvocationIds :
        Supervisor!StopVerdict(id) = "request" =>
            /\ execs[active].stop = "none"
            /\ child[active].os \in {"running", "zombie", "noticed"}
            /\ ~child[active].settled /\ ~child[active].killed

\* No stop is lost in an early return of NodeProcessExecution.stop.
THEOREM StopsMeetProcesses == Spec => []StopMeetsProcess
<1>1. ClaudeOK => StopMeetsProcess
  <2> SUFFICES ASSUME ClaudeOK, Quiet, NEW id \in InvocationIds,
                      Supervisor!StopVerdict(id) = "request"
               PROVE  /\ execs[active].stop = "none"
                      /\ child[active].os \in {"running", "zombie", "noticed"}
                      /\ ~child[active].settled /\ ~child[active].killed
    BY DEF StopMeetsProcess
  <2>1. /\ active \in 1..Len(execs) /\ state # "stopping"
        /\ execs[active].outcome = "none" /\ execs[active].stop = "none"
    BY DEF ClaudeOK, SupervisorOK, Supervisor!TypeOK, StopIsAsked, Supervisor!StopVerdict,
           SupervisorFacts!SupervisorInv, SupervisorFacts!StateMatchesActive
  <2>2. ChildInv(active) /\ child[active] \in Children /\ ~Waits(active)
    BY <2>1 DEF ClaudeOK, ClaudeInv, Quiet, Waits
  <2> QED BY <2>1, <2>2 DEF ChildInv, ProcessInv, Observed, Children
<1> QED BY <1>1, ClaudeInvariant, PTL

\* So an invocation on Claude Code begins once and ends once, with a result or a
\* failure that quarantines the host, as InvocationLifecycle promises.
THEOREM ClaudeLifecycle == Spec => SupervisorFacts!ImplementsLifecycle
<1>1. Supervisor!Init => SupervisorFacts!Init
  BY DEF Supervisor!Init, SupervisorFacts!Init
<1>2. [Supervisor!Next]_(Supervisor!vars) => [SupervisorFacts!Next]_(SupervisorFacts!vars)
  BY SameSteps DEF supervisor, Supervisor!vars
<1>3. SupervisorFacts!Spec => SupervisorFacts!ImplementsLifecycle
  BY SupervisorFacts!LifecycleImplemented, SupervisorAssumption
<1> QED BY <1>1, <1>2, <1>3, PortKept, PTL DEF Supervisor!Spec, SupervisorFacts!Spec

------------------------------------------------------------------------------
(* The WebSocket adapter: its invariant. *)

\* Nothing was done to the raw socket while its verification has not settled;
\* then it is ended, once, unless its peer had gone before.
RequestInv(r) ==
    /\ r.ends \in {0, 1}
    /\ r.verification # "settled" => /\ r.socket \in {"open", "gone"}
                                     /\ r.ends = 0 /\ r.response = "none"
    /\ r.verification = "settled" => r.socket # "open"
    /\ r.socket = "gone" => r.response = "none"

\* Whatever ends the WebSocket of a session also fails its connection.
SessionInv(s) ==
    /\ s.connection = "open" => ~s.adapterTerminal /\ ~s.coreTerminal /\ ~s.closed
    /\ s.readyState = "OPEN" => s.connection = "open"

AdapterInv ==
    /\ request \in [Upgrades -> Requests]
    /\ session \in [Upgrades -> SessionRecords]
    /\ \A u \in Upgrades :
         /\ RequestInv(request[u])
         /\ SessionInv(session[u])
         /\ HasSession(u) <=> request[u].response = "upgrade"
         /\ session[u].connection = "open" => u \in activeSessions

------------------------------------------------------------------------------
(* What the operators on a request and on a session do. *)

\* A record of a request, given its fields.
Request(socket, verification, verifier, timer, ends, response) ==
    [socket |-> socket, verification |-> verification, verifier |-> verifier,
     timer |-> timer, ends |-> ends, response |-> response]

\* What a request looks like until its verification settles.
LEMMA Unsettled ==
    ASSUME NEW r \in Requests, RequestInv(r), r.verification # "settled"
    PROVE  /\ r = Request(r.socket, r.verification, r.verifier, r.timer, 0, "none")
           /\ r.socket \in {"open", "gone"} /\ r.response = "none"
           /\ r.verifier \in {"idle", "running", "done"} /\ r.timer \in BOOLEAN
  BY DEF Requests, RequestInv, Request

\* Settling and ending a request change the fields they name.
LEMMA SettledRequest ==
    ASSUME NEW r \in Requests, RequestInv(r), r.verification # "settled"
    PROVE  \E off \in BOOLEAN :
             /\ Settled(r) = Request(r.socket, "settled", r.verifier, off, 0, "none")
             /\ Settled([r EXCEPT !.verifier = "done"])
                  = Request(r.socket, "settled", "done", off, 0, "none")
<1>1. /\ r = Request(r.socket, r.verification, r.verifier, r.timer, 0, "none")
      /\ r.socket \in {"open", "gone"}
      /\ r.verifier \in {"idle", "running", "done"} /\ r.timer \in BOOLEAN
  BY Unsettled
<1>2. \A off \in BOOLEAN :
        /\ [r EXCEPT !.verification = "settled", !.timer = off]
             = Request(r.socket, "settled", r.verifier, off, 0, "none")
        /\ [r EXCEPT !.verifier = "done", !.verification = "settled", !.timer = off]
             = Request(r.socket, "settled", "done", off, 0, "none")
  <2> SUFFICES ASSUME NEW off \in BOOLEAN
               PROVE  /\ [r EXCEPT !.verification = "settled", !.timer = off]
                           = Request(r.socket, "settled", r.verifier, off, 0, "none")
                      /\ [r EXCEPT !.verifier = "done", !.verification = "settled", !.timer = off]
                           = Request(r.socket, "settled", "done", off, 0, "none")
    OBVIOUS
  <2>1. PICK socket, v, done, timer :
            r = Request(socket, v, done, timer, 0, "none") /\ r.socket = socket /\ r.verifier = done
    BY <1>1
  <2>2. [r EXCEPT !.verification = "settled"] = Request(socket, "settled", done, timer, 0, "none")
    BY <2>1 DEF Request
  <2>3. [r EXCEPT !.verifier = "done"] = Request(socket, v, "done", timer, 0, "none")
    BY <2>1 DEF Request
  <2>4. [Request(socket, v, "done", timer, 0, "none") EXCEPT !.verification = "settled"]
          = Request(socket, "settled", "done", timer, 0, "none")
    BY DEF Request
  <2>5. [Request(socket, "settled", done, timer, 0, "none") EXCEPT !.timer = off]
          = Request(socket, "settled", done, off, 0, "none")
    BY DEF Request
  <2>6. [Request(socket, "settled", "done", timer, 0, "none") EXCEPT !.timer = off]
          = Request(socket, "settled", "done", off, 0, "none")
    BY DEF Request
  <2>7. [r EXCEPT !.verification = "settled", !.timer = off]
          = Request(r.socket, "settled", r.verifier, off, 0, "none")
    BY <2>1, <2>2, <2>5
  <2>8. [r EXCEPT !.verifier = "done", !.verification = "settled", !.timer = off]
          = Request(r.socket, "settled", "done", off, 0, "none")
    BY <2>1, <2>3, <2>4, <2>6
  <2> QED BY <2>7, <2>8
<1>3. PICK off \in BOOLEAN :
        /\ Settled(r) = [r EXCEPT !.verification = "settled", !.timer = off]
        /\ Settled([r EXCEPT !.verifier = "done"])
             = [[r EXCEPT !.verifier = "done"] EXCEPT !.verification = "settled", !.timer = off]
  BY Zenon DEF Settled
<1> QED BY <1>2, <1>3

LEMMA EndedFields ==
    ASSUME NEW socket, NEW v, NEW done, NEW timer, NEW response, NEW to, NEW answer,
           NEW q, q = Request(socket, v, done, timer, 0, response)
    PROVE  Ended(q, to, answer) = Request(to, v, done, timer, 1, answer)
<1>1. q.ends + 1 = 1
  BY DEF Request
<1>2. [q EXCEPT !.socket = to] = Request(to, v, done, timer, 0, response)
  BY DEF Request
<1>3. [Request(to, v, done, timer, 0, response) EXCEPT !.ends = 1]
        = Request(to, v, done, timer, 1, response)
  BY DEF Request
<1>4. [Request(to, v, done, timer, 1, response) EXCEPT !.response = answer]
        = Request(to, v, done, timer, 1, answer)
  BY DEF Request
<1> QED BY <1>1, <1>2, <1>3, <1>4 DEF Ended

\* The outcomes of a verification end the raw socket of the request, unless it is
\* gone: with a response, without one, or with an upgrade.
LEMMA Outcomes ==
    ASSUME NEW socket \in {"open", "gone"}, NEW v, NEW done, NEW timer,
           NEW q, q = Request(socket, v, done, timer, 0, "none")
    PROVE  /\ RejectedHttp(q) = IF socket = "gone" THEN q
                                 ELSE Request("ended", v, done, timer, 1, "http")
           /\ Destroyed(q) = Request("destroyed", v, done, timer,
                                     IF socket = "gone" THEN 0 ELSE 1, "none")
           /\ socket = "open" => Ended(q, "upgraded", "upgrade")
                                   = Request("upgraded", v, done, timer, 1, "upgrade")
<1>1. CASE socket = "gone"
  BY <1>1 DEF Request, RejectedHttp, Destroyed, Ended, IsDestroyed
<1>2. CASE socket = "open"
  <2>1. ~IsDestroyed(q)
    BY <1>2 DEF IsDestroyed, Request
  <2>2. \A to, response : Ended(q, to, response) = Request(to, v, done, timer, 1, response)
    BY EndedFields
  <2>3. q.response = "none"
    BY DEF Request
  <2> QED BY <1>2, <2>1, <2>2, <2>3 DEF RejectedHttp, Destroyed
<1> QED BY <1>1, <1>2

\* A verification that is settled without an upgrade, and with one.
LEMMA SettledOnce ==
    ASSUME NEW socket \in {"open", "gone"}, NEW done \in {"idle", "running", "done"},
           NEW timer \in BOOLEAN,
           NEW q, q = Request(socket, "settled", done, timer, 0, "none")
    PROVE  \A x \in {RejectedHttp(q), Destroyed(q)} :
               x \in Requests /\ RequestInv(x) /\ x.response # "upgrade"
<1>1. \A x \in {RejectedHttp(q), Destroyed(q)} :
          \/ x = Request("gone", "settled", done, timer, 0, "none")
          \/ x = Request("ended", "settled", done, timer, 1, "http")
          \/ x = Request("destroyed", "settled", done, timer, 0, "none")
          \/ x = Request("destroyed", "settled", done, timer, 1, "none")
  BY Outcomes
<1> QED BY <1>1 DEF Request, Requests, RequestInv

LEMMA UpgradedOnce ==
    ASSUME NEW done \in {"idle", "running", "done"}, NEW timer \in BOOLEAN,
           NEW q, q = Request("open", "settled", done, timer, 0, "none")
    PROVE  /\ Ended(q, "upgraded", "upgrade") \in Requests
           /\ RequestInv(Ended(q, "upgraded", "upgrade"))
           /\ Ended(q, "upgraded", "upgrade").response = "upgrade"
<1>1. Ended(q, "upgraded", "upgrade") = Request("upgraded", "settled", done, timer, 1, "upgrade")
  BY Outcomes
<1> QED BY <1>1 DEF Request, Requests, RequestInv

\* A session that loses its connection is terminated, and only then.
EndsAs(s, t) ==
    /\ t \in SessionRecords /\ SessionInv(t)
    /\ t.readyState = "NONE" <=> s.readyState = "NONE"
    /\ t.connection = "open" => s.connection = "open"

LEMMA SessionEnds ==
    ASSUME NEW s \in SessionRecords, SessionInv(s)
    PROVE  /\ EndsAs(s, FailTransport(s)) /\ FailTransport(s).connection # "open"
           /\ EndsAs(s, TransportFailed(s)) /\ TransportFailed(s).connection # "open"
           /\ EndsAs(s, ShutDown(s)) /\ ShutDown(s).connection # "open"
           /\ EndsAs(s, Terminated([TransportFailed(s) EXCEPT !.coreTerminal = TRUE,
                                                            !.adapterTerminal = TRUE]))
<1> USE DEF SessionRecords, SessionInv, EndsAs, FailTransport, TransportFailed, ShutDown, Terminated
<1>1. EndsAs(s, FailTransport(s)) /\ FailTransport(s).connection # "open"
  OBVIOUS
<1>2. EndsAs(s, TransportFailed(s)) /\ TransportFailed(s).connection # "open"
  OBVIOUS
<1>3. EndsAs(s, ShutDown(s)) /\ ShutDown(s).connection # "open"
  OBVIOUS
<1>4. EndsAs(s, Terminated([TransportFailed(s) EXCEPT !.coreTerminal = TRUE,
                                                    !.adapterTerminal = TRUE]))
  OBVIOUS
<1> QED BY <1>1, <1>2, <1>3, <1>4

------------------------------------------------------------------------------
(* The steps of the WebSocket adapter. *)

\* A step of a verification changes one request and no session.
LEMMA RequestKeepsInv ==
    ASSUME AdapterInv, NEW u \in Upgrades, NEW r \in Requests, RequestInv(r),
           request[u].response = "upgrade" <=> r.response = "upgrade",
           request' = [request EXCEPT ![u] = r], UNCHANGED <<activeSessions, session>>
    PROVE  AdapterInv'
  BY DEF AdapterInv, HasSession

\* An event of a WebSocket changes one session and no request.
LEMMA SessionKeepsInv ==
    ASSUME AdapterInv, NEW u \in Upgrades, NEW s, EndsAs(session[u], s), Becomes(u, s)
    PROVE  AdapterInv'
  BY DEF AdapterInv, HasSession, EndsAs, Becomes

LEMMA VerificationStep ==
    ASSUME AdapterInv, NEW u \in Upgrades,
           \/ UpgradeRefused(u) \/ Upgrade(u) \/ PeerLeaves(u) \/ Aborts(u) \/ TimesOut(u)
           \/ VerifierLate(u) \/ VerifierRejects(u)
    PROVE  AdapterInv'
<1> DEFINE r == request[u]
<1>1. r \in Requests /\ RequestInv(r)
  BY DEF AdapterInv
<1>2. CASE UpgradeRefused(u)
  <2>1. PICK x \in {RejectedHttp(r), Destroyed(r)} :
            /\ r.verification = "none"
            /\ request' = [request EXCEPT ![u] = [x EXCEPT !.verification = "settled"]]
    BY <1>2 DEF UpgradeRefused
  <2> DEFINE q == [x EXCEPT !.verification = "settled"]
  <2>2. q \in Requests /\ RequestInv(q) /\ r.response # "upgrade" /\ q.response # "upgrade"
    <3>1. /\ r = Request(r.socket, "none", r.verifier, r.timer, 0, "none")
          /\ r.socket \in {"open", "gone"} /\ r.response = "none"
          /\ r.verifier \in {"idle", "running", "done"} /\ r.timer \in BOOLEAN
      BY <1>1, <2>1, Unsettled
    <3>2. \/ x = Request("gone", "none", r.verifier, r.timer, 0, "none")
          \/ x = Request("ended", "none", r.verifier, r.timer, 1, "http")
          \/ x = Request("destroyed", "none", r.verifier, r.timer, 0, "none")
          \/ x = Request("destroyed", "none", r.verifier, r.timer, 1, "none")
      BY <2>1, <3>1, Outcomes
    <3> QED BY <3>1, <3>2 DEF Request, Requests, RequestInv
  <2> HIDE DEF q
  <2>3. request' = [request EXCEPT ![u] = q] /\ UNCHANGED <<activeSessions, session>>
    BY <1>2, <2>1 DEF UpgradeRefused, q
  <2> QED BY <2>2, <2>3, RequestKeepsInv
<1>3. CASE Upgrade(u) \/ PeerLeaves(u) \/ VerifierLate(u)
  <2> DEFINE q == request'[u]
  <2>1. /\ q \in Requests /\ RequestInv(q) /\ q.response = r.response
        /\ request' = [request EXCEPT ![u] = q] /\ UNCHANGED <<activeSessions, session>>
    <3>1. CASE Upgrade(u)
      BY <1>1, <3>1 DEF Upgrade, AdapterInv, Requests, RequestInv
    <3>2. CASE PeerLeaves(u)
      BY <1>1, <3>2 DEF PeerLeaves, AdapterInv, Requests, RequestInv
    <3>3. CASE VerifierLate(u)
      BY <1>1, <3>3 DEF VerifierLate, Verified, AdapterInv, Requests, RequestInv
    <3> QED BY <1>3, <3>1, <3>2, <3>3
  <2> HIDE DEF q
  <2> QED BY <2>1, RequestKeepsInv
<1>4. CASE Aborts(u) \/ TimesOut(u) \/ VerifierRejects(u)
  <2>1. r.verification = "pending" /\ UNCHANGED <<activeSessions, session>>
    BY <1>4 DEF Aborts, TimesOut, VerifierRejects, MaySettle
  <2>2. /\ r = Request(r.socket, "pending", r.verifier, r.timer, 0, "none")
        /\ r.socket \in {"open", "gone"} /\ r.response = "none"
        /\ r.verifier \in {"idle", "running", "done"}
    BY <1>1, <2>1, Unsettled
  <2>3. PICK done \in {"idle", "running", "done"}, off \in BOOLEAN,
             q \in {Settled(r), Settled(Verified(u))} :
            /\ q = Request(r.socket, "settled", done, off, 0, "none")
            /\ \/ request' = [request EXCEPT ![u] = Destroyed(q)]
               \/ request' = [request EXCEPT ![u] = RejectedHttp(q)]
    <3>1. PICK off \in BOOLEAN :
              /\ Settled(r) = Request(r.socket, "settled", r.verifier, off, 0, "none")
              /\ Settled(Verified(u)) = Request(r.socket, "settled", "done", off, 0, "none")
      BY <1>1, <2>1, SettledRequest DEF Verified
    <3> QED BY <1>4, <2>2, <3>1 DEF Aborts, TimesOut, VerifierRejects
  <2>4. \A x \in {RejectedHttp(q), Destroyed(q)} :
            x \in Requests /\ RequestInv(x) /\ x.response # "upgrade"
    BY <2>2, <2>3, SettledOnce
  <2>5. PICK x \in {RejectedHttp(q), Destroyed(q)} : request' = [request EXCEPT ![u] = x]
    BY <2>3
  <2> QED BY <2>1, <2>2, <2>4, <2>5, RequestKeepsInv
<1> QED BY <1>2, <1>3, <1>4

LEMMA AcceptStep ==
    ASSUME AdapterInv, NEW u \in Upgrades, VerifierAccepts(u) PROVE AdapterInv'
<1> DEFINE r == request[u]
           q == Settled(Verified(u))
<1>1. r \in Requests /\ RequestInv(r) /\ r.verification = "pending" /\ r.response # "upgrade"
  BY DEF AdapterInv, VerifierAccepts, MaySettle, RequestInv
<1>2. PICK off \in BOOLEAN : /\ q = Request(r.socket, "settled", "done", off, 0, "none")
                             /\ r.socket \in {"open", "gone"}
  BY <1>1, Unsettled, SettledRequest DEF Verified
<1>3. \A x \in {RejectedHttp(q), Destroyed(q)} :
          x \in Requests /\ RequestInv(x) /\ x.response # "upgrade"
  BY <1>2, SettledOnce
<1>4. r.socket = "open" => /\ Ended(q, "upgraded", "upgrade") \in Requests
                           /\ RequestInv(Ended(q, "upgraded", "upgrade"))
                           /\ Ended(q, "upgraded", "upgrade").response = "upgrade"
  BY <1>2, UpgradedOnce
<1> HIDE DEF q
<1>5. CASE /\ \E x \in {RejectedHttp(q), Destroyed(q)} : request' = [request EXCEPT ![u] = x]
           /\ UNCHANGED <<activeSessions, session>>
  BY <1>1, <1>3, <1>5, RequestKeepsInv
<1>6. CASE /\ MayUpgrade(u)
           /\ request' = [request EXCEPT ![u] = Ended(q, "upgraded", "upgrade")]
           /\ \/ /\ session' = [session EXCEPT ![u] = NewSession]
                 /\ activeSessions' = activeSessions \union {u}
              \/ session' = [session EXCEPT ![u] = Refused] /\ UNCHANGED activeSessions
  <2>1. /\ NewSession \in SessionRecords /\ SessionInv(NewSession) /\ NewSession.readyState # "NONE"
        /\ Refused \in SessionRecords /\ SessionInv(Refused) /\ Refused.readyState # "NONE"
        /\ Refused.connection # "open"
    BY DEF NewSession, Refused, Terminated, SessionRecords, SessionInv
  <2>2. PICK s \in SessionRecords :
            /\ session' = [session EXCEPT ![u] = s] /\ SessionInv(s)
            /\ s.readyState # "NONE"
            /\ s.connection = "open" => u \in activeSessions'
            /\ activeSessions \subseteq activeSessions'
    BY <1>6, <2>1
  <2> DEFINE x == Ended(q, "upgraded", "upgrade")
  <2>3. x \in Requests /\ RequestInv(x) /\ x.response = "upgrade"
    BY <1>2, <1>4, <1>6 DEF MayUpgrade, IsDestroyed
  <2>4. request' = [request EXCEPT ![u] = x]
    BY <1>6
  <2> HIDE DEF x
  <2>5. /\ request' \in [Upgrades -> Requests] /\ session' \in [Upgrades -> SessionRecords]
        /\ request'[u] = x /\ session'[u] = s
        /\ \A d \in Upgrades : d # u => request'[d] = request[d] /\ session'[d] = session[d]
    BY <2>2, <2>3, <2>4 DEF AdapterInv
  <2> QED BY <2>2, <2>3, <2>5 DEF AdapterInv, HasSession
<1> QED BY <1>5, <1>6 DEF VerifierAccepts, q

LEMMA SocketStep ==
    ASSUME AdapterInv, NEW u \in Upgrades,
           \/ BadFrame(u) \/ CoreRejects(u) \/ SendFails(u)
           \/ SocketErrors(u) \/ PeerCloses(u) \/ SocketCloses(u)
    PROVE  AdapterInv'
<1> DEFINE s == session[u]
<1>1. s \in SessionRecords /\ SessionInv(s)
  BY DEF AdapterInv
<1>2. CASE BadFrame(u) \/ CoreRejects(u) \/ SendFails(u)
  BY <1>1, <1>2, SessionEnds, SessionKeepsInv DEF BadFrame, CoreRejects, SendFails
<1>3. CASE SocketErrors(u)
  <2>1. s.coreTerminal \/ s.adapterTerminal => EndsAs(s, Terminated(s))
    BY <1>1 DEF EndsAs, Terminated, SessionRecords, SessionInv
  <2> QED BY <1>1, <1>3, <2>1, SessionEnds, SessionKeepsInv DEF SocketErrors
<1>4. CASE PeerCloses(u)
  <2>1. EndsAs(s, [s EXCEPT !.readyState = "CLOSING"])
    BY <1>1, <1>4 DEF PeerCloses, EndsAs, SessionRecords, SessionInv
  <2> QED BY <1>4, <2>1, SessionKeepsInv DEF PeerCloses
<1>5. CASE SocketCloses(u)
  <2> DEFINE t == [FailTransport(s) EXCEPT !.readyState = "CLOSED", !.closed = TRUE]
  <2>1. /\ t \in SessionRecords /\ SessionInv(t) /\ t.readyState # "NONE" /\ s.readyState # "NONE"
        /\ t.connection # "open"
    <3>1. FailTransport(s) \in SessionRecords /\ FailTransport(s).connection # "open"
      BY <1>1, SessionEnds DEF EndsAs
    <3>2. s.readyState # "NONE"
      BY <1>5 DEF SocketCloses
    <3> QED BY <3>1, <3>2 DEF SessionRecords, SessionInv
  <2>2. session' = [session EXCEPT ![u] = t] /\ activeSessions' = activeSessions \ {u}
        /\ request' = request
    BY <1>5 DEF SocketCloses
  <2> HIDE DEF t
  <2> QED BY <2>1, <2>2 DEF AdapterInv, HasSession
<1> QED BY <1>2, <1>3, <1>4, <1>5

LEMMA ShutdownStep == ASSUME AdapterInv, Shutdown PROVE AdapterInv'
<1>1. ASSUME NEW u \in Upgrades
      PROVE  /\ request'[u] \in Requests /\ RequestInv(request'[u])
             /\ request'[u].response = "upgrade" <=> request[u].response = "upgrade"
  <2>1. request[u] \in Requests /\ RequestInv(request[u])
    BY DEF AdapterInv
  <2>2. CASE MaySettle(u)
    <3> DEFINE q == Settled(request[u])
    <3>1. /\ request[u].socket \in {"open", "gone"}
          /\ request[u].verifier \in {"idle", "running", "done"}
      BY <2>1, <2>2, Unsettled DEF MaySettle
    <3>2. PICK off \in BOOLEAN :
              q = Request(request[u].socket, "settled", request[u].verifier, off, 0, "none")
      BY <2>1, <2>2, SettledRequest DEF MaySettle
    <3>3. Destroyed(q) \in Requests /\ RequestInv(Destroyed(q)) /\ Destroyed(q).response # "upgrade"
      BY <3>1, <3>2, SettledOnce
    <3> QED BY <2>1, <2>2, <3>3 DEF Shutdown, MaySettle, RequestInv
  <2>3. CASE ~MaySettle(u)
    BY <2>1, <2>3 DEF Shutdown
  <2> QED BY <2>2, <2>3
<1>2. ASSUME NEW u \in Upgrades
      PROVE  EndsAs(session[u], session'[u]) /\ session'[u].connection # "open"
  <2>1. session[u] \in SessionRecords /\ SessionInv(session[u])
        /\ (session[u].connection = "open" => u \in activeSessions)
    BY DEF AdapterInv
  <2>2. CASE u \in activeSessions
    BY <2>1, <2>2, SessionEnds DEF Shutdown
  <2>3. CASE u \notin activeSessions
    BY <2>1, <2>3 DEF Shutdown, EndsAs
  <2> QED BY <2>2, <2>3
<1>3. request' \in [Upgrades -> Requests] /\ session' \in [Upgrades -> SessionRecords]
  BY <1>1, <1>2 DEF Shutdown, EndsAs
<1> QED BY <1>1, <1>2, <1>3 DEF AdapterInv, HasSession, EndsAs

LEMMA AdapterStep == AdapterInv /\ [WebSocketNext]_webSocketVars => AdapterInv'
<1> SUFFICES ASSUME AdapterInv, [WebSocketNext]_webSocketVars PROVE AdapterInv'
  OBVIOUS
<1>1. CASE Attach \/ Detach \/ SessionsClosed \/ ServerCloses \/ UNCHANGED webSocketVars
  BY <1>1 DEF Attach, Detach, SessionsClosed, ServerCloses, webSocketVars, AdapterInv, HasSession
<1> QED
  BY <1>1, ShutdownStep, VerificationStep, AcceptStep, SocketStep DEF WebSocketNext

LEMMA AdapterInvariant == WebSocketSpec => []AdapterInv
<1>1. WebSocketInit => AdapterInv
  BY DEF WebSocketInit, AdapterInv, HasSession, Requests, SessionRecords, RequestInv, SessionInv
<1> QED BY <1>1, AdapterStep, PTL DEF WebSocketSpec

------------------------------------------------------------------------------
(* The theorems about the WebSocket adapter. *)

\* A raw socket is ended once, whichever of the verifier's answer, its deadline,
\* an abort and the shutdown comes first, and one that was gone is not answered
\* (verifyCredential, rejectHttp, destroySocket).
THEOREM SocketEndedOnce == WebSocketSpec => []EndedOnce
<1>1. AdapterInv => EndedOnce
  <2> SUFFICES ASSUME AdapterInv, NEW u \in Upgrades
               PROVE  /\ request[u].ends <= 1
                      /\ request[u].socket = "gone" => request[u].response = "none"
                      /\ HasSession(u) <=> request[u].response = "upgrade"
                      /\ request[u].verification = "settled" => request[u].socket # "open"
    BY DEF EndedOnce
  <2>1. request[u].ends <= 1
    BY DEF AdapterInv, RequestInv
  <2>2. RequestInv(request[u]) /\ (HasSession(u) <=> request[u].response = "upgrade")
    BY DEF AdapterInv
  <2> QED BY <2>1, <2>2 DEF RequestInv
<1> QED BY <1>1, AdapterInvariant, PTL

\* The WebSocket of a session and its connection to the gateway end together:
\* neither outlives the other (notifyFailure, failTransport, shutdown).
THEOREM SessionsEndWhole == WebSocketSpec => []NoHalfOpenSession
<1>1. AdapterInv => NoHalfOpenSession
  BY DEF AdapterInv, SessionInv, NoHalfOpenSession
<1> QED BY <1>1, AdapterInvariant, PTL

==============================================================================
