----------------------- MODULE BackendSupervisorProofs -----------------------
(***************************************************************************)
(* The supervisor keeps its types and agrees with its executions, never    *)
(* overlaps two of them, decides each outcome once and truthfully, stays   *)
(* quarantined, and implements InvocationLifecycle.                        *)
(***************************************************************************)
EXTENDS BackendSupervisor, TLAPS

------------------------------------------------------------------------------
(* The verdicts. *)

\* An execution is only started by a ready supervisor.
LEMMA StartsWhenReady ==
    ASSUME TypeOK, NEW inv, StartVerdict(inv) = "adapter"
    PROVE  state = "ready"
  BY DEF StartVerdict, TypeOK

\* A stop only reaches the active execution, and only before its completion.
LEMMA StopReachesActive ==
    ASSUME NEW id, StopVerdict(id) = "request"
    PROVE  active # 0 /\ ~execs[active].completionSettled /\ state # "stopping"
  BY DEF StopVerdict

------------------------------------------------------------------------------
(* Types. *)

LEMMA NewExecutionType ==
    ASSUME NEW inv \in Invocations PROVE NewExecution(inv) \in Executions
  BY DEF NewExecution, Executions, SessionValues

\* Changing one execution to another of the same type keeps the sequence.
LEMMA UpdateType ==
    ASSUME NEW s \in Seq(Executions), NEW e \in 1..Len(s), NEW x \in Executions
    PROVE  /\ [s EXCEPT ![e] = x] \in Seq(Executions)
           /\ Len([s EXCEPT ![e] = x]) = Len(s)
  OBVIOUS

LEMMA Typed ==
    ASSUME TypeOK, NEW e \in 1..Len(execs) PROVE execs[e] \in Executions
  BY DEF TypeOK

LEMMA FailType ==
    ASSUME TypeOK, NEW e \in 1..Len(execs), NEW x \in Executions, Fail(e, x)
    PROVE  /\ execs' \in Seq(Executions)
           /\ Len(execs') = Len(execs)
           /\ active' \in 0..Len(execs)
           /\ state' \in {state, "faulted"}
<1>1. CASE IsActive(e)
  <2>1. [x EXCEPT !.completionSettled = TRUE, !.outcome = "failure"] \in Executions
    BY DEF Executions
  <2>2. QED BY <1>1, <2>1, UpdateType DEF Fail, TypeOK
<1>2. CASE ~IsActive(e)
  BY <1>2, UpdateType DEF Fail, TypeOK
<1>3. QED BY <1>1, <1>2

LEMMA TypeStep == TypeOK /\ [Next]_vars => TypeOK'
<1> SUFFICES ASSUME TypeOK, [Next]_vars PROVE TypeOK'
  OBVIOUS
<1>1. ASSUME NEW spec \in Specs, Initialize(spec) PROVE TypeOK'
  BY <1>1 DEF Initialize, TypeOK
<1>2. ASSUME NEW inv \in Invocations, Start(inv) PROVE TypeOK'
  <2>1. execs' \in Seq(Executions) /\ Len(execs') = Len(execs) + 1
    BY <1>2, NewExecutionType DEF Start, TypeOK
  <2>2. QED BY <1>2, <2>1 DEF Start, TypeOK
<1>3. ASSUME NEW id \in InvocationIds, Stop(id) PROVE TypeOK'
  <2>1. active \in 1..Len(execs)
    BY <1>3, StopReachesActive DEF Stop, TypeOK
  <2>2. [execs[active] EXCEPT !.stop = "requested"] \in Executions
    BY <2>1, Typed DEF Executions
  <2>3. execs' = [execs EXCEPT ![active] = [execs[active] EXCEPT !.stop = "requested"]]
    BY <1>3, <2>1 DEF Stop, TypeOK
  <2>4. execs' \in Seq(Executions) /\ Len(execs') = Len(execs)
    BY <2>1, <2>2, <2>3, UpdateType DEF TypeOK
  <2>5. QED BY <1>3, <2>4 DEF Stop, TypeOK
<1>4. ASSUME NEW id \in InvocationIds, StopThrows(id) PROVE TypeOK'
  <2>1. active \in 1..Len(execs)
    BY <1>4, StopReachesActive DEF StopThrows, TypeOK
  <2>2. [execs[active] EXCEPT !.stop = "rejected"] \in Executions
    BY <2>1, Typed DEF Executions
  <2>3. QED BY <1>4, <2>1, <2>2, FailType DEF StopThrows, TypeOK
<1>5. CASE InitializationFails
  BY <1>5 DEF InitializationFails, TypeOK
<1>6. CASE InitializationSucceeds
  BY <1>6 DEF InitializationSucceeds, TypeOK, SessionValues
<1>7. ASSUME NEW e \in 1..Len(execs), NEW s \in SessionValues, SessionResolves(e, s)
      PROVE  TypeOK'
  <2>1. [execs[e] EXCEPT !.session = s] \in Executions
    BY Typed DEF Executions
  <2>2. execs' = [execs EXCEPT ![e] = [execs[e] EXCEPT !.session = s]]
    BY <1>7 DEF SessionResolves, TypeOK
  <2>3. execs' \in Seq(Executions) /\ Len(execs') = Len(execs)
    BY <2>1, <2>2, UpdateType DEF TypeOK
  <2>4. QED BY <1>7, <2>3 DEF SessionResolves, TypeOK
<1>8. ASSUME NEW e \in 1..Len(execs), SessionRejects(e) PROVE TypeOK'
  <2>1. [execs[e] EXCEPT !.session = "rejected"] \in Executions
    BY Typed DEF Executions
  <2>2. QED BY <1>8, <2>1, FailType DEF SessionRejects, TypeOK
<1>9. ASSUME NEW e \in 1..Len(execs), NEW c \in Completions, CompletionResolves(e, c)
      PROVE  TypeOK'
  <2> DEFINE x == [execs[e] EXCEPT !.completion = "fulfilled", !.value = c,
                                   !.completionSettled = TRUE]
  <2>1. x \in Executions
    BY Typed DEF Executions
  <2>2. execs' = [execs EXCEPT ![e] = x]
    BY <1>9 DEF CompletionResolves, TypeOK, Executions
  <2>3. execs' \in Seq(Executions) /\ Len(execs') = Len(execs)
    BY <2>1, <2>2, UpdateType DEF TypeOK
  <2>4. QED BY <1>9, <2>3 DEF CompletionResolves, TypeOK
<1>10. ASSUME NEW e \in 1..Len(execs), CompletionRejects(e) PROVE TypeOK'
  <2>1. [execs[e] EXCEPT !.completion = "rejected", !.completionSettled = TRUE] \in Executions
    BY Typed DEF Executions
  <2>2. QED BY <1>10, <2>1, FailType DEF CompletionRejects, TypeOK
<1>11. ASSUME NEW e \in 1..Len(execs), StopRejects(e) PROVE TypeOK'
  <2>1. [execs[e] EXCEPT !.stop = "rejected"] \in Executions
    BY Typed DEF Executions
  <2>2. QED BY <1>11, <2>1, FailType DEF StopRejects, TypeOK
<1>12. ASSUME NEW e \in 1..Len(execs), Finish(e) PROVE TypeOK'
  <2>1. [execs[e] EXCEPT !.outcome = "result"] \in Executions
    BY Typed DEF Executions
  <2>2. execs' = [execs EXCEPT ![e] = [execs[e] EXCEPT !.outcome = "result"]]
    BY <1>12 DEF Finish, TypeOK
  <2>3. execs' \in Seq(Executions) /\ Len(execs') = Len(execs)
    BY <2>1, <2>2, UpdateType DEF TypeOK
  <2>4. execs[e].value.session \in SessionValues
    BY <1>12, Typed DEF Finish, Executions, Completions
  <2>5. sessionId' \in SessionValues
    BY <1>12, <2>4 DEF Finish, ResolvedSession, TypeOK, SessionValues
  <2>6. QED BY <1>12, <2>3, <2>5 DEF Finish, TypeOK
<1>13. CASE UNCHANGED vars
  BY <1>13 DEF vars, TypeOK
<1>14. QED
  BY <1>1, <1>2, <1>3, <1>4, <1>5, <1>6, <1>7, <1>8, <1>9, <1>10, <1>11, <1>12, <1>13
     DEF Next, Call, Settlement

\* The fields of the supervisor and of its executions keep their types.
THEOREM TypeCorrect == Spec => []TypeOK
<1>1. Init => TypeOK
  BY DEF Init, TypeOK, SessionValues
<1>2. QED BY <1>1, TypeStep, PTL DEF Spec

------------------------------------------------------------------------------
(* The supervisor and its executions. *)

\* What an execution with an outcome has observed, and that one without has not
\* seen a rejection: the inductive form of TruthfulOutcome.
OutcomeObserved(x) ==
    LET rejected == "rejected" \in {x.session, x.completion, x.stop}
    IN  /\ x.outcome = "failure" => rejected
        /\ x.outcome = "none" => ~rejected
        /\ x.outcome = "result" => x.completion = "fulfilled" /\ x.session \in SessionValues

OutcomesObserved == \A e \in 1..Len(execs) : OutcomeObserved(execs[e])

\* Only the last execution may have no result.
OnlyLastIsOpen ==
    \A e \in 1..Len(execs) : execs[e].outcome # "result" => e = Len(execs)

SupervisorInv == StateMatchesActive /\ OutcomesObserved /\ OnlyLastIsOpen

\* How a reaction may change the execution e: everything else is kept, and the
\* state, the active position and the outcome move together.
Reacts(e) ==
    /\ execs' = [execs EXCEPT ![e] = execs'[e]]
    /\ Len(execs') = Len(execs)
    /\ OutcomeObserved(execs'[e])
    /\ UNCHANGED <<launchSpec, initialization>>
    /\ \/ /\ execs'[e].outcome = execs[e].outcome
          /\ active' = active
          /\ state' = state \/ (active = e /\ state' = "stopping")
       \/ /\ IsActive(e)
          /\ active' = 0
          /\ \/ execs'[e].outcome = "failure" /\ state' = "faulted"
             \/ execs'[e].outcome = "result" /\ state' = "ready"

LEMMA ReactionKeepsInv ==
    ASSUME TypeOK, SupervisorInv, NEW e \in 1..Len(execs), Reacts(e)
    PROVE  SupervisorInv'
<1>1. \A d \in 1..Len(execs) : d # e => execs'[d] = execs[d]
  BY DEF Reacts, TypeOK
<1>2. OutcomesObserved'
  BY <1>1 DEF Reacts, SupervisorInv, OutcomesObserved, OutcomeObserved
<1>3. CASE execs'[e].outcome = execs[e].outcome /\ active' = active
  <2>1. \/ state' = state
        \/ active # 0 /\ state \in {"running", "stopping"} /\ state' = "stopping"
    BY <1>3 DEF Reacts, IsActive, SupervisorInv, StateMatchesActive
  <2>2. \A d \in 1..Len(execs) : execs'[d].outcome = execs[d].outcome
    BY <1>1, <1>3
  <2>3. OnlyLastIsOpen'
    BY <2>2 DEF Reacts, SupervisorInv, OnlyLastIsOpen
  <2>4. QED
    BY <1>2, <1>3, <2>1, <2>2, <2>3 DEF Reacts, SupervisorInv, StateMatchesActive, TypeOK
<1>4. CASE /\ IsActive(e)
           /\ active' = 0
           /\ \/ execs'[e].outcome = "failure" /\ state' = "faulted"
              \/ execs'[e].outcome = "result" /\ state' = "ready"
  <2>1. state \in {"running", "stopping"} /\ active = e /\ launchSpec # None
    BY <1>4 DEF IsActive, SupervisorInv, StateMatchesActive
  <2>2. \A d \in 1..Len(execs) : d # e => execs[d].outcome \notin {"none", "failure"}
    BY <2>1 DEF SupervisorInv, StateMatchesActive
  <2>3. OnlyLastIsOpen'
    BY <1>1, <2>1, <1>4 DEF Reacts, IsActive, SupervisorInv, OnlyLastIsOpen
  <2>4. QED
    BY <1>1, <1>2, <1>4, <2>1, <2>2, <2>3 DEF Reacts, SupervisorInv, StateMatchesActive
<1>5. QED BY <1>3, <1>4 DEF Reacts

\* fail, with a record whose rejection the caller has noted.
LEMMA FailReacts ==
    ASSUME TypeOK, SupervisorInv, NEW e \in 1..Len(execs), NEW x \in Executions,
           Fail(e, x), UNCHANGED <<launchSpec, initialization>>,
           x.outcome = execs[e].outcome,
           "rejected" \in {x.session, x.completion, x.stop},
           execs[e].outcome = "result" =>
              x.completion = "fulfilled" /\ x.session \in SessionValues
    PROVE  Reacts(e)
<1>1. execs[e].outcome = "none" => IsActive(e)
  BY DEF SupervisorInv, StateMatchesActive, IsActive
<1>2. CASE IsActive(e)
  <2> DEFINE y == [x EXCEPT !.completionSettled = TRUE, !.outcome = "failure"]
  <2>1. /\ y \in Executions
        /\ y.outcome = "failure"
        /\ y.session = x.session /\ y.completion = x.completion /\ y.stop = x.stop
    BY DEF Executions
  <2>2. execs' = [execs EXCEPT ![e] = y] /\ active' = 0 /\ state' = "faulted"
    BY <1>2 DEF Fail
  <2>3. execs'[e] = y /\ Len(execs') = Len(execs)
    BY <2>1, <2>2 DEF TypeOK
  <2> HIDE DEF y
  <2>4. OutcomeObserved(y)
    BY <2>1 DEF OutcomeObserved
  <2>5. QED BY <1>2, <2>1, <2>2, <2>3, <2>4 DEF Reacts
<1>3. CASE ~IsActive(e)
  <2>1. execs' = [execs EXCEPT ![e] = x] /\ active' = active /\ state' = state
    BY <1>3 DEF Fail
  <2>2. execs'[e] = x /\ Len(execs') = Len(execs)
    BY <2>1 DEF TypeOK
  <2>3. OutcomeObserved(x)
    BY <1>1, <1>3 DEF OutcomeObserved
  <2>4. QED BY <2>1, <2>2, <2>3 DEF Reacts
<1>4. QED BY <1>2, <1>3

\* Every promise reaction, and every stop, is such a change.
LEMMA SettlementReacts ==
    ASSUME TypeOK, SupervisorInv, NEW e \in 1..Len(execs), Settlement(e) \/ Finish(e)
    PROVE  Reacts(e)
<1>0. execs[e] \in Executions /\ OutcomeObserved(execs[e])
  BY Typed DEF SupervisorInv, OutcomesObserved
<1>1. ASSUME NEW s \in SessionValues, SessionResolves(e, s) PROVE Reacts(e)
  <2> DEFINE x == [execs[e] EXCEPT !.session = s]
  <2>1. execs' = [execs EXCEPT ![e] = x] /\ UNCHANGED <<state, launchSpec, initialization, active>>
    BY <1>1 DEF SessionResolves, TypeOK
  <2>2. /\ x.session = s /\ x.completion = execs[e].completion
        /\ x.stop = execs[e].stop /\ x.outcome = execs[e].outcome
    BY <1>0 DEF Executions
  <2>3. s # "rejected" /\ execs[e].session = "pending"
    BY <1>1, StatusIsNoSession DEF SessionResolves, SessionValues
  <2> HIDE DEF x
  <2>4. OutcomeObserved(x)
    BY <1>0, <2>2, <2>3 DEF OutcomeObserved
  <2>5. execs'[e] = x /\ Len(execs') = Len(execs)
    BY <2>1 DEF TypeOK
  <2>6. QED BY <2>1, <2>2, <2>4, <2>5 DEF Reacts
<1>2. CASE SessionRejects(e)
  <2>1. /\ execs[e].session = "pending" /\ UNCHANGED <<launchSpec, initialization>>
        /\ Fail(e, [execs[e] EXCEPT !.session = "rejected"])
    BY <1>2 DEF SessionRejects
  <2>2. execs[e].outcome # "result"
    BY <1>0, <2>1, StatusIsNoSession DEF OutcomeObserved, SessionValues
  <2>3. [execs[e] EXCEPT !.session = "rejected"] \in Executions
    BY <1>0 DEF Executions
  <2>4. QED BY <1>0, <2>1, <2>2, <2>3, FailReacts DEF Executions
<1>3. ASSUME NEW c \in Completions, CompletionResolves(e, c) PROVE Reacts(e)
  <2> DEFINE x == [execs[e] EXCEPT !.completion = "fulfilled", !.value = c,
                                   !.completionSettled = TRUE]
  <2>1. execs' = [execs EXCEPT ![e] = x] /\ UNCHANGED <<state, launchSpec, initialization, active>>
    BY <1>3 DEF CompletionResolves
  <2>2. /\ x.session = execs[e].session /\ x.completion = "fulfilled"
        /\ x.stop = execs[e].stop /\ x.outcome = execs[e].outcome
        /\ execs[e].completion = "pending"
    BY <1>0, <1>3 DEF Executions, CompletionResolves
  <2> HIDE DEF x
  <2>3. OutcomeObserved(x)
    BY <1>0, <2>2 DEF OutcomeObserved
  <2>4. execs'[e] = x /\ Len(execs') = Len(execs)
    BY <2>1 DEF TypeOK
  <2>5. QED BY <2>1, <2>2, <2>3, <2>4 DEF Reacts
<1>4. CASE CompletionRejects(e)
  <2> DEFINE x == [execs[e] EXCEPT !.completion = "rejected", !.completionSettled = TRUE]
  <2>1. execs[e].completion = "pending" /\ UNCHANGED <<launchSpec, initialization>> /\ Fail(e, x)
    BY <1>4 DEF CompletionRejects
  <2>2. x \in Executions /\ x.completion = "rejected" /\ x.outcome = execs[e].outcome
    BY <1>0 DEF Executions
  <2>3. execs[e].outcome # "result"
    BY <1>0, <2>1 DEF OutcomeObserved
  <2> HIDE DEF x
  <2>4. QED BY <2>1, <2>2, <2>3, FailReacts
<1>5. CASE StopRejects(e)
  <2> DEFINE x == [execs[e] EXCEPT !.stop = "rejected"]
  <2>1. UNCHANGED <<launchSpec, initialization>> /\ Fail(e, x)
    BY <1>5 DEF StopRejects
  <2>2. /\ x \in Executions /\ x.stop = "rejected" /\ x.outcome = execs[e].outcome
        /\ x.completion = execs[e].completion /\ x.session = execs[e].session
    BY <1>0 DEF Executions
  <2> HIDE DEF x
  <2>3. QED BY <1>0, <2>1, <2>2, FailReacts DEF OutcomeObserved
<1>6. CASE Finish(e)
  <2> DEFINE x == [execs[e] EXCEPT !.outcome = "result"]
  <2>1. /\ execs' = [execs EXCEPT ![e] = x] /\ active' = 0 /\ state' = "ready"
        /\ UNCHANGED <<launchSpec, initialization>> /\ IsActive(e)
        /\ execs[e].completion = "fulfilled" /\ execs[e].session # "pending"
    BY <1>6 DEF Finish
  <2>2. /\ x.session = execs[e].session /\ x.completion = execs[e].completion
        /\ x.stop = execs[e].stop /\ x.outcome = "result"
    BY <1>0 DEF Executions
  <2>3. execs[e].session \in SessionValues
    BY <1>0, <2>1 DEF OutcomeObserved, IsActive, Executions
  <2> HIDE DEF x
  <2>4. OutcomeObserved(x)
    BY <2>1, <2>2, <2>3 DEF OutcomeObserved
  <2>5. execs'[e] = x /\ Len(execs') = Len(execs)
    BY <2>1 DEF TypeOK
  <2>6. QED BY <2>1, <2>2, <2>4, <2>5 DEF Reacts
<1>7. QED BY <1>1, <1>2, <1>3, <1>4, <1>5, <1>6 DEF Settlement

LEMMA StopReacts ==
    ASSUME TypeOK, SupervisorInv, NEW id, Stop(id) \/ StopThrows(id)
    PROVE  active \in 1..Len(execs) /\ Reacts(active)
<1>1. active \in 1..Len(execs)
  BY StopReachesActive DEF Stop, StopThrows, TypeOK
<1>2. execs[active] \in Executions /\ OutcomeObserved(execs[active])
  BY <1>1, Typed DEF SupervisorInv, OutcomesObserved
<1>3. execs[active].outcome = "none"
  BY <1>1 DEF SupervisorInv, StateMatchesActive
<1>4. CASE Stop(id)
  <2> DEFINE x == [execs[active] EXCEPT !.stop = "requested"]
  <2>1. /\ execs' = [execs EXCEPT ![active] = x] /\ state' = "stopping"
        /\ UNCHANGED <<launchSpec, initialization, active>>
    BY <1>1, <1>4 DEF Stop, TypeOK
  <2>2. /\ x.session = execs[active].session /\ x.completion = execs[active].completion
        /\ x.stop = "requested" /\ x.outcome = "none"
    BY <1>2, <1>3 DEF Executions
  <2> HIDE DEF x
  <2>3. OutcomeObserved(x)
    BY <1>2, <1>3, <2>2 DEF OutcomeObserved
  <2>4. execs'[active] = x /\ Len(execs') = Len(execs)
    BY <1>1, <2>1 DEF TypeOK
  <2>5. QED BY <1>1, <1>3, <2>1, <2>2, <2>3, <2>4 DEF Reacts
<1>5. CASE StopThrows(id)
  <2> DEFINE x == [execs[active] EXCEPT !.stop = "rejected"]
  <2>1. UNCHANGED <<launchSpec, initialization>> /\ Fail(active, x)
    BY <1>5 DEF StopThrows
  <2>2. x \in Executions /\ x.stop = "rejected" /\ x.outcome = execs[active].outcome
    BY <1>2 DEF Executions
  <2> HIDE DEF x
  <2>3. QED BY <1>1, <1>3, <2>1, <2>2, FailReacts
<1>6. QED BY <1>4, <1>5

LEMMA StartKeepsInv ==
    ASSUME TypeOK, SupervisorInv, NEW inv \in Invocations, Start(inv)
    PROVE  SupervisorInv'
<1> DEFINE x == NewExecution(inv)
<1>1. state = "ready"
  BY StartsWhenReady DEF Start
<1>2. /\ execs' = Append(execs, x) /\ active' = Len(execs) + 1
      /\ state' = "running" /\ UNCHANGED <<launchSpec, initialization>>
  BY DEF Start
<1>3. x \in Executions /\ x.outcome = "none" /\ OutcomeObserved(x)
  BY NewExecutionType DEF NewExecution, OutcomeObserved
<1> HIDE DEF x
<1>4. /\ Len(execs') = Len(execs) + 1
      /\ execs'[Len(execs) + 1] = x
      /\ \A d \in 1..Len(execs) : execs'[d] = execs[d]
  BY <1>2, <1>3 DEF TypeOK
<1>5. active = 0 /\ launchSpec # None /\ initialization = None
  BY <1>1 DEF SupervisorInv, StateMatchesActive
<1>6. \A d \in 1..Len(execs) : execs[d].outcome \notin {"none", "failure"}
  BY <1>1, <1>5 DEF SupervisorInv, StateMatchesActive
<1>11. \A d \in 1..Len(execs) : execs[d].outcome = "result"
  BY <1>6, Typed DEF Executions
<1>7. \A d \in 1..Len(execs') : d \in 1..Len(execs) \/ d = Len(execs) + 1
  BY <1>4 DEF TypeOK
<1>8. OutcomesObserved'
  BY <1>3, <1>4, <1>7 DEF SupervisorInv, OutcomesObserved, OutcomeObserved
<1>9. StateMatchesActive'
  BY <1>2, <1>3, <1>4, <1>5, <1>6, <1>7 DEF StateMatchesActive, TypeOK
<1>10. OnlyLastIsOpen'
  BY <1>4, <1>7, <1>11 DEF OnlyLastIsOpen
<1>12. QED BY <1>8, <1>9, <1>10 DEF SupervisorInv

LEMMA InvStep == TypeOK /\ SupervisorInv /\ [Next]_vars => SupervisorInv'
<1> SUFFICES ASSUME TypeOK, SupervisorInv, [Next]_vars PROVE SupervisorInv'
  OBVIOUS
<1>0. ASSUME UNCHANGED execs PROVE OutcomesObserved' /\ OnlyLastIsOpen'
  BY <1>0 DEF SupervisorInv, OutcomesObserved, OutcomeObserved, OnlyLastIsOpen
<1>1. ASSUME NEW spec \in Specs, Initialize(spec) PROVE SupervisorInv'
  <2>1. launchSpec = None
    BY <1>1 DEF Initialize, InitializeVerdict
  <2>2. StateMatchesActive'
    BY <1>1, <2>1 DEF Initialize, SupervisorInv, StateMatchesActive
  <2>3. QED BY <1>0, <1>1, <2>2 DEF Initialize, SupervisorInv
<1>2. CASE InitializationFails
  BY <1>0, <1>2 DEF InitializationFails, SupervisorInv, StateMatchesActive
<1>3. CASE InitializationSucceeds
  <2>1. state = "uninitialized"
    BY <1>3 DEF InitializationSucceeds, SupervisorInv, StateMatchesActive
  <2>2. active = 0 /\ \A e \in 1..Len(execs) : execs[e].outcome # "failure"
    BY <2>1 DEF SupervisorInv, StateMatchesActive
  <2>3. StateMatchesActive'
    BY <1>3, <2>2 DEF InitializationSucceeds, SupervisorInv, StateMatchesActive
  <2>4. QED BY <1>0, <1>3, <2>3 DEF InitializationSucceeds, SupervisorInv
<1>4. CASE UNCHANGED vars
  BY <1>0, <1>4 DEF vars, SupervisorInv, StateMatchesActive
<1>5. ASSUME NEW e \in 1..Len(execs), Settlement(e) \/ Finish(e) PROVE SupervisorInv'
  BY <1>5, SettlementReacts, ReactionKeepsInv
<1>6. ASSUME NEW id \in InvocationIds, Stop(id) \/ StopThrows(id) PROVE SupervisorInv'
  BY <1>6, StopReacts, ReactionKeepsInv
<1>7. QED BY <1>1, <1>2, <1>3, <1>4, <1>5, <1>6, StartKeepsInv DEF Next, Call

LEMMA SupervisorInvariant == Spec => [](TypeOK /\ SupervisorInv)
<1>1. Init => TypeOK /\ SupervisorInv
  BY DEF Init, TypeOK, SessionValues, SupervisorInv, StateMatchesActive, OutcomesObserved,
         OnlyLastIsOpen
<1>2. QED BY <1>1, TypeStep, InvStep, PTL DEF Spec

\* The state, the active invocation, the reservation and the outcomes agree.
THEOREM StateCorrect == Spec => []StateMatchesActive
<1>1. SupervisorInv => StateMatchesActive
  BY DEF SupervisorInv
<1>2. QED BY <1>1, SupervisorInvariant, PTL

\* No two executions overlap, however their promises are ordered.
THEOREM NoOverlap == Spec => []NoOverlappingExecutions
<1>1. TypeOK /\ SupervisorInv => NoOverlappingExecutions
  BY DEF TypeOK, SupervisorInv, OnlyLastIsOpen, OutcomesObserved, OutcomeObserved,
         NoOverlappingExecutions
<1>2. QED BY <1>1, SupervisorInvariant, PTL

\* A failure follows from a rejection, a result from two good observations.
THEOREM OutcomesTruthful == Spec => []TruthfulOutcome
<1>1. SupervisorInv => TruthfulOutcome
  BY DEF SupervisorInv, OutcomesObserved, OutcomeObserved, TruthfulOutcome
<1>2. QED BY <1>1, SupervisorInvariant, PTL

------------------------------------------------------------------------------
(* What a step may do to the executions. *)

\* A step of a fair kind: it appends a running execution to a supervisor without
\* failures, it lets one execution react, or it leaves them alone.
LEMMA StepShape ==
    ASSUME TypeOK, SupervisorInv, [Next]_vars
    PROVE  \/ /\ state = "ready" /\ state' = "running"
              /\ \E inv \in Invocations : execs' = Append(execs, NewExecution(inv))
           \/ \E e \in 1..Len(execs) : Reacts(e)
           \/ execs' = execs /\ (state' = state \/ state = "uninitialized")
<1>1. ASSUME NEW spec \in Specs, Initialize(spec) PROVE execs' = execs /\ state' = state
  BY <1>1 DEF Initialize
<1>2. CASE InitializationFails
  BY <1>2 DEF InitializationFails
<1>3. CASE InitializationSucceeds
  BY <1>3 DEF InitializationSucceeds, SupervisorInv, StateMatchesActive
<1>4. CASE UNCHANGED vars
  BY <1>4 DEF vars
<1>5. ASSUME NEW inv \in Invocations, Start(inv)
      PROVE  /\ state = "ready" /\ state' = "running"
             /\ execs' = Append(execs, NewExecution(inv))
  BY <1>5, StartsWhenReady DEF Start
<1>6. QED BY <1>1, <1>2, <1>3, <1>4, <1>5, SettlementReacts, StopReacts DEF Next, Call

\* A reaction changes no outcome but that of the active execution.
LEMMA OutcomesKept ==
    ASSUME TypeOK, SupervisorInv, NEW e \in 1..Len(execs), Reacts(e)
    PROVE  \A d \in 1..Len(execs) :
             execs[d].outcome # "none" => execs'[d].outcome = execs[d].outcome
  BY DEF Reacts, IsActive, TypeOK

\* The terminal fact of an invocation is decided once.
THEOREM OutcomeDecidedOnce == Spec => DecidedOnce
<1> DEFINE A == \A e \in 1..Len(execs) :
                  execs[e].outcome # "none" => execs'[e].outcome = execs[e].outcome
<1>1. TypeOK /\ SupervisorInv /\ [Next]_vars => A
  <2> SUFFICES ASSUME TypeOK, SupervisorInv, [Next]_vars PROVE A
    OBVIOUS
  <2>1. ASSUME NEW inv \in Invocations, execs' = Append(execs, NewExecution(inv)) PROVE A
    BY <2>1, NewExecutionType DEF TypeOK
  <2>2. QED BY <2>1, StepShape, OutcomesKept
<1>2. TypeOK /\ SupervisorInv /\ [Next]_vars => [A]_vars
  BY <1>1
<1>3. QED BY <1>2, SupervisorInvariant, PTL DEF Spec, DecidedOnce

\* After a failure nothing is started and the state stays faulted.
THEOREM QuarantineFinal == Spec => QuarantineIsFinal
<1> DEFINE A == state = "faulted" => state' = "faulted" /\ Len(execs') = Len(execs)
<1>1. TypeOK /\ SupervisorInv /\ [Next]_vars => A
  <2> SUFFICES ASSUME TypeOK, SupervisorInv, [Next]_vars, state = "faulted" PROVE A
    OBVIOUS
  <2>1. active = 0
    BY DEF SupervisorInv, StateMatchesActive
  <2>2. ASSUME NEW e \in 1..Len(execs), Reacts(e) PROVE A
    BY <2>1, <2>2 DEF Reacts, IsActive
  <2>3. QED BY <2>2, StepShape
<1>2. TypeOK /\ SupervisorInv /\ [Next]_vars => [A]_vars
  BY <1>1
<1>3. QED BY <1>2, SupervisorInvariant, PTL DEF Spec, QuarantineIsFinal

------------------------------------------------------------------------------
(* The supervisor implements InvocationLifecycle. *)

LEMMA HistoryType ==
    ASSUME TypeOK
    PROVE  /\ InvocationHistory \in Seq(Lifecycle!Statuses)
           /\ Len(InvocationHistory) = Len(execs)
           /\ \A e \in 1..Len(execs) :
                InvocationHistory[e] =
                  IF execs[e].outcome = "none" THEN "running" ELSE execs[e].outcome
<1>1. \A e \in 1..Len(execs) :
        (IF execs[e].outcome = "none" THEN "running" ELSE execs[e].outcome)
          \in Lifecycle!Statuses
  BY Typed DEF Executions, Lifecycle!Statuses
<1>2. QED BY <1>1 DEF InvocationHistory, TypeOK

\* A start is a Begin: every earlier invocation has a result.
LEMMA StartBegins ==
    ASSUME TypeOK, TypeOK', SupervisorInv, state = "ready", NEW inv \in Invocations,
           execs' = Append(execs, NewExecution(inv))
    PROVE  Lifecycle!Begin
<1>1. \A e \in 1..Len(execs) : execs[e].outcome = "result"
  BY Typed DEF SupervisorInv, StateMatchesActive, Executions
<1>2. Lifecycle!Idle(InvocationHistory)
  BY <1>1, HistoryType DEF Lifecycle!Idle
<1>3. /\ Len(execs') = Len(execs) + 1
      /\ execs'[Len(execs) + 1].outcome = "none"
      /\ \A e \in 1..Len(execs) : execs'[e] = execs[e]
  BY NewExecutionType DEF TypeOK, NewExecution
<1>4. /\ InvocationHistory' \in Seq(Lifecycle!Statuses)
      /\ Len(InvocationHistory') = Len(execs')
      /\ \A e \in 1..Len(execs') :
           InvocationHistory'[e] =
             IF execs'[e].outcome = "none" THEN "running" ELSE execs'[e].outcome
  <2>1. \A e \in 1..Len(execs') : execs'[e] \in Executions
    BY DEF TypeOK
  <2>2. \A e \in 1..Len(execs') :
          (IF execs'[e].outcome = "none" THEN "running" ELSE execs'[e].outcome)
            \in Lifecycle!Statuses
    BY <2>1 DEF Executions, Lifecycle!Statuses
  <2>3. QED BY <2>2 DEF InvocationHistory, TypeOK
<1>5. InvocationHistory' = Append(InvocationHistory, "running")
  <2>1. "running" \in Lifecycle!Statuses
    BY DEF Lifecycle!Statuses
  <2>2. ASSUME NEW e \in 1..Len(execs) PROVE InvocationHistory'[e] = InvocationHistory[e]
    <3>1. e \in 1..Len(execs') /\ execs'[e] = execs[e]
      BY <1>3 DEF TypeOK
    <3> QED BY <1>4, <3>1, HistoryType
  <2>3. InvocationHistory'[Len(execs) + 1] = "running"
    BY <1>3, <1>4 DEF TypeOK
  <2>4. PICK old, new : old = InvocationHistory /\ new = InvocationHistory'
    OBVIOUS
  <2>5. /\ old \in Seq(Lifecycle!Statuses) /\ new \in Seq(Lifecycle!Statuses)
        /\ Len(new) = Len(old) + 1 /\ new[Len(old) + 1] = "running"
        /\ \A e \in 1..Len(old) : new[e] = old[e]
    BY <1>3, <1>4, <2>2, <2>3, <2>4, HistoryType
  <2>6. new = Append(old, "running")
    BY <2>1, <2>5
  <2>7. QED BY <2>4, <2>6
<1>6. QED BY <1>2, <1>5 DEF Lifecycle!Begin

\* A reaction ends the last invocation or is a stutter.
LEMMA ReactionEnds ==
    ASSUME TypeOK, TypeOK', SupervisorInv, NEW e \in 1..Len(execs), Reacts(e)
    PROVE  Lifecycle!Next \/ UNCHANGED InvocationHistory
<1>1. /\ Len(execs') = Len(execs)
      /\ \A d \in 1..Len(execs) : d # e => execs'[d] = execs[d]
  BY DEF Reacts, TypeOK
<1>2. CASE execs'[e].outcome = execs[e].outcome
  <2>1. \A d \in 1..Len(execs) : execs'[d].outcome = execs[d].outcome
    BY <1>1, <1>2
  <2>2. QED BY <1>1, <2>1 DEF InvocationHistory
<1>3. ASSUME NEW status \in {"result", "failure"}, IsActive(e),
             execs'[e].outcome = status
      PROVE  Lifecycle!End(status)
  <2>1. e = Len(execs) /\ execs[e].outcome = "none"
    BY <1>3 DEF IsActive, SupervisorInv, StateMatchesActive
  <2>2. /\ InvocationHistory # <<>>
        /\ Lifecycle!Last(InvocationHistory) = "running"
    BY <2>1, HistoryType DEF Lifecycle!Last
  <2>3. InvocationHistory' = [InvocationHistory EXCEPT ![e] = status]
    BY <1>1, <1>3 DEF InvocationHistory
  <2>4. QED BY <2>1, <2>2, <2>3, HistoryType DEF Lifecycle!End
<1>4. QED BY <1>2, <1>3 DEF Reacts, Lifecycle!Next

\* Invocations run one at a time, each has one terminal fact, and none is
\* started after a failure: the supervisor keeps the promise of an actor host.
THEOREM LifecycleImplemented == Spec => ImplementsLifecycle
<1>1. Init => Lifecycle!Init
  BY DEF Init, Lifecycle!Init, InvocationHistory
<1>2. TypeOK /\ TypeOK' /\ SupervisorInv /\ [Next]_vars
        => [Lifecycle!Next]_InvocationHistory
  <2> SUFFICES ASSUME TypeOK, TypeOK', SupervisorInv, [Next]_vars
               PROVE  [Lifecycle!Next]_InvocationHistory
    OBVIOUS
  <2>1. ASSUME execs' = execs PROVE UNCHANGED InvocationHistory
    BY <2>1 DEF InvocationHistory
  <2>2. QED BY <2>1, StepShape, StartBegins, ReactionEnds DEF Lifecycle!Next
<1>3. QED
  BY <1>1, <1>2, SupervisorInvariant, PTL DEF Spec, ImplementsLifecycle, Lifecycle!Spec

==============================================================================
