--------------------------- MODULE ClaudeCodeBackend ---------------------------
(***************************************************************************)
(* The Claude Code adapter under a BackendSupervisor: one child process    *)
(* per execution (NodeProcessExecution), observed once (ClaudeCodeExecution) *)
(* and turned into the session, the completion and the stop of the         *)
(* adapter port.                                                           *)
(*                                                                         *)
(* The operating system and Node's view of it lag behind one another: a    *)
(* child that has ended is first a zombie, then noticed by Node (the       *)
(* "exit" event), then closed (the "close" event, after its pipes).  The   *)
(* reactions an event causes run before the next event.                    *)
(***************************************************************************)
EXTENDS Integers, Sequences

CONSTANTS
    Adapters, AdapterId, Owners, Specs, Configs, InvocationIds, Sessions,
    None, MaxStarts        \* see BackendSupervisor

ASSUME SupervisorAssumption ==
    /\ Specs \subseteq [adapter: Adapters, owner: Owners, config: Configs]
    /\ None \notin Specs /\ None \notin Sessions
    /\ {"pending", "rejected"} \intersect (Sessions \union {None}) = {}
    /\ MaxStarts \in Nat

Facts == {"exited", "signaled", "stopped"}

VARIABLES
    state, launchSpec, initialization, sessionId, active, execs,  \* the supervisor
    child,       \* for each execution, its child process and NodeProcessExecution
    tasks        \* reactions to settled promises that have not run yet

supervisor == <<state, launchSpec, initialization, sessionId, active, execs>>
vars == <<supervisor, child, tasks>>

Supervisor == INSTANCE BackendSupervisor

------------------------------------------------------------------------------

\* What the terminal JSON on stdout says: a session, no valid session, or
\* nothing that can be read as a successful result.
Outputs == Sessions \union {"no_session", "unreadable"}

\* A child process is unborn, running, zombie (it has ended and Node has not noticed),
\* noticed (its pipes are open) or closed.  "ended" is how it ended, "output" what it
\* printed, and "killed" whether kill() found it; the other fields are those of
\* NodeProcessExecution and its stdinError.
NewChild(os) ==
    [ os |-> os, ended |-> None, output |-> "unreadable", killed |-> FALSE,
      settled |-> FALSE, stopRequested |-> FALSE, stdinError |-> FALSE ]

Task(e, kind, value) == [execution |-> e, kind |-> kind, value |-> value]
SessionIs(e, s) == Task(e, "session", s)
SessionFails(e) == Task(e, "session_fails", None)
CompletionIs(e, s, fact) == Task(e, "completion", [session |-> s, fact |-> fact])
CompletionFails(e) == Task(e, "completion_fails", None)
StopFails(e) == Task(e, "stop_fails", None)
Finishes(e) == Task(e, "finish", None)

\* Faulty variant: nobody settles the session.
SucceedsWithoutSession(e, s, fact) == <<CompletionIs(e, s, fact), Finishes(e)>>

\* The reactions to one observation of the process: the session settles before
\* the completion, and the supervisor finishes after both.
Succeeds(e, s, fact) == <<SessionIs(e, s), CompletionIs(e, s, fact), Finishes(e)>>
FailsCompletion(e) == <<SessionIs(e, None), CompletionFails(e)>>
FailsSession(e) == <<SessionFails(e), CompletionFails(e)>>

Quiet == tasks = <<>>

------------------------------------------------------------------------------
(* Calls of the supervisor that reach the adapter. *)

\* The metadata process of initialize is observed to its end like any other; its
\* exit, version or launch may be refused.
Initialization ==
    /\ Quiet
    /\ \/ \E spec \in Specs : Supervisor!Initialize(spec)
       \/ Supervisor!InitializationFails
       \/ Supervisor!InitializationSucceeds
    /\ UNCHANGED <<child, tasks>>

\* The child is spawned, or Node tells in the next tick that it could not be.  A
\* spawn that throws is a launch failure and changes nothing.
Start(inv) ==
    /\ Quiet
    /\ Supervisor!Start(inv)
    /\ LET e == Len(execs) + 1 IN
         \/ /\ child' = Append(child, NewChild("running"))
            /\ UNCHANGED tasks
         \/ /\ child' = Append(child, [NewChild("unborn") EXCEPT !.settled = TRUE])
            /\ tasks' = FailsCompletion(e)

\* Faulty variant: a process that could not be killed counts as stopped.
UnkillableStopped(e) == Succeeds(e, None, "stopped")

\* kill() emits an error: the completion is rejected along with the stop.
Unkillable(e) == <<StopFails(e), SessionIs(e, None), CompletionFails(e)>>

\* Faulty variant: a stop that failed stays requested.
KilledForgetting(e, c) ==
    \/ /\ c.os \in {"running", "zombie"}
       /\ child' = [child EXCEPT ![e].stopRequested = TRUE, ![e].killed = TRUE]
       /\ UNCHANGED tasks
    \/ /\ c.os = "noticed"
       /\ child' = [child EXCEPT ![e].stopRequested = TRUE]
       /\ UNCHANGED tasks
    \/ /\ c.os \in {"running", "zombie"}
       /\ child' = [child EXCEPT ![e].settled = TRUE]
       /\ tasks' = Unkillable(e)

\* kill() of a child c: it finds a process that Node has not noticed the end of,
\* even a zombie; it returns false after that; or it emits an error and returns
\* false.  A stop that was not delivered is no longer requested.
Killed(e, c) ==
    \/ /\ c.os \in {"running", "zombie"}
       /\ child' = [child EXCEPT ![e].stopRequested = TRUE, ![e].killed = TRUE]
       /\ UNCHANGED tasks
    \/ /\ c.os = "noticed"
       /\ tasks' = <<StopFails(e)>>
       /\ UNCHANGED child
    \/ /\ c.os \in {"running", "zombie"}
       /\ child' = [child EXCEPT ![e].settled = TRUE]
       /\ tasks' = Unkillable(e)

\* The supervisor stops an execution once, and not after it has settled.
Stop(id) ==
    /\ Quiet
    /\ Supervisor!Stop(id)
    /\ ~child[active].settled
    /\ Killed(active, child[active])

------------------------------------------------------------------------------
(* What the operating system does, and the events of the child. *)

\* The process ends, by itself or because of a signal.
Ends(e) ==
    /\ Quiet
    /\ child[e].os = "running"
    /\ \E ended \in {"exited", "signaled"}, output \in Outputs :
         child' = [child EXCEPT ![e].os = "zombie", ![e].ended = ended, ![e].output = output]
    /\ UNCHANGED <<supervisor, tasks>>

StdinFails(e) ==
    /\ Quiet
    /\ child[e].os \in {"running", "zombie", "noticed"}
    /\ child' = [child EXCEPT ![e].stdinError = TRUE]
    /\ UNCHANGED <<supervisor, tasks>>

Exit(e) ==
    /\ Quiet
    /\ child[e].os = "zombie"
    /\ child' = [child EXCEPT ![e].os = "noticed"]
    /\ UNCHANGED <<supervisor, tasks>>

\* Faulty variant: a stopped process resolves the stop only.
ObservationStopLost(e, c) ==
    CASE c.stopRequested -> <<>>
      [] ~c.stopRequested /\ c.stdinError -> FailsCompletion(e)
      [] OTHER -> IF c.output \in Sessions THEN Succeeds(e, c.output, c.ended)
                  ELSE IF c.output = "no_session" THEN FailsSession(e)
                  ELSE FailsCompletion(e)

\* What the closed process is observed as.
Observation(e, c) ==
    CASE c.stopRequested -> Succeeds(e, None, "stopped")
      [] ~c.stopRequested /\ c.stdinError -> FailsCompletion(e)
      [] OTHER -> IF c.output \in Sessions THEN Succeeds(e, c.output, c.ended)
                  ELSE IF c.output = "no_session" THEN FailsSession(e)
                  ELSE FailsCompletion(e)

\* The "close" event.
Closes(e) ==
    /\ Quiet
    /\ child[e].os = "noticed"
    /\ child' = [child EXCEPT ![e].os = "closed", ![e].settled = TRUE]
    /\ tasks' = IF child[e].settled THEN <<>> ELSE Observation(e, child[e])
    /\ UNCHANGED supervisor

------------------------------------------------------------------------------

\* The reactions of the supervisor.  One that settles after the invocation has
\* ended has nothing to finish.
Reacts(t) ==
    CASE t.kind = "session" -> Supervisor!SessionResolves(t.execution, t.value)
      [] t.kind = "session_fails" -> Supervisor!SessionRejects(t.execution)
      [] t.kind = "completion" -> Supervisor!CompletionResolves(t.execution, t.value)
      [] t.kind = "completion_fails" -> Supervisor!CompletionRejects(t.execution)
      [] t.kind = "stop_fails" -> Supervisor!StopRejects(t.execution)
      [] OTHER -> IF Supervisor!IsActive(t.execution) THEN Supervisor!Finish(t.execution)
                  ELSE UNCHANGED supervisor

React ==
    /\ tasks # <<>>
    /\ Reacts(Head(tasks))
    /\ tasks' = Tail(tasks)
    /\ UNCHANGED child

Init ==
    /\ Supervisor!Init
    /\ child = <<>>
    /\ tasks = <<>>

ChildStep(e) == Ends(e) \/ StdinFails(e) \/ Exit(e) \/ Closes(e)

Next ==
    \/ Initialization
    \/ \E inv \in Supervisor!Invocations : Start(inv)
    \/ \E id \in InvocationIds : Stop(id)
    \/ \E e \in 1..Len(child) : ChildStep(e)
    \/ React

Spec == Init /\ [][Next]_vars

\* A process that was sent a signal ends, Node notices the end of a process, its
\* pipes close, and reactions run.  Nothing else has to happen.
Fairness ==
    /\ WF_vars(React)
    /\ \A e \in 1..MaxStarts :
         /\ WF_vars(e <= Len(child) /\ child[e].killed /\ Ends(e))
         /\ WF_vars(e <= Len(child) /\ Exit(e))
         /\ WF_vars(e <= Len(child) /\ Closes(e))

FairSpec == Spec /\ Fairness

------------------------------------------------------------------------------
(* Properties. *)

\* There is at most one backend process, and none when the supervisor would start
\* one: a process that could not be killed, or whose end was not observed, is
\* never joined by another.
OneBackendProcess ==
    /\ \A d, e \in DOMAIN child : child[d].os = "running" /\ child[e].os = "running" => d = e
    /\ state \in {"uninitialized", "ready"} =>
         \A e \in DOMAIN child : child[e].os \in {"unborn", "closed"}

\* A result is a process fact: "stopped" is said of a process that was found by
\* the signal of an accepted stop, anything else of one that ended so without any
\* signal of ours, with the session it printed; and the process is closed.
ProcessFactsTruthful ==
    \A e \in DOMAIN child :
        execs[e].outcome = "result" =>
          /\ child[e].os = "closed"
          /\ IF execs[e].value.fact = "stopped"
             THEN child[e].killed /\ execs[e].stop = "requested"
             ELSE /\ ~child[e].killed
                  /\ execs[e].value.fact = child[e].ended
                  /\ execs[e].value.session = child[e].output
                  /\ ~child[e].stdinError

\* The adapter keeps the promises of its port that the supervisor relies on: its
\* session, completion and stop settle at most once, a stopped execution
\* completes, and the observation that settles the completion settles the
\* session.
AdapterHonoursPort == Supervisor!FairSpec

\* A process that has ended ends its invocation, with whatever fact, and an
\* accepted stop does so too.
EndedProcessEnds ==
    \A e \in 1..MaxStarts :
        (e <= Len(child) /\ (child[e].os \in {"unborn", "zombie"} \/ execs[e].stop # "none"))
          ~> (e <= Len(child) /\ execs[e].outcome # "none")

==============================================================================
