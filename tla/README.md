# AI_block: formal models

TLA+ models of the actor runtime in this repository, written from its TypeScript sources. TLC checks
them on small instances; TLAPS proves the safety properties of every component, and of the two ends
of a connection together, for every value of the constants. Liveness is model-checked.

The repository is a runtime for organisations of AI actors. A *runtime server* keeps projects,
definition bricks and actor templates in SQLite and commands *actor hosts* over WebSockets; an actor
host runs one backend (the Claude Code command line) at a time. At this commit the parts exist and
are tested one by one and nothing wires them into a running program (`apps/*/src/main.ts` are type
fixtures). The models therefore take each part as it stands behind its ports, and assume of a port
only what its other side in this repository does.

```
 runtime server                                           actor host
 SchemaBootstrap, ProjectStore, ActorTemplate
 HostGateway <-- WebSocketAdapter ===== WebSocket =====  ActorHost (client, connection,
   (registry, connections)         (HostProtocol)          command processor)
                                                             BackendSupervisor
                                                               ClaudeCodeBackend -- child process
```

## Inventory

Paths are relative to `apps/`. "rs" is `runtime-server/src`, "ah" is `actor-host/src`.

| Component | State it keeps | Operations | What makes it correct |
|---|---|---|---|
| Host Gateway, `rs/modules/host-gateway/host-gateway.ts` | four maps (pending/live x actor/host); of a connection: state, two sequence counters, pending commands | `openConnection`, `receive`, `sendCommand`, `send`, `connectionForActor`, the transport's failure callback | the maps and the connection states agree; one open connection per actor and per host; contiguous numbering; receipts before delivery; every command accounted for; failure is final |
| WebSocket adapter, `rs/infrastructure/actor-host-websocket/` | upgrade listener, pending verifications, active sessions; of a session: `adapterTerminal`, `coreTerminal` | `attach`, detach, upgrade, verification with deadline, frames, `shutdown` | a raw socket is ended once; the WebSocket and the gateway connection end together; shutdown leaves nothing and ends |
| Actor host connection, `ah/server-connection/` | the client's and the connection's state, two sequence counters | `connect`, `close`, open/message/error/close events, the five message kinds, the reactions that report | receipts first, truthful reports, no command forgotten; with the gateway: the ends agree on what was sent, executed and answered, and end together |
| Backend supervisor, `ah/backend/supervisor.ts` | state, launch spec, reservation, last session, active invocation | `initialize`, `start`, `stop` and the reactions to the session, completion and stop promises | one invocation at a time, one truthful terminal fact each, quarantine after a failure |
| Claude Code adapter and process runner, `ah/backend/claude-code-adapter.ts`, `process-runner.ts` | the child process and the flags `settled`, `stopRequested`, `stdinError` | spawn, observe, `kill()`, the error/exit/close events | one process; facts are what happened to the process; the promises of the port are kept |
| Project application and persistence, `rs/modules/project/application.ts`, `infrastructure/sqlite/persistence.ts` | the database; a mutex per database and process with a reference count | create/read project; create, revise, archive, read, list, history and exact read of bricks; open, close | immutable histories; answers that are true; a mutex that is shared and passed on |
| Actor templates, `rs/modules/actor/` | templates with revisions, saved snapshots | validate, create, revise, archive, read, `compileAndPersist` | a name is reserved exactly for the template that has it; snapshots carry the provenance of their revision; immutable histories; truthful answers |
| SQLite configuration and schema, `rs/modules/project/infrastructure/sqlite/configuration.ts`, `migrations/v1.ts` | the schema of the database; while it opens, a transaction | `openProjectSqlitePersistence` | a schema is created whole or not at all; only a complete v1 is served |
| Runtime contracts (`packages/`); fake backend; entry points; `scripts/check-workspace-boundaries.mjs` | none that changes at run time | schemas, decoding, digests | see "What is not modelled" |

**How they interact.** The adapter calls the gateway synchronously (`openConnection`, `receive`) and
the gateway calls back through its transport port (`send`, `observeFailure`, `fail`); either may find
a failure first and tell the other within the same turn. Between server and host there are two
message logs, numbered by their senders. In the host, a message is handled within one turn and its
answer is either sent in that turn or by a promise reaction of the supervisor; a socket may deliver
several messages, or a message and its own end, before those reactions run. The supervisor reaches
the backend through `BackendAdapter` only. Templates read bricks through a resolver that opens a unit
of work of the project for each reference.

**What is hard.** Three promises of one execution that settle in any order, with a stop in between;
events of a child process that lag behind the process; failures that start on either side of a
socket; writes that use up a sequence number before they fail; a verification raced by its deadline,
an abort and a shutdown; calls that queue on a mutex while its database is closed and opened again;
transactions of several processes, failing between two statements or crashing; processes that race
to create one schema; a validation that reads bricks which change before it writes; commands and
answers that are still in flight when their connection is given up at the other end. `PROJECT.json`
lists these hazards at their lines, each with the properties that would catch it going wrong.

## Modules

| Module | Models | Written as |
|---|---|---|
| `HostGateway` | the registry and `GatewayConnection` | a call is an action: the code is synchronous. Failing writes, providers and sinks are disjuncts. `toHost`, `facts`, `reconciled` are logs |
| `HostGatewayProofs` | - | eight theorems |
| `InvocationLifecycle` | the promise of an actor host: invocations one at a time, each with one terminal fact, none after a failure | abstract, one variable |
| `BackendSupervisor` | `BackendSupervisor` over an adapter that may settle promises in any order | a public call or a promise reaction is an action |
| `BackendSupervisorProofs` | - | seven theorems, with the refinement of `InvocationLifecycle` |
| `ClaudeCodeBackend` | adapter and process runner under an instance of `BackendSupervisor` | `child` is the process as the system and as Node sees it; `tasks` are reactions, which run before the next event |
| `ActorHost` | client, `ServerConnection` and command processor in front of an instance of `BackendSupervisor` | an event is an action; `reactions` holds the sends that settled promises cause, on the connection of their command; they run before the backend does anything more, but sockets may deliver and end in between |
| `ActorHostProofs` | - | four theorems; uses those about `BackendSupervisor` by instance |
| `HostProtocol` | `HostGateway` and `ActorHost` over the sockets between them | an action is an action of one end, or of both when a socket ends; the network is in their logs |
| `HostProtocolProofs` | - | five theorems; uses those about both ends by instance |
| `WebSocketAdapter` | upgrades, sessions, `attach`, `shutdown` | a handler is an action together with the listeners it runs; of the gateway, only open or failed |
| `AdapterProofs` | - | seven theorems, five about `ClaudeCodeBackend` and two about `WebSocketAdapter`, whose specification is named apart (`WebSocketSpec`) because this module extends both; uses those about `BackendSupervisor` by instance |
| `BrickHistory` | the promise of the stores: histories of immutable revisions that grow at their end until archived | abstract; used by two modules |
| `ProjectStore` | project application, FIFO mutex, transactions, close, crash | a step is the code between two awaits |
| `ProjectStoreProofs` | - | four theorems, with the refinement of `BrickHistory` |
| `SchemaBootstrap` | opening a database: configuring, creating and validating schema v1 | an SQL statement is a step; openers of one process follow each other, those of several interleave |
| `SchemaBootstrapProofs` | - | three theorems |
| `ActorTemplate` | template application, validation and compilation, while bricks change | a reference is resolved per step; a unit of work is one step, except that a creation reserves its name first and a compilation keeps its own open while it validates |
| `ActorTemplateProofs` | - | four theorems, with the refinement of `BrickHistory` |
| `MC...` | one instance of each, for TLC | |

Composition: `ClaudeCodeBackend` and `ActorHost` instantiate `BackendSupervisor` on their own
variables, so its actions are conjuncts of theirs. `ClaudeCodeBackend` has `Supervisor!FairSpec`, the
supervisor's specification *with its fairness*, as a property (`AdapterHonoursPort`): what the
supervisor is checked and proved under is what the only real adapter does. `ProjectStore` and
`ActorTemplate` both implement `BrickHistory`.

`HostProtocol` is the composition of the two ends of a connection. It has no messages of its own:
what one end wrote is in its log (`toHost`, `link[k].toServer`), what the other consumed is counted
by its inbound sequence number, and the next message to arrive is the first that was not consumed. A
socket that ends loses what is in flight, or delivers some of it first, since the end of a socket is
noticed at each side in its own time. A client connects, the adapter upgrades and opens the gateway's
connection, and the client sees the answer later, by which time the connection may have failed. The
gateway's validation of envelopes and identities and the host's of sequence numbers are those of the
two modules; the composition shows which of their rejections can happen between two correct ends
(`PeersAgree`: none). Two behaviours of the code are visible in it and no property objects to them:

- When a provider or the validation of a message fails, the host's `ServerConnection` is failed and
  its WebSocket client is not told (`server-connection.ts:181`): the socket stays open until a message
  arrives or the socket ends. `ConnectionsEndTogether` therefore speaks of the client.
- A command that is in flight when the gateway gives up the connection is still executed by the host,
  and its answer goes to a connection that no longer exists. `ExecutedAsCommanded` says it is executed
  once and as sent, `AnswersMatchCommands` that its answer is not taken for another's.

Names follow the source. A message is identified by its sender's sequence number, because the
providers give every message a fresh id. Definitions marked "Faulty variant" are bugs the code could
plausibly have; no specification uses them. `PROJECT.json` names, for every property of a passing
run, the definition that such a variant replaces so that TLC finds the property violated.

## Runs

Sizes are distinct states. Every configuration sets `CHECK_DEADLOCK FALSE`: all these systems may
come to rest (all calls answered, a bound reached, a supervisor quarantined). That nothing comes to
rest too early is the matter of the liveness properties.

| Run | Instance | Properties | Shows |
|---|---|---|---|
| `gateway_registry` | 3 connections (symmetric); three contexts that share an actor or a host; sequence numbers to 1; 87 k | `TypeOK`, `RegistryConsistent`, `WireIsContiguous`, `CommandAccounting`, `FailedIsFinal` | the registry and the wires through every order of opening, committing, sending, failing, reopening, with failing writes and sink, stale, early and foreign messages |
| `supervisor` | 2 executions, 2 invocations, 3 launch specs, 2 sessions; 81 k | `TypeOK`, `StateMatchesActive`, `TruthfulOutcome`, `InvocationEnds`, `ImplementsLifecycle` | every order of settlements, stops and initializations |
| `claude_code` | 2 executions with their processes; 16 k | `OneBackendProcess`, `ProcessFactsTruthful`, `AdapterHonoursPort`, `EndedProcessEnds` | `kill()` at every moment of the end of a process |
| `actor_host` | 1 connection accepting 4 messages, 2 executions; 1.3 M | `TypeOK`, `ReceiptComesFirst`, `ReportsTruthful` | whatever a server sends and whatever fails between socket and backend |
| `host_protocol` | a host that connects twice (symmetric), 2 commands; 1.4 M | `PeersAgree`, `AnswersMatchCommands`, `ExecutedAsCommanded`, `NoCommandForgotten`, `ReceiptPrecedesDelivery` | both ends with failures at either of them, a reconnecting host, late commands and answers |
| `host_protocol_ends` | 1 connection, 3 commands, 1 execution without a session; 207 k | `CommandsSettle`, `ConnectionsEndTogether`, `EndReachesTheRuntime` | an invocation that is initialized, started and stopped, to its end or that of its connection |
| `websocket_adapter` | 3 upgrades; 60 k | `EndedOnce`, `NoHalfOpenSession`, `ShutdownEnds` | a living and a closing session and a pending verification meet a shutdown |
| `store_transactions` | 3 calls with every request, in 2 processes; 1.4 M | `AnswersTruthful`, `ImplementsHistory` | interleaved, failing, crashing transactions |
| `store_closing` | 4 calls, 3 openers, 2 in one process; 110 k | `TypeOK`, `NoSelfContention`, `EveryCallAnswered` | closing, closing twice, reopening, while calls wait |
| `templates` | 3 calls on 1 template; a brick that is created, revised, archived, damaged; 570 k | `NamesMatchTemplates`, `SnapshotProvenance`, `AnswersTruthful`, `ImplementsHistory` | validation and compilation against changing bricks |
| `schema_bootstrap` | 4 openers in 3 processes; the 5 objects of v1; every kind of database; 62 k | `SchemaAllOrNothing`, `AnswersMatchSchema`, `RaceHasAWinner` | the race to create a schema, with failing statements and crashes |
| `archived_references` | a brick archived before any call | `NewReferencesActive` (violated) | the finding below |

**Why the bounds are enough.** A conflict in the registry takes two connections; the third is the
one that reopens what the first gave up. Two executions are enough for "the next one", because the
supervisor looks at the active execution only; the theorems remove this bound. Four messages on a
connection are an initialization, a start, a stop and one more; `MaxReceived` also lets a stale, an
early and a foreign message arrive in every state. In `HostProtocol` the runtime sends no command
twice on one connection, and the sequence numbers are bounded by what `MaxCommands` commands can cause,
so that this bound stops nothing; two commands on two connections are enough for a command of the old
and one of the new, and three on one for an invocation that is started and stopped. That run
has no sessions: its backend resolves or rejects the session promise, but has none to report, since
the end of an invocation waits for the promise and not for the report; reports are in the other run. Of
two commands one is an initialization whenever the other starts something, so no run of the protocol
executes twice; that no command is executed twice is what the theorem `ExecutionsAreCommanded` adds to
`ExecutedAsCommanded`. Symmetry is used for safety properties only. Three upgrades are one for each of
the states shutdown treats differently. Three calls in the store are a
writer, one that waits behind it in the same process, and one in the other process that contends for
the write lock; the second revision of a brick is the first that has a predecessor to conflict with.
`store_closing` needs the fourth call because a mutex is forgotten, and made again, only after two
closes. The template calls are an author, a competitor and a compilation. Of the four openers of a
database two share a process, so that one of them finds what the other left.

### Finding

`archived_references`: a template that references an archived brick is accepted. The accepted
specification of the project module says that archiving prevents "new authoring references"
(`openspec/changes/build-project-and-definition-brick-persistence/specs/project-definition-brick-persistence/spec.md:70-71`)
and the design has a table row that rejects it
(`docs/design/history/runtime/runtime-project-persistence-and-definition-brick-authoring-design-v0.1.md:418`).
The resolver returns the revision of an archived brick like any other and nobody looks at the status
(`rs/modules/project/infrastructure/actor-definition-brick-resolver.ts:46-60`,
`rs/modules/actor/application.ts:362-366`). In the run the brick is archived before any call, so no
race is involved.

### Fairness

Liveness is checked under weak fairness only, and each conjunct is owed by somebody:

- `BackendSupervisor`: an execution that was asked to stop completes; the observation that settles
  the completion settles the session (both derive from one promise in `claude-code-adapter.ts`); a
  reaction to settled promises runs. A backend that was not stopped may run for ever.
- `ClaudeCodeBackend`: a process that was found by the signal ends; Node notices the end of a process;
  its pipes close; reactions run. From these the run derives the two obligations above. A backend
  that ignores SIGTERM, or a descendant that keeps a pipe open, breaks the assumption; the code has
  no timeout for either, which `PROJECT.json` records as hazards.
- `HostProtocol`: what was written to a socket that lives arrives, an upgrade that was answered is seen
  by the client, a socket that ended at one side ends at the other, queued reactions run, and the
  obligations of `BackendSupervisor`. Nobody has to connect, send a command or start an invocation.
- `WebSocketAdapter`: deadlines fire, a WebSocket that is closing closes (the library terminates it
  after its own timeout), continuations of `performShutdown` run. A verifier need never answer.
- `ProjectStore`: a call that has its turn goes on, since a unit of work awaits only its own
  repositories. `BEGIN IMMEDIATE` either gets the lock or times out. Nobody has to call or crash.

## Proofs

`tlapm` checks the eight `...Proofs` modules. What they prove holds for any number of connections,
executions, upgrades, openers, calls, templates and bricks, and any value of the bounds; nothing is
assumed finite. The assumptions are those named in the modules, and TLC evaluates them for every
instance:

- `None` is no connection, client, opener, launch spec, session, invocation id or number; the status
  words of a session are not sessions.
- Contexts are records over the given sets; launch specs have an adapter, an owner and a configuration;
  the host itself is an owner; a connection generation is positive; bounds are natural numbers.
- Calls of the stores are numbers other than the one that stands for nobody (0 in `ProjectStore`); each
  has an opener, each opener a process, each brick a project and a kind; what a call may ask is a
  well-formed request; there is a kind; the bricks that change and those that were archived long ago
  are different ones. The specs of templates are sequences of descriptors.
- Schema v1 has an object and none twice; a database has an opener.

| Theorems | Establish | Strengthening |
|---|---|---|
| `HostGatewayProofs`: `TypeCorrect`, `RegistryCorrect`, `CommitNeverFails`, `WireCorrect`, `CommandsAccounted`, `FailureIsFinal`, `NoHalfOpen`, `ReceiptsPrecede` | the gateway's invariants, `FailedIsFinal`, and receipts before deliveries | `OneConnectionPerIdentity`, `CommandInv`, `ReceiptInv` |
| `BackendSupervisorProofs`: `TypeCorrect`, `StateCorrect`, `NoOverlap`, `OutcomesTruthful`, `OutcomeDecidedOnce`, `QuarantineFinal`, `LifecycleImplemented` | one execution at a time, one true outcome each, nothing after a failure | `SupervisorInv` |
| `ActorHostProofs`: `TypeCorrect`, `ReceiptFirst`, `ReportsTrue`, `CommandsAccounted` | `TypeOK`, `ReceiptComesFirst`, `ReportsTruthful`, `NoCommandForgotten` | `HostInv`, `AccountInv` |
| `HostProtocolProofs`: `PeersNeverDisagree`, `ExecutionsAreCommanded`, `BeliefsAreTrue`, `ReceiptsPrecedeDelivery`, `NoneForgotten` | `PeersAgree`, `ExecutedAsCommanded`, `AnswersMatchCommands`, `ReceiptPrecedesDelivery`, `NoCommandForgotten` | `ProtocolInv` |
| `AdapterProofs`: `OneProcess`, `FactsTruthful`, `PortKept`, `StopsMeetProcesses`, `ClaudeLifecycle` | `OneBackendProcess`, `ProcessFactsTruthful`, the safety part of `AdapterHonoursPort`, `InvocationLifecycle` for Claude Code | `ClaudeInv`, `StopIsAsked` |
| `AdapterProofs`: `SocketEndedOnce`, `SessionsEndWhole` | `EndedOnce`, `NoHalfOpenSession` | `AdapterInv` |
| `ProjectStoreProofs`: `TypeCorrect`, `OneWriterPerProcess`, `AnswersAreTrue`, `HistoryImplemented` | `TypeOK`, `NoSelfContention`, `AnswersTruthful`, `ImplementsHistory` | `StoreInv` |
| `ActorTemplateProofs`: `NamesFollowTemplates`, `SnapshotsAreTraceable`, `AnswersAreTrue`, `HistoryImplemented` | `NamesMatchTemplates`, `SnapshotProvenance`, `AnswersTruthful`, `ImplementsHistory` | `TemplateInv` |
| `SchemaBootstrapProofs`: `SchemaAtomic`, `SchemaAnswered`, `RaceIsWon` | `SchemaAllOrNothing`, `AnswersMatchSchema`, `RaceHasAWinner` | `SchemaInv`, `FoundStays`, `RaceInv` |

*Host Gateway.* `TypeCorrect` is proved first. `RegistryCorrect` shows `RegistryConsistent` and
`OneConnectionPerIdentity` together: neither is inductive alone. `OpenConnection` keeps the maps
right because no other open connection uses the keys, and the keys are unused because a map entry
says so. A lemma, `StepShapes`, reduces every action to one of five effects on the registry, so each
conjunct is looked at five times and not once per action. `CommitNeverFails` follows: the guard of
`commitLive` always holds, hence its failing branch, which would disconnect a host after its hello
was acknowledged, is dead. `WireCorrect` shows contiguous numbering; the strengthening (the next
number is the length of the log) is part of the property. `CommandsAccounted` uses it, because a
fresh number is needed for a new command not to be reconciled already. `FailureIsFinal` and
`NoHalfOpen` are by cases on the step. `ReceiptsPrecede` needs `ReceiptInv`: what was acknowledged and
what the sink accepted are the same messages, except for the hello and for the last message of a
connection that failed, and both are in the order of arrival. Its lemmas take the type of the logged
messages as a parameter, so that `HostProtocolProofs` can use them. `OneConnectionPerIdentity`,
`PendingMayCommit` and `NoHalfOpenConnection` are proved and not among the properties of a run.

*Supervisor.* `StateMatchesActive` is not inductive: that a result never follows a failure needs
what was observed of each execution. `SupervisorInv` adds `OutcomesObserved` (an outcome matches the
promises of its execution, and one without an outcome has seen no rejection) and `OnlyLastIsOpen`
(every execution but the last ended with a result). All reactions are instances of one shape (`Reacts`: one execution changes,
and it ends only if it is active), so the invariant is shown for the shape once
(`ReactionKeepsInv`) and each reaction is shown to have it. From the invariant follow `StateCorrect`,
`NoOverlap` (an execution starts only after the completion of all earlier ones was observed),
`OutcomesTruthful`, `OutcomeDecidedOnce`, `QuarantineFinal`, and `LifecycleImplemented`: `Start` maps
to `Begin`, the reaction that decides an outcome to `End`, everything else to a stutter.

*Actor host.* The supervisor's invariant holds of the instance in the host, because every host action
makes a supervisor's step or none (`SameSteps`, `SupervisorKept`). `HostInv` adds, of each link, that
its log starts with the hello and each of its answers is to a command that was received and
acknowledged before it, and that whoever still owes an answer (`waiting`, `origin`, `reactions`) owes it to a command
of the right kind that was acknowledged. `SaidTruthfully` and
`QueuedTruthfully` say of an execution what was told about it and what is about to be: the session
first, the end last, and both as the supervisor has it. `ReportsTruthful` is not inductive because a
report is true when it is queued and sent later, behind whatever other reactions and messages the turn
brings. So among what is queued of one execution (`Queued`) a session must come before everything else
and an end after, and nothing may be queued of it once its end was. `AccountInv` strengthens `NoCommandForgotten`: a start is accounted for by the
*end* of its invocation, said, queued or promised by an execution that runs. A queued session report
satisfies the property, but after it was sent only the running execution does.

*Claude Code.* Neither `OneBackendProcess` nor `ProcessFactsTruthful` is inductive: a completion is
true when the supervisor learns it, and what it will learn waits in the queue of reactions. `ClaudeInv`
relates the three. A process whose observation has not settled is unobserved by the supervisor, and one
whose observation has settled is observed entirely, unless reactions of it are queued; then the queue
has one of a few forms (`NoneRan`, `SessionRan`, `CompletionRan`, `Undelivered`), each of which says which
promises the supervisor has seen and, if a fact is among what is queued, that it is true of the closed
process (`TrueFact`). `killed` and `stopRequested` agree and mean an accepted stop. Every reaction takes
one form to the next, and every event starts with an empty queue and makes the first form. At the same
time each step is shown to be a step of the supervisor or none, which is `PortKept`: with it, all that is
proved about `BackendSupervisor` is proved of Claude Code (`ClaudeLifecycle` among it). `OneProcess` then
follows from both sides: every execution but the last has a result (`OnlyLastIsOpen`), and a result is
a fact of a closed process. That a process which could not be killed may run on is no exception,
because its failure is the last invocation's. `StopIsAsked` (the active execution is asked to stop only
by a supervisor that is stopping) makes a second signal impossible. `StopsMeetProcesses` says that a
stop the supervisor requests is the first of a process that is not settled, so the two early returns
of `NodeProcessExecution.stop` (`process-runner.ts:117-118`) are not taken, and the model, whose `Stop` has
the second as a guard, loses nothing.

*Protocol.* `HostProtocolProofs` reuses both ends: the lemmas about `ActorHost` hold for any set `P`
of payloads the server sends, so that the gateway's commands may take its place, and those about
receipts hold for the gateway's logs. What is new, `ConnectionInv`, is about the network between the
logs: each end consumed a prefix of what the other wrote; the gateway's log is numbered; every command
of a live connection is pending or reconciled; what was reconciled was received by the host. From this
follows that neither end ever rejects a message of the other (`PeersAgree`), that executions are what
was commanded, once, and that what the runtime believes about a command is so. A connection that failed at one end only consumes nothing there any more, so the prefixes
stay prefixes however late the other end learns of it.

*WebSocket adapter.* `AdapterInv`: nothing is done to the raw socket of an upgrade until its
verification settles, then it is ended once, unless its peer had gone; an upgrade has a session
exactly if it was answered with an upgrade; an open connection is in `activeSessions`, which is what
a shutdown goes through. The operators that end a request are shown once to make one of four records
(`Outcomes`), and every step changes one request or one session, or is the shutdown.

*Stores.* Both proofs reduce a step of a call to a few shapes (`StepShapes`), eight in `ProjectStore`
(working, declining, beginning, rolling back, committing, returning, closing, releasing), nine in
`ActorTemplate`, and each part of the invariant is shown for the shapes. `StoreInv` has a part for
the locks (a call in a transaction holds the write lock for its opener, and its turn; the reference
count of a mutex is the number of openers that have not released it) and one for the contents: the
committed database is whole, `working` differs from it by exactly what the transaction has written
(`Wrote`), and rows are left by calls that committed. `OneTransaction` joins them: there is one
transaction, so a commit replaces the database it started from. `TemplateInv` says what a validation
has found so far (`FoundInStore`, `FoundAll`) and that a creation which reserved its name has its unit
of work (`ReservesName`). That what was resolved before a unit of work is still there after it needs
`Grows`: bricks only gain revisions. Both refinements of `BrickHistory` map a commit, or a step of a
unit of work, to `Create`, `Revise` or `Archive`, and everything else, a rollback and a crash
included, to a stutter.

*Schema bootstrap.* `SchemaAllOrNothing` speaks of the committed database and says nothing of a
transaction that is about to replace it. `SchemaInv` adds that the write lock is held exactly between
BEGIN and COMMIT, what the transaction has written at each of its statements, and that from its
second inspection on the committed database is empty (`WorkingMatchesStatement`); only the holder of
the lock can change that, so a commit replaces an empty database by v1. Steps are grouped by what they
do: reading, writing in the transaction, beginning, committing, ending, crashing. `SchemaAnswered`
adds `FoundStays`: an opener that found v1 goes straight through the validation, and v1 stays.
`RaceIsWon` adds `RaceInv`: while no statement fails, an opener that was refused lost to one that
holds the lock or has committed, and that one is served unless its process dies.

*Only model-checked:* all liveness (`InvocationEnds`, `EndedProcessEnds`, `CommandsSettle`,
`ConnectionsEndTogether`, `EndReachesTheRuntime`, `ShutdownEnds`, `EveryCallAnswered` and the fairness
part of `AdapterHonoursPort`), which is out of the prover's reach. Every invariant, action property and
refinement that a passing run checks is also proved.

## Abstractions

- Contents of messages, credentials, HTTP bytes, bodies, digests and wording are left out. A message
  that does not decode is one value, `malformed`. A body is named by the call that brought it.
- The supervisor under `ClaudeCodeBackend` is called when no reaction of the process is queued. Several
  calls in one turn, with reactions waiting between them, are part of `ActorHost`, whose backend is any.
- The terminal JSON of a backend says a session, no valid session, or nothing readable.
- In `ActorTemplate` the verdicts of backend adapters, tool providers and the workspace are arbitrary
  for every candidate, so whatever they depend on is allowed. The actor's unit of work is a port
  without an implementation at this commit; it is taken to be exclusive and atomic, like the one of
  the project module. This is an assumption of the models.
- `ProjectStore` starts from databases that earlier processes may have left and reads back what was
  written; damaged rows are modelled where they are compared, in `ActorTemplate`.
- In `SchemaBootstrap` a schema is a set of objects, each as v1 has it or not, and the versions in its
  version table. The checks of the path and of the connection's settings pass or fail as one.
- SQLite is external: transactions are atomic and durable, a crash rolls back what was not committed,
  one writer at a time. So are the child process and the WebSocket library.

## What is not modelled

- Which path a database gets in `configuration.ts`. `canonicalDatabasePath` resolves symbolic links only
  of a file that exists (lines 47-58): a database that is first opened through a dangling link is
  registered under the link's own path, and when it is opened again, under its target's. The two openers
  then have two mutexes in one process and `NoSelfContention`, which `ProjectStore` shows for one
  mutex per database, would not follow. File names, links and the moment a file appears are not part of
  a model.
- That opening answers `unsupported_schema_version` to a disk error or a lock that is held too long
  (`migrations/v1.ts:131-151`) is modelled (`StatementFails`); `AnswersMatchSchema` says that only these
  make it refuse a good database.
- `packages/runtime-contracts`: schemas, decoding and digests are pure data.
- `ah/backend/fake-backend.ts`: a scripted adapter for tests; the supervisor is checked against
  everything the port allows.
- `apps/*/src/main.ts`, `scripts/`: fixtures and a lint.
- Of validation and compilation, the order of issues, canonical bodies and digests.

## Plan

Done, in this order: `HostGateway`; `InvocationLifecycle` and `BackendSupervisor` with its refinement;
`ActorHost`; `ClaudeCodeBackend` against the supervisor's port; `WebSocketAdapter`; `BrickHistory` and
`ProjectStore`; `ActorTemplate`; `HostProtocol`, which composes `HostGateway` and `ActorHost`;
`SchemaBootstrap`; proofs of the safety properties of all of them.

Next:

- Pure algorithms as operators checked against reference definitions over bounded inputs: the order
  and de-duplication of validation issues, the canonical form that digests are computed from.

## Running

```
tlc -workers 2 -config MCHostGateway.cfg MCHostGateway
tlapm HostGatewayProofs.tla
```

Every `MC*.cfg` is run with the module it is named after (`MCHostProtocolLive.cfg` with
`MCHostProtocol`, `MCProjectStoreClosing.cfg` with `MCProjectStore`, and so on). The slowest runs take
about two minutes with two workers. The proofs of the host, of the protocol and of the stores take
several minutes each, the others less.
