------------------------------ MODULE ActorHost ------------------------------
(***************************************************************************)
(* The actor host: WebSocket clients (ActorHostWebSocketClient), each with *)
(* its ServerConnection and ActorHostCommandProcessor, in front of one     *)
(* BackendSupervisor.                                                      *)
(*                                                                         *)
(* One event of the runtime is one action.  What a promise reaction of the *)
(* command processor sends is queued in "reactions".  Reactions are        *)
(* microtasks: the queue drains before the backend does anything more, but *)
(* a socket that has several messages to deliver, or a message and its     *)
(* end, may do so in one turn, before the reactions to the first.          *)
(***************************************************************************)
EXTENDS Integers, Sequences

CONSTANTS
    Adapters, AdapterId, Owners, Specs, Configs, InvocationIds, Sessions, Facts,
    None, MaxStarts,        \* see BackendSupervisor
    Clients,                \* WebSocket clients; each connects at most once
    Self,                   \* the owner this host is authenticated for
    ConnectionGeneration,   \* the generation of its connections
    MaxReceived             \* bound: messages the exploration lets a connection accept

\* What BackendSupervisor assumes of the constants that are passed on to it.
ASSUME SupervisorAssumption ==
    /\ Specs \subseteq [adapter: Adapters, owner: Owners, config: Configs]
    /\ None \notin Specs /\ None \notin Sessions
    /\ {"pending", "rejected"} \intersect (Sessions \union {None}) = {}
    /\ MaxStarts \in Nat
ASSUME NoneAssumption == None \notin Nat /\ None \notin InvocationIds
ASSUME SelfAssumption == Self \in Owners
ASSUME ClientsAssumption == None \notin Clients
ASSUME GenerationAssumption == ConnectionGeneration \in Nat \ {0}
ASSUME MaxReceivedAssumption == MaxReceived \in Nat

VARIABLES
    state, launchSpec, initialization, sessionId, active, execs,  \* the supervisor
    link,        \* of each client: its state, its connection and what it has sent
    waiting,     \* callers of initialize that wait for the reservation, in order
    origin,      \* for each execution, the client and the message that started it
    reactions    \* sends that settled promises have queued

supervisor == <<state, launchSpec, initialization, sessionId, active, execs>>
vars == <<supervisor, link, waiting, origin, reactions>>

Supervisor == INSTANCE BackendSupervisor

------------------------------------------------------------------------------
(* Messages. *)

Commands ==
    [kind: {"initialize_actor_host"}, spec: Specs]
      \union [kind: {"start_invocation"}, inv: Supervisor!Invocations]
      \union [kind: {"stop_invocation"}, id: InvocationIds]
      \union [kind: {"shutdown_host"}]
ServerPayloads == Commands \union [kind: {"ack"}]
ServerMessages == [generation: Nat, seq: Nat, payload: ServerPayloads]

\* The reasons a supervisor rejects a call or fails an invocation.
ErrorCodes ==
    { "not_initialized", "busy", "no_active_invocation", "invocation_mismatch",
      "already_initialized", "adapter_mismatch", "identity_mismatch", "initialization_failed",
      "adapter_stop_failed", "session_observation_failed", "completion_observation_failed",
      "quarantined" }

HostPayloads ==
    [kind: {"host_hello"}]
      \union [kind: {"ack"}, acknowledged: Nat]
      \union [kind: {"host_ready"}]
      \union [kind: {"session_report"}, id: InvocationIds, session: Sessions]
      \union [kind: {"invocation_result"}, id: InvocationIds,
              session: Sessions \union {None}, fact: Facts \union {"launch_failed"}]
      \union [kind: {"host_fault"}, id: InvocationIds \union {None}, code: ErrorCodes]

\* A message is identified by its sequence number: an envelope carries that of
\* the message that caused it.
Envelopes == [seq: Nat, cause: Nat \union {None}, payload: HostPayloads]

\* "received" holds the payloads the connection accepted; their number is its
\* next inbound sequence number.
Links == [ client: {"created", "connecting", "open", "failed", "closed"},
           connection: {"not_started", "live", "failed"},
           nextOutbound: Nat,
           received: Seq(ServerPayloads),
           toServer: Seq(Envelopes) ]

NextInbound(k) == Len(link[k].received)

Causes == [client: Clients, seq: Nat]
Intents == [cause: Causes, payload: HostPayloads]

Hello == [kind |-> "host_hello"]
Ack(m) == [kind |-> "ack", acknowledged |-> m.seq]
Ready == [kind |-> "host_ready"]
Report(id, s) == [kind |-> "session_report", id |-> id, session |-> s]
Result(id, s, fact) == [kind |-> "invocation_result", id |-> id, session |-> s, fact |-> fact]
Fault(id, code) == [kind |-> "host_fault", id |-> id, code |-> code]

------------------------------------------------------------------------------
(* The client and its connection. *)

\* Faulty variant: the connection gets a state it does not have.
ClientFailedClosing(l) ==
    IF l.client \in {"failed", "closed"} THEN l
    ELSE [l EXCEPT !.client = "failed", !.connection = "closed"]

\* fail of the client: it tells the connection, unless the client has ended.
ClientFailed(l) ==
    IF l.client \in {"failed", "closed"} THEN l
    ELSE [l EXCEPT !.client = "failed", !.connection = "failed"]

\* send of the transport: the links it may leave.  The socket is not open, the
\* message cannot be serialized, the buffer is full or the socket throws, and the
\* client fails; or the socket takes the message.
Transmitted(l, envelope) ==
    { [ClientFailed(l) EXCEPT !.connection = "failed"] }
      \union IF l.client # "open" THEN {}
             ELSE { [l EXCEPT !.toServer = Append(@, envelope)] }

\* write: it uses up a sequence number.  A provider or the validation fails, and
\* only the connection knows; or the transport sends, and the connection fails if
\* that throws.
Written(l, cause, payload) ==
    LET tried == [l EXCEPT !.nextOutbound = @ + 1] IN
    { [tried EXCEPT !.connection = "failed"] }
      \union Transmitted(tried, [seq |-> l.nextOutbound, cause |-> cause, payload |-> payload])

\* Faulty variant: a failed connection still writes.
SentAnyway(l, cause, payload) == Written(l, cause, payload)

\* send: a connection that is not live rejects it.
Sent(l, cause, payload) ==
    IF l.connection # "live" THEN {l} ELSE Written(l, cause, payload)

\* The backend does nothing while a reaction is queued.  A socket may: ws emits
\* the messages of one chunk in one turn (allowSynchronousEvents, its default).
Quiet == reactions = <<>>

Connect(k) ==
    /\ link[k].client = "created"
    /\ link' = [link EXCEPT ![k].client = "connecting"]
    /\ UNCHANGED <<supervisor, waiting, origin, reactions>>

\* The configuration is invalid, or the socket cannot be created.
ConnectFails(k) ==
    /\ link[k].client = "created"
    /\ link' = [link EXCEPT ![k] = ClientFailed(@)]
    /\ UNCHANGED <<supervisor, waiting, origin, reactions>>

\* The socket opens, and the connection says hello.  A hello that cannot be
\* written fails the client as well.
Opens(k) ==
    /\ link[k].client = "connecting"
    /\ \E l \in Written([link[k] EXCEPT !.client = "open"], None, Hello) :
         link' = [link EXCEPT ![k] = IF l.connection = "failed" THEN ClientFailed(l)
                                     ELSE [l EXCEPT !.connection = "live"]]
    /\ UNCHANGED <<supervisor, waiting, origin, reactions>>

\* The socket errs or closes, the handshake fails, a frame is binary, too large
\* or malformed, or a buffered send fails.
SocketFails(k) ==
    /\ link[k].client \in {"connecting", "open"}
    /\ link' = [link EXCEPT ![k] = ClientFailed(@)]
    /\ UNCHANGED <<supervisor, waiting, origin, reactions>>

\* close: the connection is not told and finds out when it writes.
Close(k) ==
    /\ link[k].client # "closed"
    /\ link' = [link EXCEPT ![k].client = "closed"]
    /\ UNCHANGED <<supervisor, waiting, origin, reactions>>

------------------------------------------------------------------------------
(* Receiving a message. *)

\* Faulty variant: a message from the past is taken for the expected one.
ExpectedOrStale(k, m) ==
    /\ link[k].connection = "live"
    /\ m.generation = ConnectionGeneration
    /\ m.seq <= NextInbound(k)

Expected(k, m) ==
    /\ link[k].connection = "live"
    /\ m.generation = ConnectionGeneration
    /\ m.seq = NextInbound(k)

ReceiveRejected(k, m) ==
    /\ link[k].client = "open"
    /\ ~Expected(k, m)
    /\ link' = [link EXCEPT ![k] = ClientFailed(@)]
    /\ UNCHANGED <<supervisor, waiting, origin, reactions>>

Accepts(k, m) == link[k].client = "open" /\ Expected(k, m)

Consumed(k, m) == [link[k] EXCEPT !.received = Append(@, m.payload)]

ReceiveAck(k, m) ==
    /\ Accepts(k, m)
    /\ m.payload.kind = "ack"
    /\ link' = [link EXCEPT ![k] = Consumed(k, m)]
    /\ UNCHANGED <<supervisor, waiting, origin, reactions>>

IsCommand(m) == m.payload.kind # "ack"

\* The receipt of a command cannot be written: the command is dropped and the
\* client fails.
ReceiptFails(k, m) ==
    /\ Accepts(k, m) /\ IsCommand(m)
    /\ \E l \in Sent(Consumed(k, m), m.seq, Ack(m)) :
         /\ l.connection = "failed"
         /\ link' = [link EXCEPT ![k] = ClientFailed(l)]
    /\ UNCHANGED <<supervisor, waiting, origin, reactions>>

\* The links after the receipt of a command was written.
Acknowledged(k, m) == { l \in Sent(Consumed(k, m), m.seq, Ack(m)) : l.connection = "live" }

\* A command is acknowledged, and its handler returns without sending.
Acknowledge(k, m) == \E l \in Acknowledged(k, m) : link' = [link EXCEPT ![k] = l]

\* Faulty variant: the answer is sent before the receipt.
AnswerAndAcknowledge(k, m, payload) ==
    \E l \in Sent(Consumed(k, m), m.seq, payload) : \E r \in Sent(l, m.seq, Ack(m)) :
        link' = [link EXCEPT ![k] = r]

\* A command is acknowledged and answered at once.
AcknowledgeAndAnswer(k, m, payload) ==
    \E l \in Acknowledged(k, m) : \E r \in Sent(l, m.seq, payload) :
        link' = [link EXCEPT ![k] = r]

Command(k, m, kind) == Accepts(k, m) /\ m.payload.kind = kind

Cause(k, m) == [client |-> k, seq |-> m.seq]
Queue(k, m, payload) ==
    reactions' = Append(reactions, [cause |-> Cause(k, m), payload |-> payload])

------------------------------------------------------------------------------
(* initialize_actor_host.  The supervisor answers with a promise. *)

InitializeForeign(k, m) ==
    /\ Command(k, m, "initialize_actor_host")
    /\ m.payload.spec.owner # Self
    /\ AcknowledgeAndAnswer(k, m, Fault(None, "identity_mismatch"))
    /\ UNCHANGED <<supervisor, waiting, origin, reactions>>

Initialize(k, m) ==
    /\ Command(k, m, "initialize_actor_host")
    /\ m.payload.spec.owner = Self
    /\ Acknowledge(k, m)
    /\ LET verdict == Supervisor!InitializeVerdict(m.payload.spec) IN
         CASE verdict \in {"begin", "join"} ->
                /\ waiting' = Append(waiting, Cause(k, m))
                /\ IF verdict = "begin" THEN Supervisor!Initialize(m.payload.spec)
                   ELSE UNCHANGED supervisor
                /\ UNCHANGED reactions
           [] verdict = "already_initialized" ->
                Queue(k, m, Ready) /\ UNCHANGED <<supervisor, waiting>>
           [] OTHER ->
                Queue(k, m, Fault(None, verdict)) /\ UNCHANGED <<supervisor, waiting>>
    /\ UNCHANGED origin

\* Faulty variant: only the caller that made the reservation is answered.
AnswerFirst(payload) ==
    /\ reactions' = <<[cause |-> Head(waiting), payload |-> payload]>>
    /\ waiting' = <<>>

\* The reservation settles: everybody who waits for it is answered.
AnswerAll(payload) ==
    /\ reactions' = [i \in 1..Len(waiting) |-> [cause |-> waiting[i], payload |-> payload]]
    /\ waiting' = <<>>

InitializationFails ==
    /\ Quiet
    /\ Supervisor!InitializationFails
    /\ AnswerAll(Fault(None, "initialization_failed"))
    /\ UNCHANGED <<link, origin>>

InitializationSucceeds ==
    /\ Quiet
    /\ Supervisor!InitializationSucceeds
    /\ AnswerAll(Ready)
    /\ UNCHANGED <<link, origin>>

------------------------------------------------------------------------------
(* start_invocation, stop_invocation and shutdown_host. *)

\* The command is for another actor, or the supervisor rejects it.
StartRejected(k, m) ==
    /\ Command(k, m, "start_invocation")
    /\ LET code == IF m.payload.inv.owner # Self THEN "identity_mismatch"
                   ELSE Supervisor!StartVerdict(m.payload.inv)
       IN  /\ code # "adapter"
           /\ AcknowledgeAndAnswer(k, m, Fault(m.payload.inv.id, code))
    /\ UNCHANGED <<supervisor, waiting, origin, reactions>>

MayStart(k, m) ==
    /\ Command(k, m, "start_invocation")
    /\ m.payload.inv.owner = Self
    /\ Supervisor!StartVerdict(m.payload.inv) = "adapter"

LaunchFails(k, m) ==
    /\ MayStart(k, m)
    /\ AcknowledgeAndAnswer(k, m, Result(m.payload.inv.id, None, "launch_failed"))
    /\ UNCHANGED <<supervisor, waiting, origin, reactions>>

\* adapter.start throws: the exception reaches the client, which fails.
StartThrows(k, m) ==
    /\ MayStart(k, m)
    /\ \E l \in Acknowledged(k, m) : link' = [link EXCEPT ![k] = ClientFailed(l)]
    /\ UNCHANGED <<supervisor, waiting, origin, reactions>>

\* Faulty variant: the cause is taken from the connection's counter.
StartForNextMessage(k, m) ==
    /\ MayStart(k, m)
    /\ Acknowledge(k, m)
    /\ Supervisor!Start(m.payload.inv)
    /\ origin' = Append(origin, [client |-> k, seq |-> NextInbound(k) + 1])
    /\ UNCHANGED <<waiting, reactions>>

Start(k, m) ==
    /\ MayStart(k, m)
    /\ Acknowledge(k, m)
    /\ Supervisor!Start(m.payload.inv)
    /\ origin' = Append(origin, Cause(k, m))
    /\ UNCHANGED <<waiting, reactions>>

StopRejected(k, m) ==
    /\ Command(k, m, "stop_invocation")
    /\ Supervisor!StopVerdict(m.payload.id) \notin {"accepted", "request"}
    /\ AcknowledgeAndAnswer(k, m, Fault(m.payload.id, Supervisor!StopVerdict(m.payload.id)))
    /\ UNCHANGED <<supervisor, waiting, origin, reactions>>

\* The answer to an accepted stop is the result of the invocation.
Stop(k, m) ==
    /\ Command(k, m, "stop_invocation")
    /\ Acknowledge(k, m)
    /\ \/ Supervisor!Stop(m.payload.id) /\ UNCHANGED reactions
       \/ /\ Supervisor!StopThrows(m.payload.id)
          /\ reactions' = Append(reactions, [ cause |-> origin[active],
                               payload |-> Fault(m.payload.id, "adapter_stop_failed") ])
       \/ /\ Supervisor!StopVerdict(m.payload.id) = "accepted"
          /\ UNCHANGED <<supervisor, reactions>>
    /\ UNCHANGED <<waiting, origin>>

\* Faulty variant: a command that has nothing to do is not acknowledged.
ShutdownUnacknowledged(k, m) ==
    /\ Command(k, m, "shutdown_host")
    /\ link' = [link EXCEPT ![k] = Consumed(k, m)]
    /\ UNCHANGED <<supervisor, waiting, origin, reactions>>

\* shutdown_host is acknowledged, and nothing is shut down.
Shutdown(k, m) ==
    /\ Command(k, m, "shutdown_host")
    /\ Acknowledge(k, m)
    /\ UNCHANGED <<supervisor, waiting, origin, reactions>>

Receive(k, m) ==
    \/ ReceiveRejected(k, m)
    \/ ReceiveAck(k, m)
    \/ ReceiptFails(k, m)
    \/ InitializeForeign(k, m)
    \/ Initialize(k, m)
    \/ StartRejected(k, m)
    \/ LaunchFails(k, m)
    \/ StartThrows(k, m)
    \/ Start(k, m)
    \/ StopRejected(k, m)
    \/ Stop(k, m)
    \/ Shutdown(k, m)

------------------------------------------------------------------------------
(* What the backend does, and the reactions of the command processor to it. *)

Tell(e, payload) == reactions' = << [cause |-> origin[e], payload |-> payload] >>

\* A rejection fails the invocation if it is the first to decide it.
TellFailure(e, code) ==
    IF Supervisor!IsActive(e) THEN Tell(e, Fault(execs[e].inv.id, code))
    ELSE UNCHANGED reactions

\* Faulty variant: the session of an ended invocation is reported too.
SessionResolvesAlways(e, s) ==
    /\ Supervisor!SessionResolves(e, s)
    /\ IF s # None THEN Tell(e, Report(execs[e].inv.id, s)) ELSE UNCHANGED reactions

SessionResolves(e, s) ==
    /\ Supervisor!SessionResolves(e, s)
    /\ IF s # None /\ execs[e].outcome = "none" THEN Tell(e, Report(execs[e].inv.id, s))
       ELSE UNCHANGED reactions

SessionRejects(e) ==
    /\ Supervisor!SessionRejects(e)
    /\ TellFailure(e, "session_observation_failed")

CompletionResolves(e, c) ==
    /\ Supervisor!CompletionResolves(e, c)
    /\ UNCHANGED reactions

CompletionRejects(e) ==
    /\ Supervisor!CompletionRejects(e)
    /\ TellFailure(e, "completion_observation_failed")

StopRejects(e) ==
    /\ Supervisor!StopRejects(e)
    /\ TellFailure(e, "adapter_stop_failed")

\* Faulty variant: the result of a stopped invocation is not sent.
FinishUnlessStopped(e) ==
    /\ Supervisor!Finish(e)
    /\ IF execs[e].stop = "none"
       THEN Tell(e, Result(execs[e].inv.id, Supervisor!ResolvedSession(e), execs[e].value.fact))
       ELSE UNCHANGED reactions

Finish(e) ==
    /\ Supervisor!Finish(e)
    /\ Tell(e, Result(execs[e].inv.id, Supervisor!ResolvedSession(e), execs[e].value.fact))

BackendStep(e) ==
    /\ Quiet
    /\ \/ \E s \in Supervisor!SessionValues : SessionResolves(e, s)
       \/ SessionRejects(e)
       \/ \E c \in Supervisor!Completions : CompletionResolves(e, c)
       \/ CompletionRejects(e)
       \/ StopRejects(e)
       \/ Finish(e)
    /\ UNCHANGED <<link, waiting, origin>>

\* The next queued reaction sends, on the connection its command came from.
React ==
    /\ reactions # <<>>
    /\ LET r == Head(reactions) IN
         \E l \in Sent(link[r.cause.client], r.cause.seq, r.payload) :
             link' = [link EXCEPT ![r.cause.client] = l]
    /\ reactions' = Tail(reactions)
    /\ UNCHANGED <<supervisor, waiting, origin>>

------------------------------------------------------------------------------

Init ==
    /\ Supervisor!Init
    /\ link = [k \in Clients |-> [client |-> "created", connection |-> "not_started",
                                  nextOutbound |-> 0, received |-> <<>>, toServer |-> <<>>]]
    /\ waiting = <<>>
    /\ origin = <<>>
    /\ reactions = <<>>

\* The messages explored in the current state: every payload with the expected
\* number, and a stale, an early and a foreign one.
Arriving(k) ==
    LET n == NextInbound(k)
        probe == [kind |-> "shutdown_host"]
    IN  [generation: {ConnectionGeneration},
         seq: {n} \intersect 0..(MaxReceived - 1), payload: ServerPayloads]
          \union [generation: {ConnectionGeneration},
                  seq: {n - 1, n + 1} \intersect 0..MaxReceived, payload: {probe}]
          \union [generation: {ConnectionGeneration + 1}, seq: {n}, payload: {probe}]

Next ==
    \/ \E k \in Clients : \/ Connect(k) \/ ConnectFails(k) \/ Opens(k)
                          \/ SocketFails(k) \/ Close(k)
    \/ \E k \in Clients : \E m \in Arriving(k) : Receive(k, m)
    \/ InitializationFails \/ InitializationSucceeds
    \/ \E e \in 1..Len(execs) : BackendStep(e)
    \/ React

Spec == Init /\ [][Next]_vars

\* Queued reactions run; and what BackendSupervisor assumes of the adapter holds:
\* a process that was asked to stop ends, the observation that settles the
\* completion settles the session, and the reaction to both runs.
Observes(e, step) ==
    Quiet /\ e <= Len(execs) /\ step /\ UNCHANGED <<link, waiting, origin>>
CompletionSettles(e) ==
    CompletionRejects(e) \/ \E c \in Supervisor!Completions : CompletionResolves(e, c)
SessionSettles(e) ==
    SessionRejects(e) \/ \E s \in Supervisor!SessionValues : SessionResolves(e, s)
Fairness ==
    /\ WF_vars(React)
    /\ \A e \in 1..MaxStarts :
         /\ WF_vars(Observes(e, execs[e].stop = "requested" /\ CompletionSettles(e)))
         /\ WF_vars(Observes(e, execs[e].completion # "pending" /\ SessionSettles(e)))
         /\ WF_vars(Observes(e, Finish(e)))

------------------------------------------------------------------------------
(* Properties. *)

\* The fields keep their types.
TypeOK ==
    /\ Supervisor!TypeOK
    /\ link \in [Clients -> Links]
    /\ waiting \in Seq(Causes)
    /\ origin \in Seq(Causes)
    /\ Len(origin) = Len(execs)
    /\ reactions \in Seq(Intents)

Sends(k) == DOMAIN link[k].toServer
Sending(k, i) == link[k].toServer[i]

\* The receipt of a command is the first thing said about it, and it is given
\* once, in the order of the commands, for nothing but commands: a server that
\* sees an answer knows that the command was received, and on which connection.
ReceiptComesFirst ==
    \A k \in Clients : \A i \in Sends(k) :
        LET x == Sending(k, i)
            acks(n) == {j \in Sends(k) : Sending(k, j).payload.kind = "ack"
                                            /\ Sending(k, j).payload.acknowledged = n}
        IN  /\ x.cause # None =>
                 /\ x.cause < NextInbound(k)
                 /\ link[k].received[x.cause + 1].kind # "ack"
                 /\ \E j \in acks(x.cause) : j <= i
            /\ x.payload.kind = "ack" =>
                 /\ x.payload.acknowledged = x.cause
                 /\ acks(x.cause) = {i}
                 /\ \A j \in 1..(i - 1) :
                      Sending(k, j).payload.kind = "ack" => Sending(k, j).cause < x.cause

IsTerminal(x) == x.payload.kind = "invocation_result" \/
                 (x.payload.kind = "host_fault" /\ x.payload.id # None)
AnswersTo(k, n) == {i \in Sends(k) : Sending(k, i).cause = n
                                        /\ Sending(k, i).payload.kind # "ack"}

\* What the server is told about an invocation is what became of it, and in this
\* order: at most one session, then at most one terminal fact, the result of an
\* execution that ended with that fact or a fault of one that failed.
ReportsTruthful ==
    \A e \in 1..Len(execs) :
        LET k == origin[e].client
            said == AnswersTo(k, origin[e].seq)
        IN  \A i \in said :
              LET p == Sending(k, i).payload IN
                /\ p.id = execs[e].inv.id
                /\ p.kind = "session_report" =>
                     p.session = execs[e].session /\ \A j \in said : i <= j
                /\ p.kind = "invocation_result" =>
                     /\ execs[e].outcome = "result"
                     /\ p.fact = execs[e].value.fact
                     /\ p.session = Supervisor!ResolvedSession(e)
                /\ p.kind = "host_fault" => execs[e].outcome = "failure"
                /\ IsTerminal(Sending(k, i)) => \A j \in said : j <= i

\* No acknowledged command is forgotten while its connection lives: an
\* initialization that was not answered waits for the reservation, and a start
\* without a terminal fact has an unfinished execution, unless its answer is
\* being sent.
NoCommandForgotten ==
    \A k \in Clients : link[k].connection = "live" =>
        \A n \in 1..NextInbound(k) :
            LET c == [client |-> k, seq |-> n - 1]
                queued == \E i \in DOMAIN reactions : reactions[i].cause = c
                answers == AnswersTo(k, n - 1)
            IN  CASE link[k].received[n].kind = "initialize_actor_host" ->
                       \/ answers # {} \/ queued
                       \/ initialization # None /\ \E i \in DOMAIN waiting : waiting[i] = c
                  [] link[k].received[n].kind = "start_invocation" ->
                       \/ queued
                       \/ \E i \in answers : IsTerminal(Sending(k, i))
                       \/ \E e \in 1..Len(execs) : origin[e] = c /\ execs[e].outcome = "none"
                  [] OTHER -> TRUE

==============================================================================
