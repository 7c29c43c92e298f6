---------------------------- MODULE HostProtocol ----------------------------
(***************************************************************************)
(* The host protocol between its two ends: the Host Gateway of the runtime *)
(* server and the actor host it commands.  One host process has a          *)
(* WebSocket client for each attempt to connect, and the socket of client  *)
(* k carries the connection k of the gateway.                              *)
(*                                                                         *)
(* Every action is an action of one of the two modules, and the network is *)
(* in their logs: a socket delivers what its sender wrote, in order, up to *)
(* some point, so the next message to arrive is the first its receiver has *)
(* not consumed.  Either end may fail at any moment, and what is then in   *)
(* flight arrives or is lost.                                              *)
(***************************************************************************)
EXTENDS Integers, Sequences, FiniteSets

CONSTANTS
    Project, Actor, Host,  \* what the credential of the host names
    Clients,               \* attempts to connect, each with its connection
    Adapters, AdapterId, Configs, InvocationIds, Sessions, Facts,
                           \* see BackendSupervisor
    None, MaxStarts,
    MaxCommands            \* bound: commands the runtime sends

ASSUME MaxCommandsAssumption == MaxCommands \in Nat
ASSUME NoneAssumption ==
    None \notin Nat /\ None \notin InvocationIds /\ None \notin Clients

VARIABLES
    identity, gatewayState, transport, pendingByActor, pendingByHost,
    liveByActor, liveByHost, nextInbound, nextOutbound, pendingCommands,
    toHost, facts, reconciled,                            \* see HostGateway
    state, launchSpec, initialization, sessionId, active, execs,
    link, waiting, origin, reactions,                     \* see ActorHost
    handshake              \* of each client: none, requested, answered

gatewayVars == <<identity, gatewayState, transport, pendingByActor, pendingByHost,
                 liveByActor, liveByHost, nextInbound, nextOutbound, pendingCommands,
                 toHost, facts, reconciled>>
hostVars == <<state, launchSpec, initialization, sessionId, active, execs,
              link, waiting, origin, reactions>>
vars == <<gatewayVars, hostVars, handshake>>

Self == [project |-> Project, actor |-> Actor]
Context == [project |-> Project, actor |-> Actor, host |-> Host]
Specs == [adapter: Adapters, owner: {Self}, config: Configs]

\* See ActorHost.
ASSUME SupervisorAssumption ==
    /\ None \notin Specs /\ None \notin Sessions
    /\ {"pending", "rejected"} \intersect (Sessions \union {None}) = {}
    /\ MaxStarts \in Nat

\* Bound: the hello, two facts and one receipt for each command are the most
\* that either side numbers, so that this one never stops a behaviour.
MaxSeq == 1 + 4 * MaxCommands

Gateway == INSTANCE HostGateway
    WITH Projects <- {Project}, Actors <- {Actor}, Hosts <- {Host},
         Contexts <- {Context}, Conns <- Clients, state <- gatewayState

ActorHostProcess == INSTANCE ActorHost
    WITH Owners <- {Self}, ConnectionGeneration <- 1, MaxReceived <- MaxSeq

------------------------------------------------------------------------------
(* Messages. *)

\* What the runtime may ask for.
Commands ==
    [kind: {"initialize_actor_host"}, project: {Project}, actor: {Actor}, spec: Specs]
      \union [kind: {"start_invocation"}, project: {Project}, actor: {Actor},
              inv: [id: InvocationIds, owner: {Self}]]
      \union [kind: {"stop_invocation"}, id: InvocationIds]
      \union [kind: {"shutdown_host"}]

\* An envelope of the host as the gateway reads it, with the identity fields the
\* gateway compares.
Read(envelope) ==
    LET p == envelope.payload IN
    [ kind |-> "envelope", generation |-> 1, seq |-> envelope.seq,
      payload |->
        CASE p.kind = "host_hello" -> [kind |-> p.kind, who |-> Context]
          [] p.kind = "host_ready" -> [kind |-> p.kind, actor |-> Actor]
          [] p.kind = "invocation_result" ->
               [kind |-> p.kind, project |-> Project, actor |-> Actor]
          [] OTHER -> p ]

\* The message that arrives next in each direction.
ToGateway(c) ==
    { Read(link[c].toServer[i]) : i \in {nextInbound[c] + 1} \intersect DOMAIN link[c].toServer }
ToActorHost(c) ==
    { [generation |-> 1, seq |-> toHost[c][i].seq, payload |-> toHost[c][i].payload] :
        i \in {ActorHostProcess!NextInbound(c) + 1} \intersect DOMAIN toHost[c] }

------------------------------------------------------------------------------
(* Connecting. *)

ClientConnects(c) ==
    /\ \/ /\ ActorHostProcess!Connect(c)
          /\ handshake' = [handshake EXCEPT ![c] = "requested"]
       \/ ActorHostProcess!ConnectFails(c) /\ UNCHANGED handshake
    /\ UNCHANGED gatewayVars

\* The adapter upgrades the socket and opens the connection in the same turn; a
\* gateway whose actor has a connection refuses, and the new socket is closed.
Upgrade(c) ==
    /\ handshake[c] = "requested"
    /\ handshake' = [handshake EXCEPT ![c] = "answered"]
    /\ \/ Gateway!OpenConnection(c, Context)
       \/ Gateway!OpenConnectionFails(c, Context)
       \/ Gateway!Occupied(Context) /\ UNCHANGED gatewayVars
    /\ UNCHANGED hostVars

\* The client sees the answer, which may be long after the connection was
\* opened, and after it failed.
ClientOpens(c) ==
    /\ handshake[c] = "answered"
    /\ ActorHostProcess!Opens(c)
    /\ UNCHANGED <<gatewayVars, handshake>>

------------------------------------------------------------------------------
(* The two ends. *)

CommandsOn(c) == { toHost[c][i].payload : i \in DOMAIN toHost[c] }

\* Bound: a connection carries no command twice, as ActorHost explores that.
RuntimeSends ==
    /\ Cardinality(UNION { {c} \X Gateway!CommandsSent(c) : c \in Clients }) < MaxCommands
    /\ \E c \in Clients : \E p \in Commands \ CommandsOn(c) : Gateway!SendOnConnection(c, p)
    /\ UNCHANGED <<hostVars, handshake>>

GatewayReceives(c) ==
    /\ \E m \in ToGateway(c) : Gateway!Receive(c, m)
    /\ UNCHANGED <<hostVars, handshake>>

ActorHostReceives(c) ==
    /\ \E m \in ToActorHost(c) : ActorHostProcess!Receive(c, m)
    /\ UNCHANGED <<gatewayVars, handshake>>

\* The reservation settles, a backend does something, or a queued reaction runs.
ActorHostWorks ==
    /\ \/ ActorHostProcess!InitializationFails
       \/ ActorHostProcess!InitializationSucceeds
       \/ \E e \in DOMAIN execs : ActorHostProcess!BackendStep(e)
       \/ ActorHostProcess!React
    /\ UNCHANGED <<gatewayVars, handshake>>

\* The socket fails at one end, or the host closes it.
GatewayEndFails(c) == Gateway!TransportFails(c) /\ UNCHANGED <<hostVars, handshake>>

ActorHostEndFails(c) ==
    /\ ActorHostProcess!SocketFails(c) \/ ActorHostProcess!Close(c)
    /\ UNCHANGED <<gatewayVars, handshake>>

------------------------------------------------------------------------------

Init == Gateway!Init /\ ActorHostProcess!Init /\ handshake = [c \in Clients |-> "none"]

Next ==
    \/ \E c \in Clients : \/ ClientConnects(c) \/ Upgrade(c) \/ ClientOpens(c)
                          \/ GatewayReceives(c) \/ ActorHostReceives(c)
                          \/ GatewayEndFails(c) \/ ActorHostEndFails(c)
    \/ RuntimeSends
    \/ ActorHostWorks

\* A socket delivers what was written while both ends have it, an end whose peer
\* has ended it is told, and the host keeps what ActorHost assumes of it.
EndedByGateway(c) ==
    handshake[c] = "answered" /\ (gatewayState[c] = "unopened" \/ transport[c] = "down")
EndedByActorHost(c) == link[c].client \in {"failed", "closed"}

EndOfSocket(c) ==
    \/ EndedByActorHost(c) /\ GatewayEndFails(c)
    \/ /\ EndedByGateway(c)
       /\ ActorHostProcess!SocketFails(c)
       /\ UNCHANGED <<gatewayVars, handshake>>

Fairness ==
    /\ \A c \in Clients :
         /\ WF_vars(ClientOpens(c))
         /\ WF_vars(GatewayReceives(c))
         /\ WF_vars(ActorHostReceives(c))
         /\ WF_vars(EndOfSocket(c))
    /\ ActorHostProcess!Fairness

Spec == Init /\ [][Next]_vars /\ Fairness

------------------------------------------------------------------------------
(* Properties. *)

\* Neither end ever takes the other for a faulty peer: whatever failed before,
\* on whichever side, the next message of a connection is one its receiver
\* accepts.  Both ends number before they write (host-gateway.ts:342,
\* server-connection.ts:149), and each answers a message that is out of order by
\* ending the connection (host-gateway.ts:215, server-connection.ts:114).
PeersAgree ==
    \A c \in Clients :
        /\ Gateway!Open(c) => \A m \in ToGateway(c) : Gateway!Acceptable(c, m)
        /\ link[c].client = "open" /\ link[c].connection = "live" =>
              \A m \in ToActorHost(c) : ActorHostProcess!Expected(c, m)

\* Whether a fact of the host may answer a command of the runtime.
Answers(p, command) ==
    CASE p.kind = "host_ready" -> command.kind = "initialize_actor_host"
      [] p.kind \in {"session_report", "invocation_result"} ->
           command.kind = "start_invocation" /\ command.inv.id = p.id
      [] p.kind = "host_fault" /\ p.id = None -> command.kind = "initialize_actor_host"
      [] p.kind = "host_fault" /\ p.id # None ->
           \/ command.kind = "start_invocation" /\ command.inv.id = p.id
           \/ command.kind = "stop_invocation" /\ command.id = p.id
      [] OTHER -> FALSE

Delivered(c) == { link[c].toServer[facts[c][i] + 1] : i \in DOMAIN facts[c] }

\* What the runtime believes is so: a command whose receipt it accepted was
\* received by the host, and a fact given to the sink answers a command that the
\* runtime sent on the same connection, whose receipt it has accepted before.
\* An answer that outlives its connection is never taken for one to a command
\* on another.
AnswersMatchCommands ==
    \A c \in Clients :
        /\ \A n \in reconciled[c] : n < ActorHostProcess!NextInbound(c)
        /\ \A x \in Delivered(c) : /\ x.cause \in reconciled[c]
                                   /\ Answers(x.payload, toHost[c][x.cause + 1].payload)

\* The host executes what it was told to: each execution is one start_invocation
\* that the runtime sent, on the connection it will be reported on, and no
\* command is executed twice, although one may be executed after the gateway has
\* given up its connection.
ExecutedAsCommanded ==
    /\ \A e \in DOMAIN execs :
         LET sent == toHost[origin[e].client] IN
         /\ origin[e].seq + 1 \in DOMAIN sent
         /\ sent[origin[e].seq + 1].payload.kind = "start_invocation"
         /\ sent[origin[e].seq + 1].payload.inv = execs[e].inv
    /\ \A d, e \in DOMAIN execs : origin[d] = origin[e] => d = e

\* No command the host acknowledged on a connection that lives is left without
\* an answer or somebody who owes it one; initializations that several
\* connections asked for wait for one reservation (command-processor.ts:86).
NoCommandForgotten == ActorHostProcess!NoCommandForgotten

\* A fact reaches the sink once, in order, and after its receipt; the receipt of
\* a fact that the sink did not accept is the last thing its connection says.
ReceiptPrecedesDelivery == Gateway!ReceiptPrecedesDelivery

\* The runtime does not wait for ever: a command that was sent is acknowledged
\* by the host, or its connection fails and gives up all of its commands.
CommandsSettle ==
    \A c \in Clients : pendingCommands[c] # {} ~> pendingCommands[c] = {}

\* A connection that failed at one end does not stay open at the other: neither
\* a failure the gateway finds nor one its adapter reports is kept from the
\* socket (host-gateway.ts:175), and a host that gives up frees its actor.
ConnectionsEndTogether ==
    \A c \in Clients :
        (gatewayState[c] = "failed" \/ link[c].client \in {"failed", "closed"})
          ~> (~Gateway!Open(c) /\ link[c].client \in {"failed", "closed"})

\* The sink of the runtime is told how an invocation ended that was stopped or
\* whose backend is done, unless the connection that carried its command failed
\* at either end.
EndReachesTheRuntime ==
    \A e \in 1..MaxStarts :
        (e <= Len(execs) /\ (execs[e].stop # "none" \/ execs[e].completion # "pending"))
          ~> (/\ e <= Len(execs)
              /\ LET c == origin[e].client IN
                 \/ gatewayState[c] = "failed" \/ link[c].connection = "failed"
                 \/ \E x \in Delivered(c) :
                      x.cause = origin[e].seq /\ ActorHostProcess!IsTerminal(x))

==============================================================================
