----------------------------- MODULE HostGateway -----------------------------
(***************************************************************************)
(* The Host Gateway of the runtime server: the registry of host            *)
(* connections (HostGateway) and the connection object that speaks the     *)
(* host protocol on the server side (GatewayConnection).                   *)
(*                                                                         *)
(* The gateway is synchronous code in a single-threaded runtime, so every  *)
(* call of its API is one action: opening a connection, the arrival of one *)
(* inbound message, the sending of one command, the failure of a           *)
(* transport.  What the caller decides (the order of calls, the message,   *)
(* whether a provider, the validator, the transport or the sink throws) is *)
(* nondeterministic.                                                       *)
(*                                                                         *)
(* A message is identified by its sender's sequence number: the providers  *)
(* give every message a fresh id, and a connection numbers what it sends.  *)
(***************************************************************************)
EXTENDS Integers, Sequences

CONSTANTS
    Projects, Actors, Hosts,  \* what an authenticated context names
    Contexts,                 \* the contexts the credential verifier may accept
    Conns,                    \* connection objects; each is opened at most once
    None,                     \* an absent map entry
    MaxSeq                    \* bound: sequence numbers the exploration reaches

ASSUME ContextsAssumption ==
    Contexts \subseteq [project: Projects, actor: Actors, host: Hosts]
ASSUME NoneAssumption == None \notin Conns
ASSUME MaxSeqAssumption == MaxSeq \in Nat

VARIABLES
    identity,         \* the authenticated context of each opened connection
    state,            \* stateValue; "unopened" before the object exists
    transport,        \* "up" until the failure latch of the transport is set
    pendingByActor, pendingByHost, liveByActor, liveByHost,  \* the registry
    nextInbound, nextOutbound,  \* the two sequence counters of a connection
    pendingCommands,  \* commands sent and not yet acknowledged
    toHost,           \* every message handed to the transport, in order
    facts,            \* every message the fact sink accepted, in order
    reconciled        \* history: commands whose acknowledgement was accepted

registry == <<pendingByActor, pendingByHost, liveByActor, liveByHost>>
vars == <<identity, state, transport, registry, nextInbound, nextOutbound,
          pendingCommands, toHost, facts, reconciled>>

HOST_CONNECTION_GENERATION == 1

------------------------------------------------------------------------------
(* Messages. *)

Ids == 0..MaxSeq

\* Payloads a host may send.  "fact" stands for the kinds that carry no
\* identity the gateway compares (heartbeat, session_report, host_fault,
\* package_publish_request, completion_request).
HelloPayloads  == [kind: {"host_hello"}, who: [project: Projects, actor: Actors, host: Hosts]]
AckPayloads    == [kind: {"ack"}, acknowledged: Ids]
ReadyPayloads  == [kind: {"host_ready"}, actor: Actors]
ResultPayloads == [kind: {"invocation_result"}, project: Projects, actor: Actors]
FactPayloads   == [kind: {"fact"}]
HostPayloads   == HelloPayloads \union AckPayloads \union ReadyPayloads
                    \union ResultPayloads \union FactPayloads

\* An inbound message; one that does not decode is "malformed".
Inbound == [kind: {"envelope"}, generation: Nat, seq: Nat, payload: HostPayloads]
             \union [kind: {"malformed"}]

\* Commands the runtime may send: initialize and start name the actor they are
\* for, stop_invocation and shutdown_host ("plain") do not.
Commands == [kind: {"initialize_actor_host", "start_invocation"},
             project: Projects, actor: Actors]
              \union [kind: {"plain"}]
Outbound == [seq: Nat, payload: Commands \union [kind: {"ack"}, acknowledged: Nat]]

------------------------------------------------------------------------------
(* The registry. *)

Occupied(who) ==
    \/ pendingByActor[who.actor] # None
    \/ pendingByHost[who.host] # None
    \/ liveByActor[who.actor] # None
    \/ liveByHost[who.host] # None

\* A map without the entry at key, when that entry is c.
Without(map, key, c) == IF map[key] = c THEN [map EXCEPT ![key] = None] ELSE map

\* Faulty variant (each is named in PROJECT.json with the property it breaks):
\* the live host entry survives its connection.
UnregisterKeepingLiveHost(c, who) ==
    /\ pendingByActor' = Without(pendingByActor, who.actor, c)
    /\ pendingByHost'  = Without(pendingByHost, who.host, c)
    /\ liveByActor'    = Without(liveByActor, who.actor, c)
    /\ UNCHANGED liveByHost

Unregister(c, who) ==
    /\ pendingByActor' = Without(pendingByActor, who.actor, c)
    /\ pendingByHost'  = Without(pendingByHost, who.host, c)
    /\ liveByActor'    = Without(liveByActor, who.actor, c)
    /\ liveByHost'     = Without(liveByHost, who.host, c)

\* Faulty variant: the adapter is not told.
FailConnectionSilently(c) ==
    /\ state' = [state EXCEPT ![c] = "failed"]
    /\ pendingCommands' = [pendingCommands EXCEPT ![c] = {}]
    /\ Unregister(c, identity[c])
    /\ UNCHANGED <<identity, transport, facts, reconciled>>

\* failConnection, from either origin: a failure the core finds is passed to
\* the transport, and one the transport reports has set its latch already.
FailConnection(c) ==
    /\ state' = [state EXCEPT ![c] = "failed"]
    /\ pendingCommands' = [pendingCommands EXCEPT ![c] = {}]
    /\ transport' = [transport EXCEPT ![c] = "down"]
    /\ Unregister(c, identity[c])
    /\ UNCHANGED <<identity, facts, reconciled>>

\* commitLive finds the connection where openConnection put it.  Its other
\* branch, which fails the connection, is never taken: PendingMayCommit.
MayCommit(c) ==
    /\ pendingByActor[identity[c].actor] = c
    /\ pendingByHost[identity[c].host] = c
    /\ liveByActor[identity[c].actor] = None
    /\ liveByHost[identity[c].host] = None

CommitLive(c) ==
    LET who == identity[c] IN
    /\ pendingByActor' = [pendingByActor EXCEPT ![who.actor] = None]
    /\ pendingByHost'  = [pendingByHost EXCEPT ![who.host] = None]
    /\ liveByActor'    = [liveByActor EXCEPT ![who.actor] = c]
    /\ liveByHost'     = [liveByHost EXCEPT ![who.host] = c]
    /\ state' = [state EXCEPT ![c] = "live"]

------------------------------------------------------------------------------
(* Opening a connection.  A context whose actor or host has a connection is *)
(* refused, and the refusal changes nothing.                                *)

MayOpen(c, who) == state[c] = "unopened" /\ ~Occupied(who)

\* Faulty variant: the connection object does not keep its context.
OpenConnectionAnonymously(c, who) ==
    /\ MayOpen(c, who)
    /\ state' = [state EXCEPT ![c] = "pending"]
    /\ pendingByActor' = [pendingByActor EXCEPT ![who.actor] = c]
    /\ pendingByHost'  = [pendingByHost EXCEPT ![who.host] = c]
    /\ UNCHANGED <<identity, transport, liveByActor, liveByHost, nextInbound,
                   nextOutbound, pendingCommands, toHost, facts, reconciled>>

OpenConnection(c, who) ==
    /\ MayOpen(c, who)
    /\ identity' = [identity EXCEPT ![c] = who]
    /\ state' = [state EXCEPT ![c] = "pending"]
    /\ transport' = [transport EXCEPT ![c] = "up"]
    /\ pendingByActor' = [pendingByActor EXCEPT ![who.actor] = c]
    /\ pendingByHost'  = [pendingByHost EXCEPT ![who.host] = c]
    /\ UNCHANGED <<liveByActor, liveByHost, nextInbound, nextOutbound,
                   pendingCommands, toHost, facts, reconciled>>

\* observeTransportFailures throws, or the transport reports a failure while it
\* is being observed: the registration is undone before the call returns.
OpenConnectionFails(c, who) ==
    /\ MayOpen(c, who)
    /\ identity' = [identity EXCEPT ![c] = who]
    /\ state' = [state EXCEPT ![c] = "failed"]
    /\ transport' = [transport EXCEPT ![c] = "down"]
    /\ UNCHANGED <<registry, nextInbound, nextOutbound, pendingCommands,
                   toHost, facts, reconciled>>

------------------------------------------------------------------------------
(* Writing.  The sequence number is consumed before anything can fail. *)

ConsumeOutbound(c) ==
    /\ nextOutbound[c] <= MaxSeq
    /\ nextOutbound' = [nextOutbound EXCEPT ![c] = @ + 1]

Write(c, payload) ==
    /\ ConsumeOutbound(c)
    /\ toHost' = [toHost EXCEPT ![c] =
                    Append(@, [seq |-> nextOutbound[c], payload |-> payload])]

\* Faulty variant: a failed write is reported and the connection goes on.
WriteFailsAndContinues(c) ==
    /\ ConsumeOutbound(c)
    /\ UNCHANGED <<identity, state, transport, registry, nextInbound,
                   pendingCommands, toHost, facts, reconciled>>

\* A provider, the validation of the envelope or the transport fails.
WriteFails(c) ==
    /\ ConsumeOutbound(c)
    /\ FailConnection(c)
    /\ UNCHANGED <<nextInbound, toHost>>

Ack(m) == [kind |-> "ack", acknowledged |-> m.seq]

------------------------------------------------------------------------------
(* Receiving. *)

ValidEnvelope(c, m) ==
    /\ m.kind = "envelope"
    /\ m.generation = HOST_CONNECTION_GENERATION
    /\ m.seq = nextInbound[c]

MatchesHelloIdentity(c, m) == m.payload.kind = "host_hello" /\ m.payload.who = identity[c]

MatchesPostHelloIdentity(c, m) ==
    CASE m.payload.kind = "host_ready" -> m.payload.actor = identity[c].actor
      [] m.payload.kind = "invocation_result" ->
           /\ m.payload.project = identity[c].project
           /\ m.payload.actor = identity[c].actor
      [] OTHER -> TRUE

Acceptable(c, m) ==
    /\ ValidEnvelope(c, m)
    /\ \/ state[c] = "pending" /\ MatchesHelloIdentity(c, m)
       \/ /\ state[c] = "live"
          /\ m.payload.kind # "host_hello"
          /\ MatchesPostHelloIdentity(c, m)

Open(c) == state[c] \in {"pending", "live"}

ConsumeInbound(c) == nextInbound' = [nextInbound EXCEPT ![c] = @ + 1]

ReceiveRejected(c, m) ==
    /\ Open(c)
    /\ ~Acceptable(c, m)
    /\ FailConnection(c)
    /\ UNCHANGED <<nextInbound, nextOutbound, toHost>>

\* The acknowledgement of the hello is written before the connection is live.
ReceiveHello(c, m) ==
    /\ state[c] = "pending"
    /\ Acceptable(c, m)
    /\ MayCommit(c)
    /\ Write(c, Ack(m))
    /\ CommitLive(c)
    /\ ConsumeInbound(c)
    /\ UNCHANGED <<identity, transport, pendingCommands, facts, reconciled>>

ReceiveAck(c, m) ==
    /\ state[c] = "live"
    /\ Acceptable(c, m)
    /\ m.payload.kind = "ack"
    /\ ConsumeInbound(c)
    /\ pendingCommands' = [pendingCommands EXCEPT ![c] = @ \ {m.payload.acknowledged}]
    /\ reconciled' = [reconciled EXCEPT ![c] =
                        @ \union (pendingCommands[c] \intersect {m.payload.acknowledged})]
    /\ UNCHANGED <<identity, state, transport, registry, nextOutbound, toHost, facts>>

\* A message of this kind is acknowledged first and delivered afterwards.
CarriesFact(c, m) == state[c] = "live" /\ Acceptable(c, m) /\ m.payload.kind # "ack"

ReceiveFact(c, m) ==
    /\ CarriesFact(c, m)
    /\ Write(c, Ack(m))
    /\ ConsumeInbound(c)
    /\ facts' = [facts EXCEPT ![c] = Append(@, m.seq)]
    /\ UNCHANGED <<identity, state, transport, registry, pendingCommands, reconciled>>

\* Faulty variant: the error of the sink is swallowed.
ReceiveFactSinkErrorIgnored(c, m) ==
    /\ CarriesFact(c, m)
    /\ Write(c, Ack(m))
    /\ ConsumeInbound(c)
    /\ UNCHANGED <<identity, state, transport, registry, pendingCommands, facts, reconciled>>

\* The sink throws: the fact is acknowledged and lost, and the connection fails.
ReceiveFactSinkFails(c, m) ==
    /\ CarriesFact(c, m)
    /\ Write(c, Ack(m))
    /\ ConsumeInbound(c)
    /\ FailConnection(c)

\* The acknowledgement of a hello or of a fact cannot be written.
ReceiptFails(c, m) ==
    /\ Acceptable(c, m)
    /\ state[c] = "pending" \/ CarriesFact(c, m)
    /\ WriteFails(c)

------------------------------------------------------------------------------
(* Sending a command. *)

NamesActor(p) == p.kind \in {"initialize_actor_host", "start_invocation"}

MatchesOutboundIdentity(c, p) ==
    NamesActor(p) => p.project = identity[c].project /\ p.actor = identity[c].actor

\* Faulty variant: a connection that has been live once may send.
MaySendOnceLive(c, p) == state[c] \in {"live", "failed"} /\ MatchesOutboundIdentity(c, p)

MaySend(c, p) == state[c] = "live" /\ MatchesOutboundIdentity(c, p)

\* Faulty variant: a command is sent without being tracked.
SendUntracked(c, p) ==
    /\ MaySend(c, p)
    /\ Write(c, p)
    /\ UNCHANGED <<identity, state, transport, registry, nextInbound,
                   pendingCommands, facts, reconciled>>

Send(c, p) ==
    /\ MaySend(c, p)
    /\ Write(c, p)
    /\ pendingCommands' = [pendingCommands EXCEPT ![c] = @ \union {nextOutbound[c]}]
    /\ UNCHANGED <<identity, state, transport, registry, nextInbound, facts, reconciled>>

SendFails(c, p) == MaySend(c, p) /\ WriteFails(c)

\* sendCommand finds the connection in the registry; a caller may also keep
\* the connection that connectionForActor returned and call send on it later.
SendCommand(a, p) ==
    /\ liveByActor[a] # None
    /\ Send(liveByActor[a], p) \/ SendFails(liveByActor[a], p)

SendOnConnection(c, p) == Send(c, p) \/ SendFails(c, p)

------------------------------------------------------------------------------
(* The transport reports a failure: the socket errs or closes, a buffered  *)
(* send fails, or the adapter shuts down.                                  *)

TransportFails(c) ==
    /\ Open(c)
    /\ transport[c] = "up"
    /\ FailConnection(c)
    /\ UNCHANGED <<nextInbound, nextOutbound, toHost>>

------------------------------------------------------------------------------

Init ==
    /\ identity = [c \in Conns |-> None]
    /\ state = [c \in Conns |-> "unopened"]
    /\ transport = [c \in Conns |-> "up"]
    /\ pendingByActor = [a \in Actors |-> None]
    /\ pendingByHost = [h \in Hosts |-> None]
    /\ liveByActor = [a \in Actors |-> None]
    /\ liveByHost = [h \in Hosts |-> None]
    /\ nextInbound = [c \in Conns |-> 0]
    /\ nextOutbound = [c \in Conns |-> 0]
    /\ pendingCommands = [c \in Conns |-> {}]
    /\ toHost = [c \in Conns |-> <<>>]
    /\ facts = [c \in Conns |-> <<>>]
    /\ reconciled = [c \in Conns |-> {}]

\* The inbound messages explored in the current state: every payload, with the
\* expected sequence number, one behind it and one ahead of it.
Arriving(c) ==
    { [kind |-> "envelope", generation |-> g, seq |-> s, payload |-> p] :
        g \in {HOST_CONNECTION_GENERATION, HOST_CONNECTION_GENERATION + 1},
        s \in {nextInbound[c] - 1, nextInbound[c], nextInbound[c] + 1} \intersect Ids,
        p \in HostPayloads }
      \union [kind: {"malformed"}]

Receive(c, m) ==
    \/ ReceiveRejected(c, m)
    \/ ReceiveHello(c, m)
    \/ ReceiveAck(c, m)
    \/ ReceiveFact(c, m)
    \/ ReceiveFactSinkFails(c, m)
    \/ ReceiptFails(c, m)

Next ==
    \/ \E c \in Conns, who \in Contexts : OpenConnection(c, who) \/ OpenConnectionFails(c, who)
    \/ \E c \in Conns : \E m \in Arriving(c) : Receive(c, m)
    \/ \E a \in Actors, p \in Commands : SendCommand(a, p)
    \/ \E c \in Conns, p \in Commands : SendOnConnection(c, p)
    \/ \E c \in Conns : TransportFails(c)

Spec == Init /\ [][Next]_vars

------------------------------------------------------------------------------
(* Properties. *)

RegistryTypeOK ==
    /\ pendingByActor \in [Actors -> Conns \union {None}]
    /\ pendingByHost \in [Hosts -> Conns \union {None}]
    /\ liveByActor \in [Actors -> Conns \union {None}]
    /\ liveByHost \in [Hosts -> Conns \union {None}]

LifecycleTypeOK ==
    /\ identity \in [Conns -> Contexts \union {None}]
    /\ state \in [Conns -> {"unopened", "pending", "live", "failed"}]
    /\ transport \in [Conns -> {"up", "down"}]
    /\ \A c \in Conns : state[c] # "unopened" => identity[c] \in Contexts

LogTypeOK ==
    /\ nextInbound \in [Conns -> Nat]
    /\ nextOutbound \in [Conns -> Nat]
    /\ pendingCommands \in [Conns -> SUBSET Nat]
    /\ toHost \in [Conns -> Seq(Outbound)]
    /\ facts \in [Conns -> Seq(Nat)]
    /\ reconciled \in [Conns -> SUBSET Nat]

\* Every variable keeps the shape of the class field it stands for, and an
\* opened connection has a context.
TypeOK == RegistryTypeOK /\ LifecycleTypeOK /\ LogTypeOK

\* The four maps and the state field of the connections tell one story: a
\* pending (live) connection is the entry of its actor and of its host in the
\* pending (live) maps, and a map has no other entry.  Opening, committing and
\* the two origins of failure update the maps and the field in separate
\* statements (host-gateway.ts:71-72, 124-128, 175-192).
RegistryConsistent ==
    /\ \A c \in Conns :
         /\ state[c] = "pending" => /\ pendingByActor[identity[c].actor] = c
                                    /\ pendingByHost[identity[c].host] = c
         /\ state[c] = "live" => /\ liveByActor[identity[c].actor] = c
                                 /\ liveByHost[identity[c].host] = c
    /\ \A a \in Actors :
         /\ pendingByActor[a] # None => /\ state[pendingByActor[a]] = "pending"
                                        /\ identity[pendingByActor[a]].actor = a
         /\ liveByActor[a] # None => /\ state[liveByActor[a]] = "live"
                                     /\ identity[liveByActor[a]].actor = a
    /\ \A h \in Hosts :
         /\ pendingByHost[h] # None => /\ state[pendingByHost[h]] = "pending"
                                       /\ identity[pendingByHost[h]].host = h
         /\ liveByHost[h] # None => /\ state[liveByHost[h]] = "live"
                                    /\ identity[liveByHost[h]].host = h

\* Two connections that are both open never share an actor or a host instance,
\* whether one is still waiting for its hello or not: a command for an actor
\* has one destination, and a host instance is counted once.
OneConnectionPerIdentity ==
    \A c, d \in Conns :
        c # d /\ Open(c) /\ Open(d) =>
            /\ identity[c].actor # identity[d].actor
            /\ identity[c].host # identity[d].host

\* The branch of commitLive that fails the connection is dead: whatever was
\* opened, failed and reopened meanwhile, the acknowledgement of a hello that
\* reached the wire is followed by the registration.
PendingMayCommit == \A c \in Conns : state[c] = "pending" => MayCommit(c)

\* What the host sees on one connection is numbered 0, 1, 2, ... without a gap
\* or a repetition, although a failing write consumes a number
\* (host-gateway.ts:342-343): no message follows a failed one.
WireIsContiguous ==
    \A c \in Conns :
        /\ \A i \in 1..Len(toHost[c]) : toHost[c][i].seq = i - 1
        /\ state[c] # "failed" => nextOutbound[c] = Len(toHost[c])

Receipts(c) == { i \in 1..Len(toHost[c]) : toHost[c][i].payload.kind = "ack" }
ReceiptFor(c, i) == toHost[c][i].payload.acknowledged
Acknowledged(c) == { ReceiptFor(c, i) : i \in Receipts(c) }
Accepted(c) == { facts[c][i] : i \in 1..Len(facts[c]) }

\* Every fact the sink accepted was acknowledged on the wire, in the same order
\* and once, after the hello; a receipt was given for at most one message the
\* sink did not accept, which is the last and on a connection that then failed.
ReceiptPrecedesDelivery ==
    \A c \in Conns :
        /\ \A i, j \in Receipts(c) : i < j => ReceiptFor(c, i) < ReceiptFor(c, j)
        /\ \A i, j \in 1..Len(facts[c]) : i < j => facts[c][i] < facts[c][j]
        /\ Accepted(c) \subseteq Acknowledged(c) \ {0}
        /\ Acknowledged(c) # {} => 0 \in Acknowledged(c)
        /\ Open(c) => (Acknowledged(c) # {} <=> state[c] = "live")
        /\ \A n \in Acknowledged(c) \ (Accepted(c) \union {0}) :
             state[c] = "failed" /\ \A k \in Acknowledged(c) : k <= n

CommandsSent(c) ==
    { toHost[c][i].seq : i \in { j \in 1..Len(toHost[c]) : toHost[c][j].payload.kind # "ack" } }

\* On a live connection every command that reached the wire is either pending
\* or was acknowledged by the host, never both and never neither; a connection
\* that is not live holds no pending command.
CommandAccounting ==
    \A c \in Conns :
        /\ state[c] = "live" => /\ CommandsSent(c) = pendingCommands[c] \union reconciled[c]
                                /\ pendingCommands[c] \intersect reconciled[c] = {}
        /\ state[c] # "live" => pendingCommands[c] = {}

StaysFailed(c) ==
    state[c] = "failed" => /\ state'[c] = "failed"
                           /\ UNCHANGED <<identity[c], transport[c], nextInbound[c],
                                toHost[c], facts[c], reconciled[c], pendingCommands[c]>>

\* A failed connection is finished: no step brings it back, writes to its
\* transport, delivers one of its facts or reconciles one of its commands; and
\* a connection becomes live from pending only.
FailedIsFinal ==
    [][\A c \in Conns : /\ StaysFailed(c)
                        /\ state[c] # "live" /\ state'[c] = "live" => state[c] = "pending"]_vars

\* A connection is failed exactly when the failure latch of its transport is
\* set: the core never keeps a connection whose socket is going away, and never
\* drops one without having the adapter terminate the socket.
NoHalfOpenConnection ==
    \A c \in Conns : state[c] = "failed" <=> transport[c] = "down"

==============================================================================
