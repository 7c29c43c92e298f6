-------------------------- MODULE HostProtocolProofs --------------------------
(***************************************************************************)
(* The two ends of the host protocol agree: neither takes the other for a  *)
(* faulty peer, the host executes what the runtime sent, and what the      *)
(* runtime believes of its commands is so, for any number of clients,      *)
(* commands and failures.                                                  *)
(*                                                                         *)
(* What ActorHostProofs proves of the host holds of it here, with the      *)
(* payloads of the gateway for what its server may send.  What is added is *)
(* one invariant for each connection and its link.                         *)
(***************************************************************************)
EXTENDS HostProtocol, TLAPS

HostFacts == INSTANCE ActorHostProofs
    WITH Owners <- {Self}, ConnectionGeneration <- 1, MaxReceived <- MaxSeq

LEMMA HostAssumptions ==
    /\ Specs \subseteq [adapter: Adapters, owner: {Self}, config: Configs]
    /\ None \notin Specs /\ None \notin Sessions
    /\ {"pending", "rejected"} \intersect (Sessions \union {None}) = {}
    /\ MaxStarts \in Nat
    /\ None \notin Nat /\ None \notin InvocationIds /\ None \notin Clients
    /\ Self \in {Self} /\ 1 \in Nat \ {0} /\ MaxSeq \in Nat
  BY SupervisorAssumption, NoneAssumption, MaxCommandsAssumption DEF Specs, MaxSeq

------------------------------------------------------------------------------
(* The steps of the host here are those of the host there.                    *)

LEMMA SameHost ==
    /\ ActorHostProcess!Init <=> HostFacts!Init
    /\ \A c : /\ ActorHostProcess!Connect(c) <=> HostFacts!Connect(c)
              /\ ActorHostProcess!ConnectFails(c) <=> HostFacts!ConnectFails(c)
              /\ ActorHostProcess!Opens(c) <=> HostFacts!Opens(c)
              /\ ActorHostProcess!SocketFails(c) <=> HostFacts!SocketFails(c)
              /\ ActorHostProcess!Close(c) <=> HostFacts!Close(c)
              /\ ActorHostProcess!NextInbound(c) = HostFacts!NextInbound(c)
    /\ \A c, m : /\ ActorHostProcess!Expected(c, m) <=> HostFacts!Expected(c, m)
                 /\ ActorHostProcess!Receive(c, m) <=> HostFacts!Receive(c, m)
    /\ ActorHostProcess!InitializationFails <=> HostFacts!InitializationFails
    /\ ActorHostProcess!InitializationSucceeds <=> HostFacts!InitializationSucceeds
    /\ \A e : ActorHostProcess!BackendStep(e) <=> HostFacts!BackendStep(e)
    /\ ActorHostProcess!React <=> HostFacts!React
<1>1. ActorHostProcess!Init <=> HostFacts!Init
  BY DEF ActorHostProcess!Init, HostFacts!Init, ActorHostProcess!Supervisor!Init,
         HostFacts!Supervisor!Init
<1>2. /\ \A c : ActorHostProcess!Connect(c) <=> HostFacts!Connect(c)
      /\ \A c : ActorHostProcess!ConnectFails(c) <=> HostFacts!ConnectFails(c)
      /\ \A c : ActorHostProcess!SocketFails(c) <=> HostFacts!SocketFails(c)
      /\ \A c : ActorHostProcess!Close(c) <=> HostFacts!Close(c)
  BY DEF ActorHostProcess!Connect, HostFacts!Connect, ActorHostProcess!ConnectFails,
         HostFacts!ConnectFails, ActorHostProcess!SocketFails, HostFacts!SocketFails,
         ActorHostProcess!Close, HostFacts!Close, ActorHostProcess!Quiet,
         HostFacts!Quiet, ActorHostProcess!supervisor, HostFacts!supervisor,
         ActorHostProcess!ClientFailed, HostFacts!ClientFailed
<1>3. \A c : ActorHostProcess!Opens(c) <=> HostFacts!Opens(c)
  BY DEF ActorHostProcess!Opens, HostFacts!Opens, ActorHostProcess!Quiet,
         HostFacts!Quiet, ActorHostProcess!supervisor, HostFacts!supervisor,
         ActorHostProcess!Hello, HostFacts!Hello, ActorHostProcess!ClientFailed,
         HostFacts!ClientFailed, ActorHostProcess!Transmitted, HostFacts!Transmitted,
         ActorHostProcess!Written, HostFacts!Written
<1>4. /\ \A c : ActorHostProcess!NextInbound(c) = HostFacts!NextInbound(c)
      /\ \A c, m : ActorHostProcess!Expected(c, m) <=> HostFacts!Expected(c, m)
  BY DEF ActorHostProcess!NextInbound, HostFacts!NextInbound,
         ActorHostProcess!Expected, HostFacts!Expected
<1>5. \A c, m : ActorHostProcess!Receive(c, m) <=> HostFacts!Receive(c, m)
  BY DEF ActorHostProcess!Receive, HostFacts!Receive,
         ActorHostProcess!ReceiveRejected, HostFacts!ReceiveRejected,
         ActorHostProcess!ReceiveAck, HostFacts!ReceiveAck,
         ActorHostProcess!ReceiptFails, HostFacts!ReceiptFails,
         ActorHostProcess!InitializeForeign, HostFacts!InitializeForeign,
         ActorHostProcess!Initialize, HostFacts!Initialize,
         ActorHostProcess!StartRejected, HostFacts!StartRejected,
         ActorHostProcess!LaunchFails, HostFacts!LaunchFails,
         ActorHostProcess!StartThrows, HostFacts!StartThrows, ActorHostProcess!Start,
         HostFacts!Start, ActorHostProcess!StopRejected, HostFacts!StopRejected,
         ActorHostProcess!Stop, HostFacts!Stop, ActorHostProcess!Shutdown,
         HostFacts!Shutdown, ActorHostProcess!MayStart, HostFacts!MayStart,
         ActorHostProcess!Command, HostFacts!Command, ActorHostProcess!IsCommand,
         HostFacts!IsCommand, ActorHostProcess!Accepts, HostFacts!Accepts,
         ActorHostProcess!Expected, HostFacts!Expected, ActorHostProcess!NextInbound,
         HostFacts!NextInbound, ActorHostProcess!Consumed, HostFacts!Consumed,
         ActorHostProcess!Acknowledged, HostFacts!Acknowledged,
         ActorHostProcess!Acknowledge, HostFacts!Acknowledge,
         ActorHostProcess!AcknowledgeAndAnswer, HostFacts!AcknowledgeAndAnswer,
         ActorHostProcess!Cause, HostFacts!Cause, ActorHostProcess!Queue,
         HostFacts!Queue, ActorHostProcess!Quiet, HostFacts!Quiet,
         ActorHostProcess!supervisor, HostFacts!supervisor, ActorHostProcess!Ack,
         HostFacts!Ack, ActorHostProcess!Ready, HostFacts!Ready,
         ActorHostProcess!Fault, HostFacts!Fault, ActorHostProcess!Result,
         HostFacts!Result, ActorHostProcess!ClientFailed, HostFacts!ClientFailed,
         ActorHostProcess!Transmitted, HostFacts!Transmitted,
         ActorHostProcess!Written, HostFacts!Written, ActorHostProcess!Sent,
         HostFacts!Sent, ActorHostProcess!Supervisor!InitializeVerdict,
         HostFacts!Supervisor!InitializeVerdict,
         ActorHostProcess!Supervisor!Initialize, HostFacts!Supervisor!Initialize,
         ActorHostProcess!Supervisor!StartVerdict, HostFacts!Supervisor!StartVerdict,
         ActorHostProcess!Supervisor!Start, HostFacts!Supervisor!Start,
         ActorHostProcess!Supervisor!NewExecution, HostFacts!Supervisor!NewExecution,
         ActorHostProcess!Supervisor!StopVerdict, HostFacts!Supervisor!StopVerdict,
         ActorHostProcess!Supervisor!Stop, HostFacts!Supervisor!Stop,
         ActorHostProcess!Supervisor!StopThrows, HostFacts!Supervisor!StopThrows,
         ActorHostProcess!Supervisor!Fail, HostFacts!Supervisor!Fail,
         ActorHostProcess!Supervisor!IsActive, HostFacts!Supervisor!IsActive
<1>6. /\ ActorHostProcess!InitializationFails <=> HostFacts!InitializationFails
      /\ ActorHostProcess!InitializationSucceeds <=> HostFacts!InitializationSucceeds
  BY DEF ActorHostProcess!InitializationFails, HostFacts!InitializationFails,
         ActorHostProcess!InitializationSucceeds, HostFacts!InitializationSucceeds,
         ActorHostProcess!AnswerAll, HostFacts!AnswerAll, ActorHostProcess!Quiet,
         HostFacts!Quiet, ActorHostProcess!Ready, HostFacts!Ready,
         ActorHostProcess!Fault, HostFacts!Fault,
         ActorHostProcess!Supervisor!InitializationFails,
         HostFacts!Supervisor!InitializationFails,
         ActorHostProcess!Supervisor!InitializationSucceeds,
         HostFacts!Supervisor!InitializationSucceeds
<1>7. \A e : ActorHostProcess!BackendStep(e) <=> HostFacts!BackendStep(e)
  BY DEF ActorHostProcess!BackendStep, HostFacts!BackendStep,
         ActorHostProcess!SessionResolves, HostFacts!SessionResolves,
         ActorHostProcess!SessionRejects, HostFacts!SessionRejects,
         ActorHostProcess!CompletionResolves, HostFacts!CompletionResolves,
         ActorHostProcess!CompletionRejects, HostFacts!CompletionRejects,
         ActorHostProcess!StopRejects, HostFacts!StopRejects, ActorHostProcess!Finish,
         HostFacts!Finish, ActorHostProcess!Tell, HostFacts!Tell,
         ActorHostProcess!TellFailure, HostFacts!TellFailure, ActorHostProcess!Quiet,
         HostFacts!Quiet, ActorHostProcess!Report, HostFacts!Report,
         ActorHostProcess!Result, HostFacts!Result, ActorHostProcess!Fault,
         HostFacts!Fault, ActorHostProcess!Supervisor!SessionResolves,
         HostFacts!Supervisor!SessionResolves,
         ActorHostProcess!Supervisor!SessionRejects,
         HostFacts!Supervisor!SessionRejects,
         ActorHostProcess!Supervisor!CompletionResolves,
         HostFacts!Supervisor!CompletionResolves,
         ActorHostProcess!Supervisor!CompletionRejects,
         HostFacts!Supervisor!CompletionRejects,
         ActorHostProcess!Supervisor!StopRejects, HostFacts!Supervisor!StopRejects,
         ActorHostProcess!Supervisor!Finish, HostFacts!Supervisor!Finish,
         ActorHostProcess!Supervisor!Fail, HostFacts!Supervisor!Fail,
         ActorHostProcess!Supervisor!IsActive, HostFacts!Supervisor!IsActive,
         ActorHostProcess!Supervisor!ResolvedSession,
         HostFacts!Supervisor!ResolvedSession,
         ActorHostProcess!Supervisor!SessionValues,
         HostFacts!Supervisor!SessionValues, ActorHostProcess!Supervisor!Completions,
         HostFacts!Supervisor!Completions
<1>8. ActorHostProcess!React <=> HostFacts!React
  BY DEF ActorHostProcess!React, HostFacts!React, ActorHostProcess!supervisor,
         HostFacts!supervisor, ActorHostProcess!ClientFailed, HostFacts!ClientFailed,
         ActorHostProcess!Transmitted, HostFacts!Transmitted,
         ActorHostProcess!Written, HostFacts!Written, ActorHostProcess!Sent,
         HostFacts!Sent
<1> QED BY <1>1, <1>2, <1>3, <1>4, <1>5, <1>6, <1>7, <1>8

------------------------------------------------------------------------------
(* The inductive invariant.                                                   *)

Payloads == Commands \union [kind: {"ack"}, acknowledged: Nat]
ToHost == [seq: Nat, payload: Payloads]

GatewayTyped ==
    /\ gatewayState \in [Clients -> {"unopened", "pending", "live", "failed"}]
    /\ identity \in [Clients -> {Context, None}]
    /\ nextInbound \in [Clients -> Nat] /\ nextOutbound \in [Clients -> Nat]
    /\ pendingCommands \in [Clients -> SUBSET Nat] /\ reconciled \in [Clients -> SUBSET Nat]
    /\ toHost \in [Clients -> Seq(ToHost)]
    /\ facts \in [Clients -> Seq(Nat)]

\* A connection knows who the host is, and says nothing before the hello.
Begun(c) ==
    /\ gatewayState[c] # "unopened" => identity[c] = Context
    /\ gatewayState[c] \in {"unopened", "pending"} => nextInbound[c] = 0 /\ toHost[c] = <<>>
    /\ gatewayState[c] = "live" => nextInbound[c] # 0

\* What the gateway writes is numbered from 0, until a write fails.
Numbered(c) ==
    /\ \A i \in 1..Len(toHost[c]) : toHost[c][i].seq = i - 1
    /\ gatewayState[c] # "failed" => nextOutbound[c] = Len(toHost[c])

\* What one end has received is what the other wrote, up to some point.
Carried(c) ==
    /\ nextInbound[c] <= Len(link[c].toServer)
    /\ Len(link[c].received) <= Len(toHost[c])
    /\ \A i \in 1..Len(link[c].received) : link[c].received[i] = toHost[c][i].payload

\* A command that a live connection sent is pending or reconciled; the latter are
\* the commands whose receipt arrived, which the host has received.
Settled(c) ==
    /\ gatewayState[c] = "live" =>
         \A i \in 1..Len(toHost[c]) :
           toHost[c][i].payload.kind # "ack" => i - 1 \in pendingCommands[c] \union reconciled[c]
    /\ \A j \in 1..nextInbound[c] :
         link[c].toServer[j].payload.kind = "ack" =>
           link[c].toServer[j].payload.acknowledged \in reconciled[c]
    /\ reconciled[c] \subseteq 0..(Len(link[c].received) - 1)

\* A fact that the sink accepted arrived, and is neither the hello nor a receipt.
FactsArrived(c) ==
    \A i \in 1..Len(facts[c]) :
        /\ facts[c][i] \in 1..(nextInbound[c] - 1)
        /\ link[c].toServer[facts[c][i] + 1].payload.kind # "ack"

ConnectionInv(c) ==
    Begun(c) /\ Numbered(c) /\ Carried(c) /\ Settled(c) /\ FactsArrived(c)

ProtocolInv ==
    /\ HostFacts!HostInv(Payloads)
    /\ GatewayTyped
    /\ \A c \in Clients : ConnectionInv(c)

------------------------------------------------------------------------------
(* The host keeps its own invariant.                                          *)

LEMMA PayloadsReadable == HostFacts!Readable(Payloads)
  BY DEF HostFacts!Readable, HostFacts!Supervisor!Invocations, Payloads, Commands, Specs, Self

\* A message on its way to the host is one that its server may send.
LEMMA ToActorHostTyped ==
    ASSUME GatewayTyped, NEW c \in Clients, NEW m \in ToActorHost(c)
    PROVE  /\ m \in HostFacts!ServerMessagesOf(Payloads)
           /\ Len(link[c].received) + 1 \in DOMAIN toHost[c]
           /\ m.payload = toHost[c][Len(link[c].received) + 1].payload
<1> DEFINE i == Len(link[c].received) + 1
<1>1. /\ i \in DOMAIN toHost[c]
      /\ m = [generation |-> 1, seq |-> toHost[c][i].seq, payload |-> toHost[c][i].payload]
  BY DEF ToActorHost, ActorHostProcess!NextInbound
<1>2. toHost[c][i] \in ToHost
  BY <1>1 DEF GatewayTyped
<1> QED BY <1>1, <1>2 DEF HostFacts!ServerMessagesOf, ToHost

\* A step of the host moves no connection.
HostSteps == HostFacts!LinksStep(Payloads)

LEMMA HostReceives ==
    ASSUME HostFacts!HostInv(Payloads), GatewayTyped, NEW c \in Clients, ActorHostReceives(c)
    PROVE  /\ HostFacts!HostInv(Payloads)' /\ HostSteps
           /\ \E m \in ToActorHost(c) :
                /\ \A d \in Clients : d # c => link'[d] = link[d]
                /\ HostFacts!Hears(c, m, link'[c])
<1>1. PICK m \in ToActorHost(c) : HostFacts!Receive(c, m)
  BY SameHost DEF ActorHostReceives
<1>2. m \in HostFacts!ServerMessagesOf(Payloads)
  BY ToActorHostTyped
<1>3. HostFacts!HostInv(Payloads)'
  BY <1>1, <1>2, PayloadsReadable, HostAssumptions, HostFacts!ReceiveKeeps
<1>4. /\ HostFacts!LinksStep(Payloads)
      /\ \A d \in Clients : d # c => link'[d] = link[d]
      /\ HostFacts!Hears(c, m, link'[c])
  BY <1>1, <1>2, PayloadsReadable, HostAssumptions, HostFacts!ReceiveLinks
<1> QED BY <1>3, <1>4 DEF HostSteps

LEMMA HostActs ==
    ASSUME HostFacts!HostInv(Payloads),
           \/ \E c \in Clients : \/ ActorHostProcess!Connect(c) \/ ActorHostProcess!ConnectFails(c)
                                 \/ ActorHostProcess!Opens(c) \/ ActorHostProcess!SocketFails(c)
                                 \/ ActorHostProcess!Close(c)
           \/ ActorHostWorks
    PROVE  /\ HostFacts!HostInv(Payloads)' /\ HostSteps
           /\ \A c \in Clients : link'[c].received = link[c].received
<1>1. ASSUME NEW c \in Clients,
             \/ ActorHostProcess!Connect(c) \/ ActorHostProcess!ConnectFails(c)
             \/ ActorHostProcess!Opens(c) \/ ActorHostProcess!SocketFails(c)
             \/ ActorHostProcess!Close(c)
      PROVE  /\ HostFacts!HostInv(Payloads)' /\ HostSteps
             /\ \A d \in Clients : link'[d].received = link[d].received
  <2>1. \/ HostFacts!Connect(c) \/ HostFacts!ConnectFails(c) \/ HostFacts!Opens(c)
        \/ HostFacts!SocketFails(c) \/ HostFacts!Close(c)
    BY <1>1, SameHost
  <2>2. HostFacts!HostInv(Payloads)'
    BY <2>1, HostAssumptions, HostFacts!ClientKeeps
  <2>3. /\ HostFacts!LinksStep(Payloads)
        /\ \A d \in Clients : link'[d].received = link[d].received
    BY <2>1, HostAssumptions, HostFacts!ClientHearsNothing
  <2> QED BY <2>2, <2>3 DEF HostSteps
<1>2. CASE ActorHostWorks
  <2>1. DOMAIN execs = 1..Len(execs)
    BY DEF HostFacts!HostInv, HostFacts!SupervisorOK, HostFacts!Supervisor!TypeOK
  <2>2. \/ HostFacts!InitializationFails \/ HostFacts!InitializationSucceeds
        \/ \E e \in 1..Len(execs) : HostFacts!BackendStep(e)
        \/ HostFacts!React
    BY <1>2, <2>1, SameHost DEF ActorHostWorks
  <2>3. HostFacts!HostInv(Payloads)'
    BY <2>2, HostAssumptions, HostFacts!InitializationKeeps, HostFacts!BackendKeeps,
       HostFacts!ReactKeeps
  <2>4. /\ HostFacts!LinksStep(Payloads)
        /\ \A d \in Clients : link'[d].received = link[d].received
    BY <2>2, HostAssumptions, HostFacts!WorkHearsNothing
  <2> QED BY <2>3, <2>4 DEF HostSteps
<1> QED BY <1>1, <1>2

LEMMA HostRests ==
    ASSUME HostFacts!HostInv(Payloads), UNCHANGED hostVars PROVE HostFacts!HostInv(Payloads)'
<1>1. UNCHANGED HostFacts!vars
  BY DEF hostVars, HostFacts!vars, HostFacts!supervisor
<1> QED BY <1>1, HostAssumptions, HostFacts!NothingKeeps

------------------------------------------------------------------------------
(* A step of the host leaves what was agreed: it received at most the next    *)
(* message, and its links only grow.                                          *)

LEMMA LinkShape ==
    ASSUME HostFacts!HostInv(Payloads), NEW c \in Clients
    PROVE  /\ link[c] \in HostFacts!LinksOf(Payloads)
           /\ HostFacts!LinkInv(link[c])
           /\ Len(link[c].received) \in Nat /\ Len(link[c].toServer) \in Nat
           /\ DOMAIN link[c].toServer = 1..Len(link[c].toServer)
           /\ \A i \in 1..Len(link[c].toServer) : link[c].toServer[i] \in HostFacts!Envelopes
  BY DEF HostFacts!HostInv, HostFacts!HostTyped, HostFacts!LinksInv, HostFacts!LinksOf

LEMMA HostAgrees ==
    ASSUME ProtocolInv, HostFacts!HostInv(Payloads)', HostSteps, UNCHANGED gatewayVars,
           NEW c \in Clients,
           \/ link'[c].received = link[c].received
           \/ \E x : /\ link'[c].received = Append(link[c].received, x)
                     /\ Len(link[c].received) + 1 \in DOMAIN toHost[c]
                     /\ x = toHost[c][Len(link[c].received) + 1].payload
    PROVE  ConnectionInv(c)'
<1> DEFINE l == link[c]
           r == link'[c]
<1>1. /\ ConnectionInv(c) /\ GatewayTyped
      /\ Len(l.received) \in Nat /\ Len(l.toServer) \in Nat /\ l \in HostFacts!LinksOf(Payloads)
  BY LinkShape DEF ProtocolInv
<1>2. /\ HostFacts!Grew(l, r) /\ Len(r.toServer) \in Nat /\ Len(r.received) \in Nat
  BY LinkShape DEF HostSteps, HostFacts!LinksStep, HostFacts!LinksOf
<1>3. /\ Len(toHost[c]) \in Nat /\ DOMAIN toHost[c] = 1..Len(toHost[c])
      /\ nextInbound[c] \in Nat
  BY <1>1 DEF GatewayTyped
<1>4. \A j \in 1..Len(l.toServer) : r.toServer[j] = l.toServer[j]
  BY <1>2 DEF HostFacts!Grew
<1>5. Len(l.toServer) <= Len(r.toServer) /\ Len(l.received) <= Len(r.received)
  BY <1>2 DEF HostFacts!Grew
<1>6. /\ Len(r.received) <= Len(toHost[c])
      /\ \A i \in 1..Len(r.received) : r.received[i] = toHost[c][i].payload
  <2>1. CASE r.received = l.received
    BY <1>1, <2>1 DEF ConnectionInv, Carried
  <2>2. CASE \E x : /\ r.received = Append(l.received, x)
                    /\ Len(l.received) + 1 \in DOMAIN toHost[c]
                    /\ x = toHost[c][Len(l.received) + 1].payload
    <3>1. PICK x : /\ r.received = Append(l.received, x)
                   /\ Len(l.received) + 1 \in DOMAIN toHost[c]
                   /\ x = toHost[c][Len(l.received) + 1].payload
      BY <2>2
    <3>2. l.received \in Seq(Payloads)
      BY <1>1 DEF HostFacts!LinksOf
    <3>3. Len(r.received) = Len(l.received) + 1
      BY <3>1, <3>2
    <3>4. \A i \in 1..Len(l.received) : r.received[i] = l.received[i]
      BY <3>1, <3>2
    <3>5. r.received[Len(l.received) + 1] = x
      BY <3>1, <3>2
    <3>6. \A i \in 1..Len(l.received) : l.received[i] = toHost[c][i].payload
      BY <1>1 DEF ConnectionInv, Carried
    <3>7. PICK m \in Nat : m = Len(l.received)
      BY <1>1
    <3>8. m + 1 <= Len(toHost[c])
      BY <1>3, <3>1, <3>7
    <3>9. \A i \in 1..(m + 1) : r.received[i] = toHost[c][i].payload
      <4>1. ASSUME NEW i \in 1..(m + 1)
            PROVE  r.received[i] = toHost[c][i].payload
        <5>1. CASE i \in 1..m
          BY <3>4, <3>6, <3>7, <5>1
        <5>2. CASE i = m + 1
          BY <3>1, <3>5, <3>7, <5>2
        <5> QED
          BY <4>1, <5>1, <5>2
      <4> QED
        BY <4>1
    <3> QED
      BY <3>3, <3>7, <3>8, <3>9
  <2> QED BY <2>1, <2>2
<1> HIDE DEF l, r
<1>7. /\ UNCHANGED <<identity, gatewayState, nextInbound, nextOutbound, pendingCommands,
                     toHost, facts, reconciled>>
      /\ l = link[c] /\ r = link'[c]
  BY DEF gatewayVars, l, r
<1>8. Begun(c)' /\ Numbered(c)'
  BY <1>1, <1>7 DEF ConnectionInv, Begun, Numbered
<1>9. Carried(c)'
  <2>1. nextInbound[c] <= Len(l.toServer)
    BY <1>1, <1>7 DEF ConnectionInv, Carried
  <2>2. nextInbound[c] <= Len(r.toServer)
    BY <1>1, <1>2, <1>3, <1>5, <2>1
  <2> QED
    BY <1>6, <1>7, <2>2 DEF Carried
<1>10. Settled(c)'
  <2>1. \A j \in 1..nextInbound[c] : r.toServer[j] = l.toServer[j]
    BY <1>1, <1>3, <1>4, <1>7 DEF ConnectionInv, Carried
  <2>2. 0..(Len(l.received) - 1) \subseteq 0..(Len(r.received) - 1)
    BY <1>1, <1>2, <1>5
  <2>3. Settled(c)
    BY <1>1 DEF ConnectionInv
  <2> QED BY <1>7, <2>1, <2>2, <2>3 DEF Settled
<1>11. FactsArrived(c)'
  <2>1. ASSUME NEW i \in 1..Len(facts[c])
        PROVE  r.toServer[facts[c][i] + 1] = l.toServer[facts[c][i] + 1]
    <3>1. facts[c][i] \in 1..(nextInbound[c] - 1)
      BY <1>1 DEF ConnectionInv, FactsArrived
    <3>2. nextInbound[c] <= Len(l.toServer)
      BY <1>1, <1>7 DEF ConnectionInv, Carried
    <3>3. PICK n : n = facts[c][i] + 1
      OBVIOUS
    <3>4. n \in 1..Len(l.toServer)
      BY <1>1, <1>3, <3>1, <3>2, <3>3
    <3> QED BY <1>4, <3>3, <3>4
  <2>2. FactsArrived(c)
    BY <1>1 DEF ConnectionInv
  <2> QED BY <1>7, <2>1, <2>2 DEF FactsArrived
<1> QED BY <1>8, <1>9, <1>10, <1>11 DEF ConnectionInv

------------------------------------------------------------------------------
(* The message that arrives next at the gateway.                              *)

LEMMA ReadShape ==
    ASSUME NEW x \in HostFacts!Envelopes
    PROVE  /\ Read(x).kind = "envelope" /\ Read(x).generation = 1 /\ Read(x).seq = x.seq
           /\ Read(x).payload.kind = x.payload.kind
           /\ x.payload.kind = "ack" => Read(x).payload = x.payload
           /\ x.payload.kind = "host_hello" => Read(x).payload.who = Context
           /\ x.payload.kind = "host_ready" => Read(x).payload.actor = Actor
           /\ x.payload.kind = "invocation_result" =>
                Read(x).payload.project = Project /\ Read(x).payload.actor = Actor
  BY DEF Read, HostFacts!Envelopes, HostFacts!HostPayloads

\* What the host may have said at the position i of a link.
LEMMA Spoken ==
    ASSUME HostFacts!HostInv(Payloads), NEW c \in Clients, NEW i \in 1..Len(link[c].toServer)
    PROVE  LET x == link[c].toServer[i] IN
           /\ x \in HostFacts!Envelopes /\ x.seq = i - 1
           /\ x.payload.kind = "host_hello" <=> i = 1
           /\ x.payload.kind # "host_hello" => x.cause \in 0..(Len(link[c].received) - 1)
           /\ x.payload.kind = "ack" =>
                /\ x.payload.acknowledged = x.cause
                /\ link[c].received[x.cause + 1].kind # "ack"
           /\ x.payload.kind \notin {"host_hello", "ack"} =>
                /\ HostFacts!Answers(x.payload, link[c].received[x.cause + 1])
                /\ \E j \in 1..(i - 1) : HostFacts!Acknowledges(link[c].toServer[j], x.cause)
<1> PICK l : l = link[c]
  OBVIOUS
<1> PICK x : x = l.toServer[i]
  OBVIOUS
<1>1. /\ HostFacts!MessageOK(l, i) /\ x \in HostFacts!Envelopes
      /\ i \in Nat /\ Len(l.received) \in Nat
  BY LinkShape DEF HostFacts!LinkInv
<1>2. \A p, command : HostFacts!Answers(p, command) => p.kind \notin {"host_hello", "ack"}
  BY DEF HostFacts!Answers
<1>3. \A n : HostFacts!Acknowledges(x, n) => x.payload.kind = "ack" /\ x.payload.acknowledged = n
  BY DEF HostFacts!Acknowledges
<1>4. x.seq = i - 1
  BY <1>1 DEF HostFacts!MessageOK
<1> DEFINE Goal == /\ x \in HostFacts!Envelopes /\ x.seq = i - 1
                   /\ x.payload.kind = "host_hello" <=> i = 1
                   /\ x.payload.kind # "host_hello" => x.cause \in 0..(Len(l.received) - 1)
                   /\ x.payload.kind = "ack" =>
                        /\ x.payload.acknowledged = x.cause
                        /\ l.received[x.cause + 1].kind # "ack"
                   /\ x.payload.kind \notin {"host_hello", "ack"} =>
                        /\ HostFacts!Answers(x.payload, l.received[x.cause + 1])
                        /\ \E j \in 1..(i - 1) : HostFacts!Acknowledges(l.toServer[j], x.cause)
<1>5. ASSUME i = 1 /\ x.cause = None /\ x.payload = HostFacts!Hello
      PROVE  Goal
  <2>1. x.payload.kind = "host_hello"
    BY <1>5 DEF HostFacts!Hello
  <2> QED BY <1>1, <1>4, <1>5, <2>1
<1>6. ASSUME /\ i > 1 /\ x.cause \in 0..(Len(l.received) - 1)
             /\ HostFacts!Acknowledges(x, x.cause)
             /\ l.received[x.cause + 1].kind # "ack"
      PROVE  Goal
  <2>1. x.payload.kind = "ack" /\ x.payload.acknowledged = x.cause
    BY <1>3, <1>6
  <2> QED BY <1>1, <1>4, <1>6, <2>1
<1>7. ASSUME /\ i > 1 /\ x.cause \in 0..(Len(l.received) - 1)
             /\ HostFacts!Answers(x.payload, l.received[x.cause + 1])
             /\ HostFacts!AckedBy(l, x.cause, i - 1)
      PROVE  Goal
  <2>1. x.payload.kind \notin {"host_hello", "ack"}
    BY <1>2, <1>7
  <2>2. \E j \in 1..(i - 1) : HostFacts!Acknowledges(l.toServer[j], x.cause)
    BY <1>7 DEF HostFacts!AckedBy
  <2>3. i # 1 /\ x.payload.kind # "ack" /\ x.payload.kind # "host_hello"
    BY <1>7, <2>1
  <2> QED BY <1>1, <1>4, <1>7, <2>2, <2>3
<1> HIDE DEF Goal
<1>8. Goal
  <2>1. \/ i = 1 /\ x.cause = None /\ x.payload = HostFacts!Hello
        \/ /\ i > 1 /\ x.cause \in 0..(Len(l.received) - 1)
           /\ HostFacts!Acknowledges(x, x.cause)
           /\ l.received[x.cause + 1].kind # "ack"
        \/ /\ i > 1 /\ x.cause \in 0..(Len(l.received) - 1)
           /\ HostFacts!Answers(x.payload, l.received[x.cause + 1])
           /\ HostFacts!AckedBy(l, x.cause, i - 1)
    BY <1>1 DEF HostFacts!MessageOK
  <2> QED BY <1>5, <1>6, <1>7, <2>1
<1> QED BY <1>8 DEF Goal

LEMMA Arrives ==
    ASSUME ProtocolInv, NEW c \in Clients, NEW m \in ToGateway(c)
    PROVE  \E i \in 1..Len(link[c].toServer) :
             i = nextInbound[c] + 1 /\ m = Read(link[c].toServer[i])
  BY LinkShape DEF ToGateway, ProtocolInv

\* The gateway accepts it.
LEMMA GatewayAccepts ==
    ASSUME ProtocolInv, NEW c \in Clients, Gateway!Open(c), NEW m \in ToGateway(c)
    PROVE  Gateway!Acceptable(c, m)
<1>1. PICK i \in 1..Len(link[c].toServer) :
        i = nextInbound[c] + 1 /\ m = Read(link[c].toServer[i])
  BY Arrives
<1> PICK x : x = link[c].toServer[i]
  OBVIOUS
<1>2. /\ x \in HostFacts!Envelopes /\ x.seq = i - 1
      /\ x.payload.kind = "host_hello" <=> i = 1
  BY Spoken DEF ProtocolInv
<1>3. /\ ConnectionInv(c) /\ gatewayState[c] \in {"pending", "live"} /\ nextInbound[c] \in Nat
  BY DEF ProtocolInv, GatewayTyped, Gateway!Open
<1>4. /\ identity[c] = Context
      /\ gatewayState[c] = "pending" => i = 1
      /\ gatewayState[c] = "live" => i # 1
  BY <1>1, <1>3 DEF ConnectionInv, Begun
<1>0. m = Read(x) /\ x.seq = nextInbound[c]
  BY <1>1, <1>2, <1>3
<1>5. m.kind = "envelope" /\ m.generation = 1 /\ m.seq = nextInbound[c]
  BY <1>0, <1>2, ReadShape
<1>6. /\ m.payload.kind = x.payload.kind
      /\ m.payload.kind = "host_hello" => m.payload.who = Context
      /\ m.payload.kind = "host_ready" => m.payload.actor = Actor
      /\ m.payload.kind = "invocation_result" =>
           m.payload.project = Project /\ m.payload.actor = Actor
  BY <1>0, <1>2, ReadShape
<1>7. Gateway!ValidEnvelope(c, m)
  BY <1>5 DEF Gateway!ValidEnvelope, Gateway!HOST_CONNECTION_GENERATION
<1>8. Context.project = Project /\ Context.actor = Actor
  BY DEF Context
<1>9. gatewayState[c] = "pending" => Gateway!MatchesHelloIdentity(c, m)
  BY <1>2, <1>4, <1>6 DEF Gateway!MatchesHelloIdentity
<1>10. Gateway!MatchesPostHelloIdentity(c, m)
  BY <1>4, <1>6, <1>8 DEF Gateway!MatchesPostHelloIdentity
<1> QED BY <1>2, <1>3, <1>4, <1>6, <1>7, <1>9, <1>10 DEF Gateway!Acceptable

------------------------------------------------------------------------------
(* A step of the gateway.  It moves one connection.                           *)

Still(d) ==
    /\ identity'[d] = identity[d] /\ gatewayState'[d] = gatewayState[d]
    /\ nextInbound'[d] = nextInbound[d] /\ nextOutbound'[d] = nextOutbound[d]
    /\ pendingCommands'[d] = pendingCommands[d] /\ toHost'[d] = toHost[d]
    /\ facts'[d] = facts[d] /\ reconciled'[d] = reconciled[d]

Moves(c) == GatewayTyped' /\ \A d \in Clients : d # c => Still(d)

LEMMA OthersAgree ==
    ASSUME ProtocolInv, NEW c \in Clients, Moves(c), UNCHANGED hostVars, ConnectionInv(c)'
    PROVE  ProtocolInv'
<1>1. ASSUME NEW d \in Clients, d # c PROVE ConnectionInv(d)'
  <2>1. Still(d) /\ ConnectionInv(d) /\ link' = link
    BY <1>1 DEF Moves, ProtocolInv, hostVars
  <2> QED BY <2>1 DEF Still, ConnectionInv, Begun, Numbered, Carried, Settled, FactsArrived
<1>2. HostFacts!HostInv(Payloads)'
  BY HostRests DEF ProtocolInv
<1> QED BY <1>1, <1>2 DEF ProtocolInv, Moves

\* The fields of a connection after it failed.  What it wrote stays.
LEMMA FailShape ==
    ASSUME GatewayTyped, NEW c \in Clients, gatewayState[c] # "unopened",
           Gateway!FailConnection(c)
    PROVE  /\ gatewayState' \in [Clients -> {"unopened", "pending", "live", "failed"}]
           /\ pendingCommands' \in [Clients -> SUBSET Nat]
           /\ gatewayState'[c] = "failed" /\ pendingCommands'[c] = {}
           /\ UNCHANGED <<identity, facts, reconciled>>
           /\ \A d \in Clients : d # c => /\ gatewayState'[d] = gatewayState[d]
                                          /\ pendingCommands'[d] = pendingCommands[d]
  BY DEF GatewayTyped, Gateway!FailConnection

LEMMA ConsumeShape ==
    ASSUME GatewayTyped, NEW c \in Clients, Gateway!ConsumeOutbound(c)
    PROVE  /\ nextOutbound' \in [Clients -> Nat]
           /\ nextOutbound'[c] = nextOutbound[c] + 1
           /\ \A d \in Clients : d # c => nextOutbound'[d] = nextOutbound[d]
  BY DEF GatewayTyped, Gateway!ConsumeOutbound

LEMMA WriteShape ==
    ASSUME GatewayTyped, NEW c \in Clients, NEW payload \in Payloads, Gateway!Write(c, payload)
    PROVE  /\ nextOutbound' \in [Clients -> Nat] /\ toHost' \in [Clients -> Seq(ToHost)]
           /\ nextOutbound'[c] = nextOutbound[c] + 1
           /\ toHost'[c] = Append(toHost[c], [seq |-> nextOutbound[c], payload |-> payload])
           /\ \A d \in Clients : d # c => /\ nextOutbound'[d] = nextOutbound[d]
                                          /\ toHost'[d] = toHost[d]
<1> DEFINE z == [seq |-> nextOutbound[c], payload |-> payload]
<1>1. /\ nextOutbound' \in [Clients -> Nat]
      /\ nextOutbound'[c] = nextOutbound[c] + 1
      /\ \A d \in Clients : d # c => nextOutbound'[d] = nextOutbound[d]
  BY ConsumeShape DEF Gateway!Write
<1>2. z \in ToHost
  BY DEF ToHost, GatewayTyped
<1>3. toHost' = [toHost EXCEPT ![c] = Append(@, z)]
  BY DEF Gateway!Write
<1> HIDE DEF z
<1>4. Append(toHost[c], z) \in Seq(ToHost) /\ toHost \in [Clients -> Seq(ToHost)]
  BY <1>2 DEF GatewayTyped
<1>5. /\ toHost' \in [Clients -> Seq(ToHost)] /\ toHost'[c] = Append(toHost[c], z)
      /\ \A d \in Clients : d # c => toHost'[d] = toHost[d]
  BY <1>3, <1>4
<1> QED BY <1>1, <1>5 DEF z

\* The position of what was written.
LEMMA WrittenAt ==
    ASSUME GatewayTyped, NEW c \in Clients, NEW z, toHost'[c] = Append(toHost[c], z)
    PROVE  /\ Len(toHost[c]) \in Nat /\ Len(toHost'[c]) = Len(toHost[c]) + 1
           /\ \A i \in 1..Len(toHost[c]) : toHost'[c][i] = toHost[c][i]
           /\ toHost'[c][Len(toHost[c]) + 1] = z
  BY DEF GatewayTyped

\* A connection that failed agrees with what it was.
LEMMA FailedAgrees ==
    ASSUME ProtocolInv, NEW c \in Clients, gatewayState[c] # "unopened",
           Gateway!FailConnection(c), nextOutbound' \in [Clients -> Nat],
           \A d \in Clients : d # c => nextOutbound'[d] = nextOutbound[d],
           UNCHANGED <<nextInbound, toHost>>, UNCHANGED hostVars
    PROVE  ProtocolInv'
<1>1. /\ GatewayTyped /\ ConnectionInv(c) /\ link' = link
  BY DEF ProtocolInv, hostVars
<1>2. /\ gatewayState' \in [Clients -> {"unopened", "pending", "live", "failed"}]
      /\ pendingCommands' \in [Clients -> SUBSET Nat]
      /\ gatewayState'[c] = "failed"
      /\ UNCHANGED <<identity, facts, reconciled>>
      /\ \A d \in Clients : d # c => /\ gatewayState'[d] = gatewayState[d]
                                     /\ pendingCommands'[d] = pendingCommands[d]
  BY <1>1, FailShape
<1>3. Moves(c)
  BY <1>1, <1>2 DEF Moves, GatewayTyped, Still
<1>4. ConnectionInv(c)'
  BY <1>1, <1>2 DEF ConnectionInv, Begun, Numbered, Carried, Settled, FactsArrived
<1> QED BY <1>3, <1>4, OthersAgree

\* A connection is opened, or is refused at once.
LEMMA OpenAgrees ==
    ASSUME ProtocolInv, NEW c \in Clients, UNCHANGED hostVars,
           Gateway!OpenConnection(c, Context) \/ Gateway!OpenConnectionFails(c, Context)
    PROVE  ProtocolInv'
<1>1. /\ GatewayTyped /\ ConnectionInv(c) /\ link' = link /\ gatewayState[c] = "unopened"
  BY DEF ProtocolInv, hostVars, Gateway!OpenConnection, Gateway!OpenConnectionFails,
         Gateway!MayOpen
<1>2. \E st \in {"pending", "failed"} :
        /\ gatewayState' = [gatewayState EXCEPT ![c] = st]
        /\ identity' = [identity EXCEPT ![c] = Context]
        /\ UNCHANGED <<nextInbound, nextOutbound, pendingCommands, toHost, facts, reconciled>>
  BY DEF Gateway!OpenConnection, Gateway!OpenConnectionFails
<1>3. Moves(c) /\ gatewayState'[c] \in {"pending", "failed"} /\ identity'[c] = Context
  BY <1>1, <1>2 DEF Moves, GatewayTyped, Still
<1>4. ConnectionInv(c)'
  BY <1>1, <1>2, <1>3 DEF ConnectionInv, Begun, Numbered, Carried, Settled, FactsArrived
<1> QED BY <1>3, <1>4, OthersAgree

\* What was written before is not written again.
LEMMA WriteCarries ==
    ASSUME HostFacts!HostInv(Payloads), GatewayTyped, NEW c \in Clients, Carried(c),
           UNCHANGED link, nextInbound'[c] <= Len(link[c].toServer),
           NEW n \in Nat, n = Len(toHost[c]), Len(toHost'[c]) = n + 1,
           \A i \in 1..n : toHost'[c][i] = toHost[c][i]
    PROVE  Carried(c)'
<1>1. Len(link[c].received) \in Nat /\ Len(link[c].received) <= n
  BY LinkShape DEF Carried
<1>2. \A i \in 1..Len(link[c].received) : i \in 1..n
  BY <1>1
<1>3. \A i \in 1..Len(link[c].received) : link[c].received[i] = toHost'[c][i].payload
  BY <1>2 DEF Carried
<1> QED BY <1>1, <1>3 DEF Carried

\* A command is sent, or its write fails.
LEMMA SendAgrees ==
    ASSUME ProtocolInv, NEW c \in Clients, NEW p \in Commands, UNCHANGED hostVars,
           Gateway!SendOnConnection(c, p)
    PROVE  ProtocolInv'
<1>1. /\ GatewayTyped /\ ConnectionInv(c) /\ link' = link /\ gatewayState[c] = "live"
  BY DEF ProtocolInv, hostVars, Gateway!SendOnConnection, Gateway!Send, Gateway!SendFails,
         Gateway!MaySend
<1>2. CASE Gateway!SendFails(c, p)
  BY <1>1, <1>2, ConsumeShape, FailedAgrees DEF Gateway!SendFails, Gateway!WriteFails
<1>3. CASE Gateway!Send(c, p)
  <2> DEFINE n == nextOutbound[c]
             z == [seq |-> n, payload |-> p]
  <2>1. /\ Gateway!Write(c, p) /\ p \in Payloads
        /\ pendingCommands' = [pendingCommands EXCEPT ![c] = @ \union {n}]
        /\ UNCHANGED <<identity, gatewayState, nextInbound, facts, reconciled>>
    BY <1>3 DEF Gateway!Send, Payloads
  <2>2. /\ nextOutbound' \in [Clients -> Nat] /\ toHost' \in [Clients -> Seq(ToHost)]
        /\ nextOutbound'[c] = n + 1
        /\ toHost'[c] = Append(toHost[c], z)
        /\ \A d \in Clients : d # c => /\ nextOutbound'[d] = nextOutbound[d]
                                       /\ toHost'[d] = toHost[d]
    BY <1>1, <2>1, WriteShape
  <2>3. /\ n \in Nat /\ n = Len(toHost[c])
        /\ z.seq = n /\ pendingCommands'[c] = pendingCommands[c] \union {n}
    BY <1>1, <2>1 DEF GatewayTyped, ConnectionInv, Numbered
  <2>4. pendingCommands' \in [Clients -> SUBSET Nat]
    BY <1>1, <2>1, <2>3 DEF GatewayTyped
  <2>5. Moves(c)
    BY <1>1, <2>1, <2>2, <2>4 DEF Moves, GatewayTyped, Still
  <2> HIDE DEF z, n
  <2>6. /\ Len(toHost'[c]) = n + 1
        /\ \A i \in 1..n : toHost'[c][i] = toHost[c][i]
        /\ toHost'[c][n + 1] = z
    BY <1>1, <2>2, <2>3, WrittenAt
  <2>7. Begun(c)' /\ FactsArrived(c)'
    BY <1>1, <2>1 DEF ConnectionInv, Begun, FactsArrived
  <2>8. Numbered(c)'
    BY <1>1, <2>1, <2>2, <2>3, <2>6 DEF ConnectionInv, Numbered
  <2>9. Carried(c)'
    <3>1. nextInbound'[c] <= Len(link[c].toServer)
      BY <1>1, <2>1 DEF ConnectionInv, Carried
    <3> QED BY <1>1, <2>3, <2>6, <3>1, WriteCarries DEF ConnectionInv, ProtocolInv
  <2>10. Settled(c)'
    <3>1. ASSUME NEW i \in 1..(n + 1), toHost'[c][i].payload.kind # "ack"
          PROVE  i - 1 \in pendingCommands'[c] \union reconciled'[c]
      <4>1. CASE i = n + 1
        BY <2>3, <4>1
      <4>2. CASE i \in 1..n
        BY <1>1, <2>1, <2>3, <2>6, <3>1, <4>2 DEF ConnectionInv, Settled
      <4> QED BY <2>3, <4>1, <4>2
    <3> QED BY <1>1, <2>1, <2>6, <3>1 DEF ConnectionInv, Settled
  <2> QED BY <2>5, <2>7, <2>8, <2>9, <2>10, OthersAgree DEF ConnectionInv
<1> QED BY <1>2, <1>3 DEF Gateway!SendOnConnection

------------------------------------------------------------------------------
(* The gateway receives.                                                      *)

\* The next message is consumed: it is one more of what arrived.
LEMMA OneMoreArrived ==
    ASSUME ProtocolInv, NEW c \in Clients, NEW m \in ToGateway(c),
           Gateway!ConsumeInbound(c)
    PROVE  /\ nextInbound' \in [Clients -> Nat] /\ nextInbound'[c] = nextInbound[c] + 1
           /\ \A d \in Clients : d # c => nextInbound'[d] = nextInbound[d]
           /\ nextInbound'[c] <= Len(link[c].toServer)
           /\ \A j \in 1..nextInbound'[c] : j \in 1..nextInbound[c] \/ j = nextInbound[c] + 1
           /\ LET x == link[c].toServer[nextInbound[c] + 1] IN
              /\ m.payload.kind = x.payload.kind /\ m.seq = nextInbound[c]
              /\ x.payload.kind = "host_hello" <=> nextInbound[c] = 0
              /\ x.payload.kind = "ack" =>
                   /\ m.payload.acknowledged = x.payload.acknowledged
                   /\ x.payload.acknowledged \in 0..(Len(link[c].received) - 1)
                   /\ link[c].received[x.payload.acknowledged + 1].kind # "ack"
<1> PICK n : n = nextInbound[c]
  OBVIOUS
<1>1. n \in Nat /\ nextInbound \in [Clients -> Nat]
  BY DEF ProtocolInv, GatewayTyped
<1>2. PICK i \in 1..Len(link[c].toServer) : i = n + 1 /\ m = Read(link[c].toServer[i])
  BY Arrives
<1> PICK x : x = link[c].toServer[i]
  OBVIOUS
<1>3. /\ x \in HostFacts!Envelopes /\ x.seq = i - 1
      /\ x.payload.kind = "host_hello" <=> i = 1
      /\ x.payload.kind # "host_hello" => x.cause \in 0..(Len(link[c].received) - 1)
      /\ x.payload.kind = "ack" =>
           /\ x.payload.acknowledged = x.cause
           /\ link[c].received[x.cause + 1].kind # "ack"
  BY Spoken DEF ProtocolInv
<1>4. m = Read(x)
  BY <1>2
<1>5. /\ m.payload.kind = x.payload.kind /\ m.seq = x.seq
      /\ x.payload.kind = "ack" => m.payload = x.payload
  BY <1>3, <1>4, ReadShape
<1>6. nextInbound' \in [Clients -> Nat] /\ nextInbound'[c] = n + 1
  BY <1>1 DEF Gateway!ConsumeInbound
<1>7. \A d \in Clients : d # c => nextInbound'[d] = nextInbound[d]
  BY <1>1 DEF Gateway!ConsumeInbound
<1>8. n + 1 <= Len(link[c].toServer) /\ \A j \in 1..(n + 1) : j \in 1..n \/ j = n + 1
  BY <1>1, <1>2
<1>9. x.seq = n /\ (i = 1 <=> n = 0)
  BY <1>1, <1>2, <1>3
<1>10. x = link[c].toServer[n + 1]
  BY <1>2
<1>11. x.payload.kind = "ack" =>
         /\ m.payload.acknowledged = x.payload.acknowledged
         /\ x.payload.acknowledged \in 0..(Len(link[c].received) - 1)
         /\ link[c].received[x.payload.acknowledged + 1].kind # "ack"
  BY <1>3, <1>5
<1> QED BY <1>3, <1>5, <1>6, <1>7, <1>8, <1>9, <1>10, <1>11

\* A receipt is written for the next message.
LEMMA ReceiptWritten ==
    ASSUME GatewayTyped, NEW c \in Clients, NEW m, m.seq \in Nat, Gateway!Write(c, Gateway!Ack(m)),
           Numbered(c), gatewayState[c] # "failed"
    PROVE  LET n == Len(toHost[c]) IN
           /\ nextOutbound' \in [Clients -> Nat] /\ toHost' \in [Clients -> Seq(ToHost)]
           /\ n \in Nat /\ Len(toHost'[c]) = n + 1 /\ nextOutbound'[c] = n + 1
           /\ \A i \in 1..n : toHost'[c][i] = toHost[c][i]
           /\ toHost'[c][n + 1].payload.kind = "ack" /\ toHost'[c][n + 1].seq = n
           /\ \A i \in 1..(n + 1) : toHost'[c][i].seq = i - 1
           /\ \A d \in Clients : d # c => /\ nextOutbound'[d] = nextOutbound[d]
                                          /\ toHost'[d] = toHost[d]
<1> DEFINE n == Len(toHost[c])
           p == Gateway!Ack(m)
           z == [seq |-> nextOutbound[c], payload |-> p]
<1>1. p \in Payloads /\ p.kind = "ack"
  BY DEF Gateway!Ack, Payloads
<1>2. n = nextOutbound[c] /\ z.seq = n /\ z.payload = p
  BY DEF Numbered
<1> HIDE DEF p
<1>3. /\ nextOutbound' \in [Clients -> Nat] /\ toHost' \in [Clients -> Seq(ToHost)]
      /\ nextOutbound'[c] = nextOutbound[c] + 1
      /\ toHost'[c] = Append(toHost[c], z)
      /\ \A d \in Clients : d # c => /\ nextOutbound'[d] = nextOutbound[d]
                                     /\ toHost'[d] = toHost[d]
  BY <1>1, WriteShape DEF p
<1> HIDE DEF z
<1>4. /\ n \in Nat /\ Len(toHost'[c]) = n + 1
      /\ \A i \in 1..n : toHost'[c][i] = toHost[c][i]
      /\ toHost'[c][n + 1] = z
  BY <1>3, WrittenAt
<1>5. \A i \in 1..n : toHost[c][i].seq = i - 1
  BY DEF Numbered
<1> HIDE DEF n
<1>6. ASSUME NEW i \in 1..(n + 1) PROVE toHost'[c][i].seq = i - 1
  <2>1. CASE i = n + 1
    BY <1>2, <1>4, <2>1
  <2>2. CASE i # n + 1
    <3>1. i \in 1..n
      BY <1>4, <2>2
    <3> QED BY <1>4, <1>5, <3>1
  <2> QED BY <2>1, <2>2
<1> QED BY <1>1, <1>2, <1>3, <1>4, <1>6 DEF n

LEMMA HelloAgrees ==
    ASSUME ProtocolInv, NEW c \in Clients, NEW m \in ToGateway(c), UNCHANGED hostVars,
           Gateway!ReceiveHello(c, m)
    PROVE  ProtocolInv'
<1>1. /\ GatewayTyped /\ ConnectionInv(c) /\ link' = link /\ gatewayState[c] = "pending"
      /\ Gateway!Write(c, Gateway!Ack(m)) /\ Gateway!ConsumeInbound(c)
      /\ gatewayState' = [gatewayState EXCEPT ![c] = "live"]
      /\ UNCHANGED <<identity, pendingCommands, facts, reconciled>>
  BY DEF ProtocolInv, hostVars, Gateway!ReceiveHello, Gateway!CommitLive
<1>2. /\ nextInbound[c] = 0 /\ toHost[c] = <<>> /\ identity[c] = Context
      /\ Begun(c) /\ Numbered(c) /\ Carried(c) /\ Settled(c) /\ FactsArrived(c)
  BY <1>1 DEF ConnectionInv, Begun
<1>3. /\ nextInbound' \in [Clients -> Nat] /\ nextInbound'[c] = 1 /\ m.seq = 0
      /\ \A d \in Clients : d # c => nextInbound'[d] = nextInbound[d]
      /\ nextInbound'[c] <= Len(link[c].toServer)
      /\ link[c].toServer[1].payload.kind = "host_hello"
  <2>1. /\ nextInbound' \in [Clients -> Nat] /\ nextInbound'[c] = nextInbound[c] + 1
        /\ \A d \in Clients : d # c => nextInbound'[d] = nextInbound[d]
        /\ nextInbound'[c] <= Len(link[c].toServer)
    BY <1>1, OneMoreArrived
  <2>2. /\ m.seq = nextInbound[c]
        /\ link[c].toServer[nextInbound[c] + 1].payload.kind = "host_hello" <=> nextInbound[c] = 0
    BY <1>1, OneMoreArrived
  <2>3. link[c].toServer[1].payload.kind = "host_hello" /\ m.seq = 0
    BY <1>2, <2>2
  <2> QED BY <1>2, <2>1, <2>3
<1>4. /\ nextOutbound' \in [Clients -> Nat] /\ toHost' \in [Clients -> Seq(ToHost)]
      /\ Len(toHost'[c]) = 1 /\ nextOutbound'[c] = 1
      /\ toHost'[c][1].payload.kind = "ack"
      /\ \A i \in 1..1 : toHost'[c][i].seq = i - 1
      /\ \A d \in Clients : d # c => /\ nextOutbound'[d] = nextOutbound[d]
                                     /\ toHost'[d] = toHost[d]
  <2>1. /\ LET n == Len(toHost[c]) IN
           /\ Len(toHost'[c]) = n + 1 /\ nextOutbound'[c] = n + 1
           /\ toHost'[c][n + 1].payload.kind = "ack"
           /\ \A i \in 1..(n + 1) : toHost'[c][i].seq = i - 1
        /\ nextOutbound' \in [Clients -> Nat] /\ toHost' \in [Clients -> Seq(ToHost)]
        /\ \A d \in Clients : d # c => /\ nextOutbound'[d] = nextOutbound[d]
                                       /\ toHost'[d] = toHost[d]
    <3>1. m.seq \in Nat /\ gatewayState[c] # "failed"
      BY <1>1, <1>3
    <3> QED BY <1>1, <1>2, <3>1, ReceiptWritten
  <2>2. Len(toHost[c]) = 0
    BY <1>2
  <2> QED BY <2>1, <2>2
<1>5. Moves(c) /\ gatewayState'[c] = "live"
  BY <1>1, <1>3, <1>4 DEF Moves, GatewayTyped, Still
<1>6. Begun(c)' /\ Numbered(c)'
  BY <1>1, <1>2, <1>3, <1>4, <1>5 DEF Begun, Numbered
<1>7. Carried(c)'
  <2>1. Len(toHost[c]) = 0 /\ Len(link[c].received) \in Nat
    BY <1>2, LinkShape DEF ProtocolInv
  <2>2. Len(link[c].received) = 0
    BY <1>2, <2>1 DEF Carried
  <2> QED BY <1>1, <1>3, <1>4, <2>2 DEF Carried
<1>8. Settled(c)'
  BY <1>1, <1>2, <1>3, <1>4 DEF Settled
<1>9. FactsArrived(c)'
  BY <1>1, <1>2 DEF FactsArrived
<1> QED BY <1>5, <1>6, <1>7, <1>8, <1>9, OthersAgree DEF ConnectionInv

LEMMA AckAgrees ==
    ASSUME ProtocolInv, NEW c \in Clients, NEW m \in ToGateway(c), UNCHANGED hostVars,
           Gateway!ReceiveAck(c, m)
    PROVE  ProtocolInv'
<1> DEFINE x == link[c].toServer[nextInbound[c] + 1]
           n == x.payload.acknowledged
<1>1. /\ GatewayTyped /\ ConnectionInv(c) /\ link' = link /\ gatewayState[c] = "live"
      /\ Gateway!ConsumeInbound(c) /\ m.payload.kind = "ack"
      /\ UNCHANGED <<identity, gatewayState, nextOutbound, toHost, facts>>
  BY DEF ProtocolInv, hostVars, Gateway!ReceiveAck
<1>2. Begun(c) /\ Numbered(c) /\ Carried(c) /\ Settled(c) /\ FactsArrived(c)
  BY <1>1 DEF ConnectionInv
<1>3. /\ nextInbound' \in [Clients -> Nat] /\ nextInbound'[c] = nextInbound[c] + 1
      /\ \A d \in Clients : d # c => nextInbound'[d] = nextInbound[d]
      /\ nextInbound'[c] <= Len(link[c].toServer)
      /\ \A j \in 1..nextInbound'[c] : j \in 1..nextInbound[c] \/ j = nextInbound[c] + 1
      /\ m.payload.acknowledged = n
      /\ n \in 0..(Len(link[c].received) - 1)
      /\ link[c].received[n + 1].kind # "ack"
  BY <1>1, OneMoreArrived
<1> HIDE DEF n, x
<1>4. /\ n \in Nat /\ n + 1 \in 1..Len(link[c].received) /\ n + 1 \in 1..Len(toHost[c])
      /\ toHost[c][n + 1].payload.kind # "ack"
  <2>1. n \in Nat /\ n + 1 \in 1..Len(link[c].received)
    BY <1>3, LinkShape DEF ProtocolInv
  <2>2. n + 1 \in 1..Len(toHost[c])
    BY <1>1, <1>2, <2>1, LinkShape DEF Carried, ProtocolInv, GatewayTyped
  <2> QED BY <1>2, <1>3, <2>1, <2>2 DEF Carried
<1>5. n \in pendingCommands[c] \union reconciled[c]
  BY <1>1, <1>2, <1>4 DEF Settled
<1>6. /\ pendingCommands' \in [Clients -> SUBSET Nat] /\ reconciled' \in [Clients -> SUBSET Nat]
      /\ pendingCommands'[c] = pendingCommands[c] \ {n}
      /\ reconciled'[c] = reconciled[c] \union {n}
      /\ \A d \in Clients : d # c => /\ pendingCommands'[d] = pendingCommands[d]
                                     /\ reconciled'[d] = reconciled[d]
  <2>1. /\ pendingCommands' = [pendingCommands EXCEPT ![c] = @ \ {n}]
        /\ reconciled' = [reconciled EXCEPT ![c] = @ \union (pendingCommands[c] \intersect {n})]
    BY <1>3 DEF Gateway!ReceiveAck
  <2> QED BY <1>1, <1>4, <1>5, <2>1 DEF GatewayTyped
<1>7. Moves(c)
  BY <1>1, <1>3, <1>6 DEF Moves, GatewayTyped, Still
<1>8. Begun(c)' /\ Numbered(c)' /\ Carried(c)'
  <2>0. nextInbound[c] \in Nat /\ nextInbound'[c] # 0
    BY <1>1, <1>3 DEF GatewayTyped
  <2>1. Begun(c)' /\ Numbered(c)'
    BY <1>1, <1>2, <2>0 DEF Begun, Numbered
  <2>2. Carried(c)'
    BY <1>1, <1>2, <1>3 DEF Carried
  <2> QED BY <2>1, <2>2
<1>9. Settled(c)'
  <2>1. gatewayState'[c] = "live" =>
          \A i \in 1..Len(toHost'[c]) :
            toHost'[c][i].payload.kind # "ack" => i - 1 \in pendingCommands'[c] \union reconciled'[c]
    BY <1>1, <1>2, <1>6 DEF Settled
  <2>2. \A j \in 1..nextInbound'[c] :
          link[c].toServer[j].payload.kind = "ack" =>
            link[c].toServer[j].payload.acknowledged \in reconciled'[c]
    BY <1>2, <1>3, <1>6 DEF Settled, n, x
  <2>3. reconciled'[c] \subseteq 0..(Len(link[c].received) - 1)
    BY <1>2, <1>3, <1>6 DEF Settled
  <2> QED BY <1>1, <2>1, <2>2, <2>3 DEF Settled
<1>10. FactsArrived(c)'
  <2>1. 1..(nextInbound[c] - 1) \subseteq 1..(nextInbound'[c] - 1)
    BY <1>1, <1>3 DEF GatewayTyped
  <2> QED BY <1>1, <1>2, <2>1 DEF FactsArrived
<1> QED BY <1>7, <1>8, <1>9, <1>10, OthersAgree DEF ConnectionInv

\* A fact arrives: its receipt is written, and the sink accepts it or throws.
LEMMA FactAgrees ==
    ASSUME ProtocolInv, NEW c \in Clients, NEW m \in ToGateway(c), UNCHANGED hostVars,
           Gateway!ReceiveFact(c, m) \/ Gateway!ReceiveFactSinkFails(c, m)
    PROVE  ProtocolInv'
<1> DEFINE k == nextInbound[c]
           x == link[c].toServer[k + 1]
           n == Len(toHost[c])
<1>1. /\ GatewayTyped /\ ConnectionInv(c) /\ link' = link /\ gatewayState[c] = "live"
      /\ Gateway!Write(c, Gateway!Ack(m)) /\ Gateway!ConsumeInbound(c) /\ m.payload.kind # "ack"
      /\ UNCHANGED <<identity, reconciled>>
  BY DEF ProtocolInv, hostVars, Gateway!ReceiveFact, Gateway!ReceiveFactSinkFails,
         Gateway!CarriesFact, Gateway!FailConnection
<1>2. /\ Begun(c) /\ Numbered(c) /\ Carried(c) /\ Settled(c) /\ FactsArrived(c)
      /\ k \in Nat /\ k # 0 /\ identity[c] = Context
  BY <1>1 DEF ConnectionInv, Begun, GatewayTyped
<1>3. /\ nextInbound' \in [Clients -> Nat] /\ nextInbound'[c] = k + 1
      /\ \A d \in Clients : d # c => nextInbound'[d] = nextInbound[d]
      /\ nextInbound'[c] <= Len(link[c].toServer)
      /\ \A j \in 1..nextInbound'[c] : j \in 1..k \/ j = k + 1
      /\ x.payload.kind # "ack" /\ m.seq = k
  BY <1>1, OneMoreArrived
<1>4. /\ nextOutbound' \in [Clients -> Nat] /\ toHost' \in [Clients -> Seq(ToHost)]
      /\ n \in Nat /\ Len(toHost'[c]) = n + 1 /\ nextOutbound'[c] = n + 1
      /\ \A i \in 1..n : toHost'[c][i] = toHost[c][i]
      /\ toHost'[c][n + 1].payload.kind = "ack"
      /\ \A i \in 1..(n + 1) : toHost'[c][i].seq = i - 1
      /\ \A d \in Clients : d # c => /\ nextOutbound'[d] = nextOutbound[d]
                                     /\ toHost'[d] = toHost[d]
  <2>1. m.seq \in Nat /\ gatewayState[c] # "failed"
    BY <1>1, <1>2, <1>3
  <2> QED BY <1>1, <1>2, <2>1, ReceiptWritten
<1>5. /\ facts' \in [Clients -> Seq(Nat)]
      /\ \A d \in Clients : d # c => facts'[d] = facts[d]
      /\ facts'[c] = facts[c] \/ facts'[c] = Append(facts[c], k)
  <2>1. facts \in [Clients -> Seq(Nat)]
    BY <1>1 DEF GatewayTyped
  <2>2. CASE facts' = facts
    BY <2>1, <2>2
  <2>3. CASE facts' = [facts EXCEPT ![c] = Append(@, m.seq)]
    <3>1. Append(facts[c], k) \in Seq(Nat)
      BY <1>2, <2>1
    <3>2. facts' = [facts EXCEPT ![c] = Append(facts[c], k)]
      BY <1>3, <2>3
    <3> QED BY <2>1, <3>1, <3>2
  <2> QED BY <2>2, <2>3 DEF Gateway!ReceiveFact, Gateway!ReceiveFactSinkFails,
                            Gateway!FailConnection
<1>6. /\ gatewayState' \in [Clients -> {"unopened", "pending", "live", "failed"}]
      /\ pendingCommands' \in [Clients -> SUBSET Nat]
      /\ \A d \in Clients : d # c => /\ gatewayState'[d] = gatewayState[d]
                                     /\ pendingCommands'[d] = pendingCommands[d]
      /\ \/ gatewayState'[c] = "live" /\ pendingCommands'[c] = pendingCommands[c]
         \/ gatewayState'[c] = "failed"
  <2>1. CASE Gateway!ReceiveFact(c, m)
    BY <1>1, <2>1 DEF GatewayTyped, Gateway!ReceiveFact
  <2>2. CASE Gateway!ReceiveFactSinkFails(c, m)
    BY <1>1, <2>2, FailShape DEF Gateway!ReceiveFactSinkFails
  <2> QED BY <2>1, <2>2
<1>7. Moves(c)
  BY <1>1, <1>3, <1>4, <1>5, <1>6 DEF Moves, GatewayTyped, Still
<1> HIDE DEF n
<1>8. Begun(c)' /\ Numbered(c)'
  BY <1>1, <1>2, <1>3, <1>4, <1>6 DEF Begun, Numbered
<1>9. Carried(c)'
  BY <1>1, <1>2, <1>3, <1>4, WriteCarries DEF ProtocolInv, n
<1>10. Settled(c)'
  <2>1. ASSUME gatewayState'[c] = "live", NEW i \in 1..(n + 1), toHost'[c][i].payload.kind # "ack"
        PROVE  i - 1 \in pendingCommands'[c] \union reconciled'[c]
    <3>1. i \in 1..n
      BY <1>4, <2>1
    <3>2. toHost[c][i].payload.kind # "ack"
      BY <1>4, <2>1, <3>1
    <3> QED BY <1>1, <1>2, <1>6, <2>1, <3>1, <3>2 DEF Settled, n
  <2>2. \A j \in 1..nextInbound'[c] :
          link[c].toServer[j].payload.kind = "ack" =>
            link[c].toServer[j].payload.acknowledged \in reconciled'[c]
    BY <1>1, <1>2, <1>3 DEF Settled
  <2> QED BY <1>1, <1>2, <1>4, <2>1, <2>2 DEF Settled
<1>11. FactsArrived(c)'
  <2>1. 1..(k - 1) \subseteq 1..(nextInbound'[c] - 1) /\ k \in 1..(nextInbound'[c] - 1)
    BY <1>2, <1>3
  <2>2. CASE facts'[c] = facts[c]
    BY <1>1, <1>2, <2>1, <2>2 DEF FactsArrived
  <2>3. CASE facts'[c] = Append(facts[c], k)
    <3>1. /\ Len(facts[c]) \in Nat /\ Len(facts'[c]) = Len(facts[c]) + 1
          /\ \A i \in 1..Len(facts[c]) : facts'[c][i] = facts[c][i]
          /\ facts'[c][Len(facts[c]) + 1] = k
      BY <1>1, <2>3 DEF GatewayTyped
    <3>2. ASSUME NEW i \in 1..Len(facts'[c])
          PROVE  /\ facts'[c][i] \in 1..(nextInbound'[c] - 1)
                 /\ link[c].toServer[facts'[c][i] + 1].payload.kind # "ack"
      <4>1. CASE i \in 1..Len(facts[c])
        BY <1>2, <2>1, <3>1, <4>1 DEF FactsArrived
      <4>2. CASE i = Len(facts[c]) + 1
        BY <1>3, <2>1, <3>1, <4>2
      <4> QED BY <3>1, <4>1, <4>2
    <3> QED BY <1>1, <3>2 DEF FactsArrived
  <2> QED BY <1>5, <2>2, <2>3
<1> QED BY <1>7, <1>8, <1>9, <1>10, <1>11, OthersAgree DEF ConnectionInv

LEMMA GatewayReceivesAgrees ==
    ASSUME ProtocolInv, NEW c \in Clients, GatewayReceives(c) PROVE ProtocolInv'
<1>1. PICK m \in ToGateway(c) : Gateway!Receive(c, m)
  BY DEF GatewayReceives
<1>2. UNCHANGED hostVars /\ GatewayTyped
  BY DEF GatewayReceives, ProtocolInv
<1>3. CASE Gateway!ReceiveRejected(c, m)
  BY <1>1, <1>3, GatewayAccepts DEF Gateway!ReceiveRejected
<1>4. CASE Gateway!ReceiptFails(c, m)
  <2>1. gatewayState[c] # "unopened"
    BY <1>4 DEF Gateway!ReceiptFails, Gateway!CarriesFact
  <2>2. Gateway!FailConnection(c) /\ UNCHANGED <<nextInbound, toHost>> /\ Gateway!ConsumeOutbound(c)
    BY <1>4 DEF Gateway!ReceiptFails, Gateway!WriteFails
  <2> QED BY <1>2, <2>1, <2>2, ConsumeShape, FailedAgrees
<1> QED BY <1>1, <1>2, <1>3, <1>4, HelloAgrees, AckAgrees, FactAgrees DEF Gateway!Receive

------------------------------------------------------------------------------
(* Every step of the protocol keeps the invariant.                            *)

\* The runtime sends, the adapter upgrades, or the gateway's end fails.
LEMMA GatewayStepAgrees ==
    ASSUME ProtocolInv,
           RuntimeSends \/ \E c \in Clients : Upgrade(c) \/ GatewayReceives(c) \/ GatewayEndFails(c)
    PROVE  ProtocolInv'
<1>1. CASE RuntimeSends
  <2>1. PICK c \in Clients : \E p \in Commands : Gateway!SendOnConnection(c, p)
    BY <1>1 DEF RuntimeSends
  <2>2. PICK p \in Commands : Gateway!SendOnConnection(c, p)
    BY <2>1
  <2>3. UNCHANGED hostVars
    BY <1>1 DEF RuntimeSends
  <2> QED BY <2>2, <2>3, SendAgrees
<1>2. ASSUME NEW c \in Clients, Upgrade(c) PROVE ProtocolInv'
  <2>1. UNCHANGED hostVars
    BY <1>2 DEF Upgrade
  <2>2. CASE Gateway!OpenConnection(c, Context) \/ Gateway!OpenConnectionFails(c, Context)
    BY <2>1, <2>2, OpenAgrees
  <2>3. CASE UNCHANGED gatewayVars
    <3>1. Moves(c) /\ Still(c) /\ link' = link /\ ConnectionInv(c)
      BY <2>1, <2>3 DEF ProtocolInv, Moves, Still, GatewayTyped, gatewayVars, hostVars
    <3>2. ConnectionInv(c)'
      BY <3>1 DEF Still, ConnectionInv, Begun, Numbered, Carried, Settled, FactsArrived
    <3> QED BY <2>1, <3>1, <3>2, OthersAgree
  <2> QED BY <1>2, <2>2, <2>3 DEF Upgrade
<1>3. ASSUME NEW c \in Clients, GatewayEndFails(c) PROVE ProtocolInv'
  <2>1. /\ UNCHANGED hostVars /\ gatewayState[c] # "unopened" /\ Gateway!FailConnection(c)
        /\ UNCHANGED <<nextInbound, nextOutbound, toHost>>
    BY <1>3 DEF GatewayEndFails, Gateway!TransportFails, Gateway!Open
  <2>2. /\ nextOutbound' \in [Clients -> Nat]
        /\ \A d \in Clients : d # c => nextOutbound'[d] = nextOutbound[d]
    BY <2>1 DEF ProtocolInv, GatewayTyped
  <2> QED BY <2>1, <2>2, FailedAgrees
<1> QED BY <1>1, <1>2, <1>3, GatewayReceivesAgrees

\* A client connects, opens or ends, a message reaches the host, or it works.
LEMMA HostStepAgrees ==
    ASSUME ProtocolInv,
           ActorHostWorks \/ \E c \in Clients : \/ ClientConnects(c) \/ ClientOpens(c)
                                                \/ ActorHostReceives(c) \/ ActorHostEndFails(c)
    PROVE  ProtocolInv'
<1>1. HostFacts!HostInv(Payloads) /\ GatewayTyped
  BY DEF ProtocolInv
<1>2. UNCHANGED gatewayVars
  BY DEF ActorHostWorks, ClientConnects, ClientOpens, ActorHostReceives, ActorHostEndFails
<1>3. GatewayTyped'
  BY <1>1, <1>2 DEF GatewayTyped, gatewayVars
<1>4. ASSUME NEW c \in Clients, ActorHostReceives(c)
      PROVE  ProtocolInv'
  <2>1. /\ HostFacts!HostInv(Payloads)' /\ HostSteps
        /\ \E m \in ToActorHost(c) :
             /\ \A d \in Clients : d # c => link'[d] = link[d]
             /\ HostFacts!Hears(c, m, link'[c])
    BY <1>1, <1>4, HostReceives
  <2>2. PICK m \in ToActorHost(c) :
          /\ \A d \in Clients : d # c => link'[d] = link[d]
          /\ HostFacts!Hears(c, m, link'[c])
    BY <2>1
  <2>3. /\ Len(link[c].received) + 1 \in DOMAIN toHost[c]
        /\ m.payload = toHost[c][Len(link[c].received) + 1].payload
    BY <1>1, ToActorHostTyped
  <2>4. \/ link'[c].received = link[c].received
        \/ link'[c].received = Append(link[c].received, m.payload)
    BY <2>2 DEF HostFacts!Hears
  <2>5. ConnectionInv(c)'
    BY <1>2, <2>1, <2>3, <2>4, HostAgrees
  <2>6. ASSUME NEW d \in Clients, d # c PROVE ConnectionInv(d)'
    <3>1. link'[d].received = link[d].received
      BY <2>2, <2>6
    <3> QED BY <1>2, <2>1, <3>1, HostAgrees
  <2> QED BY <1>3, <2>1, <2>5, <2>6 DEF ProtocolInv
<1>5. ASSUME \/ ActorHostWorks
             \/ \E c \in Clients : ClientConnects(c) \/ ClientOpens(c) \/ ActorHostEndFails(c)
      PROVE  ProtocolInv'
  <2>1. /\ HostFacts!HostInv(Payloads)' /\ HostSteps
        /\ \A c \in Clients : link'[c].received = link[c].received
    BY <1>1, <1>5, HostActs DEF ClientConnects, ClientOpens, ActorHostEndFails
  <2>2. ASSUME NEW c \in Clients PROVE ConnectionInv(c)'
    BY <1>2, <2>1, HostAgrees
  <2> QED BY <1>3, <2>1, <2>2 DEF ProtocolInv
<1> QED BY <1>4, <1>5

LEMMA ProtocolRests == ProtocolInv /\ UNCHANGED vars => ProtocolInv'
<1> SUFFICES ASSUME ProtocolInv, UNCHANGED vars PROVE ProtocolInv'
  OBVIOUS
<1>1. UNCHANGED gatewayVars /\ UNCHANGED hostVars
  BY DEF vars
<1>2. HostFacts!HostInv(Payloads)'
  BY <1>1, HostRests DEF ProtocolInv
<1>3. GatewayTyped'
  BY <1>1 DEF ProtocolInv, GatewayTyped, gatewayVars
<1>4. ASSUME NEW c \in Clients PROVE ConnectionInv(c)'
  <2>1. ConnectionInv(c)
    BY DEF ProtocolInv
  <2> QED BY <1>1, <2>1 DEF ConnectionInv, Begun, Numbered, Carried, Settled, FactsArrived,
                            gatewayVars, hostVars
<1> QED BY <1>2, <1>3, <1>4 DEF ProtocolInv

LEMMA ProtocolInit == Init => ProtocolInv
<1> SUFFICES ASSUME Init PROVE ProtocolInv
  OBVIOUS
<1>1. HostFacts!Init
  BY SameHost DEF Init
<1>2. HostFacts!HostInv(Payloads)
  BY <1>1, HostAssumptions, HostFacts!HostInit
<1>3. GatewayTyped
  BY DEF Init, Gateway!Init, GatewayTyped
<1>4. ASSUME NEW c \in Clients PROVE ConnectionInv(c)
  <2>1. /\ gatewayState[c] = "unopened" /\ nextInbound[c] = 0 /\ nextOutbound[c] = 0
        /\ toHost[c] = <<>> /\ facts[c] = <<>> /\ reconciled[c] = {}
    BY DEF Init, Gateway!Init
  <2>2. link[c].received = <<>> /\ link[c].toServer = <<>>
    BY <1>1 DEF HostFacts!Init
  <2>3. Begun(c) /\ Numbered(c)
    BY <2>1 DEF Begun, Numbered
  <2>4. Carried(c) /\ Settled(c) /\ FactsArrived(c)
    BY <2>1, <2>2 DEF Carried, Settled, FactsArrived
  <2> QED BY <2>3, <2>4 DEF ConnectionInv
<1> QED BY <1>2, <1>3, <1>4 DEF ProtocolInv

LEMMA ProtocolStep == ProtocolInv /\ [Next]_vars => ProtocolInv'
  BY GatewayStepAgrees, HostStepAgrees, ProtocolRests DEF Next

LEMMA ProtocolInvariant == Spec => []ProtocolInv
  BY ProtocolInit, ProtocolStep, PTL DEF Spec

------------------------------------------------------------------------------
(* What follows.                                                              *)

LEMMA PeersAgreeHolds == ProtocolInv => PeersAgree
<1> SUFFICES ASSUME ProtocolInv, NEW c \in Clients
             PROVE  /\ Gateway!Open(c) => \A m \in ToGateway(c) : Gateway!Acceptable(c, m)
                    /\ link[c].connection = "live" =>
                          \A m \in ToActorHost(c) : ActorHostProcess!Expected(c, m)
  BY DEF PeersAgree
<1>1. ASSUME link[c].connection = "live", NEW m \in ToActorHost(c)
      PROVE  ActorHostProcess!Expected(c, m)
  <2>1. PICK i : /\ i = Len(link[c].received) + 1 /\ i \in DOMAIN toHost[c]
                 /\ m = [generation |-> 1, seq |-> toHost[c][i].seq, payload |-> toHost[c][i].payload]
    BY DEF ToActorHost, ActorHostProcess!NextInbound
  <2>2. i \in 1..Len(toHost[c]) /\ Len(link[c].received) \in Nat
    BY <2>1, LinkShape DEF ProtocolInv, GatewayTyped
  <2>3. m.generation = 1 /\ m.seq = i - 1
    BY <2>1, <2>2 DEF ProtocolInv, ConnectionInv, Numbered
  <2> QED BY <1>1, <2>1, <2>2, <2>3 DEF ActorHostProcess!Expected, ActorHostProcess!NextInbound
<1> QED BY <1>1, GatewayAccepts

\* Neither end ever takes the other for a faulty peer: the next message of a
\* connection that is open is one its receiver accepts (host-gateway.ts:215,
\* server-connection.ts:114).
THEOREM PeersNeverDisagree == Spec => []PeersAgree
  BY PeersAgreeHolds, ProtocolInvariant, PTL

\* A command that the host received is the one that was sent at its place.
LEMMA ReceivedWasSent ==
    ASSUME ProtocolInv, NEW c \in Clients, NEW n \in 0..(Len(link[c].received) - 1)
    PROVE  n + 1 \in DOMAIN toHost[c] /\ link[c].received[n + 1] = toHost[c][n + 1].payload
<1>1. /\ Carried(c) /\ Len(link[c].received) \in Nat
      /\ Len(toHost[c]) \in Nat /\ DOMAIN toHost[c] = 1..Len(toHost[c])
  BY LinkShape DEF ProtocolInv, ConnectionInv, GatewayTyped
<1>2. n + 1 \in 1..Len(link[c].received)
  BY <1>1
<1> QED BY <1>1, <1>2 DEF Carried

LEMMA ExecutedAsCommandedHolds == ProtocolInv => ExecutedAsCommanded
<1> SUFFICES ASSUME ProtocolInv PROVE ExecutedAsCommanded
  OBVIOUS
<1>1. DOMAIN execs = 1..Len(execs) /\ HostFacts!OriginInv
  BY DEF ProtocolInv, HostFacts!HostInv, HostFacts!SupervisorOK, HostFacts!Supervisor!TypeOK
<1>2. ASSUME NEW e \in 1..Len(execs)
      PROVE  LET sent == toHost[origin[e].client] IN
             /\ origin[e].seq + 1 \in DOMAIN sent
             /\ sent[origin[e].seq + 1].payload.kind = "start_invocation"
             /\ sent[origin[e].seq + 1].payload.inv = execs[e].inv
  <2> PICK o : o = origin[e]
    OBVIOUS
  <2> PICK c : c = o.client
    OBVIOUS
  <2>1. /\ c \in Clients /\ o.seq \in 0..(Len(link[c].received) - 1)
        /\ link[c].received[o.seq + 1].kind = "start_invocation"
        /\ link[c].received[o.seq + 1].inv = execs[e].inv
    BY <1>1 DEF HostFacts!OriginInv, HostFacts!Owed, HostFacts!Asked, HostFacts!Answerable,
                HostFacts!Causes
  <2> QED BY <2>1, ReceivedWasSent
<1> QED BY <1>1, <1>2 DEF ExecutedAsCommanded, HostFacts!OriginInv

\* An execution is one start_invocation that the runtime sent, on the connection
\* it will be reported on, and no command is executed twice.
THEOREM ExecutionsAreCommanded == Spec => []ExecutedAsCommanded
  BY ExecutedAsCommandedHolds, ProtocolInvariant, PTL

LEMMA SameAnswers ==
    ASSUME NEW p, NEW command, HostFacts!Answers(p, command) PROVE Answers(p, command)
<1>1. CASE p.kind = "host_ready" /\ command.kind = "initialize_actor_host"
  BY <1>1 DEF Answers
<1>2. CASE /\ p.kind \in {"session_report", "invocation_result"}
           /\ command.kind = "start_invocation" /\ command.inv.id = p.id
  BY <1>2 DEF Answers
<1>3. CASE p.kind = "host_fault"
  BY <1>3 DEF Answers, HostFacts!Answers
<1> QED BY <1>1, <1>2, <1>3 DEF HostFacts!Answers

LEMMA AnswersMatchHolds == ProtocolInv => AnswersMatchCommands
<1> SUFFICES ASSUME ProtocolInv, NEW c \in Clients
             PROVE  /\ \A n \in reconciled[c] : n < ActorHostProcess!NextInbound(c)
                    /\ \A x \in Delivered(c) :
                         /\ x.cause \in reconciled[c]
                         /\ Answers(x.payload, toHost[c][x.cause + 1].payload)
  BY DEF AnswersMatchCommands
<1>1. /\ Carried(c) /\ Settled(c) /\ FactsArrived(c)
      /\ Len(link[c].received) \in Nat /\ Len(link[c].toServer) \in Nat
      /\ nextInbound[c] \in Nat /\ DOMAIN facts[c] = 1..Len(facts[c])
  BY LinkShape DEF ProtocolInv, ConnectionInv, GatewayTyped
<1>2. ASSUME NEW n \in reconciled[c] PROVE n < ActorHostProcess!NextInbound(c)
  BY <1>1 DEF Settled, ActorHostProcess!NextInbound
<1>3. ASSUME NEW x \in Delivered(c)
      PROVE  x.cause \in reconciled[c] /\ Answers(x.payload, toHost[c][x.cause + 1].payload)
  <2>1. PICK k \in 1..Len(facts[c]) : x = link[c].toServer[facts[c][k] + 1]
    BY <1>1 DEF Delivered
  <2>2. PICK i : i = facts[c][k] + 1
    OBVIOUS
  <2>3. /\ i \in 1..Len(link[c].toServer) /\ i - 1 \in 1..(nextInbound[c] - 1)
        /\ i # 1 /\ x = link[c].toServer[i] /\ x.payload.kind # "ack"
    <3>0. /\ facts[c][k] \in 1..(nextInbound[c] - 1)
          /\ link[c].toServer[facts[c][k] + 1].payload.kind # "ack"
      BY <1>1 DEF FactsArrived
    <3>1. i - 1 \in 1..(nextInbound[c] - 1) /\ i \in Nat
      BY <1>1, <2>2, <3>0
    <3>2. nextInbound[c] <= Len(link[c].toServer)
      BY <1>1 DEF Carried
    <3>3. x = link[c].toServer[i] /\ x.payload.kind # "ack"
      BY <2>1, <2>2, <3>0
    <3> QED BY <1>1, <3>1, <3>2, <3>3
  <2>4. /\ x.cause \in 0..(Len(link[c].received) - 1)
        /\ HostFacts!Answers(x.payload, link[c].received[x.cause + 1])
        /\ \E j \in 1..(i - 1) : HostFacts!Acknowledges(link[c].toServer[j], x.cause)
    BY <2>3, Spoken DEF ProtocolInv
  <2>5. PICK j \in 1..(i - 1) : HostFacts!Acknowledges(link[c].toServer[j], x.cause)
    BY <2>4
  <2>6. j \in 1..nextInbound[c]
    BY <1>1, <2>3, <2>5
  <2>7. x.cause \in reconciled[c]
    BY <1>1, <2>5, <2>6 DEF Settled, HostFacts!Acknowledges
  <2>8. link[c].received[x.cause + 1] = toHost[c][x.cause + 1].payload
    BY <2>4, ReceivedWasSent
  <2> QED BY <2>4, <2>7, <2>8, SameAnswers
<1> QED BY <1>2, <1>3

\* What the runtime believes of its commands is so: those whose receipt it
\* accepted were received, and a fact given to the sink answers one of them.
THEOREM BeliefsAreTrue == Spec => []AnswersMatchCommands
  BY AnswersMatchHolds, ProtocolInvariant, PTL

------------------------------------------------------------------------------
(* Receipts.  What HostGatewayProofs proves of a step of the gateway, whatever *)
(* arrives, holds of the gateway here.                                        *)

GatewayFacts == INSTANCE HostGatewayProofs
    WITH Projects <- {Project}, Actors <- {Actor}, Hosts <- {Host},
         Contexts <- {Context}, Conns <- Clients, state <- gatewayState

LEMMA GatewayAssumptions ==
    /\ {Context} \subseteq [project: {Project}, actor: {Actor}, host: {Host}]
    /\ None \notin Clients /\ MaxSeq \in Nat
  BY HostAssumptions DEF Context

LEMMA SameGateway ==
    /\ Gateway!Init <=> GatewayFacts!Init
    /\ \A c, who : /\ Gateway!OpenConnection(c, who) <=> GatewayFacts!OpenConnection(c, who)
                   /\ Gateway!OpenConnectionFails(c, who)
                        <=> GatewayFacts!OpenConnectionFails(c, who)
    /\ \A c, m : Gateway!Receive(c, m) <=> GatewayFacts!Receive(c, m)
    /\ \A c, p : /\ Gateway!Send(c, p) <=> GatewayFacts!Send(c, p)
                 /\ Gateway!SendFails(c, p) <=> GatewayFacts!SendFails(c, p)
    /\ \A c : Gateway!TransportFails(c) <=> GatewayFacts!TransportFails(c)
    /\ Gateway!ReceiptPrecedesDelivery <=> GatewayFacts!ReceiptPrecedesDelivery
<1>1. Gateway!Init <=> GatewayFacts!Init
  BY DEF Gateway!Init, GatewayFacts!Init
<1>2. \A c, who : /\ Gateway!OpenConnection(c, who) <=> GatewayFacts!OpenConnection(c, who)
                  /\ Gateway!OpenConnectionFails(c, who)
                       <=> GatewayFacts!OpenConnectionFails(c, who)
  BY DEF Gateway!OpenConnection, GatewayFacts!OpenConnection, Gateway!OpenConnectionFails,
         GatewayFacts!OpenConnectionFails, Gateway!MayOpen, GatewayFacts!MayOpen,
         Gateway!Occupied, GatewayFacts!Occupied, Gateway!registry, GatewayFacts!registry
<1>3. \A c : Gateway!FailConnection(c) <=> GatewayFacts!FailConnection(c)
  BY DEF Gateway!FailConnection, GatewayFacts!FailConnection, Gateway!Unregister,
         GatewayFacts!Unregister, Gateway!Without, GatewayFacts!Without
<1>4. /\ \A c, p : Gateway!Write(c, p) <=> GatewayFacts!Write(c, p)
      /\ \A c : Gateway!WriteFails(c) <=> GatewayFacts!WriteFails(c)
      /\ \A m : Gateway!Ack(m) = GatewayFacts!Ack(m)
  BY <1>3 DEF Gateway!Write, GatewayFacts!Write, Gateway!WriteFails, GatewayFacts!WriteFails,
              Gateway!ConsumeOutbound, GatewayFacts!ConsumeOutbound, Gateway!Ack, GatewayFacts!Ack
<1>5. \A c, m : Gateway!Acceptable(c, m) <=> GatewayFacts!Acceptable(c, m)
  BY DEF Gateway!Acceptable, GatewayFacts!Acceptable, Gateway!ValidEnvelope,
         GatewayFacts!ValidEnvelope, Gateway!MatchesHelloIdentity,
         GatewayFacts!MatchesHelloIdentity, Gateway!MatchesPostHelloIdentity,
         GatewayFacts!MatchesPostHelloIdentity, Gateway!HOST_CONNECTION_GENERATION,
         GatewayFacts!HOST_CONNECTION_GENERATION
<1>6. \A c, m : Gateway!Receive(c, m) <=> GatewayFacts!Receive(c, m)
  <2>1. \A c, m : /\ Gateway!ReceiveRejected(c, m) <=> GatewayFacts!ReceiveRejected(c, m)
                  /\ Gateway!ReceiveAck(c, m) <=> GatewayFacts!ReceiveAck(c, m)
    BY <1>3, <1>5 DEF Gateway!ReceiveRejected, GatewayFacts!ReceiveRejected, Gateway!ReceiveAck,
       GatewayFacts!ReceiveAck, Gateway!Open, GatewayFacts!Open, Gateway!ConsumeInbound,
       GatewayFacts!ConsumeInbound, Gateway!registry, GatewayFacts!registry
  <2>2. \A c, m : Gateway!ReceiveHello(c, m) <=> GatewayFacts!ReceiveHello(c, m)
    BY <1>4, <1>5 DEF Gateway!ReceiveHello, GatewayFacts!ReceiveHello, Gateway!MayCommit,
       GatewayFacts!MayCommit, Gateway!CommitLive, GatewayFacts!CommitLive,
       Gateway!ConsumeInbound, GatewayFacts!ConsumeInbound
  <2>3. \A c, m : /\ Gateway!ReceiveFact(c, m) <=> GatewayFacts!ReceiveFact(c, m)
                  /\ Gateway!ReceiveFactSinkFails(c, m)
                       <=> GatewayFacts!ReceiveFactSinkFails(c, m)
                  /\ Gateway!ReceiptFails(c, m) <=> GatewayFacts!ReceiptFails(c, m)
    BY <1>3, <1>4, <1>5 DEF Gateway!ReceiveFact, GatewayFacts!ReceiveFact,
       Gateway!ReceiveFactSinkFails, GatewayFacts!ReceiveFactSinkFails, Gateway!ReceiptFails,
       GatewayFacts!ReceiptFails, Gateway!CarriesFact, GatewayFacts!CarriesFact,
       Gateway!ConsumeInbound, GatewayFacts!ConsumeInbound, Gateway!registry,
       GatewayFacts!registry
  <2> QED BY <2>1, <2>2, <2>3 DEF Gateway!Receive, GatewayFacts!Receive
<1>7. \A c, p : /\ Gateway!Send(c, p) <=> GatewayFacts!Send(c, p)
                /\ Gateway!SendFails(c, p) <=> GatewayFacts!SendFails(c, p)
  BY <1>4 DEF Gateway!Send, GatewayFacts!Send, Gateway!SendFails, GatewayFacts!SendFails,
     Gateway!MaySend, GatewayFacts!MaySend, Gateway!MatchesOutboundIdentity,
     GatewayFacts!MatchesOutboundIdentity, Gateway!NamesActor, GatewayFacts!NamesActor,
     Gateway!registry, GatewayFacts!registry
<1>8. \A c : Gateway!TransportFails(c) <=> GatewayFacts!TransportFails(c)
  BY <1>3 DEF Gateway!TransportFails, GatewayFacts!TransportFails, Gateway!Open, GatewayFacts!Open
<1>9. Gateway!ReceiptPrecedesDelivery <=> GatewayFacts!ReceiptPrecedesDelivery
  BY DEF Gateway!ReceiptPrecedesDelivery, GatewayFacts!ReceiptPrecedesDelivery,
         Gateway!Receipts, GatewayFacts!Receipts, Gateway!ReceiptFor, GatewayFacts!ReceiptFor,
         Gateway!Acknowledged, GatewayFacts!Acknowledged, Gateway!Accepted,
         GatewayFacts!Accepted, Gateway!Open, GatewayFacts!Open
<1> QED BY <1>1, <1>2, <1>6, <1>7, <1>8, <1>9

ReceiptsInv == \A c \in Clients : GatewayFacts!ReceiptInv(c)

LEMMA ReceiptsStep == ProtocolInv /\ ReceiptsInv /\ [Next]_vars => ReceiptsInv'
<1> SUFFICES ASSUME ProtocolInv, ReceiptsInv, [Next]_vars, NEW d \in Clients
             PROVE  GatewayFacts!ReceiptInv(d)'
  BY DEF ReceiptsInv
<1>1. GatewayFacts!LogsTyped(ToHost) /\ GatewayFacts!ReceiptInv(d)
  BY DEF ProtocolInv, GatewayTyped, GatewayFacts!LogsTyped, ReceiptsInv
<1>2. \A p \in Commands : p.kind # "ack"
  BY DEF Commands
<1>3. CASE UNCHANGED gatewayVars
  BY <1>1, <1>3, GatewayAssumptions, GatewayFacts!ReceiptFrame DEF gatewayVars
<1>4. CASE RuntimeSends
  <2>1. PICK c \in Clients : \E p \in Commands : Gateway!SendOnConnection(c, p)
    BY <1>4 DEF RuntimeSends
  <2>2. PICK p \in Commands : Gateway!SendOnConnection(c, p)
    BY <2>1
  <2>3. GatewayFacts!Send(c, p) \/ GatewayFacts!SendFails(c, p)
    BY <2>2, SameGateway DEF Gateway!SendOnConnection
  <2> QED BY <1>1, <1>2, <2>3, GatewayAssumptions, GatewayFacts!ReceiptSend
<1>5. ASSUME NEW c \in Clients, Upgrade(c) PROVE GatewayFacts!ReceiptInv(d)'
  <2>1. \/ GatewayFacts!OpenConnection(c, Context) \/ GatewayFacts!OpenConnectionFails(c, Context)
        \/ UNCHANGED gatewayVars
    BY <1>5, SameGateway DEF Upgrade
  <2> QED BY <1>1, <1>3, <2>1, GatewayAssumptions, GatewayFacts!ReceiptLifecycle
<1>6. ASSUME NEW c \in Clients, GatewayEndFails(c) PROVE GatewayFacts!ReceiptInv(d)'
  <2>1. GatewayFacts!TransportFails(c)
    BY <1>6, SameGateway DEF GatewayEndFails
  <2> QED BY <1>1, <2>1, GatewayAssumptions, GatewayFacts!ReceiptLifecycle
<1>7. ASSUME NEW c \in Clients, GatewayReceives(c) PROVE GatewayFacts!ReceiptInv(d)'
  <2>1. PICK m \in ToGateway(c) : GatewayFacts!Receive(c, m)
    BY <1>7, SameGateway DEF GatewayReceives
  <2> QED BY <1>1, <2>1, GatewayAssumptions, GatewayFacts!ReceiptReceive
<1>8. CASE ActorHostWorks \/ \E c \in Clients : \/ ClientConnects(c) \/ ClientOpens(c)
                                                \/ ActorHostReceives(c) \/ ActorHostEndFails(c)
  BY <1>3, <1>8 DEF ActorHostWorks, ClientConnects, ClientOpens, ActorHostReceives,
                    ActorHostEndFails
<1>9. CASE UNCHANGED vars
  BY <1>3, <1>9 DEF vars
<1> QED BY <1>4, <1>5, <1>6, <1>7, <1>8, <1>9 DEF Next

\* A fact that the sink of the runtime accepted was acknowledged to the host
\* before, in order and once, and the receipt of one it did not accept is the
\* last thing the connection says.
THEOREM ReceiptsPrecedeDelivery == Spec => []ReceiptPrecedesDelivery
<1>1. Init => ReceiptsInv
  BY SameGateway, GatewayAssumptions, GatewayFacts!ReceiptStart DEF Init, ReceiptsInv
<1>2. ProtocolInv /\ ReceiptsInv => ReceiptPrecedesDelivery
  <2>1. ProtocolInv => GatewayFacts!LogsTyped(ToHost)
    BY DEF ProtocolInv, GatewayTyped, GatewayFacts!LogsTyped
  <2> QED BY <2>1, SameGateway, GatewayAssumptions, GatewayFacts!ReceiptInvSuffices
          DEF ReceiptsInv, ReceiptPrecedesDelivery
<1> QED BY <1>1, <1>2, ReceiptsStep, ProtocolInvariant, PTL DEF Spec

------------------------------------------------------------------------------
(* The commands that the host received.                                       *)

LEMMA AccountsStep == ProtocolInv /\ HostFacts!AccountInv /\ [Next]_vars => HostFacts!AccountInv'
<1> SUFFICES ASSUME ProtocolInv, HostFacts!AccountInv, [Next]_vars PROVE HostFacts!AccountInv'
  OBVIOUS
<1>1. HostFacts!HostInv(Payloads) /\ GatewayTyped
  BY DEF ProtocolInv
<1>2. CASE UNCHANGED hostVars
  <2>1. UNCHANGED HostFacts!vars
    BY <1>2 DEF hostVars, HostFacts!vars, HostFacts!supervisor
  <2> QED BY <1>1, <2>1, HostAssumptions, HostFacts!RestAccounts
<1>3. ASSUME NEW c \in Clients, ActorHostReceives(c) PROVE HostFacts!AccountInv'
  <2>1. PICK m \in ToActorHost(c) : HostFacts!Receive(c, m)
    BY <1>3, SameHost DEF ActorHostReceives
  <2>2. m \in HostFacts!ServerMessagesOf(Payloads)
    BY <1>1, ToActorHostTyped
  <2> QED BY <1>1, <2>1, <2>2, PayloadsReadable, HostAssumptions, HostFacts!ReceiveAccounts
<1>4. ASSUME NEW c \in Clients, ClientConnects(c) \/ ClientOpens(c) \/ ActorHostEndFails(c)
      PROVE  HostFacts!AccountInv'
  <2>1. \/ HostFacts!Connect(c) \/ HostFacts!ConnectFails(c) \/ HostFacts!Opens(c)
        \/ HostFacts!SocketFails(c) \/ HostFacts!Close(c)
    BY <1>4, SameHost DEF ClientConnects, ClientOpens, ActorHostEndFails
  <2> QED BY <1>1, <2>1, HostAssumptions, HostFacts!ClientAccounts
<1>5. CASE ActorHostWorks
  <2>1. DOMAIN execs = 1..Len(execs)
    BY <1>1 DEF HostFacts!HostInv, HostFacts!SupervisorOK, HostFacts!Supervisor!TypeOK
  <2>2. \/ HostFacts!InitializationFails \/ HostFacts!InitializationSucceeds
        \/ \E e \in 1..Len(execs) : HostFacts!BackendStep(e)
        \/ HostFacts!React
    BY <1>5, <2>1, SameHost DEF ActorHostWorks
  <2> QED BY <1>1, <2>2, HostAssumptions, HostFacts!WorkAccounts
<1>6. CASE RuntimeSends \/ \E c \in Clients : \/ Upgrade(c) \/ GatewayReceives(c)
                                             \/ GatewayEndFails(c)
  BY <1>2, <1>6 DEF RuntimeSends, Upgrade, GatewayReceives, GatewayEndFails
<1>7. CASE UNCHANGED vars
  BY <1>2, <1>7 DEF vars
<1> QED BY <1>3, <1>4, <1>5, <1>6, <1>7 DEF Next

\* No command that the host acknowledged on a connection that lives is left
\* without an answer or somebody who owes it one.
THEOREM NoneForgotten == Spec => []NoCommandForgotten
<1>1. Init => HostFacts!AccountInv
  BY SameHost, HostFacts!AccountInit, HostAssumptions DEF Init
<1>2. ActorHostProcess!NoCommandForgotten <=> HostFacts!NoCommandForgotten
  BY DEF ActorHostProcess!NoCommandForgotten, HostFacts!NoCommandForgotten,
         ActorHostProcess!NextInbound, HostFacts!NextInbound,
         ActorHostProcess!AnswersTo, HostFacts!AnswersTo,
         ActorHostProcess!IsTerminal, HostFacts!IsTerminal,
         ActorHostProcess!Sends, HostFacts!Sends, ActorHostProcess!Sending, HostFacts!Sending
<1>3. ProtocolInv /\ HostFacts!AccountInv => NoCommandForgotten
  BY <1>2, HostFacts!NothingForgotten, HostAssumptions DEF ProtocolInv, NoCommandForgotten
<1> QED BY <1>1, <1>3, AccountsStep, ProtocolInvariant, PTL DEF Spec

==============================================================================
