-------------------------- MODULE HostGatewayProofs --------------------------
(* Proofs about HostGateway, for every set of contexts, connections and       *)
(* every bound.                                                               *)
EXTENDS HostGateway, TLAPS

\* What any step does to the registry, the state fields and the transports:
\* it opens a connection (successfully or not), fails an open one, commits a
\* pending one, or leaves all of them alone.
Opens   == \E c \in Conns, who \in Contexts : OpenConnection(c, who)
OpensAndFails == \E c \in Conns, who \in Contexts : OpenConnectionFails(c, who)
Fails   == \E c \in Conns : Open(c) /\ FailConnection(c)
Commits == \E c \in Conns : /\ state[c] = "pending" /\ MayCommit(c) /\ CommitLive(c)
                            /\ UNCHANGED <<identity, transport>>
Keeps   == UNCHANGED <<identity, state, transport, registry>>

LEMMA StepShapes ==
    ASSUME TypeOK, [Next]_vars
    PROVE  Opens \/ OpensAndFails \/ Fails \/ Commits \/ Keeps
<1>1. ASSUME NEW c \in Conns, NEW m \in Arriving(c), Receive(c, m)
      PROVE  Fails \/ Commits \/ Keeps
  <2>1. CASE ReceiveRejected(c, m)
    BY <2>1 DEF ReceiveRejected, Fails
  <2>2. CASE ReceiveHello(c, m)
    BY <2>2 DEF ReceiveHello, Commits
  <2>3. CASE ReceiveAck(c, m)
    BY <2>3 DEF ReceiveAck, Keeps
  <2>4. CASE ReceiveFact(c, m)
    BY <2>4 DEF ReceiveFact, Keeps
  <2>5. CASE ReceiveFactSinkFails(c, m)
    BY <2>5 DEF ReceiveFactSinkFails, CarriesFact, Open, Fails
  <2>6. CASE ReceiptFails(c, m)
    BY <2>6 DEF ReceiptFails, CarriesFact, WriteFails, Open, Fails
  <2>7. QED
    BY <1>1, <2>1, <2>2, <2>3, <2>4, <2>5, <2>6 DEF Receive
<1>2. ASSUME NEW c \in Conns, NEW p \in Commands, Send(c, p)
      PROVE  Keeps
  BY <1>2 DEF Send, Keeps
<1>3. ASSUME NEW c \in Conns, NEW p \in Commands, SendFails(c, p)
      PROVE  Fails
  BY <1>3 DEF SendFails, MaySend, WriteFails, Open, Fails
<1>4. ASSUME NEW a \in Actors, NEW p \in Commands, SendCommand(a, p)
      PROVE  Fails \/ Keeps
  <2>1. liveByActor[a] \in Conns
    BY <1>4 DEF SendCommand, TypeOK, RegistryTypeOK
  <2>2. QED
    BY <1>2, <1>3, <1>4, <2>1 DEF SendCommand
<1>5. ASSUME NEW c \in Conns, TransportFails(c)
      PROVE  Fails
  BY <1>5 DEF TransportFails, Fails
<1>6. CASE UNCHANGED vars
  BY <1>6 DEF vars, Keeps
<1>7. QED
  BY <1>1, <1>2, <1>3, <1>4, <1>5, <1>6 DEF Next, SendOnConnection, Opens, OpensAndFails

------------------------------------------------------------------------------
(* Types. *)

\* A context names an actor and a host that the maps have as keys.
LEMMA ContextKeys ==
    ASSUME NEW who \in Contexts
    PROVE  who.actor \in Actors /\ who.host \in Hosts /\ who.project \in Projects
BY ContextsAssumption

\* Failing an open connection keeps the types of what it changes.
LEMMA FailKeepsTypes ==
    ASSUME TypeOK, NEW c \in Conns, Open(c), FailConnection(c),
           nextInbound' \in [Conns -> Nat], nextOutbound' \in [Conns -> Nat],
           toHost' \in [Conns -> Seq(Outbound)]
    PROVE  TypeOK'
<1>1. RegistryTypeOK'
  BY DEF FailConnection, Unregister, Without, TypeOK, RegistryTypeOK
<1>2. LifecycleTypeOK'
  BY DEF Open, FailConnection, TypeOK, LifecycleTypeOK
<1>3. LogTypeOK'
  BY DEF FailConnection, TypeOK, LogTypeOK
<1>4. QED
  BY <1>1, <1>2, <1>3 DEF TypeOK

\* So does consuming a sequence number and writing a message.
LEMMA WriteKeepsTypes ==
    ASSUME TypeOK, NEW c \in Conns, NEW payload,
           payload \in Commands \union [kind: {"ack"}, acknowledged: Nat],
           Write(c, payload)
    PROVE  /\ nextOutbound' \in [Conns -> Nat]
           /\ toHost' \in [Conns -> Seq(Outbound)]
<1>1. nextOutbound[c] \in Nat /\ toHost[c] \in Seq(Outbound)
  BY DEF TypeOK, LogTypeOK
<1>2. [seq |-> nextOutbound[c], payload |-> payload] \in Outbound
  BY <1>1 DEF Outbound
<1>3. Append(toHost[c], [seq |-> nextOutbound[c], payload |-> payload]) \in Seq(Outbound)
  BY <1>1, <1>2
<1>4. QED
  BY <1>3 DEF Write, ConsumeOutbound, TypeOK, LogTypeOK

LEMMA WriteFailsKeepsTypes ==
    ASSUME TypeOK, NEW c \in Conns, Open(c), WriteFails(c)
    PROVE  TypeOK'
<1>1. nextOutbound' \in [Conns -> Nat]
  BY DEF WriteFails, ConsumeOutbound, TypeOK, LogTypeOK
<1>2. QED
  BY <1>1, FailKeepsTypes DEF WriteFails, TypeOK, LogTypeOK

LEMMA ArrivingTypes ==
    ASSUME NEW c \in Conns, NEW m \in Arriving(c), m.kind = "envelope"
    PROVE  /\ m.seq \in Nat
           /\ m.payload \in HostPayloads
           /\ Ack(m) \in [kind: {"ack"}, acknowledged: Nat]
BY MaxSeqAssumption DEF Arriving, Ids, Ack

LEMMA SendKeepsTypes ==
    ASSUME TypeOK, NEW c \in Conns, NEW p \in Commands, Send(c, p) \/ SendFails(c, p)
    PROVE  TypeOK'
<1>1. CASE Send(c, p)
  <2>1. nextOutbound' \in [Conns -> Nat] /\ toHost' \in [Conns -> Seq(Outbound)]
    BY <1>1, WriteKeepsTypes DEF Send
  <2>2. QED
    <3>1. RegistryTypeOK' /\ LifecycleTypeOK'
      BY <1>1 DEF Send, registry, TypeOK, RegistryTypeOK, LifecycleTypeOK
    <3>2. nextOutbound[c] \in Nat
      BY DEF TypeOK, LogTypeOK
    <3>3. LogTypeOK'
      BY <1>1, <2>1, <3>2 DEF Send, TypeOK, LogTypeOK
    <3>4. QED
      BY <3>1, <3>3 DEF TypeOK
<1>2. CASE SendFails(c, p)
  BY <1>2, WriteFailsKeepsTypes DEF SendFails, MaySend, Open
<1>3. QED
  BY <1>1, <1>2

LEMMA ReceiveKeepsTypes ==
    ASSUME TypeOK, NEW c \in Conns, NEW m \in Arriving(c), Receive(c, m)
    PROVE  TypeOK'
<1>1. CASE ReceiveRejected(c, m)
  BY <1>1, FailKeepsTypes DEF ReceiveRejected, TypeOK, LogTypeOK
<1>2. CASE ReceiveHello(c, m)
  <2>1. m.kind = "envelope" /\ identity[c] \in Contexts
    BY <1>2 DEF ReceiveHello, Acceptable, ValidEnvelope, TypeOK, LifecycleTypeOK
  <2>2. nextOutbound' \in [Conns -> Nat] /\ toHost' \in [Conns -> Seq(Outbound)]
    BY <1>2, <2>1, ArrivingTypes, WriteKeepsTypes DEF ReceiveHello
  <2>3. QED
    <3>1. RegistryTypeOK'
      BY <1>2, <2>1, ContextKeys DEF ReceiveHello, CommitLive, TypeOK, RegistryTypeOK
    <3>2. LifecycleTypeOK'
      BY <1>2, <2>1 DEF ReceiveHello, CommitLive, TypeOK, LifecycleTypeOK
    <3>3. nextInbound' \in [Conns -> Nat]
      BY <1>2 DEF ReceiveHello, ConsumeInbound, TypeOK, LogTypeOK
    <3>4. UNCHANGED <<pendingCommands, facts, reconciled>>
      BY <1>2 DEF ReceiveHello
    <3>5. LogTypeOK'
      BY <2>2, <3>3, <3>4 DEF TypeOK, LogTypeOK
    <3>6. QED
      BY <3>1, <3>2, <3>5 DEF TypeOK
<1>3. CASE ReceiveAck(c, m)
  BY <1>3 DEF ReceiveAck, ConsumeInbound, registry, TypeOK, RegistryTypeOK, LifecycleTypeOK, LogTypeOK
<1>4. CASE CarriesFact(c, m) /\ Write(c, Ack(m)) /\ ConsumeInbound(c)
           /\ (ReceiveFact(c, m) \/ ReceiveFactSinkFails(c, m))
  <2>1. m.kind = "envelope"
    BY <1>4 DEF CarriesFact, Acceptable, ValidEnvelope
  <2>2. nextOutbound' \in [Conns -> Nat] /\ toHost' \in [Conns -> Seq(Outbound)]
    BY <1>4, <2>1, ArrivingTypes, WriteKeepsTypes
  <2>3. nextInbound' \in [Conns -> Nat]
    BY <1>4 DEF ConsumeInbound, TypeOK, LogTypeOK
  <2>4. CASE ReceiveFact(c, m)
    <3>1. Append(facts[c], m.seq) \in Seq(Nat)
      BY <2>1, ArrivingTypes DEF TypeOK, LogTypeOK
    <3>2. QED
      BY <2>2, <2>3, <2>4, <3>1 DEF ReceiveFact, registry,
          TypeOK, RegistryTypeOK, LifecycleTypeOK, LogTypeOK
  <2>5. CASE ReceiveFactSinkFails(c, m)
    BY <2>2, <2>3, <2>5, FailKeepsTypes DEF ReceiveFactSinkFails, CarriesFact, Open
  <2>6. QED
    BY <1>4, <2>4, <2>5
<1>5. CASE ReceiptFails(c, m)
  BY <1>5, WriteFailsKeepsTypes DEF ReceiptFails, CarriesFact, Open
<1>6. QED
  BY <1>1, <1>2, <1>3, <1>4, <1>5 DEF Receive, ReceiveFact, ReceiveFactSinkFails

\* The registry, the counters and the logs of the gateway keep their types
\* through every call of its API.
THEOREM TypeCorrect == Spec => []TypeOK
<1>1. Init => TypeOK
  BY DEF Init, TypeOK, RegistryTypeOK, LifecycleTypeOK, LogTypeOK
<1>2. ASSUME TypeOK, [Next]_vars
      PROVE  TypeOK'
  <2>1. ASSUME NEW c \in Conns, NEW who \in Contexts,
               OpenConnection(c, who)
        PROVE  TypeOK'
    <3>1. RegistryTypeOK'
      BY <1>2, <2>1, ContextKeys DEF OpenConnection, TypeOK, RegistryTypeOK
    <3>2. LifecycleTypeOK' /\ LogTypeOK'
      BY <1>2, <2>1 DEF OpenConnection, TypeOK, LifecycleTypeOK, LogTypeOK
    <3>3. QED
      BY <3>1, <3>2 DEF TypeOK
  <2>1b. ASSUME NEW c \in Conns, NEW who \in Contexts,
               OpenConnectionFails(c, who)
        PROVE  TypeOK'
    BY <1>2, <2>1b DEF OpenConnectionFails, registry, TypeOK, RegistryTypeOK, LifecycleTypeOK, LogTypeOK
  <2>2. ASSUME NEW a \in Actors, NEW p \in Commands, SendCommand(a, p)
        PROVE  TypeOK'
    <3>1. liveByActor[a] \in Conns
      BY <1>2, <2>2 DEF SendCommand, TypeOK, RegistryTypeOK
    <3>2. QED
      BY <1>2, <2>2, <3>1, SendKeepsTypes DEF SendCommand
  <2>3. ASSUME NEW c \in Conns, TransportFails(c)
        PROVE  TypeOK'
    BY <1>2, <2>3, FailKeepsTypes DEF TransportFails, TypeOK, LogTypeOK
  <2>4. CASE UNCHANGED vars
    BY <1>2, <2>4 DEF vars, registry, TypeOK, RegistryTypeOK, LifecycleTypeOK, LogTypeOK
  <2>5. QED
    BY <1>2, <2>1, <2>2, <2>3, <2>4, <2>1b, SendKeepsTypes, ReceiveKeepsTypes
    DEF Next, SendOnConnection
<1>3. QED
  BY <1>1, <1>2, PTL DEF Spec

------------------------------------------------------------------------------
(* The registry. *)

\* The conjuncts of RegistryConsistent about one actor and one host.
Registered(c) ==
    /\ state[c] = "pending" => /\ pendingByActor[identity[c].actor] = c
                               /\ pendingByHost[identity[c].host] = c
    /\ state[c] = "live" => /\ liveByActor[identity[c].actor] = c
                            /\ liveByHost[identity[c].host] = c
ActorEntry(a) ==
    /\ pendingByActor[a] # None => /\ state[pendingByActor[a]] = "pending"
                                   /\ identity[pendingByActor[a]].actor = a
    /\ liveByActor[a] # None => /\ state[liveByActor[a]] = "live"
                                /\ identity[liveByActor[a]].actor = a
HostEntry(h) ==
    /\ pendingByHost[h] # None => /\ state[pendingByHost[h]] = "pending"
                                  /\ identity[pendingByHost[h]].host = h
    /\ liveByHost[h] # None => /\ state[liveByHost[h]] = "live"
                               /\ identity[liveByHost[h]].host = h

LEMMA RegistryParts ==
    RegistryConsistent <=> /\ \A c \in Conns : Registered(c)
                           /\ \A a \in Actors : ActorEntry(a)
                           /\ \A h \in Hosts : HostEntry(h)
BY DEF RegistryConsistent, Registered, ActorEntry, HostEntry

\* Two open connections with a common actor or host would be the same entry of
\* a pending map, the same entry of a live map, or one of each; openConnection
\* admits none of them.
LEMMA RegistryStep ==
    ASSUME TypeOK, RegistryConsistent, OneConnectionPerIdentity, [Next]_vars
    PROVE  RegistryConsistent' /\ OneConnectionPerIdentity'
<1> USE DEF TypeOK, RegistryTypeOK, LifecycleTypeOK
<1>0. /\ \A c \in Conns : Registered(c)
      /\ \A a \in Actors : ActorEntry(a)
      /\ \A h \in Hosts : HostEntry(h)
  BY RegistryParts
<1> SUFFICES /\ \A c \in Conns : Registered(c)'
             /\ \A a \in Actors : ActorEntry(a)'
             /\ \A h \in Hosts : HostEntry(h)'
             /\ OneConnectionPerIdentity'
  BY DEF RegistryConsistent, Registered, ActorEntry, HostEntry
<1>1. ASSUME NEW c \in Conns, NEW who \in Contexts, OpenConnection(c, who)
      PROVE  /\ \A d \in Conns : Registered(d)'
             /\ \A a \in Actors : ActorEntry(a)'
             /\ \A h \in Hosts : HostEntry(h)'
             /\ OneConnectionPerIdentity'
  <2> USE <1>1, ContextKeys, NoneAssumption DEF OpenConnection, MayOpen, Occupied
  <2>1. ASSUME NEW d \in Conns PROVE Registered(d)'
    BY <1>0 DEF Registered
  <2>2. ASSUME NEW a \in Actors PROVE ActorEntry(a)'
    BY <1>0 DEF ActorEntry
  <2>3. ASSUME NEW h \in Hosts PROVE HostEntry(h)'
    BY <1>0 DEF HostEntry
  <2>4. ASSUME NEW d \in Conns, d # c, Open(d)
        PROVE  identity[d].actor # who.actor /\ identity[d].host # who.host
    BY <2>4, <1>0 DEF Registered, Open
  <2>5. OneConnectionPerIdentity'
    BY <2>4 DEF OneConnectionPerIdentity, Open
  <2>6. QED
    BY <2>1, <2>2, <2>3, <2>5
<1>2. ASSUME NEW c \in Conns, NEW who \in Contexts, OpenConnectionFails(c, who)
      PROVE  /\ \A d \in Conns : Registered(d)'
             /\ \A a \in Actors : ActorEntry(a)'
             /\ \A h \in Hosts : HostEntry(h)'
             /\ OneConnectionPerIdentity'
  <2> USE <1>2 DEF OpenConnectionFails, MayOpen, registry
  <2>1. ASSUME NEW d \in Conns PROVE Registered(d)'
    BY <1>0 DEF Registered
  <2>2. ASSUME NEW a \in Actors PROVE ActorEntry(a)'
    BY <1>0 DEF ActorEntry
  <2>3. ASSUME NEW h \in Hosts PROVE HostEntry(h)'
    BY <1>0 DEF HostEntry
  <2>4. OneConnectionPerIdentity'
    BY DEF OneConnectionPerIdentity, Open
  <2>5. QED
    BY <2>1, <2>2, <2>3, <2>4
<1>3. ASSUME NEW c \in Conns, Open(c), FailConnection(c)
      PROVE  /\ \A d \in Conns : Registered(d)'
             /\ \A a \in Actors : ActorEntry(a)'
             /\ \A h \in Hosts : HostEntry(h)'
             /\ OneConnectionPerIdentity'
  <2> USE <1>3, ContextKeys, NoneAssumption DEF FailConnection, Unregister, Without, Open
  <2>1. ASSUME NEW d \in Conns PROVE Registered(d)'
    BY <1>0 DEF Registered
  <2>2. ASSUME NEW a \in Actors PROVE ActorEntry(a)'
    BY <1>0 DEF ActorEntry
  <2>3. ASSUME NEW h \in Hosts PROVE HostEntry(h)'
    BY <1>0 DEF HostEntry
  <2>4. OneConnectionPerIdentity'
    BY DEF OneConnectionPerIdentity
  <2>5. QED
    BY <2>1, <2>2, <2>3, <2>4
<1>4. ASSUME NEW c \in Conns, state[c] = "pending", MayCommit(c), CommitLive(c),
             UNCHANGED <<identity, transport>>
      PROVE  /\ \A d \in Conns : Registered(d)'
             /\ \A a \in Actors : ActorEntry(a)'
             /\ \A h \in Hosts : HostEntry(h)'
             /\ OneConnectionPerIdentity'
  <2> USE <1>4, ContextKeys, NoneAssumption DEF MayCommit, CommitLive
  <2>1. ASSUME NEW d \in Conns PROVE Registered(d)'
    BY <1>0 DEF Registered
  <2>2. ASSUME NEW a \in Actors PROVE ActorEntry(a)'
    BY <1>0 DEF ActorEntry
  <2>3. ASSUME NEW h \in Hosts PROVE HostEntry(h)'
    BY <1>0 DEF HostEntry
  <2>4. OneConnectionPerIdentity'
    BY DEF OneConnectionPerIdentity, Open
  <2>5. QED
    BY <2>1, <2>2, <2>3, <2>4
<1>5. CASE Keeps
  BY <1>5, <1>0 DEF Keeps, registry, Registered, ActorEntry, HostEntry,
                    OneConnectionPerIdentity, Open
<1>6. QED
  BY <1>1, <1>2, <1>3, <1>4, <1>5, StepShapes
  DEF Opens, OpensAndFails, Fails, Commits

\* The registry maps and the connection states agree in every reachable state,
\* and no two open connections share an actor or a host instance.
THEOREM RegistryCorrect == Spec => [](RegistryConsistent /\ OneConnectionPerIdentity)
<1>1. Init => RegistryConsistent /\ OneConnectionPerIdentity
  BY DEF Init, RegistryConsistent, OneConnectionPerIdentity, Open
<1>2. TypeOK /\ RegistryConsistent /\ OneConnectionPerIdentity /\ [Next]_vars
        => RegistryConsistent' /\ OneConnectionPerIdentity'
  BY RegistryStep
<1>3. QED
  BY <1>1, <1>2, TypeCorrect, PTL DEF Spec

\* The failing branch of commitLive is dead code: a hello that reached the wire
\* as acknowledged is always registered.
THEOREM CommitNeverFails == Spec => []PendingMayCommit
<1>1. ASSUME TypeOK, RegistryConsistent, OneConnectionPerIdentity
      PROVE  PendingMayCommit
  <2>1. SUFFICES ASSUME NEW c \in Conns, state[c] = "pending"
                 PROVE  MayCommit(c)
    BY DEF PendingMayCommit
  <2>2. identity[c].actor \in Actors /\ identity[c].host \in Hosts
    BY <1>1, <2>1, ContextKeys DEF TypeOK, LifecycleTypeOK
  <2>3. ASSUME liveByActor[identity[c].actor] # None
        PROVE  FALSE
    <3>1. PICK d \in Conns : d = liveByActor[identity[c].actor]
      BY <1>1, <2>2, <2>3 DEF TypeOK, RegistryTypeOK
    <3>2. state[d] = "live" /\ identity[d].actor = identity[c].actor
      BY <1>1, <2>2, <2>3, <3>1 DEF RegistryConsistent
    <3>3. QED
      BY <1>1, <2>1, <3>2 DEF OneConnectionPerIdentity, Open
  <2>4. ASSUME liveByHost[identity[c].host] # None
        PROVE  FALSE
    <3>1. PICK d \in Conns : d = liveByHost[identity[c].host]
      BY <1>1, <2>2, <2>4 DEF TypeOK, RegistryTypeOK
    <3>2. state[d] = "live" /\ identity[d].host = identity[c].host
      BY <1>1, <2>2, <2>4, <3>1 DEF RegistryConsistent
    <3>3. QED
      BY <1>1, <2>1, <3>2 DEF OneConnectionPerIdentity, Open
  <2>5. QED
    BY <1>1, <2>1, <2>3, <2>4 DEF RegistryConsistent, MayCommit
<1>2. QED
  BY <1>1, TypeCorrect, RegistryCorrect, PTL

------------------------------------------------------------------------------
(* The wire. *)

\* What any step does to what one connection d puts on the wire.
Silent(d) == /\ UNCHANGED <<toHost[d], nextOutbound[d]>>
             /\ state'[d] = "failed" \/ state[d] # "failed"
Writes(d) == \E payload : /\ state[d] # "failed"
                          /\ toHost'[d] = Append(toHost[d],
                                [seq |-> nextOutbound[d], payload |-> payload])
                          /\ nextOutbound'[d] = nextOutbound[d] + 1
Breaks(d) == UNCHANGED toHost[d] /\ state'[d] = "failed"

LEMMA WriteOf ==
    ASSUME TypeOK, NEW c \in Conns, NEW payload, Write(c, payload), state[c] # "failed"
    PROVE  /\ Writes(c)
           /\ \A d \in Conns \ {c} : UNCHANGED <<toHost[d], nextOutbound[d]>>
BY DEF Write, ConsumeOutbound, Writes, TypeOK, LogTypeOK

LEMMA WriteFailsOf ==
    ASSUME TypeOK, NEW c \in Conns, WriteFails(c)
    PROVE  /\ Breaks(c)
           /\ \A d \in Conns \ {c} : UNCHANGED <<toHost[d], nextOutbound[d], state[d]>>
BY DEF WriteFails, ConsumeOutbound, FailConnection, Breaks, TypeOK, LogTypeOK, LifecycleTypeOK

LEMMA SendShape ==
    ASSUME TypeOK, NEW c \in Conns, NEW p \in Commands, Send(c, p) \/ SendFails(c, p),
           NEW d \in Conns
    PROVE  Silent(d) \/ Writes(d) \/ Breaks(d)
<1>1. CASE Send(c, p)
  <2>1. state[c] # "failed" /\ UNCHANGED state
    BY <1>1 DEF Send, MaySend
  <2>2. CASE d = c
    BY <1>1, <2>1, <2>2, WriteOf DEF Send
  <2>3. CASE d # c
    BY <1>1, <2>1, <2>3, WriteOf DEF Send, Silent
  <2>4. QED
    BY <2>2, <2>3
<1>2. CASE SendFails(c, p)
  <2>1. CASE d = c
    BY <1>2, <2>1, WriteFailsOf DEF SendFails
  <2>2. CASE d # c
    BY <1>2, <2>2, WriteFailsOf DEF SendFails, Silent
  <2>3. QED
    BY <2>1, <2>2
<1>3. QED
  BY <1>1, <1>2

LEMMA ReceiveShape ==
    ASSUME TypeOK, NEW c \in Conns, NEW m \in Arriving(c), Receive(c, m), NEW d \in Conns
    PROVE  Silent(d) \/ Writes(d) \/ Breaks(d)
<1> USE DEF TypeOK, LifecycleTypeOK
<1>1. CASE ReceiveRejected(c, m)
  BY <1>1 DEF ReceiveRejected, FailConnection, Silent, Breaks
<1>2. CASE ReceiveHello(c, m)
  <2>1. /\ state[c] # "failed" /\ Write(c, Ack(m))
        /\ state' = [state EXCEPT ![c] = "live"]
    BY <1>2 DEF ReceiveHello, CommitLive
  <2>2. CASE d = c
    BY <2>1, <2>2, WriteOf
  <2>3. CASE d # c
    BY <2>1, <2>3, WriteOf DEF Silent
  <2>4. QED
    BY <2>2, <2>3
<1>3. CASE ReceiveAck(c, m)
  BY <1>3 DEF ReceiveAck, Silent
<1>4. CASE ReceiveFact(c, m) \/ ReceiveFactSinkFails(c, m)
  <2>1. state[c] # "failed" /\ Write(c, Ack(m))
    BY <1>4 DEF ReceiveFact, ReceiveFactSinkFails, CarriesFact
  <2>2. CASE d = c
    BY <2>1, <2>2, WriteOf
  <2>3. CASE d # c
    <3>1. UNCHANGED state[d]
      BY <1>4, <2>3 DEF ReceiveFact, ReceiveFactSinkFails, FailConnection
    <3>2. QED
      BY <2>1, <2>3, <3>1, WriteOf DEF Silent
  <2>4. QED
    BY <2>2, <2>3
<1>5. CASE ReceiptFails(c, m)
  <2>1. WriteFails(c)
    BY <1>5 DEF ReceiptFails
  <2>2. CASE d = c
    BY <2>1, <2>2, WriteFailsOf
  <2>3. CASE d # c
    BY <2>1, <2>3, WriteFailsOf DEF Silent
  <2>4. QED
    BY <2>2, <2>3
<1>6. QED
  BY <1>1, <1>2, <1>3, <1>4, <1>5 DEF Receive

LEMMA WireShapes ==
    ASSUME TypeOK, [Next]_vars, NEW d \in Conns
    PROVE  Silent(d) \/ Writes(d) \/ Breaks(d)
<1> USE DEF TypeOK, LifecycleTypeOK
<1>1. ASSUME NEW c \in Conns, NEW who \in Contexts,
             OpenConnection(c, who) \/ OpenConnectionFails(c, who)
      PROVE  Silent(d)
  BY <1>1 DEF OpenConnection, OpenConnectionFails, MayOpen, Silent
<1>2. ASSUME NEW a \in Actors, NEW p \in Commands, SendCommand(a, p)
      PROVE  Silent(d) \/ Writes(d) \/ Breaks(d)
  <2>1. liveByActor[a] \in Conns
    BY <1>2 DEF SendCommand, RegistryTypeOK
  <2>2. QED
    BY <1>2, <2>1, SendShape DEF SendCommand
<1>3. ASSUME NEW c \in Conns, TransportFails(c)
      PROVE  Silent(d) \/ Breaks(d)
  BY <1>3 DEF TransportFails, FailConnection, Silent, Breaks
<1>4. CASE UNCHANGED vars
  BY <1>4 DEF vars, Silent
<1>5. QED
  BY <1>1, <1>2, <1>3, <1>4, SendShape, ReceiveShape DEF Next, SendOnConnection

\* The messages a host sees on a connection are numbered without a gap.
THEOREM WireCorrect == Spec => []WireIsContiguous
<1>1. Init => WireIsContiguous
  BY DEF Init, WireIsContiguous
<1>2. ASSUME TypeOK, WireIsContiguous, [Next]_vars
      PROVE  WireIsContiguous'
  <2>1. SUFFICES ASSUME NEW d \in Conns
                 PROVE  /\ \A i \in 1..Len(toHost'[d]) : toHost'[d][i].seq = i - 1
                        /\ state'[d] # "failed" => nextOutbound'[d] = Len(toHost'[d])
    BY DEF WireIsContiguous
  <2>2. /\ toHost[d] \in Seq(Outbound) /\ nextOutbound[d] \in Nat
        /\ \A i \in 1..Len(toHost[d]) : toHost[d][i].seq = i - 1
        /\ state[d] # "failed" => nextOutbound[d] = Len(toHost[d])
    BY <1>2 DEF TypeOK, LogTypeOK, WireIsContiguous
  <2>3. CASE Silent(d)
    BY <2>2, <2>3 DEF Silent
  <2>4. CASE Writes(d)
    BY <2>2, <2>4 DEF Writes
  <2>5. CASE Breaks(d)
    BY <2>2, <2>5 DEF Breaks
  <2>6. QED
    BY <1>2, <2>3, <2>4, <2>5, WireShapes
<1>3. QED
  BY <1>1, <1>2, TypeCorrect, PTL DEF Spec

------------------------------------------------------------------------------
(* Commands. *)

\* A message appended to the log of d adds its number to the commands sent on
\* d, unless it is an acknowledgement.
LEMMA SentAppend ==
    ASSUME TypeOK, NEW d \in Conns, NEW payload, NEW n \in Nat,
           toHost'[d] = Append(toHost[d], [seq |-> n, payload |-> payload])
    PROVE  /\ payload.kind = "ack" => CommandsSent(d)' = CommandsSent(d)
           /\ payload.kind # "ack" => CommandsSent(d)' = CommandsSent(d) \union {n}
<1> DEFINE log == toHost[d]
           e == [seq |-> n, payload |-> payload]
<1>1. log \in Seq(Outbound)
  BY DEF TypeOK, LogTypeOK
<1>2. /\ Len(toHost'[d]) = Len(log) + 1
      /\ \A i \in 1..Len(log) : toHost'[d][i] = log[i]
      /\ toHost'[d][Len(log) + 1] = e
  BY <1>1
<1>3. 1..(Len(log) + 1) = 1..Len(log) \union {Len(log) + 1}
  BY <1>1
<1>4. e.payload = payload /\ e.seq = n
  OBVIOUS
<1>5. QED
  BY <1>1, <1>2, <1>3, <1>4 DEF CommandsSent

\* The number a live connection uses next is not yet the number of a command.
LEMMA NextIsFresh ==
    ASSUME TypeOK, WireIsContiguous, NEW d \in Conns, state[d] # "failed"
    PROVE  nextOutbound[d] \notin CommandsSent(d)
<1>1. toHost[d] \in Seq(Outbound)
  BY DEF TypeOK, LogTypeOK
<1>2. QED
  BY <1>1 DEF CommandsSent, WireIsContiguous

\* CommandAccounting, with what holds before the connection is live.
CommandInv(d) ==
    /\ state[d] \in {"unopened", "pending"} =>
          toHost[d] = <<>> /\ pendingCommands[d] = {} /\ reconciled[d] = {}
    /\ state[d] = "live" => /\ CommandsSent(d) = pendingCommands[d] \union reconciled[d]
                            /\ pendingCommands[d] \intersect reconciled[d] = {}
    /\ state[d] = "failed" => pendingCommands[d] = {}

\* A step that fails d, or leaves what CommandInv reads of d alone.
LEMMA CommandFrame ==
    ASSUME TypeOK, NEW d \in Conns, CommandInv(d),
           \/ state'[d] = "failed" /\ pendingCommands'[d] = {}
           \/ UNCHANGED <<state[d], toHost[d], pendingCommands[d], reconciled[d]>>
    PROVE  CommandInv(d)'
BY DEF CommandInv, CommandsSent

LEMMA FailFrame ==
    ASSUME TypeOK, NEW c \in Conns, NEW d \in Conns, FailConnection(c),
           d # c => UNCHANGED toHost[d]
    PROVE  \/ state'[d] = "failed" /\ pendingCommands'[d] = {}
           \/ UNCHANGED <<state[d], toHost[d], pendingCommands[d], reconciled[d]>>
BY DEF FailConnection, TypeOK, LifecycleTypeOK, LogTypeOK

LEMMA CommandSend ==
    ASSUME TypeOK, WireIsContiguous, NEW c \in Conns, NEW p \in Commands,
           Send(c, p) \/ SendFails(c, p), NEW d \in Conns, CommandInv(d)
    PROVE  CommandInv(d)'
<1>1. CASE SendFails(c, p)
  BY <1>1, FailFrame, CommandFrame DEF SendFails, WriteFails
<1>2. CASE Send(c, p) /\ d = c
  <2>1. /\ state[c] = "live" /\ UNCHANGED <<state, reconciled>>
        /\ pendingCommands'[c] = pendingCommands[c] \union {nextOutbound[c]}
        /\ toHost'[c] = Append(toHost[c], [seq |-> nextOutbound[c], payload |-> p])
    BY <1>2 DEF Send, MaySend, Write, TypeOK, LogTypeOK
  <2>2. p.kind # "ack" /\ nextOutbound[c] \in Nat
    BY DEF Commands, TypeOK, LogTypeOK
  <2>3. CommandsSent(c)' = CommandsSent(c) \union {nextOutbound[c]}
    BY <2>1, <2>2, SentAppend
  <2>4. nextOutbound[c] \notin CommandsSent(c)
    BY <2>1, NextIsFresh
  <2>5. QED
    BY <1>2, <2>1, <2>3, <2>4 DEF CommandInv
<1>3. CASE Send(c, p) /\ d # c
  BY <1>3, CommandFrame DEF Send, Write, TypeOK, LogTypeOK
<1>4. QED
  BY <1>1, <1>2, <1>3

LEMMA CommandReceive ==
    ASSUME TypeOK, NEW c \in Conns, NEW m \in Arriving(c), Receive(c, m),
           NEW d \in Conns, CommandInv(d)
    PROVE  CommandInv(d)'
<1>0. nextOutbound[c] \in Nat
  BY DEF TypeOK, LogTypeOK
<1>a. Ack(m).kind = "ack"
  BY DEF Ack
<1>1. CASE ReceiveRejected(c, m) \/ ReceiptFails(c, m)
  BY <1>1, FailFrame, CommandFrame DEF ReceiveRejected, ReceiptFails, WriteFails
<1>2. CASE ReceiveFactSinkFails(c, m)
  <2>1. d # c => UNCHANGED toHost[d]
    BY <1>2 DEF ReceiveFactSinkFails, Write, TypeOK, LogTypeOK
  <2>2. QED
    BY <1>2, <2>1, FailFrame, CommandFrame DEF ReceiveFactSinkFails
<1>3. CASE ReceiveHello(c, m) /\ d = c
  <2>1. /\ state[c] = "pending" /\ state'[c] = "live"
        /\ UNCHANGED <<pendingCommands, reconciled>>
        /\ toHost'[c] = Append(toHost[c], [seq |-> nextOutbound[c], payload |-> Ack(m)])
    BY <1>3 DEF ReceiveHello, CommitLive, Write, TypeOK, LogTypeOK, LifecycleTypeOK
  <2>2. CommandsSent(c)' = CommandsSent(c)
    BY <1>0, <2>1, <1>a, SentAppend
  <2>3. CommandsSent(c) = {}
    BY <1>3, <2>1 DEF CommandInv, CommandsSent
  <2>4. QED
    BY <1>3, <2>1, <2>2, <2>3 DEF CommandInv
<1>4. CASE ReceiveFact(c, m) /\ d = c
  <2>1. /\ state[c] = "live" /\ UNCHANGED <<state, pendingCommands, reconciled>>
        /\ toHost'[c] = Append(toHost[c], [seq |-> nextOutbound[c], payload |-> Ack(m)])
    BY <1>4 DEF ReceiveFact, CarriesFact, Write, TypeOK, LogTypeOK
  <2>2. CommandsSent(c)' = CommandsSent(c)
    BY <1>0, <2>1, <1>a, SentAppend
  <2>3. QED
    BY <1>4, <2>1, <2>2 DEF CommandInv
<1>5. CASE (ReceiveHello(c, m) \/ ReceiveFact(c, m)) /\ d # c
  <2>1. UNCHANGED <<state[d], toHost[d], pendingCommands[d], reconciled[d]>>
    BY <1>5 DEF ReceiveHello, ReceiveFact, CommitLive, Write, TypeOK, LogTypeOK, LifecycleTypeOK
  <2>2. QED
    BY <2>1, CommandFrame
<1>6. CASE ReceiveAck(c, m)
  <2>1. /\ state[c] = "live" /\ UNCHANGED <<state, toHost>>
        /\ pendingCommands' = [pendingCommands EXCEPT ![c] = @ \ {m.payload.acknowledged}]
        /\ reconciled' = [reconciled EXCEPT ![c] =
                            @ \union (pendingCommands[c] \intersect {m.payload.acknowledged})]
    BY <1>6 DEF ReceiveAck
  <2>2. CommandsSent(d)' = CommandsSent(d)
    BY <2>1 DEF CommandsSent
  <2>3. QED
    BY <2>1, <2>2 DEF CommandInv, TypeOK, LogTypeOK
<1>7. QED
  BY <1>1, <1>2, <1>3, <1>4, <1>5, <1>6 DEF Receive

\* A command that reached the wire of a live connection is pending or was
\* acknowledged, not both; a connection that is not live holds none.
THEOREM CommandsAccounted == Spec => []CommandAccounting
<1>1. Init => \A d \in Conns : CommandInv(d)
  BY DEF Init, CommandInv
<1>2. ASSUME TypeOK, WireIsContiguous, \A d \in Conns : CommandInv(d), [Next]_vars
      PROVE  (\A d \in Conns : CommandInv(d))'
  <2>1. SUFFICES ASSUME NEW d \in Conns, CommandInv(d) PROVE CommandInv(d)'
    BY <1>2
  <2>2. ASSUME NEW c \in Conns, NEW who \in Contexts,
               OpenConnection(c, who) \/ OpenConnectionFails(c, who)
        PROVE  CommandInv(d)'
    BY <1>2, <2>1, <2>2 DEF OpenConnection, OpenConnectionFails, MayOpen, CommandInv,
          CommandsSent, TypeOK, LifecycleTypeOK
  <2>3. ASSUME NEW a \in Actors, NEW p \in Commands, SendCommand(a, p)
        PROVE  CommandInv(d)'
    <3>1. liveByActor[a] \in Conns
      BY <1>2, <2>3 DEF SendCommand, TypeOK, RegistryTypeOK
    <3>2. QED
      BY <1>2, <2>1, <2>3, <3>1, CommandSend DEF SendCommand
  <2>4. ASSUME NEW c \in Conns, TransportFails(c)
        PROVE  CommandInv(d)'
    BY <1>2, <2>1, <2>4, FailFrame, CommandFrame DEF TransportFails
  <2>5. CASE UNCHANGED vars
    BY <1>2, <2>1, <2>5, CommandFrame DEF vars
  <2>6. QED
    BY <1>2, <2>1, <2>2, <2>3, <2>4, <2>5, CommandSend, CommandReceive
    DEF Next, SendOnConnection
<1>3. TypeOK /\ (\A d \in Conns : CommandInv(d)) => CommandAccounting
  BY DEF CommandInv, CommandAccounting, TypeOK, LifecycleTypeOK
<1>4. QED
  BY <1>1, <1>2, <1>3, TypeCorrect, WireCorrect, PTL DEF Spec

------------------------------------------------------------------------------
(* Finality. *)

\* What FailedIsFinal says of one connection and one step.
Final(d) == /\ StaysFailed(d)
            /\ state[d] # "live" /\ state'[d] = "live" => state[d] = "pending"

LEMMA FinalFail ==
    ASSUME TypeOK, NEW c \in Conns, Open(c), FailConnection(c), NEW d \in Conns,
           d # c => UNCHANGED <<nextInbound[d], toHost[d]>>
    PROVE  Final(d)
BY DEF FailConnection, Final, StaysFailed, Open, TypeOK, LifecycleTypeOK, LogTypeOK

LEMMA FinalSend ==
    ASSUME TypeOK, NEW c \in Conns, NEW p \in Commands, Send(c, p) \/ SendFails(c, p),
           NEW d \in Conns
    PROVE  Final(d)
<1>1. CASE Send(c, p)
  BY <1>1 DEF Send, MaySend, Write, Final, StaysFailed, TypeOK, LifecycleTypeOK, LogTypeOK
<1>2. CASE SendFails(c, p)
  BY <1>2, FinalFail DEF SendFails, MaySend, WriteFails, Open
<1>3. QED
  BY <1>1, <1>2

LEMMA FinalReceive ==
    ASSUME TypeOK, NEW c \in Conns, NEW m \in Arriving(c), Receive(c, m), NEW d \in Conns
    PROVE  Final(d)
<1>1. CASE ReceiveRejected(c, m)
  BY <1>1, FinalFail DEF ReceiveRejected
<1>2. CASE ReceiveHello(c, m)
  BY <1>2 DEF ReceiveHello, CommitLive, Write, ConsumeInbound, Final, StaysFailed,
              TypeOK, LifecycleTypeOK, LogTypeOK
<1>3. CASE ReceiveAck(c, m)
  BY <1>3 DEF ReceiveAck, ConsumeInbound, Final, StaysFailed, TypeOK, LifecycleTypeOK, LogTypeOK
<1>4. CASE ReceiveFact(c, m)
  BY <1>4 DEF ReceiveFact, CarriesFact, Write, ConsumeInbound, Final, StaysFailed,
              TypeOK, LifecycleTypeOK, LogTypeOK
<1>5. CASE ReceiveFactSinkFails(c, m)
  <2>1. d # c => UNCHANGED <<nextInbound[d], toHost[d]>>
    BY <1>5 DEF ReceiveFactSinkFails, Write, ConsumeInbound, TypeOK, LogTypeOK
  <2>2. QED
    BY <1>5, <2>1, FinalFail DEF ReceiveFactSinkFails, CarriesFact, Open
<1>6. CASE ReceiptFails(c, m)
  BY <1>6, FinalFail DEF ReceiptFails, CarriesFact, WriteFails, Open
<1>7. QED
  BY <1>1, <1>2, <1>3, <1>4, <1>5, <1>6 DEF Receive

\* No step revives a failed connection, writes to its transport or delivers for it.
THEOREM FailureIsFinal == Spec => FailedIsFinal
<1>1. ASSUME TypeOK, [Next]_vars
      PROVE  \A d \in Conns : Final(d)
  <2>1. SUFFICES ASSUME NEW d \in Conns PROVE Final(d)
    OBVIOUS
  <2>2. ASSUME NEW c \in Conns, NEW who \in Contexts,
               OpenConnection(c, who) \/ OpenConnectionFails(c, who)
        PROVE  Final(d)
    BY <1>1, <2>2 DEF OpenConnection, OpenConnectionFails, MayOpen, Final, StaysFailed,
          TypeOK, LifecycleTypeOK
  <2>3. ASSUME NEW a \in Actors, NEW p \in Commands, SendCommand(a, p)
        PROVE  Final(d)
    <3>1. liveByActor[a] \in Conns
      BY <1>1, <2>3 DEF SendCommand, TypeOK, RegistryTypeOK
    <3>2. QED
      BY <1>1, <2>3, <3>1, FinalSend DEF SendCommand
  <2>4. ASSUME NEW c \in Conns, TransportFails(c)
        PROVE  Final(d)
    BY <1>1, <2>4, FinalFail DEF TransportFails
  <2>5. CASE UNCHANGED vars
    BY <2>5 DEF vars, Final, StaysFailed
  <2>6. QED
    BY <1>1, <2>2, <2>3, <2>4, <2>5, FinalSend, FinalReceive DEF Next, SendOnConnection
<1>2. TypeOK /\ [Next]_vars =>
        [\A c \in Conns : /\ StaysFailed(c)
                          /\ state[c] # "live" /\ state'[c] = "live" => state[c] = "pending"]_vars
  BY <1>1 DEF Final
<1>3. QED
  BY <1>2, TypeCorrect, PTL DEF Spec, FailedIsFinal

------------------------------------------------------------------------------
(* Transports. *)

\* A connection has failed exactly when its transport has been told to go, or
\* has gone.
THEOREM NoHalfOpen == Spec => []NoHalfOpenConnection
<1>1. Init => NoHalfOpenConnection
  BY DEF Init, NoHalfOpenConnection
<1>2. ASSUME TypeOK, NoHalfOpenConnection, [Next]_vars
      PROVE  NoHalfOpenConnection'
  <2> USE <1>2 DEF NoHalfOpenConnection, TypeOK, LifecycleTypeOK
  <2>1. CASE Opens
    BY <2>1 DEF Opens, OpenConnection
  <2>2. CASE OpensAndFails
    BY <2>2 DEF OpensAndFails, OpenConnectionFails
  <2>3. CASE Fails
    BY <2>3 DEF Fails, FailConnection
  <2>4. CASE Commits
    BY <2>4 DEF Commits, CommitLive
  <2>5. CASE Keeps
    BY <2>5 DEF Keeps
  <2>6. QED
    BY <2>1, <2>2, <2>3, <2>4, <2>5, StepShapes
<1>3. QED
  BY <1>1, <1>2, TypeCorrect, PTL DEF Spec

------------------------------------------------------------------------------
(* Receipts.  The lemmas about a step take the set X of the messages the log  *)
(* may hold, and any message that arrives, so that they also hold of a        *)
(* gateway whose messages have more fields.                                   *)

LogsTyped(X) ==
    /\ state \in [Conns -> {"unopened", "pending", "live", "failed"}]
    /\ nextInbound \in [Conns -> Nat]
    /\ toHost \in [Conns -> Seq(X)]
    /\ facts \in [Conns -> Seq(Nat)]

\* The receipts and the accepted facts of one connection are for messages that
\* have arrived, each in the order of their arrival.
ReceiptsOrdered(c) ==
    /\ \A i, j \in Receipts(c) : i < j => ReceiptFor(c, i) < ReceiptFor(c, j)
    /\ \A i \in Receipts(c) : ReceiptFor(c, i) \in 0..(nextInbound[c] - 1)
FactsOrdered(c) ==
    /\ \A i, j \in 1..Len(facts[c]) : i < j => facts[c][i] < facts[c][j]
    /\ \A i \in 1..Len(facts[c]) : facts[c][i] \in 1..(nextInbound[c] - 1)

\* What was acknowledged and what the sink accepted are the same, but for the
\* hello, and for the last message of a connection that failed.
ReceiptsAccountFor(c) ==
    /\ state[c] \in {"unopened", "pending"} =>
         nextInbound[c] = 0 /\ toHost[c] = <<>> /\ facts[c] = <<>>
    /\ state[c] = "live" => nextInbound[c] # 0 /\ Acknowledged(c) = Accepted(c) \union {0}
    /\ Accepted(c) \subseteq Acknowledged(c)
    /\ Acknowledged(c) # {} => 0 \in Acknowledged(c)
    /\ \A n \in Acknowledged(c) \ (Accepted(c) \union {0}) :
         state[c] = "failed" /\ \A k \in Acknowledged(c) : k <= n

ReceiptInv(c) == ReceiptsOrdered(c) /\ FactsOrdered(c) /\ ReceiptsAccountFor(c)

LEMMA ReceiptInvSuffices ==
    ASSUME NEW X, LogsTyped(X), \A c \in Conns : ReceiptInv(c) PROVE ReceiptPrecedesDelivery
<1> SUFFICES ASSUME NEW c \in Conns
             PROVE  /\ \A i, j \in Receipts(c) : i < j => ReceiptFor(c, i) < ReceiptFor(c, j)
                    /\ \A i, j \in 1..Len(facts[c]) : i < j => facts[c][i] < facts[c][j]
                    /\ Accepted(c) \subseteq Acknowledged(c) \ {0}
                    /\ Acknowledged(c) # {} => 0 \in Acknowledged(c)
                    /\ Open(c) => (Acknowledged(c) # {} <=> state[c] = "live")
                    /\ \A n \in Acknowledged(c) \ (Accepted(c) \union {0}) :
                         state[c] = "failed" /\ \A k \in Acknowledged(c) : k <= n
  BY DEF ReceiptPrecedesDelivery
<1>1. ReceiptsOrdered(c) /\ FactsOrdered(c) /\ ReceiptsAccountFor(c) /\ nextInbound[c] \in Nat
  BY DEF ReceiptInv, LogsTyped
<1>2. 0 \notin Accepted(c)
  BY <1>1 DEF FactsOrdered, Accepted
<1>3. state[c] = "pending" => Acknowledged(c) = {}
  BY <1>1 DEF ReceiptsAccountFor, Acknowledged, Receipts
<1>4. Open(c) => (Acknowledged(c) # {} <=> state[c] = "live")
  BY <1>1, <1>3 DEF ReceiptsAccountFor, Open
<1> QED BY <1>1, <1>2, <1>4 DEF ReceiptsOrdered, FactsOrdered, ReceiptsAccountFor

\* A message is appended to the log.
LEMMA LogAppend ==
    ASSUME NEW X, LogsTyped(X), NEW c \in Conns, NEW n, NEW p,
           toHost'[c] = Append(toHost[c], [seq |-> n, payload |-> p])
    PROVE  /\ \A i \in Receipts(c) : ReceiptFor(c, i)' = ReceiptFor(c, i)
           /\ p.kind # "ack" => Receipts(c)' = Receipts(c)
           /\ p.kind = "ack" => \E new \in Nat :
                /\ Receipts(c)' = Receipts(c) \union {new}
                /\ ReceiptFor(c, new)' = p.acknowledged
                /\ \A i \in Receipts(c) : i \in Nat /\ i < new
<1> PICK last : last = Len(toHost[c])
  OBVIOUS
<1> PICK e : e = [seq |-> n, payload |-> p]
  OBVIOUS
<1>1. /\ last \in Nat /\ Len(toHost'[c]) = last + 1
      /\ \A i \in 1..last : toHost'[c][i] = toHost[c][i]
      /\ toHost'[c][last + 1] = e
  BY DEF LogsTyped
<1>2. e.payload = p
  OBVIOUS
<1>3. Receipts(c) \subseteq 1..last
  BY DEF Receipts
<1>4. \A i \in 1..last : i \in Receipts(c)' <=> i \in Receipts(c)
  BY <1>1 DEF Receipts
<1>5. \A i : i \in Receipts(c)' => i \in 1..last \/ i = last + 1
  BY <1>1 DEF Receipts
<1>6. last + 1 \in Receipts(c)' <=> p.kind = "ack"
  BY <1>1, <1>2 DEF Receipts
<1>7. \A i \in Receipts(c) : ReceiptFor(c, i)' = ReceiptFor(c, i)
  BY <1>1, <1>3 DEF ReceiptFor
<1>8. ReceiptFor(c, last + 1)' = p.acknowledged
  BY <1>1, <1>2 DEF ReceiptFor
<1>9. \A i \in Receipts(c) : i \in Nat /\ i < last + 1
  BY <1>1, <1>3
<1>10. ASSUME p.kind # "ack" PROVE Receipts(c)' = Receipts(c)
  BY <1>3, <1>4, <1>5, <1>6, <1>10
<1>11. ASSUME p.kind = "ack" PROVE Receipts(c)' = Receipts(c) \union {last + 1}
  BY <1>3, <1>4, <1>5, <1>6, <1>11
<1>12. last + 1 \in Nat
  BY <1>1
<1> QED BY <1>7, <1>8, <1>9, <1>10, <1>11, <1>12

\* A connection that a step left alone, or that failed and wrote nothing.
LEMMA ReceiptFrame ==
    ASSUME NEW c \in Conns, ReceiptInv(c),
           \/ state'[c] = state[c]
           \/ state[c] \in {"unopened", "pending", "live"} /\ state'[c] = "failed"
           \/ state[c] = "unopened" /\ state'[c] = "pending",
           nextInbound'[c] = nextInbound[c], toHost'[c] = toHost[c], facts'[c] = facts[c]
    PROVE  ReceiptInv(c)'
<1>1. Receipts(c)' = Receipts(c) /\ \A i : ReceiptFor(c, i)' = ReceiptFor(c, i)
  BY DEF Receipts, ReceiptFor
<1>2. Acknowledged(c)' = Acknowledged(c) /\ Accepted(c)' = Accepted(c)
  BY <1>1 DEF Acknowledged, Accepted
<1>3. ReceiptsOrdered(c)' /\ FactsOrdered(c)'
  BY <1>1 DEF ReceiptInv, ReceiptsOrdered, FactsOrdered
<1>4. ReceiptsAccountFor(c)'
  BY <1>2 DEF ReceiptInv, ReceiptsAccountFor
<1> QED BY <1>3, <1>4 DEF ReceiptInv

\* A command is written.
LEMMA ReceiptSend ==
    ASSUME NEW X, LogsTyped(X), NEW c \in Conns, NEW p, p.kind # "ack",
           Send(c, p) \/ SendFails(c, p), NEW d \in Conns, ReceiptInv(d)
    PROVE  ReceiptInv(d)'
<1>1. CASE SendFails(c, p)
  BY <1>1, ReceiptFrame DEF SendFails, MaySend, WriteFails, FailConnection, LogsTyped
<1>2. CASE Send(c, p) /\ d # c
  BY <1>2, ReceiptFrame DEF Send, Write, LogsTyped
<1>3. CASE Send(c, p) /\ d = c
  <2>1. /\ state[c] = "live" /\ UNCHANGED <<state, nextInbound, facts>>
        /\ toHost'[c] = Append(toHost[c], [seq |-> nextOutbound[c], payload |-> p])
    BY <1>3 DEF Send, MaySend, Write, LogsTyped
  <2>2. Receipts(c)' = Receipts(c) /\ \A i \in Receipts(c) : ReceiptFor(c, i)' = ReceiptFor(c, i)
    BY <2>1, LogAppend
  <2>3. Acknowledged(c)' = Acknowledged(c) /\ Accepted(c)' = Accepted(c)
    BY <2>1, <2>2 DEF Acknowledged, Accepted
  <2>4. ReceiptsOrdered(c)' /\ FactsOrdered(c)'
    BY <1>3, <2>1, <2>2 DEF ReceiptInv, ReceiptsOrdered, FactsOrdered
  <2>5. ReceiptsAccountFor(c)'
    BY <1>3, <2>1, <2>3 DEF ReceiptInv, ReceiptsAccountFor
  <2> QED BY <1>3, <2>4, <2>5 DEF ReceiptInv
<1> QED BY <1>1, <1>2, <1>3

\* The receipt of the next message is written.
LEMMA ReceiptWrite ==
    ASSUME NEW X, LogsTyped(X), NEW c \in Conns, ReceiptsOrdered(c), NEW m,
           m.seq = nextInbound[c], Write(c, Ack(m)), ConsumeInbound(c)
    PROVE  /\ ReceiptsOrdered(c)'
           /\ Acknowledged(c)' = Acknowledged(c) \union {nextInbound[c]}
           /\ nextInbound'[c] = nextInbound[c] + 1
<1> PICK k : k = nextInbound[c]
  OBVIOUS
<1> PICK p : p = Ack(m)
  OBVIOUS
<1>1. /\ k \in Nat /\ nextInbound'[c] = k + 1
      /\ toHost'[c] = Append(toHost[c], [seq |-> nextOutbound[c], payload |-> p])
  BY DEF Write, ConsumeInbound, LogsTyped
<1>2. p.kind = "ack" /\ p.acknowledged = k
  BY DEF Ack
<1>3. PICK new \in Nat : /\ Receipts(c)' = Receipts(c) \union {new}
                         /\ ReceiptFor(c, new)' = k
                         /\ \A i \in Receipts(c) : i \in Nat /\ i < new
  BY <1>1, <1>2, LogAppend
<1>4. \A i \in Receipts(c) : ReceiptFor(c, i)' = ReceiptFor(c, i)
  BY <1>1, LogAppend
<1>5. \A i \in Receipts(c) : ReceiptFor(c, i) \in 0..(k - 1)
  BY DEF ReceiptsOrdered
<1>6. ReceiptsOrdered(c)'
  <2>1. ASSUME NEW i \in Receipts(c)', NEW j \in Receipts(c)', i < j
        PROVE  ReceiptFor(c, i)' < ReceiptFor(c, j)'
    <3>1. i \in Receipts(c)
      BY <1>3, <2>1
    <3>2. CASE j = new
      BY <1>1, <1>3, <1>4, <1>5, <3>1, <3>2
    <3>3. CASE j \in Receipts(c)
      BY <1>4, <2>1, <3>1, <3>3 DEF ReceiptsOrdered
    <3> QED BY <1>3, <3>2, <3>3
  <2>2. ASSUME NEW i \in Receipts(c)' PROVE ReceiptFor(c, i)' \in 0..(k + 1 - 1)
    BY <1>1, <1>3, <1>4, <1>5, <2>2
  <2> QED BY <1>1, <2>1, <2>2 DEF ReceiptsOrdered
<1>7. Acknowledged(c)' = Acknowledged(c) \union {k}
  BY <1>3, <1>4 DEF Acknowledged
<1> QED BY <1>1, <1>6, <1>7

\* A fact is acknowledged, and accepted by the sink or not.
LEMMA ReceiptFact ==
    ASSUME NEW X, LogsTyped(X), NEW c \in Conns, NEW m, ReceiptInv(c),
           ReceiveFact(c, m) \/ ReceiveFactSinkFails(c, m)
    PROVE  ReceiptInv(c)'
<1> PICK k : k = nextInbound[c]
  OBVIOUS
<1>1. /\ state[c] = "live" /\ m.seq = k /\ Write(c, Ack(m)) /\ ConsumeInbound(c)
      /\ k \in Nat /\ k # 0 /\ facts \in [Conns -> Seq(Nat)]
  BY DEF ReceiveFact, ReceiveFactSinkFails, CarriesFact, Acceptable, ValidEnvelope, LogsTyped,
         ReceiptInv, ReceiptsAccountFor
<1>2. ReceiptsOrdered(c) /\ FactsOrdered(c) /\ Acknowledged(c) = Accepted(c) \union {0}
  BY <1>1 DEF ReceiptInv, ReceiptsAccountFor
<1>3. /\ ReceiptsOrdered(c)' /\ Acknowledged(c)' = Acknowledged(c) \union {k}
      /\ nextInbound'[c] = k + 1
  BY <1>1, <1>2, ReceiptWrite
<1>4. \A n \in Acknowledged(c) : n \in Nat /\ n < k
  BY <1>1, <1>2 DEF ReceiptsOrdered, Acknowledged
<1>5. CASE ReceiveFact(c, m)
  <2>1. state'[c] = "live" /\ facts' = [facts EXCEPT ![c] = Append(@, k)]
    BY <1>1, <1>5 DEF ReceiveFact
  <2> PICK last : last = Len(facts[c])
    OBVIOUS
  <2>2. /\ last \in Nat /\ Len(facts'[c]) = last + 1
        /\ \A i \in 1..last : facts'[c][i] = facts[c][i]
        /\ facts'[c][last + 1] = k
    BY <1>1, <2>1
  <2>3. \A i \in 1..(last + 1) : i \in 1..last \/ i = last + 1
    BY <2>2
  <2>4. \A i \in 1..last : facts[c][i] \in 1..(k - 1)
    BY <1>2 DEF FactsOrdered
  <2>5. Accepted(c)' = Accepted(c) \union {k}
    BY <2>2, <2>3 DEF Accepted
  <2>6. FactsOrdered(c)'
    <3>1. ASSUME NEW i \in 1..(last + 1), NEW j \in 1..(last + 1), i < j
          PROVE  facts'[c][i] < facts'[c][j]
      <4>1. i \in 1..last
        BY <2>2, <3>1
      <4>2. CASE j = last + 1
        BY <1>1, <2>2, <2>4, <4>1, <4>2
      <4>3. CASE j \in 1..last
        BY <1>2, <2>2, <3>1, <4>1, <4>3 DEF FactsOrdered
      <4> QED BY <2>3, <4>2, <4>3
    <3>2. ASSUME NEW i \in 1..(last + 1) PROVE facts'[c][i] \in 1..(k + 1 - 1)
      <4>1. CASE i = last + 1
        BY <1>1, <2>2, <4>1
      <4>2. CASE i \in 1..last
        BY <1>1, <2>2, <2>4, <4>2
      <4> QED BY <2>3, <4>1, <4>2
    <3> QED BY <1>3, <2>2, <3>1, <3>2 DEF FactsOrdered
  <2>7. ReceiptsAccountFor(c)'
    <3>1. nextInbound'[c] # 0
      BY <1>1, <1>3
    <3> QED BY <1>2, <1>3, <2>1, <2>5, <3>1 DEF ReceiptsAccountFor
  <2> QED BY <1>3, <2>6, <2>7 DEF ReceiptInv
<1>6. CASE ReceiveFactSinkFails(c, m)
  <2>1. state'[c] = "failed" /\ facts' = facts
    BY <1>6 DEF ReceiveFactSinkFails, FailConnection, LogsTyped
  <2>2. Accepted(c)' = Accepted(c)
    BY <2>1 DEF Accepted
  <2>3. FactsOrdered(c)'
    <3>1. 1..(nextInbound[c] - 1) \subseteq 1..(nextInbound'[c] - 1)
      BY <1>1, <1>3
    <3> QED BY <1>2, <2>1, <3>1 DEF FactsOrdered
  <2>4. \A n \in Acknowledged(c)' : n <= k
    BY <1>1, <1>3, <1>4
  <2>5. ReceiptsAccountFor(c)'
    BY <1>2, <1>3, <2>1, <2>2, <2>4 DEF ReceiptsAccountFor
  <2> QED BY <1>3, <2>3, <2>5 DEF ReceiptInv
<1> QED BY <1>5, <1>6

LEMMA ReceiptHello ==
    ASSUME NEW X, LogsTyped(X), NEW c \in Conns, NEW m, ReceiptInv(c), ReceiveHello(c, m)
    PROVE  ReceiptInv(c)'
<1>1. /\ state[c] = "pending" /\ m.seq = nextInbound[c] /\ Write(c, Ack(m)) /\ ConsumeInbound(c)
      /\ state'[c] = "live" /\ facts' = facts
  BY DEF ReceiveHello, CommitLive, Acceptable, ValidEnvelope, LogsTyped
<1>2. /\ nextInbound[c] = 0 /\ toHost[c] = <<>> /\ facts[c] = <<>>
      /\ ReceiptsOrdered(c) /\ FactsOrdered(c)
  BY <1>1 DEF ReceiptInv, ReceiptsAccountFor
<1>3. /\ ReceiptsOrdered(c)' /\ Acknowledged(c)' = Acknowledged(c) \union {0}
      /\ nextInbound'[c] = 1
  <2>1. /\ ReceiptsOrdered(c)' /\ Acknowledged(c)' = Acknowledged(c) \union {nextInbound[c]}
        /\ nextInbound'[c] = nextInbound[c] + 1
    BY <1>1, <1>2, ReceiptWrite
  <2> QED BY <1>2, <2>1
<1>4. Acknowledged(c) = {} /\ Accepted(c)' = {}
  BY <1>1, <1>2 DEF Acknowledged, Receipts, Accepted
<1>5. FactsOrdered(c)'
  BY <1>1, <1>2 DEF FactsOrdered
<1>6. ReceiptsAccountFor(c)'
  BY <1>1, <1>3, <1>4 DEF ReceiptsAccountFor
<1> QED BY <1>3, <1>5, <1>6 DEF ReceiptInv

\* A message arrives, whatever it is.
LEMMA ReceiptReceive ==
    ASSUME NEW X, LogsTyped(X), NEW c \in Conns, NEW m, Receive(c, m),
           NEW d \in Conns, ReceiptInv(d)
    PROVE  ReceiptInv(d)'
<1>1. CASE ReceiveRejected(c, m) \/ ReceiptFails(c, m)
  BY <1>1, ReceiptFrame DEF ReceiveRejected, ReceiptFails, CarriesFact, WriteFails,
                            FailConnection, Open, LogsTyped
<1>2. CASE ReceiveAck(c, m)
  <2>1. /\ state' = state /\ toHost' = toHost /\ facts' = facts
        /\ nextInbound' = [nextInbound EXCEPT ![c] = @ + 1] /\ state[c] = "live"
    BY <1>2 DEF ReceiveAck, ConsumeInbound
  <2>2. CASE d # c
    BY <2>1, <2>2, ReceiptFrame DEF LogsTyped
  <2>3. CASE d = c
    <3>1. /\ Receipts(c)' = Receipts(c) /\ \A i : ReceiptFor(c, i)' = ReceiptFor(c, i)
          /\ Accepted(c)' = Accepted(c)
      BY <2>1 DEF Receipts, ReceiptFor, Accepted
    <3>2. Acknowledged(c)' = Acknowledged(c)
      BY <3>1 DEF Acknowledged
    <3>3. /\ nextInbound[c] \in Nat /\ nextInbound'[c] = nextInbound[c] + 1
          /\ nextInbound'[c] # 0
      BY <2>1 DEF LogsTyped
    <3>4. /\ 0..(nextInbound[c] - 1) \subseteq 0..(nextInbound'[c] - 1)
          /\ 1..(nextInbound[c] - 1) \subseteq 1..(nextInbound'[c] - 1)
      BY <3>3
    <3>5. ReceiptsOrdered(c)' /\ FactsOrdered(c)'
      BY <2>1, <2>3, <3>1, <3>4 DEF ReceiptInv, ReceiptsOrdered, FactsOrdered
    <3>6. ReceiptsAccountFor(c)'
      BY <2>1, <2>3, <3>1, <3>2, <3>3 DEF ReceiptInv, ReceiptsAccountFor
    <3> QED BY <2>3, <3>5, <3>6 DEF ReceiptInv
  <2> QED BY <2>2, <2>3
<1>3. CASE ReceiveHello(c, m)
  <2>1. d # c => /\ state'[d] = state[d] /\ nextInbound'[d] = nextInbound[d]
                 /\ toHost'[d] = toHost[d] /\ facts'[d] = facts[d]
    BY <1>3 DEF ReceiveHello, CommitLive, Write, ConsumeInbound, LogsTyped
  <2> QED BY <1>3, <2>1, ReceiptHello, ReceiptFrame
<1>4. CASE ReceiveFact(c, m) \/ ReceiveFactSinkFails(c, m)
  <2>1. d # c => /\ state'[d] = state[d] /\ nextInbound'[d] = nextInbound[d]
                 /\ toHost'[d] = toHost[d] /\ facts'[d] = facts[d]
    BY <1>4 DEF ReceiveFact, ReceiveFactSinkFails, FailConnection, Write, ConsumeInbound, LogsTyped
  <2> QED BY <1>4, <2>1, ReceiptFact, ReceiptFrame
<1> QED BY <1>1, <1>2, <1>3, <1>4 DEF Receive

\* A connection is opened, or refused, or its transport fails.
LEMMA ReceiptLifecycle ==
    ASSUME NEW X, LogsTyped(X), NEW c \in Conns, NEW who,
           OpenConnection(c, who) \/ OpenConnectionFails(c, who) \/ TransportFails(c),
           NEW d \in Conns, ReceiptInv(d)
    PROVE  ReceiptInv(d)'
  BY ReceiptFrame DEF OpenConnection, OpenConnectionFails, MayOpen, TransportFails, Open,
                      FailConnection, LogsTyped

LEMMA ReceiptStart == ASSUME Init, NEW d \in Conns PROVE ReceiptInv(d)
  BY DEF Init, ReceiptInv, ReceiptsOrdered, FactsOrdered, ReceiptsAccountFor, Acknowledged,
         Accepted, Receipts

\* Every fact that the sink accepted was acknowledged before, in order and once,
\* whatever the host sends; the receipt of a fact that was not accepted is the
\* last thing a connection says.
THEOREM ReceiptsPrecede == Spec => []ReceiptPrecedesDelivery
<1>1. Init => \A d \in Conns : ReceiptInv(d)
  BY ReceiptStart
<1>2. TypeOK => LogsTyped(Outbound)
  BY DEF TypeOK, LifecycleTypeOK, LogTypeOK, LogsTyped
<1>3. ASSUME TypeOK, \A d \in Conns : ReceiptInv(d), [Next]_vars
      PROVE  (\A d \in Conns : ReceiptInv(d))'
  <2>1. SUFFICES ASSUME NEW d \in Conns, ReceiptInv(d) PROVE ReceiptInv(d)'
    BY <1>3
  <2>2. \A p \in Commands : p.kind # "ack"
    BY DEF Commands
  <2>3. ASSUME NEW c \in Conns, NEW p \in Commands, SendOnConnection(c, p) PROVE ReceiptInv(d)'
    BY <1>2, <1>3, <2>1, <2>2, <2>3, ReceiptSend DEF SendOnConnection
  <2>4. ASSUME NEW a \in Actors, NEW p \in Commands, SendCommand(a, p) PROVE ReceiptInv(d)'
    <3>1. liveByActor[a] \in Conns
      BY <1>3, <2>4 DEF SendCommand, TypeOK, RegistryTypeOK
    <3> QED BY <2>3, <2>4, <3>1 DEF SendCommand, SendOnConnection
  <2>5. CASE UNCHANGED vars
    BY <2>1, <2>5, ReceiptFrame DEF vars
  <2> QED BY <1>2, <1>3, <2>1, <2>3, <2>4, <2>5, ReceiptReceive, ReceiptLifecycle DEF Next
<1>4. TypeOK /\ (\A d \in Conns : ReceiptInv(d)) => ReceiptPrecedesDelivery
  BY <1>2, ReceiptInvSuffices
<1> QED BY <1>1, <1>3, <1>4, TypeCorrect, PTL DEF Spec

==============================================================================
