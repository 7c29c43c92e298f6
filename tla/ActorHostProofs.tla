--------------------------- MODULE ActorHostProofs ---------------------------
(***************************************************************************)
(* The actor host keeps its types, acknowledges a command before it        *)
(* answers it, and tells the server the truth about every execution.       *)
(*                                                                         *)
(* The lemmas about a step take the set P of the payloads that the server  *)
(* may send, so that they also hold of a host whose server sends payloads  *)
(* with more fields than this one reads.                                   *)
(***************************************************************************)
EXTENDS ActorHost, TLAPS

------------------------------------------------------------------------------
(* The supervisor.  What is proved about BackendSupervisor is about the       *)
(* instance of it in the host as well.                                        *)

SupervisorFacts == INSTANCE BackendSupervisorProofs

SupervisorOK == Supervisor!TypeOK /\ SupervisorFacts!SupervisorInv

LEMMA SameOperators ==
    /\ Supervisor!SessionValues = SupervisorFacts!SessionValues
    /\ Supervisor!Completions = SupervisorFacts!Completions
    /\ Supervisor!Invocations = SupervisorFacts!Invocations
    /\ Supervisor!Executions = SupervisorFacts!Executions
    /\ Supervisor!TypeOK <=> SupervisorFacts!TypeOK
    /\ \A spec : Supervisor!InitializeVerdict(spec) = SupervisorFacts!InitializeVerdict(spec)
    /\ \A inv : Supervisor!StartVerdict(inv) = SupervisorFacts!StartVerdict(inv)
    /\ \A id : Supervisor!StopVerdict(id) = SupervisorFacts!StopVerdict(id)
    /\ \A e : Supervisor!IsActive(e) <=> SupervisorFacts!IsActive(e)
    /\ \A inv : Supervisor!NewExecution(inv) = SupervisorFacts!NewExecution(inv)
<1>1. /\ Supervisor!SessionValues = SupervisorFacts!SessionValues
      /\ Supervisor!Completions = SupervisorFacts!Completions
      /\ Supervisor!Invocations = SupervisorFacts!Invocations
  BY DEF Supervisor!SessionValues, SupervisorFacts!SessionValues, Supervisor!Completions,
         SupervisorFacts!Completions, Supervisor!Invocations, SupervisorFacts!Invocations
<1>2. Supervisor!Executions = SupervisorFacts!Executions
  BY <1>1 DEF Supervisor!Executions, SupervisorFacts!Executions
<1>3. Supervisor!TypeOK <=> SupervisorFacts!TypeOK
  BY <1>1, <1>2 DEF Supervisor!TypeOK, SupervisorFacts!TypeOK
<1>4. \A spec : Supervisor!InitializeVerdict(spec) = SupervisorFacts!InitializeVerdict(spec)
  BY DEF Supervisor!InitializeVerdict, SupervisorFacts!InitializeVerdict
<1>5. \A inv : Supervisor!StartVerdict(inv) = SupervisorFacts!StartVerdict(inv)
  BY DEF Supervisor!StartVerdict, SupervisorFacts!StartVerdict
<1>6. \A id : Supervisor!StopVerdict(id) = SupervisorFacts!StopVerdict(id)
  BY DEF Supervisor!StopVerdict, SupervisorFacts!StopVerdict
<1>7. \A e : Supervisor!IsActive(e) <=> SupervisorFacts!IsActive(e)
  BY DEF Supervisor!IsActive, SupervisorFacts!IsActive
<1>8. \A inv : Supervisor!NewExecution(inv) = SupervisorFacts!NewExecution(inv)
  BY DEF Supervisor!NewExecution, SupervisorFacts!NewExecution
<1> QED BY <1>1, <1>2, <1>3, <1>4, <1>5, <1>6, <1>7, <1>8

LEMMA SameSteps ==
    Supervisor!Next \/ UNCHANGED supervisor
        => SupervisorFacts!Next \/ UNCHANGED SupervisorFacts!vars
<1>1. ASSUME NEW spec, Supervisor!Initialize(spec) PROVE SupervisorFacts!Initialize(spec)
  BY <1>1, SameOperators DEF Supervisor!Initialize, SupervisorFacts!Initialize
<1>2. ASSUME NEW inv, Supervisor!Start(inv) PROVE SupervisorFacts!Start(inv)
  BY <1>2, SameOperators DEF Supervisor!Start, SupervisorFacts!Start
<1>3. ASSUME NEW e, NEW x, Supervisor!Fail(e, x) PROVE SupervisorFacts!Fail(e, x)
  BY <1>3, SameOperators DEF Supervisor!Fail, SupervisorFacts!Fail
<1>4. ASSUME NEW id, Supervisor!Stop(id) PROVE SupervisorFacts!Stop(id)
  BY <1>4, SameOperators DEF Supervisor!Stop, SupervisorFacts!Stop
<1>5. ASSUME NEW id, Supervisor!StopThrows(id) PROVE SupervisorFacts!StopThrows(id)
  BY <1>3, <1>5, SameOperators DEF Supervisor!StopThrows, SupervisorFacts!StopThrows
<1>6. CASE Supervisor!InitializationFails \/ Supervisor!InitializationSucceeds
  BY <1>6 DEF Supervisor!InitializationFails, Supervisor!InitializationSucceeds,
        SupervisorFacts!InitializationFails, SupervisorFacts!InitializationSucceeds,
        SupervisorFacts!Next
<1>7. ASSUME NEW e, NEW s, Supervisor!SessionResolves(e, s)
      PROVE  SupervisorFacts!SessionResolves(e, s)
  BY <1>7, SameOperators DEF Supervisor!SessionResolves, SupervisorFacts!SessionResolves
<1>8. ASSUME NEW e, NEW c, Supervisor!CompletionResolves(e, c)
      PROVE  SupervisorFacts!CompletionResolves(e, c)
  BY <1>8 DEF Supervisor!CompletionResolves, SupervisorFacts!CompletionResolves
<1>9. ASSUME NEW e, Supervisor!SessionRejects(e) PROVE SupervisorFacts!SessionRejects(e)
  BY <1>3, <1>9 DEF Supervisor!SessionRejects, SupervisorFacts!SessionRejects
<1>10. ASSUME NEW e, Supervisor!CompletionRejects(e) PROVE SupervisorFacts!CompletionRejects(e)
  BY <1>3, <1>10 DEF Supervisor!CompletionRejects, SupervisorFacts!CompletionRejects
<1>11. ASSUME NEW e, Supervisor!StopRejects(e) PROVE SupervisorFacts!StopRejects(e)
  BY <1>3, <1>11 DEF Supervisor!StopRejects, SupervisorFacts!StopRejects
<1>12. ASSUME NEW e, Supervisor!Finish(e) PROVE SupervisorFacts!Finish(e)
  BY <1>12, SameOperators DEF Supervisor!Finish, SupervisorFacts!Finish,
        Supervisor!ResolvedSession, SupervisorFacts!ResolvedSession
<1>13. CASE UNCHANGED supervisor
  BY <1>13 DEF supervisor, SupervisorFacts!vars
<1> QED
  BY <1>1, <1>2, <1>4, <1>5, <1>6, <1>7, <1>8, <1>9, <1>10, <1>11, <1>12, <1>13, SameOperators
     DEF Supervisor!Next, SupervisorFacts!Next, Supervisor!Call, SupervisorFacts!Call,
         Supervisor!Settlement, SupervisorFacts!Settlement

LEMMA SupervisorKept ==
    ASSUME SupervisorOK, Supervisor!Next \/ UNCHANGED supervisor PROVE SupervisorOK'
<1>1. [SupervisorFacts!Next]_(SupervisorFacts!vars)
  BY SameSteps
<1>2. SupervisorFacts!TypeOK /\ SupervisorFacts!SupervisorInv
  BY SameOperators DEF SupervisorOK
<1>3. SupervisorFacts!TypeOK'
  BY <1>1, <1>2, SupervisorFacts!TypeStep, SupervisorAssumption
<1>4. SupervisorFacts!SupervisorInv'
  BY <1>1, <1>2, SupervisorFacts!InvStep, SupervisorAssumption
<1>5. Supervisor!TypeOK'
  BY <1>3 DEF SupervisorFacts!TypeOK, Supervisor!TypeOK, Supervisor!Executions, SupervisorFacts!Executions,
     Supervisor!SessionValues, SupervisorFacts!SessionValues, Supervisor!Completions,
         SupervisorFacts!Completions, Supervisor!Invocations, SupervisorFacts!Invocations
<1> QED BY <1>4, <1>5 DEF SupervisorOK

------------------------------------------------------------------------------
(* Types.                                                                     *)

LinksOf(P) == [ client: {"created", "connecting", "open", "failed", "closed"},
                connection: {"not_started", "live", "failed"},
                nextOutbound: Nat,
                received: Seq(P),
                toServer: Seq(Envelopes) ]

\* What the handlers read of a payload has its type.
Readable(P) ==
    \A p \in P :
        /\ p.kind \in {"ack", "initialize_actor_host", "start_invocation", "stop_invocation",
                       "shutdown_host"}
        /\ p.kind = "initialize_actor_host" => p.spec \in Specs
        /\ p.kind = "start_invocation" => p.inv \in Supervisor!Invocations
        /\ p.kind = "stop_invocation" => p.id \in InvocationIds

LEMMA ServerPayloadsReadable == Readable(ServerPayloads)
  BY DEF Readable, ServerPayloads, Commands

HostTyped(P) ==
    /\ link \in [Clients -> LinksOf(P)]
    /\ waiting \in Seq(Causes)
    /\ origin \in Seq(Causes)
    /\ Len(origin) = Len(execs)
    /\ reactions \in Seq(Intents)

LEMMA TypesAgree == TypeOK <=> Supervisor!TypeOK /\ HostTyped(ServerPayloads)
  BY DEF TypeOK, HostTyped, LinksOf, Links

\* The payloads of the host.
LEMMA PayloadTypes ==
    /\ Hello \in HostPayloads /\ Ready \in HostPayloads
    /\ \A m : m.seq \in Nat => Ack(m) \in HostPayloads
    /\ \A id \in InvocationIds, s \in Sessions : Report(id, s) \in HostPayloads
    /\ \A id \in InvocationIds, s \in Sessions \union {None}, fact \in Facts \union {"launch_failed"} :
         Result(id, s, fact) \in HostPayloads
    /\ \A id \in InvocationIds \union {None}, code \in ErrorCodes : Fault(id, code) \in HostPayloads
  BY DEF HostPayloads, Hello, Ready, Ack, Report, Result, Fault

------------------------------------------------------------------------------
(* What is sent on a link.                                                    *)

\* A client that has no socket has no connection.
Ordered(l) == l.client \in {"created", "connecting"} => l.connection = "not_started"

\* A link that sent nothing more, and may have failed.
Kept(l, r) ==
    /\ r.received = l.received /\ r.toServer = l.toServer /\ Ordered(r)
    /\ \/ r.connection = "failed"
       \/ r.connection = l.connection /\ r.nextOutbound = l.nextOutbound

\* A link that sent a message.
Said(l, r, cause, payload) ==
    /\ r.received = l.received
    /\ r.toServer = Append(l.toServer, [seq |-> l.nextOutbound, cause |-> cause, payload |-> payload])
    /\ r.connection = l.connection
    /\ r.nextOutbound = l.nextOutbound + 1

LEMMA ClientFailedShape ==
    ASSUME NEW P, NEW l \in LinksOf(P), Ordered(l)
    PROVE  ClientFailed(l) \in LinksOf(P) /\ Kept(l, ClientFailed(l))
  BY DEF ClientFailed, Kept, LinksOf, Ordered

LEMMA WrittenShape ==
    ASSUME NEW P, NEW l \in LinksOf(P), l.client \notin {"created", "connecting"},
           NEW cause \in Nat \union {None},
           NEW payload \in HostPayloads, NEW r \in Written(l, cause, payload)
    PROVE  /\ r \in LinksOf(P)
           /\ \/ r.connection = "failed" /\ Kept(l, r)
              \/ Said(l, r, cause, payload) /\ r.client = "open"
<1> DEFINE tried == [l EXCEPT !.nextOutbound = l.nextOutbound + 1]
           envelope == [seq |-> l.nextOutbound, cause |-> cause, payload |-> payload]
<1>1. /\ tried \in LinksOf(P) /\ tried.received = l.received /\ tried.toServer = l.toServer
      /\ tried.connection = l.connection /\ tried.client = l.client
      /\ tried.nextOutbound = l.nextOutbound + 1
  BY DEF LinksOf
<1>2. envelope \in Envelopes
  BY DEF Envelopes, LinksOf
<1>3. \/ r = [tried EXCEPT !.connection = "failed"]
      \/ r = [ClientFailed(tried) EXCEPT !.connection = "failed"]
      \/ tried.client = "open" /\ r = [tried EXCEPT !.toServer = Append(tried.toServer, envelope)]
  BY DEF Written, Transmitted
<1> HIDE DEF tried, envelope
<1>4. CASE r = [tried EXCEPT !.connection = "failed"]
  BY <1>1, <1>4 DEF LinksOf, Kept, Ordered
<1>5. CASE r = [ClientFailed(tried) EXCEPT !.connection = "failed"]
  <2>1. ClientFailed(tried) \in LinksOf(P) /\ Kept(tried, ClientFailed(tried))
    BY <1>1, ClientFailedShape DEF Ordered
  <2>2. ClientFailed(tried).client \notin {"created", "connecting"}
    BY <1>1, <2>1 DEF ClientFailed, LinksOf
  <2> QED BY <1>1, <1>5, <2>1, <2>2 DEF LinksOf, Kept, Ordered
<1>6. CASE tried.client = "open" /\ r = [tried EXCEPT !.toServer = Append(tried.toServer, envelope)]
  <2>1. Append(tried.toServer, envelope) \in Seq(Envelopes)
    BY <1>1, <1>2 DEF LinksOf
  <2>2. /\ r \in LinksOf(P) /\ r.toServer = Append(tried.toServer, envelope)
        /\ r.received = tried.received /\ r.connection = tried.connection
        /\ r.client = "open" /\ r.nextOutbound = tried.nextOutbound
    BY <1>1, <1>6, <2>1 DEF LinksOf
  <2> QED BY <1>1, <2>2 DEF Said, envelope
<1> QED BY <1>3, <1>4, <1>5, <1>6

LEMMA SentShape ==
    ASSUME NEW P, NEW l \in LinksOf(P), Ordered(l), NEW cause \in Nat \union {None},
           NEW payload \in HostPayloads, NEW r \in Sent(l, cause, payload)
    PROVE  /\ r \in LinksOf(P)
           /\ \/ l.connection # "live" /\ r = l
              \/ l.connection = "live" /\ r.connection = "failed" /\ Kept(l, r)
              \/ l.connection = "live" /\ Said(l, r, cause, payload) /\ r.client = "open"
  BY WrittenShape DEF Sent, Ordered

------------------------------------------------------------------------------
(* What is said on a link: the hello, then receipts and answers.              *)

\* Whether a payload may answer a command.
Answers(p, command) ==
    \/ p.kind = "host_ready" /\ command.kind = "initialize_actor_host"
    \/ /\ p.kind \in {"session_report", "invocation_result"}
       /\ command.kind = "start_invocation" /\ command.inv.id = p.id
    \/ p.kind = "host_fault" /\ p.id = None /\ command.kind = "initialize_actor_host"
    \/ /\ p.kind = "host_fault" /\ p.id # None
       /\ \/ command.kind = "start_invocation" /\ command.inv.id = p.id
          \/ command.kind = "stop_invocation" /\ command.id = p.id

\* The command n was acknowledged in the first i messages.
Acknowledges(x, n) == x.payload.kind = "ack" /\ x.payload.acknowledged = n
AckedBy(l, n, i) == \E j \in 1..i : Acknowledges(l.toServer[j], n)

\* The i-th message is numbered i - 1, and is the hello, the receipt of a command
\* later than those acknowledged before, or an answer to an acknowledged command.
MessageOK(l, i) ==
    LET x == l.toServer[i] IN
    /\ x.seq = i - 1
    /\ \/ i = 1 /\ x.cause = None /\ x.payload = Hello
       \/ /\ i > 1 /\ x.cause \in 0..(Len(l.received) - 1)
          /\ \/ /\ Acknowledges(x, x.cause)
                /\ l.received[x.cause + 1].kind # "ack"
                /\ \A j \in 1..(i - 1) :
                     l.toServer[j].payload.kind = "ack" => l.toServer[j].cause < x.cause
             \/ /\ Answers(x.payload, l.received[x.cause + 1])
                /\ AckedBy(l, x.cause, i - 1)

LinkInv(l) ==
    /\ \A i \in 1..Len(l.toServer) : MessageOK(l, i)
    /\ l.connection = "not_started" => l.toServer = <<>>
    /\ l.connection = "live" => l.toServer # <<>>
    /\ l.connection # "failed" => l.nextOutbound = Len(l.toServer)
    /\ Ordered(l)

\* What may be said next.
MaySay(l, cause, payload) ==
    \/ l.toServer = <<>> /\ cause = None /\ payload = Hello
    \/ /\ l.toServer # <<>> /\ cause \in 0..(Len(l.received) - 1)
       /\ \/ /\ payload.kind = "ack" /\ payload.acknowledged = cause
             /\ l.received[cause + 1].kind # "ack"
             /\ \A j \in 1..Len(l.toServer) :
                  l.toServer[j].payload.kind = "ack" => l.toServer[j].cause < cause
          \/ /\ Answers(payload, l.received[cause + 1])
             /\ AckedBy(l, cause, Len(l.toServer))

\* A link never forgets what it received and sent.
Grew(l, r) ==
    /\ Len(l.toServer) <= Len(r.toServer) /\ Len(l.received) <= Len(r.received)
    /\ \A j \in 1..Len(l.toServer) : r.toServer[j] = l.toServer[j]
    /\ \A j \in 1..Len(l.received) : r.received[j] = l.received[j]

LEMMA KeptInv ==
    ASSUME NEW P, NEW l \in LinksOf(P), NEW r \in LinksOf(P), LinkInv(l), Kept(l, r)
    PROVE  LinkInv(r) /\ Grew(l, r)
<1>1. r.toServer = l.toServer /\ r.received = l.received
  BY DEF Kept
<1>2. \A i \in 1..Len(r.toServer) : MessageOK(r, i)
  BY <1>1 DEF LinkInv, MessageOK, AckedBy
<1>3. Grew(l, r)
  BY <1>1 DEF Grew, LinksOf
<1> QED BY <1>1, <1>2, <1>3 DEF LinkInv, Kept

LEMMA GrewTwice ==
    ASSUME NEW P, NEW l \in LinksOf(P), NEW q \in LinksOf(P), NEW r \in LinksOf(P),
           Grew(l, q), Grew(q, r)
    PROVE  Grew(l, r)
<1>1. /\ Len(l.toServer) \in Nat /\ Len(q.toServer) \in Nat /\ Len(r.toServer) \in Nat
      /\ Len(l.received) \in Nat /\ Len(q.received) \in Nat /\ Len(r.received) \in Nat
  BY DEF LinksOf
<1> QED BY <1>1 DEF Grew

\* A message keeps its place when the link grows.
LEMMA MessageStays ==
    ASSUME NEW P, NEW l \in LinksOf(P), NEW r \in LinksOf(P), Grew(l, r),
           NEW i \in 1..Len(l.toServer), MessageOK(l, i)
    PROVE  MessageOK(r, i)
<1> DEFINE x == l.toServer[i]
<1>1. \A c \in 0..(Len(l.received) - 1) :
        /\ c \in 0..(Len(r.received) - 1)
        /\ r.received[c + 1] = l.received[c + 1]
  <2>1. Len(l.received) \in Nat /\ Len(r.received) \in Nat
    BY DEF LinksOf
  <2>2. \A c \in 0..(Len(l.received) - 1) : c + 1 \in 1..Len(l.received)
    BY <2>1
  <2> QED BY <2>1, <2>2 DEF Grew
<1>2. \A j \in 1..(i - 1) : r.toServer[j] = l.toServer[j]
  BY DEF LinksOf, Grew
<1>3. r.toServer[i] = x
  BY DEF Grew
<1>4. \A c : AckedBy(l, c, i - 1) => AckedBy(r, c, i - 1)
  BY <1>2 DEF AckedBy
<1> HIDE DEF x
<1>5. CASE i = 1 /\ x.cause = None /\ x.payload = Hello
  BY <1>3, <1>5 DEF MessageOK, x
<1>6. CASE i > 1 /\ x.cause \in 0..(Len(l.received) - 1)
  BY <1>1, <1>2, <1>3, <1>4, <1>6 DEF MessageOK, x
<1> QED BY <1>5, <1>6 DEF MessageOK, x

LEMMA SaidInv ==
    ASSUME NEW P, NEW l \in LinksOf(P), NEW r \in LinksOf(P), LinkInv(l),
           l.connection # "failed", r.connection # "not_started", Ordered(r),
           NEW cause, NEW payload, MaySay(l, cause, payload),
           r.received = l.received, r.nextOutbound = l.nextOutbound + 1,
           r.toServer = Append(l.toServer,
                               [seq |-> l.nextOutbound, cause |-> cause, payload |-> payload])
    PROVE  LinkInv(r) /\ Grew(l, r)
<1> DEFINE n == Len(l.toServer)
           x == [seq |-> l.nextOutbound, cause |-> cause, payload |-> payload]
<1>1. /\ n \in Nat /\ Len(r.toServer) = n + 1 /\ l.nextOutbound = n
      /\ \A j \in 1..n : r.toServer[j] = l.toServer[j]
      /\ r.toServer[n + 1] = x
  BY DEF LinksOf, LinkInv
<1>0. Grew(l, r)
  BY <1>1 DEF LinksOf, Grew
<1>2. \A i \in 1..n : MessageOK(r, i)
  BY <1>0, MessageStays DEF LinkInv
<1>3. x.seq = n /\ x.cause = cause /\ x.payload = payload
  BY <1>1
<1>4. (l.toServer = <<>>) <=> (n = 0)
  BY DEF LinksOf
<1>5. \A c : AckedBy(l, c, n) => AckedBy(r, c, n)
  BY <1>1 DEF AckedBy
<1> HIDE DEF n, x
<1>6. MessageOK(r, n + 1)
  <2>1. CASE l.toServer = <<>> /\ cause = None /\ payload = Hello
    BY <1>1, <1>3, <1>4, <2>1 DEF MessageOK
  <2>2. CASE /\ l.toServer # <<>> /\ cause \in 0..(Len(l.received) - 1)
             /\ \/ /\ payload.kind = "ack" /\ payload.acknowledged = cause
                   /\ l.received[cause + 1].kind # "ack"
                   /\ \A j \in 1..n : l.toServer[j].payload.kind = "ack" => l.toServer[j].cause < cause
                \/ /\ Answers(payload, l.received[cause + 1])
                   /\ AckedBy(l, cause, n)
    <3>1. n + 1 > 1 /\ n + 1 - 1 = n
      BY <1>1, <1>4, <2>2
    <3>2. \A j \in 1..n : r.toServer[j] = l.toServer[j]
      BY <1>1
    <3> QED BY <1>1, <1>3, <1>5, <2>2, <3>1, <3>2 DEF MessageOK, Acknowledges
  <2> QED BY <2>1, <2>2 DEF MaySay, n
<1>7. \A i \in 1..Len(r.toServer) : MessageOK(r, i)
  BY <1>1, <1>2, <1>6
<1>8. r.toServer # <<>> /\ r.nextOutbound = Len(r.toServer)
  BY <1>1 DEF LinksOf
<1> QED BY <1>0, <1>7, <1>8 DEF LinkInv

\* A command that was received and acknowledged: it may be answered.
Answerable(l, n) ==
    /\ n \in 0..(Len(l.received) - 1)
    /\ l.received[n + 1].kind # "ack"
    /\ AckedBy(l, n, Len(l.toServer))

LEMMA AnswerableStays ==
    ASSUME NEW P, NEW l \in LinksOf(P), NEW r \in LinksOf(P), Grew(l, r), NEW n, Answerable(l, n)
    PROVE  Answerable(r, n) /\ r.received[n + 1] = l.received[n + 1]
<1>1. /\ Len(l.received) \in Nat /\ Len(r.received) \in Nat
      /\ Len(l.toServer) \in Nat /\ Len(r.toServer) \in Nat
  BY DEF LinksOf
<1>2. n \in 0..(Len(r.received) - 1) /\ r.received[n + 1] = l.received[n + 1]
  BY <1>1 DEF Answerable, Grew
<1>3. AckedBy(r, n, Len(r.toServer))
  BY <1>1 DEF Answerable, Grew, AckedBy
<1> QED BY <1>2, <1>3 DEF Answerable

\* Sending an answer to it.
LEMMA AnswerInv ==
    ASSUME NEW P, NEW l \in LinksOf(P), LinkInv(l), NEW n, Answerable(l, n),
           NEW payload \in HostPayloads, Answers(payload, l.received[n + 1]),
           NEW r \in Sent(l, n, payload)
    PROVE  r \in LinksOf(P) /\ LinkInv(r) /\ Grew(l, r)
<1>1. n \in Nat /\ Ordered(l)
  BY DEF Answerable, LinksOf, LinkInv
<1>2. /\ r \in LinksOf(P)
      /\ \/ l.connection # "live" /\ r = l
         \/ l.connection = "live" /\ r.connection = "failed" /\ Kept(l, r)
         \/ l.connection = "live" /\ Said(l, r, n, payload) /\ r.client = "open"
  BY <1>1, SentShape
<1>3. CASE r = l
  BY <1>3 DEF Grew, LinksOf
<1>4. CASE Kept(l, r)
  BY <1>2, <1>4, KeptInv
<1>5. CASE l.connection = "live" /\ Said(l, r, n, payload)
  <2>1. MaySay(l, n, payload)
    BY <1>5 DEF MaySay, Answerable, LinkInv
  <2> QED BY <1>2, <1>5, <2>1, SaidInv DEF Said, Ordered, LinkInv
<1> QED BY <1>2, <1>3, <1>4, <1>5

------------------------------------------------------------------------------
(* What is received on a link.                                                *)

ServerMessagesOf(P) == [generation: Nat, seq: Nat, payload: P]

LEMMA ConsumedShape ==
    ASSUME NEW P, HostTyped(P), NEW k \in Clients, NEW m \in ServerMessagesOf(P),
           LinkInv(link[k]), Accepts(k, m)
    PROVE  LET q == Consumed(k, m) IN
           /\ q \in LinksOf(P) /\ LinkInv(q) /\ Grew(link[k], q)
           /\ q.received = Append(link[k].received, m.payload)
           /\ q.toServer = link[k].toServer /\ q.connection = "live"
           /\ Len(link[k].received) = m.seq /\ Len(q.received) = m.seq + 1
           /\ q.received[m.seq + 1] = m.payload
<1> DEFINE l == link[k]
           q == Consumed(k, m)
<1>1. /\ l \in LinksOf(P) /\ l.connection = "live" /\ l.client = "open"
      /\ m.seq = Len(l.received) /\ m.payload \in P
  BY DEF HostTyped, Accepts, Expected, NextInbound, ServerMessagesOf
<1>0. Append(l.received, m.payload) \in Seq(P)
  BY <1>1 DEF LinksOf
<1>2. /\ q \in LinksOf(P) /\ q.received = Append(l.received, m.payload)
      /\ q.toServer = l.toServer /\ q.connection = "live" /\ q.nextOutbound = l.nextOutbound
      /\ q.client = "open"
  <2>1. q = [l EXCEPT !.received = Append(l.received, m.payload)]
    BY DEF Consumed
  <2> HIDE DEF l, q
  <2> QED BY <1>0, <1>1, <2>1 DEF LinksOf
<1> HIDE DEF l, q
<1>3. Grew(l, q) /\ Len(q.received) = m.seq + 1 /\ q.received[m.seq + 1] = m.payload
  BY <1>1, <1>2 DEF Grew, LinksOf
<1>4. LinkInv(q)
  <2>1. LinkInv(l)
    BY DEF l
  <2>2. \A i \in 1..Len(q.toServer) : MessageOK(q, i)
    BY <1>1, <1>2, <1>3, <2>1, MessageStays DEF LinkInv
  <2> QED BY <1>1, <1>2, <2>1, <2>2 DEF LinkInv, Ordered
<1> QED BY <1>1, <1>2, <1>3, <1>4 DEF l, q

\* The receipt of a command.
LEMMA ReceiptInv ==
    ASSUME NEW P, HostTyped(P), NEW k \in Clients, NEW m \in ServerMessagesOf(P),
           LinkInv(link[k]), Accepts(k, m), IsCommand(m),
           NEW r \in Sent(Consumed(k, m), m.seq, Ack(m))
    PROVE  /\ r \in LinksOf(P) /\ LinkInv(r) /\ Grew(link[k], r)
           /\ r.received = Append(link[k].received, m.payload)
           /\ Len(link[k].received) = m.seq /\ r.received[m.seq + 1] = m.payload
           /\ \/ r.connection = "failed" /\ r.toServer = link[k].toServer
              \/ /\ r.connection = "live" /\ r.client = "open"
                 /\ Answerable(r, m.seq)
                 /\ r.toServer = Append(link[k].toServer,
                                   [ seq |-> Consumed(k, m).nextOutbound, cause |-> m.seq,
                                     payload |-> Ack(m) ])
<1> DEFINE l == link[k]
           q == Consumed(k, m)
<1>1. /\ q \in LinksOf(P) /\ LinkInv(q) /\ Grew(l, q)
      /\ q.received = Append(l.received, m.payload)
      /\ q.toServer = l.toServer /\ q.connection = "live"
      /\ Len(l.received) = m.seq /\ Len(q.received) = m.seq + 1
      /\ q.received[m.seq + 1] = m.payload
  BY ConsumedShape
<1>2. l \in LinksOf(P) /\ m.seq \in Nat /\ Ack(m) \in HostPayloads /\ m.payload.kind # "ack"
  BY PayloadTypes DEF HostTyped, ServerMessagesOf, IsCommand
<1>3. LinkInv(l)
  OBVIOUS
<1>4. r \in Sent(q, m.seq, Ack(m))
  OBVIOUS
<1> HIDE DEF l, q
<1>5. /\ r \in LinksOf(P)
      /\ \/ r.connection = "failed" /\ Kept(q, r)
         \/ Said(q, r, m.seq, Ack(m)) /\ r.client = "open"
  BY <1>1, <1>2, <1>4, SentShape DEF LinkInv
<1>6. CASE r.connection = "failed" /\ Kept(q, r)
  <2>1. LinkInv(r) /\ Grew(q, r) /\ r.received = q.received /\ r.toServer = q.toServer
    BY <1>1, <1>5, <1>6, KeptInv DEF Kept
  <2>2. Grew(l, r)
    BY <1>1, <1>2, <1>5, <2>1, GrewTwice
  <2> QED BY <1>1, <1>5, <1>6, <2>1, <2>2 DEF l
<1>7. CASE Said(q, r, m.seq, Ack(m)) /\ r.client = "open"
  <2>1. MaySay(q, m.seq, Ack(m))
    <3>1. \A j \in 1..Len(q.toServer) :
             q.toServer[j].payload.kind = "ack" => q.toServer[j].cause < m.seq
      <4> SUFFICES ASSUME NEW j \in 1..Len(q.toServer), q.toServer[j].payload.kind = "ack"
                   PROVE  q.toServer[j].cause < m.seq
        OBVIOUS
      <4>1. MessageOK(l, j)
        BY <1>1, <1>3 DEF LinkInv
      <4>2. l.toServer[j].cause \in 0..(Len(l.received) - 1)
        BY <1>1, <4>1 DEF MessageOK, Hello
      <4> QED BY <1>1, <1>2, <4>2
    <3> QED BY <1>1, <1>2, <3>1 DEF MaySay, Ack, LinkInv
  <2>2. LinkInv(r) /\ Grew(q, r)
    BY <1>1, <1>5, <1>7, <2>1, SaidInv DEF Said, Ordered
  <2>3. Grew(l, r)
    BY <1>1, <1>2, <1>5, <2>2, GrewTwice
  <2>4. Answerable(r, m.seq)
    <3>1. /\ r.toServer[Len(r.toServer)].payload = Ack(m)
          /\ Len(r.toServer) \in 1..Len(r.toServer)
      BY <1>1, <1>7 DEF Said, LinksOf
    <3>2. AckedBy(r, m.seq, Len(r.toServer))
      BY <3>1 DEF AckedBy, Acknowledges, Ack
    <3> QED BY <1>1, <1>2, <1>7, <3>2 DEF Answerable, Said
  <2> QED BY <1>1, <1>5, <1>7, <2>2, <2>3, <2>4 DEF Said, l, q
<1> QED BY <1>5, <1>6, <1>7

------------------------------------------------------------------------------
(* How a step changes a link.                                                 *)

\* Nothing but receipts is said of the commands that were received before.
SaysNothingNew(l, r) ==
    \A i \in (Len(l.toServer) + 1)..Len(r.toServer) :
        r.toServer[i].cause \in 0..(Len(l.received) - 1) => r.toServer[i].payload.kind = "ack"

LinkStep(P, l, r) ==
    r \in LinksOf(P) /\ LinkInv(r) /\ Grew(l, r) /\ SaysNothingNew(l, r)

LEMMA KeptStep ==
    ASSUME NEW P, NEW l \in LinksOf(P), NEW r \in LinksOf(P), LinkInv(l), Kept(l, r)
    PROVE  LinkStep(P, l, r)
<1>1. LinkInv(r) /\ Grew(l, r) /\ r.toServer = l.toServer
  BY KeptInv DEF Kept
<1>2. Len(l.toServer) \in Nat
  BY DEF LinksOf
<1> QED BY <1>1, <1>2 DEF LinkStep, SaysNothingNew

LEMMA ClientFailedStep ==
    ASSUME NEW P, NEW l \in LinksOf(P), NEW q, LinkStep(P, l, q)
    PROVE  LinkStep(P, l, ClientFailed(q))
<1> DEFINE r == ClientFailed(q)
<1>1. q \in LinksOf(P) /\ LinkInv(q) /\ Grew(l, q)
  BY DEF LinkStep
<1>2. r \in LinksOf(P) /\ Kept(q, r)
  BY <1>1, ClientFailedShape DEF LinkInv
<1> HIDE DEF r
<1>3. LinkInv(r) /\ Grew(q, r) /\ r.toServer = q.toServer
  BY <1>1, <1>2, KeptInv DEF Kept
<1>4. Grew(l, r)
  BY <1>1, <1>2, <1>3, GrewTwice
<1>5. SaysNothingNew(l, r)
  BY <1>3 DEF SaysNothingNew, LinkStep
<1> QED BY <1>2, <1>3, <1>4, <1>5 DEF LinkStep, r

\* The socket opens.
LEMMA OpensStep ==
    ASSUME NEW P, NEW l \in LinksOf(P), LinkInv(l), l.connection = "not_started",
           NEW q \in Written([l EXCEPT !.client = "open"], None, Hello),
           NEW r, r = IF q.connection = "failed" THEN ClientFailed(q)
                      ELSE [q EXCEPT !.connection = "live"]
    PROVE  LinkStep(P, l, r)
<1> DEFINE o == [l EXCEPT !.client = "open"]
<1>1. /\ o \in LinksOf(P) /\ o.received = l.received /\ o.toServer = l.toServer
      /\ o.connection = l.connection /\ o.nextOutbound = l.nextOutbound
      /\ o.client = "open"
  BY DEF LinksOf
<1>2. Hello \in HostPayloads
  BY PayloadTypes
<1>3. q \in Written(o, None, Hello)
  OBVIOUS
<1> HIDE DEF o
<1>4. /\ q \in LinksOf(P)
      /\ (q.connection = "failed" /\ Kept(o, q)) \/ (Said(o, q, None, Hello) /\ q.client = "open")
  BY <1>1, <1>2, <1>3, WrittenShape
<1>5. CASE q.connection = "failed" /\ Kept(o, q)
  <2>1. Kept(l, q)
    BY <1>1, <1>5 DEF Kept
  <2> QED BY <1>4, <1>5, <2>1, KeptStep, ClientFailedStep
<1>6. CASE q.connection # "failed" /\ Said(o, q, None, Hello) /\ q.client = "open"
  <2>1. /\ r \in LinksOf(P) /\ r.received = q.received /\ r.toServer = q.toServer
        /\ r.connection = "live" /\ r.nextOutbound = q.nextOutbound /\ r.client = "open"
    BY <1>4, <1>6 DEF LinksOf
  <2>2. /\ r.received = l.received /\ r.nextOutbound = l.nextOutbound + 1
        /\ r.toServer = Append(l.toServer,
                               [seq |-> l.nextOutbound, cause |-> None, payload |-> Hello])
    BY <1>1, <1>6, <2>1 DEF Said
  <2>3. l.toServer = <<>> /\ MaySay(l, None, Hello)
    BY DEF LinkInv, MaySay
  <2>4. LinkInv(r) /\ Grew(l, r)
    BY <2>1, <2>2, <2>3, SaidInv DEF Ordered
  <2>5. SaysNothingNew(l, r)
    BY <2>2, <2>3, NoneAssumption DEF SaysNothingNew, LinksOf
  <2> QED BY <2>1, <2>4, <2>5 DEF LinkStep
<1> QED BY <1>1, <1>4, <1>5, <1>6 DEF Said

\* A message that is not a command arrives.
LEMMA ConsumedStep ==
    ASSUME NEW P, HostTyped(P), NEW k \in Clients, NEW m \in ServerMessagesOf(P),
           LinkInv(link[k]), Accepts(k, m)
    PROVE  LinkStep(P, link[k], Consumed(k, m))
<1> DEFINE q == Consumed(k, m)
<1>1. /\ q \in LinksOf(P) /\ LinkInv(q) /\ Grew(link[k], q) /\ q.toServer = link[k].toServer
  BY ConsumedShape
<1>2. Len(link[k].toServer) \in Nat
  BY DEF HostTyped, LinksOf
<1> HIDE DEF q
<1>3. SaysNothingNew(link[k], q)
  BY <1>1, <1>2 DEF SaysNothingNew
<1> QED BY <1>1, <1>3 DEF LinkStep, q

\* A command arrives, and its receipt is written or not.
LEMMA ReceiptStep ==
    ASSUME NEW P, HostTyped(P), NEW k \in Clients, NEW m \in ServerMessagesOf(P),
           LinkInv(link[k]), Accepts(k, m), IsCommand(m),
           NEW r \in Sent(Consumed(k, m), m.seq, Ack(m))
    PROVE  /\ LinkStep(P, link[k], r)
           /\ Len(r.received) = m.seq + 1 /\ r.received[m.seq + 1] = m.payload
           /\ Len(link[k].received) = m.seq
           /\ r.connection = "live" => Answerable(r, m.seq)
           /\ \A i \in (Len(link[k].toServer) + 1)..Len(r.toServer) :
                r.toServer[i].payload.kind = "ack"
<1> DEFINE l == link[k]
<1>1. /\ r \in LinksOf(P) /\ LinkInv(r) /\ Grew(l, r)
      /\ r.received = Append(l.received, m.payload)
      /\ Len(l.received) = m.seq /\ r.received[m.seq + 1] = m.payload
      /\ \/ r.connection = "failed" /\ r.toServer = l.toServer
         \/ /\ r.connection = "live" /\ r.client = "open"
            /\ Answerable(r, m.seq)
            /\ r.toServer = Append(l.toServer,
                              [ seq |-> Consumed(k, m).nextOutbound, cause |-> m.seq,
                                payload |-> Ack(m) ])
  BY ReceiptInv
<1>2. l \in LinksOf(P)
  BY DEF HostTyped
<1> HIDE DEF l
<1>3. Len(r.received) = m.seq + 1
  BY <1>1, <1>2 DEF LinksOf
<1>4. \A i \in (Len(l.toServer) + 1)..Len(r.toServer) : r.toServer[i].payload.kind = "ack"
  BY <1>1, <1>2 DEF LinksOf, Ack
<1> QED BY <1>1, <1>3, <1>4 DEF LinkStep, SaysNothingNew, l

\* A command is answered at once.
LEMMA AnswerStep ==
    ASSUME NEW P, HostTyped(P), NEW k \in Clients, NEW m \in ServerMessagesOf(P),
           LinkInv(link[k]), Accepts(k, m), IsCommand(m),
           NEW q \in Acknowledged(k, m),
           NEW payload \in HostPayloads, Answers(payload, m.payload),
           NEW r \in Sent(q, m.seq, payload)
    PROVE  LinkStep(P, link[k], r)
<1> DEFINE l == link[k]
<1>1. /\ q \in Sent(Consumed(k, m), m.seq, Ack(m)) /\ q.connection = "live"
  BY DEF Acknowledged
<1>2. /\ LinkStep(P, l, q)
      /\ q.received[m.seq + 1] = m.payload /\ Len(l.received) = m.seq
      /\ Answerable(q, m.seq)
  BY <1>1, ReceiptStep
<1>3. l \in LinksOf(P) /\ m.seq \in Nat
  BY DEF HostTyped, ServerMessagesOf
<1> HIDE DEF l
<1>4. q \in LinksOf(P) /\ LinkInv(q) /\ Grew(l, q)
  BY <1>2 DEF LinkStep
<1>5. r \in LinksOf(P) /\ LinkInv(r) /\ Grew(q, r)
  BY <1>2, <1>4, AnswerInv
<1>6. Grew(l, r)
  BY <1>3, <1>4, <1>5, GrewTwice
<1>7. SaysNothingNew(l, r)
  <2>1. \/ r.toServer = q.toServer
        \/ \E x : /\ r.toServer = Append(q.toServer, x)
                  /\ x.cause = m.seq
    <3>1. \/ r = q \/ Kept(q, r) \/ Said(q, r, m.seq, payload)
      BY <1>3, <1>4, SentShape DEF LinkInv
    <3>2. [seq |-> q.nextOutbound, cause |-> m.seq, payload |-> payload].cause = m.seq
      OBVIOUS
    <3> QED BY <3>1, <3>2 DEF Said, Kept
  <2>2. ASSUME NEW i \in (Len(l.toServer) + 1)..Len(r.toServer),
               r.toServer[i].cause \in 0..(Len(l.received) - 1)
        PROVE  r.toServer[i].payload.kind = "ack"
    <3>1. CASE i \in 1..Len(q.toServer)
      <4>1. r.toServer[i] = q.toServer[i]
        BY <1>5, <3>1 DEF Grew
      <4>2. i \in (Len(l.toServer) + 1)..Len(q.toServer)
        BY <1>3, <1>4, <2>2, <3>1 DEF LinksOf
      <4> QED BY <1>2, <2>2, <4>1, <4>2 DEF LinkStep, SaysNothingNew
    <3>2. CASE i \notin 1..Len(q.toServer)
      <4>1. Len(q.toServer) \in Nat /\ Len(l.toServer) \in Nat
        BY <1>3, <1>4 DEF LinksOf
      <4>2. PICK x : r.toServer = Append(q.toServer, x) /\ x.cause = m.seq
        BY <2>1, <2>2, <3>2, <4>1
      <4>3. i = Len(q.toServer) + 1 /\ r.toServer[i] = x
        BY <1>4, <2>2, <3>2, <4>1, <4>2 DEF LinksOf
      <4> QED BY <1>2, <1>3, <2>2, <4>2, <4>3
    <3> QED BY <3>1, <3>2
  <2> QED BY <2>2 DEF SaysNothingNew
<1> QED BY <1>5, <1>6, <1>7 DEF LinkStep, l

------------------------------------------------------------------------------
(* What an execution keeps: its invocation, a session that was observed, its  *)
(* outcome, and what a result was made of.                                    *)

Later(x, y) ==
    /\ y.inv = x.inv
    /\ x.session \in Sessions => y.session = x.session
    /\ x.outcome # "none" => y.outcome = x.outcome
    /\ x.outcome = "result" => y.session = x.session /\ y.value = x.value

ExecutionsStay ==
    /\ Len(execs) <= Len(execs')
    /\ \A d \in 1..Len(execs) : Later(execs[d], execs'[d])

LEMMA ExecutionTyped ==
    ASSUME Supervisor!TypeOK, NEW e \in 1..Len(execs)
    PROVE  /\ execs[e] \in Supervisor!Executions
           /\ execs[e].inv \in Supervisor!Invocations
           /\ execs[e].inv.id \in InvocationIds
           /\ execs[e].session \in Supervisor!SessionValues \union {"pending", "rejected"}
  BY DEF Supervisor!TypeOK, Supervisor!Executions, Supervisor!Invocations

\* One execution changes to a later one.
LEMMA UpdateStays ==
    ASSUME Supervisor!TypeOK, NEW e \in 1..Len(execs), NEW x, Later(execs[e], x),
           execs' = [execs EXCEPT ![e] = x]
    PROVE  ExecutionsStay /\ Len(execs') = Len(execs) /\ execs'[e] = x
<1>1. Len(execs') = Len(execs) /\ Len(execs) \in Nat
  BY DEF Supervisor!TypeOK
<1>2. \A d \in 1..Len(execs) : execs'[d] = IF d = e THEN x ELSE execs[d]
  BY DEF Supervisor!TypeOK
<1> QED BY <1>1, <1>2 DEF ExecutionsStay, Later

LEMMA FailStays ==
    ASSUME Supervisor!TypeOK, NEW e \in 1..Len(execs), NEW x \in Supervisor!Executions,
           Later(execs[e], x), Supervisor!Fail(e, x)
    PROVE  /\ ExecutionsStay /\ Len(execs') = Len(execs)
           /\ Supervisor!IsActive(e) => execs'[e].outcome = "failure"
<1>1. CASE Supervisor!IsActive(e)
  <2> DEFINE y == [x EXCEPT !.completionSettled = TRUE, !.outcome = "failure"]
  <2>1. execs' = [execs EXCEPT ![e] = y] /\ execs[e].outcome = "none"
    BY <1>1 DEF Supervisor!Fail, Supervisor!IsActive
  <2>2. y.inv = x.inv /\ y.session = x.session /\ y.outcome = "failure"
    BY DEF Supervisor!Executions
  <2> HIDE DEF y
  <2>3. Later(execs[e], y)
    BY <2>1, <2>2 DEF Later
  <2> QED BY <2>1, <2>2, <2>3, UpdateStays
<1>2. CASE ~Supervisor!IsActive(e)
  BY <1>2, UpdateStays DEF Supervisor!Fail
<1> QED BY <1>1, <1>2

\* The reactions of the supervisor, one by one.
LEMMA SessionResolvesStays ==
    ASSUME SupervisorOK, NEW e \in 1..Len(execs), NEW s \in Supervisor!SessionValues,
           Supervisor!SessionResolves(e, s)
    PROVE  /\ ExecutionsStay /\ Len(execs') = Len(execs)
           /\ execs'[e].session = s /\ execs'[e].inv = execs[e].inv
           /\ execs[e].session = "pending"
           /\ execs'[e].outcome = execs[e].outcome
<1> DEFINE x == [execs[e] EXCEPT !.session = s]
<1>1. execs[e].session = "pending" /\ execs' = [execs EXCEPT ![e] = x]
  BY DEF Supervisor!SessionResolves, SupervisorOK, Supervisor!TypeOK
<1>2. /\ x.inv = execs[e].inv /\ x.session = s /\ x.outcome = execs[e].outcome
      /\ x.value = execs[e].value
  BY ExecutionTyped DEF SupervisorOK, Supervisor!Executions
<1>3. "pending" \notin Sessions
  BY SupervisorAssumption
<1>4. execs[e].outcome # "result"
  BY <1>1, SupervisorAssumption DEF SupervisorOK, SupervisorFacts!SupervisorInv,
     SupervisorFacts!OutcomesObserved, SupervisorFacts!OutcomeObserved,
     SupervisorFacts!SessionValues
<1> HIDE DEF x
<1>5. Later(execs[e], x)
  BY <1>1, <1>2, <1>3, <1>4 DEF Later
<1> QED BY <1>1, <1>2, <1>5, UpdateStays DEF SupervisorOK

LEMMA RejectionStays ==
    ASSUME SupervisorOK, NEW e \in 1..Len(execs),
           \/ Supervisor!SessionRejects(e)
           \/ Supervisor!CompletionRejects(e)
           \/ Supervisor!StopRejects(e)
    PROVE  /\ ExecutionsStay /\ Len(execs') = Len(execs)
           /\ Supervisor!IsActive(e) => execs'[e].outcome = "failure"
<1>0. execs[e] \in Supervisor!Executions
  BY ExecutionTyped DEF SupervisorOK
<1>1. CASE Supervisor!SessionRejects(e)
  <2> DEFINE x == [execs[e] EXCEPT !.session = "rejected"]
  <2>1. execs[e].session = "pending" /\ Supervisor!Fail(e, x)
    BY <1>1 DEF Supervisor!SessionRejects
  <2>2. /\ x \in Supervisor!Executions /\ x.inv = execs[e].inv
        /\ x.outcome = execs[e].outcome
    BY <1>0 DEF Supervisor!Executions
  <2>3. "pending" \notin Sessions /\ execs[e].outcome # "result"
    BY <2>1, SupervisorAssumption DEF SupervisorOK, SupervisorFacts!SupervisorInv,
       SupervisorFacts!OutcomesObserved, SupervisorFacts!OutcomeObserved,
       SupervisorFacts!SessionValues
  <2> HIDE DEF x
  <2>4. Later(execs[e], x)
    BY <2>1, <2>2, <2>3 DEF Later
  <2> QED BY <2>1, <2>2, <2>4, FailStays DEF SupervisorOK
<1>2. CASE Supervisor!CompletionRejects(e)
  <2> DEFINE x == [execs[e] EXCEPT !.completion = "rejected", !.completionSettled = TRUE]
  <2>1. execs[e].completion = "pending" /\ Supervisor!Fail(e, x)
    BY <1>2 DEF Supervisor!CompletionRejects
  <2>2. /\ x \in Supervisor!Executions /\ x.inv = execs[e].inv
        /\ x.outcome = execs[e].outcome /\ x.session = execs[e].session
        /\ x.value = execs[e].value
    BY <1>0, <2>1 DEF Supervisor!Executions
  <2> HIDE DEF x
  <2>4. Later(execs[e], x)
    BY <2>1, <2>2 DEF Later
  <2> QED BY <2>1, <2>2, <2>4, FailStays DEF SupervisorOK
<1>3. CASE Supervisor!StopRejects(e)
  <2> DEFINE x == [execs[e] EXCEPT !.stop = "rejected"]
  <2>1. Supervisor!Fail(e, x)
    BY <1>3 DEF Supervisor!StopRejects
  <2>2. /\ x \in Supervisor!Executions /\ x.inv = execs[e].inv
        /\ x.outcome = execs[e].outcome /\ x.session = execs[e].session
        /\ x.value = execs[e].value
    BY <1>0 DEF Supervisor!Executions
  <2> HIDE DEF x
  <2>4. Later(execs[e], x)
    BY <2>1, <2>2 DEF Later
  <2> QED BY <2>1, <2>2, <2>4, FailStays DEF SupervisorOK
<1> QED BY <1>1, <1>2, <1>3

LEMMA CompletionResolvesStays ==
    ASSUME SupervisorOK, NEW e \in 1..Len(execs), NEW c \in Supervisor!Completions,
           Supervisor!CompletionResolves(e, c)
    PROVE  ExecutionsStay /\ Len(execs') = Len(execs)
<1> DEFINE x == [execs[e] EXCEPT !.completion = "fulfilled", !.value = c,
                                 !.completionSettled = TRUE]
<1>1. execs[e].completion = "pending" /\ execs' = [execs EXCEPT ![e] = x]
  BY DEF Supervisor!CompletionResolves
<1>2. x.inv = execs[e].inv /\ x.session = execs[e].session /\ x.outcome = execs[e].outcome
  BY ExecutionTyped DEF SupervisorOK, Supervisor!Executions
<1>3. execs[e].outcome # "result"
  BY <1>1 DEF SupervisorOK, SupervisorFacts!SupervisorInv,
     SupervisorFacts!OutcomesObserved, SupervisorFacts!OutcomeObserved
<1> HIDE DEF x
<1>4. Later(execs[e], x)
  BY <1>2, <1>3 DEF Later
<1> QED BY <1>1, <1>4, UpdateStays DEF SupervisorOK

LEMMA FinishStays ==
    ASSUME SupervisorOK, NEW e \in 1..Len(execs), Supervisor!Finish(e)
    PROVE  /\ ExecutionsStay /\ Len(execs') = Len(execs)
           /\ execs'[e].outcome = "result" /\ execs[e].outcome = "none"
           /\ execs'[e].inv = execs[e].inv /\ execs'[e].session = execs[e].session
           /\ execs'[e].value = execs[e].value
           /\ execs[e].value \in Supervisor!Completions
<1> DEFINE x == [execs[e] EXCEPT !.outcome = "result"]
<1>1. /\ execs[e].outcome = "none" /\ execs[e].completion = "fulfilled"
      /\ execs' = [execs EXCEPT ![e] = x]
  BY DEF Supervisor!Finish, Supervisor!IsActive, SupervisorOK, Supervisor!TypeOK
<1>2. /\ x.inv = execs[e].inv /\ x.session = execs[e].session
      /\ x.outcome = "result" /\ x.value = execs[e].value
  BY ExecutionTyped DEF SupervisorOK, Supervisor!Executions
<1>3. execs[e].value \in Supervisor!Completions
  BY <1>1, ExecutionTyped DEF SupervisorOK, Supervisor!Executions
<1> HIDE DEF x
<1>4. Later(execs[e], x)
  BY <1>1, <1>2 DEF Later
<1> QED BY <1>1, <1>2, <1>3, <1>4, UpdateStays DEF SupervisorOK

LEMMA StopStays ==
    ASSUME SupervisorOK, NEW id \in InvocationIds,
           Supervisor!Stop(id) \/ Supervisor!StopThrows(id)
    PROVE  /\ ExecutionsStay /\ Len(execs') = Len(execs)
           /\ active \in 1..Len(execs) /\ execs[active].inv.id = id
           /\ execs[active].outcome = "none"
           /\ Supervisor!StopThrows(id) => execs'[active].outcome = "failure"
<1>1. /\ active \in 1..Len(execs) /\ execs[active].inv.id = id
      /\ Supervisor!IsActive(active) /\ execs[active].outcome = "none"
  BY DEF SupervisorOK, Supervisor!TypeOK, Supervisor!Stop, Supervisor!StopThrows,
         Supervisor!StopVerdict, SupervisorFacts!SupervisorInv,
         SupervisorFacts!StateMatchesActive, Supervisor!IsActive
<1>2. execs[active] \in Supervisor!Executions
  BY <1>1, ExecutionTyped DEF SupervisorOK
<1>3. CASE Supervisor!Stop(id)
  <2> DEFINE x == [execs[active] EXCEPT !.stop = "requested"]
  <2>1. execs' = [execs EXCEPT ![active] = x] /\ state' = "stopping" /\ state # "stopping"
    BY <1>1, <1>3 DEF Supervisor!Stop, Supervisor!StopVerdict, SupervisorOK, Supervisor!TypeOK
  <2>2. x.inv = execs[active].inv /\ x.session = execs[active].session
    BY <1>2 DEF Supervisor!Executions
  <2> HIDE DEF x
  <2>3. Later(execs[active], x)
    BY <1>1, <2>2 DEF Later
  <2>4. ExecutionsStay /\ Len(execs') = Len(execs)
    BY <1>1, <2>1, <2>3, UpdateStays DEF SupervisorOK
  <2>5. ~Supervisor!StopThrows(id)
    BY <1>1, <2>1 DEF Supervisor!StopThrows, Supervisor!Fail
  <2> QED BY <1>1, <2>4, <2>5
<1>4. CASE Supervisor!StopThrows(id)
  <2> DEFINE x == [execs[active] EXCEPT !.stop = "rejected"]
  <2>1. Supervisor!Fail(active, x)
    BY <1>4 DEF Supervisor!StopThrows
  <2>2. /\ x \in Supervisor!Executions /\ x.inv = execs[active].inv
        /\ x.session = execs[active].session
    BY <1>2 DEF Supervisor!Executions
  <2> HIDE DEF x
  <2>3. Later(execs[active], x)
    BY <1>1, <2>2 DEF Later
  <2> QED BY <1>1, <2>1, <2>2, <2>3, FailStays DEF SupervisorOK
<1> QED BY <1>3, <1>4

------------------------------------------------------------------------------
(* The inductive invariant.                                                   *)

\* The command that a cause names, and that the host owes it an answer.
Asked(L, c) == L[c.client].received[c.seq + 1]
Owed(L, c) == c \in Causes /\ Answerable(L[c.client], c.seq)

\* Where a link answers the command n.
AnswersIn(l, n) ==
    {i \in 1..Len(l.toServer) : l.toServer[i].cause = n /\ l.toServer[i].payload.kind # "ack"}

LinksInv == \A k \in Clients : LinkInv(link[k])

WaitingInv ==
    \A i \in 1..Len(waiting) :
        Owed(link, waiting[i]) /\ Asked(link, waiting[i]).kind = "initialize_actor_host"

\* An execution is owed to the command that started it, which started no other.
OriginInv ==
    /\ \A e \in 1..Len(execs) :
         /\ Owed(link, origin[e])
         /\ Asked(link, origin[e]).kind = "start_invocation"
         /\ Asked(link, origin[e]).inv = execs[e].inv
    /\ \A d, e \in 1..Len(execs) : origin[d] = origin[e] => d = e

ReactionsInv ==
    \A i \in 1..Len(reactions) :
        /\ Owed(link, reactions[i].cause)
        /\ Answers(reactions[i].payload, Asked(link, reactions[i].cause))

Ends(p) == p.kind = "invocation_result" \/ (p.kind = "host_fault" /\ p.id # None)

\* What may be told of the execution x.
Truthful(x, p) ==
    /\ p.id = x.inv.id
    /\ p.kind = "session_report" => p.session = x.session
    /\ p.kind = "invocation_result" =>
         /\ x.outcome = "result"
         /\ p.fact = x.value.fact
         /\ p.session = IF x.session \in Sessions THEN x.session ELSE x.value.session
    /\ p.kind = "host_fault" => x.outcome = "failure"

Statements(e) == AnswersIn(link[origin[e].client], origin[e].seq)
Told(e, i) == link[origin[e].client].toServer[i].payload

SaidTruthfully ==
    \A e \in 1..Len(execs) : \A i \in Statements(e) :
        /\ Truthful(execs[e], Told(e, i))
        /\ Told(e, i).kind = "session_report" => \A j \in Statements(e) : i <= j
        /\ Ends(Told(e, i)) => \A j \in Statements(e) : j <= i

\* What is queued of an execution: its session before anything else was said of
\* it or is queued, and its end after everything else.
Queued(e) == {i \in 1..Len(reactions) : reactions[i].cause = origin[e]}
QueuedTruthfully ==
    \A e \in 1..Len(execs) : \A i \in Queued(e) :
        /\ Truthful(execs[e], reactions[i].payload)
        /\ reactions[i].payload.kind = "session_report" =>
             Statements(e) = {} /\ \A j \in Queued(e) : i <= j
        /\ Ends(reactions[i].payload) => \A j \in Queued(e) : j <= i
        /\ \A j \in Statements(e) : ~Ends(Told(e, j))

HostInv(P) ==
    /\ HostTyped(P) /\ SupervisorOK
    /\ LinksInv /\ WaitingInv /\ OriginInv /\ ReactionsInv
    /\ SaidTruthfully /\ QueuedTruthfully

------------------------------------------------------------------------------
(* What a step keeps of it.                                                   *)

LinksStep(P) ==
    /\ link' \in [Clients -> LinksOf(P)]
    /\ \A k \in Clients : LinkInv(link'[k]) /\ Grew(link[k], link'[k])

LinksQuiet == \A k \in Clients : SaysNothingNew(link[k], link'[k])

LEMMA OneLinkSteps ==
    ASSUME NEW P, HostTyped(P), LinksInv, NEW k \in Clients, NEW r, LinkStep(P, link[k], r),
           link' = [link EXCEPT ![k] = r]
    PROVE  LinksStep(P) /\ LinksQuiet /\ link'[k] = r
<1>1. link \in [Clients -> LinksOf(P)] /\ r \in LinksOf(P)
  BY DEF HostTyped, LinkStep
<1>2. \A j \in Clients : link'[j] = IF j = k THEN r ELSE link[j]
  BY <1>1
<1>3. \A j \in Clients : Kept(link[j], link[j])
  BY DEF Kept, LinksInv, LinkInv
<1>4. \A j \in Clients : LinkStep(P, link[j], link[j])
  BY <1>1, <1>3, KeptStep DEF LinksInv
<1>5. \A j \in Clients : LinkStep(P, link[j], link'[j])
  BY <1>2, <1>4
<1>6. link' \in [Clients -> LinksOf(P)]
  BY <1>1
<1> QED BY <1>2, <1>5, <1>6 DEF LinksStep, LinksQuiet, LinkStep

LEMMA NoLinkSteps ==
    ASSUME NEW P, HostTyped(P), LinksInv, UNCHANGED link
    PROVE  LinksStep(P) /\ LinksQuiet
<1>1. link \in [Clients -> LinksOf(P)]
  BY DEF HostTyped
<1>2. \A j \in Clients : Kept(link[j], link[j])
  BY DEF Kept, LinksInv, LinkInv
<1>3. \A j \in Clients : LinkStep(P, link[j], link[j])
  BY <1>1, <1>2, KeptStep DEF LinksInv
<1> QED BY <1>1, <1>3 DEF LinksStep, LinksQuiet, LinkStep

LEMMA OwedStays ==
    ASSUME NEW P, HostTyped(P), LinksStep(P), NEW c, Owed(link, c)
    PROVE  Owed(link', c) /\ Asked(link', c) = Asked(link, c)
<1>1. c.client \in Clients /\ Answerable(link[c.client], c.seq)
  BY DEF Owed, Causes
<1>2. /\ link[c.client] \in LinksOf(P) /\ link'[c.client] \in LinksOf(P)
      /\ Grew(link[c.client], link'[c.client])
  BY <1>1 DEF HostTyped, LinksStep
<1>3. PICK l : l = link[c.client]
  OBVIOUS
<1>4. PICK r : r = link'[c.client]
  OBVIOUS
<1>5. Answerable(r, c.seq) /\ r.received[c.seq + 1] = l.received[c.seq + 1]
  BY <1>1, <1>2, <1>3, <1>4, AnswerableStays
<1> QED BY <1>3, <1>4, <1>5 DEF Owed, Asked

LEMMA AnswersStay ==
    ASSUME NEW P, NEW l \in LinksOf(P), NEW r \in LinksOf(P), Grew(l, r),
           SaysNothingNew(l, r), NEW n \in 0..(Len(l.received) - 1)
    PROVE  /\ AnswersIn(r, n) = AnswersIn(l, n)
           /\ \A i \in AnswersIn(l, n) : r.toServer[i] = l.toServer[i]
<1>1. Len(l.toServer) \in Nat /\ Len(r.toServer) \in Nat
  BY DEF LinksOf
<1>2. \A i \in 1..Len(r.toServer) :
        i \in 1..Len(l.toServer) \/ i \in (Len(l.toServer) + 1)..Len(r.toServer)
  BY <1>1
<1>3. \A i \in 1..Len(l.toServer) : i \in 1..Len(r.toServer)
  BY <1>1 DEF Grew
<1>4. \A i \in 1..Len(l.toServer) : r.toServer[i] = l.toServer[i]
  BY DEF Grew
<1> QED BY <1>2, <1>3, <1>4 DEF AnswersIn, SaysNothingNew

LEMMA WaitingStays ==
    ASSUME NEW P, HostInv(P), LinksStep(P), UNCHANGED waiting
    PROVE  WaitingInv'
<1>1. \A c : Owed(link, c) => Owed(link', c) /\ Asked(link', c) = Asked(link, c)
  BY OwedStays DEF HostInv
<1> QED BY <1>1 DEF HostInv, WaitingInv

LEMMA ReactionsStay ==
    ASSUME NEW P, HostInv(P), LinksStep(P), UNCHANGED reactions
    PROVE  ReactionsInv'
<1>1. \A c : Owed(link, c) => Owed(link', c) /\ Asked(link', c) = Asked(link, c)
  BY OwedStays DEF HostInv
<1> QED BY <1>1 DEF HostInv, ReactionsInv

LEMMA OriginsStay ==
    ASSUME NEW P, HostInv(P), LinksStep(P), ExecutionsStay, Len(execs') = Len(execs),
           UNCHANGED origin
    PROVE  OriginInv'
<1>1. \A c : Owed(link, c) => Owed(link', c) /\ Asked(link', c) = Asked(link, c)
  BY OwedStays DEF HostInv
<1>2. \A e \in 1..Len(execs) : execs'[e].inv = execs[e].inv
  BY DEF ExecutionsStay, Later
<1> QED BY <1>1, <1>2 DEF HostInv, OriginInv

\* What was told of an execution stays what became of it.
LEMMA TruthLasts ==
    ASSUME NEW x, NEW y, Later(x, y), NEW p \in HostPayloads, Truthful(x, p),
           p.kind \in {"session_report", "invocation_result", "host_fault"}
    PROVE  Truthful(y, p)
<1>1. CASE p.kind = "session_report"
  <2>1. p.session \in Sessions
    BY <1>1 DEF HostPayloads
  <2> QED BY <1>1, <2>1 DEF Later, Truthful
<1>2. CASE p.kind = "invocation_result"
  BY <1>2 DEF Later, Truthful
<1>3. CASE p.kind = "host_fault"
  BY <1>3 DEF Later, Truthful
<1> QED BY <1>1, <1>2, <1>3

\* An answer that was sent is one to the command it names.
LEMMA AnswersAreTyped ==
    ASSUME NEW P, HostTyped(P), LinksInv, NEW k \in Clients, NEW n \in Nat,
           NEW i \in AnswersIn(link[k], n)
    PROVE  /\ link[k].toServer[i].payload \in HostPayloads
           /\ Answers(link[k].toServer[i].payload, link[k].received[n + 1])
<1> DEFINE l == link[k]
           x == l.toServer[i]
<1>1. i \in 1..Len(l.toServer) /\ x.cause = n /\ x.payload.kind # "ack"
  BY DEF AnswersIn
<1>2. MessageOK(l, i)
  BY <1>1 DEF LinksInv, LinkInv
<1>3. x \in Envelopes
  BY <1>1 DEF HostTyped, LinksOf
<1>4. x.payload \in HostPayloads
  BY <1>3 DEF Envelopes
<1> HIDE DEF l
<1>5. Answers(x.payload, l.received[x.cause + 1])
  BY <1>1, <1>2, NoneAssumption DEF MessageOK, Acknowledges
<1> QED BY <1>1, <1>4, <1>5 DEF l

\* What was told of an execution is a report, a result or a fault.
LEMMA StatementsAreTyped ==
    ASSUME NEW P, HostInv(P), NEW e \in 1..Len(execs), NEW i \in Statements(e)
    PROVE  /\ Told(e, i) \in HostPayloads /\ i \in Nat
           /\ Told(e, i).kind \in {"session_report", "invocation_result", "host_fault"}
           /\ Told(e, i).kind = "host_fault" => Told(e, i).id # None
<1> DEFINE k == origin[e].client
           n == origin[e].seq
<1>1. Owed(link, origin[e]) /\ Asked(link, origin[e]).kind = "start_invocation"
  BY DEF HostInv, OriginInv
<1>2. k \in Clients /\ n \in Nat
  BY <1>1 DEF Owed, Causes
<1>3. Told(e, i) \in HostPayloads /\ Answers(Told(e, i), Asked(link, origin[e]))
  BY <1>2, AnswersAreTyped DEF HostInv, Statements, Told, Asked
<1>4. i \in Nat
  BY DEF Statements, AnswersIn
<1> QED BY <1>1, <1>3, <1>4 DEF Answers

\* A step that answers no earlier command changes nothing of what was told.
LEMMA StatementsStay ==
    ASSUME NEW P, HostInv(P), LinksStep(P), LinksQuiet,
           \A e \in 1..Len(execs) : origin'[e] = origin[e]
    PROVE  \A e \in 1..Len(execs) :
             /\ Statements(e)' = Statements(e)
             /\ \A i \in Statements(e) : Told(e, i)' = Told(e, i)
<1> SUFFICES ASSUME NEW e \in 1..Len(execs)
             PROVE  /\ Statements(e)' = Statements(e)
                    /\ \A i \in Statements(e) : Told(e, i)' = Told(e, i)
  OBVIOUS
<1> DEFINE k == origin[e].client
           n == origin[e].seq
<1>1. k \in Clients /\ n \in 0..(Len(link[k].received) - 1)
  BY DEF HostInv, OriginInv, Owed, Causes, Answerable
<1>2. /\ link[k] \in LinksOf(P) /\ link'[k] \in LinksOf(P)
      /\ Grew(link[k], link'[k]) /\ SaysNothingNew(link[k], link'[k])
  BY <1>1 DEF HostInv, HostTyped, LinksStep, LinksQuiet
<1>3. /\ AnswersIn(link'[k], n) = AnswersIn(link[k], n)
      /\ \A i \in AnswersIn(link[k], n) : link'[k].toServer[i] = link[k].toServer[i]
  BY <1>1, <1>2, AnswersStay
<1> QED BY <1>3 DEF Statements, Told

LEMMA SaidStays ==
    ASSUME NEW P, HostInv(P), LinksStep(P), LinksQuiet, ExecutionsStay,
           Len(execs') = Len(execs), UNCHANGED origin
    PROVE  SaidTruthfully'
<1>1. \A e \in 1..Len(execs) :
        /\ Statements(e)' = Statements(e)
        /\ \A i \in Statements(e) : Told(e, i)' = Told(e, i)
  BY StatementsStay
<1>2. \A e \in 1..Len(execs) : \A i \in Statements(e) : Truthful(execs'[e], Told(e, i))
  BY StatementsAreTyped, TruthLasts DEF ExecutionsStay, HostInv, SaidTruthfully
<1>3. \A e \in 1..Len(execs) : \A i \in Statements(e) :
        /\ Told(e, i).kind = "session_report" => \A j \in Statements(e) : i <= j
        /\ Ends(Told(e, i)) => \A j \in Statements(e) : j <= i
  BY DEF HostInv, SaidTruthfully
<1> SUFFICES ASSUME NEW e \in 1..Len(execs), NEW i \in Statements(e)
             PROVE  /\ Truthful(execs'[e], Told(e, i)')
                    /\ Told(e, i)'.kind = "session_report" => \A j \in Statements(e) : i <= j
                    /\ Ends(Told(e, i)') => \A j \in Statements(e) : j <= i
  BY <1>1 DEF SaidTruthfully
<1> QED BY <1>1, <1>2, <1>3

\* Nothing was told of the end of an execution that has not ended, nor anything
\* at all before its session was settled.
LEMMA OpenIsUntold ==
    ASSUME NEW P, HostInv(P), NEW e \in 1..Len(execs), execs[e].outcome = "none"
    PROVE  /\ \A j \in Statements(e) : ~Ends(Told(e, j))
           /\ execs[e].session = "pending" => Statements(e) = {}
<1>1. ASSUME NEW j \in Statements(e) PROVE ~Ends(Told(e, j))
  BY <1>1, StatementsAreTyped DEF HostInv, SaidTruthfully, Truthful, Ends
<1>2. ASSUME NEW j \in Statements(e), execs[e].session = "pending" PROVE FALSE
  <2>1. Told(e, j).kind = "session_report" /\ Told(e, j) \in HostPayloads
    BY <1>1, <1>2, StatementsAreTyped DEF Ends
  <2>2. Told(e, j).session \in Sessions
    BY <2>1 DEF HostPayloads
  <2>3. Told(e, j).session = "pending"
    BY <1>2, <2>1 DEF HostInv, SaidTruthfully, Truthful
  <2> QED BY <2>2, <2>3, SupervisorAssumption
<1> QED BY <1>1, <1>2

\* What is queued of an execution is a report, a result or a fault.
LEMMA QueuedAreTyped ==
    ASSUME NEW P, HostInv(P), NEW e \in 1..Len(execs), NEW i \in Queued(e)
    PROVE  /\ i \in 1..Len(reactions) /\ Len(reactions) \in Nat
           /\ reactions[i].cause = origin[e]
           /\ reactions[i].payload \in HostPayloads
           /\ reactions[i].payload.kind \in {"session_report", "invocation_result", "host_fault"}
           /\ reactions[i].payload.kind = "host_fault" => reactions[i].payload.id # None
<1>1. /\ i \in 1..Len(reactions) /\ Len(reactions) \in Nat /\ reactions[i] \in Intents
      /\ reactions[i].cause = origin[e]
  BY DEF Queued, HostInv, HostTyped
<1>2. Answers(reactions[i].payload, Asked(link, origin[e]))
  BY <1>1 DEF HostInv, ReactionsInv
<1>3. Asked(link, origin[e]).kind = "start_invocation"
  BY DEF HostInv, OriginInv
<1>4. reactions[i].payload \in HostPayloads
  BY <1>1 DEF Intents
<1> QED BY <1>1, <1>2, <1>3, <1>4 DEF Answers

\* No end is queued of an execution that has not ended, nor anything at all
\* before its session was settled.
LEMMA OpenIsUnqueued ==
    ASSUME NEW P, HostInv(P), NEW e \in 1..Len(execs), execs[e].outcome = "none"
    PROVE  /\ \A i \in Queued(e) : ~Ends(reactions[i].payload)
           /\ execs[e].session = "pending" => Queued(e) = {}
<1>1. ASSUME NEW i \in Queued(e) PROVE ~Ends(reactions[i].payload)
  BY <1>1, QueuedAreTyped DEF HostInv, QueuedTruthfully, Truthful, Ends
<1>2. ASSUME NEW i \in Queued(e), execs[e].session = "pending" PROVE FALSE
  <2>1. reactions[i].payload.kind = "session_report" /\ reactions[i].payload \in HostPayloads
    BY <1>1, <1>2, QueuedAreTyped DEF Ends
  <2>2. reactions[i].payload.session \in Sessions
    BY <2>1 DEF HostPayloads
  <2>3. reactions[i].payload.session = "pending"
    BY <1>2, <2>1 DEF HostInv, QueuedTruthfully, Truthful
  <2> QED BY <2>2, <2>3, SupervisorAssumption
<1> QED BY <1>1, <1>2

\* What was queued stays true while nothing is said.
LEMMA QueuedStaysTrue ==
    ASSUME NEW P, HostInv(P), LinksStep(P), LinksQuiet, ExecutionsStay,
           Len(execs') = Len(execs), UNCHANGED origin,
           NEW e \in 1..Len(execs), NEW i \in Queued(e)
    PROVE  /\ Truthful(execs'[e], reactions[i].payload)
           /\ reactions[i].payload.kind = "session_report" =>
                Statements(e)' = {} /\ \A j \in Queued(e) : i <= j
           /\ Ends(reactions[i].payload) => \A j \in Queued(e) : j <= i
           /\ \A j \in Statements(e)' : ~Ends(Told(e, j)')
<1>1. /\ Statements(e)' = Statements(e)
      /\ \A j \in Statements(e) : Told(e, j)' = Told(e, j)
  BY StatementsStay
<1>2. /\ Truthful(execs[e], reactions[i].payload)
      /\ reactions[i].payload.kind = "session_report" =>
           Statements(e) = {} /\ \A j \in Queued(e) : i <= j
      /\ Ends(reactions[i].payload) => \A j \in Queued(e) : j <= i
      /\ \A j \in Statements(e) : ~Ends(Told(e, j))
  BY DEF HostInv, QueuedTruthfully
<1>3. Later(execs[e], execs'[e])
  BY DEF ExecutionsStay
<1>4. Truthful(execs'[e], reactions[i].payload)
  BY <1>2, <1>3, QueuedAreTyped, TruthLasts
<1> QED BY <1>1, <1>2, <1>4

\* A step that queues nothing.
LEMMA QueueStays ==
    ASSUME NEW P, HostInv(P), LinksStep(P), LinksQuiet, ExecutionsStay,
           Len(execs') = Len(execs), UNCHANGED <<origin, reactions>>
    PROVE  reactions' \in Seq(Intents) /\ ReactionsInv' /\ QueuedTruthfully'
<1>1. reactions' \in Seq(Intents) /\ ReactionsInv'
  BY ReactionsStay DEF HostInv, HostTyped
<1>2. \A e : Queued(e)' = Queued(e)
  BY DEF Queued
<1>3. QueuedTruthfully'
  BY <1>2, QueuedStaysTrue DEF QueuedTruthfully
<1> QED BY <1>1, <1>3

\* A step that queues one answer, behind the others.
LEMMA OneMoreQueued ==
    ASSUME NEW P, HostInv(P), LinksStep(P), NEW intent \in Intents,
           Owed(link', intent.cause), Answers(intent.payload, Asked(link', intent.cause)),
           reactions' = Append(reactions, intent), UNCHANGED origin
    PROVE  /\ reactions' \in Seq(Intents) /\ ReactionsInv'
           /\ Len(reactions) \in Nat /\ Len(reactions') = Len(reactions) + 1
           /\ reactions'[Len(reactions) + 1] = intent
           /\ \A i \in 1..Len(reactions) : reactions'[i] = reactions[i]
           /\ \A e : \A i \in Queued(e)' :
                \/ i \in Queued(e) /\ i < Len(reactions) + 1
                \/ i = Len(reactions) + 1 /\ intent.cause = origin[e]
<1>1. /\ reactions \in Seq(Intents) /\ reactions' \in Seq(Intents)
      /\ Len(reactions) \in Nat /\ Len(reactions') = Len(reactions) + 1
      /\ reactions'[Len(reactions) + 1] = intent
      /\ \A i \in 1..Len(reactions) : reactions'[i] = reactions[i]
  BY DEF HostInv, HostTyped
<1>2. \A i \in 1..Len(reactions') : i \in 1..Len(reactions) \/ i = Len(reactions) + 1
  BY <1>1
<1>3. \A i \in 1..Len(reactions) :
        /\ Owed(link', reactions[i].cause)
        /\ Answers(reactions[i].payload, Asked(link', reactions[i].cause))
  BY OwedStays DEF HostInv, ReactionsInv
<1>4. ReactionsInv'
  BY <1>1, <1>2, <1>3 DEF ReactionsInv
<1>5. ASSUME NEW e, NEW i \in Queued(e)'
      PROVE  \/ i \in Queued(e) /\ i < Len(reactions) + 1
             \/ i = Len(reactions) + 1 /\ intent.cause = origin[e]
  <2>1. i \in 1..Len(reactions') /\ reactions'[i].cause = origin[e]
    BY <1>5 DEF Queued
  <2> QED BY <1>1, <1>2, <2>1 DEF Queued
<1> QED BY <1>1, <1>4, <1>5

\* Answers to initializations.
LEMMA InitializersQueued ==
    ASSUME NEW payload \in HostPayloads,
           payload = Ready \/ \E code : payload = Fault(None, code),
           OriginInv', Len(reactions') \in Nat,
           \A i \in 1..Len(reactions') :
             /\ reactions'[i].payload = payload
             /\ Owed(link', reactions'[i].cause)
             /\ Asked(link', reactions'[i].cause).kind = "initialize_actor_host"
    PROVE  ReactionsInv' /\ QueuedTruthfully'
<1>1. \A command : command.kind = "initialize_actor_host" => Answers(payload, command)
  BY DEF Answers, Ready, Fault
<1>2. ReactionsInv'
  BY <1>1 DEF ReactionsInv
<1>3. \A e \in 1..Len(execs'), i \in 1..Len(reactions') : reactions'[i].cause # origin'[e]
  BY DEF OriginInv
<1>4. QueuedTruthfully'
  BY <1>3 DEF QueuedTruthfully, Queued
<1> QED BY <1>2, <1>4

\* The answer to one more initialization.
LEMMA InitializerQueued ==
    ASSUME NEW P, HostInv(P), LinksStep(P), LinksQuiet, ExecutionsStay,
           Len(execs') = Len(execs), UNCHANGED origin,
           NEW payload \in HostPayloads,
           payload = Ready \/ \E code : payload = Fault(None, code),
           NEW c \in Causes, Owed(link', c), Asked(link', c).kind = "initialize_actor_host",
           reactions' = Append(reactions, [cause |-> c, payload |-> payload])
    PROVE  reactions' \in Seq(Intents) /\ ReactionsInv' /\ QueuedTruthfully'
<1> DEFINE intent == [cause |-> c, payload |-> payload]
<1>1. /\ intent.cause = c /\ intent.payload = payload /\ intent \in Intents
  BY DEF Intents
<1>2. Answers(payload, Asked(link', c))
  BY DEF Answers, Ready, Fault
<1> HIDE DEF intent
<1>3. /\ reactions' \in Seq(Intents) /\ ReactionsInv'
      /\ Len(reactions) \in Nat
      /\ \A i \in 1..Len(reactions) : reactions'[i] = reactions[i]
      /\ \A e : \A i \in Queued(e)' :
           \/ i \in Queued(e) /\ i < Len(reactions) + 1
           \/ i = Len(reactions) + 1 /\ intent.cause = origin[e]
  <2>1. reactions' = Append(reactions, intent)
    BY DEF intent
  <2>2. Owed(link', intent.cause) /\ Answers(intent.payload, Asked(link', intent.cause))
    BY <1>1, <1>2
  <2> QED BY <1>1, <2>1, <2>2, OneMoreQueued
<1>4. \A e \in 1..Len(execs) : origin[e] # c
  <2>1. OriginInv'
    BY OriginsStay
  <2> QED BY <2>1 DEF OriginInv
<1>5. \A e \in 1..Len(execs) : \A i \in Queued(e)' : i \in Queued(e) /\ reactions'[i] = reactions[i]
  BY <1>1, <1>3, <1>4 DEF Queued
<1>6. QueuedTruthfully'
  BY <1>5, QueuedStaysTrue DEF QueuedTruthfully
<1> QED BY <1>3, <1>6

\* A report of an execution that was open.
LEMMA ReportQueued ==
    ASSUME NEW P, HostInv(P), LinksStep(P), LinksQuiet, ExecutionsStay,
           Len(execs') = Len(execs), UNCHANGED origin,
           NEW e \in 1..Len(execs), execs[e].outcome = "none",
           NEW payload \in HostPayloads, Truthful(execs'[e], payload),
           payload.kind \in {"session_report", "invocation_result", "host_fault"},
           payload.kind = "session_report" => execs[e].session = "pending",
           reactions' = Append(reactions, [cause |-> origin[e], payload |-> payload])
    PROVE  reactions' \in Seq(Intents) /\ ReactionsInv' /\ QueuedTruthfully'
<1>1. /\ Owed(link', origin[e]) /\ Asked(link', origin[e]).kind = "start_invocation"
      /\ Asked(link', origin[e]).inv = execs[e].inv
  BY OwedStays DEF HostInv, OriginInv
<1>2. execs'[e].inv = execs[e].inv /\ execs[e].inv.id \in InvocationIds
  BY ExecutionTyped DEF ExecutionsStay, Later, HostInv, SupervisorOK
<1>3. payload.id = execs[e].inv.id /\ payload.id # None
  BY <1>2, NoneAssumption DEF Truthful
<1>4. Answers(payload, Asked(link', origin[e]))
  BY <1>1, <1>3 DEF Answers
<1> DEFINE intent == [cause |-> origin[e], payload |-> payload]
<1> PICK z : z = Len(reactions) + 1
  OBVIOUS
<1>5. /\ intent.cause = origin[e] /\ intent.payload = payload /\ intent \in Intents
  BY <1>1 DEF Intents, Owed
<1> HIDE DEF intent
<1>6. /\ reactions' \in Seq(Intents) /\ ReactionsInv'
      /\ Len(reactions) \in Nat /\ reactions'[z] = intent
      /\ \A i \in 1..Len(reactions) : reactions'[i] = reactions[i]
      /\ \A d : \A i \in Queued(d)' :
           \/ i \in Queued(d) /\ i < z
           \/ i = z /\ intent.cause = origin[d]
  <2>1. reactions' = Append(reactions, intent)
    BY DEF intent
  <2>2. Owed(link', intent.cause) /\ Answers(intent.payload, Asked(link', intent.cause))
    BY <1>1, <1>4, <1>5
  <2> QED BY <1>5, <2>1, <2>2, OneMoreQueued
<1>7. /\ \A d \in 1..Len(execs) : origin[d] = origin[e] => d = e
      /\ Statements(e)' = Statements(e)
      /\ \A i \in Statements(e) : Told(e, i)' = Told(e, i)
  BY StatementsStay DEF HostInv, OriginInv
<1>8. /\ \A j \in Statements(e) : ~Ends(Told(e, j))
      /\ execs[e].session = "pending" => Statements(e) = {}
  BY OpenIsUntold
<1>9. /\ \A i \in Queued(e) : ~Ends(reactions[i].payload)
      /\ execs[e].session = "pending" => Queued(e) = {}
  BY OpenIsUnqueued
<1>10. QueuedTruthfully'
  <2> SUFFICES ASSUME NEW d \in 1..Len(execs), NEW i \in Queued(d)'
               PROVE  /\ Truthful(execs'[d], reactions'[i].payload)
                      /\ reactions'[i].payload.kind = "session_report" =>
                           Statements(d)' = {} /\ \A j \in Queued(d)' : i <= j
                      /\ Ends(reactions'[i].payload) => \A j \in Queued(d)' : j <= i
                      /\ \A j \in Statements(d)' : ~Ends(Told(d, j)')
    BY DEF QueuedTruthfully
  <2>1. z \in Nat /\ \A j \in Queued(d)' : j \in Nat /\ j <= z
    BY <1>6 DEF Queued
  <2>2. CASE i = z /\ d = e
    <3>1. reactions'[i].payload = payload
      BY <1>5, <1>6, <2>2
    <3>2. payload.kind = "session_report" => \A j \in Queued(d)' : j = z
      BY <1>6, <1>9, <2>2
    <3> QED BY <1>7, <1>8, <2>1, <2>2, <3>1, <3>2
  <2>3. CASE i \in Queued(d) /\ i < z
    <3>1. reactions'[i] = reactions[i]
      BY <1>6, <2>3 DEF Queued
    <3>2. Ends(reactions[i].payload) => d # e
      BY <1>9, <2>3
    <3>3. d # e => \A j \in Queued(d)' : j \in Queued(d)
      BY <1>5, <1>6, <1>7
    <3>4. \A j \in Queued(d)' : j \in Queued(d) \/ j = z
      BY <1>6
    <3>5. /\ Truthful(execs'[d], reactions[i].payload)
          /\ reactions[i].payload.kind = "session_report" =>
               Statements(d)' = {} /\ \A j \in Queued(d) : i <= j
          /\ Ends(reactions[i].payload) => \A j \in Queued(d) : j <= i
          /\ \A j \in Statements(d)' : ~Ends(Told(d, j)')
      BY <2>3, QueuedStaysTrue
    <3>6. i <= z
      BY <2>1
    <3> QED BY <3>1, <3>2, <3>3, <3>4, <3>5, <3>6
  <2>4. (i \in Queued(d) /\ i < z) \/ (i = z /\ origin[e] = origin[d])
    BY <1>5, <1>6
  <2> QED BY <1>7, <2>2, <2>3, <2>4
<1> QED BY <1>6, <1>10

------------------------------------------------------------------------------
(* The steps.                                                                 *)

\* Anything but a start and a reaction.
LEMMA HostKept ==
    ASSUME NEW P, HostInv(P), LinksStep(P), LinksQuiet,
           SupervisorOK', ExecutionsStay, Len(execs') = Len(execs), UNCHANGED origin,
           waiting' \in Seq(Causes), WaitingInv',
           reactions' \in Seq(Intents), ReactionsInv', QueuedTruthfully'
    PROVE  HostInv(P)'
<1>1. HostTyped(P)'
  BY DEF HostInv, HostTyped, LinksStep
<1>2. LinksInv' /\ OriginInv' /\ SaidTruthfully'
  BY OriginsStay, SaidStays DEF LinksStep, LinksInv
<1> QED BY <1>1, <1>2 DEF HostInv

LEMMA NoExecutionChanges ==
    ASSUME UNCHANGED execs, Supervisor!TypeOK
    PROVE  ExecutionsStay /\ Len(execs') = Len(execs)
  BY DEF ExecutionsStay, Later, Supervisor!TypeOK

\* Only links change.
LEMMA LinkOnlyKept ==
    ASSUME NEW P, HostInv(P), LinksStep(P), LinksQuiet,
           UNCHANGED <<supervisor, waiting, origin, reactions>>
    PROVE  HostInv(P)'
<1>1. SupervisorOK'
  BY SupervisorKept DEF HostInv
<1>2. ExecutionsStay /\ Len(execs') = Len(execs)
  BY NoExecutionChanges DEF HostInv, SupervisorOK, supervisor
<1>3. waiting' \in Seq(Causes) /\ WaitingInv'
  BY WaitingStays DEF HostInv, HostTyped
<1>4. reactions' \in Seq(Intents) /\ ReactionsInv' /\ QueuedTruthfully'
  BY <1>2, QueueStays
<1> QED BY <1>1, <1>2, <1>3, <1>4, HostKept

\* The client and its connection.
LEMMA ClientStep ==
    ASSUME NEW P, HostInv(P), NEW k \in Clients,
           Connect(k) \/ ConnectFails(k) \/ Opens(k) \/ SocketFails(k) \/ Close(k)
    PROVE  LinksStep(P) /\ LinksQuiet
<1> DEFINE l == link[k]
<1>1. l \in LinksOf(P) /\ LinkInv(l)
  BY DEF HostInv, HostTyped, LinksInv
<1>2. LinkStep(P, l, l)
  BY <1>1, KeptStep DEF Kept, LinkInv
<1>3. \E r : LinkStep(P, l, r) /\ link' = [link EXCEPT ![k] = r]
  <2>1. CASE Connect(k)
    <3> DEFINE r == [l EXCEPT !.client = "connecting"]
    <3>1. r \in LinksOf(P) /\ Kept(l, r)
      BY <1>1, <2>1 DEF LinksOf, Kept, LinkInv, Ordered, Connect
    <3>2. link' = [link EXCEPT ![k] = r]
      BY <2>1 DEF Connect
    <3> QED BY <1>1, <3>1, <3>2, KeptStep
  <2>2. CASE ConnectFails(k) \/ SocketFails(k)
    BY <1>1, <1>2, <2>2, ClientFailedStep DEF ConnectFails, SocketFails
  <2>3. CASE Close(k)
    <3> DEFINE r == [l EXCEPT !.client = "closed"]
    <3>1. r \in LinksOf(P) /\ Kept(l, r)
      BY <1>1 DEF LinksOf, Kept, Ordered
    <3>2. link' = [link EXCEPT ![k] = r]
      BY <2>3 DEF Close
    <3> QED BY <1>1, <3>1, <3>2, KeptStep
  <2>4. CASE Opens(k)
    <3>1. PICK q \in Written([l EXCEPT !.client = "open"], None, Hello) :
            link' = [link EXCEPT ![k] = IF q.connection = "failed" THEN ClientFailed(q)
                                        ELSE [q EXCEPT !.connection = "live"]]
      BY <2>4 DEF Opens
    <3>2. l.connection = "not_started"
      BY <2>4 DEF Opens, HostInv, LinksInv, LinkInv, Ordered
    <3>3. PICK r : r = IF q.connection = "failed" THEN ClientFailed(q)
                       ELSE [q EXCEPT !.connection = "live"]
      OBVIOUS
    <3>4. LinkStep(P, l, r)
      BY <1>1, <3>2, <3>3, OpensStep
    <3> QED BY <3>1, <3>3, <3>4
  <2> QED BY <2>1, <2>2, <2>3, <2>4
<1> QED BY <1>3, OneLinkSteps DEF HostInv

LEMMA ClientKeeps ==
    ASSUME NEW P, HostInv(P), NEW k \in Clients,
           Connect(k) \/ ConnectFails(k) \/ Opens(k) \/ SocketFails(k) \/ Close(k)
    PROVE  HostInv(P)'
<1>1. LinksStep(P) /\ LinksQuiet
  BY ClientStep
<1>2. UNCHANGED <<supervisor, waiting, origin, reactions>>
  BY DEF Connect, ConnectFails, Opens, SocketFails, Close
<1> QED BY <1>1, <1>2, LinkOnlyKept

\* The verdicts of the supervisor are the codes of the faults.
LEMMA VerdictTypes ==
    /\ \A spec : Supervisor!InitializeVerdict(spec) \in ErrorCodes \union {"begin", "join"}
    /\ \A inv : Supervisor!StartVerdict(inv) \in ErrorCodes \union {"adapter"}
    /\ \A id : Supervisor!StopVerdict(id) \in ErrorCodes \union {"accepted", "request"}
<1>1. ASSUME NEW spec
      PROVE  Supervisor!InitializeVerdict(spec) \in ErrorCodes \union {"begin", "join"}
  BY DEF Supervisor!InitializeVerdict, ErrorCodes
<1>2. ASSUME NEW inv PROVE Supervisor!StartVerdict(inv) \in ErrorCodes \union {"adapter"}
  BY DEF Supervisor!StartVerdict, ErrorCodes
<1>3. ASSUME NEW id
      PROVE  Supervisor!StopVerdict(id) \in ErrorCodes \union {"accepted", "request"}
  BY DEF Supervisor!StopVerdict, ErrorCodes
<1> QED BY <1>1, <1>2, <1>3

\* The answers that are sent at once.
LEMMA AnsweredStep ==
    ASSUME NEW P, HostInv(P), NEW k \in Clients, NEW m \in ServerMessagesOf(P),
           Accepts(k, m), IsCommand(m),
           NEW payload \in HostPayloads, Answers(payload, m.payload),
           AcknowledgeAndAnswer(k, m, payload)
    PROVE  \E r : LinkStep(P, link[k], r) /\ link' = [link EXCEPT ![k] = r]
<1>0. PICK l \in Acknowledged(k, m) :
        \E r \in Sent(l, m.seq, payload) : link' = [link EXCEPT ![k] = r]
  BY DEF AcknowledgeAndAnswer
<1>1. PICK r \in Sent(l, m.seq, payload) : link' = [link EXCEPT ![k] = r]
  BY <1>0
<1>2. LinkStep(P, link[k], r)
  BY AnswerStep DEF HostInv, LinksInv
<1> QED BY <1>1, <1>2

LEMMA AcknowledgedStep ==
    ASSUME NEW P, HostInv(P), NEW k \in Clients, NEW m \in ServerMessagesOf(P),
           Accepts(k, m), IsCommand(m), NEW r \in Acknowledged(k, m)
    PROVE  /\ LinkStep(P, link[k], r)
           /\ Len(r.received) = m.seq + 1 /\ r.received[m.seq + 1] = m.payload
           /\ Len(link[k].received) = m.seq
           /\ Answerable(r, m.seq)
           /\ \A i \in (Len(link[k].toServer) + 1)..Len(r.toServer) :
                r.toServer[i].payload.kind = "ack"
<1>1. r \in Sent(Consumed(k, m), m.seq, Ack(m)) /\ r.connection = "live"
  BY DEF Acknowledged
<1> QED BY <1>1, ReceiptStep DEF HostInv, LinksInv

\* A message that changes nothing but the link it arrives on.
PassingMessage(k, m) ==
    \/ ReceiveRejected(k, m)
    \/ ReceiveAck(k, m)
    \/ ReceiptFails(k, m)
    \/ InitializeForeign(k, m)
    \/ StartRejected(k, m)
    \/ LaunchFails(k, m)
    \/ StartThrows(k, m)
    \/ StopRejected(k, m)
    \/ Shutdown(k, m)

LEMMA PassingStep ==
    ASSUME NEW P, Readable(P), HostInv(P), NEW k \in Clients, NEW m \in ServerMessagesOf(P),
           PassingMessage(k, m)
    PROVE  \E r : LinkStep(P, link[k], r) /\ link' = [link EXCEPT ![k] = r]
<1> DEFINE l == link[k]
<1>0. /\ l \in LinksOf(P) /\ LinkInv(l) /\ LinkStep(P, l, l) /\ m.payload \in P
      /\ HostTyped(P)
  BY KeptStep DEF HostInv, HostTyped, LinksInv, LinkInv, Kept, ServerMessagesOf
<1>1. CASE ReceiveRejected(k, m)
  BY <1>0, <1>1, ClientFailedStep DEF ReceiveRejected
<1>2. CASE ReceiveAck(k, m)
  BY <1>0, <1>2, ConsumedStep DEF ReceiveAck
<1>3. CASE ReceiptFails(k, m)
  <2>1. PICK q \in Sent(Consumed(k, m), m.seq, Ack(m)) :
          link' = [link EXCEPT ![k] = ClientFailed(q)]
    BY <1>3 DEF ReceiptFails
  <2>2. LinkStep(P, l, q)
    BY <1>0, <1>3, ReceiptStep DEF ReceiptFails
  <2> QED BY <1>0, <2>1, <2>2, ClientFailedStep
<1>4. CASE InitializeForeign(k, m)
  <2>1. Fault(None, "identity_mismatch") \in HostPayloads
    BY PayloadTypes DEF ErrorCodes
  <2>2. Answers(Fault(None, "identity_mismatch"), m.payload)
    BY <1>4 DEF InitializeForeign, Command, Answers, Fault
  <2> QED BY <1>4, <2>1, <2>2, AnsweredStep DEF InitializeForeign, Command, IsCommand
<1>5. ASSUME NEW code \in ErrorCodes, m.payload.kind = "start_invocation"
      PROVE  /\ Fault(m.payload.inv.id, code) \in HostPayloads
             /\ Answers(Fault(m.payload.inv.id, code), m.payload)
  <2>1. m.payload.inv.id \in InvocationIds /\ m.payload.inv.id # None
    BY <1>0, <1>5, NoneAssumption DEF Readable, Supervisor!Invocations
  <2>2. Fault(m.payload.inv.id, code) \in HostPayloads
    BY <1>5, <2>1, PayloadTypes
  <2> QED BY <1>5, <2>1, <2>2 DEF Answers, Fault
<1>6. CASE StartRejected(k, m)
  <2>0. "identity_mismatch" \in ErrorCodes
    BY DEF ErrorCodes
  <2>1. PICK code \in ErrorCodes : AcknowledgeAndAnswer(k, m, Fault(m.payload.inv.id, code))
    BY <1>6, <2>0, VerdictTypes DEF StartRejected
  <2> QED BY <1>5, <1>6, <2>1, AnsweredStep DEF StartRejected, Command, IsCommand
<1>7. CASE LaunchFails(k, m)
  <2> DEFINE p == Result(m.payload.inv.id, None, "launch_failed")
  <2>1. m.payload.kind = "start_invocation" /\ m.payload.inv.id \in InvocationIds
    BY <1>0, <1>7 DEF LaunchFails, MayStart, Command, Readable, Supervisor!Invocations
  <2>2. p \in HostPayloads
    BY <2>1, PayloadTypes
  <2>3. Answers(p, m.payload)
    BY <2>1 DEF Answers, Result
  <2> HIDE DEF p
  <2>4. AcknowledgeAndAnswer(k, m, p)
    BY <1>7 DEF LaunchFails, p
  <2> QED BY <1>7, <2>2, <2>3, <2>4, AnsweredStep DEF LaunchFails, MayStart, Command, IsCommand
<1>8. CASE StartThrows(k, m)
  <2>1. PICK q \in Acknowledged(k, m) : link' = [link EXCEPT ![k] = ClientFailed(q)]
    BY <1>8 DEF StartThrows
  <2>2. LinkStep(P, l, q)
    BY <1>8, AcknowledgedStep DEF StartThrows, MayStart, Command, IsCommand
  <2> QED BY <1>0, <2>1, <2>2, ClientFailedStep
<1>9. CASE StopRejected(k, m)
  <2> DEFINE p == Fault(m.payload.id, Supervisor!StopVerdict(m.payload.id))
  <2>1. m.payload.kind = "stop_invocation" /\ m.payload.id \in InvocationIds
    BY <1>0, <1>9 DEF StopRejected, Command, Readable
  <2>2. p \in HostPayloads
    BY <1>9, <2>1, PayloadTypes, VerdictTypes DEF StopRejected
  <2>3. Answers(p, m.payload)
    BY <2>1, NoneAssumption DEF Answers, Fault
  <2> HIDE DEF p
  <2>4. AcknowledgeAndAnswer(k, m, p)
    BY <1>9 DEF StopRejected, p
  <2> QED BY <1>9, <2>2, <2>3, <2>4, AnsweredStep DEF StopRejected, Command, IsCommand
<1>10. CASE Shutdown(k, m)
  BY <1>10, AcknowledgedStep DEF Shutdown, Acknowledge, Command, IsCommand
<1> QED
  BY <1>1, <1>2, <1>3, <1>4, <1>6, <1>7, <1>8, <1>9, <1>10 DEF PassingMessage

LEMMA PassingKeeps ==
    ASSUME NEW P, Readable(P), HostInv(P), NEW k \in Clients, NEW m \in ServerMessagesOf(P),
           PassingMessage(k, m)
    PROVE  HostInv(P)'
<1>1. LinksStep(P) /\ LinksQuiet
  BY PassingStep, OneLinkSteps DEF HostInv
<1>2. UNCHANGED <<supervisor, waiting, origin, reactions>>
  BY DEF PassingMessage, ReceiveRejected, ReceiveAck, ReceiptFails, InitializeForeign,
         StartRejected, LaunchFails, MayStart, StartThrows, StopRejected, Shutdown, Command,
         Accepts
<1> QED BY <1>1, <1>2, LinkOnlyKept

\* A command that is acknowledged is owed an answer.
LEMMA CommandOwed ==
    ASSUME NEW P, HostInv(P), NEW k \in Clients, NEW m \in ServerMessagesOf(P),
           Accepts(k, m), IsCommand(m), Acknowledge(k, m)
    PROVE  /\ LinksStep(P) /\ LinksQuiet
           /\ Cause(k, m) \in Causes
           /\ Owed(link', Cause(k, m)) /\ Asked(link', Cause(k, m)) = m.payload
           /\ Len(link[k].received) = m.seq
           /\ AnswersIn(link'[k], m.seq) = {}
<1>1. PICK r \in Acknowledged(k, m) : link' = [link EXCEPT ![k] = r]
  BY DEF Acknowledge
<1>2. /\ LinkStep(P, link[k], r)
      /\ r.received[m.seq + 1] = m.payload /\ Answerable(r, m.seq)
      /\ Len(link[k].received) = m.seq
      /\ \A i \in (Len(link[k].toServer) + 1)..Len(r.toServer) : r.toServer[i].payload.kind = "ack"
  BY AcknowledgedStep
<1>3. LinksStep(P) /\ LinksQuiet /\ link'[k] = r
  <2>1. HostTyped(P) /\ LinksInv
    BY DEF HostInv
  <2>2. LinkStep(P, link[k], r)
    BY <1>2
  <2> QED BY <1>1, <2>1, <2>2, OneLinkSteps
<1>4. Cause(k, m) \in Causes /\ Cause(k, m).client = k /\ Cause(k, m).seq = m.seq
  <2>1. m.seq \in Nat
    BY DEF ServerMessagesOf
  <2> QED BY <2>1 DEF Cause, Causes
<1>5. AnswersIn(r, m.seq) = {}
  <2> DEFINE l == link[k]
  <2>1. l \in LinksOf(P) /\ r \in LinksOf(P) /\ LinkInv(l) /\ Grew(l, r) /\ m.seq \in Nat
    BY <1>2 DEF HostInv, HostTyped, LinksInv, LinkStep, ServerMessagesOf
  <2>2. ASSUME NEW i \in 1..Len(l.toServer) PROVE r.toServer[i].cause # m.seq
    <3>1. r.toServer[i] = l.toServer[i] /\ MessageOK(l, i)
      BY <2>1 DEF Grew, LinkInv
    <3>2. l.toServer[i].cause = None \/ l.toServer[i].cause \in 0..(Len(l.received) - 1)
      BY <3>1 DEF MessageOK
    <3> QED BY <1>2, <2>1, <3>1, <3>2, NoneAssumption
  <2>3. ASSUME NEW i \in 1..Len(r.toServer)
        PROVE  i \in 1..Len(l.toServer) \/ i \in (Len(l.toServer) + 1)..Len(r.toServer)
    BY <2>1 DEF LinksOf
  <2> QED BY <1>2, <2>2, <2>3 DEF AnswersIn
<1>6. Owed(link', Cause(k, m)) /\ Asked(link', Cause(k, m)) = m.payload
  BY <1>2, <1>3, <1>4 DEF Owed, Asked
<1> QED BY <1>2, <1>3, <1>4, <1>5, <1>6

LEMMA InitializeKeeps ==
    ASSUME NEW P, Readable(P), HostInv(P), NEW k \in Clients, NEW m \in ServerMessagesOf(P),
           Initialize(k, m)
    PROVE  HostInv(P)'
<1> DEFINE c == Cause(k, m)
           verdict == Supervisor!InitializeVerdict(m.payload.spec)
<1>1. /\ Accepts(k, m) /\ IsCommand(m) /\ Acknowledge(k, m) /\ UNCHANGED origin
      /\ m.payload.kind = "initialize_actor_host"
  BY DEF Initialize, Command, IsCommand, Accepts
<1>2. /\ LinksStep(P) /\ LinksQuiet /\ c \in Causes /\ Owed(link', c)
      /\ Asked(link', c).kind = "initialize_actor_host"
  BY <1>1, CommandOwed
<1>3. m.payload.spec \in Specs
  BY <1>1 DEF Readable, ServerMessagesOf
<1> HIDE DEF c
<1>4. \/ /\ waiting' = Append(waiting, c) /\ UNCHANGED reactions
         /\ Supervisor!Initialize(m.payload.spec) \/ UNCHANGED supervisor
      \/ /\ UNCHANGED <<supervisor, waiting>>
         /\ \E payload \in HostPayloads :
              /\ payload = Ready \/ \E code : payload = Fault(None, code)
              /\ reactions' = Append(reactions, [cause |-> c, payload |-> payload])
  <2>1. CASE verdict \in {"begin", "join"}
    BY <2>1 DEF Initialize, c
  <2>2. CASE verdict = "already_initialized"
    BY <2>2, PayloadTypes DEF Initialize, Queue, c
  <2>3. CASE verdict \notin {"begin", "join", "already_initialized"}
    <3>1. verdict \in ErrorCodes
      BY <2>3, VerdictTypes
    <3>2. Fault(None, verdict) \in HostPayloads
      BY <3>1, PayloadTypes
    <3>3. /\ reactions' = Append(reactions, [cause |-> c, payload |-> Fault(None, verdict)])
          /\ UNCHANGED <<supervisor, waiting>>
      BY <2>3 DEF Initialize, Queue, c
    <3> QED BY <3>2, <3>3
  <2> QED BY <2>1, <2>2, <2>3
<1>5. Supervisor!Next \/ UNCHANGED supervisor
  BY <1>3, <1>4 DEF Supervisor!Next, Supervisor!Call
<1>6. SupervisorOK'
  BY <1>5, SupervisorKept DEF HostInv
<1>7. ExecutionsStay /\ Len(execs') = Len(execs)
  BY <1>4, NoExecutionChanges DEF HostInv, SupervisorOK, supervisor, Supervisor!Initialize
<1>9. CASE /\ waiting' = Append(waiting, c) /\ UNCHANGED reactions
  <2>1. /\ waiting' \in Seq(Causes) /\ Len(waiting') = Len(waiting) + 1
        /\ Len(waiting) \in Nat
        /\ \A i \in 1..Len(waiting) : waiting'[i] = waiting[i]
        /\ waiting'[Len(waiting) + 1] = c
    BY <1>2, <1>9 DEF HostInv, HostTyped
  <2>2. \A i \in 1..Len(waiting) :
          Owed(link', waiting[i]) /\ Asked(link', waiting[i]).kind = "initialize_actor_host"
    BY <1>2, OwedStays DEF HostInv, WaitingInv
  <2>3. WaitingInv'
    BY <1>2, <2>1, <2>2 DEF WaitingInv
  <2>4. reactions' \in Seq(Intents) /\ ReactionsInv' /\ QueuedTruthfully'
    BY <1>1, <1>2, <1>7, <1>9, QueueStays
  <2> QED BY <1>1, <1>2, <1>6, <1>7, <2>1, <2>3, <2>4, HostKept
<1>10. CASE UNCHANGED waiting /\ ~ UNCHANGED reactions
  <2>1. PICK payload \in HostPayloads :
          /\ payload = Ready \/ \E code : payload = Fault(None, code)
          /\ reactions' = Append(reactions, [cause |-> c, payload |-> payload])
    BY <1>4, <1>10
  <2>2. reactions' \in Seq(Intents) /\ ReactionsInv' /\ QueuedTruthfully'
    BY <1>1, <1>2, <1>7, <2>1, InitializerQueued
  <2>3. waiting' \in Seq(Causes) /\ WaitingInv'
    BY <1>2, <1>10, WaitingStays DEF HostInv, HostTyped
  <2> QED BY <1>1, <1>2, <1>6, <1>7, <2>2, <2>3, HostKept
<1>11. CASE UNCHANGED waiting /\ UNCHANGED reactions
  BY <1>1, <1>2, <1>6, <1>7, <1>11, HostKept, WaitingStays, QueueStays DEF HostInv, HostTyped
<1> QED BY <1>4, <1>9, <1>10, <1>11

\* The reservation settles.
LEMMA InitializationKeeps ==
    ASSUME NEW P, HostInv(P), InitializationFails \/ InitializationSucceeds
    PROVE  HostInv(P)'
<1>1. /\ UNCHANGED <<link, origin>> /\ Quiet
      /\ Supervisor!InitializationFails \/ Supervisor!InitializationSucceeds
  BY DEF InitializationFails, InitializationSucceeds
<1>2. \E payload \in HostPayloads :
        /\ payload = Ready \/ \E code : payload = Fault(None, code)
        /\ AnswerAll(payload)
  BY PayloadTypes DEF InitializationFails, InitializationSucceeds, ErrorCodes
<1>3. PICK payload \in HostPayloads :
        /\ payload = Ready \/ \E code : payload = Fault(None, code)
        /\ AnswerAll(payload)
  BY <1>2
<1>4. LinksStep(P) /\ LinksQuiet
  BY <1>1, NoLinkSteps DEF HostInv
<1>5. SupervisorOK'
  BY <1>1, SupervisorKept DEF HostInv, Supervisor!Next
<1>6. ExecutionsStay /\ Len(execs') = Len(execs)
  BY <1>1, NoExecutionChanges DEF HostInv, SupervisorOK,
     Supervisor!InitializationFails, Supervisor!InitializationSucceeds
<1>7. OriginInv'
  BY <1>1, <1>4, <1>6, OriginsStay
<1>8. waiting' \in Seq(Causes) /\ WaitingInv'
  BY <1>3 DEF AnswerAll, WaitingInv
<1>9. /\ Len(reactions') = Len(waiting) /\ Len(waiting) \in Nat
      /\ reactions' \in Seq(Intents)
      /\ \A i \in 1..Len(waiting) :
           reactions'[i].cause = waiting[i] /\ reactions'[i].payload = payload
  <2>1. reactions' = [i \in 1..Len(waiting) |-> [cause |-> waiting[i], payload |-> payload]]
    BY <1>3 DEF AnswerAll
  <2>2. /\ Len(waiting) \in Nat
        /\ \A i \in 1..Len(waiting) : [cause |-> waiting[i], payload |-> payload] \in Intents
    BY DEF HostInv, HostTyped, Intents
  <2> QED BY <2>1, <2>2
<1>10. \A i \in 1..Len(waiting) :
         Owed(link', waiting[i]) /\ Asked(link', waiting[i]).kind = "initialize_actor_host"
  BY <1>4, OwedStays DEF HostInv, WaitingInv
<1>11. ReactionsInv' /\ QueuedTruthfully'
  BY <1>3, <1>7, <1>9, <1>10, InitializersQueued
<1> QED BY <1>1, <1>4, <1>5, <1>6, <1>8, <1>9, <1>11, HostKept

LEMMA StartKeeps ==
    ASSUME NEW P, Readable(P), HostInv(P), NEW k \in Clients, NEW m \in ServerMessagesOf(P),
           Start(k, m)
    PROVE  HostInv(P)'
<1> DEFINE c == Cause(k, m)
           inv == m.payload.inv
           n == Len(execs)
<1>1. /\ Accepts(k, m) /\ IsCommand(m) /\ Acknowledge(k, m)
      /\ m.payload.kind = "start_invocation"
      /\ Supervisor!Start(inv) /\ origin' = Append(origin, c)
      /\ UNCHANGED <<waiting, reactions>>
  BY DEF Start, MayStart, Command, IsCommand, Accepts
<1>2. /\ LinksStep(P) /\ LinksQuiet /\ c \in Causes /\ Owed(link', c)
      /\ Asked(link', c) = m.payload /\ Len(link[k].received) = m.seq
      /\ AnswersIn(link'[k], m.seq) = {}
  BY <1>1, CommandOwed
<1>3. inv \in Supervisor!Invocations
  BY <1>1 DEF Readable, ServerMessagesOf
<1>4. SupervisorOK'
  BY <1>1, <1>3, SupervisorKept DEF HostInv, Supervisor!Next, Supervisor!Call
<1>5. /\ n \in Nat /\ Len(execs') = n + 1
      /\ \A e \in 1..n : execs'[e] = execs[e]
      /\ execs'[n + 1].inv = inv
  BY <1>1 DEF HostInv, SupervisorOK, Supervisor!TypeOK, Supervisor!Start,
              Supervisor!NewExecution
<1>6. /\ origin' \in Seq(Causes) /\ Len(origin') = n + 1
      /\ \A e \in 1..n : origin'[e] = origin[e]
      /\ origin'[n + 1] = c
  BY <1>1, <1>2 DEF HostInv, HostTyped
<1>7. c.client = k /\ c.seq = m.seq
  BY DEF Cause
<1>8. \A e \in 1..(n + 1) : e \in 1..n \/ e = n + 1
  BY <1>5
<1>9. /\ \A e \in 1..n : origin[e] # c
      /\ \A i \in 1..Len(reactions) : reactions[i].cause # c
  <2>1. ASSUME Owed(link, c) PROVE FALSE
    <3>1. m.seq \in 0..(m.seq - 1) /\ m.seq \in Nat
      BY <1>2, <1>7, <2>1 DEF Owed, Answerable, ServerMessagesOf
    <3> QED BY <3>1
  <2> QED BY <2>1 DEF HostInv, OriginInv, ReactionsInv
<1> HIDE DEF c, inv, n
<1>10. OriginInv'
  <2>1. \A e \in 1..n :
          /\ Owed(link', origin[e])
          /\ Asked(link', origin[e]).kind = "start_invocation"
          /\ Asked(link', origin[e]).inv = execs[e].inv
    BY <1>2, OwedStays DEF HostInv, OriginInv, n
  <2>2. Asked(link', c).kind = "start_invocation" /\ Asked(link', c).inv = inv
    BY <1>1, <1>2 DEF inv
  <2>3. \A e \in 1..(n + 1) :
          /\ Owed(link', origin'[e])
          /\ Asked(link', origin'[e]).kind = "start_invocation"
          /\ Asked(link', origin'[e]).inv = execs'[e].inv
    BY <1>2, <1>5, <1>6, <1>8, <2>1, <2>2
  <2>4. \A d, e \in 1..(n + 1) : origin'[d] = origin'[e] => d = e
    BY <1>6, <1>8, <1>9 DEF HostInv, OriginInv, n
  <2> QED BY <1>5, <2>3, <2>4 DEF OriginInv
<1>11. SaidTruthfully'
  <2>1. \A e \in 1..n :
          /\ Statements(e)' = Statements(e)
          /\ \A i \in Statements(e) : Told(e, i)' = Told(e, i)
    BY <1>2, <1>6, StatementsStay DEF n
  <2>0. PICK z : z = n + 1
    OBVIOUS
  <2>2. Statements(z)' = {}
    BY <1>2, <1>6, <1>7, <2>0 DEF Statements
  <2>3. SUFFICES ASSUME NEW e \in 1..n
        PROVE  \A i \in Statements(e)' :
                 /\ Truthful(execs'[e], Told(e, i)')
                 /\ Told(e, i)'.kind = "session_report" => \A j \in Statements(e)' : i <= j
                 /\ Ends(Told(e, i)') => \A j \in Statements(e)' : j <= i
    BY <1>5, <1>8, <2>0, <2>2 DEF SaidTruthfully
  <2> QED BY <1>5, <2>1 DEF HostInv, SaidTruthfully, n
<1>12. WaitingInv'
  BY <1>1, <1>2, WaitingStays
<1>13. reactions' \in Seq(Intents) /\ ReactionsInv' /\ QueuedTruthfully'
  <2>1. reactions' \in Seq(Intents) /\ ReactionsInv'
    BY <1>1, <1>2, ReactionsStay DEF HostInv, HostTyped
  <2>2. \A e \in 1..n :
          /\ Queued(e)' = Queued(e) /\ Statements(e)' = Statements(e)
          /\ \A i \in Statements(e) : Told(e, i)' = Told(e, i)
    BY <1>1, <1>2, <1>6, StatementsStay DEF n, Queued
  <2>0. PICK z : z = n + 1
    OBVIOUS
  <2>3. Queued(z)' = {}
    BY <1>1, <1>6, <1>9, <2>0 DEF Queued
  <2>4. SUFFICES ASSUME NEW e \in 1..n, NEW i \in Queued(e)
        PROVE  /\ Truthful(execs[e], reactions[i].payload)
               /\ reactions[i].payload.kind = "session_report" =>
                    Statements(e) = {} /\ \A j \in Queued(e) : i <= j
               /\ Ends(reactions[i].payload) => \A j \in Queued(e) : j <= i
               /\ \A j \in Statements(e) : ~Ends(Told(e, j))
    <3>1. \A e \in 1..n : \A i \in Queued(e)' : reactions'[i] = reactions[i] /\ execs'[e] = execs[e]
      BY <1>1, <1>5
    <3> SUFFICES ASSUME NEW e \in 1..(n + 1), NEW i \in Queued(e)'
                 PROVE  /\ Truthful(execs'[e], reactions'[i].payload)
                        /\ reactions'[i].payload.kind = "session_report" =>
                             Statements(e)' = {} /\ \A j \in Queued(e)' : i <= j
                        /\ Ends(reactions'[i].payload) => \A j \in Queued(e)' : j <= i
                        /\ \A j \in Statements(e)' : ~Ends(Told(e, j)')
      BY <1>5, <2>1 DEF QueuedTruthfully
    <3>2. e \in 1..n
      BY <1>8, <2>0, <2>3
    <3> QED BY <2>2, <2>4, <3>1, <3>2
  <2> QED BY DEF HostInv, QueuedTruthfully, n
<1>14. HostTyped(P)' /\ LinksInv'
  BY <1>1, <1>2, <1>5, <1>6, <1>13 DEF HostInv, HostTyped, LinksStep, LinksInv
<1> QED BY <1>4, <1>10, <1>11, <1>12, <1>13, <1>14 DEF HostInv

LEMMA StopKeeps ==
    ASSUME NEW P, Readable(P), HostInv(P), NEW k \in Clients, NEW m \in ServerMessagesOf(P),
           Stop(k, m)
    PROVE  HostInv(P)'
<1> DEFINE id == m.payload.id
<1>1. /\ Accepts(k, m) /\ IsCommand(m) /\ Acknowledge(k, m)
      /\ m.payload.kind = "stop_invocation" /\ UNCHANGED <<waiting, origin>>
  BY DEF Stop, Command, IsCommand, Accepts
<1>2. LinksStep(P) /\ LinksQuiet
  BY <1>1, CommandOwed
<1>3. id \in InvocationIds
  BY <1>1 DEF Readable, ServerMessagesOf
<1>4. \/ Supervisor!Stop(id) /\ UNCHANGED reactions
      \/ /\ Supervisor!StopThrows(id)
         /\ reactions' = Append(reactions, [ cause |-> origin[active],
                                             payload |-> Fault(id, "adapter_stop_failed") ])
      \/ UNCHANGED <<supervisor, reactions>>
  BY DEF Stop
<1> HIDE DEF id
<1>5. SupervisorOK'
  BY <1>3, <1>4, SupervisorKept DEF HostInv, Supervisor!Next, Supervisor!Call
<1>6. waiting' \in Seq(Causes) /\ WaitingInv'
  BY <1>1, <1>2, WaitingStays DEF HostInv, HostTyped
<1>7. CASE UNCHANGED reactions
  <2>1. ExecutionsStay /\ Len(execs') = Len(execs)
    <3>1. CASE Supervisor!Stop(id) \/ Supervisor!StopThrows(id)
      BY <1>3, <3>1, StopStays DEF HostInv
    <3>2. CASE UNCHANGED supervisor
      BY <3>2, NoExecutionChanges DEF HostInv, SupervisorOK, supervisor
    <3> QED BY <1>4, <3>1, <3>2
  <2>2. reactions' \in Seq(Intents) /\ ReactionsInv' /\ QueuedTruthfully'
    BY <1>1, <1>2, <1>7, <2>1, QueueStays
  <2> QED BY <1>1, <1>2, <1>5, <1>6, <2>1, <2>2, HostKept
<1>8. CASE /\ Supervisor!StopThrows(id)
           /\ reactions' = Append(reactions, [ cause |-> origin[active],
                                payload |-> Fault(id, "adapter_stop_failed") ])
  <2>1. /\ ExecutionsStay /\ Len(execs') = Len(execs)
        /\ active \in 1..Len(execs) /\ execs[active].inv.id = id
        /\ execs[active].outcome = "none" /\ execs'[active].outcome = "failure"
    BY <1>3, <1>8, StopStays DEF HostInv
  <2> DEFINE p == Fault(id, "adapter_stop_failed")
  <2>2. p \in HostPayloads
    BY <1>3, PayloadTypes DEF ErrorCodes
  <2>3. p.kind = "host_fault" /\ p.id = id
    BY DEF Fault
  <2>4. reactions' = Append(reactions, [cause |-> origin[active], payload |-> p])
    BY <1>8
  <2> HIDE DEF p
  <2>5. execs'[active].inv = execs[active].inv
    BY <2>1 DEF ExecutionsStay, Later
  <2>6. Truthful(execs'[active], p)
    BY <2>1, <2>3, <2>5 DEF Truthful
  <2>7. reactions' \in Seq(Intents) /\ ReactionsInv' /\ QueuedTruthfully'
    BY <1>1, <1>2, <2>1, <2>2, <2>3, <2>4, <2>6, ReportQueued
  <2> QED BY <1>1, <1>2, <1>5, <1>6, <2>1, <2>7, HostKept
<1> QED BY <1>4, <1>7, <1>8

LEMMA ReceiveKeeps ==
    ASSUME NEW P, Readable(P), HostInv(P), NEW k \in Clients, NEW m \in ServerMessagesOf(P),
           Receive(k, m)
    PROVE  HostInv(P)'
  BY PassingKeeps, InitializeKeeps, StartKeeps, StopKeeps DEF Receive, PassingMessage

\* What the backend does.
LEMMA BackendKeeps ==
    ASSUME NEW P, HostInv(P), NEW e \in 1..Len(execs), BackendStep(e)
    PROVE  HostInv(P)'
<1>0. /\ Quiet /\ UNCHANGED <<link, waiting, origin>>
      /\ SupervisorOK /\ execs[e] \in Supervisor!Executions
      /\ execs[e].inv.id \in InvocationIds
  BY ExecutionTyped DEF BackendStep, HostInv, SupervisorOK
<1>1. LinksStep(P) /\ LinksQuiet
  BY <1>0, NoLinkSteps DEF HostInv
<1>2. waiting' \in Seq(Causes) /\ WaitingInv'
  BY <1>0, <1>1, WaitingStays DEF HostInv, HostTyped
<1>3. ASSUME ExecutionsStay, Len(execs') = Len(execs), SupervisorOK', UNCHANGED reactions
      PROVE  HostInv(P)'
  BY <1>0, <1>1, <1>2, <1>3, QueueStays, HostKept
<1>4. ASSUME ExecutionsStay, Len(execs') = Len(execs), SupervisorOK', execs[e].outcome = "none",
             NEW p \in HostPayloads, Truthful(execs'[e], p), Tell(e, p),
             p.kind \in {"session_report", "invocation_result", "host_fault"},
             p.kind = "session_report" => execs[e].session = "pending"
      PROVE  HostInv(P)'
  <2>1. reactions' = Append(reactions, [cause |-> origin[e], payload |-> p])
    BY <1>0, <1>4 DEF Tell, Quiet
  <2>2. reactions' \in Seq(Intents) /\ ReactionsInv' /\ QueuedTruthfully'
    BY <1>0, <1>1, <1>4, <2>1, ReportQueued
  <2> QED BY <1>0, <1>1, <1>2, <1>4, <2>2, HostKept
<1>5. ASSUME NEW s \in Supervisor!SessionValues, SessionResolves(e, s) PROVE HostInv(P)'
  <2>1. /\ ExecutionsStay /\ Len(execs') = Len(execs)
        /\ execs'[e].session = s /\ execs'[e].inv = execs[e].inv
        /\ execs[e].session = "pending"
    BY <1>0, <1>5, SessionResolvesStays DEF SessionResolves
  <2>2. SupervisorOK'
    BY <1>0, <1>5, SupervisorKept DEF SessionResolves, Supervisor!Next, Supervisor!Settlement
  <2>3. CASE s # None /\ execs[e].outcome = "none"
    <3> DEFINE p == Report(execs[e].inv.id, s)
    <3>1. p \in HostPayloads
      BY <1>0, <2>3, PayloadTypes DEF Supervisor!SessionValues
    <3>2. Truthful(execs'[e], p) /\ p.kind = "session_report"
      BY <2>1 DEF Truthful, Report
    <3>3. Tell(e, p)
      BY <1>5, <2>3 DEF SessionResolves
    <3> HIDE DEF p
    <3> QED BY <1>4, <2>1, <2>2, <2>3, <3>1, <3>2, <3>3
  <2>4. CASE ~(s # None /\ execs[e].outcome = "none")
    BY <1>3, <1>5, <2>1, <2>2, <2>4 DEF SessionResolves
  <2> QED BY <2>3, <2>4
<1>6. ASSUME NEW code \in ErrorCodes, TellFailure(e, code),
             \/ Supervisor!SessionRejects(e)
             \/ Supervisor!CompletionRejects(e)
             \/ Supervisor!StopRejects(e)
      PROVE  HostInv(P)'
  <2>1. /\ ExecutionsStay /\ Len(execs') = Len(execs)
        /\ Supervisor!IsActive(e) => execs'[e].outcome = "failure"
    BY <1>0, <1>6, RejectionStays
  <2>2. SupervisorOK'
    BY <1>0, <1>6, SupervisorKept DEF Supervisor!Next, Supervisor!Settlement
  <2>3. CASE Supervisor!IsActive(e)
    <3> DEFINE p == Fault(execs[e].inv.id, code)
    <3>1. p \in HostPayloads
      BY <1>0, PayloadTypes
    <3>2. execs'[e].inv = execs[e].inv /\ execs[e].outcome = "none"
      BY <2>1, <2>3 DEF ExecutionsStay, Later, Supervisor!IsActive
    <3>3. Truthful(execs'[e], p) /\ p.kind = "host_fault"
      BY <2>1, <2>3, <3>2 DEF Truthful, Fault
    <3>4. Tell(e, p)
      BY <1>6, <2>3 DEF TellFailure
    <3> HIDE DEF p
    <3> QED BY <1>4, <2>1, <2>2, <3>1, <3>2, <3>3, <3>4
  <2>4. CASE ~Supervisor!IsActive(e)
    BY <1>3, <1>6, <2>1, <2>2, <2>4 DEF TellFailure
  <2> QED BY <2>3, <2>4
<1>7. CASE SessionRejects(e) \/ CompletionRejects(e) \/ StopRejects(e)
  BY <1>6, <1>7 DEF SessionRejects, CompletionRejects, StopRejects, ErrorCodes
<1>8. ASSUME NEW c \in Supervisor!Completions, CompletionResolves(e, c) PROVE HostInv(P)'
  <2>1. ExecutionsStay /\ Len(execs') = Len(execs)
    BY <1>0, <1>8, CompletionResolvesStays DEF CompletionResolves
  <2>2. SupervisorOK'
    BY <1>0, <1>8, SupervisorKept DEF CompletionResolves, Supervisor!Next, Supervisor!Settlement
  <2> QED BY <1>3, <1>8, <2>1, <2>2 DEF CompletionResolves
<1>9. CASE Finish(e)
  <2>1. /\ ExecutionsStay /\ Len(execs') = Len(execs)
        /\ execs'[e].outcome = "result" /\ execs[e].outcome = "none"
        /\ execs'[e].inv = execs[e].inv /\ execs'[e].session = execs[e].session
        /\ execs'[e].value = execs[e].value
        /\ execs[e].value \in Supervisor!Completions
    BY <1>0, <1>9, FinishStays DEF Finish
  <2>2. SupervisorOK'
    BY <1>0, <1>9, SupervisorKept DEF Finish, Supervisor!Next
  <2> DEFINE s == IF execs[e].session \in Sessions THEN execs[e].session ELSE execs[e].value.session
             p == Result(execs[e].inv.id, s, execs[e].value.fact)
  <2>3. s \in Sessions \union {None} /\ execs[e].value.fact \in Facts
    BY <2>1 DEF Supervisor!Completions, Supervisor!SessionValues
  <2>4. Tell(e, p)
    BY <1>9 DEF Finish, Supervisor!ResolvedSession
  <2>5. /\ p.kind = "invocation_result" /\ p.id = execs[e].inv.id /\ p.session = s
        /\ p.fact = execs[e].value.fact
    BY DEF Result
  <2>6. p \in HostPayloads
    BY <1>0, <2>3, PayloadTypes
  <2> HIDE DEF p
  <2>7. Truthful(execs'[e], p)
    BY <2>1, <2>5 DEF Truthful
  <2> QED BY <1>4, <2>1, <2>2, <2>4, <2>5, <2>6, <2>7
<1> QED BY <1>5, <1>7, <1>8, <1>9 DEF BackendStep

\* A cause is its client and its message.
LEMMA SameCause ==
    ASSUME NEW c \in Causes, NEW d \in Causes, c.client = d.client, c.seq = d.seq
    PROVE  c = d
BY DEF Causes

\* One more message.
LEMMA OneMoreMessage ==
    ASSUME NEW P, NEW l \in LinksOf(P), NEW r \in LinksOf(P), Grew(l, r),
           NEW z, z = Len(l.toServer) + 1, Len(r.toServer) = z, NEW n
    PROVE  /\ \A i \in AnswersIn(l, n) : i < z /\ r.toServer[i] = l.toServer[i]
           /\ r.toServer[z].cause # n => AnswersIn(r, n) = AnswersIn(l, n)
           /\ r.toServer[z].cause = n =>
                AnswersIn(r, n) \in {AnswersIn(l, n), AnswersIn(l, n) \union {z}}
<1>1. Len(l.toServer) \in Nat /\ \A i \in 1..z : i \in 1..Len(l.toServer) \/ i = z
  BY DEF LinksOf
<1>2. \A i \in 1..Len(l.toServer) : r.toServer[i] = l.toServer[i] /\ i \in 1..z /\ i < z
  BY <1>1 DEF Grew
<1>3. \A i \in AnswersIn(l, n) : i < z /\ r.toServer[i] = l.toServer[i] /\ i \in AnswersIn(r, n)
  BY <1>2 DEF AnswersIn
<1>4. \A i \in AnswersIn(r, n) : i \in AnswersIn(l, n) \/ i = z
  BY <1>1, <1>2 DEF AnswersIn
<1>5. r.toServer[z].cause # n => z \notin AnswersIn(r, n)
  BY DEF AnswersIn
<1> QED BY <1>3, <1>4, <1>5

\* A queued reaction is sent.
LEMMA ReactLinks ==
    ASSUME NEW P, HostInv(P), React PROVE LinksStep(P)
<1> DEFINE intent == Head(reactions)
           k == intent.cause.client
           n == intent.cause.seq
<1>1. /\ reactions # <<>> /\ reactions' = Tail(reactions)
      /\ UNCHANGED <<supervisor, waiting, origin>>
  BY DEF React
<1>2. PICK r \in Sent(link[k], n, intent.payload) : link' = [link EXCEPT ![k] = r]
  BY DEF React
<1>3. /\ Len(reactions) \in Nat \ {0} /\ reactions \in Seq(Intents)
      /\ intent = reactions[1] /\ intent \in Intents /\ 1 \in 1..Len(reactions)
  BY <1>1 DEF HostInv, HostTyped
<1>4. intent.payload \in HostPayloads /\ intent.cause \in Causes
  BY <1>3 DEF Intents
<1>5. Owed(link, intent.cause) /\ Answers(intent.payload, Asked(link, intent.cause))
  BY <1>3 DEF HostInv, ReactionsInv
<1>6. /\ k \in Clients /\ Answerable(link[k], n)
      /\ Answers(intent.payload, link[k].received[n + 1])
  BY <1>5 DEF Owed, Asked, Causes
<1>7. link[k] \in LinksOf(P) /\ LinkInv(link[k]) /\ HostTyped(P) /\ LinksInv
  BY <1>6 DEF HostInv, HostTyped, LinksInv
<1> HIDE DEF intent, k, n
<1>8. r \in LinksOf(P) /\ LinkInv(r) /\ Grew(link[k], r)
  BY <1>2, <1>4, <1>6, <1>7, AnswerInv
<1>9. \A j \in Clients : LinkStep(P, link[j], link[j])
  BY <1>7, KeptStep DEF HostTyped, LinksInv, LinkInv, Kept
<1>10. \A j \in Clients : link'[j] = IF j = k THEN r ELSE link[j]
  BY <1>2, <1>7 DEF HostTyped
<1>11. link' \in [Clients -> LinksOf(P)]
  BY <1>2, <1>7, <1>8 DEF HostTyped
<1> QED BY <1>8, <1>9, <1>10, <1>11 DEF LinksStep, LinkStep

LEMMA ReactKeeps ==
    ASSUME NEW P, HostInv(P), React PROVE HostInv(P)'
<1> DEFINE intent == Head(reactions)
           k == intent.cause.client
           n == intent.cause.seq
<1>1. /\ reactions # <<>> /\ reactions' = Tail(reactions)
      /\ UNCHANGED <<supervisor, waiting, origin>>
  BY DEF React
<1>2. PICK r \in Sent(link[k], n, intent.payload) : link' = [link EXCEPT ![k] = r]
  BY DEF React
<1>3. /\ Len(reactions) \in Nat \ {0} /\ reactions \in Seq(Intents)
      /\ intent = reactions[1] /\ intent \in Intents /\ 1 \in 1..Len(reactions)
  BY <1>1 DEF HostInv, HostTyped
<1>4. intent.payload \in HostPayloads /\ intent.cause \in Causes
  BY <1>3 DEF Intents
<1>5. Owed(link, intent.cause) /\ Answers(intent.payload, Asked(link, intent.cause))
  BY <1>3 DEF HostInv, ReactionsInv
<1>6. /\ k \in Clients /\ Answerable(link[k], n)
      /\ Answers(intent.payload, link[k].received[n + 1])
  BY <1>5 DEF Owed, Asked, Causes
<1>7. link[k] \in LinksOf(P) /\ LinkInv(link[k]) /\ HostTyped(P) /\ LinksInv
  BY <1>6 DEF HostInv, HostTyped, LinksInv
<1> HIDE DEF intent, k, n
<1>8. r \in LinksOf(P) /\ LinkInv(r) /\ Grew(link[k], r)
  BY <1>2, <1>4, <1>6, <1>7, AnswerInv
<1>9. \/ r.toServer = link[k].toServer
      \/ /\ Len(r.toServer) = Len(link[k].toServer) + 1
         /\ r.toServer[Len(link[k].toServer) + 1].cause = n
         /\ r.toServer[Len(link[k].toServer) + 1].payload = intent.payload
  <2>1. Ordered(link[k]) /\ n \in Nat
    BY <1>4, <1>7 DEF LinkInv, Causes, n
  <2>2. r = link[k] \/ Kept(link[k], r) \/ Said(link[k], r, n, intent.payload)
    BY <1>2, <1>4, <1>7, <2>1, SentShape
  <2>3. CASE Said(link[k], r, n, intent.payload)
    BY <1>7, <2>3 DEF Said, LinksOf
  <2> QED BY <2>2, <2>3 DEF Kept
<1>10. LinksStep(P)
  BY ReactLinks
<1>11. SupervisorOK' /\ ExecutionsStay /\ execs' = execs /\ Len(execs') = Len(execs)
  BY <1>1, SupervisorKept, NoExecutionChanges DEF HostInv, SupervisorOK, supervisor
<1>12. WaitingInv' /\ OriginInv' /\ waiting' \in Seq(Causes)
  BY <1>1, <1>7, <1>10, <1>11, WaitingStays, OriginsStay DEF HostTyped
<1>13. /\ reactions' \in Seq(Intents) /\ Len(reactions') = Len(reactions) - 1
       /\ \A i \in 1..Len(reactions') :
            i + 1 \in 1..Len(reactions) /\ reactions'[i] = reactions[i + 1]
  BY <1>1, <1>3
<1>14. ReactionsInv'
  <2>1. \A i \in 1..Len(reactions) :
          /\ Owed(link', reactions[i].cause)
          /\ Answers(reactions[i].payload, Asked(link', reactions[i].cause))
    BY <1>7, <1>10, OwedStays DEF HostInv, ReactionsInv
  <2> QED BY <1>13, <2>1 DEF ReactionsInv
<1>15. ASSUME NEW e \in 1..Len(execs)
       PROVE  \/ /\ Statements(e)' = Statements(e)
                 /\ \A i \in Statements(e) : Told(e, i)' = Told(e, i)
              \/ /\ reactions[1].cause = origin[e]
                 /\ \E z \in Nat :
                      /\ Statements(e)' = Statements(e) \union {z}
                      /\ \A i \in Statements(e) : Told(e, i)' = Told(e, i) /\ i \in Nat /\ i < z
                      /\ Told(e, z)' = reactions[1].payload
  <2> DEFINE K == origin[e].client
             N == origin[e].seq
  <2>1. K \in Clients /\ origin[e] \in Causes
    BY DEF HostInv, OriginInv, Owed, Causes
  <2>3. CASE K # k \/ r.toServer = link[k].toServer
    <3>1. link'[K].toServer = link[K].toServer
      BY <1>2, <1>7, <2>1, <2>3 DEF HostTyped
    <3>2. /\ Statements(e)' = Statements(e)
          /\ \A i \in Statements(e) : Told(e, i)' = Told(e, i)
      BY <1>1, <3>1 DEF Statements, Told, AnswersIn
    <3> QED BY <3>2
  <2>4. CASE K = k /\ r.toServer # link[k].toServer
    <3> PICK z : z = Len(link[k].toServer) + 1
      OBVIOUS
    <3>1. /\ Len(r.toServer) = z /\ r.toServer[z].cause = n
          /\ r.toServer[z].payload = intent.payload
      BY <1>9, <2>4
    <3>2. link'[k] = r
      BY <1>2, <1>6, <1>7 DEF HostTyped
    <3>3. /\ \A i \in AnswersIn(link[k], N) : i < z /\ r.toServer[i] = link[k].toServer[i]
          /\ n # N => AnswersIn(r, N) = AnswersIn(link[k], N)
          /\ n = N => AnswersIn(r, N) \in {AnswersIn(link[k], N), AnswersIn(link[k], N) \union {z}}
      <4>1. PICK l : l = link[k]
        OBVIOUS
      <4>2. l \in LinksOf(P) /\ r \in LinksOf(P) /\ Grew(l, r) /\ z = Len(l.toServer) + 1
        BY <1>7, <1>8, <4>1
      <4>3. PICK q : q = N
        OBVIOUS
      <4>4. /\ \A i \in AnswersIn(l, q) : i < z /\ r.toServer[i] = l.toServer[i]
            /\ n # q => AnswersIn(r, q) = AnswersIn(l, q)
            /\ n = q => AnswersIn(r, q) \in {AnswersIn(l, q), AnswersIn(l, q) \union {z}}
        <5>1. Len(r.toServer) = z
          BY <3>1
        <5>2. /\ \A i \in AnswersIn(l, q) : i < z /\ r.toServer[i] = l.toServer[i]
              /\ r.toServer[z].cause # q => AnswersIn(r, q) = AnswersIn(l, q)
              /\ r.toServer[z].cause = q =>
                   AnswersIn(r, q) \in {AnswersIn(l, q), AnswersIn(l, q) \union {z}}
          BY <4>2, <5>1, OneMoreMessage
        <5> QED BY <3>1, <5>2
      <4> QED BY <4>1, <4>3, <4>4
    <3>4. /\ Statements(e) = AnswersIn(link[k], N) /\ Statements(e)' = AnswersIn(r, N)
          /\ \A i \in Statements(e) : Told(e, i)' = Told(e, i) /\ i < z
          /\ Told(e, z)' = intent.payload
      <4>1. origin' = origin /\ link'[K] = r /\ link[K] = link[k]
        BY <1>1, <2>4, <3>2
      <4>2. Statements(e) = AnswersIn(link[k], N) /\ Statements(e)' = AnswersIn(r, N)
        BY <4>1 DEF Statements
      <4>3. \A i : /\ Told(e, i) = link[k].toServer[i].payload
                  /\ Told(e, i)' = r.toServer[i].payload
        BY <4>1 DEF Told
      <4>4. ASSUME NEW i \in Statements(e) PROVE Told(e, i)' = Told(e, i) /\ i < z
        <5>1. i \in AnswersIn(link[k], N)
          BY <4>2, <4>4
        <5>2. i < z /\ r.toServer[i] = link[k].toServer[i]
          BY <3>3, <5>1
        <5> QED BY <4>3, <5>2
      <4>5. Told(e, z)' = intent.payload
        BY <3>1, <4>3
      <4> QED BY <4>2, <4>4, <4>5
    <3>5. z \in Nat /\ \A i \in Statements(e) : i \in Nat
      BY <1>7, StatementsAreTyped DEF LinksOf
    <3>6. CASE n = N /\ Statements(e)' = Statements(e) \union {z}
      <4>1. reactions[1].cause = origin[e]
        <5>1. intent.cause \in Causes /\ intent.cause.client = K /\ intent.cause.seq = N
          BY <1>4, <2>4, <3>6 DEF k, n
        <5>2. intent.cause = origin[e]
          BY <2>1, <5>1, SameCause
        <5> QED BY <1>3, <5>2
      <4> QED BY <1>3, <3>4, <3>5, <3>6, <4>1
    <3> QED BY <3>3, <3>4, <3>6
  <2> QED BY <2>3, <2>4
<1>16. ASSUME NEW e \in 1..Len(execs), reactions[1].cause = origin[e]
       PROVE  /\ 1 \in Queued(e)
              /\ Truthful(execs[e], reactions[1].payload)
              /\ reactions[1].payload.kind = "session_report" => Statements(e) = {}
              /\ Ends(reactions[1].payload) => \A j \in Queued(e) : j <= 1
              /\ \A j \in Statements(e) : ~Ends(Told(e, j))
  <2>1. 1 \in Queued(e)
    BY <1>3, <1>16 DEF Queued
  <2> QED BY <2>1 DEF HostInv, QueuedTruthfully
<1>17. QueuedTruthfully'
  <2> SUFFICES ASSUME NEW e \in 1..Len(execs), NEW i \in Queued(e)'
               PROVE  /\ Truthful(execs[e], reactions'[i].payload)
                      /\ reactions'[i].payload.kind = "session_report" =>
                           Statements(e)' = {} /\ \A j \in Queued(e)' : i <= j
                      /\ Ends(reactions'[i].payload) => \A j \in Queued(e)' : j <= i
                      /\ \A j \in Statements(e)' : ~Ends(Told(e, j)')
    BY <1>11 DEF QueuedTruthfully
  <2>1. \A j \in Queued(e)' : j \in Nat \ {0} /\ j + 1 \in Queued(e) /\ reactions'[j] = reactions[j + 1]
    BY <1>1, <1>13 DEF Queued
  <2>2. /\ Truthful(execs[e], reactions[i + 1].payload)
        /\ reactions[i + 1].payload.kind = "session_report" =>
             Statements(e) = {} /\ \A j \in Queued(e) : i + 1 <= j
        /\ Ends(reactions[i + 1].payload) => \A j \in Queued(e) : j <= i + 1
        /\ \A j \in Statements(e) : ~Ends(Told(e, j))
    BY <2>1 DEF HostInv, QueuedTruthfully
  <2>3. /\ Ends(reactions'[i].payload) => \A j \in Queued(e)' : j <= i
        /\ reactions'[i].payload.kind = "session_report" => \A j \in Queued(e)' : i <= j
    BY <2>1, <2>2
  <2>4. CASE /\ Statements(e)' = Statements(e)
             /\ \A j \in Statements(e) : Told(e, j)' = Told(e, j)
    BY <2>1, <2>2, <2>3, <2>4
  <2>5. CASE reactions[1].cause = origin[e]
    <3>1. ~Ends(reactions[1].payload) /\ reactions[i + 1].payload.kind # "session_report"
      <4>1. 1 \in Queued(e) /\ i + 1 \in Queued(e) /\ i \in Nat \ {0}
        BY <1>16, <2>1, <2>5
      <4>2. ~(i + 1 <= 1)
        BY <4>1
      <4> QED BY <1>16, <2>2, <2>5, <4>1, <4>2
    <3>2. \A j \in Statements(e)' : ~Ends(Told(e, j)')
      BY <1>15, <2>2, <3>1
    <3> QED BY <2>1, <2>2, <2>3, <3>1, <3>2
  <2> QED BY <1>15, <2>4, <2>5
<1>18. SaidTruthfully'
  <2> SUFFICES ASSUME NEW e \in 1..Len(execs)
               PROVE  \A i \in Statements(e)' :
                        /\ Truthful(execs[e], Told(e, i)')
                        /\ Told(e, i)'.kind = "session_report" => \A j \in Statements(e)' : i <= j
                        /\ Ends(Told(e, i)') => \A j \in Statements(e)' : j <= i
    BY <1>11 DEF SaidTruthfully
  <2>1. \A i \in Statements(e) :
          /\ Truthful(execs[e], Told(e, i))
          /\ Told(e, i).kind = "session_report" => \A j \in Statements(e) : i <= j
          /\ Ends(Told(e, i)) => \A j \in Statements(e) : j <= i
    BY DEF HostInv, SaidTruthfully
  <2>2. CASE /\ Statements(e)' = Statements(e)
             /\ \A i \in Statements(e) : Told(e, i)' = Told(e, i)
    BY <2>1, <2>2
  <2>3. ASSUME reactions[1].cause = origin[e], NEW z \in Nat,
               Statements(e)' = Statements(e) \union {z},
               \A i \in Statements(e) : Told(e, i)' = Told(e, i) /\ i \in Nat /\ i < z,
               Told(e, z)' = reactions[1].payload
        PROVE  \A i \in Statements(e)' :
                 /\ Truthful(execs[e], Told(e, i)')
                 /\ Told(e, i)'.kind = "session_report" => \A j \in Statements(e)' : i <= j
                 /\ Ends(Told(e, i)') => \A j \in Statements(e)' : j <= i
    <3>1. \A j \in Statements(e)' : j <= z
      BY <2>3
    <3>2. /\ Truthful(execs[e], Told(e, z)')
          /\ Told(e, z)'.kind = "session_report" => \A j \in Statements(e)' : z <= j
      BY <1>16, <2>3
    <3>3. ASSUME NEW i \in Statements(e)
          PROVE  /\ Truthful(execs[e], Told(e, i)') /\ ~Ends(Told(e, i)')
                 /\ Told(e, i)'.kind = "session_report" => \A j \in Statements(e)' : i <= j
      <4>1. i \in Nat /\ i <= z /\ Told(e, i)' = Told(e, i) /\ ~Ends(Told(e, i))
        BY <1>16, <2>3
      <4> QED BY <2>1, <2>3, <4>1
    <3> QED BY <2>3, <3>1, <3>2, <3>3
  <2> QED BY <1>15, <2>2, <2>3
<1>19. HostTyped(P)' /\ LinksInv'
  BY <1>1, <1>7, <1>10, <1>11, <1>12, <1>13 DEF HostTyped, LinksStep, LinksInv
<1> QED BY <1>11, <1>12, <1>14, <1>17, <1>18, <1>19 DEF HostInv

------------------------------------------------------------------------------
(* What a step adds to what a link received.  This needs no types of what is  *)
(* sent, only that a link is a record with its fields.                        *)

IsLink(l) ==
    l = [ client |-> l.client, connection |-> l.connection, nextOutbound |-> l.nextOutbound,
          received |-> l.received, toServer |-> l.toServer ]

LEMMA LinksAreRecords ==
    ASSUME NEW P, HostTyped(P), NEW k \in Clients PROVE IsLink(link[k])
  BY DEF HostTyped, LinksOf, IsLink

LEMMA ClientFailedHears ==
    ASSUME NEW l, IsLink(l)
    PROVE  IsLink(ClientFailed(l)) /\ ClientFailed(l).received = l.received
  BY DEF IsLink, ClientFailed

LEMMA WrittenHears ==
    ASSUME NEW l, IsLink(l), NEW cause, NEW payload, NEW r \in Written(l, cause, payload)
    PROVE  IsLink(r) /\ r.received = l.received
<1> DEFINE tried == [l EXCEPT !.nextOutbound = @ + 1]
           envelope == [seq |-> l.nextOutbound, cause |-> cause, payload |-> payload]
<1>1. IsLink(tried) /\ tried.received = l.received
  BY DEF IsLink
<1>2. \/ r = [tried EXCEPT !.connection = "failed"]
      \/ r = [ClientFailed(tried) EXCEPT !.connection = "failed"]
      \/ r = [tried EXCEPT !.toServer = Append(@, envelope)]
  BY DEF Written, Transmitted
<1> HIDE DEF tried, envelope
<1>3. IsLink(ClientFailed(tried)) /\ ClientFailed(tried).received = tried.received
  BY <1>1, ClientFailedHears
<1>4. ASSUME NEW q, IsLink(q), q.received = l.received, r = [q EXCEPT !.connection = "failed"]
      PROVE  IsLink(r) /\ r.received = l.received
  BY <1>4 DEF IsLink
<1>5. ASSUME r = [tried EXCEPT !.toServer = Append(@, envelope)]
      PROVE  IsLink(r) /\ r.received = l.received
  BY <1>1, <1>5 DEF IsLink
<1> QED BY <1>1, <1>2, <1>3, <1>4, <1>5

LEMMA SentHears ==
    ASSUME NEW l, IsLink(l), NEW cause, NEW payload, NEW r \in Sent(l, cause, payload)
    PROVE  IsLink(r) /\ r.received = l.received
  BY WrittenHears DEF Sent

LEMMA ConsumedHears ==
    ASSUME NEW k, IsLink(link[k]), NEW m
    PROVE  /\ IsLink(Consumed(k, m))
           /\ Consumed(k, m).received = Append(link[k].received, m.payload)
<1> PICK l : l = link[k]
  OBVIOUS
<1>1. Consumed(k, m) = [l EXCEPT !.received = Append(@, m.payload)]
  BY DEF Consumed
<1> QED BY <1>1 DEF IsLink

\* A message that was expected is received, or none is.
Hears(k, m, r) ==
    \/ r.received = link[k].received
    \/ /\ Expected(k, m) /\ link[k].client = "open"
       /\ r.received = Append(link[k].received, m.payload)

LEMMA ReceiveHears ==
    ASSUME NEW P, HostTyped(P), NEW k \in Clients, NEW m, Receive(k, m)
    PROVE  \E r : link' = [link EXCEPT ![k] = r] /\ Hears(k, m, r)
<1> DEFINE q == Consumed(k, m)
<1>1. IsLink(link[k]) /\ IsLink(q) /\ q.received = Append(link[k].received, m.payload)
  BY LinksAreRecords, ConsumedHears
<1> HIDE DEF q
<1>2. \A r \in Sent(q, m.seq, Ack(m)) : IsLink(r) /\ r.received = q.received
  BY <1>1, SentHears
<1>3. \A r \in Acknowledged(k, m) : IsLink(r) /\ r.received = q.received
  BY <1>2 DEF Acknowledged, q
<1>4. ASSUME Accepts(k, m), NEW r, r.received = q.received PROVE Hears(k, m, r)
  BY <1>1, <1>4 DEF Hears, Accepts
<1>5. ASSUME Accepts(k, m), Acknowledge(k, m)
      PROVE  \E r : link' = [link EXCEPT ![k] = r] /\ Hears(k, m, r)
  BY <1>3, <1>4, <1>5 DEF Acknowledge
<1>6. ASSUME Accepts(k, m), NEW payload, AcknowledgeAndAnswer(k, m, payload)
      PROVE  \E r : link' = [link EXCEPT ![k] = r] /\ Hears(k, m, r)
  <2>1. PICK l \in Acknowledged(k, m) :
          \E r \in Sent(l, m.seq, payload) : link' = [link EXCEPT ![k] = r]
    BY <1>6 DEF AcknowledgeAndAnswer
  <2>2. PICK r \in Sent(l, m.seq, payload) : link' = [link EXCEPT ![k] = r]
    BY <2>1
  <2>3. r.received = q.received
    BY <1>3, SentHears
  <2> QED BY <1>4, <1>6, <2>2, <2>3
<1>7. CASE ReceiveRejected(k, m)
  BY <1>1, <1>7, ClientFailedHears DEF ReceiveRejected, Hears
<1>8. CASE ReceiveAck(k, m)
  BY <1>4, <1>8 DEF ReceiveAck, q
<1>9. CASE ReceiptFails(k, m)
  <2>1. PICK r \in Sent(q, m.seq, Ack(m)) : link' = [link EXCEPT ![k] = ClientFailed(r)]
    BY <1>9 DEF ReceiptFails, q
  <2>2. ClientFailed(r).received = q.received
    BY <1>2, ClientFailedHears
  <2> QED BY <1>4, <1>9, <2>1, <2>2 DEF ReceiptFails
<1>10. CASE StartThrows(k, m)
  <2>1. PICK r \in Acknowledged(k, m) : link' = [link EXCEPT ![k] = ClientFailed(r)]
    BY <1>10 DEF StartThrows
  <2>2. ClientFailed(r).received = q.received
    BY <1>3, ClientFailedHears
  <2> QED BY <1>4, <1>10, <2>1, <2>2 DEF StartThrows, MayStart, Command
<1>11. CASE \/ Initialize(k, m) \/ Start(k, m) \/ Stop(k, m) \/ Shutdown(k, m)
  BY <1>5, <1>11 DEF Initialize, Start, MayStart, Stop, Shutdown, Command
<1>12. CASE \/ InitializeForeign(k, m) \/ StartRejected(k, m) \/ LaunchFails(k, m)
            \/ StopRejected(k, m)
  BY <1>6, <1>12 DEF InitializeForeign, StartRejected, LaunchFails, MayStart, StopRejected,
                     Command
<1> QED BY <1>7, <1>8, <1>9, <1>10, <1>11, <1>12 DEF Receive

LEMMA ReceiveLinks ==
    ASSUME NEW P, Readable(P), HostInv(P), NEW k \in Clients, NEW m \in ServerMessagesOf(P),
           Receive(k, m)
    PROVE  /\ LinksStep(P)
           /\ \A j \in Clients : j # k => link'[j] = link[j]
           /\ Hears(k, m, link'[k])
<1>1. LinksStep(P)
  <2>1. CASE PassingMessage(k, m)
    BY <2>1, PassingStep, OneLinkSteps DEF HostInv
  <2>2. CASE Initialize(k, m) \/ Start(k, m) \/ Stop(k, m)
    BY <2>2, CommandOwed DEF Initialize, Start, MayStart, Stop, Command, IsCommand
  <2> QED BY <2>1, <2>2 DEF Receive, PassingMessage
<1>2. PICK r : link' = [link EXCEPT ![k] = r] /\ Hears(k, m, r)
  BY ReceiveHears DEF HostInv
<1>3. link'[k] = r /\ \A j \in Clients : j # k => link'[j] = link[j]
  BY <1>2 DEF HostInv, HostTyped
<1> QED BY <1>1, <1>2, <1>3

\* Nothing else makes a host receive.
LEMMA ClientHearsNothing ==
    ASSUME NEW P, HostInv(P), NEW k \in Clients,
           Connect(k) \/ ConnectFails(k) \/ Opens(k) \/ SocketFails(k) \/ Close(k)
    PROVE  LinksStep(P) /\ \A j \in Clients : link'[j].received = link[j].received
<1>1. LinksStep(P)
  BY ClientStep
<1>2. IsLink(link[k])
  BY LinksAreRecords DEF HostInv
<1>3. \E r : link' = [link EXCEPT ![k] = r] /\ r.received = link[k].received
  <2>1. CASE Connect(k) \/ Close(k)
    BY <1>2, <2>1 DEF Connect, Close, IsLink
  <2>2. CASE ConnectFails(k) \/ SocketFails(k)
    BY <1>2, <2>2, ClientFailedHears DEF ConnectFails, SocketFails
  <2>3. CASE Opens(k)
    <3> DEFINE o == [link[k] EXCEPT !.client = "open"]
    <3>1. PICK q \in Written(o, None, Hello) :
            link' = [link EXCEPT ![k] = IF q.connection = "failed" THEN ClientFailed(q)
                                        ELSE [q EXCEPT !.connection = "live"]]
      BY <2>3 DEF Opens
    <3>2. IsLink(o) /\ o.received = link[k].received
      BY <1>2 DEF IsLink
    <3> HIDE DEF o
    <3>3. IsLink(q) /\ q.received = link[k].received
      BY <3>2, WrittenHears
    <3>4. /\ ClientFailed(q).received = q.received
          /\ [q EXCEPT !.connection = "live"].received = q.received
      BY <3>3, ClientFailedHears DEF IsLink
    <3> QED BY <3>1, <3>3, <3>4
  <2> QED BY <2>1, <2>2, <2>3
<1> QED BY <1>1, <1>3 DEF HostInv, HostTyped

LEMMA WorkHearsNothing ==
    ASSUME NEW P, HostInv(P),
           \/ InitializationFails \/ InitializationSucceeds
           \/ \E e \in 1..Len(execs) : BackendStep(e)
           \/ React
    PROVE  LinksStep(P) /\ \A j \in Clients : link'[j].received = link[j].received
<1>1. CASE UNCHANGED link
  BY <1>1, NoLinkSteps DEF HostInv
<1>2. CASE React
  <2> DEFINE c == Head(reactions).cause
  <2>1. PICK r \in Sent(link[c.client], c.seq, Head(reactions).payload) :
          link' = [link EXCEPT ![c.client] = r]
    BY <1>2 DEF React
  <2>2. c.client \in Clients
    <3>1. reactions \in Seq(Intents) /\ reactions # <<>>
      BY <1>2 DEF React, HostInv, HostTyped
    <3>2. Head(reactions) \in Intents
      BY <3>1
    <3> QED BY <3>2 DEF Intents, Causes
  <2> HIDE DEF c
  <2>3. r.received = link[c.client].received
    BY <2>2, LinksAreRecords, SentHears DEF HostInv
  <2> QED BY <1>2, <2>1, <2>2, <2>3, ReactLinks DEF HostInv, HostTyped
<1> QED BY <1>1, <1>2 DEF InitializationFails, InitializationSucceeds, BackendStep

------------------------------------------------------------------------------
(* The theorems.                                                              *)

LEMMA NothingKeeps ==
    ASSUME NEW P, HostInv(P), UNCHANGED vars PROVE HostInv(P)'
<1>1. UNCHANGED <<supervisor, execs, link, waiting, origin, reactions>>
  BY DEF vars, supervisor
<1>2. SupervisorOK'
  BY <1>1, SupervisorKept DEF HostInv
<1>3. HostTyped(P)' /\ LinksInv'
  BY <1>1 DEF HostInv, HostTyped, LinksInv
<1>4. WaitingInv' /\ OriginInv' /\ ReactionsInv'
  BY <1>1 DEF HostInv, WaitingInv, OriginInv, ReactionsInv
<1>5. SaidTruthfully' /\ QueuedTruthfully'
  <2>1. \A e : /\ Statements(e)' = Statements(e)
               /\ \A i : Told(e, i)' = Told(e, i)
    BY <1>1 DEF Statements, Told
  <2>2. SaidTruthfully /\ QueuedTruthfully
    BY DEF HostInv
  <2>3. SaidTruthfully'
    BY <1>1, <2>1, <2>2 DEF SaidTruthfully
  <2>4. QueuedTruthfully'
    BY <1>1, <2>1, <2>2 DEF QueuedTruthfully, Queued
  <2> QED BY <2>3, <2>4
<1> QED BY <1>2, <1>3, <1>4, <1>5 DEF HostInv

LEMMA ArrivingTyped ==
    ASSUME HostInv(ServerPayloads), NEW k \in Clients
    PROVE  Arriving(k) \subseteq ServerMessagesOf(ServerPayloads)
<1> DEFINE P == ServerPayloads
<1> SUFFICES ASSUME NEW m \in Arriving(k) PROVE m \in ServerMessagesOf(P)
  OBVIOUS
<1>1. link[k] \in LinksOf(P)
  BY DEF HostInv, HostTyped
<1>2. NextInbound(k) \in Nat
  BY <1>1 DEF NextInbound, LinksOf
<1>3. [kind |-> "shutdown_host"] \in P
  BY DEF ServerPayloads, Commands
<1>4. /\ ConnectionGeneration \in Nat /\ ConnectionGeneration + 1 \in Nat
      /\ NextInbound(k) - 1 \in 0..MaxReceived => NextInbound(k) - 1 \in Nat
      /\ 0..MaxReceived \subseteq Nat /\ 0..(MaxReceived - 1) \subseteq Nat
  BY <1>2, GenerationAssumption, MaxReceivedAssumption
<1> HIDE DEF P
<1> QED BY <1>2, <1>3, <1>4 DEF Arriving, ServerMessagesOf, P

LEMMA HostStep == HostInv(ServerPayloads) /\ [Next]_vars => HostInv(ServerPayloads)'
<1> SUFFICES ASSUME HostInv(ServerPayloads), [Next]_vars PROVE HostInv(ServerPayloads)'
  OBVIOUS
<1> DEFINE P == ServerPayloads
<1>1. Readable(P)
  BY ServerPayloadsReadable
<1>2. \A k \in Clients : Arriving(k) \subseteq ServerMessagesOf(P)
  BY ArrivingTyped
<1> HIDE DEF P
<1>3. HostInv(P)
  BY DEF P
<1>4. ASSUME NEW k \in Clients,
             Connect(k) \/ ConnectFails(k) \/ Opens(k) \/ SocketFails(k) \/ Close(k)
      PROVE  HostInv(P)'
  BY <1>3, <1>4, ClientKeeps
<1>5. ASSUME NEW k \in Clients, NEW m \in Arriving(k), Receive(k, m) PROVE HostInv(P)'
  BY <1>1, <1>2, <1>3, <1>5, ReceiveKeeps
<1>6. CASE InitializationFails \/ InitializationSucceeds
  BY <1>3, <1>6, InitializationKeeps
<1>7. ASSUME NEW e \in 1..Len(execs), BackendStep(e) PROVE HostInv(P)'
  BY <1>3, <1>7, BackendKeeps
<1>8. CASE React
  BY <1>3, <1>8, ReactKeeps
<1>9. CASE UNCHANGED vars
  BY <1>3, <1>9, NothingKeeps
<1> QED BY <1>4, <1>5, <1>6, <1>7, <1>8, <1>9 DEF Next, P

LEMMA HostInit == ASSUME NEW P, Init PROVE HostInv(P)
<1>1. SupervisorOK
  BY DEF Init, Supervisor!Init, SupervisorOK, Supervisor!TypeOK, Supervisor!SessionValues,
     SupervisorFacts!SupervisorInv, SupervisorFacts!StateMatchesActive,
     SupervisorFacts!OutcomesObserved, SupervisorFacts!OnlyLastIsOpen
<1>2. HostTyped(P)
  BY DEF Init, Supervisor!Init, HostTyped, LinksOf
<1>3. LinksInv
  BY DEF Init, LinksInv, LinkInv, Ordered
<1>4. /\ execs = <<>> /\ waiting = <<>> /\ reactions = <<>>
      /\ 1..Len(execs) = {} /\ 1..Len(waiting) = {} /\ 1..Len(reactions) = {}
  BY DEF Init, Supervisor!Init
<1> QED BY <1>1, <1>2, <1>3, <1>4 DEF HostInv, WaitingInv, OriginInv, ReactionsInv,
           SaidTruthfully, QueuedTruthfully

LEMMA HostInvariant == Spec => []HostInv(ServerPayloads)
<1>1. Init => HostInv(ServerPayloads)
  BY HostInit
<1> QED BY <1>1, HostStep, PTL DEF Spec

\* The fields of the host keep their types.
THEOREM TypeCorrect == Spec => []TypeOK
<1>1. HostInv(ServerPayloads) => TypeOK
  BY TypesAgree DEF HostInv, SupervisorOK
<1> QED BY <1>1, HostInvariant, PTL

\* A command is acknowledged once, before it is answered, and nothing else is.
LEMMA ReceiptFirstHolds == HostInv(ServerPayloads) => ReceiptComesFirst
<1> SUFFICES ASSUME HostInv(ServerPayloads) PROVE ReceiptComesFirst
  OBVIOUS
<1> SUFFICES ASSUME NEW k \in Clients, NEW i \in Sends(k)
             PROVE  LET x == Sending(k, i)
                        acks(n) == {j \in Sends(k) : Sending(k, j).payload.kind = "ack"
                                                        /\ Sending(k, j).payload.acknowledged = n}
                    IN  /\ x.cause # None =>
                             /\ x.cause < NextInbound(k)
                             /\ link[k].received[x.cause + 1].kind # "ack"
                             /\ \E j \in acks(x.cause) : j <= i
                        /\ x.payload.kind = "ack" =>
                             /\ x.payload.acknowledged = x.cause
                             /\ acks(x.cause) = {i}
                             /\ \A j \in 1..(i - 1) :
                                  Sending(k, j).payload.kind = "ack" => Sending(k, j).cause < x.cause
  BY DEF ReceiptComesFirst
<1> PICK l : l = link[k]
  OBVIOUS
<1> DEFINE acks(n) == {j \in 1..Len(l.toServer) : Acknowledges(l.toServer[j], n)}
<1>1. l \in LinksOf(ServerPayloads) /\ LinkInv(l)
  BY DEF HostInv, HostTyped, LinksInv
<1>2. /\ Sends(k) = 1..Len(l.toServer) /\ NextInbound(k) = Len(l.received)
      /\ Len(l.received) \in Nat /\ Len(l.toServer) \in Nat
      /\ \A j : Sending(k, j) = l.toServer[j]
  BY <1>1 DEF Sends, NextInbound, Sending, LinksOf
<1>4. ASSUME NEW j \in 1..Len(l.toServer), l.toServer[j].payload.kind = "ack"
      PROVE  /\ Acknowledges(l.toServer[j], l.toServer[j].cause)
             /\ l.toServer[j].cause \in Nat
             /\ \A h \in 1..(j - 1) :
                  l.toServer[h].payload.kind = "ack" => l.toServer[h].cause < l.toServer[j].cause
  <2> PICK y : y = l.toServer[j]
    OBVIOUS
  <2>1. MessageOK(l, j) /\ y.payload.kind = "ack"
    BY <1>1, <1>4 DEF LinkInv
  <2>2. y.payload # Hello /\ \A command : ~Answers(y.payload, command)
    BY <2>1 DEF Hello, Answers
  <2>3. /\ y.cause \in 0..(Len(l.received) - 1)
        /\ Acknowledges(y, y.cause)
        /\ \A h \in 1..(j - 1) :
             l.toServer[h].payload.kind = "ack" => l.toServer[h].cause < y.cause
    BY <2>1, <2>2 DEF MessageOK
  <2> QED BY <1>2, <2>3
<1>5. ASSUME NEW j \in 1..Len(l.toServer), l.toServer[j].cause # None
      PROVE  /\ l.toServer[j].cause < Len(l.received)
             /\ l.received[l.toServer[j].cause + 1].kind # "ack"
             /\ \E h \in 1..j : Acknowledges(l.toServer[h], l.toServer[j].cause)
  <2>1. /\ j > 1 /\ l.toServer[j].cause \in 0..(Len(l.received) - 1)
        /\ \/ /\ Acknowledges(l.toServer[j], l.toServer[j].cause)
              /\ l.received[l.toServer[j].cause + 1].kind # "ack"
           \/ /\ Answers(l.toServer[j].payload, l.received[l.toServer[j].cause + 1])
              /\ AckedBy(l, l.toServer[j].cause, j - 1)
    BY <1>1, <1>5 DEF LinkInv, MessageOK
  <2>2. l.received[l.toServer[j].cause + 1].kind # "ack"
    BY <2>1 DEF Answers
  <2>3. \E h \in 1..j : Acknowledges(l.toServer[h], l.toServer[j].cause)
    BY <1>2, <2>1 DEF AckedBy
  <2>4. PICK c : c = l.toServer[j].cause
    OBVIOUS
  <2>5. c < Len(l.received)
    BY <1>2, <2>1, <2>4
  <2> QED BY <2>2, <2>3, <2>4, <2>5
<1>6. ASSUME l.toServer[i].payload.kind = "ack", NEW j \in acks(l.toServer[i].cause)
      PROVE  j = i
  <2>1. /\ j \in 1..Len(l.toServer) /\ i \in 1..Len(l.toServer)
        /\ l.toServer[j].payload.kind = "ack" /\ l.toServer[j].cause = l.toServer[i].cause
    BY <1>2, <1>4, <1>6 DEF Acknowledges
  <2>2. j \in 1..(i - 1) \/ i \in 1..(j - 1) \/ j = i
    BY <1>2, <2>1
  <2>3. l.toServer[i].cause \in Nat
    BY <1>4, <1>6, <2>1
  <2> QED BY <1>4, <1>6, <2>1, <2>2, <2>3
<1>7. i \in 1..Len(l.toServer)
  BY <1>2
<1>8. /\ l.toServer[i].cause # None =>
           /\ l.toServer[i].cause < Len(l.received)
           /\ l.received[l.toServer[i].cause + 1].kind # "ack"
           /\ \E j \in acks(l.toServer[i].cause) : j <= i
      /\ l.toServer[i].payload.kind = "ack" =>
           /\ l.toServer[i].payload.acknowledged = l.toServer[i].cause
           /\ acks(l.toServer[i].cause) = {i}
           /\ \A j \in 1..(i - 1) :
                l.toServer[j].payload.kind = "ack" => l.toServer[j].cause < l.toServer[i].cause
  <2>1. ASSUME l.toServer[i].cause # None
        PROVE  \E j \in acks(l.toServer[i].cause) : j <= i
    BY <1>2, <1>5, <1>7, <2>1
  <2>2. ASSUME l.toServer[i].payload.kind = "ack"
        PROVE  /\ l.toServer[i].payload.acknowledged = l.toServer[i].cause
               /\ acks(l.toServer[i].cause) = {i}
    BY <1>4, <1>6, <1>7, <2>2 DEF Acknowledges
  <2> QED BY <1>4, <1>5, <1>7, <2>1, <2>2
<1>9. \A n : {j \in Sends(k) : Sending(k, j).payload.kind = "ack"
                                  /\ Sending(k, j).payload.acknowledged = n} = acks(n)
  BY <1>2 DEF Acknowledges
<1>10. Sending(k, i) = l.toServer[i] /\ link[k] = l
  BY <1>2
<1> HIDE DEF acks
<1> QED BY <1>2, <1>8, <1>9, <1>10

\* A server that sees an answer knows that its command was received.
THEOREM ReceiptFirst == Spec => []ReceiptComesFirst
  BY ReceiptFirstHolds, HostInvariant, PTL

\* What is told of an execution is what became of it.
LEMMA ReportsTrueHolds ==
    ASSUME NEW P, HostInv(P) PROVE ReportsTruthful
<1> SUFFICES ASSUME NEW e \in 1..Len(execs)
             PROVE  LET k == origin[e].client
                        said == AnswersTo(k, origin[e].seq)
                    IN  \A i \in said :
                          LET p == Sending(k, i).payload IN
                            /\ p.id = execs[e].inv.id
                            /\ p.kind = "session_report" =>
                                 p.session = execs[e].session /\ \A j \in said : i <= j
                            /\ p.kind = "invocation_result" =>
                                 /\ execs[e].outcome = "result"
                                 /\ p.fact = execs[e].value.fact
                                 /\ p.session = Supervisor!ResolvedSession(e)
                            /\ p.kind = "host_fault" => execs[e].outcome = "failure"
                            /\ IsTerminal(Sending(k, i)) => \A j \in said : j <= i
  BY DEF ReportsTruthful
<1> DEFINE k == origin[e].client
<1>1. k \in Clients
  BY DEF HostInv, OriginInv, Owed, Causes
<1>2. link[k] \in LinksOf(P)
  BY <1>1 DEF HostInv, HostTyped
<1>3. DOMAIN link[k].toServer = 1..Len(link[k].toServer)
  BY <1>2 DEF LinksOf
<1>4. AnswersTo(k, origin[e].seq) = Statements(e)
  BY <1>3 DEF AnswersTo, Statements, AnswersIn, Sends, Sending
<1>5. \A i : /\ Sending(k, i).payload = Told(e, i)
             /\ IsTerminal(Sending(k, i)) <=> Ends(Told(e, i))
  BY DEF Sending, Told, IsTerminal, Ends
<1>6. \A i \in Statements(e) :
        /\ Truthful(execs[e], Told(e, i))
        /\ Told(e, i).kind = "session_report" => \A j \in Statements(e) : i <= j
        /\ Ends(Told(e, i)) => \A j \in Statements(e) : j <= i
  BY DEF HostInv, SaidTruthfully
<1> QED BY <1>4, <1>5, <1>6 DEF Truthful, Supervisor!ResolvedSession

\* What the server is told of an execution is what became of it, and in order.
THEOREM ReportsTrue == Spec => []ReportsTruthful
<1>1. HostInv(ServerPayloads) => ReportsTruthful
  BY ReportsTrueHolds
<1> QED BY <1>1, HostInvariant, PTL

------------------------------------------------------------------------------
(* No command is forgotten.  Before a link lives it receives nothing; and     *)
(* what it received while it lives was answered, or somebody owes the answer: *)
(* a queued reaction, the reservation, or an execution that has not ended.    *)

Replied(l, n) ==
    \E i \in 1..Len(l.toServer) :
        l.toServer[i].cause = n /\ l.toServer[i].payload.kind # "ack"
Ended(l, n) ==
    \E i \in 1..Len(l.toServer) : l.toServer[i].cause = n /\ Ends(l.toServer[i].payload)

Promised(c) == \E i \in 1..Len(reactions) : reactions[i].cause = c
EndPromised(c) ==
    \E i \in 1..Len(reactions) : reactions[i].cause = c /\ Ends(reactions[i].payload)
Waits(c) == initialization # None /\ \E i \in 1..Len(waiting) : waiting[i] = c
Runs(c) == \E e \in 1..Len(execs) : origin[e] = c /\ execs[e].outcome = "none"

CommandOf(k, n) == [client |-> k, seq |-> n]

\* Stronger than the property: a start waits for the end of its execution, and
\* not for its session.
Accounted(k, n) ==
    /\ link[k].received[n + 1].kind = "initialize_actor_host" =>
         Replied(link[k], n) \/ Promised(CommandOf(k, n)) \/ Waits(CommandOf(k, n))
    /\ link[k].received[n + 1].kind = "start_invocation" =>
         Ended(link[k], n) \/ EndPromised(CommandOf(k, n)) \/ Runs(CommandOf(k, n))

AccountInv ==
    \A k \in Clients :
        /\ link[k].connection = "not_started" => link[k].received = <<>>
        /\ link[k].connection = "live" =>
             \A n \in 0..(Len(link[k].received) - 1) : Accounted(k, n)

\* What a link said it has said.
LEMMA RepliesStay ==
    ASSUME NEW P, NEW l \in LinksOf(P), NEW r \in LinksOf(P), Grew(l, r), NEW n
    PROVE  (Replied(l, n) => Replied(r, n)) /\ (Ended(l, n) => Ended(r, n))
<1>1. \A i \in 1..Len(l.toServer) : i \in 1..Len(r.toServer) /\ r.toServer[i] = l.toServer[i]
  BY DEF Grew, LinksOf
<1> QED BY <1>1 DEF Replied, Ended

\* An answer that a link sends is its reply, and the end if it is the end of an
\* invocation; or the link fails.
LEMMA ReplySent ==
    ASSUME NEW P, NEW l \in LinksOf(P), Ordered(l), NEW n \in Nat, NEW payload \in HostPayloads,
           payload.kind # "ack", NEW r \in Sent(l, n, payload), r.connection = "live"
    PROVE  Replied(r, n) /\ (Ends(payload) => Ended(r, n))
<1>1. r \in LinksOf(P)
  BY SentShape
<1>2. l.connection = "live" /\ Said(l, r, n, payload)
  BY SentShape DEF Kept
<1>3. PICK i : i = Len(r.toServer)
  OBVIOUS
<1>4. /\ i \in 1..Len(r.toServer)
      /\ r.toServer[i] = [seq |-> l.nextOutbound, cause |-> n, payload |-> payload]
  BY <1>2, <1>3 DEF Said, LinksOf
<1>5. r.toServer[i].cause = n /\ r.toServer[i].payload = payload
  BY <1>4
<1> QED BY <1>4, <1>5 DEF Replied, Ended

\* How a step accounts for the commands that were received before it, and for
\* those it receives.
DebtsKept ==
    \A k \in Clients : link'[k].connection = "live" =>
        \A n \in Nat :
            /\ Promised(CommandOf(k, n)) \/ Waits(CommandOf(k, n)) =>
                 \/ Replied(link'[k], n)
                 \/ Promised(CommandOf(k, n))' \/ Waits(CommandOf(k, n))'
            /\ EndPromised(CommandOf(k, n)) \/ Runs(CommandOf(k, n)) =>
                 \/ Ended(link'[k], n)
                 \/ EndPromised(CommandOf(k, n))' \/ Runs(CommandOf(k, n))'

NewAccounted ==
    \A k \in Clients : link'[k].connection = "live" =>
        \A n \in Len(link[k].received)..(Len(link'[k].received) - 1) : Accounted(k, n)'

\* A connection that failed stays failed, and one that has not begun receives
\* nothing.
ConnectionsAge ==
    \A k \in Clients :
        /\ link[k].connection = "failed" => link'[k].connection = "failed"
        /\ link'[k].connection = "not_started" => link[k].connection = "not_started"
        /\ link[k].connection = "not_started" => link'[k].received = link[k].received

LEMMA AccountStep ==
    ASSUME NEW P, HostTyped(P), AccountInv, LinksStep(P), ConnectionsAge, DebtsKept, NewAccounted
    PROVE  AccountInv'
<1> SUFFICES ASSUME NEW k \in Clients
             PROVE  /\ link'[k].connection = "not_started" => link'[k].received = <<>>
                    /\ link'[k].connection = "live" =>
                         \A n \in 0..(Len(link'[k].received) - 1) : Accounted(k, n)'
  BY DEF AccountInv
<1> PICK l : l = link[k]
  OBVIOUS
<1> PICK r : r = link'[k]
  OBVIOUS
<1>1. /\ l \in LinksOf(P) /\ r \in LinksOf(P) /\ Grew(l, r)
      /\ Len(l.received) \in Nat /\ Len(r.received) \in Nat
  BY DEF HostTyped, LinksStep, LinksOf
<1>2. r.connection = "not_started" => r.received = <<>>
  BY DEF ConnectionsAge, AccountInv
<1>3. ASSUME r.connection = "live", NEW n \in 0..(Len(r.received) - 1)
      PROVE  Accounted(k, n)'
  <2>1. l.connection = "live" \/ (l.connection = "not_started" /\ r.received = <<>>)
    BY <1>1, <1>3 DEF ConnectionsAge, AccountInv, LinksOf
  <2>2. CASE n \in 0..(Len(l.received) - 1) /\ l.connection = "live"
    <3>1. Accounted(k, n)
      BY <2>2 DEF AccountInv
    <3>2. r.received[n + 1] = l.received[n + 1]
      BY <1>1, <2>2 DEF Grew
    <3>3. (Replied(l, n) => Replied(r, n)) /\ (Ended(l, n) => Ended(r, n))
      BY <1>1, RepliesStay
    <3>4. n \in Nat
      OBVIOUS
    <3> QED BY <1>3, <3>1, <3>2, <3>3, <3>4 DEF Accounted, DebtsKept
  <2>3. CASE n \in Len(l.received)..(Len(r.received) - 1)
    BY <1>3, <2>3 DEF NewAccounted
  <2>4. r.received = <<>> => FALSE
    BY <1>3
  <2> QED BY <1>1, <1>3, <2>1, <2>2, <2>3, <2>4
<1> QED BY <1>2, <1>3

\* A step that changes neither what is queued, nor who waits, nor an execution.
LEMMA NoDebtChanges ==
    ASSUME UNCHANGED <<reactions, waiting, initialization, origin, execs>> PROVE DebtsKept
  BY DEF DebtsKept, Promised, EndPromised, Waits, Runs

\* An answer that is queued is promised, and what was promised still is.
LEMMA OneMorePromised ==
    ASSUME NEW P, HostInv(P), NEW c, NEW p,
           reactions' = Append(reactions, [cause |-> c, payload |-> p])
    PROVE  /\ Promised(c)' /\ (Ends(p) => EndPromised(c)')
           /\ \A d : (Promised(d) => Promised(d)') /\ (EndPromised(d) => EndPromised(d)')
<1>1. /\ Len(reactions) + 1 \in 1..Len(reactions')
      /\ reactions'[Len(reactions) + 1] = [cause |-> c, payload |-> p]
      /\ \A i \in 1..Len(reactions) : i \in 1..Len(reactions') /\ reactions'[i] = reactions[i]
  BY DEF HostInv, HostTyped
<1>2. [cause |-> c, payload |-> p].cause = c /\ [cause |-> c, payload |-> p].payload = p
  OBVIOUS
<1> QED BY <1>1, <1>2 DEF Promised, EndPromised

\* The client and its connection.
LEMMA ClientAccounts ==
    ASSUME NEW P, HostInv(P), AccountInv, NEW k \in Clients,
           Connect(k) \/ ConnectFails(k) \/ Opens(k) \/ SocketFails(k) \/ Close(k)
    PROVE  AccountInv'
<1>1. LinksStep(P) /\ \A j \in Clients : link'[j].received = link[j].received
  BY ClientHearsNothing
<1>2. IsLink(link[k]) /\ LinkInv(link[k]) /\ link \in [Clients -> LinksOf(P)]
  BY LinksAreRecords DEF HostInv, HostTyped, LinksInv
<1>3. \E r : /\ link' = [link EXCEPT ![k] = r]
             /\ link[k].connection = "failed" => r.connection = "failed"
             /\ r.connection = "not_started" => link[k].connection = "not_started"
  <2>1. CASE Connect(k) \/ Close(k)
    BY <1>2, <2>1 DEF Connect, Close, IsLink
  <2>2. CASE ConnectFails(k) \/ SocketFails(k)
    <3>1. LET r == ClientFailed(link[k]) IN r = link[k] \/ r.connection = "failed"
      BY <1>2 DEF ClientFailed, IsLink
    <3> QED BY <2>2, <3>1 DEF ConnectFails, SocketFails
  <2>3. CASE Opens(k)
    <3>1. PICK q \in Written([link[k] EXCEPT !.client = "open"], None, Hello) :
            link' = [link EXCEPT ![k] = IF q.connection = "failed" THEN ClientFailed(q)
                                        ELSE [q EXCEPT !.connection = "live"]]
      BY <2>3 DEF Opens
    <3>2. link[k].connection = "not_started"
      BY <1>2, <2>3 DEF Opens, LinkInv, Ordered
    <3> QED BY <3>1, <3>2
  <2> QED BY <2>1, <2>2, <2>3
<1>4. ConnectionsAge
  BY <1>1, <1>2, <1>3 DEF ConnectionsAge
<1>5. UNCHANGED <<supervisor, waiting, origin, reactions>>
  BY DEF Connect, ConnectFails, Opens, SocketFails, Close
<1>6. DebtsKept
  BY <1>5, NoDebtChanges DEF supervisor
<1>7. NewAccounted
  <2>1. \A j \in Clients : Len(link[j].received)..(Len(link'[j].received) - 1) = {}
    BY <1>1, <1>2 DEF LinksOf
  <2> QED BY <2>1 DEF NewAccounted
<1> QED BY <1>1, <1>4, <1>6, <1>7, AccountStep DEF HostInv

\* The reservation settles, and everybody who waited is promised an answer.
LEMMA InitializationAccounts ==
    ASSUME NEW P, HostInv(P), AccountInv, InitializationFails \/ InitializationSucceeds
    PROVE  AccountInv'
<1>1. /\ UNCHANGED <<link, origin, execs>> /\ Quiet
      /\ \E payload : AnswerAll(payload)
  BY DEF InitializationFails, InitializationSucceeds, Supervisor!InitializationFails,
         Supervisor!InitializationSucceeds
<1>2. LinksStep(P)
  BY <1>1, NoLinkSteps DEF HostInv
<1>3. ConnectionsAge
  BY <1>1 DEF ConnectionsAge
<1>4. DebtsKept
  <2>1. ASSUME NEW c PROVE ~Promised(c) /\ ~EndPromised(c)
    BY <1>1 DEF Quiet, Promised, EndPromised
  <2>2. ASSUME NEW c, Waits(c) PROVE Promised(c)'
    <3>1. PICK payload : AnswerAll(payload)
      BY <1>1
    <3>2. /\ reactions' = [i \in 1..Len(waiting) |-> [cause |-> waiting[i], payload |-> payload]]
          /\ Len(waiting) \in Nat
      BY <3>1 DEF AnswerAll, HostInv, HostTyped
    <3>3. Len(reactions') = Len(waiting)
      BY <3>2
    <3>4. PICK i \in 1..Len(waiting) : waiting[i] = c
      BY <2>2 DEF Waits
    <3>5. reactions'[i].cause = c
      BY <3>2, <3>4
    <3> QED BY <3>3, <3>4, <3>5 DEF Promised
  <2>3. ASSUME NEW c, Runs(c) PROVE Runs(c)'
    BY <1>1, <2>3 DEF Runs
  <2> QED BY <2>1, <2>2, <2>3 DEF DebtsKept
<1>5. NewAccounted
  <2>1. \A j \in Clients : Len(link[j].received)..(Len(link'[j].received) - 1) = {}
    BY <1>1 DEF HostInv, HostTyped, LinksOf
  <2> QED BY <2>1 DEF NewAccounted
<1> QED BY <1>2, <1>3, <1>4, <1>5, AccountStep DEF HostInv

\* A backend that does something leaves every execution open, or tells how it
\* ended.
LEMMA OutcomesTold ==
    ASSUME NEW P, HostInv(P), NEW e \in 1..Len(execs), BackendStep(e)
    PROVE  /\ Len(execs') = Len(execs)
           /\ \A d \in 1..Len(execs) : execs[d].outcome = "none" =>
                \/ execs'[d].outcome = "none"
                \/ \E p : Ends(p) /\ Tell(d, p)
<1>1. /\ SupervisorOK /\ execs[e].inv.id \in InvocationIds
      /\ execs[e].inv.id # None
  BY ExecutionTyped, NoneAssumption DEF HostInv, SupervisorOK
<1>0. ASSUME NEW x, Supervisor!Fail(e, x) PROVE \E y : execs' = [execs EXCEPT ![e] = y]
  BY <1>0 DEF Supervisor!Fail
<1>2. \E y : execs' = [execs EXCEPT ![e] = y]
  <2>1. CASE SessionRejects(e) \/ CompletionRejects(e) \/ StopRejects(e)
    BY <1>0, <2>1 DEF SessionRejects, CompletionRejects, StopRejects, Supervisor!SessionRejects,
                      Supervisor!CompletionRejects, Supervisor!StopRejects
  <2>2. CASE \E s : SessionResolves(e, s)
    BY <2>2 DEF SessionResolves, Supervisor!SessionResolves
  <2>3. CASE \E c : CompletionResolves(e, c)
    BY <2>3 DEF CompletionResolves, Supervisor!CompletionResolves
  <2>4. CASE Finish(e)
    BY <2>4 DEF Finish, Supervisor!Finish
  <2> QED BY <2>1, <2>2, <2>3, <2>4 DEF BackendStep
<1>3. SUFFICES /\ Len(execs') = Len(execs)
               /\ execs[e].outcome = "none" =>
                    execs'[e].outcome = "none" \/ \E p : Ends(p) /\ Tell(e, p)
  <2>1. \A d \in 1..Len(execs) : d # e => execs'[d] = execs[d]
    BY <1>1, <1>2 DEF SupervisorOK, Supervisor!TypeOK
  <2> QED BY <2>1
<1>4. ASSUME NEW s \in Supervisor!SessionValues, SessionResolves(e, s)
      PROVE  Len(execs') = Len(execs) /\ execs'[e].outcome = execs[e].outcome
  BY <1>1, <1>4, SessionResolvesStays DEF SessionResolves
<1>5. ASSUME NEW code, TellFailure(e, code),
             \/ Supervisor!SessionRejects(e)
             \/ Supervisor!CompletionRejects(e)
             \/ Supervisor!StopRejects(e)
      PROVE  /\ Len(execs') = Len(execs)
             /\ execs[e].outcome = "none" => \E p : Ends(p) /\ Tell(e, p)
  <2>1. Len(execs') = Len(execs)
    BY <1>1, <1>5, RejectionStays
  <2>2. execs[e].outcome = "none" => Supervisor!IsActive(e)
    BY <1>1 DEF SupervisorOK, SupervisorFacts!SupervisorInv, SupervisorFacts!StateMatchesActive,
       Supervisor!IsActive
  <2>3. Ends(Fault(execs[e].inv.id, code))
    BY <1>1 DEF Ends, Fault
  <2> QED BY <1>5, <2>1, <2>2, <2>3 DEF TellFailure
<1>6. CASE SessionRejects(e) \/ CompletionRejects(e) \/ StopRejects(e)
  BY <1>5, <1>6 DEF SessionRejects, CompletionRejects, StopRejects
<1>7. ASSUME NEW c \in Supervisor!Completions, CompletionResolves(e, c)
      PROVE  Len(execs') = Len(execs) /\ execs'[e].outcome = execs[e].outcome
  <2>1. /\ execs' = [execs EXCEPT ![e] = [execs[e] EXCEPT !.completion = "fulfilled",
                                              !.value = c, !.completionSettled = TRUE]]
        /\ execs[e] \in Supervisor!Executions /\ execs \in Seq(Supervisor!Executions)
    BY <1>1, <1>7, ExecutionTyped DEF CompletionResolves, Supervisor!CompletionResolves,
       SupervisorOK, Supervisor!TypeOK
  <2>2. [execs[e] EXCEPT !.completion = "fulfilled", !.value = c, !.completionSettled = TRUE].outcome
          = execs[e].outcome
    BY <2>1 DEF Supervisor!Executions
  <2> QED BY <2>1, <2>2
<1>8. CASE Finish(e)
  <2>1. Len(execs') = Len(execs)
    BY <1>1, <1>8, FinishStays DEF Finish
  <2>2. \A id, s, fact : Ends(Result(id, s, fact))
    BY DEF Ends, Result
  <2> QED BY <1>8, <2>1, <2>2 DEF Finish
<1> QED BY <1>4, <1>6, <1>7, <1>8 DEF BackendStep

LEMMA BackendAccounts ==
    ASSUME NEW P, HostInv(P), AccountInv, NEW e \in 1..Len(execs), BackendStep(e)
    PROVE  AccountInv'
<1>1. Quiet /\ UNCHANGED <<link, origin, waiting, initialization>>
  BY DEF BackendStep, SessionResolves, SessionRejects, CompletionResolves, CompletionRejects,
         StopRejects, Finish, Supervisor!SessionResolves, Supervisor!SessionRejects,
         Supervisor!CompletionResolves, Supervisor!CompletionRejects, Supervisor!StopRejects,
         Supervisor!Finish
<1>2. LinksStep(P)
  BY <1>1, NoLinkSteps DEF HostInv
<1>3. ConnectionsAge
  BY <1>1 DEF ConnectionsAge
<1>4. DebtsKept
  <2>1. ASSUME NEW c PROVE ~Promised(c) /\ ~EndPromised(c)
    BY <1>1 DEF Quiet, Promised, EndPromised
  <2>2. ASSUME NEW c, Waits(c) PROVE Waits(c)'
    BY <1>1, <2>2 DEF Waits
  <2>3. ASSUME NEW c, Runs(c) PROVE Runs(c)' \/ EndPromised(c)'
    <3>1. PICK d \in 1..Len(execs) : origin[d] = c /\ execs[d].outcome = "none"
      BY <2>3 DEF Runs
    <3>2. CASE execs'[d].outcome = "none"
      BY <1>1, <3>1, <3>2, OutcomesTold DEF Runs
    <3>3. ASSUME NEW p, Ends(p), Tell(d, p) PROVE EndPromised(c)'
      <4>1. reactions' = <<[cause |-> c, payload |-> p]>>
        BY <3>1, <3>3 DEF Tell
      <4> QED BY <3>3, <4>1 DEF EndPromised
    <3> QED BY <3>1, <3>2, <3>3, OutcomesTold
  <2> QED BY <2>1, <2>2, <2>3 DEF DebtsKept
<1>5. NewAccounted
  <2>1. \A j \in Clients : Len(link[j].received)..(Len(link'[j].received) - 1) = {}
    BY <1>1 DEF HostInv, HostTyped, LinksOf
  <2> QED BY <2>1 DEF NewAccounted
<1> QED BY <1>2, <1>3, <1>4, <1>5, AccountStep DEF HostInv

\* A queued reaction is sent, or its connection does not live.
LEMMA ReactAccounts ==
    ASSUME NEW P, HostInv(P), AccountInv, React
    PROVE  AccountInv'
<1> DEFINE intent == Head(reactions)
           k == intent.cause.client
           n == intent.cause.seq
<1>1. /\ reactions # <<>> /\ reactions' = Tail(reactions)
      /\ UNCHANGED <<supervisor, waiting, origin>>
  BY DEF React
<1>2. PICK r \in Sent(link[k], n, intent.payload) : link' = [link EXCEPT ![k] = r]
  BY DEF React
<1>3. /\ Len(reactions) \in Nat \ {0} /\ reactions \in Seq(Intents)
      /\ intent = reactions[1] /\ intent \in Intents /\ 1 \in 1..Len(reactions)
  BY <1>1 DEF HostInv, HostTyped
<1>4. /\ intent.payload \in HostPayloads /\ intent.cause \in Causes
      /\ k \in Clients /\ n \in Nat
  BY <1>3 DEF Intents, Causes
<1>5. intent.payload.kind # "ack"
  BY <1>3 DEF HostInv, ReactionsInv, Answers
<1>6. link[k] \in LinksOf(P) /\ Ordered(link[k]) /\ link \in [Clients -> LinksOf(P)]
  BY <1>4 DEF HostInv, HostTyped, LinksInv, LinkInv
<1>7. LinksStep(P) /\ \A j \in Clients : link'[j].received = link[j].received
  BY ReactLinks, WorkHearsNothing
<1> HIDE DEF intent, k, n
<1>8. link'[k] = r /\ \A j \in Clients : j # k => link'[j] = link[j]
  BY <1>2, <1>4, <1>6
<1>9. ConnectionsAge
  <2>0. r = link[k] \/ r.connection = "failed" \/ Said(link[k], r, n, intent.payload)
    BY <1>2, <1>4, <1>6, SentShape
  <2>1. r.connection = link[k].connection \/ r.connection = "failed"
    BY <2>0 DEF Said
  <2>2. r.connection # link[k].connection => link[k].connection = "live"
    BY <1>2, <1>4, <1>6 DEF Sent
  <2> QED BY <1>4, <1>7, <1>8, <2>1, <2>2 DEF ConnectionsAge
<1>10. \A i \in 1..Len(reactions) :
         i = 1 \/ (i - 1 \in 1..Len(reactions') /\ reactions'[i - 1] = reactions[i])
  BY <1>1, <1>3
<1>11. DebtsKept
  <2> SUFFICES ASSUME NEW j \in Clients, link'[j].connection = "live", NEW t \in Nat,
                      NEW c, c = CommandOf(j, t)
               PROVE  /\ Promised(c) => Replied(link'[j], t) \/ Promised(c)'
                      /\ Waits(c) => Waits(c)'
                      /\ EndPromised(c) => Ended(link'[j], t) \/ EndPromised(c)'
                      /\ Runs(c) => Runs(c)'
    BY DEF DebtsKept
  <2>1. (Waits(c) => Waits(c)') /\ (Runs(c) => Runs(c)')
    BY <1>1 DEF Waits, Runs, supervisor
  <2>2. reactions[1].cause = c =>
          /\ Replied(link'[j], t)
          /\ Ends(reactions[1].payload) => Ended(link'[j], t)
    <3> SUFFICES ASSUME reactions[1].cause = c
                 PROVE  /\ Replied(link'[j], t)
                        /\ Ends(reactions[1].payload) => Ended(link'[j], t)
      OBVIOUS
    <3>1. k = j /\ n = t
      BY <1>3 DEF k, n, CommandOf
    <3>2. link'[j] = r
      BY <1>8, <3>1
    <3> QED BY <1>2, <1>3, <1>4, <1>5, <1>6, <3>1, <3>2, ReplySent
  <2>3. Promised(c) => Replied(link'[j], t) \/ Promised(c)'
    BY <1>10, <2>2 DEF Promised
  <2>4. EndPromised(c) => Ended(link'[j], t) \/ EndPromised(c)'
    BY <1>10, <2>2 DEF EndPromised
  <2> QED BY <2>1, <2>3, <2>4
<1>12. NewAccounted
  <2>1. \A j \in Clients : Len(link[j].received)..(Len(link'[j].received) - 1) = {}
    BY <1>6, <1>7 DEF LinksOf
  <2> QED BY <2>1 DEF NewAccounted
<1> QED BY <1>7, <1>9, <1>11, <1>12, AccountStep DEF HostInv

\* A message that arrives is accounted for if it leaves all debts, and its own
\* is taken on.
Answered(k, m) ==
    link'[k].connection = "live" =>
        /\ m.payload.kind = "initialize_actor_host" =>
             Replied(link'[k], m.seq) \/ Promised(Cause(k, m))' \/ Waits(Cause(k, m))'
        /\ m.payload.kind = "start_invocation" =>
             Ended(link'[k], m.seq) \/ EndPromised(Cause(k, m))' \/ Runs(Cause(k, m))'

LEMMA AcceptedAccounts ==
    ASSUME NEW P, Readable(P), HostInv(P), AccountInv, NEW k \in Clients,
           NEW m \in ServerMessagesOf(P), Receive(k, m), Accepts(k, m),
           DebtsKept, Answered(k, m)
    PROVE  AccountInv'
<1>1. /\ LinksStep(P)
      /\ \A j \in Clients : j # k => link'[j] = link[j]
      /\ Hears(k, m, link'[k])
  BY ReceiveLinks
<1> PICK l : l = link[k]
  OBVIOUS
<1> PICK r : r = link'[k]
  OBVIOUS
<1>2. /\ l \in LinksOf(P) /\ LinkInv(l) /\ r \in LinksOf(P) /\ LinkInv(r) /\ Grew(l, r)
      /\ l.connection = "live" /\ m.seq = Len(l.received)
      /\ link \in [Clients -> LinksOf(P)]
  BY <1>1 DEF HostInv, HostTyped, LinksInv, LinksStep, Accepts, Expected, NextInbound
<1>3. r.connection # "not_started"
  BY <1>2 DEF LinkInv, Grew, LinksOf
<1>4. ConnectionsAge
  BY <1>1, <1>2, <1>3 DEF ConnectionsAge
<1>5. r.received = l.received \/ r.received = Append(l.received, m.payload)
  BY <1>1 DEF Hears
<1>6. NewAccounted
  <2> SUFFICES ASSUME NEW j \in Clients, link'[j].connection = "live",
                      NEW n \in Len(link[j].received)..(Len(link'[j].received) - 1)
               PROVE  Accounted(j, n)'
    BY DEF NewAccounted
  <2>1. j = k
    BY <1>1, <1>2 DEF LinksOf
  <2>2. /\ n \in Len(l.received)..(Len(r.received) - 1) /\ Len(l.received) \in Nat
        /\ r.received = l.received => n \in Len(l.received)..(Len(l.received) - 1)
    BY <1>2, <2>1 DEF LinksOf
  <2>3. r.received = Append(l.received, m.payload)
    BY <1>5, <2>2
  <2>4. n = m.seq /\ r.received[n + 1] = m.payload
    BY <1>2, <2>2, <2>3 DEF LinksOf
  <2>5. CommandOf(j, n) = Cause(k, m)
    BY <2>1, <2>4 DEF CommandOf, Cause
  <2>6. PICK c : c = Cause(k, m)
    OBVIOUS
  <2> QED BY <2>1, <2>4, <2>5, <2>6 DEF Answered, Accounted
<1> QED BY <1>1, <1>4, <1>6, AccountStep DEF HostInv

\* A message that is not the expected one.
LEMMA RejectedAccounts ==
    ASSUME NEW P, Readable(P), HostInv(P), AccountInv, NEW k \in Clients,
           NEW m \in ServerMessagesOf(P), ReceiveRejected(k, m)
    PROVE  AccountInv'
<1>1. LinksStep(P)
  BY ReceiveLinks DEF Receive
<1>2. IsLink(link[k]) /\ link \in [Clients -> LinksOf(P)]
  BY LinksAreRecords DEF HostInv, HostTyped
<1>3. /\ link' = [link EXCEPT ![k] = ClientFailed(link[k])]
      /\ UNCHANGED <<supervisor, waiting, origin, reactions>>
  BY DEF ReceiveRejected
<1>4. /\ ClientFailed(link[k]) = link[k] \/ ClientFailed(link[k]).connection = "failed"
      /\ ClientFailed(link[k]).received = link[k].received
  BY <1>2, ClientFailedHears DEF ClientFailed, IsLink
<1>5. /\ \A j \in Clients : link'[j].received = link[j].received
      /\ \A j \in Clients : link'[j] = link[j] \/ link'[j].connection = "failed"
  BY <1>2, <1>3, <1>4
<1>6. ConnectionsAge
  BY <1>5 DEF ConnectionsAge
<1>7. DebtsKept
  BY <1>3, NoDebtChanges DEF supervisor
<1>8. NewAccounted
  <2>1. \A j \in Clients : Len(link[j].received)..(Len(link'[j].received) - 1) = {}
    BY <1>2, <1>5 DEF LinksOf
  <2> QED BY <2>1 DEF NewAccounted
<1> QED BY <1>1, <1>6, <1>7, <1>8, AccountStep DEF HostInv

\* An answer that is sent at once.
LEMMA AnsweredAtOnce ==
    ASSUME NEW P, HostInv(P), NEW k \in Clients, NEW m \in ServerMessagesOf(P),
           Accepts(k, m), IsCommand(m),
           NEW payload \in HostPayloads, payload.kind # "ack",
           AcknowledgeAndAnswer(k, m, payload), link'[k].connection = "live"
    PROVE  Replied(link'[k], m.seq) /\ (Ends(payload) => Ended(link'[k], m.seq))
<1>1. PICK l \in Acknowledged(k, m) :
        \E r \in Sent(l, m.seq, payload) : link' = [link EXCEPT ![k] = r]
  BY DEF AcknowledgeAndAnswer
<1>2. PICK r \in Sent(l, m.seq, payload) : link' = [link EXCEPT ![k] = r]
  BY <1>1
<1>3. l \in LinksOf(P) /\ Ordered(l)
  BY AcknowledgedStep DEF LinkStep, LinkInv
<1>4. link'[k] = r /\ m.seq \in Nat
  BY <1>2 DEF HostInv, HostTyped, ServerMessagesOf
<1> QED BY <1>2, <1>3, <1>4, ReplySent

LEMMA PassingAccounts ==
    ASSUME NEW P, Readable(P), HostInv(P), AccountInv, NEW k \in Clients,
           NEW m \in ServerMessagesOf(P), PassingMessage(k, m)
    PROVE  AccountInv'
<1>0. Receive(k, m)
  BY DEF Receive, PassingMessage
<1>1. UNCHANGED <<supervisor, waiting, origin, reactions>>
  BY DEF PassingMessage, ReceiveRejected, ReceiveAck, ReceiptFails, InitializeForeign,
         StartRejected, LaunchFails, StartThrows, StopRejected, Shutdown
<1>2. DebtsKept
  BY <1>1, NoDebtChanges DEF supervisor
<1>3. CASE ReceiveRejected(k, m)
  BY <1>3, RejectedAccounts
<1>4. CASE Accepts(k, m) /\ m.payload.kind \notin {"initialize_actor_host", "start_invocation"}
  BY <1>0, <1>2, <1>4, AcceptedAccounts DEF Answered
<1>5. CASE Accepts(k, m) /\ link'[k].connection # "live"
  BY <1>0, <1>2, <1>5, AcceptedAccounts DEF Answered
<1>6. ASSUME NEW r, link' = [link EXCEPT ![k] = ClientFailed(r)], IsLink(r),
             r.connection = "failed" \/ r.client = "open"
      PROVE  link'[k].connection # "live"
  <2>1. link'[k] = ClientFailed(r)
    BY <1>6 DEF HostInv, HostTyped
  <2>2. CASE r.client \in {"failed", "closed"}
    BY <1>6, <2>1, <2>2 DEF ClientFailed
  <2>3. CASE r.client \notin {"failed", "closed"}
    <3>1. [r EXCEPT !.client = "failed", !.connection = "failed"].connection = "failed"
      BY <1>6 DEF IsLink
    <3> QED BY <2>1, <2>3, <3>1 DEF ClientFailed
  <2> QED BY <2>2, <2>3
<1>7. CASE ReceiptFails(k, m)
  <2>1. PICK r \in Sent(Consumed(k, m), m.seq, Ack(m)) :
          r.connection = "failed" /\ link' = [link EXCEPT ![k] = ClientFailed(r)]
    BY <1>7 DEF ReceiptFails
  <2>2. IsLink(r)
    BY LinksAreRecords, ConsumedHears, SentHears DEF HostInv
  <2> QED BY <1>5, <1>6, <1>7, <2>1, <2>2 DEF ReceiptFails
<1>8. CASE StartThrows(k, m)
  <2>1. PICK r \in Acknowledged(k, m) : link' = [link EXCEPT ![k] = ClientFailed(r)]
    BY <1>8 DEF StartThrows
  <2>2. r \in Sent(Consumed(k, m), m.seq, Ack(m)) /\ r.connection = "live"
    BY <2>1 DEF Acknowledged
  <2>3. IsLink(r)
    BY <2>2, LinksAreRecords, ConsumedHears, SentHears DEF HostInv
  <2>4. Accepts(k, m) /\ IsCommand(m)
    BY <1>8 DEF StartThrows, MayStart, Command, IsCommand
  <2>5. HostTyped(P) /\ LinkInv(link[k])
    BY DEF HostInv, LinksInv
  <2>6. r.client = "open"
    BY <2>2, <2>4, <2>5, ReceiptInv
  <2> QED BY <1>5, <1>6, <2>1, <2>3, <2>4, <2>6
<1>9. CASE InitializeForeign(k, m)
  <2>1. /\ Fault(None, "identity_mismatch") \in HostPayloads
        /\ Fault(None, "identity_mismatch").kind # "ack"
    BY PayloadTypes DEF ErrorCodes, Fault
  <2>2. link'[k].connection = "live" => Replied(link'[k], m.seq)
    BY <1>9, <2>1, AnsweredAtOnce DEF InitializeForeign, Command, IsCommand
  <2>3. Accepts(k, m) /\ m.payload.kind = "initialize_actor_host"
    BY <1>9 DEF InitializeForeign, Command
  <2> QED BY <1>0, <1>2, <2>2, <2>3, AcceptedAccounts DEF Answered
<1>10. ASSUME NEW payload \in HostPayloads, payload.kind # "ack", Ends(payload),
              Command(k, m, "start_invocation"), AcknowledgeAndAnswer(k, m, payload)
       PROVE  AccountInv'
  <2>1. link'[k].connection = "live" => Ended(link'[k], m.seq)
    BY <1>10, AnsweredAtOnce DEF Command, IsCommand
  <2> QED BY <1>0, <1>2, <1>10, <2>1, AcceptedAccounts DEF Answered, Command
<1>11. m.payload.kind = "start_invocation" =>
         m.payload.inv.id \in InvocationIds /\ m.payload.inv.id # None
  BY NoneAssumption DEF ServerMessagesOf, Readable, Supervisor!Invocations
<1>12. CASE StartRejected(k, m)
  <2>0. "identity_mismatch" \in ErrorCodes
    BY DEF ErrorCodes
  <2>1. PICK code \in ErrorCodes : AcknowledgeAndAnswer(k, m, Fault(m.payload.inv.id, code))
    BY <1>12, <2>0, VerdictTypes DEF StartRejected
  <2>2. Command(k, m, "start_invocation") /\ m.payload.kind = "start_invocation"
    BY <1>12 DEF StartRejected, Command
  <2>3. Fault(m.payload.inv.id, code) \in HostPayloads
    BY <1>11, <2>2, PayloadTypes
  <2>4. /\ Fault(m.payload.inv.id, code).kind # "ack"
        /\ Ends(Fault(m.payload.inv.id, code))
    BY <1>11, <2>2 DEF Fault, Ends
  <2> QED BY <1>10, <2>1, <2>2, <2>3, <2>4
<1>13. CASE LaunchFails(k, m)
  <2>1. Command(k, m, "start_invocation") /\ m.payload.kind = "start_invocation"
    BY <1>13 DEF LaunchFails, MayStart, Command
  <2>2. Result(m.payload.inv.id, None, "launch_failed") \in HostPayloads
    BY <1>11, <2>1, PayloadTypes
  <2>3. /\ Result(m.payload.inv.id, None, "launch_failed").kind # "ack"
        /\ Ends(Result(m.payload.inv.id, None, "launch_failed"))
    BY DEF Result, Ends
  <2> QED BY <1>10, <1>13, <2>1, <2>2, <2>3 DEF LaunchFails
<1>14. CASE ReceiveAck(k, m) \/ StopRejected(k, m) \/ Shutdown(k, m)
  BY <1>4, <1>14 DEF ReceiveAck, StopRejected, Shutdown, Command
<1> QED BY <1>3, <1>7, <1>8, <1>9, <1>12, <1>13, <1>14 DEF PassingMessage

LEMMA InitializeAccounts ==
    ASSUME NEW P, Readable(P), HostInv(P), AccountInv, NEW k \in Clients,
           NEW m \in ServerMessagesOf(P), Initialize(k, m)
    PROVE  AccountInv'
<1> PICK c : c = Cause(k, m)
  OBVIOUS
<1>1. /\ Receive(k, m) /\ Accepts(k, m) /\ UNCHANGED <<origin, execs>>
      /\ m.payload.kind = "initialize_actor_host" /\ m.payload.spec \in Specs
  BY DEF Receive, Initialize, Command, Accepts, Supervisor!Initialize, supervisor, Readable,
         ServerMessagesOf
<1>2. waiting \in Seq(Causes) /\ None \notin Specs
  BY SupervisorAssumption DEF HostInv, HostTyped
<1>3. \/ waiting' = Append(waiting, c) /\ initialization' # None /\ UNCHANGED reactions
      \/ /\ UNCHANGED <<waiting, initialization>>
         /\ \E payload : reactions' = Append(reactions, [cause |-> c, payload |-> payload])
  <2> DEFINE verdict == Supervisor!InitializeVerdict(m.payload.spec)
  <2>1. CASE verdict = "begin"
    BY <1>1, <1>2, <2>1 DEF Initialize, Supervisor!Initialize
  <2>2. CASE verdict = "join"
    <3>1. initialization # None
      BY <2>2 DEF Supervisor!InitializeVerdict
    <3> QED BY <2>2, <3>1 DEF Initialize, supervisor
  <2>3. CASE verdict \notin {"begin", "join"}
    BY <1>1, <2>3 DEF Initialize, Queue, supervisor
  <2> QED BY <2>1, <2>2, <2>3
<1>4. Promised(c)' \/ Waits(c)'
  <2>1. CASE waiting' = Append(waiting, c) /\ initialization' # None
    <3>1. /\ Len(waiting) + 1 \in 1..Len(waiting') /\ waiting'[Len(waiting) + 1] = c
      BY <1>2, <2>1
    <3> QED BY <2>1, <3>1 DEF Waits
  <2>2. ASSUME NEW payload, reactions' = Append(reactions, [cause |-> c, payload |-> payload])
        PROVE  Promised(c)'
    BY <2>2, OneMorePromised
  <2> QED BY <1>3, <2>1, <2>2
<1>5. DebtsKept
  <2>1. ASSUME NEW d
        PROVE  /\ (Promised(d) => Promised(d)') /\ (EndPromised(d) => EndPromised(d)')
               /\ Runs(d) => Runs(d)'
    <3>1. CASE UNCHANGED reactions
      BY <1>1, <3>1 DEF Promised, EndPromised, Runs
    <3>2. ASSUME NEW payload, reactions' = Append(reactions, [cause |-> c, payload |-> payload])
          PROVE  (Promised(d) => Promised(d)') /\ (EndPromised(d) => EndPromised(d)')
      BY <3>2, OneMorePromised
    <3>3. Runs(d) => Runs(d)'
      BY <1>1 DEF Runs
    <3> QED BY <1>3, <3>1, <3>2, <3>3
  <2>2. ASSUME NEW d, Waits(d) PROVE Waits(d)'
    <3>1. PICK i \in 1..Len(waiting) : waiting[i] = d
      BY <2>2 DEF Waits
    <3>2. initialization' # None /\ i \in 1..Len(waiting') /\ waiting'[i] = d
      BY <1>2, <1>3, <2>2, <3>1 DEF Waits
    <3> QED BY <3>2 DEF Waits
  <2> QED BY <2>1, <2>2 DEF DebtsKept
<1>6. Answered(k, m)
  BY <1>1, <1>4 DEF Answered
<1> QED BY <1>1, <1>5, <1>6, AcceptedAccounts

LEMMA StartAccounts ==
    ASSUME NEW P, Readable(P), HostInv(P), AccountInv, NEW k \in Clients,
           NEW m \in ServerMessagesOf(P), Start(k, m)
    PROVE  AccountInv'
<1> PICK c : c = Cause(k, m)
  OBVIOUS
<1>1. /\ Receive(k, m) /\ Accepts(k, m)
      /\ m.payload.kind = "start_invocation"
      /\ UNCHANGED <<waiting, reactions, initialization>>
      /\ origin' = Append(origin, c)
      /\ execs' = Append(execs, Supervisor!NewExecution(m.payload.inv))
  BY DEF Receive, Start, MayStart, Command, Accepts, Supervisor!Start
<1>2. /\ execs \in Seq(Supervisor!Executions) /\ origin \in Seq(Causes)
      /\ Len(origin) = Len(execs)
  BY DEF HostInv, HostTyped, SupervisorOK, Supervisor!TypeOK
<1>3. /\ Len(execs) + 1 \in 1..Len(execs') /\ origin'[Len(execs) + 1] = c
      /\ execs'[Len(execs) + 1].outcome = "none"
      /\ \A e \in 1..Len(execs) :
           e \in 1..Len(execs') /\ execs'[e] = execs[e] /\ origin'[e] = origin[e]
  BY <1>1, <1>2 DEF Supervisor!NewExecution
<1>4. Answered(k, m)
  BY <1>1, <1>3 DEF Answered, Runs
<1>5. DebtsKept
  <2>1. ASSUME NEW d
        PROVE  /\ (Promised(d) => Promised(d)') /\ (EndPromised(d) => EndPromised(d)')
               /\ Waits(d) => Waits(d)'
    BY <1>1 DEF Promised, EndPromised, Waits
  <2>2. ASSUME NEW d, Runs(d) PROVE Runs(d)'
    <3>1. PICK e \in 1..Len(execs) : origin[e] = d /\ execs[e].outcome = "none"
      BY <2>2 DEF Runs
    <3> QED BY <1>3, <3>1 DEF Runs
  <2> QED BY <2>1, <2>2 DEF DebtsKept
<1> QED BY <1>1, <1>4, <1>5, AcceptedAccounts

LEMMA StopAccounts ==
    ASSUME NEW P, Readable(P), HostInv(P), AccountInv, NEW k \in Clients,
           NEW m \in ServerMessagesOf(P), Stop(k, m)
    PROVE  AccountInv'
<1> DEFINE id == m.payload.id
<1>1. /\ Receive(k, m) /\ Accepts(k, m)
      /\ m.payload.kind = "stop_invocation"
      /\ UNCHANGED <<waiting, origin, initialization>>
  BY DEF Receive, Stop, Command, Accepts, Supervisor!Stop, Supervisor!StopThrows, supervisor
<1>2. id \in InvocationIds /\ id # None
  BY <1>1, NoneAssumption DEF Readable, ServerMessagesOf
<1>3. Answered(k, m)
  BY <1>1 DEF Answered
<1>4. \/ Supervisor!Stop(id) /\ UNCHANGED reactions
      \/ /\ Supervisor!StopThrows(id)
         /\ reactions' = Append(reactions, [ cause |-> origin[active],
                                             payload |-> Fault(id, "adapter_stop_failed") ])
      \/ UNCHANGED <<supervisor, reactions>>
  BY DEF Stop
<1>5. Ends(Fault(id, "adapter_stop_failed"))
  BY <1>2 DEF Ends, Fault
<1> HIDE DEF id
<1>6. ASSUME NEW d, Runs(d) PROVE Runs(d)' \/ EndPromised(d)'
  <2>1. PICK e \in 1..Len(execs) : origin[e] = d /\ execs[e].outcome = "none"
    BY <1>6 DEF Runs
  <2>2. e = active
    BY <2>1 DEF HostInv, SupervisorOK, SupervisorFacts!SupervisorInv,
       SupervisorFacts!StateMatchesActive
  <2>3. CASE Supervisor!Stop(id)
    <3>1. /\ execs' = [execs EXCEPT ![e] = [execs[e] EXCEPT !.stop = "requested"]]
          /\ execs \in Seq(Supervisor!Executions) /\ execs[e] \in Supervisor!Executions
      BY <2>2, <2>3, ExecutionTyped DEF Supervisor!Stop, HostInv, SupervisorOK, Supervisor!TypeOK
    <3>2. e \in 1..Len(execs') /\ execs'[e].outcome = "none"
      BY <2>1, <3>1 DEF Supervisor!Executions
    <3> QED BY <1>1, <2>1, <3>2 DEF Runs
  <2>4. CASE reactions' = Append(reactions, [ cause |-> origin[active],
                                              payload |-> Fault(id, "adapter_stop_failed") ])
    BY <1>5, <2>1, <2>2, <2>4, OneMorePromised
  <2>5. CASE UNCHANGED supervisor
    BY <1>1, <2>1, <2>5 DEF Runs, supervisor
  <2> QED BY <1>4, <2>3, <2>4, <2>5
<1>7. DebtsKept
  <2>1. ASSUME NEW d
        PROVE  /\ (Promised(d) => Promised(d)') /\ (EndPromised(d) => EndPromised(d)')
               /\ Waits(d) => Waits(d)'
    <3>1. ASSUME UNCHANGED reactions
          PROVE  (Promised(d) => Promised(d)') /\ (EndPromised(d) => EndPromised(d)')
      BY <3>1 DEF Promised, EndPromised
    <3>2. ASSUME NEW p, reactions' = Append(reactions, [cause |-> origin[active], payload |-> p])
          PROVE  (Promised(d) => Promised(d)') /\ (EndPromised(d) => EndPromised(d)')
      BY <3>2, OneMorePromised
    <3>3. Waits(d) => Waits(d)'
      BY <1>1 DEF Waits
    <3> QED BY <1>4, <3>1, <3>2, <3>3
  <2> QED BY <1>6, <2>1 DEF DebtsKept
<1> QED BY <1>1, <1>3, <1>7, AcceptedAccounts

LEMMA ReceiveAccounts ==
    ASSUME NEW P, Readable(P), HostInv(P), AccountInv, NEW k \in Clients,
           NEW m \in ServerMessagesOf(P), Receive(k, m)
    PROVE  AccountInv'
  BY PassingAccounts, InitializeAccounts, StartAccounts, StopAccounts
     DEF Receive, PassingMessage

LEMMA RestAccounts ==
    ASSUME NEW P, HostInv(P), AccountInv, UNCHANGED vars PROVE AccountInv'
<1>1. UNCHANGED <<link, execs, initialization, waiting, origin, reactions>>
  BY DEF vars, supervisor
<1>2. LinksStep(P)
  BY <1>1, NoLinkSteps DEF HostInv
<1>3. ConnectionsAge
  BY <1>1 DEF ConnectionsAge
<1>4. DebtsKept
  BY <1>1, NoDebtChanges
<1>5. NewAccounted
  <2>1. \A j \in Clients : Len(link[j].received)..(Len(link'[j].received) - 1) = {}
    BY <1>1 DEF HostInv, HostTyped, LinksOf
  <2> QED BY <2>1 DEF NewAccounted
<1> QED BY <1>2, <1>3, <1>4, <1>5, AccountStep DEF HostInv

LEMMA AccountInit == Init => AccountInv
  BY DEF Init, AccountInv

\* A client, the supervisor or a reaction: everything that is no message.
LEMMA WorkAccounts ==
    ASSUME NEW P, HostInv(P), AccountInv,
           \/ InitializationFails \/ InitializationSucceeds
           \/ \E e \in 1..Len(execs) : BackendStep(e)
           \/ React
    PROVE  AccountInv'
  BY InitializationAccounts, BackendAccounts, ReactAccounts

LEMMA NothingForgotten ==
    ASSUME NEW P, HostInv(P), AccountInv PROVE NoCommandForgotten
<1> SUFFICES ASSUME NEW k \in Clients, link[k].connection = "live",
                    NEW n \in 1..NextInbound(k)
             PROVE  LET c == [client |-> k, seq |-> n - 1]
                        queued == \E i \in DOMAIN reactions : reactions[i].cause = c
                        answers == AnswersTo(k, n - 1)
                    IN  CASE link[k].received[n].kind = "initialize_actor_host" ->
                               \/ answers # {} \/ queued
                               \/ initialization # None /\ \E i \in DOMAIN waiting : waiting[i] = c
                          [] link[k].received[n].kind = "start_invocation" ->
                               \/ queued
                               \/ \E i \in answers : IsTerminal(Sending(k, i))
                               \/ \E e \in 1..Len(execs) : origin[e] = c /\ execs[e].outcome = "none"
                          [] OTHER -> TRUE
  BY DEF NoCommandForgotten
<1> DEFINE c == [client |-> k, seq |-> n - 1]
<1>1. /\ link[k] \in LinksOf(P) /\ Len(link[k].received) \in Nat
      /\ waiting \in Seq(Causes) /\ reactions \in Seq(Intents)
  BY DEF HostInv, HostTyped, LinksOf
<1>2. /\ DOMAIN waiting = 1..Len(waiting) /\ DOMAIN reactions = 1..Len(reactions)
      /\ Sends(k) = 1..Len(link[k].toServer)
  BY <1>1 DEF Sends, LinksOf
<1>3. /\ n - 1 \in 0..(Len(link[k].received) - 1) /\ (n - 1) + 1 = n
      /\ CommandOf(k, n - 1) = c
  BY <1>1 DEF NextInbound, CommandOf
<1>4. Accounted(k, n - 1)
  BY <1>3 DEF AccountInv
<1>5. CASE link[k].received[n].kind = "initialize_actor_host"
  <2>1. Replied(link[k], n - 1) \/ Promised(c) \/ Waits(c)
    BY <1>3, <1>4, <1>5 DEF Accounted
  <2>2. Replied(link[k], n - 1) => AnswersTo(k, n - 1) # {}
    BY <1>2 DEF Replied, AnswersTo, Sending
  <2> QED BY <1>2, <1>5, <2>1, <2>2 DEF Promised, Waits
<1>6. CASE link[k].received[n].kind = "start_invocation"
  <2>1. Ended(link[k], n - 1) \/ EndPromised(c) \/ Runs(c)
    BY <1>3, <1>4, <1>6 DEF Accounted
  <2>2. Ended(link[k], n - 1) => \E i \in AnswersTo(k, n - 1) : IsTerminal(Sending(k, i))
    BY <1>2 DEF Ended, Ends, AnswersTo, Sending, IsTerminal
  <2>3. EndPromised(c) => \E i \in DOMAIN reactions : reactions[i].cause = c
    BY <1>2 DEF EndPromised
  <2> QED BY <1>6, <2>1, <2>2, <2>3 DEF Runs
<1> QED BY <1>5, <1>6

LEMMA AccountsKept == HostInv(ServerPayloads) /\ AccountInv /\ [Next]_vars => AccountInv'
<1> SUFFICES ASSUME HostInv(ServerPayloads), AccountInv, [Next]_vars PROVE AccountInv'
  OBVIOUS
<1>1. ASSUME NEW k \in Clients,
             Connect(k) \/ ConnectFails(k) \/ Opens(k) \/ SocketFails(k) \/ Close(k)
      PROVE  AccountInv'
  BY <1>1, ClientAccounts
<1>2. ASSUME NEW k \in Clients, NEW m \in Arriving(k), Receive(k, m) PROVE AccountInv'
  BY <1>2, ArrivingTyped, ServerPayloadsReadable, ReceiveAccounts
<1>3. CASE \/ InitializationFails \/ InitializationSucceeds
           \/ \E e \in 1..Len(execs) : BackendStep(e)
           \/ React
  BY <1>3, WorkAccounts
<1>4. CASE UNCHANGED vars
  BY <1>4, RestAccounts
<1> QED BY <1>1, <1>2, <1>3, <1>4 DEF Next

\* A command that was acknowledged is answered, or somebody owes the answer.
THEOREM CommandsAccounted == Spec => []NoCommandForgotten
<1>1. HostInv(ServerPayloads) /\ AccountInv => NoCommandForgotten
  BY NothingForgotten
<1> QED BY <1>1, AccountInit, AccountsKept, HostInvariant, PTL DEF Spec

==============================================================================
