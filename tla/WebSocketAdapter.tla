--------------------------- MODULE WebSocketAdapter ---------------------------
(***************************************************************************)
(* The WebSocket adapter of the runtime server: it verifies the credential *)
(* of an HTTP upgrade, turns an accepted one into a session between a      *)
(* WebSocket and a connection of the Host Gateway, and shuts both down.    *)
(*                                                                         *)
(* A handler of an event is one action, with everything it calls back: a   *)
(* failure reported to the transport runs the listeners of the session and *)
(* of the gateway connection before the handler goes on.  Of the gateway,  *)
(* only whether the connection is open or failed matters here.             *)
(***************************************************************************)
EXTENDS Naturals

CONSTANT Upgrades    \* upgrade requests, each with its raw socket

VARIABLES
    listening,          \* whether the upgrade listener is attached
    hasAttached,
    acceptingUpgrades,
    shutdown,           \* how far performShutdown has come
    awaited,            \* the sessions it waits for
    activeSessions,
    request,            \* of each upgrade: its raw socket and its verification
    session             \* of each upgrade: its HostGatewayWebSocketSession

server == <<listening, hasAttached, acceptingUpgrades, shutdown, awaited>>
webSocketVars == <<server, activeSessions, request, session>>

\* A raw socket that was "ended" or "upgraded" is not destroyed; one that is "gone" is,
\* and its close event is yet to come.  "ends" counts what the adapter did with the
\* socket: a response, an upgrade or its destruction.
Requests == [ socket: {"open", "gone", "ended", "upgraded", "destroyed"},
              verification: {"none", "pending", "settled"},
              verifier: {"idle", "running", "done"},
              timer: BOOLEAN,
              ends: 0..3,
              response: {"none", "http", "upgrade"} ]

SessionRecords == [ readyState: {"NONE", "OPEN", "CLOSING", "CLOSED"},
                    connection: {"none", "open", "failed"},
                    adapterTerminal: BOOLEAN, coreTerminal: BOOLEAN, closed: BOOLEAN ]

HasSession(u) == session[u].readyState # "NONE"

------------------------------------------------------------------------------
(* Verification of a credential. *)

Ended(r, socket, response) ==
    [r EXCEPT !.socket = socket, !.ends = @ + 1, !.response = response]

IsDestroyed(r) == r.socket \in {"gone", "destroyed"}

\* destroySocket, and rejectHttp, which writes nothing to a destroyed socket.
Destroyed(r) == IF IsDestroyed(r) THEN [r EXCEPT !.socket = "destroyed"]
                ELSE Ended(r, "destroyed", r.response)
RejectedHttp(r) == IF IsDestroyed(r) THEN r ELSE Ended(r, "ended", "http")

\* Refused before verification: shut down, wrong address, path or token, or
\* aborted already.
UpgradeRefused(u) ==
    /\ request[u].verification = "none"
    /\ \E r \in {Destroyed(request[u])} \union (IF acceptingUpgrades THEN {RejectedHttp(request[u])}
                                                 ELSE {}) :
         request' = [request EXCEPT ![u] = [r EXCEPT !.verification = "settled"]]
    /\ UNCHANGED <<server, activeSessions, session>>

Upgrade(u) ==
    /\ request[u].verification = "none"
    /\ acceptingUpgrades
    /\ request' = [request EXCEPT ![u] = [@ EXCEPT !.verification = "pending",
                                                   !.verifier = "running", !.timer = TRUE]]
    /\ UNCHANGED <<server, activeSessions, session>>

\* Faulty variant: a late outcome settles again.
MaySettleAgain(u) == request[u].verification # "none"

\* settle: the first outcome counts, and clears the timer and the listeners.
Settled(r) == [r EXCEPT !.verification = "settled", !.timer = FALSE]
MaySettle(u) == request[u].verification = "pending"

\* The peer goes away: the socket is destroyed at once, its events come later.
PeerLeaves(u) ==
    /\ request[u].verification = "pending" /\ request[u].socket = "open"
    /\ request' = [request EXCEPT ![u].socket = "gone"]
    /\ UNCHANGED <<server, activeSessions, session>>

\* An abort, an error or the close of the request or its socket.
Aborts(u) ==
    /\ MaySettle(u)
    /\ request' = [request EXCEPT ![u] = Destroyed(Settled(@))]
    /\ UNCHANGED <<server, activeSessions, session>>

TimesOut(u) ==
    /\ request[u].timer
    /\ MaySettle(u)
    /\ request' = [request EXCEPT ![u] = RejectedHttp(Settled(@))]
    /\ UNCHANGED <<server, activeSessions, session>>

Verified(u) == [request[u] EXCEPT !.verifier = "done"]

\* A verifier that answers after the verification has settled is not heard.
VerifierLate(u) ==
    /\ request[u].verifier = "running"
    /\ ~MaySettle(u)
    /\ request' = [request EXCEPT ![u] = Verified(u)]
    /\ UNCHANGED <<server, activeSessions, session>>

\* The verifier throws or rejects the token.
VerifierRejects(u) ==
    /\ request[u].verifier = "running"
    /\ MaySettle(u)
    /\ request' = [request EXCEPT ![u] = RejectedHttp(Settled(Verified(u)))]
    /\ UNCHANGED <<server, activeSessions, session>>

------------------------------------------------------------------------------
(* The session of an accepted upgrade. *)

\* Faulty variant: the socket is never terminated.
TerminatedNever(s) == s

\* terminateSocket: a socket that is closing already is left alone.
Terminated(s) == IF s.readyState = "OPEN" THEN [s EXCEPT !.readyState = "CLOSING"] ELSE s

\* Faulty variant: the session does not observe the failures of its transport.
TransportFailedUnseen(s) == [s EXCEPT !.connection = IF @ = "open" THEN "failed" ELSE @]

\* notifyFailure: the listeners are the session, which ends itself, and the
\* gateway connection, which fails.
TransportFailed(s) ==
    LET core == [s EXCEPT !.connection = IF @ = "open" THEN "failed" ELSE @] IN
    IF s.coreTerminal \/ s.adapterTerminal THEN core
    ELSE Terminated([core EXCEPT !.adapterTerminal = TRUE])

\* failTransport
FailTransport(s) ==
    IF s.coreTerminal \/ s.adapterTerminal THEN s
    ELSE Terminated([s EXCEPT !.adapterTerminal = TRUE,
                              !.connection = IF @ = "open" THEN "failed" ELSE @])

NewSession == [ readyState |-> "OPEN", connection |-> "open", adapterTerminal |-> FALSE,
                coreTerminal |-> FALSE, closed |-> FALSE ]
Refused == Terminated([NewSession EXCEPT !.connection = "none", !.adapterTerminal = TRUE,
                                         !.coreTerminal = TRUE])

\* The conditions are checked again: the verifier was awaited.
MayUpgrade(u) == acceptingUpgrades /\ ~IsDestroyed(request[u])

\* handleUpgrade of the WebSocket server hands over the socket, refuses the
\* handshake, finds the socket half closed, or throws; the gateway accepts the
\* connection or refuses it.
VerifierAccepts(u) ==
    /\ request[u].verifier = "running"
    /\ MaySettle(u)
    /\ LET r == Settled(Verified(u)) IN
         \/ /\ ~MayUpgrade(u)
            /\ request' = [request EXCEPT ![u] = Destroyed(r)]
            /\ UNCHANGED <<activeSessions, session>>
         \/ /\ MayUpgrade(u)
            /\ \E ended \in {RejectedHttp(r), Destroyed(r)} :
                 request' = [request EXCEPT ![u] = ended]
            /\ UNCHANGED <<activeSessions, session>>
         \/ /\ MayUpgrade(u)
            /\ request' = [request EXCEPT ![u] = Ended(r, "upgraded", "upgrade")]
            /\ \/ /\ session' = [session EXCEPT ![u] = NewSession]
                  /\ activeSessions' = activeSessions \union {u}
               \/ /\ session' = [session EXCEPT ![u] = Refused]
                  /\ UNCHANGED activeSessions
    /\ UNCHANGED server

Becomes(u, s) == session' = [session EXCEPT ![u] = s] /\ UNCHANGED <<server, activeSessions, request>>

\* A frame that is binary, too large or not JSON, or a receive that throws.
BadFrame(u) ==
    /\ session[u].readyState = "OPEN" /\ ~session[u].adapterTerminal
    /\ Becomes(u, FailTransport(session[u]))

\* The gateway rejects a message, or fails while it handles it; it tells the
\* transport before receive returns.
CoreRejects(u) ==
    /\ session[u].readyState = "OPEN" /\ ~session[u].adapterTerminal
    /\ Becomes(u, Terminated([TransportFailed(session[u]) EXCEPT !.coreTerminal = TRUE,
                                                                !.adapterTerminal = TRUE]))

\* A send fails, in the gateway or in the transport, at once or later.
SendFails(u) ==
    /\ session[u].connection = "open"
    /\ Becomes(u, TransportFailed(session[u]))

SocketErrors(u) ==
    /\ session[u].readyState \in {"OPEN", "CLOSING"}
    /\ Becomes(u, IF session[u].coreTerminal \/ session[u].adapterTerminal
                  THEN Terminated(session[u]) ELSE FailTransport(session[u]))

\* The peer starts the closing handshake: nothing is told until the close event.
PeerCloses(u) ==
    /\ session[u].readyState = "OPEN"
    /\ Becomes(u, [session[u] EXCEPT !.readyState = "CLOSING"])

\* The close event: the connection fails, and the session is finished.
SocketCloses(u) ==
    /\ session[u].readyState \in {"OPEN", "CLOSING"}
    /\ session' = [session EXCEPT ![u] =
                     [FailTransport(@) EXCEPT !.readyState = "CLOSED", !.closed = TRUE]]
    /\ activeSessions' = activeSessions \ {u}
    /\ UNCHANGED <<server, request>>

------------------------------------------------------------------------------
(* Attaching to an HTTP server, and shutting down. *)

Attach ==
    /\ acceptingUpgrades /\ ~hasAttached
    /\ hasAttached' = TRUE /\ listening' = TRUE
    /\ UNCHANGED <<acceptingUpgrades, shutdown, awaited, activeSessions, request, session>>

Detach ==
    /\ listening
    /\ listening' = FALSE
    /\ UNCHANGED <<hasAttached, acceptingUpgrades, shutdown, awaited, activeSessions, request,
                   session>>

\* shutdown of a session.  (It is active, so its socket has not closed.)
ShutDown(s) ==
    LET terminal == [s EXCEPT !.adapterTerminal = TRUE] IN
    Terminated(IF s.coreTerminal THEN terminal ELSE TransportFailed(terminal))

\* shutdown, to its first await: pending verifications abort, sessions end.
Shutdown ==
    /\ shutdown = "none"
    /\ acceptingUpgrades' = FALSE
    /\ listening' = FALSE
    /\ shutdown' = "awaits_sessions"
    /\ awaited' = activeSessions
    /\ request' = [u \in Upgrades |-> IF MaySettle(u) THEN Destroyed(Settled(request[u]))
                                      ELSE request[u]]
    /\ session' = [u \in Upgrades |-> IF u \in activeSessions THEN ShutDown(session[u])
                                      ELSE session[u]]
    /\ UNCHANGED <<hasAttached, activeSessions>>

SessionsClosed ==
    /\ shutdown = "awaits_sessions"
    /\ \A u \in awaited : session[u].closed
    /\ shutdown' = "closes_server"
    /\ UNCHANGED <<listening, hasAttached, acceptingUpgrades, awaited, activeSessions, request,
                   session>>

\* The WebSocket server is closed when it has no client left.
ServerCloses ==
    /\ shutdown = "closes_server"
    /\ \A u \in Upgrades : session[u].readyState \in {"NONE", "CLOSED"}
    /\ shutdown' = "done"
    /\ UNCHANGED <<listening, hasAttached, acceptingUpgrades, awaited, activeSessions, request,
                   session>>

------------------------------------------------------------------------------

\* Named apart from the specification of the backend adapter: AdapterProofs extends both.
WebSocketInit ==
    /\ listening = FALSE /\ hasAttached = FALSE /\ acceptingUpgrades = TRUE
    /\ shutdown = "none" /\ awaited = {} /\ activeSessions = {}
    /\ request = [u \in Upgrades |-> [socket |-> "open", verification |-> "none",
                    verifier |-> "idle", timer |-> FALSE, ends |-> 0, response |-> "none"]]
    /\ session = [u \in Upgrades |-> [readyState |-> "NONE", connection |-> "none",
                    adapterTerminal |-> FALSE, coreTerminal |-> FALSE, closed |-> FALSE]]

WebSocketNext ==
    \/ Attach \/ Detach \/ Shutdown \/ SessionsClosed \/ ServerCloses
    \/ \E u \in Upgrades :
         \/ UpgradeRefused(u) \/ Upgrade(u)
         \/ PeerLeaves(u) \/ Aborts(u) \/ TimesOut(u)
         \/ VerifierLate(u) \/ VerifierRejects(u) \/ VerifierAccepts(u)
         \/ BadFrame(u) \/ CoreRejects(u) \/ SendFails(u)
         \/ SocketErrors(u) \/ PeerCloses(u) \/ SocketCloses(u)

WebSocketSpec == WebSocketInit /\ [][WebSocketNext]_webSocketVars

\* Timers fire, a WebSocket that is closing closes (the library has a timeout for
\* it), and the continuations of performShutdown run.  A verifier need not answer.
WebSocketFairness ==
    /\ WF_webSocketVars(SessionsClosed) /\ WF_webSocketVars(ServerCloses)
    /\ \A u \in Upgrades : /\ WF_webSocketVars(TimesOut(u))
                           /\ WF_webSocketVars(session[u].readyState = "CLOSING" /\ SocketCloses(u))

WebSocketFairSpec == WebSocketSpec /\ WebSocketFairness

------------------------------------------------------------------------------
(* Properties. *)

\* However the answer of the verifier, its deadline, an abort and the shutdown
\* race, a raw socket is ended once: with a response, an upgrade or destruction;
\* and a socket that was gone gets neither a response nor an upgrade.
EndedOnce ==
    \A u \in Upgrades :
        /\ request[u].ends <= 1
        /\ request[u].socket = "gone" => request[u].response = "none"
        /\ HasSession(u) <=> request[u].response = "upgrade"
        /\ request[u].verification = "settled" => request[u].socket # "open"

\* The socket and the gateway connection of a session end together: while the
\* connection is open nothing has ended the session, and the session of a failed
\* one is on its way to being closed.
NoHalfOpenSession ==
    \A u \in Upgrades : HasSession(u) =>
        LET s == session[u] IN
        /\ s.connection = "open" => /\ ~s.adapterTerminal /\ ~s.coreTerminal /\ ~s.closed
                                    /\ u \in activeSessions
        /\ s.connection # "open" => s.readyState # "OPEN"

\* Shutdown comes to its end although it waits for every session and for the
\* clients of the WebSocket server, whatever these were doing.
ShutdownEnds == shutdown # "none" ~> shutdown = "done"

==============================================================================
