-------------------------- MODULE MCWebSocketAdapter --------------------------
(* Three upgrades: a session may live and another close while a third request *)
(* is verified and the adapter is shut down.                                  *)
EXTENDS WebSocketAdapter

CONSTANTS u1, u2, u3

MCUpgrades == {u1, u2, u3}

==============================================================================
