---------------------------- MODULE MCPresence ----------------------------
(***************************************************************************)
(* AgentPresence with everything that may happen to a node, for model      *)
(* checking: in each behaviour either a single WebSocket connection and    *)
(* all the HTTP sessions, or several connections that overlap and none.    *)
(***************************************************************************)
EXTENDS AgentPresence

CONSTANT Single

ASSUME SingleAssumption == Single \in Conns

OneConnection == \A c \in Conns \ {Single} : pc[c] = "idle"
NoSession == sessions = 0 /\ http = "none"

\* No behaviour has both several connections and an HTTP session.
OneLink == OneConnection \/ NoSession
=============================================================================
