----------------------------- MODULE MCPlatform -----------------------------
(* Two connections of two roles, one child of the broker, two bus        *)
(* processes with two requests between them.                              *)
EXTENDS Platform

CONSTANTS c1, c2, p1, p2, q1, q2

MCConns == {c1, c2}
MCNames == {"Agent", "Renderer"}
MCPayloads == {"NavigateRequest", "DomQueryResult"}
MCChildren == {"Network"}
MCIds == {p1, p2}
MCRequests == {q1, q2}
MCParts == {"server", "broker", "bus"}
MCServer == {"server"}
MCBroker == {"broker"}
MCBus == {"bus"}
=============================================================================
