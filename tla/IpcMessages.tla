---------------------------- MODULE IpcMessages -----------------------------
(***************************************************************************)
(* The vocabulary of the processes of KitsuneEngine and the three tables   *)
(* the code keeps about it: what a role may send (kitsune-ipc/src/         *)
(* transport.rs), which capability a payload needs (channel.rs), and where *)
(* the broker routes it (kitsune-core/src/broker.rs).  A payload is its    *)
(* variant: no decision looks further.                                     *)
(***************************************************************************)

Roles == {"Broker", "Network", "Renderer", "Js", "Agent"}

(* Roles without privilege; the agent is semi-privileged.                  *)
Sandboxed == {"Network", "Renderer", "Js"}

DomRequests ==
  {"DomQuery", "DomFillField", "DomClick", "SetDomHighlight", "ClearDomHighlight",
   "ClearAllDomHighlights"}
DomResults == {"DomQueryResult", "DomOperationResult"}
NetResults == {"NetworkFetchResponse", "NavigateResponse"}
Lifecycle == {"ProcessRegister", "ProcessShutdown"}

Payloads ==
  DomRequests \cup DomResults \cup NetResults \cup Lifecycle
    \cup {"VaultRequest", "VaultResponse", "NetworkFetchRequest", "NavigateRequest",
          "HilCheckpointRequest", "HilCheckpointResponse", "ProcessRegistered",
          "AgentActionRequest", "AgentActionResult", "Error"}

(* A name a process gives of itself; any other name counts as a renderer.  *)
ParseRole(name) ==
  IF name \in Roles \ {"Broker"} THEN name ELSE "Renderer"

(* Faulty: the renderer may ask for pages itself.                          *)
PermittedNavigation(role) ==
  CASE role = "Agent" -> DomRequests \cup Lifecycle
         \cup {"VaultRequest", "HilCheckpointRequest", "NavigateRequest", "AgentActionRequest"}
    [] role = "Renderer" -> DomResults \cup Lifecycle \cup {"Error", "NavigateRequest"}
    [] role = "Network" -> NetResults \cup Lifecycle \cup {"Error"}
    [] role = "Js" -> Lifecycle \cup {"Error"}
    [] OTHER -> {}

(* What a connected client of each role may send.                          *)
Permitted(role) ==
  CASE role = "Agent" -> DomRequests \cup Lifecycle
         \cup {"VaultRequest", "HilCheckpointRequest", "NavigateRequest", "AgentActionRequest"}
    [] role = "Renderer" -> DomResults \cup Lifecycle \cup {"Error"}
    [] role = "Network" -> NetResults \cup Lifecycle \cup {"Error"}
    [] role = "Js" -> Lifecycle \cup {"Error"}
    [] OTHER -> {}

NoCapability == "none"

(* The capability the sending end of a channel must have for a payload.    *)
RequiredCapability(payload) ==
  CASE payload = "VaultRequest" -> "VaultRead"
    [] payload \in {"NetworkFetchRequest", "NavigateRequest"} -> "NetworkAccess"
    [] payload = "HilCheckpointRequest" -> "HilTrigger"
    [] payload \in DomRequests -> "DomAccess"
    [] payload = "AgentActionRequest" -> "AgentRuntime"
    [] OTHER -> NoCapability

(* Where the broker sends a payload: a child, or the UI's channel.         *)
RoutePayload(payload) ==
  CASE payload \in DomRequests -> "Renderer"
    [] payload \in {"NetworkFetchRequest", "NavigateRequest"} -> "Network"
    [] OTHER -> "ui"
=============================================================================
