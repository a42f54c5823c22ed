----------------------------- MODULE DemoServer -----------------------------
(***************************************************************************)
(* The demo server of kitsune-cloud-mock: an agent run is a stream of      *)
(* events that its client reads one by one, and one slot for the whole     *)
(* server holds the channel on which a run waits for the user's answer.    *)
(*                                                                         *)
(* Of a plan only its length and its kinds of action matter: an ask waits  *)
(* for the user, any other is an event.  Pauses between events are left    *)
(* out.  A swarm stream is a script of as many events as it has workers.   *)
(***************************************************************************)
EXTENDS Naturals

CONSTANTS
  Runs, NoRun,
  MaxPlan,     \* bound on the actions of a plan
  MaxWorkers   \* most workers of a demo swarm (10)

DemoAssumption ==
  NoRun \notin Runs /\ MaxPlan \in Nat \ {0} /\ MaxWorkers \in Nat \ {0}

VARIABLES
  configured,  \* the settings name a usable model
  at,          \* where a run is
  kind,        \* "model", "local" or "swarm": what its events come from
  left,        \* events or actions still to come
  hilTx,       \* whose sender is in the slot
  verdict,     \* what a waiting run will receive
  approvals,   \* times the user said yes
  resumed      \* times a run went on after an ask

vars == <<configured, at, kind, left, hilTx, verdict, approvals, resumed>>

Kinds == {"none", "model", "local", "swarm"}
Over == {"done", "cancelled", "left"}
Places == {"idle", "planning", "streaming", "asked", "waiting"} \cup Over
Verdicts == {"none", "yes", "no"}

(* The script of the local planner, and of a swarm of n workers.           *)
LocalPlan == 1
SwarmScript(n) == 2 * n + 4

Init ==
  /\ configured = FALSE
  /\ at = [r \in Runs |-> "idle"] /\ kind = [r \in Runs |-> "none"]
  /\ left = [r \in Runs |-> 0]
  /\ hilTx = NoRun /\ verdict = [r \in Runs |-> "none"]
  /\ approvals = 0 /\ resumed = 0

Go(r, place) == at' = [at EXCEPT ![r] = place]

SaveSettings ==
  /\ configured' = ~configured
  /\ UNCHANGED <<at, kind, left, hilTx, verdict, approvals, resumed>>

(* The settings are copied when the request comes.                         *)
AgentRun(r) ==
  /\ at[r] = "idle" /\ Go(r, "planning")
  /\ kind' = [kind EXCEPT ![r] = IF configured THEN "model" ELSE "local"]
  /\ UNCHANGED <<configured, left, hilTx, verdict, approvals, resumed>>

(* The model plans; when it fails, or plans nothing, the local planner     *)
(* does, which never asks.                                                 *)
PlanActions(r) ==
  /\ at[r] = "planning" /\ Go(r, "streaming")
  /\ \/ /\ kind[r] = "model" /\ UNCHANGED kind
        /\ \E n \in 1..MaxPlan : left' = [left EXCEPT ![r] = n]
     \/ /\ kind' = [kind EXCEPT ![r] = "local"]
        /\ left' = [left EXCEPT ![r] = LocalPlan]
  /\ UNCHANGED <<configured, hilTx, verdict, approvals, resumed>>

SwarmPlan(r) ==
  /\ at[r] = "idle" /\ Go(r, "streaming")
  /\ kind' = [kind EXCEPT ![r] = "swarm"]
  /\ \E n \in 1..MaxWorkers : left' = [left EXCEPT ![r] = SwarmScript(n)]
  /\ UNCHANGED <<configured, hilTx, verdict, approvals, resumed>>

(* The next event, or the pause in its place.                              *)
StreamAction(r) ==
  /\ at[r] = "streaming"
  /\ IF left[r] = 0 THEN Go(r, "done") /\ UNCHANGED left
     ELSE left' = [left EXCEPT ![r] = @ - 1] /\ UNCHANGED at
  /\ UNCHANGED <<configured, kind, hilTx, verdict, approvals, resumed>>

(* The question goes out before the run has put its sender in the slot.    *)
AskUser(r) ==
  /\ at[r] = "streaming" /\ kind[r] = "model" /\ left[r] > 0
  /\ Go(r, "asked")
  /\ left' = [left EXCEPT ![r] = @ - 1]
  /\ UNCHANGED <<configured, kind, hilTx, verdict, approvals, resumed>>

(* A sender dropped by this one answers its run with no.                   *)
PutSender(r) ==
  /\ at[r] = "asked" /\ Go(r, "waiting")
  /\ hilTx' = r
  /\ verdict' = [q \in Runs |-> CASE q = r -> "none"
                                  [] q = hilTx /\ q # r -> "no"
                                  [] OTHER -> verdict[q]]
  /\ UNCHANGED <<configured, kind, left, approvals, resumed>>

Receive(r) ==
  /\ at[r] = "waiting" /\ verdict[r] # "none"
  /\ IF verdict[r] = "yes"
     THEN Go(r, "streaming") /\ resumed' = resumed + 1
     ELSE Go(r, "cancelled") /\ UNCHANGED resumed
  /\ UNCHANGED <<configured, kind, left, hilTx, verdict, approvals>>

(* Faulty: silence is consent.                                             *)
TimeoutApproves(r) ==
  /\ at[r] = "waiting" /\ Go(r, "streaming") /\ resumed' = resumed + 1
  /\ UNCHANGED <<configured, kind, left, hilTx, verdict, approvals>>

(* Sixty seconds without an answer.  The sender stays in the slot.         *)
Timeout(r) ==
  /\ at[r] = "waiting" /\ Go(r, "cancelled")
  /\ UNCHANGED <<configured, kind, left, hilTx, verdict, approvals, resumed>>

(* The user answers a question that is on the screen; whichever run has    *)
(* its sender in the slot gets the answer.  With an empty slot it is lost. *)
HilResponse(approved) ==
  /\ \E r \in Runs : at[r] \in {"asked", "waiting"}
  /\ hilTx' = NoRun
  /\ verdict' = IF hilTx = NoRun THEN verdict
                ELSE [verdict EXCEPT ![hilTx] = IF approved THEN "yes" ELSE "no"]
  /\ approvals' = IF approved /\ hilTx # NoRun THEN approvals + 1 ELSE approvals
  /\ UNCHANGED <<configured, at, kind, left, resumed>>

(* The client closes the stream; the run ends where it is.                 *)
ClientLeaves(r) ==
  /\ at[r] \notin Over \cup {"idle"} /\ Go(r, "left")
  /\ UNCHANGED <<configured, kind, left, hilTx, verdict, approvals, resumed>>

Stream(r) ==
  PlanActions(r) \/ StreamAction(r) \/ AskUser(r) \/ PutSender(r) \/ Receive(r) \/ Timeout(r)

DemoNext ==
  \/ SaveSettings
  \/ \E r \in Runs : AgentRun(r) \/ SwarmPlan(r) \/ Stream(r) \/ ClientLeaves(r)
  \/ \E approved \in BOOLEAN : HilResponse(approved)

DemoSpec == Init /\ [][DemoNext]_vars

(* A client that stays reads on.                                           *)
DemoFairness == \A r \in Runs : WF_vars(Stream(r))

(* ------------------------------ properties ----------------------------- *)

DemoTypeOK ==
  /\ configured \in BOOLEAN
  /\ at \in [Runs -> Places] /\ kind \in [Runs -> Kinds] /\ left \in [Runs -> Nat]
  /\ hilTx \in Runs \cup {NoRun} /\ verdict \in [Runs -> Verdicts]
  /\ approvals \in Nat /\ resumed \in Nat

(* No run goes on after a question more often than the user said yes:      *)
(* neither a timeout, nor a sender another run pushed out of the slot, nor *)
(* a sender of a run that is gone counts as an approval.                   *)
NoResumeWithoutYes == resumed <= approvals

(* Every stream that is read comes to its end, whoever answers.            *)
StreamsEnd == \A r \in Runs : [](at[r] # "idle" => <>(at[r] \in Over))
=============================================================================
