---------------------------- MODULE AgentSession ----------------------------
(***************************************************************************)
(* The agent workspace of the desktop window: the Run and Stop buttons     *)
(* (kitsune-ui/src/panels/agent_panel.rs), the frame loop of app.rs, the   *)
(* approval dialog (dialogs/hil_dialog.rs), the HIL gate behind it         *)
(* (kitsune-hil/src/gate.rs) and the runs that ask it for approval         *)
(* (kitsune-agent/src/loop_runtime.rs).  Runs live on the tokio pool; they *)
(* share with the window one stop flag, one channel of terminal events and *)
(* one channel of checkpoints.  The window works in frames, and a frame    *)
(* goes through its four phases in a fixed order.                          *)
(*                                                                         *)
(* A swarm run is abstracted to the worker that holds the hil_lock (at     *)
(* most one); Swarm.tla models its coordinator.                            *)
(***************************************************************************)
EXTENDS Naturals, Sequences

CONSTANTS
  MaxRuns,     \* bound: presses of Run that start a run
  MaxTickets   \* bound: checkpoints requested, below the channel's capacity

(* HilGate::new(100): with no more tickets than this, send never waits.    *)
ChannelCapacity == 100

ASSUME SessionAssumption ==
  /\ MaxRuns \in Nat
  /\ MaxTickets \in 0..ChannelCapacity

VARIABLES
  frame,       \* the phase of update() the window is in
  agentState,  \* AgentRunState
  stopFlag,    \* the StopFlag every run of the session shares
  inbox,       \* is a Done, SwarmDone or SwarmError waiting to be drained?
  queue,       \* checkpoints sent to the window and not yet received
  pending,     \* hil_pending_checkpoint: the one the window holds
  dialog,      \* hil_action: the one the dialog shows
  expired,     \* the 30 seconds of the dialog are over
  started,     \* runs started so far
  run,         \* phase of each run
  kind,        \* "single" or "swarm"
  ask,         \* the checkpoint each run waits for
  issued,      \* checkpoints requested so far
  decision,    \* what was sent on each checkpoint's oneshot channel
  audit,       \* checkpoints with an entry in the gate's audit log
  filled,      \* checkpoints whose sensitive field was filled
  consent,     \* history: checkpoints confirmed while the dialog showed them
  told         \* history: runs that were live when Stop was pressed

gateVars == <<queue, issued, decision, audit>>
dialogVars == <<pending, dialog, expired, consent>>
runVars == <<started, run, kind, ask, filled>>
vars == <<frame, agentState, stopFlag, inbox, gateVars, dialogVars, runVars, told>>

Runs == 1..MaxRuns
Tickets == 1..MaxTickets
NoTicket == 0

AgentStates == {"Idle", "Running", "AwaitingHil"}
Kinds == {"single", "swarm"}

(* "poll": at the stop check that opens an iteration; "work": past it;     *)
(* "ask": in HilGate::checkpoint.                                          *)
RunPhases == {"unused", "poll", "work", "ask", "ended"}

Live == {r \in Runs : run[r] \in {"poll", "work", "ask"}}

Busy == agentState \in {"Running", "AwaitingHil"}

Init ==
  /\ frame = "events"
  /\ agentState = "Idle"
  /\ stopFlag = FALSE
  /\ inbox = FALSE
  /\ queue = <<>>
  /\ pending = NoTicket /\ dialog = NoTicket /\ expired = FALSE
  /\ started = 0
  /\ run = [r \in Runs |-> "unused"]
  /\ kind = [r \in Runs |-> "single"]
  /\ ask = [r \in Runs |-> NoTicket]
  /\ issued = 0
  /\ decision = [t \in Tickets |-> "none"]
  /\ audit = {} /\ filled = {} /\ consent = {} /\ told = {}

(* ------------------------------- the runs ----------------------------- *)

(* An iteration opens with the stop check: a stopped run reports Done.     *)
PollStop(r) ==
  /\ run[r] = "poll" /\ stopFlag
  /\ run' = [run EXCEPT ![r] = "ended"]
  /\ inbox' = TRUE
  /\ UNCHANGED <<frame, agentState, stopFlag, gateVars, dialogVars, started, kind, ask, filled, told>>

(* Faulty: the flag is only looked at by swarm runs.                       *)
PollGoSingle(r) ==
  /\ run[r] = "poll" /\ (stopFlag => kind[r] = "single")
  /\ run' = [run EXCEPT ![r] = "work"]
  /\ UNCHANGED <<frame, agentState, stopFlag, inbox, gateVars, dialogVars, started, kind, ask, filled, told>>

PollGo(r) ==
  /\ run[r] = "poll" /\ ~stopFlag
  /\ run' = [run EXCEPT ![r] = "work"]
  /\ UNCHANGED <<frame, agentState, stopFlag, inbox, gateVars, dialogVars, started, kind, ask, filled, told>>

(* An iteration without approval: any other action, failed or not, and     *)
(* answers of the model that do not parse.                                 *)
Continue(r) ==
  /\ run[r] = "work"
  /\ run' = [run EXCEPT ![r] = "poll"]
  /\ UNCHANGED <<frame, agentState, stopFlag, inbox, gateVars, dialogVars, started, kind, ask, filled, told>>

(* Done, the iteration limit, or an LLM error: each reaches the window as  *)
(* an event that ends the run.                                             *)
FinishRun(r) ==
  /\ run[r] = "work"
  /\ run' = [run EXCEPT ![r] = "ended"]
  /\ inbox' = TRUE
  /\ UNCHANGED <<frame, agentState, stopFlag, gateVars, dialogVars, started, kind, ask, filled, told>>

(* Faulty: the checkpoint is sent under the number of the one before.      *)
AskOldNumber(r) ==
  /\ run[r] = "work" /\ issued < MaxTickets
  /\ issued' = issued + 1
  /\ queue' = Append(queue, issued)
  /\ run' = [run EXCEPT ![r] = "ask"]
  /\ ask' = [ask EXCEPT ![r] = issued + 1]
  /\ UNCHANGED <<frame, agentState, stopFlag, inbox, decision, audit, dialogVars,
                 started, kind, filled, told>>

(* A sensitive Fill: the checkpoint is sent and its answer awaited.        *)
Ask(r) ==
  /\ run[r] = "work" /\ issued < MaxTickets
  /\ issued' = issued + 1
  /\ queue' = Append(queue, issued + 1)
  /\ run' = [run EXCEPT ![r] = "ask"]
  /\ ask' = [ask EXCEPT ![r] = issued + 1]
  /\ UNCHANGED <<frame, agentState, stopFlag, inbox, decision, audit, dialogVars,
                 started, kind, filled, told>>

(* Faulty: a denial does not keep the field from being filled.             *)
ResumeAlwaysFills(r) ==
  /\ run[r] = "ask" /\ decision[ask[r]] # "none"
  /\ audit' = audit \cup {ask[r]}
  /\ filled' = filled \cup {ask[r]}
  /\ run' = [run EXCEPT ![r] = "poll"]
  /\ ask' = [ask EXCEPT ![r] = NoTicket]
  /\ UNCHANGED <<frame, agentState, stopFlag, inbox, queue, issued, decision, dialogVars,
                 started, kind, told>>

(* The answer arrives: it is logged, and the field filled if approved; a   *)
(* rejection becomes a message to the model.                               *)
Resume(r) ==
  /\ run[r] = "ask" /\ decision[ask[r]] # "none"
  /\ audit' = audit \cup {ask[r]}
  /\ filled' = IF decision[ask[r]] = "approved" THEN filled \cup {ask[r]} ELSE filled
  /\ run' = [run EXCEPT ![r] = "poll"]
  /\ ask' = [ask EXCEPT ![r] = NoTicket]
  /\ UNCHANGED <<frame, agentState, stopFlag, inbox, queue, issued, decision, dialogVars,
                 started, kind, told>>

(* A swarm worker's future is dropped while it waits: worker_timeout, or   *)
(* the coordinator aborted it.  The checkpoint stays where it is.          *)
Abandon(r) ==
  /\ run[r] = "ask" /\ kind[r] = "swarm"
  /\ run' = [run EXCEPT ![r] = "poll"]
  /\ ask' = [ask EXCEPT ![r] = NoTicket]
  /\ UNCHANGED <<frame, agentState, stopFlag, inbox, gateVars, dialogVars, started, kind, filled, told>>

(* ------------------------- a frame of the window ---------------------- *)

(* process_agent_events: the queued events are drained; a terminal one     *)
(* makes the workspace idle, whichever run sent it.                        *)
DrainEvents ==
  /\ frame = "events"
  /\ frame' = "checkpoints"
  /\ inbox' = FALSE
  /\ agentState' = IF inbox THEN "Idle" ELSE agentState
  /\ UNCHANGED <<stopFlag, gateVars, dialogVars, runVars, told>>

(* Faulty: a new checkpoint replaces the one being shown.                  *)
TakeCheckpointAlways ==
  /\ frame = "checkpoints"
  /\ frame' = "panel"
  /\ IF queue # <<>>
     THEN /\ pending' = Head(queue) /\ dialog' = Head(queue)
          /\ queue' = Tail(queue)
          /\ expired' = FALSE
          /\ agentState' = "AwaitingHil"
     ELSE UNCHANGED <<pending, dialog, queue, expired, agentState>>
  /\ UNCHANGED <<stopFlag, inbox, issued, decision, audit, consent, runVars, told>>

(* process_hil_checkpoints: nothing while one is held or shown.            *)
TakeCheckpoint ==
  /\ frame = "checkpoints"
  /\ frame' = "panel"
  /\ IF pending = NoTicket /\ dialog = NoTicket /\ queue # <<>>
     THEN /\ pending' = Head(queue) /\ dialog' = Head(queue)
          /\ queue' = Tail(queue)
          /\ expired' = FALSE
          /\ agentState' = "AwaitingHil"
     ELSE UNCHANGED <<pending, dialog, queue, expired, agentState>>
  /\ UNCHANGED <<stopFlag, inbox, issued, decision, audit, consent, runVars, told>>

Panel == frame = "panel" /\ frame' = "dialog"

(* The Stop button, there only while the workspace is busy: the flag is    *)
(* set and the dialog closed, but the checkpoint is kept.                  *)
PressStop ==
  /\ Panel
  /\ Busy
  /\ stopFlag' = TRUE
  /\ agentState' = "Idle"
  /\ dialog' = NoTicket
  /\ told' = told \cup Live
  /\ UNCHANGED <<inbox, gateVars, pending, expired, consent, runVars>>

(* The Run button, there otherwise: the flag is reset and a run spawned.   *)
PressRun(k) ==
  /\ Panel
  /\ ~Busy
  /\ started < MaxRuns
  /\ stopFlag' = FALSE
  /\ agentState' = "Running"
  /\ started' = started + 1
  /\ run' = [run EXCEPT ![started + 1] = "poll"]
  /\ kind' = [kind EXCEPT ![started + 1] = k]
  /\ UNCHANGED <<inbox, gateVars, dialogVars, ask, filled, told>>

(* No vault or no endpoint: the flag is reset all the same.                *)
PressRunFails ==
  /\ Panel
  /\ ~Busy
  /\ stopFlag' = FALSE
  /\ UNCHANGED <<agentState, inbox, gateVars, dialogVars, runVars, told>>

NoClick ==
  /\ Panel
  /\ UNCHANGED <<agentState, stopFlag, inbox, gateVars, dialogVars, runVars, told>>

(* respond_to_checkpoint consumes what the window holds.                   *)
Respond(d) ==
  /\ decision' = IF pending = NoTicket THEN decision ELSE [decision EXCEPT ![pending] = d]
  /\ pending' = NoTicket

DialogOpen == frame = "dialog" /\ dialog # NoTicket /\ frame' = "events"

(* Faulty: the dialog is left open.                                        *)
DialogTimeoutStaysOpen ==
  /\ DialogOpen
  /\ expired
  /\ Respond("denied")
  /\ agentState' = "Idle"
  /\ UNCHANGED <<dialog, stopFlag, inbox, queue, issued, audit, expired, consent, runVars, told>>

(* The 30 seconds are over: denied.                                        *)
DialogTimeout ==
  /\ DialogOpen
  /\ expired
  /\ Respond("denied")
  /\ dialog' = NoTicket
  /\ agentState' = "Idle"
  /\ UNCHANGED <<stopFlag, inbox, queue, issued, audit, expired, consent, runVars, told>>

Confirm ==
  /\ DialogOpen
  /\ ~expired
  /\ Respond("approved")
  /\ dialog' = NoTicket
  /\ consent' = consent \cup {dialog}
  /\ UNCHANGED <<agentState, stopFlag, inbox, queue, issued, audit, expired, runVars, told>>

Deny ==
  /\ DialogOpen
  /\ ~expired
  /\ Respond("denied")
  /\ dialog' = NoTicket
  /\ agentState' = "Idle"
  /\ UNCHANGED <<stopFlag, inbox, queue, issued, audit, expired, consent, runVars, told>>

(* No dialog, or no button of it clicked.                                  *)
NoAnswer ==
  /\ frame = "dialog" /\ frame' = "events"
  /\ dialog # NoTicket => ~expired
  /\ UNCHANGED <<agentState, stopFlag, inbox, gateVars, dialogVars, runVars, told>>

(* Time passes while the dialog is open.                                   *)
Expire ==
  /\ dialog # NoTicket /\ ~expired
  /\ expired' = TRUE
  /\ UNCHANGED <<frame, agentState, stopFlag, inbox, gateVars, pending, dialog, consent, runVars, told>>

(* ---------------------------- specification --------------------------- *)

RunStep(r) ==
  \/ PollStop(r) \/ PollGo(r) \/ Continue(r) \/ FinishRun(r)
  \/ Ask(r) \/ Resume(r)

Frame ==
  \/ DrainEvents
  \/ TakeCheckpoint
  \/ PressStop \/ (\E k \in Kinds : PressRun(k)) \/ PressRunFails \/ NoClick
  \/ DialogTimeout \/ Confirm \/ Deny \/ NoAnswer

Next ==
  \/ \E r \in Runs : RunStep(r) \/ Abandon(r)
  \/ Frame
  \/ Expire

Spec == Init /\ [][Next]_vars

(* The window repaints every 16 ms (app.rs 1319), the clock runs, and runs *)
(* are scheduled futures whose waits, except for approval, time out.       *)
Fairness ==
  /\ WF_vars(Frame)
  /\ WF_vars(Expire)
  /\ \A r \in Runs : WF_vars(RunStep(r))

FairSpec == Spec /\ Fairness

(* ------------------------------ properties ---------------------------- *)

WindowTyped ==
  /\ frame \in {"events", "checkpoints", "panel", "dialog"}
  /\ agentState \in AgentStates
  /\ stopFlag \in BOOLEAN /\ inbox \in BOOLEAN /\ expired \in BOOLEAN

GateTyped ==
  /\ issued \in 0..MaxTickets
  /\ queue \in Seq(1..issued)
  /\ pending \in 0..issued /\ dialog \in 0..issued
  /\ decision \in [Tickets -> {"none", "approved", "denied"}]
  /\ audit \subseteq 1..issued /\ filled \subseteq 1..issued /\ consent \subseteq 1..issued

RunsTyped ==
  /\ started \in 0..MaxRuns
  /\ run \in [Runs -> RunPhases] /\ kind \in [Runs -> Kinds]
  /\ ask \in [Runs -> 0..issued]
  /\ \A r \in Runs : /\ run[r] = "ask" <=> ask[r] # NoTicket
                     /\ run[r] = "unused" <=> r > started
  /\ told \subseteq Runs

(* Type invariant: the window holds only tickets that were issued, and a   *)
(* run waits for one exactly while it is asking.                           *)
TypeOK == WindowTyped /\ GateTyped /\ RunsTyped

(* A sensitive field is only filled for a checkpoint the user confirmed    *)
(* while the dialog showed that very checkpoint, and the fill is in the    *)
(* audit log: the answer goes to what the window holds, not to what the    *)
(* dialog shows, and several runs may be waiting (hil_dialog.rs 219-247).  *)
FilledWithConsent == filled \subseteq consent \cap audit

Elements(s) == {s[k] : k \in DOMAIN s}

Distinct(s) == \A k, l \in DOMAIN s : s[k] = s[l] => k = l

QueuedOrHeld == Elements(queue) \cup ({pending} \ {NoTicket})

(* No checkpoint gets lost: it is queued, or held by the window, or has    *)
(* been answered; and it is in one place only (app.rs 881-909).            *)
NothingLost ==
  /\ \A t \in 1..issued : t \in QueuedOrHeld <=> decision[t] = "none"
  /\ Distinct(queue)
  /\ pending \notin Elements(queue)

(* As long as Stop is not used every checkpoint is answered in the end, by *)
(* the user or by the 30 seconds, however many runs ask.                   *)
AnsweredUnlessStopped ==
  [](~stopFlag) => \A t \in Tickets : t <= issued ~> decision[t] # "none"

(* A Stop that is not undone ends every run, if the window holds no        *)
(* checkpoint it does not show.                                            *)
StopEndsRuns ==
  <>[](stopFlag /\ pending = NoTicket) => <>[](Live = {})

(* ---------------------- what comments say of the code ------------------ *)

(* app.rs 878-880: checkpoints "queue behind it until the user resolves    *)
(* the active one".                                                        *)
EveryAskAnswered == \A t \in Tickets : t <= issued ~> decision[t] # "none"

(* loop_runtime.rs 118-119: the flag asks "the loop to exit at the next    *)
(* iteration boundary".                                                    *)
StopAtNextIteration ==
  [][\A r \in told : run[r] = "poll" => run'[r] # "work"]_vars

=============================================================================
