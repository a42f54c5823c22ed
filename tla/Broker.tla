------------------------------- MODULE Broker -------------------------------
(***************************************************************************)
(* The process manager of kitsune-core/src/broker.rs: a table of child     *)
(* processes, one bounded queue of events, and one loop that handles them. *)
(* The loop waits inside a handler when the channel it sends to is full.   *)
(*                                                                         *)
(* Nothing in the repository watches a child: an exit is reported by       *)
(* whoever holds an event sender, and a report may be wrong.  Children and *)
(* the window read their channels at their own pace.  Time is one bit per  *)
(* process: whether its last crash is within the crash window.             *)
(***************************************************************************)
EXTENDS Naturals, Sequences, SequencesExt, FiniteSets, IpcMessages

CONSTANTS
  Children,    \* roles that may be registered
  Speech,      \* payloads connected processes try to send
  EventCap,    \* capacity of the event queue (256)
  InboxCap,    \* capacity of a child's channel (64)
  UiCap,       \* capacity of the window's channel
  MaxCrashes,  \* crashes in the window that make a process unrecoverable (3)
  MaxExits     \* bound: exits reported

BrokerAssumption ==
  /\ Children \subseteq Roles \ {"Broker"}
  /\ {EventCap, InboxCap, UiCap, MaxCrashes} \subseteq Nat \ {0}
  /\ MaxExits \in Nat

VARIABLES
  looping,     \* broker_loop was called
  status,      \* the table; "Absent": no entry
  crashCount,
  recent,      \* the last crash lies within the window
  connected,   \* the receiving end of the child's channel exists
  inbox,       \* messages in it
  events,      \* the event queue
  busy,        \* the message the loop is sending, or Nothing
  uiSet,       \* set_ui_channel was called
  ui,          \* messages in the window's channel
  readies,     \* tasks that will send ProcessReady, per role
  exits        \* exits reported

table == <<status, crashCount, recent>>
wires == <<connected, inbox, uiSet, ui>>
vars == <<looping, table, wires, events, busy, readies, exits>>

Statuses == {"Absent", "Starting", "Running", "Crashed", "Unrecoverable"}
Nothing == [to |-> "none"]

Init ==
  /\ looping = FALSE
  /\ status = [r \in Children |-> "Absent"]
  /\ crashCount = [r \in Children |-> 0]
  /\ recent = [r \in Children |-> FALSE]
  /\ connected = [r \in Children |-> FALSE]
  /\ inbox = [r \in Children |-> <<>>]
  /\ events = <<>> /\ busy = Nothing
  /\ uiSet = FALSE /\ ui = <<>>
  /\ readies = [r \in Children |-> 0]
  /\ exits = 0

(* ------------------------- before the loop ---------------------------- *)

SetUiChannel ==
  /\ ~looping /\ ~uiSet
  /\ uiSet' = TRUE
  /\ UNCHANGED <<looping, table, connected, inbox, ui, events, busy, readies, exits>>

(* Running from the start.  The caller keeps the receiver, or drops it as  *)
(* KitsuneEngine::start does.                                              *)
RegisterMock(r) ==
  /\ ~looping /\ status[r] = "Absent"
  /\ status' = [status EXCEPT ![r] = "Running"]
  /\ \E kept \in BOOLEAN : connected' = [connected EXCEPT ![r] = kept]
  /\ UNCHANGED <<looping, crashCount, recent, inbox, uiSet, ui, events, busy,
                 readies, exits>>

(* A real process.  The receiving end of its channel is dropped when the   *)
(* function returns; a task reports it ready without asking it.            *)
SpawnChild(r) ==
  /\ ~looping /\ status[r] = "Absent"
  /\ status' = [status EXCEPT ![r] = "Starting"]
  /\ readies' = [readies EXCEPT ![r] = @ + 1]
  /\ UNCHANGED <<looping, crashCount, recent, wires, events, busy, exits>>

StartLoop ==
  /\ ~looping
  /\ looping' = TRUE
  /\ UNCHANGED <<table, wires, events, busy, readies, exits>>

(* ------------------- what arrives at the event queue ------------------- *)

(* Faulty: the queue has no bound.                                        *)
RoomAlways == TRUE

Room == Len(events) < EventCap

Enqueue(event) == events' = Append(events, event)

FromChild(r, payload) == [kind |-> "FromChild", role |-> r, payload |-> payload]
ProcessReady(r) == [kind |-> "ProcessReady", role |-> r]
ProcessExited(r) == [kind |-> "ProcessExited", role |-> r]

(* A client's message, or the server's note about it.                      *)
ChildSpeaks(r, payload) ==
  /\ Room
  /\ Enqueue(FromChild(r, payload))
  /\ UNCHANGED <<looping, table, wires, busy, readies, exits>>

(* A spawned task sends ProcessReady, after the delay if it has one.       *)
SendReady(r) ==
  /\ readies[r] > 0 /\ Room
  /\ readies' = [readies EXCEPT ![r] = @ - 1]
  /\ Enqueue(ProcessReady(r))
  /\ UNCHANGED <<looping, table, wires, busy, exits>>

ReportExit(r) ==
  /\ exits < MaxExits /\ Room
  /\ exits' = exits + 1
  /\ Enqueue(ProcessExited(r))
  /\ UNCHANGED <<looping, table, wires, busy, readies>>

(* More than ten seconds since the last crash.  A respawn timer of one     *)
(* second has fired by then, unless the queue has no room.                 *)
WindowPasses(r) ==
  /\ recent[r] /\ (readies[r] = 0 \/ ~Room)
  /\ recent' = [recent EXCEPT ![r] = FALSE]
  /\ UNCHANGED <<looping, status, crashCount, wires, events, busy, readies, exits>>

(* ------------------------------ the loop ------------------------------- *)

Handling(kind) ==
  /\ looping /\ busy = Nothing
  /\ events # <<>> /\ Head(events).kind = kind
  /\ events' = Tail(events)

(* route: to a child that is called running, to the window if the payload  *)
(* has no role of its own, else dropped.                                   *)
Route(from, payload) ==
  LET dest == RoutePayload(payload) IN
  IF dest \in Children /\ status[dest] = "Running"
  THEN busy' = [to |-> dest, from |-> from, payload |-> payload]
  ELSE IF dest = "ui" /\ uiSet
  THEN busy' = [to |-> "ui", from |-> from, payload |-> payload]
  ELSE UNCHANGED busy

HandleMessage ==
  /\ Handling("FromChild")
  /\ Route(Head(events).role, Head(events).payload)
  /\ UNCHANGED <<looping, table, wires, readies, exits>>

(* Faulty: only a process that was just spawned becomes ready.             *)
HandleReadyStarting ==
  LET r == Head(events).role IN
  /\ Handling("ProcessReady")
  /\ status' = IF status[r] = "Starting" THEN [status EXCEPT ![r] = "Running"] ELSE status
  /\ UNCHANGED <<looping, crashCount, recent, wires, busy, readies, exits>>

HandleReady ==
  LET r == Head(events).role IN
  /\ Handling("ProcessReady")
  /\ status' = IF status[r] = "Absent" THEN status ELSE [status EXCEPT ![r] = "Running"]
  /\ UNCHANGED <<looping, crashCount, recent, wires, busy, readies, exits>>

(* The crash count as handle_crash leaves it.                              *)
Counted(r) == IF recent[r] THEN crashCount[r] + 1 ELSE 1

TooMany(r) == Counted(r) >= MaxCrashes

HandleCrash ==
  LET r == Head(events).role IN
  /\ Handling("ProcessExited")
  /\ IF status[r] = "Absent" THEN UNCHANGED <<table, readies, busy>>
     ELSE /\ crashCount' = [crashCount EXCEPT ![r] = Counted(r)]
          /\ recent' = [recent EXCEPT ![r] = TRUE]
          /\ \/ /\ TooMany(r)
                /\ status' = [status EXCEPT ![r] = "Unrecoverable"]
                /\ busy' = IF uiSet
                           THEN [to |-> "ui", from |-> "Broker", payload |-> "ProcessShutdown"]
                           ELSE Nothing
                /\ UNCHANGED readies
             \/ /\ ~TooMany(r)
                /\ status' = [status EXCEPT ![r] = "Crashed"]
                /\ readies' = [readies EXCEPT ![r] = @ + 1]
                /\ UNCHANGED busy
  /\ UNCHANGED <<looping, wires, exits>>

(* The send of a handler completes: at once with an error when the         *)
(* receiver is gone, else when there is room.                              *)
Deliver ==
  /\ looping /\ busy # Nothing
  /\ IF busy.to = "ui"
     THEN /\ Len(ui) < UiCap
          /\ ui' = Append(ui, busy)
          /\ UNCHANGED inbox
     ELSE /\ connected[busy.to] => Len(inbox[busy.to]) < InboxCap
          /\ inbox' = IF connected[busy.to]
                      THEN [inbox EXCEPT ![busy.to] = Append(@, busy)] ELSE inbox
          /\ UNCHANGED ui
  /\ busy' = Nothing
  /\ UNCHANGED <<looping, table, connected, uiSet, events, readies, exits>>

(* --------------------------- at the other ends ------------------------- *)

ChildReads(r) ==
  /\ inbox[r] # <<>>
  /\ inbox' = [inbox EXCEPT ![r] = Tail(@)]
  /\ UNCHANGED <<looping, table, connected, uiSet, ui, events, busy, readies, exits>>

UiReads ==
  /\ ui # <<>>
  /\ ui' = Tail(ui)
  /\ UNCHANGED <<looping, table, connected, inbox, uiSet, events, busy, readies, exits>>

Setup ==
  \/ SetUiChannel \/ StartLoop
  \/ \E r \in Children : RegisterMock(r) \/ SpawnChild(r)

Loop == HandleMessage \/ HandleReady \/ HandleCrash \/ Deliver

ChildStep(r) == SendReady(r) \/ ReportExit(r) \/ WindowPasses(r) \/ ChildReads(r)

(* What reaches the queue has passed the server's check of the role.       *)
Chatter == \E r \in Roles : \E p \in Speech \cap Permitted(r) : ChildSpeaks(r, p)

BrokerNext ==
  Setup \/ Loop \/ UiReads \/ Chatter \/ \E r \in Children : ChildStep(r)

(* ------------------------------ properties ----------------------------- *)

(* The broker's variables keep their types; sends are to those who exist.  *)
BrokerTypeOK ==
  /\ looping \in BOOLEAN /\ uiSet \in BOOLEAN
  /\ status \in [Children -> Statuses]
  /\ crashCount \in [Children -> Nat]
  /\ recent \in [Children -> BOOLEAN] /\ connected \in [Children -> BOOLEAN]
  /\ readies \in [Children -> Nat]
  /\ exits \in 0..MaxExits
  /\ Len(events) <= EventCap /\ Len(ui) <= UiCap
  /\ \A r \in Children : Len(inbox[r]) <= InboxCap
  /\ busy = Nothing \/ busy.to \in Children \cup {"ui"}

(* Sandboxed processes never talk to each other: nothing a renderer, the   *)
(* network process or the JS engine sent is delivered to a child. What may *)
(* be sent is decided in the IPC crate, where it goes in the broker.       *)
NoDirectTraffic ==
  \A r \in Children : \A i \in 1..Len(inbox[r]) : inbox[r][i].from \notin Sandboxed

(* A crash is always followed by a respawn or by giving the process up,    *)
(* though the loop may be waiting for a slow child or window meanwhile.    *)
CrashedResolves == \A r \in Children : status[r] = "Crashed" ~> status[r] # "Crashed"

(* Unrecoverable is final.                                                 *)
UnrecoverableSticks ==
  [][\A r \in Children : status[r] = "Unrecoverable" => status'[r] = "Unrecoverable"]_vars
=============================================================================
