------------------------------ MODULE Workers ------------------------------
(***************************************************************************)
(* The agent loop of kitsune-agent/src/loop_runtime.rs as several runs     *)
(* share one page: each turn polls the stop flag, has the page observed,   *)
(* asks the model and acts.  Commands travel through one bounded channel   *)
(* to the window, which executes them on the page it has by then.          *)
(*                                                                         *)
(* Workers of a swarm take the navigation lock to act, and the approval    *)
(* lock besides to fill a sensitive field; single runs have neither.  An   *)
(* element id means something only on a page an observation has tagged, so *)
(* the page is untagged, or tagged as one kind: "form" has a sensitive     *)
(* field where "plain" has another element.  Pages turn at any time: loads *)
(* end, users browse, and the window loads the URL of an event Navigated,  *)
(* which a run emits besides the command.  Reading a file or downloading   *)
(* one touches no page and is a turn without effect here.                  *)
(***************************************************************************)
EXTENDS Naturals, Sequences, FiniteSets

CONSTANTS
  Workers, NoOne,
  MaxIterations,   \* turns of a run (40)
  CommandCap       \* capacity of the channel to the window (64)

ASSUME WorkersAssumption ==
  /\ NoOne \notin Workers
  /\ MaxIterations \in Nat \ {0} /\ CommandCap \in Nat \ {0}

VARIABLES
  swarm,      \* the runs are workers of a swarm
  stopped,    \* the stop flag
  at,         \* where each run is
  turn,       \* turns a run has completed
  seen,       \* the page as last observed
  plan,       \* the action the model chose
  nav, hil,   \* holders of the two locks
  commands,   \* the channel to the window
  page,       \* what the window shows
  late,       \* the turns in which a run asked for page changes after the stop, and how
  unapproved  \* a sensitive field was typed into without an approval

locks == <<nav, hil>>
run == <<at, turn, seen, plan>>
vars == <<swarm, stopped, at, turn, seen, plan, nav, hil, commands, page, late, unapproved>>

Pages == {"untagged", "plain", "form"}
Plans == {"none", "change", "fill"}
Holding == {"approval", "asking", "sending", "announced", "approved"}
Places == {"top", "observe", "observing", "thinking", "navwait", "read", "reading",
           "fallback", "leaving", "ended"} \cup Holding
Ops == {"observe", "read", "change", "fill"}
Command == [op : Ops, from : Workers, turn : Nat, approved : BOOLEAN]

Init ==
  /\ swarm \in BOOLEAN /\ stopped = FALSE
  /\ at = [w \in Workers |-> "top"] /\ turn = [w \in Workers |-> 0]
  /\ seen = [w \in Workers |-> "untagged"] /\ plan = [w \in Workers |-> "none"]
  /\ nav = NoOne /\ hil = NoOne
  /\ commands = <<>> /\ page = "untagged"
  /\ late = [w \in Workers |-> {}] /\ unapproved = FALSE

(* -------------------------------- helpers ------------------------------ *)

Go(w, place) == at' = [at EXCEPT ![w] = place]

Free(w, lock) == IF lock = w THEN NoOne ELSE lock

(* The guards of a run are dropped, whatever it holds.                     *)
Release(w) == nav' = Free(w, nav) /\ hil' = Free(w, hil)

(* The loop comes around: what was observed and chosen is gone.            *)
NextTurn(w) ==
  /\ turn' = [turn EXCEPT ![w] = @ + 1]
  /\ seen' = [seen EXCEPT ![w] = "untagged"]
  /\ plan' = [plan EXCEPT ![w] = "none"]
  /\ Go(w, IF turn[w] + 1 = MaxIterations THEN "ended" ELSE "top")

End(w) == Go(w, "ended") /\ UNCHANGED <<turn, seen, plan>>

(* Faulty: the channel has no bound.                                       *)
RoomAlways == TRUE

Room == Len(commands) < CommandCap

(* The action is to fill a field that is a sensitive one on the page as    *)
(* the run observed it.                                                    *)
Sensitive(w, action) == action = "fill" /\ seen[w] = "form"

Send(w, op, approved) ==
  /\ Room
  /\ commands' = Append(commands, [op |-> op, from |-> w, turn |-> turn[w],
                                   approved |-> approved])

(* A run asks for a change of the page, by an event or a command.          *)
Asks(w, way) ==
  late' = IF stopped THEN [late EXCEPT ![w] = @ \cup {<<turn[w], way>>}] ELSE late

Change(w, op, approved) == Send(w, op, approved) /\ Asks(w, "command")

(* ------------------------------- the loop ------------------------------ *)

(* Faulty: the flag is read before the first turn only.                    *)
PollOnce(w) ==
  /\ at[w] = "top"
  /\ IF stopped /\ turn[w] = 0 THEN End(w)
     ELSE Go(w, "observe") /\ UNCHANGED <<turn, seen, plan>>
  /\ UNCHANGED <<swarm, stopped, locks, commands, page, late, unapproved>>

Poll(w) ==
  /\ at[w] = "top"
  /\ IF stopped THEN End(w) ELSE Go(w, "observe") /\ UNCHANGED <<turn, seen, plan>>
  /\ UNCHANGED <<swarm, stopped, locks, commands, page, late, unapproved>>

Observe(w) ==
  /\ at[w] = "observe"
  /\ Send(w, "observe", FALSE)
  /\ Go(w, "observing")
  /\ UNCHANGED <<swarm, stopped, turn, seen, plan, locks, page, late, unapproved>>

(* Five seconds without an answer, or one that does not parse: the turn    *)
(* goes on with an empty page.                                             *)
ObserveFails(w) ==
  /\ at[w] = "observing"
  /\ Go(w, "thinking")
  /\ UNCHANGED <<swarm, stopped, turn, seen, plan, locks, commands, page, late, unapproved>>

(* The task itself may name a place to go.                                 *)
FallbackNavigate(w) ==
  /\ turn[w] = 0 /\ Go(w, "fallback") /\ UNCHANGED <<turn, seen, plan>>

(* The client returns an error, and the run ends; or it is that nobody     *)
(* answers.                                                                *)
ModelFails(w) == End(w) \/ FallbackNavigate(w)

(* The model answers with an action: one that changes the page or fills a  *)
(* field, a read, or one without effect on the page (an empty or           *)
(* unparsable answer, a file, a download), or it is done or fails.         *)
Think(w) ==
  /\ at[w] = "thinking"
  /\ \/ \E p \in {"change", "fill"} :
          /\ plan' = [plan EXCEPT ![w] = p]
          /\ Go(w, IF swarm THEN "navwait"
                   ELSE IF Sensitive(w, p) THEN "asking" ELSE "sending")
          /\ UNCHANGED <<turn, seen>>
     \/ Go(w, "read") /\ UNCHANGED <<turn, seen, plan>>
     \/ NextTurn(w)
     \/ End(w)
     \/ ModelFails(w)
  /\ UNCHANGED <<swarm, stopped, locks, commands, page, late, unapproved>>

(* The model is out of reach in the first turn, and the task names a place *)
(* to go: the run goes there, whatever the lock, and ends.                 *)
Fallback(w) ==
  /\ at[w] = "leaving"
  /\ Change(w, "change", FALSE)
  /\ End(w)
  /\ UNCHANGED <<swarm, stopped, locks, page, unapproved>>

(* ------------------------------- to act -------------------------------- *)

(* Faulty: the navigation lock is given back before the user is asked.     *)
LockNavShort(w) ==
  /\ at[w] = "navwait" /\ nav = NoOne
  /\ IF Sensitive(w, plan[w])
     THEN Go(w, "approval") /\ UNCHANGED nav
     ELSE Go(w, "sending") /\ nav' = w
  /\ UNCHANGED <<swarm, stopped, turn, seen, plan, hil, commands, page, late, unapproved>>

LockNav(w) ==
  /\ at[w] = "navwait" /\ nav = NoOne
  /\ nav' = w
  /\ Go(w, IF Sensitive(w, plan[w]) THEN "approval" ELSE "sending")
  /\ UNCHANGED <<swarm, stopped, turn, seen, plan, hil, commands, page, late, unapproved>>

(* Faulty: no timeout on the lock.                                         *)
NavTimeoutNever(w) == FALSE /\ UNCHANGED vars

(* Thirty seconds without the lock: the action failed, the loop goes on.   *)
NavTimeout(w) ==
  /\ at[w] = "navwait"
  /\ NextTurn(w)
  /\ UNCHANGED <<swarm, stopped, locks, commands, page, late, unapproved>>

LockHil(w) ==
  /\ at[w] = "approval" /\ hil = NoOne
  /\ hil' = w
  /\ Go(w, "asking")
  /\ UNCHANGED <<swarm, stopped, turn, seen, plan, nav, commands, page, late, unapproved>>

HilTimeout(w) ==
  /\ at[w] = "approval"
  /\ NextTurn(w) /\ Release(w)
  /\ UNCHANGED <<swarm, stopped, commands, page, late, unapproved>>

(* checkpoint returns.  The approval lock goes with the scope.             *)
Approved(w) ==
  /\ at[w] = "asking"
  /\ Go(w, "approved")
  /\ hil' = Free(w, hil)
  /\ UNCHANGED <<swarm, stopped, turn, seen, plan, nav, commands, page, late, unapproved>>

Refused(w) ==
  /\ at[w] = "asking"
  /\ NextTurn(w) /\ Release(w)
  /\ UNCHANGED <<swarm, stopped, commands, page, late, unapproved>>

(* A navigation is announced to the window by an event, whose channel has  *)
(* no bound; the window loads the URL when it folds the event, before or   *)
(* after the command, which is one of the PageTurns.                       *)
Announce(w) ==
  /\ \/ at[w] = "sending" /\ plan[w] = "change" /\ Go(w, "announced")
     \/ at[w] = "fallback" /\ Go(w, "leaving")
  /\ Asks(w, "event")
  /\ UNCHANGED <<swarm, stopped, turn, seen, plan, locks, commands, page, unapproved>>

(* A click, a fill, or the command of a navigation.  The lock is given     *)
(* back before the pause that lets the page settle.                        *)
Act(w) ==
  /\ at[w] \in {"sending", "announced", "approved"}
  /\ Change(w, plan[w], at[w] = "approved")
  /\ NextTurn(w) /\ Release(w)
  /\ UNCHANGED <<swarm, stopped, page, unapproved>>

Read(w) ==
  /\ at[w] = "read"
  /\ Send(w, "read", FALSE)
  /\ Go(w, "reading")
  /\ UNCHANGED <<swarm, stopped, turn, seen, plan, locks, page, late, unapproved>>

(* Five seconds without an answer.                                         *)
ReadFails(w) ==
  /\ at[w] = "reading"
  /\ NextTurn(w)
  /\ UNCHANGED <<swarm, stopped, locks, commands, page, late, unapproved>>

(* ------------------------------ from outside --------------------------- *)

PressStop ==
  /\ ~stopped /\ stopped' = TRUE
  /\ UNCHANGED <<swarm, run, locks, commands, page, late, unapproved>>

(* The next Run clears the flag, which all runs share, whoever has looked. *)
(* A run that is about to poll for the first time may be the new one.      *)
PressRun ==
  /\ stopped /\ stopped' = FALSE
  /\ late' = [w \in Workers |-> {}]
  /\ UNCHANGED <<swarm, run, locks, commands, page, unapproved>>

(* The worker's own time is over, or the coordinator aborts it.            *)
Abort(w) ==
  /\ swarm /\ at[w] # "ended"
  /\ End(w) /\ Release(w)
  /\ UNCHANGED <<swarm, stopped, commands, page, late, unapproved>>

PageTurns ==
  /\ page' = "untagged" /\ page # "untagged"
  /\ UNCHANGED <<swarm, stopped, run, locks, commands, late, unapproved>>

(* The window takes the next command to the page it shows now, or drops it *)
(* while there is no page.  Only the call that still waits gets an answer. *)
Window ==
  LET c == Head(commands)
      asks(place) == at[c.from] = place /\ turn[c.from] = c.turn IN
  /\ commands # <<>>
  /\ commands' = Tail(commands)
  /\ \/ /\ c.op = "observe"
        /\ page' \in (IF page = "untagged" THEN Pages \ {"untagged"} ELSE {page})
        /\ IF asks("observing")
           THEN seen' = [seen EXCEPT ![c.from] = page'] /\ Go(c.from, "thinking")
           ELSE UNCHANGED <<seen, at>>
        /\ UNCHANGED <<turn, plan, unapproved>>
     \/ /\ c.op = "read"
        /\ IF asks("reading") THEN NextTurn(c.from) ELSE UNCHANGED run
        /\ UNCHANGED <<page, unapproved>>
     \/ /\ c.op = "change"
        /\ page' \in {page, "untagged"}
        /\ UNCHANGED <<run, unapproved>>
     \/ /\ c.op = "fill"
        /\ unapproved' = (unapproved \/ (page = "form" /\ ~c.approved))
        /\ UNCHANGED <<run, page>>
     \/ UNCHANGED <<run, page, unapproved>>
  /\ UNCHANGED <<swarm, stopped, locks, late>>

LoopStep(w) ==
  \/ Poll(w) \/ Observe(w) \/ ObserveFails(w) \/ Think(w) \/ Fallback(w)
  \/ LockNav(w) \/ NavTimeout(w) \/ LockHil(w) \/ HilTimeout(w)
  \/ Announce(w) \/ Act(w) \/ Read(w) \/ ReadFails(w)

WorkersNext ==
  \/ PressStop \/ PressRun \/ PageTurns \/ Window
  \/ \E w \in Workers : LoopStep(w) \/ Approved(w) \/ Refused(w) \/ Abort(w)

Spec == Init /\ [][WorkersNext]_vars

(* The runtime schedules every run, and the window drains its channel each *)
(* frame.  The user need not answer.                                       *)
Fairness ==
  /\ WF_vars(Window)
  /\ \A w \in Workers : SF_vars(LoopStep(w))

FairSpec == Spec /\ Fairness

(* ------------------------------ properties ----------------------------- *)

(* The variables keep their types, and the channel its bound.              *)
WorkersTypeOK ==
  /\ swarm \in BOOLEAN /\ stopped \in BOOLEAN /\ unapproved \in BOOLEAN
  /\ at \in [Workers -> Places] /\ turn \in [Workers -> 0..MaxIterations]
  /\ seen \in [Workers -> Pages] /\ plan \in [Workers -> Plans]
  /\ nav \in Workers \cup {NoOne} /\ hil \in Workers \cup {NoOne}
  /\ commands \in Seq(Command) /\ Len(commands) <= CommandCap
  /\ page \in Pages
  /\ late \in [Workers -> SUBSET (Nat \X {"event", "command"})]

(* A worker that wants to ask the user finds the approval lock free,       *)
(* because it holds the navigation lock: the two locks cannot deadlock,    *)
(* and the wait of 120 seconds is never used.                              *)
HilNeverContended == \A w \in Workers : at[w] = "approval" => hil = NoOne

(* After a Stop, until a Run undoes it, every run asks for page changes in *)
(* one turn at most, the one it was in when the flag was set: one command, *)
(* and before it an event if it is to navigate.  It looks at the flag only *)
(* between turns, however long it waits for a lock, the user or the        *)
(* channel in one.                                                         *)
StopBoundsActions == \A w \in Workers : \A a, b \in late[w] : a[1] = b[1]

(* Every run ends, or waits for the user itself: a run that waits for the  *)
(* user with the navigation lock in hand does not hold up the others.      *)
OthersEnd ==
  \A w \in Workers : <>(at[w] = "ended") \/ <>[](at[w] = "asking")

(* Nothing is typed into a sensitive field without an approval.            *)
SensitiveApproved == ~unapproved
=============================================================================
