--------------------------- MODULE WorkersProofs ---------------------------
(***************************************************************************)
(* Proofs about the agent loop for any number of runs on one page, any     *)
(* number of turns and any capacity of the command channel.                *)
(***************************************************************************)
EXTENDS Workers, TLAPS

(* The parts of the type invariant.                                        *)
Flags == swarm \in BOOLEAN /\ stopped \in BOOLEAN /\ unapproved \in BOOLEAN

RunsTyped ==
  /\ at \in [Workers -> Places] /\ turn \in [Workers -> 0..MaxIterations]
  /\ seen \in [Workers -> Pages] /\ plan \in [Workers -> Plans]

SharedTyped ==
  /\ nav \in Workers \cup {NoOne} /\ hil \in Workers \cup {NoOne}
  /\ page \in Pages /\ late \in [Workers -> SUBSET (Nat \X {"event", "command"})]

ChannelTyped == commands \in Seq(Command) /\ Len(commands) <= CommandCap

(* A run whose turns are used up is over.                                  *)
TurnsLeft == \A w \in Workers : turn[w] = MaxIterations => at[w] = "ended"

(* A run that is about to act has an action.                               *)
Planned == \A w \in Workers : at[w] \in Holding \cup {"navwait"} => plan[w] # "none"

(* Who is past the navigation lock holds it, and who holds the approval    *)
(* lock is asking; single runs have no locks at all.                       *)
LocksHeld ==
  /\ swarm => \A w \in Workers : at[w] \in Holding => nav = w
  /\ hil # NoOne => swarm /\ at[hil] = "asking"
  /\ ~swarm => \A w \in Workers : at[w] \notin {"navwait", "approval"}

(* After the command that Stop did not prevent a run looks at the flag     *)
(* before it does anything else, or is over; after the event it has only   *)
(* the command of the same turn to send.                                   *)
LateOnce ==
  \A w \in Workers :
    \/ late[w] = {}
    \/ /\ stopped /\ at[w] \in {"top", "ended"}
       /\ \A a, b \in late[w] : a[1] = b[1]
    \/ /\ stopped /\ at[w] \in {"announced", "leaving"}
       /\ \A a \in late[w] : a[1] = turn[w]

Facts == RunsTyped /\ SharedTyped /\ TurnsLeft /\ Planned /\ LocksHeld /\ LateOnce

IInv == Flags /\ ChannelTyped /\ Facts

-----------------------------------------------------------------------------

LEMMA TypeParts == Flags /\ RunsTyped /\ SharedTyped /\ ChannelTyped <=> WorkersTypeOK
  BY DEF Flags, RunsTyped, SharedTyped, ChannelTyped, WorkersTypeOK

LEMMA InitInv == Init => IInv
<1> SUFFICES ASSUME Init PROVE IInv
  OBVIOUS
<1> USE WorkersAssumption DEF Init
<1>1. Flags
  BY DEF Flags
<1>2. ChannelTyped
  BY DEF ChannelTyped
<1>3. RunsTyped /\ SharedTyped
  BY DEF RunsTyped, SharedTyped, Places, Pages, Plans
<1>4. TurnsLeft /\ Planned /\ LocksHeld /\ LateOnce
  BY DEF TurnsLeft, Planned, LocksHeld, LateOnce, Holding
<1> QED
  BY <1>1, <1>2, <1>3, <1>4 DEF IInv, Facts

(* A step that sends a command finds room for it.                          *)
LEMMA SendTyped ==
  ASSUME NEW w \in Workers, NEW op \in Ops, NEW approved \in BOOLEAN,
         RunsTyped, ChannelTyped, Send(w, op, approved)
  PROVE  ChannelTyped'
<1> DEFINE c == [op |-> op, from |-> w, turn |-> turn[w], approved |-> approved]
<1>1. turn[w] \in Nat /\ commands \in Seq(Command) /\ Len(commands) < CommandCap
  BY WorkersAssumption DEF RunsTyped, ChannelTyped, Send, Room
<1>2. c \in Command
  BY <1>1 DEF Command
<1>3. commands' = Append(commands, c)
  BY DEF Send
<1> HIDE DEF c
<1> QED
  BY <1>1, <1>2, <1>3, WorkersAssumption DEF ChannelTyped

(* The steps of the loop up to the choice of an action, and the reads.     *)
LEMMA ChooseInv ==
  ASSUME IInv, NEW w \in Workers,
         \/ Poll(w) \/ Observe(w) \/ ObserveFails(w) \/ Think(w)
         \/ Read(w) \/ ReadFails(w)
  PROVE  IInv'
<1> USE WorkersAssumption DEF IInv
<1>1. CASE Poll(w)
  <2>1. Flags' /\ ChannelTyped'
    BY <1>1 DEF Poll, Flags, ChannelTyped
  <2>2. Facts'
    BY <1>1 DEF Poll, End, Go, locks, Flags,
       Facts, RunsTyped, SharedTyped, TurnsLeft, Planned,
       LocksHeld, LateOnce, Places, Holding
  <2> QED
    BY <2>1, <2>2
<1>2. CASE Observe(w)
  <2>1. Flags' /\ ChannelTyped'
    BY <1>2, SendTyped DEF Observe, Go, Flags, Ops, Facts
  <2>2. Facts'
    BY <1>2 DEF Observe, Send, Go, locks, Flags,
       Facts, RunsTyped, SharedTyped, TurnsLeft, Planned,
       LocksHeld, LateOnce, Places, Holding
  <2> QED
    BY <2>1, <2>2
<1>3. CASE ObserveFails(w)
  <2>1. Flags' /\ ChannelTyped'
    BY <1>3 DEF ObserveFails, Flags, ChannelTyped
  <2>2. Facts'
    BY <1>3 DEF ObserveFails, Go, locks, Flags,
       Facts, RunsTyped, SharedTyped, TurnsLeft, Planned,
       LocksHeld, LateOnce, Places, Holding
  <2> QED
    BY <2>1, <2>2
<1>4. CASE Think(w)
  <2>1. Flags' /\ ChannelTyped'
    BY <1>4 DEF Think, Flags, ChannelTyped
  <2>2. ASSUME NextTurn(w) PROVE Facts'
    BY <1>4, <2>2 DEF Think, NextTurn, Go, locks, Flags,
       Facts, RunsTyped, SharedTyped, TurnsLeft, Planned,
       LocksHeld, LateOnce, Places, Holding, Pages, Plans
  <2>3. ASSUME NEW p \in {"change", "fill"}, plan' = [plan EXCEPT ![w] = p],
               Go(w, IF swarm THEN "navwait"
                     ELSE IF Sensitive(w, p) THEN "asking" ELSE "sending"),
               UNCHANGED <<turn, seen>>
        PROVE  Facts'
    BY <1>4, <2>3 DEF Think, Go, locks, Flags,
       Facts, RunsTyped, SharedTyped, TurnsLeft, Planned,
       LocksHeld, LateOnce, Places, Holding, Plans
  <2>4. ASSUME NEW place \in {"read", "ended", "fallback"},
               Go(w, place), UNCHANGED <<turn, seen, plan>>
        PROVE  Facts'
    BY <1>4, <2>4 DEF Think, Go, locks, Flags,
       Facts, RunsTyped, SharedTyped, TurnsLeft, Planned,
       LocksHeld, LateOnce, Places, Holding
  <2>5. Facts'
    BY <1>4, <2>2, <2>3, <2>4 DEF Think, ModelFails, FallbackNavigate, End
  <2> QED
    BY <2>1, <2>5
<1>5. CASE Read(w)
  <2>1. Flags' /\ ChannelTyped'
    BY <1>5, SendTyped DEF Read, Go, Flags, Ops, Facts
  <2>2. Facts'
    BY <1>5 DEF Read, Send, Go, locks, Flags,
       Facts, RunsTyped, SharedTyped, TurnsLeft, Planned,
       LocksHeld, LateOnce, Places, Holding
  <2> QED
    BY <2>1, <2>2
<1>6. CASE ReadFails(w)
  <2>1. Flags' /\ ChannelTyped'
    BY <1>6 DEF ReadFails, Flags, ChannelTyped
  <2>2. Facts'
    BY <1>6 DEF ReadFails, NextTurn, Pages, Plans, Go, locks, Flags,
       Facts, RunsTyped, SharedTyped, TurnsLeft, Planned,
       LocksHeld, LateOnce, Places, Holding
  <2> QED
    BY <2>1, <2>2
<1> QED
  BY <1>1, <1>2, <1>3, <1>4, <1>5, <1>6

(* The steps under the locks.                                              *)
LEMMA ActInv ==
  ASSUME IInv, NEW w \in Workers,
         \/ Fallback(w) \/ LockNav(w) \/ NavTimeout(w) \/ LockHil(w) \/ HilTimeout(w)
         \/ Approved(w) \/ Refused(w) \/ Announce(w) \/ Act(w) \/ Abort(w)
  PROVE  IInv'
<1> USE WorkersAssumption DEF IInv
<1>1. CASE Fallback(w)
  <2>1. Flags' /\ ChannelTyped'
    BY <1>1, SendTyped DEF Fallback, Change, Flags, Ops, Facts
  <2>2. Facts'
    BY <1>1 DEF Fallback, Change, Asks, Send, End, Go, locks, Flags,
       Facts, RunsTyped, SharedTyped, TurnsLeft, Planned,
       LocksHeld, LateOnce, Places, Holding
  <2> QED
    BY <2>1, <2>2
<1>2. CASE LockNav(w)
  <2>1. Flags' /\ ChannelTyped'
    BY <1>2 DEF LockNav, Flags, ChannelTyped
  <2>2. Facts'
    BY <1>2 DEF LockNav, Sensitive, Go, locks, Flags,
       Facts, RunsTyped, SharedTyped, TurnsLeft, Planned,
       LocksHeld, LateOnce, Places, Holding
  <2> QED
    BY <2>1, <2>2
<1>3. CASE NavTimeout(w)
  <2>1. Flags' /\ ChannelTyped'
    BY <1>3 DEF NavTimeout, Flags, ChannelTyped
  <2>2. Facts'
    BY <1>3 DEF NavTimeout, NextTurn, Pages, Plans, Go, locks, Flags,
       Facts, RunsTyped, SharedTyped, TurnsLeft, Planned,
       LocksHeld, LateOnce, Places, Holding
  <2> QED
    BY <2>1, <2>2
<1>4. CASE LockHil(w)
  <2>1. Flags' /\ ChannelTyped'
    BY <1>4 DEF LockHil, Flags, ChannelTyped
  <2>2. Facts'
    BY <1>4 DEF LockHil, Go, locks, Flags,
       Facts, RunsTyped, SharedTyped, TurnsLeft, Planned,
       LocksHeld, LateOnce, Places, Holding
  <2> QED
    BY <2>1, <2>2
<1>5. CASE HilTimeout(w)
  <2>1. Flags' /\ ChannelTyped'
    BY <1>5 DEF HilTimeout, Flags, ChannelTyped
  <2>2. Facts'
    BY <1>5 DEF HilTimeout, NextTurn, Pages, Plans, Release, Free, Go, locks, Flags,
       Facts, RunsTyped, SharedTyped, TurnsLeft, Planned,
       LocksHeld, LateOnce, Places, Holding
  <2> QED
    BY <2>1, <2>2
<1>6. CASE Approved(w)
  <2>1. Flags' /\ ChannelTyped'
    BY <1>6 DEF Approved, Flags, ChannelTyped
  <2>2. Facts'
    BY <1>6 DEF Approved, Free, Go, locks, Flags,
       Facts, RunsTyped, SharedTyped, TurnsLeft, Planned,
       LocksHeld, LateOnce, Places, Holding
  <2> QED
    BY <2>1, <2>2
<1>7. CASE Refused(w)
  <2>1. Flags' /\ ChannelTyped'
    BY <1>7 DEF Refused, Flags, ChannelTyped
  <2>2. Facts'
    BY <1>7 DEF Refused, NextTurn, Pages, Plans, Release, Free, Go, locks, Flags,
       Facts, RunsTyped, SharedTyped, TurnsLeft, Planned,
       LocksHeld, LateOnce, Places, Holding
  <2> QED
    BY <2>1, <2>2
<1>8. CASE Act(w)
  <2>1. Flags' /\ ChannelTyped'
    BY <1>8, SendTyped DEF Act, Change, Plans, RunsTyped, Planned, Holding, Flags, Ops, Facts
  <2>2. Facts'
    BY <1>8 DEF Act, Change, Asks, Send, NextTurn, Pages, Plans, Release, Free, Go, locks, Flags,
       Facts, RunsTyped, SharedTyped, TurnsLeft, Planned,
       LocksHeld, LateOnce, Places, Holding
  <2> QED
    BY <2>1, <2>2
<1>10. CASE Announce(w)
  <2>1. Flags' /\ ChannelTyped'
    BY <1>10 DEF Announce, Flags, ChannelTyped
  <2>2. Facts'
    BY <1>10 DEF Announce, Asks, Go, locks, Flags,
       Facts, RunsTyped, SharedTyped, TurnsLeft, Planned,
       LocksHeld, LateOnce, Places, Holding
  <2> QED
    BY <2>1, <2>2
<1>9. CASE Abort(w)
  <2>1. Flags' /\ ChannelTyped'
    BY <1>9 DEF Abort, Flags, ChannelTyped
  <2>2. Facts'
    BY <1>9 DEF Abort, End, Release, Free, Go, locks, Flags,
       Facts, RunsTyped, SharedTyped, TurnsLeft, Planned,
       LocksHeld, LateOnce, Places, Holding
  <2> QED
    BY <2>1, <2>2
<1> QED
  BY <1>1, <1>2, <1>3, <1>4, <1>5, <1>6, <1>7, <1>8, <1>9, <1>10

(* The user, the page and the window.                                      *)
LEMMA OutsideInv ==
  ASSUME IInv, PressStop \/ PressRun \/ PageTurns \/ Window
  PROVE  IInv'
<1> USE WorkersAssumption DEF IInv
<1>1. CASE PressStop \/ PressRun
  <2>1. Flags' /\ ChannelTyped'
    BY <1>1 DEF PressStop, PressRun, Flags, ChannelTyped
  <2>2. Facts'
    BY <1>1 DEF PressStop, PressRun, run, Go, locks, Flags,
       Facts, RunsTyped, SharedTyped, TurnsLeft, Planned,
       LocksHeld, LateOnce, Places, Holding
  <2> QED
    BY <2>1, <2>2
<1>2. CASE PageTurns
  <2>1. Flags' /\ ChannelTyped'
    BY <1>2 DEF PageTurns, Flags, ChannelTyped
  <2>2. Facts'
    BY <1>2 DEF PageTurns, run, Pages, Go, locks, Flags,
       Facts, RunsTyped, SharedTyped, TurnsLeft, Planned,
       LocksHeld, LateOnce, Places, Holding
  <2> QED
    BY <2>1, <2>2
<1>3. CASE Window
  <2> DEFINE c == Head(commands)
  <2>1. c \in Command /\ commands' \in Seq(Command) /\ Len(commands') <= CommandCap
    BY <1>3 DEF Window, ChannelTyped
  <2>2. Flags' /\ ChannelTyped'
    BY <1>3, <2>1 DEF Window, Flags, ChannelTyped
  <2>3. c.from \in Workers
    BY <2>1 DEF Command
  <2> HIDE DEF c
  <2>4. ASSUME at[c.from] = "observing", Go(c.from, "thinking"), UNCHANGED <<turn, plan>>,
               seen' = [seen EXCEPT ![c.from] = page'], page' \in Pages
        PROVE  Facts'
    BY <1>3, <2>3, <2>4 DEF Window, Go, locks, Flags,
       Facts, RunsTyped, SharedTyped, TurnsLeft, Planned,
       LocksHeld, LateOnce, Places, Holding
  <2>5. ASSUME at[c.from] = "reading", NextTurn(c.from), page' = page
        PROVE  Facts'
    BY <1>3, <2>3, <2>5 DEF Window, NextTurn, Go, locks, Flags,
       Facts, RunsTyped, SharedTyped, TurnsLeft, Planned,
       LocksHeld, LateOnce, Places, Holding, Pages, Plans
  <2>6. ASSUME UNCHANGED <<at, turn, seen, plan>>, page' \in Pages
        PROVE  Facts'
    BY <1>3, <2>6 DEF Window, locks, Flags,
       Facts, RunsTyped, SharedTyped, TurnsLeft, Planned,
       LocksHeld, LateOnce, Places, Holding
  <2>7. Facts'
    BY <1>3, <2>4, <2>5, <2>6 DEF Window, c, run, Facts, SharedTyped, Pages
  <2> QED
    BY <2>2, <2>7
<1> QED
  BY <1>1, <1>2, <1>3

LEMMA StepInv == IInv /\ [WorkersNext]_vars => IInv'
<1> SUFFICES ASSUME IInv, [WorkersNext]_vars PROVE IInv'
  OBVIOUS
<1>1. CASE UNCHANGED vars
  BY <1>1 DEF vars, IInv, Flags, ChannelTyped, Facts, RunsTyped, SharedTyped, TurnsLeft,
       Planned, LocksHeld, LateOnce
<1> QED
  BY <1>1, ChooseInv, ActInv, OutsideInv DEF WorkersNext, LoopStep

LEMMA Invariant == Spec => []IInv
  BY InitInv, StepInv, PTL DEF Spec

-----------------------------------------------------------------------------

(* The variables keep their types, and the channel its bound, however many *)
(* runs send commands (loop_runtime.rs, app.rs).                           *)
THEOREM WorkersTyped == Spec => []WorkersTypeOK
<1>1. IInv => WorkersTypeOK
  BY TypeParts DEF IInv, Facts
<1> QED
  BY <1>1, Invariant, PTL

(* The approval lock is free for whoever wants it: with any number of      *)
(* workers the two locks of a swarm cannot deadlock (loop_runtime.rs       *)
(* 590-606).                                                               *)
THEOREM WorkersNoLockWait == Spec => []HilNeverContended
<1>1. IInv => HilNeverContended
  BY DEF IInv, Facts, SharedTyped, LocksHeld, HilNeverContended, Holding
<1> QED
  BY <1>1, Invariant, PTL

(* After a Stop that no Run undid, every run asks for page changes in one  *)
(* turn at most, with any number of runs that wait for each other          *)
(* (loop_runtime.rs 378-387, 556-566; agent_panel.rs 288, 794).            *)
THEOREM WorkersStopBounds == Spec => []StopBoundsActions
<1>1. IInv => StopBoundsActions
  BY DEF IInv, Facts, LateOnce, StopBoundsActions
<1> QED
  BY <1>1, Invariant, PTL
=============================================================================
