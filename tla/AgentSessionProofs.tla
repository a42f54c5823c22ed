------------------------- MODULE AgentSessionProofs -------------------------
(***************************************************************************)
(* Proofs about the agent workspace for any number of runs and             *)
(* checkpoints.                                                            *)
(***************************************************************************)
EXTENDS AgentSession, SequenceTheorems, TLAPS

(* The dialog never shows anything but the checkpoint the window holds;    *)
(* after a Stop the window may hold one that no dialog shows.              *)
DialogShowsPending == dialog \in {NoTicket, pending}

(* Only the user approves.                                                 *)
ApprovedByUser == \A t \in Tickets : decision[t] = "approved" => t \in consent

(* Nothing is decided before it is asked.                                  *)
NothingPrejudged == \A t \in Tickets : t > issued => decision[t] = "none"

IInv ==
  /\ TypeOK
  /\ DialogShowsPending
  /\ ApprovedByUser
  /\ NothingPrejudged
  /\ FilledWithConsent
  /\ NothingLost

-----------------------------------------------------------------------------

(* A sequence over a set is one over any larger set.                       *)
LEMMA SeqWiden ==
  ASSUME NEW S, NEW T, S \subseteq T, NEW s \in Seq(S)
  PROVE  s \in Seq(T)
  OBVIOUS

(* What appending a new element does to the elements of a queue.           *)
LEMMA AppendElements ==
  ASSUME NEW S, NEW s \in Seq(S), NEW e \in S, e \notin Elements(s), Distinct(s)
  PROVE  /\ Elements(Append(s, e)) = Elements(s) \cup {e}
         /\ Distinct(Append(s, e))
<1>1. /\ Append(s, e) \in Seq(S)
      /\ DOMAIN Append(s, e) = 1..(Len(s) + 1)
      /\ \A i \in 1..Len(s) : Append(s, e)[i] = s[i]
      /\ Append(s, e)[Len(s) + 1] = e
  BY AppendProperties
<1>2. DOMAIN s = 1..Len(s) /\ Len(s) \in Nat
  OBVIOUS
<1> HIDE DEF Elements, Distinct
<1>3. DOMAIN Append(s, e) = DOMAIN s \cup {Len(s) + 1}
  BY <1>1, <1>2
<1> QED
  BY <1>1, <1>2, <1>3 DEF Elements, Distinct

(* What taking the head of a queue does to its elements.                   *)
LEMMA TailElements ==
  ASSUME NEW S, NEW s \in Seq(S), s # <<>>, Distinct(s)
  PROVE  /\ Head(s) \in Elements(s)
         /\ Elements(Tail(s)) = Elements(s) \ {Head(s)}
         /\ Distinct(Tail(s))
<1>1. /\ Head(s) = s[1] /\ Tail(s) \in Seq(S)
      /\ DOMAIN Tail(s) = 1..(Len(s) - 1)
      /\ \A i \in 1..(Len(s) - 1) : Tail(s)[i] = s[i + 1]
  BY HeadTailProperties
<1>2. DOMAIN s = 1..Len(s) /\ Len(s) \in Nat \ {0}
  OBVIOUS
<1>3. 1 \in DOMAIN s
  BY <1>2
<1>4. \A i \in DOMAIN Tail(s) : i + 1 \in DOMAIN s /\ i + 1 # 1 /\ Tail(s)[i] = s[i + 1]
  BY <1>1, <1>2
<1>5. \A j \in DOMAIN s : j # 1 => j - 1 \in DOMAIN Tail(s) /\ Tail(s)[j - 1] = s[j]
  BY <1>1, <1>2
<1>6. Head(s) \in Elements(s)
  BY <1>1, <1>3 DEF Elements
<1>7. Elements(Tail(s)) \subseteq Elements(s) \ {Head(s)}
  BY <1>1, <1>3, <1>4 DEF Elements, Distinct
<1>8. Elements(s) \ {Head(s)} \subseteq Elements(Tail(s))
  <2> SUFFICES ASSUME NEW j \in DOMAIN s, s[j] # Head(s)
               PROVE  s[j] \in Elements(Tail(s))
    BY DEF Elements
  <2>1. j - 1 \in DOMAIN Tail(s) /\ Tail(s)[j - 1] = s[j]
    BY <1>1, <1>5
  <2> QED
    BY <2>1 DEF Elements
<1>9. Distinct(Tail(s))
  <2> SUFFICES ASSUME NEW k \in DOMAIN Tail(s), NEW l \in DOMAIN Tail(s), Tail(s)[k] = Tail(s)[l]
               PROVE  k = l
    BY DEF Distinct
  <2>1. k + 1 = l + 1
    BY <1>4 DEF Distinct
  <2> QED
    BY <1>1, <2>1
<1> QED
  BY <1>6, <1>7, <1>8, <1>9

-----------------------------------------------------------------------------

(* Every step keeps the window's own variables in range.                   *)
LEMMA StepWindow == WindowTyped /\ [Next]_vars => WindowTyped'
<1> SUFFICES ASSUME WindowTyped, [Next]_vars
             PROVE  WindowTyped'
  OBVIOUS
<1> USE DEF WindowTyped, AgentStates
<1>1. ASSUME NEW r \in Runs, RunStep(r) \/ Abandon(r)
      PROVE  WindowTyped'
  BY <1>1 DEF RunStep, PollStop, PollGo, Continue, FinishRun, Ask, Resume, Abandon, dialogVars
<1>2. CASE DrainEvents
  BY <1>2 DEF DrainEvents, dialogVars
<1>3. CASE TakeCheckpoint
  BY <1>3 DEF TakeCheckpoint
<1>4. CASE PressStop \/ (\E k \in Kinds : PressRun(k)) \/ PressRunFails \/ NoClick
  BY <1>4 DEF PressStop, PressRun, PressRunFails, NoClick, Panel, dialogVars
<1>5. CASE DialogTimeout \/ Confirm \/ Deny
  BY <1>5 DEF DialogTimeout, Confirm, Deny, DialogOpen
<1>6. CASE NoAnswer \/ Expire
  BY <1>6 DEF NoAnswer, Expire, dialogVars
<1>7. CASE UNCHANGED vars
  BY <1>7 DEF vars, dialogVars
<1> QED
  BY <1>1, <1>2, <1>3, <1>4, <1>5, <1>6, <1>7 DEF Next, Frame

(* Every step keeps the runs' variables in range.                          *)
LEMMA StepRuns == GateTyped /\ RunsTyped /\ [Next]_vars => RunsTyped'
<1> SUFFICES ASSUME GateTyped, RunsTyped, [Next]_vars
             PROVE  RunsTyped'
  OBVIOUS
<1> USE DEF RunsTyped, NoTicket
<1>0. issued \in Nat /\ started \in 0..MaxRuns /\ MaxRuns \in Nat
  BY SessionAssumption DEF GateTyped
<1>1. ASSUME NEW r \in Runs, PollStop(r) \/ PollGo(r) \/ Continue(r) \/ FinishRun(r)
      PROVE  RunsTyped'
  <2>1. /\ run[r] \in {"poll", "work"}
        /\ \E p \in {"poll", "work", "ended"} : run' = [run EXCEPT ![r] = p]
    BY <1>1 DEF PollStop, PollGo, Continue, FinishRun
  <2>2. UNCHANGED <<started, kind, ask, issued, told>>
    BY <1>1 DEF PollStop, PollGo, Continue, FinishRun, gateVars
  <2>3. run' \in [Runs -> RunPhases]
    BY <2>1 DEF RunPhases
  <2>4. \A q \in Runs : /\ run'[q] = "ask" <=> run[q] = "ask"
                        /\ run'[q] = "unused" <=> run[q] = "unused"
    BY <2>1
  <2> QED
    BY <2>2, <2>3, <2>4
<1>2. ASSUME NEW r \in Runs, Ask(r)
      PROVE  RunsTyped'
  <2>1. /\ run[r] = "work" /\ issued' = issued + 1
        /\ run' = [run EXCEPT ![r] = "ask"]
        /\ ask' = [ask EXCEPT ![r] = issued + 1]
        /\ UNCHANGED <<started, kind, told>>
    BY <1>2 DEF Ask
  <2>2. ask' \in [Runs -> 0..issued']
    BY <1>0, <2>1
  <2>3. run' \in [Runs -> RunPhases]
    BY <2>1 DEF RunPhases
  <2>4. \A q \in Runs : /\ run'[q] = "ask" <=> ask'[q] # NoTicket
                        /\ run'[q] = "unused" <=> q > started
    BY <1>0, <2>1
  <2> QED
    BY <1>0, <2>1, <2>2, <2>3, <2>4
<1>3. ASSUME NEW r \in Runs, Resume(r) \/ Abandon(r)
      PROVE  RunsTyped'
  <2>1. /\ run[r] = "ask"
        /\ run' = [run EXCEPT ![r] = "poll"]
        /\ ask' = [ask EXCEPT ![r] = NoTicket]
        /\ UNCHANGED <<started, kind, issued, told>>
    BY <1>3 DEF Resume, Abandon, gateVars
  <2>2. ask' \in [Runs -> 0..issued']
    BY <1>0, <2>1
  <2>3. run' \in [Runs -> RunPhases]
    BY <2>1 DEF RunPhases
  <2>4. \A q \in Runs : /\ run'[q] = "ask" <=> ask'[q] # NoTicket
                        /\ run'[q] = "unused" <=> q > started
    BY <1>0, <2>1
  <2> QED
    BY <2>1, <2>2, <2>3, <2>4
<1>4. ASSUME NEW k \in Kinds, PressRun(k)
      PROVE  RunsTyped'
  <2>1. /\ started < MaxRuns /\ started' = started + 1
        /\ run' = [run EXCEPT ![started + 1] = "poll"]
        /\ kind' = [kind EXCEPT ![started + 1] = k]
        /\ UNCHANGED <<ask, issued, told>>
    BY <1>4 DEF PressRun, gateVars
  <2>2. started + 1 \in Runs /\ started' \in 0..MaxRuns
    BY <1>0, <2>1 DEF Runs
  <2>3. run' \in [Runs -> RunPhases] /\ kind' \in [Runs -> Kinds]
    BY <2>1, <2>2 DEF RunPhases
  <2>4. \A q \in Runs : /\ run'[q] = "ask" <=> ask'[q] # NoTicket
                        /\ run'[q] = "unused" <=> q > started'
    BY <1>0, <2>1, <2>2 DEF Runs
  <2> QED
    BY <2>1, <2>2, <2>3, <2>4
<1>5. CASE PressStop
  <2>1. told' \subseteq Runs
    BY <1>5 DEF PressStop, Live
  <2> QED
    BY <1>5, <2>1 DEF PressStop, gateVars, runVars
<1>6. ASSUME UNCHANGED <<issued, runVars, told>>
      PROVE  RunsTyped'
  BY <1>6 DEF runVars
<1>7. CASE DrainEvents \/ TakeCheckpoint \/ PressRunFails \/ NoClick \/ NoAnswer \/ Expire
  BY <1>6, <1>7 DEF DrainEvents, TakeCheckpoint, PressRunFails, NoClick, NoAnswer, Expire, gateVars
<1>8. CASE DialogTimeout \/ Confirm \/ Deny
  BY <1>6, <1>8 DEF DialogTimeout, Confirm, Deny
<1>9. CASE UNCHANGED vars
  BY <1>6, <1>9 DEF vars, gateVars
<1> QED
  BY <1>1, <1>2, <1>3, <1>4, <1>5, <1>7, <1>8, <1>9 DEF Next, RunStep, Frame

(* Every step keeps the queue, the tickets and the answers in range.       *)
LEMMA StepGate == GateTyped /\ RunsTyped /\ [Next]_vars => GateTyped'
<1> SUFFICES ASSUME GateTyped, RunsTyped, [Next]_vars
             PROVE  GateTyped'
  OBVIOUS
<1> USE SessionAssumption DEF GateTyped, Tickets, NoTicket
<1>0. issued \in 0..MaxTickets /\ MaxTickets \in Nat
  OBVIOUS
<1>1. ASSUME NEW r \in Runs, Ask(r)
      PROVE  GateTyped'
  <2>1. /\ issued' = issued + 1 /\ issued' \in 0..MaxTickets
        /\ queue' = Append(queue, issued')
        /\ UNCHANGED <<pending, dialog, decision, audit, filled, consent>>
    BY <1>0, <1>1 DEF Ask, dialogVars
  <2>2. 1..issued \subseteq 1..issued' /\ 0..issued \subseteq 0..issued' /\ issued' \in 1..issued'
    BY <1>0, <2>1
  <2>3. queue' \in Seq(1..issued')
    BY <2>1, <2>2, SeqWiden, AppendProperties
  <2>4. pending' \in 0..issued' /\ dialog' \in 0..issued'
    BY <2>1, <2>2
  <2>5. audit' \subseteq 1..issued' /\ filled' \subseteq 1..issued' /\ consent' \subseteq 1..issued'
    BY <2>1, <2>2
  <2> QED
    BY <2>1, <2>3, <2>4, <2>5
<1>2. ASSUME NEW r \in Runs, Resume(r)
      PROVE  GateTyped'
  <2>1. ask[r] \in 1..issued
    BY <1>0, <1>2 DEF Resume, RunsTyped
  <2>2. audit' \subseteq 1..issued /\ filled' \subseteq 1..issued
    BY <1>2, <2>1 DEF Resume
  <2>3. UNCHANGED <<issued, queue, pending, dialog, decision, consent>>
    BY <1>2 DEF Resume, dialogVars
  <2> QED
    BY <2>2, <2>3
<1>3. CASE TakeCheckpoint
  <2>1. CASE queue # <<>>
    <3>1. Head(queue) \in 1..issued /\ Tail(queue) \in Seq(1..issued)
      BY <2>1, HeadTailProperties
    <3>2. queue' \in {queue, Tail(queue)} /\ pending' \in {pending, Head(queue)}
          /\ dialog' \in {dialog, Head(queue)}
      BY <1>3, <3>1 DEF TakeCheckpoint
    <3>3. UNCHANGED <<issued, decision, audit, consent, filled>>
      BY <1>3 DEF TakeCheckpoint, runVars
    <3>4. queue' \in Seq(1..issued)
      BY <3>1, <3>2
    <3>5. pending' \in 0..issued /\ dialog' \in 0..issued
      BY <1>0, <3>1, <3>2
    <3> QED
      BY <3>3, <3>4, <3>5
  <2>2. CASE queue = <<>>
    BY <1>3, <2>2 DEF TakeCheckpoint, runVars
  <2> QED
    BY <2>1, <2>2
<1>4. CASE DialogTimeout \/ Confirm \/ Deny
  <2>1. decision' \in [Tickets -> {"none", "approved", "denied"}]
    BY <1>4 DEF DialogTimeout, Confirm, Deny, Respond
  <2>2. pending' = 0 /\ dialog' = 0 /\ UNCHANGED <<issued, queue, audit, filled>>
    BY <1>4 DEF DialogTimeout, Confirm, Deny, Respond, runVars
  <2>3. consent' \subseteq 1..issued
    <3>1. dialog # 0 /\ consent' \in {consent, consent \cup {dialog}}
      BY <1>4 DEF DialogTimeout, Confirm, Deny, DialogOpen
    <3> QED
      BY <1>0, <3>1
  <2> QED
    BY <1>0, <2>1, <2>2, <2>3
<1>5. CASE PressStop
  BY <1>0, <1>5 DEF PressStop, gateVars, runVars
<1>6. ASSUME UNCHANGED <<gateVars, pending, dialog, consent, filled>>
      PROVE  GateTyped'
  BY <1>6 DEF gateVars
<1>7. ASSUME NEW r \in Runs, PollStop(r) \/ PollGo(r) \/ Continue(r) \/ FinishRun(r) \/ Abandon(r)
      PROVE  GateTyped'
  BY <1>6, <1>7 DEF PollStop, PollGo, Continue, FinishRun, Abandon, dialogVars
<1>8. CASE DrainEvents \/ (\E k \in Kinds : PressRun(k)) \/ PressRunFails \/ NoClick \/ NoAnswer
             \/ Expire \/ UNCHANGED vars
  BY <1>6, <1>8 DEF DrainEvents, PressRun, PressRunFails, NoClick, NoAnswer, Expire,
                    dialogVars, runVars, vars
<1> QED
  BY <1>1, <1>2, <1>3, <1>4, <1>5, <1>7, <1>8 DEF Next, RunStep, Frame

(* The initial state is in range.                                          *)
LEMMA InitTyped == Init => TypeOK
<1> SUFFICES ASSUME Init PROVE TypeOK
  OBVIOUS
<1> USE SessionAssumption DEF Init
<1>1. WindowTyped
  BY DEF WindowTyped, AgentStates
<1>2. GateTyped
  BY DEF GateTyped, NoTicket
<1>3. RunsTyped
  BY DEF RunsTyped, RunPhases, Kinds, Runs, NoTicket
<1> QED
  BY <1>1, <1>2, <1>3 DEF TypeOK

(* Every step keeps all variables in range.                                *)
LEMMA StepTyped == TypeOK /\ [Next]_vars => TypeOK'
  BY StepWindow, StepRuns, StepGate DEF TypeOK

(* Every variable keeps to its range (the first invariant of the runs).    *)
THEOREM SessionTyped == Spec => []TypeOK
  BY InitTyped, StepTyped, PTL DEF Spec

-----------------------------------------------------------------------------

ConsentInv == DialogShowsPending /\ ApprovedByUser /\ NothingPrejudged /\ FilledWithConsent

(* Consent: a step fills a field only for a checkpoint answered with       *)
(* "approved", and only Confirm gives that answer, to the checkpoint that  *)
(* the window holds and the dialog shows.                                  *)
LEMMA StepConsent == TypeOK /\ ConsentInv /\ [Next]_vars => ConsentInv'
<1> SUFFICES ASSUME TypeOK, ConsentInv, [Next]_vars
             PROVE  ConsentInv'
  OBVIOUS
<1> USE DEF ConsentInv, DialogShowsPending, ApprovedByUser, NothingPrejudged, FilledWithConsent, NoTicket
<1>0. /\ issued \in Nat /\ MaxTickets \in Nat /\ Tickets = 1..MaxTickets
      /\ decision \in [Tickets -> {"none", "approved", "denied"}]
      /\ pending \in 0..issued /\ issued <= MaxTickets
  BY SessionAssumption DEF TypeOK, GateTyped, Tickets
<1>1. ASSUME NEW r \in Runs, Ask(r)
      PROVE  ConsentInv'
  <2>1. issued' = issued + 1 /\ UNCHANGED <<pending, dialog, decision, audit, filled, consent>>
    BY <1>1 DEF Ask, dialogVars
  <2>2. \A t \in Tickets : t > issued' => t > issued
    BY <1>0, <2>1
  <2> QED
    BY <2>1, <2>2
<1>2. ASSUME NEW r \in Runs, Resume(r)
      PROVE  ConsentInv'
  <2>1. ask[r] \in 1..issued /\ ask[r] \in Tickets
    BY <1>0, <1>2 DEF Resume, TypeOK, RunsTyped
  <2>2. /\ audit' = audit \cup {ask[r]}
        /\ filled' = IF decision[ask[r]] = "approved" THEN filled \cup {ask[r]} ELSE filled
        /\ UNCHANGED <<issued, pending, dialog, decision, consent>>
    BY <1>2 DEF Resume, dialogVars
  <2>3. decision[ask[r]] = "approved" => ask[r] \in consent
    BY <2>1
  <2>4. filled' \subseteq consent' \cap audit'
    BY <2>2, <2>3
  <2> QED
    BY <2>2, <2>4
<1>3. CASE TakeCheckpoint
  <2>1. dialog' \in {NoTicket, pending'}
    BY <1>3 DEF TakeCheckpoint
  <2>2. UNCHANGED <<issued, decision, audit, consent, filled>>
    BY <1>3 DEF TakeCheckpoint, runVars
  <2> QED
    BY <2>1, <2>2
<1>4. CASE DialogTimeout \/ Confirm \/ Deny
  <2>1. dialog = pending /\ pending \in 1..issued /\ pending \in Tickets
    BY <1>0, <1>4 DEF DialogTimeout, Confirm, Deny, DialogOpen
  <2>2. PICK d \in {"approved", "denied"} :
           /\ decision' = [decision EXCEPT ![pending] = d]
           /\ d = "approved" => pending \in consent'
    BY <1>4, <2>1 DEF DialogTimeout, Confirm, Deny, Respond
  <2>3. /\ pending' = 0 /\ dialog' = 0 /\ UNCHANGED <<issued, audit, filled>>
        /\ consent \subseteq consent'
    BY <1>4 DEF DialogTimeout, Confirm, Deny, Respond, runVars
  <2>4. \A t \in Tickets : t > issued => t # pending
    BY <1>0, <2>1
  <2>5. \A t \in Tickets : decision'[t] = IF t = pending THEN d ELSE decision[t]
    BY <1>0, <2>1, <2>2
  <2> QED
    BY <2>2, <2>3, <2>4, <2>5
<1>5. CASE PressStop
  BY <1>5 DEF PressStop, gateVars, runVars
<1>6. ASSUME UNCHANGED <<gateVars, pending, dialog, consent, filled>>
      PROVE  ConsentInv'
  BY <1>6 DEF gateVars
<1>7. ASSUME NEW r \in Runs, PollStop(r) \/ PollGo(r) \/ Continue(r) \/ FinishRun(r) \/ Abandon(r)
      PROVE  ConsentInv'
  BY <1>6, <1>7 DEF PollStop, PollGo, Continue, FinishRun, Abandon, dialogVars
<1>8. CASE DrainEvents \/ (\E k \in Kinds : PressRun(k)) \/ PressRunFails \/ NoClick \/ NoAnswer
             \/ Expire \/ UNCHANGED vars
  BY <1>6, <1>8 DEF DrainEvents, PressRun, PressRunFails, NoClick, NoAnswer, Expire,
                    dialogVars, runVars, vars
<1> QED
  BY <1>1, <1>2, <1>3, <1>4, <1>5, <1>7, <1>8 DEF Next, RunStep, Frame

(* No step loses or doubles a checkpoint.                                  *)
LEMMA StepNothingLost ==
  TypeOK /\ ConsentInv /\ NothingLost /\ [Next]_vars => NothingLost'
<1> SUFFICES ASSUME TypeOK, ConsentInv, NothingLost, [Next]_vars
             PROVE  NothingLost'
  OBVIOUS
<1>0. /\ issued \in Nat /\ MaxTickets \in Nat /\ Tickets = 1..MaxTickets
      /\ decision \in [Tickets -> {"none", "approved", "denied"}]
      /\ pending \in 0..issued /\ issued <= MaxTickets /\ queue \in Seq(1..issued)
  BY SessionAssumption DEF TypeOK, GateTyped, Tickets
<1>e. Elements(queue) \subseteq 1..issued
  BY <1>0 DEF Elements
<1>n. /\ \A t \in 1..issued : t \in QueuedOrHeld <=> decision[t] = "none"
      /\ Distinct(queue)
      /\ pending \notin Elements(queue)
  BY DEF NothingLost
<1>1. ASSUME NEW r \in Runs, Ask(r)
      PROVE  NothingLost'
  <2>1. /\ issued' = issued + 1 /\ queue' = Append(queue, issued') /\ issued' \in Tickets
        /\ UNCHANGED <<pending, decision>>
    BY <1>0, <1>1 DEF Ask, dialogVars
  <2>2. queue \in Seq(1..issued') /\ issued' \in 1..issued' /\ issued' \notin Elements(queue)
    <3>1. 1..issued \subseteq 1..issued'
      BY <1>0, <2>1
    <3>2. queue \in Seq(1..issued')
      BY <1>0, <3>1, SeqWiden
    <3> QED
      BY <1>0, <1>e, <2>1, <3>2
  <2>3. Elements(queue') = Elements(queue) \cup {issued'} /\ Distinct(queue')
    BY <1>n, <2>1, <2>2, AppendElements
  <2>4. decision[issued'] = "none"
    BY <1>0, <2>1 DEF ConsentInv, NothingPrejudged
  <2>5. \A t \in 1..issued' : t \in 1..issued \/ t = issued'
    BY <1>0, <2>1
  <2>6. pending # issued' /\ pending' \notin Elements(queue')
    BY <1>0, <1>n, <2>1, <2>3
  <2>7. QueuedOrHeld' = QueuedOrHeld \cup {issued'}
    BY <2>1, <2>3 DEF QueuedOrHeld
  <2>8. \A t \in 1..issued : t # issued'
    BY <1>0, <2>1
  <2>9. \A t \in 1..issued' : t \in QueuedOrHeld' <=> decision'[t] = "none"
    BY <1>n, <2>1, <2>4, <2>5, <2>7, <2>8
  <2> QED
    BY <2>3, <2>6, <2>9 DEF NothingLost
<1>2. CASE TakeCheckpoint
  <2>1. UNCHANGED <<issued, decision>>
    BY <1>2 DEF TakeCheckpoint
  <2>2. CASE pending = NoTicket /\ dialog = NoTicket /\ queue # <<>>
    <3>1. pending' = Head(queue) /\ queue' = Tail(queue)
      BY <1>2, <2>2 DEF TakeCheckpoint
    <3>2. /\ Head(queue) \in Elements(queue) /\ Distinct(queue')
          /\ Elements(queue') = Elements(queue) \ {Head(queue)}
      BY <1>0, <1>n, <2>2, <3>1, TailElements
    <3>3. pending' # NoTicket /\ QueuedOrHeld' = QueuedOrHeld
      BY <1>e, <2>2, <3>1, <3>2 DEF QueuedOrHeld, NoTicket
    <3> QED
      BY <1>n, <2>1, <3>1, <3>2, <3>3 DEF NothingLost
  <2>3. CASE ~(pending = NoTicket /\ dialog = NoTicket /\ queue # <<>>)
    <3>1. UNCHANGED <<issued, decision, pending, queue>>
      BY <1>2, <2>1, <2>3 DEF TakeCheckpoint
    <3> QED
      BY <1>n, <3>1 DEF NothingLost, QueuedOrHeld, Elements, Distinct
  <2> QED
    BY <2>2, <2>3
<1>3. CASE DialogTimeout \/ Confirm \/ Deny
  <2>1. dialog = pending /\ pending \in 1..issued /\ pending \in Tickets
    BY <1>0, <1>3 DEF DialogTimeout, Confirm, Deny, DialogOpen, ConsentInv, DialogShowsPending, NoTicket
  <2>2. PICK d \in {"approved", "denied"} : decision' = [decision EXCEPT ![pending] = d]
    BY <1>3, <2>1 DEF DialogTimeout, Confirm, Deny, Respond, NoTicket
  <2>3. pending' = 0 /\ UNCHANGED <<issued, queue>>
    BY <1>3 DEF DialogTimeout, Confirm, Deny, Respond, NoTicket
  <2>4. /\ QueuedOrHeld' = QueuedOrHeld \ {pending}
        /\ Distinct(queue') /\ pending' \notin Elements(queue')
    <3>1. Elements(queue') = Elements(queue) /\ (Distinct(queue') <=> Distinct(queue))
      BY <2>3 DEF Elements, Distinct
    <3>2. 0 \notin Elements(queue)
      BY <1>e
    <3> QED
      BY <1>n, <2>1, <2>3, <3>1, <3>2 DEF QueuedOrHeld, NoTicket
  <2>5. \A t \in 1..issued : t \in Tickets
    BY <1>0
  <2>6. \A t \in 1..issued : decision'[t] = IF t = pending THEN d ELSE decision[t]
    BY <1>0, <2>1, <2>2, <2>5
  <2>7. \A t \in 1..issued : t \in QueuedOrHeld' <=> decision'[t] = "none"
    BY <1>n, <2>4, <2>6
  <2> QED
    BY <2>3, <2>4, <2>7 DEF NothingLost
<1>4. ASSUME UNCHANGED <<issued, queue, decision, pending>>
      PROVE  NothingLost'
  BY <1>n, <1>4 DEF NothingLost, QueuedOrHeld, Elements, Distinct
<1>5. ASSUME NEW r \in Runs,
             PollStop(r) \/ PollGo(r) \/ Continue(r) \/ FinishRun(r) \/ Abandon(r) \/ Resume(r)
      PROVE  NothingLost'
  BY <1>4, <1>5 DEF PollStop, PollGo, Continue, FinishRun, Abandon, Resume, gateVars, dialogVars
<1>6. CASE DrainEvents \/ PressStop \/ (\E k \in Kinds : PressRun(k)) \/ PressRunFails \/ NoClick
             \/ NoAnswer \/ Expire \/ UNCHANGED vars
  BY <1>4, <1>6 DEF DrainEvents, PressStop, PressRun, PressRunFails, NoClick, NoAnswer, Expire,
                    gateVars, dialogVars, vars
<1> QED
  BY <1>1, <1>2, <1>3, <1>5, <1>6 DEF Next, RunStep, Frame

(* The inductive invariant holds of every behaviour.                       *)
LEMMA SessionInductive == Spec => []IInv
<1>1. Init => IInv
  <2> SUFFICES ASSUME Init PROVE IInv
    OBVIOUS
  <2>1. TypeOK
    BY InitTyped
  <2>2. ConsentInv
    BY DEF Init, ConsentInv, DialogShowsPending, ApprovedByUser, NothingPrejudged, FilledWithConsent
  <2>3. Elements(<<>>) = {} /\ Distinct(<<>>)
    BY DEF Elements, Distinct
  <2>4. issued = 0 /\ queue = <<>> /\ pending = 0
    BY DEF Init, NoTicket
  <2>5. NothingLost
    BY <2>3, <2>4 DEF NothingLost
  <2> QED
    BY <2>1, <2>2, <2>5 DEF IInv, ConsentInv
<1>2. IInv /\ [Next]_vars => IInv'
  BY StepTyped, StepConsent, StepNothingLost DEF IInv, ConsentInv
<1> QED
  BY <1>1, <1>2, PTL DEF Spec

(* For any number of runs and checkpoints: a sensitive field is filled     *)
(* only for a checkpoint the user confirmed while the dialog showed it,    *)
(* and the fill is in the audit log.                                       *)
THEOREM SessionFilledWithConsent == Spec => []FilledWithConsent
<1>1. IInv => FilledWithConsent
  BY DEF IInv
<1> QED
  BY <1>1, SessionInductive, PTL

(* For any number of runs and checkpoints: every checkpoint is in one      *)
(* place only, the queue, the window's hand or the answered ones.          *)
THEOREM SessionNothingLost == Spec => []NothingLost
<1>1. IInv => NothingLost
  BY DEF IInv
<1> QED
  BY <1>1, SessionInductive, PTL

=============================================================================
