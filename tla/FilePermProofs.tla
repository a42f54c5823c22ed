--------------------------- MODULE FilePermProofs ---------------------------
(***************************************************************************)
(* Proofs about the file permission handshake for any number of runs, of   *)
(* files and of requests.                                                  *)
(***************************************************************************)
EXTENDS FilePerm, FiniteSetTheorems, TLAPS

(* The sender in the slot was not used.                                    *)
SlotUnused == slot # NoRequest => answer[slot] = "none" /\ state[slot] \in {"wait", "over"}

(* Nothing is answered before it is in the slot.                           *)
AnsweredWasAsked ==
  \A q \in Requests : answer[q] # "none" => state[q] \in {"wait", "over"}

IInv ==
  /\ TypeOK
  /\ SlotUnused
  /\ AnsweredWasAsked
  /\ WaitingIsReachable
  /\ OneReadPerAllow

-----------------------------------------------------------------------------

LEMMA AllowedFinite ==
  ASSUME made \in Nat
  PROVE  IsFiniteSet(Allowed) /\ Cardinality(Allowed) \in Nat
<1>1. IsFiniteSet(1..made)
  BY FS_Interval
<1>2. Allowed \subseteq 1..made
  BY DEF Allowed
<1> QED
  BY <1>1, <1>2, FS_Subset, FS_CardinalityType

LEMMA InitInv == Init => IInv
<1> SUFFICES ASSUME Init PROVE IInv
  OBVIOUS
<1> USE FilePermAssumption DEF Init, NoRequest, Requests
<1>1. (CHOOSE p \in Paths : TRUE) \in Paths
  OBVIOUS
<1>2. TypeOK
  BY <1>1 DEF TypeOK, States
<1>3. SlotUnused /\ AnsweredWasAsked /\ WaitingIsReachable
  BY DEF SlotUnused, AnsweredWasAsked, WaitingIsReachable
<1>4. Allowed = {}
  BY DEF Allowed
<1>5. OneReadPerAllow
  BY <1>4, FS_EmptySet DEF OneReadPerAllow
<1> QED
  BY <1>2, <1>3, <1>5 DEF IInv

(* A step that allows no further request and lets no answer be forgotten   *)
(* keeps the count.                                                        *)
LEMMA CountKept ==
  ASSUME OneReadPerAllow, Allowed' = Allowed, granted' = granted, reads' \subseteq Allowed
  PROVE  OneReadPerAllow'
  BY DEF OneReadPerAllow

(* The agent's half of the handshake.                                      *)
LEMMA LockSlotInv ==
  ASSUME IInv, NEW a \in Agents, NEW p \in Paths, LockSlot(a, p)
  PROVE  IInv'
<1> USE FilePermAssumption DEF IInv, LockSlot, windowVars, NoRequest, Requests
<1>1. TypeOK'
  BY DEF TypeOK, States
<1>2. SlotUnused' /\ AnsweredWasAsked' /\ WaitingIsReachable'
  BY DEF TypeOK, SlotUnused, AnsweredWasAsked, WaitingIsReachable
<1>3. Allowed' = Allowed
  BY DEF Allowed, TypeOK, AnsweredWasAsked
<1>4. OneReadPerAllow'
  BY <1>3, CountKept DEF OneReadPerAllow
<1> QED
  BY <1>1, <1>2, <1>4

LEMMA PutInv ==
  ASSUME IInv, NEW q \in Requests, Put(q)
  PROVE  IInv'
<1> USE FilePermAssumption DEF IInv, Put, windowVars, NoRequest, Requests
<1>1. q \in 1..made /\ answer[q] = "none" /\ slot # q
  BY DEF TypeOK, SlotUnused, AnsweredWasAsked
<1>2. TypeOK'
  BY <1>1 DEF TypeOK, States
<1>3. SlotUnused' /\ AnsweredWasAsked' /\ WaitingIsReachable'
  BY <1>1 DEF TypeOK, SlotUnused, AnsweredWasAsked, WaitingIsReachable
<1>4. Allowed' = Allowed
  BY DEF Allowed, TypeOK, SlotUnused
<1>5. OneReadPerAllow'
  BY <1>4, CountKept DEF OneReadPerAllow
<1> QED
  BY <1>2, <1>3, <1>5

LEMMA ResolveInv ==
  ASSUME IInv, NEW q \in Requests, Receive(q) \/ Timeout(q)
  PROVE  IInv'
<1> USE FilePermAssumption DEF IInv, NoRequest, Requests
<1>1. /\ state[q] = "wait" /\ q \in 1..made
      /\ state' = [state EXCEPT ![q] = "over"]
      /\ reads' \in {reads, IF answer[q] = "allow" THEN reads \cup {q} ELSE reads}
      /\ UNCHANGED <<made, owner, path, answer, lock, slot, modal, granted>>
  BY DEF TypeOK, Receive, Timeout, windowVars
<1>2. reads' \subseteq 1..made
  BY <1>1 DEF TypeOK
<1>3. /\ state' \in [Requests -> States]
      /\ \A r \in Requests : (state'[r] = "none") <=> (r > made')
  BY <1>1 DEF TypeOK, States
<1>4. lock' # NoAgent => \E r \in 1..made' : state'[r] = "put" /\ owner'[r] = lock'
  BY <1>1 DEF TypeOK, States
<1>5. TypeOK'
  BY <1>1, <1>2, <1>3, <1>4 DEF TypeOK
<1>6. SlotUnused' /\ AnsweredWasAsked' /\ WaitingIsReachable'
  BY <1>1 DEF TypeOK, SlotUnused, AnsweredWasAsked, WaitingIsReachable
<1>7. Allowed' = Allowed /\ reads' \subseteq Allowed
  BY <1>1 DEF Allowed, OneReadPerAllow
<1>8. OneReadPerAllow'
  BY <1>1, <1>7, CountKept
<1> QED
  BY <1>5, <1>6, <1>8

(* The window's half.                                                      *)
LEMMA ShowModalInv ==
  ASSUME IInv, ShowModal
  PROVE  IInv'
<1> USE DEF IInv, ShowModal, NoRequest
<1>1. TypeOK' /\ SlotUnused' /\ AnsweredWasAsked' /\ WaitingIsReachable'
  BY DEF TypeOK, SlotUnused, AnsweredWasAsked, WaitingIsReachable
<1>2. OneReadPerAllow'
  BY CountKept DEF Allowed, OneReadPerAllow
<1> QED
  BY <1>1, <1>2

LEMMA ClickInv ==
  ASSUME IInv, NEW d \in {"allow", "deny"}, Click(d)
  PROVE  IInv'
<1> USE FilePermAssumption DEF IInv, NoRequest, Requests
<1>1. TypeOK' /\ SlotUnused' /\ AnsweredWasAsked' /\ WaitingIsReachable'
  BY DEF Click, TypeOK, SlotUnused, AnsweredWasAsked, WaitingIsReachable
<1>2. /\ IsFiniteSet(Allowed) /\ Cardinality(Allowed) \in Nat
      /\ made \in Nat /\ granted \in Nat
  BY AllowedFinite DEF TypeOK
<1>3. CASE d = "allow" /\ lock = NoAgent /\ slot # NoRequest
  <2>1. Allowed' = Allowed \cup {slot} /\ granted' = granted + 1 /\ reads' = reads
    BY <1>3 DEF Click, Allowed, TypeOK
  <2>2. Cardinality(Allowed') <= Cardinality(Allowed) + 1
    BY <1>2, <2>1, FS_AddElement
  <2>3. Cardinality(Allowed') \in Nat
    BY <1>2, <2>1, FS_AddElement, FS_CardinalityType
  <2>4. OneReadPerAllow'
    BY <1>2, <2>1, <2>2, <2>3 DEF OneReadPerAllow
  <2> QED
    BY <1>1, <2>4
<1>4. CASE ~(d = "allow" /\ lock = NoAgent /\ slot # NoRequest)
  <2>1. Allowed' = Allowed /\ reads' = reads
    BY <1>4 DEF Click, Allowed, TypeOK, SlotUnused
  <2>2. granted' \in {granted, granted + 1}
    BY DEF Click
  <2>3. OneReadPerAllow'
    BY <1>2, <2>1, <2>2 DEF OneReadPerAllow
  <2> QED
    BY <1>1, <2>3
<1> QED
  BY <1>3, <1>4

LEMMA StepInv == IInv /\ [Next]_vars => IInv'
<1> SUFFICES ASSUME IInv, [Next]_vars PROVE IInv'
  OBVIOUS
<1>1. CASE UNCHANGED vars
  BY <1>1 DEF vars, windowVars, IInv, TypeOK, SlotUnused, AnsweredWasAsked,
       WaitingIsReachable, OneReadPerAllow, Allowed
<1> QED
  BY <1>1, LockSlotInv, PutInv, ResolveInv, ShowModalInv, ClickInv
  DEF Next, AgentStep, Window, Quiet

LEMMA Invariant == Spec => []IInv
  BY InitInv, StepInv, PTL DEF Spec

-----------------------------------------------------------------------------

(* Slot, modal and mutex name requests that were made and agents that hold *)
(* them (loop_runtime.rs 688-725, app.rs 867-876).                         *)
THEOREM FilePermTyped == Spec => []TypeOK
  BY Invariant, PTL DEF IInv

(* A request that waits is in the slot or answered, and a click goes to    *)
(* the request on the screen if that still waits, with any number of runs  *)
(* that replace each other's requests.                                     *)
THEOREM FilePermAnswerable == Spec => []WaitingIsAnswerable
<1>1. IInv => WaitingIsAnswerable
  BY DEF IInv, TypeOK, WaitingIsAnswerable, WaitingIsReachable, ClickReachesShown, NoRequest
<1> QED
  BY <1>1, Invariant, PTL

(* Files are read only after an Allow, one for each click.                 *)
THEOREM FilePermOneRead == Spec => []OneReadPerAllow
  BY Invariant, PTL DEF IInv
=============================================================================
