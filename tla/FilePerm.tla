------------------------------ MODULE FilePerm ------------------------------
(***************************************************************************)
(* The handshake by which an agent asks to read a local file: the slot     *)
(* Arc<Mutex<Option<(path, oneshot::Sender)>>> shared by every run of the  *)
(* window (kitsune-agent/src/loop_runtime.rs, ReadFile) and the modal the  *)
(* window shows for it (kitsune-ui/src/app.rs).  More than one run can be  *)
(* live: Stop makes the window idle before the stopped run has seen it.    *)
(*                                                                         *)
(* Requests are numbered; a request is an agent, a path and the sender of  *)
(* its oneshot channel, which lives in the slot or nowhere.                *)
(***************************************************************************)
EXTENDS Naturals, FiniteSets

CONSTANTS
  Agents,      \* runs that may be live together
  NoAgent,     \* none of them
  Paths,       \* files they may ask for
  MaxRequests  \* bound: requests made

ASSUME FilePermAssumption == MaxRequests \in Nat /\ NoAgent \notin Agents /\ Paths # {}

VARIABLES
  made,      \* requests made so far
  owner,     \* who made each request
  path,      \* the file of each request
  state,     \* what its maker knows of it
  answer,    \* what was sent on its oneshot channel
  lock,      \* agent holding the slot's mutex, or NoAgent
  slot,      \* the request in the slot, or NoRequest
  modal,     \* file_perm_pending: the request whose path is shown, or NoRequest
  granted,   \* history: how often the user clicked Allow
  reads      \* requests whose file was read

windowVars == <<modal, granted>>
vars == <<made, owner, path, state, answer, lock, slot, windowVars, reads>>

Requests == 1..MaxRequests
NoRequest == 0

(* "wait": in the timeout around the receiver; "over": resolved.           *)
States == {"none", "put", "wait", "over"}

Idle(a) == \A q \in 1..made : owner[q] = a => state[q] = "over"

Init ==
  /\ made = 0
  /\ owner = [q \in Requests |-> NoAgent]
  /\ path = [q \in Requests |-> CHOOSE p \in Paths : TRUE]
  /\ state = [q \in Requests |-> "none"]
  /\ answer = [q \in Requests |-> "none"]
  /\ lock = NoAgent
  /\ slot = NoRequest /\ modal = NoRequest
  /\ granted = 0
  /\ reads = {}

(* ------------------------------- the agent ---------------------------- *)

(* A ReadFile action of an agent that waits for nothing: slot.lock().      *)
LockSlot(a, p) ==
  /\ Idle(a) /\ lock = NoAgent /\ made < MaxRequests
  /\ made' = made + 1
  /\ owner' = [owner EXCEPT ![made + 1] = a]
  /\ path' = [path EXCEPT ![made + 1] = p]
  /\ state' = [state EXCEPT ![made + 1] = "put"]
  /\ lock' = a
  /\ UNCHANGED <<answer, slot, windowVars, reads>>

(* Faulty: the mutex guard lives on while the agent waits.                 *)
PutHoldsLock(q) ==
  /\ state[q] = "put" /\ lock = owner[q]
  /\ slot' = q
  /\ answer' = IF slot = NoRequest THEN answer
               ELSE [answer EXCEPT ![slot] = "dropped"]
  /\ state' = [state EXCEPT ![q] = "wait"]
  /\ UNCHANGED <<made, owner, path, lock, windowVars, reads>>

(* The slot is overwritten, which drops the sender of the request that was *)
(* there, and the mutex released.                                          *)
Put(q) ==
  /\ state[q] = "put" /\ lock = owner[q]
  /\ slot' = q
  /\ answer' = IF slot = NoRequest THEN answer
               ELSE [answer EXCEPT ![slot] = "dropped"]
  /\ state' = [state EXCEPT ![q] = "wait"]
  /\ lock' = NoAgent
  /\ UNCHANGED <<made, owner, path, windowVars, reads>>

(* Faulty: no answer counts as yes.                                        *)
ReceiveUnlessDenied(q) ==
  /\ state[q] = "wait" /\ answer[q] # "none"
  /\ state' = [state EXCEPT ![q] = "over"]
  /\ reads' = IF answer[q] # "deny" THEN reads \cup {q} ELSE reads
  /\ UNCHANGED <<made, owner, path, answer, lock, slot, windowVars>>

(* The receiver wakes: the file is read if and only if the answer is yes.  *)
Receive(q) ==
  /\ state[q] = "wait" /\ answer[q] # "none"
  /\ state' = [state EXCEPT ![q] = "over"]
  /\ reads' = IF answer[q] = "allow" THEN reads \cup {q} ELSE reads
  /\ UNCHANGED <<made, owner, path, answer, lock, slot, windowVars>>

(* Faulty: the agent waits on.                                             *)
TimeoutNever(q) == FALSE /\ UNCHANGED vars

(* 60 seconds without an answer: denied.  The slot keeps the request.      *)
Timeout(q) ==
  /\ state[q] = "wait" /\ answer[q] = "none"
  /\ state' = [state EXCEPT ![q] = "over"]
  /\ UNCHANGED <<made, owner, path, answer, lock, slot, windowVars, reads>>

(* ------------------------------ the window ---------------------------- *)

(* process_file_perm_requests: with no modal, if the mutex is free.        *)
ShowModal ==
  /\ modal = NoRequest
  /\ lock = NoAgent /\ slot # NoRequest
  /\ modal' = slot
  /\ UNCHANGED <<made, owner, path, state, answer, lock, slot, granted, reads>>

(* Faulty: the sender stays in the slot and can be used again.             *)
ClickKeepsSlot(d) ==
  /\ modal # NoRequest
  /\ modal' = NoRequest
  /\ granted' = IF d = "allow" THEN granted + 1 ELSE granted
  /\ IF lock = NoAgent /\ slot # NoRequest
     THEN answer' = [answer EXCEPT ![slot] = d]
     ELSE UNCHANGED answer
  /\ UNCHANGED <<made, owner, path, state, lock, slot, reads>>

(* Allow or Deny: the modal closes; if the mutex is free the request that  *)
(* is now in the slot is taken out and answered.                           *)
Click(d) ==
  /\ modal # NoRequest
  /\ modal' = NoRequest
  /\ granted' = IF d = "allow" THEN granted + 1 ELSE granted
  /\ IF lock = NoAgent /\ slot # NoRequest
     THEN /\ answer' = [answer EXCEPT ![slot] = d]
          /\ slot' = NoRequest
     ELSE UNCHANGED <<answer, slot>>
  /\ UNCHANGED <<made, owner, path, state, lock, reads>>

(* ---------------------------- specification --------------------------- *)

AgentStep(q) == Put(q) \/ Receive(q) \/ Timeout(q)

Window == ShowModal \/ \E d \in {"allow", "deny"} : Click(d)

(* Every agent has had its answers and makes no further request.           *)
Quiet == (\A a \in Agents : Idle(a)) /\ UNCHANGED vars

Next ==
  \/ \E a \in Agents, p \in Paths : LockSlot(a, p)
  \/ \E q \in Requests : AgentStep(q)
  \/ Window
  \/ Quiet

Spec == Init /\ [][Next]_vars

(* Agents are scheduled futures with a timeout around the wait; frames     *)
(* come every 16 ms, but nothing makes the user click.                     *)
Fairness ==
  /\ \A q \in Requests : WF_vars(AgentStep(q))
  /\ WF_vars(ShowModal)

FairSpec == Spec /\ Fairness

(* ------------------------------ properties ---------------------------- *)

(* Type invariant: slot and modal hold requests that were made, and the    *)
(* mutex is held exactly by the agent that is writing the slot.            *)
TypeOK ==
  /\ made \in 0..MaxRequests
  /\ owner \in [Requests -> Agents \cup {NoAgent}]
  /\ path \in [Requests -> Paths]
  /\ state \in [Requests -> States]
  /\ answer \in [Requests -> {"none", "allow", "deny", "dropped"}]
  /\ \A q \in Requests : (state[q] = "none") <=> (q > made)
  /\ slot \in 0..made /\ modal \in 0..made
  /\ granted \in Nat
  /\ reads \subseteq 1..made
  /\ lock # NoAgent => \E q \in 1..made : state[q] = "put" /\ owner[q] = lock

(* A request that still waits is never forgotten: it is in the slot, or    *)
(* its receiver has something to receive (a new request replaces an old    *)
(* one, a click takes the slot; loop_runtime.rs 700-706, app.rs 1152-1160).*)
WaitingIsReachable ==
  \A q \in 1..made : state[q] = "wait" => (q = slot) # (answer[q] # "none")

(* If the request the modal shows still waits for an answer, a click goes  *)
(* to it and to no other.                                                  *)
ClickReachesShown ==
  modal # NoRequest /\ state[modal] = "wait" /\ answer[modal] = "none" => slot = modal

(* Every request that waits can still be answered, and the one on the      *)
(* screen by the click that is meant for it.                               *)
WaitingIsAnswerable == WaitingIsReachable /\ ClickReachesShown

Allowed == {q \in 1..made : answer[q] = "allow"}

(* A file is read only on an Allow, one for each click of the user: no     *)
(* answer is used twice, and none counts after a refusal, a timeout or a   *)
(* replacement (loop_runtime.rs 707-717).                                  *)
OneReadPerAllow == reads \subseteq Allowed /\ Cardinality(Allowed) <= granted

(* Every request is resolved, whatever the user does.                      *)
RequestsResolve == \A q \in Requests : (q <= made) ~> (state[q] = "over")

(* ---------------------- what comments say of the code ------------------ *)

(* loop_runtime.rs 113-115: "the UI reads the path to show a modal, then   *)
(* sends true/false on the channel": what is allowed is what was shown.    *)
AllowedAsShown ==
  [][\A q \in Requests : answer[q] = "none" /\ answer'[q] = "allow"
       => path[modal] = path[q]]_vars

=============================================================================
