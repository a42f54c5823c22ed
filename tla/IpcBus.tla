------------------------------- MODULE IpcBus -------------------------------
(***************************************************************************)
(* The in-process bus of kitsune-ipc/src/bus.rs and the request table of   *)
(* channel.rs.  Processes register an inbox under their id, messages are   *)
(* routed by id, and answers find the requester by correlation id.         *)
(*                                                                         *)
(* route keeps a reference into the concurrent map while it waits for room *)
(* in the target's inbox; until it lets go, registering or unregistering   *)
(* that id blocks the calling thread.  Whoever unregisters either drops    *)
(* its receiver first or does not: DropFirst.                              *)
(***************************************************************************)
EXTENDS Naturals, Sequences

CONSTANTS
  Ids,         \* process ids; each registers, reads and leaves
  Requests,    \* correlation ids, each used for one request
  InboxCap,    \* capacity of an inbox (buffer_size)
  DropFirst    \* callers drop their receiver before unregister_process

BusAssumption == InboxCap \in Nat \ {0} /\ DropFirst \in BOOLEAN

VARIABLES
  life,       \* of a process: what its own thread is doing
  open,       \* its receiver exists
  inbox,      \* what it has not yet read
  leg,        \* where a request is: see Legs
  asker, target,  \* who sends it to whom
  pending,    \* requests in the table
  waiting,    \* requests whose oneshot receiver exists
  answers     \* answers a requester received, per request

process == <<life, open, inbox>>
mailbox == <<pending, waiting, answers>>
vars == <<process, leg, asker, target, mailbox>>

(* "asking", "answering": in route, holding the entry of who it goes to.   *)
Legs == {"new", "asking", "asked", "answering", "answered", "failed"}

Init ==
  /\ life = [p \in Ids |-> "off"]
  /\ open = [p \in Ids |-> FALSE]
  /\ inbox = [p \in Ids |-> <<>>]
  /\ leg = [q \in Requests |-> "new"]
  /\ asker = [q \in Requests |-> CHOOSE p \in Ids : TRUE]
  /\ target = asker
  /\ pending = {} /\ waiting = {}
  /\ answers = [q \in Requests |-> 0]

Registered(p) == life[p] \in {"reading", "leaving"}

(* Who the route in progress for a request goes to.                        *)
Goal(q) == IF leg[q] = "asking" THEN target[q] ELSE asker[q]

Held(p) == \E q \in Requests : leg[q] \in {"asking", "answering"} /\ Goal(q) = p

(* ------------------------------ processes ------------------------------ *)

Register(p) ==
  /\ life[p] = "off" /\ ~Held(p)
  /\ life' = [life EXCEPT ![p] = "reading"]
  /\ open' = [open EXCEPT ![p] = TRUE]
  /\ inbox' = [inbox EXCEPT ![p] = <<>>]
  /\ UNCHANGED <<leg, asker, target, mailbox>>

(* The thread turns to unregister_process and reads no more.               *)
Leave(p) ==
  /\ life[p] = "reading"
  /\ life' = [life EXCEPT ![p] = "leaving"]
  /\ open' = [open EXCEPT ![p] = ~DropFirst]
  /\ inbox' = [inbox EXCEPT ![p] = IF DropFirst THEN <<>> ELSE @]
  /\ UNCHANGED <<leg, asker, target, mailbox>>

(* The entry goes as soon as no route holds it.                            *)
Unregister(p) ==
  /\ life[p] = "leaving" /\ ~Held(p)
  /\ life' = [life EXCEPT ![p] = "off"]
  /\ open' = [open EXCEPT ![p] = FALSE]
  /\ inbox' = [inbox EXCEPT ![p] = <<>>]
  /\ UNCHANGED <<leg, asker, target, mailbox>>

(* ------------------------------- routing ------------------------------- *)

(* A route begins, or is refused because an end of it is unknown.          *)
BeginRoute(q, from, to, next) ==
  leg' = [leg EXCEPT ![q] = IF Registered(from) /\ Registered(to) THEN next ELSE "failed"]

(* The requester enters the request in the table and routes it.            *)
Ask(q, from, to) ==
  /\ leg[q] = "new" /\ from # to /\ life[from] # "leaving"
  /\ asker' = [asker EXCEPT ![q] = from]
  /\ target' = [target EXCEPT ![q] = to]
  /\ pending' = pending \cup {q}
  /\ waiting' = waiting \cup {q}
  /\ BeginRoute(q, from, to, "asking")
  /\ UNCHANGED <<process, answers>>

(* Faulty: the table is kept by process.                                   *)
ResolveProcess(q) ==
  /\ pending' = {r \in pending : asker[r] # asker[q]}
  /\ answers' = IF q \in pending \cap waiting THEN [answers EXCEPT ![q] = @ + 1] ELSE answers
  /\ waiting' = waiting \ {q}

(* resolve: the entry goes, and its requester is answered if it waits.     *)
Resolve(q) ==
  /\ pending' = pending \ {q}
  /\ answers' = IF q \in pending \cap waiting THEN [answers EXCEPT ![q] = @ + 1] ELSE answers
  /\ waiting' = waiting \ {q}

(* The next message: an answer is resolved, a request is answered by a     *)
(* task of its own.                                                        *)
Read(p) ==
  /\ life[p] = "reading" /\ inbox[p] # <<>>
  /\ inbox' = [inbox EXCEPT ![p] = Tail(@)]
  /\ LET q == Head(inbox[p]).id IN
     \/ /\ Head(inbox[p]).answer
        /\ Resolve(q)
        /\ UNCHANGED leg
     \/ /\ ~Head(inbox[p]).answer
        /\ BeginRoute(q, p, asker[q], "answering")
        /\ UNCHANGED mailbox
  /\ UNCHANGED <<life, open, asker, target>>

(* route ends: delivered when there is room, failed when the receiver is   *)
(* gone. It waits otherwise, and holds the entry.                          *)
EndRoute(q) ==
  /\ leg[q] \in {"asking", "answering"}
  /\ open[Goal(q)] => Len(inbox[Goal(q)]) < InboxCap
  /\ IF open[Goal(q)]
     THEN /\ inbox' = [inbox EXCEPT ![Goal(q)] =
                         Append(@, [id |-> q, answer |-> leg[q] = "answering"])]
          /\ leg' = [leg EXCEPT ![q] = IF @ = "asking" THEN "asked" ELSE "answered"]
     ELSE leg' = [leg EXCEPT ![q] = "failed"] /\ UNCHANGED inbox
  /\ UNCHANGED <<life, open, asker, target, mailbox>>

(* The requester stops waiting. Its entry stays in the table.              *)
GiveUp(q) ==
  /\ q \in waiting
  /\ waiting' = waiting \ {q}
  /\ UNCHANGED <<process, leg, asker, target, pending, answers>>

BusNext ==
  \/ \E p \in Ids : Register(p) \/ Leave(p) \/ Unregister(p) \/ Read(p)
  \/ \E q \in Requests : EndRoute(q) \/ GiveUp(q) \/ \E from, to \in Ids : Ask(q, from, to)

(* ------------------------------ properties ----------------------------- *)

(* The bus's variables keep their types and inboxes their capacity.        *)
BusTypeOK ==
  /\ life \in [Ids -> {"off", "reading", "leaving"}] /\ open \in [Ids -> BOOLEAN]
  /\ \A p \in Ids : Len(inbox[p]) <= InboxCap
  /\ leg \in [Requests -> Legs]
  /\ pending \subseteq Requests /\ waiting \subseteq Requests
  /\ answers \in [Requests -> 0..1]

(* A requester that still waits for an answer is in the table, so that an  *)
(* answer, however late, finds it; and it was answered at most once.       *)
WaitingIsPending == \A q \in waiting : q \in pending /\ answers[q] = 0

(* Every route ends: a reader that leaves does not leave senders waiting   *)
(* for room in its inbox, nor they it.                                     *)
RoutesEnd ==
  \A q \in Requests : leg[q] \in {"asking", "answering"}
                        ~> leg[q] \in {"asked", "answered", "failed"}
=============================================================================
