--------------------------- MODULE PlatformProofs ---------------------------
(***************************************************************************)
(* Proofs about the process platform, for any number of connections,       *)
(* children, requests and for channels of any capacity.                    *)
(***************************************************************************)
EXTENDS Platform, TLAPS

-----------------------------------------------------------------------------
(* The table of clients.                                                   *)

TableInv ==
  /\ stage \in [Conns -> S!Stages] /\ role \in [Conns -> S!Roles]
  /\ clients \in [S!Roles -> Conns \cup {NoConn}]
  /\ S!ListedIsServed

LEMMA ParsedIsRole ==
  ASSUME NEW name
  PROVE  S!ParseRole(name) \in S!Roles
  BY DEF S!ParseRole, S!Roles

LEMMA TableInit == Init => TableInv
  BY DEF Init, S!Init, TableInv, S!Stages, S!Roles, S!ListedIsServed

LEMMA TableStep ==
  ASSUME TableInv, Next
  PROVE  TableInv'
<1> USE PlatformAssumption DEF S!ServerAssumption
<1>1. CASE UNCHANGED <<stage, role, clients>>
  BY <1>1 DEF TableInv, S!ListedIsServed
<1>2. ASSUME NEW c \in Conns, S!Connect(c) \/ S!HelloFails(c) \/ S!Eof(c) \/ S!Garbled(c)
      PROVE  TableInv'
  BY <1>2
     DEF S!Connect, S!HelloFails, S!Eof, S!Garbled, TableInv, S!Stages, S!ListedIsServed
<1>3. ASSUME NEW c \in Conns, NEW name, S!Hello(c, name)
      PROVE  TableInv'
  <2> DEFINE r == S!ParseRole(name)
  <2>1. r \in S!Roles
    BY ParsedIsRole
  <2> HIDE DEF r
  <2>2. /\ stage[c] = "hello" /\ stage' = [stage EXCEPT ![c] = "reading"]
        /\ role' = [role EXCEPT ![c] = r]
        /\ clients' = [clients EXCEPT ![r] = c]
    BY <1>3 DEF S!Hello, r
  <2>3. (stage \in [Conns -> S!Stages] /\ role \in [Conns -> S!Roles])'
    BY <2>1, <2>2 DEF TableInv, S!Stages
  <2>4. (clients \in [S!Roles -> Conns \cup {NoConn}])'
    BY <2>1, <2>2 DEF TableInv
  <2>5. S!ListedIsServed'
    BY <2>1, <2>2 DEF TableInv, S!ListedIsServed
  <2> QED
    BY <2>3, <2>4, <2>5 DEF TableInv
<1>4. ASSUME NEW c \in Conns, S!Leave(c)
      PROVE  TableInv'
  BY <1>4 DEF S!Leave, TableInv, S!Stages, S!ListedIsServed
<1>5. ASSUME NEW c \in Conns,
             \/ S!Receive(c) \/ S!ClientCloses(c) \/ \E p \in Sendable : S!ClientSends(c, p)
      PROVE  UNCHANGED <<stage, role, clients>>
  BY <1>5 DEF S!Receive, S!ClientCloses, S!ClientSends
<1>6. CASE (\E r \in S!Roles : S!SendTo(r)) \/ S!Written \/ S!BrokerTakes
  BY <1>6, <1>1 DEF S!SendTo, S!Written, S!BrokerTakes
<1> QED
  BY <1>1, <1>2, <1>3, <1>4, <1>5, <1>6
     DEF Next, BrokerMoves, BusMoves, serverVars, S!ServerNext, S!ServerStep, S!ClientStep

(* The table never names a connection that has ended, however connections  *)
(* of one role overtake each other (transport.rs, accept_loop).            *)
THEOREM PlatformListed == Spec => []ListedIsServed
<1>1. TableInv /\ UNCHANGED vars => TableInv'
  BY DEF TableInv, S!ListedIsServed, vars, serverVars
<1>2. TableInv => ListedIsServed
  BY DEF TableInv, ListedIsServed
<1> QED
  BY TableInit, TableStep, <1>1, <1>2, PTL DEF Spec

-----------------------------------------------------------------------------
(* The table of requests.                                                  *)

RequestInv ==
  /\ leg \in [Requests -> M!Legs] /\ answers \in [Requests -> Nat]
  /\ waiting \subseteq Requests
  /\ \A q \in waiting : leg[q] # "new"
  /\ \A q \in Requests : leg[q] = "new" => answers[q] = 0
  /\ M!WaitingIsPending

LEMMA RequestInit == Init => RequestInv
  BY DEF Init, M!Init, RequestInv, M!Legs, M!WaitingIsPending

LEMMA RequestStep ==
  ASSUME RequestInv, Next
  PROVE  RequestInv'
<1>1. CASE UNCHANGED <<leg, pending, waiting, answers>>
  BY <1>1 DEF RequestInv, M!WaitingIsPending
<1>2. ASSUME NEW p \in Ids, M!Register(p) \/ M!Leave(p) \/ M!Unregister(p)
      PROVE  UNCHANGED <<leg, pending, waiting, answers>>
  BY <1>2 DEF M!Register, M!Leave, M!Unregister, M!mailbox
<1>3. ASSUME NEW p \in Ids, M!Read(p)
      PROVE  RequestInv'
  <2> DEFINE q == Head(mail[p]).id
  <2>1. CASE M!Resolve(q) /\ UNCHANGED leg
    BY <2>1 DEF M!Resolve, RequestInv, M!WaitingIsPending
  <2>2. CASE M!BeginRoute(q, p, asker[q], "answering") /\ UNCHANGED <<pending, waiting, answers>>
    BY <2>2 DEF M!BeginRoute, RequestInv, M!Legs, M!WaitingIsPending
  <2> QED
    BY <1>3, <2>1, <2>2 DEF M!Read, M!mailbox
<1>4. ASSUME NEW q \in Requests, M!EndRoute(q)
      PROVE  RequestInv'
  BY <1>4 DEF M!EndRoute, M!mailbox, RequestInv, M!Legs, M!WaitingIsPending
<1>5. ASSUME NEW q \in Requests, M!GiveUp(q)
      PROVE  RequestInv'
  BY <1>5 DEF M!GiveUp, RequestInv, M!WaitingIsPending
<1>6. ASSUME NEW q \in Requests, NEW from \in Ids, NEW to \in Ids, M!Ask(q, from, to)
      PROVE  RequestInv'
  BY <1>6 DEF M!Ask, M!BeginRoute, RequestInv, M!Legs, M!WaitingIsPending
<1> QED
  BY <1>1, <1>2, <1>3, <1>4, <1>5, <1>6
     DEF Next, ServerMoves, BrokerMoves, busVars, M!BusNext

(* A requester that still waits is in the table, and was not answered yet  *)
(* (channel.rs, PendingRequests).                                          *)
THEOREM PlatformWaiting == Spec => []WaitingIsPending
<1>1. RequestInv /\ UNCHANGED vars => RequestInv'
  BY DEF RequestInv, M!WaitingIsPending, vars, busVars
<1>2. RequestInv => WaitingIsPending
  BY DEF RequestInv, WaitingIsPending
<1> QED
  BY RequestInit, RequestStep, <1>1, <1>2, PTL DEF Spec

-----------------------------------------------------------------------------
(* The sandbox.                                                            *)

(* Neither table of the IPC crate lets a sandboxed role do what needs a    *)
(* capability, and the broker sends nothing of theirs to a child.          *)
LEMMA SandboxTables ==
  ASSUME NEW r \in B!Sandboxed, NEW p \in B!Permitted(r)
  PROVE  B!RequiredCapability(p) = B!NoCapability /\ B!RoutePayload(p) = "ui"
<1>1. r \in {"Network", "Renderer", "Js"}
  BY DEF B!Sandboxed
<1>2. p \in {"DomQueryResult", "DomOperationResult", "NetworkFetchResponse", "NavigateResponse",
             "ProcessRegister", "ProcessShutdown", "Error"}
  BY <1>1 DEF B!Permitted, B!DomResults, B!NetResults, B!Lifecycle
<1> QED
  BY <1>2 DEF B!RequiredCapability, B!RoutePayload, B!NoCapability, B!DomRequests

LEMMA PermittedArePayloads ==
  ASSUME NEW r \in B!Roles
  PROVE  B!Permitted(r) \subseteq B!Payloads
  BY DEF B!Permitted, B!Payloads, B!DomRequests, B!DomResults, B!NetResults, B!Lifecycle

(* What the server may tell the broker.                                    *)
Told ==
  {m \in [role : S!Roles, payload : S!Payloads] :
     m.role \in S!Sandboxed => S!RequiredCapability(m.payload) = S!NoCapability}

ToldInv == role \in [Conns -> S!Roles] /\ tx \in Seq(Told)

LEMMA TellInv ==
  ASSUME ToldInv, NEW c \in Conns, NEW p,
         p = "Error" \/ p \in S!Permitted(role[c]), S!Tell(c, p)
  PROVE  tx' \in Seq(Told)
<1>1. role[c] \in S!Roles
  BY DEF ToldInv
<1>2. p \in S!Payloads
  BY <1>1, PermittedArePayloads
     DEF S!Payloads, B!Payloads, B!Roles, S!Roles, B!Permitted, S!Permitted,
         B!DomRequests, S!DomRequests, B!DomResults, S!DomResults, B!NetResults, S!NetResults,
         B!Lifecycle, S!Lifecycle
<1>3. role[c] \in S!Sandboxed => S!RequiredCapability(p) = S!NoCapability
  BY SandboxTables
     DEF S!Sandboxed, B!Sandboxed, S!Permitted, B!Permitted, S!RequiredCapability,
         B!RequiredCapability, S!NoCapability, B!NoCapability, S!DomRequests, B!DomRequests,
         S!DomResults, B!DomResults, S!NetResults, B!NetResults, S!Lifecycle, B!Lifecycle
<1>4. [role |-> role[c], payload |-> p] \in Told
  BY <1>1, <1>2, <1>3 DEF Told
<1> QED
  BY <1>4 DEF S!Tell, ToldInv

LEMMA ToldStep ==
  ASSUME ToldInv, Next
  PROVE  ToldInv'
<1>1. CASE UNCHANGED <<role, tx>>
  BY <1>1 DEF ToldInv
<1>2. ASSUME NEW c \in Conns, NEW name, S!Hello(c, name)
      PROVE  ToldInv'
  BY <1>2, ParsedIsRole DEF S!Hello, ToldInv
<1>3. ASSUME NEW c \in Conns, S!Receive(c)
      PROVE  ToldInv'
  <2> DEFINE p == IF Head(wire[c]) \in S!Permitted(role[c]) THEN Head(wire[c]) ELSE "Error"
  <2>1. (p = "Error" \/ p \in S!Permitted(role[c])) /\ S!Tell(c, p)
    BY <1>3 DEF S!Receive
  <2>2. UNCHANGED role
    BY <1>3 DEF S!Receive
  <2> HIDE DEF p
  <2> QED
    BY <2>1, <2>2, TellInv DEF ToldInv
<1>4. ASSUME NEW c \in Conns, S!Eof(c)
      PROVE  ToldInv'
  BY <1>4, TellInv DEF S!Eof, ToldInv
<1>5. CASE S!BrokerTakes
  BY <1>5 DEF S!BrokerTakes, ToldInv
<1>6. ASSUME NEW c \in Conns,
             \/ S!Connect(c) \/ S!HelloFails(c) \/ S!Garbled(c) \/ S!Leave(c)
             \/ S!ClientCloses(c) \/ \E p \in Sendable : S!ClientSends(c, p)
      PROVE  UNCHANGED <<role, tx>>
  BY <1>6 DEF S!Connect, S!HelloFails, S!Garbled, S!Leave, S!ClientCloses, S!ClientSends
<1>7. CASE (\E r \in S!Roles : S!SendTo(r)) \/ S!Written
  BY <1>7, <1>1 DEF S!SendTo, S!Written
<1> QED
  BY <1>1, <1>2, <1>3, <1>4, <1>5, <1>6, <1>7
     DEF Next, BrokerMoves, BusMoves, serverVars, S!ServerNext, S!ServerStep, S!ClientStep

(* What waits in the broker's queue has passed the check of the server;    *)
(* what is on its way to a child comes from nobody in the sandbox.         *)
Events ==
  {e \in [kind : {"FromChild"}, role : B!Roles, payload : B!Payloads] :
     e.payload \in B!Permitted(e.role)}
  \cup [kind : {"ProcessReady", "ProcessExited"}, role : Children]

Harmless == [to : Children, from : B!Roles \ B!Sandboxed, payload : B!Payloads]
ToUi == [to : {"ui"}, from : B!Roles, payload : B!Payloads]

TrafficInv ==
  /\ events \in Seq(Events)
  /\ busy \in {B!Nothing} \cup Harmless \cup ToUi
  /\ inbox \in [Children -> Seq(Harmless)]

LEMMA RouteInv ==
  ASSUME TrafficInv, B!Handling("FromChild"), B!Route(Head(events).role, Head(events).payload)
  PROVE  busy' \in {B!Nothing} \cup Harmless \cup ToUi
<1> DEFINE e == Head(events)
<1>1. e \in Events /\ e.kind = "FromChild"
  BY DEF TrafficInv, B!Handling
<1>2. e.role \in B!Roles /\ e.payload \in B!Payloads /\ e.payload \in B!Permitted(e.role)
  BY <1>1 DEF Events
<1>3. "ui" \notin Children
  BY PlatformAssumption DEF B!BrokerAssumption, B!Roles
<1>4. e.role \in B!Sandboxed => B!RoutePayload(e.payload) = "ui"
  BY <1>2, SandboxTables
<1> HIDE DEF e
<1>5. busy' \in {busy} \cup Harmless \cup ToUi
  BY <1>2, <1>3, <1>4 DEF B!Route, Harmless, ToUi, e
<1> QED
  BY <1>5 DEF TrafficInv

LEMMA TrafficStep ==
  ASSUME TrafficInv, Next
  PROVE  TrafficInv'
<1>1. CASE UNCHANGED <<events, busy, inbox>>
  BY <1>1 DEF TrafficInv
<1>2. ASSUME NEW r \in B!Roles, NEW p \in B!Permitted(r), B!ChildSpeaks(r, p)
      PROVE  TrafficInv'
  <2>1. B!FromChild(r, p) \in Events
    BY PermittedArePayloads DEF B!FromChild, Events
  <2> QED
    BY <1>2, <2>1 DEF B!ChildSpeaks, B!Enqueue, B!wires, TrafficInv
<1>3. ASSUME NEW r \in Children, B!SendReady(r) \/ B!ReportExit(r)
      PROVE  TrafficInv'
  <2>1. B!ProcessReady(r) \in Events /\ B!ProcessExited(r) \in Events
    BY DEF B!ProcessReady, B!ProcessExited, Events
  <2>2. UNCHANGED <<busy, inbox>>
    BY <1>3 DEF B!SendReady, B!ReportExit, B!wires
  <2>3. CASE B!SendReady(r)
    BY <2>1, <2>2, <2>3 DEF B!SendReady, B!Enqueue, TrafficInv
  <2>4. CASE B!ReportExit(r)
    BY <2>1, <2>2, <2>4 DEF B!ReportExit, B!Enqueue, TrafficInv
  <2> QED
    BY <1>3, <2>3, <2>4
<1>4. CASE B!HandleMessage
  <2>1. busy' \in {B!Nothing} \cup Harmless \cup ToUi
    BY <1>4, RouteInv DEF B!HandleMessage
  <2> QED
    BY <1>4, <2>1 DEF B!HandleMessage, B!Handling, B!wires, TrafficInv
<1>5. CASE B!HandleReady
  BY <1>5 DEF B!HandleReady, B!Handling, B!wires, TrafficInv
<1>6. CASE B!HandleCrash
  <2>1. [to |-> "ui", from |-> "Broker", payload |-> "ProcessShutdown"] \in ToUi
    BY DEF ToUi, B!Roles, B!Payloads, B!Lifecycle
  <2>2. busy' \in {busy, B!Nothing, [to |-> "ui", from |-> "Broker", payload |-> "ProcessShutdown"]}
    BY <1>6 DEF B!HandleCrash
  <2> QED
    BY <1>6, <2>1, <2>2 DEF B!HandleCrash, B!Handling, B!wires, TrafficInv
<1>7. CASE B!Deliver
  <2>1. UNCHANGED events /\ busy' = B!Nothing
    BY <1>7 DEF B!Deliver
  <2>2. CASE busy.to = "ui"
    BY <1>7, <2>1, <2>2 DEF B!Deliver, TrafficInv
  <2>3. CASE busy.to # "ui"
    <3>1. busy \in Harmless
      BY <1>7, <2>3 DEF B!Deliver, TrafficInv, ToUi
    <3>2. inbox' \in {inbox, [inbox EXCEPT ![busy.to] = Append(@, busy)]}
      BY <1>7, <2>3 DEF B!Deliver
    <3>3. busy.to \in Children
      BY <3>1 DEF Harmless
    <3>4. inbox[busy.to] \in Seq(Harmless)
      BY <3>3 DEF TrafficInv
    <3>5. Append(inbox[busy.to], busy) \in Seq(Harmless)
      BY <3>1, <3>4
    <3>6. (inbox \in [Children -> Seq(Harmless)])'
      BY <3>2, <3>3, <3>5 DEF TrafficInv
    <3> QED
      BY <2>1, <3>6 DEF TrafficInv
  <2> QED
    BY <2>2, <2>3
<1>8. ASSUME NEW r \in Children, B!ChildReads(r)
      PROVE  TrafficInv'
  BY <1>8 DEF B!ChildReads, TrafficInv
<1>9. CASE B!Setup \/ B!UiReads \/ \E r \in Children : B!WindowPasses(r)
  BY <1>9, <1>1
     DEF B!Setup, B!SetUiChannel, B!StartLoop, B!RegisterMock, B!SpawnChild, B!UiReads,
         B!WindowPasses, B!wires
<1> QED
  BY <1>1, <1>2, <1>3, <1>4, <1>5, <1>6, <1>7, <1>8, <1>9
     DEF Next, ServerMoves, BusMoves, brokerVars, B!BrokerNext, B!Loop, B!Chatter, B!ChildStep

(* No sandboxed process reaches another through the broker, nor asks for   *)
(* anything that needs a capability: the tables of transport.rs,           *)
(* channel.rs and broker.rs agree.                                         *)
THEOREM PlatformSandbox == Spec => []SandboxConfined
<1>1. Init => ToldInv /\ TrafficInv
  BY DEF Init, S!Init, B!Init, ToldInv, TrafficInv, S!Roles
<1>2. ToldInv /\ TrafficInv /\ UNCHANGED vars => ToldInv' /\ TrafficInv'
  BY DEF ToldInv, TrafficInv, vars, serverVars, brokerVars
<1>3. ToldInv => S!NothingPrivileged
  BY DEF ToldInv, Told, S!NothingPrivileged
<1>4. TrafficInv => B!NoDirectTraffic
  <2> SUFFICES ASSUME TrafficInv, NEW r \in Children, NEW i \in 1..Len(inbox[r])
               PROVE  inbox[r][i].from \notin B!Sandboxed
    BY DEF B!NoDirectTraffic
  <2>1. inbox[r] \in Seq(Harmless)
    BY DEF TrafficInv
  <2>2. inbox[r][i] \in Harmless
    BY <2>1
  <2> QED
    BY <2>2 DEF Harmless
<1> QED
  BY <1>1, ToldStep, TrafficStep, <1>2, <1>3, <1>4, PTL DEF Spec, SandboxConfined

-----------------------------------------------------------------------------
(* Types.                                                                  *)

ServerOthersTyped ==
  /\ closed \in [Conns -> BOOLEAN]
  /\ wire \in [Conns -> Seq(Sendable)] /\ \A c \in Conns : Len(wire[c]) <= WireCap
  /\ writing \in Conns \cup {NoConn}
  /\ Len(tx) <= TxCap

LEMMA ServerInitTyped == Init => ServerOthersTyped
<1> SUFFICES ASSUME Init PROVE ServerOthersTyped
  OBVIOUS
<1>1. closed \in [Conns -> BOOLEAN]
  BY Zenon DEF Init, S!Init
<1>2. wire \in [Conns -> Seq(Sendable)] /\ \A c \in Conns : Len(wire[c]) <= WireCap
  BY PlatformAssumption DEF Init, S!Init, S!ServerAssumption
<1>3. writing = NoConn /\ Len(tx) <= TxCap
  BY PlatformAssumption DEF Init, S!Init, S!ServerAssumption
<1> QED
  BY <1>1, <1>2, <1>3 DEF ServerOthersTyped

LEMMA ServerStepTyped ==
  ASSUME TableInv, ToldInv, ServerOthersTyped, Next
  PROVE  ServerOthersTyped'
<1> USE DEF S!socket
<1>1. CASE UNCHANGED <<closed, wire, writing, tx>>
  BY <1>1, Zenon DEF ServerOthersTyped
<1>2. ASSUME NEW c \in Conns,
             \/ S!Connect(c) \/ (\E name \in Names : S!Hello(c, name)) \/ S!HelloFails(c)
             \/ S!Garbled(c) \/ S!Leave(c)
      PROVE  UNCHANGED <<closed, wire, writing, tx>>
  BY <1>2 DEF S!Connect, S!Hello, S!HelloFails, S!Garbled, S!Leave
<1>3. ASSUME NEW c \in Conns, NEW p \in Sendable, S!ClientSends(c, p)
      PROVE  ServerOthersTyped'
  <2>1. UNCHANGED <<closed, writing, tx>>
    BY <1>3 DEF S!ClientSends
  <2>2. (wire \in [Conns -> Seq(Sendable)] /\ \A d \in Conns : Len(wire[d]) <= WireCap)'
    <3>1. wire[c] \in Seq(Sendable) /\ Len(wire[c]) < WireCap
          /\ wire' = [wire EXCEPT ![c] = Append(wire[c], p)]
      BY <1>3 DEF S!ClientSends, ServerOthersTyped
    <3>2. /\ Append(wire[c], p) \in Seq(Sendable)
          /\ Len(Append(wire[c], p)) <= WireCap
      BY <3>1, PlatformAssumption DEF S!ServerAssumption
    <3> QED
      BY <3>1, <3>2 DEF ServerOthersTyped
  <2> QED
    BY <2>1, <2>2, Zenon DEF ServerOthersTyped
<1>4. ASSUME NEW c \in Conns, S!ClientCloses(c)
      PROVE  ServerOthersTyped'
  <2>1. UNCHANGED <<wire, writing, tx>> /\ closed' = [closed EXCEPT ![c] = TRUE]
    BY <1>4 DEF S!ClientCloses
  <2>2. (closed \in [Conns -> BOOLEAN])'
    BY <2>1, Zenon DEF ServerOthersTyped
  <2> QED
    BY <2>1, <2>2, Zenon DEF ServerOthersTyped
<1>5. ASSUME NEW c \in Conns, S!Receive(c) \/ S!Eof(c)
      PROVE  ServerOthersTyped'
  <2>1. UNCHANGED <<closed, writing>> /\ \E p : S!Tell(c, p)
    BY <1>5 DEF S!Receive, S!Eof
  <2>2. Len(tx') <= TxCap
    BY <2>1, PlatformAssumption DEF S!Tell, ToldInv, S!ServerAssumption
  <2>3. wire' \in {wire, [wire EXCEPT ![c] = Tail(wire[c])]} /\ (wire' # wire => wire[c] # <<>>)
    BY <1>5 DEF S!Receive, S!Eof
  <2>4. (wire \in [Conns -> Seq(Sendable)] /\ \A d \in Conns : Len(wire[d]) <= WireCap)'
    <3>1. wire[c] \in Seq(Sendable) /\ Len(wire[c]) <= WireCap
      BY DEF ServerOthersTyped
    <3>2. wire[c] # <<>> => Tail(wire[c]) \in Seq(Sendable) /\ Len(Tail(wire[c])) <= WireCap
      BY <3>1, PlatformAssumption DEF S!ServerAssumption
    <3> QED
      BY <2>3, <3>2 DEF ServerOthersTyped
  <2> QED
    BY <2>1, <2>2, <2>4, Zenon DEF ServerOthersTyped
<1>6. ASSUME NEW r \in S!Roles, S!SendTo(r)
      PROVE  ServerOthersTyped'
  <2>1. UNCHANGED <<closed, wire, tx>> /\ writing' \in Conns \cup {NoConn}
    BY <1>6 DEF S!SendTo, TableInv
  <2> QED
    BY <2>1, Zenon DEF ServerOthersTyped
<1>7. CASE S!Written
  BY <1>7, Zenon DEF S!Written, ServerOthersTyped
<1>8. CASE S!BrokerTakes
  <2>1. UNCHANGED <<closed, wire, writing>>
    BY <1>8 DEF S!BrokerTakes
  <2>2. Len(tx') <= TxCap
    BY <1>8, PlatformAssumption DEF S!BrokerTakes, ToldInv, ServerOthersTyped, S!ServerAssumption
  <2> QED
    BY <2>1, <2>2, Zenon DEF ServerOthersTyped
<1> QED
  BY <1>1, <1>2, <1>3, <1>4, <1>5, <1>6, <1>7, <1>8
     DEF Next, BrokerMoves, BusMoves, serverVars, S!ServerNext, S!ServerStep, S!ClientStep

(* The flags of the broker, its table, and its queues.                     *)
BrokerFlagsTyped ==
  /\ looping \in BOOLEAN /\ uiSet \in BOOLEAN
  /\ recent \in [Children -> BOOLEAN] /\ connected \in [Children -> BOOLEAN]

BrokerTableTyped ==
  /\ status \in [Children -> B!Statuses]
  /\ crashCount \in [Children -> Nat] /\ readies \in [Children -> Nat]
  /\ exits \in 0..MaxExits

QueuesBounded ==
  /\ Len(events) <= EventCap
  /\ ui \in Seq(ToUi) /\ Len(ui) <= UiCap
  /\ \A r \in Children : Len(inbox[r]) <= InboxCap

LEMMA BrokerInitTyped == Init => BrokerFlagsTyped /\ BrokerTableTyped /\ QueuesBounded
<1> SUFFICES ASSUME Init PROVE BrokerFlagsTyped /\ BrokerTableTyped /\ QueuesBounded
  OBVIOUS
<1>1. BrokerFlagsTyped
  BY Zenon DEF Init, B!Init, BrokerFlagsTyped
<1>2. BrokerTableTyped
  BY PlatformAssumption DEF Init, B!Init, BrokerTableTyped, B!Statuses, B!BrokerAssumption
<1>3. QueuesBounded
  BY PlatformAssumption DEF Init, B!Init, QueuesBounded, B!BrokerAssumption
<1> QED
  BY <1>1, <1>2, <1>3

(* Events about a process are about one that may be registered.            *)
LEMMA EventRole ==
  ASSUME TrafficInv, events # <<>>, Head(events).kind \in {"ProcessReady", "ProcessExited"}
  PROVE  Head(events).role \in Children
<1>1. Head(events) \in Events
  BY DEF TrafficInv
<1> QED
  BY <1>1 DEF Events

LEMMA BrokerFlagsStep ==
  ASSUME BrokerFlagsTyped, Next
  PROVE  BrokerFlagsTyped'
<1> USE DEF B!wires, B!table
<1>1. CASE UNCHANGED <<looping, uiSet, recent, connected>>
  BY <1>1, Zenon DEF BrokerFlagsTyped
<1>2. CASE B!SetUiChannel \/ B!StartLoop
  BY <1>2, Zenon DEF B!SetUiChannel, B!StartLoop, BrokerFlagsTyped
<1>3. ASSUME NEW r \in Children, B!RegisterMock(r)
      PROVE  BrokerFlagsTyped'
  <2>1. PICK kept \in BOOLEAN : connected' = [connected EXCEPT ![r] = kept]
    BY <1>3 DEF B!RegisterMock
  <2>2. UNCHANGED <<looping, uiSet, recent>>
    BY <1>3 DEF B!RegisterMock
  <2> QED
    BY <2>1, <2>2, Zenon DEF BrokerFlagsTyped
<1>4. ASSUME NEW r \in Children, B!SpawnChild(r) \/ B!SendReady(r) \/ B!ReportExit(r) \/ B!ChildReads(r)
      PROVE  UNCHANGED <<looping, uiSet, recent, connected>>
  BY <1>4 DEF B!SpawnChild, B!SendReady, B!ReportExit, B!ChildReads
<1>5. ASSUME NEW r \in Children, B!WindowPasses(r)
      PROVE  BrokerFlagsTyped'
  BY <1>5, Zenon DEF B!WindowPasses, BrokerFlagsTyped
<1>6. CASE B!HandleCrash
  <2>1. UNCHANGED <<looping, uiSet, connected>>
    BY <1>6 DEF B!HandleCrash
  <2>2. recent' = recent \/ \E r : recent' = [recent EXCEPT ![r] = TRUE]
    BY <1>6, Zenon DEF B!HandleCrash
  <2>3. (recent \in [Children -> BOOLEAN])'
    BY <2>2, Zenon DEF BrokerFlagsTyped
  <2> QED
    BY <2>1, <2>3, Zenon DEF BrokerFlagsTyped
<1>7. CASE B!HandleMessage \/ B!HandleReady \/ B!Deliver \/ B!UiReads
  BY <1>7, <1>1 DEF B!HandleMessage, B!HandleReady, B!Deliver, B!UiReads
<1>8. ASSUME NEW r, NEW p, B!ChildSpeaks(r, p)
      PROVE  UNCHANGED <<looping, uiSet, recent, connected>>
  BY <1>8 DEF B!ChildSpeaks
<1> QED
  BY <1>1, <1>2, <1>3, <1>4, <1>5, <1>6, <1>7, <1>8
     DEF Next, ServerMoves, BusMoves, brokerVars, B!BrokerNext, B!Setup, B!Loop, B!Chatter,
         B!ChildStep

LEMMA BrokerTableStep ==
  ASSUME TrafficInv, BrokerTableTyped, Next
  PROVE  BrokerTableTyped'
<1> USE DEF B!wires, B!table
<1>1. CASE UNCHANGED <<status, crashCount, readies, exits>>
  BY <1>1 DEF BrokerTableTyped
<1>2. CASE B!SetUiChannel \/ B!StartLoop
  BY <1>1, <1>2 DEF B!SetUiChannel, B!StartLoop
<1>3. ASSUME NEW r \in Children,
             B!RegisterMock(r) \/ B!SpawnChild(r) \/ B!SendReady(r) \/ B!ReportExit(r)
      PROVE  BrokerTableTyped'
  BY <1>3, PlatformAssumption
     DEF B!RegisterMock, B!SpawnChild, B!SendReady, B!ReportExit, BrokerTableTyped, B!Statuses,
         B!BrokerAssumption
<1>4. ASSUME NEW r \in Children, B!ChildReads(r) \/ B!WindowPasses(r)
      PROVE  UNCHANGED <<status, crashCount, readies, exits>>
  BY <1>4 DEF B!ChildReads, B!WindowPasses
<1>5. CASE B!HandleReady
  BY <1>5 DEF B!HandleReady, BrokerTableTyped, B!Statuses
<1>6. CASE B!HandleCrash
  <2> DEFINE r == Head(events).role
  <2>1. r \in Children
    BY <1>6, EventRole DEF B!HandleCrash, B!Handling
  <2>2. B!Counted(r) \in Nat
    BY <2>1 DEF B!Counted, BrokerTableTyped
  <2> HIDE DEF r
  <2>3. /\ status' \in {status, [status EXCEPT ![r] = "Unrecoverable"],
                        [status EXCEPT ![r] = "Crashed"]}
        /\ crashCount' \in {crashCount, [crashCount EXCEPT ![r] = B!Counted(r)]}
        /\ readies' \in {readies, [readies EXCEPT ![r] = readies[r] + 1]}
        /\ exits' = exits
    BY <1>6 DEF B!HandleCrash, r
  <2> QED
    BY <2>1, <2>2, <2>3 DEF BrokerTableTyped, B!Statuses
<1>7. CASE B!HandleMessage \/ B!Deliver \/ B!UiReads
  BY <1>7, <1>1 DEF B!HandleMessage, B!Deliver, B!UiReads
<1>8. ASSUME NEW r, NEW p, B!ChildSpeaks(r, p)
      PROVE  UNCHANGED <<status, crashCount, readies, exits>>
  BY <1>8 DEF B!ChildSpeaks
<1> QED
  BY <1>1, <1>2, <1>3, <1>4, <1>5, <1>6, <1>7, <1>8
     DEF Next, ServerMoves, BusMoves, brokerVars, B!BrokerNext, B!Setup, B!Loop, B!Chatter,
         B!ChildStep

LEMMA QueuesStep ==
  ASSUME TrafficInv, QueuesBounded, Next
  PROVE  QueuesBounded'
<1> USE PlatformAssumption DEF B!wires, B!table, B!BrokerAssumption
<1>1. CASE UNCHANGED <<events, ui, inbox>>
  BY <1>1 DEF QueuesBounded
<1>2. CASE B!Setup
  BY <1>1, <1>2 DEF B!Setup, B!SetUiChannel, B!StartLoop, B!RegisterMock, B!SpawnChild
<1>3. ASSUME UNCHANGED <<ui, inbox>>, B!Room, NEW e, events' = Append(events, e)
      PROVE  QueuesBounded'
  BY <1>3 DEF TrafficInv, QueuesBounded, B!Room
<1>4. ASSUME NEW r \in Children, B!SendReady(r) \/ B!ReportExit(r)
      PROVE  QueuesBounded'
  BY <1>3, <1>4 DEF B!SendReady, B!ReportExit, B!Enqueue
<1>5. ASSUME NEW r, NEW p, B!ChildSpeaks(r, p)
      PROVE  QueuesBounded'
  BY <1>3, <1>5 DEF B!ChildSpeaks, B!Enqueue
<1>6. ASSUME NEW r \in Children, B!WindowPasses(r)
      PROVE  UNCHANGED <<events, ui, inbox>>
  BY <1>6 DEF B!WindowPasses
<1>7. ASSUME NEW r \in Children, B!ChildReads(r)
      PROVE  QueuesBounded'
  <2>1. inbox[r] \in Seq(Harmless) /\ inbox[r] # <<>>
    BY <1>7 DEF B!ChildReads, TrafficInv
  <2>2. Len(Tail(inbox[r])) <= InboxCap
    BY <2>1 DEF QueuesBounded
  <2>3. /\ UNCHANGED <<events, ui>> /\ inbox' = [inbox EXCEPT ![r] = Tail(inbox[r])]
        /\ inbox \in [Children -> Seq(Harmless)]
    BY <1>7 DEF B!ChildReads, TrafficInv
  <2> QED
    BY <2>2, <2>3 DEF QueuesBounded
<1>8. CASE B!HandleMessage \/ B!HandleReady \/ B!HandleCrash
  <2>1. events # <<>> /\ events' = Tail(events) /\ UNCHANGED <<ui, inbox>>
    BY <1>8 DEF B!HandleMessage, B!HandleReady, B!HandleCrash, B!Handling
  <2> QED
    BY <2>1 DEF QueuesBounded, TrafficInv
<1>9. CASE B!Deliver
  <2>1. CASE busy.to = "ui"
    <3>1. busy \in ToUi
      BY <1>9, <2>1 DEF B!Deliver, TrafficInv, Harmless, B!Roles
    <3> QED
      BY <1>9, <2>1, <3>1 DEF B!Deliver, QueuesBounded
  <2>2. CASE busy.to # "ui"
    <3>1. busy \in Harmless /\ busy.to \in Children
      BY <1>9, <2>2 DEF B!Deliver, TrafficInv, ToUi, Harmless
    <3>2. /\ UNCHANGED <<events, ui>>
          /\ \/ inbox' = inbox
             \/ /\ Len(inbox[busy.to]) < InboxCap
                /\ inbox' = [inbox EXCEPT ![busy.to] = Append(inbox[busy.to], busy)]
      BY <1>9, <2>2 DEF B!Deliver
    <3>3. inbox[busy.to] \in Seq(Harmless) /\ inbox \in [Children -> Seq(Harmless)]
      BY <3>1 DEF TrafficInv
    <3>4. Len(inbox[busy.to]) < InboxCap => Len(Append(inbox[busy.to], busy)) <= InboxCap
      BY <3>3
    <3> QED
      BY <3>1, <3>2, <3>3, <3>4 DEF QueuesBounded
  <2> QED
    BY <2>1, <2>2
<1>10. CASE B!UiReads
  BY <1>10 DEF B!UiReads, QueuesBounded
<1> QED
  BY <1>1, <1>2, <1>4, <1>5, <1>6, <1>7, <1>8, <1>9, <1>10
     DEF Next, ServerMoves, BusMoves, brokerVars, B!BrokerNext, B!Loop, B!Chatter, B!ChildStep

(* Who took part in a request is known once it is under way; what lies in  *)
(* an inbox is about such a request.                                       *)
Letters == {m \in [id : Requests, answer : BOOLEAN] : leg[m.id] # "new"}

LifeTyped == life \in [Ids -> {"off", "reading", "leaving"}] /\ open \in [Ids -> BOOLEAN]

PartiesKnown ==
  \A q \in Requests : leg[q] # "new" => asker[q] \in Ids /\ target[q] \in Ids

MailInv ==
  /\ DOMAIN asker = Requests /\ DOMAIN target = Requests
  /\ PartiesKnown
  /\ mail \in [Ids -> Seq(Letters)] /\ \A p \in Ids : Len(mail[p]) <= InboxCap

AnswersTyped == pending \subseteq Requests /\ answers \in [Requests -> 0..1]

LEMMA LifeStep ==
  ASSUME LifeTyped, Next
  PROVE  LifeTyped'
<1>1. CASE UNCHANGED <<life, open>>
  BY <1>1, Zenon DEF LifeTyped
<1>2. ASSUME NEW p \in Ids, M!Register(p) \/ M!Leave(p) \/ M!Unregister(p)
      PROVE  LifeTyped'
  <2>1. (life \in [Ids -> {"off", "reading", "leaving"}])'
    BY <1>2 DEF M!Register, M!Leave, M!Unregister, LifeTyped
  <2>2. \/ open' = [open EXCEPT ![p] = TRUE] \/ open' = [open EXCEPT ![p] = FALSE]
        \/ open' = [open EXCEPT ![p] = ~DropFirst]
    BY <1>2, Zenon DEF M!Register, M!Leave, M!Unregister
  <2>3. (open \in [Ids -> BOOLEAN])'
    BY <2>2, Zenon DEF LifeTyped
  <2> QED
    BY <2>1, <2>3 DEF LifeTyped
<1>3. ASSUME NEW p \in Ids, M!Read(p)
      PROVE  UNCHANGED <<life, open>>
  BY <1>3 DEF M!Read
<1>4. ASSUME NEW q \in Requests, M!EndRoute(q) \/ M!GiveUp(q)
      PROVE  UNCHANGED <<life, open>>
  BY <1>4 DEF M!EndRoute, M!GiveUp, M!process
<1>5. ASSUME NEW q \in Requests, NEW from \in Ids, NEW to \in Ids, M!Ask(q, from, to)
      PROVE  UNCHANGED <<life, open>>
  BY <1>5 DEF M!Ask, M!process
<1> QED
  BY <1>1, <1>2, <1>3, <1>4, <1>5 DEF Next, ServerMoves, BrokerMoves, busVars, M!BusNext

LEMMA AnswersStep ==
  ASSUME RequestInv, AnswersTyped, Next
  PROVE  AnswersTyped'
<1>1. CASE UNCHANGED <<pending, answers>>
  BY <1>1 DEF AnswersTyped
<1>2. ASSUME NEW p \in Ids, M!Register(p) \/ M!Leave(p) \/ M!Unregister(p)
      PROVE  UNCHANGED <<pending, answers>>
  BY <1>2 DEF M!Register, M!Leave, M!Unregister, M!mailbox
<1>3. ASSUME NEW p \in Ids, M!Read(p)
      PROVE  AnswersTyped'
  <2> DEFINE q == Head(mail[p]).id
  <2>1. CASE M!Resolve(q)
    BY <2>1 DEF M!Resolve, AnswersTyped, RequestInv, M!WaitingIsPending
  <2>2. CASE UNCHANGED <<pending, waiting, answers>>
    BY <2>2, <1>1
  <2> QED
    BY <1>3, <2>1, <2>2 DEF M!Read, M!mailbox
<1>4. ASSUME NEW q \in Requests, M!EndRoute(q) \/ M!GiveUp(q)
      PROVE  UNCHANGED <<pending, answers>>
  BY <1>4 DEF M!EndRoute, M!GiveUp, M!mailbox
<1>5. ASSUME NEW q \in Requests, NEW from \in Ids, NEW to \in Ids, M!Ask(q, from, to)
      PROVE  AnswersTyped'
  BY <1>5 DEF M!Ask, AnswersTyped
<1> QED
  BY <1>1, <1>2, <1>3, <1>4, <1>5 DEF Next, ServerMoves, BrokerMoves, busVars, M!BusNext

(* Mail stays mail while requests only advance.                            *)
LEMMA MailAdvances ==
  ASSUME MailInv, RequestInv, NEW q \in Requests, NEW place \in M!Legs \ {"new"},
         leg' = [leg EXCEPT ![q] = place]
  PROVE  Seq(Letters) \subseteq Seq(Letters')
<1>1. Letters \subseteq Letters'
  BY DEF Letters, RequestInv
<1> QED
  BY <1>1

LEMMA MailStep ==
  ASSUME MailInv, RequestInv, Next
  PROVE  MailInv'
<1> USE PlatformAssumption DEF M!BusAssumption
<1>1. CASE UNCHANGED <<leg, asker, target, mail>>
  BY <1>1 DEF MailInv, PartiesKnown, Letters
<1>2. ASSUME NEW p \in Ids, M!Register(p) \/ M!Leave(p) \/ M!Unregister(p)
      PROVE  MailInv'
  <2>1. UNCHANGED <<leg, asker, target>>
    BY <1>2 DEF M!Register, M!Leave, M!Unregister
  <2>2. mail' \in {mail, [mail EXCEPT ![p] = <<>>]}
    BY <1>2 DEF M!Register, M!Leave, M!Unregister, MailInv
  <2>3. Letters' = Letters /\ PartiesKnown'
    BY <2>1 DEF MailInv, PartiesKnown, Letters
  <2>4. <<>> \in Seq(Letters) /\ Len(<<>>) <= InboxCap
    OBVIOUS
  <2> QED
    BY <2>1, <2>2, <2>3, <2>4 DEF MailInv
<1>3. ASSUME NEW p \in Ids, M!Read(p)
      PROVE  MailInv'
  <2> DEFINE q == Head(mail[p]).id
  <2>1. mail[p] \in Seq(Letters) /\ mail[p] # <<>> /\ Len(mail[p]) <= InboxCap
    BY <1>3 DEF M!Read, MailInv
  <2>2. Tail(mail[p]) \in Seq(Letters) /\ Len(Tail(mail[p])) <= InboxCap
    BY <2>1
  <2>3. q \in Requests /\ leg[q] # "new"
    <3>1. Head(mail[p]) \in Letters
      BY <2>1
    <3> QED
      BY <3>1 DEF Letters
  <2>4. UNCHANGED <<asker, target>> /\ mail' = [mail EXCEPT ![p] = Tail(mail[p])]
    BY <1>3 DEF M!Read
  <2>5. leg' = leg \/ \E place \in M!Legs \ {"new"} : leg' = [leg EXCEPT ![q] = place]
    BY <1>3 DEF M!Read, M!BeginRoute, M!Legs
  <2> HIDE DEF q
  <2>6. Seq(Letters) \subseteq Seq(Letters')
    BY <2>3, <2>5, MailAdvances DEF Letters
  <2>7. PartiesKnown'
    BY <2>3, <2>4, <2>5 DEF MailInv, RequestInv, PartiesKnown
  <2> QED
    BY <2>2, <2>4, <2>6, <2>7 DEF MailInv
<1>4. ASSUME NEW q \in Requests, M!EndRoute(q)
      PROVE  MailInv'
  <2>1. leg[q] \in {"asking", "answering"} /\ UNCHANGED <<asker, target>>
    BY <1>4 DEF M!EndRoute
  <2>2. M!Goal(q) \in Ids
    BY <2>1 DEF M!Goal, MailInv, PartiesKnown
  <2> DEFINE g == M!Goal(q)
             m == [id |-> q, answer |-> leg[q] = "answering"]
  <2>3. m \in Letters
    BY <2>1 DEF Letters
  <2>4. \/ mail' = mail
        \/ Len(mail[g]) < InboxCap /\ mail' = [mail EXCEPT ![g] = Append(mail[g], m)]
    BY <1>4 DEF M!EndRoute
  <2>5. \E place \in M!Legs \ {"new"} : leg' = [leg EXCEPT ![q] = place]
    <3>1. leg' \in {[leg EXCEPT ![q] = "asked"], [leg EXCEPT ![q] = "answered"],
                    [leg EXCEPT ![q] = "failed"]}
      BY <1>4 DEF M!EndRoute
    <3> QED
      BY <3>1 DEF M!Legs
  <2> HIDE DEF g, m
  <2>6. Seq(Letters) \subseteq Seq(Letters')
    BY <2>5, MailAdvances
  <2>7. PartiesKnown'
    BY <2>1, <2>5 DEF MailInv, RequestInv, PartiesKnown
  <2>8. g \in Ids
    BY <2>2 DEF g
  <2>9. mail[g] \in Seq(Letters)
    BY <2>8 DEF MailInv
  <2>10. /\ Append(mail[g], m) \in Seq(Letters)
         /\ Len(mail[g]) < InboxCap => Len(Append(mail[g], m)) <= InboxCap
    BY <2>3, <2>9
  <2> QED
    BY <2>1, <2>4, <2>6, <2>7, <2>8, <2>10 DEF MailInv
<1>5. ASSUME NEW q \in Requests, M!GiveUp(q)
      PROVE  UNCHANGED <<leg, asker, target, mail>>
  BY <1>5 DEF M!GiveUp, M!process
<1>6. ASSUME NEW q \in Requests, NEW from \in Ids, NEW to \in Ids, M!Ask(q, from, to)
      PROVE  MailInv'
  <2>1. /\ asker' = [asker EXCEPT ![q] = from] /\ target' = [target EXCEPT ![q] = to]
        /\ mail' = mail
        /\ leg' \in {[leg EXCEPT ![q] = "asking"], [leg EXCEPT ![q] = "failed"]}
    BY <1>6 DEF M!Ask, M!BeginRoute, M!process
  <2>2. Seq(Letters) \subseteq Seq(Letters')
    BY <2>1, MailAdvances DEF M!Legs
  <2>3. PartiesKnown'
    BY <2>1 DEF MailInv, RequestInv, PartiesKnown
  <2> QED
    BY <2>1, <2>2, <2>3 DEF MailInv
<1> QED
  BY <1>1, <1>2, <1>3, <1>4, <1>5, <1>6 DEF Next, ServerMoves, BrokerMoves, busVars, M!BusNext

(* Every variable of server, broker and bus keeps its type and every       *)
(* channel its capacity, for any number of processes.                      *)
THEOREM PlatformTyped == Spec => []TypeOK
<1> DEFINE Inv == /\ TableInv /\ ToldInv /\ ServerOthersTyped
                  /\ TrafficInv /\ BrokerFlagsTyped /\ BrokerTableTyped /\ QueuesBounded
                  /\ RequestInv /\ LifeTyped /\ MailInv /\ AnswersTyped
<1>1. Init => Inv
  <2> SUFFICES ASSUME Init PROVE Inv
    OBVIOUS
  <2>1. ToldInv /\ TrafficInv
    BY DEF Init, S!Init, B!Init, ToldInv, TrafficInv, S!Roles
  <2>2. LifeTyped
    BY Zenon DEF Init, M!Init, LifeTyped
  <2>3. MailInv
    BY PlatformAssumption DEF Init, M!Init, MailInv, PartiesKnown, M!BusAssumption
  <2>4. AnswersTyped
    BY DEF Init, M!Init, AnswersTyped
  <2> QED
    BY <2>1, <2>2, <2>3, <2>4, TableInit, ServerInitTyped, BrokerInitTyped, RequestInit
<1>2. Inv /\ Next => Inv'
  <2> SUFFICES ASSUME TableInv, ToldInv, ServerOthersTyped, TrafficInv, BrokerFlagsTyped,
                      BrokerTableTyped, QueuesBounded, RequestInv, LifeTyped, MailInv,
                      AnswersTyped, Next
               PROVE  Inv'
    OBVIOUS
  <2>1. TableInv' /\ ToldInv' /\ ServerOthersTyped'
    BY TableStep, ToldStep, ServerStepTyped
  <2>2. TrafficInv' /\ BrokerFlagsTyped' /\ BrokerTableTyped' /\ QueuesBounded'
    BY TrafficStep, BrokerFlagsStep, BrokerTableStep, QueuesStep
  <2>3. RequestInv' /\ LifeTyped' /\ MailInv' /\ AnswersTyped'
    BY RequestStep, LifeStep, MailStep, AnswersStep
  <2> QED
    BY <2>1, <2>2, <2>3
<1>3. Inv /\ UNCHANGED vars => Inv'
  <2> SUFFICES ASSUME TableInv, ToldInv, ServerOthersTyped, TrafficInv, BrokerFlagsTyped,
                      BrokerTableTyped, QueuesBounded, RequestInv, LifeTyped, MailInv,
                      AnswersTyped, UNCHANGED vars
               PROVE  Inv'
    OBVIOUS
  <2>1. TableInv' /\ ToldInv'
    BY DEF vars, serverVars, TableInv, S!ListedIsServed, ToldInv
  <2>2. ServerOthersTyped' /\ BrokerFlagsTyped' /\ LifeTyped'
    BY Zenon DEF vars, serverVars, brokerVars, busVars, ServerOthersTyped, BrokerFlagsTyped,
                 LifeTyped
  <2>3. TrafficInv' /\ BrokerTableTyped' /\ QueuesBounded'
    BY DEF vars, brokerVars, TrafficInv, BrokerTableTyped, QueuesBounded
  <2>4. RequestInv' /\ AnswersTyped'
    BY DEF vars, busVars, RequestInv, M!WaitingIsPending, AnswersTyped
  <2>5. MailInv'
    BY DEF vars, busVars, MailInv, PartiesKnown, Letters
  <2> QED
    BY <2>1, <2>2, <2>3, <2>4, <2>5
<1>4. Inv => TypeOK
  <2> SUFFICES ASSUME TableInv, ToldInv, ServerOthersTyped, TrafficInv, BrokerFlagsTyped,
                      BrokerTableTyped, QueuesBounded, RequestInv, LifeTyped, MailInv,
                      AnswersTyped
               PROVE  TypeOK
    OBVIOUS
  <2>1. S!ServerTypeOK
    BY Zenon DEF TableInv, ServerOthersTyped, S!ServerTypeOK
  <2>2. busy = B!Nothing \/ busy.to \in Children \cup {"ui"}
    BY DEF TrafficInv, Harmless, ToUi
  <2>3. B!BrokerTypeOK
    BY <2>2, Zenon DEF BrokerFlagsTyped, BrokerTableTyped, QueuesBounded, B!BrokerTypeOK
  <2>4. M!BusTypeOK
    BY Zenon DEF LifeTyped, MailInv, RequestInv, AnswersTyped, M!BusTypeOK
  <2> QED
    BY <2>1, <2>3, <2>4 DEF TypeOK
<1> QED
  BY <1>1, <1>2, <1>3, <1>4, PTL DEF Spec
=============================================================================
