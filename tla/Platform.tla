------------------------------ MODULE Platform ------------------------------
(***************************************************************************)
(* The process platform: the server clients connect to, the broker that    *)
(* manages child processes, and the bus of the processes that live in one. *)
(* The three share no state: the repository holds no code between the      *)
(* server's channel and the broker's event queue, so each is explored on   *)
(* its own, against every input the others could give it.  part says which *)
(* one moves.                                                              *)
(***************************************************************************)
EXTENDS Naturals, Sequences

CONSTANTS
  Conns, NoConn, Names, Sendable, WireCap, TxCap,
  Children, Speech, EventCap, UiCap, MaxCrashes, MaxExits,
  Ids, Requests, DropFirst,
  InboxCap,  \* capacity of the channels of a child and of a bus process
  Parts      \* what to explore

VARIABLES
  part,
  stage, role, closed, wire, clients, writing, tx,
  looping, status, crashCount, recent, connected, inbox, events, busy, uiSet, ui,
  readies, exits,
  life, open, mail, leg, asker, target, pending, waiting, answers

serverVars == <<stage, role, closed, wire, clients, writing, tx>>
brokerVars == <<looping, status, crashCount, recent, connected, inbox, events, busy,
                uiSet, ui, readies, exits>>
busVars == <<life, open, mail, leg, asker, target, pending, waiting, answers>>
vars == <<part, serverVars, brokerVars, busVars>>

S == INSTANCE IpcServer
B == INSTANCE Broker
M == INSTANCE IpcBus WITH inbox <- mail

ASSUME PlatformAssumption ==
  S!ServerAssumption /\ B!BrokerAssumption /\ M!BusAssumption

Init == part \in Parts /\ S!Init /\ B!Init /\ M!Init

ServerMoves == part = "server" /\ UNCHANGED <<part, brokerVars, busVars>>
BrokerMoves == part = "broker" /\ UNCHANGED <<part, serverVars, busVars>>
BusMoves == part = "bus" /\ UNCHANGED <<part, serverVars, brokerVars>>

Next ==
  \/ S!ServerNext /\ ServerMoves
  \/ B!BrokerNext /\ BrokerMoves
  \/ M!BusNext /\ BusMoves

(* Tasks of the runtime run.  A client reads or is gone in the end, and    *)
(* the lock of the table is fair.                                          *)
ServerFairness ==
  /\ WF_vars(S!Written /\ ServerMoves)
  /\ WF_vars(S!BrokerTakes /\ ServerMoves)
  /\ \A c \in Conns : SF_vars(S!ServerStep(c) /\ ServerMoves)

(* The loop runs; timers fire and waiting senders are served in order;     *)
(* children and window read.  No exit and no registration has to happen.   *)
BrokerFairness ==
  /\ WF_vars(B!Loop /\ BrokerMoves)
  /\ WF_vars(B!UiReads /\ BrokerMoves)
  /\ \A r \in Children : /\ SF_vars(B!SendReady(r) /\ BrokerMoves)
                         /\ WF_vars(B!ChildReads(r) /\ BrokerMoves)

(* A registered process reads until it leaves, and a call of unregister    *)
(* returns once it can; senders waiting for room are served in order.      *)
BusFairness ==
  /\ \A p \in Ids : /\ WF_vars(M!Read(p) /\ BusMoves)
                    /\ WF_vars(M!Unregister(p) /\ BusMoves)
  /\ \A q \in Requests : SF_vars(M!EndRoute(q) /\ BusMoves)

Spec == Init /\ [][Next]_vars
FairSpec == Spec /\ ServerFairness /\ BrokerFairness /\ BusFairness

(* ------------------------------ properties ----------------------------- *)

(* Every part keeps its types.                                             *)
TypeOK == S!ServerTypeOK /\ B!BrokerTypeOK /\ M!BusTypeOK

(* No sandboxed process reaches another through the broker, nor asks the   *)
(* broker for anything that needs a capability.                            *)
SandboxConfined == B!NoDirectTraffic /\ S!NothingPrivileged

(* The table of clients names only connections that are served.            *)
ListedIsServed == S!ListedIsServed

(* An answer finds a requester that still waits.                           *)
WaitingIsPending == M!WaitingIsPending

(* Every closed connection is seen to its end, every crash leads to a      *)
(* respawn or to a verdict, every route on the bus ends.                   *)
EverythingResolves == S!ClosedEnds /\ B!CrashedResolves /\ M!RoutesEnd
=============================================================================
