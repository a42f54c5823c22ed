----------------------------- MODULE IpcServer ------------------------------
(***************************************************************************)
(* The broker's end of the local socket, kitsune-ipc/src/transport.rs: one *)
(* task per connection, which waits for a first message that names a role, *)
(* enters the connection in the table of clients, forwards what the role   *)
(* may send to the broker's channel, and removes the role's entry when the *)
(* connection ends.  send_to looks the table up and keeps its lock while   *)
(* it writes to the client's socket.                                       *)
(*                                                                         *)
(* A client opens its connection, sends, closes; it may come back under    *)
(* the same role with a new connection before the end of the old one is    *)
(* seen.  The wire keeps what was sent before the close.                   *)
(***************************************************************************)
EXTENDS Naturals, Sequences, IpcMessages

CONSTANTS
  Conns,     \* connections
  NoConn,    \* none of them
  Names,     \* what clients call themselves
  Sendable,  \* payloads clients try to send
  WireCap,   \* bound: messages in a socket
  TxCap      \* capacity of the channel to the broker

ServerAssumption ==
  /\ NoConn \notin Conns
  /\ Sendable \subseteq Payloads
  /\ {WireCap, TxCap} \subseteq Nat \ {0}

VARIABLES
  stage,    \* of the task that serves a connection
  role,     \* the role it was entered under
  closed,   \* the client closed its end
  wire,     \* sent by the client and not yet received
  clients,  \* the table: connection per role
  writing,  \* connection a send_to writes to, with the table locked
  tx        \* the channel to the broker

socket == <<closed, wire>>
vars == <<stage, role, socket, clients, writing, tx>>

Stages == {"unused", "hello", "reading", "leaving", "ended"}

Init ==
  /\ stage = [c \in Conns |-> "unused"]
  /\ role = [c \in Conns |-> "Renderer"]
  /\ closed = [c \in Conns |-> FALSE]
  /\ wire = [c \in Conns |-> <<>>]
  /\ clients = [r \in Roles |-> NoConn]
  /\ writing = NoConn
  /\ tx = <<>>

(* ------------------------------ the clients ---------------------------- *)

(* connect, and the server's accept.                                       *)
Connect(c) ==
  /\ stage[c] = "unused"
  /\ stage' = [stage EXCEPT ![c] = "hello"]
  /\ UNCHANGED <<role, socket, clients, writing, tx>>

ClientSends(c, payload) ==
  /\ stage[c] = "reading" /\ ~closed[c] /\ Len(wire[c]) < WireCap
  /\ wire' = [wire EXCEPT ![c] = Append(@, payload)]
  /\ UNCHANGED <<stage, role, closed, clients, writing, tx>>

ClientCloses(c) ==
  /\ stage[c] \in {"hello", "reading"} /\ ~closed[c]
  /\ closed' = [closed EXCEPT ![c] = TRUE]
  /\ UNCHANGED <<stage, role, wire, clients, writing, tx>>

(* ------------------------- a connection's task ------------------------- *)

Unlocked == writing = NoConn

(* The first message: only its sender's name counts.  The entry of an      *)
(* earlier connection of the role is replaced.                             *)
Hello(c, name) ==
  /\ stage[c] = "hello" /\ Unlocked
  /\ stage' = [stage EXCEPT ![c] = "reading"]
  /\ role' = [role EXCEPT ![c] = ParseRole(name)]
  /\ clients' = [clients EXCEPT ![ParseRole(name)] = c]
  /\ UNCHANGED <<socket, writing, tx>>

(* Closed before the first message: the task returns.                      *)
HelloFails(c) ==
  /\ stage[c] = "hello" /\ closed[c]
  /\ stage' = [stage EXCEPT ![c] = "ended"]
  /\ UNCHANGED <<role, socket, clients, writing, tx>>

Tell(c, what) ==
  /\ Len(tx) < TxCap
  /\ tx' = Append(tx, [role |-> role[c], payload |-> what])

(* A message is forwarded if the role may send it; the broker is told      *)
(* Error if not.                                                           *)
Receive(c) ==
  /\ stage[c] = "reading" /\ wire[c] # <<>>
  /\ Tell(c, IF Head(wire[c]) \in Permitted(role[c]) THEN Head(wire[c]) ELSE "Error")
  /\ wire' = [wire EXCEPT ![c] = Tail(@)]
  /\ UNCHANGED <<stage, role, closed, clients, writing>>

(* End of file: the broker is told Error.                                  *)
Eof(c) ==
  /\ stage[c] = "reading" /\ wire[c] = <<>> /\ closed[c]
  /\ Tell(c, "Error")
  /\ stage' = [stage EXCEPT ![c] = "leaving"]
  /\ UNCHANGED <<role, socket, clients, writing>>

(* Faulty: a connection that was garbled keeps its entry.                  *)
GarbledForgets(c) ==
  /\ stage[c] = "reading" /\ wire[c] # <<>>
  /\ stage' = [stage EXCEPT ![c] = "ended"]
  /\ UNCHANGED <<role, socket, clients, writing, tx>>

(* A message that cannot be decoded ends the connection without a word.    *)
Garbled(c) ==
  /\ stage[c] = "reading" /\ wire[c] # <<>>
  /\ stage' = [stage EXCEPT ![c] = "leaving"]
  /\ UNCHANGED <<role, socket, clients, writing, tx>>

(* The entry of the role goes, whichever connection it is.                 *)
Leave(c) ==
  /\ stage[c] = "leaving" /\ Unlocked
  /\ stage' = [stage EXCEPT ![c] = "ended"]
  /\ clients' = [clients EXCEPT ![role[c]] = NoConn]
  /\ UNCHANGED <<role, socket, writing, tx>>

(* ------------------------------- send_to ------------------------------- *)

(* No entry: Disconnected, and nothing changes.                            *)
SendTo(r) ==
  /\ Unlocked /\ clients[r] # NoConn
  /\ writing' = clients[r]
  /\ UNCHANGED <<stage, role, socket, clients, tx>>

(* The client has read, or its end is closed.                              *)
Written ==
  /\ ~Unlocked
  /\ writing' = NoConn
  /\ UNCHANGED <<stage, role, socket, clients, tx>>

ServerStep(c) ==
  \/ \E name \in Names : Hello(c, name)
  \/ HelloFails(c) \/ Receive(c) \/ Eof(c) \/ Garbled(c) \/ Leave(c)

ClientStep(c) ==
  Connect(c) \/ ClientCloses(c) \/ \E p \in Sendable : ClientSends(c, p)

(* external: the broker takes what the server tells it.                    *)
BrokerTakes ==
  /\ tx # <<>>
  /\ tx' = Tail(tx)
  /\ UNCHANGED <<stage, role, socket, clients, writing>>

ServerNext ==
  \/ \E c \in Conns : ServerStep(c) \/ ClientStep(c)
  \/ \E r \in Roles : SendTo(r)
  \/ Written \/ BrokerTakes

(* ------------------------------ properties ----------------------------- *)

(* The server's variables keep their types and the channel its capacity.   *)
ServerTypeOK ==
  /\ stage \in [Conns -> Stages] /\ role \in [Conns -> Roles]
  /\ closed \in [Conns -> BOOLEAN]
  /\ \A c \in Conns : Len(wire[c]) <= WireCap
  /\ clients \in [Roles -> Conns \cup {NoConn}]
  /\ writing \in Conns \cup {NoConn}
  /\ Len(tx) <= TxCap

(* The table never names a connection that has ended, however connections  *)
(* of one role overtake each other: send_to has a task at the other end.   *)
ListedIsServed ==
  \A r \in Roles : clients[r] # NoConn =>
    stage[clients[r]] \in {"reading", "leaving"} /\ role[clients[r]] = r

(* What the broker is told in the name of a sandboxed process is nothing   *)
(* that needs a capability: the table of the server and that of channels   *)
(* agree.                                                                  *)
NothingPrivileged ==
  \A i \in 1..Len(tx) :
    tx[i].role \in Sandboxed => RequiredCapability(tx[i].payload) = NoCapability

(* A client whose connection the server still reads can be sent to.        *)
ServedIsListed ==
  \A c \in Conns : stage[c] = "reading" => clients[role[c]] = c

(* The end of every connection is seen and its task ends, whatever the     *)
(* broker, the other connections and the sends do meanwhile.               *)
ClosedEnds == \A c \in Conns : closed[c] ~> stage[c] = "ended"
=============================================================================
