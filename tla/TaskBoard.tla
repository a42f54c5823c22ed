----------------------------- MODULE TaskBoard -----------------------------
(***************************************************************************)
(* What a swarm run promises, without coordinator loop, handles, permits   *)
(* or polling: tasks are started in dependency order, every task is        *)
(* started at most once, started tasks may complete, and the run is        *)
(* concluded once, with an answer built from completed tasks only.         *)
(* Swarm.tla implements this specification.                                *)
(***************************************************************************)
EXTENDS Naturals, Sequences

CONSTANTS
  TaskIds,    \* the ids a plan may use
  Plans       \* the plans the planner may answer with

VARIABLES
  board,      \* the accepted plan: a sequence of [id, deps]
  started,    \* positions of the board handed to a worker
  completed,  \* positions whose worker reported an answer
  verdict,    \* "none" until the run is concluded
  answer      \* positions whose outputs the final answer is built from

vars == <<board, started, completed, verdict, answer>>

NoBoard == <<>>

Verdicts == {"none", "Err", "EmptyPlan", "AllFailed", "Done"}

(* Ids of the tasks that are completed. *)
CompletedIds == {board[i].id : i \in completed}

Init ==
  /\ board = NoBoard
  /\ started = {}
  /\ completed = {}
  /\ verdict = "none"
  /\ answer = {}

(* The coordinator publishes (a prefix of) a plan, once. *)
Publish ==
  /\ verdict = "none"
  /\ board = NoBoard
  /\ \E p \in Plans : \E n \in 1..Len(p) : board' = SubSeq(p, 1, n)
  /\ UNCHANGED <<started, completed, verdict, answer>>

(* A task is started when an entry with its id has all dependencies met.   *)
Start(i) ==
  /\ verdict = "none"
  /\ i \in DOMAIN board \ started
  /\ \E j \in DOMAIN board : /\ board[j].id = board[i].id
                             /\ board[j].deps \subseteq CompletedIds
  /\ started' = started \cup {i}
  /\ UNCHANGED <<board, completed, verdict, answer>>

Complete(i) ==
  /\ i \in started
  /\ completed' = completed \cup {i}
  /\ UNCHANGED <<board, started, verdict, answer>>

(* The run ends; only "Done" carries an answer.                            *)
Conclude ==
  /\ verdict = "none"
  /\ verdict' \in Verdicts \ {"none"}
  /\ answer' \in SUBSET completed
  /\ verdict' # "Done" => answer' = {}
  /\ UNCHANGED <<board, started, completed>>

Next ==
  \/ Publish
  \/ \E i \in DOMAIN board : Start(i) \/ Complete(i)
  \/ Conclude

Spec == Init /\ [][Next]_vars

=============================================================================
