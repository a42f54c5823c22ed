----------------------------- MODULE SwarmCards -----------------------------
(***************************************************************************)
(* The swarm board of the window: a swarm announces its plan, its workers  *)
(* report what becomes of them, and the window folds all of it, from every *)
(* swarm, out of one queue into the one board it has.  The cards carry no  *)
(* worker id, so a report finds its card by the role.                      *)
(*                                                                         *)
(* Messages, tool calls and the log are left out; a worker is its swarm    *)
(* and its place in the plan.                                              *)
(***************************************************************************)
EXTENDS Naturals, Sequences

CONSTANTS
  Swarms, NoSwarm,
  Roles,      \* the planner's, and "Coordinator"
  Plans,      \* plans a model may make: sequences of roles
  Verdicts,   \* what a worker ends with: Completed, Failed or Cancelled
  MaxUpdates  \* bound on the channel

SwarmCardsAssumption ==
  /\ NoSwarm \notin Swarms /\ "Coordinator" \in Roles
  /\ Verdicts \subseteq {"Completed", "Failed", "Cancelled"}
  /\ Plans \subseteq Seq(Roles) \ {<<>>} /\ MaxUpdates \in Nat

VARIABLES
  plan,      \* the roles a swarm has announced
  reported,  \* per swarm, what each worker reported last
  ended,     \* swarms that are over
  overlap,   \* two swarms were live at once
  updates,   \* the events of swarms in the channel to the window
  shown,     \* swarm_state: the swarm whose plan is on the board
  cards,     \* its cards
  answer     \* the swarm whose answer is on the board

vars == <<plan, reported, ended, overlap, updates, shown, cards, answer>>

Statuses == {"Pending", "Running"} \cup Verdicts
Live(s) == plan[s] # <<>> /\ s \notin ended
Workers(s) == DOMAIN plan[s]

Init ==
  /\ plan = [s \in Swarms |-> <<>>] /\ reported = [s \in Swarms |-> <<>>]
  /\ ended = {} /\ overlap = FALSE /\ updates = <<>>
  /\ shown = NoSwarm /\ cards = <<>> /\ answer = NoSwarm

Emit(event) == Len(updates) < MaxUpdates /\ updates' = Append(updates, event)

PlanReady(s) ==
  /\ plan[s] = <<>> /\ s \notin ended
  /\ \E roles \in Plans :
       /\ plan' = [plan EXCEPT ![s] = roles]
       /\ reported' = [reported EXCEPT ![s] = [w \in DOMAIN roles |-> "Pending"]]
  /\ Emit([kind |-> "plan", swarm |-> s, role |-> "Coordinator", status |-> "Pending"])
  /\ overlap' = (overlap \/ \E r \in Swarms : Live(r))
  /\ UNCHANGED <<ended, shown, cards, answer>>

(* A worker starts or ends, and says so.                                   *)
Report(s, w, status) ==
  /\ Live(s) /\ w \in Workers(s)
  /\ \/ reported[s][w] = "Pending" /\ status = "Running"
     \/ reported[s][w] = "Running" /\ status \in Verdicts
  /\ reported' = [reported EXCEPT ![s][w] = status]
  /\ Emit([kind |-> "update", swarm |-> s, role |-> plan[s][w], status |-> status])
  /\ UNCHANGED <<plan, ended, overlap, shown, cards, answer>>

(* Before it plans, the coordinator says it runs.                          *)
CoordinatorSays(s) ==
  /\ plan[s] = <<>> /\ s \notin ended
  /\ \A n \in DOMAIN updates : updates[n].swarm # s
  /\ Emit([kind |-> "update", swarm |-> s, role |-> "Coordinator", status |-> "Running"])
  /\ UNCHANGED <<plan, reported, ended, overlap, shown, cards, answer>>

(* The swarm is over, with an answer or an error; what was still running   *)
(* was aborted or had panicked, and reported nothing.                      *)
SwarmEnds(s) ==
  /\ Live(s) /\ ended' = ended \cup {s}
  /\ \E kind \in {"done", "error"} :
       Emit([kind |-> kind, swarm |-> s, role |-> "Coordinator", status |-> "Pending"])
  /\ UNCHANGED <<plan, reported, overlap, shown, cards, answer>>

(* The card a report is for: the first one of its role.                    *)
CardFor(role) ==
  {n \in DOMAIN cards : cards[n].role = role /\ \A k \in 1..(n - 1) : cards[k].role # role}

(* One event is folded.  A plan replaces the board; updates and answers    *)
(* are booked on the board there is, whichever swarm they come from.       *)
Fold ==
  /\ updates # <<>> /\ updates' = Tail(updates)
  /\ LET e == Head(updates) IN
     CASE e.kind = "plan" ->
            /\ shown' = e.swarm /\ answer' = NoSwarm
            /\ cards' = [n \in DOMAIN plan[e.swarm] |->
                           [role |-> plan[e.swarm][n], status |-> "Pending"]]
       [] e.kind = "update" ->
            /\ cards' = [n \in DOMAIN cards |->
                           IF n \in CardFor(e.role)
                           THEN [cards[n] EXCEPT !.status = e.status] ELSE cards[n]]
            /\ UNCHANGED <<shown, answer>>
       [] e.kind = "done" ->
            /\ answer' = IF shown = NoSwarm THEN NoSwarm ELSE e.swarm
            /\ UNCHANGED <<shown, cards>>
       [] OTHER -> UNCHANGED <<shown, cards, answer>>
  /\ UNCHANGED <<plan, reported, ended, overlap>>

SwarmCardsNext ==
  \/ Fold
  \/ \E s \in Swarms :
       \/ CoordinatorSays(s) \/ PlanReady(s) \/ SwarmEnds(s)
       \/ \E w \in Workers(s), status \in Statuses : Report(s, w, status)

SwarmCardsSpec == Init /\ [][SwarmCardsNext]_vars

(* ------------------------------ properties ----------------------------- *)

SwarmCardsTypeOK ==
  /\ plan \in [Swarms -> Seq(Roles)] /\ reported \in [Swarms -> Seq(Statuses)]
  /\ ended \subseteq Swarms /\ overlap \in BOOLEAN
  /\ updates \in Seq([kind : {"plan", "update", "done", "error"}, swarm : Swarms,
                      role : Roles, status : Statuses])
  /\ shown \in Swarms \cup {NoSwarm} /\ answer \in Swarms \cup {NoSwarm}
  /\ cards \in Seq([role : Roles, status : Statuses])

(* The role names one worker of all swarms, and no coordinator.            *)
Unambiguous(role) ==
  /\ role # "Coordinator"
  /\ \A s, r \in Swarms : \A v \in Workers(s), w \in Workers(r) :
       plan[s][v] = role /\ plan[r][w] = role => s = r /\ v = w

(* When the queue is drained, the board shows what the workers of its      *)
(* swarm reported, as far as their roles tell them apart, and no answer of *)
(* another swarm unless two were live at once.                             *)
CardsTellTheTruth ==
  updates = <<>> /\ shown # NoSwarm =>
    /\ \A n \in DOMAIN cards :
         Unambiguous(cards[n].role) => cards[n].status = reported[shown][n]
    /\ answer = NoSwarm \/ answer = shown \/ overlap
=============================================================================
