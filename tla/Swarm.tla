------------------------------- MODULE Swarm -------------------------------
(***************************************************************************)
(* One run of the agent swarm: SwarmCoordinator::run                       *)
(* (kitsune-agent/src/swarm/coordinator.rs) and the SwarmWorker::run       *)
(* futures it spawns (swarm/worker.rs), sharing the task table behind an   *)
(* RwLock, a semaphore and the user's stop flag.  Each action is what a    *)
(* future does between two awaits at which another one can interfere.      *)
(*                                                                         *)
(* The task table is a Vec searched with `find`, so a task is the position *)
(* of its entry, and an id denotes the first position that carries it.     *)
(***************************************************************************)
EXTENDS Naturals, Sequences, FiniteSets

CONSTANTS
  TaskIds,              \* ids the planner uses, for tasks and dependencies
  Plans,                \* the plans it may answer: sequences of [id, deps]
  MaxWorkers,           \* SwarmConfig::max_workers, made >= 1 by the panel
  EnableReconciliation  \* SwarmConfig::enable_reconciliation

ASSUME SwarmAssumption ==
  /\ Plans \subseteq Seq([id : TaskIds, deps : SUBSET TaskIds])
  /\ MaxWorkers \in Nat \ {0}
  /\ EnableReconciliation \in BOOLEAN

VARIABLES
  pc,         \* where the coordinator is in its loop
  plan,       \* the accepted (truncated) plan
  status,     \* shared task table: status of each position
  worker,     \* life of the worker future of each position
  handles,    \* keys of the coordinator's JoinHandle map
  aborted,    \* positions whose handle a stop drained and aborted
  batch,      \* the ids being processed: finished_ids, then ready_ids
  permits,    \* free permits of the semaphore
  outputs,    \* completed_outputs, as positions in the order collected
  stop,       \* the user's stop flag
  outcome,    \* how the run ended
  delivered   \* positions whose outputs are in the final answer

shared == <<status, worker, permits>>
loopVars == <<handles, aborted, batch, outputs>>
endVars == <<outcome, delivered>>
vars == <<pc, plan, shared, loopVars, stop, endVars>>

Statuses == {"Pending", "Running", "Completed", "Failed", "Cancelled"}
Terminal == {"Completed", "Failed", "Cancelled"}

(* "told": the agent loop has seen the stop flag; "saved*": the result is  *)
(* in the table, the future has not returned yet; "ok", "err", "panicked": *)
(* finished; "dropped": cancelled by abort.                                *)
Phases == {"idle", "running", "told", "savedOk", "savedErr", "ok", "err",
           "panicked", "dropped"}

Points == {"plan", "replan", "poll", "cancel", "reap", "spawn", "acquire",
           "finish", "reconcile", "end"}

Outcomes == {"none", "Err", "EmptyPlan", "AllFailed", "Done"}

Tasks == DOMAIN plan

(* The positions `iter().find(|t| t.id == id)` can return.                 *)
Leads == {i \in Tasks : \A j \in Tasks : j < i => plan[j].id # plan[i].id}

Active == {i \in Tasks : worker[i] \in {"running", "told", "savedOk", "savedErr"}}

Finished == {i \in Tasks : worker[i] \in {"ok", "err", "panicked"}}

CompletedIds == {plan[i].id : i \in {j \in Tasks : status[j] = "Completed"}}

(* Faulty: one met dependency is enough.                                   *)
ReadyEntriesAnyDep ==
  {i \in Tasks : /\ status[i] = "Pending"
                 /\ \A h \in handles : plan[h].id # plan[i].id
                 /\ \/ plan[i].deps = {}
                    \/ plan[i].deps \cap CompletedIds # {}}

(* Faulty: the completed set is built while the table is scanned.          *)
ReadyEntriesOneScan ==
  {i \in Tasks : /\ status[i] = "Pending"
                 /\ \A h \in handles : plan[h].id # plan[i].id
                 /\ \A d \in plan[i].deps :
                      \E j \in 1..(i - 1) : plan[j].id = d /\ status[j] = "Completed"}

(* Positions a pass of the loop selects ... *)
ReadyEntries ==
  {i \in Tasks : /\ status[i] = "Pending"
                 /\ \A h \in handles : plan[h].id # plan[i].id
                 /\ plan[i].deps \subseteq CompletedIds}

(* ... and the entries their ids then denote.                              *)
ReadyTasks == {i \in Leads : \E j \in ReadyEntries : plan[j].id = plan[i].id}

AllTerminal == \A i \in Tasks : status[i] \in Terminal

(* Faulty: a long plan is not cut.                                         *)
TruncatedNever(p) == p

Truncated(p) == IF Len(p) > MaxWorkers THEN SubSeq(p, 1, MaxWorkers) ELSE p

(* ------------------------------ planning ------------------------------ *)

Init ==
  /\ pc = "plan"
  /\ plan = <<>>
  /\ status = [i \in Tasks |-> "Pending"]
  /\ worker = [i \in Tasks |-> "idle"]
  /\ handles = {} /\ aborted = {} /\ batch = {}
  /\ permits = MaxWorkers
  /\ outputs = <<>>
  /\ stop = FALSE
  /\ outcome = "none" /\ delivered = {}

(* The answer parses: an empty plan ends the run, any other is truncated,  *)
(* published and put in the shared table.                                  *)
PlanParsed(p) ==
  /\ pc \in {"plan", "replan"}
  /\ IF p = <<>>
     THEN /\ pc' = "end" /\ outcome' = "EmptyPlan"
          /\ UNCHANGED <<plan, status, worker>>
     ELSE /\ pc' = "poll"
          /\ plan' = Truncated(p)
          /\ status' = [i \in DOMAIN plan' |-> "Pending"]
          /\ worker' = [i \in DOMAIN plan' |-> "idle"]
          /\ UNCHANGED outcome
  /\ UNCHANGED <<permits, loopVars, stop, delivered>>

(* One corrective retry when the first answer does not parse.              *)
PlanUnparsable ==
  /\ pc = "plan"
  /\ pc' = "replan"
  /\ UNCHANGED <<plan, shared, loopVars, stop, endVars>>

(* LLM error, or the retry does not parse either.                          *)
PlanFailed ==
  /\ pc \in {"plan", "replan"}
  /\ pc' = "end" /\ outcome' = "Err"
  /\ UNCHANGED <<plan, shared, loopVars, stop, delivered>>

(* ---------------------------- the main loop --------------------------- *)

(* Faulty: stop is looked at only while a worker has a handle.             *)
StopSeenWithHandles ==
  /\ pc = "poll" /\ stop /\ handles # {}
  /\ pc' = "cancel"
  /\ aborted' = handles
  /\ handles' = {}
  /\ UNCHANGED <<plan, shared, batch, outputs, stop, endVars>>

(* Top of the loop with the stop flag set: every handle is drained and     *)
(* aborted, whether or not its worker has finished.                        *)
StopSeen ==
  /\ pc = "poll" /\ stop
  /\ pc' = "cancel"
  /\ aborted' = handles
  /\ handles' = {}
  /\ UNCHANGED <<plan, shared, batch, outputs, stop, endVars>>

(* Faulty: the sweep takes every task without an answer.                   *)
CancelTasksFailedToo ==
  /\ pc = "cancel"
  /\ status' = [i \in Tasks |-> IF status[i] = "Completed" THEN status[i] ELSE "Cancelled"]
  /\ pc' = "finish"
  /\ UNCHANGED <<plan, worker, permits, loopVars, stop, endVars>>

(* Then, after waiting for the write lock, what is not terminal becomes    *)
(* Cancelled and the loop is left.                                         *)
CancelTasks ==
  /\ pc = "cancel"
  /\ status' = [i \in Tasks |-> IF status[i] \in {"Running", "Pending"}
                                THEN "Cancelled" ELSE status[i]]
  /\ pc' = "finish"
  /\ UNCHANGED <<plan, worker, permits, loopVars, stop, endVars>>

(* Top of the loop otherwise: snapshot of the finished handles.            *)
CollectFinished ==
  /\ pc = "poll" /\ ~stop
  /\ batch' = handles \cap Finished
  /\ pc' = "reap"
  /\ UNCHANGED <<plan, shared, handles, aborted, outputs, stop, endVars>>

Reaping(i) ==
  /\ pc = "reap" /\ i \in batch
  /\ batch' = batch \ {i}
  /\ handles' = handles \ {i}
  /\ UNCHANGED <<pc, plan, worker, permits, aborted, stop, endVars>>

(* Faulty: the output is kept only if the table still says Running.        *)
ReapOkIfRunning(i) ==
  /\ Reaping(i)
  /\ worker[i] = "ok"
  /\ status' = [status EXCEPT ![i] = "Completed"]
  /\ outputs' = IF status[i] = "Running" THEN Append(outputs, i) ELSE outputs

ReapOk(i) ==
  /\ Reaping(i)
  /\ worker[i] = "ok"
  /\ status' = [status EXCEPT ![i] = "Completed"]
  /\ outputs' = Append(outputs, i)

(* Any worker error, the worker's own Cancelled included, becomes Failed.  *)
ReapErr(i) ==
  /\ Reaping(i)
  /\ worker[i] = "err"
  /\ status' = [status EXCEPT ![i] = "Failed"]
  /\ UNCHANGED outputs

(* `Err(_) => {}`: the table is not touched when the worker panicked.      *)
ReapPanic(i) ==
  /\ Reaping(i)
  /\ worker[i] = "panicked"
  /\ UNCHANGED <<status, outputs>>

SelectReady ==
  /\ pc = "reap" /\ batch = {}
  /\ batch' = ReadyTasks
  /\ pc' = "spawn"
  /\ UNCHANGED <<plan, shared, handles, aborted, outputs, stop, endVars>>

(* The ready ids are handled in table order.                               *)
NextReady(i) == i \in batch /\ \A j \in batch : i <= j

(* Faulty: the claim trusts the snapshot and does not re-read the status.  *)
ClaimUnchecked(i) ==
  /\ pc = "spawn" /\ NextReady(i)
  /\ status' = [status EXCEPT ![i] = "Running"]
  /\ pc' = "acquire"
  /\ UNCHANGED <<plan, worker, permits, loopVars, stop, endVars>>

(* The entry is re-read under the write lock and claimed if Pending.       *)
Claim(i) ==
  /\ pc = "spawn" /\ NextReady(i)
  /\ IF status[i] = "Pending"
     THEN /\ status' = [status EXCEPT ![i] = "Running"]
          /\ pc' = "acquire"
          /\ UNCHANGED batch
     ELSE /\ batch' = batch \ {i}
          /\ UNCHANGED <<pc, status>>
  /\ UNCHANGED <<plan, worker, permits, handles, aborted, outputs, stop, endVars>>

(* acquire_owned().await waits for a permit, which moves into the worker.  *)
Spawn(i) ==
  /\ pc = "acquire" /\ NextReady(i)
  /\ permits > 0
  /\ permits' = permits - 1
  /\ worker' = [worker EXCEPT ![i] = "running"]
  /\ handles' = handles \cup {i}
  /\ batch' = batch \ {i}
  /\ pc' = "spawn"
  /\ UNCHANGED <<plan, status, aborted, outputs, stop, endVars>>

(* End of a pass: leave when nothing is left to run or to reap, otherwise  *)
(* sleep and start over.                                                   *)
EndPass ==
  /\ pc = "spawn" /\ batch = {}
  /\ pc' = IF AllTerminal /\ handles = {} THEN "finish" ELSE "poll"
  /\ UNCHANGED <<plan, shared, loopVars, stop, endVars>>

(* ------------------------------ the answer ---------------------------- *)

(* No output was collected: SwarmError "All workers failed", and an error. *)
FinishEmpty ==
  /\ pc = "finish" /\ outputs = <<>>
  /\ pc' = "end" /\ outcome' = "AllFailed"
  /\ UNCHANGED <<plan, shared, loopVars, stop, delivered>>

(* Without reconciliation, or with one output, the first is the answer.    *)
FinishFirst ==
  /\ pc = "finish" /\ outputs # <<>>
  /\ ~ (EnableReconciliation /\ Len(outputs) > 1)
  /\ pc' = "end" /\ outcome' = "Done"
  /\ delivered' = {outputs[1]}
  /\ UNCHANGED <<plan, shared, loopVars, stop>>

BeginReconcile ==
  /\ pc = "finish"
  /\ EnableReconciliation /\ Len(outputs) > 1
  /\ pc' = "reconcile"
  /\ UNCHANGED <<plan, shared, loopVars, stop, endVars>>

(* The synthesis call answers, or fails and its error text is the answer.  *)
Reconciled ==
  /\ pc = "reconcile"
  /\ pc' = "end" /\ outcome' = "Done"
  /\ \/ delivered' = {outputs[k] : k \in DOMAIN outputs}
     \/ delivered' = {}
  /\ UNCHANGED <<plan, shared, loopVars, stop>>

(* ------------------------------ the workers --------------------------- *)

(* The agent loop polls the flag at the top of a turn and is told to stop, *)
(* which it remembers even if the next Run clears the flag.                *)
SeesStop(i) ==
  /\ i \in Tasks /\ worker[i] = "running" /\ stop
  /\ worker' = [worker EXCEPT ![i] = "told"]
  /\ UNCHANGED <<pc, plan, status, permits, loopVars, stop, endVars>>

(* runtime.run under the worker timeout has produced result r, which the   *)
(* worker writes in the table: Cancelled if it was told to stop; Failed    *)
(* stands for every other error and for the timeout.  An aborted worker    *)
(* can still do this: abort takes effect at its next await.                *)
Report(i, r) ==
  /\ i \in Tasks /\ worker[i] = IF r = "Cancelled" THEN "told" ELSE "running"
  /\ status' = [status EXCEPT ![i] = r]
  /\ worker' = [worker EXCEPT ![i] = IF r = "Completed" THEN "savedOk" ELSE "savedErr"]
  /\ UNCHANGED <<pc, plan, permits, loopVars, stop, endVars>>

(* The future returns: permit dropped, handle finished.                    *)
Exit(i) ==
  /\ i \in Tasks /\ worker[i] \in {"savedOk", "savedErr"}
  /\ worker' = [worker EXCEPT ![i] = IF @ = "savedOk" THEN "ok" ELSE "err"]
  /\ permits' = permits + 1
  /\ UNCHANGED <<pc, plan, status, loopVars, stop, endVars>>

(* The future unwinds; the permit goes with it, the table is not updated.  *)
Panic(i) ==
  /\ i \in Tasks /\ worker[i] \in {"running", "told"}
  /\ worker' = [worker EXCEPT ![i] = "panicked"]
  /\ permits' = permits + 1
  /\ UNCHANGED <<pc, plan, status, loopVars, stop, endVars>>

(* The runtime drops an aborted future at an await.                        *)
Drop(i) ==
  /\ i \in aborted \cap Active
  /\ worker' = [worker EXCEPT ![i] = "dropped"]
  /\ permits' = permits + 1
  /\ UNCHANGED <<pc, plan, status, loopVars, stop, endVars>>

(* The user presses Stop.                                                  *)
PressStop ==
  /\ ~stop /\ pc # "end"
  /\ stop' = TRUE
  /\ UNCHANGED <<pc, plan, shared, loopVars, endVars>>

(* The next Run clears the flag, which all runs share, whoever has looked. *)
PressRun ==
  /\ stop /\ stop' = FALSE
  /\ UNCHANGED <<pc, plan, shared, loopVars, endVars>>

(* ---------------------------- specification --------------------------- *)

Planning == PlanUnparsable \/ PlanFailed \/ \E p \in Plans : PlanParsed(p)

Loop ==
  \/ StopSeen \/ CancelTasks \/ CollectFinished
  \/ \E i \in batch : ReapOk(i) \/ ReapErr(i) \/ ReapPanic(i)
  \/ SelectReady
  \/ \E i \in batch : Claim(i) \/ Spawn(i)
  \/ EndPass

Finish == FinishEmpty \/ FinishFirst \/ BeginReconcile \/ Reconciled

Coordinator == Planning \/ Loop \/ Finish

Worker(i) ==
  \/ \E r \in {"Completed", "Failed", "Cancelled"} : Report(i, r)
  \/ SeesStop(i)
  \/ Exit(i)
  \/ Panic(i)
  \/ Drop(i)

(* Positions are at most MaxWorkers because the plan is truncated.         *)
Slots == 1..MaxWorkers

(* The run is over and no future of it is left.                            *)
Over == pc = "end" /\ Active = {} /\ UNCHANGED vars

Next == Coordinator \/ (\E i \in Slots : Worker(i)) \/ PressStop \/ PressRun \/ Over

Spec == Init /\ [][Next]_vars

(* The coordinator is a scheduled future whose LLM calls time out; every   *)
(* worker is one too, and runs under worker_timeout.  The user is not fair.*)
Fairness ==
  /\ WF_vars(Coordinator)
  /\ \A i \in Slots : WF_vars(Worker(i))

FairSpec == Spec /\ Fairness

(* ------------------------------ properties ---------------------------- *)

(* Type invariant: the table, the futures and the handle map always range  *)
(* over the positions of the accepted plan.                                *)
TypeOK ==
  /\ pc \in Points
  /\ plan \in Seq([id : TaskIds, deps : SUBSET TaskIds])
  /\ Len(plan) <= MaxWorkers
  /\ status \in [Tasks -> Statuses]
  /\ worker \in [Tasks -> Phases]
  /\ handles \subseteq Tasks /\ aborted \subseteq Tasks /\ batch \subseteq Tasks
  /\ permits \in Nat
  /\ outputs \in Seq(Tasks)
  /\ stop \in BOOLEAN
  /\ outcome \in Outcomes
  /\ delivered \subseteq Tasks

Started == {i \in Tasks : worker[i] # "idle"}

Collected == {outputs[k] : k \in DOMAIN outputs}

(* A worker only ever runs for an id of which some table entry had all its *)
(* dependencies completed (coordinator.rs 169-186), and these dependencies *)
(* are still Completed however the run went on.                            *)
DependenciesFirst ==
  \A i \in Started : \E j \in Tasks : /\ plan[j].id = plan[i].id
                                      /\ plan[j].deps \subseteq CompletedIds

(* The coordinator's acquire_owned().await (coordinator.rs 200) never      *)
(* waits: while it waits it would see neither the stop flag nor finished   *)
(* workers, so a permit must be free whenever it asks for one.             *)
PermitReady == pc = "acquire" => permits > 0

(* Every Completed task is accounted for: its output was collected, or its *)
(* handle is still in the map, or a stop threw the handle away. Nothing is *)
(* lost in the window between a worker's own table write (worker.rs 143)   *)
(* and the reaping of its handle (coordinator.rs 148-156).                 *)
NoOutputLost ==
  \A i \in Tasks : status[i] = "Completed" => i \in Collected \cup handles \cup aborted

(* When the run has ended no worker is left running, except the ones a     *)
(* stop aborted: leaving the loop requires an empty handle map (line 238). *)
NoOrphanWorker == pc \in {"finish", "reconcile", "end"} => Active \subseteq aborted

(* An answer is only built from outputs of tasks the table still calls     *)
(* Completed, and no output is used twice.                                 *)
AnswerFromCompleted ==
  /\ \A i \in Collected : status[i] = "Completed"
  /\ \A k, l \in DOMAIN outputs : outputs[k] = outputs[l] => k = l
  /\ delivered \subseteq Collected

(* What the workers made is neither lost, nor left behind, nor used twice. *)
OutputsKept == NoOutputLost /\ NoOrphanWorker /\ AnswerFromCompleted

(* No task is handed to a second worker, whatever the plan repeats and     *)
(* whichever of coordinator and worker wrote its status last.              *)
SpawnedOnce ==
  [][\A i \in Tasks : worker'[i] = "running" => worker[i] \in {"idle", "running"}]_vars

(* Completed and Failed are final: neither the reaping of the handle nor   *)
(* the sweep of a stop rewrites the verdict a worker recorded.             *)
VerdictsStand ==
  [][\A i \in Tasks : status[i] \in {"Completed", "Failed"} => status'[i] = status[i]]_vars

(* A Stop that no later Run undoes ends the run, even one that is waiting  *)
(* for tasks that can never become ready, or whose workers were told of an *)
(* earlier Stop that the coordinator did not see.                          *)
StopEndsRun == stop ~> (pc = "end" \/ ~stop)

(* A plan the dispatch loop can finish: ids are distinct and dependencies  *)
(* can be ranked within the plan.                                          *)
Runnable(p) ==
  /\ \A i, j \in DOMAIN p : p[i].id = p[j].id => i = j
  /\ \E rank \in [DOMAIN p -> DOMAIN p] :
       \A i \in DOMAIN p : \A d \in p[i].deps :
         \E j \in DOMAIN p : p[j].id = d /\ rank[j] < rank[i]

NoneFailed ==
  \A i \in Tasks : status[i] # "Failed" /\ worker[i] # "panicked"

(* With a runnable plan and workers that all succeed the run ends by       *)
(* itself, whatever the order in which workers finish and are reaped.      *)
HealthyRunEnds == [](Runnable(plan) /\ NoneFailed) => <>(pc = "end")

(* The run implements the task board.                                      *)
Board == INSTANCE TaskBoard
           WITH board <- plan,
                started <- Started,
                completed <- {i \in Tasks : status[i] = "Completed"},
                verdict <- outcome,
                answer <- delivered

ImplementsBoard == Board!Spec

(* ---------------- what comments and tests say of the run --------------- *)

(* swarm/mod.rs 2: "plan -> dispatch -> reconcile -> done"; here even if   *)
(* no worker panics.                                                       *)
RunEnds == [](\A i \in Tasks : worker[i] # "panicked") => <>(pc = "end")

=============================================================================
