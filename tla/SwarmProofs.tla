---------------------------- MODULE SwarmProofs ----------------------------
(***************************************************************************)
(* Proofs about the swarm for every set of plans and every worker limit.   *)
(* The inductive invariant relates the three records the code keeps of a   *)
(* task: its entry in the table, its future, and the permit it holds.      *)
(***************************************************************************)
EXTENDS Swarm, FiniteSetTheorems, SequenceTheorems, TLAPS

(* Until a plan is accepted the table is empty.                            *)
Unplanned == pc \in {"plan", "replan"} => plan = <<>>

(* What the table may say of a task in each phase of its future.           *)
TableMatchesWorkers ==
  \A i \in Tasks :
    /\ worker[i] # "idle" => status[i] # "Pending"
    /\ worker[i] \in {"running", "told"} => status[i] \in {"Running", "Cancelled"}
    /\ worker[i] \in {"savedOk", "ok"} => status[i] = "Completed"
    /\ worker[i] \in {"savedErr", "err"} => status[i] \in {"Failed", "Cancelled"}

(* Permits are free or held by a live future.                              *)
PermitsBalance == permits + Cardinality(Active) = MaxWorkers

(* The claimed task has no future yet.                                     *)
ClaimedIsIdle ==
  pc = "acquire" => \E i \in batch : /\ \A j \in batch : i <= j
                                     /\ worker[i] = "idle"
                                     /\ status[i] = "Running"

(* What was selected as ready stays ready.                                 *)
BatchReady ==
  pc \in {"spawn", "acquire"} =>
    \A i \in batch : \E j \in Tasks : /\ plan[j].id = plan[i].id
                                      /\ plan[j].deps \subseteq CompletedIds

IInv ==
  /\ TypeOK
  /\ Unplanned
  /\ TableMatchesWorkers
  /\ PermitsBalance
  /\ ClaimedIsIdle
  /\ BatchReady
  /\ DependenciesFirst

-----------------------------------------------------------------------------

(* A truncated plan is a plan of at most MaxWorkers entries, and is not    *)
(* empty unless the answer was.                                            *)
LEMMA TruncatedFits ==
  ASSUME NEW p \in Plans, p # <<>>
  PROVE  /\ Truncated(p) \in Seq([id : TaskIds, deps : SUBSET TaskIds])
         /\ Len(Truncated(p)) \in 1..MaxWorkers
<1> DEFINE Entries == [id : TaskIds, deps : SUBSET TaskIds]
<1>1. p \in Seq(Entries) /\ MaxWorkers \in Nat \ {0}
  BY SwarmAssumption
<1>2. Len(p) \in Nat \ {0}
  BY <1>1
<1>3. CASE Len(p) > MaxWorkers
  <2>1. \A i \in 1..MaxWorkers : p[i] \in Entries
    <3> HIDE DEF Entries
    <3> TAKE i \in 1..MaxWorkers
    <3>1. i \in 1..Len(p)
      BY <1>1, <1>2, <1>3
    <3> QED
      BY <1>1, <3>1, ElementOfSeq
  <2>2. /\ SubSeq(p, 1, MaxWorkers) \in Seq(Entries)
        /\ Len(SubSeq(p, 1, MaxWorkers)) = IF 1 <= MaxWorkers THEN MaxWorkers - 1 + 1 ELSE 0
    BY <1>1, <2>1, SubSeqProperties
  <2> QED
    BY <1>1, <1>3, <2>2 DEF Truncated
<1>4. CASE ~ (Len(p) > MaxWorkers)
  BY <1>1, <1>2, <1>4 DEF Truncated
<1> QED
  BY <1>3, <1>4

LEMMA InitTyped == Init => TypeOK /\ Unplanned
<1> SUFFICES ASSUME Init
             PROVE  TypeOK /\ Unplanned
  OBVIOUS
<1>1. plan = <<>> /\ Len(plan) = 0 /\ MaxWorkers \in Nat
  BY SwarmAssumption DEF Init
<1>2. status \in [Tasks -> Statuses] /\ worker \in [Tasks -> Phases]
  BY DEF Init, Statuses, Phases
<1>3. plan \in Seq([id : TaskIds, deps : SUBSET TaskIds]) /\ outputs \in Seq(Tasks)
  BY DEF Init
<1>4. Len(plan) <= MaxWorkers /\ permits \in Nat
  BY <1>1 DEF Init
<1> QED
  BY <1>2, <1>3, <1>4 DEF Init, TypeOK, Unplanned, Points, Outcomes

(* Every step keeps the variables in range.                                *)
LEMMA StepTyped == TypeOK /\ Unplanned /\ [Next]_vars => TypeOK' /\ Unplanned'
<1> SUFFICES ASSUME TypeOK, Unplanned, [Next]_vars
             PROVE  TypeOK' /\ Unplanned'
  OBVIOUS
<1> USE DEF TypeOK, Unplanned, Tasks, Points, Statuses, Phases, Outcomes,
            shared, loopVars, endVars
<1>1. ASSUME NEW p \in Plans, PlanParsed(p)
      PROVE  TypeOK' /\ Unplanned'
  <2>1. plan = <<>> /\ outputs = <<>> /\ handles = {} /\ aborted = {} /\ batch = {} /\ delivered = {}
    BY <1>1 DEF PlanParsed
  <2>2. CASE p = <<>>
    BY <1>1, <2>2 DEF PlanParsed
  <2>3. CASE p # <<>>
    <3>1. plan' \in Seq([id : TaskIds, deps : SUBSET TaskIds]) /\ Len(plan') \in 1..MaxWorkers
      BY <1>1, <2>3, TruncatedFits DEF PlanParsed
    <3>2. Len(plan') <= MaxWorkers
      BY <3>1, SwarmAssumption
    <3>3. status' \in [Tasks' -> Statuses] /\ worker' \in [Tasks' -> Phases]
      BY <1>1, <2>3 DEF PlanParsed
    <3>4. outputs' \in Seq(Tasks')
      BY <1>1, <2>1 DEF PlanParsed
    <3> QED
      BY <1>1, <2>1, <2>3, <3>1, <3>2, <3>3, <3>4 DEF PlanParsed
  <2> QED
    BY <2>2, <2>3
<1>2. CASE PlanUnparsable
  BY <1>2 DEF PlanUnparsable
<1>3. CASE PlanFailed
  BY <1>3 DEF PlanFailed
<1>4. CASE StopSeen
  BY <1>4 DEF StopSeen
<1>5. CASE CancelTasks
  BY <1>5 DEF CancelTasks
<1>6. CASE CollectFinished
  BY <1>6 DEF CollectFinished, Finished
<1>7. ASSUME NEW i \in batch, ReapOk(i) \/ ReapErr(i) \/ ReapPanic(i)
      PROVE  TypeOK' /\ Unplanned'
  <2>1. i \in Tasks /\ (outputs' = outputs \/ outputs' = Append(outputs, i))
    BY <1>7 DEF ReapOk, ReapErr, ReapPanic, Reaping
  <2>2. status' \in [Tasks -> Statuses]
    BY <1>7 DEF ReapOk, ReapErr, ReapPanic, Reaping
  <2>3. outputs' \in Seq(Tasks)
    <3>1. outputs \in Seq(Tasks)
      BY DEF TypeOK
    <3>2. Append(outputs, i) \in Seq(Tasks)
      BY <2>1, <3>1, AppendProperties
    <3> QED
      BY <2>1, <3>1, <3>2
  <2> QED
    BY <1>7, <2>1, <2>2, <2>3 DEF ReapOk, ReapErr, ReapPanic, Reaping
<1>8. CASE SelectReady
  BY <1>8 DEF SelectReady, ReadyTasks, Leads
<1>9. ASSUME NEW i \in batch, Claim(i)
      PROVE  TypeOK' /\ Unplanned'
  BY <1>9 DEF Claim
<1>10. ASSUME NEW i \in batch, Spawn(i)
       PROVE  TypeOK' /\ Unplanned'
  BY <1>10 DEF Spawn, NextReady
<1>11. CASE EndPass
  BY <1>11 DEF EndPass
<1>12. CASE Finish
  <2>1. CASE FinishEmpty
    BY <2>1 DEF FinishEmpty
  <2>2. CASE FinishFirst
    BY <2>2 DEF FinishFirst
  <2>3. CASE BeginReconcile
    BY <2>3 DEF BeginReconcile
  <2>4. CASE Reconciled
    BY <2>4 DEF Reconciled
  <2> QED
    BY <1>12, <2>1, <2>2, <2>3, <2>4 DEF Finish
<1>13. ASSUME NEW i \in Slots, Worker(i)
       PROVE  TypeOK' /\ Unplanned'
  <2>1. CASE \E r \in {"Completed", "Failed", "Cancelled"} : Report(i, r)
    BY <2>1 DEF Report
  <2>2. CASE Exit(i)
    BY <2>2 DEF Exit
  <2>3. CASE Panic(i)
    BY <2>3 DEF Panic
  <2>4. CASE Drop(i)
    BY <2>4 DEF Drop, Active
  <2>5. CASE SeesStop(i)
    BY <2>5 DEF SeesStop
  <2> QED
    BY <1>13, <2>1, <2>2, <2>3, <2>4, <2>5 DEF Worker
<1>14. CASE PressStop \/ PressRun
  BY <1>14 DEF PressStop, PressRun
<1>15. CASE UNCHANGED vars
  BY <1>15 DEF vars
<1>16. CASE Over
  BY <1>15, <1>16 DEF Over
<1> QED
  BY <1>1, <1>2, <1>3, <1>4, <1>5, <1>6, <1>7, <1>8, <1>9, <1>10, <1>11, <1>12,
     <1>13, <1>14, <1>15, <1>16 DEF Next, Coordinator, Planning, Loop

(* The variables stay in range in every run.                               *)
THEOREM SwarmTyped == Spec => []TypeOK
<1>1. Init => TypeOK /\ Unplanned
  BY InitTyped
<1>2. TypeOK /\ Unplanned /\ [Next]_vars => (TypeOK /\ Unplanned)'
  BY StepTyped
<1> QED
  BY <1>1, <1>2, PTL DEF Spec

-----------------------------------------------------------------------------

(* The steps that touch the table, a future or a permit; every other step  *)
(* is bookkeeping of the coordinator or the user's.                        *)
LEMMA StepCases ==
  ASSUME [Next]_vars
  PROVE  \/ \E p \in Plans : PlanParsed(p)
         \/ CancelTasks
         \/ \E i \in batch : ReapOk(i) \/ ReapErr(i) \/ ReapPanic(i)
         \/ \E i \in batch : Claim(i) \/ Spawn(i)
         \/ \E i \in Slots : Worker(i)
         \/ UNCHANGED <<plan, status, worker, permits>>
<1> USE DEF shared
<1>1. CASE UNCHANGED vars \/ Over
  BY <1>1 DEF vars, Over
<1>2. CASE PlanUnparsable \/ PlanFailed
  BY <1>2 DEF PlanUnparsable, PlanFailed
<1>3. CASE StopSeen \/ CollectFinished \/ SelectReady \/ EndPass
  BY <1>3 DEF StopSeen, CollectFinished, SelectReady, EndPass
<1>4. CASE Finish
  BY <1>4 DEF Finish, FinishEmpty, FinishFirst, BeginReconcile, Reconciled
<1>5. CASE PressStop \/ PressRun
  BY <1>5 DEF PressStop, PressRun
<1> QED
  BY <1>1, <1>2, <1>3, <1>4, <1>5 DEF Next, Coordinator, Planning, Loop

(* The plan is set once, from the empty one.                               *)
LEMMA PlanSetOnce ==
  ASSUME TypeOK, Unplanned, [Next]_vars
  PROVE  plan' = plan \/ Tasks = {}
<1>1. ASSUME NEW p \in Plans, PlanParsed(p)
      PROVE  plan' = plan \/ Tasks = {}
  BY <1>1 DEF PlanParsed, Unplanned, Tasks
<1>2. CASE CancelTasks
  BY <1>2 DEF CancelTasks
<1>3. ASSUME NEW i \in batch, ReapOk(i) \/ ReapErr(i) \/ ReapPanic(i)
      PROVE  plan' = plan
  BY <1>3 DEF ReapOk, ReapErr, ReapPanic, Reaping
<1>4. ASSUME NEW i \in batch, Claim(i) \/ Spawn(i)
      PROVE  plan' = plan
  BY <1>4 DEF Claim, Spawn
<1>5. ASSUME NEW i \in Slots, Worker(i)
      PROVE  plan' = plan
  BY <1>5 DEF Worker, Report, SeesStop, Exit, Panic, Drop
<1> QED
  BY StepCases, <1>1, <1>2, <1>3, <1>4, <1>5

(* No step changes the status of a completed or failed task.               *)
LEMMA VerdictKept ==
  ASSUME TypeOK, Unplanned, TableMatchesWorkers, [Next]_vars,
         NEW k \in Tasks, status[k] \in {"Completed", "Failed"}
  PROVE  status'[k] = status[k]
<1>1. ASSUME NEW p \in Plans, PlanParsed(p)
      PROVE  status'[k] = status[k]
  BY <1>1 DEF PlanParsed, Unplanned, Tasks
<1>2. CASE CancelTasks
  BY <1>2 DEF CancelTasks, Tasks
<1>3. ASSUME NEW i \in batch, ReapOk(i) \/ ReapErr(i) \/ ReapPanic(i)
      PROVE  status'[k] = status[k]
  BY <1>3 DEF ReapOk, ReapErr, ReapPanic, Reaping, TypeOK, TableMatchesWorkers
<1>4. ASSUME NEW i \in batch, Claim(i) \/ Spawn(i)
      PROVE  status'[k] = status[k]
  BY <1>4 DEF Claim, Spawn, TypeOK
<1>5. ASSUME NEW i \in Slots, Worker(i)
      PROVE  status'[k] = status[k]
  BY <1>5 DEF Worker, Report, SeesStop, Exit, Panic, Drop, TypeOK, TableMatchesWorkers
<1> QED
  BY StepCases, <1>1, <1>2, <1>3, <1>4, <1>5

(* Hence, while the plan stays, completed ids stay completed.              *)
LEMMA CompletedIdsGrow ==
  ASSUME TypeOK, Unplanned, TableMatchesWorkers, [Next]_vars, plan' = plan
  PROVE  CompletedIds \subseteq CompletedIds'
  BY VerdictKept DEF CompletedIds, Tasks

(* What is spawned is the entry that was claimed.                          *)
LEMMA SpawnedIsClaimed ==
  ASSUME TypeOK, ClaimedIsIdle, NEW i \in batch, Spawn(i)
  PROVE  i \in Tasks /\ worker[i] = "idle" /\ status[i] = "Running"
<1>1. pc = "acquire" /\ \A j \in batch : i <= j
  BY DEF Spawn, NextReady
<1>2. PICK k \in batch : (\A j \in batch : k <= j) /\ worker[k] = "idle" /\ status[k] = "Running"
  BY <1>1 DEF ClaimedIsIdle
<1>3. i \in Tasks /\ k \in Tasks
  BY DEF TypeOK
<1>4. Tasks \subseteq Nat
  BY DEF TypeOK, Tasks
<1>5. i <= k /\ k <= i
  BY <1>1, <1>2
<1>6. i = k
  BY <1>3, <1>4, <1>5
<1> QED
  BY <1>2, <1>3, <1>6

(* The table and the futures keep agreeing.                                *)
LEMMA TableMatchesStep ==
  ASSUME TypeOK, Unplanned, TableMatchesWorkers, ClaimedIsIdle, [Next]_vars
  PROVE  TableMatchesWorkers'
<1> USE DEF TableMatchesWorkers, Tasks
<1>1. ASSUME NEW p \in Plans, PlanParsed(p)
      PROVE  TableMatchesWorkers'
  BY <1>1 DEF PlanParsed, Unplanned
<1>2. CASE CancelTasks
  BY <1>2 DEF CancelTasks, TypeOK
<1>3. ASSUME NEW i \in batch, ReapOk(i) \/ ReapErr(i) \/ ReapPanic(i)
      PROVE  TableMatchesWorkers'
  BY <1>3 DEF ReapOk, ReapErr, ReapPanic, Reaping, TypeOK
<1>4. ASSUME NEW i \in batch, Claim(i)
      PROVE  TableMatchesWorkers'
  BY <1>4 DEF Claim, TypeOK
<1>5. ASSUME NEW i \in batch, Spawn(i)
      PROVE  TableMatchesWorkers'
  <2>1. i \in Tasks /\ status[i] = "Running"
    BY <1>5, SpawnedIsClaimed
  <2> QED
    BY <1>5, <2>1 DEF Spawn, TypeOK
<1>6. ASSUME NEW i \in Slots, Worker(i)
      PROVE  TableMatchesWorkers'
  BY <1>6 DEF Worker, Report, SeesStop, Exit, Panic, Drop, Active, TypeOK
<1>7. CASE UNCHANGED <<plan, status, worker, permits>>
  BY <1>7
<1> QED
  BY StepCases, <1>1, <1>2, <1>3, <1>4, <1>5, <1>6, <1>7

-----------------------------------------------------------------------------

(* The positions of a plan, and so the futures, are finitely many.         *)
LEMMA TasksFinite ==
  ASSUME TypeOK
  PROVE  /\ Tasks = 1..Len(plan) /\ Len(plan) \in Nat
         /\ IsFiniteSet(Tasks) /\ Cardinality(Tasks) = Len(plan)
         /\ IsFiniteSet(Active) /\ Cardinality(Active) \in Nat
<1>1. Tasks = 1..Len(plan) /\ Len(plan) \in Nat
  BY DEF TypeOK, Tasks
<1>2. IsFiniteSet(1..Len(plan)) /\ Cardinality(1..Len(plan)) = Len(plan)
  BY <1>1, FS_Interval
<1>3. Active \in SUBSET Tasks
  BY DEF Active
<1> QED
  BY <1>1, <1>2, <1>3, FS_Subset, FS_CardinalityType

(* Spawn moves one permit into a new future; a future gives its permit     *)
(* back exactly when it returns, panics or is dropped.                     *)
LEMMA PermitsBalanceStep ==
  ASSUME TypeOK, Unplanned, PermitsBalance, ClaimedIsIdle, TypeOK', [Next]_vars
  PROVE  PermitsBalance'
<1> USE DEF PermitsBalance
<1>1. ASSUME NEW p \in Plans, PlanParsed(p)
      PROVE  PermitsBalance'
  <2>1. Active = {}
    BY <1>1 DEF PlanParsed, Unplanned, Active, Tasks
  <2>2. Active' = {}
    <3>1. CASE p = <<>>
      BY <1>1, <2>1, <3>1 DEF PlanParsed, Active, Tasks
    <3>2. CASE p # <<>>
      <4>1. worker' = [i \in Tasks' |-> "idle"]
        BY <1>1, <3>2 DEF PlanParsed, Tasks
      <4>2. \A i \in Tasks' : worker'[i] = "idle"
        BY <4>1
      <4> QED
        BY <4>2 DEF Active
    <3> QED
      BY <3>1, <3>2
  <2> QED
    BY <1>1, <2>1, <2>2 DEF PlanParsed
<1>2. CASE CancelTasks
  BY <1>2 DEF CancelTasks, Active, Tasks
<1>3. ASSUME NEW i \in batch, ReapOk(i) \/ ReapErr(i) \/ ReapPanic(i)
      PROVE  PermitsBalance'
  BY <1>3 DEF ReapOk, ReapErr, ReapPanic, Reaping, Active, Tasks
<1>4. ASSUME NEW i \in batch, Claim(i)
      PROVE  PermitsBalance'
  BY <1>4 DEF Claim, Active, Tasks
<1>5. ASSUME NEW i \in batch, Spawn(i)
      PROVE  PermitsBalance'
  <2>1. i \in Tasks /\ worker[i] = "idle"
    BY <1>5, SpawnedIsClaimed
  <2>2. Active' = Active \cup {i} /\ i \notin Active
    BY <1>5, <2>1 DEF Spawn, Active, Tasks, TypeOK
  <2>3. Cardinality(Active') = Cardinality(Active) + 1
    BY <2>2, TasksFinite, FS_AddElement
  <2> QED
    BY <1>5, <2>3, TasksFinite, SwarmAssumption DEF Spawn, TypeOK
<1>6. ASSUME NEW i \in Slots, Worker(i)
      PROVE  PermitsBalance'
  <2>1. CASE SeesStop(i) \/ \E r \in {"Completed", "Failed", "Cancelled"} : Report(i, r)
    <3>1. Active' = Active
      BY <2>1 DEF SeesStop, Report, Active, Tasks, TypeOK
    <3> QED
      BY <2>1, <3>1 DEF SeesStop, Report
  <2>2. CASE Exit(i) \/ Panic(i) \/ Drop(i)
    <3>1. Active' = Active \ {i} /\ i \in Active
      BY <2>2 DEF Exit, Panic, Drop, Active, Tasks, TypeOK
    <3>2. Cardinality(Active') = Cardinality(Active) - 1
      BY <3>1, TasksFinite, FS_RemoveElement
    <3>3. permits' = permits + 1
      BY <2>2 DEF Exit, Panic, Drop
    <3> QED
      BY <3>2, <3>3, TasksFinite, SwarmAssumption DEF TypeOK
  <2> QED
    BY <1>6, <2>1, <2>2 DEF Worker
<1>7. CASE UNCHANGED <<plan, status, worker, permits>>
  BY <1>7 DEF Active, Tasks
<1> QED
  BY StepCases, <1>1, <1>2, <1>3, <1>4, <1>5, <1>6, <1>7

(* Only Claim reaches "acquire", and there only Spawn, workers and the     *)
(* user can move.                                                          *)
LEMMA ClaimedStep ==
  ASSUME TypeOK, TableMatchesWorkers, ClaimedIsIdle, [Next]_vars
  PROVE  ClaimedIsIdle'
<1> SUFFICES ASSUME pc' = "acquire"
             PROVE  ClaimedIsIdle'
  BY DEF ClaimedIsIdle
<1>1. CASE pc # "acquire"
  <2>1. PICK i \in batch : Claim(i)
    BY <1>1 DEF Next, vars, Coordinator, Planning, Loop, Finish, Worker, PlanParsed,
       PlanUnparsable, PlanFailed, StopSeen, CancelTasks, CollectFinished, Reaping, ReapOk,
       ReapErr, ReapPanic, SelectReady, Spawn, EndPass, FinishEmpty, FinishFirst,
       BeginReconcile, Reconciled, Report, SeesStop, Exit, Panic, Drop, PressStop, PressRun, Over
  <2>2. i \in Tasks /\ status[i] = "Pending"
    BY <1>1, <2>1 DEF Claim, TypeOK
  <2>3. worker[i] = "idle"
    BY <2>2 DEF TableMatchesWorkers
  <2> QED
    BY <1>1, <2>1, <2>2, <2>3 DEF Claim, NextReady, ClaimedIsIdle, TypeOK, Tasks
<1>2. CASE pc = "acquire"
  <2>1. PICK i \in batch : (\A j \in batch : i <= j) /\ worker[i] = "idle" /\ status[i] = "Running"
    BY <1>2 DEF ClaimedIsIdle
  <2>2. \/ \E k \in Slots : Worker(k)
        \/ UNCHANGED <<status, worker, batch>>
    <3>1. ~ Planning /\ ~ Finish
      BY <1>2 DEF Planning, Finish, PlanParsed, PlanUnparsable, PlanFailed, FinishEmpty,
         FinishFirst, BeginReconcile, Reconciled
    <3>2. ~ Loop
      BY <1>2 DEF Loop, StopSeen, CancelTasks, CollectFinished, Reaping, ReapOk, ReapErr,
         ReapPanic, SelectReady, Claim, Spawn, EndPass
    <3>3. CASE PressStop \/ PressRun \/ Over \/ UNCHANGED vars
      BY <3>3 DEF PressStop, PressRun, Over, vars, shared, loopVars
    <3> QED
      BY <3>1, <3>2, <3>3 DEF Next, Coordinator
  <2>3. CASE UNCHANGED <<status, worker, batch>>
    BY <2>1, <2>3 DEF ClaimedIsIdle
  <2>4. ASSUME NEW k \in Slots, Worker(k)
        PROVE  worker'[i] = "idle" /\ status'[i] = "Running" /\ batch' = batch
    BY <2>1, <2>4 DEF Worker, Report, SeesStop, Exit, Panic, Drop, Active, TypeOK, loopVars
  <2> QED
    BY <2>1, <2>2, <2>3, <2>4 DEF ClaimedIsIdle
<1> QED
  BY <1>1, <1>2

-----------------------------------------------------------------------------

(* An id with all dependencies of one of its entries met keeps that entry. *)
LEMMA ReadyStaysReady ==
  ASSUME TypeOK, Unplanned, TableMatchesWorkers, [Next]_vars, plan' = plan,
         NEW i, \E j \in Tasks : /\ plan[j].id = plan[i].id
                                 /\ plan[j].deps \subseteq CompletedIds
  PROVE  \E j \in Tasks' : /\ plan'[j].id = plan'[i].id
                           /\ plan'[j].deps \subseteq CompletedIds'
<1>1. CompletedIds \subseteq CompletedIds'
  BY CompletedIdsGrow
<1>2. Tasks' = Tasks
  BY DEF Tasks
<1>3. PICK j \in Tasks : plan[j].id = plan[i].id /\ plan[j].deps \subseteq CompletedIds
  OBVIOUS
<1>4. plan[j].deps \subseteq CompletedIds'
  BY <1>1, <1>3
<1> QED
  BY <1>2, <1>3, <1>4

(* Only SelectReady fills the batch the spawn phase works on.              *)
LEMMA BatchReadyStep ==
  ASSUME TypeOK, Unplanned, TableMatchesWorkers, BatchReady, [Next]_vars
  PROVE  BatchReady'
<1> SUFFICES ASSUME pc' \in {"spawn", "acquire"}, NEW i \in batch'
             PROVE  \E j \in Tasks' : /\ plan'[j].id = plan'[i].id
                                      /\ plan'[j].deps \subseteq CompletedIds'
  BY DEF BatchReady
<1>1. \/ SelectReady
      \/ pc \in {"spawn", "acquire"} /\ batch' \subseteq batch /\ plan' = plan
  <2> USE DEF shared, loopVars, endVars
  <2>1. ~ Planning
    BY DEF Planning, PlanUnparsable, PlanFailed, PlanParsed
  <2>2. ~ Finish
    BY DEF Finish, FinishEmpty, FinishFirst, BeginReconcile, Reconciled
  <2>3. CASE Loop
    BY <2>3 DEF Loop, StopSeen, CancelTasks, CollectFinished, Reaping, ReapOk, ReapErr,
       ReapPanic, Claim, Spawn, EndPass
  <2>4. ASSUME NEW k \in Slots, Worker(k)
        PROVE  pc \in {"spawn", "acquire"} /\ batch' \subseteq batch /\ plan' = plan
    BY <2>4 DEF Worker, Report, SeesStop, Exit, Panic, Drop
  <2>5. CASE PressStop \/ PressRun \/ Over \/ UNCHANGED vars
    BY <2>5 DEF PressStop, PressRun, Over, vars
  <2> QED
    BY <2>1, <2>2, <2>3, <2>4, <2>5 DEF Next, Coordinator
<1>2. CASE SelectReady
  <2>1. i \in ReadyTasks /\ plan' = plan
    BY <1>2 DEF SelectReady
  <2>2. PICK j \in ReadyEntries : plan[j].id = plan[i].id
    BY <2>1 DEF ReadyTasks
  <2>3. j \in Tasks /\ plan[j].deps \subseteq CompletedIds
    BY <2>2 DEF ReadyEntries
  <2> QED
    BY <2>1, <2>2, <2>3, ReadyStaysReady
<1>3. CASE pc \in {"spawn", "acquire"} /\ batch' \subseteq batch /\ plan' = plan
  <2>1. \E j \in Tasks : plan[j].id = plan[i].id /\ plan[j].deps \subseteq CompletedIds
    BY <1>3 DEF BatchReady
  <2> QED
    BY <1>3, <2>1, ReadyStaysReady
<1> QED
  BY <1>1, <1>2, <1>3

(* A task is only started from the batch.                                  *)
LEMMA DependenciesFirstStep ==
  ASSUME TypeOK, Unplanned, TableMatchesWorkers, BatchReady, DependenciesFirst, [Next]_vars
  PROVE  DependenciesFirst'
<1> SUFFICES ASSUME NEW i \in Started'
             PROVE  \E j \in Tasks' : /\ plan'[j].id = plan'[i].id
                                      /\ plan'[j].deps \subseteq CompletedIds'
  BY DEF DependenciesFirst
<1>1. \/ Started' = {}
      \/ plan' = plan /\ i \in Started
      \/ plan' = plan /\ Spawn(i) /\ i \in batch
  <2>1. ASSUME NEW p \in Plans, PlanParsed(p)
        PROVE  Started' = {}
    <3>1. CASE p = <<>>
      BY <2>1, <3>1 DEF PlanParsed, Unplanned, Started, Tasks
    <3>2. CASE p # <<>>
      <4>1. worker' = [k \in Tasks' |-> "idle"]
        BY <2>1, <3>2 DEF PlanParsed, Tasks
      <4>2. \A k \in Tasks' : worker'[k] = "idle"
        BY <4>1
      <4> QED
        BY <4>2 DEF Started
    <3> QED
      BY <3>1, <3>2
  <2>2. CASE CancelTasks
    BY <2>2 DEF CancelTasks, Started, Tasks
  <2>3. ASSUME NEW k \in batch, ReapOk(k) \/ ReapErr(k) \/ ReapPanic(k)
        PROVE  plan' = plan /\ i \in Started
    BY <2>3 DEF ReapOk, ReapErr, ReapPanic, Reaping, Started, Tasks
  <2>4. ASSUME NEW k \in batch, Claim(k)
        PROVE  plan' = plan /\ i \in Started
    BY <2>4 DEF Claim, Started, Tasks
  <2>5. ASSUME NEW k \in batch, Spawn(k)
        PROVE  plan' = plan /\ (i \in Started \/ i = k)
    BY <2>5 DEF Spawn, Started, Tasks, TypeOK
  <2>6. ASSUME NEW k \in Slots, Worker(k)
        PROVE  plan' = plan /\ i \in Started
    BY <2>6 DEF Worker, Report, SeesStop, Exit, Panic, Drop, Active, Started, Tasks, TypeOK
  <2>7. CASE UNCHANGED <<plan, status, worker, permits>>
    BY <2>7 DEF Started, Tasks
  <2> QED
    BY StepCases, <2>1, <2>2, <2>3, <2>4, <2>5, <2>6, <2>7
<1>2. CASE plan' = plan /\ i \in Started
  <2>1. \E j \in Tasks : plan[j].id = plan[i].id /\ plan[j].deps \subseteq CompletedIds
    BY <1>2 DEF DependenciesFirst
  <2> QED
    BY <1>2, <2>1, ReadyStaysReady
<1>3. CASE plan' = plan /\ Spawn(i) /\ i \in batch
  <2>1. \E j \in Tasks : plan[j].id = plan[i].id /\ plan[j].deps \subseteq CompletedIds
    BY <1>3 DEF Spawn, BatchReady
  <2> QED
    BY <1>3, <2>1, ReadyStaysReady
<1> QED
  BY <1>1, <1>2, <1>3

(* The strengthening is an invariant of the swarm.                         *)
LEMMA SwarmInductive == Spec => []IInv
<1>1. Init => IInv
  <2> SUFFICES ASSUME Init PROVE IInv
    OBVIOUS
  <2>1. TypeOK /\ Unplanned
    BY InitTyped
  <2>2. Tasks = {} /\ Active = {} /\ Started = {} /\ pc = "plan"
    BY DEF Init, Tasks, Active, Started
  <2>3. PermitsBalance
    BY <2>2, FS_EmptySet, SwarmAssumption DEF PermitsBalance, Init
  <2> QED
    BY <2>1, <2>2, <2>3 DEF IInv, TableMatchesWorkers, ClaimedIsIdle, BatchReady, DependenciesFirst
<1>2. IInv /\ [Next]_vars => IInv'
  <2> SUFFICES ASSUME IInv, [Next]_vars PROVE IInv'
    OBVIOUS
  <2>1. TypeOK' /\ Unplanned'
    BY StepTyped DEF IInv
  <2> QED
    BY <2>1, TableMatchesStep, PermitsBalanceStep, ClaimedStep, BatchReadyStep,
       DependenciesFirstStep DEF IInv
<1> QED
  BY <1>1, <1>2, PTL DEF Spec

-----------------------------------------------------------------------------

(* No worker runs for an id whose dependencies were not completed, for     *)
(* plans of any shape and any number of workers.                           *)
THEOREM SwarmDependenciesFirst == Spec => []DependenciesFirst
<1>1. IInv => DependenciesFirst
  BY DEF IInv
<1> QED
  BY <1>1, SwarmInductive, PTL

(* The coordinator never waits for a permit: a plan has no more entries    *)
(* than there are permits, and the claimed task holds none.                *)
THEOREM SwarmPermitReady == Spec => []PermitReady
<1>1. IInv => PermitReady
  <2> SUFFICES ASSUME IInv, pc = "acquire"
               PROVE  permits > 0
    BY DEF PermitReady
  <2>1. TypeOK /\ PermitsBalance /\ ClaimedIsIdle
    BY DEF IInv
  <2>2. PICK i \in Tasks : worker[i] = "idle"
    BY <2>1 DEF ClaimedIsIdle, TypeOK
  <2>3. Active \subseteq Tasks /\ Active # Tasks
    BY <2>2 DEF Active
  <2>4. Cardinality(Active) < Cardinality(Tasks)
    <3>1. Cardinality(Active) <= Cardinality(Tasks) /\ Cardinality(Active) # Cardinality(Tasks)
      BY <2>1, <2>3, TasksFinite, FS_Subset
    <3> QED
      BY <2>1, <3>1, TasksFinite
  <2> QED
    BY <2>1, <2>4, TasksFinite, SwarmAssumption DEF PermitsBalance, TypeOK
<1> QED
  BY <1>1, SwarmInductive, PTL

(* Completed and Failed are final, for every plan and interleaving.        *)
THEOREM SwarmVerdictsStand == Spec => VerdictsStand
<1>1. IInv /\ [Next]_vars =>
        [\A i \in Tasks : status[i] \in {"Completed", "Failed"} => status'[i] = status[i]]_vars
  BY VerdictKept DEF IInv
<1> QED
  BY <1>1, SwarmInductive, PTL DEF Spec, VerdictsStand

(* No task is handed to a second worker, for every plan and interleaving.  *)
THEOREM SwarmSpawnedOnce == Spec => SpawnedOnce
<1>1. IInv /\ [Next]_vars =>
        [\A i \in Tasks : worker'[i] = "running" => worker[i] \in {"idle", "running"}]_vars
  <2> SUFFICES ASSUME IInv, [Next]_vars, NEW k \in Tasks, worker'[k] = "running"
               PROVE  worker[k] \in {"idle", "running"}
    OBVIOUS
  <2> USE DEF IInv, Tasks
  <2>1. ASSUME NEW p \in Plans, PlanParsed(p)
        PROVE  worker[k] \in {"idle", "running"}
    BY <2>1 DEF PlanParsed, Unplanned
  <2>2. CASE CancelTasks
    BY <2>2 DEF CancelTasks
  <2>3. ASSUME NEW i \in batch, ReapOk(i) \/ ReapErr(i) \/ ReapPanic(i)
        PROVE  worker[k] \in {"idle", "running"}
    BY <2>3 DEF ReapOk, ReapErr, ReapPanic, Reaping
  <2>4. ASSUME NEW i \in batch, Claim(i)
        PROVE  worker[k] \in {"idle", "running"}
    BY <2>4 DEF Claim
  <2>5. ASSUME NEW i \in batch, Spawn(i)
        PROVE  worker[k] \in {"idle", "running"}
    <3>1. worker[i] = "idle"
      BY <2>5 DEF Spawn, NextReady, ClaimedIsIdle, TypeOK
    <3> QED
      BY <2>5, <3>1 DEF Spawn, TypeOK
  <2>6. ASSUME NEW i \in Slots, Worker(i)
        PROVE  worker[k] \in {"idle", "running"}
    BY <2>6 DEF Worker, Report, SeesStop, Exit, Panic, Drop, TypeOK
  <2> QED
    BY StepCases, <2>1, <2>2, <2>3, <2>4, <2>5, <2>6
<1> QED
  BY <1>1, SwarmInductive, PTL DEF Spec, SpawnedOnce

-----------------------------------------------------------------------------
(* Where the outputs are.                                                  *)

Leaving == {"cancel", "finish", "reconcile", "end"}

(* Handles are thrown away by a stop only, and none is left after that.    *)
HandlesEnd ==
  /\ pc \in Leaving => handles = {}
  /\ pc \notin Leaving => aborted = {}
  /\ pc = "reap" => batch \subseteq handles \cap Finished

ActiveHandled == Active \subseteq handles \cup aborted

(* A collected task was reaped, and its handle is gone.                    *)
CollectedReaped ==
  \A i \in Collected : worker[i] = "ok" /\ status[i] = "Completed" /\ i \notin handles

CollectedOnce == \A k, l \in DOMAIN outputs : outputs[k] = outputs[l] => k = l

PanickedUnsettled == \A i \in Tasks : worker[i] = "panicked" => status[i] \in {"Running", "Cancelled"}

OutInv ==
  /\ HandlesEnd
  /\ ActiveHandled
  /\ CollectedReaped
  /\ CollectedOnce
  /\ PanickedUnsettled
  /\ NoOutputLost
  /\ delivered \subseteq Collected

LEMMA CollectedAfterAppend ==
  ASSUME TypeOK, NEW i \in Tasks, outputs' = Append(outputs, i)
  PROVE  /\ Collected' = Collected \cup {i}
         /\ CollectedOnce /\ i \notin Collected => CollectedOnce'
<1>1. outputs \in Seq(Tasks) /\ Len(outputs) \in Nat
  BY DEF TypeOK
<1>2. /\ DOMAIN outputs = 1..Len(outputs) /\ DOMAIN outputs' = 1..(Len(outputs) + 1)
      /\ \A k \in 1..Len(outputs) : outputs'[k] = outputs[k]
      /\ outputs'[Len(outputs) + 1] = i
  BY <1>1
<1> QED
  BY <1>1, <1>2 DEF Collected, CollectedOnce

LEMMA CollectedAreTasks ==
  ASSUME TypeOK
  PROVE  Collected \subseteq Tasks
<1>1. outputs \in Seq(Tasks)
  BY DEF TypeOK
<1> QED
  BY <1>1 DEF Collected

(* The coordinator's steps outside reaping and spawning.                   *)
LEMMA OutLoop ==
  ASSUME IInv, OutInv,
         \/ StopSeen \/ CancelTasks \/ CollectFinished \/ SelectReady \/ EndPass
         \/ Planning \/ Finish \/ \E i \in batch : Claim(i)
  PROVE  OutInv'
<1> USE DEF IInv, OutInv, shared, loopVars, endVars
<1>1. ASSUME NEW p \in Plans, PlanParsed(p)
      PROVE  OutInv'
  <2>1. /\ Tasks = {} /\ outputs = <<>> /\ handles = {} /\ aborted = {} /\ delivered = {}
        /\ UNCHANGED <<outputs, handles, aborted, delivered>> /\ pc' \in {"poll", "end"}
    BY <1>1 DEF PlanParsed, Unplanned, Tasks, TypeOK
  <2>2. \A i \in Tasks' : worker'[i] = "idle" /\ status'[i] = "Pending"
    BY <1>1, <2>1 DEF PlanParsed, Tasks
  <2> QED
    BY <2>1, <2>2
       DEF HandlesEnd, Leaving, ActiveHandled, Active, CollectedReaped, Collected, CollectedOnce,
           PanickedUnsettled, NoOutputLost
<1>2. CASE PlanUnparsable \/ PlanFailed
  <2>1. Tasks = {} /\ Tasks' = {} /\ handles = {} /\ outputs = <<>> /\ delivered = {}
    BY <1>2 DEF PlanUnparsable, PlanFailed, Unplanned, Tasks, TypeOK
  <2> QED
    BY <1>2, <2>1
       DEF PlanUnparsable, PlanFailed, HandlesEnd, Leaving, ActiveHandled, Active,
           CollectedReaped, Collected, CollectedOnce, PanickedUnsettled, NoOutputLost
<1>3. CASE StopSeen
  BY <1>3
     DEF StopSeen, HandlesEnd, Leaving, ActiveHandled, Active, CollectedReaped, Collected,
         CollectedOnce, PanickedUnsettled, NoOutputLost, Tasks
<1>4. CASE CancelTasks
  <2>1. Collected \subseteq Tasks
    BY CollectedAreTasks
  <2> QED
    BY <1>4, <2>1
       DEF CancelTasks, HandlesEnd, Leaving, ActiveHandled, Active, CollectedReaped, Collected,
           CollectedOnce, PanickedUnsettled, NoOutputLost, Tasks
<1>5. CASE CollectFinished \/ SelectReady \/ EndPass
  BY <1>5
     DEF CollectFinished, SelectReady, EndPass, HandlesEnd, Leaving, ActiveHandled, Active,
         Finished, CollectedReaped, Collected, CollectedOnce, PanickedUnsettled, NoOutputLost,
         Tasks
<1>6. CASE FinishEmpty \/ BeginReconcile
  BY <1>6
     DEF FinishEmpty, BeginReconcile, HandlesEnd, Leaving, ActiveHandled, Active,
         CollectedReaped, Collected, CollectedOnce, PanickedUnsettled, NoOutputLost, Tasks
<1>7. CASE FinishFirst \/ Reconciled
  <2>1. outputs # <<>> => 1 \in DOMAIN outputs
    BY DEF TypeOK
  <2>2. delivered' \subseteq Collected
    BY <1>7, <2>1 DEF FinishFirst, Reconciled, Collected
  <2> QED
    BY <1>7, <2>2
       DEF FinishFirst, Reconciled, HandlesEnd, Leaving, ActiveHandled, Active,
           CollectedReaped, Collected, CollectedOnce, PanickedUnsettled, NoOutputLost, Tasks
<1>8. ASSUME NEW i \in batch, Claim(i)
      PROVE  OutInv'
  <2>1. /\ Collected' = Collected /\ Collected \subseteq Tasks /\ i \in Tasks
        /\ UNCHANGED <<plan, worker, handles, aborted, outputs, delivered>>
        /\ pc = "spawn" /\ pc' \in {"spawn", "acquire"}
    BY <1>8, CollectedAreTasks DEF Claim, Collected, TypeOK
  <2>2. \/ status' = status
        \/ status[i] = "Pending" /\ status' = [status EXCEPT ![i] = "Running"]
    BY <1>8 DEF Claim
  <2>3. HandlesEnd' /\ ActiveHandled' /\ CollectedOnce' /\ delivered' \subseteq Collected'
    BY <2>1 DEF HandlesEnd, Leaving, ActiveHandled, Active, CollectedOnce, Tasks
  <2>4. CollectedReaped'
    BY <2>1, <2>2 DEF CollectedReaped, Tasks, TypeOK
  <2>5. PanickedUnsettled' /\ NoOutputLost'
    BY <2>1, <2>2 DEF PanickedUnsettled, NoOutputLost, Tasks, TypeOK
  <2> QED
    BY <2>1, <2>3, <2>4, <2>5
<1> QED
  BY <1>1, <1>2, <1>3, <1>4, <1>5, <1>6, <1>7, <1>8 DEF Planning, Finish

LEMMA OutReap ==
  ASSUME IInv, OutInv, NEW i \in batch, ReapOk(i) \/ ReapErr(i) \/ ReapPanic(i)
  PROVE  OutInv'
<1> USE DEF IInv, OutInv
<1>1. /\ i \in Tasks /\ i \in handles /\ i \in Finished /\ Collected \subseteq Tasks
      /\ pc = "reap" /\ batch' = batch \ {i} /\ handles' = handles \ {i}
      /\ UNCHANGED <<pc, plan, worker, permits, aborted, stop, outcome, delivered>>
  BY CollectedAreTasks DEF ReapOk, ReapErr, ReapPanic, Reaping, TypeOK, HandlesEnd, endVars
<1>2. HandlesEnd' /\ ActiveHandled'
  BY <1>1 DEF HandlesEnd, Leaving, ActiveHandled, Active, Finished, Tasks
<1>3. CASE ReapOk(i)
  <2>1. i \notin Collected
    BY <1>1 DEF CollectedReaped
  <2>2. Collected' = Collected \cup {i} /\ CollectedOnce'
    BY <1>1, <1>3, <2>1, CollectedAfterAppend DEF ReapOk
  <2>3. status' = status /\ worker[i] = "ok" /\ status[i] = "Completed"
    BY <1>1, <1>3 DEF ReapOk, TypeOK, TableMatchesWorkers
  <2> QED
    BY <1>1, <1>2, <2>2, <2>3
       DEF CollectedReaped, PanickedUnsettled, NoOutputLost, Tasks
<1>4. CASE ReapErr(i) \/ ReapPanic(i)
  <2>1. /\ worker[i] \in {"err", "panicked"} /\ outputs' = outputs
        /\ status[i] # "Completed"
        /\ status' \in {status, [status EXCEPT ![i] = "Failed"]}
        /\ worker[i] = "panicked" => status' = status
    BY <1>1, <1>4 DEF ReapErr, ReapPanic, TableMatchesWorkers, PanickedUnsettled
  <2>2. i \notin Collected
    BY <2>1 DEF CollectedReaped
  <2> QED
    BY <1>1, <1>2, <2>1, <2>2
       DEF CollectedReaped, Collected, CollectedOnce, PanickedUnsettled, NoOutputLost, Tasks,
           TypeOK
<1> QED
  BY <1>3, <1>4

LEMMA OutSpawn ==
  ASSUME IInv, OutInv, NEW i \in batch, Spawn(i)
  PROVE  OutInv'
<1> USE DEF IInv, OutInv
<1>1. i \in Tasks /\ worker[i] = "idle" /\ Collected \subseteq Tasks
  BY SpawnedIsClaimed, CollectedAreTasks
<1>2. i \notin Collected
  BY <1>1 DEF CollectedReaped
<1>3. HandlesEnd' /\ ActiveHandled'
  BY <1>1 DEF Spawn, HandlesEnd, Leaving, ActiveHandled, Active, Tasks, TypeOK
<1> QED
  BY <1>1, <1>2, <1>3
     DEF Spawn, endVars, CollectedReaped, Collected, CollectedOnce, PanickedUnsettled,
         NoOutputLost, Tasks, TypeOK

LEMMA OutWorker ==
  ASSUME IInv, OutInv, NEW i \in Slots, Worker(i)
  PROVE  OutInv'
<1> USE DEF IInv, OutInv
<1>1. /\ i \in Tasks /\ worker[i] \in {"running", "told", "savedOk", "savedErr"}
      /\ Collected \subseteq Tasks /\ i \notin Collected
      /\ i \in handles \cup aborted
      /\ UNCHANGED <<pc, plan, handles, aborted, batch, outputs, delivered>>
  BY CollectedAreTasks
     DEF Worker, Report, SeesStop, Exit, Panic, Drop, Active, TypeOK, loopVars, endVars,
         CollectedReaped, ActiveHandled
<1>2. /\ \E w \in Phases : worker' = [worker EXCEPT ![i] = w]
      /\ \E s \in Statuses : status' = [status EXCEPT ![i] = s]
      /\ worker'[i] = "panicked" => worker[i] \in {"running", "told"} /\ status' = status
  BY <1>1 DEF Worker, Report, SeesStop, Exit, Panic, Drop, Phases, Statuses, TypeOK
<1>3. HandlesEnd'
  BY <1>1, <1>2 DEF HandlesEnd, Leaving, Finished, Tasks, TypeOK
<1>4. ActiveHandled'
  BY <1>1, <1>2 DEF ActiveHandled, Active, Tasks, TypeOK
<1>5. PanickedUnsettled'
  BY <1>1, <1>2 DEF PanickedUnsettled, TableMatchesWorkers, Tasks, TypeOK
<1> QED
  BY <1>1, <1>2, <1>3, <1>4, <1>5
     DEF CollectedReaped, Collected, CollectedOnce, NoOutputLost, Tasks, TypeOK

LEMMA OutInductive == Spec => [](IInv /\ OutInv)
<1>1. Init => OutInv
  BY DEF Init, OutInv, HandlesEnd, Leaving, ActiveHandled, Active, CollectedReaped, Collected,
         CollectedOnce, PanickedUnsettled, NoOutputLost, Tasks
<1>2. IInv /\ OutInv /\ [Next]_vars => OutInv'
  <2> SUFFICES ASSUME IInv, OutInv, [Next]_vars PROVE OutInv'
    OBVIOUS
  <2>1. CASE UNCHANGED <<pc, plan, shared, loopVars, endVars>>
    BY <2>1
       DEF OutInv, HandlesEnd, Leaving, ActiveHandled, Active, Finished, CollectedReaped,
           Collected, CollectedOnce, PanickedUnsettled, NoOutputLost, Tasks, shared, loopVars,
           endVars
  <2>2. CASE PressStop \/ PressRun \/ Over \/ UNCHANGED vars
    BY <2>1, <2>2 DEF PressStop, PressRun, Over, vars
  <2> QED
    BY <2>2, OutLoop, OutReap, OutSpawn, OutWorker DEF Next, Coordinator, Loop
<1> QED
  BY <1>1, <1>2, SwarmInductive, PTL DEF Spec

(* What the workers made is neither lost, nor left behind, nor used twice, *)
(* for every plan and interleaving (coordinator.rs, reaping and stop).     *)
THEOREM SwarmOutputsKept == Spec => []OutputsKept
<1>1. OutInv => OutputsKept
  BY DEF OutInv, OutputsKept, NoOrphanWorker, HandlesEnd, Leaving, ActiveHandled,
         AnswerFromCompleted, CollectedReaped, CollectedOnce
<1> QED
  BY <1>1, OutInductive, PTL

-----------------------------------------------------------------------------
(* The run implements the task board.                                      *)

DoneTasks == {i \in Tasks : status[i] = "Completed"}

(* A run has a verdict exactly when it is over, and no answer before.      *)
EndInv ==
  /\ outcome = "none" <=> pc # "end"
  /\ pc # "end" => delivered = {}

boardVars == <<plan, Started, DoneTasks, outcome, delivered>>

LEMMA EndStep == TypeOK /\ EndInv /\ [Next]_vars => EndInv'
<1> SUFFICES ASSUME TypeOK, EndInv, [Next]_vars PROVE EndInv'
  OBVIOUS
<1> USE DEF EndInv, shared, loopVars, endVars
<1>1. CASE UNCHANGED <<pc, endVars>>
  BY <1>1
<1>2. CASE Planning
  BY <1>2 DEF Planning, PlanUnparsable, PlanFailed, PlanParsed
<1>3. CASE Finish
  BY <1>3 DEF Finish, FinishEmpty, FinishFirst, BeginReconcile, Reconciled
<1>4. CASE StopSeen \/ CancelTasks \/ CollectFinished \/ SelectReady \/ EndPass
  BY <1>4 DEF StopSeen, CancelTasks, CollectFinished, SelectReady, EndPass
<1>5. ASSUME NEW i \in batch, ReapOk(i) \/ ReapErr(i) \/ ReapPanic(i) \/ Claim(i) \/ Spawn(i)
      PROVE  EndInv'
  BY <1>5 DEF ReapOk, ReapErr, ReapPanic, Reaping, Claim, Spawn
<1>6. ASSUME NEW i \in Slots, Worker(i)
      PROVE  EndInv'
  BY <1>6, <1>1 DEF Worker, Report, SeesStop, Exit, Panic, Drop
<1>7. CASE PressStop \/ PressRun \/ Over \/ UNCHANGED vars
  BY <1>7, <1>1 DEF PressStop, PressRun, Over, vars
<1> QED
  BY <1>2, <1>3, <1>4, <1>5, <1>6, <1>7 DEF Next, Coordinator, Loop

(* Accepting a plan publishes a prefix of it.                              *)
LEMMA BoardPublished ==
  ASSUME TypeOK, Unplanned, EndInv, NEW p \in Plans, PlanParsed(p), p # <<>>
  PROVE  Board!Publish
<1>1. /\ plan = <<>> /\ outcome = "none" /\ Tasks = {}
      /\ plan' = Truncated(p) /\ UNCHANGED <<outcome, delivered>>
  BY DEF PlanParsed, Unplanned, EndInv, Tasks
<1>2. \A i \in Tasks' : worker'[i] = "idle" /\ status'[i] = "Pending"
  BY DEF PlanParsed, Tasks
<1>3. Started = {} /\ Started' = {} /\ DoneTasks = {} /\ DoneTasks' = {}
  BY <1>1, <1>2 DEF Started, DoneTasks
<1>4. PICK n \in 1..Len(p) : Truncated(p) = SubSeq(p, 1, n)
  <2> DEFINE Entries == [id : TaskIds, deps : SUBSET TaskIds]
  <2>1. p \in Seq(Entries) /\ MaxWorkers \in Nat \ {0}
    BY SwarmAssumption
  <2> HIDE DEF Entries
  <2>2. Len(p) \in Nat \ {0} /\ SubSeq(p, 1, Len(p)) = p
    BY <2>1
  <2> QED
    BY <2>1, <2>2 DEF Truncated
<1> QED
  BY <1>1, <1>3, <1>4 DEF Board!Publish, Board!NoBoard, DoneTasks

(* The end of a run concludes the board, once.                             *)
LEMMA BoardConcluded ==
  ASSUME EndInv, UNCHANGED <<plan, status, worker>>, pc # "end",
         outcome' \in {"Err", "EmptyPlan", "AllFailed", "Done"},
         delivered' \subseteq DoneTasks, outcome' # "Done" => delivered' = {}
  PROVE  Board!Conclude
<1>1. Started' = Started /\ DoneTasks' = DoneTasks
  BY DEF Started, DoneTasks, Tasks
<1> QED
  BY <1>1 DEF Board!Conclude, Board!Verdicts, EndInv, DoneTasks

LEMMA BoardPlanned ==
  ASSUME TypeOK, Unplanned, EndInv, Planning
  PROVE  Board!Next \/ UNCHANGED boardVars
<1>1. CASE PlanUnparsable
  BY <1>1 DEF PlanUnparsable, boardVars, Started, DoneTasks, Tasks, shared, endVars
<1>2. CASE PlanFailed
  BY <1>2, BoardConcluded DEF PlanFailed, shared, EndInv, Board!Next
<1>3. ASSUME NEW p \in Plans, PlanParsed(p)
      PROVE  Board!Next
  <2>1. CASE p = <<>>
    BY <1>3, <2>1, BoardConcluded DEF PlanParsed, EndInv, Board!Next
  <2>2. CASE p # <<>>
    BY <1>3, <2>2, BoardPublished DEF Board!Next
  <2> QED
    BY <2>1, <2>2
<1> QED
  BY <1>1, <1>2, <1>3 DEF Planning

LEMMA BoardFinished ==
  ASSUME TypeOK, OutInv, EndInv, Finish
  PROVE  Board!Next \/ UNCHANGED boardVars
<1>1. Collected \subseteq DoneTasks
  BY CollectedAreTasks DEF OutInv, CollectedReaped, DoneTasks
<1>2. CASE BeginReconcile
  BY <1>2 DEF BeginReconcile, boardVars, Started, DoneTasks, Tasks, shared, endVars
<1>3. CASE FinishEmpty
  BY <1>3, BoardConcluded DEF FinishEmpty, shared, EndInv, Board!Next
<1>4. CASE FinishFirst \/ Reconciled
  <2>1. outputs # <<>> => 1 \in DOMAIN outputs
    BY DEF TypeOK
  <2>2. delivered' \subseteq Collected
    BY <1>4, <2>1 DEF FinishFirst, Reconciled, Collected
  <2> QED
    BY <1>1, <1>4, <2>2, BoardConcluded DEF FinishFirst, Reconciled, shared, Board!Next
<1> QED
  BY <1>2, <1>3, <1>4 DEF Finish

LEMMA BoardStarted ==
  ASSUME IInv, EndInv, NEW i \in batch, Spawn(i)
  PROVE  Board!Next
<1>1. i \in Tasks /\ worker[i] = "idle"
  BY SpawnedIsClaimed DEF IInv
<1>2. /\ UNCHANGED <<plan, status, outcome, delivered>> /\ outcome = "none"
      /\ worker' = [worker EXCEPT ![i] = "running"]
  BY DEF Spawn, endVars, EndInv
<1>3. Started' = Started \cup {i} /\ i \notin Started /\ DoneTasks' = DoneTasks
  BY <1>1, <1>2 DEF IInv, TypeOK, Started, DoneTasks, Tasks
<1>4. \E j \in Tasks : plan[j].id = plan[i].id /\ plan[j].deps \subseteq CompletedIds
  BY DEF IInv, BatchReady, Spawn
<1>5. CompletedIds = Board!CompletedIds
  BY DEF CompletedIds, Board!CompletedIds
<1>6. Board!Start(i)
  BY <1>1, <1>2, <1>3, <1>4, <1>5 DEF Board!Start, DoneTasks, Tasks
<1> QED
  BY <1>1, <1>6 DEF Board!Next, Tasks

LEMMA BoardWorked ==
  ASSUME IInv, NEW i \in Slots, Worker(i)
  PROVE  Board!Next \/ UNCHANGED boardVars
<1>1. CASE Report(i, "Completed")
  <2>1. /\ i \in Tasks /\ worker[i] = "running" /\ UNCHANGED <<plan, outcome, delivered>>
        /\ status' = [status EXCEPT ![i] = "Completed"]
        /\ worker' = [worker EXCEPT ![i] = "savedOk"]
    BY <1>1 DEF Report, endVars
  <2>2. Started' = Started /\ i \in Started /\ DoneTasks' = DoneTasks \cup {i}
    BY <2>1 DEF IInv, TypeOK, Started, DoneTasks, Tasks
  <2>3. Board!Complete(i)
    BY <2>1, <2>2 DEF Board!Complete, DoneTasks
  <2> QED
    BY <2>1, <2>3 DEF Board!Next, Tasks
<1>2. ASSUME NEW r \in {"Failed", "Cancelled"}, Report(i, r)
      PROVE  UNCHANGED boardVars
  <2>1. /\ i \in Tasks /\ worker[i] \in {"running", "told"}
        /\ UNCHANGED <<plan, outcome, delivered>>
        /\ status' = [status EXCEPT ![i] = r] /\ status[i] # "Completed"
        /\ worker' = [worker EXCEPT ![i] = "savedErr"]
    BY <1>2 DEF Report, endVars, IInv, TableMatchesWorkers
  <2> QED
    BY <2>1 DEF IInv, TypeOK, Started, DoneTasks, Tasks, boardVars
<1>3. CASE SeesStop(i) \/ Exit(i) \/ Panic(i) \/ Drop(i)
  <2>1. /\ i \in Tasks /\ worker[i] # "idle" /\ UNCHANGED <<plan, status, outcome, delivered>>
        /\ \E w \in {"told", "ok", "err", "panicked", "dropped"} : worker' = [worker EXCEPT ![i] = w]
    BY <1>3 DEF SeesStop, Exit, Panic, Drop, Active, endVars
  <2> QED
    BY <2>1 DEF IInv, TypeOK, Started, DoneTasks, Tasks, boardVars
<1> QED
  BY <1>1, <1>2, <1>3 DEF Worker

(* Collecting, claiming and cancelling complete no task and start none.    *)
LEMMA BoardUnseen ==
  ASSUME IInv, OutInv,
         \/ StopSeen \/ CancelTasks \/ CollectFinished \/ SelectReady \/ EndPass
         \/ \E i \in batch : ReapOk(i) \/ ReapErr(i) \/ ReapPanic(i) \/ Claim(i)
  PROVE  UNCHANGED boardVars
<1> USE DEF IInv, OutInv, boardVars, Started, DoneTasks, Tasks, shared, endVars
<1>1. CASE StopSeen \/ CollectFinished \/ SelectReady \/ EndPass
  BY <1>1 DEF StopSeen, CollectFinished, SelectReady, EndPass
<1>2. CASE CancelTasks
  BY <1>2 DEF CancelTasks, TypeOK
<1>3. ASSUME NEW i \in batch, ReapOk(i) \/ ReapErr(i) \/ ReapPanic(i)
      PROVE  UNCHANGED boardVars
  BY <1>3 DEF ReapOk, ReapErr, ReapPanic, Reaping, TypeOK, TableMatchesWorkers,
              PanickedUnsettled
<1>4. ASSUME NEW i \in batch, Claim(i)
      PROVE  UNCHANGED boardVars
  BY <1>4 DEF Claim, TypeOK
<1> QED
  BY <1>1, <1>2, <1>3, <1>4

(* Every run is a run of the task board, for every plan and interleaving:  *)
(* the loop of coordinator.rs and the futures of worker.rs start tasks in  *)
(* dependency order and once, and conclude once.                           *)
THEOREM SwarmImplementsBoard == Spec => ImplementsBoard
<1>1. Init => Board!Init /\ EndInv
  BY DEF Init, EndInv, Board!Init, Board!NoBoard, Started, Tasks
<1>2. IInv /\ OutInv /\ EndInv /\ [Next]_vars => [Board!Next]_(Board!vars)
  <2> SUFFICES ASSUME IInv, OutInv, EndInv, [Next]_vars
               PROVE  Board!Next \/ UNCHANGED boardVars
    BY DEF boardVars, Board!vars, DoneTasks
  <2>1. CASE PressStop \/ PressRun \/ Over \/ UNCHANGED vars
    BY <2>1
       DEF PressStop, PressRun, Over, vars, shared, endVars, boardVars, Started, DoneTasks, Tasks
  <2> QED
    BY <2>1, BoardPlanned, BoardFinished, BoardStarted, BoardWorked, BoardUnseen
       DEF IInv, Next, Coordinator, Loop
<1>3. TypeOK /\ EndInv /\ [Next]_vars => EndInv'
  BY EndStep
<1>4. IInv => TypeOK
  BY DEF IInv
<1> QED
  BY <1>1, <1>2, <1>3, <1>4, OutInductive, PTL DEF Spec, ImplementsBoard, Board!Spec

=============================================================================
