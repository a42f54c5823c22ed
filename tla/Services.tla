------------------------------ MODULE Services ------------------------------
(***************************************************************************)
(* The calls a run makes outside the browser and the page: AI requests to  *)
(* the local model or the cloud, the demo server, the task agents with     *)
(* their solver, and HTTP.  They share no state, so each is explored on    *)
(* its own; part says which one moves.                                     *)
(***************************************************************************)
EXTENDS Naturals, Sequences

CONSTANTS
  Requests, Mixes, MaxRetries, Accounts, NoAccount, Limit, LastMonth,
  Runs, NoRun, MaxPlan, MaxWorkers,
  MaxTasks, MaxFields, MaxPolls,
  Fetches, Urls, OriginOf, Trackers, MaxRedirects,
  Parts  \* what to explore

VARIABLES
  part,
  kindOf, token, account, model, local, at, attempt, reply, cache, disk, month, counted,
  configured, stream, kind, left, hilTx, verdict, approvals, resumed,
  mode, solver, phase, tasks, todo, polls, captcha, refused, defied,
  fetch, ask, url, cookie, redirects, jar, responses

cloudVars == <<kindOf, token, account, model, local, at, attempt, reply, cache, disk,
               month, counted>>
demoVars == <<configured, stream, kind, left, hilTx, verdict, approvals, resumed>>
taskVars == <<mode, solver, phase, tasks, todo, polls, captcha, refused, defied>>
fetchVars == <<fetch, ask, url, cookie, redirects, jar, responses>>
vars == <<part, cloudVars, demoVars, taskVars, fetchVars>>

C == INSTANCE Cloud
D == INSTANCE DemoServer WITH at <- stream
T == INSTANCE TaskAgents
F == INSTANCE Fetch WITH at <- fetch, cache <- responses

ASSUME ServicesAssumption ==
  /\ C!CloudAssumption /\ D!DemoAssumption
  /\ T!TaskAgentsAssumption /\ F!FetchAssumption

(* A part that does not move starts in one of its initial states.          *)
Init ==
  /\ part \in Parts /\ C!Init /\ D!Init /\ T!Init /\ F!Init
  /\ part # "cloud" => kindOf = CHOOSE m \in Mixes : TRUE
  /\ part # "tasks" => mode = "tasks" /\ ~solver

CloudMoves == part = "cloud" /\ UNCHANGED <<part, demoVars, taskVars, fetchVars>>
DemoMoves == part = "demo" /\ UNCHANGED <<part, cloudVars, taskVars, fetchVars>>
TasksMove == part = "tasks" /\ UNCHANGED <<part, cloudVars, demoVars, fetchVars>>
FetchMoves == part = "fetch" /\ UNCHANGED <<part, cloudVars, demoVars, taskVars>>

Next ==
  \/ C!CloudNext /\ CloudMoves
  \/ D!DemoNext /\ DemoMoves
  \/ T!TaskAgentsNext /\ TasksMove
  \/ F!FetchNext /\ FetchMoves

(* Calls of the model, the solver and the cloud have timeouts, so they go  *)
(* on as long as their process does; a client that stays reads its stream. *)
(* That one of them goes on is enough, since each is bounded; a response   *)
(* body is not.  The user and the page owe no answer, and a server no body.*)
Fairness ==
  /\ WF_vars(\/ CloudMoves /\ \E r \in Requests : C!Step(r)
             \/ DemoMoves /\ \E r \in Runs : D!Stream(r)
             \/ TasksMove /\ T!Machine)
  /\ \A f \in Fetches : WF_vars(FetchMoves /\ F!Exchange(f))

Spec == Init /\ [][Next]_vars
FairSpec == Spec /\ Fairness

(* ------------------------------ properties ----------------------------- *)

(* Every part keeps its types.                                             *)
TypeOK == C!CloudTypeOK /\ D!DemoTypeOK /\ T!TaskAgentsTypeOK /\ F!FetchTypeOK

(* A sensitive AI task never comes near the cloud.                         *)
SensitiveStaysLocal == C!SensitiveStaysLocal

(* The client's copy of the quota says nothing the server did not count    *)
(* for the account and month of the answer read last, and nothing of a     *)
(* month that was over when the program started.                           *)
CopyNotAhead == C!CopyNotAhead

(* No demo run goes on after a question more often than the user said yes. *)
NoResumeWithoutYes == D!NoResumeWithoutYes

(* After a refusal a run of task agents changes no page.                   *)
RefusalFinal == T!RefusalFinal

(* On every hop of every request: no tracker, and no cookie of another     *)
(* partition.                                                              *)
HopsConfined == F!NoTrackerReached /\ F!CookiesStayHome

(* Every call comes to its end: requests after their retries, streams      *)
(* without an answer of the user, task runs after the polls of the solver  *)
(* unless the user or the page never answers, HTTP after its redirects     *)
(* unless a body never ends.                                               *)
CallsEnd ==
  /\ part = "cloud" => C!RequestsEnd
  /\ part = "demo" => D!StreamsEnd
  /\ part = "tasks" => T!RunEnds
  /\ part = "fetch" => F!FetchesEnd
=============================================================================
