----------------------------- MODULE TaskAgents -----------------------------
(***************************************************************************)
(* The task agents of kitsune-agent: the orchestrator has a goal planned   *)
(* as sub-tasks and works them off one after the other; the scripted       *)
(* executor works off a script.  Either way a run is a queue of elementary *)
(* steps: calls of the page, of the model, of the captcha solver and of    *)
(* the user.  An error ends a run of the orchestrator, and the current     *)
(* action of a script.                                                     *)
(*                                                                         *)
(* Scripts go to the page through the window's channel, which may be gone: *)
(* then the call is an error.  Where a script is to answer, the answer is  *)
(* awaited without a timeout, and a page that is busy or shows an alert    *)
(* owes none.                                                              *)
(***************************************************************************)
EXTENDS Naturals, Sequences

CONSTANTS
  MaxTasks, MaxFields,  \* bounds on the plans
  MaxPolls              \* polls of the solver (12)

TaskAgentsAssumption ==
  MaxTasks \in Nat /\ MaxFields \in Nat /\ MaxPolls \in Nat \ {0}

VARIABLES
  mode,      \* "tasks" or "script"
  solver,    \* a captcha solver is configured
  phase,     \* "planning", "running", "done", "failed"
  tasks,     \* sub-tasks or actions still to come
  todo,      \* elementary steps of the one at hand
  polls,     \* polls of the solver so far
  captcha,   \* the page shows a captcha nobody solved
  refused,   \* the user refused something
  defied     \* the page was changed after that

vars == <<mode, solver, phase, tasks, todo, polls, captcha, refused, defied>>

TaskKinds == {"search", "form", "submit", "account", "booking"}
ActionKinds == {"go", "query", "fill", "click", "wait"}
Fields == {"fill", "select", "click", "captcha", "next", "ask", "skip"}
Steps == {"go", "query", "think", "captcha", "sitekey", "poll", "inject", "escalate",
          "fields", "offers", "ask", "type", "press", "select"}

(* fill_field and click_element ask first, whatever was asked before.      *)
Fill == <<"ask", "type">>
Click == <<"ask", "press">>
FillAndSubmit == <<"go", "captcha", "fields">>

StepsOf(task) ==
  CASE task = "search" -> <<"go", "query", "query", "think">>
    [] task = "form" -> FillAndSubmit
    [] task = "submit" -> <<"ask">> \o Click \o <<"query">>
    [] task = "booking" -> <<"offers">>
    [] task \in {"go", "query"} -> <<task>>
    [] task = "fill" -> Fill
    [] task = "click" -> Click
    [] OTHER -> <<>>


Init ==
  /\ mode \in {"tasks", "script"} /\ solver \in BOOLEAN /\ phase = "planning"
  /\ tasks = <<>> /\ todo = <<>> /\ polls = 0
  /\ captcha = FALSE /\ refused = FALSE /\ defied = FALSE

At(step) == phase = "running" /\ todo # <<>> /\ Head(todo) = step

(* The step is done, and those come in its place.                          *)
Then(steps) == todo' = steps \o Tail(todo) /\ UNCHANGED <<phase, tasks>>

(* Faulty: the orchestrator goes on after an error.                        *)
FailsOn == todo' = <<>> /\ UNCHANGED <<phase, tasks>>

Fails ==
  /\ todo' = <<>>
  /\ IF mode = "tasks" THEN phase' = "failed" /\ tasks' = <<>> ELSE UNCHANGED <<phase, tasks>>

(* A call of the model or of the window: it succeeds, or returns an error, *)
(* be it that nobody is there, the status, a bad body or an empty answer.  *)
Completes(steps) == Then(steps) \/ Fails

(* The gate: the call goes on with the approval, or ends with an error.    *)
Checkpoint ==
  \/ Then(<<>>) /\ UNCHANGED refused
  \/ Fails /\ refused' = TRUE

Changes == defied' = (defied \/ refused)
Quiet == UNCHANGED <<mode, solver, captcha, refused, defied, polls>>

(* A script that changes the page is handed to the window, or is not.      *)
Injects ==
  \/ Then(<<>>) /\ Changes
  \/ Fails /\ UNCHANGED defied

(* ------------------------------- planning ------------------------------ *)

SeqUpTo(S, n) == UNION {[1..k -> S] : k \in 0..n}

(* The model plans the goal, or its answer is no plan; a script is given.  *)
Plan ==
  /\ phase = "planning" /\ Quiet /\ UNCHANGED todo
  /\ \/ /\ phase' = "running"
        /\ tasks' \in SeqUpTo(IF mode = "tasks" THEN TaskKinds ELSE ActionKinds, MaxTasks)
     \/ mode = "tasks" /\ phase' = "failed" /\ UNCHANGED tasks

NextTask ==
  /\ phase = "running" /\ todo = <<>> /\ tasks # <<>>
  /\ todo' = StepsOf(Head(tasks)) /\ tasks' = Tail(tasks)
  /\ Quiet /\ UNCHANGED phase

Finish ==
  /\ phase = "running" /\ todo = <<>> /\ tasks = <<>>
  /\ phase' = "done" /\ Quiet /\ UNCHANGED <<todo, tasks>>

(* ------------------------------- the page ------------------------------ *)

(* A new page may show a captcha.  A bad URL is an error.                  *)
Navigate ==
  /\ At("go")
  /\ \/ Then(<<>>) /\ captcha' \in BOOLEAN /\ Changes
     \/ Fails /\ UNCHANGED <<captcha, defied>>
  /\ UNCHANGED <<mode, solver, refused, polls>>

Query == At("query") /\ Completes(<<>>) /\ Quiet

(* The model answers, or answers nothing of use.                           *)
Think == At("think") /\ Completes(<<>>) /\ Quiet

(* The fields of the page are read, and the model maps them to a plan; it  *)
(* ends with the first field that leads to the next page.                  *)
PlanFields ==
  /\ At("fields") /\ Quiet
  /\ \E plan \in SeqUpTo(Fields, MaxFields) :
       /\ \A n \in DOMAIN plan : plan[n] = "next" => n = Len(plan)
       /\ Completes(plan)

(* An option is chosen without asking; an upload is skipped.               *)
DoField ==
  \/ At("fill") /\ (Then(Fill) \/ Then(<<>>)) /\ Quiet
  \/ At("click") /\ Then(Click) /\ Quiet
  \/ At("next") /\ Then(Click \o <<"captcha">>) /\ Quiet
  \/ At("skip") /\ Then(<<>>) /\ Quiet
  \/ /\ At("select") /\ Injects
     /\ UNCHANGED <<mode, solver, captcha, refused, polls>>

(* Offers are fetched and ranked; the best one is booked like any form.    *)
FetchOffers ==
  /\ At("offers") /\ Quiet
  /\ Then(<<>>) \/ Completes(FillAndSubmit)

Ask ==
  /\ At("ask") \/ At("escalate")
  /\ Checkpoint
  /\ captcha' = (captcha /\ ~(At("escalate") /\ ~refused'))
  /\ UNCHANGED <<mode, solver, defied, polls>>

(* The vault grants access to what was approved, or errs; then the script  *)
(* types after a delay.                                                    *)
Type ==
  /\ At("type") /\ Injects
  /\ UNCHANGED <<mode, solver, captcha, refused, polls>>

(* A click may lead to another page.                                       *)
Press ==
  /\ At("press")
  /\ \/ Then(<<>>) /\ Changes /\ captcha' \in BOOLEAN
     \/ Fails /\ UNCHANGED <<captcha, defied>>
  /\ UNCHANGED <<mode, solver, refused, polls>>

(* ------------------------------- captchas ------------------------------ *)

(* What the page answers tells whether there is a captcha; a page that     *)
(* answers nothing of use has none, it seems.                              *)
Detect ==
  /\ At("captcha") /\ Quiet
  /\ \/ Completes(<<>>)
     \/ captcha /\ Then(<<IF solver THEN "sitekey" ELSE "escalate">>)

(* The page tells the site's key and the task is created at the solver;    *)
(* any failure leaves it to the user.                                      *)
StartSolver ==
  /\ At("sitekey")
  /\ Then(<<"poll">>) \/ Then(<<"escalate">>)
  /\ polls' = 0
  /\ UNCHANGED <<mode, solver, captcha, refused, defied>>

(* Faulty: the solver is polled until it is ready.                         *)
PollForever ==
  /\ At("poll")
  /\ \/ Then(<<"poll">>) \/ Then(<<"inject">>) \/ Then(<<"escalate">>)
  /\ polls' = polls + 1
  /\ UNCHANGED <<mode, solver, captcha, refused, defied>>

PollSolver ==
  /\ At("poll")
  /\ \/ polls + 1 < MaxPolls /\ Then(<<"poll">>)
     \/ Then(<<"inject">>)
     \/ Then(<<"escalate">>)
  /\ polls' = IF polls + 1 < MaxPolls THEN polls + 1 ELSE 0
  /\ UNCHANGED <<mode, solver, captcha, refused, defied>>

(* The token goes into the page; if it does not, the user is asked.        *)
Inject ==
  /\ At("inject")
  /\ \/ Then(<<>>) /\ Changes /\ captcha' = FALSE
     \/ Then(<<"escalate">>) /\ UNCHANGED <<captcha, defied>>
  /\ UNCHANGED <<mode, solver, refused, polls>>

(* The calls that await the page's answer.                                 *)
Answered == Query \/ Detect \/ StartSolver \/ PlanFields
AwaitsPage == \E step \in {"query", "captcha", "sitekey", "fields"} : At(step)
AwaitsUser == At("ask") \/ At("escalate")

Machine ==
  \/ Plan \/ NextTask \/ Finish
  \/ Navigate \/ Think \/ DoField \/ FetchOffers \/ Type \/ Press
  \/ PollSolver \/ Inject

TaskAgentsNext == Machine \/ Answered \/ Ask

TaskAgentsSpec == Init /\ [][TaskAgentsNext]_vars

(* Model and solver answer or time out, and the window takes scripts; the  *)
(* page and the user owe no answer.                                        *)
TaskAgentsFairness == WF_vars(Machine)

(* ------------------------------ properties ----------------------------- *)

TaskAgentsTypeOK ==
  /\ mode \in {"tasks", "script"} /\ phase \in {"planning", "running", "done", "failed"}
  /\ tasks \in Seq(TaskKinds \cup ActionKinds) /\ todo \in Seq(Steps \cup Fields)
  /\ polls \in 0..MaxPolls
  /\ solver \in BOOLEAN /\ captcha \in BOOLEAN /\ refused \in BOOLEAN /\ defied \in BOOLEAN

(* When the user has refused anything, a run of the orchestrator changes   *)
(* no page any more, in this sub-task or a later one.                      *)
RefusalFinal == mode = "tasks" => ~defied

(* A run comes to its end, or waits for ever: for a user who leaves a      *)
(* question open, or for a page that does not answer.  Model and solver    *)
(* cannot keep it from its end, whatever they do.                          *)
RunEnds == <>(phase \in {"done", "failed"}) \/ <>[](AwaitsUser \/ AwaitsPage)
=============================================================================
