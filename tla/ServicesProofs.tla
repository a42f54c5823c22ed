--------------------------- MODULE ServicesProofs ---------------------------
(***************************************************************************)
(* Proofs about the calls a run makes outside the browser, for any number  *)
(* of requests, runs and fetches and for any bounds.  Each component keeps *)
(* an inductive invariant of its own; the steps of the other components    *)
(* leave its variables alone.                                              *)
(***************************************************************************)
EXTENDS Services, FiniteSetTheorems, SequenceTheorems, TLAPS

-----------------------------------------------------------------------------
(* Routing.                                                                *)

(* A task that may not leave the machine is not even tried on the way on   *)
(* which a failure leads to the cloud.                                     *)
RouteInv ==
  /\ at \in [Requests -> C!Places]
  /\ \A r \in Requests : kindOf[r] = "sensitive" => at[r] \notin C!InCloud \cup {"trying-local"}

LEMMA RouteInit == Init => RouteInv
  BY DEF Init, C!Init, RouteInv, C!Places, C!InCloud

LEMMA RouteStep ==
  ASSUME RouteInv, Next
  PROVE  RouteInv'
<1> USE DEF RouteInv, C!Places, C!InCloud, C!Ended, C!Go, C!Leave
<1>1. CASE UNCHANGED cloudVars
  BY <1>1 DEF cloudVars
<1>2. CASE C!Logout \/ C!Start \/ C!DownloadModel \/ C!MonthEnds
  BY <1>2 DEF C!Start, C!DownloadModel, C!MonthEnds, C!Logout, C!request
<1>3. CASE C!Stop
  BY <1>3 DEF C!Stop
<1>4. ASSUME NEW r \in Requests, C!Route(r)
      PROVE  RouteInv'
  BY <1>4 DEF C!Route
<1>5. ASSUME NEW r \in Requests, C!LocalCompletes(r)
      PROVE  RouteInv'
  BY <1>5 DEF C!LocalCompletes
<1>6. ASSUME NEW r \in Requests, C!CheckQuota(r)
      PROVE  RouteInv'
  BY <1>6 DEF C!CheckQuota, C!Exhausted
<1>7. ASSUME NEW r \in Requests, C!ServerAnswers(r)
      PROVE  RouteInv'
  BY <1>7 DEF C!ServerAnswers
<1>8. ASSUME NEW r \in Requests, C!Receive(r)
      PROVE  RouteInv'
  BY <1>8 DEF C!Receive, C!Exhausted, C!Retry
<1>9. ASSUME NEW r \in Requests, C!Lost(r) \/ C!BackedOff(r)
      PROVE  RouteInv'
  BY <1>9 DEF C!Lost, C!BackedOff, C!Retry
<1>10. ASSUME NEW a \in Accounts, C!SignIn(a)
       PROVE  RouteInv'
  BY <1>10 DEF C!SignIn, C!request
<1> QED
  BY <1>1, <1>2, <1>3, <1>4, <1>5, <1>6, <1>7, <1>8, <1>9, <1>10
     DEF Next, DemoMoves, TasksMove, FetchMoves, C!CloudNext, C!Step

(* A vault decision or a sensitive form never comes near the cloud,        *)
(* whatever model, quota and network do (router.rs, route).                *)
THEOREM ServicesSensitive == Spec => []SensitiveStaysLocal
<1>1. RouteInv /\ UNCHANGED vars => RouteInv'
  BY DEF RouteInv, vars, cloudVars
<1>2. RouteInv => SensitiveStaysLocal
  BY DEF RouteInv, SensitiveStaysLocal, C!SensitiveStaysLocal
<1> QED
  BY RouteInit, RouteStep, <1>1, <1>2, PTL DEF Spec

-----------------------------------------------------------------------------
(* HTTP.                                                                   *)

(* What a request may carry, from the moment its next hop is known.        *)
MayCarry(f) ==
  \/ cookie[f] \in {F!NoCookie, F!Partition(f)}
  \/ cookie[f] = F!Own /\ OriginOf[url[f]] = OriginOf[ask[f].first]

FetchInv ==
  /\ fetch \in [Fetches -> {"idle", "hop", "sent", "reading"} \cup F!Over]
  /\ ask \in [Fetches -> F!Asks] /\ url \in [Fetches -> Urls]
  /\ cookie \in [Fetches -> {F!NoCookie, F!Own} \cup F!Partitions]
  /\ F!NoTrackerReached
  /\ \A f \in Fetches : fetch[f] \in {"hop", "sent"} => MayCarry(f)

LEMMA OriginsOfUrls ==
  ASSUME NEW u \in Urls
  PROVE  OriginOf[u] \in F!Origins
  BY DEF F!Origins

LEMMA FetchInit == Init => FetchInv
<1> SUFFICES ASSUME Init PROVE FetchInv
  OBVIOUS
<1>1. F!Init
  BY DEF Init
<1>2. ask \in [Fetches -> F!Asks]
  <2>1. PICK u \in Urls : TRUE
    BY ServicesAssumption DEF F!FetchAssumption
  <2>2. [first |-> u, top |-> OriginOf[u], block |-> FALSE, get |-> FALSE] \in F!Asks
    BY OriginsOfUrls DEF F!Asks
  <2> QED
    BY <1>1, <2>2 DEF F!Init
<1>3. url \in [Fetches -> Urls]
  BY <1>1, <1>2 DEF F!Init, F!Asks
<1> QED
  BY <1>1, <1>2, <1>3
     DEF FetchInv, F!Init, F!NoTrackerReached, MayCarry, F!Over

LEMMA SendInv ==
  ASSUME FetchInv, NEW f \in Fetches, NEW a \in F!Asks, NEW own \in BOOLEAN, F!Send(f, a, own)
  PROVE  FetchInv'
<1> USE DEF F!Send, F!Go, F!Asks
<1>1. /\ (fetch \in [Fetches -> {"idle", "hop", "sent", "reading"} \cup F!Over])'
      /\ (ask \in [Fetches -> F!Asks])' /\ (url \in [Fetches -> Urls])'
      /\ (cookie \in [Fetches -> {F!NoCookie, F!Own} \cup F!Partitions])'
  BY DEF FetchInv
<1>2. F!NoTrackerReached'
  BY DEF FetchInv, F!NoTrackerReached, F!Over
<1>3. \A g \in Fetches : (fetch[g] \in {"hop", "sent"} => MayCarry(g))'
  BY DEF FetchInv, MayCarry, F!Partition
<1> QED
  BY <1>1, <1>2, <1>3 DEF FetchInv

LEMMA HopInv ==
  ASSUME FetchInv, NEW f \in Fetches, F!Hop(f)
  PROVE  FetchInv'
<1> USE DEF F!Hop, F!Go, F!Injected, F!Tracked, F!Over
<1>1. F!Partition(f) \in F!Partitions
  BY OriginsOfUrls DEF FetchInv, F!Partition, F!Partitions, F!Asks
<1>2. /\ (fetch \in [Fetches -> {"idle", "hop", "sent", "reading"} \cup F!Over])'
      /\ (ask \in [Fetches -> F!Asks])' /\ (url \in [Fetches -> Urls])'
      /\ (cookie \in [Fetches -> {F!NoCookie, F!Own} \cup F!Partitions])'
  BY <1>1 DEF FetchInv
<1>3. F!NoTrackerReached'
  BY DEF FetchInv, F!NoTrackerReached
<1>4. \A g \in Fetches : (fetch[g] \in {"hop", "sent"} => MayCarry(g))'
  BY DEF FetchInv, MayCarry, F!Partition
<1> QED
  BY <1>2, <1>3, <1>4 DEF FetchInv

LEMMA RedirectInv ==
  ASSUME FetchInv, NEW f \in Fetches, NEW v \in Urls, F!Redirect(f, v)
  PROVE  FetchInv'
<1> USE DEF F!Redirect, F!Go, F!Followed, F!Over
<1>1. /\ (fetch \in [Fetches -> {"idle", "hop", "sent", "reading"} \cup F!Over])'
      /\ (ask \in [Fetches -> F!Asks])' /\ (url \in [Fetches -> Urls])'
      /\ (cookie \in [Fetches -> {F!NoCookie, F!Own} \cup F!Partitions])'
  BY DEF FetchInv
<1>2. F!NoTrackerReached'
  BY DEF FetchInv, F!NoTrackerReached
<1>3. \A g \in Fetches : (fetch[g] \in {"hop", "sent"} => MayCarry(g))'
  BY DEF FetchInv, MayCarry, F!Partition
<1> QED
  BY <1>1, <1>2, <1>3 DEF FetchInv

(* Steps that change neither address nor header.                           *)
LEMMA OtherFetchInv ==
  ASSUME FetchInv, NEW f \in Fetches,
         UNCHANGED <<ask, url, cookie>>,
         \/ fetch' \in {[fetch EXCEPT ![f] = "answered"], [fetch EXCEPT ![f] = "failed"]}
         \/ fetch[f] = "sent" /\ fetch' = [fetch EXCEPT ![f] = "reading"]
         \/ UNCHANGED fetch
  PROVE  FetchInv'
<1>1. (fetch \in [Fetches -> {"idle", "hop", "sent", "reading"} \cup F!Over])'
  BY DEF FetchInv, F!Over
<1>2. F!NoTrackerReached'
  BY DEF FetchInv, F!NoTrackerReached
<1>3. \A g \in Fetches : (fetch[g] \in {"hop", "sent"} => MayCarry(g))'
  BY DEF FetchInv, MayCarry, F!Partition
<1> QED
  BY <1>1, <1>2, <1>3 DEF FetchInv

LEMMA FetchStep ==
  ASSUME FetchInv, Next
  PROVE  FetchInv'
<1>1. CASE UNCHANGED <<fetch, ask, url, cookie>>
  BY <1>1 DEF FetchInv, F!NoTrackerReached, MayCarry, F!Partition
<1>2. ASSUME NEW f \in Fetches,
             F!ServeInternalPage(f) \/ F!HopFails(f) \/ F!Answer(f) \/ F!ReadBody(f)
      PROVE  FetchInv'
  BY <1>2, OtherFetchInv DEF F!ServeInternalPage, F!HopFails, F!Answer, F!ReadBody, F!Go
<1> QED
  BY <1>1, <1>2, SendInv, HopInv, RedirectInv
     DEF Next, CloudMoves, DemoMoves, TasksMove, fetchVars, F!FetchNext, F!Exchange, F!Stales

(* On every hop of every request: no tracker, and no cookie of another     *)
(* partition (client.rs, the redirect loop).                               *)
THEOREM ServicesHopsConfined == Spec => []HopsConfined
<1>1. FetchInv /\ UNCHANGED vars => FetchInv'
  BY DEF FetchInv, vars, fetchVars, F!NoTrackerReached, MayCarry, F!Partition
<1>2. FetchInv => HopsConfined
  BY DEF FetchInv, HopsConfined, F!CookiesStayHome, MayCarry
<1> QED
  BY FetchInit, FetchStep, <1>1, <1>2, PTL DEF Spec
-----------------------------------------------------------------------------
(* The demo server.                                                        *)

(* Runs for which a yes is on its way.                                     *)
Permitted == {r \in Runs : stream[r] = "waiting" /\ verdict[r] = "yes"}

ConsentTypes ==
  /\ stream \in [Runs -> D!Places] /\ verdict \in [Runs -> D!Verdicts]
  /\ hilTx \in Runs \cup {NoRun}
  /\ approvals \in Nat /\ resumed \in Nat

(* The run whose sender is in the slot was not answered and asks nothing   *)
(* else.                                                                   *)
SenderUnused ==
  hilTx # NoRun => verdict[hilTx] = "none" /\ stream[hilTx] \in {"waiting"} \cup D!Over

(* An approval is spent once, or still on its way.                         *)
YesCounted ==
  /\ IsFiniteSet(Permitted)
  /\ resumed + Cardinality(Permitted) <= approvals

ConsentInv == ConsentTypes /\ SenderUnused /\ YesCounted

LEMMA ConsentInit == Init => ConsentInv
<1> SUFFICES ASSUME Init PROVE ConsentInv
  OBVIOUS
<1>1. D!Init /\ Permitted = {}
  BY DEF Init, D!Init, Permitted
<1> QED
  BY <1>1, FS_EmptySet
     DEF ConsentInv, ConsentTypes, SenderUnused, YesCounted, D!Init, D!Places, D!Verdicts

(* Fewer on their way, and nothing else: the count stays right.            *)
LEMMA YesKept ==
  ASSUME ConsentInv, Permitted' \subseteq Permitted, UNCHANGED <<approvals, resumed>>
  PROVE  YesCounted'
<1>1. IsFiniteSet(Permitted') /\ Cardinality(Permitted') <= Cardinality(Permitted)
  BY FS_Subset DEF ConsentInv, YesCounted
<1>2. Cardinality(Permitted) \in Nat /\ Cardinality(Permitted') \in Nat
  BY <1>1, FS_CardinalityType DEF ConsentInv, YesCounted
<1> QED
  BY <1>1, <1>2 DEF ConsentInv, ConsentTypes, YesCounted

LEMMA DemoMoveInv ==
  ASSUME ConsentInv, NEW r \in Runs,
         \/ D!AgentRun(r) \/ D!PlanActions(r) \/ D!SwarmPlan(r) \/ D!StreamAction(r)
         \/ D!AskUser(r) \/ D!Timeout(r) \/ D!ClientLeaves(r)
  PROVE  ConsentInv'
<1> USE DEF ConsentInv, D!AgentRun, D!PlanActions, D!SwarmPlan, D!StreamAction, D!AskUser,
            D!Timeout, D!ClientLeaves, D!Go
<1>1. ConsentTypes'
  BY DEF ConsentTypes, D!Places, D!Over
<1>2. SenderUnused'
  BY DEF ConsentTypes, SenderUnused, D!Over
<1>3. Permitted' \subseteq Permitted
  BY DEF ConsentTypes, Permitted
<1> QED
  BY <1>1, <1>2, <1>3, YesKept

LEMMA PutSenderInv ==
  ASSUME ConsentInv, NEW r \in Runs, D!PutSender(r)
  PROVE  ConsentInv'
<1> USE ServicesAssumption DEF ConsentInv, D!PutSender, D!Go, D!DemoAssumption
<1>1. ConsentTypes'
  BY DEF ConsentTypes, D!Places, D!Verdicts
<1>2. SenderUnused'
  BY DEF ConsentTypes, SenderUnused, D!Over
<1>3. Permitted' \subseteq Permitted
  BY DEF ConsentTypes, Permitted
<1> QED
  BY <1>1, <1>2, <1>3, YesKept

LEMMA DemoReceiveInv ==
  ASSUME ConsentInv, NEW r \in Runs, D!Receive(r)
  PROVE  ConsentInv'
<1> USE ServicesAssumption DEF ConsentInv, D!Receive, D!Go, D!DemoAssumption
<1>1. ConsentTypes'
  BY DEF ConsentTypes, D!Places, D!Over
<1>2. SenderUnused'
  BY DEF ConsentTypes, SenderUnused, D!Over
<1>3. CASE verdict[r] = "yes"
  <2>1. r \in Permitted /\ Permitted' = Permitted \ {r} /\ resumed' = resumed + 1
    BY <1>3 DEF ConsentTypes, Permitted
  <2>2. IsFiniteSet(Permitted') /\ Cardinality(Permitted') = Cardinality(Permitted) - 1
    BY <2>1, FS_RemoveElement DEF YesCounted
  <2>3. Cardinality(Permitted) \in Nat
    BY FS_CardinalityType DEF YesCounted
  <2> QED
    BY <1>1, <1>2, <2>1, <2>2, <2>3 DEF ConsentTypes, YesCounted
<1>4. CASE verdict[r] # "yes"
  <2>1. Permitted' \subseteq Permitted
    BY <1>4 DEF ConsentTypes, Permitted
  <2> QED
    BY <1>1, <1>2, <1>4, <2>1, YesKept
<1> QED
  BY <1>3, <1>4

LEMMA HilResponseInv ==
  ASSUME ConsentInv, NEW approved \in BOOLEAN, D!HilResponse(approved)
  PROVE  ConsentInv'
<1> USE ServicesAssumption DEF ConsentInv, D!HilResponse, D!DemoAssumption
<1>1. ConsentTypes'
  BY DEF ConsentTypes, D!Verdicts
<1>2. SenderUnused'
  BY DEF SenderUnused
<1>3. CASE approved /\ hilTx # NoRun
  <2>1. /\ approvals' = approvals + 1 /\ resumed' = resumed
        /\ hilTx \notin Permitted
        /\ Permitted' \subseteq Permitted \cup {hilTx}
    BY <1>3 DEF ConsentTypes, SenderUnused, Permitted
  <2>2. /\ IsFiniteSet(Permitted \cup {hilTx})
        /\ Cardinality(Permitted \cup {hilTx}) = Cardinality(Permitted) + 1
    BY <2>1, FS_AddElement DEF YesCounted
  <2>3. IsFiniteSet(Permitted') /\ Cardinality(Permitted') <= Cardinality(Permitted) + 1
    BY <2>1, <2>2, FS_Subset
  <2>4. Cardinality(Permitted) \in Nat /\ Cardinality(Permitted') \in Nat
    BY <2>3, FS_CardinalityType DEF YesCounted
  <2> QED
    BY <1>1, <1>2, <2>1, <2>3, <2>4 DEF ConsentTypes, YesCounted
<1>4. CASE ~(approved /\ hilTx # NoRun)
  <2>1. Permitted' \subseteq Permitted /\ UNCHANGED <<approvals, resumed>>
    BY <1>4 DEF ConsentTypes, SenderUnused, Permitted
  <2> QED
    BY <1>1, <1>2, <2>1, YesKept
<1> QED
  BY <1>3, <1>4

LEMMA ConsentStep ==
  ASSUME ConsentInv, Next
  PROVE  ConsentInv'
<1>1. CASE UNCHANGED <<stream, verdict, hilTx, approvals, resumed>>
  BY <1>1 DEF ConsentInv, ConsentTypes, SenderUnused, YesCounted, Permitted
<1> QED
  BY <1>1, DemoMoveInv, PutSenderInv, DemoReceiveInv, HilResponseInv
     DEF Next, CloudMoves, TasksMove, FetchMoves, demoVars, D!DemoNext, D!Stream, D!SaveSettings

(* No demo run goes on after a question more often than the user said yes  *)
(* (kitsune-cloud-mock, the slot hil_tx).                                  *)
THEOREM ServicesConsent == Spec => []NoResumeWithoutYes
<1>1. ConsentInv /\ UNCHANGED vars => ConsentInv'
  BY DEF ConsentInv, ConsentTypes, SenderUnused, YesCounted, Permitted, vars, demoVars
<1>2. ConsentInv => NoResumeWithoutYes
  BY FS_CardinalityType
     DEF ConsentInv, ConsentTypes, YesCounted, NoResumeWithoutYes, D!NoResumeWithoutYes
<1> QED
  BY ConsentInit, ConsentStep, <1>1, <1>2, PTL DEF Spec

-----------------------------------------------------------------------------
(* The task agents.                                                        *)

RefusalInv ==
  /\ mode = "tasks" /\ refused => phase = "failed"
  /\ T!RefusalFinal

(* A step of a run that did not fail and that does not ask the user.       *)
LEMMA RefusalQuiet ==
  ASSUME RefusalInv, phase # "failed", mode' = mode, refused' = refused,
         defied' = defied \/ T!Changes
  PROVE  RefusalInv'
<1>1. CASE defied' = defied
  BY <1>1, Zenon DEF RefusalInv, T!RefusalFinal
<1>2. CASE T!Changes
  BY <1>2, Zenon DEF RefusalInv, T!RefusalFinal, T!Changes
<1> QED
  BY <1>1, <1>2

LEMMA RefusalStep ==
  ASSUME RefusalInv, Next
  PROVE  RefusalInv'
<1>1. CASE UNCHANGED taskVars
  BY <1>1 DEF RefusalInv, T!RefusalFinal, taskVars
<1>2. CASE T!Plan \/ T!NextTask \/ T!Finish
  <2>1. phase # "failed" /\ mode' = mode /\ refused' = refused /\ defied' = defied
    BY <1>2 DEF T!Plan, T!NextTask, T!Finish, T!Quiet
  <2> QED
    BY <2>1, RefusalQuiet
<1>3. CASE T!Navigate \/ T!Type \/ T!Press \/ T!Inject
  <2>1. phase # "failed" /\ mode' = mode /\ refused' = refused
    BY <1>3 DEF T!Navigate, T!Type, T!Press, T!Inject, T!At
  <2>2. defied' = defied \/ T!Changes
    BY <1>3 DEF T!Navigate, T!Type, T!Press, T!Inject, T!Injects
  <2> QED
    BY <2>1, <2>2, RefusalQuiet
<1>4. CASE T!Query \/ T!Think \/ T!PlanFields \/ T!FetchOffers \/ T!Detect
  <2>1. phase # "failed" /\ mode' = mode /\ refused' = refused /\ defied' = defied
    BY <1>4 DEF T!Query, T!Think, T!PlanFields, T!FetchOffers, T!Detect, T!At, T!Quiet
  <2> QED
    BY <2>1, RefusalQuiet
<1>5. CASE T!DoField
  <2>1. phase # "failed" /\ mode' = mode /\ refused' = refused
    BY <1>5 DEF T!DoField, T!At, T!Quiet
  <2>2. defied' = defied \/ T!Changes
    BY <1>5 DEF T!DoField, T!Injects, T!Quiet
  <2> QED
    BY <2>1, <2>2, RefusalQuiet
<1>6. CASE T!Ask
  BY <1>6 DEF RefusalInv, T!RefusalFinal, T!Ask, T!Checkpoint, T!At, T!Then, T!Fails
<1>7. CASE T!StartSolver \/ T!PollSolver
  BY <1>7 DEF RefusalInv, T!RefusalFinal, T!StartSolver, T!PollSolver, T!At, T!Then
<1> QED
  BY <1>1, <1>2, <1>3, <1>4, <1>5, <1>6, <1>7
     DEF Next, CloudMoves, DemoMoves, FetchMoves, T!TaskAgentsNext, T!Machine, T!Answered

(* After a refusal a run of the orchestrator changes no page, in this      *)
(* sub-task or a later one (orchestrator.rs, the loop over the sub-tasks). *)
THEOREM ServicesRefusal == Spec => []RefusalFinal
<1>1. Init => RefusalInv
  BY DEF Init, T!Init, RefusalInv, T!RefusalFinal
<1>2. RefusalInv /\ UNCHANGED vars => RefusalInv'
  BY DEF RefusalInv, T!RefusalFinal, vars, taskVars
<1>3. RefusalInv => RefusalFinal
  BY DEF RefusalInv, RefusalFinal
<1> QED
  BY <1>1, RefusalStep, <1>2, <1>3, PTL DEF Spec

-----------------------------------------------------------------------------
(* The quota.                                                              *)

CountTypes ==
  /\ at \in [Requests -> C!Places] /\ reply \in [Requests -> C!Reply]
  /\ cache \in C!Copy /\ disk \in C!Copy
  /\ month \in C!Months /\ counted \in [Accounts -> [C!Months -> 0..Limit]]
  /\ {token, account} \subseteq Accounts \cup {NoAccount}

(* No copy is from the future.                                             *)
CopiesPast == cache.month <= month /\ disk.month <= month

(* Calls end with their process.                                           *)
CallsNeedProcess ==
  ~C!Running => \A r \in Requests : at[r] \in {"idle"} \cup C!Ended /\ reply[r] = C!NoReply

(* What an answer on its way will put into the copy.                       *)
RepliesNotAhead ==
  \A r \in Requests : reply[r].code = "ok" =>
    cache.month <= reply[r].when /\ Limit - reply[r].remaining <= counted[account][reply[r].when]

QuotaInv ==
  /\ CountTypes
  /\ CopiesPast
  /\ CallsNeedProcess
  /\ RepliesNotAhead
  /\ C!CopyNotAhead

LEMMA FreshIsCopy ==
  ASSUME month \in C!Months
  PROVE  /\ C!Fresh \in C!Copy /\ C!Fresh.used = 0 /\ C!Fresh.month = month
         /\ C!Fresh.when = month /\ C!Fresh.whose = NoAccount
  BY ServicesAssumption DEF C!CloudAssumption, C!Fresh, C!Copy

LEMMA QuotaInit == Init => QuotaInv
<1> SUFFICES ASSUME Init PROVE QuotaInv
  OBVIOUS
<1> USE ServicesAssumption DEF Init, C!Init, C!CloudAssumption
<1>1. month \in C!Months /\ counted \in [Accounts -> [C!Months -> 0..Limit]]
  BY DEF C!Months
<1>2. CountTypes
  BY <1>1, FreshIsCopy DEF CountTypes, C!Places, C!Reply, C!NoReply, C!Months
<1> QED
  BY <1>1, <1>2, FreshIsCopy
     DEF QuotaInv, CopiesPast, CallsNeedProcess, RepliesNotAhead, C!CopyNotAhead, C!NoReply,
         C!Months

(* Steps of requests that change neither copies nor counts.                *)
LEMMA QuotaPlaces ==
  ASSUME QuotaInv, NEW r \in Requests, C!Running,
         \E place \in C!Places : at' = [at EXCEPT ![r] = place],
         reply' = reply \/ reply' = [reply EXCEPT ![r] = C!NoReply],
         UNCHANGED <<token, account, cache, disk, month, counted>>
  PROVE  QuotaInv'
<1> USE ServicesAssumption DEF QuotaInv, C!CloudAssumption
<1>1. C!NoReply \in C!Reply /\ C!NoReply.code = "none"
  BY DEF C!NoReply, C!Reply, C!Months
<1>2. CountTypes'
  BY <1>1 DEF CountTypes
<1>3. CallsNeedProcess'
  BY DEF CallsNeedProcess, C!Running
<1>4. CopiesPast' /\ C!CopyNotAhead'
  BY DEF CopiesPast, C!CopyNotAhead
<1>5. RepliesNotAhead'
  BY <1>1 DEF RepliesNotAhead, CountTypes
<1> QED
  BY <1>2, <1>3, <1>4, <1>5

(* A process that is waiting for something is running.                     *)
LEMMA AwakeIsRunning ==
  ASSUME QuotaInv, NEW r \in Requests, at[r] \notin {"idle"} \cup C!Ended
  PROVE  C!Running
  BY DEF QuotaInv, CallsNeedProcess

LEMMA QuotaStartStop ==
  ASSUME QuotaInv, \/ C!Start \/ C!Stop \/ C!Logout \/ C!DownloadModel
                   \/ \E a \in Accounts : C!SignIn(a)
  PROVE  QuotaInv'
<1> USE ServicesAssumption DEF QuotaInv, C!CloudAssumption, C!request, C!server
<1>1. CASE C!Start
  <2>1. /\ cache' \in {disk, C!Fresh} /\ disk' \in {disk, C!Fresh}
        /\ UNCHANGED <<token, at, reply, month, counted>>
        /\ \A r \in Requests : reply[r] = C!NoReply
        /\ account' = token /\ account' # NoAccount
    BY <1>1 DEF C!Start, C!Loaded, CallsNeedProcess
  <2>2. month \in C!Months
    BY DEF CountTypes
  <2>3. cache' \in C!Copy /\ disk' \in C!Copy
    BY <2>1, <2>2, FreshIsCopy DEF CountTypes
  <2>4. CountTypes'
    BY <2>1, <2>3 DEF CountTypes
  <2>5. CopiesPast' /\ C!CopyNotAhead'
    BY <2>1, <2>2, FreshIsCopy DEF C!Months, CopiesPast, C!CopyNotAhead
  <2>6. CallsNeedProcess' /\ RepliesNotAhead'
    BY <2>1 DEF CallsNeedProcess, RepliesNotAhead, C!Running, C!NoReply
  <2> QED
    BY <2>4, <2>5, <2>6
<1>2. CASE C!Stop
  <2>1. CountTypes'
    BY <1>2 DEF C!Stop, CountTypes, C!Places, C!Ended, C!Reply, C!NoReply, C!Months
  <2>2. CallsNeedProcess'
    BY <1>2 DEF C!Stop, CountTypes, CallsNeedProcess, C!Ended
  <2>3. CopiesPast' /\ C!CopyNotAhead' /\ RepliesNotAhead'
    BY <1>2 DEF C!Stop, CopiesPast, C!CopyNotAhead, RepliesNotAhead, C!NoReply
  <2> QED
    BY <2>1, <2>2, <2>3
<1>3. CASE C!Logout \/ C!DownloadModel \/ \E a \in Accounts : C!SignIn(a)
  <2>1. /\ token' \in Accounts \cup {NoAccount}
        /\ UNCHANGED <<account, at, reply, cache, disk, month, counted>>
    BY <1>3 DEF C!SignIn, C!Logout, C!DownloadModel, CountTypes
  <2> QED
    BY <2>1
       DEF CountTypes, CopiesPast, C!CopyNotAhead, CallsNeedProcess, RepliesNotAhead, C!Running
<1> QED
  BY <1>1, <1>2, <1>3

LEMMA QuotaAnswers ==
  ASSUME QuotaInv, NEW r \in Requests, C!ServerAnswers(r)
  PROVE  QuotaInv'
<1> USE ServicesAssumption DEF QuotaInv, C!CloudAssumption, C!process
<1>1. C!Running /\ UNCHANGED <<token, account, at, cache, disk, month>>
  BY AwakeIsRunning DEF C!ServerAnswers, C!Ended
<1>2. account \in Accounts /\ month \in C!Months
  BY <1>1 DEF C!Running, CountTypes
<1>3. counted[account][month] \in 0..Limit
  BY <1>2 DEF CountTypes
(* Only the running account's count of this month grows.                   *)
<1>4. /\ counted' \in [Accounts -> [C!Months -> 0..Limit]]
      /\ \A a \in Accounts, m \in C!Months : counted[a][m] <= counted'[a][m]
  <2>1. CASE UNCHANGED counted
    BY <2>1 DEF CountTypes
  <2>2. CASE /\ counted[account][month] < Limit
             /\ counted' = [counted EXCEPT ![account][month] = counted[account][month] + 1]
    <3>1. counted[account][month] + 1 \in 0..Limit
      BY <1>3, <2>2
    <3> QED
      BY <1>2, <2>2, <3>1 DEF CountTypes
  <2> QED
    BY <2>1, <2>2 DEF C!ServerAnswers
<1>5. PICK a \in C!Reply :
        /\ reply' = [reply EXCEPT ![r] = a]
        /\ a.code = "ok" => a.when = month /\ Limit - a.remaining <= counted'[account][month]
  <2>1. CASE \E c \in {"exhausted", "server-error", "client-error"} : C!Says(r, c)
    <3>1. PICK c \in {"exhausted", "server-error", "client-error"} : C!Says(r, c)
      BY <2>1
    <3>2. /\ [C!NoReply EXCEPT !.code = c] \in C!Reply
          /\ [C!NoReply EXCEPT !.code = c].code = c
      BY DEF C!NoReply, C!Reply, C!Answers, C!Months
    <3> QED
      BY <3>1, <3>2 DEF C!Says
  <2>2. CASE /\ counted[account][month] < Limit
             /\ reply' = [reply EXCEPT ![r] =
                  [code |-> "ok", remaining |-> Limit - counted[account][month] - 1,
                   when |-> month]]
             /\ counted' = [counted EXCEPT ![account][month] = counted[account][month] + 1]
    <3> DEFINE a == [code |-> "ok", remaining |-> Limit - counted[account][month] - 1,
                     when |-> month]
    <3>1. a \in C!Reply
      BY <1>2, <1>3, <2>2 DEF C!Reply, C!Answers
    <3>2. counted'[account][month] = counted[account][month] + 1
      BY <1>2, <2>2 DEF CountTypes
    <3>3. a.when = month /\ Limit - a.remaining <= counted'[account][month]
      BY <1>3, <3>2
    <3> QED
      BY <2>2, <3>1, <3>3
  <2> QED
    BY <2>1, <2>2 DEF C!ServerAnswers
<1>6. CountTypes' /\ CallsNeedProcess'
  BY <1>1, <1>4, <1>5 DEF CountTypes, CallsNeedProcess, C!Running
<1>7. RepliesNotAhead'
  <2> SUFFICES ASSUME NEW q \in Requests, reply'[q].code = "ok"
               PROVE  /\ cache'.month <= reply'[q].when
                      /\ Limit - reply'[q].remaining <= counted'[account'][reply'[q].when]
    BY DEF RepliesNotAhead
  <2>1. CASE q = r
    BY <1>1, <1>5, <2>1 DEF CountTypes, CopiesPast
  <2>2. CASE q # r
    <3>1. reply'[q] = reply[q] /\ reply[q] \in C!Reply
      BY <1>5, <2>2 DEF CountTypes
    <3>2. reply[q].when \in C!Months /\ Limit - reply[q].remaining \in Int
      BY <3>1 DEF C!Reply
    <3>3. /\ cache.month <= reply[q].when
          /\ Limit - reply[q].remaining <= counted[account][reply[q].when]
      BY <3>1 DEF RepliesNotAhead
    <3>4. /\ counted[account][reply[q].when] <= counted'[account][reply[q].when]
          /\ counted[account][reply[q].when] \in Int /\ counted'[account][reply[q].when] \in Int
      BY <1>2, <1>4, <3>2 DEF CountTypes
    <3> QED
      BY <1>1, <3>1, <3>2, <3>3, <3>4
  <2> QED
    BY <2>1, <2>2
<1>8. CopiesPast' /\ C!CopyNotAhead'
  <2>1. CopiesPast'
    BY <1>1 DEF CopiesPast
  <2> SUFFICES ASSUME NEW copy \in {cache, disk}, copy.used > 0
               PROVE  /\ copy.whose \in Accounts /\ copy.month <= copy.when
                      /\ copy.used <= counted'[copy.whose][copy.when]
    BY <1>1, <2>1 DEF C!CopyNotAhead
  <2>2. copy.when \in C!Months /\ copy.used \in Int
    BY DEF CountTypes, C!Copy
  <2>3. /\ copy.whose \in Accounts /\ copy.month <= copy.when
        /\ copy.used <= counted[copy.whose][copy.when]
    BY DEF C!CopyNotAhead
  <2>4. /\ counted[copy.whose][copy.when] <= counted'[copy.whose][copy.when]
        /\ counted[copy.whose][copy.when] \in Int /\ counted'[copy.whose][copy.when] \in Int
    BY <1>4, <2>2, <2>3 DEF CountTypes
  <2> QED
    BY <2>2, <2>3, <2>4
<1> QED
  BY <1>6, <1>7, <1>8

LEMMA QuotaReceive ==
  ASSUME QuotaInv, NEW r \in Requests, C!Receive(r)
  PROVE  QuotaInv'
<1> USE ServicesAssumption DEF C!CloudAssumption
<1>1. C!Running
  BY AwakeIsRunning DEF C!Receive, C!Ended
<1>2. /\ \E place \in C!Places : at' = [at EXCEPT ![r] = place]
      /\ reply' = [reply EXCEPT ![r] = C!NoReply]
      /\ UNCHANGED <<token, account, month, counted>>
  BY DEF C!Receive, C!Go, C!Leave, C!Exhausted, C!Retry, C!Places, C!InCloud, C!Ended, C!process,
         C!server
<1>3. CASE UNCHANGED <<cache, disk>>
  BY <1>1, <1>2, <1>3, QuotaPlaces
<1>4. CASE /\ reply[r].code = "ok"
           /\ cache' = C!Synced(reply[r]) /\ disk' \in {disk, cache'}
  <2> USE DEF QuotaInv
  <2>1. /\ reply[r].remaining \in 0..Limit /\ reply[r].when \in C!Months
        /\ account \in Accounts
    BY <1>1 DEF CountTypes, C!Reply, C!Running
  <2>2. /\ cache' \in C!Copy /\ cache'.month = cache.month
        /\ cache'.used = Limit - reply[r].remaining
        /\ cache'.whose = account /\ cache'.when = reply[r].when
    <3>1. Limit - reply[r].remaining \in 0..Limit /\ account \in Accounts \cup {NoAccount}
      BY <2>1
    <3>2. cache \in C!Copy
      BY DEF CountTypes
    <3> QED
      BY <1>4, <2>1, <3>1, <3>2 DEF C!Synced, C!Copy
  <2>3. CountTypes' /\ CallsNeedProcess' /\ CopiesPast'
    <3>1. C!NoReply \in C!Reply
      BY DEF C!NoReply, C!Reply, C!Months
    <3>2. CountTypes'
      BY <1>2, <1>4, <2>2, <3>1 DEF CountTypes
    <3> QED
      BY <1>1, <1>2, <1>4, <2>2, <3>2 DEF CallsNeedProcess, CopiesPast, C!Running
  <2>4. RepliesNotAhead'
    BY <1>2, <2>2 DEF RepliesNotAhead, CountTypes, C!NoReply
  <2>5. /\ cache'.month <= cache'.when
        /\ cache'.used <= counted[cache'.whose][cache'.when]
    BY <1>4, <2>2 DEF RepliesNotAhead
  <2>6. C!CopyNotAhead'
    BY <1>2, <1>4, <2>1, <2>2, <2>5 DEF C!CopyNotAhead
  <2> QED
    BY <2>3, <2>4, <2>6
<1> QED
  BY <1>3, <1>4 DEF C!Receive

LEMMA QuotaMonth ==
  ASSUME QuotaInv, C!MonthEnds
  PROVE  QuotaInv'
<1> USE ServicesAssumption DEF QuotaInv, C!CloudAssumption, C!MonthEnds, C!request, C!process
<1>1. CountTypes' /\ CallsNeedProcess'
  BY DEF CountTypes, CallsNeedProcess, C!Running, C!Months
<1>2. cache.month \in Nat /\ disk.month \in Nat /\ month \in Nat
  BY DEF CountTypes, C!Copy, C!Months
<1>3. CopiesPast'
  BY <1>2 DEF CopiesPast
<1>4. RepliesNotAhead' /\ C!CopyNotAhead'
  BY DEF RepliesNotAhead, C!CopyNotAhead
<1> QED
  BY <1>1, <1>3, <1>4

LEMMA QuotaStep ==
  ASSUME QuotaInv, Next
  PROVE  QuotaInv'
<1>1. CASE UNCHANGED cloudVars
  BY <1>1 DEF cloudVars, QuotaInv, CountTypes, CopiesPast, CallsNeedProcess, RepliesNotAhead,
              C!CopyNotAhead, C!Running
<1>2. ASSUME NEW r \in Requests, C!Route(r)
      PROVE  QuotaInv'
  <2>1. C!Running
    BY <1>2 DEF C!Route
  <2>2. /\ \E place \in C!Places : at' = [at EXCEPT ![r] = place]
        /\ UNCHANGED <<token, account, reply, cache, disk, month, counted>>
    BY <1>2 DEF C!Route, C!Go, C!Places, C!InCloud, C!Ended, C!process, C!server
  <2> QED
    BY <2>1, <2>2, QuotaPlaces
<1>3. ASSUME NEW r \in Requests,
             C!LocalCompletes(r) \/ C!CheckQuota(r) \/ C!Lost(r) \/ C!BackedOff(r)
      PROVE  QuotaInv'
  <2>1. C!Running
    BY <1>3, AwakeIsRunning
       DEF C!LocalCompletes, C!CheckQuota, C!Lost, C!BackedOff, C!Ended
  <2>2. /\ \E place \in C!Places : at' = [at EXCEPT ![r] = place]
        /\ reply' = reply \/ reply' = [reply EXCEPT ![r] = C!NoReply]
        /\ UNCHANGED <<token, account, cache, disk, month, counted>>
    BY <1>3
       DEF C!LocalCompletes, C!CheckQuota, C!Lost, C!BackedOff, C!Go, C!Leave, C!Exhausted,
           C!Retry, C!Places, C!InCloud, C!Ended, C!process, C!server
  <2> QED
    BY <2>1, <2>2, QuotaPlaces
<1> QED
  BY <1>1, <1>2, <1>3, QuotaStartStop, QuotaAnswers, QuotaReceive, QuotaMonth
     DEF Next, DemoMoves, TasksMove, FetchMoves, C!CloudNext, C!Step

(* The client's copy of the quota, in memory or on disk, says nothing, or  *)
(* no more than the server counted for the account and the month of the    *)
(* answer read last, and nothing of a month that was over when the program *)
(* started (quota.rs, cloud.rs).                                           *)
THEOREM ServicesCopyNotAhead == Spec => []CopyNotAhead
<1>1. QuotaInv /\ UNCHANGED vars => QuotaInv'
  BY DEF vars, cloudVars, QuotaInv, CountTypes, CopiesPast, CallsNeedProcess, RepliesNotAhead,
         C!CopyNotAhead, C!Running
<1>2. QuotaInv => CopyNotAhead
  BY DEF QuotaInv, CopyNotAhead
<1> QED
  BY QuotaInit, QuotaStep, <1>1, <1>2, PTL DEF Spec

-----------------------------------------------------------------------------
(* Types.                                                                  *)

CloudOthersTyped ==
  /\ kindOf \in Mixes
  /\ local \in BOOLEAN /\ model \in {"absent", "complete"}
  /\ attempt \in [Requests -> 0..MaxRetries]

LEMMA CloudStepTyped ==
  ASSUME CloudOthersTyped, Next
  PROVE  CloudOthersTyped'
<1> USE DEF CloudOthersTyped, C!process, C!request
<1>1. CASE UNCHANGED cloudVars
  BY <1>1, Zenon DEF cloudVars
<1>2. CASE C!Logout \/ C!MonthEnds \/ \E a \in Accounts : C!SignIn(a)
  BY <1>2, Zenon DEF C!SignIn, C!Logout, C!MonthEnds
<1>3. CASE C!Start
  BY <1>3, Zenon DEF C!Start
<1>4. CASE C!Stop
  <2>1. UNCHANGED <<kindOf, model>> /\ local' = FALSE /\ attempt' = [r \in Requests |-> 0]
    BY <1>4 DEF C!Stop
  <2>2. attempt' \in [Requests -> 0..MaxRetries]
    BY <2>1, ServicesAssumption DEF C!CloudAssumption
  <2> QED
    BY <2>1, <2>2, Zenon
<1>5. CASE C!DownloadModel
  <2>1. UNCHANGED <<local, kindOf, attempt>> /\ model' = "complete"
    BY <1>5 DEF C!DownloadModel
  <2> QED
    BY <2>1, Zenon
<1>6. ASSUME NEW r \in Requests,
             \/ C!Route(r) \/ C!ServerAnswers(r) \/ C!LocalCompletes(r) \/ C!CheckQuota(r)
             \/ C!Receive(r) \/ C!Lost(r) \/ C!BackedOff(r)
      PROVE  CloudOthersTyped'
  <2>1. UNCHANGED <<kindOf, local, model>>
    BY <1>6
       DEF C!Route, C!ServerAnswers, C!LocalCompletes, C!CheckQuota, C!Receive, C!Lost,
           C!BackedOff
  <2>2. attempt' = attempt \/ \E n \in 0..MaxRetries : attempt' = [attempt EXCEPT ![r] = n]
    <3>1. 0 \in 0..MaxRetries
      BY ServicesAssumption DEF C!CloudAssumption
    <3>2. CASE C!BackedOff(r)
      <4>1. attempt[r] \in 0..MaxRetries /\ MaxRetries \in Nat
        BY ServicesAssumption DEF C!CloudAssumption
      <4>2. (IF attempt[r] < MaxRetries THEN attempt[r] + 1 ELSE attempt[r]) \in 0..MaxRetries
        BY <4>1
      <4> QED
        BY <3>2, <4>2 DEF C!BackedOff
    <3> QED
      BY <1>6, <3>1, <3>2
         DEF C!Route, C!ServerAnswers, C!LocalCompletes, C!CheckQuota, C!Receive, C!Lost,
             C!Exhausted, C!Retry, C!Leave
  <2>3. attempt' \in [Requests -> 0..MaxRetries]
    BY <2>2
  <2> QED
    BY <2>1, <2>3, Zenon
<1> QED
  BY <1>1, <1>2, <1>3, <1>4, <1>5, <1>6
     DEF Next, DemoMoves, TasksMove, FetchMoves, C!CloudNext, C!Step

DemoOthersTyped ==
  configured \in BOOLEAN /\ kind \in [Runs -> D!Kinds] /\ left \in [Runs -> Nat]

LEMMA DemoStepTyped ==
  ASSUME DemoOthersTyped, Next
  PROVE  DemoOthersTyped'
<1> USE DEF DemoOthersTyped
<1>1. CASE UNCHANGED demoVars
  BY <1>1, Zenon DEF demoVars
<1>2. CASE D!SaveSettings
  BY <1>2, Zenon DEF D!SaveSettings
<1>3. ASSUME NEW r \in Runs,
             \/ D!AgentRun(r) \/ D!SwarmPlan(r) \/ D!PlanActions(r) \/ D!StreamAction(r)
             \/ D!AskUser(r) \/ D!PutSender(r) \/ D!Receive(r) \/ D!Timeout(r)
             \/ D!ClientLeaves(r)
      PROVE  DemoOthersTyped'
  <2>1. configured' = configured
    BY <1>3
       DEF D!AgentRun, D!SwarmPlan, D!PlanActions, D!StreamAction, D!AskUser, D!PutSender,
           D!Receive, D!Timeout, D!ClientLeaves
  <2>2. kind' \in [Runs -> D!Kinds]
    BY <1>3
       DEF D!AgentRun, D!SwarmPlan, D!PlanActions, D!StreamAction, D!AskUser, D!PutSender,
           D!Receive, D!Timeout, D!ClientLeaves, D!Kinds
  <2>3. left' \in [Runs -> Nat]
    BY <1>3, ServicesAssumption
       DEF D!AgentRun, D!SwarmPlan, D!PlanActions, D!StreamAction, D!AskUser, D!PutSender,
           D!Receive, D!Timeout, D!ClientLeaves, D!SwarmScript, D!LocalPlan, D!DemoAssumption
  <2> QED
    BY <2>1, <2>2, <2>3, Zenon
<1>4. ASSUME NEW approved \in BOOLEAN, D!HilResponse(approved)
      PROVE  DemoOthersTyped'
  BY <1>4, Zenon DEF D!HilResponse
<1> QED
  BY <1>1, <1>2, <1>3, <1>4
     DEF Next, CloudMoves, TasksMove, FetchMoves, D!DemoNext, D!Stream

(* What is still to be done, and by which flags.                           *)
QueuesTyped ==
  /\ tasks \in Seq(T!TaskKinds \cup T!ActionKinds) /\ todo \in Seq(T!Steps \cup T!Fields)
  /\ phase \in {"planning", "running", "done", "failed"}

FlagsTyped ==
  /\ mode \in {"tasks", "script"} /\ solver \in BOOLEAN /\ captcha \in BOOLEAN
  /\ refused \in BOOLEAN /\ defied \in BOOLEAN

PollsTyped == polls \in 0..MaxPolls

LEMMA ThenTyped ==
  ASSUME QueuesTyped, todo # <<>>, NEW steps \in Seq(T!Steps \cup T!Fields), T!Then(steps)
  PROVE  QueuesTyped'
<1>1. Tail(todo) \in Seq(T!Steps \cup T!Fields)
  BY HeadTailProperties DEF QueuesTyped
<1>2. steps \o Tail(todo) \in Seq(T!Steps \cup T!Fields)
  BY <1>1, ConcatProperties
<1> QED
  BY <1>2 DEF QueuesTyped, T!Then

LEMMA FailsTyped ==
  ASSUME QueuesTyped, T!Fails
  PROVE  QueuesTyped'
<1>1. <<>> \in Seq(T!Steps \cup T!Fields) /\ <<>> \in Seq(T!TaskKinds \cup T!ActionKinds)
  OBVIOUS
<1> QED
  BY <1>1, Zenon DEF QueuesTyped, T!Fails

(* Every sequence of steps some step is replaced by.                       *)
LEMMA PlansTyped ==
  /\ \A task \in T!TaskKinds \cup T!ActionKinds :
       T!StepsOf(task) \in Seq(T!Steps \cup T!Fields)
  /\ <<>> \in Seq(T!Steps \cup T!Fields)
  /\ T!Fill \in Seq(T!Steps \cup T!Fields) /\ T!Click \in Seq(T!Steps \cup T!Fields)
  /\ T!Click \o <<"captcha">> \in Seq(T!Steps \cup T!Fields)
  /\ T!FillAndSubmit \in Seq(T!Steps \cup T!Fields)
  /\ \A step \in T!Steps : <<step>> \in Seq(T!Steps \cup T!Fields)
<1>1. /\ T!Fill \in Seq(T!Steps \cup T!Fields) /\ T!Click \in Seq(T!Steps \cup T!Fields)
      /\ T!FillAndSubmit \in Seq(T!Steps \cup T!Fields)
      /\ <<>> \in Seq(T!Steps \cup T!Fields)
      /\ \A step \in T!Steps : <<step>> \in Seq(T!Steps \cup T!Fields)
  BY DEF T!Fill, T!Click, T!FillAndSubmit, T!Steps
<1>2. /\ <<"captcha">> \in Seq(T!Steps \cup T!Fields) /\ <<"query">> \in Seq(T!Steps \cup T!Fields)
      /\ <<"ask">> \in Seq(T!Steps \cup T!Fields) /\ <<"offers">> \in Seq(T!Steps \cup T!Fields)
      /\ <<"go">> \in Seq(T!Steps \cup T!Fields)
      /\ <<"go", "query", "query", "think">> \in Seq(T!Steps \cup T!Fields)
  BY DEF T!Steps
<1>3. T!Click \o <<"captcha">> \in Seq(T!Steps \cup T!Fields)
  BY <1>1, <1>2, ConcatProperties
<1>4. <<"ask">> \o T!Click \o <<"query">> \in Seq(T!Steps \cup T!Fields)
  <2>1. <<"ask">> \o T!Click \in Seq(T!Steps \cup T!Fields)
    BY <1>1, <1>2, ConcatProperties
  <2> QED
    BY <1>2, <2>1, ConcatProperties
<1>5. ASSUME NEW task \in T!TaskKinds \cup T!ActionKinds
      PROVE  T!StepsOf(task) \in Seq(T!Steps \cup T!Fields)
  <2> HIDE DEF T!Fill, T!Click, T!FillAndSubmit
  <2>1. task \in {"go", "query"} => <<task>> \in Seq(T!Steps \cup T!Fields)
    BY <1>2
  <2> QED
    BY <1>1, <1>2, <1>4, <2>1 DEF T!StepsOf
<1> QED
  BY <1>1, <1>3, <1>5

LEMMA TaskQueuesTyped ==
  ASSUME QueuesTyped, T!TaskAgentsNext
  PROVE  QueuesTyped'
<1>1. CASE T!Plan
  <2>1. todo' = todo /\ phase' \in {"running", "failed"}
        /\ (tasks' = tasks \/ \E k \in 0..MaxTasks : tasks' \in [1..k -> T!TaskKinds \cup T!ActionKinds])
    <3>1. \A S : tasks' \in T!SeqUpTo(S, MaxTasks) => \E k \in 0..MaxTasks : tasks' \in [1..k -> S]
      BY DEF T!SeqUpTo
    <3>2. \A k : /\ [1..k -> T!TaskKinds] \subseteq [1..k -> T!TaskKinds \cup T!ActionKinds]
                 /\ [1..k -> T!ActionKinds] \subseteq [1..k -> T!TaskKinds \cup T!ActionKinds]
      OBVIOUS
    <3>3. \/ tasks' = tasks \/ tasks' \in T!SeqUpTo(T!TaskKinds, MaxTasks)
          \/ tasks' \in T!SeqUpTo(T!ActionKinds, MaxTasks)
      BY <1>1 DEF T!Plan
    <3> QED
      BY <1>1, <3>1, <3>2, <3>3 DEF T!Plan
  <2>2. \A k \in 0..MaxTasks :
          [1..k -> T!TaskKinds \cup T!ActionKinds] \subseteq Seq(T!TaskKinds \cup T!ActionKinds)
    BY ServicesAssumption DEF T!TaskAgentsAssumption
  <2> QED
    BY <2>1, <2>2 DEF QueuesTyped
<1>2. CASE T!NextTask
  <2>1. Head(tasks) \in T!TaskKinds \cup T!ActionKinds
        /\ Tail(tasks) \in Seq(T!TaskKinds \cup T!ActionKinds)
    BY <1>2, HeadTailProperties DEF QueuesTyped, T!NextTask
  <2> QED
    BY <1>2, <2>1, PlansTyped DEF QueuesTyped, T!NextTask
<1>3. CASE T!Finish
  BY <1>3 DEF QueuesTyped, T!Finish
<1>4. ASSUME NEW plan \in T!SeqUpTo(T!Fields, MaxFields), T!At("fields"), T!Completes(plan)
      PROVE  QueuesTyped'
  <2>1. PICK k \in 0..MaxFields : plan \in [1..k -> T!Fields]
    BY DEF T!SeqUpTo
  <2>2. plan \in Seq(T!Steps \cup T!Fields)
    BY <2>1, ServicesAssumption DEF T!TaskAgentsAssumption
  <2> QED
    BY <1>4, <2>2, ThenTyped, FailsTyped DEF T!At, T!Completes
<1>5. CASE T!FetchOffers
  BY <1>5, PlansTyped, ThenTyped, FailsTyped DEF T!FetchOffers, T!At, T!Completes
<1>6. CASE T!DoField
  BY <1>6, PlansTyped, ThenTyped, FailsTyped DEF T!DoField, T!Injects, T!At
<1>7. CASE T!Detect \/ T!StartSolver \/ T!PollSolver \/ T!Inject
  <2>1. /\ todo # <<>>
        /\ \/ T!Fails
           \/ \E steps \in {<<>>, <<"sitekey">>, <<"escalate">>, <<"poll">>, <<"inject">>} :
                T!Then(steps)
    BY <1>7 DEF T!Detect, T!StartSolver, T!PollSolver, T!Inject, T!Completes, T!At
  <2>2. \A steps \in {<<>>, <<"sitekey">>, <<"escalate">>, <<"poll">>, <<"inject">>} :
          steps \in Seq(T!Steps \cup T!Fields)
    BY PlansTyped DEF T!Steps
  <2> QED
    BY <2>1, <2>2, ThenTyped, FailsTyped
<1>8. CASE T!Navigate \/ T!Query \/ T!Think \/ T!Type \/ T!Press \/ T!Ask
  <2>1. todo # <<>> /\ (T!Then(<<>>) \/ T!Fails)
    BY <1>8
       DEF T!Navigate, T!Query, T!Think, T!Type, T!Press, T!Injects, T!Ask, T!At, T!Completes,
           T!Checkpoint
  <2> QED
    BY <2>1, PlansTyped, ThenTyped, FailsTyped
<1> QED
  BY <1>1, <1>2, <1>3, <1>4, <1>5, <1>6, <1>7, <1>8
     DEF T!TaskAgentsNext, T!Machine, T!Answered, T!PlanFields

LEMMA TaskFlagsTyped ==
  ASSUME FlagsTyped, T!TaskAgentsNext
  PROVE  FlagsTyped'
<1>1. mode' = mode /\ solver' = solver
  BY Zenon
     DEF T!TaskAgentsNext, T!Machine, T!Answered, T!Injects, T!Plan, T!NextTask, T!Finish, T!Navigate, T!Query, T!Think,
         T!PlanFields, T!DoField, T!FetchOffers, T!Type, T!Press, T!Detect, T!StartSolver,
         T!PollSolver, T!Inject, T!Ask, T!Quiet
<1>2. captcha' = captcha \/ captcha' \in BOOLEAN
  BY Zenon
     DEF T!TaskAgentsNext, T!Machine, T!Answered, T!Injects, T!Plan, T!NextTask, T!Finish, T!Navigate, T!Query, T!Think,
         T!PlanFields, T!DoField, T!FetchOffers, T!Type, T!Press, T!Detect, T!StartSolver,
         T!PollSolver, T!Inject, T!Ask, T!Quiet
<1>3. refused' = refused \/ refused' = TRUE
  BY Zenon
     DEF T!TaskAgentsNext, T!Machine, T!Answered, T!Injects, T!Plan, T!NextTask, T!Finish, T!Navigate, T!Query, T!Think,
         T!PlanFields, T!DoField, T!FetchOffers, T!Type, T!Press, T!Detect, T!StartSolver,
         T!PollSolver, T!Inject, T!Ask, T!Quiet, T!Checkpoint
<1>4. defied' = defied \/ defied' \in BOOLEAN
  BY Zenon
     DEF T!TaskAgentsNext, T!Machine, T!Answered, T!Injects, T!Plan, T!NextTask, T!Finish, T!Navigate, T!Query, T!Think,
         T!PlanFields, T!DoField, T!FetchOffers, T!Type, T!Press, T!Detect, T!StartSolver,
         T!PollSolver, T!Inject, T!Ask, T!Quiet, T!Changes
<1> QED
  BY <1>1, <1>2, <1>3, <1>4, Zenon DEF FlagsTyped

LEMMA TaskPollsTyped ==
  ASSUME PollsTyped, T!TaskAgentsNext
  PROVE  PollsTyped'
<1>1. CASE polls' = polls
  BY <1>1 DEF PollsTyped
<1>2. CASE T!StartSolver \/ T!PollSolver
  BY <1>2, ServicesAssumption DEF PollsTyped, T!StartSolver, T!PollSolver, T!TaskAgentsAssumption
<1> QED
  BY <1>1, <1>2
     DEF T!TaskAgentsNext, T!Machine, T!Answered, T!Injects, T!Plan, T!NextTask, T!Finish, T!Navigate, T!Query, T!Think,
         T!PlanFields, T!DoField, T!FetchOffers, T!Type, T!Press, T!Detect, T!Inject, T!Ask,
         T!Quiet

TasksTyped == QueuesTyped /\ FlagsTyped /\ PollsTyped

LEMMA TaskStepTyped ==
  ASSUME TasksTyped, Next
  PROVE  TasksTyped'
<1>1. CASE UNCHANGED taskVars
  BY <1>1, Zenon DEF taskVars, TasksTyped, QueuesTyped, FlagsTyped, PollsTyped
<1>2. CASE T!TaskAgentsNext
  BY <1>2, TaskQueuesTyped, TaskFlagsTyped, TaskPollsTyped DEF TasksTyped
<1> QED
  BY <1>1, <1>2 DEF Next, CloudMoves, DemoMoves, FetchMoves

FetchOthersTyped ==
  redirects \in [Fetches -> 0..MaxRedirects] /\ jar \subseteq F!Partitions /\ responses \subseteq Urls

LEMMA FetchStepTyped ==
  ASSUME FetchInv, FetchOthersTyped, Next
  PROVE  FetchOthersTyped'
<1> USE DEF FetchOthersTyped
<1>1. CASE UNCHANGED fetchVars
  BY <1>1 DEF fetchVars
<1>2. ASSUME NEW f \in Fetches, NEW a \in F!Asks, NEW own \in BOOLEAN, F!Send(f, a, own)
      PROVE  FetchOthersTyped'
  BY <1>2 DEF F!Send
<1>3. ASSUME NEW f \in Fetches, F!ServeInternalPage(f) \/ F!Hop(f) \/ F!HopFails(f)
      PROVE  FetchOthersTyped'
  BY <1>3 DEF F!ServeInternalPage, F!Hop, F!HopFails
<1>4. ASSUME NEW f \in Fetches
      PROVE  F!Partition(f) \in F!Partitions
  BY <1>4, OriginsOfUrls DEF FetchInv, F!Partition, F!Partitions, F!Asks
<1>5. ASSUME NEW f \in Fetches, F!Answer(f)
      PROVE  FetchOthersTyped'
  BY <1>4, <1>5 DEF F!Answer, F!StoreCookies
<1>6. ASSUME NEW f \in Fetches, NEW v \in Urls, F!Redirect(f, v)
      PROVE  FetchOthersTyped'
  BY <1>4, <1>6, ServicesAssumption DEF F!Redirect, F!StoreCookies, F!FetchAssumption
<1>7. ASSUME NEW f \in Fetches, F!ReadBody(f)
      PROVE  FetchOthersTyped'
  BY <1>7 DEF F!ReadBody, FetchInv
<1>8. ASSUME NEW u \in Urls, F!Stales(u)
      PROVE  FetchOthersTyped'
  BY <1>8 DEF F!Stales
<1> QED
  BY <1>1, <1>2, <1>3, <1>5, <1>6, <1>7, <1>8
     DEF Next, CloudMoves, DemoMoves, TasksMove, F!FetchNext, F!Exchange

(* Every variable of the four components keeps its type, the counters      *)
(* within their bounds, for every value of the bounds.                     *)
THEOREM ServicesTyped == Spec => []TypeOK
<1> DEFINE Others == CloudOthersTyped /\ DemoOthersTyped /\ TasksTyped /\ FetchOthersTyped
           Inv == Others /\ QuotaInv /\ ConsentInv /\ FetchInv
<1>1. Init => Others
  <2> SUFFICES ASSUME Init PROVE Others
    OBVIOUS
  <2>1. CloudOthersTyped
    <3>1. attempt \in [Requests -> 0..MaxRetries]
      BY ServicesAssumption DEF Init, C!Init, C!CloudAssumption
    <3> QED
      BY <3>1, Zenon DEF Init, C!Init, CloudOthersTyped
  <2>2. DemoOthersTyped
    BY DEF Init, D!Init, DemoOthersTyped, D!Kinds
  <2>3. TasksTyped
    <3>1. QueuesTyped /\ PollsTyped
      BY ServicesAssumption
         DEF Init, T!Init, QueuesTyped, PollsTyped, T!TaskAgentsAssumption
    <3>2. FlagsTyped
      BY Zenon DEF Init, T!Init, FlagsTyped
    <3> QED
      BY <3>1, <3>2 DEF TasksTyped
  <2>4. FetchOthersTyped
    BY ServicesAssumption DEF Init, F!Init, FetchOthersTyped, F!FetchAssumption
  <2> QED
    BY <2>1, <2>2, <2>3, <2>4
<1>2. Inv /\ [Next]_vars => Inv'
  <2>1. Inv /\ Next => Inv'
    <3> SUFFICES ASSUME CloudOthersTyped, DemoOthersTyped, TasksTyped, FetchOthersTyped,
                        QuotaInv, ConsentInv, FetchInv, Next
                 PROVE  Inv'
      OBVIOUS
    <3>1. CloudOthersTyped' /\ DemoOthersTyped' /\ TasksTyped' /\ FetchOthersTyped'
      BY CloudStepTyped, DemoStepTyped, TaskStepTyped, FetchStepTyped
    <3>2. QuotaInv' /\ ConsentInv' /\ FetchInv'
      BY QuotaStep, ConsentStep, FetchStep
    <3> QED
      BY <3>1, <3>2
  <2>2. Inv /\ UNCHANGED vars => Inv'
    <3> SUFFICES ASSUME CloudOthersTyped, DemoOthersTyped, TasksTyped, FetchOthersTyped,
                        QuotaInv, ConsentInv, FetchInv, UNCHANGED vars
                 PROVE  Inv'
      OBVIOUS
    <3>1. CloudOthersTyped' /\ DemoOthersTyped'
      BY Zenon DEF vars, cloudVars, demoVars, CloudOthersTyped, DemoOthersTyped
    <3>2. TasksTyped' /\ FetchOthersTyped'
      BY Zenon DEF vars, taskVars, fetchVars, TasksTyped, QueuesTyped, FlagsTyped, PollsTyped,
                   FetchOthersTyped
    <3>3. QuotaInv'
      BY DEF vars, cloudVars, QuotaInv, CountTypes, CopiesPast, CallsNeedProcess,
             RepliesNotAhead, C!CopyNotAhead, C!Running
    <3>4. ConsentInv'
      BY DEF vars, demoVars, ConsentInv, ConsentTypes, SenderUnused, YesCounted, Permitted
    <3>5. FetchInv'
      BY DEF vars, fetchVars, FetchInv, F!NoTrackerReached, MayCarry, F!Partition
    <3> QED
      BY <3>1, <3>2, <3>3, <3>4, <3>5
  <2> QED
    BY <2>1, <2>2
<1>3. Inv => TypeOK
  BY Zenon
     DEF TypeOK, C!CloudTypeOK, D!DemoTypeOK, T!TaskAgentsTypeOK, F!FetchTypeOK,
         CloudOthersTyped, QuotaInv, CountTypes, DemoOthersTyped, ConsentInv, ConsentTypes,
         TasksTyped, QueuesTyped, FlagsTyped, PollsTyped, FetchOthersTyped, FetchInv
<1> QED
  BY <1>1, <1>2, <1>3, QuotaInit, ConsentInit, FetchInit, PTL DEF Spec
=============================================================================
