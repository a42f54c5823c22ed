------------------------------- MODULE Cloud -------------------------------
(***************************************************************************)
(* AI requests of kitsune-ai: the router sends each one to the local model *)
(* or to the cloud, which counts the actions of a free user per month.     *)
(* The client keeps a copy of that count, in memory and on disk, and asks  *)
(* the server nothing while the copy says exhausted.  The keychain holds   *)
(* one token, of the account that signed in last; the file of the copy     *)
(* belongs to no account.                                                  *)
(*                                                                         *)
(* A month is a number; the copy remembers the month it will be reset      *)
(* after.  The server, the network and the disk are the environment.  The  *)
(* fields whose and when are observed only: the account and the month the  *)
(* server counted for when it sent what the copy says.                     *)
(***************************************************************************)
EXTENDS Naturals

CONSTANTS
  Requests, Mixes,   \* requests, and which kinds they may have: [Requests -> Kinds]
  MaxRetries,        \* 4
  Accounts, NoAccount,
  Limit,             \* free actions a month (100)
  LastMonth          \* bound on the months

Kinds == {"sensitive", "preferred", "general"}

CloudAssumption ==
  /\ Mixes \subseteq [Requests -> Kinds]
  /\ NoAccount \notin Accounts
  /\ MaxRetries \in Nat /\ Limit \in Nat \ {0} /\ LastMonth \in Nat

VARIABLES
  kindOf,             \* the kind of each request; it never changes
  token,              \* whose token is in the keychain
  account,            \* whose token the process started with; NoAccount: no process
  model,              \* the local model on disk
  local,              \* this process loaded it
  at, attempt,        \* where a request is, how often it was sent again
  reply,              \* the answer on its way
  cache, disk,        \* the client's copy of the count, and the file
  month, counted      \* the server's month, and its count of each account and month

process == <<token, account, model, local>>
request == <<kindOf, at, attempt, reply>>
server == <<month, counted>>
vars == <<kindOf, token, account, model, local, at, attempt, reply, cache, disk, month, counted>>

InCloud == {"quota", "waiting", "backoff"}
Ended == {"over"}     \* answered, refused or failed, or gone with its process
Places == {"idle", "trying-local", "local"} \cup InCloud \cup Ended
Answers == {"ok", "exhausted", "server-error", "client-error"}
Running == account # NoAccount
Months == 0..LastMonth
NoReply == [code |-> "none", remaining |-> 0, when |-> 0]
Reply == [code : Answers \cup {"none"}, remaining : 0..Limit, when : Months]
Copy == [used : 0..Limit, month : Months, whose : Accounts \cup {NoAccount}, when : Months]
Fresh == [used |-> 0, month |-> month, whose |-> NoAccount, when |-> month]

Init ==
  /\ kindOf \in Mixes
  /\ token = NoAccount /\ account = NoAccount /\ model = "absent" /\ local = FALSE
  /\ at = [r \in Requests |-> "idle"] /\ attempt = [r \in Requests |-> 0]
  /\ reply = [r \in Requests |-> NoReply]
  /\ month = 0 /\ counted = [a \in Accounts |-> [m \in Months |-> 0]]
  /\ cache = Fresh /\ disk = Fresh

Go(r, place) == at' = [at EXCEPT ![r] = place]

(* A call of the cloud is over: its attempts are forgotten.                *)
Leave(r, place) == Go(r, place) /\ attempt' = [attempt EXCEPT ![r] = 0]

(* ----------------------- process, account and model -------------------- *)

(* Registering or logging in overwrites the token, whoever's it was.  A    *)
(* running process keeps the one it has.                                   *)
SignIn(a) ==
  /\ token' = a
  /\ UNCHANGED <<account, model, local, request, cache, disk, server>>

Logout ==
  /\ token' = NoAccount
  /\ UNCHANGED <<account, model, local, request, cache, disk, server>>

(* Faulty: the month is moved on and the count is kept.                    *)
LoadedKeeps == IF disk.month < month THEN [disk EXCEPT !.month = month] ELSE disk

(* The copy on disk is reset when its month is over.                       *)
Loaded == IF disk.month < month THEN Fresh ELSE disk

(* The file may be missing or unreadable: then a fresh copy.               *)
Start ==
  /\ ~Running /\ token # NoAccount /\ account' = token
  /\ local' = (model = "complete")
  /\ \/ cache' = Loaded /\ disk' \in {disk, Loaded}
     \/ cache' = Fresh /\ UNCHANGED disk
  /\ UNCHANGED <<token, model, request, server>>

(* The process ends, and every call it was in.                             *)
Stop ==
  /\ Running /\ account' = NoAccount
  /\ local' = FALSE
  /\ at' = [r \in Requests |-> IF at[r] \in Ended \cup {"idle"} THEN at[r] ELSE "over"]
  /\ reply' = [r \in Requests |-> NoReply] /\ attempt' = [r \in Requests |-> 0]
  /\ UNCHANGED <<kindOf, token, model, cache, disk, server>>

(* The files come first and the marker last; a download that fails or is   *)
(* cut off leaves no marker, and the model counts as absent.               *)
DownloadModel ==
  /\ Running /\ model = "absent" /\ model' = "complete"
  /\ UNCHANGED <<token, account, local, request, cache, disk, server>>

(* ------------------------------- routing ------------------------------- *)

(* Faulty: without a local model a sensitive task goes to the cloud.       *)
RouteAnyway(r) ==
  /\ Running /\ at[r] = "idle"
  /\ Go(r, IF local /\ kindOf[r] = "sensitive" THEN "local"
           ELSE IF local /\ kindOf[r] = "preferred" THEN "trying-local" ELSE "quota")
  /\ UNCHANGED <<process, kindOf, attempt, reply, cache, disk, server>>

Route(r) ==
  /\ Running /\ at[r] = "idle"
  /\ Go(r, CASE kindOf[r] = "sensitive" -> IF local THEN "local" ELSE "over"
             [] kindOf[r] = "preferred" /\ local -> "trying-local"
             [] OTHER -> "quota")
  /\ UNCHANGED <<process, kindOf, attempt, reply, cache, disk, server>>

(* The local model answers, or fails, or is late: a task that may go to    *)
(* the cloud goes there if there is no answer.                             *)
LocalCompletes(r) ==
  /\ \/ at[r] \in {"local", "trying-local"} /\ Go(r, "over")
     \/ at[r] = "trying-local" /\ Go(r, "quota")
  /\ UNCHANGED <<process, kindOf, attempt, reply, cache, disk, server>>

(* The cloud refuses: the local model takes over if there is one.          *)
Exhausted(r) == Leave(r, IF local THEN "local" ELSE "over")

(* The copy is looked at before the first attempt only.                    *)
CheckQuota(r) ==
  /\ at[r] = "quota"
  /\ \/ cache.used >= Limit /\ Exhausted(r)
     \/ cache.used < Limit /\ Go(r, "waiting") /\ UNCHANGED attempt
  /\ UNCHANGED <<process, kindOf, reply, cache, disk, server>>

(* ------------------------------ the request ---------------------------- *)

Says(r, code) == reply' = [reply EXCEPT ![r] = [NoReply EXCEPT !.code = code]]

(* The server counts what it answers.                                      *)
ServerAnswers(r) ==
  /\ at[r] = "waiting" /\ reply[r] = NoReply
  /\ LET used == counted[account][month] IN
     \/ /\ used < Limit
        /\ reply' = [reply EXCEPT ![r] =
             [code |-> "ok", remaining |-> Limit - used - 1, when |-> month]]
        /\ counted' = [counted EXCEPT ![account][month] = used + 1]
     \/ used = Limit /\ Says(r, "exhausted") /\ UNCHANGED counted
     \/ \E c \in {"server-error", "client-error"} : Says(r, c) /\ UNCHANGED counted
  /\ UNCHANGED <<process, kindOf, at, attempt, cache, disk, month>>

(* Faulty: no bound on the retries.                                        *)
RetryForever(r) == Go(r, "backoff") /\ UNCHANGED attempt

Retry(r) ==
  \/ attempt[r] < MaxRetries /\ Go(r, "backoff") /\ UNCHANGED attempt
  \/ attempt[r] = MaxRetries /\ Leave(r, "over")

(* The month the copy will be reset after stays what it was.               *)
Synced(answer) ==
  [cache EXCEPT !.used = Limit - answer.remaining, !.whose = account, !.when = answer.when]

(* The answer that is read last decides what the copy says; the file       *)
(* follows, if it can be written.  A body that does not parse is an error. *)
Receive(r) ==
  /\ at[r] = "waiting" /\ reply[r] # NoReply
  /\ reply' = [reply EXCEPT ![r] = NoReply]
  /\ LET c == reply[r].code IN
     \/ /\ c = "ok" /\ Leave(r, "over")
        /\ cache' = Synced(reply[r]) /\ disk' \in {disk, cache'}
     \/ /\ \/ c \in {"ok", "client-error"} /\ Leave(r, "over")
           \/ c = "exhausted" /\ Exhausted(r)
           \/ c = "server-error" /\ Retry(r)
        /\ UNCHANGED <<cache, disk>>
  /\ UNCHANGED <<process, kindOf, server>>

(* The connection fails or 60 seconds are over, before or after the server *)
(* has counted.                                                            *)
Lost(r) ==
  /\ at[r] = "waiting" /\ Retry(r)
  /\ reply' = [reply EXCEPT ![r] = NoReply]
  /\ UNCHANGED <<process, kindOf, cache, disk, server>>

BackedOff(r) ==
  /\ at[r] = "backoff" /\ Go(r, "waiting")
  /\ attempt' = [attempt EXCEPT ![r] = IF @ < MaxRetries THEN @ + 1 ELSE @]
  /\ UNCHANGED <<process, kindOf, reply, cache, disk, server>>

(* The server starts a new count; a running process does not look at its   *)
(* copy's month again.                                                     *)
MonthEnds ==
  /\ month < LastMonth /\ month' = month + 1
  /\ UNCHANGED <<process, request, cache, disk, counted>>

Step(r) ==
  \/ LocalCompletes(r) \/ CheckQuota(r) \/ Receive(r) \/ Lost(r) \/ BackedOff(r)

CloudNext ==
  \/ (\E a \in Accounts : SignIn(a)) \/ Logout \/ Start \/ Stop \/ DownloadModel \/ MonthEnds
  \/ \E r \in Requests : Route(r) \/ ServerAnswers(r) \/ Step(r)

CloudSpec == Init /\ [][CloudNext]_vars

(* A call goes on as long as its process does; the server owes no answer,  *)
(* because the connection has a timeout.                                   *)
CloudFairness == \A r \in Requests : WF_vars(Step(r))

(* ------------------------------ properties ----------------------------- *)

CloudTypeOK ==
  /\ kindOf \in Mixes
  /\ {token, account} \subseteq Accounts \cup {NoAccount} /\ local \in BOOLEAN
  /\ model \in {"absent", "complete"}
  /\ at \in [Requests -> Places] /\ attempt \in [Requests -> 0..MaxRetries]
  /\ reply \in [Requests -> Reply]
  /\ cache \in Copy /\ disk \in Copy
  /\ month \in Months /\ counted \in [Accounts -> [Months -> 0..Limit]]

(* A vault decision or a sensitive form never comes near the cloud,        *)
(* whatever fails: no model, a model that errs, a quota.                   *)
SensitiveStaysLocal == \A r \in Requests : kindOf[r] = "sensitive" => at[r] \notin InCloud

(* What the copy says, in memory or on disk, is nothing, or no more than   *)
(* the server has counted for the account and the month of the answer read *)
(* last, whichever answers were lost, late or out of order; and that month *)
(* is never one that was over before the program started: a past month's   *)
(* count is not loaded.  It may be another account's count, and in a       *)
(* process that runs across the end of a month last month's.               *)
CopyNotAhead ==
  \A copy \in {cache, disk} :
    copy.used > 0 => /\ copy.whose \in Accounts /\ copy.month <= copy.when
                     /\ copy.used <= counted[copy.whose][copy.when]

(* What quota.rs says of its status Exhausted, "Quota is exhausted for     *)
(* this month": while the copy says so the server has nothing left for     *)
(* this account and this month.  It is false of the code, which looks at   *)
(* neither when it checks the copy.                                        *)
ExhaustedThisMonth ==
  Running /\ cache.used >= Limit => counted[account][month] = Limit

(* Every request that was routed comes to an end.                          *)
RequestsEnd == \A r \in Requests : [](at[r] # "idle" => <>(at[r] \in Ended))
=============================================================================
