------------------------------- MODULE Fetch -------------------------------
(***************************************************************************)
(* The HTTP client of kitsune-net: requests that follow redirects by       *)
(* themselves, one hop after the other, and share the jar of partitioned   *)
(* cookies and the response cache.                                         *)
(*                                                                         *)
(* A partition is an origin under a top-level origin; the jar is the set   *)
(* of the partitions that hold a cookie for their origin.  Of the headers  *)
(* only Cookie is kept: nothing, what the caller gave, or a partition's.   *)
(* Servers, network and clock are the environment.                         *)
(***************************************************************************)
EXTENDS Naturals, Sequences

CONSTANTS
  Fetches,
  Urls, OriginOf,   \* addresses and their origins
  Trackers,         \* origins on the list of known trackers
  MaxRedirects      \* 10

Origins == {OriginOf[u] : u \in Urls}

FetchAssumption ==
  /\ DOMAIN OriginOf = Urls /\ Urls # {}
  /\ Trackers \subseteq Origins /\ MaxRedirects \in Nat

VARIABLES
  at,         \* where a request is
  ask,        \* what it was made with
  url,        \* current_url
  cookie,     \* its Cookie header
  redirects,  \* redirect_count
  jar,        \* partitions with a cookie
  cache       \* addresses with a response that is still fresh

vars == <<at, ask, url, cookie, redirects, jar, cache>>

Partitions == Origins \X Origins
NoCookie == <<>>
Own == <<"own">>
Asks == [first : Urls, top : Origins, block : BOOLEAN, get : BOOLEAN]
Over == {"answered", "blocked", "failed"}

Partition(f) == <<OriginOf[url[f]], ask[f].top>>

Init ==
  /\ at = [f \in Fetches |-> "idle"]
  /\ ask \in [Fetches -> {CHOOSE a \in Asks : TRUE}]
  /\ url = [f \in Fetches |-> ask[f].first]
  /\ cookie = [f \in Fetches |-> NoCookie]
  /\ redirects = [f \in Fetches |-> 0]
  /\ jar = {} /\ cache = {}

Go(f, place) == at' = [at EXCEPT ![f] = place]

(* A request without a top-level origin is under its own.                  *)
Send(f, a, own) ==
  /\ at[f] = "idle" /\ Go(f, "hop")
  /\ ask' = [ask EXCEPT ![f] = a] /\ url' = [url EXCEPT ![f] = a.first]
  /\ cookie' = [cookie EXCEPT ![f] = IF own THEN Own ELSE NoCookie]
  /\ UNCHANGED <<redirects, jar, cache>>

(* An internal page is served from the program.                            *)
ServeInternalPage(f) ==
  /\ at[f] = "idle" /\ Go(f, "answered")
  /\ UNCHANGED <<ask, url, cookie, redirects, jar, cache>>

(* What the jar holds for this hop replaces the header; when it holds      *)
(* nothing, the header stays.                                              *)
Injected(f) == IF Partition(f) \in jar THEN Partition(f) ELSE cookie[f]

Tracked(f) == ask[f].block /\ OriginOf[url[f]] \in Trackers

(* Every hop begins with the list of trackers, then cookies, then cache.   *)
Hop(f) ==
  /\ at[f] = "hop"
  /\ IF Tracked(f)
     THEN Go(f, "blocked") /\ UNCHANGED cookie
     ELSE /\ cookie' = [cookie EXCEPT ![f] = Injected(f)]
          /\ Go(f, IF ask[f].get /\ url[f] \in cache THEN "answered" ELSE "sent")
  /\ UNCHANGED <<ask, url, redirects, jar, cache>>

(* The connection fails, or ten seconds pass without an answer.            *)
HopFails(f) ==
  /\ at[f] = "sent" /\ Go(f, "failed")
  /\ UNCHANGED <<ask, url, cookie, redirects, jar, cache>>

(* Set-Cookie sets or removes what the partition holds.                    *)
StoreCookies(f) == jar' \in {jar, jar \cup {Partition(f)}, jar \ {Partition(f)}}

(* Faulty: the headers go wherever the redirect leads.                     *)
FollowedWithAll(f, v) == cookie[f]

(* The header after a redirect: it stays within its origin.                *)
Followed(f, v) == IF OriginOf[v] = OriginOf[url[f]] THEN cookie[f] ELSE NoCookie

(* Faulty: no bound on the redirects.                                      *)
RedirectForever(f, v) ==
  /\ at[f] = "sent" /\ StoreCookies(f)
  /\ Go(f, "hop")
  /\ url' = [url EXCEPT ![f] = v] /\ cookie' = [cookie EXCEPT ![f] = Followed(f, v)]
  /\ UNCHANGED <<ask, redirects, cache>>

Redirect(f, v) ==
  /\ at[f] = "sent" /\ StoreCookies(f)
  /\ IF redirects[f] = MaxRedirects
     THEN Go(f, "failed") /\ UNCHANGED <<url, cookie, redirects>>
     ELSE /\ Go(f, "hop")
          /\ redirects' = [redirects EXCEPT ![f] = @ + 1]
          /\ url' = [url EXCEPT ![f] = v]
          /\ cookie' = [cookie EXCEPT ![f] = Followed(f, v)]
  /\ UNCHANGED <<ask, cache>>

(* Any other answer; its body is still to come.                            *)
Answer(f) ==
  /\ at[f] = "sent" /\ StoreCookies(f) /\ Go(f, "reading")
  /\ UNCHANGED <<ask, url, cookie, redirects, cache>>

(* The body is read, without a timeout, or breaks off.  A GET that may be  *)
(* kept is kept under its address, for every top-level origin.             *)
ReadBody(f) ==
  /\ at[f] = "reading"
  /\ \/ Go(f, "failed") /\ UNCHANGED cache
     \/ /\ Go(f, "answered")
        /\ cache' \in {cache} \cup (IF ask[f].get THEN {cache \cup {url[f]}} ELSE {})
  /\ UNCHANGED <<ask, url, cookie, redirects, jar>>

(* max-age is over.                                                        *)
Stales(u) ==
  /\ u \in cache /\ cache' = cache \ {u}
  /\ UNCHANGED <<at, ask, url, cookie, redirects, jar>>

Exchange(f) == Hop(f) \/ HopFails(f) \/ Answer(f) \/ \E v \in Urls : Redirect(f, v)

FetchNext ==
  \/ \E f \in Fetches :
       \/ ServeInternalPage(f) \/ Exchange(f) \/ ReadBody(f)
       \/ \E a \in Asks, own \in BOOLEAN : Send(f, a, own)
  \/ \E u \in Urls : Stales(u)

FetchSpec == Init /\ [][FetchNext]_vars

(* Every hop is answered, fails or is late; a body may never end.          *)
FetchFairness == \A f \in Fetches : WF_vars(Exchange(f))

(* ------------------------------ properties ----------------------------- *)

FetchTypeOK ==
  /\ at \in [Fetches -> {"idle", "hop", "sent", "reading"} \cup Over]
  /\ ask \in [Fetches -> Asks] /\ url \in [Fetches -> Urls]
  /\ cookie \in [Fetches -> {NoCookie, Own} \cup Partitions]
  /\ redirects \in [Fetches -> 0..MaxRedirects]
  /\ jar \subseteq Partitions /\ cache \subseteq Urls

(* A request that blocks trackers reaches none, on whatever hop a server   *)
(* sends it there.                                                         *)
NoTrackerReached ==
  \A f \in Fetches :
    at[f] \in {"sent", "reading"} /\ ask[f].block => OriginOf[url[f]] \notin Trackers

(* Across redirects, and whatever other requests do to the jar, a hop      *)
(* carries only cookies of its own origin under the top-level origin of    *)
(* its request; what the caller gave goes to the caller's origin only.     *)
CookiesStayHome ==
  \A f \in Fetches : at[f] = "sent" =>
    \/ cookie[f] \in {NoCookie, Partition(f)}
    \/ cookie[f] = Own /\ OriginOf[url[f]] = OriginOf[ask[f].first]

(* A request is over after its last allowed hop, or reads a body that does *)
(* not end.                                                                *)
FetchesEnd ==
  \A f \in Fetches : [](at[f] # "idle" => <>(at[f] \in Over) \/ <>[](at[f] = "reading"))
=============================================================================
