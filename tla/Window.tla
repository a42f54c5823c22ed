------------------------------- MODULE Window -------------------------------
(***************************************************************************)
(* Tabs and downloads of kitsune-ui: any number of tabs share one WebView. *)
(* The tabs are a table in the window; the WebView only ever loads a URL   *)
(* and reports what it does in a queue that the next frame drains, and the *)
(* window books a report on the tab that is active by then.                *)
(*                                                                         *)
(* The user, the agents and the WebView are the environment.  A user or an *)
(* agent acts on a frame, after the reports were drained; the WebView      *)
(* works on between two frames.  Titles and drawing are left out.          *)
(*                                                                         *)
(* A page is a document under the URL it was loaded from.  What a document *)
(* does to its own URL (a fragment, pushState) loads nothing and is not    *)
(* reported; it is left out.                                               *)
(***************************************************************************)
EXTENDS Naturals, Sequences, FiniteSets, SequencesExt

CONSTANTS
  Urls, Home, NoUrl,
  MaxTabs,      \* bound on the tabs ever opened
  MaxDownloads, \* bound on the downloads ever started
  MaxOpened,    \* bound on both together
  MaxReports    \* bound on the queue

WindowAssumption ==
  /\ Home \in Urls /\ NoUrl \notin Urls
  /\ MaxTabs \in Nat \ {0} /\ MaxReports \in Nat /\ MaxDownloads \in Nat /\ MaxOpened \in Nat

VARIABLES
  tabs,        \* the tabs in the order of the strip
  activeTab,   \* active_tab_id
  nextTab,     \* next_tab_id
  addressBar,
  edited,      \* the user typed into the address bar since it was set
  refused,     \* observed only: the last load asked for was refused, none reported since
  cef,         \* the WebView exists
  page,        \* the page it shows
  going,       \* the URL it is about to show
  phase,       \* "idle", "pending", "loading"
  overtaken,   \* a load that was overtaken has still to report its end
  reports,     \* event_rx
  downloads,   \* the list of the downloads panel
  transfers    \* all downloads of the WebView: their URLs and whether they run

table == <<tabs, activeTab, nextTab>>
bar == <<addressBar, edited, refused>>
webview == <<cef, page, going, phase, overtaken>>
vars == <<tabs, activeTab, nextTab, addressBar, edited, refused, cef, page, going, phase,
          overtaken, reports, downloads, transfers>>

Tab == [id : 0..MaxTabs, url : Urls, spinning : BOOLEAN, active : BOOLEAN]
Report == [kind : {"started", "finished", "new-window", "download", "downloaded", "failed"},
           url : Urls]
Item == [url : Urls, status : {"InProgress", "Completed", "Failed"}]

NewTabOf(id) == [id |-> id, url |-> Home, spinning |-> FALSE, active |-> TRUE]

Init ==
  /\ tabs = <<NewTabOf(0)>> /\ activeTab = 0 /\ nextTab = 1
  /\ addressBar = Home /\ edited = FALSE /\ refused = FALSE
  /\ cef = FALSE /\ page = Home /\ going = NoUrl /\ phase = "idle" /\ overtaken = FALSE
  /\ reports = <<>> /\ downloads = <<>> /\ transfers = <<>>

Drained == reports = <<>>

Room == nextTab + Len(transfers) < MaxOpened

ShowUrl(u) == addressBar' = u /\ edited' = FALSE

(* The active tab after f, the others as they are.                         *)
WithActive(f(_)) ==
  [n \in DOMAIN tabs |-> IF tabs[n].id = activeTab THEN f(tabs[n]) ELSE tabs[n]]

(* cef.load_url, which needs a WebView.  A load that is under way is       *)
(* overtaken.  The WebView may refuse the URL; nobody is told.             *)
LoadUrl(u) ==
  \/ ~cef /\ UNCHANGED <<webview, refused>>
  \/ /\ cef /\ going' = u /\ phase' = "pending"
     /\ overtaken' = (overtaken \/ phase # "idle") /\ refused' = FALSE
     /\ UNCHANGED <<cef, page>>
  \/ cef /\ refused' = TRUE /\ UNCHANGED webview

(* ------------------------------- the tabs ------------------------------ *)

(* From the address bar, a bookmark, the home button, an agent's UrlUpdate *)
(* or a page that asked for a new window.                                  *)
Navigate(u) ==
  /\ ShowUrl(u) /\ LoadUrl(u)
  /\ tabs' = WithActive(LAMBDA t : [t EXCEPT !.url = u, !.spinning = TRUE])
  /\ UNCHANGED <<activeTab, nextTab, downloads, transfers>>

UserNavigates(u) == Drained /\ Navigate(u) /\ UNCHANGED reports

TypeAddress(u) ==
  /\ Drained /\ addressBar' = u /\ edited' = TRUE
  /\ UNCHANGED <<refused, table, webview, reports, downloads, transfers>>

EnterAddress == Drained /\ Navigate(addressBar) /\ UNCHANGED reports

(* A Navigate command of an agent run; without a WebView it is dropped.    *)
CommandNavigate(u) ==
  /\ Drained /\ cef
  /\ ShowUrl(u) /\ LoadUrl(u)
  /\ tabs' = WithActive(LAMBDA t : [t EXCEPT !.url = u])
  /\ UNCHANGED <<activeTab, nextTab, reports, downloads, transfers>>

(* Faulty: the id is the length of the list.                               *)
NewTabByLength ==
  /\ Drained /\ nextTab < MaxTabs /\ Room
  /\ tabs' = Append([n \in DOMAIN tabs |-> [tabs[n] EXCEPT !.active = FALSE]],
                    NewTabOf(Len(tabs)))
  /\ activeTab' = Len(tabs) /\ nextTab' = nextTab + 1
  /\ ShowUrl(Home) /\ LoadUrl(Home)
  /\ UNCHANGED <<reports, downloads, transfers>>

NewTab ==
  /\ Drained /\ nextTab < MaxTabs /\ Room
  /\ tabs' = Append([n \in DOMAIN tabs |-> [tabs[n] EXCEPT !.active = FALSE]],
                    NewTabOf(nextTab))
  /\ activeTab' = nextTab /\ nextTab' = nextTab + 1
  /\ ShowUrl(Home) /\ LoadUrl(Home)
  /\ UNCHANGED <<reports, downloads, transfers>>

SwitchTab(n) ==
  /\ Drained /\ n \in DOMAIN tabs /\ tabs[n].id # activeTab
  /\ tabs' = [m \in DOMAIN tabs |-> [tabs[m] EXCEPT !.active = (m = n)]]
  /\ activeTab' = tabs[n].id
  /\ ShowUrl(tabs[n].url) /\ LoadUrl(tabs[n].url)
  /\ UNCHANGED <<nextTab, reports, downloads, transfers>>

(* Faulty: the last tab is activated, but its page is not loaded.          *)
CloseTabUnloaded(n) ==
  /\ Drained /\ n \in DOMAIN tabs /\ Len(tabs) > 1
  /\ LET rest == RemoveAt(tabs, n) IN
     IF tabs[n].id = activeTab
     THEN /\ tabs' = [rest EXCEPT ![Len(rest)].active = TRUE]
          /\ activeTab' = Last(rest).id
          /\ ShowUrl(Last(rest).url) /\ UNCHANGED <<webview, refused>>
     ELSE tabs' = rest /\ UNCHANGED <<activeTab, bar, webview>>
  /\ UNCHANGED <<nextTab, reports, downloads, transfers>>

(* The last tab stays.  When the active one goes, the last one left takes  *)
(* its place.                                                              *)
CloseTab(n) ==
  /\ Drained /\ n \in DOMAIN tabs /\ Len(tabs) > 1
  /\ LET rest == RemoveAt(tabs, n) IN
     IF tabs[n].id = activeTab
     THEN /\ tabs' = [rest EXCEPT ![Len(rest)].active = TRUE]
          /\ activeTab' = Last(rest).id
          /\ ShowUrl(Last(rest).url) /\ LoadUrl(Last(rest).url)
     ELSE tabs' = rest /\ UNCHANGED <<activeTab, bar, webview>>
  /\ UNCHANGED <<nextTab, reports, downloads, transfers>>

(* The strip reports one thing a frame; it has no cross on the only tab.   *)
TabStrip == NewTab \/ \E n \in 1..MaxTabs : SwitchTab(n) \/ CloseTab(n)

(* The first frame with room for it creates the WebView, with the URL of   *)
(* the first tab.  Creation may fail, and is not tried again.              *)
InitBrowser ==
  /\ ~cef /\ Drained
  /\ cef' = TRUE /\ going' = tabs[1].url /\ phase' = "pending"
  /\ UNCHANGED <<table, bar, page, overtaken, reports, downloads, transfers>>

(* What is left when f keeps the running items, in their order.            *)
Keeps(f) ==
  /\ \A k, l \in DOMAIN f : k < l => f[k] < f[l]
  /\ {f[k] : k \in DOMAIN f} = {n \in DOMAIN downloads : downloads[n].status = "InProgress"}

ClearCompleted ==
  /\ Drained
  /\ \E n \in 0..Len(downloads) : \E f \in [1..n -> DOMAIN downloads] :
       Keeps(f) /\ downloads' = [k \in 1..n |-> downloads[f[k]]]
  /\ UNCHANGED <<table, bar, webview, reports, transfers>>

(* ---------------------- the reports of the WebView --------------------- *)

(* Started or finished: the active tab has this URL now.                   *)
BookLoad(u, spinning) ==
  /\ ShowUrl(u) /\ refused' = FALSE
  /\ tabs' = WithActive(LAMBDA t : [t EXCEPT !.url = u, !.spinning = spinning])
  /\ UNCHANGED <<activeTab, nextTab, webview, downloads, transfers>>

BookDownload(u) ==
  /\ downloads' = Append(downloads, [url |-> u, status |-> "InProgress"])
  /\ UNCHANGED <<table, bar, webview, transfers>>

(* The first item with this URL is the one.                                *)
BookDownloaded(u, status) ==
  /\ downloads' = [n \in DOMAIN downloads |->
                     IF /\ downloads[n].url = u
                        /\ \A m \in 1..(n - 1) : downloads[m].url # u
                     THEN [downloads[n] EXCEPT !.status = status] ELSE downloads[n]]
  /\ UNCHANGED <<table, bar, webview, transfers>>

ProcessReport ==
  /\ ~Drained /\ reports' = Tail(reports)
  /\ LET r == Head(reports) IN
       CASE r.kind = "started" -> BookLoad(r.url, TRUE)
         [] r.kind = "finished" -> BookLoad(r.url, FALSE)
         [] r.kind = "new-window" -> Navigate(r.url)
         [] r.kind = "download" -> BookDownload(r.url)
         [] r.kind = "downloaded" -> BookDownloaded(r.url, "Completed")
         [] r.kind = "failed" -> BookDownloaded(r.url, "Failed")

(* ------------------------------ the WebView ---------------------------- *)

Reports(seq) ==
  /\ Len(reports) + Len(seq) <= MaxReports
  /\ reports' = reports \o seq

Says(kind, u) == [kind |-> kind, url |-> u]

(* The content arrives.                                                    *)
Commit ==
  /\ phase = "pending" /\ Reports(<<Says("started", going)>>)
  /\ page' = going /\ going' = NoUrl /\ phase' = "loading"
  /\ UNCHANGED <<table, bar, cef, overtaken, downloads, transfers>>

(* A load ends, also one that was stopped or never showed anything.        *)
Finish ==
  /\ phase # "idle" /\ Reports(<<Says("finished", page)>>)
  /\ phase' = "idle" /\ going' = NoUrl
  /\ UNCHANGED <<table, bar, cef, page, overtaken, downloads, transfers>>

(* The overtaken load ends: what it reports is the page on the screen.     *)
FinishOvertaken ==
  /\ overtaken /\ Reports(<<Says("finished", page)>>)
  /\ overtaken' = FALSE
  /\ UNCHANGED <<table, bar, cef, page, going, phase, downloads, transfers>>

(* A link, the back and forward buttons, a script: the page goes elsewhere *)
(* by itself.                                                              *)
PageGoes(u) ==
  /\ cef /\ phase = "idle"
  /\ going' = u /\ phase' = "pending"
  /\ UNCHANGED <<table, bar, cef, page, overtaken, reports, downloads, transfers>>

(* A request for a new window is turned down and reported.                 *)
OpenWindow(u) ==
  /\ cef /\ phase = "idle" /\ Reports(<<Says("new-window", u)>>)
  /\ UNCHANGED <<table, bar, webview, downloads, transfers>>

(* What was to be shown turns out to be a file.                            *)
StartDownload ==
  /\ phase = "pending" /\ Len(transfers) < MaxDownloads /\ Room
  /\ Reports(<<Says("download", going), Says("finished", page)>>)
  /\ transfers' = Append(transfers, [url |-> going, running |-> TRUE])
  /\ going' = NoUrl /\ phase' = "idle"
  /\ UNCHANGED <<table, bar, cef, page, overtaken, downloads>>

EndDownload(n) ==
  /\ n \in DOMAIN transfers /\ transfers[n].running
  /\ \E kind \in {"downloaded", "failed"} : Reports(<<Says(kind, transfers[n].url)>>)
  /\ transfers' = [transfers EXCEPT ![n].running = FALSE]
  /\ UNCHANGED <<table, bar, webview, downloads>>

WindowNext ==
  \/ ProcessReport \/ InitBrowser \/ TabStrip \/ EnterAddress \/ ClearCompleted
  \/ \E u \in Urls : UserNavigates(u) \/ TypeAddress(u) \/ CommandNavigate(u)
  \/ Commit \/ Finish \/ FinishOvertaken \/ StartDownload
  \/ \E u \in Urls : PageGoes(u) \/ OpenWindow(u)
  \/ \E n \in 1..MaxDownloads : EndDownload(n)

WindowSpec == Init /\ [][WindowNext]_vars

(* ------------------------------ properties ----------------------------- *)

Active == CHOOSE n \in DOMAIN tabs : tabs[n].id = activeTab

(* One tab is marked as active, and it is the one the id says; no id is    *)
(* given twice, although tabs are closed and opened in any order.          *)
WindowTypeOK ==
  /\ tabs \in Seq(Tab) /\ Len(tabs) > 0
  /\ \A n, m \in DOMAIN tabs : tabs[n].id = tabs[m].id => n = m
  /\ \A n \in DOMAIN tabs : tabs[n].active <=> tabs[n].id = activeTab
  /\ \E n \in DOMAIN tabs : tabs[n].active
  /\ nextTab \in 1..MaxTabs /\ \A n \in DOMAIN tabs : tabs[n].id < nextTab
  /\ addressBar \in Urls /\ edited \in BOOLEAN /\ refused \in BOOLEAN
  /\ cef \in BOOLEAN /\ page \in Urls /\ going \in Urls \cup {NoUrl}
  /\ phase \in {"idle", "pending", "loading"} /\ overtaken \in BOOLEAN
  /\ going = NoUrl <=> phase # "pending"
  /\ reports \in Seq(Report) /\ downloads \in Seq(Item)
  /\ transfers \in Seq([url : Urls, running : BOOLEAN])

Settled == cef /\ Drained /\ phase = "idle" /\ ~overtaken

Once(u) ==
  Cardinality({n \in DOMAIN transfers : transfers[n].url = u}) = 1

(* When the WebView has nothing under way and its reports are drained, the *)
(* active tab has the URL of the document on the screen and does not spin, *)
(* and the address bar shows it unless the user is typing, provided that   *)
(* the load asked for last was not refused, or one was reported since; and *)
(* what was downloaded once runs in the panel only if it runs: whatever    *)
(* loads overtook each other, became downloads or failed, and whichever    *)
(* tab was active then.                                                    *)
WindowTellsTheTruth ==
  Settled =>
    /\ ~refused => /\ tabs[Active].url = page /\ ~tabs[Active].spinning
                   /\ ~edited => addressBar = page
    /\ \A n \in DOMAIN downloads, m \in DOMAIN transfers :
         Once(downloads[n].url) /\ downloads[n].url = transfers[m].url =>
           (downloads[n].status = "InProgress" <=> transfers[m].running)
=============================================================================
