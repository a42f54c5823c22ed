# Verification of KitsuneEngine

KitsuneEngine is a desktop browser (egui window, embedded browser view) with an
agent workspace: the user types a goal, an LLM-driven agent, or a swarm of them,
works on the page, and asks the user before it does something sensitive. The
Rust workspace has twelve crates under `src/crates/`. This directory holds TLA+
modules of its control logic, TLC configurations that check them on small
instances, and TLAPS proofs for every size.

    tlc -workers 2 -config MCSwarm.cfg MCSwarm      # model-check
    tlapm SwarmProofs.tla                           # prove

`PROJECT.json` lists components, runs, hazards (each at its line), findings,
theorems, and for every definition the lines it models.

## 1. Inventory

Paths are relative to `src/crates/`.

| Component | State it keeps | Operations | Model |
|---|---|---|---|
| Swarm (`kitsune-agent/src/swarm/`) | task table behind an `RwLock`, handle map, semaphore, outputs | plan, reap, select, claim, spawn, sweep on stop, reconcile; worker under a timeout | `Swarm`, `TaskBoard` |
| Agent session and HIL gate (`kitsune-ui/src/panels/agent_panel.rs`, `kitsune-hil/src/gate.rs`, `kitsune-ui/src/dialogs/hil_dialog.rs`, frames of `app.rs`) | run state, stop flag, events, checkpoint channel, dialog, audit log | Run, Stop, drain, checkpoint, show, confirm, deny, time out | `AgentSession` |
| File permission (`loop_runtime.rs` ReadFile, `app.rs` modal) | slot behind a mutex, modal | ask, show, answer, time out | `FilePerm` |
| Agent loop (`kitsune-agent/src/loop_runtime.rs`) | turn, last observation, two locks of the swarm, command channel | observe, ask the model, lock, act | `Workers` |
| Broker (`kitsune-core/src/broker.rs`) | process table, crash counts, event queue | route, crash, ready, respawn timer | `Broker` |
| IPC server (`kitsune-ipc/src/transport.rs`) | client table, channel to the broker | accept, first message, forward, remove, `send_to` | `IpcServer` |
| IPC bus (`kitsune-ipc/src/{bus,channel}.rs`) | inboxes by id, pending requests | register, route, resolve, unregister | `IpcBus` |
| Vault (`kitsune-vault/src/`) | salts in the keychain, rows, audit table, tokens | open, store, retrieve, consume, expire | `Vault`, `Tickets` |
| AI router, quota, cloud client (`kitsune-ai/src/`) | copy of the month's quota in memory and on disk, model files | route, fall back, check quota, send, retry | `Cloud` |
| Orchestrator, task agents, scripted executor (`kitsune-agent/src/{orchestrator,executor}.rs`, `agents/`) | queue of sub-tasks | plan, navigate, fill, click, captcha, offers | `TaskAgents` |
| Profile indexer (`kitsune-agent/src/profile.rs`) | cached summary on disk | re-index: read, summarise, write, rename | `ProfileIndex` |
| Network client (`kitsune-net/src/`) | partitioned cookie jar, response cache | hop: block, cookies, cache, send; follow redirects | `Fetch` |
| Demo server (`kitsune-cloud-mock/src/`) | settings, one slot for the user's answer | plan, stream, ask, answer, swarm stream | `DemoServer` |
| Window (`kitsune-ui/src/app.rs`, tabs and host) | tabs, address bar, downloads | navigate, open, switch, close, book reports | `Window` |
| Swarm board (`kitsune-ui/src/panels/`, events in `app.rs`) | cards, shown answer | fold plan, updates, end | `SwarmCards` |
| Engine facade, agent budget, older capability runtime, agent builder, HIL wording, sandbox policy, theme | little or none | | not modelled, section 6 |

How they interact. Run (UI thread) spawns a future on the tokio pool and hands it
the stop flag (`Arc<AtomicBool>`, one per window), the HIL gate, the file
permission slot, the web view command channel and an event channel. The future
loops: stop check, observe, ask the model, act. A sensitive fill sends a
checkpoint with a oneshot sender through the gate and waits. The window drains
the channels once a frame, in a fixed order: browser events, agent events, web
view commands, file permission, checkpoints, then panels, then dialogs. A swarm
run is a coordinator future that spawns worker futures, each with an agent loop
of its own; they share the task table, two locks and the same gate. The server,
the broker and the bus have no code between them, nor have the vault, the cloud
client and the network client: each is called for itself.

What is hard. Several runs live at once, since Stop makes the window idle before
the stopped run has noticed; one flag, one slot, one page and one board for all of
them; dialog state set and cleared in different places; a coordinator reading a
table that workers write; verdicts written twice; aborts that take effect at the
next await; a navigation that reaches the window by an event and by a command; waits inside event loops and under locks; connections of one role that
overtake each other; answers and respawns that come late; a row and its audit entry
in two statements; two instances on one database; a quota counted on both sides of
a connection that loses answers.

What makes each component correct:

- Swarm: dependencies before dependents; one worker per task; no output lost and
  no worker orphaned; a lasting Stop ends the run; it implements a task board.
- Session, gate, files: no fill and no read without the user's consent to that very
  request; no request lost; everything answered; stop ends runs.
- Agent loop: the locks cannot deadlock; Stop bounds what a run may still change until the next Run;
  one waiting worker does not hold up another.
- Platform: sandboxed processes reach neither each other nor a capability; the
  client table names served connections; whoever waits can be answered.
- Services: what must stay local stays; the copy of the quota says nothing the server did
  not count; silence is no consent, and no more runs go on than the user said yes; a refusal is
  final; no hop escapes the filter; every call ends.
- Desktop: nothing disclosed without audit; a handle is a one-time ticket for a value of the
  slot it was asked for; window and board show what is; the cached profile is whole.

## 2. Modules

Operators commented "Faulty" are not part of any specification. Each is a
plausible mistake in one definition; substituted for it, the run must report the
property named in `PROJECT.json`, which shows that the property depends on the code.

### The agent

- `TaskBoard`: what a swarm run promises, without loop, handles or permits. A plan
  is published once; a task starts when its dependencies are complete, at most
  once; one conclusion; an answer only from completed tasks.
- `Swarm`: the run itself. `pc` is the coordinator's place in `run` (planning, top
  of the loop, cancel, reap, spawn, acquire, finish, reconcile); `status` is the
  shared table; `worker` is the life of each spawned future, with the points
  between its own table write and its return (`savedOk`, `savedErr`) kept apart, as is `told`,
  an agent loop that has seen the flag and will report so even if it is cleared;
  `handles`, `permits`, `outputs` are the coordinator's map, the semaphore and
  `completed_outputs`. An action is what a future does between two awaits at which
  another one can interfere. `PressStop` and `PressRun` are the window's: the next Run clears
  the flag all runs share. Ids are looked up as `find` does: the first entry wins.
  `Board` is the refinement mapping to `TaskBoard`.
- `AgentSession`: Run and Stop, the four phases of a frame that touch this state
  (events, checkpoints, panel, dialog), the gate's channel (`queue`), what the
  window holds (`pending`) and shows (`dialog`), the answers sent (`decision`), and
  the runs, each at its stop check, at work, or waiting for an answer. A swarm run
  stands for the one worker that can wait for approval. `consent` and `told` are
  history variables.
- `FilePerm`: the slot with its mutex, requests with their oneshot channel, modal
  and click. `granted` and `reads` are history variables.
- `Workers`: several agent loops on one page. `at` is the place of a run in a turn
  (`Poll`, `Observe`, `Think`, then `LockNav`, `LockHil`, `Act` or `Read`), `seen` the
  page as it observed it, `nav` and `hil` the holders of the two locks, `commands`
  the bounded channel to the window. `Window` executes the next command on the page
  it shows by then. A navigation is announced first (`Announce`) by an event, for which the
  window loads the URL too, outside the channel; that load is one of the `PageTurns`. A page is untagged, or tagged with a sensitive field or without
  one, because that is what an element id can be wrong about. Single runs have no
  locks. `PressRun` clears the flag. `late` (the turns in which a run asked for changes after
  Stop, and by which way) and `unapproved` are history variables.
- `TaskAgents`: the orchestrator's run, or the scripted executor's, as a queue of
  elementary steps. `Plan` fills it, each action takes the first step and may put
  others in its place; `Fails` ends the run, or the current action of a script. Every call that
  hands a script to the window may fail with its channel; `Answered` are the calls that await
  the page, for which nothing is assumed.

### The platform

- `IpcMessages`: roles, payloads, and three tables of the code: what a role may send
  (`Permitted`), which capability a payload needs, where the broker routes it.
- `IpcServer`: one task per connection (`stage`), the table `clients`, and `send_to`,
  which writes to the socket with the table locked (`writing`). A client may come
  back under its role before the end of its old connection is seen.
- `Broker`: registration before the loop, the event queue, the loop's handlers.
  `busy` is the send the loop waits in; `readies` are detached timers. Time is one
  bit per process, whether its last crash is in the crash window.
- `IpcBus`: `route` keeps a reference into the concurrent map while it waits for room
  (`Held`), and blocks who registers or unregisters that id. `DropFirst` says that a
  leaver drops its receiver before `unregister_process`.
- `Platform` composes the three.

### Services

- `Cloud`: AI requests from routing to answer, with the quota's copy (`cache`, `disk`)
  and the server's count of each account and month (`counted`), months that pass, answers lost
  before or after they are counted, processes that end and start again. The keychain has one
  `token`, overwritten by each login; a process keeps the `account` it started with, and the
  file of the copy belongs to none. `whose` and `when` in a copy are history: for whom and
  when the server counted what it says. All outcomes of a request are one place, `over`.
- `DemoServer`: runs as streams of events that the client reads; `hilTx` is the one
  slot for all runs.
- `Fetch`: each hop of a request, the header it carries (`cookie`), the jar.
- `Services` composes these three and `TaskAgents`.

### Desktop

- `Vault`: instances that open with the salts of the keychain, `rows`, a set of entries with
  the salts they were written under, and the two statements of store and retrieve. A token is
  `bound` while only the map knows it and `handed` when the caller does. Of several rows of a slot
  the oldest is found, as the query returns it. `raced`, a
  history variable, says that two instances opened at once.
- `Tickets`: what the handles promise; `HandlesAreTickets` is the refinement.
- `Window`: any number of tabs, one WebView that is told what to load and reports
  what it did; a report is booked on the tab that is active when it is drained. It may refuse
  a URL, of which nobody is told (`refused`, a history variable). A page is a document: what it
  does to its own URL, a fragment or pushState, loads and reports nothing and is left out.
- `SwarmCards`: events of all swarms in one queue, folded into one board whose cards
  are found by role.
- `ProfileIndex`: re-index threads on inodes: create or empty the temporary file,
  write it, rename it, with kills and full disks between.
- `Desktop` composes these four.

`Platform`, `Services` and `Desktop` hold components that share no state. Their
product would only multiply states, so `part` chooses in the initial state which
component moves; the others stay as they began. Every property is thus a
property of each component against the freest environment it could have.

`MCSwarm`, `MCFilePerm`, `MCWorkers`, `MCPlatform`, `MCServices` and `MCDesktop` give
the constants their values; `AgentSession` has numbers only, and its configurations
name it directly.

## 3. Runs

| Run | Properties | Shows |
|---|---|---|
| `swarm` (63 270 states) | `TypeOK`, `PermitReady`, `OutputsKept`, `SpawnedOnce`, `VerdictsStand`, `ImplementsBoard`, `StopEndsRun`, `HealthyRunEnds` | no order of coordinator and worker steps loses an output, orphans a worker or runs a task early; the run implements the task board, so dependencies come first (a theorem states it by itself, `SwarmDependenciesFirst`); a lasting Stop ends every run, and a run with a plan that can be ranked and workers that succeed ends by itself |
| `session` (104 087) | `TypeOK`, `FilledWithConsent`, `NothingLost`, `AnsweredUnlessStopped`, `StopEndsRuns` | fills only with consent to that checkpoint, no checkpoint lost or doubled; answers and lasting Stops |
| `fileperm` (27 681) | `TypeOK`, `WaitingIsAnswerable`, `OneReadPerAllow`, `RequestsResolve` | a waiting request is in the slot exactly if nothing was sent to it, one read per Allow, every request resolved |
| `workers` (317 663) | `WorkersTypeOK`, `HilNeverContended`, `StopBoundsActions`, `OthersEnd` | lock order; after a Stop, until a Run undoes it, a run asks for changes in one turn at most: one command, before it an event if it navigates; every run ends or waits for the user itself |
| `platform` (35 668) | `TypeOK`, `SandboxConfined`, `ListedIsServed`, `WaitingIsPending`, `EverythingResolves` | confinement, the client table under reconnection, answers that find their requester; closed connections, crashes and routes are seen to their end |
| `services` (119 938) | `TypeOK`, `SensitiveStaysLocal`, `CopyNotAhead`, `NoResumeWithoutYes`, `RefusalFinal`, `HopsConfined`, `CallsEnd` | routing, quota, consent, refusals and redirects over retries, restarts, logins, timeouts and lost answers; every call ends, unless the user or the page never answers or a response body never ends |
| `desktop` (1 798 011) | `TypeOK`, `DisclosureAudited`, `ShownIsTrue`, `CacheIsWhole`, `RowsReadable`, `BindsItsSlot`, `HandlesAreTickets` | audit and tickets over crashes and two instances, salts that stay those of the rows, what window and board show once all is drained, the cache over kills |
| `swarm_ends` | `RunEnds` | *violated*: a failed dependency makes the run poll for ever (coordinator.rs 238) |
| `session_wedge` | `EveryAskAnswered` | *violated*: Stop during the dialog keeps the checkpoint in the window, and no dialog opens again (agent_panel.rs 290, app.rs 882) |
| `session_restart` | `StopAtNextIteration` | *violated*: Run resets the flag before a stopped run has read it (agent_panel.rs 794) |
| `fileperm_shown` | `AllowedAsShown` | *violated*: a click answers another request than the modal shows (app.rs 1155) |
| `workers_sensitive` | `SensitiveApproved` | *violated*: an observation that timed out is empty, an element not found in it counts as harmless, and the fill goes to the sensitive field of that number on the page the window shows (loop_runtime.rs 389-395, 585-588) |

Bounds, and why they are enough.

- `swarm`: three workers and eleven plans over four ids: chain, fan-in, fan-out, cycle,
  self-dependency, unknown and repeated id, empty, single, and two plans of four that
  are truncated, one of them losing a dependency. Three positions give every relation
  two dependencies can have, three workers every overlap of "writing", "returning"
  and "being reaped".
- `session`: two runs for the shared flag, two checkpoints for one to queue behind the
  other; `MaxTickets` is below the channel's 100, so that the gate's `send` does not wait.
- `fileperm`: two agents, three requests, so that one whose request was replaced asks again.
- `workers`: two runs, two turns each, a channel of one command, so that it is full.
- `platform`: two connections that may claim one role; one child besides the window,
  channels of one, an event queue of two, two crashes to give a process up and three
  exits to go beyond it; two bus processes with inboxes of one and two requests.
- `services`: two AI requests, of each kind that is routed differently, one retry, two
  accounts with a quota of two, so that two answers may be read in the wrong order, and one
  change of month; two demo runs on the slot, plans of two actions;
  two sub-tasks of two fields and two polls of the solver; one HTTP request over
  two origins and a tracker, with two redirects, so that it leaves an origin and comes back.
  Several requests on one jar are the theorem's (`ServicesHopsConfined`).
- `desktop`: two instances, two keys of one slot and one of another, two stores, so that
  a row may be replaced or shadow another, one token (several are the theorems'); two pages,
  three tabs and downloads together, two undrained reports; two swarms of two workers with
  equal and with different roles, and queues of two; two re-index threads, three inodes.

Deadlock is checked for `swarm`, `session` and `fileperm`: `Swarm` has `Over`, a stuttering
step of a run that has ended with no future left, and `FilePerm` has `Quiet`, one
when all agents have been answered. The other models may really stop, when a bound is
used up or every call is over (`CHECK_DEADLOCK FALSE`); there the liveness properties
say what must not be left waiting.

Fairness. It is what the scheduler, the timers and the timeouts of the code give, and
never the user: no click, no answer, no Stop has to happen.

- `Swarm`: weak fairness of the coordinator and of each worker, as futures of a
  multi-threaded runtime whose LLM calls and workers have timeouts. A worker's is that of the
  disjunction of its steps: it finishes somehow, success is not assumed.
- `AgentSession`: a frame (the window repaints every 16 ms, app.rs 1319), the dialog's
  clock, each run. `FilePerm`: the same, with the wait of 60 s.
- `Workers`: the window drains its channel each frame; strong fairness of a run, because
  the tokio mutex and channel are first come first served, and have timeouts.
- `Platform`: strong fairness for who waits at a fair lock or channel (connection tasks,
  respawn timers, routes); weak fairness of the loop and of readers. That children,
  clients and bus processes read until they leave is an assumption about programs outside
  the repository. No crash, exit or registration has to happen.
- `Services`: weak fairness of the calls of the cloud, the model, the solver and the demo
  server's streams, which have timeouts and bounds; that one of them goes on is enough.
  A response body has none, nor has the wait for the page's answer to a script
  (dom_access.rs 56, 85, form.rs 160, captcha.rs 218): a page that
  is busy or shows an alert holds its run, and `CallsEnd` lets both go on for ever.
- `Desktop`: none; it has safety properties only.

Lasting Stops. One flag serves all runs of a window, and the next Run clears it
(agent_panel.rs 794) whether or not the stopped ones have looked. `StopEndsRun`, `StopEndsRuns` and
`StopBoundsActions` are therefore stated for a Stop that no later Run undoes, with Run as a step of
the environment in all three models; `session_restart` shows what happens otherwise.
`StopEndsRuns` also asks that the window does not hold an unshown checkpoint (`session_wedge`).

Other conditions. `CacheIsWhole` is stated for runs that do not overlap. `RowsReadable` is about
salts, and stated for instances that do not open at once: every instance has the salts under which
each row is found and decrypted, though a shadowed row is never returned. `ShownIsTrue` is
stated for roles that name one worker, swarms that are not live at once where it is about
their answers, URLs downloaded once, and, for tab and address bar, unless the load
asked for last was refused and none was reported since. Outside these conditions the code does
not keep it, and nothing prevents them. `NoResumeWithoutYes` is a count: a yes meant for one run's
question that resumes another (kitsune-cloud-mock/src/lib.rs 284-293) satisfies it, since an
answer names no run. `CopyNotAhead` compares a copy with what the server counted for the account and
month of the answer that was read last; these may be another account and an earlier
month than the present ones (`ExhaustedThisMonth` below).

Three formulas are stated in the modules, are false of the code and belong to no run.
`Broker!UnrecoverableSticks`: a respawn timer of an earlier crash, or any late
`ProcessReady`, makes an Unrecoverable process Running again (broker.rs 240).
`IpcServer!ServedIsListed`: the end of an old connection removes the entry of the
one that replaced it (transport.rs 188), which is served on but cannot be sent to.
`Cloud!ExhaustedThisMonth`, in the words of quota.rs 23: a process that runs across the end of a
month keeps its copy, because `check` does not look at the date (quota.rs 100-115), and an account that
logs in after another in one month finds the other's file (206-211); either is refused
although the server has counted nothing for it.
The `platform` and `services` runs take these steps, and their properties hold with them.

## 4. Proofs

Eight modules prove 33 theorems for every value of the constants: sets of plans, runs,
connections, tokens and requests of any size, and any bounds. The assumptions are the
named ones of the modules (`SwarmAssumption`, `SessionAssumption`, `FilePermAssumption`,
`WorkersAssumption`, `PlatformAssumption`, `ServicesAssumption`, `DesktopAssumption`): what is no
member of a set is none, capacities are positive, plans are sequences of records. TLC evaluates them in
every run. In each module an inductive invariant is shown to hold initially and to be
kept by every step, and implies the property. That Run may clear the flag at any time is one
of the steps.

`SwarmProofs`. None of the properties is inductive alone; `IInv` joins them. That no task
is spawned twice depends on the claim being made only for an entry that is still Pending,
and a Pending entry having an idle worker. That verdicts stand depends on what each phase of a worker
says of its entry: one that returned an answer has Completed there, so that reaping
rewrites the same value. That a permit is ready is counting: permits plus active
workers is `MaxWorkers`, the entry being claimed is not active, and the plan was truncated to `MaxWorkers`
entries. The ready batch is a snapshot and carries its own invariant: what is in it had its
dependencies met, and a Completed task stays Completed. `OutInv` adds where outputs are:
a collected task was reaped and its handle is gone, handles are thrown away only
on the way to the end, and every active worker is in the map or aborted; `OutputsKept` follows.
With `EndInv` (a verdict exactly at the end) each step of the run is shown to be one
step of `TaskBoard` or none: `SwarmImplementsBoard`.

`AgentSessionProofs`. The dialog shows nothing but the checkpoint the window holds; only confirmed
checkpoints are approved; nothing is decided before it is asked. The first is the
heart of it, as the answer goes to the checkpoint held and the consent to the one shown. The converse
does not hold after a Stop, which `session_wedge` shows.

`FilePermProofs`. The sender in the slot was not used (`SlotUnused`), and nothing is answered before
it was in the slot. `OneReadPerAllow` counts Allows with the cardinality theorems.

`WorkersProofs`. `LocksHeld`: in a swarm who is past the navigation lock holds it, and who
holds the approval lock is asking, so it is the same worker, which makes the approval lock
vacuous. `LateOnce`: after the command that Stop did not prevent, a run is at its stop
check or over, and after the event of a navigation it has the command of the same turn left.

`PlatformProofs`. `TableInv` for the client table; `RequestInv` for the pending table: who waits
has asked; `ToldInv` and `TrafficInv` follow a payload from the socket through
the server's table, the queue and the loop's pending send to the child's inbox, and need the lemma that
the table of permissions and the table of routes agree for sandboxed roles
(`SandboxTables`). `MailInv` and its neighbours give the types.

`ServicesProofs`. `RouteInv`: a sensitive request is never on the path on which a failure leads to
the cloud. `QuotaInv`: an answer on its way says no more than the server has counted for
the account of the process and the month it was counted in, counts only grow, no copy is from the
future, calls end with their process, and a process loads no count of a month that was over.
`ConsentInv`: a run whose sender is in the slot was not answered and asks nothing else, and
resumed runs plus those with a yes on its way are at most the approvals. `RefusalInv`,
`FetchInv`: what a request may carry is fixed when its next hop is known.

`ShownProofs`, `ShownIsTrue` for any number of tabs, pages, downloads, swarms and workers. For
the page (`TabsInv`): while the WebView has nothing under way and did not refuse the load asked for last, the last load among the
undrained reports is the page on the screen, or a new window that is about to be loaded; so the
tab that is active when it is drained gets the right URL, whichever tabs were
opened, closed and switched to before. This takes `WindowTypes`: one tab is active, and it is
the one whose id the window holds. For the downloads (`TransfersInv`): a download whose URL is downloaded once
is reported once, has one item, and the item runs until the reported end is drained (`ReportedOnce`,
`ListedTruly`); clearing the panel keeps the order of what is left. For the board (`PlanInv`, `CardInv`, `AnswerInv`):
a plan is announced once and before any event of its workers; the last event of a worker
in the queue is what it reported last, or there is none and its card has it; and
`BoardAt(n)`, the swarm on the board once n events are folded, makes an answer find
its own plan, as long as two swarms were never live at once.

`DesktopProofs`. `HandleInv`: nothing is handed out before its audit entry. Each step of the vault
is a step of `Tickets` or none. `VaultInv`: every row has the value stored last under its key,
and who is about to return a token has one; `BindsItsSlot` follows,
since the row found is one of the slot. `SaltInv`: unless `raced`, who
opens is alone, so that a salt it found missing is still missing when it writes one, and every
row and every instance that is up has the salts of the keychain. It is needed because
`RowsReadable` alone says nothing of the salts an opening instance will have.
`ProfileInv`: as long as runs did not overlap there is
one run, the temporary and the cached file are two inodes, and the run writes the temporary one.

Every safety property of the passing runs is stated by a theorem. Only model-checked: the liveness
properties `StopEndsRun`, `HealthyRunEnds`, `AnsweredUnlessStopped`, `StopEndsRuns`,
`RequestsResolve`, `OthersEnd`, `EverythingResolves` and `CallsEnd`, since fairness and ENABLED are
beyond the prover.

## 5. What was seen on the way

Besides the five violated runs, reading the code for the models turned up things that are in no
run, because nothing they could contradict is a property of the behaviour, or
because the code that shows them has no caller.

- `loop_runtime.rs` 371-373 says the history never has two user turns in a row; it may.
- The workers of a swarm are never given the file permission slot (`swarm/worker.rs`), so a
  ReadFile of theirs is denied without the user being asked (loop_runtime.rs 692-694).
- `TokenHandle.expires_at` says five minutes; the map drops the value after 30 seconds.
- No operation of the vault consults the disclosure policy.
- No code of the program calls `HilApproval::consume`; `scrub_pii` returns its argument, because
  `regex_replace` does (cloud.rs 430).
- Two instances that open a fresh vault at once may each keep a salt of their own, and rows
  written under the losing one cannot be read after a restart. `Vault` has this race, and
  `RowsReadable` excludes what follows it.
- Each store draws a key of its own (vault `types.rs` 22-28), and retrieve binds the first row of the slot
  (`db.rs` 95-98, without an order): what is stored a second time for one origin, category and
  label is never returned. No line says which row is meant.
- A URL the WebView refuses leaves its tab spinning under a URL it does not show, because the error is
  dropped (`kitsune-cef/src/lib.rs` 144-146) after the window was set for it (`app.rs` 545-558).
- The waits for a page's answer have no timeout (see Fairness), though model and solver calls have.
- The navigation of an agent is loaded twice, for the event and for the command.
- Two downloads of one URL, and two workers of one role, are confused in the panel and on the board
  (`app.rs` 715, 811).
- The table of pending requests keeps entries whose requester gave up (channel.rs 148).
- The engine facade, the older capability runtime and the agent budget are built by nothing the
  program starts.

## 6. Not modelled

- Engine facade with its list of tabs and history (`kitsune-core/src/engine.rs`), agent budget,
  older capability runtime, agent builder: no caller in the program, and sequential.
- HIL presentation and triggers: wording and value types.
- Sandbox policy: a table and calls of the Windows job object interface.
- Theme, animation, window chrome, dialogs that only edit settings: drawing.
- Canned pages and stateless endpoints of the demo server.
- Prompts and histories as text, wire formats, titles, logs, token counts, and
  cryptography, of which `Vault` keeps under which salts a row was written.
- Of the window: file attachments and settings; the child-window plumbing of the host.
- Of the gate: its test mode and `clear_audit_log`. Of the network client: DNS prefetch and
  headers other than Cookie.
- Clocks are not measured: a timeout may happen whenever its wait is on. Where two
  durations are ordered (a respawn delay of one second, a crash window of ten), a guard says so.
- Mutexes of the standard library are never poisoned.

What is left to do: the disclosure policy when something consults it; more than one
page, when tabs get a WebView each; and the composition of `Workers` with
`AgentSession`, whose approvals the former takes as a free choice.
