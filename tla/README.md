# A TLA+ verification of devhost

devhost runs the processes of local development stacks. One `devhost` process supervises one
stack: it starts the services of a manifest, routes their hostnames through a shared Caddy
server, watches the manifest and the services' files, applies edits while the stack runs, and
serves a control API with a browser toolbar and a chat panel. Several devhost processes run on a
machine at once and coordinate through files in a state directory only.

This directory holds TLA+ modules that model the supervisor (`src/apps/devhost`, written in Go)
and the pages at the other end of its streams (`src/packages/devhost-ui`, written in TypeScript),
TLC configurations that check them on small instances, and TLAPS proofs about most of them for
every instance. `PROJECT.json` maps each definition to the lines it stands for, and lists the
runs, the mutants that show each property can fail, the hazards and the theorems.

    tlc -config StackRecords.cfg MCStackRecords     # one of the runs of PROJECT.json
    tlapm StackRecordsProofs.tla                    # the proofs about the stack records

Contents: [inventory](#inventory), [modules](#modules), [runs](#runs), [fairness](#fairness),
[proofs](#proofs), [disagreements](#disagreements), [what is not modelled](#what-is-not-modelled),
[plan](#plan).

## Inventory

Paths are below `src/apps/devhost/internal/` or, in the second table, below
`src/packages/devhost-ui/src/devtools/`. `PROJECT.json` lists every component with its files.

| Component | State it keeps | Operations | Correct when |
|---|---|---|---|
| Stack records (`caddy/stack_record.go`, `stack_overlap.go`, `owners.go`, `services/manifest_registration.go`) | one JSON file per process, named by PID; one flock | register, reserve for a reload, settle, unregister, clean up | no manifest file is read by two running stacks; a running stack's record is its own to change |
| Route and port claims (`caddy/routes.go`, `zombie_cleanup.go`, `stack_occupant.go`) | one exclusively created file per hostname and fixed port; route registrations | clean up, claim, take over, kill a leftover owner, release | a name has one running owner; dead owners block nobody; nobody running is killed |
| Stack runtime (`services/stack.go`, `runtime.go`, `reload*.go`, `retry.go`, `ports.go`, `routes_replace.go`) | installed and accepted manifest, process trees, claims held, published routes, blocked and failed services | start, restart services, restart all, reload, recover, shut down | every operation ends in the old or the new configuration, completely; nothing is lost sight of |
| Reload loop (`services/manifest_watch.go`, `reload_disk.go`, `shared_caddy.go`, the loop of `stack.go`) | watched inputs, a debounce timer, a channel of one report, one reload goroutine per source | save, report, read, watch, apply, cancel | no save goes unjudged; shutdown gets through |
| File watching (`services/watch.go`) | a watcher, debounce timers and the mark per service | event, timer, callback, cancel, clear | a save that the service has not loaded is marked, a cancelled timer marks nothing |
| Control server streams (`devtools/server.go`, `resource_usage.go`, `control_settings.go`, `hostusage/sampler.go`) | the attached pages, the last message of each stream, retained log lines | attach, publish, broadcast, restart the sampler, stop | pages agree with the server; no gap, no repetition, no going back |
| Chat sessions (`devtools/chat_sessions.go`, `chat_send.go`, `chat_process.go`) | per session: status, turn, pending requests, a process | send, steer, answer, close, receive a frame | the status tells what the process does |
| Idle timeout (`services/idle_timeout.go`, `devtools/tracker.go`) | time of the last activity, connections, two tickers | record, check, expire, set | an unused stack stops, a used one does not |
| Caddy routes, settings and lifecycle (`caddy/activation.go`, `settings.go`, `lifecycle.go`, `admin.go`) | route files, applied settings, the shared server's PID file | replace routes, apply settings, start, stop | what is accepted is what is served |
| Worktrees (`services/worktree*.go`, `stop_worktrees.go`) | the checkout each service group runs from | switch, refresh, recover, stop the previous owner | a group has one owner |
| Order and selection (`services/order.go`, `selection.go`) | none | dependency order, closure | the order respects dependencies |
| Containment (`services/containment*.go`) | process groups, cgroups or descendants | signal, wait, kill | nothing of a stopped service lives |
| Configuration editor's routes (`devtools/config_files.go`, `durable_file.go`) | files | list, check, compare and save | a save replaces only what the page had read; a crash leaves the old or the new file |
| Parsing (`manifest/`, `config/`), command line (`cli/`, `app/`), one-shot commands (`list`, `stop`, `restart`), file server, status pages, console output, machine readers | none, or caches | | functions of their input |

| Component of a page | State it keeps | Operations | Correct when |
|---|---|---|---|
| Log minimap (`features/minimap`, `shared/openReconnectingWebSocket.ts`) | rows as rendered, rows put aside, the pause, the connection | receive, pause, resume, render, reconnect | the rows hold what came, in its order |
| Service status and worktree picker (`features/serviceStatusPanel`) | services, repositories, the picker's operation | receive, disconnect, refresh, switch, stop others | a connected page shows the current health; no operation is busy for good |
| Chat client (`features/agentChat/createAgentChatClient.ts`) | conversations, the attached stream, the session task, the open question, sends that wait for an answer | restore, start, resume, join, close, send, answer | a message that failed is with no running agent; it goes to the conversation it was written for; every send ends |
| Chat view (`useAgentChat.ts`, `project*Events.ts`, `readChatDeliveries.ts`, `isChatRequestSettled.ts`) | the frames, and what is folded from them; the awaited reply | receive, send, settle, interrupt, reconnect | what the panel says of a message is what the agent did with it |
| Configuration editor (`features/configEditor`) | files as opened, drafts, the last save's outcome | open, type, save, load from disk, wait for the reload | unsaved text stays; nothing is overwritten unseen; the outcome is told |
| Annotations, highlights, source navigation, external devtools, Redux, toolbar, readouts | what the browser and other programs hold | | draws over the page |

How they interact. `StartStack` (in `stack.go`) registers the stack's record, claims names,
starts services, activates routes and then runs one `select` loop that hears of signals, service
exits, file reports, finished reloads and the idle timeout. Everything that changes services
takes `operationMu`: the reload goroutines, and the control server's handlers for restarts,
settings and checkouts. The control server reads the runtime's health through a callback, and the
runtime calls back `PublishHealthResponse` after its steps. Chat sessions and pages count as
activity for the idle timeout. Stacks meet each other in the state directory (records, claims,
registrations) and in the shared Caddy.

What is hard: several processes that crash between any two system calls, with PIDs that come
back; long operations each of whose steps can fail, and so can their undoing; processes that exit
on their own and ports that other programs take in the middle; goroutines that read state before
they take the lock under which they use it; timers whose callback has begun when they are
cancelled; saves that race the reload that reads them. In the pages: requests and streams that
bring the same state in any order; a connection lost with messages on their way; state read before
an `await` and used after it; callbacks that use what React rendered last; and everything a person
can press meanwhile.

## Modules

| Module | Models | Uses |
|---|---|---|
| `ManifestOwnership` | what stack records promise: exclusive ownership of files, no locks or PIDs | |
| `StackRecords` | the records under their lock, one directory entry at a time | `ManifestOwnership` (refined) |
| `StackRecordsProofs` | theorems about `StackRecords` | TLAPS |
| `Claims` | the claim files, without a lock, one system call at a time | `ManifestOwnership` (stands in for the records) |
| `ClaimsProofs` | theorems about `Claims` | TLAPS |
| `StackRuntime` | one stack from start to shutdown | the record and the claims as sets |
| `StackRuntimeProofs` | theorems about `StackRuntime` | TLAPS |
| `ReloadLoop` | from a saved file to a verdict, and the shutdown | a reload ends in a verdict |
| `DevtoolsServer` | what the two streams have in common | |
| `HealthFeed` | the health stream | |
| `HealthPage` | the page at the other end and its worktree picker | `HealthFeed` (composed) |
| `LogFeed` | the log stream | |
| `LogPage` | the page's log minimap | `LogFeed` (composed) |
| `FeedProofs` | theorems about both streams, `HealthFeed` and `LogFeed`, and about `LogPage` | TLAPS |
| `ChatSession` | one Codex session in devhost | |
| `ChatSessionProofs` | theorems about `ChatSession` | TLAPS |
| `ChatClient` | the page's chat client, and the sessions and sockets of devhost | |
| `ChatClientProofs` | theorems about `ChatClient` | TLAPS |
| `ChatView` | what the panel makes of a conversation's frames, and the agent | |
| `ConfigEditor` | the config editor, its routes, the files and other programs | |
| `PanelProofs` | theorems about `ConfigEditor` and `ChatView` | TLAPS |
| `IdleWatch` | the idle timeout | a chat session as idle or in a turn |
| `WatchProofs` | theorems about `ReloadLoop` and `IdleWatch` | TLAPS |
| `MC*` | instances for TLC: manifests, roots, wants, symmetry | |

**StackRecords.** `records[n]` is `n.json` with the identity of its writer, `lock` the flock.
`TakeLock`, `CleanEntry`, `PassEntry`, `Refuse`, `Write` and `Unregister` are the steps of the
loops under the lock, so a crash falls between any two of them; `IOError` ends an operation
anywhere. `IsOwnerAlive` gives every answer `isRecordOwnerAlive` can: the PID alone decides where
the platform has no start identities, and an identity that cannot be read counts as a match.
`Reload`, `Accept` and `Reject` are the three calls of `reserveManifestFiles` around a reload.

**Claims.** `file[n]` is absent, torn (created and not written) or a record. A claim is read and
judged in one step and removed in another, because no lock joins them; each creation, each write
and each release is a step. `Overlap` names the first stacks, which may start and stop at the same
time; another one starts when those are at rest. `registered` is `ManifestOwnership`'s `holds`, so
two stacks of one manifest never run together. `CallFails` is a read, a write or a removal that is
refused, and a zombie that cannot be killed or is not seen to exit, which ends the start. Route registrations are cleaned up in one step,
under the route lock.

**StackRuntime.** A request sets `op`, which then carries the operation's locals: the candidate,
the services to stop, the passes of a start, the change it recovers from. Each claim, stop,
launch, health check, route refresh and release is an action with its failure. `PortTaken` and
`ReassignPort` are the retry on an automatic port, `NextPass` the extra pass of
`startReloadServices` when a port moved, `RollBack` and `BlockServices` what
`applyConfiguration` and `recoverReload` do with a failed start. `ServiceExits` and `Cancel` happen
at any time. A tree is running, lingering (its root exited), stopped or leaked (descendants
outlived SIGKILL); `forgotten` collects trees that no list of the supervisor holds any more.

**ReloadLoop.** Two sources, the manifest with its includes and `config.toml`, each with a watcher
(`Deliver`, `Check`, `Elapse`) and a reload goroutine (`Lock`, `Read`, `Update`, `Install`,
`Apply`). A file is opened one at a time, and saves fall in between. `UpdateFails` is each way in which
the watch cannot be updated: some directories are added, or some removed, the inputs stay, and the reload
ends with an error. `WatchersFail` ends the start, `WatchFails` reports an error. `judged` is what
the last finished reload had read; `missed` and `unwatched` are observers.

**HealthFeed, LogFeed.** A publisher reads, locks, records and then writes to one page at a time;
pages attach through handlers that publish too, leave, or fail a write; `Stop` takes the clients
over under `mu` and closes them outside it. In `LogFeed` a page's write lock is taken before `mu` is
released, so that its snapshot comes first; a line that passed `isClosed` (`Check`) is published
even when `Stop` runs in between.

**HealthPage, LogPage.** Each extends the feed's module and adds the page: `Connect`, `Accept` and
`Disconnect` are `openReconnectingWebSocket`, whose successive connections are successive clients of
the feed, and `Receive` takes one frame. In `HealthPage` the picker's requests (`Posted`, `Answer`,
`Take`) bring health of their own, and `source` remembers which of the two the page applied last.
In `LogPage`, `shown` is what React rendered last, `set` what was set since, and `Render` makes the
one the other and then runs the effects; `expected` is an observer, what the page has been told.

**ChatSession.** The messages a page sends go through `Check`, `Dispatch`, `Call`, `StopWaiting`,
`Retry` and `Fail`; `Receive` applies one frame of Codex, which is external and takes messages into
turns, asks, withdraws, ends turns, rejects and exits whenever it likes. `Close` marks the session
under its lock and `CloseProcess` closes the process's input afterwards (`closing`), so a message may
have opened the session again in between.

**ChatClient.** Each `await` ends a step, so anything may come in between; what runs in the same
turn of the event loop once a promise settles (`settled`, and a send at `send` or `deliver`) goes
before anything else, which `Quiet` says in the guards. `task` is `sessionTask`, `asker` whoever
waits for `answerDecision`, `stream` the attached connection and its waiter, `wire` where a message
is. devhost refuses a message, or hands it to the agent (`Take`), which may exit before it answers
(`TakeAndExit`) or at any other time (`Exit`); `accepted` says who took a message, whatever the answer
was. `waited` and `replaced` are observers.

**ChatView.** The agent picks messages up in turns of its own or into the one that runs, drops,
is done with them (`Stop`, Claude Code's word that a message of a turn completed, or was cancelled as
the turn was stopped), says and ends. Each of
its steps broadcasts at most one event, one status and one answer (`Broadcast`), which reach the page
in order. `Folded` moves the three folds (messages, deliveries, interrupts) on by one event. The page
folds everything it has anew at each frame; since a fold of one more event is a step from the fold of
those before, `view` keeps the result of what has arrived and `record` that of all that devhost
recorded, and a reconnect takes `record` over. `harness` is chosen once, at the start.

**ConfigEditor.** A content stands for its version, too. `files[f]` is the content `f` was opened
at, `drafts[f]` its text, `saves` the calls of `client.save` that have not returned, each with its
answer. `CompareSave` and `WriteSave` are the two halves of `handleConfigSave` under
`configSaveMu`, which does not keep other programs out. `seen`, `relapsed` and `raced` are
observers: what the person was shown, and the two exceptions of `OverwritesSeen`.

**IdleWatch.** Time passes in ticks; `Stat` looks at the access log, `CheckIdle` and `CheckChat`
are the two reads of the check. `ago` is an observer: how long ago each kind of activity was.

## Runs

Every property of a passing run has a mutant in `PROJECT.json`, a faulty variant of a definition
that makes TLC find the property violated; the modules mark the variants as faulty or as a plausible
mistake.

| Run | Instance | Shows |
|---|---|---|
| `stack_records` | 3 processes, 2 PIDs, 2 files, one root shared by two of them | ownership stays exclusive and is refined (`OwnershipRefined`), the record covers what is read, and is removed by its owner only, nobody waits for a dead lock holder |
| `claims` | 3 stacks of 2 manifests that share a hostname, one with a fixed port as well, 2 overlapping; 2 PIDs; 3 faults; verified identities | names have one running owner, held names stay recorded, dead owners block nobody, no running stack is killed |
| `stack_runtime` | 2 services, a database with a hostname on an automatic port and a worker on a fixed port that starts before it and is given its port; 3 manifests (this one, one in which the database has neither port nor hostname and the worker has another hostname, depends on the database and starts after it, and one without the worker); 1 request and 1 more while services are held down; 1 taken port in any phase, 1 leaked tree | what is installed is what was accepted, services held down say so, claims cover use, routes lead to the services, files stay reserved, no process is lost sight of, after a change every service runs with the ports it should have (`RunsAsInstalled`), requests end, cancelled stacks stop |
| `reload_loop` | a manifest that exchanges an include for one which does not parse at first, `config.toml`, 1 save of each, 1 watcher that fails or cannot be updated | saves are judged, what was judged stays watched or is about to be judged again unless the watch could not be updated, shutdown ends |
| `health_page` | the poll, 1 connection, 1 request of the picker, 1 change | held is recorded, a connected page comes to show the current health unless the picker's answer came last, the picker's operations end |
| `log_page` | 2 connections of one page, 2 writers, 3 lines, 2 retained | no gap, no repetition in the stream; the rows keep what came as long as React catches up between lines |
| `chat_session` | 2 turns, 3 messages, 2 requests; a lenient Codex | a turn keeps the stack up, requests and failures are shown |
| `chat_session_dead` | the same with 1 request | a finding: a session whose process is gone stays running |
| `chat_client` | 3 conversations of 2 agents, 2 running at first, 1 typed and 1 requested message, 1 fault, 2 acts of the person | what failed is under way no more and with no running agent (`FailedIsNotAtWork`), a message goes to the conversation being started (`NewTakesTheMessage`), sends end (`SendsEnd`) |
| `chat_view` | both agents, 2 messages, 2 turns, 2 items, 2 lost connections, a step of the agent while fewer than 5 frames are under way | what is shown as cancelled did not run, a tracked request is over when it settles, a reply is not awaited for good |
| `config_editor` | 2 files, 3 contents, 6 acts in all: 2 openings, 2 edits, 2 saves, 1 write of another program | no content is overwritten unseen, unsaved text stays, a reported reload ends the wait |
| `idle_watch` | timeout of 2 ticks, access log looked at every tick, tracker every second one, 2 pages | reloads restart the countdown, an unused stack stops |

Why the bounds are enough. The hazards need few actors: two processes and a third whose leftovers
or start get between them (records, claims); one operation with one port collision and one leak
(runtime); one save during each stage of a reload (loop); one page whose connection is lost and made
again while lines are on their way (streams); a message that overtakes the turn of the one before it
(chat session, chat view); a conversation that is started while one is closed or restored and a
message waits (chat client); a file that is saved, changed by another program, opened again and
saved once more (config editor). Two PIDs for three processes force reuse. The bounds are constants
of the modules: `MaxOperations`, `MaxRepairs`, `MaxCollisions`, `MaxLeaks`, `MaximumAutoPortRetryCount`,
`MaxFaults`, `Saved` (the include that is dropped is not saved), `MaxSaves`, `MaxFailures`, `MaxChanges`, `MaxEntries`, `Retained`,
`MaxTurns`, `MaxSends`, `MaxPages`, `MaxItems`, `MaxBreaks`, `MaxFrames`, `MaxActs`, `MaxOpens`,
`MaxEdits`, `MaxOutside`. `stack_runtime` has one request, and a second one
(`MaxRepairs`) only when the first left services held down because starts failed: a second request
after one that went well, or after a leaked tree, a taken port or a service that exited, is beyond
its bounds.

Restrictions that a run states rather than proves away:

- `Claims`: `Verified = TRUE` and two overlapping stacks; the properties do not hold beyond them.
  Claims that a dead stack wrote under the PID of the one that starts are excepted (`kept` observes
  the hostnames among them), and so are the routes that a stopping stack has left while another one
  started beside it (`Overtaken`). See the disagreements. The two manifests of the run share no port:
  a shared one would keep the second stack from getting as far as the hostname.
- `RunsAsInstalled` is asked of behaviours in which ports moved during changes only
  (`spent.phases`); a port that moves during startup or recovery is a disagreement.
- Services held down after a failed restore are excepted from `RunsAsInstalled` and
  `RoutesLeadToServices`: the code gives up on them and says so.
- `replace` in `routes_replace.go` can publish the routes of a change and then fail to stop a
  document server, so that the change fails with its routes published. Until routes are published
  again (`spent.staleRoutes`), the routes' part of `ClaimsCoverUse`, and services without routes in
  `RoutesLeadToServices`, are excepted.
- `JudgedIsWatched` excepts the contents the stack started with, while their check is due or after a
  watcher error, and the manifest whose watch could not be updated when it was last reloaded: its
  verdict may rest on an include that is not watched. What it does say then is that the manifest itself
  is still watched, so that a save of it brings a reload.
- `SavesApplied` excepts a watcher that fails or cannot be updated and a save between the read of a new
  include and its being watched. These and those of `JudgedIsWatched` are disagreements.
- `FailedIsNotAtWork` excepts a message that was taken by a Codex process which has ended since: the
  first disagreement of the chat client. What it does say is that nobody is at work on a failed message, nor
  will be, so that sending it again doubles nothing that still runs.
- `ShowsCurrent` excepts a page whose last news was the answer to a request of the picker,
  `KeepsWhatCame` a line that came before React had rendered the one before (`hurried`), `SendsEnd` a
  question of the client that is open or took the place of another (`replaced`), `TrackedIsOver` a
  steer that is sent again, `BusyEnds` what a lost connection leaves when the page has seen neither the agent
  at work nor a text since the message was sent, and
  `OverwritesSeen` a draft without a change (`relapsed`) and a write of another program while a save
  is being checked (`raced`). All are disagreements, except for the last and the steer.
- `ChatSession`: `Strict = FALSE`, a Codex that takes a `turn/start` during a turn into that turn;
  a request is withdrawn only after the frames before it were read (a bound, in `Resolve`).

Deadlock checking is off everywhere: each model may stop, when its bounds are used up or when the
stack has stopped. Absence of deadlock is stated where it matters, as `LockNeverWedged`,
`RequestsEnd`, `CancelledStops`, `ShutdownEnds`, `PickerReturns` and `SendsEnd`. Where a module's `TypeOK` is not
among the properties of its run it is there for the reader.

## Fairness

- `StackRuntime`: weak fairness of the operation's goroutine and of the shutdown. Waits for health
  and for exit have timeouts. One wait has none: the wait for a service's output in `stop` can
  block on a descendant that survived and keeps the pipe; fairness abstracts from it.
- `ReloadLoop`: weak fairness of goroutines, timers and the loop (the watchers are made, or the start
  ends), which Go's scheduler and `select`
  give; strong fairness of taking `operationMu`, which Go's mutex gives by its starvation mode.
- `HealthPage`: a publish that began goes on (writes have a deadline), the poll's ticker ticks,
  mutexes do not starve, reading the health does not fail for ever; the page connects again when its
  timer fires, and requests are answered or fail.
- `ChatClient`: one weak fairness condition on `Progress`, all that the page's event loop, devhost's
  answers, the dialled streams and the confirmation timer do; promises that are settled go first.
- `IdleWatch`: time passes and the watch's tickers fire; strong fairness of `CheckIdle`, which the
  looks at the access log disable for a moment.
- Nobody ever has to save, attach, leave, restart, press, answer or stop.

## Proofs

tlapm proves for every value of the constants, from the named assumptions of each module:

- `StackRecordsProofs` (from `RootAssumption`, `IdentityAssumption`, `NoneAssumption`; any number
  of processes, PIDs and files, with and without start identities): `TypeCorrect`, `Exclusivity`
  (`ManifestExclusive`), `Covered` (`RecordCoversUse`), `Kept` (`RecordKept`) and `Refinement`
  (`OwnershipRefined`, the implementation of `ManifestOwnership`).
- `StackRuntimeProofs` (from `StackRuntimeAssumption` and `RankAssumption`; any services,
  manifests, files, ports and bounds): `InstalledManifestIsAccepted` (`InstalledIsAccepted`),
  `ManifestFilesStayReserved` (`FilesStayReserved`), `SupervisorLosesNoTree` (`NoStrayServices`),
  `UseIsClaimed` (`ClaimsCoverUse`), `StopsAreExplained` (`NoSilentStop`),
  `ProcessesRunAsInstalled` (`RunsAsInstalled`) and `RoutesLeadHome` (`RoutesLeadToServices`), all
  from `StackInvariant`.
- `ClaimsProofs` (from the assumptions of `Claims` on names, manifests, `None` and faults; any
  processes, PIDs and names): `TypeCorrect`; and, where identities can be read and at most two
  stacks start or stop at once (`Restricted`, which the disagreements show to be needed),
  `HeldClaimsRecorded` (`HeldIsRecorded`), `NamesExclusive` (`Exclusive`), `RunningStacksSurvive`
  (`NoRunningStackKilled`) and `ExitedClaimsFree` (`ExitedClaimsReused`). The last two are action
  properties.
- `PanelProofs`, for the configuration editor (from `ContentsAssumption`; any files, contents and
  bounds): `TypeCorrect`, `SavesOverwriteTheSeen` (`OverwritesSeen`), `UnsavedTextStays`
  (`UnsavedStays`) and `ReportedSavesEnd` (`SavesReported`); for the chat view (from
  `ChatViewAssumption`; either agent, any messages, turns, items, lost connections and frames under
  way): `ViewTypeCorrect`, `CancelledMessagesDidNotRun` (`CancelledDidNotRun`),
  `TrackedRequestsAreOver` (`TrackedIsOver`) and `WaitingEnds` (`BusyEnds`).
- `WatchProofs`, for the reload loop (from `FileAssumption`, `BoundAssumption`, `NoneAssumption` and
  `IncludesAssumption`; any files, includes, saves and failures of a watcher): `TypeCorrect` and
  `VerdictsAreWatched` (`JudgedIsWatched`); for the idle timeout (from `IdleWatchAssumption`; any
  timeout, polling intervals and pages): `WatchTypeCorrect` and `ReloadsRestartTheCountdown`
  (`ReloadRestartsCountdown`, an action property).
- `ChatSessionProofs` (from `ChatSessionAssumption`; any number of messages, turns and requests):
  `TypeCorrect`, `RequestsAreShown` (`AsksAreShown`), `FailuresStay` (`FailureStays`) and, for a
  Codex that takes every message of its own into the turn that runs (`~Strict`),
  `TurnsKeepTheStack` (`TurnKeepsStack`).
- `FeedProofs`, for the log stream and its page (from `LogAssumption` and `PageAssumption`; any
  number of connections, writers, lines and retained lines): `FeedComposed` (a behaviour of the page
  is one of the stream), `NeitherGapNorDuplicate` (`NoGapNoDuplicate`) and `RowsKept`
  (`KeepsWhatCame`); for the health stream (from `HealthFeedAssumption`; any number of pages,
  publishers and changes): `HealthTypeCorrect` and `HealthIsRecorded` (`HoldsRecorded`).
- `ChatClientProofs` (from `ChatClientAssumption`; any sessions, messages, actions and faults):
  `ClientTypeCorrect`, `FailuresAreFinal` (`FailedIsNotAtWork`) and `WaitedMessagesGoToTheNew`
  (`NewTakesTheMessage`).

The records' argument. `ManifestExclusive` is about what stacks read, and nothing in a step looks
at that; it follows from `UseInv` (a registered stack's record is its own and covers its use,
whichever way a reload under way ends) and `ExclusiveInv` (records of running processes are
disjoint). `ExclusiveInv` is kept by `Write` because of `ScanInv`: what the lock holder has read so
far does not stand in its way. `ScanInv` survives the steps of others because only the lock holder
writes records; others can only die, which makes their records count for less, and a process that
starts under a dead owner's PID has no record (`PidInv`, `RecordInv`). `IInv` is their
conjunction; `InitIInv` and `NextIInv` are its two facts, with a lemma per action that disturbs
`ScanInv`. The refinement needs more than the invariant: `Write` is `Take`, removal of the own
record is `Drop`, and every other step leaves `Holds` as it is.

The stack runtime's argument. Most of its properties are about a settled stack, so the invariant
says what holds in every stage of an operation, whichever steps have failed on the way there:
`ConfigInv` which manifest is installed; `FileInv` and `ClaimInv` that the files and names of either
manifest a change may end with are held; `PlanInv` and `HeldInv` that the services a change leaves
alone are the same in both manifests and stay held down if they were. A live tree is of a service of
the installed manifest (`RunsInv`), which is why none is lost when the manifest is replaced: what a
change affects is down by then (`DownInv`), also when services exit or fail to stop meanwhile. A
change that is given up gives claims back last. `UsedInv` says that what lives then was claimed
before the change, and `RouteInv` that what is routed is. `SilentInv` counts, in each stage, the
services still to be launched as explained, so that none is left when the operation ends.
`ShapeInv`, `StageInv`, `AttemptInv`, `TodoInv`, `AffectedInv`, `LifeInv`, `OpTreeInv` and `GoneInv`
tie the stages to the fields of `op`. Each part has a lemma that every step keeps it, from itself and the
parts it leans on; `IInv` is the conjunction. `RankAssumption` is needed because a start takes the
first service left, which a finite order of services has.

`RunsAsInstalled` and `RoutesLeadToServices` need to know with which ports and routes each launch was
made. At rest, in a startup and in a restart of the stack what runs was launched as the installed
manifest says (`RestRuns`, `BootRuns`). During a change the services it does not affect keep running as
the manifest before says (`PlanRuns`), and their environments are the same in every manifest the change
installs (`SameInv`, `PortsInv`). What the current pass has launched holds, port by port, the one the
pass began with or the installed one (`PassRuns`), so a pass after which no service is affected any more
has left all of them as installed; a pass of a recovery moves no port as long as only changes do
(`ReturnRuns`). `AsInstalledInv` is their conjunction. `LeadInv` says the same of routes, which a
startup publishes before and a change after its launches, and `BlockedInv` which services are held down
on either way out of a change. These lemmas go over seventeen abstract steps (`Stays`, `Plans`,
`Installs`, `Returns`, `Repasses`, ...), each saying what the actions it stands for have in common.

The claims' argument. No lock joins the system calls of a start, so what a process has read from a
claim file is kept true by what the others may still do: a process that died writes and holds nothing
any more, and one that lives removes only what it wrote. `SeenInv` says of the record read that its
owner is told truly and that nobody else can hold the name; `RecordInv` that a claim file was written
by a process that got that far; `FillInv` that nobody touches a file between its creation and the
write; `DropInv` that a claim about to be removed on release is still the own one. All four would
fall with a removal that hits a claim made after the judgement, and the lemma `Cleared` says why
there is none: a claim is stale only if its owner died, a third stack; and while two stacks are
starting or stopping there is no third (`PhaseInv`, `Alone`). That is where `Restricted` is used, and
the race beyond it is a disagreement. For the routes, `AssertInv` follows a start from its look at
the registrations to its claim: a stack that may not overlap with another one and whose route is there
still holds the host, so a second holder is a contradiction to `HeldIsRecorded`. Types, lives and
names (`TypeInv`, `LifeInv`, `HoldInv`) are inductive by themselves, in every instance.

The health stream's argument. `HoldsRecorded` speaks only of moments at which nobody sends.
`DeliverInv` says what holds while somebody does: a page that lacks the recorded health is among
those about to be written to, and what is written is the recorded health (`SenderInv`). `UnattachedInv`
keeps a page from being written to before its handler has begun. The theorem is about the stream by itself:
with any number of connections a page that reconnects is one more of them, while `HealthPage` uses a
connection again to stay small.

The log stream's argument. `NoGapNoDuplicate` speaks only of moments at which nothing is under way
for a page. `LineInv` says what holds in between: each line since what was copied for the page has
either been received or is awaited from exactly one writer, never both. It needs the writers to hold
different lines (`EntryInv`), nothing to be under way for a page before it attaches (`NewInv`), and
the snapshot to be the first frame, because the page's write lock keeps lines back until then
(`OrderInv`). That the first frame then reaches back as far as what is retained follows from `LogInv`
and `CopyInv`: the retained lines only move on, and grow by one at a time. `FeedComposed` carries
`StreamInv`, the conjunction of the six, to the page. There `KeepsWhatCame` leaves out the moments
between a changed pause and its effect; `RowsInv` fills them in: rows that were put aside are all the
page was told while it is paused, and also while the effect that shows them is still to run.

The reload loop's argument. `JudgedIsWatched` speaks of a source at rest; `ReadInv` follows a reload
there: what was read is watched when it is applied, because the manifest's inputs are exchanged for
what the read visited and `config.toml` is watched before it is read (`ConfigInv`). An error of a
watcher ends as a reload that read nothing, so the verdict it repeats is the one before
(`ErrorInv`), and so does an update that fails for `config.toml`. One that fails for the manifest leaves
a verdict of its own (`Kept`). That a save of the manifest is noticed even so is `RootInv`: an update
that adds directories keeps what was watched, one that removes some has added the others first, and in
both the manifest is one of them, because every read begins with it (`ManifestInv`). `QuietInv` says
that nothing is reported before the loop starts, so the check that it starts with is still due when the
accepted manifest turns out not to be the one on disk.

The chat session's argument. A failure is erased by the end of a turn, so `FailureStays` says that
no end is the next thing the session hears: starts and ends alternate in what is still to be read
(`TurnInv`), and a failed session is past the end of its turn (`FailedInv`). `TurnKeepsStack` needs
that a message which found no turn under way, and whose failure therefore makes the session look
idle, does not fail while a turn runs. `FreshInv` follows such a message: it steers nothing; it is
refused only when Codex has no turn, and then every turn that the session has yet to hear of ends
before the refusal does. That the refusal is the last thing Codex writes about a message needs the
calls to be answered in their order, once each (`CallInv`).

The chat client's argument. `FailedIsNotAtWork` looks at a message that was reported, and what reports
it was sent earlier, over a stream that may have been replaced since. `AnswerInv` says of every answer
that is still to be read that its message has arrived, and that a failure is about a message nobody took
or whose Codex process has ended (`Over`), which stays so because a session that has ended is never
live again: a resumed conversation is a new session of devhost. `WayInv` says that what is on its way has not been taken, and that no stage but those after the sending
has anything on its way. What a lost stream leaves unanswered becomes unconfirmed and not failed, so a
later answer to it contradicts nothing. `WaiterInv` keeps a message that waits for a stream or for a
person's answer from being sent meanwhile, whichever of the two ends first. `NewTakesTheMessage` needs
the session that is attached when the message is sent: a message that waited for the task is sent in the
turn of the event loop in which the task ended (`WaitedInv`), and whenever the task's stream waits, or
was kept and the task is yet to hear of it, what is attached is a conversation that the task made
(`NewInv`). If the stream was replaced, the messages that waited fail.

The editor's argument. A write happens long after the text it writes was shown, so `OverwritesSeen`
is followed back through the save: what a checked save expects is still on disk or the file is in
`raced` (`CallInv`, which needs that one save at a time is being checked, `AloneInv`); what it
expects is what the draft was based on, which the person saw or the file is in `relapsed`
(`DraftInv`); and a draft begins with the text in the open editor (`ShownInv`). `SeenInv` is their
conjunction and none of the four is inductive alone. `SavesReported` needs the same path for a
number: the count a save took along was a count of the page, so no greater than devhost's, and a
save that was written has its reload due, under way or counted after it (`CountInv`). `TypeInv`
adds to the types that only files that were loaded have drafts.

The chat view's argument. `CancelledDidNotRun` and `BusyEnds` speak of moments at which nothing is
under way, `TrackedIsOver` of every moment, so the invariant has to say what the page will make of
each frame that is still to come. `ReplayInv` says that there is a chain of views, from the page's
to devhost's `record`, each made from the one before by the next frame (`Chain`), and that all of
them are honest (`Honest`): a message is shown as over only if it is, and from the view on in which
its answer has been read, an idle view that knows nothing of it belongs to a message that is over or
sent again (`Known`). A frame that is read takes the head off the chain, a step of the agent adds at
most an event, a status and an answer at its end, and a reconnect leaves the last view alone.
The new links are honest because `record` is, before and after the step (`RecordHonest`), and between
an event and its status (`Midway`). That rests on what the record says of a message at each stage
(`RecordInv` with `Told`), on Codex leaving nothing queued behind an ended turn (`AgentInv`), and on an
answer coming after what it is about (`AnswerInv`). When nothing is under way the chain is one view, so the page
shows the record. `BusyEnds` has an argument of its own, because the boundary is not folded but moved
on by each view: `BoundaryInv` says that, as long as no connection was lost, a pending boundary belongs
to a message being sent or to a turn the page sees, and that a message devhost has taken has its
"running" seen or on its way ahead of its answer (`Comes`). `SendingInv` says that a message being
sent is on its way or its answer is, and that it is the only one.

The idle timeout's argument. `CountdownInv`: the tracker's idle time is never longer than it is since
the timeout was set, nor, while no page is open, than since the last page left. It is inductive with the types, and
what the watch finds idle has been idle for longer than the timeout.

Only model-checked: the liveness properties (tlapm does not prove fairness arguments) and
`LockNeverWedged`, which says `ENABLED`. Every other invariant and action property that a passing run
checks is a theorem.

## Disagreements

What the documentation, a comment or a test says and the code does not do, found while modelling.
The first has a run of its own; the others are reproduced by the change of a constant or a property
named in parentheses, or are exceptions of a property. Documents are below
`src/packages/docs/src/content/docs/`, unless their path says otherwise.

- A message to a chat session whose process died during a turn sets it to running for good
  (`chat_send.go:117`; run `chat_session_dead`).
- Ports: an automatic port that moves during startup leaves earlier services with the old number
  (`stack.go:479` against `guides/environment-variables.md:44`), and so does one that moves during a
  recovery (`reload.go:339` against `stacks/hot-reload.md:52`; both `RunsAsInstalled` without its
  condition on `spent.phases`).
- "Stack stopped." is printed although descendants outlived SIGKILL (`stack.go:1175` against
  `reference/output.md:71`; `StoppedMeansGone` with `MaxLeaks = 1`).
- Claims: with three stacks starting or stopping at once, a claim judged stale can be removed after
  another stack took it (`caddy/routes.go:257` against `start/how-it-works.md:54`; `Overlap` of all
  three). A start looks at the routes of others before it creates its claim
  (`caddy/routes.go:277`): if another stack becomes healthy, stops and releases the host in between,
  both are routed until it has removed its routes (against the same line; the exception `Overtaken` of
  `Exclusive`). A host claim that names this PID is kept with its predecessor's identity
  (`caddy/routes.go:303`), and a fixed-port claim that names it is refused (`caddy/routes.go:1152`
  against `guides/stack-lifecycle.md:241`); both are exceptions of the properties. A claim created and not written blocks
  its name (`caddy/routes.go:1318` against `guides/stack-lifecycle.md:46`; `FailsOnlyForHolder`).
  Without readable identities zombie cleanup can signal a running stack (`caddy/owners.go:175`
  against `guides/troubleshooting.md:70`; `Verified = FALSE`).
- Saves: a watcher error takes the one place in the events channel (`manifest_watch.go:102`), a
  new include saved before it is watched goes unnoticed (`reload_disk.go:28`), and when the watch cannot
  be updated the verdict is left on an include that nobody watches, whose next save goes unnoticed
  (`manifest_watch.go:134`, `reload_disk.go:35`; all against `stacks/hot-reload.md:5`; the exceptions of
  `SavesApplied` and `JudgedIsWatched`).
- Streams: a page that attaches while `Stop` runs stays connected (`devtools/server.go:447` against
  `devtools/websocket_close_test.go:11`; `StopClosesPages`); the log stream has the same race.
- Chat session: a closed session is opened again by a message under way (`chat_send.go:56` against
  `chat_sessions.go:344`; `ClosedStaysClosed`); a rejected message makes a running turn look idle
  (`chat_send.go:117` against `docs/internal/references/auto-shutdown-timeout.md:69`;
  `Strict = TRUE`); `requires_action` stays after Codex withdrew its request
  (`chat_sessions.go:374` against `reference/chat-api.md:55`; `WaitsForAnAnswer`).
- Idle timeout: a chat turn does not restart the countdown (`idle_timeout.go:127`), a request since
  the last look at the access log does not hold the shutdown (`idle_timeout.go:115`, both against
  `guides/stack-lifecycle.md:229-233`; `TurnRestartsCountdown`, `TrafficRestartsCountdown`), and a
  session that is starting is not registered (`chat_sessions.go:208` against
  `auto-shutdown-timeout.md:69`; `StartingIsProtected`).
- Log minimap: a line that comes before React has rendered the one before is added to the rows
  rendered last, so the one before is never shown (`useServiceLogs.ts:35` against
  `guides/devtools.md:102`; `ShowsEveryLine`). The strip renders nothing while there are no rows, so
  one that empties under the pointer never hears it leave, and the rows stay paused.
- Service status: an answer to the picker that comes after the connection was lost shows the services
  as available (`useServiceHealth.ts:97` against `reference/control-api.md:85`;
  `DisconnectedIsUnavailable`), and one that the stream overtook stays until the health changes again
  (`AnswersAreCurrent`).
- Chat client: a message that a Codex process took before it exited without an answer is reported as
  failed, and its text handed back to be sent again, because only a timeout makes it unconfirmed
  (`chat_send.go:95` and `127`, `chat_process.go:231` against `features/agentChat/types.ts:167`;
  `FailedWasNotTaken`, which TLC finds violated after 11 steps with the constants of `chat_client`);
  for Claude Code it is unconfirmed (`chat_process.go:261`). The question which running conversation
  to join takes the place of the one a new conversation waits for, which is then never started, and
  every later message waits for it (`createAgentChatClient.ts:178` against
  `features/agentChat/types.ts:167`, `SendsAlwaysEnd`). Closing a conversation puts away whatever is
  attached when the answer comes (`createAgentChatClient.ts:316`). A saved conversation can be
  restored while a session task that followed a failed list still runs.
- Chat view: a turn without text that lies wholly within a lost connection is in the snapshot as
  already over, and the panel, which never saw the agent at work and finds no reply, awaits one and
  offers no new conversation until the next message; a send that fails after a reconnect puts back the
  boundary it had found, although that was settled meanwhile, and a message left unconfirmed and never
  taken leaves its own, with the same effect (`useAgentChat.ts:88`, `ChatComposerActions.tsx:12`; the
  exception of `BusyEnds`). An unconfirmed request counts as settled on an idle page while devhost may still
  take it, a steer that is sent again between its answer and its own turn, and any request while the
  list of conversations is empty because it failed to load (`isChatRequestSettled.ts:9-20`, the
  exceptions of `TrackedIsOver`). A message Codex is told just before the frame of an interrupt
  comes is shown as cancelled until Codex picks it up (`readChatDeliveries.ts:70`). A sent draft is
  kept where `guides/annotations.md:102` says otherwise (`useAgentChat.ts:107`).
- Config editor: a draft stays after it was saved, or typed back to what the file held, and
  `keepChangedFiles` then takes the newer file beside the old draft, which shows as unsaved; saving it
  overwrites what another program wrote, with no conflict (`useConfigEditor.ts:264` against its own
  comment at 48-50 and `guides/devtools.md:152`; `OverwritesOnlySeen`). "Saved and applied." may tell of
  a reload that had read the file before the save, or, when the save was sent without the health
  stream, of any reload at all (`useConfigEditor.ts:181` against `guides/devtools.md:150`). A
  conflict that comes after another file was chosen offers to discard changes to "this file", which is
  not the one shown (`ConfigEditorPanel.tsx:265`). After a lost answer the next save conflicts with
  the page's own.

## What is not modelled

- In modelled components. Stack runtime: worktree owners, service selection, daemons and unmanaged
  services, the exit report and the restarting flags, the early return for an unchanged
  configuration; after a failed stop of a document server that server stays listed
  (`routes_replace.go:66`). Claims: legacy registrations, the contents of routes, the outcome of a kill that
  one start remembers for its next claims (`zombie_cleanup.go`). Reload loop: switching a worktree back, the
  check that the stack is ready, directories that are created or removed. Streams: agents, usage and
  page-highlight streams, which follow the log's and the health's pattern. Chat session: Claude Code's
  frames, interrupts, starting and resuming, the journal's contents. Idle timeout: a page or turn that
  begins between the check's two reads. Chat client: disposal, devhost's restart (a page that dials a
  session that is gone dials for good, and a message under way may be refused after the agent took it),
  frames that cannot be read, the states "error" and "requires action". Chat view: the
  preparation of a message is one step with its sending; the deadline of a call to Codex, the states
  "error" and "closed", tool details, questions and approvals. Config editor: devhost's restart, which
  counts reloads from 0 again; the listing of the files is read in one step, and its failure leaves
  what was there; the two sources of reloads are counted as one.
- Whole components: those with status `not_modelled` in `PROJECT.json`, with the reason. Most of
  `src/packages/devhost-ui` draws over the page, reads its elements, or lays out what it is given, and
  keeps no state whose order matters; its stories and tests are not the program.

## Plan

In this order; each becomes a module with its runs and, where named, proofs.

1. `CaddyRoutes`: `ReplaceRoutes` under the route lock (snapshot, write, reload, restore), settings
   (`ApplyManagedCaddySettings`, with a crash between rendering and recording), stale registrations,
   and the shared server's start and stop, whose `stop` forgets outside the lock. Abstract
   specification: the set of routes served is the set of routes accepted.
2. `Worktrees`: switching a service group to another checkout, with the previous owner's stop and
   recovery, over the record and claim abstractions.
3. `ServiceShutdown`: the signals, waits and containment that `StackRuntime` abstracts to a tree
   that stops or leaks.
4. `ServiceOrder` and `Selection`: the order of services and the closure of a selection as pure
   functions, against a reference definition over all small graphs.
5. `DurableFile`: write, sync, rename and directory sync with crashes in between.
6. `RestartStacks`: the one-shot commands that signal running stacks and wait for their records.
