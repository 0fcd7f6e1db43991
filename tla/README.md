# A verification development for wc-exe

wc-exe builds a web project inside a WebContainer: a browser tab (the *runner
page*) boots a container, pulls the project from a local server, installs,
builds, and POSTs the artifacts back. The host never drives the browser; it talks
to the page over a control channel the page opens. A daemon can keep one tab per
project so that later builds find a booted container.

The code is sequential TypeScript on two event loops (host and page) plus a
network, timers and tabs a user may close. What is hard about it is not any one
function but what may happen at each `await`. The modules here model that.
Paths below are relative to the repository's `src/`.

## Inventory

| component | state it keeps | operations | what makes it correct |
|---|---|---|---|
| control channel, host (`core/rpc.ts`) | pending map, queue, push, ready promise, grace timer, closed, endStream | call, events, onAbort, handleGone, result, event, waitForReady, close | a call runs at most once and settles once; a page that is gone is noticed; a page that dropped for a moment is not; close lets everything go |
| control channel, page (`runner/src/rpc.ts`) | none of its own | onmessage/handle, announceReady, emit | every invocation is answered |
| runner client (`core/runner-client.ts`) | none beyond the link | launch, runCommand with its timeout, forwards | a timed-out command is killed, or reported as unknown |
| daemon session (`daemon/session.ts`) | runner, booted, manifest, poisoned, currentOutput | build, ensureBooted, sync, the onDisconnect listener, close | never a build from stale files or in a half-written container; artifacts go where they belong |
| incremental sync (`core/file-sync.ts`) | none | listProjectManifest, diffManifests, writeDistFile | carrying out the plan makes the container equal to the project |
| build sequence (`core/project-build.ts`) | none | runProjectBuild | order of the steps; a failed build arms no output |
| failure tags (`core/errors.ts`, `runner/src/errors.ts`) | none | toWire, fromWire, the page's naming, exit codes, runtimeStateIsKnown | a failure decides the same on every side of every transport |
| runner page (`runner/src/main.ts`) | runtime, running commands, shells, OPFS cache | mount, write, remove, install with cache, commands, shells, upload | cache index and blobs agree; a killed command is over; no shell is lost |
| output buffer (`runner/src/runtime/output-buffer.ts`) | chunks, dropped | push, text | what is kept is the tail, what is lost is counted |
| package manager choice (`runner/src/runtime/package-manager.ts`) | none | resolvePackageManager, packageManagerCommand | a declared manager and version are what runs |
| shell session (`runner/src/runtime/shell-session.ts`) | queue, current command, buffer | exec, interrupt, close | output of one command never reaches another |
| daemon (`daemon/daemon.ts`, `maintenance.ts`) | sessions map, lastActivity, closing | build route, maintenance pass, stop, shutdown | no session closed under a build; ids are not recycled; what is unusable goes; a stopped daemon leaves no record |
| discovery and client (`daemon/discovery.ts`, `client.ts`) | record file, daemon processes, port | ensureDaemon, spawn, stop | a record points at the daemon that answers |
| commands (`commands/*.ts`) | watcher, proxy, spinner | build, dev, install, daemon build | the exit code is truthful; a failed build leaves the output alone; the container follows the edits |
| interrupt and one-shot server (`utils/interrupt.ts`, `core/server.ts`) | sockets | onInterrupt, startServer, shutdown | Ctrl-C ends the process |
| auth, static files, types, printing | little or none | | |

How they interact: the session calls the page through its link (`call`, answered
by a result POST); the page reads the project and writes artifacts through the
daemon's routes; the link tells the session of a page that left through
`onDisconnect`; the daemon owns the sessions and replaces a poisoned one; clients
find the daemon through the record file.

The hazards, each at its line, are listed under `hazards` in `PROJECT.json`, with
the properties that look for them.

## Modules

| module | what it is |
|---|---|
| `CallLedger` | abstract specification: what a caller of the control channel is promised |
| `RunnerLink` | both ends of the control channel, tabs, streams, grace timers, and the two places of a session that live off it (`ensureBooted`, `onDisconnect`) |
| `RunnerLinkProofs` | theorems about `RunnerLink` |
| `FileSync` | manifests, the plan between two of them, and what carrying it out does |
| `Session` | builds running in one daemon session, with the page's container and the host's disk |
| `SessionProofs` | theorems about `FileSync` and `Session` |
| `Daemon` | the map of sessions, the build requests that share it, and the maintenance pass |
| `DaemonProofs` | theorems about `Daemon` |
| `Discovery` | the record file, clients that find, replace and stop a daemon, and how a daemon starts, stops itself and is killed |
| `DiscoveryProofs` | theorems about `Discovery` |
| `OutputBuffer` | the bounded tail of a command's output |
| `Commands` | commands with a timeout, kills, resizes, and the opening and closing of shells, by handles the host chooses |
| `CommandsProofs` | theorems about `Commands` and `OutputBuffer` |
| `DepCache` | the dependency cache in the browser's storage, shared by pages without a lock |
| `DepCacheProofs` | theorems about `DepCache` |
| `Shell` | one interactive shell session: its queue of command lines, interrupts and verification, over a terminal and a shell |
| `ShellProofs` | theorems about `Shell` |
| `Errors` | the tagged failures and their two transports; exit codes and `runtimeStateIsKnown` |
| `PackageManager` | which package manager a project gets, and as what it runs |
| `DevWatch` | the watcher of `dev` and its handlers |
| `OneShot` | a wc-exe process from its command to its exit code |
| `OneShotProofs` | theorems about `Errors`, `PackageManager`, `DevWatch` and `OneShot` |
| `MCRunnerLink`, `MCSession`, `MCDepCache`, `MCOneShot` | instances for TLC: symmetry, the sizes of the cache's snapshots, the projects and strings tried |

`RunnerLink` composes both ends of the channel and implements `CallLedger`;
`Session` keeps of a link what a session can see of it (`alive`, and calls that
fail when the page is given up on) and extends
`FileSync`. `Daemon` is the layer above: there a build is one step of work inside a
session, and what matters is who owns the session. `Commands` extends
`OutputBuffer`; `OneShot` extends `Errors`, `PackageManager` and `DevWatch` and
shares their variables. `Discovery`, `DepCache` and `Shell` stand alone.

Some operators have a twin whose name says what is wrong with it
(`TimersLeftNoClear`, `UpsertNewOnly`, ...). The twins are used by nothing; putting
one in the place of its neighbour must break the property named with it under
`mutants` in `PROJECT.json`.

### RunnerLink and the code

* A **page** is one loaded document with its own container. Reloading a tab is one
  page leaving and another appearing. A **stream** is one `EventSource`
  connection; its host handler goes `unused -> hello -> open -> ended`. `hello` is
  the await inside `events()`, so `Connect` is the handler up to it and `Attach`
  the handler after it.
* `graceTimer` is the field, `timers` the timers really ticking: the code can
  overwrite the field while its timer runs on. A timer carries the name of the
  stream whose abort armed it.
* `pending`, `queue`, `push`, `ready`, `closed`, `endStream` are the fields of the
  same names; `promise[i]` is what the caller of call `i` holds. Whether the page's
  result was a success or an error is not told apart: both settle it (`resolved`).
* `linked[s]` is the page's end of the stream. A host write to a stream whose page
  has left is lost, as `void stream.writeSSE(...)` loses it.
* A stream that ends while its `hello` is being written is never heard of: the
  handler registers `onAbort` after that await (`deaf` in `Attach`). `close()` ends the
  stream behind the frames already written to it, which still arrive.
* `Faults` lists what the environment may do beyond one well-behaved tab; each run
  says which it allows.

### Session and the code

* `pc[b]` names the await a build pauses in: `attach`, `list`
  (`listProjectManifest`), `remove`, `fetch` and `mount` (the two halves of
  `mountFromServer`), `install`, `clear`, `build`, `upload`.
* A **version** stands for a file's content together with its `size:mtimeMs`
  stamp; an edit changes both. An edit that keeps size and mtime is outside the
  model, as it is outside what the code detects.
* `held` is the set of project files in the container, `manifest` what the session
  believes it to be. `dirty` is set when a command or a mount was cut short.
* A first sync (`manifest.size === 0`) has the page list the project itself: the
  fetch set is then what is on disk when the page lists it. Which of the two it is, is
  decided before the call (`FetchCall`), so a build beside it may change the manifest in
  between.
* `removePaths` may throw at one path with those before it gone, in a sync
  (`RemoveFails`) and when the old output is cleared (`ClearFails`): an error nobody
  tagged, after which the session is poisoned.
* All contents of one mount are read in one step. The code reads them one after
  the other, so an edit can also fall between two reads; the runs that allow edits
  inside a sync are violated without it.
* `seen[b][f]` is history: the versions file `f` had from the moment build `b` was
  asked for until its sync was over.
* A container of a session that is replaced is not followed further: `Daemon` has
  what becomes of the builds in it.
* A second build is only admitted beside a running one if the session is booted
  and not to be replaced; `Daemon` has the other two cases.
* A command that was killed has exited before its build goes on: no exit overtakes
  a kill here (`Commands` has that race).

### Discovery and the code

* Clients and daemons are processes of the operating system. A daemon's `phase` goes
  `unborn -> starting -> serving -> stopping -> dead`; `serving` holds the port
  and has written the record (`listen`'s callback does both before anything else
  runs), `stopping` is the 50 ms after a stop request in which it still answers.
* A client's `pc` is the await it is in: the probe of the record it read, the poll
  for a new daemon, the build request, the stop request and its wait.
* A pid stands for a record's pid, port and token together: a probe of a record
  reaches the daemon that wrote it or nobody. A pid is not reused.
* `PollTimeout` is the 20 s of `spawnDaemon`: it passes only when no daemon is
  starting and none that answers is recorded, that is, the code's timeout is
  longer than a start takes.
* `shutdown` awaits only what is settled, so it is one step.
* `Old` are the daemons and `OldClients` the clients of another version of wc-exe; a
  client spawns daemons of its own version, and `Mismatch` is the comparison of
  `ensureDaemon`. The poll of `spawnDaemon` (`client.ts:201-204`) compares nothing: it
  takes whoever answers. The run therefore has clients of one version
  (`OldClients = {}`) that find a daemon of another; with clients of both versions
  `NoSupersededDaemon` does not hold (`discovery_versions.cfg`: one client waits for the
  daemon it has spawned, and takes the one a client of the other version has started).

### Daemon and the code

* The control route up to `session.build` awaits only what is settled, and so do a
  maintenance pass and a shutdown: each is one step. A request is then `attaching`
  (the wait for a page), `working`, answered, or cut off.
* An id stands for a session and all it has: `link`, `page` (`isConnected`),
  `runner` (which goes with `booted`), `poisoned`. `unused[s]` and `idle` say that
  `lastUsed` and `lastActivity` are more than `idleMs` ago; `Lapse` makes them so.
* `Outcomes` is what a build comes to as far as the daemon goes; what happens inside
  is `Session`'s. `Refuse` is the guard and `resolveProject`, without the headers.
* `excused` is history: builds that met another build of their project, or outlasted
  `idleMs`. The code does cut those off, and the properties about builds in
  progress leave them out.
* Only requests, and the page's own requests, touch `lastActivity`: calls and results
  (the rpc routes) do not. A daemon may therefore stop for idleness in a command
  longer than `idleMs`.

### Commands and the code

* `frames` is the event stream, in order; each answer is a POST of its own in
  `posts`. A handler in the page runs up to its first await when its frame arrives.
* `proc` is a command's process and `running` the page's map: only `Spawned`, the
  code after `await runtime.spawn`, puts a command there, and `Exit` takes the handle
  out whichever command holds it.
* `timer` is `armed` until the timeout and `killing` until the kill is answered;
  `finally` rejects whatever the answer was.
* A command that is killed is `dying` and exits later, with any code: a command that
  exits by itself at that moment keeps its own.
* `Close` is `RunnerClient.close`: it fails the calls, and leaves the tab and what runs
  in its container alone. `Gone` is the page's end, which takes all of it along.
* Characters are numbers, so that `OutputIsTail` can say which ones are left.
* `Faults` has four orders of events under which the code does not keep its promise.
  The run allows none; adding one to `commands.cfg` violates: `slowSpawn` (the kill
  finds no process yet) and `sharedHandle` `TimeoutMeansStopped`, `latePost` (the
  result overtaken by the kill's answer) `CutShortIsTimeout`, `openTogether` (two
  openings pass the check) `LiveShellsAreReachable`.

### DepCache and the code


* A page's `pc` is the await on the storage it is in. `blob` tells a created, still
  empty file from a written one, because `getFileHandle(create)` and the writer's
  `close` are two awaits.
* `nm` is the container's `node_modules`, as the set of lockfiles whose packages
  are in it; a page begins in a new container unless the fault `reuse` is allowed.
* Whether the tarball cache is over its cap is left open (`EvictIndex`). The
  listing is one step; in the code a blob removed in the middle of it fails the
  install, as one removed after it does here.
* A removal of a blob somebody is writing may succeed or throw: the storage's
  locking is the browser's.
* `clearCache` is in three awaits, as it is in the code: the listing, each blob, the
  index. `MaxInstalls` bounds installs and clearings together.

### Shell and the code

* `queue` and `current` are the promise chain of `enqueue`; `state` of an exec is the
  await it is in: `queued`, `writing` (the writer's lock), `waiting` (the poll for
  the marker), `proving` (the wait for an interrupt's effect).
* `since` is the transcript from the current exec's start, as the set of what it
  contains: commands' printing, markers, the echo of Ctrl-C. A command prints when
  it ends.
* The shell, `jsh`, is external. It behaves as docs/persistent-runner.md 2.3
  measured it: a line read while a command runs kills job control and may or may
  not print an error; an idle Ctrl-C echoes nothing; with job control dead Ctrl-C
  does nothing, and everything else goes on.
* **An assumption about `jsh`**: in `Finish` a command prints its marker and the shell is
  back at its prompt in one step. The code needs that: `exec` goes on at the marker
  (`shell-session.ts:228`) and waits for no prompt, though docs/persistent-runner.md 6
  asks for both. The fault `late` is a shell that takes its time (`FinishLate`, then
  `Prompt`). The run allows it, and `ExecsEnd` is claimed with it; the
  invariants are claimed without it, and `PromptAwaited`, which claims the first of
  them with it, is violated (`shell_prompt.cfg`).
* A verification's next step comes before the next exec's turn (`VerifyIsNext`):
  its continuation is registered on the promise before the queue's.
* 1.5 s is taken to be enough for a probe that has started to reach the foreground.

### Errors, PackageManager and the code

* A failure is a tag and its fields. `Schema` gives each tag's fields the types
  `fromWire` expects and the values it falls back to; sentences are one value each,
  and a message recomposed from fields is not a field.
* `pageToWire` is the page's `toWire`, which names what it can and calls the rest
  `UnknownFailure`. `fromWire` is total: `Get` reads a field that may be missing.
* `exitCodeFor` and `runtimeStateIsKnown` are the two decisions taken from a tag.
* A version is its major number; `Shipped` is what the runtime has. `OtherNames`
  are managers a `packageManager` field may name that are not supported.

### OneShot, DevWatch and the code

* `pc` counts through the command's list of steps (`BuildSteps`, `InstallSteps`,
  `DevSteps`, `DaemonSteps`); a step that throws goes to the catch block, whatever
  transport the failure crosses on the way (`FromPage`, `FromDaemon`).
* `at[t]` is how far a teardown is: the command's own (`main`) and one for each
  Ctrl-C. They run the same `cleanup`, each with its own awaits, over the same
  watcher, link, proxy and server.
* `sockets` are the page's on the server, its event stream and an idle one; a tab
  that previews the app holds one on the proxy (`viewer`).
* A teardown runs as far as it can before the command does (`Turning`): between
  two awaits nothing else runs.
* Two ends have no teardown: a cache directory that cannot be made, before the handler
  of Ctrl-C is registered (`CacheDirFails`), and an `error` event of the proxy, its
  server or the watcher, which `dev` listens to nowhere (`Uncaught`, at any moment once
  the proxy was told to listen; a busy port is the first of them).
* `cause` is history, the tag first thrown; `ExitCodeIsTruthful` compares it with
  what comes out after both transports.
* In `DevWatch` a version stands for a file's contents, `Mangled` for bytes that
  went through UTF-8. `handlers` are `syncToRuntime` calls that have not called the
  page, `pushed` their calls to it. `unwatched` and `raced` name the files the code
  loses: edited between the mount and the watcher's readiness, and reported again
  while a handler of theirs was reading.

## Runs

| run | expects | bounds | shows |
|---|---|---|---|
| `link_faults` | pass | 2 pages, 2 streams, 2 calls, all faults, symmetry; 270,979 states | the link implements `CallLedger` whatever happens |
| `link_quiet` | pass | 2 pages, 3 streams, 2 calls, no faults, fair; 51,207 states | the timers and the stream bookkeeping; orphaned calls settle |
| `link_reload` | violation of `OrphansSettle` | 2 pages, 2 streams, 1 call, `reload` | a page reloaded inside the grace window leaves its call pending for ever |
| `session_serial` | pass | 2 files, 3 versions, 2 edits, 2 builds, 2 artifacts, fair; 358k states | builds one at a time are built from fresh files into their own directory, and end; between syncs the manifest is what the container holds |
| `session_faults` | pass | the same with every fault, symmetry; 2.46M states | what is left with overlapping builds, edits during a sync and a page lost while listing |
| `daemon` | pass | 2 projects, 3 requests, 2 sessions ever made, fair; 116k states | a build keeps its session unless another request replaced it, maintenance touches none, ids are not shared, unusable sessions go, every request is released |
| `discovery` | pass | 2 clients, 4 daemons (1 of another version), clients of one version, all faults, fair; 34,530 states | the record never names another daemon than the one that answers; nobody builds with a superseded one; every client ends |
| `commands` | pass | 2 commands (1 prints 3 characters into a buffer of 2), 1 chosen handle, 2 openings, 1 kill or resize, at most 2 commands and openings together, fair; 809k states, about 3 minutes | a reported timeout means the command is over, output is the tail of what was printed, no live shell is lost, every timed command ends |
| `cache` | pass | 2 pages, 3 snapshots of sizes 1, 1, 3 over a budget of 2, 3 installs or clearings, `overlap` and `cut`, symmetry; 789,558 states | an install that succeeds has the right modules; eviction keeps the budget, what was just saved, and what was used last |
| `shell` | pass | 2 commands and a verification's two, 2 interrupts, all faults, fair; 1.52M states, 2 to 3 minutes | one line at a time, a cancelled command is gone, outputs are not mixed, every exec ends |
| `oneshot` | pass | all 4 commands, 2 projects, 3 files (a binary one, one in a new directory), 2 edits, 2 Ctrl-Cs, fair; 457,178 states | the exit code is truthful, a failed build leaves the previous output, the pinned manager runs, the runtime follows the disk, Ctrl-C ends the process |
| `dev_ctrl_c` | violation of `InterruptEnds` | `dev`, 1 Ctrl-C, no edits, a previewing tab that stays | Ctrl-C never ends `dev` while the app is previewed |

Six more configurations are kept for running by hand; each ends in the violation
of the property it names (see What is found): `tlc -config link_second_tab.cfg
MCRunnerLink`; `session_edit_race.cfg`, `session_concurrent.cfg` and
`session_hang.cfg` with `MCSession`; `discovery_versions.cfg` with `Discovery`; and
`shell_prompt.cfg` with `Shell`. A seventh, `session_overlap.cfg` with `MCSession`, passes:
it checks `BelievesTruly`, which `session_serial` checks for builds one at a time, with
two builds whose syncs overlap, as the theorem has it for any number (351,466 states).

Why the bounds are enough. A stream's whole life touches at most one other stream
(the one that takes over) and one timer; two pages give every order of an old and
a new page, three streams a page that drops and comes back while another is
there. Two calls give one in flight and one queued. In a session, two files give
one that changes and one that does not, two edits a creation followed by a
deletion, two builds a build that finds what another left. Two clients give every
race for one port and one file; each starts at most one daemon, which with one
found at the start and one to replace it makes four. In the cache, two pages
interleave at every await; three snapshots, one over the budget by itself and two
that fit together, give eviction a choice, an order and something it must spare.
In the shell, two commands and a verification give one that runs, one that waits
and one that interrupts. In the daemon, two sessions are one that is replaced and
the one that replaces it, or one for each of two projects, and the third request is
the one that meets either; once two were made, a request that needs another waits
outside. Two commands share a handle one after the other; three characters over a
limit of two make chunks that fit, fill and straddle it. Two Ctrl-Cs are one that
arrives in the other's cleanup, and two edits a change behind a creation. Bounds
appear in guards only as `MaxCalls`, `MaxEdits`, `MaxVersion`, `MaxInstalls`,
`MaxInterrupts`, `MaxSessions`, `MaxChars`, `MaxSignals`, and in `Drop`, which
happens only while a stream is left for the page to come back with.

Several properties name in their antecedent what they do not cover (`upset`,
`calm`, `excused`, `raced`, `unwatched`): faults after which the code does not keep the promise. Those are listed as
hazards, each at its line; the runs still allow them, so that the properties that
do not exclude them are checked with them. A hazard lists the properties that would
catch it. Where the code does not keep the promise under the hazard itself, no property
is listed for it, and its note says which property leaves it out and where that is
shown.

Deadlock is not checked: with all calls issued, all builds over and all pages
gone the system rests, which is what it should do.

### Fairness

`RunnerLink`: weak fairness of `Attach`, `Abort` and `HandleGone` per stream, that
is, of the host's own event loop, its socket notifications and its timers. No page
is assumed to answer, boot or come back.
`Session`: weak fairness of `HandleGone` (the grace timer) and of each build's next
step. A step that awaits the page is enabled only while the page is there, so this
assumes that a page that stays answers in the end: a command exits or meets its
timeout.
`Discovery`: weak fairness of each client's next step and of each daemon's start,
stop timer and maintenance pass; not of signals, crashes, idleness or new clients.
`spawnDaemon`'s timeout is strongly fair: a client that polls a record nobody
answers for, again and again, gives up.
`Shell`: weak fairness of the session's steps and of the shell's, so every command
but the verification's probe ends in the end, or meets its timeout.
`Daemon`: weak fairness of the maintenance interval, of the deadline a build waits
for its page, and of a call on a closed link, which fails. No build is assumed to
come to an end by itself, and no page to come.
`Commands`: weak fairness of timeouts, of a spawn that was asked for, and of frames and
answers while the page holds its stream. No command is assumed to exit.
`OneShot`: weak fairness of the steps of the teardowns, and of a previewing tab's
leaving unless `ViewersStay`. No step of a command is assumed to end, and no page
to leave.
`DepCache` has safety properties only.

## What is found

Two runs end in a violation, each against a sentence of the code; `findings` in
`PROJECT.json` quotes them, with six more that have a configuration of their own
and three that were found by reading while the module was written.

* A reload inside the grace window looks like a reconnect (`link_reload`).
* Ctrl-C under `dev` waits for the previewing tab's socket (`dev_ctrl_c`).
* `onAbort` does not ask whose stream ended (`link_second_tab.cfg`).
* The first sync lists the project twice (`session_edit_race.cfg`).
* `currentOutput` is one field for all builds (`session_concurrent.cfg`).
* Between a page's loss and the next call of a build there is nobody to reject
  (`session_hang.cfg`).
* The poll for a spawned daemon does not compare versions (`discovery_versions.cfg`).
* `exec` waits for the marker and not for the prompt (`shell_prompt.cfg`).
* The daemon build empties the output directory before it builds; a source that does
  not exist exits 2 through the daemon and 3 without; a dev server that cannot be
  spawned is never reported.

What is modelled as it is and quoted against no sentence, but worth knowing:

* A kill that arrives before the spawn has resolved kills nothing, and the timeout is
  reported all the same; a handle used again hides the older process.
* A `packageManager` of a manager that is not supported, `bun@1.1` say, leaves the
  choice to the lockfile but pins its own version onto the manager chosen.
* The cache key prefers `package-lock.json` (`LOCK_FILES`, `main.ts:568`), the choice of
  a manager `pnpm-lock.yaml`: with both, the key is not the lockfile installed from.
* `wc-exe install` without the cache installs with npm whatever the project declares,
  and `dev` with the manager's shipped version; only builds pin.
* `dev` reads a changed file as text, so binary files are mangled; it makes no
  directory for a file in a new one; edits between the mount and the watcher's
  readiness are lost, and two handlers of one file may end in the wrong order.
* The daemon may stop for idleness during one long command.

## Proofs

TLAPS proves the following for every value of the constants; the assumptions are
the `ASSUME`s of the modules (`RunnerLinkAssumption`, `SessionAssumption`,
`DiscoveryAssumption`, `ShellAssumption`, `DaemonAssumption`, `CommandsAssumption`,
`LimitAssumption`, `DepCacheAssumption`, `ErrorsAssumption`,
`ManagersAssumption`, `DevWatchAssumption`, `OneShotAssumption`, and
`CaughtAssumption`, that the `None` of `OneShot` is no failure) and, where said so, a
condition on `Faults`. Every invariant and every action property the passing runs
check is a theorem; what is left to TLC is named at the end.

**RunnerLink.** `TypeOK` is inductive together with `Owned` (who holds what of a
stream). `LinkInvariant` adds `Accounted` (the pending map is exactly the open
promises, a closed link has none) and `InOnePlace` (a call is in at most one of the
queue, the wire, a page's hands and a result POST). The second is what makes
refinement provable: without it a step that starts a call could start it twice.
From it follow `LinkImplementsLedger`, step by step against the ledger's actions,
and `CallsRunOnce`. These hold whatever the tabs and the network do.

The claims about timers and streams do not: they are about one tab at a time, and
each theorem names the faults it bears (`BookkeepingHolds` a lost POST,
`NoVerdictOnAttached` a lost or late one, `OrphansAreDecided` a late one). Every
other fault alone breaks the property, as TLC shows, but for a slow `hello`, which
`NeverGivesUpOnAttached` survives (no verdict comes of an abort nobody hears) and its
proof does not cover. The invariant is `TabInv`: `Tenancy` (one page is alive, and what is
linked, on the wire or running is its own), `Slots` (the host has one stream or one
ticking timer, in its slot, or neither), `Vacancy` (a session that is down has
nothing left of a page), `BootHeard` (a "ready" on its way is the present page's own;
not with late POSTs) and `Reach` (a call is out of reach only between its page's
leaving and the verdict; not with lost ones).

**FileSync and Session.** `PlanReachesNext` is the algebra of a sync: what the plan
removes and upserts turns any tree into any other. `TypeOK` holds for any faults,
as do `UploadsReachUploaders` and `AdmittedClean`, by `Guards`: an armed output
belongs to a build that uploads, and a container a command was cut short in belongs
to a poisoned session. The rest needs quieter surroundings, and
each theorem asks only for the quiet it needs; TLC finds a violation for each
condition that is dropped.

* Without edits inside syncs, `BeliefIsTrue`, however syncs overlap: by `InStep`, file by
  file a live container has what the manifest says or what is on disk, and each sync
  under way has before it every file that still differs from the disk (`LeadsToDisk`).
  Two syncs that interleave only repeat each other's work.
* With builds one at a time, `ArtifactsAreOwn` and `BuildsRunClean`: by `OneAtATime` (one
  build is under way, and its session is not poisoned) and `OwnOutput` (the build that
  uploads is the one whose directory is armed and whose output lies there).
* With both, `NoBuildIsStale`: by `Witnessed` (what a build has in its container, and what
  it built from, was on disk since it was asked for), which needs all of the above:
  the step from a sync to the install is where manifest, disk and container must agree.

**Discovery.** `PortInv` says that at most one daemon answers and that, while it
does, the record names it or nothing: nothing in the code locks the file, and the
port, taken before the record is written and left after it is removed, is the lock.
`NeverSuperseded` and `CalmNeverFails` assume clients of one version (`OldClients = {}`).
`Superseded` carries that from the moment a client spawns, the record names no
daemon of another version, because the client has written that one off and a daemon
that starts is of the client's version. `CalmInv` says what holds while nothing has
failed: the record is the serving daemon, and no client is ever on the paths that
write one off.

**Shell.** `TypeOK` is inductive together with `Stage` (how far a verification is
says where its two exec calls are). `Quiet` holds as long as no command outran its
timeout or ignored Ctrl-C and the shell was at its prompt by the marker: there is one
line in the terminal and the shell
together, it is that of the exec whose turn it is, and that exec has heard no end
of it (`Alone`); what has been heard is its own (`Own`). A line may outlive its
exec only in a session that is broken or about to be. `OneLineAtATime`,
`CancelledIsGone` and `OwnOutput` follow. `BrokenForAReason` needs `SoundInv` on top:
while an exec has heard nothing, its line is before it and, if it was interrupted,
a Ctrl-C is on its way behind that line (`Heeded`), so the proof
`requireInterruptTookEffect` waits for does come; and a verification's own two
exec calls cannot fail (`Verifies`).

**Daemon.** `DaemonInv` is `Typed`, `IdsAreFresh` (at and past the counter nothing has
been made) and `Undisturbed` (a build nobody disturbed runs in the session the map
has for its project, made for it, not poisoned, used and active recently). The last
part is why maintenance spares it: every reason to close or stop is excluded by one
of its conjuncts. `WorkStaysListed`, `MaintenanceIsSafe` and `IdsAreNotRecycled`
follow, for any number of projects, requests and sessions.

**Commands.** `TypeOK` is inductive by itself. `CommandInv` adds `SentOnce` (a command
is on its stream at most once, and before anything of it is in the page), `Named` (a
command with a handle that runs is what the map has for it) and `KilledFirst` (once a
timeout's kill is answered, its command is over or dying). `TimeoutsAreKept` follows
from it under `Prompt`, that no timeout is shorter than a spawn and no handle
shared; answers may overtake each other. `ShellInv` adds `OneOpening` and `IdTaken` and
gives `NoShellIsLost` under `InTurn`, that openings of one id take turns.

`CutShortIsReported` takes only that answers keep their order (`InOrder`). A kill is
answered when the page has it, the command's own answer is posted when its process
is gone, so the kill's is ahead (`KillIsFirst`) and the caller hears of the timeout
first. That needs to know that a command is sent alone (`SentAlone`), that a
handle names only a command that runs (`NamesAtWork`), that what was cut is at work
or over (`CutAtWork`) and that an answer is that of a process which is over
(`AnswersOver`).

**OutputBuffer.** `Length`, `Evicted` and `Text` are folds over the chunks.
`PushKeepsTail` says what a push does to the text, for any limit, chunks and
characters; `OutputKeepsTail` follows from `BufferInv`, that each buffer holds the
end of what was read. What a fold comes to is shown without an induction theorem:
a fold is a function on the sets of indices seen so far, the function exists
because one of least size without it cannot (`FoldExists`), and a claim about it
for the first `k` chunks is proved by looking at the least `k` for which it fails
(`UpTo`).

**DepCache.** `InstallsAreRight` needs that a page's container is empty until
something is mounted or installed and then has what its own lockfile asks for
(`Modules`): `"reuse" \notin Faults`. `EvictsFairly` rests on `Turns` (pages that have not
overlapped are one page at most, whose snapshot is in the storage once it was
saved) and `Tidy` (index, listing and storage then agree, so the times an eviction
sorts by are those of the last use). `BudgetHolds` rests on `Fitting`: the snapshots
fit, or are down to one, or some page's eviction is still to list them or has
listed all of them and goes on until what it knows of fits; the last page to
list sees what every other has written. The weight of a set of snapshots is a fold
again: that it exists and that taking one out takes its bytes out (`WeightOfPart`)
is proved from a smallest counterexample. `EvictsFairly` and `BudgetHolds` take no condition
on `Faults`: `upset` in their statement says which runs they are about.

**Errors.** No state: `RoundTrip` and `PageRoundTrip` say that a failure comes back from
either transport as it was, `ArrivesNamed` that whatever arrives becomes a
well-formed failure, and `DecisionsSurvive` that exit code and `runtimeStateIsKnown`
are the same on every side of both. They hold for any sets of strings and numbers.

**PackageManager and OneShot.** `PinnedRuns` is about the choice and the command
together, and gives `DeclaredIsBuilt`. `Types` (with a teardown's place and the
watcher's handlers) is inductive. `Progress` says how far a build is when the output
directory is touched, `Outcome` that a failure that is remembered still has the
code of its cause whichever transports it crossed, which is `DecisionsSurvive`; with
both, `ExitCodeHolds` and `OutputIsKept` hold for any number of Ctrl-Cs. `MirrorHolds` is
by `Mirrored`: until the watcher is ready the runtime has what was mounted; then the
last call on its way to the runtime carries what the watcher reported last
(`WillHold`), or the watcher is behind and will report the file again (`Behind`), and
a file has one handler at a time. They take no condition on faults: what the code loses
is named in the properties.

Proved and not run: the type invariants of `RunnerLink`, `Session`, `Discovery`,
`Shell`, `Daemon`, `Commands` and `OneShot`, `NoBuildInDirty`, and the inductive
invariants. Only
model-checked: liveness (`OrphansSettle`, `BuildsEnd`, `UnusableReclaimed`,
`BuildsReleased`, `OrphansStop`, `ClientsEnd`, `TimedCommandsEnd`, `ExecsEnd`,
`InterruptEnds`), since the provers have neither fairness nor ENABLED; and the
violations, which are counterexamples and need no proof.

## Plan

The plan of modelling is carried out: the channel, the session with its sync,
discovery, the cache, the shell, the daemon, the commands in the page, and the
commands of the user. The safety properties are proved. What would come next are
abstract specifications beside `CallLedger`: of a shell session as a queue that runs
one command at a time, and of a session's builds as steps each of which takes a
version of the project.

## Not modelled

* Which headers the control plane's guard compares, static files, printing, argument
  handling and the runtime adapter keep no state of interest.
* Of the page, `describeRuntime`, `ensurePackageManagerHome`, `restoreBinPermissions`
  (the mode bits a mount loses) and `filterOutput`; of the package manager choice, the
  argument lists; of the daemon client, `daemonStatus`, which changes nothing.
* Paths, ignore lists, snapshot contents and wire formats are data the properties do
  not tell apart. The rewriting of proxied requests is another.
* A mount into a `node_modules` that is not empty: what the runtime does then is not in
  the repository (the fault `reuse` of `DepCache`).
* `poc/`, `bench/` and the test double, which are beside the product.

PROJECT.json lists every component with what is left out of it.
