------------------------------- MODULE OneShot -------------------------------
(***************************************************************************)
(* A wc-exe process from its command to its exit code: src/commands/, the   *)
(* server of src/core/server.ts as they use it, the build sequence of       *)
(* src/core/project-build.ts, Ctrl-C (src/utils/interrupt.ts) and the       *)
(* report at the end (src/utils/report.ts).                                 *)
(*                                                                         *)
(* The link is here what a command sees of it: up, with or without a page   *)
(* on its event stream, or closed.  RunnerLink has the rest.                *)
(***************************************************************************)
EXTENDS Errors, PackageManager, DevWatch

CONSTANTS
  Commands,     \* the commands tried
  ProjectsTried,
  Shipped,      \* manager -> the major version the runtime ships
  Interrupts,   \* Ctrl-Cs the user may press
  ViewersStay,  \* nobody closes a tab of the previewed app
  None

ASSUME OneShotAssumption ==
  /\ Commands \subseteq {"build", "install", "dev", "daemon"}
  /\ ProjectsTried \subseteq Projects
  /\ Shipped \in [Managers -> Majors \cup {NoManager}]
  /\ "main" \notin Interrupts
  /\ None \notin Nat /\ None \notin TAGS \cup {"untagged", "uncaught"}

VARIABLES
  invocation, \* the command, its options and the project
  pc,         \* the step it is at
  cached,     \* cacheStable
  link,       \* "none", "up" or "closed"
  server,     \* "none", "up", "closing" or "down"
  sockets,    \* the page's, on the server: its event stream and an idle one
  proxy,      \* the preview proxy: "none", "up" or "closing"
  viewer,     \* a tab holds the proxy's HMR socket
  output,     \* the output directory
  built,      \* the build command has succeeded
  ran,        \* the managers run, with their versions
  failure,    \* what the command's catch block caught
  at,         \* how far each teardown is: the command's own and each Ctrl-C's
  exit,       \* the exit code
  cause       \* history: the tag of what was thrown first

hostVars == <<link, server, sockets, proxy, viewer>>
outcomeVars == <<output, built, ran, failure, cause>>
vars == <<watchVars, invocation, pc, cached, hostVars, outcomeVars, at, exit>>

mode == invocation.command
project == invocation.project
Teardowns == {"main"} \cup Interrupts

(* The steps of each command.  prepareOutput comes "after the build, not    *)
(* before"; `dev` spawns the server and then waits for it.                  *)
PrepareFirst ==
  <<"server", "launch", "mount", "manager", "install", "prepare", "build", "upload">>
BuildSteps ==
  <<"server", "launch", "mount", "manager", "install", "build", "prepare", "upload">>
InstallSteps == <<"server", "launch", "mount", "install">>
DevSteps ==
  <<"server", "launch", "mount", "manager", "install", "spawn", "ready", "serve">>
DaemonSteps == <<"connect", "prepare", "ask">>

Steps ==
  [build |-> BuildSteps, install |-> InstallSteps, dev |-> DevSteps, daemon |-> DaemonSteps]

(* Those that call the page. *)
PageSteps ==
  {"launch", "mount", "manager", "install", "build", "upload", "spawn", "ready"}

Interrupted == \E i \in Interrupts : at[i] # "idle"

(* A teardown goes as far as it can without waiting before the command      *)
(* itself runs on.                                                          *)
Turning ==
  \E t \in Teardowns : \/ at[t] = "watcher" /\ ~watching
                       \/ at[t] = "proxy" /\ proxy = "none"
                       \/ at[t] = "server" /\ server \in {"none", "up"}
                       \/ at[t] \in {"link", "exit"}
Running == exit = None /\ at["main"] = "idle" /\ ~Turning
Finished == pc > Len(Steps[mode])
At(s) == Running /\ ~Finished /\ Steps[mode][pc] = s
Attached == link = "up" /\ "stream" \in sockets
Next1 == pc' = pc + 1

Init ==
  /\ WatchInit
  /\ invocation \in {i \in [command : Commands, noInstall : BOOLEAN, cache : BOOLEAN,
                            project : ProjectsTried] :
                       /\ i.noInstall => i.command = "build"
                       /\ i.cache => i.command \in {"build", "install"}}
  /\ pc = 1 /\ cached = FALSE
  /\ link = "none" /\ server = "none" /\ sockets = {}
  /\ proxy = "none" /\ viewer = FALSE
  /\ output = "previous" /\ built = FALSE /\ ran = {}
  /\ failure = None /\ cause = None
  /\ at = [t \in Teardowns |-> "idle"]
  /\ exit = None

-----------------------------------------------------------------------------
(* The steps of a command.                                                  *)

(* startServer, or startServerWithFallback when there is a cache to reach.  *)
StartServer ==
  /\ At("server") /\ Next1
  /\ cached' \in {FALSE, invocation.cache}
  /\ link' = "up" /\ server' = "up"
  /\ UNCHANGED <<watchVars, invocation, sockets, proxy, viewer, outcomeVars, at, exit>>

Passed == UNCHANGED <<watchVars, invocation, cached, hostVars, outcomeVars, at, exit>>

(* RunnerClient.launch: a page has attached and booted. *)
Launch == At("launch") /\ Attached /\ Next1 /\ Passed

AskManager == At("manager") /\ Attached /\ Next1 /\ Passed

SkipInstall == At("install") /\ invocation.noInstall /\ Next1 /\ Passed

(* ensureDaemon; Discovery has what it does. *)
Connect == At("connect") /\ Next1 /\ Passed

(* spawnCommand answers before anything runs; ... *)
SpawnServer == At("spawn") /\ Attached /\ Next1 /\ Passed

(* ... the server comes up in its own time or never, and nobody says which. *)
ServerReady == At("ready") /\ Attached /\ Next1 /\ Passed

Mount ==
  /\ At("mount") /\ Attached /\ Next1
  /\ IF mode = "dev" THEN MountAll ELSE UNCHANGED watchVars
  /\ UNCHANGED <<invocation, cached, hostVars, outcomeVars, at, exit>>

(* The build and every cached install run the manager as the page resolves  *)
(* it, `install` without a cache runs npm, and `dev` the bare manager.      *)
Choice == resolvePackageManager(project, Shipped)
AsShipped(manager) == [manager |-> manager, major |-> Shipped[manager]]
Installer ==
  IF mode = "build" \/ cached THEN WhatRuns(Choice, Shipped)
  ELSE AsShipped(IF mode = "dev" THEN Choice.manager ELSE "npm")

Install ==
  /\ At("install") /\ ~invocation.noInstall /\ Attached /\ Next1
  /\ ran' = ran \cup {Installer}
  /\ UNCHANGED <<watchVars, invocation, cached, hostVars, output, built, failure, cause, at, exit>>

Build ==
  /\ At("build") /\ Attached /\ Next1
  /\ ran' = ran \cup {WhatRuns(Choice, Shipped)}
  /\ built' = TRUE
  /\ UNCHANGED <<watchVars, invocation, cached, hostVars, output, failure, cause, at, exit>>

(* prepareOutputDir. *)
Prepare ==
  /\ At("prepare") /\ Next1
  /\ output' = "empty"
  /\ UNCHANGED <<watchVars, invocation, cached, hostVars, built, ran, failure, cause, at, exit>>

(* writeDistFile, one file after another, and the last of them. *)
Upload ==
  /\ At("upload") /\ Attached
  /\ \/ output' = "partial" /\ pc' = pc
     \/ output' = "complete" /\ Next1
  /\ UNCHANGED <<watchVars, invocation, cached, hostVars, built, ran, failure, cause, at, exit>>

(* The daemon builds, into the directory the command has emptied. *)
DaemonBuilds ==
  /\ At("ask")
  /\ \/ output' = "partial" /\ built' = TRUE /\ pc' = pc
     \/ output' = "complete" /\ built' = TRUE /\ Next1
  /\ UNCHANGED <<watchVars, invocation, cached, hostVars, ran, failure, cause, at, exit>>

(* The proxy is told to listen, and the watcher is made. *)
Serve ==
  /\ At("serve") /\ Next1
  /\ proxy' = "up"
  /\ UNCHANGED <<watchVars, invocation, cached, link, server, sockets, viewer, outcomeVars, at, exit>>

Succeed ==
  /\ Running /\ Finished /\ mode # "dev"
  /\ at' = [at EXCEPT !["main"] = IF mode = "daemon" THEN "exit" ELSE "watcher"]
  /\ UNCHANGED <<watchVars, invocation, pc, cached, hostVars, outcomeVars, exit>>

-----------------------------------------------------------------------------
(* Failures.  Each is thrown as a value, crosses the transports between     *)
(* whoever throws it and the command, and is caught there.                  *)
Sample(t) ==
  [tag |-> t,
   fields |-> [f \in Fields(t) |-> CHOOSE v \in Schema[t][f].type : v # Schema[t][f].fallback]]
Error(t) == IF t \in TAGS THEN Sample(t) ELSE Untagged

HasTimeout == mode \in {"build", "daemon"}
CommandTags == {"CommandFailed"} \cup (IF HasTimeout THEN {"RunnerTimeout"} ELSE {})

ThrownByHost(s) ==
  CASE s \in {"server", "prepare", "serve"} -> {"untagged"}
    [] s = "launch"                -> {"RunnerUnavailable", "RunnerGone"}
    [] s = "install" /\ ~cached    -> CommandTags \cup {"RunnerGone"}
    [] s = "build"                 -> CommandTags \cup {"RunnerGone"}
    [] s = "connect"               -> {"DaemonStartTimeout", "untagged"}
    [] s = "ask"                   -> {"DaemonUnreachable", "untagged"}
    [] s \in PageSteps             -> {"RunnerGone"}
    [] OTHER                       -> {}

ThrownByPage(s) ==
  CASE s = "mount"             -> {"MountFailed", "untagged"}
    [] s = "install" /\ cached -> {"CommandFailed", "RuntimeFailure", "untagged"}
    [] s = "upload"            -> {"NoBuildOutput", "UploadFailed", "untagged"}
    [] s \in PageSteps \ {"launch"} -> {"untagged"}
    [] OTHER                   -> {}

(* What a build in the daemon may end with, by who throws it. *)
ThrownInDaemon ==
  [daemon |-> {"InvalidProject", "RunnerUnavailable", "RunnerGone", "CommandFailed",
               "RunnerTimeout", "untagged"},
   page   |-> {"MountFailed", "CommandFailed", "RuntimeFailure", "NoBuildOutput",
               "UploadFailed", "untagged"}]

FromPage(e) == fromWire(pageToWire(e))
FromDaemon(e) == fromWire(toWire(e))

(* No failure a command can catch is None. *)
ASSUME CaughtAssumption ==
  \A t \in TAGS \cup {"untagged"} :
    None \notin {Error(t), FromPage(Error(t)), FromDaemon(Error(t)), FromDaemon(FromPage(Error(t)))}

Throws(t, caught) ==
  /\ failure' = caught /\ cause' = t
  /\ at' = [at EXCEPT !["main"] = IF mode = "daemon" THEN "exit" ELSE "watcher"]
  /\ UNCHANGED <<watchVars, invocation, pc, cached, hostVars, output, built, ran, exit>>

(* On a closed link a call fails whatever the page does. *)
HostFails ==
  \E s \in {"server", "prepare", "serve", "connect", "ask"} \cup PageSteps : \E t \in ThrownByHost(s) :
    /\ At(s)
    /\ s \in PageSteps /\ ~Attached => t \in {"RunnerGone", "RunnerUnavailable"}
    /\ t = "RunnerGone" => ~Attached
    /\ Throws(t, Error(t))

PageFails ==
  \E s \in PageSteps : \E t \in ThrownByPage(s) :
    /\ At(s) /\ Attached
    /\ s = "install" => ~invocation.noInstall
    /\ Throws(t, FromPage(Error(t)))

DaemonFails ==
  /\ At("ask")
  /\ \/ \E t \in ThrownInDaemon.daemon : Throws(t, FromDaemon(Error(t)))
     \/ \E t \in ThrownInDaemon.page : Throws(t, FromDaemon(FromPage(Error(t))))

(* ensureCacheDirs comes before the handler of Ctrl-C and before the try: a  *)
(* cache that cannot be made ends the process with no teardown.             *)
CacheDirFails ==
  /\ At("server") /\ invocation.cache /\ ~Interrupted
  /\ cause' = "untagged" /\ exit' = exitCodeFor(Untagged)
  /\ UNCHANGED <<watchVars, invocation, pc, cached, hostVars, output, built, ran, failure, at>>

(* Nobody listens for an `error` of the proxy, its server (a busy port) or   *)
(* the watcher: reportUnhandled ends the process, whatever is under way.    *)
Uncaught ==
  /\ exit = None /\ proxy # "none"
  /\ cause' = "uncaught" /\ exit' = 3
  /\ UNCHANGED <<watchVars, invocation, pc, cached, hostVars, output, built, ran, failure, at>>

-----------------------------------------------------------------------------
(* The page in the user's browser, and the tabs that preview the app.       *)
PageOpens ==
  /\ exit = None /\ server = "up" /\ "stream" \notin sockets
  /\ sockets' = {"idle"} \cup (IF link = "up" THEN {"stream"} ELSE {})
  /\ sockets' # sockets
  /\ UNCHANGED <<watchVars, invocation, pc, cached, link, server, proxy, viewer, outcomeVars, at, exit>>

PageLeaves ==
  /\ exit = None /\ sockets # {}
  /\ sockets' = {}
  /\ UNCHANGED <<watchVars, invocation, pc, cached, link, server, proxy, viewer, outcomeVars, at, exit>>

ViewerComes ==
  /\ exit = None /\ proxy = "up" /\ ~viewer
  /\ viewer' = TRUE
  /\ UNCHANGED <<watchVars, invocation, pc, cached, link, server, sockets, proxy, outcomeVars, at, exit>>

ViewerLeaves ==
  /\ exit = None /\ viewer /\ ~ViewersStay
  /\ viewer' = FALSE
  /\ UNCHANGED <<watchVars, invocation, pc, cached, link, server, sockets, proxy, outcomeVars, at, exit>>

(* The developer edits files, and the watcher follows.  It gets ready by    *)
(* itself: nobody awaits that.  What was edited before the mount is in it;  *)
(* what is edited once the command goes down concerns nobody.               *)
Watching ==
  /\ exit = None /\ mode = "dev"
  /\ \/ pc > 3 /\ Running /\ \E f \in Files : Edit(f)
     \/ Finished /\ ~watching /\ ~Interrupted /\ Watch
     \/ \E f \in Files : Notice(f)
     \/ \E h \in handlers : ReadFile(h) \/ WriteToRuntime(h)
     \/ Apply
  /\ UNCHANGED <<invocation, pc, cached, hostVars, outcomeVars, at, exit>>

-----------------------------------------------------------------------------
(* SIGINT.  daemonBuild has no handler, and the process dies of it.         *)
Interrupt(i) ==
  /\ exit = None /\ at[i] = "idle"
  /\ at' = [at EXCEPT ![i] = IF mode = "daemon" THEN "exit" ELSE "watcher"]
  /\ UNCHANGED <<watchVars, invocation, pc, cached, hostVars, outcomeVars, exit>>

(* cleanup(), which every Ctrl-C and the command itself run on their own.   *)
Goes(t, from, to) == exit = None /\ at[t] = from /\ at' = [at EXCEPT ![t] = to]

CloseWatcher(t) ==
  /\ watching /\ Unwatch
  /\ Goes(t, "watcher", "link")
  /\ UNCHANGED <<invocation, pc, cached, hostVars, outcomeVars, exit>>

(* RunnerClient.close. *)
CloseLink(t) ==
  /\ \/ Goes(t, "link", "proxy")
     \/ ~watching /\ Goes(t, "watcher", "proxy")
  /\ link' = IF link = "up" THEN "closed" ELSE link
  /\ sockets' = sockets \ {"stream"}
  /\ CutOff
  /\ UNCHANGED <<invocation, pc, cached, server, proxy, viewer, outcomeVars, exit>>

(* proxyServer.close stops listening and waits for every socket. *)
CloseProxy(t) ==
  /\ exit = None /\ at[t] = "proxy" /\ proxy = "up"
  /\ proxy' = "closing"
  /\ UNCHANGED <<watchVars, invocation, pc, cached, link, server, sockets, viewer, outcomeVars, at, exit>>

ProxyClosed(t) ==
  /\ proxy # "up" /\ ~viewer
  /\ Goes(t, "proxy", "server")
  /\ UNCHANGED <<watchVars, invocation, pc, cached, hostVars, outcomeVars, exit>>

(* shutdown: the link, the sockets, the server, in one go; it is down when  *)
(* no socket is left.                                                       *)
WithoutIdle == sockets \ {"stream"}
SocketsClosed == {}

Shutdown(t) ==
  /\ exit = None /\ at[t] = "server" /\ server = "up"
  /\ link' = "closed"
  /\ sockets' = SocketsClosed
  /\ server' = "closing"
  /\ UNCHANGED <<watchVars, invocation, pc, cached, proxy, viewer, outcomeVars, at, exit>>

ServerClosed(t) ==
  /\ server # "up" /\ sockets = {}
  /\ Goes(t, "server", "exit")
  /\ server' = IF server = "closing" THEN "down" ELSE server
  /\ UNCHANGED <<watchVars, invocation, pc, cached, link, sockets, proxy, viewer, outcomeVars, exit>>

(* Each teardown ends in process.exit with a code of its own. *)
exitCode(t) ==
  IF t \in Interrupts THEN IF mode = "dev" THEN 0 ELSE 130
  ELSE IF failure = None THEN 0 ELSE exitCodeFor(failure)

Exit(t) ==
  /\ exit = None /\ at[t] = "exit"
  /\ exit' = exitCode(t)
  /\ UNCHANGED <<watchVars, invocation, pc, cached, hostVars, outcomeVars, at>>

Teardown(t) ==
  \/ CloseWatcher(t) \/ CloseLink(t) \/ CloseProxy(t) \/ ProxyClosed(t)
  \/ Shutdown(t) \/ ServerClosed(t) \/ Exit(t)

Step ==
  \/ StartServer \/ Launch \/ Mount \/ AskManager
  \/ Install \/ SkipInstall \/ Build \/ Prepare \/ Upload
  \/ SpawnServer \/ ServerReady \/ Serve
  \/ Connect \/ DaemonBuilds
  \/ Succeed
  \/ HostFails \/ PageFails \/ DaemonFails

Next ==
  \/ Step
  \/ CacheDirFails \/ Uncaught
  \/ PageOpens \/ PageLeaves \/ ViewerComes \/ ViewerLeaves \/ Watching
  \/ \E i \in Interrupts : Interrupt(i)
  \/ \E t \in Teardowns : Teardown(t)

Spec == Init /\ [][Next]_vars

(* A teardown waits for nothing but sockets, and a user who has gone back   *)
(* to the editor closes a preview at some time.  No step of the command is  *)
(* assumed to end: without a timeout a build may hang for ever.             *)
FairSpec ==
  Spec /\ WF_vars(ViewerLeaves) /\ \A t \in Teardowns : WF_vars(Teardown(t))

-----------------------------------------------------------------------------
TypeOK ==
  /\ pc \in 1..9 /\ cached \in BOOLEAN
  /\ link \in {"none", "up", "closed"} /\ server \in {"none", "up", "closing", "down"}
  /\ sockets \subseteq {"stream", "idle"}
  /\ proxy \in {"none", "up", "closing"} /\ viewer \in BOOLEAN
  /\ output \in {"previous", "empty", "partial", "complete"} /\ built \in BOOLEAN
  /\ ran \subseteq [manager : Managers, major : Majors \cup {NoManager}]
  /\ failure = None \/ isWcError(failure) \/ failure = Untagged
  /\ at \in [Teardowns -> {"idle", "watcher", "link", "proxy", "server", "exit"}]
  /\ exit \in {None, 0, 1, 2, 3, 130}

(* The exit code tells what happened, however the failure reached the       *)
(* command and whatever Ctrl-C raced it: 1 for a project that does not      *)
(* build, 2 for a source that is none, 3 for wc-exe itself, 0 only when     *)
(* everything was done, and 130 only after a Ctrl-C (exitCodeFor, toWire,   *)
(* fromWire and reportFailure).                                             *)
CodeFor(tag) ==
  CASE tag \in {"CommandFailed", "NoBuildOutput"} -> 1
    [] tag = "InvalidProject" -> 2
    [] OTHER -> 3
ExitCodeIsTruthful ==
  /\ exit = 0 => IF mode = "dev" THEN Interrupted
                 ELSE Finished /\ (mode # "install" => built /\ output = "complete")
  /\ exit = 130 => Interrupted
  /\ exit \in 1..3 => cause # None /\ exit = CodeFor(cause)
  /\ exit # None /\ cause # None /\ ~Interrupted => exit = CodeFor(cause)

(* A one-shot build that fails, or is interrupted, before its build command *)
(* has succeeded leaves the output directory alone ("a failed build must    *)
(* leave whatever was in the output directory alone", commands/build.ts).   *)
FailedBuildKeepsOutput == mode = "build" /\ ~built => output = "previous"

(* A project that pins its manager is installed and built with the manager  *)
(* and the version it pins, on both install paths, as long as the runtime   *)
(* can tell which version it ships (packageManagerCommand; "this is the     *)
(* line the daemon used to get wrong", core/project-build.ts).              *)
BuildsAsDeclared ==
  LET declared == FieldOf(project)
  IN (/\ mode = "build" /\ parsePackageManagerField(declared) # NoManager
      /\ declared.major # NoManager /\ Shipped[declared.name] # NoManager)
       => ran \subseteq {[manager |-> declared.name, major |-> declared.major]}

(* Once the watcher is ready and nothing is under way for it, the runtime   *)
(* holds a text file as it is on disk, or does not hold it when it was      *)
(* deleted, if it was not edited in the gap before the watcher was ready,   *)
(* is not in a directory made since, and no two of its handlers overlapped  *)
(* (commands/dev.ts: "otherwise the dev server keeps resolving a file the   *)
(* developer already removed").                                             *)
RuntimeMirrorsDisk ==
  \A f \in Files \ (Binary \cup InNewDir \cup unwatched \cup raced) :
    watching /\ Settled(f) => mirror[f] = disk[f]

(* Ctrl-C ends the process (utils/interrupt.ts: "Ctrl-C handling that       *)
(* actually exits"), whatever the command is in the middle of, whatever     *)
(* page is attached, and however often it is pressed.                       *)
InterruptEnds == \A i \in Interrupts : at[i] # "idle" ~> exit # None
=============================================================================
