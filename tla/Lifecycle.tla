------------------------------ MODULE Lifecycle ------------------------------
(***************************************************************************)
(* start, stop, restart and upgrade on macOS (src/src/main.rs), the daemon    *)
(* process they manage (src/src/daemon.rs) and launchd, which spawns it and   *)
(* is modelled from how src/src/launchd.rs drives it. The commands of one     *)
(* user wait for each other at lifecycle.lock, so at most one is past it; the *)
(* daemon, launchd, an installer and the power do as they like meanwhile.     *)
(*                                                                         *)
(* Commands and daemon both write config.json, each time the whole of it. Its *)
(* remotes are here a number, that of the last change; what the daemon does   *)
(* with them is DaemonActor's, how the binary is replaced Release's. A probe  *)
(* of the control socket may time out whatever the daemon does.               *)
(***************************************************************************)
EXTENDS Release

CONSTANTS
  Slot,           \* places for daemon processes
  NoSlot,
  ProtocolChange, \* the version that changed the control protocol
  MaxCommands,    \* bound: commands run
  MaxChanges,     \* bound: changes asked of the daemon
  MaxFaults       \* bound: failed saves, killed daemons, failed listeners

ASSUME LifecycleAssumption ==
  /\ NoSlot \notin Slot
  /\ ProtocolChange \in Nat /\ MaxCommands \in Nat /\ MaxChanges \in Nat /\ MaxFaults \in Nat

VARIABLES
  cli,     \* the command past lifecycle.lock
  launchd, \* the agent's job
  daemon,  \* the daemon processes
  config,  \* config.json
  past     \* history, and what the bounds count

lifecycleVars == <<cli, launchd, daemon, config, past>>
vars == <<releaseVars, lifecycleVars>>

Contents == [exists : BOOLEAN, stopping : BOOLEAN, remotes : Nat]
NoConfig == [exists |-> FALSE, stopping |-> FALSE, remotes |-> 0]

Command == {"none", "start", "stop", "restart", "upgrade"}
CommandState ==
  {"idle", "probe", "bootout", "wait", "load", "clear", "install", "bootstrap", "rebootout",
   "rebootstrap", "poll", "undo", "stop", "persistLoad", "persist", "stopBootout", "shutdown",
   "reply", "lastBootout", "classify", "observe", "commit"}

\* What became of a Shutdown request: sent, taken by the daemon, and answered with the
\* cleanup confirmed or not, or with an error of either side.
Reply == {"none", "sent", "taken", "confirmed", "unconfirmed", "error"}

NoCommand == [cmd |-> "none", pc |-> "idle", proc |-> NoProc, version |-> 0,
              ran |-> FALSE,       \* upgrade: the daemon ran at first
              was |-> FALSE,       \* stop's was_running
              failed |-> FALSE,    \* reports an error, whatever else it does
              snap |-> NoConfig,   \* the configuration it loaded
              reply |-> "none"]

\* A daemon process: spawned ("starting"), holding daemon.lock and a configuration
\* ("loaded"), its handlers and socket in place ("bound"), in its loop ("running",
\* "stopping"), out of it ("exiting").
DaemonState == {"none", "starting", "loaded", "bound", "running", "stopping", "exiting"}

NoDaemon == [pc |-> "none", version |-> 0, memory |-> NoConfig, term |-> FALSE]

\* spoiled: a save failed, or a daemon died that alone could have set the file right;
\* wanted: it was started, nobody has gone about stopping it and it has not given up;
\* stopped: it was stopped and nobody has gone about starting it; acked: the last change
\* acknowledged.
Nothing == [spoiled |-> FALSE, wanted |-> FALSE, stopped |-> FALSE, acked |-> 0,
            changes |-> 0, commands |-> 0, faults |-> 0]

DaemonAt(pc) == [NoDaemon EXCEPT !.pc = pc, !.version = 1,
                                !.memory = [NoConfig EXCEPT !.exists = TRUE]]

\* Nothing was ever started, or a daemon runs.
Init ==
  /\ ReleaseInit
  /\ cli = NoCommand /\ past = Nothing
  /\ \/ /\ launchd = [session |-> TRUE, plist |-> FALSE, loaded |-> FALSE, due |-> FALSE,
                      job |-> NoSlot]
        /\ daemon = [d \in Slot |-> NoDaemon]
        /\ config = NoConfig
     \/ /\ platform = "mac" /\ target # NoFile
        /\ \E d \in Slot :
             /\ launchd = [session |-> TRUE, plist |-> TRUE, loaded |-> TRUE, due |-> FALSE,
                           job |-> d]
             /\ daemon = [[e \in Slot |-> NoDaemon] EXCEPT ![d] = DaemonAt("running")]
             /\ config = daemon[d].memory

-----------------------------------------------------------------------------
(* What commands see, and what they do to launchd and the file.            *)

Serving(d) == daemon[d].pc = "running" /\ ~daemon[d].term
HoldsLock(d) == daemon[d].pc \notin {"none", "starting"}
LockFree == \A d \in Slot : ~HoldsLock(d)

Speaks(v, w) == (v >= ProtocolChange) = (w >= ProtocolChange)

\* probe: the hello is answered as soon as the socket is bound, a request by the loop.
Running == \E d \in Slot : daemon[d].pc = "running" /\ Speaks(cli.version, daemon[d].version)
Mismatch == \E d \in Slot : /\ daemon[d].pc \in {"bound", "running", "stopping"}
                            /\ ~Speaks(cli.version, daemon[d].version)

\* SIGTERM kills a daemon whose handlers are not installed.
Terminated(d) ==
  IF daemon[d].pc \in {"starting", "loaded"} THEN NoDaemon ELSE [daemon[d] EXCEPT !.term = TRUE]

Unload ==
  /\ launchd' = [launchd EXCEPT !.loaded = FALSE, !.due = FALSE, !.job = NoSlot]
  /\ daemon' = [d \in Slot |-> IF d = launchd.job THEN Terminated(d) ELSE daemon[d]]

\* bootout: an error that leaves no job loaded is none.
Bootout == IF launchd.loaded THEN Unload ELSE UNCHANGED <<launchd, daemon>>
BootoutFails == launchd.loaded /\ UNCHANGED <<launchd, daemon>>

Bootstrap ==
  /\ ~launchd.loaded
  /\ launchd' = [launchd EXCEPT !.loaded = TRUE, !.due = TRUE]

SaveOutcome == {"ok"} \cup IF past.faults < MaxFaults THEN {"before", "unknown"} ELSE {}
Faulty == [past EXCEPT !.faults = @ + 1, !.spoiled = TRUE]

\* save: on failure the file is replaced ("unknown") or not ("before").
Save(new, outcome) ==
  /\ outcome \in SaveOutcome
  /\ config' = IF outcome = "before" THEN config ELSE new
  /\ past' = IF outcome = "ok" THEN past ELSE Faulty

\* A command writes the whole file from what it loaded. What the daemon changed since is
\* lost unless the daemon is yet to write the file again.
Overwrites(new) ==
  new.remotes # config.remotes
    /\ \A d \in Slot : daemon[d].pc \notin {"loaded", "bound", "running"}

CommandSave(new, outcome) ==
  /\ outcome \in SaveOutcome
  /\ config' = IF outcome = "before" THEN config ELSE new
  /\ past' = IF outcome = "ok" THEN [past EXCEPT !.spoiled = @ \/ Overwrites(new)] ELSE Faulty

CliAt(pc) == cli.pc = pc
Goto(pc) == cli' = [cli EXCEPT !.pc = pc, !.snap = NoConfig] /\ UNCHANGED releaseVars

\* The command ends, an upgrade with its process.
End ==
  /\ cli' = NoCommand
  /\ IF cli.cmd = "upgrade" THEN Abandon(cli.proc) \/ Leave(cli.proc) ELSE UNCHANGED releaseVars

Idly == cli.cmd = "none" /\ platform = "mac" /\ launchd.session
Begin(cmd, pc) ==
  /\ Idly /\ past.commands < MaxCommands /\ target # NoFile
  /\ cli' = [NoCommand EXCEPT !.cmd = cmd, !.pc = pc, !.version = target.version]
  /\ UNCHANGED <<releaseVars, launchd, daemon, config>>

-----------------------------------------------------------------------------
(* start, and what restart and upgrade share with it.                      *)

Counted == [past EXCEPT !.commands = @ + 1]

BeginStart == Begin("start", "probe") /\ past' = [Counted EXCEPT !.stopped = FALSE]
BeginRestart == Begin("restart", "stop") /\ past' = [Counted EXCEPT !.stopped = FALSE]
BeginStop == Begin("stop", "stop") /\ past' = Counted

\* start_locked: a daemon that answers is left alone.
Start ==
  /\ CliAt("probe")
  /\ (Running /\ End) \/ Goto("bootout")
  /\ UNCHANGED <<launchd, daemon, config, past>>

StartBootout ==
  /\ CliAt("bootout")
  /\ (Bootout /\ Goto("wait")) \/ (BootoutFails /\ End)
  /\ past' = [past EXCEPT !.wanted = FALSE]
  /\ UNCHANGED config

\* wait_for_daemon_exit, and resolve_ego_browser.
WaitForExit ==
  /\ CliAt("wait")
  /\ (LockFree /\ Goto("load")) \/ End
  /\ UNCHANGED <<launchd, daemon, config, past>>

\* clear_stop_intent.
LoadForClear ==
  /\ CliAt("load")
  /\ cli' = [cli EXCEPT !.pc = "clear", !.snap = config]
  /\ UNCHANGED <<releaseVars, launchd, daemon, config, past>>

ClearStopIntent ==
  /\ CliAt("clear")
  /\ \E outcome \in SaveOutcome :
       /\ CommandSave([cli.snap EXCEPT !.exists = TRUE, !.stopping = FALSE], outcome)
       /\ IF outcome = "ok" THEN Goto("install") ELSE End
  /\ UNCHANGED <<launchd, daemon>>

\* install: it may fail after the rename.
Install ==
  /\ CliAt("install")
  /\ \E written \in BOOLEAN :
       launchd' = [launchd EXCEPT !.plist = @ \/ written] /\ (End \/ (written /\ Goto("bootstrap")))
  /\ UNCHANGED <<daemon, config, past>>

\* start_with: a bootstrap that fails, as it does when the job is loaded, is tried
\* again after a bootout.
FirstBootstrap ==
  /\ CliAt("bootstrap")
  /\ (Bootstrap /\ Goto("poll")) \/ (UNCHANGED launchd /\ Goto("rebootout"))
  /\ UNCHANGED <<daemon, config, past>>

SecondBootout ==
  /\ CliAt("rebootout")
  /\ (launchd.loaded /\ Unload /\ Goto("rebootstrap")) \/ (UNCHANGED <<launchd, daemon>> /\ End)
  /\ UNCHANGED <<config, past>>

SecondBootstrap ==
  /\ CliAt("rebootstrap")
  /\ (Bootstrap /\ Goto("poll")) \/ (UNCHANGED launchd /\ End)
  /\ UNCHANGED <<daemon, config, past>>

PollRunning ==
  /\ CliAt("poll")
  /\ \/ Running /\ End /\ past' = [past EXCEPT !.wanted = ~cli.failed]
     \/ Goto("undo") /\ UNCHANGED past
  /\ UNCHANGED <<launchd, daemon, config>>

UndoStart ==
  /\ CliAt("undo")
  /\ Bootout \/ BootoutFails
  /\ End
  /\ UNCHANGED <<config, past>>

-----------------------------------------------------------------------------
(* stop_locked_with_expectation, and what each command makes of its result. *)

\* Err(Operational): an upgrade looks whether the daemon is gone, to start it again.
Operational ==
  IF cli.cmd = "upgrade"
  THEN /\ cli' = [cli EXCEPT !.pc = "observe", !.failed = TRUE, !.snap = NoConfig,
                             !.was = FALSE, !.reply = "none"]
       /\ UNCHANGED releaseVars
  ELSE End

\* Mutant: an upgrade goes on although the cleanup is not confirmed.
StopReturnsUnconfirmed(was, confirmed) ==
  /\ past' = [past EXCEPT !.stopped = cli.cmd = "stop"]
  /\ IF cli.cmd = "stop" THEN End
     ELSE /\ cli' = [cli EXCEPT !.pc = IF cli.cmd = "restart" THEN "wait" ELSE "commit",
                                !.was = FALSE, !.reply = "none"]
          /\ UNCHANGED releaseVars

\* Ok((was, confirmed)): restart and upgrade go on only after a confirmed cleanup.
StopReturns(was, confirmed) ==
  /\ past' = [past EXCEPT !.stopped = cli.cmd = "stop"]
  /\ IF cli.cmd = "stop" \/ (was /\ ~confirmed) THEN End
     ELSE /\ cli' = [cli EXCEPT !.pc = IF cli.cmd = "restart" THEN "wait" ELSE "commit",
                                !.was = FALSE, !.reply = "none"]
          /\ UNCHANGED releaseVars

\* The probes; nobody answering, launchctl print.
StopProbe ==
  /\ CliAt("stop")
  /\ past' = [past EXCEPT !.wanted = FALSE]
  /\ \/ /\ \E was \in {launchd.loaded, launchd.loaded \/ Mismatch} :
             cli' = [cli EXCEPT !.pc = "persistLoad", !.was = was]
        /\ UNCHANGED releaseVars
     \/ Running /\ Goto("shutdown")
     \/ Operational
  /\ UNCHANGED <<launchd, daemon, config>>

\* persist_stop_intent: without a configuration there is nothing to persist.
LoadForPersist ==
  /\ CliAt("persistLoad")
  /\ cli' = [cli EXCEPT !.pc = IF config.exists THEN "persist" ELSE "stopBootout",
                        !.snap = config]
  /\ UNCHANGED <<releaseVars, launchd, daemon, config, past>>

PersistStopIntent ==
  /\ CliAt("persist")
  /\ \E outcome \in SaveOutcome :
       /\ CommandSave([cli.snap EXCEPT !.stopping = TRUE], outcome)
       /\ IF outcome = "ok" THEN Goto("stopBootout") ELSE Operational
  /\ UNCHANGED <<launchd, daemon>>

\* stop_unresponsive: an upgrade needs a cleanup that nobody can confirm any more.
StopBootout ==
  /\ CliAt("stopBootout")
  /\ \/ /\ Bootout
        /\ IF cli.cmd = "upgrade" THEN End /\ UNCHANGED past ELSE StopReturns(cli.was, ~cli.was)
     \/ BootoutFails /\ Operational /\ UNCHANGED past
  /\ UNCHANGED config

RequestShutdown ==
  /\ CliAt("shutdown")
  /\ \/ /\ Running
        /\ cli' = [cli EXCEPT !.pc = "reply", !.reply = "sent"]
        /\ UNCHANGED releaseVars
     \/ Operational
  /\ UNCHANGED <<launchd, daemon, config, past>>

\* The answer is written by a thread the process does not wait for: it may be lost.
ShutdownReply ==
  /\ CliAt("reply")
  /\ \/ cli.reply \in {"confirmed", "unconfirmed"} /\ Goto("lastBootout")
     \/ Operational
  /\ UNCHANGED <<launchd, daemon, config, past>>

\* The daemon no longer answers as one that runs, or goes on doing so.
LastBootout ==
  /\ CliAt("lastBootout")
  /\ LET confirmed == cli.reply = "confirmed"
     IN \/ Bootout /\ StopReturns(TRUE, confirmed)
        \/ /\ UNCHANGED <<launchd, daemon, past>>
           /\ IF confirmed THEN Operational ELSE End
  /\ UNCHANGED config

-----------------------------------------------------------------------------
(* upgrade, once its file is prepared.                                     *)

BeginUpgrade(p) ==
  /\ Idly /\ At(p, "prepared") /\ proc[p].kind = "upgrade"
  /\ cli' = [NoCommand EXCEPT !.cmd = "upgrade", !.pc = "classify", !.proc = p,
                              !.version = proc[p].exe]
  /\ UNCHANGED <<releaseVars, launchd, daemon, config, past>>

\* classify_upgrade_daemon_state: running, stopped or unknown.
Classify ==
  /\ CliAt("classify")
  /\ \/ /\ Running \/ Mismatch
        /\ cli' = [cli EXCEPT !.pc = "stop", !.ran = TRUE] /\ UNCHANGED releaseVars
        /\ past' = [past EXCEPT !.stopped = FALSE]
     \/ ~launchd.loaded /\ LockFree /\ Goto("commit") /\ UNCHANGED past
     \/ End /\ UNCHANGED past
  /\ UNCHANGED <<launchd, daemon, config>>

Observe ==
  /\ CliAt("observe")
  /\ (LockFree /\ Goto("wait")) \/ End
  /\ UNCHANGED <<launchd, daemon, config, past>>

Commit ==
  /\ CliAt("commit")
  /\ BeginCommit(cli.proc)
  /\ UNCHANGED lifecycleVars

\* Committed or not, a daemon that ran is started again.
AfterCommit ==
  /\ CliAt("commit") /\ At(cli.proc, "leaving")
  /\ IF cli.ran
     THEN /\ cli' = [cli EXCEPT !.pc = "wait", !.failed = proc[cli.proc].outcome # "upgraded"]
          /\ UNCHANGED releaseVars
     ELSE End
  /\ UNCHANGED <<launchd, daemon, config, past>>

-----------------------------------------------------------------------------
(* The daemon.                                                             *)

Became(d, new) == daemon' = [daemon EXCEPT ![d] = new]
DaemonGoes(d, pc) == Became(d, [daemon[d] EXCEPT !.pc = pc])

\* launchd runs what the plist names, when it is due and the last process is gone.
Spawn(d) ==
  /\ launchd.loaded /\ launchd.due /\ launchd.job = NoSlot /\ target # NoFile
  /\ daemon[d].pc = "none" /\ d = CHOOSE e \in Slot : daemon[e].pc = "none"
  /\ launchd' = [launchd EXCEPT !.due = FALSE, !.job = d]
  /\ Became(d, [NoDaemon EXCEPT !.pc = "starting", !.version = target.version])
  /\ UNCHANGED <<releaseVars, cli, config, past>>

Answer(reply) == IF cli.reply = "taken" THEN [cli EXCEPT !.reply = reply] ELSE cli

\* Mutant: launchd does not restart what it should.
EndsForGood(d, success) ==
  /\ Became(d, NoDaemon)
  /\ launchd' = IF launchd.job = d THEN [launchd EXCEPT !.job = NoSlot] ELSE launchd
  /\ cli' = IF cli.reply \in {"sent", "taken"} THEN [cli EXCEPT !.reply = "error"] ELSE cli

\* What a process leaves when it is gone, and whether launchd (KeepAlive, unless the
\* exit was successful) spawns another.
Ends(d, success) ==
  /\ Became(d, NoDaemon)
  /\ launchd' = IF launchd.job = d THEN [launchd EXCEPT !.job = NoSlot, !.due = ~success]
                ELSE launchd
  /\ cli' = IF cli.reply \in {"sent", "taken"} THEN [cli EXCEPT !.reply = "error"] ELSE cli

\* An error of a start is of a kind that run_daemon turns into a successful exit, after
\* which launchd leaves the daemon down, or of another.
StartErrs(d, after) ==
  \E success \in BOOLEAN :
    /\ Ends(d, success)
    /\ past' = [after EXCEPT !.wanted = @ /\ ~(success /\ launchd.job = d)]

\* Mutant: the stop intent is not looked at.
StopsAtOnceNever == FALSE

\* run ends at once when it is meant to be stopped.
StopsAtOnce == config.stopping

\* A lock it cannot have, be it a command's probe that has it, is a success as well. An
\* upgrade tries it only when no job is loaded.
LockTaken ==
  \/ ~LockFree \/ cli.pc \in {"wait", "observe"}
  \/ CliAt("classify") /\ ~launchd.loaded

Open(d) ==
  /\ daemon[d].pc = "starting"
  /\ \/ LockTaken /\ Ends(d, TRUE)
     \/ LockFree /\ StopsAtOnce /\ Ends(d, TRUE)
     \/ /\ LockFree /\ ~StopsAtOnce
        /\ Became(d, [daemon[d] EXCEPT !.pc = "loaded",
                                       !.memory = [config EXCEPT !.exists = TRUE]])
        /\ UNCHANGED <<launchd, cli>>
  /\ UNCHANGED <<releaseVars, config, past>>

Bind(d) ==
  /\ daemon[d].pc = "loaded"
  /\ DaemonGoes(d, "bound")
  /\ UNCHANGED <<releaseVars, cli, launchd, config, past>>

\* reconcile_startup saves what was loaded; failing that, the start fails.
Reconcile(d) ==
  /\ daemon[d].pc = "bound"
  /\ \E outcome \in SaveOutcome :
       /\ config' = IF outcome = "before" THEN config ELSE daemon[d].memory
       /\ IF outcome = "ok" THEN DaemonGoes(d, "running") /\ UNCHANGED <<launchd, cli, past>>
          ELSE StartErrs(d, Faulty)
  /\ UNCHANGED releaseVars

\* A client's change is saved, then acknowledged.
Change(d) ==
  /\ daemon[d].pc = "running" /\ past.changes < MaxChanges
  /\ LET new == [daemon[d].memory EXCEPT !.remotes = past.changes + 1]
         counted == [past EXCEPT !.changes = @ + 1]
     IN \E outcome \in SaveOutcome :
          /\ config' = IF outcome = "before" THEN config ELSE new
          /\ past' = IF outcome = "ok" THEN [counted EXCEPT !.acked = counted.changes]
                     ELSE [counted EXCEPT !.faults = @ + 1, !.spoiled = TRUE]
          /\ Became(d, [daemon[d] EXCEPT !.memory = IF outcome = "before" THEN @ ELSE new])
  /\ UNCHANGED <<releaseVars, cli, launchd>>

\* Mutant: nothing is saved when the file has the intent already.
IntentSaveSkipped(d, outcome) ==
  LET new == [daemon[d].memory EXCEPT !.stopping = TRUE]
  IN IF config.stopping THEN outcome = "ok" /\ UNCHANGED <<config, past>> ELSE Save(new, outcome)

\* begin_shutdown commits the stop intent.
IntentSave(d, outcome) == Save([daemon[d].memory EXCEPT !.stopping = TRUE], outcome)

\* It stops, saved or not: with workers to wait for, or none.
BeginShutdown(d, saved, workers) ==
  /\ IntentSave(d, saved)
  /\ Became(d, [daemon[d] EXCEPT !.pc = IF workers THEN "stopping" ELSE "exiting",
                                 !.memory.stopping = saved # "before"])
  /\ UNCHANGED <<releaseVars, launchd>>

ShutdownRequested(d) ==
  /\ daemon[d].pc = "running" /\ cli.reply = "sent"
  /\ \E saved \in SaveOutcome, workers \in BOOLEAN :
       /\ BeginShutdown(d, saved, workers)
       /\ cli' = [cli EXCEPT !.reply = IF saved # "ok" THEN "error"
                                       ELSE IF workers THEN "taken" ELSE "confirmed"]

SignalSeen(d) ==
  /\ daemon[d].pc = "running" /\ daemon[d].term
  /\ \E saved \in SaveOutcome, workers \in BOOLEAN : BeginShutdown(d, saved, workers)
  /\ UNCHANGED cli

\* DaemonStopping.
ShutdownRefused(d) ==
  /\ daemon[d].pc = "stopping" /\ cli.reply = "sent"
  /\ cli' = [cli EXCEPT !.reply = "error"]
  /\ UNCHANGED <<releaseVars, launchd, daemon, config, past>>

\* STOP_DEADLINE.
ShutdownExpires(d) ==
  /\ daemon[d].pc = "stopping" /\ cli.reply = "taken"
  /\ cli' = Answer("unconfirmed")
  /\ UNCHANGED <<releaseVars, launchd, daemon, config, past>>

WorkersStopped(d) ==
  /\ daemon[d].pc = "stopping"
  /\ DaemonGoes(d, "exiting") /\ cli' = Answer("confirmed")
  /\ UNCHANGED <<releaseVars, launchd, config, past>>

\* The loop saves its memory on worker events, also while it stops.
WorkerEventSaved(d) ==
  /\ daemon[d].pc \in {"running", "stopping"} /\ config # daemon[d].memory
  /\ \E outcome \in SaveOutcome : Save(daemon[d].memory, outcome)
  /\ UNCHANGED <<releaseVars, cli, launchd, daemon>>

Exit(d) ==
  /\ daemon[d].pc = "exiting"
  /\ Ends(d, TRUE)
  /\ UNCHANGED <<releaseVars, config, past>>

\* A listener that fails stops the daemon, and nobody starts it again.
ListenerFails(d) ==
  /\ daemon[d].pc = "running" /\ past.faults < MaxFaults
  /\ DaemonGoes(d, "stopping")
  /\ past' = [Faulty EXCEPT !.wanted = FALSE]
  /\ UNCHANGED <<releaseVars, cli, launchd, config>>

\* The file lacks a change it acknowledged, or a stop intent it is about to be given.
Needed(d) ==
  HoldsLock(d) /\ \/ config.remotes # daemon[d].memory.remotes
                  \/ ~config.stopping /\ (daemon[d].term \/ cli.cmd # "none")

Bereft(d) == [past EXCEPT !.faults = @ + 1, !.spoiled = @ \/ Needed(d)]

\* The browser, the directory, the lock, the file, the signal handlers or the socket
\* fail the start.
StartFails(d) ==
  /\ daemon[d].pc \in {"starting", "loaded"} /\ past.faults < MaxFaults
  /\ StartErrs(d, Bereft(d))
  /\ UNCHANGED <<releaseVars, config>>

DaemonKilled(d) ==
  /\ daemon[d].pc # "none" /\ past.faults < MaxFaults
  /\ Ends(d, FALSE)
  /\ past' = Bereft(d)
  /\ UNCHANGED <<releaseVars, config>>

-----------------------------------------------------------------------------
(* The session, and the whole.                                             *)

\* Logging in loads what is in LaunchAgents.
Login ==
  /\ ~launchd.session
  /\ launchd' = [launchd EXCEPT !.session = TRUE, !.loaded = @ \/ launchd.plist,
                                !.due = launchd.plist]
  /\ UNCHANGED <<releaseVars, cli, daemon, config, past>>

\* Logging out ends the job and the user's commands.
Logout ==
  /\ platform = "mac" /\ launchd.session
  /\ SessionEnds
  /\ launchd' = [launchd EXCEPT !.session = FALSE, !.loaded = FALSE, !.due = FALSE,
                                !.job = NoSlot]
  /\ daemon' = [d \in Slot |-> IF d = launchd.job THEN Terminated(d) ELSE daemon[d]]
  /\ cli' = NoCommand
  /\ past' = [past EXCEPT !.wanted = FALSE]
  /\ UNCHANGED config

PowerFails ==
  /\ PowerLoss
  /\ cli' = NoCommand
  /\ launchd' = [launchd EXCEPT !.session = platform = "linux", !.loaded = FALSE, !.due = FALSE,
                                !.job = NoSlot]
  /\ daemon' = [d \in Slot |-> NoDaemon]
  /\ past' = [past EXCEPT !.spoiled = @ \/ \E d \in Slot : Needed(d)]
  /\ UNCHANGED config

\* The steps of a process that replaces the binary, besides an upgrade's commit on
\* macOS, which begins with the command's consent.
ReleaseStep(p) ==
  /\ \/ launchd.session /\ Prepares(p)
     \/ ~(At(p, "prepared") /\ ~Linux /\ proc[p].kind = "upgrade") /\ BeginCommit(p)
     \/ Commits(p)
     \/ cli.proc # p /\ Leave(p)
  /\ UNCHANGED lifecycleVars

PublishRelease == Publish /\ UNCHANGED lifecycleVars

\* A command is killed.
Interrupt ==
  /\ cli.cmd # "none"
  /\ cli' = NoCommand
  /\ IF cli.cmd = "upgrade" THEN Crash(cli.proc) ELSE UNCHANGED releaseVars
  /\ UNCHANGED <<launchd, daemon, config, past>>

InterruptProcess(p) ==
  /\ cli.proc # p /\ Crash(p)
  /\ UNCHANGED lifecycleVars

CommandStep ==
  \/ Start \/ StartBootout \/ WaitForExit \/ LoadForClear \/ ClearStopIntent \/ Install
  \/ FirstBootstrap \/ SecondBootout \/ SecondBootstrap \/ PollRunning \/ UndoStart
  \/ StopProbe \/ LoadForPersist \/ PersistStopIntent \/ StopBootout \/ RequestShutdown
  \/ ShutdownReply \/ LastBootout \/ Classify \/ Observe \/ Commit \/ AfterCommit

Starts(d) == Spawn(d) \/ Open(d) \/ Bind(d) \/ Reconcile(d)
DaemonStep(d) ==
  \/ Starts(d) \/ Change(d) \/ ShutdownRequested(d) \/ SignalSeen(d) \/ ShutdownRefused(d)
  \/ ShutdownExpires(d)
  \/ WorkersStopped(d) \/ WorkerEventSaved(d) \/ Exit(d)
  \/ StartFails(d) \/ ListenerFails(d) \/ DaemonKilled(d)

Next ==
  \/ BeginStart \/ BeginStop \/ BeginRestart \/ CommandStep \/ Interrupt
  \/ \E d \in Slot : DaemonStep(d)
  \/ \E p \in Proc : ReleaseStep(p) \/ BeginUpgrade(p) \/ InterruptProcess(p)
  \/ PublishRelease \/ Login \/ Logout \/ PowerFails

Spec == Init /\ [][Next]_vars

\* launchd loads at login and spawns what is due, and a daemon that is spawned gets on.
FairSpec ==
  /\ Spec
  /\ WF_vars(Login)
  /\ WF_vars(\E d \in Slot : Starts(d))

-----------------------------------------------------------------------------
(* Properties.                                                             *)

Daemon == [pc : DaemonState, version : Nat, memory : Contents, term : BOOLEAN]

\* Every variable of the commands, launchd and the daemon has its type.
LifecycleTypeOK ==
  /\ ReleaseTypeOK
  /\ cli \in [cmd : Command, pc : CommandState, proc : Proc \cup {NoProc}, version : Nat,
              ran : BOOLEAN, was : BOOLEAN, failed : BOOLEAN, snap : Contents, reply : Reply]
  /\ launchd \in [session : BOOLEAN, plist : BOOLEAN, loaded : BOOLEAN, due : BOOLEAN,
                  job : Slot \cup {NoSlot}]
  /\ daemon \in [Slot -> Daemon]
  /\ config \in Contents
  /\ past \in [spoiled : BOOLEAN, wanted : BOOLEAN, stopped : BOOLEAN, acked : Nat,
               changes : Nat, commands : Nat, faults : Nat]

\* At most one daemon process is past daemon.lock, whatever bootstrap retries and logins
\* spawn.
OneDaemon == \A d, e \in Slot : HoldsLock(d) /\ HoldsLock(e) => d = e

\* A change that was acknowledged is never lost, although commands write the whole file
\* from what they loaded a moment ago: the daemon holds it, and the file when none does.
AckedSurvives ==
  ~past.spoiled =>
    IF LockFree THEN config.remotes = past.acked
    ELSE \A d \in Slot : HoldsLock(d) => daemon[d].memory.remotes = past.acked

\* What stop reported to be stopped stays stopped until somebody starts it, or upgrades a
\* daemon that still answers: no daemon serves, whichever way it was stopped, whoever
\* upgrades or logs in.
StopSticks == past.stopped /\ ~past.spoiled => \A d \in Slot : ~Serving(d)

\* An upgrade replaces the binary of no daemon that could still serve, or have workers.
CommitWhenStopped ==
  [][\A p \in Proc :
       (platform = "mac" /\ target' # target /\ outages' = outages /\ target'.by = p
          /\ proc[p].kind = "upgrade")
         => \A d \in Slot : daemon[d].pc \in {"none", "exiting"}]_vars

\* What start, restart or upgrade reported to be started serves again after it was killed,
\* after the power failed, unless that took the binary of a first installation with it,
\* and after a start that failed, unless with an error that run_daemon takes for one of
\* initialization: it then exits with success, and launchd leaves it down.
KeepsServing ==
  (past.wanted /\ target # NoFile)
    ~> ((\E d \in Slot : Serving(d)) \/ ~past.wanted \/ target = NoFile)

=============================================================================
