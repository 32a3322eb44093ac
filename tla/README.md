# Formal models of ego-lite-bridge

TLA+ models of the concurrent core of ego-lite-bridge, model-checked with TLC and, for
the inbound scheduler, the writer, the executor, the broker, its ownership, the daemon's
actor, the replacement of the binary and the lifecycle commands, proved with TLAPS. Line
numbers are those of `src/src/`; file names without a directory are in it.

## The system

ego-lite-bridge lets a program on a Linux endpoint run the `ego-browser` of a Mac.

    ego-browser shim ──unix socket── broker ══ SSH channel ══ executor ──pipes── ego-browser child
      (Linux, one per command)    (Linux, one per Mac)     (Mac, one per remote)
                                                                  │ remote worker thread
    ego-lite-bridge CLI ───────────── control.sock ────────── daemon actor ── config.json
          │                                                       │
          └── lifecycle.lock, launchd, the installed binary ──────┘

| Component | State | Operations | Talks to |
|---|---|---|---|
| Inbound scheduler (`ego_bridge.rs` 555–1051) | control lane; per request: accepted and retained frames, overload flags, counters; ready and overload lists; transport error | enqueue, pop with a gate per request, discard input | reader thread → main loop, at both ends of the channel |
| Outbound writer (1054–1544) | control lane, per-request lanes, ready list, producers, stopping/failure, payload budget | control, data, reserved, terminal (committed), clone, drop, shutdown | any thread → writer thread; commit answers back |
| Mac executor (3290–3833, 4046–4233) | routes with generation, cancelled, retiring, input channel and count; completion channel | Open, Stdin, StdinEof, Cancel, Overload, probe, shutdown | scheduler, writer, a worker and a child per invocation |
| Linux broker, requests (1894–2476) | routes with response channel, local error, cancel_sent, terminal_seen | admit, route output, overload, terminal, completion, teardown | handler and uploader thread per client |
| Shim (2495–2863), screenshots (3889–4025) | the stream of one command, the screenshot being received | run, receive a file, end | broker; executor |
| Linux broker, ownership (1684–1891, 1909–2240; `ipc.rs` 444–610) | acquisition lock, owner.sock, broker.sock, claim with nonce and deadline | acquire, claim, probe, acknowledge, grant, leave | brokers of other Macs, its own Mac |
| Remote worker (2902–3295) | phase of one SSH connection, cancelled/forced, approval slot | connect, identify, wait for approval, ready, reconnect, stop | daemon actor by events |
| Daemon actor (`daemon.rs`), configuration (`config.rs`) | config in memory and on disk, slot and operation per remote, stopping | add, retry, remove, shutdown, worker events, deadlines, reconcile at start | control.sock, remote workers |
| Lifecycle commands (`main.rs` 54–330, 829–1240), launchd (`launchd.rs`), daemon process (`daemon.rs` 81–108, 267–440, 736–765, 1243–1277, 1414–1461) | lifecycle.lock, daemon.lock, the stop intent in config.json, the loaded job | start, stop, restart, upgrade | control.sock, launchd, config.json |
| Release and upgrade (`release.rs`) | the installed binary and its ego-browser link, upgrade lock, staged file | prepare, commit, roll back, recover at next run | lifecycle commands, installer |
| Input prelude, process group, endpoint identity, control protocol, framing, managed SSH | see "Not modelled" | | |

What is hard: every arrow is a thread or process boundary. The same request ID can be
used again while frames of its last use are still queued; Cancel, overload and
transport loss travel on lanes of their own and overtake data; a commit waits for
another thread; ownership is decided between processes by files, locks and a
deadline; the daemon's memory, disk and worker threads may disagree after a
failed save or a crash; and commands, launchd and the daemon start, stop and replace
one another while a logout or a power failure may end any of them. The list `hazards`
in `PROJECT.json` names each such place at its line, with the properties that cover it or
the reason none does.

## Modules

| Module | Models |
|---|---|
| `InboundQueue` | `InboundScheduler` and `InboundState`: one operator per critical section, used by the next two |
| `InboundScheduler` | that queue between its reader and a main loop, at either end of the channel |
| `Executor` | `serve_requests`, `execute_request`, `forward_input`, `wait_for_child` over the real `InboundQueue` |
| `CommitChannel` | what the outbound writer promises (abstract) |
| `ChannelWriter` | the writer itself; `Channel == INSTANCE CommitChannel WITH ...` |
| `ClientStream` | what the broker promises the client of a command (abstract) |
| `BrokerRoute` | `broker_route` (requests), `handle_broker_client`, `broker_upload` |
| `Shim` | `BrokerRoute` composed with `run_shim_stream` and `ScreenshotReceiver`; holds the refinement of `ClientStream` |
| `OwnerArbitration` | `run_broker`, `acquire_broker_socket`, the claims of `broker_route`, the listeners' bind and drop |
| `RemoteWorker` | the worker thread of a remote, extended by |
| `DaemonActor` | `DaemonActor` with config in memory and on disk, crash and restart |
| `Release` | `release.rs`: upgrades and the installer replacing one binary, with crashes and power failures |
| `Lifecycle` | `Release` composed with start, stop, restart, upgrade, launchd and the daemon process |
| `MC*` | the constants of TLC's instances |
| `*Proofs` | the theorems about the module they are named after (`Release`'s are with `Lifecycle`'s, `Shim`'s with `BrokerRoute`'s) |

An action is a handler, or the part of one between two points where another thread
can see its effects: `HandleOverload` and `DropResponses` of `BrokerRoute` are two
actions because the handler thread may read the error between them; `TakeInput`
and `CountInput` of `Executor` because `pending_input` is lowered after the frame
is taken. A critical section under a mutex is one step. `PROJECT.json` maps each
definition to its lines.

### Correspondence, by component

*Inbound scheduler.* `mode[id]` folds the map entry and its flags `overloaded`,
`overload_delivered`: absent, normal, overloaded (to be announced), announced. The
pop of the code is one function with priorities; here it is an action per priority
(`PopControl`, `PopCancel`, `PopOverload`, `PopReady`, `PopTransport`), each guarded by
the failure of the ones before. A frame is its kind and its number in its sender's
stream, so loss and order can be told; a payload frame weighs one unit, the largest
payload. Refusals of the budget shared by several channels are
a free choice of the overflow action for frames with a payload. The gate
(`request_ready`) is a free choice in `InboundScheduler` and the real one in
`Executor`.

*Executor.* `loop.pc` is the place where the main loop blocks: polling, waiting for a
retiring worker, waiting for a commit, discarding input after a Cancel, tearing down.
A route holds what its thread, its input thread and its child share. Output is
abstracted to the one effect it has here, saturation. The refusal of an oversized
Stdin (3478–3489) and of a frame that is no request's are left out: `broker_upload`
validates both before it sends. Screenshots and argv are left out. The loop and a worker that
both send a terminal of one request collide in the writer's lane, which refuses the second
(1207) and so ends the connection (`Collide`); this takes a third invocation under the ID, so it
is in the theorems and not in the runs.

*Outbound writer.* A handle is the owner or a clone; a caller that commits waits. The
time a write takes is one interval (`writer.pc`); it ends well or fails. The shutdown
deadline dooms the frame being written. A refused call gives its reservation back.

*Broker, requests.* The environment is the executor as the scheduler presents it:
output, an overload, one terminal. Client and uploader are one invocation's;
invocations share only the loop and the completion channel. The teardown drops the response
senders of all routes in one step, where the code goes route by route (2302–2307) and joins
each handler in turn; a handler's steps touch its own invocation only. A message is its kind and
a number, its place in the stream, or the size a screenshot declares; `Stdout` stands
for Stderr too. `given` is what the client was written.

*Shim.* It reads `given` from the other end of the socket, whatever is left there when
the broker lets go. A screenshot is received into a `.part` file that is renamed when
it has the declared size. Repeating a signal is ending with the code of the command.
The root directory of the screenshots, which stays after an error, is left out. Request
IDs are random, so an ID is used again only when its shim is over.

*Ownership.* A socket file is the broker that bound it. A broker process lives once.
The four steps of the two listeners' drop (check, unlink, for each socket) are
separate actions and interleave with everything; a deadline may pass at any time;
an acknowledgement is received by the reader thread, marked in time or late, and
popped later. A claim whose claimant has left is dropped, and one that finds the queue of
claims full is answered with Retry unread (`TurnAway`); the model allows this as soon as
another claim waits.

*Daemon.* `config` is what the actor holds, `disk` the saved file, `op` the operation of
a slot with its stage (`due`) instead of instants, `worker` the thread in the slot,
`detached` a thread that no slot tracks. `Commit` and `SaveCurrent` end in one of
three outcomes: saved, refused before the rename, or renamed but reported failed.
`told` (what the user asked or was told last) and `cleaning` are history variables: `cleaning`
says of a remote that the last start found it interrupted (`tombstone`), and whether its worker
has owned the endpoint on record since (`claimed`) or the user removed it since (`asked`).
Abstractions: error texts, timestamps, and the numbers of a status (Load) are left
out; at most one worker cannot be spawned per start. A spawn that fails, and a save after it
that fails too, are a fault each, so that both happen only where two faults are allowed: the
run allows one, the theorems any number. A crash between two saves of one
handler shows only as a failing second save; the stop flag of SIGTERM is folded into
cancel; the blocking send of an approval is a guard. The temporary file, rename and
directory sync of a save are one step.

*Release.* A file is the process that made it, its version, its place among the renames
and whether it was complete and synced when it was renamed. `target` is what the name
leads to, `onDisk` what it would lead to after a power failure; a directory sync makes
them equal. `lock` is the non-blocking flock. Every call of a commit may fail, a process
may be killed between any two, and `outcome` is what it reported: done, rolled back,
or durability unknown.

*Lifecycle.* The commands of one user wait for each other at lifecycle.lock, so one
command (`cli`, with its place `pc`) is past it at a time. A probe of control.sock may
time out whatever the daemon does. launchd is modelled from the plist that
`launchd.rs` writes: spawn at load, spawn again after an exit that was no success. A
daemon process is starting, loaded (holds daemon.lock and a configuration), bound,
running, stopping or exiting; what it does with its remotes is `DaemonActor`'s, here
they are the number of the last change. A start may fail before it reconciles (`StartFails`) or at the save of its
reconciliation, with an error that `run_daemon` takes for one of initialization and turns into an
exit with success, or with another (`StartErrs`). `past` holds history: what was acknowledged,
what was reported started or stopped, and whether a fault broke the premise of a
property (`spoiled`). The configuration is durable once saved: what an unsynced directory
loses in a power failure is modelled for the binary only.

## Runs

| Run | Instance | Shows |
|---|---|---|
| `InboundExecutor` | 3 IDs of 2 allowed, each used twice, 5 frames (853 000 states) | `QueuesExact`, `Bounded`, `NoSilentGap` |
| `ExecutorSafety` | 1 ID used twice, 4 frames, 1 per request, a probe (1.6 million) | `InputNeverBlocks`, `NoStaleInput`, `CompletionMatches`, `NoInputHole` |
| `ExecutorLive` | 1 ID, 4 frames (251 000) | `ShutdownStops`, `LossEndsReadingChildren`, `OpenAnswered` |
| `Writer` | 2 requests, owner and a clone, 2 frames per lane (370 000) | `QueuesExact`, `PayloadExact`, `TakesTurns`, `Implements`, `WaitsEnd` |
| `Broker` | a command and its shim, 3 outputs, response channel of 2, screenshots of at most 1 chunk (251 000) | `RoutesExact`, `ShimTrue`, `ToldWhy`, `StreamKept`, `GoneIsCancelled`, `TeardownEnds`, `ShimEnds` |
| `Owner` | 3 brokers of 2 Macs (362 000) | `OneBroker`, `SocketsInPlace`, `DecidedByProbe`, `ClaimSettles` |
| `Daemon` | 1 remote whose target moves, 1 fault, 1 restart (196 000) | `AnswersHold`, `ServedWhenSaved`, `TombstoneStays`, `CleanupConfirmed`, `ChangesAnswered`, `ShutdownEnds` |
| `DaemonTwo` | 2 remotes that reach one endpoint (1.2 million) | `ConfigValid` |
| `Lifecycle` | Linux: 2 processes, 3 versions; macOS: an upgrade or installer, 2 versions, 2 daemon processes, a command, a change, a fault; 1 outage (849 000) | `TargetWhole`, `ReportTrue`, `AckedSurvives`, `StopSticks`, `NoDowngrade`, `CommitWhenStopped`, `KeepsServing` |
| `ExecutorCancelOvertakes` | 1 ID, 4 frames | violation of `CancelTakesEffect`, see below |
| `ExecutorLossGated` | 1 ID, 5 frames, under fairness | violation of `LossEndsChildren`, see below |
| `DaemonMoved` | 2 remotes, one of whose targets moves to the other's endpoint, no fault | violation of `ActiveIsServed`, see below |

What the less obvious properties say:

* `Bounded` also says that every counter of the scheduler is what is queued, counted anew.
  The frames retained of an ID are bounded by two more than a queue's limit, not by
  the limit: the executor tests their number only while the next Open is among them (707), so
  an end of input, a Cancel and that Open can still join a full list. From a limit of 4
  on TLC finds lists that are longer than the limit, in 12 steps.
* `NoSilentGap` and `NoInputHole`: input between two frames of an invocation is never
  missing without an Overload.
* `StreamKept`: what the client is given is that of `ClientStream`: the output in order
  without a hole, then at most one terminal, and an Exit only after all of it.
  `ShimTrue`: the shim ends with the code of the command only when it wrote all of its
  output and renamed every screenshot at its size; `ShimEnds`: it ends, and with the
  terminal if the executor answers.
* `AnswersHold`: what the user was told of an add or a remove is what the configuration
  says, over failed saves and restarts. `ServedWhenSaved`: while saves and spawns succeed, an
  active remote that is not in error has a worker, unless its target moved to another's
  endpoint (`Steady`). `CleanupConfirmed`: a record that a start finds interrupted, a tombstone
  or an addition, stays on disk until its worker owned the endpoint on record, or until the
  user removes an interrupted addition after that start; that the user asked for the removal
  of a tombstone before is no excuse. `ChangesAnswered`: every add and remove is answered.
* `ReportTrue`: what an upgrade reported is what the disk holds, also after the power
  failed. `AckedSurvives`: no acknowledged change is lost although commands write the
  file from what they loaded. `StopSticks`: what stop reported stopped stays so.
  `KeepsServing`: what start reported running serves again after it was killed, after the
  power failed, and after a start that failed, unless that start exited with success.

### Why these bounds

The limits of the code (8 routes, 10 frames per request, 80 per channel) are constants;
the instances make them one, two or three so that a handful of frames hits each. An
invocation needs at most an Open, input, its end and a Cancel: four to six frames
reach every overload, retention and reuse. An ID is used twice because a wrong
mixture needs two invocations only. In the scheduler two IDs suffice for the totals
and the round-robin, the third is there for the limit on IDs. The executor's
invocations meet only in the loop, the completion channel and the route limit, which
one ID and a limit of one exercise except for the refusal of a second invocation;
instances with two IDs were too large to finish. With its shim the broker's instance
has one ID used once; that IDs are used again and next to one another is covered by
the theorems on `BrokerRoute` and `Shim`, which hold for any number of either. The broker's side of
the scheduler, whose retention rule differs, is covered by the theorems on it, which
are about both. Three brokers are an incumbent, its
own Mac's reconnection and a foreign claimant. The daemon's run has one fault: that its safety
properties hold with two, a failing save and another while recovering from it, was
checked too, and for any number they are proved. In `Lifecycle` an upgrade is a process of `Release` and a
command at once, so one process and one command give every command next to an
upgrade or installer; a second daemon process is one that launchd spawns while the
first still stops. Three versions on Linux let a second upgrade overtake the first.
An instance without upgrades and with 3 commands, 2 changes, 2 outages and 2 faults
held too; it is too long to be kept as a run. Symmetry is used in runs without
liveness only, and permutes IDs that nothing else distinguishes. `CHECK_DEADLOCK
FALSE` is set in all runs since every system here may stop: the stream ends, the
process exits, the bounds are used up.

### Fairness

* `Executor`: weak fairness of the main loop and of every worker thread, which the
  operating system schedules; the child's own behaviour (reading stdin, exiting) is
  not fair. `LossEndsReadingChildren` and `OpenAnswered` state what they need of it as a premise.
* `ChannelWriter`: the writer thread runs and a write ends by `WRITER_WRITE_TIMEOUT`.
* `BrokerRoute`: the loop drains completions and finishes what it began, handlers and
  uploaders run, a client write ends by `CLIENT_WRITE_TIMEOUT`. What the executor sends
  is not fair; `ShimEnds` takes "the executor answers" as a premise (`Answering`).
* `Shim`: the shim runs, and whoever reads its output goes on reading.
* `OwnerArbitration`: processes run, deadlines pass, an owner's loop takes the claims
  waiting at its socket.
* `DaemonActor`: the actor handles events and deadlines; a killed worker stops. A worker
  that is only cancelled (SIGTERM) need not stop; `ChangesAnswered` takes that as a premise
  (`Obedient`).
* `Lifecycle`: a user that was logged out logs in again (launchd loads the agent with
  the session), launchd spawns what is due, and a daemon that was spawned gets through
  its start. Commands are not fair: a user may interrupt them anywhere.

## Disagreements found

Three are shown by runs.

1. `ExecutorCancelOvertakes`. `pop_inbound_matching` (938) takes a Cancel before its own
   queued Open. `serve_requests` finds no route and drops it (3503–3509); the Open then
   starts a child that nobody cancels. `docs/PRD.md:47`: a cancel terminates the child's
   process group.
2. `ExecutorLossGated`. The transport error is delivered only when all events are taken
   (`inbound_drained`, 923), and events of a request whose input is full are not taken
   (3342). With a child that does not read, the loss is never seen and the child runs on.
   `docs/PRD.md:357`: disconnection must terminate the group. `LossEndsReadingChildren` shows
   that children that read are ended.
3. `DaemonMoved`. `identity` rejects a reconnecting active remote that reached the endpoint of
   another record by way of `fail_pending` (890–919), which is made for adds: it cancels the
   worker and leaves the record's state alone. A cancelled worker reports no failure,
   `worker_stopped` (1150) drops its slot, and the record stays active without a worker;
   retry refuses it since it is not in error (614). `docs/PRD.md:215`: an active record is one
   the daemon keeps connected, reconciling the configuration with the runtime state.

Others were met while modelling; the properties are worded so as not to claim the
contrary, and each is a hazard in `PROJECT.json` or a limit named here.

* `persist_stop_intent` and `clear_stop_intent` (`daemon.rs` 81–108) load and save config.json in
  the command while a daemon whose probe timed out may still save its own;
  `docs/PRD.md:77` and `:389` call the daemon the file's only writer. A daemon that lives on
  writes its whole memory again when it begins to shut down, which repairs the file
  (`AckedSurvives`). One that was killed in between does not, nor does one that ended, on a
  SIGTERM which an earlier command had it sent, between the command's load and its
  save: the change it acknowledged meanwhile is gone. The model reaches both and marks
  them `spoiled` (`Overwrites`, `Needed`).
* An ID reused while its predecessor's tail is retained can lose input past the
  retention limit with no Overload of its own (707). `NoSilentGap`, `NoInputHole`: first
  invocation only.
* Two terminals for one invocation are possible (a refused duplicate Open, an Error after
  an Exit that failed late, an Open that overflows and a later frame that does again); the
  test at 6731 asserts one, on its scenario. The broker takes a second one for the answer
  of the next invocation under the ID, and so may start a third while the Open of the second
  is queued; the three then mix input (found by TLC with `MaxOpens` 3 and `MaxFrames` 5).
  IDs are random, so this needs one drawn again; `NoStaleInput` claims two invocations.
* A failed save in `identity` (926) leaves a reconnecting remote active, without a worker,
  and retry refuses it; a failed save in `remove` (702) leaves memory removing and the
  disk not; a failed save in `ready` (1010) leaves an error over a worker that serves, and
  retry then detaches it. Hence the premise `faults = 0` of `ServedWhenSaved`.
* A remote without a recorded endpoint is spawned without an expected one; if it
  reconnects to an endpoint that no other record holds its record keeps the first (922).
* An add failed by `fail_pending` sets no cleanup deadline (1198): a worker that ignores
  SIGTERM is never forced and the add never answered.
* A daemon that finds daemon.lock taken exits with success, so launchd does not spawn it
  again (`main.rs` 1032 tests that lock; the code asks launchd first for this reason).
  A failed listener also ends in an exit with success, and so does a start that fails with an
  error of certain kinds (`daemon_initialization_error`, `main.rs` 1152), that of the save in
  `reconcile_startup` (406) included: a config.json that cannot be replaced when launchd
  respawns the daemon leaves it down until the next start or login. `KeepsServing` ends its
  claim there.
* A SIGTERM at logout persists the stop intent, so that the daemon launchd spawns at the
  next login exits at once (`daemon.rs` 282). `KeepsServing` ends its claim at a logout.
* stop can report "stopped" while an unloaded daemon of an earlier protocol still
  stops, and start "running" for a daemon that has a SIGTERM pending.

## Proofs

TLAPS proves the following for every value of the constants the named assumptions
allow: any number of IDs, brokers, processes and daemon slots, any limits. The
assumptions (`InboundAssumption`, `SchedulerAssumption`, `ExecutorAssumption`, `WriterAssumption`,
`BrokerAssumption`, `ArbitrationAssumption`, `WorkerAssumption`, `DaemonAssumption`,
`ReleaseAssumption`, `LifecycleAssumption`) say that limits are natural numbers, that those
which bound a queue are positive, that a "no such" value is no value, that a channel has
finitely many clones, and that a configuration has finitely many remotes.

| Module | Theorems |
|---|---|
| `InboundSchedulerProofs` (with `InboundQueueProofs`) | `TypeCorrect`; `QueuesAreExact` (`QueuesExact`) with its halves `ListsExact` and `NoLeak`; `LimitsHold` (`Bounded`); `NoSilentGaps` (`NoSilentGap`); all at both ends of the channel |
| `ExecutorProofs` | `TypeCorrect`; `NeverBlocks` (`InputNeverBlocks`); `CompletionsMatch` (`CompletionMatches`); `NeverStale` (`NoStaleInput`); `NoInputHoles` (`NoInputHole`) |
| `ChannelWriterProofs` | `TypeCorrect`; `QueuesAreExact` (`QueuesExact`); `PayloadIsExact` (`PayloadExact`); `TurnsAreTaken` (`TakesTurns`); `ImplementsChannel` (`Implements`) |
| `BrokerRouteProofs` | of `BrokerRoute`: `BrokerTypeCorrect`; `RoutesAreExact` (`RoutesExact`); `ClientsAreTold` (`ToldWhy`); `StreamsAreWhole`; `StreamsAreKept` (`StreamKept`, the refinement of `ClientStream`) |
| | of `Shim`: `ShimsAreClients`; `ShimIsTrue` (`ShimTrue`) |
| `OwnerArbitrationProofs` | `TypeCorrect`; `OneBrokerAtATime` (`OneBroker`); `SocketsStay` (`SocketsInPlace`); `DecidedByOwnProbe` (`DecidedByProbe`) |
| `DaemonActorProofs` | `ConfigStaysValid` (`ConfigValid`); `AnswersStayTrue` (`AnswersHold`); `ServedWhileSavesSucceed` (`ServedWhenSaved`); `TombstonesStay` (`TombstoneStays`); `CleanupsAreConfirmed` (`CleanupConfirmed`) |
| `LifecycleProofs` | of `Release`: `ReleaseTypeCorrect`; `TargetIsWhole` (`TargetWhole`); `ReportsAreTrue` (`ReportTrue`); `NeverDowngrades` (`NoDowngrade`) |
| | of `Lifecycle`: `LifecycleTypeCorrect`; `OneDaemonAtATime`; `UpgradesWhenStopped` (`CommitWhenStopped`); `AckedChangesSurvive` (`AckedSurvives`); `StopsStick` (`StopSticks`); `ImplementsRelease`, `LifecycleInstallsSafely` |

*The queue.* `InboundQueueProofs` proves once, per critical section, that `QInv` (the
types, the agreement of the ready and overload lists with the map, and that no empty
entry is kept) is preserved; the two compositions cite these lemmas. `QInv` is
inductive by itself: the code updates the lists from the very state it changes.

*The limits.* `Bounded` is the invariant `LimitsInv`: the counters are exact (`Exact`) and
within the limits, and the retained frames of every ID keep the rules of retention
(`RetainedWell`). What a critical section does to an ID's counters is one of a few
recounts, proved once per section in `InboundQueueProofs` from what it takes out of the
queues: an increasing selection of positions. The totals are cardinalities of the sets of places
(ID and position) that are taken: a step changes those of one ID, the total changes
by as much as that ID's share (`PlacesRecount`), and no sum has to be proved by induction.
The bound on the retained frames is an argument on their last elements: past the limit each
frame that joins must be an end of input, a Cancel or an Open that is not there yet
(`Marks`), and an Open comes last. This is where the bound that looks right, the limit, turned
out to be false.

*Gaps.* `NoSilentGap` needs that what is queued is ahead of what was popped (`StreamAhead`),
that a loss not yet reported is behind a pending overload and after all that was accepted
(`LossAhead`), and that an ID never used has no queue (`Unused`). `NoInputHole` adds the way
from the queue to the child: every frame sent after the last one fed is still queued, or is
cut off together with all input after it (`Cut`), for as long as the route takes input. Most steps
feed nothing and lose only what is cut off (`QuietKeeps`); a pop of input, the
first Open and the arrival of a frame are the others.

*The executor.* `InputNeverBlocks` is not inductive: the input thread takes a frame before
it lowers the count. `RouteOK` states the exact relation,
`pending = Len(queue) + Taken`, where `Taken` is one between the two steps, and the gate
gives the bound at the one place a frame is added. `CompletionMatches` needs that no two
completions are of one ID (`CompletedOK`), which holds because a route stays until
its completion is reaped. `IInv` joins these with the queue's invariant and the types;
`NextIInv` takes the actions one by one, the actions of a worker through one lemma on
what a worker's step may change in its route.

`NoStaleInput` rests on the whole path of a frame, from the broker's stream to the child's
channel. `StaleParts` says, of each ID used at most twice: the queued frames stand in the order
sent (`FramesInOrder`); which invocations the stream can hold (`StreamOK`); whose input a route
holds (`RouteFits`); that an answered first invocation has left no Open behind and its route is
retiring, so the second is not refused as its duplicate (`AnsweredOK`); what the loop waits to
register (`AwaitOK`); and that while the first route takes input, nothing of the second is
popped before its Open, which is queued or was dropped with all that follows it (`NextOK`).
Most steps only take something away, which `Calm` says once and `CalmKeeps` shows sufficient;
the lemmas on the discard and the two kinds of pop show that each keeps the order. TLC
checked the invariant first and found that it fails of a third invocation (above).

*The writer.* `IInv` has four parts. `ListsOK`: the list of turns and the terminal flags agree
with the queues, the frames of a request are numbered in order, and whoever is ahead in
the list was not served since the other joined it (`InTurn`, which `TakesTurns` needs).
`Counted`: handles and payload equal what they count; the numbers make each data frame
one element of a set, so that an accepted frame adds one and a popped one takes one
away. `CallersInv`: a caller that waits does so for exactly one frame of the lanes,
the one being written included (`OneFrameEach`), so that a frame's answer goes to a
caller that waits and a failure answers all the others. `Types` leaves out the bounds of
the counters, which follow from the counts (`Bounded`). Each lemma on a step shows with the
invariant which step of `CommitChannel` it is, and `ImplementsChannel` joins them.

*The broker.* That a stream is whole is not inductive, since a piece of output is
in one of four places: sent by the executor, in the route's channel, taken by the
handler, given to the client. `PlaceOK` says that these are consecutive stretches of one
stream, `FlowOK` that a route whose responses were dropped has an error to give, and
`TellOK` that a handler past its last write has given a terminal or lost its client.
They hold of the live routes only (`SoundAt`); of an invocation that is over, `GivenOK` is
what remains. `RoutesExact` rests on `CompletionMatches` of this module, one completion per
handler that ended, and on where the loop is (`LoopOK`). `StreamKept` adds no invariant:
every step leaves the streams alone or does one of three things to one of them
(`StreamMoves`: a piece is sent, a message is given, the command ends), and `PlaceOK` and
`FlowOK` say that what a handler writes is the next message of the stream or an error
after part of the output.

*The shim.* `ShimsAreClients` shows that a shim's steps are a client's that stays or leaves,
so the theorems on the broker hold with shims at its sockets. `ShimTrue` needs what a shim
has while it reads (`ReadingOK`): no terminal among the messages it took, a `.part` file
exactly while a screenshot is received, and as many files as it took FileEnds. By `GivenOK`
an Exit in the socket comes after all of the output and nothing comes after it, also not
later (`ExitIsAll`, `MoreGivenOK`).

*Ownership.* `LockOK`, `OwnerSockOK` and `BrokerSockOK` say who may hold the lock and each socket
file at each place of a broker; `FreeOK`, that the checks of a drop or a start
concern a file nobody else can have bound meanwhile. `OneBroker` and `SocketsInPlace`
follow. `DecidedByProbe` needs the second invariant `PInv`: a claim has one incumbent
(`OneIncumbent`) and is with it once until it is answered (`OnceThere`), and its probe
counts as acknowledged exactly when the control lane holds the acknowledgement, in
time, for that probe (`ProbeOK`). A claim turned away is the last one waiting and a claim taken
the first: neither is the one a probe is under way for.

*The daemon.* None of the five properties is inductive, and all rest on one invariant, `IInv`:
the types, that both configurations are valid, and of each remote `RemoteOK`, which relates
six things that different steps change: its record in memory and on disk, the operation
of its slot, its worker, the events the worker has sent and the actor not yet taken, and
what the user was told. `QueueOK`: nothing follows a Stopped, only it follows a
PermanentFailure. `EndpointOK`: no worker is admitted before its endpoint is on record, so a
Ready always finds one. `SlotOK` and `ToldOK`: which operations a record admits and what an
answer means for both copies. `TombstoneOK`: what the actor holds never takes back a
tombstone on disk, and a remote found interrupted is active nowhere and, until its worker
claimed it or the user removed it, has its record in both copies and no Ready on the way. `ServedOK`, while nothing failed: an active remote's worker goes on, or its
failure is still among the events (`Sane`). A step is of one remote; the others keep
everything but their record on disk, which the save of the whole configuration may bring
up to the one in memory (`Rests`), and `Frame` shows that `RemoteOK` survives this. `TombstoneStays`
holds of each step from a state of `IInv`, so each lemma shows
`Advances`: the invariant afterwards and what the step may do to a tombstone. Whether the
targets share endpoints matters to `ServedOK` only; TLC found its premise `Steady`: the
invariant without it fails by `DaemonMoved`.

*Release.* `Sound` says of each process, by its place, that it holds the lock from fetch to
its end, that before it renames (and after it failed) it has touched neither the binary
nor, having made none, the link, also not as a power failure would leave them
(`TraceOK`), and what each report it may have made means (`OutcomeOK`). `FilesOK` numbers the
renames, so that a disk that lags behind can be told. `NeverDowngrades` follows from `LockOK`:
the version under the lock is no newer than the one fetched under it.

*Lifecycle.* `ImplementsRelease` shows that each step of the whole is one of `Release`'s or
leaves its variables alone, so `Release`'s theorems hold of the whole
(`LifecycleInstallsSafely`). `CommitWhenStopped` needs who holds daemon.lock, what launchd
would still spawn, and that a confirmed stop intent stays in the file until the job
is unloaded (`LInv`).

`AckedSurvives` and `StopSticks` rest on `Kept`, an invariant on top of `LInv`. It says where a
change and an intent may be while nothing failed that alone could set the file right: the
daemon that holds the lock has the last change acknowledged, and the file has it unless that
daemon runs (`HeldOK`); what a command loaded is what the file holds, unless a daemon runs or the
intent is in the file and no daemon gets past its start (`SnapOK`, which makes the command's save of
the whole file harmless); a stop that comes to its bootout has the intent in the file or a daemon
still to be told (`AskedOK`); and after a stop no command starts one, every daemon left was sent
a SIGTERM, and one of them will write the intent if the file lacks it (`StoppedOK`). `TermOK`, that
whoever is no longer launchd's job was sent a SIGTERM, ties the two. A bootout or a logout
only tells daemons (`Told`), so one lemma covers every command's step that saves nothing; the
daemon's steps go by whether the one that holds the lock writes (`HolderWrites`), rests
(`HolderRests`) or is gone (`EndsKept`). TLC checked `Kept` first, with two commands and two
changes (5.5 million states).

Only model-checked: all liveness, that is every property under fairness, whose proof needs
ENABLED, out of the prover's reach. Every invariant and every action property of the
passing runs is proved.

## Not modelled

* Input prelude: a function on the head of a byte stream; a model would repeat it.
* Process group: TERM, KILL and the wait of the group are system calls in sequence under
  `Executor`'s one step that kills a child.
* Endpoint identity: taken as given in `OwnerArbitration`.
* Framing and managed SSH have no state: a frame is one element of a queue everywhere.
* Of the modelled components: status, doctor and the remote subcommands of the command
  line, which change nothing in `Lifecycle`; the encoding of the control protocol; the text
  of the plist; manifests, downloads and the skill archive; names and checks of the
  screenshots' transfer directory; claims of another version on the owner socket.

## Plan

Done, in this order: `InboundQueue` and `InboundScheduler`; `Executor`; `CommitChannel` and
`ChannelWriter`; `BrokerRoute`; `OwnerArbitration`; `RemoteWorker` and `DaemonActor`; `ClientStream` and
`Shim`; `Release` and `Lifecycle`; the proofs above. What is left:

1. `ResourceBudget` shared by the channels of several remotes: what is reserved is held by
   a frame or a process, and all of it is given back.
2. `ProcessGroup`: TERM, KILL and reaping of a child's group under `Executor`'s `KillChild`.
3. `EndpointId`: two brokers that create the identity at once. `InputPrelude` against a
   reference definition on bounded inputs.
