----------------------------- MODULE DaemonActor -----------------------------
(***************************************************************************)
(* The Mac daemon: one actor thread that owns the persistent configuration *)
(* and a worker per remote (RemoteWorker.tla).  It handles control         *)
(* requests and worker events one at a time, and after each one expires    *)
(* the operations whose deadline has passed.  The configuration is saved   *)
(* whole, by rename, and read back when the daemon restarts; a save can    *)
(* fail before the rename, or after it.                                    *)
(*                                                                         *)
(* Deadlines are stages (`due') that time advances; error texts, time      *)
(* stamps and the numbers a status shows are left out.  A crash kills the  *)
(* daemon between any two steps.                                           *)
(***************************************************************************)
EXTENDS RemoteWorker

CONSTANTS
    MaxFaults,   \* bound: failing saves and spawns
    MaxStarts    \* bound: restarts of the daemon

ASSUME DaemonAssumption == MaxFaults \in Nat /\ MaxStarts \in Nat

VARIABLES
    running,   \* the daemon process is up
    config,    \* DaemonActor.config
    disk,      \* config.json
    op,        \* the operation of each slot
    exiting,   \* exit_when_stopped
    stopping,  \* DaemonActor.stopping
    told,      \* history: the last thing the user asked or was told of a remote
    faults, starts

vars == <<workerVars, running, config, disk, op, exiting, stopping, told,
          faults, starts>>

Lifecycles == {"absent", "pending", "active", "removing"}
Observed == {"connecting", "connected", "reconnecting", "error", "removing"}
Record == [lifecycle : Lifecycles, observed : Observed,
           endpoint : Endpoints \cup {NoEndpoint}]
Config == [daemon_stopping : BOOLEAN, remotes : [Ids -> Record]]
Operation == [type : {"none", "add", "remove"}, due : 0..2, waiting : BOOLEAN,
              failed : BOOLEAN, cleanup : BOOLEAN, timedOut : BOOLEAN,
              requireReady : BOOLEAN, ready : BOOLEAN]
Stopping == [on : BOOLEAN, due : 0..2, waiting : BOOLEAN, expired : BOOLEAN]

TypeOK ==
    /\ WorkerTypeOK
    /\ running \in BOOLEAN /\ exiting \in BOOLEAN
    /\ config \in Config /\ disk \in Config
    /\ op \in [Ids -> Operation]
    /\ stopping \in Stopping
    /\ told \in [Ids -> {"new", "adding", "added", "asked", "removed"}]
    /\ faults \in 0..MaxFaults /\ starts \in 0..MaxStarts

NoRecord == [lifecycle |-> "absent", observed |-> "connecting",
             endpoint |-> NoEndpoint]
NoOperation == [type |-> "none", due |-> 0, waiting |-> FALSE, failed |-> FALSE,
                cleanup |-> FALSE, timedOut |-> FALSE, requireReady |-> FALSE,
                ready |-> FALSE]
AddOperation == [NoOperation EXCEPT !.type = "add", !.waiting = TRUE]
RemoveOperation == [NoOperation EXCEPT !.type = "remove", !.waiting = TRUE]
StartupCleanup == [NoOperation EXCEPT !.type = "remove", !.requireReady = TRUE]
NotStopping == [on |-> FALSE, due |-> 0, waiting |-> FALSE, expired |-> FALSE]
EmptyConfig == [daemon_stopping |-> FALSE, remotes |-> [i \in Ids |-> NoRecord]]

Init ==
    /\ worker = [i \in Ids |-> NoWorker]
    /\ events = [i \in Ids |-> <<>>]
    /\ detached = {}
    /\ cleaning = [i \in Ids |-> "no"]
    /\ running = TRUE /\ exiting = FALSE /\ stopping = NotStopping
    /\ config = EmptyConfig /\ disk = EmptyConfig
    /\ op = [i \in Ids |-> NoOperation]
    /\ told = [i \in Ids |-> "new"]
    /\ faults = 0 /\ starts = 0

-----------------------------------------------------------------------------
(* The configuration and its store.                                        *)

Present(c, i) == c.remotes[i].lifecycle # "absent"
Lifecycle(i) == config.remotes[i].lifecycle
Observes(i) == config.remotes[i].observed

\* Config::validate: save refuses anything else.
Valid(c) ==
    /\ \A i, j \in Ids : Present(c, i) /\ Present(c, j) /\ i # j
          /\ c.remotes[i].endpoint = c.remotes[j].endpoint
             => c.remotes[i].endpoint = NoEndpoint
    /\ \A i \in Ids : LET r == c.remotes[i] IN
          /\ r.lifecycle = "active" => r.endpoint # NoEndpoint
          /\ (r.lifecycle = "removing") = (r.observed = "removing")

WithRemote(c, i, r) == [c EXCEPT !.remotes[i] = r]
Become(c, i, lifecycle, observed) ==
    [c EXCEPT !.remotes[i].lifecycle = lifecycle,
              !.remotes[i].observed = observed]

\* Mutant: no remote is a duplicate.
DuplicateNever(i, e) == FALSE

\* remote_by_endpoint_excluding
Duplicate(i, e) ==
    \E j \in Ids \ {i} : Present(config, j) /\ config.remotes[j].endpoint = e

\* What a save of c may come to: written, not written, or written without
\* knowing it (the directory could not be synced), and then read back or not.
Outcomes(c) ==
    IF ~Valid(c) THEN {"before"}
    ELSE {"ok"} \cup IF faults < MaxFaults
                     THEN {"before", "unknown", "unread"} ELSE {}
Written(c, o, old) == IF o = "before" THEN old ELSE c
Charged(c, o) == IF o # "ok" /\ Valid(c) THEN 1 ELSE 0

\* commit of a changed copy: the actor adopts the copy when it was written and,
\* after an unknown outcome, what it reads back.
Commit(next, o) ==
    /\ o \in Outcomes(next)
    /\ config' = IF o \in {"ok", "unknown"} THEN next ELSE config
    /\ disk' = Written(next, o, disk)

\* save_current: the actor's own copy has changed already.
SaveCurrent(changed, o) ==
    /\ o \in Outcomes(changed)
    /\ config' = changed
    /\ disk' = Written(changed, o, disk)

\* RemoteWorker::spawn, which needs random bytes for an owner id, fails after next was
\* saved: what it replaced is saved once more, or not.
SpawnFails(next) ==
    /\ faults < MaxFaults /\ Valid(next)
    /\ \E o \in Outcomes(config) :
          /\ config' = config
          /\ disk' = Written(config, o, next)
          /\ faults' = faults + 1 + Charged(config, o) /\ faults' <= MaxFaults
-----------------------------------------------------------------------------
(* Control requests.                                                       *)

Serving == running /\ ~(exiting /\ ~stopping.on)
Accepting == Serving /\ ~stopping.on

Spawn(i, expected, operation) ==
    /\ worker' = [worker EXCEPT ![i] =
                     Spawned(expected, operation.requireReady)]
    /\ op' = [op EXCEPT ![i] = operation]

\* add, whose config id is fresh.
Add(i) ==
    LET pending == [NoRecord EXCEPT !.lifecycle = "pending"]
        next == WithRemote(config, i, pending) IN
    /\ Accepting /\ told[i] = "new"
    /\ told' = [told EXCEPT ![i] = "adding"]
    /\ \/ \E o \in Outcomes(next) :
             /\ Commit(next, o)
             /\ faults' = faults + Charged(next, o)
             /\ IF o = "ok" THEN Spawn(i, NoEndpoint, AddOperation)
                            ELSE UNCHANGED <<worker, op>>
       \/ SpawnFails(next) /\ UNCHANGED <<worker, op>>
    /\ UNCHANGED <<events, detached, cleaning, running, exiting, stopping,
                   starts>>

\* Mutant: an active remote may be retried at any time.
CanRetryAlways(i) == Lifecycle(i) = "active"

CanRetry(i) == Lifecycle(i) = "active" /\ Observes(i) = "error"

\* retry, which puts a new slot over any the remote still has: a worker still
\* running is left to itself, and a reply the old slot held is dropped.
Retry(i) ==
    LET next == Become(config, i, "active", "connecting") IN
    /\ Accepting /\ CanRetry(i)
    /\ \/ \E o \in Outcomes(next) :
             /\ Commit(next, o)
             /\ faults' = faults + Charged(next, o)
             /\ IF o = "ok"
                THEN /\ Spawn(i, config.remotes[i].endpoint, NoOperation)
                     /\ events' = [events EXCEPT ![i] = <<>>]
                     /\ detached' = IF Running(i) /\ ~worker[i].cancelled
                                    THEN detached \cup {i} ELSE detached
                ELSE UNCHANGED <<worker, op, events, detached>>
       \/ SpawnFails(next) /\ UNCHANGED <<worker, op, events, detached>>
    /\ UNCHANGED <<cleaning, running, exiting, stopping, told, starts>>

Confirms(waiting, o) == waiting /\ o = "ok"

\* finish_remove: the record is deleted, and the deletion saved.
FinishRemove(i, o, waiting) ==
    LET gone == WithRemote(config, i, NoRecord) IN
    /\ SaveCurrent(gone, o)
    /\ faults' = faults + Charged(gone, o)
    /\ told' = [told EXCEPT ![i] =
                   IF Confirms(waiting, o) THEN "removed" ELSE @]

\* A removal the user asks for takes the place of a startup cleanup.
AskedToGo(i) ==
    cleaning' = [cleaning EXCEPT ![i] = IF @ = "tombstone" THEN "asked" ELSE @]

\* remove of a remote that is being removed: wait for that, or be told that
\* nobody is at it.
RemoveAgain(i) ==
    /\ Accepting /\ Lifecycle(i) = "removing"
    /\ op[i].type = "remove"
    /\ op' = [op EXCEPT ![i].waiting = TRUE]
    /\ told' = [told EXCEPT ![i] = "asked"]
    /\ UNCHANGED <<workerVars, running, config, disk, exiting, stopping, faults,
                   starts>>

\* remove: the tombstone is set in memory, then saved; only then is the worker
\* cancelled.
RemoveTracked(i) ==
    LET next == Become(config, i, "removing", "removing") IN
    /\ Accepting /\ Lifecycle(i) \in {"pending", "active"} /\ Tracked(i)
    /\ told' = [told EXCEPT ![i] = "asked"]
    /\ \E o \in Outcomes(next) :
          /\ SaveCurrent(next, o)
          /\ faults' = faults + Charged(next, o)
          /\ IF o = "ok"
             THEN /\ op' = [op EXCEPT ![i] = RemoveOperation]
                  /\ worker' = [worker EXCEPT ![i] = Cancelled(@)]
                  /\ AskedToGo(i)
             ELSE UNCHANGED <<op, worker, cleaning>>
    /\ UNCHANGED <<events, detached, running, exiting, stopping, starts>>

\* remove of a remote without a worker: two saves, tombstone and deletion.
RemoveUntracked(i) ==
    LET next == Become(config, i, "removing", "removing")
        gone == WithRemote(config, i, NoRecord) IN
    /\ Accepting /\ Lifecycle(i) \in {"pending", "active"} /\ ~Tracked(i)
    /\ \E o \in Outcomes(next), last \in Outcomes(gone) :
          /\ o # "ok" => last = "ok"
          /\ IF o = "ok"
             THEN /\ config' = gone
                  /\ disk' = Written(gone, last, next)
                  /\ faults' = faults + Charged(gone, last)
                  /\ told' = [told EXCEPT ![i] =
                                 IF last = "ok" THEN "removed" ELSE "asked"]
                  /\ AskedToGo(i)
             ELSE /\ SaveCurrent(next, o)
                  /\ faults' = faults + Charged(next, o)
                  /\ told' = [told EXCEPT ![i] = "asked"]
                  /\ UNCHANGED cleaning
    /\ UNCHANGED <<worker, events, detached, running, op, exiting, stopping, starts>>
-----------------------------------------------------------------------------
(* Shutting down.                                                          *)

FinishShutdown(s) == [s EXCEPT !.on = FALSE, !.waiting = FALSE]

\* begin_local_shutdown: cancel every worker; without any, done.
BeginLocalShutdown(waiting) ==
    LET begun == [on |-> TRUE, due |-> 0, waiting |-> waiting,
                  expired |-> FALSE] IN
    /\ exiting' = TRUE
    /\ stopping' = IF \E i \in Ids : Tracked(i) THEN begun
                   ELSE FinishShutdown(begun)
    /\ worker' = [i \in Ids |-> IF Tracked(i) THEN Cancelled(worker[i])
                                ELSE worker[i]]

\* begin_shutdown, for a Shutdown request or a SIGTERM.
Shutdown ==
    LET next == [config EXCEPT !.daemon_stopping = TRUE] IN
    /\ Accepting
    /\ \E o \in Outcomes(next) :
          /\ Commit(next, o)
          /\ faults' = faults + Charged(next, o)
          /\ BeginLocalShutdown(o = "ok")
    /\ UNCHANGED <<events, detached, cleaning, running, op, told, starts>>

ListenerFailed ==
    /\ Accepting
    /\ BeginLocalShutdown(FALSE)
    /\ UNCHANGED <<events, detached, cleaning, running, config, disk, op, told,
                   faults, starts>>
-----------------------------------------------------------------------------
(* Worker events.  Those of a replaced slot are dropped with it: a stale   *)
(* generation is never handled.                                            *)

Handles(i, type) ==
    Serving /\ events[i] # <<>> /\ Head(events[i]).type = type
Handled(i) == events' = [events EXCEPT ![i] = Tail(@)]
Cleanup(i) == op[i].type = "remove" /\ op[i].requireReady

Rejected(w) == Cancelled(Approved(w, "reject"))

\* Mutant: the worker of a failed add is left running.
FailPendingLeft(i, w) ==
    /\ worker' = [worker EXCEPT ![i] = w]
    /\ op' = IF op[i].type = "add" THEN [op EXCEPT ![i].failed = TRUE]
             ELSE op

\* fail_pending: an add learns why it failed when its worker has stopped.
FailPending(i, w) ==
    /\ worker' = [worker EXCEPT ![i] = Cancelled(w)]
    /\ op' = IF op[i].type = "add" THEN [op EXCEPT ![i].failed = TRUE]
             ELSE op

\* identity, for a startup cleanup: only the endpoint on record is approved.
IdentityForCleanup(i) ==
    LET e == Head(events[i]).endpoint IN
    /\ Handles(i, "Identity") /\ Cleanup(i) /\ CanApprove(worker[i])
    /\ Handled(i)
    /\ IF e = config.remotes[i].endpoint /\ ~Duplicate(i, e)
       THEN /\ worker' = [worker EXCEPT ![i] = Approved(@, "proceed")]
            /\ UNCHANGED <<config, disk, faults>>
       ELSE /\ worker' = [worker EXCEPT ![i] = Rejected(@)]
            /\ \E o \in Outcomes(config) :
                  SaveCurrent(config, o) /\ faults' = faults + Charged(config, o)
    /\ UNCHANGED <<detached, cleaning, running, op, exiting, stopping, told,
                   starts>>

Enrolling(i) == Lifecycle(i) \in {"pending", "active"} /\ op[i].type # "remove"

IdentityIgnored(i) ==
    /\ Handles(i, "Identity") /\ ~Cleanup(i) /\ ~Enrolling(i)
    /\ Handled(i)
    /\ UNCHANGED <<worker, detached, cleaning, running, config, disk, op,
                   exiting, stopping, told, faults, starts>>

IdentityDuplicate(i) ==
    /\ Handles(i, "Identity") /\ ~Cleanup(i) /\ Enrolling(i)
    /\ CanApprove(worker[i]) /\ Duplicate(i, Head(events[i]).endpoint)
    /\ Handled(i)
    /\ FailPending(i, Rejected(worker[i]))
    /\ UNCHANGED <<detached, cleaning, running, config, disk, exiting, stopping,
                   told, faults, starts>>

\* The first identity is recorded; a later one leaves the record as it is.
Identified(i, e) ==
    IF config.remotes[i].endpoint = NoEndpoint
    THEN [config EXCEPT !.remotes[i].endpoint = e] ELSE config

IdentityNew(i) ==
    LET next == Identified(i, Head(events[i]).endpoint) IN
    /\ Handles(i, "Identity") /\ ~Cleanup(i) /\ Enrolling(i)
    /\ CanApprove(worker[i]) /\ ~Duplicate(i, Head(events[i]).endpoint)
    /\ Handled(i)
    /\ \E o \in Outcomes(next) :
          /\ SaveCurrent(next, o)
          /\ faults' = faults + Charged(next, o)
          /\ IF o = "ok"
             THEN /\ worker' = [worker EXCEPT ![i] = Approved(@, "proceed")]
                  /\ UNCHANGED op
             ELSE FailPending(i, Rejected(worker[i]))
    /\ UNCHANGED <<detached, cleaning, running, exiting, stopping, told, starts>>

\* ready, for a startup cleanup: ownership was taken, so it can be given up.
ReadyForCleanup(i) ==
    /\ Handles(i, "Ready") /\ Cleanup(i)
    /\ Handled(i)
    /\ op' = [op EXCEPT ![i].ready = @ \/ (~op[i].timedOut /\ op[i].due < 2)]
    /\ worker' = [worker EXCEPT ![i] = Cancelled(@)]
    /\ UNCHANGED <<detached, cleaning, running, config, disk, exiting, stopping,
                   told, faults, starts>>

Late(i) == op[i].type = "add" /\ op[i].due > 0

ReadyTooLate(i) ==
    /\ Handles(i, "Ready") /\ Late(i)
    /\ Handled(i)
    /\ FailPending(i, worker[i])
    /\ UNCHANGED <<detached, cleaning, running, config, disk, exiting, stopping,
                   told, faults, starts>>

\* Mutant: whatever is on record becomes active.
ReadyCanPromoteAny(i) == Present(config, i)

ReadyCanPromote(i) ==
    Lifecycle(i) \in {"pending", "active"} /\ op[i].type # "remove"

ReadyIgnored(i) ==
    /\ Handles(i, "Ready") /\ ~Cleanup(i) /\ ~Late(i) /\ ~ReadyCanPromote(i)
    /\ Handled(i)
    /\ UNCHANGED <<worker, detached, cleaning, running, config, disk, op,
                   exiting, stopping, told, faults, starts>>

\* Mutant: the add lives on, and with it its deadline.
AfterReadyKept(i) == op[i]

\* The operation is concluded.
AfterReady(i) == NoOperation

\* ready: the remote is active and connected.  When that cannot be saved, the
\* remote is in error, a second save tries to record it, and the worker serves on.
ReadyPromotes(i) ==
    LET next == Become(config, i, "active", "connected")
        inError == Become(config, i, "active", "error") IN
    /\ Handles(i, "Ready") /\ ~Late(i) /\ ReadyCanPromote(i)
    /\ Handled(i)
    /\ \E o \in Outcomes(next), o2 \in Outcomes(inError) :
          IF o = "ok"
          THEN /\ o2 = "ok"
               /\ SaveCurrent(next, o)
               /\ op' = [op EXCEPT ![i] = AfterReady(i)]
               /\ told' = [told EXCEPT ![i] = IF op[i].type = "add"
                                                 /\ op[i].waiting
                                              THEN "added" ELSE @]
               /\ UNCHANGED faults
          ELSE /\ Charged(next, o) + Charged(inError, o2) + faults <= MaxFaults
               /\ config' = inError
               /\ disk' = Written(inError, o2, Written(next, o, disk))
               /\ faults' = faults + Charged(next, o) + Charged(inError, o2)
               /\ UNCHANGED <<op, told>>
    /\ UNCHANGED <<worker, detached, cleaning, running, exiting, stopping,
                   starts>>

Retrying(i) ==
    LET next == Become(config, i, "active", "reconnecting") IN
    /\ Handles(i, "Retrying")
    /\ Handled(i)
    /\ IF Lifecycle(i) = "active"
       THEN \E o \in Outcomes(next) :
               SaveCurrent(next, o) /\ faults' = faults + Charged(next, o)
       ELSE UNCHANGED <<config, disk, faults>>
    /\ UNCHANGED <<worker, detached, cleaning, running, op, exiting, stopping,
                   told, starts>>

PermanentFailure(i) ==
    LET next == Become(config, i, "active", "error") IN
    /\ Handles(i, "PermanentFailure")
    /\ Handled(i)
    /\ CASE Lifecycle(i) = "pending" ->
              FailPending(i, worker[i]) /\ UNCHANGED <<config, disk, faults>>
         [] Lifecycle(i) = "active" ->
              /\ \E o \in Outcomes(next) :
                    SaveCurrent(next, o) /\ faults' = faults + Charged(next, o)
              /\ UNCHANGED <<worker, op>>
         [] OTHER -> UNCHANGED <<worker, op, config, disk, faults>>
    /\ UNCHANGED <<detached, cleaning, running, exiting, stopping, told, starts>>

\* Mutant: the end of the worker is confirmation enough.
StoppedConfirmsAnyway(i) == op[i].type = "remove"

StoppedConfirmsCleanup(i) ==
    op[i].type = "remove"
    /\ (op[i].requireReady => op[i].ready /\ ~op[i].timedOut)

\* worker_stopped: the slot goes, its operation is concluded, and the last slot
\* to go ends a shutdown.
WorkerStopped(i) ==
    LET gone == WithRemote(config, i, NoRecord) IN
    /\ Handles(i, "Stopped")
    /\ Handled(i)
    /\ worker' = [worker EXCEPT ![i] = NoWorker]
    /\ op' = [op EXCEPT ![i] = NoOperation]
    /\ \/ /\ op[i].type = "add"
          /\ \E o \in Outcomes(gone) :
                SaveCurrent(gone, o) /\ faults' = faults + Charged(gone, o)
          /\ UNCHANGED told
       \/ /\ StoppedConfirmsCleanup(i)
          /\ \E o \in Outcomes(gone) : FinishRemove(i, o, op[i].waiting)
       \/ /\ op[i].type = "remove" /\ ~StoppedConfirmsCleanup(i)
          /\ \E o \in Outcomes(config) :
                SaveCurrent(config, o)
                /\ faults' = faults + Charged(config, o)
          /\ UNCHANGED told
       \/ /\ op[i].type = "none"
          /\ UNCHANGED <<config, disk, told, faults>>
    /\ stopping' = IF stopping.on /\ \A j \in Ids \ {i} : ~Tracked(j)
                   THEN FinishShutdown(stopping) ELSE stopping
    /\ UNCHANGED <<detached, cleaning, running, exiting, starts>>

HandleEvent(i) ==
    \/ IdentityForCleanup(i) \/ IdentityIgnored(i) \/ IdentityDuplicate(i)
    \/ IdentityNew(i) \/ ReadyForCleanup(i) \/ ReadyTooLate(i)
    \/ ReadyIgnored(i) \/ ReadyPromotes(i) \/ Retrying(i)
    \/ PermanentFailure(i) \/ WorkerStopped(i)
-----------------------------------------------------------------------------
(* Time, and expire_operations.                                            *)

\* An add is due at its deadline, then at its cleanup deadline if it has one; a
\* removal at its grace, then at its deadline, which for a startup cleanup are
\* one; a shutdown at its grace, then at its deadline.
OperationDue(i) ==
    /\ Serving
    /\ \/ /\ op[i].type = "add"
          /\ op[i].due = 0 \/ (op[i].due = 1 /\ op[i].cleanup)
          /\ op' = [op EXCEPT ![i].due = @ + 1]
       \/ /\ op[i].type = "remove" /\ op[i].due < 2
          /\ op' = [op EXCEPT ![i].due = IF op[i].requireReady THEN 2 ELSE @ + 1]
    /\ UNCHANGED <<workerVars, running, config, disk, exiting, stopping, told,
                   faults, starts>>

ShutdownDue ==
    /\ running /\ stopping.on /\ stopping.due < 2
    /\ stopping' = [stopping EXCEPT !.due = @ + 1]
    /\ UNCHANGED <<workerVars, running, config, disk, op, exiting, told, faults,
                   starts>>

AddExpires(i) ==
    /\ Serving /\ op[i].type = "add" /\ op[i].due > 0 /\ ~op[i].failed
    /\ op' = [op EXCEPT ![i].failed = TRUE, ![i].waiting = FALSE,
                        ![i].cleanup = TRUE]
    /\ worker' = [worker EXCEPT ![i] = Cancelled(@)]
    /\ UNCHANGED <<events, detached, cleaning, running, config, disk, exiting,
                   stopping, told, faults, starts>>

\* Repeated at every turn of the loop until the worker stops.
AddCleanupExpires(i) ==
    /\ Serving /\ op[i].type = "add" /\ op[i].due = 2 /\ op[i].failed
    /\ ~worker[i].forced \/ op[i].waiting \/ disk # config
    /\ op' = [op EXCEPT ![i].waiting = FALSE]
    /\ worker' = [worker EXCEPT ![i] = Forced(@)]
    /\ \E o \in Outcomes(config) :
          SaveCurrent(config, o) /\ faults' = faults + Charged(config, o)
    /\ UNCHANGED <<events, detached, cleaning, running, exiting, stopping, told,
                   starts>>

RemoveExpires(i) ==
    /\ Serving /\ op[i].type = "remove" /\ op[i].due = 2 /\ ~op[i].timedOut
    /\ op' = [op EXCEPT ![i].timedOut = TRUE, ![i].waiting = FALSE]
    /\ worker' = [worker EXCEPT ![i] = Forced(@)]
    /\ \E o \in Outcomes(config) :
          SaveCurrent(config, o) /\ faults' = faults + Charged(config, o)
    /\ UNCHANGED <<events, detached, cleaning, running, exiting, stopping, told,
                   starts>>

RemoveGraceExpires(i) ==
    /\ Serving /\ op[i].type = "remove" /\ op[i].due > 0
    /\ op[i].due = 2 => op[i].timedOut
    /\ ~worker[i].forced
    /\ worker' = [worker EXCEPT ![i] = Forced(@)]
    /\ UNCHANGED <<events, detached, cleaning, running, config, disk, op,
                   exiting, stopping, told, faults, starts>>

ShutdownExpires ==
    /\ running /\ stopping.on /\ stopping.due > 0
    /\ \/ \E i \in Ids : Tracked(i) /\ ~worker[i].forced
       \/ stopping.due = 2 /\ ~stopping.expired
    /\ worker' = [i \in Ids |-> IF Tracked(i) THEN Forced(worker[i])
                                ELSE worker[i]]
    /\ stopping' = IF stopping.due = 2
                   THEN [stopping EXCEPT !.expired = TRUE, !.waiting = FALSE]
                   ELSE stopping
    /\ UNCHANGED <<events, detached, cleaning, running, config, disk, op,
                   exiting, told, faults, starts>>

Expire(i) == AddExpires(i) \/ AddCleanupExpires(i) \/ RemoveExpires(i)
             \/ RemoveGraceExpires(i)
-----------------------------------------------------------------------------
(* The process ends, in order or by a crash, and starts again.             *)

\* What is left of the process when it is gone: the file.
Gone ==
    /\ running' = FALSE /\ exiting' = FALSE /\ stopping' = NotStopping
    /\ worker' = [i \in Ids |-> NoWorker]
    /\ events' = [i \in Ids |-> <<>>]
    /\ detached' = {}
    /\ cleaning' = [i \in Ids |-> "no"]
    /\ op' = [i \in Ids |-> NoOperation]
    /\ config' = EmptyConfig

RunReturns ==
    /\ running /\ exiting /\ ~stopping.on
    /\ Gone
    /\ UNCHANGED <<disk, told, faults, starts>>

Crash ==
    /\ running /\ starts < MaxStarts
    /\ Gone
    /\ UNCHANGED <<disk, told, faults, starts>>

\* reconcile_startup of a record.
Reconciled(r) ==
    IF r.lifecycle = "active" /\ r.observed # "error"
    THEN [r EXCEPT !.observed = "connecting"] ELSE r
Interrupted(r) == r.lifecycle \in {"pending", "removing"}
Reconnecting(r) == r.lifecycle = "active" /\ r.observed # "error"
Cleans(r) == Interrupted(r) /\ r.endpoint # NoEndpoint

\* `start' clears the stop intent, and run loads and reconciles what is on disk;
\* a reconciliation that cannot be saved ends the start.  At most one of the
\* workers cannot be spawned: its remote is in error, saved or not, or its cleanup
\* waits for the next start.
Start ==
    LET loaded == [daemon_stopping |-> FALSE,
                   remotes |-> [i \in Ids |-> Reconciled(disk.remotes[i])]]
        spawned == {i \in Ids : Reconnecting(loaded.remotes[i])
                                \/ Cleans(loaded.remotes[i])} IN
    /\ ~running /\ starts < MaxStarts
    /\ starts' = starts + 1
    /\ \/ \E o \in Outcomes(loaded) \ {"ok"} :
             /\ disk' = Written(loaded, o, [disk EXCEPT !.daemon_stopping = FALSE])
             /\ faults' = faults + Charged(loaded, o)
             /\ UNCHANGED <<running, config, worker, op, cleaning>>
       \/ \E failed \in SUBSET spawned, saved \in {"ok", "before", "unknown", "unread"} :
             LET up == [loaded EXCEPT !.remotes = [i \in Ids |->
                          IF i \in failed /\ Reconnecting(@[i])
                          THEN [@[i] EXCEPT !.observed = "error"] ELSE @[i]]] IN
             /\ Cardinality(failed) <= 1 /\ saved \in Outcomes(up)
             /\ failed = {} => saved = "ok"
             /\ faults' = faults + Cardinality(failed) + Charged(up, saved)
             /\ faults' <= MaxFaults
             /\ running' = TRUE
             /\ config' = up /\ disk' = Written(up, saved, loaded)
             /\ worker' = [i \in Ids |-> IF i \in spawned \ failed
                             THEN Spawned(up.remotes[i].endpoint,
                                          Cleans(up.remotes[i]))
                             ELSE NoWorker]
             /\ op' = [i \in Ids |-> IF i \in spawned \ failed
                                        /\ Cleans(up.remotes[i])
                                     THEN StartupCleanup ELSE NoOperation]
             /\ cleaning' = [i \in Ids |-> IF Interrupted(up.remotes[i])
                                           THEN "tombstone" ELSE "no"]
    /\ UNCHANGED <<events, detached, exiting, stopping, told>>
-----------------------------------------------------------------------------
WorkerStep(i) ==
    /\ running /\ WorkerSteps(i)
    /\ UNCHANGED <<running, config, disk, op, exiting, stopping, told, faults,
                   starts>>

ControlRequest(i) ==
    Add(i) \/ Retry(i) \/ RemoveAgain(i) \/ RemoveTracked(i) \/ RemoveUntracked(i)

Next ==
    \/ \E i \in Ids : \/ WorkerStep(i) \/ ControlRequest(i) \/ HandleEvent(i)
                      \/ OperationDue(i) \/ Expire(i)
    \/ Shutdown \/ ListenerFailed \/ ShutdownDue \/ ShutdownExpires
    \/ RunReturns \/ Crash \/ Start

Spec == Init /\ [][Next]_vars

\* The actor's loop turns and time passes; a killed worker stops, and one that
\* can proceed does.
FairSpec ==
    /\ Spec
    /\ WF_vars(ShutdownDue) /\ WF_vars(ShutdownExpires) /\ WF_vars(RunReturns)
    /\ \A i \in Ids :
          /\ WF_vars(HandleEvent(i)) /\ WF_vars(OperationDue(i))
          /\ WF_vars(Expire(i))
          /\ WF_vars(KilledStops(i) /\ WorkerStep(i))

\* SSH processes that end on SIGTERM: a cancelled worker stops.
Obedient == \A i \in Ids : WF_vars(Stops(i) /\ WorkerStep(i))
-----------------------------------------------------------------------------
(* Properties.                                                             *)

\* What the actor holds can always be saved: the record states its handlers
\* leave behind, also after saves that failed half way, never break the rules
\* the store validates (else every later save of any remote would be refused).
ConfigValid == TypeOK /\ Valid(config) /\ Valid(disk)

\* A remote that `remote add' reported stays active on disk until its removal is
\* asked for: no crash, failed save, lost connection or retry rolls it back.
AddedSurvives ==
    \A i \in Ids : told[i] = "added" => disk.remotes[i].lifecycle = "active"

\* Once a removal was confirmed nothing of the remote is left: no record that a
\* restart would find, no slot, no operation.
RemovedIsGone ==
    \A i \in Ids : told[i] = "removed" =>
        /\ ~Present(disk, i) /\ ~Tracked(i) /\ op[i] = NoOperation
        /\ running => ~Present(config, i)

\* What a user was told of a remote stays true, on disk too.
AnswersHold == AddedSurvives /\ RemovedIsGone

\* A tombstone on disk never becomes an active or pending record again, across
\* failed saves, late worker events, crashes and restarts.
TombstoneStays ==
    [][\A i \in Ids : disk.remotes[i].lifecycle = "removing" =>
           disk'.remotes[i].lifecycle \in {"removing", "absent"}]_vars

\* A record that a start found interrupted stays on disk until its worker owned the
\* recorded endpoint, or until the user removed an interrupted addition after that start;
\* it is never active again (docs/PRD.md:265).
CleanupConfirmed ==
    \A i \in Ids :
        /\ cleaning[i] = "tombstone" => Present(disk, i)
        /\ cleaning[i] # "no" => disk.remotes[i].lifecycle # "active"

\* An active remote that is not in error has a worker as long as the daemon
\* runs: nobody but the worker would ever reconnect it, and retry refuses it.
Served(i) == running /\ ~exiting /\ Lifecycle(i) = "active"
             /\ Observes(i) # "error" => Tracked(i)

\* Every active remote that is not in error is served: "only an active record says the
\* daemon should stay connected; the daemon keeps reconciling the configuration with
\* the runtime state" (docs/PRD.md:215), and retry refuses all others.
ActiveIsServed == \A i \in Ids : Served(i)

\* The target reaches one endpoint, or none that another remote's target reaches.
Steady(i) == \/ \E e \in Endpoints : Reaches[i] = {e}
             \/ \A j \in Ids \ {i} : Reaches[i] \cap Reaches[j] = {}

\* While every save and spawn succeeds, no worker is lost, and an active remote has one
\* unless its target came to reach another remote's endpoint: no order of worker
\* events, requests, restarts and deadlines leaves such a remote without one.
ServedWhenSaved ==
    faults = 0 => detached = {} /\ \A i \in Ids : Steady(i) => Served(i)

Waits(i, type) == op[i].type = type /\ op[i].waiting

\* Every accepted `remote remove' is answered.
RemoveAnswered == \A i \in Ids : Waits(i, "remove") ~> ~Waits(i, "remove")

\* Every `remote add' is answered, when SSH ends on SIGTERM: an add that failed
\* before its deadline waits for its worker, and nothing forces that worker.
AddAnswered ==
    Obedient => \A i \in Ids : Waits(i, "add") ~> ~Waits(i, "add")

\* Every accepted `remote add' and `remote remove' is answered.
ChangesAnswered == RemoveAnswered /\ AddAnswered

\* A daemon that began to stop ends, its workers first.
ShutdownEnds == exiting ~> ~running
=============================================================================
