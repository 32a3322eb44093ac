---------------------------- MODULE RemoteWorker ----------------------------
(***************************************************************************)
(* The remote workers of the Mac daemon.  A worker is one thread that      *)
(* keeps an SSH connection to one remote: it reads the identity of the     *)
(* Linux endpoint it reached, asks the daemon's actor to approve it, waits *)
(* for the broker to grant ownership, serves requests, and reconnects when *)
(* the channel is lost.  It reports to the actor through a FIFO of events; *)
(* the actor answers through a one-place approval channel and a            *)
(* `cancelled' flag backed by signals to the SSH process group.            *)
(*                                                                         *)
(* What the connection reaches, when it fails and when it is refused are   *)
(* environment choices.  Serving requests is the subject of Executor.tla;  *)
(* the Load event only refreshes displayed numbers and is left out.        *)
(***************************************************************************)
EXTENDS Naturals, Sequences, FiniteSets

CONSTANTS
    Ids,         \* configuration ids of remotes
    Endpoints,   \* Linux endpoint identities
    NoEndpoint,  \* endpoint_id: None
    Reaches,     \* the endpoints a connection to a remote's target may reach
    MaxEvents    \* bound: events of one worker the actor has not handled

ASSUME WorkerAssumption ==
    /\ IsFiniteSet(Ids)
    /\ NoEndpoint \notin Endpoints
    /\ Reaches \in [Ids -> SUBSET Endpoints]
    /\ MaxEvents \in Nat \ {0}

VARIABLES
    worker,    \* the worker of each remote's slot in DaemonActor.workers
    events,    \* its events in flight to the actor, oldest first
    detached,  \* remotes with a running worker that no slot tracks any more
    cleaning   \* history: remotes found interrupted at start; since then claimed by
               \* their worker, or asked by the user to go

workerVars == <<worker, events, detached, cleaning>>

Phases == {"none", "connecting", "awaiting", "approved", "serving",
           "ending", "ended"}
Approvals == {"none", "proceed", "reject"}
EventTypes == {"Identity", "Ready", "Retrying", "PermanentFailure", "Stopped"}

Worker == [phase : Phases, cancelled : BOOLEAN, forced : BOOLEAN,
           expected : Endpoints \cup {NoEndpoint},
           at : Endpoints \cup {NoEndpoint},
           retryConflict : BOOLEAN, approval : Approvals]
Event == [type : EventTypes, endpoint : Endpoints \cup {NoEndpoint}]

WorkerTypeOK ==
    /\ worker \in [Ids -> Worker]
    /\ events \in [Ids -> Seq(Event)]
    /\ detached \subseteq Ids
    /\ cleaning \in [Ids -> {"no", "tombstone", "claimed", "asked"}]

Spawned(expected, retryConflict) ==
    [phase |-> "connecting", cancelled |-> FALSE, forced |-> FALSE,
     expected |-> expected, at |-> NoEndpoint,
     retryConflict |-> retryConflict, approval |-> "none"]
NoWorker == [Spawned(NoEndpoint, FALSE) EXCEPT !.phase = "none"]

Tracked(i) == worker[i].phase # "none"
Running(i) == worker[i].phase \notin {"none", "ending", "ended"}

Cancelled(w) == [w EXCEPT !.cancelled = TRUE]

\* Mutant: SIGTERM again where SIGKILL is due.
ForcedPolitely(w) == [w EXCEPT !.cancelled = TRUE]
Forced(w) == [w EXCEPT !.cancelled = TRUE, !.forced = TRUE]

\* RemoteWorker::approve: the channel holds one approval; to a thread that has
\* ended the send fails.
CanApprove(w) == w.approval = "none" \/ w.phase = "ended"
Approved(w, approval) ==
    IF w.phase = "ended" THEN Cancelled(w) ELSE [w EXCEPT !.approval = approval]

Emits(i, type, endpoint) ==
    events' = [events EXCEPT ![i] =
                  Append(@, [type |-> type, endpoint |-> endpoint])]
Room(i) == Len(events[i]) < MaxEvents

\* wait_to_reconnect: report, wait, and connect again.
Reconnects(i) ==
    /\ worker' = [worker EXCEPT ![i].phase = "connecting",
                                ![i].at = NoEndpoint]
    /\ Emits(i, "Retrying", NoEndpoint)

\* The loop returns an error: a PermanentFailure, unless it was cancelled.
GivesUp(i, w) ==
    /\ worker' = [worker EXCEPT ![i] = [w EXCEPT !.phase = "ending"]]
    /\ IF w.cancelled THEN UNCHANGED events
                      ELSE Emits(i, "PermanentFailure", NoEndpoint)

IdentityAgrees(w, e) == w.expected \in {NoEndpoint, e}

\* The connection is up and the broker's Hello has been read.  An endpoint
\* other than the one the worker was spawned for is final; any other is put to
\* the actor.
Connects(i) ==
    /\ worker[i].phase = "connecting" /\ ~worker[i].cancelled /\ Room(i)
    /\ \E e \in Reaches[i] :
          IF IdentityAgrees(worker[i], e)
          THEN /\ worker' = [worker EXCEPT ![i].phase = "awaiting",
                                           ![i].at = e]
               /\ Emits(i, "Identity", e)
          ELSE GivesUp(i, worker[i])
    /\ UNCHANGED <<detached, cleaning>>

\* ssh cannot be launched, the handshake does not match, or the bridge is
\* missing on the remote (exit 127).
RefusedForGood(i) ==
    /\ worker[i].phase = "connecting" /\ ~worker[i].cancelled /\ Room(i)
    /\ GivesUp(i, worker[i])
    /\ UNCHANGED <<detached, cleaning>>

\* The session fails before or after it became ready, or the actor's approval
\* does not come within IDENTITY_APPROVAL_TIMEOUT.
ConnectionFails(i) ==
    /\ worker[i].phase \in {"connecting", "awaiting", "approved", "serving"}
    /\ ~worker[i].cancelled /\ Room(i)
    /\ Reconnects(i)
    /\ UNCHANGED <<detached, cleaning>>

\* wait_for_remote_approval returns whatever the channel holds.
TakesApproval(i) ==
    LET w == [worker[i] EXCEPT !.approval = "none"] IN
    /\ worker[i].phase = "awaiting" /\ worker[i].approval # "none" /\ Room(i)
    /\ IF worker[i].approval = "proceed"
       THEN /\ worker' = [worker EXCEPT ![i] = [w EXCEPT !.phase = "approved"]]
            /\ UNCHANGED events
       ELSE GivesUp(i, w)
    /\ UNCHANGED <<detached, cleaning>>

\* BrokerReady(Ready): this worker owns the endpoint.  A cancel that arrives
\* while the worker waits for the frame does not stop the report.
BecomesReady(i) ==
    /\ worker[i].phase = "approved" /\ Room(i)
    /\ worker' = [worker EXCEPT ![i].phase = "serving"]
    /\ Emits(i, "Ready", worker[i].at)
    /\ cleaning' = [cleaning EXCEPT ![i] =
                       IF @ = "tombstone" THEN "claimed" ELSE @]
    /\ UNCHANGED detached

\* BrokerReady(OwnerConflict): retried by a startup cleanup only.
OwnerConflict(i) ==
    /\ worker[i].phase = "approved" /\ ~worker[i].cancelled /\ Room(i)
    /\ IF worker[i].retryConflict THEN Reconnects(i) ELSE GivesUp(i, worker[i])
    /\ UNCHANGED <<detached, cleaning>>

\* The thread's last act, in or out of the loop.
Stops(i) ==
    /\ Tracked(i) /\ worker[i].phase # "ended"
    /\ worker[i].cancelled \/ worker[i].phase = "ending"
    /\ worker' = [worker EXCEPT ![i].phase = "ended"]
    /\ Emits(i, "Stopped", NoEndpoint)
    /\ UNCHANGED <<detached, cleaning>>

\* A worker whose slot was replaced runs on, unseen, until it fails for good.
DetachedEnds(i) ==
    /\ i \in detached
    /\ detached' = detached \ {i}
    /\ UNCHANGED <<worker, events, cleaning>>

WorkerSteps(i) ==
    \/ Connects(i) \/ RefusedForGood(i) \/ ConnectionFails(i)
    \/ TakesApproval(i) \/ BecomesReady(i) \/ OwnerConflict(i)
    \/ Stops(i) \/ DetachedEnds(i)

\* SIGKILL ends the SSH group, and with it the thread; a thread that has left
\* its loop ends.  (SIGTERM alone need not: that is what force is for.)
KilledStops(i) ==
    /\ worker[i].forced \/ worker[i].phase = "ending"
    /\ Stops(i)
=============================================================================
