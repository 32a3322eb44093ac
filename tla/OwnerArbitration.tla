-------------------------- MODULE OwnerArbitration --------------------------
(***************************************************************************)
(* Who owns a Linux endpoint: the acquisition of owner.sock and broker.sock  *)
(* by the brokers that the channels of several Macs start (run_broker,       *)
(* acquire_broker_socket, the claim half of broker_route in                  *)
(* src/src/ego_bridge.rs; BrokerAcquisitionLock and SecureBrokerListener in   *)
(* src/src/ipc.rs).                                                         *)
(*                                                                         *)
(* Each broker process lives once. Time is abstracted: a deadline may pass at *)
(* any moment. A socket file is the broker that bound it.                   *)
(***************************************************************************)
EXTENDS Integers, SequencesExt

CONSTANTS
  Broker,    \* broker processes
  OwnerOf,   \* the owner ID of the Mac that started each
  NoBroker

ASSUME ArbitrationAssumption ==
  /\ NoBroker \notin Broker
  /\ DOMAIN OwnerOf = Broker

VARIABLES
  pc,         \* per broker: where it is in run_broker
  mac,        \* per broker: its SSH channel is "up" or "down"
  lock,       \* who holds acquire.lock
  ownerFile,  \* who bound the file owner.sock
  brokerFile, \* who bound the file broker.sock
  claims,     \* per broker: claimants connected to its owner.sock, unread
  reply,      \* per broker: the answer to its claim
  pending,    \* per broker: the claimant whose probe is under way
  expired,    \* per broker: that probe's deadline has passed
  probe,      \* per broker: nonce of its last probe
  unacked,    \* per broker: probes its Mac has not acknowledged
  control,    \* per broker: acknowledgements received, not popped
  acked       \* history: the probe under way was acknowledged in time

claimVars == <<claims, reply, pending, expired, probe, unacked, control, acked>>
fileVars == <<lock, ownerFile, brokerFile>>
vars == <<pc, mac, fileVars, claimVars>>

Init ==
  /\ pc = [b \in Broker |-> "new"]
  /\ mac = [b \in Broker |-> "up"]
  /\ lock = NoBroker
  /\ ownerFile = NoBroker
  /\ brokerFile = NoBroker
  /\ claims = [b \in Broker |-> <<>>]
  /\ reply = [b \in Broker |-> "none"]
  /\ pending = [b \in Broker |-> NoBroker]
  /\ expired = [b \in Broker |-> FALSE]
  /\ probe = [b \in Broker |-> 0]
  /\ unacked = [b \in Broker |-> {}]
  /\ control = [b \in Broker |-> <<>>]
  /\ acked = [b \in Broker |-> FALSE]

GoTo(b, to) == pc' = [pc EXCEPT ![b] = to]
Moves(b, from, to) == pc[b] = from /\ GoTo(b, to)

\* Mutants: the listener is closed before the requests are joined; it is closed
\* before its file is removed.
ListeningWhileServing == {"bindBroker", "unlock", "serving"}
ListeningBriefly == {"bindBroker", "unlock", "serving", "teardown", "unlinkBroker"}

\* The owner listener is open from its bind until the last step of the drop.
Listening == {"bindBroker", "unlock", "serving", "teardown", "unlinkBroker",
              "statOwner", "unlinkOwner", "closeOwner"}
Listens(b) == b # NoBroker /\ pc[b] \in Listening
Release(b) == lock' = IF lock = b THEN NoBroker ELSE lock

-----------------------------------------------------------------------------
(* Acquisition, under acquire.lock.                                        *)

Start(b) ==
  /\ Moves(b, "new", "lock")
  /\ UNCHANGED <<mac, fileVars, claimVars>>

TakeLock(b) ==
  /\ Moves(b, "lock", "connect")
  /\ lock = NoBroker
  /\ lock' = b
  /\ UNCHANGED <<mac, ownerFile, brokerFile, claimVars>>

\* connect to owner.sock: without a file, or nobody listening, it is free.
Connect(b) ==
  /\ pc[b] = "connect"
  /\ IF Listens(ownerFile)
     THEN /\ GoTo(b, "asked")
          /\ claims' = [claims EXCEPT ![ownerFile] = Append(@, b)]
          /\ reply' = [reply EXCEPT ![b] = "none"]
     ELSE /\ GoTo(b, "bindOwner")
          /\ UNCHANGED <<claims, reply>>
  /\ UNCHANGED <<mac, fileVars, pending, expired, probe, unacked, control, acked>>

\* Mutant: the end of the incumbent does not end the wait for its answer.
ConnectedForever(b) ==
  \E i \in Broker : b = pending[i] \/ \E k \in DOMAIN claims[i] : claims[i][k] = b

\* Its claim is queued at, or pending with, a live incumbent.
Connected(b) ==
  \E i \in Broker : Listens(i) /\ (b = pending[i] \/ \E k \in DOMAIN claims[i] : claims[i][k] = b)

\* Granted, Retry and a closed connection: try again.
TryAgain(b) ==
  /\ Moves(b, "asked", "connect")
  /\ reply[b] \in {"granted", "retry"} \/ (reply[b] = "none" /\ ~Connected(b))
  /\ UNCHANGED <<mac, fileVars, claimVars>>

OwnerConflict(b) ==
  /\ Moves(b, "asked", "gone")
  /\ reply[b] = "alive"
  /\ Release(b)
  /\ UNCHANGED <<mac, ownerFile, brokerFile, claimVars>>

AcquisitionTimesOut(b) ==
  /\ pc[b] \in {"lock", "connect", "asked"}
  /\ GoTo(b, "gone")
  /\ Release(b)
  /\ UNCHANGED <<mac, ownerFile, brokerFile, claimVars>>

\* The stale file is unlinked and a new socket bound, owner.sock first.
BindOwner(b) ==
  /\ Moves(b, "bindOwner", "bindBroker")
  /\ ownerFile' = b
  /\ UNCHANGED <<mac, lock, brokerFile, claimVars>>

BindBroker(b) ==
  /\ Moves(b, "bindBroker", "unlock")
  /\ brokerFile' = b
  /\ UNCHANGED <<mac, lock, ownerFile, claimVars>>

BindFails(b) ==
  /\ pc[b] \in {"bindOwner", "bindBroker"}
  /\ IF pc[b] = "bindBroker" THEN GoTo(b, "statOwner") /\ UNCHANGED lock
     ELSE GoTo(b, "gone") /\ Release(b)
  /\ UNCHANGED <<mac, ownerFile, brokerFile, claimVars>>

Unlock(b) ==
  /\ Moves(b, "unlock", "serving")
  /\ Release(b)
  /\ UNCHANGED <<mac, ownerFile, brokerFile, claimVars>>

-----------------------------------------------------------------------------
(* The incumbent's loop.                                                   *)

Serving(i) == pc[i] = "serving"
Foreign(i, b) == OwnerOf[b] # OwnerOf[i]

\* Writing an answer succeeds while the claimant reads.
Waiting(b) == pc[b] = "asked" /\ reply[b] = "none"
Tell(b, answer) == reply' = IF Waiting(b) THEN [reply EXCEPT ![b] = answer] ELSE reply

\* The loop ends with a takeover only if the claimant was told.
Grant(i, b) ==
  /\ Tell(b, "granted")
  /\ IF Waiting(b) THEN GoTo(i, "teardown") ELSE UNCHANGED pc

NoProbe == UNCHANGED <<expired, probe, unacked, acked>>

\* The claims are taken in order; one that could not be read is dropped.
TakeClaim(i) ==
  /\ Serving(i) /\ claims[i] # <<>>
  /\ claims' = [claims EXCEPT ![i] = Tail(@)]
  /\ LET b == Head(claims[i])
     IN \/ /\ ~Foreign(i, b)
           /\ Grant(i, b) /\ NoProbe
           /\ UNCHANGED pending
        \/ /\ ~Waiting(b) /\ NoProbe  \* it left before it had asked
           /\ UNCHANGED <<pc, reply, pending>>
        \/ /\ Foreign(i, b) /\ pending[i] # NoBroker
           /\ Tell(b, "retry") /\ NoProbe
           /\ UNCHANGED <<pc, pending>>
        \/ /\ Foreign(i, b) /\ pending[i] = NoBroker  \* the probe is written
           /\ pending' = [pending EXCEPT ![i] = b]
           /\ expired' = [expired EXCEPT ![i] = FALSE]
           /\ probe' = [probe EXCEPT ![i] = @ + 1]
           /\ unacked' = [unacked EXCEPT ![i] = @ \cup {probe'[i]}]
           /\ acked' = [acked EXCEPT ![i] = FALSE]
           /\ UNCHANGED <<pc, reply>>
        \/ /\ Foreign(i, b) /\ pending[i] = NoBroker /\ mac[i] = "down"
           /\ Grant(i, b) /\ NoProbe
           /\ UNCHANGED pending
  /\ UNCHANGED <<mac, fileVars, control>>

\* The queue of claims is full: one that comes behind others is turned away, unread.
TurnAway(i) ==
  /\ Serving(i) /\ Len(claims[i]) > 1
  /\ claims' = [claims EXCEPT ![i] = Front(@)]
  /\ Tell(Last(claims[i]), "retry") /\ NoProbe
  /\ UNCHANGED <<pc, mac, fileVars, pending, control>>

\* The reader thread stamps the acknowledgement when it arrives.
MacAcks(i, n) ==
  /\ Serving(i) /\ mac[i] = "up"
  /\ n \in unacked[i]
  /\ unacked' = [unacked EXCEPT ![i] = @ \ {n}]
  /\ control' = [control EXCEPT ![i] = Append(@, [nonce |-> n, inTime |-> ~expired[i]])]
  /\ acked' = [acked EXCEPT ![i] = @ \/ (n = probe[i] /\ ~expired[i])]
  /\ UNCHANGED <<pc, mac, fileVars, claims, reply, pending, expired, probe>>

DeadlinePasses(i) ==
  /\ pending[i] # NoBroker /\ ~expired[i]
  /\ expired' = [expired EXCEPT ![i] = TRUE]
  /\ UNCHANGED <<pc, mac, fileVars, claims, reply, pending, probe, unacked, control, acked>>

\* Mutant: the acknowledgement of any probe will do.
ProvesAny(i, ack) == ack.inTime

Proves(i, ack) == ack.nonce = probe[i] /\ ack.inTime

HandleAck(i) ==
  /\ Serving(i) /\ control[i] # <<>>
  /\ control' = [control EXCEPT ![i] = Tail(@)]
  /\ IF pending[i] # NoBroker /\ Proves(i, Head(control[i]))
     THEN /\ Tell(pending[i], "alive")
          /\ pending' = [pending EXCEPT ![i] = NoBroker]
     ELSE UNCHANGED <<reply, pending>>
  /\ NoProbe
  /\ UNCHANGED <<pc, mac, fileVars, claims>>

\* owner_alive_at_deadline: what the reader queued before the deadline counts.
HandleDeadline(i) ==
  /\ Serving(i) /\ pending[i] # NoBroker /\ expired[i]
  /\ control' = [control EXCEPT ![i] = <<>>]
  /\ pending' = [pending EXCEPT ![i] = NoBroker]
  /\ IF \E k \in DOMAIN control[i] : Proves(i, control[i][k])
     THEN Tell(pending[i], "alive") /\ UNCHANGED pc
     ELSE Grant(i, pending[i])
  /\ NoProbe
  /\ UNCHANGED <<mac, fileVars, claims>>

\* The channel is lost: delivered after every acknowledgement received.
HandleTransport(i) ==
  /\ Serving(i) /\ mac[i] = "down" /\ control[i] = <<>>
  /\ GoTo(i, "teardown")
  /\ pending' = [pending EXCEPT ![i] = NoBroker]
  /\ IF pending[i] = NoBroker THEN UNCHANGED reply ELSE Tell(pending[i], "granted")
  /\ NoProbe
  /\ UNCHANGED <<mac, fileVars, claims, control>>

\* The writer failed: the loop ends without an answer to the claimant.
WriterFailed(i) ==
  /\ mac[i] = "down"
  /\ Moves(i, "serving", "teardown")
  /\ UNCHANGED <<mac, fileVars, claimVars>>

-----------------------------------------------------------------------------
(* The end of a broker: its listeners are dropped, broker.sock first. Each    *)
(* drop looks whose file it is before it unlinks it.                         *)

StatBroker(i) ==
  /\ pc[i] = "teardown"
  /\ GoTo(i, IF brokerFile = i THEN "unlinkBroker" ELSE "statOwner")
  /\ UNCHANGED <<mac, fileVars, claimVars>>

UnlinkBroker(i) ==
  /\ Moves(i, "unlinkBroker", "statOwner")
  /\ brokerFile' = NoBroker
  /\ UNCHANGED <<mac, lock, ownerFile, claimVars>>

StatOwner(i) ==
  /\ pc[i] = "statOwner"
  /\ GoTo(i, IF ownerFile = i THEN "unlinkOwner" ELSE "closeOwner")
  /\ UNCHANGED <<mac, fileVars, claimVars>>

UnlinkOwner(i) ==
  /\ Moves(i, "unlinkOwner", "closeOwner")
  /\ ownerFile' = NoBroker
  /\ UNCHANGED <<mac, lock, brokerFile, claimVars>>

CloseOwner(i) ==
  /\ Moves(i, "closeOwner", "gone")
  /\ Release(i)
  /\ UNCHANGED <<mac, ownerFile, brokerFile, claimVars>>

-----------------------------------------------------------------------------
(* The environment.                                                        *)

MacLost(b) ==
  /\ mac[b] = "up" /\ pc[b] # "gone"
  /\ mac' = [mac EXCEPT ![b] = "down"]
  /\ UNCHANGED <<pc, fileVars, claimVars>>

\* The process dies: the files stay, its lock and its sockets go.
Crash(b) ==
  /\ pc[b] \notin {"new", "gone"}
  /\ GoTo(b, "gone")
  /\ Release(b)
  /\ UNCHANGED <<mac, ownerFile, brokerFile, claimVars>>

Acquires(b) ==
  \/ Start(b) \/ TakeLock(b) \/ Connect(b) \/ TryAgain(b) \/ OwnerConflict(b)
  \/ BindOwner(b) \/ BindBroker(b) \/ Unlock(b)
Serves(i) ==
  TakeClaim(i) \/ TurnAway(i) \/ HandleAck(i) \/ HandleDeadline(i) \/ HandleTransport(i)
Leaves(i) ==
  StatBroker(i) \/ UnlinkBroker(i) \/ StatOwner(i) \/ UnlinkOwner(i) \/ CloseOwner(i)

Next ==
  \E b \in Broker :
    \/ Acquires(b) \/ Serves(b) \/ Leaves(b)
    \/ AcquisitionTimesOut(b) \/ BindFails(b)
    \/ DeadlinePasses(b) \/ (\E n \in unacked[b] : MacAcks(b, n))
    \/ WriterFailed(b) \/ MacLost(b) \/ Crash(b)

Spec == Init /\ [][Next]_vars

\* Processes run on and time passes.
FairSpec ==
  /\ Spec
  /\ \A b \in Broker :
       /\ WF_vars(Acquires(b)) /\ WF_vars(Serves(b)) /\ WF_vars(Leaves(b))
       /\ WF_vars(DeadlinePasses(b))
       /\ WF_vars(TakeClaim(b)) /\ WF_vars(HandleDeadline(b))

-----------------------------------------------------------------------------
(* Properties.                                                             *)

Place == {"new", "lock", "connect", "asked", "bindOwner", "gone"} \cup Listening

\* Every variable of the arbitration has its type.
TypeOK ==
  /\ pc \in [Broker -> Place]
  /\ mac \in [Broker -> {"up", "down"}]
  /\ lock \in Broker \cup {NoBroker}
  /\ ownerFile \in Broker \cup {NoBroker}
  /\ brokerFile \in Broker \cup {NoBroker}
  /\ claims \in [Broker -> Seq(Broker)]
  /\ reply \in [Broker -> {"none", "granted", "retry", "alive"}]
  /\ pending \in [Broker -> Broker \cup {NoBroker}]
  /\ expired \in [Broker -> BOOLEAN]
  /\ probe \in [Broker -> Nat]
  /\ unacked \in [Broker -> SUBSET Nat]
  /\ control \in [Broker -> Seq([nonce : Nat, inTime : BOOLEAN])]
  /\ acked \in [Broker -> BOOLEAN]

\* At most one broker has the endpoint: a newcomer binds only after the incumbent
\* stopped serving and joined its requests, whoever crashes or times out.
Owns(b) == pc[b] \in {"bindBroker", "unlock", "serving", "teardown"}
OneBroker == TypeOK /\ \A a, b \in Broker : (Owns(a) /\ Owns(b)) => a = b

\* The sockets of the serving broker stay in place: neither the drop of its
\* predecessor nor the bind of a newcomer ever unlinks them.
SocketsInPlace ==
  \A b \in Broker : Serving(b) => ownerFile = b /\ brokerFile = b

\* A foreign claim is decided by the probe its own claim caused: it is never
\* granted against an incumbent whose Mac acknowledged that probe in time, even if
\* the loop sees the acknowledgement after the deadline, and "alive" is never told
\* on the acknowledgement of an older claim's probe.
DecidedByProbe ==
  [][\A i, b \in Broker : pending[i] = b /\ reply[b] = "none" =>
       /\ reply'[b] = "granted" => ~acked[i]
       /\ reply'[b] = "alive" => acked[i]]_vars

\* Every broker that has the lock ends up serving or gone: no incumbent, alive,
\* dead or leaving, keeps a claimant waiting forever.
ClaimSettles ==
  \A b \in Broker : pc[b] \in {"connect", "asked"} ~> pc[b] \in {"bindOwner", "gone"}
=============================================================================
