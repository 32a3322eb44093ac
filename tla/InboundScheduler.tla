-------------------------- MODULE InboundScheduler --------------------------
(***************************************************************************)
(* The inbound scheduler between its two threads: the reader, which feeds   *)
(* it what the peer may send, and the main loop, which pops one item at a   *)
(* time with a gate that may be open or closed for each request             *)
(* (request_ready), and on the executor discards input after a Cancel.      *)
(*                                                                         *)
(* The peer follows the protocol of broker_upload (executor side) or of     *)
(* execute_request (broker side); MaxFrames and MaxOpens bound its stream.  *)
(***************************************************************************)
EXTENDS InboundQueue, FiniteSetsExt

CONSTANTS
  NoId,       \* no discard pending
  MaxFrames,  \* bound: request frames the peer sends
  MaxOpens,   \* bound: invocations that use the same request ID
  MaxControl  \* bound: control messages the peer sends

ASSUME SchedulerAssumption ==
  /\ NoId \notin Id
  /\ MaxFrames \in Nat
  /\ MaxOpens \in Nat
  /\ MaxControl \in Nat

VARIABLES
  sent,       \* frames sent so far for each request: the number of the last one
  opens,      \* invocations started under each request ID
  sending,    \* the peer's stream: "idle", "open", "eof" (input ended), "done"
  cancelled,  \* the peer has sent the Cancel of the current invocation
  controls,   \* control messages sent
  discarding, \* the request whose Cancel was popped, until it is handled
  last,       \* history: number of the last frame popped in turn, per request
  lost        \* history: first frame of the invocation dropped and not reported yet,
              \* 0 if none, Reported once the overload was announced

Reported == -1

peerVars == <<sent, opens, sending, cancelled, controls>>
vars == <<queueVars, peerVars, discarding, last, lost>>

Init ==
  /\ QueueInit
  /\ sent = [id \in Id |-> 0]
  /\ opens = [id \in Id |-> 0]
  /\ sending = [id \in Id |-> "idle"]
  /\ cancelled = [id \in Id |-> FALSE]
  /\ controls = 0
  /\ discarding = NoId
  /\ last = [id \in Id |-> 0]
  /\ lost = [id \in Id |-> 0]

-----------------------------------------------------------------------------
(* What the peer may send next.                                            *)

\* send_cancel_once: at most once per invocation, at any time in it; the upload
\* may still be sending after it, and ends with StdinEof or the shim's own Cancel.
BrokerSends(id, kind) ==
  \/ /\ kind = "Open" /\ sending[id] = "idle" /\ opens[id] < MaxOpens
     /\ opens' = [opens EXCEPT ![id] = @ + 1]
     /\ sending' = [sending EXCEPT ![id] = "open"]
     /\ cancelled' = [cancelled EXCEPT ![id] = FALSE]
  \/ /\ kind = "Stdin" /\ sending[id] = "open"
     /\ UNCHANGED <<opens, sending, cancelled>>
  \/ /\ kind = "StdinEof" /\ sending[id] = "open"
     /\ sending' = [sending EXCEPT ![id] = "eof"]
     /\ UNCHANGED <<opens, cancelled>>
  \/ /\ kind = "Cancel" /\ sending[id] \in {"open", "eof"} /\ ~cancelled[id]
     /\ cancelled' = [cancelled EXCEPT ![id] = TRUE]
     /\ UNCHANGED <<opens, sending>>
  \/ /\ kind = "Cancel" /\ sending[id] = "open"
     /\ sending' = [sending EXCEPT ![id] = "eof"]
     /\ UNCHANGED <<opens, cancelled>>

\* execute_request: output, then a terminal; an Error may follow an Exit.
ExecutorSends(id, kind) ==
  /\ \/ kind = "Stdout" /\ sending[id] = "idle" /\ UNCHANGED sending
     \/ /\ kind = "Exit" /\ sending[id] = "idle"
        /\ sending' = [sending EXCEPT ![id] = "eof"]
     \/ /\ kind = "Error" /\ sending[id] \in {"idle", "eof"}
        /\ sending' = [sending EXCEPT ![id] = "done"]
  /\ UNCHANGED <<opens, cancelled>>

PeerSends(id, kind) ==
  /\ MapThenSumSet(LAMBDA i : sent[i], Id) < MaxFrames
  /\ sent' = [sent EXCEPT ![id] = @ + 1]
  /\ IF BrokerSide THEN ExecutorSends(id, kind) ELSE BrokerSends(id, kind)
  /\ UNCHANGED controls

StartsInvocation(id) == opens'[id] # opens[id]

NextFrame(id, kind) == [kind |-> kind, n |-> sent[id] + 1]

\* The broker finished the invocation (terminal seen, worker joined): the ID may
\* be used again.
RequestFinishes(id) ==
  /\ ~BrokerSide
  /\ sending[id] \in {"open", "eof"}
  /\ opens[id] < MaxOpens
  /\ sending' = [sending EXCEPT ![id] = "idle"]
  /\ UNCHANGED <<queueVars, sent, opens, cancelled, controls, discarding, last, lost>>

-----------------------------------------------------------------------------
(* The reader thread.                                                      *)

\* The loss reported for the previous invocation is not the new one's.
LostBefore(id) == IF StartsInvocation(id) /\ lost[id] = Reported THEN 0 ELSE lost[id]

ReceiveControl ==
  /\ controls < MaxControl
  /\ controls' = controls + 1
  /\ \/ \E c \in ControlMsg : EnqueueControl(c)
     \/ ControlOverflow
  /\ UNCHANGED <<sent, opens, sending, cancelled, discarding, last, lost>>

ReceiveAccepted(id) ==
  /\ \E kind \in Kind :
       /\ PeerSends(id, kind)
       /\ EnqueueRequest(id, NextFrame(id, kind))
       /\ lost' = [lost EXCEPT ![id] = LostBefore(id)]
  /\ UNCHANGED <<discarding, last>>

ReceiveOverflow(id) ==
  /\ \E kind \in Kind, budgetFull \in BOOLEAN :
       /\ PeerSends(id, kind)
       /\ EnqueueOverflow(id, NextFrame(id, kind), budgetFull /\ ~BrokerSide)
       /\ lost' = [lost EXCEPT ![id] =
            IF retained'[id] = retained[id] /\ LostBefore(id) = 0
            THEN sent'[id] ELSE LostBefore(id)]
  /\ UNCHANGED <<discarding, last>>

ReceiveRefused(id) ==
  /\ \E kind \in Kind : PeerSends(id, kind)
  /\ TooManyRequests(id)
  /\ UNCHANGED <<discarding, last, lost>>

ConnectionLost ==
  /\ EnqueueFailure
  /\ UNCHANGED <<peerVars, discarding, last, lost>>

-----------------------------------------------------------------------------
(* The main loop: one pop, then the handler of what was popped.            *)

Idle == discarding = NoId

TakeControl ==
  /\ Idle
  /\ \E c \in ControlMsg : PopControl(c)
  /\ UNCHANGED <<peerVars, discarding, last, lost>>

\* The Cancel handler discards queued input when the request has a route.
TakeCancel(id) ==
  /\ Idle
  /\ \E f \in At(events[id]) \cup At(retained[id]) : PopCancel(id, f)
  /\ discarding' \in {id, NoId}
  /\ UNCHANGED <<peerVars, last, lost>>

DiscardAfterCancel(id) ==
  /\ discarding = id
  /\ discarding' = NoId
  /\ IF mode[id] = "absent" THEN UNCHANGED queueVars ELSE DiscardRequestInput(id)
  /\ UNCHANGED <<peerVars, last, lost>>

\* Draining loses the accepted frames of c, unless its loss is reported.
TakeCancelOverloaded(c, id) ==
  /\ Idle
  /\ PopCancelOverloaded(c, id)
  /\ lost' = [i \in Id |->
       IF i = id THEN Reported
       ELSE IF i = c /\ events[c] # <<>> /\ (lost[c] = 0 \/ events[c][1].n < lost[c])
       THEN events[c][1].n ELSE lost[i]]
  /\ UNCHANGED <<peerVars, discarding, last>>

TakeOverload(id) ==
  /\ Idle
  /\ PopOverload(id)
  /\ lost' = [lost EXCEPT ![id] = Reported]
  /\ UNCHANGED <<peerVars, discarding, last>>

TakeReady(id) ==
  /\ Idle
  /\ \E gate \in SUBSET Id, f \in At(events[id]) \cup At(retained[id]) :
       /\ PopReady(id, f, gate)
       /\ last' = [last EXCEPT ![id] = f.n]
  /\ UNCHANGED <<peerVars, discarding, lost>>

TakeTransport ==
  /\ Idle
  /\ PopTransport
  /\ UNCHANGED <<peerVars, discarding, last, lost>>

-----------------------------------------------------------------------------
Reader ==
  \/ ReceiveControl
  \/ ConnectionLost
  \/ \E id \in Id : ReceiveAccepted(id) \/ ReceiveOverflow(id) \/ ReceiveRefused(id)

MainLoop ==
  \/ TakeControl
  \/ TakeTransport
  \/ \E id \in Id :
       \/ TakeCancel(id)
       \/ DiscardAfterCancel(id)
       \/ TakeOverload(id)
       \/ TakeReady(id)
       \/ \E c \in Id : TakeCancelOverloaded(c, id)

Next == Reader \/ MainLoop \/ \E id \in Id : RequestFinishes(id)

Spec == Init /\ [][Next]_vars

-----------------------------------------------------------------------------
(* Type invariant and safety.                                              *)

\* Every variable of the scheduler and of its two threads has its type.
TypeOK ==
  /\ QueueTypeOK
  /\ sent \in [Id -> Nat]
  /\ opens \in [Id -> Nat]
  /\ sending \in [Id -> {"idle", "open", "eof", "done"}]
  /\ cancelled \in [Id -> BOOLEAN]
  /\ controls \in Nat
  /\ discarding \in Id \cup {NoId}
  /\ last \in [Id -> Nat]
  /\ lost \in [Id -> Nat \cup {Reported}]

\* The accepted frames of all requests, by request and place, and those of them
\* that carry a payload unit.
Accepted == UNION {{id} \X DOMAIN events[id] : id \in Id}
Payloads == {p \in Accepted : Size(events[p[1]][p[2]]) = 1}

\* The four counters the limits are checked against equal what is queued: no
\* path (pop, Cancel, drain before an overload, discard) forgets to give back
\* or gives back twice, which would wrap a usize.
AccountingExact ==
  /\ \A id \in Id :
       /\ frames[id] = Len(events[id])
       /\ bytes[id] = Cardinality({i \in DOMAIN events[id] : Size(events[id][i]) = 1})
  /\ totalFrames = Cardinality(Accepted)
  /\ totalBytes = Cardinality(Payloads)

\* Requests that hold an entry of the map.
Known == {id \in Id : mode[id] # "absent"}

\* Whatever the peer sends, memory stays within the configured limits: accepted
\* frames by the two counters, map entries by the request-ID limit, and retained
\* frames by the retention rules alone: the executor tests their number only
\* while the next Open is among them, so the two ends of an invocation and an
\* Open that follows them may still join a full list. The counters the limits are
\* checked against are exact, or the limits would mean nothing.
Bounded ==
  /\ AccountingExact
  /\ Len(control) <= ControlCapacity
  /\ totalFrames <= FramesTotal /\ totalBytes <= BytesTotal
  /\ \A id \in Id :
       /\ frames[id] <= FramesPerRequest /\ bytes[id] <= BytesPerRequest
       /\ Len(retained[id]) <= IF BrokerSide THEN 1 ELSE FramesPerRequest + 2
  /\ Cardinality(Known) <= MaxQueues

\* Frames of one request are popped in the order the peer sent them, accepted
\* ones before retained ones (only a Cancel overtakes), and once a frame of the
\* first invocation of an ID was dropped, no later frame reaches the main loop
\* before the overload that reports the loss: the child never reads a stdin, nor
\* the shim an output, with a hole in the middle.  (An invocation that reuses an
\* ID while its predecessor's frames are still retained has no such promise.)
NoSilentGap ==
  [][\A id \in Id :
       last'[id] # last[id] =>
         /\ last'[id] > last[id]
         /\ opens[id] <= 1 => lost[id] <= 0 \/ last'[id] < lost[id]]_vars
=============================================================================
