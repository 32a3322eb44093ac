---------------------------- MODULE InboundQueue ----------------------------
(***************************************************************************)
(* The inbound scheduler of one SSH channel (InboundScheduler and          *)
(* InboundState in src/src/ego_bridge.rs): the reader thread enqueues every *)
(* decoded frame, the main loop of the broker or of the executor pops them. *)
(* Both ends run the same code; BrokerSide selects the broker's rules.     *)
(*                                                                         *)
(* Each operator below is one critical section under the scheduler's mutex. *)
(* This module has no Init/Next of its own reader and consumer: the modules *)
(* InboundScheduler and Executor compose it with the threads that call it.  *)
(*                                                                         *)
(* Data abstraction: a request frame is its kind and a number n that stands *)
(* for its payload (its place in the sender's stream for that request). A   *)
(* payload frame weighs one unit, the largest payload the protocol allows.  *)
(***************************************************************************)
EXTENDS Integers, Sequences, FiniteSets

CONSTANTS
  Id,               \* request IDs
  ControlMsg,       \* control messages (BrokerReady/OwnerProbe or Welcome/OwnerProbeAck)
  BrokerSide,       \* TRUE on the Linux broker, FALSE on the Mac executor
  ControlCapacity,  \* INBOUND_CONTROL_CAPACITY
  FramesPerRequest, \* INBOUND_REQUEST_FRAMES_PER_REQUEST
  BytesPerRequest,  \* INBOUND_REQUEST_BYTES_PER_REQUEST, in payload units
  FramesTotal,      \* INBOUND_REQUEST_FRAMES_TOTAL
  BytesTotal,       \* INBOUND_REQUEST_BYTES_TOTAL, in payload units
  MaxQueues         \* MAX_CONCURRENT_REQUESTS * 2

ASSUME InboundAssumption ==
  /\ BrokerSide \in BOOLEAN
  /\ ControlCapacity \in Nat \ {0}
  /\ FramesPerRequest \in Nat \ {0}
  /\ BytesPerRequest \in Nat
  /\ FramesTotal \in Nat
  /\ BytesTotal \in Nat
  /\ MaxQueues \in Nat \ {0}

VARIABLES
  control,     \* control lane, FIFO
  mode,        \* per request: is it in the map, and its two overload flags
  events,      \* frames accepted within the limits, FIFO
  retained,    \* frames kept although the queue is overloaded
  frames,      \* ordinary_frames of each queue
  bytes,       \* ordinary_bytes of each queue
  totalFrames, \* ordinary_frames of the whole channel
  totalBytes,  \* ordinary_bytes of the whole channel
  ready,       \* round-robin list of requests with a deliverable frame
  overload,    \* requests whose overload is still to be announced
  terminal,    \* the transport error waiting to be delivered
  reading      \* the reader thread is alive

requestVars == <<mode, events, retained, frames, bytes, totalFrames, totalBytes>>
queueVars == <<control, requestVars, ready, overload, terminal, reading>>

-----------------------------------------------------------------------------
(* Frames and queues.                                                      *)

InputKind == {"Open", "Stdin", "StdinEof", "Cancel"}
OutputKind == {"Stdout", "Exit", "Error"}
Kind == IF BrokerSide THEN OutputKind ELSE InputKind
Frame == [kind : Kind, n : Nat]

\* "overloaded": overload pending; "announced": delivered, retained frames left.
Mode == {"absent", "normal", "overloaded", "announced"}

Size(f) == IF f.kind \in {"Stdin", "Stdout"} THEN 1 ELSE 0
HasPayload(f) == f.kind \in {"Open", "Stdin", "Stdout"}

HasKind(s, k) == \E i \in DOMAIN s : s[i].kind = k
At(s) == {s[i] : i \in DOMAIN s}
Drop(s, i) == SubSeq(s, 1, i - 1) \o SubSeq(s, i + 1, Len(s))

\* i is the first position of s at which P holds of the element.
IsFirst(s, i, P(_)) ==
  /\ i \in DOMAIN s
  /\ P(s[i])
  /\ \A j \in 1 .. i - 1 : ~P(s[j])

\* Mutant: the request stays in the list it is removed from.
WithoutKept(s, id) == s

\* VecDeque::retain(|x| x != id) on a list without duplicates (IndexExact).
Without(s, id) ==
  IF \E i \in DOMAIN s : s[i] = id
  THEN Drop(s, CHOOSE i \in DOMAIN s : s[i] = id)
  ELSE s

QueueInit ==
  /\ control = <<>>
  /\ mode = [id \in Id |-> "absent"]
  /\ events = [id \in Id |-> <<>>]
  /\ retained = [id \in Id |-> <<>>]
  /\ frames = [id \in Id |-> 0]
  /\ bytes = [id \in Id |-> 0]
  /\ totalFrames = 0
  /\ totalBytes = 0
  /\ ready = <<>>
  /\ overload = <<>>
  /\ terminal = FALSE
  /\ reading = TRUE

-----------------------------------------------------------------------------
(* enqueue: called by the reader thread for every frame it decodes.        *)

SetTerminal ==
  /\ terminal' = TRUE
  /\ reading' = FALSE
  /\ UNCHANGED <<control, requestVars, ready, overload>>

\* The stream ended, failed, or carried a frame that is no request's.
EnqueueFailure ==
  /\ reading /\ ~terminal
  /\ SetTerminal

EnqueueControl(c) ==
  /\ reading /\ ~terminal
  /\ Len(control) < ControlCapacity
  /\ control' = Append(control, c)
  /\ UNCHANGED <<requestVars, ready, overload, terminal, reading>>

ControlOverflow ==
  /\ reading /\ ~terminal
  /\ Len(control) = ControlCapacity
  /\ SetTerminal

Admits(id) ==
  \/ mode[id] # "absent"
  \/ Cardinality({i \in Id : mode[i] # "absent"}) # MaxQueues

TooManyRequests(id) ==
  /\ reading /\ ~terminal
  /\ ~Admits(id)
  /\ SetTerminal

\* Mutant: an overloaded queue accepts frames again, once earlier ones are popped.
OverflowsForgotten(id, f) ==
  \/ totalFrames = FramesTotal
  \/ totalBytes + Size(f) > BytesTotal
  \/ frames[id] = FramesPerRequest
  \/ bytes[id] + Size(f) > BytesPerRequest

Overflows(id, f) ==
  \/ mode[id] \in {"overloaded", "announced"}
  \/ totalFrames = FramesTotal
  \/ totalBytes + Size(f) > BytesTotal
  \/ frames[id] = FramesPerRequest
  \/ bytes[id] + Size(f) > BytesPerRequest

\* Which frame an overloaded queue still keeps: on the broker the request's
\* first terminal; on the executor the end of the current invocation and, once
\* that was seen, the next invocation that reuses the request ID.
Retains(id, f) ==
  IF BrokerSide THEN
    retained[id] = <<>> /\ f.kind \in {"Exit", "Error"}
  ELSE IF HasKind(retained[id], "Open") THEN
    Len(retained[id]) < FramesPerRequest
  ELSE
    \/ f.kind = "StdinEof" /\ ~HasKind(retained[id], "StdinEof")
    \/ f.kind = "Cancel" /\ ~HasKind(retained[id], "Cancel")
    \/ /\ f.kind = "Open"
       /\ HasKind(retained[id], "StdinEof") \/ HasKind(retained[id], "Cancel")

\* The frame exceeds a limit, or (budgetFull) the budget shared by all remotes.
EnqueueOverflow(id, f, budgetFull) ==
  /\ reading /\ ~terminal
  /\ Admits(id)
  /\ budgetFull => HasPayload(f)
  /\ budgetFull \/ Overflows(id, f)
  /\ LET keep == Retains(id, f)
         new == mode[id] \in {"absent", "normal"}
     IN /\ mode' = [mode EXCEPT ![id] = IF new THEN "overloaded" ELSE @]
        /\ retained' = [retained EXCEPT ![id] = IF keep THEN Append(@, f) ELSE @]
        /\ overload' = IF new THEN Append(overload, id) ELSE overload
        /\ ready' = IF keep /\ mode[id] = "announced" /\ retained[id] = <<>>
                    THEN Append(ready, id) ELSE ready
  /\ UNCHANGED <<control, events, frames, bytes, totalFrames, totalBytes,
                 terminal, reading>>

EnqueueRequest(id, f) ==
  /\ reading /\ ~terminal
  /\ Admits(id)
  /\ ~Overflows(id, f)
  /\ mode' = [mode EXCEPT ![id] = "normal"]
  /\ events' = [events EXCEPT ![id] = Append(@, f)]
  /\ frames' = [frames EXCEPT ![id] = @ + 1]
  /\ bytes' = [bytes EXCEPT ![id] = @ + Size(f)]
  /\ totalFrames' = totalFrames + 1
  /\ totalBytes' = totalBytes + Size(f)
  /\ ready' = IF events[id] = <<>> THEN Append(ready, id) ELSE ready
  /\ UNCHANGED <<control, retained, overload, terminal, reading>>

-----------------------------------------------------------------------------
(* pop_inbound_matching: control, then a Cancel of any request, then an     *)
(* overload whose accepted frames are all delivered, then the first ready   *)
(* request whose gate is open, then the transport error.                    *)

CancelQueued(id) ==
  HasKind(events[id], "Cancel") \/ HasKind(retained[id], "Cancel")
NoCancel == \A id \in Id : ~CancelQueued(id)

PopControl(c) ==
  /\ control # <<>>
  /\ c = Head(control)
  /\ control' = Tail(control)
  /\ UNCHANGED <<requestVars, ready, overload, terminal, reading>>

\* The HashMap has no order: any request with a queued Cancel may be picked.
PopCancel(id, f) ==
  /\ control = <<>>
  /\ CancelQueued(id)
  /\ mode[id] # "overloaded"
  /\ \/ \E i \in DOMAIN events[id] :
          /\ IsFirst(events[id], i, LAMBDA e : e.kind = "Cancel")
          /\ f = events[id][i]
          /\ events' = [events EXCEPT ![id] = Drop(@, i)]
          /\ frames' = [frames EXCEPT ![id] = @ - 1]
          /\ totalFrames' = totalFrames - 1
          /\ UNCHANGED retained
     \/ /\ ~HasKind(events[id], "Cancel")
        /\ \E i \in DOMAIN retained[id] :
             /\ IsFirst(retained[id], i, LAMBDA e : e.kind = "Cancel")
             /\ f = retained[id][i]
             /\ retained' = [retained EXCEPT ![id] = Drop(@, i)]
        /\ UNCHANGED <<events, frames, totalFrames>>
  /\ IF events'[id] = <<>> /\ retained'[id] = <<>>
     THEN /\ mode' = [mode EXCEPT ![id] = "absent"]
          /\ ready' = Without(ready, id)
          /\ overload' = Without(overload, id)
     ELSE UNCHANGED <<mode, ready, overload>>
  /\ UNCHANGED <<control, bytes, totalBytes, terminal, reading>>

\* Announce the first pending overload whose accepted frames ev are gone; rd is
\* the ready list at that point.
Announce(id, ev, rd) ==
  /\ \E k \in DOMAIN overload :
       /\ IsFirst(overload, k, LAMBDA o : ev[o] = <<>>)
       /\ id = overload[k]
       /\ overload' = Drop(overload, k)
  /\ IF retained[id] = <<>>
     THEN mode' = [mode EXCEPT ![id] = "absent"] /\ ready' = rd
     ELSE mode' = [mode EXCEPT ![id] = "announced"] /\ ready' = Append(rd, id)

\* Mutant: the drained payload is not given back.
PayloadForgotten(s) == 0

\* queued_payload_bytes of a queue of accepted frames.
PayloadOf(s) == Cardinality({i \in DOMAIN s : Size(s[i]) = 1})

\* A Cancel of request c whose overload is not announced yet: its accepted
\* frames are dropped, and the pop falls through to the overload list.
PopCancelOverloaded(c, id) ==
  /\ control = <<>>
  /\ CancelQueued(c)
  /\ mode[c] = "overloaded"
  /\ events' = [events EXCEPT ![c] = <<>>]
  /\ frames' = [frames EXCEPT ![c] = @ - Len(events[c])]
  /\ bytes' = [bytes EXCEPT ![c] = @ - PayloadOf(events[c])]
  /\ totalFrames' = totalFrames - Len(events[c])
  /\ totalBytes' = totalBytes - PayloadOf(events[c])
  /\ Announce(id, events', Without(ready, c))
  /\ UNCHANGED <<control, retained, terminal, reading>>

PopOverload(id) ==
  /\ control = <<>>
  /\ NoCancel
  /\ Announce(id, events, ready)
  /\ UNCHANGED <<control, events, retained, frames, bytes, totalFrames,
                 totalBytes, terminal, reading>>

NoOverload == \A k \in DOMAIN overload : events[overload[k]] # <<>>

\* Mutant: retained frames are popped before accepted ones.
FromRetainedFirst(id) == retained[id] # <<>>

\* Retained frames come after the accepted ones.
FromRetained(id) == events[id] = <<>>

\* gate is the set of requests for which the caller's request_ready holds.
PopReady(id, f, gate) ==
  /\ control = <<>>
  /\ NoCancel
  /\ NoOverload
  /\ \E k \in DOMAIN ready :
       /\ IsFirst(ready, k, LAMBDA r : r \in gate)
       /\ id = ready[k]
       /\ LET late == FromRetained(id)
              from == IF late THEN retained[id] ELSE events[id]
              left == events'[id] # <<>> \/ retained'[id] # <<>>
          IN /\ from # <<>>
             /\ f = Head(from)
             /\ IF late
                THEN /\ retained' = [retained EXCEPT ![id] = Tail(@)]
                     /\ UNCHANGED <<events, frames, bytes, totalFrames, totalBytes>>
                ELSE /\ events' = [events EXCEPT ![id] = Tail(@)]
                     /\ frames' = [frames EXCEPT ![id] = @ - 1]
                     /\ bytes' = [bytes EXCEPT ![id] = @ - Size(f)]
                     /\ totalFrames' = totalFrames - 1
                     /\ totalBytes' = totalBytes - Size(f)
                     /\ UNCHANGED retained
             /\ mode' = [mode EXCEPT ![id] =
                  IF ~left /\ (@ = "normal" \/ (@ = "announced" /\ late))
                  THEN "absent" ELSE @]
             /\ ready' = IF left /\ (events'[id] # <<>> \/ mode[id] = "announced")
                         THEN Append(Drop(ready, k), id) ELSE Drop(ready, k)
  /\ UNCHANGED <<control, overload, terminal, reading>>

InboundDrained ==
  /\ control = <<>>
  /\ ready = <<>>
  /\ overload = <<>>
  /\ \A id \in Id : events[id] = <<>>

PopTransport ==
  /\ NoCancel
  /\ InboundDrained
  /\ terminal
  /\ terminal' = FALSE
  /\ UNCHANGED <<control, requestVars, ready, overload, reading>>

-----------------------------------------------------------------------------
(* discard_request_input: called by the executor when it cancels a request. *)

\* discard_input_before_next_open: input goes as long as no Open was met.
InputBeforeOpen(s) ==
  {i \in DOMAIN s : /\ s[i].kind \in {"Stdin", "StdinEof"}
                    /\ \A j \in 1 .. i : s[j].kind # "Open"}

\* VecDeque::retain: the elements of s at the positions P, in their order.
Nth(P, k) == CHOOSE i \in P : Cardinality({j \in P : j <= i}) = k
Picked(s, P) == [k \in 1 .. Cardinality(P) |-> s[Nth(P, k)]]

Survivors(s) == Picked(s, DOMAIN s \ InputBeforeOpen(s))

DiscardRequestInput(id) ==
  /\ mode[id] # "absent"
  /\ LET ev == Survivors(events[id])
         rt == Survivors(retained[id])
         input == InputBeforeOpen(events[id])
         gone == Cardinality(input)
         size == Cardinality({i \in input : Size(events[id][i]) = 1})
     IN /\ events' = [events EXCEPT ![id] = ev]
        /\ retained' = [retained EXCEPT ![id] = rt]
        /\ frames' = [frames EXCEPT ![id] = @ - gone]
        /\ bytes' = [bytes EXCEPT ![id] = @ - size]
        /\ totalFrames' = totalFrames - gone
        /\ totalBytes' = totalBytes - size
        /\ ready' = IF ev # <<>> \/ (mode[id] = "announced" /\ rt # <<>>)
                    THEN Append(Without(ready, id), id) ELSE Without(ready, id)
        /\ mode' = [mode EXCEPT ![id] =
             IF ev # <<>> \/ rt # <<>> \/ @ = "overloaded" THEN @ ELSE "absent"]
  /\ UNCHANGED <<control, overload, terminal, reading>>

-----------------------------------------------------------------------------
(* What every critical section preserves.                                  *)

\* Every variable of the scheduler has its type. The counters are integers here:
\* AccountingExact says what they are.
QueueTypeOK ==
  /\ control \in Seq(ControlMsg)
  /\ mode \in [Id -> Mode]
  /\ events \in [Id -> Seq(Frame)]
  /\ retained \in [Id -> Seq(Frame)]
  /\ frames \in [Id -> Int]
  /\ bytes \in [Id -> Int]
  /\ totalFrames \in Int
  /\ totalBytes \in Int
  /\ ready \in Seq(Id)
  /\ overload \in Seq(Id)
  /\ terminal \in BOOLEAN
  /\ reading \in BOOLEAN

Distinct(s) == \A i, j \in DOMAIN s : s[i] = s[j] => i = j

\* A request is listed as ready exactly when a frame of it can be popped, and
\* for an overload exactly while one is pending, each at most once: no accepted
\* frame is ever stranded and no overload is forgotten or announced twice
\* (enqueue, pop_inbound_matching and discard_request_input each maintain the
\* two lists by hand).
IndexExact ==
  /\ Distinct(ready)
  /\ Distinct(overload)
  /\ \A id \in Id :
       /\ id \in At(ready) <=> events[id] # <<>> \/ mode[id] = "announced"
       /\ id \in At(overload) <=> mode[id] = "overloaded"

\* A map entry exists only while it has something to deliver or to announce: no
\* entry leaks, so the request-ID limit counts only live requests, and a frame
\* is retained only behind an overload.
NoLeakedQueue ==
  \A id \in Id :
    /\ mode[id] = "absent" => events[id] = <<>> /\ retained[id] = <<>>
    /\ mode[id] = "normal" => events[id] # <<>> /\ retained[id] = <<>>
    /\ mode[id] = "announced" => events[id] = <<>> /\ retained[id] # <<>>

\* The map and its two lists agree, and hold nothing that nobody will pop.
QueuesExact == IndexExact /\ NoLeakedQueue
=============================================================================
