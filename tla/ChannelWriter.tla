--------------------------- MODULE ChannelWriter ---------------------------
(***************************************************************************)
(* The outbound half of one SSH channel (ChannelWriter, WriterState and      *)
(* channel_writer_loop in src/src/ego_bridge.rs): the owner and its clones   *)
(* enqueue frames, one thread writes them, control frames first and then     *)
(* one frame of each request in turn.                                       *)
(*                                                                         *)
(* A frame is its kind, its number in its lane, and who waits for it to be   *)
(* committed. Its bytes, and how a write may fail (timeout, closed pipe), are *)
(* abstracted: a write succeeds or fails. A refused call changes nothing     *)
(* but the payload reservation it gives back.                               *)
(***************************************************************************)
EXTENDS Integers, Sequences, FiniteSets

CONSTANTS
  Id,               \* request IDs
  Ctl,              \* the control lane
  Owner,            \* the writer's owner
  Clone,            \* the threads that may hold a clone
  NoOne,            \* a frame nobody waits for
  ControlCapacity,  \* WRITER_CONTROL_CAPACITY
  NormalCapacity,   \* REQUEST_QUEUE_CAPACITY
  ReservedCapacity, \* reserved frames per request (2)
  PayloadLimit,     \* PAYLOAD_LIMIT, in frames
  MaxFrames         \* bound: frames accepted in each lane

ASSUME WriterAssumption ==
  /\ Ctl \notin Id
  /\ Owner \notin Clone /\ IsFiniteSet(Clone)
  /\ NoOne \notin Clone \cup {Owner}
  /\ ControlCapacity \in Nat \ {0}
  /\ NormalCapacity \in Nat \ {0}
  /\ ReservedCapacity \in Nat \ {0}
  /\ PayloadLimit \in Nat
  /\ MaxFrames \in Nat

Lane == Id \cup {Ctl}
Caller == Clone \cup {Owner}
Kind == {"control", "data", "cancel", "terminal"}
Frame == [kind : Kind, n : Nat, wait : Caller \cup {NoOne}]

VARIABLES
  control,     \* the control lane
  queue,       \* per request: its frames
  hasTerminal, \* RequestFrames.terminal
  ready,       \* requests with a frame, in turn
  producers,   \* live handles
  stopping, closing, failure,
  expired,     \* the shutdown deadline has passed
  usage,       \* payload reserved, in frames
  writer,      \* the writer thread: what it is doing, and the lane and frame
  caller,      \* per thread: what it is doing with its handle
  told,        \* history: answer to the thread's last committed frame
  accepted,    \* history: frames accepted per lane
  wire,        \* history: number of the last frame written per lane
  torn,        \* history: a frame was left unfinished
  passed       \* history: per request waiting, frames of each other served since

handleVars == <<producers, closing, expired>>
historyVars == <<told, accepted, wire, torn, passed>>
vars == <<control, queue, hasTerminal, ready, handleVars, stopping, failure, usage,
          writer, caller, historyVars>>

Idle == [pc |-> "idle", lane |-> Ctl, frame |-> <<>>, doomed |-> FALSE]

Init ==
  /\ control = <<>>
  /\ queue = [id \in Id |-> <<>>]
  /\ hasTerminal = [id \in Id |-> FALSE]
  /\ ready = <<>>
  /\ producers = 1
  /\ stopping = FALSE /\ closing = FALSE /\ failure = FALSE
  /\ expired = FALSE
  /\ usage = 0
  /\ writer = Idle
  /\ caller = [c \in Caller |-> IF c = Owner THEN "free" ELSE "none"]
  /\ told = [c \in Caller |-> "none"]
  /\ accepted = [l \in Lane |-> 0]
  /\ wire = [l \in Lane |-> 0]
  /\ torn = FALSE
  /\ passed = [i \in Id |-> [j \in Id |-> 0]]

-----------------------------------------------------------------------------
(* The handles.                                                            *)

Becomes(c, state) == caller' = [caller EXCEPT ![c] = state]

CloneHandle(c) ==
  /\ c \in Clone /\ caller[c] = "none"
  /\ \E p \in Caller : caller[p] \in {"free", "reserved"}
  /\ Becomes(c, "free")
  /\ producers' = producers + 1
  /\ UNCHANGED <<control, queue, hasTerminal, ready, closing, expired, stopping,
                 failure, usage, writer, historyVars>>

DropHandle(c) ==
  /\ caller[c] = "free"
  /\ Becomes(c, "none")
  /\ producers' = producers - 1
  /\ stopping' = (stopping \/ producers' = 0)
  /\ UNCHANGED <<control, queue, hasTerminal, ready, closing, expired, failure, usage,
                 writer, historyVars>>

\* The owner stops the writer, drops its handle and joins the thread.
Shutdown ==
  /\ caller[Owner] = "free"
  /\ Becomes(Owner, "joining")
  /\ stopping' = TRUE
  /\ closing' = TRUE
  /\ producers' = producers - 1
  /\ UNCHANGED <<control, queue, hasTerminal, ready, expired, failure, usage, writer,
                 historyVars>>

Join ==
  /\ caller[Owner] = "joining"
  /\ writer.pc = "ended"
  /\ Becomes(Owner, "none")
  /\ UNCHANGED <<control, queue, hasTerminal, ready, handleVars, stopping, failure,
                 usage, writer, historyVars>>

DeadlinePasses ==
  /\ closing /\ ~expired
  /\ expired' = TRUE
  /\ UNCHANGED <<control, queue, hasTerminal, ready, producers, closing, stopping,
                 failure, usage, writer, caller, historyVars>>

-----------------------------------------------------------------------------
(* Enqueueing a frame.                                                     *)

Accepting == ~failure /\ ~stopping
Count(id, kinds) == Cardinality({i \in DOMAIN queue[id] : queue[id][i].kind \in kinds})
NextFrame(l, kind, w) == [kind |-> kind, n |-> accepted[l] + 1, wait |-> w]

Accepted(l, c, w) ==
  /\ accepted[l] < MaxFrames
  /\ accepted' = [accepted EXCEPT ![l] = @ + 1]
  /\ told' = IF w = NoOne THEN told ELSE [told EXCEPT ![c] = "waiting"]
  /\ Becomes(c, IF w = NoOne THEN "free" ELSE "waiting")
  /\ UNCHANGED <<handleVars, stopping, failure, writer, wire, torn>>

\* control and control_committed: the owner's lane.
SendControl(w) ==
  /\ caller[Owner] = "free"
  /\ w \in {Owner, NoOne}
  /\ Accepting
  /\ Len(control) < ControlCapacity
  /\ Accepted(Ctl, Owner, w)
  /\ control' = Append(control, NextFrame(Ctl, "control", w))
  /\ UNCHANGED <<queue, hasTerminal, ready, usage, passed>>

\* request reserves the payload before it takes the writer's lock.
ReservePayload(c) ==
  /\ caller[c] = "free"
  /\ usage < PayloadLimit
  /\ usage' = usage + 1
  /\ Becomes(c, "reserved")
  /\ UNCHANGED <<control, queue, hasTerminal, ready, handleVars, stopping, failure,
                 writer, historyVars>>

\* Mutant: a request may go on after its terminal.
AdmitsAfterTerminal(id, kind) ==
  /\ Accepting
  /\ IF kind = "data" THEN Count(id, {"data"}) < NormalCapacity
     ELSE Count(id, {"cancel", "terminal"}) < ReservedCapacity

Admits(id, kind) ==
  /\ Accepting
  /\ ~hasTerminal[id]
  /\ IF kind = "data" THEN Count(id, {"data"}) < NormalCapacity
     ELSE Count(id, {"cancel", "terminal"}) < ReservedCapacity

Request(c, id, kind) ==
  /\ caller[c] = IF kind = "data" THEN "reserved" ELSE "free"
  /\ Admits(id, kind)
  /\ LET w == IF kind = "terminal" THEN c ELSE NoOne
     IN /\ Accepted(id, c, w)
        /\ queue' = [queue EXCEPT ![id] = Append(@, NextFrame(id, kind, w))]
  /\ hasTerminal' = [hasTerminal EXCEPT ![id] = @ \/ kind = "terminal"]
  /\ IF queue[id] = <<>>
     THEN /\ ready' = Append(ready, id)
          /\ passed' = [passed EXCEPT ![id] = [j \in Id |-> 0]]
     ELSE UNCHANGED <<ready, passed>>
  /\ UNCHANGED <<control, usage>>

\* Mutant: a refused frame keeps its reservation.
RequestRefusedLeaks(c, id) ==
  /\ caller[c] = "reserved"
  /\ ~Admits(id, "data")
  /\ Becomes(c, "free")
  /\ UNCHANGED <<control, queue, hasTerminal, ready, handleVars, stopping, failure, usage,
                 writer, historyVars>>

RequestRefused(c, id) ==
  /\ caller[c] = "reserved"
  /\ ~Admits(id, "data")
  /\ usage' = usage - 1
  /\ Becomes(c, "free")
  /\ UNCHANGED <<control, queue, hasTerminal, ready, handleVars, stopping, failure,
                 writer, historyVars>>

-----------------------------------------------------------------------------
(* The writer thread.                                                      *)

Writes(l, f) == writer' = [pc |-> "writing", lane |-> l, frame |-> f, doomed |-> expired]

PopControl ==
  /\ writer.pc = "idle"
  /\ control # <<>>
  /\ Writes(Ctl, Head(control))
  /\ control' = Tail(control)
  /\ UNCHANGED <<queue, hasTerminal, ready, handleVars, stopping, failure, usage, caller,
                 historyVars>>

\* Mutant: the request keeps its turn while it has frames left.
RequeueFirst(id) == IF Tail(queue[id]) = <<>> THEN Tail(ready) ELSE ready

\* The request goes to the back of the list while it has frames left.
Requeue(id) == IF Tail(queue[id]) = <<>> THEN Tail(ready) ELSE Append(Tail(ready), id)

PopRequest ==
  /\ writer.pc = "idle"
  /\ control = <<>>
  /\ ready # <<>>
  /\ LET id == Head(ready)
         f == Head(queue[id])
     IN /\ Writes(id, f)
        /\ queue' = [queue EXCEPT ![id] = Tail(@)]
        /\ hasTerminal' = [hasTerminal EXCEPT ![id] = @ /\ Tail(queue[id]) # <<>>]
        /\ ready' = Requeue(id)
        /\ usage' = IF f.kind = "data" THEN usage - 1 ELSE usage
        /\ passed' = [i \in Id |->
             IF i = id THEN [j \in Id |-> 0]
             ELSE IF queue[i] # <<>> THEN [passed[i] EXCEPT ![id] = @ + 1] ELSE passed[i]]
  /\ UNCHANGED <<control, handleVars, stopping, failure, caller, told, accepted, wire, torn>>

Answer(answer) ==
  LET w == writer.frame.wait
  IN /\ told' = IF w = NoOne THEN told ELSE [told EXCEPT ![w] = answer]
     /\ caller' = IF w = NoOne THEN caller ELSE [caller EXCEPT ![w] = "free"]

\* A frame popped after the shutdown deadline is not written.
WriteFrame ==
  /\ writer.pc = "writing" /\ ~writer.doomed
  /\ wire' = [wire EXCEPT ![writer.lane] = writer.frame.n]
  /\ Answer("ok")
  /\ writer' = Idle
  /\ UNCHANGED <<control, queue, hasTerminal, ready, handleVars, stopping, failure, usage,
                 accepted, torn, passed>>

\* Mutant: the writer goes on after a frame it could not finish.
WriteFailsOn ==
  /\ writer.pc = "writing"
  /\ torn' = TRUE
  /\ Answer("err")
  /\ writer' = Idle
  /\ UNCHANGED <<control, queue, hasTerminal, ready, handleVars, stopping, failure, usage,
                 accepted, wire, passed>>

WriteFails ==
  /\ writer.pc = "writing"
  /\ torn' = TRUE
  /\ Answer("err")
  /\ writer' = [Idle EXCEPT !.pc = "failing"]
  /\ UNCHANGED <<control, queue, hasTerminal, ready, handleVars, stopping, failure, usage,
                 accepted, wire, passed>>

Queued == {control[i] : i \in DOMAIN control} \cup
          UNION {{queue[id][i] : i \in DOMAIN queue[id]} : id \in Id}
Waits(c, frames) == \E f \in frames : f.wait = c

\* A frame of a lane is known by its number, so a set of frames counts them.
DataFrames ==
  UNION {{<<id, queue[id][i]>> : i \in {k \in DOMAIN queue[id] : queue[id][k].kind = "data"}} :
           id \in Id}
QueuedPayload == Cardinality(DataFrames)

\* Mutant: nobody is told that its frame is dropped.
AbandonedForgotten(c) == FALSE
Abandoned(c) == Waits(c, Queued)

\* fail_writer drops every queued frame and answers those who wait.
FailWriter ==
  /\ writer.pc = "failing"
  /\ failure' = TRUE
  /\ stopping' = TRUE
  /\ told' = [c \in Caller |-> IF Abandoned(c) THEN "err" ELSE told[c]]
  /\ caller' = [c \in Caller |-> IF Abandoned(c) THEN "free" ELSE caller[c]]
  /\ control' = <<>>
  /\ queue' = [id \in Id |-> <<>>]
  /\ hasTerminal' = [id \in Id |-> FALSE]
  /\ ready' = <<>>
  /\ usage' = usage - QueuedPayload
  /\ writer' = [writer EXCEPT !.pc = "ended"]
  /\ UNCHANGED <<handleVars, accepted, wire, torn, passed>>

EndLoop ==
  /\ writer.pc = "idle"
  /\ control = <<>> /\ ready = <<>>
  /\ stopping \/ producers = 0
  /\ writer' = [writer EXCEPT !.pc = "ended"]
  /\ UNCHANGED <<control, queue, hasTerminal, ready, handleVars, stopping, failure, usage,
                 caller, historyVars>>

WriterStep ==
  PopControl \/ PopRequest \/ WriteFrame \/ WriteFails \/ FailWriter \/ EndLoop

Next ==
  \/ WriterStep
  \/ Shutdown \/ Join \/ DeadlinePasses
  \/ \E w \in {Owner, NoOne} : SendControl(w)
  \/ \E c \in Caller :
       \/ CloneHandle(c) \/ DropHandle(c) \/ ReservePayload(c)
       \/ \E id \in Id :
            \/ RequestRefused(c, id)
            \/ \E kind \in {"data", "cancel", "terminal"} : Request(c, id, kind)

Spec == Init /\ [][Next]_vars

\* The writer thread runs on: each of its writes ends by its deadline.
FairSpec == Spec /\ WF_vars(WriterStep) /\ WF_vars(Join)

-----------------------------------------------------------------------------
(* Properties.                                                             *)

CallerState == {"none", "free", "reserved", "waiting", "joining"}

\* Every variable of the writer and of its callers has its type.
TypeOK ==
  /\ control \in Seq(Frame)
  /\ queue \in [Id -> Seq(Frame)]
  /\ hasTerminal \in [Id -> BOOLEAN]
  /\ ready \in Seq(Id)
  /\ producers \in 0 .. Cardinality(Caller)
  /\ stopping \in BOOLEAN /\ closing \in BOOLEAN
  /\ failure \in BOOLEAN /\ expired \in BOOLEAN
  /\ usage \in 0 .. PayloadLimit
  /\ writer \in [pc : {"idle", "writing", "failing", "ended"}, lane : Lane,
                 frame : Frame \cup {<<>>}, doomed : BOOLEAN]
  /\ caller \in [Caller -> CallerState]
  /\ told \in [Caller -> {"none", "waiting", "ok", "err"}]
  /\ accepted \in [Lane -> Nat]
  /\ wire \in [Lane -> Nat]
  /\ torn \in BOOLEAN
  /\ passed \in [Id -> [Id -> Nat]]

\* The list of turns holds each request with a queued frame, once.
ReadyExact ==
  /\ \A i, j \in DOMAIN ready : ready[i] = ready[j] => i = j
  /\ \A id \in Id : (\E i \in DOMAIN ready : ready[i] = id) <=> queue[id] # <<>>

\* The terminal flag of a request is up exactly while its terminal is queued, as
\* the last frame.
TerminalLast ==
  \A id \in Id :
    /\ hasTerminal[id] <=> \E i \in DOMAIN queue[id] : queue[id][i].kind = "terminal"
    /\ \A i \in DOMAIN queue[id] :
         queue[id][i].kind = "terminal" => i = Len(queue[id])

\* Every handle is counted, until it is dropped.
HandlesCounted ==
  producers = Cardinality({c \in Caller : caller[c] \in {"free", "reserved", "waiting"}})

\* What the writer keeps by hand about its queues and handles agrees with them: no frame
\* is stranded, pop_outbound never meets the inconsistency it reports, nothing is
\* queued behind a terminal, no terminal flag outlives its frame, and the thread that
\* finds no handle left is right.
QueuesExact == TypeOK /\ ReadyExact /\ TerminalLast /\ HandlesCounted

\* The payload reserved is that of the queued frames and of the calls under way:
\* no path (written, refused, dropped by a failure) leaks the shared budget.
PayloadExact ==
  usage = Cardinality({c \in Caller : caller[c] = "reserved"}) + QueuedPayload

\* Between two frames of a waiting request every other request is served at most
\* once (pop_outbound's round robin).
TakesTurns == \A i, j \in Id : passed[i][j] <= 1

\* Every thread that waits for a commit is answered, and a shutdown returns,
\* whatever is queued and whatever the peer does.
WaitsEnd ==
  /\ \A c \in Caller : caller[c] = "waiting" ~> caller[c] # "waiting"
  /\ caller[Owner] = "joining" ~> caller[Owner] = "none"

\* What the writer promises its callers (CommitChannel): the frame being written
\* still heads its lane.
Pending ==
  [l \in Lane |->
    (IF writer.pc = "writing" /\ writer.lane = l THEN <<writer.frame>> ELSE <<>>)
      \o (IF l = Ctl THEN control ELSE queue[l])]
Channel == INSTANCE CommitChannel WITH pending <- Pending, open <- Accepting
Implements == Channel!Spec
=============================================================================
