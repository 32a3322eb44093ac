------------------------------ MODULE Executor ------------------------------
(***************************************************************************)
(* The Mac executor of one remote (serve_requests in                        *)
(* src/src/ego_bridge.rs): its main loop, one worker per invocation with    *)
(* the ego-browser child it runs, the writer that commits its answers, and   *)
(* the inbound scheduler of InboundQueue, fed by the broker at the other     *)
(* end of the SSH channel.                                                  *)
(*                                                                         *)
(* Abstracted: output frames (only their saturation matters here), argv,     *)
(* screenshots, the text of errors. The writer is the part of ChannelWriter  *)
(* the executor sees: a committed frame is written or the writer fails.      *)
(***************************************************************************)
EXTENDS InboundQueue

CONSTANTS
  NoId,          \* no request
  MaxRoutes,     \* MAX_CONCURRENT_REQUESTS
  InputCapacity, \* REQUEST_QUEUE_CAPACITY
  MaxFrames,     \* bound: frames the broker sends under each request ID
  MaxOpens,      \* bound: invocations that use the same request ID
  MaxProbes      \* bound: owner probes the broker sends

ASSUME ExecutorAssumption ==
  /\ BrokerSide = FALSE
  /\ NoId \notin Id
  /\ MaxRoutes \in Nat \ {0}
  /\ InputCapacity \in Nat \ {0}
  /\ MaxFrames \in Nat
  /\ MaxOpens \in Nat
  /\ MaxProbes \in Nat

VARIABLES
  \* The broker, as the executor observes it.
  sent,      \* number of the last frame sent under each request ID
  opens,     \* invocations started under each request ID
  sending,   \* its stream: "idle", "open", "eof" (input ended)
  openAt,    \* frame number of the current invocation's Open
  cancelAt,  \* frame number of the broker's own Cancel of it, 0 if none
  answers,   \* terminals written for the current invocation
  probes,    \* owner probes sent
  \* The executor.
  routes,    \* per request ID: the route and its worker, or NoRoute
  nextGeneration,
  completed, \* completion channel, worker to main loop
  loop,      \* where the main loop is, and the request it is there for
  shutdown,  \* the daemon asked this remote worker to stop
  failed     \* the channel writer has failed

brokerVars == <<sent, opens, sending, openAt, cancelAt, answers, probes>>
execVars == <<routes, nextGeneration, completed, loop, shutdown, failed>>
vars == <<queueVars, brokerVars, execVars>>

-----------------------------------------------------------------------------
NoRoute == [worker |-> "none"]

\* A worker is "starting" its child, has it "running", has reaped it ("exited"),
\* waits for its Exit to be committed ("exiting"), is in the "epilogue" of
\* execute_request, waits for an Error to be committed ("failing"), is about to
\* report ("finished"), or has ("reported").
WorkerState == {"starting", "running", "exited", "exiting", "epilogue", "failing",
                "finished", "reported"}

Route == [worker : WorkerState,
          generation : Nat,
          open : Nat,          \* frame number of the Open that started it
          input : BOOLEAN,     \* the main loop still holds the input sender
          pending : Nat,       \* pending_input
          queue : Seq(Frame),  \* the input channel
          stdin : {"idle", "taken", "eof", "busy", "done"},  \* forward_input
          fed : Nat,           \* frame number of the last input routed
          cancelled : BOOLEAN,
          retiring : BOOLEAN,
          error : BOOLEAN,     \* a request error is recorded
          ok : BOOLEAN]        \* FALSE: the result is a channel error

Active(id) == routes[id] # NoRoute
Running(id) == Active(id) /\ routes[id].worker = "running"
LoopState == {"poll", "discard", "ack", "terminal", "await", "teardown", "join", "stopped"}
LoopAt(pc) == loop.pc = pc
GoTo(pc, id) == loop' = [pc |-> pc, id |-> id, n |-> 0]
Poll == [pc |-> "poll", id |-> NoId, n |-> 0]

NewRoute(n) ==
  [worker |-> "starting", generation |-> nextGeneration, open |-> n,
   input |-> TRUE, pending |-> 0, queue |-> <<>>, stdin |-> "idle", fed |-> n,
   cancelled |-> FALSE, retiring |-> FALSE, error |-> FALSE, ok |-> TRUE]

Init ==
  /\ QueueInit
  /\ sent = [id \in Id |-> 0]
  /\ opens = [id \in Id |-> 0]
  /\ sending = [id \in Id |-> "idle"]
  /\ openAt = [id \in Id |-> 0]
  /\ cancelAt = [id \in Id |-> 0]
  /\ answers = [id \in Id |-> 0]
  /\ probes = 0
  /\ routes = [id \in Id |-> NoRoute]
  /\ nextGeneration = 0
  /\ completed = <<>>
  /\ loop = Poll
  /\ shutdown = FALSE
  /\ failed = FALSE

-----------------------------------------------------------------------------
(* The broker's stream, received by the reader thread.                     *)

Sends(id, kind) ==
  /\ sent[id] < MaxFrames
  /\ sent' = [sent EXCEPT ![id] = @ + 1]
  /\ \/ /\ kind = "Open" /\ sending[id] = "idle" /\ opens[id] < MaxOpens
        /\ opens' = [opens EXCEPT ![id] = @ + 1]
        /\ sending' = [sending EXCEPT ![id] = "open"]
        /\ openAt' = [openAt EXCEPT ![id] = sent'[id]]
        /\ cancelAt' = [cancelAt EXCEPT ![id] = 0]
        /\ answers' = [answers EXCEPT ![id] = 0]
     \/ /\ kind = "Stdin" /\ sending[id] = "open"
        /\ UNCHANGED <<opens, sending, openAt, cancelAt, answers>>
     \/ /\ kind = "StdinEof" /\ sending[id] = "open"
        /\ sending' = [sending EXCEPT ![id] = "eof"]
        /\ UNCHANGED <<opens, openAt, cancelAt, answers>>
     \/ /\ kind = "Cancel" /\ sending[id] # "idle" /\ cancelAt[id] = 0
        /\ cancelAt' = [cancelAt EXCEPT ![id] = sent'[id]]
        /\ UNCHANGED <<opens, sending, openAt, answers>>
     \/ /\ kind = "Cancel" /\ sending[id] = "open"  \* the shim's, ends the upload
        /\ sending' = [sending EXCEPT ![id] = "eof"]
        /\ UNCHANGED <<opens, openAt, cancelAt, answers>>
  /\ UNCHANGED <<probes, execVars>>

ReceiveRequest(id) ==
  \E kind \in InputKind, budgetFull \in BOOLEAN :
    LET f == [kind |-> kind, n |-> sent[id] + 1]
    IN /\ Sends(id, kind)
       /\ \/ ~budgetFull /\ EnqueueRequest(id, f)
          \/ EnqueueOverflow(id, f, budgetFull)
          \/ ~budgetFull /\ TooManyRequests(id)

ReceiveProbe ==
  /\ probes < MaxProbes
  /\ probes' = probes + 1
  /\ \E c \in ControlMsg : EnqueueControl(c) \/ ControlOverflow
  /\ UNCHANGED <<sent, opens, sending, openAt, cancelAt, answers, execVars>>

ConnectionLost ==
  /\ EnqueueFailure
  /\ UNCHANGED <<brokerVars, execVars>>

\* The broker saw a terminal and joined its worker: the ID may be used again.
BrokerFinishes(id) ==
  /\ sending[id] # "idle"
  /\ answers[id] > 0
  /\ sending' = [sending EXCEPT ![id] = "idle"]
  /\ UNCHANGED <<queueVars, sent, opens, openAt, cancelAt, answers, probes, execVars>>

-----------------------------------------------------------------------------
(* The main loop. Completions are drained before every pop.                *)

\* Mutant: one frame more than the channel holds.
RequestReadyLate ==
  {id \in Id : Active(id) => ~routes[id].input \/ routes[id].pending <= InputCapacity}

RequestReady ==
  {id \in Id : Active(id) => ~routes[id].input \/ routes[id].pending < InputCapacity}

Polling == LoopAt("poll") /\ completed = <<>> /\ ~shutdown /\ ~failed

\* reap_executor_completion: only the completion of the route's own generation
\* removes it; a channel error ends the loop.
Reaped(c) ==
  IF Active(c.id) /\ routes[c.id].generation = c.generation
  THEN [routes EXCEPT ![c.id] = NoRoute] ELSE routes
Breaks(c) ==
  Active(c.id) /\ routes[c.id].generation = c.generation /\ ~routes[c.id].ok

DrainCompletion ==
  /\ LoopAt("poll") \/ LoopAt("await")
  /\ completed # <<>>
  /\ LET c == Head(completed)
     IN /\ completed' = Tail(completed)
        /\ routes' = Reaped(c)
        /\ IF Breaks(c) THEN GoTo("teardown", NoId) ELSE UNCHANGED loop
  /\ UNCHANGED <<queueVars, brokerVars, nextGeneration, shutdown, failed>>

StopLoop ==
  /\ LoopAt("poll")
  /\ shutdown \/ failed
  /\ GoTo("teardown", NoId)
  /\ UNCHANGED <<queueVars, brokerVars, routes, nextGeneration, completed, shutdown,
                 failed>>

\* Transport error: the loop returns it.
HandleTransport ==
  /\ Polling
  /\ PopTransport
  /\ GoTo("teardown", NoId)
  /\ UNCHANGED <<brokerVars, routes, nextGeneration, completed, shutdown, failed>>

\* OwnerProbe: the loop waits until the acknowledgement is written.
HandleProbe ==
  /\ Polling
  /\ \E c \in ControlMsg : PopControl(c)
  /\ GoTo("ack", NoId)
  /\ UNCHANGED <<brokerVars, routes, nextGeneration, completed, shutdown, failed>>

\* An overload cancels the request's route; without one it is answered here.
HandleOverload(id) ==
  /\ Polling
  /\ PopOverload(id) \/ \E c \in Id : PopCancelOverloaded(c, id)
  /\ IF Active(id)
     THEN /\ routes' = [routes EXCEPT ![id].retiring = TRUE, ![id].error = TRUE,
                                      ![id].cancelled = TRUE, ![id].input = FALSE]
          /\ UNCHANGED loop
     ELSE /\ GoTo("terminal", id)
          /\ UNCHANGED routes
  /\ UNCHANGED <<brokerVars, nextGeneration, completed, shutdown, failed>>

\* Cancel without a route is ignored.
HandleCancel(id) ==
  /\ Polling
  /\ \E f \in At(events[id]) \cup At(retained[id]) : PopCancel(id, f)
  /\ IF Active(id)
     THEN /\ routes' = [routes EXCEPT ![id].cancelled = TRUE, ![id].input = FALSE]
          /\ GoTo("discard", id)
     ELSE UNCHANGED <<routes, loop>>
  /\ UNCHANGED <<brokerVars, nextGeneration, completed, shutdown, failed>>

HandleDiscard(id) ==
  /\ LoopAt("discard") /\ loop.id = id
  /\ IF mode[id] = "absent" THEN UNCHANGED queueVars ELSE DiscardRequestInput(id)
  /\ loop' = Poll
  /\ UNCHANGED <<brokerVars, routes, nextGeneration, completed, shutdown, failed>>

\* Spawn the worker of a free ID, or refuse: duplicate or over capacity.
OpenRoute(id, n) ==
  IF Active(id) \/ Cardinality({i \in Id : Active(i)}) >= MaxRoutes
  THEN /\ GoTo("terminal", id)
       /\ UNCHANGED <<routes, nextGeneration>>
  ELSE /\ routes' = [routes EXCEPT ![id] = NewRoute(n)]
       /\ nextGeneration' = nextGeneration + 1
       /\ loop' = Poll

PopInput(id, f, kind) ==
  /\ Polling
  /\ f \in At(events[id]) \cup At(retained[id])
  /\ f.kind = kind
  /\ PopReady(id, f, RequestReady)

\* A retiring route is waited for, which blocks the loop.
HandleOpen(id, f) ==
  /\ PopInput(id, f, "Open")
  /\ IF Active(id) /\ routes[id].retiring
     THEN /\ loop' = [pc |-> "await", id |-> id, n |-> f.n]
          /\ UNCHANGED <<routes, nextGeneration>>
     ELSE OpenRoute(id, f.n)
  /\ UNCHANGED <<brokerVars, completed, shutdown, failed>>

HandleAwaitedOpen ==
  /\ LoopAt("await")
  /\ ~Active(loop.id)
  /\ completed = <<>>
  /\ OpenRoute(loop.id, loop.n)
  /\ UNCHANGED <<queueVars, brokerVars, completed, shutdown, failed>>

\* route_input: once forward_input has returned, its receiver is gone and the
\* send fails, which cancels the request.
Fed(r, f) ==
  IF r.stdin = "done"
  THEN [r EXCEPT !.cancelled = TRUE, !.input = FALSE]
  ELSE [r EXCEPT !.pending = @ + 1, !.queue = Append(@, f), !.fed = f.n]

HandleStdin(id, f) ==
  /\ PopInput(id, f, "Stdin")
  /\ routes' = IF Active(id) /\ routes[id].input
               THEN [routes EXCEPT ![id] = Fed(@, f)] ELSE routes
  /\ UNCHANGED <<brokerVars, nextGeneration, completed, loop, shutdown, failed>>

HandleStdinEof(id, f) ==
  /\ PopInput(id, f, "StdinEof")
  /\ routes' = IF Active(id) /\ routes[id].input
               THEN [routes EXCEPT ![id] = [Fed(@, f) EXCEPT !.input = FALSE]] ELSE routes
  /\ UNCHANGED <<brokerVars, nextGeneration, completed, loop, shutdown, failed>>

\* The loop and a worker want to send a terminal of one request: the lane refuses
\* the one that comes second.
Collide(id) ==
  LoopAt("terminal") /\ loop.id = id /\ routes[id].worker \in {"exiting", "failing"}

\* The loop's own frame is written, or it is refused, or the writer fails.
LoopCommitted ==
  /\ LoopAt("ack") \/ LoopAt("terminal")
  /\ \E refused \in {FALSE, Collide(loop.id)} :
       IF failed \/ refused
       THEN GoTo("teardown", NoId) /\ UNCHANGED answers
       ELSE /\ loop' = Poll
            /\ answers' = IF LoopAt("terminal")
                          THEN [answers EXCEPT ![loop.id] = @ + 1] ELSE answers
  /\ UNCHANGED <<queueVars, sent, opens, sending, openAt, cancelAt, probes, routes,
                 nextGeneration, completed, shutdown, failed>>

\* Mutant: the workers are joined without being cancelled.
CancelAllForgotten ==
  /\ LoopAt("teardown")
  /\ GoTo("join", NoId)
  /\ UNCHANGED <<queueVars, brokerVars, routes, nextGeneration, completed, shutdown, failed>>

\* Teardown: cancel every route, then join every worker.
CancelAll ==
  /\ LoopAt("teardown")
  /\ routes' = [id \in Id |->
       IF Active(id) THEN [routes[id] EXCEPT !.cancelled = TRUE, !.input = FALSE]
       ELSE NoRoute]
  /\ GoTo("join", NoId)
  /\ UNCHANGED <<queueVars, brokerVars, nextGeneration, completed, shutdown, failed>>

JoinAll ==
  /\ LoopAt("join")
  /\ \A id \in Id : Active(id) => routes[id].worker = "reported"
  /\ routes' = [id \in Id |-> NoRoute]
  /\ completed' = <<>>
  /\ GoTo("stopped", NoId)
  /\ UNCHANGED <<queueVars, brokerVars, nextGeneration, shutdown, failed>>

Loop ==
  \/ DrainCompletion \/ StopLoop \/ HandleTransport \/ HandleProbe
  \/ \E id \in Id :
       \/ HandleOverload(id)
       \/ HandleCancel(id)
       \/ HandleDiscard(id)
       \/ \E f \in At(events[id]) \cup At(retained[id]) :
            HandleOpen(id, f) \/ HandleStdin(id, f) \/ HandleStdinEof(id, f)
  \/ HandleAwaitedOpen \/ LoopCommitted \/ CancelAll \/ JoinAll

-----------------------------------------------------------------------------
(* One worker: execute_request and the threads it scopes.                  *)

Worker(id, from, new) ==
  /\ Active(id) /\ routes[id].worker = from
  /\ routes' = [routes EXCEPT ![id] = new]
  /\ UNCHANGED <<queueVars, sent, opens, sending, openAt, cancelAt, probes,
                 nextGeneration, loop, shutdown, failed>>

Unanswered == UNCHANGED <<answers, completed>>

\* The process budget, the transfer root and the spawn may each fail.
StartChild(id) ==
  /\ \/ Worker(id, "starting", [routes[id] EXCEPT !.worker = "running"])
     \/ Worker(id, "starting",
          [routes[id] EXCEPT !.worker = "epilogue", !.stdin = "done", !.error = TRUE])
  /\ Unanswered

\* forward_input takes a frame, then counts it, then writes it to the child.
TakeInput(id) ==
  /\ Running(id)
  /\ routes[id].queue # <<>> /\ routes[id].stdin = "idle" /\ ~routes[id].cancelled
  /\ Worker(id, "running", [routes[id] EXCEPT
       !.queue = Tail(@),
       !.stdin = IF Head(routes[id].queue).kind = "StdinEof" THEN "eof" ELSE "taken"])
  /\ Unanswered

CountInput(id) ==
  /\ Active(id)
  /\ routes[id].stdin \in {"taken", "eof"}
  /\ Worker(id, routes[id].worker, [routes[id] EXCEPT
       !.pending = @ - 1,
       !.stdin = IF @ = "eof" \/ routes[id].cancelled THEN "done" ELSE "busy"])
  /\ Unanswered

\* wait_for_child kills the process group of a cancelled request, and of every
\* request once the writer failed.
KillChild(id) ==
  /\ Running(id)
  /\ routes[id].cancelled \/ failed
  /\ Worker(id, "running",
       [routes[id] EXCEPT !.worker = "exited", !.cancelled = TRUE])
  /\ Unanswered

\* forward_input returns: cancelled, the child gone, or the sender dropped.
EndInput(id) ==
  /\ Active(id)
  /\ \/ routes[id].worker = "exited" /\ routes[id].stdin \in {"idle", "busy"}
     \/ /\ Running(id) /\ routes[id].stdin = "idle"
        /\ routes[id].cancelled \/ (~routes[id].input /\ routes[id].queue = <<>>)
  /\ Worker(id, routes[id].worker, [routes[id] EXCEPT !.stdin = "done"])
  /\ Unanswered

\* The child's end: Exit unless an error is recorded or the epilogue's own steps
\* (stdin, screenshots) fail.
CollectChild(id) ==
  /\ Active(id)
  /\ routes[id].stdin = "done"
  /\ IF routes[id].error
     THEN Worker(id, "exited", [routes[id] EXCEPT !.worker = "epilogue"])
     ELSE \/ Worker(id, "exited", [routes[id] EXCEPT !.worker = "exiting", !.retiring = TRUE])
          \/ Worker(id, "exited", [routes[id] EXCEPT !.worker = "epilogue", !.error = TRUE])
          \/ failed /\ Worker(id, "exited", [routes[id] EXCEPT !.worker = "finished",
                                                            !.ok = FALSE])
  /\ Unanswered

\* A worker's terminal is written, or not: refused, or the writer failed.
Answered(id, written) ==
  /\ written \in {~failed, ~failed /\ ~Collide(id)}
  /\ answers' = IF written THEN [answers EXCEPT ![id] = @ + 1] ELSE answers
  /\ UNCHANGED completed

ExitCommitted(id) ==
  \E written \in BOOLEAN :
    /\ Worker(id, "exiting", [routes[id] EXCEPT !.worker = "epilogue", !.ok = written])
    /\ Answered(id, written)

\* Mutant: the error is cleared, not sent.
TakeErrorSilently(id) ==
  /\ Active(id)
  /\ Worker(id, "epilogue", [routes[id] EXCEPT
       !.worker = "finished", !.error = FALSE, !.retiring = TRUE])
  /\ Unanswered

\* A request error recorded by now is sent, after an Exit or not.
TakeError(id) ==
  /\ Active(id)
  /\ Worker(id, "epilogue", [routes[id] EXCEPT
       !.worker = IF routes[id].error THEN "failing" ELSE "finished",
       !.error = FALSE, !.retiring = TRUE])
  /\ Unanswered

ErrorCommitted(id) ==
  \E written \in BOOLEAN :
    /\ Worker(id, "failing", [routes[id] EXCEPT !.worker = "finished", !.ok = written])
    /\ Answered(id, written)

\* Mutant: the completion is sent when the worker ends and once more.
ReportTwice(id) ==
  /\ Worker(id, "finished", [routes[id] EXCEPT !.worker = "reported"])
  /\ completed' =
       LET c == [id |-> id, generation |-> routes[id].generation]
       IN Append(Append(completed, c), c)
  /\ UNCHANGED answers

Report(id) ==
  /\ Worker(id, "finished", [routes[id] EXCEPT !.worker = "reported"])
  /\ completed' = Append(completed, [id |-> id, generation |-> routes[id].generation])
  /\ UNCHANGED answers

WorkerStep(id) ==
  \/ StartChild(id) \/ TakeInput(id) \/ CountInput(id) \/ KillChild(id) \/ EndInput(id)
  \/ CollectChild(id) \/ ExitCommitted(id) \/ TakeError(id) \/ ErrorCommitted(id)
  \/ Report(id)

-----------------------------------------------------------------------------
(* What the child and the machine may do, and nobody can force.            *)

ChildReads(id) ==
  /\ Running(id)
  /\ routes[id].stdin = "busy"
  /\ Worker(id, "running", [routes[id] EXCEPT !.stdin = "idle"])
  /\ Unanswered

ChildClosesStdin(id) ==
  /\ Running(id)
  /\ routes[id].stdin = "busy"
  /\ Worker(id, "running", [routes[id] EXCEPT !.stdin = "done"])
  /\ Unanswered

ChildExits(id) ==
  /\ Worker(id, "running", [routes[id] EXCEPT !.worker = "exited"])
  /\ Unanswered

\* forward_output: the output queue or the payload budget is full.
OutputSaturates(id) ==
  /\ Active(id)
  /\ ~routes[id].cancelled
  /\ \/ Worker(id, "running", [routes[id] EXCEPT !.cancelled = TRUE, !.error = TRUE])
     \/ Worker(id, "exited", [routes[id] EXCEPT !.cancelled = TRUE, !.error = TRUE])
  /\ Unanswered

WriterFails ==
  /\ ~failed
  /\ failed' = TRUE
  /\ UNCHANGED <<queueVars, brokerVars, routes, nextGeneration, completed, loop, shutdown>>

RequestShutdown ==
  /\ ~shutdown
  /\ shutdown' = TRUE
  /\ UNCHANGED <<queueVars, brokerVars, routes, nextGeneration, completed, loop, failed>>

Environment ==
  \/ ReceiveProbe \/ ConnectionLost \/ WriterFails \/ RequestShutdown
  \/ \E id \in Id :
       \/ ReceiveRequest(id) \/ BrokerFinishes(id)
       \/ ChildReads(id) \/ ChildClosesStdin(id) \/ ChildExits(id) \/ OutputSaturates(id)

Next == Loop \/ (\E id \in Id : WorkerStep(id)) \/ Environment

Spec == Init /\ [][Next]_vars

\* The main loop and every worker are threads that keep running; what the child
\* does with its input and when it exits is its own business.
Fairness == WF_vars(Loop) /\ \A id \in Id : WF_vars(WorkerStep(id))
FairSpec == Spec /\ Fairness

\* Children that read what is written to them, and children that moreover end by
\* themselves.
ChildrenRead == \A id \in Id : WF_vars(ChildReads(id))
ChildrenExit == ChildrenRead /\ \A id \in Id : WF_vars(ChildExits(id))

-----------------------------------------------------------------------------
(* Properties.                                                             *)

\* Every variable of the executor, its scheduler and its peer has its type.
TypeOK ==
  /\ QueueTypeOK
  /\ sent \in [Id -> Nat]
  /\ opens \in [Id -> Nat]
  /\ sending \in [Id -> {"idle", "open", "eof"}]
  /\ openAt \in [Id -> Nat]
  /\ cancelAt \in [Id -> Nat]
  /\ answers \in [Id -> Nat]
  /\ probes \in Nat
  /\ routes \in [Id -> Route \cup {NoRoute}]
  /\ nextGeneration \in Nat
  /\ completed \in Seq([id : Id, generation : Nat])
  /\ loop \in [pc : LoopState, id : Id \cup {NoId}, n : Nat]
  /\ shutdown \in BOOLEAN
  /\ failed \in BOOLEAN

\* The gate keeps the main loop from ever blocking in route_input: the channel
\* never holds more than pending_input counts, and that stays within capacity,
\* although the worker takes a frame and counts it in two steps.
InputNeverBlocks ==
  \A id \in Id : Active(id) =>
    /\ Len(routes[id].queue) <= routes[id].pending
    /\ routes[id].pending <= InputCapacity

\* What one invocation was sent never reaches the child of the next one that uses
\* its request ID. With a third it may: the first is answered twice when its Open
\* overflows and a later frame does again, and the broker takes the second answer
\* for that of the second invocation, whose Open is still queued.
NoStaleInput ==
  \A id \in Id : opens[id] <= 2 /\ Active(id) =>
    \A i \in DOMAIN routes[id].queue :
      /\ routes[id].queue[i].n > routes[id].open
      /\ routes[id].open < openAt[id] => routes[id].queue[i].n < openAt[id]

\* A completion in the channel is always that of the route still registered: the
\* loop never discards one and never waits for one that was consumed.
CompletionMatches ==
  \A i \in DOMAIN completed :
    LET c == completed[i]
    IN /\ Active(c.id)
       /\ routes[c.id].generation = c.generation
       /\ routes[c.id].worker = "reported"

\* The input routed to the first child of a request ID has no hole: whatever
\* overflows on the way, a later frame of the invocation is not fed to the child
\* (a Cancel may be missing, it overtakes).
FirstInvocation(r) == r # NoRoute /\ r.open = 1
NoInputHole ==
  [][\A id \in Id :
       (/\ FirstInvocation(routes[id]) /\ FirstInvocation(routes'[id])
        /\ routes'[id].fed # routes[id].fed) =>
         \/ routes'[id].fed = routes[id].fed + 1
         \/ routes'[id].fed = routes[id].fed + 2 /\ cancelAt[id] = routes[id].fed + 1]_vars

\* A Cancel the executor has taken has taken effect: no child of that invocation
\* runs on uncancelled.
CancelTakesEffect ==
  \A id \in Id :
    (/\ cancelAt[id] # 0
     /\ ~CancelQueued(id)
     /\ Active(id) /\ routes[id].open = openAt[id]
     /\ Running(id)) => routes[id].cancelled

\* When the connection is lost, every child ends (the teardown of serve_requests
\* cancels every route). Children may hold their input unread.
LossEndsChildren == terminal ~> \A id \in Id : ~Running(id)

\* When the connection is lost every child ends, provided the children read their
\* input: only one that closed its stdin, and so leaves the gate of its request
\* shut for good, keeps the loss from being delivered.
ClosedEarly(id) == Running(id) /\ routes[id].stdin = "done" /\ routes[id].input
LossEndsReadingChildren ==
  ChildrenRead =>
    (terminal ~> (\A id \in Id : ~Running(id)) \/ (\E id \in Id : ClosedEarly(id)))

\* A shutdown stops the executor whatever its children do.
ShutdownStops == shutdown ~> loop.pc = "stopped"

\* Every invocation the broker opened is answered, or the executor stops, when the
\* children read their input and end.
OpenAnswered ==
  ChildrenExit =>
    \A id \in Id : sending[id] # "idle" ~> (answers[id] > 0 \/ loop.pc = "stopped")
=============================================================================
