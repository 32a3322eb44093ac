---------------------------- MODULE BrokerRoute ----------------------------
(***************************************************************************)
(* The Linux broker of one owner (broker_route and handle_broker_client in   *)
(* src/src/ego_bridge.rs): its main loop, and for each invocation a handler   *)
(* thread, which writes to the local client, and an uploader thread, which   *)
(* reads from it. Owner claims are in OwnerArbitration.                      *)
(*                                                                         *)
(* The executor is what InboundScheduler lets through: output, an overload,  *)
(* one terminal. Stdout stands for Stderr too; input the uploader forwards   *)
(* without trouble changes nothing here. A rejected client (duplicate ID,    *)
(* capacity, refused Open) is told so by the loop and leaves no trace. What  *)
(* the client does with its stream is in Shim.                              *)
(***************************************************************************)
EXTENDS Integers, SequencesExt

CONSTANTS
  Id,               \* request IDs
  NoId,
  MaxRoutes,        \* MAX_CONCURRENT_REQUESTS
  ResponseCapacity, \* REQUEST_QUEUE_CAPACITY
  MaxOpens,         \* bound: invocations under each request ID
  MaxOutput,        \* bound: output frames of each invocation
  MaxSize           \* bound: chunks a screenshot may be declared to have

ASSUME BrokerAssumption ==
  /\ NoId \notin Id
  /\ MaxRoutes \in Nat \ {0}
  /\ ResponseCapacity \in Nat \ {0}
  /\ MaxOpens \in Nat
  /\ MaxOutput \in Nat
  /\ MaxSize \in Nat

VARIABLES
  routes,    \* per request ID: its route with its two threads, or NoRoute
  completed, \* completion channel, handlers to loop
  loop,      \* where the loop is, the request it is there for, a terminal or not
  opens,     \* invocations started under each ID
  executor,  \* the invocation on the Mac: "none", "running", or its terminal
  output,    \* the output it sent
  client,    \* the local client's end of the socket: "none", "open", "gone"
  given      \* what the client was written, in order

envVars == <<opens, executor, output>>
vars == <<routes, completed, loop, envVars, client, given>>

Terminal == {"Exit", "Error"}

\* A message is its kind and a number: the place of a piece of output in the
\* stream, the size a FileBegin declares (in chunks).
Piece ==
  [kind : {"Stdout", "FileChunk", "FileEnd"}, n : Nat] \cup [kind : {"FileBegin"}, n : Nat]
End(kind) == [kind |-> kind, n |-> 0]
Message == Piece \cup {End(kind) : kind \in Terminal}
IsTerminal(m) == m.kind \in Terminal
Blank == [kind |-> "Stdout", n |-> 0]

NoRoute == [handler |-> "none"]

\* The handler is about to "start", waits for a response ("recv"), stops the
\* upload before a terminal ("stop"), picks what to write ("take"), writes it
\* ("write"), joins the uploader ("closing"), writes a last error ("last"),
\* reports ("report"), has "reported".
HandlerState == {"start", "recv", "stop", "take", "write", "closing", "last", "report",
                 "reported"}

Route == [handler : HandlerState,
          uploader : {"none", "reading", "cancelled", "ended"},
          stopping : BOOLEAN,       \* upload_stopping
          message : Message,        \* the response being handled
          writing : Message,        \* what is written in its place
          clientError : BOOLEAN,    \* a write to the client failed
          errorSent : BOOLEAN,      \* request_error_sent
          held : BOOLEAN,           \* the loop holds the response sender
          responses : Seq(Message), \* the response channel
          error : BOOLEAN,          \* local_error is set
          cancelSent : BOOLEAN,
          terminalSeen : BOOLEAN,
          joined : BOOLEAN]         \* the loop joined the handler

Live(id) == routes[id] # NoRoute
HandlerAt(id, pc) == Live(id) /\ routes[id].handler = pc
LoopAt(pc) == loop.pc = pc
Run == [pc |-> "run", id |-> NoId, terminal |-> FALSE]

Init ==
  /\ routes = [id \in Id |-> NoRoute]
  /\ completed = <<>>
  /\ loop = Run
  /\ opens = [id \in Id |-> 0]
  /\ executor = [id \in Id |-> "none"]
  /\ output = [id \in Id |-> <<>>]
  /\ client = [id \in Id |-> "none"]
  /\ given = [id \in Id |-> <<>>]

-----------------------------------------------------------------------------
(* The main loop.                                                          *)

NewRoute ==
  [handler |-> "start", uploader |-> "none", stopping |-> FALSE, message |-> Blank,
   writing |-> Blank, clientError |-> FALSE, errorSent |-> FALSE, held |-> TRUE,
   responses |-> <<>>, error |-> FALSE, cancelSent |-> FALSE, terminalSeen |-> FALSE,
   joined |-> FALSE]

Admit(id) ==
  /\ LoopAt("run")
  /\ ~Live(id)
  /\ Cardinality({i \in Id : Live(i)}) < MaxRoutes
  /\ opens[id] < MaxOpens
  /\ opens' = [opens EXCEPT ![id] = @ + 1]
  /\ routes' = [routes EXCEPT ![id] = NewRoute]
  /\ executor' = [executor EXCEPT ![id] = "running"]
  /\ output' = [output EXCEPT ![id] = <<>>]
  /\ client' = [client EXCEPT ![id] = "open"]
  /\ given' = [given EXCEPT ![id] = <<>>]
  /\ UNCHANGED <<completed, loop>>

\* The route of a finished handler goes with its terminal, whichever is last.
DrainCompletion ==
  /\ LoopAt("run")
  /\ completed # <<>>
  /\ LET id == Head(completed)
     IN routes' = IF ~Live(id) THEN routes
                  ELSE IF routes[id].terminalSeen THEN [routes EXCEPT ![id] = NoRoute]
                  ELSE [routes EXCEPT ![id].joined = TRUE]
  /\ completed' = Tail(completed)
  /\ UNCHANGED <<loop, envVars, client, given>>

\* Mutant: the Cancel is not sent.
CancelledForgotten(r) == r

\* send_cancel_once and set_request_error.
Cancelled(r) == [r EXCEPT !.cancelSent = TRUE]
Failed(r) == [Cancelled(r) EXCEPT !.error = TRUE]

ReceiverGone(id) == routes[id].handler \in {"report", "reported"}
Fits(id) == Len(routes[id].responses) < ResponseCapacity
Delivered(id) == Live(id) /\ routes[id].held /\ ~ReceiverGone(id) /\ Fits(id)

\* Mutant: the route goes with the terminal, its handler joined or not.
SettledEarly(r, terminal) == IF terminal THEN NoRoute ELSE r

\* A terminal ends the route: the loop drops it at once if it joined the handler.
Settled(r, terminal) ==
  IF terminal /\ r.joined THEN NoRoute
  ELSE [r EXCEPT !.held = @ /\ ~terminal, !.terminalSeen = @ \/ terminal]

\* try_send of a response; when the channel is full the request is cancelled
\* first, and the sender dropped in a later step.
Respond(id, m) ==
  LET r == routes[id]
      terminal == IsTerminal(m)
  IN \/ /\ ~r.held \/ ReceiverGone(id)
        /\ routes' = [routes EXCEPT ![id] = Settled([r EXCEPT !.held = FALSE], terminal)]
        /\ UNCHANGED loop
     \/ /\ Delivered(id)
        /\ routes' = [routes EXCEPT ![id] =
             Settled([r EXCEPT !.responses = Append(@, m)], terminal)]
        /\ UNCHANGED loop
     \/ /\ r.held /\ ~ReceiverGone(id) /\ ~Fits(id)
        /\ routes' = [routes EXCEPT ![id] = Failed(r)]
        /\ loop' = [pc |-> "drop", id |-> id, terminal |-> terminal]

\* What the executor may send next: output of the child, and after all of it the
\* screenshots. The size a file is declared to have and the chunks read from it
\* later may differ.
NextPieces(sent) ==
  LET last == IF sent = <<>> THEN "Stdout" ELSE Last(sent).kind
      next == Len(sent) + 1
      begins == [kind : {"FileBegin"}, n : 0..MaxSize]
  IN CASE last = "Stdout" -> begins \cup {[kind |-> "Stdout", n |-> next]}
       [] last = "FileEnd" -> begins
       [] OTHER -> [kind : {"FileChunk", "FileEnd"}, n : {next}]

InFile(sent) == sent # <<>> /\ Last(sent).kind \in {"FileBegin", "FileChunk"}

Sends(id, m) ==
  /\ LoopAt("run")
  /\ executor[id] = "running" /\ Len(output[id]) < MaxOutput
  /\ output' = [output EXCEPT ![id] = Append(@, m)]
  /\ UNCHANGED <<completed, opens, executor, client, given>>

HandleOutput(id, m) ==
  /\ Sends(id, m)
  /\ IF Live(id) THEN Respond(id, m) ELSE UNCHANGED <<routes, loop>>

HandleTerminal(id, kind) ==
  /\ LoopAt("run")
  /\ executor[id] = "running"
  /\ kind = "Exit" => ~InFile(output[id])
  /\ executor' = [executor EXCEPT ![id] = kind]
  /\ IF Live(id) THEN Respond(id, End(kind)) ELSE UNCHANGED <<routes, loop>>
  /\ UNCHANGED <<completed, opens, output, client, given>>

\* Mutant: an overload only cancels the request.
HandleOverloadCancels(id, m) ==
  /\ Sends(id, m)
  /\ routes' = IF Live(id) THEN [routes EXCEPT ![id] = Cancelled(@)] ELSE routes
  /\ UNCHANGED loop

\* The scheduler dropped an output frame of the request.
HandleOverload(id, m) ==
  /\ Sends(id, m)
  /\ IF Live(id)
     THEN /\ routes' = [routes EXCEPT ![id] = Failed(@)]
          /\ loop' = [pc |-> "drop", id |-> id, terminal |-> FALSE]
     ELSE UNCHANGED <<routes, loop>>

DropResponses ==
  /\ LoopAt("drop")
  /\ routes' = [routes EXCEPT ![loop.id] = Settled([@ EXCEPT !.held = FALSE], loop.terminal)]
  /\ loop' = Run
  /\ UNCHANGED <<completed, envVars, client, given>>

\* The channel failed or another channel of the owner takes over.
EndLoop ==
  /\ LoopAt("run")
  /\ loop' = [Run EXCEPT !.pc = "teardown"]
  /\ UNCHANGED <<routes, completed, envVars, client, given>>

\* Mutant: the response senders are dropped only after the handlers are joined.
TeardownHolding ==
  /\ LoopAt("teardown")
  /\ routes' = [id \in Id |-> IF Live(id) THEN Cancelled(routes[id]) ELSE NoRoute]
  /\ loop' = [Run EXCEPT !.pc = "join"]
  /\ UNCHANGED <<completed, envVars, client, given>>

Teardown ==
  /\ LoopAt("teardown")
  /\ routes' = [id \in Id |->
       IF Live(id) THEN [Cancelled(routes[id]) EXCEPT !.held = FALSE] ELSE NoRoute]
  /\ loop' = [Run EXCEPT !.pc = "join"]
  /\ UNCHANGED <<completed, envVars, client, given>>

JoinAll ==
  /\ LoopAt("join")
  /\ \A id \in Id : Live(id) => routes[id].handler = "reported"
  /\ routes' = [id \in Id |-> NoRoute]
  /\ completed' = <<>>
  /\ loop' = [Run EXCEPT !.pc = "stopped"]
  /\ UNCHANGED <<envVars, client, given>>

-----------------------------------------------------------------------------
(* The handler thread of an invocation.                                    *)

Handler(id, from, new) ==
  /\ HandlerAt(id, from)
  /\ routes' = [routes EXCEPT ![id] = new]
  /\ UNCHANGED <<loop, envVars>>

Quiet == UNCHANGED <<completed, client, given>>

HandlerStarts(id) ==
  /\ Handler(id, "start", [routes[id] EXCEPT !.handler = "recv", !.uploader = "reading"])
  /\ Quiet

\* The client's socket cannot be configured: it is closed without a word.
HandlerGivesUp(id) ==
  /\ Handler(id, "start", [Cancelled(routes[id]) EXCEPT !.handler = "report"])
  /\ Quiet

HandlerReceives(id) ==
  /\ HandlerAt(id, "recv") /\ routes[id].responses # <<>>
  /\ LET m == Head(routes[id].responses)
     IN Handler(id, "recv", [routes[id] EXCEPT
          !.responses = Tail(@), !.message = m, !.stopping = @ \/ IsTerminal(m),
          !.handler = IF IsTerminal(m) THEN "stop" ELSE "take"])
  /\ Quiet

HandlerDisconnected(id) ==
  /\ HandlerAt(id, "recv") /\ routes[id].responses = <<>> /\ ~routes[id].held
  /\ Handler(id, "recv", [routes[id] EXCEPT !.handler = "closing"])
  /\ Quiet

\* The uploader can be joined.
UploadOver(id) == routes[id].uploader # "reading"

HandlerStopsUpload(id) ==
  /\ HandlerAt(id, "stop") /\ UploadOver(id)
  /\ Handler(id, "stop", [routes[id] EXCEPT !.handler = "take"])
  /\ Quiet

\* The handler is done with the response.
Handled(r) ==
  [r EXCEPT !.handler = IF IsTerminal(r.message) THEN "closing" ELSE "recv",
            !.message = Blank, !.writing = Blank]

\* A recorded error is written in place of the response; nothing follows it.
HandlerTakes(id) ==
  /\ HandlerAt(id, "take")
  /\ LET r == routes[id]
     IN Handler(id, "take",
          IF r.clientError \/ r.errorSent THEN Handled(r)
          ELSE IF r.error
          THEN [r EXCEPT !.handler = "write", !.writing = End("Error"), !.error = FALSE,
                         !.errorSent = TRUE]
          ELSE [r EXCEPT !.handler = "write", !.writing = r.message])
  /\ Quiet

Writes(id, m) ==
  /\ client[id] = "open"
  /\ given' = [given EXCEPT ![id] = Append(@, m)]
  /\ UNCHANGED <<completed, client>>

HandlerWrites(id) ==
  /\ Handler(id, "write", Handled(routes[id]))
  /\ Writes(id, routes[id].writing)

\* The client is gone, or does not read within CLIENT_WRITE_TIMEOUT.
HandlerWriteFails(id) ==
  /\ Handler(id, "write", [Cancelled(Handled(routes[id])) EXCEPT !.clientError = TRUE])
  /\ Quiet

HandlerJoinsUpload(id) ==
  /\ HandlerAt(id, "closing") /\ UploadOver(id)
  /\ Handler(id, "closing", [routes[id] EXCEPT !.handler = "last"])
  /\ Quiet

\* Mutant: the handler ends without a word.
HandlerLastSilent(id) ==
  /\ HandlerAt(id, "last")
  /\ Handler(id, "last", [routes[id] EXCEPT !.handler = "report"])
  /\ Quiet

HandlerLast(id) ==
  /\ HandlerAt(id, "last")
  /\ LET r == routes[id]
         said == [r EXCEPT !.handler = "report", !.error = FALSE]
     IN IF ~r.clientError /\ ~r.errorSent /\ r.error
        THEN \/ Handler(id, "last", said) /\ Writes(id, End("Error"))
             \/ Handler(id, "last", [said EXCEPT !.clientError = TRUE]) /\ Quiet
        ELSE Handler(id, "last", [r EXCEPT !.handler = "report"]) /\ Quiet

HandlerReports(id) ==
  /\ Len(completed) < MaxRoutes
  /\ Handler(id, "report", [routes[id] EXCEPT !.handler = "reported"])
  /\ completed' = Append(completed, id)
  /\ UNCHANGED <<client, given>>

\* The handler let go of the socket.
Closed(id) == HandlerAt(id, "report") \/ HandlerAt(id, "reported") \/ ~Live(id)

HandlerStep(id) ==
  \/ HandlerStarts(id) \/ HandlerGivesUp(id) \/ HandlerReceives(id)
  \/ HandlerDisconnected(id) \/ HandlerStopsUpload(id) \/ HandlerTakes(id)
  \/ HandlerWrites(id) \/ HandlerWriteFails(id) \/ HandlerJoinsUpload(id)
  \/ HandlerLast(id) \/ HandlerReports(id)

-----------------------------------------------------------------------------
(* The uploader thread, and the client it reads from. A client that is gone    *)
(* closed its end of the socket or died.                                   *)

Uploader(id, new) ==
  /\ Live(id) /\ routes[id].uploader = "reading"
  /\ routes' = [routes EXCEPT ![id] = new]
  /\ UNCHANGED <<completed, loop, envVars, client, given>>

\* The end of the stream that a terminal causes is none of the client's.
Quietly(r) == r.stopping

\* Mutant: the handler waits for the uploader without ending its reading.
ReadLeftOpen(id) == FALSE

\* The handler shut the read side down.
ReadShut(id) == routes[id].handler \in {"stop", "closing"}

\* The client left, or there is no more to read from it.
UploadEnds(id) ==
  /\ Live(id)
  /\ client[id] = "gone" \/ ReadShut(id)
  /\ Uploader(id,
       IF Quietly(routes[id]) THEN [routes[id] EXCEPT !.uploader = "ended"]
       ELSE [Failed(routes[id]) EXCEPT !.uploader = "ended", !.stopping = TRUE])

\* The shim's own Cancel, forwarded as data.
UploadsCancel(id) ==
  /\ client[id] = "open"
  /\ Uploader(id, [routes[id] EXCEPT !.uploader = "cancelled"])

\* A frame the channel refuses, or that no shim may send.
UploadRefused(id) ==
  /\ client[id] = "open"
  /\ Uploader(id, [Failed(routes[id]) EXCEPT !.uploader = "ended"])

ClientLeaves(id) ==
  /\ client[id] = "open"
  /\ client' = [client EXCEPT ![id] = "gone"]
  /\ UNCHANGED <<routes, completed, loop, envVars, given>>

-----------------------------------------------------------------------------
LoopStep == DrainCompletion \/ DropResponses \/ EndLoop \/ Teardown \/ JoinAll

RequestStep(id) ==
  \/ \E m \in NextPieces(output[id]) : HandleOutput(id, m) \/ HandleOverload(id, m)
  \/ \E kind \in Terminal : HandleTerminal(id, kind)
  \/ HandlerStep(id)
  \/ UploadEnds(id) \/ UploadsCancel(id) \/ UploadRefused(id)

Next == LoopStep \/ \E id \in Id : Admit(id) \/ RequestStep(id) \/ ClientLeaves(id)

Spec == Init /\ [][Next]_vars

\* Threads run on; every turn of the loop drains the completions.
BrokerFairness ==
  /\ WF_vars(DrainCompletion) /\ WF_vars(DropResponses)
  /\ WF_vars(Teardown) /\ WF_vars(JoinAll)
  /\ \A id \in Id : WF_vars(HandlerStep(id)) /\ WF_vars(UploadEnds(id))

\* The executor answers every invocation (OpenAnswered of Executor).
Answering == \A id \in Id : WF_vars(\E kind \in Terminal : HandleTerminal(id, kind))

-----------------------------------------------------------------------------
(* Properties.                                                             *)

\* Every variable of the broker has its type.
TypeOK ==
  /\ routes \in [Id -> Route \cup {NoRoute}]
  /\ completed \in Seq(Id)
  /\ loop \in [pc : {"run", "drop", "teardown", "join", "stopped"}, id : Id \cup {NoId},
               terminal : BOOLEAN]
  /\ opens \in [Id -> Nat]
  /\ executor \in [Id -> {"none", "running"} \cup Terminal]
  /\ output \in [Id -> Seq(Piece)]
  /\ client \in [Id -> {"none", "open", "gone"}]
  /\ given \in [Id -> Seq(Message)]

\* A completion in the channel is that of a route the loop has not joined: the
\* channel never holds more than the loop can join, and no handler of a later
\* invocation under the ID is taken for the finished one.
CompletionMatches ==
  /\ \A i \in DOMAIN completed :
       /\ HandlerAt(completed[i], "reported")
       /\ ~routes[completed[i]].joined
  /\ \A i, j \in DOMAIN completed : completed[i] = completed[j] => i = j

\* A free ID never has an invocation on the Mac.
RouteCoversExecutor ==
  \A id \in Id : LoopAt("run") /\ ~Live(id) => executor[id] # "running"

\* A route lives exactly as long as its invocation, until the executor answered
\* and its handler is joined, whichever comes last: every completion finds its own
\* route, and an ID is only reused when the Mac is done with it.
RoutesExact == TypeOK /\ CompletionMatches /\ RouteCoversExecutor

\* A client is not left without a word while the broker runs on: the handler lets
\* go of it after a terminal, unless it could not be written to at all.
ToldWhy ==
  \A id \in Id :
    Live(id) /\ Closed(id) /\ loop.pc \in {"run", "drop"} =>
      \/ given[id] # <<>> /\ IsTerminal(Last(given[id]))
      \/ client[id] = "gone" \/ routes[id].clientError \/ routes[id].uploader = "none"

\* The invocation of a client that left is cancelled on the Mac, whether or not
\* its command would ever end.
GoneIsCancelled ==
  \A id \in Id : client[id] = "gone" /\ executor[id] = "running" ~>
    \/ executor[id] \in Terminal \/ loop.pc = "stopped"
    \/ Live(id) /\ (routes[id].cancelSent \/ routes[id].uploader = "cancelled")

\* The end of the loop joins every handler and uploader, whatever the clients do.
TeardownEnds == LoopAt("teardown") ~> LoopAt("stopped")
=============================================================================
