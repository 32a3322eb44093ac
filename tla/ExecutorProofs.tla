--------------------------- MODULE ExecutorProofs ---------------------------
(***************************************************************************)
(* Five facts of the executor for every number of requests, workers, frames   *)
(* and every capacity: types, the gate that keeps the main loop from blocking *)
(* on a full input channel, the match of completions with routes, the         *)
(* separation of two invocations that use the same request ID, and that the   *)
(* input fed to the first of them has no hole.                                *)
(*                                                                         *)
(* InputNeverBlocks is not inductive: the worker takes a frame off the       *)
(* channel before it counts it, so pending_input must be known exactly, as    *)
(* the length of the channel plus the frame taken and not counted. A         *)
(* completion matches because no two completions name the same request.      *)
(*                                                                         *)
(* NoStaleInput needs the whole path of a frame (StaleParts): its place in    *)
(* the queues of the scheduler, what the broker may have sent by then, and    *)
(* that the Open of the next invocation stands between the two, is waited     *)
(* for, or was dropped together with everything after it. Most steps only     *)
(* take something away (Calm) and keep all of it at once (CalmKeeps).         *)
(*                                                                         *)
(* NoInputHole needs what becomes of every frame sent after the last one fed  *)
(* (Reaches): it is queued, or it is cut off together with all input that     *)
(* follows (Cut), and stays so while the route takes input. Quiet steps feed  *)
(* nothing and lose only what is cut off (QuietKeeps); the others are the pop *)
(* of input, the first Open and the arrival of a frame.                       *)
(***************************************************************************)
EXTENDS Executor, InboundQueueProofs

BrokerTypeOK ==
  /\ sent \in [Id -> Nat]
  /\ opens \in [Id -> Nat]
  /\ sending \in [Id -> {"idle", "open", "eof"}]
  /\ openAt \in [Id -> Nat]
  /\ cancelAt \in [Id -> Nat]
  /\ answers \in [Id -> Nat]
  /\ probes \in Nat

LoopTypeOK ==
  /\ nextGeneration \in Nat
  /\ completed \in Seq([id : Id, generation : Nat])
  /\ loop \in [pc : LoopState, id : Id \cup {NoId}, n : Nat]
  /\ shutdown \in BOOLEAN
  /\ failed \in BOOLEAN

\* The frame forward_input has taken and not counted yet.
Taken(r) == IF r.stdin \in {"taken", "eof"} THEN 1 ELSE 0

RouteOK(r) ==
  /\ r \in Route
  /\ r.pending = Len(r.queue) + Taken(r)
  /\ r.pending <= InputCapacity
  /\ r.worker = "starting" => r.stdin = "idle"

RoutesOK ==
  /\ routes \in [Id -> Route \cup {NoRoute}]
  /\ \A id \in Id : Active(id) => RouteOK(routes[id])

Matches(c) ==
  /\ Active(c.id)
  /\ routes[c.id].generation = c.generation
  /\ routes[c.id].worker = "reported"

CompletedOK ==
  /\ \A i \in 1 .. Len(completed) : Matches(completed[i])
  /\ \A i, j \in 1 .. Len(completed) : completed[i].id = completed[j].id => i = j

IInv == QInv /\ BrokerTypeOK /\ LoopTypeOK /\ RoutesOK /\ CompletedOK

-----------------------------------------------------------------------------
(* Types of the broker's side.                                             *)

BrokerStep ==
  \/ UNCHANGED brokerVars
  \/ \E id \in Id, kind \in InputKind : Sends(id, kind)
  \/ /\ probes' = probes + 1
     /\ UNCHANGED <<sent, opens, sending, openAt, cancelAt, answers>>
  \/ \E id \in Id : /\ sending' = [sending EXCEPT ![id] = "idle"]
                    /\ UNCHANGED <<sent, opens, openAt, cancelAt, answers, probes>>
  \/ \E id \in Id \cup {NoId} :
       /\ answers' = [answers EXCEPT ![id] = @ + 1]
       /\ UNCHANGED <<sent, opens, sending, openAt, cancelAt, probes>>

\* A step of the broker or the channel keeps the types of the sending side.
LEMMA BrokerTypes ==
  ASSUME BrokerTypeOK, BrokerStep
  PROVE  BrokerTypeOK'
<1>1. CASE UNCHANGED brokerVars
  BY <1>1 DEF BrokerTypeOK, brokerVars
<1>2. ASSUME NEW id \in Id, NEW kind \in InputKind, Sends(id, kind) PROVE BrokerTypeOK'
  <2>1. sent' \in [Id -> Nat] /\ sent'[id] \in Nat /\ probes' \in Nat
    BY <1>2 DEF BrokerTypeOK, Sends
  <2>2. opens' \in [Id -> Nat]
    BY <1>2 DEF BrokerTypeOK, Sends
  <2>3. sending' \in [Id -> {"idle", "open", "eof"}]
    BY <1>2 DEF BrokerTypeOK, Sends
  <2>4. openAt' \in [Id -> Nat]
    BY <1>2, <2>1 DEF BrokerTypeOK, Sends
  <2>5. cancelAt' \in [Id -> Nat]
    BY <1>2, <2>1 DEF BrokerTypeOK, Sends
  <2>6. answers' \in [Id -> Nat]
    BY <1>2 DEF BrokerTypeOK, Sends
  <2>7. QED
    BY <2>1, <2>2, <2>3, <2>4, <2>5, <2>6 DEF BrokerTypeOK
<1>3. CASE /\ probes' = probes + 1
           /\ UNCHANGED <<sent, opens, sending, openAt, cancelAt, answers>>
  BY <1>3 DEF BrokerTypeOK
<1>4. ASSUME NEW id \in Id, sending' = [sending EXCEPT ![id] = "idle"],
             UNCHANGED <<sent, opens, openAt, cancelAt, answers, probes>>
      PROVE  BrokerTypeOK'
  BY <1>4 DEF BrokerTypeOK
<1>5. ASSUME NEW id \in Id \cup {NoId}, answers' = [answers EXCEPT ![id] = @ + 1],
             UNCHANGED <<sent, opens, sending, openAt, cancelAt, probes>>
      PROVE  BrokerTypeOK'
  <2>1. CASE id \in Id
    BY <1>5, <2>1 DEF BrokerTypeOK
  <2>2. CASE id \notin Id
    <3>1. answers' = answers
      BY <1>5, <2>2 DEF BrokerTypeOK
    <3>2. QED
      BY <1>5, <3>1 DEF BrokerTypeOK
  <2>3. QED
    BY <2>1, <2>2
<1>6. QED
  BY <1>1, <1>2, <1>3, <1>4, <1>5 DEF BrokerStep

-----------------------------------------------------------------------------
(* Routes and completions.                                                 *)

\* A registered request has a route, whose fields are those of Route.
LEMMA ActiveIsRoute ==
  ASSUME RoutesOK, NEW id \in Id
  PROVE  /\ Active(id) => routes[id] \in Route
         /\ \A r \in Route : r # NoRoute
<1>1. \A r \in Route : r.worker # NoRoute.worker
  BY DEF Route, WorkerState, NoRoute
<1>2. QED
  BY <1>1 DEF RoutesOK, Active

\* A step that keeps every registered route, its generation and its report.
LEMMA CompletionsKept ==
  ASSUME CompletedOK, completed' = completed,
         \A x \in Id : Active(x) =>
           /\ Active(x)'
           /\ routes'[x].generation = routes[x].generation
           /\ routes[x].worker = "reported" => routes'[x].worker = "reported",
         LoopTypeOK
  PROVE  CompletedOK'
<1>1. ASSUME NEW i \in 1 .. Len(completed) PROVE Matches(completed[i])'
  <2>1. completed[i] \in [id : Id, generation : Nat]
    BY ElementOfSeq DEF LoopTypeOK
  <2>2. Matches(completed[i]) /\ completed[i].id \in Id
    BY <2>1 DEF CompletedOK
  <2>3. QED
    BY <2>2 DEF Matches
<1>2. QED
  BY <1>1 DEF CompletedOK

\* One route changes, and stays registered under its generation.
LEMMA RouteChanges ==
  ASSUME RoutesOK, CompletedOK, LoopTypeOK, NEW id \in Id, Active(id),
         NEW r, RouteOK(r), r.generation = routes[id].generation,
         routes[id].worker = "reported" => r.worker = "reported",
         routes' = [routes EXCEPT ![id] = r], completed' = completed
  PROVE  RoutesOK' /\ CompletedOK'
<1>1. r \in Route /\ r # NoRoute
  BY ActiveIsRoute DEF RouteOK
<1>2. /\ routes' \in [Id -> Route \cup {NoRoute}] /\ routes'[id] = r
      /\ \A x \in Id \ {id} : routes'[x] = routes[x]
  BY <1>1 DEF RoutesOK
<1>3. RoutesOK'
  BY <1>2 DEF RoutesOK, Active, RouteOK, Taken
<1>4. CompletedOK'
  BY <1>1, <1>2, CompletionsKept DEF Active
<1>5. QED
  BY <1>3, <1>4

\* A step that touches neither routes nor completions keeps both invariants.
LEMMA RoutesKept ==
  ASSUME RoutesOK, CompletedOK, LoopTypeOK, UNCHANGED <<routes, completed>>
  PROVE  RoutesOK' /\ CompletedOK'
<1>1. RoutesOK'
  BY DEF RoutesOK, Active, RouteOK, Taken
<1>2. CompletedOK'
  BY CompletionsKept DEF Active
<1>3. QED
  BY <1>1, <1>2

\* A worker is spawned under a free request ID.
LEMMA RouteOpens ==
  ASSUME RoutesOK, CompletedOK, LoopTypeOK, NEW id \in Id, ~Active(id), NEW n \in Nat,
         routes' = [routes EXCEPT ![id] = NewRoute(n)], completed' = completed
  PROVE  RoutesOK' /\ CompletedOK'
<1>1. NewRoute(n) \in Route
  <2>1. <<>> \in Seq(Frame) /\ nextGeneration \in Nat
    BY EmptySeq DEF LoopTypeOK
  <2>2. QED
    BY <2>1 DEF NewRoute, Route, WorkerState
<1>2. RouteOK(NewRoute(n)) /\ NewRoute(n) # NoRoute
  <2>1. /\ NewRoute(n).pending = 0 /\ NewRoute(n).queue = <<>> /\ NewRoute(n).stdin = "idle"
    BY DEF NewRoute
  <2>2. Len(<<>>) = 0 /\ 0 <= InputCapacity
    BY EmptySeq, ExecutorAssumption
  <2>3. RouteOK(NewRoute(n))
    BY <1>1, <2>1, <2>2 DEF RouteOK, Taken
  <2>4. QED
    BY <1>1, <2>3, ActiveIsRoute
<1>3. /\ routes' \in [Id -> Route \cup {NoRoute}] /\ routes'[id] = NewRoute(n)
      /\ \A x \in Id \ {id} : routes'[x] = routes[x]
  BY <1>1 DEF RoutesOK
<1>4. RoutesOK'
  <2>1. \A x \in Id : Active(x)' => RouteOK(routes'[x])
    BY <1>2, <1>3 DEF RoutesOK, Active
  <2>2. QED
    BY <1>3, <2>1 DEF RoutesOK, RouteOK, Active, Taken
<1>5. CompletedOK'
  BY <1>2, <1>3, CompletionsKept DEF Active
<1>6. QED
  BY <1>4, <1>5

-----------------------------------------------------------------------------
(* The worker and the child.                                               *)

\* A step of one request's worker keeps the invariants when it keeps its route.
LEMMA WorkerKeeps ==
  ASSUME IInv, NEW id \in Id, NEW from, NEW new, Worker(id, from, new),
         RouteOK(new), new.generation = routes[id].generation,
         from = "reported" => new.worker = "reported",
         completed' = completed,
         \/ answers' = answers
         \/ answers' = [answers EXCEPT ![id] = @ + 1]
  PROVE  IInv'
<1>1. QInv'
  BY QueuesUnchanged DEF IInv, Worker
<1>2. BrokerTypeOK'
  BY BrokerTypes DEF IInv, Worker, BrokerStep, brokerVars
<1>3. LoopTypeOK'
  BY DEF IInv, Worker, LoopTypeOK
<1>4. RoutesOK' /\ CompletedOK'
  BY RouteChanges DEF IInv, Worker
<1>5. QED
  BY <1>1, <1>2, <1>3, <1>4 DEF IInv

\* The fields of a well-formed route have their types.
LEMMA RouteFields ==
  ASSUME NEW r \in Route
  PROVE  /\ r.worker \in WorkerState /\ r.generation \in Nat /\ r.open \in Nat
         /\ r.input \in BOOLEAN /\ r.pending \in Nat /\ r.queue \in Seq(Frame)
         /\ r.stdin \in {"idle", "taken", "eof", "busy", "done"} /\ r.fed \in Nat
         /\ r.cancelled \in BOOLEAN /\ r.retiring \in BOOLEAN /\ r.error \in BOOLEAN
         /\ r.ok \in BOOLEAN /\ Len(r.queue) \in Nat
  BY LenProperties DEF Route

\* The worker moves on or a flag is set: what the channel holds is unaffected.
LEMMA FlagsKeep ==
  ASSUME NEW r, RouteOK(r), NEW s \in Route,
         s.pending = r.pending, s.queue = r.queue, Taken(s) = Taken(r),
         s.worker = "starting" => r.worker = "starting" /\ s.stdin = r.stdin
  PROVE  RouteOK(s)
  BY DEF RouteOK

\* forward_input takes a frame off the channel and has not counted it yet.
LEMMA TakeInputRoute ==
  ASSUME NEW r, RouteOK(r), r.worker # "starting", r.queue # <<>>, r.stdin = "idle",
         NEW v \in {"taken", "eof"}, NEW s,
         s = [r EXCEPT !.queue = Tail(@), !.stdin = v]
  PROVE  RouteOK(s) /\ s.generation = r.generation /\ s.worker = r.worker
<1>1. /\ r \in Route /\ r.queue \in Seq(Frame) /\ Len(r.queue) \in Nat
      /\ r.pending = Len(r.queue) /\ r.pending <= InputCapacity
  BY RouteFields DEF RouteOK, Taken
<1>2. Tail(r.queue) \in Seq(Frame) /\ Len(Tail(r.queue)) = Len(r.queue) - 1
  BY <1>1, HeadTailProperties
<1>3. s \in Route
  BY <1>1, <1>2 DEF Route
<1>4. /\ s.queue = Tail(r.queue) /\ s.pending = r.pending /\ s.stdin = v
      /\ s.generation = r.generation /\ s.worker = r.worker
  BY <1>1 DEF Route
<1>5. Taken(s) = 1 /\ Len(s.queue) = Len(r.queue) - 1 /\ s.pending = Len(r.queue)
  BY <1>1, <1>2, <1>4 DEF Taken
<1>6. s.pending = Len(s.queue) + Taken(s) /\ s.pending <= InputCapacity
  BY <1>1, <1>4, <1>5
<1>7. QED
  BY <1>3, <1>4, <1>6 DEF RouteOK

\* forward_input counts the frame it took: pending_input is exact again.
LEMMA CountInputRoute ==
  ASSUME NEW r, RouteOK(r), r.stdin \in {"taken", "eof"},
         NEW v \in {"done", "busy"}, NEW s,
         s = [r EXCEPT !.pending = @ - 1, !.stdin = v]
  PROVE  RouteOK(s) /\ s.generation = r.generation /\ s.worker = r.worker
<1>1. /\ r \in Route /\ Len(r.queue) \in Nat /\ InputCapacity \in Nat
      /\ r.pending = Len(r.queue) + 1 /\ r.pending <= InputCapacity
  BY RouteFields, ExecutorAssumption DEF RouteOK, Taken
<1>2. r.pending - 1 \in Nat
  BY <1>1
<1>3. s \in Route
  BY <1>1, <1>2 DEF Route
<1>4. /\ s.queue = r.queue /\ s.pending = r.pending - 1 /\ s.stdin = v
      /\ s.generation = r.generation /\ s.worker = r.worker
  BY <1>1 DEF Route
<1>5. Taken(s) = 0 /\ Len(s.queue) = Len(r.queue)
  BY <1>4 DEF Taken
<1>6. s.pending = Len(s.queue) + Taken(s) /\ s.pending <= InputCapacity
  BY <1>1, <1>4, <1>5
<1>7. QED
  BY <1>3, <1>4, <1>6 DEF RouteOK

\* route_input: the gate left room for the frame.
LEMMA FedRoute ==
  ASSUME NEW r, RouteOK(r), r.pending < InputCapacity, NEW f \in Frame
  PROVE  /\ RouteOK(Fed(r, f))
         /\ RouteOK([Fed(r, f) EXCEPT !.input = FALSE])
         /\ Fed(r, f).generation = r.generation /\ Fed(r, f).worker = r.worker
<1>1. /\ r \in Route /\ r.queue \in Seq(Frame) /\ Len(r.queue) \in Nat
      /\ r.pending \in Nat /\ InputCapacity \in Nat
      /\ r.pending = Len(r.queue) + Taken(r) /\ Taken(r) \in {0, 1}
  BY RouteFields, ExecutorAssumption DEF RouteOK, Taken
<1>2. f.n \in Nat
  BY DEF Frame
<1>3. CASE r.stdin = "done"
  <2> DEFINE s == [r EXCEPT !.cancelled = TRUE, !.input = FALSE]
  <2>1. Fed(r, f) = s /\ [s EXCEPT !.input = FALSE] = s
    BY <1>1, <1>3 DEF Fed, Route
  <2>2. s \in Route /\ s.pending = r.pending /\ s.queue = r.queue /\ s.stdin = r.stdin
        /\ s.generation = r.generation /\ s.worker = r.worker
    BY <1>1 DEF Route
  <2> HIDE DEF s
  <2>3. RouteOK(s)
    BY <2>2, FlagsKeep DEF Taken
  <2>4. QED
    BY <2>1, <2>2, <2>3
<1>4. CASE r.stdin # "done"
  <2> DEFINE s == [r EXCEPT !.pending = @ + 1, !.queue = Append(@, f), !.fed = f.n]
             t == [s EXCEPT !.input = FALSE]
  <2>1. Fed(r, f) = s
    BY <1>4 DEF Fed
  <2>2. Append(r.queue, f) \in Seq(Frame) /\ Len(Append(r.queue, f)) = Len(r.queue) + 1
    BY <1>1, AppendProperties
  <2>3. s \in Route /\ s.pending = r.pending + 1 /\ s.queue = Append(r.queue, f)
        /\ s.stdin = r.stdin /\ s.generation = r.generation /\ s.worker = r.worker
    <3>1. r.pending + 1 \in Nat
      BY <1>1
    <3>2. s \in Route
      BY <1>1, <1>2, <2>2, <3>1 DEF Route
    <3>3. QED
      BY <1>1, <3>2 DEF Route
  <2> HIDE DEF s
  <2>4. RouteOK(s)
    <3>1. Taken(s) = Taken(r) /\ Len(s.queue) = Len(r.queue) + 1
      BY <2>2, <2>3 DEF Taken
    <3>2. s.pending = Len(s.queue) + Taken(s) /\ s.pending <= InputCapacity
      BY <1>1, <2>3, <3>1
    <3>3. QED
      BY <2>3, <3>2 DEF RouteOK
  <2>5. t \in Route /\ t.pending = s.pending /\ t.queue = s.queue /\ t.stdin = s.stdin
        /\ t.worker = s.worker
    BY <2>3 DEF Route
  <2> HIDE DEF t
  <2>6. RouteOK(t)
    BY <2>4, <2>5, FlagsKeep DEF Taken
  <2>7. QED
    BY <2>1, <2>3, <2>4, <2>6 DEF t
<1>5. QED
  BY <1>3, <1>4

\* A step that only moves the worker on or sets flags.
Moved(r, new) ==
  /\ new \in Route
  /\ new.pending = r.pending /\ new.queue = r.queue /\ new.generation = r.generation
  /\ Taken(new) = Taken(r)
  /\ new.worker = "starting" => r.worker = "starting" /\ new.stdin = r.stdin

\* A worker that only moves to another state keeps a route well formed.
LEMMA WorkerMoves ==
  ASSUME IInv, NEW id \in Id, NEW from, NEW new, Worker(id, from, new),
         Moved(routes[id], new), from = "reported" => new.worker = "reported",
         completed' = completed,
         \/ answers' = answers
         \/ answers' = [answers EXCEPT ![id] = @ + 1]
  PROVE  IInv'
<1>1. RouteOK(routes[id])
  BY DEF IInv, RoutesOK, Worker
<1>2. RouteOK(new)
  BY <1>1, FlagsKeep DEF Moved
<1>3. QED
  BY <1>2, WorkerKeeps DEF Moved

\* A route whose worker, flags or input thread move keeps the rest.
LEMMA MovedRoute ==
  ASSUME NEW r \in Route, NEW w \in WorkerState \ {"starting"}, NEW o \in BOOLEAN
  PROVE  /\ Moved(r, [r EXCEPT !.worker = w])
         /\ Moved(r, [r EXCEPT !.worker = w, !.ok = o])
         /\ Moved(r, [r EXCEPT !.worker = w, !.cancelled = TRUE])
         /\ Moved(r, [r EXCEPT !.worker = w, !.retiring = TRUE])
         /\ Moved(r, [r EXCEPT !.worker = w, !.error = TRUE])
         /\ Moved(r, [r EXCEPT !.worker = w, !.error = FALSE, !.retiring = TRUE])
  BY DEF Moved, Taken, Route

\* Flags of a route leave its input channel and its count alone.
LEMMA MovedFlags ==
  ASSUME NEW r \in Route
  PROVE  /\ Moved(r, [r EXCEPT !.cancelled = TRUE, !.error = TRUE])
         /\ Moved(r, [r EXCEPT !.retiring = TRUE, !.error = TRUE,
                               !.cancelled = TRUE, !.input = FALSE])
         /\ Moved(r, [r EXCEPT !.cancelled = TRUE, !.input = FALSE])
  BY DEF Moved, Taken, Route

\* The end of the input thread between two frames leaves the count alone.
LEMMA MovedStdin ==
  ASSUME NEW r \in Route, r.stdin \notin {"taken", "eof"},
         NEW w \in WorkerState \ {"starting"}
  PROVE  /\ r.worker # "starting" => Moved(r, [r EXCEPT !.stdin = "done"])
         /\ r.worker # "starting" => Moved(r, [r EXCEPT !.stdin = "idle"])
         /\ Moved(r, [r EXCEPT !.worker = w, !.stdin = "done", !.error = TRUE])
  BY DEF Moved, Taken, Route

\* Reporting adds the completion of a route that had none.
LEMMA ReportKeeps ==
  ASSUME IInv, NEW id \in Id, Active(id), routes[id] \in Route, RouteOK(routes[id]),
         Report(id)
  PROVE  IInv'
<1> DEFINE r == routes[id]
           new == [r EXCEPT !.worker = "reported"]
           c == [id |-> id, generation |-> r.generation]
           n == Len(completed)
<1>1. /\ Worker(id, "finished", new) /\ completed' = Append(completed, c)
      /\ answers' = answers /\ r.worker = "finished"
  BY DEF Report, Worker
<1>2. Moved(r, new) /\ new.worker = "reported"
  BY MovedRoute DEF WorkerState, Route
<1>3. RouteOK(new) /\ new # NoRoute
  BY <1>2, FlagsKeep, ActiveIsRoute DEF Moved, IInv
<1>4. c \in [id : Id, generation : Nat]
  BY RouteFields
<1>5. completed \in Seq([id : Id, generation : Nat])
  BY DEF IInv, LoopTypeOK
<1>6. /\ completed' \in Seq([id : Id, generation : Nat]) /\ Len(completed') = n + 1
      /\ n \in Nat /\ completed'[n + 1] = c
      /\ \A i \in 1 .. n : completed'[i] = completed[i]
  BY <1>1, <1>4, <1>5, AppendProperties, LenProperties
<1>7. QInv'
  BY <1>1, QueuesUnchanged DEF IInv, Worker
<1>8. BrokerTypeOK'
  BY <1>1, BrokerTypes DEF IInv, Worker, BrokerStep, brokerVars
<1>9. LoopTypeOK'
  BY <1>1, <1>6 DEF IInv, Worker, LoopTypeOK
<1>10. /\ routes' \in [Id -> Route \cup {NoRoute}] /\ routes'[id] = new
       /\ \A x \in Id \ {id} : routes'[x] = routes[x]
  BY <1>1, <1>2 DEF IInv, RoutesOK, Worker, Moved
<1> HIDE DEF new, c
<1>11. RoutesOK'
  <2>1. \A x \in Id : Active(x)' => RouteOK(routes'[x])
    BY <1>3, <1>10 DEF IInv, RoutesOK, Active
  <2>2. QED
    BY <1>10, <2>1 DEF RoutesOK, RouteOK, Active, Taken
<1>12. \A i \in 1 .. n : completed[i].id \in Id /\ Matches(completed[i])
                         /\ completed[i].id # id
  <2> SUFFICES ASSUME NEW i \in 1 .. n
               PROVE  completed[i].id \in Id /\ Matches(completed[i]) /\ completed[i].id # id
    OBVIOUS
  <2>1. completed[i] \in [id : Id, generation : Nat] /\ Matches(completed[i])
    BY <1>5, ElementOfSeq DEF IInv, CompletedOK
  <2>2. QED
    BY <1>1, <2>1 DEF Matches
<1>13. /\ c.id = id /\ c.generation = r.generation /\ new.generation = r.generation
  BY <1>2 DEF c, Moved
<1>14. \A i \in 1 .. n + 1 :
         /\ routes'[completed'[i].id] # NoRoute
         /\ routes'[completed'[i].id].generation = completed'[i].generation
         /\ routes'[completed'[i].id].worker = "reported"
  <2> SUFFICES ASSUME NEW i \in 1 .. n + 1
               PROVE  /\ routes'[completed'[i].id] # NoRoute
                      /\ routes'[completed'[i].id].generation = completed'[i].generation
                      /\ routes'[completed'[i].id].worker = "reported"
    OBVIOUS
  <2>1. CASE i \in 1 .. n
    BY <1>6, <1>10, <1>12, <2>1 DEF Matches, Active
  <2>2. CASE i = n + 1
    BY <1>2, <1>3, <1>6, <1>10, <1>13, <2>2
  <2>3. QED
    BY <1>6, <2>1, <2>2
<1>15. \A i, j \in 1 .. n + 1 : completed'[i].id = completed'[j].id => i = j
  <2> SUFFICES ASSUME NEW i \in 1 .. n + 1, NEW j \in 1 .. n + 1,
                      completed'[i].id = completed'[j].id
               PROVE  i = j
    OBVIOUS
  <2>1. CASE i = n + 1 \/ j = n + 1
    BY <1>6, <1>12, <1>13, <2>1
  <2>2. CASE i \in 1 .. n /\ j \in 1 .. n
    BY <1>6, <2>2 DEF IInv, CompletedOK
  <2>3. QED
    BY <1>6, <2>1, <2>2
<1>16. CompletedOK'
  BY <1>6, <1>14, <1>15 DEF CompletedOK, Matches, Active
<1>17. QED
  BY <1>7, <1>8, <1>9, <1>11, <1>16 DEF IInv

\* Every step of execute_request, of its threads and its child.
LEMMA WorkerStepKeeps ==
  ASSUME IInv, NEW id \in Id,
         \/ WorkerStep(id)
         \/ ChildReads(id) \/ ChildClosesStdin(id) \/ ChildExits(id) \/ OutputSaturates(id)
  PROVE  IInv'
<1> DEFINE r == routes[id]
<1>1. Active(id)
  BY DEF WorkerStep, StartChild, TakeInput, CountInput, KillChild, EndInput, CollectChild,
     ExitCommitted, TakeError, ErrorCommitted, Report, ChildReads, ChildClosesStdin,
     ChildExits, OutputSaturates, Worker
<1>2. /\ r \in Route /\ RouteOK(r) /\ r.stdin \in {"idle", "taken", "eof", "busy", "done"}
      /\ r.worker \in WorkerState
  BY <1>1, ActiveIsRoute, RouteFields DEF IInv, RoutesOK
<1>3. CASE StartChild(id)
  <2> DEFINE new == [r EXCEPT !.worker = "epilogue", !.stdin = "done", !.error = TRUE]
  <2>1. UNCHANGED <<answers, completed>>
    BY <1>3 DEF StartChild, Unanswered
  <2>2. CASE Worker(id, "starting", [r EXCEPT !.worker = "running"])
    <3>1. Moved(r, [r EXCEPT !.worker = "running"])
      BY <1>2, MovedRoute DEF WorkerState
    <3>2. QED
      BY <2>1, <2>2, <3>1, WorkerMoves
  <2>3. CASE Worker(id, "starting", new)
    <3>1. r.stdin = "idle"
      BY <1>2, <2>3 DEF Worker, RouteOK
    <3>2. Moved(r, new)
      BY <1>2, <3>1, MovedStdin DEF WorkerState
    <3>3. QED
      BY <2>1, <2>3, <3>2, WorkerMoves
  <2>4. QED
    BY <1>3, <2>2, <2>3 DEF StartChild
<1>4. CASE TakeInput(id)
  <2> DEFINE v == IF Head(r.queue).kind = "StdinEof" THEN "eof" ELSE "taken"
             new == [r EXCEPT !.queue = Tail(@), !.stdin = v]
  <2>1. /\ Worker(id, "running", new) /\ r.queue # <<>> /\ r.stdin = "idle"
        /\ r.worker = "running" /\ UNCHANGED <<answers, completed>>
    BY <1>4 DEF TakeInput, Unanswered, Worker
  <2>2. v \in {"taken", "eof"}
    OBVIOUS
  <2> HIDE DEF v
  <2>3. RouteOK(new) /\ new.generation = r.generation
    BY <1>2, <2>1, <2>2, TakeInputRoute
  <2>4. QED
    BY <2>1, <2>3, WorkerKeeps
<1>5. CASE CountInput(id)
  <2> DEFINE v == IF r.stdin = "eof" \/ r.cancelled THEN "done" ELSE "busy"
             new == [r EXCEPT !.pending = @ - 1, !.stdin = v]
  <2>1. /\ Worker(id, r.worker, new) /\ r.stdin \in {"taken", "eof"}
        /\ UNCHANGED <<answers, completed>>
    BY <1>5 DEF CountInput, Unanswered
  <2>2. v \in {"done", "busy"}
    OBVIOUS
  <2> HIDE DEF v
  <2>3. RouteOK(new) /\ new.generation = r.generation /\ new.worker = r.worker
    BY <1>2, <2>1, <2>2, CountInputRoute
  <2>4. QED
    BY <2>1, <2>3, WorkerKeeps
<1>6. CASE KillChild(id)
  <2>1. Moved(r, [r EXCEPT !.worker = "exited", !.cancelled = TRUE])
    BY <1>2, MovedRoute DEF WorkerState
  <2>2. QED
    BY <1>6, <2>1, WorkerMoves DEF KillChild, Unanswered
<1>7. CASE EndInput(id)
  <2> DEFINE new == [r EXCEPT !.stdin = "done"]
  <2>1. r.stdin \in {"idle", "busy"} /\ r.worker \in {"exited", "running"}
    BY <1>7 DEF EndInput, Running
  <2>2. Moved(r, new) /\ new.worker = r.worker
    BY <1>2, <2>1, MovedStdin DEF Route, WorkerState
  <2>3. Worker(id, r.worker, new) /\ UNCHANGED <<answers, completed>>
    BY <1>7 DEF EndInput, Unanswered
  <2>4. QED
    BY <2>2, <2>3, WorkerMoves
<1>8. CASE CollectChild(id)
  <2>1. UNCHANGED <<answers, completed>>
    BY <1>8 DEF CollectChild, Unanswered
  <2>2. PICK new : Worker(id, "exited", new) /\ new \in
          {[r EXCEPT !.worker = "epilogue"],
           [r EXCEPT !.worker = "exiting", !.retiring = TRUE],
           [r EXCEPT !.worker = "epilogue", !.error = TRUE],
           [r EXCEPT !.worker = "finished", !.ok = FALSE]}
    BY <1>8, Zenon DEF CollectChild
  <2>3. /\ Moved(r, [r EXCEPT !.worker = "epilogue"])
        /\ Moved(r, [r EXCEPT !.worker = "exiting", !.retiring = TRUE])
        /\ Moved(r, [r EXCEPT !.worker = "epilogue", !.error = TRUE])
        /\ Moved(r, [r EXCEPT !.worker = "finished", !.ok = FALSE])
    BY <1>2, MovedRoute DEF WorkerState
  <2>4. QED
    BY <2>1, <2>2, <2>3, WorkerMoves
<1>9. CASE ExitCommitted(id)
  <2> PICK written \in BOOLEAN :
        /\ Worker(id, "exiting", [r EXCEPT !.worker = "epilogue", !.ok = written])
        /\ Answered(id, written)
    BY <1>9 DEF ExitCommitted
  <2> DEFINE new == [r EXCEPT !.worker = "epilogue", !.ok = written]
  <2>1. /\ Worker(id, "exiting", new) /\ completed' = completed
        /\ answers' = answers \/ answers' = [answers EXCEPT ![id] = @ + 1]
    BY DEF Answered
  <2>2. Moved(r, new)
    BY <1>2, MovedRoute DEF WorkerState
  <2>3. QED
    BY <2>1, <2>2, WorkerMoves
<1>10. CASE TakeError(id)
  <2> DEFINE w == IF r.error THEN "failing" ELSE "finished"
             new == [r EXCEPT !.worker = w, !.error = FALSE, !.retiring = TRUE]
  <2>1. Worker(id, "epilogue", new) /\ UNCHANGED <<answers, completed>>
    BY <1>10 DEF TakeError, Unanswered
  <2>2. Moved(r, new)
    BY <1>2, MovedRoute DEF WorkerState
  <2>3. QED
    BY <2>1, <2>2, WorkerMoves
<1>11. CASE ErrorCommitted(id)
  <2> PICK written \in BOOLEAN :
        /\ Worker(id, "failing", [r EXCEPT !.worker = "finished", !.ok = written])
        /\ Answered(id, written)
    BY <1>11 DEF ErrorCommitted
  <2> DEFINE new == [r EXCEPT !.worker = "finished", !.ok = written]
  <2>1. /\ Worker(id, "failing", new) /\ completed' = completed
        /\ answers' = answers \/ answers' = [answers EXCEPT ![id] = @ + 1]
    BY DEF Answered
  <2>2. Moved(r, new)
    BY <1>2, MovedRoute DEF WorkerState
  <2>3. QED
    BY <2>1, <2>2, WorkerMoves
<1>12. CASE Report(id)
  BY <1>1, <1>2, <1>12, ReportKeeps
<1>13. CASE ChildReads(id)
  <2> DEFINE new == [r EXCEPT !.stdin = "idle"]
  <2>1. /\ r.stdin = "busy" /\ r.worker = "running"
        /\ Worker(id, "running", new) /\ UNCHANGED <<answers, completed>>
    BY <1>13 DEF ChildReads, Running, Unanswered
  <2>2. Moved(r, new)
    BY <1>2, <2>1, MovedStdin DEF WorkerState
  <2>3. QED
    BY <2>1, <2>2, WorkerMoves
<1>14. CASE ChildClosesStdin(id)
  <2> DEFINE new == [r EXCEPT !.stdin = "done"]
  <2>1. /\ r.stdin = "busy" /\ r.worker = "running"
        /\ Worker(id, "running", new) /\ UNCHANGED <<answers, completed>>
    BY <1>14 DEF ChildClosesStdin, Running, Unanswered
  <2>2. Moved(r, new)
    BY <1>2, <2>1, MovedStdin DEF WorkerState
  <2>3. QED
    BY <2>1, <2>2, WorkerMoves
<1>15. CASE ChildExits(id)
  <2>1. Moved(r, [r EXCEPT !.worker = "exited"])
    BY <1>2, MovedRoute DEF WorkerState
  <2>2. QED
    BY <1>15, <2>1, WorkerMoves DEF ChildExits, Unanswered
<1>16. CASE OutputSaturates(id)
  <2> DEFINE new == [r EXCEPT !.cancelled = TRUE, !.error = TRUE]
  <2>1. UNCHANGED <<answers, completed>>
    BY <1>16 DEF OutputSaturates, Unanswered
  <2>2. Moved(r, new)
    BY <1>2, MovedFlags
  <2>3. Worker(id, "running", new) \/ Worker(id, "exited", new)
    BY <1>16 DEF OutputSaturates
  <2>4. QED
    BY <2>1, <2>2, <2>3, WorkerMoves
<1>17. QED
  BY <1>3, <1>4, <1>5, <1>6, <1>7, <1>8, <1>9, <1>10, <1>11, <1>12, <1>13, <1>14, <1>15,
     <1>16 DEF WorkerStep

-----------------------------------------------------------------------------
(* The main loop.                                                          *)

\* The head of a queue of the scheduler is a frame.
LEMMA FrameOfQueue ==
  ASSUME QInv, NEW id \in Id, NEW f \in At(events[id]) \cup At(retained[id])
  PROVE  f \in Frame /\ f.n \in Nat
<1>1. events[id] \in Seq(Frame) /\ retained[id] \in Seq(Frame)
  BY DEF QInv, QueueTypeOK
<1>2. f \in Frame
  BY <1>1, AtSubset
<1>3. QED
  BY <1>2 DEF Frame

\* Steps of the loop that leave routes and completions alone.
LEMMA LoopMoves ==
  ASSUME IInv, QInv', BrokerStep, LoopTypeOK', UNCHANGED <<routes, completed>>
  PROVE  IInv'
  BY BrokerTypes, RoutesKept DEF IInv

\* Moving the main loop keeps its type.
LEMMA GoToType ==
  ASSUME NEW pc \in LoopState, NEW id \in Id \cup {NoId}, GoTo(pc, id)
  PROVE  loop' \in [pc : LoopState, id : Id \cup {NoId}, n : Nat]
  BY DEF GoTo

\* The main loop at the top of its turn.
LEMMA PollType == Poll \in [pc : LoopState, id : Id \cup {NoId}, n : Nat]
  BY DEF Poll, LoopState

\* drain_executor_completions removes the route the completion is of.
LEMMA DrainCompletionKeeps ==
  ASSUME IInv, DrainCompletion
  PROVE  IInv'
<1> DEFINE c == Head(completed)
           n == Len(completed)
<1>1. /\ completed # <<>> /\ completed' = Tail(completed) /\ routes' = Reaped(c)
      /\ IF Breaks(c) THEN GoTo("teardown", NoId) ELSE UNCHANGED loop
      /\ UNCHANGED <<queueVars, brokerVars, nextGeneration, shutdown, failed>>
  BY DEF DrainCompletion
<1>2. completed \in Seq([id : Id, generation : Nat]) /\ n \in Nat
  BY LenProperties DEF IInv, LoopTypeOK
<1>3. n > 0 /\ c = completed[1]
  BY <1>1, <1>2, EmptySeq
<1>4. /\ completed' \in Seq([id : Id, generation : Nat]) /\ Len(completed') = n - 1
      /\ \A i \in 1 .. n - 1 : completed'[i] = completed[i + 1]
  BY <1>1, <1>2, HeadTailProperties
<1>5. \A i \in 1 .. n : completed[i] \in [id : Id, generation : Nat]
  BY <1>2, ElementOfSeq
<1>6. c.id \in Id /\ Matches(c)
  BY <1>2, <1>3, <1>5 DEF IInv, CompletedOK
<1> HIDE DEF c
<1>7. routes' = [routes EXCEPT ![c.id] = NoRoute]
  BY <1>1, <1>6 DEF Reaped, Matches
<1>8. /\ routes' \in [Id -> Route \cup {NoRoute}] /\ routes'[c.id] = NoRoute
      /\ \A x \in Id \ {c.id} : routes'[x] = routes[x]
  BY <1>6, <1>7 DEF IInv, RoutesOK
<1>9. RoutesOK'
  <2>1. \A x \in Id : Active(x)' => RouteOK(routes'[x])
    BY <1>8 DEF IInv, RoutesOK, Active
  <2>2. QED
    BY <1>8, <2>1 DEF RoutesOK, RouteOK, Active, Taken
<1>10. \A i \in 1 .. n - 1 :
         /\ routes'[completed'[i].id] # NoRoute
         /\ routes'[completed'[i].id].generation = completed'[i].generation
         /\ routes'[completed'[i].id].worker = "reported"
  <2> SUFFICES ASSUME NEW i \in 1 .. n - 1
               PROVE  /\ routes'[completed'[i].id] # NoRoute
                      /\ routes'[completed'[i].id].generation = completed'[i].generation
                      /\ routes'[completed'[i].id].worker = "reported"
    OBVIOUS
  <2>1. i + 1 \in 1 .. n /\ 1 \in 1 .. n /\ i + 1 # 1 /\ completed'[i] = completed[i + 1]
    BY <1>2, <1>4
  <2>2. Matches(completed[i + 1]) /\ completed[i + 1].id # c.id
    BY <1>3, <2>1 DEF IInv, CompletedOK
  <2>3. completed[i + 1].id \in Id
    BY <1>5, <2>1
  <2>4. QED
    BY <1>8, <2>1, <2>2, <2>3 DEF Matches, Active
<1>11. \A i, j \in 1 .. n - 1 : completed'[i].id = completed'[j].id => i = j
  <2> SUFFICES ASSUME NEW i \in 1 .. n - 1, NEW j \in 1 .. n - 1,
                      completed'[i].id = completed'[j].id
               PROVE  i = j
    OBVIOUS
  <2>1. i + 1 \in 1 .. n /\ j + 1 \in 1 .. n
    BY <1>2
  <2>2. i + 1 = j + 1
    BY <1>4, <2>1 DEF IInv, CompletedOK
  <2>3. QED
    BY <2>2
<1>12. CompletedOK'
  BY <1>4, <1>10, <1>11 DEF CompletedOK, Matches, Active
<1>13. LoopTypeOK'
  <2>1. loop' \in [pc : LoopState, id : Id \cup {NoId}, n : Nat]
    BY <1>1, GoToType DEF LoopState, IInv, LoopTypeOK
  <2>2. QED
    BY <1>1, <1>4, <2>1 DEF IInv, LoopTypeOK
<1>14. BrokerTypeOK'
  BY <1>1, BrokerTypes DEF IInv, BrokerStep
<1>15. QInv'
  BY <1>1, QueuesUnchanged DEF IInv
<1>16. QED
  BY <1>9, <1>12, <1>13, <1>14, <1>15 DEF IInv

\* An Open registers a route under a free ID, with a fresh generation.
LEMMA OpenRouteKeeps ==
  ASSUME IInv, NEW id \in Id \cup {NoId}, NEW n \in Nat, OpenRoute(id, n),
         UNCHANGED <<completed, shutdown, failed>>
  PROVE  RoutesOK' /\ CompletedOK' /\ LoopTypeOK'
<1>1. CASE Active(id) \/ Cardinality({i \in Id : Active(i)}) >= MaxRoutes
  <2>1. GoTo("terminal", id) /\ UNCHANGED <<routes, nextGeneration>>
    BY <1>1 DEF OpenRoute
  <2>2. loop' \in [pc : LoopState, id : Id \cup {NoId}, n : Nat]
    BY <2>1, GoToType DEF LoopState
  <2>3. LoopTypeOK'
    BY <2>1, <2>2 DEF IInv, LoopTypeOK
  <2>4. QED
    BY <2>1, <2>3, RoutesKept DEF IInv
<1>2. CASE ~ (Active(id) \/ Cardinality({i \in Id : Active(i)}) >= MaxRoutes)
  <2>1. /\ routes' = [routes EXCEPT ![id] = NewRoute(n)]
        /\ nextGeneration' = nextGeneration + 1
        /\ loop' = Poll
    BY <1>2 DEF OpenRoute
  <2>2. LoopTypeOK'
    BY <2>1, PollType DEF IInv, LoopTypeOK
  <2>3. CASE id \in Id
    BY <1>2, <2>1, <2>2, <2>3, RouteOpens DEF IInv
  <2>4. CASE id \notin Id
    <3>1. routes' = routes
      BY <2>1, <2>4 DEF IInv, RoutesOK
    <3>2. QED
      BY <2>2, <3>1, RoutesKept DEF IInv
  <2>5. QED
    BY <2>3, <2>4
<1>3. QED
  BY <1>1, <1>2

\* The main loop sets flags of a route.
LEMMA FlagsSet ==
  ASSUME IInv, NEW id \in Id, Active(id), NEW new, Moved(routes[id], new),
         new.worker = routes[id].worker,
         routes' = [routes EXCEPT ![id] = new], completed' = completed
  PROVE  RoutesOK' /\ CompletedOK'
<1>1. RouteOK(routes[id])
  BY DEF IInv, RoutesOK
<1>2. RouteOK(new)
  BY <1>1, FlagsKeep DEF Moved
<1>3. QED
  BY <1>2, RouteChanges DEF IInv, Moved

\* The overload branch of the loop sets flags of a route at most.
LEMMA HandleOverloadKeeps ==
  ASSUME IInv, NEW id \in Id, HandleOverload(id)
  PROVE  IInv'
<1>1. QInv'
  BY PopOverloadKeeps, PopCancelOverloadedKeeps DEF HandleOverload, IInv
<1>2. BrokerTypeOK' /\ UNCHANGED <<nextGeneration, completed, shutdown, failed>>
  BY BrokerTypes DEF HandleOverload, IInv, BrokerStep
<1>3. CASE Active(id)
  <2> DEFINE r == routes[id]
             new == [r EXCEPT !.retiring = TRUE, !.error = TRUE,
                              !.cancelled = TRUE, !.input = FALSE]
  <2>1. r \in Route
    BY <1>3, ActiveIsRoute DEF IInv
  <2>2. routes' = [routes EXCEPT ![id] = new] /\ loop' = loop
    BY <1>3, <2>1 DEF HandleOverload, IInv, RoutesOK
  <2>3. Moved(r, new) /\ new.worker = r.worker
    BY <2>1, MovedFlags DEF Route
  <2>4. LoopTypeOK'
    BY <1>2, <2>2 DEF IInv, LoopTypeOK
  <2>5. QED
    BY <1>1, <1>2, <1>3, <2>2, <2>3, <2>4, FlagsSet DEF IInv
<1>4. CASE ~Active(id)
  <2>1. GoTo("terminal", id) /\ routes' = routes
    BY <1>4 DEF HandleOverload
  <2>2. loop' \in [pc : LoopState, id : Id \cup {NoId}, n : Nat]
    BY <2>1, GoToType DEF LoopState
  <2>3. LoopTypeOK'
    BY <1>2, <2>2 DEF IInv, LoopTypeOK
  <2>4. QED
    BY <1>1, <1>2, <2>1, <2>3, RoutesKept DEF IInv
<1>5. QED
  BY <1>3, <1>4

\* The Cancel branch of the loop sets a flag of a route at most.
LEMMA HandleCancelKeeps ==
  ASSUME IInv, NEW id \in Id, HandleCancel(id)
  PROVE  IInv'
<1>1. QInv'
  BY PopCancelKeeps DEF HandleCancel, IInv
<1>2. BrokerTypeOK' /\ UNCHANGED <<nextGeneration, completed, shutdown, failed>>
  BY BrokerTypes DEF HandleCancel, IInv, BrokerStep
<1>3. CASE Active(id)
  <2> DEFINE r == routes[id]
             new == [r EXCEPT !.cancelled = TRUE, !.input = FALSE]
  <2>1. r \in Route
    BY <1>3, ActiveIsRoute DEF IInv
  <2>2. routes' = [routes EXCEPT ![id] = new] /\ GoTo("discard", id)
    BY <1>3, <2>1 DEF HandleCancel, IInv, RoutesOK
  <2>3. Moved(r, new) /\ new.worker = r.worker
    BY <2>1, MovedFlags DEF Route
  <2>4. loop' \in [pc : LoopState, id : Id \cup {NoId}, n : Nat]
    BY <2>2, GoToType DEF LoopState
  <2>5. LoopTypeOK'
    BY <1>2, <2>4 DEF IInv, LoopTypeOK
  <2>6. QED
    BY <1>1, <1>2, <1>3, <2>2, <2>3, <2>5, FlagsSet DEF IInv
<1>4. CASE ~Active(id)
  <2>1. UNCHANGED <<routes, loop>>
    BY <1>4 DEF HandleCancel
  <2>2. LoopTypeOK'
    BY <1>2, <2>1 DEF IInv, LoopTypeOK
  <2>3. QED
    BY <1>1, <1>2, <2>1, <2>2, RoutesKept DEF IInv
<1>5. QED
  BY <1>3, <1>4

\* The gate: what is popped in turn belongs to a request that is ready for it.
LEMMA PopInputGate ==
  ASSUME IInv, NEW id \in Id, NEW f, NEW kind, PopInput(id, f, kind)
  PROVE  /\ QInv' /\ f \in Frame /\ f.n \in Nat
         /\ Active(id) => ~routes[id].input \/ routes[id].pending < InputCapacity
<1>1. PopReady(id, f, RequestReady) /\ f \in At(events[id]) \cup At(retained[id])
  BY DEF PopInput
<1>2. QInv'
  BY <1>1, PopReadyKeeps DEF IInv
<1>3. id \in RequestReady
  BY <1>1 DEF PopReady, IsFirst
<1>4. QED
  BY <1>1, <1>2, <1>3, FrameOfQueue DEF IInv, RequestReady

\* Stdin and StdinEof go to the input channel of the route, which has room.
LEMMA HandleInputKeeps ==
  ASSUME IInv, NEW id \in Id, NEW f,
         HandleStdin(id, f) \/ HandleStdinEof(id, f)
  PROVE  IInv'
<1>1. /\ QInv' /\ f \in Frame
      /\ Active(id) => ~routes[id].input \/ routes[id].pending < InputCapacity
  BY PopInputGate DEF HandleStdin, HandleStdinEof
<1>2. UNCHANGED <<brokerVars, nextGeneration, completed, loop, shutdown, failed>>
  BY DEF HandleStdin, HandleStdinEof
<1>3. LoopTypeOK' /\ BrokerStep
  BY <1>2 DEF IInv, LoopTypeOK, BrokerStep
<1>4. CASE Active(id) /\ routes[id].input
  <2> DEFINE r == routes[id]
             s == Fed(r, f)
             t == [s EXCEPT !.input = FALSE]
  <2>1. RouteOK(r) /\ r.pending < InputCapacity
    BY <1>1, <1>4 DEF IInv, RoutesOK
  <2>2. /\ RouteOK(s) /\ RouteOK(t)
        /\ s.generation = r.generation /\ s.worker = r.worker
    BY <1>1, <2>1, FedRoute
  <2>3. t.generation = s.generation /\ t.worker = s.worker
    BY <2>2 DEF RouteOK, Route
  <2>4. routes' = [routes EXCEPT ![id] = s] \/ routes' = [routes EXCEPT ![id] = t]
    BY <1>4 DEF HandleStdin, HandleStdinEof, IInv, RoutesOK
  <2> HIDE DEF s, t
  <2>5. RoutesOK' /\ CompletedOK'
    BY <1>2, <1>4, <2>2, <2>3, <2>4, RouteChanges DEF IInv
  <2>6. QED
    BY <1>1, <1>3, <2>5, BrokerTypes DEF IInv
<1>5. CASE ~ (Active(id) /\ routes[id].input)
  <2>1. routes' = routes
    BY <1>5 DEF HandleStdin, HandleStdinEof
  <2>2. QED
    BY <1>1, <1>2, <1>3, <2>1, LoopMoves
<1>6. QED
  BY <1>4, <1>5

\* The Open branch: refused, awaiting the last worker, or registered.
LEMMA HandleOpenKeeps ==
  ASSUME IInv, NEW id \in Id, NEW f, HandleOpen(id, f)
  PROVE  IInv'
<1>1. QInv' /\ f.n \in Nat
  BY PopInputGate DEF HandleOpen
<1>2. UNCHANGED <<brokerVars, completed, shutdown, failed>>
  BY DEF HandleOpen
<1>3. CASE Active(id) /\ routes[id].retiring
  <2>1. loop' = [pc |-> "await", id |-> id, n |-> f.n] /\ UNCHANGED <<routes, nextGeneration>>
    BY <1>3 DEF HandleOpen
  <2>2. LoopTypeOK'
    BY <1>1, <1>2, <2>1 DEF IInv, LoopTypeOK, LoopState
  <2>3. QED
    BY <1>1, <1>2, <2>1, <2>2, LoopMoves DEF BrokerStep
<1>4. CASE ~ (Active(id) /\ routes[id].retiring)
  <2>1. OpenRoute(id, f.n)
    BY <1>4 DEF HandleOpen
  <2>2. RoutesOK' /\ CompletedOK' /\ LoopTypeOK'
    BY <1>1, <1>2, <2>1, OpenRouteKeeps
  <2>3. QED
    BY <1>1, <1>2, <2>2, BrokerTypes DEF IInv, BrokerStep
<1>5. QED
  BY <1>3, <1>4

\* An Open that waited for the last worker of its ID.
LEMMA HandleAwaitedOpenKeeps ==
  ASSUME IInv, HandleAwaitedOpen
  PROVE  IInv'
<1>1. /\ OpenRoute(loop.id, loop.n)
      /\ UNCHANGED <<queueVars, brokerVars, completed, shutdown, failed>>
  BY DEF HandleAwaitedOpen
<1>2. loop.id \in Id \cup {NoId} /\ loop.n \in Nat
  BY DEF IInv, LoopTypeOK
<1>3. RoutesOK' /\ CompletedOK' /\ LoopTypeOK'
  BY <1>1, <1>2, OpenRouteKeeps
<1>4. QED
  BY <1>1, <1>3, BrokerTypes, QueuesUnchanged DEF IInv, BrokerStep

\* The end of the loop cancels every worker.
LEMMA CancelAllKeeps ==
  ASSUME IInv, CancelAll
  PROVE  IInv'
<1> DEFINE cancel(r) == [r EXCEPT !.cancelled = TRUE, !.input = FALSE]
<1>1. /\ routes' = [id \in Id |-> IF Active(id) THEN cancel(routes[id]) ELSE NoRoute]
      /\ GoTo("join", NoId)
      /\ UNCHANGED <<queueVars, brokerVars, nextGeneration, completed, shutdown, failed>>
  BY DEF CancelAll
<1>2. ASSUME NEW id \in Id, Active(id)
      PROVE  /\ routes'[id] \in Route /\ routes'[id] # NoRoute /\ RouteOK(routes'[id])
             /\ routes'[id].generation = routes[id].generation
             /\ routes'[id].worker = routes[id].worker
  <2>1. routes[id] \in Route /\ RouteOK(routes[id])
    BY <1>2, ActiveIsRoute DEF IInv, RoutesOK
  <2>2. routes'[id] = cancel(routes[id])
    BY <1>1, <1>2
  <2>3. /\ Moved(routes[id], routes'[id])
        /\ routes'[id].worker = routes[id].worker
    BY <2>1, <2>2, MovedFlags DEF Route
  <2>4. QED
    BY <2>1, <2>3, FlagsKeep, ActiveIsRoute DEF IInv, Moved
<1>3. \A id \in Id : ~Active(id) => routes'[id] = NoRoute
  BY <1>1
<1>4. routes' \in [Id -> Route \cup {NoRoute}]
  <2>1. \A id \in Id : routes'[id] \in Route \cup {NoRoute}
    BY <1>2, <1>3
  <2>2. QED
    BY <1>1, <2>1
<1>5. RoutesOK'
  <2>1. \A x \in Id : Active(x)' => RouteOK(routes'[x])
    BY <1>2, <1>3 DEF Active
  <2>2. QED
    BY <1>4, <2>1 DEF RoutesOK, RouteOK, Active, Taken
<1>6. CompletedOK'
  BY <1>1, <1>2, CompletionsKept DEF IInv, Active
<1>7. loop' \in [pc : LoopState, id : Id \cup {NoId}, n : Nat]
  BY <1>1, GoToType DEF LoopState
<1>8. LoopTypeOK'
  BY <1>1, <1>7 DEF IInv, LoopTypeOK
<1>9. QED
  BY <1>1, <1>5, <1>6, <1>8, BrokerTypes, QueuesUnchanged DEF IInv, BrokerStep

\* The end of the loop joins every worker and forgets the routes.
LEMMA JoinAllKeeps ==
  ASSUME IInv, JoinAll
  PROVE  IInv'
<1>1. /\ routes' = [id \in Id |-> NoRoute] /\ completed' = <<>> /\ GoTo("stopped", NoId)
      /\ UNCHANGED <<queueVars, brokerVars, nextGeneration, shutdown, failed>>
  BY DEF JoinAll
<1>2. RoutesOK'
  BY <1>1 DEF RoutesOK, Active
<1>3. completed' \in Seq([id : Id, generation : Nat]) /\ Len(completed') = 0
  BY <1>1, EmptySeq
<1>4. CompletedOK'
  BY <1>3 DEF CompletedOK
<1>5. loop' \in [pc : LoopState, id : Id \cup {NoId}, n : Nat]
  BY <1>1, GoToType DEF LoopState
<1>6. LoopTypeOK'
  BY <1>1, <1>3, <1>5 DEF IInv, LoopTypeOK
<1>7. QED
  BY <1>1, <1>2, <1>4, <1>6, BrokerTypes, QueuesUnchanged DEF IInv, BrokerStep

\* Every step of the main loop of serve_requests.
LEMMA LoopKeeps ==
  ASSUME IInv, Loop
  PROVE  IInv'
<1>1. CASE StopLoop
  <2>1. loop' \in [pc : LoopState, id : Id \cup {NoId}, n : Nat]
    BY <1>1, GoToType DEF StopLoop, LoopState
  <2>2. LoopTypeOK'
    BY <1>1, <2>1 DEF StopLoop, IInv, LoopTypeOK
  <2>3. QED
    BY <1>1, <2>2, QueuesUnchanged, LoopMoves DEF StopLoop, IInv, BrokerStep
<1>2. CASE HandleTransport
  <2>1. loop' \in [pc : LoopState, id : Id \cup {NoId}, n : Nat]
    BY <1>2, GoToType DEF HandleTransport, LoopState
  <2>2. LoopTypeOK'
    BY <1>2, <2>1 DEF HandleTransport, IInv, LoopTypeOK
  <2>3. QInv'
    BY <1>2, ControlAndTransportKeep DEF HandleTransport, IInv
  <2>4. QED
    BY <1>2, <2>2, <2>3, LoopMoves DEF HandleTransport, BrokerStep
<1>3. CASE HandleProbe
  <2>1. loop' \in [pc : LoopState, id : Id \cup {NoId}, n : Nat]
    BY <1>3, GoToType DEF HandleProbe, LoopState
  <2>2. LoopTypeOK'
    BY <1>3, <2>1 DEF HandleProbe, IInv, LoopTypeOK
  <2>3. QInv'
    BY <1>3, ControlAndTransportKeep DEF HandleProbe, IInv
  <2>4. QED
    BY <1>3, <2>2, <2>3, LoopMoves DEF HandleProbe, BrokerStep
<1>4. ASSUME NEW id \in Id, HandleDiscard(id) PROVE IInv'
  <2>1. LoopTypeOK'
    BY <1>4, PollType DEF HandleDiscard, IInv, LoopTypeOK
  <2>2. QInv'
    BY <1>4, QueuesUnchanged, DiscardRequestInputKeeps DEF HandleDiscard, IInv
  <2>3. QED
    BY <1>4, <2>1, <2>2, LoopMoves DEF HandleDiscard, BrokerStep
<1>5. CASE LoopCommitted
  <2>1. loop.id \in Id \cup {NoId}
    BY DEF IInv, LoopTypeOK
  <2>2. BrokerStep
    BY <1>5, <2>1 DEF LoopCommitted, BrokerStep, brokerVars
  <2>3. loop' \in [pc : LoopState, id : Id \cup {NoId}, n : Nat]
    BY <1>5, GoToType, PollType DEF LoopCommitted, LoopState
  <2>4. LoopTypeOK'
    BY <1>5, <2>3 DEF LoopCommitted, IInv, LoopTypeOK
  <2>5. QED
    BY <1>5, <2>2, <2>4, QueuesUnchanged, LoopMoves DEF LoopCommitted, IInv
<1>6. QED
  BY <1>1, <1>2, <1>3, <1>4, <1>5, DrainCompletionKeeps, HandleOverloadKeeps,
     HandleCancelKeeps, HandleOpenKeeps, HandleInputKeeps, HandleAwaitedOpenKeeps,
     CancelAllKeeps, JoinAllKeeps DEF Loop

-----------------------------------------------------------------------------
(* The reader and the environment.                                         *)

\* The reader thread enqueues an arrival: routes are not its business.
LEMMA ReceiveRequestKeeps ==
  ASSUME IInv, NEW id \in Id, ReceiveRequest(id)
  PROVE  IInv'
<1>1. PICK kind \in InputKind, budgetFull \in BOOLEAN :
        LET f == [kind |-> kind, n |-> sent[id] + 1]
        IN /\ Sends(id, kind)
           /\ \/ ~budgetFull /\ EnqueueRequest(id, f)
              \/ EnqueueOverflow(id, f, budgetFull)
              \/ ~budgetFull /\ TooManyRequests(id)
  BY DEF ReceiveRequest
<1> DEFINE f == [kind |-> kind, n |-> sent[id] + 1]
<1>2. f \in Frame
  BY ExecutorAssumption DEF IInv, BrokerTypeOK, Frame, Kind
<1>3. QInv'
  BY <1>1, <1>2, EnqueueRequestKeeps, EnqueueOverflowKeeps, ControlAndTransportKeep DEF IInv
<1>4. BrokerStep /\ UNCHANGED execVars
  BY <1>1 DEF BrokerStep, Sends
<1>5. LoopTypeOK' /\ UNCHANGED <<routes, completed>>
  BY <1>4 DEF IInv, LoopTypeOK, execVars
<1>6. QED
  BY <1>3, <1>4, <1>5, LoopMoves

\* The broker, the channel and the reader thread.
LEMMA EnvironmentKeeps ==
  ASSUME IInv, Environment
  PROVE  IInv'
<1>1. CASE ReceiveProbe
  <2>1. QInv'
    BY <1>1, ControlAndTransportKeep DEF ReceiveProbe, IInv
  <2>2. BrokerStep
    BY <1>1 DEF ReceiveProbe, BrokerStep
  <2>3. LoopTypeOK' /\ UNCHANGED <<routes, completed>>
    BY <1>1 DEF ReceiveProbe, IInv, LoopTypeOK, execVars
  <2>4. QED
    BY <2>1, <2>2, <2>3, LoopMoves
<1>2. CASE ConnectionLost
  <2>1. QInv'
    BY <1>2, ControlAndTransportKeep DEF ConnectionLost, IInv
  <2>2. LoopTypeOK' /\ UNCHANGED <<routes, completed>>
    BY <1>2 DEF ConnectionLost, IInv, LoopTypeOK, execVars
  <2>3. QED
    BY <1>2, <2>1, <2>2, LoopMoves DEF ConnectionLost, BrokerStep
<1>3. CASE WriterFails \/ RequestShutdown
  <2>1. /\ UNCHANGED <<queueVars, brokerVars, routes, nextGeneration, completed, loop>>
        /\ shutdown' \in BOOLEAN /\ failed' \in BOOLEAN
    BY <1>3, Zenon DEF WriterFails, RequestShutdown, IInv, LoopTypeOK
  <2>2. LoopTypeOK'
    BY <2>1 DEF IInv, LoopTypeOK
  <2>3. QED
    BY <2>1, <2>2, QueuesUnchanged, LoopMoves DEF IInv, BrokerStep
<1>4. ASSUME NEW id \in Id, BrokerFinishes(id) PROVE IInv'
  <2>1. BrokerStep /\ UNCHANGED queueVars
    BY <1>4 DEF BrokerFinishes, BrokerStep
  <2>2. LoopTypeOK' /\ UNCHANGED <<routes, completed>>
    BY <1>4 DEF BrokerFinishes, IInv, LoopTypeOK, execVars
  <2>3. QED
    BY <2>1, <2>2, QueuesUnchanged, LoopMoves DEF IInv
<1>5. QED
  BY <1>1, <1>2, <1>3, <1>4, ReceiveRequestKeeps, WorkerStepKeeps DEF Environment

-----------------------------------------------------------------------------
\* The invariant holds initially.
LEMMA InitIInv == Init => IInv
<1> SUFFICES ASSUME Init PROVE IInv
  OBVIOUS
<1>1. QInv
  BY QueueInitKeeps DEF Init
<1>2. BrokerTypeOK
  BY DEF Init, BrokerTypeOK
<1>3. LoopTypeOK
  <2>1. loop \in [pc : LoopState, id : Id \cup {NoId}, n : Nat]
    BY PollType DEF Init
  <2>2. shutdown \in BOOLEAN /\ failed \in BOOLEAN
    BY Zenon DEF Init
  <2>3. completed \in Seq([id : Id, generation : Nat]) /\ nextGeneration \in Nat
    BY EmptySeq, Zenon DEF Init
  <2>4. QED
    BY <2>1, <2>2, <2>3, Zenon DEF LoopTypeOK
<1>4. RoutesOK
  BY DEF Init, RoutesOK, Active
<1>5. CompletedOK
  BY EmptySeq DEF Init, CompletedOK
<1>6. QED
  BY <1>1, <1>2, <1>3, <1>4, <1>5 DEF IInv

\* Every step of the executor keeps the invariant.
LEMMA NextIInv == IInv /\ [Next]_vars => IInv'
<1> SUFFICES ASSUME IInv, [Next]_vars PROVE IInv'
  OBVIOUS
<1>1. CASE UNCHANGED vars
  <2>1. LoopTypeOK' /\ UNCHANGED <<routes, completed, queueVars, brokerVars>>
    BY <1>1 DEF vars, execVars, IInv, LoopTypeOK
  <2>2. QED
    BY <2>1, QueuesUnchanged, LoopMoves DEF IInv, BrokerStep
<1>2. QED
  BY <1>1, LoopKeeps, WorkerStepKeeps, EnvironmentKeeps DEF Next

\* The inductive invariant of the executor holds in every behaviour.
THEOREM IInvHolds == Spec => []IInv
  BY InitIInv, NextIInv, PTL DEF Spec

\* Type correctness of the executor, whatever the limits and the peer's stream.
THEOREM TypeCorrect == Spec => []TypeOK
<1>1. IInv => TypeOK
  BY DEF IInv, QInv, BrokerTypeOK, LoopTypeOK, RoutesOK, TypeOK
<1>2. QED
  BY <1>1, IInvHolds, PTL

\* route_input never finds the input channel full, so the main loop of
\* serve_requests never blocks on a child: request_ready left room, although the
\* worker counts a frame after it has taken it.
THEOREM NeverBlocks == Spec => []InputNeverBlocks
<1>1. IInv => InputNeverBlocks
  <2> SUFFICES ASSUME IInv, NEW id \in Id, Active(id)
               PROVE  /\ Len(routes[id].queue) <= routes[id].pending
                      /\ routes[id].pending <= InputCapacity
    BY DEF InputNeverBlocks
  <2>1. RouteOK(routes[id])
    BY DEF IInv, RoutesOK
  <2>2. Len(routes[id].queue) \in Nat /\ Taken(routes[id]) \in {0, 1}
    BY <2>1, RouteFields DEF RouteOK, Taken
  <2>3. QED
    BY <2>1, <2>2 DEF RouteOK
<1>2. QED
  BY <1>1, IInvHolds, PTL

\* Every completion drain_executor_completions finds is that of the route
\* registered under its request ID: none is lost, none removes another's route.
THEOREM CompletionsMatch == Spec => []CompletionMatches
<1>1. IInv => CompletionMatches
  <2> SUFFICES ASSUME IInv, NEW i \in DOMAIN completed PROVE Matches(completed[i])
    BY DEF CompletionMatches, Matches
  <2>1. i \in 1 .. Len(completed)
    BY LenProperties DEF IInv, LoopTypeOK
  <2>2. QED
    BY <2>1 DEF IInv, CompletedOK
<1>2. QED
  BY <1>1, IInvHolds, PTL

-----------------------------------------------------------------------------
(* The invariant behind NoStaleInput.                                      *)

Waits(id, pc) == loop.pc = pc /\ loop.id = id

\* The first invocation of the ID has been answered, or is being refused.
Over(id) == opens[id] = 2 \/ answers[id] > 0 \/ Waits(id, "terminal")

\* The loop may come to another frame of the ID before it registers a route.
Pops(id) ==
  \/ loop.pc \in {"poll", "discard", "ack", "terminal"}
  \/ loop.pc = "await" /\ loop.id # id

\* Where the two invocations of an ID are in its stream of frames.
StreamOK(id) ==
  /\ opens[id] = 0 => /\ sent[id] = 0 /\ sending[id] = "idle" /\ mode[id] = "absent"
                      /\ ~Active(id) /\ ~Waits(id, "terminal") /\ ~Waits(id, "await")
  /\ opens[id] = 1 => openAt[id] = 1 /\ (sending[id] = "idle" => answers[id] > 0)
  /\ opens[id] = 2 => openAt[id] > 1
  /\ opens[id] > 0 => openAt[id] \in 1 .. sent[id]
  /\ \A f \in Queued(id) :
       f.n \in 1 .. sent[id] /\ (f.kind = "Open" => f.n \in {1, openAt[id]})
  /\ \A f \in At(retained[id]) : f.n > 1

\* A route is that of one of the two, and holds input of that one only.
RouteFits(id) ==
  Active(id) =>
    LET r == routes[id]
    IN /\ r.open \in {1, openAt[id]} /\ r.open \in 1 .. sent[id]
       /\ \A f \in Queued(id) : f.n > r.open
       /\ \A f \in At(r.queue) :
            f.n \in r.open + 1 .. sent[id] /\ (r.open # openAt[id] => f.n < openAt[id])
       /\ r.worker \in {"exiting", "failing"} => r.retiring
       /\ r.open = 1 /\ mode[id] = "announced" => ~r.input

\* Once the first is over its Open is gone and its route is retiring, so the Open
\* of the second waits for it and is not refused as a duplicate.
AnsweredOK(id) ==
  Over(id) =>
    /\ \A f \in Queued(id) : f.n # 1
    /\ Active(id) /\ routes[id].open = 1 => routes[id].retiring

\* What the loop waits to register is the second invocation.
AwaitOK(id) ==
  Waits(id, "await") =>
    /\ opens[id] = 2 /\ loop.n = openAt[id]
    /\ \A f \in Queued(id) : f.n > loop.n

\* While the first route takes input, no frame of the second can be popped
\* before its Open: that is still queued, or it was dropped with all that follows.
NextOK(id) ==
  (Active(id) /\ routes[id].open # openAt[id] /\ routes[id].input /\ Pops(id)) =>
    \/ \E f \in Queued(id) : f.kind = "Open" /\ f.n = openAt[id]
    \/ mode[id] = "overloaded" /\ \A f \in At(events[id]) : f.n < openAt[id]
    \/ ~reading /\ \A f \in Queued(id) : f.n < openAt[id]

StaleParts(id) ==
  /\ FramesInOrder(id) /\ StreamOK(id) /\ RouteFits(id) /\ AnsweredOK(id)
  /\ AwaitOK(id) /\ NextOK(id)

\* The invariant speaks of the first two invocations that use a request ID.
StaleOK(id) == opens[id] <= 2 => StaleParts(id)

-----------------------------------------------------------------------------
(* Steps that only take something away.                                    *)

\* The broker starts no invocation under the ID; what is written to it comes from
\* a worker that is answering or from the loop that refuses.
StreamGoesOn(id) ==
  /\ sent'[id] = sent[id] /\ opens'[id] = opens[id] /\ openAt'[id] = openAt[id]
  /\ sending'[id] = sending[id] \/ (sending'[id] = "idle" /\ answers[id] > 0)
  /\ \/ answers'[id] = answers[id]
     \/ /\ answers'[id] = answers[id] + 1
        /\ \/ Waits(id, "terminal")
           \/ Active(id) /\ routes[id].worker \in {"exiting", "failing"}

\* A route keeps its invocation and is fed no frame of another.
RouteGoesOn(id) ==
  Active(id)' =>
    /\ Active(id)
    /\ LET r == routes[id]
           s == routes'[id]
       IN /\ s.open = r.open
          /\ s.input => r.input
          /\ r.retiring => s.retiring
          /\ s.worker \in {"exiting", "failing"} => s.retiring
          /\ \A f \in At(s.queue) :
               \/ f \in At(r.queue)
               \/ f \in Queued(id) /\ (r.open # openAt[id] => f.n < openAt[id])

\* The loop refuses an Open of the ID, or waits to register its second.
LoopGoesOn(id) ==
  /\ Waits(id, "terminal")' =>
       \/ Waits(id, "terminal")
       \/ ~Active(id)' /\ opens[id] # 0 /\ \A f \in Queued(id)' : f.n # 1
  /\ Waits(id, "await")' =>
       \/ Waits(id, "await") /\ loop'.n = loop.n
       \/ /\ opens[id] = 2 /\ loop'.n = openAt[id]
          /\ \A f \in Queued(id)' : f.n > loop'.n

\* A route that may be fed further lost neither the Open that ends its input nor
\* the overload that dropped it.
InputGoesOn(id) ==
  (Active(id)' /\ routes'[id].input) =>
    /\ mode'[id] = "announced" => mode[id] = "announced"
    /\ Pops(id)' => /\ Pops(id)
                    /\ reading' => reading
                    /\ mode[id] = "overloaded" => mode'[id] = "overloaded"
                    /\ OpensStay(id)

Calm(id) ==
  /\ Shrinks(id) /\ (mode[id] = "absent" => mode'[id] = "absent")
  /\ StreamGoesOn(id) /\ RouteGoesOn(id) /\ LoopGoesOn(id) /\ InputGoesOn(id)

\* Such a step keeps the invariant of the request.
LEMMA CalmKeeps ==
  ASSUME IInv, NEW id \in Id, StaleParts(id), Calm(id)
  PROVE  StaleParts(id)'
<1>1. /\ opens[id] \in Nat /\ openAt[id] \in Nat /\ answers[id] \in Nat /\ sent[id] \in Nat
      /\ events[id] \in Seq(Frame) /\ retained[id] \in Seq(Frame)
  BY DEF IInv, BrokerTypeOK, QInv, QueueTypeOK
<1>2. /\ Shrinks(id) /\ StreamGoesOn(id) /\ RouteGoesOn(id) /\ LoopGoesOn(id)
      /\ InputGoesOn(id) /\ (mode[id] = "absent" => mode'[id] = "absent")
  BY DEF Calm
<1>3. /\ sent'[id] = sent[id] /\ opens'[id] = opens[id] /\ openAt'[id] = openAt[id]
      /\ sending'[id] = sending[id] \/ (sending'[id] = "idle" /\ answers[id] > 0)
      /\ answers'[id] = answers[id] \/ answers'[id] = answers[id] + 1
  BY <1>2 DEF StreamGoesOn
<1>4. /\ Queued(id)' \subseteq Queued(id)
      /\ At(events'[id]) \subseteq At(events[id])
      /\ At(retained'[id]) \subseteq At(retained[id])
  BY <1>2 DEF Shrinks, Queued
<1>5. \A f \in Queued(id) : f \in Frame /\ f.n \in Nat
  BY <1>1, FramesAt DEF Queued
<1>6. FramesInOrder(id)'
  BY <1>2 DEF Shrinks
<1>7. StreamOK(id)'
  <2>1. StreamOK(id)
    BY DEF StaleParts
  <2>2. opens'[id] = 0 =>
          /\ sent'[id] = 0 /\ sending'[id] = "idle" /\ mode'[id] = "absent"
          /\ ~Active(id)' /\ ~Waits(id, "terminal")' /\ ~Waits(id, "await")'
    BY <1>2, <1>3, <2>1 DEF StreamOK, RouteGoesOn, LoopGoesOn
  <2>3. opens'[id] = 1 => openAt'[id] = 1 /\ (sending'[id] = "idle" => answers'[id] > 0)
    BY <1>1, <1>3, <2>1 DEF StreamOK
  <2>4. /\ opens'[id] = 2 => openAt'[id] > 1
        /\ opens'[id] > 0 => openAt'[id] \in 1 .. sent'[id]
    BY <1>3, <2>1 DEF StreamOK
  <2>5. \A f \in Queued(id)' :
          f.n \in 1 .. sent'[id] /\ (f.kind = "Open" => f.n \in {1, openAt'[id]})
    BY <1>3, <1>4, <2>1 DEF StreamOK
  <2>6. \A f \in At(retained'[id]) : f.n > 1
    BY <1>4, <2>1 DEF StreamOK
  <2>7. QED
    BY <2>2, <2>3, <2>4, <2>5, <2>6 DEF StreamOK
<1>8. Active(id)' =>
        /\ Active(id) /\ routes'[id].open = routes[id].open
        /\ routes'[id].input => routes[id].input
        /\ routes[id].retiring => routes'[id].retiring
        /\ routes'[id].worker \in {"exiting", "failing"} => routes'[id].retiring
  BY <1>2 DEF RouteGoesOn
<1>9. RouteFits(id)'
  <2> SUFFICES ASSUME Active(id)'
               PROVE  LET r == routes'[id]
                      IN /\ r.open \in {1, openAt'[id]} /\ r.open \in 1 .. sent'[id]
                         /\ \A f \in Queued(id)' : f.n > r.open
                         /\ \A f \in At(r.queue) :
                              /\ f.n \in r.open + 1 .. sent'[id]
                              /\ r.open # openAt'[id] => f.n < openAt'[id]
                         /\ r.worker \in {"exiting", "failing"} => r.retiring
                         /\ r.open = 1 /\ mode'[id] = "announced" => ~r.input
    BY DEF RouteFits
  <2> DEFINE r == routes[id]
             s == routes'[id]
  <2>1. /\ r.open \in {1, openAt[id]} /\ r.open \in 1 .. sent[id]
        /\ \A f \in Queued(id) : f.n > r.open
        /\ \A f \in At(r.queue) :
             f.n \in r.open + 1 .. sent[id] /\ (r.open # openAt[id] => f.n < openAt[id])
        /\ r.open = 1 /\ mode[id] = "announced" => ~r.input
    BY <1>8 DEF StaleParts, RouteFits
  <2>2. \A f \in Queued(id) : f.n \in r.open + 1 .. sent[id]
    BY <1>1, <1>5, <2>1 DEF StaleParts, StreamOK
  <2>3. \A f \in At(s.queue) :
          \/ f \in At(r.queue)
          \/ f \in Queued(id) /\ (r.open # openAt[id] => f.n < openAt[id])
    BY <1>2 DEF RouteGoesOn
  <2>4. \A f \in At(s.queue) :
          f.n \in r.open + 1 .. sent[id] /\ (r.open # openAt[id] => f.n < openAt[id])
    BY <2>1, <2>2, <2>3
  <2>5. s.input /\ mode'[id] = "announced" => mode[id] = "announced"
    BY <1>2 DEF InputGoesOn
  <2> HIDE DEF r, s
  <2>6. s.open = r.open /\ (s.input => r.input)
        /\ (s.worker \in {"exiting", "failing"} => s.retiring)
    BY <1>8 DEF r, s
  <2>7. QED
    BY <1>3, <1>4, <2>1, <2>4, <2>5, <2>6 DEF s
<1>10. AnsweredOK(id)'
  <2> SUFFICES ASSUME Over(id)'
               PROVE  /\ \A f \in Queued(id)' : f.n # 1
                      /\ Active(id)' /\ routes'[id].open = 1 => routes'[id].retiring
    BY DEF AnsweredOK
  <2>1. \/ Over(id)
        \/ Active(id) /\ routes[id].worker \in {"exiting", "failing"}
        \/ ~Active(id)' /\ \A f \in Queued(id)' : f.n # 1
    BY <1>1, <1>2, <1>3 DEF Over, StreamGoesOn, LoopGoesOn
  <2>2. CASE Over(id)
    <3>1. /\ \A f \in Queued(id) : f.n # 1
          /\ Active(id) /\ routes[id].open = 1 => routes[id].retiring
      BY <2>2 DEF StaleParts, AnsweredOK
    <3>2. QED
      BY <1>4, <1>8, <3>1
  <2>3. CASE Active(id) /\ routes[id].worker \in {"exiting", "failing"}
    <3>1. /\ routes[id].open \in 1 .. sent[id] /\ \A f \in Queued(id) : f.n > routes[id].open
          /\ routes[id].retiring
      BY <2>3 DEF StaleParts, RouteFits
    <3>2. QED
      BY <1>1, <1>4, <1>5, <1>8, <3>1
  <2>4. QED
    BY <2>1, <2>2, <2>3
<1>11. AwaitOK(id)'
  <2> SUFFICES ASSUME Waits(id, "await")'
               PROVE  /\ opens'[id] = 2 /\ loop'.n = openAt'[id]
                      /\ \A f \in Queued(id)' : f.n > loop'.n
    BY DEF AwaitOK
  <2>1. CASE Waits(id, "await") /\ loop'.n = loop.n
    BY <1>3, <1>4, <2>1 DEF StaleParts, AwaitOK
  <2>2. CASE /\ opens[id] = 2 /\ loop'.n = openAt[id]
             /\ \A f \in Queued(id)' : f.n > loop'.n
    BY <1>3, <2>2
  <2>3. QED
    BY <1>2, <2>1, <2>2 DEF LoopGoesOn
<1>12. NextOK(id)'
  <2> SUFFICES ASSUME Active(id)', routes'[id].open # openAt'[id], routes'[id].input, Pops(id)'
               PROVE  \/ \E f \in Queued(id)' : f.kind = "Open" /\ f.n = openAt'[id]
                      \/ /\ mode'[id] = "overloaded"
                         /\ \A f \in At(events'[id]) : f.n < openAt'[id]
                      \/ ~reading' /\ \A f \in Queued(id)' : f.n < openAt'[id]
    BY DEF NextOK
  <2>1. /\ Pops(id) /\ (reading' => reading) /\ OpensStay(id)
        /\ mode[id] = "overloaded" => mode'[id] = "overloaded"
    BY <1>2 DEF InputGoesOn
  <2>2. \/ \E f \in Queued(id) : f.kind = "Open" /\ f.n = openAt[id]
        \/ mode[id] = "overloaded" /\ \A f \in At(events[id]) : f.n < openAt[id]
        \/ ~reading /\ \A f \in Queued(id) : f.n < openAt[id]
    BY <1>3, <1>8, <2>1 DEF StaleParts, NextOK
  <2>3. CASE \E f \in Queued(id) : f.kind = "Open" /\ f.n = openAt[id]
    <3>1. CASE mode'[id] = "overloaded" /\ events'[id] = <<>>
      <4>1. At(events'[id]) = {}
        BY <3>1, EmptySeq, AtSubset
      <4>2. QED
        BY <3>1, <4>1
    <3>2. CASE \A f \in Queued(id) : f.kind = "Open" => f \in Queued(id)'
      BY <1>3, <2>3, <3>2
    <3>3. QED
      BY <2>1, <3>1, <3>2 DEF OpensStay
  <2>4. CASE mode[id] = "overloaded" /\ \A f \in At(events[id]) : f.n < openAt[id]
    BY <1>3, <1>4, <2>1, <2>4
  <2>5. CASE ~reading /\ \A f \in Queued(id) : f.n < openAt[id]
    BY <1>3, <1>4, <2>1, <2>5
  <2>6. QED
    BY <2>2, <2>3, <2>4, <2>5
<1>13. QED
  BY <1>6, <1>7, <1>9, <1>10, <1>11, <1>12 DEF StaleParts

-----------------------------------------------------------------------------
(* Steps of the workers and their children.                                *)

\* A step that only takes frames away, and takes the loop nowhere it waits.
LEMMA QuietCalm ==
  ASSUME NEW id \in Id, Thins(id), StreamGoesOn(id), RouteGoesOn(id), LoopGoesOn(id),
         Active(id)' /\ routes'[id].input /\ Pops(id)' => Pops(id) /\ (reading' => reading)
  PROVE  Calm(id)
  BY DEF Calm, Thins, ModeStays, InputGoesOn

\* Nothing is sent or answered under the ID.
LEMMA StreamAlone ==
  ASSUME NEW id \in Id, UNCHANGED <<sent, opens, openAt>>, sending'[id] = sending[id],
         answers'[id] = answers[id]
  PROVE  StreamGoesOn(id)
  BY DEF StreamGoesOn

\* The route is as it was, or gone.
LEMMA RouteAlone ==
  ASSUME NEW id \in Id, StaleParts(id), routes'[id] = routes[id] \/ routes'[id] = NoRoute
  PROVE  RouteGoesOn(id)
  BY DEF RouteGoesOn, Active, StaleParts, RouteFits

\* The loop stays where it is.
LEMMA LoopAlone ==
  ASSUME NEW id \in Id, loop' = loop
  PROVE  LoopGoesOn(id) /\ (Pops(id)' <=> Pops(id))
  BY DEF LoopGoesOn, Waits, Pops

\* A worker goes on with the frames it has.
Goes(r, s) ==
  /\ s.open = r.open
  /\ s.input => r.input
  /\ r.retiring => s.retiring
  /\ s.worker \in {"exiting", "failing"} => s.retiring \/ s.worker = r.worker
  /\ At(s.queue) \subseteq At(r.queue)

\* Such a step of a worker, answering or not, keeps the invariant of every request.
LEMMA WorkerCalm ==
  ASSUME IInv, NEW id \in Id, StaleParts(id), NEW w \in Id, NEW from, NEW new,
         Worker(w, from, new), Goes(routes[w], new),
         \/ answers' = answers
         \/ /\ answers' = [answers EXCEPT ![w] = @ + 1]
            /\ from \in {"exiting", "failing"}
  PROVE  StaleParts(id)'
<1>1. /\ Active(w) /\ routes[w].worker = from /\ routes' = [routes EXCEPT ![w] = new]
      /\ UNCHANGED <<queueVars, sent, opens, sending, openAt, loop>>
  BY DEF Worker
<1>2. /\ events' = events /\ retained' = retained /\ mode' = mode /\ reading' = reading
  BY <1>1 DEF queueVars, requestVars
<1>3. Thins(id)
  BY <1>2, OtherQueue DEF StaleParts
<1>4. LoopGoesOn(id) /\ (Pops(id)' <=> Pops(id))
  BY <1>1, LoopAlone
<1>5. answers \in [Id -> Nat] /\ routes \in [Id -> Route \cup {NoRoute}]
  BY DEF IInv, BrokerTypeOK, RoutesOK
<1>6. CASE w = id
  <2>1. StreamGoesOn(id)
    BY <1>1, <1>5, <1>6 DEF StreamGoesOn
  <2>2. routes'[id] = new /\ Active(id) /\ Goes(routes[id], new)
    BY <1>1, <1>5, <1>6
  <2>3. routes[id].worker \in {"exiting", "failing"} => routes[id].retiring
    BY <2>2 DEF StaleParts, RouteFits
  <2>4. RouteGoesOn(id)
    BY <2>2, <2>3 DEF RouteGoesOn, Goes
  <2>5. QED
    BY <1>2, <1>3, <1>4, <2>1, <2>4, QuietCalm, CalmKeeps
<1>7. CASE w # id
  <2>1. answers'[id] = answers[id] /\ routes'[id] = routes[id]
    BY <1>1, <1>5, <1>7
  <2>2. StreamGoesOn(id) /\ RouteGoesOn(id)
    BY <1>1, <2>1, StreamAlone, RouteAlone
  <2>3. QED
    BY <1>2, <1>3, <1>4, <2>2, QuietCalm, CalmKeeps
<1>8. QED
  BY <1>6, <1>7

\* Each step of a worker is such a step.
LEMMA GoesOn ==
  ASSUME NEW r \in Route
  PROVE  /\ \A w \in WorkerState \ {"exiting", "failing"} :
              /\ Goes(r, [r EXCEPT !.worker = w])
              /\ Goes(r, [r EXCEPT !.worker = w, !.cancelled = TRUE])
              /\ Goes(r, [r EXCEPT !.worker = w, !.error = TRUE])
              /\ Goes(r, [r EXCEPT !.worker = w, !.stdin = "done", !.error = TRUE])
              /\ \A o \in BOOLEAN : Goes(r, [r EXCEPT !.worker = w, !.ok = o])
         /\ \A w \in WorkerState :
              /\ Goes(r, [r EXCEPT !.worker = w, !.retiring = TRUE])
              /\ Goes(r, [r EXCEPT !.worker = w, !.error = FALSE, !.retiring = TRUE])
         /\ \A v : Goes(r, [r EXCEPT !.stdin = v])
         /\ \A v, p : Goes(r, [r EXCEPT !.pending = p, !.stdin = v])
         /\ Goes(r, [r EXCEPT !.cancelled = TRUE, !.error = TRUE])
         /\ Goes(r, [r EXCEPT !.cancelled = TRUE, !.input = FALSE])
         /\ Goes(r, [r EXCEPT !.retiring = TRUE, !.error = TRUE,
                              !.cancelled = TRUE, !.input = FALSE])
  BY DEF Goes, Route

\* Every step of execute_request, of its threads and its child keeps every
\* request's frames, and its route's, apart.
LEMMA WorkerStepStale ==
  ASSUME IInv, NEW id \in Id, StaleParts(id), NEW w \in Id,
         \/ WorkerStep(w)
         \/ ChildReads(w) \/ ChildClosesStdin(w) \/ ChildExits(w) \/ OutputSaturates(w)
  PROVE  StaleParts(id)'
<1> DEFINE r == routes[w]
<1>1. Active(w)
  BY DEF WorkerStep, StartChild, TakeInput, CountInput, KillChild, EndInput, CollectChild,
     ExitCommitted, TakeError, ErrorCommitted, Report, ChildReads, ChildClosesStdin,
     ChildExits, OutputSaturates, Worker
<1>2. r \in Route /\ r.queue \in Seq(Frame)
  BY <1>1, ActiveIsRoute, RouteFields DEF IInv
<1>3. CASE StartChild(w)
  <2>1. answers' = answers
    BY <1>3 DEF StartChild, Unanswered
  <2>2. PICK new \in {[r EXCEPT !.worker = "running"],
                      [r EXCEPT !.worker = "epilogue", !.stdin = "done", !.error = TRUE]} :
          Worker(w, "starting", new)
    BY <1>3 DEF StartChild
  <2>3. /\ Goes(r, [r EXCEPT !.worker = "running"])
        /\ Goes(r, [r EXCEPT !.worker = "epilogue", !.stdin = "done", !.error = TRUE])
    BY <1>2, GoesOn DEF WorkerState
  <2>4. QED
    BY <2>1, <2>2, <2>3, WorkerCalm
<1>4. CASE TakeInput(w)
  <2>1. answers' = answers /\ r.queue # <<>>
    BY <1>4 DEF TakeInput, Unanswered
  <2>2. PICK new, v : Worker(w, "running", new) /\ new = [r EXCEPT !.queue = Tail(@), !.stdin = v]
    BY <1>4 DEF TakeInput
  <2>3. At(Tail(r.queue)) \subseteq At(r.queue)
    <3>1. /\ Len(r.queue) \in Nat /\ Len(Tail(r.queue)) = Len(r.queue) - 1
          /\ Tail(r.queue) \in Seq(Frame)
          /\ \A i \in 1 .. Len(r.queue) - 1 : Tail(r.queue)[i] = r.queue[i + 1]
      BY <1>2, <2>1, HeadTailProperties, LenProperties
    <3>2. DOMAIN Tail(r.queue) = 1 .. Len(r.queue) - 1 /\ DOMAIN r.queue = 1 .. Len(r.queue)
      BY <1>2, <3>1, FramesAt
    <3>3. \A i \in 1 .. Len(r.queue) - 1 : i + 1 \in 1 .. Len(r.queue)
      BY <3>1
    <3>4. QED
      BY <3>1, <3>2, <3>3 DEF At
  <2>4. Goes(r, new)
    BY <1>2, <2>2, <2>3 DEF Goes, Route
  <2>5. QED
    BY <2>1, <2>2, <2>4, WorkerCalm
<1>5. CASE CountInput(w)
  <2>1. answers' = answers
    BY <1>5 DEF CountInput, Unanswered
  <2>2. PICK new, v : /\ Worker(w, r.worker, new)
                      /\ new = [r EXCEPT !.pending = r.pending - 1, !.stdin = v]
    BY <1>5 DEF CountInput
  <2>3. Goes(r, new)
    BY <1>2, <2>2, GoesOn
  <2>4. QED
    BY <2>1, <2>2, <2>3, WorkerCalm
<1>6. CASE KillChild(w)
  <2>1. Goes(r, [r EXCEPT !.worker = "exited", !.cancelled = TRUE])
    BY <1>2, GoesOn DEF WorkerState
  <2>2. QED
    BY <1>6, <2>1, WorkerCalm DEF KillChild, Unanswered
<1>7. CASE EndInput(w)
  <2>1. Goes(r, [r EXCEPT !.stdin = "done"])
    BY <1>2, GoesOn
  <2>2. QED
    BY <1>7, <2>1, WorkerCalm DEF EndInput, Unanswered
<1>8. CASE CollectChild(w)
  <2>1. answers' = answers
    BY <1>8 DEF CollectChild, Unanswered
  <2>2. PICK new : Worker(w, "exited", new) /\ new \in
          {[r EXCEPT !.worker = "epilogue"],
           [r EXCEPT !.worker = "exiting", !.retiring = TRUE],
           [r EXCEPT !.worker = "epilogue", !.error = TRUE],
           [r EXCEPT !.worker = "finished", !.ok = FALSE]}
    BY <1>8, Zenon DEF CollectChild
  <2>3. /\ Goes(r, [r EXCEPT !.worker = "epilogue"])
        /\ Goes(r, [r EXCEPT !.worker = "exiting", !.retiring = TRUE])
        /\ Goes(r, [r EXCEPT !.worker = "epilogue", !.error = TRUE])
        /\ Goes(r, [r EXCEPT !.worker = "finished", !.ok = FALSE])
    BY <1>2, GoesOn DEF WorkerState
  <2>4. QED
    BY <2>1, <2>2, <2>3, WorkerCalm
<1>9. CASE ExitCommitted(w)
  <2> PICK written \in BOOLEAN :
        /\ Worker(w, "exiting", [r EXCEPT !.worker = "epilogue", !.ok = written])
        /\ Answered(w, written)
    BY <1>9 DEF ExitCommitted
  <2> DEFINE new == [r EXCEPT !.worker = "epilogue", !.ok = written]
  <2>1. /\ Worker(w, "exiting", new)
        /\ answers' = answers \/ answers' = [answers EXCEPT ![w] = @ + 1]
    BY DEF Answered
  <2>2. Goes(r, new)
    BY <1>2, GoesOn DEF WorkerState
  <2>3. QED
    BY <2>1, <2>2, WorkerCalm
<1>10. CASE TakeError(w)
  <2> DEFINE state == IF r.error THEN "failing" ELSE "finished"
             new == [r EXCEPT !.worker = state, !.error = FALSE, !.retiring = TRUE]
  <2>1. Worker(w, "epilogue", new) /\ answers' = answers
    BY <1>10 DEF TakeError, Unanswered
  <2>2. Goes(r, new)
    BY <1>2, GoesOn DEF WorkerState
  <2>3. QED
    BY <2>1, <2>2, WorkerCalm
<1>11. CASE ErrorCommitted(w)
  <2> PICK written \in BOOLEAN :
        /\ Worker(w, "failing", [r EXCEPT !.worker = "finished", !.ok = written])
        /\ Answered(w, written)
    BY <1>11 DEF ErrorCommitted
  <2> DEFINE new == [r EXCEPT !.worker = "finished", !.ok = written]
  <2>1. /\ Worker(w, "failing", new)
        /\ answers' = answers \/ answers' = [answers EXCEPT ![w] = @ + 1]
    BY DEF Answered
  <2>2. Goes(r, new)
    BY <1>2, GoesOn DEF WorkerState
  <2>3. QED
    BY <2>1, <2>2, WorkerCalm
<1>12. CASE Report(w)
  <2>1. Goes(r, [r EXCEPT !.worker = "reported"])
    BY <1>2, GoesOn DEF WorkerState
  <2>2. QED
    BY <1>12, <2>1, WorkerCalm DEF Report
<1>13. CASE ChildReads(w) \/ ChildClosesStdin(w)
  <2>1. Goes(r, [r EXCEPT !.stdin = "idle"]) /\ Goes(r, [r EXCEPT !.stdin = "done"])
    BY <1>2, GoesOn
  <2>2. QED
    BY <1>13, <2>1, WorkerCalm DEF ChildReads, ChildClosesStdin, Unanswered
<1>14. CASE ChildExits(w)
  <2>1. Goes(r, [r EXCEPT !.worker = "exited"])
    BY <1>2, GoesOn DEF WorkerState
  <2>2. QED
    BY <1>14, <2>1, WorkerCalm DEF ChildExits, Unanswered
<1>15. CASE OutputSaturates(w)
  <2>1. Goes(r, [r EXCEPT !.cancelled = TRUE, !.error = TRUE])
    BY <1>2, GoesOn
  <2>2. QED
    BY <1>15, <2>1, WorkerCalm DEF OutputSaturates, Unanswered
<1>16. QED
  BY <1>3, <1>4, <1>5, <1>6, <1>7, <1>8, <1>9, <1>10, <1>11, <1>12, <1>13, <1>14, <1>15
     DEF WorkerStep

-----------------------------------------------------------------------------
(* Steps of the main loop.                                                 *)

\* The loop goes where it waits for no Open of the ID.
LEMMA LoopElsewhere ==
  ASSUME NEW id \in Id, loop'.pc \notin {"terminal", "await"}
  PROVE  LoopGoesOn(id)
  BY DEF LoopGoesOn, Waits

\* The end of the loop pops nothing any more.
LEMMA LoopEnds ==
  ASSUME NEW id \in Id, loop'.pc \in {"teardown", "join", "stopped"}
  PROVE  LoopGoesOn(id) /\ ~Pops(id)'
  BY DEF LoopGoesOn, Waits, Pops

\* A step that leaves queues and routes' frames alone.
LEMMA QueuesAloneThin ==
  ASSUME NEW id \in Id, StaleParts(id), UNCHANGED requestVars
  PROVE  Thins(id)
<1>1. events' = events /\ retained' = retained /\ mode' = mode
  BY DEF requestVars
<1>2. QED
  BY <1>1, OtherQueue DEF StaleParts

\* drain_executor_completions, the end of the loop and its teardown.
LEMMA EndingStale ==
  ASSUME IInv, NEW id \in Id, StaleParts(id),
         DrainCompletion \/ StopLoop \/ HandleTransport \/ CancelAll \/ JoinAll
  PROVE  StaleParts(id)'
<1>1. UNCHANGED <<requestVars, brokerVars>>
  BY DEF DrainCompletion, StopLoop, HandleTransport, CancelAll, JoinAll, PopTransport,
     queueVars
<1>2. Thins(id) /\ StreamGoesOn(id)
  BY <1>1, QueuesAloneThin, StreamAlone DEF brokerVars
<1>3. routes \in [Id -> Route \cup {NoRoute}] /\ reading \in BOOLEAN
  BY DEF IInv, RoutesOK, QInv, QueueTypeOK
<1>4. RouteGoesOn(id)
  <2>1. CASE StopLoop \/ HandleTransport
    <3>1. routes' = routes
      BY <2>1 DEF StopLoop, HandleTransport
    <3>2. QED
      BY <3>1, RouteAlone
  <2>2. CASE DrainCompletion
    <3>1. routes' = routes \/ \E c : routes' = [routes EXCEPT ![c] = NoRoute]
      BY <2>2 DEF DrainCompletion, Reaped
    <3>2. routes'[id] = routes[id] \/ routes'[id] = NoRoute
      BY <1>3, <3>1
    <3>3. QED
      BY <3>2, RouteAlone
  <2>3. CASE CancelAll
    <3> DEFINE new == [routes[id] EXCEPT !.cancelled = TRUE, !.input = FALSE]
    <3>1. routes'[id] = IF Active(id) THEN new ELSE NoRoute
      BY <2>3 DEF CancelAll
    <3>2. CASE Active(id)
      <4>1. routes[id] \in Route
        BY <3>2, ActiveIsRoute DEF IInv
      <4>2. Goes(routes[id], new)
        BY <4>1, GoesOn
      <4>3. routes[id].worker \in {"exiting", "failing"} => routes[id].retiring
        BY <3>2 DEF StaleParts, RouteFits
      <4>4. QED
        BY <3>1, <3>2, <4>2, <4>3 DEF RouteGoesOn, Goes
    <3>3. QED
      BY <3>1, <3>2, RouteAlone
  <2>4. CASE JoinAll
    <3>1. routes'[id] = NoRoute
      BY <2>4 DEF JoinAll
    <3>2. QED
      BY <3>1, RouteAlone
  <2>5. QED
    BY <2>1, <2>2, <2>3, <2>4
<1>5. LoopGoesOn(id) /\ (Pops(id)' => Pops(id) /\ reading' = reading)
  <2>1. loop' = loop \/ loop'.pc \in {"teardown", "join", "stopped"}
    <3>1. CASE DrainCompletion
      <4>1. loop' = loop \/ GoTo("teardown", NoId)
        BY <3>1, Zenon DEF DrainCompletion
      <4>2. QED
        BY <4>1 DEF GoTo
    <3>2. CASE StopLoop \/ HandleTransport \/ CancelAll \/ JoinAll
      <4>1. \E pc \in {"teardown", "join", "stopped"} : GoTo(pc, NoId)
        BY <3>2, Zenon DEF StopLoop, HandleTransport, CancelAll, JoinAll
      <4>2. QED
        BY <4>1 DEF GoTo
    <3>3. QED
      BY <3>1, <3>2
  <2>2. reading' = reading
    BY DEF DrainCompletion, StopLoop, HandleTransport, CancelAll, JoinAll, PopTransport,
       queueVars
  <2>3. QED
    BY <2>1, <2>2, LoopAlone, LoopEnds
<1>6. QED
  BY <1>2, <1>4, <1>5, QuietCalm, CalmKeeps

\* An overload cancels the request's route, or is answered here.
LEMMA HandleOverloadStale ==
  ASSUME IInv, NEW id \in Id, StaleParts(id), NEW o \in Id, HandleOverload(o)
  PROVE  StaleParts(id)'
<1> DEFINE r == routes[o]
           new == [r EXCEPT !.retiring = TRUE, !.error = TRUE,
                            !.cancelled = TRUE, !.input = FALSE]
<1>1. /\ mode[o] = "overloaded" /\ events'[o] = <<>>
      /\ retained' = retained /\ reading' = reading
      /\ \A x \in Id : events'[x] = events[x] \/ (events'[x] = <<>> /\ mode[x] = "overloaded")
      /\ \A x \in Id \ {o} : mode'[x] = mode[x]
  BY OverloadPopped DEF IInv, HandleOverload
<1>2. loop.pc = "poll" /\ UNCHANGED brokerVars
  BY DEF HandleOverload, Polling, LoopAt
<1>3. Shrinks(id) /\ StreamGoesOn(id)
  BY <1>1, <1>2, EmptiedShrinks, StreamAlone DEF IInv, StaleParts, brokerVars
<1>4. /\ Active(o) => routes' = [routes EXCEPT ![o] = new] /\ loop' = loop
      /\ ~Active(o) => routes' = routes /\ GoTo("terminal", o)
  BY DEF HandleOverload
<1>5. routes \in [Id -> Route \cup {NoRoute}]
  BY DEF IInv, RoutesOK
<1>6. Pops(id)
  BY <1>2 DEF Pops
<1>7. CASE o # id
  <2>1. routes'[id] = routes[id]
    BY <1>4, <1>5, <1>7
  <2>2. LoopGoesOn(id)
    BY <1>2, <1>4, <1>7 DEF LoopGoesOn, Waits, GoTo
  <2>3. Thins(id)
    BY <1>1, <1>3, <1>7 DEF Thins, OpensStay, ModeStays, Queued
  <2>4. QED
    BY <1>1, <1>3, <1>6, <2>1, <2>2, <2>3, RouteAlone, QuietCalm, CalmKeeps
<1>8. CASE o = id
  <2>1. opens[id] # 0
    BY <1>1, <1>8 DEF StaleParts, StreamOK
  <2>2. RouteGoesOn(id) /\ (Active(id)' => ~routes'[id].input)
    <3>1. CASE Active(o)
      <4>1. r \in Route
        BY <3>1, ActiveIsRoute DEF IInv
      <4>2. Goes(r, new) /\ ~new.input /\ new.retiring
        BY <4>1, GoesOn DEF Route
      <4>3. routes'[id] = new
        BY <1>4, <1>5, <1>8, <3>1
      <4>4. QED
        BY <1>8, <3>1, <4>2, <4>3 DEF RouteGoesOn, Goes
    <3>2. CASE ~Active(o)
      BY <1>4, <1>8, <3>2 DEF RouteGoesOn, Active
    <3>3. QED
      BY <3>1, <3>2
  <2>3. \A f \in Queued(id)' : f.n # 1
    <3>1. At(events'[id]) = {}
      BY <1>1, <1>8, EmptySeq, AtSubset
    <3>2. \A f \in At(retained[id]) : f.n > 1
      BY DEF StaleParts, StreamOK
    <3>3. QED
      BY <1>1, <3>1, <3>2, FramesAt DEF Queued
  <2>4. LoopGoesOn(id)
    BY <1>2, <1>4, <1>8, <2>1, <2>3 DEF LoopGoesOn, Waits, GoTo, Active
  <2>5. Calm(id)
    BY <1>1, <1>3, <1>8, <2>2, <2>4 DEF Calm, InputGoesOn
  <2>6. QED
    BY <2>5, CalmKeeps
<1>9. QED
  BY <1>7, <1>8

\* The Cancel branch of the loop, and the discard that follows it.
LEMMA HandleCancelStale ==
  ASSUME IInv, NEW id \in Id, StaleParts(id), NEW c \in Id, HandleCancel(c)
  PROVE  StaleParts(id)'
<1> DEFINE r == routes[c]
           new == [r EXCEPT !.cancelled = TRUE, !.input = FALSE]
<1>1. PICK f : PopCancel(c, f)
  BY DEF HandleCancel
<1>2. Thins(id) /\ reading' = reading
  BY <1>1, PopCancelThins DEF IInv, StaleParts, PopCancel
<1>3. loop.pc = "poll" /\ UNCHANGED brokerVars
  BY DEF HandleCancel, Polling, LoopAt
<1>4. StreamGoesOn(id) /\ Pops(id)
  BY <1>3, StreamAlone DEF brokerVars, Pops
<1>5. /\ Active(c) => routes' = [routes EXCEPT ![c] = new] /\ GoTo("discard", c)
      /\ ~Active(c) => routes' = routes /\ loop' = loop
  BY DEF HandleCancel
<1>6. routes \in [Id -> Route \cup {NoRoute}]
  BY DEF IInv, RoutesOK
<1>7. LoopGoesOn(id)
  BY <1>3, <1>5, LoopElsewhere, LoopAlone DEF GoTo
<1>8. RouteGoesOn(id)
  <2>1. CASE Active(c) /\ c = id
    <3>1. r \in Route
      BY <2>1, ActiveIsRoute DEF IInv
    <3>2. Goes(r, new)
      BY <3>1, GoesOn
    <3>3. r.worker \in {"exiting", "failing"} => r.retiring
      BY <2>1 DEF StaleParts, RouteFits
    <3>4. routes'[id] = new
      BY <1>5, <1>6, <2>1
    <3>5. QED
      BY <2>1, <3>2, <3>3, <3>4 DEF RouteGoesOn, Goes
  <2>2. CASE ~ (Active(c) /\ c = id)
    <3>1. routes'[id] = routes[id]
      BY <1>5, <1>6, <2>2
    <3>2. QED
      BY <3>1, RouteAlone
  <2>3. QED
    BY <2>1, <2>2
<1>9. QED
  BY <1>2, <1>4, <1>7, <1>8, QuietCalm, CalmKeeps

\* The discard after a Cancel.
LEMMA HandleDiscardStale ==
  ASSUME IInv, NEW id \in Id, StaleParts(id), NEW c \in Id, HandleDiscard(c)
  PROVE  StaleParts(id)'
<1>1. Thins(id) /\ reading' = reading
  <2>1. CASE mode[c] = "absent"
    <3>1. UNCHANGED queueVars
      BY <2>1 DEF HandleDiscard
    <3>2. QED
      BY <3>1, QueuesAloneThin DEF queueVars
  <2>2. CASE mode[c] # "absent"
    <3>1. DiscardRequestInput(c)
      BY <2>2 DEF HandleDiscard
    <3>2. QED
      BY <3>1, DiscardThins DEF DiscardRequestInput, IInv, StaleParts
  <2>3. QED
    BY <2>1, <2>2
<1>2. loop.pc = "discard" /\ loop' = Poll /\ UNCHANGED <<brokerVars, routes>>
  BY DEF HandleDiscard, LoopAt
<1>3. LoopGoesOn(id) /\ Pops(id)
  BY <1>2, LoopElsewhere DEF Pops, Poll
<1>4. StreamGoesOn(id) /\ RouteGoesOn(id)
  BY <1>2, StreamAlone, RouteAlone DEF brokerVars
<1>5. QED
  BY <1>1, <1>3, <1>4, QuietCalm, CalmKeeps

\* The loop's own frames: an acknowledgement, or a terminal it writes.
LEMMA HandleProbeStale ==
  ASSUME IInv, NEW id \in Id, StaleParts(id), HandleProbe
  PROVE  StaleParts(id)'
<1>1. /\ UNCHANGED <<requestVars, brokerVars, routes, reading>> /\ loop.pc = "poll"
      /\ loop'.pc = "ack"
  BY DEF HandleProbe, PopControl, Polling, LoopAt, GoTo
<1>2. /\ Thins(id) /\ StreamGoesOn(id) /\ RouteGoesOn(id) /\ LoopGoesOn(id)
      /\ Pops(id) /\ reading' = reading
  BY <1>1, QueuesAloneThin, StreamAlone, RouteAlone, LoopElsewhere DEF brokerVars, Pops
<1>3. QED
  BY <1>2, QuietCalm, CalmKeeps

\* The loop's frame has been written, or the writer failed.
LEMMA LoopCommittedStale ==
  ASSUME IInv, NEW id \in Id, StaleParts(id), LoopCommitted
  PROVE  StaleParts(id)'
<1>1. /\ UNCHANGED <<queueVars, sent, opens, sending, openAt, routes>>
      /\ loop.pc \in {"ack", "terminal"}
      /\ answers' = answers \/ (/\ loop.pc = "terminal"
                                /\ answers' = [answers EXCEPT ![loop.id] = @ + 1])
  BY DEF LoopCommitted, LoopAt
<1>2. loop'.pc \notin {"terminal", "await"}
  BY DEF LoopCommitted, GoTo, Poll
<1>3. /\ Thins(id) /\ RouteGoesOn(id) /\ LoopGoesOn(id) /\ Pops(id) /\ reading' = reading
  BY <1>1, <1>2, QueuesAloneThin, RouteAlone, LoopElsewhere DEF queueVars, Pops
<1>4. StreamGoesOn(id)
  <2>1. answers \in [Id -> Nat]
    BY DEF IInv, BrokerTypeOK
  <2>2. CASE loop.id = id
    BY <1>1, <2>1, <2>2 DEF StreamGoesOn, Waits
  <2>3. CASE loop.id # id
    BY <1>1, <2>1, <2>3 DEF StreamGoesOn
  <2>4. QED
    BY <2>2, <2>3
<1>5. QED
  BY <1>3, <1>4, QuietCalm, CalmKeeps

\* A route that may have been fed the frame f.
Feeds(r, f, s) ==
  /\ s.open = r.open /\ (s.input => r.input) /\ s.retiring = r.retiring
  /\ s.worker = r.worker /\ At(s.queue) \subseteq At(r.queue) \cup {f}

\* route_input leaves the route's invocation and adds at most the frame.
LEMMA FedGoes ==
  ASSUME NEW r \in Route, NEW f \in Frame
  PROVE  Feeds(r, f, Fed(r, f)) /\ Feeds(r, f, [Fed(r, f) EXCEPT !.input = FALSE])
<1>1. r.queue \in Seq(Frame) /\ f.n \in Nat
  BY RouteFields DEF Frame
<1>2. At(Append(r.queue, f)) = At(r.queue) \cup {f}
  BY <1>1, AppendDistinct
<1>3. CASE r.stdin = "done"
  <2> DEFINE t == [r EXCEPT !.cancelled = TRUE, !.input = FALSE]
  <2>1. Fed(r, f) = t
    BY <1>3 DEF Fed
  <2>2. /\ t.open = r.open /\ t.input = FALSE /\ t.retiring = r.retiring
        /\ t.worker = r.worker /\ t.queue = r.queue
        /\ [t EXCEPT !.input = FALSE] = t
    BY DEF Route
  <2> HIDE DEF t
  <2>3. QED
    BY <2>1, <2>2 DEF Feeds
<1>4. CASE r.stdin # "done"
  <2> DEFINE t == [r EXCEPT !.pending = @ + 1, !.queue = Append(@, f), !.fed = f.n]
             u == [t EXCEPT !.input = FALSE]
  <2>1. Fed(r, f) = t
    BY <1>4 DEF Fed
  <2>2. /\ t.open = r.open /\ t.input = r.input /\ t.retiring = r.retiring
        /\ t.worker = r.worker /\ t.queue = Append(r.queue, f)
        /\ u.open = r.open /\ u.input = FALSE /\ u.retiring = r.retiring
        /\ u.worker = r.worker /\ u.queue = Append(r.queue, f)
    BY DEF Route
  <2>3. Feeds(r, f, t) /\ Feeds(r, f, u)
    BY <1>2, <2>2 DEF Feeds
  <2> HIDE DEF t
  <2>4. QED
    BY <2>1, <2>3
<1>5. QED
  BY <1>3, <1>4

\* Input is popped for a route before the Open of the next invocation is.
LEMMA HandleInputStale ==
  ASSUME IInv, NEW id \in Id, StaleParts(id), NEW c \in Id, NEW f,
         HandleStdin(c, f) \/ HandleStdinEof(c, f)
  PROVE  StaleParts(id)'
<1>1. /\ PopReady(c, f, RequestReady) /\ f \in Queued(c) /\ f.kind # "Open"
      /\ loop.pc = "poll" /\ UNCHANGED <<brokerVars, loop>>
  BY DEF HandleStdin, HandleStdinEof, PopInput, Polling, LoopAt, Queued
<1>2. reading' = reading /\ routes \in [Id -> Route \cup {NoRoute}]
  BY <1>1 DEF PopReady, IInv, RoutesOK
<1>3. /\ StreamGoesOn(id) /\ LoopGoesOn(id) /\ Pops(id)
  BY <1>1, StreamAlone, LoopAlone DEF brokerVars, Pops
<1>4. /\ Active(c) /\ routes[c].input =>
           \E s : /\ s = Fed(routes[c], f) \/ s = [Fed(routes[c], f) EXCEPT !.input = FALSE]
                  /\ routes' = [routes EXCEPT ![c] = s]
      /\ ~ (Active(c) /\ routes[c].input) => routes' = routes
  BY DEF HandleStdin, HandleStdinEof
<1>5. CASE c # id
  <2>1. Thins(id)
    BY <1>1, <1>5, PopReadyOthers DEF IInv, StaleParts
  <2>2. routes'[id] = routes[id]
    BY <1>2, <1>4, <1>5
  <2>3. QED
    BY <1>2, <1>3, <2>1, <2>2, RouteAlone, QuietCalm, CalmKeeps
<1>6. CASE c = id
  <2>1. Oldest(id, f)
    BY <1>1, <1>6, PopReadyOldest DEF IInv, StaleParts
  <2>2. Thins(id)
    BY <1>1, <2>1 DEF Oldest, Thins, OpensStay
  <2>3. RouteGoesOn(id)
    <3>1. CASE Active(id) /\ routes[id].input
      <4>1. PICK s : /\ s = Fed(routes[id], f) \/ s = [Fed(routes[id], f) EXCEPT !.input = FALSE]
                     /\ routes' = [routes EXCEPT ![id] = s]
        BY <1>4, <1>6, <3>1
      <4>2. routes[id] \in Route /\ f \in Frame
        BY <1>1, <1>6, <3>1, ActiveIsRoute, FrameOfQueue DEF IInv, Queued
      <4>3. Feeds(routes[id], f, s)
        BY <4>1, <4>2, FedGoes, Zenon
      <4>4. routes'[id] = s
        <5>1. routes' = [routes EXCEPT ![id] = s]
          BY <4>1, Zenon
        <5>2. QED
          BY <1>2, <5>1
      <4>5. routes[id].worker \in {"exiting", "failing"} => routes[id].retiring
        BY <3>1 DEF StaleParts, RouteFits
      <4>6. routes[id].open # openAt[id] => f.n < openAt[id]
        <5> SUFFICES ASSUME routes[id].open # openAt[id] PROVE f.n < openAt[id]
          OBVIOUS
        <5>1. \/ \E g \in Queued(id) : g.kind = "Open" /\ g.n = openAt[id]
              \/ mode[id] = "overloaded" /\ \A g \in At(events[id]) : g.n < openAt[id]
              \/ \A g \in Queued(id) : g.n < openAt[id]
          BY <1>3, <3>1 DEF StaleParts, NextOK
        <5>2. ASSUME NEW g \in Queued(id), g.kind = "Open" PROVE f.n < g.n
          <6>1. g # f
            BY <1>1, <5>2
          <6>2. QED
            BY <2>1, <6>1 DEF Oldest
        <5>3. f \in Queued(id) /\ (mode[id] = "overloaded" => f \in At(events[id]))
          BY <2>1 DEF Oldest
        <5>4. ASSUME NEW g \in Queued(id), g.kind = "Open", g.n = openAt[id]
              PROVE  f.n < openAt[id]
          BY <5>2, <5>4
        <5>5. QED
          BY <5>1, <5>3, <5>4
      <4>7. QED
        BY <1>1, <1>6, <3>1, <4>3, <4>4, <4>5, <4>6 DEF RouteGoesOn, Feeds
    <3>2. CASE ~ (Active(id) /\ routes[id].input)
      BY <1>4, <1>6, <3>2, RouteAlone
    <3>3. QED
      BY <3>1, <3>2
  <2>4. QED
    BY <1>2, <1>3, <2>2, <2>3, QuietCalm, CalmKeeps
<1>7. QED
  BY <1>5, <1>6

\* A worker is registered for the first or the second invocation of a free ID.
LEMMA Registers ==
  ASSUME IInv, NEW id \in Id, StaleParts(id), opens[id] \in {1, 2}, ~Active(id),
         NEW n \in {1, openAt[id]}, Shrinks(id), \A f \in Queued(id)' : f.n > n,
         UNCHANGED brokerVars, routes' = [routes EXCEPT ![id] = NewRoute(n)], loop' = Poll,
         n = 1 => mode'[id] # "announced", Over(id) => n # 1
  PROVE  StaleParts(id)'
<1>1. /\ openAt[id] \in 1 .. sent[id] /\ sent[id] \in Nat
      /\ opens[id] = 1 => openAt[id] = 1
      /\ opens[id] = 2 => openAt[id] > 1
      /\ opens[id] = 1 => (sending[id] = "idle" => answers[id] > 0)
      /\ \A f \in Queued(id) :
           f.n \in 1 .. sent[id] /\ (f.kind = "Open" => f.n \in {1, openAt[id]})
      /\ \A f \in At(retained[id]) : f.n > 1
  BY DEF StaleParts, StreamOK, IInv, BrokerTypeOK
<1>2. /\ sent' = sent /\ opens' = opens /\ openAt' = openAt /\ sending' = sending
      /\ answers' = answers
  BY DEF brokerVars
<1>3. Queued(id)' \subseteq Queued(id) /\ At(retained'[id]) \subseteq At(retained[id])
  BY DEF Shrinks, Queued
<1>4. /\ routes'[id] = NewRoute(n) /\ NewRoute(n).open = n /\ NewRoute(n).queue = <<>>
      /\ NewRoute(n).worker = "starting" /\ NewRoute(n).retiring = FALSE
  BY DEF IInv, RoutesOK, NewRoute
<1>5. ~Waits(id, "terminal")' /\ ~Waits(id, "await")' /\ (Over(id)' => Over(id))
  BY <1>2 DEF Waits, Poll, Over
<1>6. FramesInOrder(id)'
  BY DEF Shrinks
<1>7. StreamOK(id)'
  BY <1>1, <1>2, <1>3 DEF StreamOK
<1>8. RouteFits(id)'
  <2>1. At(NewRoute(n).queue) = {}
    BY <1>4, EmptySeq, AtSubset
  <2>2. n \in 1 .. sent[id]
    BY <1>1
  <2>3. QED
    BY <1>2, <1>4, <2>1, <2>2 DEF RouteFits
<1>9. AnsweredOK(id)'
  BY <1>3, <1>4, <1>5 DEF StaleParts, AnsweredOK
<1>10. AwaitOK(id)'
  BY <1>5 DEF AwaitOK
<1>11. NextOK(id)'
  <2>1. n # openAt[id] => n = 1 /\ opens[id] = 2
    BY <1>1
  <2>2. n = openAt[id]
    BY <2>1 DEF Over
  <2>3. QED
    BY <1>2, <1>4, <2>2 DEF NextOK
<1>12. QED
  BY <1>6, <1>7, <1>8, <1>9, <1>10, <1>11 DEF StaleParts

\* OpenRoute for another ID.
LEMMA OtherOpens ==
  ASSUME IInv, NEW id \in Id, NEW c, c # id, NEW n, OpenRoute(c, n)
  PROVE  routes'[id] = routes[id] /\ LoopGoesOn(id)
<1>1. routes'[id] = routes[id]
  BY DEF OpenRoute, IInv, RoutesOK
<1>2. LoopGoesOn(id)
  BY DEF OpenRoute, GoTo, Poll, LoopGoesOn, Waits
<1>3. QED
  BY <1>1, <1>2

\* An Open is refused: its ID is free, but there are too many workers.
LEMMA RefusedCalm ==
  ASSUME IInv, NEW id \in Id, StaleParts(id), opens[id] # 0, ~Active(id),
         Shrinks(id), mode[id] = "absent" => mode'[id] = "absent",
         \A f \in Queued(id)' : f.n # 1, UNCHANGED brokerVars, routes' = routes,
         GoTo("terminal", id)
  PROVE  StaleParts(id)'
<1>1. StreamGoesOn(id) /\ RouteGoesOn(id)
  BY StreamAlone, RouteAlone DEF brokerVars
<1>2. LoopGoesOn(id) /\ InputGoesOn(id)
  BY DEF LoopGoesOn, InputGoesOn, Active, Waits, GoTo
<1>3. QED
  BY <1>1, <1>2, CalmKeeps DEF Calm

\* Of two invocations, a queued Open that is newer than the registered route is
\* that of the second, and the route is retiring.
LEMMA SecondOpen ==
  ASSUME IInv, NEW id \in Id, StaleParts(id), opens[id] <= 2, Active(id),
         NEW f \in Queued(id), f.kind = "Open"
  PROVE  opens[id] = 2 /\ f.n = openAt[id] /\ routes[id].retiring
<1>1. opens[id] \in Nat /\ openAt[id] \in Nat /\ sent[id] \in Nat
  BY DEF IInv, BrokerTypeOK
<1>2. /\ f.n \in {1, openAt[id]} /\ opens[id] # 0 /\ (opens[id] = 1 => openAt[id] = 1)
  BY DEF StaleParts, StreamOK
<1>3. /\ routes[id].open \in {1, openAt[id]} /\ routes[id].open \in 1 .. sent[id]
      /\ f.n > routes[id].open
  BY DEF StaleParts, RouteFits
<1>4. opens[id] = 2 /\ f.n = openAt[id] /\ routes[id].open = 1
  BY <1>1, <1>2, <1>3
<1>5. QED
  BY <1>4 DEF StaleParts, AnsweredOK, Over

\* The Open branch.
LEMMA HandleOpenStale ==
  ASSUME IInv, NEW id \in Id, StaleParts(id), opens[id] <= 2, NEW c \in Id, NEW f,
         HandleOpen(c, f)
  PROVE  StaleParts(id)'
<1>1. /\ PopReady(c, f, RequestReady) /\ f \in Queued(c) /\ f.kind = "Open"
      /\ loop.pc = "poll" /\ UNCHANGED brokerVars
  BY DEF HandleOpen, PopInput, Polling, LoopAt, Queued
<1>2. reading' = reading /\ StreamGoesOn(id) /\ Pops(id)
  BY <1>1, StreamAlone DEF PopReady, brokerVars, Pops
<1>3. \/ /\ Active(c) /\ routes[c].retiring
         /\ loop' = [pc |-> "await", id |-> c, n |-> f.n]
         /\ routes' = routes
      \/ ~ (Active(c) /\ routes[c].retiring) /\ OpenRoute(c, f.n)
  BY DEF HandleOpen
<1>4. CASE c # id
  <2>1. Thins(id)
    BY <1>1, <1>4, PopReadyOthers DEF IInv, StaleParts
  <2>2. routes'[id] = routes[id] /\ LoopGoesOn(id)
    BY <1>3, <1>4, OtherOpens DEF LoopGoesOn, Waits
  <2>3. QED
    BY <1>2, <2>1, <2>2, RouteAlone, QuietCalm, CalmKeeps
<1>5. CASE c = id
  <2>1. Oldest(id, f)
    BY <1>1, <1>5, PopReadyOldest DEF IInv, StaleParts
  <2>2. Shrinks(id) /\ ModeStays(id) /\ \A g \in Queued(id)' : f.n < g.n
    BY <2>1 DEF Oldest
  <2>3. mode[id] = "absent" => mode'[id] = "absent"
    BY <2>2 DEF ModeStays
  <2>4. /\ f.n \in Nat /\ \A g \in Queued(id) : g.n \in Nat
        /\ events[id] \in Seq(Frame) /\ retained[id] \in Seq(Frame) /\ opens[id] \in Nat
        /\ openAt[id] \in Nat /\ sent[id] \in Nat
    BY <1>1, <1>5, FrameOfQueue DEF IInv, QInv, QueueTypeOK, BrokerTypeOK, Queued
  <2>5. /\ opens[id] \in {1, 2} /\ f.n \in {1, openAt[id]} /\ f.n \in 1 .. sent[id]
    <3>1. events[id] # <<>> \/ retained[id] # <<>>
      BY <1>1, <1>5, <2>4, AtSubset DEF Queued
    <3>2. mode[id] # "absent"
      BY <3>1 DEF IInv, QInv, NoLeakedQueue
    <3>3. opens[id] # 0 /\ f.n \in {1, openAt[id]} /\ f.n \in 1 .. sent[id]
      BY <1>1, <1>5, <3>2 DEF StaleParts, StreamOK
    <3>4. QED
      BY <2>4, <3>3
  <2>6. CASE Active(id)
    <3>1. opens[id] = 2 /\ f.n = openAt[id] /\ routes[id].retiring
      BY <1>1, <1>5, <2>6, SecondOpen
    <3>2. loop' = [pc |-> "await", id |-> id, n |-> f.n] /\ routes' = routes
      BY <1>3, <1>5, <2>6, <3>1
    <3>3. RouteGoesOn(id) /\ LoopGoesOn(id)
      BY <2>2, <2>4, <3>1, <3>2, RouteAlone DEF LoopGoesOn, Waits
    <3>4. InputGoesOn(id)
      BY <2>2, <3>2 DEF InputGoesOn, ModeStays, Pops
    <3>5. QED
      BY <1>2, <2>2, <2>3, <3>3, <3>4, CalmKeeps DEF Calm
  <2>7. CASE ~Active(id)
    <3>1. OpenRoute(id, f.n)
      BY <1>3, <1>5, <2>7
    <3>2. CASE GoTo("terminal", id) /\ routes' = routes
      <4>1. \A g \in Queued(id)' : g.n # 1
        BY <2>2, <2>5
      <4>2. QED
        BY <1>1, <2>2, <2>3, <2>5, <2>7, <3>2, <4>1, RefusedCalm
    <3>3. CASE routes' = [routes EXCEPT ![id] = NewRoute(f.n)] /\ loop' = Poll
      <4>1. \A g \in Queued(id)' : g.n > f.n
        <5>1. Queued(id)' \subseteq Queued(id)
          BY <2>2 DEF Shrinks, Queued
        <5>2. QED
          BY <2>2, <2>4, <5>1
      <4>2. f.n = 1 => mode'[id] # "announced"
        <5>1. f.n = 1 => f \in At(events[id])
          BY <1>1, <1>5 DEF Queued, StaleParts, StreamOK
        <5>2. f.n = 1 => events[id] # <<>>
          BY <2>4, <5>1, AtSubset
        <5>3. f.n = 1 => mode[id] # "announced"
          BY <5>2 DEF IInv, QInv, NoLeakedQueue
        <5>4. QED
          BY <2>2, <5>3 DEF ModeStays
      <4>3. Over(id) => f.n # 1
        BY <1>1, <1>5 DEF StaleParts, AnsweredOK
      <4>4. QED
        BY <1>1, <2>2, <2>5, <2>7, <3>3, <4>1, <4>2, <4>3, Registers
    <3>4. QED
      BY <3>1, <3>2, <3>3 DEF OpenRoute
  <2>8. QED
    BY <2>6, <2>7
<1>6. QED
  BY <1>4, <1>5

\* The second invocation's Open has waited for the first one's worker.
LEMMA HandleAwaitedOpenStale ==
  ASSUME IInv, NEW id \in Id, StaleParts(id), opens[id] <= 2, HandleAwaitedOpen
  PROVE  StaleParts(id)'
<1>1. /\ loop.pc = "await" /\ ~Active(loop.id) /\ OpenRoute(loop.id, loop.n)
      /\ UNCHANGED <<queueVars, brokerVars>>
  BY DEF HandleAwaitedOpen, LoopAt
<1>2. /\ UNCHANGED <<events, retained, mode, reading>> /\ StreamGoesOn(id) /\ Thins(id)
  BY <1>1, StreamAlone, QueuesAloneThin DEF queueVars, requestVars, brokerVars
<1>3. CASE loop.id # id
  <2>1. routes'[id] = routes[id] /\ LoopGoesOn(id)
    BY <1>1, <1>3, OtherOpens
  <2>2. Pops(id)
    BY <1>1, <1>3 DEF Pops
  <2>3. QED
    BY <1>2, <2>1, <2>2, RouteAlone, QuietCalm, CalmKeeps
<1>4. CASE loop.id = id
  <2>1. Waits(id, "await")
    BY <1>1, <1>4 DEF Waits
  <2>2. /\ opens[id] = 2 /\ loop.n = openAt[id] /\ openAt[id] > 1 /\ openAt[id] \in Nat
        /\ \A g \in Queued(id) : g.n > loop.n /\ g.n \in Nat
    <3>1. \A g \in Queued(id) : g.n \in Nat
      BY FrameOfQueue DEF IInv, Queued
    <3>2. openAt[id] \in Nat
      BY DEF IInv, BrokerTypeOK
    <3>3. QED
      BY <2>1, <3>1, <3>2 DEF StaleParts, AwaitOK, StreamOK
  <2>3. Shrinks(id) /\ Queued(id)' = Queued(id)
    BY <1>2 DEF Thins, Queued
  <2>4. CASE GoTo("terminal", id) /\ routes' = routes
    <3>1. opens[id] # 0 /\ \A g \in Queued(id)' : g.n # 1
      BY <2>2, <2>3
    <3>2. QED
      BY <1>1, <1>2, <1>4, <2>3, <2>4, <3>1, RefusedCalm
  <2>5. CASE routes' = [routes EXCEPT ![id] = NewRoute(openAt[id])] /\ loop' = Poll
    <3>1. /\ opens[id] \in {1, 2} /\ openAt[id] # 1 /\ ~Active(id)
          /\ \A g \in Queued(id)' : g.n > openAt[id]
      BY <1>1, <1>4, <2>2, <2>3
    <3>2. QED
      BY <1>1, <2>3, <2>5, <3>1, Registers
  <2>6. QED
    BY <1>1, <1>4, <2>2, <2>4, <2>5 DEF OpenRoute
<1>5. QED
  BY <1>3, <1>4

-----------------------------------------------------------------------------
(* The reader and the environment.                                         *)

\* Input of the invocation that is open arrives.
LEMMA InputArrives ==
  ASSUME IInv, NEW id \in Id, StaleParts(id), NEW f \in Frame, f.n = sent[id] + 1,
         f.kind # "Open", Arrives(id, f), sending[id] # "idle", sending'[id] # "idle",
         sent'[id] = sent[id] + 1, opens'[id] = opens[id], openAt'[id] = openAt[id],
         answers'[id] = answers[id], UNCHANGED execVars
  PROVE  StaleParts(id)'
<1>1. /\ opens[id] \in Nat /\ openAt[id] \in 1 .. sent[id] /\ sent[id] \in Nat \ {0}
      /\ openAt[id] \in Nat /\ opens[id] # 0
      /\ opens[id] = 1 => openAt[id] = 1
      /\ opens[id] = 2 => openAt[id] > 1
      /\ \A g \in Queued(id) :
           g.n \in 1 .. sent[id] /\ (g.kind = "Open" => g.n \in {1, openAt[id]})
      /\ \A g \in At(retained[id]) : g.n > 1
  BY DEF StaleParts, StreamOK, IInv, BrokerTypeOK
<1>2. /\ FramesInOrder(id)' /\ Queued(id) \subseteq Queued(id)'
      /\ Queued(id)' \subseteq Queued(id) \cup {f}
      /\ At(retained'[id]) \subseteq At(retained[id]) \cup {f}
      /\ mode'[id] = "announced" => mode[id] = "announced"
      /\ mode[id] = "overloaded" => mode'[id] = "overloaded" /\ events'[id] = events[id]
      /\ reading
  BY DEF Arrives, Queued
<1>3. routes' = routes /\ loop' = loop
  BY DEF execVars
<1>4. StreamOK(id)'
  <2>1. \A g \in Queued(id)' :
          g.n \in 1 .. sent'[id] /\ (g.kind = "Open" => g.n \in {1, openAt'[id]})
    BY <1>1, <1>2
  <2>2. \A g \in At(retained'[id]) : g.n > 1
    BY <1>1, <1>2
  <2>3. openAt'[id] \in 1 .. sent'[id]
    BY <1>1
  <2>4. QED
    BY <1>1, <2>1, <2>2, <2>3 DEF StreamOK
<1>5. RouteFits(id)'
  <2> SUFFICES ASSUME Active(id)
               PROVE  RouteFits(id)'
    BY <1>3 DEF RouteFits, Active
  <2>1. /\ routes[id].open \in {1, openAt[id]} /\ routes[id].open \in 1 .. sent[id]
        /\ \A g \in Queued(id) : g.n > routes[id].open
        /\ \A g \in At(routes[id].queue) :
             /\ g.n \in routes[id].open + 1 .. sent[id]
             /\ routes[id].open # openAt[id] => g.n < openAt[id]
        /\ routes[id].worker \in {"exiting", "failing"} => routes[id].retiring
        /\ routes[id].open = 1 /\ mode[id] = "announced" => ~routes[id].input
    BY DEF StaleParts, RouteFits
  <2>2. \A g \in Queued(id)' : g.n > routes[id].open
    BY <1>1, <1>2, <2>1
  <2>3. \A g \in At(routes[id].queue) : g.n \in routes[id].open + 1 .. sent[id] + 1
    BY <1>1, <2>1
  <2>4. routes[id].open \in 1 .. sent[id] + 1
    BY <1>1, <2>1
  <2>5. QED
    BY <1>2, <1>3, <2>1, <2>2, <2>3, <2>4 DEF RouteFits
<1>6. AnsweredOK(id)'
  <2>1. Over(id)' => Over(id)
    BY <1>3 DEF Over, Waits
  <2>2. f.n # 1
    BY <1>1
  <2>3. QED
    BY <1>2, <1>3, <2>1, <2>2 DEF AnsweredOK, StaleParts, Active
<1>7. AwaitOK(id)'
  <2>1. Waits(id, "await")' => Waits(id, "await")
    BY <1>3 DEF Waits
  <2>2. f.n > openAt[id]
    BY <1>1
  <2>3. QED
    BY <1>2, <1>3, <2>1, <2>2 DEF AwaitOK, StaleParts
<1>8. NextOK(id)'
  <2> SUFFICES ASSUME Active(id)', routes'[id].open # openAt'[id], routes'[id].input, Pops(id)'
               PROVE  \/ \E g \in Queued(id)' : g.kind = "Open" /\ g.n = openAt'[id]
                      \/ /\ mode'[id] = "overloaded"
                         /\ \A g \in At(events'[id]) : g.n < openAt'[id]
    BY DEF NextOK
  <2>1. Active(id) /\ routes[id].open # openAt[id] /\ routes[id].input /\ Pops(id)
    BY <1>3 DEF Active, Pops
  <2>2. \/ \E g \in Queued(id) : g.kind = "Open" /\ g.n = openAt[id]
        \/ mode[id] = "overloaded" /\ \A g \in At(events[id]) : g.n < openAt[id]
    BY <1>2, <2>1 DEF StaleParts, NextOK
  <2>3. QED
    BY <1>2, <2>2
<1>9. QED
  BY <1>2, <1>4, <1>5, <1>6, <1>7, <1>8 DEF StaleParts

\* The first Open of an ID arrives.
LEMMA FirstOpenArrives ==
  ASSUME IInv, NEW id \in Id, StaleParts(id), NEW f \in Frame, f.n = sent[id] + 1,
         f.kind = "Open", Arrives(id, f), sending'[id] = "open", opens[id] = 0,
         opens'[id] = 1, sent'[id] = sent[id] + 1, openAt'[id] = sent[id] + 1,
         answers'[id] = 0, UNCHANGED execVars
  PROVE  StaleParts(id)'
<1>1. /\ sent[id] = 0 /\ mode[id] = "absent" /\ ~Active(id)
      /\ ~Waits(id, "terminal") /\ ~Waits(id, "await")
  BY DEF StaleParts, StreamOK
<1>2. Queued(id) = {} /\ At(retained[id]) = {}
  <2>1. events[id] = <<>> /\ retained[id] = <<>>
    BY <1>1 DEF IInv, QInv, NoLeakedQueue
  <2>2. events[id] \in Seq(Frame) /\ retained[id] \in Seq(Frame)
    BY DEF IInv, QInv, QueueTypeOK
  <2>3. QED
    BY <2>1, <2>2, AtSubset DEF Queued
<1>3. FramesInOrder(id)' /\ Queued(id)' \subseteq {f} /\ At(retained'[id]) = {}
  BY <1>1, <1>2 DEF Arrives, Queued
<1>4. ~Active(id)' /\ ~Waits(id, "terminal")' /\ ~Waits(id, "await")' /\ ~Over(id)'
  BY <1>1 DEF execVars, Active, Waits, Over
<1>5. StreamOK(id)'
  BY <1>1, <1>3, <1>4 DEF StreamOK
<1>6. RouteFits(id)' /\ AnsweredOK(id)' /\ AwaitOK(id)' /\ NextOK(id)'
  BY <1>4 DEF RouteFits, AnsweredOK, AwaitOK, NextOK
<1>7. QED
  BY <1>3, <1>5, <1>6 DEF StaleParts

\* The Open of the invocation that uses the ID again arrives.
LEMMA SecondOpenArrives ==
  ASSUME IInv, NEW id \in Id, StaleParts(id), NEW f \in Frame, f.n = sent[id] + 1,
         f.kind = "Open", Arrives(id, f), sending[id] = "idle", opens[id] = 1,
         opens'[id] = 2, sent'[id] = sent[id] + 1, openAt'[id] = sent[id] + 1,
         UNCHANGED execVars
  PROVE  StaleParts(id)'
<1>1. /\ openAt[id] = 1 /\ sent[id] \in Nat \ {0} /\ Over(id)
      /\ \A g \in Queued(id) : g.n \in 1 .. sent[id] /\ (g.kind = "Open" => g.n = 1)
      /\ \A g \in At(retained[id]) : g.n > 1
  BY DEF StaleParts, StreamOK, IInv, BrokerTypeOK, Over
<1>2. /\ FramesInOrder(id)' /\ Queued(id)' \subseteq Queued(id) \cup {f}
      /\ At(events'[id]) \subseteq At(events[id]) \cup {f}
      /\ At(retained'[id]) \subseteq At(retained[id]) \cup {f}
      /\ mode'[id] = "announced" => mode[id] = "announced"
      /\ f \in Queued(id)' \/ mode'[id] \in {"overloaded", "announced"} \/ ~reading'
  BY DEF Arrives, Queued
<1>3. routes' = routes /\ loop' = loop
  BY DEF execVars
<1>4. StreamOK(id)'
  <2>1. \A g \in Queued(id)' :
          g.n \in 1 .. sent'[id] /\ (g.kind = "Open" => g.n \in {1, openAt'[id]})
    BY <1>1, <1>2
  <2>2. \A g \in At(retained'[id]) : g.n > 1
    BY <1>1, <1>2
  <2>3. openAt'[id] \in 1 .. sent'[id] /\ openAt'[id] > 1
    BY <1>1
  <2>4. QED
    BY <1>1, <2>1, <2>2, <2>3 DEF StreamOK
<1>5. Active(id) =>
        /\ routes[id].open = 1 /\ \A g \in Queued(id) : g.n > 1
        /\ \A g \in At(routes[id].queue) : g.n \in 2 .. sent[id]
        /\ routes[id].worker \in {"exiting", "failing"} => routes[id].retiring
        /\ mode[id] = "announced" => ~routes[id].input
  BY <1>1 DEF StaleParts, RouteFits
<1>6. RouteFits(id)'
  <2> SUFFICES ASSUME Active(id)
               PROVE  RouteFits(id)'
    BY <1>3 DEF RouteFits, Active
  <2>1. \A g \in Queued(id)' : g.n > 1
    BY <1>1, <1>2, <1>5
  <2>2. \A g \in At(routes[id].queue) : g.n \in 2 .. sent[id] + 1 /\ g.n < sent[id] + 1
    BY <1>1, <1>5
  <2>3. 1 \in 1 .. sent[id] + 1 /\ 1 + 1 = 2
    BY <1>1
  <2>4. QED
    BY <1>2, <1>3, <1>5, <2>1, <2>2, <2>3 DEF RouteFits
<1>7. AnsweredOK(id)'
  <2>1. f.n # 1
    BY <1>1
  <2>2. QED
    BY <1>1, <1>2, <1>3, <2>1 DEF AnsweredOK, StaleParts, Active
<1>8. AwaitOK(id)'
  <2>1. ~Waits(id, "await")
    BY DEF StaleParts, AwaitOK
  <2>2. QED
    BY <1>3, <2>1 DEF AwaitOK, Waits
<1>9. NextOK(id)'
  <2> SUFFICES ASSUME Active(id)', routes'[id].input
               PROVE  \/ f \in Queued(id)'
                      \/ /\ mode'[id] = "overloaded"
                         /\ \A g \in At(events'[id]) : g.n < openAt'[id]
                      \/ ~reading' /\ \A g \in Queued(id)' : g.n < openAt'[id]
    BY DEF NextOK
  <2>1. mode'[id] # "announced"
    BY <1>2, <1>3, <1>5 DEF Active
  <2>2. \A g \in Queued(id) : g.n < sent[id] + 1
    BY <1>1
  <2>3. f \notin Queued(id)' =>
          \A g \in At(events'[id]) \cup Queued(id)' : g.n < openAt'[id]
    BY <1>2, <2>2 DEF Queued
  <2>4. QED
    BY <1>2, <2>1, <2>3
<1>10. QED
  BY <1>2, <1>4, <1>6, <1>7, <1>8, <1>9 DEF StaleParts

\* Another request's frame arrives: nothing of this one changes.
LEMMA OthersReceive ==
  ASSUME IInv, NEW id \in Id, StaleParts(id), NEW c \in Id \ {id}, NEW kind, NEW f,
         NEW budgetFull, Sends(c, kind),
         \/ EnqueueRequest(c, f)
         \/ EnqueueOverflow(c, f, budgetFull)
         \/ TooManyRequests(c)
  PROVE  Calm(id)
<1>1. /\ events \in [Id -> Seq(Frame)] /\ retained \in [Id -> Seq(Frame)]
      /\ mode \in [Id -> Mode]
  BY DEF IInv, QInv, QueueTypeOK
<1>2. reading /\ events'[id] = events[id] /\ retained'[id] = retained[id] /\ mode'[id] = mode[id]
  <2>1. CASE EnqueueRequest(c, f)
    BY <1>1, <2>1 DEF EnqueueRequest
  <2>2. CASE EnqueueOverflow(c, f, budgetFull)
    BY <1>1, <2>2 DEF EnqueueOverflow
  <2>3. CASE TooManyRequests(c)
    BY <2>3 DEF TooManyRequests, SetTerminal, requestVars
  <2>4. QED
    BY <2>1, <2>2, <2>3
<1>3. Thins(id)
  BY <1>2, OtherQueue DEF StaleParts
<1>4. BrokerTypeOK
  BY DEF IInv
<1>5. /\ sent'[id] = sent[id] /\ sending'[id] = sending[id] /\ opens'[id] = opens[id]
      /\ openAt'[id] = openAt[id] /\ answers'[id] = answers[id]
  BY <1>4 DEF Sends, BrokerTypeOK
<1>6. routes' = routes /\ loop' = loop
  BY DEF Sends, execVars
<1>7. StreamGoesOn(id)
  BY <1>5 DEF StreamGoesOn
<1>8. RouteGoesOn(id) /\ LoopGoesOn(id) /\ (Pops(id)' <=> Pops(id))
  BY <1>6, RouteAlone, LoopAlone
<1>9. QED
  BY <1>2, <1>3, <1>7, <1>8, QuietCalm

\* A frame of the request's own stream is received.
LEMMA ReceiveRequestStale ==
  ASSUME IInv, NEW id \in Id, StaleParts(id), opens'[id] <= 2, NEW c \in Id,
         ReceiveRequest(c)
  PROVE  StaleParts(id)'
<1>1. PICK kind \in InputKind, budgetFull \in BOOLEAN :
        LET f == [kind |-> kind, n |-> sent[c] + 1]
        IN /\ Sends(c, kind)
           /\ \/ ~budgetFull /\ EnqueueRequest(c, f)
              \/ EnqueueOverflow(c, f, budgetFull)
              \/ ~budgetFull /\ TooManyRequests(c)
  BY DEF ReceiveRequest
<1> DEFINE f == [kind |-> kind, n |-> sent[c] + 1]
<1>2. f \in Frame /\ f.kind = kind /\ f.n = sent[c] + 1
  BY ExecutorAssumption DEF IInv, BrokerTypeOK, Frame, Kind
<1>3. /\ Sends(c, kind)
      /\ \/ EnqueueRequest(c, f)
         \/ EnqueueOverflow(c, f, budgetFull)
         \/ TooManyRequests(c)
  BY <1>1
<1> HIDE DEF f
<1>4. CASE c # id
  BY <1>3, <1>4, OthersReceive, CalmKeeps
<1>5. CASE c = id
  <2>1. BrokerTypeOK
    BY DEF IInv
  <2>2. \A g \in Queued(id) : g.n < f.n
    <3>1. sent[id] \in Nat
      BY <2>1 DEF BrokerTypeOK
    <3>2. \A g \in Queued(id) : g.n \in 1 .. sent[id]
      BY DEF StaleParts, StreamOK
    <3>3. QED
      BY <1>2, <1>5, <3>1, <3>2
  <2>3. Arrives(id, f)
    BY <1>2, <1>3, <1>5, <2>2, EnqueueArrives, OverflowArrives, RefusalArrives
       DEF IInv, StaleParts
  <2>4. UNCHANGED execVars /\ sent'[id] = sent[id] + 1
    BY <1>3, <1>5, <2>1 DEF Sends, BrokerTypeOK
  <2>5. CASE kind = "Open"
    <3>1. /\ sending[id] = "idle" /\ opens'[id] = opens[id] + 1 /\ sending'[id] = "open"
          /\ openAt'[id] = sent[id] + 1 /\ answers'[id] = 0
      BY <1>3, <1>5, <2>1, <2>4, <2>5 DEF Sends, BrokerTypeOK
    <3>2. opens[id] \in {0, 1}
      <4>1. opens[id] \in Nat
        BY <2>1 DEF BrokerTypeOK
      <4>2. QED
        BY <3>1, <4>1
    <3>3. CASE opens[id] = 0
      BY <1>2, <1>5, <2>3, <2>4, <2>5, <3>1, <3>3, FirstOpenArrives
    <3>4. CASE opens[id] = 1
      BY <1>2, <1>5, <2>3, <2>4, <2>5, <3>1, <3>4, SecondOpenArrives
    <3>5. QED
      BY <3>2, <3>3, <3>4
  <2>6. CASE kind # "Open"
    <3>1. /\ sending[id] # "idle" /\ sending'[id] # "idle" /\ opens'[id] = opens[id]
          /\ openAt'[id] = openAt[id] /\ answers'[id] = answers[id]
      BY <1>3, <1>5, <2>1, <2>6 DEF Sends, BrokerTypeOK
    <3>2. QED
      BY <1>2, <1>5, <2>3, <2>4, <2>6, <3>1, InputArrives
  <2>7. QED
    BY <2>5, <2>6
<1>6. QED
  BY <1>4, <1>5

\* The broker, the channel and the reader thread.
LEMMA EnvironmentStale ==
  ASSUME IInv, NEW id \in Id, StaleParts(id), opens'[id] <= 2, Environment
  PROVE  StaleParts(id)'
<1>1. CASE ReceiveProbe \/ ConnectionLost \/ WriterFails \/ RequestShutdown
  <2>1. /\ UNCHANGED <<requestVars, sent, opens, sending, openAt, answers, routes, loop>>
        /\ reading' => reading
    <3>1. CASE ReceiveProbe
      BY <3>1 DEF ReceiveProbe, EnqueueControl, ControlOverflow, SetTerminal, execVars
    <3>2. CASE ConnectionLost
      BY <3>2 DEF ConnectionLost, EnqueueFailure, SetTerminal, execVars, brokerVars
    <3>3. CASE WriterFails \/ RequestShutdown
      BY <3>3 DEF WriterFails, RequestShutdown, queueVars, brokerVars
    <3>4. QED
      BY <1>1, <3>1, <3>2, <3>3
  <2>2. /\ Thins(id) /\ StreamGoesOn(id) /\ RouteGoesOn(id) /\ LoopGoesOn(id)
        /\ (Pops(id)' <=> Pops(id))
    BY <2>1, QueuesAloneThin, StreamAlone, RouteAlone, LoopAlone
  <2>3. QED
    BY <2>1, <2>2, QuietCalm, CalmKeeps
<1>2. ASSUME NEW c \in Id, BrokerFinishes(c) PROVE StaleParts(id)'
  <2>1. /\ UNCHANGED <<queueVars, sent, opens, openAt, answers, routes, loop>>
        /\ sending' = [sending EXCEPT ![c] = "idle"] /\ answers[c] > 0
    BY <1>2 DEF BrokerFinishes, execVars
  <2>2. sending'[id] = sending[id] \/ (sending'[id] = "idle" /\ answers[id] > 0)
    BY <2>1 DEF IInv, BrokerTypeOK
  <2>3. StreamGoesOn(id)
    BY <2>1, <2>2 DEF StreamGoesOn
  <2>4. /\ Thins(id) /\ RouteGoesOn(id) /\ LoopGoesOn(id) /\ (Pops(id)' <=> Pops(id))
        /\ reading' = reading
    BY <2>1, QueuesAloneThin, RouteAlone, LoopAlone DEF queueVars
  <2>5. QED
    BY <2>3, <2>4, QuietCalm, CalmKeeps
<1>3. QED
  BY <1>1, <1>2, ReceiveRequestStale, WorkerStepStale DEF Environment

\* Every step of the main loop.
LEMMA LoopStale ==
  ASSUME IInv, NEW id \in Id, StaleParts(id), opens[id] <= 2, Loop
  PROVE  StaleParts(id)'
  BY EndingStale, HandleProbeStale, HandleOverloadStale, HandleCancelStale,
     HandleDiscardStale, HandleOpenStale, HandleInputStale, HandleAwaitedOpenStale,
     LoopCommittedStale DEF Loop

\* The broker only ever counts further invocations.
LEMMA OpensGrow ==
  ASSUME IInv, [Next]_vars, NEW id \in Id
  PROVE  opens'[id] = opens[id] \/ opens'[id] = opens[id] + 1
<1>1. opens \in [Id -> Nat]
  BY DEF IInv, BrokerTypeOK
<1>2. CASE Loop
  BY <1>2 DEF Loop, DrainCompletion, StopLoop, HandleTransport, HandleProbe, HandleOverload,
     HandleCancel, HandleDiscard, HandleOpen, HandleStdin, HandleStdinEof,
     HandleAwaitedOpen, LoopCommitted, CancelAll, JoinAll, brokerVars
<1>3. ASSUME NEW w \in Id,
             \/ WorkerStep(w)
             \/ ChildReads(w) \/ ChildClosesStdin(w) \/ ChildExits(w) \/ OutputSaturates(w)
      PROVE  opens' = opens
  BY <1>3 DEF WorkerStep, StartChild, TakeInput, CountInput, KillChild, EndInput,
     CollectChild, ExitCommitted, TakeError, ErrorCommitted, Report, ChildReads,
     ChildClosesStdin, ChildExits, OutputSaturates, Worker
<1>4. ASSUME NEW c \in Id, ReceiveRequest(c)
      PROVE  opens' = opens \/ opens' = [opens EXCEPT ![c] = @ + 1]
  BY <1>4 DEF ReceiveRequest, Sends
<1>5. CASE \/ ReceiveProbe \/ ConnectionLost \/ WriterFails \/ RequestShutdown
           \/ \E c \in Id : BrokerFinishes(c)
  BY <1>5 DEF ReceiveProbe, ConnectionLost, WriterFails, RequestShutdown, BrokerFinishes,
     brokerVars
<1>6. CASE UNCHANGED vars
  BY <1>6 DEF vars, brokerVars
<1>7. QED
  BY <1>1, <1>2, <1>3, <1>4, <1>5, <1>6 DEF Next, Environment

\* No frame has been sent, no route registered.
LEMMA InitStale == Init => \A id \in Id : StaleOK(id)
<1> SUFFICES ASSUME Init, NEW id \in Id PROVE StaleParts(id)
  BY DEF StaleOK
<1>1. /\ events[id] = <<>> /\ retained[id] = <<>> /\ mode[id] = "absent"
      /\ sent[id] = 0 /\ opens[id] = 0 /\ sending[id] = "idle" /\ answers[id] = 0
      /\ ~Active(id) /\ loop.pc = "poll"
  BY DEF Init, QueueInit, Active, Poll
<1>2. DOMAIN events[id] = {} /\ DOMAIN retained[id] = {}
  BY <1>1, EmptySeq
<1>3. FramesInOrder(id) /\ Queued(id) = {} /\ At(retained[id]) = {}
  BY <1>2 DEF FramesInOrder, Ascending, Queued, At
<1>4. StreamOK(id)
  BY <1>1, <1>3 DEF StreamOK, Waits
<1>5. RouteFits(id) /\ AnsweredOK(id) /\ AwaitOK(id) /\ NextOK(id)
  BY <1>1, <1>3 DEF RouteFits, AnsweredOK, AwaitOK, NextOK, Waits
<1>6. QED
  BY <1>3, <1>4, <1>5 DEF StaleParts

\* Every step keeps the first two invocations of every request ID apart.
LEMMA NextStale ==
  ASSUME IInv, \A id \in Id : StaleOK(id), [Next]_vars
  PROVE  \A id \in Id : StaleOK(id)'
<1> SUFFICES ASSUME NEW id \in Id, opens'[id] <= 2 PROVE StaleParts(id)'
  BY DEF StaleOK
<1>1. opens[id] <= 2
  <2>1. opens[id] \in Nat
    BY DEF IInv, BrokerTypeOK
  <2>2. QED
    BY <2>1, OpensGrow
<1>2. StaleParts(id)
  BY <1>1 DEF StaleOK
<1>3. CASE UNCHANGED vars
  <2>1. /\ UNCHANGED <<requestVars, sent, opens, sending, openAt, answers, routes, loop>>
        /\ reading' = reading
    BY <1>3 DEF vars, queueVars, brokerVars, execVars
  <2>2. /\ Thins(id) /\ StreamGoesOn(id) /\ RouteGoesOn(id) /\ LoopGoesOn(id)
        /\ (Pops(id)' <=> Pops(id))
    BY <1>2, <2>1, QueuesAloneThin, StreamAlone, RouteAlone, LoopAlone
  <2>3. QED
    BY <1>2, <2>1, <2>2, QuietCalm, CalmKeeps
<1>4. QED
  BY <1>1, <1>2, <1>3, LoopStale, WorkerStepStale, EnvironmentStale DEF Next

\* Input sent to one invocation never reaches the child of the other that uses the
\* same request ID, however late its frames are popped, whatever overflowed and
\* whichever side ended first.
THEOREM NeverStale == Spec => []NoStaleInput
<1>1. IInv /\ (\A id \in Id : StaleOK(id)) => NoStaleInput
  <2> SUFFICES ASSUME IInv, NEW id \in Id, StaleOK(id), opens[id] <= 2, Active(id),
                      NEW i \in DOMAIN routes[id].queue
               PROVE  /\ routes[id].queue[i].n > routes[id].open
                      /\ routes[id].open < openAt[id] =>
                           routes[id].queue[i].n < openAt[id]
    BY DEF NoStaleInput
  <2>1. routes[id].queue[i] \in At(routes[id].queue)
    BY DEF At
  <2>2. routes[id].open \in Nat /\ openAt[id] \in Nat /\ sent[id] \in Nat
    BY ActiveIsRoute, RouteFields DEF IInv, RoutesOK, BrokerTypeOK
  <2>3. /\ routes[id].queue[i].n \in routes[id].open + 1 .. sent[id]
        /\ routes[id].open # openAt[id] => routes[id].queue[i].n < openAt[id]
    BY <2>1 DEF StaleOK, StaleParts, RouteFits
  <2>4. QED
    BY <2>2, <2>3
<1>2. Init => IInv /\ \A id \in Id : StaleOK(id)
  BY InitIInv, InitStale
<1>3. (IInv /\ \A id \in Id : StaleOK(id)) /\ [Next]_vars
        => (IInv /\ \A id \in Id : StaleOK(id))'
  BY NextIInv, NextStale
<1>4. QED
  BY <1>1, <1>2, <1>3, PTL DEF Spec

-----------------------------------------------------------------------------
(* The invariant behind NoInputHole.                                       *)

\* The worker has returned from execute_request's wait: forward_input is joined.
Ended == {"exiting", "epilogue", "failing", "finished", "reported"}

\* The route of the first invocation, which has not answered yet.
First(id) == Active(id) /\ routes[id].open = 1 /\ routes[id].stdin # "done"
Taking(id) == First(id) /\ routes[id].input

\* The first Open is still queued.
FirstQueued(id) == \E f \in Queued(id) : f.n = 1

\* Frame n is the broker's own Cancel, or was dropped together with all input
\* after it: behind the shim's Cancel there is none, an overload is announced
\* before it is popped, and the end of the channel lets none arrive.
Cut(id, n) ==
  \/ n = cancelAt[id]
  \/ sending[id] = "eof" /\ \A f \in Queued(id) : f.n > n => f.kind = "Cancel"
  \/ mode[id] = "overloaded" /\ \A f \in At(events[id]) : f.n < n
  \/ ~reading /\ \A f \in Queued(id) : f.n < n

\* Every frame sent after frame from is queued or cut off.
Reaches(id, from) ==
  /\ from <= sent[id]
  /\ \A f \in Queued(id) : from < f.n
  /\ \A n \in from + 1 .. sent[id] : (\E f \in Queued(id) : f.n = n) \/ Cut(id, n)
  /\ \A f \in Queued(id) :
       (f.kind = "Cancel" /\ f.n # cancelAt[id]) =>
         sending[id] = "eof" /\ \A g \in Queued(id) : g.n > f.n => g.kind = "Cancel"

\* The stream of any number of invocations.
StreamInOrder(id) ==
  /\ FramesInOrder(id)
  /\ \A f \in Queued(id) : f.n <= sent[id] /\ f.n > 0
  /\ opens[id] > 0 => sent[id] > 0
  /\ opens[id] >= 2 => ~FirstQueued(id)

WorkerOK(id) ==
  /\ Active(id) /\ routes[id].worker \in Ended => routes[id].stdin = "done"
  /\ First(id) => opens[id] = 1 /\ answers[id] = 0 /\ ~Waits(id, "terminal")

LoopOK(id) ==
  /\ Waits(id, "await") => loop.n # 1
  /\ Waits(id, "discard") => Active(id) /\ ~routes[id].input

InputReaches(id) ==
  /\ FirstQueued(id) => Reaches(id, 0)
  /\ Taking(id) => Reaches(id, routes[id].fed)

HoleOK(id) == StreamInOrder(id) /\ WorkerOK(id) /\ LoopOK(id) /\ InputReaches(id)

\* Until the first invocation is answered there is no other.
LEMMA FirstStage ==
  ASSUME IInv, NEW id \in Id, StaleOK(id), HoleOK(id), First(id) \/ FirstQueued(id)
  PROVE  /\ opens[id] = 1 /\ answers[id] = 0 /\ sending[id] # "idle" /\ StaleParts(id)
         /\ openAt[id] = 1 /\ ~Over(id)
         /\ FirstQueued(id) => ~Active(id) /\ mode[id] # "announced"
         /\ Taking(id) => mode[id] # "announced"
         /\ First(id) => \A f \in Queued(id) : f.kind # "Open" /\ f.n > 1
<1>1. opens[id] \in Nat /\ answers[id] \in Nat /\ openAt[id] \in Nat /\ sent[id] \in Nat
  BY DEF IInv, BrokerTypeOK
<1>2. opens[id] <= 1
  <2>1. First(id) => opens[id] = 1
    BY DEF HoleOK, WorkerOK
  <2>2. FirstQueued(id) => ~ (opens[id] >= 2)
    BY DEF HoleOK, StreamInOrder
  <2>3. QED
    BY <1>1, <2>1, <2>2
<1>3. StaleParts(id)
  BY <1>1, <1>2 DEF StaleOK
<1>4. opens[id] = 1
  <2>1. CASE First(id)
    BY <2>1 DEF HoleOK, WorkerOK
  <2>2. CASE FirstQueued(id)
    <3>1. opens[id] # 0
      BY <1>3, <2>2 DEF StaleParts, StreamOK, FirstQueued
    <3>2. QED
      BY <1>1, <1>2, <3>1
  <2>3. QED
    BY <2>1, <2>2
<1>5. openAt[id] = 1 /\ (sending[id] = "idle" => answers[id] > 0)
  BY <1>3, <1>4 DEF StaleParts, StreamOK
<1>6. answers[id] = 0 /\ ~Waits(id, "terminal")
  <2>1. CASE First(id)
    BY <2>1 DEF HoleOK, WorkerOK
  <2>2. CASE FirstQueued(id)
    <3>1. ~Over(id)
      BY <1>3, <2>2 DEF StaleParts, AnsweredOK, FirstQueued
    <3>2. QED
      BY <1>1, <3>1 DEF Over
  <2>3. QED
    BY <2>1, <2>2
<1>7. ~Over(id)
  BY <1>1, <1>4, <1>6 DEF Over
<1>8. Active(id) => /\ routes[id].open = 1 /\ \A f \in Queued(id) : f.n > 1
                    /\ mode[id] = "announced" => ~routes[id].input
  BY <1>3, <1>5 DEF StaleParts, RouteFits
<1>9. FirstQueued(id) => ~Active(id)
  BY <1>8 DEF FirstQueued
<1>10. FirstQueued(id) => mode[id] # "announced"
  <2> SUFFICES ASSUME NEW f \in Queued(id), f.n = 1 PROVE mode[id] # "announced"
    BY DEF FirstQueued
  <2>1. f \in At(events[id])
    BY <1>3 DEF StaleParts, StreamOK, Queued
  <2>2. events[id] # <<>>
    BY <2>1, EmptySeq DEF At
  <2>3. QED
    BY <2>2 DEF IInv, QInv, NoLeakedQueue
<1>11. Taking(id) => mode[id] # "announced"
  BY <1>8 DEF Taking, First
<1>12. First(id) => \A f \in Queued(id) : f.kind # "Open" /\ f.n > 1
  <2>1. \A f \in Queued(id) : f.kind = "Open" => f.n = 1
    BY <1>3, <1>5 DEF StaleParts, StreamOK
  <2>2. QED
    BY <1>8, <2>1 DEF First
<1>13. QED
  BY <1>3, <1>4, <1>5, <1>6, <1>7, <1>9, <1>10, <1>11, <1>12

\* The step keeps the route of the first invocation, or ends its input.
FirstGoesOn(id) ==
  /\ First(id)' => /\ First(id) /\ answers'[id] = answers[id]
                   /\ routes'[id].input => routes[id].input
                   /\ Waits(id, "terminal")' => Waits(id, "terminal")
  /\ Active(id)' /\ routes'[id].worker \in Ended => routes'[id].stdin = "done"
  /\ Active(id) /\ Active(id)' => routes'[id].fed = routes[id].fed

\* The broker sends nothing under the ID.
NothingSent(id) ==
  /\ sent'[id] = sent[id] /\ opens'[id] = opens[id] /\ cancelAt'[id] = cancelAt[id]
  /\ sending'[id] = sending[id] \/ (sending'[id] = "idle" /\ answers[id] > 0)

\* Frames that leave the queue are cut off, and what was cut off stays so.
Loses(id) ==
  /\ \A f \in Queued(id) : f \in Queued(id)' \/ Cut(id, f.n)'
  /\ reading' => reading
  /\ mode[id] = "overloaded" => mode'[id] = "overloaded"

Quiet(id) ==
  /\ Shrinks(id) /\ NothingSent(id) /\ FirstGoesOn(id) /\ LoopOK(id)'
  /\ Taking(id)' \/ FirstQueued(id)' => Loses(id)

\* The input of the first child goes on where it stopped.
FedInTurn(id) ==
  (/\ FirstInvocation(routes[id]) /\ FirstInvocation(routes'[id])
   /\ routes'[id].fed # routes[id].fed) =>
    \/ routes'[id].fed = routes[id].fed + 1
    \/ routes'[id].fed = routes[id].fed + 2 /\ cancelAt[id] = routes[id].fed + 1

\* What is cut off or queued stays so while the queue only loses what is cut off.
LEMMA ReachesOn ==
  ASSUME IInv, NEW id \in Id, NEW from \in Nat, Reaches(id, from), Shrinks(id),
         sent'[id] = sent[id], cancelAt'[id] = cancelAt[id], sending'[id] = sending[id],
         Loses(id)
  PROVE  Reaches(id, from)'
<1>1. /\ Queued(id)' \subseteq Queued(id) /\ At(events'[id]) \subseteq At(events[id])
  BY DEF Shrinks, Queued
<1>2. sent[id] \in Nat
  BY DEF IInv, BrokerTypeOK
<1>3. \A n : Cut(id, n) => Cut(id, n)'
  BY <1>1 DEF Cut, Loses
<1>4. ASSUME NEW n \in from + 1 .. sent[id]
      PROVE  (\E f \in Queued(id)' : f.n = n) \/ Cut(id, n)'
  BY <1>3 DEF Reaches, Loses
<1>5. \A f \in Queued(id)' :
        (f.kind = "Cancel" /\ f.n # cancelAt[id]) =>
          sending[id] = "eof" /\ \A g \in Queued(id)' : g.n > f.n => g.kind = "Cancel"
  BY <1>1 DEF Reaches
<1>6. from <= sent[id] /\ \A f \in Queued(id)' : from < f.n
  BY <1>1 DEF Reaches
<1>7. QED
  BY <1>4, <1>5, <1>6 DEF Reaches

\* A quiet step keeps the invariant of the request, and feeds its child nothing.
LEMMA QuietKeeps ==
  ASSUME IInv, IInv', NEW id \in Id, StaleOK(id), HoleOK(id), Quiet(id)
  PROVE  HoleOK(id)' /\ FedInTurn(id)
<1>1. /\ Shrinks(id) /\ NothingSent(id) /\ FirstGoesOn(id) /\ LoopOK(id)'
      /\ Taking(id)' \/ FirstQueued(id)' => Loses(id)
  BY DEF Quiet
<1>2. Queued(id)' \subseteq Queued(id) /\ FramesInOrder(id)'
  BY <1>1 DEF Shrinks, Queued
<1>3. FirstQueued(id)' => FirstQueued(id)
  BY <1>2 DEF FirstQueued
<1>4. StreamInOrder(id)'
  BY <1>1, <1>2, <1>3 DEF HoleOK, StreamInOrder, NothingSent
<1>5. WorkerOK(id)'
  BY <1>1 DEF HoleOK, WorkerOK, NothingSent, FirstGoesOn
<1>6. Taking(id)' => Taking(id) /\ routes'[id].fed = routes[id].fed
  BY <1>1 DEF FirstGoesOn, Taking, First
<1>7. Taking(id)' \/ FirstQueued(id)' =>
        /\ sent'[id] = sent[id] /\ cancelAt'[id] = cancelAt[id] /\ sending'[id] = sending[id]
        /\ Loses(id)
  <2> SUFFICES ASSUME First(id) \/ FirstQueued(id)
               PROVE  sending'[id] = sending[id]
    BY <1>1, <1>3, <1>6 DEF NothingSent, Taking
  <2>1. answers[id] = 0
    BY FirstStage
  <2>2. QED
    BY <1>1, <2>1 DEF NothingSent
<1>8. InputReaches(id)'
  <2>1. FirstQueued(id)' => Reaches(id, 0)'
    BY <1>1, <1>3, <1>7, ReachesOn DEF HoleOK, InputReaches
  <2>2. Taking(id) => routes[id].fed \in Nat
    BY ActiveIsRoute DEF Taking, First, Route, IInv
  <2>3. Taking(id)' => Reaches(id, routes[id].fed)'
    <3> SUFFICES ASSUME Taking(id)' PROVE Reaches(id, routes[id].fed)'
      OBVIOUS
    <3>1. PICK from \in Nat : from = routes[id].fed
      BY <1>6, <2>2
    <3>2. Reaches(id, from) /\ routes'[id].fed = from
      BY <1>6, <3>1 DEF HoleOK, InputReaches
    <3>3. Reaches(id, from)'
      BY <1>1, <1>7, <3>2, ReachesOn
    <3>4. QED
      BY <3>2, <3>3 DEF Reaches, Cut
  <2>4. QED
    BY <2>1, <2>3 DEF InputReaches
<1>9. FedInTurn(id)
  BY <1>1 DEF FedInTurn, FirstInvocation, FirstGoesOn, Active
<1>10. QED
  BY <1>1, <1>4, <1>5, <1>8, <1>9 DEF HoleOK

\* Neither the queue of the request changes nor what the reader may add to it.
LEMMA AloneQuiet ==
  ASSUME NEW id \in Id, HoleOK(id), events'[id] = events[id], retained'[id] = retained[id],
         mode'[id] = mode[id], reading' => reading
  PROVE  Shrinks(id) /\ Loses(id)
<1>1. Shrinks(id)
  BY OtherQueue DEF HoleOK, StreamInOrder, Thins
<1>2. Loses(id)
  BY DEF Loses, Queued
<1>3. QED
  BY <1>1, <1>2

\* The broker's side of the request is as it was.
LEMMA StreamQuiet ==
  ASSUME NEW id \in Id, sent'[id] = sent[id], opens'[id] = opens[id],
         cancelAt'[id] = cancelAt[id], sending'[id] = sending[id]
  PROVE  NothingSent(id)
  BY DEF NothingSent

\* The route is as it was, or gone.
LEMMA RouteQuiet ==
  ASSUME NEW id \in Id, HoleOK(id), routes'[id] = routes[id] \/ routes'[id] = NoRoute,
         First(id)' => answers'[id] = answers[id],
         Waits(id, "terminal")' => Waits(id, "terminal") \/ ~First(id)'
  PROVE  FirstGoesOn(id)
<1>1. CASE routes'[id] = routes[id]
  BY <1>1 DEF FirstGoesOn, First, Active, HoleOK, WorkerOK
<1>2. CASE routes'[id] = NoRoute
  BY <1>2 DEF FirstGoesOn, First, Active
<1>3. QED
  BY <1>1, <1>2

\* The loop waits for nothing of the request.
LEMMA LoopQuiet ==
  ASSUME NEW id \in Id, loop'.pc \notin {"await", "discard"} \/ loop'.id # id
  PROVE  LoopOK(id)'
  BY DEF LoopOK, Waits

\* A worker goes on: it keeps its invocation and what it was fed, its input is not
\* opened again, and it is past its child only with forward_input joined.
Runs(r, s) ==
  /\ s.worker # "none" /\ s.open = r.open /\ s.fed = r.fed
  /\ s.input => r.input
  /\ r.stdin = "done" => s.stdin = "done"
  /\ s.worker \in Ended => s.stdin = "done"

\* Such a step is quiet for every request, and answers only what is past its child.
LEMMA WorkerQuiet ==
  ASSUME IInv, NEW id \in Id, HoleOK(id), NEW w \in Id, NEW from, NEW new,
         Worker(w, from, new), Runs(routes[w], new),
         \/ answers' = answers
         \/ answers' = [answers EXCEPT ![w] = @ + 1] /\ routes[w].stdin = "done"
  PROVE  Quiet(id)
<1>1. /\ Active(w) /\ routes' = [routes EXCEPT ![w] = new]
      /\ UNCHANGED <<queueVars, sent, opens, sending, cancelAt, loop>>
  BY DEF Worker
<1>2. Shrinks(id) /\ Loses(id)
  BY <1>1, AloneQuiet DEF queueVars, requestVars
<1>3. NothingSent(id)
  BY <1>1, StreamQuiet
<1>4. answers \in [Id -> Nat] /\ routes \in [Id -> Route \cup {NoRoute}]
  BY DEF IInv, BrokerTypeOK, RoutesOK
<1>5. Waits(id, "terminal")' => Waits(id, "terminal")
  BY <1>1 DEF Waits
<1>6. CASE w # id
  <2>1. routes'[id] = routes[id] /\ answers'[id] = answers[id]
    BY <1>1, <1>4, <1>6
  <2>2. FirstGoesOn(id)
    BY <1>5, <2>1, RouteQuiet
  <2>3. LoopOK(id)'
    BY <1>1, <2>1 DEF HoleOK, LoopOK, Waits, Active
  <2>4. QED
    BY <1>2, <1>3, <2>2, <2>3 DEF Quiet
<1>7. CASE w = id
  <2>1. routes'[id] = new /\ Active(id) /\ Runs(routes[id], new)
    BY <1>1, <1>4, <1>7
  <2>2. new # NoRoute
    BY DEF Runs, NoRoute
  <2>3. First(id)' => First(id) /\ answers'[id] = answers[id]
    BY <1>7, <2>1 DEF First, Runs
  <2>4. FirstGoesOn(id)
    BY <1>5, <2>1, <2>3 DEF FirstGoesOn, Runs
  <2>5. LoopOK(id)'
    BY <1>1, <2>1, <2>2 DEF HoleOK, LoopOK, Waits, Runs, Active
  <2>6. QED
    BY <1>2, <1>3, <2>4, <2>5 DEF Quiet
<1>8. QED
  BY <1>6, <1>7

\* Every step of execute_request, of its threads and its child is quiet.
LEMMA WorkerStepQuiet ==
  ASSUME IInv, NEW id \in Id, HoleOK(id), NEW w \in Id, HoleOK(w),
         \/ WorkerStep(w)
         \/ ChildReads(w) \/ ChildClosesStdin(w) \/ ChildExits(w) \/ OutputSaturates(w)
  PROVE  Quiet(id)
<1> DEFINE r == routes[w]
<1>1. Active(w)
  BY DEF WorkerStep, StartChild, TakeInput, CountInput, KillChild, EndInput, CollectChild,
     ExitCommitted, TakeError, ErrorCommitted, Report, ChildReads, ChildClosesStdin,
     ChildExits, OutputSaturates, Worker
<1>2. r \in Route /\ (r.worker = "starting" => r.stdin = "idle")
  BY <1>1, ActiveIsRoute DEF IInv, RoutesOK, RouteOK
<1>3. r.worker \in Ended => r.stdin = "done"
  BY <1>1 DEF HoleOK, WorkerOK
<1>4. ASSUME NEW from, NEW new, Worker(w, from, new) PROVE r.worker = from
  BY <1>4 DEF Worker
<1>5. CASE StartChild(w)
  <2>1. answers' = answers
    BY <1>5 DEF StartChild, Unanswered
  <2>2. PICK new \in {[r EXCEPT !.worker = "running"],
                      [r EXCEPT !.worker = "epilogue", !.stdin = "done", !.error = TRUE]} :
          Worker(w, "starting", new)
    BY <1>5 DEF StartChild
  <2>3. r.stdin = "idle"
    BY <1>2, <1>4, <2>2
  <2>4. Runs(r, new)
    BY <1>2, <2>2, <2>3 DEF Runs, Route, Ended
  <2>5. QED
    BY <2>1, <2>2, <2>4, WorkerQuiet
<1>6. CASE TakeInput(w)
  <2>1. answers' = answers /\ r.stdin = "idle"
    BY <1>6 DEF TakeInput, Unanswered
  <2>2. PICK new, v : Worker(w, "running", new) /\ new = [r EXCEPT !.queue = Tail(@), !.stdin = v]
    BY <1>6 DEF TakeInput
  <2>3. r.worker = "running"
    BY <1>4, <2>2
  <2>4. Runs(r, new)
    BY <1>2, <2>1, <2>2, <2>3 DEF Runs, Route, Ended
  <2>5. QED
    BY <2>1, <2>2, <2>4, WorkerQuiet
<1>7. CASE CountInput(w)
  <2>1. answers' = answers /\ r.stdin # "done"
    BY <1>7 DEF CountInput, Unanswered
  <2>2. PICK new, v : /\ Worker(w, r.worker, new)
                      /\ new = [r EXCEPT !.pending = r.pending - 1, !.stdin = v]
    BY <1>7 DEF CountInput
  <2>3. Runs(r, new)
    BY <1>2, <1>3, <2>1, <2>2 DEF Runs, Route, WorkerState
  <2>4. QED
    BY <2>1, <2>2, <2>3, WorkerQuiet
<1>8. CASE KillChild(w)
  <2> DEFINE new == [r EXCEPT !.worker = "exited", !.cancelled = TRUE]
  <2>1. Worker(w, "running", new) /\ answers' = answers
    BY <1>8 DEF KillChild, Unanswered
  <2>2. Runs(r, new)
    BY <1>2 DEF Runs, Route, Ended
  <2>3. QED
    BY <2>1, <2>2, WorkerQuiet
<1>9. CASE EndInput(w)
  <2> DEFINE new == [r EXCEPT !.stdin = "done"]
  <2>1. Worker(w, r.worker, new) /\ answers' = answers
    BY <1>9 DEF EndInput, Unanswered
  <2>2. Runs(r, new)
    BY <1>2 DEF Runs, Route, WorkerState
  <2>3. QED
    BY <2>1, <2>2, WorkerQuiet
<1>10. CASE CollectChild(w)
  <2>1. answers' = answers /\ r.stdin = "done"
    BY <1>10 DEF CollectChild, Unanswered
  <2>2. PICK new : Worker(w, "exited", new) /\ new \in
          {[r EXCEPT !.worker = "epilogue"],
           [r EXCEPT !.worker = "exiting", !.retiring = TRUE],
           [r EXCEPT !.worker = "epilogue", !.error = TRUE],
           [r EXCEPT !.worker = "finished", !.ok = FALSE]}
    BY <1>10, Zenon DEF CollectChild
  <2>3. Runs(r, new)
    BY <1>2, <2>1, <2>2 DEF Runs, Route, Ended
  <2>4. QED
    BY <2>1, <2>2, <2>3, WorkerQuiet
<1>11. CASE ExitCommitted(w)
  <2> PICK written \in BOOLEAN :
        /\ Worker(w, "exiting", [r EXCEPT !.worker = "epilogue", !.ok = written])
        /\ Answered(w, written)
    BY <1>11 DEF ExitCommitted
  <2> DEFINE new == [r EXCEPT !.worker = "epilogue", !.ok = written]
  <2>1. /\ Worker(w, "exiting", new)
        /\ answers' = answers \/ answers' = [answers EXCEPT ![w] = @ + 1]
    BY DEF Answered
  <2>2. r.stdin = "done"
    BY <1>3, <1>4, <2>1 DEF Ended
  <2>3. Runs(r, new)
    BY <1>2, <2>2 DEF Runs, Route, Ended
  <2>4. QED
    BY <2>1, <2>2, <2>3, WorkerQuiet
<1>12. CASE TakeError(w)
  <2> DEFINE state == IF r.error THEN "failing" ELSE "finished"
             new == [r EXCEPT !.worker = state, !.error = FALSE, !.retiring = TRUE]
  <2>1. Worker(w, "epilogue", new) /\ answers' = answers
    BY <1>12 DEF TakeError, Unanswered
  <2>2. r.stdin = "done"
    BY <1>3, <1>4, <2>1 DEF Ended
  <2>3. Runs(r, new)
    BY <1>2, <2>2 DEF Runs, Route, Ended
  <2>4. QED
    BY <2>1, <2>3, WorkerQuiet
<1>13. CASE ErrorCommitted(w)
  <2> PICK written \in BOOLEAN :
        /\ Worker(w, "failing", [r EXCEPT !.worker = "finished", !.ok = written])
        /\ Answered(w, written)
    BY <1>13 DEF ErrorCommitted
  <2> DEFINE new == [r EXCEPT !.worker = "finished", !.ok = written]
  <2>1. /\ Worker(w, "failing", new)
        /\ answers' = answers \/ answers' = [answers EXCEPT ![w] = @ + 1]
    BY DEF Answered
  <2>2. r.stdin = "done"
    BY <1>3, <1>4, <2>1 DEF Ended
  <2>3. Runs(r, new)
    BY <1>2, <2>2 DEF Runs, Route, Ended
  <2>4. QED
    BY <2>1, <2>2, <2>3, WorkerQuiet
<1>14. CASE Report(w)
  <2> DEFINE new == [r EXCEPT !.worker = "reported"]
  <2>1. Worker(w, "finished", new) /\ answers' = answers
    BY <1>14 DEF Report
  <2>2. r.stdin = "done"
    BY <1>3, <1>4, <2>1 DEF Ended
  <2>3. Runs(r, new)
    BY <1>2, <2>2 DEF Runs, Route, Ended
  <2>4. QED
    BY <2>1, <2>3, WorkerQuiet
<1>15. CASE ChildReads(w) \/ ChildClosesStdin(w)
  <2>1. r.stdin = "busy" /\ answers' = answers
    BY <1>15 DEF ChildReads, ChildClosesStdin, Unanswered
  <2>2. PICK new \in {[r EXCEPT !.stdin = "idle"], [r EXCEPT !.stdin = "done"]} :
          Worker(w, "running", new)
    BY <1>15 DEF ChildReads, ChildClosesStdin
  <2>3. r.worker = "running"
    BY <1>4, <2>2
  <2>4. Runs(r, new)
    BY <1>2, <2>1, <2>2, <2>3 DEF Runs, Route, Ended
  <2>5. QED
    BY <2>1, <2>2, <2>4, WorkerQuiet
<1>16. CASE ChildExits(w)
  <2> DEFINE new == [r EXCEPT !.worker = "exited"]
  <2>1. Worker(w, "running", new) /\ answers' = answers
    BY <1>16 DEF ChildExits, Unanswered
  <2>2. Runs(r, new)
    BY <1>2 DEF Runs, Route, Ended
  <2>3. QED
    BY <2>1, <2>2, WorkerQuiet
<1>17. CASE OutputSaturates(w)
  <2> DEFINE new == [r EXCEPT !.cancelled = TRUE, !.error = TRUE]
  <2>1. answers' = answers
    BY <1>17 DEF OutputSaturates, Unanswered
  <2>2. PICK from \in {"running", "exited"} : Worker(w, from, new)
    BY <1>17 DEF OutputSaturates
  <2>3. r.worker = from
    BY <1>4, <2>2
  <2>4. Runs(r, new)
    BY <1>2, <2>3 DEF Runs, Route, Ended
  <2>5. QED
    BY <2>1, <2>2, <2>4, WorkerQuiet
<1>18. QED
  BY <1>5, <1>6, <1>7, <1>8, <1>9, <1>10, <1>11, <1>12, <1>13, <1>14, <1>15, <1>16, <1>17
     DEF WorkerStep

\* A route that goes on with its invocation.
LEMMA RunsQuiet ==
  ASSUME NEW id \in Id, Active(id), Runs(routes[id], routes'[id]),
         First(id)' => answers'[id] = answers[id],
         Waits(id, "terminal")' => Waits(id, "terminal") \/ ~First(id)'
  PROVE  FirstGoesOn(id)
  BY DEF FirstGoesOn, Runs, First, HoleOK, WorkerOK

\* A cancelled route takes no input any more.
LEMMA CancelledRuns ==
  ASSUME IInv, NEW id \in Id, HoleOK(id), Active(id), NEW new,
         \/ new = [routes[id] EXCEPT !.cancelled = TRUE, !.input = FALSE]
         \/ new = [routes[id] EXCEPT !.retiring = TRUE, !.error = TRUE,
                                     !.cancelled = TRUE, !.input = FALSE]
  PROVE  Runs(routes[id], new) /\ new.input = FALSE /\ new # NoRoute
<1>1. routes[id] \in Route
  BY ActiveIsRoute DEF IInv
<1>2. routes[id].worker \in Ended => routes[id].stdin = "done"
  BY DEF HoleOK, WorkerOK
<1>3. /\ new.worker = routes[id].worker /\ new.open = routes[id].open
      /\ new.fed = routes[id].fed /\ new.stdin = routes[id].stdin /\ new.input = FALSE
  BY <1>1 DEF Route
<1>4. routes[id].worker # "none"
  BY <1>1 DEF Route, WorkerState
<1>5. new # NoRoute
  BY <1>3, <1>4 DEF NoRoute
<1>6. QED
  BY <1>2, <1>3, <1>4, <1>5 DEF Runs

\* Nothing of the request changes but who may still write to it.
LEMMA StillQuiet ==
  ASSUME NEW id \in Id, HoleOK(id), events'[id] = events[id], retained'[id] = retained[id],
         mode'[id] = mode[id], reading' => reading, NothingSent(id),
         routes'[id] = routes[id] \/ routes'[id] = NoRoute,
         First(id)' => answers'[id] = answers[id],
         Waits(id, "terminal")' => Waits(id, "terminal") \/ ~First(id)', LoopOK(id)'
  PROVE  Quiet(id)
  BY AloneQuiet, RouteQuiet DEF Quiet

-----------------------------------------------------------------------------
(* The steps of the main loop.                                             *)

\* The end of the loop, a completion and an owner probe.
LEMMA EndingQuiet ==
  ASSUME IInv, NEW id \in Id, HoleOK(id),
         \/ DrainCompletion \/ StopLoop \/ HandleTransport \/ HandleProbe
         \/ CancelAll \/ JoinAll
  PROVE  Quiet(id)
<1>1. UNCHANGED <<requestVars, brokerVars, reading>>
  BY DEF DrainCompletion, StopLoop, HandleTransport, HandleProbe, CancelAll, JoinAll,
     PopTransport, PopControl, queueVars
<1>2. /\ events'[id] = events[id] /\ retained'[id] = retained[id] /\ mode'[id] = mode[id]
      /\ reading' = reading /\ answers'[id] = answers[id]
      /\ NothingSent(id)
  BY <1>1, StreamQuiet DEF requestVars, brokerVars
<1>3. \/ loop' = loop /\ loop.pc \in {"poll", "await"}
      \/ loop'.pc \in {"ack", "teardown", "join", "stopped"}
  <2>1. CASE DrainCompletion
    <3>1. (loop' = loop \/ GoTo("teardown", NoId)) /\ (LoopAt("poll") \/ LoopAt("await"))
      BY <2>1, Zenon DEF DrainCompletion
    <3>2. QED
      BY <3>1 DEF GoTo, LoopAt
  <2>2. CASE ~DrainCompletion
    <3>1. \E pc \in {"ack", "teardown", "join", "stopped"} : GoTo(pc, NoId)
      BY <2>2, Zenon DEF StopLoop, HandleTransport, HandleProbe, CancelAll, JoinAll
    <3>2. QED
      BY <3>1 DEF GoTo
  <2>3. QED
    BY <2>1, <2>2
<1>4. LoopOK(id)' /\ (Waits(id, "terminal")' => Waits(id, "terminal"))
  BY <1>3 DEF HoleOK, LoopOK, Waits
<1>5. routes \in [Id -> Route \cup {NoRoute}]
  BY DEF IInv, RoutesOK
<1>6. CASE CancelAll /\ Active(id)
  <2> DEFINE new == [routes[id] EXCEPT !.cancelled = TRUE, !.input = FALSE]
  <2>1. routes'[id] = new
    BY <1>6 DEF CancelAll
  <2>2. Runs(routes[id], new)
    BY <1>6, CancelledRuns
  <2>3. FirstGoesOn(id)
    BY <1>2, <1>4, <1>6, <2>1, <2>2, RunsQuiet
  <2>4. QED
    BY <1>2, <1>4, <2>3, AloneQuiet DEF Quiet
<1>7. CASE ~ (CancelAll /\ Active(id))
  <2>1. routes'[id] = routes[id] \/ routes'[id] = NoRoute
    <3>1. CASE StopLoop \/ HandleTransport \/ HandleProbe
      BY <3>1 DEF StopLoop, HandleTransport, HandleProbe
    <3>2. CASE DrainCompletion
      <4>1. routes' = routes \/ \E c : routes' = [routes EXCEPT ![c] = NoRoute]
        BY <3>2 DEF DrainCompletion, Reaped
      <4>2. QED
        BY <1>5, <4>1
    <3>3. CASE CancelAll \/ JoinAll
      BY <1>7, <3>3 DEF CancelAll, JoinAll
    <3>4. QED
      BY <3>1, <3>2, <3>3
  <2>2. QED
    BY <1>2, <1>4, <2>1, StillQuiet
<1>8. QED
  BY <1>6, <1>7

\* The loop's own terminal is not that of the first invocation's route.
LEMMA LoopCommittedQuiet ==
  ASSUME IInv, NEW id \in Id, HoleOK(id), LoopCommitted
  PROVE  Quiet(id)
<1>1. /\ UNCHANGED <<queueVars, sent, opens, sending, cancelAt, routes>>
      /\ answers' = answers
         \/ (loop.pc = "terminal" /\ answers' = [answers EXCEPT ![loop.id] = @ + 1])
  BY DEF LoopCommitted, LoopAt
<1>2. loop' = Poll \/ GoTo("teardown", NoId)
  BY DEF LoopCommitted
<1>3. loop'.pc \in {"poll", "teardown"}
  BY <1>2 DEF Poll, GoTo
<1>4. LoopOK(id)' /\ ~Waits(id, "terminal")'
  BY <1>3 DEF LoopOK, Waits
<1>5. First(id)' => answers'[id] = answers[id]
  <2>1. First(id)' => First(id)
    BY <1>1 DEF First, Active
  <2>2. First(id) => ~ (loop.pc = "terminal" /\ loop.id = id)
    BY DEF HoleOK, WorkerOK, Waits
  <2>3. answers \in [Id -> Nat]
    BY DEF IInv, BrokerTypeOK
  <2>4. QED
    BY <1>1, <2>1, <2>2, <2>3
<1>6. QED
  BY <1>1, <1>4, <1>5, StreamQuiet, StillQuiet DEF queueVars, requestVars

\* An overload drops what its announcement will have cut off, and ends the input
\* of the route it is announced for.
LEMMA HandleOverloadQuiet ==
  ASSUME IInv, NEW id \in Id, StaleOK(id), HoleOK(id), NEW o \in Id, HandleOverload(o)
  PROVE  Quiet(id)
<1> DEFINE new == [routes[o] EXCEPT !.retiring = TRUE, !.error = TRUE,
                                    !.cancelled = TRUE, !.input = FALSE]
<1>1. /\ mode[o] = "overloaded" /\ events'[o] = <<>>
      /\ retained' = retained /\ reading' = reading
      /\ \A x \in Id : events'[x] = events[x] \/ (events'[x] = <<>> /\ mode[x] = "overloaded")
      /\ \A x \in Id \ {o} : mode'[x] = mode[x]
  BY OverloadPopped DEF IInv, HandleOverload
<1>2. loop.pc = "poll" /\ UNCHANGED brokerVars
  BY DEF HandleOverload, Polling, LoopAt
<1>3. Shrinks(id) /\ NothingSent(id) /\ answers'[id] = answers[id]
  <2>1. FramesInOrder(id)
    BY DEF HoleOK, StreamInOrder
  <2>2. QED
    BY <1>1, <1>2, <2>1, EmptiedShrinks, StreamQuiet DEF IInv, brokerVars
<1>4. /\ Active(o) => routes' = [routes EXCEPT ![o] = new] /\ loop' = loop
      /\ ~Active(o) => routes' = routes /\ GoTo("terminal", o)
  BY DEF HandleOverload
<1>5. routes \in [Id -> Route \cup {NoRoute}]
  BY DEF IInv, RoutesOK
<1>6. LoopOK(id)'
  BY <1>2, <1>4 DEF LoopOK, Waits, GoTo
<1>7. CASE o # id
  <2>1. routes'[id] = routes[id] /\ (Waits(id, "terminal")' => Waits(id, "terminal"))
    BY <1>4, <1>5, <1>7 DEF Waits, GoTo
  <2>2. FirstGoesOn(id)
    BY <1>3, <2>1, RouteQuiet
  <2>3. mode'[id] = mode[id] /\ retained'[id] = retained[id]
    BY <1>1, <1>7
  <2>4. ASSUME NEW f \in Queued(id) PROVE f \in Queued(id)' \/ Cut(id, f.n)'
    <3>1. CASE events'[id] = events[id]
      BY <2>3, <3>1 DEF Queued
    <3>2. CASE events'[id] = <<>> /\ mode[id] = "overloaded"
      <4>1. At(events'[id]) = {}
        BY <3>2, EmptySeq DEF At
      <4>2. QED
        BY <2>3, <3>2, <4>1 DEF Cut
    <3>3. QED
      BY <1>1, <3>1, <3>2
  <2>5. Loses(id)
    BY <1>1, <2>3, <2>4 DEF Loses
  <2>6. QED
    BY <1>3, <1>6, <2>2, <2>5 DEF Quiet
<1>8. CASE o = id
  <2>1. FirstGoesOn(id) /\ ~Taking(id)'
    <3>1. CASE Active(id)
      <4>1. routes'[id] = new
        BY <1>4, <1>5, <1>8, <3>1
      <4>2. Runs(routes[id], new) /\ new.input = FALSE
        BY <1>8, <3>1, CancelledRuns
      <4>3. Waits(id, "terminal")' => Waits(id, "terminal")
        BY <1>4, <1>8, <3>1 DEF Waits
      <4>4. QED
        BY <1>3, <3>1, <4>1, <4>2, <4>3, RunsQuiet DEF Taking
    <3>2. CASE ~Active(id)
      <4>1. routes'[id] = routes[id] /\ ~First(id)'
        BY <1>4, <1>8, <3>2 DEF First, Active
      <4>2. QED
        BY <4>1, RouteQuiet DEF Taking
    <3>3. QED
      BY <3>1, <3>2
  <2>2. ~FirstQueued(id)'
    <3>1. At(events'[id]) = {}
      BY <1>1, <1>8, EmptySeq DEF At
    <3>2. FirstQueued(id)' => \E f \in At(retained[id]) : f.n = 1
      BY <1>1, <3>1 DEF FirstQueued, Queued
    <3>3. FirstQueued(id) => StaleParts(id)
      BY FirstStage
    <3>4. FirstQueued(id) => \A f \in At(retained[id]) : f.n # 1
      BY <3>3 DEF StaleParts, StreamOK
    <3>5. QED
      BY <3>2, <3>4 DEF FirstQueued, Queued
  <2>3. QED
    BY <1>3, <1>6, <2>1, <2>2 DEF Quiet
<1>9. QED
  BY <1>7, <1>8

\* A Cancel, a discard or a pop of another request leaves this one's queue alone.
LEMMA OthersAlone ==
  ASSUME QInv, NEW id \in Id, NEW c \in Id \ {id}, NEW f, NEW gate,
         PopCancel(c, f) \/ DiscardRequestInput(c) \/ PopReady(c, f, gate)
  PROVE  /\ events'[id] = events[id] /\ retained'[id] = retained[id]
         /\ mode'[id] = mode[id] /\ reading' = reading
<1>1. /\ events' = events \/ \E s : events' = [events EXCEPT ![c] = s]
      /\ retained' = retained \/ \E s : retained' = [retained EXCEPT ![c] = s]
      /\ mode' = mode \/ \E m : mode' = [mode EXCEPT ![c] = m]
      /\ reading' = reading
  <2>1. CASE PopCancel(c, f)
    BY <2>1, Zenon DEF PopCancel
  <2>2. CASE DiscardRequestInput(c)
    BY <2>2, Zenon DEF DiscardRequestInput
  <2>3. CASE PopReady(c, f, gate)
    BY <2>3, Zenon DEF PopReady
  <2>4. QED
    BY <2>1, <2>2, <2>3
<1>2. events'[id] = events[id] /\ retained'[id] = retained[id] /\ mode'[id] = mode[id]
  BY <1>1 DEF QInv, QueueTypeOK
<1>3. QED
  BY <1>1, <1>2

\* The Cancel is the only frame that leaves.
LEMMA CancelLeaves ==
  ASSUME QInv, NEW id \in Id, FramesInOrder(id), NEW f, PopCancel(id, f)
  PROVE  /\ f \in Queued(id) /\ f.kind = "Cancel" /\ mode[id] # "overloaded"
         /\ \A g \in Queued(id) : g = f \/ g \in Queued(id)'
<1>1. /\ events \in [Id -> Seq(Frame)] /\ retained \in [Id -> Seq(Frame)]
      /\ Ascending(events[id]) /\ Ascending(retained[id]) /\ mode[id] # "overloaded"
  BY DEF QInv, QueueTypeOK, FramesInOrder, PopCancel
<1>2. CASE \E i \in DOMAIN events[id] :
             /\ IsFirst(events[id], i, LAMBDA e : e.kind = "Cancel")
             /\ f = events[id][i]
             /\ events' = [events EXCEPT ![id] = Drop(@, i)]
             /\ UNCHANGED retained
  <2>1. PICK i \in DOMAIN events[id] :
          /\ IsFirst(events[id], i, LAMBDA e : e.kind = "Cancel")
          /\ f = events[id][i]
          /\ events' = [events EXCEPT ![id] = Drop(@, i)] /\ UNCHANGED retained
    BY <1>2
  <2>2. f.kind = "Cancel" /\ f \in At(events[id])
    BY <2>1 DEF IsFirst, At
  <2>3. events'[id] = Drop(events[id], i) /\ retained'[id] = retained[id]
    BY <1>1, <2>1
  <2>4. At(events[id]) \subseteq At(events'[id]) \cup {f}
    BY <1>1, <2>1, <2>3, DropAscending
  <2>5. QED
    BY <1>1, <2>2, <2>3, <2>4 DEF Queued
<1>3. CASE /\ \E i \in DOMAIN retained[id] :
                /\ IsFirst(retained[id], i, LAMBDA e : e.kind = "Cancel")
                /\ f = retained[id][i]
                /\ retained' = [retained EXCEPT ![id] = Drop(@, i)]
           /\ UNCHANGED events
  <2>1. PICK i \in DOMAIN retained[id] :
          /\ IsFirst(retained[id], i, LAMBDA e : e.kind = "Cancel")
          /\ f = retained[id][i]
          /\ retained' = [retained EXCEPT ![id] = Drop(@, i)] /\ UNCHANGED events
    BY <1>3
  <2>2. f.kind = "Cancel" /\ f \in At(retained[id])
    BY <2>1 DEF IsFirst, At
  <2>3. retained'[id] = Drop(retained[id], i) /\ events'[id] = events[id]
    BY <1>1, <2>1
  <2>4. At(retained[id]) \subseteq At(retained'[id]) \cup {f}
    BY <1>1, <2>1, <2>3, DropAscending
  <2>5. QED
    BY <1>1, <2>2, <2>3, <2>4 DEF Queued
<1>4. QED
  BY <1>2, <1>3 DEF PopCancel

\* A Cancel ends the input of its route. Without a route it is either the broker's
\* own, or the shim's, behind which there is no input.
LEMMA HandleCancelQuiet ==
  ASSUME IInv, NEW id \in Id, StaleOK(id), HoleOK(id), NEW c \in Id, HandleCancel(c)
  PROVE  Quiet(id)
<1> DEFINE new == [routes[c] EXCEPT !.cancelled = TRUE, !.input = FALSE]
<1>1. PICK f : PopCancel(c, f)
  BY DEF HandleCancel
<1>2. /\ loop.pc = "poll" /\ UNCHANGED brokerVars
      /\ Active(c) => routes' = [routes EXCEPT ![c] = new] /\ GoTo("discard", c)
      /\ ~Active(c) => routes' = routes /\ loop' = loop
  BY DEF HandleCancel, Polling, LoopAt
<1>3. routes \in [Id -> Route \cup {NoRoute}] /\ QInv /\ FramesInOrder(id)
  BY DEF IInv, RoutesOK, HoleOK, StreamInOrder
<1>4. NothingSent(id) /\ answers'[id] = answers[id] /\ ~Waits(id, "terminal")'
  BY <1>2, StreamQuiet DEF brokerVars, Waits, GoTo
<1>5. CASE c # id
  <2>1. /\ events'[id] = events[id] /\ retained'[id] = retained[id]
        /\ mode'[id] = mode[id] /\ reading' = reading
    BY <1>1, <1>3, <1>5, OthersAlone
  <2>2. routes'[id] = routes[id] /\ LoopOK(id)'
    BY <1>2, <1>3, <1>5 DEF LoopOK, Waits, GoTo
  <2>3. QED
    BY <1>4, <2>1, <2>2, StillQuiet
<1>6. CASE c = id
  <2>1. /\ f \in Queued(id) /\ f.kind = "Cancel" /\ mode[id] # "overloaded"
        /\ \A g \in Queued(id) : g = f \/ g \in Queued(id)'
    BY <1>1, <1>3, <1>6, CancelLeaves
  <2>2. Shrinks(id) /\ reading' = reading
    BY <1>1, <1>3, PopCancelThins DEF Thins, PopCancel
  <2>3. FirstGoesOn(id) /\ ~Taking(id)' /\ LoopOK(id)'
    <3>1. CASE Active(id)
      <4>1. routes'[id] = new /\ GoTo("discard", id)
        BY <1>2, <1>3, <1>6, <3>1
      <4>2. Runs(routes[id], new) /\ new.input = FALSE /\ new # NoRoute
        BY <1>6, <3>1, CancelledRuns
      <4>3. FirstGoesOn(id)
        BY <1>4, <3>1, <4>1, <4>2, RunsQuiet
      <4>4. LoopOK(id)'
        BY <4>1, <4>2 DEF LoopOK, Waits, GoTo, Active
      <4>5. QED
        BY <4>1, <4>2, <4>3, <4>4 DEF Taking
    <3>2. CASE ~Active(id)
      <4>1. routes'[id] = routes[id] /\ ~First(id)'
        BY <1>2, <1>6, <3>2 DEF First, Active
      <4>2. LoopOK(id)'
        BY <1>2, <1>6, <3>2 DEF LoopOK, Waits
      <4>3. QED
        BY <4>1, <4>2, RouteQuiet DEF Taking
    <3>3. QED
      BY <3>1, <3>2
  <2>4. FirstQueued(id)' => Loses(id)
    <3> SUFFICES ASSUME FirstQueued(id)' PROVE Loses(id)
      OBVIOUS
    <3>1. Queued(id)' \subseteq Queued(id)
      BY <2>2 DEF Shrinks, Queued
    <3>2. Reaches(id, 0)
      BY <3>1 DEF FirstQueued, HoleOK, InputReaches
    <3>3. \/ f.n = cancelAt[id]
          \/ sending[id] = "eof" /\ \A g \in Queued(id) : g.n > f.n => g.kind = "Cancel"
      BY <2>1, <3>2 DEF Reaches
    <3>4. cancelAt'[id] = cancelAt[id] /\ sending'[id] = sending[id]
      BY <1>2 DEF brokerVars
    <3>5. Cut(id, f.n)'
      BY <3>1, <3>3, <3>4 DEF Cut
    <3>6. QED
      BY <2>1, <2>2, <3>5 DEF Loses
  <2>5. QED
    BY <1>4, <2>2, <2>3, <2>4 DEF Quiet
<1>7. QED
  BY <1>5, <1>6

\* The discard finds a route whose input has ended.
LEMMA HandleDiscardQuiet ==
  ASSUME IInv, NEW id \in Id, StaleOK(id), HoleOK(id), NEW c \in Id, HandleDiscard(c)
  PROVE  Quiet(id)
<1>1. /\ loop.pc = "discard" /\ loop.id = c /\ loop' = Poll
      /\ UNCHANGED <<brokerVars, routes>>
      /\ UNCHANGED queueVars \/ DiscardRequestInput(c)
  BY DEF HandleDiscard, LoopAt
<1>2. QInv /\ FramesInOrder(id)
  BY DEF IInv, HoleOK, StreamInOrder
<1>3. /\ NothingSent(id) /\ answers'[id] = answers[id] /\ ~Waits(id, "terminal")'
      /\ LoopOK(id)' /\ routes'[id] = routes[id]
  BY <1>1, StreamQuiet DEF brokerVars, Waits, Poll, LoopOK
<1>4. CASE UNCHANGED queueVars
  BY <1>3, <1>4, StillQuiet DEF queueVars, requestVars
<1>5. CASE DiscardRequestInput(c) /\ c # id
  <2>1. /\ events'[id] = events[id] /\ retained'[id] = retained[id]
        /\ mode'[id] = mode[id] /\ reading' = reading
    BY <1>2, <1>5, OthersAlone
  <2>2. QED
    BY <1>3, <2>1, StillQuiet
<1>6. CASE DiscardRequestInput(c) /\ c = id
  <2>1. Shrinks(id)
    BY <1>2, <1>6, DiscardThins DEF Thins
  <2>2. Active(id) /\ ~routes[id].input
    BY <1>1, <1>6 DEF HoleOK, LoopOK, Waits
  <2>3. ~Taking(id)'
    BY <1>3, <2>2 DEF Taking
  <2>4. ~FirstQueued(id)'
    <3>1. FirstQueued(id)' => FirstQueued(id)
      BY <2>1 DEF Shrinks, Queued, FirstQueued
    <3>2. QED
      BY <2>2, <3>1, FirstStage
  <2>5. FirstGoesOn(id)
    BY <1>3, RouteQuiet
  <2>6. QED
    BY <1>3, <2>1, <2>3, <2>4, <2>5 DEF Quiet
<1>7. QED
  BY <1>1, <1>4, <1>5, <1>6

\* What is left behind the oldest frame, once that is taken.
LEMMA OldestReaches ==
  ASSUME IInv, NEW id \in Id, NEW from \in Nat, Reaches(id, from), NEW f, Oldest(id, f),
         f.n <= sent[id], UNCHANGED brokerVars, reading' = reading
  PROVE  Reaches(id, f.n)'
<1>1. /\ Shrinks(id) /\ ModeStays(id) /\ f \in Queued(id)
      /\ \A g \in Queued(id) : g = f \/ g \in Queued(id)'
      /\ \A g \in Queued(id)' : f.n < g.n
  BY DEF Oldest
<1>2. Queued(id)' \subseteq Queued(id) /\ At(events'[id]) \subseteq At(events[id])
  BY <1>1 DEF Shrinks, Queued
<1>3. sent[id] \in Nat /\ f.n \in Nat /\ from < f.n
  BY <1>1, FrameOfQueue DEF IInv, BrokerTypeOK, Queued, Reaches
<1>4. sent' = sent /\ cancelAt' = cancelAt /\ sending' = sending
  BY DEF brokerVars
<1>5. \A n : Cut(id, n) => Cut(id, n)'
  BY <1>1, <1>2, <1>4 DEF Cut, ModeStays
<1>6. ASSUME NEW n \in f.n + 1 .. sent[id]
      PROVE  (\E g \in Queued(id)' : g.n = n) \/ Cut(id, n)'
  <2>1. n \in from + 1 .. sent[id] /\ n # f.n
    BY <1>3
  <2>2. (\E g \in Queued(id) : g.n = n) \/ Cut(id, n)
    BY <2>1 DEF Reaches
  <2>3. QED
    BY <1>1, <1>5, <2>1, <2>2
<1>7. \A g \in Queued(id)' :
        (g.kind = "Cancel" /\ g.n # cancelAt[id]) =>
          sending[id] = "eof" /\ \A h \in Queued(id)' : h.n > g.n => h.kind = "Cancel"
  BY <1>2 DEF Reaches
<1>8. QED
  BY <1>1, <1>4, <1>6, <1>7 DEF Reaches

\* Between the frames a child was fed only the broker's own Cancel is missing.
LEMMA OldestInTurn ==
  ASSUME IInv, NEW id \in Id, NEW from \in Nat, Reaches(id, from), NEW f, Oldest(id, f),
         f.n <= sent[id], f.kind # "Cancel"
  PROVE  f.n = from + 1 \/ (f.n = from + 2 /\ cancelAt[id] = from + 1)
<1>1. /\ f \in Queued(id) /\ (mode[id] = "overloaded" => f \in At(events[id]))
      /\ \A g \in Queued(id) : g = f \/ f.n < g.n
  BY DEF Oldest
<1>2. sent[id] \in Nat /\ f.n \in Nat /\ from < f.n /\ cancelAt[id] \in Nat
  BY <1>1, FrameOfQueue DEF IInv, BrokerTypeOK, Queued, Reaches
<1>3. ASSUME NEW n \in from + 1 .. f.n - 1 PROVE n = cancelAt[id]
  <2>1. n \in from + 1 .. sent[id] /\ n < f.n /\ n \in Nat
    BY <1>2
  <2>2. \A g \in Queued(id) : g.n # n
    BY <1>1, <1>2, <2>1, FrameOfQueue DEF Queued, IInv
  <2>3. Cut(id, n)
    BY <2>1, <2>2 DEF Reaches
  <2>4. QED
    BY <1>1, <1>2, <2>1, <2>3 DEF Cut
<1>4. f.n > from + 1 => from + 1 = cancelAt[id]
  <2>1. f.n > from + 1 => from + 1 \in from + 1 .. f.n - 1
    BY <1>2
  <2>2. QED
    BY <1>3, <2>1
<1>5. f.n > from + 2 => from + 2 = cancelAt[id]
  <2>1. f.n > from + 2 => from + 2 \in from + 1 .. f.n - 1
    BY <1>2
  <2>2. QED
    BY <1>3, <2>1
<1>6. QED
  BY <1>2, <1>4, <1>5

\* The oldest frame of a request is taken from its queue.
LEMMA OldestStream ==
  ASSUME IInv, NEW id \in Id, HoleOK(id), NEW f, Oldest(id, f), UNCHANGED brokerVars
  PROVE  StreamInOrder(id)' /\ ~FirstQueued(id)' /\ f.n \in 1 .. sent[id]
<1>1. /\ f \in Queued(id) /\ Shrinks(id) /\ \A g \in Queued(id)' : f.n < g.n
      /\ StreamInOrder(id)
  BY DEF Oldest, HoleOK
<1>2. f.n \in Nat /\ f.n > 0 /\ f.n <= sent[id] /\ sent[id] \in Nat
  BY <1>1, FrameOfQueue DEF IInv, BrokerTypeOK, Queued, StreamInOrder
<1>3. ~FirstQueued(id)'
  BY <1>1, <1>2 DEF FirstQueued
<1>4. Queued(id)' \subseteq Queued(id) /\ FramesInOrder(id)' /\ sent' = sent /\ opens' = opens
  BY <1>1 DEF Shrinks, Queued, brokerVars
<1>5. StreamInOrder(id)'
  BY <1>1, <1>3, <1>4 DEF StreamInOrder
<1>6. QED
  BY <1>2, <1>3, <1>5

\* The route with the frame fed to it, unless forward_input has returned.
FedTo(r, f, new) ==
  /\ new.worker = r.worker /\ new.open = r.open /\ new.stdin = r.stdin
  /\ new.input => r.input
  /\ r.stdin = "done" => new.fed = r.fed /\ new.input = FALSE
  /\ r.stdin # "done" => new.fed = f.n

\* What route_input leaves of a route.
LEMMA FedFields ==
  ASSUME NEW r \in Route, NEW f, NEW new, new = Fed(r, f) \/ new = [Fed(r, f) EXCEPT !.input = FALSE]
  PROVE  FedTo(r, f, new)
<1>1. CASE r.stdin = "done"
  <2> DEFINE t == [r EXCEPT !.cancelled = TRUE, !.input = FALSE]
  <2>1. Fed(r, f) = t
    BY <1>1 DEF Fed
  <2>2. /\ t.worker = r.worker /\ t.open = r.open /\ t.stdin = r.stdin
        /\ t.input = FALSE /\ t.fed = r.fed /\ [t EXCEPT !.input = FALSE] = t
    BY DEF Route
  <2> HIDE DEF t
  <2>3. new = t
    BY <2>1, <2>2
  <2>4. QED
    BY <1>1, <2>2, <2>3 DEF FedTo
<1>2. CASE r.stdin # "done"
  <2> DEFINE t == [r EXCEPT !.pending = @ + 1, !.queue = Append(@, f), !.fed = f.n]
             u == [t EXCEPT !.input = FALSE]
  <2>1. Fed(r, f) = t
    BY <1>2 DEF Fed
  <2>2. /\ t.worker = r.worker /\ t.open = r.open /\ t.stdin = r.stdin
        /\ t.input = r.input /\ t.fed = f.n
        /\ u.worker = r.worker /\ u.open = r.open /\ u.stdin = r.stdin
        /\ u.input = FALSE /\ u.fed = f.n
    BY DEF Route
  <2> HIDE DEF t
  <2>3. new = t \/ new = u
    BY <2>1
  <2> HIDE DEF u
  <2>4. QED
    BY <1>2, <2>2, <2>3 DEF FedTo
<1>3. QED
  BY <1>1, <1>2

\* Input is fed to the first child in turn.
LEMMA HandleInputHole ==
  ASSUME IInv, IInv', NEW id \in Id, StaleOK(id), HoleOK(id), NEW c \in Id, NEW f,
         HandleStdin(c, f) \/ HandleStdinEof(c, f)
  PROVE  HoleOK(id)' /\ FedInTurn(id)
<1>1. /\ PopReady(c, f, RequestReady) /\ f.kind # "Cancel"
      /\ loop.pc = "poll" /\ loop' = loop /\ UNCHANGED brokerVars
  BY DEF HandleStdin, HandleStdinEof, PopInput, Polling, LoopAt
<1>2. /\ Active(c) /\ routes[c].input =>
           \E s : /\ s = Fed(routes[c], f) \/ s = [Fed(routes[c], f) EXCEPT !.input = FALSE]
                  /\ routes' = [routes EXCEPT ![c] = s]
      /\ ~ (Active(c) /\ routes[c].input) => routes' = routes
  BY DEF HandleStdin, HandleStdinEof
<1>3. routes \in [Id -> Route \cup {NoRoute}] /\ QInv /\ FramesInOrder(id)
  BY DEF IInv, RoutesOK, HoleOK, StreamInOrder
<1>4. /\ NothingSent(id) /\ answers'[id] = answers[id] /\ ~Waits(id, "terminal")'
      /\ LoopOK(id)' /\ reading' = reading
  BY <1>1, StreamQuiet DEF brokerVars, Waits, LoopOK, PopReady
<1>5. CASE c # id
  <2>1. events'[id] = events[id] /\ retained'[id] = retained[id] /\ mode'[id] = mode[id]
    BY <1>1, <1>3, <1>5, OthersAlone
  <2>2. routes'[id] = routes[id]
    BY <1>2, <1>3, <1>5
  <2>3. QED
    BY <1>4, <2>1, <2>2, StillQuiet, QuietKeeps
<1>6. CASE c = id
  <2>1. Oldest(id, f)
    BY <1>1, <1>3, <1>6, PopReadyOldest
  <2>2. StreamInOrder(id)' /\ ~FirstQueued(id)' /\ f.n \in 1 .. sent[id] /\ Shrinks(id)
    BY <1>1, <2>1, OldestStream DEF Oldest
  <2>3. CASE ~ (Active(id) /\ routes[id].input)
    <3>1. routes'[id] = routes[id] /\ ~Taking(id)'
      BY <1>2, <1>6, <2>3 DEF Taking, First, Active
    <3>2. FirstGoesOn(id)
      BY <1>4, <3>1, RouteQuiet
    <3>3. QED
      BY <1>4, <2>2, <3>1, <3>2, QuietKeeps DEF Quiet
  <2>4. CASE Active(id) /\ routes[id].input
    <3>1. PICK s : /\ s = Fed(routes[id], f) \/ s = [Fed(routes[id], f) EXCEPT !.input = FALSE]
                   /\ routes' = [routes EXCEPT ![id] = s]
      BY <1>2, <1>6, <2>4
    <3>2. routes[id] \in Route
      BY <2>4, ActiveIsRoute DEF IInv
    <3>3. /\ s.worker = routes[id].worker /\ s.open = routes[id].open
          /\ s.stdin = routes[id].stdin
          /\ s.input => routes[id].input
          /\ s.stdin = "done" => s.fed = routes[id].fed /\ s.input = FALSE
          /\ s.stdin # "done" => s.fed = f.n
      <4>1. FedTo(routes[id], f, s)
        BY <3>1, <3>2, FedFields, Zenon
      <4>2. QED
        BY <4>1 DEF FedTo
    <3>4. routes'[id] = s
      <4>1. routes' = [routes EXCEPT ![id] = s]
        BY <3>1, Zenon
      <4>2. QED
        BY <1>3, <4>1
    <3>5. s.worker # "none" /\ (s.worker \in Ended => s.stdin = "done")
      BY <2>4, <3>2, <3>3 DEF HoleOK, WorkerOK, Route, WorkerState
    <3>6. CASE s.stdin = "done"
      <4>1. Runs(routes[id], s) /\ ~Taking(id)'
        BY <3>3, <3>4, <3>5, <3>6 DEF Runs, Taking, First
      <4>2. FirstGoesOn(id)
        BY <1>4, <2>4, <3>4, <4>1, RunsQuiet
      <4>3. QED
        BY <1>4, <2>2, <4>1, <4>2, QuietKeeps DEF Quiet
    <3>7. CASE s.stdin # "done"
      <4>1. First(id)' => First(id)
        BY <2>4, <3>3, <3>4 DEF First
      <4>2. WorkerOK(id)'
        BY <1>4, <3>4, <3>5, <4>1 DEF HoleOK, WorkerOK, NothingSent
      <4>3. routes[id].open = 1 => Taking(id)
        BY <2>4, <3>3, <3>7 DEF Taking, First
      <4>4. PICK from \in Nat : from = routes[id].fed
        BY <3>2 DEF Route
      <4>5. routes[id].open = 1 => Reaches(id, from)
        BY <4>3, <4>4 DEF HoleOK, InputReaches
      <4>6. f.n <= sent[id]
        BY <2>2 DEF IInv, BrokerTypeOK
      <4>7. routes[id].open = 1 => Reaches(id, f.n)'
        BY <1>1, <1>4, <2>1, <4>5, <4>6, OldestReaches
      <4>8. PICK n : n = f.n
        OBVIOUS
      <4>9. Taking(id)' => Reaches(id, routes[id].fed)'
        <5>1. Taking(id)' => Reaches(id, n)'
          BY <3>3, <3>4, <4>7, <4>8 DEF Taking, First, Reaches, Cut
        <5>2. routes'[id].fed = n
          BY <3>3, <3>4, <3>7, <4>8
        <5>3. QED
          BY <5>1, <5>2 DEF Reaches, Cut
      <4>10. HoleOK(id)'
        BY <1>4, <2>2, <4>2, <4>9 DEF HoleOK, InputReaches
      <4>11. routes[id].open = 1 => \/ f.n = from + 1
                                    \/ f.n = from + 2 /\ cancelAt[id] = from + 1
        BY <1>1, <2>1, <4>5, <4>6, OldestInTurn
      <4>12. FedInTurn(id)
        BY <3>3, <3>4, <3>7, <4>4, <4>11 DEF FedInTurn, FirstInvocation
      <4>13. QED
        BY <4>10, <4>12
    <3>8. QED
      BY <3>6, <3>7
  <2>5. QED
    BY <2>3, <2>4
<1>7. QED
  BY <1>5, <1>6

\* A route is registered, the Open of which is not queued any more.
LEMMA RegistersQuiet ==
  ASSUME IInv, NEW id \in Id, HoleOK(id), NEW n, routes' = [routes EXCEPT ![id] = NewRoute(n)],
         loop' = Poll
  PROVE  /\ routes'[id].worker \notin Ended /\ routes'[id].open = n /\ routes'[id].fed = n
         /\ LoopOK(id)' /\ ~Waits(id, "terminal")'
<1>1. routes'[id] = NewRoute(n)
  BY DEF IInv, RoutesOK
<1>2. QED
  BY <1>1 DEF NewRoute, Ended, LoopOK, Waits, Poll

\* The first Open starts the route whose input begins behind it.
LEMMA HandleOpenHole ==
  ASSUME IInv, IInv', NEW id \in Id, StaleOK(id), HoleOK(id), NEW c \in Id, NEW f,
         HandleOpen(c, f)
  PROVE  HoleOK(id)' /\ FedInTurn(id)
<1>1. /\ PopReady(c, f, RequestReady) /\ f.kind = "Open"
      /\ loop.pc = "poll" /\ UNCHANGED brokerVars
  BY DEF HandleOpen, PopInput, Polling, LoopAt
<1>2. \/ /\ Active(c)
         /\ loop' = [pc |-> "await", id |-> c, n |-> f.n]
         /\ routes' = routes
      \/ GoTo("terminal", c) /\ routes' = routes
      \/ ~Active(c) /\ routes' = [routes EXCEPT ![c] = NewRoute(f.n)] /\ loop' = Poll
  BY DEF HandleOpen, OpenRoute
<1>3. routes \in [Id -> Route \cup {NoRoute}] /\ QInv /\ FramesInOrder(id)
  BY DEF IInv, RoutesOK, HoleOK, StreamInOrder
<1>4. NothingSent(id) /\ answers'[id] = answers[id] /\ reading' = reading
  BY <1>1, StreamQuiet DEF brokerVars, PopReady
<1>5. CASE c # id
  <2>1. events'[id] = events[id] /\ retained'[id] = retained[id] /\ mode'[id] = mode[id]
    BY <1>1, <1>3, <1>5, OthersAlone
  <2>2. routes'[id] = routes[id]
    BY <1>2, <1>3, <1>5
  <2>3. LoopOK(id)' /\ ~Waits(id, "terminal")'
    BY <1>2, <1>5 DEF LoopOK, Waits, GoTo, Poll
  <2>4. QED
    BY <1>4, <2>1, <2>2, <2>3, StillQuiet, QuietKeeps
<1>6. CASE c = id
  <2>1. Oldest(id, f)
    BY <1>1, <1>3, <1>6, PopReadyOldest
  <2>2. StreamInOrder(id)' /\ ~FirstQueued(id)' /\ f.n \in 1 .. sent[id] /\ Shrinks(id)
    BY <1>1, <2>1, OldestStream DEF Oldest
  <2>3. f \in Queued(id) /\ ~First(id) /\ (f.n = 1 => FirstQueued(id))
    <3>1. f \in Queued(id)
      BY <2>1 DEF Oldest
    <3>2. QED
      BY <1>1, <3>1, FirstStage DEF FirstQueued
  <2>4. CASE routes' = routes
    <3>1. ~Taking(id)' /\ ~First(id)'
      BY <2>3, <2>4 DEF Taking, First, Active
    <3>2. FirstGoesOn(id)
      BY <1>4, <2>4, <3>1, RouteQuiet
    <3>3. LoopOK(id)'
      <4>1. CASE Active(id) /\ loop' = [pc |-> "await", id |-> c, n |-> f.n]
        <5>1. f.n # 1
          BY <2>3, <4>1, FirstStage
        <5>2. QED
          BY <4>1, <5>1 DEF LoopOK, Waits
      <4>2. CASE GoTo("terminal", c) \/ loop' = Poll
        BY <4>2 DEF LoopOK, Waits, GoTo, Poll
      <4>3. QED
        BY <1>2, <1>6, <4>1, <4>2
    <3>4. QED
      BY <1>4, <2>2, <3>1, <3>2, <3>3, QuietKeeps DEF Quiet
  <2>5. CASE ~Active(id) /\ routes' = [routes EXCEPT ![id] = NewRoute(f.n)] /\ loop' = Poll
    <3>1. /\ routes'[id].worker \notin Ended /\ routes'[id].open = f.n
          /\ routes'[id].fed = f.n /\ LoopOK(id)' /\ ~Waits(id, "terminal")'
      BY <2>5, RegistersQuiet
    <3>2. First(id)' => f.n = 1 /\ FirstQueued(id)
      BY <2>3, <3>1 DEF First
    <3>3. First(id)' => opens[id] = 1 /\ answers[id] = 0 /\ Reaches(id, 0)
      BY <3>2, FirstStage DEF HoleOK, InputReaches
    <3>4. WorkerOK(id)'
      BY <1>4, <3>1, <3>3 DEF WorkerOK, NothingSent
    <3>5. f.n <= sent[id]
      BY <2>2 DEF IInv, BrokerTypeOK
    <3>6. PICK n : n = f.n
      OBVIOUS
    <3>7. Taking(id)' => Reaches(id, n)'
      <4>1. Taking(id)' => Reaches(id, 0)
        BY <3>3 DEF Taking
      <4>2. Taking(id)' => Reaches(id, f.n)'
        BY <1>1, <1>4, <2>1, <3>5, <4>1, OldestReaches
      <4>3. QED
        BY <3>6, <4>2 DEF Reaches, Cut
    <3>8. Taking(id)' => Reaches(id, routes[id].fed)'
      <4>1. routes'[id].fed = n
        BY <3>1, <3>6
      <4>2. QED
        BY <3>7, <4>1 DEF Reaches, Cut
    <3>9. HoleOK(id)'
      BY <2>2, <3>1, <3>4, <3>8 DEF HoleOK, InputReaches
    <3>10. FedInTurn(id)
      BY <2>5 DEF FedInTurn, FirstInvocation, Active
    <3>11. QED
      BY <3>9, <3>10
  <2>6. QED
    BY <1>2, <1>6, <2>4, <2>5
<1>7. QED
  BY <1>5, <1>6

\* An Open that waited is never the first of its ID.
LEMMA HandleAwaitedOpenQuiet ==
  ASSUME IInv, NEW id \in Id, HoleOK(id), HandleAwaitedOpen
  PROVE  Quiet(id)
<1>1. /\ loop.pc = "await" /\ ~Active(loop.id)
      /\ UNCHANGED <<queueVars, brokerVars>>
      /\ \/ GoTo("terminal", loop.id) /\ routes' = routes
         \/ routes' = [routes EXCEPT ![loop.id] = NewRoute(loop.n)] /\ loop' = Poll
  BY DEF HandleAwaitedOpen, LoopAt, OpenRoute
<1>2. /\ events'[id] = events[id] /\ retained'[id] = retained[id] /\ mode'[id] = mode[id]
      /\ reading' = reading /\ NothingSent(id) /\ answers'[id] = answers[id]
  BY <1>1, StreamQuiet DEF queueVars, requestVars, brokerVars
<1>3. routes \in [Id -> Route \cup {NoRoute}]
  BY DEF IInv, RoutesOK
<1>4. LoopOK(id)'
  BY <1>1 DEF LoopOK, Waits, GoTo, Poll
<1>5. CASE routes'[id] = routes[id]
  <2>1. Waits(id, "terminal")' => ~First(id)'
    <3>1. Waits(id, "terminal")' => loop.id = id
      BY <1>1 DEF Waits, GoTo, Poll
    <3>2. QED
      BY <1>1, <1>5, <3>1 DEF First, Active
  <2>2. QED
    BY <1>2, <1>4, <1>5, <2>1, StillQuiet
<1>6. CASE routes'[id] # routes[id]
  <2>1. loop.id = id /\ routes' = [routes EXCEPT ![id] = NewRoute(loop.n)] /\ loop' = Poll
    BY <1>1, <1>3, <1>6
  <2>2. routes'[id].worker \notin Ended /\ routes'[id].open = loop.n
    <3>1. PICK n : n = loop.n
      OBVIOUS
    <3>2. routes' = [routes EXCEPT ![id] = NewRoute(n)]
      BY <2>1, <3>1
    <3>3. QED
      BY <2>1, <3>1, <3>2, RegistersQuiet
  <2>3. loop.n # 1
    BY <1>1, <2>1 DEF HoleOK, LoopOK, Waits
  <2>4. ~First(id)' /\ ~Active(id)
    BY <1>1, <2>1, <2>2, <2>3 DEF First
  <2>5. FirstGoesOn(id)
    BY <2>2, <2>4 DEF FirstGoesOn
  <2>6. QED
    BY <1>2, <1>4, <2>5, AloneQuiet DEF Quiet
<1>7. QED
  BY <1>5, <1>6

-----------------------------------------------------------------------------
(* The reader and the environment.                                         *)

\* What the broker adds to the stream of the invocation it has open: its own
\* Cancel is numbered, the shim's ends the input.
Uploads(id, f) ==
  /\ sent'[id] = sent[id] + 1 /\ sending[id] # "idle"
  /\ sending[id] = "eof" => sending'[id] = "eof" /\ f.kind = "Cancel"
  /\ cancelAt'[id] = cancelAt[id] \/ cancelAt[id] = 0
  /\ f.kind = "Cancel" => cancelAt'[id] = f.n \/ sending'[id] = "eof"

\* A frame that arrives is queued, or cut off by what it finds.
LEMMA ReachesArrives ==
  ASSUME IInv, NEW id \in Id, HoleOK(id), NEW from \in Nat, Reaches(id, from),
         NEW f \in Frame, f.n = sent[id] + 1, Arrives(id, f), Uploads(id, f),
         mode[id] # "announced"
  PROVE  Reaches(id, from)'
<1>1. /\ Queued(id) \subseteq Queued(id)' /\ Queued(id)' \subseteq Queued(id) \cup {f}
      /\ At(events'[id]) \subseteq At(events[id]) \cup {f} /\ At(events'[id]) \subseteq Queued(id)'
      /\ mode'[id] # "announced"
      /\ mode[id] = "overloaded" => mode'[id] = "overloaded" /\ events'[id] = events[id]
      /\ reading
      /\ f \in Queued(id)' \/ mode'[id] = "overloaded" \/ ~reading'
  BY DEF Arrives, Queued
<1>2. /\ sent[id] \in Nat /\ cancelAt[id] \in Nat /\ f.n \in Nat
      /\ \A g \in Queued(id) : g.n \in Nat /\ g.n <= sent[id] /\ from < g.n
      /\ from <= sent[id] /\ sent'[id] = sent[id] + 1
  BY FrameOfQueue DEF IInv, BrokerTypeOK, HoleOK, StreamInOrder, Queued, Reaches, Frame,
     Uploads
<1>3. ASSUME NEW n \in from + 1 .. sent[id], Cut(id, n) PROVE Cut(id, n)'
  <2>1. n # 0 /\ n \in Nat /\ n <= sent[id]
    BY <1>2
  <2>2. CASE n = cancelAt[id]
    BY <2>1, <2>2 DEF Cut, Uploads
  <2>3. CASE sending[id] = "eof" /\ \A g \in Queued(id) : g.n > n => g.kind = "Cancel"
    BY <1>1, <2>3 DEF Cut, Uploads
  <2>4. CASE mode[id] = "overloaded" /\ \A g \in At(events[id]) : g.n < n
    BY <1>1, <2>4 DEF Cut
  <2>5. QED
    BY <1>1, <1>3, <2>2, <2>3, <2>4 DEF Cut
<1>4. (\E g \in Queued(id)' : g.n = f.n) \/ Cut(id, f.n)'
  <2> SUFFICES ASSUME f \notin Queued(id)' PROVE Cut(id, f.n)'
    OBVIOUS
  <2>1. \A g \in Queued(id)' : g.n < f.n
    BY <1>1, <1>2
  <2>2. \A g \in At(events'[id]) : g.n < f.n
    BY <1>1, <2>1
  <2>3. QED
    BY <1>1, <2>1, <2>2 DEF Cut
<1>5. ASSUME NEW n \in from + 1 .. sent'[id]
      PROVE  (\E g \in Queued(id)' : g.n = n) \/ Cut(id, n)'
  <2>1. CASE n = f.n
    BY <1>4, <2>1
  <2>2. CASE n # f.n
    <3>1. n \in from + 1 .. sent[id]
      BY <1>2, <2>2
    <3>2. QED
      BY <1>1, <1>3, <3>1 DEF Reaches
  <2>3. QED
    BY <2>1, <2>2
<1>6. ASSUME NEW g \in Queued(id)', g.kind = "Cancel", g.n # cancelAt'[id]
      PROVE  sending'[id] = "eof" /\ \A h \in Queued(id)' : h.n > g.n => h.kind = "Cancel"
  <2>1. CASE g = f
    <3>1. \A h \in Queued(id)' : ~ (h.n > g.n)
      BY <1>1, <1>2, <2>1
    <3>2. QED
      BY <1>6, <2>1, <3>1 DEF Uploads
  <2>2. CASE g # f
    <3>1. g \in Queued(id)
      BY <1>1, <2>2
    <3>2. g.n # cancelAt[id]
      BY <1>2, <1>6, <3>1 DEF Uploads
    <3>3. sending[id] = "eof" /\ \A h \in Queued(id) : h.n > g.n => h.kind = "Cancel"
      BY <1>6, <3>1, <3>2 DEF Reaches
    <3>4. QED
      BY <1>1, <3>3 DEF Uploads
  <2>3. QED
    BY <2>1, <2>2
<1>7. from <= sent'[id] /\ \A g \in Queued(id)' : from < g.n
  BY <1>1, <1>2
<1>8. QED
  BY <1>5, <1>6, <1>7 DEF Reaches

\* A frame of the request's own stream arrives.
LEMMA StreamArrives ==
  ASSUME IInv, NEW id \in Id, StaleOK(id), HoleOK(id), NEW f \in Frame,
         f.n = sent[id] + 1, Arrives(id, f), sent'[id] = sent[id] + 1,
         \/ opens'[id] = opens[id]
         \/ opens'[id] = opens[id] + 1 /\ sending[id] = "idle"
  PROVE  StreamInOrder(id)' /\ (FirstQueued(id)' => FirstQueued(id) \/ opens[id] = 0)
<1>1. /\ FramesInOrder(id)' /\ Queued(id)' \subseteq Queued(id) \cup {f} /\ StreamInOrder(id)
  BY DEF Arrives, Queued, HoleOK
<1>2. /\ sent[id] \in Nat /\ opens[id] \in Nat
      /\ \A g \in Queued(id) : g.n \in Nat /\ g.n <= sent[id] /\ g.n > 0
  BY <1>1, FrameOfQueue DEF IInv, BrokerTypeOK, StreamInOrder, Queued
<1>3. \A g \in Queued(id)' : g.n <= sent'[id] /\ g.n > 0
  BY <1>1, <1>2
<1>4. FirstQueued(id)' => FirstQueued(id) \/ opens[id] = 0
  <2>1. f.n = 1 => ~ (sent[id] > 0)
    BY <1>2
  <2>2. f.n = 1 => opens[id] = 0
    BY <1>1, <1>2, <2>1 DEF StreamInOrder
  <2>3. QED
    BY <1>1, <2>2 DEF FirstQueued
<1>5. opens'[id] >= 2 => ~FirstQueued(id)'
  <2>1. FirstQueued(id) => opens[id] = 1 /\ sending[id] # "idle"
    BY FirstStage
  <2>2. QED
    BY <1>2, <1>4, <2>1
<1>6. opens'[id] > 0 => sent'[id] > 0
  BY <1>2
<1>7. QED
  BY <1>1, <1>3, <1>4, <1>5, <1>6 DEF StreamInOrder

\* A frame of any request is received.
LEMMA ReceiveRequestHole ==
  ASSUME IInv, IInv', NEW id \in Id, StaleOK(id), HoleOK(id), NEW c \in Id,
         ReceiveRequest(c)
  PROVE  HoleOK(id)' /\ FedInTurn(id)
<1>1. PICK kind \in InputKind, budgetFull \in BOOLEAN :
        LET f == [kind |-> kind, n |-> sent[c] + 1]
        IN /\ Sends(c, kind)
           /\ \/ ~budgetFull /\ EnqueueRequest(c, f)
              \/ EnqueueOverflow(c, f, budgetFull)
              \/ ~budgetFull /\ TooManyRequests(c)
  BY DEF ReceiveRequest
<1> DEFINE f == [kind |-> kind, n |-> sent[c] + 1]
<1>2. f \in Frame /\ f.kind = kind /\ f.n = sent[c] + 1
  BY ExecutorAssumption DEF IInv, BrokerTypeOK, Frame, Kind
<1>3. /\ Sends(c, kind)
      /\ \/ EnqueueRequest(c, f)
         \/ EnqueueOverflow(c, f, budgetFull)
         \/ TooManyRequests(c)
  BY <1>1
<1> HIDE DEF f
<1>4. BrokerTypeOK /\ QInv /\ FramesInOrder(id)
  BY DEF IInv, HoleOK, StreamInOrder
<1>5. routes' = routes /\ loop' = loop
  BY <1>3 DEF Sends, execVars
<1>6. CASE c # id
  <2>1. /\ events'[id] = events[id] /\ retained'[id] = retained[id] /\ mode'[id] = mode[id]
        /\ reading
    <3>1. CASE EnqueueRequest(c, f)
      BY <1>4, <1>6, <3>1 DEF EnqueueRequest, QInv, QueueTypeOK
    <3>2. CASE EnqueueOverflow(c, f, budgetFull)
      BY <1>4, <1>6, <3>2 DEF EnqueueOverflow, QInv, QueueTypeOK
    <3>3. CASE TooManyRequests(c)
      BY <3>3 DEF TooManyRequests, SetTerminal, requestVars
    <3>4. QED
      BY <1>3, <3>1, <3>2, <3>3
  <2>2. /\ sent'[id] = sent[id] /\ sending'[id] = sending[id] /\ opens'[id] = opens[id]
        /\ cancelAt'[id] = cancelAt[id] /\ answers'[id] = answers[id]
    BY <1>3, <1>4, <1>6 DEF Sends, BrokerTypeOK
  <2>3. NothingSent(id) /\ LoopOK(id)' /\ (Waits(id, "terminal")' => Waits(id, "terminal"))
    BY <1>5, <2>2, StreamQuiet DEF HoleOK, LoopOK, Waits, Active
  <2>4. QED
    BY <1>5, <2>1, <2>2, <2>3, StillQuiet, QuietKeeps
<1>7. CASE c = id
  <2>1. \A g \in Queued(id) : g.n < f.n
    <3>1. sent[id] \in Nat /\ \A g \in Queued(id) : g.n \in Nat /\ g.n <= sent[id]
      BY <1>4, FrameOfQueue DEF BrokerTypeOK, HoleOK, StreamInOrder, Queued
    <3>2. QED
      BY <1>2, <1>7, <3>1
  <2>2. Arrives(id, f)
    BY <1>2, <1>3, <1>4, <1>7, <2>1, EnqueueArrives, OverflowArrives, RefusalArrives
  <2>3. /\ sent'[id] = sent[id] + 1
        /\ \/ opens'[id] = opens[id]
           \/ opens'[id] = opens[id] + 1 /\ sending[id] = "idle"
    BY <1>3, <1>4, <1>7 DEF Sends, BrokerTypeOK
  <2>4. StreamInOrder(id)' /\ (FirstQueued(id)' => FirstQueued(id) \/ opens[id] = 0)
    BY <1>2, <1>7, <2>2, <2>3, StreamArrives
  <2>5. LoopOK(id)' /\ FedInTurn(id) /\ (First(id)' <=> First(id)) /\ (Taking(id)' <=> Taking(id))
    BY <1>5 DEF HoleOK, LoopOK, Waits, Active, FedInTurn, First, Taking
  <2>6. CASE kind = "Open"
    <3>1. sending[id] = "idle" /\ cancelAt'[id] = 0
      BY <1>3, <1>4, <1>7, <2>6 DEF Sends, BrokerTypeOK
    <3>2. ~First(id) /\ ~FirstQueued(id)
      BY <3>1, FirstStage
    <3>3. WorkerOK(id)'
      BY <1>5, <2>5, <3>2 DEF HoleOK, WorkerOK, Active
    <3>4. FirstQueued(id)' => Reaches(id, 0)'
      <4> SUFFICES ASSUME FirstQueued(id)' PROVE Reaches(id, 0)'
        OBVIOUS
      <4>1. opens[id] = 0
        BY <2>4, <3>2
      <4>2. sent[id] = 0
        BY <4>1 DEF StaleOK, StaleParts, StreamOK
      <4>3. Queued(id) = {}
        <5>1. \A g \in Queued(id) : g.n \in 1 .. sent[id]
          BY <4>1 DEF StaleOK, StaleParts, StreamOK
        <5>2. QED
          BY <4>2, <5>1
      <4>4. Queued(id)' \subseteq {f} /\ f.n = 1 /\ sent'[id] = 1
        BY <1>2, <1>7, <2>2, <2>3, <4>2, <4>3 DEF Arrives, Queued
      <4>5. \E g \in Queued(id)' : g.n = 1
        BY DEF FirstQueued
      <4>6. \A n \in 0 + 1 .. sent'[id] : \E g \in Queued(id)' : g.n = n
        BY <4>4, <4>5
      <4>7. QED
        BY <1>2, <2>6, <4>4, <4>6 DEF Reaches
    <3>5. QED
      BY <2>4, <2>5, <3>2, <3>3, <3>4 DEF HoleOK, InputReaches, Taking
  <2>7. CASE kind # "Open"
    <3>1. Uploads(id, f) /\ opens'[id] = opens[id] /\ answers'[id] = answers[id]
      BY <1>2, <1>3, <1>4, <1>7, <2>7 DEF Sends, BrokerTypeOK, Uploads, InputKind
    <3>2. WorkerOK(id)'
      BY <1>5, <2>5, <3>1 DEF HoleOK, WorkerOK, Active, Waits
    <3>3. opens[id] # 0
      BY <3>1 DEF StaleOK, StaleParts, StreamOK, Uploads
    <3>4. FirstQueued(id)' => Reaches(id, 0)'
      <4> SUFFICES ASSUME FirstQueued(id) PROVE Reaches(id, 0)'
        BY <2>4, <3>3
      <4>1. Reaches(id, 0) /\ mode[id] # "announced"
        BY FirstStage DEF HoleOK, InputReaches
      <4>2. QED
        BY <1>2, <1>7, <2>2, <3>1, <4>1, ReachesArrives
    <3>5. Taking(id)' => Reaches(id, routes[id].fed)'
      <4> SUFFICES ASSUME Taking(id) PROVE Reaches(id, routes[id].fed)'
        BY <2>5
      <4>1. PICK from \in Nat : from = routes[id].fed
        BY ActiveIsRoute DEF Taking, First, Route, IInv
      <4>2. Reaches(id, from) /\ mode[id] # "announced"
        BY <4>1, FirstStage DEF HoleOK, InputReaches, Taking
      <4>3. Reaches(id, from)'
        BY <1>2, <1>7, <2>2, <3>1, <4>2, ReachesArrives
      <4>4. routes'[id].fed = from
        BY <1>5, <4>1
      <4>5. QED
        BY <4>3, <4>4 DEF Reaches, Cut
    <3>6. QED
      BY <2>4, <2>5, <3>2, <3>4, <3>5 DEF HoleOK, InputReaches
  <2>8. QED
    BY <2>6, <2>7
<1>8. QED
  BY <1>6, <1>7

\* The channel and its peer, or no step at all.
LEMMA EnvironmentQuiet ==
  ASSUME IInv, NEW id \in Id, HoleOK(id),
         \/ ReceiveProbe \/ ConnectionLost \/ WriterFails \/ RequestShutdown
         \/ \E c \in Id : BrokerFinishes(c)
         \/ UNCHANGED vars
  PROVE  Quiet(id)
<1>1. /\ UNCHANGED <<requestVars, sent, opens, cancelAt, answers, routes, loop>>
      /\ reading' => reading
  <2>1. CASE ReceiveProbe
    BY <2>1 DEF ReceiveProbe, EnqueueControl, ControlOverflow, SetTerminal, execVars
  <2>2. CASE ConnectionLost
    BY <2>2 DEF ConnectionLost, EnqueueFailure, SetTerminal, execVars, brokerVars
  <2>3. CASE WriterFails \/ RequestShutdown
    BY <2>3 DEF WriterFails, RequestShutdown, queueVars, brokerVars
  <2>4. CASE \E c \in Id : BrokerFinishes(c)
    BY <2>4 DEF BrokerFinishes, queueVars, execVars
  <2>5. CASE UNCHANGED vars
    BY <2>5 DEF vars, queueVars, brokerVars, execVars
  <2>6. QED
    BY <2>1, <2>2, <2>3, <2>4, <2>5
<1>2. sending'[id] = sending[id] \/ (sending'[id] = "idle" /\ answers[id] > 0)
  <2>1. \/ sending' = sending
        \/ \E c \in Id : sending' = [sending EXCEPT ![c] = "idle"] /\ answers[c] > 0
    BY DEF ReceiveProbe, ConnectionLost, WriterFails, RequestShutdown, BrokerFinishes, vars,
       brokerVars
  <2>2. sending \in [Id -> {"idle", "open", "eof"}]
    BY DEF IInv, BrokerTypeOK
  <2>3. QED
    BY <2>1, <2>2
<1>3. NothingSent(id)
  BY <1>1, <1>2 DEF NothingSent
<1>4. LoopOK(id)' /\ (Waits(id, "terminal")' => Waits(id, "terminal"))
  BY <1>1 DEF HoleOK, LoopOK, Waits, Active
<1>5. QED
  BY <1>1, <1>3, <1>4, StillQuiet DEF requestVars

\* No frame has been sent, no route registered.
LEMMA InitHole == Init => \A id \in Id : HoleOK(id)
<1> SUFFICES ASSUME Init, NEW id \in Id PROVE HoleOK(id)
  OBVIOUS
<1>1. /\ events[id] = <<>> /\ retained[id] = <<>> /\ sent[id] = 0 /\ opens[id] = 0
      /\ ~Active(id) /\ loop.pc = "poll"
  BY DEF Init, QueueInit, Active, Poll
<1>2. DOMAIN events[id] = {} /\ DOMAIN retained[id] = {}
  BY <1>1, EmptySeq
<1>3. FramesInOrder(id) /\ Queued(id) = {}
  BY <1>2 DEF FramesInOrder, Ascending, Queued, At
<1>4. QED
  BY <1>1, <1>3 DEF HoleOK, StreamInOrder, WorkerOK, LoopOK, InputReaches, First, Taking,
     FirstQueued, Waits

\* Every step keeps the invariant of every request and feeds its first child in turn.
LEMMA NextHole ==
  ASSUME IInv, IInv', NEW id \in Id, StaleOK(id), \A w \in Id : HoleOK(w), [Next]_vars
  PROVE  HoleOK(id)' /\ FedInTurn(id)
<1>1. CASE Loop
  BY <1>1, EndingQuiet, LoopCommittedQuiet, HandleOverloadQuiet, HandleCancelQuiet,
     HandleDiscardQuiet, HandleAwaitedOpenQuiet, QuietKeeps, HandleInputHole, HandleOpenHole
     DEF Loop
<1>2. ASSUME NEW w \in Id,
             \/ WorkerStep(w)
             \/ ChildReads(w) \/ ChildClosesStdin(w) \/ ChildExits(w) \/ OutputSaturates(w)
      PROVE  HoleOK(id)' /\ FedInTurn(id)
  BY <1>2, WorkerStepQuiet, QuietKeeps
<1>3. ASSUME NEW c \in Id, ReceiveRequest(c) PROVE HoleOK(id)' /\ FedInTurn(id)
  BY <1>3, ReceiveRequestHole
<1>4. CASE \/ ReceiveProbe \/ ConnectionLost \/ WriterFails \/ RequestShutdown
           \/ \E c \in Id : BrokerFinishes(c)
           \/ UNCHANGED vars
  BY <1>4, EnvironmentQuiet, QuietKeeps
<1>5. QED
  BY <1>1, <1>2, <1>3, <1>4 DEF Next, Environment

\* The input fed to the first child of a request ID has no hole but the Cancel that
\* overtook it: what an overload, a discard or the end of the channel takes out of
\* the queue, it takes together with all input that follows, or the main loop drops
\* the input sender of the route before it pops another frame.
THEOREM NoInputHoles == Spec => NoInputHole
<1> DEFINE HoleInv == IInv /\ \A id \in Id : StaleOK(id) /\ HoleOK(id)
<1>1. Init => HoleInv
  BY InitIInv, InitStale, InitHole
<1>2. HoleInv /\ [Next]_vars => HoleInv'
  BY NextIInv, NextStale, NextHole
<1>3. HoleInv /\ [Next]_vars => [\A id \in Id : FedInTurn(id)]_vars
  BY NextIInv, NextHole
<1>4. (\A id \in Id : FedInTurn(id)) <=>
      \A id \in Id :
        (/\ FirstInvocation(routes[id]) /\ FirstInvocation(routes'[id])
         /\ routes'[id].fed # routes[id].fed) =>
          \/ routes'[id].fed = routes[id].fed + 1
          \/ routes'[id].fed = routes[id].fed + 2 /\ cancelAt[id] = routes[id].fed + 1
  BY DEF FedInTurn
<1> HIDE DEF HoleInv
<1>5. QED
  BY <1>1, <1>2, <1>3, <1>4, PTL DEF Spec, NoInputHole
=============================================================================
