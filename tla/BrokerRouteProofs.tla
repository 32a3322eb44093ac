-------------------------- MODULE BrokerRouteProofs --------------------------
(***************************************************************************)
(* Proofs about BrokerRoute, and about it with a Shim at the other end of     *)
(* every socket, for any number of request IDs, each used any number of        *)
(* times, any capacities and any output.                                     *)
(*                                                                         *)
(* The stream of an invocation is its output, then its terminal. What a client *)
(* was given, the message its handler holds and the responses queued behind   *)
(* it stand, while no error was written, at consecutive places of that stream; *)
(* and a route that lost its sender has its terminal queued, or an error       *)
(* recorded. Each part is a predicate of a route r, of what the client was      *)
(* given (g), of the output (o) and the state (e) of the executor, and of the    *)
(* loop (l), so that a step is a lemma about values.                          *)
(*                                                                         *)
(* A write of the handler is then a step of ClientStream, and what a shim took  *)
(* of its socket is output: it reaches the Exit after all of it.              *)
(***************************************************************************)
EXTENDS Shim, FiniteSetTheorems, TLAPS

Holding == {"stop", "take", "write"}
Forwarding == {"start", "recv"} \cup Holding
Pend(r) == IF r.handler \in Holding THEN 1 ELSE 0

\* Nothing more will be written to the client.
Silent(r) == r.clientError \/ r.errorSent

Dropping(id, l) == l.pc = "drop" /\ l.id = id
Open(l) == l.pc \in {"run", "drop"}

StreamAt(o, e, n, m) ==
  \/ n \in 1 .. Len(o) /\ m = o[n]
  \/ n = Len(o) + 1 /\ e \in Terminal /\ m = End(e)

\* The client has the first messages of the stream, and nothing else.
Kept(g, o) == Len(g) <= Len(o) /\ \A k \in 1 .. Len(g) : g[k] = o[k]

Told(g) == g # <<>> /\ IsTerminal(g[Len(g)])

PlaceOK(r, e) ==
  /\ r.joined => r.handler = "reported"
  /\ r.terminalSeen => e # "running"
  /\ r.handler = "start" => r.uploader = "none"
  /\ r.handler = "stop" => IsTerminal(r.message)
  /\ r.handler \in {"take", "write"} /\ IsTerminal(r.message) => r.uploader # "reading"
  /\ r.handler = "write" =>
       /\ ~r.clientError
       /\ r.writing = IF r.errorSent THEN End("Error") ELSE r.message
       /\ ~r.errorSent /\ IsTerminal(r.message) => ~r.error

FlowOK(id, r, g, o, e, l) ==
  /\ r.handler = "write" => Kept(g, o)
  /\ r.handler \in Forwarding /\ ~Silent(r) =>
       /\ Kept(g, o)
       /\ r.handler \in Holding => StreamAt(o, e, Len(g) + 1, r.message)
       /\ \A k \in 1 .. Len(r.responses) :
            StreamAt(o, e, Len(g) + Pend(r) + k, r.responses[k])
       /\ r.held /\ ~Dropping(id, l) => Len(g) + Pend(r) + Len(r.responses) = Len(o)
  /\ r.handler \in {"closing", "last"} /\ ~Silent(r) =>
       Kept(g, o) \/ (e # "running" /\ r.uploader # "reading" /\ ~r.error)

\* The client of a route that is cut off will be told, or was.
TellOK(id, r, g, l) ==
  /\ r.errorSent /\ r.handler # "write" => r.clientError \/ Told(g)
  /\ Open(l) /\ ~Silent(r) =>
       /\ Dropping(id, l) /\ r.handler \notin {"report", "reported"} => r.error \/ Told(g)
       /\ /\ ~r.held
          /\ r.handler \in Forwarding
          /\ r.handler \in Holding => ~IsTerminal(r.message)
          => \/ r.error
             \/ r.responses # <<>> /\ IsTerminal(r.responses[Len(r.responses)])
       /\ r.handler \in {"closing", "last"} => r.error \/ Told(g)
  /\ Open(l) /\ r.handler \in {"report", "reported"} =>
       Told(g) \/ r.clientError \/ r.uploader = "none"

Sound(id, r, g, o, e, l) ==
  PlaceOK(r, e) /\ FlowOK(id, r, g, o, e, l) /\ TellOK(id, r, g, l)

\* What was given is the output so far, or ends with an error or the Exit.
GivenOK(g, o, e) ==
  \A k \in 1 .. Len(g) :
    \/ k <= Len(o) /\ g[k] = o[k]
    \/ k = Len(g) /\ g[k] = End("Error")
    \/ k = Len(g) /\ g[k] = End("Exit") /\ e = "Exit" /\ k = Len(o) + 1

SoundAt(id) == Sound(id, routes[id], given[id], output[id], executor[id], loop)

LoopOK ==
  /\ loop.pc = "drop" => /\ loop.id \in Id /\ Live(loop.id)
                         /\ loop.terminal => executor[loop.id] # "running"
  /\ Open(loop) => \A id \in Id : ~Live(id) => executor[id] # "running"

IInv ==
  /\ TypeOK /\ CompletionMatches /\ LoopOK
  /\ \A id \in Id : Live(id) => SoundAt(id)
  /\ \A id \in Id : GivenOK(given[id], output[id], executor[id])

-----------------------------------------------------------------------------
(* Messages and routes.                                                    *)

LEMMA Messages ==
  /\ Piece \subseteq Message /\ \A m \in Piece : ~IsTerminal(m)
  /\ \A kind \in Terminal : End(kind) \in Message /\ IsTerminal(End(kind))
  /\ \A m \in Message : IsTerminal(m) \/ m \in Piece
  /\ Blank \in Message
BY DEF Piece, Message, IsTerminal, Terminal, End, Blank

LEMMA LiveIsRoute ==
  ASSUME TypeOK, NEW id \in Id
  PROVE /\ Live(id) => routes[id] \in Route
        /\ \A r \in Route : r # NoRoute /\ r.handler # "none"
BY DEF TypeOK, Live, Route, NoRoute, HandlerState

LEMMA ElementType == ASSUME NEW S, NEW s \in Seq(S) PROVE \A k \in 1 .. Len(s) : s[k] \in S
OBVIOUS

\* What Sound reads of a route, besides held, error and terminalSeen.
SameCore(s, r) ==
  /\ s.handler = r.handler /\ s.uploader = r.uploader
  /\ s.message = r.message /\ s.writing = r.writing
  /\ s.clientError = r.clientError /\ s.errorSent = r.errorSent
  /\ s.responses = r.responses /\ s.joined = r.joined

LEMMA CancelledFacts ==
  ASSUME NEW r \in Route
  PROVE /\ Cancelled(r) \in Route /\ SameCore(Cancelled(r), r)
        /\ Cancelled(r).held = r.held /\ Cancelled(r).error = r.error
        /\ Cancelled(r).terminalSeen = r.terminalSeen /\ Cancelled(r).stopping = r.stopping
BY DEF Cancelled, Route, SameCore

LEMMA FailedFacts ==
  ASSUME NEW r \in Route
  PROVE /\ Failed(r) \in Route /\ SameCore(Failed(r), r)
        /\ Failed(r).held = r.held /\ Failed(r).error
        /\ Failed(r).terminalSeen = r.terminalSeen
<1>1. PICK s \in Route : s = Cancelled(r)
  BY CancelledFacts
<1>2. PICK f : f = [s EXCEPT !.error = TRUE]
  OBVIOUS
<1>3. f \in Route /\ SameCore(f, s) /\ f.held = s.held /\ f.error /\ f.terminalSeen = s.terminalSeen
  BY <1>2 DEF Route, SameCore
<1>. QED
  BY <1>1, <1>2, <1>3, CancelledFacts DEF Failed, SameCore

\* A terminal settles a route, or ends it.
SettledAs(s, r, terminal) ==
  /\ s \in Route /\ SameCore(s, r) /\ s.error = r.error
  /\ s.held <=> r.held /\ ~terminal
  /\ s.terminalSeen <=> r.terminalSeen \/ terminal

LEMMA SettledFacts ==
  ASSUME NEW r \in Route, NEW terminal \in BOOLEAN
  PROVE \/ terminal /\ r.joined /\ Settled(r, terminal) = NoRoute
        \/ SettledAs(Settled(r, terminal), r, terminal)
<1>1. CASE terminal /\ r.joined
  BY <1>1 DEF Settled
<1>2. CASE ~(terminal /\ r.joined)
  <2>1. (r.held /\ ~terminal) \in BOOLEAN /\ (r.terminalSeen \/ terminal) \in BOOLEAN
    OBVIOUS
  <2>2. PICK h \in BOOLEAN, t \in BOOLEAN :
          h = (r.held /\ ~terminal) /\ t = (r.terminalSeen \/ terminal)
    BY <2>1, Zenon
  <2>3. PICK s : s = [r EXCEPT !.held = h, !.terminalSeen = t]
    OBVIOUS
  <2>4. Settled(r, terminal) = s
    BY <1>2, <2>2, <2>3, Zenon DEF Settled
  <2>5. s \in Route /\ SameCore(s, r) /\ s.error = r.error /\ s.held = h /\ s.terminalSeen = t
    BY <2>3 DEF Route, SameCore
  <2>. QED
    BY <2>2, <2>4, <2>5 DEF SettledAs
<1>. QED
  BY <1>1, <1>2

-----------------------------------------------------------------------------
(* The handler and the uploader.                                           *)

Good(id, r, g, o, e, l) ==
  /\ r \in Route /\ g \in Seq(Message) /\ o \in Seq(Piece)
  /\ e \in {"none", "running"} \cup Terminal
  /\ Sound(id, r, g, o, e, l) /\ GivenOK(g, o, e)

\* A message of the stream that is a terminal is its last, and the invocation over.
LEMMA TerminalIsLast ==
  ASSUME NEW o \in Seq(Piece), NEW e, NEW n, NEW m, StreamAt(o, e, n, m), IsTerminal(m)
  PROVE e \in Terminal /\ m = End(e) /\ n = Len(o) + 1
<1>1. \A k \in 1 .. Len(o) : ~IsTerminal(o[k])
  BY Messages, ElementType
<1>. QED
  BY <1>1 DEF StreamAt

\* Nothing the client was given of the output is a terminal.
LEMMA KeptIsUntold ==
  ASSUME NEW g \in Seq(Message), NEW o \in Seq(Piece), Kept(g, o)
  PROVE ~Told(g)
<1>1. \A k \in 1 .. Len(o) : ~IsTerminal(o[k])
  BY Messages, ElementType
<1>. QED
  BY <1>1 DEF Kept, Told

LEMMA StartsGood ==
  ASSUME NEW id, NEW r, NEW g, NEW o, NEW e, NEW l, Good(id, r, g, o, e, l), r.handler = "start"
  PROVE Good(id, [r EXCEPT !.handler = "recv", !.uploader = "reading"], g, o, e, l)
<1>1. PICK s : s = [r EXCEPT !.handler = "recv", !.uploader = "reading"]
  OBVIOUS
<1>2. /\ s \in Route /\ s.handler = "recv" /\ s.message = r.message /\ s.writing = r.writing
      /\ s.clientError = r.clientError /\ s.errorSent = r.errorSent /\ s.joined = r.joined
      /\ s.responses = r.responses /\ s.held = r.held /\ s.error = r.error
      /\ s.terminalSeen = r.terminalSeen
  BY <1>1 DEF Good, Route, HandlerState
<1>3. PlaceOK(s, e)
  BY <1>2 DEF Good, Sound, PlaceOK
<1>4. FlowOK(id, s, g, o, e, l)
  BY <1>2 DEF Good, Sound, FlowOK, Forwarding, Holding, Pend, Silent
<1>5. TellOK(id, s, g, l)
  BY <1>2 DEF Good, Sound, TellOK, Forwarding, Holding, Silent
<1>. QED
  BY <1>1, <1>2, <1>3, <1>4, <1>5 DEF Good, Sound

LEMMA GivesUpGood ==
  ASSUME NEW id, NEW r, NEW g, NEW o, NEW e, NEW l, Good(id, r, g, o, e, l), r.handler = "start"
  PROVE Good(id, [Cancelled(r) EXCEPT !.handler = "report"], g, o, e, l)
<1>1. PICK c \in Route : c = Cancelled(r) /\ SameCore(c, r) /\ c.terminalSeen = r.terminalSeen
  BY CancelledFacts DEF Good
<1>2. PICK s : s = [c EXCEPT !.handler = "report"]
  OBVIOUS
<1>3. /\ s \in Route /\ s.handler = "report" /\ s.uploader = r.uploader
      /\ s.clientError = r.clientError /\ s.errorSent = r.errorSent /\ s.joined = r.joined
      /\ s.terminalSeen = r.terminalSeen
  BY <1>1, <1>2 DEF Route, HandlerState, SameCore
<1>4. PlaceOK(s, e) /\ FlowOK(id, s, g, o, e, l) /\ TellOK(id, s, g, l)
  BY <1>3 DEF Good, Sound, PlaceOK, FlowOK, TellOK, Forwarding, Holding, Silent
<1>. QED
  BY <1>1, <1>2, <1>3, <1>4 DEF Good, Sound

LEMMA ReceivesGood ==
  ASSUME NEW id, NEW r, NEW g, NEW o, NEW e, NEW l, Good(id, r, g, o, e, l),
         r.handler = "recv", r.responses # <<>>, NEW m, m = Head(r.responses)
  PROVE Good(id, [r EXCEPT
                    !.responses = Tail(@), !.message = m, !.stopping = @ \/ IsTerminal(m),
                    !.handler = IF IsTerminal(m) THEN "stop" ELSE "take"], g, o, e, l)
<1>1. r.responses \in Seq(Message) /\ Len(r.responses) \in Nat /\ m \in Message
      /\ m = r.responses[1]
  BY DEF Good, Route
<1>2. (r.stopping \/ IsTerminal(m)) \in BOOLEAN
      /\ (IF IsTerminal(m) THEN "stop" ELSE "take") \in {"stop", "take"}
  OBVIOUS
<1>3. PICK b \in BOOLEAN, h \in {"stop", "take"} :
        b = (r.stopping \/ IsTerminal(m)) /\ h = IF IsTerminal(m) THEN "stop" ELSE "take"
  BY <1>2, Zenon
<1>4. PICK q : q = Tail(r.responses)
  OBVIOUS
<1>5. /\ q \in Seq(Message) /\ Len(q) = Len(r.responses) - 1
      /\ \A k \in 1 .. Len(q) : q[k] = r.responses[k + 1]
  BY <1>1, <1>4
<1>6. PICK s : s = [r EXCEPT !.responses = q, !.message = m, !.stopping = b, !.handler = h]
  OBVIOUS
<1>7. s = [r EXCEPT
             !.responses = Tail(@), !.message = m, !.stopping = @ \/ IsTerminal(m),
             !.handler = IF IsTerminal(m) THEN "stop" ELSE "take"]
  BY <1>3, <1>4, <1>6, Zenon
<1>8. /\ s \in Route /\ s.handler = h /\ s.uploader = r.uploader /\ s.message = m
      /\ s.clientError = r.clientError /\ s.errorSent = r.errorSent /\ s.joined = r.joined
      /\ s.responses = q /\ s.held = r.held /\ s.error = r.error
      /\ s.terminalSeen = r.terminalSeen
  BY <1>1, <1>3, <1>5, <1>6 DEF Good, Route, HandlerState
<1>9. PlaceOK(s, e)
  BY <1>3, <1>8 DEF Good, Sound, PlaceOK
<1>10. FlowOK(id, s, g, o, e, l)
  <2>1. ASSUME ~Silent(r)
        PROVE /\ Kept(g, o) /\ StreamAt(o, e, Len(g) + 1, m)
              /\ \A k \in 1 .. Len(q) : StreamAt(o, e, Len(g) + 1 + k, q[k])
              /\ r.held /\ ~Dropping(id, l) => Len(g) + 1 + Len(q) = Len(o)
    <3>1. /\ Kept(g, o)
          /\ \A k \in 1 .. Len(r.responses) : StreamAt(o, e, Len(g) + k, r.responses[k])
          /\ r.held /\ ~Dropping(id, l) => Len(g) + Len(r.responses) = Len(o)
      BY <2>1 DEF Good, Sound, FlowOK, Forwarding, Holding, Pend
    <3>2. 1 \in 1 .. Len(r.responses)
      BY <1>1
    <3>3. Len(g) \in Nat /\ Len(q) \in Nat
      BY <1>5 DEF Good
    <3>4. ASSUME NEW k \in 1 .. Len(q) PROVE StreamAt(o, e, Len(g) + 1 + k, q[k])
      <4>1. k + 1 \in 1 .. Len(r.responses) /\ q[k] = r.responses[k + 1]
            /\ Len(g) + 1 + k = Len(g) + (k + 1)
        BY <1>1, <1>5, <3>3
      <4>2. StreamAt(o, e, Len(g) + (k + 1), r.responses[k + 1])
        BY <3>1, <4>1
      <4>. QED
        BY <4>1, <4>2, Zenon
    <3>5. StreamAt(o, e, Len(g) + 1, m)
      <4>1. StreamAt(o, e, Len(g) + 1, r.responses[1])
        BY <3>1, <3>2
      <4>. QED
        BY <1>1, <4>1
    <3>6. ASSUME r.held, ~Dropping(id, l) PROVE Len(g) + 1 + Len(q) = Len(o)
      <4>1. Len(g) + Len(r.responses) = Len(o)
        BY <3>1, <3>6
      <4>2. Len(r.responses) \in Nat /\ Len(q) = Len(r.responses) - 1
        BY <1>1, <1>5
      <4>3. \A x, y, z \in Nat : z = y - 1 => x + 1 + z = x + y
        OBVIOUS
      <4>. QED
        BY <3>3, <4>1, <4>2, <4>3, Zenon
    <3>. QED
      BY <3>1, <3>4, <3>5, <3>6
  <2>. QED
    BY <1>3, <1>8, <2>1 DEF FlowOK, Forwarding, Holding, Pend, Silent
<1>11. TellOK(id, s, g, l)
  <2>1. ASSUME q # <<>> \/ ~IsTerminal(m), r.responses # <<>>,
               IsTerminal(r.responses[Len(r.responses)])
        PROVE q # <<>> /\ IsTerminal(q[Len(q)])
    BY <1>1, <1>5, <2>1
  <2>. QED
    BY <1>3, <1>8, <2>1 DEF Good, Sound, TellOK, Forwarding, Holding, Silent
<1>. QED
  BY <1>7, <1>8, <1>9, <1>10, <1>11 DEF Good, Sound

LEMMA DisconnectedGood ==
  ASSUME NEW id, NEW r, NEW g, NEW o, NEW e, NEW l, Good(id, r, g, o, e, l),
         r.handler = "recv", r.responses = <<>>, ~r.held
  PROVE Good(id, [r EXCEPT !.handler = "closing"], g, o, e, l)
<1>1. PICK s : s = [r EXCEPT !.handler = "closing"]
  OBVIOUS
<1>2. /\ s \in Route /\ s.handler = "closing" /\ s.uploader = r.uploader
      /\ s.clientError = r.clientError /\ s.errorSent = r.errorSent /\ s.joined = r.joined
      /\ s.error = r.error /\ s.terminalSeen = r.terminalSeen
  BY <1>1 DEF Good, Route, HandlerState
<1>3. PlaceOK(s, e)
  BY <1>2 DEF Good, Sound, PlaceOK
<1>4. FlowOK(id, s, g, o, e, l)
  BY <1>2 DEF Good, Sound, FlowOK, Forwarding, Holding, Silent
<1>5. TellOK(id, s, g, l)
  BY <1>2 DEF Good, Sound, TellOK, Forwarding, Holding, Silent
<1>. QED
  BY <1>1, <1>2, <1>3, <1>4, <1>5 DEF Good, Sound

LEMMA StopsUploadGood ==
  ASSUME NEW id, NEW r, NEW g, NEW o, NEW e, NEW l, Good(id, r, g, o, e, l),
         r.handler = "stop", r.uploader # "reading"
  PROVE Good(id, [r EXCEPT !.handler = "take"], g, o, e, l)
<1>1. PICK s : s = [r EXCEPT !.handler = "take"]
  OBVIOUS
<1>2. /\ s \in Route /\ s.handler = "take" /\ s.uploader = r.uploader /\ s.message = r.message
      /\ s.clientError = r.clientError /\ s.errorSent = r.errorSent /\ s.joined = r.joined
      /\ s.responses = r.responses /\ s.held = r.held /\ s.error = r.error
      /\ s.terminalSeen = r.terminalSeen
  BY <1>1 DEF Good, Route, HandlerState
<1>3. PlaceOK(s, e)
  BY <1>2 DEF Good, Sound, PlaceOK
<1>4. FlowOK(id, s, g, o, e, l)
  BY <1>2 DEF Good, Sound, FlowOK, Forwarding, Holding, Pend, Silent
<1>5. TellOK(id, s, g, l)
  BY <1>2 DEF Good, Sound, PlaceOK, TellOK, Forwarding, Holding, Silent
<1>. QED
  BY <1>1, <1>2, <1>3, <1>4, <1>5 DEF Good, Sound

\* What the handler leaves of a route when it is done with a response.
LEMMA HandledFacts ==
  ASSUME NEW r \in Route
  PROVE /\ Handled(r) \in Route
        /\ Handled(r).handler = IF IsTerminal(r.message) THEN "closing" ELSE "recv"
        /\ Handled(r).uploader = r.uploader /\ Handled(r).clientError = r.clientError
        /\ Handled(r).errorSent = r.errorSent /\ Handled(r).joined = r.joined
        /\ Handled(r).responses = r.responses /\ Handled(r).held = r.held
        /\ Handled(r).error = r.error /\ Handled(r).terminalSeen = r.terminalSeen
<1>1. PICK h \in {"closing", "recv"} : h = IF IsTerminal(r.message) THEN "closing" ELSE "recv"
  OBVIOUS
<1>2. PICK s : s = [r EXCEPT !.handler = h, !.message = Blank, !.writing = Blank]
  OBVIOUS
<1>3. s = Handled(r)
  BY <1>1, <1>2, Zenon DEF Handled
<1>4. /\ s \in Route /\ s.handler = h
      /\ s.uploader = r.uploader /\ s.clientError = r.clientError
      /\ s.errorSent = r.errorSent /\ s.joined = r.joined
      /\ s.responses = r.responses /\ s.held = r.held
      /\ s.error = r.error /\ s.terminalSeen = r.terminalSeen
  BY <1>1, <1>2, Messages DEF Route, HandlerState
<1>. QED
  BY <1>1, <1>3, <1>4

\* A handler that said an error, or could not write, only takes what is left.
LEMMA SkipsGood ==
  ASSUME NEW id, NEW r, NEW g, NEW o, NEW e, NEW l, Good(id, r, g, o, e, l),
         r.handler = "take", Silent(r)
  PROVE Good(id, Handled(r), g, o, e, l)
<1>1. PICK s : s = Handled(r)
  OBVIOUS
<1>2. /\ s \in Route /\ s.handler \in {"closing", "recv"}
      /\ s.clientError = r.clientError /\ s.errorSent = r.errorSent /\ s.joined = r.joined
      /\ s.terminalSeen = r.terminalSeen
  BY <1>1, HandledFacts DEF Good
<1>3. PlaceOK(s, e) /\ FlowOK(id, s, g, o, e, l) /\ TellOK(id, s, g, l)
  BY <1>2 DEF Good, Sound, PlaceOK, FlowOK, TellOK, Forwarding, Holding, Silent
<1>. QED
  BY <1>1, <1>2, <1>3 DEF Good, Sound

LEMMA TakesErrorGood ==
  ASSUME NEW id, NEW r, NEW g, NEW o, NEW e, NEW l, Good(id, r, g, o, e, l),
         r.handler = "take", ~Silent(r)
  PROVE Good(id, [r EXCEPT !.handler = "write", !.writing = End("Error"), !.error = FALSE,
                           !.errorSent = TRUE], g, o, e, l)
<1>1. PICK s : s = [r EXCEPT !.handler = "write", !.writing = End("Error"), !.error = FALSE,
                             !.errorSent = TRUE]
  OBVIOUS
<1>2. /\ s \in Route /\ s.handler = "write" /\ s.writing = End("Error") /\ s.errorSent
      /\ s.message = r.message /\ s.uploader = r.uploader
      /\ s.clientError = r.clientError /\ s.joined = r.joined
      /\ s.terminalSeen = r.terminalSeen
  BY <1>1, Messages DEF Good, Route, HandlerState, Terminal
<1>3. PlaceOK(s, e)
  BY <1>2 DEF Good, Sound, PlaceOK, Silent
<1>4. FlowOK(id, s, g, o, e, l)
  BY <1>2 DEF Good, Sound, FlowOK, Forwarding, Holding, Silent
<1>5. TellOK(id, s, g, l)
  BY <1>2 DEF TellOK, Silent
<1>. QED
  BY <1>1, <1>2, <1>3, <1>4, <1>5 DEF Good, Sound

LEMMA TakesGood ==
  ASSUME NEW id, NEW r, NEW g, NEW o, NEW e, NEW l, Good(id, r, g, o, e, l),
         r.handler = "take", ~Silent(r), ~r.error
  PROVE Good(id, [r EXCEPT !.handler = "write", !.writing = r.message], g, o, e, l)
<1>1. PICK s : s = [r EXCEPT !.handler = "write", !.writing = r.message]
  OBVIOUS
<1>2. /\ s \in Route /\ s.handler = "write" /\ s.writing = r.message /\ s.errorSent = r.errorSent
      /\ s.message = r.message /\ s.uploader = r.uploader /\ s.error = r.error
      /\ s.clientError = r.clientError /\ s.joined = r.joined /\ s.held = r.held
      /\ s.responses = r.responses /\ s.terminalSeen = r.terminalSeen
  BY <1>1 DEF Good, Route, HandlerState
<1>3. PlaceOK(s, e)
  BY <1>2 DEF Good, Sound, PlaceOK, Silent
<1>4. FlowOK(id, s, g, o, e, l)
  BY <1>2 DEF Good, Sound, FlowOK, Forwarding, Holding, Pend, Silent
<1>5. TellOK(id, s, g, l)
  BY <1>2 DEF Good, Sound, TellOK, Forwarding, Holding, Silent
<1>. QED
  BY <1>1, <1>2, <1>3, <1>4, <1>5 DEF Good, Sound

\* What follows the kept part of a stream: its next piece, its end, or an error.
LEMMA GivenGrows ==
  ASSUME NEW g \in Seq(Message), NEW o \in Seq(Piece), NEW e, NEW m \in Message, Kept(g, o),
         m = End("Error") \/ StreamAt(o, e, Len(g) + 1, m)
  PROVE /\ Append(g, m) \in Seq(Message) /\ GivenOK(Append(g, m), o, e)
        /\ Len(Append(g, m)) = Len(g) + 1
        /\ Told(Append(g, m)) <=> IsTerminal(m)
        /\ ~IsTerminal(m) => Kept(Append(g, m), o)
<1>1. PICK a : a = Append(g, m)
  OBVIOUS
<1>2. /\ a \in Seq(Message) /\ Len(a) = Len(g) + 1 /\ a # <<>> /\ a[Len(a)] = m
      /\ Len(g) \in Nat /\ Len(o) \in Nat
  BY <1>1
<1>3. ASSUME NEW k \in 1 .. Len(a) PROVE k = Len(a) \/ (k <= Len(o) /\ a[k] = o[k])
  <2>1. CASE k = Len(a)
    BY <2>1
  <2>2. CASE k # Len(a)
    <3>1. k \in 1 .. Len(g)
      BY <1>2, <2>2
    <3>2. a[k] = g[k]
      BY <1>1, <3>1
    <3>. QED
      BY <1>2, <3>1, <3>2 DEF Kept
  <2>. QED
    BY <2>1, <2>2
<1>4. \/ m = End("Error")
      \/ Len(a) <= Len(o) /\ m = o[Len(a)]
      \/ Len(a) = Len(o) + 1 /\ m = End("Exit") /\ e = "Exit"
  BY <1>2 DEF StreamAt, Terminal
<1>5. GivenOK(a, o, e)
  BY <1>2, <1>3, <1>4 DEF GivenOK
<1>6. ~IsTerminal(m) => Kept(a, o)
  <2>1. ASSUME ~IsTerminal(m) PROVE Len(a) <= Len(o) /\ m = o[Len(a)]
    BY <1>4, <2>1, Messages DEF Terminal
  <2>. QED
    BY <1>2, <1>3, <2>1 DEF Kept
<1>. QED
  BY <1>1, <1>2, <1>5, <1>6 DEF Told

LEMMA WritesGood ==
  ASSUME NEW id, NEW r, NEW g, NEW o, NEW e, NEW l, Good(id, r, g, o, e, l), r.handler = "write"
  PROVE Good(id, Handled(r), Append(g, r.writing), o, e, l)
<1>1. PICK s : s = Handled(r)
  OBVIOUS
<1>2. PICK a : a = Append(g, r.writing)
  OBVIOUS
<1>3. /\ s \in Route
      /\ s.handler = IF IsTerminal(r.message) THEN "closing" ELSE "recv"
      /\ s.uploader = r.uploader /\ s.clientError = r.clientError
      /\ s.errorSent = r.errorSent /\ s.joined = r.joined
      /\ s.responses = r.responses /\ s.held = r.held
      /\ s.error = r.error /\ s.terminalSeen = r.terminalSeen
  BY <1>1, HandledFacts DEF Good
<1>4. Kept(g, o) /\ ~r.clientError /\ r.writing \in Message /\ r.message \in Message
  BY DEF Good, Sound, PlaceOK, FlowOK, Route
<1>5. PlaceOK(s, e)
  BY <1>3 DEF Good, Sound, PlaceOK
<1>6. CASE r.errorSent
  <2>1. r.writing = End("Error") /\ IsTerminal(r.writing)
    BY <1>6, Messages DEF Good, Sound, PlaceOK, Terminal
  <2>2. a \in Seq(Message) /\ GivenOK(a, o, e) /\ Told(a)
    BY <1>2, <1>4, <2>1, GivenGrows DEF Good
  <2>3. FlowOK(id, s, a, o, e, l) /\ TellOK(id, s, a, l)
    BY <1>3, <1>6, <2>2 DEF FlowOK, TellOK, Silent
  <2>. QED
    BY <1>1, <1>2, <1>3, <1>5, <2>2, <2>3 DEF Good, Sound
<1>7. CASE ~r.errorSent
  <2>1. r.writing = r.message /\ ~Silent(r)
    BY <1>4, <1>7 DEF Good, Sound, PlaceOK, Silent
  <2>2. /\ StreamAt(o, e, Len(g) + 1, r.message)
        /\ \A k \in 1 .. Len(r.responses) : StreamAt(o, e, Len(g) + 1 + k, r.responses[k])
        /\ r.held /\ ~Dropping(id, l) => Len(g) + 1 + Len(r.responses) = Len(o)
    BY <2>1 DEF Good, Sound, FlowOK, Forwarding, Holding, Pend
  <2>3. /\ a \in Seq(Message) /\ GivenOK(a, o, e) /\ Len(a) = Len(g) + 1
        /\ Told(a) <=> IsTerminal(r.message)
        /\ ~IsTerminal(r.message) => Kept(a, o)
    BY <1>2, <1>4, <2>1, <2>2, GivenGrows DEF Good
  <2>4. CASE IsTerminal(r.message)
    <3>1. e \in Terminal /\ r.uploader # "reading" /\ ~r.error
      BY <1>7, <2>2, <2>4, TerminalIsLast DEF Good, Sound, PlaceOK
    <3>2. FlowOK(id, s, a, o, e, l)
      BY <1>3, <2>4, <3>1 DEF FlowOK, Forwarding, Holding, Terminal
    <3>3. TellOK(id, s, a, l)
      BY <1>3, <1>7, <2>3, <2>4 DEF TellOK, Forwarding, Holding
    <3>. QED
      BY <1>1, <1>2, <1>3, <1>5, <2>3, <3>2, <3>3 DEF Good, Sound
  <2>5. CASE ~IsTerminal(r.message)
    <3>1. Len(a) + 0 = Len(a) /\ \A k \in Nat : Len(a) + 0 + k = Len(g) + 1 + k
      BY <2>3 DEF Good
    <3>2. ASSUME NEW k \in 1 .. Len(r.responses)
          PROVE StreamAt(o, e, Len(a) + 0 + k, r.responses[k])
      <4>1. k \in Nat
        OBVIOUS
      <4>2. StreamAt(o, e, Len(g) + 1 + k, r.responses[k])
        BY <2>2, Zenon
      <4>. QED
        BY <3>1, <4>1, <4>2, Zenon
    <3>3. r.held /\ ~Dropping(id, l) => Len(a) + 0 + Len(r.responses) = Len(o)
      <4>1. Len(r.responses) \in Nat
        BY DEF Good, Route
      <4>. QED
        BY <2>2, <3>1, <4>1
    <3>4. FlowOK(id, s, a, o, e, l)
      BY <1>3, <2>3, <2>5, <3>2, <3>3 DEF FlowOK, Forwarding, Holding, Pend
    <3>5. ~Told(g)
      BY <1>4, KeptIsUntold DEF Good
    <3>6. TellOK(id, s, a, l)
      BY <1>3, <1>7, <2>1, <2>5, <3>5 DEF Good, Sound, TellOK, Forwarding, Holding, Silent
    <3>. QED
      BY <1>1, <1>2, <1>3, <1>5, <2>3, <3>4, <3>6 DEF Good, Sound
  <2>. QED
    BY <2>4, <2>5
<1>. QED
  BY <1>6, <1>7

LEMMA WriteFailsGood ==
  ASSUME NEW id, NEW r, NEW g, NEW o, NEW e, NEW l, Good(id, r, g, o, e, l), r.handler = "write"
  PROVE Good(id, [Cancelled(Handled(r)) EXCEPT !.clientError = TRUE], g, o, e, l)
<1>1. PICK h \in Route : /\ h = Handled(r) /\ h.handler \in {"closing", "recv"}
                         /\ h.joined = r.joined /\ h.terminalSeen = r.terminalSeen
  BY HandledFacts DEF Good
<1>2. PICK c \in Route : c = Cancelled(h) /\ SameCore(c, h) /\ c.terminalSeen = h.terminalSeen
  BY CancelledFacts
<1>3. PICK s : s = [c EXCEPT !.clientError = TRUE]
  OBVIOUS
<1>4. s \in Route
  BY <1>2, <1>3 DEF Route
<1>5. /\ s.handler = c.handler /\ s.clientError
      /\ s.joined = c.joined /\ s.terminalSeen = c.terminalSeen
  BY <1>2, <1>3 DEF Route
<1>6. /\ s.handler \in {"closing", "recv"}
      /\ s.joined = r.joined /\ s.terminalSeen = r.terminalSeen
  BY <1>1, <1>2, <1>5 DEF SameCore
<1>7. PlaceOK(s, e) /\ FlowOK(id, s, g, o, e, l) /\ TellOK(id, s, g, l)
  BY <1>5, <1>6 DEF Good, Sound, PlaceOK, FlowOK, TellOK, Silent
<1>. QED
  BY <1>1, <1>2, <1>3, <1>4, <1>7 DEF Good, Sound

LEMMA JoinsUploadGood ==
  ASSUME NEW id, NEW r, NEW g, NEW o, NEW e, NEW l, Good(id, r, g, o, e, l), r.handler = "closing"
  PROVE Good(id, [r EXCEPT !.handler = "last"], g, o, e, l)
<1>1. PICK s : s = [r EXCEPT !.handler = "last"]
  OBVIOUS
<1>2. /\ s \in Route /\ s.handler = "last" /\ s.uploader = r.uploader
      /\ s.clientError = r.clientError /\ s.errorSent = r.errorSent /\ s.joined = r.joined
      /\ s.error = r.error /\ s.terminalSeen = r.terminalSeen
  BY <1>1 DEF Good, Route, HandlerState
<1>3. PlaceOK(s, e) /\ FlowOK(id, s, g, o, e, l)
  BY <1>2 DEF Good, Sound, PlaceOK, FlowOK, Forwarding, Holding, Silent
<1>4. TellOK(id, s, g, l)
  BY <1>2 DEF Good, Sound, TellOK, Forwarding, Holding, Silent
<1>. QED
  BY <1>1, <1>2, <1>3, <1>4 DEF Good, Sound

LEMMA LastErrorGood ==
  ASSUME NEW id, NEW r, NEW g, NEW o, NEW e, NEW l, Good(id, r, g, o, e, l), r.handler = "last",
         ~Silent(r), r.error
  PROVE Good(id, [r EXCEPT !.handler = "report", !.error = FALSE], Append(g, End("Error")), o, e, l)
<1>1. PICK s : s = [r EXCEPT !.handler = "report", !.error = FALSE]
  OBVIOUS
<1>2. PICK a : a = Append(g, End("Error"))
  OBVIOUS
<1>3. /\ s \in Route /\ s.handler = "report" /\ s.joined = r.joined
      /\ s.terminalSeen = r.terminalSeen
  BY <1>1 DEF Good, Route, HandlerState
<1>4. Kept(g, o)
  BY DEF Good, Sound, FlowOK
<1>5. End("Error") \in Message /\ IsTerminal(End("Error"))
  BY Messages DEF Terminal
<1>6. a \in Seq(Message) /\ GivenOK(a, o, e) /\ Told(a)
  BY <1>2, <1>4, <1>5, GivenGrows DEF Good
<1>7. PlaceOK(s, e) /\ FlowOK(id, s, a, o, e, l) /\ TellOK(id, s, a, l)
  BY <1>3, <1>6 DEF Good, Sound, PlaceOK, FlowOK, TellOK, Forwarding, Holding
<1>. QED
  BY <1>1, <1>2, <1>3, <1>6, <1>7 DEF Good, Sound

LEMMA LastFailsGood ==
  ASSUME NEW id, NEW r, NEW g, NEW o, NEW e, NEW l, Good(id, r, g, o, e, l), r.handler = "last",
         NEW s, s = [[r EXCEPT !.handler = "report", !.error = FALSE] EXCEPT !.clientError = TRUE]
  PROVE Good(id, s, g, o, e, l)
<1>1. PICK f : f = [r EXCEPT !.handler = "report", !.error = FALSE]
  OBVIOUS
<1>2. f \in Route /\ f.handler = "report" /\ f.joined = r.joined /\ f.terminalSeen = r.terminalSeen
  BY <1>1 DEF Good, Route, HandlerState
<1>3. s = [f EXCEPT !.clientError = TRUE]
  BY <1>1
<1>4. /\ s \in Route /\ s.handler = "report" /\ s.joined = r.joined /\ s.clientError
      /\ s.terminalSeen = r.terminalSeen
  BY <1>2, <1>3 DEF Route
<1>5. PlaceOK(s, e) /\ FlowOK(id, s, g, o, e, l) /\ TellOK(id, s, g, l)
  BY <1>4 DEF Good, Sound, PlaceOK, FlowOK, TellOK, Forwarding, Holding, Silent
<1>. QED
  BY <1>4, <1>5 DEF Good, Sound

LEMMA LastGood ==
  ASSUME NEW id, NEW r, NEW g, NEW o, NEW e, NEW l, Good(id, r, g, o, e, l), r.handler = "last",
         Silent(r) \/ ~r.error
  PROVE Good(id, [r EXCEPT !.handler = "report"], g, o, e, l)
<1>1. PICK s : s = [r EXCEPT !.handler = "report"]
  OBVIOUS
<1>2. /\ s \in Route /\ s.handler = "report" /\ s.uploader = r.uploader
      /\ s.clientError = r.clientError /\ s.errorSent = r.errorSent /\ s.joined = r.joined
      /\ s.terminalSeen = r.terminalSeen
  BY <1>1 DEF Good, Route, HandlerState
<1>3. PlaceOK(s, e) /\ FlowOK(id, s, g, o, e, l)
  BY <1>2 DEF Good, Sound, PlaceOK, FlowOK, Forwarding, Holding, Silent
<1>4. TellOK(id, s, g, l)
  BY <1>2 DEF Good, Sound, TellOK, Forwarding, Holding, Silent
<1>. QED
  BY <1>1, <1>2, <1>3, <1>4 DEF Good, Sound

LEMMA ReportsGood ==
  ASSUME NEW id, NEW r, NEW g, NEW o, NEW e, NEW l, Good(id, r, g, o, e, l), r.handler = "report"
  PROVE Good(id, [r EXCEPT !.handler = "reported"], g, o, e, l)
<1>1. PICK s : s = [r EXCEPT !.handler = "reported"]
  OBVIOUS
<1>2. /\ s \in Route /\ s.handler = "reported" /\ s.uploader = r.uploader
      /\ s.clientError = r.clientError /\ s.errorSent = r.errorSent
      /\ s.terminalSeen = r.terminalSeen
  BY <1>1 DEF Good, Route, HandlerState
<1>3. PlaceOK(s, e) /\ FlowOK(id, s, g, o, e, l)
  BY <1>2 DEF Good, Sound, PlaceOK, FlowOK, Forwarding, Holding, Silent
<1>4. TellOK(id, s, g, l)
  BY <1>2 DEF Good, Sound, TellOK, Forwarding, Holding, Silent
<1>. QED
  BY <1>1, <1>2, <1>3, <1>4 DEF Good, Sound

\* What the end of a reading uploader changes, with an error recorded or not.
UploadDone(s, r) ==
  /\ s \in Route /\ s.uploader # "reading" /\ s.uploader # "none"
  /\ s.handler = r.handler /\ s.message = r.message /\ s.writing = r.writing
  /\ s.clientError = r.clientError /\ s.errorSent = r.errorSent
  /\ s.responses = r.responses /\ s.joined = r.joined /\ s.held = r.held
  /\ s.terminalSeen = r.terminalSeen
  /\ s.error = r.error \/ s.error

LEMMA UploadGood ==
  ASSUME NEW id, NEW r, NEW g, NEW o, NEW e, NEW l, Good(id, r, g, o, e, l),
         r.uploader = "reading", NEW s, UploadDone(s, r)
  PROVE Good(id, s, g, o, e, l)
<1>1. PlaceOK(s, e)
  BY DEF Good, Sound, UploadDone, PlaceOK
<1>2. FlowOK(id, s, g, o, e, l)
  BY DEF Good, Sound, UploadDone, FlowOK, Forwarding, Holding, Pend, Silent
<1>3. TellOK(id, s, g, l)
  BY DEF Good, Sound, UploadDone, TellOK, Forwarding, Holding, Silent, Route
<1>. QED
  BY <1>1, <1>2, <1>3 DEF Good, Sound, UploadDone

LEMMA UploadDones ==
  ASSUME NEW r \in Route
  PROVE /\ UploadDone([r EXCEPT !.uploader = "ended"], r)
        /\ UploadDone([r EXCEPT !.uploader = "cancelled"], r)
        /\ UploadDone([Failed(r) EXCEPT !.uploader = "ended"], r)
        /\ UploadDone([Failed(r) EXCEPT !.uploader = "ended", !.stopping = TRUE], r)
<1>1. PICK f \in Route : /\ f = Failed(r) /\ SameCore(f, r) /\ f.held = r.held /\ f.error
                         /\ f.terminalSeen = r.terminalSeen
  BY FailedFacts
<1>2. PICK a, b, c, d : /\ a = [r EXCEPT !.uploader = "ended"]
                        /\ b = [r EXCEPT !.uploader = "cancelled"]
                        /\ c = [f EXCEPT !.uploader = "ended"]
                        /\ d = [f EXCEPT !.uploader = "ended", !.stopping = TRUE]
  OBVIOUS
<1>3. UploadDone(a, r)
  BY <1>2 DEF UploadDone, Route
<1>4. UploadDone(b, r)
  BY <1>2 DEF UploadDone, Route
<1>5. UploadDone(c, r)
  BY <1>1, <1>2 DEF UploadDone, Route, SameCore
<1>6. UploadDone(d, r)
  BY <1>1, <1>2 DEF UploadDone, Route, SameCore
<1>. QED
  BY <1>1, <1>2, <1>3, <1>4, <1>5, <1>6

-----------------------------------------------------------------------------
(* The steps of a request leave the others alone.                          *)

\* A route that a step leaves alone stays sound, unless the loop begins to drop it.
LEMMA SoundKept ==
  ASSUME NEW id, NEW r, NEW g, NEW o, NEW e, NEW l, NEW k, Sound(id, r, g, o, e, l),
         Open(k) => Open(l), Dropping(id, k) <=> Dropping(id, l)
  PROVE Sound(id, r, g, o, e, k)
<1>1. FlowOK(id, r, g, o, e, k)
  BY DEF Sound, FlowOK
<1>2. TellOK(id, r, g, k)
  BY DEF Sound, TellOK
<1>. QED
  BY <1>1, <1>2 DEF Sound

GoodAt(id) == Good(id, routes[id], given[id], output[id], executor[id], loop)

LEMMA LiveIsGood == ASSUME IInv, NEW id \in Id, Live(id) PROVE GoodAt(id)
BY LiveIsRoute DEF IInv, TypeOK, SoundAt, GoodAt, Good

\* What a step of id leaves alone.
OthersAlone(id) ==
  \A j \in Id \ {id} :
    /\ routes'[j] = routes[j] /\ given'[j] = given[j] /\ output'[j] = output[j]
    /\ executor'[j] = executor[j]
    /\ Dropping(j, loop') <=> Dropping(j, loop)

LEMMA StepOfOne ==
  ASSUME IInv, TypeOK', CompletionMatches', LoopOK', NEW id \in Id, OthersAlone(id),
         Open(loop') => Open(loop),
         Live(id)' => Sound(id, routes'[id], given'[id], output'[id], executor'[id], loop'),
         GivenOK(given'[id], output'[id], executor'[id])
  PROVE IInv'
<1>1. ASSUME NEW j \in Id, Live(j)' PROVE SoundAt(j)'
  <2>1. CASE j = id
    BY <1>1, <2>1 DEF SoundAt
  <2>2. CASE j # id
    <3>1. SoundAt(j)
      BY <1>1, <2>2 DEF IInv, OthersAlone, Live
    <3>2. PICK r, g, o, e, l, k : /\ r = routes[j] /\ g = given[j] /\ o = output[j]
                                  /\ e = executor[j] /\ l = loop /\ k = loop'
      OBVIOUS
    <3>3. /\ Open(k) => Open(l)
          /\ Dropping(j, k) <=> Dropping(j, l)
      BY <2>2, <3>2 DEF OthersAlone
    <3>4. Sound(j, r, g, o, e, k)
      BY <3>1, <3>2, <3>3, SoundKept DEF SoundAt
    <3>. QED
      BY <2>2, <3>2, <3>4 DEF SoundAt, OthersAlone
  <2>. QED
    BY <2>1, <2>2
<1>2. ASSUME NEW j \in Id PROVE GivenOK(given[j], output[j], executor[j])'
  BY DEF IInv, OthersAlone
<1>. QED
  BY <1>1, <1>2 DEF IInv

\* A step of the handler or the uploader of id, or of its client.
LEMMA ThreadStep ==
  ASSUME IInv, NEW id \in Id, Live(id), NEW s, NEW g,
         routes' = [routes EXCEPT ![id] = s], given' = [given EXCEPT ![id] = g],
         completed' \in Seq(Id), CompletionMatches',
         UNCHANGED <<loop, envVars>>, client' \in [Id -> {"none", "open", "gone"}],
         Good(id, s, g, output[id], executor[id], loop)
  PROVE IInv'
<1>1. routes \in [Id -> Route \cup {NoRoute}] /\ given \in [Id -> Seq(Message)]
  BY DEF IInv, TypeOK
<1>2. routes' \in [Id -> Route \cup {NoRoute}] /\ given' \in [Id -> Seq(Message)]
  BY <1>1 DEF Good
<1>3. loop' = loop /\ opens' = opens /\ executor' = executor /\ output' = output
  BY DEF envVars
<1>4. TypeOK'
  BY <1>2, <1>3 DEF IInv, TypeOK
<1>5. s \in Route /\ s # NoRoute
  BY LiveIsRoute DEF Good, IInv
<1>6. routes'[id] = s /\ given'[id] = g
  BY <1>1
<1>7. \A j \in Id : Live(j)' <=> Live(j)
  BY <1>1, <1>5 DEF Live
<1>8. LoopOK'
  BY <1>3, <1>7 DEF IInv, LoopOK
<1>9. OthersAlone(id)
  BY <1>1, <1>3 DEF OthersAlone
<1>10. Sound(id, s, g, output[id], executor[id], loop) /\ GivenOK(g, output[id], executor[id])
  BY DEF Good
<1>. QED
  BY <1>3, <1>4, <1>6, <1>8, <1>9, <1>10, StepOfOne

\* Completions do not mind a handler that has not reported, nor has now.
LEMMA CompletionsKept ==
  ASSUME TypeOK, CompletionMatches, NEW id \in Id, ~HandlerAt(id, "reported"),
         completed' = completed, \A j \in Id \ {id} : routes'[j] = routes[j]
  PROVE CompletionMatches'
<1>1. \A i \in DOMAIN completed : completed[i] \in Id \ {id}
  BY DEF TypeOK, CompletionMatches
<1>. QED
  BY <1>1 DEF CompletionMatches, HandlerAt, Live

\* Nor one that stays reported and is not joined by the step.
LEMMA CompletionsStay ==
  ASSUME TypeOK, CompletionMatches, NEW id \in Id, completed' = completed,
         \A j \in Id \ {id} : routes'[j] = routes[j],
         Live(id)', routes'[id].handler = routes[id].handler, routes'[id].joined = routes[id].joined
  PROVE CompletionMatches'
<1>1. \A i \in DOMAIN completed : completed[i] \in Id
  BY DEF TypeOK
<1>2. ASSUME NEW j \in Id, HandlerAt(j, "reported"), ~routes[j].joined
      PROVE HandlerAt(j, "reported")' /\ ~routes'[j].joined
  BY <1>2 DEF HandlerAt, Live
<1>. QED
  BY <1>1, <1>2 DEF CompletionMatches

\* A step of the handler of id that says nothing.
LEMMA QuietStep ==
  ASSUME IInv, NEW id \in Id, NEW from, NEW new, from # "reported", Handler(id, from, new), Quiet,
         Good(id, new, given[id], output[id], executor[id], loop)
  PROVE IInv'
<1>1. TypeOK /\ CompletionMatches /\ Live(id)
  BY DEF IInv, Handler, HandlerAt
<1>2. /\ routes' = [routes EXCEPT ![id] = new] /\ completed' = completed
      /\ given' = given /\ client' = client /\ UNCHANGED <<loop, envVars>>
      /\ ~HandlerAt(id, "reported")
  BY DEF Handler, HandlerAt, Quiet
<1>3. CompletionMatches'
  BY <1>1, <1>2, CompletionsKept DEF TypeOK
<1>4. given' = [given EXCEPT ![id] = given[id]] /\ client' \in [Id -> {"none", "open", "gone"}]
      /\ completed' \in Seq(Id)
  BY <1>1, <1>2 DEF TypeOK
<1>. QED
  BY <1>1, <1>2, <1>3, <1>4, ThreadStep

\* A step of the handler of id that writes m to the client.
LEMMA WritingStep ==
  ASSUME IInv, NEW id \in Id, NEW from, NEW new, NEW m, from # "reported",
         Handler(id, from, new), Writes(id, m),
         Good(id, new, Append(given[id], m), output[id], executor[id], loop)
  PROVE IInv'
<1>1. TypeOK /\ CompletionMatches /\ Live(id)
  BY DEF IInv, Handler, HandlerAt
<1>2. /\ routes' = [routes EXCEPT ![id] = new] /\ completed' = completed
      /\ given' = [given EXCEPT ![id] = Append(given[id], m)]
      /\ client' = client /\ UNCHANGED <<loop, envVars>>
      /\ ~HandlerAt(id, "reported")
  BY DEF Handler, HandlerAt, Writes
<1>3. CompletionMatches'
  BY <1>1, <1>2, CompletionsKept DEF TypeOK
<1>4. client' \in [Id -> {"none", "open", "gone"}] /\ completed' \in Seq(Id)
  BY <1>1, <1>2 DEF TypeOK
<1>. QED
  BY <1>1, <1>2, <1>3, <1>4, ThreadStep

LEMMA HandlerTakesIInv == ASSUME IInv, NEW id \in Id, HandlerTakes(id) PROVE IInv'
<1>1. GoodAt(id) /\ routes[id].handler = "take"
  BY LiveIsGood DEF HandlerTakes, HandlerAt
<1>2. CASE Silent(routes[id])
  <2>1. Handler(id, "take", Handled(routes[id])) /\ Quiet
    BY <1>2 DEF HandlerTakes, Silent
  <2>2. Good(id, Handled(routes[id]), given[id], output[id], executor[id], loop)
    BY <1>1, <1>2, SkipsGood DEF GoodAt
  <2>. QED
    BY <2>1, <2>2, QuietStep
<1>3. CASE ~Silent(routes[id]) /\ routes[id].error
  <2>1. PICK new : new = [routes[id] EXCEPT !.handler = "write", !.writing = End("Error"),
                                            !.error = FALSE, !.errorSent = TRUE]
    OBVIOUS
  <2>2. Handler(id, "take", new) /\ Quiet
    BY <1>3, <2>1, Zenon DEF HandlerTakes, Silent
  <2>3. Good(id, new, given[id], output[id], executor[id], loop)
    BY <1>1, <1>3, <2>1, TakesErrorGood, Zenon DEF GoodAt
  <2>. QED
    BY <2>2, <2>3, QuietStep
<1>4. CASE ~Silent(routes[id]) /\ ~routes[id].error
  <2>1. PICK new : new = [routes[id] EXCEPT !.handler = "write", !.writing = routes[id].message]
    OBVIOUS
  <2>2. Handler(id, "take", new) /\ Quiet
    BY <1>4, <2>1, Zenon DEF HandlerTakes, Silent
  <2>3. Good(id, new, given[id], output[id], executor[id], loop)
    BY <1>1, <1>4, <2>1, TakesGood, Zenon DEF GoodAt
  <2>. QED
    BY <2>2, <2>3, QuietStep
<1>. QED
  BY <1>2, <1>3, <1>4

LEMMA HandlerLastIInv == ASSUME IInv, NEW id \in Id, HandlerLast(id) PROVE IInv'
<1>1. GoodAt(id) /\ routes[id].handler = "last"
  BY LiveIsGood DEF HandlerLast, HandlerAt
<1>2. PICK said : said = [routes[id] EXCEPT !.handler = "report", !.error = FALSE]
  OBVIOUS
<1>3. CASE ~Silent(routes[id]) /\ routes[id].error
  <2>1. \/ Handler(id, "last", said) /\ Writes(id, End("Error"))
        \/ Handler(id, "last", [said EXCEPT !.clientError = TRUE]) /\ Quiet
    BY <1>2, <1>3, Zenon DEF HandlerLast, Silent
  <2>2. CASE Handler(id, "last", said) /\ Writes(id, End("Error"))
    <3>1. Good(id, said, Append(given[id], End("Error")), output[id], executor[id], loop)
      BY <1>1, <1>2, <1>3, LastErrorGood, Zenon DEF GoodAt
    <3>. QED
      BY <2>2, <3>1, WritingStep
  <2>3. CASE Handler(id, "last", [said EXCEPT !.clientError = TRUE]) /\ Quiet
    <3>1. PICK new : new = [said EXCEPT !.clientError = TRUE]
      OBVIOUS
    <3>2. Good(id, new, given[id], output[id], executor[id], loop)
      BY <1>1, <1>2, <3>1, LastFailsGood, Zenon DEF GoodAt
    <3>3. Handler(id, "last", new) /\ Quiet
      BY <2>3, <3>1
    <3>. QED
      BY <3>2, <3>3, QuietStep
  <2>. QED
    BY <2>1, <2>2, <2>3
<1>4. CASE Silent(routes[id]) \/ ~routes[id].error
  <2>1. PICK new : new = [routes[id] EXCEPT !.handler = "report"]
    OBVIOUS
  <2>2. Handler(id, "last", new) /\ Quiet
    BY <1>4, <2>1, Zenon DEF HandlerLast, Silent
  <2>3. Good(id, new, given[id], output[id], executor[id], loop)
    BY <1>1, <1>4, <2>1, LastGood, Zenon DEF GoodAt
  <2>. QED
    BY <2>2, <2>3, QuietStep
<1>. QED
  BY <1>3, <1>4

\* The routes whose completion the loop has not taken.
Done == {j \in Id : HandlerAt(j, "reported") /\ ~routes[j].joined}

Distinct(c, d) ==
  /\ \A i \in DOMAIN c : c[i] \in d
  /\ \A i, j \in DOMAIN c : c[i] = c[j] => i = j

LEMMA MatchesDone ==
  ASSUME TypeOK, CompletionMatches
  PROVE Distinct(completed, Done) /\ completed \in Seq(Id)
BY DEF TypeOK, CompletionMatches, Distinct, Done

LEMMA DoneMatches ==
  ASSUME NEW c, NEW d, completed' = c, Done' = d, Distinct(c, d), c \in Seq(Id)
  PROVE CompletionMatches'
BY DEF CompletionMatches, Distinct, Done

LEMMA DistinctAppend ==
  ASSUME NEW c \in Seq(Id), NEW d, NEW id \in Id \ d, Distinct(c, d)
  PROVE Distinct(Append(c, id), d \cup {id}) /\ Append(c, id) \in Seq(Id)
<1>1. PICK a : a = Append(c, id)
  OBVIOUS
<1>2. /\ DOMAIN c = 1 .. Len(c) /\ DOMAIN a = 1 .. Len(c) + 1 /\ Len(c) \in Nat
      /\ a[Len(c) + 1] = id /\ a \in Seq(Id)
  BY <1>1
<1>3. \A i \in DOMAIN c : a[i] = c[i]
  BY <1>1
<1>4. ASSUME NEW i \in DOMAIN a
      PROVE \/ i \in DOMAIN c /\ a[i] = c[i] /\ a[i] \in d
            \/ i = Len(c) + 1 /\ a[i] = id
  <2>1. i \in DOMAIN c \/ i = Len(c) + 1
    BY <1>2
  <2>. QED
    BY <1>2, <1>3, <2>1 DEF Distinct
<1>5. ASSUME NEW i \in DOMAIN a, NEW j \in DOMAIN a, a[i] = a[j]
      PROVE i = j
  BY <1>4, <1>5 DEF Distinct
<1>. QED
  BY <1>1, <1>2, <1>4, <1>5 DEF Distinct

LEMMA DistinctTail ==
  ASSUME NEW c \in Seq(Id), c # <<>>, NEW d, Distinct(c, d)
  PROVE Distinct(Tail(c), d \ {Head(c)}) /\ Tail(c) \in Seq(Id) /\ Head(c) \in d
<1>1. PICK t : t = Tail(c)
  OBVIOUS
<1>2. /\ DOMAIN c = 1 .. Len(c) /\ DOMAIN t = 1 .. Len(c) - 1 /\ Len(c) \in Nat
      /\ Head(c) = c[1] /\ t \in Seq(Id) /\ 1 \in DOMAIN c
  BY <1>1
<1>3. \A i \in DOMAIN t : t[i] = c[i + 1] /\ i + 1 \in DOMAIN c /\ i + 1 # 1 /\ i \in Int
  BY <1>1, <1>2
<1>4. \A i \in DOMAIN t : t[i] \in d \ {c[1]}
  BY <1>2, <1>3 DEF Distinct
<1>5. ASSUME NEW i \in DOMAIN t, NEW j \in DOMAIN t, t[i] = t[j]
      PROVE i = j
  <2>1. i + 1 = j + 1
    BY <1>3, <1>5 DEF Distinct
  <2>. QED
    BY <1>3, <2>1
<1>. QED
  BY <1>1, <1>2, <1>4, <1>5 DEF Distinct

\* The completion of a handler is the only one of its route.
LEMMA HandlerReportsIInv == ASSUME IInv, NEW id \in Id, HandlerReports(id) PROVE IInv'
<1>1. TypeOK /\ CompletionMatches /\ Live(id) /\ GoodAt(id) /\ routes[id].handler = "report"
  BY LiveIsGood DEF IInv, HandlerReports, Handler, HandlerAt
<1>2. PICK new : new = [routes[id] EXCEPT !.handler = "reported"]
  OBVIOUS
<1>3. Good(id, new, given[id], output[id], executor[id], loop)
  BY <1>1, <1>2, ReportsGood, Zenon DEF GoodAt
<1>4. /\ routes' = [routes EXCEPT ![id] = new] /\ completed' = Append(completed, id)
      /\ given' = given /\ client' = client /\ UNCHANGED <<loop, envVars>>
  BY <1>2, Zenon DEF HandlerReports, Handler
<1>5. /\ routes'[id] = new /\ \A j \in Id \ {id} : routes'[j] = routes[j]
      /\ routes[id] \in Route
  BY <1>1, <1>4, LiveIsRoute DEF TypeOK
<1>6. HandlerAt(id, "reported")' /\ ~routes'[id].joined
  <2>1. new.handler = "reported" /\ new.joined = routes[id].joined
    BY <1>2, <1>5 DEF Route
  <2>2. ~routes[id].joined
    BY <1>1 DEF GoodAt, Good, Sound, PlaceOK
  <2>3. new # NoRoute
    BY <1>3, LiveIsRoute, <1>1 DEF Good
  <2>. QED
    BY <1>5, <2>1, <2>2, <2>3 DEF HandlerAt, Live
<1>7. CompletionMatches'
  <2>1. Done' = Done \cup {id} /\ id \notin Done
    BY <1>1, <1>5, <1>6 DEF Done, HandlerAt, Live
  <2>2. PICK c, d, e : c = completed /\ d = Done /\ e = Done'
    OBVIOUS
  <2>3. Distinct(c, d) /\ c \in Seq(Id)
    BY <1>1, <2>2, MatchesDone
  <2>4. Distinct(Append(c, id), e) /\ Append(c, id) \in Seq(Id)
    BY <2>1, <2>2, <2>3, DistinctAppend
  <2>. QED
    BY <1>4, <2>2, <2>4, DoneMatches
<1>8. given' = [given EXCEPT ![id] = given[id]] /\ client' \in [Id -> {"none", "open", "gone"}]
      /\ completed' \in Seq(Id)
  BY <1>1, <1>4 DEF TypeOK
<1>. QED
  BY <1>1, <1>3, <1>4, <1>7, <1>8, ThreadStep

LEMMA HandlerIInv == ASSUME IInv, NEW id \in Id, HandlerStep(id) PROVE IInv'
<1>1. Live(id) /\ GoodAt(id)
  <2>1. Live(id)
    BY DEF HandlerStep, HandlerStarts, HandlerGivesUp, HandlerReceives, HandlerDisconnected,
           HandlerStopsUpload, HandlerTakes, HandlerWrites, HandlerWriteFails,
           HandlerJoinsUpload, HandlerLast, HandlerReports, Handler, HandlerAt
  <2>. QED
    BY <2>1, LiveIsGood
<1>2. CASE HandlerStarts(id)
  <2>1. PICK new : new = [routes[id] EXCEPT !.handler = "recv", !.uploader = "reading"]
    OBVIOUS
  <2>2. Handler(id, "start", new) /\ Quiet /\ routes[id].handler = "start"
    BY <1>2, <2>1, Zenon DEF HandlerStarts, Handler, HandlerAt
  <2>3. Good(id, new, given[id], output[id], executor[id], loop)
    BY <1>1, <2>1, <2>2, StartsGood, Zenon DEF GoodAt
  <2>. QED
    BY <2>2, <2>3, QuietStep
<1>3. CASE HandlerGivesUp(id)
  <2>1. PICK new : new = [Cancelled(routes[id]) EXCEPT !.handler = "report"]
    OBVIOUS
  <2>2. Handler(id, "start", new) /\ Quiet /\ routes[id].handler = "start"
    BY <1>3, <2>1, Zenon DEF HandlerGivesUp, Handler, HandlerAt
  <2>3. Good(id, new, given[id], output[id], executor[id], loop)
    BY <1>1, <2>1, <2>2, GivesUpGood, Zenon DEF GoodAt
  <2>. QED
    BY <2>2, <2>3, QuietStep
<1>4. CASE HandlerReceives(id)
  <2>1. PICK m : m = Head(routes[id].responses)
    OBVIOUS
  <2>2. PICK new : new = [routes[id] EXCEPT
          !.responses = Tail(@), !.message = m, !.stopping = @ \/ IsTerminal(m),
          !.handler = IF IsTerminal(m) THEN "stop" ELSE "take"]
    OBVIOUS
  <2>3. /\ Handler(id, "recv", new) /\ Quiet /\ routes[id].handler = "recv"
        /\ routes[id].responses # <<>>
    BY <1>4, <2>1, <2>2, Zenon DEF HandlerReceives, Handler, HandlerAt
  <2>4. Good(id, new, given[id], output[id], executor[id], loop)
    BY <1>1, <2>1, <2>2, <2>3, ReceivesGood, Zenon DEF GoodAt
  <2>. QED
    BY <2>3, <2>4, QuietStep
<1>5. CASE HandlerDisconnected(id)
  <2>1. PICK new : new = [routes[id] EXCEPT !.handler = "closing"]
    OBVIOUS
  <2>2. /\ Handler(id, "recv", new) /\ Quiet /\ routes[id].handler = "recv"
        /\ routes[id].responses = <<>> /\ ~routes[id].held
    BY <1>5, <2>1, Zenon DEF HandlerDisconnected, Handler, HandlerAt
  <2>3. Good(id, new, given[id], output[id], executor[id], loop)
    BY <1>1, <2>1, <2>2, DisconnectedGood, Zenon DEF GoodAt
  <2>. QED
    BY <2>2, <2>3, QuietStep
<1>6. CASE HandlerStopsUpload(id)
  <2>1. PICK new : new = [routes[id] EXCEPT !.handler = "take"]
    OBVIOUS
  <2>2. /\ Handler(id, "stop", new) /\ Quiet /\ routes[id].handler = "stop"
        /\ routes[id].uploader # "reading"
    BY <1>6, <2>1, Zenon DEF HandlerStopsUpload, Handler, HandlerAt, UploadOver
  <2>3. Good(id, new, given[id], output[id], executor[id], loop)
    BY <1>1, <2>1, <2>2, StopsUploadGood, Zenon DEF GoodAt
  <2>. QED
    BY <2>2, <2>3, QuietStep
<1>7. CASE HandlerTakes(id)
  BY <1>7, HandlerTakesIInv
<1>8. CASE HandlerWrites(id)
  <2>1. /\ Handler(id, "write", Handled(routes[id])) /\ Writes(id, routes[id].writing)
        /\ routes[id].handler = "write"
    BY <1>8 DEF HandlerWrites, Handler, HandlerAt
  <2>2. Good(id, Handled(routes[id]), Append(given[id], routes[id].writing), output[id],
             executor[id], loop)
    BY <1>1, <2>1, WritesGood DEF GoodAt
  <2>. QED
    BY <2>1, <2>2, WritingStep
<1>9. CASE HandlerWriteFails(id)
  <2>1. PICK new : new = [Cancelled(Handled(routes[id])) EXCEPT !.clientError = TRUE]
    OBVIOUS
  <2>2. Handler(id, "write", new) /\ Quiet /\ routes[id].handler = "write"
    BY <1>9, <2>1, Zenon DEF HandlerWriteFails, Handler, HandlerAt
  <2>3. Good(id, new, given[id], output[id], executor[id], loop)
    BY <1>1, <2>1, <2>2, WriteFailsGood, Zenon DEF GoodAt
  <2>. QED
    BY <2>2, <2>3, QuietStep
<1>10. CASE HandlerJoinsUpload(id)
  <2>1. PICK new : new = [routes[id] EXCEPT !.handler = "last"]
    OBVIOUS
  <2>2. Handler(id, "closing", new) /\ Quiet /\ routes[id].handler = "closing"
    BY <1>10, <2>1, Zenon DEF HandlerJoinsUpload, Handler, HandlerAt
  <2>3. Good(id, new, given[id], output[id], executor[id], loop)
    BY <1>1, <2>1, <2>2, JoinsUploadGood, Zenon DEF GoodAt
  <2>. QED
    BY <2>2, <2>3, QuietStep
<1>11. CASE HandlerLast(id)
  BY <1>11, HandlerLastIInv
<1>12. CASE HandlerReports(id)
  BY <1>12, HandlerReportsIInv
<1>. QED
  BY <1>2, <1>3, <1>4, <1>5, <1>6, <1>7, <1>8, <1>9, <1>10, <1>11, <1>12 DEF HandlerStep

\* Whatever the uploader ends with.
LEMMA UploaderIInv ==
  ASSUME IInv, NEW id \in Id, NEW new, Uploader(id, new), UploadDone(new, routes[id])
  PROVE IInv'
<1>1. /\ TypeOK /\ CompletionMatches /\ Live(id) /\ GoodAt(id) /\ routes[id].uploader = "reading"
      /\ routes[id] \in Route
  BY LiveIsGood DEF IInv, Uploader, GoodAt, Good
<1>2. Good(id, new, given[id], output[id], executor[id], loop)
  BY <1>1, UploadGood DEF GoodAt
<1>3. /\ routes' = [routes EXCEPT ![id] = new] /\ completed' = completed
      /\ given' = given /\ client' = client /\ UNCHANGED <<loop, envVars>>
  BY DEF Uploader
<1>4. routes'[id] = new /\ \A j \in Id \ {id} : routes'[j] = routes[j]
  BY <1>1, <1>3 DEF TypeOK
<1>5. Live(id)' /\ new.handler = routes[id].handler /\ new.joined = routes[id].joined
  <2>1. new # NoRoute
    BY <1>1, <1>2, LiveIsRoute DEF Good
  <2>. QED
    BY <1>4, <2>1 DEF Live, UploadDone
<1>6. CompletionMatches'
  BY <1>1, <1>3, <1>4, <1>5, CompletionsStay
<1>7. given' = [given EXCEPT ![id] = given[id]] /\ client' \in [Id -> {"none", "open", "gone"}]
      /\ completed' \in Seq(Id)
  BY <1>1, <1>3 DEF TypeOK
<1>. QED
  BY <1>1, <1>2, <1>3, <1>6, <1>7, ThreadStep

LEMMA UploadsIInv ==
  ASSUME IInv, NEW id \in Id, UploadEnds(id) \/ UploadsCancel(id) \/ UploadRefused(id)
  PROVE IInv'
<1>1. routes[id] \in Route
  BY LiveIsRoute DEF IInv, UploadEnds, UploadsCancel, UploadRefused, Uploader
<1>2. CASE UploadEnds(id)
  <2>1. PICK new : new = IF Quietly(routes[id]) THEN [routes[id] EXCEPT !.uploader = "ended"]
                         ELSE [Failed(routes[id]) EXCEPT !.uploader = "ended", !.stopping = TRUE]
    OBVIOUS
  <2>2. Uploader(id, new)
    BY <1>2, <2>1, Zenon DEF UploadEnds
  <2>3. UploadDone(new, routes[id])
    BY <1>1, <2>1, UploadDones, Zenon
  <2>. QED
    BY <2>2, <2>3, UploaderIInv
<1>3. CASE UploadsCancel(id)
  <2>1. PICK new : new = [routes[id] EXCEPT !.uploader = "cancelled"]
    OBVIOUS
  <2>2. Uploader(id, new) /\ UploadDone(new, routes[id])
    BY <1>1, <1>3, <2>1, UploadDones, Zenon DEF UploadsCancel
  <2>. QED
    BY <2>2, UploaderIInv
<1>4. CASE UploadRefused(id)
  <2>1. PICK new : new = [Failed(routes[id]) EXCEPT !.uploader = "ended"]
    OBVIOUS
  <2>2. Uploader(id, new) /\ UploadDone(new, routes[id])
    BY <1>1, <1>4, <2>1, UploadDones, Zenon DEF UploadRefused
  <2>. QED
    BY <2>2, UploaderIInv
<1>. QED
  BY <1>2, <1>3, <1>4

LEMMA ClientLeavesIInv == ASSUME IInv, NEW id \in Id, ClientLeaves(id) PROVE IInv'
<1>1. /\ UNCHANGED <<routes, completed, loop, envVars, given>>
      /\ client' = [client EXCEPT ![id] = "gone"]
  BY DEF ClientLeaves
<1>2. opens' = opens /\ executor' = executor /\ output' = output
  BY <1>1 DEF envVars
<1>3. TypeOK'
  BY <1>1, <1>2 DEF IInv, TypeOK
<1>4. CompletionMatches' /\ LoopOK'
  BY <1>1, <1>2 DEF IInv, CompletionMatches, HandlerAt, LoopOK, Live
<1>5. ASSUME NEW j \in Id
      PROVE (Live(j) => SoundAt(j))' /\ GivenOK(given[j], output[j], executor[j])'
  BY <1>1, <1>2 DEF IInv, SoundAt, Live
<1>. QED
  BY <1>3, <1>4, <1>5 DEF IInv

-----------------------------------------------------------------------------
(* The main loop. The executor goes on by m: another piece, or its end.      *)

Longer(o, e, p, f, m) ==
  /\ e = "running"
  /\ \/ m \in Piece /\ p = Append(o, m) /\ f = "running"
     \/ f \in Terminal /\ m = End(f) /\ p = o

LEMMA StreamGrows ==
  ASSUME NEW o \in Seq(Piece), NEW e, NEW p, NEW f, NEW m, Longer(o, e, p, f, m)
  PROVE /\ p \in Seq(Piece) /\ f \in {"none", "running"} \cup Terminal /\ m \in Message
        /\ IsTerminal(m) => f # "running"
        /\ ~IsTerminal(m) => Len(p) = Len(o) + 1
        /\ StreamAt(p, f, Len(o) + 1, m)
        /\ \A n, x : StreamAt(o, e, n, x) => StreamAt(p, f, n, x)
        /\ \A g \in Seq(Message) : /\ Kept(g, o) => Kept(g, p)
                                   /\ GivenOK(g, o, e) => GivenOK(g, p, f)
<1>1. Len(o) \in Nat /\ e = "running" /\ "running" \notin Terminal /\ e # "Exit"
  BY DEF Longer, Terminal
<1>2. CASE m \in Piece /\ p = Append(o, m) /\ f = "running"
  <2>1. /\ p \in Seq(Piece) /\ Len(p) = Len(o) + 1 /\ p[Len(o) + 1] = m
        /\ m \in Message /\ ~IsTerminal(m)
    BY <1>2, Messages
  <2>2. \A k \in 1 .. Len(o) : k \in 1 .. Len(p) /\ p[k] = o[k]
    BY <1>1, <1>2, <2>1
  <2>3. StreamAt(p, f, Len(o) + 1, m)
    BY <1>1, <2>1 DEF StreamAt
  <2>4. ASSUME NEW n, NEW x, StreamAt(o, e, n, x) PROVE StreamAt(p, f, n, x)
    BY <1>1, <2>2, <2>4 DEF StreamAt
  <2>5. ASSUME NEW g \in Seq(Message), Kept(g, o) PROVE Kept(g, p)
    BY <1>1, <2>1, <2>2, <2>5 DEF Kept
  <2>6. ASSUME NEW g \in Seq(Message), GivenOK(g, o, e) PROVE GivenOK(g, p, f)
    <3>1. ASSUME NEW k \in 1 .. Len(g), k <= Len(o), g[k] = o[k]
          PROVE k <= Len(p) /\ g[k] = p[k]
      BY <1>1, <2>1, <2>2, <3>1
    <3>. QED
      BY <1>1, <2>6, <3>1 DEF GivenOK
  <2>. QED
    BY <1>1, <1>2, <2>1, <2>3, <2>4, <2>5, <2>6
<1>3. CASE f \in Terminal /\ m = End(f) /\ p = o
  <2>1. m \in Message /\ IsTerminal(m)
    BY <1>3, Messages
  <2>2. StreamAt(p, f, Len(o) + 1, m)
    BY <1>3 DEF StreamAt
  <2>3. ASSUME NEW n, NEW x, StreamAt(o, e, n, x) PROVE StreamAt(p, f, n, x)
    BY <1>1, <1>3, <2>3 DEF StreamAt
  <2>4. ASSUME NEW g \in Seq(Message), GivenOK(g, o, e) PROVE GivenOK(g, p, f)
    BY <1>1, <1>3, <2>4 DEF GivenOK
  <2>. QED
    BY <1>1, <1>3, <2>1, <2>2, <2>3, <2>4
<1>. QED
  BY <1>2, <1>3 DEF Longer

\* A route without a sender, or whose handler let go of the receiver, is only settled.
LEMMA SettlesGood ==
  ASSUME NEW id, NEW r, NEW g, NEW o, NEW e, NEW l, Good(id, r, g, o, e, l), l.pc = "run",
         NEW p, NEW f, NEW m, Longer(o, e, p, f, m),
         ~r.held \/ r.handler \in {"report", "reported"},
         NEW t \in BOOLEAN, t <=> IsTerminal(m),
         NEW s, s = Settled([r EXCEPT !.held = FALSE], t), s # NoRoute
  PROVE s \in Route /\ SameCore(s, r) /\ Sound(id, s, g, p, f, l)
<1>1. PICK h : h = [r EXCEPT !.held = FALSE]
  OBVIOUS
<1>2. /\ h \in Route /\ SameCore(h, r) /\ ~h.held /\ h.error = r.error
      /\ h.terminalSeen = r.terminalSeen
  BY <1>1 DEF Good, Route, SameCore
<1>3. /\ s \in Route /\ SameCore(s, h) /\ s.error = h.error /\ ~s.held
      /\ s.terminalSeen <=> h.terminalSeen \/ t
  <2>1. s = Settled(h, t)
    BY <1>1
  <2>. QED
    BY <1>2, <2>1, SettledFacts DEF SettledAs
<1>4. SameCore(s, r) /\ s.error = r.error
  BY <1>2, <1>3 DEF SameCore
<1>5. /\ e = "running"
      /\ IsTerminal(m) => f # "running"
      /\ \A n, x : StreamAt(o, e, n, x) => StreamAt(p, f, n, x)
      /\ Kept(g, o) => Kept(g, p)
  BY StreamGrows DEF Good, Longer
<1>6. PlaceOK(s, f)
  BY <1>2, <1>3, <1>4, <1>5 DEF Good, Sound, PlaceOK, SameCore
<1>7. FlowOK(id, s, g, p, f, l)
  BY <1>3, <1>4, <1>5 DEF Good, Sound, FlowOK, SameCore, Pend, Silent, Forwarding, Holding
<1>8. TellOK(id, s, g, l)
  BY <1>3, <1>4 DEF Good, Sound, TellOK, SameCore, Silent, Forwarding, Holding
<1>. QED
  BY <1>3, <1>4, <1>6, <1>7, <1>8 DEF Sound

\* The route r with the response m in its channel.
Delivers(s, r, m) ==
  /\ s \in Route /\ s.handler = r.handler /\ s.uploader = r.uploader
  /\ s.message = r.message /\ s.writing = r.writing
  /\ s.clientError = r.clientError /\ s.errorSent = r.errorSent
  /\ s.responses = Append(r.responses, m) /\ s.joined = r.joined /\ s.error = r.error
  /\ s.held <=> ~IsTerminal(m)
  /\ s.terminalSeen <=> r.terminalSeen \/ IsTerminal(m)

LEMMA DeliversFacts ==
  ASSUME NEW r \in Route, r.held, ~r.joined, NEW m \in Message,
         NEW t \in BOOLEAN, t <=> IsTerminal(m),
         NEW s, s = Settled([r EXCEPT !.responses = Append(@, m)], t)
  PROVE Delivers(s, r, m)
<1>1. PICK a, h : a = Append(r.responses, m) /\ h = [r EXCEPT !.responses = a]
  OBVIOUS
<1>2. /\ h \in Route /\ h.handler = r.handler /\ h.uploader = r.uploader
      /\ h.message = r.message /\ h.writing = r.writing
      /\ h.clientError = r.clientError /\ h.errorSent = r.errorSent
      /\ h.responses = a /\ h.joined = r.joined /\ h.held = r.held
      /\ h.error = r.error /\ h.terminalSeen = r.terminalSeen
  <2>1. a \in Seq(Message)
    BY <1>1 DEF Route
  <2>. QED
    BY <1>1, <2>1 DEF Route
<1>3. s = Settled(h, t)
  BY <1>1
<1>4. SettledAs(s, h, t)
  BY <1>2, <1>3, SettledFacts, Zenon
<1>. QED
  BY <1>1, <1>2, <1>4 DEF SettledAs, SameCore, Delivers

\* A response in the channel stands at its place of the stream.
LEMMA DeliversGood ==
  ASSUME NEW id, NEW r, NEW g, NEW o, NEW e, NEW l, Good(id, r, g, o, e, l), l.pc = "run",
         NEW p, NEW f, NEW m, Longer(o, e, p, f, m),
         r.held, r.handler \notin {"report", "reported"},
         NEW s, Delivers(s, r, m)
  PROVE /\ s \in Route /\ s.handler = r.handler /\ s.joined = r.joined
        /\ Sound(id, s, g, p, f, l)
<1>1. /\ IsTerminal(m) => f # "running"
      /\ ~IsTerminal(m) => Len(p) = Len(o) + 1
      /\ StreamAt(p, f, Len(o) + 1, m)
      /\ \A n, x : StreamAt(o, e, n, x) => StreamAt(p, f, n, x)
      /\ Kept(g, o) => Kept(g, p)
      /\ m \in Message /\ e = "running"
  BY StreamGrows DEF Good, Longer
<1>2. r.responses \in Seq(Message) /\ Len(r.responses) \in Nat /\ Len(g) \in Nat
  BY DEF Good, Route
<1>3. PICK a : a = Append(r.responses, m)
  OBVIOUS
<1>4. /\ a \in Seq(Message) /\ Len(a) = Len(r.responses) + 1 /\ a[Len(a)] = m /\ a # <<>>
  BY <1>3, <1>1, <1>2
<1>5. \A k \in 1 .. Len(r.responses) : a[k] = r.responses[k]
  BY <1>3, <1>1, <1>2
<1>6. /\ s \in Route /\ s.handler = r.handler /\ s.uploader = r.uploader
      /\ s.message = r.message /\ s.writing = r.writing
      /\ s.clientError = r.clientError /\ s.errorSent = r.errorSent
      /\ s.responses = a /\ s.joined = r.joined /\ s.error = r.error
      /\ s.terminalSeen => r.terminalSeen \/ IsTerminal(m)
      /\ s.held <=> ~IsTerminal(m)
  BY <1>3 DEF Delivers
<1>7. PlaceOK(s, f)
  BY <1>1, <1>6 DEF Good, Sound, PlaceOK
<1>8. FlowOK(id, s, g, p, f, l)
  <2>1. ASSUME r.handler \in Forwarding, ~Silent(r)
        PROVE /\ Kept(g, o)
              /\ r.handler \in Holding => StreamAt(o, e, Len(g) + 1, r.message)
              /\ \A k \in 1 .. Len(r.responses) :
                   StreamAt(o, e, Len(g) + Pend(r) + k, r.responses[k])
              /\ Len(g) + Pend(r) + Len(r.responses) = Len(o)
    BY <2>1 DEF Good, Sound, FlowOK, Dropping
  <2>2. ASSUME r.handler \in Forwarding, ~Silent(r)
        PROVE Len(g) + Pend(r) + (Len(r.responses) + 1) = Len(o) + 1
    <3>1. Pend(r) \in Nat /\ Len(o) \in Nat
      BY DEF Pend, Good
    <3>2. Len(g) + Pend(r) + Len(r.responses) = Len(o)
      BY <2>1, <2>2
    <3>3. PICK x, y, z, w \in Nat :
            x = Len(g) /\ y = Pend(r) /\ z = Len(r.responses) /\ w = Len(o)
      BY <1>2, <3>1
    <3>4. x + y + z = w
      BY <3>2, <3>3, Zenon
    <3>5. x + y + (z + 1) = w + 1
      BY <3>4
    <3>. QED
      BY <3>3, <3>5, Zenon
  <2>3. ASSUME r.handler \in Forwarding, ~Silent(r), NEW k \in 1 .. Len(a)
        PROVE StreamAt(p, f, Len(g) + Pend(r) + k, a[k])
    <3>1. CASE k \in 1 .. Len(r.responses)
      BY <1>1, <1>5, <2>1, <2>3, <3>1
    <3>2. CASE k \notin 1 .. Len(r.responses)
      <4>1. k = Len(a)
        BY <1>2, <1>4, <3>2
      <4>2. Len(g) + Pend(r) + k = Len(o) + 1
        BY <1>4, <2>3, <2>2, <4>1
      <4>. QED
        BY <1>1, <1>4, <4>1, <4>2
    <3>. QED
      BY <3>1, <3>2
  <2>4. ASSUME r.handler \in Forwarding, ~Silent(r), ~IsTerminal(m)
        PROVE Len(g) + Pend(r) + Len(a) = Len(p)
    BY <1>1, <1>4, <2>4, <2>2
  <2>5. Pend(s) = Pend(r) /\ (Silent(s) <=> Silent(r))
    BY <1>6 DEF Pend, Silent
  <2>6. r.handler \in {"closing", "last"} /\ ~Silent(r) => Kept(g, o)
    BY <1>1 DEF Good, Sound, FlowOK
  <2>7. r.handler = "write" => Kept(g, o)
    BY DEF Good, Sound, FlowOK
  <2>. QED
    BY <1>1, <1>6, <2>1, <2>3, <2>4, <2>5, <2>6, <2>7 DEF FlowOK
<1>9. TellOK(id, s, g, l)
  BY <1>4, <1>6 DEF Good, Sound, TellOK, Silent, Forwarding, Holding, Dropping
<1>. QED
  BY <1>6, <1>7, <1>8, <1>9 DEF Sound

\* An error is recorded before the sender is dropped.
LEMMA FailsGood ==
  ASSUME NEW id, NEW r, NEW g, NEW o, NEW e, NEW l, Good(id, r, g, o, e, l), l.pc = "run",
         NEW p, NEW f, NEW m, Longer(o, e, p, f, m), NEW k, k.pc = "drop", k.id = id,
         NEW s, s = Failed(r)
  PROVE s \in Route /\ SameCore(s, r) /\ Sound(id, s, g, p, f, k)
<1>1. /\ s \in Route /\ SameCore(s, r) /\ s.held = r.held /\ s.error
      /\ s.terminalSeen = r.terminalSeen
  BY FailedFacts DEF Good
<1>2. /\ e = "running" /\ e \notin Terminal
      /\ \A n, x : StreamAt(o, e, n, x) => StreamAt(p, f, n, x)
      /\ Kept(g, o) => Kept(g, p)
  BY StreamGrows DEF Good, Longer, Terminal
<1>3. PlaceOK(s, f)
  <2>1. ASSUME r.handler = "write", ~r.errorSent PROVE ~IsTerminal(r.message)
    <3>1. StreamAt(o, e, Len(g) + 1, r.message)
      BY <2>1 DEF Good, Sound, PlaceOK, FlowOK, Forwarding, Holding, Silent
    <3>. QED
      BY <1>2, <3>1, TerminalIsLast DEF Good
  <2>. QED
    BY <1>1, <1>2, <2>1 DEF Good, Sound, PlaceOK, SameCore
<1>4. FlowOK(id, s, g, p, f, k)
  BY <1>1, <1>2 DEF Good, Sound, FlowOK, SameCore, Pend, Silent, Forwarding, Holding, Dropping
<1>5. TellOK(id, s, g, k)
  BY <1>1 DEF Good, Sound, TellOK, SameCore, Silent, Forwarding, Holding, Open
<1>. QED
  BY <1>1, <1>3, <1>4, <1>5 DEF Sound

\* The sender is dropped.
LEMMA DropsGood ==
  ASSUME NEW id, NEW r, NEW g, NEW o, NEW e, NEW l, Good(id, r, g, o, e, l),
         l.pc = "drop", l.id = id, l.terminal => e # "running", l.terminal \in BOOLEAN,
         NEW s, s = Settled([r EXCEPT !.held = FALSE], l.terminal), s # NoRoute
  PROVE s \in Route /\ SameCore(s, r) /\ Sound(id, s, g, o, e, Run)
<1>1. PICK h : h = [r EXCEPT !.held = FALSE]
  OBVIOUS
<1>2. /\ h \in Route /\ SameCore(h, r) /\ ~h.held /\ h.error = r.error
      /\ h.terminalSeen = r.terminalSeen
  BY <1>1 DEF Good, Route, SameCore
<1>3. /\ s \in Route /\ SameCore(s, h) /\ s.error = h.error /\ ~s.held
      /\ s.terminalSeen <=> h.terminalSeen \/ l.terminal
  <2>1. s = Settled(h, l.terminal)
    BY <1>1
  <2>. QED
    BY <1>2, <2>1, SettledFacts DEF SettledAs
<1>4. SameCore(s, r) /\ s.error = r.error
  BY <1>2, <1>3 DEF SameCore
<1>5. PlaceOK(s, e)
  BY <1>2, <1>3, <1>4 DEF Good, Sound, PlaceOK, SameCore
<1>6. FlowOK(id, s, g, o, e, Run)
  BY <1>3, <1>4 DEF Good, Sound, FlowOK, SameCore, Pend, Silent, Forwarding, Holding
<1>7. r.handler \in Forwarding /\ ~Silent(r) => ~Told(g)
  BY KeptIsUntold DEF Good, Sound, FlowOK
<1>8. Open(l) /\ Dropping(id, l) /\ Run.pc = "run"
  BY DEF Open, Dropping, Run
<1>9. TellOK(id, s, g, Run)
  BY <1>3, <1>4, <1>7, <1>8 DEF Good, Sound, TellOK, SameCore, Silent, Forwarding, Holding, Dropping
<1>. QED
  BY <1>3, <1>4, <1>5, <1>6, <1>9 DEF Sound

LEMMA DoneKept ==
  ASSUME TypeOK, CompletionMatches, completed' = completed, Done \subseteq Done'
  PROVE CompletionMatches'
<1>1. PICK c, d, b : c = completed /\ d = Done /\ b = Done'
  OBVIOUS
<1>2. Distinct(c, d) /\ c \in Seq(Id) /\ d \subseteq b
  BY <1>1, MatchesDone
<1>3. Distinct(c, b)
  BY <1>2 DEF Distinct
<1>. QED
  BY <1>1, <1>2, <1>3, DoneMatches

LoopType ==
  [pc : {"run", "drop", "teardown", "join", "stopped"}, id : Id \cup {NoId}, terminal : BOOLEAN]

\* A step of the loop for the request id, whose route becomes s.
LEMMA LoopStepOf ==
  ASSUME IInv, NEW id \in Id, Live(id), NEW s \in Route \cup {NoRoute}, NEW p \in Seq(Piece),
         NEW f \in {"none", "running"} \cup Terminal, NEW k \in LoopType,
         routes' = [routes EXCEPT ![id] = s], output' = [output EXCEPT ![id] = p],
         executor' = [executor EXCEPT ![id] = f], loop' = k,
         UNCHANGED <<completed, opens, client, given>>,
         loop.pc = "run" \/ Dropping(id, loop),
         k.pc = "run" \/ Dropping(id, k),
         s = NoRoute => routes[id].joined /\ f # "running" /\ k.pc = "run",
         s # NoRoute => /\ s.handler = routes[id].handler /\ s.joined = routes[id].joined
                        /\ Sound(id, s, given[id], p, f, k),
         k.terminal /\ k.pc = "drop" => f # "running",
         GivenOK(given[id], p, f)
  PROVE IInv'
<1>1. TypeOK /\ CompletionMatches /\ Open(loop)
  BY DEF IInv, Open, Dropping
<1>2. /\ routes'[id] = s /\ output'[id] = p /\ executor'[id] = f
      /\ \A j \in Id \ {id} : /\ routes'[j] = routes[j] /\ output'[j] = output[j]
                              /\ executor'[j] = executor[j]
      /\ completed' = completed /\ opens' = opens /\ client' = client /\ given' = given
  BY <1>1 DEF TypeOK
<1>3. /\ routes' \in [Id -> Route \cup {NoRoute}] /\ output' \in [Id -> Seq(Piece)]
      /\ executor' \in [Id -> {"none", "running"} \cup Terminal] /\ loop' \in LoopType
  BY <1>1 DEF TypeOK
<1>4. TypeOK'
  BY <1>1, <1>2, <1>3 DEF TypeOK, LoopType
<1>5. CompletionMatches'
  <2>1. Done \subseteq Done'
    BY <1>2 DEF Done, HandlerAt, Live
  <2>. QED
    BY <1>1, <1>2, <2>1, DoneKept
<1>6. LoopOK'
  <2>1. ASSUME k.pc = "drop"
        PROVE k.id = id /\ routes'[id] # NoRoute /\ (k.terminal => executor'[id] # "running")
    BY <1>2, <2>1 DEF Dropping
  <2>2. ASSUME NEW j \in Id, ~Live(j)' PROVE executor'[j] # "running"
    <3>1. CASE j = id
      BY <1>2, <2>2, <3>1 DEF Live
    <3>2. CASE j # id
      BY <1>1, <1>2, <2>2, <3>2 DEF Live, IInv, LoopOK
    <3>. QED
      BY <3>1, <3>2
  <2>. QED
    BY <2>1, <2>2 DEF LoopOK, Live
<1>7. OthersAlone(id)
  BY <1>2 DEF OthersAlone, Dropping
<1>8. Live(id)' => Sound(id, routes'[id], given'[id], output'[id], executor'[id], loop')
  BY <1>2 DEF Live
<1>9. GivenOK(given'[id], output'[id], executor'[id])
  BY <1>2
<1>. QED
  BY <1>1, <1>4, <1>5, <1>6, <1>7, <1>8, <1>9, StepOfOne

\* A response, or the place where it is lost.
LEMMA RespondIInv ==
  ASSUME IInv, NEW id \in Id, Live(id), LoopAt("run"), NEW m, Respond(id, m),
         NEW p, NEW f, Longer(output[id], executor[id], p, f, m),
         output' = [output EXCEPT ![id] = p], executor' = [executor EXCEPT ![id] = f],
         UNCHANGED <<completed, opens, client, given>>
  PROVE IInv'
<1>1. /\ TypeOK /\ loop \in LoopType /\ loop.pc = "run" /\ routes[id] \in Route
      /\ given[id] \in Seq(Message) /\ output[id] \in Seq(Piece)
      /\ Good(id, routes[id], given[id], output[id], executor[id], loop)
  BY LiveIsGood DEF IInv, LoopAt, TypeOK, LoopType, GoodAt, Good
<1>2. /\ p \in Seq(Piece) /\ f \in {"none", "running"} \cup Terminal /\ m \in Message
      /\ IsTerminal(m) => f # "running"
      /\ GivenOK(given[id], p, f)
  BY <1>1, StreamGrows DEF Good
<1>3. (IsTerminal(m)) \in BOOLEAN
  BY DEF IsTerminal
<1>4. PICK t \in BOOLEAN : t = IsTerminal(m)
  BY <1>3, Zenon
<1>5. PICK r : r = routes[id]
  OBVIOUS
<1>6. CASE /\ ~r.held \/ ReceiverGone(id)
           /\ routes' = [routes EXCEPT ![id] = Settled([r EXCEPT !.held = FALSE], t)]
           /\ UNCHANGED loop
  <2>1. PICK s : s = Settled([r EXCEPT !.held = FALSE], t)
    OBVIOUS
  <2>2. ~r.held \/ r.handler \in {"report", "reported"}
    BY <1>5, <1>6 DEF ReceiverGone
  <2>3. s = NoRoute => r.joined /\ f # "running"
    <3>1. PICK h : h = [r EXCEPT !.held = FALSE]
      OBVIOUS
    <3>2. h \in Route /\ h.joined = r.joined
      BY <1>1, <1>5, <3>1 DEF Route
    <3>3. s = Settled(h, t)
      BY <2>1, <3>1
    <3>4. \A x \in Route : x # NoRoute
      BY <1>1, LiveIsRoute
    <3>. QED
      BY <1>2, <1>4, <3>2, <3>3, <3>4, SettledFacts DEF SettledAs
  <2>4. ASSUME s # NoRoute
        PROVE s \in Route /\ SameCore(s, r) /\ Sound(id, s, given[id], p, f, loop)
    BY <1>1, <1>4, <1>5, <2>1, <2>2, <2>4, SettlesGood
  <2>5. routes' = [routes EXCEPT ![id] = s] /\ loop' = loop
    BY <1>6, <2>1
  <2>. QED
    BY <1>1, <1>2, <1>5, <2>3, <2>4, <2>5, LoopStepOf DEF SameCore
<1>7. CASE /\ Delivered(id)
           /\ routes' = [routes EXCEPT ![id] = Settled([r EXCEPT !.responses = Append(@, m)], t)]
           /\ UNCHANGED loop
  <2>1. PICK s : s = Settled([r EXCEPT !.responses = Append(@, m)], t)
    OBVIOUS
  <2>2. r.held /\ r.handler \notin {"report", "reported"}
    BY <1>5, <1>7 DEF Delivered, ReceiverGone
  <2>3. /\ s \in Route /\ s.handler = r.handler /\ s.joined = r.joined
        /\ Sound(id, s, given[id], p, f, loop)
    <3>1. r \in Route /\ ~r.joined /\ (t <=> IsTerminal(m))
      BY <1>1, <1>4, <1>5, <2>2 DEF Good, Sound, PlaceOK
    <3>2. Delivers(s, r, m)
      BY <1>2, <2>1, <2>2, <3>1, DeliversFacts, Zenon
    <3>. QED
      BY <1>1, <1>5, <2>2, <3>2, DeliversGood
  <2>4. routes' = [routes EXCEPT ![id] = s] /\ loop' = loop
    BY <1>7, <2>1
  <2>5. s # NoRoute
    BY <1>1, <2>3, LiveIsRoute
  <2>. QED
    BY <1>1, <1>2, <1>5, <2>3, <2>4, <2>5, LoopStepOf
<1>8. CASE /\ routes' = [routes EXCEPT ![id] = Failed(r)]
           /\ loop' = [pc |-> "drop", id |-> id, terminal |-> t]
  <2>1. PICK s, k : s = Failed(r) /\ k = [pc |-> "drop", id |-> id, terminal |-> t]
    OBVIOUS
  <2>2. k \in LoopType /\ k.pc = "drop" /\ k.id = id /\ k.terminal = t
    BY <2>1 DEF LoopType
  <2>3. s \in Route /\ SameCore(s, r) /\ Sound(id, s, given[id], p, f, k)
    BY <1>1, <1>5, <2>1, <2>2, FailsGood
  <2>4. routes' = [routes EXCEPT ![id] = s] /\ loop' = k
    BY <1>8, <2>1
  <2>5. s # NoRoute
    BY <1>1, <2>3, LiveIsRoute
  <2>6. k.terminal => f # "running"
    BY <1>2, <1>4, <2>2
  <2>7. s.handler = r.handler /\ s.joined = r.joined /\ Dropping(id, k)
    BY <2>2, <2>3 DEF SameCore, Dropping
  <2>. QED
    BY <1>1, <1>2, <1>5, <2>2, <2>3, <2>4, <2>5, <2>6, <2>7, LoopStepOf
<1>. QED
  <2>1. \/ /\ ~r.held \/ ReceiverGone(id)
           /\ routes' = [routes EXCEPT ![id] = Settled([r EXCEPT !.held = FALSE], t)]
           /\ UNCHANGED loop
        \/ /\ Delivered(id)
           /\ routes' = [routes EXCEPT ![id] =
                Settled([r EXCEPT !.responses = Append(@, m)], t)]
           /\ UNCHANGED loop
        \/ /\ routes' = [routes EXCEPT ![id] = Failed(r)]
           /\ loop' = [pc |-> "drop", id |-> id, terminal |-> t]
    BY <1>4, <1>5, Zenon DEF Respond
  <2>. QED
    BY <1>6, <1>7, <1>8, <2>1

\* A route the loop cannot find has no invocation left to hear of.
LEMMA RunningIsLive ==
  ASSUME IInv, NEW id \in Id, LoopAt("run"), executor[id] = "running"
  PROVE Live(id)
BY DEF IInv, LoopOK, LoopAt, Open

LEMMA NextPiecesAre == ASSUME NEW sent \in Seq(Piece) PROVE NextPieces(sent) \subseteq Piece
<1>1. Len(sent) + 1 \in Nat /\ 0 .. MaxSize \subseteq Nat
  BY BrokerAssumption
<1>. QED
  BY <1>1 DEF NextPieces, Piece

LEMMA HandleOutputIInv ==
  ASSUME IInv, NEW id \in Id, NEW m \in NextPieces(output[id]), HandleOutput(id, m)
  PROVE IInv'
<1>1. /\ LoopAt("run") /\ executor[id] = "running"
      /\ output' = [output EXCEPT ![id] = Append(output[id], m)]
      /\ UNCHANGED <<completed, opens, executor, client, given>>
  BY DEF HandleOutput, Sends
<1>2. Live(id) /\ Respond(id, m)
  BY <1>1, RunningIsLive DEF HandleOutput
<1>3. output[id] \in Seq(Piece) /\ executor \in [Id -> {"none", "running"} \cup Terminal]
  BY DEF IInv, TypeOK
<1>4. m \in Piece
  BY <1>3, NextPiecesAre
<1>5. PICK p, f : p = Append(output[id], m) /\ f = executor[id]
  OBVIOUS
<1>6. Longer(output[id], executor[id], p, f, m)
  BY <1>1, <1>4, <1>5 DEF Longer
<1>7. executor' = [executor EXCEPT ![id] = f] /\ output' = [output EXCEPT ![id] = p]
  BY <1>1, <1>3, <1>5
<1>. QED
  BY <1>1, <1>2, <1>6, <1>7, RespondIInv

LEMMA HandleTerminalIInv ==
  ASSUME IInv, NEW id \in Id, NEW kind \in Terminal, HandleTerminal(id, kind)
  PROVE IInv'
<1>1. /\ LoopAt("run") /\ executor[id] = "running"
      /\ executor' = [executor EXCEPT ![id] = kind]
      /\ UNCHANGED <<completed, opens, output, client, given>>
  BY DEF HandleTerminal
<1>2. Live(id) /\ Respond(id, End(kind))
  BY <1>1, RunningIsLive DEF HandleTerminal
<1>3. output \in [Id -> Seq(Piece)]
  BY DEF IInv, TypeOK
<1>4. PICK p, m : p = output[id] /\ m = End(kind)
  OBVIOUS
<1>5. Longer(output[id], executor[id], p, kind, m)
  BY <1>1, <1>4 DEF Longer
<1>6. output' = [output EXCEPT ![id] = p]
  BY <1>1, <1>3, <1>4
<1>. QED
  BY <1>1, <1>2, <1>4, <1>5, <1>6, RespondIInv

LEMMA HandleOverloadIInv ==
  ASSUME IInv, NEW id \in Id, NEW m \in NextPieces(output[id]), HandleOverload(id, m)
  PROVE IInv'
<1>1. /\ LoopAt("run") /\ loop.pc = "run" /\ executor[id] = "running"
      /\ output' = [output EXCEPT ![id] = Append(output[id], m)]
      /\ UNCHANGED <<completed, opens, executor, client, given>>
  BY DEF HandleOverload, Sends, LoopAt
<1>2. /\ Live(id)
      /\ routes' = [routes EXCEPT ![id] = Failed(routes[id])]
      /\ loop' = [pc |-> "drop", id |-> id, terminal |-> FALSE]
  BY <1>1, RunningIsLive DEF HandleOverload
<1>3. /\ output[id] \in Seq(Piece) /\ executor \in [Id -> {"none", "running"} \cup Terminal]
      /\ Good(id, routes[id], given[id], output[id], executor[id], loop)
      /\ routes[id] \in Route /\ given[id] \in Seq(Message)
  BY <1>2, LiveIsGood DEF IInv, TypeOK, GoodAt, Good
<1>4. m \in Piece
  BY <1>3, NextPiecesAre
<1>5. PICK p, f, r : p = Append(output[id], m) /\ f = executor[id] /\ r = routes[id]
  OBVIOUS
<1>6. Longer(output[id], executor[id], p, f, m)
  BY <1>1, <1>4, <1>5 DEF Longer
<1>7. /\ p \in Seq(Piece) /\ f \in {"none", "running"} \cup Terminal
      /\ GivenOK(given[id], p, f)
  BY <1>3, <1>6, StreamGrows DEF Good
<1>8. executor' = [executor EXCEPT ![id] = f] /\ output' = [output EXCEPT ![id] = p]
  BY <1>1, <1>3, <1>5
<1>9. PICK s, k : s = Failed(r) /\ k = [pc |-> "drop", id |-> id, terminal |-> FALSE]
  OBVIOUS
<1>10. k \in LoopType /\ k.pc = "drop" /\ k.id = id /\ ~k.terminal
  BY <1>9 DEF LoopType
<1>11. s \in Route /\ SameCore(s, r) /\ Sound(id, s, given[id], p, f, k)
  BY <1>1, <1>3, <1>5, <1>6, <1>9, <1>10, FailsGood
<1>12. routes' = [routes EXCEPT ![id] = s] /\ loop' = k
  BY <1>2, <1>5, <1>9
<1>13. s # NoRoute /\ s.handler = r.handler /\ s.joined = r.joined /\ Dropping(id, k)
  BY <1>10, <1>11, LiveIsRoute DEF SameCore, Dropping, IInv
<1>14. /\ s \in Route \cup {NoRoute}
       /\ s = NoRoute => routes[id].joined /\ f # "running" /\ k.pc = "run"
       /\ s # NoRoute => /\ s.handler = routes[id].handler /\ s.joined = routes[id].joined
                         /\ Sound(id, s, given[id], p, f, k)
       /\ k.terminal /\ k.pc = "drop" => f # "running"
  BY <1>5, <1>10, <1>11, <1>13
<1>. QED
  BY <1>1, <1>2, <1>7, <1>8, <1>10, <1>12, <1>13, <1>14, LoopStepOf

LEMMA DropResponsesIInv == ASSUME IInv, DropResponses PROVE IInv'
<1>1. PICK id : id = loop.id
  OBVIOUS
<1>2. /\ loop.pc = "drop" /\ loop' = Run
      /\ routes' = [routes EXCEPT ![id] = Settled([@ EXCEPT !.held = FALSE], loop.terminal)]
      /\ UNCHANGED <<completed, envVars, client, given>>
  BY <1>1 DEF DropResponses, LoopAt
<1>3. loop.terminal => executor[id] # "running"
  BY <1>1, <1>2 DEF IInv, LoopOK
<1>4. id \in Id /\ Live(id)
  BY <1>1, <1>2 DEF IInv, LoopOK
<1>5. /\ TypeOK /\ loop \in LoopType /\ loop.terminal \in BOOLEAN /\ routes[id] \in Route
      /\ Good(id, routes[id], given[id], output[id], executor[id], loop)
  BY <1>4, LiveIsGood DEF IInv, TypeOK, LoopType, GoodAt, Good
<1>6. PICK r, h, s : /\ r = routes[id] /\ h = [r EXCEPT !.held = FALSE]
                     /\ s = Settled(h, loop.terminal)
  OBVIOUS
<1>7. h \in Route /\ h.joined = r.joined
  BY <1>5, <1>6 DEF Route
<1>8. s = NoRoute => r.joined /\ loop.terminal
  BY <1>4, <1>5, <1>6, <1>7, SettledFacts, LiveIsRoute DEF SettledAs
<1>9. s = Settled([r EXCEPT !.held = FALSE], loop.terminal)
  BY <1>6
<1>10. s # NoRoute => s \in Route /\ SameCore(s, r)
                      /\ Sound(id, s, given[id], output[id], executor[id], Run)
  BY <1>1, <1>2, <1>3, <1>4, <1>5, <1>6, <1>9, DropsGood
<1>11. routes' = [routes EXCEPT ![id] = s]
  BY <1>2, <1>6, Zenon
<1>12. /\ output' = [output EXCEPT ![id] = output[id]]
       /\ executor' = [executor EXCEPT ![id] = executor[id]]
       /\ UNCHANGED <<completed, opens, client, given>>
       /\ output[id] \in Seq(Piece) /\ executor[id] \in {"none", "running"} \cup Terminal
  BY <1>2, <1>4, <1>5 DEF TypeOK, envVars
<1>13. Run \in LoopType /\ Run.pc = "run" /\ Dropping(id, loop)
  BY <1>1, <1>2 DEF Run, LoopType, Dropping
<1>14. GivenOK(given[id], output[id], executor[id])
  BY <1>5 DEF Good
<1>15. PICK k : k = Run
  OBVIOUS
<1>16. /\ s \in Route \cup {NoRoute}
       /\ s = NoRoute => routes[id].joined /\ executor[id] # "running" /\ k.pc = "run"
       /\ s # NoRoute => /\ s.handler = routes[id].handler /\ s.joined = routes[id].joined
                         /\ Sound(id, s, given[id], output[id], executor[id], k)
       /\ k.pc # "drop"
  BY <1>3, <1>6, <1>8, <1>10, <1>13, <1>15 DEF SameCore
<1>17. loop' = k /\ k \in LoopType /\ k.pc = "run"
  BY <1>2, <1>13, <1>15
<1>. QED
  BY <1>4, <1>11, <1>12, <1>13, <1>14, <1>16, <1>17, LoopStepOf

LEMMA AdmitIInv == ASSUME IInv, NEW id \in Id, Admit(id) PROVE IInv'
<1>1. /\ TypeOK /\ CompletionMatches /\ loop.pc = "run" /\ ~Live(id)
      /\ opens' = [opens EXCEPT ![id] = @ + 1]
      /\ routes' = [routes EXCEPT ![id] = NewRoute]
      /\ executor' = [executor EXCEPT ![id] = "running"]
      /\ output' = [output EXCEPT ![id] = <<>>]
      /\ client' = [client EXCEPT ![id] = "open"]
      /\ given' = [given EXCEPT ![id] = <<>>]
      /\ completed' = completed /\ loop' = loop
  BY DEF Admit, IInv, LoopAt
<1>2. /\ NewRoute \in Route /\ NewRoute # NoRoute
      /\ NewRoute.handler = "start" /\ NewRoute.uploader = "none" /\ NewRoute.held
      /\ NewRoute.responses = <<>> /\ ~NewRoute.joined /\ ~NewRoute.terminalSeen
      /\ ~NewRoute.clientError /\ ~NewRoute.errorSent
  BY Messages DEF NewRoute, Route, HandlerState, NoRoute
<1>3. opens' \in [Id -> Nat]
  <2>1. PICK n \in Nat : n = opens[id] + 1
    BY <1>1 DEF TypeOK
  <2>2. opens' = [opens EXCEPT ![id] = n]
    BY <1>1, <2>1, Zenon
  <2>. QED
    BY <1>1, <2>1, <2>2 DEF TypeOK
<1>4. TypeOK'
  BY <1>1, <1>2, <1>3 DEF TypeOK
<1>5. /\ routes'[id] = NewRoute /\ executor'[id] = "running" /\ output'[id] = <<>>
      /\ given'[id] = <<>>
      /\ \A j \in Id \ {id} : /\ routes'[j] = routes[j] /\ output'[j] = output[j]
                              /\ executor'[j] = executor[j] /\ given'[j] = given[j]
  BY <1>1 DEF TypeOK
<1>6. CompletionMatches'
  <2>1. Done \subseteq Done'
    BY <1>1, <1>5 DEF Done, HandlerAt, Live
  <2>. QED
    BY <1>1, <2>1, DoneKept
<1>7. LoopOK'
  BY <1>1, <1>2, <1>5 DEF IInv, LoopOK, Live
<1>8. OthersAlone(id)
  BY <1>1, <1>5 DEF OthersAlone
<1>9. PlaceOK(NewRoute, "running") /\ TellOK(id, NewRoute, <<>>, loop)
  BY <1>1, <1>2 DEF PlaceOK, TellOK, Dropping
<1>10. FlowOK(id, NewRoute, <<>>, <<>>, "running", loop)
  BY <1>2 DEF FlowOK, Kept, Pend, Holding
<1>11. GivenOK(<<>>, <<>>, "running")
  BY DEF GivenOK
<1>. QED
  BY <1>1, <1>4, <1>5, <1>6, <1>7, <1>8, <1>9, <1>10, <1>11, StepOfOne DEF Sound

LEMMA DrainCompletionIInv == ASSUME IInv, DrainCompletion PROVE IInv'
<1>1. PICK id : id = Head(completed)
  OBVIOUS
<1>2. /\ TypeOK /\ CompletionMatches /\ completed # <<>> /\ loop.pc = "run"
      /\ completed' = Tail(completed)
      /\ UNCHANGED <<loop, envVars, client, given>>
  BY DEF DrainCompletion, IInv, LoopAt
<1>3. PICK c, d : c = completed /\ d = Done
  OBVIOUS
<1>4. /\ Distinct(Tail(c), d \ {id}) /\ Tail(c) \in Seq(Id) /\ id \in Done
  BY <1>1, <1>2, <1>3, MatchesDone, DistinctTail
<1>5. id \in Id /\ Live(id) /\ routes[id].handler = "reported"
  BY <1>4 DEF Done, HandlerAt
<1>6. routes[id] \in Route /\ GoodAt(id)
  BY <1>2, <1>5, LiveIsRoute, LiveIsGood
<1>7. PICK s : s = IF routes[id].terminalSeen THEN NoRoute ELSE [routes[id] EXCEPT !.joined = TRUE]
  OBVIOUS
<1>8. routes' = [routes EXCEPT ![id] = s]
  BY <1>1, <1>5, <1>7, Zenon DEF DrainCompletion
<1>9. ASSUME ~routes[id].terminalSeen
      PROVE /\ s \in Route /\ s # NoRoute /\ s.handler = routes[id].handler
            /\ s.uploader = routes[id].uploader /\ s.message = routes[id].message
            /\ s.writing = routes[id].writing /\ s.clientError = routes[id].clientError
            /\ s.errorSent = routes[id].errorSent /\ s.responses = routes[id].responses
            /\ s.held = routes[id].held /\ s.error = routes[id].error
            /\ s.terminalSeen = routes[id].terminalSeen
  <2>1. s = [routes[id] EXCEPT !.joined = TRUE]
    BY <1>7, <1>9
  <2>2. PICK r \in Route : r = routes[id]
    BY <1>6
  <2>3. s = [r EXCEPT !.joined = TRUE]
    BY <2>1, <2>2
  <2>4. \A x \in Route : x # NoRoute
    BY <1>2, <1>5, LiveIsRoute
  <2>5. /\ s \in Route /\ s.handler = r.handler
        /\ s.uploader = r.uploader /\ s.message = r.message
        /\ s.writing = r.writing /\ s.clientError = r.clientError
        /\ s.errorSent = r.errorSent /\ s.responses = r.responses
        /\ s.held = r.held /\ s.error = r.error /\ s.terminalSeen = r.terminalSeen
    BY <2>3 DEF Route
  <2>. QED
    BY <2>2, <2>4, <2>5
<1>10. /\ routes'[id] = s /\ \A j \in Id \ {id} : routes'[j] = routes[j]
       /\ opens' = opens /\ executor' = executor /\ output' = output /\ loop' = loop
       /\ client' = client /\ given' = given
  BY <1>2, <1>5, <1>8 DEF TypeOK, envVars
<1>11. TypeOK'
  <2>1. s \in Route \cup {NoRoute}
    BY <1>7, <1>9
  <2>2. routes' \in [Id -> Route \cup {NoRoute}]
    BY <1>2, <1>8, <2>1 DEF TypeOK
  <2>3. completed' \in Seq(Id)
    BY <1>2, <1>3, <1>4
  <2>. QED
    BY <1>2, <1>10, <2>2, <2>3 DEF TypeOK
<1>12. CompletionMatches'
  <2>1. Done \ {id} \subseteq Done'
    BY <1>10 DEF Done, HandlerAt, Live
  <2>2. PICK t, b : t = Tail(c) /\ b = Done'
    OBVIOUS
  <2>3. Distinct(t, b) /\ t \in Seq(Id)
    BY <1>3, <1>4, <2>1, <2>2 DEF Distinct
  <2>. QED
    BY <1>2, <1>3, <2>2, <2>3, DoneMatches
<1>13. routes[id].terminalSeen => executor[id] # "running"
  BY <1>6 DEF GoodAt, Good, Sound, PlaceOK
<1>14. LoopOK'
  <2>1. ASSUME NEW j \in Id, ~Live(j)' PROVE executor[j] # "running"
    <3>1. CASE j = id
      BY <1>9, <1>10, <1>13, <2>1, <3>1 DEF Live
    <3>2. CASE j # id
      BY <1>2, <1>10, <2>1, <3>2 DEF IInv, LoopOK, Live, Open
    <3>. QED
      BY <3>1, <3>2
  <2>. QED
    BY <1>2, <1>10, <2>1 DEF LoopOK
<1>15. OthersAlone(id)
  BY <1>10 DEF OthersAlone
<1>16. Live(id)' => Sound(id, routes'[id], given'[id], output'[id], executor'[id], loop')
  <2>1. ASSUME ~routes[id].terminalSeen
        PROVE Sound(id, s, given[id], output[id], executor[id], loop)
    <3>1. PICK r, g, o, e, l : /\ r = routes[id] /\ g = given[id] /\ o = output[id]
                               /\ e = executor[id] /\ l = loop
      OBVIOUS
    <3>2. Sound(id, r, g, o, e, l)
      BY <1>6, <3>1 DEF GoodAt, Good
    <3>3. PlaceOK(s, e) /\ FlowOK(id, s, g, o, e, l) /\ TellOK(id, s, g, l)
      BY <1>5, <1>9, <2>1, <3>1, <3>2
      DEF Sound, PlaceOK, FlowOK, TellOK, Forwarding, Holding, Silent
    <3>. QED
      BY <3>1, <3>3 DEF Sound
  <2>2. routes[id].terminalSeen => ~Live(id)'
    BY <1>7, <1>10 DEF Live
  <2>. QED
    BY <1>10, <2>1, <2>2
<1>17. GivenOK(given'[id], output'[id], executor'[id])
  BY <1>5, <1>10 DEF IInv
<1>. QED
  BY <1>5, <1>10, <1>11, <1>12, <1>14, <1>15, <1>16, <1>17, StepOfOne

LEMMA EndLoopIInv == ASSUME IInv, EndLoop PROVE IInv'
<1>1. PICK k : k = [Run EXCEPT !.pc = "teardown"]
  OBVIOUS
<1>2. /\ loop' = k /\ UNCHANGED <<routes, completed, envVars, client, given>> /\ loop.pc = "run"
      /\ TypeOK
  BY <1>1 DEF EndLoop, LoopAt, IInv
<1>3. opens' = opens /\ executor' = executor /\ output' = output
  BY <1>2 DEF envVars
<1>4. k \in LoopType /\ k.pc = "teardown"
  BY <1>1 DEF Run, LoopType
<1>5. TypeOK'
  BY <1>2, <1>3, <1>4 DEF TypeOK, LoopType
<1>6. CompletionMatches' /\ LoopOK'
  BY <1>2, <1>3, <1>4 DEF IInv, CompletionMatches, HandlerAt, Live, LoopOK, Open
<1>7. ASSUME NEW j \in Id, Live(j)' PROVE SoundAt(j)'
  <2>1. PICK r, g, o, e, l : /\ r = routes[j] /\ g = given[j] /\ o = output[j]
                             /\ e = executor[j] /\ l = loop
    OBVIOUS
  <2>2. Sound(j, r, g, o, e, l)
    BY <1>2, <1>7, <2>1 DEF IInv, SoundAt, Live
  <2>3. Sound(j, r, g, o, e, k)
    BY <1>2, <1>4, <2>1, <2>2, SoundKept DEF Open, Dropping
  <2>. QED
    BY <1>2, <1>3, <2>1, <2>3 DEF SoundAt
<1>8. ASSUME NEW j \in Id PROVE GivenOK(given[j], output[j], executor[j])'
  BY <1>2, <1>3 DEF IInv
<1>. QED
  BY <1>5, <1>6, <1>7, <1>8 DEF IInv

\* The loop that ends drops every sender.
LEMMA TeardownFacts ==
  ASSUME NEW r \in Route
  PROVE LET s == [Cancelled(r) EXCEPT !.held = FALSE]
        IN /\ s \in Route /\ SameCore(s, r) /\ ~s.held /\ s.error = r.error
           /\ s.terminalSeen = r.terminalSeen
<1>1. PICK c \in Route : /\ c = Cancelled(r) /\ SameCore(c, r) /\ c.error = r.error
                         /\ c.terminalSeen = r.terminalSeen
  BY CancelledFacts
<1>2. PICK s : s = [c EXCEPT !.held = FALSE]
  OBVIOUS
<1>3. /\ s \in Route /\ SameCore(s, c) /\ ~s.held /\ s.error = c.error
      /\ s.terminalSeen = c.terminalSeen
  BY <1>2 DEF Route, SameCore
<1>. QED
  BY <1>1, <1>2, <1>3 DEF SameCore

LEMMA TeardownIInv == ASSUME IInv, Teardown PROVE IInv'
<1>1. PICK k : k = [Run EXCEPT !.pc = "join"]
  OBVIOUS
<1>2. /\ loop' = k /\ UNCHANGED <<completed, envVars, client, given>>
      /\ TypeOK /\ CompletionMatches
      /\ routes' = [id \in Id |->
           IF Live(id) THEN [Cancelled(routes[id]) EXCEPT !.held = FALSE] ELSE NoRoute]
  BY <1>1 DEF Teardown, IInv
<1>3. opens' = opens /\ executor' = executor /\ output' = output
  BY <1>2 DEF envVars
<1>4. k \in LoopType /\ k.pc = "join"
  BY <1>1 DEF Run, LoopType
<1>5. ASSUME NEW j \in Id, Live(j)
      PROVE /\ routes'[j] \in Route /\ routes'[j] # NoRoute /\ SameCore(routes'[j], routes[j])
            /\ ~routes'[j].held /\ routes'[j].error = routes[j].error
            /\ routes'[j].terminalSeen = routes[j].terminalSeen
  <2>1. routes'[j] = [Cancelled(routes[j]) EXCEPT !.held = FALSE]
    BY <1>2, <1>5
  <2>2. routes[j] \in Route /\ \A r \in Route : r # NoRoute
    BY <1>2, <1>5, LiveIsRoute
  <2>. QED
    BY <2>1, <2>2, TeardownFacts
<1>6. \A j \in Id : ~Live(j) => routes'[j] = NoRoute
  BY <1>2
<1>7. TypeOK'
  <2>1. routes' \in [Id -> Route \cup {NoRoute}]
    <3>1. \A j \in Id : routes'[j] \in Route \cup {NoRoute}
      BY <1>5, <1>6
    <3>. QED
      BY <1>2, <3>1
  <2>. QED
    BY <1>2, <1>3, <1>4, <2>1 DEF TypeOK, LoopType
<1>8. CompletionMatches'
  <2>1. Done \subseteq Done'
    BY <1>5 DEF Done, HandlerAt, Live, SameCore
  <2>. QED
    BY <1>2, <2>1, DoneKept
<1>9. LoopOK'
  BY <1>2, <1>4 DEF LoopOK, Open
<1>10. ASSUME NEW j \in Id, Live(j)' PROVE SoundAt(j)'
  <2>1. PICK r, s, g, o, e, l : /\ r = routes[j] /\ s = routes'[j] /\ g = given[j]
                                /\ o = output[j] /\ e = executor[j] /\ l = loop
    OBVIOUS
  <2>2. Live(j)
    BY <1>6, <1>10 DEF Live
  <2>3. /\ s \in Route /\ SameCore(s, r) /\ ~s.held /\ s.error = r.error
        /\ s.terminalSeen = r.terminalSeen /\ Sound(j, r, g, o, e, l)
    BY <1>5, <2>1, <2>2 DEF IInv, SoundAt
  <2>4. PlaceOK(s, e)
    BY <2>3 DEF Sound, PlaceOK, SameCore
  <2>5. FlowOK(j, s, g, o, e, k)
    BY <2>3 DEF Sound, FlowOK, SameCore, Pend, Silent, Forwarding, Holding
  <2>6. TellOK(j, s, g, k)
    BY <1>4, <2>3 DEF Sound, TellOK, SameCore, Open
  <2>. QED
    BY <1>2, <1>3, <2>1, <2>4, <2>5, <2>6 DEF SoundAt, Sound
<1>11. ASSUME NEW j \in Id PROVE GivenOK(given[j], output[j], executor[j])'
  BY <1>2, <1>3 DEF IInv
<1>. QED
  BY <1>7, <1>8, <1>9, <1>10, <1>11 DEF IInv

LEMMA JoinAllIInv == ASSUME IInv, JoinAll PROVE IInv'
<1>1. PICK k : k = [Run EXCEPT !.pc = "stopped"]
  OBVIOUS
<1>2. /\ loop' = k /\ UNCHANGED <<envVars, client, given>> /\ completed' = <<>> /\ TypeOK
      /\ routes' = [id \in Id |-> NoRoute]
  BY <1>1 DEF JoinAll, IInv
<1>3. opens' = opens /\ executor' = executor /\ output' = output
  BY <1>2 DEF envVars
<1>4. k \in LoopType /\ k.pc = "stopped"
  BY <1>1 DEF Run, LoopType
<1>5. TypeOK'
  BY <1>2, <1>3, <1>4 DEF TypeOK, LoopType
<1>6. CompletionMatches' /\ LoopOK'
  BY <1>2, <1>4 DEF CompletionMatches, LoopOK, Open
<1>7. \A j \in Id : ~Live(j)'
  BY <1>2 DEF Live
<1>8. ASSUME NEW j \in Id PROVE GivenOK(given[j], output[j], executor[j])'
  BY <1>2, <1>3 DEF IInv
<1>. QED
  BY <1>5, <1>6, <1>7, <1>8 DEF IInv

-----------------------------------------------------------------------------
(* The theorems.                                                           *)

LEMMA InitIInv == ASSUME Init PROVE IInv
<1>1. TypeOK
  BY DEF Init, TypeOK, Run
<1>2. CompletionMatches /\ LoopOK
  BY DEF Init, CompletionMatches, LoopOK, Run, Open
<1>3. \A id \in Id : ~Live(id) /\ GivenOK(given[id], output[id], executor[id])
  BY DEF Init, Live, GivenOK
<1>. QED
  BY <1>1, <1>2, <1>3 DEF IInv

LEMMA NextIInv == ASSUME IInv, [Next]_vars PROVE IInv'
<1>1. CASE LoopStep
  BY <1>1, DrainCompletionIInv, DropResponsesIInv, EndLoopIInv, TeardownIInv, JoinAllIInv
  DEF LoopStep
<1>2. ASSUME NEW id \in Id, Admit(id) PROVE IInv'
  BY <1>2, AdmitIInv
<1>3. ASSUME NEW id \in Id, RequestStep(id) PROVE IInv'
  BY <1>3, HandleOutputIInv, HandleOverloadIInv, HandleTerminalIInv, HandlerIInv, UploadsIInv
  DEF RequestStep
<1>4. ASSUME NEW id \in Id, ClientLeaves(id) PROVE IInv'
  BY <1>4, ClientLeavesIInv
<1>5. CASE UNCHANGED vars
  <2>1. /\ routes' = routes /\ completed' = completed /\ loop' = loop /\ client' = client
        /\ given' = given /\ opens' = opens /\ executor' = executor /\ output' = output
    BY <1>5 DEF vars, envVars
  <2>. QED
    BY <2>1 DEF IInv, TypeOK, CompletionMatches, HandlerAt, LoopOK, Live, SoundAt
<1>. QED
  BY <1>1, <1>2, <1>3, <1>4, <1>5 DEF Next

LEMMA IInvHolds == Spec => []IInv
<1>1. Init => IInv
  BY InitIInv
<1>2. IInv /\ [Next]_vars => IInv'
  BY NextIInv
<1>. QED
  BY <1>1, <1>2, PTL DEF Spec

\* Every variable of the broker keeps its type.
THEOREM BrokerTypeCorrect == Spec => []TypeOK
<1>1. IInv => TypeOK
  BY DEF IInv
<1>. QED
  BY <1>1, IInvHolds, PTL

\* However often a request ID is used, every completion finds the route it is of,
\* and no ID is free while its invocation runs on the Mac.
THEOREM RoutesAreExact == Spec => []RoutesExact
<1>1. IInv => RoutesExact
  BY DEF IInv, RoutesExact, RouteCoversExecutor, LoopOK, LoopAt, Open
<1>. QED
  BY <1>1, IInvHolds, PTL

\* The handler lets go of a client it can write to only after a terminal.
THEOREM ClientsAreTold == Spec => []ToldWhy
<1>1. IInv => ToldWhy
  <2>1. ASSUME IInv, NEW id \in Id, Live(id), Closed(id), loop.pc \in {"run", "drop"}
        PROVE \/ given[id] # <<>> /\ IsTerminal(Last(given[id]))
              \/ client[id] = "gone" \/ routes[id].clientError \/ routes[id].uploader = "none"
    <3>1. routes[id].handler \in {"report", "reported"}
      BY <2>1 DEF Closed, HandlerAt
    <3>2. Told(given[id]) \/ routes[id].clientError \/ routes[id].uploader = "none"
      BY <2>1, <3>1 DEF IInv, SoundAt, Sound, TellOK, Open
    <3>. QED
      BY <3>2 DEF Told, Last
  <2>. QED
    BY <2>1 DEF ToldWhy
<1>. QED
  BY <1>1, IInvHolds, PTL

\* What a client was given is the start of its output, in order and without a hole,
\* or ends after it with an error anywhere, or with the Exit after all of it.
THEOREM StreamsAreWhole ==
  Spec => [](\A id \in Id : GivenOK(given[id], output[id], executor[id]))
<1>1. IInv => \A id \in Id : GivenOK(given[id], output[id], executor[id])
  BY DEF IInv
<1>. QED
  BY <1>1, IInvHolds, PTL

-----------------------------------------------------------------------------
(* The stream of a client, step by step: it stays, its command sends a piece   *)
(* or ends, or the client is given the next message of the stream or an error. *)

Still == UNCHANGED <<output, executor, given>>

PieceSent(id, m) ==
  /\ m \in Piece /\ executor[id] = "running"
  /\ output' = [output EXCEPT ![id] = Append(@, m)]
  /\ UNCHANGED <<executor, given>>

CommandEnds(id, kind) ==
  /\ kind \in Terminal /\ executor[id] = "running"
  /\ executor' = [executor EXCEPT ![id] = kind]
  /\ UNCHANGED <<output, given>>

MessageGiven(id, m) ==
  /\ Kept(given[id], output[id])
  /\ \/ m = End("Error")
     \/ StreamAt(output[id], executor[id], Len(given[id]) + 1, m)
  /\ given' = [given EXCEPT ![id] = Append(@, m)]
  /\ UNCHANGED <<output, executor>>

StreamMoves(id) ==
  \/ Still
  \/ \E m \in Message : PieceSent(id, m) \/ MessageGiven(id, m)
  \/ \E kind \in Terminal : CommandEnds(id, kind)

LEMMA LoopIsStill == ASSUME LoopStep PROVE Still /\ client' = client
BY DEF LoopStep, DrainCompletion, DropResponses, EndLoop, Teardown, JoinAll, envVars, Still

LEMMA HandlerMoves ==
  ASSUME IInv, NEW id \in Id, HandlerStep(id)
  PROVE StreamMoves(id) /\ client' = client
<1>1. CASE HandlerWrites(id)
  <2>1. HandlerAt(id, "write") /\ UNCHANGED <<output, executor, client>>
        /\ given' = [given EXCEPT ![id] = Append(@, routes[id].writing)]
    BY <1>1 DEF HandlerWrites, Handler, Writes, envVars
  <2>2. Good(id, routes[id], given[id], output[id], executor[id], loop)
    BY <2>1, LiveIsGood DEF HandlerAt, GoodAt
  <2>3. PICK m \in Message : m = routes[id].writing
    BY <2>2 DEF Good, Route
  <2>4. Kept(given[id], output[id])
    BY <2>1, <2>2 DEF Good, Sound, FlowOK, HandlerAt
  <2>5. m = End("Error") \/ StreamAt(output[id], executor[id], Len(given[id]) + 1, m)
    BY <2>1, <2>2, <2>3 DEF Good, Sound, PlaceOK, FlowOK, HandlerAt, Silent, Forwarding, Holding
  <2>. QED
    BY <2>1, <2>3, <2>4, <2>5 DEF StreamMoves, MessageGiven
<1>2. CASE HandlerLast(id)
  <2>1. HandlerAt(id, "last") /\ UNCHANGED <<output, executor, client>>
    BY <1>2 DEF HandlerLast, Handler, Writes, Quiet, envVars
  <2>2. CASE UNCHANGED given
    BY <2>1, <2>2 DEF StreamMoves, Still
  <2>3. CASE given' # given
    <3>1. /\ ~routes[id].clientError /\ ~routes[id].errorSent /\ routes[id].error
          /\ given' = [given EXCEPT ![id] = Append(@, End("Error"))]
      BY <1>2, <2>3 DEF HandlerLast, Writes, Quiet
    <3>2. Good(id, routes[id], given[id], output[id], executor[id], loop)
      BY <2>1, LiveIsGood DEF HandlerAt, GoodAt
    <3>3. Kept(given[id], output[id])
      BY <2>1, <3>1, <3>2 DEF Good, Sound, FlowOK, HandlerAt, Silent
    <3>4. End("Error") \in Message
      BY Messages DEF Terminal
    <3>. QED
      BY <2>1, <3>1, <3>3, <3>4 DEF StreamMoves, MessageGiven
  <2>. QED
    BY <2>2, <2>3
<1>3. CASE ~HandlerWrites(id) /\ ~HandlerLast(id)
  <2>1. Still /\ client' = client
    BY <1>3 DEF HandlerStep, HandlerStarts, HandlerGivesUp, HandlerReceives,
       HandlerDisconnected, HandlerStopsUpload, HandlerTakes, HandlerWriteFails,
       HandlerJoinsUpload, HandlerReports, Handler, Quiet, envVars, Still
  <2>. QED
    BY <2>1 DEF StreamMoves
<1>. QED
  BY <1>1, <1>2, <1>3

LEMMA RequestMoves ==
  ASSUME IInv, NEW id \in Id, RequestStep(id)
  PROVE StreamMoves(id) /\ client' = client
<1>1. output[id] \in Seq(Piece)
  BY DEF IInv, TypeOK
<1>2. ASSUME NEW m \in NextPieces(output[id]), HandleOutput(id, m) \/ HandleOverload(id, m)
      PROVE StreamMoves(id) /\ client' = client
  <2>1. Sends(id, m) /\ m \in Piece /\ m \in Message
    BY <1>1, <1>2, NextPiecesAre, Messages DEF HandleOutput, HandleOverload
  <2>2. PieceSent(id, m) /\ client' = client
    BY <2>1 DEF Sends, PieceSent
  <2>. QED
    BY <2>1, <2>2 DEF StreamMoves
<1>3. ASSUME NEW kind \in Terminal, HandleTerminal(id, kind)
      PROVE StreamMoves(id) /\ client' = client
  <2>1. CommandEnds(id, kind) /\ client' = client
    BY <1>3 DEF HandleTerminal, CommandEnds
  <2>. QED
    BY <2>1 DEF StreamMoves
<1>4. CASE HandlerStep(id)
  BY <1>4, HandlerMoves
<1>5. CASE UploadEnds(id) \/ UploadsCancel(id) \/ UploadRefused(id)
  BY <1>5 DEF UploadEnds, UploadsCancel, UploadRefused, Uploader, envVars, Still, StreamMoves
<1>. QED
  BY <1>2, <1>3, <1>4, <1>5 DEF RequestStep

-----------------------------------------------------------------------------
(* BrokerRoute implements ClientStream.                                    *)

ExitedAre == {id \in Id : executor[id] = "Exit"}

LEMMA StreamStays ==
  ASSUME output' = output, given' = given, executor' = executor PROVE UNCHANGED Stream!vars
BY DEF Stream!vars

LEMMA StreamSends ==
  ASSUME TypeOK, NEW id \in Id, NEW m, PieceSent(id, m) PROVE Stream!Send(id)
<1>1. output[id] \in Seq(Piece) /\ output'[id] = Append(output[id], m) /\ m \in Piece
  BY DEF TypeOK, PieceSent
<1>2. output'[id] # <<>> /\ Stream!Last(output'[id]) = m
  BY <1>1 DEF Stream!Last
<1>. QED
  BY <1>1, <1>2 DEF Stream!Send, PieceSent

LEMMA StreamFinishes ==
  ASSUME TypeOK, NEW id \in Id, NEW kind, CommandEnds(id, kind)
  PROVE Stream!Finish(id) \/ UNCHANGED Stream!vars
<1>1. /\ output' = output /\ given' = given /\ executor[id] = "running"
      /\ \A j \in Id : executor'[j] = IF j = id THEN kind ELSE executor[j]
  BY DEF CommandEnds, TypeOK
<1>2. CASE kind = "Exit"
  <2>1. ExitedAre' = ExitedAre \cup {id}
    BY <1>1, <1>2 DEF ExitedAre
  <2>. QED
    BY <1>1, <2>1 DEF Stream!Finish, ExitedAre
<1>3. CASE kind # "Exit"
  <2>1. ExitedAre' = ExitedAre
    BY <1>1, <1>3 DEF ExitedAre
  <2>. QED
    BY <1>1, <2>1 DEF Stream!vars, ExitedAre
<1>. QED
  BY <1>2, <1>3

LEMMA StreamGives ==
  ASSUME TypeOK, NEW id \in Id, NEW m, MessageGiven(id, m)
  PROVE Stream!GiveNext(id) \/ Stream!GiveExit(id) \/ Stream!GiveError(id)
<1>1. /\ output' = output /\ executor' = executor
      /\ given' = [given EXCEPT ![id] = Append(@, m)]
      /\ given[id] \in Seq(Message) /\ output[id] \in Seq(Piece)
      /\ Kept(given[id], output[id])
  BY DEF MessageGiven, TypeOK
<1>2. ~Stream!Ended(id)
  <2>1. ~Told(given[id])
    BY <1>1, KeptIsUntold
  <2>2. IsTerminal(End("Exit")) /\ IsTerminal(End("Error"))
    BY Messages DEF Terminal
  <2>. QED
    BY <2>1, <2>2 DEF Stream!Ended, Stream!Last, Told
<1>3. Stream!Give(id, m)
  BY <1>1, <1>2 DEF Stream!Give
<1>4. CASE m = End("Error")
  BY <1>3, <1>4 DEF Stream!GiveError
<1>5. CASE Len(given[id]) + 1 \in 1 .. Len(output[id]) /\ m = output[id][Len(given[id]) + 1]
  BY <1>1, <1>3, <1>5 DEF Stream!GiveNext
<1>6. CASE Len(given[id]) = Len(output[id]) /\ executor[id] = "Exit" /\ m = End("Exit")
  <2>1. given[id] = output[id]
    <3>1. given[id] \in Seq(Message) /\ output[id] \in Seq(Message)
      BY <1>1, Messages
    <3>. QED
      BY <1>1, <1>6, <3>1 DEF Kept
  <2>. QED
    BY <1>3, <1>6, <2>1 DEF Stream!GiveExit
<1>7. Len(given[id]) \in Nat /\ Len(output[id]) \in Nat
  BY <1>1
<1>. QED
  BY <1>4, <1>5, <1>6, <1>7 DEF MessageGiven, StreamAt, Terminal

LEMMA StreamAgain ==
  ASSUME TypeOK, NEW id \in Id, Admit(id) PROVE Stream!Again(id)
<1>1. /\ output' = [output EXCEPT ![id] = <<>>] /\ given' = [given EXCEPT ![id] = <<>>]
      /\ \A j \in Id : executor'[j] = IF j = id THEN "running" ELSE executor[j]
  BY DEF Admit, TypeOK
<1>2. ExitedAre' = ExitedAre \ {id}
  BY <1>1 DEF ExitedAre
<1>. QED
  BY <1>1, <1>2 DEF Stream!Again, ExitedAre

LEMMA StreamNext == ASSUME IInv, [Next]_vars PROVE [Stream!Next]_(Stream!vars)
<1>1. TypeOK
  BY DEF IInv
<1>2. ASSUME Still PROVE UNCHANGED Stream!vars
  BY <1>2, StreamStays DEF Still
<1>3. CASE LoopStep
  BY <1>2, <1>3, LoopIsStill
<1>4. ASSUME NEW id \in Id, Admit(id) PROVE Stream!Next
  BY <1>1, <1>4, StreamAgain DEF Stream!Next
<1>5. ASSUME NEW id \in Id, RequestStep(id) PROVE [Stream!Next]_(Stream!vars)
  <2>1. StreamMoves(id)
    BY <1>5, RequestMoves
  <2>2. ASSUME NEW m, PieceSent(id, m) PROVE Stream!Next
    BY <1>1, <2>2, StreamSends DEF Stream!Next
  <2>3. ASSUME NEW m, MessageGiven(id, m) PROVE Stream!Next
    BY <1>1, <2>3, StreamGives DEF Stream!Next
  <2>4. ASSUME NEW kind, CommandEnds(id, kind) PROVE [Stream!Next]_(Stream!vars)
    BY <1>1, <2>4, StreamFinishes DEF Stream!Next
  <2>. QED
    BY <1>2, <2>1, <2>2, <2>3, <2>4 DEF StreamMoves
<1>6. ASSUME NEW id \in Id, ClientLeaves(id) PROVE UNCHANGED Stream!vars
  BY <1>2, <1>6 DEF ClientLeaves, envVars, Still
<1>7. CASE UNCHANGED vars
  BY <1>2, <1>7 DEF vars, envVars, Still
<1>. QED
  BY <1>3, <1>4, <1>5, <1>6, <1>7 DEF Next

LEMMA StreamInit == ASSUME Init PROVE Stream!Init
BY DEF Init, Stream!Init

\* The handler of an invocation gives its client the stream of ClientStream, whatever
\* the loop, the uploader and the executor do meanwhile.
THEOREM StreamsAreKept == Spec => StreamKept
<1>1. Init => Stream!Init
  BY StreamInit
<1>2. IInv /\ [Next]_vars => [Stream!Next]_(Stream!vars)
  BY StreamNext
<1>. QED
  BY <1>1, <1>2, IInvHolds, PTL DEF Spec, StreamKept, Stream!Spec

-----------------------------------------------------------------------------
(* The shim at the other end of the socket. What it took of the socket so far   *)
(* is output, a .part file is there while a screenshot is received, and the     *)
(* screenshots renamed are as many as the FileEnds it took.                   *)

FileEnds(g, n) == {k \in 1 .. n : g[k].kind = "FileEnd"}

AllFits(files) == \A i \in DOMAIN files : files[i].written = files[i].expected

\* What the shim s and its end of the socket (c) are while it reads ...
ReadingOK(s, g, c) ==
  /\ c = "open" /\ s.result = "none"
  /\ s.read <= Len(g)
  /\ \A k \in 1 .. s.read : ~IsTerminal(g[k])
  /\ Len(s.files) = Cardinality(FileEnds(g, s.read))
  /\ s.part <=> s.current # NoFile

\* ... and what they are in the end.
ResultOK(s, g, o) ==
  /\ s.result = "code" => /\ g = Append(o, End("Exit"))
                          /\ Len(s.files) = Cardinality(FileEnds(o, Len(o)))
  /\ s.result \in {"code", "error"} => ~s.part

ShimOK(s, g, o, c) ==
  /\ s \in ShimState
  /\ s.pc = "reading" => ReadingOK(s, g, c)
  /\ ResultOK(s, g, o)
  /\ AllFits(s.files)

ShimAt(id) == ShimOK(shim[id], given[id], output[id], client[id])

ShimInv ==
  /\ IInv
  /\ shim \in [Id -> ShimState]
  /\ \A id \in Id : ShimAt(id)

LEMMA FileEndsFacts ==
  ASSUME NEW g, NEW n \in Nat
  PROVE /\ Cardinality(FileEnds(g, 0)) = 0
        /\ Cardinality(FileEnds(g, n)) \in Nat
        /\ Cardinality(FileEnds(g, n + 1)) =
             Cardinality(FileEnds(g, n)) + (IF g[n + 1].kind = "FileEnd" THEN 1 ELSE 0)
        /\ \A h : (\A k \in 1 .. n : h[k] = g[k]) => FileEnds(h, n) = FileEnds(g, n)
<1>1. FileEnds(g, 0) = {}
  BY DEF FileEnds
<1>2. IsFiniteSet(FileEnds(g, n))
  <2>1. IsFiniteSet(1 .. n)
    BY FS_Interval
  <2>2. FileEnds(g, n) \in SUBSET (1 .. n)
    BY DEF FileEnds
  <2>. QED
    BY <2>1, <2>2, FS_Subset
<1>3. Cardinality(FileEnds(g, n)) \in Nat
  BY <1>2, FS_CardinalityType
<1>4. ASSUME g[n + 1].kind = "FileEnd"
      PROVE Cardinality(FileEnds(g, n + 1)) = Cardinality(FileEnds(g, n)) + 1
  <2>1. FileEnds(g, n + 1) = FileEnds(g, n) \cup {n + 1} /\ n + 1 \notin FileEnds(g, n)
    BY <1>4 DEF FileEnds
  <2>2. Cardinality(FileEnds(g, n + 1)) = Cardinality(FileEnds(g, n)) + 1
    BY <1>2, <2>1, FS_AddElement
  <2>. QED
    BY <2>2
<1>5. ASSUME g[n + 1].kind # "FileEnd"
      PROVE Cardinality(FileEnds(g, n + 1)) = Cardinality(FileEnds(g, n)) + 0
  <2>1. FileEnds(g, n + 1) = FileEnds(g, n)
    BY <1>5 DEF FileEnds
  <2>. QED
    BY <1>3, <1>5, <2>1
<1>6. ASSUME NEW h, \A k \in 1 .. n : h[k] = g[k] PROVE FileEnds(h, n) = FileEnds(g, n)
  BY <1>6 DEF FileEnds
<1>7. Cardinality(FileEnds(g, 0)) = 0
  BY <1>1, FS_EmptySet, Zenon
<1>. QED
  BY <1>3, <1>4, <1>5, <1>6, <1>7

\* A message taken that is no terminal.
LEMMA TakesOn ==
  ASSUME NEW s, NEW g \in Seq(Message), NEW o, NEW c, ShimOK(s, g, o, c), s.pc = "reading",
         s.read < Len(g), ~IsTerminal(g[s.read + 1]),
         NEW t \in ShimState, t.pc = "reading", t.result = "none", t.read = s.read + 1,
         t.part <=> t.current # NoFile, AllFits(t.files),
         Len(t.files) = Len(s.files) + (IF g[s.read + 1].kind = "FileEnd" THEN 1 ELSE 0)
  PROVE ShimOK(t, g, o, c)
<1>1. s.read \in Nat /\ Len(g) \in Nat
  BY DEF ShimOK, ShimState
<1>2. ReadingOK(s, g, c)
  BY DEF ShimOK
<1>3. Len(t.files) = Cardinality(FileEnds(g, t.read))
  <2>1. PICK d : d = IF g[s.read + 1].kind = "FileEnd" THEN 1 ELSE 0
    OBVIOUS
  <2>2. Cardinality(FileEnds(g, s.read + 1)) = Cardinality(FileEnds(g, s.read)) + d
    BY <1>1, <2>1, FileEndsFacts, Zenon
  <2>3. Len(s.files) = Cardinality(FileEnds(g, s.read))
    BY <1>2 DEF ReadingOK
  <2>. QED
    BY <2>1, <2>2, <2>3, Zenon
<1>4. \A k \in 1 .. t.read : ~IsTerminal(g[k])
  BY <1>1, <1>2 DEF ReadingOK
<1>5. ReadingOK(t, g, c)
  BY <1>1, <1>2, <1>3, <1>4 DEF ReadingOK
<1>. QED
  BY <1>5 DEF ShimOK, ResultOK

LEMMA OverFacts ==
  ASSUME NEW s \in ShimState, NEW result \in {"code", "error", "failed"}
  PROVE /\ Over(s, result) \in ShimState /\ Over(s, result).pc = "over"
        /\ Over(s, result).result = result /\ Over(s, result).files = s.files
        /\ Over(s, result).part = s.part
        /\ [Over(s, result) EXCEPT !.part = FALSE] \in ShimState
        /\ [Over(s, result) EXCEPT !.part = FALSE].pc = "over"
        /\ [Over(s, result) EXCEPT !.part = FALSE].result = result
        /\ [Over(s, result) EXCEPT !.part = FALSE].files = s.files
        /\ ~[Over(s, result) EXCEPT !.part = FALSE].part
<1>1. PICK t : t = Over(s, result)
  OBVIOUS
<1>2. t = [s EXCEPT !.pc = "over", !.read = 0, !.current = NoFile, !.result = result]
  BY <1>1 DEF Over
<1>3. /\ t \in ShimState /\ t.pc = "over" /\ t.result = result /\ t.files = s.files
      /\ t.part = s.part
  BY <1>2 DEF ShimState
<1>4. PICK u : u = [t EXCEPT !.part = FALSE]
  OBVIOUS
<1>5. /\ u \in ShimState /\ u.pc = "over" /\ u.result = result /\ u.files = s.files
      /\ ~u.part
  BY <1>3, <1>4 DEF ShimState
<1>. QED
  BY <1>1, <1>3, <1>4, <1>5

\* Whoever ends without the code of the command.
LEMMA EndsOK ==
  ASSUME NEW s, NEW g, NEW o, NEW c, ShimOK(s, g, o, c),
         NEW t \in ShimState, t.pc = "over", t.files = s.files,
         \/ t.result = "failed"
         \/ t.result = "error" /\ ~t.part
  PROVE ShimOK(t, g, o, "gone")
BY DEF ShimOK, ResultOK

\* Where the Exit is taken, all of the output was.
LEMMA ExitIsAll ==
  ASSUME NEW s, NEW g \in Seq(Message), NEW o \in Seq(Piece), NEW e, NEW c,
         ShimOK(s, g, o, c), s.pc = "reading", GivenOK(g, o, e), s.read < Len(g),
         g[s.read + 1].kind = "Exit"
  PROVE g = Append(o, End("Exit")) /\ FileEnds(o, Len(o)) = FileEnds(g, s.read)
<1>1. s.read \in Nat /\ Len(g) \in Nat /\ Len(o) \in Nat
  BY DEF ShimOK, ShimState
<1>2. PICK n \in 1 .. Len(g) : n = s.read + 1
  BY <1>1
<1>3. g[n] \in Message /\ g[n].kind = "Exit"
  BY <1>2
<1>4. IsTerminal(g[n]) /\ g[n] # End("Error")
  BY <1>3 DEF IsTerminal, Terminal, End
<1>5. ASSUME NEW k \in 1 .. Len(o) PROVE ~IsTerminal(o[k])
  BY <1>5, Messages, ElementType
<1>6. n = Len(g) /\ g[n] = End("Exit") /\ n = Len(o) + 1
  BY <1>1, <1>4, <1>5 DEF GivenOK
<1>7. ASSUME NEW k \in 1 .. Len(o) PROVE g[k] = o[k]
  <2>1. k \in 1 .. s.read /\ k \in 1 .. Len(g)
    BY <1>1, <1>2, <1>6
  <2>2. ~IsTerminal(g[k])
    BY <2>1 DEF ShimOK, ReadingOK
  <2>3. IsTerminal(End("Error")) /\ IsTerminal(End("Exit"))
    BY Messages DEF Terminal
  <2>. QED
    BY <2>1, <2>2, <2>3 DEF GivenOK
<1>8. g = Append(o, End("Exit"))
  <2>1. PICK a : a = Append(o, End("Exit"))
    OBVIOUS
  <2>2. End("Exit") \in Message /\ o \in Seq(Message)
    BY Messages DEF Terminal
  <2>3. /\ a \in Seq(Message) /\ Len(a) = Len(o) + 1 /\ a[Len(o) + 1] = End("Exit")
        /\ \A k \in 1 .. Len(o) : a[k] = o[k]
    BY <2>1, <2>2
  <2>4. \A k \in 1 .. Len(g) : a[k] = g[k]
    BY <1>1, <1>6, <1>7, <2>3
  <2>5. Len(a) = Len(g)
    BY <1>1, <1>2, <1>6, <2>3
  <2>6. a = g
    BY <2>3, <2>4, <2>5
  <2>. QED
    BY <2>1, <2>6
<1>9. s.read = Len(o)
  BY <1>1, <1>2, <1>6
<1>10. FileEnds(o, Len(o)) = FileEnds(g, s.read)
  BY <1>1, <1>7, <1>9, FileEndsFacts
<1>. QED
  BY <1>8, <1>10

-----------------------------------------------------------------------------
(* The steps of the shim.                                                  *)

\* What ShimInv says of the request ID of a reading shim.
LEMMA ReaderFacts ==
  ASSUME ShimInv, NEW id \in Id, Reading(id)
  PROVE /\ shim[id] \in ShimState /\ shim[id].pc = "reading"
        /\ given[id] \in Seq(Message) /\ output[id] \in Seq(Piece)
        /\ ShimOK(shim[id], given[id], output[id], client[id])
        /\ ReadingOK(shim[id], given[id], client[id])
        /\ GivenOK(given[id], output[id], executor[id])
BY DEF ShimInv, IInv, TypeOK, ShimAt, ShimOK, Reading

LEMMA BecomesNext ==
  ASSUME ShimInv, NEW id \in Id, Reading(id), NEW new, Becomes(id, new)
  PROVE [Next]_vars
<1>1. client[id] = "open" /\ client \in [Id -> {"none", "open", "gone"}]
  BY ReaderFacts DEF ReadingOK, ShimInv, IInv, TypeOK
<1>2. CASE new.pc = "over"
  BY <1>1, <1>2 DEF Becomes, ClientLeaves, envVars, Next
<1>3. CASE new.pc # "over"
  BY <1>1, <1>3 DEF Becomes, envVars, vars
<1>. QED
  BY <1>2, <1>3

LEMMA BecomesInv ==
  ASSUME ShimInv, NEW id \in Id, Reading(id), NEW new \in ShimState, Becomes(id, new),
         new.pc = "over" => ShimOK(new, given[id], output[id], "gone"),
         new.pc # "over" => ShimOK(new, given[id], output[id], client[id])
  PROVE ShimInv'
<1>1. IInv'
  BY BecomesNext, NextIInv DEF ShimInv
<1>2. /\ shim \in [Id -> ShimState] /\ client \in [Id -> {"none", "open", "gone"}]
      /\ given' = given /\ output' = output
      /\ shim' = [shim EXCEPT ![id] = new]
      /\ client' = [client EXCEPT ![id] = IF new.pc = "over" THEN "gone" ELSE @]
  BY DEF ShimInv, IInv, TypeOK, Becomes, envVars
<1>3. shim' \in [Id -> ShimState]
  BY <1>2
<1>4. ASSUME NEW j \in Id PROVE ShimAt(j)'
  <2>1. CASE j = id
    BY <1>2, <2>1 DEF ShimAt
  <2>2. CASE j # id
    BY <1>2, <2>2 DEF ShimAt, ShimInv
  <2>. QED
    BY <2>1, <2>2
<1>. QED
  BY <1>1, <1>3, <1>4 DEF ShimInv

LEMMA TakenFacts ==
  ASSUME ShimInv, NEW id \in Id, Reading(id)
  PROVE /\ Taken(id) \in ShimState /\ Taken(id).pc = "reading" /\ Taken(id).result = "none"
        /\ Taken(id).read = shim[id].read + 1 /\ Taken(id).part = shim[id].part
        /\ Taken(id).files = shim[id].files /\ Taken(id).current = shim[id].current
<1>1. PICK s \in ShimState : s = shim[id] /\ s.pc = "reading" /\ s.result = "none"
  BY ReaderFacts DEF ReadingOK
<1>2. PICK t : t = [s EXCEPT !.read = @ + 1]
  OBVIOUS
<1>3. s.read + 1 \in Nat
  BY DEF ShimState
<1>4. t \in ShimState
  BY <1>1, <1>2, <1>3 DEF ShimState
<1>5. /\ t.pc = "reading" /\ t.result = "none" /\ t.read = s.read + 1
      /\ t.part = s.part /\ t.files = s.files /\ t.current = s.current
  BY <1>1, <1>2 DEF ShimState
<1>. QED
  BY <1>1, <1>2, <1>4, <1>5 DEF Taken

\* The message a shim takes.
LEMMA TookFacts ==
  ASSUME ShimInv, NEW id \in Id, NEW kinds, Took(id, kinds)
  PROVE /\ Reading(id) /\ shim[id].read < Len(given[id])
        /\ Incoming(id) = given[id][shim[id].read + 1]
        /\ Incoming(id) \in Message /\ Incoming(id).kind \in kinds
        /\ shim[id].read \in Nat
<1>1. Reading(id) /\ Pending(id) /\ Incoming(id).kind \in kinds
  BY DEF Took
<1>2. shim[id].read \in Nat /\ given[id] \in Seq(Message)
  BY <1>1, ReaderFacts DEF ShimState
<1>3. shim[id].read + 1 \in 1 .. Len(given[id])
  BY <1>1, <1>2 DEF Pending
<1>. QED
  BY <1>1, <1>2, <1>3 DEF Pending, Incoming

LEMMA FailsInv ==
  ASSUME ShimInv, NEW id \in Id, Reading(id), NEW s \in ShimState, s.files = shim[id].files,
         NEW new, Becomes(id, new),
         \/ new = Fails(s)
         \/ new = [Fails(s) EXCEPT !.part = FALSE]
         \/ new = [Over(s, "error") EXCEPT !.part = FALSE]
  PROVE ShimInv'
<1>1. /\ new \in ShimState /\ new.pc = "over" /\ new.files = s.files
      /\ new.result = "failed" \/ (new.result = "error" /\ ~new.part)
  <2>1. CASE new = Fails(s)
    BY <2>1, OverFacts, Zenon DEF Fails
  <2>2. CASE new = [Fails(s) EXCEPT !.part = FALSE]
    BY <2>2, OverFacts, Zenon DEF Fails
  <2>3. CASE new = [Over(s, "error") EXCEPT !.part = FALSE]
    BY <2>3, OverFacts
  <2>. QED
    BY <2>1, <2>2, <2>3
<1>2. ShimOK(new, given[id], output[id], "gone")
  BY <1>1, EndsOK, ReaderFacts
<1>. QED
  BY <1>1, <1>2, BecomesInv

LEMMA GoesOnInv ==
  ASSUME ShimInv, NEW id \in Id, NEW kind, Took(id, {kind}), kind \notin Terminal,
         NEW t \in ShimState, Becomes(id, t), t.pc = "reading", t.result = "none",
         t.read = shim[id].read + 1, t.part <=> t.current # NoFile, AllFits(t.files),
         Len(t.files) = Len(shim[id].files) + (IF kind = "FileEnd" THEN 1 ELSE 0)
  PROVE ShimInv'
<1>1. /\ Reading(id) /\ shim[id].read < Len(given[id])
      /\ given[id][shim[id].read + 1].kind = kind
      /\ ~IsTerminal(given[id][shim[id].read + 1])
  BY TookFacts DEF IsTerminal
<1>2. ShimOK(t, given[id], output[id], client[id])
  BY <1>1, ReaderFacts, TakesOn
<1>. QED
  BY <1>1, <1>2, BecomesInv

LEMMA WritesOutputInv == ASSUME ShimInv, NEW id \in Id, WritesOutput(id) PROVE ShimInv'
<1>1. Took(id, {"Stdout"}) /\ "Stdout" \notin Terminal
  BY DEF WritesOutput, Terminal
<1>2. Reading(id)
  BY <1>1, TookFacts
<1>3. PICK t \in ShimState :
        /\ t = Taken(id) /\ t.pc = "reading" /\ t.result = "none" /\ t.part = shim[id].part
        /\ t.read = shim[id].read + 1 /\ t.files = shim[id].files
        /\ t.current = shim[id].current
  BY <1>2, TakenFacts
<1>4. AllFits(t.files) /\ (t.part <=> t.current # NoFile)
  BY <1>2, <1>3, ReaderFacts DEF ShimOK, ReadingOK
<1>5. Len(t.files) = Len(shim[id].files) + (IF "Stdout" = "FileEnd" THEN 1 ELSE 0)
  BY <1>2, <1>3, ReaderFacts DEF ShimState
<1>6. Becomes(id, t)
  BY <1>3 DEF WritesOutput
<1>. QED
  BY <1>1, <1>3, <1>4, <1>5, <1>6, GoesOnInv

LEMMA FileBeginInv == ASSUME ShimInv, NEW id \in Id, FileBegin(id) PROVE ShimInv'
<1>1. Took(id, {"FileBegin"}) /\ "FileBegin" \notin Terminal
  BY DEF FileBegin, Terminal
<1>2. Reading(id) /\ Incoming(id).kind = "FileBegin" /\ Incoming(id).n \in Nat
  BY <1>1, TookFacts DEF Message, Piece, End, Terminal
<1>3. shim[id] \in ShimState /\ AllFits(shim[id].files) /\ Len(shim[id].files) \in Nat
  BY <1>2, ReaderFacts DEF ShimOK, ShimState
<1>4. CASE shim[id].current # NoFile
  <2>1. Becomes(id, Fails(shim[id]))
    BY <1>4 DEF FileBegin
  <2>. QED
    BY <1>2, <1>3, <2>1, FailsInv
<1>5. CASE shim[id].current = NoFile
  <2>1. PICK f : f = [expected |-> Incoming(id).n, written |-> 0]
    OBVIOUS
  <2>2. f \in [expected : Nat, written : Nat] /\ f # NoFile
    BY <1>2, <2>1 DEF NoFile
  <2>3. PICK s \in ShimState :
          /\ s = Taken(id) /\ s.pc = "reading" /\ s.result = "none"
          /\ s.read = shim[id].read + 1 /\ s.files = shim[id].files
    BY <1>2, TakenFacts
  <2>4. PICK t : t = [s EXCEPT !.current = f, !.part = TRUE]
    OBVIOUS
  <2>5. /\ t \in ShimState /\ t.pc = "reading" /\ t.result = "none" /\ t.read = s.read
        /\ t.part /\ t.current = f /\ t.files = s.files
    BY <2>2, <2>3, <2>4 DEF ShimState
  <2>6. Becomes(id, t)
    BY <1>5, <2>1, <2>3, <2>4, Zenon DEF FileBegin
  <2>7. Len(t.files) = Len(shim[id].files) + (IF "FileBegin" = "FileEnd" THEN 1 ELSE 0)
    BY <1>3, <2>3, <2>5
  <2>. QED
    BY <1>1, <1>3, <2>2, <2>3, <2>5, <2>6, <2>7, GoesOnInv
<1>. QED
  BY <1>4, <1>5

LEMMA FileChunkInv == ASSUME ShimInv, NEW id \in Id, FileChunk(id) PROVE ShimInv'
<1>1. Took(id, {"FileChunk"}) /\ "FileChunk" \notin Terminal
  BY DEF FileChunk, Terminal
<1>2. Reading(id) /\ Incoming(id).kind = "FileChunk"
  BY <1>1, TookFacts
<1>3. /\ shim[id] \in ShimState /\ AllFits(shim[id].files) /\ Len(shim[id].files) \in Nat
      /\ shim[id].part <=> shim[id].current # NoFile
  BY <1>2, ReaderFacts DEF ShimOK, ShimState, ReadingOK
<1>4. CASE ~(shim[id].current # NoFile /\ shim[id].current.written < shim[id].current.expected)
  <2>1. Becomes(id, Fails(shim[id]))
    BY <1>4, Zenon DEF FileChunk
  <2>. QED
    BY <1>2, <1>3, <2>1, FailsInv
<1>5. CASE shim[id].current # NoFile /\ shim[id].current.written < shim[id].current.expected
  <2>1. PICK s \in ShimState :
          /\ s = Taken(id) /\ s.pc = "reading" /\ s.result = "none" /\ s.part = shim[id].part
          /\ s.read = shim[id].read + 1 /\ s.files = shim[id].files
          /\ s.current = shim[id].current
    BY <1>2, TakenFacts
  <2>2. PICK c \in [expected : Nat, written : Nat] : c = s.current
    BY <1>5, <2>1 DEF ShimState
  <2>3. PICK f : f = [c EXCEPT !.written = @ + 1]
    OBVIOUS
  <2>4. f \in [expected : Nat, written : Nat] /\ f # NoFile
    BY <2>2, <2>3 DEF NoFile
  <2>5. PICK t : t = [s EXCEPT !.current = f]
    OBVIOUS
  <2>6. /\ t \in ShimState /\ t.pc = "reading" /\ t.result = "none" /\ t.read = s.read
        /\ t.part /\ t.current = f /\ t.files = s.files
    BY <1>3, <1>5, <2>1, <2>4, <2>5 DEF ShimState
  <2>7. t = [s EXCEPT !.current.written = @ + 1]
    BY <2>2, <2>3, <2>5, Zenon
  <2>8. Becomes(id, t)
    BY <1>5, <2>1, <2>7, Zenon DEF FileChunk
  <2>9. Len(t.files) = Len(shim[id].files) + (IF "FileChunk" = "FileEnd" THEN 1 ELSE 0)
    BY <1>3, <2>1, <2>6
  <2>. QED
    BY <1>1, <1>3, <2>1, <2>4, <2>6, <2>8, <2>9, GoesOnInv
<1>. QED
  BY <1>4, <1>5

LEMMA FileEndInv == ASSUME ShimInv, NEW id \in Id, FileEnd(id) PROVE ShimInv'
<1>1. Took(id, {"FileEnd"}) /\ "FileEnd" \notin Terminal
  BY DEF FileEnd, Terminal
<1>2. Reading(id) /\ Incoming(id).kind = "FileEnd"
  BY <1>1, TookFacts
<1>3. shim[id] \in ShimState /\ AllFits(shim[id].files)
  BY <1>2, ReaderFacts DEF ShimOK
<1>4. CASE shim[id].current = NoFile \/ ~SizeFits(shim[id].current)
  <2>1. PICK new : Becomes(id, new) /\ (\/ new = Fails(shim[id])
                                        \/ new = [Fails(shim[id]) EXCEPT !.part = FALSE])
    BY <1>4, Zenon DEF FileEnd
  <2>. QED
    BY <1>2, <1>3, <2>1, FailsInv
<1>5. CASE shim[id].current # NoFile /\ SizeFits(shim[id].current)
  <2>1. PICK s \in ShimState :
          /\ s = Taken(id) /\ s.pc = "reading" /\ s.result = "none"
          /\ s.read = shim[id].read + 1 /\ s.files = shim[id].files
    BY <1>2, TakenFacts
  <2>2. PICK c \in [expected : Nat, written : Nat] :
          c = shim[id].current /\ c.written = c.expected
    BY <1>3, <1>5 DEF ShimState, SizeFits
  <2>3. PICK q : q = Append(s.files, c)
    OBVIOUS
  <2>4. s.files \in Seq([expected : Nat, written : Nat]) /\ AllFits(s.files)
    BY <1>3, <2>1 DEF ShimState
  <2>5. q \in Seq([expected : Nat, written : Nat]) /\ Len(q) = Len(s.files) + 1
        /\ DOMAIN q = 1 .. Len(q) /\ DOMAIN s.files = 1 .. Len(s.files)
        /\ \A i \in 1 .. Len(q) : q[i] = c \/ (i \in 1 .. Len(s.files) /\ q[i] = s.files[i])
    BY <2>3, <2>4
  <2>6. AllFits(q)
    BY <2>2, <2>4, <2>5 DEF AllFits
  <2>7. PICK t : t = [s EXCEPT !.current = NoFile, !.part = FALSE, !.files = q]
    OBVIOUS
  <2>8. /\ t \in ShimState /\ t.pc = "reading" /\ t.result = "none" /\ t.read = s.read
        /\ ~t.part /\ t.current = NoFile /\ t.files = q
    BY <2>1, <2>5, <2>7 DEF ShimState
  <2>9. Becomes(id, t)
    BY <1>5, <2>1, <2>2, <2>3, <2>7, Zenon DEF FileEnd
  <2>10. Len(t.files) = Len(shim[id].files) + (IF "FileEnd" = "FileEnd" THEN 1 ELSE 0)
    BY <2>1, <2>5, <2>8
  <2>. QED
    BY <1>1, <2>1, <2>6, <2>8, <2>9, <2>10, GoesOnInv
<1>. QED
  BY <1>4, <1>5

LEMMA TakesExitInv == ASSUME ShimInv, NEW id \in Id, TakesExit(id) PROVE ShimInv'
<1>1. Took(id, {"Exit"})
  BY DEF TakesExit
<1>2. Reading(id) /\ Incoming(id).kind = "Exit"
  BY <1>1, TookFacts
<1>3. PICK s \in ShimState :
        /\ s = Taken(id) /\ s.current = shim[id].current /\ s.files = shim[id].files
        /\ s.part = shim[id].part
  BY <1>2, TakenFacts
<1>4. CASE s.current # NoFile
  <2>1. Becomes(id, [Fails(s) EXCEPT !.part = FALSE])
    BY <1>3, <1>4, Zenon DEF TakesExit
  <2>. QED
    BY <1>2, <1>3, <2>1, FailsInv
<1>5. CASE s.current = NoFile
  <2>1. PICK t : t = Over(s, "code")
    OBVIOUS
  <2>2. Becomes(id, t)
    BY <1>3, <1>5, <2>1, Zenon DEF TakesExit
  <2>3. /\ t \in ShimState /\ t.pc = "over" /\ t.result = "code" /\ t.files = shim[id].files
        /\ ~t.part
    BY <1>2, <1>3, <1>5, <2>1, OverFacts, ReaderFacts DEF ReadingOK
  <2>4. /\ given[id] = Append(output[id], End("Exit"))
        /\ FileEnds(output[id], Len(output[id])) = FileEnds(given[id], shim[id].read)
    BY <1>1, <1>2, TookFacts, ReaderFacts, ExitIsAll
  <2>5. Len(t.files) = Cardinality(FileEnds(output[id], Len(output[id]))) /\ AllFits(t.files)
    BY <1>2, <2>3, <2>4, ReaderFacts DEF ShimOK, ReadingOK
  <2>6. ShimOK(t, given[id], output[id], "gone")
    BY <2>3, <2>4, <2>5 DEF ShimOK, ResultOK
  <2>. QED
    BY <1>2, <2>2, <2>3, <2>6, BecomesInv
<1>. QED
  BY <1>4, <1>5

LEMMA ShimEndsInv ==
  ASSUME ShimInv, NEW id \in Id, TakesError(id) \/ Disconnected(id) \/ Dies(id)
  PROVE ShimInv'
<1>1. Reading(id)
  BY DEF TakesError, Disconnected, Dies, Took
<1>2. /\ shim[id] \in ShimState /\ Taken(id) \in ShimState
      /\ Taken(id).files = shim[id].files
  BY <1>1, ReaderFacts, TakenFacts
<1>3. CASE TakesError(id)
  BY <1>1, <1>2, <1>3, FailsInv DEF TakesError
<1>4. CASE Disconnected(id) \/ Dies(id)
  BY <1>1, <1>2, <1>4, FailsInv DEF Disconnected, Dies
<1>. QED
  BY <1>3, <1>4

LEMMA ShimStepInv == ASSUME ShimInv, NEW id \in Id, ShimStep(id) \/ Dies(id) PROVE ShimInv'
BY WritesOutputInv, FileBeginInv, FileChunkInv, FileEndInv, TakesExitInv, ShimEndsInv
DEF ShimStep

-----------------------------------------------------------------------------
(* The shim starts, and the broker and the executor go on.                 *)

LEMMA StartsNext ==
  ASSUME NEW id \in Id, Starts(id) PROVE [Next]_vars
BY DEF Starts, Next

LEMMA NoShimFacts ==
  /\ NoShim \in ShimState /\ NoShim.pc = "none" /\ NoShim.read = 0
  /\ NoShim.result = "none" /\ NoShim.files = <<>>
  /\ ~NoShim.part /\ NoShim.current = NoFile
BY DEF NoShim, ShimState

LEMMA StartsInv == ASSUME ShimInv, NEW id \in Id, Starts(id) PROVE ShimInv'
<1>1. IInv'
  BY StartsNext, NextIInv DEF ShimInv
<1>2. PICK none \in ShimState :
        /\ none = NoShim /\ none.read = 0 /\ none.result = "none" /\ none.files = <<>>
        /\ ~none.part /\ none.current = NoFile
  BY NoShimFacts
<1>3. PICK new \in ShimState :
        /\ new = [none EXCEPT !.pc = "reading"]
        /\ new.pc = "reading" /\ new.read = 0 /\ new.result = "none"
        /\ new.files = <<>> /\ ~new.part /\ new.current = NoFile
  <2>1. PICK new : new = [none EXCEPT !.pc = "reading"]
    OBVIOUS
  <2>2. new \in ShimState
    BY <2>1 DEF ShimState
  <2>3. /\ new.pc = "reading" /\ new.read = none.read /\ new.result = none.result
        /\ new.files = none.files /\ new.part = none.part /\ new.current = none.current
    BY <2>1 DEF ShimState
  <2>. QED
    BY <1>2, <2>1, <2>2, <2>3, Zenon
<1>4. /\ \A j \in Id : shim'[j] = IF j = id THEN new ELSE shim[j]
      /\ shim' \in [Id -> ShimState]
  <2>1. shim' = [shim EXCEPT ![id] = new]
    BY <1>2, <1>3, Zenon DEF Starts
  <2>. QED
    BY <1>3, <2>1 DEF ShimInv
<1>5. /\ given' = [given EXCEPT ![id] = <<>>] /\ output' = [output EXCEPT ![id] = <<>>]
      /\ client' = [client EXCEPT ![id] = "open"]
      /\ client \in [Id -> {"none", "open", "gone"}]
      /\ output \in [Id -> Seq(Piece)] /\ given \in [Id -> Seq(Message)]
  BY DEF Starts, Admit, ShimInv, IInv, TypeOK
<1>6. ShimOK(new, <<>>, <<>>, "open")
  <2>1. Cardinality(FileEnds(<<>>, 0)) = 0
    BY FileEndsFacts
  <2>2. ReadingOK(new, <<>>, "open")
    BY <1>3, <2>1 DEF ReadingOK
  <2>. QED
    BY <1>3, <2>2 DEF ShimOK, ResultOK, AllFits
<1>7. ASSUME NEW j \in Id PROVE ShimAt(j)'
  <2>1. CASE j = id
    BY <1>4, <1>5, <1>6, <2>1 DEF ShimAt
  <2>2. CASE j # id
    BY <1>4, <1>5, <2>2 DEF ShimAt, ShimInv
  <2>. QED
    BY <2>1, <2>2
<1>. QED
  BY <1>1, <1>4, <1>7 DEF ShimInv

LEMMA MoreGivenOK ==
  ASSUME NEW s, NEW g \in Seq(Message), NEW o \in Seq(Piece), NEW c, ShimOK(s, g, o, c),
         NEW m \in Message, Kept(g, o)
  PROVE ShimOK(s, Append(g, m), o, c)
<1>1. PICK a : a = Append(g, m)
  OBVIOUS
<1>2. /\ a \in Seq(Message) /\ Len(a) = Len(g) + 1 /\ \A k \in 1 .. Len(g) : a[k] = g[k]
      /\ Len(g) \in Nat /\ Len(o) \in Nat
  BY <1>1
<1>3. s.result # "code"
  <2>1. ASSUME g = Append(o, End("Exit")) PROVE FALSE
    <3>1. Len(g) = Len(o) + 1
      BY <2>1
    <3>. QED
      BY <1>2, <3>1 DEF Kept
  <2>. QED
    BY <2>1 DEF ShimOK, ResultOK
<1>4. ASSUME ReadingOK(s, g, c), s.read \in Nat PROVE ReadingOK(s, a, c)
  <2>1. \A k \in 1 .. s.read : k \in 1 .. Len(g) /\ a[k] = g[k]
    BY <1>2, <1>4 DEF ReadingOK
  <2>2. FileEnds(a, s.read) = FileEnds(g, s.read)
    BY <1>4, <2>1, FileEndsFacts
  <2>. QED
    BY <1>2, <1>4, <2>1, <2>2 DEF ReadingOK
<1>. QED
  BY <1>1, <1>3, <1>4 DEF ShimOK, ResultOK, ShimState

\* A shim that has the code of its command knows that it ended.
LEMMA RunningOK ==
  ASSUME NEW s, NEW g \in Seq(Message), NEW o \in Seq(Piece), NEW e, NEW c, ShimOK(s, g, o, c),
         GivenOK(g, o, e), e # "Exit", NEW p
  PROVE ShimOK(s, g, p, c)
<1>1. s.result # "code"
  <2>1. ASSUME g = Append(o, End("Exit")) PROVE FALSE
    <3>1. Len(g) = Len(o) + 1 /\ g[Len(g)] = End("Exit") /\ Len(o) \in Nat
      BY <2>1
    <3>2. End("Exit") # End("Error")
      BY DEF End
    <3>. QED
      BY <3>1, <3>2 DEF GivenOK
  <2>. QED
    BY <2>1 DEF ShimOK, ResultOK
<1>. QED
  BY <1>1 DEF ShimOK, ResultOK

LEMMA BrokerKeepsShim ==
  ASSUME ShimInv, [Next]_vars, shim' = shim, client' = client, NEW id \in Id, StreamMoves(id)
  PROVE ShimInv'
<1>1. IInv'
  BY NextIInv DEF ShimInv
<1>2. /\ given \in [Id -> Seq(Message)] /\ output \in [Id -> Seq(Piece)]
      /\ \A j \in Id : ShimAt(j) /\ GivenOK(given[j], output[j], executor[j])
  BY DEF ShimInv, IInv, TypeOK
<1>3. ASSUME NEW j \in Id PROVE ShimAt(j)'
  <2>1. CASE Still
    BY <1>2, <2>1 DEF Still, ShimAt
  <2>2. ASSUME NEW m \in Message, PieceSent(id, m) PROVE ShimAt(j)'
    <3>1. CASE j = id
      BY <1>2, <2>2, <3>1, RunningOK DEF PieceSent, ShimAt
    <3>2. CASE j # id
      BY <1>2, <2>2, <3>2 DEF PieceSent, ShimAt
    <3>. QED
      BY <3>1, <3>2
  <2>3. ASSUME NEW m \in Message, MessageGiven(id, m) PROVE ShimAt(j)'
    <3>1. CASE j = id
      BY <1>2, <2>3, <3>1, MoreGivenOK DEF MessageGiven, ShimAt
    <3>2. CASE j # id
      BY <1>2, <2>3, <3>2 DEF MessageGiven, ShimAt
    <3>. QED
      BY <3>1, <3>2
  <2>4. ASSUME NEW kind, CommandEnds(id, kind) PROVE ShimAt(j)'
    BY <1>2, <2>4 DEF CommandEnds, ShimAt
  <2>. QED
    BY <2>1, <2>2, <2>3, <2>4 DEF StreamMoves
<1>4. shim' \in [Id -> ShimState]
  BY DEF ShimInv
<1>. QED
  BY <1>1, <1>3, <1>4 DEF ShimInv

LEMMA BrokerStepInv ==
  ASSUME ShimInv, shim' = shim, LoopStep \/ \E id \in Id : RequestStep(id)
  PROVE ShimInv' /\ [Next]_vars
<1>1. [Next]_vars
  BY DEF Next
<1>2. ASSUME NEW id \in Id, RequestStep(id) PROVE ShimInv'
  BY <1>1, <1>2, RequestMoves, BrokerKeepsShim DEF ShimInv
<1>3. CASE LoopStep /\ Id # {}
  <2>1. PICK id : id \in Id
    BY <1>3
  <2>2. Still /\ client' = client /\ StreamMoves(id)
    BY <1>3, LoopIsStill DEF StreamMoves
  <2>. QED
    BY <1>1, <2>1, <2>2, BrokerKeepsShim
<1>4. CASE Id = {}
  <2>1. IInv'
    BY <1>1, NextIInv DEF ShimInv
  <2>2. (shim \in [Id -> ShimState])'
    BY DEF ShimInv
  <2>3. (\A id \in Id : ShimAt(id))'
    BY <1>4
  <2>. QED
    BY <1>1, <2>1, <2>2, <2>3 DEF ShimInv
<1>. QED
  BY <1>1, <1>2, <1>3, <1>4

LEMMA ShimStepNext ==
  ASSUME ShimInv, NEW id \in Id, ShimStep(id) \/ Dies(id) PROVE [Next]_vars
<1>1. Reading(id) /\ \E new : Becomes(id, new)
  BY DEF ShimStep, Dies, WritesOutput, FileBegin, FileChunk, FileEnd, TakesExit, TakesError,
     Disconnected, Took
<1>. QED
  BY <1>1, BecomesNext

LEMMA ShimNextInv == ASSUME ShimInv, [ShimNext]_shimVars PROVE ShimInv' /\ [Next]_vars
<1>1. ASSUME NEW id \in Id, Starts(id) PROVE ShimInv' /\ [Next]_vars
  BY <1>1, StartsInv, StartsNext
<1>2. ASSUME NEW id \in Id, ShimStep(id) \/ Dies(id) PROVE ShimInv' /\ [Next]_vars
  BY <1>2, ShimStepInv, ShimStepNext
<1>3. ASSUME shim' = shim, LoopStep \/ \E id \in Id : RequestStep(id)
      PROVE ShimInv' /\ [Next]_vars
  BY <1>3, BrokerStepInv
<1>4. CASE UNCHANGED shimVars
  <2>1. shim' = shim /\ UNCHANGED vars
    BY <1>4 DEF shimVars
  <2>2. IInv'
    BY <2>1, NextIInv DEF ShimInv
  <2>3. given' = given /\ output' = output /\ client' = client
    BY <2>1 DEF vars, envVars
  <2>. QED
    BY <2>1, <2>2, <2>3 DEF ShimInv, ShimAt
<1>. QED
  BY <1>1, <1>2, <1>3, <1>4 DEF ShimNext

LEMMA ShimInitInv == ASSUME ShimInit PROVE ShimInv
<1>1. IInv
  BY InitIInv DEF ShimInit
<1>2. NoShim \in ShimState /\ NoShim.pc = "none" /\ NoShim.result = "none"
      /\ NoShim.files = <<>>
  BY NoShimFacts
<1>3. ASSUME NEW id \in Id PROVE shim[id] = NoShim /\ ShimAt(id)
  BY <1>2 DEF ShimInit, ShimAt, ShimOK, ResultOK, AllFits
<1>. QED
  BY <1>1, <1>2, <1>3 DEF ShimInit, ShimInv

LEMMA ShimInvHolds == ShimSpec => []ShimInv
<1>1. ShimInv /\ [ShimNext]_shimVars => ShimInv'
  BY ShimNextInv
<1>. QED
  BY <1>1, ShimInitInv, PTL DEF ShimSpec

\* A shim is one of the clients that BrokerRoute allows: what is proved of the broker
\* holds when run_shim_stream is at the other end of every socket.
THEOREM ShimsAreClients == ShimSpec => Spec
<1>1. ShimInv /\ [ShimNext]_shimVars => [Next]_vars
  BY ShimNextInv
<1>2. ShimInit => Init
  BY DEF ShimInit
<1>. QED
  BY <1>1, <1>2, ShimInvHolds, PTL DEF ShimSpec, Spec

\* The local command ends with the code of its command only after all of the output
\* and with every screenshot renamed at the size declared, and leaves no .part file
\* when it was told how the command ended.
THEOREM ShimIsTrue == ShimSpec => []ShimTrue
<1>1. ShimInv => ShimTrue
  <2>1. ASSUME ShimInv, NEW id \in Id
        PROVE LET s == shim[id]
              IN /\ s.result = "code" =>
                      /\ given[id] = Append(output[id], End("Exit"))
                      /\ Len(s.files) = Cardinality({i \in DOMAIN output[id] :
                                                       output[id][i].kind = "FileEnd"})
                 /\ s.result \in {"code", "error"} => ~s.part
                 /\ \A i \in DOMAIN s.files : s.files[i].written = s.files[i].expected
    <3>1. ShimOK(shim[id], given[id], output[id], client[id]) /\ output[id] \in Seq(Piece)
      BY <2>1 DEF ShimInv, ShimAt, IInv, TypeOK
    <3>2. FileEnds(output[id], Len(output[id])) =
            {i \in DOMAIN output[id] : output[id][i].kind = "FileEnd"}
      BY <3>1 DEF FileEnds
    <3>. QED
      BY <3>1, <3>2 DEF ShimOK, ResultOK, AllFits
  <2>. QED
    BY <2>1 DEF ShimTrue
<1>. QED
  BY <1>1, ShimInvHolds, PTL
=============================================================================
