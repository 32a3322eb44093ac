------------------------ MODULE ChannelWriterProofs ------------------------
(***************************************************************************)
(* Theorems of ChannelWriter, for any requests, callers and capacities: what *)
(* it keeps by hand about its queues and its payload is exact, requests take *)
(* turns, and it implements CommitChannel.                                  *)
(***************************************************************************)
EXTENDS ChannelWriter, TLAPS, SequenceTheorems, FiniteSetTheorems

CtlState == [pc : {"idle", "writing", "failing", "ended"}, lane : Lane,
             frame : Frame \cup {<<>>}, doomed : BOOLEAN]

\* The types, without the bounds that follow from what is counted.
Types ==
  /\ control \in Seq(Frame)
  /\ queue \in [Id -> Seq(Frame)]
  /\ hasTerminal \in [Id -> BOOLEAN]
  /\ ready \in Seq(Id)
  /\ producers \in Int
  /\ stopping \in BOOLEAN /\ closing \in BOOLEAN
  /\ failure \in BOOLEAN /\ expired \in BOOLEAN
  /\ usage \in Int /\ usage <= PayloadLimit
  /\ writer \in CtlState
  /\ caller \in [Caller -> CallerState]
  /\ told \in [Caller -> {"none", "waiting", "ok", "err"}]
  /\ accepted \in [Lane -> Nat]
  /\ wire \in [Lane -> Nat]
  /\ torn \in BOOLEAN
  /\ passed \in [Id -> [Id -> Nat]]

\* What the writer thread is about, and that a failure is its end.
WriterOK ==
  /\ writer.pc = "writing" => writer.frame \in Frame
  /\ torn <=> writer.pc = "failing" \/ failure
  /\ failure => writer.pc = "ended"

CallersOK == \A c \in Caller : caller[c] = "waiting" <=> told[c] = "waiting"

\* A caller waits for one frame, and for it until it is written or dropped.
OneFrameEach ==
  /\ \A c \in Caller :
       told[c] = "waiting" <=> \E l \in Lane : \E i \in DOMAIN Pending[l] : Pending[l][i].wait = c
  /\ \A l, m \in Lane : \A i \in DOMAIN Pending[l], j \in DOMAIN Pending[m] :
       Pending[l][i].wait = Pending[m][j].wait /\ Pending[l][i].wait # NoOne => l = m /\ i = j

\* The frames of a lane are numbered.
Numbered ==
  \A id \in Id :
    /\ \A i \in DOMAIN queue[id] : queue[id][i].n <= accepted[id]
    /\ \A i, j \in DOMAIN queue[id] : i < j => queue[id][i].n < queue[id][j].n

\* Whoever is ahead in the list of turns was not served since the other joined it.
InTurn == \A i, j \in DOMAIN ready : i < j => passed[ready[j]][ready[i]] = 0

-----------------------------------------------------------------------------
(* Sequences, and callers counted by their state.                          *)

LEMMA Grows ==
  ASSUME NEW S, NEW s \in Seq(S), NEW e \in S
  PROVE  /\ Append(s, e) \in Seq(S) /\ Append(s, e) # <<>>
         /\ Len(s) \in Nat /\ Len(Append(s, e)) = Len(s) + 1
         /\ DOMAIN s = 1 .. Len(s) /\ DOMAIN Append(s, e) = 1 .. Len(s) + 1
         /\ \A i \in 1 .. Len(s) : Append(s, e)[i] = s[i] /\ s[i] \in S
         /\ Append(s, e)[Len(s) + 1] = e
<1>1. /\ Append(s, e) \in Seq(S) /\ Append(s, e) # <<>>
      /\ Len(Append(s, e)) = Len(s) + 1
      /\ \A i \in 1 .. Len(s) : Append(s, e)[i] = s[i]
      /\ Append(s, e)[Len(s) + 1] = e
  BY AppendProperties
<1>2. /\ Len(s) \in Nat /\ DOMAIN s = 1 .. Len(s)
      /\ DOMAIN Append(s, e) = 1 .. Len(Append(s, e))
      /\ \A i \in 1 .. Len(s) : s[i] \in S
  BY <1>1, LenProperties, ElementOfSeq
<1>. QED
  BY <1>1, <1>2, Zenon

LEMMA Shrinks ==
  ASSUME NEW S, NEW s \in Seq(S), s # <<>>
  PROVE  /\ Head(s) \in S /\ Head(s) = s[1] /\ 1 \in DOMAIN s
         /\ Tail(s) \in Seq(S) /\ Len(s) \in Nat /\ Len(s) >= 1
         /\ DOMAIN s = 1 .. Len(s) /\ DOMAIN Tail(s) = 1 .. Len(s) - 1
         /\ \A i \in 1 .. Len(s) - 1 : Tail(s)[i] = s[i + 1]
         /\ Tail(s) = <<>> <=> Len(s) = 1
<1>1. /\ Head(s) \in S /\ Tail(s) \in Seq(S) /\ Len(Tail(s)) = Len(s) - 1
      /\ \A i \in 1 .. Len(Tail(s)) : Tail(s)[i] = s[i + 1]
  BY HeadTailProperties
<1>2. /\ Len(s) \in Nat /\ Len(s) # 0 /\ DOMAIN s = 1 .. Len(s)
      /\ DOMAIN Tail(s) = 1 .. Len(Tail(s))
      /\ Tail(s) = <<>> <=> Len(Tail(s)) = 0
  BY <1>1, LenProperties, EmptySeq
<1>3. Head(s) = s[1]
  OBVIOUS
<1>. QED
  BY <1>1, <1>2, <1>3

\* A sequence is its head and its tail.
LEMMA HeadRejoins ==
  ASSUME NEW S, NEW s \in Seq(S), s # <<>>
  PROVE  <<Head(s)>> \o Tail(s) = s
<1>1. PICK n \in Nat : n = Len(s)
  BY LenProperties
<1>2. /\ n >= 1 /\ Head(s) = s[1] /\ Head(s) \in S /\ Tail(s) \in Seq(S) /\ Len(Tail(s)) = n - 1
      /\ \A i \in 1 .. n - 1 : Tail(s)[i] = s[i + 1]
  BY <1>1, Shrinks, HeadTailProperties
<1>3. <<Head(s)>> \in Seq(S) /\ Len(<<Head(s)>>) = 1 /\ <<Head(s)>>[1] = s[1]
  BY <1>2
<1>4. PICK p \in Seq(S) : p = <<Head(s)>> \o Tail(s)
  BY <1>2, <1>3, ConcatProperties
<1>5. /\ Len(p) = 1 + (n - 1)
      /\ \A i \in 1 .. 1 + (n - 1) : p[i] = IF i <= 1 THEN s[1] ELSE Tail(s)[i - 1]
  BY <1>2, <1>3, <1>4, ConcatProperties
<1>6. ASSUME NEW i \in 1 .. n PROVE p[i] = s[i]
  <2>1. CASE i = 1
    BY <1>2, <1>5, <2>1
  <2>2. CASE i # 1
    <3>1. i - 1 \in 1 .. n - 1 /\ i - 1 + 1 = i /\ ~(i <= 1) /\ i \in 1 .. 1 + (n - 1)
      BY <2>2
    <3>2. p[i] = Tail(s)[i - 1] /\ Tail(s)[i - 1] = s[i - 1 + 1]
      BY <1>2, <1>5, <3>1
    <3>. QED
      BY <3>1, <3>2
  <2>. QED
    BY <2>1, <2>2
<1>7. Len(p) = n
  BY <1>5
<1>8. p = s
  BY <1>1, <1>6, <1>7, SeqEqual
<1>. QED
  BY <1>4, <1>8

LEMMA CallerFinite == IsFiniteSet(Caller)
BY WriterAssumption, FS_AddElement DEF Caller

\* The callers in a state of G.
Those(f, G) == {x \in Caller : f[x] \in G}

\* How many callers are in a state of G after one of them changes its own.
LEMMA Recount ==
  ASSUME NEW f, NEW k, NEW c \in Caller, NEW G, \A x \in Caller \ {c} : k[x] = f[x]
  PROVE  /\ Cardinality(Those(f, G)) \in Nat
         /\ Cardinality(Those(k, G)) =
              Cardinality(Those(f, G))
                + (IF k[c] \in G THEN 1 ELSE 0) - (IF f[c] \in G THEN 1 ELSE 0)
<1>1. IsFiniteSet(Those(f, G)) /\ Cardinality(Those(f, G)) \in Nat
  <2>1. Those(f, G) \in SUBSET Caller
    BY DEF Those
  <2>. QED
    BY <2>1, CallerFinite, FS_Subset, FS_CardinalityType
<1>2. CASE (k[c] \in G) = (f[c] \in G)
  <2>1. Those(k, G) = Those(f, G)
    BY <1>2 DEF Those
  <2>. QED
    BY <1>1, <1>2, <2>1
<1>3. CASE k[c] \in G /\ f[c] \notin G
  <2>1. Those(k, G) = Those(f, G) \cup {c} /\ c \notin Those(f, G)
    BY <1>3 DEF Those
  <2>2. Cardinality(Those(k, G)) = Cardinality(Those(f, G)) + 1
    BY <1>1, <2>1, FS_AddElement
  <2>. QED
    BY <1>1, <1>3, <2>2
<1>4. CASE k[c] \notin G /\ f[c] \in G
  <2>1. Those(k, G) = Those(f, G) \ {c} /\ c \in Those(f, G)
    BY <1>4 DEF Those
  <2>2. Cardinality(Those(k, G)) = Cardinality(Those(f, G)) - 1
    BY <1>1, <2>1, FS_RemoveElement
  <2>. QED
    BY <1>1, <1>4, <2>2
<1>. QED
  BY <1>2, <1>3, <1>4

\* A state outside G for another, and nothing else, leaves the callers in G the same.
LEMMA SameThose ==
  ASSUME NEW f, NEW k, NEW G, \A x \in Caller : k[x] \in G <=> f[x] \in G
  PROVE  Those(k, G) = Those(f, G)
BY DEF Those

-----------------------------------------------------------------------------
(* Types.                                                                  *)

LEMMA AcceptedTypes ==
  ASSUME Types, NEW l \in Lane, NEW c \in Caller, NEW w \in {c, NoOne}, Accepted(l, c, w)
  PROVE  /\ accepted' \in [Lane -> Nat]
         /\ caller' \in [Caller -> CallerState]
         /\ told' \in [Caller -> {"none", "waiting", "ok", "err"}]
         /\ UNCHANGED <<handleVars, stopping, failure, writer, wire, torn>>
BY DEF Types, Accepted, Becomes, CallerState

LEMMA NewFrame ==
  ASSUME Types, NEW l \in Lane, NEW kind \in Kind, NEW w \in Caller \cup {NoOne}
  PROVE  NextFrame(l, kind, w) \in Frame
BY DEF Types, NextFrame, Frame

LEMMA InitTypes == ASSUME Init PROVE Types
<1>1. writer \in CtlState
  BY DEF Init, Idle, CtlState, Lane
<1>2. caller \in [Caller -> CallerState] /\ told \in [Caller -> {"none", "waiting", "ok", "err"}]
  BY DEF Init, CallerState
<1>3. control \in Seq(Frame) /\ queue \in [Id -> Seq(Frame)] /\ ready \in Seq(Id)
  BY DEF Init
<1>4. /\ accepted \in [Lane -> Nat] /\ wire \in [Lane -> Nat]
      /\ passed \in [Id -> [Id -> Nat]] /\ hasTerminal \in [Id -> BOOLEAN]
  BY DEF Init
<1>5. usage \in Int /\ usage <= PayloadLimit /\ producers \in Int
  BY WriterAssumption DEF Init
<1>. QED
  BY <1>1, <1>2, <1>3, <1>4, <1>5 DEF Init, Types

\* The frame the writer takes from a lane.
LEMMA WritesTypes ==
  ASSUME Types, NEW l \in Lane, NEW f \in Frame, Writes(l, f)
  PROVE  writer' \in CtlState
BY DEF Types, Writes, CtlState

LEMMA AnswerTypes ==
  ASSUME Types, NEW answer \in {"ok", "err"}, writer.frame \in Frame, Answer(answer)
  PROVE  /\ told' \in [Caller -> {"none", "waiting", "ok", "err"}]
         /\ caller' \in [Caller -> CallerState]
BY DEF Types, Answer, CallerState

LEMMA HandleTypes ==
  ASSUME Types, NEW c \in Caller,
         CloneHandle(c) \/ DropHandle(c) \/ ReservePayload(c)
           \/ \E id \in Id : RequestRefused(c, id)
  PROVE  Types'
<1>1. CASE CloneHandle(c)
  BY <1>1 DEF Types, CloneHandle, Becomes, CallerState, historyVars
<1>2. CASE DropHandle(c)
  BY <1>2 DEF Types, DropHandle, Becomes, CallerState, historyVars
<1>3. CASE ReservePayload(c)
  BY <1>3, WriterAssumption
  DEF Types, ReservePayload, Becomes, CallerState, historyVars, handleVars
<1>4. CASE \E id \in Id : RequestRefused(c, id)
  BY <1>4, WriterAssumption
  DEF Types, RequestRefused, Becomes, CallerState, historyVars, handleVars
<1>. QED
  BY <1>1, <1>2, <1>3, <1>4

LEMMA OwnerTypes == ASSUME Types, Shutdown \/ Join \/ DeadlinePasses PROVE Types'
<1>1. CASE Shutdown
  <2>1. caller' = [caller EXCEPT ![Owner] = "joining"] /\ producers' = producers - 1
    BY <1>1 DEF Shutdown, Becomes
  <2>2. caller' \in [Caller -> CallerState] /\ producers' \in Int
    <3>1. caller' \in [Caller -> CallerState]
      BY <2>1 DEF Types, CallerState
    <3>2. producers' \in Int
      BY <2>1 DEF Types
    <3>. QED
      BY <3>1, <3>2
  <2>. QED
    BY <1>1, <2>2 DEF Types, Shutdown, historyVars
<1>2. CASE Join
  BY <1>2 DEF Types, Join, Becomes, CallerState, historyVars, handleVars
<1>3. CASE DeadlinePasses
  BY <1>3 DEF Types, DeadlinePasses, historyVars
<1>. QED
  BY <1>1, <1>2, <1>3

LEMMA ControlTypes ==
  ASSUME Types, NEW w \in {Owner, NoOne}, SendControl(w)
  PROVE  Types' /\ control' = Append(control, NextFrame(Ctl, "control", w))
<1>1. Owner \in Caller /\ Ctl \in Lane /\ "control" \in Kind
  BY DEF Caller, Lane, Kind
<1>2. NextFrame(Ctl, "control", w) \in Frame
  BY <1>1, NewFrame
<1>3. control' = Append(control, NextFrame(Ctl, "control", w)) /\ Accepted(Ctl, Owner, w)
  BY DEF SendControl
<1>4. control' \in Seq(Frame)
  BY <1>2, <1>3, Grows DEF Types
<1>5. /\ accepted' \in [Lane -> Nat]
      /\ caller' \in [Caller -> CallerState]
      /\ told' \in [Caller -> {"none", "waiting", "ok", "err"}]
      /\ UNCHANGED <<handleVars, stopping, failure, writer, wire, torn>>
  BY <1>1, <1>3, AcceptedTypes
<1>. QED
  BY <1>3, <1>4, <1>5 DEF Types, SendControl, handleVars

RequestKind == {"data", "cancel", "terminal"}
WaitsFor(c, kind) == IF kind = "terminal" THEN c ELSE NoOne

\* What Request does, with its frame named.
LEMMA RequestFacts ==
  ASSUME Types, NEW c \in Caller, NEW id \in Id, NEW kind \in RequestKind, Request(c, id, kind)
  PROVE  LET f == NextFrame(id, kind, WaitsFor(c, kind))
         IN /\ f \in Frame /\ f.kind = kind /\ f.wait = WaitsFor(c, kind)
            /\ f.n = accepted[id] + 1
            /\ Accepted(id, c, f.wait)
            /\ queue' = [queue EXCEPT ![id] = Append(queue[id], f)]
            /\ queue'[id] = Append(queue[id], f) /\ \A x \in Id \ {id} : queue'[x] = queue[x]
<1>1. WaitsFor(c, kind) \in Caller \cup {NoOne} /\ kind \in Kind /\ id \in Lane
  BY DEF WaitsFor, Kind, RequestKind, Lane
<1>2. NextFrame(id, kind, WaitsFor(c, kind)) \in Frame
  BY <1>1, NewFrame
<1>. QED
  BY <1>1, <1>2 DEF Request, WaitsFor, NextFrame, Types

LEMMA RequestTypes ==
  ASSUME Types, NEW c \in Caller, NEW id \in Id, NEW kind \in RequestKind, Request(c, id, kind)
  PROVE  Types'
<1>1. PICK f \in Frame : /\ f.wait \in {c, NoOne}
                         /\ Accepted(id, c, f.wait)
                         /\ queue' = [queue EXCEPT ![id] = Append(queue[id], f)]
  BY RequestFacts DEF WaitsFor
<1>2. id \in Lane
  BY DEF Lane
<1>3. queue' \in [Id -> Seq(Frame)]
  <2>1. Append(queue[id], f) \in Seq(Frame)
    BY Grows DEF Types
  <2>. QED
    BY <1>1, <2>1 DEF Types
<1>4. ready' \in Seq(Id) /\ passed' \in [Id -> [Id -> Nat]]
  <2>1. CASE queue[id] = <<>>
    <3>1. /\ Append(ready, id) \in Seq(Id)
          /\ [passed EXCEPT ![id] = [j \in Id |-> 0]] \in [Id -> [Id -> Nat]]
      BY Grows DEF Types
    <3>2. /\ ready' = Append(ready, id)
          /\ passed' = [passed EXCEPT ![id] = [j \in Id |-> 0]]
      BY <2>1 DEF Request
    <3>. QED
      BY <3>1, <3>2
  <2>2. CASE queue[id] # <<>>
    BY <2>2 DEF Types, Request
  <2>. QED
    BY <2>1, <2>2
<1>5. /\ accepted' \in [Lane -> Nat]
      /\ caller' \in [Caller -> CallerState]
      /\ told' \in [Caller -> {"none", "waiting", "ok", "err"}]
      /\ UNCHANGED <<handleVars, stopping, failure, writer, wire, torn>>
  BY <1>1, <1>2, AcceptedTypes
<1>6. hasTerminal' \in [Id -> BOOLEAN] /\ UNCHANGED <<control, usage>>
  BY DEF Types, Request
<1>. QED
  BY <1>3, <1>4, <1>5, <1>6 DEF Types, handleVars

\* What PopRequest does, with its request and its frame named.
LEMMA PopFacts ==
  ASSUME Types, ReadyExact, PopRequest
  PROVE  \E id \in Id, f \in Frame :
           /\ ready # <<>> /\ id = ready[1] /\ queue[id] # <<>> /\ f = queue[id][1]
           /\ control = <<>>
           /\ Writes(id, f) /\ writer.pc = "idle"
           /\ queue' = [queue EXCEPT ![id] = Tail(queue[id])]
           /\ hasTerminal' = [hasTerminal EXCEPT ![id] = @ /\ Tail(queue[id]) # <<>>]
           /\ ready' = IF Tail(queue[id]) = <<>> THEN Tail(ready) ELSE Append(Tail(ready), id)
           /\ usage' = IF f.kind = "data" THEN usage - 1 ELSE usage
           /\ passed' = [i \in Id |->
                IF i = id THEN [j \in Id |-> 0]
                ELSE IF queue[i] # <<>> THEN [passed[i] EXCEPT ![id] = @ + 1] ELSE passed[i]]
           /\ UNCHANGED <<control, handleVars, stopping, failure, caller, told, accepted, wire,
                          torn>>
<1>1. ready # <<>> /\ ready \in Seq(Id)
  BY DEF PopRequest, Types
<1>2. Head(ready) \in Id /\ Head(ready) = ready[1] /\ 1 \in DOMAIN ready
  BY <1>1, Shrinks
<1>3. queue[Head(ready)] # <<>> /\ queue[Head(ready)] \in Seq(Frame)
  BY <1>2 DEF ReadyExact, Types
<1>4. Head(queue[Head(ready)]) \in Frame /\ Head(queue[Head(ready)]) = queue[Head(ready)][1]
  BY <1>3, Shrinks
<1>. QED
  BY <1>1, <1>2, <1>3, <1>4 DEF PopRequest, Requeue

LEMMA PopTypes == ASSUME Types, ReadyExact, PopRequest PROVE Types'
<1>1. PICK id \in Id, f \in Frame :
        /\ ready # <<>> /\ queue[id] # <<>>
        /\ Writes(id, f)
        /\ queue' = [queue EXCEPT ![id] = Tail(queue[id])]
        /\ hasTerminal' = [hasTerminal EXCEPT ![id] = @ /\ Tail(queue[id]) # <<>>]
        /\ ready' = IF Tail(queue[id]) = <<>> THEN Tail(ready) ELSE Append(Tail(ready), id)
        /\ usage' = IF f.kind = "data" THEN usage - 1 ELSE usage
        /\ passed' = [i \in Id |->
             IF i = id THEN [j \in Id |-> 0]
             ELSE IF queue[i] # <<>> THEN [passed[i] EXCEPT ![id] = @ + 1] ELSE passed[i]]
        /\ UNCHANGED <<control, handleVars, stopping, failure, caller, told, accepted, wire,
                       torn>>
  BY PopFacts
<1>2. writer' \in CtlState
  <2>1. id \in Lane
    BY DEF Lane
  <2>. QED
    BY <1>1, <2>1, WritesTypes
<1>3. queue' \in [Id -> Seq(Frame)]
  <2>1. Tail(queue[id]) \in Seq(Frame)
    BY <1>1, Shrinks DEF Types
  <2>. QED
    BY <1>1, <2>1 DEF Types
<1>4. ready' \in Seq(Id)
  <2>1. Tail(ready) \in Seq(Id)
    BY <1>1, Shrinks DEF Types
  <2>2. Append(Tail(ready), id) \in Seq(Id)
    BY <2>1, Grows
  <2>. QED
    BY <1>1, <2>1, <2>2
<1>5. hasTerminal' \in [Id -> BOOLEAN]
  BY <1>1 DEF Types
<1>6. usage' \in Int /\ usage' <= PayloadLimit
  <2>1. usage' = usage - 1 \/ usage' = usage
    BY <1>1
  <2>2. usage \in Int /\ usage <= PayloadLimit /\ PayloadLimit \in Int
    BY WriterAssumption DEF Types
  <2>. QED
    BY <2>1, <2>2
<1>7. passed' \in [Id -> [Id -> Nat]]
  <2>1. passed \in [Id -> [Id -> Nat]]
    BY DEF Types
  <2>2. ASSUME NEW i \in Id
        PROVE (IF i = id THEN [j \in Id |-> 0]
               ELSE IF queue[i] # <<>> THEN [passed[i] EXCEPT ![id] = @ + 1] ELSE passed[i])
                \in [Id -> Nat]
    <3>1. passed[i] \in [Id -> Nat] /\ passed[i][id] \in Nat
      BY <2>1
    <3>2. [passed[i] EXCEPT ![id] = @ + 1] \in [Id -> Nat]
      BY <3>1
    <3>. QED
      BY <3>1, <3>2
  <2>3. passed' = [i \in Id |->
          IF i = id THEN [j \in Id |-> 0]
          ELSE IF queue[i] # <<>> THEN [passed[i] EXCEPT ![id] = @ + 1] ELSE passed[i]]
    BY <1>1
  <2>. QED
    BY <2>2, <2>3, Zenon
<1>. QED
  BY <1>1, <1>2, <1>3, <1>4, <1>5, <1>6, <1>7 DEF Types, handleVars

LEMMA PopControlTypes ==
  ASSUME Types, PopControl
  PROVE  /\ Types' /\ control' = Tail(control) /\ control # <<>>
         /\ Writes(Ctl, control[1]) /\ control[1] \in Frame
<1>1. /\ control # <<>> /\ Head(control) \in Frame /\ Head(control) = control[1]
      /\ Tail(control) \in Seq(Frame)
  BY Shrinks DEF Types, PopControl
<1>2. writer' \in CtlState
  BY <1>1, WritesTypes DEF PopControl, Lane
<1>. QED
  BY <1>1, <1>2 DEF Types, PopControl, historyVars, handleVars

LEMMA EndTypes ==
  ASSUME Types, WriterOK, WriteFrame \/ WriteFails \/ EndLoop
  PROVE  Types'
<1>1. CASE WriteFrame
  <2>1. writer.frame \in Frame /\ writer.lane \in Lane /\ writer.frame.n \in Nat
    BY <1>1 DEF WriteFrame, WriterOK, Types, CtlState, Frame
  <2>2. /\ told' \in [Caller -> {"none", "waiting", "ok", "err"}]
        /\ caller' \in [Caller -> CallerState]
    BY <1>1, <2>1, AnswerTypes DEF WriteFrame
  <2>3. writer' \in CtlState
    BY <1>1 DEF WriteFrame, Idle, CtlState, Lane
  <2>4. wire' \in [Lane -> Nat]
    BY <1>1, <2>1 DEF WriteFrame, Types
  <2>. QED
    BY <1>1, <2>2, <2>3, <2>4 DEF WriteFrame, Types, handleVars
<1>2. CASE WriteFails
  <2>1. writer.frame \in Frame
    BY <1>2 DEF WriteFails, WriterOK
  <2>2. /\ told' \in [Caller -> {"none", "waiting", "ok", "err"}]
        /\ caller' \in [Caller -> CallerState]
    BY <1>2, <2>1, AnswerTypes DEF WriteFails
  <2>3. writer' \in CtlState
    BY <1>2 DEF WriteFails, Idle, CtlState, Lane
  <2>. QED
    BY <1>2, <2>2, <2>3 DEF WriteFails, Types, handleVars
<1>3. CASE EndLoop
  <2>1. writer' \in CtlState
    BY <1>3 DEF EndLoop, Types, CtlState
  <2>. QED
    BY <1>3, <2>1 DEF EndLoop, Types, handleVars, historyVars
<1>. QED
  BY <1>1, <1>2, <1>3

LEMMA FailTypes ==
  ASSUME Types, IsFiniteSet(DataFrames), PayloadExact, FailWriter
  PROVE  Types'
<1>1. writer' \in CtlState
  BY DEF FailWriter, Types, CtlState
<1>2. /\ told' \in [Caller -> {"none", "waiting", "ok", "err"}]
      /\ caller' \in [Caller -> CallerState]
  BY DEF FailWriter, Types, CallerState
<1>3. control' \in Seq(Frame) /\ queue' \in [Id -> Seq(Frame)] /\ ready' \in Seq(Id)
  BY DEF FailWriter
<1>4. usage' \in Int /\ usage' <= PayloadLimit
  <2>1. QueuedPayload \in Nat
    BY FS_CardinalityType DEF QueuedPayload
  <2>2. usage' = usage - QueuedPayload
    BY DEF FailWriter
  <2>. QED
    BY <2>1, <2>2, WriterAssumption DEF Types
<1>5. hasTerminal' \in [Id -> BOOLEAN]
  BY DEF FailWriter
<1>. QED
  BY <1>1, <1>2, <1>3, <1>4, <1>5 DEF FailWriter, Types, handleVars

-----------------------------------------------------------------------------
(* The queues of the requests, and their turns.                            *)

ListsOK == ReadyExact /\ TerminalLast /\ Numbered /\ InTurn /\ TakesTurns

LEMMA InitLists == ASSUME Init PROVE ListsOK
<1>1. ready = <<>> /\ DOMAIN ready = {} /\ \A id \in Id : queue[id] = <<>> /\ DOMAIN queue[id] = {}
  BY DEF Init
<1>2. \A id \in Id : ~hasTerminal[id]
  BY DEF Init
<1>3. \A i, j \in Id : passed[i][j] = 0
  BY DEF Init
<1>. QED
  BY <1>1, <1>2, <1>3 DEF ListsOK, ReadyExact, TerminalLast, Numbered, InTurn, TakesTurns

LEMMA ListsUntouched ==
  ASSUME ListsOK, UNCHANGED <<queue, hasTerminal, ready, passed>>,
         \A id \in Id : accepted'[id] = accepted[id]
  PROVE  ListsOK'
BY DEF ListsOK, ReadyExact, TerminalLast, Numbered, InTurn, TakesTurns

\* A frame that is accepted into a lane.
LEMMA AcceptedCount ==
  ASSUME Types, NEW l \in Lane, NEW c, NEW w, Accepted(l, c, w)
  PROVE  /\ accepted[l] \in Nat /\ accepted'[l] = accepted[l] + 1
         /\ \A m \in Lane \ {l} : accepted'[m] = accepted[m]
BY DEF Types, Accepted

LEMMA ControlLists ==
  ASSUME Types, ListsOK, NEW w \in {Owner, NoOne}, SendControl(w)
  PROVE  ListsOK'
<1>1. \A id \in Id : accepted'[id] = accepted[id]
  <2>1. Ctl \in Lane /\ \A id \in Id : id \in Lane \ {Ctl}
    BY WriterAssumption DEF Lane
  <2>2. Accepted(Ctl, Owner, w)
    BY DEF SendControl
  <2>. QED
    BY <2>1, <2>2, AcceptedCount
<1>2. UNCHANGED <<queue, hasTerminal, ready, passed>>
  BY DEF SendControl
<1>. QED
  BY <1>1, <1>2, ListsUntouched

LEMMA RequestLists ==
  ASSUME Types, ListsOK, NEW c \in Caller, NEW id \in Id, NEW kind \in RequestKind,
         Request(c, id, kind)
  PROVE  ListsOK'
<1>1. PICK f \in Frame :
        /\ f.kind = kind /\ f.n = accepted[id] + 1
        /\ Accepted(id, c, f.wait)
        /\ queue' = [queue EXCEPT ![id] = Append(queue[id], f)]
        /\ queue'[id] = Append(queue[id], f) /\ \A x \in Id \ {id} : queue'[x] = queue[x]
  BY RequestFacts
<1>2. PICK q \in Seq(Frame) : q = queue[id]
  BY DEF Types
<1>3. PICK n \in Nat : n = Len(q)
  BY <1>2, LenProperties
<1>4. /\ Append(q, f) # <<>> /\ DOMAIN q = 1 .. n /\ DOMAIN Append(q, f) = 1 .. n + 1
      /\ Len(Append(q, f)) = n + 1
      /\ \A i \in 1 .. n : Append(q, f)[i] = q[i] /\ q[i] \in Frame
      /\ Append(q, f)[n + 1] = f
  BY <1>2, <1>3, Grows
<1>5. PICK t \in Seq(Frame) : t = Append(q, f)
  BY <1>2, Grows
<1>6. /\ queue'[id] = t /\ t # <<>> /\ DOMAIN t = 1 .. n + 1 /\ Len(t) = n + 1
      /\ \A i \in 1 .. n : t[i] = q[i] /\ q[i] \in Frame
      /\ t[n + 1] = f
  BY <1>1, <1>2, <1>4, <1>5
<1>7. /\ \A i \in 1 .. n : q[i].kind # "terminal"
  BY <1>2, <1>4 DEF Request, Admits, ListsOK, TerminalLast
<1>8. TerminalLast'
  <2>1. hasTerminal'[id] <=> kind = "terminal"
    BY DEF Request, Admits, Types
  <2>2. \A x \in Id \ {id} : hasTerminal'[x] = hasTerminal[x]
    BY DEF Request, Types
  <2>3. \A i \in 1 .. n + 1 : t[i].kind = "terminal" <=> kind = "terminal" /\ i = n + 1
    <3>1. ASSUME NEW i \in 1 .. n + 1, i # n + 1 PROVE t[i].kind # "terminal"
      <4>1. i \in 1 .. n
        BY <3>1
      <4>. QED
        BY <1>6, <1>7, <4>1
    <3>. QED
      BY <1>1, <1>6, <3>1
  <2>4. n + 1 \in 1 .. n + 1
    OBVIOUS
  <2>5. /\ hasTerminal'[id] <=> \E i \in DOMAIN t : t[i].kind = "terminal"
        /\ \A i \in DOMAIN t : t[i].kind = "terminal" => i = Len(t)
    BY <1>6, <2>1, <2>3, <2>4
  <2>6. ASSUME NEW x \in Id
        PROVE /\ hasTerminal'[x] <=> \E i \in DOMAIN queue'[x] : queue'[x][i].kind = "terminal"
              /\ \A i \in DOMAIN queue'[x] :
                   queue'[x][i].kind = "terminal" => i = Len(queue'[x])
    <3>1. CASE x = id
      BY <1>6, <2>5, <3>1
    <3>2. CASE x # id
      <4>1. queue'[x] = queue[x] /\ hasTerminal'[x] = hasTerminal[x]
        BY <1>1, <2>2, <3>2
      <4>. QED
        BY <4>1 DEF ListsOK, TerminalLast
    <3>. QED
      BY <3>1, <3>2
  <2>. QED
    BY <2>6 DEF TerminalLast
<1>9. Numbered'
  <2>1. id \in Lane /\ \A x \in Id \ {id} : x \in Lane \ {id}
    BY DEF Lane
  <2>2. /\ accepted[id] \in Nat /\ accepted'[id] = accepted[id] + 1
        /\ \A x \in Id \ {id} : accepted'[x] = accepted[x]
    BY <1>1, <2>1, AcceptedCount
  <2>3. PICK a \in Nat : a = accepted[id]
    BY <2>2
  <2>4. /\ \A i \in 1 .. n : q[i].n <= a /\ q[i].n \in Nat
        /\ \A i, j \in 1 .. n : i < j => q[i].n < q[j].n
    <3>1. \A i \in 1 .. n : q[i].n \in Nat
      BY <1>4 DEF Frame
    <3>. QED
      BY <1>2, <1>4, <2>3, <3>1 DEF ListsOK, Numbered
  <2>5. t[n + 1].n = a + 1 /\ \A i \in 1 .. n : t[i] = q[i]
    BY <1>1, <1>6, <2>3
  <2>6. ASSUME NEW i \in 1 .. n + 1 PROVE t[i].n <= a + 1
    BY <2>4, <2>5
  <2>7. ASSUME NEW i \in 1 .. n + 1, NEW j \in 1 .. n + 1, i < j PROVE t[i].n < t[j].n
    <3>1. i \in 1 .. n
      BY <2>7
    <3>2. CASE j = n + 1
      BY <2>4, <2>5, <3>1, <3>2
    <3>3. CASE j # n + 1
      <4>1. j \in 1 .. n
        BY <3>3
      <4>. QED
        BY <2>4, <2>5, <2>7, <3>1, <4>1
    <3>. QED
      BY <3>2, <3>3
  <2>8. ASSUME NEW x \in Id
        PROVE /\ \A i \in DOMAIN queue'[x] : queue'[x][i].n <= accepted'[x]
              /\ \A i, j \in DOMAIN queue'[x] : i < j => queue'[x][i].n < queue'[x][j].n
    <3>1. CASE x = id
      BY <1>6, <2>2, <2>3, <2>6, <2>7, <3>1
    <3>2. CASE x # id
      <4>1. queue'[x] = queue[x] /\ accepted'[x] = accepted[x]
        BY <1>1, <2>2, <3>2
      <4>. QED
        BY <4>1 DEF ListsOK, Numbered
    <3>. QED
      BY <3>1, <3>2
  <2>. QED
    BY <2>8 DEF Numbered
<1>10. CASE q # <<>>
  <2>1. UNCHANGED <<ready, passed>>
    BY <1>2, <1>10 DEF Request
  <2>2. \A x \in Id : queue'[x] # <<>> <=> queue[x] # <<>>
    BY <1>1, <1>2, <1>6, <1>10
  <2>3. ReadyExact' /\ InTurn' /\ TakesTurns'
    BY <2>1, <2>2 DEF ListsOK, ReadyExact, InTurn, TakesTurns
  <2>. QED
    BY <1>8, <1>9, <2>3 DEF ListsOK
<1>11. CASE q = <<>>
  <2>1. ready' = Append(ready, id) /\ passed' = [passed EXCEPT ![id] = [j \in Id |-> 0]]
    BY <1>2, <1>11 DEF Request
  <2>2. PICK r \in Seq(Id) : r = ready
    BY DEF Types
  <2>3. PICK m \in Nat : m = Len(r)
    BY <2>2, LenProperties
  <2>4. PICK u \in Seq(Id) : u = Append(r, id)
    BY <2>2, Grows
  <2>5. /\ ready = r /\ ready' = u /\ DOMAIN r = 1 .. m /\ DOMAIN u = 1 .. m + 1
        /\ \A i \in 1 .. m : u[i] = r[i] /\ r[i] \in Id
        /\ u[m + 1] = id
    BY <2>1, <2>2, <2>3, <2>4, Grows
  <2>6. /\ \A i, j \in 1 .. m : r[i] = r[j] => i = j
        /\ \A x \in Id : (\E i \in 1 .. m : r[i] = x) <=> queue[x] # <<>>
        /\ \A i \in 1 .. m : r[i] # id
    <3>1. /\ \A i, j \in DOMAIN ready : ready[i] = ready[j] => i = j
          /\ \A x \in Id : (\E i \in DOMAIN ready : ready[i] = x) <=> queue[x] # <<>>
      BY DEF ListsOK, ReadyExact
    <3>2. ready = r /\ DOMAIN ready = 1 .. m
      BY <2>5
    <3>3. ~\E i \in DOMAIN ready : ready[i] = id
      BY <1>2, <1>11, <3>1
    <3>. QED
      BY <3>1, <3>2, <3>3, Zenon
  <2>7. m + 1 \in 1 .. m + 1 /\ \A i \in 1 .. m + 1 : i \in 1 .. m \/ i = m + 1
    OBVIOUS
  <2>8. ReadyExact'
    <3>1. \A i, j \in 1 .. m + 1 : u[i] = u[j] => i = j
      BY <2>5, <2>6, <2>7
    <3>2. ASSUME NEW x \in Id PROVE (\E i \in 1 .. m + 1 : u[i] = x) <=> queue'[x] # <<>>
      <4>1. CASE x = id
        BY <1>6, <2>5, <2>7, <4>1
      <4>2. CASE x # id
        <5>1. queue'[x] = queue[x]
          BY <1>1, <4>2
        <5>2. (\E i \in 1 .. m + 1 : u[i] = x) <=> \E i \in 1 .. m : r[i] = x
          BY <2>5, <2>7, <4>2
        <5>. QED
          BY <2>6, <5>1, <5>2
      <4>. QED
        BY <4>1, <4>2
    <3>. QED
      BY <2>5, <3>1, <3>2 DEF ReadyExact
  <2>9. /\ \A i, j \in Id : passed'[i][j] = IF i = id THEN 0 ELSE passed[i][j]
    BY <2>1 DEF Types
  <2>10. TakesTurns'
    BY <2>9 DEF ListsOK, TakesTurns
  <2>11. InTurn'
    <3>1. ASSUME NEW i \in 1 .. m + 1, NEW j \in 1 .. m + 1, i < j
          PROVE passed'[u[j]][u[i]] = 0
      <4>1. i \in 1 .. m /\ u[i] \in Id
        BY <2>5, <3>1
      <4>2. CASE j = m + 1
        BY <2>5, <2>9, <4>1, <4>2
      <4>3. CASE j # m + 1
        <5>1. j \in 1 .. m /\ u[j] \in Id /\ u[j] # id
          BY <2>5, <2>6, <4>3
        <5>2. passed[r[j]][r[i]] = 0
          BY <2>5, <3>1, <4>1, <5>1 DEF ListsOK, InTurn
        <5>. QED
          BY <2>5, <2>9, <4>1, <5>1, <5>2
      <4>. QED
        BY <4>2, <4>3
    <3>. QED
      BY <2>5, <3>1 DEF InTurn
  <2>. QED
    BY <1>8, <1>9, <2>8, <2>10, <2>11 DEF ListsOK
<1>. QED
  BY <1>10, <1>11

LEMMA PopLists ==
  ASSUME Types, ListsOK, PopRequest
  PROVE  ListsOK'
<1>1. PICK id \in Id, f \in Frame :
        /\ ready # <<>> /\ id = ready[1] /\ queue[id] # <<>>
        /\ queue' = [queue EXCEPT ![id] = Tail(queue[id])]
        /\ hasTerminal' = [hasTerminal EXCEPT ![id] = @ /\ Tail(queue[id]) # <<>>]
        /\ ready' = IF Tail(queue[id]) = <<>> THEN Tail(ready) ELSE Append(Tail(ready), id)
        /\ passed' = [i \in Id |->
             IF i = id THEN [j \in Id |-> 0]
             ELSE IF queue[i] # <<>> THEN [passed[i] EXCEPT ![id] = @ + 1] ELSE passed[i]]
        /\ UNCHANGED accepted
  BY PopFacts DEF ListsOK
<1>2. PICK q \in Seq(Frame) : q = queue[id]
  BY DEF Types
<1>3. PICK n \in Nat : n = Len(q)
  BY <1>2, LenProperties
<1>4. PICK t \in Seq(Frame) : t = Tail(q)
  BY <1>1, <1>2, Shrinks
<1>5. /\ n >= 1 /\ DOMAIN q = 1 .. n /\ DOMAIN t = 1 .. n - 1 /\ Len(t) = n - 1
      /\ \A i \in 1 .. n - 1 : t[i] = q[i + 1]
      /\ t = <<>> <=> n = 1
  <2>1. q # <<>>
    BY <1>1, <1>2
  <2>2. /\ Len(q) >= 1 /\ DOMAIN q = 1 .. Len(q) /\ DOMAIN Tail(q) = 1 .. Len(q) - 1
        /\ \A i \in 1 .. Len(q) - 1 : Tail(q)[i] = q[i + 1]
        /\ Tail(q) = <<>> <=> Len(q) = 1
    BY <2>1, Shrinks
  <2>3. Len(t) = n - 1
    BY <1>3, <1>4, <2>1, HeadTailProperties
  <2>. QED
    BY <1>3, <1>4, <2>2, <2>3
<1>6. queue'[id] = t /\ \A x \in Id \ {id} : queue'[x] = queue[x]
  BY <1>1, <1>2, <1>4 DEF Types
<1>7. TerminalLast'
  <2>1. /\ hasTerminal'[id] <=> hasTerminal[id] /\ t # <<>>
        /\ \A x \in Id \ {id} : hasTerminal'[x] = hasTerminal[x]
    BY <1>1, <1>2, <1>4 DEF Types
  <2>2. /\ hasTerminal[id] <=> \E i \in 1 .. n : q[i].kind = "terminal"
        /\ \A i \in 1 .. n : q[i].kind = "terminal" => i = n
    BY <1>2, <1>3, <1>5 DEF ListsOK, TerminalLast
  <2>3. \A i \in 1 .. n - 1 : t[i].kind = "terminal" => i = n - 1
    <3>1. ASSUME NEW i \in 1 .. n - 1, t[i].kind = "terminal" PROVE i = n - 1
      <4>1. i + 1 \in 1 .. n /\ q[i + 1].kind = "terminal"
        BY <1>5, <3>1
      <4>2. i + 1 = n
        BY <2>2, <4>1
      <4>. QED
        BY <4>2
    <3>. QED
      BY <3>1
  <2>4. hasTerminal'[id] <=> \E i \in 1 .. n - 1 : t[i].kind = "terminal"
    <3>1. ASSUME hasTerminal'[id] PROVE \E i \in 1 .. n - 1 : t[i].kind = "terminal"
      <4>1. n # 1 /\ q[n].kind = "terminal"
        BY <1>5, <2>1, <2>2, <3>1
      <4>2. n - 1 \in 1 .. n - 1 /\ t[n - 1] = q[n - 1 + 1] /\ n - 1 + 1 = n
        BY <1>5, <4>1
      <4>. QED
        BY <4>1, <4>2
    <3>2. ASSUME NEW i \in 1 .. n - 1, t[i].kind = "terminal" PROVE hasTerminal'[id]
      <4>1. i + 1 \in 1 .. n /\ q[i + 1].kind = "terminal" /\ n # 1
        BY <1>5, <3>2
      <4>. QED
        BY <1>5, <2>1, <2>2, <4>1
    <3>. QED
      BY <3>1, <3>2
  <2>5. ASSUME NEW x \in Id
        PROVE /\ hasTerminal'[x] <=> \E i \in DOMAIN queue'[x] : queue'[x][i].kind = "terminal"
              /\ \A i \in DOMAIN queue'[x] :
                   queue'[x][i].kind = "terminal" => i = Len(queue'[x])
    <3>1. CASE x = id
      BY <1>5, <1>6, <2>3, <2>4, <3>1
    <3>2. CASE x # id
      <4>1. queue'[x] = queue[x] /\ hasTerminal'[x] = hasTerminal[x]
        BY <1>6, <2>1, <3>2
      <4>. QED
        BY <4>1 DEF ListsOK, TerminalLast
    <3>. QED
      BY <3>1, <3>2
  <2>. QED
    BY <2>5 DEF TerminalLast
<1>8. Numbered'
  <2>1. /\ \A i \in 1 .. n : q[i].n <= accepted[id]
        /\ \A i, j \in 1 .. n : i < j => q[i].n < q[j].n
    BY <1>2, <1>5 DEF ListsOK, Numbered
  <2>2. ASSUME NEW i \in 1 .. n - 1 PROVE t[i].n <= accepted[id]
    <3>1. i + 1 \in 1 .. n /\ t[i] = q[i + 1]
      BY <1>5
    <3>. QED
      BY <2>1, <3>1
  <2>3. ASSUME NEW i \in 1 .. n - 1, NEW j \in 1 .. n - 1, i < j PROVE t[i].n < t[j].n
    <3>1. i + 1 \in 1 .. n /\ j + 1 \in 1 .. n /\ i + 1 < j + 1
          /\ t[i] = q[i + 1] /\ t[j] = q[j + 1]
      BY <1>5, <2>3
    <3>. QED
      BY <2>1, <3>1
  <2>4. ASSUME NEW x \in Id
        PROVE /\ \A i \in DOMAIN queue'[x] : queue'[x][i].n <= accepted'[x]
              /\ \A i, j \in DOMAIN queue'[x] : i < j => queue'[x][i].n < queue'[x][j].n
    <3>1. CASE x = id
      BY <1>1, <1>5, <1>6, <2>2, <2>3, <3>1
    <3>2. CASE x # id
      <4>1. queue'[x] = queue[x] /\ accepted'[x] = accepted[x]
        BY <1>1, <1>6, <3>2
      <4>. QED
        BY <4>1 DEF ListsOK, Numbered
    <3>. QED
      BY <3>1, <3>2
  <2>. QED
    BY <2>4 DEF Numbered
<1>9. PICK r \in Seq(Id) : r = ready
  BY DEF Types
<1>10. PICK m \in Nat : m = Len(r)
  BY <1>9, LenProperties
<1>11. PICK v \in Seq(Id) : v = Tail(r)
  BY <1>1, <1>9, Shrinks
<1>12. /\ m >= 1 /\ DOMAIN r = 1 .. m /\ DOMAIN v = 1 .. m - 1 /\ Len(v) = m - 1
       /\ \A i \in 1 .. m - 1 : v[i] = r[i + 1]
       /\ \A i \in 1 .. m : r[i] \in Id
       /\ r[1] = id
  <2>1. r # <<>> /\ r[1] = id
    BY <1>1, <1>9
  <2>2. /\ Len(r) >= 1 /\ DOMAIN r = 1 .. Len(r) /\ DOMAIN Tail(r) = 1 .. Len(r) - 1
        /\ \A i \in 1 .. Len(r) - 1 : Tail(r)[i] = r[i + 1]
        /\ Len(Tail(r)) = Len(r) - 1
    BY <2>1, Shrinks, HeadTailProperties
  <2>3. \A i \in 1 .. Len(r) : r[i] \in Id
    BY ElementOfSeq
  <2>. QED
    BY <1>10, <1>11, <2>1, <2>2, <2>3
<1>13. /\ \A i, j \in 1 .. m : r[i] = r[j] => i = j
       /\ \A x \in Id : (\E i \in 1 .. m : r[i] = x) <=> queue[x] # <<>>
       /\ \A i, j \in 1 .. m : i < j => passed[r[j]][r[i]] = 0
  BY <1>9, <1>12 DEF ListsOK, ReadyExact, InTurn
\* The rest of the list: the others, in their order.
<1>14. /\ \A i, j \in 1 .. m - 1 : v[i] = v[j] => i = j
       /\ \A i \in 1 .. m - 1 : v[i] \in Id /\ v[i] # id
       /\ \A x \in Id \ {id} : (\E i \in 1 .. m - 1 : v[i] = x) <=> queue[x] # <<>>
       /\ \A i \in 1 .. m - 1 : passed[v[i]][id] = 0
       /\ \A i, j \in 1 .. m - 1 : i < j => passed[v[j]][v[i]] = 0
  <2>1. \A i \in 1 .. m - 1 : i + 1 \in 1 .. m /\ i + 1 # 1 /\ 1 < i + 1 /\ 1 \in 1 .. m
    BY <1>12
  <2>2. ASSUME NEW i \in 1 .. m - 1, NEW j \in 1 .. m - 1, v[i] = v[j] PROVE i = j
    <3>1. i + 1 = j + 1
      BY <1>12, <1>13, <2>1, <2>2
    <3>. QED
      BY <3>1
  <2>3. ASSUME NEW i \in 1 .. m - 1
        PROVE v[i] \in Id /\ v[i] # id /\ passed[v[i]][id] = 0
    BY <1>12, <1>13, <2>1
  <2>4. ASSUME NEW x \in Id \ {id}
        PROVE (\E i \in 1 .. m - 1 : v[i] = x) <=> queue[x] # <<>>
    <3>1. ASSUME NEW k \in 1 .. m, r[k] = x PROVE \E i \in 1 .. m - 1 : v[i] = x
      <4>1. k # 1
        BY <1>12, <3>1
      <4>2. k - 1 \in 1 .. m - 1 /\ k - 1 + 1 = k
        BY <4>1
      <4>3. v[k - 1] = r[k]
        BY <1>12, <4>2
      <4>. QED
        BY <3>1, <4>2, <4>3
    <3>2. ASSUME NEW i \in 1 .. m - 1, v[i] = x PROVE \E k \in 1 .. m : r[k] = x
      BY <1>12, <2>1, <3>2
    <3>. QED
      BY <1>13, <3>1, <3>2
  <2>5. ASSUME NEW i \in 1 .. m - 1, NEW j \in 1 .. m - 1, i < j PROVE passed[v[j]][v[i]] = 0
    <3>1. i + 1 < j + 1 /\ v[i] = r[i + 1] /\ v[j] = r[j + 1]
      BY <1>12, <2>5
    <3>. QED
      BY <1>13, <2>1, <3>1
  <2>. QED
    BY <2>2, <2>3, <2>4, <2>5
<1>15. /\ \A j \in Id : passed'[id][j] = 0
       /\ \A i \in Id \ {id} : passed'[i][id] = IF queue[i] # <<>> THEN passed[i][id] + 1
                                                ELSE passed[i][id]
       /\ \A i, j \in Id \ {id} : passed'[i][j] = passed[i][j]
  <2>1. passed \in [Id -> [Id -> Nat]]
    BY DEF Types
  <2>2. passed'[id] = [j \in Id |-> 0]
    BY <1>1
  <2>3. ASSUME NEW i \in Id \ {id}
        PROVE passed'[i] = IF queue[i] # <<>> THEN [passed[i] EXCEPT ![id] = passed[i][id] + 1]
                           ELSE passed[i]
    BY <1>1
  <2>4. ASSUME NEW i \in Id \ {id}
        PROVE /\ passed'[i][id] = IF queue[i] # <<>> THEN passed[i][id] + 1 ELSE passed[i][id]
              /\ \A j \in Id \ {id} : passed'[i][j] = passed[i][j]
    BY <2>1, <2>3
  <2>. QED
    BY <2>2, <2>4
<1>16. TakesTurns'
  <2>1. ASSUME NEW i \in Id, NEW j \in Id PROVE passed'[i][j] <= 1
    <3>1. CASE i = id
      BY <1>15, <3>1
    <3>2. CASE i # id /\ j = id
      <4>1. passed[i][id] <= 1
        BY DEF ListsOK, TakesTurns
      <4>2. queue[i] # <<>> => passed[i][id] = 0
        <5>1. queue[i] # <<>> => \E k \in 1 .. m - 1 : v[k] = i
          BY <1>14, <3>2
        <5>. QED
          BY <1>14, <5>1
      <4>. QED
        BY <1>15, <3>2, <4>1, <4>2
    <3>3. CASE i # id /\ j # id
      BY <1>15, <3>3 DEF ListsOK, TakesTurns
    <3>. QED
      BY <3>1, <3>2, <3>3
  <2>. QED
    BY <2>1 DEF TakesTurns
<1>17. ASSUME NEW i \in 1 .. m - 1, NEW j \in 1 .. m - 1, i < j
       PROVE passed'[v[j]][v[i]] = 0
  <2>1. v[i] \in Id \ {id} /\ v[j] \in Id \ {id} /\ passed[v[j]][v[i]] = 0
    BY <1>14, <1>17
  <2>. QED
    BY <1>15, <2>1
<1>18. CASE t = <<>>
  <2>1. ready' = v
    BY <1>1, <1>2, <1>4, <1>9, <1>11, <1>18
  <2>2. ReadyExact'
    <3>1. ASSUME NEW x \in Id PROVE (\E i \in 1 .. m - 1 : v[i] = x) <=> queue'[x] # <<>>
      BY <1>6, <1>14, <1>18
    <3>. QED
      BY <1>12, <1>14, <2>1, <3>1 DEF ReadyExact
  <2>3. InTurn'
    BY <1>12, <1>17, <2>1 DEF InTurn
  <2>. QED
    BY <1>7, <1>8, <1>16, <2>2, <2>3 DEF ListsOK
<1>19. CASE t # <<>>
  <2>1. ready' = Append(v, id)
    BY <1>1, <1>2, <1>4, <1>9, <1>11, <1>19
  <2>2. PICK u \in Seq(Id) : u = Append(v, id)
    BY Grows
  <2>3. /\ ready' = u /\ DOMAIN u = 1 .. m
        /\ \A i \in 1 .. m - 1 : u[i] = v[i]
        /\ u[m] = id
    <3>1. /\ DOMAIN u = 1 .. Len(v) + 1 /\ \A i \in 1 .. Len(v) : u[i] = v[i]
          /\ u[Len(v) + 1] = id
      BY <2>2, Grows
    <3>2. Len(v) = m - 1 /\ m - 1 + 1 = m
      BY <1>12
    <3>. QED
      BY <2>1, <2>2, <3>1, <3>2
  <2>4. m \in 1 .. m /\ \A i \in 1 .. m : i \in 1 .. m - 1 \/ i = m
    BY <1>12
  <2>5. ReadyExact'
    <3>1. \A i, j \in 1 .. m : u[i] = u[j] => i = j
      BY <1>14, <2>3, <2>4
    <3>2. ASSUME NEW x \in Id PROVE (\E i \in 1 .. m : u[i] = x) <=> queue'[x] # <<>>
      <4>1. CASE x = id
        BY <1>6, <1>19, <2>3, <2>4, <4>1
      <4>2. CASE x # id
        <5>1. queue'[x] = queue[x]
          BY <1>6, <4>2
        <5>2. (\E i \in 1 .. m : u[i] = x) <=> \E i \in 1 .. m - 1 : v[i] = x
          <6>1. \A i \in 1 .. m - 1 : i \in 1 .. m
            OBVIOUS
          <6>. QED
            BY <2>3, <2>4, <4>2, <6>1
        <5>. QED
          BY <1>14, <4>2, <5>1, <5>2
      <4>. QED
        BY <4>1, <4>2
    <3>. QED
      BY <2>3, <3>1, <3>2 DEF ReadyExact
  <2>6. InTurn'
    <3>1. ASSUME NEW i \in 1 .. m, NEW j \in 1 .. m, i < j PROVE passed'[u[j]][u[i]] = 0
      <4>1. i \in 1 .. m - 1 /\ u[i] \in Id
        BY <1>14, <2>3, <3>1
      <4>2. CASE j = m
        BY <1>15, <2>3, <4>1, <4>2
      <4>3. CASE j # m
        BY <1>17, <2>3, <2>4, <3>1, <4>1, <4>3
      <4>. QED
        BY <4>2, <4>3
    <3>. QED
      BY <2>3, <3>1 DEF InTurn
  <2>. QED
    BY <1>7, <1>8, <1>16, <2>5, <2>6 DEF ListsOK
<1>. QED
  BY <1>18, <1>19

LEMMA FailLists ==
  ASSUME Types, ListsOK, FailWriter
  PROVE  ListsOK'
<1>1. /\ ready' = <<>> /\ DOMAIN ready' = {}
      /\ \A id \in Id : queue'[id] = <<>> /\ DOMAIN queue'[id] = {} /\ ~hasTerminal'[id]
      /\ UNCHANGED passed
  BY DEF FailWriter
<1>. QED
  BY <1>1 DEF ListsOK, ReadyExact, TerminalLast, Numbered, InTurn, TakesTurns

-----------------------------------------------------------------------------
(* The handles and the payload, counted.                                   *)

Held == {"free", "reserved", "waiting"}
Counted == HandlesCounted /\ IsFiniteSet(DataFrames) /\ PayloadExact

LEMMA CountedIs ==
  /\ HandlesCounted <=> producers = Cardinality(Those(caller, Held))
  /\ PayloadExact <=> usage = Cardinality(Those(caller, {"reserved"})) + Cardinality(DataFrames)
<1>1. {c \in Caller : caller[c] = "reserved"} = Those(caller, {"reserved"})
  BY DEF Those
<1>2. {c \in Caller : caller[c] \in {"free", "reserved", "waiting"}} = Those(caller, Held)
  BY DEF Those, Held
<1>. QED
  BY <1>1, <1>2 DEF HandlesCounted, PayloadExact, QueuedPayload

LEMMA CountedAre ==
  /\ HandlesCounted' <=> producers' = Cardinality(Those(caller', Held))
  /\ PayloadExact' <=>
       usage' = Cardinality(Those(caller', {"reserved"})) + Cardinality(DataFrames')
<1>1. {c \in Caller : caller'[c] = "reserved"} = Those(caller', {"reserved"})
  BY DEF Those
<1>2. {c \in Caller : caller'[c] \in {"free", "reserved", "waiting"}} = Those(caller', Held)
  BY DEF Those, Held
<1>. QED
  BY <1>1, <1>2 DEF HandlesCounted, PayloadExact, QueuedPayload

LEMMA InitCounted == ASSUME Init PROVE Counted
<1>1. Those(caller, Held) = {Owner} /\ Those(caller, {"reserved"}) = {}
  BY WriterAssumption DEF Init, Those, Held, Caller
<1>2. DataFrames = {}
  BY DEF Init, DataFrames
<1>3. Cardinality({Owner}) = 1
  <2>1. Cardinality({} \cup {Owner}) = 0 + 1
    BY FS_EmptySet, FS_AddElement
  <2>2. {} \cup {Owner} = {Owner}
    OBVIOUS
  <2>. QED
    BY <2>1, <2>2
<1>4. IsFiniteSet({}) /\ Cardinality({}) = 0
  BY FS_EmptySet
<1>5. producers = 1 /\ usage = 0
  BY DEF Init
<1>. QED
  BY <1>1, <1>2, <1>3, <1>4, <1>5, CountedIs DEF Counted

\* One caller changes its state.
LEMMA CallerCounted ==
  ASSUME Types, Counted, IsFiniteSet(DataFrames'),
         NEW c \in Caller, \A x \in Caller \ {c} : caller'[x] = caller[x],
         producers' = producers + (IF caller'[c] \in Held THEN 1 ELSE 0)
                        - (IF caller[c] \in Held THEN 1 ELSE 0),
         usage' = usage + (IF caller'[c] = "reserved" THEN 1 ELSE 0)
                    - (IF caller[c] = "reserved" THEN 1 ELSE 0)
                    + Cardinality(DataFrames') - Cardinality(DataFrames)
  PROVE  Counted'
<1>1. producers \in Int /\ usage \in Int
  BY DEF Types
<1>2. /\ Cardinality(Those(caller, Held)) \in Nat
      /\ Cardinality(Those(caller', Held)) = Cardinality(Those(caller, Held))
           + (IF caller'[c] \in Held THEN 1 ELSE 0) - (IF caller[c] \in Held THEN 1 ELSE 0)
  BY Recount
<1>3. /\ Cardinality(Those(caller, {"reserved"})) \in Nat
      /\ Cardinality(Those(caller', {"reserved"})) = Cardinality(Those(caller, {"reserved"}))
           + (IF caller'[c] = "reserved" THEN 1 ELSE 0) - (IF caller[c] = "reserved" THEN 1 ELSE 0)
  <2>1. PICK G : G = {"reserved"}
    OBVIOUS
  <2>2. /\ Cardinality(Those(caller, G)) \in Nat
        /\ Cardinality(Those(caller', G)) = Cardinality(Those(caller, G))
             + (IF caller'[c] \in G THEN 1 ELSE 0) - (IF caller[c] \in G THEN 1 ELSE 0)
    BY Recount
  <2>3. /\ caller'[c] \in G <=> caller'[c] = "reserved"
        /\ caller[c] \in G <=> caller[c] = "reserved"
    BY <2>1
  <2>. QED
    BY <2>1, <2>2, <2>3
<1>4. HandlesCounted'
  BY <1>2, CountedIs, CountedAre DEF Counted
<1>5. Cardinality(DataFrames) \in Nat /\ Cardinality(DataFrames') \in Nat
  BY FS_CardinalityType DEF Counted
<1>6. PayloadExact'
  <2>1. usage = Cardinality(Those(caller, {"reserved"})) + Cardinality(DataFrames)
    BY CountedIs DEF Counted
  <2>2. usage' = Cardinality(Those(caller', {"reserved"})) + Cardinality(DataFrames')
    BY <1>3, <1>5, <2>1
  <2>. QED
    BY <2>2, CountedAre
<1>. QED
  BY <1>4, <1>6 DEF Counted

\* Callers may change their states, but none of them its handle or its reservation.
LEMMA SameCounted ==
  ASSUME Types, Counted, IsFiniteSet(DataFrames'), UNCHANGED producers,
         usage' = usage + Cardinality(DataFrames') - Cardinality(DataFrames),
         \A c \in Caller : /\ caller'[c] \in Held <=> caller[c] \in Held
                           /\ caller'[c] = "reserved" <=> caller[c] = "reserved"
  PROVE  Counted'
<1>1. Those(caller', Held) = Those(caller, Held)
  BY SameThose
<1>2. PICK G : G = {"reserved"}
  OBVIOUS
<1>3. \A c \in Caller : caller'[c] \in G <=> caller[c] \in G
  BY <1>2
<1>4. Those(caller', G) = Those(caller, G)
  BY <1>3, SameThose
<1>5. HandlesCounted'
  BY <1>1, CountedIs, CountedAre DEF Counted
<1>6. PayloadExact'
  <2>1. usage = Cardinality(Those(caller, G)) + Cardinality(DataFrames)
    BY <1>2, CountedIs DEF Counted
  <2>2. Cardinality(DataFrames) \in Nat /\ Cardinality(DataFrames') \in Nat
        /\ Cardinality(Those(caller, G)) \in Nat
    <3>1. Owner \in Caller
      BY DEF Caller
    <3>. QED
      BY <3>1, FS_CardinalityType, Recount DEF Counted
  <2>3. usage' = Cardinality(Those(caller', G)) + Cardinality(DataFrames')
    BY <1>4, <2>1, <2>2
  <2>. QED
    BY <1>2, <2>3, CountedAre
<1>. QED
  BY <1>5, <1>6 DEF Counted

LEMMA InData ==
  ASSUME NEW e
  PROVE  /\ e \in DataFrames <=> \E id \in Id : \E i \in DOMAIN queue[id] :
                                   queue[id][i].kind = "data" /\ e = <<id, queue[id][i]>>
         /\ e \in DataFrames' <=> \E id \in Id : \E i \in DOMAIN queue'[id] :
                                   queue'[id][i].kind = "data" /\ e = <<id, queue'[id][i]>>
BY DEF DataFrames

LEMMA DataGrows ==
  ASSUME Types, NEW id \in Id, NEW f \in Frame,
         queue'[id] = Append(queue[id], f), \A x \in Id \ {id} : queue'[x] = queue[x],
         \A i \in DOMAIN queue[id] : queue[id][i] # f
  PROVE  /\ f.kind = "data" =>
              DataFrames' = DataFrames \cup {<<id, f>>} /\ <<id, f>> \notin DataFrames
         /\ f.kind # "data" => DataFrames' = DataFrames
<1>1. PICK s \in Seq(Frame) : s = queue[id]
  BY DEF Types
<1>2. PICK n \in Nat : n = Len(s)
  BY <1>1, LenProperties
<1>3. /\ DOMAIN s = 1 .. n /\ DOMAIN queue'[id] = 1 .. n + 1
      /\ \A i \in 1 .. n : queue'[id][i] = s[i]
      /\ queue'[id][n + 1] = f
  BY <1>1, <1>2, Grows
<1>4. \A i \in 1 .. n + 1 : i \in 1 .. n \/ i = n + 1
  OBVIOUS
<1>5. n + 1 \in 1 .. n + 1 /\ \A i \in 1 .. n : i \in 1 .. n + 1
  OBVIOUS
<1>6. ASSUME NEW e
      PROVE e \in DataFrames' <=> e \in DataFrames \/ (f.kind = "data" /\ e = <<id, f>>)
  <2>1. ASSUME e \in DataFrames' PROVE e \in DataFrames \/ (f.kind = "data" /\ e = <<id, f>>)
    <3>1. PICK x \in Id : \E i \in DOMAIN queue'[x] :
            queue'[x][i].kind = "data" /\ e = <<x, queue'[x][i]>>
      BY <2>1, InData
    <3>2. CASE x # id
      <4>1. queue'[x] = queue[x]
        BY <3>2
      <4>. QED
        BY <3>1, <4>1, InData
    <3>3. CASE x = id
      <4>1. PICK i \in 1 .. n + 1 : queue'[id][i].kind = "data" /\ e = <<id, queue'[id][i]>>
        BY <1>3, <3>1, <3>3
      <4>2. CASE i = n + 1
        BY <1>3, <4>1, <4>2
      <4>3. CASE i \in 1 .. n
        <5>1. i \in DOMAIN queue[id] /\ queue'[id][i] = queue[id][i]
          BY <1>1, <1>3, <4>3
        <5>. QED
          BY <4>1, <5>1, InData
      <4>. QED
        BY <1>4, <4>2, <4>3
    <3>. QED
      BY <3>2, <3>3
  <2>2. ASSUME e \in DataFrames PROVE e \in DataFrames'
    <3>1. PICK x \in Id : \E i \in DOMAIN queue[x] :
            queue[x][i].kind = "data" /\ e = <<x, queue[x][i]>>
      BY <2>2, InData
    <3>2. CASE x # id
      <4>1. queue'[x] = queue[x]
        BY <3>2
      <4>. QED
        BY <3>1, <4>1, InData
    <3>3. CASE x = id
      <4>1. PICK i \in 1 .. n : s[i].kind = "data" /\ e = <<id, s[i]>>
        BY <1>1, <1>3, <3>1, <3>3
      <4>2. i \in DOMAIN queue'[id] /\ queue'[id][i] = s[i]
        BY <1>3, <1>5
      <4>. QED
        BY <4>1, <4>2, InData
    <3>. QED
      BY <3>2, <3>3
  <2>3. ASSUME f.kind = "data", e = <<id, f>> PROVE e \in DataFrames'
    BY <1>3, <1>5, <2>3, InData
  <2>. QED
    BY <2>1, <2>2, <2>3
<1>7. <<id, f>> \notin DataFrames
  <2>1. SUFFICES ASSUME <<id, f>> \in DataFrames PROVE FALSE
    OBVIOUS
  <2>2. PICK x \in Id : \E i \in DOMAIN queue[x] : <<id, f>> = <<x, queue[x][i]>>
    BY <2>1, InData
  <2>. QED
    BY <2>2
<1>. QED
  BY <1>6, <1>7

LEMMA DataShrinks ==
  ASSUME Types, NEW id \in Id, queue[id] # <<>>,
         queue'[id] = Tail(queue[id]), \A x \in Id \ {id} : queue'[x] = queue[x],
         \A i \in DOMAIN queue[id] : i # 1 => queue[id][i] # queue[id][1]
  PROVE  /\ DataFrames' = DataFrames \ {<<id, queue[id][1]>>}
         /\ <<id, queue[id][1]>> \in DataFrames <=> queue[id][1].kind = "data"
<1>1. PICK s \in Seq(Frame) : s = queue[id] /\ s # <<>>
  BY DEF Types
<1>2. PICK n \in Nat : n = Len(s)
  BY <1>1, LenProperties
<1>3. /\ n >= 1 /\ DOMAIN s = 1 .. n /\ DOMAIN queue'[id] = 1 .. n - 1
      /\ \A i \in 1 .. n - 1 : queue'[id][i] = s[i + 1]
  BY <1>1, <1>2, Shrinks
<1>4. 1 \in 1 .. n /\ \A i \in 1 .. n - 1 : i + 1 \in 1 .. n /\ i + 1 # 1
  BY <1>3
<1>5. \A i \in 1 .. n : i # 1 => i - 1 \in 1 .. n - 1 /\ i - 1 + 1 = i
  OBVIOUS
<1>6. ASSUME NEW e PROVE e \in DataFrames' <=> e \in DataFrames /\ e # <<id, s[1]>>
  <2>1. ASSUME e \in DataFrames' PROVE e \in DataFrames /\ e # <<id, s[1]>>
    <3>1. PICK x \in Id : \E i \in DOMAIN queue'[x] :
            queue'[x][i].kind = "data" /\ e = <<x, queue'[x][i]>>
      BY <2>1, InData
    <3>2. CASE x # id
      <4>1. queue'[x] = queue[x]
        BY <3>2
      <4>2. e \in DataFrames
        BY <3>1, <4>1, InData
      <4>. QED
        BY <3>1, <3>2, <4>2
    <3>3. CASE x = id
      <4>1. PICK i \in 1 .. n - 1 : queue'[id][i].kind = "data" /\ e = <<id, queue'[id][i]>>
        BY <1>3, <3>1, <3>3
      <4>2. i + 1 \in 1 .. n /\ i + 1 # 1 /\ queue'[id][i] = s[i + 1]
        BY <1>3, <1>4
      <4>3. i + 1 \in DOMAIN queue[id] /\ queue[id][i + 1] = s[i + 1] /\ s[i + 1] # s[1]
        BY <1>1, <1>3, <4>2
      <4>4. e \in DataFrames
        BY <4>1, <4>2, <4>3, InData
      <4>. QED
        BY <4>1, <4>2, <4>3, <4>4
    <3>. QED
      BY <3>2, <3>3
  <2>2. ASSUME e \in DataFrames, e # <<id, s[1]>> PROVE e \in DataFrames'
    <3>1. PICK x \in Id : \E i \in DOMAIN queue[x] :
            queue[x][i].kind = "data" /\ e = <<x, queue[x][i]>>
      BY <2>2, InData
    <3>2. CASE x # id
      <4>1. queue'[x] = queue[x]
        BY <3>2
      <4>. QED
        BY <3>1, <4>1, InData
    <3>3. CASE x = id
      <4>1. PICK i \in 1 .. n : s[i].kind = "data" /\ e = <<id, s[i]>>
        BY <1>1, <1>3, <3>1, <3>3
      <4>2. i # 1
        BY <2>2, <4>1
      <4>3. PICK j : j \in DOMAIN queue'[id] /\ queue'[id][j] = s[i]
        <5>1. i - 1 \in DOMAIN queue'[id] /\ queue'[id][i - 1] = s[i]
          BY <1>3, <1>5, <4>2
        <5>. QED
          BY <5>1
      <4>4. queue'[id][j].kind = "data" /\ e = <<id, queue'[id][j]>>
        BY <4>1, <4>3
      <4>5. \E y \in Id : \E k \in DOMAIN queue'[y] :
              queue'[y][k].kind = "data" /\ e = <<y, queue'[y][k]>>
        BY <4>3, <4>4
      <4>. QED
        BY <4>5, InData
    <3>. QED
      BY <3>2, <3>3
  <2>. QED
    BY <2>1, <2>2
<1>7. <<id, s[1]>> \in DataFrames <=> s[1].kind = "data"
  <2>1. ASSUME s[1].kind = "data" PROVE <<id, s[1]>> \in DataFrames
    <3>1. 1 \in DOMAIN queue[id] /\ queue[id][1] = s[1]
      BY <1>1, <1>3, <1>4
    <3>. QED
      BY <2>1, <3>1, InData
  <2>2. ASSUME <<id, s[1]>> \in DataFrames PROVE s[1].kind = "data"
    <3>1. PICK x \in Id : \E i \in DOMAIN queue[x] :
            queue[x][i].kind = "data" /\ <<id, s[1]>> = <<x, queue[x][i]>>
      BY <2>2, InData
    <3>. QED
      BY <3>1
  <2>. QED
    BY <2>1, <2>2
<1>. QED
  BY <1>1, <1>6, <1>7

\* Nothing is queued or taken.
LEMMA QueuesCounted ==
  ASSUME Types, Counted, UNCHANGED queue
  PROVE  /\ IsFiniteSet(DataFrames')
         /\ \A u \in Int : u + Cardinality(DataFrames') - Cardinality(DataFrames) = u
<1>1. DataFrames' = DataFrames
  BY DEF DataFrames
<1>2. IsFiniteSet(DataFrames) /\ Cardinality(DataFrames) \in Nat
  BY FS_CardinalityType DEF Counted
<1>. QED
  BY <1>1, <1>2

LEMMA HandleCounted ==
  ASSUME Types, Counted, NEW c \in Caller,
         CloneHandle(c) \/ DropHandle(c) \/ ReservePayload(c)
           \/ \E id \in Id : RequestRefused(c, id)
  PROVE  Counted'
<1>1. caller \in [Caller -> CallerState] /\ usage \in Int /\ producers \in Int
  BY DEF Types
<1>2. /\ IsFiniteSet(DataFrames')
      /\ \A u \in Int : u + Cardinality(DataFrames') - Cardinality(DataFrames) = u
  BY QueuesCounted DEF CloneHandle, DropHandle, ReservePayload, RequestRefused
<1>3. CASE CloneHandle(c)
  <2>1. /\ caller[c] = "none" /\ caller'[c] = "free" /\ producers' = producers + 1
        /\ \A x \in Caller \ {c} : caller'[x] = caller[x]
        /\ usage' = usage
    BY <1>1, <1>3 DEF CloneHandle, Becomes
  <2>. QED
    BY <1>1, <1>2, <2>1, CallerCounted DEF Held
<1>4. CASE DropHandle(c)
  <2>1. /\ caller[c] = "free" /\ caller'[c] = "none" /\ producers' = producers - 1
        /\ \A x \in Caller \ {c} : caller'[x] = caller[x]
        /\ usage' = usage
    BY <1>1, <1>4 DEF DropHandle, Becomes
  <2>. QED
    BY <1>1, <1>2, <2>1, CallerCounted DEF Held
<1>5. CASE ReservePayload(c)
  <2>1. /\ caller[c] = "free" /\ caller'[c] = "reserved" /\ producers' = producers
        /\ \A x \in Caller \ {c} : caller'[x] = caller[x]
        /\ usage' = usage + 1
    BY <1>1, <1>5 DEF ReservePayload, Becomes, handleVars
  <2>. QED
    BY <1>1, <1>2, <2>1, CallerCounted DEF Held
<1>6. CASE \E id \in Id : RequestRefused(c, id)
  <2>1. /\ caller[c] = "reserved" /\ caller'[c] = "free" /\ producers' = producers
        /\ \A x \in Caller \ {c} : caller'[x] = caller[x]
        /\ usage' = usage - 1
    BY <1>1, <1>6 DEF RequestRefused, Becomes, handleVars
  <2>. QED
    BY <1>1, <1>2, <2>1, CallerCounted DEF Held
<1>. QED
  BY <1>3, <1>4, <1>5, <1>6

LEMMA OwnerCounted ==
  ASSUME Types, Counted, Shutdown \/ Join \/ DeadlinePasses \/ PopControl \/ EndLoop
                           \/ \E w \in {Owner, NoOne} : SendControl(w)
  PROVE  Counted'
<1>1. caller \in [Caller -> CallerState] /\ usage \in Int /\ producers \in Int /\ Owner \in Caller
  BY DEF Types, Caller
<1>2. UNCHANGED <<queue, usage>>
  BY DEF Shutdown, Join, DeadlinePasses, PopControl, EndLoop, SendControl
<1>3. /\ IsFiniteSet(DataFrames')
      /\ \A u \in Int : u + Cardinality(DataFrames') - Cardinality(DataFrames) = u
  BY <1>2, QueuesCounted
<1>4. CASE Shutdown
  <2>1. /\ caller[Owner] = "free" /\ caller'[Owner] = "joining" /\ producers' = producers - 1
        /\ \A x \in Caller \ {Owner} : caller'[x] = caller[x]
    BY <1>1, <1>4 DEF Shutdown, Becomes
  <2>. QED
    BY <1>1, <1>2, <1>3, <2>1, CallerCounted DEF Held
<1>5. CASE Join
  <2>1. /\ caller[Owner] = "joining" /\ caller'[Owner] = "none" /\ producers' = producers
        /\ \A x \in Caller \ {Owner} : caller'[x] = caller[x]
    BY <1>1, <1>5 DEF Join, Becomes, handleVars
  <2>. QED
    BY <1>1, <1>2, <1>3, <2>1, CallerCounted DEF Held
<1>6. CASE DeadlinePasses \/ PopControl \/ EndLoop
  <2>1. UNCHANGED <<caller, producers>>
    BY <1>6 DEF DeadlinePasses, PopControl, EndLoop, handleVars
  <2>. QED
    BY <1>1, <1>2, <1>3, <2>1, SameCounted
<1>7. CASE \E w \in {Owner, NoOne} : SendControl(w)
  <2>1. PICK w \in {Owner, NoOne} : SendControl(w)
    BY <1>7
  <2>2. caller[Owner] = "free" /\ Accepted(Ctl, Owner, w)
    BY <2>1 DEF SendControl
  <2>3. /\ caller'[Owner] \in {"free", "waiting"} /\ producers' = producers
        /\ \A x \in Caller \ {Owner} : caller'[x] = caller[x]
    BY <1>1, <2>2 DEF Accepted, Becomes, handleVars
  <2>. QED
    BY <1>1, <1>2, <1>3, <2>2, <2>3, CallerCounted DEF Held
<1>. QED
  BY <1>4, <1>5, <1>6, <1>7

LEMMA RequestCounted ==
  ASSUME Types, ListsOK, Counted, NEW c \in Caller, NEW id \in Id, NEW kind \in RequestKind,
         Request(c, id, kind)
  PROVE  Counted'
<1>1. PICK f \in Frame :
        /\ f.kind = kind /\ f.n = accepted[id] + 1
        /\ Accepted(id, c, f.wait)
        /\ queue'[id] = Append(queue[id], f) /\ \A x \in Id \ {id} : queue'[x] = queue[x]
  BY RequestFacts
<1>2. \A i \in DOMAIN queue[id] : queue[id][i] # f
  <2>1. accepted[id] \in Nat
    BY DEF Types, Lane
  <2>2. \A i \in DOMAIN queue[id] : queue[id][i].n <= accepted[id]
    BY DEF ListsOK, Numbered
  <2>3. SUFFICES ASSUME NEW i \in DOMAIN queue[id], queue[id][i] = f PROVE FALSE
    OBVIOUS
  <2>4. f.n <= accepted[id]
    BY <2>2, <2>3
  <2>. QED
    BY <1>1, <2>1, <2>4
<1>4. /\ kind = "data" => DataFrames' = DataFrames \cup {<<id, f>>} /\ <<id, f>> \notin DataFrames
      /\ kind # "data" => DataFrames' = DataFrames
  BY <1>1, <1>2, DataGrows
<1>5. /\ IsFiniteSet(DataFrames) /\ IsFiniteSet(DataFrames')
      /\ Cardinality(DataFrames) \in Nat
      /\ Cardinality(DataFrames') = Cardinality(DataFrames) + (IF kind = "data" THEN 1 ELSE 0)
  <2>1. IsFiniteSet(DataFrames) /\ Cardinality(DataFrames) \in Nat
    BY FS_CardinalityType DEF Counted
  <2>2. CASE kind = "data"
    BY <1>4, <2>1, <2>2, FS_AddElement
  <2>3. CASE kind # "data"
    BY <1>4, <2>1, <2>3
  <2>. QED
    BY <2>1, <2>2, <2>3
<1>6. /\ caller[c] = (IF kind = "data" THEN "reserved" ELSE "free")
      /\ caller'[c] \in {"free", "waiting"}
      /\ \A x \in Caller \ {c} : caller'[x] = caller[x]
      /\ producers' = producers /\ usage' = usage /\ usage \in Int /\ producers \in Int
  BY <1>1 DEF Types, Request, Accepted, Becomes, handleVars
<1>7. usage' = usage + (IF caller'[c] = "reserved" THEN 1 ELSE 0)
                 - (IF caller[c] = "reserved" THEN 1 ELSE 0)
                 + Cardinality(DataFrames') - Cardinality(DataFrames)
  BY <1>5, <1>6
<1>8. producers' = producers + (IF caller'[c] \in Held THEN 1 ELSE 0)
                     - (IF caller[c] \in Held THEN 1 ELSE 0)
  BY <1>6 DEF Held
<1>. QED
  BY <1>5, <1>6, <1>7, <1>8, CallerCounted

LEMMA PopCounted ==
  ASSUME Types, ListsOK, Counted, PopRequest
  PROVE  Counted'
<1>1. PICK id \in Id, f \in Frame :
        /\ queue[id] # <<>> /\ f = queue[id][1]
        /\ queue' = [queue EXCEPT ![id] = Tail(queue[id])]
        /\ usage' = IF f.kind = "data" THEN usage - 1 ELSE usage
        /\ UNCHANGED <<handleVars, caller>>
  BY PopFacts DEF ListsOK
<1>2. queue \in [Id -> Seq(Frame)] /\ queue[id] \in Seq(Frame)
  BY DEF Types
<1>3. \A i \in DOMAIN queue[id] : i # 1 => queue[id][i] # queue[id][1]
  <2>1. \A i, j \in DOMAIN queue[id] : i < j => queue[id][i].n < queue[id][j].n
    BY DEF ListsOK, Numbered
  <2>2. PICK n \in Nat : n = Len(queue[id])
    BY <1>2, LenProperties
  <2>3. n >= 1 /\ DOMAIN queue[id] = 1 .. n /\ \A i \in 1 .. n : queue[id][i] \in Frame
    BY <1>1, <1>2, <2>2, Shrinks, ElementOfSeq
  <2>4. ASSUME NEW i \in 1 .. n, i # 1, queue[id][i] = queue[id][1] PROVE FALSE
    <3>1. 1 \in 1 .. n /\ 1 < i
      BY <2>3, <2>4
    <3>2. queue[id][1].n < queue[id][1].n /\ queue[id][1].n \in Nat
      BY <2>1, <2>3, <2>4, <3>1 DEF Frame
    <3>. QED
      BY <3>2
  <2>. QED
    BY <2>3, <2>4
<1>4. /\ DataFrames' = DataFrames \ {<<id, f>>}
      /\ <<id, f>> \in DataFrames <=> f.kind = "data"
  <2>1. queue'[id] = Tail(queue[id]) /\ \A x \in Id \ {id} : queue'[x] = queue[x]
    BY <1>1, <1>2
  <2>. QED
    BY <1>1, <1>3, <2>1, DataShrinks
<1>5. /\ IsFiniteSet(DataFrames')
      /\ Cardinality(DataFrames) \in Nat
      /\ Cardinality(DataFrames') = Cardinality(DataFrames) - (IF f.kind = "data" THEN 1 ELSE 0)
  <2>1. IsFiniteSet(DataFrames) /\ Cardinality(DataFrames) \in Nat
    BY FS_CardinalityType DEF Counted
  <2>. QED
    BY <1>4, <2>1, FS_RemoveElement
<1>6. usage' = usage + Cardinality(DataFrames') - Cardinality(DataFrames)
  <2>1. usage \in Int
    BY DEF Types
  <2>. QED
    BY <1>1, <1>5, <2>1
<1>7. UNCHANGED <<caller, producers>>
  BY <1>1 DEF handleVars
<1>. QED
  BY <1>5, <1>6, <1>7, SameCounted

-----------------------------------------------------------------------------
(* The frames a lane owes: the one being written, then those queued.       *)

Queue(l) == IF l = Ctl THEN control ELSE queue[l]
Owed(w, l, q) == (IF w.pc = "writing" /\ w.lane = l THEN <<w.frame>> ELSE <<>>) \o q

LEMMA PendingIs ==
  /\ Pending = [l \in Lane |-> Owed(writer, l, Queue(l))]
  /\ Pending' = [l \in Lane |-> Owed(writer', l, Queue(l)')]
BY DEF Pending, Owed, Queue

LEMMA QueueTypes == ASSUME Types, NEW l \in Lane PROVE Queue(l) \in Seq(Frame)
BY DEF Types, Queue, Lane

LEMMA OwedIdle ==
  ASSUME NEW w, NEW l, NEW q \in Seq(Frame), ~(w.pc = "writing" /\ w.lane = l)
  PROVE  Owed(w, l, q) = q
BY ConcatEmptySeq DEF Owed

LEMMA Prepended ==
  ASSUME NEW f \in Frame, NEW q \in Seq(Frame)
  PROVE  /\ <<f>> \o q \in Seq(Frame) /\ <<f>> \o q # <<>>
         /\ Head(<<f>> \o q) = f /\ Tail(<<f>> \o q) = q
<1>1. /\ <<f>> \in Seq(Frame) /\ Len(<<f>>) = 1 /\ <<f>>[1] = f
  OBVIOUS
<1>2. PICK p \in Seq(Frame) : p = <<f>> \o q
  BY <1>1, ConcatProperties
<1>3. PICK n \in Nat : n = Len(q)
  BY LenProperties
<1>4. /\ Len(p) = 1 + n
      /\ \A i \in 1 .. 1 + n : p[i] = IF i <= 1 THEN f ELSE q[i - 1]
  BY <1>1, <1>2, <1>3, ConcatProperties
<1>5. p # <<>> /\ p[1] = f
  BY <1>3, <1>4
<1>6. /\ Head(p) = p[1] /\ Tail(p) \in Seq(Frame) /\ Len(Tail(p)) = n
      /\ \A i \in 1 .. n : Tail(p)[i] = p[i + 1]
  BY <1>3, <1>4, <1>5, Shrinks, HeadTailProperties
<1>7. \A i \in 1 .. n : Tail(p)[i] = q[i]
  <2>1. ASSUME NEW i \in 1 .. n PROVE Tail(p)[i] = q[i]
    <3>1. i + 1 \in 1 .. 1 + n /\ ~(i + 1 <= 1) /\ i + 1 - 1 = i
      BY <1>3
    <3>2. p[i + 1] = q[i]
      BY <1>4, <3>1
    <3>. QED
      BY <1>6, <3>2
  <2>. QED
    BY <2>1
<1>8. Tail(p) = q
  BY <1>3, <1>6, <1>7, SeqEqual
<1>. QED
  BY <1>2, <1>5, <1>6, <1>8

LEMMA OwedTypes ==
  ASSUME NEW w, NEW l, NEW q \in Seq(Frame), w.pc = "writing" => w.frame \in Frame
  PROVE  Owed(w, l, q) \in Seq(Frame)
<1>1. CASE w.pc = "writing" /\ w.lane = l
  BY <1>1, Prepended DEF Owed
<1>2. CASE ~(w.pc = "writing" /\ w.lane = l)
  BY <1>2, OwedIdle
<1>. QED
  BY <1>1, <1>2

LEMMA PendingTypes == ASSUME Types, WriterOK PROVE Pending \in [Lane -> Seq(Frame)]
<1>1. ASSUME NEW l \in Lane PROVE Owed(writer, l, Queue(l)) \in Seq(Frame)
  BY QueueTypes, OwedTypes DEF WriterOK
<1>. QED
  BY <1>1, PendingIs

LEMMA OwedAppend ==
  ASSUME NEW w, NEW l, NEW q \in Seq(Frame), NEW f \in Frame,
         w.pc = "writing" => w.frame \in Frame
  PROVE  Owed(w, l, Append(q, f)) = Append(Owed(w, l, q), f)
<1> DEFINE h == IF w.pc = "writing" /\ w.lane = l THEN <<w.frame>> ELSE <<>>
<1>1. h \in Seq(Frame)
  <2>1. CASE w.pc = "writing" /\ w.lane = l
    <3>1. h = <<w.frame>> /\ w.frame \in Frame
      BY <2>1
    <3>. QED
      BY <3>1
  <2>2. CASE ~(w.pc = "writing" /\ w.lane = l)
    <3>1. h = <<>>
      BY <2>2
    <3>. QED
      BY <3>1
  <2>. QED
    BY <2>1, <2>2
<1>2. \A s : Owed(w, l, s) = h \o s
  BY DEF Owed
<1> HIDE DEF h
<1>3. <<f>> \in Seq(Frame) /\ h \o q \in Seq(Frame)
  BY <1>1, ConcatProperties
<1>4. Append(q, f) = q \o <<f>> /\ Append(h \o q, f) = (h \o q) \o <<f>>
  BY <1>3, AppendIsConcat
<1>5. (h \o q) \o <<f>> = h \o (q \o <<f>>)
  BY <1>1, <1>3, ConcatAssociative
<1>. QED
  BY <1>2, <1>4, <1>5

\* A frame is accepted into lane l.
LEMMA PendingAppends ==
  ASSUME Types, WriterOK, NEW l \in Lane, NEW f \in Frame, UNCHANGED writer,
         Queue(l)' = Append(Queue(l), f), \A m \in Lane \ {l} : Queue(m)' = Queue(m)
  PROVE  Pending' = [Pending EXCEPT ![l] = Append(Pending[l], f)]
<1>1. ASSUME NEW m \in Lane
      PROVE Pending'[m] = IF m = l THEN Append(Pending[m], f) ELSE Pending[m]
  <2>1. Pending'[m] = Owed(writer, m, Queue(m)') /\ Pending[m] = Owed(writer, m, Queue(m))
    BY PendingIs
  <2>2. CASE m = l
    <3>1. Owed(writer, l, Append(Queue(l), f)) = Append(Owed(writer, l, Queue(l)), f)
      BY QueueTypes, OwedAppend DEF WriterOK
    <3>. QED
      BY <2>1, <2>2, <3>1
  <2>3. CASE m # l
    BY <2>1, <2>3
  <2>. QED
    BY <2>2, <2>3
<1>. QED
  BY <1>1, PendingIs

\* The frame being written leaves its lane.
LEMMA PendingLoses ==
  ASSUME Types, WriterOK, WriteFrame \/ WriteFails
  PROVE  /\ writer.lane \in Lane /\ writer.frame \in Frame
         /\ Pending[writer.lane] # <<>> /\ Head(Pending[writer.lane]) = writer.frame
         /\ Pending' = [Pending EXCEPT ![writer.lane] = Tail(Pending[writer.lane])]
<1>1. /\ writer.pc = "writing" /\ writer'.pc # "writing"
      /\ \A l \in Lane : Queue(l)' = Queue(l)
  BY DEF WriteFrame, WriteFails, Idle, Queue
<1>2. PICK l \in Lane : l = writer.lane
  BY DEF Types, CtlState
<1>3. writer.frame \in Frame
  BY <1>1 DEF WriterOK
<1>4. /\ Pending[l] # <<>> /\ Head(Pending[l]) = writer.frame /\ Tail(Pending[l]) = Queue(l)
  <2>1. Pending[l] = <<writer.frame>> \o Queue(l)
    BY <1>1, <1>2, PendingIs DEF Owed
  <2>. QED
    BY <1>3, <2>1, QueueTypes, Prepended
<1>5. ASSUME NEW m \in Lane
      PROVE Pending'[m] = IF m = l THEN Tail(Pending[m]) ELSE Pending[m]
  <2>1. Queue(m) \in Seq(Frame)
    BY QueueTypes
  <2>2. Pending'[m] = Queue(m)
    <3>1. Pending'[m] = Owed(writer', m, Queue(m))
      BY <1>1, PendingIs
    <3>. QED
      BY <1>1, <2>1, <3>1, OwedIdle
  <2>3. CASE m = l
    BY <1>4, <2>2, <2>3
  <2>4. CASE m # l
    <3>1. Pending[m] = Owed(writer, m, Queue(m))
      BY PendingIs
    <3>. QED
      BY <1>2, <2>1, <2>2, <2>4, <3>1, OwedIdle
  <2>. QED
    BY <2>3, <2>4
<1>. QED
  BY <1>2, <1>3, <1>4, <1>5, PendingIs

\* The writer takes a frame: its lane owes it still.
LEMMA PendingTaken ==
  ASSUME Types, NEW l \in Lane, Queue(l) # <<>>, writer.pc = "idle",
         Writes(l, Head(Queue(l))),
         Queue(l)' = Tail(Queue(l)), \A m \in Lane \ {l} : Queue(m)' = Queue(m)
  PROVE  Pending' = Pending
<1>1. /\ writer'.pc = "writing" /\ writer'.lane = l /\ writer'.frame = Head(Queue(l))
  BY DEF Writes
<1>2. ASSUME NEW m \in Lane PROVE Pending'[m] = Pending[m]
  <2>1. Queue(m) \in Seq(Frame)
    BY QueueTypes
  <2>2. Pending[m] = Queue(m)
    <3>1. Pending[m] = Owed(writer, m, Queue(m))
      BY PendingIs
    <3>. QED
      BY <2>1, <3>1, OwedIdle
  <2>3. Pending'[m] = Owed(writer', m, Queue(m)')
    BY PendingIs
  <2>4. CASE m = l
    <3>1. PICK q \in Seq(Frame) : q = Queue(l) /\ q # <<>>
      BY QueueTypes
    <3>2. <<Head(q)>> \o Tail(q) = q
      BY <3>1, HeadRejoins
    <3>. QED
      BY <1>1, <2>2, <2>3, <2>4, <3>1, <3>2 DEF Owed
  <2>5. CASE m # l
    <3>1. Queue(m)' = Queue(m)
      BY <2>5
    <3>. QED
      BY <1>1, <2>1, <2>2, <2>3, <2>5, <3>1, OwedIdle
  <2>. QED
    BY <2>4, <2>5
<1>. QED
  BY <1>2, PendingIs

\* Nothing is queued, taken or written.
LEMMA PendingSame ==
  ASSUME Types, UNCHANGED <<control, queue>>,
         UNCHANGED writer \/ (writer.pc # "writing" /\ writer'.pc # "writing")
  PROVE  Pending' = Pending
<1>1. ASSUME NEW m \in Lane PROVE Pending'[m] = Pending[m]
  <2>1. Queue(m) \in Seq(Frame) /\ Queue(m)' = Queue(m)
    BY QueueTypes DEF Queue
  <2>2. Pending[m] = Owed(writer, m, Queue(m)) /\ Pending'[m] = Owed(writer', m, Queue(m))
    BY <2>1, PendingIs
  <2>3. CASE UNCHANGED writer
    BY <2>2, <2>3
  <2>4. CASE writer.pc # "writing" /\ writer'.pc # "writing"
    BY <2>1, <2>2, <2>4, OwedIdle
  <2>. QED
    BY <2>3, <2>4
<1>. QED
  BY <1>1, PendingIs

-----------------------------------------------------------------------------
(* Each caller waits for one frame.                                        *)

LEMMA EachSame ==
  ASSUME OneFrameEach, Pending' = Pending, UNCHANGED told
  PROVE  OneFrameEach'
BY DEF OneFrameEach

LEMMA EachAppends ==
  ASSUME Types, WriterOK, OneFrameEach, NEW l \in Lane, NEW f \in Frame,
         Pending' = [Pending EXCEPT ![l] = Append(Pending[l], f)],
         f.wait # NoOne => f.wait \in Caller /\ told[f.wait] # "waiting",
         told' = IF f.wait = NoOne THEN told ELSE [told EXCEPT ![f.wait] = "waiting"]
  PROVE  OneFrameEach'
<1>1. Pending \in [Lane -> Seq(Frame)]
  BY PendingTypes
<1>2. PICK s \in Seq(Frame) : s = Pending[l]
  BY <1>1
<1>3. PICK n \in Nat : n = Len(s)
  BY <1>2, LenProperties
<1>4. PICK t : t = Append(s, f)
  OBVIOUS
<1>5. /\ DOMAIN s = 1 .. n /\ DOMAIN t = 1 .. n + 1
      /\ \A i \in 1 .. n : t[i] = s[i]
      /\ t[n + 1] = f
  BY <1>2, <1>3, <1>4, Grows
<1>6. Pending'[l] = t /\ \A m \in Lane \ {l} : Pending'[m] = Pending[m]
  BY <1>1, <1>2, <1>4
<1>7. /\ n + 1 \in 1 .. n + 1 /\ \A i \in 1 .. n : i \in 1 .. n + 1
      /\ \A i \in 1 .. n + 1 : i \in 1 .. n \/ i = n + 1
      /\ n + 1 \notin 1 .. n
  OBVIOUS
\* A frame of the lane after the step is the new one or an old one, in its place.
<1>8. ASSUME NEW m \in Lane, NEW i \in DOMAIN Pending'[m]
      PROVE \/ i \in DOMAIN Pending[m] /\ Pending'[m][i] = Pending[m][i]
            \/ m = l /\ i = n + 1 /\ Pending'[m][i] = f
  <2>1. CASE m = l
    BY <1>2, <1>5, <1>6, <1>7, <2>1
  <2>2. CASE m # l
    BY <1>6, <2>2
  <2>. QED
    BY <2>1, <2>2
<1>9. ASSUME NEW m \in Lane, NEW i \in DOMAIN Pending[m]
      PROVE i \in DOMAIN Pending'[m] /\ Pending'[m][i] = Pending[m][i]
  <2>1. CASE m = l
    BY <1>2, <1>5, <1>6, <1>7, <2>1
  <2>2. CASE m # l
    BY <1>6, <2>2
  <2>. QED
    BY <2>1, <2>2
<1>10. n + 1 \in DOMAIN Pending'[l] /\ Pending'[l][n + 1] = f
  BY <1>5, <1>6, <1>7
<1>11. ASSUME NEW c \in Caller
       PROVE told'[c] = "waiting" <=>
               \E m \in Lane : \E i \in DOMAIN Pending'[m] : Pending'[m][i].wait = c
  <2>1. told'[c] = "waiting" <=> told[c] = "waiting" \/ c = f.wait
    <3>1. c # NoOne /\ told \in [Caller -> {"none", "waiting", "ok", "err"}]
      BY WriterAssumption DEF Types, Caller
    <3>2. CASE f.wait = NoOne
      BY <3>1, <3>2
    <3>3. CASE f.wait # NoOne
      BY <3>1, <3>3
    <3>. QED
      BY <3>2, <3>3
  <2>2. ASSUME told'[c] = "waiting"
        PROVE \E m \in Lane : \E i \in DOMAIN Pending'[m] : Pending'[m][i].wait = c
    <3>1. CASE c = f.wait
      BY <1>10, <3>1
    <3>2. CASE told[c] = "waiting"
      <4>1. PICK m \in Lane : \E i \in DOMAIN Pending[m] : Pending[m][i].wait = c
        BY <3>2 DEF OneFrameEach
      <4>. QED
        BY <1>9, <4>1
    <3>. QED
      BY <2>1, <2>2, <3>1, <3>2
  <2>3. ASSUME NEW m \in Lane, NEW i \in DOMAIN Pending'[m], Pending'[m][i].wait = c
        PROVE told'[c] = "waiting"
    <3>1. CASE Pending'[m][i] = f
      BY <2>1, <2>3, <3>1
    <3>2. CASE i \in DOMAIN Pending[m] /\ Pending'[m][i] = Pending[m][i]
      BY <2>1, <2>3, <3>2 DEF OneFrameEach
    <3>. QED
      BY <1>8, <3>1, <3>2
  <2>. QED
    BY <2>2, <2>3
\* A frame of before does not wait for the new one's caller.
<1>12. ASSUME NEW m \in Lane, NEW i \in DOMAIN Pending[m],
              Pending[m][i].wait = f.wait, f.wait # NoOne
       PROVE FALSE
  BY <1>12 DEF OneFrameEach
<1>13. ASSUME NEW x \in Lane, NEW m \in Lane,
              NEW i \in DOMAIN Pending'[x], NEW j \in DOMAIN Pending'[m],
              Pending'[x][i].wait = Pending'[m][j].wait, Pending'[x][i].wait # NoOne
       PROVE x = m /\ i = j
  <2>1. CASE x = l /\ i = n + 1 /\ Pending'[x][i] = f
    <3>1. CASE m = l /\ j = n + 1
      BY <2>1, <3>1
    <3>2. CASE j \in DOMAIN Pending[m] /\ Pending'[m][j] = Pending[m][j]
      BY <1>12, <1>13, <2>1, <3>2
    <3>. QED
      BY <1>8, <3>1, <3>2
  <2>2. CASE i \in DOMAIN Pending[x] /\ Pending'[x][i] = Pending[x][i]
    <3>1. CASE Pending'[m][j] = f
      BY <1>12, <1>13, <2>2, <3>1
    <3>2. CASE j \in DOMAIN Pending[m] /\ Pending'[m][j] = Pending[m][j]
      BY <1>13, <2>2, <3>2 DEF OneFrameEach
    <3>. QED
      BY <1>8, <3>1, <3>2
  <2>. QED
    BY <1>8, <2>1, <2>2
<1>. QED
  BY <1>11, <1>13 DEF OneFrameEach

LEMMA EachLoses ==
  ASSUME Types, WriterOK, OneFrameEach, NEW l \in Lane, Pending[l] # <<>>,
         NEW w, w = Head(Pending[l]).wait,
         Pending' = [Pending EXCEPT ![l] = Tail(Pending[l])],
         NEW answer \in {"ok", "err"},
         told' = IF w = NoOne THEN told ELSE [told EXCEPT ![w] = answer]
  PROVE  OneFrameEach'
<1>1. Pending \in [Lane -> Seq(Frame)]
  BY PendingTypes
<1>2. PICK s \in Seq(Frame) : s = Pending[l] /\ s # <<>>
  BY <1>1
<1>3. PICK n \in Nat : n = Len(s)
  BY <1>2, LenProperties
<1>4. PICK t : t = Tail(s)
  OBVIOUS
<1>5. /\ n >= 1 /\ DOMAIN s = 1 .. n /\ DOMAIN t = 1 .. n - 1
      /\ \A i \in 1 .. n - 1 : t[i] = s[i + 1]
      /\ s[1].wait = w /\ s[1] \in Frame
  BY <1>2, <1>3, <1>4, Shrinks
<1>6. Pending'[l] = t /\ \A m \in Lane \ {l} : Pending'[m] = Pending[m]
  BY <1>1, <1>2, <1>4
<1>7. 1 \in DOMAIN Pending[l] /\ Pending[l][1].wait = w
  BY <1>2, <1>5
\* Where a frame was before the step.
<1> DEFINE before(m, i) == IF m = l THEN i + 1 ELSE i
<1>8. ASSUME NEW m \in Lane, NEW i \in DOMAIN Pending'[m]
      PROVE /\ before(m, i) \in DOMAIN Pending[m]
            /\ Pending'[m][i] = Pending[m][before(m, i)]
            /\ m = l => before(m, i) # 1
  <2>1. CASE m = l
    <3>1. i \in 1 .. n - 1
      BY <1>5, <1>6, <2>1
    <3>2. i + 1 \in 1 .. n /\ i + 1 # 1
      BY <3>1
    <3>. QED
      BY <1>2, <1>5, <1>6, <2>1, <3>1, <3>2
  <2>2. CASE m # l
    BY <1>6, <2>2
  <2>. QED
    BY <2>1, <2>2
<1>9. ASSUME NEW m \in Lane, NEW i \in DOMAIN Pending[m], m # l \/ i # 1
      PROVE \E j \in DOMAIN Pending'[m] : Pending'[m][j] = Pending[m][i]
  <2>1. CASE m = l
    <3>1. i \in 1 .. n /\ i # 1
      BY <1>2, <1>5, <1>9, <2>1
    <3>2. i - 1 \in 1 .. n - 1 /\ i - 1 + 1 = i
      BY <3>1
    <3>3. i - 1 \in DOMAIN Pending'[l] /\ Pending'[l][i - 1] = Pending[l][i]
      BY <1>2, <1>5, <1>6, <3>2
    <3>. QED
      BY <2>1, <3>3
  <2>2. CASE m # l
    BY <1>6, <2>2
  <2>. QED
    BY <2>1, <2>2
<1>10. ASSUME NEW x \in Lane, NEW m \in Lane,
              NEW i \in DOMAIN Pending'[x], NEW j \in DOMAIN Pending'[m],
              x = m, before(x, i) = before(m, j)
       PROVE i = j
  <2>1. CASE x = l
    <3>1. i \in 1 .. n - 1 /\ j \in 1 .. n - 1
      BY <1>5, <1>6, <1>10, <2>1
    <3>2. i + 1 = j + 1
      BY <1>10, <2>1
    <3>. QED
      BY <3>1, <3>2
  <2>2. CASE x # l
    BY <1>10, <2>2
  <2>. QED
    BY <2>1, <2>2
<1> HIDE DEF before
<1>11. ASSUME NEW c \in Caller
       PROVE told'[c] = "waiting" <=>
               \E m \in Lane : \E i \in DOMAIN Pending'[m] : Pending'[m][i].wait = c
  <2>0. c # NoOne /\ told \in [Caller -> {"none", "waiting", "ok", "err"}]
    BY WriterAssumption DEF Types, Caller
  <2>1. told'[c] = "waiting" <=> told[c] = "waiting" /\ c # w
    <3>1. CASE w = NoOne
      BY <2>0, <3>1
    <3>2. CASE w # NoOne
      BY <2>0, <3>2
    <3>. QED
      BY <3>1, <3>2
  <2>2. ASSUME told'[c] = "waiting"
        PROVE \E m \in Lane : \E i \in DOMAIN Pending'[m] : Pending'[m][i].wait = c
    <3>1. PICK m \in Lane : \E i \in DOMAIN Pending[m] : Pending[m][i].wait = c
      BY <2>1, <2>2 DEF OneFrameEach
    <3>2. PICK i \in DOMAIN Pending[m] : Pending[m][i].wait = c
      BY <3>1
    <3>3. m # l \/ i # 1
      BY <1>7, <2>1, <2>2, <3>2
    <3>4. PICK j \in DOMAIN Pending'[m] : Pending'[m][j] = Pending[m][i]
      BY <1>9, <3>3
    <3>. QED
      BY <3>2, <3>4
  <2>3. ASSUME NEW m \in Lane, NEW i \in DOMAIN Pending'[m], Pending'[m][i].wait = c
        PROVE told'[c] = "waiting"
    <3>1. PICK k \in DOMAIN Pending[m] : Pending[m][k].wait = c /\ (m = l => k # 1)
      BY <1>8, <2>3
    <3>2. told[c] = "waiting"
      BY <3>1 DEF OneFrameEach
    <3>3. c # w
      <4>1. SUFFICES ASSUME c = w PROVE FALSE
        OBVIOUS
      <4>2. m = l /\ k = 1
        BY <1>7, <2>0, <3>1, <4>1 DEF OneFrameEach
      <4>. QED
        BY <3>1, <4>2
    <3>. QED
      BY <2>1, <3>2, <3>3
  <2>. QED
    BY <2>2, <2>3
<1>12. ASSUME NEW x \in Lane, NEW m \in Lane,
              NEW i \in DOMAIN Pending'[x], NEW j \in DOMAIN Pending'[m],
              Pending'[x][i].wait = Pending'[m][j].wait, Pending'[x][i].wait # NoOne
       PROVE x = m /\ i = j
  <2>1. /\ before(x, i) \in DOMAIN Pending[x] /\ Pending'[x][i] = Pending[x][before(x, i)]
        /\ before(m, j) \in DOMAIN Pending[m] /\ Pending'[m][j] = Pending[m][before(m, j)]
    BY <1>8
  <2>2. x = m /\ before(x, i) = before(m, j)
    BY <1>12, <2>1 DEF OneFrameEach
  <2>. QED
    BY <1>10, <2>2
<1>. QED
  BY <1>11, <1>12 DEF OneFrameEach

LEMMA EachAbandoned ==
  ASSUME \A l \in Lane : Pending'[l] = <<>>, \A c \in Caller : told'[c] # "waiting"
  PROVE  OneFrameEach'
<1>1. \A l \in Lane : DOMAIN Pending'[l] = {}
  OBVIOUS
<1>. QED
  BY <1>1 DEF OneFrameEach

-----------------------------------------------------------------------------
(* Each step keeps what the writer owes its callers, and is one of the        *)
(* channel's.                                                              *)

CallersInv == WriterOK /\ CallersOK /\ OneFrameEach
SameChannel == UNCHANGED <<Pending, accepted, wire, told, Accepting, torn>>

LEMMA InitCallers == ASSUME Init PROVE CallersInv
<1>1. WriterOK
  BY DEF Init, WriterOK, Idle
<1>2. CallersOK
  BY DEF Init, CallersOK
<1>3. \A l \in Lane : Pending[l] = <<>> /\ DOMAIN Pending[l] = {}
  <2>1. ASSUME NEW l \in Lane PROVE Pending[l] = <<>>
    <3>1. Pending[l] = Owed(writer, l, Queue(l))
      BY PendingIs
    <3>2. Queue(l) = <<>> /\ writer.pc = "idle" /\ <<>> \in Seq(Frame)
      BY DEF Init, Queue, Lane, Idle
    <3>. QED
      BY <3>1, <3>2, OwedIdle
  <2>. QED
    BY <2>1
<1>4. OneFrameEach
  BY <1>3 DEF OneFrameEach, Init
<1>. QED
  BY <1>1, <1>2, <1>4 DEF CallersInv

\* Handles come and go, payload is reserved, and the deadline passes.
LEMMA HandleCallers ==
  ASSUME Types, CallersInv,
         \/ \E c \in Caller : \/ CloneHandle(c) \/ DropHandle(c) \/ ReservePayload(c)
                              \/ \E id \in Id : RequestRefused(c, id)
         \/ Shutdown \/ Join \/ DeadlinePasses
  PROVE  /\ CallersInv'
         /\ SameChannel \/ Channel!Close
<1>1. UNCHANGED <<control, queue, writer, told, accepted, wire, torn, failure>>
  BY DEF CloneHandle, DropHandle, ReservePayload, RequestRefused, Shutdown, Join,
         DeadlinePasses, historyVars
<1>2. Pending' = Pending
  BY <1>1, PendingSame
<1>3. OneFrameEach'
  BY <1>1, <1>2, EachSame DEF CallersInv
<1>4. WriterOK'
  BY <1>1 DEF CallersInv, WriterOK
<1>5. PICK c \in Caller, s \in CallerState :
        \/ caller' = [caller EXCEPT ![c] = s] /\ caller[c] # "waiting" /\ s # "waiting"
        \/ caller' = caller
  <2>1. CASE \E c \in Caller : \/ CloneHandle(c) \/ DropHandle(c) \/ ReservePayload(c)
                               \/ \E id \in Id : RequestRefused(c, id)
    BY <2>1 DEF CloneHandle, DropHandle, ReservePayload, RequestRefused, Becomes, CallerState
  <2>2. CASE Shutdown \/ Join
    <3>1. Owner \in Caller
      BY DEF Caller
    <3>. QED
      BY <2>2, <3>1 DEF Shutdown, Join, Becomes, CallerState
  <2>3. CASE DeadlinePasses
    <3>1. Owner \in Caller /\ "free" \in CallerState
      BY DEF Caller, CallerState
    <3>. QED
      BY <2>3, <3>1 DEF DeadlinePasses
  <2>. QED
    BY <2>1, <2>2, <2>3
<1>6. CallersOK'
  BY <1>1, <1>5 DEF Types, CallersInv, CallersOK
<1>7. UNCHANGED stopping \/ stopping' = TRUE
  BY DEF Types, CloneHandle, DropHandle, ReservePayload, RequestRefused, Shutdown, Join,
         DeadlinePasses
<1>8. UNCHANGED Accepting \/ Accepting' = FALSE
  BY <1>1, <1>7 DEF Accepting
<1>9. SameChannel \/ Channel!Close
  BY <1>1, <1>2, <1>8 DEF SameChannel, Channel!Close
<1>. QED
  BY <1>3, <1>4, <1>6, <1>9 DEF CallersInv

\* The writer takes a frame, or ends.
LEMMA TakeCallers ==
  ASSUME Types, CallersInv, ReadyExact, PopControl \/ PopRequest \/ EndLoop
  PROVE  CallersInv' /\ SameChannel
<1>1. /\ UNCHANGED <<caller, told, accepted, wire, torn, failure, stopping>>
      /\ writer.pc = "idle" /\ writer'.pc # "failing"
      /\ ~failure
  <2>1. UNCHANGED <<caller, told, accepted, wire, torn, failure, stopping>> /\ writer.pc = "idle"
    BY DEF PopControl, PopRequest, EndLoop, historyVars
  <2>2. writer'.pc # "failing"
    <3>1. CASE PopControl \/ PopRequest
      BY <3>1 DEF PopControl, PopRequest, Writes
    <3>2. CASE EndLoop
      BY <2>1, <3>2 DEF EndLoop, Types, CtlState
    <3>. QED
      BY <3>1, <3>2
  <2>3. ~failure
    BY <2>1 DEF CallersInv, WriterOK
  <2>. QED
    BY <2>1, <2>2, <2>3
<1>2. /\ Pending' = Pending
      /\ writer'.pc = "writing" => writer'.frame \in Frame
  <2>1. CASE PopControl
    <3>1. /\ control # <<>> /\ Head(control) \in Frame /\ Writes(Ctl, Head(control))
          /\ control' = Tail(control) /\ UNCHANGED queue
      BY <2>1, Shrinks DEF PopControl, Types
    <3>2. /\ Ctl \in Lane /\ Queue(Ctl) = control /\ Queue(Ctl)' = control'
          /\ \A m \in Lane \ {Ctl} : Queue(m)' = Queue(m)
      BY <3>1 DEF Queue, Lane
    <3>3. Pending' = Pending
      BY <1>1, <3>1, <3>2, PendingTaken
    <3>. QED
      BY <3>1, <3>3 DEF Writes
  <2>2. CASE PopRequest
    <3>1. PICK id \in Id, f \in Frame :
            /\ queue[id] # <<>> /\ f = queue[id][1]
            /\ Writes(id, f)
            /\ queue' = [queue EXCEPT ![id] = Tail(queue[id])]
            /\ UNCHANGED control
      BY <2>2, PopFacts
    <3>2. id \in Lane /\ id # Ctl /\ queue \in [Id -> Seq(Frame)]
      BY WriterAssumption DEF Lane, Types
    <3>3. /\ Queue(id) = queue[id] /\ Queue(id)' = Tail(queue[id])
          /\ \A m \in Lane \ {id} : Queue(m)' = Queue(m)
      BY <3>1, <3>2 DEF Queue, Lane
    <3>4. f = Head(Queue(id))
      BY <3>1, <3>2, <3>3, Shrinks
    <3>5. Pending' = Pending
      BY <1>1, <3>1, <3>2, <3>3, <3>4, PendingTaken
    <3>. QED
      BY <3>1, <3>5 DEF Writes
  <2>3. CASE EndLoop
    <3>1. UNCHANGED <<control, queue>> /\ writer'.pc = "ended"
      BY <2>3 DEF EndLoop, Types, CtlState
    <3>. QED
      BY <1>1, <3>1, PendingSame
  <2>. QED
    BY <2>1, <2>2, <2>3
<1>3. WriterOK'
  BY <1>1, <1>2 DEF CallersInv, WriterOK
<1>4. CallersOK'
  BY <1>1 DEF CallersInv, CallersOK
<1>5. OneFrameEach'
  BY <1>1, <1>2, EachSame DEF CallersInv
<1>6. SameChannel
  BY <1>1, <1>2 DEF SameChannel, Accepting
<1>. QED
  BY <1>3, <1>4, <1>5, <1>6 DEF CallersInv

\* A frame is accepted.
LEMMA AcceptCallers ==
  ASSUME Types, CallersInv, NEW l \in Lane, NEW c \in Caller, NEW f \in Frame,
         f.wait \in {c, NoOne}, f.n = accepted[l] + 1,
         caller[c] \in {"free", "reserved"},
         Accepting, Accepted(l, c, f.wait),
         Queue(l)' = Append(Queue(l), f), \A m \in Lane \ {l} : Queue(m)' = Queue(m)
  PROVE  CallersInv' /\ Channel!Accept(l, f.kind, f.wait)
<1>1. /\ accepted' = [accepted EXCEPT ![l] = @ + 1]
      /\ told' = IF f.wait = NoOne THEN told ELSE [told EXCEPT ![c] = "waiting"]
      /\ caller' = [caller EXCEPT ![c] = IF f.wait = NoOne THEN "free" ELSE "waiting"]
      /\ UNCHANGED <<handleVars, stopping, failure, writer, wire, torn>>
  BY DEF Accepted, Becomes
<1>2. Pending' = [Pending EXCEPT ![l] = Append(Pending[l], f)]
  BY <1>1, PendingAppends DEF CallersInv
<1>3. told[c] # "waiting" /\ (f.wait # NoOne => f.wait = c) /\ c # NoOne
  BY WriterAssumption DEF CallersInv, CallersOK, Caller
<1>4. WriterOK'
  BY <1>1 DEF CallersInv, WriterOK
<1>5. CallersOK'
  <2>1. /\ caller \in [Caller -> CallerState]
        /\ told \in [Caller -> {"none", "waiting", "ok", "err"}]
    BY DEF Types
  <2>2. ASSUME NEW x \in Caller PROVE caller'[x] = "waiting" <=> told'[x] = "waiting"
    <3>1. CASE x = c
      BY <1>1, <1>3, <2>1, <3>1
    <3>2. CASE x # c
      BY <1>1, <2>1, <3>2 DEF CallersInv, CallersOK
    <3>. QED
      BY <3>1, <3>2
  <2>. QED
    BY <2>2 DEF CallersOK
<1>6. told' = IF f.wait = NoOne THEN told ELSE [told EXCEPT ![f.wait] = "waiting"]
  BY <1>1, <1>3
<1>7. OneFrameEach'
  BY <1>2, <1>3, <1>6, EachAppends DEF CallersInv
<1>8. Channel!Accept(l, f.kind, f.wait)
  <2>1. f = [kind |-> f.kind, n |-> f.n, wait |-> f.wait]
    BY DEF Frame
  <2>2. accepted'[l] = f.n
    BY <1>1 DEF Types
  <2>3. Pending' = [Pending EXCEPT ![l] =
                      Append(Pending[l], [kind |-> f.kind, n |-> accepted'[l], wait |-> f.wait])]
    BY <1>2, <2>1, <2>2
  <2>4. f.wait # NoOne => told[f.wait] # "waiting"
    BY <1>3
  <2>5. UNCHANGED <<wire, Accepting, torn>>
    BY <1>1 DEF Accepting
  <2>. QED
    BY <1>1, <1>6, <2>3, <2>4, <2>5 DEF Channel!Accept, Channel!Tell
<1>. QED
  BY <1>4, <1>5, <1>7, <1>8 DEF CallersInv

LEMMA SendCallers ==
  ASSUME Types, CallersInv, NEW w \in {Owner, NoOne}, SendControl(w)
  PROVE  CallersInv' /\ Channel!Accept(Ctl, "control", w)
<1>1. Owner \in Caller /\ Ctl \in Lane /\ "control" \in Kind /\ w \in Caller \cup {NoOne}
  BY DEF Caller, Lane, Kind
<1>2. PICK f \in Frame : f = NextFrame(Ctl, "control", w)
  BY <1>1, NewFrame
<1>3. f.kind = "control" /\ f.wait = w /\ f.n = accepted[Ctl] + 1
  BY <1>2 DEF NextFrame
<1>4. /\ caller[Owner] = "free" /\ Accepting /\ Accepted(Ctl, Owner, w)
      /\ control' = Append(control, f) /\ UNCHANGED queue
  BY <1>2 DEF SendControl
<1>5. /\ Queue(Ctl)' = Append(Queue(Ctl), f)
      /\ \A m \in Lane \ {Ctl} : Queue(m)' = Queue(m)
  BY <1>4 DEF Queue
<1>. QED
  BY <1>1, <1>3, <1>4, <1>5, AcceptCallers

LEMMA RequestCallers ==
  ASSUME Types, CallersInv, NEW c \in Caller, NEW id \in Id, NEW kind \in RequestKind,
         Request(c, id, kind)
  PROVE  CallersInv' /\ \E w \in Caller \cup {NoOne} : Channel!Accept(id, kind, w)
<1>1. PICK f \in Frame :
        /\ f.kind = kind /\ f.wait = WaitsFor(c, kind) /\ f.n = accepted[id] + 1
        /\ Accepted(id, c, f.wait)
        /\ queue'[id] = Append(queue[id], f) /\ \A x \in Id \ {id} : queue'[x] = queue[x]
  BY RequestFacts
<1>2. f.wait \in {c, NoOne} /\ id \in Lane /\ id # Ctl
  BY <1>1, WriterAssumption DEF WaitsFor, Lane
<1>3. caller[c] \in {"free", "reserved"} /\ Accepting /\ UNCHANGED control
  BY DEF Request, Admits
<1>4. /\ Queue(id)' = Append(Queue(id), f)
      /\ \A m \in Lane \ {id} : Queue(m)' = Queue(m)
  BY <1>1, <1>2, <1>3 DEF Queue, Lane
<1>. QED
  BY <1>1, <1>2, <1>3, <1>4, AcceptCallers

\* Who waits for the frame being written.
LEMMA WaitsForWritten ==
  ASSUME Types, CallersInv, WriteFrame \/ WriteFails, writer.frame.wait # NoOne
  PROVE  /\ writer.frame.wait \in Caller
         /\ told[writer.frame.wait] = "waiting" /\ caller[writer.frame.wait] = "waiting"
<1>1. PICK l \in Lane, f \in Frame :
        l = writer.lane /\ f = writer.frame /\ Pending[l] # <<>> /\ Head(Pending[l]) = f
  BY PendingLoses DEF CallersInv
<1>2. f.wait \in Caller
  BY <1>1 DEF Frame
<1>3. 1 \in DOMAIN Pending[l] /\ Pending[l][1] = f
  BY <1>1, PendingTypes, Shrinks DEF CallersInv
<1>4. told[f.wait] = "waiting"
  BY <1>2, <1>3 DEF CallersInv, OneFrameEach
<1>. QED
  BY <1>1, <1>2, <1>4 DEF CallersInv, CallersOK

LEMMA WriteCallers ==
  ASSUME Types, CallersInv, WriteFrame \/ WriteFails
  PROVE  /\ CallersInv'
         /\ WriteFrame => Channel!Deliver(writer.lane)
         /\ WriteFails => Channel!Tear(writer.lane)
<1>1. PICK l \in Lane, f \in Frame :
        /\ l = writer.lane /\ f = writer.frame
        /\ Pending[l] # <<>> /\ Head(Pending[l]) = f
        /\ Pending' = [Pending EXCEPT ![l] = Tail(Pending[l])]
  BY PendingLoses DEF CallersInv
<1>2. PICK answer \in {"ok", "err"} :
        /\ Answer(answer)
        /\ WriteFrame => answer = "ok"
        /\ WriteFails => answer = "err"
  <2>1. CASE WriteFrame
    <3>1. ~WriteFails
      BY <2>1 DEF WriteFrame, WriteFails, Idle
    <3>. QED
      BY <2>1, <3>1 DEF WriteFrame
  <2>2. CASE WriteFails
    <3>1. ~WriteFrame
      BY <2>2 DEF WriteFrame, WriteFails, Idle
    <3>. QED
      BY <2>2, <3>1 DEF WriteFails
  <2>. QED
    BY <2>1, <2>2
<1>3. /\ told' = IF f.wait = NoOne THEN told ELSE [told EXCEPT ![f.wait] = answer]
      /\ caller' = IF f.wait = NoOne THEN caller ELSE [caller EXCEPT ![f.wait] = "free"]
  BY <1>1, <1>2 DEF Answer
<1>4. writer.pc = "writing" /\ ~torn /\ ~failure /\ UNCHANGED <<failure, stopping, accepted>>
  BY DEF CallersInv, WriterOK, WriteFrame, WriteFails
<1>5. WriterOK'
  <2>1. CASE WriteFrame
    BY <1>4, <2>1 DEF WriteFrame, WriterOK, Idle
  <2>2. CASE WriteFails
    BY <1>4, <2>2 DEF WriteFails, WriterOK, Idle
  <2>. QED
    BY <2>1, <2>2
<1>6. CallersOK'
  <2>1. /\ caller \in [Caller -> CallerState]
        /\ told \in [Caller -> {"none", "waiting", "ok", "err"}]
    BY DEF Types
  <2>2. ASSUME NEW x \in Caller PROVE caller'[x] = "waiting" <=> told'[x] = "waiting"
    <3>1. caller[x] = "waiting" <=> told[x] = "waiting"
      BY DEF CallersInv, CallersOK
    <3>2. CASE f.wait = NoOne
      BY <1>3, <3>1, <3>2
    <3>3. CASE f.wait # NoOne /\ x = f.wait
      BY <1>3, <2>1, <3>3
    <3>4. CASE f.wait # NoOne /\ x # f.wait
      BY <1>3, <2>1, <3>1, <3>4
    <3>. QED
      BY <3>2, <3>3, <3>4
  <2>. QED
    BY <2>2 DEF CallersOK
<1>7. OneFrameEach'
  <2>1. PICK w : w = Head(Pending[l]).wait /\ w = f.wait
    BY <1>1
  <2>2. told' = IF w = NoOne THEN told ELSE [told EXCEPT ![w] = answer]
    BY <1>3, <2>1
  <2>. QED
    BY <1>1, <2>1, <2>2, EachLoses DEF CallersInv
<1>8. told' = Channel!Tell(Head(Pending[l]).wait, answer)
  BY <1>1, <1>3 DEF Channel!Tell
<1>9. UNCHANGED Accepting
  BY <1>4 DEF Accepting
<1>10. ASSUME WriteFrame PROVE Channel!Deliver(l)
  <2>1. /\ wire' = [wire EXCEPT ![l] = Head(Pending[l]).n] /\ UNCHANGED torn
    BY <1>1, <1>10 DEF WriteFrame
  <2>2. answer = "ok"
    BY <1>2, <1>10
  <2>. QED
    BY <1>1, <1>4, <1>8, <1>9, <2>1, <2>2 DEF Channel!Deliver
<1>11. ASSUME WriteFails PROVE Channel!Tear(l)
  <2>1. torn' = TRUE /\ UNCHANGED wire
    BY <1>11 DEF WriteFails
  <2>2. answer = "err"
    BY <1>2, <1>11
  <2>. QED
    BY <1>1, <1>4, <1>8, <1>9, <2>1, <2>2 DEF Channel!Tear
<1>. QED
  BY <1>1, <1>5, <1>6, <1>7, <1>10, <1>11 DEF CallersInv

LEMMA WriteCounted ==
  ASSUME Types, CallersInv, Counted, WriteFrame \/ WriteFails
  PROVE  Counted'
<1>1. /\ caller' = IF writer.frame.wait = NoOne THEN caller
                   ELSE [caller EXCEPT ![writer.frame.wait] = "free"]
      /\ UNCHANGED <<queue, usage, producers>>
  BY DEF WriteFrame, WriteFails, Answer, handleVars
<1>2. /\ IsFiniteSet(DataFrames')
      /\ \A u \in Int : u + Cardinality(DataFrames') - Cardinality(DataFrames) = u
  BY <1>1, QueuesCounted
<1>3. usage \in Int /\ caller \in [Caller -> CallerState]
  BY DEF Types
<1>4. ASSUME NEW c \in Caller
      PROVE /\ caller'[c] \in Held <=> caller[c] \in Held
            /\ caller'[c] = "reserved" <=> caller[c] = "reserved"
  <2>1. CASE writer.frame.wait = NoOne \/ c # writer.frame.wait
    BY <1>1, <1>3, <2>1
  <2>2. CASE writer.frame.wait # NoOne /\ c = writer.frame.wait
    <3>1. caller[c] = "waiting" /\ caller'[c] = "free"
      BY <1>1, <1>3, <2>2, WaitsForWritten
    <3>. QED
      BY <3>1 DEF Held
  <2>. QED
    BY <2>1, <2>2
<1>5. usage' = usage + Cardinality(DataFrames') - Cardinality(DataFrames)
  BY <1>1, <1>2, <1>3
<1>. QED
  BY <1>1, <1>2, <1>4, <1>5, SameCounted

\* The frames fail_writer drops are those somebody waits for.
LEMMA AbandonedWaits ==
  ASSUME Types, CallersInv, FailWriter, NEW c \in Caller
  PROVE  Abandoned(c) <=> told[c] = "waiting"
<1>1. \A l \in Lane : Pending[l] = Queue(l)
  <2>1. ASSUME NEW l \in Lane PROVE Pending[l] = Queue(l)
    <3>1. Pending[l] = Owed(writer, l, Queue(l)) /\ Queue(l) \in Seq(Frame)
      BY PendingIs, QueueTypes
    <3>2. writer.pc # "writing"
      BY DEF FailWriter
    <3>. QED
      BY <3>1, <3>2, OwedIdle
  <2>. QED
    BY <2>1
<1>2. told[c] = "waiting" <=> \E l \in Lane : \E i \in DOMAIN Queue(l) : Queue(l)[i].wait = c
  BY <1>1 DEF CallersInv, OneFrameEach
<1>3. ASSUME Abandoned(c)
      PROVE \E l \in Lane : \E i \in DOMAIN Queue(l) : Queue(l)[i].wait = c
  <2>1. PICK f \in Queued : f.wait = c
    BY <1>3 DEF Abandoned, Waits
  <2>2. CASE \E i \in DOMAIN control : f = control[i]
    <3>1. Ctl \in Lane /\ Queue(Ctl) = control
      BY DEF Queue, Lane
    <3>. QED
      BY <2>1, <2>2, <3>1
  <2>3. CASE \E id \in Id : \E i \in DOMAIN queue[id] : f = queue[id][i]
    <3>1. PICK id \in Id : \E i \in DOMAIN queue[id] : f = queue[id][i]
      BY <2>3
    <3>2. id \in Lane /\ Queue(id) = queue[id]
      BY WriterAssumption DEF Queue, Lane
    <3>. QED
      BY <2>1, <3>1, <3>2
  <2>. QED
    BY <2>2, <2>3 DEF Queued
<1>4. ASSUME NEW l \in Lane, NEW i \in DOMAIN Queue(l), Queue(l)[i].wait = c
      PROVE Abandoned(c)
  <2>1. Queue(l)[i] \in Queued
    BY DEF Queued, Queue, Lane
  <2>. QED
    BY <1>4, <2>1 DEF Abandoned, Waits
<1>. QED
  BY <1>2, <1>3, <1>4

LEMMA FailCallers ==
  ASSUME Types, CallersInv, FailWriter
  PROVE  CallersInv' /\ Channel!Abandon
<1>1. /\ told' = [c \in Caller |-> IF Abandoned(c) THEN "err" ELSE told[c]]
      /\ caller' = [c \in Caller |-> IF Abandoned(c) THEN "free" ELSE caller[c]]
      /\ failure' = TRUE /\ stopping' = TRUE /\ writer.pc = "failing"
      /\ UNCHANGED <<accepted, wire, torn>>
  BY DEF FailWriter
<1>2. told' = [c \in Caller |-> IF told[c] = "waiting" THEN "err" ELSE told[c]]
  BY <1>1, AbandonedWaits
<1>3. writer'.pc = "ended"
  BY DEF FailWriter, Types, CtlState
<1>4. torn
  BY <1>1 DEF CallersInv, WriterOK
<1>5. WriterOK'
  BY <1>1, <1>3, <1>4 DEF WriterOK
<1>6. CallersOK'
  <2>1. ASSUME NEW x \in Caller PROVE caller'[x] # "waiting" /\ told'[x] # "waiting"
    <3>1. Abandoned(x) <=> told[x] = "waiting"
      BY AbandonedWaits
    <3>2. caller[x] = "waiting" <=> told[x] = "waiting"
      BY DEF CallersInv, CallersOK
    <3>. QED
      BY <1>1, <3>1, <3>2
  <2>. QED
    BY <2>1 DEF CallersOK
<1>7. ASSUME NEW l \in Lane PROVE Pending'[l] = <<>>
  <2>1. Pending'[l] = Owed(writer', l, Queue(l)')
    BY PendingIs
  <2>2. Queue(l)' = <<>> /\ <<>> \in Seq(Frame)
    BY DEF FailWriter, Queue, Lane
  <2>. QED
    BY <1>3, <2>1, <2>2, OwedIdle
<1>8. Pending' = [l \in Lane |-> <<>>]
  BY <1>7, PendingIs
<1>9. \A c \in Caller : told'[c] # "waiting"
  BY <1>2
<1>10. OneFrameEach'
  BY <1>7, <1>9, EachAbandoned
<1>11. Accepting' = FALSE
  BY <1>1 DEF Accepting
<1>12. Channel!Abandon
  BY <1>1, <1>2, <1>4, <1>8, <1>11 DEF Channel!Abandon
<1>. QED
  BY <1>5, <1>6, <1>10, <1>12 DEF CallersInv

LEMMA FailCounted ==
  ASSUME Types, CallersInv, Counted, FailWriter
  PROVE  Counted'
<1>1. /\ caller' = [c \in Caller |-> IF Abandoned(c) THEN "free" ELSE caller[c]]
      /\ \A id \in Id : queue'[id] = <<>>
      /\ usage' = usage - Cardinality(DataFrames)
      /\ UNCHANGED producers
  BY DEF FailWriter, QueuedPayload, handleVars
<1>2. DataFrames' = {}
  BY <1>1 DEF DataFrames
<1>3. IsFiniteSet(DataFrames') /\ Cardinality(DataFrames') = 0
  BY <1>2, FS_EmptySet
<1>4. Cardinality(DataFrames) \in Nat /\ usage \in Int
  BY FS_CardinalityType DEF Counted, Types
<1>5. usage' = usage + Cardinality(DataFrames') - Cardinality(DataFrames)
  BY <1>1, <1>3, <1>4
<1>6. ASSUME NEW c \in Caller
      PROVE /\ caller'[c] \in Held <=> caller[c] \in Held
            /\ caller'[c] = "reserved" <=> caller[c] = "reserved"
  <2>1. Abandoned(c) => caller[c] = "waiting"
    BY AbandonedWaits DEF CallersInv, CallersOK
  <2>. QED
    BY <1>1, <2>1 DEF Held
<1>. QED
  BY <1>1, <1>3, <1>5, <1>6, SameCounted

-----------------------------------------------------------------------------
(* The invariant, and the theorems.                                        *)

IInv == Types /\ CallersInv /\ ListsOK /\ Counted

LEMMA InitInv == ASSUME Init PROVE IInv /\ Channel!Init
<1>1. IInv
  BY InitTypes, InitCallers, InitLists, InitCounted DEF IInv
<1>2. Pending = [l \in Lane |-> <<>>]
  <2>1. ASSUME NEW l \in Lane PROVE Owed(writer, l, Queue(l)) = <<>>
    <3>1. Queue(l) = <<>> /\ writer.pc = "idle" /\ <<>> \in Seq(Frame)
      BY DEF Init, Queue, Lane, Idle
    <3>. QED
      BY <3>1, OwedIdle
  <2>. QED
    BY <2>1, PendingIs
<1>3. Channel!Init
  BY <1>2 DEF Init, Channel!Init, Accepting
<1>. QED
  BY <1>1, <1>3

ChannelStep == Channel!Next \/ SameChannel

LEMMA HandleStep ==
  ASSUME IInv,
         \/ \E c \in Caller : \/ CloneHandle(c) \/ DropHandle(c) \/ ReservePayload(c)
                              \/ \E id \in Id : RequestRefused(c, id)
         \/ Shutdown \/ Join \/ DeadlinePasses
  PROVE  IInv' /\ ChannelStep
<1>1. Types' /\ Counted'
  <2>1. CASE \E c \in Caller : \/ CloneHandle(c) \/ DropHandle(c) \/ ReservePayload(c)
                               \/ \E id \in Id : RequestRefused(c, id)
    BY <2>1, HandleTypes, HandleCounted DEF IInv
  <2>2. CASE Shutdown \/ Join \/ DeadlinePasses
    BY <2>2, OwnerTypes, OwnerCounted DEF IInv
  <2>. QED
    BY <2>1, <2>2
<1>2. UNCHANGED <<queue, hasTerminal, ready, passed, accepted>>
  BY DEF CloneHandle, DropHandle, ReservePayload, RequestRefused, Shutdown, Join,
         DeadlinePasses, historyVars
<1>3. ListsOK'
  BY <1>2, ListsUntouched DEF IInv
<1>4. CallersInv' /\ (SameChannel \/ Channel!Close)
  BY HandleCallers DEF IInv
<1>. QED
  BY <1>1, <1>3, <1>4 DEF IInv, ChannelStep, Channel!Next

LEMMA SendStep ==
  ASSUME IInv, NEW w \in {Owner, NoOne}, SendControl(w)
  PROVE  IInv' /\ ChannelStep
<1>1. Types' /\ ListsOK' /\ Counted'
  BY ControlTypes, ControlLists, OwnerCounted DEF IInv
<1>2. CallersInv' /\ Channel!Accept(Ctl, "control", w)
  BY SendCallers DEF IInv
<1>3. Ctl \in Lane /\ "control" \in Channel!Kind /\ w \in Caller \cup {NoOne}
  BY DEF Lane, Channel!Kind, Caller
<1>. QED
  BY <1>1, <1>2, <1>3 DEF IInv, ChannelStep, Channel!Next

LEMMA RequestStep ==
  ASSUME IInv, NEW c \in Caller, NEW id \in Id, NEW kind \in RequestKind, Request(c, id, kind)
  PROVE  IInv' /\ ChannelStep
<1>1. Types' /\ ListsOK' /\ Counted'
  BY RequestTypes, RequestLists, RequestCounted DEF IInv
<1>2. CallersInv' /\ \E w \in Caller \cup {NoOne} : Channel!Accept(id, kind, w)
  BY RequestCallers DEF IInv
<1>3. id \in Lane /\ kind \in Channel!Kind
  BY DEF Lane, Channel!Kind, RequestKind
<1>. QED
  BY <1>1, <1>2, <1>3 DEF IInv, ChannelStep, Channel!Next

LEMMA ThreadStep == ASSUME IInv, WriterStep PROVE IInv' /\ ChannelStep
<1>1. CASE PopControl
  <2>1. Types' /\ Counted'
    BY <1>1, PopControlTypes, OwnerCounted DEF IInv
  <2>2. UNCHANGED <<queue, hasTerminal, ready, passed, accepted>>
    BY <1>1 DEF PopControl, historyVars
  <2>3. ListsOK'
    BY <2>2, ListsUntouched DEF IInv
  <2>4. CallersInv' /\ SameChannel
    BY <1>1, TakeCallers DEF IInv, ListsOK
  <2>. QED
    BY <2>1, <2>3, <2>4 DEF IInv, ChannelStep
<1>2. CASE PopRequest
  <2>1. Types' /\ ListsOK' /\ Counted'
    BY <1>2, PopTypes, PopLists, PopCounted DEF IInv, ListsOK
  <2>2. CallersInv' /\ SameChannel
    BY <1>2, TakeCallers DEF IInv, ListsOK
  <2>. QED
    BY <2>1, <2>2 DEF IInv, ChannelStep
<1>3. CASE WriteFrame \/ WriteFails
  <2>1. Types' /\ Counted'
    BY <1>3, EndTypes, WriteCounted DEF IInv, CallersInv
  <2>2. UNCHANGED <<queue, hasTerminal, ready, passed, accepted>>
    BY <1>3 DEF WriteFrame, WriteFails
  <2>3. ListsOK'
    BY <2>2, ListsUntouched DEF IInv
  <2>4. CallersInv' /\ (Channel!Deliver(writer.lane) \/ Channel!Tear(writer.lane))
    BY <1>3, WriteCallers DEF IInv
  <2>5. writer.lane \in Lane
    BY DEF IInv, Types, CtlState
  <2>. QED
    BY <2>1, <2>3, <2>4, <2>5 DEF IInv, ChannelStep, Channel!Next
<1>4. CASE FailWriter
  <2>1. Types' /\ ListsOK' /\ Counted'
    BY <1>4, FailTypes, FailLists, FailCounted DEF IInv, Counted
  <2>2. CallersInv' /\ Channel!Abandon
    BY <1>4, FailCallers DEF IInv
  <2>. QED
    BY <2>1, <2>2 DEF IInv, ChannelStep, Channel!Next
<1>5. CASE EndLoop
  <2>1. Types' /\ Counted'
    BY <1>5, EndTypes, OwnerCounted DEF IInv, CallersInv
  <2>2. UNCHANGED <<queue, hasTerminal, ready, passed, accepted>>
    BY <1>5 DEF EndLoop, historyVars
  <2>3. ListsOK'
    BY <2>2, ListsUntouched DEF IInv
  <2>4. CallersInv' /\ SameChannel
    BY <1>5, TakeCallers DEF IInv, ListsOK
  <2>. QED
    BY <2>1, <2>3, <2>4 DEF IInv, ChannelStep
<1>. QED
  BY <1>1, <1>2, <1>3, <1>4, <1>5 DEF WriterStep

LEMMA StutterStep == ASSUME IInv, UNCHANGED vars PROVE IInv' /\ SameChannel
<1>1. UNCHANGED <<control, queue, hasTerminal, ready, producers, closing, expired, stopping,
                  failure, usage, writer, caller, told, accepted, wire, torn, passed>>
  BY DEF vars, handleVars, historyVars
<1>2. Types'
  BY <1>1 DEF IInv, Types
<1>3. ListsOK'
  BY <1>1, ListsUntouched DEF IInv
<1>4. Pending' = Pending
  BY <1>1, PendingSame DEF IInv
<1>5. CallersInv'
  <2>1. WriterOK' /\ CallersOK'
    BY <1>1 DEF IInv, CallersInv, WriterOK, CallersOK
  <2>2. OneFrameEach'
    BY <1>1, <1>4, EachSame DEF IInv, CallersInv
  <2>. QED
    BY <2>1, <2>2 DEF CallersInv
<1>6. Counted'
  <2>1. DataFrames' = DataFrames
    BY <1>1 DEF DataFrames
  <2>. QED
    BY <1>1, <2>1 DEF IInv, Counted, HandlesCounted, PayloadExact, QueuedPayload
<1>7. SameChannel
  BY <1>1, <1>4 DEF SameChannel, Accepting
<1>. QED
  BY <1>2, <1>3, <1>5, <1>6, <1>7 DEF IInv

LEMMA NextStep == ASSUME IInv, [Next]_vars PROVE IInv' /\ ChannelStep
<1>1. CASE Next
  <2>1. CASE \/ \E c \in Caller : \/ CloneHandle(c) \/ DropHandle(c) \/ ReservePayload(c)
                                  \/ \E id \in Id : RequestRefused(c, id)
             \/ Shutdown \/ Join \/ DeadlinePasses
    BY <2>1, HandleStep
  <2>2. CASE WriterStep
    BY <2>2, ThreadStep
  <2>3. CASE \E w \in {Owner, NoOne} : SendControl(w)
    BY <2>3, SendStep
  <2>4. CASE \E c \in Caller, id \in Id, kind \in RequestKind : Request(c, id, kind)
    BY <2>4, RequestStep
  <2>. QED
    BY <1>1, <2>1, <2>2, <2>3, <2>4 DEF Next, RequestKind
<1>2. CASE UNCHANGED vars
  BY <1>2, StutterStep DEF ChannelStep
<1>. QED
  BY <1>1, <1>2

\* What is counted gives the bounds the types left out.
LEMMA Bounded == ASSUME IInv PROVE QueuesExact
<1>1. producers \in 0 .. Cardinality(Caller)
  <2>1. Those(caller, Held) \in SUBSET Caller
    BY DEF Those
  <2>2. /\ Cardinality(Those(caller, Held)) \in Nat /\ Cardinality(Caller) \in Nat
        /\ Cardinality(Those(caller, Held)) <= Cardinality(Caller)
    BY <2>1, CallerFinite, FS_Subset, FS_CardinalityType
  <2>3. producers = Cardinality(Those(caller, Held))
    BY CountedIs DEF IInv, Counted
  <2>. QED
    BY <2>2, <2>3
<1>2. usage \in 0 .. PayloadLimit
  <2>1. Owner \in Caller
    BY DEF Caller
  <2>2. Cardinality(Those(caller, {"reserved"})) \in Nat /\ Cardinality(DataFrames) \in Nat
    BY <2>1, Recount, FS_CardinalityType DEF IInv, Counted
  <2>3. usage = Cardinality(Those(caller, {"reserved"})) + Cardinality(DataFrames)
    BY CountedIs DEF IInv, Counted
  <2>. QED
    BY <2>2, <2>3 DEF IInv, Types
<1>3. TypeOK
  BY <1>1, <1>2 DEF IInv, Types, TypeOK, CtlState
<1>. QED
  BY <1>3 DEF IInv, ListsOK, Counted, QueuesExact

\* The invariant holds throughout.
LEMMA Invariance == Spec => []IInv
<1>1. Init => IInv
  BY InitInv
<1>2. IInv /\ [Next]_vars => IInv'
  BY NextStep
<1>. QED
  BY <1>1, <1>2, PTL DEF Spec

\* Every variable has its type, the count of handles and the payload reserved within
\* their limits.
THEOREM TypeCorrect == Spec => []TypeOK
<1>1. IInv => TypeOK
  BY Bounded DEF QueuesExact
<1>. QED
  BY <1>1, Invariance, PTL

\* No frame is stranded, the list of turns holds exactly the requests with a frame,
\* nothing is queued behind a terminal, and every handle is counted.
THEOREM QueuesAreExact == Spec => []QueuesExact
<1>1. IInv => QueuesExact
  BY Bounded
<1>. QED
  BY <1>1, Invariance, PTL

\* The payload reserved is that of the queued frames and of the calls under way.
THEOREM PayloadIsExact == Spec => []PayloadExact
<1>1. IInv => PayloadExact
  BY DEF IInv, Counted
<1>. QED
  BY <1>1, Invariance, PTL

\* A waiting request is passed over at most once by each other.
THEOREM TurnsAreTaken == Spec => []TakesTurns
<1>1. IInv => TakesTurns
  BY DEF IInv, ListsOK
<1>. QED
  BY <1>1, Invariance, PTL

\* The writer is a channel that commits frames as CommitChannel promises.
THEOREM ImplementsChannel == Spec => Implements
<1>1. Init => Channel!Init
  BY InitInv
<1>2. IInv /\ [Next]_vars => [Channel!Next]_(Channel!vars)
  <2>1. ASSUME SameChannel PROVE UNCHANGED Channel!vars
    BY <2>1 DEF SameChannel, Channel!vars
  <2>. QED
    BY <2>1, NextStep DEF ChannelStep
<1>. QED
  BY <1>1, <1>2, Invariance, PTL DEF Spec, Implements, Channel!Spec
=============================================================================
