-------------------------- MODULE DaemonActorProofs --------------------------
(***************************************************************************)
(* Theorems about DaemonActor, for any finite set of remotes, any endpoints, *)
(* and any number of failing saves and restarts.                             *)
(*                                                                         *)
(* RemoteOK says of one remote how its record in memory, the one on disk,    *)
(* its slot, its worker, the worker's events and what the user was told fit   *)
(* together. A step handles one remote; for the others it keeps everything    *)
(* but the record on disk, which a save for another remote may bring up to    *)
(* the one in memory: that RemoteOK survives this is Frame.                  *)
(***************************************************************************)
EXTENDS DaemonActor, FiniteSetTheorems, TLAPS

Rec(i) == config.remotes[i]
Kept(i) == disk.remotes[i]

Has(q, type) == \E k \in 1..Len(q) : q[k].type = type
OnlyStopped(q) == \A k \in 1..Len(q) : q[k].type = "Stopped"

\* The order of a worker's events: nothing follows Stopped, and only Stopped follows
\* PermanentFailure.  An Identity is of an endpoint the target reaches.
QueueOK(i, q, phase) ==
  \A k \in 1..Len(q) :
    /\ q[k].type = "Stopped" => k = Len(q) /\ phase = "ended"
    /\ q[k].type = "PermanentFailure" =>
         /\ phase \in {"ending", "ended"}
         /\ \A m \in (k + 1)..Len(q) : q[m].type = "Stopped"
    /\ q[k].type = "Identity" => q[k].endpoint \in Reaches[i]

\* The worker may proceed, or its Ready is still to be handled.
Admitted(q, w) ==
  w.approval = "proceed" \/ w.phase \in {"approved", "serving"} \/ Has(q, "Ready")

\* No worker is admitted before its endpoint is on record.
EndpointOK(i) ==
  /\ Rec(i).endpoint \in Reaches[i] \cup {NoEndpoint}
  /\ Kept(i).endpoint \in Reaches[i] \cup {NoEndpoint}
  /\ Admitted(events[i], worker[i]) => Rec(i).endpoint # NoEndpoint

\* A slot has a record; its operation fits the record and what the user was told.
SlotOK(i) ==
  /\ Tracked(i) => running /\ Rec(i).lifecycle # "absent"
  /\ ~Tracked(i) => worker[i] = NoWorker /\ op[i] = NoOperation /\ events[i] = <<>>
  /\ Tracked(i) /\ Rec(i).lifecycle = "pending" => op[i].type # "none"
  /\ op[i].type = "add" => told[i] \in {"adding", "asked"} /\ cleaning[i] = "no"
  /\ op[i].type = "remove" =>
       /\ Rec(i).lifecycle \in {"pending", "removing"}
       /\ op[i].requireReady \/ told[i] = "asked"
       /\ cleaning[i] = "tombstone" => op[i].requireReady /\ ~op[i].ready

ToldOK(i) ==
  /\ told[i] = "new" => Rec(i).lifecycle = "absent" /\ Kept(i).lifecycle = "absent"
  /\ told[i] = "added" =>
       Kept(i).lifecycle = "active" /\ (running => Rec(i).lifecycle = "active")
  /\ told[i] = "removed" => Rec(i).lifecycle = "absent" /\ Kept(i).lifecycle = "absent"

\* What the actor holds never takes a tombstone on disk back; a remote found
\* interrupted is never active, and it keeps its record until it is claimed or asked to go.
TombstoneOK(i) ==
  /\ Kept(i).lifecycle = "removing" => Rec(i).lifecycle \in {"removing", "absent"}
  /\ cleaning[i] # "no" =>
       /\ running /\ told[i] # "new"
       /\ Rec(i).lifecycle # "active" /\ Kept(i).lifecycle # "active"
  /\ cleaning[i] = "tombstone" =>
       /\ ~Has(events[i], "Ready")
       /\ Rec(i).lifecycle # "absent" /\ Kept(i).lifecycle # "absent"

\* The worker goes on, or its failure is still to be recorded.
Sane(q, w) ==
  \/ Has(q, "PermanentFailure")
  \/ /\ ~w.cancelled /\ w.approval # "reject"
     /\ w.phase \in {"connecting", "awaiting", "approved", "serving"}

\* The worker of a failed add will never be ready.
Hopeless(q, w) ==
  /\ w.cancelled /\ ~Has(q, "Ready")
  /\ \/ w.phase \in {"connecting", "ending", "ended"}
     \/ w.phase = "awaiting" /\ w.approval = "reject"

ServedOK(i) ==
  /\ op[i].type = "add" => Rec(i).lifecycle = "pending"
  /\ Rec(i).lifecycle = "active" /\ Rec(i).observed = "error" =>
       worker[i].phase \in {"none", "ending", "ended"} /\ OnlyStopped(events[i])
  /\ ~exiting /\ Steady(i) /\ Rec(i).lifecycle = "active" /\ Rec(i).observed # "error" =>
       Sane(events[i], worker[i])
  /\ ~exiting /\ Steady(i) /\ Rec(i).lifecycle = "pending" /\ op[i].type = "add"
     /\ op[i].due = 0 =>
       Sane(events[i], worker[i]) \/ Hopeless(events[i], worker[i])

RemoteOK(i) ==
  /\ QueueOK(i, events[i], worker[i].phase)
  /\ EndpointOK(i) /\ SlotOK(i) /\ ToldOK(i) /\ TombstoneOK(i)
  /\ faults = 0 => ServedOK(i)

DownOK == ~running => config = EmptyConfig /\ detached = {}
DetachedOK == faults = 0 => detached = {}
StoppingOK == stopping.on => exiting

IInv ==
  /\ TypeOK /\ Valid(config) /\ Valid(disk) /\ DownOK /\ DetachedOK /\ StoppingOK
  /\ \A i \in Ids : RemoteOK(i)

\* What a step may do to a tombstone on disk.
TombstoneStep(i) ==
  Kept(i).lifecycle = "removing" => Kept(i)'.lifecycle \in {"removing", "absent"}

\* What is proved of every step from a state where IInv holds.
Advances == IInv' /\ \A i \in Ids : TombstoneStep(i)

-----------------------------------------------------------------------------
(* Events.                                                                 *)

LEMMA EventsOf == ASSUME TypeOK, NEW i \in Ids PROVE events[i] \in Seq(Event)
BY DEF TypeOK, WorkerTypeOK

LEMMA StoppedOnly ==
  ASSUME NEW q, OnlyStopped(q), NEW type, type # "Stopped"
  PROVE ~Has(q, type)
BY DEF OnlyStopped, Has

LEMMA EmptyQueue ==
  ASSUME NEW i, NEW phase
  PROVE /\ QueueOK(i, <<>>, phase) /\ OnlyStopped(<<>>)
        /\ \A type : ~Has(<<>>, type)
BY DEF QueueOK, OnlyStopped, Has

LEMMA QueueAt ==
  ASSUME NEW i, NEW q, NEW phase, QueueOK(i, q, phase), NEW k \in 1..Len(q)
  PROVE /\ q[k].type = "Stopped" => k = Len(q) /\ phase = "ended"
        /\ q[k].type = "PermanentFailure" =>
             /\ phase \in {"ending", "ended"}
             /\ \A m \in (k + 1)..Len(q) : q[m].type = "Stopped"
        /\ q[k].type = "Identity" => q[k].endpoint \in Reaches[i]
BY DEF QueueOK

LEMMA Taken ==
  ASSUME NEW i, NEW q \in Seq(Event), NEW phase, QueueOK(i, q, phase), q # <<>>
  PROVE /\ Tail(q) \in Seq(Event) /\ Head(q) \in Event
        /\ Has(q, Head(q).type)
        /\ \A type : Has(Tail(q), type) => Has(q, type)
        /\ \A type : Has(q, type) => Has(Tail(q), type) \/ type = Head(q).type
        /\ QueueOK(i, Tail(q), phase)
        /\ OnlyStopped(q) => OnlyStopped(Tail(q))
        /\ Head(q).type = "Stopped" => Tail(q) = <<>> /\ phase = "ended"
        /\ Head(q).type = "PermanentFailure" =>
             OnlyStopped(Tail(q)) /\ phase \in {"ending", "ended"}
        /\ Head(q).type = "Identity" => Head(q).endpoint \in Reaches[i]
<1>1. /\ Tail(q) \in Seq(Event) /\ Head(q) \in Event /\ Head(q) = q[1]
      /\ Len(q) \in Nat /\ Len(q) > 0 /\ Len(Tail(q)) = Len(q) - 1
      /\ \A k \in 1..(Len(q) - 1) : Tail(q)[k] = q[k + 1]
  OBVIOUS
<1>2. Has(q, Head(q).type)
  BY <1>1 DEF Has
<1>3. ASSUME NEW type, Has(Tail(q), type) PROVE Has(q, type)
  BY <1>1, <1>3 DEF Has
<1>4. ASSUME NEW type, Has(q, type) PROVE Has(Tail(q), type) \/ type = Head(q).type
  <2>1. PICK k \in 1..Len(q) : q[k].type = type
    BY <1>4 DEF Has
  <2>2. CASE k = 1
    BY <2>1, <2>2, <1>1
  <2>3. CASE k # 1
    <3>1. k - 1 \in 1..(Len(q) - 1) /\ Tail(q)[k - 1] = q[k]
      BY <2>3, <1>1
    <3>. QED
      BY <3>1, <2>1, <1>1 DEF Has
  <2>. QED
    BY <2>2, <2>3
<1>5. QueueOK(i, Tail(q), phase)
  <2> SUFFICES ASSUME NEW k \in 1..(Len(q) - 1)
      PROVE /\ Tail(q)[k].type = "Stopped" => k = Len(q) - 1 /\ phase = "ended"
            /\ Tail(q)[k].type = "PermanentFailure" =>
                 /\ phase \in {"ending", "ended"}
                 /\ \A m \in (k + 1)..(Len(q) - 1) : Tail(q)[m].type = "Stopped"
            /\ Tail(q)[k].type = "Identity" => Tail(q)[k].endpoint \in Reaches[i]
    BY <1>1 DEF QueueOK
  <2>1. k + 1 \in 1..Len(q) /\ Tail(q)[k] = q[k + 1]
    BY <1>1
  <2>2. \A m \in (k + 1)..(Len(q) - 1) : m + 1 \in ((k + 1) + 1)..Len(q) /\ Tail(q)[m] = q[m + 1]
    BY <1>1
  <2>3. Tail(q)[k].type = "Stopped" => k = Len(q) - 1 /\ phase = "ended"
    <3>1. q[k + 1].type = "Stopped" => k + 1 = Len(q) /\ phase = "ended"
      BY <2>1, QueueAt
    <3>2. PICK n \in Nat : n = Len(q)
      BY <1>1
    <3>3. k + 1 = n => k = n - 1
      OBVIOUS
    <3>. QED
      BY <3>1, <3>2, <3>3, <2>1
  <2>4. Tail(q)[k].type = "PermanentFailure" =>
                 /\ phase \in {"ending", "ended"}
                 /\ \A m \in (k + 1)..(Len(q) - 1) : Tail(q)[m].type = "Stopped"
    BY <2>1, <2>2 DEF QueueOK
  <2>. QED
    BY <2>1, <2>3, <2>4 DEF QueueOK
<1>6. OnlyStopped(q) => OnlyStopped(Tail(q))
  BY <1>1 DEF OnlyStopped
<1>7. Head(q).type = "Stopped" => Tail(q) = <<>> /\ phase = "ended"
  <2> SUFFICES ASSUME Head(q).type = "Stopped" PROVE Tail(q) = <<>> /\ phase = "ended"
    OBVIOUS
  <2>1. 1 \in 1..Len(q)
    BY <1>1
  <2>2. 1 = Len(q) /\ phase = "ended"
    BY <1>1, <2>1, QueueAt
  <2>. QED
    BY <2>2, <1>1
<1>8. Head(q).type = "PermanentFailure" =>
        OnlyStopped(Tail(q)) /\ phase \in {"ending", "ended"}
  <2> SUFFICES ASSUME Head(q).type = "PermanentFailure"
               PROVE OnlyStopped(Tail(q)) /\ phase \in {"ending", "ended"}
    OBVIOUS
  <2>0. 1 \in 1..Len(q)
    BY <1>1
  <2>1. phase \in {"ending", "ended"} /\ \A m \in (1 + 1)..Len(q) : q[m].type = "Stopped"
    BY <1>1, <2>0, QueueAt
  <2>2. \A k \in 1..(Len(q) - 1) : k + 1 \in (1 + 1)..Len(q)
    BY <1>1
  <2>. QED
    BY <2>1, <2>2, <1>1 DEF OnlyStopped
<1>9. Head(q).type = "Identity" => Head(q).endpoint \in Reaches[i]
  <2>1. 1 \in 1..Len(q)
    BY <1>1
  <2>. QED
    BY <1>1, <2>1, QueueAt
<1>. QED
  BY <1>1, <1>2, <1>3, <1>4, <1>5, <1>6, <1>7, <1>8, <1>9

LEMMA Emitted ==
  ASSUME NEW i, NEW q \in Seq(Event), NEW phase, QueueOK(i, q, phase), NEW e \in Event, NEW after,
         phase # "ended",
         e.type # "Stopped" => phase # "ending",
         e.type = "Stopped" => after = "ended",
         e.type = "PermanentFailure" => after = "ending",
         e.type = "Identity" => e.endpoint \in Reaches[i]
  PROVE /\ Append(q, e) \in Seq(Event)
        /\ \A type : Has(Append(q, e), type) <=> Has(q, type) \/ type = e.type
        /\ QueueOK(i, Append(q, e), after)
<1>1. /\ Append(q, e) \in Seq(Event)
      /\ Len(q) \in Nat /\ Len(Append(q, e)) = Len(q) + 1
      /\ \A k \in 1..Len(q) : Append(q, e)[k] = q[k]
      /\ Append(q, e)[Len(q) + 1] = e
  OBVIOUS
<1>2. ASSUME NEW type PROVE Has(Append(q, e), type) <=> Has(q, type) \/ type = e.type
  <2>1. ASSUME Has(Append(q, e), type) PROVE Has(q, type) \/ type = e.type
    BY <2>1, <1>1 DEF Has
  <2>2. ASSUME Has(q, type) PROVE Has(Append(q, e), type)
    BY <2>2, <1>1 DEF Has
  <2>3. ASSUME type = e.type PROVE Has(Append(q, e), type)
    BY <2>3, <1>1 DEF Has
  <2>. QED
    BY <2>1, <2>2, <2>3
<1>3. \A k \in 1..Len(q) : q[k].type # "Stopped"
  BY DEF QueueOK
<1>4. QueueOK(i, Append(q, e), after)
  <2> SUFFICES ASSUME NEW k \in 1..(Len(q) + 1)
      PROVE /\ Append(q, e)[k].type = "Stopped" => k = Len(q) + 1 /\ after = "ended"
            /\ Append(q, e)[k].type = "PermanentFailure" =>
                 /\ after \in {"ending", "ended"}
                 /\ \A m \in (k + 1)..(Len(q) + 1) : Append(q, e)[m].type = "Stopped"
            /\ Append(q, e)[k].type = "Identity" => Append(q, e)[k].endpoint \in Reaches[i]
    BY <1>1 DEF QueueOK
  <2>1. CASE k = Len(q) + 1
    <3>1. (k + 1)..(Len(q) + 1) = {}
      BY <2>1, <1>1
    <3>. QED
      BY <2>1, <3>1, <1>1
  <2>2. CASE k # Len(q) + 1
    <3>1. k \in 1..Len(q) /\ Append(q, e)[k] = q[k]
      BY <2>2, <1>1
    <3>2. ASSUME q[k].type = "PermanentFailure"
          PROVE /\ after \in {"ending", "ended"}
                /\ \A m \in (k + 1)..(Len(q) + 1) : Append(q, e)[m].type = "Stopped"
      <4>1. phase = "ending" /\ \A m \in (k + 1)..Len(q) : q[m].type = "Stopped"
        BY <3>1, <3>2 DEF QueueOK
      <4>2. e.type = "Stopped"
        BY <4>1
      <4>3. ASSUME NEW m \in (k + 1)..(Len(q) + 1) PROVE Append(q, e)[m].type = "Stopped"
        <5>1. m = Len(q) + 1 \/ (m \in (k + 1)..Len(q) /\ m \in 1..Len(q))
          BY <3>1, <1>1
        <5>. QED
          BY <5>1, <4>1, <4>2, <1>1
      <4>. QED
        BY <4>2, <4>3
    <3>. QED
      BY <3>1, <3>2, <1>3 DEF QueueOK
  <2>. QED
    BY <2>1, <2>2
<1>. QED
  BY <1>1, <1>2, <1>4

-----------------------------------------------------------------------------
(* The configuration.                                                      *)

LEMMA FieldsOf ==
  ASSUME NEW c \in Config
  PROVE /\ c.daemon_stopping \in BOOLEAN /\ c.remotes \in [Ids -> Record]
        /\ \A i \in Ids : c.remotes[i] \in Record
BY DEF Config

LEMMA WithRemoteFacts ==
  ASSUME NEW c \in Config, NEW i \in Ids, NEW r \in Record
  PROVE /\ WithRemote(c, i, r) \in Config
        /\ WithRemote(c, i, r).remotes[i] = r
        /\ \A j \in Ids \ {i} : WithRemote(c, i, r).remotes[j] = c.remotes[j]
BY DEF WithRemote, Config

LEMMA BecomeFacts ==
  ASSUME NEW c \in Config, NEW i \in Ids, NEW lifecycle \in Lifecycles, NEW observed \in Observed
  PROVE /\ Become(c, i, lifecycle, observed) \in Config
        /\ Become(c, i, lifecycle, observed).remotes[i].lifecycle = lifecycle
        /\ Become(c, i, lifecycle, observed).remotes[i].observed = observed
        /\ Become(c, i, lifecycle, observed).remotes[i].endpoint = c.remotes[i].endpoint
        /\ \A j \in Ids \ {i} : Become(c, i, lifecycle, observed).remotes[j] = c.remotes[j]
BY DEF Become, Config, Record

\* A record put in the place of another keeps the rules if it keeps its own, and its
\* endpoint is no other's.
LEMMA ValidPut ==
  ASSUME NEW c \in Config, Valid(c), NEW next \in Config, NEW i \in Ids,
         \A j \in Ids \ {i} : next.remotes[j] = c.remotes[j],
         next.remotes[i].lifecycle = "active" => next.remotes[i].endpoint # NoEndpoint,
         (next.remotes[i].lifecycle = "removing") = (next.remotes[i].observed = "removing"),
         \/ next.remotes[i].lifecycle = "absent" \/ next.remotes[i].endpoint = NoEndpoint
         \/ \A j \in Ids \ {i} : Present(c, j) => c.remotes[j].endpoint # next.remotes[i].endpoint
  PROVE Valid(next)
<1>1. ASSUME NEW j \in Ids, NEW k \in Ids, Present(next, j), Present(next, k), j # k,
             next.remotes[j].endpoint = next.remotes[k].endpoint
      PROVE next.remotes[j].endpoint = NoEndpoint
  BY <1>1 DEF Valid, Present
<1>2. ASSUME NEW j \in Ids
      PROVE /\ next.remotes[j].lifecycle = "active" => next.remotes[j].endpoint # NoEndpoint
            /\ (next.remotes[j].lifecycle = "removing") = (next.remotes[j].observed = "removing")
  <2>1. CASE j = i
    BY <2>1
  <2>2. CASE j # i
    BY <2>2 DEF Valid
  <2>. QED
    BY <2>1, <2>2
<1>. QED
  BY <1>1, <1>2 DEF Valid

LEMMA ValidRecord ==
  ASSUME NEW c, Valid(c), NEW i \in Ids
  PROVE /\ c.remotes[i].lifecycle = "active" => c.remotes[i].endpoint # NoEndpoint
        /\ (c.remotes[i].lifecycle = "removing") = (c.remotes[i].observed = "removing")
BY DEF Valid

LEMMA ValidElsewhere ==
  ASSUME NEW c, Valid(c), NEW i \in Ids, Present(c, i), c.remotes[i].endpoint # NoEndpoint
  PROVE \A j \in Ids \ {i} : Present(c, j) => c.remotes[j].endpoint # c.remotes[i].endpoint
BY DEF Valid

LEMMA ValidGone ==
  ASSUME NEW c \in Config, Valid(c), NEW i \in Ids
  PROVE /\ NoRecord \in Record
        /\ WithRemote(c, i, NoRecord) \in Config /\ Valid(WithRemote(c, i, NoRecord))
        /\ WithRemote(c, i, NoRecord).remotes[i] = NoRecord
        /\ \A j \in Ids \ {i} : WithRemote(c, i, NoRecord).remotes[j] = c.remotes[j]
<1>1. NoRecord \in Record
  BY DEF NoRecord, Record, Lifecycles, Observed
<1>. HIDE DEF NoRecord
<1>2. NoRecord.lifecycle = "absent" /\ NoRecord.observed = "connecting"
  BY DEF NoRecord
<1>. QED
  BY <1>1, <1>2, WithRemoteFacts, ValidPut

LEMMA ValidBecome ==
  ASSUME NEW c \in Config, Valid(c), NEW i \in Ids, Present(c, i),
         NEW lifecycle \in Lifecycles, NEW observed \in Observed,
         lifecycle = "active" => c.remotes[i].endpoint # NoEndpoint,
         (lifecycle = "removing") = (observed = "removing")
  PROVE Valid(Become(c, i, lifecycle, observed))
<1>1. PICK next : next = Become(c, i, lifecycle, observed)
  OBVIOUS
<1>2. /\ next \in Config /\ next.remotes[i].lifecycle = lifecycle
      /\ next.remotes[i].observed = observed /\ next.remotes[i].endpoint = c.remotes[i].endpoint
      /\ \A j \in Ids \ {i} : next.remotes[j] = c.remotes[j]
  BY <1>1, BecomeFacts
<1>3. \/ next.remotes[i].endpoint = NoEndpoint
      \/ \A j \in Ids \ {i} : Present(c, j) => c.remotes[j].endpoint # next.remotes[i].endpoint
  BY <1>2, ValidElsewhere
<1>4. Valid(next)
  BY <1>2, <1>3, ValidPut
<1>. QED
  BY <1>1, <1>4

\* What a save of a valid configuration comes to.
LEMMA SaveFacts ==
  ASSUME TypeOK, NEW c \in Config, Valid(c), NEW o \in Outcomes(c)
  PROVE /\ o \in {"ok", "before", "unknown", "unread"}
        /\ Written(c, o, disk) \in {disk, c}
        /\ o # "before" => Written(c, o, disk) = c
        /\ faults + Charged(c, o) \in 0..MaxFaults
        /\ o = "ok" => Charged(c, o) = 0
        /\ o # "ok" => faults + Charged(c, o) # 0
BY DaemonAssumption DEF TypeOK, Outcomes, Written, Charged

-----------------------------------------------------------------------------
(* The frame.                                                              *)

\* What a step leaves alone of a remote it is not about.
Rests(j) ==
  /\ worker'[j] = worker[j] /\ events'[j] = events[j] /\ cleaning'[j] = cleaning[j]
  /\ op'[j] = op[j] /\ told'[j] = told[j]
  /\ config'.remotes[j] = config.remotes[j]
  /\ disk'.remotes[j] \in {disk.remotes[j], config.remotes[j]}

LEMMA Frame ==
  ASSUME NEW j \in Ids, RemoteOK(j), running, running' = running, exiting => exiting',
         faults' # 0 \/ faults = 0, Rests(j)
  PROVE RemoteOK(j)'
<1>. USE DEF Rests, Rec, Kept
<1>1. QueueOK(j, events[j], worker[j].phase)'
  BY DEF RemoteOK, QueueOK
<1>2. EndpointOK(j)'
  BY DEF RemoteOK, EndpointOK, Admitted, Has
<1>3. SlotOK(j)'
  BY DEF RemoteOK, SlotOK, Tracked
<1>4. ToldOK(j)'
  BY DEF RemoteOK, ToldOK
<1>5. TombstoneOK(j)'
  BY DEF RemoteOK, TombstoneOK, Has
<1>6. (faults = 0 => ServedOK(j))'
  BY DEF RemoteOK, ServedOK, Sane, Hopeless, Has, OnlyStopped, Steady
<1>. QED
  BY <1>1, <1>2, <1>3, <1>4, <1>5, <1>6 DEF RemoteOK

\* A step about one remote, of a daemon that is up.
LEMMA Assembles ==
  ASSUME IInv, NEW i \in Ids, running, running' = running,
         exiting' = exiting, stopping'.on => stopping.on,
         faults' # 0 \/ faults = 0, \A j \in Ids \ {i} : Rests(j),
         TypeOK', Valid(config)', Valid(disk)', DetachedOK', RemoteOK(i)', TombstoneStep(i)
  PROVE Advances
<1>1. ASSUME NEW j \in Ids PROVE RemoteOK(j)'
  BY Frame DEF IInv
<1>2. DownOK' /\ StoppingOK'
  BY DEF DownOK, IInv, StoppingOK
<1>3. ASSUME NEW j \in Ids \ {i} PROVE TombstoneStep(j)
  BY DEF IInv, RemoteOK, TombstoneOK, TombstoneStep, Rests, Rec, Kept
<1>. QED
  BY <1>1, <1>2, <1>3 DEF IInv, Advances

-----------------------------------------------------------------------------
(* Workers.                                                                *)

LEMMA Parts ==
  ASSUME IInv, NEW i \in Ids
  PROVE /\ worker \in [Ids -> Worker] /\ events \in [Ids -> Seq(Event)]
        /\ worker[i] \in Worker /\ events[i] \in Seq(Event) /\ op[i] \in Operation
        /\ op \in [Ids -> Operation]
        /\ cleaning \in [Ids -> {"no", "tombstone", "claimed", "asked"}] /\ detached \subseteq Ids
        /\ config \in Config /\ disk \in Config
        /\ Rec(i) \in Record /\ Kept(i) \in Record
        /\ RemoteOK(i)
BY FieldsOf DEF IInv, TypeOK, WorkerTypeOK, Rec, Kept

\* A step of the worker of i.
LEMMA WorkerAssembles ==
  ASSUME IInv, NEW i \in Ids, running,
         UNCHANGED <<running, config, disk, op, exiting, stopping, told, faults, starts>>,
         WorkerTypeOK', detached' \subseteq detached,
         \A j \in Ids \ {i} : worker'[j] = worker[j] /\ events'[j] = events[j]
                              /\ cleaning'[j] = cleaning[j],
         RemoteOK(i)'
  PROVE Advances
<1>1. \A j \in Ids \ {i} : Rests(j)
  BY DEF Rests
<1>2. TypeOK'
  BY DEF IInv, TypeOK
<1>3. Valid(config)' /\ Valid(disk)'
  BY DEF IInv, Valid, Present
<1>4. DetachedOK' /\ TombstoneStep(i)
  BY DEF IInv, DetachedOK, TombstoneStep, Kept
<1>. QED
  BY <1>1, <1>2, <1>3, <1>4, Assembles DEF IInv

LEMMA WorkerGoes ==
  ASSUME IInv, NEW i \in Ids, running, Tracked(i),
         UNCHANGED <<running, config, disk, op, exiting, stopping, told, faults, starts>>,
         WorkerTypeOK', detached' \subseteq detached,
         \A j \in Ids \ {i} : worker'[j] = worker[j] /\ events'[j] = events[j]
                              /\ cleaning'[j] = cleaning[j],
         QueueOK(i, events'[i], worker'[i].phase), worker'[i].phase # "none",
         cleaning'[i] = cleaning[i] \/ (cleaning[i] = "tombstone" /\ cleaning'[i] = "claimed"),
         Admitted(events'[i], worker'[i]) => Admitted(events[i], worker[i]),
         Has(events'[i], "Ready") => Has(events[i], "Ready") \/ cleaning'[i] # "tombstone",
         Sane(events[i], worker[i]) => Sane(events'[i], worker'[i]),
         Hopeless(events[i], worker[i]) => Hopeless(events'[i], worker'[i]),
         worker[i].phase \in {"ending", "ended"} /\ OnlyStopped(events[i]) =>
           worker'[i].phase \in {"ending", "ended"} /\ OnlyStopped(events'[i])
  PROVE Advances
<1>. USE DEF Rec, Kept
<1>1. RemoteOK(i)
  BY Parts
<1>2. EndpointOK(i)'
  BY <1>1 DEF RemoteOK, EndpointOK
<1>3. SlotOK(i)'
  BY <1>1 DEF RemoteOK, SlotOK, Tracked
<1>4. ToldOK(i)'
  BY <1>1 DEF RemoteOK, ToldOK
<1>5. TombstoneOK(i)'
  BY <1>1 DEF RemoteOK, TombstoneOK
<1>6. (faults = 0 => ServedOK(i))'
  BY <1>1 DEF RemoteOK, ServedOK, Tracked, Steady
<1>7. RemoteOK(i)'
  BY <1>2, <1>3, <1>4, <1>5, <1>6 DEF RemoteOK
<1>. QED
  BY <1>7, WorkerAssembles

LEMMA EmitsFacts ==
  ASSUME IInv, NEW i \in Ids, NEW type \in EventTypes, NEW e \in Endpoints \cup {NoEndpoint},
         NEW after, Emits(i, type, e), worker[i].phase # "ended",
         type # "Stopped" => worker[i].phase # "ending",
         type = "Stopped" => after = "ended",
         type = "PermanentFailure" => after = "ending",
         type = "Identity" => e \in Reaches[i]
  PROVE /\ events' \in [Ids -> Seq(Event)]
        /\ \A j \in Ids \ {i} : events'[j] = events[j]
        /\ \A t : Has(events'[i], t) <=> Has(events[i], t) \/ t = type
        /\ QueueOK(i, events'[i], after)
        /\ type = "Stopped" /\ OnlyStopped(events[i]) => OnlyStopped(events'[i])
<1>1. PICK ev : ev = [type |-> type, endpoint |-> e]
  OBVIOUS
<1>2. ev \in Event /\ ev.type = type /\ ev.endpoint = e
  BY <1>1 DEF Event
<1>3. events' = [events EXCEPT ![i] = Append(@, ev)]
  BY <1>1 DEF Emits
<1>4. events \in [Ids -> Seq(Event)] /\ QueueOK(i, events[i], worker[i].phase)
  BY Parts DEF RemoteOK
<1>5. events'[i] = Append(events[i], ev) /\ \A j \in Ids \ {i} : events'[j] = events[j]
  BY <1>3, <1>4
<1>6. /\ Append(events[i], ev) \in Seq(Event)
      /\ \A t : Has(Append(events[i], ev), t) <=> Has(events[i], t) \/ t = ev.type
      /\ QueueOK(i, Append(events[i], ev), after)
  BY <1>2, <1>4, Emitted
<1>7. events' \in [Ids -> Seq(Event)]
  BY <1>3, <1>4, <1>6
<1>8. type = "Stopped" /\ OnlyStopped(events[i]) => OnlyStopped(events'[i])
  BY <1>2, <1>4, <1>5 DEF OnlyStopped
<1>. QED
  BY <1>2, <1>5, <1>6, <1>7, <1>8

LEMMA MovesFacts ==
  ASSUME IInv, NEW i \in Ids, NEW w \in Worker, worker' = [worker EXCEPT ![i] = w]
  PROVE /\ worker' \in [Ids -> Worker] /\ worker'[i] = w
        /\ \A j \in Ids \ {i} : worker'[j] = worker[j]
BY Parts

\* A worker that keeps its events keeps their order when it ends or has not failed.
LEMMA QueueStays ==
  ASSUME NEW i, NEW q, NEW phase, NEW after, QueueOK(i, q, phase),
         after = phase \/ phase \notin {"ending", "ended"}
  PROVE QueueOK(i, q, after)
BY DEF QueueOK

WorkerAlone ==
  running /\ UNCHANGED <<running, config, disk, op, exiting, stopping, told, faults, starts>>

LEMMA GivesUpKeeps ==
  ASSUME IInv, NEW i \in Ids, WorkerAlone, NEW w \in Worker, GivesUp(i, w),
         worker[i].phase \in {"connecting", "awaiting", "approved"},
         w.cancelled = worker[i].cancelled, w.approval \in {worker[i].approval, "none"},
         UNCHANGED <<detached, cleaning>>
  PROVE Advances
<1>1. PICK new : new = [w EXCEPT !.phase = "ending"]
  OBVIOUS
<1>2. /\ new \in Worker /\ new.phase = "ending" /\ new.cancelled = worker[i].cancelled
      /\ new.approval \in {worker[i].approval, "none"}
  BY <1>1 DEF Worker, Phases
<1>3. /\ worker' \in [Ids -> Worker] /\ worker'[i] = new
      /\ \A j \in Ids \ {i} : worker'[j] = worker[j]
  BY <1>1, <1>2, MovesFacts DEF GivesUp
<1>4. QueueOK(i, events[i], worker[i].phase)
  BY Parts DEF RemoteOK
<1>5. /\ events' \in [Ids -> Seq(Event)]
      /\ \A j \in Ids \ {i} : events'[j] = events[j]
      /\ \A t : Has(events'[i], t) <=>
                  Has(events[i], t) \/ (t = "PermanentFailure" /\ ~worker[i].cancelled)
      /\ QueueOK(i, events'[i], "ending")
  <2>1. CASE worker[i].cancelled
    <3>1. events' = events
      BY <2>1 DEF GivesUp
    <3>. QED
      BY <3>1, <2>1, <1>4, QueueStays, Parts
  <2>2. CASE ~worker[i].cancelled
    <3>1. Emits(i, "PermanentFailure", NoEndpoint)
      BY <2>2 DEF GivesUp
    <3>2. "PermanentFailure" \in EventTypes
      BY DEF EventTypes
    <3>3. \A t : Has(events'[i], t) <=> Has(events[i], t) \/ t = "PermanentFailure"
      BY <3>1, <3>2, EmitsFacts
    <3>4. /\ events' \in [Ids -> Seq(Event)]
          /\ \A j \in Ids \ {i} : events'[j] = events[j]
          /\ QueueOK(i, events'[i], "ending")
      BY <3>1, <3>2, EmitsFacts
    <3>. QED
      BY <3>3, <3>4, <2>2
  <2>. QED
    BY <2>1, <2>2
<1>6. WorkerTypeOK'
  BY <1>3, <1>5, Parts DEF WorkerTypeOK
<1>7. Admitted(events'[i], worker'[i]) => Admitted(events[i], worker[i])
  BY <1>2, <1>3, <1>5 DEF Admitted
<1>8. Sane(events[i], worker[i]) => Sane(events'[i], worker'[i])
  BY <1>2, <1>3, <1>5 DEF Sane
<1>9. Hopeless(events[i], worker[i]) => Hopeless(events'[i], worker'[i])
  BY <1>2, <1>3, <1>5 DEF Hopeless
<1>10. Has(events'[i], "Ready") => Has(events[i], "Ready")
  BY <1>5
<1>. QED
  BY <1>2, <1>3, <1>5, <1>6, <1>7, <1>8, <1>9, <1>10, WorkerGoes DEF WorkerAlone, Tracked

\* The worker reports that it connects again.
LEMMA ReconnectsKeeps ==
  ASSUME IInv, NEW i \in Ids, WorkerAlone, Reconnects(i),
         worker[i].phase \in {"connecting", "awaiting", "approved", "serving"},
         ~worker[i].cancelled, UNCHANGED <<detached, cleaning>>
  PROVE Advances
<1>1. PICK new : new = [worker[i] EXCEPT !.phase = "connecting", !.at = NoEndpoint]
  OBVIOUS
<1>2. worker[i] \in Worker
  BY Parts
<1>3. /\ new \in Worker /\ new.phase = "connecting" /\ new.cancelled = worker[i].cancelled
      /\ new.approval = worker[i].approval
  BY <1>1, <1>2 DEF Worker, Phases
<1>4. worker' = [worker EXCEPT ![i] = new]
  BY <1>1, Parts DEF Reconnects
<1>5. /\ worker' \in [Ids -> Worker] /\ worker'[i] = new
      /\ \A j \in Ids \ {i} : worker'[j] = worker[j]
  BY <1>3, <1>4, MovesFacts
<1>6. "Retrying" \in EventTypes /\ Emits(i, "Retrying", NoEndpoint)
  BY DEF EventTypes, Reconnects
<1>7. \A t : Has(events'[i], t) <=> Has(events[i], t) \/ t = "Retrying"
  BY <1>6, EmitsFacts
<1>8. /\ events' \in [Ids -> Seq(Event)]
      /\ \A j \in Ids \ {i} : events'[j] = events[j]
      /\ QueueOK(i, events'[i], "connecting")
  BY <1>6, EmitsFacts
<1>9. WorkerTypeOK'
  BY <1>5, <1>8, Parts DEF WorkerTypeOK
<1>10. Admitted(events'[i], worker'[i]) => Admitted(events[i], worker[i])
  BY <1>3, <1>5, <1>7 DEF Admitted
<1>11. Sane(events[i], worker[i]) => Sane(events'[i], worker'[i])
  BY <1>3, <1>5, <1>7 DEF Sane
<1>12. ~Hopeless(events[i], worker[i])
  BY DEF Hopeless
<1>13. Has(events'[i], "Ready") => Has(events[i], "Ready")
  BY <1>7
<1>. QED
  BY <1>3, <1>5, <1>8, <1>9, <1>10, <1>11, <1>12, <1>13, WorkerGoes DEF WorkerAlone, Tracked

LEMMA ConnectsKeeps == ASSUME IInv, NEW i \in Ids, WorkerAlone, Connects(i) PROVE Advances
<1>1. PICK e \in Reaches[i] :
          IF IdentityAgrees(worker[i], e)
          THEN /\ worker' = [worker EXCEPT ![i].phase = "awaiting", ![i].at = e]
               /\ Emits(i, "Identity", e)
          ELSE GivesUp(i, worker[i])
  BY DEF Connects
<1>2. /\ worker[i].phase = "connecting" /\ ~worker[i].cancelled
      /\ UNCHANGED <<detached, cleaning>>
  BY DEF Connects
<1>3. worker[i] \in Worker
  BY Parts
<1>4. CASE ~IdentityAgrees(worker[i], e)
  BY <1>1, <1>2, <1>3, <1>4, GivesUpKeeps
<1>5. CASE IdentityAgrees(worker[i], e)
  <2>0. e \in Endpoints
    BY WorkerAssumption
  <2>1. PICK new : new = [worker[i] EXCEPT !.phase = "awaiting", !.at = e]
    OBVIOUS
  <2>2. /\ new \in Worker /\ new.phase = "awaiting" /\ new.cancelled = worker[i].cancelled
        /\ new.approval = worker[i].approval
    BY <2>0, <2>1, <1>3 DEF Worker, Phases
  <2>3. worker' = [worker EXCEPT ![i] = new] /\ Emits(i, "Identity", e)
    BY <1>1, <1>5, <2>1, Parts
  <2>4. /\ worker' \in [Ids -> Worker] /\ worker'[i] = new
        /\ \A j \in Ids \ {i} : worker'[j] = worker[j]
    BY <2>2, <2>3, MovesFacts
  <2>5. "Identity" \in EventTypes
    BY DEF EventTypes
  <2>6. \A t : Has(events'[i], t) <=> Has(events[i], t) \/ t = "Identity"
    BY <1>2, <2>0, <2>3, <2>5, EmitsFacts
  <2>7. /\ events' \in [Ids -> Seq(Event)]
        /\ \A j \in Ids \ {i} : events'[j] = events[j]
        /\ QueueOK(i, events'[i], "awaiting")
    BY <1>2, <2>0, <2>3, <2>5, EmitsFacts
  <2>8. WorkerTypeOK'
    BY <1>2, <2>4, <2>7, Parts DEF WorkerTypeOK
  <2>9. Admitted(events'[i], worker'[i]) => Admitted(events[i], worker[i])
    BY <2>2, <2>4, <2>6 DEF Admitted
  <2>10. Sane(events[i], worker[i]) => Sane(events'[i], worker'[i])
    BY <1>2, <2>2, <2>4, <2>6 DEF Sane
  <2>11. ~Hopeless(events[i], worker[i])
    BY <1>2 DEF Hopeless
  <2>12. Has(events'[i], "Ready") => Has(events[i], "Ready")
    BY <2>6
  <2>. QED
    BY <1>2, <2>2, <2>4, <2>7, <2>8, <2>9, <2>10, <2>11, <2>12, WorkerGoes
    DEF WorkerAlone, Tracked
<1>. QED
  BY <1>4, <1>5

LEMMA TakesApprovalKeeps == ASSUME IInv, NEW i \in Ids, WorkerAlone, TakesApproval(i) PROVE Advances
<1>1. PICK w : w = [worker[i] EXCEPT !.approval = "none"]
  OBVIOUS
<1>2. worker[i] \in Worker
  BY Parts
<1>3. /\ w \in Worker /\ w.phase = worker[i].phase /\ w.cancelled = worker[i].cancelled
      /\ w.approval = "none"
  BY <1>1, <1>2 DEF Worker, Approvals
<1>4. /\ worker[i].phase = "awaiting" /\ worker[i].approval # "none"
      /\ IF worker[i].approval = "proceed"
         THEN worker' = [worker EXCEPT ![i] = [w EXCEPT !.phase = "approved"]] /\ UNCHANGED events
         ELSE GivesUp(i, w)
      /\ UNCHANGED <<detached, cleaning>>
  BY <1>1 DEF TakesApproval
<1>5. CASE worker[i].approval # "proceed"
  BY <1>3, <1>4, <1>5, GivesUpKeeps
<1>6. CASE worker[i].approval = "proceed"
  <2>1. PICK new : new = [w EXCEPT !.phase = "approved"]
    OBVIOUS
  <2>2. /\ new \in Worker /\ new.phase = "approved" /\ new.cancelled = worker[i].cancelled
        /\ new.approval = "none"
    BY <2>1, <1>3 DEF Worker, Phases
  <2>3. /\ worker' \in [Ids -> Worker] /\ worker'[i] = new
        /\ \A j \in Ids \ {i} : worker'[j] = worker[j]
    BY <1>4, <1>6, <2>1, <2>2, MovesFacts
  <2>4. events' = events /\ events \in [Ids -> Seq(Event)]
    BY <1>4, <1>6, Parts
  <2>5. QueueOK(i, events[i], "approved")
    BY <1>4, Parts, QueueStays DEF RemoteOK
  <2>6. WorkerTypeOK'
    BY <1>4, <2>3, <2>4, Parts DEF WorkerTypeOK
  <2>7. Admitted(events[i], worker[i])
    BY <1>6 DEF Admitted
  <2>8. Sane(events[i], worker[i]) => Sane(events'[i], worker'[i])
    BY <1>4, <2>2, <2>3, <2>4 DEF Sane
  <2>9. ~Hopeless(events[i], worker[i])
    BY <1>4, <1>6 DEF Hopeless
  <2>. QED
    BY <1>4, <2>2, <2>3, <2>4, <2>5, <2>6, <2>7, <2>8, <2>9, WorkerGoes DEF WorkerAlone, Tracked
<1>. QED
  BY <1>5, <1>6

LEMMA BecomesReadyKeeps == ASSUME IInv, NEW i \in Ids, WorkerAlone, BecomesReady(i) PROVE Advances
<1>1. /\ worker[i].phase = "approved" /\ worker' = [worker EXCEPT ![i].phase = "serving"]
      /\ Emits(i, "Ready", worker[i].at)
      /\ cleaning' = [cleaning EXCEPT ![i] = IF @ = "tombstone" THEN "claimed" ELSE @]
      /\ detached' = detached
  BY DEF BecomesReady
<1>2. worker[i] \in Worker /\ worker[i].at \in Endpoints \cup {NoEndpoint}
  BY Parts DEF Worker
<1>3. PICK new : new = [worker[i] EXCEPT !.phase = "serving"]
  OBVIOUS
<1>4. /\ new \in Worker /\ new.phase = "serving" /\ new.cancelled = worker[i].cancelled
      /\ new.approval = worker[i].approval
  BY <1>2, <1>3 DEF Worker, Phases
<1>5. worker' = [worker EXCEPT ![i] = new]
  BY <1>1, <1>3
<1>6. /\ worker' \in [Ids -> Worker] /\ worker'[i] = new
      /\ \A j \in Ids \ {i} : worker'[j] = worker[j]
  BY <1>4, <1>5, MovesFacts
<1>7. "Ready" \in EventTypes
  BY DEF EventTypes
<1>8. \A t : Has(events'[i], t) <=> Has(events[i], t) \/ t = "Ready"
  BY <1>1, <1>2, <1>7, EmitsFacts
<1>9. /\ events' \in [Ids -> Seq(Event)]
      /\ \A j \in Ids \ {i} : events'[j] = events[j]
      /\ QueueOK(i, events'[i], "serving")
  BY <1>1, <1>2, <1>7, EmitsFacts
<1>10. /\ cleaning' \in [Ids -> {"no", "tombstone", "claimed", "asked"}]
       /\ cleaning'[i] # "tombstone"
       /\ cleaning'[i] = cleaning[i] \/ (cleaning[i] = "tombstone" /\ cleaning'[i] = "claimed")
       /\ \A j \in Ids \ {i} : cleaning'[j] = cleaning[j]
  BY <1>1, Parts
<1>11. WorkerTypeOK'
  BY <1>1, <1>6, <1>9, <1>10, Parts DEF WorkerTypeOK
<1>12. Admitted(events[i], worker[i])
  BY <1>1 DEF Admitted
<1>13. Sane(events[i], worker[i]) => Sane(events'[i], worker'[i])
  BY <1>1, <1>4, <1>6, <1>8 DEF Sane
<1>14. ~Hopeless(events[i], worker[i])
  BY <1>1 DEF Hopeless
<1>15. detached' \subseteq detached /\ Tracked(i) /\ worker[i].phase \notin {"ending", "ended"}
  BY <1>1 DEF Tracked
<1>. QED
  BY <1>4, <1>6, <1>9, <1>10, <1>11, <1>12, <1>13, <1>14, <1>15, WorkerGoes DEF WorkerAlone

LEMMA StopsKeeps == ASSUME IInv, NEW i \in Ids, WorkerAlone, Stops(i) PROVE Advances
<1>1. /\ Tracked(i) /\ worker[i].phase # "ended"
      /\ worker[i].cancelled \/ worker[i].phase = "ending"
      /\ worker' = [worker EXCEPT ![i].phase = "ended"]
      /\ Emits(i, "Stopped", NoEndpoint) /\ UNCHANGED <<detached, cleaning>>
  BY DEF Stops
<1>2. worker[i] \in Worker
  BY Parts
<1>3. PICK new : new = [worker[i] EXCEPT !.phase = "ended"]
  OBVIOUS
<1>4. /\ new \in Worker /\ new.phase = "ended" /\ new.cancelled = worker[i].cancelled
      /\ new.approval = worker[i].approval
  BY <1>2, <1>3 DEF Worker, Phases
<1>5. worker' = [worker EXCEPT ![i] = new]
  BY <1>1, <1>3
<1>6. /\ worker' \in [Ids -> Worker] /\ worker'[i] = new
      /\ \A j \in Ids \ {i} : worker'[j] = worker[j]
  BY <1>4, <1>5, MovesFacts
<1>7. "Stopped" \in EventTypes
  BY DEF EventTypes
<1>8. \A t : Has(events'[i], t) <=> Has(events[i], t) \/ t = "Stopped"
  BY <1>1, <1>7, EmitsFacts
<1>9. /\ events' \in [Ids -> Seq(Event)]
      /\ \A j \in Ids \ {i} : events'[j] = events[j]
      /\ QueueOK(i, events'[i], "ended")
      /\ OnlyStopped(events[i]) => OnlyStopped(events'[i])
  BY <1>1, <1>7, EmitsFacts
<1>10. WorkerTypeOK'
  BY <1>1, <1>6, <1>9, Parts DEF WorkerTypeOK
<1>11. Admitted(events'[i], worker'[i]) => Admitted(events[i], worker[i])
  BY <1>4, <1>6, <1>8 DEF Admitted
<1>12. Sane(events[i], worker[i]) => Sane(events'[i], worker'[i])
  BY <1>1, <1>8 DEF Sane
<1>13. Hopeless(events[i], worker[i]) => Hopeless(events'[i], worker'[i])
  BY <1>4, <1>6, <1>8 DEF Hopeless
<1>14. Has(events'[i], "Ready") => Has(events[i], "Ready")
  BY <1>8
<1>. QED
  BY <1>1, <1>4, <1>6, <1>9, <1>10, <1>11, <1>12, <1>13, <1>14, WorkerGoes
  DEF WorkerAlone, Tracked

LEMMA DetachedEndsKeeps == ASSUME IInv, NEW i \in Ids, WorkerAlone, DetachedEnds(i) PROVE Advances
<1>1. detached' \subseteq detached /\ UNCHANGED <<worker, events, cleaning>>
  BY DEF DetachedEnds
<1>2. Rests(i)
  BY <1>1 DEF Rests, WorkerAlone
<1>3. RemoteOK(i)'
  BY <1>2, Frame DEF IInv, WorkerAlone
<1>4. WorkerTypeOK'
  BY <1>1, Parts DEF WorkerTypeOK
<1>. QED
  BY <1>1, <1>3, <1>4, WorkerAssembles DEF WorkerAlone

LEMMA WorkerStepKeeps == ASSUME IInv, NEW i \in Ids, WorkerStep(i) PROVE Advances
<1>1. WorkerAlone /\ worker[i] \in Worker
  BY Parts DEF WorkerStep, WorkerAlone
<1>2. CASE RefusedForGood(i)
  BY <1>1, <1>2, GivesUpKeeps DEF RefusedForGood
<1>3. CASE ConnectionFails(i)
  BY <1>1, <1>3, ReconnectsKeeps DEF ConnectionFails
<1>4. CASE OwnerConflict(i)
  <2>1. CASE worker[i].retryConflict
    BY <1>1, <1>4, <2>1, ReconnectsKeeps DEF OwnerConflict
  <2>2. CASE ~worker[i].retryConflict
    BY <1>1, <1>4, <2>2, GivesUpKeeps DEF OwnerConflict
  <2>. QED
    BY <2>1, <2>2
<1>. QED
  BY <1>1, <1>2, <1>3, <1>4, ConnectsKeeps, TakesApprovalKeeps, BecomesReadyKeeps, StopsKeeps,
     DetachedEndsKeeps DEF WorkerStep, WorkerSteps

-----------------------------------------------------------------------------
(* Saves.                                                                  *)

\* A changed configuration is saved: the actor holds it whatever came of the save.
LEMMA Saved ==
  ASSUME IInv, NEW c \in Config, Valid(c), NEW i \in Ids,
         \A j \in Ids \ {i} : c.remotes[j] = config.remotes[j],
         NEW o \in Outcomes(c), SaveCurrent(c, o), faults' = faults + Charged(c, o)
  PROVE /\ config' = c /\ disk' \in Config /\ Valid(config)' /\ Valid(disk)'
        /\ Rec(i)' = c.remotes[i] /\ Kept(i)' \in {Kept(i), c.remotes[i]}
        /\ \A j \in Ids \ {i} : config'.remotes[j] = config.remotes[j]
        /\ \A j \in Ids \ {i} : disk'.remotes[j] \in {disk.remotes[j], config.remotes[j]}
        /\ faults' \in 0..MaxFaults /\ (faults' # 0 \/ faults = 0)
        /\ o = "ok" => Kept(i)' = c.remotes[i]
        /\ o # "ok" => faults' # 0
<1>1. TypeOK /\ Valid(disk) /\ faults \in Nat /\ disk \in Config
  BY DaemonAssumption DEF IInv, TypeOK
<1>2. /\ config' = c /\ disk' = Written(c, o, disk)
  BY DEF SaveCurrent
<1>3. /\ Written(c, o, disk) \in {disk, c}
      /\ o # "before" => Written(c, o, disk) = c
      /\ faults + Charged(c, o) \in 0..MaxFaults
      /\ o = "ok" => Charged(c, o) = 0
      /\ o # "ok" => faults + Charged(c, o) # 0
  BY <1>1, SaveFacts
<1>4. disk' = disk \/ disk' = c
  BY <1>2, <1>3
<1>5. Valid(config)' /\ Valid(disk)'
  BY <1>1, <1>2, <1>4 DEF Valid, Present
<1>6. faults' # 0 \/ faults = 0
  BY <1>1, <1>3
<1>. QED
  BY <1>1, <1>2, <1>3, <1>4, <1>5, <1>6 DEF Rec, Kept

\* A changed copy is saved: the actor adopts it when it is known to be written.
LEMMA Committed ==
  ASSUME IInv, NEW c \in Config, Valid(c), NEW i \in Ids,
         \A j \in Ids \ {i} : c.remotes[j] = config.remotes[j],
         NEW o \in Outcomes(c), Commit(c, o), faults' = faults + Charged(c, o)
  PROVE /\ config' \in Config /\ disk' \in Config /\ Valid(config)' /\ Valid(disk)'
        /\ Rec(i)' \in {Rec(i), c.remotes[i]} /\ Kept(i)' \in {Kept(i), c.remotes[i]}
        /\ \A j \in Ids \ {i} : config'.remotes[j] = config.remotes[j]
        /\ \A j \in Ids \ {i} : disk'.remotes[j] \in {disk.remotes[j], config.remotes[j]}
        /\ faults' \in 0..MaxFaults /\ (faults' # 0 \/ faults = 0)
        /\ o = "ok" => Rec(i)' = c.remotes[i] /\ Kept(i)' = c.remotes[i]
        /\ o # "ok" => faults' # 0
<1>1. /\ TypeOK /\ Valid(disk) /\ Valid(config) /\ faults \in Nat
      /\ disk \in Config /\ config \in Config
  BY DaemonAssumption DEF IInv, TypeOK
<1>2. /\ config' = c \/ config' = config
      /\ o = "ok" => config' = c
      /\ disk' = Written(c, o, disk)
  BY DEF Commit
<1>3. /\ Written(c, o, disk) \in {disk, c}
      /\ o # "before" => Written(c, o, disk) = c
      /\ faults + Charged(c, o) \in 0..MaxFaults
      /\ o = "ok" => Charged(c, o) = 0
      /\ o # "ok" => faults + Charged(c, o) # 0
  BY <1>1, SaveFacts
<1>4. disk' = disk \/ disk' = c
  BY <1>2, <1>3
<1>5. Valid(config)' /\ Valid(disk)'
  BY <1>1, <1>2, <1>4 DEF Valid, Present
<1>6. faults' # 0 \/ faults = 0
  BY <1>1, <1>3
<1>. QED
  BY <1>1, <1>2, <1>3, <1>4, <1>5, <1>6 DEF Rec, Kept

\* The worker could not be spawned: the actor keeps its configuration, the file may not.
LEMMA InVain ==
  ASSUME IInv, NEW i \in Ids, NEW next \in Config, Valid(next), SpawnFails(next),
         \A j \in Ids \ {i} : next.remotes[j] = config.remotes[j]
  PROVE /\ config' = config /\ disk' \in Config /\ Valid(config)' /\ Valid(disk)'
        /\ Rec(i)' = Rec(i) /\ Kept(i)' \in {Rec(i), next.remotes[i]}
        /\ \A j \in Ids \ {i} : config'.remotes[j] = config.remotes[j]
        /\ \A j \in Ids \ {i} : disk'.remotes[j] \in {disk.remotes[j], config.remotes[j]}
        /\ faults' \in 0..MaxFaults /\ faults' # 0
<1>1. /\ Valid(config) /\ config \in Config /\ faults \in 0..MaxFaults /\ MaxFaults \in Nat
      /\ TypeOK
  BY DaemonAssumption DEF IInv, TypeOK
<1>2. PICK o \in Outcomes(config) :
         /\ config' = config /\ disk' = Written(config, o, next)
         /\ faults' = faults + 1 + Charged(config, o) /\ faults' <= MaxFaults
  BY DEF SpawnFails
<1>3. disk' \in {config, next}
  BY <1>2 DEF Written
<1>4. Valid(config)' /\ Valid(disk)'
  BY <1>1, <1>2, <1>3 DEF Valid, Present
<1>5. Charged(config, o) \in {0, 1}
  BY DEF Charged
<1>6. faults' \in 0..MaxFaults /\ faults' # 0
  BY <1>1, <1>2, <1>5
<1>. QED
  BY <1>1, <1>2, <1>3, <1>4, <1>6 DEF Rec, Kept

-----------------------------------------------------------------------------
(* Control requests.                                                       *)

LEMMA Operations ==
  /\ NoOperation \in Operation /\ NoOperation.type = "none"
  /\ AddOperation \in Operation /\ AddOperation.type = "add"
  /\ RemoveOperation \in Operation /\ RemoveOperation.type = "remove"
  /\ ~RemoveOperation.requireReady /\ ~RemoveOperation.ready
  /\ StartupCleanup \in Operation /\ StartupCleanup.type = "remove"
  /\ StartupCleanup.requireReady /\ ~StartupCleanup.ready
<1>1. /\ NoOperation \in Operation /\ NoOperation.type = "none"
      /\ ~NoOperation.requireReady /\ ~NoOperation.ready
  BY DEF NoOperation, Operation
<1>2. AddOperation \in Operation /\ AddOperation.type = "add"
  BY <1>1 DEF AddOperation, Operation
<1>3. /\ RemoveOperation \in Operation /\ RemoveOperation.type = "remove"
      /\ ~RemoveOperation.requireReady /\ ~RemoveOperation.ready
  BY <1>1 DEF RemoveOperation, Operation
<1>4. /\ StartupCleanup \in Operation /\ StartupCleanup.type = "remove"
      /\ StartupCleanup.requireReady /\ ~StartupCleanup.ready
  BY <1>1 DEF StartupCleanup, Operation
<1>. QED
  BY <1>1, <1>2, <1>3, <1>4

LEMMA SpawnedFacts ==
  ASSUME NEW expected \in Endpoints \cup {NoEndpoint}, NEW retryConflict \in BOOLEAN
  PROVE /\ Spawned(expected, retryConflict) \in Worker
        /\ Spawned(expected, retryConflict).phase = "connecting"
        /\ ~Spawned(expected, retryConflict).cancelled
        /\ Spawned(expected, retryConflict).approval = "none"
BY DEF Spawned, Worker, Phases, Approvals

LEMMA NoWorkerFacts ==
  /\ NoWorker \in Worker /\ NoWorker.phase = "none" /\ NoWorker.approval = "none"
  /\ ~NoWorker.cancelled
BY DEF NoWorker, Spawned, Worker, Phases, Approvals

LEMMA SpawnFacts ==
  ASSUME IInv, NEW i \in Ids, NEW expected \in Endpoints \cup {NoEndpoint},
         NEW operation \in Operation, Spawn(i, expected, operation)
  PROVE /\ worker' \in [Ids -> Worker] /\ op' \in [Ids -> Operation] /\ op'[i] = operation
        /\ worker'[i].phase = "connecting" /\ worker'[i].approval = "none"
        /\ ~worker'[i].cancelled
        /\ \A j \in Ids \ {i} : worker'[j] = worker[j] /\ op'[j] = op[j]
<1>1. operation.requireReady \in BOOLEAN
  BY DEF Operation
<1>2. PICK w : w = Spawned(expected, operation.requireReady)
  OBVIOUS
<1>3. w \in Worker /\ w.phase = "connecting" /\ w.approval = "none" /\ ~w.cancelled
  BY <1>1, <1>2, SpawnedFacts
<1>4. worker' = [worker EXCEPT ![i] = w] /\ op' = [op EXCEPT ![i] = operation]
  BY <1>2 DEF Spawn
<1>. QED
  BY <1>3, <1>4, Parts

LEMMA FreshWorker ==
  ASSUME NEW w, w.phase = "connecting", w.approval = "none", ~w.cancelled
  PROVE ~Admitted(<<>>, w) /\ Sane(<<>>, w)
BY EmptyQueue DEF Admitted, Sane

\* What a step for a control request or an event leaves of the other remotes, if it
\* touches their slots not at all.
LEMMA OthersRest ==
  ASSUME NEW i \in Ids,
         \A j \in Ids \ {i} : worker'[j] = worker[j] /\ events'[j] = events[j],
         \A j \in Ids \ {i} : op'[j] = op[j] /\ told'[j] = told[j],
         cleaning' = cleaning,
         \A j \in Ids \ {i} : config'.remotes[j] = config.remotes[j],
         \A j \in Ids \ {i} : disk'.remotes[j] \in {disk.remotes[j], config.remotes[j]}
  PROVE \A j \in Ids \ {i} : Rests(j)
BY DEF Rests

LEMMA AddKeeps == ASSUME IInv, NEW i \in Ids, Add(i) PROVE Advances
<1>1. PICK pending : pending = [NoRecord EXCEPT !.lifecycle = "pending"]
  OBVIOUS
<1>2. PICK next : next = WithRemote(config, i, pending)
  OBVIOUS
<1>3. /\ Accepting /\ told[i] = "new" /\ told' = [told EXCEPT ![i] = "adding"]
      /\ \/ \E o \in Outcomes(next) :
               /\ Commit(next, o) /\ faults' = faults + Charged(next, o)
               /\ IF o = "ok" THEN Spawn(i, NoEndpoint, AddOperation) ELSE UNCHANGED <<worker, op>>
         \/ SpawnFails(next) /\ UNCHANGED <<worker, op>>
      /\ UNCHANGED <<events, detached, cleaning, running, exiting, stopping, starts>>
  BY <1>1, <1>2 DEF Add
<1>4. pending \in Record /\ pending.lifecycle = "pending" /\ pending.observed = "connecting"
      /\ pending.endpoint = NoEndpoint
  BY <1>1 DEF NoRecord, Record, Lifecycles, Observed
<1>5. /\ next \in Config /\ next.remotes[i] = pending
      /\ \A j \in Ids \ {i} : next.remotes[j] = config.remotes[j]
  <2>1. config \in Config
    BY Parts
  <2>. QED
    BY <1>2, <1>4, <2>1, WithRemoteFacts
<1>6. Valid(next)
  BY <1>4, <1>5, ValidPut, Parts DEF IInv
<1>7. running /\ RemoteOK(i) /\ TypeOK /\ DetachedOK
  BY <1>3, Parts DEF Accepting, Serving, IInv
<1>8. /\ ~Tracked(i) /\ worker[i] = NoWorker /\ op[i] = NoOperation
      /\ events[i] = <<>> /\ cleaning[i] = "no"
      /\ Rec(i).lifecycle = "absent" /\ Kept(i).lifecycle = "absent"
      /\ Rec(i).endpoint \in Reaches[i] \cup {NoEndpoint}
      /\ Kept(i).endpoint \in Reaches[i] \cup {NoEndpoint}
  BY <1>3, <1>7 DEF RemoteOK, SlotOK, ToldOK, TombstoneOK, EndpointOK
<1>9. /\ told' \in [Ids -> {"new", "adding", "added", "asked", "removed"}] /\ told'[i] = "adding"
      /\ \A j \in Ids \ {i} : told'[j] = told[j]
  BY <1>3, <1>7 DEF TypeOK
<1>10. events'[i] = <<>> /\ cleaning'[i] = "no" /\ running' = running
  BY <1>3, <1>8
<1>. DEFINE Settled ==
         /\ config' \in Config /\ disk' \in Config /\ Valid(config)' /\ Valid(disk)'
         /\ Rec(i)' \in {Rec(i), pending} /\ Kept(i)' \in {Kept(i), pending, Rec(i)}
         /\ \A j \in Ids \ {i} : config'.remotes[j] = config.remotes[j]
         /\ \A j \in Ids \ {i} : disk'.remotes[j] \in {disk.remotes[j], config.remotes[j]}
         /\ faults' \in 0..MaxFaults /\ (faults' # 0 \/ faults = 0)
         /\ \/ UNCHANGED <<worker, op>>
            \/ Rec(i)' = pending /\ Kept(i)' = pending /\ Spawn(i, NoEndpoint, AddOperation)
<1>11. Settled
  <2>1. ASSUME NEW o \in Outcomes(next), Commit(next, o), faults' = faults + Charged(next, o),
               IF o = "ok" THEN Spawn(i, NoEndpoint, AddOperation) ELSE UNCHANGED <<worker, op>>
        PROVE Settled
    BY <2>1, <1>5, <1>6, Committed
  <2>2. CASE SpawnFails(next) /\ UNCHANGED <<worker, op>>
    BY <2>2, <1>5, <1>6, InVain, Parts
  <2>. QED
    BY <1>3, <2>1, <2>2
<1>12. /\ worker' \in [Ids -> Worker] /\ op' \in [Ids -> Operation]
       /\ \A j \in Ids \ {i} : worker'[j] = worker[j] /\ op'[j] = op[j]
       /\ \/ worker'[i] = NoWorker /\ op'[i] = NoOperation
          \/ /\ Rec(i)' = pending /\ Kept(i)' = pending /\ op'[i] = AddOperation
             /\ worker'[i].phase = "connecting" /\ worker'[i].approval = "none"
             /\ ~worker'[i].cancelled
  <2>1. CASE UNCHANGED <<worker, op>>
    BY <2>1, <1>8, Parts DEF Tracked
  <2>2. CASE Rec(i)' = pending /\ Kept(i)' = pending /\ Spawn(i, NoEndpoint, AddOperation)
    BY <2>2, SpawnFacts, Operations
  <2>. QED
    BY <1>11, <2>1, <2>2
<1>13. TypeOK'
  BY <1>3, <1>7, <1>9, <1>11, <1>12 DEF TypeOK, WorkerTypeOK
<1>14. \A j \in Ids \ {i} : Rests(j)
  BY <1>3, <1>9, <1>11, <1>12, OthersRest
<1>15. /\ Rec(i)'.lifecycle \in {"absent", "pending"}
       /\ Kept(i)'.lifecycle \in {"absent", "pending"}
       /\ Rec(i)'.endpoint \in Reaches[i] \cup {NoEndpoint}
       /\ Kept(i)'.endpoint \in Reaches[i] \cup {NoEndpoint}
  BY <1>4, <1>8, <1>11
<1>16. RemoteOK(i)'
  <2>1. QueueOK(i, events[i], worker[i].phase)'
    BY <1>10, EmptyQueue
  <2>2. ~Admitted(events'[i], worker'[i])
    <3>1. CASE worker'[i] = NoWorker
      BY <3>1, <1>10, EmptyQueue, NoWorkerFacts DEF Admitted
    <3>2. CASE /\ worker'[i].phase = "connecting" /\ worker'[i].approval = "none"
               /\ ~worker'[i].cancelled
      BY <3>2, <1>10, FreshWorker
    <3>. QED
      BY <1>12, <3>1, <3>2
  <2>3. EndpointOK(i)'
    BY <1>15, <2>2 DEF EndpointOK
  <2>4. SlotOK(i)'
    <3>1. CASE worker'[i] = NoWorker /\ op'[i] = NoOperation
      BY <3>1, <1>10, Operations, NoWorkerFacts DEF SlotOK, Tracked
    <3>2. CASE /\ Rec(i)' = pending /\ op'[i] = AddOperation
               /\ worker'[i].phase = "connecting"
      BY <3>2, <1>4, <1>7, <1>9, <1>10, Operations DEF SlotOK, Tracked
    <3>. QED
      BY <1>12, <3>1, <3>2
  <2>5. ToldOK(i)'
    BY <1>9, <1>15 DEF ToldOK
  <2>6. TombstoneOK(i)'
    BY <1>10, <1>15 DEF TombstoneOK
  <2>7. ServedOK(i)'
    <3>1. CASE op'[i] = NoOperation
      BY <3>1, <1>15, Operations DEF ServedOK
    <3>2. CASE Rec(i)' = pending /\ worker'[i].phase = "connecting"
               /\ worker'[i].approval = "none" /\ ~worker'[i].cancelled
      BY <3>2, <1>4, <1>10, FreshWorker DEF ServedOK
    <3>. QED
      BY <1>12, <3>1, <3>2
  <2>. QED
    BY <2>1, <2>3, <2>4, <2>5, <2>6, <2>7 DEF RemoteOK
<1>17. DetachedOK' /\ TombstoneStep(i)
  BY <1>3, <1>7, <1>8, <1>11 DEF DetachedOK, TombstoneStep
<1>. QED
  BY <1>3, <1>7, <1>11, <1>13, <1>14, <1>16, <1>17, Assembles

-----------------------------------------------------------------------------
(* Steps that leave a remote's lifecycle as it is.                          *)

\* The events of i are as they were, or its first event has been handled.
Consumes(i) == events' = events \/ (events[i] # <<>> /\ Handled(i))

LEMMA Consumed ==
  ASSUME IInv, NEW i \in Ids, Consumes(i)
  PROVE /\ events' \in [Ids -> Seq(Event)] /\ \A j \in Ids \ {i} : events'[j] = events[j]
        /\ QueueOK(i, events'[i], worker[i].phase)
        /\ \A type : Has(events'[i], type) => Has(events[i], type)
        /\ OnlyStopped(events[i]) => OnlyStopped(events'[i])
        /\ events[i] = <<>> => events'[i] = <<>>
<1>1. QueueOK(i, events[i], worker[i].phase)
  BY Parts DEF RemoteOK
<1>2. CASE events' = events
  BY <1>1, <1>2, Parts
<1>3. CASE events[i] # <<>> /\ Handled(i)
  <2>1. events' = [events EXCEPT ![i] = Tail(@)] /\ events \in [Ids -> Seq(Event)]
    BY <1>3, Parts DEF Handled
  <2>2. events'[i] = Tail(events[i]) /\ \A j \in Ids \ {i} : events'[j] = events[j]
    BY <2>1
  <2>3. /\ Tail(events[i]) \in Seq(Event)
        /\ \A type : Has(Tail(events[i]), type) => Has(events[i], type)
        /\ QueueOK(i, Tail(events[i]), worker[i].phase)
        /\ OnlyStopped(events[i]) => OnlyStopped(Tail(events[i]))
    BY <1>1, <1>3, <2>1, Taken
  <2>4. events' \in [Ids -> Seq(Event)]
    BY <2>1, <2>3
  <2>. QED
    BY <1>3, <2>2, <2>3, <2>4
<1>. QED
  BY <1>2, <1>3 DEF Consumes

\* The head of a queue, which is not that of an empty slot.
LEMMA HandledFacts ==
  ASSUME IInv, NEW i \in Ids, NEW type, Handles(i, type), Handled(i)
  PROVE /\ running /\ Tracked(i) /\ Consumes(i)
        /\ Has(events[i], type) /\ Head(events[i]) \in Event
        /\ \A t : Has(events[i], t) => Has(events'[i], t) \/ t = type
        /\ type = "Stopped" => events'[i] = <<>> /\ worker[i].phase = "ended"
        /\ type = "PermanentFailure" =>
             OnlyStopped(events'[i]) /\ worker[i].phase \in {"ending", "ended"}
        /\ type = "Identity" => Head(events[i]).endpoint \in Reaches[i]
<1>1. /\ running /\ events[i] # <<>> /\ Head(events[i]).type = type
      /\ events' = [events EXCEPT ![i] = Tail(@)]
  BY DEF Handles, Serving, Handled
<1>2. /\ events \in [Ids -> Seq(Event)] /\ QueueOK(i, events[i], worker[i].phase)
      /\ ~Tracked(i) => events[i] = <<>>
  BY Parts DEF RemoteOK, SlotOK
<1>3. events'[i] = Tail(events[i]) /\ events[i] \in Seq(Event)
  BY <1>1, <1>2
<1>4. Consumes(i)
  BY <1>1 DEF Consumes
<1>. QED
  BY <1>1, <1>2, <1>3, <1>4, Taken

\* What a step of i that keeps its lifecycle, its type of operation and what the user
\* was told must show.
Steadily(i) ==
  /\ running /\ running' = running
  /\ \/ Tracked(i) /\ worker'[i].phase # "none"
     \/ worker'[i] = worker[i] /\ events'[i] = events[i] /\ op'[i] = op[i]
  /\ Has(events'[i], "Ready") => Has(events[i], "Ready")
  /\ cleaning'[i] = cleaning[i] /\ told'[i] = told[i]
  /\ op'[i].type = op[i].type /\ op'[i].requireReady = op[i].requireReady
  /\ op'[i].ready => op[i].ready \/ cleaning[i] # "tombstone"
  /\ Rec(i)'.lifecycle = Rec(i).lifecycle /\ Kept(i)' \in {Kept(i), Rec(i), Rec(i)'}
  /\ Rec(i)'.endpoint \in {Rec(i).endpoint} \cup Reaches[i]
  /\ Rec(i).endpoint # NoEndpoint => Rec(i)'.endpoint = Rec(i).endpoint
  /\ \/ Admitted(events'[i], worker'[i]) => Admitted(events[i], worker[i])
     \/ Rec(i)'.endpoint # NoEndpoint

LEMMA RemoteStays ==
  ASSUME NEW i \in Ids, RemoteOK(i), Steadily(i), QueueOK(i, events'[i], worker'[i].phase),
         faults' # 0 \/ ServedOK(i)'
  PROVE RemoteOK(i)'
<1>1. /\ Kept(i)'.lifecycle \in {Kept(i).lifecycle, Rec(i).lifecycle}
      /\ Kept(i)'.endpoint \in {Kept(i).endpoint, Rec(i).endpoint, Rec(i)'.endpoint}
  BY DEF Steadily
<1>2. EndpointOK(i)'
  BY <1>1 DEF RemoteOK, EndpointOK, Steadily
<1>3. SlotOK(i)'
  BY DEF RemoteOK, SlotOK, Steadily, Tracked
<1>4. ToldOK(i)'
  BY <1>1 DEF RemoteOK, ToldOK, Steadily
<1>5. TombstoneOK(i)'
  BY <1>1 DEF RemoteOK, TombstoneOK, Steadily
<1>. QED
  BY <1>2, <1>3, <1>4, <1>5 DEF RemoteOK

LEMMA ServedStays ==
  ASSUME NEW i \in Ids, ServedOK(i),
         op'[i].type = op[i].type, op'[i].due = 0 => op[i].due = 0,
         Rec(i)'.lifecycle = Rec(i).lifecycle, Rec(i)'.observed = Rec(i).observed,
         exiting => exiting', worker'[i].phase = worker[i].phase,
         OnlyStopped(events[i]) => OnlyStopped(events'[i]),
         ~exiting' /\ Steady(i) /\ Sane(events[i], worker[i]) => Sane(events'[i], worker'[i]),
         ~exiting' /\ Steady(i) /\ Hopeless(events[i], worker[i]) =>
           Hopeless(events'[i], worker'[i])
  PROVE ServedOK(i)'
BY DEF ServedOK, Steady

\* The record of i may be rewritten: what is saved keeps the store's rules.
LEMMA Rewritten ==
  ASSUME IInv, NEW i \in Ids, Rec(i).lifecycle # "absent",
         NEW lifecycle \in Lifecycles, NEW observed \in Observed,
         lifecycle = "active" => Rec(i).endpoint # NoEndpoint,
         (lifecycle = "removing") = (observed = "removing"),
         NEW next, next = Become(config, i, lifecycle, observed)
  PROVE /\ next \in Config /\ Valid(next)
        /\ next.remotes[i].lifecycle = lifecycle /\ next.remotes[i].observed = observed
        /\ next.remotes[i].endpoint = Rec(i).endpoint
        /\ \A j \in Ids \ {i} : next.remotes[j] = config.remotes[j]
<1>1. config \in Config /\ Valid(config) /\ Present(config, i)
  BY Parts DEF IInv, Rec, Present
<1>. QED
  BY <1>1, BecomeFacts, ValidBecome DEF Rec

\* The record of i may be deleted.
LEMMA Deleted ==
  ASSUME IInv, NEW i \in Ids, NEW gone, gone = WithRemote(config, i, NoRecord)
  PROVE /\ gone \in Config /\ Valid(gone)
        /\ gone.remotes[i].lifecycle = "absent" /\ gone.remotes[i].endpoint = NoEndpoint
        /\ \A j \in Ids \ {i} : gone.remotes[j] = config.remotes[j]
<1>1. config \in Config /\ Valid(config)
  BY Parts DEF IInv
<1>2. gone.remotes[i] = NoRecord
  BY <1>1, ValidGone
<1>3. gone.remotes[i].lifecycle = "absent" /\ gone.remotes[i].endpoint = NoEndpoint
  BY <1>2 DEF NoRecord
<1>. QED
  BY <1>1, <1>3, ValidGone

LEMMA Names ==
  /\ {"absent", "pending", "active", "removing"} \subseteq Lifecycles
  /\ {"connecting", "connected", "reconnecting", "error", "removing"} \subseteq Observed
BY DEF Lifecycles, Observed

LEMMA RetryKeeps == ASSUME IInv, NEW i \in Ids, Retry(i) PROVE Advances
<1>1. PICK next : next = Become(config, i, "active", "connecting")
  OBVIOUS
<1>2. /\ Accepting /\ CanRetry(i)
      /\ \/ \E o \in Outcomes(next) :
               /\ Commit(next, o) /\ faults' = faults + Charged(next, o)
               /\ IF o = "ok"
                  THEN /\ Spawn(i, config.remotes[i].endpoint, NoOperation)
                       /\ events' = [events EXCEPT ![i] = <<>>]
                       /\ detached' = IF Running(i) /\ ~worker[i].cancelled
                                      THEN detached \cup {i} ELSE detached
                  ELSE UNCHANGED <<worker, op, events, detached>>
         \/ SpawnFails(next) /\ UNCHANGED <<worker, op, events, detached>>
      /\ UNCHANGED <<cleaning, running, exiting, stopping, told, starts>>
  BY <1>1 DEF Retry
<1>3. /\ running /\ running' = running /\ exiting' = exiting /\ cleaning' = cleaning /\ told' = told
      /\ Rec(i).lifecycle = "active" /\ Rec(i).observed = "error" /\ Rec(i) \in Record
      /\ RemoteOK(i) /\ TypeOK /\ DetachedOK /\ Valid(config)
  BY <1>2, Parts DEF Accepting, Serving, CanRetry, Lifecycle, Observes, Rec, IInv
<1>4. Rec(i).endpoint # NoEndpoint /\ Rec(i).endpoint \in Endpoints \cup {NoEndpoint}
  BY <1>3, ValidRecord DEF Rec, Record
<1>5. /\ next \in Config /\ Valid(next)
      /\ next.remotes[i].lifecycle = "active" /\ next.remotes[i].observed = "connecting"
      /\ next.remotes[i].endpoint = Rec(i).endpoint
      /\ \A j \in Ids \ {i} : next.remotes[j] = config.remotes[j]
  BY <1>1, <1>3, <1>4, Rewritten, Names
<1>6. CASE UNCHANGED <<worker, op, events, detached>>
  <2>. DEFINE Settled ==
           /\ config' \in Config /\ disk' \in Config /\ Valid(config)' /\ Valid(disk)'
           /\ Rec(i)' \in {Rec(i), next.remotes[i]}
           /\ Kept(i)' \in {Kept(i), next.remotes[i], Rec(i)}
           /\ \A j \in Ids \ {i} : config'.remotes[j] = config.remotes[j]
           /\ \A j \in Ids \ {i} : disk'.remotes[j] \in {disk.remotes[j], config.remotes[j]}
           /\ faults' \in 0..MaxFaults /\ (faults' # 0 \/ faults = 0)
           /\ \/ faults' # 0
              \/ Rec(i)' = next.remotes[i] /\ Spawn(i, config.remotes[i].endpoint, NoOperation)
  <2>1. Settled
    <3>1. ASSUME NEW o \in Outcomes(next), Commit(next, o), faults' = faults + Charged(next, o),
                 o = "ok" => Spawn(i, config.remotes[i].endpoint, NoOperation)
          PROVE Settled
      BY <3>1, <1>5, Committed
    <3>2. CASE SpawnFails(next)
      <4>1. /\ config' = config /\ disk' \in Config /\ Valid(config)' /\ Valid(disk)'
            /\ Rec(i)' = Rec(i) /\ Kept(i)' \in {Rec(i), next.remotes[i]}
            /\ \A j \in Ids \ {i} : config'.remotes[j] = config.remotes[j]
            /\ \A j \in Ids \ {i} : disk'.remotes[j] \in {disk.remotes[j], config.remotes[j]}
            /\ faults' \in 0..MaxFaults /\ faults' # 0
        BY <3>2, <1>5, InVain
      <4>2. config \in Config
        BY Parts
      <4>. QED
        BY <4>1, <4>2
    <3>. QED
      BY <1>2, <3>1, <3>2
  <2>2. TypeOK'
    BY <1>2, <1>3, <1>6, <2>1 DEF TypeOK, WorkerTypeOK
  <2>3. \A j \in Ids \ {i} : Rests(j)
    BY <1>3, <1>6, <2>1 DEF Rests
  <2>4. /\ Rec(i)'.lifecycle = "active" /\ Kept(i)'.lifecycle \in {Kept(i).lifecycle, "active"}
        /\ Rec(i)'.endpoint = Rec(i).endpoint
        /\ Kept(i)'.endpoint \in {Kept(i).endpoint, Rec(i).endpoint}
    BY <1>3, <1>5, <2>1
  <2>5. QueueOK(i, events[i], worker[i].phase)' /\ EndpointOK(i)'
    BY <1>3, <1>6, <2>4 DEF RemoteOK, EndpointOK
  <2>6. SlotOK(i)'
    BY <1>3, <1>6, <2>4 DEF RemoteOK, SlotOK, Tracked
  <2>7. ToldOK(i)'
    BY <1>3, <2>4 DEF RemoteOK, ToldOK
  <2>8. TombstoneOK(i)'
    BY <1>3, <1>6, <2>4 DEF RemoteOK, TombstoneOK
  <2>9. (faults = 0 => ServedOK(i))'
    <3>1. CASE faults' # 0
      BY <3>1
    <3>2. CASE Rec(i)' = next.remotes[i] /\ Spawn(i, config.remotes[i].endpoint, NoOperation)
      <4>1. /\ op'[i] = NoOperation /\ worker'[i].phase = "connecting"
            /\ worker'[i].approval = "none" /\ ~worker'[i].cancelled
        BY <1>4, <3>2, SpawnFacts, Operations DEF Rec
      <4>2. Sane(events'[i], worker'[i])
        BY <4>1 DEF Sane
      <4>. QED
        BY <1>5, <3>2, <4>1, <4>2, Operations DEF ServedOK
    <3>. QED
      BY <2>1, <3>1, <3>2
  <2>10. RemoteOK(i)'
    BY <2>5, <2>6, <2>7, <2>8, <2>9 DEF RemoteOK
  <2>11. DetachedOK' /\ TombstoneStep(i)
    BY <1>3, <1>6, <2>1, <2>4 DEF DetachedOK, RemoteOK, TombstoneOK, TombstoneStep
  <2>. QED
    BY <1>2, <1>3, <2>1, <2>2, <2>3, <2>10, <2>11, Assembles
<1>7. CASE \E o \in Outcomes(next) :
             /\ Commit(next, o) /\ faults' = faults + Charged(next, o) /\ o = "ok"
             /\ Spawn(i, config.remotes[i].endpoint, NoOperation)
             /\ events' = [events EXCEPT ![i] = <<>>]
             /\ detached' = IF Running(i) /\ ~worker[i].cancelled
                            THEN detached \cup {i} ELSE detached
  <2>1. /\ config' \in Config /\ disk' \in Config /\ Valid(config)' /\ Valid(disk)'
        /\ Rec(i)' = next.remotes[i] /\ Kept(i)' = next.remotes[i]
        /\ \A j \in Ids \ {i} : config'.remotes[j] = config.remotes[j]
        /\ \A j \in Ids \ {i} : disk'.remotes[j] \in {disk.remotes[j], config.remotes[j]}
        /\ faults' \in 0..MaxFaults /\ (faults' # 0 \/ faults = 0)
    BY <1>5, <1>7, Committed
  <2>2. /\ worker' \in [Ids -> Worker] /\ op' \in [Ids -> Operation] /\ op'[i] = NoOperation
        /\ worker'[i].phase = "connecting" /\ worker'[i].approval = "none"
        /\ ~worker'[i].cancelled
        /\ \A j \in Ids \ {i} : worker'[j] = worker[j] /\ op'[j] = op[j]
    BY <1>4, <1>7, SpawnFacts, Operations DEF Rec
  <2>3. /\ events' \in [Ids -> Seq(Event)] /\ events'[i] = <<>>
        /\ \A j \in Ids \ {i} : events'[j] = events[j]
    <3>1. <<>> \in Seq(Event) /\ events \in [Ids -> Seq(Event)]
      BY Parts
    <3>. QED
      BY <1>7, <3>1
  <2>4. detached' \subseteq Ids
    BY <1>7, Parts
  <2>5. DetachedOK'
    <3> SUFFICES ASSUME faults' = 0 PROVE detached' = {}
      BY DEF DetachedOK
    <3>1. detached = {} /\ ServedOK(i)
      BY <1>3, <2>1 DEF DetachedOK, RemoteOK
    <3>2. ~Running(i)
      BY <1>3, <3>1 DEF ServedOK, Running
    <3>. QED
      BY <1>7, <3>1, <3>2
  <2>6. TypeOK'
    BY <1>2, <1>3, <2>1, <2>2, <2>3, <2>4 DEF TypeOK, WorkerTypeOK
  <2>7. \A j \in Ids \ {i} : Rests(j)
    BY <1>3, <2>1, <2>2, <2>3 DEF Rests
  <2>8. /\ Rec(i)'.lifecycle = "active" /\ Kept(i)'.lifecycle = "active"
        /\ Rec(i)'.endpoint = Rec(i).endpoint /\ Kept(i)'.endpoint = Rec(i).endpoint
        /\ Rec(i)'.observed = "connecting"
    BY <1>5, <2>1
  <2>9. QueueOK(i, events[i], worker[i].phase)' /\ EndpointOK(i)'
    BY <1>3, <2>2, <2>3, <2>8, FreshWorker, EmptyQueue DEF RemoteOK, EndpointOK
  <2>10. SlotOK(i)'
    BY <1>3, <2>2, <2>8, Operations DEF SlotOK, Tracked
  <2>11. ToldOK(i)'
    BY <1>3, <2>8 DEF RemoteOK, ToldOK
  <2>12. TombstoneOK(i)'
    BY <1>3, <2>3, <2>8, EmptyQueue DEF RemoteOK, TombstoneOK
  <2>13. ServedOK(i)'
    BY <2>2, <2>3, <2>8, FreshWorker, Operations DEF ServedOK
  <2>14. RemoteOK(i)' /\ TombstoneStep(i)
    BY <1>3, <2>8, <2>9, <2>10, <2>11, <2>12, <2>13 DEF RemoteOK, TombstoneOK, TombstoneStep
  <2>. QED
    BY <1>2, <1>3, <2>1, <2>5, <2>6, <2>7, <2>14, Assembles
<1>. QED
  BY <1>2, <1>6, <1>7

LEMMA RemoveAgainKeeps == ASSUME IInv, NEW i \in Ids, RemoveAgain(i) PROVE Advances
<1>1. /\ running /\ Rec(i).lifecycle = "removing" /\ op[i].type = "remove"
      /\ op' = [op EXCEPT ![i].waiting = TRUE] /\ told' = [told EXCEPT ![i] = "asked"]
      /\ UNCHANGED <<workerVars, running, config, disk, exiting, stopping, faults, starts>>
  BY DEF RemoveAgain, Accepting, Serving, Lifecycle, Rec
<1>2. UNCHANGED <<worker, events, detached, cleaning>>
  BY <1>1 DEF workerVars
<1>3. RemoteOK(i) /\ TypeOK /\ op[i] \in Operation /\ DetachedOK /\ Valid(config) /\ Valid(disk)
  BY Parts DEF IInv
<1>4. PICK new : new = [op[i] EXCEPT !.waiting = TRUE]
  OBVIOUS
<1>5. /\ new \in Operation /\ new.type = op[i].type /\ new.requireReady = op[i].requireReady
      /\ new.ready = op[i].ready
  BY <1>3, <1>4 DEF Operation
<1>6. op' = [op EXCEPT ![i] = new]
  BY <1>1, <1>4
<1>7. /\ op' \in [Ids -> Operation] /\ op'[i] = new /\ \A j \in Ids \ {i} : op'[j] = op[j]
  BY <1>5, <1>6, Parts
<1>8. /\ told' \in [Ids -> {"new", "adding", "added", "asked", "removed"}] /\ told'[i] = "asked"
      /\ \A j \in Ids \ {i} : told'[j] = told[j]
  BY <1>1, <1>3 DEF TypeOK
<1>9. TypeOK'
  BY <1>1, <1>2, <1>3, <1>7, <1>8 DEF TypeOK, WorkerTypeOK
<1>10. \A j \in Ids \ {i} : Rests(j)
  BY <1>1, <1>2, <1>7, <1>8 DEF Rests
<1>11. Rec(i)' = Rec(i) /\ Kept(i)' = Kept(i)
  BY <1>1 DEF Rec, Kept
<1>12. QueueOK(i, events[i], worker[i].phase)' /\ EndpointOK(i)'
  BY <1>2, <1>3, <1>11 DEF RemoteOK, EndpointOK
<1>13. SlotOK(i)'
  BY <1>1, <1>2, <1>3, <1>5, <1>7, <1>8, <1>11, Operations DEF RemoteOK, SlotOK, Tracked
<1>14. ToldOK(i)' /\ TombstoneOK(i)'
  BY <1>1, <1>2, <1>3, <1>8, <1>11 DEF RemoteOK, ToldOK, TombstoneOK
<1>15. ServedOK(i)'
  BY <1>1, <1>5, <1>7, <1>11 DEF ServedOK
<1>16. RemoteOK(i)'
  BY <1>12, <1>13, <1>14, <1>15 DEF RemoteOK
<1>17. Valid(config)' /\ Valid(disk)' /\ DetachedOK' /\ TombstoneStep(i)
  BY <1>1, <1>2, <1>3, <1>11 DEF Valid, Present, DetachedOK, TombstoneStep
<1>. QED
  BY <1>1, <1>9, <1>10, <1>16, <1>17, Assembles

\* remove and shutdown ask a worker to stop.
LEMMA CancelledFacts ==
  ASSUME NEW w \in Worker
  PROVE /\ Cancelled(w) \in Worker /\ Cancelled(w).phase = w.phase
        /\ Cancelled(w).approval = w.approval /\ Cancelled(w).cancelled
        /\ Forced(w) \in Worker /\ Forced(w).phase = w.phase
        /\ Forced(w).approval = w.approval /\ Forced(w).cancelled
BY DEF Cancelled, Forced, Worker

\* The removal the user asks for counts, if the tombstone was saved.
LEMMA AskedFacts ==
  ASSUME IInv, NEW i \in Ids, AskedToGo(i) \/ cleaning' = cleaning
  PROVE /\ cleaning' \in [Ids -> {"no", "tombstone", "claimed", "asked"}]
        /\ \A j \in Ids \ {i} : cleaning'[j] = cleaning[j]
        /\ cleaning'[i] = cleaning[i] \/ (cleaning[i] = "tombstone" /\ cleaning'[i] = "asked")
        /\ AskedToGo(i) => cleaning'[i] # "tombstone"
BY Parts DEF AskedToGo

LEMMA RemoveTrackedKeeps == ASSUME IInv, NEW i \in Ids, RemoveTracked(i) PROVE Advances
<1>1. PICK next : next = Become(config, i, "removing", "removing")
  OBVIOUS
<1>2. /\ running /\ Rec(i).lifecycle \in {"pending", "active"} /\ Tracked(i)
      /\ told' = [told EXCEPT ![i] = "asked"]
      /\ UNCHANGED <<events, detached, running, exiting, stopping, starts>>
  BY DEF RemoveTracked, Accepting, Serving, Lifecycle, Rec
<1>3. PICK o \in Outcomes(next) :
          /\ SaveCurrent(next, o) /\ faults' = faults + Charged(next, o)
          /\ IF o = "ok"
             THEN /\ op' = [op EXCEPT ![i] = RemoveOperation]
                  /\ worker' = [worker EXCEPT ![i] = Cancelled(@)]
                  /\ AskedToGo(i)
             ELSE UNCHANGED <<op, worker, cleaning>>
  BY <1>1 DEF RemoveTracked
<1>4. RemoteOK(i) /\ TypeOK /\ worker[i] \in Worker /\ DetachedOK
  BY Parts DEF IInv
<1>5. /\ next \in Config /\ Valid(next)
      /\ next.remotes[i].lifecycle = "removing" /\ next.remotes[i].observed = "removing"
      /\ next.remotes[i].endpoint = Rec(i).endpoint
      /\ \A j \in Ids \ {i} : next.remotes[j] = config.remotes[j]
  BY <1>1, <1>2, Rewritten, Names
<1>6. /\ config' \in Config /\ disk' \in Config /\ Valid(config)' /\ Valid(disk)'
      /\ Rec(i)' = next.remotes[i] /\ Kept(i)' \in {Kept(i), next.remotes[i]}
      /\ \A j \in Ids \ {i} : config'.remotes[j] = config.remotes[j]
      /\ \A j \in Ids \ {i} : disk'.remotes[j] \in {disk.remotes[j], config.remotes[j]}
      /\ faults' \in 0..MaxFaults /\ (faults' # 0 \/ faults = 0)
      /\ o # "ok" => faults' # 0
  BY <1>3, <1>5, Saved
<1>7. /\ told' \in [Ids -> {"new", "adding", "added", "asked", "removed"}] /\ told'[i] = "asked"
      /\ \A j \in Ids \ {i} : told'[j] = told[j]
  BY <1>2, <1>4 DEF TypeOK
<1>8. /\ worker' \in [Ids -> Worker] /\ op' \in [Ids -> Operation]
      /\ \A j \in Ids \ {i} : worker'[j] = worker[j] /\ op'[j] = op[j]
      /\ worker'[i].phase = worker[i].phase /\ worker'[i].approval = worker[i].approval
      /\ \/ o = "ok" /\ op'[i] = RemoveOperation
         \/ faults' # 0 /\ op'[i] = op[i]
  <2>1. CASE o = "ok"
    <3>1. PICK w : w = Cancelled(worker[i])
      OBVIOUS
    <3>2. /\ w \in Worker /\ w.phase = worker[i].phase /\ w.approval = worker[i].approval
      BY <1>4, <3>1, CancelledFacts
    <3>3. worker' = [worker EXCEPT ![i] = w] /\ op' = [op EXCEPT ![i] = RemoveOperation]
      BY <1>3, <2>1, <3>1
    <3>. QED
      BY <2>1, <3>2, <3>3, Parts, Operations
  <2>2. CASE o # "ok"
    BY <1>3, <1>6, <2>2, Parts
  <2>. QED
    BY <2>1, <2>2
<1>9. /\ cleaning' \in [Ids -> {"no", "tombstone", "claimed", "asked"}]
      /\ \A j \in Ids \ {i} : cleaning'[j] = cleaning[j]
      /\ cleaning'[i] = cleaning[i] \/ (cleaning[i] = "tombstone" /\ cleaning'[i] = "asked")
      /\ op'[i] = RemoveOperation => cleaning'[i] # "tombstone" \/ op'[i] = op[i]
  BY <1>3, <1>8, AskedFacts
<1>10. TypeOK'
  BY <1>2, <1>4, <1>6, <1>7, <1>8, <1>9 DEF TypeOK, WorkerTypeOK
<1>11. \A j \in Ids \ {i} : Rests(j)
  BY <1>2, <1>6, <1>7, <1>8, <1>9 DEF Rests
<1>12. /\ Rec(i)'.lifecycle = "removing" /\ Rec(i)'.endpoint = Rec(i).endpoint
       /\ Kept(i)'.endpoint \in {Kept(i).endpoint, Rec(i).endpoint}
  BY <1>5, <1>6
<1>13. QueueOK(i, events[i], worker[i].phase)' /\ EndpointOK(i)'
  BY <1>2, <1>4, <1>8, <1>12 DEF RemoteOK, EndpointOK, Admitted
<1>14. SlotOK(i)'
  <2>1. CASE op'[i] = RemoveOperation
    BY <1>2, <1>4, <1>7, <1>8, <1>12, <1>9, <2>1, Operations DEF RemoteOK, SlotOK, Tracked
  <2>2. CASE op'[i] = op[i]
    BY <1>2, <1>4, <1>7, <1>8, <1>12, <1>9, <2>2 DEF RemoteOK, SlotOK, Tracked
  <2>. QED
    BY <1>8, <2>1, <2>2
<1>15. ToldOK(i)'
  BY <1>2, <1>4, <1>7, <1>12 DEF RemoteOK, ToldOK
<1>16. TombstoneOK(i)'
  <2>1. Kept(i)'.lifecycle \in {Kept(i).lifecycle, "removing"}
    BY <1>5, <1>6
  <2>. QED
    BY <1>2, <1>4, <1>7, <1>12, <1>9, <2>1 DEF RemoteOK, TombstoneOK, Has
<1>17. (faults = 0 => ServedOK(i))'
  BY <1>8, <1>12, Operations DEF ServedOK
<1>18. RemoteOK(i)'
  BY <1>13, <1>14, <1>15, <1>17, <1>16 DEF RemoteOK
<1>19. DetachedOK' /\ TombstoneStep(i)
  BY <1>2, <1>4, <1>5, <1>6, <1>7 DEF DetachedOK, TombstoneStep
<1>. QED
  BY <1>2, <1>6, <1>10, <1>11, <1>18, <1>19, Assembles

LEMMA RemoveUntrackedKeeps == ASSUME IInv, NEW i \in Ids, RemoveUntracked(i) PROVE Advances
<1>1. PICK next : next = Become(config, i, "removing", "removing")
  OBVIOUS
<1>2. PICK gone : gone = WithRemote(config, i, NoRecord)
  OBVIOUS
<1>3. /\ running /\ Rec(i).lifecycle \in {"pending", "active"} /\ ~Tracked(i)
      /\ UNCHANGED <<worker, events, detached, running, op, exiting, stopping, starts>>
  BY DEF RemoveUntracked, Accepting, Serving, Lifecycle, Rec
<1>4. PICK o \in Outcomes(next), last \in Outcomes(gone) :
          IF o = "ok"
          THEN /\ config' = gone
               /\ disk' = Written(gone, last, next)
               /\ faults' = faults + Charged(gone, last)
               /\ told' = [told EXCEPT ![i] = IF last = "ok" THEN "removed" ELSE "asked"]
               /\ AskedToGo(i)
          ELSE /\ SaveCurrent(next, o)
               /\ faults' = faults + Charged(next, o)
               /\ told' = [told EXCEPT ![i] = "asked"]
               /\ cleaning' = cleaning
  BY <1>1, <1>2 DEF RemoveUntracked
<1>5. RemoteOK(i) /\ TypeOK /\ DetachedOK
  BY Parts DEF IInv
<1>6. /\ next \in Config /\ Valid(next)
      /\ next.remotes[i].lifecycle = "removing" /\ next.remotes[i].observed = "removing"
      /\ next.remotes[i].endpoint = Rec(i).endpoint
      /\ \A j \in Ids \ {i} : next.remotes[j] = config.remotes[j]
  BY <1>1, <1>3, Rewritten, Names
<1>7. /\ gone \in Config /\ Valid(gone)
      /\ gone.remotes[i].lifecycle = "absent" /\ gone.remotes[i].endpoint = NoEndpoint
      /\ \A j \in Ids \ {i} : gone.remotes[j] = config.remotes[j]
  BY <1>2, Deleted
<1>8. /\ UNCHANGED <<worker, events, detached>>
      /\ cleaning' \in [Ids -> {"no", "tombstone", "claimed", "asked"}]
      /\ \A j \in Ids \ {i} : cleaning'[j] = cleaning[j]
      /\ cleaning'[i] = cleaning[i] \/ (cleaning[i] = "tombstone" /\ cleaning'[i] = "asked")
      /\ o = "ok" => cleaning'[i] # "tombstone"
  BY <1>3, <1>4, AskedFacts
<1>9. /\ config' \in Config /\ disk' \in Config /\ Valid(config)' /\ Valid(disk)'
      /\ Rec(i)' \in {next.remotes[i], gone.remotes[i]}
      /\ Kept(i)' \in {Kept(i), next.remotes[i], gone.remotes[i]}
      /\ \A j \in Ids \ {i} : config'.remotes[j] = config.remotes[j]
      /\ \A j \in Ids \ {i} : disk'.remotes[j] \in {disk.remotes[j], config.remotes[j]}
      /\ faults' \in 0..MaxFaults /\ (faults' # 0 \/ faults = 0)
      /\ told' = [told EXCEPT ![i] = "asked"]
         \/ /\ told' = [told EXCEPT ![i] = "removed"]
            /\ Rec(i)' = gone.remotes[i] /\ Kept(i)' = gone.remotes[i]
      /\ Kept(i)' = Kept(i) =>
           Rec(i)' = next.remotes[i] \/ Kept(i)' \in {next.remotes[i], gone.remotes[i]}
  <2>1. CASE o # "ok"
    BY <1>4, <1>6, <2>1, Saved
  <2>2. CASE o = "ok"
    <3>1. /\ config' = gone /\ disk' = Written(gone, last, next)
          /\ faults' = faults + Charged(gone, last)
          /\ told' = [told EXCEPT ![i] = IF last = "ok" THEN "removed" ELSE "asked"]
      BY <1>4, <2>2
    <3>2. /\ Written(gone, last, next) \in {next, gone}
          /\ last = "ok" => Written(gone, last, next) = gone
      BY DEF Written
    <3>3. /\ faults + Charged(gone, last) \in 0..MaxFaults
          /\ last = "ok" => Charged(gone, last) = 0
          /\ last # "ok" => faults + Charged(gone, last) # 0
      BY <1>5, <1>7, SaveFacts
    <3>4. faults' \in 0..MaxFaults /\ (faults' # 0 \/ faults = 0)
      BY <1>5, <3>1, <3>3, DaemonAssumption DEF TypeOK
    <3>5. Valid(config)' /\ Valid(disk)'
      BY <1>6, <1>7, <3>1, <3>2 DEF Valid, Present
    <3>. QED
      BY <1>6, <1>7, <3>1, <3>2, <3>4, <3>5 DEF Rec, Kept
  <2>. QED
    BY <2>1, <2>2
<1>10. /\ told' \in [Ids -> {"new", "adding", "added", "asked", "removed"}]
       /\ \A j \in Ids \ {i} : told'[j] = told[j]
       /\ \/ told'[i] = "asked"
          \/ told'[i] = "removed" /\ Rec(i)'.lifecycle = "absent" /\ Kept(i)'.lifecycle = "absent"
  BY <1>5, <1>7, <1>9 DEF TypeOK
<1>11. TypeOK'
  BY <1>3, <1>5, <1>8, <1>9, <1>10 DEF TypeOK, WorkerTypeOK
<1>12. \A j \in Ids \ {i} : Rests(j)
  BY <1>3, <1>8, <1>9, <1>10 DEF Rests
<1>13. /\ Rec(i)'.lifecycle \in {"removing", "absent"}
       /\ Rec(i)'.endpoint \in {Rec(i).endpoint, NoEndpoint}
       /\ Kept(i)'.endpoint \in {Kept(i).endpoint, Rec(i).endpoint, NoEndpoint}
  BY <1>6, <1>7, <1>9
<1>14. worker[i] = NoWorker /\ op[i] = NoOperation /\ events[i] = <<>>
  BY <1>3, <1>5 DEF RemoteOK, SlotOK
<1>15. QueueOK(i, events[i], worker[i].phase)' /\ EndpointOK(i)'
  BY <1>5, <1>8, <1>13, <1>14, EmptyQueue, NoWorkerFacts DEF RemoteOK, EndpointOK, Admitted
<1>16. SlotOK(i)'
  BY <1>3, <1>8, <1>14, Operations, NoWorkerFacts DEF SlotOK, Tracked
<1>17. ToldOK(i)' /\ TombstoneOK(i)'
  <2>1. ToldOK(i)'
    BY <1>3, <1>5, <1>8, <1>10, <1>13 DEF RemoteOK, ToldOK
  <2>2. /\ Kept(i)'.lifecycle \in {Kept(i).lifecycle, "removing", "absent"}
        /\ o # "ok" => Rec(i)'.lifecycle = "removing"
        /\ o # "ok" => Kept(i)'.lifecycle \in {Kept(i).lifecycle, "removing"}
    BY <1>4, <1>6, <1>7, <1>9, Saved
  <2>3. TombstoneOK(i)'
    BY <1>3, <1>5, <1>8, <1>10, <1>13, <2>2 DEF RemoteOK, TombstoneOK, Has
  <2>. QED
    BY <2>1, <2>3
<1>18. ServedOK(i)'
  BY <1>3, <1>13, <1>14, Operations DEF ServedOK
<1>19. RemoteOK(i)'
  BY <1>15, <1>16, <1>17, <1>18 DEF RemoteOK
<1>20. DetachedOK' /\ TombstoneStep(i)
  BY <1>5, <1>6, <1>7, <1>8, <1>9, <1>10 DEF DetachedOK, TombstoneStep
<1>. QED
  BY <1>3, <1>9, <1>11, <1>12, <1>19, <1>20, Assembles

-----------------------------------------------------------------------------
(* Worker events and deadlines that keep the remote's lifecycle.           *)

\* A step that saves at most the record of i, and touches no slot but that of i.
Saves(i) ==
  /\ config' \in Config /\ disk' \in Config /\ Valid(config)' /\ Valid(disk)'
  /\ \A j \in Ids \ {i} : config'.remotes[j] = config.remotes[j]
  /\ \A j \in Ids \ {i} : disk'.remotes[j] \in {disk.remotes[j], config.remotes[j]}
  /\ faults' \in 0..MaxFaults /\ (faults' # 0 \/ faults = 0)

SlotMoves(i) ==
  /\ worker' \in [Ids -> Worker] /\ op' \in [Ids -> Operation]
  /\ \A j \in Ids \ {i} : worker'[j] = worker[j] /\ op'[j] = op[j]

LEMMA Unsaved ==
  ASSUME IInv, NEW i \in Ids, UNCHANGED <<config, disk, faults>>
  PROVE Saves(i) /\ Rec(i)' = Rec(i) /\ Kept(i)' = Kept(i)
<1>1. Valid(config)' /\ Valid(disk)'
  BY DEF IInv, Valid, Present
<1>. QED
  BY <1>1 DEF IInv, TypeOK, Saves, Rec, Kept

\* The configuration is saved as it is.
LEMMA Resaved ==
  ASSUME IInv, NEW i \in Ids, NEW o \in Outcomes(config), SaveCurrent(config, o),
         faults' = faults + Charged(config, o)
  PROVE Saves(i) /\ Rec(i)' = Rec(i) /\ Kept(i)' \in {Kept(i), Rec(i)}
<1>1. config \in Config /\ Valid(config)
  BY Parts DEF IInv
<1>. QED
  BY <1>1, Saved DEF Saves, Rec

LEMMA SlotFacts ==
  ASSUME IInv, NEW i \in Ids, NEW w \in Worker, NEW n \in Operation,
         worker' = [worker EXCEPT ![i] = w] \/ (worker' = worker /\ w = worker[i]),
         op' = [op EXCEPT ![i] = n] \/ (op' = op /\ n = op[i])
  PROVE SlotMoves(i) /\ worker'[i] = w /\ op'[i] = n
<1>1. worker \in [Ids -> Worker] /\ op \in [Ids -> Operation]
  BY Parts
<1>2. worker' \in [Ids -> Worker] /\ worker'[i] = w /\ \A j \in Ids \ {i} : worker'[j] = worker[j]
  BY <1>1
<1>3. op' \in [Ids -> Operation] /\ op'[i] = n /\ \A j \in Ids \ {i} : op'[j] = op[j]
  BY <1>1
<1>. QED
  BY <1>2, <1>3 DEF SlotMoves

LEMMA ApprovedFacts ==
  ASSUME NEW w \in Worker, NEW approval \in Approvals
  PROVE /\ Approved(w, approval) \in Worker /\ Approved(w, approval).phase = w.phase
        /\ w.phase # "ended" =>
             /\ Approved(w, approval).approval = approval
             /\ Approved(w, approval).cancelled = w.cancelled
        /\ w.phase = "ended" =>
             Approved(w, approval).approval = w.approval /\ Approved(w, approval).cancelled
<1>1. CASE w.phase = "ended"
  BY <1>1, CancelledFacts DEF Approved
<1>2. CASE w.phase # "ended"
  BY <1>2 DEF Approved, Worker
<1>. QED
  BY <1>1, <1>2

LEMMA RejectedFacts ==
  ASSUME NEW w \in Worker
  PROVE /\ Rejected(w) \in Worker /\ Rejected(w).phase = w.phase /\ Rejected(w).cancelled
        /\ w.phase # "ended" => Rejected(w).approval = "reject"
        /\ w.phase = "ended" => Rejected(w).approval = w.approval
<1>1. PICK v : v = Approved(w, "reject")
  OBVIOUS
<1>2. "reject" \in Approvals
  BY DEF Approvals
<1>3. /\ v \in Worker /\ v.phase = w.phase
      /\ w.phase # "ended" => v.approval = "reject"
      /\ w.phase = "ended" => v.approval = w.approval
  BY <1>1, <1>2, ApprovedFacts
<1>. QED
  BY <1>1, <1>3, CancelledFacts DEF Rejected

LEMMA FailPendingFacts ==
  ASSUME IInv, NEW i \in Ids, NEW w \in Worker, FailPending(i, w)
  PROVE /\ SlotMoves(i) /\ worker'[i] = Cancelled(w)
        /\ op'[i].type = op[i].type /\ op'[i].requireReady = op[i].requireReady
        /\ op'[i].ready = op[i].ready /\ op'[i].due = op[i].due
<1>1. PICK v : v = Cancelled(w)
  OBVIOUS
<1>2. v \in Worker
  BY <1>1, CancelledFacts
<1>3. PICK n : n = [op[i] EXCEPT !.failed = TRUE]
  OBVIOUS
<1>4. op[i] \in Operation
  BY Parts
<1>5. /\ n \in Operation /\ n.type = op[i].type /\ n.requireReady = op[i].requireReady
      /\ n.ready = op[i].ready /\ n.due = op[i].due
  BY <1>3, <1>4 DEF Operation
<1>6. worker' = [worker EXCEPT ![i] = v]
  BY <1>1 DEF FailPending
<1>7. op' = [op EXCEPT ![i] = n] \/ op' = op
  BY <1>3 DEF FailPending
<1>8. CASE op' = [op EXCEPT ![i] = n]
  BY <1>1, <1>2, <1>5, <1>6, <1>8, SlotFacts
<1>9. CASE op' = op
  BY <1>1, <1>2, <1>4, <1>6, <1>9, SlotFacts
<1>. QED
  BY <1>7, <1>8, <1>9

LEMMA HandlerKeeps ==
  ASSUME IInv, NEW i \in Ids, Consumes(i), Steadily(i), SlotMoves(i), Saves(i),
         UNCHANGED <<detached, cleaning, running, exiting, stopping, told, starts>>,
         QueueOK(i, events'[i], worker'[i].phase), faults' # 0 \/ ServedOK(i)'
  PROVE Advances
<1>1. RemoteOK(i) /\ TypeOK /\ DetachedOK /\ Rec(i) \in Record
  BY Parts DEF IInv
<1>2. RemoteOK(i)'
  BY <1>1, RemoteStays
<1>3. events' \in [Ids -> Seq(Event)] /\ \A j \in Ids \ {i} : events'[j] = events[j]
  BY Consumed
<1>4. TypeOK'
  BY <1>1, <1>3 DEF TypeOK, WorkerTypeOK, Saves, SlotMoves
<1>5. \A j \in Ids \ {i} : Rests(j)
  BY <1>3 DEF Rests, Saves, SlotMoves
<1>6. DetachedOK'
  BY <1>1 DEF DetachedOK, Saves
<1>7. Kept(i)'.lifecycle \in {Kept(i).lifecycle, Rec(i).lifecycle}
  BY DEF Steadily
<1>8. TombstoneStep(i)
  BY <1>1, <1>7 DEF TombstoneStep, RemoteOK, TombstoneOK
<1>. QED
  BY <1>2, <1>4, <1>5, <1>6, <1>8, Assembles DEF Steadily, Saves

\* A remote that is being removed is not served, whatever its worker does.
LEMMA RemovalServed ==
  ASSUME IInv, NEW i \in Ids, op[i].type = "remove", op'[i].type = "remove",
         Rec(i)'.lifecycle = Rec(i).lifecycle
  PROVE ServedOK(i)'
<1>1. Rec(i).lifecycle \in {"pending", "removing"}
  BY Parts DEF RemoteOK, SlotOK
<1>. QED
  BY <1>1 DEF ServedOK

\* Nor is one whose add is past its deadline.
LEMMA LateServed ==
  ASSUME IInv, NEW i \in Ids, op[i].type = "add", op'[i].type = "add", op'[i].due # 0,
         Rec(i)'.lifecycle = Rec(i).lifecycle, faults' # 0 \/ faults = 0
  PROVE faults' # 0 \/ ServedOK(i)'
<1>1. faults = 0 => Rec(i).lifecycle = "pending"
  BY Parts DEF RemoteOK, ServedOK
<1>. QED
  BY <1>1 DEF ServedOK

\* An event that changes nothing but the queue it was taken from.
LEMMA IgnoredKeeps ==
  ASSUME IInv, NEW i \in Ids, NEW type, Handles(i, type), type # "PermanentFailure", Handled(i),
         UNCHANGED <<worker, detached, cleaning, running, config, disk, op, exiting, stopping, told,
                     faults, starts>>
  PROVE Advances
<1>1. RemoteOK(i) /\ op[i] \in Operation /\ worker[i] \in Worker
  BY Parts
<1>2. /\ running /\ Tracked(i) /\ Consumes(i)
      /\ \A t : Has(events[i], t) => Has(events'[i], t) \/ t = type
  BY HandledFacts
<1>3. /\ QueueOK(i, events'[i], worker[i].phase)
      /\ \A t : Has(events'[i], t) => Has(events[i], t)
      /\ OnlyStopped(events[i]) => OnlyStopped(events'[i])
  BY <1>2, Consumed
<1>4. Saves(i) /\ Rec(i)' = Rec(i) /\ Kept(i)' = Kept(i)
  BY Unsaved
<1>5. SlotMoves(i)
  BY Parts DEF SlotMoves
<1>6. Steadily(i)
  BY <1>2, <1>3, <1>4 DEF Steadily, Tracked, Admitted
<1>7. faults = 0 => ServedOK(i)'
  BY <1>1, <1>2, <1>3, <1>4, ServedStays DEF RemoteOK, Sane, Hopeless
<1>. QED
  BY <1>2, <1>3, <1>4, <1>5, <1>6, <1>7, HandlerKeeps

LEMMA IdentityForCleanupKeeps == ASSUME IInv, NEW i \in Ids, IdentityForCleanup(i) PROVE Advances
<1>. DEFINE e == Head(events[i]).endpoint
<1>1. /\ Handles(i, "Identity") /\ op[i].type = "remove" /\ Handled(i)
      /\ UNCHANGED <<detached, cleaning, running, op, exiting, stopping, told, starts>>
      /\ \/ /\ e = config.remotes[i].endpoint
            /\ worker' = [worker EXCEPT ![i] = Approved(@, "proceed")]
            /\ UNCHANGED <<config, disk, faults>>
         \/ /\ worker' = [worker EXCEPT ![i] = Rejected(@)]
            /\ \E o \in Outcomes(config) :
                  SaveCurrent(config, o) /\ faults' = faults + Charged(config, o)
  BY DEF IdentityForCleanup, Cleanup
<1>2. /\ RemoteOK(i) /\ worker[i] \in Worker /\ op[i] \in Operation
  BY Parts
<1>3. /\ running /\ Tracked(i) /\ Consumes(i) /\ e \in Reaches[i]
  BY <1>1, HandledFacts
<1>4. /\ QueueOK(i, events'[i], worker[i].phase)
      /\ \A t : Has(events'[i], t) => Has(events[i], t)
  BY <1>3, Consumed
<1>5. Reaches[i] \subseteq Endpoints /\ NoEndpoint \notin Endpoints
  BY WorkerAssumption
<1>6. PICK w \in Worker :
        /\ worker' = [worker EXCEPT ![i] = w] /\ w.phase = worker[i].phase
        /\ \/ Rec(i).endpoint # NoEndpoint
           \/ w.approval \in {"reject", worker[i].approval}
  <2>1. CASE /\ e = config.remotes[i].endpoint
             /\ worker' = [worker EXCEPT ![i] = Approved(@, "proceed")]
    <3>1. PICK w : w = Approved(worker[i], "proceed")
      OBVIOUS
    <3>2. w \in Worker /\ w.phase = worker[i].phase
      BY <1>2, <3>1, ApprovedFacts DEF Approvals
    <3>. QED
      BY <1>3, <1>5, <2>1, <3>1, <3>2 DEF Rec
  <2>2. CASE worker' = [worker EXCEPT ![i] = Rejected(@)]
    <3>1. PICK w : w = Rejected(worker[i])
      OBVIOUS
    <3>2. w \in Worker /\ w.phase = worker[i].phase /\ w.approval \in {"reject", worker[i].approval}
      BY <1>2, <3>1, RejectedFacts
    <3>. QED
      BY <2>2, <3>1, <3>2
  <2>. QED
    BY <1>1, <2>1, <2>2
<1>7. SlotMoves(i) /\ worker'[i] = w /\ op'[i] = op[i]
  BY <1>1, <1>2, <1>6, SlotFacts
<1>8. Saves(i) /\ Rec(i)' = Rec(i) /\ Kept(i)' \in {Kept(i), Rec(i)}
  BY <1>1, Unsaved, Resaved
<1>9. Steadily(i)
  BY <1>1, <1>3, <1>4, <1>6, <1>7, <1>8 DEF Steadily, Tracked, Admitted
<1>10. ServedOK(i)'
  BY <1>1, <1>7, <1>8, RemovalServed
<1>. QED
  BY <1>1, <1>3, <1>4, <1>6, <1>7, <1>8, <1>9, <1>10, HandlerKeeps

LEMMA ReadyForCleanupKeeps == ASSUME IInv, NEW i \in Ids, ReadyForCleanup(i) PROVE Advances
<1>1. PICK n : n = [op[i] EXCEPT !.ready = @ \/ (~op[i].timedOut /\ op[i].due < 2)]
  OBVIOUS
<1>2. /\ Handles(i, "Ready") /\ op[i].type = "remove" /\ Handled(i)
      /\ op' = [op EXCEPT ![i] = n]
      /\ worker' = [worker EXCEPT ![i] = Cancelled(@)]
      /\ UNCHANGED <<detached, cleaning, running, config, disk, exiting, stopping, told, faults,
                     starts>>
  BY <1>1 DEF ReadyForCleanup, Cleanup
<1>3. /\ RemoteOK(i) /\ worker[i] \in Worker /\ op[i] \in Operation
  BY Parts
<1>4. n \in Operation /\ n.type = op[i].type /\ n.requireReady = op[i].requireReady
  BY <1>1, <1>3 DEF Operation
<1>5. /\ running /\ Tracked(i) /\ Consumes(i) /\ Has(events[i], "Ready")
  BY <1>2, HandledFacts
<1>6. /\ QueueOK(i, events'[i], worker[i].phase)
      /\ \A t : Has(events'[i], t) => Has(events[i], t)
  BY <1>5, Consumed
<1>7. cleaning[i] # "tombstone"
  BY <1>3, <1>5 DEF RemoteOK, TombstoneOK
<1>8. PICK w : w = Cancelled(worker[i])
  OBVIOUS
<1>9. w \in Worker /\ w.phase = worker[i].phase /\ w.approval = worker[i].approval
  BY <1>3, <1>8, CancelledFacts
<1>10. SlotMoves(i) /\ worker'[i] = w /\ op'[i] = n
  BY <1>2, <1>4, <1>8, <1>9, SlotFacts
<1>11. Saves(i) /\ Rec(i)' = Rec(i) /\ Kept(i)' = Kept(i)
  BY <1>2, Unsaved
<1>12. Steadily(i)
  BY <1>2, <1>4, <1>5, <1>6, <1>7, <1>9, <1>10, <1>11 DEF Steadily, Tracked, Admitted
<1>13. ServedOK(i)'
  BY <1>2, <1>4, <1>10, <1>11, RemovalServed
<1>. QED
  BY <1>2, <1>5, <1>6, <1>9, <1>10, <1>11, <1>12, <1>13, HandlerKeeps

LEMMA ReadyTooLateKeeps == ASSUME IInv, NEW i \in Ids, ReadyTooLate(i) PROVE Advances
<1>1. /\ Handles(i, "Ready") /\ op[i].type = "add" /\ op[i].due > 0 /\ Handled(i)
      /\ FailPending(i, worker[i])
      /\ UNCHANGED <<detached, cleaning, running, config, disk, exiting, stopping, told, faults,
                     starts>>
  BY DEF ReadyTooLate, Late
<1>2. /\ RemoteOK(i) /\ worker[i] \in Worker /\ op[i] \in Operation
  BY Parts
<1>3. running /\ Tracked(i) /\ Consumes(i)
  BY <1>1, HandledFacts
<1>4. /\ QueueOK(i, events'[i], worker[i].phase)
      /\ \A t : Has(events'[i], t) => Has(events[i], t)
  BY <1>3, Consumed
<1>5. /\ SlotMoves(i) /\ worker'[i] = Cancelled(worker[i])
      /\ op'[i].type = op[i].type /\ op'[i].requireReady = op[i].requireReady
      /\ op'[i].ready = op[i].ready /\ op'[i].due = op[i].due
  BY <1>1, <1>2, FailPendingFacts
<1>6. worker'[i].phase = worker[i].phase /\ worker'[i].approval = worker[i].approval
  BY <1>2, <1>5, CancelledFacts
<1>7. Saves(i) /\ Rec(i)' = Rec(i) /\ Kept(i)' = Kept(i)
  BY <1>1, Unsaved
<1>8. Steadily(i)
  BY <1>1, <1>3, <1>4, <1>5, <1>6, <1>7 DEF Steadily, Tracked, Admitted
<1>9. op'[i].due # 0
  BY <1>1, <1>5
<1>10. faults' # 0 \/ ServedOK(i)'
  BY <1>1, <1>5, <1>7, <1>9, LateServed DEF Saves
<1>. QED
  BY <1>1, <1>3, <1>4, <1>5, <1>6, <1>7, <1>8, <1>10, HandlerKeeps

LEMMA RetryingKeeps == ASSUME IInv, NEW i \in Ids, Retrying(i) PROVE Advances
<1>1. PICK next : next = Become(config, i, "active", "reconnecting")
  OBVIOUS
<1>2. /\ Handles(i, "Retrying") /\ Handled(i)
      /\ UNCHANGED <<worker, detached, cleaning, running, op, exiting, stopping, told, starts>>
      /\ IF Rec(i).lifecycle = "active"
         THEN \E o \in Outcomes(next) :
                 SaveCurrent(next, o) /\ faults' = faults + Charged(next, o)
         ELSE UNCHANGED <<config, disk, faults>>
  BY <1>1 DEF Retrying, Lifecycle, Rec
<1>3. CASE Rec(i).lifecycle # "active"
  BY <1>2, <1>3, IgnoredKeeps
<1>4. CASE Rec(i).lifecycle = "active"
  <2>1. /\ RemoteOK(i) /\ worker[i] \in Worker /\ op[i] \in Operation /\ Rec(i) \in Record
        /\ Valid(config)
    BY Parts DEF IInv
  <2>2. /\ running /\ Tracked(i) /\ Consumes(i) /\ Has(events[i], "Retrying")
        /\ \A t : Has(events[i], t) => Has(events'[i], t) \/ t = "Retrying"
    BY <1>2, HandledFacts
  <2>3. /\ QueueOK(i, events'[i], worker[i].phase)
        /\ \A t : Has(events'[i], t) => Has(events[i], t)
    BY <2>2, Consumed
  <2>4. Rec(i).endpoint # NoEndpoint
    BY <1>4, <2>1, ValidRecord DEF Rec
  <2>5. /\ next \in Config /\ Valid(next)
        /\ next.remotes[i].lifecycle = "active" /\ next.remotes[i].observed = "reconnecting"
        /\ next.remotes[i].endpoint = Rec(i).endpoint
        /\ \A j \in Ids \ {i} : next.remotes[j] = config.remotes[j]
    BY <1>1, <1>4, <2>4, Rewritten, Names
  <2>6. /\ Saves(i) /\ Rec(i)' = next.remotes[i] /\ Kept(i)' \in {Kept(i), Rec(i)'}
    <3>1. PICK o \in Outcomes(next) : SaveCurrent(next, o) /\ faults' = faults + Charged(next, o)
      BY <1>2, <1>4
    <3>. QED
      BY <2>5, <3>1, Saved DEF Saves
  <2>7. SlotMoves(i)
    BY <1>2, Parts DEF SlotMoves
  <2>8. Steadily(i)
    BY <1>2, <1>4, <2>2, <2>3, <2>5, <2>6 DEF Steadily, Tracked, Admitted
  <2>9. faults = 0 => ServedOK(i)'
    <3> SUFFICES ASSUME faults = 0 PROVE ServedOK(i)'
      OBVIOUS
    <3>1. ServedOK(i) /\ ~OnlyStopped(events[i])
      BY <2>1, <2>2, StoppedOnly DEF RemoteOK
    <3>2. op[i].type # "add" /\ (~exiting /\ Steady(i) => Sane(events[i], worker[i]))
      BY <1>4, <3>1 DEF ServedOK
    <3>3. Sane(events[i], worker[i]) => Sane(events'[i], worker'[i])
      BY <1>2, <2>2 DEF Sane
    <3>. QED
      BY <1>2, <2>5, <2>6, <3>2, <3>3 DEF ServedOK, Steady
  <2>. QED
    BY <1>2, <2>2, <2>3, <2>6, <2>7, <2>8, <2>9, HandlerKeeps DEF Saves
<1>. QED
  BY <1>3, <1>4

\* A steady remote whose endpoint is on record reaches no endpoint that another holds.
LEMMA SteadyIsNoDuplicate ==
  ASSUME IInv, NEW i \in Ids, Steady(i), Rec(i).lifecycle # "absent", Rec(i).endpoint # NoEndpoint,
         NEW e \in Reaches[i]
  PROVE ~Duplicate(i, e)
<1> SUFFICES ASSUME NEW j \in Ids \ {i}, Present(config, j), config.remotes[j].endpoint = e
             PROVE FALSE
  BY DEF Duplicate
<1>1. /\ Valid(config) /\ Present(config, i)
      /\ Rec(i).endpoint \in Reaches[i] \cup {NoEndpoint}
      /\ Rec(j).endpoint \in Reaches[j] \cup {NoEndpoint}
  BY DEF IInv, RemoteOK, EndpointOK, Rec, Present
<1>2. e # NoEndpoint
  BY WorkerAssumption
<1>3. CASE \E x \in Endpoints : Reaches[i] = {x}
  BY <1>1, <1>3, ValidElsewhere DEF Rec
<1>4. CASE \A k \in Ids \ {i} : Reaches[i] \cap Reaches[k] = {}
  BY <1>1, <1>2, <1>4 DEF Rec
<1>. QED
  BY <1>3, <1>4 DEF Steady

LEMMA IdentityDuplicateKeeps == ASSUME IInv, NEW i \in Ids, IdentityDuplicate(i) PROVE Advances
<1>. DEFINE e == Head(events[i]).endpoint
<1>1. /\ Handles(i, "Identity") /\ Rec(i).lifecycle \in {"pending", "active"}
      /\ CanApprove(worker[i]) /\ Duplicate(i, e) /\ Handled(i)
      /\ FailPending(i, Rejected(worker[i]))
      /\ UNCHANGED <<detached, cleaning, running, config, disk, exiting, stopping, told, faults,
                     starts>>
  BY DEF IdentityDuplicate, Enrolling, Lifecycle, Rec
<1>2. /\ RemoteOK(i) /\ worker[i] \in Worker /\ op[i] \in Operation
  BY Parts
<1>3. running /\ Tracked(i) /\ Consumes(i) /\ e \in Reaches[i] /\ Has(events[i], "Identity")
  BY <1>1, HandledFacts
<1>4. /\ QueueOK(i, events'[i], worker[i].phase)
      /\ \A t : Has(events'[i], t) => Has(events[i], t)
  BY <1>3, Consumed
<1>5. PICK w : w = Rejected(worker[i])
  OBVIOUS
<1>6. /\ w \in Worker /\ w.phase = worker[i].phase /\ w.cancelled
      /\ w.phase # "ended" => w.approval = "reject"
      /\ w.phase = "ended" => w.approval = worker[i].approval
  BY <1>2, <1>5, RejectedFacts
<1>7. /\ SlotMoves(i) /\ worker'[i] = Cancelled(w)
      /\ op'[i].type = op[i].type /\ op'[i].requireReady = op[i].requireReady
      /\ op'[i].ready = op[i].ready /\ op'[i].due = op[i].due
  BY <1>1, <1>5, <1>6, FailPendingFacts
<1>8. /\ worker'[i].phase = worker[i].phase /\ worker'[i].approval = w.approval
      /\ worker'[i].cancelled
  BY <1>6, <1>7, CancelledFacts
<1>9. Saves(i) /\ Rec(i)' = Rec(i) /\ Kept(i)' = Kept(i)
  BY <1>1, Unsaved
<1>10. Steadily(i)
  BY <1>1, <1>3, <1>4, <1>6, <1>7, <1>8, <1>9 DEF Steadily, Tracked, Admitted
<1>11. faults = 0 => ServedOK(i)'
  <2> SUFFICES ASSUME faults = 0 PROVE ServedOK(i)'
    OBVIOUS
  <2>1. ServedOK(i) /\ ~OnlyStopped(events[i])
    BY <1>2, <1>3, StoppedOnly DEF RemoteOK
  <2>2. Rec(i).lifecycle = "active" => Rec(i).observed # "error" /\ op[i].type # "add"
    BY <2>1 DEF ServedOK
  <2>3. Rec(i).endpoint # NoEndpoint => ~Steady(i)
    BY <1>1, <1>3, SteadyIsNoDuplicate
  <2>4. Rec(i).lifecycle = "active" => ~Steady(i)
    <3>1. Valid(config)
      BY DEF IInv
    <3>. QED
      BY <2>3, <3>1, ValidRecord DEF Rec
  <2>5. Steady(i) => Hopeless(events'[i], worker'[i])
    <3> SUFFICES ASSUME Steady(i) PROVE Hopeless(events'[i], worker'[i])
      OBVIOUS
    <3>1. ~Admitted(events[i], worker[i])
      BY <1>2, <2>3 DEF RemoteOK, EndpointOK
    <3>2. worker[i].phase \in {"connecting", "awaiting", "ending", "ended"}
      BY <1>2, <1>3, <3>1 DEF Worker, Phases, Admitted, Tracked
    <3>3. ~Has(events'[i], "Ready")
      BY <1>4, <3>1 DEF Admitted
    <3>. QED
      BY <1>6, <1>8, <3>2, <3>3 DEF Hopeless
  <2>. QED
    BY <1>1, <1>7, <1>9, <2>1, <2>2, <2>4, <2>5 DEF ServedOK, Steady
<1>. QED
  BY <1>1, <1>3, <1>4, <1>7, <1>8, <1>9, <1>10, <1>11, HandlerKeeps

\* The endpoint of a first identity goes on record.
LEMMA IdentifiedFacts ==
  ASSUME IInv, NEW i \in Ids, Rec(i).lifecycle # "absent", NEW e \in Reaches[i], ~Duplicate(i, e),
         NEW next, next = Identified(i, e)
  PROVE /\ next \in Config /\ Valid(next)
        /\ next.remotes[i].lifecycle = Rec(i).lifecycle
        /\ next.remotes[i].observed = Rec(i).observed
        /\ next.remotes[i].endpoint =
             IF Rec(i).endpoint = NoEndpoint THEN e ELSE Rec(i).endpoint
        /\ next.remotes[i].endpoint # NoEndpoint
        /\ \A j \in Ids \ {i} : next.remotes[j] = config.remotes[j]
<1>1. /\ config \in Config /\ Valid(config) /\ Rec(i) \in Record
      /\ Reaches[i] \subseteq Endpoints /\ NoEndpoint \notin Endpoints
  BY Parts, WorkerAssumption DEF IInv
<1>2. CASE Rec(i).endpoint # NoEndpoint
  BY <1>1, <1>2 DEF Identified, Rec
<1>3. CASE Rec(i).endpoint = NoEndpoint
  <2>1. PICK r : r = [Rec(i) EXCEPT !.endpoint = e]
    OBVIOUS
  <2>2. /\ r \in Record /\ r.lifecycle = Rec(i).lifecycle /\ r.observed = Rec(i).observed
        /\ r.endpoint = e
    BY <1>1, <2>1 DEF Record
  <2>3. next = [config EXCEPT !.remotes = [config.remotes EXCEPT ![i] = r]]
    BY <1>3, <2>1 DEF Identified, Rec
  <2>4. /\ next \in Config /\ next.remotes[i] = r
        /\ \A j \in Ids \ {i} : next.remotes[j] = config.remotes[j]
    BY <1>1, <2>2, <2>3 DEF Config
  <2>5. \A j \in Ids \ {i} : Present(config, j) => config.remotes[j].endpoint # e
    BY DEF Duplicate
  <2>6. /\ r.lifecycle = "active" => r.endpoint # NoEndpoint
        /\ (r.lifecycle = "removing") = (r.observed = "removing")
    BY <1>1, <2>2, ValidRecord DEF Rec
  <2>7. Valid(next)
    BY <1>1, <2>2, <2>4, <2>5, <2>6, ValidPut
  <2>. QED
    BY <1>1, <1>3, <2>2, <2>4, <2>7
<1>. QED
  BY <1>2, <1>3

LEMMA IdentityNewKeeps == ASSUME IInv, NEW i \in Ids, IdentityNew(i) PROVE Advances
<1>. DEFINE e == Head(events[i]).endpoint
<1>1. PICK next : next = Identified(i, e)
  OBVIOUS
<1>2. /\ Handles(i, "Identity") /\ Rec(i).lifecycle \in {"pending", "active"}
      /\ CanApprove(worker[i]) /\ ~Duplicate(i, e) /\ Handled(i)
      /\ UNCHANGED <<detached, cleaning, running, exiting, stopping, told, starts>>
  BY DEF IdentityNew, Enrolling, Lifecycle, Rec
<1>3. PICK o \in Outcomes(next) :
        /\ SaveCurrent(next, o) /\ faults' = faults + Charged(next, o)
        /\ IF o = "ok"
           THEN worker' = [worker EXCEPT ![i] = Approved(@, "proceed")] /\ UNCHANGED op
           ELSE FailPending(i, Rejected(worker[i]))
  BY <1>1 DEF IdentityNew
<1>4. /\ RemoteOK(i) /\ worker[i] \in Worker /\ op[i] \in Operation
  BY Parts
<1>5. /\ running /\ Tracked(i) /\ Consumes(i) /\ e \in Reaches[i]
      /\ \A t : Has(events[i], t) => Has(events'[i], t) \/ t = "Identity"
  BY <1>2, HandledFacts
<1>6. /\ QueueOK(i, events'[i], worker[i].phase)
      /\ \A t : Has(events'[i], t) => Has(events[i], t)
      /\ OnlyStopped(events[i]) => OnlyStopped(events'[i])
  BY <1>5, Consumed
<1>7. /\ next \in Config /\ Valid(next)
      /\ next.remotes[i].lifecycle = Rec(i).lifecycle
      /\ next.remotes[i].observed = Rec(i).observed
      /\ next.remotes[i].endpoint = IF Rec(i).endpoint = NoEndpoint THEN e ELSE Rec(i).endpoint
      /\ next.remotes[i].endpoint # NoEndpoint
      /\ \A j \in Ids \ {i} : next.remotes[j] = config.remotes[j]
  BY <1>1, <1>2, <1>5, IdentifiedFacts
<1>8. /\ Saves(i) /\ Rec(i)' = next.remotes[i] /\ Kept(i)' \in {Kept(i), Rec(i)'}
      /\ o # "ok" => faults' # 0
  BY <1>3, <1>7, Saved DEF Saves
<1>9. CASE o = "ok"
  <2>1. PICK w : w = Approved(worker[i], "proceed")
    OBVIOUS
  <2>2. /\ w \in Worker /\ w.phase = worker[i].phase
        /\ w.phase # "ended" => w.approval = "proceed" /\ w.cancelled = worker[i].cancelled
        /\ w.phase = "ended" => w.approval = worker[i].approval /\ w.cancelled
    BY <1>4, <2>1, ApprovedFacts DEF Approvals
  <2>3. worker' = [worker EXCEPT ![i] = w] /\ op' = op
    BY <1>3, <1>9, <2>1
  <2>4. SlotMoves(i) /\ worker'[i] = w /\ op'[i] = op[i]
    BY <1>4, <2>2, <2>3, SlotFacts
  <2>5. Steadily(i)
    BY <1>2, <1>5, <1>6, <1>7, <1>8, <2>2, <2>4 DEF Steadily, Tracked
  <2>6. Sane(events[i], worker[i]) => Sane(events'[i], worker'[i])
    BY <1>5, <2>2, <2>4 DEF Sane
  <2>7. Hopeless(events[i], worker[i]) => Hopeless(events'[i], worker'[i])
    BY <1>2, <1>6, <2>2, <2>4 DEF Hopeless, CanApprove
  <2>8. faults = 0 => ServedOK(i)'
    BY <1>2, <1>4, <1>6, <1>7, <1>8, <2>2, <2>4, <2>6, <2>7, ServedStays DEF RemoteOK
  <2>. QED
    BY <1>2, <1>5, <1>6, <1>8, <2>2, <2>4, <2>5, <2>8, HandlerKeeps DEF Saves
<1>10. CASE o # "ok"
  <2>1. PICK w : w = Rejected(worker[i])
    OBVIOUS
  <2>2. w \in Worker /\ w.phase = worker[i].phase
    BY <1>4, <2>1, RejectedFacts
  <2>3. /\ SlotMoves(i) /\ worker'[i] = Cancelled(w)
        /\ op'[i].type = op[i].type /\ op'[i].requireReady = op[i].requireReady
        /\ op'[i].ready = op[i].ready /\ op'[i].due = op[i].due
    BY <1>3, <1>10, <2>1, <2>2, FailPendingFacts
  <2>4. worker'[i].phase = worker[i].phase
    BY <2>2, <2>3, CancelledFacts
  <2>5. Steadily(i)
    BY <1>2, <1>5, <1>6, <1>7, <1>8, <2>3, <2>4 DEF Steadily, Tracked
  <2>. QED
    BY <1>2, <1>5, <1>6, <1>8, <1>10, <2>3, <2>4, <2>5, HandlerKeeps
<1>. QED
  BY <1>9, <1>10

LEMMA PermanentFailureKeeps == ASSUME IInv, NEW i \in Ids, PermanentFailure(i) PROVE Advances
<1>1. PICK next : next = Become(config, i, "active", "error")
  OBVIOUS
<1>2. /\ Handles(i, "PermanentFailure") /\ Handled(i)
      /\ UNCHANGED <<detached, cleaning, running, exiting, stopping, told, starts>>
      /\ CASE Rec(i).lifecycle = "pending" ->
                FailPending(i, worker[i]) /\ UNCHANGED <<config, disk, faults>>
           [] Rec(i).lifecycle = "active" ->
                /\ \E o \in Outcomes(next) :
                      SaveCurrent(next, o) /\ faults' = faults + Charged(next, o)
                /\ UNCHANGED <<worker, op>>
           [] OTHER -> UNCHANGED <<worker, op, config, disk, faults>>
  BY <1>1 DEF PermanentFailure, Lifecycle, Rec
<1>3. /\ RemoteOK(i) /\ worker[i] \in Worker /\ op[i] \in Operation /\ Valid(config)
  BY Parts DEF IInv
<1>4. /\ running /\ Tracked(i) /\ Consumes(i)
      /\ OnlyStopped(events'[i]) /\ worker[i].phase \in {"ending", "ended"}
  BY <1>2, HandledFacts
<1>5. /\ QueueOK(i, events'[i], worker[i].phase)
      /\ \A t : Has(events'[i], t) => Has(events[i], t)
  BY <1>4, Consumed
<1>6. CASE Rec(i).lifecycle = "pending"
  <2>1. FailPending(i, worker[i]) /\ UNCHANGED <<config, disk, faults>>
    BY <1>2, <1>6
  <2>2. /\ SlotMoves(i) /\ worker'[i] = Cancelled(worker[i])
        /\ op'[i].type = op[i].type /\ op'[i].requireReady = op[i].requireReady
        /\ op'[i].ready = op[i].ready /\ op'[i].due = op[i].due
    BY <1>3, <2>1, FailPendingFacts
  <2>3. /\ worker'[i].phase = worker[i].phase /\ worker'[i].approval = worker[i].approval
        /\ worker'[i].cancelled
    BY <1>3, <2>2, CancelledFacts
  <2>4. Saves(i) /\ Rec(i)' = Rec(i) /\ Kept(i)' = Kept(i)
    BY <2>1, Unsaved
  <2>5. Steadily(i)
    BY <1>2, <1>4, <1>5, <2>2, <2>3, <2>4 DEF Steadily, Tracked, Admitted
  <2>6. Hopeless(events'[i], worker'[i])
    BY <1>4, <2>3, StoppedOnly DEF Hopeless
  <2>7. ServedOK(i)'
    BY <1>6, <2>4, <2>6 DEF ServedOK
  <2>. QED
    BY <1>2, <1>4, <1>5, <2>2, <2>3, <2>4, <2>5, <2>7, HandlerKeeps
<1>7. CASE Rec(i).lifecycle = "active"
  <2>1. PICK o \in Outcomes(next) : SaveCurrent(next, o) /\ faults' = faults + Charged(next, o)
    BY <1>2, <1>7
  <2>2. worker' = worker /\ op' = op
    BY <1>2, <1>7
  <2>3. Rec(i).endpoint # NoEndpoint
    BY <1>3, <1>7, ValidRecord DEF Rec
  <2>4. /\ next \in Config /\ Valid(next)
        /\ next.remotes[i].lifecycle = "active" /\ next.remotes[i].observed = "error"
        /\ next.remotes[i].endpoint = Rec(i).endpoint
        /\ \A j \in Ids \ {i} : next.remotes[j] = config.remotes[j]
    BY <1>1, <1>7, <2>3, Rewritten, Names
  <2>5. /\ Saves(i) /\ Rec(i)' = next.remotes[i] /\ Kept(i)' \in {Kept(i), Rec(i)'}
    BY <2>1, <2>4, Saved DEF Saves
  <2>6. SlotMoves(i)
    BY <2>2, Parts DEF SlotMoves
  <2>7. Steadily(i)
    BY <1>2, <1>4, <1>5, <1>7, <2>2, <2>4, <2>5 DEF Steadily, Tracked, Admitted
  <2>8. faults = 0 => ServedOK(i)'
    <3> SUFFICES ASSUME faults = 0 PROVE ServedOK(i)'
      OBVIOUS
    <3>1. op[i].type # "add"
      BY <1>3, <1>7 DEF RemoteOK, ServedOK
    <3>. QED
      BY <1>4, <2>2, <2>4, <2>5, <3>1 DEF ServedOK
  <2>. QED
    BY <1>2, <1>4, <1>5, <2>2, <2>5, <2>6, <2>7, <2>8, HandlerKeeps DEF Saves
<1>8. CASE Rec(i).lifecycle \notin {"pending", "active"}
  <2>1. worker' = worker /\ op' = op /\ UNCHANGED <<config, disk, faults>>
    BY <1>2, <1>8
  <2>2. Saves(i) /\ Rec(i)' = Rec(i) /\ Kept(i)' = Kept(i)
    BY <2>1, Unsaved
  <2>3. SlotMoves(i)
    BY <2>1, Parts DEF SlotMoves
  <2>4. Steadily(i)
    BY <1>2, <1>4, <1>5, <2>1, <2>2 DEF Steadily, Tracked, Admitted
  <2>5. faults = 0 => ServedOK(i)'
    BY <1>3, <1>8, <2>1, <2>2 DEF RemoteOK, ServedOK
  <2>. QED
    BY <1>2, <1>4, <1>5, <2>1, <2>2, <2>3, <2>4, <2>5, HandlerKeeps
<1>. QED
  BY <1>6, <1>7, <1>8

-----------------------------------------------------------------------------
(* Deadlines.                                                              *)

\* What a deadline does to one remote: its operation goes on, its worker is asked or made
\* to stop, and the configuration may be saved again.
LEMMA DeadlineKeeps ==
  ASSUME IInv, NEW i \in Ids, running,
         UNCHANGED <<events, detached, cleaning, running, exiting, stopping, told, starts>>,
         NEW n \in Operation, n.type = op[i].type, n.requireReady = op[i].requireReady,
         n.ready = op[i].ready, n.due # 0 \/ op[i].type = "remove", op[i].type # "none",
         op' = [op EXCEPT ![i] = n] \/ (op' = op /\ n = op[i]),
         NEW w \in Worker, w \in {worker[i], Cancelled(worker[i]), Forced(worker[i])},
         worker' = [worker EXCEPT ![i] = w] \/ (worker' = worker /\ w = worker[i]),
         \/ UNCHANGED <<config, disk, faults>>
         \/ \E o \in Outcomes(config) :
              SaveCurrent(config, o) /\ faults' = faults + Charged(config, o)
  PROVE Advances
<1>1. RemoteOK(i) /\ worker[i] \in Worker /\ op[i] \in Operation
  BY Parts
<1>2. SlotMoves(i) /\ worker'[i] = w /\ op'[i] = n
  BY SlotFacts
<1>3. w.phase = worker[i].phase /\ w.approval = worker[i].approval
  BY <1>1, CancelledFacts
<1>4. Saves(i) /\ Rec(i)' = Rec(i) /\ Kept(i)' \in {Kept(i), Rec(i)}
  BY Unsaved, Resaved
<1>5. Tracked(i)
  BY <1>1, Operations DEF RemoteOK, SlotOK
<1>6. QueueOK(i, events'[i], worker'[i].phase) /\ Consumes(i)
  BY <1>1, <1>2, <1>3 DEF RemoteOK, Consumes
<1>7. Steadily(i)
  BY <1>2, <1>3, <1>4, <1>5 DEF Steadily, Tracked, Admitted
<1>8. faults' # 0 \/ ServedOK(i)'
  <2>1. CASE op[i].type = "remove"
    BY <1>2, <1>4, <2>1, RemovalServed
  <2>2. CASE op[i].type = "add"
    BY <1>2, <1>4, <2>2, LateServed DEF Saves
  <2>. QED
    BY <1>1, <2>1, <2>2 DEF Operation
<1>. QED
  BY <1>2, <1>4, <1>6, <1>7, <1>8, HandlerKeeps

LEMMA OperationDueKeeps == ASSUME IInv, NEW i \in Ids, OperationDue(i) PROVE Advances
<1>1. op[i] \in Operation /\ worker[i] \in Worker
  BY Parts
<1>2. running /\ UNCHANGED <<worker, events, detached, cleaning, running, config, disk, exiting,
                             stopping, told, faults, starts>>
  BY DEF OperationDue, Serving, workerVars
<1>3. PICK n \in Operation :
        /\ n.type = op[i].type /\ n.requireReady = op[i].requireReady /\ n.ready = op[i].ready
        /\ n.due # 0 \/ op[i].type = "remove"
        /\ op[i].type # "none" /\ op' = [op EXCEPT ![i] = n]
  <2>1. CASE /\ op[i].type = "add" /\ (op[i].due = 0 \/ op[i].due = 1)
             /\ op' = [op EXCEPT ![i].due = @ + 1]
    <3>1. PICK n : n = [op[i] EXCEPT !.due = @ + 1]
      OBVIOUS
    <3>2. op[i].due + 1 \in 0..2 /\ op[i].due + 1 # 0
      BY <2>1
    <3>3. /\ n \in Operation /\ n.type = op[i].type /\ n.requireReady = op[i].requireReady
          /\ n.ready = op[i].ready /\ n.due # 0
      BY <1>1, <3>1, <3>2 DEF Operation
    <3>. QED
      BY <2>1, <3>1, <3>3
  <2>2. CASE /\ op[i].type = "remove" /\ op[i].due < 2
             /\ op' = [op EXCEPT ![i].due = IF op[i].requireReady THEN 2 ELSE @ + 1]
    <3>1. PICK d : d = IF op[i].requireReady THEN 2 ELSE op[i].due + 1
      OBVIOUS
    <3>2. d \in 0..2
      BY <1>1, <2>2, <3>1 DEF Operation
    <3>3. PICK n : n = [op[i] EXCEPT !.due = d]
      OBVIOUS
    <3>4. /\ n \in Operation /\ n.type = op[i].type /\ n.requireReady = op[i].requireReady
          /\ n.ready = op[i].ready
      BY <1>1, <3>2, <3>3 DEF Operation
    <3>. QED
      BY <2>2, <3>1, <3>3, <3>4
  <2>. QED
    BY <2>1, <2>2 DEF OperationDue
<1>. QED
  BY <1>1, <1>2, <1>3, DeadlineKeeps

LEMMA AddExpiresKeeps == ASSUME IInv, NEW i \in Ids, AddExpires(i) PROVE Advances
<1>1. op[i] \in Operation /\ worker[i] \in Worker
  BY Parts
<1>2. PICK n : n = [op[i] EXCEPT !.failed = TRUE, !.waiting = FALSE, !.cleanup = TRUE]
  OBVIOUS
<1>3. PICK w : w = Cancelled(worker[i])
  OBVIOUS
<1>4. /\ running /\ op[i].type = "add" /\ op[i].due > 0
      /\ op' = [op EXCEPT ![i] = n] /\ worker' = [worker EXCEPT ![i] = w]
      /\ UNCHANGED <<events, detached, cleaning, running, config, disk, exiting, stopping, told,
                     faults, starts>>
  BY <1>2, <1>3 DEF AddExpires, Serving
<1>5. /\ n \in Operation /\ n.type = op[i].type /\ n.requireReady = op[i].requireReady
      /\ n.ready = op[i].ready
  BY <1>1, <1>2 DEF Operation
<1>6. n.due # 0 /\ op[i].type # "none"
  BY <1>1, <1>2, <1>4 DEF Operation
<1>7. w \in Worker
  BY <1>1, <1>3, CancelledFacts
<1>. QED
  BY <1>3, <1>4, <1>5, <1>6, <1>7, DeadlineKeeps

LEMMA AddCleanupExpiresKeeps == ASSUME IInv, NEW i \in Ids, AddCleanupExpires(i) PROVE Advances
<1>1. op[i] \in Operation /\ worker[i] \in Worker
  BY Parts
<1>2. PICK n : n = [op[i] EXCEPT !.waiting = FALSE]
  OBVIOUS
<1>3. PICK w : w = Forced(worker[i])
  OBVIOUS
<1>4. /\ running /\ op[i].type = "add" /\ op[i].due = 2
      /\ op' = [op EXCEPT ![i] = n] /\ worker' = [worker EXCEPT ![i] = w]
      /\ \E o \in Outcomes(config) :
           SaveCurrent(config, o) /\ faults' = faults + Charged(config, o)
      /\ UNCHANGED <<events, detached, cleaning, running, exiting, stopping, told, starts>>
  BY <1>2, <1>3 DEF AddCleanupExpires, Serving
<1>5. /\ n \in Operation /\ n.type = op[i].type /\ n.requireReady = op[i].requireReady
      /\ n.ready = op[i].ready
  BY <1>1, <1>2 DEF Operation
<1>6. n.due # 0 /\ op[i].type # "none"
  BY <1>1, <1>2, <1>4 DEF Operation
<1>7. w \in Worker
  BY <1>1, <1>3, CancelledFacts
<1>. QED
  BY <1>3, <1>4, <1>5, <1>6, <1>7, DeadlineKeeps

LEMMA RemoveExpiresKeeps == ASSUME IInv, NEW i \in Ids, RemoveExpires(i) PROVE Advances
<1>1. op[i] \in Operation /\ worker[i] \in Worker
  BY Parts
<1>2. PICK n : n = [op[i] EXCEPT !.timedOut = TRUE, !.waiting = FALSE]
  OBVIOUS
<1>3. PICK w : w = Forced(worker[i])
  OBVIOUS
<1>4. /\ running /\ op[i].type = "remove"
      /\ op' = [op EXCEPT ![i] = n] /\ worker' = [worker EXCEPT ![i] = w]
      /\ \E o \in Outcomes(config) :
           SaveCurrent(config, o) /\ faults' = faults + Charged(config, o)
      /\ UNCHANGED <<events, detached, cleaning, running, exiting, stopping, told, starts>>
  BY <1>2, <1>3 DEF RemoveExpires, Serving
<1>5. /\ n \in Operation /\ n.type = op[i].type /\ n.requireReady = op[i].requireReady
      /\ n.ready = op[i].ready
  BY <1>1, <1>2 DEF Operation
<1>6. w \in Worker
  BY <1>1, <1>3, CancelledFacts
<1>. QED
  BY <1>3, <1>4, <1>5, <1>6, DeadlineKeeps

LEMMA RemoveGraceExpiresKeeps == ASSUME IInv, NEW i \in Ids, RemoveGraceExpires(i) PROVE Advances
<1>1. op[i] \in Operation /\ worker[i] \in Worker
  BY Parts
<1>2. PICK w : w = Forced(worker[i])
  OBVIOUS
<1>3. /\ running /\ op[i].type = "remove" /\ worker' = [worker EXCEPT ![i] = w]
      /\ UNCHANGED <<events, detached, cleaning, running, config, disk, op, exiting, stopping, told,
                     faults, starts>>
  BY <1>2 DEF RemoveGraceExpires, Serving
<1>4. w \in Worker
  BY <1>1, <1>2, CancelledFacts
<1>. QED
  BY <1>1, <1>2, <1>3, <1>4, DeadlineKeeps

-----------------------------------------------------------------------------
(* Promotion and the end of a worker.                                      *)

LEMMA ReadyPromotesKeeps == ASSUME IInv, NEW i \in Ids, ReadyPromotes(i) PROVE Advances
<1>1. PICK next : next = Become(config, i, "active", "connected")
  OBVIOUS
<1>2. PICK inError : inError = Become(config, i, "active", "error")
  OBVIOUS
<1>3. /\ Handles(i, "Ready") /\ (op[i].type = "add" => ~(op[i].due > 0)) /\ Handled(i)
      /\ Rec(i).lifecycle \in {"pending", "active"} /\ op[i].type # "remove"
      /\ UNCHANGED <<worker, detached, cleaning, running, exiting, stopping, starts>>
  BY DEF ReadyPromotes, Late, ReadyCanPromote, Lifecycle, Rec
<1>4. PICK o \in Outcomes(next), o2 \in Outcomes(inError) :
          IF o = "ok"
          THEN /\ SaveCurrent(next, o)
               /\ op' = [op EXCEPT ![i] = NoOperation]
               /\ told' = [told EXCEPT ![i] = IF op[i].type = "add" /\ op[i].waiting
                                              THEN "added" ELSE @]
               /\ UNCHANGED faults
          ELSE /\ Charged(next, o) + Charged(inError, o2) + faults <= MaxFaults
               /\ config' = inError
               /\ disk' = Written(inError, o2, Written(next, o, disk))
               /\ faults' = faults + Charged(next, o) + Charged(inError, o2)
               /\ UNCHANGED <<op, told>>
  BY <1>1, <1>2 DEF ReadyPromotes, AfterReady
<1>5. /\ RemoteOK(i) /\ worker[i] \in Worker /\ op[i] \in Operation /\ TypeOK /\ DetachedOK
  BY Parts DEF IInv
<1>6. /\ running /\ Tracked(i) /\ Consumes(i) /\ Has(events[i], "Ready")
      /\ \A t : Has(events[i], t) => Has(events'[i], t) \/ t = "Ready"
  BY <1>3, HandledFacts
<1>7. /\ QueueOK(i, events'[i], worker[i].phase)
      /\ \A t : Has(events'[i], t) => Has(events[i], t)
      /\ events' \in [Ids -> Seq(Event)] /\ \A j \in Ids \ {i} : events'[j] = events[j]
  BY <1>6, Consumed
<1>8. /\ Rec(i).endpoint # NoEndpoint /\ cleaning[i] = "no"
      /\ Rec(i).endpoint \in Reaches[i] \cup {NoEndpoint}
      /\ Kept(i).endpoint \in Reaches[i] \cup {NoEndpoint}
  <2>1. Rec(i).lifecycle = "pending" => op[i].type = "add"
    BY <1>3, <1>5, <1>6 DEF RemoteOK, SlotOK, Operation
  <2>2. cleaning[i] = "no"
    BY <1>3, <1>5, <2>1 DEF RemoteOK, SlotOK, TombstoneOK
  <2>. QED
    BY <1>5, <1>6, <2>2 DEF RemoteOK, EndpointOK, Admitted
<1>9. /\ next \in Config /\ Valid(next)
      /\ next.remotes[i].lifecycle = "active" /\ next.remotes[i].observed = "connected"
      /\ next.remotes[i].endpoint = Rec(i).endpoint
      /\ \A j \in Ids \ {i} : next.remotes[j] = config.remotes[j]
  BY <1>1, <1>3, <1>8, Rewritten, Names
<1>10. /\ inError \in Config /\ Valid(inError)
       /\ inError.remotes[i].lifecycle = "active" /\ inError.remotes[i].observed = "error"
       /\ inError.remotes[i].endpoint = Rec(i).endpoint
       /\ \A j \in Ids \ {i} : inError.remotes[j] = config.remotes[j]
  BY <1>2, <1>3, <1>8, Rewritten, Names
<1>11. /\ Saves(i)
       /\ Rec(i)'.lifecycle = "active" /\ Rec(i)'.endpoint = Rec(i).endpoint
       /\ Kept(i)'.lifecycle \in {Kept(i).lifecycle, "active"}
       /\ Kept(i)'.endpoint \in {Kept(i).endpoint, Rec(i).endpoint}
       /\ \/ faults' # 0 /\ op' = op /\ told' = told
          \/ /\ Rec(i)'.observed = "connected" /\ Kept(i)'.lifecycle = "active"
             /\ op' = [op EXCEPT ![i] = NoOperation]
             /\ \/ op[i].type = "add" /\ told' = [told EXCEPT ![i] = "added"]
                \/ told' = told
  <2>1. CASE o = "ok"
    <3>1. Charged(next, o) = 0 /\ faults \in Nat
      BY <1>5, <2>1, DaemonAssumption DEF Charged, TypeOK
    <3>2. SaveCurrent(next, o) /\ faults' = faults + Charged(next, o)
      BY <1>4, <2>1, <3>1
    <3>3. Saves(i) /\ Rec(i)' = next.remotes[i] /\ Kept(i)' = next.remotes[i]
      BY <1>9, <2>1, <3>2, Saved DEF Saves
    <3>4. op' = [op EXCEPT ![i] = NoOperation]
      BY <1>4, <2>1
    <3>5. (op[i].type = "add" /\ told' = [told EXCEPT ![i] = "added"]) \/ told' = told
      BY <1>4, <1>5, <2>1 DEF TypeOK
    <3>. QED
      BY <1>9, <3>3, <3>4, <3>5
  <2>2. CASE o # "ok"
    <3>1. /\ Charged(next, o) + Charged(inError, o2) + faults <= MaxFaults
          /\ config' = inError /\ disk' = Written(inError, o2, Written(next, o, disk))
          /\ faults' = faults + Charged(next, o) + Charged(inError, o2)
          /\ op' = op /\ told' = told
      BY <1>4, <2>2
    <3>2. /\ Charged(next, o) = 1 /\ Charged(inError, o2) \in {0, 1}
          /\ faults \in Nat /\ MaxFaults \in Nat
      BY <1>5, <1>9, <2>2, DaemonAssumption DEF Charged, TypeOK
    <3>3. faults' \in 0..MaxFaults /\ faults' # 0
      BY <3>1, <3>2
    <3>4. disk' \in {disk, next, inError}
      BY <3>1 DEF Written
    <3>5. disk \in Config /\ Valid(disk)
      BY DEF IInv, TypeOK
    <3>6. Valid(config)' /\ Valid(disk)'
      BY <1>9, <1>10, <3>1, <3>4, <3>5 DEF Valid, Present
    <3>7. Saves(i)
      BY <1>9, <1>10, <3>1, <3>3, <3>4, <3>5, <3>6 DEF Saves
    <3>8. /\ Rec(i)' = inError.remotes[i]
          /\ Kept(i)' \in {Kept(i), next.remotes[i], inError.remotes[i]}
      BY <3>1, <3>4 DEF Rec, Kept
    <3>. QED
      BY <1>9, <1>10, <3>1, <3>3, <3>7, <3>8
  <2>. QED
    BY <2>1, <2>2
<1>12. /\ SlotMoves(i) /\ worker'[i] = worker[i]
       /\ \/ faults' # 0 /\ op'[i] = op[i] /\ told' = told
          \/ op'[i] = NoOperation
  <2>1. CASE op' = op /\ faults' # 0 /\ told' = told
    BY <1>3, <2>1, Parts DEF SlotMoves
  <2>2. CASE op' = [op EXCEPT ![i] = NoOperation]
    BY <1>3, <1>5, <2>2, SlotFacts, Operations
  <2>. QED
    BY <1>11, <2>1, <2>2
<1>13. /\ told' \in [Ids -> {"new", "adding", "added", "asked", "removed"}]
       /\ \A j \in Ids \ {i} : told'[j] = told[j]
       /\ \/ told'[i] = told[i]
          \/ told'[i] = "added" /\ op[i].type = "add" /\ Kept(i)'.lifecycle = "active"
  <2>1. told \in [Ids -> {"new", "adding", "added", "asked", "removed"}]
    BY <1>5 DEF TypeOK
  <2>2. CASE told' = told
    BY <2>1, <2>2
  <2>3. CASE /\ told' = [told EXCEPT ![i] = "added"]
             /\ op[i].type = "add" /\ Kept(i)'.lifecycle = "active"
    BY <2>1, <2>3
  <2>. QED
    BY <1>11, <2>2, <2>3
<1>14. TypeOK'
  BY <1>3, <1>5, <1>7, <1>11, <1>12, <1>13 DEF TypeOK, WorkerTypeOK, Saves, SlotMoves
<1>15. \A j \in Ids \ {i} : Rests(j)
  BY <1>3, <1>7, <1>11, <1>12, <1>13 DEF Rests, Saves, SlotMoves
<1>16. QueueOK(i, events[i], worker[i].phase)' /\ EndpointOK(i)'
  BY <1>3, <1>7, <1>8, <1>11 DEF EndpointOK
<1>17. SlotOK(i)'
  <2>1. CASE op'[i] = NoOperation
    BY <1>3, <1>6, <1>11, <2>1, Operations DEF SlotOK, Tracked
  <2>2. CASE op'[i] = op[i] /\ told' = told
    BY <1>3, <1>5, <1>6, <1>11, <2>2 DEF RemoteOK, SlotOK, Tracked
  <2>. QED
    BY <1>12, <2>1, <2>2
<1>18. ToldOK(i)'
  BY <1>3, <1>5, <1>11, <1>13 DEF RemoteOK, ToldOK
<1>19. TombstoneOK(i)' /\ TombstoneStep(i)
  BY <1>3, <1>5, <1>8, <1>11 DEF RemoteOK, TombstoneOK, TombstoneStep
<1>20. (faults = 0 => ServedOK(i))'
  <2> SUFFICES ASSUME faults' = 0 PROVE ServedOK(i)'
    OBVIOUS
  <2>1. /\ op'[i] = NoOperation /\ Rec(i)'.observed = "connected" /\ faults = 0
    BY <1>11, <1>12 DEF Saves
  <2>2. ServedOK(i) /\ ~OnlyStopped(events[i])
    BY <1>5, <1>6, <2>1, StoppedOnly DEF RemoteOK
  <2>3. Sane(events[i], worker[i]) => Sane(events'[i], worker'[i])
    BY <1>3, <1>6 DEF Sane
  <2>4. ~Hopeless(events[i], worker[i])
    BY <1>6 DEF Hopeless
  <2>5. Rec(i).lifecycle = "active" => Rec(i).observed # "error"
    BY <2>2 DEF ServedOK
  <2>6. Rec(i).lifecycle = "pending" => op[i].type = "add" /\ op[i].due = 0
    BY <1>3, <1>5, <1>6 DEF RemoteOK, SlotOK, Operation
  <2>7. ~exiting /\ Steady(i) => Sane(events[i], worker[i])
    BY <1>3, <2>2, <2>4, <2>5, <2>6 DEF ServedOK
  <2>. QED
    BY <1>3, <1>11, <2>1, <2>3, <2>7, Operations DEF ServedOK, Steady
<1>21. RemoteOK(i)'
  BY <1>16, <1>17, <1>18, <1>19, <1>20 DEF RemoteOK
<1>22. DetachedOK'
  BY <1>3, <1>5, <1>11 DEF DetachedOK, Saves
<1>. QED
  BY <1>3, <1>6, <1>11, <1>14, <1>15, <1>19, <1>21, <1>22, Assembles DEF Saves

LEMMA WorkerStoppedKeeps == ASSUME IInv, NEW i \in Ids, WorkerStopped(i) PROVE Advances
<1>1. PICK gone : gone = WithRemote(config, i, NoRecord)
  OBVIOUS
<1>2. /\ Handles(i, "Stopped") /\ Handled(i)
      /\ worker' = [worker EXCEPT ![i] = NoWorker] /\ op' = [op EXCEPT ![i] = NoOperation]
      /\ stopping' = IF stopping.on /\ \A j \in Ids \ {i} : ~Tracked(j)
                     THEN FinishShutdown(stopping) ELSE stopping
      /\ UNCHANGED <<detached, cleaning, running, exiting, starts>>
      /\ \/ /\ op[i].type = "add" /\ told' = told
            /\ \E o \in Outcomes(gone) :
                  SaveCurrent(gone, o) /\ faults' = faults + Charged(gone, o)
         \/ /\ StoppedConfirmsCleanup(i)
            /\ \E o \in Outcomes(gone) : FinishRemove(i, o, op[i].waiting)
         \/ /\ op[i].type = "remove" /\ ~StoppedConfirmsCleanup(i) /\ told' = told
            /\ \E o \in Outcomes(config) :
                  SaveCurrent(config, o) /\ faults' = faults + Charged(config, o)
         \/ op[i].type = "none" /\ UNCHANGED <<config, disk, told, faults>>
  BY <1>1 DEF WorkerStopped
<1>3. /\ RemoteOK(i) /\ op[i] \in Operation /\ TypeOK /\ DetachedOK
  BY Parts DEF IInv
<1>4. /\ running /\ Tracked(i) /\ Consumes(i)
      /\ events'[i] = <<>> /\ worker[i].phase = "ended"
      /\ \A t : Has(events[i], t) => Has(events'[i], t) \/ t = "Stopped"
  BY <1>2, HandledFacts
<1>5. events' \in [Ids -> Seq(Event)] /\ \A j \in Ids \ {i} : events'[j] = events[j]
  BY <1>4, Consumed
<1>6. SlotMoves(i) /\ worker'[i] = NoWorker /\ op'[i] = NoOperation
  BY <1>2, SlotFacts, NoWorkerFacts, Operations
<1>7. /\ gone \in Config /\ Valid(gone)
      /\ gone.remotes[i].lifecycle = "absent" /\ gone.remotes[i].endpoint = NoEndpoint
      /\ \A j \in Ids \ {i} : gone.remotes[j] = config.remotes[j]
  BY <1>1, Deleted
\* The record goes, for a failed add or a confirmed removal; otherwise it stays.
<1>. DEFINE Goes == /\ op[i].type = "add" \/ StoppedConfirmsCleanup(i)
                    /\ Rec(i)'.lifecycle = "absent" /\ Rec(i)'.endpoint = NoEndpoint
                    /\ Kept(i)' \in {Kept(i), Rec(i)'}
                    /\ \/ told' = told
                       \/ /\ Kept(i)' = Rec(i)' /\ op[i].type = "remove"
                          /\ told' = [told EXCEPT ![i] = "removed"]
            Remains == /\ op[i].type # "add" /\ told' = told
                       /\ Rec(i)' = Rec(i) /\ Kept(i)' \in {Kept(i), Rec(i)}
<1>8. Saves(i) /\ (Goes \/ Remains)
  <2>1. ASSUME op[i].type = "add", told' = told, NEW o \in Outcomes(gone),
               SaveCurrent(gone, o), faults' = faults + Charged(gone, o)
        PROVE Saves(i) /\ Goes
    BY <1>7, <2>1, Saved DEF Saves
  <2>2. ASSUME StoppedConfirmsCleanup(i), NEW o \in Outcomes(gone),
               FinishRemove(i, o, op[i].waiting)
        PROVE Saves(i) /\ Goes
    <3>1. op[i].type = "remove"
      BY <2>2 DEF StoppedConfirmsCleanup
    <3>2. /\ SaveCurrent(gone, o) /\ faults' = faults + Charged(gone, o)
          /\ told' = [told EXCEPT ![i] = IF Confirms(op[i].waiting, o) THEN "removed" ELSE @]
      BY <1>1, <2>2 DEF FinishRemove
    <3>3. /\ Saves(i) /\ Rec(i)' = gone.remotes[i] /\ Kept(i)' \in {Kept(i), gone.remotes[i]}
          /\ o = "ok" => Kept(i)' = gone.remotes[i]
      BY <1>7, <3>2, Saved DEF Saves
    <3>4. told' = told \/ (o = "ok" /\ told' = [told EXCEPT ![i] = "removed"])
      BY <1>3, <3>2 DEF Confirms, TypeOK
    <3>. QED
      BY <1>7, <2>2, <3>1, <3>3, <3>4
  <2>3. ASSUME op[i].type = "remove", told' = told, NEW o \in Outcomes(config),
               SaveCurrent(config, o), faults' = faults + Charged(config, o)
        PROVE Saves(i) /\ Remains
    BY <2>3, Resaved
  <2>4. ASSUME op[i].type = "none", UNCHANGED <<config, disk, told, faults>>
        PROVE Saves(i) /\ Remains
    BY <2>4, Unsaved
  <2>. HIDE DEF Goes, Remains
  <2>. QED
    BY <1>2, <2>1, <2>2, <2>3, <2>4
<1>9. Rec(i).lifecycle # "absent" /\ told[i] # "new"
  BY <1>3, <1>4 DEF RemoteOK, SlotOK, ToldOK
<1>10. Goes => told[i] # "added" /\ cleaning[i] # "tombstone"
  <2>1. CASE op[i].type = "add"
    BY <1>3, <2>1 DEF RemoteOK, SlotOK
  <2>2. CASE StoppedConfirmsCleanup(i)
    BY <1>3, <1>4, <2>2 DEF RemoteOK, SlotOK, ToldOK, StoppedConfirmsCleanup
  <2>. QED
    BY <2>1, <2>2
<1>11. /\ told' \in [Ids -> {"new", "adding", "added", "asked", "removed"}]
       /\ \A j \in Ids \ {i} : told'[j] = told[j]
       /\ told' = told => told'[i] = told[i]
       /\ told' = [told EXCEPT ![i] = "removed"] => told'[i] = "removed"
  <2>1. told \in [Ids -> {"new", "adding", "added", "asked", "removed"}]
    BY <1>3 DEF TypeOK
  <2>2. told' = told \/ told' = [told EXCEPT ![i] = "removed"]
    BY <1>8
  <2>. QED
    BY <2>1, <2>2
<1>12. stopping' \in Stopping /\ (stopping'.on => stopping.on)
  <2>1. stopping \in Stopping
    BY <1>3 DEF TypeOK
  <2>2. FinishShutdown(stopping) \in Stopping /\ ~FinishShutdown(stopping).on
    BY <2>1 DEF FinishShutdown, Stopping
  <2>. QED
    BY <1>2, <2>1, <2>2
<1>13. TypeOK'
  BY <1>2, <1>3, <1>5, <1>6, <1>8, <1>11, <1>12 DEF TypeOK, WorkerTypeOK, Saves, SlotMoves
<1>14. \A j \in Ids \ {i} : Rests(j)
  BY <1>2, <1>5, <1>6, <1>8, <1>11 DEF Rests, Saves, SlotMoves
<1>15. QueueOK(i, events[i], worker[i].phase)' /\ EndpointOK(i)'
  <2>1. ~Admitted(events'[i], worker'[i])
    BY <1>4, <1>6, EmptyQueue, NoWorkerFacts DEF Admitted
  <2>. QED
    BY <1>3, <1>4, <1>8, <2>1, EmptyQueue DEF RemoteOK, EndpointOK
<1>16. SlotOK(i)'
  BY <1>4, <1>6, Operations, NoWorkerFacts DEF SlotOK, Tracked
<1>17. ToldOK(i)'
  <2>1. CASE Remains
    BY <1>2, <1>3, <1>4, <1>11, <2>1 DEF RemoteOK, ToldOK
  <2>2. CASE Goes /\ told' = told
    BY <1>2, <1>3, <1>9, <1>10, <1>11, <2>2 DEF RemoteOK, ToldOK
  <2>3. CASE Goes /\ Kept(i)' = Rec(i)' /\ told' = [told EXCEPT ![i] = "removed"]
    BY <1>11, <2>3 DEF ToldOK
  <2>. QED
    BY <1>8, <2>1, <2>2, <2>3
<1>18. TombstoneOK(i)' /\ TombstoneStep(i)
  <2>1. ~Has(events'[i], "Ready") /\ cleaning'[i] = cleaning[i]
    BY <1>2, <1>4, EmptyQueue
  <2>2. CASE Remains
    BY <1>2, <1>3, <1>4, <1>9, <1>11, <2>1, <2>2 DEF RemoteOK, TombstoneOK, TombstoneStep
  <2>3. CASE Goes
    BY <1>2, <1>3, <1>4, <1>9, <1>10, <1>11, <2>1, <2>3 DEF RemoteOK, TombstoneOK, TombstoneStep
  <2>. QED
    BY <1>8, <2>2, <2>3
<1>19. (faults = 0 => ServedOK(i))'
  <2> SUFFICES ASSUME faults' = 0, Remains PROVE ServedOK(i)'
    BY <1>6, <1>8, Operations DEF ServedOK
  <2>1. ServedOK(i)
    BY <1>3, <1>8 DEF RemoteOK, Saves
  <2>2. ~Sane(events[i], worker[i])
    BY <1>4, EmptyQueue DEF Sane
  <2>. QED
    BY <1>2, <1>4, <1>6, <2>1, <2>2, EmptyQueue, Operations, NoWorkerFacts DEF ServedOK, Steady
<1>20. RemoteOK(i)'
  BY <1>15, <1>16, <1>17, <1>18, <1>19 DEF RemoteOK
<1>21. DetachedOK'
  BY <1>2, <1>3, <1>8 DEF DetachedOK, Saves
<1>. QED
  BY <1>2, <1>4, <1>8, <1>12, <1>13, <1>14, <1>18, <1>20, <1>21, Assembles DEF Saves

LEMMA HandleEventKeeps == ASSUME IInv, NEW i \in Ids, HandleEvent(i) PROVE Advances
<1>1. CASE IdentityIgnored(i)
  BY <1>1, IgnoredKeeps DEF IdentityIgnored
<1>2. CASE ReadyIgnored(i)
  BY <1>2, IgnoredKeeps DEF ReadyIgnored
<1>. QED
  BY <1>1, <1>2, IdentityForCleanupKeeps, IdentityDuplicateKeeps, IdentityNewKeeps,
     ReadyForCleanupKeeps, ReadyTooLateKeeps, ReadyPromotesKeeps, RetryingKeeps,
     PermanentFailureKeeps, WorkerStoppedKeeps DEF HandleEvent

-----------------------------------------------------------------------------
(* Shutting down.                                                          *)

\* What a step of a daemon that is stopping does to every slot at once.
LEMMA StoppingKeeps ==
  ASSUME IInv, running, UNCHANGED <<events, detached, cleaning, running, op, told, starts>>,
         exiting', stopping' \in Stopping, exiting' \in BOOLEAN, worker' \in [Ids -> Worker],
         \A i \in Ids : worker'[i].phase = worker[i].phase
                        /\ worker'[i].approval = worker[i].approval
                        /\ (~Tracked(i) => worker'[i] = worker[i]),
         config' \in Config, disk' \in Config, Valid(config)', Valid(disk)',
         \A i \in Ids : Rec(i)' = Rec(i) /\ Kept(i)' \in {Kept(i), Rec(i)},
         faults' \in 0..MaxFaults, faults' # 0 \/ faults = 0
  PROVE Advances
<1>1. ASSUME NEW i \in Ids PROVE RemoteOK(i)' /\ TombstoneStep(i)
  <2>1. RemoteOK(i)
    BY Parts
  <2>2. QueueOK(i, events'[i], worker'[i].phase)
    BY <2>1 DEF RemoteOK
  <2>3. Steadily(i)
    BY DEF Steadily, Tracked, Admitted
  <2>4. faults' # 0 \/ ServedOK(i)'
    BY <2>1, ServedStays DEF RemoteOK
  <2>5. RemoteOK(i)'
    BY <2>1, <2>2, <2>3, <2>4, RemoteStays
  <2>6. TombstoneStep(i)
    BY <2>1 DEF RemoteOK, TombstoneOK, TombstoneStep
  <2>. QED
    BY <2>5, <2>6
<1>2. TypeOK'
  BY DEF IInv, TypeOK, WorkerTypeOK
<1>3. DownOK' /\ DetachedOK' /\ StoppingOK'
  BY DEF IInv, DownOK, DetachedOK, StoppingOK
<1>. QED
  BY <1>1, <1>2, <1>3 DEF IInv, Advances

\* Every tracked worker is asked, or made, to stop.
LEMMA AllAsked ==
  ASSUME IInv,
         \/ worker' = [i \in Ids |-> IF Tracked(i) THEN Cancelled(worker[i]) ELSE worker[i]]
         \/ worker' = [i \in Ids |-> IF Tracked(i) THEN Forced(worker[i]) ELSE worker[i]]
  PROVE /\ worker' \in [Ids -> Worker]
        /\ \A i \in Ids : worker'[i].phase = worker[i].phase
                          /\ worker'[i].approval = worker[i].approval
                          /\ (~Tracked(i) => worker'[i] = worker[i])
<1>1. \A i \in Ids : worker[i] \in Worker
  BY Parts
<1>. QED
  BY <1>1, CancelledFacts

LEMMA BeginFacts ==
  ASSUME IInv, NEW waiting \in BOOLEAN, BeginLocalShutdown(waiting)
  PROVE /\ exiting' = TRUE /\ stopping' \in Stopping /\ worker' \in [Ids -> Worker]
        /\ \A i \in Ids : worker'[i].phase = worker[i].phase
                          /\ worker'[i].approval = worker[i].approval
                          /\ (~Tracked(i) => worker'[i] = worker[i])
<1>1. PICK begun : begun = [on |-> TRUE, due |-> 0, waiting |-> waiting, expired |-> FALSE]
  OBVIOUS
<1>2. begun \in Stopping
  BY <1>1 DEF Stopping
<1>3. FinishShutdown(begun) \in Stopping
  BY <1>2 DEF FinishShutdown, Stopping
<1>4. /\ exiting' = TRUE /\ stopping' \in {begun, FinishShutdown(begun)}
      /\ worker' = [i \in Ids |-> IF Tracked(i) THEN Cancelled(worker[i]) ELSE worker[i]]
  BY <1>1 DEF BeginLocalShutdown
<1>5. stopping' \in Stopping
  BY <1>2, <1>3, <1>4
<1>. QED
  BY <1>4, <1>5, AllAsked

LEMMA RemotesUnchanged ==
  ASSUME IInv, UNCHANGED <<config, disk, faults>>
  PROVE /\ config' \in Config /\ disk' \in Config /\ Valid(config)' /\ Valid(disk)'
        /\ \A i \in Ids : Rec(i)' = Rec(i) /\ Kept(i)' \in {Kept(i), Rec(i)}
        /\ faults' \in 0..MaxFaults /\ (faults' # 0 \/ faults = 0)
BY DEF IInv, TypeOK, Valid, Present, Rec, Kept

LEMMA ShutdownKeeps == ASSUME IInv, Shutdown PROVE Advances
<1>1. PICK next : next = [config EXCEPT !.daemon_stopping = TRUE]
  OBVIOUS
<1>2. running /\ UNCHANGED <<events, detached, cleaning, running, op, told, starts>>
  BY DEF Shutdown, Accepting, Serving
<1>3. PICK o \in Outcomes(next) :
        /\ Commit(next, o) /\ faults' = faults + Charged(next, o)
        /\ BeginLocalShutdown(o = "ok")
  BY <1>1 DEF Shutdown
<1>4. /\ config \in Config /\ disk \in Config /\ Valid(config) /\ Valid(disk) /\ TypeOK
      /\ faults \in Nat
  BY DaemonAssumption DEF IInv, TypeOK
<1>5. next \in Config /\ next.remotes = config.remotes
  BY <1>1, <1>4 DEF Config
<1>6. Valid(next)
  BY <1>4, <1>5 DEF Valid, Present
<1>7. config' \in {next, config} /\ disk' = Written(next, o, disk)
  BY <1>3 DEF Commit
<1>8. /\ Written(next, o, disk) \in {disk, next}
      /\ faults + Charged(next, o) \in 0..MaxFaults
      /\ o = "ok" => Charged(next, o) = 0
      /\ o # "ok" => faults + Charged(next, o) # 0
  BY <1>4, <1>5, <1>6, SaveFacts
<1>9. disk' \in {disk, next}
  BY <1>7, <1>8
<1>10. Valid(config)' /\ Valid(disk)'
  BY <1>4, <1>6, <1>7, <1>9 DEF Valid, Present
<1>11. \A i \in Ids : Rec(i)' = Rec(i) /\ Kept(i)' \in {Kept(i), Rec(i)}
  BY <1>5, <1>7, <1>9 DEF Rec, Kept
<1>12. faults' \in 0..MaxFaults /\ (faults' # 0 \/ faults = 0)
  BY <1>3, <1>4, <1>8
<1>13. /\ exiting' = TRUE /\ stopping' \in Stopping /\ worker' \in [Ids -> Worker]
       /\ \A i \in Ids : worker'[i].phase = worker[i].phase
                         /\ worker'[i].approval = worker[i].approval
                         /\ (~Tracked(i) => worker'[i] = worker[i])
  BY <1>3, BeginFacts
<1>14. config' \in Config /\ disk' \in Config
  BY <1>4, <1>5, <1>7, <1>9
<1>. QED
  BY <1>2, <1>10, <1>11, <1>12, <1>13, <1>14, StoppingKeeps

LEMMA ListenerFailedKeeps == ASSUME IInv, ListenerFailed PROVE Advances
<1>1. /\ running /\ BeginLocalShutdown(FALSE)
      /\ UNCHANGED <<events, detached, cleaning, running, config, disk, op, told, faults, starts>>
  BY DEF ListenerFailed, Accepting, Serving
<1>. QED
  BY <1>1, BeginFacts, RemotesUnchanged, StoppingKeeps

LEMMA ShutdownDueKeeps == ASSUME IInv, ShutdownDue PROVE Advances
<1>1. PICK s : s = [stopping EXCEPT !.due = @ + 1]
  OBVIOUS
<1>2. /\ running /\ stopping.on /\ stopping.due < 2 /\ stopping' = s
      /\ UNCHANGED <<worker, events, detached, cleaning, running, config, disk, op, exiting, told,
                     faults, starts>>
  BY <1>1 DEF ShutdownDue, workerVars
<1>3. stopping \in Stopping /\ exiting /\ exiting \in BOOLEAN /\ worker \in [Ids -> Worker]
  BY <1>2 DEF IInv, TypeOK, WorkerTypeOK, StoppingOK
<1>4. s \in Stopping
  BY <1>1, <1>2, <1>3 DEF Stopping
<1>. QED
  BY <1>2, <1>3, <1>4, RemotesUnchanged, StoppingKeeps

LEMMA ShutdownExpiresKeeps == ASSUME IInv, ShutdownExpires PROVE Advances
<1>1. PICK s : s = [stopping EXCEPT !.expired = TRUE, !.waiting = FALSE]
  OBVIOUS
<1>2. /\ running /\ stopping.on /\ stopping' \in {s, stopping}
      /\ worker' = [i \in Ids |-> IF Tracked(i) THEN Forced(worker[i]) ELSE worker[i]]
      /\ UNCHANGED <<events, detached, cleaning, running, config, disk, op, exiting, told, faults,
                     starts>>
  BY <1>1 DEF ShutdownExpires
<1>3. stopping \in Stopping /\ exiting /\ exiting \in BOOLEAN
  BY <1>2 DEF IInv, TypeOK, StoppingOK
<1>4. stopping' \in Stopping
  BY <1>1, <1>2, <1>3 DEF Stopping
<1>5. /\ worker' \in [Ids -> Worker]
      /\ \A i \in Ids : worker'[i].phase = worker[i].phase
                        /\ worker'[i].approval = worker[i].approval
                        /\ (~Tracked(i) => worker'[i] = worker[i])
  BY <1>2, AllAsked
<1>. QED
  BY <1>2, <1>3, <1>4, <1>5, RemotesUnchanged, StoppingKeeps

-----------------------------------------------------------------------------
(* The process ends, and starts again.                                     *)

LEMMA EmptyConfigFacts ==
  /\ EmptyConfig \in Config /\ Valid(EmptyConfig)
  /\ \A i \in Ids : EmptyConfig.remotes[i].lifecycle = "absent"
                    /\ EmptyConfig.remotes[i].endpoint = NoEndpoint
<1>1. /\ NoRecord \in Record /\ NoRecord.lifecycle = "absent"
      /\ NoRecord.observed = "connecting" /\ NoRecord.endpoint = NoEndpoint
  BY DEF NoRecord, Record, Lifecycles, Observed
<1>. HIDE DEF NoRecord
<1>2. /\ EmptyConfig \in Config /\ \A i \in Ids : EmptyConfig.remotes[i] = NoRecord
  BY <1>1 DEF EmptyConfig, Config
<1>. QED
  BY <1>1, <1>2 DEF Valid, Present

\* A remote of a daemon that is down, or has just begun.
LEMMA DownRemote ==
  ASSUME NEW i \in Ids, worker[i] = NoWorker, events[i] = <<>>, op[i] = NoOperation,
         cleaning[i] = "no", ToldOK(i),
         Rec(i).lifecycle = "absent", Rec(i).endpoint = NoEndpoint,
         Kept(i).endpoint \in Reaches[i] \cup {NoEndpoint}
  PROVE RemoteOK(i)
<1>1. QueueOK(i, events[i], worker[i].phase)
  BY EmptyQueue
<1>2. EndpointOK(i)
  BY EmptyQueue, NoWorkerFacts DEF EndpointOK, Admitted
<1>3. SlotOK(i)
  BY NoWorkerFacts, Operations DEF SlotOK, Tracked
<1>4. TombstoneOK(i)
  BY DEF TombstoneOK
<1>5. ServedOK(i)
  BY Operations DEF ServedOK
<1>. QED
  BY <1>1, <1>2, <1>3, <1>4, <1>5 DEF RemoteOK

LEMMA InitHolds == ASSUME Init PROVE IInv
<1>1. /\ worker = [i \in Ids |-> NoWorker] /\ events = [i \in Ids |-> <<>>] /\ detached = {}
      /\ cleaning = [i \in Ids |-> "no"] /\ running = TRUE /\ exiting = FALSE
      /\ stopping = NotStopping /\ config = EmptyConfig /\ disk = EmptyConfig
      /\ op = [i \in Ids |-> NoOperation] /\ told = [i \in Ids |-> "new"]
      /\ faults = 0 /\ starts = 0
  BY DEF Init
<1>2. NotStopping \in Stopping /\ ~NotStopping.on
  BY DEF NotStopping, Stopping
<1>3. <<>> \in Seq(Event)
  OBVIOUS
<1>4. WorkerTypeOK
  BY <1>1, <1>3, NoWorkerFacts DEF WorkerTypeOK
<1>5. faults \in 0..MaxFaults /\ starts \in 0..MaxStarts
  BY <1>1, DaemonAssumption
<1>6. told \in [Ids -> {"new", "adding", "added", "asked", "removed"}] /\ op \in [Ids -> Operation]
  BY <1>1, Operations
<1>7. TypeOK
  BY <1>1, <1>2, <1>4, <1>5, <1>6, EmptyConfigFacts DEF TypeOK
<1>8. ASSUME NEW i \in Ids PROVE RemoteOK(i)
  <2>1. /\ worker[i] = NoWorker /\ events[i] = <<>> /\ op[i] = NoOperation /\ cleaning[i] = "no"
        /\ told[i] = "new"
    BY <1>1
  <2>2. /\ Rec(i).lifecycle = "absent" /\ Rec(i).endpoint = NoEndpoint
        /\ Kept(i).lifecycle = "absent" /\ Kept(i).endpoint = NoEndpoint
    BY <1>1, EmptyConfigFacts DEF Rec, Kept
  <2>3. ToldOK(i)
    BY <2>1, <2>2 DEF ToldOK
  <2>. QED
    BY <2>1, <2>2, <2>3, DownRemote
<1>9. DownOK /\ DetachedOK /\ StoppingOK
  BY <1>1, <1>2 DEF DownOK, DetachedOK, StoppingOK
<1>. QED
  BY <1>1, <1>7, <1>8, <1>9, EmptyConfigFacts DEF IInv

LEMMA GoneKeeps ==
  ASSUME IInv, Gone, UNCHANGED <<disk, told, faults, starts>> PROVE Advances
<1>1. /\ running' = FALSE /\ exiting' = FALSE /\ stopping' = NotStopping
      /\ worker' = [i \in Ids |-> NoWorker] /\ events' = [i \in Ids |-> <<>>] /\ detached' = {}
      /\ cleaning' = [i \in Ids |-> "no"] /\ op' = [i \in Ids |-> NoOperation]
      /\ config' = EmptyConfig
  BY DEF Gone
<1>2. NotStopping \in Stopping /\ ~NotStopping.on
  BY DEF NotStopping, Stopping
<1>3. <<>> \in Seq(Event)
  OBVIOUS
<1>4. WorkerTypeOK'
  BY <1>1, <1>3, NoWorkerFacts DEF WorkerTypeOK
<1>5. op' \in [Ids -> Operation]
  BY <1>1, Operations
<1>6. TypeOK'
  BY <1>1, <1>2, <1>4, <1>5, EmptyConfigFacts DEF IInv, TypeOK
<1>7. ASSUME NEW i \in Ids PROVE RemoteOK(i)' /\ TombstoneStep(i)
  <2>1. /\ worker'[i] = NoWorker /\ events'[i] = <<>> /\ op'[i] = NoOperation
        /\ cleaning'[i] = "no" /\ told'[i] = told[i]
    BY <1>1
  <2>2. Rec(i)'.lifecycle = "absent" /\ Rec(i)'.endpoint = NoEndpoint /\ Kept(i)' = Kept(i)
    BY <1>1, EmptyConfigFacts DEF Rec, Kept
  <2>3. ToldOK(i)' /\ Kept(i)'.endpoint \in Reaches[i] \cup {NoEndpoint}
    BY <1>1, <2>1, <2>2, Parts DEF RemoteOK, ToldOK, EndpointOK
  <2>4. QueueOK(i, events[i], worker[i].phase)'
    BY <2>1, EmptyQueue
  <2>5. EndpointOK(i)'
    BY <2>1, <2>2, <2>3, EmptyQueue, NoWorkerFacts DEF EndpointOK, Admitted
  <2>6. SlotOK(i)'
    BY <2>1, NoWorkerFacts, Operations DEF SlotOK, Tracked
  <2>7. TombstoneOK(i)'
    BY <2>1, <2>2 DEF TombstoneOK
  <2>8. ServedOK(i)'
    BY <2>1, <2>2, Operations DEF ServedOK
  <2>9. TombstoneStep(i)
    BY <2>2 DEF TombstoneStep
  <2>. QED
    BY <2>3, <2>4, <2>5, <2>6, <2>7, <2>8, <2>9 DEF RemoteOK
<1>8. DownOK' /\ DetachedOK' /\ StoppingOK'
  BY <1>1, <1>2 DEF DownOK, DetachedOK, StoppingOK
<1>9. Valid(config)' /\ Valid(disk)'
  BY <1>1, EmptyConfigFacts DEF IInv, Valid, Present
<1>. QED
  BY <1>6, <1>7, <1>8, <1>9 DEF IInv, Advances

LEMMA ReconciledFacts ==
  ASSUME NEW r \in Record
  PROVE /\ Reconciled(r) \in Record /\ Reconciled(r).lifecycle = r.lifecycle
        /\ Reconciled(r).endpoint = r.endpoint
        /\ Reconciled(r).observed =
             IF r.lifecycle = "active" /\ r.observed # "error" THEN "connecting" ELSE r.observed
BY DEF Reconciled, Record, Observed

\* A configuration that observes its remotes otherwise is as valid.
LEMMA ValidAgain ==
  ASSUME NEW c, Valid(c), NEW d,
         \A i \in Ids : /\ d.remotes[i].lifecycle = c.remotes[i].lifecycle
                        /\ d.remotes[i].endpoint = c.remotes[i].endpoint
                        /\ (d.remotes[i].lifecycle = "removing")
                             = (d.remotes[i].observed = "removing")
  PROVE Valid(d)
BY DEF Valid, Present

\* A start that could not save what it reconciled leaves the daemon down.
LEMMA NotStarted ==
  ASSUME IInv, ~running,
         UNCHANGED <<worker, events, detached, cleaning, running, config, op, exiting, stopping,
                     told>>,
         starts' \in 0..MaxStarts, faults' \in 0..MaxFaults, disk' \in Config, Valid(disk)',
         \A i \in Ids :
           Kept(i)'.lifecycle = Kept(i).lifecycle /\ Kept(i)'.endpoint = Kept(i).endpoint
  PROVE Advances
<1>1. TypeOK' /\ Valid(config)'
  BY DEF IInv, TypeOK, WorkerTypeOK, Valid, Present
<1>2. DownOK' /\ DetachedOK' /\ StoppingOK'
  BY DEF IInv, DownOK, DetachedOK, StoppingOK
<1>3. config = EmptyConfig
  BY DEF IInv, DownOK
<1>4. ASSUME NEW i \in Ids PROVE RemoteOK(i)' /\ TombstoneStep(i)
  <2>1. RemoteOK(i) /\ Rec(i)' = Rec(i)
    BY Parts DEF Rec
  <2>2. Rec(i).lifecycle = "absent"
    BY <1>3, EmptyConfigFacts DEF Rec
  <2>3. ~Tracked(i) /\ op[i] = NoOperation /\ cleaning[i] = "no"
    BY <2>1 DEF RemoteOK, SlotOK, TombstoneOK
  <2>4. QueueOK(i, events[i], worker[i].phase)' /\ EndpointOK(i)'
    BY <2>1 DEF RemoteOK, EndpointOK, Admitted
  <2>5. SlotOK(i)'
    BY <2>1 DEF RemoteOK, SlotOK, Tracked
  <2>6. ToldOK(i)' /\ TombstoneOK(i)'
    BY <2>1, <2>3 DEF RemoteOK, ToldOK, TombstoneOK
  <2>7. ServedOK(i)'
    BY <2>1, <2>2, <2>3, Operations DEF ServedOK
  <2>8. TombstoneStep(i)
    BY DEF TombstoneStep
  <2>. QED
    BY <2>4, <2>5, <2>6, <2>7, <2>8 DEF RemoteOK
<1>. QED
  BY <1>1, <1>2, <1>4 DEF IInv, Advances

\* A daemon that started: each remote as on disk, but for what is observed of it, and
\* interrupted ones to be cleaned up.
LEMMA StartedRemote ==
  ASSUME IInv, ~running, running', NEW i \in Ids, NEW r \in Record,
         r.lifecycle = Kept(i).lifecycle, r.endpoint = Kept(i).endpoint, Rec(i)' = r,
         Kept(i)'.lifecycle = r.lifecycle, Kept(i)'.endpoint = r.endpoint, events' = events, told' = told,
         cleaning'[i] = IF Interrupted(r) THEN "tombstone" ELSE "no",
         \/ /\ worker'[i] = Spawned(r.endpoint, Cleans(r)) /\ (Reconnecting(r) \/ Cleans(r))
            /\ op'[i] = IF Cleans(r) THEN StartupCleanup ELSE NoOperation
         \/ /\ worker'[i] = NoWorker /\ op'[i] = NoOperation
            /\ ~Reconnecting(r)
  PROVE RemoteOK(i)' /\ TombstoneStep(i)
<1>1. RemoteOK(i) /\ config = EmptyConfig
  BY Parts DEF IInv, DownOK
<1>2. events[i] = <<>> /\ ToldOK(i)
  BY <1>1 DEF RemoteOK, SlotOK, Tracked
<1>3. r.endpoint \in Endpoints \cup {NoEndpoint} /\ r.endpoint \in Reaches[i] \cup {NoEndpoint}
  BY <1>1 DEF RemoteOK, EndpointOK, Record
<1>4. /\ Interrupted(r) <=> r.lifecycle \in {"pending", "removing"}
      /\ Cleans(r) <=> Interrupted(r) /\ r.endpoint # NoEndpoint
      /\ Reconnecting(r) <=> r.lifecycle = "active" /\ r.observed # "error"
  BY DEF Interrupted, Cleans, Reconnecting
<1>5. Cleans(r) \in BOOLEAN
  BY DEF Cleans, Interrupted
<1>6. \/ /\ worker'[i].phase = "connecting" /\ worker'[i].approval = "none"
         /\ ~worker'[i].cancelled /\ (Reconnecting(r) \/ Cleans(r))
         /\ op'[i] = IF Cleans(r) THEN StartupCleanup ELSE NoOperation
      \/ worker'[i] = NoWorker /\ op'[i] = NoOperation /\ ~Reconnecting(r)
  BY <1>3, <1>5, SpawnedFacts
<1>7. worker'[i].phase = "connecting" \/ worker'[i].phase = "none"
  BY <1>6, NoWorkerFacts
<1>8. events'[i] = <<>>
  BY <1>2
<1>9. QueueOK(i, events[i], worker[i].phase)'
  BY <1>8, EmptyQueue
<1>10. EndpointOK(i)'
  <2>1. ~Admitted(events'[i], worker'[i])
    BY <1>6, <1>8, EmptyQueue, NoWorkerFacts DEF Admitted
  <2>. QED
    BY <1>3, <2>1 DEF EndpointOK
<1>11. SlotOK(i)'
  <2>1. CASE /\ worker'[i].phase = "connecting" /\ Cleans(r) /\ op'[i] = StartupCleanup
    BY <1>4, <1>8, <2>1, Operations DEF SlotOK, Tracked
  <2>2. CASE /\ worker'[i].phase = "connecting" /\ ~Cleans(r) /\ Reconnecting(r)
             /\ op'[i] = NoOperation
    BY <1>4, <1>8, <2>2, Operations DEF SlotOK, Tracked
  <2>3. CASE worker'[i] = NoWorker /\ op'[i] = NoOperation
    BY <1>8, <2>3, Operations, NoWorkerFacts DEF SlotOK, Tracked
  <2>. QED
    BY <1>6, <2>1, <2>2, <2>3
<1>12. ToldOK(i)'
  BY <1>1, <1>2 DEF ToldOK
<1>13. TombstoneOK(i)'
  <2>1. Interrupted(r) => told[i] # "new" /\ r.lifecycle # "absent"
    BY <1>2, <1>4 DEF ToldOK
  <2>. QED
    BY <1>4, <1>8, <2>1, EmptyQueue DEF TombstoneOK
<1>14. ServedOK(i)'
  <2>1. CASE worker'[i] = NoWorker /\ op'[i] = NoOperation /\ ~Reconnecting(r)
    BY <1>4, <1>8, <2>1, EmptyQueue, NoWorkerFacts, Operations DEF ServedOK
  <2>2. CASE /\ worker'[i].phase = "connecting" /\ worker'[i].approval = "none"
             /\ ~worker'[i].cancelled /\ (Reconnecting(r) \/ Cleans(r))
             /\ op'[i] = IF Cleans(r) THEN StartupCleanup ELSE NoOperation
    <3>1. Sane(events'[i], worker'[i])
      BY <2>2, <1>8, FreshWorker
    <3>2. op'[i].type # "add"
      BY <2>2, Operations
    <3>3. r.lifecycle = "active" => r.observed # "error"
      BY <1>4, <2>2
    <3>. QED
      BY <3>1, <3>2, <3>3 DEF ServedOK
  <2>. QED
    BY <1>6, <2>1, <2>2
<1>15. TombstoneStep(i)
  BY DEF TombstoneStep
<1>. QED
  BY <1>9, <1>10, <1>11, <1>12, <1>13, <1>14, <1>15 DEF RemoteOK

LEMMA StartKeeps == ASSUME IInv, Start PROVE Advances
<1>. DEFINE loaded == [daemon_stopping |-> FALSE,
                       remotes |-> [i \in Ids |-> Reconciled(disk.remotes[i])]]
            spawned == {i \in Ids : Reconnecting(loaded.remotes[i])
                                    \/ Cleans(loaded.remotes[i])}
            cleared == [disk EXCEPT !.daemon_stopping = FALSE]
<1>1. loaded = [daemon_stopping |-> FALSE,
                remotes |-> [i \in Ids |-> Reconciled(disk.remotes[i])]]
  OBVIOUS
<1>2. spawned = {i \in Ids : Reconnecting(loaded.remotes[i]) \/ Cleans(loaded.remotes[i])}
  OBVIOUS
<1>3. cleared = [disk EXCEPT !.daemon_stopping = FALSE]
  OBVIOUS
<1>. HIDE DEF loaded, spawned, cleared
<1>4. /\ ~running /\ starts < MaxStarts /\ starts' = starts + 1
      /\ UNCHANGED <<events, detached, exiting, stopping, told>>
  BY DEF Start
<1>5. /\ TypeOK /\ Valid(disk) /\ disk \in Config /\ faults \in Nat /\ starts' \in 0..MaxStarts
      /\ config = EmptyConfig /\ detached = {} /\ StoppingOK
  BY <1>4, DaemonAssumption DEF IInv, TypeOK, DownOK
<1>6. \A i \in Ids : disk.remotes[i] \in Record /\ loaded.remotes[i] = Reconciled(disk.remotes[i])
  BY <1>1, <1>5, FieldsOf
<1>7. ASSUME NEW i \in Ids
      PROVE /\ loaded.remotes[i] \in Record
            /\ loaded.remotes[i].lifecycle = Kept(i).lifecycle
            /\ loaded.remotes[i].endpoint = Kept(i).endpoint
            /\ (loaded.remotes[i].lifecycle = "removing")
                 = (loaded.remotes[i].observed = "removing")
  BY <1>5, <1>6, ReconciledFacts, ValidRecord DEF Kept
<1>8. loaded \in Config
  BY <1>1, <1>6, <1>7 DEF Config
<1>9. Valid(loaded)
  BY <1>5, <1>7, ValidAgain DEF Kept
<1>10. cleared \in Config /\ cleared.remotes = disk.remotes
  BY <1>3, <1>5 DEF Config
<1>11. CASE \E o \in Outcomes(loaded) \ {"ok"} :
              /\ disk' = Written(loaded, o, cleared)
              /\ faults' = faults + Charged(loaded, o)
              /\ UNCHANGED <<running, config, worker, op, cleaning>>
  <2>1. PICK o \in Outcomes(loaded) \ {"ok"} :
              /\ disk' = Written(loaded, o, cleared)
              /\ faults' = faults + Charged(loaded, o)
              /\ UNCHANGED <<running, config, worker, op, cleaning>>
    BY <1>11
  <2>2. faults' \in 0..MaxFaults
    BY <1>5, <1>8, <1>9, <2>1, SaveFacts
  <2>3. disk' \in {cleared, loaded}
    BY <2>1 DEF Written
  <2>4. disk' \in Config /\ Valid(disk)'
    BY <1>5, <1>8, <1>9, <1>10, <2>3 DEF Valid, Present
  <2>5. \A i \in Ids :
          Kept(i)'.lifecycle = Kept(i).lifecycle /\ Kept(i)'.endpoint = Kept(i).endpoint
    BY <1>7, <1>10, <2>3 DEF Kept
  <2>. QED
    BY <1>4, <1>5, <2>1, <2>2, <2>4, <2>5, NotStarted
<1>. DEFINE Up(failed) == [loaded EXCEPT !.remotes = [i \in Ids |->
                            IF i \in failed /\ Reconnecting(@[i])
                            THEN [@[i] EXCEPT !.observed = "error"] ELSE @[i]]]
            Resumes(failed, saved, up) ==
              /\ Cardinality(failed) <= 1 /\ saved \in Outcomes(up)
              /\ failed = {} => saved = "ok"
              /\ faults' = faults + Cardinality(failed) + Charged(up, saved)
              /\ faults' <= MaxFaults
              /\ running' = TRUE
              /\ config' = up /\ disk' = Written(up, saved, loaded)
              /\ worker' = [i \in Ids |-> IF i \in spawned \ failed
                              THEN Spawned(up.remotes[i].endpoint, Cleans(up.remotes[i]))
                              ELSE NoWorker]
              /\ op' = [i \in Ids |-> IF i \in spawned \ failed /\ Cleans(up.remotes[i])
                                      THEN StartupCleanup ELSE NoOperation]
              /\ cleaning' = [i \in Ids |-> IF Interrupted(up.remotes[i])
                                            THEN "tombstone" ELSE "no"]
<1>12. CASE \E failed \in SUBSET spawned, saved \in {"ok", "before", "unknown", "unread"} :
              Resumes(failed, saved, Up(failed))
  <2>. HIDE DEF Up, Resumes
  <2>0. PICK failed \in SUBSET spawned, saved \in {"ok", "before", "unknown", "unread"} :
           Resumes(failed, saved, Up(failed))
    BY <1>12
  <2>1. PICK up :
          /\ Resumes(failed, saved, up)
          /\ up = [loaded EXCEPT !.remotes = [i \in Ids |->
                     IF i \in failed /\ Reconnecting(loaded.remotes[i])
                     THEN [loaded.remotes[i] EXCEPT !.observed = "error"]
                     ELSE loaded.remotes[i]]]
    BY <2>0 DEF Up
  <2>2. faults' \in 0..MaxFaults
    <3>1. IsFiniteSet(failed)
      BY <1>2, WorkerAssumption, FS_Subset
    <3>2. Cardinality(failed) \in Nat
      BY <3>1, FS_CardinalityType
    <3>3. Charged(up, saved) \in {0, 1}
      BY DEF Charged
    <3>. QED
      BY <1>5, <2>1, <3>2, <3>3, DaemonAssumption DEF Resumes
  <2>3. PICK rs : rs = [i \in Ids |-> IF i \in failed /\ Reconnecting(loaded.remotes[i])
                                      THEN [loaded.remotes[i] EXCEPT !.observed = "error"]
                                      ELSE loaded.remotes[i]]
    OBVIOUS
  <2>4. ASSUME NEW i \in Ids
        PROVE /\ rs[i] \in Record /\ rs[i].lifecycle = Kept(i).lifecycle
              /\ rs[i].endpoint = Kept(i).endpoint
              /\ (rs[i].lifecycle = "removing") = (rs[i].observed = "removing")
              /\ i \in spawned \ failed => Reconnecting(rs[i]) \/ Cleans(rs[i])
              /\ i \notin spawned \ failed => ~Reconnecting(rs[i])
    <3>1. CASE i \in failed /\ Reconnecting(loaded.remotes[i])
      <4>1. rs[i] = [loaded.remotes[i] EXCEPT !.observed = "error"]
        BY <2>3, <3>1
      <4>2. /\ rs[i] \in Record /\ rs[i].lifecycle = loaded.remotes[i].lifecycle
            /\ rs[i].endpoint = loaded.remotes[i].endpoint /\ rs[i].observed = "error"
        BY <1>7, <4>1 DEF Record, Observed
      <4>. QED
        BY <1>7, <3>1, <4>2 DEF Reconnecting
    <3>2. CASE ~(i \in failed /\ Reconnecting(loaded.remotes[i]))
      <4>1. rs[i] = loaded.remotes[i]
        BY <2>3, <3>2
      <4>2. i \in spawned <=> Reconnecting(rs[i]) \/ Cleans(rs[i])
        BY <1>2, <4>1
      <4>3. Reconnecting(rs[i]) => i \in spawned \ failed
        BY <3>2, <4>1, <4>2
      <4>. QED
        BY <1>7, <4>1, <4>2, <4>3
    <3>. QED
      BY <3>1, <3>2
  <2>5. up \in Config /\ up.remotes = rs
    BY <1>8, <2>1, <2>3, <2>4 DEF Config, Resumes
  <2>6. Valid(up)
    BY <1>5, <2>4, <2>5, ValidAgain DEF Kept
  <2>7. disk' \in {up, loaded}
    BY <2>1 DEF Resumes, Written
  <2>8. ASSUME NEW i \in Ids
        PROVE /\ Rec(i)' = rs[i] /\ Kept(i)' \in {rs[i], loaded.remotes[i]}
              /\ cleaning'[i] = IF Interrupted(rs[i]) THEN "tombstone" ELSE "no"
              /\ i \in spawned \ failed =>
                   /\ worker'[i] = Spawned(rs[i].endpoint, Cleans(rs[i]))
                   /\ op'[i] = IF Cleans(rs[i]) THEN StartupCleanup ELSE NoOperation
              /\ i \notin spawned \ failed => worker'[i] = NoWorker /\ op'[i] = NoOperation
    BY <2>1, <2>5, <2>7 DEF Rec, Kept, Resumes
  <2>9. ASSUME NEW i \in Ids PROVE RemoteOK(i)' /\ TombstoneStep(i)
    <3>1. Kept(i)'.lifecycle = rs[i].lifecycle /\ Kept(i)'.endpoint = rs[i].endpoint
      BY <1>7, <2>4, <2>8
    <3>. QED
      BY <1>4, <2>1, <2>4, <2>8, <3>1, StartedRemote DEF Resumes
  <2>10. worker' \in [Ids -> Worker] /\ op' \in [Ids -> Operation]
    <3>1. ASSUME NEW i \in Ids
          PROVE Spawned(up.remotes[i].endpoint, Cleans(up.remotes[i])) \in Worker
      <4>1. Cleans(rs[i]) \in BOOLEAN /\ rs[i].endpoint \in Endpoints \cup {NoEndpoint}
        BY <2>4 DEF Cleans, Interrupted, Record
      <4>. QED
        BY <2>5, <4>1, SpawnedFacts
    <3>. QED
      BY <2>1, <3>1, NoWorkerFacts, Operations DEF Resumes
  <2>11. cleaning' \in [Ids -> {"no", "tombstone", "claimed", "asked"}]
    BY <2>1 DEF Resumes
  <2>12. TypeOK'
    BY <1>4, <1>5, <1>8, <2>1, <2>2, <2>5, <2>10, <2>11, <2>7 DEF TypeOK, WorkerTypeOK, Resumes
  <2>13. DownOK' /\ DetachedOK' /\ StoppingOK' /\ Valid(config)' /\ Valid(disk)'
    <3>1. DownOK' /\ DetachedOK' /\ StoppingOK'
      BY <1>4, <1>5, <2>1 DEF DownOK, DetachedOK, StoppingOK, Resumes
    <3>2. config' = up /\ Valid(config)'
      BY <2>1, <2>6 DEF Valid, Present, Resumes
    <3>3. Valid(disk)'
      BY <1>9, <2>6, <2>7 DEF Valid, Present
    <3>. QED
      BY <3>1, <3>2, <3>3
  <2>. QED
    BY <2>9, <2>12, <2>13 DEF IInv, Advances
<1>. QED
  BY <1>11, <1>12 DEF Start, loaded, spawned, cleared

-----------------------------------------------------------------------------
(* Every step, and the theorems.                                           *)

LEMMA NextKeeps == ASSUME IInv, [Next]_vars PROVE Advances
<1>1. CASE UNCHANGED vars
  <2>1. UNCHANGED <<worker, events, detached, cleaning, running, config, disk, op, exiting,
                    stopping, told, faults, starts>>
    BY <1>1 DEF vars, workerVars
  <2>2. TypeOK' /\ Valid(config)' /\ Valid(disk)' /\ DownOK' /\ DetachedOK' /\ StoppingOK'
    BY <2>1 DEF IInv, TypeOK, WorkerTypeOK, Valid, Present, DownOK, DetachedOK, StoppingOK
  <2>3. ASSUME NEW i \in Ids PROVE RemoteOK(i)' /\ TombstoneStep(i)
    <3>1. Rests(i) /\ RemoteOK(i)
      BY <2>1, Parts DEF Rests
    <3>2. Rec(i)' = Rec(i) /\ Kept(i)' = Kept(i)
      BY <2>1 DEF Rec, Kept
    <3>3. QueueOK(i, events[i], worker[i].phase)' /\ EndpointOK(i)' /\ SlotOK(i)'
      BY <2>1, <3>1, <3>2 DEF RemoteOK, EndpointOK, SlotOK, Tracked
    <3>4. ToldOK(i)' /\ TombstoneOK(i)'
      BY <2>1, <3>1, <3>2 DEF RemoteOK, ToldOK, TombstoneOK
    <3>5. (faults = 0 => ServedOK(i))'
      BY <2>1, <3>1, <3>2 DEF RemoteOK, ServedOK, Steady
    <3>6. TombstoneStep(i)
      BY <3>2 DEF TombstoneStep
    <3>. QED
      BY <3>3, <3>4, <3>5, <3>6 DEF RemoteOK
  <2>. QED
    BY <2>2, <2>3 DEF IInv, Advances
<1>2. ASSUME NEW i \in Ids, ControlRequest(i) PROVE Advances
  BY <1>2, AddKeeps, RetryKeeps, RemoveAgainKeeps, RemoveTrackedKeeps, RemoveUntrackedKeeps
  DEF ControlRequest
<1>3. ASSUME NEW i \in Ids, Expire(i) PROVE Advances
  BY <1>3, AddExpiresKeeps, AddCleanupExpiresKeeps, RemoveExpiresKeeps, RemoveGraceExpiresKeeps
  DEF Expire
<1>4. CASE RunReturns
  BY <1>4, GoneKeeps DEF RunReturns
<1>5. CASE Crash
  BY <1>5, GoneKeeps DEF Crash
<1>. QED
  BY <1>1, <1>2, <1>3, <1>4, <1>5, WorkerStepKeeps, HandleEventKeeps, OperationDueKeeps,
     ShutdownKeeps, ListenerFailedKeeps, ShutdownDueKeeps, ShutdownExpiresKeeps, StartKeeps DEF Next

\* What every reachable state satisfies.
LEMMA Invariance == Spec => []IInv
<1>1. Init => IInv
  BY InitHolds
<1>2. IInv /\ [Next]_vars => IInv'
  BY NextKeeps DEF Advances
<1>. QED
  BY <1>1, <1>2, PTL DEF Spec

\* The actor never holds, and never leaves on disk, a configuration that Config::validate
\* refuses: no failed save blocks every later one (Config::validate, src/src/config.rs:24).
THEOREM ConfigStaysValid == Spec => []ConfigValid
<1>1. IInv => ConfigValid
  BY DEF IInv, ConfigValid
<1>. QED
  BY <1>1, Invariance, PTL

\* A remote reported as added is active on disk until its removal is asked for, and of one
\* reported as removed nothing is left, over failed saves, crashes and restarts
\* (DaemonActor::ready and finish_remove, src/src/daemon.rs:950-1034 and 1157).
THEOREM AnswersStayTrue == Spec => []AnswersHold
<1>1. ASSUME IInv PROVE AnswersHold
  <2>1. ASSUME NEW i \in Ids, told[i] = "added" PROVE disk.remotes[i].lifecycle = "active"
    BY <1>1, <2>1 DEF IInv, RemoteOK, ToldOK, Kept
  <2>2. ASSUME NEW i \in Ids, told[i] = "removed"
        PROVE /\ ~Present(disk, i) /\ ~Tracked(i) /\ op[i] = NoOperation
              /\ running => ~Present(config, i)
    <3>1. Rec(i).lifecycle = "absent" /\ Kept(i).lifecycle = "absent" /\ SlotOK(i)
      BY <1>1, <2>2 DEF IInv, RemoteOK, ToldOK
    <3>. QED
      BY <3>1 DEF SlotOK, Present, Rec, Kept
  <2>. QED
    BY <2>1, <2>2 DEF AnswersHold, AddedSurvives, RemovedIsGone
<1>. QED
  BY <1>1, Invariance, PTL

\* While every save and spawn succeeds no worker is lost, and an active remote that is not in
\* error has one, unless its target came to reach another's endpoint (DaemonActor::retry,
\* identity and worker_stopped, src/src/daemon.rs:595, 831 and 1095).
THEOREM ServedWhileSavesSucceed == Spec => []ServedWhenSaved
<1>1. ASSUME IInv PROVE ServedWhenSaved
  <2> SUFFICES ASSUME faults = 0, NEW i \in Ids, Steady(i) PROVE detached = {} /\ Served(i)
    BY <1>1 DEF ServedWhenSaved, IInv, DetachedOK
  <2>1. ServedOK(i) /\ SlotOK(i) /\ detached = {}
    BY <1>1 DEF IInv, RemoteOK, DetachedOK
  <2>2. ASSUME ~Tracked(i) PROVE ~Sane(events[i], worker[i])
    BY <2>1, <2>2, EmptyQueue, NoWorkerFacts DEF SlotOK, Sane
  <2>. QED
    BY <2>1, <2>2 DEF ServedOK, Served, Lifecycle, Observes, Rec
<1>. QED
  BY <1>1, Invariance, PTL

\* A removal recorded on disk is never taken back, whatever is saved, lost or read again
\* (DaemonActor::remove and reconcile_startup, src/src/daemon.rs:662 and 377).
THEOREM TombstonesStay == Spec => TombstoneStays
<1>1. ASSUME IInv, [Next]_vars
      PROVE [\A i \in Ids : disk.remotes[i].lifecycle = "removing" =>
                disk'.remotes[i].lifecycle \in {"removing", "absent"}]_vars
  BY <1>1, NextKeeps DEF Advances, TombstoneStep, Kept
<1>. QED
  BY <1>1, Invariance, PTL DEF Spec, TombstoneStays

\* A record that a start found interrupted stays on disk, never active, until its worker
\* owned the endpoint on record or the user asked for its removal anew
\* (DaemonActor::worker_stopped, src/src/daemon.rs:1095; remove, 662).
THEOREM CleanupsAreConfirmed == Spec => []CleanupConfirmed
<1>1. ASSUME IInv PROVE CleanupConfirmed
  <2>1. ASSUME NEW i \in Ids
        PROVE /\ cleaning[i] = "tombstone" => Present(disk, i)
              /\ cleaning[i] # "no" => disk.remotes[i].lifecycle # "active"
    BY <1>1 DEF IInv, RemoteOK, TombstoneOK, Kept, Present
  <2>. QED
    BY <2>1 DEF CleanupConfirmed
<1>. QED
  BY <1>1, Invariance, PTL
=============================================================================
