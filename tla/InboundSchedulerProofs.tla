----------------------- MODULE InboundSchedulerProofs -----------------------
(***************************************************************************)
(* The inbound scheduler keeps its types, its two lists exact and its map    *)
(* free of leaks for every set of requests, every limit and every stream of   *)
(* the peer. QInv, the conjunction of the three, is inductive; each action is *)
(* one critical section of InboundQueue, whose lemma does the work.          *)
(*                                                                         *)
(* NoSilentGap needs more: what is queued is ahead of what was popped        *)
(* (StreamAhead), a loss not reported is behind a pending overload whose      *)
(* accepted frames were sent before it (LossAhead), and an ID never used has  *)
(* no queue, so its first invocation starts with nothing lost (Unused).      *)
(*                                                                         *)
(* Bounded needs the counters exact (Exact), the totals as the number of      *)
(* places taken by all IDs (Places), and the rules of retention instead of    *)
(* the bound they imply (RetainedOK).                                        *)
(***************************************************************************)
EXTENDS InboundScheduler, InboundQueueProofs

PeerTypeOK ==
  /\ sent \in [Id -> Nat]
  /\ opens \in [Id -> Nat]
  /\ sending \in [Id -> {"idle", "open", "eof", "done"}]
  /\ cancelled \in [Id -> BOOLEAN]
  /\ controls \in Nat
  /\ discarding \in Id \cup {NoId}
  /\ last \in [Id -> Nat]
  /\ lost \in [Id -> Nat \cup {Reported}]

IInv == QInv /\ PeerTypeOK

\* The invariant holds initially.
LEMMA InitIInv == Init => IInv
<1> SUFFICES ASSUME Init PROVE IInv
  OBVIOUS
<1>1. QInv
  BY QueueInitKeeps DEF Init
<1>2. PeerTypeOK
  BY DEF Init, PeerTypeOK
<1>3. QED
  BY <1>1, <1>2 DEF IInv

\* What the peer sends is a frame, and its own counters keep their types.
LEMMA PeerSendsTypes ==
  ASSUME PeerTypeOK, NEW id \in Id, NEW kind \in Kind, PeerSends(id, kind)
  PROVE  /\ sent' \in [Id -> Nat] /\ opens' \in [Id -> Nat]
         /\ sending' \in [Id -> {"idle", "open", "eof", "done"}]
         /\ cancelled' \in [Id -> BOOLEAN] /\ controls' \in Nat
         /\ NextFrame(id, kind) \in Frame
<1>1. sent' \in [Id -> Nat] /\ controls' \in Nat
  BY DEF PeerTypeOK, PeerSends
<1>2. NextFrame(id, kind) \in Frame
  BY DEF PeerTypeOK, NextFrame, Frame
<1>3. CASE BrokerSide
  BY <1>1, <1>2, <1>3 DEF PeerTypeOK, PeerSends, ExecutorSends
<1>4. CASE ~BrokerSide
  <2>1. BrokerSends(id, kind)
    BY <1>4 DEF PeerSends
  <2>2. opens' \in [Id -> Nat]
    BY <2>1 DEF PeerTypeOK, BrokerSends
  <2>3. sending' \in [Id -> {"idle", "open", "eof", "done"}]
    BY <2>1 DEF PeerTypeOK, BrokerSends
  <2>4. cancelled' \in [Id -> BOOLEAN]
    BY <2>1 DEF PeerTypeOK, BrokerSends
  <2>5. QED
    BY <1>1, <1>2, <2>2, <2>3, <2>4
<1>5. QED
  BY <1>3, <1>4

\* The position of a loss is a number or marked as reported.
LEMMA LostBeforeType ==
  ASSUME PeerTypeOK, NEW id \in Id
  PROVE  LostBefore(id) \in Nat \cup {Reported}
  BY DEF PeerTypeOK, LostBefore

\* Every step of the reader and of the main loop keeps the invariant.
LEMMA NextIInv == IInv /\ [Next]_vars => IInv'
<1> SUFFICES ASSUME IInv, [Next]_vars PROVE IInv'
  OBVIOUS
<1> USE DEF IInv
<1>1. CASE ReceiveControl
  <2>1. QInv'
    BY <1>1, ControlAndTransportKeep DEF ReceiveControl
  <2>2. PeerTypeOK'
    BY <1>1 DEF PeerTypeOK, ReceiveControl
  <2>3. QED
    BY <2>1, <2>2
<1>2. CASE ConnectionLost
  <2>1. QInv'
    BY <1>2, ControlAndTransportKeep DEF ConnectionLost
  <2>2. QED
    BY <1>2, <2>1 DEF PeerTypeOK, ConnectionLost, peerVars
<1>3. ASSUME NEW id \in Id, ReceiveAccepted(id) PROVE IInv'
  <2>1. PICK kind \in Kind : /\ PeerSends(id, kind)
                             /\ EnqueueRequest(id, NextFrame(id, kind))
                             /\ lost' = [lost EXCEPT ![id] = LostBefore(id)]
    BY <1>3 DEF ReceiveAccepted
  <2>2. QInv'
    BY <2>1, PeerSendsTypes, EnqueueRequestKeeps
  <2>3. discarding' = discarding /\ last' = last
    BY <1>3 DEF ReceiveAccepted
  <2>4. lost' \in [Id -> Nat \cup {Reported}]
    BY <2>1, LostBeforeType DEF PeerTypeOK
  <2>5. PeerTypeOK'
    BY <2>1, <2>3, <2>4, PeerSendsTypes DEF PeerTypeOK
  <2>6. QED
    BY <2>2, <2>5
<1>4. ASSUME NEW id \in Id, ReceiveOverflow(id) PROVE IInv'
  <2>1. PICK kind \in Kind, budgetFull \in BOOLEAN :
          /\ PeerSends(id, kind)
          /\ EnqueueOverflow(id, NextFrame(id, kind), budgetFull /\ ~BrokerSide)
          /\ lost' = [lost EXCEPT ![id] =
               IF retained'[id] = retained[id] /\ LostBefore(id) = 0
               THEN sent'[id] ELSE LostBefore(id)]
    BY <1>4 DEF ReceiveOverflow
  <2>2. (budgetFull /\ ~BrokerSide) \in BOOLEAN
    BY InboundAssumption
  <2>3. QInv'
    BY <2>1, <2>2, PeerSendsTypes, EnqueueOverflowKeeps
  <2>4. discarding' = discarding /\ last' = last
    BY <1>4 DEF ReceiveOverflow
  <2>5. sent'[id] \in Nat
    BY <2>1, PeerSendsTypes
  <2>6. lost' \in [Id -> Nat \cup {Reported}]
    BY <2>1, <2>5, LostBeforeType DEF PeerTypeOK
  <2>7. PeerTypeOK'
    BY <2>1, <2>4, <2>6, PeerSendsTypes DEF PeerTypeOK
  <2>8. QED
    BY <2>3, <2>7
<1>5. ASSUME NEW id \in Id, ReceiveRefused(id) PROVE IInv'
  <2>1. PICK kind \in Kind : PeerSends(id, kind)
    BY <1>5 DEF ReceiveRefused
  <2>2. QInv'
    BY <1>5, ControlAndTransportKeep DEF ReceiveRefused
  <2>3. PeerTypeOK'
    BY <1>5, <2>1, PeerSendsTypes DEF PeerTypeOK, ReceiveRefused
  <2>4. QED
    BY <2>2, <2>3
<1>6. CASE TakeControl
  <2>1. QInv'
    BY <1>6, ControlAndTransportKeep DEF TakeControl
  <2>2. QED
    BY <1>6, <2>1 DEF PeerTypeOK, TakeControl, peerVars
<1>7. CASE TakeTransport
  <2>1. QInv'
    BY <1>7, ControlAndTransportKeep DEF TakeTransport
  <2>2. QED
    BY <1>7, <2>1 DEF PeerTypeOK, TakeTransport, peerVars
<1>8. ASSUME NEW id \in Id, TakeCancel(id) PROVE IInv'
  <2>1. QInv'
    BY <1>8, PopCancelKeeps DEF TakeCancel
  <2>2. QED
    BY <1>8, <2>1 DEF PeerTypeOK, TakeCancel, peerVars
<1>9. ASSUME NEW id \in Id, DiscardAfterCancel(id) PROVE IInv'
  <2>1. CASE mode[id] = "absent"
    <3>1. QInv'
      BY <1>9, <2>1, QueuesUnchanged DEF DiscardAfterCancel
    <3>2. QED
      BY <1>9, <3>1 DEF DiscardAfterCancel, PeerTypeOK, peerVars
  <2>2. CASE mode[id] # "absent"
    <3>1. QInv'
      BY <1>9, <2>2, DiscardRequestInputKeeps DEF DiscardAfterCancel
    <3>2. QED
      BY <1>9, <3>1 DEF DiscardAfterCancel, PeerTypeOK, peerVars
  <2>3. QED
    BY <2>1, <2>2
<1>10. ASSUME NEW id \in Id, TakeOverload(id) PROVE IInv'
  <2>1. QInv'
    BY <1>10, PopOverloadKeeps DEF TakeOverload
  <2>2. QED
    BY <1>10, <2>1 DEF PeerTypeOK, TakeOverload, peerVars
<1>11. ASSUME NEW id \in Id, TakeReady(id) PROVE IInv'
  <2>1. PICK gate \in SUBSET Id, f \in At(events[id]) \cup At(retained[id]) :
          /\ PopReady(id, f, gate)
          /\ last' = [last EXCEPT ![id] = f.n]
    BY <1>11 DEF TakeReady
  <2>2. QInv'
    BY <2>1, PopReadyKeeps
  <2>3. f.n \in Nat
    <3>1. events[id] \in Seq(Frame) /\ retained[id] \in Seq(Frame)
      BY DEF QInv, QueueTypeOK
    <3>2. f \in Frame
      BY <3>1, AtSubset
    <3>3. QED
      BY <3>2 DEF Frame
  <2>4. PeerTypeOK'
    BY <1>11, <2>1, <2>3 DEF PeerTypeOK, TakeReady, peerVars
  <2>5. QED
    BY <2>2, <2>4
<1>12. ASSUME NEW id \in Id, NEW c \in Id, TakeCancelOverloaded(c, id) PROVE IInv'
  <2>1. QInv'
    BY <1>12, PopCancelOverloadedKeeps DEF TakeCancelOverloaded
  <2>2. events[c] # <<>> => events[c][1].n \in Nat
    <3>1. events[c] \in Seq(Frame)
      BY DEF QInv, QueueTypeOK
    <3>2. events[c] # <<>> => 1 \in 1 .. Len(events[c])
      BY <3>1, EmptySeq
    <3>3. events[c] # <<>> => events[c][1] \in Frame
      BY <3>1, <3>2, ElementOfSeq
    <3>4. QED
      BY <3>3 DEF Frame
  <2>3. lost' \in [Id -> Nat \cup {Reported}]
    BY <1>12, <2>2 DEF PeerTypeOK, TakeCancelOverloaded
  <2>4. PeerTypeOK'
    BY <1>12, <2>3 DEF PeerTypeOK, TakeCancelOverloaded, peerVars
  <2>5. QED
    BY <2>1, <2>4
<1>13. ASSUME NEW id \in Id, RequestFinishes(id) PROVE IInv'
  <2>1. PeerTypeOK'
    BY <1>13 DEF RequestFinishes, PeerTypeOK
  <2>2. QInv'
    BY <1>13, QueuesUnchanged DEF RequestFinishes
  <2>3. QED
    BY <2>1, <2>2
<1>14. CASE UNCHANGED vars
  BY <1>14, QueuesUnchanged DEF vars, peerVars, PeerTypeOK
<1>15. QED
  BY <1>1, <1>2, <1>3, <1>4, <1>5, <1>6, <1>7, <1>8, <1>9, <1>10, <1>11, <1>12, <1>13,
     <1>14 DEF Next, Reader, MainLoop

\* The inductive invariant of the scheduler holds in every behaviour.
THEOREM IInvHolds == Spec => []IInv
  BY InitIInv, NextIInv, PTL DEF Spec

\* Type correctness, for every set of requests, every limit and every bound.
THEOREM TypeCorrect == Spec => []TypeOK
<1>1. IInv => TypeOK
  BY DEF IInv, QInv, PeerTypeOK, TypeOK
<1>2. QED
  BY <1>1, IInvHolds, PTL

\* The ready and overload lists that enqueue, pop_inbound_matching and
\* discard_request_input maintain by hand are exact: nothing accepted is stranded.
THEOREM ListsExact == Spec => []IndexExact
<1>1. IInv => IndexExact
  BY DEF IInv, QInv
<1>2. QED
  BY <1>1, IInvHolds, PTL

\* The map of request queues holds live requests only.
THEOREM NoLeak == Spec => []NoLeakedQueue
<1>1. IInv => NoLeakedQueue
  BY DEF IInv, QInv
<1>2. QED
  BY <1>1, IInvHolds, PTL

\* The queues, the two lists and the map agree, in every reachable state.
THEOREM QueuesAreExact == Spec => []QueuesExact
  BY ListsExact, NoLeak, PTL DEF QueuesExact

-----------------------------------------------------------------------------
(* The invariant behind NoSilentGap.                                       *)

\* What is queued was sent after the frame popped last, and stands in order.
StreamAhead(id) ==
  /\ FramesInOrder(id)
  /\ last[id] <= sent[id]
  /\ \A f \in Queued(id) : last[id] < f.n /\ f.n <= sent[id]

\* In the first invocation of an ID, a loss that is not reported is behind a
\* pending overload, whose accepted frames were all sent before it.
LossAhead(id) ==
  opens[id] <= 1 =>
    /\ lost[id] > 0 => mode[id] = "overloaded" /\ \A f \in At(events[id]) : f.n < lost[id]
    /\ mode[id] = "announced" => lost[id] = Reported

\* Before the broker opens an invocation the executor has no queue for its ID.
Unused(id) ==
  (~BrokerSide /\ opens[id] = 0) =>
    sending[id] = "idle" /\ mode[id] = "absent" /\ lost[id] = 0

GapOK(id) == StreamAhead(id) /\ LossAhead(id) /\ Unused(id)

\* The types of what the invariant compares.
LEMMA GapTypes ==
  ASSUME IInv, NEW id \in Id
  PROVE  /\ events[id] \in Seq(Frame) /\ retained[id] \in Seq(Frame)
         /\ \A f \in Queued(id) : f \in Frame /\ f.n \in Nat
         /\ sent[id] \in Nat /\ opens[id] \in Nat /\ last[id] \in Nat
         /\ lost[id] \in Nat \cup {Reported} /\ mode[id] \in Mode
<1>1. /\ events[id] \in Seq(Frame) /\ retained[id] \in Seq(Frame) /\ mode[id] \in Mode
  BY DEF IInv, QInv, QueueTypeOK
<1>2. \A f \in Queued(id) : f \in Frame /\ f.n \in Nat
  BY <1>1, FramesAt DEF Queued
<1>3. /\ sent[id] \in Nat /\ opens[id] \in Nat /\ last[id] \in Nat
      /\ lost[id] \in Nat \cup {Reported}
  BY DEF IInv, PeerTypeOK
<1>4. QED
  BY <1>1, <1>2, <1>3

\* Frames leave the queue: those that stay are ahead of what was popped.
LEMMA ThinsGap ==
  ASSUME IInv, IInv', NEW id \in Id, GapOK(id), Shrinks(id), ModeStays(id),
         sent'[id] = sent[id], opens'[id] = opens[id], sending'[id] = sending[id],
         lost'[id] = lost[id],
         \/ last'[id] = last[id]
         \/ last'[id] <= sent[id] /\ \A g \in Queued(id)' : last'[id] < g.n
  PROVE  GapOK(id)'
<1>1. /\ FramesInOrder(id)' /\ At(events'[id]) \subseteq At(events[id])
      /\ Queued(id)' \subseteq Queued(id)
  BY DEF Shrinks, Queued
<1>2. StreamAhead(id)'
  BY <1>1 DEF GapOK, StreamAhead
<1>3. LossAhead(id)'
  BY <1>1 DEF GapOK, LossAhead, ModeStays
<1>4. Unused(id)'
  BY InboundAssumption DEF GapOK, Unused, ModeStays
<1>5. QED
  BY <1>2, <1>3, <1>4 DEF GapOK

\* A step that touches neither the queue nor the stream of the request.
LEMMA AloneGap ==
  ASSUME IInv, IInv', NEW id \in Id, GapOK(id), events'[id] = events[id],
         retained'[id] = retained[id], mode'[id] = mode[id], sent'[id] = sent[id],
         opens'[id] = opens[id], sending'[id] = sending[id], lost'[id] = lost[id],
         last'[id] = last[id]
  PROVE  GapOK(id)'
<1>1. Shrinks(id) /\ ModeStays(id)
  BY OtherQueue DEF GapOK, StreamAhead, Thins
<1>2. QED
  BY <1>1, ThinsGap

\* What a frame of the peer does to its own stream, and to no other.
LEMMA PeerSendsStream ==
  ASSUME IInv, NEW id \in Id, NEW kind \in Kind, PeerSends(id, kind), NEW x \in Id
  PROVE  /\ x # id => /\ sent'[x] = sent[x] /\ opens'[x] = opens[x]
                      /\ sending'[x] = sending[x]
         /\ sent'[id] = sent[id] + 1
         /\ opens'[id] = opens[id] \/ (~BrokerSide /\ opens'[id] = opens[id] + 1)
         /\ ~BrokerSide /\ sending[id] = "idle" => opens'[id] = opens[id] + 1
<1>1. sent' = [sent EXCEPT ![id] = @ + 1]
  BY DEF PeerSends
<1>2. CASE BrokerSide
  <2>1. opens' = opens /\ \E s : sending' = sending \/ sending' = [sending EXCEPT ![id] = s]
    BY <1>2, Zenon DEF PeerSends, ExecutorSends
  <2>2. QED
    BY <1>1, <1>2, <2>1 DEF IInv, PeerTypeOK
<1>3. CASE ~BrokerSide
  <2>1. BrokerSends(id, kind)
    BY <1>3 DEF PeerSends
  <2>2. /\ opens' = opens \/ opens' = [opens EXCEPT ![id] = opens[id] + 1]
        /\ sending[id] = "idle" => opens' = [opens EXCEPT ![id] = opens[id] + 1]
    BY <2>1 DEF BrokerSends
  <2>3. \E s : sending' = sending \/ sending' = [sending EXCEPT ![id] = s]
    BY <2>1, Zenon DEF BrokerSends
  <2>4. /\ opens \in [Id -> Nat]
        /\ sending \in [Id -> {"idle", "open", "eof", "done"}] /\ sent \in [Id -> Nat]
    BY DEF IInv, PeerTypeOK
  <2>5. x # id => opens'[x] = opens[x] /\ sent'[x] = sent[x]
    BY <1>1, <2>2, <2>4
  <2>6. x # id => sending'[x] = sending[x]
    BY <2>3, <2>4
  <2>7. QED
    BY <1>1, <1>3, <2>2, <2>4, <2>5, <2>6
<1>4. QED
  BY <1>2, <1>3

\* In the first invocation no loss of an earlier one is forgotten: there is none.
LEMMA LostStays ==
  ASSUME IInv, NEW id \in Id, GapOK(id), NEW kind \in Kind, PeerSends(id, kind),
         opens'[id] <= 1
  PROVE  opens[id] <= 1 /\ LostBefore(id) = lost[id]
<1>1. /\ opens[id] \in Nat
      /\ opens'[id] = opens[id] \/ (~BrokerSide /\ opens'[id] = opens[id] + 1)
  BY GapTypes, PeerSendsStream
<1>2. CASE opens'[id] = opens[id]
  BY <1>2 DEF LostBefore, StartsInvocation
<1>3. CASE ~BrokerSide /\ opens'[id] = opens[id] + 1
  <2>1. opens[id] = 0
    BY <1>1, <1>3
  <2>2. lost[id] = 0
    BY <1>3, <2>1 DEF GapOK, Unused
  <2>3. QED
    BY <2>1, <2>2 DEF LostBefore, Reported
<1>4. QED
  BY <1>1, <1>2, <1>3

\* The next frame of the request arrives, whatever enqueue makes of it.
LEMMA ArrivesGap ==
  ASSUME IInv, NEW id \in Id, GapOK(id), NEW kind \in Kind, PeerSends(id, kind),
         Arrives(id, NextFrame(id, kind)), last' = last, LossAhead(id)'
  PROVE  GapOK(id)'
<1> DEFINE f == NextFrame(id, kind)
<1>1. /\ sent[id] \in Nat /\ last[id] \in Nat /\ opens[id] \in Nat
      /\ \A g \in Queued(id) : g.n \in Nat
      /\ f.n = sent[id] + 1 /\ sent'[id] = sent[id] + 1
  BY GapTypes, PeerSendsStream DEF NextFrame
<1>2. FramesInOrder(id)' /\ Queued(id)' \subseteq Queued(id) \cup {f}
  BY DEF Arrives, Queued
<1> HIDE DEF f
<1>3. last[id] <= sent[id] /\ \A g \in Queued(id) : last[id] < g.n /\ g.n <= sent[id]
  BY DEF GapOK, StreamAhead
<1>4. \A g \in Queued(id)' : last[id] < g.n /\ g.n <= sent[id] + 1
  BY <1>1, <1>2, <1>3
<1>5. StreamAhead(id)'
  BY <1>1, <1>2, <1>3, <1>4 DEF StreamAhead
<1>6. Unused(id)'
  <2>1. ~BrokerSide => opens'[id] # 0
    BY <1>1, PeerSendsStream DEF GapOK, Unused
  <2>2. QED
    BY <2>1 DEF Unused
<1>7. QED
  BY <1>5, <1>6 DEF GapOK

\* What the peer sends is numbered after all that is queued.
LEMMA NextFrameLast ==
  ASSUME IInv, NEW id \in Id, GapOK(id), NEW kind \in Kind, PeerSends(id, kind)
  PROVE  /\ NextFrame(id, kind) \in Frame
         /\ \A g \in Queued(id) : g.n < NextFrame(id, kind).n
         /\ NextFrame(id, kind).n = sent'[id]
<1>1. NextFrame(id, kind) \in Frame
  BY PeerSendsTypes DEF IInv
<1>2. /\ sent[id] \in Nat /\ \A g \in Queued(id) : g.n \in Nat /\ g.n <= sent[id]
  BY GapTypes DEF GapOK, StreamAhead
<1>3. NextFrame(id, kind).n = sent[id] + 1 /\ sent'[id] = sent[id] + 1
  BY PeerSendsStream DEF NextFrame
<1>4. QED
  BY <1>1, <1>2, <1>3

\* The frame is accepted: then no loss is pending.
LEMMA ReceiveAcceptedGap ==
  ASSUME IInv, IInv', NEW c \in Id, ReceiveAccepted(c), NEW id \in Id, GapOK(id)
  PROVE  GapOK(id)'
<1>1. PICK kind \in Kind : /\ PeerSends(c, kind)
                           /\ EnqueueRequest(c, NextFrame(c, kind))
                           /\ lost' = [lost EXCEPT ![c] = LostBefore(c)]
  BY DEF ReceiveAccepted
<1>2. last' = last
  BY DEF ReceiveAccepted
<1>3. /\ events \in [Id -> Seq(Frame)] /\ retained' = retained /\ mode \in [Id -> Mode]
      /\ mode' = [mode EXCEPT ![c] = "normal"] /\ lost \in [Id -> Nat \cup {Reported}]
      /\ events' = [events EXCEPT ![c] = Append(@, NextFrame(c, kind))]
  BY <1>1 DEF IInv, QInv, QueueTypeOK, PeerTypeOK, EnqueueRequest
<1>4. CASE c # id
  <2>1. /\ events'[id] = events[id] /\ retained'[id] = retained[id]
        /\ mode'[id] = mode[id] /\ lost'[id] = lost[id]
    BY <1>1, <1>3, <1>4
  <2>2. QED
    BY <1>1, <1>2, <1>4, <2>1, PeerSendsStream, AloneGap
<1>5. CASE c = id
  <2>1. Arrives(id, NextFrame(id, kind))
    BY <1>1, <1>5, NextFrameLast, EnqueueArrives DEF IInv, GapOK, StreamAhead
  <2>2. mode[id] # "overloaded"
    BY <1>1, <1>5 DEF EnqueueRequest, Overflows
  <2>3. mode'[id] = "normal" /\ lost'[id] = LostBefore(id)
    BY <1>1, <1>3, <1>5
  <2>4. LossAhead(id)'
    <3>1. opens'[id] <= 1 => ~ (lost'[id] > 0)
      BY <1>1, <1>5, <2>2, <2>3, LostStays DEF GapOK, LossAhead
    <3>2. QED
      BY <2>3, <3>1 DEF LossAhead
  <2>5. QED
    BY <1>1, <1>2, <1>5, <2>1, <2>4, ArrivesGap
<1>6. QED
  BY <1>4, <1>5

\* The frame exceeds a limit: if it is dropped, an overload reports it before
\* anything sent after it.
LEMMA ReceiveOverflowGap ==
  ASSUME IInv, IInv', NEW c \in Id, ReceiveOverflow(c), NEW id \in Id, GapOK(id)
  PROVE  GapOK(id)'
<1>1. PICK kind \in Kind, budgetFull \in BOOLEAN :
        /\ PeerSends(c, kind)
        /\ EnqueueOverflow(c, NextFrame(c, kind), budgetFull /\ ~BrokerSide)
        /\ lost' = [lost EXCEPT ![c] =
             IF retained'[c] = retained[c] /\ LostBefore(c) = 0
             THEN sent'[c] ELSE LostBefore(c)]
  BY DEF ReceiveOverflow
<1>2. last' = last
  BY DEF ReceiveOverflow
<1>3. /\ events' = events /\ retained \in [Id -> Seq(Frame)] /\ mode \in [Id -> Mode]
      /\ mode' = [mode EXCEPT ![c] =
           IF mode[c] \in {"absent", "normal"} THEN "overloaded" ELSE @]
      /\ \E s : retained' = [retained EXCEPT ![c] = s]
      /\ lost \in [Id -> Nat \cup {Reported}]
  BY <1>1, Zenon DEF IInv, QInv, QueueTypeOK, PeerTypeOK, EnqueueOverflow
<1>4. CASE c # id
  <2>1. /\ events'[id] = events[id] /\ retained'[id] = retained[id]
        /\ mode'[id] = mode[id] /\ lost'[id] = lost[id]
    BY <1>1, <1>3, <1>4
  <2>2. QED
    BY <1>1, <1>2, <1>4, <2>1, PeerSendsStream, AloneGap
<1>5. CASE c = id
  <2>1. Arrives(id, NextFrame(id, kind))
    BY <1>1, <1>5, NextFrameLast, OverflowArrives DEF IInv, GapOK, StreamAhead
  <2>2. /\ mode'[id] \in {"overloaded", "announced"}
        /\ mode'[id] = "announced" => mode[id] = "announced"
        /\ mode[id] = "overloaded" => mode'[id] = "overloaded"
    BY <1>3, <1>5 DEF Mode
  <2>3. \/ lost'[id] = LostBefore(id)
        \/ lost'[id] = sent'[id] /\ LostBefore(id) = 0
    BY <1>1, <1>3, <1>5
  <2>4. /\ sent[id] \in Nat /\ lost[id] \in Nat \cup {Reported}
        /\ \A g \in Queued(id) : g.n \in Nat /\ g.n <= sent[id]
        /\ sent'[id] = sent[id] + 1
    BY <1>1, <1>5, GapTypes, PeerSendsStream DEF GapOK, StreamAhead
  <2>5. LossAhead(id)'
    <3> SUFFICES ASSUME opens'[id] <= 1
                 PROVE  /\ lost'[id] > 0 =>
                             /\ mode'[id] = "overloaded"
                             /\ \A f \in At(events[id]) : f.n < lost'[id]
                        /\ mode'[id] = "announced" => lost'[id] = Reported
      BY <1>3 DEF LossAhead
    <3>1. opens[id] <= 1 /\ LostBefore(id) = lost[id]
      BY <1>1, <1>5, LostStays
    <3>2. /\ lost[id] > 0 => /\ mode[id] = "overloaded"
                             /\ \A f \in At(events[id]) : f.n < lost[id]
          /\ mode[id] = "announced" => lost[id] = Reported
      BY <3>1 DEF GapOK, LossAhead
    <3>3. CASE lost'[id] = lost[id]
      BY <2>2, <3>2, <3>3
    <3>4. CASE lost'[id] = sent'[id] /\ lost[id] = 0
      <4>1. mode'[id] = "overloaded"
        BY <2>2, <3>2, <3>4 DEF Reported
      <4>2. \A f \in At(events[id]) : f.n < lost'[id]
        BY <2>4, <3>4 DEF Queued
      <4>3. QED
        BY <4>1, <4>2
    <3>5. QED
      BY <2>3, <3>1, <3>3, <3>4
  <2>6. QED
    BY <1>1, <1>2, <1>5, <2>1, <2>5, ArrivesGap
<1>6. QED
  BY <1>4, <1>5

\* The frame is of one request ID too many: the channel ends.
LEMMA ReceiveRefusedGap ==
  ASSUME IInv, IInv', NEW c \in Id, ReceiveRefused(c), NEW id \in Id, GapOK(id)
  PROVE  GapOK(id)'
<1>1. PICK kind \in Kind : PeerSends(c, kind)
  BY DEF ReceiveRefused
<1>2. /\ TooManyRequests(c) /\ last' = last /\ lost' = lost
      /\ events' = events /\ retained' = retained /\ mode' = mode
  BY DEF ReceiveRefused, TooManyRequests, SetTerminal, requestVars
<1>3. CASE c # id
  BY <1>1, <1>2, <1>3, PeerSendsStream, AloneGap
<1>4. CASE c = id
  <2>1. Arrives(id, NextFrame(id, kind))
    BY <1>1, <1>2, <1>4, NextFrameLast, RefusalArrives DEF GapOK, StreamAhead
  <2>2. LossAhead(id)'
    BY <1>1, <1>2, <1>4, LostStays DEF GapOK, LossAhead
  <2>3. QED
    BY <1>1, <1>2, <1>4, <2>1, <2>2, ArrivesGap
<1>5. QED
  BY <1>3, <1>4

\* An overload is popped: its loss is reported. A Cancel behind another one may
\* have dropped accepted frames, and the overload of those is still pending.
LEMMA OverloadGap ==
  ASSUME IInv, IInv', NEW o \in Id,
         TakeOverload(o) \/ \E c \in Id : TakeCancelOverloaded(c, o),
         NEW id \in Id, GapOK(id)
  PROVE  GapOK(id)'
<1>1. /\ mode[o] = "overloaded" /\ events'[o] = <<>> /\ retained' = retained
      /\ \A x \in Id : \/ events'[x] = events[x]
                       \/ events'[x] = <<>> /\ mode[x] = "overloaded"
      /\ \A x \in Id \ {o} : mode'[x] = mode[x]
  BY OverloadPopped DEF IInv, TakeOverload, TakeCancelOverloaded
<1>2. UNCHANGED peerVars /\ last' = last
  BY DEF TakeOverload, TakeCancelOverloaded
<1>3. /\ FramesInOrder(id)' /\ Queued(id)' \subseteq Queued(id)
      /\ At(events'[id]) \subseteq At(events[id])
  BY <1>1, EmptiedShrinks DEF IInv, GapOK, StreamAhead, Shrinks, Queued
<1>4. StreamAhead(id)'
  BY <1>2, <1>3 DEF GapOK, StreamAhead, peerVars
<1>5. lost \in [Id -> Nat \cup {Reported}]
  BY DEF IInv, PeerTypeOK
<1>6. CASE id = o
  <2>1. lost'[id] = Reported
    BY <1>5, <1>6 DEF TakeOverload, TakeCancelOverloaded
  <2>2. LossAhead(id)'
    BY <2>1 DEF LossAhead, Reported
  <2>3. Unused(id)'
    BY <1>1, <1>2, <1>6 DEF GapOK, Unused, peerVars
  <2>4. QED
    BY <1>4, <2>2, <2>3 DEF GapOK
<1>7. CASE id # o
  <2>1. mode'[id] = mode[id]
    BY <1>1, <1>7
  <2>2. CASE lost'[id] = lost[id]
    <3>1. LossAhead(id)' /\ Unused(id)'
      BY <1>2, <1>3, <2>1, <2>2 DEF GapOK, LossAhead, Unused, peerVars
    <3>2. QED
      BY <1>4, <3>1 DEF GapOK
  <2>3. CASE mode[id] = "overloaded" /\ events'[id] = <<>>
    <3>1. At(events'[id]) = {}
      BY <2>3 DEF At
    <3>2. LossAhead(id)' /\ Unused(id)'
      BY <1>2, <2>1, <2>3, <3>1 DEF GapOK, LossAhead, Unused, peerVars
    <3>3. QED
      BY <1>4, <3>2 DEF GapOK
  <2>4. lost'[id] = lost[id] \/ (mode[id] = "overloaded" /\ events'[id] = <<>>)
    <3>1. CASE TakeOverload(o)
      BY <1>5, <1>7, <3>1 DEF TakeOverload
    <3>2. ASSUME NEW c \in Id, TakeCancelOverloaded(c, o)
          PROVE  lost'[id] = lost[id] \/ (mode[id] = "overloaded" /\ events'[id] = <<>>)
      <4>1. id # c => lost'[id] = lost[id]
        BY <1>7, <3>2 DEF TakeCancelOverloaded
      <4>2. mode[c] = "overloaded" /\ events' = [events EXCEPT ![c] = <<>>]
        BY <3>2 DEF TakeCancelOverloaded, PopCancelOverloaded
      <4>3. events \in [Id -> Seq(Frame)]
        BY DEF IInv, QInv, QueueTypeOK
      <4>4. QED
        BY <4>1, <4>2, <4>3
    <3>3. QED
      BY <3>1, <3>2
  <2>5. QED
    BY <2>2, <2>3, <2>4
<1>8. QED
  BY <1>6, <1>7

\* A frame is popped in turn: of its request it is the oldest one queued.
LEMMA TakeReadyGap ==
  ASSUME IInv, IInv', NEW c \in Id, TakeReady(c), NEW id \in Id, GapOK(id)
  PROVE  GapOK(id)'
<1>1. PICK gate, f : PopReady(c, f, gate) /\ last' = [last EXCEPT ![c] = f.n]
  BY DEF TakeReady
<1>2. UNCHANGED peerVars /\ lost' = lost /\ last \in [Id -> Nat]
  BY DEF TakeReady, IInv, PeerTypeOK
<1>3. CASE c # id
  <2>1. Thins(id) /\ last'[id] = last[id]
    BY <1>1, <1>2, <1>3, PopReadyOthers DEF IInv, GapOK, StreamAhead
  <2>2. QED
    BY <1>2, <2>1, ThinsGap DEF Thins, peerVars
<1>4. CASE c = id
  <2>1. Oldest(id, f) /\ last'[id] = f.n
    BY <1>1, <1>2, <1>4, PopReadyOldest DEF IInv, GapOK, StreamAhead
  <2>2. f.n <= sent[id] /\ \A g \in Queued(id)' : f.n < g.n
    BY <2>1 DEF Oldest, GapOK, StreamAhead
  <2>3. QED
    BY <1>2, <2>1, <2>2, ThinsGap DEF Oldest, peerVars
<1>5. QED
  BY <1>3, <1>4

\* Every step keeps the invariant for each request.
LEMMA NextGap ==
  ASSUME IInv, IInv', [Next]_vars, NEW id \in Id, GapOK(id)
  PROVE  GapOK(id)'
<1>1. CASE ReceiveControl \/ ConnectionLost \/ TakeControl \/ TakeTransport
  <2>1. UNCHANGED <<requestVars, sent, opens, sending, lost, last>>
    BY <1>1 DEF ReceiveControl, ConnectionLost, TakeControl, TakeTransport, peerVars,
       EnqueueControl, ControlOverflow, EnqueueFailure, SetTerminal, PopControl, PopTransport
  <2>2. QED
    BY <2>1, AloneGap DEF requestVars
<1>2. ASSUME NEW c \in Id, ReceiveAccepted(c) \/ ReceiveOverflow(c) \/ ReceiveRefused(c)
      PROVE  GapOK(id)'
  BY <1>2, ReceiveAcceptedGap, ReceiveOverflowGap, ReceiveRefusedGap
<1>3. ASSUME NEW c \in Id, TakeCancel(c) PROVE GapOK(id)'
  <2>1. Thins(id)
    BY <1>3, PopCancelThins DEF TakeCancel, IInv, GapOK, StreamAhead
  <2>2. UNCHANGED <<peerVars, lost, last>>
    BY <1>3 DEF TakeCancel
  <2>3. QED
    BY <2>1, <2>2, ThinsGap DEF Thins, peerVars
<1>4. ASSUME NEW c \in Id, DiscardAfterCancel(c) PROVE GapOK(id)'
  <2>1. UNCHANGED <<peerVars, lost, last>>
    BY <1>4 DEF DiscardAfterCancel
  <2>2. CASE mode[c] = "absent"
    BY <1>4, <2>1, <2>2, AloneGap DEF DiscardAfterCancel, peerVars, queueVars, requestVars
  <2>3. CASE mode[c] # "absent"
    <3>1. Thins(id)
      BY <1>4, <2>3, DiscardThins DEF DiscardAfterCancel, IInv, GapOK, StreamAhead
    <3>2. QED
      BY <2>1, <3>1, ThinsGap DEF Thins, peerVars
  <2>4. QED
    BY <2>2, <2>3
<1>5. ASSUME NEW o \in Id, TakeOverload(o) \/ \E c \in Id : TakeCancelOverloaded(c, o)
      PROVE  GapOK(id)'
  BY <1>5, OverloadGap
<1>6. ASSUME NEW c \in Id, TakeReady(c) PROVE GapOK(id)'
  BY <1>6, TakeReadyGap
<1>7. ASSUME NEW c \in Id, RequestFinishes(c) PROVE GapOK(id)'
  <2>1. /\ UNCHANGED <<queueVars, sent, opens, last, lost>> /\ ~BrokerSide
        /\ sending[c] # "idle" /\ sending' = [sending EXCEPT ![c] = "idle"]
    BY <1>7 DEF RequestFinishes
  <2>2. sending \in [Id -> {"idle", "open", "eof", "done"}]
    BY DEF IInv, PeerTypeOK
  <2>3. CASE c # id
    BY <2>1, <2>2, <2>3, AloneGap DEF queueVars, requestVars
  <2>4. CASE c = id
    <3>1. opens'[id] # 0
      BY <2>1, <2>4 DEF GapOK, Unused
    <3>2. QED
      BY <2>1, <3>1 DEF GapOK, StreamAhead, LossAhead, Unused, FramesInOrder, Queued,
         queueVars, requestVars
  <2>5. QED
    BY <2>3, <2>4
<1>8. CASE UNCHANGED vars
  BY <1>8, AloneGap DEF vars, peerVars, queueVars, requestVars
<1>9. QED
  BY <1>1, <1>2, <1>3, <1>4, <1>5, <1>6, <1>7, <1>8 DEF Next, Reader, MainLoop

GapInv == IInv /\ \A id \in Id : GapOK(id)

\* The invariant of the streams holds initially and is kept.
LEMMA GapInvHolds == Spec => []GapInv
<1>1. Init => GapInv
  <2> SUFFICES ASSUME Init PROVE GapInv
    OBVIOUS
  <2>1. IInv
    BY InitIInv
  <2>2. ASSUME NEW id \in Id PROVE GapOK(id)
    <3>1. /\ events[id] = <<>> /\ retained[id] = <<>> /\ mode[id] = "absent"
          /\ sent[id] = 0 /\ opens[id] = 0 /\ sending[id] = "idle"
          /\ last[id] = 0 /\ lost[id] = 0
      BY DEF Init, QueueInit
    <3>2. At(<<>>) = {} /\ Ascending(<<>>)
      <4>1. DOMAIN <<>> = {}
        OBVIOUS
      <4>2. QED
        BY <4>1 DEF At, Ascending
    <3>3. StreamAhead(id)
      BY <3>1, <3>2 DEF StreamAhead, FramesInOrder, Queued
    <3>4. LossAhead(id) /\ Unused(id)
      BY <3>1 DEF LossAhead, Unused
    <3>5. QED
      BY <3>3, <3>4 DEF GapOK
  <2>3. QED
    BY <2>1, <2>2 DEF GapInv
<1>2. GapInv /\ [Next]_vars => GapInv'
  BY NextIInv, NextGap DEF GapInv
<1>3. QED
  BY <1>1, <1>2, PTL DEF Spec

\* A step that pops a frame in turn is TakeReady.
LEMMA OnlyReadyPops ==
  ASSUME IInv, [Next]_vars, NEW id \in Id, last'[id] # last[id]
  PROVE  TakeReady(id)
<1>1. last' # last
  OBVIOUS
<1>2. PICK c \in Id : TakeReady(c)
  BY <1>1 DEF Next, Reader, MainLoop, vars, ReceiveControl, ConnectionLost, ReceiveAccepted,
     ReceiveOverflow, ReceiveRefused, TakeControl, TakeTransport, TakeCancel,
     DiscardAfterCancel, TakeOverload, TakeCancelOverloaded, RequestFinishes
<1>3. last \in [Id -> Nat] /\ \E n : last' = [last EXCEPT ![c] = n]
  BY <1>2 DEF TakeReady, IInv, PeerTypeOK
<1>4. c = id
  BY <1>3
<1>5. QED
  BY <1>2, <1>4

\* The main loop is handed each request's frames in the order they were sent, and
\* in the first invocation of an ID nothing sent after a frame that enqueue or a
\* drained overload dropped, before the overload that reports it.
THEOREM NoSilentGaps == Spec => NoSilentGap
<1>1. ASSUME GapInv, [Next]_vars, NEW id \in Id, last'[id] # last[id]
      PROVE  /\ last'[id] > last[id]
             /\ opens[id] <= 1 => lost[id] <= 0 \/ last'[id] < lost[id]
  <2>1. IInv /\ GapOK(id) /\ TakeReady(id)
    BY <1>1, OnlyReadyPops DEF GapInv
  <2>2. PICK gate, f : PopReady(id, f, gate) /\ last' = [last EXCEPT ![id] = f.n]
    BY <2>1 DEF TakeReady
  <2>3. last'[id] = f.n
    BY <2>1, <2>2 DEF IInv, PeerTypeOK
  <2>4. Oldest(id, f)
    BY <2>1, <2>2, PopReadyOldest DEF IInv, GapOK, StreamAhead
  <2>5. /\ last[id] \in Nat /\ f.n \in Nat /\ lost[id] \in Nat \cup {Reported}
        /\ last[id] < f.n
    BY <2>1, <2>4, GapTypes DEF Oldest, GapOK, StreamAhead
  <2>6. opens[id] <= 1 /\ lost[id] > 0 => f.n < lost[id]
    BY <2>1, <2>4 DEF Oldest, GapOK, LossAhead
  <2>7. lost[id] > 0 \/ lost[id] <= 0
    BY <2>5 DEF Reported
  <2>8. QED
    BY <2>3, <2>5, <2>6, <2>7
<1>2. GapInv /\ [Next]_vars =>
        [\A id \in Id :
           last'[id] # last[id] =>
             /\ last'[id] > last[id]
             /\ opens[id] <= 1 => lost[id] <= 0 \/ last'[id] < lost[id]]_vars
  BY <1>1
<1>3. QED
  BY <1>2, GapInvHolds, PTL DEF Spec, NoSilentGap

-----------------------------------------------------------------------------
(* The limits: the counters are exact, and nothing exceeds its limit.      *)

\* The places of a family of sets, one for each element of the set of every name.
Places(D) == UNION {{x} \X D[x] : x \in DOMAIN D}

\* Those of the names other than c.
Others(D, c) == UNION {{x} \X D[x] : x \in DOMAIN D \ {c}}

LEMMA PlacesSplit ==
  ASSUME NEW D, NEW c \in DOMAIN D
  PROVE  /\ Places(D) = Others(D, c) \cup ({c} \X D[c])
         /\ \A y : Others(D, c) \cap ({c} \X y) = {}
<1>1. \A p : p \in Places(D) <=> \E x \in DOMAIN D : \E i \in D[x] : p = <<x, i>>
  BY DEF Places
<1>2. \A p : p \in Others(D, c) <=> \E x \in DOMAIN D \ {c} : \E i \in D[x] : p = <<x, i>>
  BY DEF Others
<1>3. \A p : p \in {c} \X D[c] <=> \E i \in D[c] : p = <<c, i>>
  OBVIOUS
<1>4. Places(D) = Others(D, c) \cup ({c} \X D[c])
  BY <1>1, <1>2, <1>3
<1>5. ASSUME NEW y, NEW p \in Others(D, c) PROVE p \notin {c} \X y
  BY <1>2
<1>6. QED
  BY <1>4, <1>5

\* The count of all places changes by what changes under one name.
LEMMA PlacesRecount ==
  ASSUME NEW S, NEW c \in S, NEW D, NEW E,
         DOMAIN D = S, DOMAIN E = S, \A x \in S \ {c} : D[x] = E[x],
         IsFiniteSet(Places(D)), IsFiniteSet(E[c])
  PROVE  /\ IsFiniteSet(Places(E))
         /\ IsFiniteSet(D[c]) /\ Cardinality(D[c]) \in Nat /\ Cardinality(E[c]) \in Nat
         /\ Cardinality(Places(D)) \in Nat /\ Cardinality(Places(E)) \in Nat
         /\ Cardinality(Places(E)) =
              Cardinality(Places(D)) - Cardinality(D[c]) + Cardinality(E[c])
<1> DEFINE old == {c} \X D[c]
           new == {c} \X E[c]
<1>1. PICK rest :
        /\ rest = Others(D, c)
        /\ Places(D) = rest \cup old /\ Places(E) = rest \cup new
        /\ rest \cap old = {} /\ rest \cap new = {}
  <2>1. Others(E, c) = Others(D, c)
    BY DEF Others
  <2>2. /\ Places(D) = Others(D, c) \cup old
        /\ Others(D, c) \cap old = {} /\ Others(D, c) \cap new = {}
    BY PlacesSplit
  <2>3. Places(E) = Others(E, c) \cup new
    BY PlacesSplit
  <2> HIDE DEF old, new
  <2>4. QED
    BY <2>1, <2>2, <2>3
<1>2. rest \cap old = {} /\ rest \cap new = {}
  BY <1>1
<1>3. IsFiniteSet(old) /\ IsFiniteSet(rest)
  <2> HIDE DEF old
  <2>1. old \in SUBSET Places(D) /\ rest \in SUBSET Places(D)
    BY <1>1
  <2>2. QED
    BY <2>1, FS_Subset
<1>4. IsFiniteSet(D[c]) /\ Cardinality(D[c]) = Cardinality(old)
  <2>1. [p \in old |-> p[2]] \in Bijection(old, D[c])
    <3> DEFINE f == [p \in old |-> p[2]]
    <3>1. f \in [old -> D[c]]
      OBVIOUS
    <3>2. \A p, q \in old : f[p] = f[q] => p = q
      OBVIOUS
    <3>3. ASSUME NEW i \in D[c] PROVE \E p \in old : f[p] = i
      <4>1. <<c, i>> \in old /\ f[<<c, i>>] = i
        OBVIOUS
      <4>2. QED
        BY <4>1
    <3> HIDE DEF f
    <3>4. QED
      BY <3>1, <3>2, <3>3 DEF f, Bijection, Injection, Surjection, IsInjective
  <2> HIDE DEF old
  <2>2. QED
    BY <1>3, <2>1, FS_Bijection DEF ExistsBijection
<1>5. IsFiniteSet(new) /\ Cardinality(new) = Cardinality(E[c])
  <2>1. [i \in E[c] |-> <<c, i>>] \in Bijection(E[c], new)
    <3> DEFINE f == [i \in E[c] |-> <<c, i>>]
    <3>1. f \in [E[c] -> new]
      OBVIOUS
    <3>2. \A i, j \in E[c] : f[i] = f[j] => i = j
      OBVIOUS
    <3>3. \A p \in new : \E i \in E[c] : f[i] = p
      OBVIOUS
    <3> HIDE DEF f
    <3>4. QED
      BY <3>1, <3>2, <3>3 DEF f, Bijection, Injection, Surjection, IsInjective
  <2> HIDE DEF new
  <2>2. QED
    BY <2>1, FS_Bijection DEF ExistsBijection
<1> HIDE DEF old, new
<1>6. /\ IsFiniteSet(rest \cup old)
      /\ Cardinality(rest \cup old) = Cardinality(rest) + Cardinality(old) - Cardinality(rest \cap old)
      /\ IsFiniteSet(rest \cup new)
      /\ Cardinality(rest \cup new) = Cardinality(rest) + Cardinality(new) - Cardinality(rest \cap new)
  BY <1>3, <1>5, FS_Union
<1>7. Cardinality({}) = 0
  BY FS_EmptySet
<1>8. /\ Cardinality(rest) \in Nat /\ Cardinality(old) \in Nat /\ Cardinality(new) \in Nat
      /\ Cardinality(rest \cup old) \in Nat /\ Cardinality(rest \cup new) \in Nat
  BY <1>3, <1>5, <1>6, FS_CardinalityType
<1>9. /\ Cardinality(rest \cup old) = Cardinality(rest) + Cardinality(old)
      /\ Cardinality(rest \cup new) = Cardinality(rest) + Cardinality(new)
  <2>1. Cardinality(rest \cap old) = 0 /\ Cardinality(rest \cap new) = 0
    BY <1>2, <1>7
  <2>2. QED
    BY <1>6, <1>8, <2>1
<1>10. Cardinality(rest \cup new) =
         Cardinality(rest \cup old) - Cardinality(D[c]) + Cardinality(E[c])
  BY <1>4, <1>5, <1>8, <1>9
<1>11. QED
  BY <1>1, <1>4, <1>5, <1>6, <1>8, <1>10

\* The accepted frames by request and place, and those that carry a payload.
LEMMA TotalsArePlaces ==
  ASSUME NEW ev
  PROVE  LET all == UNION {{id} \X DOMAIN ev[id] : id \in Id}
         IN /\ all = Places([id \in Id |-> DOMAIN ev[id]])
            /\ {p \in all : Size(ev[p[1]][p[2]]) = 1} = Places([id \in Id |-> Paying(ev[id])])
<1> DEFINE all == UNION {{id} \X DOMAIN ev[id] : id \in Id}
<1>1. all = Places([id \in Id |-> DOMAIN ev[id]])
  BY DEF Places
<1>2. {p \in all : Size(ev[p[1]][p[2]]) = 1} = Places([id \in Id |-> Paying(ev[id])])
  <2>1. \A p : p \in {q \in all : Size(ev[q[1]][q[2]]) = 1} <=>
          \E id \in Id : \E i \in DOMAIN ev[id] : p = <<id, i>> /\ Size(ev[id][i]) = 1
    OBVIOUS
  <2>2. \A p : p \in Places([id \in Id |-> Paying(ev[id])]) <=>
          \E id \in Id : \E i \in DOMAIN ev[id] : p = <<id, i>> /\ Size(ev[id][i]) = 1
    BY DEF Places, Paying
  <2>3. QED
    BY <2>1, <2>2
<1>3. QED
  BY <1>1, <1>2

\* The counters are exact, of finitely many frames.
Exact == AccountingExact /\ IsFiniteSet(Accepted)

\* A critical section that counts what it changes leaves the counters exact.
LEMMA RecountsExact ==
  ASSUME QInv, QInv', Exact, NEW c \in Id, Recounts(c)
  PROVE  Exact'
<1>1. /\ events \in [Id -> Seq(Frame)] /\ events' \in [Id -> Seq(Frame)]
      /\ frames \in [Id -> Int] /\ bytes \in [Id -> Int]
      /\ totalFrames \in Int /\ totalBytes \in Int
  BY DEF QInv, QueueTypeOK
<1>2. PICK t \in Seq(Frame), a, b \in Int :
        /\ Len(t) = Len(events[c]) + a /\ PayloadOf(t) = PayloadOf(events[c]) + b
        /\ events' = [events EXCEPT ![c] = t]
        /\ frames' = [frames EXCEPT ![c] = @ + a]
        /\ bytes' = [bytes EXCEPT ![c] = @ + b]
        /\ totalFrames' = totalFrames + a
        /\ totalBytes' = totalBytes + b
  BY DEF Recounts
<1>3. /\ \A id \in Id : frames[id] = Len(events[id]) /\ bytes[id] = PayloadOf(events[id])
      /\ totalFrames = Cardinality(Accepted) /\ totalBytes = Cardinality(Payloads)
      /\ IsFiniteSet(Accepted)
  BY DEF Exact, AccountingExact, PayloadOf
<1>4. ASSUME NEW id \in Id
      PROVE  frames'[id] = Len(events'[id]) /\ bytes'[id] = PayloadOf(events'[id])
  BY <1>1, <1>2, <1>3
<1>5. PICK s \in Seq(Frame) : s = events[c]
  BY <1>1
<1>6. /\ Cardinality(DOMAIN s) = Len(s) /\ Cardinality(Paying(s)) = PayloadOf(s)
      /\ Cardinality(DOMAIN t) = Len(t) /\ Cardinality(Paying(t)) = PayloadOf(t)
      /\ IsFiniteSet(DOMAIN t) /\ IsFiniteSet(Paying(t))
  BY PayingFinite
<1>7. PICK D, E, P, Q :
        /\ D = [id \in Id |-> DOMAIN events[id]] /\ E = [id \in Id |-> DOMAIN events'[id]]
        /\ P = [id \in Id |-> Paying(events[id])] /\ Q = [id \in Id |-> Paying(events'[id])]
  OBVIOUS
<1>8. /\ Accepted = Places(D) /\ Payloads = Places(P)
      /\ Accepted' = Places(E) /\ Payloads' = Places(Q)
  <2>1. PICK ev, new : ev = events /\ new = events'
    OBVIOUS
  <2>2. /\ Accepted = UNION {{id} \X DOMAIN ev[id] : id \in Id}
        /\ Accepted' = UNION {{id} \X DOMAIN new[id] : id \in Id}
    BY <2>1 DEF Accepted
  <2>3. /\ Payloads = {p \in Accepted : Size(ev[p[1]][p[2]]) = 1}
        /\ Payloads' = {p \in Accepted' : Size(new[p[1]][p[2]]) = 1}
    BY <2>1 DEF Payloads, Size
  <2>4. Accepted = Places(D) /\ Payloads = Places(P)
    BY <1>7, <2>1, <2>2, <2>3, TotalsArePlaces
  <2>5. Accepted' = Places(E) /\ Payloads' = Places(Q)
    BY <1>7, <2>1, <2>2, <2>3, TotalsArePlaces
  <2>6. QED
    BY <2>4, <2>5
<1>9. \A x \in Id \ {c} : events'[x] = events[x]
  BY <1>1, <1>2
<1>10. events'[c] = t
  BY <1>1, <1>2
<1>11. /\ IsFiniteSet(Places(E)) /\ Cardinality(Places(D)) \in Nat
       /\ Cardinality(Places(E)) = Cardinality(Places(D)) - Len(s) + Len(t)
  <2>1. /\ DOMAIN D = Id /\ DOMAIN E = Id /\ \A x \in Id \ {c} : D[x] = E[x]
        /\ D[c] = DOMAIN s /\ E[c] = DOMAIN t
    BY <1>5, <1>7, <1>9, <1>10
  <2>2. IsFiniteSet(Places(D))
    BY <1>3, <1>8
  <2>3. QED
    BY <1>6, <2>1, <2>2, PlacesRecount
<1>12. /\ Cardinality(Places(P)) \in Nat
       /\ Cardinality(Places(Q)) = Cardinality(Places(P)) - PayloadOf(s) + PayloadOf(t)
  <2>1. /\ DOMAIN P = Id /\ DOMAIN Q = Id /\ \A x \in Id \ {c} : P[x] = Q[x]
        /\ P[c] = Paying(s) /\ Q[c] = Paying(t)
    BY <1>5, <1>7, <1>9, <1>10
  <2>2. IsFiniteSet(Payloads)
    <3>1. Payloads \in SUBSET Accepted
      BY DEF Payloads
    <3>2. QED
      BY <1>3, <3>1, FS_Subset
  <2>3. IsFiniteSet(Places(P))
    BY <1>8, <2>2
  <2>4. QED
    BY <1>6, <2>1, <2>3, PlacesRecount
<1>13. /\ Len(s) \in Nat /\ PayloadOf(s) \in Nat /\ Len(t) = Len(s) + a
       /\ PayloadOf(t) = PayloadOf(s) + b
  BY <1>2, <1>5, LenProperties, PayingFinite
<1>14. totalFrames' = Cardinality(Accepted')
  BY <1>2, <1>3, <1>8, <1>11, <1>13
<1>15. totalBytes' = Cardinality(Payloads')
  BY <1>2, <1>3, <1>8, <1>12, <1>13
<1>16. IsFiniteSet(Accepted')
  BY <1>8, <1>11
<1>17. AccountingExact'
  <2>1. \A id \in Id : bytes'[id] = Cardinality({i \in DOMAIN events'[id] : Size(events'[id][i]) = 1})
    BY <1>4 DEF PayloadOf
  <2>2. (\A id \in Id :
          /\ frames[id] = Len(events[id])
          /\ bytes[id] = Cardinality({i \in DOMAIN events[id] : Size(events[id][i]) = 1}))'
    BY <1>4, <2>1 DEF Size
  <2>3. totalFrames' = Cardinality(Accepted)' /\ totalBytes' = Cardinality(Payloads)'
    BY <1>14, <1>15
  <2>4. QED
    BY <2>2, <2>3 DEF AccountingExact
<1>18. QED
  BY <1>16, <1>17 DEF Exact

\* No counter exceeds its limit, and the map no more entries than it may have.
WithinLimits ==
  /\ totalFrames <= FramesTotal /\ totalBytes <= BytesTotal
  /\ \A id \in Id : frames[id] <= FramesPerRequest /\ bytes[id] <= BytesPerRequest

Entries == IsFiniteSet(Known) /\ Cardinality(Known) <= MaxQueues

LimitsInv ==
  /\ Exact
  /\ WithinLimits
  /\ Entries
  /\ RetainedOK
  /\ Len(control) <= ControlCapacity

\* What a critical section does to the counters, the retained frames and the map.
Obeys ==
  /\ (\E c \in Id : Recounts(c)) \/ CountsAlone
  /\ RetainedOK'
  /\ NobodyNew \/ \E id \in Id : OnlyNew(id)
  /\ Len(control') <= ControlCapacity

LEMMA RecountsWithin ==
  ASSUME QInv, WithinLimits, NEW c \in Id, Recounts(c)
  PROVE  WithinLimits'
<1>1. /\ frames \in [Id -> Int] /\ bytes \in [Id -> Int]
      /\ totalFrames \in Int /\ totalBytes \in Int
  BY DEF QInv, QueueTypeOK
<1>2. /\ FramesTotal \in Int /\ FramesPerRequest \in Int
      /\ BytesTotal \in Int /\ BytesPerRequest \in Int
  BY InboundAssumption
<1>3. PICK a, b \in Int :
        /\ frames' = [frames EXCEPT ![c] = @ + a]
        /\ bytes' = [bytes EXCEPT ![c] = @ + b]
        /\ totalFrames' = totalFrames + a
        /\ totalBytes' = totalBytes + b
        /\ a <= 0 \/ (totalFrames + a <= FramesTotal /\ frames[c] + a <= FramesPerRequest)
        /\ b <= 0 \/ (totalBytes + b <= BytesTotal /\ bytes[c] + b <= BytesPerRequest)
  BY DEF Recounts
<1>4. /\ totalFrames <= FramesTotal /\ totalBytes <= BytesTotal
      /\ \A id \in Id : frames[id] <= FramesPerRequest /\ bytes[id] <= BytesPerRequest
  BY DEF WithinLimits
<1>5. totalFrames' <= FramesTotal /\ totalBytes' <= BytesTotal
  BY <1>1, <1>2, <1>3, <1>4
<1>6. frames[c] + a <= FramesPerRequest /\ bytes[c] + b <= BytesPerRequest
  BY <1>1, <1>2, <1>3, <1>4
<1>7. \A id \in Id : frames'[id] <= FramesPerRequest
  BY <1>1, <1>3, <1>4, <1>6
<1>8. \A id \in Id : bytes'[id] <= BytesPerRequest
  BY <1>1, <1>3, <1>4, <1>6
<1>9. QED
  BY <1>5, <1>7, <1>8 DEF WithinLimits

\* The map never has more entries than allowed.
LEMMA EntriesKept ==
  ASSUME Entries, NobodyNew \/ \E id \in Id : OnlyNew(id)
  PROVE  Entries'
<1>1. MaxQueues \in Nat /\ Cardinality(Known) \in Nat
  BY InboundAssumption, FS_CardinalityType DEF Entries
<1>2. PICK old, new : old = Known /\ new = Known'
  OBVIOUS
<1>3. IsFiniteSet(old) /\ Cardinality(old) <= MaxQueues /\ Cardinality(old) \in Nat
  BY <1>1, <1>2 DEF Entries
<1>4. CASE new \subseteq old
  <2>1. new \in SUBSET old
    BY <1>4
  <2>2. IsFiniteSet(new) /\ Cardinality(new) <= Cardinality(old)
    BY <1>3, <2>1, FS_Subset
  <2>3. Cardinality(new) \in Nat
    BY <2>2, FS_CardinalityType
  <2>4. Cardinality(new) <= MaxQueues
    BY <1>1, <1>3, <2>2, <2>3
  <2>5. QED
    BY <1>2, <2>2, <2>4 DEF Entries
<1>5. ASSUME NEW id \in Id, new \subseteq old \cup {id}, id \notin old, Cardinality(old) # MaxQueues
      PROVE  Entries'
  <2>1. new \in SUBSET (old \cup {id})
    BY <1>5
  <2>2. IsFiniteSet(old \cup {id}) /\ Cardinality(old \cup {id}) = Cardinality(old) + 1
    BY <1>3, <1>5, FS_AddElement
  <2>3. IsFiniteSet(new) /\ Cardinality(new) <= Cardinality(old \cup {id})
    BY <2>1, <2>2, FS_Subset
  <2>4. Cardinality(new) \in Nat
    BY <2>3, FS_CardinalityType
  <2>5. Cardinality(new) <= MaxQueues
    BY <1>1, <1>3, <1>5, <2>2, <2>3, <2>4
  <2>6. QED
    BY <1>2, <2>3, <2>5 DEF Entries
<1>6. CASE NobodyNew
  <2>1. new \subseteq old
    BY <1>2, <1>6 DEF NobodyNew, Known
  <2>2. QED
    BY <1>4, <2>1
<1>7. ASSUME NEW id \in Id, OnlyNew(id) PROVE Entries'
  <2>1. new \subseteq old \cup {id}
    BY <1>2, <1>7 DEF OnlyNew, Known
  <2>2. id \in old \/ Cardinality(old) # MaxQueues
    BY <1>2, <1>7 DEF OnlyNew, Admits, Known
  <2>3. CASE id \in old
    <3>1. new \subseteq old
      BY <2>1, <2>3
    <3>2. QED
      BY <1>4, <3>1
  <2>4. CASE id \notin old
    BY <1>5, <2>1, <2>2, <2>4
  <2>5. QED
    BY <2>3, <2>4
<1>8. QED
  BY <1>6, <1>7

\* A critical section that obeys leaves the limits kept.
LEMMA ObeysKeeps ==
  ASSUME QInv, QInv', LimitsInv, Obeys
  PROVE  LimitsInv'
<1>1. Exact' /\ WithinLimits'
  <2>1. CASE \E c \in Id : Recounts(c)
    BY <2>1, RecountsExact, RecountsWithin DEF LimitsInv
  <2>2. CASE CountsAlone
    <3>1. UNCHANGED <<Accepted, Payloads>>
      BY <2>2 DEF CountsAlone, Accepted, Payloads, Size
    <3>2. Exact'
      BY <2>2, <3>1 DEF LimitsInv, Exact, AccountingExact, CountsAlone, Size
    <3>3. WithinLimits'
      BY <2>2 DEF LimitsInv, WithinLimits, CountsAlone
    <3>4. QED
      BY <3>2, <3>3
  <2>3. QED
    BY <2>1, <2>2 DEF Obeys
<1>2. Entries'
  BY EntriesKept DEF LimitsInv, Obeys
<1>3. RetainedOK' /\ (Len(control) <= ControlCapacity)'
  BY DEF Obeys
<1>4. QED
  BY <1>1, <1>2, <1>3 DEF LimitsInv

\* A step that leaves the request queues alone.
LEMMA ControlObeys ==
  ASSUME QInv, LimitsInv, UNCHANGED requestVars, Len(control') <= ControlCapacity
  PROVE  Obeys
<1>1. CountsAlone /\ NobodyNew
  BY DEF requestVars, CountsAlone, NobodyNew
<1>2. RetainedOK'
  BY DEF requestVars, LimitsInv, RetainedOK, RetainedWell, Marks, HasKind
<1>3. QED
  BY <1>1, <1>2 DEF Obeys

\* Every step obeys the limits.
LEMMA NextObeys ==
  ASSUME IInv, LimitsInv, [Next]_vars
  PROVE  Obeys
<1>1. QInv /\ PeerTypeOK /\ RetainedOK
  BY DEF IInv, LimitsInv
<1>2. /\ control \in Seq(ControlMsg) /\ Len(control) \in Nat /\ Len(control) <= ControlCapacity
      /\ ControlCapacity \in Nat
  BY <1>1, InboundAssumption, LenProperties DEF QInv, QueueTypeOK, LimitsInv
<1>3. CASE ReceiveControl
  <2>1. ASSUME NEW c \in ControlMsg, EnqueueControl(c) PROVE Obeys
    <3>1. Len(control') = Len(control) + 1 /\ Len(control) < ControlCapacity
      BY <1>2, <2>1, AppendProperties DEF EnqueueControl
    <3>2. Len(control') <= ControlCapacity
      BY <1>2, <3>1
    <3>3. QED
      BY <1>1, <2>1, <3>2, ControlObeys DEF EnqueueControl
  <2>2. ASSUME ControlOverflow PROVE Obeys
    BY <1>1, <1>2, <2>2, ControlObeys DEF ControlOverflow, SetTerminal
  <2>3. QED
    BY <1>3, <2>1, <2>2 DEF ReceiveControl
<1>4. CASE ConnectionLost
  BY <1>1, <1>2, <1>4, ControlObeys DEF ConnectionLost, EnqueueFailure, SetTerminal
<1>5. ASSUME NEW id \in Id, ReceiveAccepted(id) PROVE Obeys
  <2>1. PICK f \in Frame : EnqueueRequest(id, f)
    BY <1>1, <1>5, PeerSendsTypes DEF ReceiveAccepted
  <2>2. totalFrames <= FramesTotal /\ frames[id] <= FramesPerRequest
    BY DEF LimitsInv, WithinLimits
  <2>3. Recounts(id) /\ RetainedOK' /\ OnlyNew(id) /\ UNCHANGED control
    BY <1>1, <2>1, <2>2, EnqueueRequestLimits
  <2>4. QED
    BY <1>2, <2>3 DEF Obeys
<1>6. ASSUME NEW id \in Id, ReceiveOverflow(id) PROVE Obeys
  <2>1. PICK f \in Frame, full \in BOOLEAN : EnqueueOverflow(id, f, full)
    <3>1. PICK kind \in Kind, budgetFull \in BOOLEAN :
            /\ PeerSends(id, kind)
            /\ EnqueueOverflow(id, NextFrame(id, kind), budgetFull /\ ~BrokerSide)
      BY <1>6 DEF ReceiveOverflow
    <3>2. (budgetFull /\ ~BrokerSide) \in BOOLEAN /\ NextFrame(id, kind) \in Frame
      BY <1>1, <3>1, InboundAssumption, PeerSendsTypes
    <3>3. QED
      BY <3>1, <3>2
  <2>2. CountsAlone /\ RetainedOK' /\ OnlyNew(id) /\ UNCHANGED control
    BY <1>1, <2>1, EnqueueOverflowLimits
  <2>3. QED
    BY <1>2, <2>2 DEF Obeys
<1>7. ASSUME NEW id \in Id, ReceiveRefused(id) PROVE Obeys
  BY <1>1, <1>2, <1>7, ControlObeys DEF ReceiveRefused, TooManyRequests, SetTerminal
<1>8. CASE TakeControl
  <2>1. control # <<>> /\ control' = Tail(control) /\ UNCHANGED requestVars
    BY <1>8 DEF TakeControl, PopControl
  <2>2. Len(control') = Len(control) - 1
    BY <1>2, <2>1, HeadTailProperties
  <2>3. Len(control') <= ControlCapacity
    BY <1>2, <2>2
  <2>4. QED
    BY <1>1, <2>1, <2>3, ControlObeys
<1>9. CASE TakeTransport
  BY <1>1, <1>2, <1>9, ControlObeys DEF TakeTransport, PopTransport
<1>10. ASSUME NEW id \in Id, TakeCancel(id) PROVE Obeys
  <2>1. PICK f : PopCancel(id, f)
    BY <1>10 DEF TakeCancel
  <2>2. (Recounts(id) \/ CountsAlone) /\ RetainedOK' /\ NobodyNew /\ UNCHANGED control
    BY <1>1, <2>1, PopCancelLimits
  <2>3. QED
    BY <1>2, <2>2 DEF Obeys
<1>11. ASSUME NEW id \in Id, DiscardAfterCancel(id) PROVE Obeys
  <2>1. CASE mode[id] = "absent"
    BY <1>1, <1>2, <1>11, <2>1, ControlObeys DEF DiscardAfterCancel, queueVars
  <2>2. CASE mode[id] # "absent"
    <3>1. Recounts(id) /\ RetainedOK' /\ NobodyNew /\ UNCHANGED control
      BY <1>1, <1>11, <2>2, DiscardLimits DEF DiscardAfterCancel
    <3>2. QED
      BY <1>2, <3>1 DEF Obeys
  <2>3. QED
    BY <2>1, <2>2
<1>12. ASSUME NEW id \in Id, TakeOverload(id) PROVE Obeys
  <2>1. CountsAlone /\ RetainedOK' /\ NobodyNew /\ UNCHANGED control
    BY <1>1, <1>12, PopOverloadLimits DEF TakeOverload
  <2>2. QED
    BY <1>2, <2>1 DEF Obeys
<1>13. ASSUME NEW id \in Id, TakeReady(id) PROVE Obeys
  <2>1. PICK gate, f : PopReady(id, f, gate)
    BY <1>13 DEF TakeReady
  <2>2. (Recounts(id) \/ CountsAlone) /\ RetainedOK' /\ NobodyNew /\ UNCHANGED control
    BY <1>1, <2>1, PopReadyLimits
  <2>3. QED
    BY <1>2, <2>2 DEF Obeys
<1>14. ASSUME NEW id \in Id, NEW c \in Id, TakeCancelOverloaded(c, id) PROVE Obeys
  <2>1. Recounts(c) /\ RetainedOK' /\ NobodyNew /\ UNCHANGED control
    BY <1>1, <1>14, PopCancelOverloadedLimits DEF TakeCancelOverloaded
  <2>2. QED
    BY <1>2, <2>1 DEF Obeys
<1>15. ASSUME NEW id \in Id, RequestFinishes(id) PROVE Obeys
  BY <1>1, <1>2, <1>15, ControlObeys DEF RequestFinishes, queueVars
<1>16. CASE UNCHANGED vars
  BY <1>1, <1>2, <1>16, ControlObeys DEF vars, queueVars
<1>17. QED
  BY <1>3, <1>4, <1>5, <1>6, <1>7, <1>8, <1>9, <1>10, <1>11, <1>12, <1>13, <1>14, <1>15,
     <1>16 DEF Next, Reader, MainLoop

\* An empty scheduler is within every limit.
LEMMA InitLimits == Init => LimitsInv
<1> SUFFICES ASSUME Init PROVE LimitsInv
  OBVIOUS
<1>1. /\ control = <<>> /\ mode = [id \in Id |-> "absent"] /\ events = [id \in Id |-> <<>>]
      /\ retained = [id \in Id |-> <<>>] /\ frames = [id \in Id |-> 0]
      /\ bytes = [id \in Id |-> 0] /\ totalFrames = 0 /\ totalBytes = 0
  BY DEF Init, QueueInit
<1>2. IsFiniteSet({}) /\ Cardinality({}) = 0
  BY FS_EmptySet
<1>3. DOMAIN <<>> = {} /\ Len(<<>>) = 0 /\ <<>> \in Seq(Frame)
  BY EmptySeq
<1>4. Accepted = {} /\ Payloads = {} /\ Known = {}
  BY <1>1, <1>3 DEF Accepted, Payloads, Known
<1>5. Exact
  <2>1. \A id \in Id : {i \in DOMAIN events[id] : Size(events[id][i]) = 1} = {}
    BY <1>1, <1>3
  <2>2. QED
    BY <1>1, <1>2, <1>3, <1>4, <2>1 DEF Exact, AccountingExact
<1>6. WithinLimits /\ Entries /\ Len(control) <= ControlCapacity
  BY <1>1, <1>2, <1>3, <1>4, InboundAssumption DEF WithinLimits, Entries
<1>7. RetainedOK
  <2>1. RetainedWell(<<>>)
    BY <1>3, InboundAssumption, MarksFinite DEF RetainedWell
  <2>2. QED
    BY <1>1, <2>1 DEF RetainedOK
<1>8. QED
  BY <1>5, <1>6, <1>7 DEF LimitsInv

\* For every set of requests, every limit and every stream of the peer: the counters
\* of the scheduler are what is queued, and neither the control lane, nor the accepted
\* frames and their bytes, nor the retained frames, nor the entries of the map exceed
\* what enqueue allows them.
THEOREM LimitsHold == Spec => []Bounded
<1>1. IInv /\ LimitsInv /\ [Next]_vars => LimitsInv'
  BY NextObeys, ObeysKeeps, NextIInv DEF IInv
<1>2. IInv /\ LimitsInv => Bounded
  <2> SUFFICES ASSUME IInv, LimitsInv PROVE Bounded
    OBVIOUS
  <2>1. \A id \in Id : Len(retained[id]) <= IF BrokerSide THEN 1 ELSE FramesPerRequest + 2
    BY RetainedBounded DEF IInv, QInv, QueueTypeOK, LimitsInv, RetainedOK
  <2>2. QED
    BY <2>1 DEF LimitsInv, Exact, WithinLimits, Entries, Bounded
<1>3. QED
  BY <1>1, <1>2, InitIInv, InitLimits, NextIInv, PTL DEF Spec

=============================================================================
