---------------------- MODULE OwnerArbitrationProofs ----------------------
(***************************************************************************)
(* Proofs about OwnerArbitration, for any number of brokers of any owners: a  *)
(* broker that has the endpoint is the one whose socket owner.sock is, and    *)
(* whoever found that nobody listens there holds acquire.lock until it binds; *)
(* a claim is with one incumbent, once, until it is answered.                *)
(***************************************************************************)
EXTENDS OwnerArbitration, TLAPS

\* Places where a broker holds acquire.lock.
Acquiring == {"connect", "asked", "bindOwner", "bindBroker", "unlock"}

\* Places where owner.sock is the broker's, and where broker.sock is.
HasOwnerSock == {"bindBroker", "unlock", "serving", "teardown", "unlinkBroker", "statOwner",
                 "unlinkOwner"}
HasBrokerSock == {"unlock", "serving", "teardown", "unlinkBroker"}

LockOK == \A b \in Broker : pc[b] \in Acquiring => lock = b
OwnerSockOK == \A b \in Broker : pc[b] \in HasOwnerSock => ownerFile = b
BrokerSockOK == \A b \in Broker : pc[b] \in HasBrokerSock => brokerFile = b

\* Since it looked, nobody listens.
FreeOK == \A b \in Broker : pc[b] = "bindOwner" => ~Listens(ownerFile)

IInv == TypeOK /\ LockOK /\ OwnerSockOK /\ BrokerSockOK /\ FreeOK

-----------------------------------------------------------------------------
(* Types.                                                                  *)

\* A broker that goes to another place.
LEMMA GoToType ==
  ASSUME TypeOK, NEW b \in Broker, NEW to \in Place, GoTo(b, to)
  PROVE pc' \in [Broker -> Place]
BY DEF TypeOK, GoTo

\* An answer to a claimant.
LEMMA TellType ==
  ASSUME TypeOK, NEW b, NEW answer \in {"granted", "retry", "alive"}, Tell(b, answer)
  PROVE reply' \in [Broker -> {"none", "granted", "retry", "alive"}]
BY DEF TypeOK, Tell

LEMMA InitHolds == Init => IInv
BY ArbitrationAssumption
DEF Init, IInv, TypeOK, Place, Listening, LockOK, OwnerSockOK, BrokerSockOK, FreeOK,
    Acquiring, HasOwnerSock, HasBrokerSock

LEMMA AcquiresType == ASSUME TypeOK, NEW b \in Broker, Acquires(b) PROVE TypeOK'
<1>1. {"lock", "connect", "asked", "bindOwner", "bindBroker", "unlock", "serving", "gone"}
        \subseteq Place
  BY DEF Place, Listening
<1>2. pc' \in [Broker -> Place]
  BY <1>1, GoToType
  DEF Acquires, Start, TakeLock, Connect, TryAgain, OwnerConflict, BindOwner, BindBroker,
      Unlock, Moves
<1>3. lock' \in Broker \cup {NoBroker}
  BY DEF TypeOK, Acquires, Start, TakeLock, Connect, TryAgain, OwnerConflict, BindOwner,
         BindBroker, Unlock, Release, fileVars
<1>4. CASE Connect(b)
  <2>1. /\ claims' \in [Broker -> Seq(Broker)]
        /\ reply' \in [Broker -> {"none", "granted", "retry", "alive"}]
    <3>1. CASE Listens(ownerFile)
      <4>1. ownerFile \in Broker
        BY <3>1 DEF TypeOK, Listens
      <4>2. Append(claims[ownerFile], b) \in Seq(Broker)
        BY <4>1 DEF TypeOK
      <4>. QED
        BY <1>4, <3>1, <4>1, <4>2 DEF Connect, TypeOK
    <3>2. CASE ~Listens(ownerFile)
      BY <1>4, <3>2 DEF Connect, TypeOK
    <3>. QED
      BY <3>1, <3>2
  <2>. QED
    BY <1>2, <1>4, <2>1 DEF TypeOK, Connect, fileVars
<1>5. CASE ~Connect(b)
  BY <1>2, <1>3, <1>5
  DEF TypeOK, Acquires, Start, TakeLock, TryAgain, OwnerConflict, BindOwner, BindBroker,
      Unlock, fileVars, claimVars
<1>. QED
  BY <1>4, <1>5

LEMMA ServesType == ASSUME TypeOK, NEW i \in Broker, Serves(i) PROVE TypeOK'
<1>1. pc' \in [Broker -> Place]
  <2>1. "teardown" \in Place
    BY DEF Place, Listening
  <2>. QED
    BY <2>1, GoToType
    DEF TypeOK, Serves, TakeClaim, TurnAway, HandleAck, HandleDeadline, HandleTransport, Grant
<1>2. reply' \in [Broker -> {"none", "granted", "retry", "alive"}]
  BY TellType
  DEF TypeOK, Serves, TakeClaim, TurnAway, HandleAck, HandleDeadline, HandleTransport, Grant
<1>3. /\ claims' \in [Broker -> Seq(Broker)]
      /\ control' \in [Broker -> Seq([nonce : Nat, inTime : BOOLEAN])]
  <2>1. \/ UNCHANGED claims
        \/ claims[i] # <<>> /\ claims' = [claims EXCEPT ![i] = Tail(@)]
        \/ Len(claims[i]) > 1 /\ claims' = [claims EXCEPT ![i] = Front(@)]
    BY Zenon DEF Serves, TakeClaim, TurnAway, HandleAck, HandleDeadline, HandleTransport
  <2>2. \/ UNCHANGED control
        \/ control[i] # <<>> /\ control' = [control EXCEPT ![i] = Tail(@)]
        \/ control' = [control EXCEPT ![i] = <<>>]
    BY DEF Serves, TakeClaim, TurnAway, HandleAck, HandleDeadline, HandleTransport
  <2>3. claims[i] \in Seq(Broker) /\ control[i] \in Seq([nonce : Nat, inTime : BOOLEAN])
    BY DEF TypeOK
  <2>4. /\ claims[i] # <<>> => Tail(claims[i]) \in Seq(Broker)
        /\ Len(claims[i]) > 1 => Front(claims[i]) \in Seq(Broker)
    BY <2>3 DEF Front
  <2>5. control[i] # <<>> => Tail(control[i]) \in Seq([nonce : Nat, inTime : BOOLEAN])
    BY <2>3
  <2>6. claims' \in [Broker -> Seq(Broker)]
    BY <2>1, <2>4 DEF TypeOK
  <2>7. control \in [Broker -> Seq([nonce : Nat, inTime : BOOLEAN])]
    BY DEF TypeOK
  <2>8. <<>> \in Seq([nonce : Nat, inTime : BOOLEAN])
    OBVIOUS
  <2>9. control' \in [Broker -> Seq([nonce : Nat, inTime : BOOLEAN])]
    BY <2>2, <2>5, <2>7, <2>8
  <2>. QED
    BY <2>6, <2>9
<1>4. CASE TakeClaim(i)
  <2>1. Head(claims[i]) \in Broker
    BY <1>4 DEF TypeOK, TakeClaim
  <2>2. /\ UNCHANGED pending \/ pending' = [pending EXCEPT ![i] = Head(claims[i])]
        /\ \/ UNCHANGED <<expired, probe, unacked, acked>>
           \/ /\ expired' = [expired EXCEPT ![i] = FALSE]
              /\ probe' = [probe EXCEPT ![i] = @ + 1]
              /\ unacked' = [unacked EXCEPT ![i] = @ \cup {probe'[i]}]
              /\ acked' = [acked EXCEPT ![i] = FALSE]
    BY <1>4, Zenon DEF TakeClaim, NoProbe
  <2>3. /\ pending' \in [Broker -> Broker \cup {NoBroker}]
        /\ expired' \in [Broker -> BOOLEAN]
        /\ probe' \in [Broker -> Nat]
        /\ acked' \in [Broker -> BOOLEAN]
        /\ unacked' \in [Broker -> SUBSET Nat]
    <3>1. probe[i] + 1 \in Nat
      BY DEF TypeOK
    <3>2. PICK n \in Nat : n = probe[i] + 1
      BY <3>1, Zenon
    <3>3. probe' \in [Broker -> Nat]
      BY <2>2, <3>2 DEF TypeOK
    <3>4. unacked' \in [Broker -> SUBSET Nat]
      <4>1. unacked[i] \cup {probe'[i]} \in SUBSET Nat
        BY <3>3 DEF TypeOK
      <4>. QED
        BY <2>2, <4>1 DEF TypeOK
    <3>. QED
      <4>1. \/ UNCHANGED expired /\ UNCHANGED acked
            \/ expired' = [expired EXCEPT ![i] = FALSE] /\ acked' = [acked EXCEPT ![i] = FALSE]
        BY <2>2
      <4>2. expired' \in [Broker -> BOOLEAN] /\ acked' \in [Broker -> BOOLEAN]
        BY <4>1 DEF TypeOK
      <4>3. pending \in [Broker -> Broker \cup {NoBroker}]
        BY DEF TypeOK
      <4>4. UNCHANGED pending \/ pending' = [pending EXCEPT ![i] = Head(claims[i])]
        BY <2>2
      <4>5. pending' \in [Broker -> Broker \cup {NoBroker}]
        BY <2>1, <4>3, <4>4
      <4>. QED
        BY <3>3, <3>4, <4>2, <4>5
  <2>. QED
    BY <1>1, <1>2, <1>3, <1>4, <2>3 DEF TypeOK, TakeClaim, fileVars
<1>5. CASE ~TakeClaim(i)
  <2>1. pending' \in [Broker -> Broker \cup {NoBroker}]
    BY <1>5 DEF TypeOK, Serves, TurnAway, HandleAck, HandleDeadline, HandleTransport
  <2>. QED
    BY <1>1, <1>2, <1>3, <1>5, <2>1
    DEF TypeOK, Serves, TurnAway, HandleAck, HandleDeadline, HandleTransport, NoProbe, fileVars
<1>. QED
  BY <1>4, <1>5

LEMMA LeavesType == ASSUME TypeOK, NEW i \in Broker, Leaves(i) PROVE TypeOK'
<1>1. {"unlinkBroker", "statOwner", "unlinkOwner", "closeOwner", "gone"} \subseteq Place
  BY DEF Place, Listening
<1>2. pc' \in [Broker -> Place]
  BY <1>1, GoToType DEF Leaves, StatBroker, UnlinkBroker, StatOwner, UnlinkOwner, CloseOwner, Moves
<1>. QED
  BY <1>2
  DEF TypeOK, Leaves, StatBroker, UnlinkBroker, StatOwner, UnlinkOwner, CloseOwner, Release,
      fileVars, claimVars

\* What happens to a broker from outside.
Happens(b) ==
  \/ AcquisitionTimesOut(b) \/ BindFails(b)
  \/ DeadlinePasses(b) \/ (\E n \in unacked[b] : MacAcks(b, n))
  \/ WriterFailed(b) \/ MacLost(b) \/ Crash(b)

LEMMA HappensType == ASSUME TypeOK, NEW b \in Broker, Happens(b) PROVE TypeOK'
<1>1. {"gone", "statOwner", "teardown"} \subseteq Place
  BY DEF Place, Listening
<1>2. pc' \in [Broker -> Place]
  BY <1>1, GoToType
  DEF TypeOK, Happens, AcquisitionTimesOut, BindFails, DeadlinePasses, MacAcks, WriterFailed,
      MacLost, Crash, Moves
<1>3. CASE \E n \in unacked[b] : MacAcks(b, n)
  <2>1. PICK n \in unacked[b] : MacAcks(b, n)
    BY <1>3
  <2>2. n \in Nat /\ (~expired[b]) \in BOOLEAN
    BY DEF TypeOK
  <2>3. [nonce |-> n, inTime |-> ~expired[b]] \in [nonce : Nat, inTime : BOOLEAN]
    BY <2>2
  <2>4. control' \in [Broker -> Seq([nonce : Nat, inTime : BOOLEAN])]
    BY <2>1, <2>3 DEF TypeOK, MacAcks
  <2>5. acked' \in [Broker -> BOOLEAN] /\ unacked' \in [Broker -> SUBSET Nat]
    BY <2>1 DEF TypeOK, MacAcks
  <2>. QED
    BY <1>2, <2>1, <2>4, <2>5 DEF TypeOK, MacAcks, fileVars
<1>4. CASE ~\E n \in unacked[b] : MacAcks(b, n)
  BY <1>2, <1>4
  DEF TypeOK, Happens, AcquisitionTimesOut, BindFails, DeadlinePasses, WriterFailed,
      MacLost, Crash, Release, fileVars, claimVars
<1>. QED
  BY <1>3, <1>4

-----------------------------------------------------------------------------
(* The sockets.                                                            *)

\* A broker moves on, or nobody does, and the files are as they were.
LEMMA FilesRest ==
  ASSUME IInv, TypeOK', NEW b \in Broker, NEW to, UNCHANGED <<ownerFile, brokerFile>>,
         UNCHANGED <<pc, lock>> \/ GoTo(b, to),
         to \in HasOwnerSock => pc[b] \in HasOwnerSock,
         to \in HasBrokerSock => pc[b] \in HasBrokerSock,
         to \in Listening => pc[b] \in Listening,
         to # "bindOwner" \/ ~Listens(ownerFile),
         to \in Acquiring => lock' = b,
         \A a \in Broker \ {b} : pc[a] \in Acquiring => lock' = a
  PROVE IInv'
<1>1. \A a \in Broker \ {b} : pc'[a] = pc[a]
  BY DEF IInv, TypeOK, GoTo
<1>2. UNCHANGED <<pc, lock>> \/ pc'[b] = to
  BY DEF IInv, TypeOK, GoTo
<1>3. LockOK' /\ OwnerSockOK' /\ BrokerSockOK'
  BY <1>1, <1>2 DEF IInv, LockOK, OwnerSockOK, BrokerSockOK
<1>4. Listens(ownerFile)' => Listens(ownerFile)
  BY <1>1, <1>2 DEF IInv, TypeOK, Listens
<1>5. FreeOK'
  BY <1>1, <1>2, <1>4 DEF IInv, FreeOK, Listens
<1>. QED
  BY <1>3, <1>5 DEF IInv

\* Letting go of the lock takes it from nobody else, nor does leaving it alone.
LEMMA OthersKeepLock ==
  ASSUME IInv, NEW b \in Broker, Release(b) \/ UNCHANGED lock
  PROVE \A a \in Broker \ {b} : pc[a] \in Acquiring => lock' = a
BY DEF IInv, LockOK, Release

LEMMA AcquiresKeeps == ASSUME IInv, NEW b \in Broker, Acquires(b) PROVE IInv'
<1>. USE DEF Acquiring, HasOwnerSock, HasBrokerSock, Listening
<1>1. TypeOK'
  BY AcquiresType DEF IInv
<1>2. CASE Start(b)
  BY <1>1, <1>2, FilesRest DEF IInv, LockOK, Start, Moves, fileVars
<1>3. CASE TakeLock(b)
  <2>1. \A a \in Broker : pc[a] \notin Acquiring
    BY <1>3, ArbitrationAssumption DEF IInv, LockOK, TakeLock
  <2>. QED
    <3>1. GoTo(b, "connect") /\ lock' = b /\ UNCHANGED <<ownerFile, brokerFile>>
      BY <1>3 DEF TakeLock, Moves
    <3>. QED
      BY <1>1, <2>1, <3>1, FilesRest
<1>4. CASE Connect(b)
  BY <1>1, <1>4, FilesRest DEF IInv, LockOK, Connect, fileVars
<1>5. CASE TryAgain(b)
  BY <1>1, <1>5, FilesRest DEF IInv, LockOK, TryAgain, Moves, fileVars
<1>6. CASE OwnerConflict(b)
  <2>1. /\ pc[b] = "asked" /\ GoTo(b, "gone") /\ Release(b)
        /\ UNCHANGED <<ownerFile, brokerFile>>
    BY <1>6 DEF OwnerConflict, Moves
  <2>. QED
    BY <1>1, <2>1, FilesRest, OthersKeepLock
<1>7. CASE BindOwner(b)
  <2>1. /\ pc[b] = "bindOwner" /\ ownerFile' = b /\ UNCHANGED <<lock, brokerFile>>
        /\ pc' = [pc EXCEPT ![b] = "bindBroker"]
    BY <1>7 DEF BindOwner, Moves, GoTo
  <2>2. pc'[b] = "bindBroker" /\ \A a \in Broker \ {b} : pc'[a] = pc[a]
    BY <2>1 DEF IInv, TypeOK
  <2>3. \A a \in Broker : pc[a] \notin HasOwnerSock
    BY <2>1, ArbitrationAssumption DEF IInv, FreeOK, OwnerSockOK, Listens
  <2>4. \A a \in Broker \ {b} : pc[a] # "bindOwner"
    BY <2>1 DEF IInv, LockOK
  <2>. QED
    BY <1>1, <2>1, <2>2, <2>3, <2>4
    DEF IInv, LockOK, OwnerSockOK, BrokerSockOK, FreeOK
<1>8. CASE BindBroker(b)
  <2>1. /\ pc[b] = "bindBroker" /\ brokerFile' = b /\ UNCHANGED <<lock, ownerFile>>
        /\ pc' = [pc EXCEPT ![b] = "unlock"]
    BY <1>8 DEF BindBroker, Moves, GoTo
  <2>2. pc'[b] = "unlock" /\ \A a \in Broker \ {b} : pc'[a] = pc[a]
    BY <2>1 DEF IInv, TypeOK
  <2>3. \A a \in Broker \ {b} : pc[a] \notin HasOwnerSock /\ pc[a] # "bindOwner"
    BY <2>1 DEF IInv, LockOK, OwnerSockOK
  <2>. QED
    BY <1>1, <2>1, <2>2, <2>3
    DEF IInv, LockOK, OwnerSockOK, BrokerSockOK, FreeOK
<1>9. CASE Unlock(b)
  <2>1. /\ pc[b] = "unlock" /\ GoTo(b, "serving") /\ Release(b)
        /\ UNCHANGED <<ownerFile, brokerFile>>
    BY <1>9 DEF Unlock, Moves
  <2>. QED
    BY <1>1, <2>1, FilesRest, OthersKeepLock
<1>. QED
  BY <1>2, <1>3, <1>4, <1>5, <1>6, <1>7, <1>8, <1>9 DEF Acquires

LEMMA ServesKeeps == ASSUME IInv, NEW i \in Broker, Serves(i) PROVE IInv'
<1>1. TypeOK'
  BY ServesType DEF IInv
<1>2. /\ UNCHANGED fileVars /\ pc[i] = "serving"
      /\ UNCHANGED pc \/ GoTo(i, "teardown")
  BY DEF Serves, TakeClaim, TurnAway, HandleAck, HandleDeadline, HandleTransport, Grant,
         Serving
<1>. QED
  BY <1>1, <1>2, FilesRest
  DEF IInv, LockOK, Acquiring, HasOwnerSock, HasBrokerSock, Listening, fileVars

LEMMA LeavesKeeps == ASSUME IInv, NEW i \in Broker, Leaves(i) PROVE IInv'
<1>. USE DEF Acquiring, HasOwnerSock, HasBrokerSock, Listening
<1>1. TypeOK'
  BY LeavesType DEF IInv
<1>2. CASE StatBroker(i)
  BY <1>1, <1>2, FilesRest DEF IInv, LockOK, StatBroker, fileVars
<1>3. CASE UnlinkBroker(i)
  <2>1. /\ pc[i] = "unlinkBroker" /\ brokerFile' = NoBroker /\ UNCHANGED <<lock, ownerFile>>
        /\ pc' = [pc EXCEPT ![i] = "statOwner"]
    BY <1>3 DEF UnlinkBroker, Moves, GoTo
  <2>2. pc'[i] = "statOwner" /\ \A a \in Broker \ {i} : pc'[a] = pc[a]
    BY <2>1 DEF IInv, TypeOK
  <2>3. \A a \in Broker \ {i} : pc[a] \notin HasOwnerSock
    BY <2>1 DEF IInv, OwnerSockOK
  <2>4. \A a \in Broker : pc[a] # "bindOwner"
    BY <2>1, ArbitrationAssumption DEF IInv, OwnerSockOK, FreeOK, Listens
  <2>. QED
    BY <1>1, <2>1, <2>2, <2>3, <2>4
    DEF IInv, LockOK, OwnerSockOK, BrokerSockOK, FreeOK
<1>4. CASE StatOwner(i)
  BY <1>1, <1>4, FilesRest DEF IInv, LockOK, StatOwner, fileVars
<1>5. CASE UnlinkOwner(i)
  <2>1. /\ pc[i] = "unlinkOwner" /\ ownerFile' = NoBroker /\ UNCHANGED <<lock, brokerFile>>
        /\ pc' = [pc EXCEPT ![i] = "closeOwner"]
    BY <1>5 DEF UnlinkOwner, Moves, GoTo
  <2>2. pc'[i] = "closeOwner" /\ \A a \in Broker \ {i} : pc'[a] = pc[a]
    BY <2>1 DEF IInv, TypeOK
  <2>3. \A a \in Broker \ {i} : pc[a] \notin HasOwnerSock
    BY <2>1 DEF IInv, OwnerSockOK
  <2>. QED
    BY <1>1, <2>1, <2>2, <2>3
    DEF IInv, LockOK, OwnerSockOK, BrokerSockOK, FreeOK, Listens
<1>6. CASE CloseOwner(i)
  <2>1. /\ pc[i] = "closeOwner" /\ GoTo(i, "gone") /\ Release(i)
        /\ UNCHANGED <<ownerFile, brokerFile>>
    BY <1>6 DEF CloseOwner, Moves
  <2>. QED
    BY <1>1, <2>1, FilesRest, OthersKeepLock
<1>. QED
  BY <1>2, <1>3, <1>4, <1>5, <1>6 DEF Leaves

LEMMA HappensKeeps == ASSUME IInv, NEW b \in Broker, Happens(b) PROVE IInv'
<1>. USE DEF Acquiring, HasOwnerSock, HasBrokerSock, Listening
<1>1. TypeOK'
  BY HappensType DEF IInv
<1>2. CASE AcquisitionTimesOut(b) \/ BindFails(b) \/ WriterFailed(b) \/ Crash(b)
  <2>1. /\ UNCHANGED <<ownerFile, brokerFile>>
        /\ \/ GoTo(b, "gone") /\ Release(b)
           \/ pc[b] = "bindBroker" /\ GoTo(b, "statOwner") /\ UNCHANGED lock
           \/ pc[b] = "serving" /\ GoTo(b, "teardown") /\ UNCHANGED lock
    BY <1>2 DEF AcquisitionTimesOut, BindFails, WriterFailed, Crash, Moves, fileVars
  <2>. QED
    <3>1. \A a \in Broker \ {b} : pc[a] \in Acquiring => lock' = a
      BY <2>1, OthersKeepLock
    <3>2. CASE GoTo(b, "gone")
      BY <1>1, <2>1, <3>1, <3>2, FilesRest
    <3>3. CASE pc[b] = "bindBroker" /\ GoTo(b, "statOwner")
      BY <1>1, <2>1, <3>1, <3>3, FilesRest
    <3>4. CASE pc[b] = "serving" /\ GoTo(b, "teardown")
      BY <1>1, <2>1, <3>1, <3>4, FilesRest
    <3>. QED
      BY <2>1, <3>2, <3>3, <3>4
<1>3. CASE DeadlinePasses(b) \/ (\E n \in unacked[b] : MacAcks(b, n)) \/ MacLost(b)
  <2>1. UNCHANGED <<pc, lock, ownerFile, brokerFile>>
    BY <1>3 DEF DeadlinePasses, MacAcks, MacLost, fileVars
  <2>. QED
    BY <1>1, <2>1 DEF IInv, LockOK, OwnerSockOK, BrokerSockOK, FreeOK, Listens
<1>. QED
  BY <1>2, <1>3 DEF Happens

\* What every reachable state satisfies.
LEMMA Invariance == Spec => []IInv
<1>1. IInv /\ [Next]_vars => IInv'
  <2> SUFFICES ASSUME IInv, [Next]_vars PROVE IInv'
    OBVIOUS
  <2>1. ASSUME NEW b \in Broker, Acquires(b) \/ Serves(b) \/ Leaves(b) \/ Happens(b)
        PROVE IInv'
    BY <2>1, AcquiresKeeps, ServesKeeps, LeavesKeeps, HappensKeeps
  <2>2. CASE UNCHANGED vars
    BY <2>2
    DEF vars, fileVars, claimVars, IInv, TypeOK, LockOK, OwnerSockOK, BrokerSockOK, FreeOK,
        Listens
  <2>. QED
    BY <2>1, <2>2 DEF Next, Happens
<1>. QED
  BY <1>1, InitHolds, PTL DEF Spec

\* The variables keep their types (src/src/ego_bridge.rs:1684-1891).
THEOREM TypeCorrect == Spec => []TypeOK
<1>1. IInv => TypeOK
  BY DEF IInv
<1>. QED
  BY <1>1, Invariance, PTL

\* At most one broker has the endpoint, however many start, crash or time out
\* (acquire_broker_socket, src/src/ego_bridge.rs:1724-1797).
THEOREM OneBrokerAtATime == Spec => []OneBroker
<1>1. IInv => OneBroker
  BY DEF IInv, OneBroker, OwnerSockOK, Owns, HasOwnerSock
<1>. QED
  BY <1>1, Invariance, PTL

\* Nobody unlinks or replaces the sockets of the broker that serves (the drop of
\* SecureBrokerListener, src/src/ipc.rs:444-610).
THEOREM SocketsStay == Spec => []SocketsInPlace
<1>1. IInv => SocketsInPlace
  BY DEF IInv, SocketsInPlace, OwnerSockOK, BrokerSockOK, Serving, HasOwnerSock, HasBrokerSock
<1>. QED
  BY <1>1, Invariance, PTL
-----------------------------------------------------------------------------
(* Claims and probes.                                                      *)

Asking == {"connect", "asked"}
Unserved == {"new", "lock", "connect", "asked", "bindOwner", "bindBroker", "unlock"}

InQueue(i, b) == \E k \in DOMAIN claims[i] : claims[i][k] = b
HeldBy(i, b) == InQueue(i, b) \/ pending[i] = b

\* A claim is with one incumbent, the one that had owner.sock when it was made.
OneIncumbent ==
  \A i, b \in Broker : HeldBy(i, b) =>
    /\ pc[b] \notin {"new", "lock"}
    /\ pc[b] \in Asking => /\ ownerFile \in {i, NoBroker}
                           /\ \A j \in Broker : HeldBy(j, b) => i = j

\* It is there once, until it is answered.
OnceThere ==
  \A i, b \in Broker : pc[i] \in Listening /\ pc[b] \in Asking =>
    /\ pc[b] = "connect" \/ reply[b] # "none" => ~HeldBy(i, b)
    /\ \A j, k \in DOMAIN claims[i] : claims[i][j] = b /\ claims[i][k] = b => j = k
    /\ pending[i] = b => ~InQueue(i, b)

Proven(i) == \E k \in DOMAIN control[i] : Proves(i, control[i][k])

\* The probe under way was acknowledged in time exactly when that is to be seen in the
\* control lane; no nonce is ahead of the last probe.
ProbeOK ==
  \A i \in Broker :
    /\ pc[i] \in Unserved => pending[i] = NoBroker
    /\ \A n \in unacked[i] : n <= probe[i]
    /\ \A k \in DOMAIN control[i] : control[i][k].nonce <= probe[i]
    /\ pc[i] = "serving" /\ pending[i] # NoBroker => (acked[i] <=> Proven(i))

PInv == IInv /\ OneIncumbent /\ OnceThere /\ ProbeOK

LEMMA InitClaims == Init => PInv
<1> SUFFICES ASSUME Init PROVE PInv
  OBVIOUS
<1>1. IInv
  BY InitHolds
<1>2. \A i, b \in Broker : ~HeldBy(i, b)
  BY ArbitrationAssumption DEF Init, HeldBy, InQueue
<1>3. ProbeOK
  BY DEF Init, ProbeOK, Proven
<1>4. OnceThere
  BY DEF Init, OnceThere, Asking
<1>. QED
  BY <1>1, <1>2, <1>3, <1>4 DEF PInv, OneIncumbent

probeVars == <<pending, probe, unacked, control, acked>>

\* Claims, answers and probes are as they were; brokers move.
LEMMA ClaimsRest ==
  ASSUME PInv, IInv', UNCHANGED <<claims, reply, probeVars>>,
         \A b \in Broker : pc'[b] \in {"new", "lock"} => pc[b] \in {"new", "lock"},
         \A b \in Broker : pc'[b] \in Asking =>
           \/ pc[b] \in Asking /\ ownerFile' \in {ownerFile, NoBroker}
           \/ pc[b] = "lock",
         \A b \in Broker : pc'[b] = "connect" /\ pc[b] = "asked" =>
           \A i \in Broker : pc[i] \in Listening => ~HeldBy(i, b),
         \A i \in Broker : pc'[i] \in Listening =>
           pc[i] \in Listening \/ \A b \in Broker : pc'[b] \notin Asking,
         \A i \in Broker : pc'[i] \in Unserved => pc[i] \in Unserved,
         \A i \in Broker : pc'[i] = "serving" => pc[i] \in Unserved \cup {"serving"}
  PROVE PInv'
<1>1. \A i, b \in Broker : HeldBy(i, b)' <=> HeldBy(i, b)
  BY DEF HeldBy, InQueue, probeVars
<1>2. OneIncumbent'
  <2> SUFFICES ASSUME NEW i \in Broker, NEW b \in Broker, HeldBy(i, b)
               PROVE /\ pc'[b] \notin {"new", "lock"}
                     /\ pc'[b] \in Asking => /\ ownerFile' \in {i, NoBroker}
                                             /\ \A j \in Broker : HeldBy(j, b) => i = j
    BY <1>1 DEF OneIncumbent
  <2>. QED
    BY DEF PInv, OneIncumbent
<1>3. OnceThere'
  <2> SUFFICES ASSUME NEW i \in Broker, NEW b \in Broker, pc'[i] \in Listening,
                      pc'[b] \in Asking
               PROVE /\ pc'[b] = "connect" \/ reply[b] # "none" => ~HeldBy(i, b)
                     /\ \A j, k \in DOMAIN claims[i] :
                          claims[i][j] = b /\ claims[i][k] = b => j = k
                     /\ pending[i] = b => ~InQueue(i, b)
    BY <1>1 DEF OnceThere, probeVars, InQueue
  <2>1. pc[i] \in Listening
    OBVIOUS
  <2>2. CASE pc[b] = "lock"
    <3>1. ~HeldBy(i, b)
      BY <2>2 DEF PInv, OneIncumbent
    <3>. QED
      BY <3>1 DEF HeldBy, InQueue
  <2>3. CASE pc[b] \in Asking
    BY <2>1, <2>3 DEF PInv, OnceThere, Asking
  <2>. QED
    BY <2>2, <2>3
<1>4. ProbeOK'
  <2>1. \A i \in Broker : Proven(i)' <=> Proven(i)
    BY DEF Proven, Proves, probeVars
  <2>. QED
    BY <2>1 DEF PInv, ProbeOK, probeVars
<1>. QED
  BY <1>2, <1>3, <1>4 DEF PInv

LEMMA TakeLockRests == ASSUME PInv, NEW b \in Broker, TakeLock(b) PROVE PInv'
<1>1. IInv'
  BY AcquiresKeeps DEF PInv, Acquires
<1>2. /\ pc[b] = "lock" /\ pc' = [pc EXCEPT ![b] = "connect"]
      /\ UNCHANGED <<claims, reply, probeVars>>
  BY DEF TakeLock, Moves, GoTo, claimVars, probeVars
<1>3. ownerFile' = ownerFile /\ pc \in [Broker -> Place]
  BY DEF TakeLock, PInv, IInv, TypeOK
<1>. QED
  BY <1>1, <1>2, <1>3, ClaimsRest DEF Asking, Unserved, Listening

LEMMA TryAgainRests == ASSUME PInv, NEW b \in Broker, TryAgain(b) PROVE PInv'
<1>1. IInv'
  BY AcquiresKeeps DEF PInv, Acquires
<1>2. /\ pc[b] = "asked" /\ pc' = [pc EXCEPT ![b] = "connect"] /\ ownerFile' = ownerFile
      /\ UNCHANGED <<claims, reply, probeVars>>
  BY DEF TryAgain, Moves, GoTo, claimVars, fileVars, probeVars
<1>3. \A i \in Broker : pc[i] \in Listening => ~HeldBy(i, b)
  <2>1. CASE reply[b] # "none"
    BY <1>2, <2>1 DEF PInv, OnceThere, Asking
  <2>2. CASE reply[b] = "none"
    <3>1. ~Connected(b)
      BY <2>2 DEF TryAgain
    <3>. QED
      BY <3>1, ArbitrationAssumption DEF Connected, Listens, HeldBy, InQueue
  <2>. QED
    BY <2>1, <2>2
<1>4. pc \in [Broker -> Place]
  BY DEF PInv, IInv, TypeOK
<1>. QED
  BY <1>1, <1>2, <1>3, <1>4, ClaimsRest DEF Asking, Unserved, Listening

LEMMA BindRests ==
  ASSUME PInv, NEW b \in Broker, BindOwner(b) \/ BindBroker(b) \/ Unlock(b)
  PROVE PInv'
<1>1. IInv'
  BY AcquiresKeeps DEF PInv, Acquires
<1>2. PICK to \in {"bindBroker", "unlock", "serving"} :
        /\ pc[b] \in {"bindOwner", "bindBroker", "unlock"}
        /\ pc' = [pc EXCEPT ![b] = to]
        /\ UNCHANGED <<claims, reply, probeVars>>
  BY DEF BindOwner, BindBroker, Unlock, Moves, GoTo, claimVars, probeVars
<1>3. \A a \in Broker : pc[a] \notin Asking
  BY <1>2 DEF PInv, IInv, LockOK, Acquiring, Asking
<1>4. pc \in [Broker -> Place]
  BY DEF PInv, IInv, TypeOK
<1>5. \A a \in Broker : pc'[a] \notin Asking
  BY <1>2, <1>3, <1>4 DEF Asking
<1>. QED
  BY <1>1, <1>2, <1>4, <1>5, ClaimsRest DEF Unserved, Listening, Asking

LEMMA GoneRests ==
  ASSUME PInv, IInv', NEW b \in Broker, NEW to, GoTo(b, to),
         UNCHANGED <<claims, reply, probeVars>>, ownerFile' \in {ownerFile, NoBroker},
         \/ to \in {"gone", "lock"} /\ (to = "lock" => pc[b] = "new")
         \/ pc[b] \in Listening \ {"unlock"}
              /\ to \in {"teardown", "unlinkBroker", "statOwner", "unlinkOwner", "closeOwner"}
  PROVE PInv'
<1>1. pc \in [Broker -> Place] /\ pc' = [pc EXCEPT ![b] = to]
  BY DEF PInv, IInv, TypeOK, GoTo
<1>2. \A a \in Broker \ {b} : pc'[a] = pc[a]
  BY <1>1
<1>3. pc'[b] = to
  BY <1>1
<1>. QED
  BY <1>2, <1>3, ClaimsRest DEF Asking, Unserved, Listening

LEMMA OthersRest ==
  ASSUME PInv, NEW b \in Broker,
         \/ Start(b) \/ OwnerConflict(b) \/ Leaves(b)
         \/ AcquisitionTimesOut(b) \/ BindFails(b) \/ WriterFailed(b) \/ Crash(b)
  PROVE PInv'
<1>1. IInv'
  BY AcquiresKeeps, LeavesKeeps, HappensKeeps DEF PInv, Acquires, Happens
<1>2. UNCHANGED <<claims, reply, probeVars>> /\ ownerFile' \in {ownerFile, NoBroker}
  BY DEF Start, OwnerConflict, Leaves, AcquisitionTimesOut, BindFails, WriterFailed, Crash,
         StatBroker, UnlinkBroker, StatOwner, UnlinkOwner, CloseOwner, fileVars, claimVars,
         probeVars
<1>3. \/ GoTo(b, "gone")
      \/ pc[b] = "new" /\ GoTo(b, "lock")
      \/ /\ pc[b] \in Listening \ {"unlock"}
         /\ \E to \in {"teardown", "unlinkBroker", "statOwner", "unlinkOwner", "closeOwner"} :
              GoTo(b, to)
  BY DEF Start, OwnerConflict, Leaves, AcquisitionTimesOut, BindFails, WriterFailed, Crash,
         StatBroker, UnlinkBroker, StatOwner, UnlinkOwner, CloseOwner, Moves, Listening
<1>. QED
  BY <1>1, <1>2, <1>3, GoneRests

\* A claim reaches the incumbent that has owner.sock, and no other has it.
LEMMA ConnectKeeps == ASSUME PInv, NEW b \in Broker, Connect(b) PROVE PInv'
<1>1. IInv' /\ pc \in [Broker -> Place] /\ claims \in [Broker -> Seq(Broker)]
      /\ reply \in [Broker -> {"none", "granted", "retry", "alive"}]
  BY AcquiresKeeps DEF PInv, Acquires, IInv, TypeOK
<1>2. /\ pc[b] = "connect" /\ UNCHANGED probeVars /\ ownerFile' = ownerFile
      /\ \A a \in Broker \ {b} : pc[a] \notin Asking
  BY DEF Connect, probeVars, fileVars, PInv, IInv, LockOK, Acquiring, Asking
<1>3. CASE ~Listens(ownerFile)
  <2>1. pc' = [pc EXCEPT ![b] = "bindOwner"] /\ UNCHANGED <<claims, reply>>
    BY <1>3 DEF Connect, GoTo
  <2>. QED
    BY <1>1, <1>2, <2>1, ClaimsRest DEF Asking, Unserved, Listening
<1>4. CASE Listens(ownerFile)
  <2>1. PICK i \in Broker : i = ownerFile /\ pc[i] \in Listening /\ i # b
    BY <1>2, <1>4 DEF Listens, PInv, IInv, TypeOK, Listening
  <2>2. /\ pc' = [pc EXCEPT ![b] = "asked"]
        /\ claims' = [claims EXCEPT ![i] = Append(@, b)]
        /\ reply' = [reply EXCEPT ![b] = "none"]
    BY <1>4, <2>1 DEF Connect, GoTo
  <2>3. /\ pc'[b] = "asked" /\ reply'[b] = "none"
        /\ \A a \in Broker \ {b} : pc'[a] = pc[a]
        /\ claims'[i] = Append(claims[i], b) /\ \A j \in Broker \ {i} : claims'[j] = claims[j]
    BY <1>1, <2>2
  <2>4. claims[i] \in Seq(Broker)
    BY <1>1
  <2>5. ~HeldBy(i, b)
    BY <1>2, <2>1 DEF PInv, OnceThere, Asking
  <2>6. \A j \in Broker : ~HeldBy(j, b)
    BY <1>2, <2>1, <2>5, ArbitrationAssumption DEF PInv, OneIncumbent, Asking
  <2>7. ASSUME NEW j \in Broker, NEW a \in Broker
        PROVE /\ a # b => (HeldBy(j, a)' <=> HeldBy(j, a))
              /\ HeldBy(j, b)' <=> j = i
    <3>1. DOMAIN claims[i] = 1 .. Len(claims[i]) /\ Len(claims[i]) \in Nat
      BY <2>4
    <3>2. /\ DOMAIN claims'[i] = 1 .. (Len(claims[i]) + 1)
          /\ \A k \in DOMAIN claims[i] : claims'[i][k] = claims[i][k]
          /\ claims'[i][Len(claims[i]) + 1] = b
      BY <2>3, <2>4
    <3>3. InQueue(i, a)' <=> InQueue(i, a) \/ a = b
      BY <3>1, <3>2 DEF InQueue
    <3>4. InQueue(i, b)'
      BY <3>1, <3>2 DEF InQueue
    <3>5. j # i => (InQueue(j, a)' <=> InQueue(j, a)) /\ (InQueue(j, b)' <=> InQueue(j, b))
      BY <2>3 DEF InQueue
    <3>6. pending' = pending
      BY <1>2 DEF probeVars
    <3>7. a # b => (HeldBy(j, a)' <=> HeldBy(j, a))
      BY <3>3, <3>5, <3>6 DEF HeldBy
    <3>8. HeldBy(j, b)' <=> j = i
      BY <2>6, <3>4, <3>5, <3>6 DEF HeldBy
    <3>. QED
      BY <3>7, <3>8
  <2>8. OneIncumbent'
    BY <1>2, <2>1, <2>3, <2>7 DEF PInv, OneIncumbent, Asking
  <2>9. OnceThere'
    <3> SUFFICES ASSUME NEW j \in Broker, NEW a \in Broker, pc'[j] \in Listening,
                        pc'[a] \in Asking
                 PROVE /\ pc'[a] = "connect" \/ reply'[a] # "none" => ~HeldBy(j, a)'
                       /\ \A m, n \in DOMAIN claims'[j] :
                            claims'[j][m] = a /\ claims'[j][n] = a => m = n
                       /\ pending'[j] = a => ~InQueue(j, a)'
      BY DEF OnceThere
    <3>1. a = b
      BY <1>2, <2>3
    <3>2. \A k \in DOMAIN claims[j] : claims[j][k] # b
      BY <2>6 DEF HeldBy, InQueue
    <3>3. pending'[j] # b
      BY <1>2, <2>6 DEF HeldBy, probeVars
    <3>4. \A m, n \in DOMAIN claims'[j] : claims'[j][m] = b /\ claims'[j][n] = b => m = n
      <4>1. CASE j # i
        BY <2>3, <3>2, <4>1
      <4>2. CASE j = i
        BY <2>3, <2>4, <3>2, <4>2
      <4>. QED
        BY <4>1, <4>2
    <3>. QED
      BY <2>3, <3>1, <3>3, <3>4
  <2>10. ProbeOK'
    <3>1. \A j \in Broker : Proven(j)' <=> Proven(j)
      BY <1>2 DEF Proven, Proves, probeVars
    <3>. QED
      BY <1>2, <2>3, <3>1 DEF PInv, ProbeOK, probeVars, Unserved
  <2>. QED
    BY <1>1, <2>8, <2>9, <2>10 DEF PInv
<1>. QED
  BY <1>3, <1>4

\* What an incumbent takes or answers it lets go of.
LEMMA AnsweredKeeps ==
  ASSUME PInv, IInv', NEW i \in Broker, pc[i] = "serving",
         UNCHANGED pc \/ GoTo(i, "teardown"), UNCHANGED fileVars,
         \A j \in Broker \ {i} : claims'[j] = claims[j] /\ pending'[j] = pending[j],
         \A b \in Broker : HeldBy(i, b)' => HeldBy(i, b),
         \A b \in Broker : reply'[b] # reply[b] => HeldBy(i, b) /\ ~HeldBy(i, b)',
         \A b \in Broker : pc[b] \in Asking =>
           /\ \A m, n \in DOMAIN claims'[i] : claims'[i][m] = b /\ claims'[i][n] = b => m = n
           /\ pending'[i] = b => ~InQueue(i, b)'
  PROVE OneIncumbent' /\ OnceThere'
<1>1. pc \in [Broker -> Place]
  BY DEF PInv, IInv, TypeOK
<1>2. /\ \A b \in Broker : pc'[b] \in Asking \cup {"new", "lock", "connect"} => pc'[b] = pc[b]
      /\ \A b \in Broker : pc'[b] \in Listening => pc[b] \in Listening
      /\ ownerFile' = ownerFile
  BY <1>1 DEF GoTo, Asking, Listening, fileVars
<1>3. \A j \in Broker \ {i}, b \in Broker :
        (HeldBy(j, b)' <=> HeldBy(j, b)) /\ (InQueue(j, b)' <=> InQueue(j, b))
  BY DEF HeldBy, InQueue
<1>4. \A j, b \in Broker : HeldBy(j, b)' => HeldBy(j, b)
  BY <1>3
<1>5. OneIncumbent'
  <2> SUFFICES ASSUME NEW j \in Broker, NEW b \in Broker, HeldBy(j, b)'
               PROVE /\ pc'[b] \notin {"new", "lock"}
                     /\ pc'[b] \in Asking => /\ ownerFile' \in {j, NoBroker}
                                             /\ \A k \in Broker : HeldBy(k, b)' => j = k
    BY DEF OneIncumbent
  <2>1. HeldBy(j, b) /\ pc[b] \notin {"new", "lock"}
        /\ (pc[b] \in Asking => /\ ownerFile \in {j, NoBroker}
                                /\ \A k \in Broker : HeldBy(k, b) => j = k)
    BY <1>4 DEF PInv, OneIncumbent
  <2>. QED
    BY <1>2, <1>4, <2>1
<1>6. OnceThere'
  <2> SUFFICES ASSUME NEW j \in Broker, NEW b \in Broker, pc'[j] \in Listening,
                      pc'[b] \in Asking
               PROVE /\ pc'[b] = "connect" \/ reply'[b] # "none" => ~HeldBy(j, b)'
                     /\ \A m, n \in DOMAIN claims'[j] :
                          claims'[j][m] = b /\ claims'[j][n] = b => m = n
                     /\ pending'[j] = b => ~InQueue(j, b)'
    BY DEF OnceThere
  <2>1. pc[j] \in Listening /\ pc[b] = pc'[b] /\ pc[b] \in Asking
    BY <1>2
  <2>2. /\ pc[b] = "connect" \/ reply[b] # "none" => ~HeldBy(j, b)
        /\ \A m, n \in DOMAIN claims[j] : claims[j][m] = b /\ claims[j][n] = b => m = n
        /\ pending[j] = b => ~InQueue(j, b)
    BY <2>1 DEF PInv, OnceThere
  <2>3. pc'[b] = "connect" \/ reply'[b] # "none" => ~HeldBy(j, b)'
    <3>1. CASE reply'[b] = reply[b]
      BY <1>4, <2>1, <2>2, <3>1
    <3>2. CASE reply'[b] # reply[b]
      <4>1. HeldBy(i, b) /\ ~HeldBy(i, b)'
        BY <3>2
      <4>2. j # i => ~HeldBy(j, b)
        BY <2>1, <4>1 DEF PInv, OneIncumbent
      <4>. QED
        BY <1>4, <4>1, <4>2
    <3>. QED
      BY <3>1, <3>2
  <2>4. CASE j = i
    BY <2>1, <2>3, <2>4
  <2>5. CASE j # i
    BY <1>3, <2>2, <2>3, <2>5
  <2>. QED
    BY <2>4, <2>5
<1>. QED
  BY <1>5, <1>6

LEMMA ElementType == ASSUME NEW S, NEW s \in Seq(S) PROVE \A k \in DOMAIN s : s[k] \in S
OBVIOUS

\* An answer is to one claimant.
LEMMA ToldOne ==
  ASSUME PInv, NEW b, NEW answer, Tell(b, answer)
  PROVE \A a \in Broker : reply'[a] # reply[a] =>
          a = b /\ Waiting(b) /\ reply'[a] = answer
BY DEF PInv, IInv, TypeOK, Tell

LEMMA TakeClaimKeeps == ASSUME PInv, NEW i \in Broker, TakeClaim(i) PROVE PInv'
<1>1. IInv' /\ pc[i] = "serving" /\ claims[i] # <<>> /\ claims \in [Broker -> Seq(Broker)]
      /\ pending \in [Broker -> Broker \cup {NoBroker}] /\ pc \in [Broker -> Place]
  BY ServesKeeps DEF PInv, Serves, TakeClaim, Serving, IInv, TypeOK
<1>2. PICK b \in Broker : b = Head(claims[i])
  BY <1>1
<1>3. /\ claims' = [claims EXCEPT ![i] = Tail(@)] /\ UNCHANGED fileVars /\ UNCHANGED control
      /\ UNCHANGED pc \/ GoTo(i, "teardown")
  BY DEF TakeClaim, Grant
<1>4. \/ UNCHANGED pending /\ NoProbe
      \/ /\ pending[i] = NoBroker /\ pending' = [pending EXCEPT ![i] = b]
         /\ probe' = [probe EXCEPT ![i] = @ + 1]
         /\ unacked' = [unacked EXCEPT ![i] = @ \cup {probe'[i]}]
         /\ acked' = [acked EXCEPT ![i] = FALSE]
         /\ UNCHANGED reply
  BY <1>2, Zenon DEF TakeClaim
<1>5. \A a \in Broker : reply'[a] # reply[a] => a = b /\ UNCHANGED pending /\ Waiting(b)
  <2>1. UNCHANGED reply \/ \E answer : Tell(b, answer) /\ UNCHANGED pending
    BY <1>2 DEF TakeClaim, Grant
  <2>. QED
    BY <2>1, ToldOne
<1>6. /\ \A j \in Broker \ {i} : claims'[j] = claims[j]
      /\ claims'[i] = Tail(claims[i]) /\ claims[i] \in Seq(Broker)
      /\ claims[i][1] = b
  BY <1>1, <1>2, <1>3
<1>7. /\ DOMAIN claims'[i] = 1 .. (Len(claims[i]) - 1)
      /\ \A k \in 1 .. (Len(claims[i]) - 1) : claims'[i][k] = claims[i][k + 1]
      /\ DOMAIN claims[i] = 1 .. Len(claims[i]) /\ Len(claims[i]) \in Nat \ {0}
  BY <1>1, <1>6
<1>8. \A a \in Broker : InQueue(i, a)' => InQueue(i, a)
  BY <1>7 DEF InQueue
<1>9. InQueue(i, b)
  BY <1>6, <1>7 DEF InQueue
<1>10. \A j \in Broker \ {i} : pending'[j] = pending[j]
  BY <1>1, <1>4
<1>11. \A a \in Broker : HeldBy(i, a)' => HeldBy(i, a)
  BY <1>1, <1>4, <1>8, <1>9 DEF HeldBy
<1>12. ASSUME NEW a \in Broker, pc[a] \in Asking
       PROVE /\ \A m, n \in DOMAIN claims'[i] : claims'[i][m] = a /\ claims'[i][n] = a => m = n
             /\ pending'[i] = a => ~InQueue(i, a)'
             /\ a = b => ~InQueue(i, a)' /\ pending[i] # a
  <2>1. /\ \A m, n \in DOMAIN claims[i] : claims[i][m] = a /\ claims[i][n] = a => m = n
        /\ pending[i] = a => ~InQueue(i, a)
    BY <1>1, <1>12 DEF PInv, OnceThere, Listening
  <2>2. \A m, n \in DOMAIN claims'[i] : claims'[i][m] = a /\ claims'[i][n] = a => m = n
    <3> SUFFICES ASSUME NEW m \in DOMAIN claims'[i], NEW n \in DOMAIN claims'[i],
                        claims'[i][m] = a, claims'[i][n] = a
                 PROVE m = n
      OBVIOUS
    <3>1. m + 1 \in DOMAIN claims[i] /\ n + 1 \in DOMAIN claims[i]
      BY <1>7
    <3>2. claims[i][m + 1] = a /\ claims[i][n + 1] = a
      BY <1>7
    <3>3. m + 1 = n + 1
      BY <2>1, <3>1, <3>2
    <3>. QED
      BY <1>7, <3>3
  <2>3. a = b => ~InQueue(i, a)'
    <3> SUFFICES ASSUME a = b, NEW m \in DOMAIN claims'[i], claims'[i][m] = a PROVE FALSE
      BY DEF InQueue
    <3>1. m + 1 \in DOMAIN claims[i] /\ claims[i][m + 1] = a /\ 1 \in DOMAIN claims[i]
      BY <1>7
    <3>2. m + 1 = 1
      BY <1>6, <2>1, <3>1
    <3>. QED
      BY <1>7, <3>2
  <2>4. a = b => pending[i] # a
    BY <1>9, <2>1
  <2>5. pending'[i] = a => ~InQueue(i, a)'
    BY <1>1, <1>4, <1>8, <2>1, <2>3
  <2>. QED
    BY <2>2, <2>3, <2>4, <2>5
<1>13. \A a \in Broker : reply'[a] # reply[a] => HeldBy(i, a) /\ ~HeldBy(i, a)'
  <2> SUFFICES ASSUME NEW a \in Broker, reply'[a] # reply[a]
               PROVE HeldBy(i, a) /\ ~HeldBy(i, a)'
    OBVIOUS
  <2>1. a = b /\ UNCHANGED pending /\ pc[a] \in Asking
    BY <1>5 DEF Waiting, Asking
  <2>. QED
    BY <1>9, <1>12, <2>1 DEF HeldBy
<1>14. OneIncumbent' /\ OnceThere'
  <2>1. \A j \in Broker \ {i} : claims'[j] = claims[j] /\ pending'[j] = pending[j]
    BY <1>6, <1>10
  <2>2. \A a \in Broker : pc[a] \in Asking =>
          /\ \A m, n \in DOMAIN claims'[i] : claims'[i][m] = a /\ claims'[i][n] = a => m = n
          /\ pending'[i] = a => ~InQueue(i, a)'
    BY <1>12
  <2>. QED
    BY <1>1, <1>3, <1>11, <1>13, <2>1, <2>2, AnsweredKeeps
<1>15. ProbeOK'
  <2>1. /\ \A j \in Broker : pc'[j] \in Unserved => pc[j] \in Unserved /\ j # i
        /\ \A j \in Broker : pc'[j] = "serving" => pc[j] = "serving"
    BY <1>1, <1>3 DEF GoTo, Unserved
  <2>2. CASE UNCHANGED pending /\ NoProbe
    <3>1. \A j \in Broker : Proven(j)' <=> Proven(j)
      BY <1>3, <2>2 DEF Proven, Proves, NoProbe
    <3>. QED
      BY <1>3, <2>1, <2>2, <3>1 DEF PInv, ProbeOK, NoProbe
  <2>3. CASE /\ pending[i] = NoBroker /\ pending' = [pending EXCEPT ![i] = b]
             /\ probe' = [probe EXCEPT ![i] = @ + 1]
             /\ unacked' = [unacked EXCEPT ![i] = @ \cup {probe'[i]}]
             /\ acked' = [acked EXCEPT ![i] = FALSE]
    <3>1. /\ probe \in [Broker -> Nat] /\ unacked \in [Broker -> SUBSET Nat]
          /\ acked \in [Broker -> BOOLEAN]
          /\ control \in [Broker -> Seq([nonce : Nat, inTime : BOOLEAN])]
      BY DEF PInv, IInv, TypeOK
    <3>2. \A j \in Broker \ {i} : /\ probe'[j] = probe[j] /\ unacked'[j] = unacked[j]
                                 /\ acked'[j] = acked[j] /\ pending'[j] = pending[j]
      BY <2>3, <3>1, <1>10
    <3>3. probe'[i] = probe[i] + 1 /\ unacked'[i] = unacked[i] \cup {probe[i] + 1} /\ ~acked'[i]
      BY <2>3, <3>1
    <3>4. \A k \in DOMAIN control[i] :
            control[i][k].nonce \in Nat /\ control[i][k].nonce <= probe[i]
      <4>1. control[i] \in Seq([nonce : Nat, inTime : BOOLEAN])
        BY <3>1
      <4>2. \A k \in DOMAIN control[i] : control[i][k] \in [nonce : Nat, inTime : BOOLEAN]
        BY <4>1, ElementType
      <4>. QED
        BY <4>2 DEF PInv, ProbeOK
    <3>5. probe[i] \in Nat
      BY <3>1
    <3>6. ~Proven(i)'
      BY <1>3, <3>3, <3>4, <3>5 DEF Proven, Proves
    <3>7. \A j \in Broker \ {i} : Proven(j)' <=> Proven(j)
      BY <1>3, <3>2 DEF Proven, Proves
    <3>8. ASSUME NEW j \in Broker
          PROVE /\ pc'[j] \in Unserved => pending'[j] = NoBroker
                /\ \A n \in unacked'[j] : n <= probe'[j]
                /\ \A k \in DOMAIN control'[j] : control'[j][k].nonce <= probe'[j]
                /\ pc'[j] = "serving" /\ pending'[j] # NoBroker => (acked'[j] <=> Proven(j)')
      <4>1. CASE j # i
        BY <1>3, <2>1, <3>2, <3>7, <4>1 DEF PInv, ProbeOK
      <4>2. CASE j = i
        <5>1. \A n \in unacked[i] : n \in Nat /\ n <= probe[i]
          BY <3>1 DEF PInv, ProbeOK
        <5>. QED
          BY <1>3, <2>1, <3>3, <3>4, <3>5, <3>6, <4>2, <5>1
      <4>. QED
        BY <4>1, <4>2
    <3>. QED
      BY <3>8 DEF ProbeOK
  <2>. QED
    BY <1>4, <2>2, <2>3
<1>. QED
  BY <1>1, <1>14, <1>15 DEF PInv

\* The claim turned away is one of those not yet taken.
LEMMA TurnAwayKeeps == ASSUME PInv, NEW i \in Broker, TurnAway(i) PROVE PInv'
<1>1. /\ IInv' /\ pc[i] = "serving" /\ claims \in [Broker -> Seq(Broker)]
      /\ claims[i] \in Seq(Broker)
  BY ServesKeeps DEF PInv, Serves, TurnAway, Serving, IInv, TypeOK
<1>2. /\ claims' = [claims EXCEPT ![i] = Front(@)] /\ Len(claims[i]) > 1
      /\ UNCHANGED <<pc, pending, control, expired, probe, unacked, acked>> /\ UNCHANGED fileVars
      /\ Tell(Last(claims[i]), "retry")
  BY DEF TurnAway, NoProbe
<1>3. /\ \A j \in Broker \ {i} : claims'[j] = claims[j] /\ pending'[j] = pending[j]
      /\ claims'[i] = SubSeq(claims[i], 1, Len(claims[i]) - 1)
  BY <1>1, <1>2 DEF Front
<1>4. /\ Len(claims[i]) \in Nat /\ DOMAIN claims[i] = 1 .. Len(claims[i])
      /\ DOMAIN claims'[i] = 1 .. (Len(claims[i]) - 1)
      /\ \A k \in DOMAIN claims'[i] : k \in DOMAIN claims[i] /\ claims'[i][k] = claims[i][k]
  BY <1>1, <1>2, <1>3
<1>5. PICK b \in Broker : b = Last(claims[i]) /\ b = claims[i][Len(claims[i])]
  BY <1>1, <1>2, <1>4 DEF Last
<1>6. \A a \in Broker : InQueue(i, a)' => InQueue(i, a)
  BY <1>4 DEF InQueue
<1>7. \A a \in Broker : HeldBy(i, a)' => HeldBy(i, a)
  BY <1>2, <1>6 DEF HeldBy
<1>8. InQueue(i, b)
  BY <1>2, <1>4, <1>5 DEF InQueue
<1>9. ASSUME NEW a \in Broker, pc[a] \in Asking
      PROVE /\ \A m, n \in DOMAIN claims'[i] : claims'[i][m] = a /\ claims'[i][n] = a => m = n
            /\ pending'[i] = a => ~InQueue(i, a)'
            /\ a = b => ~InQueue(i, a)' /\ pending[i] # a
  <2>1. /\ \A m, n \in DOMAIN claims[i] : claims[i][m] = a /\ claims[i][n] = a => m = n
        /\ pending[i] = a => ~InQueue(i, a)
    BY <1>1, <1>9 DEF PInv, OnceThere, Listening
  <2>2. \A m, n \in DOMAIN claims'[i] : claims'[i][m] = a /\ claims'[i][n] = a => m = n
    BY <1>4, <2>1
  <2>3. pending'[i] = a => ~InQueue(i, a)'
    BY <1>2, <1>6, <2>1
  <2>4. a = b => ~InQueue(i, a)'
    <3> SUFFICES ASSUME a = b, NEW m \in DOMAIN claims'[i], claims'[i][m] = a PROVE FALSE
      BY DEF InQueue
    <3>1. m \in DOMAIN claims[i] /\ claims[i][m] = a
      BY <1>4
    <3>2. Len(claims[i]) \in DOMAIN claims[i] /\ claims[i][Len(claims[i])] = a
      BY <1>2, <1>4, <1>5
    <3>3. m = Len(claims[i])
      BY <2>1, <3>1, <3>2
    <3>. QED
      BY <1>4, <3>3
  <2>. QED
    BY <1>8, <2>1, <2>2, <2>3, <2>4
<1>10. \A a \in Broker : reply'[a] # reply[a] => HeldBy(i, a) /\ ~HeldBy(i, a)'
  <2> SUFFICES ASSUME NEW a \in Broker, reply'[a] # reply[a]
               PROVE HeldBy(i, a) /\ ~HeldBy(i, a)'
    OBVIOUS
  <2>1. a = b /\ pc[a] \in Asking
    BY <1>2, <1>5, ToldOne DEF Waiting, Asking
  <2>. QED
    BY <1>2, <1>8, <1>9, <2>1 DEF HeldBy
<1>11. OneIncumbent' /\ OnceThere'
  <2>1. \A a \in Broker : pc[a] \in Asking =>
          /\ \A m, n \in DOMAIN claims'[i] : claims'[i][m] = a /\ claims'[i][n] = a => m = n
          /\ pending'[i] = a => ~InQueue(i, a)'
    BY <1>9
  <2>. QED
    BY <1>1, <1>2, <1>3, <1>7, <1>10, <2>1, AnsweredKeeps
<1>12. ProbeOK'
  <2>1. \A j \in Broker : Proven(j)' <=> Proven(j)
    BY <1>2 DEF Proven, Proves
  <2>. QED
    BY <1>2, <2>1 DEF PInv, ProbeOK
<1>. QED
  BY <1>1, <1>11, <1>12 DEF PInv

\* The probe is settled, and its claimant told; an acknowledgement is popped.
LEMMA SettlesKeeps ==
  ASSUME PInv, NEW i \in Broker, HandleAck(i) \/ HandleDeadline(i) \/ HandleTransport(i)
  PROVE PInv'
<1>1. IInv' /\ pc[i] = "serving" /\ pc \in [Broker -> Place]
      /\ pending \in [Broker -> Broker \cup {NoBroker}]
      /\ control \in [Broker -> Seq([nonce : Nat, inTime : BOOLEAN])]
  BY ServesKeeps
  DEF PInv, Serves, HandleAck, HandleDeadline, HandleTransport, Serving, IInv, TypeOK
<1>2. /\ UNCHANGED <<claims, probe, unacked, acked>> /\ UNCHANGED fileVars
      /\ UNCHANGED pc \/ GoTo(i, "teardown")
  BY DEF HandleAck, HandleDeadline, HandleTransport, Grant, NoProbe
<1>3. \/ pending' = [pending EXCEPT ![i] = NoBroker]
      \/ UNCHANGED <<pending, reply>>
  BY DEF HandleAck, HandleDeadline, HandleTransport
<1>4. \A a \in Broker : reply'[a] # reply[a] =>
        a = pending[i] /\ pending'[i] = NoBroker /\ Waiting(a)
  <2>1. UNCHANGED reply \/ (pending'[i] = NoBroker /\ \E answer : Tell(pending[i], answer))
    BY <1>1 DEF HandleAck, HandleDeadline, HandleTransport, Grant
  <2>. QED
    BY <2>1, ToldOne
<1>5. \/ UNCHANGED control
      \/ control' = [control EXCEPT ![i] = <<>>] /\ pending' = [pending EXCEPT ![i] = NoBroker]
      \/ /\ control[i] # <<>> /\ control' = [control EXCEPT ![i] = Tail(@)]
         /\ \/ pending' = [pending EXCEPT ![i] = NoBroker]
            \/ UNCHANGED pending /\ (pending[i] = NoBroker \/ ~Proves(i, Head(control[i])))
  BY DEF HandleAck, HandleDeadline, HandleTransport
<1>6. /\ \A j \in Broker \ {i} : pending'[j] = pending[j] /\ control'[j] = control[j]
      /\ pending'[i] \in {pending[i], NoBroker}
  BY <1>1, <1>3, <1>5
<1>7. \A j, a \in Broker : InQueue(j, a)' <=> InQueue(j, a)
  BY <1>2 DEF InQueue
<1>8. \A a \in Broker : HeldBy(i, a)' => HeldBy(i, a)
  BY <1>6, <1>7, ArbitrationAssumption DEF HeldBy
<1>9. \A a \in Broker : pc[a] \in Asking =>
        /\ \A m, n \in DOMAIN claims'[i] : claims'[i][m] = a /\ claims'[i][n] = a => m = n
        /\ pending'[i] = a => ~InQueue(i, a)'
        /\ pending[i] = a => ~InQueue(i, a)
  BY <1>1, <1>2, <1>6, <1>7, ArbitrationAssumption DEF PInv, OnceThere, Listening
<1>10. \A a \in Broker : reply'[a] # reply[a] => HeldBy(i, a) /\ ~HeldBy(i, a)'
  BY <1>4, <1>7, <1>9, ArbitrationAssumption DEF HeldBy, Waiting, Asking
<1>11. OneIncumbent' /\ OnceThere'
  BY <1>1, <1>2, <1>6, <1>8, <1>9, <1>10, AnsweredKeeps
<1>12. ProbeOK'
  <2>1. /\ \A j \in Broker : pc'[j] \in Unserved => pc[j] \in Unserved /\ j # i
        /\ \A j \in Broker : pc'[j] = "serving" => pc[j] = "serving"
    BY <1>1, <1>2 DEF GoTo, Unserved
  <2>2. \A j \in Broker \ {i} : Proven(j)' <=> Proven(j)
    BY <1>2, <1>6 DEF Proven, Proves
  <2>3. control[i] \in Seq([nonce : Nat, inTime : BOOLEAN])
    BY <1>1
  <2>4. \A k \in DOMAIN control'[i] : \E m \in DOMAIN control[i] : control'[i][k] = control[i][m]
    <3>1. CASE UNCHANGED control
      BY <3>1
    <3>2. CASE control' = [control EXCEPT ![i] = <<>>]
      BY <1>1, <3>2
    <3>3. CASE control[i] # <<>> /\ control' = [control EXCEPT ![i] = Tail(@)]
      <4>1. control'[i] = Tail(control[i])
        BY <1>1, <3>3
      <4>2. \A k \in DOMAIN Tail(control[i]) :
              k + 1 \in DOMAIN control[i] /\ Tail(control[i])[k] = control[i][k + 1]
        BY <2>3, <3>3
      <4>. QED
        BY <4>1, <4>2
    <3>. QED
      BY <1>5, <3>1, <3>2, <3>3
  <2>5. pending'[i] # NoBroker => (Proven(i)' <=> Proven(i))
    <3> SUFFICES ASSUME pending'[i] # NoBroker PROVE Proven(i)' <=> Proven(i)
      OBVIOUS
    <3>1. Proven(i)' => Proven(i)
      BY <1>2, <2>4 DEF Proven, Proves
    <3>2. CASE UNCHANGED control
      BY <1>2, <3>2 DEF Proven, Proves
    <3>3. CASE control[i] # <<>> /\ control' = [control EXCEPT ![i] = Tail(@)]
               /\ ~Proves(i, Head(control[i]))
      <4>1. control'[i] = Tail(control[i])
        BY <1>1, <3>3
      <4>2. \A k \in DOMAIN control[i] :
              k = 1 \/ (k - 1 \in DOMAIN Tail(control[i])
                          /\ Tail(control[i])[k - 1] = control[i][k])
        BY <2>3, <3>3
      <4>3. Head(control[i]) = control[i][1]
        BY <2>3, <3>3
      <4>. QED
        BY <1>2, <3>1, <3>3, <4>1, <4>2, <4>3 DEF Proven, Proves
    <3>. QED
      BY <1>1, <1>5, <3>2, <3>3
  <2>6. ASSUME NEW j \in Broker
        PROVE /\ pc'[j] \in Unserved => pending'[j] = NoBroker
              /\ \A n \in unacked'[j] : n <= probe'[j]
              /\ \A k \in DOMAIN control'[j] : control'[j][k].nonce <= probe'[j]
              /\ pc'[j] = "serving" /\ pending'[j] # NoBroker => (acked'[j] <=> Proven(j)')
    <3>1. CASE j # i
      BY <1>2, <1>6, <2>1, <2>2, <3>1 DEF PInv, ProbeOK
    <3>2. CASE j = i
      <4>1. \A k \in DOMAIN control[i] : control[i][k].nonce <= probe[i]
        BY DEF PInv, ProbeOK
      <4>2. \A k \in DOMAIN control'[i] : control'[i][k].nonce <= probe[i]
        BY <2>4, <4>1
      <4>3. pending'[i] # NoBroker => pending[i] # NoBroker
        BY <1>6
      <4>. QED
        BY <1>1, <1>2, <2>1, <2>5, <3>2, <4>2, <4>3 DEF PInv, ProbeOK
    <3>. QED
      BY <3>1, <3>2
  <2>. QED
    BY <2>6 DEF ProbeOK
<1>. QED
  BY <1>1, <1>11, <1>12 DEF PInv

\* An acknowledgement in time of the probe under way is one to be seen.
LEMMA MacAcksKeeps ==
  ASSUME PInv, NEW i \in Broker, NEW n \in unacked[i], MacAcks(i, n)
  PROVE PInv'
<1>1. /\ control \in [Broker -> Seq([nonce : Nat, inTime : BOOLEAN])]
      /\ acked \in [Broker -> BOOLEAN] /\ unacked \in [Broker -> SUBSET Nat]
      /\ expired \in [Broker -> BOOLEAN]
  BY DEF PInv, IInv, TypeOK
<1>2. IInv' /\ UNCHANGED <<pc, claims, reply, pending, probe, ownerFile>>
  BY HappensKeeps DEF PInv, Happens, MacAcks, fileVars
<1>3. (~expired[i]) \in BOOLEAN
  OBVIOUS
<1>4. PICK inTime \in BOOLEAN : inTime = ~expired[i]
  BY <1>3, Zenon
<1>5. PICK ack : ack = [nonce |-> n, inTime |-> inTime]
  OBVIOUS
<1>6. /\ ack.nonce = n /\ ack.inTime = inTime /\ ack \in [nonce : Nat, inTime : BOOLEAN]
  BY <1>1, <1>5
<1>7. /\ control' = [control EXCEPT ![i] = Append(@, ack)]
      /\ unacked' = [unacked EXCEPT ![i] = @ \ {n}]
  BY <1>4, <1>5, Zenon DEF MacAcks
<1>8. acked'[i] <=> acked[i] \/ (n = probe[i] /\ inTime)
  <2>1. acked' = [acked EXCEPT ![i] = @ \/ (n = probe[i] /\ ~expired[i])]
    BY DEF MacAcks
  <2>. QED
    BY <1>1, <1>4, <2>1
<1>9. \A j \in Broker \ {i} : /\ acked'[j] = acked[j] /\ control'[j] = control[j]
                             /\ unacked'[j] = unacked[j]
  BY <1>1, <1>7 DEF MacAcks
<1>10. control[i] \in Seq([nonce : Nat, inTime : BOOLEAN]) /\ control'[i] = Append(control[i], ack)
  BY <1>1, <1>7
<1>11. /\ DOMAIN control[i] = 1 .. Len(control[i]) /\ Len(control[i]) \in Nat
       /\ DOMAIN control'[i] = 1 .. (Len(control[i]) + 1)
       /\ \A k \in DOMAIN control[i] : control'[i][k] = control[i][k]
       /\ control'[i][Len(control[i]) + 1] = ack
  BY <1>10
<1>12. Proven(i)' <=> Proven(i) \/ (n = probe[i] /\ inTime)
  <2>1. Proves(i, ack)' <=> n = probe[i] /\ inTime
    BY <1>2, <1>6 DEF Proves
  <2>2. \A k \in DOMAIN control[i] : Proves(i, control[i][k])' <=> Proves(i, control[i][k])
    BY <1>2, <1>11 DEF Proves
  <2>. QED
    BY <1>2, <1>6, <1>11 DEF Proven, Proves
<1>13. OneIncumbent' /\ OnceThere'
  BY <1>2 DEF PInv, OneIncumbent, OnceThere, HeldBy, InQueue
<1>14. ASSUME NEW j \in Broker
       PROVE /\ pc'[j] \in Unserved => pending'[j] = NoBroker
             /\ \A m \in unacked'[j] : m <= probe'[j]
             /\ \A k \in DOMAIN control'[j] : control'[j][k].nonce <= probe'[j]
             /\ pc'[j] = "serving" /\ pending'[j] # NoBroker => (acked'[j] <=> Proven(j)')
  <2>1. CASE j # i
    <3>1. Proven(j)' <=> Proven(j)
      BY <1>2, <1>9, <2>1 DEF Proven, Proves
    <3>. QED
      BY <1>2, <1>9, <2>1, <3>1 DEF PInv, ProbeOK
  <2>2. CASE j = i
    <3>1. \A m \in unacked'[i] : m <= probe[i]
      BY <1>1, <1>7 DEF PInv, ProbeOK
    <3>2. \A k \in DOMAIN control[i] : control[i][k].nonce <= probe[i]
      BY DEF PInv, ProbeOK
    <3>3. n <= probe[i]
      BY DEF PInv, ProbeOK
    <3>4. \A k \in DOMAIN control'[i] : control'[i][k].nonce <= probe[i]
      BY <1>6, <1>11, <3>2, <3>3
    <3>. QED
      BY <1>2, <1>8, <1>12, <2>2, <3>1, <3>4 DEF PInv, ProbeOK
  <2>. QED
    BY <2>1, <2>2
<1>. QED
  BY <1>2, <1>13, <1>14 DEF PInv, ProbeOK

\* What every reachable state satisfies of claims and probes.
LEMMA ClaimInvariance == Spec => []PInv
<1>1. PInv /\ [Next]_vars => PInv'
  <2> SUFFICES ASSUME PInv, [Next]_vars PROVE PInv'
    OBVIOUS
  <2>1. ASSUME NEW b \in Broker, Acquires(b) PROVE PInv'
    BY <2>1, TakeLockRests, TryAgainRests, BindRests, OthersRest, ConnectKeeps DEF Acquires
  <2>2. ASSUME NEW b \in Broker, Serves(b) PROVE PInv'
    BY <2>2, TakeClaimKeeps, TurnAwayKeeps, SettlesKeeps DEF Serves
  <2>3. ASSUME NEW b \in Broker,
               \/ Leaves(b) \/ AcquisitionTimesOut(b) \/ BindFails(b) \/ WriterFailed(b)
               \/ Crash(b) \/ \E n \in unacked[b] : MacAcks(b, n)
        PROVE PInv'
    BY <2>3, OthersRest, MacAcksKeeps
  <2>4. ASSUME \/ UNCHANGED vars
               \/ \E b \in Broker : DeadlinePasses(b) \/ MacLost(b)
        PROVE PInv'
    <3>1. UNCHANGED <<pc, ownerFile, claims, reply, probeVars>>
      BY <2>4 DEF DeadlinePasses, MacLost, vars, fileVars, claimVars, probeVars
    <3>2. IInv'
      <4>1. CASE UNCHANGED vars
        BY <4>1
        DEF PInv, vars, fileVars, claimVars, IInv, TypeOK, LockOK, OwnerSockOK, BrokerSockOK,
            FreeOK, Listens
      <4>2. CASE \E b \in Broker : DeadlinePasses(b) \/ MacLost(b)
        BY <4>2, HappensKeeps DEF PInv, Happens
      <4>. QED
        BY <2>4, <4>1, <4>2
    <3>. QED
      BY <3>1, <3>2
      DEF PInv, OneIncumbent, OnceThere, ProbeOK, HeldBy, InQueue, Proven, Proves, probeVars
  <2>. QED
    BY <2>1, <2>2, <2>3, <2>4 DEF Next
<1>. QED
  BY <1>1, InitClaims, PTL DEF Spec

\* A foreign claim is decided by the probe its own claim caused, and by nothing that
\* comes late or is left of an older claim (owner_alive_at_deadline,
\* src/src/ego_bridge.rs:1831-1891).
THEOREM DecidedByOwnProbe == Spec => DecidedByProbe
<1>1. PInv /\ [Next]_vars =>
        [\A i, b \in Broker : pending[i] = b /\ reply[b] = "none" =>
           /\ reply'[b] = "granted" => ~acked[i]
           /\ reply'[b] = "alive" => acked[i]]_vars
  <2> SUFFICES ASSUME PInv, Next, NEW i \in Broker, NEW b \in Broker, pending[i] = b,
                      reply[b] = "none", reply'[b] \in {"granted", "alive"}
               PROVE /\ reply'[b] = "granted" => ~acked[i]
                     /\ reply'[b] = "alive" => acked[i]
    OBVIOUS
  <2>1. PICK j \in Broker :
          \/ TakeClaim(j) \/ TurnAway(j) \/ HandleAck(j) \/ HandleDeadline(j)
          \/ HandleTransport(j)
    <3>1. ASSUME NEW j \in Broker, Acquires(j) PROVE FALSE
      BY <3>1
      DEF PInv, IInv, TypeOK, Acquires, Start, TakeLock, Connect, TryAgain, OwnerConflict,
          BindOwner, BindBroker, Unlock, claimVars
    <3>2. ASSUME NEW j \in Broker, Leaves(j) \/ Happens(j) PROVE FALSE
      BY <3>2
      DEF Leaves, StatBroker, UnlinkBroker, StatOwner, UnlinkOwner, CloseOwner, Happens,
          AcquisitionTimesOut, BindFails, DeadlinePasses, MacAcks, WriterFailed, MacLost, Crash,
          claimVars
    <3>. QED
      BY <3>1, <3>2 DEF Next, Serves, Happens
  <2>2. pc[j] = "serving" /\ pc[j] \in Listening
    BY <2>1
    DEF TakeClaim, TurnAway, HandleAck, HandleDeadline, HandleTransport, Serving, Listening
  <2>3. /\ pc[b] = "asked" /\ HeldBy(j, b)
        /\ TakeClaim(j) => b = Head(claims[j])
        /\ ~TurnAway(j)
        /\ ~TakeClaim(j) /\ ~TurnAway(j) => b = pending[j]
    <3>1. CASE TakeClaim(j) /\ ~TurnAway(j)
      <4>1. \E answer : Tell(Head(claims[j]), answer)
        BY <3>1 DEF TakeClaim, Grant
      <4>2. b = Head(claims[j]) /\ Waiting(b)
        BY <4>1, ToldOne
      <4>3. claims[j] \in Seq(Broker) /\ claims[j] # <<>>
        BY <3>1 DEF PInv, IInv, TypeOK, TakeClaim
      <4>. QED
        BY <3>1, <4>2, <4>3 DEF HeldBy, InQueue, Waiting
    <3>2. CASE ~TakeClaim(j) /\ ~TurnAway(j)
      <4>1. \E answer : Tell(pending[j], answer)
        BY <2>1, <3>2 DEF HandleAck, HandleDeadline, HandleTransport, Grant
      <4>2. b = pending[j] /\ Waiting(b)
        BY <4>1, ToldOne
      <4>. QED
        BY <3>2, <4>2 DEF HeldBy, Waiting
    <3>3. CASE TurnAway(j)
      <4>1. Tell(Last(claims[j]), "retry")
        BY <3>3 DEF TurnAway
      <4>. QED
        BY <4>1, ToldOne
    <3>. QED
      BY <3>1, <3>2, <3>3
  <2>4. i = j
    BY <2>3 DEF PInv, OneIncumbent, HeldBy, Asking
  <2>5. ~TakeClaim(j)
    <3> SUFFICES ASSUME TakeClaim(j) PROVE FALSE
      OBVIOUS
    <3>1. claims[j] \in Seq(Broker) /\ claims[j] # <<>> /\ b = Head(claims[j])
      BY <2>3 DEF PInv, IInv, TypeOK, TakeClaim
    <3>2. InQueue(j, b)
      BY <3>1 DEF InQueue
    <3>. QED
      BY <2>2, <2>3, <2>4, <3>2 DEF PInv, OnceThere, Asking
  <2>6. acked[i] <=> Proven(i)
    BY <2>2, <2>4, ArbitrationAssumption DEF PInv, ProbeOK
  <2>7. \E answer : Tell(b, answer)
    BY <2>1, <2>3, <2>5 DEF HandleAck, HandleDeadline, HandleTransport, Grant
  <2>8. CASE HandleAck(j)
    <3>1. Tell(b, "alive") /\ Proves(j, Head(control[j])) /\ control[j] # <<>>
      BY <2>3, <2>5, <2>8 DEF HandleAck
    <3>2. reply'[b] = "alive"
      BY <3>1, ToldOne
    <3>3. control[j] \in Seq([nonce : Nat, inTime : BOOLEAN])
      BY DEF PInv, IInv, TypeOK
    <3>4. Proven(j)
      BY <3>1, <3>3 DEF Proven
    <3>. QED
      BY <2>4, <2>6, <3>2, <3>4
  <2>9. CASE HandleDeadline(j)
    <3>1. CASE Proven(j)
      <4>1. Tell(b, "alive")
        BY <2>3, <2>5, <2>9, <3>1 DEF HandleDeadline, Proven
      <4>2. reply'[b] = "alive"
        BY <4>1, ToldOne
      <4>. QED
        BY <2>4, <2>6, <3>1, <4>2
    <3>2. CASE ~Proven(j)
      <4>1. Tell(b, "granted")
        BY <2>3, <2>5, <2>9, <3>2 DEF HandleDeadline, Proven, Grant
      <4>2. reply'[b] = "granted"
        BY <4>1, ToldOne
      <4>. QED
        BY <2>4, <2>6, <3>2, <4>2
    <3>. QED
      BY <3>1, <3>2
  <2>10. CASE HandleTransport(j)
    <3>1. Tell(b, "granted") /\ control[j] = <<>>
      BY <2>3, <2>5, <2>10, ArbitrationAssumption DEF HandleTransport
    <3>2. reply'[b] = "granted"
      BY <3>1, ToldOne
    <3>3. ~Proven(j)
      BY <3>1 DEF Proven
    <3>. QED
      BY <2>4, <2>6, <3>2, <3>3
  <2>. QED
    BY <2>1, <2>3, <2>5, <2>8, <2>9, <2>10
<1>. QED
  BY <1>1, ClaimInvariance, PTL DEF Spec, DecidedByProbe
=============================================================================
