------------------------- MODULE InboundQueueProofs -------------------------
(***************************************************************************)
(* Every critical section of the inbound scheduler preserves the types, the  *)
(* exactness of its two lists and the absence of leaked entries, for every    *)
(* set of requests and every limit. They also keep the frames of a request in  *)
(* the order of arrival: what leaves a queue (Thins), what a pop in turn takes  *)
(* (Oldest), what an arrival adds (Arrives). They keep the counters exact and   *)
(* within their limits (Recounts and its cases) and the rules of retention     *)
(* (RetainedWell). InboundSchedulerProofs and ExecutorProofs use these lemmas  *)
(* for the threads that call them.                                           *)
(***************************************************************************)
EXTENDS InboundQueue, TLAPS, SequenceTheorems, FiniteSetTheorems

-----------------------------------------------------------------------------
(* Sequences used as lists of requests.                                    *)

\* Removing an element from a list yields a list.
LEMMA DropSeq ==
  ASSUME NEW S, NEW s \in Seq(S), NEW i \in DOMAIN s
  PROVE  /\ Drop(s, i) \in Seq(S)
         /\ Len(Drop(s, i)) = Len(s) - 1
         /\ \A j \in 1 .. Len(s) - 1 : Drop(s, i)[j] = IF j < i THEN s[j] ELSE s[j + 1]
<1> DEFINE a == SubSeq(s, 1, i - 1)
           b == SubSeq(s, i + 1, Len(s))
<1>1. i \in 1 .. Len(s) /\ Len(s) \in Nat /\ \A j \in 1 .. Len(s) : s[j] \in S
  BY LenProperties, ElementOfSeq
<1>2. a \in Seq(S) /\ Len(a) = i - 1 /\ \A j \in 1 .. i - 1 : a[j] = s[j]
  BY <1>1, SubSeqProperties
<1>3. b \in Seq(S) /\ Len(b) = Len(s) - i /\ \A j \in 1 .. Len(s) - i : b[j] = s[i + j]
  BY <1>1, SubSeqProperties
<1> HIDE DEF a, b
<1>4. /\ a \o b \in Seq(S)
      /\ Len(a \o b) = Len(a) + Len(b)
      /\ \A j \in 1 .. Len(a) + Len(b) :
           (a \o b)[j] = IF j <= Len(a) THEN a[j] ELSE b[j - Len(a)]
  BY <1>2, <1>3, ConcatProperties, Zenon
<1>5. Len(a) + Len(b) = Len(s) - 1
  BY <1>1, <1>2, <1>3
<1>6. ASSUME NEW j \in 1 .. Len(s) - 1
      PROVE  (a \o b)[j] = IF j < i THEN s[j] ELSE s[j + 1]
  <2>1. CASE j < i
    BY <1>1, <1>2, <1>4, <1>5, <2>1
  <2>2. CASE ~ (j < i)
    <3>1. j - (i - 1) \in 1 .. Len(s) - i /\ i + (j - (i - 1)) = j + 1
      BY <1>1, <2>2
    <3>2. (a \o b)[j] = b[j - (i - 1)]
      BY <1>1, <1>2, <1>4, <1>5, <2>2
    <3>3. QED
      BY <1>3, <2>2, <3>1, <3>2
  <2>3. QED
    BY <2>1, <2>2
<1>7. Drop(s, i) = a \o b
  BY DEF Drop, a, b
<1>8. QED
  BY <1>4, <1>5, <1>6, <1>7

\* What a list without an element holds, the list held.
LEMMA AtSubset ==
  ASSUME NEW S, NEW s \in Seq(S)
  PROVE  At(s) \subseteq S /\ (s = <<>> <=> At(s) = {})
<1>1. DOMAIN s = 1 .. Len(s) /\ Len(s) \in Nat /\ \A j \in 1 .. Len(s) : s[j] \in S
  BY LenProperties, ElementOfSeq
<1>2. s # <<>> <=> 1 \in DOMAIN s
  BY <1>1, EmptySeq
<1>3. At(s) \subseteq S
  BY <1>1 DEF At
<1>4. At(s) = {} <=> DOMAIN s = {}
  BY DEF At
<1>5. QED
  BY <1>1, <1>2, <1>3, <1>4, EmptySeq

\* Dropping from a list without duplicates removes that element and no other.
LEMMA DropDistinct ==
  ASSUME NEW S, NEW s \in Seq(S), Distinct(s), NEW i \in DOMAIN s
  PROVE  /\ Drop(s, i) \in Seq(S)
         /\ Distinct(Drop(s, i))
         /\ At(Drop(s, i)) = At(s) \ {s[i]}
<1> DEFINE d == Drop(s, i)
<1>1. /\ d \in Seq(S) /\ Len(d) = Len(s) - 1
      /\ \A j \in 1 .. Len(s) - 1 : d[j] = IF j < i THEN s[j] ELSE s[j + 1]
  BY DropSeq
<1>2. i \in 1 .. Len(s) /\ Len(s) \in Nat /\ DOMAIN s = 1 .. Len(s)
  BY LenProperties
<1>3. DOMAIN d = 1 .. Len(s) - 1
  BY <1>1, LenProperties
<1> HIDE DEF d
<1>4. \A j, k \in 1 .. Len(s) : s[j] = s[k] => j = k
  BY <1>2 DEF Distinct
<1>5. Distinct(d)
  BY <1>1, <1>2, <1>3, <1>4 DEF Distinct
<1>6. At(d) \subseteq At(s) \ {s[i]}
  BY <1>1, <1>2, <1>3, <1>4 DEF At
<1>7. ASSUME NEW k \in 1 .. Len(s), k # i PROVE s[k] \in At(d)
  <2>1. CASE k < i
    BY <1>1, <1>2, <1>3, <2>1 DEF At
  <2>2. CASE k > i
    <3>1. k - 1 \in 1 .. Len(s) - 1 /\ ~ (k - 1 < i) /\ (k - 1) + 1 = k
      BY <1>2, <2>2
    <3>2. d[k - 1] = s[k]
      BY <1>1, <3>1
    <3>3. QED
      BY <1>3, <3>1, <3>2 DEF At
  <2>3. QED
    BY <1>2, <1>7, <2>1, <2>2
<1>8. At(s) \ {s[i]} \subseteq At(d)
  BY <1>2, <1>7 DEF At
<1>9. QED
  BY <1>1, <1>5, <1>6, <1>8 DEF d

\* Removing an ID from a list without duplicates leaves none of it.
LEMMA WithoutDistinct ==
  ASSUME NEW S, NEW s \in Seq(S), Distinct(s), NEW e
  PROVE  /\ Without(s, e) \in Seq(S)
         /\ Distinct(Without(s, e))
         /\ At(Without(s, e)) = At(s) \ {e}
<1>1. CASE \E i \in DOMAIN s : s[i] = e
  <2> DEFINE i == CHOOSE k \in DOMAIN s : s[k] = e
  <2>1. i \in DOMAIN s /\ s[i] = e /\ Without(s, e) = Drop(s, i)
    BY <1>1 DEF Without
  <2>2. QED
    BY <2>1, DropDistinct
<1>2. CASE ~ \E i \in DOMAIN s : s[i] = e
  BY <1>2 DEF Without, At
<1>3. QED
  BY <1>1, <1>2

\* A list without duplicates grows by an ID that is not in it.
LEMMA AppendDistinct ==
  ASSUME NEW S, NEW s \in Seq(S), NEW e \in S
  PROVE  /\ Append(s, e) \in Seq(S)
         /\ Append(s, e) # <<>>
         /\ At(Append(s, e)) = At(s) \cup {e}
         /\ Distinct(s) /\ e \notin At(s) => Distinct(Append(s, e))
<1> DEFINE t == Append(s, e)
<1>1. /\ t \in Seq(S) /\ t # <<>> /\ Len(t) = Len(s) + 1
      /\ \A i \in 1 .. Len(s) : t[i] = s[i]
      /\ t[Len(s) + 1] = e
  BY AppendProperties
<1>2. DOMAIN s = 1 .. Len(s) /\ Len(s) \in Nat /\ DOMAIN t = 1 .. Len(s) + 1
  BY <1>1, LenProperties
<1> HIDE DEF t
<1>3. At(t) = At(s) \cup {e}
  <2>1. At(t) \subseteq At(s) \cup {e}
    BY <1>1, <1>2 DEF At
  <2>2. At(s) \subseteq At(t)
    BY <1>1, <1>2 DEF At
  <2>3. e \in At(t)
    BY <1>1, <1>2 DEF At
  <2>4. QED
    BY <2>1, <2>2, <2>3
<1>4. Distinct(s) /\ e \notin At(s) => Distinct(t)
  BY <1>1, <1>2 DEF At, Distinct
<1>5. QED
  BY <1>1, <1>3, <1>4 DEF t

\* The tail of a non-empty sequence.
LEMMA TailSeq ==
  ASSUME NEW S, NEW s \in Seq(S), s # <<>>
  PROVE  Head(s) \in S /\ Tail(s) \in Seq(S)
  BY HeadTailProperties

-----------------------------------------------------------------------------
(* The invariant, and the part of it that concerns one request.            *)

QInv == QueueTypeOK /\ IndexExact /\ NoLeakedQueue

Listed(id) ==
  /\ id \in At(ready) <=> events[id] # <<>> \/ mode[id] = "announced"
  /\ id \in At(overload) <=> mode[id] = "overloaded"

Kept(id) ==
  /\ mode[id] = "absent" => events[id] = <<>> /\ retained[id] = <<>>
  /\ mode[id] = "normal" => events[id] # <<>> /\ retained[id] = <<>>
  /\ mode[id] = "announced" => events[id] = <<>> /\ retained[id] # <<>>

\* The queue invariant is the invariant of each request and of the lists.
LEMMA QInvSplit ==
  QInv <=> /\ QueueTypeOK
           /\ Distinct(ready) /\ Distinct(overload)
           /\ \A id \in Id : Listed(id) /\ Kept(id)
  BY DEF QInv, IndexExact, NoLeakedQueue, Listed, Kept

\* A critical section that touches the requests of T only has to restore the
\* invariant for them.
LEMMA OnlyTouches ==
  ASSUME QInv, QueueTypeOK', NEW T,
         Distinct(ready)', Distinct(overload)',
         At(ready)' \ T = At(ready) \ T,
         At(overload)' \ T = At(overload) \ T,
         \A x \in Id \ T : /\ mode'[x] = mode[x]
                           /\ events'[x] = events[x]
                           /\ retained'[x] = retained[x],
         \A x \in Id \cap T : Listed(x)' /\ Kept(x)'
  PROVE  QInv'
<1>1. ASSUME NEW x \in Id, x \notin T PROVE Listed(x)' /\ Kept(x)'
  <2>1. Listed(x) /\ Kept(x)
    BY QInvSplit
  <2>2. /\ mode'[x] = mode[x] /\ events'[x] = events[x] /\ retained'[x] = retained[x]
        /\ x \in At(ready)' <=> x \in At(ready)
        /\ x \in At(overload)' <=> x \in At(overload)
    BY <1>1
  <2>3. QED
    BY <2>1, <2>2 DEF Listed, Kept
<1>2. \A x \in Id : Listed(x)' /\ Kept(x)'
  BY <1>1
<1>3. QED
  BY <1>2 DEF QInv, IndexExact, NoLeakedQueue, Listed, Kept

\* A counter of one request changed by a number is still a counter.
LEMMA CounterType ==
  ASSUME NEW S, NEW g \in [S -> Int], NEW i \in S, NEW n \in Int
  PROVE  [g EXCEPT ![i] = @ + n] \in [S -> Int] /\ [g EXCEPT ![i] = @ - n] \in [S -> Int]
<1>1. PICK up : up = g[i] + n
  OBVIOUS
<1>2. PICK down : down = g[i] - n
  OBVIOUS
<1>3. g[i] \in Int
  OBVIOUS
<1>4. up \in Int /\ down \in Int
  BY <1>1, <1>2, <1>3
<1>5. [g EXCEPT ![i] = up] \in [S -> Int] /\ [g EXCEPT ![i] = down] \in [S -> Int]
  BY <1>4
<1>6. QED
  BY <1>1, <1>2, <1>5, Zenon

-----------------------------------------------------------------------------
(* enqueue.                                                                *)

\* enqueue of a frame that is retained.
LEMMA EnqueueRequestKeeps ==
  ASSUME QInv, NEW id \in Id, NEW f \in Frame, EnqueueRequest(id, f)
  PROVE  QInv'
<1>1. QueueTypeOK /\ Distinct(ready) /\ Distinct(overload) /\ Listed(id) /\ Kept(id)
  BY QInvSplit
<1>2. /\ Append(events[id], f) \in Seq(Frame)
      /\ Append(events[id], f) # <<>>
  BY <1>1, AppendDistinct DEF QueueTypeOK
<1>3. /\ Append(ready, id) \in Seq(Id)
      /\ At(Append(ready, id)) = At(ready) \cup {id}
      /\ id \notin At(ready) => Distinct(Append(ready, id))
  BY <1>1, AppendDistinct DEF QueueTypeOK
<1>4. Size(f) \in Int
  BY DEF Size
<1>5. mode[id] \in {"absent", "normal"} /\ retained[id] = <<>> /\ id \notin At(overload)
  BY <1>1 DEF EnqueueRequest, Overflows, QueueTypeOK, Mode, Kept, Listed
<1>6. QueueTypeOK'
  <2>1. /\ mode' \in [Id -> Mode] /\ events' \in [Id -> Seq(Frame)]
    BY <1>1, <1>2 DEF EnqueueRequest, QueueTypeOK, Mode
  <2>2. /\ frames' \in [Id -> Int] /\ bytes' \in [Id -> Int]
    <3>1. frames' = [frames EXCEPT ![id] = @ + 1] /\ bytes' = [bytes EXCEPT ![id] = @ + Size(f)]
      BY DEF EnqueueRequest
    <3>2. frames \in [Id -> Int] /\ bytes \in [Id -> Int] /\ 1 \in Int
      BY <1>1 DEF QueueTypeOK
    <3>3. QED
      BY <1>4, <3>1, <3>2, CounterType, Zenon
  <2>3. /\ totalFrames' \in Int /\ totalBytes' \in Int /\ ready' \in Seq(Id)
    BY <1>1, <1>3, <1>4 DEF EnqueueRequest, QueueTypeOK
  <2>4. /\ control' \in Seq(ControlMsg) /\ retained' \in [Id -> Seq(Frame)]
        /\ overload' \in Seq(Id) /\ terminal' \in BOOLEAN /\ reading' \in BOOLEAN
    BY <1>1 DEF EnqueueRequest, QueueTypeOK
  <2>5. QED
    BY <2>1, <2>2, <2>3, <2>4 DEF QueueTypeOK
<1>7. /\ Distinct(ready)' /\ Distinct(overload)'
      /\ At(ready)' = At(ready) \cup {id} /\ At(overload)' = At(overload)
  BY <1>1, <1>3, <1>5 DEF EnqueueRequest, Listed
<1>8. \A x \in Id \ {id} :
        mode'[x] = mode[x] /\ events'[x] = events[x] /\ retained'[x] = retained[x]
  BY <1>1 DEF EnqueueRequest, QueueTypeOK
<1>9. mode'[id] = "normal" /\ events'[id] # <<>> /\ retained'[id] = <<>>
  BY <1>1, <1>2, <1>5 DEF EnqueueRequest, QueueTypeOK
<1>10. Listed(id)' /\ Kept(id)'
  BY <1>5, <1>7, <1>9 DEF Listed, Kept
<1>11. /\ At(ready)' \ {id} = At(ready) \ {id}
       /\ At(overload)' \ {id} = At(overload) \ {id}
  BY <1>7
<1>12. QED
  BY <1>6, <1>7, <1>8, <1>10, <1>11, OnlyTouches

\* enqueue of a frame past the retained limit: the request is overloaded.
LEMMA EnqueueOverflowKeeps ==
  ASSUME QInv, NEW id \in Id, NEW f \in Frame, NEW budgetFull \in BOOLEAN,
         EnqueueOverflow(id, f, budgetFull)
  PROVE  QInv'
<1> DEFINE keep == Retains(id, f)
           new == mode[id] \in {"absent", "normal"}
<1>1. QueueTypeOK /\ Distinct(ready) /\ Distinct(overload) /\ Listed(id) /\ Kept(id)
  BY QInvSplit
<1>2. /\ mode' = [mode EXCEPT ![id] = IF new THEN "overloaded" ELSE @]
      /\ retained' = [retained EXCEPT ![id] = IF keep THEN Append(@, f) ELSE @]
      /\ overload' = IF new THEN Append(overload, id) ELSE overload
      /\ ready' = IF keep /\ mode[id] = "announced" /\ retained[id] = <<>>
                  THEN Append(ready, id) ELSE ready
      /\ UNCHANGED <<control, events, frames, bytes, totalFrames, totalBytes,
                     terminal, reading>>
  BY DEF EnqueueOverflow
<1> HIDE DEF keep
<1>3. ready' = ready
  BY <1>1, <1>2 DEF Kept
<1>4. /\ Append(retained[id], f) \in Seq(Frame)
      /\ Append(retained[id], f) # <<>>
  BY <1>1, AppendDistinct DEF QueueTypeOK
<1>5. /\ Append(overload, id) \in Seq(Id)
      /\ At(Append(overload, id)) = At(overload) \cup {id}
      /\ id \notin At(overload) => Distinct(Append(overload, id))
  BY <1>1, AppendDistinct DEF QueueTypeOK
<1>6. mode'[id] = (IF new THEN "overloaded" ELSE mode[id]) /\ mode[id] \in Mode
  BY <1>1, <1>2 DEF QueueTypeOK
<1>7. retained'[id] = retained[id] \/ retained'[id] # <<>>
  BY <1>1, <1>2, <1>4 DEF QueueTypeOK
<1>8. QueueTypeOK'
  <2>1. mode' \in [Id -> Mode]
    BY <1>1, <1>2 DEF QueueTypeOK, Mode
  <2>2. retained' \in [Id -> Seq(Frame)]
    BY <1>1, <1>2, <1>4 DEF QueueTypeOK
  <2>3. QED
    BY <1>1, <1>2, <1>3, <1>5, <2>1, <2>2 DEF QueueTypeOK
<1>9. new => id \notin At(overload)
  BY <1>1 DEF Listed
<1>10. /\ Distinct(ready)' /\ Distinct(overload)' /\ At(ready)' = At(ready)
       /\ At(overload)' = IF new THEN At(overload) \cup {id} ELSE At(overload)
  BY <1>1, <1>2, <1>3, <1>5, <1>9
<1>11. \A x \in Id \ {id} :
         mode'[x] = mode[x] /\ events'[x] = events[x] /\ retained'[x] = retained[x]
  BY <1>1, <1>2 DEF QueueTypeOK
<1>12. Listed(id)' /\ Kept(id)'
  BY <1>1, <1>2, <1>3, <1>6, <1>7, <1>10 DEF Listed, Kept, Mode
<1>13. /\ At(ready)' \ {id} = At(ready) \ {id}
       /\ At(overload)' \ {id} = At(overload) \ {id}
  BY <1>10
<1>14. QED
  BY <1>8, <1>10, <1>11, <1>12, <1>13, OnlyTouches

-----------------------------------------------------------------------------
(* pop_inbound_matching.                                                   *)

\* pop_inbound_matching takes a Cancel, whatever is queued before it.
LEMMA PopCancelKeeps ==
  ASSUME QInv, NEW id \in Id, NEW f, PopCancel(id, f)
  PROVE  QInv'
<1>1. QueueTypeOK /\ Distinct(ready) /\ Distinct(overload) /\ Listed(id) /\ Kept(id)
  BY QInvSplit
<1>2. events[id] \in Seq(Frame) /\ retained[id] \in Seq(Frame) /\ mode[id] \in Mode
  BY <1>1 DEF QueueTypeOK
<1>3. /\ \A i \in DOMAIN events[id] : Drop(events[id], i) \in Seq(Frame)
      /\ \A i \in DOMAIN retained[id] : Drop(retained[id], i) \in Seq(Frame)
  BY <1>2, DropSeq
<1>4. /\ Without(ready, id) \in Seq(Id) /\ Distinct(Without(ready, id))
      /\ At(Without(ready, id)) = At(ready) \ {id}
      /\ Without(overload, id) \in Seq(Id) /\ Distinct(Without(overload, id))
      /\ At(Without(overload, id)) = At(overload) \ {id}
  BY <1>1, WithoutDistinct DEF QueueTypeOK
<1>5. CancelQueued(id) /\ mode[id] # "overloaded"
  BY DEF PopCancel
<1>6. events[id] # <<>> \/ retained[id] # <<>>
  BY <1>2, <1>5, EmptySeq, LenProperties DEF CancelQueued, HasKind
<1>7. mode[id] \in {"normal", "announced"}
  BY <1>1, <1>2, <1>5, <1>6 DEF Kept, Mode
<1>8. \/ /\ \E i \in DOMAIN events[id] : events' = [events EXCEPT ![id] = Drop(@, i)]
         /\ frames' = [frames EXCEPT ![id] = @ - 1]
         /\ totalFrames' = totalFrames - 1
         /\ retained' = retained
         /\ events[id] # <<>>
      \/ /\ \E i \in DOMAIN retained[id] : retained' = [retained EXCEPT ![id] = Drop(@, i)]
         /\ events' = events /\ frames' = frames /\ totalFrames' = totalFrames
         /\ retained[id] # <<>>
  BY <1>2, EmptySeq, LenProperties DEF PopCancel, IsFirst
<1>9. /\ events' \in [Id -> Seq(Frame)] /\ retained' \in [Id -> Seq(Frame)]
      /\ frames' \in [Id -> Int] /\ totalFrames' \in Int
      /\ \A x \in Id \ {id} : events'[x] = events[x] /\ retained'[x] = retained[x]
  <2>1. ASSUME NEW i \in DOMAIN events[id], events' = [events EXCEPT ![id] = Drop(@, i)]
        PROVE  /\ events' \in [Id -> Seq(Frame)]
               /\ \A x \in Id \ {id} : events'[x] = events[x]
    BY <1>1, <1>3, <2>1 DEF QueueTypeOK
  <2>2. ASSUME NEW i \in DOMAIN retained[id], retained' = [retained EXCEPT ![id] = Drop(@, i)]
        PROVE  /\ retained' \in [Id -> Seq(Frame)]
               /\ \A x \in Id \ {id} : retained'[x] = retained[x]
    BY <1>1, <1>3, <2>2 DEF QueueTypeOK
  <2>3. frames' \in [Id -> Int] /\ totalFrames' \in Int
    BY <1>1, <1>8 DEF QueueTypeOK
  <2>4. QED
    BY <1>1, <1>8, <2>1, <2>2, <2>3 DEF QueueTypeOK
<1>10. /\ mode[id] = "normal" => retained'[id] = <<>>
       /\ mode[id] = "announced" => events'[id] = <<>>
  BY <1>1, <1>7, <1>8 DEF Kept, QueueTypeOK
<1>11. UNCHANGED <<control, bytes, totalBytes, terminal, reading>>
  BY DEF PopCancel
<1>12. CASE events'[id] = <<>> /\ retained'[id] = <<>>
  <2>1. /\ mode' = [mode EXCEPT ![id] = "absent"]
        /\ ready' = Without(ready, id) /\ overload' = Without(overload, id)
    BY <1>12 DEF PopCancel
  <2>2. mode' \in [Id -> Mode] /\ mode'[id] = "absent"
        /\ \A x \in Id \ {id} : mode'[x] = mode[x]
    BY <1>1, <2>1 DEF QueueTypeOK, Mode
  <2>3. QueueTypeOK'
    BY <1>1, <1>4, <1>9, <1>11, <2>1, <2>2 DEF QueueTypeOK
  <2>4. Listed(id)' /\ Kept(id)'
    BY <1>4, <1>12, <2>1, <2>2 DEF Listed, Kept
  <2>5. /\ Distinct(ready)' /\ Distinct(overload)'
        /\ At(ready)' \ {id} = At(ready) \ {id}
        /\ At(overload)' \ {id} = At(overload) \ {id}
    BY <1>4, <2>1
  <2>6. QED
    BY <1>9, <2>2, <2>3, <2>4, <2>5, OnlyTouches
<1>13. CASE ~ (events'[id] = <<>> /\ retained'[id] = <<>>)
  <2>1. mode' = mode /\ ready' = ready /\ overload' = overload
    BY <1>13 DEF PopCancel
  <2>2. QueueTypeOK'
    BY <1>1, <1>9, <1>11, <2>1 DEF QueueTypeOK
  <2>3. Listed(id)' /\ Kept(id)'
    BY <1>1, <1>7, <1>10, <1>13, <2>1 DEF Listed, Kept
  <2>4. Distinct(ready)' /\ Distinct(overload)'
        /\ At(ready)' \ {id} = At(ready) \ {id}
        /\ At(overload)' \ {id} = At(overload) \ {id}
    BY <1>1, <2>1
  <2>5. QED
    BY <1>9, <2>1, <2>2, <2>3, <2>4, OnlyTouches
<1>14. QED
  BY <1>12, <1>13

\* Announcing an overload after the accepted frames of the overloaded requests T
\* were dropped: T is empty, or the request whose Cancel was just popped.
LEMMA AnnounceKeeps ==
  ASSUME QInv, NEW T \in SUBSET Id, \A x \in T : mode[x] = "overloaded",
         events' \in [Id -> Seq(Frame)],
         \A x \in T : events'[x] = <<>>,
         \A x \in Id \ T : events'[x] = events[x],
         frames' \in [Id -> Int], bytes' \in [Id -> Int],
         totalFrames' \in Int, totalBytes' \in Int,
         UNCHANGED <<control, retained, terminal, reading>>,
         NEW rd \in Seq(Id), Distinct(rd), At(rd) = At(ready) \ T,
         NEW id, Announce(id, events', rd)
  PROVE  QInv'
<1>1. /\ QueueTypeOK /\ Distinct(ready) /\ Distinct(overload)
      /\ \A x \in Id : Listed(x) /\ Kept(x)
  BY QInvSplit
<1>2. PICK k \in DOMAIN overload : /\ events'[overload[k]] = <<>>
                                   /\ id = overload[k]
                                   /\ overload' = Drop(overload, k)
  BY DEF Announce, IsFirst
<1>3. id \in Id /\ id \in At(overload)
  BY <1>1, <1>2, AtSubset DEF At, QueueTypeOK
<1>4. mode[id] = "overloaded" /\ events'[id] = <<>> /\ id \notin At(rd)
  BY <1>1, <1>2, <1>3 DEF Listed
<1>5. overload' \in Seq(Id) /\ Distinct(overload)' /\ At(overload)' = At(overload) \ {id}
  <2>1. overload \in Seq(Id)
    BY <1>1 DEF QueueTypeOK
  <2>2. /\ Drop(overload, k) \in Seq(Id) /\ Distinct(Drop(overload, k))
        /\ At(Drop(overload, k)) = At(overload) \ {overload[k]}
    BY <1>1, <2>1, DropDistinct
  <2>3. QED
    BY <1>2, <2>2
<1>6. /\ Append(rd, id) \in Seq(Id) /\ Distinct(Append(rd, id))
      /\ At(Append(rd, id)) = At(rd) \cup {id}
  BY <1>3, <1>4, AppendDistinct
<1>7. \A x \in T \ {id} : Listed(x)' /\ Kept(x)'
  <2> SUFFICES ASSUME NEW x \in T, x # id PROVE Listed(x)' /\ Kept(x)'
    OBVIOUS
  <2>1. mode'[x] = "overloaded" /\ x \in Id
    BY <1>1 DEF Announce, QueueTypeOK
  <2>2. x \in At(overload)' /\ x \notin At(ready)'
    BY <1>1, <1>5, <1>6, <2>1 DEF Announce, Listed
  <2>3. QED
    BY <2>1, <2>2 DEF Listed, Kept
<1>8. \A x \in Id \ (T \cup {id}) :
        mode'[x] = mode[x] /\ events'[x] = events[x] /\ retained'[x] = retained[x]
  BY <1>1 DEF Announce, QueueTypeOK
<1>9. At(overload)' \ (T \cup {id}) = At(overload) \ (T \cup {id})
  BY <1>5
<1>10. CASE retained[id] = <<>>
  <2>1. mode' = [mode EXCEPT ![id] = "absent"] /\ ready' = rd
    BY <1>10 DEF Announce
  <2>2. mode' \in [Id -> Mode] /\ mode'[id] = "absent"
    BY <1>1, <1>3, <2>1 DEF QueueTypeOK, Mode
  <2>3. QueueTypeOK'
    BY <1>1, <1>5, <2>1, <2>2 DEF QueueTypeOK
  <2>4. Listed(id)' /\ Kept(id)'
    BY <1>4, <1>5, <1>10, <2>1, <2>2 DEF Listed, Kept
  <2>5. Distinct(ready)' /\ At(ready)' \ (T \cup {id}) = At(ready) \ (T \cup {id})
    BY <2>1
  <2>6. \A x \in Id \cap (T \cup {id}) : Listed(x)' /\ Kept(x)'
    BY <1>7, <2>4
  <2>7. QED
    BY <1>5, <1>8, <1>9, <2>3, <2>5, <2>6, OnlyTouches
<1>11. CASE retained[id] # <<>>
  <2>1. mode' = [mode EXCEPT ![id] = "announced"] /\ ready' = Append(rd, id)
    BY <1>11 DEF Announce
  <2>2. mode' \in [Id -> Mode] /\ mode'[id] = "announced"
    BY <1>1, <1>3, <2>1 DEF QueueTypeOK, Mode
  <2>3. QueueTypeOK'
    BY <1>1, <1>5, <1>6, <2>1, <2>2 DEF QueueTypeOK
  <2>4. Listed(id)' /\ Kept(id)'
    BY <1>4, <1>5, <1>6, <1>11, <2>1, <2>2 DEF Listed, Kept
  <2>5. Distinct(ready)' /\ At(ready)' \ (T \cup {id}) = At(ready) \ (T \cup {id})
    BY <1>6, <2>1
  <2>6. \A x \in Id \cap (T \cup {id}) : Listed(x)' /\ Kept(x)'
    BY <1>7, <2>4
  <2>7. QED
    BY <1>5, <1>8, <1>9, <2>3, <2>5, <2>6, OnlyTouches
<1>12. QED
  BY <1>10, <1>11

\* pop_inbound_matching takes the announcement of an overload.
LEMMA PopOverloadKeeps ==
  ASSUME QInv, NEW id, PopOverload(id)
  PROVE  QInv'
<1>1. QueueTypeOK /\ Distinct(ready)
  BY QInvSplit
<1>2. /\ Announce(id, events', ready)
      /\ UNCHANGED <<control, events, retained, frames, bytes, totalFrames,
                     totalBytes, terminal, reading>>
  BY DEF PopOverload
<1>3. At(ready) = At(ready) \ {} /\ ready \in Seq(Id)
  BY <1>1 DEF QueueTypeOK
<1>4. /\ events' \in [Id -> Seq(Frame)] /\ frames' \in [Id -> Int]
      /\ bytes' \in [Id -> Int] /\ totalFrames' \in Int /\ totalBytes' \in Int
      /\ \A x \in Id \ {} : events'[x] = events[x]
  BY <1>1, <1>2 DEF QueueTypeOK
<1>5. {} \in SUBSET Id
  OBVIOUS
<1>6. QED
  BY <1>1, <1>2, <1>3, <1>4, <1>5, AnnounceKeeps

\* Numbers of payload frames are numbers.
LEMMA PayloadCount ==
  ASSUME NEW n \in Nat, NEW S \in SUBSET (1 .. n)
  PROVE  Cardinality(S) \in Nat
<1>1. IsFiniteSet(1 .. n)
  BY FS_Interval
<1>2. IsFiniteSet(S)
  BY <1>1, FS_Subset
<1>3. QED
  BY <1>2, FS_CardinalityType

\* A Cancel and the announcement of another overload in one turn.
LEMMA PopCancelOverloadedKeeps ==
  ASSUME QInv, NEW c \in Id, NEW id, PopCancelOverloaded(c, id)
  PROVE  QInv'
<1> DEFINE payload == {i \in DOMAIN events[c] : Size(events[c][i]) = 1}
<1>1. QueueTypeOK /\ Distinct(ready)
  BY QInvSplit
<1>2. /\ mode[c] = "overloaded"
      /\ events' = [events EXCEPT ![c] = <<>>]
      /\ frames' = [frames EXCEPT ![c] = @ - Len(events[c])]
      /\ bytes' = [bytes EXCEPT ![c] = @ - Cardinality(payload)]
      /\ totalFrames' = totalFrames - Len(events[c])
      /\ totalBytes' = totalBytes - Cardinality(payload)
      /\ Announce(id, events', Without(ready, c))
      /\ UNCHANGED <<control, retained, terminal, reading>>
  BY DEF PopCancelOverloaded, PayloadOf
<1>3. events[c] \in Seq(Frame) /\ Len(events[c]) \in Nat
      /\ DOMAIN events[c] = 1 .. Len(events[c])
  BY <1>1, LenProperties DEF QueueTypeOK
<1>4. Cardinality(payload) \in Nat
  BY <1>3, PayloadCount
<1> HIDE DEF payload
<1>5. /\ events' \in [Id -> Seq(Frame)]
      /\ \A x \in {c} : events'[x] = <<>>
      /\ \A x \in Id \ {c} : events'[x] = events[x]
  BY <1>1, <1>2, EmptySeq DEF QueueTypeOK
<1>6. /\ frames' \in [Id -> Int] /\ bytes' \in [Id -> Int]
      /\ totalFrames' \in Int /\ totalBytes' \in Int
  BY <1>1, <1>2, <1>3, <1>4 DEF QueueTypeOK
<1>7. /\ Without(ready, c) \in Seq(Id) /\ Distinct(Without(ready, c))
      /\ At(Without(ready, c)) = At(ready) \ {c}
  BY <1>1, WithoutDistinct DEF QueueTypeOK
<1>8. {c} \in SUBSET Id /\ \A x \in {c} : mode[x] = "overloaded"
  BY <1>2
<1>9. QED
  BY <1>2, <1>5, <1>6, <1>7, <1>8, AnnounceKeeps

\* pop_inbound_matching takes the oldest frame of a ready request.
LEMMA PopReadyKeeps ==
  ASSUME QInv, NEW id, NEW f, NEW gate, PopReady(id, f, gate)
  PROVE  QInv'
<1>1. /\ QueueTypeOK /\ Distinct(ready) /\ Distinct(overload)
      /\ \A x \in Id : Listed(x) /\ Kept(x)
  BY QInvSplit
<1> DEFINE late == events[id] = <<>>
           from == IF late THEN retained[id] ELSE events[id]
           left == events'[id] # <<>> \/ retained'[id] # <<>>
<1>2. PICK k \in DOMAIN ready :
        /\ id = ready[k]
        /\ from # <<>>
        /\ f = Head(from)
        /\ IF late
           THEN /\ retained' = [retained EXCEPT ![id] = Tail(@)]
                /\ UNCHANGED <<events, frames, bytes, totalFrames, totalBytes>>
           ELSE /\ events' = [events EXCEPT ![id] = Tail(@)]
                /\ frames' = [frames EXCEPT ![id] = @ - 1]
                /\ bytes' = [bytes EXCEPT ![id] = @ - Size(f)]
                /\ totalFrames' = totalFrames - 1
                /\ totalBytes' = totalBytes - Size(f)
                /\ UNCHANGED retained
        /\ mode' = [mode EXCEPT ![id] =
             IF ~left /\ (@ = "normal" \/ (@ = "announced" /\ late))
             THEN "absent" ELSE @]
        /\ ready' = IF left /\ (events'[id] # <<>> \/ mode[id] = "announced")
                    THEN Append(Drop(ready, k), id) ELSE Drop(ready, k)
  BY DEF PopReady, FromRetained
<1>3. ready \in Seq(Id) /\ id \in Id /\ id \in At(ready)
  BY <1>1, <1>2, AtSubset DEF At, QueueTypeOK
<1>4. /\ events[id] \in Seq(Frame) /\ retained[id] \in Seq(Frame) /\ mode[id] \in Mode
      /\ Listed(id) /\ Kept(id)
  BY <1>1, <1>3 DEF QueueTypeOK
<1>5. from \in Seq(Frame) /\ Tail(from) \in Seq(Frame)
  BY <1>2, <1>4, TailSeq
<1>6. Size(f) \in Int
  BY DEF Size
<1>7. /\ Drop(ready, k) \in Seq(Id) /\ Distinct(Drop(ready, k))
      /\ At(Drop(ready, k)) = At(ready) \ {id}
  <2>1. /\ Drop(ready, k) \in Seq(Id) /\ Distinct(Drop(ready, k))
        /\ At(Drop(ready, k)) = At(ready) \ {ready[k]}
    BY <1>1, <1>3, DropDistinct
  <2>2. QED
    BY <1>2, <2>1
<1>8. /\ Append(Drop(ready, k), id) \in Seq(Id)
      /\ Distinct(Append(Drop(ready, k), id))
      /\ At(Append(Drop(ready, k), id)) = (At(ready) \ {id}) \cup {id}
  BY <1>3, <1>7, AppendDistinct
<1>9. /\ events'[id] = IF late THEN <<>> ELSE Tail(from)
      /\ retained'[id] = IF late THEN Tail(from) ELSE retained[id]
      /\ events' \in [Id -> Seq(Frame)] /\ retained' \in [Id -> Seq(Frame)]
      /\ \A x \in Id \ {id} : events'[x] = events[x] /\ retained'[x] = retained[x]
  <2>1. CASE late
    BY <1>1, <1>2, <1>3, <1>5, <2>1 DEF QueueTypeOK
  <2>2. CASE ~late
    BY <1>1, <1>2, <1>3, <1>5, <2>2 DEF QueueTypeOK
  <2>3. QED
    BY <2>1, <2>2
<1>10. /\ frames' \in [Id -> Int] /\ bytes' \in [Id -> Int]
       /\ totalFrames' \in Int /\ totalBytes' \in Int
  <2>1. CASE late
    BY <1>1, <1>2, <2>1 DEF QueueTypeOK
  <2>2. CASE ~late
    <3>1. /\ frames' = [frames EXCEPT ![id] = @ - 1]
          /\ bytes' = [bytes EXCEPT ![id] = @ - Size(f)]
          /\ totalFrames' = totalFrames - 1
          /\ totalBytes' = totalBytes - Size(f)
      BY <1>2, <2>2
    <3>2. /\ frames \in [Id -> Int] /\ bytes \in [Id -> Int]
          /\ totalFrames \in Int /\ totalBytes \in Int
      BY <1>1 DEF QueueTypeOK
    <3>3. PICK size \in Int : size = Size(f)
      BY <1>6
    <3>4. frames' \in [Id -> Int] /\ bytes' \in [Id -> Int]
      <4>1. id \in Id /\ 1 \in Int
        BY <1>3
      <4>2. QED
        BY <3>1, <3>2, <3>3, <4>1, CounterType, Zenon
    <3>5. totalFrames' \in Int /\ totalBytes' \in Int
      BY <3>1, <3>2, <3>3
    <3>6. QED
      BY <3>4, <3>5
  <2>3. QED
    BY <2>1, <2>2
<1>11. /\ mode'[id] = IF ~left /\ (mode[id] = "normal" \/ (mode[id] = "announced" /\ late))
                      THEN "absent" ELSE mode[id]
       /\ \A x \in Id \ {id} : mode'[x] = mode[x]
       /\ mode' \in [Id -> Mode]
  BY <1>1, <1>2, <1>3 DEF QueueTypeOK, Mode
<1>12. UNCHANGED <<control, overload, terminal, reading>>
  BY DEF PopReady
<1>13. mode[id] = "announced" <=> late
  BY <1>3, <1>4 DEF Listed, Kept, Mode
<1>14. mode[id] # "absent" /\ (mode[id] = "normal" => retained[id] = <<>>)
  BY <1>2, <1>4 DEF Kept
<1>15. /\ ready' \in Seq(Id) /\ Distinct(ready)' /\ At(ready)' \ {id} = At(ready) \ {id}
       /\ id \in At(ready)' <=> left /\ (events'[id] # <<>> \/ mode[id] = "announced")
  BY <1>2, <1>7, <1>8
<1>16. QueueTypeOK'
  BY <1>1, <1>9, <1>10, <1>11, <1>12, <1>15 DEF QueueTypeOK
<1>17. Listed(id)'
  <2>1. id \in At(ready)' <=> events'[id] # <<>> \/ mode'[id] = "announced"
    BY <1>9, <1>11, <1>13, <1>14, <1>15
  <2>2. id \in At(overload)' <=> mode'[id] = "overloaded"
    BY <1>4, <1>11, <1>12 DEF Listed
  <2>3. QED
    BY <2>1, <2>2 DEF Listed
<1>18. Kept(id)'
  BY <1>4, <1>9, <1>11, <1>13, <1>14 DEF Kept, Mode
<1>19. Distinct(overload)' /\ At(overload)' \ {id} = At(overload) \ {id}
  BY <1>1, <1>12
<1>20. \A x \in Id \ {id} :
         mode'[x] = mode[x] /\ events'[x] = events[x] /\ retained'[x] = retained[x]
  BY <1>9, <1>11
<1>21. QED
  BY <1>15, <1>16, <1>17, <1>18, <1>19, <1>20, OnlyTouches

\* A step that leaves every queue and both lists alone.
LEMMA QueuesAlone ==
  ASSUME QInv, control' \in Seq(ControlMsg), terminal' \in BOOLEAN, reading' \in BOOLEAN,
         UNCHANGED <<requestVars, ready, overload>>
  PROVE  QInv'
  BY DEF QInv, QueueTypeOK, IndexExact, NoLeakedQueue, Distinct, At, requestVars

\* A step that changes no queue keeps the invariant.
LEMMA QueuesUnchanged ==
  ASSUME QInv, UNCHANGED queueVars
  PROVE  QInv'
<1>1. control' \in Seq(ControlMsg) /\ terminal' \in BOOLEAN /\ reading' \in BOOLEAN
  BY DEF QInv, QueueTypeOK, queueVars
<1>2. UNCHANGED <<requestVars, ready, overload>>
  BY DEF queueVars
<1>3. QED
  BY <1>1, <1>2, QueuesAlone

\* Control frames and the loss of the transport touch no request queue.
LEMMA ControlAndTransportKeep ==
  ASSUME QInv,
         \/ EnqueueFailure
         \/ \E c \in ControlMsg : EnqueueControl(c)
         \/ ControlOverflow
         \/ \E id \in Id : TooManyRequests(id)
         \/ \E c \in ControlMsg : PopControl(c)
         \/ PopTransport
  PROVE  QInv'
<1>1. control \in Seq(ControlMsg) /\ terminal \in BOOLEAN /\ reading \in BOOLEAN
  BY DEF QInv, QueueTypeOK
<1>2. ASSUME SetTerminal PROVE QInv'
  BY <1>1, <1>2, QueuesAlone DEF SetTerminal
<1>3. ASSUME NEW c \in ControlMsg, EnqueueControl(c) PROVE QInv'
  <2>1. control' \in Seq(ControlMsg)
    BY <1>1, <1>3, AppendProperties DEF EnqueueControl
  <2>2. QED
    BY <1>1, <1>3, <2>1, QueuesAlone DEF EnqueueControl
<1>4. ASSUME NEW c \in ControlMsg, PopControl(c) PROVE QInv'
  <2>1. control' \in Seq(ControlMsg)
    BY <1>1, <1>4, TailSeq DEF PopControl
  <2>2. QED
    BY <1>1, <1>4, <2>1, QueuesAlone DEF PopControl
<1>5. ASSUME PopTransport PROVE QInv'
  BY <1>1, <1>5, QueuesAlone DEF PopTransport
<1>6. QED
  BY <1>2, <1>3, <1>4, <1>5 DEF EnqueueFailure, ControlOverflow, TooManyRequests

-----------------------------------------------------------------------------
(* discard_request_input.                                                  *)

\* The positions of P, counted from the lowest: every one of them has its place,
\* and they come in order.
LEMMA NthPlace ==
  ASSUME NEW P \in SUBSET Int, IsFiniteSet(P)
  PROVE  /\ Cardinality(P) \in Nat
         /\ \A k \in 1 .. Cardinality(P) : Nth(P, k) \in P
         /\ \A j, k \in 1 .. Cardinality(P) : j < k => Nth(P, j) < Nth(P, k)
         /\ \A i \in P : \E k \in 1 .. Cardinality(P) : Nth(P, k) = i
<1> DEFINE upTo(i) == {j \in P : j <= i}
           rank == [i \in P |-> Cardinality(upTo(i))]
<1>1. PICK n \in Nat : n = Cardinality(P)
  BY FS_CardinalityType
<1>2. ASSUME NEW i \in P PROVE IsFiniteSet(upTo(i)) /\ Cardinality(upTo(i)) \in 1 .. n
  <2>1. upTo(i) \in SUBSET P /\ i \in upTo(i)
    OBVIOUS
  <2>2. IsFiniteSet(upTo(i)) /\ Cardinality(upTo(i)) <= n /\ Cardinality(upTo(i)) \in Nat
    BY <1>1, <2>1, FS_Subset, FS_CardinalityType
  <2>3. Cardinality(upTo(i)) # 0
    BY <2>1, <2>2, FS_EmptySet
  <2>4. QED
    BY <1>1, <2>2, <2>3
<1>3. ASSUME NEW i \in P, NEW j \in P, i < j PROVE Cardinality(upTo(i)) < Cardinality(upTo(j))
  <2>1. upTo(i) \in SUBSET upTo(j) /\ upTo(i) # upTo(j)
    <3>1. j \in upTo(j) /\ j \notin upTo(i)
      BY <1>3
    <3>2. \A x \in P : x <= i => x <= j
      BY <1>3
    <3>3. upTo(i) \subseteq upTo(j)
      BY <3>2
    <3>4. QED
      BY <3>1, <3>3
  <2>2. IsFiniteSet(upTo(j)) /\ Cardinality(upTo(i)) \in 1 .. n /\ Cardinality(upTo(j)) \in 1 .. n
    BY <1>2
  <2>3. Cardinality(upTo(i)) <= Cardinality(upTo(j)) /\ Cardinality(upTo(i)) # Cardinality(upTo(j))
    BY <2>1, <2>2, FS_Subset
  <2>4. QED
    BY <1>1, <2>2, <2>3
<1>4. \A i, j \in P : Cardinality(upTo(i)) = Cardinality(upTo(j)) => i = j
  <2> SUFFICES ASSUME NEW i \in P, NEW j \in P, i # j
               PROVE  Cardinality(upTo(i)) # Cardinality(upTo(j))
    BY Zenon
  <2>1. Cardinality(upTo(i)) \in 1 .. n /\ Cardinality(upTo(j)) \in 1 .. n
    BY <1>2
  <2>2. CASE i < j
    BY <1>1, <1>3, <2>1, <2>2
  <2>3. CASE j < i
    BY <1>1, <1>3, <2>1, <2>3
  <2>4. QED
    BY <2>2, <2>3
<1>5. rank \in Injection(P, 1 .. n)
  <2>1. rank \in [P -> 1 .. n]
    BY <1>2
  <2>2. \A i, j \in P : rank[i] = rank[j] => i = j
    BY <1>4
  <2> HIDE DEF rank
  <2>3. QED
    BY <2>1, <2>2 DEF Injection, IsInjective
<1>6. rank \in Surjection(P, 1 .. n)
  <2>1. IsFiniteSet(1 .. n) /\ Cardinality(1 .. n) = n
    BY <1>1, FS_Interval
  <2> HIDE DEF rank
  <2>2. QED
    BY <1>1, <1>5, <2>1, FS_Injection
<1>7. \A k \in 1 .. n : \E i \in P : rank[i] = k
  <2> HIDE DEF rank
  <2>1. QED
    BY <1>6 DEF Surjection
<1>8. \A k \in 1 .. n : Nth(P, k) \in P /\ Cardinality(upTo(Nth(P, k))) = k
  BY <1>7 DEF Nth
<1>9. ASSUME NEW i \in P PROVE \E k \in 1 .. n : Nth(P, k) = i
  <2>1. PICK k \in 1 .. n : k = Cardinality(upTo(i))
    BY <1>2
  <2>2. Nth(P, k) \in P /\ Cardinality(upTo(Nth(P, k))) = k
    BY <1>8
  <2>3. QED
    BY <1>4, <2>1, <2>2
<1>10. ASSUME NEW j \in 1 .. n, NEW k \in 1 .. n, j < k PROVE Nth(P, j) < Nth(P, k)
  <2>1. PICK a \in P, b \in P : a = Nth(P, j) /\ b = Nth(P, k)
    BY <1>8
  <2>2. Cardinality(upTo(a)) = j /\ Cardinality(upTo(b)) = k
    BY <1>8, <2>1
  <2>3. a # b
    BY <1>10, <2>2
  <2>4. ~ (b < a)
    BY <1>1, <1>3, <1>10, <2>2
  <2>5. QED
    BY <2>1, <2>3, <2>4
<1>11. QED
  BY <1>1, <1>8, <1>9, <1>10

\* t is what is left of s: its elements at the places m says, in their order.
LeftOf(t, s, m) ==
  /\ m \in [1 .. Len(t) -> 1 .. Len(s)]
  /\ \A j, k \in 1 .. Len(t) : j < k => m[j] < m[k]
  /\ \A k \in 1 .. Len(t) : t[k] = s[m[k]]

\* t is s without the places G.
GoneFrom(t, s, G) ==
  \E m : /\ LeftOf(t, s, m)
         /\ \A k \in DOMAIN t : m[k] \notin G
         /\ \A i \in DOMAIN s \ G : \E k \in DOMAIN t : m[k] = i

\* retain leaves the elements of a sequence at the places it keeps.
LEMMA PickedLeft ==
  ASSUME NEW S, NEW s \in Seq(S), NEW P \in SUBSET DOMAIN s,
         NEW m, m = [k \in 1 .. Cardinality(P) |-> Nth(P, k)]
  PROVE  /\ Picked(s, P) \in Seq(S)
         /\ Len(Picked(s, P)) = Cardinality(P)
         /\ LeftOf(Picked(s, P), s, m)
         /\ \A k \in 1 .. Cardinality(P) : m[k] \in P
         /\ \A i \in P : \E k \in 1 .. Cardinality(P) : m[k] = i
<1>1. DOMAIN s = 1 .. Len(s) /\ Len(s) \in Nat /\ \A j \in 1 .. Len(s) : s[j] \in S
  BY LenProperties, ElementOfSeq
<1>2. P \in SUBSET Int /\ IsFiniteSet(P)
  <2>1. IsFiniteSet(DOMAIN s)
    BY <1>1, FS_Interval
  <2>2. IsFiniteSet(P)
    BY <2>1, FS_Subset
  <2>3. QED
    BY <1>1, <2>2
<1>3. /\ Cardinality(P) \in Nat
      /\ \A k \in 1 .. Cardinality(P) : Nth(P, k) \in P
      /\ \A j, k \in 1 .. Cardinality(P) : j < k => Nth(P, j) < Nth(P, k)
      /\ \A i \in P : \E k \in 1 .. Cardinality(P) : Nth(P, k) = i
  BY <1>2, NthPlace
<1>4. PICK n \in Nat : n = Cardinality(P)
  BY <1>3
<1>5. PICK t : t = Picked(s, P)
  OBVIOUS
<1>6. /\ m \in [1 .. n -> 1 .. Len(s)]
      /\ \A k \in 1 .. n : m[k] \in P
      /\ \A j, k \in 1 .. n : j < k => m[j] < m[k]
      /\ \A i \in P : \E k \in 1 .. n : m[k] = i
  BY <1>1, <1>3, <1>4
<1>7. t = [k \in 1 .. n |-> s[m[k]]]
  BY <1>4, <1>5 DEF Picked
<1>8. t \in Seq(S) /\ Len(t) = n
  <2>1. t \in [1 .. n -> S]
    BY <1>1, <1>6, <1>7
  <2>2. t \in Seq(S)
    BY <2>1, SeqDef
  <2>3. DOMAIN t = 1 .. n /\ DOMAIN t = 1 .. Len(t) /\ Len(t) \in Nat
    BY <2>1, <2>2, LenProperties
  <2>4. QED
    BY <2>2, <2>3
<1>9. LeftOf(t, s, m)
  BY <1>6, <1>7, <1>8 DEF LeftOf
<1>10. QED
  BY <1>4, <1>5, <1>6, <1>8, <1>9

\* What discard_input_before_next_open leaves of a queue.
LEMMA SurvivorsLeft ==
  ASSUME NEW S, NEW s \in Seq(S)
  PROVE  /\ Survivors(s) \in Seq(S)
         /\ s = <<>> => Survivors(s) = <<>>
         /\ GoneFrom(Survivors(s), s, InputBeforeOpen(s))
<1>1. PICK P \in SUBSET DOMAIN s : P = DOMAIN s \ InputBeforeOpen(s)
  OBVIOUS
<1>2. PICK m : m = [k \in 1 .. Cardinality(P) |-> Nth(P, k)]
  OBVIOUS
<1>3. /\ Picked(s, P) \in Seq(S)
      /\ Len(Picked(s, P)) = Cardinality(P)
      /\ LeftOf(Picked(s, P), s, m)
      /\ \A k \in 1 .. Cardinality(P) : m[k] \in P
      /\ \A i \in P : \E k \in 1 .. Cardinality(P) : m[k] = i
  BY <1>2, PickedLeft
<1>4. PICK t \in Seq(S) : t = Picked(s, P) /\ t = Survivors(s)
  BY <1>1, <1>3 DEF Survivors
<1>5. DOMAIN t = 1 .. Cardinality(P)
  BY <1>3, <1>4, LenProperties
<1>6. s = <<>> => t = <<>>
  <2>1. SUFFICES ASSUME s = <<>> PROVE t = <<>>
    OBVIOUS
  <2>2. Len(s) = 0 /\ m \in [1 .. Len(t) -> 1 .. Len(s)] /\ Len(t) \in Nat
    BY <1>3, <1>4, <2>1, EmptySeq, LenProperties DEF LeftOf
  <2>3. PICK n \in Nat : n = Len(t)
    BY <2>2
  <2>4. m \in [1 .. n -> {}]
    BY <2>2, <2>3
  <2>5. 1 \notin 1 .. n
    BY <2>4
  <2>6. Len(t) = 0
    BY <2>3, <2>5
  <2>7. QED
    BY <2>6, EmptySeq
<1>7. GoneFrom(t, s, InputBeforeOpen(s))
  BY <1>1, <1>3, <1>4, <1>5 DEF GoneFrom
<1>8. QED
  BY <1>4, <1>6, <1>7

\* discard_request_input: the input of a finished invocation goes.
LEMMA DiscardRequestInputKeeps ==
  ASSUME QInv, NEW id \in Id, DiscardRequestInput(id)
  PROVE  QInv'
<1>1. QueueTypeOK /\ Distinct(ready) /\ Distinct(overload) /\ Listed(id) /\ Kept(id)
  BY QInvSplit
<1>2. events[id] \in Seq(Frame) /\ retained[id] \in Seq(Frame) /\ mode[id] \in Mode
  BY <1>1 DEF QueueTypeOK
<1> DEFINE ev == Survivors(events[id])
           rt == Survivors(retained[id])
           input == InputBeforeOpen(events[id])
           gone == Cardinality(input)
           size == Cardinality({i \in input : Size(events[id][i]) = 1})
<1>4. /\ events' = [events EXCEPT ![id] = ev]
      /\ retained' = [retained EXCEPT ![id] = rt]
      /\ frames' = [frames EXCEPT ![id] = @ - gone]
      /\ bytes' = [bytes EXCEPT ![id] = @ - size]
      /\ totalFrames' = totalFrames - gone
      /\ totalBytes' = totalBytes - size
      /\ ready' = IF ev # <<>> \/ (mode[id] = "announced" /\ rt # <<>>)
                  THEN Append(Without(ready, id), id) ELSE Without(ready, id)
      /\ mode' = [mode EXCEPT ![id] =
           IF ev # <<>> \/ rt # <<>> \/ @ = "overloaded" THEN @ ELSE "absent"]
  BY DEF DiscardRequestInput
<1>5. UNCHANGED <<control, overload, terminal, reading>>
  BY DEF DiscardRequestInput
<1>6. ev \in Seq(Frame) /\ (events[id] = <<>> => ev = <<>>)
  BY <1>2, SurvivorsLeft
<1>7. rt \in Seq(Frame) /\ (retained[id] = <<>> => rt = <<>>)
  BY <1>2, SurvivorsLeft
<1>8. size \in Nat /\ gone \in Nat
  <2>1. Len(events[id]) \in Nat /\ DOMAIN events[id] = 1 .. Len(events[id])
    BY <1>2, LenProperties
  <2>2. IsFiniteSet(DOMAIN events[id])
    BY <2>1, FS_Interval
  <2>3. input \in SUBSET DOMAIN events[id] /\ {i \in input : Size(events[id][i]) = 1} \in SUBSET DOMAIN events[id]
    BY DEF InputBeforeOpen
  <2>4. QED
    BY <2>2, <2>3, FS_Subset, FS_CardinalityType
<1> HIDE DEF ev, rt, gone, size
<1>9. /\ Without(ready, id) \in Seq(Id) /\ Distinct(Without(ready, id))
      /\ At(Without(ready, id)) = At(ready) \ {id}
  BY <1>1, WithoutDistinct DEF QueueTypeOK
<1>10. /\ Append(Without(ready, id), id) \in Seq(Id)
       /\ Distinct(Append(Without(ready, id), id))
       /\ At(Append(Without(ready, id), id)) = (At(ready) \ {id}) \cup {id}
  BY <1>9, AppendDistinct
<1>11. /\ ready' \in Seq(Id) /\ Distinct(ready)' /\ At(ready)' \ {id} = At(ready) \ {id}
       /\ id \in At(ready)' <=> ev # <<>> \/ (mode[id] = "announced" /\ rt # <<>>)
  BY <1>4, <1>9, <1>10
<1>12. /\ events'[id] = ev /\ retained'[id] = rt
       /\ mode'[id] = IF ev # <<>> \/ rt # <<>> \/ mode[id] = "overloaded"
                      THEN mode[id] ELSE "absent"
  BY <1>1, <1>4 DEF QueueTypeOK
<1>13. \A x \in Id \ {id} :
         mode'[x] = mode[x] /\ events'[x] = events[x] /\ retained'[x] = retained[x]
  BY <1>1, <1>4 DEF QueueTypeOK
<1>14. /\ frames' \in [Id -> Int] /\ bytes' \in [Id -> Int]
       /\ totalFrames' \in Int /\ totalBytes' \in Int
  <2>1. PICK g, z \in Int : g = gone /\ z = size
    BY <1>8
  <2>2. /\ frames' = [frames EXCEPT ![id] = @ - g] /\ totalFrames' = totalFrames - g
        /\ bytes' = [bytes EXCEPT ![id] = @ - z] /\ totalBytes' = totalBytes - z
    BY <1>4, <2>1
  <2>3. /\ frames \in [Id -> Int] /\ bytes \in [Id -> Int]
        /\ totalFrames \in Int /\ totalBytes \in Int
    BY <1>1 DEF QueueTypeOK
  <2>4. frames' \in [Id -> Int]
    BY <2>2, <2>3
  <2>5. bytes' \in [Id -> Int]
    BY <2>2, <2>3
  <2>6. totalFrames' \in Int /\ totalBytes' \in Int
    BY <2>2, <2>3
  <2>. QED
    BY <2>4, <2>5, <2>6
<1>15. events' \in [Id -> Seq(Frame)] /\ retained' \in [Id -> Seq(Frame)]
  <2>1. events' \in [Id -> Seq(Frame)]
    BY <1>1, <1>4, <1>6 DEF QueueTypeOK
  <2>2. retained' \in [Id -> Seq(Frame)]
    BY <1>1, <1>4, <1>7 DEF QueueTypeOK
  <2>. QED
    BY <2>1, <2>2
<1>16. mode' \in [Id -> Mode]
  BY <1>1, <1>4 DEF QueueTypeOK, Mode
<1>17. QueueTypeOK'
  BY <1>1, <1>5, <1>11, <1>14, <1>15, <1>16 DEF QueueTypeOK
<1>18. Listed(id)'
  <2>1. id \in At(ready)' <=> events'[id] # <<>> \/ mode'[id] = "announced"
    BY <1>1, <1>6, <1>11, <1>12 DEF Kept
  <2>2. id \in At(overload)' <=> mode'[id] = "overloaded"
    BY <1>1, <1>5, <1>12 DEF Listed
  <2>3. QED
    BY <2>1, <2>2 DEF Listed
<1>19. Kept(id)'
  BY <1>1, <1>2, <1>6, <1>7, <1>12 DEF Kept, Mode
<1>20. Distinct(overload)' /\ At(overload)' \ {id} = At(overload) \ {id}
  BY <1>1, <1>5
<1>21. QED
  BY <1>11, <1>13, <1>17, <1>18, <1>19, <1>20, OnlyTouches

\* The empty scheduler.
LEMMA QueueInitKeeps == QueueInit => QInv
<1> SUFFICES ASSUME QueueInit PROVE QInv
  OBVIOUS
<1>1. QueueTypeOK
  <2>1. <<>> \in Seq(Frame) /\ <<>> \in Seq(Id) /\ <<>> \in Seq(ControlMsg)
    BY EmptySeq
  <2>2. mode \in [Id -> Mode] /\ events \in [Id -> Seq(Frame)] /\ retained \in [Id -> Seq(Frame)]
    BY <2>1 DEF QueueInit, Mode
  <2>3. control \in Seq(ControlMsg) /\ ready \in Seq(Id) /\ overload \in Seq(Id)
    BY <2>1, Zenon DEF QueueInit
  <2>4. /\ frames \in [Id -> Int] /\ bytes \in [Id -> Int]
        /\ totalFrames \in Int /\ totalBytes \in Int
    BY DEF QueueInit
  <2>5. terminal \in BOOLEAN /\ reading \in BOOLEAN
    BY Zenon DEF QueueInit
  <2>6. QED
    BY <2>2, <2>3, <2>4, <2>5, Zenon DEF QueueTypeOK
<1>2. IndexExact
  BY DEF QueueInit, IndexExact, Distinct, At
<1>3. NoLeakedQueue
  BY DEF QueueInit, NoLeakedQueue
<1>4. QED
  BY <1>1, <1>2, <1>3 DEF QInv

-----------------------------------------------------------------------------
(* Queues in the order of arrival.                                         *)

\* The frames of a list stand in the order they were sent in.
Ascending(s) == \A i, j \in DOMAIN s : i < j => s[i].n < s[j].n

\* The frames of a list are frames, at its positions.
LEMMA FramesAt ==
  ASSUME NEW s \in Seq(Frame)
  PROVE  /\ DOMAIN s = 1 .. Len(s) /\ Len(s) \in Nat
         /\ \A i \in 1 .. Len(s) : s[i] \in Frame /\ s[i].n \in Nat
         /\ \A f \in At(s) : f \in Frame /\ f.n \in Nat
<1>1. DOMAIN s = 1 .. Len(s) /\ Len(s) \in Nat /\ \A i \in 1 .. Len(s) : s[i] \in Frame
  BY LenProperties, ElementOfSeq
<1>2. \A f \in Frame : f.n \in Nat
  BY DEF Frame
<1>3. At(s) \subseteq Frame
  BY AtSubset
<1>4. QED
  BY <1>1, <1>2, <1>3

\* A frame is taken out of a list.
LEMMA DropAscending ==
  ASSUME NEW s \in Seq(Frame), Ascending(s), NEW i \in DOMAIN s
  PROVE  /\ Ascending(Drop(s, i))
         /\ At(Drop(s, i)) \subseteq At(s)
         /\ At(s) \subseteq At(Drop(s, i)) \cup {s[i]}
<1> DEFINE d == Drop(s, i)
<1>1. /\ d \in Seq(Frame) /\ Len(d) = Len(s) - 1
      /\ \A j \in 1 .. Len(s) - 1 : d[j] = IF j < i THEN s[j] ELSE s[j + 1]
  BY DropSeq
<1>2. /\ i \in 1 .. Len(s) /\ DOMAIN s = 1 .. Len(s) /\ Len(s) \in Nat
      /\ DOMAIN d = 1 .. Len(s) - 1
  BY <1>1, FramesAt
<1> HIDE DEF d
<1>3. Ascending(d)
  <2> SUFFICES ASSUME NEW j \in 1 .. Len(s) - 1, NEW k \in 1 .. Len(s) - 1, j < k
               PROVE  d[j].n < d[k].n
    BY <1>2 DEF Ascending
  <2> DEFINE a == IF j < i THEN j ELSE j + 1
             b == IF k < i THEN k ELSE k + 1
  <2>1. a \in 1 .. Len(s) /\ b \in 1 .. Len(s) /\ a < b
    BY <1>2
  <2>2. d[j] = s[a] /\ d[k] = s[b]
    BY <1>1
  <2> HIDE DEF a, b
  <2>3. QED
    BY <1>2, <2>1, <2>2 DEF Ascending
<1>4. At(d) \subseteq At(s)
  <2> SUFFICES ASSUME NEW j \in 1 .. Len(s) - 1 PROVE d[j] \in At(s)
    BY <1>2 DEF At
  <2>1. j \in 1 .. Len(s) /\ j + 1 \in 1 .. Len(s) /\ (d[j] = s[j] \/ d[j] = s[j + 1])
    BY <1>1, <1>2
  <2>2. QED
    BY <1>2, <2>1 DEF At
<1>5. At(s) \subseteq At(d) \cup {s[i]}
  <2> SUFFICES ASSUME NEW k \in 1 .. Len(s), k # i PROVE s[k] \in At(d)
    BY <1>2 DEF At
  <2>1. CASE k < i
    BY <1>1, <1>2, <2>1 DEF At
  <2>2. CASE k > i
    <3>1. k - 1 \in 1 .. Len(s) - 1 /\ ~ (k - 1 < i) /\ (k - 1) + 1 = k
      BY <1>2, <2>2
    <3>2. d[k - 1] = s[k]
      BY <1>1, <3>1
    <3>3. QED
      BY <1>2, <3>1, <3>2 DEF At
  <2>3. QED
    BY <1>2, <2>1, <2>2
<1>6. QED
  BY <1>3, <1>4, <1>5 DEF d

\* The first frame of a list is taken.
LEMMA TailAscending ==
  ASSUME NEW s \in Seq(Frame), Ascending(s), s # <<>>
  PROVE  /\ Ascending(Tail(s))
         /\ Head(s) \in At(s)
         /\ At(Tail(s)) \subseteq At(s)
         /\ At(s) \subseteq At(Tail(s)) \cup {Head(s)}
         /\ \A g \in At(Tail(s)) : Head(s).n < g.n
<1> DEFINE t == Tail(s)
<1>1. /\ t \in Seq(Frame) /\ Len(t) = Len(s) - 1 /\ Head(s) = s[1]
      /\ \A i \in 1 .. Len(s) - 1 : t[i] = s[i + 1]
  BY HeadTailProperties
<1>2. /\ DOMAIN s = 1 .. Len(s) /\ Len(s) \in Nat /\ Len(s) # 0
      /\ DOMAIN t = 1 .. Len(s) - 1
  BY <1>1, FramesAt, EmptySeq
<1> HIDE DEF t
<1>3. \A i \in 1 .. Len(s) - 1 : i + 1 \in 1 .. Len(s) /\ 1 < i + 1 /\ 1 \in 1 .. Len(s)
  BY <1>2
<1>4. Ascending(t)
  <2> SUFFICES ASSUME NEW i \in 1 .. Len(s) - 1, NEW j \in 1 .. Len(s) - 1, i < j
               PROVE  t[i].n < t[j].n
    BY <1>2 DEF Ascending
  <2>1. i + 1 < j + 1 /\ t[i] = s[i + 1] /\ t[j] = s[j + 1]
    BY <1>1
  <2>2. QED
    BY <1>2, <1>3, <2>1 DEF Ascending
<1>5. Head(s) \in At(s) /\ At(t) \subseteq At(s)
  BY <1>1, <1>2, <1>3 DEF At
<1>6. At(s) \subseteq At(t) \cup {Head(s)}
  <2> SUFFICES ASSUME NEW k \in 1 .. Len(s), k # 1 PROVE s[k] \in At(t)
    BY <1>1, <1>2 DEF At
  <2>1. k - 1 \in 1 .. Len(s) - 1 /\ (k - 1) + 1 = k
    BY <1>2
  <2>2. t[k - 1] = s[k]
    BY <1>1, <2>1
  <2>3. QED
    BY <1>2, <2>1, <2>2 DEF At
<1>7. \A g \in At(t) : Head(s).n < g.n
  <2> SUFFICES ASSUME NEW i \in 1 .. Len(s) - 1 PROVE s[1].n < t[i].n
    BY <1>1, <1>2 DEF At
  <2>1. QED
    BY <1>1, <1>2, <1>3 DEF Ascending
<1>8. QED
  BY <1>4, <1>5, <1>6, <1>7 DEF t

\* The last frame sent joins a list.
LEMMA AppendAscending ==
  ASSUME NEW s \in Seq(Frame), Ascending(s), NEW f \in Frame, \A g \in At(s) : g.n < f.n
  PROVE  Ascending(Append(s, f)) /\ At(Append(s, f)) = At(s) \cup {f}
<1> DEFINE t == Append(s, f)
<1>1. /\ t \in Seq(Frame) /\ Len(t) = Len(s) + 1 /\ t[Len(s) + 1] = f
      /\ \A i \in 1 .. Len(s) : t[i] = s[i]
  BY AppendProperties
<1>2. /\ DOMAIN s = 1 .. Len(s) /\ Len(s) \in Nat /\ DOMAIN t = 1 .. Len(s) + 1
  BY <1>1, FramesAt
<1> HIDE DEF t
<1>3. \A i \in 1 .. Len(s) : s[i].n < f.n
  BY <1>2 DEF At
<1>4. Ascending(t)
  BY <1>1, <1>2, <1>3 DEF Ascending
<1>5. QED
  BY <1>4, AppendDistinct DEF t

\* What is left of a list stands in the order of the list.
LEMMA LeftAscending ==
  ASSUME NEW s \in Seq(Frame), Ascending(s), NEW t \in Seq(Frame), NEW m, LeftOf(t, s, m)
  PROVE  Ascending(t) /\ At(t) \subseteq At(s)
<1>1. DOMAIN s = 1 .. Len(s) /\ Len(s) \in Nat /\ DOMAIN t = 1 .. Len(t) /\ Len(t) \in Nat
  BY FramesAt
<1>2. /\ m \in [1 .. Len(t) -> 1 .. Len(s)]
      /\ \A j, k \in 1 .. Len(t) : j < k => m[j] < m[k]
      /\ \A k \in 1 .. Len(t) : t[k] = s[m[k]]
  BY DEF LeftOf
<1>3. Ascending(t)
  <2> SUFFICES ASSUME NEW j \in 1 .. Len(t), NEW k \in 1 .. Len(t), j < k
               PROVE  t[j].n < t[k].n
    BY <1>1 DEF Ascending
  <2>1. m[j] \in DOMAIN s /\ m[k] \in DOMAIN s /\ m[j] < m[k]
    BY <1>1, <1>2
  <2>2. t[j] = s[m[j]] /\ t[k] = s[m[k]]
    BY <1>2
  <2>3. QED
    BY <2>1, <2>2 DEF Ascending
<1>4. \A k \in 1 .. Len(t) : t[k] \in At(s)
  BY <1>1, <1>2 DEF At
<1>5. At(t) \subseteq At(s)
  BY <1>1, <1>4 DEF At
<1>6. QED
  BY <1>3, <1>5

\* What discard_input_before_next_open keeps of a list: its order, and every Open.
LEMMA SurvivorsAscending ==
  ASSUME NEW s \in Seq(Frame), Ascending(s)
  PROVE  /\ Ascending(Survivors(s))
         /\ At(Survivors(s)) \subseteq At(s)
         /\ \A f \in At(s) : f.kind = "Open" => f \in At(Survivors(s))
<1>1. PICK t \in Seq(Frame) : t = Survivors(s) /\ GoneFrom(t, s, InputBeforeOpen(s))
  BY SurvivorsLeft
<1>2. PICK m : /\ LeftOf(t, s, m)
               /\ \A k \in DOMAIN t : m[k] \notin InputBeforeOpen(s)
               /\ \A i \in DOMAIN s \ InputBeforeOpen(s) : \E k \in DOMAIN t : m[k] = i
  BY <1>1 DEF GoneFrom
<1>3. Ascending(t) /\ At(t) \subseteq At(s)
  BY <1>2, LeftAscending
<1>4. ASSUME NEW i \in DOMAIN s, s[i].kind = "Open" PROVE s[i] \in At(t)
  <2>1. i \notin InputBeforeOpen(s)
    BY <1>4 DEF InputBeforeOpen
  <2>2. PICK k \in DOMAIN t : m[k] = i
    BY <1>2, <2>1
  <2>3. DOMAIN t = 1 .. Len(t)
    BY FramesAt
  <2>4. t[k] = s[i]
    BY <1>2, <2>2, <2>3 DEF LeftOf
  <2>5. QED
    BY <2>4 DEF At
<1>5. \A f \in At(s) : f.kind = "Open" => f \in At(t)
  BY <1>4 DEF At
<1>6. QED
  BY <1>1, <1>3, <1>5

Queued(id) == At(events[id]) \cup At(retained[id])

\* Retained frames were sent after the accepted ones.
FramesInOrder(id) ==
  /\ Ascending(events[id])
  /\ Ascending(retained[id])
  /\ \A f \in At(events[id]), g \in At(retained[id]) : f.n < g.n

\* Frames of the request leave its queue.
Shrinks(id) ==
  /\ FramesInOrder(id)'
  /\ At(events'[id]) \subseteq At(events[id])
  /\ At(retained'[id]) \subseteq At(retained[id])

\* An Open leaves the queue only by an overload.
OpensStay(id) ==
  \/ \A f \in Queued(id) : f.kind = "Open" => f \in Queued(id)'
  \/ mode'[id] = "overloaded" /\ events'[id] = <<>>

\* An overload is forgotten only when it is announced.
ModeStays(id) ==
  \/ mode'[id] = mode[id]
  \/ mode'[id] = "absent" /\ mode[id] # "overloaded"

Thins(id) == Shrinks(id) /\ OpensStay(id) /\ ModeStays(id)

-----------------------------------------------------------------------------
(* What the scheduler's critical sections take out of a queue.             *)

\* A critical section for another request.
LEMMA OtherQueue ==
  ASSUME NEW id \in Id, FramesInOrder(id), events'[id] = events[id],
         retained'[id] = retained[id], mode'[id] = mode[id]
  PROVE  Thins(id)
  BY DEF Thins, Shrinks, OpensStay, ModeStays, FramesInOrder, Queued

\* Accepted frames leave their list in order.
LEMMA AcceptedLeave ==
  ASSUME NEW id \in Id, FramesInOrder(id), At(events'[id]) \subseteq At(events[id]),
         Ascending(events'[id]), At(retained'[id]) \subseteq At(retained[id]),
         Ascending(retained'[id])
  PROVE  FramesInOrder(id)'
  BY DEF FramesInOrder

\* A Cancel overtakes the other frames.
LEMMA PopCancelThins ==
  ASSUME QInv, NEW id \in Id, FramesInOrder(id), NEW c \in Id, NEW f, PopCancel(c, f)
  PROVE  Thins(id)
<1>1. /\ events \in [Id -> Seq(Frame)] /\ retained \in [Id -> Seq(Frame)]
      /\ mode \in [Id -> Mode]
      /\ Ascending(events[id]) /\ Ascending(retained[id])
  BY DEF QInv, QueueTypeOK, FramesInOrder
<1>2. mode[c] # "overloaded" /\ (mode' = mode \/ mode' = [mode EXCEPT ![c] = "absent"])
  BY DEF PopCancel
<1>3. CASE c # id
  <2>1. events'[id] = events[id] /\ retained'[id] = retained[id] /\ mode'[id] = mode[id]
    BY <1>1, <1>2, <1>3 DEF PopCancel
  <2>2. QED
    BY <2>1, OtherQueue
<1>4. CASE c = id
  <2>1. mode'[id] = mode[id] \/ (mode'[id] = "absent" /\ mode[id] # "overloaded")
    BY <1>1, <1>2, <1>4
  <2>2. CASE \E i \in DOMAIN events[id] :
               /\ IsFirst(events[id], i, LAMBDA e : e.kind = "Cancel")
               /\ f = events[id][i]
               /\ events' = [events EXCEPT ![id] = Drop(@, i)]
               /\ UNCHANGED retained
    <3>1. PICK i \in DOMAIN events[id] :
            /\ IsFirst(events[id], i, LAMBDA e : e.kind = "Cancel")
            /\ events' = [events EXCEPT ![id] = Drop(@, i)] /\ UNCHANGED retained
      BY <2>2
    <3>2. events[id][i].kind = "Cancel"
      BY <3>1 DEF IsFirst
    <3>3. events'[id] = Drop(events[id], i) /\ retained'[id] = retained[id]
      BY <1>1, <3>1
    <3>4. /\ Ascending(events'[id]) /\ At(events'[id]) \subseteq At(events[id])
          /\ At(events[id]) \subseteq At(events'[id]) \cup {events[id][i]}
      BY <1>1, <3>3, DropAscending
    <3>5. FramesInOrder(id)'
      BY <1>1, <3>3, <3>4, AcceptedLeave
    <3>6. QED
      BY <2>1, <3>2, <3>3, <3>4, <3>5 DEF Thins, Shrinks, OpensStay, ModeStays, Queued
  <2>3. CASE /\ \E i \in DOMAIN retained[id] :
                  /\ IsFirst(retained[id], i, LAMBDA e : e.kind = "Cancel")
                  /\ f = retained[id][i]
                  /\ retained' = [retained EXCEPT ![id] = Drop(@, i)]
             /\ UNCHANGED events
    <3>1. PICK i \in DOMAIN retained[id] :
            /\ IsFirst(retained[id], i, LAMBDA e : e.kind = "Cancel")
            /\ retained' = [retained EXCEPT ![id] = Drop(@, i)] /\ UNCHANGED events
      BY <2>3
    <3>2. retained[id][i].kind = "Cancel"
      BY <3>1 DEF IsFirst
    <3>3. retained'[id] = Drop(retained[id], i) /\ events'[id] = events[id]
      BY <1>1, <3>1
    <3>4. /\ Ascending(retained'[id]) /\ At(retained'[id]) \subseteq At(retained[id])
          /\ At(retained[id]) \subseteq At(retained'[id]) \cup {retained[id][i]}
      BY <1>1, <3>3, DropAscending
    <3>5. FramesInOrder(id)'
      BY <1>1, <3>3, <3>4, AcceptedLeave
    <3>6. QED
      BY <2>1, <3>2, <3>3, <3>4, <3>5 DEF Thins, Shrinks, OpensStay, ModeStays, Queued
  <2>4. QED
    BY <1>4, <2>2, <2>3 DEF PopCancel
<1>5. QED
  BY <1>3, <1>4

\* discard_request_input keeps every Open.
LEMMA DiscardThins ==
  ASSUME QInv, NEW id \in Id, FramesInOrder(id), NEW c \in Id, DiscardRequestInput(c)
  PROVE  Thins(id)
<1>1. /\ events \in [Id -> Seq(Frame)] /\ retained \in [Id -> Seq(Frame)]
      /\ mode \in [Id -> Mode]
      /\ Ascending(events[id]) /\ Ascending(retained[id])
  BY DEF QInv, QueueTypeOK, FramesInOrder
<1>2. PICK ev, rt : ev = Survivors(events[c]) /\ rt = Survivors(retained[c])
  OBVIOUS
<1>3. /\ events' = [events EXCEPT ![c] = ev] /\ retained' = [retained EXCEPT ![c] = rt]
      /\ mode' = [mode EXCEPT ![c] =
           IF ev # <<>> \/ rt # <<>> \/ mode[c] = "overloaded" THEN mode[c] ELSE "absent"]
  BY <1>2 DEF DiscardRequestInput
<1>4. CASE c # id
  BY <1>1, <1>3, <1>4, OtherQueue
<1>5. CASE c = id
  <2>1. /\ events'[id] = ev /\ retained'[id] = rt
        /\ mode'[id] = mode[id] \/ (mode'[id] = "absent" /\ mode[id] # "overloaded")
    BY <1>1, <1>3, <1>5
  <2>2. /\ Ascending(ev) /\ At(ev) \subseteq At(events[id])
        /\ \A g \in At(events[id]) : g.kind = "Open" => g \in At(ev)
    BY <1>1, <1>2, <1>5, SurvivorsAscending
  <2>3. /\ Ascending(rt) /\ At(rt) \subseteq At(retained[id])
        /\ \A g \in At(retained[id]) : g.kind = "Open" => g \in At(rt)
    BY <1>1, <1>2, <1>5, SurvivorsAscending
  <2>4. FramesInOrder(id)'
    BY <2>1, <2>2, <2>3, AcceptedLeave
  <2>5. QED
    BY <2>1, <2>2, <2>3, <2>4 DEF Thins, Shrinks, OpensStay, ModeStays, Queued
<1>6. QED
  BY <1>4, <1>5

\* A frame popped in turn is the oldest one queued under its ID.
Oldest(id, f) ==
  /\ f \in Queued(id)
  /\ mode[id] = "overloaded" => f \in At(events[id])
  /\ Shrinks(id) /\ ModeStays(id)
  /\ \A g \in Queued(id) : g = f \/ g \in Queued(id)'
  /\ \A g \in Queued(id)' : f.n < g.n

\* pop_inbound_matching takes the oldest frame of a ready request.
LEMMA PopReadyOldest ==
  ASSUME QInv, NEW id \in Id, FramesInOrder(id), NEW f, NEW gate, PopReady(id, f, gate)
  PROVE  Oldest(id, f)
<1>1. /\ events \in [Id -> Seq(Frame)] /\ retained \in [Id -> Seq(Frame)]
      /\ mode \in [Id -> Mode]
      /\ Ascending(events[id]) /\ Ascending(retained[id])
      /\ \A e \in At(events[id]), g \in At(retained[id]) : e.n < g.n
  BY DEF QInv, QueueTypeOK, FramesInOrder
<1>2. mode[id] = "overloaded" => events[id] # <<>>
  <2>1. \A k \in DOMAIN overload : events[overload[k]] # <<>>
    BY DEF PopReady, NoOverload
  <2>2. mode[id] = "overloaded" => id \in At(overload)
    BY DEF QInv, IndexExact
  <2>3. QED
    BY <2>1, <2>2 DEF At
<1>3. LET late == events[id] = <<>>
          from == IF late THEN retained[id] ELSE events[id]
          left == events'[id] # <<>> \/ retained'[id] # <<>>
      IN /\ from # <<>>
         /\ f = Head(from)
         /\ IF late
            THEN /\ retained' = [retained EXCEPT ![id] = Tail(@)] /\ UNCHANGED events
            ELSE /\ events' = [events EXCEPT ![id] = Tail(@)] /\ UNCHANGED retained
         /\ mode' = [mode EXCEPT ![id] =
              IF ~left /\ (@ = "normal" \/ (@ = "announced" /\ late))
              THEN "absent" ELSE @]
  BY Zenon DEF PopReady, FromRetained
<1>4. mode'[id] = mode[id] \/ (mode'[id] = "absent" /\ mode[id] # "overloaded")
  BY <1>1, <1>3
<1>5. CASE events[id] = <<>>
  <2>1. /\ retained[id] # <<>> /\ f = Head(retained[id])
        /\ events'[id] = events[id] /\ retained'[id] = Tail(retained[id])
    BY <1>1, <1>3, <1>5
  <2>2. /\ Ascending(retained'[id]) /\ f \in At(retained[id])
        /\ At(retained'[id]) \subseteq At(retained[id])
        /\ At(retained[id]) \subseteq At(retained'[id]) \cup {f}
        /\ \A g \in At(retained'[id]) : f.n < g.n
    BY <1>1, <2>1, TailAscending
  <2>3. At(events'[id]) = {} /\ At(events[id]) = {}
    BY <1>1, <1>5, <2>1, AtSubset
  <2>4. FramesInOrder(id)'
    BY <1>1, <2>1, <2>2, AcceptedLeave
  <2>5. QED
    BY <1>2, <1>4, <1>5, <2>2, <2>3, <2>4 DEF Oldest, Shrinks, ModeStays, Queued
<1>6. CASE events[id] # <<>>
  <2>1. /\ f = Head(events[id])
        /\ retained'[id] = retained[id] /\ events'[id] = Tail(events[id])
    BY <1>1, <1>3, <1>6
  <2>2. /\ Ascending(events'[id]) /\ f \in At(events[id])
        /\ At(events'[id]) \subseteq At(events[id])
        /\ At(events[id]) \subseteq At(events'[id]) \cup {f}
        /\ \A g \in At(events'[id]) : f.n < g.n
    BY <1>1, <1>6, <2>1, TailAscending
  <2>3. FramesInOrder(id)'
    BY <1>1, <2>1, <2>2, AcceptedLeave
  <2>4. \A g \in At(retained'[id]) : f.n < g.n
    BY <1>1, <2>1, <2>2
  <2>5. QED
    BY <1>4, <2>1, <2>2, <2>3, <2>4 DEF Oldest, Shrinks, ModeStays, Queued
<1>7. QED
  BY <1>5, <1>6

\* A pop in turn leaves the other requests alone.
LEMMA PopReadyOthers ==
  ASSUME QInv, NEW id \in Id, FramesInOrder(id), NEW c \in Id \ {id}, NEW f, NEW gate,
         PopReady(c, f, gate)
  PROVE  Thins(id)
<1>1. /\ events' = events \/ \E s : events' = [events EXCEPT ![c] = s]
      /\ retained' = retained \/ \E s : retained' = [retained EXCEPT ![c] = s]
      /\ \E m : mode' = [mode EXCEPT ![c] = m]
  BY Zenon DEF PopReady
<1>2. events'[id] = events[id] /\ retained'[id] = retained[id] /\ mode'[id] = mode[id]
  BY <1>1 DEF QInv, QueueTypeOK
<1>3. QED
  BY <1>2, OtherQueue

\* What popping an overload does to the queues: that of o is announced, and a
\* Cancel may have emptied the accepted frames of another overloaded request.
LEMMA OverloadPopped ==
  ASSUME QInv, NEW o, PopOverload(o) \/ \E c \in Id : PopCancelOverloaded(c, o)
  PROVE  /\ o \in Id /\ mode[o] = "overloaded" /\ events'[o] = <<>>
         /\ retained' = retained /\ reading' = reading
         /\ \A x \in Id : \/ events'[x] = events[x]
                          \/ events'[x] = <<>> /\ mode[x] = "overloaded"
         /\ \A x \in Id \ {o} : mode'[x] = mode[x]
<1>1. /\ events \in [Id -> Seq(Frame)] /\ mode \in [Id -> Mode] /\ overload \in Seq(Id)
      /\ \A x \in Id : x \in At(overload) <=> mode[x] = "overloaded"
  BY DEF QInv, QueueTypeOK, IndexExact
<1>2. PICK rd : Announce(o, events', rd)
  BY DEF PopOverload, PopCancelOverloaded
<1>3. /\ events'[o] = <<>> /\ o \in At(overload)
      /\ \E m : mode' = [mode EXCEPT ![o] = m]
  BY <1>2 DEF Announce, IsFirst, At
<1>4. o \in Id /\ mode[o] = "overloaded"
  BY <1>1, <1>3, AtSubset
<1>5. \A x \in Id \ {o} : mode'[x] = mode[x]
  BY <1>1, <1>3
<1>6. /\ retained' = retained /\ reading' = reading
      /\ \/ events' = events
         \/ \E c \in Id : mode[c] = "overloaded" /\ events' = [events EXCEPT ![c] = <<>>]
  BY DEF PopOverload, PopCancelOverloaded
<1>7. \A x \in Id : events'[x] = events[x] \/ (events'[x] = <<>> /\ mode[x] = "overloaded")
  BY <1>1, <1>6
<1>8. QED
  BY <1>3, <1>4, <1>5, <1>6, <1>7

\* A queue that lost its accepted frames, or kept them.
LEMMA EmptiedShrinks ==
  ASSUME QInv, NEW id \in Id, FramesInOrder(id), retained'[id] = retained[id],
         events'[id] = events[id] \/ events'[id] = <<>>
  PROVE  Shrinks(id)
<1>1. CASE events'[id] = events[id]
  BY <1>1 DEF Shrinks, FramesInOrder
<1>2. CASE events'[id] = <<>>
  <2>1. At(events'[id]) = {} /\ Ascending(events'[id])
    <3>1. Len(<<>>) = 0 /\ <<>> \in Seq(Frame) /\ DOMAIN <<>> = 1 .. 0
      BY EmptySeq, FramesAt
    <3>2. Ascending(<<>>)
      BY <3>1 DEF Ascending
    <3>3. QED
      BY <1>2, <3>1, <3>2, AtSubset
  <2>2. QED
    BY <2>1 DEF Shrinks, FramesInOrder
<1>3. QED
  BY <1>1, <1>2

-----------------------------------------------------------------------------
(* What enqueue adds to a queue.                                           *)

\* What a newly sent frame f does to the queue of its request: it joins one of
\* the two lists, or it is dropped for an overload or the end of the channel.
Arrives(id, f) ==
  /\ FramesInOrder(id)'
  /\ At(events[id]) \subseteq At(events'[id])
  /\ At(events'[id]) \subseteq At(events[id]) \cup {f}
  /\ At(retained[id]) \subseteq At(retained'[id])
  /\ At(retained'[id]) \subseteq At(retained[id]) \cup {f}
  /\ f.kind = "Open" /\ mode[id] = "absent" => f \notin At(retained'[id])
  /\ mode'[id] = "announced" => mode[id] = "announced"
  /\ mode[id] = "overloaded" => mode'[id] = "overloaded" /\ events'[id] = events[id]
  /\ reading /\ \/ f \in Queued(id)'
                \/ mode'[id] \in {"overloaded", "announced"}
                \/ ~reading'

\* enqueue accepts the frame.
LEMMA EnqueueArrives ==
  ASSUME QInv, NEW id \in Id, FramesInOrder(id), NEW f \in Frame,
         \A g \in Queued(id) : g.n < f.n, EnqueueRequest(id, f)
  PROVE  Arrives(id, f)
<1>1. /\ events \in [Id -> Seq(Frame)] /\ retained \in [Id -> Seq(Frame)]
      /\ mode \in [Id -> Mode]
  BY DEF QInv, QueueTypeOK
<1>2. /\ events'[id] = Append(events[id], f) /\ retained'[id] = retained[id]
      /\ mode'[id] = "normal" /\ reading
      /\ mode[id] \notin {"overloaded", "announced"}
  BY <1>1 DEF EnqueueRequest, Overflows
<1>3. Ascending(events'[id]) /\ At(events'[id]) = At(events[id]) \cup {f}
  BY <1>1, <1>2, AppendAscending DEF FramesInOrder, Queued
<1>4. retained[id] = <<>>
  BY <1>1, <1>2 DEF QInv, NoLeakedQueue, Mode
<1>5. At(retained[id]) = {}
  BY <1>1, <1>4, AtSubset
<1>6. FramesInOrder(id)'
  BY <1>2, <1>3, <1>5 DEF FramesInOrder
<1>7. QED
  BY <1>2, <1>3, <1>5, <1>6 DEF Arrives, Queued

\* enqueue finds a limit exceeded: the frame is retained or dropped.
LEMMA OverflowArrives ==
  ASSUME QInv, NEW id \in Id, FramesInOrder(id), NEW f \in Frame,
         \A g \in Queued(id) : g.n < f.n, NEW budgetFull, EnqueueOverflow(id, f, budgetFull)
  PROVE  Arrives(id, f)
<1>1. /\ events \in [Id -> Seq(Frame)] /\ retained \in [Id -> Seq(Frame)]
      /\ mode \in [Id -> Mode]
  BY DEF QInv, QueueTypeOK
<1>2. /\ events' = events /\ reading
      /\ mode' = [mode EXCEPT ![id] =
           IF mode[id] \in {"absent", "normal"} THEN "overloaded" ELSE @]
      /\ retained' = [retained EXCEPT ![id] = IF Retains(id, f) THEN Append(@, f) ELSE @]
  BY DEF EnqueueOverflow
<1>3. /\ mode'[id] \in {"overloaded", "announced"}
      /\ mode'[id] = "announced" => mode[id] = "announced"
      /\ mode[id] = "overloaded" => mode'[id] = "overloaded"
  BY <1>1, <1>2 DEF Mode
<1>4. retained'[id] = IF Retains(id, f) THEN Append(retained[id], f) ELSE retained[id]
  BY <1>1, <1>2
<1>5. /\ Ascending(Append(retained[id], f))
      /\ At(Append(retained[id], f)) = At(retained[id]) \cup {f}
  BY <1>1, AppendAscending DEF FramesInOrder, Queued
<1>6. /\ Ascending(retained'[id]) /\ At(retained[id]) \subseteq At(retained'[id])
      /\ At(retained'[id]) \subseteq At(retained[id]) \cup {f}
  BY <1>4, <1>5 DEF FramesInOrder
<1>7. FramesInOrder(id)'
  BY <1>2, <1>6 DEF FramesInOrder, Queued
<1>8. f.kind = "Open" /\ mode[id] = "absent" => f \notin At(retained'[id])
  <2> SUFFICES ASSUME f.kind = "Open", mode[id] = "absent" PROVE f \notin At(retained'[id])
    OBVIOUS
  <2>1. retained[id] = <<>>
    BY DEF QInv, NoLeakedQueue
  <2>2. DOMAIN retained[id] = {} /\ At(retained[id]) = {}
    BY <1>1, <2>1, AtSubset DEF At
  <2>3. ~BrokerSide
    BY DEF Frame, Kind, OutputKind
  <2>4. ~Retains(id, f)
    BY <2>2, <2>3 DEF Retains, HasKind
  <2>5. QED
    BY <1>4, <2>2, <2>4
<1>9. QED
  BY <1>2, <1>3, <1>6, <1>7, <1>8 DEF Arrives

\* enqueue ends the channel: one request ID too many.
LEMMA RefusalArrives ==
  ASSUME NEW id \in Id, FramesInOrder(id), NEW f \in Frame,
         \A g \in Queued(id) : g.n < f.n, TooManyRequests(id)
  PROVE  Arrives(id, f)
<1>1. UNCHANGED <<events, retained, mode>> /\ reading /\ ~reading'
  BY DEF TooManyRequests, SetTerminal, requestVars
<1>2. f \notin Queued(id)
  <2>1. f.n \in Nat
    BY DEF Frame
  <2>2. ~ (f.n < f.n)
    BY <2>1
  <2>3. QED
    BY <2>2
<1>3. QED
  BY <1>1, <1>2 DEF Arrives, FramesInOrder, Queued

-----------------------------------------------------------------------------
(* What the limits count.                                                  *)

\* The places of the payload frames of a list.
Paying(s) == {i \in DOMAIN s : Size(s[i]) = 1}

\* A list of frames has so many places, and some of them carry a payload.
LEMMA PayingFinite ==
  ASSUME NEW s \in Seq(Frame)
  PROVE  /\ IsFiniteSet(DOMAIN s) /\ Cardinality(DOMAIN s) = Len(s)
         /\ IsFiniteSet(Paying(s)) /\ PayloadOf(s) = Cardinality(Paying(s))
         /\ PayloadOf(s) \in Nat
<1>1. DOMAIN s = 1 .. Len(s) /\ Len(s) \in Nat
  BY FramesAt
<1>2. IsFiniteSet(DOMAIN s) /\ Cardinality(DOMAIN s) = Len(s)
  BY <1>1, FS_Interval
<1>3. Paying(s) \in SUBSET DOMAIN s
  BY DEF Paying
<1>4. IsFiniteSet(Paying(s)) /\ Cardinality(Paying(s)) \in Nat
  BY <1>2, <1>3, FS_Subset, FS_CardinalityType
<1>5. PayloadOf(s) = Cardinality(Paying(s))
  BY DEF PayloadOf, Paying
<1>6. QED
  BY <1>2, <1>4, <1>5

\* What is left of a list counts what the list counted without what is gone.
LEMMA LeftCounts ==
  ASSUME NEW s \in Seq(Frame), NEW t \in Seq(Frame), NEW G \in SUBSET DOMAIN s,
         GoneFrom(t, s, G)
  PROVE  /\ IsFiniteSet(G) /\ Cardinality(G) \in Nat
         /\ Cardinality({i \in G : Size(s[i]) = 1}) \in Nat
         /\ Len(t) = Len(s) - Cardinality(G)
         /\ PayloadOf(t) = PayloadOf(s) - Cardinality({i \in G : Size(s[i]) = 1})
<1>1. PICK m : /\ LeftOf(t, s, m)
               /\ \A k \in DOMAIN t : m[k] \notin G
               /\ \A i \in DOMAIN s \ G : \E k \in DOMAIN t : m[k] = i
  BY DEF GoneFrom
<1>2. /\ DOMAIN s = 1 .. Len(s) /\ Len(s) \in Nat
      /\ DOMAIN t = 1 .. Len(t) /\ Len(t) \in Nat
  BY FramesAt
<1>3. /\ m \in [DOMAIN t -> DOMAIN s \ G]
      /\ \A j, k \in DOMAIN t : j < k => m[j] < m[k]
      /\ \A k \in DOMAIN t : t[k] = s[m[k]]
      /\ \A i \in DOMAIN s \ G : \E k \in DOMAIN t : m[k] = i
  <2>1. /\ m \in [DOMAIN t -> DOMAIN s]
        /\ \A j, k \in DOMAIN t : j < k => m[j] < m[k]
        /\ \A k \in DOMAIN t : t[k] = s[m[k]]
    BY <1>1, <1>2 DEF LeftOf
  <2>2. QED
    BY <1>1, <2>1
<1>4. \A j, k \in DOMAIN t : m[j] = m[k] => j = k
  <2> SUFFICES ASSUME NEW j \in DOMAIN t, NEW k \in DOMAIN t, j # k PROVE m[j] # m[k]
    BY Zenon
  <2>1. m[j] \in Int /\ m[k] \in Int /\ j \in Int /\ k \in Int
    BY <1>2, <1>3
  <2>2. CASE j < k
    BY <1>3, <2>1, <2>2
  <2>3. CASE k < j
    BY <1>3, <2>1, <2>3
  <2>4. QED
    BY <2>1, <2>2, <2>3
<1>5. /\ IsFiniteSet(DOMAIN s) /\ Cardinality(DOMAIN s) = Len(s) /\ IsFiniteSet(Paying(s))
      /\ IsFiniteSet(DOMAIN t) /\ Cardinality(DOMAIN t) = Len(t) /\ IsFiniteSet(Paying(t))
      /\ PayloadOf(s) = Cardinality(Paying(s)) /\ PayloadOf(t) = Cardinality(Paying(t))
      /\ PayloadOf(s) \in Nat
  BY PayingFinite
<1>6. IsFiniteSet(G) /\ Cardinality(G) \in Nat
  BY <1>5, FS_Subset, FS_CardinalityType
<1>7. Len(t) = Len(s) - Cardinality(G)
  <2>1. m \in Bijection(DOMAIN t, DOMAIN s \ G)
    BY <1>3, <1>4 DEF Bijection, Injection, Surjection, IsInjective
  <2>2. Cardinality(DOMAIN s \ G) = Cardinality(DOMAIN t)
    BY <1>5, <2>1, FS_Bijection DEF ExistsBijection
  <2>3. Cardinality(DOMAIN s \ G) = Cardinality(DOMAIN s) - Cardinality(DOMAIN s \cap G)
    BY <1>5, FS_Difference
  <2>4. DOMAIN s \cap G = G
    OBVIOUS
  <2>5. QED
    BY <1>2, <1>5, <1>6, <2>2, <2>3, <2>4
<1> DEFINE paid == {i \in G : Size(s[i]) = 1}
<1>8. paid = Paying(s) \cap G /\ Cardinality(paid) \in Nat
  <2>1. paid = Paying(s) \cap G
    BY DEF Paying
  <2>2. QED
    BY <1>5, <2>1, FS_Intersection, FS_CardinalityType
<1>9. PayloadOf(t) = PayloadOf(s) - Cardinality(paid)
  <2> DEFINE p == [k \in Paying(t) |-> m[k]]
  <2>1. p \in [Paying(t) -> Paying(s) \ G]
    BY <1>3 DEF Paying
  <2>2. \A j, k \in Paying(t) : p[j] = p[k] => j = k
    BY <1>4 DEF Paying
  <2>3. \A i \in Paying(s) \ G : \E k \in Paying(t) : p[k] = i
    <3> SUFFICES ASSUME NEW i \in Paying(s) \ G PROVE \E k \in Paying(t) : p[k] = i
      OBVIOUS
    <3>1. i \in DOMAIN s \ G /\ Size(s[i]) = 1
      BY DEF Paying
    <3>2. PICK k \in DOMAIN t : m[k] = i
      BY <1>3, <3>1
    <3>3. k \in Paying(t)
      BY <1>3, <3>1, <3>2 DEF Paying
    <3>4. QED
      BY <3>2, <3>3
  <2> HIDE DEF p
  <2>4. p \in Bijection(Paying(t), Paying(s) \ G)
    BY <2>1, <2>2, <2>3 DEF Bijection, Injection, Surjection, IsInjective
  <2>5. Cardinality(Paying(s) \ G) = Cardinality(Paying(t))
    BY <1>5, <2>4, FS_Bijection DEF ExistsBijection
  <2>6. Cardinality(Paying(s) \ G) = Cardinality(Paying(s)) - Cardinality(Paying(s) \cap G)
    BY <1>5, FS_Difference
  <2>7. QED
    BY <1>5, <1>8, <2>5, <2>6
<1>10. QED
  BY <1>6, <1>7, <1>8, <1>9

\* An element of a list is gone.
LEMMA OneGone ==
  ASSUME NEW s \in Seq(Frame), NEW t \in Seq(Frame), NEW i \in DOMAIN s, GoneFrom(t, s, {i})
  PROVE  /\ Len(t) = Len(s) - 1
         /\ PayloadOf(t) = PayloadOf(s) - Size(s[i])
<1>1. {i} \in SUBSET DOMAIN s
  OBVIOUS
<1>2. /\ Len(t) = Len(s) - Cardinality({i})
      /\ PayloadOf(t) = PayloadOf(s) - Cardinality({j \in {i} : Size(s[j]) = 1})
  BY <1>1, LeftCounts
<1>3. Cardinality({i}) = 1 /\ Cardinality({}) = 0
  BY FS_Singleton, FS_EmptySet
<1>4. Cardinality({j \in {i} : Size(s[j]) = 1}) = Size(s[i])
  <2>1. CASE Size(s[i]) = 1
    <3>1. {j \in {i} : Size(s[j]) = 1} = {i}
      BY <2>1
    <3>2. QED
      BY <1>3, <2>1, <3>1
  <2>2. CASE Size(s[i]) = 0
    <3>1. {j \in {i} : Size(s[j]) = 1} = {}
      BY <2>2
    <3>2. QED
      BY <1>3, <2>2, <3>1
  <2>3. QED
    BY <2>1, <2>2 DEF Size
<1>5. QED
  BY <1>2, <1>3, <1>4

\* Removing an element from the middle, from the front, and before it was added.
LEMMA DropGone ==
  ASSUME NEW s \in Seq(Frame), NEW i \in DOMAIN s
  PROVE  Drop(s, i) \in Seq(Frame) /\ GoneFrom(Drop(s, i), s, {i})
<1> DEFINE m == [k \in 1 .. Len(s) - 1 |-> IF k < i THEN k ELSE k + 1]
<1>1. PICK t : t = Drop(s, i)
  OBVIOUS
<1>2. /\ t \in Seq(Frame) /\ Len(t) = Len(s) - 1
      /\ \A j \in 1 .. Len(s) - 1 : t[j] = IF j < i THEN s[j] ELSE s[j + 1]
  BY <1>1, DropSeq
<1>3. PICK n \in Nat : n = Len(s) /\ DOMAIN s = 1 .. n /\ i \in 1 .. n /\ DOMAIN t = 1 .. n - 1
  BY <1>2, FramesAt
<1>4. m \in [1 .. n - 1 -> 1 .. n]
  BY <1>3
<1>5. \A j, k \in 1 .. n - 1 : j < k => m[j] < m[k]
  BY <1>3
<1>6. \A k \in 1 .. n - 1 : t[k] = s[m[k]]
  BY <1>2, <1>3
<1>7. \A k \in 1 .. n - 1 : m[k] # i
  BY <1>3
<1>8. ASSUME NEW j \in 1 .. n, j # i PROVE \E k \in 1 .. n - 1 : m[k] = j
  <2>1. CASE j < i
    <3>1. j \in 1 .. n - 1 /\ m[j] = j
      BY <1>3, <2>1
    <3>2. QED
      BY <3>1
  <2>2. CASE j > i
    <3>1. j - 1 \in 1 .. n - 1 /\ m[j - 1] = j
      BY <1>3, <2>2
    <3>2. QED
      BY <3>1
  <2>3. QED
    BY <1>3, <1>8, <2>1, <2>2
<1> HIDE DEF m
<1>9. LeftOf(t, s, m)
  BY <1>2, <1>3, <1>4, <1>5, <1>6 DEF LeftOf
<1>10. GoneFrom(t, s, {i})
  BY <1>3, <1>7, <1>8, <1>9 DEF GoneFrom
<1>11. QED
  BY <1>1, <1>2, <1>10

LEMMA TailGone ==
  ASSUME NEW s \in Seq(Frame), s # <<>>
  PROVE  /\ Tail(s) \in Seq(Frame) /\ 1 \in DOMAIN s /\ Head(s) = s[1]
         /\ GoneFrom(Tail(s), s, {1})
<1> DEFINE m == [k \in 1 .. Len(s) - 1 |-> k + 1]
<1>1. PICK t : t = Tail(s)
  OBVIOUS
<1>2. /\ t \in Seq(Frame) /\ Len(t) = Len(s) - 1 /\ Head(s) = s[1]
      /\ \A j \in 1 .. Len(s) - 1 : t[j] = s[j + 1]
  BY <1>1, HeadTailProperties
<1>3. PICK n \in Nat : n = Len(s) /\ DOMAIN s = 1 .. n /\ n # 0 /\ DOMAIN t = 1 .. n - 1
  BY <1>2, FramesAt, EmptySeq
<1>4. m \in [1 .. n - 1 -> 1 .. n]
  BY <1>3
<1>5. \A j, k \in 1 .. n - 1 : j < k => m[j] < m[k]
  BY <1>3
<1>6. \A k \in 1 .. n - 1 : t[k] = s[m[k]]
  BY <1>2, <1>3
<1>7. \A k \in 1 .. n - 1 : m[k] # 1
  BY <1>3
<1>8. ASSUME NEW j \in 1 .. n, j # 1 PROVE \E k \in 1 .. n - 1 : m[k] = j
  <2>1. j - 1 \in 1 .. n - 1 /\ m[j - 1] = j
    BY <1>3, <1>8
  <2>2. QED
    BY <2>1
<1> HIDE DEF m
<1>9. LeftOf(t, s, m)
  BY <1>2, <1>3, <1>4, <1>5, <1>6 DEF LeftOf
<1>10. GoneFrom(t, s, {1})
  <2>1. \A k \in DOMAIN t : m[k] \notin {1}
    BY <1>3, <1>7
  <2>2. \A j \in DOMAIN s \ {1} : \E k \in DOMAIN t : m[k] = j
    BY <1>3, <1>8
  <2>3. QED
    BY <1>9, <2>1, <2>2 DEF GoneFrom
<1>11. QED
  BY <1>1, <1>2, <1>3, <1>10

LEMMA AppendGone ==
  ASSUME NEW s \in Seq(Frame), NEW f \in Frame
  PROVE  /\ Append(s, f) \in Seq(Frame) /\ Len(Append(s, f)) = Len(s) + 1
         /\ PayloadOf(Append(s, f)) = PayloadOf(s) + Size(f)
<1> DEFINE m == [k \in 1 .. Len(s) |-> k]
<1>1. PICK t : t = Append(s, f)
  OBVIOUS
<1>2. /\ t \in Seq(Frame) /\ Len(t) = Len(s) + 1 /\ t[Len(s) + 1] = f
      /\ \A j \in 1 .. Len(s) : t[j] = s[j]
  BY <1>1, AppendProperties
<1>3. PICK n \in Nat : n = Len(s) /\ DOMAIN s = 1 .. n /\ DOMAIN t = 1 .. n + 1
  BY <1>2, FramesAt
<1>4. /\ m \in [1 .. n -> 1 .. n + 1]
      /\ \A j, k \in 1 .. n : j < k => m[j] < m[k]
      /\ \A k \in 1 .. n : s[k] = t[m[k]]
      /\ \A k \in 1 .. n : m[k] # n + 1
  BY <1>2, <1>3
<1>5. \A j \in 1 .. n + 1 : j # n + 1 => j \in 1 .. n /\ m[j] = j
  BY <1>3
<1> HIDE DEF m
<1>6. LeftOf(s, t, m)
  BY <1>2, <1>3, <1>4 DEF LeftOf
<1>7. GoneFrom(s, t, {n + 1})
  BY <1>3, <1>4, <1>5, <1>6 DEF GoneFrom
<1>8. n + 1 \in DOMAIN t /\ t[n + 1] = f
  BY <1>2, <1>3
<1>9. PayloadOf(s) = PayloadOf(t) - Size(f)
  BY <1>2, <1>7, <1>8, OneGone
<1>10. PayloadOf(t) \in Nat /\ Size(f) \in Nat
  BY <1>2, PayingFinite DEF Size
<1>11. PayloadOf(t) = PayloadOf(s) + Size(f)
  BY <1>9, <1>10
<1>12. QED
  BY <1>1, <1>2, <1>11

\* A discard gives back the input it drops.
LEMMA SurvivorsCount ==
  ASSUME NEW s \in Seq(Frame)
  PROVE  /\ Survivors(s) \in Seq(Frame)
         /\ InputBeforeOpen(s) \in SUBSET DOMAIN s
         /\ GoneFrom(Survivors(s), s, InputBeforeOpen(s))
         /\ Cardinality(InputBeforeOpen(s)) \in Nat
         /\ Cardinality({i \in InputBeforeOpen(s) : Size(s[i]) = 1}) \in Nat
         /\ Len(Survivors(s)) = Len(s) - Cardinality(InputBeforeOpen(s))
         /\ PayloadOf(Survivors(s)) =
              PayloadOf(s) - Cardinality({i \in InputBeforeOpen(s) : Size(s[i]) = 1})
<1>1. PICK t \in Seq(Frame) : t = Survivors(s) /\ GoneFrom(t, s, InputBeforeOpen(s))
  BY SurvivorsLeft
<1>2. PICK G \in SUBSET DOMAIN s : G = InputBeforeOpen(s)
  BY DEF InputBeforeOpen
<1>3. /\ Cardinality(G) \in Nat
      /\ Cardinality({i \in G : Size(s[i]) = 1}) \in Nat
      /\ Len(t) = Len(s) - Cardinality(G)
      /\ PayloadOf(t) = PayloadOf(s) - Cardinality({i \in G : Size(s[i]) = 1})
  BY <1>1, <1>2, LeftCounts
<1>4. QED
  BY <1>1, <1>2, <1>3

-----------------------------------------------------------------------------
(* Retained frames.                                                        *)

\* The kinds that end an invocation or start the next one, of those in a list.
Marks(s) == {k \in {"StdinEof", "Cancel", "Open"} : HasKind(s, k)}

\* What the retention rules admit. The executor tests the length only while an
\* Open is retained; once that Open was popped the frames after it stay, and the
\* two ends of their invocation and one more Open may join them.
RetainedWell(s) ==
  IF BrokerSide THEN Len(s) <= 1
  ELSE \/ HasKind(s, "Open") /\ Len(s) <= FramesPerRequest
       \/ /\ \A i \in 1 .. Len(s) - 1 : s[i].kind # "Open"
          /\ Len(s) <= FramesPerRequest - 1 + Cardinality(Marks(s))

\* There are three kinds of marks.
LEMMA MarksFinite ==
  ASSUME NEW s
  PROVE  IsFiniteSet(Marks(s)) /\ Cardinality(Marks(s)) \in 0 .. 3
<1> DEFINE all == {"StdinEof", "Cancel", "Open"}
<1>1. IsFiniteSet({}) /\ Cardinality({}) = 0
  BY FS_EmptySet
<1>2. IsFiniteSet({} \cup {"StdinEof"}) /\ Cardinality({} \cup {"StdinEof"}) = 1
  BY <1>1, FS_AddElement
<1>3. /\ IsFiniteSet(({} \cup {"StdinEof"}) \cup {"Cancel"})
      /\ Cardinality(({} \cup {"StdinEof"}) \cup {"Cancel"}) = 2
  BY <1>2, FS_AddElement
<1>4. /\ IsFiniteSet((({} \cup {"StdinEof"}) \cup {"Cancel"}) \cup {"Open"})
      /\ Cardinality((({} \cup {"StdinEof"}) \cup {"Cancel"}) \cup {"Open"}) = 3
  BY <1>3, FS_AddElement
<1>5. (({} \cup {"StdinEof"}) \cup {"Cancel"}) \cup {"Open"} = all
  OBVIOUS
<1>6. IsFiniteSet(all) /\ Cardinality(all) = 3
  BY <1>4, <1>5
<1>7. Marks(s) \in SUBSET all
  BY DEF Marks
<1>8. IsFiniteSet(Marks(s)) /\ Cardinality(Marks(s)) <= 3 /\ Cardinality(Marks(s)) \in Nat
  BY <1>6, <1>7, FS_Subset, FS_CardinalityType
<1>9. QED
  BY <1>8

\* Every mark that is gone took a frame with it.
LEMMA MarksGone ==
  ASSUME NEW s \in Seq(Frame), NEW t \in Seq(Frame), NEW G \in SUBSET DOMAIN s,
         GoneFrom(t, s, G)
  PROVE  Cardinality(Marks(s)) <= Cardinality(Marks(t)) + Cardinality(G)
<1>1. PICK m : LeftOf(t, s, m) /\ \A i \in DOMAIN s \ G : \E k \in DOMAIN t : m[k] = i
  BY DEF GoneFrom
<1>2. DOMAIN t = 1 .. Len(t)
  BY FramesAt
<1>3. ASSUME NEW k \in Marks(s) \ Marks(t) PROVE \E i \in G : s[i].kind = k
  <2>1. PICK i \in DOMAIN s : s[i].kind = k
    BY <1>3 DEF Marks, HasKind
  <2>2. SUFFICES ASSUME i \notin G PROVE FALSE
    BY <2>1
  <2>3. PICK j \in DOMAIN t : m[j] = i
    BY <1>1, <2>2
  <2>4. t[j].kind = k
    BY <1>1, <1>2, <2>1, <2>3 DEF LeftOf
  <2>5. QED
    BY <1>3, <2>4 DEF Marks, HasKind
<1> DEFINE taken == [k \in Marks(s) \ Marks(t) |-> CHOOSE i \in G : s[i].kind = k]
<1>4. \A k \in Marks(s) \ Marks(t) : taken[k] \in G /\ s[taken[k]].kind = k
  BY <1>3
<1>5. taken \in [Marks(s) \ Marks(t) -> G]
  BY <1>4
<1> HIDE DEF taken
<1>6. taken \in Injection(Marks(s) \ Marks(t), G)
  BY <1>4, <1>5 DEF Injection, IsInjective
<1>7. IsFiniteSet(G) /\ Cardinality(G) \in Nat
  BY LeftCounts
<1>8. Cardinality(Marks(s) \ Marks(t)) <= Cardinality(G)
  BY <1>6, <1>7, FS_Injection
<1>9. /\ IsFiniteSet(Marks(s)) /\ Cardinality(Marks(s)) \in Nat
      /\ IsFiniteSet(Marks(t)) /\ Cardinality(Marks(t)) \in Nat
  BY MarksFinite
<1>10. Cardinality(Marks(s) \ Marks(t)) = Cardinality(Marks(s)) - Cardinality(Marks(s) \cap Marks(t))
  BY <1>9, FS_Difference
<1>11. /\ Cardinality(Marks(s) \cap Marks(t)) <= Cardinality(Marks(t))
       /\ Cardinality(Marks(s) \cap Marks(t)) \in Nat
  BY <1>9, FS_Intersection, FS_CardinalityType
<1>12. QED
  BY <1>7, <1>8, <1>9, <1>10, <1>11

\* What leaves the retained frames leaves them within the rules.
LEMMA RetainedLeaves ==
  ASSUME NEW s \in Seq(Frame), NEW t \in Seq(Frame), NEW G \in SUBSET DOMAIN s,
         GoneFrom(t, s, G), RetainedWell(s)
  PROVE  RetainedWell(t)
<1>1. /\ DOMAIN s = 1 .. Len(s) /\ Len(s) \in Nat
      /\ DOMAIN t = 1 .. Len(t) /\ Len(t) \in Nat
  BY FramesAt
<1>2. IsFiniteSet(G) /\ Cardinality(G) \in Nat /\ Len(t) = Len(s) - Cardinality(G)
  BY LeftCounts
<1>3. CASE BrokerSide
  BY <1>1, <1>2, <1>3 DEF RetainedWell
<1>4. PICK m : /\ LeftOf(t, s, m)
               /\ \A i \in DOMAIN s \ G : \E k \in DOMAIN t : m[k] = i
  BY DEF GoneFrom
<1>5. /\ m \in [1 .. Len(t) -> 1 .. Len(s)]
      /\ \A j, k \in 1 .. Len(t) : j < k => m[j] < m[k]
      /\ \A k \in 1 .. Len(t) : t[k] = s[m[k]]
  BY <1>4 DEF LeftOf
<1>6. FramesPerRequest \in Nat
  BY InboundAssumption
<1>7. Cardinality(Marks(s)) \in Nat /\ Cardinality(Marks(t)) \in Nat
  BY MarksFinite
<1>8. CASE ~BrokerSide /\ HasKind(s, "Open") /\ Len(s) <= FramesPerRequest
  <2>1. CASE HasKind(t, "Open")
    BY <1>1, <1>2, <1>6, <1>8, <2>1 DEF RetainedWell
  <2>2. CASE ~HasKind(t, "Open")
    <3>1. \A i \in 1 .. Len(t) - 1 : t[i].kind # "Open"
      BY <1>1, <2>2 DEF HasKind
    <3>2. G # {}
      <4>1. PICK i \in DOMAIN s : s[i].kind = "Open"
        BY <1>8 DEF HasKind
      <4>2. SUFFICES ASSUME i \notin G PROVE FALSE
        OBVIOUS
      <4>3. PICK k \in DOMAIN t : m[k] = i
        BY <1>4, <4>2
      <4>4. t[k].kind = "Open"
        BY <1>1, <1>5, <4>1, <4>3
      <4>5. QED
        BY <2>2, <4>4 DEF HasKind
    <3>3. Cardinality(G) # 0
      BY <1>2, <3>2, FS_EmptySet
    <3>4. Len(t) <= FramesPerRequest - 1 + Cardinality(Marks(t))
      BY <1>1, <1>2, <1>6, <1>7, <1>8, <3>3
    <3>5. QED
      BY <1>8, <3>1, <3>4 DEF RetainedWell
  <2>3. QED
    BY <2>1, <2>2
<1>9. CASE /\ ~BrokerSide
           /\ \A i \in 1 .. Len(s) - 1 : s[i].kind # "Open"
           /\ Len(s) <= FramesPerRequest - 1 + Cardinality(Marks(s))
  <2>1. ASSUME NEW i \in 1 .. Len(t) - 1 PROVE t[i].kind # "Open"
    <3>1. i \in 1 .. Len(t) /\ Len(t) \in 1 .. Len(t) /\ i < Len(t)
      BY <1>1
    <3>2. m[i] < m[Len(t)] /\ m[i] \in 1 .. Len(s) /\ m[Len(t)] \in 1 .. Len(s)
      BY <1>5, <3>1
    <3>3. m[i] \in 1 .. Len(s) - 1
      BY <1>1, <3>2
    <3>4. QED
      BY <1>5, <1>9, <3>1, <3>3
  <2>2. Cardinality(Marks(s)) <= Cardinality(Marks(t)) + Cardinality(G)
    BY MarksGone
  <2>3. Len(t) <= FramesPerRequest - 1 + Cardinality(Marks(t))
    BY <1>1, <1>2, <1>6, <1>7, <1>9, <2>2
  <2>4. QED
    BY <1>9, <2>1, <2>3 DEF RetainedWell
<1>10. QED
  BY <1>3, <1>8, <1>9 DEF RetainedWell

\* What the rules let in leaves the retained frames within them.
LEMMA RetainedJoins ==
  ASSUME NEW id \in Id, NEW s \in Seq(Frame), s = retained[id], NEW f \in Frame,
         Retains(id, f), RetainedWell(s)
  PROVE  RetainedWell(Append(s, f))
<1>1. PICK t : t = Append(s, f)
  OBVIOUS
<1>2. /\ t \in Seq(Frame) /\ Len(t) = Len(s) + 1 /\ t[Len(s) + 1] = f
      /\ \A j \in 1 .. Len(s) : t[j] = s[j]
  BY <1>1, AppendProperties
<1>3. /\ DOMAIN s = 1 .. Len(s) /\ Len(s) \in Nat /\ DOMAIN t = 1 .. Len(s) + 1
  BY <1>2, FramesAt
<1>4. FramesPerRequest \in Nat
  BY InboundAssumption
<1>5. CASE BrokerSide
  <2>1. s = <<>>
    BY <1>5 DEF Retains
  <2>2. QED
    BY <1>1, <1>2, <1>5, <2>1, EmptySeq DEF RetainedWell
<1>6. CASE ~BrokerSide /\ HasKind(s, "Open")
  <2>1. Len(s) < FramesPerRequest
    BY <1>6 DEF Retains
  <2>2. HasKind(t, "Open")
    BY <1>2, <1>3, <1>6 DEF HasKind
  <2>3. QED
    BY <1>1, <1>2, <1>3, <1>4, <1>6, <2>1, <2>2 DEF RetainedWell
<1>7. CASE ~BrokerSide /\ ~HasKind(s, "Open")
  <2>1. f.kind \in {"StdinEof", "Cancel", "Open"} /\ ~HasKind(s, f.kind)
    BY <1>7 DEF Retains
  <2>2. Marks(t) = Marks(s) \cup {f.kind} /\ f.kind \notin Marks(s)
    <3>1. \A k : HasKind(t, k) <=> HasKind(s, k) \/ f.kind = k
      BY <1>2, <1>3 DEF HasKind
    <3>2. QED
      BY <2>1, <3>1 DEF Marks
  <2>3. IsFiniteSet(Marks(s)) /\ Cardinality(Marks(s)) \in Nat
    BY MarksFinite
  <2>4. Cardinality(Marks(t)) = Cardinality(Marks(s)) + 1
    BY <2>2, <2>3, FS_AddElement
  <2>5. \A i \in 1 .. Len(t) - 1 : t[i].kind # "Open"
    BY <1>2, <1>3, <1>7 DEF HasKind
  <2>6. Len(s) <= FramesPerRequest - 1 + Cardinality(Marks(s))
    BY <1>7 DEF RetainedWell
  <2>7. Len(t) <= FramesPerRequest - 1 + Cardinality(Marks(t))
    BY <1>2, <1>3, <1>4, <2>3, <2>4, <2>6
  <2>8. QED
    BY <1>1, <1>7, <2>5, <2>7 DEF RetainedWell
<1>8. QED
  BY <1>5, <1>6, <1>7

\* The rules bound the retained frames.
LEMMA RetainedBounded ==
  ASSUME NEW s \in Seq(Frame), RetainedWell(s)
  PROVE  Len(s) <= IF BrokerSide THEN 1 ELSE FramesPerRequest + 2
<1>1. Len(s) \in Nat /\ FramesPerRequest \in Nat /\ Cardinality(Marks(s)) \in 0 .. 3
  BY InboundAssumption, LenProperties, MarksFinite
<1>2. QED
  BY <1>1 DEF RetainedWell

-----------------------------------------------------------------------------
(* The limits, one critical section at a time.                             *)

\* A critical section that gives the accepted frames of c another form, and
\* changes every counter by what it added or took.
Recounts(c) ==
  \E t \in Seq(Frame), a, b \in Int :
    /\ Len(t) = Len(events[c]) + a /\ PayloadOf(t) = PayloadOf(events[c]) + b
    /\ events' = [events EXCEPT ![c] = t]
    /\ frames' = [frames EXCEPT ![c] = @ + a]
    /\ bytes' = [bytes EXCEPT ![c] = @ + b]
    /\ totalFrames' = totalFrames + a
    /\ totalBytes' = totalBytes + b
    /\ a <= 0 \/ (totalFrames + a <= FramesTotal /\ frames[c] + a <= FramesPerRequest)
    /\ b <= 0 \/ (totalBytes + b <= BytesTotal /\ bytes[c] + b <= BytesPerRequest)

\* It leaves the accepted frames and their counters alone.
CountsAlone == UNCHANGED <<events, frames, bytes, totalFrames, totalBytes>>

\* The retained frames of every request are within the rules.
RetainedOK == \A id \in Id : RetainedWell(retained[id])

\* No request gets an entry of the map.
NobodyNew == \A id \in Id : mode[id] = "absent" => mode'[id] = "absent"

\* The map has an entry for this request, or room for it.
OnlyNew(id) ==
  /\ Admits(id)
  /\ \A x \in Id \ {id} : mode[x] = "absent" => mode'[x] = "absent"

\* The retained frames of one request lost some of their number.
LEMMA RetainedShrink ==
  ASSUME QInv, RetainedOK, NEW c \in Id, NEW t \in Seq(Frame), NEW G \in SUBSET DOMAIN retained[c],
         GoneFrom(t, retained[c], G), retained' = [retained EXCEPT ![c] = t]
  PROVE  RetainedOK'
<1>1. retained \in [Id -> Seq(Frame)]
  BY DEF QInv, QueueTypeOK
<1>2. PICK s \in Seq(Frame) : s = retained[c]
  BY <1>1
<1>3. RetainedWell(t)
  BY <1>2, RetainedLeaves DEF RetainedOK
<1>4. ASSUME NEW id \in Id PROVE RetainedWell(retained'[id])
  BY <1>1, <1>3 DEF RetainedOK
<1>5. QED
  BY <1>4 DEF RetainedOK, RetainedWell, Marks, HasKind

\* enqueue of a frame within the limits.
LEMMA EnqueueRequestLimits ==
  ASSUME QInv, NEW id \in Id, NEW f \in Frame, EnqueueRequest(id, f),
         RetainedOK, totalFrames <= FramesTotal, frames[id] <= FramesPerRequest
  PROVE  Recounts(id) /\ RetainedOK' /\ OnlyNew(id) /\ UNCHANGED control
<1>1. /\ events \in [Id -> Seq(Frame)] /\ mode \in [Id -> Mode]
      /\ frames \in [Id -> Int] /\ bytes \in [Id -> Int]
      /\ totalFrames \in Int /\ totalBytes \in Int
  BY DEF QInv, QueueTypeOK
<1>2. /\ Admits(id) /\ ~Overflows(id, f)
      /\ mode' = [mode EXCEPT ![id] = "normal"]
      /\ events' = [events EXCEPT ![id] = Append(@, f)]
      /\ frames' = [frames EXCEPT ![id] = @ + 1]
      /\ bytes' = [bytes EXCEPT ![id] = @ + Size(f)]
      /\ totalFrames' = totalFrames + 1
      /\ totalBytes' = totalBytes + Size(f)
      /\ UNCHANGED <<control, retained>>
  BY DEF EnqueueRequest
<1>3. PICK z \in {0, 1} : z = Size(f)
  BY DEF Size
<1>4. /\ FramesTotal \in Int /\ FramesPerRequest \in Int
      /\ BytesTotal \in Int /\ BytesPerRequest \in Int
  BY InboundAssumption
<1>5. PICK t \in Seq(Frame) :
        /\ t = Append(events[id], f) /\ Len(t) = Len(events[id]) + 1
        /\ PayloadOf(t) = PayloadOf(events[id]) + z
  BY <1>1, <1>3, AppendGone
<1>6. /\ totalFrames # FramesTotal /\ ~(totalBytes + z > BytesTotal)
      /\ frames[id] # FramesPerRequest /\ ~(bytes[id] + z > BytesPerRequest)
  BY <1>2, <1>3 DEF Overflows
<1>7. /\ totalFrames + 1 <= FramesTotal /\ frames[id] + 1 <= FramesPerRequest
      /\ totalBytes + z <= BytesTotal /\ bytes[id] + z <= BytesPerRequest
  BY <1>1, <1>4, <1>6
<1>8. Recounts(id)
  <2>1. /\ events' = [events EXCEPT ![id] = t]
        /\ bytes' = [bytes EXCEPT ![id] = @ + z]
        /\ totalBytes' = totalBytes + z
    BY <1>2, <1>3, <1>5
  <2>2. 1 \in Int /\ z \in Int
    OBVIOUS
  <2>3. QED
    BY <1>2, <1>5, <1>7, <2>1, <2>2 DEF Recounts
<1>9. RetainedOK'
  BY <1>2 DEF RetainedOK, RetainedWell, Marks, HasKind
<1>10. OnlyNew(id)
  BY <1>1, <1>2 DEF OnlyNew
<1>11. QED
  BY <1>2, <1>8, <1>9, <1>10

\* enqueue of a frame that exceeds a limit.
LEMMA EnqueueOverflowLimits ==
  ASSUME QInv, NEW id \in Id, NEW f \in Frame, NEW budgetFull \in BOOLEAN,
         EnqueueOverflow(id, f, budgetFull), RetainedOK
  PROVE  CountsAlone /\ RetainedOK' /\ OnlyNew(id) /\ UNCHANGED control
<1>1. /\ retained \in [Id -> Seq(Frame)] /\ mode \in [Id -> Mode]
  BY DEF QInv, QueueTypeOK
<1>2. /\ Admits(id)
      /\ mode' = [mode EXCEPT ![id] = IF mode[id] \in {"absent", "normal"} THEN "overloaded" ELSE @]
      /\ retained' = [retained EXCEPT ![id] = IF Retains(id, f) THEN Append(@, f) ELSE @]
      /\ UNCHANGED <<control, events, frames, bytes, totalFrames, totalBytes>>
  BY DEF EnqueueOverflow
<1>3. PICK s \in Seq(Frame) : s = retained[id]
  BY <1>1
<1>4. PICK t : t = IF Retains(id, f) THEN Append(s, f) ELSE s
  OBVIOUS
<1>5. RetainedWell(t)
  <2>1. RetainedWell(s)
    BY <1>3 DEF RetainedOK
  <2>2. QED
    BY <1>3, <1>4, <2>1, RetainedJoins
<1>6. ASSUME NEW x \in Id PROVE RetainedWell(retained'[x])
  BY <1>1, <1>2, <1>3, <1>4, <1>5 DEF RetainedOK
<1>7. RetainedOK'
  BY <1>6 DEF RetainedOK, RetainedWell, Marks, HasKind
<1>8. OnlyNew(id)
  BY <1>1, <1>2 DEF OnlyNew
<1>9. QED
  BY <1>2, <1>7, <1>8 DEF CountsAlone

\* A Cancel is popped out of its turn.
LEMMA PopCancelLimits ==
  ASSUME QInv, NEW c \in Id, NEW f, PopCancel(c, f), RetainedOK
  PROVE  (Recounts(c) \/ CountsAlone) /\ RetainedOK' /\ NobodyNew /\ UNCHANGED control
<1>1. /\ events \in [Id -> Seq(Frame)] /\ retained \in [Id -> Seq(Frame)]
      /\ mode \in [Id -> Mode] /\ frames \in [Id -> Int] /\ bytes \in [Id -> Int]
      /\ totalFrames \in Int /\ totalBytes \in Int
  BY DEF QInv, QueueTypeOK
<1>2. NobodyNew /\ UNCHANGED <<control, bytes, totalBytes>>
  BY <1>1 DEF PopCancel, NobodyNew
<1>3. CASE \E i \in DOMAIN events[c] :
             /\ events[c][i].kind = "Cancel"
             /\ events' = [events EXCEPT ![c] = Drop(@, i)]
             /\ frames' = [frames EXCEPT ![c] = @ - 1]
             /\ totalFrames' = totalFrames - 1
             /\ UNCHANGED retained
  <2>1. PICK i \in DOMAIN events[c] :
             /\ events[c][i].kind = "Cancel"
             /\ events' = [events EXCEPT ![c] = Drop(@, i)]
             /\ frames' = [frames EXCEPT ![c] = @ - 1]
             /\ totalFrames' = totalFrames - 1
             /\ UNCHANGED retained
    BY <1>3
  <2>2. PICK s \in Seq(Frame) : s = events[c]
    BY <1>1
  <2>3. PICK t \in Seq(Frame) : t = Drop(s, i) /\ GoneFrom(t, s, {i})
    BY <2>1, <2>2, DropGone
  <2>4. Len(t) = Len(s) - 1 /\ PayloadOf(t) = PayloadOf(s) - Size(s[i]) /\ Size(s[i]) = 0
    BY <2>1, <2>2, <2>3, OneGone DEF Size
  <2>5. Len(s) \in Nat /\ PayloadOf(s) \in Nat
    BY LenProperties, PayingFinite
  <2>6. Len(t) = Len(events[c]) + (-1) /\ PayloadOf(t) = PayloadOf(events[c]) + 0
    BY <2>2, <2>4, <2>5
  <2>7. /\ events' = [events EXCEPT ![c] = t]
        /\ frames' = [frames EXCEPT ![c] = @ + (-1)]
        /\ bytes' = [bytes EXCEPT ![c] = @ + 0]
        /\ totalFrames' = totalFrames + (-1)
        /\ totalBytes' = totalBytes + 0
    <3>1. events' = [events EXCEPT ![c] = t]
      BY <2>1, <2>2, <2>3
    <3>2. /\ frames' = [frames EXCEPT ![c] = @ + (-1)]
          /\ totalFrames' = totalFrames + (-1)
      BY <1>1, <2>1
    <3>3. bytes' = [bytes EXCEPT ![c] = @ + 0]
      BY <1>1, <1>2
    <3>4. totalBytes' = totalBytes + 0
      BY <1>1, <1>2
    <3>5. QED
      BY <3>1, <3>2, <3>3, <3>4
  <2>8. -1 \in Int /\ 0 \in Int /\ -1 <= 0 /\ 0 <= 0
    OBVIOUS
  <2>9. Recounts(c)
    BY <2>6, <2>7, <2>8 DEF Recounts
  <2>10. RetainedOK'
    BY <2>1 DEF RetainedOK, RetainedWell, Marks, HasKind
  <2>11. QED
    BY <1>2, <2>9, <2>10
<1>4. CASE \E i \in DOMAIN retained[c] :
             /\ retained' = [retained EXCEPT ![c] = Drop(@, i)]
             /\ UNCHANGED <<events, frames, totalFrames>>
  <2>1. PICK i \in DOMAIN retained[c] :
             /\ retained' = [retained EXCEPT ![c] = Drop(@, i)]
             /\ UNCHANGED <<events, frames, totalFrames>>
    BY <1>4
  <2>2. PICK t \in Seq(Frame) : t = Drop(retained[c], i) /\ GoneFrom(t, retained[c], {i})
    BY <1>1, <2>1, DropGone
  <2>3. {i} \in SUBSET DOMAIN retained[c] /\ retained' = [retained EXCEPT ![c] = t]
    BY <2>1, <2>2
  <2>4. RetainedOK'
    BY <2>2, <2>3, RetainedShrink
  <2>5. QED
    BY <1>2, <2>1, <2>4 DEF CountsAlone
<1>5. QED
  BY <1>3, <1>4 DEF PopCancel, IsFirst

\* The announcement of an overload admits nobody.
LEMMA AnnounceNew ==
  ASSUME NEW id \in Id, NEW ev, NEW rd, Announce(id, ev, rd), QInv
  PROVE  NobodyNew
<1>1. mode \in [Id -> Mode] /\ overload \in Seq(Id)
  BY DEF QInv, QueueTypeOK
<1>2. mode[id] # "absent"
  <2>1. id \in At(overload)
    BY DEF Announce, IsFirst, At
  <2>2. QED
    BY <2>1 DEF QInv, IndexExact
<1>3. QED
  BY <1>1, <1>2 DEF Announce, NobodyNew

\* The queue of a cancelled request is drained before its overload.
LEMMA PopCancelOverloadedLimits ==
  ASSUME QInv, NEW c \in Id, NEW id \in Id, PopCancelOverloaded(c, id), RetainedOK
  PROVE  Recounts(c) /\ RetainedOK' /\ NobodyNew /\ UNCHANGED control
<1>1. /\ events \in [Id -> Seq(Frame)]
      /\ frames \in [Id -> Int] /\ bytes \in [Id -> Int]
      /\ totalFrames \in Int /\ totalBytes \in Int
  BY DEF QInv, QueueTypeOK
<1>2. PICK s \in Seq(Frame) : s = events[c]
  BY <1>1
<1>3. PICK n, p \in Nat : n = Len(s) /\ p = PayloadOf(s)
  BY LenProperties, PayingFinite
<1>4. /\ events' = [events EXCEPT ![c] = <<>>]
      /\ frames' = [frames EXCEPT ![c] = @ - n]
      /\ bytes' = [bytes EXCEPT ![c] = @ - p]
      /\ totalFrames' = totalFrames - n
      /\ totalBytes' = totalBytes - p
      /\ UNCHANGED <<control, retained>>
  BY <1>2, <1>3 DEF PopCancelOverloaded
<1>5. <<>> \in Seq(Frame) /\ Len(<<>>) = 0 /\ PayloadOf(<<>>) = 0
  <2>1. {i \in DOMAIN <<>> : Size(<<>>[i]) = 1} = {}
    OBVIOUS
  <2>2. QED
    BY <2>1, EmptySeq, FS_EmptySet DEF PayloadOf
<1>6. PICK t \in Seq(Frame) : t = <<>> /\ Len(t) = 0 /\ PayloadOf(t) = 0
  BY <1>5
<1>7. Len(t) = Len(events[c]) + (-n) /\ PayloadOf(t) = PayloadOf(events[c]) + (-p)
  BY <1>2, <1>3, <1>6
<1>8. /\ events' = [events EXCEPT ![c] = t]
      /\ frames' = [frames EXCEPT ![c] = @ + (-n)]
      /\ bytes' = [bytes EXCEPT ![c] = @ + (-p)]
      /\ totalFrames' = totalFrames + (-n)
      /\ totalBytes' = totalBytes + (-p)
  BY <1>1, <1>4, <1>6
<1>9. -n \in Int /\ -p \in Int /\ -n <= 0 /\ -p <= 0
  BY <1>3
<1>10. Recounts(c)
  BY <1>7, <1>8, <1>9 DEF Recounts
<1>11. RetainedOK'
  BY <1>4 DEF RetainedOK, RetainedWell, Marks, HasKind
<1>12. NobodyNew
  <2>1. Announce(id, events', Without(ready, c))
    BY DEF PopCancelOverloaded
  <2>2. QED
    BY <2>1, AnnounceNew
<1>13. QED
  BY <1>4, <1>10, <1>11, <1>12

LEMMA PopOverloadLimits ==
  ASSUME QInv, NEW id \in Id, PopOverload(id), RetainedOK
  PROVE  CountsAlone /\ RetainedOK' /\ NobodyNew /\ UNCHANGED control
<1>1. /\ Announce(id, events, ready)
      /\ UNCHANGED <<control, events, retained, frames, bytes, totalFrames, totalBytes>>
  BY DEF PopOverload
<1>2. NobodyNew
  BY <1>1, AnnounceNew
<1>3. RetainedOK'
  BY <1>1 DEF RetainedOK, RetainedWell, Marks, HasKind
<1>4. QED
  BY <1>1, <1>2, <1>3 DEF CountsAlone

\* A frame is popped in turn.
LEMMA PopReadyLimits ==
  ASSUME QInv, NEW id \in Id, NEW f, NEW gate, PopReady(id, f, gate), RetainedOK
  PROVE  (Recounts(id) \/ CountsAlone) /\ RetainedOK' /\ NobodyNew /\ UNCHANGED control
<1>1. /\ events \in [Id -> Seq(Frame)] /\ retained \in [Id -> Seq(Frame)]
      /\ mode \in [Id -> Mode] /\ frames \in [Id -> Int] /\ bytes \in [Id -> Int]
      /\ totalFrames \in Int /\ totalBytes \in Int
  BY DEF QInv, QueueTypeOK
<1>2. /\ UNCHANGED control
      /\ LET late == FromRetained(id)
             from == IF late THEN retained[id] ELSE events[id]
         IN /\ from # <<>>
            /\ f = Head(from)
            /\ IF late
               THEN /\ retained' = [retained EXCEPT ![id] = Tail(@)]
                    /\ UNCHANGED <<events, frames, bytes, totalFrames, totalBytes>>
               ELSE /\ events' = [events EXCEPT ![id] = Tail(@)]
                    /\ frames' = [frames EXCEPT ![id] = @ - 1]
                    /\ bytes' = [bytes EXCEPT ![id] = @ - Size(f)]
                    /\ totalFrames' = totalFrames - 1
                    /\ totalBytes' = totalBytes - Size(f)
                    /\ UNCHANGED retained
  BY DEF PopReady
<1>3. NobodyNew
  <2>1. \E left, late : mode' = [mode EXCEPT ![id] =
                  IF ~left /\ (@ = "normal" \/ (@ = "announced" /\ late))
                  THEN "absent" ELSE @]
    BY DEF PopReady
  <2>2. QED
    BY <1>1, <2>1 DEF NobodyNew
<1>4. CASE FromRetained(id)
  <2>1. /\ retained[id] # <<>>
        /\ retained' = [retained EXCEPT ![id] = Tail(@)]
        /\ UNCHANGED <<events, frames, bytes, totalFrames, totalBytes>>
    BY <1>2, <1>4
  <2>2. PICK t \in Seq(Frame) : /\ t = Tail(retained[id])
                                /\ 1 \in DOMAIN retained[id] /\ GoneFrom(t, retained[id], {1})
    BY <1>1, <2>1, TailGone
  <2>3. {1} \in SUBSET DOMAIN retained[id] /\ retained' = [retained EXCEPT ![id] = t]
    BY <2>1, <2>2
  <2>4. RetainedOK'
    BY <2>2, <2>3, RetainedShrink
  <2>5. QED
    BY <1>2, <1>3, <2>1, <2>4 DEF CountsAlone
<1>5. CASE ~FromRetained(id)
  <2>1. /\ events[id] # <<>> /\ f = Head(events[id])
        /\ events' = [events EXCEPT ![id] = Tail(@)]
        /\ frames' = [frames EXCEPT ![id] = @ - 1]
        /\ bytes' = [bytes EXCEPT ![id] = @ - Size(f)]
        /\ totalFrames' = totalFrames - 1
        /\ totalBytes' = totalBytes - Size(f)
        /\ UNCHANGED retained
    BY <1>2, <1>5
  <2>2. PICK s \in Seq(Frame) : s = events[id] /\ s # <<>>
    BY <1>1, <2>1
  <2>3. PICK t \in Seq(Frame) : /\ t = Tail(s) /\ 1 \in DOMAIN s /\ Head(s) = s[1]
                                /\ GoneFrom(t, s, {1})
    BY <2>2, TailGone
  <2>4. PICK z \in {0, 1} : z = Size(f)
    BY DEF Size
  <2>5. Len(t) = Len(s) - 1 /\ PayloadOf(t) = PayloadOf(s) - z
    <3>1. Len(t) = Len(s) - 1 /\ PayloadOf(t) = PayloadOf(s) - Size(s[1])
      BY <2>3, OneGone
    <3>2. z = Size(s[1])
      BY <2>1, <2>2, <2>3, <2>4
    <3>3. QED
      BY <3>1, <3>2
  <2>6. Len(s) \in Nat /\ PayloadOf(s) \in Nat
    BY LenProperties, PayingFinite
  <2>7. Len(t) = Len(events[id]) + (-1) /\ PayloadOf(t) = PayloadOf(events[id]) + (-z)
    BY <2>2, <2>4, <2>5, <2>6
  <2>8. /\ events' = [events EXCEPT ![id] = t]
        /\ frames' = [frames EXCEPT ![id] = @ + (-1)]
        /\ bytes' = [bytes EXCEPT ![id] = @ + (-z)]
        /\ totalFrames' = totalFrames + (-1)
        /\ totalBytes' = totalBytes + (-z)
    BY <1>1, <2>1, <2>2, <2>3, <2>4
  <2>9. -1 \in Int /\ -z \in Int /\ -1 <= 0 /\ -z <= 0
    BY <2>4
  <2>10. Recounts(id)
    BY <2>7, <2>8, <2>9 DEF Recounts
  <2>11. RetainedOK'
    BY <2>1 DEF RetainedOK, RetainedWell, Marks, HasKind
  <2>12. QED
    BY <1>2, <1>3, <2>10, <2>11
<1>6. QED
  BY <1>4, <1>5

\* A discard gives back what it drops.
LEMMA DiscardLimits ==
  ASSUME QInv, NEW id \in Id, DiscardRequestInput(id), RetainedOK
  PROVE  Recounts(id) /\ RetainedOK' /\ NobodyNew /\ UNCHANGED control
<1>1. /\ events \in [Id -> Seq(Frame)] /\ retained \in [Id -> Seq(Frame)]
      /\ mode \in [Id -> Mode] /\ frames \in [Id -> Int] /\ bytes \in [Id -> Int]
      /\ totalFrames \in Int /\ totalBytes \in Int
  BY DEF QInv, QueueTypeOK
<1>2. PICK s \in Seq(Frame) : s = events[id]
  BY <1>1
<1>3. PICK t \in Seq(Frame), n \in Nat, z \in Nat :
        /\ t = Survivors(s) /\ n = Cardinality(InputBeforeOpen(s))
        /\ z = Cardinality({i \in InputBeforeOpen(s) : Size(s[i]) = 1})
        /\ Len(t) = Len(s) - n /\ PayloadOf(t) = PayloadOf(s) - z
  BY SurvivorsCount
<1>4. PICK r \in Seq(Frame), G \in SUBSET DOMAIN retained[id] :
        r = Survivors(retained[id]) /\ GoneFrom(r, retained[id], G)
  BY <1>1, SurvivorsCount
<1>5. /\ events' = [events EXCEPT ![id] = t]
      /\ retained' = [retained EXCEPT ![id] = r]
      /\ frames' = [frames EXCEPT ![id] = @ - n]
      /\ bytes' = [bytes EXCEPT ![id] = @ - z]
      /\ totalFrames' = totalFrames - n
      /\ totalBytes' = totalBytes - z
      /\ UNCHANGED control
  BY <1>2, <1>3, <1>4 DEF DiscardRequestInput
<1>6. NobodyNew
  <2>1. mode[id] # "absent" /\ \E w : mode' = [mode EXCEPT ![id] = w]
    BY DEF DiscardRequestInput
  <2>2. QED
    BY <1>1, <2>1 DEF NobodyNew
<1>7. Len(s) \in Nat /\ PayloadOf(s) \in Nat
  BY LenProperties, PayingFinite
<1>8. Len(t) = Len(events[id]) + (-n) /\ PayloadOf(t) = PayloadOf(events[id]) + (-z)
  BY <1>2, <1>3, <1>7
<1>9. /\ frames' = [frames EXCEPT ![id] = @ + (-n)]
      /\ bytes' = [bytes EXCEPT ![id] = @ + (-z)]
      /\ totalFrames' = totalFrames + (-n)
      /\ totalBytes' = totalBytes + (-z)
  BY <1>1, <1>5
<1>10. -n \in Int /\ -z \in Int /\ -n <= 0 /\ -z <= 0
  OBVIOUS
<1>11. Recounts(id)
  BY <1>5, <1>8, <1>9, <1>10 DEF Recounts
<1>12. RetainedOK'
  BY <1>4, <1>5, RetainedShrink
<1>13. QED
  BY <1>5, <1>6, <1>11, <1>12

=============================================================================
