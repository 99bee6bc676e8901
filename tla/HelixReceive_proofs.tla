------------------------ MODULE HelixReceive_proofs -------------------------
(***************************************************************************)
(* Proofs about the receive path, for any finite set of buses, any         *)
(* channels, queue size, number of records and size of messages, with      *)
(* buses that are dropped and connections that are lost, or without.       *)
(***************************************************************************)
EXTENDS HelixReceive, FiniteSetTheorems, SequenceTheorems, TLAPS

-----------------------------------------------------------------------------
(* Type correctness. *)

\* A record of a message, as in TypeOK.
Records == [channel : Kinds, n : 1..MaxRecords]

\* The record that the walk takes off, and those behind it.
LEMMA TailOfBatch ==
  ASSUME TypeOK, batch # <<>>
  PROVE  /\ Head(batch) = batch[1] /\ Head(batch) \in Records
         /\ Tail(batch) \in Seq(Records)
         /\ Len(batch) \in Nat \ {0} /\ Len(Tail(batch)) = Len(batch) - 1
         /\ \A i \in 1..Len(Tail(batch)) : Tail(batch)[i] = batch[i + 1]
<1>1. batch \in Seq(Records)
  BY DEF TypeOK, Records
<1> QED
  BY <1>1, HeadTailProperties, EmptySeq

\* The message of Receive: its records are numbered on from the last one sent.
LEMMA Arrival ==
  ASSUME TypeOK, Receive
  PROVE  \E message \in Seq(Records) :
           /\ sent' = sent + Len(message) /\ Len(message) \in Nat
           /\ \A i \in 1..Len(message) : message[i].n = sent + i
           /\ \/ /\ batch' = message /\ wpc' = "walk"
                 /\ due' = [b \in Buses |-> IF bpc[b] = "up" THEN due[b] \cup Owed(message, b)
                                            ELSE due[b]]
              \/ UNCHANGED <<batch, wpc, due>>
<1>1. PICK len \in 1..MaxBatch : \E kinds \in [1..len -> Kinds] :
         LET m == [i \in 1..len |-> [channel |-> kinds[i], n |-> sent + i]]
         IN  /\ sent + len <= MaxRecords /\ sent' = sent + len
             /\ \/ /\ batch' = m /\ wpc' = "walk"
                   /\ due' = [b \in Buses |-> IF bpc[b] = "up" THEN due[b] \cup Owed(m, b)
                                              ELSE due[b]]
                \/ UNCHANGED <<batch, wpc, due>>
  BY DEF Receive
<1>2. PICK kinds \in [1..len -> Kinds] :
         LET m == [i \in 1..len |-> [channel |-> kinds[i], n |-> sent + i]]
         IN  /\ sent + len <= MaxRecords /\ sent' = sent + len
             /\ \/ /\ batch' = m /\ wpc' = "walk"
                   /\ due' = [b \in Buses |-> IF bpc[b] = "up" THEN due[b] \cup Owed(m, b)
                                              ELSE due[b]]
                \/ UNCHANGED <<batch, wpc, due>>
  BY <1>1
<1> DEFINE message == [i \in 1..len |-> [channel |-> kinds[i], n |-> sent + i]]
<1>3. sent \in Nat /\ len \in Nat /\ MaxRecords \in Nat
  BY ReceiveAssumption DEF TypeOK
<1>4. \A i \in 1..len : [channel |-> kinds[i], n |-> sent + i] \in Records
  BY <1>2, <1>3 DEF Records
<1>5. message \in [1..len -> Records]
  BY <1>4
<1>6. message \in Seq(Records) /\ Len(message) = len
  BY <1>3, <1>5, SeqDef
<1>7. \A i \in 1..len : message[i].n = sent + i
  OBVIOUS
<1> QED
  BY <1>2, <1>3, <1>6, <1>7

\* A record that the walk takes off takes no frame with it but its own, and a record
\* that is cut off has no frame behind it that is owed.
LEMMA OwedTail ==
  ASSUME TypeOK, batch # <<>>, NEW b \in Buses
  PROVE  /\ Owed(batch, b) \subseteq Owed(Tail(batch), b) \cup {Head(batch)}
         /\ Head(batch) \in Owed(batch, b) =>
              Head(batch).channel \in Channels /\ ChannelOf[b] \in {Head(batch).channel, ALL}
         /\ Head(batch).channel = "cut" => Owed(batch, b) = {}
<1>1. /\ Head(batch) = batch[1] /\ Len(batch) \in Nat \ {0}
      /\ Len(Tail(batch)) = Len(batch) - 1
      /\ \A i \in 1..Len(Tail(batch)) : Tail(batch)[i] = batch[i + 1]
  BY TailOfBatch
<1>2. DOMAIN batch = 1..Len(batch) /\ DOMAIN Tail(batch) = 1..Len(batch) - 1
  BY <1>1, TailOfBatch, LenProperties DEF TypeOK
<1>3. ASSUME NEW f \in Owed(batch, b)
      PROVE  f \in Owed(Tail(batch), b) \cup {Head(batch)} /\ Head(batch).channel # "cut"
  <2>1. PICK i \in 1..Len(batch) :
          /\ f = batch[i] /\ \A k \in 1..i : batch[k].channel # "cut"
          /\ f.channel \in Channels /\ ChannelOf[b] \in {f.channel, ALL}
    BY <1>2 DEF Owed
  <2>2. CASE i = 1
    BY <1>1, <2>1, <2>2
  <2>3. CASE i # 1
    <3>1. i - 1 \in 1..Len(Tail(batch)) /\ f = Tail(batch)[i - 1]
      BY <1>1, <2>1, <2>3
    <3>2. \A k \in 1..(i - 1) : Tail(batch)[k].channel # "cut"
      BY <1>1, <2>1, <3>1
    <3>3. f \in Owed(Tail(batch), b)
      BY <1>1, <1>2, <2>1, <3>1, <3>2 DEF Owed
    <3> QED
      BY <1>1, <2>1, <3>3
  <2> QED
    BY <2>2, <2>3
<1> QED
  BY <1>3 DEF Owed

\* An empty message owes nothing.
LEMMA OwedNothing == \A b \in Buses : Owed(<<>>, b) = {}
BY DEF Owed

\* What a message owes to a bus are CAN frames.
LEMMA OwedType ==
  ASSUME NEW message \in Seq(Records), NEW b \in Buses
  PROVE  Owed(message, b) \subseteq Frames
<1> SUFFICES ASSUME NEW f \in Owed(message, b) PROVE f \in Frames
  OBVIOUS
<1>1. PICK i \in DOMAIN message : f = message[i] /\ f.channel \in Channels
  BY DEF Owed
<1>2. message[i] \in Records
  BY LenProperties, ElementOfSeq
<1> QED
  BY <1>1, <1>2 DEF Records, Frames

\* The types hold at the start.
LEMMA TypeInit ==
  ASSUME Init
  PROVE  TypeOK
BY ReceiveAssumption DEF Init, TypeOK

\* The types are inductive: put_nowait checks the bound of a queue before it adds.
LEMMA TypeStep ==
  ASSUME TypeOK, [Next]_vars
  PROVE  TypeOK'
<1> USE ReceiveAssumption DEF wsVars, busVars, readerVars
<1>1. CASE Receive
  <2>1. PICK message \in Seq(Records) :
           \/ /\ batch' = message /\ wpc' = "walk"
              /\ due' = [b \in Buses |-> IF bpc[b] = "up" THEN due[b] \cup Owed(message, b)
                                         ELSE due[b]]
           \/ UNCHANGED <<batch, wpc, due>>
    BY <1>1, Arrival
  <2>3. \A b \in Buses : Owed(message, b) \subseteq Frames
    BY OwedType
  <2>4. sent' \in Nat
    BY <1>1, Arrival DEF TypeOK
  <2>5. batch' \in Seq(Records) /\ wpc' \in {"read", "walk"}
    BY <1>1, <2>1 DEF TypeOK, Records, Receive
  <2>6. due' \in [Buses -> SUBSET Frames]
    <3>1. \A b \in Buses : due[b] \cup Owed(message, b) \in SUBSET Frames
      BY <2>3 DEF TypeOK
    <3> QED
      BY <2>1, <3>1 DEF TypeOK
  <2> QED
    BY <1>1, <2>4, <2>5, <2>6 DEF TypeOK, Receive, Records
<1>2. CASE Walk
  <2>1. batch' = batch \/ batch' = <<>> \/ (batch # <<>> /\ batch' = Tail(batch))
    BY <1>2 DEF Walk, Rest
  <2>2. batch' \in Seq(Records)
    <3>1. batch \in Seq(Records) /\ <<>> \in Seq(Records)
      BY EmptySeq DEF TypeOK, Records
    <3> QED
      BY <2>1, <3>1, TailOfBatch
  <2> QED
    BY <1>2, <2>2 DEF TypeOK, Walk, Records
<1>3. CASE StartDispatch
  <2>1. frame' = Head(batch) /\ batch' = Tail(batch) /\ frame'.channel \in Channels
    BY <1>3 DEF StartDispatch
  <2>2. batch' \in Seq(Records) /\ frame' \in Frames
    BY <1>3, <2>1, TailOfBatch DEF StartDispatch, Records, Frames
  <2>3. todo' \subseteq Buses
    BY <1>3 DEF TypeOK, StartDispatch, FirstSet
  <2>4. offered' \in [Buses -> SUBSET Frames]
    BY <1>3, <2>1, <2>2 DEF TypeOK, StartDispatch
  <2> QED
    BY <1>3, <2>2, <2>3, <2>4 DEF TypeOK, StartDispatch, Records
<1>4. ASSUME NEW b \in Buses, Dereference(b) PROVE TypeOK'
  BY <1>4 DEF TypeOK, Dereference
<1>5. ASSUME NEW b \in Buses, Put(b) PROVE TypeOK'
  <2>1. frame \in Frames
    BY <1>5 DEF TypeOK, Put
  <2>2. CASE QueueFull(b)
    BY <1>5, <2>2 DEF TypeOK, Put, CountDrop
  <2>3. CASE ~QueueFull(b)
    <3>1. queue[b] \in Seq(Frames) /\ queue' = [queue EXCEPT ![b] = Append(queue[b], frame)]
      BY <1>5, <2>3 DEF TypeOK, Put
    <3>2. /\ Append(queue[b], frame) \in Seq(Frames)
          /\ Len(Append(queue[b], frame)) = Len(queue[b]) + 1 /\ Len(queue[b]) \in Nat
      BY <2>1, <3>1, AppendProperties, LenProperties
    <3>3. Len(queue[b]) < QueueSize
      BY <2>3, <3>2 DEF QueueFull
    <3>4. Len(Append(queue[b], frame)) <= QueueSize
      BY <3>2, <3>3
    <3>5. queue' \in [Buses -> Seq(Frames)] /\ \A x \in Buses : Len(queue'[x]) <= QueueSize
      BY <3>1, <3>2, <3>4 DEF TypeOK
    <3> QED
      BY <1>5, <2>3, <3>5 DEF TypeOK, Put
  <2> QED
    BY <2>2, <2>3
<1>6. ASSUME NEW b \in Buses, FinalizeHere(b) PROVE TypeOK'
  BY <1>6 DEF TypeOK, FinalizeHere
<1>7. CASE EndLoop
  <2>1. subscribers' \in [Channels \cup {ALL} -> SUBSET Buses]
    BY <1>7 DEF TypeOK, EndLoop
  <2>2. todo' \subseteq Buses
    BY <1>7 DEF TypeOK, EndLoop, SecondSet
  <2> QED
    BY <1>7, <2>1, <2>2 DEF TypeOK, EndLoop
<1>8. CASE Lose
  BY <1>8 DEF TypeOK, Lose
<1>9. ASSUME NEW b \in Buses, Subscribe(b) PROVE TypeOK'
  BY <1>9 DEF TypeOK, Subscribe
<1>10. ASSUME NEW b \in Buses, Shutdown(b) PROVE TypeOK'
  BY <1>10 DEF TypeOK, Shutdown
<1>11. ASSUME NEW b \in Buses, DropBus(b) PROVE TypeOK'
  BY <1>11 DEF TypeOK, DropBus
<1>12. ASSUME NEW b \in Buses, Unsubscribe(b) PROVE TypeOK'
  BY <1>12 DEF TypeOK, Unsubscribe
<1>13. ASSUME NEW b \in Buses, Recv(b) PROVE TypeOK'
  BY <1>13 DEF TypeOK, Recv
<1>14. ASSUME NEW b \in Buses, Check(b) PROVE TypeOK'
  BY <1>14 DEF TypeOK, Check
<1>15. ASSUME NEW b \in Buses, Get(b) PROVE TypeOK'
  BY <1>15 DEF TypeOK, Get
<1>16. ASSUME NEW b \in Buses, TimeOut(b) PROVE TypeOK'
  BY <1>16 DEF TypeOK, TimeOut
<1>17. CASE Finished \/ UNCHANGED vars
  BY <1>17 DEF TypeOK, Finished, vars
<1> QED
  BY <1>1, <1>2, <1>3, <1>4, <1>5, <1>6, <1>7, <1>8, <1>9, <1>10, <1>11, <1>12,
     <1>13, <1>14, <1>15, <1>16, <1>17 DEF Next, Handle, Reader

\* The variables keep their types; no queue grows beyond recv_queue_size.
THEOREM TypeCorrect == Spec => []TypeOK
<1> QED
  BY TypeInit, TypeStep, PTL DEF Spec

-----------------------------------------------------------------------------
(* The inductive invariant, in parts. *)

\* Between StartDispatch and the end of the second loop.
Dispatching == wpc \in {"channel", "all"}

\* The set that the loop runs over.
CurrentSet == subscribers[IF wpc = "channel" THEN frame.channel ELSE ALL]

\* The frame has still to be queued for the bus, or counted.
Pending(b) ==
  /\ Dispatching
  /\ b \in todo \/ b = temp \/ (wpc = "channel" /\ b \in subscribers[ALL])

\* A bus is in the set of its channel from subscribe to unsubscribe unless its weak
\* reference was cleared; the loop runs over the present set, under the lock.
SubInv ==
  /\ \A c \in Channels \cup {ALL} : \A b \in subscribers[c] :
       ChannelOf[b] = c /\ bpc[b] \in {"up", "orphan", "unsubscribe"}
  /\ \A b \in Buses : bpc[b] \in {"new", "up"} => alive[b]
  /\ \A b \in Buses : bpc[b] = "up" => b \in subscribers[ChannelOf[b]]
  /\ \A b \in deadRefs : ~alive[b]
  /\ LockFree => todo = {} /\ temp = NONE
  /\ Dispatching =>
       todo \subseteq CurrentSet /\ temp \in CurrentSet \cup {NONE} /\ temp \notin todo

\* What lies ahead is younger than the frame under way, and that one younger than
\* what was dispatched before.
NumberInv ==
  /\ \A i \in 1..Len(batch) :
       /\ batch[i].n <= sent
       /\ \A j \in 1..Len(batch) : i < j => batch[i].n < batch[j].n
       /\ ~LockFree => frame.n < batch[i].n
       /\ \A b \in Buses : \A f \in offered[b] : f.n < batch[i].n
  /\ ~LockFree => frame.n <= sent /\ \A b \in Buses : \A f \in offered[b] : f.n <= frame.n
  /\ \A b \in Buses : \A f \in offered[b] : f.n <= sent

\* A bus is only given what was dispatched to it, and that is of its channel.
OfferInv ==
  \A b \in Buses :
    /\ \A f \in offered[b] : ChannelOf[b] \in {f.channel, ALL}
    /\ Pending(b) => frame \in offered[b]

\* What a bus was given was dispatched to it, before the frame that is pending.
GivenInv ==
  \A b \in Buses : \A i \in 1..Len(Given(b)) :
    /\ Given(b)[i] \in offered[b]
    /\ Pending(b) => Given(b)[i].n < frame.n

\* What is due was dispatched, or lies ahead in the batch.
DueInv ==
  /\ wpc = "read" => batch = <<>>
  /\ \A b \in Buses : bpc[b] = "new" => due[b] = {}
  /\ \A b \in Buses : bpc[b] = "up" => due[b] \subseteq offered[b] \cup Owed(batch, b)

\* What was dispatched, as pairs of bus and frame.
Offers == {p \in Buses \X Frames : p[2] \in offered[p[1]]}

\* The pairs that will stay missing: all that are missing now, without those that
\* the loop has ahead.
Lost == {p \in Buses \X Frames :
           p[2] \in Missing(p[1]) /\ ~(Pending(p[1]) /\ p[2] = frame)}

\* Those of buses whose weak reference is not cleared.
LostByLive == {p \in Lost : alive[p[1]]}

\* Every loss of a live bus is counted, and nothing but losses; in the midst of a
\* dispatch too, unless the WebSocket thread waits for itself.
CountInv ==
  /\ IsFiniteSet(Offers)
  /\ wpc # "finalize" =>
       dropped <= Cardinality(Lost) /\ Cardinality(LostByLive) <= dropped

-----------------------------------------------------------------------------
(* Subscriber sets, numbers, offers and what is due. *)

\* SubInv is inductive: only EndLoop takes a bus out of a set without unsubscribe,
\* and only one that was found collected.
LEMMA SubStep ==
  ASSUME TypeOK, SubInv, [Next]_vars
  PROVE  SubInv'
<1> USE ReceiveAssumption DEF wsVars, busVars, readerVars
<1>1. CASE Receive
  BY <1>1 DEF TypeOK, SubInv, Dispatching, CurrentSet, LockFree, Receive
<1>2. CASE Walk
  BY <1>2 DEF TypeOK, SubInv, Dispatching, CurrentSet, LockFree, Walk, Rest
<1>3. CASE StartDispatch
  BY <1>3 DEF TypeOK, SubInv, Dispatching, CurrentSet, LockFree, StartDispatch,
     FirstSet, SecondSet
<1>4. ASSUME NEW b \in Buses, Dereference(b) PROVE SubInv'
  BY <1>4 DEF TypeOK, SubInv, Dispatching, CurrentSet, LockFree, Dereference
<1>5. ASSUME NEW b \in Buses, Put(b) PROVE SubInv'
  BY <1>5 DEF TypeOK, SubInv, Dispatching, CurrentSet, LockFree, Put, QueueFull,
     CountDrop
<1>6. ASSUME NEW b \in Buses, FinalizeHere(b) PROVE SubInv'
  BY <1>6 DEF TypeOK, SubInv, Dispatching, CurrentSet, LockFree, FinalizeHere
<1>7. CASE EndLoop
  <2> DEFINE k == IF wpc = "all" THEN ALL ELSE frame.channel
  <2>1. /\ wpc \in {"channel", "all"} /\ todo = {} /\ temp = NONE
        /\ k \in Channels \cup {ALL} /\ frame.channel \in Channels
        /\ subscribers' = [subscribers EXCEPT ![k] = subscribers[k] \ deadRefs]
        /\ deadRefs' = {} /\ UNCHANGED <<frame, temp, alive, bpc>>
        /\ wpc = "channel" => wpc' = "all" /\ todo' = subscribers[ALL]
        /\ wpc = "all" => wpc' = "walk" /\ todo' = todo
    BY <1>7 DEF TypeOK, EndLoop, SecondSet, Frames
  <2> HIDE DEF k
  <2>2. subscribers'[k] = subscribers[k] \ deadRefs
    BY <2>1 DEF TypeOK
  <2>3. \A c \in Channels \cup {ALL} : c # k => subscribers'[c] = subscribers[c]
    BY <2>1 DEF TypeOK
  <2>4. \A c \in Channels \cup {ALL} : \A b \in subscribers'[c] : b \in subscribers[c]
    BY <2>2, <2>3
  <2>5. \A b \in Buses : bpc[b] = "up" => b \in subscribers'[ChannelOf[b]]
    BY <2>2, <2>3 DEF SubInv
  <2>6. wpc = "channel" => subscribers'[ALL] = subscribers[ALL]
    BY <2>1, <2>3 DEF k
  <2>7. /\ LockFree' => todo' = {} /\ temp' = NONE
        /\ Dispatching' => todo' \subseteq CurrentSet' /\ temp' = NONE
    BY <2>1, <2>6 DEF Dispatching, CurrentSet, LockFree
  <2>8. NONE \notin Buses /\ todo' \subseteq Buses
    BY <2>1 DEF TypeOK
  <2> QED
    BY <2>1, <2>4, <2>5, <2>7, <2>8 DEF SubInv
<1>8. CASE Lose
  BY <1>8 DEF TypeOK, SubInv, Dispatching, CurrentSet, LockFree, Lose
<1>9. ASSUME NEW b \in Buses, Subscribe(b) PROVE SubInv'
  BY <1>9 DEF TypeOK, SubInv, Dispatching, CurrentSet, LockFree, Subscribe
<1>10. ASSUME NEW b \in Buses, Shutdown(b) PROVE SubInv'
  BY <1>10 DEF TypeOK, SubInv, Dispatching, CurrentSet, LockFree, Shutdown
<1>11. ASSUME NEW b \in Buses, DropBus(b) PROVE SubInv'
  BY <1>11 DEF TypeOK, SubInv, Dispatching, CurrentSet, LockFree, DropBus
<1>12. ASSUME NEW b \in Buses, Unsubscribe(b) PROVE SubInv'
  BY <1>12 DEF TypeOK, SubInv, Dispatching, CurrentSet, LockFree, Unsubscribe
<1>13. ASSUME NEW b \in Buses, Recv(b) PROVE SubInv'
  BY <1>13 DEF TypeOK, SubInv, Dispatching, CurrentSet, LockFree, Recv
<1>14. ASSUME NEW b \in Buses, Check(b) PROVE SubInv'
  BY <1>14 DEF TypeOK, SubInv, Dispatching, CurrentSet, LockFree, Check
<1>15. ASSUME NEW b \in Buses, Get(b) PROVE SubInv'
  BY <1>15 DEF TypeOK, SubInv, Dispatching, CurrentSet, LockFree, Get
<1>16. ASSUME NEW b \in Buses, TimeOut(b) PROVE SubInv'
  BY <1>16 DEF TypeOK, SubInv, Dispatching, CurrentSet, LockFree, TimeOut
<1>17. CASE Finished \/ UNCHANGED vars
  BY <1>17 DEF TypeOK, SubInv, Dispatching, CurrentSet, LockFree, Finished, vars
<1> QED
  BY <1>1, <1>2, <1>3, <1>4, <1>5, <1>6, <1>7, <1>8, <1>9, <1>10, <1>11,
     <1>12, <1>13, <1>14, <1>15, <1>16, <1>17 DEF Next, Handle, Reader

\* The records of a message carry numbers.
LEMMA BatchNumbers ==
  ASSUME TypeOK
  PROVE  \A i \in 1..Len(batch) : batch[i].n \in Nat
<1>1. batch \in Seq(Records)
  BY DEF TypeOK, Records
<1>2. \A i \in 1..Len(batch) : batch[i] \in Records
  BY <1>1, ElementOfSeq
<1> QED
  BY <1>2, ReceiveAssumption DEF Records

\* NumberInv is inductive: the backend numbers on, and the walk goes forward.
LEMMA NumberStep ==
  ASSUME TypeOK, NumberInv, [Next]_vars
  PROVE  NumberInv'
<1> USE ReceiveAssumption DEF wsVars, busVars, readerVars
<1>1. CASE Receive
  <2>1. PICK message \in Seq(Records) :
          /\ sent' = sent + Len(message) /\ Len(message) \in Nat
          /\ \A i \in 1..Len(message) : message[i].n = sent + i
          /\ batch' = message \/ batch' = batch
    BY <1>1, Arrival
  <2>2. sent \in Nat /\ LockFree /\ LockFree' /\ UNCHANGED offered
    BY <1>1 DEF TypeOK, LockFree, Receive
  <2>3. \A b \in Buses : \A f \in offered[b] : f.n \in Nat /\ f.n <= sent
    BY DEF TypeOK, NumberInv, Frames
  <2>4. CASE batch' = batch
    <3>1. \A i \in 1..Len(batch) : batch[i].n \in Nat
      BY BatchNumbers
    <3> QED
      BY <2>1, <2>2, <2>3, <2>4, <3>1 DEF NumberInv
  <2>5. CASE batch' = message
    BY <2>1, <2>2, <2>3, <2>5 DEF NumberInv
  <2> QED
    BY <2>1, <2>4, <2>5
<1>2. CASE Walk
  <2>1. batch' = batch \/ batch' = <<>> \/ (batch # <<>> /\ batch' = Tail(batch))
    BY <1>2 DEF Walk, Rest
  <2>2. LockFree /\ LockFree' /\ UNCHANGED <<offered, sent>>
    BY <1>2 DEF LockFree, Walk
  <2>3. CASE batch' = batch
    BY <2>2, <2>3 DEF NumberInv
  <2>4. CASE batch' = <<>>
    BY <2>2, <2>4 DEF NumberInv
  <2>5. CASE batch # <<>> /\ batch' = Tail(batch)
    BY <2>2, <2>5, TailOfBatch DEF NumberInv
  <2> QED
    BY <2>1, <2>3, <2>4, <2>5
<1>3. CASE StartDispatch
  <2>1. /\ batch # <<>> /\ batch' = Tail(batch) /\ frame' = batch[1] /\ UNCHANGED sent
        /\ \A b \in Buses : offered'[b] \subseteq offered[b] \cup {batch[1]}
    BY <1>3, TailOfBatch DEF StartDispatch
  <2>2. \A i \in 1..Len(batch') : batch'[i] = batch[i + 1] /\ i + 1 \in 1..Len(batch)
    BY <2>1, TailOfBatch
  <2>3. 1 \in 1..Len(batch)
    BY <2>1, TailOfBatch
  <2>4. Len(batch') \in Nat /\ \A i \in 1..Len(batch) : batch[i].n \in Nat
    BY <2>1, TailOfBatch, BatchNumbers
  <2>5. \A i \in 1..Len(batch') :
          /\ batch'[i].n <= sent' /\ frame'.n < batch'[i].n
          /\ \A j \in 1..Len(batch') : i < j => batch'[i].n < batch'[j].n
    BY <2>1, <2>2, <2>3, <2>4 DEF NumberInv
  <2>6. \A b \in Buses : \A f \in offered[b] : f.n < batch[1].n /\ f.n \in Nat
    BY <2>3 DEF NumberInv, TypeOK, Frames
  <2>7. batch[1].n <= sent /\ batch[1].n \in Nat
    BY <2>3, <2>4 DEF NumberInv
  <2>8. \A b \in Buses : \A f \in offered'[b] : f.n <= frame'.n /\ f.n \in Nat
    BY <2>1, <2>6, <2>7
  <2>9. \A i \in 1..Len(batch') : batch'[i].n \in Nat
    BY <2>2, <2>4
  <2>10. sent \in Nat
    BY DEF TypeOK
  <2>11. \A b \in Buses : \A f \in offered'[b] :
           f.n <= sent' /\ \A i \in 1..Len(batch') : f.n < batch'[i].n
    <3>1. \A b \in Buses : \A f \in offered'[b] : f.n <= sent'
      BY <2>1, <2>7, <2>8, <2>10
    <3>2. \A b \in Buses : \A f \in offered'[b] : \A i \in 1..Len(batch') : f.n < batch'[i].n
      BY <2>1, <2>5, <2>7, <2>8, <2>9
    <3> QED
      BY <3>1, <3>2
  <2> QED
    BY <2>1, <2>5, <2>7, <2>8, <2>11 DEF NumberInv
<1>4. ASSUME NEW b \in Buses, Dereference(b) PROVE NumberInv'
  BY <1>4 DEF TypeOK, NumberInv, LockFree, Dereference
<1>5. ASSUME NEW b \in Buses, Put(b) PROVE NumberInv'
  BY <1>5 DEF TypeOK, NumberInv, LockFree, Put, QueueFull, CountDrop
<1>6. ASSUME NEW b \in Buses, FinalizeHere(b) PROVE NumberInv'
  BY <1>6 DEF TypeOK, NumberInv, LockFree, FinalizeHere
<1>7. CASE EndLoop
  BY <1>7 DEF TypeOK, NumberInv, LockFree, EndLoop, SecondSet
<1>8. CASE Lose
  BY <1>8 DEF TypeOK, NumberInv, LockFree, Lose
<1>9. ASSUME NEW b \in Buses, Subscribe(b) PROVE NumberInv'
  BY <1>9 DEF TypeOK, NumberInv, LockFree, Subscribe
<1>10. ASSUME NEW b \in Buses, Shutdown(b) PROVE NumberInv'
  BY <1>10 DEF TypeOK, NumberInv, LockFree, Shutdown
<1>11. ASSUME NEW b \in Buses, DropBus(b) PROVE NumberInv'
  BY <1>11 DEF TypeOK, NumberInv, LockFree, DropBus
<1>12. ASSUME NEW b \in Buses, Unsubscribe(b) PROVE NumberInv'
  BY <1>12 DEF TypeOK, NumberInv, LockFree, Unsubscribe
<1>13. ASSUME NEW b \in Buses, Recv(b) PROVE NumberInv'
  BY <1>13 DEF TypeOK, NumberInv, LockFree, Recv
<1>14. ASSUME NEW b \in Buses, Check(b) PROVE NumberInv'
  BY <1>14 DEF TypeOK, NumberInv, LockFree, Check
<1>15. ASSUME NEW b \in Buses, Get(b) PROVE NumberInv'
  BY <1>15 DEF TypeOK, NumberInv, LockFree, Get
<1>16. ASSUME NEW b \in Buses, TimeOut(b) PROVE NumberInv'
  BY <1>16 DEF TypeOK, NumberInv, LockFree, TimeOut
<1>17. CASE Finished \/ UNCHANGED vars
  BY <1>17 DEF TypeOK, NumberInv, LockFree, Finished, vars
<1> QED
  BY <1>1, <1>2, <1>3, <1>4, <1>5, <1>6, <1>7, <1>8, <1>9, <1>10, <1>11,
     <1>12, <1>13, <1>14, <1>15, <1>16, <1>17 DEF Next, Handle, Reader

\* OfferInv is inductive: the loop runs over the sets that the frame was offered to.
LEMMA OfferStep ==
  ASSUME TypeOK, SubInv, OfferInv, [Next]_vars
  PROVE  OfferInv'
<1> USE ReceiveAssumption DEF wsVars, busVars, readerVars
<1>1. CASE Receive
  BY <1>1 DEF TypeOK, SubInv, OfferInv, Pending, Dispatching, CurrentSet, LockFree,
     Receive
<1>2. CASE Walk
  BY <1>2 DEF TypeOK, SubInv, OfferInv, Pending, Dispatching, CurrentSet, LockFree,
     Walk, Rest
<1>3. CASE StartDispatch
  BY <1>3 DEF TypeOK, SubInv, OfferInv, Pending, Dispatching, CurrentSet, LockFree,
     StartDispatch, FirstSet, SecondSet
<1>4. ASSUME NEW b \in Buses, Dereference(b) PROVE OfferInv'
  BY <1>4 DEF TypeOK, SubInv, OfferInv, Pending, Dispatching, CurrentSet, LockFree,
     Dereference
<1>5. ASSUME NEW b \in Buses, Put(b) PROVE OfferInv'
  BY <1>5 DEF TypeOK, SubInv, OfferInv, Pending, Dispatching, CurrentSet, LockFree,
     Put, QueueFull, CountDrop
<1>6. ASSUME NEW b \in Buses, FinalizeHere(b) PROVE OfferInv'
  BY <1>6 DEF TypeOK, SubInv, OfferInv, Pending, Dispatching, CurrentSet, LockFree,
     FinalizeHere
<1>7. CASE EndLoop
  BY <1>7 DEF TypeOK, SubInv, OfferInv, Pending, Dispatching, CurrentSet, LockFree,
     EndLoop, SecondSet
<1>8. CASE Lose
  BY <1>8 DEF TypeOK, SubInv, OfferInv, Pending, Dispatching, CurrentSet, LockFree,
     Lose
<1>9. ASSUME NEW b \in Buses, Subscribe(b) PROVE OfferInv'
  BY <1>9 DEF TypeOK, SubInv, OfferInv, Pending, Dispatching, CurrentSet, LockFree,
     Subscribe
<1>10. ASSUME NEW b \in Buses, Shutdown(b) PROVE OfferInv'
  BY <1>10 DEF TypeOK, SubInv, OfferInv, Pending, Dispatching, CurrentSet, LockFree,
     Shutdown
<1>11. ASSUME NEW b \in Buses, DropBus(b) PROVE OfferInv'
  BY <1>11 DEF TypeOK, SubInv, OfferInv, Pending, Dispatching, CurrentSet, LockFree,
     DropBus
<1>12. ASSUME NEW b \in Buses, Unsubscribe(b) PROVE OfferInv'
  BY <1>12 DEF TypeOK, SubInv, OfferInv, Pending, Dispatching, CurrentSet, LockFree,
     Unsubscribe
<1>13. ASSUME NEW b \in Buses, Recv(b) PROVE OfferInv'
  BY <1>13 DEF TypeOK, SubInv, OfferInv, Pending, Dispatching, CurrentSet, LockFree,
     Recv
<1>14. ASSUME NEW b \in Buses, Check(b) PROVE OfferInv'
  BY <1>14 DEF TypeOK, SubInv, OfferInv, Pending, Dispatching, CurrentSet, LockFree,
     Check
<1>15. ASSUME NEW b \in Buses, Get(b) PROVE OfferInv'
  BY <1>15 DEF TypeOK, SubInv, OfferInv, Pending, Dispatching, CurrentSet, LockFree,
     Get
<1>16. ASSUME NEW b \in Buses, TimeOut(b) PROVE OfferInv'
  BY <1>16 DEF TypeOK, SubInv, OfferInv, Pending, Dispatching, CurrentSet, LockFree,
     TimeOut
<1>17. CASE Finished \/ UNCHANGED vars
  BY <1>17 DEF TypeOK, SubInv, OfferInv, Pending, Dispatching, CurrentSet, LockFree,
     Finished, vars
<1> QED
  BY <1>1, <1>2, <1>3, <1>4, <1>5, <1>6, <1>7, <1>8, <1>9, <1>10, <1>11,
     <1>12, <1>13, <1>14, <1>15, <1>16, <1>17 DEF Next, Handle, Reader

\* DueInv is inductive: the walk dispatches the head of the batch or skips it, and
\* drops the rest only when it cannot be read.
LEMMA DueStep ==
  ASSUME TypeOK, SubInv, DueInv, [Next]_vars
  PROVE  DueInv'
<1> USE ReceiveAssumption DEF wsVars, busVars, readerVars
<1>1. CASE Receive
  <2>1. PICK message \in Seq(Records) :
          \/ /\ batch' = message /\ wpc' = "walk"
             /\ due' = [b \in Buses |-> IF bpc[b] = "up" THEN due[b] \cup Owed(message, b)
                                        ELSE due[b]]
          \/ UNCHANGED <<batch, wpc, due>>
    BY <1>1, Arrival
  <2>2. UNCHANGED <<offered, bpc>> /\ batch = <<>>
    BY <1>1 DEF Receive, DueInv
  <2>3. CASE UNCHANGED <<batch, wpc, due>>
    BY <2>2, <2>3 DEF DueInv, Owed
  <2>4. CASE /\ batch' = message /\ wpc' = "walk"
             /\ due' = [b \in Buses |-> IF bpc[b] = "up" THEN due[b] \cup Owed(message, b)
                                        ELSE due[b]]
    <3>1. \A b \in Buses : bpc[b] = "up" => due[b] \subseteq offered[b]
      BY <2>2, OwedNothing DEF DueInv
    <3>2. \A b \in Buses : bpc[b] = "up" => due'[b] = due[b] \cup Owed(batch', b)
      BY <2>4
    <3>3. \A b \in Buses : bpc[b] # "up" => due'[b] = due[b]
      BY <2>4
    <3> QED
      BY <2>2, <2>4, <3>1, <3>2, <3>3 DEF DueInv, Owed
  <2> QED
    BY <2>1, <2>3, <2>4
<1>2. CASE Walk
  <2>1. UNCHANGED <<offered, bpc, due>>
    BY <1>2 DEF Walk
  <2>2. CASE batch = <<>>
    BY <1>2, <2>1, <2>2 DEF Walk, DueInv, Owed
  <2>3. CASE batch # <<>>
    <3>1. wpc' = "walk" /\ Head(batch).channel \notin Channels
      BY <1>2, <2>3 DEF Walk
    <3>2. \A b \in Buses : Owed(batch, b) \subseteq Owed(batch', b)
      <4>1. CASE Head(batch).channel = "cut"
        BY <2>3, <4>1, OwedTail
      <4>2. CASE Head(batch).channel # "cut"
        <5>1. batch' = Tail(batch)
          BY <1>2, <2>3, <4>2 DEF Walk, Rest
        <5>2. \A b \in Buses : Owed(batch, b) \subseteq Owed(Tail(batch), b)
          BY <2>3, <3>1, OwedTail
        <5> QED
          BY <5>1, <5>2
      <4> QED
        BY <4>1, <4>2
    <3>3. \A b \in Buses : bpc[b] = "up" => due[b] \subseteq offered[b] \cup Owed(batch', b)
      BY <3>2 DEF DueInv
    <3> QED
      BY <2>1, <3>1, <3>3 DEF DueInv, Owed
  <2> QED
    BY <2>2, <2>3
<1>3. CASE StartDispatch
  <2> DEFINE head == Head(batch)
  <2>1. /\ batch # <<>> /\ batch' = Tail(batch) /\ wpc' = "channel" /\ UNCHANGED <<bpc, due>>
        /\ head.channel \in Channels
        /\ offered' = [b \in Buses |-> offered[b] \cup
                        {f \in {head} : b \in subscribers[head.channel] \cup subscribers[ALL]}]
    BY <1>3 DEF StartDispatch, FirstSet, SecondSet
  <2> HIDE DEF head
  <2>2. ASSUME NEW b \in Buses, bpc[b] = "up"
        PROVE  due[b] \subseteq offered'[b] \cup Owed(batch', b)
    <3>1. Owed(batch, b) \subseteq Owed(Tail(batch), b) \cup {head}
      BY <2>1, OwedTail DEF head
    <3>2. head \in Owed(batch, b) => ChannelOf[b] \in {head.channel, ALL}
      BY <2>1, OwedTail DEF head
    <3>3. b \in subscribers[ChannelOf[b]]
      BY <2>2 DEF SubInv
    <3>4. offered[b] \subseteq offered'[b] /\ (head \in Owed(batch, b) => head \in offered'[b])
      BY <2>1, <3>2, <3>3
    <3>5. due[b] \subseteq offered[b] \cup Owed(batch, b)
      BY <2>2 DEF DueInv
    <3> QED
      BY <2>1, <3>1, <3>4, <3>5
  <2> QED
    BY <2>1, <2>2 DEF DueInv, Owed
<1>4. ASSUME NEW b \in Buses, Dereference(b) PROVE DueInv'
  BY <1>4 DEF TypeOK, SubInv, DueInv, Dereference
<1>5. ASSUME NEW b \in Buses, Put(b) PROVE DueInv'
  BY <1>5 DEF TypeOK, SubInv, DueInv, Put, QueueFull, CountDrop
<1>6. ASSUME NEW b \in Buses, FinalizeHere(b) PROVE DueInv'
  BY <1>6 DEF TypeOK, SubInv, DueInv, FinalizeHere
<1>7. CASE EndLoop
  BY <1>7 DEF TypeOK, SubInv, DueInv, EndLoop, SecondSet
<1>8. CASE Lose
  BY <1>8 DEF TypeOK, SubInv, DueInv, Lose
<1>9. ASSUME NEW b \in Buses, Subscribe(b) PROVE DueInv'
  BY <1>9 DEF TypeOK, SubInv, DueInv, Subscribe
<1>10. ASSUME NEW b \in Buses, Shutdown(b) PROVE DueInv'
  BY <1>10 DEF TypeOK, SubInv, DueInv, Shutdown
<1>11. ASSUME NEW b \in Buses, DropBus(b) PROVE DueInv'
  BY <1>11 DEF TypeOK, SubInv, DueInv, DropBus
<1>12. ASSUME NEW b \in Buses, Unsubscribe(b) PROVE DueInv'
  BY <1>12 DEF TypeOK, SubInv, DueInv, Unsubscribe
<1>13. ASSUME NEW b \in Buses, Recv(b) PROVE DueInv'
  BY <1>13 DEF TypeOK, SubInv, DueInv, Recv
<1>14. ASSUME NEW b \in Buses, Check(b) PROVE DueInv'
  BY <1>14 DEF TypeOK, SubInv, DueInv, Check
<1>15. ASSUME NEW b \in Buses, Get(b) PROVE DueInv'
  BY <1>15 DEF TypeOK, SubInv, DueInv, Get
<1>16. ASSUME NEW b \in Buses, TimeOut(b) PROVE DueInv'
  BY <1>16 DEF TypeOK, SubInv, DueInv, TimeOut
<1>17. CASE Finished \/ UNCHANGED vars
  BY <1>17 DEF TypeOK, SubInv, DueInv, Finished, vars
<1> QED
  BY <1>1, <1>2, <1>3, <1>4, <1>5, <1>6, <1>7, <1>8, <1>9, <1>10, <1>11,
     <1>12, <1>13, <1>14, <1>15, <1>16, <1>17 DEF Next, Handle, Reader

-----------------------------------------------------------------------------
(* What a bus was given. *)

\* What a bus was given is a sequence of frames.
LEMMA GivenType ==
  ASSUME TypeOK, NEW b \in Buses
  PROVE  /\ Given(b) \in Seq(Frames) /\ Len(Given(b)) \in Nat
         /\ queue[b] \in Seq(Frames) /\ got[b] \in Seq(Frames)
         /\ \A i \in 1..Len(Given(b)) : Given(b)[i].n \in Nat
<1>1. queue[b] \in Seq(Frames) /\ got[b] \in Seq(Frames)
  BY DEF TypeOK
<1>2. Given(b) \in Seq(Frames)
  BY <1>1, ConcatProperties DEF Given
<1>3. \A i \in 1..Len(Given(b)) : Given(b)[i] \in Frames
  BY <1>2, ElementOfSeq
<1>4. Len(Given(b)) \in Nat
  BY <1>2, LenProperties
<1>5. \A i \in 1..Len(Given(b)) : Given(b)[i].n \in Nat
  BY <1>3, ReceiveAssumption DEF Frames
<1> QED
  BY <1>1, <1>2, <1>4, <1>5

\* recv takes a frame from the head of the queue: what the bus was given stays.
LEMMA GetKeepsGiven ==
  ASSUME TypeOK, NEW b \in Buses, Get(b), NEW x \in Buses
  PROVE  Given(x)' = Given(x)
<1>1. CASE x # b
  BY <1>1 DEF Get, Given, TypeOK
<1>2. CASE x = b
  <2> DEFINE s == got[b]  q == queue[b]  h == Head(q)
  <2>1. q # <<>> /\ queue'[b] = Tail(q) /\ got'[b] = Append(s, h)
    BY DEF Get, TypeOK
  <2>2. s \in Seq(Frames) /\ q \in Seq(Frames)
    BY GivenType
  <2> HIDE DEF s, q
  <2>3. /\ h \in Frames /\ Tail(q) \in Seq(Frames) /\ Len(Tail(q)) = Len(q) - 1
        /\ h = q[1] /\ \A i \in 1..Len(Tail(q)) : Tail(q)[i] = q[i + 1]
        /\ Len(q) \in Nat \ {0} /\ Len(s) \in Nat
    BY <2>1, <2>2, HeadTailProperties, EmptySeq, LenProperties
  <2> HIDE DEF h
  <2> DEFINE t == Append(s, h)
  <2>4. /\ t \in Seq(Frames) /\ Len(t) = Len(s) + 1 /\ t[Len(s) + 1] = h
        /\ \A i \in 1..Len(s) : t[i] = s[i]
    BY <2>2, <2>3, AppendProperties
  <2> HIDE DEF t
  <2>5. /\ t \o Tail(q) \in Seq(Frames) /\ Len(t \o Tail(q)) = Len(s) + Len(q)
        /\ \A i \in 1..Len(s) + Len(q) : (t \o Tail(q))[i] =
             IF i <= Len(s) + 1 THEN t[i] ELSE Tail(q)[i - (Len(s) + 1)]
    <3>1. /\ t \o Tail(q) \in Seq(Frames) /\ Len(t \o Tail(q)) = Len(t) + Len(Tail(q))
          /\ \A i \in 1..Len(t) + Len(Tail(q)) : (t \o Tail(q))[i] =
               IF i <= Len(t) THEN t[i] ELSE Tail(q)[i - Len(t)]
      BY <2>3, <2>4, ConcatProperties
    <3>2. Len(t) + Len(Tail(q)) = Len(s) + Len(q)
      BY <2>3, <2>4
    <3> QED
      BY <2>4, <3>1, <3>2
  <2>6. /\ s \o q \in Seq(Frames) /\ Len(s \o q) = Len(s) + Len(q)
        /\ \A i \in 1..Len(s) + Len(q) : (s \o q)[i] =
             IF i <= Len(s) THEN s[i] ELSE q[i - Len(s)]
    BY <2>2, ConcatProperties
  <2>7. ASSUME NEW i \in 1..Len(s) + Len(q)
        PROVE  (t \o Tail(q))[i] = (s \o q)[i]
    <3>0. i \in Nat /\ Len(s) \in Nat
      BY <2>3
    <3>1. CASE i <= Len(s)
      BY <2>3, <2>4, <2>5, <2>6, <3>1
    <3>2. CASE i = Len(s) + 1
      BY <2>3, <2>4, <2>5, <2>6, <3>2
    <3>3. CASE i > Len(s) + 1
      <4>1. i - (Len(s) + 1) \in 1..Len(Tail(q))
        BY <2>3, <3>3
      <4>2. (t \o Tail(q))[i] = Tail(q)[i - (Len(s) + 1)]
        BY <2>3, <2>5, <3>3
      <4>3. (s \o q)[i] = q[i - Len(s)]
        BY <2>3, <2>6, <3>3
      <4>4. Tail(q)[i - (Len(s) + 1)] = q[(i - (Len(s) + 1)) + 1]
        BY <2>3, <4>1
      <4>5. (i - (Len(s) + 1)) + 1 = i - Len(s)
        BY <2>3
      <4> QED
        BY <4>2, <4>3, <4>4, <4>5
    <3>4. i <= Len(s) \/ i = Len(s) + 1 \/ i > Len(s) + 1
      BY <3>0
    <3> QED
      BY <3>1, <3>2, <3>3, <3>4
  <2>8. t \o Tail(q) = s \o q
    BY <2>5, <2>6, <2>7, SeqEqual
  <2> QED
    BY <1>2, <2>1, <2>8 DEF Given, s, q, t
<1> QED
  BY <1>1, <1>2

\* A frame that is queued comes last of what the bus was given.
LEMMA PutExtendsGiven ==
  ASSUME TypeOK, NEW b \in Buses, Put(b), ~QueueFull(b)
  PROVE  /\ \A x \in Buses : x # b => Given(x)' = Given(x)
         /\ Len(Given(b)') = Len(Given(b)) + 1
         /\ \A i \in 1..Len(Given(b)) : Given(b)'[i] = Given(b)[i]
         /\ Given(b)'[Len(Given(b)) + 1] = frame
<1> DEFINE s == got[b]  q == queue[b]
<1>1. /\ queue' = [queue EXCEPT ![b] = Append(queue[b], frame)] /\ got' = got
      /\ frame \in Frames
  BY DEF Put, TypeOK
<1>2. /\ queue'[b] = Append(q, frame)
      /\ \A x \in Buses : x # b => queue'[x] = queue[x]
  BY <1>1 DEF TypeOK
<1>3. s \in Seq(Frames) /\ q \in Seq(Frames) /\ Len(s) \in Nat /\ Len(q) \in Nat
  BY GivenType, LenProperties
<1> HIDE DEF s, q
<1> DEFINE t == Append(q, frame)
<1>4. /\ t \in Seq(Frames) /\ Len(t) = Len(q) + 1 /\ t[Len(q) + 1] = frame
      /\ \A i \in 1..Len(q) : t[i] = q[i]
  BY <1>1, <1>3, AppendProperties
<1> HIDE DEF t
<1>5. /\ Len(s \o t) = Len(s) + Len(t)
      /\ \A i \in 1..Len(s) + Len(t) : (s \o t)[i] =
           IF i <= Len(s) THEN s[i] ELSE t[i - Len(s)]
  BY <1>3, <1>4, ConcatProperties
<1>6. /\ Len(s \o q) = Len(s) + Len(q)
      /\ \A i \in 1..Len(s) + Len(q) : (s \o q)[i] =
           IF i <= Len(s) THEN s[i] ELSE q[i - Len(s)]
  BY <1>3, ConcatProperties
<1>7. Given(b) = s \o q /\ Given(b)' = s \o t
  BY <1>1, <1>2 DEF Given, s, q, t
<1>8. \A i \in 1..Len(s) + Len(q) : (s \o t)[i] = (s \o q)[i]
  <2> SUFFICES ASSUME NEW i \in 1..Len(s) + Len(q) PROVE (s \o t)[i] = (s \o q)[i]
    OBVIOUS
  <2>0. i \in Nat /\ Len(s) \in Nat
    BY <1>3
  <2>1. CASE i <= Len(s)
    BY <1>3, <1>4, <1>5, <1>6, <2>1
  <2>2. CASE i > Len(s)
    <3>1. i - Len(s) \in 1..Len(q)
      BY <1>3, <2>2
    <3> QED
      BY <1>3, <1>4, <1>5, <1>6, <2>2, <3>1
  <2>3. i <= Len(s) \/ i > Len(s)
    BY <2>0
  <2> QED
    BY <2>1, <2>2, <2>3
<1>9. (s \o t)[Len(s) + Len(q) + 1] = frame
  <2>1. (Len(s) + Len(q) + 1) - Len(s) = Len(q) + 1 /\ ~(Len(s) + Len(q) + 1 <= Len(s))
    BY <1>3
  <2>2. Len(s) + Len(q) + 1 \in 1..Len(s) + Len(t)
    BY <1>3, <1>4
  <2> QED
    BY <1>4, <1>5, <2>1, <2>2
<1>10. \A x \in Buses : x # b => Given(x)' = Given(x)
  BY <1>1, <1>2 DEF Given
<1> QED
  BY <1>3, <1>4, <1>5, <1>6, <1>7, <1>8, <1>9, <1>10

\* The step queues a frame for some bus, or leaves alone what each bus was given.
GivenStays == \A x \in Buses : Given(x)' = Given(x)
Queues == \E x \in Buses : Put(x) /\ ~QueueFull(x)

\* put_nowait apart, no step changes what a bus was given.
LEMMA GivenChange ==
  ASSUME TypeOK, [Next]_vars
  PROVE  GivenStays \/ Queues
<1> USE DEF wsVars, busVars, readerVars
<1>1. CASE Receive
  BY <1>1 DEF GivenStays, Given, Receive
<1>2. CASE Walk
  BY <1>2 DEF GivenStays, Given, Walk, Rest
<1>3. CASE StartDispatch
  BY <1>3 DEF GivenStays, Given, StartDispatch, FirstSet, SecondSet
<1>4. ASSUME NEW b \in Buses, Dereference(b) PROVE GivenStays \/ Queues
  BY <1>4 DEF GivenStays, Given, Dereference
<1>5. ASSUME NEW b \in Buses, Put(b) PROVE GivenStays \/ Queues
  BY <1>5 DEF GivenStays, Queues, Given, Put
<1>6. ASSUME NEW b \in Buses, FinalizeHere(b) PROVE GivenStays \/ Queues
  BY <1>6 DEF GivenStays, Given, FinalizeHere
<1>7. CASE EndLoop
  BY <1>7 DEF GivenStays, Given, EndLoop, SecondSet
<1>8. CASE Lose
  BY <1>8 DEF GivenStays, Given, Lose
<1>9. ASSUME NEW b \in Buses, Subscribe(b) PROVE GivenStays \/ Queues
  BY <1>9 DEF GivenStays, Given, Subscribe
<1>10. ASSUME NEW b \in Buses, Shutdown(b) PROVE GivenStays \/ Queues
  BY <1>10 DEF GivenStays, Given, Shutdown
<1>11. ASSUME NEW b \in Buses, DropBus(b) PROVE GivenStays \/ Queues
  BY <1>11 DEF GivenStays, Given, DropBus
<1>12. ASSUME NEW b \in Buses, Unsubscribe(b) PROVE GivenStays \/ Queues
  BY <1>12 DEF GivenStays, Given, Unsubscribe
<1>13. ASSUME NEW b \in Buses, Recv(b) PROVE GivenStays \/ Queues
  BY <1>13 DEF GivenStays, Given, Recv
<1>14. ASSUME NEW b \in Buses, Check(b) PROVE GivenStays \/ Queues
  BY <1>14 DEF GivenStays, Given, Check
<1>15. ASSUME NEW b \in Buses, Get(b) PROVE GivenStays \/ Queues
  BY <1>15, GetKeepsGiven DEF GivenStays
<1>16. ASSUME NEW b \in Buses, TimeOut(b) PROVE GivenStays \/ Queues
  BY <1>16 DEF GivenStays, Given, TimeOut
<1>17. CASE Finished \/ UNCHANGED vars
  BY <1>17 DEF GivenStays, Given, Finished, vars
<1> QED
  BY <1>1, <1>2, <1>3, <1>4, <1>5, <1>6, <1>7, <1>8, <1>9, <1>10, <1>11,
     <1>12, <1>13, <1>14, <1>15, <1>16, <1>17 DEF Next, Handle, Reader

\* The loop has the same ahead of it as before the step.
SameAhead ==
  /\ \A x \in Buses : Pending(x)' <=> Pending(x)
  /\ frame' = frame

\* The step takes a bus off what the loop has ahead.
Serves(b) == Put(b) \/ (Dereference(b) /\ ~alive[b])

\* The steps that change what the loop has ahead.
LEMMA AheadChange ==
  ASSUME TypeOK, SubInv, [Next]_vars
  PROVE  \/ StartDispatch \/ SameAhead
         \/ \E x \in Buses : FinalizeHere(x) \/ Serves(x)
<1> USE ReceiveAssumption DEF wsVars, busVars, readerVars
<1>1. CASE Receive
  BY <1>1 DEF TypeOK, SubInv, Pending, Dispatching, CurrentSet, LockFree, SameAhead,
     Receive
<1>2. CASE Walk
  BY <1>2 DEF TypeOK, SubInv, Pending, Dispatching, CurrentSet, LockFree, SameAhead,
     Walk, Rest
<1>3. CASE StartDispatch
  BY <1>3
<1>4. ASSUME NEW b \in Buses, Dereference(b) PROVE \/ StartDispatch \/ SameAhead
         \/ \E x \in Buses : FinalizeHere(x) \/ Serves(x)
  <2>1. CASE alive[b]
    BY <1>4, <2>1 DEF TypeOK, SubInv, Dereference, SameAhead, Pending, Dispatching
  <2> QED
    BY <1>4, <2>1 DEF Serves
<1>5. ASSUME NEW b \in Buses, Put(b) PROVE \/ StartDispatch \/ SameAhead
         \/ \E x \in Buses : FinalizeHere(x) \/ Serves(x)
  BY <1>5 DEF Serves
<1>6. ASSUME NEW b \in Buses, FinalizeHere(b) PROVE \/ StartDispatch \/ SameAhead
         \/ \E x \in Buses : FinalizeHere(x) \/ Serves(x)
  BY <1>6
<1>7. CASE EndLoop
  BY <1>7 DEF TypeOK, SubInv, Pending, Dispatching, CurrentSet, LockFree, SameAhead,
     EndLoop, SecondSet
<1>8. CASE Lose
  BY <1>8 DEF TypeOK, SubInv, Pending, Dispatching, CurrentSet, LockFree, SameAhead,
     Lose
<1>9. ASSUME NEW b \in Buses, Subscribe(b) PROVE \/ StartDispatch \/ SameAhead
         \/ \E x \in Buses : FinalizeHere(x) \/ Serves(x)
  BY <1>9 DEF TypeOK, SubInv, Pending, Dispatching, CurrentSet, LockFree, SameAhead,
     Subscribe
<1>10. ASSUME NEW b \in Buses, Shutdown(b) PROVE \/ StartDispatch \/ SameAhead
         \/ \E x \in Buses : FinalizeHere(x) \/ Serves(x)
  BY <1>10 DEF TypeOK, SubInv, Pending, Dispatching, CurrentSet, LockFree, SameAhead,
     Shutdown
<1>11. ASSUME NEW b \in Buses, DropBus(b) PROVE \/ StartDispatch \/ SameAhead
         \/ \E x \in Buses : FinalizeHere(x) \/ Serves(x)
  BY <1>11 DEF TypeOK, SubInv, Pending, Dispatching, CurrentSet, LockFree, SameAhead,
     DropBus
<1>12. ASSUME NEW b \in Buses, Unsubscribe(b) PROVE \/ StartDispatch \/ SameAhead
         \/ \E x \in Buses : FinalizeHere(x) \/ Serves(x)
  BY <1>12 DEF TypeOK, SubInv, Pending, Dispatching, CurrentSet, LockFree, SameAhead,
     Unsubscribe
<1>13. ASSUME NEW b \in Buses, Recv(b) PROVE \/ StartDispatch \/ SameAhead
         \/ \E x \in Buses : FinalizeHere(x) \/ Serves(x)
  BY <1>13 DEF TypeOK, SubInv, Pending, Dispatching, CurrentSet, LockFree, SameAhead,
     Recv
<1>14. ASSUME NEW b \in Buses, Check(b) PROVE \/ StartDispatch \/ SameAhead
         \/ \E x \in Buses : FinalizeHere(x) \/ Serves(x)
  BY <1>14 DEF TypeOK, SubInv, Pending, Dispatching, CurrentSet, LockFree, SameAhead,
     Check
<1>15. ASSUME NEW b \in Buses, Get(b) PROVE \/ StartDispatch \/ SameAhead
         \/ \E x \in Buses : FinalizeHere(x) \/ Serves(x)
  BY <1>15 DEF TypeOK, SubInv, Pending, Dispatching, CurrentSet, LockFree, SameAhead,
     Get
<1>16. ASSUME NEW b \in Buses, TimeOut(b) PROVE \/ StartDispatch \/ SameAhead
         \/ \E x \in Buses : FinalizeHere(x) \/ Serves(x)
  BY <1>16 DEF TypeOK, SubInv, Pending, Dispatching, CurrentSet, LockFree, SameAhead,
     TimeOut
<1>17. CASE Finished \/ UNCHANGED vars
  BY <1>17 DEF TypeOK, SubInv, Pending, Dispatching, CurrentSet, LockFree, SameAhead,
     Finished, vars
<1> QED
  BY <1>1, <1>2, <1>3, <1>4, <1>5, <1>6, <1>7, <1>8, <1>9, <1>10, <1>11,
     <1>12, <1>13, <1>14, <1>15, <1>16, <1>17 DEF Next, Handle, Reader

\* The frame of a bus that is served is settled, and no other bus is touched.
LEMMA ServedChange ==
  ASSUME TypeOK, SubInv, NEW b \in Buses, Serves(b)
  PROVE  /\ Pending(b) /\ ~Pending(b)' /\ frame' = frame
         /\ \A x \in Buses : x # b => (Pending(x)' <=> Pending(x))
<1>1. /\ Dispatching /\ Dispatching' /\ UNCHANGED <<wpc, frame, subscribers>>
      /\ b \in CurrentSet /\ temp' = NONE /\ b \notin todo' /\ b \in todo \cup {temp}
      /\ \A x \in Buses : x # b => (x \in todo' <=> x \in todo) /\ x # temp
  BY ReceiveAssumption DEF TypeOK, SubInv, Serves, Put, Dereference, Dispatching
<1>2. wpc = "channel" => frame.channel \in Channels
  BY DEF TypeOK, Frames
<1>3. wpc = "channel" => b \notin subscribers[ALL]
  BY <1>1, <1>2, ReceiveAssumption DEF SubInv, CurrentSet
<1>4. NONE \notin Buses
  BY ReceiveAssumption
<1> QED
  BY <1>1, <1>3, <1>4 DEF Pending

\* Only StartDispatch offers a frame.
LEMMA OfferedStays ==
  ASSUME [Next]_vars
  PROVE  StartDispatch \/ UNCHANGED offered
BY DEF Next, Handle, Reader, Receive, Walk, Dereference, Put, FinalizeHere, EndLoop, Lose,
  Subscribe, Shutdown, DropBus, Unsubscribe, Recv, Check, Get, TimeOut, Finished, vars,
  readerVars

\* StartDispatch offers the frame to those that the two loops will run over; it is
\* younger than all that was offered.
LEMMA StartOffers ==
  ASSUME TypeOK, SubInv, NumberInv, StartDispatch
  PROVE  /\ frame' \in Frames
         /\ \A b \in Buses : Pending(b)' <=>
              b \in subscribers[frame'.channel] \cup subscribers[ALL]
         /\ \A b \in Buses : ~Pending(b)
         /\ offered' = [b \in Buses |-> offered[b] \cup
                          {f \in {frame'} : b \in subscribers[frame'.channel]
                                                  \cup subscribers[ALL]}]
         /\ \A b \in Buses : \A f \in offered[b] : f \in Frames /\ f.n < frame'.n
<1>1. /\ frame' = batch[1] /\ 1 \in 1..Len(batch) /\ batch # <<>>
      /\ frame'.channel \in Channels /\ frame' \in Records
  BY TailOfBatch DEF StartDispatch
<1>2. \A b \in Buses : \A f \in offered[b] : f \in Frames /\ f.n < frame'.n
  BY <1>1 DEF TypeOK, NumberInv
<1>3. frame' \in Frames
  BY <1>1 DEF Records, Frames
<1>4. \A b \in Buses : Pending(b)' <=>
        b \in subscribers[frame'.channel] \cup subscribers[ALL]
  BY ReceiveAssumption DEF TypeOK, SubInv, LockFree, StartDispatch, Pending, Dispatching, FirstSet
<1> QED
  BY <1>2, <1>3, <1>4 DEF StartDispatch, FirstSet, SecondSet, Pending, Dispatching

\* GivenInv and InOrder are inductive: a frame that is queued is younger than all
\* that the bus was given.
LEMMA GivenStep ==
  ASSUME TypeOK, SubInv, NumberInv, OfferInv, GivenInv, InOrder, [Next]_vars
  PROVE  GivenInv' /\ InOrder'
<1>1. ASSUME GivenStays, UNCHANGED offered, frame' = frame,
             \A b \in Buses : Pending(b)' => Pending(b)
      PROVE  GivenInv' /\ InOrder'
  BY <1>1 DEF GivenStays, GivenInv, InOrder
<1>2. CASE StartDispatch
  <2>1. GivenStays
    BY <1>2 DEF GivenStays, Given, StartDispatch
  <2>2. \A b \in Buses : \A i \in 1..Len(Given(b)) :
          Given(b)[i] \in offered'[b] /\ Given(b)[i].n < frame'.n
    BY <1>2, StartOffers DEF GivenInv
  <2> QED
    BY <2>1, <2>2 DEF GivenStays, GivenInv, InOrder
<1>3. CASE Queues
  <2>1. PICK x \in Buses : Put(x) /\ ~QueueFull(x)
    BY <1>3 DEF Queues
  <2>2. /\ Pending(x) /\ ~Pending(x)' /\ frame' = frame /\ UNCHANGED offered
        /\ \A b \in Buses : b # x => (Pending(b)' <=> Pending(b))
    BY <2>1, ServedChange DEF Serves, Put
  <2>3. /\ \A b \in Buses : b # x => Given(b)' = Given(b)
        /\ Len(Given(x)') = Len(Given(x)) + 1
        /\ \A i \in 1..Len(Given(x)) : Given(x)'[i] = Given(x)[i]
        /\ Given(x)'[Len(Given(x)) + 1] = frame
    BY <2>1, PutExtendsGiven
  <2>4. Len(Given(x)) \in Nat /\ \A i \in 1..Len(Given(x)) : Given(x)[i].n \in Nat
    BY GivenType
  <2>5. frame \in offered[x] /\ \A i \in 1..Len(Given(x)) : Given(x)[i].n < frame.n
    BY <2>2 DEF OfferInv, GivenInv
  <2>6. \A i \in 1..Len(Given(x)') : Given(x)'[i] \in offered'[x]
    BY <2>2, <2>3, <2>4, <2>5 DEF GivenInv
  <2>7. \A i, j \in 1..Len(Given(x)') : i < j => Given(x)'[i].n < Given(x)'[j].n
    <3> SUFFICES ASSUME NEW i \in 1..Len(Given(x)'), NEW j \in 1..Len(Given(x)'), i < j
                 PROVE  Given(x)'[i].n < Given(x)'[j].n
      OBVIOUS
    <3>1. i \in 1..Len(Given(x))
      BY <2>3, <2>4
    <3>2. CASE j \in 1..Len(Given(x))
      BY <2>3, <3>1, <3>2 DEF InOrder
    <3>3. CASE j = Len(Given(x)) + 1
      BY <2>3, <2>5, <3>1, <3>3
    <3> QED
      BY <2>3, <2>4, <3>2, <3>3
  <2>8. ASSUME NEW b \in Buses, b # x
        PROVE  /\ \A i \in 1..Len(Given(b)') :
                    /\ Given(b)'[i] \in offered'[b]
                    /\ Pending(b)' => Given(b)'[i].n < frame'.n
               /\ \A i, j \in 1..Len(Given(b)') : i < j => Given(b)'[i].n < Given(b)'[j].n
    BY <2>2, <2>3, <2>8 DEF GivenInv, InOrder
  <2>9. GivenInv'
    BY <2>2, <2>6, <2>8 DEF GivenInv
  <2>10. InOrder'
    BY <2>7, <2>8 DEF InOrder
  <2> QED
    BY <2>9, <2>10
<1>4. CASE ~StartDispatch /\ ~Queues
  <2>1. GivenStays /\ UNCHANGED offered
    BY <1>4, GivenChange, OfferedStays
  <2>2. CASE SameAhead
    BY <1>1, <2>1, <2>2 DEF SameAhead
  <2>3. ASSUME NEW x \in Buses, FinalizeHere(x) PROVE GivenInv' /\ InOrder'
    <3>1. frame' = frame /\ \A b \in Buses : ~Pending(b)'
      BY <2>3 DEF FinalizeHere, Pending, Dispatching
    <3> QED
      BY <1>1, <2>1, <3>1
  <2>4. ASSUME NEW x \in Buses, Serves(x) PROVE GivenInv' /\ InOrder'
    <3>1. frame' = frame /\ \A b \in Buses : Pending(b)' => Pending(b)
      BY <2>4, ServedChange
    <3> QED
      BY <1>1, <2>1, <3>1
  <2> QED
    BY <1>4, <2>2, <2>3, <2>4, AheadChange
<1> QED
  BY <1>2, <1>3, <1>4

-----------------------------------------------------------------------------
(* Losses and their count. *)

\* The pairs at stake are finitely many.
LEMMA LostIsFinite ==
  ASSUME IsFiniteSet(Offers)
  PROVE  /\ IsFiniteSet(Lost) /\ IsFiniteSet(LostByLive)
         /\ Cardinality(Lost) \in Nat /\ Cardinality(LostByLive) \in Nat
<1>1. Lost \in SUBSET Offers /\ LostByLive \in SUBSET Offers
  BY DEF Lost, LostByLive, Offers, Missing
<1> QED
  BY <1>1, FS_Subset, FS_CardinalityType

\* One step offers one frame.
LEMMA OffersStep ==
  ASSUME TypeOK, SubInv, NumberInv, IsFiniteSet(Offers), [Next]_vars
  PROVE  IsFiniteSet(Offers')
<1>1. CASE UNCHANGED offered
  <2>1. Offers' = Offers
    BY <1>1 DEF Offers
  <2> QED
    BY <2>1
<1>2. CASE StartDispatch
  <2>1. Offers' \in SUBSET (Offers \cup (Buses \X {frame'}))
    BY <1>2, StartOffers DEF Offers, TypeOK
  <2>2. IsFiniteSet(Buses \X {frame'})
    BY ReceiveAssumption, FS_Product, FS_Singleton
  <2>3. IsFiniteSet(Offers \cup (Buses \X {frame'}))
    BY <2>2, FS_Union
  <2> QED
    BY <2>1, <2>3, FS_Subset
<1> QED
  BY <1>1, <1>2, OfferedStays

\* What a step loses: nothing, where neither the queues nor the loop change.
LEMMA LostStays ==
  ASSUME TypeOK, GivenStays, SameAhead, UNCHANGED offered
  PROVE  Lost' = Lost
<1>1. \A b \in Buses : Missing(b)' = Missing(b)
  BY DEF GivenStays, Missing
<1> QED
  BY <1>1 DEF SameAhead, Lost

\* A frame that is pending is not lost yet.
LEMMA StartLosesNothing ==
  ASSUME TypeOK, SubInv, NumberInv, StartDispatch
  PROVE  Lost' = Lost
<1>1. \A b \in Buses : Given(b)' = Given(b)
  BY DEF Given, StartDispatch
<1>2. /\ \A b \in Buses : Pending(b)' <=>
           b \in subscribers[frame'.channel] \cup subscribers[ALL]
      /\ \A b \in Buses : ~Pending(b)
      /\ offered' = [b \in Buses |-> offered[b] \cup
                       {f \in {frame'} : b \in subscribers[frame'.channel] \cup subscribers[ALL]}]
      /\ \A b \in Buses : \A f \in offered[b] : f \in Frames /\ f.n < frame'.n
      /\ frame' \in Frames
  BY StartOffers
<1>3. \A b \in Buses : \A f \in offered[b] : f # frame'
  BY <1>2, ReceiveAssumption DEF Frames
<1>4. ASSUME NEW b \in Buses, NEW f \in Frames
      PROVE  f \in Missing(b)' /\ ~(Pending(b)' /\ f = frame') <=>
             f \in Missing(b) /\ ~(Pending(b) /\ f = frame)
  <2>1. f \in offered'[b] <=> f \in offered[b] \/ (f = frame' /\ Pending(b)')
    BY <1>2
  <2>2. f \in Missing(b)' <=> f \in offered'[b] /\ \A i \in 1..Len(Given(b)) : Given(b)[i] # f
    BY <1>1 DEF Missing
  <2>3. f \in Missing(b) <=> f \in offered[b] /\ \A i \in 1..Len(Given(b)) : Given(b)[i] # f
    BY DEF Missing
  <2> QED
    BY <1>2, <1>3, <2>1, <2>2, <2>3
<1> QED
  BY <1>4 DEF Lost

\* The turn of the loop for one bus settles one pair: lost, or not.
LEMMA ServedLoses ==
  ASSUME TypeOK, SubInv, OfferInv, GivenInv, NEW b \in Buses, Serves(b)
  PROVE  /\ <<b, frame>> \notin Lost
         /\ Put(b) /\ ~QueueFull(b) => Lost' = Lost
         /\ ~(Put(b) /\ ~QueueFull(b)) => Lost' = Lost \cup {<<b, frame>>}
<1>1. /\ Pending(b) /\ ~Pending(b)' /\ frame' = frame
      /\ \A x \in Buses : x # b => (Pending(x)' <=> Pending(x))
  BY ServedChange
<1>2. frame \in Frames
  BY <1>1 DEF TypeOK, Pending, Dispatching
<1>3. UNCHANGED offered
  BY DEF Serves, Put, Dereference
<1>4. frame \in Missing(b)
  <2>1. frame \in offered[b] /\ \A i \in 1..Len(Given(b)) : Given(b)[i].n < frame.n
    BY <1>1 DEF OfferInv, GivenInv
  <2>2. \A i \in 1..Len(Given(b)) : Given(b)[i].n \in Nat
    BY GivenType
  <2> QED
    BY <2>1, <2>2 DEF Missing
<1>5. <<b, frame>> \notin Lost
  BY <1>1 DEF Lost
<1>6. CASE Put(b) /\ ~QueueFull(b)
  <2>1. /\ \A x \in Buses : x # b => Given(x)' = Given(x)
        /\ Len(Given(b)') = Len(Given(b)) + 1
        /\ \A i \in 1..Len(Given(b)) : Given(b)'[i] = Given(b)[i]
        /\ Given(b)'[Len(Given(b)) + 1] = frame
    BY <1>6, PutExtendsGiven
  <2>2. \A x \in Buses : x # b => Missing(x)' = Missing(x)
    BY <1>3, <2>1 DEF Missing
  <2>3. Len(Given(b)) \in Nat
    BY GivenType
  <2>4. \A f : f \in Missing(b)' <=> f \in Missing(b) /\ f # frame
    BY <1>3, <2>1, <2>3 DEF Missing
  <2> QED
    BY <1>1, <1>5, <1>6, <2>2, <2>4 DEF Lost
<1>7. CASE ~(Put(b) /\ ~QueueFull(b))
  <2>1. \A x \in Buses : Given(x)' = Given(x)
    BY <1>7 DEF Serves, Put, Dereference, Given
  <2>2. \A x \in Buses : Missing(x)' = Missing(x)
    BY <1>3, <2>1 DEF Missing
  <2> QED
    BY <1>1, <1>2, <1>4, <1>5, <1>7, <2>2 DEF Lost
<1> QED
  BY <1>5, <1>6, <1>7

\* Which steps count, and which clear a weak reference.
DropsStay == dropped' = dropped /\ \A x \in Buses : alive'[x] => alive[x]
CountsOne == \E x \in Buses : Put(x) /\ QueueFull(x)

\* Only put_nowait on a full queue counts, and no weak reference comes back.
LEMMA DropsChange ==
  ASSUME TypeOK, SubInv, [Next]_vars
  PROVE  DropsStay \/ CountsOne
<1> USE DEF wsVars, busVars, readerVars
<1>1. CASE Receive
  BY <1>1 DEF TypeOK, DropsStay, Receive
<1>2. CASE Walk
  BY <1>2 DEF TypeOK, DropsStay, Walk, Rest
<1>3. CASE StartDispatch
  BY <1>3 DEF TypeOK, DropsStay, StartDispatch, FirstSet, SecondSet
<1>4. ASSUME NEW b \in Buses, Dereference(b) PROVE DropsStay \/ CountsOne
  BY <1>4 DEF TypeOK, DropsStay, Dereference
<1>5. ASSUME NEW b \in Buses, Put(b) PROVE DropsStay \/ CountsOne
  BY <1>5 DEF DropsStay, CountsOne, Put
<1>6. ASSUME NEW b \in Buses, FinalizeHere(b) PROVE DropsStay \/ CountsOne
  BY <1>6 DEF TypeOK, DropsStay, FinalizeHere
<1>7. CASE EndLoop
  BY <1>7 DEF TypeOK, DropsStay, EndLoop, SecondSet
<1>8. CASE Lose
  BY <1>8 DEF TypeOK, DropsStay, Lose
<1>9. ASSUME NEW b \in Buses, Subscribe(b) PROVE DropsStay \/ CountsOne
  BY <1>9 DEF TypeOK, DropsStay, Subscribe
<1>10. ASSUME NEW b \in Buses, Shutdown(b) PROVE DropsStay \/ CountsOne
  BY <1>10 DEF TypeOK, DropsStay, Shutdown
<1>11. ASSUME NEW b \in Buses, DropBus(b) PROVE DropsStay \/ CountsOne
  BY <1>11 DEF TypeOK, SubInv, DropsStay, DropBus
<1>12. ASSUME NEW b \in Buses, Unsubscribe(b) PROVE DropsStay \/ CountsOne
  BY <1>12 DEF TypeOK, DropsStay, Unsubscribe
<1>13. ASSUME NEW b \in Buses, Recv(b) PROVE DropsStay \/ CountsOne
  BY <1>13 DEF TypeOK, DropsStay, Recv
<1>14. ASSUME NEW b \in Buses, Check(b) PROVE DropsStay \/ CountsOne
  BY <1>14 DEF TypeOK, DropsStay, Check
<1>15. ASSUME NEW b \in Buses, Get(b) PROVE DropsStay \/ CountsOne
  BY <1>15 DEF TypeOK, DropsStay, Get
<1>16. ASSUME NEW b \in Buses, TimeOut(b) PROVE DropsStay \/ CountsOne
  BY <1>16 DEF TypeOK, DropsStay, TimeOut
<1>17. CASE Finished \/ UNCHANGED vars
  BY <1>17 DEF TypeOK, DropsStay, Finished, vars
<1> QED
  BY <1>1, <1>2, <1>3, <1>4, <1>5, <1>6, <1>7, <1>8, <1>9, <1>10, <1>11,
     <1>12, <1>13, <1>14, <1>15, <1>16, <1>17 DEF Next, Handle, Reader

\* No step leaves the wait for itself.
LEMMA FinalizeStays ==
  ASSUME [Next]_vars, wpc = "finalize"
  PROVE  wpc' = "finalize"
BY DEF Next, Handle, Reader, Receive, Walk, StartDispatch, Dereference, Put, FinalizeHere,
  EndLoop, Lose, Subscribe, Shutdown, DropBus, Unsubscribe, Recv, Check, Get, TimeOut,
  Finished, vars, readerVars, wsVars

\* CountInv is inductive: a turn of the loop for a live bus that loses the frame
\* counts it, and a turn for a collected bus loses it uncounted.
LEMMA CountStep ==
  ASSUME TypeOK, SubInv, NumberInv, OfferInv, GivenInv, CountInv, [Next]_vars
  PROVE  CountInv'
<1>1. IsFiniteSet(Offers) /\ IsFiniteSet(Offers')
  BY OffersStep DEF CountInv
<1>2. /\ IsFiniteSet(Lost) /\ IsFiniteSet(LostByLive)
      /\ Cardinality(Lost) \in Nat /\ Cardinality(LostByLive) \in Nat
  BY <1>1, LostIsFinite
<1>3. dropped \in Nat
  BY DEF TypeOK
<1> SUFFICES ASSUME wpc' # "finalize"
             PROVE  dropped' <= Cardinality(Lost') /\ Cardinality(LostByLive') <= dropped'
  BY <1>1 DEF CountInv
<1>4. dropped <= Cardinality(Lost) /\ Cardinality(LostByLive) <= dropped
  BY FinalizeStays DEF CountInv
\* Nothing is lost and nothing counted; a weak reference may be cleared.
<1>5. ASSUME Lost' = Lost, DropsStay
      PROVE  dropped' <= Cardinality(Lost') /\ Cardinality(LostByLive') <= dropped'
  <2>1. LostByLive' \in SUBSET LostByLive
    BY <1>5 DEF LostByLive, Lost, DropsStay
  <2>2. Cardinality(LostByLive') <= Cardinality(LostByLive) /\ Cardinality(LostByLive') \in Nat
    BY <1>2, <2>1, FS_Subset, FS_CardinalityType
  <2> QED
    BY <1>2, <1>3, <1>4, <1>5, <2>2 DEF DropsStay
<1>6. CASE StartDispatch
  <2>1. DropsStay
    BY <1>6 DEF DropsStay, StartDispatch, busVars
  <2> QED
    BY <1>5, <1>6, <2>1, StartLosesNothing
<1>7. ASSUME NEW b \in Buses, Serves(b)
      PROVE  dropped' <= Cardinality(Lost') /\ Cardinality(LostByLive') <= dropped'
  <2>1. UNCHANGED alive
    BY <1>7 DEF Serves, Put, Dereference, busVars
  <2>2. CASE Put(b) /\ ~QueueFull(b)
    <3>1. DropsStay
      BY <2>1, <2>2 DEF DropsStay, Put
    <3> QED
      BY <1>5, <1>7, <2>2, <3>1, ServedLoses
  <2>3. CASE ~(Put(b) /\ ~QueueFull(b))
    <3>1. Lost' = Lost \cup {<<b, frame>>} /\ <<b, frame>> \notin Lost
      BY <1>7, <2>3, ServedLoses
    <3>2. Cardinality(Lost') = Cardinality(Lost) + 1
      BY <1>2, <3>1, FS_AddElement
    <3>3. CASE Put(b) /\ QueueFull(b)
      <4>1. dropped' = dropped + 1
        BY <3>3 DEF Put, CountDrop
      <4>2. LostByLive' \in SUBSET (LostByLive \cup {<<b, frame>>})
        BY <2>1, <3>1 DEF LostByLive
      <4>3. /\ IsFiniteSet(LostByLive \cup {<<b, frame>>})
            /\ Cardinality(LostByLive \cup {<<b, frame>>}) = Cardinality(LostByLive) + 1
        <5>1. <<b, frame>> \notin LostByLive
          BY <3>1 DEF LostByLive
        <5> QED
          BY <1>2, <5>1, FS_AddElement
      <4>4. /\ Cardinality(LostByLive') <= Cardinality(LostByLive \cup {<<b, frame>>})
            /\ Cardinality(LostByLive') \in Nat
        BY <4>2, <4>3, FS_Subset, FS_CardinalityType
      <4> QED
        BY <1>2, <1>3, <1>4, <3>2, <4>1, <4>3, <4>4
    <3>4. CASE Dereference(b) /\ ~alive[b]
      <4>1. dropped' = dropped
        BY <3>4 DEF Dereference
      <4>2. LostByLive' = LostByLive
        BY <2>1, <3>1, <3>4 DEF LostByLive
      <4> QED
        BY <1>2, <1>3, <1>4, <3>2, <4>1, <4>2
    <3> QED
      BY <1>7, <2>3, <3>3, <3>4 DEF Serves
  <2> QED
    BY <2>2, <2>3
<1>8. ASSUME NEW b \in Buses, FinalizeHere(b)
      PROVE  FALSE
  BY <1>8 DEF FinalizeHere
<1>9. CASE SameAhead /\ ~StartDispatch /\ ~\E x \in Buses : Serves(x)
  <2>1. GivenStays /\ UNCHANGED offered /\ DropsStay
    BY <1>9, GivenChange, OfferedStays, DropsChange DEF Queues, CountsOne, Serves
  <2> QED
    BY <1>5, <1>9, <2>1, LostStays
<1> QED
  BY <1>6, <1>7, <1>8, <1>9, AheadChange

-----------------------------------------------------------------------------
(* The theorems. *)

\* The inductive invariant.
ReceiveInv ==
  TypeOK /\ SubInv /\ NumberInv /\ OfferInv /\ GivenInv /\ InOrder /\ DueInv /\ CountInv

\* ReceiveInv holds throughout.
LEMMA ReceiveInvInductive == Spec => []ReceiveInv
<1>1. Init => ReceiveInv
  <2> SUFFICES ASSUME Init PROVE ReceiveInv
    OBVIOUS
  <2> USE ReceiveAssumption
  <2>1. TypeOK
    BY TypeInit
  <2>2. SubInv /\ NumberInv /\ OfferInv /\ DueInv
    BY DEF Init, SubInv, NumberInv, OfferInv, DueInv, LockFree, Pending, Dispatching
  <2>3. \A b \in Buses : Len(Given(b)) = 0
    <3>1. \A b \in Buses : got[b] = <<>> /\ queue[b] = <<>>
      BY DEF Init
    <3>2. <<>> \in Seq(Frames) /\ Len(<<>>) = 0
      BY EmptySeq
    <3>3. Len(<<>> \o <<>>) = 0
      BY <3>2, ConcatProperties
    <3> QED
      BY <3>1, <3>3 DEF Given
  <2>4. GivenInv /\ InOrder
    BY <2>3 DEF GivenInv, InOrder
  <2>5. CountInv
    <3>1. Offers = {} /\ Lost = {} /\ LostByLive = {} /\ dropped = 0
      BY DEF Init, Offers, Lost, LostByLive, Missing
    <3> QED
      BY <3>1, FS_EmptySet DEF CountInv
  <2> QED
    BY <2>1, <2>2, <2>4, <2>5 DEF ReceiveInv
<1>2. ReceiveInv /\ [Next]_vars => ReceiveInv'
  BY TypeStep, SubStep, NumberStep, OfferStep, GivenStep, DueStep, CountStep DEF ReceiveInv
<1> QED
  BY <1>1, <1>2, PTL DEF Spec

\* Whatever is dropped, subscribed, shut down or collected in between, a bus gets
\* frames in the order the backend sent them, none twice (recv).
THEOREM FramesInOrder == Spec => []InOrder
<1>1. ReceiveInv => InOrder
  BY DEF ReceiveInv
<1> QED
  BY <1>1, ReceiveInvInductive, PTL

\* A bus gets only frames of the channel it subscribed to
\* (_dispatch_to_subscribers).
THEOREM FramesRouted == Spec => []RoutedByChannel
<1>1. ReceiveInv => RoutedByChannel
  BY DEF ReceiveInv, GivenInv, OfferInv, RoutedByChannel
<1> QED
  BY <1>1, ReceiveInvInductive, PTL

\* Between two messages, a bus that is up was dispatched every frame of its channel
\* that arrived in front of a record that is cut off (_handle_binary_message).
THEOREM BatchesKept == Spec => []RestOfBatchKept
<1>1. ReceiveInv => RestOfBatchKept
  BY OwedNothing DEF ReceiveInv, DueInv, RestOfBatchKept
<1> QED
  BY <1>1, ReceiveInvInductive, PTL

\* Outside a dispatch, _dropped_messages is the number of frames that were dispatched
\* to a bus and not queued for it, collected buses aside.
THEOREM LossesCounted == Spec => []DropsCounted
<1>1. ReceiveInv => DropsCounted
  <2> SUFFICES ASSUME ReceiveInv, LockFree PROVE DropsCounted
    BY DEF DropsCounted
  <2> DEFINE live == {b \in Buses : alive[b]}
  <2>1. \A b \in Buses : ~Pending(b) /\ Missing(b) \subseteq Frames
    BY DEF LockFree, Pending, Dispatching, Missing, ReceiveInv, TypeOK
  <2>2. Losses(Buses) = Lost
    BY <2>1 DEF Losses, Lost
  <2>3. Losses(live) = LostByLive
    BY <2>1 DEF Losses, Lost, LostByLive
  <2>4. /\ dropped <= Cardinality(Lost) /\ Cardinality(LostByLive) <= dropped
        /\ Cardinality(Lost) \in Nat /\ Cardinality(LostByLive) \in Nat /\ dropped \in Nat
    BY LostIsFinite DEF ReceiveInv, CountInv, LockFree, TypeOK
  <2> QED
    BY <2>2, <2>3, <2>4 DEF DropsCounted
<1> QED
  BY <1>1, ReceiveInvInductive, PTL

\* Once unsubscribe returned, nothing is put into the queue of the bus.
THEOREM QueueQuiet == Spec => QuietAfterUnsubscribe
<1>1. ReceiveInv /\ [Next]_vars =>
        [\A b \in Buses : bpc[b] = "down" => Len(queue'[b]) <= Len(queue[b])]_vars
  <2> SUFFICES ASSUME ReceiveInv, [Next]_vars, NEW b \in Buses, bpc[b] = "down"
               PROVE  Len(queue'[b]) <= Len(queue[b])
    OBVIOUS
  <2>1. queue[b] \in Seq(Frames) /\ Len(queue[b]) \in Nat /\ TypeOK
    BY GivenType, LenProperties DEF ReceiveInv
  <2>2. CASE queue'[b] = queue[b]
    BY <2>1, <2>2
  <2>3. ASSUME NEW x \in Buses, Get(x) PROVE Len(queue'[b]) <= Len(queue[b])
    <3>1. CASE x = b
      <4>1. queue[b] # <<>> /\ queue'[b] = Tail(queue[b])
        BY <2>1, <2>3, <3>1 DEF Get, TypeOK
      <4> QED
        BY <2>1, <4>1, HeadTailProperties
    <3>2. CASE x # b
      BY <2>1, <2>2, <2>3, <3>2 DEF Get, TypeOK
    <3> QED
      BY <3>1, <3>2
  <2>4. ASSUME NEW x \in Buses, Put(x) PROVE Len(queue'[b]) <= Len(queue[b])
    <3>1. x \in CurrentSet
      BY <2>4, ReceiveAssumption DEF ReceiveInv, SubInv, Put, Dispatching
    <3>2. frame.channel \in Channels \/ wpc # "channel"
      BY DEF ReceiveInv, TypeOK, Frames
    <3>3. bpc[x] # "down"
      BY <3>1, <3>2 DEF ReceiveInv, SubInv, CurrentSet
    <3>4. x # b
      BY <3>3
    <3> QED
      BY <2>1, <2>2, <2>4, <3>4 DEF Put, TypeOK
  <2>5. queue' = queue \/ \E x \in Buses : Get(x) \/ Put(x)
    BY DEF Next, Handle, Reader, Receive, Walk, StartDispatch, Dereference, FinalizeHere,
      EndLoop, Lose, Subscribe, Shutdown, DropBus, Unsubscribe, Recv, Check, TimeOut,
      Finished, vars
  <2> QED
    BY <2>2, <2>3, <2>4, <2>5
<1> QED
  BY <1>1, ReceiveInvInductive, PTL DEF Spec, QuietAfterUnsubscribe
=============================================================================
