---------------------------- MODULE HelixReceive ----------------------------
(***************************************************************************)
(* The receive path of one HelixConnectionManager: the WebSocket thread    *)
(* that decrypts a message, walks its batch of records and hands each CAN  *)
(* frame to the subscribers of its channel, the bounded queue of each      *)
(* HelixBus, the threads that call recv, and the end of a bus, by shutdown *)
(* or because its last reference is dropped (can_helix/connection.py       *)
(* subscribe to _dispatch_to_subscribers, can_helix/bus.py _recv_internal  *)
(* and shutdown).                                                          *)
(*                                                                         *)
(* Threads meet at _subscribers_lock.  Only the WebSocket thread holds it  *)
(* over more than one step; the critical sections of subscribe and         *)
(* unsubscribe are one step each.  Counting references and closing the     *)
(* socket are the subject of HelixConnection.                              *)
(***************************************************************************)
EXTENDS Naturals, Sequences, FiniteSets

CONSTANTS
  Buses,        \* the HelixBus objects
  NONE,         \* Python's None
  Channels,     \* CAN channels, as named in a frame
  ALL,          \* a negative channel argument: subscribe to every channel
  ChannelOf,    \* [Buses -> Channels \cup {ALL}]: the channel argument
  QueueSize,    \* recv_queue_size
  Timed,        \* the buses whose recv is called with a timeout
  Drops,        \* TRUE: the application may drop a bus without shutdown
  Loses,        \* TRUE: the connection may be lost
  MaxRecords,   \* bound: records the backend sends
  MaxBatch      \* bound: records in one message

ASSUME ReceiveAssumption ==
  /\ IsFiniteSet(Buses) /\ NONE \notin Buses
  /\ ALL \notin Channels
  /\ ChannelOf \in [Buses -> Channels \cup {ALL}]
  /\ QueueSize \in Nat \ {0}
  /\ MaxRecords \in Nat /\ MaxBatch \in Nat
  /\ Timed \subseteq Buses
  /\ {Drops, Loses} \subseteq BOOLEAN

VARIABLES
  subscribers,  \* _subscribers and _all_channel_subscribers: the buses in the
                \* set of each channel, and of ALL
  wpc,          \* where the WebSocket thread stands
  batch,        \* the records of the message that are still to be walked
  frame,        \* the frame being dispatched
  todo,         \* the buses that the loop of _dispatch_to_subscribers has ahead
  deadRefs,     \* dead_refs of _dispatch_to_subscribers
  temp,         \* the bus that the result of bus_ref() keeps alive
  dropped,      \* _dropped_messages
  connected,    \* is_connected
  queue,        \* bus._recv_queue
  alive,        \* the weak reference to the bus is not cleared
  bpc,          \* where the life of the bus stands
  rpc,          \* where the thread that reads the bus stands
  sent,         \* history: the number of records sent by the backend
  due,          \* history: the frames of messages that arrived for the bus while
                \* it was subscribed
  offered,      \* history: the frames dispatched to the bus while subscribed
  got           \* history: the frames that recv took from the queue

wsVars == <<wpc, batch, frame, todo, deadRefs, temp>>
busVars == <<alive, bpc>>
vars == <<subscribers, wpc, batch, frame, todo, deadRefs, temp, dropped,
          connected, queue, alive, bpc, rpc, sent, due, offered, got>>

\* A record of a message: a CAN frame of some channel, a record that is skipped
\* (no CAN RX message, or decode_can_rx raises ValueError), or one that is cut
\* off by the end of the message.
Kinds == Channels \cup {"skip", "cut"}

Frames == [channel : Channels, n : 1..MaxRecords]

TypeOK ==
  /\ subscribers \in [Channels \cup {ALL} -> SUBSET Buses]
  /\ wpc \in {"read", "walk", "channel", "all", "finalize"}
  /\ batch \in Seq([channel : Kinds, n : 1..MaxRecords])
  /\ frame \in Frames \cup {NONE}
  /\ wpc \in {"channel", "all", "finalize"} => frame \in Frames
  /\ todo \subseteq Buses
  /\ deadRefs \subseteq Buses
  /\ temp \in Buses \cup {NONE}
  /\ dropped \in Nat
  /\ connected \in BOOLEAN
  /\ queue \in [Buses -> Seq(Frames)]
  /\ \A b \in Buses : Len(queue[b]) <= QueueSize
  /\ alive \in [Buses -> BOOLEAN]
  /\ bpc \in [Buses -> {"new", "up", "orphan", "unsubscribe", "down"}]
  /\ rpc \in [Buses -> {"out", "called", "get"}]
  /\ sent \in Nat
  /\ due \in [Buses -> SUBSET Frames]
  /\ offered \in [Buses -> SUBSET Frames]
  /\ got \in [Buses -> Seq(Frames)]

Init ==
  /\ subscribers = [c \in Channels \cup {ALL} |-> {}]
  /\ wpc = "read"
  /\ batch = <<>>
  /\ frame = NONE
  /\ todo = {}
  /\ deadRefs = {}
  /\ temp = NONE
  /\ dropped = 0
  /\ connected = TRUE
  /\ queue = [b \in Buses |-> <<>>]
  /\ alive = [b \in Buses |-> TRUE]
  /\ bpc = [b \in Buses |-> "new"]
  /\ rpc = [b \in Buses |-> "out"]
  /\ sent = 0
  /\ due = [b \in Buses |-> {}]
  /\ offered = [b \in Buses |-> {}]
  /\ got = [b \in Buses |-> <<>>]

-----------------------------------------------------------------------------
(* The WebSocket thread. *)

\* The WebSocket thread does not hold _subscribers_lock.  (Here and below, a
\* definition whose name the next one extends or contradicts is a mutant of it.)
LockIgnored == TRUE
LockFree == wpc \notin {"channel", "all", "finalize"}

\* The frames of a message that its receiver has to deliver to a bus: those in
\* front of a record that is cut off.
Owed(message, b) ==
  {f \in {message[i] : i \in {j \in DOMAIN message :
                               \A k \in 1..j : message[k].channel # "cut"}} :
     f.channel \in Channels /\ ChannelOf[b] \in {f.channel, ALL}}

\* on_message: the backend sends a batch, and decrypt_ws accepts it or not.
Receive ==
  /\ wpc = "read" /\ connected
  /\ \E len \in 1..MaxBatch : \E kinds \in [1..len -> Kinds] :
       LET message == [i \in 1..len |-> [channel |-> kinds[i], n |-> sent + i]]
       IN  /\ sent + len <= MaxRecords
           /\ sent' = sent + len
           /\ \/ /\ batch' = message
                 /\ wpc' = "walk"
                 /\ due' = [b \in Buses |-> IF bpc[b] = "up"
                                           THEN due[b] \cup Owed(message, b)
                                           ELSE due[b]]
              \/ UNCHANGED <<batch, wpc, due>>
  /\ UNCHANGED <<subscribers, frame, todo, deadRefs, temp, dropped, connected,
                 queue, rpc, offered, got, busVars>>

\* The end of the message, or a record that goes beyond it, ends the walk; a
\* record that cannot be used is skipped.
RestUnlessUsable(record) == IF record.channel \in {"skip", "cut"} THEN <<>> ELSE Tail(batch)
Rest(record) == IF record.channel = "cut" THEN <<>> ELSE Tail(batch)

Walk ==
  /\ wpc = "walk"
  /\ IF batch = <<>>
     THEN wpc' = "read" /\ UNCHANGED batch
     ELSE /\ Head(batch).channel \notin Channels
          /\ batch' = Rest(Head(batch))
          /\ UNCHANGED wpc
  /\ UNCHANGED <<subscribers, frame, todo, deadRefs, temp, dropped, connected,
                 queue, rpc, sent, due, offered, got, busVars>>

\* The sets that a frame is dispatched to, one after the other.
EverySet(f) == UNION {subscribers[c] : c \in Channels}
FirstSet(f) == subscribers[f.channel]
BothSets(f) == FirstSet(f) \cup subscribers[ALL]
SecondSet(f) == subscribers[ALL]

\* A CAN frame: take _subscribers_lock and start with the channel's set.
StartDispatch ==
  /\ wpc = "walk" /\ batch # <<>> /\ Head(batch).channel \in Channels
  /\ wpc' = "channel"
  /\ frame' = Head(batch)
  /\ batch' = Tail(batch)
  /\ todo' = FirstSet(Head(batch))
  /\ deadRefs' = {}
  /\ offered' = [b \in Buses |-> offered[b] \cup
                   {f \in {Head(batch)} : b \in FirstSet(f) \cup SecondSet(f)}]
  /\ UNCHANGED <<subscribers, temp, dropped, connected, queue, rpc, sent, due, got,
                 busVars>>

\* One turn of the loop begins: bus_ref() finds the bus, and keeps it alive
\* until the comparison with None is done, or finds it collected.
Dereference(b) ==
  /\ wpc \in {"channel", "all"} /\ temp = NONE /\ b \in todo
  /\ todo' = todo \ {b}
  /\ IF alive[b] THEN temp' = b /\ UNCHANGED deadRefs
                 ELSE deadRefs' = deadRefs \cup {b} /\ UNCHANGED temp
  /\ UNCHANGED <<subscribers, wpc, batch, frame, dropped, connected, queue, rpc,
                 sent, due, offered, got, busVars>>

\* queue.put_nowait on the queue of a bus, which raises queue.Full.
QueueFullOffByOne(b) == Len(queue[b]) > QueueSize
QueueFull(b) == Len(queue[b]) >= QueueSize
CountDropNever == dropped
CountDrop == dropped + 1

\* queue.put, which waits for room.
PutBlocking(b) ==
  /\ wpc \in {"channel", "all"} /\ temp = b
  /\ bpc[b] # "orphan" /\ ~QueueFull(b)
  /\ temp' = NONE
  /\ queue' = [queue EXCEPT ![b] = Append(@, frame)]
  /\ UNCHANGED <<subscribers, wpc, batch, frame, todo, deadRefs, dropped, connected,
                 rpc, sent, due, offered, got, busVars>>

\* The turn ends: the temporary reference goes, the frame is queued or counted
\* as dropped.
Put(b) ==
  /\ wpc \in {"channel", "all"} /\ temp = b
  /\ bpc[b] # "orphan"
  /\ temp' = NONE
  /\ IF QueueFull(b)
     THEN dropped' = CountDrop /\ UNCHANGED queue
     ELSE queue' = [queue EXCEPT ![b] = Append(@, frame)] /\ UNCHANGED dropped
  /\ UNCHANGED <<subscribers, wpc, batch, frame, todo, deadRefs, connected, rpc,
                 sent, due, offered, got, busVars>>

\* The temporary reference was the last one: the finaliser of the bus runs in
\* the WebSocket thread, and shutdown waits for _subscribers_lock.
FinalizeHere(b) ==
  /\ wpc \in {"channel", "all"} /\ temp = b
  /\ bpc[b] = "orphan"
  /\ wpc' = "finalize"
  /\ temp' = NONE
  /\ bpc' = [bpc EXCEPT ![b] = "unsubscribe"]
  /\ UNCHANGED <<subscribers, batch, frame, todo, deadRefs, dropped, connected,
                 queue, alive, rpc, sent, due, offered, got>>

\* The loop ends: dead references are discarded; after the channel's set come
\* the subscribers to all channels, then the lock is released.
EndLoop ==
  /\ wpc \in {"channel", "all"} /\ temp = NONE /\ todo = {}
  /\ subscribers' = [subscribers EXCEPT
                       ![IF wpc = "all" THEN ALL ELSE frame.channel] = @ \ deadRefs]
  /\ deadRefs' = {}
  /\ IF wpc = "channel" THEN wpc' = "all" /\ todo' = SecondSet(frame)
                        ELSE wpc' = "walk" /\ UNCHANGED todo
  /\ UNCHANGED <<batch, frame, temp, dropped, connected, queue, rpc, sent,
                 due, offered, got, busVars>>

\* The connection is lost: on_close, after the last message was handled.
Lose ==
  /\ Loses /\ connected /\ wpc = "read"
  /\ connected' = FALSE
  /\ UNCHANGED <<subscribers, wsVars, dropped, queue, rpc, sent, due, offered, got,
                 busVars>>

-----------------------------------------------------------------------------
(* The life of a bus. *)

Subscribe(b) ==
  /\ bpc[b] = "new" /\ LockFree
  /\ bpc' = [bpc EXCEPT ![b] = "up"]
  /\ subscribers' = [subscribers EXCEPT ![ChannelOf[b]] = @ \cup {b}]
  /\ UNCHANGED <<wsVars, dropped, connected, queue, alive, rpc, sent, due, offered, got>>

\* shutdown sets the flag.
Shutdown(b) ==
  /\ bpc[b] = "up"
  /\ bpc' = [bpc EXCEPT ![b] = "unsubscribe"]
  /\ UNCHANGED <<subscribers, wsVars, dropped, connected, queue, alive, rpc, sent,
                 due, offered, got>>

\* The application drops its last reference.  The finaliser calls shutdown, at
\* once in this thread, where the cyclic collector has cleared the weak
\* reference and reference counting has not, or in the WebSocket thread when
\* that one holds a reference too.
DropBus(b) ==
  /\ Drops /\ bpc[b] = "up" /\ rpc[b] = "out"
  /\ bpc' = [bpc EXCEPT ![b] = IF temp = b THEN "orphan" ELSE "unsubscribe"]
  /\ \E a \in BOOLEAN : alive' = [alive EXCEPT ![b] = a \/ temp = b]
  /\ UNCHANGED <<subscribers, wsVars, dropped, connected, queue, rpc, sent,
                 due, offered, got>>

Unsubscribe(b) ==
  /\ bpc[b] = "unsubscribe" /\ LockFree
  /\ bpc' = [bpc EXCEPT ![b] = "down"]
  /\ subscribers' = [subscribers EXCEPT ![ChannelOf[b]] = @ \ {b}]
  /\ UNCHANGED <<wsVars, dropped, connected, queue, alive, rpc, sent, due, offered, got>>

-----------------------------------------------------------------------------
(* recv of python-can's BusABC, which calls _recv_internal in a loop. *)

readerVars == <<subscribers, wsVars, dropped, connected, busVars, sent, due, offered>>

Recv(b) ==
  /\ bpc[b] = "up" /\ rpc[b] = "out"
  /\ rpc' = [rpc EXCEPT ![b] = "called"]
  /\ UNCHANGED <<queue, got, readerVars>>

\* The checks of _recv_internal: a bus that was shut down yields None, which
\* ends a recv with a timeout and starts one without over again; a lost
\* connection raises.
Check(b) ==
  /\ rpc[b] = "called"
  /\ rpc' = [rpc EXCEPT ![b] =
               IF bpc[b] # "up" THEN (IF b \in Timed THEN "out" ELSE "called")
               ELSE IF ~connected THEN "out" ELSE "get"]
  /\ UNCHANGED <<queue, got, readerVars>>

\* queue.get finds a frame.
Get(b) ==
  /\ rpc[b] = "get" /\ queue[b] # <<>>
  /\ rpc' = [rpc EXCEPT ![b] = "out"]
  /\ queue' = [queue EXCEPT ![b] = Tail(@)]
  /\ got' = [got EXCEPT ![b] = Append(@, Head(queue[b]))]
  /\ UNCHANGED readerVars

\* queue.get that ignores the timeout.
TimeOutIgnored(b) == FALSE

\* queue.get gives up: recv returns None, or raises if the connection is gone.
TimeOut(b) ==
  /\ b \in Timed
  /\ rpc[b] = "get" /\ queue[b] = <<>>
  /\ rpc' = [rpc EXCEPT ![b] = "out"]
  /\ UNCHANGED <<queue, got, readerVars>>

-----------------------------------------------------------------------------

Handle ==
  \/ Walk \/ StartDispatch \/ EndLoop
  \/ \E b \in Buses : Dereference(b) \/ Put(b) \/ FinalizeHere(b)

Reader(b) == Check(b) \/ Get(b) \/ TimeOut(b)

\* Nothing is left to do: every bus is shut down and only a recv without a
\* timeout is under way, or the WebSocket thread waits for itself.
Finished ==
  /\ \/ wpc = "finalize"
     \/ wpc = "read" /\ \A b \in Buses : bpc[b] = "down" /\ (b \in Timed => rpc[b] = "out")
  /\ UNCHANGED vars

Next ==
  \/ Receive \/ Handle \/ Lose \/ Finished
  \/ \E b \in Buses : Subscribe(b) \/ Shutdown(b) \/ DropBus(b) \/ Unsubscribe(b)
                      \/ Recv(b) \/ Reader(b)

Spec == Init /\ [][Next]_vars

\* Threads that can run do run: the WebSocket thread, a bus on its way through
\* shutdown, a reader in recv.
FairSpec ==
  /\ Spec
  /\ WF_vars(Handle)
  /\ \A b \in Buses : WF_vars(Unsubscribe(b)) /\ WF_vars(Reader(b))

-----------------------------------------------------------------------------
(* Safety. *)

\* What a bus was given, in order: the frames taken by recv and those queued.
Given(b) == got[b] \o queue[b]

\* "Each bus only sees messages from its channel" (HelixBus).
RoutedByChannel ==
  \A b \in Buses : \A i \in 1..Len(Given(b)) :
    ChannelOf[b] \in {Given(b)[i].channel, ALL}

\* A bus gets frames in the order the backend sent them, none twice.
InOrder ==
  \A b \in Buses : \A i, j \in 1..Len(Given(b)) :
    i < j => Given(b)[i].n < Given(b)[j].n

\* What was dispatched to a bus and not given to it.
Missing(b) == {f \in offered[b] : \A i \in 1..Len(Given(b)) : Given(b)[i] # f}

Losses(buses) == UNION {{<<b, f>> : f \in Missing(b)} : b \in buses}

\* A frame that was dispatched while a bus was subscribed is queued for it or
\* counted as dropped, and _dropped_messages counts nothing else.  A bus that is
\* being collected may miss frames that nobody counts.
DropsCounted ==
  LockFree =>
    dropped \in Cardinality(Losses({b \in Buses : alive[b]}))..Cardinality(Losses(Buses))

\* A record that cannot be decoded costs no other frame of its message
\* (_handle_binary_message: "skip a malformed record, keep processing the rest").
RestOfBatchKept ==
  \A b \in Buses : wpc = "read" /\ bpc[b] = "up" => due[b] \subseteq offered[b]

\* Nothing is put into the queue of a bus that has unsubscribed.
QuietAfterUnsubscribe ==
  [][\A b \in Buses : bpc[b] = "down" => Len(queue'[b]) <= Len(queue[b])]_vars

-----------------------------------------------------------------------------
(* Liveness, of FairSpec. *)

\* A recv with a timeout ends, whatever happens to the bus and the connection.
RecvEnds == \A b \in Timed : rpc[b] = "called" ~> rpc[b] = "out"

\* A bus that is shut down or dropped gets out of the subscriber sets, unless a
\* bus is finalised in the WebSocket thread: nothing else that the threads do at
\* _subscribers_lock blocks the others.
ShutdownCompletes ==
  \A b \in Buses : bpc[b] = "unsubscribe" ~> bpc[b] = "down" \/ wpc = "finalize"

\* A bus that nobody refers to any more is collected ("weak references so we
\* don't prevent garbage collection of bus instances").
CollectionEnds ==
  \A b \in Buses : bpc[b] = "orphan" ~> bpc[b] = "down"
=============================================================================
