--------------------------- MODULE HelixConnection ---------------------------
(***************************************************************************)
(* The shared connection of can_helix: the registry of                     *)
(* HelixConnectionManager objects, the reference count that opens and      *)
(* closes a manager's WebSocket, the WebSocket threads, and the life of    *)
(* the HelixBus objects that use them (can_helix/connection.py and the     *)
(* constructor, shutdown and finaliser of can_helix/bus.py).               *)
(*                                                                         *)
(* One element of Buses is one HelixBus object, constructed at most once.  *)
(* A constructor creates at most one manager and opens at most one         *)
(* WebSocket, so both are named by the bus whose constructor made them:    *)
(* manager m is the one that bus m created in get_instance, connection c   *)
(* is the WebSocketApp that bus c built in _connect.  An atomic step is    *)
(* what runs between two points where another thread can be scheduled and  *)
(* see a difference: a critical section, or a blocking call.               *)
(***************************************************************************)
EXTENDS Integers, FiniteSets

CONSTANTS
  Buses,           \* the HelixBus objects the application constructs
  Config,          \* [Buses -> record]: what each constructor is called with
  NONE,            \* Python's None
  SingleThreaded,  \* TRUE: the application constructs and shuts down its
                   \* buses from one thread
  Faults           \* what the environment may do, see FaultKinds

(***************************************************************************)
(* The faults an environment may have.                                     *)
(*   "ticket"   the REST call that mints a WebSocket ticket fails          *)
(*   "connect"  the handshake fails or takes more than the 10 s allowed    *)
(*   "drop"     an open WebSocket is lost                                  *)
(*   "slow"     a WebSocket thread takes more than the 2 s of the join     *)
(***************************************************************************)
FaultKinds == {"ticket", "connect", "drop", "slow"}

\* host:ws_port, the crypto session (its client fingerprint, or NONE for an
\* unauthenticated bus) and the batch option of a bus.
ASSUME ConnectionAssumption ==
  /\ IsFiniteSet(Buses)
  /\ NONE \notin Buses
  /\ SingleThreaded \in BOOLEAN
  /\ Faults \subseteq FaultKinds

\* HelixConnectionManager._registry_key: one registry entry for each backend,
\* crypto session and batch mode.  The first form is a mutant.
RegistryKeyWithoutSession(b) == <<Config[b].endpoint, Config[b].batch>>

RegistryKey(b) == <<Config[b].endpoint, Config[b].session, Config[b].batch>>

Keys == {RegistryKey(b) : b \in Buses}

VARIABLES
  instances,   \* _instances: the class-level registry, key -> manager
  manager,     \* bus._connection_manager
  refCount,    \* manager._ref_count
  refLock,     \* the bus whose thread holds manager._ref_lock
  ws,          \* manager._ws
  wsThread,    \* manager._ws_thread, named by its connection
  connected,   \* manager._connected, a threading.Event
  subscribers, \* the buses in manager._subscribers
  sock,        \* the state of the WebSocket of a connection
  closing,     \* WebSocketApp.close() has been called
  raised,      \* the constructor of the bus raised an exception
  pc           \* where the thread that runs the bus's code stands

\* The variables of the managers, of the WebSocket threads and of the buses.
managerVars == <<instances, refCount, refLock, ws, wsThread, connected, subscribers>>
wsVars == <<sock, closing>>
busVars == <<manager, raised, pc>>
vars == <<instances, manager, refCount, refLock, ws, wsThread, connected,
          subscribers, sock, closing, raised, pc>>

\* No thread runs code of the bus.
Resting == {"unborn", "up", "raised", "down"}

Busy == {"got", "connect", "waiting", "undo", "subscribe", "unsubscribe",
         "release", "join", "remove"}

TypeOK ==
  /\ instances \in [Keys -> Buses \cup {NONE}]
  /\ manager \in [Buses -> Buses \cup {NONE}]
  /\ refCount \in [Buses -> Int]
  /\ refLock \in [Buses -> Buses \cup {NONE}]
  /\ ws \in [Buses -> Buses \cup {NONE}]
  /\ wsThread \in [Buses -> Buses \cup {NONE}]
  /\ connected \in [Buses -> BOOLEAN]
  /\ subscribers \in [Buses -> SUBSET Buses]
  /\ sock \in [Buses -> {"none", "connecting", "open", "dropped", "closed"}]
  /\ closing \in [Buses -> BOOLEAN]
  /\ raised \in [Buses -> BOOLEAN]
  /\ pc \in [Buses -> Resting \cup Busy]
  /\ \A b \in Buses : pc[b] # "unborn" => manager[b] \in Buses

Init ==
  /\ instances = [k \in Keys |-> NONE]
  /\ manager = [b \in Buses |-> NONE]
  /\ refCount = [m \in Buses |-> 0]
  /\ refLock = [m \in Buses |-> NONE]
  /\ ws = [m \in Buses |-> NONE]
  /\ wsThread = [m \in Buses |-> NONE]
  /\ connected = [m \in Buses |-> FALSE]
  /\ subscribers = [m \in Buses |-> {}]
  /\ sock = [c \in Buses |-> "none"]
  /\ closing = [c \in Buses |-> FALSE]
  /\ raised = [b \in Buses |-> FALSE]
  /\ pc = [b \in Buses |-> "unborn"]

-----------------------------------------------------------------------------
(* The constructor of HelixBus. *)

\* The application may start another operation.
MayStart(b) ==
  SingleThreaded => \A other \in Buses \ {b} : pc[other] \in Resting

Goto(b, from, to) ==
  /\ pc[b] = from
  /\ pc' = [pc EXCEPT ![b] = to]

\* What get_instance returns for a key: the registered manager, or a new one
\* (LookUp, a mutant, does not create it).
LookUp(k, b) == instances[k]
LookUpOrCreate(k, b) == IF instances[k] = NONE THEN b ELSE instances[k]

\* get_instance under _instances_lock.
GetInstance(b) ==
  LET k == RegistryKey(b)
      m == LookUpOrCreate(k, b)
  IN  /\ MayStart(b)
      /\ Goto(b, "unborn", "got")
      /\ instances' = [instances EXCEPT ![k] = m]
      /\ manager' = [manager EXCEPT ![b] = m]
      /\ UNCHANGED <<refCount, refLock, ws, wsThread, connected, subscribers,
                     raised, wsVars>>

\* The test of acquire, and the one of release and of acquire's except clause,
\* with mutants of both.
NeedConnectAlways(m) == TRUE
NeedConnect(m) == refCount[m] = 0
LastButOneReference(m) == refCount[m] - 1 <= 1
LastReferenceMissed(m) == refCount[m] - 1 < 0
LastReference(m) == refCount[m] - 1 <= 0

\* acquire: count the reference under _ref_lock; the one that finds the
\* count at zero goes on to connect.
Acquire(b) ==
  LET m == manager[b]
  IN  /\ Goto(b, "got", IF NeedConnect(m) THEN "connect" ELSE "subscribe")
      /\ refLock[m] = NONE
      /\ refCount' = [refCount EXCEPT ![m] = @ + 1]
      /\ UNCHANGED <<instances, manager, refLock, ws, wsThread, connected,
                     subscribers, raised, wsVars>>

\* _build_connect_url: the ticket provider of an authenticated bus raises.
BuildConnectUrlFails(b) ==
  /\ "ticket" \in Faults
  /\ Config[b].session # NONE
  /\ Goto(b, "connect", "undo")
  /\ UNCHANGED <<manager, raised, managerVars, wsVars>>

\* _connect: a new WebSocketApp and its thread replace those of the manager,
\* then the caller waits for the _connected event.
Connect(b) ==
  LET m == manager[b]
  IN  /\ Goto(b, "connect", IF connected[m] THEN "subscribe" ELSE "waiting")
      /\ ws' = [ws EXCEPT ![m] = b]
      /\ wsThread' = [wsThread EXCEPT ![m] = b]
      /\ sock' = [sock EXCEPT ![b] = "connecting"]
      /\ UNCHANGED <<instances, manager, refCount, refLock, connected,
                     subscribers, closing, raised>>

\* The wait ends after 10 s without the event; HandshakeFailed is a mutant, a
\* wait without a timeout that only a failed handshake ends.
HandshakeFailed(b) == sock[b] = "closed"
NotOpenIn10s(b) == "connect" \in Faults \/ sock[b] = "closed"

ConnectTimeout(b) ==
  /\ Goto(b, "waiting", "undo")
  /\ NotOpenIn10s(b)
  /\ UNCHANGED <<manager, raised, managerVars, wsVars>>

\* A mutant: the except clause does not give the reference back.
UndoAcquireKeepsCount(b) ==
  LET m == manager[b]
  IN  /\ Goto(b, "undo", "raised")
      /\ refLock[m] = NONE
      /\ raised' = [raised EXCEPT ![b] = TRUE]
      /\ UNCHANGED <<manager, managerVars, wsVars>>

\* The except clause of acquire: give the reference back, forget the manager
\* if it was the last one, and let the constructor raise.
UndoAcquire(b) ==
  LET m == manager[b]
  IN  /\ Goto(b, "undo", "raised")
      /\ refLock[m] = NONE
      /\ refCount' = [refCount EXCEPT ![m] = @ - 1]
      /\ instances' = IF LastReference(m)
                      THEN [instances EXCEPT ![RegistryKey(m)] = NONE]
                      ELSE instances
      /\ raised' = [raised EXCEPT ![b] = TRUE]
      /\ UNCHANGED <<manager, refLock, ws, wsThread, connected, subscribers, wsVars>>

\* subscribe under _subscribers_lock; the constructor returns.
Subscribe(b) ==
  LET m == manager[b]
  IN  /\ Goto(b, "subscribe", "up")
      /\ subscribers' = [subscribers EXCEPT ![m] = @ \cup {b}]
      /\ UNCHANGED <<instances, manager, refCount, refLock, ws, wsThread,
                     connected, raised, wsVars>>

-----------------------------------------------------------------------------
(* shutdown of a HelixBus. *)

\* HelixBus.shutdown passes its idempotency guard: the application shuts the
\* bus down, or drops its last reference and python-can's finaliser does.
Shutdown(b) ==
  /\ MayStart(b)
  /\ Goto(b, "up", "unsubscribe")
  /\ UNCHANGED <<manager, raised, managerVars, wsVars>>

\* The exception of a failed constructor is dropped and with it the bus:
\* python-can's BusABC.__del__ calls shutdown, which finds _connection_manager
\* already assigned.
FinalizeFailed(b) ==
  /\ MayStart(b)
  /\ Goto(b, "raised", "unsubscribe")
  /\ UNCHANGED <<manager, raised, managerVars, wsVars>>

\* unsubscribe under _subscribers_lock.
Unsubscribe(b) ==
  LET m == manager[b]
  IN  /\ Goto(b, "unsubscribe", "release")
      /\ subscribers' = [subscribers EXCEPT ![m] = @ \ {b}]
      /\ UNCHANGED <<instances, manager, refCount, refLock, ws, wsThread,
                     connected, raised, wsVars>>

\* release takes _ref_lock and other references remain.
ReleaseShared(b) ==
  LET m == manager[b]
  IN  /\ Goto(b, "release", "down")
      /\ refLock[m] = NONE
      /\ ~LastReference(m)
      /\ refCount' = [refCount EXCEPT ![m] = @ - 1]
      /\ UNCHANGED <<instances, manager, refLock, ws, wsThread, connected,
                     subscribers, raised, wsVars>>

\* release takes _ref_lock and this was the last reference: _disconnect
\* closes the WebSocketApp.  Closing an open socket ends it at once; one that
\* is still connecting is only told to stop.
ReleaseLast(b) ==
  LET m == manager[b]
      c == ws[m]
  IN  /\ Goto(b, "release", "join")
      /\ refLock[m] = NONE
      /\ LastReference(m)
      /\ refCount' = [refCount EXCEPT ![m] = @ - 1]
      /\ refLock' = [refLock EXCEPT ![m] = b]
      /\ ws' = [ws EXCEPT ![m] = NONE]
      /\ closing' = [x \in Buses |-> closing[x] \/ x = c]
      /\ sock' = [x \in Buses |->
                    IF x = c /\ sock[x] = "open" THEN "dropped" ELSE sock[x]]
      /\ UNCHANGED <<instances, manager, wsThread, connected, subscribers, raised>>

\* Thread.join(timeout=2) on thread t, None when there is none: it returns when
\* the thread has ended, or after 2 s when the thread is slow to end, hangs in
\* its handshake, or was not told to end at all.  JoinWithoutTimeout is a mutant.
OutlastsJoin(t) ==
  \/ "slow" \in Faults
  \/ "connect" \in Faults /\ sock[t] = "connecting"
  \/ ~closing[t]

JoinWithoutTimeout(t) == t # NONE => sock[t] = "closed"
JoinReturns(t) == t # NONE => sock[t] = "closed" \/ OutlastsJoin(t)

\* The end of _disconnect: wait for the WebSocket thread and clear the event.
\* The code keeps a reference to a thread that had ended before the wait,
\* which nothing tells from None.
Join(b) ==
  LET m == manager[b]
  IN  /\ Goto(b, "join", "remove")
      /\ JoinReturns(wsThread[m])
      /\ wsThread' = [wsThread EXCEPT ![m] = NONE]
      /\ connected' = [connected EXCEPT ![m] = FALSE]
      /\ UNCHANGED <<instances, manager, refCount, refLock, ws, subscribers,
                     raised, wsVars>>

\* _remove_instance deletes whatever the registry holds under the manager's
\* key, then release leaves _ref_lock.
RemoveInstance(b) ==
  LET m == manager[b]
  IN  /\ Goto(b, "remove", "down")
      /\ instances' = [instances EXCEPT ![RegistryKey(m)] = NONE]
      /\ refLock' = [refLock EXCEPT ![m] = NONE]
      /\ UNCHANGED <<manager, refCount, ws, wsThread, connected, subscribers,
                     raised, wsVars>>

-----------------------------------------------------------------------------
(* The WebSocket threads: websocket-client's run_forever and the callbacks *)
(* that _connect installs.                                                 *)

\* The handshake succeeds: on_open sets the event, which wakes every waiter.
OnOpen(c) ==
  LET m == manager[c]
  IN  /\ sock[c] = "connecting"
      /\ sock' = [sock EXCEPT ![c] = "open"]
      /\ connected' = [connected EXCEPT ![m] = TRUE]
      /\ pc' = [b \in Buses |-> IF pc[b] = "waiting" /\ manager[b] = m
                                THEN "subscribe" ELSE pc[b]]
      /\ UNCHANGED <<instances, manager, refCount, refLock, ws, wsThread,
                     subscribers, closing, raised>>

\* The handshake fails: on_error, then on_close clears the event.
OnHandshakeError(c) ==
  /\ sock[c] = "connecting"
  /\ "connect" \in Faults \/ closing[c]
  /\ sock' = [sock EXCEPT ![c] = "closed"]
  /\ connected' = [connected EXCEPT ![manager[c]] = FALSE]
  /\ UNCHANGED <<instances, refCount, refLock, ws, wsThread, subscribers,
                 closing, busVars>>

\* An open socket is lost, or torn down because close() was called.
Drop(c) ==
  /\ sock[c] = "open"
  /\ "drop" \in Faults \/ closing[c]
  /\ sock' = [sock EXCEPT ![c] = "dropped"]
  /\ UNCHANGED <<closing, managerVars, busVars>>

\* A mutant: on_close leaves the event alone.
OnCloseKeepsFlag(c) ==
  /\ sock[c] = "dropped"
  /\ sock' = [sock EXCEPT ![c] = "closed"]
  /\ UNCHANGED <<closing, managerVars, busVars>>

\* run_forever ends: on_close clears the event of the manager.
OnClose(c) ==
  /\ sock[c] = "dropped"
  /\ sock' = [sock EXCEPT ![c] = "closed"]
  /\ connected' = [connected EXCEPT ![manager[c]] = FALSE]
  /\ UNCHANGED <<instances, refCount, refLock, ws, wsThread, subscribers,
                 closing, busVars>>

-----------------------------------------------------------------------------

\* What a thread of the application does once it has started an operation.
Continue(b) ==
  \/ Acquire(b) \/ BuildConnectUrlFails(b) \/ Connect(b) \/ ConnectTimeout(b)
  \/ UndoAcquire(b) \/ Subscribe(b) \/ Unsubscribe(b) \/ ReleaseShared(b)
  \/ ReleaseLast(b) \/ Join(b) \/ RemoveInstance(b)

Start(b) == GetInstance(b) \/ Shutdown(b) \/ FinalizeFailed(b)

WebSocketThread(c) ==
  \/ OnOpen(c) \/ OnHandshakeError(c) \/ Drop(c) \/ OnClose(c)

\* Every bus is shut down.
Finished ==
  /\ \A b \in Buses : pc[b] = "down"
  /\ UNCHANGED vars

Next ==
  \/ \E b \in Buses : Start(b) \/ Continue(b) \/ WebSocketThread(b)
  \/ Finished

Spec == Init /\ [][Next]_vars

\* The operating system schedules every thread that can run.  Nothing makes the
\* application start an operation or the network drop a connection, and a
\* handshake or a teardown ends only where the faults do not let it hang.
Fairness ==
  /\ \A b \in Buses : WF_vars(Continue(b))
  /\ \A c \in {x \in Buses : "connect" \notin Faults} :
       WF_vars(OnOpen(c) \/ OnHandshakeError(c))
  /\ \A c \in {x \in Buses : "slow" \notin Faults} :
       WF_vars(OnClose(c) \/ (closing[c] /\ Drop(c)))

FairSpec == Spec /\ Fairness

-----------------------------------------------------------------------------
(* Safety. *)

\* The buses that hold a reference to manager m: they have counted themselves
\* in acquire and have not given the reference back.
Holders(m) ==
  {b \in Buses : /\ manager[b] = m
                 /\ ~raised[b]
                 /\ pc[b] \in {"connect", "waiting", "undo", "subscribe", "up",
                              "unsubscribe", "release"}}

\* The buses that gave back to manager m a reference they did not have.
Overdrawn(m) ==
  {b \in Buses : manager[b] = m /\ raised[b] /\ pc[b] \in {"join", "remove", "down"}}

\* A bus only receives from WebSockets that its own crypto session
\* authenticated (connection.py, get_instance: two sessions must not share a
\* WebSocket), however creations, failures and removals interleave.
FedByOwnSession ==
  \A c \in Buses : sock[c] = "open" =>
    \A b \in subscribers[manager[c]] : Config[c].session = Config[b].session

\* _ref_count is exact up to the references that failed constructors gave
\* back twice, in acquire's except clause and again in shutdown.
RefAccounting ==
  \A m \in Buses :
    refCount[m] = Cardinality(Holders(m)) - Cardinality(Overdrawn(m))

\* The library closes the WebSocket of a manager only when no bus holds the
\* manager any more (release: "the WebSocket connection is closed when the last
\* reference is released"), or a reference to it was given back twice.
NeverCutOff ==
  [][\A m \in Buses :
       ws[m] # NONE /\ ws'[m] = NONE => Holders(m)' = {} \/ Overdrawn(m)' # {}]_vars

\* Nor does it leave one behind: a WebSocket that goes on after the last holder of
\* its manager is left over from a constructor that gave up (_connect, 10 s).
ClosedWithLast ==
  \A c \in Buses :
    /\ sock[c] \in {"connecting", "open"} /\ ~closing[c]
    /\ Holders(manager[c]) = {}
    => \E b \in Buses : manager[b] = manager[c] /\ raised[b]

\* No other WebSocket was ever made for the manager of connection c.
OnlySocket(c) == \A d \in Buses : sock[d] # "none" /\ manager[d] = manager[c] => d = c

\* is_connected tells the truth, whichever thread sets and clears the event: it is
\* set only while a WebSocket of the manager is open, and an open one shows in it,
\* but for the trace of an older WebSocket or of a second release.
FlagTruthful ==
  \A m \in Buses :
    /\ connected[m] => \E c \in Buses : manager[c] = m /\ sock[c] \in {"open", "dropped"}
    /\ \A c \in Buses :
         /\ manager[c] = m /\ sock[c] = "open" /\ ~closing[c]
         /\ OnlySocket(c) /\ Overdrawn(m) = {}
         => connected[m]

\* At most one WebSocket is open for a backend, crypto session and batch mode
\* ("only one connection manager, and thus one WebSocket, exists").
OneSocketPerKey ==
  \A c, d \in Buses :
    sock[c] = "open" /\ sock[d] = "open" /\ RegistryKey(c) = RegistryKey(d) => c = d

\* A manager that a bus holds is the one the registry hands out, so that the
\* next bus shares its WebSocket.
RegisteredWhileHeld ==
  \A m \in Buses : \A b \in Holders(m) : instances[RegistryKey(b)] = m

\* The reference count is never negative: no reference is given back twice
\* (shutdown: "a second release() would corrupt the shared connection
\* manager's reference count").
NoSecondRelease == \A m \in Buses : refCount[m] >= 0

\* A new bus gets a live connection ("Create a new Bus instance to
\* reconnect."): acquire does not return on a dead one.
NewBusReconnects ==
  [][\A b \in Buses : pc[b] = "got" /\ pc'[b] = "subscribe" => connected[manager[b]]]_vars

-----------------------------------------------------------------------------
(* Liveness, of FairSpec. *)

\* A constructor returns or raises, whatever the network does.
ConstructionEnds ==
  \A b \in Buses : pc[b] = "got" ~> pc[b] \in {"up", "raised"}

\* shutdown returns: no bus waits for ever for the lock or for the thread.
ShutdownEnds ==
  \A b \in Buses : pc[b] = "unsubscribe" ~> pc[b] = "down"

-----------------------------------------------------------------------------
(* The shared link that an application with one thread sees. *)

UsersOf(k) == UNION {Holders(m) : m \in {x \in Buses : RegistryKey(x) = k}}

OpenSockets(k) == {c \in Buses : RegistryKey(c) = k /\ sock[c] = "open"}

\* "several" is no state of SharedLink.
LinkOf(k) ==
  CASE Cardinality(OpenSockets(k)) > 1 -> "several"
    [] Cardinality(OpenSockets(k)) = 1 -> "up"
    [] OpenSockets(k) = {} /\ \E b \in UsersOf(k) : pc[b] \in {"connect", "waiting"} -> "opening"
    [] OpenSockets(k) = {} /\ UsersOf(k) = {} -> "closed"
    [] OTHER -> "lost"

Link == INSTANCE SharedLink WITH
  Users <- Buses,
  users <- [k \in Keys |-> UsersOf(k)],
  link <- [k \in Keys |-> LinkOf(k)]

\* Registry, reference counts and threads together implement SharedLink: one
\* WebSocket that opens for the first bus and closes with the last, as long as
\* one thread runs the buses and the constructors do not fail.
ImplementsSharedLink == Link!FairSpec
=============================================================================
