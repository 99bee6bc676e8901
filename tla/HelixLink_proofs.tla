-------------------------- MODULE HelixLink_proofs --------------------------
(***************************************************************************)
(* Proofs about the shared connection of an application that constructs   *)
(* and shuts down its buses from one thread and whose constructors do not  *)
(* fail: the registry, the reference counts and the WebSocket threads      *)
(* together implement the shared link of SharedLink.                       *)
(***************************************************************************)
EXTENDS HelixConnection_proofs

\* The application of these theorems: one thread, and a backend that answers
\* every constructor in time.  WebSockets may still be lost at any time, and their
\* threads may outlive the join.
Sequential == SingleThreaded /\ "ticket" \notin Faults /\ "connect" \notin Faults

\* Where a bus that has counted itself stands until it gives its reference back.
Holding == {"connect", "waiting", "subscribe", "up", "unsubscribe", "release"}

-----------------------------------------------------------------------------
(* The states of such an application. *)

\* At most one bus is being constructed or shut down, no constructor fails, and the
\* WebSocket of the bus under construction connects while it waits; a manager has no
\* other WebSocket than the one of the bus that created it.
SoleInv ==
  /\ \A b, d \in Buses : b # d => pc[b] \in Resting \/ pc[d] \in Resting
  /\ \A b \in Buses : ~raised[b] /\ pc[b] \notin {"undo", "raised"}
  /\ \A c \in Buses : sock[c] = "connecting" <=> pc[c] = "waiting"
  /\ \A c \in Buses : closing[c] => sock[c] \in {"dropped", "closed"}
  /\ \A m \in Buses : ws[m] \in Buses => ws[m] = m /\ sock[m] # "none"

\* The registry holds the manager of every bus that is not shut down, and no other
\* manager than one that somebody holds, is about to hold, or takes down.
RegistryInv ==
  /\ \A b \in Buses :
       pc[b] \notin {"unborn", "down"} => instances[RegistryKey(b)] = manager[b]
  /\ \A k \in Keys : instances[k] \in Buses =>
       \E b \in Buses : /\ manager[b] = instances[k]
                        /\ pc[b] \in Holding \cup {"got", "join", "remove"}
  /\ \A b, d \in Buses :
       pc[b] \in {"join", "remove"} /\ manager[d] = manager[b] => pc[d] \notin Holding

\* The bus that opens the WebSocket of a manager is the one that created it.
CreatorInv ==
  /\ \A b \in Buses : pc[b] = "got" =>
       manager[b] = b \/ \E d \in Buses : manager[d] = manager[b] /\ pc[d] \in Holding
  /\ \A b \in Buses : pc[b] \in {"connect", "waiting"} => manager[b] = b
  /\ \A c \in Buses : sock[c] # "none" => manager[c] = c

\* Then no reference is given back twice, and _ref_count is the number of buses that
\* hold one.
LEMMA Counted ==
  ASSUME RefAccounting, SoleInv, NEW m \in Buses
  PROVE  /\ Holders(m) = {b \in Buses : manager[b] = m /\ pc[b] \in Holding}
         /\ Unraised(m) /\ Overdrawn(m) = {}
         /\ refCount[m] >= 0
         /\ refCount[m] = 0 => Holders(m) = {}
         /\ \A b : Holders(m) = {b} => refCount[m] = 1
         /\ \A b \in Holders(m) : refCount[m] <= 1 => Holders(m) = {b}
<1>1. Holders(m) = {b \in Buses : manager[b] = m /\ pc[b] \in Holding}
  BY DEF SoleInv, Holders, Holding
<1>2. Unraised(m) /\ Overdrawn(m) = {}
  BY DEF SoleInv, Unraised, Overdrawn
<1>3. /\ refCount[m] = 0 => Holders(m) = {}
      /\ \A b : Holders(m) = {b} => refCount[m] = 1
  BY <1>2, CountsHolders
<1>4. \A b \in Holders(m) : refCount[m] <= 1 => Holders(m) = {b}
  BY <1>2, OnlyHolder
<1>5. refCount[m] >= 0
  BY <1>2, FS_EmptySet, CountsExist DEF RefAccounting
<1> QED
  BY <1>1, <1>2, <1>3, <1>4, <1>5

\* Nothing the model calls a failure happens: these actions are never enabled.
LEMMA NoFailure ==
  ASSUME Sequential, TypeOK, SoleInv, NEW b \in Buses
  PROVE  /\ ~BuildConnectUrlFails(b) /\ ~ConnectTimeout(b) /\ ~UndoAcquire(b)
         /\ ~FinalizeFailed(b) /\ ~OnHandshakeError(b)
<1>1. ~BuildConnectUrlFails(b)
  BY DEF Sequential, BuildConnectUrlFails
<1>2. ~ConnectTimeout(b)
  BY DEF Sequential, SoleInv, ConnectTimeout, Goto, NotOpenIn10s
<1>3. ~UndoAcquire(b) /\ ~FinalizeFailed(b)
  BY DEF SoleInv, UndoAcquire, FinalizeFailed, Goto
<1>4. ~OnHandshakeError(b)
  BY DEF Sequential, SoleInv, OnHandshakeError
<1> QED
  BY <1>1, <1>2, <1>3, <1>4

\* The WebSocket that is open is the one of its manager, and somebody holds it.
LEMMA OpenIsHeld ==
  ASSUME TypeOK, SoleInv, CreatorInv, CloseInv, RefAccounting, NEW c \in Buses,
         sock[c] \in {"connecting", "open"}
  PROVE  /\ ws[c] = c /\ manager[c] = c
         /\ \E b \in Buses : manager[b] = c /\ pc[b] \in Holding
<1>1. manager[c] = c /\ ~closing[c]
  BY DEF SoleInv, CreatorInv
<1>2. Unraised(c) /\ Holders(c) = {b \in Buses : manager[b] = c /\ pc[b] \in Holding}
  BY Counted
<1>3. ws[c] = c
  BY <1>1, <1>2 DEF CloseInv
<1>4. Holders(c) # {}
  BY <1>2, <1>3, ConnectionAssumption DEF CloseInv
<1> QED
  BY <1>1, <1>2, <1>3, <1>4

\* The event is clear when a bus connects, so that it waits for its own WebSocket.
LEMMA ConnectWaits ==
  ASSUME SockInv, CreatorInv, FlagTruthful, NEW b \in Buses, Connect(b)
  PROVE  /\ manager[b] = b /\ pc[b] = "connect" /\ sock[b] = "none"
         /\ pc' = [pc EXCEPT ![b] = "waiting"] /\ sock' = [sock EXCEPT ![b] = "connecting"]
         /\ ws' = [ws EXCEPT ![b] = b] /\ UNCHANGED <<raised, closing>>
<1>1. manager[b] = b /\ sock[b] = "none" /\ pc[b] = "connect"
  BY DEF Connect, Goto, CreatorInv, SockInv
<1>2. ~connected[b]
  BY <1>1 DEF FlagTruthful, CreatorInv
<1> QED
  BY <1>1, <1>2 DEF Connect, Goto

\* SoleInv is inductive: an operation starts when no other one goes on, and the
\* event of a manager that connects is not set.
LEMMA SoleStep ==
  ASSUME Sequential, TypeOK, SockInv, CreatorInv, FlagTruthful, SoleInv, [Next]_vars
  PROVE  SoleInv'
<1> USE ConnectionAssumption
<1>1. ASSUME NEW b \in Buses, GetInstance(b) PROVE SoleInv'
  BY <1>1 DEF TypeOK, SockInv, SoleInv, Sequential, Resting, MayStart, GetInstance,
     LookUpOrCreate, Goto, wsVars
<1>2. ASSUME NEW b \in Buses, Acquire(b) PROVE SoleInv'
  BY <1>2 DEF TypeOK, SockInv, SoleInv, Sequential, Resting, Acquire, NeedConnect,
     Goto, wsVars
<1>3. ASSUME NEW b \in Buses, BuildConnectUrlFails(b) PROVE SoleInv'
  BY <1>3, NoFailure
<1>4. ASSUME NEW b \in Buses, Connect(b) PROVE SoleInv'
  <2>1. /\ manager[b] = b /\ pc[b] = "connect" /\ sock[b] = "none"
        /\ pc' = [pc EXCEPT ![b] = "waiting"] /\ sock' = [sock EXCEPT ![b] = "connecting"]
        /\ ws' = [ws EXCEPT ![b] = b] /\ UNCHANGED <<raised, closing>>
    BY <1>4, ConnectWaits
  <2> QED
    BY <2>1 DEF TypeOK, SoleInv, Resting
<1>5. ASSUME NEW b \in Buses, ConnectTimeout(b) PROVE SoleInv'
  BY <1>5, NoFailure
<1>6. ASSUME NEW b \in Buses, UndoAcquire(b) PROVE SoleInv'
  BY <1>6, NoFailure
<1>7. ASSUME NEW b \in Buses, Subscribe(b) PROVE SoleInv'
  BY <1>7 DEF TypeOK, SockInv, SoleInv, Sequential, Resting, Subscribe, Goto, wsVars
<1>8. ASSUME NEW b \in Buses, Shutdown(b) PROVE SoleInv'
  BY <1>8 DEF TypeOK, SockInv, SoleInv, Sequential, Resting, MayStart, Shutdown,
     Goto, wsVars, managerVars
<1>9. ASSUME NEW b \in Buses, FinalizeFailed(b) PROVE SoleInv'
  BY <1>9, NoFailure
<1>10. ASSUME NEW b \in Buses, Unsubscribe(b) PROVE SoleInv'
  BY <1>10 DEF TypeOK, SockInv, SoleInv, Sequential, Resting, Unsubscribe, Goto,
     wsVars
<1>11. ASSUME NEW b \in Buses, ReleaseShared(b) PROVE SoleInv'
  BY <1>11 DEF TypeOK, SockInv, SoleInv, Sequential, Resting, ReleaseShared, Goto,
     wsVars
<1>12. ASSUME NEW b \in Buses, ReleaseLast(b) PROVE SoleInv'
  BY <1>12 DEF TypeOK, SockInv, SoleInv, Sequential, Resting, ReleaseLast, Goto
<1>13. ASSUME NEW b \in Buses, Join(b) PROVE SoleInv'
  BY <1>13 DEF TypeOK, SockInv, SoleInv, Sequential, Resting, Join, Goto, wsVars
<1>14. ASSUME NEW b \in Buses, RemoveInstance(b) PROVE SoleInv'
  BY <1>14 DEF TypeOK, SockInv, SoleInv, Sequential, Resting, RemoveInstance, Goto,
     wsVars
<1>15. ASSUME NEW c \in Buses, OnOpen(c) PROVE SoleInv'
  BY <1>15 DEF TypeOK, SockInv, SoleInv, Sequential, Resting, OnOpen
<1>16. ASSUME NEW c \in Buses, OnHandshakeError(c) PROVE SoleInv'
  BY <1>16, NoFailure
<1>17. ASSUME NEW c \in Buses, Drop(c) PROVE SoleInv'
  BY <1>17 DEF TypeOK, SockInv, SoleInv, Sequential, Resting, Drop, busVars,
     managerVars
<1>18. ASSUME NEW c \in Buses, OnClose(c) PROVE SoleInv'
  BY <1>18 DEF TypeOK, SockInv, SoleInv, Sequential, Resting, OnClose, busVars
<1>19. CASE Finished \/ UNCHANGED vars
  BY <1>19 DEF TypeOK, SockInv, SoleInv, Sequential, Resting, Finished, vars
<1> QED
  BY <1>1, <1>2, <1>3, <1>4, <1>5, <1>6, <1>7, <1>8, <1>9, <1>10, <1>11,
     <1>12, <1>13, <1>14, <1>15, <1>16, <1>17, <1>18, <1>19
  DEF Next, Start, Continue, WebSocketThread

\* RegistryInv is inductive: only the last holder of a manager takes it out.
LEMMA RegistryStep ==
  ASSUME Sequential, TypeOK, KeyInv, SockInv, RefAccounting, SoleInv, RegistryInv,
         [Next]_vars
  PROVE  RegistryInv'
<1> USE ConnectionAssumption
<1>1. ASSUME NEW b \in Buses, GetInstance(b) PROVE RegistryInv'
  <2> DEFINE k == RegistryKey(b)
  <2>0. k \in Keys
    BY DEF Keys
  <2>1. PICK m \in Buses : m = LookUpOrCreate(k, b)
    BY <2>0 DEF TypeOK, LookUpOrCreate
  <2>2. /\ instances' = [instances EXCEPT ![k] = m] /\ manager' = [manager EXCEPT ![b] = m]
        /\ pc[b] = "unborn" /\ pc' = [pc EXCEPT ![b] = "got"]
        /\ \A x \in Buses \ {b} : pc[x] \in {"unborn", "up", "down"}
    BY <1>1, <2>1 DEF GetInstance, Goto, MayStart, Sequential, SoleInv, Resting
  <2>3. instances[k] = m \/ instances[k] = NONE
    BY <2>1 DEF LookUpOrCreate
  <2> HIDE DEF k
  <2>4. ASSUME NEW x \in Buses, pc'[x] \notin {"unborn", "down"}
        PROVE  instances'[RegistryKey(x)] = manager'[x]
    <3>1. CASE x = b
      BY <2>0, <2>2, <3>1 DEF TypeOK, k
    <3>2. CASE x # b
      <4>1. instances[RegistryKey(x)] = manager[x] /\ manager[x] \in Buses
        BY <2>2, <2>4, <3>2 DEF TypeOK, RegistryInv
      <4>2. RegistryKey(x) = k => manager[x] = m
        BY <2>3, <4>1
      <4>3. RegistryKey(x) \in Keys
        BY DEF Keys
      <4> QED
        BY <2>0, <2>2, <3>2, <4>1, <4>2, <4>3 DEF TypeOK
    <3> QED
      BY <3>1, <3>2
  <2>5. ASSUME NEW j \in Keys, instances'[j] \in Buses
        PROVE  \E x \in Buses : /\ manager'[x] = instances'[j]
                                /\ pc'[x] \in Holding \cup {"got", "join", "remove"}
    <3>1. CASE j = k
      BY <2>2, <3>1 DEF TypeOK
    <3>2. CASE j # k
      <4>1. PICK x \in Buses : /\ manager[x] = instances[j]
                               /\ pc[x] \in Holding \cup {"got", "join", "remove"}
        BY <2>2, <2>5, <3>2 DEF TypeOK, RegistryInv
      <4> QED
        BY <2>2, <3>2, <4>1 DEF TypeOK, Holding
    <3> QED
      BY <3>1, <3>2
  <2>6. \A x \in Buses : pc'[x] \notin {"join", "remove"}
    BY <2>2 DEF TypeOK
  <2> QED
    BY <2>4, <2>5, <2>6 DEF RegistryInv
<1>2. ASSUME NEW b \in Buses, Acquire(b) PROVE RegistryInv'
  BY <1>2 DEF TypeOK, KeyInv, SockInv, SoleInv, RegistryInv, Holding, Resting,
     Acquire, NeedConnect, Goto, wsVars
<1>3. ASSUME NEW b \in Buses, BuildConnectUrlFails(b) PROVE RegistryInv'
  BY <1>3, NoFailure
<1>4. ASSUME NEW b \in Buses, Connect(b) PROVE RegistryInv'
  BY <1>4 DEF TypeOK, KeyInv, SockInv, SoleInv, RegistryInv, Holding, Resting,
     Connect, Goto
<1>5. ASSUME NEW b \in Buses, ConnectTimeout(b) PROVE RegistryInv'
  BY <1>5, NoFailure
<1>6. ASSUME NEW b \in Buses, UndoAcquire(b) PROVE RegistryInv'
  BY <1>6, NoFailure
<1>7. ASSUME NEW b \in Buses, Subscribe(b) PROVE RegistryInv'
  BY <1>7 DEF TypeOK, KeyInv, SockInv, SoleInv, RegistryInv, Holding, Resting,
     Subscribe, Goto, wsVars
<1>8. ASSUME NEW b \in Buses, Shutdown(b) PROVE RegistryInv'
  BY <1>8 DEF TypeOK, KeyInv, SockInv, SoleInv, RegistryInv, Holding, Resting,
     MayStart, Shutdown, Goto, wsVars, managerVars
<1>9. ASSUME NEW b \in Buses, FinalizeFailed(b) PROVE RegistryInv'
  BY <1>9, NoFailure
<1>10. ASSUME NEW b \in Buses, Unsubscribe(b) PROVE RegistryInv'
  BY <1>10 DEF TypeOK, KeyInv, SockInv, SoleInv, RegistryInv, Holding, Resting,
     Unsubscribe, Goto, wsVars
<1>11. ASSUME NEW b \in Buses, ReleaseShared(b) PROVE RegistryInv'
  <2>0. PICK m \in Buses : manager[b] = m
    BY <1>11 DEF TypeOK, ReleaseShared, Goto
  <2>1. /\ pc[b] = "release" /\ pc' = [pc EXCEPT ![b] = "down"]
        /\ refCount[m] - 1 > 0 /\ UNCHANGED <<instances, manager>>
    BY <1>11, <2>0 DEF TypeOK, ReleaseShared, LastReference, Goto
  <2>2. b \in Holders(m) /\ Holders(m) = {x \in Buses : manager[x] = m /\ pc[x] \in Holding}
    BY <2>0, <2>1, Counted DEF Holding
  <2>3. PICK d \in Buses : d # b /\ manager[d] = m /\ pc[d] \in Holding
    <3>1. refCount[m] # 1
      BY <2>1
    <3>2. Holders(m) # {b}
      BY <3>1, Counted
    <3> QED
      BY <2>2, <3>2
  <2>4. \A k \in Keys : instances[k] \in Buses =>
          \E x \in Buses : /\ manager[x] = instances[k]
                           /\ pc'[x] \in Holding \cup {"got", "join", "remove"}
    BY <2>0, <2>1, <2>3 DEF TypeOK, RegistryInv
  <2> QED
    BY <2>0, <2>1, <2>4 DEF TypeOK, RegistryInv, Holding
<1>12. ASSUME NEW b \in Buses, ReleaseLast(b) PROVE RegistryInv'
  <2>0. PICK m \in Buses : manager[b] = m
    BY <1>12 DEF TypeOK, ReleaseLast, Goto
  <2>1. /\ pc[b] = "release" /\ pc' = [pc EXCEPT ![b] = "join"]
        /\ refCount[m] - 1 <= 0 /\ UNCHANGED <<instances, manager>>
    BY <1>12, <2>0 DEF TypeOK, ReleaseLast, LastReference, Goto
  <2>2. b \in Holders(m) /\ Holders(m) = {x \in Buses : manager[x] = m /\ pc[x] \in Holding}
    BY <2>0, <2>1, Counted DEF Holding
  <2>3. Holders(m) = {b}
    <3>1. refCount[m] <= 1
      BY <2>1 DEF TypeOK
    <3> QED
      BY <2>2, <3>1, Counted
  <2>4. \A x \in Buses : manager[x] = m => pc'[x] \notin Holding
    BY <2>1, <2>2, <2>3 DEF TypeOK, Holding
  <2>5. \A x \in Buses : x # b => pc'[x] \in Resting
    BY <2>1 DEF TypeOK, SoleInv, Resting
  <2> QED
    BY <2>0, <2>1, <2>4, <2>5 DEF TypeOK, RegistryInv, Holding, Resting
<1>13. ASSUME NEW b \in Buses, Join(b) PROVE RegistryInv'
  BY <1>13 DEF TypeOK, KeyInv, SockInv, SoleInv, RegistryInv, Holding, Resting, Join,
     Goto, wsVars
<1>14. ASSUME NEW b \in Buses, RemoveInstance(b) PROVE RegistryInv'
  BY <1>14 DEF TypeOK, KeyInv, SockInv, SoleInv, RegistryInv, Holding, Resting,
     RemoveInstance, Goto, wsVars
<1>15. ASSUME NEW c \in Buses, OnOpen(c) PROVE RegistryInv'
  BY <1>15 DEF TypeOK, KeyInv, SockInv, SoleInv, RegistryInv, Holding, Resting,
     OnOpen
<1>16. ASSUME NEW c \in Buses, OnHandshakeError(c) PROVE RegistryInv'
  BY <1>16, NoFailure
<1>17. ASSUME NEW c \in Buses, Drop(c) PROVE RegistryInv'
  BY <1>17 DEF TypeOK, KeyInv, SockInv, SoleInv, RegistryInv, Holding, Resting, Drop,
     busVars, managerVars
<1>18. ASSUME NEW c \in Buses, OnClose(c) PROVE RegistryInv'
  BY <1>18 DEF TypeOK, KeyInv, SockInv, SoleInv, RegistryInv, Holding, Resting,
     OnClose, busVars
<1>19. CASE Finished \/ UNCHANGED vars
  BY <1>19 DEF TypeOK, KeyInv, SockInv, SoleInv, RegistryInv, Holding, Resting,
     Finished, vars
<1> QED
  BY <1>1, <1>2, <1>3, <1>4, <1>5, <1>6, <1>7, <1>8, <1>9, <1>10, <1>11,
     <1>12, <1>13, <1>14, <1>15, <1>16, <1>17, <1>18, <1>19
  DEF Next, Start, Continue, WebSocketThread

\* CreatorInv is inductive: acquire connects when nobody else holds the manager.
LEMMA CreatorStep ==
  ASSUME Sequential, TypeOK, KeyInv, SockInv, RefAccounting, SoleInv, RegistryInv,
         CreatorInv, [Next]_vars
  PROVE  CreatorInv'
<1> USE ConnectionAssumption
<1>1. ASSUME NEW b \in Buses, GetInstance(b) PROVE CreatorInv'
  <2> DEFINE k == RegistryKey(b)
  <2>0. k \in Keys
    BY DEF Keys
  <2>1. PICK m \in Buses : m = LookUpOrCreate(k, b)
    BY <2>0 DEF TypeOK, LookUpOrCreate
  <2>2. /\ manager' = [manager EXCEPT ![b] = m] /\ sock' = sock
        /\ pc[b] = "unborn" /\ pc' = [pc EXCEPT ![b] = "got"]
        /\ \A x \in Buses \ {b} : pc[x] \in {"unborn", "up", "down"}
    BY <1>1, <2>1 DEF GetInstance, Goto, MayStart, Sequential, SoleInv, Resting, wsVars
  <2>3. m = b \/ \E d \in Buses \ {b} : manager[d] = m /\ pc[d] \in Holding
    <3>1. CASE instances[k] = NONE
      BY <2>1, <3>1 DEF LookUpOrCreate
    <3>2. CASE instances[k] # NONE
      <4>1. m = instances[k]
        BY <2>1, <3>2 DEF LookUpOrCreate
      <4>2. PICK d \in Buses : /\ manager[d] = m
                               /\ pc[d] \in Holding \cup {"got", "join", "remove"}
        BY <2>0, <4>1 DEF RegistryInv
      <4> QED
        BY <2>2, <4>2 DEF Holding
    <3> QED
      BY <3>1, <3>2
  <2> QED
    BY <2>2, <2>3 DEF TypeOK, CreatorInv, SockInv, Holding
<1>2. ASSUME NEW b \in Buses, Acquire(b) PROVE CreatorInv'
  <2>0. PICK m \in Buses : manager[b] = m
    BY <1>2 DEF TypeOK, Acquire, Goto
  <2>1. /\ pc[b] = "got" /\ UNCHANGED <<manager, sock>>
        /\ pc' = [pc EXCEPT ![b] = IF refCount[m] = 0 THEN "connect" ELSE "subscribe"]
    BY <1>2, <2>0 DEF Acquire, NeedConnect, Goto, wsVars
  <2>2. refCount[m] = 0 => m = b
    <3>1. refCount[m] = 0 => Holders(m) = {}
      BY Counted
    <3>2. Holders(m) = {x \in Buses : manager[x] = m /\ pc[x] \in Holding}
      BY Counted
    <3> QED
      BY <2>0, <2>1, <3>1, <3>2 DEF CreatorInv
  <2>3. \A x \in Buses : x # b => pc'[x] = pc[x] /\ pc[x] # "got"
    BY <2>1 DEF SoleInv, TypeOK, Resting
  <2> QED
    BY <2>0, <2>1, <2>2, <2>3 DEF TypeOK, CreatorInv
<1>3. ASSUME NEW b \in Buses, BuildConnectUrlFails(b) PROVE CreatorInv'
  BY <1>3, NoFailure
<1>4. ASSUME NEW b \in Buses, Connect(b) PROVE CreatorInv'
  BY <1>4 DEF TypeOK, KeyInv, SockInv, SoleInv, RegistryInv, CreatorInv, Holding,
     Resting, Connect, Goto
<1>5. ASSUME NEW b \in Buses, ConnectTimeout(b) PROVE CreatorInv'
  BY <1>5, NoFailure
<1>6. ASSUME NEW b \in Buses, UndoAcquire(b) PROVE CreatorInv'
  BY <1>6, NoFailure
<1>7. ASSUME NEW b \in Buses, Subscribe(b) PROVE CreatorInv'
  BY <1>7 DEF TypeOK, KeyInv, SockInv, SoleInv, RegistryInv, CreatorInv, Holding,
     Resting, Subscribe, Goto, wsVars
<1>8. ASSUME NEW b \in Buses, Shutdown(b) PROVE CreatorInv'
  BY <1>8 DEF TypeOK, KeyInv, SockInv, SoleInv, RegistryInv, CreatorInv, Holding,
     Resting, MayStart, Shutdown, Goto, wsVars, managerVars
<1>9. ASSUME NEW b \in Buses, FinalizeFailed(b) PROVE CreatorInv'
  BY <1>9, NoFailure
<1>10. ASSUME NEW b \in Buses, Unsubscribe(b) PROVE CreatorInv'
  BY <1>10 DEF TypeOK, KeyInv, SockInv, SoleInv, RegistryInv, CreatorInv, Holding,
     Resting, Unsubscribe, Goto, wsVars
<1>11. ASSUME NEW b \in Buses, ReleaseShared(b) PROVE CreatorInv'
  BY <1>11 DEF TypeOK, KeyInv, SockInv, SoleInv, RegistryInv, CreatorInv, Holding,
     Resting, ReleaseShared, Goto, wsVars
<1>12. ASSUME NEW b \in Buses, ReleaseLast(b) PROVE CreatorInv'
  BY <1>12 DEF TypeOK, KeyInv, SockInv, SoleInv, RegistryInv, CreatorInv, Holding,
     Resting, ReleaseLast, Goto
<1>13. ASSUME NEW b \in Buses, Join(b) PROVE CreatorInv'
  BY <1>13 DEF TypeOK, KeyInv, SockInv, SoleInv, RegistryInv, CreatorInv, Holding,
     Resting, Join, Goto, wsVars
<1>14. ASSUME NEW b \in Buses, RemoveInstance(b) PROVE CreatorInv'
  BY <1>14 DEF TypeOK, KeyInv, SockInv, SoleInv, RegistryInv, CreatorInv, Holding,
     Resting, RemoveInstance, Goto, wsVars
<1>15. ASSUME NEW c \in Buses, OnOpen(c) PROVE CreatorInv'
  BY <1>15 DEF TypeOK, KeyInv, SockInv, SoleInv, RegistryInv, CreatorInv, Holding,
     Resting, OnOpen
<1>16. ASSUME NEW c \in Buses, OnHandshakeError(c) PROVE CreatorInv'
  BY <1>16, NoFailure
<1>17. ASSUME NEW c \in Buses, Drop(c) PROVE CreatorInv'
  BY <1>17 DEF TypeOK, KeyInv, SockInv, SoleInv, RegistryInv, CreatorInv, Holding,
     Resting, Drop, busVars, managerVars
<1>18. ASSUME NEW c \in Buses, OnClose(c) PROVE CreatorInv'
  BY <1>18 DEF TypeOK, KeyInv, SockInv, SoleInv, RegistryInv, CreatorInv, Holding,
     Resting, OnClose, busVars
<1>19. CASE Finished \/ UNCHANGED vars
  BY <1>19 DEF TypeOK, KeyInv, SockInv, SoleInv, RegistryInv, CreatorInv, Holding,
     Resting, Finished, vars
<1> QED
  BY <1>1, <1>2, <1>3, <1>4, <1>5, <1>6, <1>7, <1>8, <1>9, <1>10, <1>11,
     <1>12, <1>13, <1>14, <1>15, <1>16, <1>17, <1>18, <1>19
  DEF Next, Start, Continue, WebSocketThread

\* Where the theorems of this module start from: every invariant that holds of such
\* an application.
Reachable ==
  /\ TypeOK /\ KeyInv /\ RefAccounting
  /\ SockInv /\ CloseInv /\ FlagTruthful
  /\ SoleInv /\ RegistryInv /\ CreatorInv

LEMMA ReachableInvariant ==
  ASSUME Sequential
  PROVE  Spec => []Reachable
<1> DEFINE Inv == SoleInv /\ RegistryInv /\ CreatorInv
<1>1. Init => Inv
  BY ConnectionAssumption
     DEF Init, SoleInv, RegistryInv, CreatorInv, Holding, Resting
<1>2. /\ TypeOK /\ KeyInv /\ RefAccounting /\ SockInv /\ FlagTruthful
      /\ Inv /\ [Next]_vars
      => Inv'
  BY SoleStep, RegistryStep, CreatorStep
<1>3. /\ TypeOK /\ KeyInv /\ RefAccounting /\ SockInv /\ CloseInv /\ FlagTruthful /\ Inv
      => Reachable
  BY DEF Reachable
<1> QED
  BY <1>1, <1>2, <1>3, TypeCorrect, KeyInvariant, Accounting, SocketInvariant, PTL DEF Spec

-----------------------------------------------------------------------------
(* What the documentation says of the registry. *)

\* A manager that a bus holds is the registered one (get_instance and release), so
\* that the next bus of its backend, session and batch mode shares the WebSocket.
THEOREM Registered ==
  ASSUME Sequential
  PROVE  Spec => []RegisteredWhileHeld
<1>1. Reachable => RegisteredWhileHeld
  BY Counted DEF Reachable, RegistryInv, RegisteredWhileHeld, Holding
<1> QED
  BY <1>1, ReachableInvariant, PTL

\* Two open WebSockets with one key belong to one registered manager.
LEMMA OneIsOpen == Reachable => OneSocketPerKey
<1> SUFFICES ASSUME Reachable, NEW c \in Buses, NEW d \in Buses,
                    sock[c] = "open", sock[d] = "open", RegistryKey(c) = RegistryKey(d)
             PROVE  c = d
  BY DEF OneSocketPerKey
<1> USE DEF Reachable
<1>1. PICK x \in Buses : manager[x] = c /\ pc[x] \in Holding
  BY OpenIsHeld
<1>2. PICK y \in Buses : manager[y] = d /\ pc[y] \in Holding
  BY OpenIsHeld
<1>3. RegistryKey(x) = RegistryKey(y)
  BY <1>1, <1>2 DEF KeyInv
<1> QED
  BY <1>1, <1>2, <1>3 DEF RegistryInv, Holding

\* One WebSocket is open for each backend, session and batch mode (get_instance).
\* Threads that race break this, so it needs the single thread.
THEOREM OneSocket ==
  ASSUME Sequential
  PROVE  Spec => []OneSocketPerKey
<1> QED
  BY OneIsOpen, ReachableInvariant, PTL

-----------------------------------------------------------------------------
(* The shared link. *)

\* What LinkOf and UsersOf say of such an application, without counting.
IsUp(k) == \E c \in Buses : RegistryKey(c) = k /\ sock[c] = "open"

IsOpening(k) ==
  \E b \in Buses : RegistryKey(b) = k /\ pc[b] \in {"connect", "waiting"}

Sharing(k) == {b \in Buses : RegistryKey(b) = k /\ pc[b] \in Holding}

LinkState(k) ==
  IF IsUp(k) THEN "up"
  ELSE IF IsOpening(k) THEN "opening"
  ELSE IF Sharing(k) = {} THEN "closed" ELSE "lost"

LEMMA UsersShare == Reachable => \A k \in Keys : UsersOf(k) = Sharing(k)
<1> SUFFICES ASSUME Reachable, NEW k \in Keys PROVE UsersOf(k) = Sharing(k)
  OBVIOUS
<1> USE DEF Reachable
<1>1. \A m \in Buses : Holders(m) = {b \in Buses : manager[b] = m /\ pc[b] \in Holding}
  BY Counted
<1>2. UsersOf(k) \subseteq Sharing(k)
  BY <1>1 DEF UsersOf, Sharing, KeyInv
<1>3. ASSUME NEW b \in Sharing(k) PROVE b \in UsersOf(k)
  <2>1. manager[b] \in Buses /\ RegistryKey(manager[b]) = k
    BY <1>3 DEF Sharing, Holding, TypeOK, KeyInv
  <2>2. b \in Holders(manager[b])
    BY <1>1, <1>3, <2>1 DEF Sharing
  <2> QED
    BY <2>1, <2>2 DEF UsersOf
<1> QED
  BY <1>2, <1>3

LEMMA LinkIs == Reachable => \A k \in Keys : LinkOf(k) = LinkState(k)
<1> SUFFICES ASSUME Reachable, NEW k \in Keys PROVE LinkOf(k) = LinkState(k)
  OBVIOUS
<1>1. UsersOf(k) = Sharing(k)
  BY UsersShare
<1>2. CASE IsUp(k)
  <2>1. PICK c \in Buses : RegistryKey(c) = k /\ sock[c] = "open"
    BY <1>2 DEF IsUp
  <2>2. OneSocketPerKey
    BY OneIsOpen
  <2>3. OpenSockets(k) = {c}
    BY <2>1, <2>2 DEF OpenSockets, OneSocketPerKey
  <2>4. Cardinality(OpenSockets(k)) = 1
    BY <2>3, FS_Singleton
  <2> QED
    BY <1>2, <2>3, <2>4 DEF LinkOf, LinkState
<1>3. CASE ~IsUp(k)
  <2>1. OpenSockets(k) = {}
    BY <1>3 DEF IsUp, OpenSockets
  <2>2. Cardinality(OpenSockets(k)) = 0
    BY <2>1, FS_EmptySet
  <2>3. (\E b \in UsersOf(k) : pc[b] \in {"connect", "waiting"}) <=> IsOpening(k)
    BY <1>1 DEF Sharing, IsOpening, Holding
  <2> QED
    BY <1>1, <1>3, <2>1, <2>2, <2>3 DEF LinkOf, LinkState
<1> QED
  BY <1>2, <1>3

\* A step that moves no bus into or out of Sharing, starts or ends no handshake and
\* opens or closes no WebSocket is a stutter of the link.
LEMMA Unchanged ==
  ASSUME \A b \in Buses : pc'[b] \in Holding <=> pc[b] \in Holding,
         \A b \in Buses : pc'[b] \in {"connect", "waiting"} <=> pc[b] \in {"connect", "waiting"},
         \A c \in Buses : sock'[c] = "open" <=> sock[c] = "open"
  PROVE  \A k \in Keys : Sharing(k)' = Sharing(k) /\ LinkState(k)' = LinkState(k)
<1> TAKE k \in Keys
<1>1. Sharing(k)' = Sharing(k)
  BY DEF Sharing
<1>2. IsUp(k)' <=> IsUp(k)
  BY DEF IsUp
<1>3. IsOpening(k)' <=> IsOpening(k)
  BY DEF IsOpening
<1> QED
  BY <1>1, <1>2, <1>3 DEF LinkState

\* Nor does a step at one key touch the link of another.
LEMMA Elsewhere ==
  ASSUME NEW k,
         \A x \in Buses : RegistryKey(x) # k =>
           pc'[x] = pc[x] /\ (sock'[x] = "open" <=> sock[x] = "open")
  PROVE  \A j \in Keys : j # k => Sharing(j)' = Sharing(j) /\ LinkState(j)' = LinkState(j)
<1> SUFFICES ASSUME NEW j \in Keys, j # k
             PROVE  Sharing(j)' = Sharing(j) /\ LinkState(j)' = LinkState(j)
  OBVIOUS
<1>1. Sharing(j)' = Sharing(j)
  BY DEF Sharing
<1>2. IsUp(j)' <=> IsUp(j)
  BY DEF IsUp
<1>3. IsOpening(j)' <=> IsOpening(j)
  BY DEF IsOpening
<1> QED
  BY <1>1, <1>2, <1>3 DEF LinkState

\* The holders of a registered manager are the buses that share its link.
LEMMA HoldersShare ==
  ASSUME Reachable, NEW b \in Buses, NEW m \in Buses, manager[b] = m,
         pc[b] \notin {"unborn", "down"}
  PROVE  Holders(m) = Sharing(RegistryKey(b))
<1> USE DEF Reachable
<1>1. Holders(m) = {x \in Buses : manager[x] = m /\ pc[x] \in Holding}
  BY Counted
<1>2. instances[RegistryKey(b)] = m
  BY DEF RegistryInv
<1>3. \A x \in Sharing(RegistryKey(b)) : manager[x] = m
  BY <1>2 DEF Sharing, RegistryInv, Holding
<1>4. \A x \in Buses : manager[x] = m => RegistryKey(x) = RegistryKey(b)
  BY DEF KeyInv
<1> QED
  BY <1>1, <1>3, <1>4 DEF Sharing

\* A WebSocket is open only while its link is shared, and by its manager's buses.
LEMMA UpIsShared ==
  ASSUME Reachable, NEW c \in Buses, sock[c] \in {"connecting", "open"}
  PROVE  /\ Sharing(RegistryKey(c)) # {}
         /\ \A x \in Sharing(RegistryKey(c)) : manager[x] = c
<1> USE DEF Reachable
<1>1. PICK x \in Buses : manager[x] = c /\ pc[x] \in Holding
  BY OpenIsHeld
<1>2. RegistryKey(x) = RegistryKey(c)
  BY <1>1 DEF KeyInv
<1>3. \A y \in Sharing(RegistryKey(c)) : manager[y] = c
  BY <1>1, <1>2 DEF Sharing, RegistryInv, Holding
<1> QED
  BY <1>1, <1>2, <1>3 DEF Sharing

\* acquire enters the link of the bus's key, and opens it when nobody is there.
LEMMA AcquireEnters ==
  ASSUME Reachable, NEW b \in Buses, Acquire(b), NEW k \in Keys, RegistryKey(b) = k
  PROVE  /\ b \notin Sharing(k) /\ Sharing(k)' = Sharing(k) \cup {b}
         /\ LinkState(k)' = IF Sharing(k) = {} THEN "opening" ELSE LinkState(k)
         /\ \A j \in Keys : j # k => Sharing(j)' = Sharing(j) /\ LinkState(j)' = LinkState(j)
<1> USE DEF Reachable
<1>1. PICK m \in Buses : manager[b] = m
  BY DEF TypeOK, Acquire, Goto
<1>2. /\ pc[b] = "got" /\ UNCHANGED sock
      /\ pc' = [pc EXCEPT ![b] = IF refCount[m] = 0 THEN "connect" ELSE "subscribe"]
  BY <1>1 DEF Acquire, NeedConnect, Goto, wsVars
<1>3. refCount[m] = 0 <=> Sharing(k) = {}
  <2>1. Holders(m) = Sharing(k)
    BY <1>1, <1>2, HoldersShare
  <2>2. refCount[m] = 0 => Holders(m) = {}
    BY Counted
  <2>3. Overdrawn(m) = {}
    BY Counted
  <2>4. Holders(m) = {} => refCount[m] = 0
    <3>1. Cardinality(Overdrawn(m)) = 0
      BY <2>3, FS_EmptySet
    <3>2. Holders(m) = {} => Cardinality(Holders(m)) = 0
      BY FS_EmptySet
    <3> QED
      BY <3>1, <3>2 DEF RefAccounting
  <2> QED
    BY <2>1, <2>2, <2>4
<1>4. b \notin Sharing(k) /\ Sharing(k)' = Sharing(k) \cup {b}
  BY <1>2 DEF Sharing, Holding, TypeOK
<1>5. IsUp(k)' <=> IsUp(k)
  BY <1>2 DEF IsUp
<1>6. CASE Sharing(k) = {}
  <2>1. ~IsUp(k)
    BY <1>6, UpIsShared DEF IsUp
  <2>2. IsOpening(k)'
    BY <1>2, <1>3, <1>6 DEF IsOpening, TypeOK
  <2>3. LinkState(k)' = "opening"
    BY <1>5, <2>1, <2>2 DEF LinkState
  <2> QED
    BY <1>2, <1>4, <1>6, <2>3, Elsewhere DEF TypeOK
<1>7. CASE Sharing(k) # {}
  <2>1. IsOpening(k)' <=> IsOpening(k)
    BY <1>2, <1>3, <1>7 DEF IsOpening, TypeOK
  <2>2. LinkState(k)' = LinkState(k)
    BY <1>4, <1>5, <1>7, <2>1 DEF LinkState
  <2> QED
    BY <1>2, <1>4, <1>7, <2>2, Elsewhere DEF TypeOK
<1> QED
  BY <1>6, <1>7

\* release leaves the link, and closes it when nobody stays.
LEMMA ReleaseLeaves ==
  ASSUME Reachable, NEW b \in Buses, ReleaseShared(b) \/ ReleaseLast(b),
         NEW k \in Keys, RegistryKey(b) = k
  PROVE  /\ b \in Sharing(k) /\ Sharing(k)' = Sharing(k) \ {b}
         /\ LinkState(k)' = IF Sharing(k) = {b} THEN "closed" ELSE LinkState(k)
         /\ \A j \in Keys : j # k => Sharing(j)' = Sharing(j) /\ LinkState(j)' = LinkState(j)
<1> USE ConnectionAssumption DEF Reachable
<1>1. PICK m \in Buses : manager[b] = m
  BY DEF TypeOK, ReleaseShared, ReleaseLast, Goto
<1>2. /\ pc[b] = "release" /\ \A x \in Buses : x # b => pc'[x] = pc[x]
      /\ pc'[b] \notin Holding
  BY DEF ReleaseShared, ReleaseLast, Goto, Holding, TypeOK
<1>3. b \in Sharing(k) /\ Sharing(k)' = Sharing(k) \ {b}
  BY <1>2 DEF Sharing, Holding
<1>4. IsOpening(k)' <=> IsOpening(k)
  BY <1>2 DEF IsOpening, Holding
<1>5. Holders(m) = Sharing(k) /\ b \in Holders(m)
  BY <1>1, <1>2, <1>3, HoldersShare
<1>6. CASE ReleaseShared(b)
  <2>1. UNCHANGED sock /\ refCount[m] # 1
    BY <1>1, <1>6 DEF ReleaseShared, LastReference, wsVars
  <2>2. Sharing(k) # {b}
    BY <1>5, <2>1, Counted
  <2>3. IsUp(k)' <=> IsUp(k)
    BY <2>1 DEF IsUp
  <2>4. LinkState(k)' = LinkState(k)
    BY <1>3, <1>4, <2>2, <2>3 DEF LinkState
  <2> QED
    BY <1>2, <1>3, <2>1, <2>2, <2>4, Elsewhere
<1>7. CASE ReleaseLast(b)
  <2>1. /\ refCount[m] <= 1
        /\ \A x \in Buses : sock'[x] = IF x = ws[m] /\ sock[x] = "open"
                                       THEN "dropped" ELSE sock[x]
    BY <1>1, <1>7 DEF ReleaseLast, LastReference, TypeOK
  <2>2. Sharing(k) = {b}
    BY <1>5, <2>1, Counted
  <2>3. ASSUME NEW c \in Buses, RegistryKey(c) = k, sock[c] = "open"
        PROVE  sock'[c] # "open"
    <3>1. manager[b] = c
      BY <2>2, <2>3, UpIsShared
    <3>2. ws[c] = c
      BY <2>3, OpenIsHeld
    <3> QED
      BY <1>1, <2>1, <3>1, <3>2
  <2>4. ~IsUp(k)'
    BY <2>1, <2>3 DEF IsUp
  <2>5. ~IsOpening(k)'
    <3>1. \A x \in Buses : RegistryKey(x) = k /\ pc[x] \in Holding => x = b
      BY <2>2 DEF Sharing
    <3> QED
      BY <1>2, <1>4, <3>1 DEF IsOpening, Holding
  <2>6. LinkState(k)' = "closed"
    BY <1>3, <2>2, <2>4, <2>5 DEF LinkState
  <2>7. \A x \in Buses : RegistryKey(x) # k => (sock'[x] = "open" <=> sock[x] = "open")
    BY <1>1, <2>1 DEF SoleInv, KeyInv
  <2> QED
    BY <1>2, <1>3, <2>2, <2>6, <2>7, Elsewhere
<1> QED
  BY <1>6, <1>7

\* on_open is the opening of the link: before it nobody else's WebSocket was open.
LEMMA OnOpenOpens ==
  ASSUME Reachable, NEW c \in Buses, OnOpen(c), NEW k \in Keys, RegistryKey(c) = k
  PROVE  /\ LinkState(k) = "opening" /\ LinkState(k)' = "up" /\ Sharing(k)' = Sharing(k)
         /\ \A j \in Keys : j # k => Sharing(j)' = Sharing(j) /\ LinkState(j)' = LinkState(j)
<1> USE DEF Reachable
<1>1. /\ sock[c] = "connecting"
      /\ \A x \in Buses : sock'[x] = IF x = c THEN "open" ELSE sock[x]
      /\ \A x \in Buses : \/ pc'[x] = pc[x]
                          \/ pc[x] = "waiting" /\ pc'[x] = "subscribe"
  BY OpenKeeps
<1>2. pc[c] = "waiting" /\ manager[c] = c /\ \A x \in Buses : x # c => pc[x] # "waiting"
  BY <1>1 DEF SoleInv, CreatorInv, Resting
<1>3. Sharing(k)' = Sharing(k)
  BY <1>1 DEF Sharing, Holding
<1>4. ~IsUp(k)
  <2> SUFFICES ASSUME NEW d \in Buses, RegistryKey(d) = k, sock[d] = "open" PROVE FALSE
    BY DEF IsUp
  <2>1. c \in Sharing(k)
    BY <1>2 DEF Sharing, Holding
  <2>2. manager[c] = d
    BY <2>1, UpIsShared
  <2> QED
    BY <1>1, <1>2, <2>2
<1>5. LinkState(k) = "opening"
  BY <1>2, <1>4 DEF IsOpening, LinkState
<1>6. LinkState(k)' = "up"
  BY <1>1 DEF IsUp, LinkState
<1> QED
  BY <1>1, <1>2, <1>3, <1>5, <1>6, Elsewhere

\* A lost WebSocket is the loss of the link: its buses stay, and none reconnects.
LEMMA DropLoses ==
  ASSUME Reachable, NEW c \in Buses, Drop(c), NEW k \in Keys, RegistryKey(c) = k
  PROVE  /\ LinkState(k) = "up" /\ LinkState(k)' = "lost" /\ Sharing(k)' = Sharing(k)
         /\ \A j \in Keys : j # k => Sharing(j)' = Sharing(j) /\ LinkState(j)' = LinkState(j)
<1> USE DEF Reachable
<1>1. /\ sock[c] = "open" /\ UNCHANGED pc
      /\ \A x \in Buses : sock'[x] = IF x = c THEN "dropped" ELSE sock[x]
  BY DEF Drop, TypeOK, busVars
<1>2. Sharing(k)' = Sharing(k) /\ Sharing(k) # {}
  BY <1>1, UpIsShared DEF Sharing
<1>3. LinkState(k) = "up"
  BY <1>1 DEF IsUp, LinkState
<1>4. ~IsUp(k)'
  BY <1>1, OneIsOpen DEF IsUp, OneSocketPerKey
<1>5. ~IsOpening(k)
  <2> SUFFICES ASSUME NEW b \in Sharing(k), pc[b] \in {"connect", "waiting"} PROVE FALSE
    BY DEF IsOpening, Sharing, Holding
  <2>1. manager[b] = c
    BY <1>1, UpIsShared
  <2>2. b = c
    BY <2>1 DEF CreatorInv, Sharing
  <2> QED
    BY <1>1, <2>2 DEF SockInv, SoleInv
<1>6. LinkState(k)' = "lost"
  BY <1>1, <1>2, <1>4, <1>5 DEF IsOpening, LinkState
<1> QED
  BY <1>1, <1>2, <1>3, <1>6, Elsewhere

\* users and link as SharedLink sees them.
LEMMA LinkVars ==
  Reachable => /\ [k \in Keys |-> UsersOf(k)] = [k \in Keys |-> Sharing(k)]
               /\ [k \in Keys |-> LinkOf(k)] = [k \in Keys |-> LinkState(k)]
  BY UsersShare, LinkIs

\* Every step is a step of SharedLink or leaves it alone: acquire enters, release
\* leaves, on_open opens, a lost WebSocket loses the link.
LEMMA LinkStep ==
  ASSUME Sequential, Reachable, Reachable', [Next]_vars
  PROVE  [Link!Next]_(Link!vars)
<1> DEFINE shared == [k \in Keys |-> Sharing(k)]
           state == [k \in Keys |-> LinkState(k)]
           Quiet == \A k \in Keys : Sharing(k)' = Sharing(k) /\ LinkState(k)' = LinkState(k)
<1>1. /\ [k \in Keys |-> UsersOf(k)] = shared /\ [k \in Keys |-> LinkOf(k)] = state
      /\ [k \in Keys |-> UsersOf(k)'] = shared' /\ [k \in Keys |-> LinkOf(k)'] = state'
  <2>1. /\ [k \in Keys |-> UsersOf(k)] = shared /\ [k \in Keys |-> LinkOf(k)] = state
    BY LinkVars
  <2>2. (/\ [k \in Keys |-> UsersOf(k)] = shared
         /\ [k \in Keys |-> LinkOf(k)] = state)'
    BY LinkVars, PTL
  <2> QED
    BY <2>1, <2>2
<1>2. Quiet => UNCHANGED Link!vars
  BY <1>1 DEF Link!vars
<1>3. ASSUME NEW k \in Keys, NEW b \in Buses, RegistryKey(b) = k, Acquire(b)
      PROVE  Link!Enter(k, b)
  <2>1. \A j \in Keys : b \notin shared[j]
    BY <1>3, AcquireEnters DEF Sharing
  <2>2. shared' = [shared EXCEPT ![k] = @ \cup {b}]
    BY <1>3, AcquireEnters
  <2>3. state' = [state EXCEPT ![k] = IF shared[k] = {} THEN "opening" ELSE @]
    BY <1>3, AcquireEnters
  <2> HIDE DEF shared, state
  <2> QED
    BY <1>1, <2>1, <2>2, <2>3 DEF Link!Enter
<1>4. ASSUME NEW k \in Keys, NEW b \in Buses, RegistryKey(b) = k,
             ReleaseShared(b) \/ ReleaseLast(b)
      PROVE  Link!Leave(k, b)
  <2>1. b \in shared[k]
    BY <1>4, ReleaseLeaves
  <2>2. shared' = [shared EXCEPT ![k] = @ \ {b}]
    BY <1>4, ReleaseLeaves
  <2>3. state' = [state EXCEPT ![k] = IF shared[k] = {b} THEN "closed" ELSE @]
    BY <1>4, ReleaseLeaves
  <2> HIDE DEF shared, state
  <2> QED
    BY <1>1, <2>1, <2>2, <2>3 DEF Link!Leave
<1>5. ASSUME NEW k \in Keys, NEW c \in Buses, RegistryKey(c) = k, OnOpen(c)
      PROVE  Link!Open(k)
  <2>1. state[k] = "opening" /\ state' = [state EXCEPT ![k] = "up"] /\ shared' = shared
    BY <1>5, OnOpenOpens
  <2> HIDE DEF shared, state
  <2> QED
    BY <1>1, <2>1 DEF Link!Open
<1>6. ASSUME NEW k \in Keys, NEW c \in Buses, RegistryKey(c) = k, Drop(c)
      PROVE  Link!Lose(k)
  <2>1. state[k] = "up" /\ state' = [state EXCEPT ![k] = "lost"] /\ shared' = shared
    BY <1>6, DropLoses
  <2> HIDE DEF shared, state
  <2> QED
    BY <1>1, <2>1 DEF Link!Lose
<1>7. ASSUME NEW b \in Buses,
             \/ GetInstance(b) \/ Connect(b) \/ Subscribe(b) \/ Shutdown(b)
             \/ Unsubscribe(b) \/ Join(b) \/ RemoveInstance(b) \/ OnClose(b)
      PROVE  Quiet
  <2>1. CASE GetInstance(b)
    BY <1>7, <2>1, Unchanged DEF Reachable, TypeOK, Holding, GetInstance, Goto, wsVars
  <2>2. CASE Connect(b)
    <3>1. /\ pc[b] = "connect" /\ sock[b] = "none"
          /\ pc' = [pc EXCEPT ![b] = "waiting"] /\ sock' = [sock EXCEPT ![b] = "connecting"]
      BY <1>7, <2>2, ConnectWaits DEF Reachable
    <3> QED
      BY <3>1, Unchanged DEF Reachable, TypeOK, Holding
  <2>3. CASE Subscribe(b)
    BY <1>7, <2>3, Unchanged DEF Reachable, TypeOK, Holding, Subscribe, Goto, wsVars
  <2>4. CASE Shutdown(b)
    BY <1>7, <2>4, Unchanged DEF Reachable, TypeOK, Holding, Shutdown, Goto, wsVars,
       managerVars
  <2>5. CASE Unsubscribe(b)
    BY <1>7, <2>5, Unchanged DEF Reachable, TypeOK, Holding, Unsubscribe, Goto, wsVars
  <2>6. CASE Join(b)
    BY <1>7, <2>6, Unchanged DEF Reachable, TypeOK, Holding, Join, Goto, wsVars
  <2>7. CASE RemoveInstance(b)
    BY <1>7, <2>7, Unchanged DEF Reachable, TypeOK, Holding, RemoveInstance, Goto, wsVars
  <2>8. CASE OnClose(b)
    BY <1>7, <2>8, Unchanged DEF Reachable, TypeOK, OnClose, busVars
  <2> QED
    BY <1>7, <2>1, <2>2, <2>3, <2>4, <2>5, <2>6, <2>7, <2>8
<1>8. CASE Finished \/ UNCHANGED vars
  <2>1. UNCHANGED <<pc, sock>>
    BY <1>8 DEF Finished, vars
  <2>2. Quiet
    BY <2>1, Unchanged
  <2> QED
    BY <1>2, <2>2
<1>9. \A b \in Buses : RegistryKey(b) \in Keys
  BY DEF Keys
<1> HIDE DEF shared, state, Quiet
<1>10. ASSUME NEW b \in Buses, Start(b) \/ Continue(b) \/ WebSocketThread(b)
       PROVE  Link!Next \/ UNCHANGED Link!vars
  <2>1. CASE \/ GetInstance(b) \/ Connect(b) \/ Subscribe(b) \/ Shutdown(b)
             \/ Unsubscribe(b) \/ Join(b) \/ RemoveInstance(b) \/ OnClose(b)
    BY <1>2, <1>7, <2>1
  <2>2. CASE \/ Acquire(b) \/ ReleaseShared(b) \/ ReleaseLast(b) \/ OnOpen(b) \/ Drop(b)
    BY <1>3, <1>4, <1>5, <1>6, <1>9, <2>2 DEF Link!Next
  <2>3. /\ ~BuildConnectUrlFails(b) /\ ~ConnectTimeout(b) /\ ~UndoAcquire(b)
        /\ ~FinalizeFailed(b) /\ ~OnHandshakeError(b)
    BY NoFailure DEF Reachable
  <2> QED
    BY <1>10, <2>1, <2>2, <2>3 DEF Start, Continue, WebSocketThread
<1> QED
  BY <1>8, <1>10 DEF Next

\* In an application with one thread and a backend that answers, the registry, the
\* reference counts and the WebSocket threads together do what SharedLink promises:
\* for each backend, session and batch mode one WebSocket that opens for the first
\* bus, is shared by the next ones, is not reopened when it is lost, and closes with
\* the last (the safety part of ImplementsSharedLink).
THEOREM SharesLink ==
  ASSUME Sequential
  PROVE  Spec => Link!Spec
<1>1. Init => Link!Init
  <2> SUFFICES ASSUME Init PROVE Link!Init
    OBVIOUS
  <2>1. \A k \in Keys : UsersOf(k) = {}
    BY DEF Init, UsersOf, Holders
  <2>2. \A k \in Keys : OpenSockets(k) = {}
    BY DEF Init, OpenSockets
  <2>3. \A k \in Keys : Cardinality(OpenSockets(k)) = 0
    BY <2>2, FS_EmptySet
  <2>4. \A k \in Keys : LinkOf(k) = "closed"
    BY <2>1, <2>2, <2>3 DEF LinkOf
  <2> QED
    BY <2>1, <2>4 DEF Link!Init
<1>2. Reachable /\ Reachable' /\ [Next]_vars => [Link!Next]_(Link!vars)
  BY LinkStep
<1> QED
  BY <1>1, <1>2, ReachableInvariant, PTL DEF Spec, Link!Spec
=============================================================================
