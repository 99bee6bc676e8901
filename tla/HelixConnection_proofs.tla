----------------------- MODULE HelixConnection_proofs -----------------------
(***************************************************************************)
(* Proofs about the shared connection of can_helix, for every set of buses *)
(* and every configuration of them.                                        *)
(***************************************************************************)
EXTENDS HelixConnection, FiniteSetTheorems, TLAPS

-----------------------------------------------------------------------------
(* Type correctness. *)

\* The variables keep their types, and a bus whose construction has begun has
\* a manager.
THEOREM TypeCorrect == Spec => []TypeOK
<1>1. Init => TypeOK
  BY DEF Init, TypeOK, Resting
<1>2. TypeOK /\ [Next]_vars => TypeOK'
  <2> SUFFICES ASSUME TypeOK, [Next]_vars PROVE TypeOK'
    OBVIOUS
  <2> USE DEF TypeOK
  <2>1. ASSUME NEW b \in Buses, GetInstance(b) PROVE TypeOK'
    <3>1. RegistryKey(b) \in Keys
      BY DEF Keys
    <3> QED
      BY <2>1, <3>1 DEF GetInstance, LookUpOrCreate, Goto, wsVars, Busy, Resting
  <2>2. ASSUME NEW b \in Buses, Acquire(b) PROVE TypeOK'
    BY <2>2 DEF Acquire, Goto, wsVars, Busy, Resting
  <2>3. ASSUME NEW b \in Buses, BuildConnectUrlFails(b) PROVE TypeOK'
    BY <2>3 DEF BuildConnectUrlFails, Goto, wsVars, managerVars, Busy, Resting
  <2>4. ASSUME NEW b \in Buses, Connect(b) PROVE TypeOK'
    BY <2>4 DEF Connect, Goto, Busy, Resting
  <2>5. ASSUME NEW b \in Buses, ConnectTimeout(b) PROVE TypeOK'
    BY <2>5 DEF ConnectTimeout, Goto, wsVars, managerVars, Busy, Resting
  <2>6. ASSUME NEW b \in Buses, UndoAcquire(b) PROVE TypeOK'
    <3>1. \/ instances' = [instances EXCEPT ![RegistryKey(manager[b])] = NONE]
          \/ instances' = instances
      BY <2>6, Zenon DEF UndoAcquire
    <3>2. instances' \in [Keys -> Buses \cup {NONE}]
      BY <3>1
    <3> QED
      BY <2>6, <3>2 DEF UndoAcquire, LastReference, Goto, wsVars, Busy, Resting
  <2>7. ASSUME NEW b \in Buses, Subscribe(b) PROVE TypeOK'
    BY <2>7 DEF Subscribe, Goto, wsVars, Busy, Resting
  <2>8. ASSUME NEW b \in Buses, Shutdown(b) PROVE TypeOK'
    BY <2>8 DEF Shutdown, Goto, wsVars, managerVars, Busy, Resting
  <2>9. ASSUME NEW b \in Buses, FinalizeFailed(b) PROVE TypeOK'
    BY <2>9 DEF FinalizeFailed, Goto, wsVars, managerVars, Busy, Resting
  <2>10. ASSUME NEW b \in Buses, Unsubscribe(b) PROVE TypeOK'
    BY <2>10 DEF Unsubscribe, Goto, wsVars, Busy, Resting
  <2>11. ASSUME NEW b \in Buses, ReleaseShared(b) PROVE TypeOK'
    BY <2>11 DEF ReleaseShared, Goto, wsVars, Busy, Resting
  <2>12. ASSUME NEW b \in Buses, ReleaseLast(b) PROVE TypeOK'
    BY <2>12 DEF ReleaseLast, Goto, Busy, Resting
  <2>13. ASSUME NEW b \in Buses, Join(b) PROVE TypeOK'
    BY <2>13 DEF Join, Goto, wsVars, Busy, Resting
  <2>14. ASSUME NEW b \in Buses, RemoveInstance(b) PROVE TypeOK'
    BY <2>14 DEF RemoveInstance, Goto, wsVars, Busy, Resting
  <2>15. ASSUME NEW c \in Buses, OnOpen(c) PROVE TypeOK'
    BY <2>15 DEF OnOpen, Busy, Resting
  <2>16. ASSUME NEW c \in Buses, OnHandshakeError(c) PROVE TypeOK'
    BY <2>16 DEF OnHandshakeError, busVars
  <2>17. ASSUME NEW c \in Buses, Drop(c) PROVE TypeOK'
    BY <2>17 DEF Drop, busVars, managerVars
  <2>18. ASSUME NEW c \in Buses, OnClose(c) PROVE TypeOK'
    BY <2>18 DEF OnClose, busVars
  <2>19. CASE Finished \/ UNCHANGED vars
    BY <2>19 DEF Finished, vars
  <2> QED
    BY <2>1, <2>2, <2>3, <2>4, <2>5, <2>6, <2>7, <2>8, <2>9, <2>10, <2>11,
       <2>12, <2>13, <2>14, <2>15, <2>16, <2>17, <2>18, <2>19
       DEF Next, Start, Continue, WebSocketThread
<1> QED
  BY <1>1, <1>2, PTL DEF Spec

-----------------------------------------------------------------------------
(* Sessions. *)

\* Managers are registered and used under their own key only, and a
\* WebSocket exists only for a bus that has a manager.
KeyInv ==
  /\ \A b \in Buses : manager[b] \in Buses => RegistryKey(manager[b]) = RegistryKey(b)
  /\ \A k \in Keys : instances[k] \in Buses => RegistryKey(instances[k]) = k
  /\ \A m \in Buses : \A b \in subscribers[m] : manager[b] = m /\ pc[b] # "unborn"
  /\ \A c \in Buses : sock[c] # "none" => pc[c] # "unborn"

LEMMA KeyInvariant == Spec => []KeyInv
<1>1. Init => KeyInv
  BY ConnectionAssumption DEF Init, KeyInv
<1>2. TypeOK /\ KeyInv /\ [Next]_vars => KeyInv'
  <2> SUFFICES ASSUME TypeOK, KeyInv, [Next]_vars PROVE KeyInv'
    OBVIOUS
  <2> USE ConnectionAssumption DEF KeyInv, TypeOK
  <2>1. ASSUME NEW b \in Buses, GetInstance(b) PROVE KeyInv'
    <3>1. RegistryKey(b) \in Keys
      BY DEF Keys
    <3> DEFINE m == LookUpOrCreate(RegistryKey(b), b)
    <3>2. m \in Buses /\ RegistryKey(m) = RegistryKey(b)
      BY <3>1 DEF LookUpOrCreate
    <3>3. /\ pc[b] = "unborn"
          /\ pc' = [pc EXCEPT ![b] = "got"]
          /\ instances' = [instances EXCEPT ![RegistryKey(b)] = m]
          /\ manager' = [manager EXCEPT ![b] = m]
          /\ UNCHANGED <<subscribers, sock>>
      BY <2>1 DEF GetInstance, Goto, wsVars
    <3> HIDE DEF m
    <3>4. (\A x \in Buses : manager[x] \in Buses => RegistryKey(manager[x]) = RegistryKey(x))'
      BY <3>2, <3>3
    <3>5. (\A k \in Keys : instances[k] \in Buses => RegistryKey(instances[k]) = k)'
      BY <3>1, <3>2, <3>3
    <3>6. (\A x \in Buses : \A y \in subscribers[x] :
             manager[y] = x /\ pc[y] # "unborn")'
      BY <3>3
    <3>7. (\A c \in Buses : sock[c] # "none" => pc[c] # "unborn")'
      BY <3>3
    <3> QED
      BY <3>4, <3>5, <3>6, <3>7
  <2>2. ASSUME NEW b \in Buses, Acquire(b) PROVE KeyInv'
    BY <2>2 DEF Acquire, Goto, wsVars
  <2>3. ASSUME NEW b \in Buses, BuildConnectUrlFails(b) PROVE KeyInv'
    BY <2>3 DEF BuildConnectUrlFails, Goto, wsVars, managerVars
  <2>4. ASSUME NEW b \in Buses, Connect(b) PROVE KeyInv'
    BY <2>4 DEF Connect, Goto
  <2>5. ASSUME NEW b \in Buses, ConnectTimeout(b) PROVE KeyInv'
    BY <2>5 DEF ConnectTimeout, Goto, wsVars, managerVars
  <2>6. ASSUME NEW b \in Buses, UndoAcquire(b) PROVE KeyInv'
    <3>1. \/ instances' = [instances EXCEPT ![RegistryKey(manager[b])] = NONE]
          \/ instances' = instances
      BY <2>6, Zenon DEF UndoAcquire
    <3>2. \A k \in Keys : instances'[k] \in Buses => instances'[k] = instances[k]
      BY <3>1
    <3> QED
      BY <2>6, <3>2 DEF UndoAcquire, LastReference, Goto, wsVars
  <2>7. ASSUME NEW b \in Buses, Subscribe(b) PROVE KeyInv'
    BY <2>7 DEF Subscribe, Goto, wsVars
  <2>8. ASSUME NEW b \in Buses, Shutdown(b) PROVE KeyInv'
    BY <2>8 DEF Shutdown, Goto, wsVars, managerVars
  <2>9. ASSUME NEW b \in Buses, FinalizeFailed(b) PROVE KeyInv'
    BY <2>9 DEF FinalizeFailed, Goto, wsVars, managerVars
  <2>10. ASSUME NEW b \in Buses, Unsubscribe(b) PROVE KeyInv'
    BY <2>10 DEF Unsubscribe, Goto, wsVars
  <2>11. ASSUME NEW b \in Buses, ReleaseShared(b) PROVE KeyInv'
    BY <2>11 DEF ReleaseShared, Goto, wsVars
  <2>12. ASSUME NEW b \in Buses, ReleaseLast(b) PROVE KeyInv'
    BY <2>12 DEF ReleaseLast, Goto
  <2>13. ASSUME NEW b \in Buses, Join(b) PROVE KeyInv'
    BY <2>13 DEF Join, Goto, wsVars
  <2>14. ASSUME NEW b \in Buses, RemoveInstance(b) PROVE KeyInv'
    BY <2>14 DEF RemoveInstance, Goto, wsVars
  <2>15. ASSUME NEW c \in Buses, OnOpen(c) PROVE KeyInv'
    BY <2>15 DEF OnOpen
  <2>16. ASSUME NEW c \in Buses, OnHandshakeError(c) PROVE KeyInv'
    BY <2>16 DEF OnHandshakeError, busVars
  <2>17. ASSUME NEW c \in Buses, Drop(c) PROVE KeyInv'
    BY <2>17 DEF Drop, busVars, managerVars
  <2>18. ASSUME NEW c \in Buses, OnClose(c) PROVE KeyInv'
    BY <2>18 DEF OnClose, busVars
  <2>19. CASE Finished \/ UNCHANGED vars
    BY <2>19 DEF Finished, vars
  <2> QED
    BY <2>1, <2>2, <2>3, <2>4, <2>5, <2>6, <2>7, <2>8, <2>9, <2>10, <2>11,
       <2>12, <2>13, <2>14, <2>15, <2>16, <2>17, <2>18, <2>19
       DEF Next, Start, Continue, WebSocketThread
<1> QED
  BY <1>1, <1>2, TypeCorrect, PTL DEF Spec

\* A bus only receives from WebSockets that its own crypto session
\* authenticated (connection.py, get_instance), for every number of buses and
\* sessions and every interleaving of constructors, failures and shutdowns.
THEOREM OwnSession == Spec => []FedByOwnSession
<1>1. TypeOK /\ KeyInv => FedByOwnSession
  <2> SUFFICES ASSUME TypeOK, KeyInv,
                      NEW c \in Buses, sock[c] = "open",
                      NEW b \in subscribers[manager[c]]
               PROVE  Config[c].session = Config[b].session
    BY DEF FedByOwnSession
  <2>1. manager[c] \in Buses
    BY DEF TypeOK, KeyInv
  <2>2. b \in Buses /\ manager[b] = manager[c]
    BY <2>1 DEF TypeOK, KeyInv
  <2>3. RegistryKey(b) = RegistryKey(c)
    BY <2>1, <2>2 DEF KeyInv
  <2> QED
    BY <2>3 DEF RegistryKey
<1> QED
  BY <1>1, TypeCorrect, KeyInvariant, PTL

-----------------------------------------------------------------------------
(* Reference counts. *)

\* Which constructors have failed.
RaisedInv ==
  \A b \in Buses :
    /\ raised[b] => pc[b] \in {"raised", "unsubscribe", "release", "join",
                              "remove", "down"}
    /\ pc[b] = "raised" => raised[b]

LEMMA RaisedInvariant == Spec => []RaisedInv
<1>1. Init => RaisedInv
  BY DEF Init, RaisedInv
<1>2. TypeOK /\ RaisedInv /\ [Next]_vars => RaisedInv'
  <2> SUFFICES ASSUME TypeOK, RaisedInv, [Next]_vars PROVE RaisedInv'
    OBVIOUS
  <2> USE DEF RaisedInv, TypeOK
  <2>1. ASSUME NEW b \in Buses, GetInstance(b) PROVE RaisedInv'
    BY <2>1 DEF GetInstance, LookUpOrCreate, Goto, wsVars
  <2>2. ASSUME NEW b \in Buses, Acquire(b) PROVE RaisedInv'
    BY <2>2 DEF Acquire, Goto, wsVars
  <2>3. ASSUME NEW b \in Buses, BuildConnectUrlFails(b) PROVE RaisedInv'
    BY <2>3 DEF BuildConnectUrlFails, Goto, wsVars, managerVars
  <2>4. ASSUME NEW b \in Buses, Connect(b) PROVE RaisedInv'
    BY <2>4 DEF Connect, Goto
  <2>5. ASSUME NEW b \in Buses, ConnectTimeout(b) PROVE RaisedInv'
    BY <2>5 DEF ConnectTimeout, Goto, wsVars, managerVars
  <2>6. ASSUME NEW b \in Buses, UndoAcquire(b) PROVE RaisedInv'
    BY <2>6 DEF UndoAcquire, Goto, wsVars
  <2>7. ASSUME NEW b \in Buses, Subscribe(b) PROVE RaisedInv'
    BY <2>7 DEF Subscribe, Goto, wsVars
  <2>8. ASSUME NEW b \in Buses, Shutdown(b) PROVE RaisedInv'
    BY <2>8 DEF Shutdown, Goto, wsVars, managerVars
  <2>9. ASSUME NEW b \in Buses, FinalizeFailed(b) PROVE RaisedInv'
    BY <2>9 DEF FinalizeFailed, Goto, wsVars, managerVars
  <2>10. ASSUME NEW b \in Buses, Unsubscribe(b) PROVE RaisedInv'
    BY <2>10 DEF Unsubscribe, Goto, wsVars
  <2>11. ASSUME NEW b \in Buses, ReleaseShared(b) PROVE RaisedInv'
    BY <2>11 DEF ReleaseShared, Goto, wsVars
  <2>12. ASSUME NEW b \in Buses, ReleaseLast(b) PROVE RaisedInv'
    BY <2>12 DEF ReleaseLast, Goto
  <2>13. ASSUME NEW b \in Buses, Join(b) PROVE RaisedInv'
    BY <2>13 DEF Join, Goto, wsVars
  <2>14. ASSUME NEW b \in Buses, RemoveInstance(b) PROVE RaisedInv'
    BY <2>14 DEF RemoveInstance, Goto, wsVars
  <2>15. ASSUME NEW c \in Buses, OnOpen(c) PROVE RaisedInv'
    BY <2>15 DEF OnOpen
  <2>16. ASSUME NEW c \in Buses, OnHandshakeError(c) PROVE RaisedInv'
    BY <2>16 DEF OnHandshakeError, busVars
  <2>17. ASSUME NEW c \in Buses, Drop(c) PROVE RaisedInv'
    BY <2>17 DEF Drop, busVars, managerVars
  <2>18. ASSUME NEW c \in Buses, OnClose(c) PROVE RaisedInv'
    BY <2>18 DEF OnClose, busVars
  <2>19. CASE Finished \/ UNCHANGED vars
    BY <2>19 DEF Finished, vars
  <2> QED
    BY <2>1, <2>2, <2>3, <2>4, <2>5, <2>6, <2>7, <2>8, <2>9, <2>10, <2>11,
       <2>12, <2>13, <2>14, <2>15, <2>16, <2>17, <2>18, <2>19
       DEF Next, Start, Continue, WebSocketThread
<1> QED
  BY <1>1, <1>2, TypeCorrect, PTL DEF Spec

\* Every set the accounting counts is finite.
LEMMA CountsExist ==
  \A m : /\ IsFiniteSet(Holders(m)) /\ Cardinality(Holders(m)) \in Nat
         /\ IsFiniteSet(Overdrawn(m)) /\ Cardinality(Overdrawn(m)) \in Nat
<1> SUFFICES ASSUME NEW m
             PROVE  /\ IsFiniteSet(Holders(m)) /\ Cardinality(Holders(m)) \in Nat
                    /\ IsFiniteSet(Overdrawn(m)) /\ Cardinality(Overdrawn(m)) \in Nat
  OBVIOUS
<1>1. Holders(m) \subseteq Buses /\ Overdrawn(m) \subseteq Buses
  BY DEF Holders, Overdrawn
<1>2. IsFiniteSet(Holders(m)) /\ IsFiniteSet(Overdrawn(m))
  BY <1>1, FS_Subset, ConnectionAssumption
<1> QED
  BY <1>2, FS_CardinalityType

\* The four ways in which an action can change the accounts: not at all, one
\* reference taken, one given back, one given back without having been held.
LEMMA Steady ==
  ASSUME RefAccounting,
         \A m \in Buses : /\ Holders(m)' = Holders(m)
                          /\ Overdrawn(m)' = Overdrawn(m)
                          /\ refCount'[m] = refCount[m]
  PROVE  RefAccounting'
  BY DEF RefAccounting

LEMMA Taken ==
  ASSUME TypeOK, RefAccounting, NEW b, NEW n \in Buses,
         b \notin Holders(n),
         \A m \in Buses : Overdrawn(m)' = Overdrawn(m),
         \A m \in Buses : Holders(m)' = IF m = n THEN Holders(m) \cup {b} ELSE Holders(m),
         refCount' = [refCount EXCEPT ![n] = @ + 1]
  PROVE  RefAccounting'
<1>1. Cardinality(Holders(n) \cup {b}) = Cardinality(Holders(n)) + 1
  BY FS_AddElement, CountsExist
<1>2. \A m \in Buses :
        refCount'[m] = Cardinality(Holders(m)') - Cardinality(Overdrawn(m)')
  <2> SUFFICES ASSUME NEW m \in Buses
               PROVE  refCount'[m] = Cardinality(Holders(m)') - Cardinality(Overdrawn(m)')
    OBVIOUS
  <2>1. refCount[m] = Cardinality(Holders(m)) - Cardinality(Overdrawn(m))
    BY DEF RefAccounting
  <2>2. CASE m = n
    <3>1. refCount[n] \in Int /\ refCount'[n] = refCount[n] + 1
      BY DEF TypeOK
    <3>2. Holders(n)' = Holders(n) \cup {b} /\ Overdrawn(n)' = Overdrawn(n)
      OBVIOUS
    <3>3. /\ Cardinality(Holders(n)) \in Nat /\ Cardinality(Overdrawn(n)) \in Nat
          /\ refCount[n] = Cardinality(Holders(n)) - Cardinality(Overdrawn(n))
      BY <2>1, <2>2, CountsExist
    <3>4. refCount'[n] = Cardinality(Holders(n)') - Cardinality(Overdrawn(n)')
      BY <1>1, <3>1, <3>2, <3>3
    <3> QED
      BY <2>2, <3>4
  <2>3. CASE m # n
    BY <2>1, <2>3 DEF TypeOK
  <2> QED
    BY <2>2, <2>3
<1> QED
  BY <1>2 DEF RefAccounting

LEMMA GivenBack ==
  ASSUME TypeOK, RefAccounting, NEW b, NEW n \in Buses,
         b \in Holders(n),
         \A m \in Buses : Overdrawn(m)' = Overdrawn(m),
         \A m \in Buses : Holders(m)' = IF m = n THEN Holders(m) \ {b} ELSE Holders(m),
         refCount' = [refCount EXCEPT ![n] = @ - 1]
  PROVE  RefAccounting'
<1>1. Cardinality(Holders(n) \ {b}) = Cardinality(Holders(n)) - 1
  BY FS_RemoveElement, CountsExist
<1>2. \A m \in Buses :
        refCount'[m] = Cardinality(Holders(m)') - Cardinality(Overdrawn(m)')
  <2> SUFFICES ASSUME NEW m \in Buses
               PROVE  refCount'[m] = Cardinality(Holders(m)') - Cardinality(Overdrawn(m)')
    OBVIOUS
  <2>1. refCount[m] = Cardinality(Holders(m)) - Cardinality(Overdrawn(m))
    BY DEF RefAccounting
  <2>2. CASE m = n
    <3>1. refCount[n] \in Int /\ refCount'[n] = refCount[n] - 1
      BY DEF TypeOK
    <3>2. Holders(n)' = Holders(n) \ {b} /\ Overdrawn(n)' = Overdrawn(n)
      OBVIOUS
    <3>3. /\ Cardinality(Holders(n)) \in Nat /\ Cardinality(Overdrawn(n)) \in Nat
          /\ refCount[n] = Cardinality(Holders(n)) - Cardinality(Overdrawn(n))
      BY <2>1, <2>2, CountsExist
    <3>4. refCount'[n] = Cardinality(Holders(n)') - Cardinality(Overdrawn(n)')
      BY <1>1, <3>1, <3>2, <3>3
    <3> QED
      BY <2>2, <3>4
  <2>3. CASE m # n
    BY <2>1, <2>3 DEF TypeOK
  <2> QED
    BY <2>2, <2>3
<1> QED
  BY <1>2 DEF RefAccounting

LEMMA GivenBackTwice ==
  ASSUME TypeOK, RefAccounting, NEW b, NEW n \in Buses,
         b \notin Overdrawn(n),
         \A m \in Buses : Holders(m)' = Holders(m),
         \A m \in Buses :
           Overdrawn(m)' = IF m = n THEN Overdrawn(m) \cup {b} ELSE Overdrawn(m),
         refCount' = [refCount EXCEPT ![n] = @ - 1]
  PROVE  RefAccounting'
<1>1. Cardinality(Overdrawn(n) \cup {b}) = Cardinality(Overdrawn(n)) + 1
  BY FS_AddElement, CountsExist
<1>2. \A m \in Buses :
        refCount'[m] = Cardinality(Holders(m)') - Cardinality(Overdrawn(m)')
  <2> SUFFICES ASSUME NEW m \in Buses
               PROVE  refCount'[m] = Cardinality(Holders(m)') - Cardinality(Overdrawn(m)')
    OBVIOUS
  <2>1. refCount[m] = Cardinality(Holders(m)) - Cardinality(Overdrawn(m))
    BY DEF RefAccounting
  <2>2. CASE m = n
    <3>1. refCount[n] \in Int /\ refCount'[n] = refCount[n] - 1
      BY DEF TypeOK
    <3>2. Holders(n)' = Holders(n) /\ Overdrawn(n)' = Overdrawn(n) \cup {b}
      OBVIOUS
    <3>3. /\ Cardinality(Holders(n)) \in Nat /\ Cardinality(Overdrawn(n)) \in Nat
          /\ refCount[n] = Cardinality(Holders(n)) - Cardinality(Overdrawn(n))
      BY <2>1, <2>2, CountsExist
    <3>4. refCount'[n] = Cardinality(Holders(n)') - Cardinality(Overdrawn(n)')
      BY <1>1, <3>1, <3>2, <3>3
    <3> QED
      BY <2>2, <3>4
  <2>3. CASE m # n
    BY <2>1, <2>3 DEF TypeOK
  <2> QED
    BY <2>2, <2>3
<1> QED
  BY <1>2 DEF RefAccounting

\* _ref_count is exact up to the references that failed constructors gave back
\* twice (acquire, release and the except clause of acquire).
THEOREM Accounting == Spec => []RefAccounting
<1>1. Init => RefAccounting
  <2> SUFFICES ASSUME Init, NEW m \in Buses
               PROVE  refCount[m] = Cardinality(Holders(m)) - Cardinality(Overdrawn(m))
    BY DEF RefAccounting
  <2>1. Holders(m) = {} /\ Overdrawn(m) = {}
    BY DEF Init, Holders, Overdrawn
  <2> QED
    BY <2>1, FS_EmptySet DEF Init
<1>2. TypeOK /\ RaisedInv /\ RefAccounting /\ [Next]_vars => RefAccounting'
  <2> SUFFICES ASSUME TypeOK, RaisedInv, RefAccounting, [Next]_vars
               PROVE  RefAccounting'
    OBVIOUS
  <2> USE DEF TypeOK, RaisedInv
  <2>1. ASSUME NEW b \in Buses, GetInstance(b) PROVE RefAccounting'
    <3>1. \A m \in Buses : /\ Holders(m)' = Holders(m)
                          /\ Overdrawn(m)' = Overdrawn(m)
                          /\ refCount'[m] = refCount[m]
      BY <2>1 DEF Holders, Overdrawn, GetInstance, LookUpOrCreate, Goto, wsVars
    <3> QED
      BY <3>1, Steady
  <2>2. ASSUME NEW b \in Buses, Acquire(b) PROVE RefAccounting'
    <3>1. manager[b] \in Buses /\ b \notin Holders(manager[b])
      BY <2>2 DEF Acquire, Goto, Holders
    <3>2. \A m \in Buses : Overdrawn(m)' = Overdrawn(m)
      BY <2>2 DEF Overdrawn, Acquire, Goto, wsVars
    <3>3. \A m \in Buses :
            Holders(m)' = IF m = manager[b] THEN Holders(m) \cup {b} ELSE Holders(m)
      BY <2>2 DEF Holders, Acquire, Goto, wsVars
    <3>4. refCount' = [refCount EXCEPT ![manager[b]] = @ + 1]
      BY <2>2 DEF Acquire
    <3> QED
      BY <3>1, <3>2, <3>3, <3>4, Taken
  <2>3. ASSUME NEW b \in Buses, BuildConnectUrlFails(b) PROVE RefAccounting'
    <3>1. \A m \in Buses : /\ Holders(m)' = Holders(m)
                          /\ Overdrawn(m)' = Overdrawn(m)
                          /\ refCount'[m] = refCount[m]
      BY <2>3 DEF Holders, Overdrawn, BuildConnectUrlFails, Goto, wsVars, managerVars
    <3> QED
      BY <3>1, Steady
  <2>4. ASSUME NEW b \in Buses, Connect(b) PROVE RefAccounting'
    <3>1. \A m \in Buses : /\ Holders(m)' = Holders(m)
                          /\ Overdrawn(m)' = Overdrawn(m)
                          /\ refCount'[m] = refCount[m]
      BY <2>4 DEF Holders, Overdrawn, Connect, Goto
    <3> QED
      BY <3>1, Steady
  <2>5. ASSUME NEW b \in Buses, ConnectTimeout(b) PROVE RefAccounting'
    <3>1. \A m \in Buses : /\ Holders(m)' = Holders(m)
                          /\ Overdrawn(m)' = Overdrawn(m)
                          /\ refCount'[m] = refCount[m]
      BY <2>5 DEF Holders, Overdrawn, ConnectTimeout, Goto, wsVars, managerVars
    <3> QED
      BY <3>1, Steady
  <2>6. ASSUME NEW b \in Buses, UndoAcquire(b) PROVE RefAccounting'
    <3>1. manager[b] \in Buses
      BY <2>6 DEF UndoAcquire, Goto
    <3>2. refCount' = [refCount EXCEPT ![manager[b]] = @ - 1]
      BY <2>6 DEF UndoAcquire
    <3>3. CASE ~raised[b]
      <4>1. b \in Holders(manager[b])
        BY <2>6, <3>1, <3>3 DEF UndoAcquire, Goto, Holders
      <4>2. \A m \in Buses : Overdrawn(m)' = Overdrawn(m)
        BY <2>6, <3>3 DEF Overdrawn, UndoAcquire, Goto, wsVars
      <4>3. \A m \in Buses :
              Holders(m)' = IF m = manager[b] THEN Holders(m) \ {b} ELSE Holders(m)
        BY <2>6, <3>3 DEF Holders, UndoAcquire, Goto, wsVars
      <4> QED
        BY <3>1, <3>2, <4>1, <4>2, <4>3, GivenBack
    <3>4. CASE raised[b]
      BY <2>6, <3>4 DEF UndoAcquire, Goto, RaisedInv
    <3> QED
      BY <3>3, <3>4
  <2>7. ASSUME NEW b \in Buses, Subscribe(b) PROVE RefAccounting'
    <3>1. \A m \in Buses : /\ Holders(m)' = Holders(m)
                          /\ Overdrawn(m)' = Overdrawn(m)
                          /\ refCount'[m] = refCount[m]
      BY <2>7 DEF Holders, Overdrawn, Subscribe, Goto, wsVars
    <3> QED
      BY <3>1, Steady
  <2>8. ASSUME NEW b \in Buses, Shutdown(b) PROVE RefAccounting'
    <3>1. \A m \in Buses : /\ Holders(m)' = Holders(m)
                          /\ Overdrawn(m)' = Overdrawn(m)
                          /\ refCount'[m] = refCount[m]
      BY <2>8 DEF Holders, Overdrawn, Shutdown, Goto, wsVars, managerVars
    <3> QED
      BY <3>1, Steady
  <2>9. ASSUME NEW b \in Buses, FinalizeFailed(b) PROVE RefAccounting'
    <3>1. \A m \in Buses : /\ Holders(m)' = Holders(m)
                          /\ Overdrawn(m)' = Overdrawn(m)
                          /\ refCount'[m] = refCount[m]
      BY <2>9 DEF Holders, Overdrawn, FinalizeFailed, Goto, wsVars, managerVars
    <3> QED
      BY <3>1, Steady
  <2>10. ASSUME NEW b \in Buses, Unsubscribe(b) PROVE RefAccounting'
    <3>1. \A m \in Buses : /\ Holders(m)' = Holders(m)
                          /\ Overdrawn(m)' = Overdrawn(m)
                          /\ refCount'[m] = refCount[m]
      BY <2>10 DEF Holders, Overdrawn, Unsubscribe, Goto, wsVars
    <3> QED
      BY <3>1, Steady
  <2>11. ASSUME NEW b \in Buses, ReleaseShared(b) PROVE RefAccounting'
    <3>1. manager[b] \in Buses
      BY <2>11 DEF ReleaseShared, Goto
    <3>2. refCount' = [refCount EXCEPT ![manager[b]] = @ - 1]
      BY <2>11 DEF ReleaseShared
    <3>3. CASE ~raised[b]
      <4>1. b \in Holders(manager[b])
        BY <2>11, <3>1, <3>3 DEF ReleaseShared, Goto, Holders
      <4>2. \A m \in Buses : Overdrawn(m)' = Overdrawn(m)
        BY <2>11, <3>3 DEF Overdrawn, ReleaseShared, Goto, wsVars
      <4>3. \A m \in Buses :
              Holders(m)' = IF m = manager[b] THEN Holders(m) \ {b} ELSE Holders(m)
        BY <2>11, <3>3 DEF Holders, ReleaseShared, Goto, wsVars
      <4> QED
        BY <3>1, <3>2, <4>1, <4>2, <4>3, GivenBack
    <3>4. CASE raised[b]
      <4>1. b \notin Overdrawn(manager[b])
        BY <2>11 DEF ReleaseShared, Goto, Overdrawn
      <4>2. \A m \in Buses : Holders(m)' = Holders(m)
        BY <2>11, <3>4 DEF Holders, ReleaseShared, Goto, wsVars
      <4>3. \A m \in Buses :
              Overdrawn(m)' = IF m = manager[b] THEN Overdrawn(m) \cup {b} ELSE Overdrawn(m)
        BY <2>11, <3>4 DEF Overdrawn, ReleaseShared, Goto, wsVars
      <4> QED
        BY <3>1, <3>2, <4>1, <4>2, <4>3, GivenBackTwice
    <3> QED
      BY <3>3, <3>4
  <2>12. ASSUME NEW b \in Buses, ReleaseLast(b) PROVE RefAccounting'
    <3>1. manager[b] \in Buses
      BY <2>12 DEF ReleaseLast, Goto
    <3>2. refCount' = [refCount EXCEPT ![manager[b]] = @ - 1]
      BY <2>12 DEF ReleaseLast
    <3>3. CASE ~raised[b]
      <4>1. b \in Holders(manager[b])
        BY <2>12, <3>1, <3>3 DEF ReleaseLast, Goto, Holders
      <4>2. \A m \in Buses : Overdrawn(m)' = Overdrawn(m)
        BY <2>12, <3>3 DEF Overdrawn, ReleaseLast, Goto
      <4>3. \A m \in Buses :
              Holders(m)' = IF m = manager[b] THEN Holders(m) \ {b} ELSE Holders(m)
        BY <2>12, <3>3 DEF Holders, ReleaseLast, Goto
      <4> QED
        BY <3>1, <3>2, <4>1, <4>2, <4>3, GivenBack
    <3>4. CASE raised[b]
      <4>1. b \notin Overdrawn(manager[b])
        BY <2>12 DEF ReleaseLast, Goto, Overdrawn
      <4>2. \A m \in Buses : Holders(m)' = Holders(m)
        BY <2>12, <3>4 DEF Holders, ReleaseLast, Goto
      <4>3. \A m \in Buses :
              Overdrawn(m)' = IF m = manager[b] THEN Overdrawn(m) \cup {b} ELSE Overdrawn(m)
        BY <2>12, <3>4 DEF Overdrawn, ReleaseLast, Goto
      <4> QED
        BY <3>1, <3>2, <4>1, <4>2, <4>3, GivenBackTwice
    <3> QED
      BY <3>3, <3>4
  <2>13. ASSUME NEW b \in Buses, Join(b) PROVE RefAccounting'
    <3>1. \A m \in Buses : /\ Holders(m)' = Holders(m)
                          /\ Overdrawn(m)' = Overdrawn(m)
                          /\ refCount'[m] = refCount[m]
      BY <2>13 DEF Holders, Overdrawn, Join, Goto, wsVars
    <3> QED
      BY <3>1, Steady
  <2>14. ASSUME NEW b \in Buses, RemoveInstance(b) PROVE RefAccounting'
    <3>1. \A m \in Buses : /\ Holders(m)' = Holders(m)
                          /\ Overdrawn(m)' = Overdrawn(m)
                          /\ refCount'[m] = refCount[m]
      BY <2>14 DEF Holders, Overdrawn, RemoveInstance, Goto, wsVars
    <3> QED
      BY <3>1, Steady
  <2>15. ASSUME NEW c \in Buses, OnOpen(c) PROVE RefAccounting'
    <3>1. \A m \in Buses : /\ Holders(m)' = Holders(m)
                          /\ Overdrawn(m)' = Overdrawn(m)
                          /\ refCount'[m] = refCount[m]
      BY <2>15 DEF Holders, Overdrawn, OnOpen
    <3> QED
      BY <3>1, Steady
  <2>16. ASSUME NEW c \in Buses, OnHandshakeError(c) PROVE RefAccounting'
    <3>1. \A m \in Buses : /\ Holders(m)' = Holders(m)
                          /\ Overdrawn(m)' = Overdrawn(m)
                          /\ refCount'[m] = refCount[m]
      BY <2>16 DEF Holders, Overdrawn, OnHandshakeError, busVars
    <3> QED
      BY <3>1, Steady
  <2>17. ASSUME NEW c \in Buses, Drop(c) PROVE RefAccounting'
    <3>1. \A m \in Buses : /\ Holders(m)' = Holders(m)
                          /\ Overdrawn(m)' = Overdrawn(m)
                          /\ refCount'[m] = refCount[m]
      BY <2>17 DEF Holders, Overdrawn, Drop, busVars, managerVars
    <3> QED
      BY <3>1, Steady
  <2>18. ASSUME NEW c \in Buses, OnClose(c) PROVE RefAccounting'
    <3>1. \A m \in Buses : /\ Holders(m)' = Holders(m)
                          /\ Overdrawn(m)' = Overdrawn(m)
                          /\ refCount'[m] = refCount[m]
      BY <2>18 DEF Holders, Overdrawn, OnClose, busVars
    <3> QED
      BY <3>1, Steady
  <2>19. CASE Finished \/ UNCHANGED vars
    <3>1. \A m \in Buses : /\ Holders(m)' = Holders(m)
                          /\ Overdrawn(m)' = Overdrawn(m)
                          /\ refCount'[m] = refCount[m]
      BY <2>19 DEF Holders, Overdrawn, Finished, vars
    <3> QED
      BY <3>1, Steady
  <2> QED
    BY <2>1, <2>2, <2>3, <2>4, <2>5, <2>6, <2>7, <2>8, <2>9, <2>10, <2>11,
       <2>12, <2>13, <2>14, <2>15, <2>16, <2>17, <2>18, <2>19
       DEF Next, Start, Continue, WebSocketThread
<1> QED
  BY <1>1, <1>2, TypeCorrect, RaisedInvariant, PTL DEF Spec

-----------------------------------------------------------------------------
(* Closing the WebSocket. *)

\* While no reference was given back twice, a bus that releases the last one is
\* the only holder.
LEMMA OnlyHolder ==
  ASSUME RefAccounting, NEW m \in Buses, Overdrawn(m) = {},
         NEW b \in Holders(m), refCount[m] <= 1
  PROVE  Holders(m) = {b}
<1>1. Cardinality(Holders(m)) <= 1
  BY FS_EmptySet, CountsExist DEF RefAccounting
<1>2. ASSUME NEW c \in Holders(m), c # b PROVE FALSE
  <2>1. {b, c} \subseteq Holders(m)
    BY <1>2
  <2>2. Cardinality({b, c}) = 2
    <3>1. IsFiniteSet({b}) /\ Cardinality({b}) = 1
      BY FS_Singleton
    <3>2. Cardinality({b} \cup {c}) = Cardinality({b}) + 1
      BY <1>2, <3>1, FS_AddElement
    <3>3. {b} \cup {c} = {b, c}
      OBVIOUS
    <3> QED
      BY <3>1, <3>2, <3>3
  <2>3. Cardinality({b, c}) <= Cardinality(Holders(m))
    BY <2>1, FS_Subset, CountsExist
  <2> QED
    BY <1>1, <2>2, <2>3, CountsExist
<1> QED
  BY <1>2

\* Only the release of the last reference takes the WebSocket from a manager.
LEMMA TakenByLastRelease ==
  ASSUME TypeOK, Next, NEW m \in Buses, ws[m] # NONE, ws'[m] = NONE
  PROVE  \E b \in Buses : ReleaseLast(b) /\ manager[b] = m
<1>1. ws' # ws /\ ws'[m] \notin Buses
  BY ConnectionAssumption
<1>2. ASSUME NEW b \in Buses, Start(b) PROVE FALSE
  BY <1>1, <1>2 DEF Start, GetInstance, Shutdown, FinalizeFailed, managerVars
<1>3. ASSUME NEW c \in Buses, WebSocketThread(c) PROVE FALSE
  BY <1>1, <1>3 DEF WebSocketThread, OnOpen, OnHandshakeError, Drop, OnClose,
                    managerVars
<1>4. ASSUME NEW b \in Buses, Connect(b) PROVE FALSE
  BY <1>1, <1>4 DEF Connect, TypeOK
<1>5. ASSUME NEW b \in Buses, Continue(b), ~Connect(b) PROVE ReleaseLast(b)
  BY <1>1, <1>5
     DEF Continue, Acquire, BuildConnectUrlFails, ConnectTimeout, UndoAcquire,
         Subscribe, Unsubscribe, ReleaseShared, Join, RemoveInstance, managerVars
<1>6. PICK b \in Buses : ReleaseLast(b)
  BY <1>1, <1>2, <1>3, <1>4, <1>5 DEF Next, Finished, vars
<1>7. manager[b] = m
  BY <1>6 DEF ReleaseLast, TypeOK
<1> QED
  BY <1>6, <1>7

\* Whatever constructors fail and however threads interleave, the library closes a
\* WebSocket only when no bus holds its manager any more, unless a reference to the
\* manager was given back twice (release).
THEOREM CutOff == Spec => NeverCutOff
<1>1. TypeOK /\ RefAccounting /\ RaisedInv /\ [Next]_vars
        => [\A m \in Buses :
              ws[m] # NONE /\ ws'[m] = NONE => Holders(m)' = {} \/ Overdrawn(m)' # {}]_vars
  <2> SUFFICES ASSUME TypeOK, RefAccounting, RaisedInv, Next,
                      NEW m \in Buses, ws[m] # NONE, ws'[m] = NONE,
                      Overdrawn(m)' = {}
               PROVE  Holders(m)' = {}
    OBVIOUS
  <2>1. PICK b \in Buses : ReleaseLast(b) /\ manager[b] = m
    BY TakenByLastRelease
  <2>2. /\ pc[b] = "release" /\ pc' = [pc EXCEPT ![b] = "join"]
        /\ UNCHANGED <<manager, raised>>
    BY <2>1 DEF ReleaseLast, Goto
  <2>3. ~raised[b]
    BY <2>1, <2>2 DEF Overdrawn, TypeOK
  <2>4. b \in Holders(m) /\ refCount[m] <= 1
    BY <2>1, <2>2, <2>3 DEF ReleaseLast, LastReference, Holders, TypeOK
  <2>5. Overdrawn(m) = {}
    BY <2>2 DEF Overdrawn, TypeOK
  <2>6. Holders(m) = {b}
    BY <2>4, <2>5, OnlyHolder
  <2> QED
    BY <2>2, <2>6 DEF Holders, TypeOK
<1> QED
  BY <1>1, TypeCorrect, Accounting, RaisedInvariant, PTL DEF Spec, NeverCutOff

-----------------------------------------------------------------------------
(* What stays open, and what the flag says. *)

\* No constructor of a bus of the manager has failed.
Unraised(m) == \A b \in Buses : manager[b] = m => ~raised[b]

\* A constructor that has not reached the end of _connect has no WebSocket.
SockInv == \A b \in Buses : pc[b] \in {"unborn", "got", "connect"} => sock[b] = "none"

\* A bus on its way through _disconnect holds _ref_lock.
LockInv == \A b \in Buses : pc[b] \in {"join", "remove"} => refLock[manager[b]] = b

\* As long as no constructor failed, _ws is the one WebSocket that goes on, a
\* manager that nobody holds has none, and the first holder connects alone.
CloseInv ==
  \A m \in Buses : Unraised(m) =>
    /\ Holders(m) = {} => ws[m] = NONE
    /\ \A b \in Buses : pc[b] = "connect" /\ manager[b] = m =>
         /\ ws[m] = NONE
         /\ \A d \in Buses : pc[d] = "connect" /\ manager[d] = m => d = b
    /\ \A c \in Buses :
         manager[c] = m /\ sock[c] \in {"connecting", "open"} /\ ~closing[c] => ws[m] = c

\* The only WebSocket of a manager is its _ws until it is told to close; while a bus
\* waits for the WebSocket thread nobody opens another one.
OnlyInv ==
  /\ \A c \in Buses : sock[c] # "none" /\ ~closing[c] /\ OnlySocket(c) => ws[manager[c]] = c
  /\ \A b \in Buses : pc[b] = "join" /\ Overdrawn(manager[b]) = {} =>
       ws[manager[b]] = NONE /\ Holders(manager[b]) = {}

\* While no constructor of the manager failed, _ref_count is the number of holders.
LEMMA CountsHolders ==
  ASSUME RefAccounting, NEW m \in Buses, Unraised(m)
  PROVE  /\ Overdrawn(m) = {}
         /\ refCount[m] = 0 => Holders(m) = {}
         /\ \A b : Holders(m) = {b} => refCount[m] = 1
<1>1. Overdrawn(m) = {}
  BY DEF Unraised, Overdrawn
<1>2. refCount[m] = Cardinality(Holders(m))
  <2>1. Cardinality(Overdrawn(m)) = 0
    BY <1>1, FS_EmptySet
  <2> QED
    BY <2>1, CountsExist DEF RefAccounting
<1>3. Cardinality(Holders(m)) = 0 => Holders(m) = {}
  BY CountsExist, FS_EmptySet
<1>4. \A b : Cardinality({b}) = 1
  BY FS_Singleton
<1> QED
  BY <1>1, <1>2, <1>3, <1>4

\* on_open wakes the waiting buses of the manager, and nobody else notices.
LEMMA OpenKeeps ==
  ASSUME TypeOK, NEW c \in Buses, OnOpen(c)
  PROVE  /\ \A x \in Buses : \/ pc'[x] = pc[x]
                             \/ pc[x] = "waiting" /\ pc'[x] = "subscribe"
         /\ \A m : Holders(m)' = Holders(m) /\ Overdrawn(m)' = Overdrawn(m)
         /\ \A x \in Buses : sock'[x] = IF x = c THEN "open" ELSE sock[x]
         /\ sock[c] = "connecting"
         /\ UNCHANGED <<manager, raised, ws, closing, refLock>>
<1>1. \A x \in Buses : \/ pc'[x] = pc[x]
                       \/ pc[x] = "waiting" /\ pc'[x] = "subscribe"
  BY DEF OnOpen
<1>2. /\ \A x \in Buses : sock'[x] = IF x = c THEN "open" ELSE sock[x]
      /\ sock[c] = "connecting"
      /\ UNCHANGED <<manager, raised, ws, closing, refLock>>
  BY DEF OnOpen, TypeOK
<1>3. \A m : Holders(m)' = Holders(m)
  BY <1>1, <1>2 DEF Holders
<1>4. \A m : Overdrawn(m)' = Overdrawn(m)
  BY <1>1, <1>2 DEF Overdrawn
<1> QED
  BY <1>1, <1>2, <1>3, <1>4

\* SockInv is inductive.
LEMMA SockStep ==
  ASSUME TypeOK, SockInv, [Next]_vars
  PROVE  SockInv'
<1>1. ASSUME NEW b \in Buses, GetInstance(b) PROVE SockInv'
  BY <1>1 DEF TypeOK, SockInv, GetInstance, LookUpOrCreate, Goto, wsVars
<1>2. ASSUME NEW b \in Buses, Acquire(b) PROVE SockInv'
  BY <1>2 DEF TypeOK, SockInv, Acquire, NeedConnect, Goto, wsVars
<1>3. ASSUME NEW b \in Buses, BuildConnectUrlFails(b) PROVE SockInv'
  BY <1>3 DEF TypeOK, SockInv, BuildConnectUrlFails, Goto, wsVars, managerVars
<1>4. ASSUME NEW b \in Buses, Connect(b) PROVE SockInv'
  BY <1>4 DEF TypeOK, SockInv, Connect, Goto
<1>5. ASSUME NEW b \in Buses, ConnectTimeout(b) PROVE SockInv'
  BY <1>5 DEF TypeOK, SockInv, ConnectTimeout, Goto, wsVars, managerVars
<1>6. ASSUME NEW b \in Buses, UndoAcquire(b) PROVE SockInv'
  BY <1>6 DEF TypeOK, SockInv, UndoAcquire, Goto, wsVars
<1>7. ASSUME NEW b \in Buses, Subscribe(b) PROVE SockInv'
  BY <1>7 DEF TypeOK, SockInv, Subscribe, Goto, wsVars
<1>8. ASSUME NEW b \in Buses, Shutdown(b) PROVE SockInv'
  BY <1>8 DEF TypeOK, SockInv, Shutdown, Goto, wsVars, managerVars
<1>9. ASSUME NEW b \in Buses, FinalizeFailed(b) PROVE SockInv'
  BY <1>9 DEF TypeOK, SockInv, FinalizeFailed, Goto, wsVars, managerVars
<1>10. ASSUME NEW b \in Buses, Unsubscribe(b) PROVE SockInv'
  BY <1>10 DEF TypeOK, SockInv, Unsubscribe, Goto, wsVars
<1>11. ASSUME NEW b \in Buses, ReleaseShared(b) PROVE SockInv'
  BY <1>11 DEF TypeOK, SockInv, ReleaseShared, Goto, wsVars
<1>12. ASSUME NEW b \in Buses, ReleaseLast(b) PROVE SockInv'
  BY <1>12 DEF TypeOK, SockInv, ReleaseLast, Goto
<1>13. ASSUME NEW b \in Buses, Join(b) PROVE SockInv'
  BY <1>13 DEF TypeOK, SockInv, Join, Goto, wsVars
<1>14. ASSUME NEW b \in Buses, RemoveInstance(b) PROVE SockInv'
  BY <1>14 DEF TypeOK, SockInv, RemoveInstance, Goto, wsVars
<1>15. ASSUME NEW c \in Buses, OnOpen(c) PROVE SockInv'
  BY <1>15 DEF TypeOK, SockInv, OnOpen
<1>16. ASSUME NEW c \in Buses, OnHandshakeError(c) PROVE SockInv'
  BY <1>16 DEF TypeOK, SockInv, OnHandshakeError, busVars
<1>17. ASSUME NEW c \in Buses, Drop(c) PROVE SockInv'
  BY <1>17 DEF TypeOK, SockInv, Drop, busVars, managerVars
<1>18. ASSUME NEW c \in Buses, OnClose(c) PROVE SockInv'
  BY <1>18 DEF TypeOK, SockInv, OnClose, busVars
<1>19. CASE Finished \/ UNCHANGED vars
  BY <1>19 DEF TypeOK, SockInv, Finished, vars
<1> QED
  BY <1>1, <1>2, <1>3, <1>4, <1>5, <1>6, <1>7, <1>8, <1>9, <1>10, <1>11,
     <1>12, <1>13, <1>14, <1>15, <1>16, <1>17, <1>18, <1>19
  DEF Next, Start, Continue, WebSocketThread

\* LockInv is inductive: acquire and release wait for _ref_lock.
LEMMA LockStep ==
  ASSUME TypeOK, LockInv, [Next]_vars
  PROVE  LockInv'
<1> USE ConnectionAssumption
<1>1. ASSUME NEW b \in Buses, GetInstance(b) PROVE LockInv'
  BY <1>1 DEF TypeOK, LockInv, GetInstance, LookUpOrCreate, Goto, wsVars
<1>2. ASSUME NEW b \in Buses, Acquire(b) PROVE LockInv'
  BY <1>2 DEF TypeOK, LockInv, Acquire, NeedConnect, Goto, wsVars
<1>3. ASSUME NEW b \in Buses, BuildConnectUrlFails(b) PROVE LockInv'
  BY <1>3 DEF TypeOK, LockInv, BuildConnectUrlFails, Goto, wsVars, managerVars
<1>4. ASSUME NEW b \in Buses, Connect(b) PROVE LockInv'
  BY <1>4 DEF TypeOK, LockInv, Connect, Goto
<1>5. ASSUME NEW b \in Buses, ConnectTimeout(b) PROVE LockInv'
  BY <1>5 DEF TypeOK, LockInv, ConnectTimeout, Goto, wsVars, managerVars
<1>6. ASSUME NEW b \in Buses, UndoAcquire(b) PROVE LockInv'
  BY <1>6 DEF TypeOK, LockInv, UndoAcquire, Goto, wsVars
<1>7. ASSUME NEW b \in Buses, Subscribe(b) PROVE LockInv'
  BY <1>7 DEF TypeOK, LockInv, Subscribe, Goto, wsVars
<1>8. ASSUME NEW b \in Buses, Shutdown(b) PROVE LockInv'
  BY <1>8 DEF TypeOK, LockInv, Shutdown, Goto, wsVars, managerVars
<1>9. ASSUME NEW b \in Buses, FinalizeFailed(b) PROVE LockInv'
  BY <1>9 DEF TypeOK, LockInv, FinalizeFailed, Goto, wsVars, managerVars
<1>10. ASSUME NEW b \in Buses, Unsubscribe(b) PROVE LockInv'
  BY <1>10 DEF TypeOK, LockInv, Unsubscribe, Goto, wsVars
<1>11. ASSUME NEW b \in Buses, ReleaseShared(b) PROVE LockInv'
  BY <1>11 DEF TypeOK, LockInv, ReleaseShared, Goto, wsVars
<1>12. ASSUME NEW b \in Buses, ReleaseLast(b) PROVE LockInv'
  BY <1>12 DEF TypeOK, LockInv, ReleaseLast, Goto
<1>13. ASSUME NEW b \in Buses, Join(b) PROVE LockInv'
  BY <1>13 DEF TypeOK, LockInv, Join, Goto, wsVars
<1>14. ASSUME NEW b \in Buses, RemoveInstance(b) PROVE LockInv'
  BY <1>14 DEF TypeOK, LockInv, RemoveInstance, Goto, wsVars
<1>15. ASSUME NEW c \in Buses, OnOpen(c) PROVE LockInv'
  BY <1>15 DEF TypeOK, LockInv, OnOpen
<1>16. ASSUME NEW c \in Buses, OnHandshakeError(c) PROVE LockInv'
  BY <1>16 DEF TypeOK, LockInv, OnHandshakeError, busVars
<1>17. ASSUME NEW c \in Buses, Drop(c) PROVE LockInv'
  BY <1>17 DEF TypeOK, LockInv, Drop, busVars, managerVars
<1>18. ASSUME NEW c \in Buses, OnClose(c) PROVE LockInv'
  BY <1>18 DEF TypeOK, LockInv, OnClose, busVars
<1>19. CASE Finished \/ UNCHANGED vars
  BY <1>19 DEF TypeOK, LockInv, Finished, vars
<1> QED
  BY <1>1, <1>2, <1>3, <1>4, <1>5, <1>6, <1>7, <1>8, <1>9, <1>10, <1>11,
     <1>12, <1>13, <1>14, <1>15, <1>16, <1>17, <1>18, <1>19
  DEF Next, Start, Continue, WebSocketThread

\* CloseInv is inductive: the constructor that connects found no holder, and the bus
\* that closes is the only one.
LEMMA CloseStep ==
  ASSUME TypeOK, KeyInv, RaisedInv, RefAccounting, SockInv, CloseInv, [Next]_vars
  PROVE  CloseInv'
<1> USE ConnectionAssumption
<1>1. ASSUME NEW b \in Buses, GetInstance(b) PROVE CloseInv'
  BY <1>1 DEF TypeOK, KeyInv, RaisedInv, SockInv, CloseInv, Unraised, Holders,
     GetInstance, LookUpOrCreate, Goto, wsVars
<1>2. ASSUME NEW b \in Buses, Acquire(b) PROVE CloseInv'
  <2>0. PICK m \in Buses : manager[b] = m
    BY <1>2 DEF TypeOK, Acquire, Goto
  <2>1. /\ m \in Buses /\ pc[b] = "got" /\ pc'[b] \in {"connect", "subscribe"}
        /\ pc'[b] = "connect" => refCount[m] = 0
        /\ \A x \in Buses : x # b => pc'[x] = pc[x]
        /\ UNCHANGED <<manager, raised, ws, sock, closing>> /\ ~raised[b]
    BY <1>2, <2>0 DEF TypeOK, RaisedInv, Acquire, NeedConnect, Goto, wsVars
  <2>2. manager[b] = m
    BY <2>0
  <2>3. b \in Holders(m)'
    BY <2>1, <2>2 DEF Holders
  <2>4. \A n \in Buses : n # m => Holders(n)' = Holders(n)
    BY <2>1, <2>2 DEF Holders
  <2>5. \A n \in Buses : Unraised(n)' <=> Unraised(n)
    BY <2>1 DEF Unraised
  <2>6. ASSUME pc'[b] = "connect", Unraised(m)
        PROVE  ws[m] = NONE /\ \A d \in Buses : pc[d] = "connect" => manager[d] # m
    <3>1. Holders(m) = {}
      BY <2>1, <2>6, CountsHolders
    <3>2. ws[m] = NONE
      BY <2>1, <2>6, <3>1 DEF CloseInv
    <3>3. \A d \in Buses : pc[d] = "connect" /\ manager[d] = m => d \in Holders(m)
      BY DEF Holders, RaisedInv
    <3> QED
      BY <3>1, <3>2, <3>3
  <2>7. ASSUME NEW n \in Buses, Unraised(n)
        PROVE  /\ Holders(n)' = {} => ws'[n] = NONE
               /\ \A x \in Buses : pc'[x] = "connect" /\ manager'[x] = n =>
                    /\ ws'[n] = NONE
                    /\ \A d \in Buses : pc'[d] = "connect" /\ manager'[d] = n => d = x
               /\ \A c \in Buses :
                    manager'[c] = n /\ sock'[c] \in {"connecting", "open"} /\ ~closing'[c]
                      => ws'[n] = c
    <3>1. CASE n # m
      BY <2>1, <2>2, <2>4, <2>7, <3>1 DEF CloseInv
    <3>2. CASE n = m
      BY <2>1, <2>2, <2>3, <2>6, <2>7, <3>2 DEF CloseInv
    <3> QED
      BY <3>1, <3>2
  <2> QED
    BY <2>5, <2>7 DEF CloseInv
<1>3. ASSUME NEW b \in Buses, BuildConnectUrlFails(b) PROVE CloseInv'
  BY <1>3 DEF TypeOK, KeyInv, RaisedInv, SockInv, CloseInv, Unraised, Holders,
     BuildConnectUrlFails, Goto, wsVars, managerVars
<1>4. ASSUME NEW b \in Buses, Connect(b) PROVE CloseInv'
  BY <1>4 DEF TypeOK, KeyInv, RaisedInv, SockInv, CloseInv, Unraised, Holders,
     Connect, Goto
<1>5. ASSUME NEW b \in Buses, ConnectTimeout(b) PROVE CloseInv'
  BY <1>5 DEF TypeOK, KeyInv, RaisedInv, SockInv, CloseInv, Unraised, Holders,
     ConnectTimeout, Goto, wsVars, managerVars
<1>6. ASSUME NEW b \in Buses, UndoAcquire(b) PROVE CloseInv'
  BY <1>6 DEF TypeOK, KeyInv, RaisedInv, SockInv, CloseInv, Unraised, Holders,
     UndoAcquire, Goto, wsVars
<1>7. ASSUME NEW b \in Buses, Subscribe(b) PROVE CloseInv'
  BY <1>7 DEF TypeOK, KeyInv, RaisedInv, SockInv, CloseInv, Unraised, Holders,
     Subscribe, Goto, wsVars
<1>8. ASSUME NEW b \in Buses, Shutdown(b) PROVE CloseInv'
  BY <1>8 DEF TypeOK, KeyInv, RaisedInv, SockInv, CloseInv, Unraised, Holders,
     Shutdown, Goto, wsVars, managerVars
<1>9. ASSUME NEW b \in Buses, FinalizeFailed(b) PROVE CloseInv'
  BY <1>9 DEF TypeOK, KeyInv, RaisedInv, SockInv, CloseInv, Unraised, Holders,
     FinalizeFailed, Goto, wsVars, managerVars
<1>10. ASSUME NEW b \in Buses, Unsubscribe(b) PROVE CloseInv'
  BY <1>10 DEF TypeOK, KeyInv, RaisedInv, SockInv, CloseInv, Unraised, Holders,
     Unsubscribe, Goto, wsVars
<1>11. ASSUME NEW b \in Buses, ReleaseShared(b) PROVE CloseInv'
  <2>1. /\ manager[b] \in Buses /\ pc[b] = "release" /\ pc' = [pc EXCEPT ![b] = "down"]
        /\ ~(refCount[manager[b]] - 1 <= 0)
        /\ UNCHANGED <<manager, raised, ws, sock, closing>>
    BY <1>11 DEF TypeOK, ReleaseShared, LastReference, Goto, wsVars
  <2>2. \A m \in Buses : Holders(m)' = Holders(m) \ {b}
    BY <2>1 DEF Holders, TypeOK
  <2>3. \A m \in Buses : manager[b] # m => Holders(m)' = Holders(m)
    BY <2>1, <2>2 DEF Holders
  <2>4. ASSUME NEW m \in Buses, Unraised(m), manager[b] = m
        PROVE  Holders(m)' # {}
    <3>1. b \in Holders(m)
      BY <2>1, <2>4 DEF Holders, Unraised
    <3>2. Holders(m) # {b}
      BY <2>1, <2>4, CountsHolders
    <3> QED
      BY <2>2, <3>1, <3>2
  <2>5. \A m \in Buses : Unraised(m)' <=> Unraised(m)
    BY <2>1 DEF Unraised
  <2>6. \A x \in Buses : pc'[x] = "connect" <=> pc[x] = "connect"
    BY <2>1 DEF TypeOK
  <2>7. \A m \in Buses : Unraised(m) /\ Holders(m)' = {} => Holders(m) = {}
    BY <2>3, <2>4
  <2> QED
    BY <2>1, <2>5, <2>6, <2>7 DEF CloseInv
<1>12. ASSUME NEW b \in Buses, ReleaseLast(b) PROVE CloseInv'
  <2>0. PICK m \in Buses : manager[b] = m
    BY <1>12 DEF TypeOK, ReleaseLast, Goto
  <2>1. /\ m \in Buses /\ pc[b] = "release" /\ pc' = [pc EXCEPT ![b] = "join"]
        /\ refCount[m] - 1 <= 0 /\ ws' = [ws EXCEPT ![m] = NONE]
        /\ \A x \in Buses : closing'[x] <=> closing[x] \/ x = ws[m]
        /\ \A x \in Buses : sock'[x] = "open" => sock[x] = "open"
        /\ \A x \in Buses : sock'[x] = "connecting" => sock[x] = "connecting"
        /\ UNCHANGED <<manager, raised>>
    BY <1>12, <2>0 DEF TypeOK, ReleaseLast, LastReference, Goto
  <2>2. manager[b] = m
    BY <2>0
  <2>3. \A n \in Buses : n # m => Holders(n)' = Holders(n) /\ ws'[n] = ws[n]
    BY <2>1, <2>2 DEF Holders, TypeOK
  <2>4. \A x \in Buses : pc'[x] = "connect" <=> pc[x] = "connect"
    BY <2>1 DEF TypeOK
  <2>5. \A n \in Buses : Unraised(n)' <=> Unraised(n)
    BY <2>1 DEF Unraised
  <2>6. ws'[m] = NONE
    BY <2>1 DEF TypeOK
  <2>7. ASSUME Unraised(m) PROVE \A d \in Buses : pc[d] = "connect" => manager[d] # m
    <3>1. b \in Holders(m)
      BY <2>1, <2>2, <2>7 DEF Holders, Unraised
    <3>2. refCount[m] <= 1 /\ Overdrawn(m) = {}
      BY <2>1, <2>7, CountsHolders DEF TypeOK
    <3>3. Holders(m) = {b}
      BY <2>1, <3>1, <3>2, OnlyHolder
    <3>4. \A d \in Buses : pc[d] = "connect" /\ manager[d] = m => d \in Holders(m)
      BY DEF Holders, RaisedInv
    <3> QED
      BY <2>1, <3>3, <3>4
  <2>8. ASSUME NEW n \in Buses, Unraised(n)
        PROVE  /\ Holders(n)' = {} => ws'[n] = NONE
               /\ \A x \in Buses : pc'[x] = "connect" /\ manager'[x] = n =>
                    /\ ws'[n] = NONE
                    /\ \A d \in Buses : pc'[d] = "connect" /\ manager'[d] = n => d = x
               /\ \A c \in Buses :
                    manager'[c] = n /\ sock'[c] \in {"connecting", "open"} /\ ~closing'[c]
                      => ws'[n] = c
    <3>1. CASE n # m
      BY <2>1, <2>3, <2>4, <2>8, <3>1 DEF CloseInv
    <3>2. CASE n = m
      BY <2>1, <2>4, <2>6, <2>7, <2>8, <3>2 DEF CloseInv
    <3> QED
      BY <3>1, <3>2
  <2> QED
    BY <2>5, <2>8 DEF CloseInv
<1>13. ASSUME NEW b \in Buses, Join(b) PROVE CloseInv'
  BY <1>13 DEF TypeOK, KeyInv, RaisedInv, SockInv, CloseInv, Unraised, Holders, Join,
     Goto, wsVars
<1>14. ASSUME NEW b \in Buses, RemoveInstance(b) PROVE CloseInv'
  BY <1>14 DEF TypeOK, KeyInv, RaisedInv, SockInv, CloseInv, Unraised, Holders,
     RemoveInstance, Goto, wsVars
<1>15. ASSUME NEW c \in Buses, OnOpen(c) PROVE CloseInv'
  <2>1. \A m \in Buses : Holders(m)' = Holders(m) /\ (Unraised(m)' <=> Unraised(m))
    BY <1>15, OpenKeeps DEF Unraised
  <2>2. \A x \in Buses : pc'[x] = "connect" <=> pc[x] = "connect"
    BY <1>15, OpenKeeps
  <2>3. /\ UNCHANGED <<manager, ws, closing>>
        /\ \A x \in Buses :
             sock'[x] \in {"connecting", "open"} => sock[x] \in {"connecting", "open"}
    BY <1>15, OpenKeeps
  <2> QED
    BY <2>1, <2>2, <2>3 DEF CloseInv
<1>16. ASSUME NEW c \in Buses, OnHandshakeError(c) PROVE CloseInv'
  BY <1>16 DEF TypeOK, KeyInv, RaisedInv, SockInv, CloseInv, Unraised, Holders,
     OnHandshakeError, busVars
<1>17. ASSUME NEW c \in Buses, Drop(c) PROVE CloseInv'
  BY <1>17 DEF TypeOK, KeyInv, RaisedInv, SockInv, CloseInv, Unraised, Holders, Drop,
     busVars, managerVars
<1>18. ASSUME NEW c \in Buses, OnClose(c) PROVE CloseInv'
  BY <1>18 DEF TypeOK, KeyInv, RaisedInv, SockInv, CloseInv, Unraised, Holders,
     OnClose, busVars
<1>19. CASE Finished \/ UNCHANGED vars
  BY <1>19 DEF TypeOK, KeyInv, RaisedInv, SockInv, CloseInv, Unraised, Holders,
     Finished, vars
<1> QED
  BY <1>1, <1>2, <1>3, <1>4, <1>5, <1>6, <1>7, <1>8, <1>9, <1>10, <1>11,
     <1>12, <1>13, <1>14, <1>15, <1>16, <1>17, <1>18, <1>19
  DEF Next, Start, Continue, WebSocketThread

\* OnlyInv is inductive: _disconnect closes the WebSocket it takes away, and acquire
\* waits until it is over.
LEMMA OnlyStep ==
  ASSUME TypeOK, KeyInv, RaisedInv, RefAccounting, SockInv, LockInv, OnlyInv,
         [Next]_vars
  PROVE  OnlyInv'
<1> USE ConnectionAssumption
<1>1. ASSUME NEW b \in Buses, GetInstance(b) PROVE OnlyInv'
  BY <1>1 DEF TypeOK, KeyInv, RaisedInv, SockInv, LockInv, OnlyInv, OnlySocket,
     Holders, Overdrawn, GetInstance, LookUpOrCreate, Goto, wsVars
<1>2. ASSUME NEW b \in Buses, Acquire(b) PROVE OnlyInv'
  BY <1>2 DEF TypeOK, KeyInv, RaisedInv, SockInv, LockInv, OnlyInv, OnlySocket,
     Holders, Overdrawn, Acquire, NeedConnect, Goto, wsVars
<1>3. ASSUME NEW b \in Buses, BuildConnectUrlFails(b) PROVE OnlyInv'
  BY <1>3 DEF TypeOK, KeyInv, RaisedInv, SockInv, LockInv, OnlyInv, OnlySocket,
     Holders, Overdrawn, BuildConnectUrlFails, Goto, wsVars, managerVars
<1>4. ASSUME NEW b \in Buses, Connect(b) PROVE OnlyInv'
  BY <1>4 DEF TypeOK, KeyInv, RaisedInv, SockInv, LockInv, OnlyInv, OnlySocket,
     Holders, Overdrawn, Connect, Goto
<1>5. ASSUME NEW b \in Buses, ConnectTimeout(b) PROVE OnlyInv'
  BY <1>5 DEF TypeOK, KeyInv, RaisedInv, SockInv, LockInv, OnlyInv, OnlySocket,
     Holders, Overdrawn, ConnectTimeout, Goto, wsVars, managerVars
<1>6. ASSUME NEW b \in Buses, UndoAcquire(b) PROVE OnlyInv'
  BY <1>6 DEF TypeOK, KeyInv, RaisedInv, SockInv, LockInv, OnlyInv, OnlySocket,
     Holders, Overdrawn, UndoAcquire, Goto, wsVars
<1>7. ASSUME NEW b \in Buses, Subscribe(b) PROVE OnlyInv'
  BY <1>7 DEF TypeOK, KeyInv, RaisedInv, SockInv, LockInv, OnlyInv, OnlySocket,
     Holders, Overdrawn, Subscribe, Goto, wsVars
<1>8. ASSUME NEW b \in Buses, Shutdown(b) PROVE OnlyInv'
  BY <1>8 DEF TypeOK, KeyInv, RaisedInv, SockInv, LockInv, OnlyInv, OnlySocket,
     Holders, Overdrawn, Shutdown, Goto, wsVars, managerVars
<1>9. ASSUME NEW b \in Buses, FinalizeFailed(b) PROVE OnlyInv'
  BY <1>9 DEF TypeOK, KeyInv, RaisedInv, SockInv, LockInv, OnlyInv, OnlySocket,
     Holders, Overdrawn, FinalizeFailed, Goto, wsVars, managerVars
<1>10. ASSUME NEW b \in Buses, Unsubscribe(b) PROVE OnlyInv'
  BY <1>10 DEF TypeOK, KeyInv, RaisedInv, SockInv, LockInv, OnlyInv, OnlySocket,
     Holders, Overdrawn, Unsubscribe, Goto, wsVars
<1>11. ASSUME NEW b \in Buses, ReleaseShared(b) PROVE OnlyInv'
  BY <1>11 DEF TypeOK, KeyInv, RaisedInv, SockInv, LockInv, OnlyInv, OnlySocket,
     Holders, Overdrawn, ReleaseShared, Goto, wsVars
<1>12. ASSUME NEW b \in Buses, ReleaseLast(b) PROVE OnlyInv'
  <2>0. PICK m \in Buses : manager[b] = m
    BY <1>12 DEF TypeOK, ReleaseLast, Goto
  <2>1. /\ m \in Buses /\ pc[b] = "release" /\ pc' = [pc EXCEPT ![b] = "join"]
        /\ refCount[m] - 1 <= 0 /\ ws' = [ws EXCEPT ![m] = NONE] /\ refLock[m] = NONE
        /\ \A x \in Buses : closing'[x] <=> closing[x] \/ x = ws[m]
        /\ \A x \in Buses : sock'[x] = "none" <=> sock[x] = "none"
        /\ UNCHANGED <<manager, raised>>
    BY <1>12, <2>0 DEF TypeOK, ReleaseLast, LastReference, Goto
  <2>2. manager[b] = m
    BY <2>0
  <2>3. \A n \in Buses : n # m => Holders(n)' = Holders(n) /\ ws'[n] = ws[n]
    BY <2>1, <2>2 DEF Holders, TypeOK
  <2>4. \A n \in Buses : Overdrawn(n) \subseteq Overdrawn(n)'
    BY <2>1 DEF Overdrawn, TypeOK
  <2>5. ASSUME NEW c \in Buses, sock'[c] # "none", ~closing'[c], OnlySocket(c)'
        PROVE  ws'[manager'[c]] = c
    <3>1. ws[manager[c]] = c
      BY <2>1, <2>5 DEF OnlyInv, OnlySocket
    <3>2. manager[c] # m
      BY <2>1, <2>5, <3>1
    <3>3. manager[c] \in Buses
      BY <2>1, <2>5 DEF KeyInv, TypeOK
    <3> QED
      BY <2>1, <2>3, <3>1, <3>2, <3>3
  <2>6. ASSUME NEW x \in Buses, NEW n \in Buses, manager[x] = n, pc'[x] = "join",
               Overdrawn(n)' = {}
        PROVE  ws'[n] = NONE /\ Holders(n)' = {}
    <3>1. CASE n # m
      <4>1. pc[x] = "join" /\ Overdrawn(n) = {}
        BY <2>1, <2>2, <2>4, <2>6, <3>1 DEF TypeOK
      <4> QED
        BY <2>3, <2>6, <3>1, <4>1 DEF OnlyInv
    <3>2. CASE n = m
      <4>1. ~raised[b] /\ Overdrawn(m) = {}
        BY <2>1, <2>2, <2>4, <2>6, <3>2 DEF Overdrawn, TypeOK
      <4>2. b \in Holders(m)
        BY <2>1, <2>2, <4>1 DEF Holders
      <4>3. Holders(m) = {b}
        BY <2>1, <4>1, <4>2, OnlyHolder DEF TypeOK
      <4>4. Holders(m)' = {}
        BY <2>1, <4>3 DEF Holders, TypeOK
      <4> QED
        BY <2>1, <3>2, <4>4 DEF TypeOK
    <3> QED
      BY <3>1, <3>2
  <2>7. ASSUME NEW x \in Buses, pc'[x] = "join", Overdrawn(manager[x])' = {}
        PROVE  ws'[manager'[x]] = NONE /\ Holders(manager[x])' = {}
    <3>1. manager[x] \in Buses
      BY <2>1, <2>7 DEF TypeOK
    <3>2. PICK n \in Buses : manager[x] = n
      BY <3>1
    <3>3. manager'[x] = n
      BY <2>1, <3>2
    <3>4. Overdrawn(n)' = {}
      BY <2>7, <3>3 DEF Overdrawn
    <3>5. ws'[n] = NONE /\ Holders(n)' = {}
      BY <2>6, <2>7, <3>2, <3>4
    <3> QED
      BY <3>3, <3>5 DEF Holders
  <2> QED
    BY <2>5, <2>7 DEF OnlyInv
<1>13. ASSUME NEW b \in Buses, Join(b) PROVE OnlyInv'
  BY <1>13 DEF TypeOK, KeyInv, RaisedInv, SockInv, LockInv, OnlyInv, OnlySocket,
     Holders, Overdrawn, Join, Goto, wsVars
<1>14. ASSUME NEW b \in Buses, RemoveInstance(b) PROVE OnlyInv'
  BY <1>14 DEF TypeOK, KeyInv, RaisedInv, SockInv, LockInv, OnlyInv, OnlySocket,
     Holders, Overdrawn, RemoveInstance, Goto, wsVars
<1>15. ASSUME NEW c \in Buses, OnOpen(c) PROVE OnlyInv'
  <2>1. /\ \A x \in Buses : (sock'[x] = "none" <=> sock[x] = "none")
        /\ \A x \in Buses : pc'[x] = "join" <=> pc[x] = "join"
        /\ UNCHANGED <<manager, ws, closing>>
        /\ \A m : Holders(m)' = Holders(m) /\ Overdrawn(m)' = Overdrawn(m)
    BY <1>15, OpenKeeps
  <2>2. \A x \in Buses : OnlySocket(x)' <=> OnlySocket(x)
    BY <2>1 DEF OnlySocket
  <2>3. \A x \in Buses : /\ Holders(manager[x])' = Holders(manager[x])
                         /\ Overdrawn(manager[x])' = Overdrawn(manager[x])
    BY <1>15, <2>1 DEF Holders, Overdrawn, OnOpen
  <2> QED
    BY <2>1, <2>2, <2>3 DEF OnlyInv
<1>16. ASSUME NEW c \in Buses, OnHandshakeError(c) PROVE OnlyInv'
  BY <1>16 DEF TypeOK, KeyInv, RaisedInv, SockInv, LockInv, OnlyInv, OnlySocket,
     Holders, Overdrawn, OnHandshakeError, busVars
<1>17. ASSUME NEW c \in Buses, Drop(c) PROVE OnlyInv'
  BY <1>17 DEF TypeOK, KeyInv, RaisedInv, SockInv, LockInv, OnlyInv, OnlySocket,
     Holders, Overdrawn, Drop, busVars, managerVars
<1>18. ASSUME NEW c \in Buses, OnClose(c) PROVE OnlyInv'
  BY <1>18 DEF TypeOK, KeyInv, RaisedInv, SockInv, LockInv, OnlyInv, OnlySocket,
     Holders, Overdrawn, OnClose, busVars
<1>19. CASE Finished \/ UNCHANGED vars
  BY <1>19 DEF TypeOK, KeyInv, RaisedInv, SockInv, LockInv, OnlyInv, OnlySocket,
     Holders, Overdrawn, Finished, vars
<1> QED
  BY <1>1, <1>2, <1>3, <1>4, <1>5, <1>6, <1>7, <1>8, <1>9, <1>10, <1>11,
     <1>12, <1>13, <1>14, <1>15, <1>16, <1>17, <1>18, <1>19
  DEF Next, Start, Continue, WebSocketThread

\* FlagTruthful is preserved: the event is cleared for a WebSocket that is gone, or
\* after the manager's own was told to close.
LEMMA FlagStep ==
  ASSUME TypeOK, KeyInv, RaisedInv, SockInv, LockInv, OnlyInv, FlagTruthful,
         [Next]_vars
  PROVE  FlagTruthful'
<1> USE ConnectionAssumption
<1>1. ASSUME NEW b \in Buses, GetInstance(b) PROVE FlagTruthful'
  BY <1>1 DEF TypeOK, KeyInv, RaisedInv, SockInv, LockInv, OnlyInv, OnlySocket,
     Overdrawn, FlagTruthful, GetInstance, LookUpOrCreate, Goto, wsVars
<1>2. ASSUME NEW b \in Buses, Acquire(b) PROVE FlagTruthful'
  BY <1>2 DEF TypeOK, KeyInv, RaisedInv, SockInv, LockInv, OnlyInv, OnlySocket,
     Overdrawn, FlagTruthful, Acquire, NeedConnect, Goto, wsVars
<1>3. ASSUME NEW b \in Buses, BuildConnectUrlFails(b) PROVE FlagTruthful'
  BY <1>3 DEF TypeOK, KeyInv, RaisedInv, SockInv, LockInv, OnlyInv, OnlySocket,
     Overdrawn, FlagTruthful, BuildConnectUrlFails, Goto, wsVars, managerVars
<1>4. ASSUME NEW b \in Buses, Connect(b) PROVE FlagTruthful'
  BY <1>4 DEF TypeOK, KeyInv, RaisedInv, SockInv, LockInv, OnlyInv, OnlySocket,
     Overdrawn, FlagTruthful, Connect, Goto
<1>5. ASSUME NEW b \in Buses, ConnectTimeout(b) PROVE FlagTruthful'
  BY <1>5 DEF TypeOK, KeyInv, RaisedInv, SockInv, LockInv, OnlyInv, OnlySocket,
     Overdrawn, FlagTruthful, ConnectTimeout, Goto, wsVars, managerVars
<1>6. ASSUME NEW b \in Buses, UndoAcquire(b) PROVE FlagTruthful'
  BY <1>6 DEF TypeOK, KeyInv, RaisedInv, SockInv, LockInv, OnlyInv, OnlySocket,
     Overdrawn, FlagTruthful, UndoAcquire, Goto, wsVars
<1>7. ASSUME NEW b \in Buses, Subscribe(b) PROVE FlagTruthful'
  BY <1>7 DEF TypeOK, KeyInv, RaisedInv, SockInv, LockInv, OnlyInv, OnlySocket,
     Overdrawn, FlagTruthful, Subscribe, Goto, wsVars
<1>8. ASSUME NEW b \in Buses, Shutdown(b) PROVE FlagTruthful'
  BY <1>8 DEF TypeOK, KeyInv, RaisedInv, SockInv, LockInv, OnlyInv, OnlySocket,
     Overdrawn, FlagTruthful, Shutdown, Goto, wsVars, managerVars
<1>9. ASSUME NEW b \in Buses, FinalizeFailed(b) PROVE FlagTruthful'
  BY <1>9 DEF TypeOK, KeyInv, RaisedInv, SockInv, LockInv, OnlyInv, OnlySocket,
     Overdrawn, FlagTruthful, FinalizeFailed, Goto, wsVars, managerVars
<1>10. ASSUME NEW b \in Buses, Unsubscribe(b) PROVE FlagTruthful'
  BY <1>10 DEF TypeOK, KeyInv, RaisedInv, SockInv, LockInv, OnlyInv, OnlySocket,
     Overdrawn, FlagTruthful, Unsubscribe, Goto, wsVars
<1>11. ASSUME NEW b \in Buses, ReleaseShared(b) PROVE FlagTruthful'
  BY <1>11 DEF TypeOK, KeyInv, RaisedInv, SockInv, LockInv, OnlyInv, OnlySocket,
     Overdrawn, FlagTruthful, ReleaseShared, Goto, wsVars
<1>12. ASSUME NEW b \in Buses, ReleaseLast(b) PROVE FlagTruthful'
  BY <1>12 DEF TypeOK, KeyInv, RaisedInv, SockInv, LockInv, OnlyInv, OnlySocket,
     Overdrawn, FlagTruthful, ReleaseLast, Goto
<1>13. ASSUME NEW b \in Buses, Join(b) PROVE FlagTruthful'
  BY <1>13 DEF TypeOK, KeyInv, RaisedInv, SockInv, LockInv, OnlyInv, OnlySocket,
     Overdrawn, FlagTruthful, Join, Goto, wsVars
<1>14. ASSUME NEW b \in Buses, RemoveInstance(b) PROVE FlagTruthful'
  BY <1>14 DEF TypeOK, KeyInv, RaisedInv, SockInv, LockInv, OnlyInv, OnlySocket,
     Overdrawn, FlagTruthful, RemoveInstance, Goto, wsVars
<1>15. ASSUME NEW c \in Buses, OnOpen(c) PROVE FlagTruthful'
  <2>1. /\ \A x \in Buses : sock'[x] = IF x = c THEN "open" ELSE sock[x]
        /\ sock[c] = "connecting" /\ UNCHANGED <<manager, closing>>
        /\ \A m : Overdrawn(m)' = Overdrawn(m)
    BY <1>15, OpenKeeps
  <2>2. /\ manager[c] \in Buses
        /\ connected' = [connected EXCEPT ![manager[c]] = TRUE]
    BY <1>15 DEF TypeOK, KeyInv, OnOpen
  <2>3. \A x \in Buses : OnlySocket(x)' <=> OnlySocket(x)
    BY <2>1 DEF OnlySocket
  <2>4. \A m \in Buses : connected'[m] =>
          \E x \in Buses : manager'[x] = m /\ sock'[x] \in {"open", "dropped"}
    BY <2>1, <2>2 DEF TypeOK, FlagTruthful
  <2>5. ASSUME NEW m \in Buses, NEW x \in Buses, manager'[x] = m, sock'[x] = "open",
               ~closing'[x], OnlySocket(x)', Overdrawn(m)' = {}
        PROVE  connected'[m]
    <3>1. CASE m = manager[c]
      BY <2>2, <3>1 DEF TypeOK
    <3>2. CASE m # manager[c]
      BY <2>1, <2>2, <2>3, <2>5, <3>2 DEF TypeOK, FlagTruthful
    <3> QED
      BY <3>1, <3>2
  <2> QED
    BY <2>4, <2>5 DEF FlagTruthful
<1>16. ASSUME NEW c \in Buses, OnHandshakeError(c) PROVE FlagTruthful'
  BY <1>16 DEF TypeOK, KeyInv, RaisedInv, SockInv, LockInv, OnlyInv, OnlySocket,
     Overdrawn, FlagTruthful, OnHandshakeError, busVars
<1>17. ASSUME NEW c \in Buses, Drop(c) PROVE FlagTruthful'
  BY <1>17 DEF TypeOK, KeyInv, RaisedInv, SockInv, LockInv, OnlyInv, OnlySocket,
     Overdrawn, FlagTruthful, Drop, busVars, managerVars
<1>18. ASSUME NEW c \in Buses, OnClose(c) PROVE FlagTruthful'
  BY <1>18 DEF TypeOK, KeyInv, RaisedInv, SockInv, LockInv, OnlyInv, OnlySocket,
     Overdrawn, FlagTruthful, OnClose, busVars
<1>19. CASE Finished \/ UNCHANGED vars
  BY <1>19 DEF TypeOK, KeyInv, RaisedInv, SockInv, LockInv, OnlyInv, OnlySocket,
     Overdrawn, FlagTruthful, Finished, vars
<1> QED
  BY <1>1, <1>2, <1>3, <1>4, <1>5, <1>6, <1>7, <1>8, <1>9, <1>10, <1>11,
     <1>12, <1>13, <1>14, <1>15, <1>16, <1>17, <1>18, <1>19
  DEF Next, Start, Continue, WebSocketThread

\* The invariants of the WebSocket and of its event hold throughout.
LEMMA SocketInvariant == Spec => [](SockInv /\ LockInv /\ CloseInv /\ OnlyInv /\ FlagTruthful)
<1> DEFINE Inv == SockInv /\ LockInv /\ CloseInv /\ OnlyInv /\ FlagTruthful
<1>1. Init => Inv
  BY ConnectionAssumption
     DEF Init, SockInv, LockInv, CloseInv, OnlyInv, FlagTruthful, Holders
<1>2. /\ TypeOK /\ KeyInv /\ RaisedInv /\ RefAccounting /\ Inv /\ [Next]_vars
      => Inv'
  BY SockStep, LockStep, CloseStep, OnlyStep, FlagStep
<1> QED
  BY <1>1, <1>2, TypeCorrect, KeyInvariant, RaisedInvariant, Accounting, PTL DEF Spec

\* Whatever threads, constructors and shutdowns interleave, a WebSocket that goes on
\* when nobody holds its manager any more was left by a constructor that failed
\* (release, _connect).
THEOREM Closed == Spec => []ClosedWithLast
<1>1. TypeOK /\ KeyInv /\ CloseInv => ClosedWithLast
  <2> SUFFICES ASSUME TypeOK, KeyInv, CloseInv, NEW c \in Buses,
                      sock[c] \in {"connecting", "open"}, ~closing[c],
                      Holders(manager[c]) = {}
               PROVE  \E b \in Buses : manager[b] = manager[c] /\ raised[b]
    BY DEF ClosedWithLast
  <2>1. manager[c] \in Buses
    BY DEF TypeOK, KeyInv
  <2>2. Unraised(manager[c]) => ws[manager[c]] = NONE /\ ws[manager[c]] = c
    BY <2>1 DEF CloseInv
  <2> QED
    BY <2>2, ConnectionAssumption DEF Unraised
<1> QED
  BY <1>1, TypeCorrect, KeyInvariant, SocketInvariant, PTL

\* is_connected is never set without a WebSocket that is open or just lost, and the
\* only WebSocket that a manager ever had shows in it while it is open, whichever
\* threads set and clear the event.
THEOREM Truthful == Spec => []FlagTruthful
<1> QED
  BY SocketInvariant, PTL
=============================================================================
