--------------------------- MODULE HelixBus_proofs ---------------------------
(***************************************************************************)
(* Proofs about the life of a HelixBus, for any number of threads and of   *)
(* calls.                                                                  *)
(***************************************************************************)
EXTENDS HelixBus, TLAPS

-----------------------------------------------------------------------------

\* The variables keep their types, and a bus that is up has its manager.
THEOREM TypeCorrect == Spec => []TypeOK
<1>1. Init => TypeOK
  <2> SUFFICES ASSUME Init PROVE TypeOK
    OBVIOUS
  <2>1. refs \in Int /\ calls \in [Threads -> 0..MaxCalls]
    BY BusAssumption DEF Init
  <2>2. pc \in [Threads -> Places] /\ op \in [Threads -> RestOps \cup {"shutdown"}]
    BY DEF Init, Places
  <2> QED
    BY <2>1, <2>2 DEF Init, TypeOK, Assets, Marks, Constructing
<1>2. TypeOK /\ [Next]_vars => TypeOK'
  <2> SUFFICES ASSUME TypeOK, [Next]_vars PROVE TypeOK'
    OBVIOUS
  <2>1. CASE ConstructorStep
    <3>0. refs \in Int
      BY DEF TypeOK
    <3>1. Acquire => refs' \in Int
      BY <3>0 DEF Acquire
    <3> USE DEF TypeOK, Assets, Marks, Constructing, Stage, callVars
    <3>2. CASE Refused
      BY <3>2 DEF Refused, Move
    <3>3. CASE Construct
      BY <3>3 DEF Construct
    <3>4. CASE Adopt
      BY <3>4 DEF Adopt, Move
    <3>5. CASE ReadSession
      BY <3>5 DEF ReadSession
    <3>6. CASE InitParent
      BY <3>6 DEF InitParent
    <3>7. CASE ConfigureBitrate
      BY <3>7 DEF ConfigureBitrate
    <3>8. CASE ReadCrypto
      BY <3>8 DEF ReadCrypto, ReadAuthClient, HasAuthClient
    <3>9. CASE GetInstance
      BY <3>9 DEF GetInstance
    <3>10. CASE AcquireFails
      BY <3>10 DEF AcquireFails, Move
    <3>11. CASE Subscribe
      BY <3>11 DEF Subscribe
    <3>12. CASE Acquire
      BY <3>12, <3>1 DEF Acquire
    <3> QED
      BY <2>1, <3>2, <3>3, <3>4, <3>5, <3>6, <3>7,
         <3>8, <3>9, <3>10, <3>11, <3>12 DEF ConstructorStep
  <2>2. CASE CloseSession
    <3>1. overlapped' \in [Threads -> BOOLEAN]
      BY <2>2 DEF CloseSession
    <3> QED
      BY <2>2, <3>1 DEF CloseSession, TypeOK, Marks
  <2>a. ASSUME NEW t \in Threads, NEW from,
               NEW to \in Places, Goto(t, from, to)
        PROVE  pc' \in [Threads -> Places]
    BY <2>a DEF TypeOK, Goto
  <2>b. ASSUME NEW t \in Threads, NEW how \in {"ok", "error", "crash"}, End(t, how)
        PROVE  /\ pc' \in [Threads -> Places]
               /\ answer' \in [Threads -> {"none", "ok", "error", "crash"}]
    <3>1. pc' \in [Threads -> Places]
      BY <2>b DEF TypeOK, End, InShutdown, InCall, Places
    <3>2. Answer(t, how) \in {"ok", "error", "crash"}
      BY DEF Answer
    <3>3. answer' \in [Threads -> {"none", "ok", "error", "crash"}]
      BY <2>b, <3>2 DEF TypeOK, End
    <3> QED
      BY <3>1, <3>3
  <2>c. ASSUME NEW t \in Threads, NEW o \in RestOps \cup {"shutdown"},
               NEW to \in {"idle", "ensure", "mark"}, Begin(t, o, to)
        PROVE  /\ op' \in [Threads -> RestOps \cup {"shutdown"}]
               /\ pc' \in [Threads -> Places]
               /\ overlapped' \in [Threads -> BOOLEAN]
               /\ answer' \in [Threads -> {"none", "ok", "error", "crash"}]
    <3>1. op' \in [Threads -> RestOps \cup {"shutdown"}]
      BY <2>c DEF TypeOK, Begin
    <3>2. pc' \in [Threads -> Places]
      BY <2>a, <2>c DEF Begin, InShutdown, InCall, Places
    <3>3. overlapped' \in [Threads -> BOOLEAN]
      BY <2>c DEF Begin, TypeOK
    <3>4. answer' \in [Threads -> {"none", "ok", "error", "crash"}]
      BY <2>c DEF Begin, TypeOK
    <3> QED
      BY <3>1, <3>2, <3>3, <3>4
  <2>3. ASSUME NEW t \in Threads, Call(t) \/ Shutdown(t) PROVE TypeOK'
    <3>0. calls \in [Threads -> 0..MaxCalls]
      BY DEF TypeOK
    <3>1. UNCHANGED busVars /\ calls' \in [Threads -> 0..MaxCalls]
      BY <2>3, <3>0, BusAssumption DEF Call, Shutdown, MayCall
    <3>2. PICK o \in RestOps \cup {"shutdown"}, to \in {"idle", "ensure", "mark"} :
            Begin(t, o, to)
      BY <2>3 DEF Call, Shutdown
    <3>3. marks' \subseteq Marks
      BY <2>3 DEF Call, Shutdown, TypeOK, Marks
    <3> QED
      BY <2>c, <3>1, <3>2, <3>3 DEF TypeOK, busVars
  <2>4. ASSUME NEW t \in Threads, Finalize(t) PROVE TypeOK'
    <3>1. life' = "gone" /\ UNCHANGED <<session, flag, client, has, refs, marks, calls>>
      BY <2>4 DEF Finalize, callVars
    <3>2. CASE UNCHANGED callVars
      BY <3>1, <3>2 DEF TypeOK, callVars
    <3>3. CASE Begin(t, "shutdown", "mark")
      BY <2>c, <3>1, <3>3 DEF TypeOK
    <3> QED
      BY <2>4, <3>2, <3>3 DEF Finalize
  <2>5. ASSUME NEW t \in Threads, Ensure(t) PROVE TypeOK'
    <3>1. pc' \in [Threads -> Places]
      BY <2>5, <2>a, <2>b DEF Ensure, InShutdown, InCall, Places
    <3>2. answer' \in [Threads -> {"none", "ok", "error", "crash"}]
      BY <2>5, <2>b DEF Ensure, TypeOK
    <3> QED
      BY <2>5, <3>1, <3>2 DEF Ensure, TypeOK, busVars, shutdownVars
  <2>6. ASSUME NEW t \in Threads, Return(t) PROVE TypeOK'
    <3>1. pc' \in [Threads -> Places]
      BY <2>6, <2>a, <2>b DEF Return, InShutdown, InCall, Places
    <3>2. answer' \in [Threads -> {"none", "ok", "error", "crash"}]
      BY <2>6, <2>b DEF Return, TypeOK
    <3> QED
      BY <2>6, <3>1, <3>2 DEF Return, TypeOK, busVars, shutdownVars
  <2>7. ASSUME NEW t \in Threads, Send(t) \/ UseClient(t) \/ UseToken(t) PROVE TypeOK'
    <3>1. pc' \in [Threads -> Places]
      BY <2>7, <2>a, <2>b DEF Send, UseClient, UseToken, Reply, InShutdown, InCall, Places
    <3>2. answer' \in [Threads -> {"none", "ok", "error", "crash"}]
      BY <2>7, <2>b DEF Send, UseClient, UseToken, Reply, TypeOK
    <3> QED
      BY <2>7, <3>1, <3>2 DEF Send, UseClient, UseToken, Reply, requestVars, TypeOK,
         busVars
  <2>8. ASSUME NEW t \in Threads, CloseOwn(t) PROVE TypeOK'
    <3>1. pc' \in [Threads -> Places]
      BY <2>8, <2>a, <2>b DEF CloseOwn, InShutdown, InCall, Places
    <3>2. answer' \in [Threads -> {"none", "ok", "error", "crash"}]
      BY <2>8, <2>b DEF CloseOwn, TypeOK
    <3> QED
      BY <2>8, <3>1, <3>2 DEF CloseOwn, TypeOK, busVars, shutdownVars
  <2>9. ASSUME NEW t \in Threads, Forget(t) PROVE TypeOK'
    <3>1. pc' \in [Threads -> Places]
      BY <2>9, <2>a, <2>b DEF Forget
    <3>2. answer' \in [Threads -> {"none", "ok", "error", "crash"}]
      BY <2>9, <2>b DEF Forget, TypeOK
    <3> QED
      BY <2>9, <3>1, <3>2 DEF Forget, TypeOK, busVars, shutdownVars
  <2>10. ASSUME NEW t \in Threads, Mark(t) PROVE TypeOK'
    <3>1. pc' \in [Threads -> Places]
      BY <2>10, <2>a DEF Mark, InShutdown, InCall, Places
    <3> QED
      BY <2>10, <3>1 DEF Mark, TypeOK, Assets, shutdownVars
  <2>11. ASSUME NEW t \in Threads, Unsubscribe(t) PROVE TypeOK'
    <3>1. pc' \in [Threads -> Places]
      BY <2>11, <2>a DEF Unsubscribe, InShutdown, InCall, Places
    <3> QED
      BY <2>11, <3>1 DEF Unsubscribe, TypeOK, Assets, shutdownVars
  <2>12. ASSUME NEW t \in Threads, Release(t) PROVE TypeOK'
    <3>1. pc' \in [Threads -> Places]
      BY <2>12, <2>a DEF Release, InShutdown, InCall, Places
    <3>0. refs \in Int
      BY DEF TypeOK
    <3>2. refs' \in Int
      BY <2>12, <3>0 DEF Release
    <3> QED
      BY <2>12, <3>1, <3>2 DEF Release, TypeOK, Assets, shutdownVars
  <2>13. ASSUME NEW t \in Threads, Close(t) PROVE TypeOK'
    <3>1. pc' \in [Threads -> Places]
      BY <2>13, <2>a DEF Close, InShutdown, InCall, Places
    <3> QED
      BY <2>13, <3>1 DEF Close, TypeOK, Assets, shutdownVars
  <2>14. CASE Finished \/ UNCHANGED vars
    BY <2>14 DEF Finished, vars, busVars, callVars, TypeOK
  <2> QED
    BY <2>1, <2>2, <2>3, <2>4, <2>5, <2>6, <2>7, <2>8,
       <2>9, <2>10, <2>11, <2>12, <2>13, <2>14 DEF Next, ThreadStep
<1> QED
  BY <1>1, <1>2, PTL DEF Spec

\* No thread is in a call before the constructor has returned or raised.
IdleInv == life \notin {"up", "gone"} => \A t \in Threads : pc[t] = "idle"

LEMMA Idle == Spec => []IdleInv
<1>1. Init => IdleInv
  BY DEF Init, IdleInv, Constructing, InShutdown, InCall, Places
<1>2. TypeOK /\ IdleInv /\ [Next]_vars => IdleInv'
  <2> SUFFICES ASSUME TypeOK, IdleInv, [Next]_vars PROVE IdleInv'
    OBVIOUS
  <2> USE DEF TypeOK, IdleInv, Constructing, InShutdown, InCall, Places, vars, busVars,
              callVars, shutdownVars
  <2>1. CASE Refused
    BY <2>1 DEF Refused, Move, Stage
  <2>2. CASE Construct
    BY <2>2 DEF Construct, Stage
  <2>3. CASE Adopt
    BY <2>3 DEF Adopt, Move, Stage
  <2>4. CASE ReadSession
    BY <2>4 DEF ReadSession, Stage
  <2>5. CASE InitParent
    BY <2>5 DEF InitParent, Stage
  <2>6. CASE ConfigureBitrate
    BY <2>6 DEF ConfigureBitrate, Stage
  <2>7. CASE ReadCrypto
    BY <2>7 DEF ReadCrypto, ReadAuthClient, HasAuthClient, Stage
  <2>8. CASE GetInstance
    BY <2>8 DEF GetInstance, Stage
  <2>9. CASE Acquire
    BY <2>9 DEF Acquire, Stage
  <2>10. CASE AcquireFails
    BY <2>10 DEF AcquireFails, Move, Stage
  <2>11. CASE Subscribe
    BY <2>11 DEF Subscribe, Stage
  <2>12. CASE CloseSession
    BY <2>12 DEF CloseSession
  <2>13. ASSUME NEW t \in Threads, Call(t) PROVE IdleInv'
    BY <2>13 DEF Call, MayCall, Begin, Goto
  <2>14. ASSUME NEW t \in Threads, Ensure(t) PROVE IdleInv'
    BY <2>14 DEF Ensure, Goto, End, Answer
  <2>15. ASSUME NEW t \in Threads, Return(t) PROVE IdleInv'
    BY <2>15 DEF Return, Goto, End, Answer
  <2>16. ASSUME NEW t \in Threads, Send(t) \/ UseClient(t) \/ UseToken(t) PROVE IdleInv'
    BY <2>16 DEF Send, UseClient, UseToken, Reply, requestVars, Goto, End, Answer
  <2>17. ASSUME NEW t \in Threads, Shutdown(t) PROVE IdleInv'
    BY <2>17 DEF Shutdown, MayCall, Begin, Goto, ShutDown
  <2>18. ASSUME NEW t \in Threads, Finalize(t) PROVE IdleInv'
    BY <2>18 DEF Finalize, Begin, Goto
  <2>19. ASSUME NEW t \in Threads, Mark(t) PROVE IdleInv'
    BY <2>19 DEF Mark, Goto
  <2>20. ASSUME NEW t \in Threads, Unsubscribe(t) PROVE IdleInv'
    BY <2>20 DEF Unsubscribe, Goto
  <2>21. ASSUME NEW t \in Threads, Release(t) PROVE IdleInv'
    BY <2>21 DEF Release, Goto
  <2>22. ASSUME NEW t \in Threads, Close(t) PROVE IdleInv'
    BY <2>22 DEF Close, Goto
  <2>23. ASSUME NEW t \in Threads, CloseOwn(t) PROVE IdleInv'
    BY <2>23 DEF CloseOwn, Goto, End, Answer
  <2>24. ASSUME NEW t \in Threads, Forget(t) PROVE IdleInv'
    BY <2>24 DEF Forget, End, Answer
  <2>25. CASE Finished \/ UNCHANGED vars
    BY <2>25 DEF Finished
  <2> QED
    BY <2>1, <2>2, <2>3, <2>4, <2>5, <2>6, <2>7, <2>8, <2>9, <2>10,
       <2>11, <2>12, <2>13, <2>14, <2>15, <2>16, <2>17, <2>18, <2>19, <2>20,
       <2>21, <2>22, <2>23, <2>24, <2>25
       DEF Next, ConstructorStep, ThreadStep
<1> QED
  BY <1>1, <1>2, TypeCorrect, PTL DEF Spec

\* No thread and no order of calls, shutdowns and closes gives a bus with a
\* session a REST client of the legacy mode (_ensure_rest_client).
THEOREM NoLegacy == Spec => []NoLegacyFallback
<1>1. Init => NoLegacyFallback
  BY DEF Init, NoLegacyFallback
<1>2. TypeOK /\ NoLegacyFallback /\ [Next]_vars => NoLegacyFallback'
  <2> SUFFICES ASSUME TypeOK, NoLegacyFallback, [Next]_vars PROVE NoLegacyFallback'
    OBVIOUS
  <2> USE DEF TypeOK, NoLegacyFallback, vars, busVars, callVars, shutdownVars
  <2>1. CASE Refused
    BY <2>1 DEF Refused, Move, Stage
  <2>2. CASE Construct
    BY <2>2 DEF Construct, Stage
  <2>3. CASE Adopt
    BY <2>3 DEF Adopt, Move, Stage
  <2>4. CASE ReadSession
    BY <2>4 DEF ReadSession, Stage
  <2>5. CASE InitParent
    BY <2>5 DEF InitParent, Stage
  <2>6. CASE ConfigureBitrate
    BY <2>6 DEF ConfigureBitrate, Stage
  <2>7. CASE ReadCrypto
    BY <2>7 DEF ReadCrypto, ReadAuthClient, HasAuthClient, Stage
  <2>8. CASE GetInstance
    BY <2>8 DEF GetInstance, Stage
  <2>9. CASE Acquire
    BY <2>9 DEF Acquire, Stage
  <2>10. CASE AcquireFails
    BY <2>10 DEF AcquireFails, Move, Stage
  <2>11. CASE Subscribe
    BY <2>11 DEF Subscribe, Stage
  <2>12. CASE CloseSession
    BY <2>12 DEF CloseSession
  <2>13. ASSUME NEW t \in Threads, Call(t) PROVE NoLegacyFallback'
    BY <2>13 DEF Call, MayCall, Begin, Goto
  <2>14. ASSUME NEW t \in Threads, Ensure(t) PROVE NoLegacyFallback'
    BY <2>14 DEF Ensure, Goto, End, Answer
  <2>15. ASSUME NEW t \in Threads, Return(t) PROVE NoLegacyFallback'
    BY <2>15 DEF Return, Goto, End, Answer
  <2>16. ASSUME NEW t \in Threads, Send(t) \/ UseClient(t) \/ UseToken(t)
         PROVE  NoLegacyFallback'
    BY <2>16 DEF Send, UseClient, UseToken, Reply, requestVars, Goto, End, Answer
  <2>17. ASSUME NEW t \in Threads, Shutdown(t) PROVE NoLegacyFallback'
    BY <2>17 DEF Shutdown, MayCall, Begin, Goto, ShutDown
  <2>18. ASSUME NEW t \in Threads, Finalize(t) PROVE NoLegacyFallback'
    BY <2>18 DEF Finalize, Begin, Goto
  <2>19. ASSUME NEW t \in Threads, Mark(t) PROVE NoLegacyFallback'
    BY <2>19 DEF Mark, Goto
  <2>20. ASSUME NEW t \in Threads, Unsubscribe(t) PROVE NoLegacyFallback'
    BY <2>20 DEF Unsubscribe, Goto
  <2>21. ASSUME NEW t \in Threads, Release(t) PROVE NoLegacyFallback'
    BY <2>21 DEF Release, Goto
  <2>22. ASSUME NEW t \in Threads, Close(t) PROVE NoLegacyFallback'
    BY <2>22 DEF Close, Goto
  <2>23. ASSUME NEW t \in Threads, CloseOwn(t) PROVE NoLegacyFallback'
    BY <2>23 DEF CloseOwn, Goto, End, Answer
  <2>24. ASSUME NEW t \in Threads, Forget(t) PROVE NoLegacyFallback'
    BY <2>24 DEF Forget, End, Answer
  <2>25. CASE Finished \/ UNCHANGED vars
    BY <2>25 DEF Finished
  <2> QED
    BY <2>1, <2>2, <2>3, <2>4, <2>5, <2>6, <2>7, <2>8, <2>9, <2>10,
       <2>11, <2>12, <2>13, <2>14, <2>15, <2>16, <2>17, <2>18, <2>19, <2>20,
       <2>21, <2>22, <2>23, <2>24, <2>25
       DEF Next, ConstructorStep, ThreadStep
<1> QED
  BY <1>1, <1>2, TypeCorrect, PTL DEF Spec

-----------------------------------------------------------------------------
(* The crypto session. *)

\* While nobody disturbs the constructor of a bus with a session, the session is
\* not closed yet (or was before, which Adopt finds) and its client is taken.
SealInv ==
  session # "none" /\ "disturbed" \notin marks =>
    /\ life = "adopt" => session # "closing"
    /\ life \in Constructing \ {"adopt"} => HasAuthClient
    /\ life \in Constructing \ {"adopt", "read"} => client = "session"
    /\ life \in {"instance", "acquire", "subscribe", "up"} => "crypto" \in has

\* A bus of a session gets a WebSocket under the session's keys unless somebody
\* closes the session while the bus is constructed (HelixBus.__init__).
THEOREM Sealed == Spec => []SealedUnlessClosed
<1>1. Init => SealInv
  BY DEF Init, SealInv, Constructing
<1>2. TypeOK /\ IdleInv /\ SealInv /\ [Next]_vars => SealInv'
  <2> SUFFICES ASSUME TypeOK, IdleInv, SealInv, [Next]_vars PROVE SealInv'
    OBVIOUS
  <2> USE DEF TypeOK, SealInv, IdleInv, HasAuthClient, Constructing, vars, busVars,
              callVars, shutdownVars
  <2>1. CASE Refused
    BY <2>1 DEF Refused, Move, Stage
  <2>2. CASE Construct
    BY <2>2 DEF Construct, Stage
  <2>3. CASE Adopt
    BY <2>3 DEF Adopt, Move, Stage
  <2>4. CASE ReadSession
    BY <2>4 DEF ReadSession, Stage
  <2>5. CASE InitParent
    BY <2>5 DEF InitParent, Stage
  <2>6. CASE ConfigureBitrate
    BY <2>6 DEF ConfigureBitrate, Stage
  <2>7. CASE ReadCrypto
    BY <2>7 DEF ReadCrypto, ReadAuthClient, HasAuthClient, Stage
  <2>8. CASE GetInstance
    BY <2>8 DEF GetInstance, Stage
  <2>9. CASE Acquire
    BY <2>9 DEF Acquire, Stage
  <2>10. CASE AcquireFails
    BY <2>10 DEF AcquireFails, Move, Stage
  <2>11. CASE Subscribe
    BY <2>11 DEF Subscribe, Stage
  <2>12. CASE CloseSession
    BY <2>12 DEF CloseSession
  <2>13. ASSUME NEW t \in Threads, Call(t) PROVE SealInv'
    BY <2>13 DEF Call, MayCall, Begin, Goto
  <2>14. ASSUME NEW t \in Threads, Ensure(t) PROVE SealInv'
    BY <2>14 DEF Ensure, Goto, End, Answer
  <2>15. ASSUME NEW t \in Threads, Return(t) PROVE SealInv'
    BY <2>15 DEF Return, Goto, End, Answer
  <2>16. ASSUME NEW t \in Threads, Send(t) \/ UseClient(t) \/ UseToken(t) PROVE SealInv'
    BY <2>16 DEF Send, UseClient, UseToken, Reply, requestVars, Goto, End, Answer
  <2>17. ASSUME NEW t \in Threads, Shutdown(t) PROVE SealInv'
    BY <2>17 DEF Shutdown, MayCall, Begin, Goto, ShutDown
  <2>18. ASSUME NEW t \in Threads, Finalize(t) PROVE SealInv'
    BY <2>18 DEF Finalize, Begin, Goto
  <2>19. ASSUME NEW t \in Threads, Mark(t) PROVE SealInv'
    BY <2>19 DEF Mark, Goto
  <2>20. ASSUME NEW t \in Threads, Unsubscribe(t) PROVE SealInv'
    BY <2>20 DEF Unsubscribe, Goto
  <2>21. ASSUME NEW t \in Threads, Release(t) PROVE SealInv'
    BY <2>21 DEF Release, Goto
  <2>22. ASSUME NEW t \in Threads, Close(t) PROVE SealInv'
    BY <2>22 DEF Close, Goto
  <2>23. ASSUME NEW t \in Threads, CloseOwn(t) PROVE SealInv'
    BY <2>23 DEF CloseOwn, Goto, End, Answer
  <2>24. ASSUME NEW t \in Threads, Forget(t) PROVE SealInv'
    BY <2>24 DEF Forget, End, Answer
  <2>25. CASE Finished \/ UNCHANGED vars
    BY <2>25 DEF Finished
  <2> QED
    BY <2>1, <2>2, <2>3, <2>4, <2>5, <2>6, <2>7, <2>8, <2>9, <2>10,
       <2>11, <2>12, <2>13, <2>14, <2>15, <2>16, <2>17, <2>18, <2>19, <2>20,
       <2>21, <2>22, <2>23, <2>24, <2>25
       DEF Next, ConstructorStep, ThreadStep
<1>3. SealInv => SealedUnlessClosed
  BY DEF SealInv, SealedUnlessClosed
<1> QED
  BY <1>1, <1>2, <1>3, TypeCorrect, Idle, PTL DEF Spec

-----------------------------------------------------------------------------
(* AttributeErrors. *)

\* The types of the variables that say how calls go.
CallsTyped ==
  /\ life \in {"new", "up", "raised", "gone"} \cup Constructing
  /\ pc \in [Threads -> Places]
  /\ op \in [Threads -> RestOps \cup {"shutdown"}]
  /\ answer \in [Threads -> {"none", "ok", "error", "crash"}]
  /\ overlapped \in [Threads -> BOOLEAN]

\* A call under way at the same time as a shutdown of another thread knows it ...
OverlapKnown ==
  \A t, u \in Threads :
    t # u /\ pc[t] # "idle" /\ pc[u] \in InShutdown => overlapped[t]

\* ... only a call that is overlapped can find a client or a token gone that it has
\* seen ...
LossKnown ==
  \A t \in Threads :
    /\ pc[t] \in {"return", "close own"} /\ client = "none" => overlapped[t]
    /\ pc[t] = "client" /\ ~HasAuthClient => overlapped[t]
    /\ pc[t] = "token" /\ ~HasToken => overlapped[t]

\* ... which for those of the session is a REST call ...
UsesClient == \A t \in Threads : pc[t] \in InCall => op[t] \in RestOps

\* ... and only such a call crashes.
CrashInv == OverlapKnown /\ LossKnown /\ UsesClient /\ CrashOnlyWhenOverlapped

\* A thread begins a call.
LEMMA BeginKnown ==
  ASSUME CallsTyped, CrashInv, NEW t \in Threads, NEW o, NEW to, Begin(t, o, to),
         to \in {"idle", "ensure", "mark"}, to = "mark" => o = "shutdown",
         to = "ensure" => o \in RestOps, UNCHANGED <<client, session>>
  PROVE  CrashInv'
<1>1. pc'[t] = to /\ \A u \in Threads \ {t} : pc'[u] = pc[u]
  BY DEF Begin, Goto, CallsTyped
<1>2. overlapped'[t] <=> \E x \in Threads : pc[x] \in InShutdown
  BY DEF Begin
<1>3. \A u \in Threads \ {t} :
        overlapped'[u] <=> overlapped[u] \/ (o = "shutdown" /\ pc[u] # "idle")
  BY DEF Begin
<1>4. answer'[t] = "none" /\ op'[t] = o
  BY DEF Begin, CallsTyped
<1>5. \A u \in Threads \ {t} : answer'[u] = answer[u] /\ op'[u] = op[u]
  BY DEF Begin, CallsTyped
<1>6. OverlapKnown'
  <2> SUFFICES ASSUME NEW a \in Threads, NEW b \in Threads, a # b,
                      pc'[a] # "idle", pc'[b] \in InShutdown
               PROVE  overlapped'[a]
    BY DEF OverlapKnown
  <2>1. CASE a = t
    BY <1>1, <1>2, <2>1
  <2>2. CASE b = t
    BY <1>1, <1>3, <2>2 DEF InShutdown
  <2>3. CASE a # t /\ b # t
    BY <1>1, <1>3, <2>3 DEF CrashInv, OverlapKnown
  <2> QED
    BY <2>1, <2>2, <2>3
<1>7. LossKnown'
  BY <1>1, <1>3 DEF CrashInv, LossKnown, HasAuthClient, HasToken
<1>8. UsesClient'
  BY <1>1, <1>4, <1>5 DEF CrashInv, UsesClient, InCall
<1>9. CrashOnlyWhenOverlapped'
  BY <1>3, <1>4, <1>5 DEF CrashInv, CrashOnlyWhenOverlapped
<1> QED
  BY <1>6, <1>7, <1>8, <1>9 DEF CrashInv

\* A thread goes on in a call, or ends it.
LEMMA CallKnown ==
  ASSUME CallsTyped, CrashInv, NEW t \in Threads,
         UNCHANGED <<op, overlapped, session>>,
         pc[t] # "idle", pc' = [pc EXCEPT ![t] = pc'[t]],
         pc'[t] \in InShutdown => pc[t] \in InShutdown,
         pc'[t] \in InCall => pc[t] \in InCall,
         pc'[t] \in {"return", "close own"} => client' # "none",
         pc'[t] = "client" => HasAuthClient, pc'[t] = "token" => HasToken,
         client' # "none" \/ client' = client \/ pc[t] \in InShutdown,
         answer' = [answer EXCEPT ![t] = answer'[t]],
         answer'[t] = "crash" => answer[t] = "crash" \/ (overlapped[t] /\ op[t] # "state")
  PROVE  CrashInv'
<1>1. \A u \in Threads \ {t} : pc'[u] = pc[u] /\ answer'[u] = answer[u]
  BY DEF CallsTyped
<1>2. OverlapKnown'
  BY <1>1 DEF CrashInv, OverlapKnown, InShutdown
<1>3. LossKnown'
  <2> SUFFICES ASSUME NEW u \in Threads
               PROVE  /\ pc'[u] \in {"return", "close own"} /\ client' = "none" => overlapped[u]
                      /\ pc'[u] = "client" /\ ~HasAuthClient => overlapped[u]
                      /\ pc'[u] = "token" /\ ~HasToken => overlapped[u]
    BY DEF LossKnown, HasAuthClient, HasToken
  <2>1. CASE u = t
    BY <2>1
  <2>2. CASE u # t
    <3>1. pc[t] \in InShutdown /\ pc[u] # "idle" => overlapped[u]
      BY <2>2 DEF CrashInv, OverlapKnown
    <3> QED
      BY <1>1, <2>2, <3>1 DEF CrashInv, LossKnown
  <2> QED
    BY <2>1, <2>2
<1>4. UsesClient'
  BY <1>1 DEF CrashInv, UsesClient
<1>5. CrashOnlyWhenOverlapped'
  BY <1>1 DEF CrashInv, CrashOnlyWhenOverlapped
<1> QED
  BY <1>2, <1>3, <1>4, <1>5 DEF CrashInv

\* A shutdown ends in an AttributeError only if another thread was shutting the bus
\* down during it, a REST call only if another thread was doing that or closing the
\* session, and state never does.
THEOREM Crashes == Spec => []CrashOnlyWhenOverlapped
<1>1. Init => CrashInv
  BY DEF Init, CrashInv, OverlapKnown, LossKnown, UsesClient, CrashOnlyWhenOverlapped,
         InShutdown, InCall
<1>2. TypeOK /\ IdleInv /\ CrashInv /\ [Next]_vars => CrashInv'
  <2> SUFFICES ASSUME TypeOK, IdleInv, CrashInv, [Next]_vars PROVE CrashInv'
    OBVIOUS
  <2>a. CallsTyped
    BY DEF TypeOK, CallsTyped
  <2>1. CASE ConstructorStep
    <3>1. UNCHANGED callVars /\ life \notin {"up", "gone"}
      BY <2>1 DEF ConstructorStep, Refused, Construct, Adopt, ReadSession, InitParent,
         ConfigureBitrate, ReadCrypto, ReadAuthClient, GetInstance, Acquire, AcquireFails,
         Subscribe, Move, Stage
    <3>2. \A t \in Threads : pc'[t] = "idle"
      BY <3>1 DEF IdleInv, callVars
    <3>3. OverlapKnown' /\ LossKnown' /\ UsesClient'
      BY <3>2 DEF OverlapKnown, LossKnown, UsesClient, InShutdown, InCall
    <3>4. CrashOnlyWhenOverlapped'
      BY <3>1 DEF CrashInv, CrashOnlyWhenOverlapped, callVars
    <3> QED
      BY <3>3, <3>4 DEF CrashInv
  <2>2. CASE CloseSession
    <3>1. /\ UNCHANGED <<pc, op, answer, client>>
          /\ \A t \in Threads :
               overlapped'[t] <=> overlapped[t] \/ (pc[t] # "idle" /\ op[t] # "shutdown")
      BY <2>2 DEF CloseSession
    <3>2. OverlapKnown' /\ UsesClient'
      BY <3>1 DEF CrashInv, OverlapKnown, UsesClient
    <3>3. LossKnown'
      <4>1. \A t \in Threads : pc[t] \in {"client", "token"} => overlapped'[t]
        BY <3>1 DEF CrashInv, UsesClient, RestOps, InCall
      <4> QED
        BY <3>1, <4>1 DEF CrashInv, LossKnown
    <3>4. CrashOnlyWhenOverlapped'
      BY <3>1 DEF CrashInv, CrashOnlyWhenOverlapped
    <3> QED
      BY <3>2, <3>3, <3>4 DEF CrashInv
  <2>3. ASSUME NEW t \in Threads, Call(t) PROVE CrashInv'
    <3>1. PICK o \in RestOps : Begin(t, o, "ensure")
      BY <2>3 DEF Call
    <3> QED
      BY <2>3, <2>a, <3>1, BeginKnown DEF Call, busVars
  <2>4. ASSUME NEW t \in Threads, Shutdown(t) PROVE CrashInv'
    BY <2>4, <2>a, BeginKnown DEF Shutdown, busVars
  <2>5. ASSUME NEW t \in Threads, Finalize(t) PROVE CrashInv'
    <3>1. CASE flag = "none"
      BY <2>5, <3>1 DEF Finalize, callVars, CrashInv, OverlapKnown, LossKnown, UsesClient,
         CrashOnlyWhenOverlapped, HasAuthClient, HasToken
    <3>2. CASE flag # "none"
      BY <2>5, <3>2, <2>a, BeginKnown DEF Finalize
    <3> QED
      BY <3>1, <3>2
  <2>6. ASSUME NEW t \in Threads, Ensure(t) PROVE CrashInv'
    BY <2>6, <2>a, CallKnown DEF CallsTyped, InShutdown, InCall, Ensure, Goto, End, Answer
  <2>7. ASSUME NEW t \in Threads, Return(t) PROVE CrashInv'
    <3>1. client = "none" => overlapped[t]
      BY <2>7 DEF Return, CrashInv, LossKnown
    <3> QED
      BY <2>7, <2>a, <3>1, CallKnown DEF CallsTyped, InShutdown, InCall, Return, Goto,
         End, Answer, busVars
  <2>8. ASSUME NEW t \in Threads, Send(t) PROVE CrashInv'
    BY <2>8, <2>a, CallKnown DEF CallsTyped, InShutdown, InCall, Send, Reply, Goto, End,
       Answer, requestVars, busVars
  <2>9. ASSUME NEW t \in Threads, UseClient(t) PROVE CrashInv'
    <3>1. ~HasAuthClient => overlapped[t]
      BY <2>9 DEF UseClient, CrashInv, LossKnown
    <3> QED
      BY <2>9, <2>a, <3>1, CallKnown DEF CallsTyped, InShutdown, InCall, UseClient, Reply,
         Goto, End, Answer, requestVars, busVars
  <2>10. ASSUME NEW t \in Threads, UseToken(t) PROVE CrashInv'
    <3>1. ~HasToken => overlapped[t]
      BY <2>10 DEF UseToken, CrashInv, LossKnown
    <3> QED
      BY <2>10, <2>a, <3>1, CallKnown DEF CallsTyped, InShutdown, InCall, UseToken, Reply,
         Goto, End, Answer, requestVars, busVars
  <2>11. ASSUME NEW t \in Threads, Mark(t) PROVE CrashInv'
    BY <2>11, <2>a, CallKnown DEF CallsTyped, InShutdown, InCall, Mark, Goto, shutdownVars
  <2>12. ASSUME NEW t \in Threads, Unsubscribe(t) PROVE CrashInv'
    BY <2>12, <2>a, CallKnown DEF CallsTyped, InShutdown, InCall, Unsubscribe, Goto,
       shutdownVars
  <2>13. ASSUME NEW t \in Threads, Release(t) PROVE CrashInv'
    BY <2>13, <2>a, CallKnown DEF CallsTyped, InShutdown, InCall, Release, Goto,
       shutdownVars
  <2>14. ASSUME NEW t \in Threads, Close(t) PROVE CrashInv'
    BY <2>14, <2>a, CallKnown DEF CallsTyped, InShutdown, InCall, Close, Goto,
       shutdownVars
  <2>15. ASSUME NEW t \in Threads, CloseOwn(t) PROVE CrashInv'
    <3>1. client = "none" => overlapped[t]
      BY <2>15 DEF CloseOwn, CrashInv, LossKnown
    <3> QED
      BY <2>15, <2>a, <3>1, CallKnown DEF CallsTyped, InShutdown, InCall, CloseOwn, Goto,
         End, Answer, shutdownVars
  <2>16. ASSUME NEW t \in Threads, Forget(t) PROVE CrashInv'
    BY <2>16, <2>a, CallKnown DEF CallsTyped, InShutdown, InCall, Forget, End, Answer,
       shutdownVars
  <2>17. CASE Finished \/ UNCHANGED vars
    BY <2>17 DEF Finished, vars, busVars, callVars, CrashInv, OverlapKnown, LossKnown,
       UsesClient, CrashOnlyWhenOverlapped, HasAuthClient, HasToken
  <2> QED
    BY <2>1, <2>2, <2>3, <2>4, <2>5, <2>6, <2>7, <2>8, <2>9, <2>10,
       <2>11, <2>12, <2>13, <2>14, <2>15, <2>16, <2>17
       DEF Next, ThreadStep
<1>3. CrashInv => CrashOnlyWhenOverlapped
  BY DEF CrashInv
<1> QED
  BY <1>1, <1>2, <1>3, TypeCorrect, Idle, PTL DEF Spec

-----------------------------------------------------------------------------
(* The reference and the subscription. *)

\* Where a thread stands that has passed the guard of shutdown and gives the
\* reference back.
Giving == {"mark", "unsubscribe", "release"}

\* The types of the variables that say who has what.
BusTyped ==
  /\ life \in {"new", "up", "raised", "gone"} \cup Constructing
  /\ refs \in Int
  /\ pc \in [Threads -> Places]

\* Until it is up the bus has a reference only between acquire and subscribe ...
Unused ==
  life \notin {"up", "gone"} =>
    /\ refs = IF life = "subscribe" THEN 1 ELSE 0
    /\ flag # "set" /\ "queue" \notin has

\* ... a bus that was never up has none ...
Gone == life = "gone" => refs <= 0 /\ "queue" \notin has

\* ... and one that is up has its own, until a shutdown has set the flag.
Counted == life = "up" => refs <= 1 /\ (flag # "set" => refs = 1)

Unmarked == flag # "set" => \A t \in Threads : pc[t] \notin InShutdown \ {"mark"}

\* After that a thread is on its way to give it back, and to unsubscribe.
OnItsWay ==
  /\ flag = "set" /\ refs > 0 => \E t \in Threads : pc[t] \in {"unsubscribe", "release"}
  /\ flag = "set" /\ "queue" \in has => \E t \in Threads : pc[t] = "unsubscribe"

\* As long as no two threads passed the guard together it is the only one ...
Alone ==
  life = "up" /\ "raced" \notin marks =>
    /\ \A t, u \in Threads : pc[t] \in Giving /\ pc[u] \in Giving => t = u
    /\ flag = "set" => \A t \in Threads : pc[t] # "mark"

\* ... and the reference is there until it gives it back.
Owed ==
  life = "up" /\ "raced" \notin marks =>
    /\ refs >= 0
    /\ \A t \in Threads : pc[t] \in {"unsubscribe", "release"} => refs = 1

RefInv == Unused /\ Gone /\ Counted /\ Unmarked /\ OnItsWay /\ Alone /\ Owed

\* A step in which no thread comes to or leaves a place in Giving.
LEMMA Harmless ==
  ASSUME RefInv, UNCHANGED <<life, flag, has, refs>>,
         "raced" \in marks => "raced" \in marks',
         \A u \in Threads : pc'[u] \in Giving \/ pc[u] \in Giving => pc'[u] = pc[u],
         \A u \in Threads : pc'[u] \in InShutdown => pc[u] \in InShutdown
  PROVE  RefInv'
<1>1. Unused' /\ Gone' /\ Counted'
  BY DEF RefInv, Unused, Gone, Counted
<1>2. Unmarked'
  BY DEF RefInv, Unmarked, Giving, InShutdown, InCall, Places
<1>3. OnItsWay'
  <2>1. \A u \in Threads : pc[u] \in {"unsubscribe", "release"} => pc'[u] = pc[u]
    BY DEF Giving
  <2>2. OnItsWay
    BY DEF RefInv
  <2> QED
    BY <2>1, <2>2 DEF OnItsWay
<1>4. Alone'
  <2>1. \A u \in Threads : pc'[u] \in Giving => pc[u] \in Giving
    OBVIOUS
  <2>2. \A u \in Threads : pc'[u] = "mark" => pc[u] = "mark"
    BY DEF Giving
  <2>3. Alone
    BY DEF RefInv
  <2> QED
    BY <2>1, <2>2, <2>3 DEF Alone, Giving
<1>5. Owed'
  <2>1. \A u \in Threads : pc'[u] \in {"unsubscribe", "release"} => pc'[u] = pc[u]
    BY DEF Giving
  <2> QED
    BY <2>1 DEF RefInv, Owed
<1> QED
  BY <1>1, <1>2, <1>3, <1>4, <1>5 DEF RefInv

\* A step of the constructor before the bus is up, or the one after it failed.
LEMMA Early ==
  ASSUME BusTyped, IdleInv, RefInv, life \notin {"up", "gone"}, life' \notin {"up", "gone"},
         flag' # "set", "queue" \notin has', pc' = pc,
         refs' = IF life' = "subscribe" THEN 1 ELSE 0
  PROVE  RefInv'
<1>1. \A t \in Threads : pc'[t] = "idle"
  BY DEF IdleInv
<1>2. Unused' /\ Gone' /\ Counted'
  BY DEF Unused, Gone, Counted
<1>3. Unmarked'
  BY <1>1 DEF Unmarked, InShutdown, InCall, Places
<1>4. OnItsWay' /\ Alone' /\ Owed'
  BY DEF OnItsWay, Alone, Owed
<1> QED
  BY <1>2, <1>3, <1>4 DEF RefInv

LEMMA References == Spec => []RefInv
<1>1. Init => RefInv
  BY DEF Init, RefInv, Unused, Gone, Counted, Unmarked, OnItsWay, Alone, Owed, InShutdown,
     InCall, Places
<1>2. TypeOK /\ IdleInv /\ RefInv /\ [Next]_vars => RefInv'
  <2> SUFFICES ASSUME TypeOK, IdleInv, RefInv, [Next]_vars PROVE RefInv'
    OBVIOUS
  <2>a. BusTyped
    BY DEF TypeOK, BusTyped
  <2>b. life \notin {"up", "gone"} => Unused
    BY DEF RefInv
  <2>1. CASE ConstructorStep /\ ~Subscribe
    <3> USE <2>a, <2>b, Early DEF Stage, Constructing, Unused, callVars
    <3>1. CASE Refused
      BY <3>1 DEF Refused, Move
    <3>2. CASE Construct
      BY <3>2 DEF Construct
    <3>3. CASE Adopt
      BY <3>3 DEF Adopt, Move
    <3>4. CASE ReadSession
      BY <3>4 DEF ReadSession
    <3>5. CASE InitParent
      BY <3>5 DEF InitParent
    <3>6. CASE ConfigureBitrate
      BY <3>6 DEF ConfigureBitrate
    <3>7. CASE ReadCrypto
      BY <3>7 DEF ReadCrypto, ReadAuthClient
    <3>8. CASE GetInstance
      BY <3>8 DEF GetInstance
    <3>9. CASE Acquire
      BY <3>9 DEF Acquire
    <3>10. CASE AcquireFails
      BY <3>10 DEF AcquireFails, Move
    <3> QED
      BY <2>1, <3>1, <3>2, <3>3, <3>4, <3>5, <3>6, <3>7, <3>8, <3>9, <3>10
         DEF ConstructorStep
  <2>2. CASE Subscribe
    <3>1. /\ life = "subscribe" /\ life' = "up" /\ refs' = 1 /\ flag' # "set"
      BY <2>2, <2>b DEF Subscribe, Stage, Unused
    <3>2. \A t \in Threads : pc'[t] = "idle"
      BY <2>2, <3>1 DEF Subscribe, Stage, callVars, IdleInv
    <3>3. Unused' /\ Gone' /\ Counted'
      BY <3>1 DEF Unused, Gone, Counted
    <3>4. Unmarked'
      BY <3>2 DEF Unmarked, InShutdown, InCall, Places
    <3>5. OnItsWay'
      BY <3>1 DEF OnItsWay
    <3>6. Alone'
      BY <3>1, <3>2 DEF Alone, Giving
    <3>7. Owed'
      BY <3>1, <3>2 DEF Owed
    <3> QED
      BY <3>3, <3>4, <3>5, <3>6, <3>7 DEF RefInv
  <2>3. CASE CloseSession
    BY <2>3, Harmless DEF CloseSession, callVars
  <2>4. CASE Finished \/ UNCHANGED vars
    BY <2>4, Harmless DEF Finished, vars, busVars, callVars
  <2>5. ASSUME NEW t \in Threads, Call(t) PROVE RefInv'
    BY <2>5, <2>a, Harmless DEF BusTyped, Call, MayCall, Begin, Goto, busVars, RestOps,
       Giving, InShutdown, InCall, Places
  <2>6. ASSUME NEW t \in Threads, Ensure(t) PROVE RefInv'
    BY <2>6, <2>a, Harmless DEF BusTyped, Ensure, Goto, End, Giving, InShutdown, InCall,
       Places
  <2>7. ASSUME NEW t \in Threads, Return(t) PROVE RefInv'
    BY <2>7, <2>a, Harmless DEF BusTyped, Return, Goto, End, busVars, Giving, InShutdown,
       InCall, Places
  <2>8. ASSUME NEW t \in Threads, Send(t) \/ UseClient(t) \/ UseToken(t) PROVE RefInv'
    BY <2>8, <2>a, Harmless DEF BusTyped, Send, UseClient, UseToken, Reply, requestVars,
       Goto, End, busVars, Giving, InShutdown, InCall, Places
  <2>9. ASSUME NEW t \in Threads, Close(t) PROVE RefInv'
    BY <2>9, <2>a, Harmless DEF BusTyped, Close, Goto, shutdownVars, Giving, InShutdown,
       InCall, Places
  <2>10. ASSUME NEW t \in Threads, CloseOwn(t) PROVE RefInv'
    BY <2>10, <2>a, Harmless DEF BusTyped, CloseOwn, Goto, End, shutdownVars, Giving,
       InShutdown, InCall, Places
  <2>11. ASSUME NEW t \in Threads, Forget(t) PROVE RefInv'
    BY <2>11, <2>a, Harmless DEF BusTyped, Forget, End, shutdownVars, Giving, InShutdown,
       InCall, Places
  <2>12. ASSUME NEW t \in Threads, Shutdown(t) PROVE RefInv'
    <3> USE <2>12, <2>a DEF Shutdown, MayCall, Begin, Goto, BusTyped, busVars
    <3>1. CASE flag = "set"
      BY <3>1, Harmless DEF ShutDown, Giving, InShutdown, InCall, Places
    <3>2. CASE flag # "set"
      <4>1. /\ life = "up" /\ UNCHANGED <<life, flag, has, refs>>
            /\ pc[t] = "idle" /\ pc'[t] = "mark"
            /\ \A u \in Threads \ {t} : pc'[u] = pc[u]
            /\ "raced" \in marks => "raced" \in marks'
        BY <3>2 DEF ShutDown
      <4>2. "raced" \notin marks' => \A u \in Threads : pc[u] # "mark"
        BY <3>2 DEF ShutDown
      <4>3. \A u \in Threads : pc[u] \notin InShutdown \ {"mark"}
        BY <3>2 DEF RefInv, Unmarked
      <4>4. Unused' /\ Gone' /\ Counted'
        BY <4>1 DEF RefInv, Unused, Gone, Counted
      <4>5. Unmarked' /\ OnItsWay'
        BY <4>1, <4>3, <3>2 DEF Unmarked, OnItsWay
      <4>6. Alone'
        BY <4>1, <4>2, <4>3, <3>2 DEF Alone, Giving, InShutdown, InCall, Places
      <4>7. Owed'
        BY <4>1, <4>3, <3>2 DEF RefInv, Counted, Owed, InShutdown, InCall, Places
      <4> QED
        BY <4>4, <4>5, <4>6, <4>7 DEF RefInv
    <3> QED
      BY <3>1, <3>2
  <2>13. ASSUME NEW t \in Threads, Finalize(t) PROVE RefInv'
    <3>1. /\ life' = "gone" /\ refs' = 0 /\ flag' # "set" /\ "queue" \notin has'
      BY <2>13, <2>b DEF Finalize, Unused
    <3>2. \A u \in Threads : pc'[u] \in {"idle", "mark"}
      BY <2>13, <2>a DEF Finalize, IdleInv, Begin, Goto, BusTyped, callVars
    <3>3. Unused' /\ Gone' /\ Counted' /\ Alone' /\ Owed'
      BY <3>1 DEF Unused, Gone, Counted, Alone, Owed
    <3>4. Unmarked' /\ OnItsWay'
      BY <3>1, <3>2 DEF Unmarked, OnItsWay, InShutdown, InCall, Places
    <3> QED
      BY <3>3, <3>4 DEF RefInv
  <2>14. ASSUME NEW t \in Threads, Mark(t) PROVE RefInv'
    <3>1. /\ UNCHANGED <<life, has, refs, marks>> /\ flag' = "set"
          /\ pc[t] = "mark" /\ pc'[t] = IF "manager" \in has THEN "unsubscribe" ELSE "close"
          /\ \A u \in Threads \ {t} : pc'[u] = pc[u]
      BY <2>14, <2>a DEF Mark, Goto, BusTyped, shutdownVars
    <3>2. life \in {"up", "gone"}
      BY <3>1 DEF IdleInv
    <3>3. life = "up" => pc'[t] = "unsubscribe"
      BY <3>1 DEF TypeOK
    <3>4. Unused' /\ Gone' /\ Counted' /\ Unmarked'
      BY <3>1, <3>2 DEF RefInv, Unused, Gone, Counted, Unmarked
    <3>5. OnItsWay'
      BY <3>1, <3>2, <3>3, <2>a DEF RefInv, Gone, OnItsWay, BusTyped
    <3>6. ASSUME life = "up", "raced" \notin marks
          PROVE  flag # "set" /\ \A u \in Threads \ {t} : pc[u] \notin Giving
      BY <3>1, <3>6 DEF RefInv, Alone, Giving
    <3>7. Alone'
      BY <3>1, <3>6, <3>3 DEF Alone, Giving
    <3>8. Owed'
      BY <3>1, <3>6 DEF RefInv, Counted, Owed, Giving
    <3> QED
      BY <3>4, <3>5, <3>7, <3>8 DEF RefInv
  <2>15. ASSUME NEW t \in Threads, Unsubscribe(t) PROVE RefInv'
    <3>1. /\ UNCHANGED <<life, flag, refs, marks>> /\ has' = has \ {"queue"}
          /\ pc[t] = "unsubscribe" /\ pc'[t] = "release"
          /\ \A u \in Threads \ {t} : pc'[u] = pc[u]
      BY <2>15, <2>a DEF Unsubscribe, Goto, BusTyped, shutdownVars
    <3>2. Unused' /\ Gone' /\ Counted'
      BY <3>1 DEF RefInv, Unused, Gone, Counted
    <3>3. Unmarked'
      BY <3>1 DEF RefInv, Unmarked, InShutdown, InCall, Places
    <3>4. OnItsWay'
      BY <3>1 DEF OnItsWay
    <3>5. Alone'
      BY <3>1 DEF RefInv, Alone, Giving
    <3>6. Owed'
      BY <3>1 DEF RefInv, Owed
    <3> QED
      BY <3>2, <3>3, <3>4, <3>5, <3>6 DEF RefInv
  <2>16. ASSUME NEW t \in Threads, Release(t) PROVE RefInv'
    <3>1. /\ UNCHANGED <<life, flag, has, marks>> /\ refs' = refs - 1
          /\ pc[t] = "release" /\ pc'[t] = "close"
          /\ \A u \in Threads \ {t} : pc'[u] = pc[u]
      BY <2>16, <2>a DEF Release, Goto, BusTyped, shutdownVars
    <3>2. refs \in Int /\ life \in {"up", "gone"} /\ flag = "set"
      BY <3>1, <2>a DEF BusTyped, IdleInv, RefInv, Unmarked, InShutdown, InCall, Places
    <3>3. life = "up" => refs <= 1
      BY DEF RefInv, Counted
    <3>4. life = "gone" => refs <= 0
      BY DEF RefInv, Gone
    <3>5. Unused' /\ Gone' /\ Counted'
      BY <3>1, <3>2, <3>3, <3>4 DEF RefInv, Unused, Gone, Counted
    <3>6. Unmarked'
      BY <3>1, <3>2 DEF Unmarked
    <3>7. OnItsWay'
      <4>1. refs' <= 0
        BY <3>1, <3>2, <3>3, <3>4
      <4>2. \A u \in Threads : pc[u] = "unsubscribe" => pc'[u] = "unsubscribe"
        BY <3>1
      <4>3. ~(refs' > 0)
        BY <4>1, <3>1, <3>2
      <4> QED
        BY <3>1, <3>2, <4>2, <4>3 DEF RefInv, OnItsWay
    <3>8. Alone'
      BY <3>1 DEF RefInv, Alone, Giving
    <3>9. ASSUME life = "up", "raced" \notin marks
          PROVE  refs = 1 /\ \A u \in Threads \ {t} : pc[u] \notin Giving
      BY <3>1, <3>9 DEF RefInv, Alone, Owed, Giving
    <3>10. Owed'
      BY <3>1, <3>2, <3>9 DEF Owed, Giving
    <3> QED
      BY <3>5, <3>6, <3>7, <3>8, <3>10 DEF RefInv
  <2> QED
    BY <2>1, <2>2, <2>3, <2>4, <2>5, <2>6, <2>7, <2>8, <2>9, <2>10, <2>11, <2>12,
       <2>13, <2>14, <2>15, <2>16 DEF Next, ThreadStep, ConstructorStep
<1> QED
  BY <1>1, <1>2, TypeCorrect, Idle, PTL DEF Spec

\* shutdown gives no reference back twice, unless two threads pass its guard at
\* the same time or the constructor had failed (HelixBus.shutdown).
THEOREM Once == Spec => []GivenBackOnce
<1>1. TypeOK /\ RefInv => GivenBackOnce
  <2> SUFFICES ASSUME TypeOK, RefInv, refs < 0, "raced" \notin marks PROVE life = "gone"
    BY DEF GivenBackOnce
  <2>1. refs \in Int
    BY DEF TypeOK
  <2>2. life \notin {"up", "gone"} => refs >= 0
    BY DEF RefInv, Unused
  <2>3. life = "up" => refs >= 0
    BY DEF RefInv, Owed
  <2> QED
    BY <2>1, <2>2, <2>3
<1> QED
  BY <1>1, TypeCorrect, References, PTL

\* When no thread is in a shutdown and the flag is set, the bus holds no reference
\* and receives nothing, however its constructor ended (HelixBus.shutdown).
THEOREM NothingLeft == Spec => []NothingLeftBehind
<1>1. TypeOK /\ RefInv => NothingLeftBehind
  <2> SUFFICES ASSUME TypeOK, RefInv, flag = "set",
                      \A t \in Threads : pc[t] \notin InShutdown
               PROVE  refs <= 0 /\ "queue" \notin has
    BY DEF NothingLeftBehind
  <2>1. ~(refs > 0) /\ "queue" \notin has
    BY DEF RefInv, OnItsWay, InShutdown, InCall, Places
  <2>2. refs \in Int
    BY DEF TypeOK
  <2> QED
    BY <2>1, <2>2
<1> QED
  BY <1>1, TypeCorrect, References, PTL
=============================================================================
