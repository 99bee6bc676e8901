------------------------ MODULE HelixSession_proofs -------------------------
(***************************************************************************)
(* Proofs about a session, for any number of buses, of threads that close  *)
(* it, of devices and of calls.                                            *)
(***************************************************************************)
EXTENDS HelixSession, TLAPS

-----------------------------------------------------------------------------
(* The session: its constructor and close.  The buses only read its state. *)

SessionTyped ==
  /\ life \in {"start", "login", "open", "failed"}
  /\ {token, authClient, sessionClient, valid, lost} \subseteq BOOLEAN
  /\ cpc \in [Closers -> {"idle", "done", "crash"} \cup InClose]

\* The device that the session was negotiated with has passed the pin, and it
\* is the one that the password was encrypted for.
PinInv ==
  /\ life = "start" => device = NONE /\ credentials = NONE
  /\ pin # NONE => device \in {NONE, pin}
  /\ credentials \in {NONE, device}

\* Nobody closes a session that is not open.
ClosedFromOpen == life # "open" => \A k \in Closers : cpc[k] = "idle"

\* A thread that is past the logout leaves no session on the device behind.
LoggedOut ==
  \A k \in Closers : cpc[k] \in {"forget", "drop", "release"} => ~valid \/ lost

SessionInv ==
  /\ SessionTyped /\ PinInv /\ ClosedFromOpen /\ LoggedOut
  /\ LoginAccounted /\ SessionOutlivesBuses

\* What a bus does.
BusStep(b) ==
  \/ NewBus(b) \/ Adopt(b) \/ Shutdown(b) \/ ContinueCall(b)
  \/ \E o \in Ops : Call(b, o)

\* No step of a bus, or of another client, changes the state of the session.
LEMMA BusesOnlyRead ==
  ASSUME (\E b \in Buses : BusStep(b)) \/ (\E c \in Configs : OtherClient(c))
  PROVE  UNCHANGED <<token, authClient, sessionClient, valid, lost, cpc, loginVars>>
<1>1. ASSUME NEW b \in Buses, NewBus(b) \/ Adopt(b) \/ Shutdown(b)
      PROVE  UNCHANGED busStep
  BY <1>1 DEF NewBus, Adopt, Shutdown
<1>2. ASSUME NEW b \in Buses, NEW o \in Ops, Call(b, o) PROVE UNCHANGED busStep
  BY <1>2 DEF Call
<1>3. ASSUME NEW b \in Buses, ContinueCall(b) PROVE UNCHANGED busStep
  BY <1>3 DEF ContinueCall, Route, ReadClient, CheckToken, ReadToken, GetAnswered,
              GetFails, PostApplied, PostFails, requestVars, ensureVars
<1>4. ASSUME NEW c \in Configs, OtherClient(c) PROVE UNCHANGED busStep
  BY <1>4 DEF OtherClient
<1> QED BY <1>1, <1>2, <1>3, <1>4 DEF BusStep, busStep, clientVars

\* Every step of the session and the device keeps the invariant of the session.
LEMMA SessionStep == SessionInv /\ [Next]_vars => SessionInv'
<1> SUFFICES ASSUME SessionInv, [Next]_vars PROVE SessionInv'
  OBVIOUS
<1> USE DEF SessionInv, SessionTyped, PinInv, ClosedFromOpen, LoggedOut, LoginAccounted,
            SessionOutlivesBuses, InClose
<1>0. ASSUME UNCHANGED <<token, authClient, sessionClient, valid, lost, cpc, loginVars>>
      PROVE  SessionInv'
  BY <1>0 DEF loginVars
<1>1. ASSUME NEW d \in Devices, FetchKey(d) PROVE SessionInv'
  BY <1>1 DEF FetchKey, PinAccepts, clientVars
<1>2. CASE FetchKeyFails
  BY <1>2 DEF FetchKeyFails, clientVars
<1>3. CASE Login
  BY <1>3 DEF Login
<1>4. CASE LoginFails
  <2>1. UNCHANGED <<pin, device, cpc, token, authClient, sessionClient>>
    BY <1>4 DEF LoginFails, clientVars
  <2>2. CASE valid' = TRUE /\ lost' = TRUE
    BY <1>4, <2>1, <2>2 DEF LoginFails
  <2>3. CASE UNCHANGED <<valid, lost>>
    BY <1>4, <2>1, <2>3 DEF LoginFails
  <2> QED BY <1>4, <2>2, <2>3 DEF LoginFails
<1>5. ASSUME NEW k \in Closers, Close(k) PROVE SessionInv'
  BY <1>5 DEF Close, CloseStep, clientVars, loginVars
<1>6. ASSUME NEW k \in Closers, EnterClose(k) PROVE SessionInv'
  BY <1>6 DEF EnterClose, CloseStep, clientVars, loginVars
<1>7. ASSUME NEW k \in Closers, Logout(k) PROVE SessionInv'
  BY <1>7 DEF Logout, CloseStep, clientVars, loginVars
<1>8. ASSUME NEW k \in Closers, Forget(k) PROVE SessionInv'
  BY <1>8 DEF Forget, CloseStep, loginVars
<1>9. ASSUME NEW k \in Closers, DropAuthClient(k) PROVE SessionInv'
  BY <1>9 DEF DropAuthClient, CloseStep, loginVars
<1>10. ASSUME NEW k \in Closers, ReleaseClient(k) PROVE SessionInv'
  BY <1>10 DEF ReleaseClient, CloseStep, loginVars
<1>11. CASE Expire
  BY <1>11 DEF Expire, clientVars, loginVars
<1>12. CASE Finished \/ UNCHANGED vars
  BY <1>12, <1>0 DEF Finished, vars, loginVars
<1>13. CASE (\E b \in Buses : BusStep(b)) \/ (\E c \in Configs : OtherClient(c))
  BY <1>13, <1>0, BusesOnlyRead
<1>14. CASE Construct
  BY <1>14, <1>1, <1>2, <1>3, <1>4 DEF Construct
<1>15. CASE \E k \in Closers : Close(k) \/ ContinueClose(k)
  BY <1>15, <1>5, <1>6, <1>7, <1>8, <1>9, <1>10 DEF ContinueClose
<1> HIDE DEF SessionInv, SessionTyped, PinInv, ClosedFromOpen, LoggedOut, LoginAccounted,
             SessionOutlivesBuses, InClose
<1> QED
  BY <1>11, <1>12, <1>13, <1>14, <1>15 DEF Next, BusStep

\* The invariant of the session holds at first.
LEMMA SessionInit == ASSUME Init PROVE SessionInv
<1>1. SessionTyped
  BY DEF Init, SessionTyped
<1>2. PinInv
  BY DEF Init, PinInv
<1>3. ClosedFromOpen /\ LoggedOut
  BY DEF Init, ClosedFromOpen, LoggedOut
<1>4. LoginAccounted /\ SessionOutlivesBuses
  BY DEF Init, LoginAccounted, SessionOutlivesBuses
<1> QED BY <1>1, <1>2, <1>3, <1>4 DEF SessionInv

\* And so it holds for ever.
LEMMA SessionInvariant == Spec => []SessionInv
<1>1. Init => SessionInv
  BY SessionInit
<1> QED BY <1>1, SessionStep, PTL DEF Spec

\* With a fingerprint given, the password is encrypted for no other device.
THEOREM Pinned == Spec => []PinRespected
<1>1. SessionInv => PinRespected
  BY DEF SessionInv, PinInv, PinRespected
<1> QED BY <1>1, SessionInvariant, PTL

\* The library leaves no session behind on the device, however many threads
\* close the session at once, unless a request was lost.
THEOREM Accounted == Spec => []LoginAccounted
<1>1. SessionInv => LoginAccounted
  BY DEF SessionInv
<1> QED BY <1>1, SessionInvariant, PTL

\* Whatever the buses do, the session stays open until somebody closes it.
THEOREM Outlives == Spec => []SessionOutlivesBuses
<1>1. SessionInv => SessionOutlivesBuses
  BY DEF SessionInv
<1> QED BY <1>1, SessionInvariant, PTL

-----------------------------------------------------------------------------
(* The buses and the device. *)

\* The types of the variables that a bus or the device changes.
BusTyped ==
  /\ busClient \in [Buses -> BOOLEAN]
  /\ pc \in [Buses -> {"unborn", "adopt", "idle", "route", "client", "check", "token",
                       "send"}]
  /\ op \in [Buses -> Ops \cup {NONE}]
  /\ phase \in [Buses -> {"get", "post"}]
  /\ mode \in [Buses -> {"plain", "bare", "token"}]
  /\ current \in [Buses -> Configs \cup {NONE}]
  /\ calls \in [Buses -> 0..MaxCalls]
  /\ config \in Configs
  /\ others \in 0..MaxOthers
  /\ undisturbed \in [Buses -> BOOLEAN]
  /\ overlapped \in [Buses -> BOOLEAN]

\* A bus has a call while it is in one, and only set_bitrate makes two requests.
CallKept ==
  \A b \in Buses :
    IF InCall(b) THEN /\ op[b] \in Ops
                      /\ phase[b] = "post" => op[b].kind = "set"
    ELSE op[b] = NONE /\ phase[b] = "get"

\* What set_bitrate writes is a configuration.
LEMMA MergedType ==
  ASSUME BusTyped, CallKept, NEW b \in Buses, pc[b] = "send", phase[b] = "post"
  PROVE  Merged(b) \in Configs
<1>1. op[b] \in Ops /\ op[b].kind = "set"
  BY DEF CallKept, InCall
<1>2. op[b].baud \in Bauds /\ op[b].point \in Points \cup {NONE}
  BY <1>1 DEF Ops, ReadOps, TicketOps, SetOps
<1>3. current[b] \in Configs \cup {NONE}
  BY DEF BusTyped
<1>4. current[b] # NONE => current[b].point \in Points
  BY <1>3 DEF Configs
<1> QED BY <1>2, <1>4, SessionAssumption DEF Merged, Configs

\* A thread past the test of a field either still finds it set or is in a call
\* that a close has overlapped; and every call that a close meets is marked so.
Watched ==
  \A b \in Buses :
    /\ pc[b] = "client" => authClient \/ overlapped[b]
    /\ pc[b] = "token" => token \/ overlapped[b]
    /\ InCall(b) /\ (\E k \in Closers : cpc[k] \in InClose) => overlapped[b]

\* Undisturbed, set_bitrate has the present configuration in hand.
Fresh ==
  \A b \in Buses :
    undisturbed[b] => phase[b] = "post" /\ current[b] # NONE /\ current[b] = config

\* A step inside a call keeps the types, whether the request goes out or not.
LEMMA GotoTyped ==
  ASSUME BusTyped, CallKept, NEW b \in Buses, InCall(b),
         NEW to \in {"client", "check", "token", "send"}, Goto(b, to),
         mode' \in [Buses -> {"plain", "bare", "token"}], UNCHANGED requestVars
  PROVE  BusTyped' /\ CallKept'
<1>1. UNCHANGED <<op, phase, current, undisturbed, overlapped, calls, busClient, config,
                  others>>
  BY DEF requestVars, ensureVars
<1>2. BusTyped'
  BY <1>1 DEF BusTyped, Goto
<1>3. CallKept'
  BY <1>1 DEF BusTyped, CallKept, InCall, Goto
<1> QED BY <1>2, <1>3

\* So does the end of a call.
LEMMA ReturnTyped ==
  ASSUME BusTyped, CallKept, NEW b \in Buses, Return(b), config' \in Configs,
         undisturbed' \in [Buses -> BOOLEAN], UNCHANGED <<calls, busClient, others>>
  PROVE  BusTyped' /\ CallKept'
<1>1. BusTyped'
  BY DEF BusTyped, Return, Goto
<1>2. CallKept'
  BY DEF BusTyped, CallKept, InCall, Return, Goto
<1> QED BY <1>1, <1>2

\* And the step from the first request of set_bitrate to the second.
LEMMA GoOnTyped ==
  ASSUME BusTyped, CallKept, NEW b \in Buses, InCall(b), op[b].kind = "set",
         NEW read \in Configs \cup {NONE}, GoOn(b, read), UNCHANGED ensureVars
  PROVE  BusTyped' /\ CallKept'
<1>1. UNCHANGED <<calls, busClient, config, others>>
  BY DEF ensureVars
<1>2. BusTyped'
  BY <1>1 DEF BusTyped, GoOn, Goto
<1>3. CallKept'
  BY <1>1 DEF BusTyped, CallKept, InCall, GoOn, Goto
<1> QED BY <1>2, <1>3

\* Every step keeps the types of what buses and device change.
LEMMA TypedStep ==
  SessionTyped /\ BusTyped /\ CallKept /\ [Next]_vars => BusTyped' /\ CallKept'
<1> SUFFICES ASSUME SessionTyped, BusTyped, CallKept, [Next]_vars
             PROVE  BusTyped' /\ CallKept'
  OBVIOUS
<1>0. ASSUME UNCHANGED <<busClient, overlapped, deviceVars, callVars>>
      PROVE  BusTyped' /\ CallKept'
  BY <1>0 DEF BusTyped, CallKept, InCall, deviceVars, callVars
<1>1. CASE Construct \/ Expire \/ Finished \/ UNCHANGED vars
  BY <1>1, <1>0 DEF Construct, FetchKey, FetchKeyFails, Login, LoginFails, Expire,
                    Finished, vars, deviceVars, callVars
<1>2. ASSUME NEW k \in Closers, Close(k) PROVE BusTyped' /\ CallKept'
  <2>1. overlapped' \in [Buses -> BOOLEAN]
    BY <1>2 DEF Close, BusTyped
  <2> QED
    BY <1>2, <2>1 DEF Close, CloseStep, BusTyped, CallKept, InCall, deviceVars, callVars
<1>3. ASSUME NEW k \in Closers, ContinueClose(k) PROVE BusTyped' /\ CallKept'
  BY <1>3, <1>0 DEF ContinueClose, EnterClose, Logout, Forget, DropAuthClient,
                    ReleaseClient, CloseStep
<1>4. ASSUME NEW b \in Buses, NewBus(b) \/ Adopt(b) \/ Shutdown(b)
      PROVE  BusTyped' /\ CallKept'
  <2>1. /\ pc' \in [Buses -> {"unborn", "adopt", "idle", "route", "client", "check",
                              "token", "send"}]
        /\ \A x \in Buses : InCall(x)' = InCall(x)
    BY <1>4 DEF NewBus, Adopt, Shutdown, BusTyped, InCall, callVars
  <2>2. sessionClient \in BOOLEAN
    BY DEF SessionTyped
  <2>3. busClient' \in [Buses -> BOOLEAN]
    BY <1>4, <2>2 DEF NewBus, Adopt, Shutdown, BusTyped
  <2>4. UNCHANGED <<op, phase, mode, current, calls, config, others, undisturbed,
                    overlapped>>
    BY <1>4 DEF NewBus, Adopt, Shutdown, deviceVars, callVars
  <2> QED BY <2>1, <2>3, <2>4 DEF BusTyped, CallKept
<1>5. ASSUME NEW b \in Buses, NEW o \in Ops, Call(b, o) PROVE BusTyped' /\ CallKept'
  BY <1>5, SessionAssumption DEF Call, BusTyped, CallKept, InCall, deviceVars
<1>r. ASSUME NEW b \in Buses, Raise(b), UNCHANGED ensureVars
      PROVE  BusTyped' /\ CallKept'
  <2>1. config' \in Configs /\ UNCHANGED <<calls, busClient, others>>
    BY <1>r DEF ensureVars, BusTyped
  <2>2. Return(b) /\ undisturbed' \in [Buses -> BOOLEAN]
    BY <1>r DEF Raise, BusTyped
  <2> QED BY <2>1, <2>2, ReturnTyped
<1>6. ASSUME NEW b \in Buses, Route(b) \/ ReadClient(b) \/ CheckToken(b) \/ ReadToken(b)
      PROVE  BusTyped' /\ CallKept'
  <2>1. InCall(b)
    BY <1>6 DEF InCall, Route, ReadClient, CheckToken, ReadToken
  <2>2. CASE Raise(b) /\ UNCHANGED ensureVars
    BY <2>2, <1>r
  <2>3. CASE ~(Raise(b) /\ UNCHANGED ensureVars)
    <3>1. PICK to \in {"client", "check", "token", "send"} : Goto(b, to)
      BY <1>6, <2>3 DEF Route, ReadClient, CheckToken, ReadToken, Emit
    <3>2. mode' \in [Buses -> {"plain", "bare", "token"}]
      BY <1>6, <2>3 DEF Route, ReadClient, CheckToken, ReadToken, Emit, BusTyped
    <3>3. UNCHANGED requestVars
      BY <1>6, <2>3 DEF Route, ReadClient, CheckToken, ReadToken
    <3> QED BY <2>1, <3>1, <3>2, <3>3, GotoTyped
  <2> QED BY <2>2, <2>3
<1>7. ASSUME NEW b \in Buses, GetAnswered(b) \/ GetFails(b) PROVE BusTyped' /\ CallKept'
  <2>1. InCall(b) /\ UNCHANGED ensureVars
    BY <1>7 DEF InCall, GetAnswered, GetFails
  <2>2. CASE Raise(b)
    BY <2>1, <2>2, <1>r
  <2>3. CASE Return(b) /\ UNCHANGED undisturbed
    <3>1. config' \in Configs /\ UNCHANGED <<calls, busClient, others>>
      BY <2>1 DEF ensureVars, BusTyped
    <3> QED BY <2>3, <3>1, ReturnTyped DEF BusTyped
  <2>4. CASE op[b].kind = "set" /\ (GoOn(b, config) \/ GoOn(b, NONE))
    BY <2>1, <2>4, GoOnTyped DEF BusTyped
  <2> QED BY <1>7, <2>2, <2>3, <2>4 DEF GetAnswered, GetFails
<1>8. ASSUME NEW b \in Buses, PostApplied(b) \/ PostFails(b) PROVE BusTyped' /\ CallKept'
  <2>1. CASE PostFails(b)
    BY <2>1, <1>r DEF PostFails
  <2>2. CASE PostApplied(b)
    <3>1. config' \in Configs
      BY <2>2, MergedType DEF PostApplied
    <3>2. Return(b) /\ undisturbed' \in [Buses -> BOOLEAN]
      BY <2>2 DEF PostApplied
    <3>3. UNCHANGED <<calls, busClient, others>>
      BY <2>2 DEF PostApplied
    <3> QED BY <3>1, <3>2, <3>3, ReturnTyped
  <2> QED BY <1>8, <2>1, <2>2
<1>9. ASSUME NEW c \in Configs, OtherClient(c) PROVE BusTyped' /\ CallKept'
  BY <1>9, SessionAssumption DEF OtherClient, BusTyped, CallKept, InCall, callVars
<1> QED
  BY <1>1, <1>2, <1>3, <1>4, <1>5, <1>6, <1>7, <1>8, <1>9 DEF Next, ContinueCall

\* The conjuncts of TypeOK, put together again.
SessionAndBuses ==
  /\ SessionInv /\ BusTyped /\ CallKept
  /\ pin \in Devices \cup {NONE}
  /\ device \in Devices \cup {NONE}
  /\ credentials \in Devices \cup {NONE}

\* Session and types together are inductive: a bus takes over what the session has.
LEMMA TypesInvariant == Spec => []SessionAndBuses
<1>1. ASSUME Init PROVE BusTyped /\ CallKept
  BY <1>1, SessionAssumption DEF Init, BusTyped, CallKept, InCall
<1>2. ASSUME Init
      PROVE  /\ pin \in Devices \cup {NONE}
             /\ device \in Devices \cup {NONE}
             /\ credentials \in Devices \cup {NONE}
  BY <1>2 DEF Init
<1>3. ASSUME SessionAndBuses, [Next]_vars
      PROVE  /\ pin' \in Devices \cup {NONE}
             /\ device' \in Devices \cup {NONE}
             /\ credentials' \in Devices \cup {NONE}
  <2> USE DEF SessionAndBuses
  <2>1. CASE \E d \in Devices : FetchKey(d)
    BY <1>3, <2>1 DEF FetchKey
  <2>2. CASE FetchKeyFails \/ Login \/ LoginFails
    BY <1>3, <2>2 DEF FetchKeyFails, Login, LoginFails
  <2>3. CASE UNCHANGED loginVars
    BY <1>3, <2>3 DEF loginVars
  <2>4. CASE Expire \/ Finished \/ UNCHANGED vars
    BY <2>4, <2>3 DEF Expire, Finished, vars, loginVars
  <2>5. CASE \E k \in Closers : Close(k) \/ ContinueClose(k)
    BY <2>5, <2>3 DEF Close, ContinueClose, EnterClose, Logout, Forget, DropAuthClient,
                      ReleaseClient, CloseStep
  <2>6. CASE (\E b \in Buses : BusStep(b)) \/ (\E c \in Configs : OtherClient(c))
    BY <2>6, <2>3, BusesOnlyRead
  <2> QED
    BY <1>3, <2>1, <2>2, <2>4, <2>5, <2>6 DEF Next, Construct, BusStep
<1>4. SessionAndBuses /\ [Next]_vars => SessionAndBuses'
  BY <1>3, SessionStep, TypedStep DEF SessionAndBuses, SessionInv
<1>5. Init => SessionInv
  BY SessionInit
<1>6. Init => SessionAndBuses
  BY <1>1, <1>2, <1>5 DEF SessionAndBuses
<1> QED BY <1>4, <1>6, PTL DEF Spec

\* The variables keep their types; a thread in a call has one, and only
\* set_bitrate makes a second request.
THEOREM TypeCorrect == Spec => []TypeOK
<1>1. SessionAndBuses => TypeOK
  BY DEF SessionAndBuses, SessionInv, SessionTyped, BusTyped, CallKept, TypeOK
<1> QED BY <1>1, TypesInvariant, PTL

\* Every step keeps the marks on the calls that a close meets.
LEMMA WatchedStep == SessionAndBuses /\ Watched /\ [Next]_vars => Watched'
<1> SUFFICES ASSUME SessionTyped, BusTyped, Watched, [Next]_vars PROVE Watched'
  BY DEF SessionAndBuses, SessionInv
<1>0. ASSUME UNCHANGED <<token, authClient, cpc, pc, overlapped>> PROVE Watched'
  BY <1>0 DEF Watched, InCall
<1>1. CASE Expire \/ Finished \/ UNCHANGED vars \/ \E c \in Configs : OtherClient(c)
  BY <1>1, <1>0 DEF Expire, Finished, vars, OtherClient, busStep, clientVars, callVars
<1>2. CASE Construct
  BY <1>2 DEF Construct, FetchKey, FetchKeyFails, Login, LoginFails, Watched, InCall,
              clientVars, callVars
<1>3. ASSUME NEW k \in Closers, Close(k) PROVE Watched'
  <2>1. UNCHANGED <<token, authClient, pc>>
    BY <1>3 DEF Close, CloseStep, clientVars, callVars
  <2>2. \A b \in Buses : InCall(b) /\ sessionClient => overlapped'[b]
    BY <1>3 DEF Close
  <2>3. \A b \in Buses : overlapped[b] => overlapped'[b]
    BY <1>3 DEF Close
  <2>4. ~sessionClient => \A x \in Closers : cpc'[x] \in InClose => cpc[x] \in InClose
    BY <1>3 DEF Close, CloseStep, SessionTyped, InClose
  <2> QED BY <2>1, <2>2, <2>3, <2>4 DEF Watched, InCall
<1>4. ASSUME NEW k \in Closers, ContinueClose(k) PROVE Watched'
  <2>1. UNCHANGED <<pc, overlapped>>
    BY <1>4 DEF ContinueClose, EnterClose, Logout, Forget, DropAuthClient, ReleaseClient,
                CloseStep, callVars
  <2>2. cpc[k] \in InClose
    BY <1>4 DEF ContinueClose, EnterClose, Logout, Forget, DropAuthClient, ReleaseClient,
                CloseStep, InClose
  <2>3. \A b \in Buses : InCall(b) => overlapped[b]
    BY <2>2 DEF Watched
  <2> QED BY <2>1, <2>3 DEF Watched, InCall
<1>5. ASSUME NEW b \in Buses, BusStep(b) PROVE Watched'
  <2>1. UNCHANGED <<token, authClient, cpc>>
    BY <1>5, BusesOnlyRead
  <2>2. CASE NewBus(b) \/ Adopt(b) \/ Shutdown(b)
    BY <2>1, <2>2 DEF NewBus, Adopt, Shutdown, Watched, InCall, BusTyped, callVars
  <2>3. CASE \E o \in Ops : Call(b, o)
    BY <2>1, <2>3 DEF Call, Watched, InCall, BusTyped
  <2>4. CASE Return(b)
    BY <2>1, <2>4 DEF Return, Goto, Watched, InCall, BusTyped
  <2>5. ASSUME Goto(b, pc'[b]), InCall(b), UNCHANGED overlapped,
               pc'[b] = "client" => authClient, pc'[b] = "token" => token
        PROVE  Watched'
    BY <2>1, <2>5 DEF Goto, Watched, InCall, BusTyped
  <2>6. CASE Route(b) \/ ReadClient(b) \/ CheckToken(b) \/ ReadToken(b)
    BY <2>4, <2>5, <2>6 DEF Route, ReadClient, CheckToken, ReadToken, Raise, Emit, Goto,
                            InCall, requestVars, BusTyped
  <2>7. CASE GetAnswered(b) \/ GetFails(b)
    BY <2>4, <2>5, <2>7 DEF GetAnswered, GetFails, GoOn, Raise, Goto, InCall, BusTyped
  <2>8. CASE PostApplied(b) \/ PostFails(b)
    BY <2>4, <2>8 DEF PostApplied, PostFails, Raise
  <2> QED
    BY <1>5, <2>2, <2>3, <2>6, <2>7, <2>8 DEF BusStep, ContinueCall
<1> QED
  BY <1>1, <1>2, <1>3, <1>4, <1>5 DEF Next, BusStep

\* Every step keeps what an undisturbed set_bitrate has read up to date.
LEMMA FreshStep == SessionAndBuses /\ Fresh /\ [Next]_vars => Fresh'
<1> SUFFICES ASSUME BusTyped, CallKept, Fresh, [Next]_vars PROVE Fresh'
  BY DEF SessionAndBuses
<1>0. ASSUME UNCHANGED <<phase, current, config, undisturbed>> PROVE Fresh'
  BY <1>0 DEF Fresh
<1>1. CASE Construct \/ Expire \/ Finished \/ UNCHANGED vars
  BY <1>1, <1>0 DEF Construct, FetchKey, FetchKeyFails, Login, LoginFails, Expire,
                    Finished, vars, deviceVars, callVars
<1>2. CASE \E k \in Closers : Close(k) \/ ContinueClose(k)
  BY <1>2, <1>0 DEF Close, ContinueClose, EnterClose, Logout, Forget, DropAuthClient,
                    ReleaseClient, CloseStep, deviceVars, callVars
<1>3. CASE \E c \in Configs : OtherClient(c)
  BY <1>3 DEF OtherClient, Fresh
<1>4. ASSUME NEW b \in Buses, BusStep(b) PROVE Fresh'
  <2>1. CASE NewBus(b) \/ Adopt(b) \/ Shutdown(b) \/ \E o \in Ops : Call(b, o)
    BY <1>0, <2>1 DEF NewBus, Adopt, Shutdown, Call, deviceVars, callVars
  <2>2. CASE Raise(b) /\ UNCHANGED ensureVars
    BY <2>2 DEF Raise, Return, ensureVars, Fresh, BusTyped
  <2>3. CASE Route(b) \/ ReadClient(b) \/ CheckToken(b) \/ ReadToken(b)
    BY <1>0, <2>2, <2>3 DEF Route, ReadClient, CheckToken, ReadToken, requestVars,
                            ensureVars
  <2>4. CASE GetAnswered(b) \/ GetFails(b)
    <3>1. UNCHANGED ensureVars /\ phase[b] = "get"
      BY <2>4 DEF GetAnswered, GetFails
    <3>2. CASE Return(b) /\ UNCHANGED undisturbed
      BY <3>1, <3>2 DEF Return, ensureVars, Fresh, BusTyped
    <3>3. CASE GoOn(b, config) \/ GoOn(b, NONE)
      BY <3>1, <3>3 DEF GoOn, ensureVars, Fresh, BusTyped
    <3> QED BY <2>4, <2>2, <3>1, <3>2, <3>3 DEF GetAnswered, GetFails
  <2>5. CASE PostApplied(b)
    BY <2>5 DEF PostApplied, Fresh
  <2>6. CASE PostFails(b)
    BY <2>6, <2>2 DEF PostFails
  <2> QED BY <1>4, <2>1, <2>3, <2>4, <2>5, <2>6 DEF BusStep, ContinueCall
<1> QED
  BY <1>1, <1>2, <1>3, <1>4 DEF Next, BusStep

CallInv == SessionAndBuses /\ Watched /\ Fresh

\* With the two facts about calls, on which the action properties rest.
LEMMA CallInvariant == Spec => []CallInv
<1>1. Init => Watched /\ Fresh
  BY DEF Init, Watched, Fresh, InCall
<1>2. SessionAndBuses /\ Watched /\ Fresh /\ [Next]_vars => Watched' /\ Fresh'
  BY WatchedStep, FreshStep
<1> QED BY <1>1, <1>2, TypesInvariant, PTL DEF Spec, CallInv

\* Only a bus moves the thread of a bus.
LEMMA BusMoves == [Next]_vars /\ pc' # pc => \E b \in Buses : BusStep(b)
BY DEF Next, BusStep, Construct, FetchKey, FetchKeyFails, Login, LoginFails, Expire,
       Finished, vars, Close, ContinueClose, EnterClose, Logout, Forget, DropAuthClient,
       ReleaseClient, CloseStep, OtherClient, callVars

\* An AttributeError comes out of a REST call only if the session was being
\* closed during that call, for any number of calls and closing threads.
THEOREM Crashes == Spec => CrashOnlyWhileClosing
<1>1. ASSUME CallInv, [Next]_vars, NEW b \in Buses,
             pc[b] \in {"client", "token"}, pc'[b] = "idle"
      PROVE  overlapped[b]
  <2> USE DEF CallInv, SessionAndBuses
  <2>1. (ReadClient(b) /\ ~authClient) \/ (ReadToken(b) /\ ~token)
    <3>1. pc' # pc
      BY <1>1
    <3>2. PICK x \in Buses : BusStep(x)
      BY <1>1, <3>1, BusMoves
    <3>3. x = b
      BY <1>1, <3>2 DEF BusStep, ContinueCall, NewBus, Adopt, Shutdown, Call, Route,
         ReadClient, CheckToken, ReadToken, GetAnswered, GetFails, PostApplied, PostFails,
         Raise, Return, GoOn, Emit, Goto, BusTyped, callVars
    <3>4. CASE ContinueCall(b)
      <4>1. ReadClient(b) \/ ReadToken(b)
        BY <1>1, <3>4 DEF ContinueCall, Route, ReadClient, CheckToken, ReadToken,
           GetAnswered, GetFails, PostApplied, PostFails
      <4>2. \A to : Goto(b, to) => pc'[b] = to
        BY <1>1 DEF Goto, BusTyped
      <4>3. ~(authClient /\ ReadClient(b))
        BY <1>1, <4>2 DEF ReadClient
      <4>4. ~(token /\ ReadToken(b))
        BY <1>1, <4>2 DEF ReadToken, Emit
      <4> QED BY <4>1, <4>3, <4>4
    <3>5. CASE ~ContinueCall(b)
      BY <1>1, <3>2, <3>3, <3>5 DEF BusStep, NewBus, Adopt, Shutdown, Call, BusTyped,
         callVars
    <3> QED BY <3>4, <3>5
  <2> QED BY <1>1, <2>1 DEF Watched, ReadClient, ReadToken
<1>2. CallInv /\ [Next]_vars =>
        [\A b \in Buses :
           pc[b] \in {"client", "token"} /\ pc'[b] = "idle" => overlapped[b]]_vars
  BY <1>1
<1> QED BY <1>2, CallInvariant, PTL DEF Spec, CrashOnlyWhileClosing

\* set_bitrate keeps a timing parameter that it was not given, if it could read the
\* state and nobody wrote it meanwhile, for any values and number of clients.
THEOREM Merges == Spec => TimingKept
<1>1. ASSUME CallInv, [Next]_vars, NEW b \in Buses, pc[b] = "send", phase[b] = "post",
             pc'[b] = "idle", undisturbed[b], op[b].point = NONE
      PROVE  config'.point = config.point
  <2> USE DEF CallInv, SessionAndBuses
  <2>1. PostApplied(b) \/ UNCHANGED config
    <3>1. pc' # pc
      BY <1>1
    <3>2. PICK x \in Buses : BusStep(x)
      BY <1>1, <3>1, BusMoves
    <3>3. CASE PostApplied(x)
      BY <1>1, <3>3 DEF PostApplied, Return, Goto, BusTyped
    <3>4. CASE ~PostApplied(x)
      BY <3>2, <3>4 DEF BusStep, ContinueCall, NewBus, Adopt, Shutdown, Call, Route,
         ReadClient, CheckToken, ReadToken, GetAnswered, GetFails, PostFails, requestVars,
         ensureVars, deviceVars
    <3> QED BY <3>3, <3>4
  <2>2. CASE PostApplied(b)
    <3>1. current[b] # NONE /\ current[b] = config
      BY <1>1 DEF Fresh
    <3>2. Merged(b).point = current[b].point
      BY <1>1, <3>1 DEF Merged
    <3> QED BY <2>2, <3>1, <3>2 DEF PostApplied
  <2> QED BY <2>1, <2>2
<1>2. CallInv /\ [Next]_vars =>
        [\A b \in Buses :
           /\ pc[b] = "send" /\ phase[b] = "post" /\ pc'[b] = "idle"
           /\ undisturbed[b] /\ op[b].point = NONE
           => config'.point = config.point]_vars
  BY <1>1
<1> QED BY <1>2, CallInvariant, PTL DEF Spec, TimingKept
=============================================================================
