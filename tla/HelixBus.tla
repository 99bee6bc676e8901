------------------------------ MODULE HelixBus ------------------------------
(***************************************************************************)
(* The life of one HelixBus: its constructor, the REST calls and shutdowns *)
(* that several threads make on it, and the HelixSession that another      *)
(* thread may close meanwhile (class HelixBus of can_helix/bus.py).        *)
(*                                                                         *)
(* No lock protects the fields of a bus: every read of one that another    *)
(* thread may change is a step of its own.  What the connection manager    *)
(* and the session do inside a call is in HelixConnection and HelixSession.*)
(***************************************************************************)
EXTENDS Integers

CONSTANTS
  Threads,   \* the threads that use the bus
  MaxCalls   \* bound: calls that a thread makes

ASSUME BusAssumption == MaxCalls \in Nat

VARIABLES
  life,        \* where the constructor stands, or what became of it
  session,     \* the HelixSession of the bus, which close takes from "open" over
               \* "logged out" and "closing" to "closed"; "none" without one
  flag,        \* _shutdown_flag, "none" before it exists
  client,      \* _rest_client: that of the session, an own one or None
  has,         \* what the bus has got so far, see Assets
  refs,        \* references of this bus that its manager counts
  pc,          \* where a thread stands in a call
  op,          \* its present or latest call
  answer,      \* how its latest call ended; "crash" is an AttributeError
  calls,       \* the number of its calls
  overlapped,  \* history: another thread shut the bus down, or closed the
               \* session, during it
  marks        \* history, see Marks

busVars == <<life, session, flag, client, has, refs>>
callVars == <<pc, op, answer, calls, overlapped>>
vars == <<busVars, callVars, marks>>

\* The session's crypto session to ask for a manager with, _connection_manager, and
\* the subscription of the receive queue.
Assets == {"crypto", "manager", "queue"}

\* "raced": a thread passed the guard of shutdown while another was between guard
\* and flag; "disturbed": the session was being closed during the constructor.
Marks == {"raced", "disturbed"}

Constructing == {"adopt", "read", "parent", "bitrate", "check", "checked", "use",
                 "used", "instance", "acquire", "subscribe"}

InShutdown == {"mark", "unsubscribe", "release", "close", "close own", "forget"}

\* Where a thread stands: in no call, in a REST call or in a shutdown.
InCall == {"ensure", "return", "send", "client", "token"}
Places == {"idle"} \cup InCall \cup InShutdown

\* The state property, and every other REST call: set_bitrate, bus_on, bus_off,
\* open_channel, close_channel, get_channel_config.
RestOps == {"state", "request"}

TypeOK ==
  /\ life \in {"new", "up", "raised", "gone"} \cup Constructing
  /\ session \in {"none", "open", "logged out", "closing", "closed"}
  /\ flag \in {"none", "clear", "set"}
  /\ client \in {"none", "session", "own"}
  /\ has \subseteq Assets
  /\ marks \subseteq Marks
  /\ refs \in Int
  /\ pc \in [Threads -> Places]
  /\ op \in [Threads -> RestOps \cup {"shutdown"}]
  /\ answer \in [Threads -> {"none", "ok", "error", "crash"}]
  /\ calls \in [Threads -> 0..MaxCalls]
  /\ overlapped \in [Threads -> BOOLEAN]
  /\ life \in {"acquire", "subscribe", "up"} => "manager" \in has

Init ==
  /\ life = "new"
  /\ session \in {"none", "open"}
  /\ flag = "none"
  /\ client = "none"
  /\ has = {}
  /\ marks = {}
  /\ refs = 0
  /\ pc = [t \in Threads |-> "idle"]
  /\ op = [t \in Threads |-> "shutdown"]
  /\ answer = [t \in Threads |-> "none"]
  /\ calls = [t \in Threads |-> 0]
  /\ overlapped = [t \in Threads |-> FALSE]

\* The session's REST client has its auth client, and that has its token.
HasAuthClient == session \in {"open", "logged out"}
HasToken == session = "open"

-----------------------------------------------------------------------------
(* The constructor. *)

Stage(from, to) ==
  /\ life = from
  /\ life' = to
  /\ UNCHANGED <<session, callVars>>

\* A step that only moves on.
Move(from, to) ==
  /\ Stage(from, to)
  /\ UNCHANGED <<flag, client, has, refs, marks>>

\* websocket-client is missing, or the arguments hold credentials.
Refused == Move("new", "raised")

Construct ==
  /\ Stage("new", IF session = "none" THEN "parent" ELSE "adopt")
  /\ marks' = IF session = "closing" THEN {"disturbed"} ELSE {}
  /\ UNCHANGED <<flag, client, has, refs>>

\* A mutant: the session's client is taken as it is.
AdoptUnchecked == Move("adopt", "read")

\* session.rest_client tests its field, and raises AuthError without a client ...
Adopt == Move("adopt", IF session = "closed" THEN "raised" ELSE "read")

\* ... and reads it again.
ReadSession ==
  /\ Stage("read", "parent")
  /\ client' = IF session = "closed" THEN "none" ELSE "session"
  /\ UNCHANGED <<flag, has, refs, marks>>

\* The flag is made; BusABC.__init__ may refuse the other arguments.
InitParent ==
  /\ Stage("parent", "bitrate") \/ Stage("parent", "raised")
  /\ flag' = "clear"
  /\ UNCHANGED <<client, has, refs, marks>>

\* With a bitrate given, a REST call, of which every exception is caught; without
\* a session it makes a client.
ConfigureBitrate ==
  /\ Stage("bitrate", "check")
  /\ client' \in IF session = "none" THEN {"none", "own"} ELSE {client}
  /\ UNCHANGED <<flag, has, refs, marks>>

\* HelixRestClient.crypto_session tests _auth_client and reads it again, and the
\* constructor evaluates it twice, to test it and to use it.
ReadAuthClient(from, found, missing) ==
  /\ Stage(from, IF client = "session" /\ HasAuthClient THEN found ELSE missing)
  /\ UNCHANGED <<flag, client, refs, marks>>

ReadCrypto ==
  \/ ReadAuthClient("check", "checked", "instance") /\ UNCHANGED has
  \/ ReadAuthClient("checked", "use", "raised") /\ UNCHANGED has
  \/ ReadAuthClient("use", "used", "instance") /\ UNCHANGED has
  \/ /\ ReadAuthClient("used", "instance", "raised")
     /\ has' = IF HasAuthClient THEN has \cup {"crypto"} ELSE has

\* A mutant: the manager stays in a local variable.
GetInstanceUnassigned == Move("instance", "acquire")

GetInstance ==
  /\ Stage("instance", "acquire")
  /\ has' = has \cup {"manager"}
  /\ UNCHANGED <<flag, client, refs, marks>>

Acquire ==
  /\ Stage("acquire", "subscribe")
  /\ refs' = refs + 1
  /\ UNCHANGED <<flag, client, has, marks>>

\* acquire gives the reference back before it raises.
AcquireFails == Move("acquire", "raised")

Subscribe ==
  /\ Stage("subscribe", "up")
  /\ has' = has \cup {"queue"}
  /\ UNCHANGED <<flag, client, refs, marks>>

ConstructorStep ==
  \/ Refused \/ Construct \/ Adopt \/ ReadSession \/ InitParent \/ ConfigureBitrate
  \/ ReadCrypto \/ GetInstance \/ Acquire \/ AcquireFails \/ Subscribe

-----------------------------------------------------------------------------
(* HelixSession.close in another thread. *)

\* The auth client forgets its token, the REST client its auth client, the session
\* its REST client.
CloseSession ==
  /\ \/ session = "open" /\ session' = "logged out" /\ UNCHANGED marks
     \/ /\ \/ session = "logged out" /\ session' = "closing"
           \/ session = "closing" /\ session' = "closed"
        /\ marks' = IF life \in Constructing THEN marks \cup {"disturbed"} ELSE marks
  /\ overlapped' =
       [t \in Threads |-> overlapped[t] \/ (pc[t] # "idle" /\ op[t] # "shutdown")]
  /\ UNCHANGED <<life, flag, client, has, refs, pc, op, answer, calls>>

-----------------------------------------------------------------------------
(* Calls. *)

Goto(t, from, to) ==
  /\ pc[t] = from
  /\ pc' = [pc EXCEPT ![t] = to]

\* A call begins: the shutdowns under way overlap it, and a shutdown overlaps the
\* calls under way.
Begin(t, o, to) ==
  /\ Goto(t, "idle", to)
  /\ op' = [op EXCEPT ![t] = o]
  /\ answer' = [answer EXCEPT ![t] = "none"]
  /\ overlapped' =
       [u \in Threads |-> IF u = t THEN \E x \in Threads : pc[x] \in InShutdown
                          ELSE overlapped[u] \/ (o = "shutdown" /\ pc[u] # "idle")]

\* The application makes a call on a bus that its constructor returned.
MayCall(t) ==
  /\ life = "up"
  /\ calls[t] < MaxCalls
  /\ calls' = [calls EXCEPT ![t] = @ + 1]

\* state turns every exception into an answer.
Answer(t, how) == IF op[t] = "state" THEN "ok" ELSE how

End(t, how) ==
  /\ pc' = [pc EXCEPT ![t] = "idle"]
  /\ answer' = [answer EXCEPT ![t] = Answer(t, how)]

Call(t) ==
  /\ MayCall(t)
  /\ \E o \in RestOps : Begin(t, o, "ensure")
  /\ UNCHANGED <<busVars, marks>>

\* A mutant: a missing client is made, session or not.
EnsureAnyhow(t) ==
  /\ Goto(t, "ensure", "return")
  /\ client' = IF client = "none" THEN "own" ELSE client
  /\ UNCHANGED <<life, session, flag, has, refs, op, answer, calls, overlapped, marks>>

\* _ensure_rest_client: "if self._rest_client is None".  Of a bus with a session
\* it refuses the call, else it makes a client.
Ensure(t) ==
  /\ pc[t] = "ensure"
  /\ \/ client # "none" /\ Goto(t, "ensure", "return") /\ UNCHANGED <<client, answer>>
     \/ /\ client = "none" /\ session = "none"
        /\ Goto(t, "ensure", "return") /\ client' = "own" /\ UNCHANGED answer
     \/ client = "none" /\ session # "none" /\ End(t, "error") /\ UNCHANGED client
  /\ UNCHANGED <<life, session, flag, has, refs, op, calls, overlapped, marks>>

\* "return self._rest_client": None if a shutdown was faster.
Return(t) ==
  /\ pc[t] = "return"
  /\ IF client = "none" THEN End(t, "crash")
     ELSE Goto(t, "return", "send") /\ UNCHANGED answer
  /\ UNCHANGED <<op, calls, overlapped, busVars, marks>>

requestVars == <<op, calls, overlapped, busVars, marks>>

\* The device answers or not, or refuses.
Reply(t) == End(t, "ok") \/ End(t, "error")

\* A mutant: an auth client is taken for granted.
SendUnchecked(t) ==
  /\ Goto(t, "send", "client")
  /\ UNCHANGED <<answer, requestVars>>

\* _get and _post of the client: "if self._auth_client", else a plain request.  The
\* two requests of set_bitrate are one.
Send(t) ==
  /\ pc[t] = "send"
  /\ IF HasAuthClient THEN Goto(t, "send", "client") /\ UNCHANGED answer ELSE Reply(t)
  /\ UNCHANGED requestVars

\* self._auth_client.get or post: an AttributeError if a close was faster.  Then
\* "if self._session_token".
UseClient(t) ==
  /\ pc[t] = "client"
  /\ \/ ~HasAuthClient /\ End(t, "crash")
     \/ HasAuthClient /\ ~HasToken /\ Reply(t)
     \/ HasToken /\ Goto(t, "client", "token") /\ UNCHANGED answer
  /\ UNCHANGED requestVars

\* self._session_token.encode: again an AttributeError if a close was faster.
UseToken(t) ==
  /\ pc[t] = "token"
  /\ IF HasToken THEN Reply(t) ELSE End(t, "crash")
  /\ UNCHANGED requestVars

-----------------------------------------------------------------------------
(* shutdown. *)

\* The guard, and a mutant of it.
NeverShutDown == FALSE
ShutDown == flag = "set"

Shutdown(t) ==
  /\ MayCall(t)
  /\ \/ /\ ~ShutDown
        /\ Begin(t, "shutdown", "mark")
        /\ marks' = IF \E u \in Threads : pc[u] = "mark" THEN marks \cup {"raced"} ELSE marks
     \/ ShutDown /\ Begin(t, "shutdown", "idle") /\ UNCHANGED marks
  /\ UNCHANGED busVars

\* The exception of a failed constructor is dropped: python-can's finaliser calls
\* shutdown, and suppresses the AttributeError of a flag that does not exist.  (For
\* a bus that was up, its call is a Shutdown like the application's.)
Finalize(t) ==
  /\ life = "raised"
  /\ life' = "gone"
  /\ IF flag = "none" THEN UNCHANGED callVars
     ELSE Begin(t, "shutdown", "mark") /\ UNCHANGED calls
  /\ UNCHANGED <<session, flag, client, has, refs, marks>>

shutdownVars == <<life, session, op, calls, overlapped, marks>>

\* _shutdown_flag.set(), then hasattr(self, '_connection_manager').
Mark(t) ==
  /\ Goto(t, "mark", IF "manager" \in has THEN "unsubscribe" ELSE "close")
  /\ flag' = "set"
  /\ UNCHANGED <<client, has, refs, answer, shutdownVars>>

Unsubscribe(t) ==
  /\ Goto(t, "unsubscribe", "release")
  /\ has' = has \ {"queue"}
  /\ UNCHANGED <<flag, client, refs, answer, shutdownVars>>

\* A mutant: the reference is given back only if there is an own REST client.
ReleaseWithOwn(t) ==
  /\ Goto(t, "release", "close")
  /\ refs' = IF client = "own" THEN refs - 1 ELSE refs
  /\ UNCHANGED <<flag, client, has, answer, shutdownVars>>

Release(t) ==
  /\ Goto(t, "release", "close")
  /\ refs' = refs - 1
  /\ UNCHANGED <<flag, client, has, answer, shutdownVars>>

\* "if self._rest_client and self._owns_rest_client"
Close(t) ==
  /\ Goto(t, "close", IF client = "own" THEN "close own" ELSE "forget")
  /\ UNCHANGED <<flag, client, has, refs, answer, shutdownVars>>

\* self._rest_client.close(): an AttributeError if another shutdown was faster.
CloseOwn(t) ==
  /\ pc[t] = "close own"
  /\ IF client = "none" THEN End(t, "crash")
     ELSE Goto(t, "close own", "forget") /\ UNCHANGED answer
  /\ UNCHANGED <<flag, client, has, refs, shutdownVars>>

\* BusABC.shutdown follows, which changes nothing here.
Forget(t) ==
  /\ pc[t] = "forget"
  /\ End(t, "ok")
  /\ client' = "none"
  /\ UNCHANGED <<flag, has, refs, shutdownVars>>

ThreadStep(t) ==
  \/ Call(t) \/ Ensure(t) \/ Return(t) \/ Send(t) \/ UseClient(t) \/ UseToken(t)
  \/ Shutdown(t) \/ Finalize(t) \/ Mark(t) \/ Unsubscribe(t) \/ Release(t)
  \/ Close(t) \/ CloseOwn(t) \/ Forget(t)

\* The application is done with the bus.
Finished ==
  /\ life \in {"up", "gone"}
  /\ \A t \in Threads : pc[t] = "idle"
  /\ UNCHANGED vars

Next == ConstructorStep \/ CloseSession \/ Finished \/ \E t \in Threads : ThreadStep(t)

Spec == Init /\ [][Next]_vars

-----------------------------------------------------------------------------
(* Safety. *)

\* shutdown gives no reference back twice ("Safe to call more than once"), in
\* whatever order threads call it, unless two of them pass its guard at the same
\* time, or acquire had failed and given the reference back itself.
GivenBackOnce == refs < 0 => "raced" \in marks \/ life = "gone"

\* A shutdown leaves nothing behind: when no thread is in one and the flag is set,
\* the bus holds no reference and receives nothing, however its constructor ended.
NothingLeftBehind ==
  flag = "set" /\ (\A t \in Threads : pc[t] \notin InShutdown) =>
    refs <= 0 /\ "queue" \notin has

\* A bus made with a session talks to the device under the session's keys: the
\* constructor falls back to an unencrypted WebSocket only while somebody closes
\* the session under it.
SealedUnlessClosed ==
  life = "up" /\ session # "none" /\ "disturbed" \notin marks => "crypto" \in has

\* "No session: unauthenticated client (legacy backends only)": no thread and no
\* order of calls and shutdowns gives a bus with a session such a client.
NoLegacyFallback == session # "none" => client # "own"

\* A shutdown ends in an AttributeError only if another thread was shutting the bus
\* down during it, a REST call only if another thread was doing that or closing the
\* session, and state never does.
CrashOnlyWhenOverlapped ==
  \A t \in Threads : answer[t] = "crash" => overlapped[t] /\ op[t] # "state"
=============================================================================
