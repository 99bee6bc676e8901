---------------------------- MODULE HelixSession ----------------------------
(***************************************************************************)
(* One HelixSession, the buses that share it, and the device: key          *)
(* exchange and login in the constructor, REST calls of the buses, among   *)
(* them set_bitrate, which reads the channel's configuration and writes it *)
(* back, and close, while other threads are inside a call                  *)
(* (can_helix/session.py, can_helix/auth.py, HelixRestClient and           *)
(* _ensure_rest_client of can_helix/bus.py).                               *)
(*                                                                         *)
(* The session has one HelixRestClient and that one HelixAuthClient.  No   *)
(* lock protects them: every read of a field that close clears is a step   *)
(* of its own.  A request and its answer are one step, in which the device *)
(* does its part or not, and the answer arrives or not.                    *)
(***************************************************************************)
EXTENDS Naturals, FiniteSets

CONSTANTS
  Buses,     \* the buses made with the session, each used by one thread
  Closers,   \* threads that close the session
  Devices,   \* the devices that may answer under the host's address
  Bauds,     \* the parameters that set_bitrate is always given, such as baud
  Points,    \* the ones that it sets or keeps: timing, restart_ms, berr_reporting
  DEFAULT,   \* their value in set_bitrate when the state cannot be read
  NONE,      \* Python's None
  Legacy,    \* TRUE: the device accepts requests without authentication
  MaxCalls,  \* bound: REST calls of a bus
  MaxOthers  \* bound: changes of the configuration by other clients

ASSUME SessionAssumption ==
  /\ Devices # {} /\ Bauds # {}
  /\ DEFAULT \in Points
  /\ NONE \notin Devices \cup Bauds \cup Points
  /\ Legacy \in BOOLEAN
  /\ MaxCalls \in Nat /\ MaxOthers \in Nat

VARIABLES
  life,          \* where the constructor of the session stands
  pin,           \* _expected_device_fingerprint
  device,        \* the device that _crypto was negotiated with
  credentials,   \* history: the device that the password was encrypted for
  token,         \* _session_token is set
  authClient,    \* HelixRestClient._auth_client is set
  sessionClient, \* HelixSession._rest_client is set
  valid,         \* the device knows the session
  lost,          \* history: a login or logout had no answer
  cpc,           \* where a thread stands in close
  busClient,     \* bus._rest_client is set
  pc,            \* where the thread of a bus stands in a REST call
  op,            \* the call: [kind, baud, point]
  phase,         \* "get" or "post": which request of the call is under way
  mode,          \* what the request carries: "plain", "bare" or "token"
  current,       \* what set_bitrate has read, NONE if it could not
  calls,         \* the number of calls
  config,        \* the configuration of the channel, on the device
  others,        \* changes of the configuration by other clients
  undisturbed,   \* history: nobody wrote the configuration since the bus read it
  overlapped     \* history: a close was under way during the call

clientVars == <<token, authClient, sessionClient>>
loginVars == <<life, pin, device, credentials>>
deviceVars == <<config, others, undisturbed>>
callVars == <<pc, op, phase, mode, current, calls>>
vars == <<life, pin, device, credentials, token, authClient, sessionClient, valid,
          lost, cpc, busClient, pc, op, phase, mode, current, calls, config, others,
          undisturbed, overlapped>>

\* silent, the listen-only mode, is a parameter of a third kind: the set_bitrate of
\* HelixRestClient takes it, that of HelixBus has no way to pass it on.
Configs == [baud : Bauds, point : Points, silent : BOOLEAN]

\* get_channel_config, open_channel, bus_on and their like: one request.
ReadOps == [kind : {"read"}, baud : {NONE}, point : {NONE}]

\* get_ws_ticket, which the connection manager calls for a new WebSocket.
TicketOps == [kind : {"ticket"}, baud : {NONE}, point : {NONE}]

\* set_bitrate, with a sample point or without.
SetOps == [kind : {"set"}, baud : Bauds, point : Points \cup {NONE}]

Ops == ReadOps \cup TicketOps \cup SetOps

InCall(b) == pc[b] \in {"route", "client", "check", "token", "send"}

InClose == {"client", "logout", "forget", "drop", "release"}

TypeOK ==
  /\ life \in {"start", "login", "open", "failed"}
  /\ pin \in Devices \cup {NONE}
  /\ device \in Devices \cup {NONE}
  /\ credentials \in Devices \cup {NONE}
  /\ {token, authClient, sessionClient, valid, lost} \subseteq BOOLEAN
  /\ cpc \in [Closers -> {"idle", "done", "crash"} \cup InClose]
  /\ busClient \in [Buses -> BOOLEAN]
  /\ pc \in [Buses -> {"unborn", "adopt", "idle", "route", "client", "check", "token", "send"}]
  /\ op \in [Buses -> Ops \cup {NONE}]
  /\ phase \in [Buses -> {"get", "post"}]
  /\ mode \in [Buses -> {"plain", "bare", "token"}]
  /\ current \in [Buses -> Configs \cup {NONE}]
  /\ calls \in [Buses -> 0..MaxCalls]
  /\ config \in Configs
  /\ others \in 0..MaxOthers
  /\ undisturbed \in [Buses -> BOOLEAN]
  /\ overlapped \in [Buses -> BOOLEAN]
  /\ \A b \in Buses :
       IF InCall(b) THEN /\ op[b] \in Ops
                         /\ phase[b] = "post" => op[b].kind = "set"
       ELSE op[b] = NONE /\ phase[b] = "get"

Init ==
  /\ life = "start"
  /\ pin \in Devices \cup {NONE}
  /\ device = NONE
  /\ credentials = NONE
  /\ token = FALSE /\ authClient = FALSE /\ sessionClient = FALSE
  /\ valid = FALSE /\ lost = FALSE
  /\ cpc = [k \in Closers |-> "idle"]
  /\ busClient = [b \in Buses |-> FALSE]
  /\ pc = [b \in Buses |-> "unborn"]
  /\ op = [b \in Buses |-> NONE]
  /\ phase = [b \in Buses |-> "get"]
  /\ mode = [b \in Buses |-> "plain"]
  /\ current = [b \in Buses |-> NONE]
  /\ calls = [b \in Buses |-> 0]
  /\ config \in Configs
  /\ others = 0
  /\ undisturbed = [b \in Buses |-> FALSE]
  /\ overlapped = [b \in Buses |-> FALSE]

-----------------------------------------------------------------------------
(* The constructor of HelixSession. *)

\* The device's key against the fingerprint that the application expects.
PinIgnored(d) == TRUE
PinAccepts(d) == pin \in {NONE, d}

\* _init_crypto: whoever answers under the address sends a public key.
FetchKey(d) ==
  /\ life = "start"
  /\ IF PinAccepts(d) THEN life' = "login" /\ device' = d
                      ELSE life' = "failed" /\ UNCHANGED device
  /\ UNCHANGED <<pin, credentials, valid, lost, cpc, busClient, overlapped,
                 clientVars, deviceVars, callVars>>

FetchKeyFails ==
  /\ life = "start"
  /\ life' = "failed"
  /\ UNCHANGED <<pin, device, credentials, valid, lost, cpc, busClient, overlapped,
                 clientVars, deviceVars, callVars>>

\* login: the device makes a session, and the answer brings its token.
Login ==
  /\ life = "login"
  /\ life' = "open"
  /\ credentials' = device
  /\ valid' = TRUE
  /\ token' = TRUE /\ authClient' = TRUE /\ sessionClient' = TRUE
  /\ UNCHANGED <<pin, device, lost, cpc, busClient, overlapped, deviceVars, callVars>>

\* The device refuses, or does not answer, having made a session or not: the
\* constructor raises, and no client remembers anything.
LoginFails ==
  /\ life = "login"
  /\ life' = "failed"
  /\ credentials' = device
  /\ \/ valid' = TRUE /\ lost' = TRUE
     \/ UNCHANGED <<valid, lost>>
  /\ UNCHANGED <<pin, device, cpc, busClient, overlapped, clientVars, deviceVars,
                 callVars>>

-----------------------------------------------------------------------------
(* HelixSession.close, in thread k. *)

CloseStep(k, from, to) ==
  /\ cpc[k] = from
  /\ cpc' = [cpc EXCEPT ![k] = to]
  /\ UNCHANGED <<busClient, loginVars, deviceVars, callVars>>

\* "if self._rest_client is not None"
Close(k) ==
  /\ life = "open"
  /\ CloseStep(k, "idle", IF sessionClient THEN "client" ELSE "done")
  /\ overlapped' = [b \in Buses |-> overlapped[b] \/ (sessionClient /\ InCall(b))]
  /\ UNCHANGED <<valid, lost, clientVars>>

\* The call of HelixRestClient.close reads the field again, and the method
\* looks whether there is an auth client.
EnterClose(k) ==
  /\ CloseStep(k, "client", CASE ~sessionClient -> "crash"
                              [] sessionClient /\ authClient -> "logout"
                              [] OTHER -> "release")
  /\ UNCHANGED <<valid, lost, overlapped, clientVars>>

\* A mutant: the token is forgotten before the logout request.
LogoutForgetsFirst(k) ==
  /\ CloseStep(k, "logout", "forget")
  /\ token' = FALSE
  /\ UNCHANGED <<authClient, sessionClient, valid, lost, overlapped>>

\* logout: with a token, a request that the device follows or that is lost.
Logout(k) ==
  /\ CloseStep(k, "logout", "forget")
  /\ IF token THEN \/ valid' = FALSE /\ lost' \in {lost, TRUE}
                   \/ UNCHANGED valid /\ lost' = TRUE
              ELSE UNCHANGED <<valid, lost>>
  /\ UNCHANGED <<overlapped, clientVars>>

Forget(k) ==
  /\ CloseStep(k, "forget", "drop")
  /\ token' = FALSE
  /\ UNCHANGED <<authClient, sessionClient, valid, lost, overlapped>>

\* _auth_client.close() and _auth_client = None: another thread may have been
\* faster.
DropAuthClient(k) ==
  /\ CloseStep(k, "drop", IF authClient THEN "release" ELSE "crash")
  /\ authClient' = FALSE
  /\ UNCHANGED <<token, sessionClient, valid, lost, overlapped>>

ReleaseClient(k) ==
  /\ CloseStep(k, "release", "done")
  /\ sessionClient' = FALSE
  /\ UNCHANGED <<token, authClient, valid, lost, overlapped>>

-----------------------------------------------------------------------------
(* The buses. *)

busStep == <<valid, lost, cpc, clientVars, loginVars>>

\* The constructor of the bus takes the session's client: _require_client raises
\* without one, and then reads the field again, which may be None by now.
NewBus(b) ==
  /\ life = "open" /\ pc[b] = "unborn" /\ sessionClient
  /\ pc' = [pc EXCEPT ![b] = "adopt"]
  /\ UNCHANGED <<op, phase, mode, current, calls, busClient, overlapped, deviceVars, busStep>>

Adopt(b) ==
  /\ pc[b] = "adopt"
  /\ pc' = [pc EXCEPT ![b] = "idle"]
  /\ busClient' = [busClient EXCEPT ![b] = sessionClient]
  /\ UNCHANGED <<op, phase, mode, current, calls, overlapped, deviceVars, busStep>>

\* A mutant: shutdown closes a client that belongs to the session.
ShutdownClosesClient(b) ==
  /\ busClient[b]
  /\ busClient' = [busClient EXCEPT ![b] = FALSE]
  /\ token' = FALSE /\ authClient' = FALSE
  /\ UNCHANGED <<sessionClient, valid, lost, cpc, overlapped, loginVars, deviceVars,
                 callVars>>

\* shutdown only forgets the client of a session.
Shutdown(b) ==
  /\ busClient[b]
  /\ busClient' = [busClient EXCEPT ![b] = FALSE]
  /\ UNCHANGED <<overlapped, deviceVars, callVars, busStep>>

\* A REST call of the application.  _ensure_rest_client raises after shutdown,
\* which changes nothing and is left out; its two reads of bus._rest_client are
\* one.  The ticket provider keeps a reference of its own.
Call(b, o) ==
  /\ pc[b] = "idle" /\ calls[b] < MaxCalls
  /\ busClient[b] \/ o.kind = "ticket"
  /\ calls' = [calls EXCEPT ![b] = @ + 1]
  /\ pc' = [pc EXCEPT ![b] = "route"]
  /\ op' = [op EXCEPT ![b] = o]
  /\ overlapped' = [overlapped EXCEPT ![b] = \E k \in Closers : cpc[k] \in InClose]
  /\ UNCHANGED <<phase, mode, current, busClient, deviceVars, busStep>>

ensureVars == <<calls, busClient, config, others, busStep>>
requestVars == <<op, phase, current, undisturbed, overlapped, ensureVars>>

Goto(b, to) == pc' = [pc EXCEPT ![b] = to]

\* The request of the call goes out, with or without a token.
Emit(b, m) == Goto(b, "send") /\ mode' = [mode EXCEPT ![b] = m]

\* The call returns or raises, and its locals are gone.
Return(b) ==
  /\ Goto(b, "idle")
  /\ op' = [op EXCEPT ![b] = NONE]
  /\ phase' = [phase EXCEPT ![b] = "get"]
  /\ mode' = [mode EXCEPT ![b] = "plain"]
  /\ current' = [current EXCEPT ![b] = NONE]
  /\ overlapped' = [overlapped EXCEPT ![b] = FALSE]

Raise(b) ==
  /\ Return(b)
  /\ undisturbed' = [undisturbed EXCEPT ![b] = FALSE]

\* A mutant: an auth client is taken for granted.
RouteUnchecked(b) ==
  /\ pc[b] = "route"
  /\ Goto(b, "client") /\ UNCHANGED <<mode, requestVars, ensureVars>>

\* "if self._auth_client": without one, a plain request, and no ticket.
Route(b) ==
  /\ pc[b] = "route"
  /\ \/ authClient /\ Goto(b, "client") /\ UNCHANGED <<mode, requestVars>>
     \/ ~authClient /\ op[b].kind # "ticket" /\ Emit(b, "plain") /\ UNCHANGED requestVars
     \/ ~authClient /\ op[b].kind = "ticket" /\ Raise(b)
  /\ UNCHANGED ensureVars

\* self._auth_client.get or post: an AttributeError if close was faster.
ReadClient(b) ==
  /\ pc[b] = "client"
  /\ IF authClient THEN Goto(b, "check") /\ UNCHANGED <<mode, requestVars>>
                   ELSE Raise(b)
  /\ UNCHANGED ensureVars

\* _encrypted_request: "if self._session_token"
CheckToken(b) ==
  /\ pc[b] = "check"
  /\ IF token THEN Goto(b, "token") /\ UNCHANGED mode ELSE Emit(b, "bare")
  /\ UNCHANGED requestVars

\* self._session_token.encode: again an AttributeError if close was faster.
ReadToken(b) ==
  /\ pc[b] = "token"
  /\ IF token THEN Emit(b, "token") /\ UNCHANGED requestVars ELSE Raise(b)
  /\ UNCHANGED ensureVars

\* The device accepts the request of a bus.
Accepted(b) == (mode[b] = "token" /\ valid) \/ (mode[b] = "plain" /\ Legacy)

\* set_bitrate goes on to its second request with what it has read.
GoOn(b, read) ==
  /\ Goto(b, "route")
  /\ phase' = [phase EXCEPT ![b] = "post"]
  /\ mode' = [mode EXCEPT ![b] = "plain"]
  /\ current' = [current EXCEPT ![b] = read]
  /\ undisturbed' = [undisturbed EXCEPT ![b] = read # NONE]
  /\ UNCHANGED <<op, overlapped>>

\* The first request is answered.
GetAnswered(b) ==
  /\ pc[b] = "send" /\ phase[b] = "get" /\ Accepted(b)
  /\ IF op[b].kind = "set" THEN GoOn(b, config) ELSE Return(b) /\ UNCHANGED undisturbed
  /\ UNCHANGED ensureVars

\* A mutant: set_bitrate reads until it succeeds.
GetFailsRetried(b) ==
  /\ pc[b] = "send" /\ phase[b] = "get"
  /\ IF op[b].kind = "set" THEN Goto(b, "route") /\ UNCHANGED <<mode, requestVars>>
                           ELSE Raise(b)
  /\ UNCHANGED ensureVars

\* It is refused or lost, or the answer does not name the channel: set_bitrate
\* catches that and goes on without.
GetFails(b) ==
  /\ pc[b] = "send" /\ phase[b] = "get"
  /\ IF op[b].kind = "set" THEN GoOn(b, NONE) ELSE Raise(b)
  /\ UNCHANGED ensureVars

\* The configuration that set_bitrate writes: a timing parameter is its argument,
\* else what it has read, else a default; silent is its argument, False if it is
\* omitted, whatever was read.  The first form is a mutant.
MergedWithoutState(b) ==
  [baud |-> op[b].baud, silent |-> FALSE,
   point |-> IF op[b].point # NONE THEN op[b].point ELSE DEFAULT]

\* A mutant: no default where the state cannot be read.
MergedWithoutDefault(b) ==
  [baud |-> op[b].baud, silent |-> FALSE,
   point |-> CASE op[b].point # NONE -> op[b].point
               [] op[b].point = NONE /\ current[b] # NONE -> current[b].point
               [] OTHER -> NONE]

Merged(b) ==
  [baud |-> op[b].baud, silent |-> FALSE,
   point |-> CASE op[b].point # NONE -> op[b].point
               [] op[b].point = NONE /\ current[b] # NONE -> current[b].point
               [] OTHER -> DEFAULT]

\* The second request of set_bitrate reaches the device; whether its answer is
\* lost makes no difference to the model.
PostApplied(b) ==
  /\ pc[b] = "send" /\ phase[b] = "post" /\ Accepted(b)
  /\ config' = Merged(b)
  /\ undisturbed' = [other \in Buses |-> FALSE]
  /\ Return(b)
  /\ UNCHANGED <<calls, busClient, others, busStep>>

PostFails(b) ==
  /\ pc[b] = "send" /\ phase[b] = "post"
  /\ Raise(b)
  /\ UNCHANGED ensureVars

-----------------------------------------------------------------------------
(* The device. *)

\* The session expires, or the device restarts.
Expire ==
  /\ valid
  /\ valid' = FALSE
  /\ UNCHANGED <<lost, cpc, busClient, overlapped, clientVars, loginVars, deviceVars,
                 callVars>>

\* Somebody else configures the channel.
OtherClient(c) ==
  /\ others < MaxOthers
  /\ others' = others + 1
  /\ config' = c
  /\ undisturbed' = [b \in Buses |-> FALSE]
  /\ UNCHANGED <<busClient, overlapped, callVars, busStep>>

-----------------------------------------------------------------------------

Construct == (\E d \in Devices : FetchKey(d)) \/ FetchKeyFails \/ Login \/ LoginFails

ContinueClose(k) ==
  EnterClose(k) \/ Logout(k) \/ Forget(k) \/ DropAuthClient(k) \/ ReleaseClient(k)

ContinueCall(b) ==
  \/ Route(b) \/ ReadClient(b) \/ CheckToken(b) \/ ReadToken(b)
  \/ GetAnswered(b) \/ GetFails(b) \/ PostApplied(b) \/ PostFails(b)

\* The application is done with the session, or has none.
Finished ==
  /\ \/ life = "failed"
     \/ \A k \in Closers : cpc[k] \in {"done", "crash"}
  /\ \A b \in Buses : ~InCall(b)
  /\ UNCHANGED vars

Next ==
  \/ Construct \/ Expire \/ Finished
  \/ \E k \in Closers : Close(k) \/ ContinueClose(k)
  \/ \E b \in Buses : \/ NewBus(b) \/ Adopt(b) \/ Shutdown(b) \/ ContinueCall(b)
                      \/ \E o \in Ops : Call(b, o)
  \/ \E c \in Configs : OtherClient(c)

Spec == Init /\ [][Next]_vars

\* Threads inside a call are scheduled, and requests end by their timeout.
FairSpec == Spec /\ \A b \in Buses : WF_vars(ContinueCall(b))

-----------------------------------------------------------------------------
(* Safety. *)

\* With a fingerprint given, the password is encrypted for no other device
\* (HelixSession: "verifies the device's key before sending credentials").
PinRespected == pin # NONE => credentials \in {NONE, pin}

\* The library leaves no session behind on the device: one that is still valid
\* is held by a client that has its token, unless the answer to login or the
\* request to log out was lost.
LoginAccounted == valid /\ ~lost => token /\ authClient

\* "Shutting a bus down does not log the session out": until somebody closes
\* it, the session has its clients and its token.
SessionOutlivesBuses ==
  life = "open" /\ (\A k \in Closers : cpc[k] = "idle") =>
    token /\ authClient /\ sessionClient

\* Reading fields twice without a lock lets an AttributeError out of a REST
\* call, but only if the session was being closed during that call.
CrashOnlyWhileClosing ==
  [][\A b \in Buses :
       pc[b] \in {"client", "token"} /\ pc'[b] = "idle" => overlapped[b]]_vars

\* set_bitrate "gets current channel state first and merges new values": if it
\* could read the state and nobody wrote it meanwhile, it keeps a timing parameter
\* that it was not given.
TimingKept ==
  [][\A b \in Buses :
       /\ pc[b] = "send" /\ phase[b] = "post" /\ pc'[b] = "idle"
       /\ undisturbed[b] /\ op[b].point = NONE
       => config'.point = config.point]_vars

\* "The HelixSession backing this bus has been closed": a call that is made on a
\* bus of a session after the session was closed sends no request, least of all
\* one without authentication.
ClosedSessionRefused ==
  \A b \in Buses : pc[b] = "send" /\ mode[b] = "plain" => overlapped[b]

-----------------------------------------------------------------------------
(* Liveness, of FairSpec. *)

\* A REST call returns or raises, also when the session is closed under it and
\* no request is answered.
CallEnds == \A b \in Buses : pc[b] = "route" ~> pc[b] = "idle"
=============================================================================
