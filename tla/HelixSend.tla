----------------------------- MODULE HelixSend ------------------------------
(***************************************************************************)
(* The send path: HelixBus.send encodes a message, and                     *)
(* HelixConnectionManager.send encrypts it and writes it to the WebSocket  *)
(* that several threads share, while the connection is lost, closed by a   *)
(* release, or opened again (can_helix/bus.py send, can_helix/connection.py *)
(* send, can_helix/crypto.py ChaCha20Cipher).                              *)
(*                                                                         *)
(* All managers of the model belong to one HelixSession, hence share one   *)
(* cipher and its nonce counter: managers differ in port or batch mode.    *)
(* The n-th WebSocket of manager m is <<m, n>>.  Writing a message is two  *)
(* steps, so that a second writer can come between them.                   *)
(***************************************************************************)
EXTENDS HelixCodec, Sequences, FiniteSets

CONSTANTS
  Senders,     \* threads of the application, each with a bus of its own
  Managers,    \* connection managers
  ManagerOf,   \* [Senders -> Managers]
  MessagesOf,  \* [Senders -> set of messages]: what a thread sends
  NONE,        \* Python's None
  NonceLimit,  \* the first number that struct.pack('<Q') refuses
  MaxSends,    \* bound: calls of send by one thread
  MaxSockets   \* bound: WebSockets of one manager

ASSUME SendAssumption ==
  /\ ManagerOf \in [Senders -> Managers]
  /\ MessagesOf \in [Senders -> SUBSET Messages]
  /\ NONE \notin Senders \cup Records
  /\ NonceLimit \in Nat /\ MaxSends \in Nat
  /\ MaxSockets \in Nat \ {0}

Sockets == Managers \X (1..MaxSockets)

VARIABLES
  counter,    \* ChaCha20Cipher._nonce_counter
  connected,  \* manager._connected
  ws,         \* manager._ws, as the number of the WebSocket, 0 for None
  sendLock,   \* the thread that holds manager._send_lock
  socket,     \* the state of each WebSocket
  wire,       \* the halves of messages written to each WebSocket
  pc,         \* where the thread stands in send
  calls,      \* how often the thread has called send
  message,    \* the message of the call
  data,       \* data: the encoded record
  target,     \* ws in send: the number of the WebSocket it read
  sealed,     \* history: the encryptions, [nonce, sender, call]
  sent        \* history: the calls of send that returned normally

connVars == <<connected, ws, socket>>
locals == <<message, data, target>>
vars == <<counter, connected, ws, sendLock, socket, wire, pc, calls, message,
          data, target, sealed, sent>>

\* Half of the message of a call.
Halves == [sender : Senders, call : 1..MaxSends, half : {1, 2}]

TypeOK ==
  /\ counter \in Nat
  /\ connected \in [Managers -> BOOLEAN]
  /\ ws \in [Managers -> 0..MaxSockets]
  /\ sendLock \in [Managers -> Senders \cup {NONE}]
  /\ socket \in [Sockets -> {"none", "opening", "open", "closed"}]
  /\ wire \in [Sockets -> Seq(Halves)]
  /\ pc \in [Senders -> {"idle", "check", "encrypt", "read", "lock", "write", "rest"}]
  /\ calls \in [Senders -> 0..MaxSends]
  /\ message \in [Senders -> Messages \cup {NONE}]
  /\ data \in [Senders -> Records \cup {NONE}]
  /\ target \in [Senders -> 0..MaxSockets]
  /\ sealed \subseteq [nonce : Nat, sender : Senders, call : 1..MaxSends]
  /\ sent \subseteq Senders \X (1..MaxSends)
  /\ \A s \in Senders : pc[s] # "idle" => data[s] \in Records /\ calls[s] >= 1
  /\ \A s \in Senders : pc[s] \in {"lock", "write", "rest"} => target[s] >= 1

Init ==
  /\ counter = 0
  /\ connected = [m \in Managers |-> TRUE]
  /\ ws = [m \in Managers |-> 1]
  /\ sendLock = [m \in Managers |-> NONE]
  /\ socket = [c \in Sockets |-> IF c[2] = 1 THEN "open" ELSE "none"]
  /\ wire = [c \in Sockets |-> <<>>]
  /\ pc = [s \in Senders |-> "idle"]
  /\ calls = [s \in Senders |-> 0]
  /\ message = [s \in Senders |-> NONE]
  /\ data = [s \in Senders |-> NONE]
  /\ target = [s \in Senders |-> 0]
  /\ sealed = {}
  /\ sent = {}

-----------------------------------------------------------------------------
(* send, called by a thread. *)

\* The locals of send end with the call.
Goto(s, from, to) ==
  /\ pc[s] = from
  /\ pc' = [pc EXCEPT ![s] = to]
  /\ message' = [message EXCEPT ![s] = IF to = "idle" THEN NONE ELSE @]
  /\ data' = [data EXCEPT ![s] = IF to = "idle" THEN NONE ELSE @]

StartCall(s) ==
  /\ pc[s] = "idle" /\ calls[s] < MaxSends
  /\ calls' = [calls EXCEPT ![s] = @ + 1]
  /\ UNCHANGED <<counter, sendLock, wire, target, sealed, sent, connVars>>

\* HelixBus.send encodes the message, and goes on to the manager.
Send(s) ==
  /\ StartCall(s)
  /\ \E msg \in {x \in MessagesOf[s] : EncodeCanTx(x) # ValueError} :
       /\ message' = [message EXCEPT ![s] = msg]
       /\ data' = [data EXCEPT ![s] = EncodeCanTx(msg)]
  /\ pc' = [pc EXCEPT ![s] = "check"]

\* It raises if the message cannot be encoded, or if another thread has shut
\* the bus down, which may have happened before any call.
SendRefused(s) ==
  /\ StartCall(s)
  /\ UNCHANGED <<pc, message, data>>

\* The manager must be connected.
CheckConnected(s) ==
  /\ Goto(s, "check", IF connected[ManagerOf[s]] THEN "encrypt" ELSE "idle")
  /\ UNCHANGED <<counter, sendLock, wire, target, sealed, sent, connVars, calls>>

\* _next_nonce; its mutant lets the counter start over.
NextCountWraps(n) == (n + 1) % NonceLimit
NextCount(n) == n + 1

\* encrypt_ws: take a nonce under the lock of the cipher.  A counter that does
\* not fit eight bytes raises after it was incremented.
Encrypt(s) ==
  /\ Goto(s, "encrypt", IF counter < NonceLimit THEN "read" ELSE "idle")
  /\ counter' = NextCount(counter)
  /\ sealed' = sealed \cup
       {x \in {[nonce |-> counter, sender |-> s, call |-> calls[s]]} : x.nonce < NonceLimit}
  /\ UNCHANGED <<sendLock, wire, target, sent, connVars, calls>>

\* A mutant: send does not look whether there is a WebSocket.
ReadSocketUnchecked(s) ==
  /\ Goto(s, "read", "lock")
  /\ target' = [target EXCEPT ![s] = ws[ManagerOf[s]]]
  /\ UNCHANGED <<counter, sendLock, wire, sealed, sent, connVars, calls>>

\* Read _ws, which is None after _disconnect.
ReadSocket(s) ==
  /\ Goto(s, "read", IF ws[ManagerOf[s]] = 0 THEN "idle" ELSE "lock")
  /\ target' = [target EXCEPT ![s] = ws[ManagerOf[s]]]
  /\ UNCHANGED <<counter, sendLock, wire, sealed, sent, connVars, calls>>

\* Enter "with self._send_lock"; its mutant does not wait.
LockIgnored(m) == TRUE
LockFree(m) == sendLock[m] = NONE

TakeLock(s) ==
  /\ Goto(s, "lock", "write")
  /\ LockFree(ManagerOf[s])
  /\ sendLock' = [sendLock EXCEPT ![ManagerOf[s]] = s]
  /\ UNCHANGED <<counter, wire, target, sealed, sent, connVars, calls>>

SocketOf(s) == <<ManagerOf[s], target[s]>>

Half(s, n) == [sender |-> s, call |-> calls[s], half |-> n]

\* ws.send begins.
WriteFirst(s) ==
  /\ Goto(s, "write", "rest")
  /\ socket[SocketOf(s)] = "open"
  /\ wire' = [wire EXCEPT ![SocketOf(s)] = Append(@, Half(s, 1))]
  /\ UNCHANGED <<counter, sendLock, target, sealed, sent, connVars, calls>>

\* ws.send returns, the lock is released, and so does send.
WriteRest(s) ==
  /\ Goto(s, "rest", "idle")
  /\ socket[SocketOf(s)] = "open"
  /\ wire' = [wire EXCEPT ![SocketOf(s)] = Append(@, Half(s, 2))]
  /\ sendLock' = [sendLock EXCEPT ![ManagerOf[s]] = NONE]
  /\ sent' = sent \cup {<<s, calls[s]>>}
  /\ target' = [target EXCEPT ![s] = 0]
  /\ UNCHANGED <<counter, sealed, connVars, calls>>

\* Mutants: the exception of ws.send leaves the lock taken, or is swallowed.
WriteFailsLocked(s) ==
  /\ pc[s] \in {"write", "rest"} /\ Goto(s, pc[s], "idle")
  /\ socket[SocketOf(s)] # "open"
  /\ target' = [target EXCEPT ![s] = 0]
  /\ UNCHANGED <<counter, sendLock, wire, sealed, sent, connVars, calls>>

WriteFailsQuietly(s) ==
  /\ pc[s] \in {"write", "rest"} /\ Goto(s, pc[s], "idle")
  /\ socket[SocketOf(s)] # "open"
  /\ sendLock' = [sendLock EXCEPT ![ManagerOf[s]] = NONE]
  /\ sent' = sent \cup {<<s, calls[s]>>}
  /\ target' = [target EXCEPT ![s] = 0]
  /\ UNCHANGED <<counter, wire, sealed, connVars, calls>>

\* ws.send raises on a WebSocket that is not open, send raises
\* CanOperationError, and the lock is released.
WriteFails(s) ==
  /\ pc[s] \in {"write", "rest"} /\ Goto(s, pc[s], "idle")
  /\ socket[SocketOf(s)] # "open"
  /\ sendLock' = [sendLock EXCEPT ![ManagerOf[s]] = NONE]
  /\ target' = [target EXCEPT ![s] = 0]
  /\ UNCHANGED <<counter, wire, sealed, sent, connVars, calls>>

-----------------------------------------------------------------------------
(* What goes on beside the senders: HelixConnection in short. *)

sendVars == <<counter, sendLock, wire, pc, target, sealed, sent, calls, locals>>

Current(m) == <<m, ws[m]>>

\* A WebSocket goes from one state to another.
Change(m, from, to) ==
  \E n \in 1..MaxSockets :
    /\ socket[<<m, n>>] \in from
    /\ socket' = [socket EXCEPT ![<<m, n>>] = to]

\* A WebSocket is lost, or its handshake fails; on_close clears the event later.
Lose(m) ==
  /\ Change(m, {"opening", "open"}, "closed")
  /\ UNCHANGED <<connected, ws, sendVars>>

\* _disconnect closes the WebSocket and sets _ws to None.
Disconnect(m) ==
  /\ ws[m] # 0
  /\ socket' = [socket EXCEPT ![Current(m)] = "closed"]
  /\ ws' = [ws EXCEPT ![m] = 0]
  /\ UNCHANGED <<connected, sendVars>>

\* on_close of a WebSocket that has ended, or the end of _disconnect: the event is
\* the manager's, and another WebSocket of it may be open.
ClearConnected(m) ==
  /\ connected[m]
  /\ \E n \in 1..MaxSockets : socket[<<m, n>>] = "closed"
  /\ connected' = [connected EXCEPT ![m] = FALSE]
  /\ UNCHANGED <<ws, socket, sendVars>>

\* A bus connects the manager again: _connect, which overwrites a _ws that a failed
\* attempt has left.
Connect(m) ==
  /\ \E n \in 1..MaxSockets :
       /\ socket[<<m, n>>] = "none"
       /\ socket' = [socket EXCEPT ![<<m, n>>] = "opening"]
       /\ ws' = [ws EXCEPT ![m] = n]
  /\ UNCHANGED <<connected, sendVars>>

\* on_open, perhaps of a WebSocket that is not _ws any more.
OnOpen(m) ==
  /\ Change(m, {"opening"}, "open")
  /\ connected' = [connected EXCEPT ![m] = TRUE]
  /\ UNCHANGED <<ws, sendVars>>

-----------------------------------------------------------------------------

\* What a thread does inside send.
Continue(s) ==
  \/ CheckConnected(s) \/ Encrypt(s) \/ ReadSocket(s) \/ TakeLock(s)
  \/ WriteFirst(s) \/ WriteRest(s) \/ WriteFails(s)

\* Every thread has made its calls.
Finished ==
  /\ \A s \in Senders : pc[s] = "idle" /\ calls[s] = MaxSends
  /\ UNCHANGED vars

Next ==
  \/ \E s \in Senders : Send(s) \/ SendRefused(s) \/ Continue(s)
  \/ \E m \in Managers : \/ Lose(m) \/ Disconnect(m) \/ ClearConnected(m)
                         \/ Connect(m) \/ OnOpen(m)
  \/ Finished

Spec == Init /\ [][Next]_vars

\* Threads are scheduled, and ws.send returns or raises.  The bound on the calls
\* of the others makes weak fairness enough for a thread that waits for the lock.
FairSpec == Spec /\ \A s \in Senders : WF_vars(Continue(s))

-----------------------------------------------------------------------------
(* Safety. *)

\* No two messages of a session are encrypted with the same nonce, whichever
\* threads send them over whichever managers.
NoncesUnique ==
  \A x, y \in sealed : x.nonce = y.nonce => x = y

\* Two threads may reach a WebSocket in the other order than they drew their nonces,
\* between the lock of the cipher and _send_lock; the messages of one thread, over
\* reconnects too, are on every wire in the order of theirs.
NoncesAscend ==
  \A c \in Sockets : \A i, j \in 1..Len(wire[c]) : \A x, y \in sealed :
    /\ i < j /\ wire[c][i].sender = wire[c][j].sender
    /\ x.sender = wire[c][i].sender /\ x.call = wire[c][i].call
    /\ y.sender = wire[c][j].sender /\ y.call = wire[c][j].call
    => x.nonce <= y.nonce

\* The halves of a message lie next to each other on the wire: nobody writes in
\* between, and only a message at the end of the wire may be cut off.
WireNotTorn ==
  \A c \in Sockets : \A i \in 1..Len(wire[c]) :
    /\ wire[c][i].half = 2 => i > 1 /\ wire[c][i - 1] = [wire[c][i] EXCEPT !.half = 1]
    /\ wire[c][i].half = 1 /\ i < Len(wire[c]) => wire[c][i + 1].half = 2

\* The messages whose writing was completed, as <<socket, index of the end>>.
Ends(s, n) ==
  {e \in UNION {{<<c, i>> : i \in 1..Len(wire[c])} : c \in Sockets} :
     wire[e[1]][e[2]] = [sender |-> s, call |-> n, half |-> 2]}

\* A call of send that returned has put its message on one wire of its manager
\* once, a call that raised has not.
SentExactlyOnce ==
  \A s \in Senders : \A n \in 1..MaxSends :
    /\ Cardinality(Ends(s, n)) = (IF <<s, n>> \in sent THEN 1 ELSE 0)
    /\ \A e \in Ends(s, n) : e[1][1] = ManagerOf[s]

\* The backend can decode what a thread writes and gets what the thread sent
\* (the echo of protocol.py: decode_can_rx of what encode_can_tx made).
WireDecodes ==
  \A s \in Senders :
    pc[s] # "idle" /\ Wellformed(message[s]) =>
      RoundTrip(message[s], data[s]) /\ Forwards(data[s])

-----------------------------------------------------------------------------
(* Liveness, of FairSpec. *)

\* send returns or raises, also when the connection is lost or closed under it.
SendEnds == \A s \in Senders : pc[s] = "check" ~> pc[s] = "idle"
=============================================================================
