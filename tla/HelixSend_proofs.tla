-------------------------- MODULE HelixSend_proofs ---------------------------
(***************************************************************************)
(* Proofs about the send path, for any number of threads, managers, calls, *)
(* WebSockets and nonces, and any messages.                                *)
(***************************************************************************)
EXTENDS HelixSend, HelixCodec_proofs, FiniteSetTheorems

-----------------------------------------------------------------------------
(* Type correctness. *)

\* The part of the types that concerns the threads.
CallsTyped ==
  /\ pc \in [Senders -> {"idle", "check", "encrypt", "read", "lock", "write", "rest"}]
  /\ calls \in [Senders -> 0..MaxSends]
  /\ message \in [Senders -> Messages \cup {NONE}]
  /\ data \in [Senders -> Records \cup {NONE}]
  /\ target \in [Senders -> 0..MaxSockets]
  /\ \A s \in Senders : pc[s] # "idle" => data[s] \in Records /\ calls[s] >= 1
  /\ \A s \in Senders : pc[s] \in {"lock", "write", "rest"} => target[s] >= 1

\* The part that concerns managers, WebSockets and histories.
RestTyped ==
  /\ counter \in Nat
  /\ connected \in [Managers -> BOOLEAN]
  /\ ws \in [Managers -> 0..MaxSockets]
  /\ sendLock \in [Managers -> Senders \cup {NONE}]
  /\ socket \in [Sockets -> {"none", "opening", "open", "closed"}]
  /\ wire \in [Sockets -> Seq(Halves)]
  /\ sealed \subseteq [nonce : Nat, sender : Senders, call : 1..MaxSends]
  /\ sent \subseteq Senders \X (1..MaxSends)

\* A step of a thread inside send keeps the types of its locals.
LEMMA GotoType ==
  ASSUME TypeOK, NEW s \in Senders, NEW from, Goto(s, from, pc'[s]), from # "idle",
         pc'[s] \in {"idle", "check", "encrypt", "read", "lock", "write", "rest"}
  PROVE  /\ pc' \in [Senders -> {"idle", "check", "encrypt", "read", "lock", "write",
                                 "rest"}]
         /\ message' \in [Senders -> Messages \cup {NONE}]
         /\ data' \in [Senders -> Records \cup {NONE}]
         /\ \A t \in Senders : pc'[t] # "idle" => pc[t] # "idle" /\ data'[t] \in Records
         /\ \A t \in Senders : t # s => pc'[t] = pc[t]
BY DEF TypeOK, Goto

\* The variables keep their types; inside send a record has been encoded, and
\* past the test of _ws there is a WebSocket to write to.
THEOREM TypeCorrect == Spec => []TypeOK
<1>1. Init => TypeOK
  BY SendAssumption DEF Init, TypeOK, Sockets
<1>2. TypeOK /\ [Next]_vars => TypeOK'
  <2> SUFFICES ASSUME TypeOK, [Next]_vars PROVE TypeOK'
    OBVIOUS
  <2>0. CallsTyped /\ RestTyped
    BY DEF TypeOK, CallsTyped, RestTyped
  <2>f. /\ UNCHANGED <<pc, calls, message, data, target>> => CallsTyped'
        /\ UNCHANGED <<counter, connected, ws, sendLock, socket, wire, sealed, sent>>
             => RestTyped'
    BY <2>0 DEF CallsTyped, RestTyped
  <2>p. CallsTyped' /\ RestTyped' => TypeOK'
    BY DEF TypeOK, CallsTyped, RestTyped
  <2> USE SendAssumption
  <2>1. ASSUME NEW s \in Senders, Send(s) PROVE TypeOK'
    <3>1. PICK msg \in MessagesOf[s] :
            /\ EncodeCanTx(msg) # ValueError
            /\ message' = [message EXCEPT ![s] = msg]
            /\ data' = [data EXCEPT ![s] = EncodeCanTx(msg)]
      BY <2>1 DEF TypeOK, Send
    <3>2. msg \in Messages
      BY DEF TypeOK
    <3>3. EncodeCanTx(msg) \in Records
      BY <3>1, <3>2, EncodeType
    <3> QED
      BY <2>1, <3>1, <3>2, <3>3 DEF TypeOK, Send, StartCall, connVars
  <2>2. ASSUME NEW s \in Senders, SendRefused(s) PROVE TypeOK'
    <3>1. calls' \in [Senders -> 0..MaxSends] /\ \A t \in Senders : calls'[t] >= calls[t]
      BY <2>2 DEF TypeOK, SendRefused, StartCall
    <3>2. UNCHANGED <<pc, message, data, target>>
      BY <2>2 DEF TypeOK, SendRefused, StartCall
    <3>3. CallsTyped'
      BY <2>0, <3>1, <3>2 DEF CallsTyped
    <3>4. RestTyped'
      BY <2>2, <2>f DEF TypeOK, SendRefused, StartCall, connVars
    <3> QED BY <3>3, <3>4, <2>p
  <2>3. ASSUME NEW s \in Senders, CheckConnected(s) PROVE TypeOK'
    <3>1. Goto(s, "check", pc'[s]) /\ pc'[s] \in {"encrypt", "idle"}
      BY <2>3 DEF TypeOK, CheckConnected, Goto
    <3>2. UNCHANGED <<counter, connected, ws, sendLock, socket, wire, calls, target,
                      sealed, sent>>
      BY <2>3 DEF TypeOK, CheckConnected, connVars
    <3> QED BY <3>1, <3>2, GotoType DEF TypeOK
  <2>4. ASSUME NEW s \in Senders, Encrypt(s) PROVE TypeOK'
    <3>1. calls[s] \in 1..MaxSends
      BY <2>4 DEF TypeOK, Encrypt, Goto
    <3> QED
      BY <2>4, <3>1 DEF TypeOK, Encrypt, Goto, NextCount, connVars
  <2>5. ASSUME NEW s \in Senders, ReadSocket(s) PROVE TypeOK'
    BY <2>5 DEF TypeOK, ReadSocket, Goto, connVars
  <2>6. ASSUME NEW s \in Senders, TakeLock(s) PROVE TypeOK'
    BY <2>6 DEF TypeOK, TakeLock, Goto, connVars
  <2>7. ASSUME NEW s \in Senders, WriteFirst(s) PROVE TypeOK'
    <3>1. Goto(s, "write", pc'[s]) /\ pc'[s] = "rest" /\ target[s] >= 1
      BY <2>7 DEF TypeOK, WriteFirst, Goto
    <3>2. wire' \in [Sockets -> Seq(Halves)]
      <4>1. Half(s, 1) \in Halves
        BY <2>7 DEF TypeOK, WriteFirst, Goto, Half, Halves
      <4>2. SocketOf(s) \in Sockets
        BY <2>7 DEF TypeOK, WriteFirst, Goto, SocketOf, Sockets
      <4>3. Append(wire[SocketOf(s)], Half(s, 1)) \in Seq(Halves)
        BY <4>1, <4>2 DEF TypeOK
      <4>4. wire' = [wire EXCEPT ![SocketOf(s)] = Append(wire[SocketOf(s)], Half(s, 1))]
        BY <2>7 DEF TypeOK, WriteFirst
      <4> QED BY <4>3, <4>4 DEF TypeOK
    <3>3. UNCHANGED <<counter, connected, ws, sendLock, socket, calls, target, sealed,
                      sent>>
      BY <2>7 DEF TypeOK, WriteFirst, connVars
    <3> QED BY <3>1, <3>2, <3>3, GotoType DEF TypeOK
  <2>8. ASSUME NEW s \in Senders, WriteRest(s) PROVE TypeOK'
    <3>1. Goto(s, "rest", pc'[s]) /\ pc'[s] = "idle"
      BY <2>8 DEF TypeOK, WriteRest, Goto
    <3>2. wire' \in [Sockets -> Seq(Halves)]
      <4>1. Half(s, 2) \in Halves
        BY <2>8 DEF TypeOK, WriteRest, Goto, Half, Halves
      <4>2. SocketOf(s) \in Sockets
        BY <2>8 DEF TypeOK, WriteRest, Goto, SocketOf, Sockets
      <4>3. Append(wire[SocketOf(s)], Half(s, 2)) \in Seq(Halves)
        BY <4>1, <4>2 DEF TypeOK
      <4>4. wire' = [wire EXCEPT ![SocketOf(s)] = Append(wire[SocketOf(s)], Half(s, 2))]
        BY <2>8 DEF TypeOK, WriteRest
      <4> QED BY <4>3, <4>4 DEF TypeOK
    <3>3. sent' \subseteq Senders \X (1..MaxSends)
      BY <2>8 DEF TypeOK, WriteRest, Goto
    <3>4. /\ sendLock' \in [Managers -> Senders \cup {NONE}]
          /\ target' = [target EXCEPT ![s] = 0]
          /\ UNCHANGED <<counter, connected, ws, socket, calls, sealed>>
      BY <2>8 DEF TypeOK, WriteRest, connVars
    <3>5. CallsTyped'
      <4>1. /\ pc' \in [Senders -> {"idle", "check", "encrypt", "read", "lock", "write",
                                     "rest"}]
            /\ message' \in [Senders -> Messages \cup {NONE}]
            /\ data' \in [Senders -> Records \cup {NONE}]
            /\ \A t \in Senders : pc'[t] # "idle" => pc[t] # "idle" /\ data'[t] \in Records
            /\ \A t \in Senders : t # s => pc'[t] = pc[t]
        BY <3>1, GotoType
      <4>2. target' \in [Senders -> 0..MaxSockets] /\ calls' = calls
        BY <2>0, <3>4 DEF CallsTyped
      <4>3. \A t \in Senders : pc'[t] \in {"lock", "write", "rest"} => target'[t] >= 1
        BY <2>0, <3>1, <3>4, <4>1 DEF CallsTyped
      <4>4. \A t \in Senders : pc'[t] # "idle" => data'[t] \in Records /\ calls'[t] >= 1
        BY <2>0, <4>1, <4>2 DEF CallsTyped
      <4> QED BY <2>0, <4>1, <4>2, <4>3, <4>4 DEF CallsTyped
    <3>6. RestTyped'
      BY <2>0, <3>2, <3>3, <3>4 DEF RestTyped
    <3> QED BY <3>5, <3>6, <2>p
  <2>9. ASSUME NEW s \in Senders, WriteFails(s) PROVE TypeOK'
    <3>1. Goto(s, pc[s], pc'[s]) /\ pc'[s] = "idle" /\ pc[s] # "idle"
      BY <2>9 DEF TypeOK, WriteFails, Goto
    <3>2. /\ sendLock' \in [Managers -> Senders \cup {NONE}]
          /\ target' = [target EXCEPT ![s] = 0]
          /\ UNCHANGED <<counter, connected, ws, socket, wire, calls, sealed, sent>>
      BY <2>9 DEF TypeOK, WriteFails, connVars
    <3>3. CallsTyped'
      <4>1. /\ pc' \in [Senders -> {"idle", "check", "encrypt", "read", "lock", "write",
                                     "rest"}]
            /\ message' \in [Senders -> Messages \cup {NONE}]
            /\ data' \in [Senders -> Records \cup {NONE}]
            /\ \A t \in Senders : pc'[t] # "idle" => pc[t] # "idle" /\ data'[t] \in Records
            /\ \A t \in Senders : t # s => pc'[t] = pc[t]
        BY <3>1, GotoType
      <4>2. target' \in [Senders -> 0..MaxSockets] /\ calls' = calls
        BY <2>0, <3>2 DEF CallsTyped
      <4>3. \A t \in Senders : pc'[t] \in {"lock", "write", "rest"} => target'[t] >= 1
        BY <2>0, <3>1, <3>2, <4>1 DEF CallsTyped
      <4>4. \A t \in Senders : pc'[t] # "idle" => data'[t] \in Records /\ calls'[t] >= 1
        BY <2>0, <4>1, <4>2 DEF CallsTyped
      <4> QED BY <2>0, <4>1, <4>2, <4>3, <4>4 DEF CallsTyped
    <3>4. RestTyped'
      BY <2>0, <3>2 DEF RestTyped
    <3> QED BY <3>3, <3>4, <2>p
  <2>10. ASSUME NEW m \in Managers,
                \/ Lose(m) \/ Disconnect(m) \/ ClearConnected(m) \/ Connect(m)
                \/ OnOpen(m)
         PROVE  TypeOK'
    <3>1. UNCHANGED <<pc, calls, message, data, target, counter, sendLock, wire,
                      sealed, sent>>
      BY <2>10 DEF Lose, Disconnect, ClearConnected, Connect, OnOpen, sendVars, locals
    <3>2. /\ connected' \in [Managers -> BOOLEAN]
          /\ ws' \in [Managers -> 0..MaxSockets]
          /\ socket' \in [Sockets -> {"none", "opening", "open", "closed"}]
      <4>1. CASE Lose(m)
        <5>1. PICK n \in 1..MaxSockets : socket' = [socket EXCEPT ![<<m, n>>] = "closed"]
          BY <4>1 DEF Lose, Change
        <5> QED BY <2>0, <4>1, <5>1 DEF RestTyped, Lose
      <4>2. CASE Disconnect(m)
        <5>1. 0 \in 0..MaxSockets
          OBVIOUS
        <5>2. UNCHANGED connected
          BY <4>2 DEF Disconnect
        <5> QED BY <2>0, <4>2, <5>1, <5>2 DEF RestTyped, Disconnect
      <4>3. CASE ClearConnected(m)
        BY <2>0, <4>3 DEF RestTyped, ClearConnected
      <4>4. CASE Connect(m)
        <5>1. PICK n \in 1..MaxSockets : /\ socket' = [socket EXCEPT ![<<m, n>>] = "opening"]
                                         /\ ws' = [ws EXCEPT ![m] = n]
          BY <4>4 DEF Connect
        <5>2. n \in 0..MaxSockets /\ UNCHANGED connected
          BY <4>4 DEF Connect
        <5> QED BY <2>0, <5>1, <5>2 DEF RestTyped
      <4>5. CASE OnOpen(m)
        <5>1. PICK n \in 1..MaxSockets : socket' = [socket EXCEPT ![<<m, n>>] = "open"]
          BY <4>5 DEF OnOpen, Change
        <5> QED BY <2>0, <4>5, <5>1 DEF RestTyped, OnOpen
      <4> QED BY <2>10, <4>1, <4>2, <4>3, <4>4, <4>5
    <3>3. RestTyped'
      BY <2>0, <3>1, <3>2 DEF RestTyped
    <3> QED BY <2>f, <3>1, <3>3, <2>p
  <2>11. CASE UNCHANGED vars
    BY <2>11, <2>f, <2>p DEF vars
  <2> QED
    BY <2>1, <2>2, <2>3, <2>4, <2>5, <2>6, <2>7, <2>8, <2>9, <2>10, <2>11
       DEF Next, Continue, Finished
<1> QED BY <1>1, <1>2, PTL DEF Spec

-----------------------------------------------------------------------------
(* Nonces. *)

\* The counter is ahead of every nonce that was used.
NonceInv ==
  /\ \A x \in sealed : x.nonce < counter
  /\ NoncesUnique

\* No nonce is used for two messages, whichever threads encrypt them, and also
\* when the counter reaches its limit.
THEOREM Nonces == Spec => []NoncesUnique
<1>1. Init => NonceInv
  BY DEF Init, NonceInv, NoncesUnique
<1>2. TypeOK /\ NonceInv /\ [Next]_vars => NonceInv'
  <2> SUFFICES ASSUME TypeOK, NonceInv, [Next]_vars PROVE NonceInv'
    OBVIOUS
  <2>1. ASSUME NEW s \in Senders, Encrypt(s) PROVE NonceInv'
    <3>1. counter \in Nat /\ counter' = counter + 1
      BY <2>1 DEF TypeOK, Encrypt, NextCount
    <3>2. \A x \in sealed : x.nonce \in Nat
      BY DEF TypeOK
    <3>3. \A x \in sealed' :
            x \in sealed \/ x = [nonce |-> counter, sender |-> s, call |-> calls[s]]
      BY <2>1 DEF Encrypt
    <3> QED
      BY <3>1, <3>2, <3>3 DEF NonceInv, NoncesUnique
  <2>2. CASE UNCHANGED <<counter, sealed>>
    BY <2>2 DEF NonceInv, NoncesUnique
  <2>3. ASSUME NEW s \in Senders,
               \/ Send(s) \/ SendRefused(s) \/ CheckConnected(s) \/ ReadSocket(s)
               \/ TakeLock(s) \/ WriteFirst(s) \/ WriteRest(s) \/ WriteFails(s)
        PROVE  UNCHANGED <<counter, sealed>>
    BY <2>3 DEF Send, SendRefused, StartCall, CheckConnected, ReadSocket, TakeLock,
                WriteFirst, WriteRest, WriteFails
  <2>4. ASSUME NEW m \in Managers,
               \/ Lose(m) \/ Disconnect(m) \/ ClearConnected(m) \/ Connect(m)
               \/ OnOpen(m)
        PROVE  UNCHANGED <<counter, sealed>>
    BY <2>4 DEF Lose, Disconnect, ClearConnected, Connect, OnOpen, sendVars
  <2> QED
    BY <2>1, <2>2, <2>3, <2>4 DEF Next, Continue, Finished, vars
<1>3. NonceInv => NoncesUnique
  BY DEF NonceInv
<1> QED BY <1>1, <1>2, <1>3, TypeCorrect, PTL DEF Spec

-----------------------------------------------------------------------------
(* What is written can be decoded. *)

\* Inside send, the record is what encode_can_tx made of the message.
Encoded ==
  \A s \in Senders : pc[s] # "idle" =>
    message[s] \in Messages /\ data[s] = EncodeCanTx(message[s])

\* Every record that a thread is about to write is one that the other side
\* decodes to what the thread sent.
THEOREM Decodes == Spec => []WireDecodes
<1>1. Init => Encoded
  BY DEF Init, Encoded
<1>2. TypeOK /\ Encoded /\ [Next]_vars => Encoded'
  <2> SUFFICES ASSUME TypeOK, Encoded, [Next]_vars PROVE Encoded'
    OBVIOUS
  <2> USE SendAssumption DEF TypeOK, Encoded
  <2>1. ASSUME NEW s \in Senders, Send(s) PROVE Encoded'
    <3>1. PICK msg \in MessagesOf[s] :
            /\ message' = [message EXCEPT ![s] = msg]
            /\ data' = [data EXCEPT ![s] = EncodeCanTx(msg)]
      BY <2>1 DEF Send
    <3>2. msg \in Messages /\ pc' = [pc EXCEPT ![s] = "check"]
      BY <2>1 DEF Send
    <3> QED BY <3>1, <3>2
  <2>2. ASSUME NEW s \in Senders, NEW from, NEW to, Goto(s, from, to),
               from # "idle"
        PROVE  Encoded'
    BY <2>2 DEF Goto
  <2>3. ASSUME NEW s \in Senders, Continue(s) PROVE Encoded'
    <3>1. CASE CheckConnected(s) BY <3>1, <2>2 DEF CheckConnected
    <3>2. CASE Encrypt(s) BY <3>2, <2>2 DEF Encrypt
    <3>3. CASE ReadSocket(s) BY <3>3, <2>2 DEF ReadSocket
    <3>4. CASE TakeLock(s) BY <3>4, <2>2 DEF TakeLock
    <3>5. CASE WriteFirst(s) BY <3>5, <2>2 DEF WriteFirst
    <3>6. CASE WriteRest(s) BY <3>6, <2>2 DEF WriteRest
    <3>7. CASE WriteFails(s) BY <3>7, <2>2 DEF WriteFails
    <3> QED BY <2>3, <3>1, <3>2, <3>3, <3>4, <3>5, <3>6, <3>7 DEF Continue
  <2>4. CASE UNCHANGED <<pc, message, data>>
    BY <2>4
  <2>5. ASSUME NEW s \in Senders, SendRefused(s) PROVE UNCHANGED <<pc, message, data>>
    BY <2>5 DEF SendRefused
  <2>6. ASSUME NEW m \in Managers,
               \/ Lose(m) \/ Disconnect(m) \/ ClearConnected(m) \/ Connect(m)
               \/ OnOpen(m)
        PROVE  UNCHANGED <<pc, message, data>>
    BY <2>6 DEF Lose, Disconnect, ClearConnected, Connect, OnOpen, sendVars, locals
  <2> QED
    BY <2>1, <2>3, <2>4, <2>5, <2>6 DEF Next, Finished, vars
<1>3. TypeOK /\ Encoded => WireDecodes
  BY CodecRoundTrip, CodecAssumption DEF TypeOK, Encoded, WireDecodes
<1> QED BY <1>1, <1>2, <1>3, TypeCorrect, PTL DEF Spec

-----------------------------------------------------------------------------
(* The wire. *)

Last(c) == wire[c][Len(wire[c])]

Writing(s) == pc[s] \in {"write", "rest"}

\* A thread that writes holds _send_lock.
LockHeld ==
  \A s \in Senders : Writing(s) => sendLock[ManagerOf[s]] = s

\* Nothing was written to a WebSocket before it was open.
UsedWasOpen ==
  \A c \in Sockets : wire[c] # <<>> => socket[c] \in {"open", "closed"}

\* In the middle of writing, the first half is the end of the wire.
FirstIsLast ==
  \A s \in Senders : pc[s] = "rest" =>
    wire[SocketOf(s)] # <<>> /\ Last(SocketOf(s)) = Half(s, 1)

\* A first half at the end of an open wire belongs to a thread that goes on.
HalfIsWritten ==
  \A c \in Sockets : socket[c] = "open" /\ wire[c] # <<>> /\ Last(c).half = 1 =>
    \E s \in Senders : pc[s] = "rest" /\ SocketOf(s) = c

WireInv == LockHeld /\ UsedWasOpen /\ FirstIsLast /\ HalfIsWritten /\ WireNotTorn

\* What Append does to the end and to the inside of a wire.
LEMMA Appending ==
  ASSUME NEW w \in Seq(Halves), NEW h \in Halves
  PROVE  /\ Len(Append(w, h)) = Len(w) + 1
         /\ Append(w, h)[Len(w) + 1] = h
         /\ \A i \in 1..Len(w) : Append(w, h)[i] = w[i]
         /\ Append(w, h) # <<>>
         /\ Len(w) \in Nat
         /\ w # <<>> <=> Len(w) > 0
OBVIOUS

\* Two threads never write to one manager's WebSocket at the same time.
LEMMA OneWriter ==
  ASSUME TypeOK, LockHeld, NEW s \in Senders, NEW t \in Senders,
         Writing(s), Writing(t), ManagerOf[s] = ManagerOf[t]
  PROVE  s = t
BY DEF LockHeld

\* A thread past the test of _ws writes to a WebSocket of its manager.
LEMMA Targets ==
  ASSUME TypeOK, NEW s \in Senders, Writing(s)
  PROVE  SocketOf(s) \in Sockets /\ calls[s] \in 1..MaxSends
BY SendAssumption DEF TypeOK, Writing, SocketOf, Sockets

\* The first half of a message goes behind a complete one.
LEMMA FirstHalfFits ==
  ASSUME TypeOK, WireInv, NEW s \in Senders, WriteFirst(s)
  PROVE  LET c == SocketOf(s) IN
         /\ c \in Sockets /\ wire[c] \in Seq(Halves) /\ Half(s, 1) \in Halves
         /\ wire[c] # <<>> => Last(c).half = 2
         /\ wire' = [wire EXCEPT ![c] = Append(wire[c], Half(s, 1))]
<1> DEFINE c == SocketOf(s)
<1>1. pc[s] = "write" /\ socket[c] = "open" /\ Writing(s)
  BY DEF WriteFirst, Goto, Writing
<1>2. c \in Sockets /\ calls[s] \in 1..MaxSends /\ wire[c] \in Seq(Halves)
  BY <1>1, Targets DEF TypeOK
<1>3. Half(s, 1) \in Halves
  BY <1>2 DEF Half, Halves
<1>4. ASSUME wire[c] # <<>> PROVE Last(c).half = 2
  <2>1. Last(c) \in Halves
    BY <1>2, <1>4 DEF Last
  <2>2. ASSUME Last(c).half = 1 PROVE FALSE
    <3>1. PICK t \in Senders : pc[t] = "rest" /\ SocketOf(t) = c
      BY <1>1, <1>2, <1>4, <2>2 DEF WireInv, HalfIsWritten
    <3>2. ManagerOf[t] = ManagerOf[s] /\ Writing(t)
      BY <3>1 DEF SocketOf, Writing
    <3>3. t = s
      BY <1>1, <3>2, OneWriter DEF WireInv
    <3> QED BY <1>1, <3>1, <3>3
  <2> QED BY <2>1, <2>2 DEF Halves
<1>5. wire' = [wire EXCEPT ![c] = Append(wire[c], Half(s, 1))]
  BY DEF WriteFirst
<1> QED BY <1>2, <1>3, <1>4, <1>5

\* The second half of a message goes behind its first half.
LEMMA SecondHalfFits ==
  ASSUME TypeOK, WireInv, NEW s \in Senders, WriteRest(s)
  PROVE  LET c == SocketOf(s) IN
         /\ c \in Sockets /\ wire[c] \in Seq(Halves) /\ Half(s, 2) \in Halves
         /\ wire[c] # <<>> /\ Last(c) = Half(s, 1)
         /\ wire' = [wire EXCEPT ![c] = Append(wire[c], Half(s, 2))]
<1> DEFINE c == SocketOf(s)
<1>1. pc[s] = "rest" /\ Writing(s)
  BY DEF WriteRest, Goto, Writing
<1>2. c \in Sockets /\ calls[s] \in 1..MaxSends /\ wire[c] \in Seq(Halves)
  BY <1>1, Targets DEF TypeOK
<1>3. Half(s, 2) \in Halves
  BY <1>2 DEF Half, Halves
<1>4. wire[c] # <<>> /\ Last(c) = Half(s, 1)
  BY <1>1 DEF WireInv, FirstIsLast
<1>5. wire' = [wire EXCEPT ![c] = Append(wire[c], Half(s, 2))]
  BY DEF WriteRest
<1> QED BY <1>2, <1>3, <1>4, <1>5

\* A step outside of ws.send does not touch the wire.
LEMMA OutsideStep ==
  ASSUME TypeOK, WireInv, NEW s \in Senders, ~Writing(s), ~Writing(s)',
         \A t \in Senders \ {s} :
           pc'[t] = pc[t] /\ calls'[t] = calls[t] /\ target'[t] = target[t],
         UNCHANGED <<wire, socket, sendLock>>
  PROVE  WireInv'
<1>1. LockHeld'
  BY DEF WireInv, LockHeld, Writing
<1>2. UsedWasOpen' /\ WireNotTorn'
  BY DEF WireInv, UsedWasOpen, WireNotTorn
<1>3. \A t \in Senders : pc'[t] = "rest" => /\ pc[t] = "rest"
                                           /\ SocketOf(t)' = SocketOf(t)
                                           /\ Half(t, 1)' = Half(t, 1)
  BY DEF Writing, SocketOf, Half
<1>4. \A t \in Senders : pc[t] = "rest" => /\ pc'[t] = "rest"
                                          /\ SocketOf(t)' = SocketOf(t)
  BY DEF Writing, SocketOf
<1>5. \A c : Last(c)' = Last(c)
  BY DEF Last
<1>6. FirstIsLast'
  BY <1>3, <1>5 DEF WireInv, FirstIsLast
<1>7. HalfIsWritten'
  BY <1>4, <1>5 DEF WireInv, HalfIsWritten
<1> QED BY <1>1, <1>2, <1>6, <1>7 DEF WireInv

\* A WebSocket that changes its state is one that nothing was written to, or
\* closes.
LEMMA SocketStep ==
  ASSUME TypeOK, WireInv, NEW c \in Sockets, NEW state \in {"opening", "open", "closed"},
         socket' = [socket EXCEPT ![c] = state],
         state # "closed" => socket[c] \in {"none", "opening"},
         UNCHANGED <<pc, calls, target, wire, sendLock>>
  PROVE  WireInv'
<1>1. LockHeld' /\ WireNotTorn'
  BY DEF WireInv, LockHeld, Writing, WireNotTorn
<1>2. state # "closed" => wire[c] = <<>>
  BY DEF WireInv, UsedWasOpen
<1>3. UsedWasOpen'
  BY <1>2 DEF WireInv, UsedWasOpen, TypeOK
<1>4. \A t \in Senders : SocketOf(t)' = SocketOf(t) /\ Half(t, 1)' = Half(t, 1)
  BY DEF SocketOf, Half
<1>5. \A d : Last(d)' = Last(d)
  BY DEF Last
<1>6. FirstIsLast'
  BY <1>4, <1>5 DEF WireInv, FirstIsLast
<1>7. HalfIsWritten'
  <2>1. ASSUME NEW d \in Sockets, socket'[d] = "open", wire[d] # <<>>
        PROVE  socket[d] = "open"
    BY <1>2, <2>1 DEF TypeOK
  <2> QED BY <1>4, <1>5, <2>1 DEF WireInv, HalfIsWritten
<1> QED BY <1>1, <1>3, <1>6, <1>7 DEF WireInv

LEMMA TakeLockStep ==
  ASSUME TypeOK, WireInv, NEW s \in Senders, TakeLock(s)
  PROVE  WireInv'
<1>1. /\ pc[s] = "lock" /\ pc' = [pc EXCEPT ![s] = "write"]
      /\ sendLock[ManagerOf[s]] = NONE
      /\ sendLock' = [sendLock EXCEPT ![ManagerOf[s]] = s]
      /\ UNCHANGED <<wire, target, socket, calls>>
  BY DEF TakeLock, Goto, LockFree, connVars
<1>2. LockHeld'
  <2>1. ASSUME NEW t \in Senders, Writing(t)' PROVE sendLock'[ManagerOf[t]] = t
    <3>1. CASE t = s
      BY <1>1, <3>1, SendAssumption DEF TypeOK
    <3>2. CASE t # s
      <4>1. Writing(t)
        BY <1>1, <2>1, <3>2 DEF Writing, TypeOK
      <4>2. sendLock[ManagerOf[t]] = t /\ t # NONE
        BY <4>1, SendAssumption DEF WireInv, LockHeld
      <4> QED BY <1>1, <4>2 DEF TypeOK
    <3> QED BY <3>1, <3>2
  <2> QED BY <2>1 DEF LockHeld
<1>3. UsedWasOpen' /\ WireNotTorn'
  BY <1>1 DEF WireInv, UsedWasOpen, WireNotTorn
<1>4. \A t \in Senders : /\ pc'[t] = "rest" <=> pc[t] = "rest"
                        /\ SocketOf(t)' = SocketOf(t) /\ Half(t, 1)' = Half(t, 1)
  BY <1>1 DEF SocketOf, Half, TypeOK
<1>5. \A d : Last(d)' = Last(d)
  BY <1>1 DEF Last
<1>6. FirstIsLast'
  BY <1>1, <1>4, <1>5 DEF WireInv, FirstIsLast
<1>7. HalfIsWritten'
  BY <1>1, <1>4, <1>5 DEF WireInv, HalfIsWritten
<1> QED BY <1>2, <1>3, <1>6, <1>7 DEF WireInv

LEMMA WriteFirstStep ==
  ASSUME TypeOK, WireInv, NEW s \in Senders, WriteFirst(s)
  PROVE  WireInv'
<1> DEFINE c == SocketOf(s)
<1>1. /\ pc[s] = "write" /\ pc' = [pc EXCEPT ![s] = "rest"]
      /\ socket[c] = "open"
      /\ UNCHANGED <<sendLock, target, socket, calls>>
  BY DEF WriteFirst, Goto, connVars
<1>2. /\ c \in Sockets /\ wire[c] \in Seq(Halves) /\ Half(s, 1) \in Halves
      /\ wire[c] # <<>> => Last(c).half = 2
      /\ wire' = [wire EXCEPT ![c] = Append(wire[c], Half(s, 1))]
  BY FirstHalfFits
<1>3. wire'[c] = Append(wire[c], Half(s, 1)) /\ \A d \in Sockets \ {c} : wire'[d] = wire[d]
  BY <1>2 DEF TypeOK
<1>4. LockHeld'
  BY <1>1 DEF WireInv, LockHeld, Writing, TypeOK
<1>5. UsedWasOpen'
  BY <1>1, <1>3 DEF WireInv, UsedWasOpen
<1>6. \A t \in Senders : SocketOf(t)' = SocketOf(t) /\ Half(t, 1)' = Half(t, 1)
  BY <1>1 DEF SocketOf, Half
<1>7. /\ Last(c)' = Half(s, 1) /\ wire'[c] # <<>>
      /\ \A d \in Sockets \ {c} : Last(d)' = Last(d)
  <2>1. /\ Len(wire'[c]) = Len(wire[c]) + 1 /\ wire'[c] # <<>>
        /\ wire'[c][Len(wire[c]) + 1] = Half(s, 1)
    BY <1>2, <1>3, Appending
  <2>2. SocketOf(s)' = c
    BY <1>6
  <2>3. wire'[c][Len(wire'[c])] = Half(s, 1)
    BY <2>1
  <2>4. \A d \in Sockets \ {c} : Last(d)' = Last(d)
    BY <1>3 DEF Last
  <2> QED BY <2>1, <2>2, <2>3, <2>4 DEF Last
<1>8. FirstIsLast'
  <2>1. ASSUME NEW t \in Senders, pc'[t] = "rest"
        PROVE  wire'[SocketOf(t)] # <<>> /\ Last(SocketOf(t))' = Half(t, 1)
    <3>1. CASE t = s
      BY <1>1, <1>7, <3>1 DEF Last, SocketOf
    <3>2. CASE t # s
      <4>1. pc[t] = "rest" /\ Writing(t) /\ Writing(s)
        BY <1>1, <2>1, <3>2 DEF Writing, TypeOK
      <4>2. SocketOf(t) # c /\ SocketOf(t) \in Sockets
        BY <3>2, <4>1, OneWriter, Targets DEF SocketOf, WireInv
      <4>3. Last(SocketOf(t))' = Last(SocketOf(t)) /\ wire'[SocketOf(t)] = wire[SocketOf(t)]
        BY <1>3, <1>6, <4>2 DEF Last
      <4> QED BY <4>1, <4>3 DEF WireInv, FirstIsLast
    <3> QED BY <3>1, <3>2
  <2> QED BY <1>6, <2>1 DEF FirstIsLast
<1>9. HalfIsWritten'
  <2>1. ASSUME NEW d \in Sockets, socket'[d] = "open", wire'[d] # <<>>, Last(d)'.half = 1
        PROVE  \E t \in Senders : pc'[t] = "rest" /\ SocketOf(t) = d
    <3>1. CASE d = c
      BY <1>1, <3>1 DEF TypeOK
    <3>2. CASE d # c
      <4>1. PICK t \in Senders : pc[t] = "rest" /\ SocketOf(t) = d
        BY <1>1, <1>3, <1>7, <2>1, <3>2 DEF WireInv, HalfIsWritten
      <4>2. pc'[t] = "rest"
        BY <1>1, <4>1 DEF TypeOK
      <4> QED BY <4>1, <4>2
    <3> QED BY <3>1, <3>2
  <2> QED BY <1>6, <2>1 DEF HalfIsWritten
<1>10. WireNotTorn'
  <2>1. ASSUME NEW d \in Sockets, NEW i \in 1..Len(wire'[d])
        PROVE  /\ wire'[d][i].half = 2 =>
                     i > 1 /\ wire'[d][i - 1] = [wire'[d][i] EXCEPT !.half = 1]
               /\ wire'[d][i].half = 1 /\ i < Len(wire'[d]) => wire'[d][i + 1].half = 2
    <3>1. CASE d # c
      BY <1>3, <2>1, <3>1 DEF WireInv, WireNotTorn
    <3>2. CASE d = c /\ i = Len(wire[c]) + 1
      <4>1. wire'[d][i].half = 1 /\ Len(wire'[d]) = i
        BY <1>2, <1>3, <3>2, Appending DEF Half
      <4> QED BY <4>1
    <3>3. CASE d = c /\ i # Len(wire[c]) + 1
      <4> DEFINE w == wire[c]
      <4>1. /\ i \in 1..Len(w) /\ Len(w) \in Nat /\ w # <<>>
            /\ wire'[d][i] = w[i] /\ Len(wire'[d]) = Len(w) + 1
        BY <1>2, <1>3, <2>1, <3>3, Appending
      <4>2. w[i].half = 2 => i > 1 /\ w[i - 1] = [w[i] EXCEPT !.half = 1]
        BY <1>2, <4>1 DEF WireInv, WireNotTorn
      <4>3. w[i].half = 1 /\ i < Len(w) => w[i + 1].half = 2
        BY <1>2, <4>1 DEF WireInv, WireNotTorn
      <4>4. i > 1 => wire'[d][i - 1] = w[i - 1]
        BY <1>2, <1>3, <3>3, <4>1, Appending
      <4>5. i < Len(w) => wire'[d][i + 1] = w[i + 1]
        BY <1>2, <1>3, <3>3, <4>1, Appending
      <4>6. i = Len(w) => w[i].half = 2
        BY <1>2, <4>1 DEF Last
      <4>7. ASSUME w[i].half = 1, i < Len(wire'[d]) PROVE i < Len(w)
        BY <4>1, <4>6, <4>7
      <4> QED BY <4>1, <4>2, <4>3, <4>4, <4>5, <4>7
    <3> QED BY <3>1, <3>2, <3>3
  <2> QED BY <2>1 DEF WireNotTorn
<1> QED BY <1>4, <1>5, <1>8, <1>9, <1>10 DEF WireInv

\* A thread that leaves send gives its lock back and no other thread notices.
LEMMA Leaving ==
  ASSUME TypeOK, WireInv, NEW s \in Senders, Writing(s),
         pc' = [pc EXCEPT ![s] = "idle"],
         target' = [target EXCEPT ![s] = 0],
         sendLock' = [sendLock EXCEPT ![ManagerOf[s]] = NONE],
         UNCHANGED calls
  PROVE  /\ LockHeld'
         /\ \A t \in Senders : pc'[t] = "rest" =>
              /\ pc[t] = "rest" /\ t # s /\ SocketOf(t) # SocketOf(s)
              /\ SocketOf(t) \in Sockets
         /\ \A t \in Senders \ {s} :
              /\ pc'[t] = pc[t]
              /\ SocketOf(t)' = SocketOf(t) /\ Half(t, 1)' = Half(t, 1)
<1>1. \A t \in Senders \ {s} :
        pc'[t] = pc[t] /\ SocketOf(t)' = SocketOf(t) /\ Half(t, 1)' = Half(t, 1)
  BY DEF TypeOK, SocketOf, Half
<1>2. ASSUME NEW t \in Senders, Writing(t)'
      PROVE  t # s /\ Writing(t) /\ ManagerOf[t] # ManagerOf[s] /\ pc'[t] = pc[t]
  <2>1. t # s
    BY <1>2 DEF Writing, TypeOK
  <2>2. pc'[t] = pc[t] /\ Writing(t)
    BY <1>1, <1>2, <2>1 DEF Writing
  <2>3. ManagerOf[t] # ManagerOf[s]
    BY <2>1, <2>2, OneWriter DEF WireInv
  <2> QED BY <2>1, <2>2, <2>3
<1>3. LockHeld'
  <2>1. ASSUME NEW t \in Senders, Writing(t)' PROVE sendLock'[ManagerOf[t]] = t
    <3>1. sendLock[ManagerOf[t]] = t /\ ManagerOf[t] \in Managers
      BY <1>2, <2>1, SendAssumption DEF WireInv, LockHeld
    <3> QED BY <1>2, <2>1, <3>1 DEF TypeOK
  <2> QED BY <2>1 DEF LockHeld
<1>4. ASSUME NEW t \in Senders, pc'[t] = "rest"
      PROVE  /\ pc[t] = "rest" /\ t # s /\ SocketOf(t) # SocketOf(s)
             /\ SocketOf(t) \in Sockets
  <2>1. Writing(t)'
    BY <1>4 DEF Writing
  <2>2. t # s /\ Writing(t) /\ ManagerOf[t] # ManagerOf[s] /\ pc[t] = "rest"
    BY <1>2, <1>4, <2>1
  <2> QED BY <2>2, Targets DEF SocketOf
<1> QED BY <1>1, <1>3, <1>4

LEMMA WriteFailsStep ==
  ASSUME TypeOK, WireInv, NEW s \in Senders, WriteFails(s)
  PROVE  WireInv'
<1>1. /\ Writing(s) /\ pc' = [pc EXCEPT ![s] = "idle"]
      /\ target' = [target EXCEPT ![s] = 0]
      /\ sendLock' = [sendLock EXCEPT ![ManagerOf[s]] = NONE]
      /\ socket[SocketOf(s)] # "open"
      /\ UNCHANGED <<wire, socket, calls>>
  BY DEF WriteFails, Goto, connVars, Writing
<1>2. /\ LockHeld'
      /\ \A t \in Senders : pc'[t] = "rest" => pc[t] = "rest" /\ t # s
      /\ \A t \in Senders \ {s} :
           pc'[t] = pc[t] /\ SocketOf(t)' = SocketOf(t) /\ Half(t, 1)' = Half(t, 1)
  BY <1>1, Leaving
<1>3. UsedWasOpen' /\ WireNotTorn'
  BY <1>1 DEF WireInv, UsedWasOpen, WireNotTorn
<1>4. \A d : Last(d)' = Last(d)
  BY <1>1 DEF Last
<1>5. FirstIsLast'
  BY <1>1, <1>2, <1>4 DEF WireInv, FirstIsLast
<1>6. HalfIsWritten'
  <2>1. ASSUME NEW d \in Sockets, socket'[d] = "open", wire'[d] # <<>>, Last(d)'.half = 1
        PROVE  \E t \in Senders : pc'[t] = "rest" /\ SocketOf(t)' = d
    <3>1. PICK t \in Senders : pc[t] = "rest" /\ SocketOf(t) = d
      BY <1>1, <1>4, <2>1 DEF WireInv, HalfIsWritten
    <3>2. t # s
      BY <1>1, <2>1, <3>1
    <3> QED BY <1>2, <3>1, <3>2
  <2> QED BY <2>1 DEF HalfIsWritten
<1> QED BY <1>2, <1>3, <1>5, <1>6 DEF WireInv

LEMMA WriteRestStep ==
  ASSUME TypeOK, WireInv, NEW s \in Senders, WriteRest(s)
  PROVE  WireInv'
<1> DEFINE c == SocketOf(s)
<1>1. /\ pc[s] = "rest" /\ Writing(s) /\ pc' = [pc EXCEPT ![s] = "idle"]
      /\ target' = [target EXCEPT ![s] = 0]
      /\ sendLock' = [sendLock EXCEPT ![ManagerOf[s]] = NONE]
      /\ socket[c] = "open"
      /\ UNCHANGED <<socket, calls>>
  BY DEF WriteRest, Goto, connVars, Writing
<1>2. /\ LockHeld'
      /\ \A t \in Senders : pc'[t] = "rest" =>
           /\ pc[t] = "rest" /\ t # s /\ SocketOf(t) # c /\ SocketOf(t) \in Sockets
      /\ \A t \in Senders \ {s} :
           pc'[t] = pc[t] /\ SocketOf(t)' = SocketOf(t) /\ Half(t, 1)' = Half(t, 1)
  BY <1>1, Leaving
<1>3. PICK w \in Seq(Halves) :
        /\ w = wire[c] /\ c \in Sockets /\ Half(s, 2) \in Halves
        /\ w # <<>> /\ w[Len(w)] = Half(s, 1)
        /\ wire'[c] = Append(w, Half(s, 2))
        /\ \A d \in Sockets \ {c} : wire'[d] = wire[d]
  BY SecondHalfFits DEF TypeOK, Last
<1>4. /\ Len(wire'[c]) = Len(w) + 1 /\ wire'[c][Len(w) + 1] = Half(s, 2)
      /\ \A i \in 1..Len(w) : wire'[c][i] = w[i]
      /\ Len(w) \in Nat /\ Len(w) > 0
  BY <1>3, Appending
<1>5. \A d \in Sockets \ {c} : Last(d)' = Last(d)
  BY <1>3 DEF Last
<1>6. UsedWasOpen'
  BY <1>1, <1>3 DEF WireInv, UsedWasOpen
<1>7. FirstIsLast'
  <2>1. ASSUME NEW t \in Senders, pc'[t] = "rest"
        PROVE  wire'[SocketOf(t)'] # <<>> /\ Last(SocketOf(t))' = Half(t, 1)'
    <3>1. /\ t # s /\ pc[t] = "rest" /\ SocketOf(t) \in Sockets \ {c}
          /\ SocketOf(t)' = SocketOf(t) /\ Half(t, 1)' = Half(t, 1)
      BY <1>2, <2>1
    <3>2. /\ wire'[SocketOf(t)] = wire[SocketOf(t)]
          /\ wire'[SocketOf(t)'] = wire[SocketOf(t)]
      BY <1>3, <3>1
    <3>3. Last(SocketOf(t))' = Last(SocketOf(t))
      BY <3>1, <3>2 DEF Last
    <3> QED BY <3>1, <3>2, <3>3 DEF WireInv, FirstIsLast
  <2> QED BY <2>1 DEF FirstIsLast
<1>8. HalfIsWritten'
  <2>1. ASSUME NEW d \in Sockets, socket'[d] = "open", wire'[d] # <<>>, Last(d)'.half = 1
        PROVE  \E t \in Senders : pc'[t] = "rest" /\ SocketOf(t)' = d
    <3>1. d # c
      <4>1. wire'[c][Len(wire'[c])].half = 2
        BY <1>4 DEF Half
      <4>2. wire'[d][Len(wire'[d])].half = 1
        BY <2>1 DEF Last
      <4> QED BY <4>1, <4>2
    <3>2. PICK t \in Senders : pc[t] = "rest" /\ SocketOf(t) = d
      BY <1>1, <1>3, <1>5, <2>1, <3>1 DEF WireInv, HalfIsWritten
    <3> QED BY <1>2, <3>1, <3>2
  <2> QED BY <2>1 DEF HalfIsWritten
<1>9. WireNotTorn'
  <2>1. ASSUME NEW d \in Sockets, NEW i \in 1..Len(wire'[d])
        PROVE  /\ wire'[d][i].half = 2 =>
                     i > 1 /\ wire'[d][i - 1] = [wire'[d][i] EXCEPT !.half = 1]
               /\ wire'[d][i].half = 1 /\ i < Len(wire'[d]) => wire'[d][i + 1].half = 2
    <3>1. CASE d # c
      BY <1>3, <2>1, <3>1 DEF WireInv, WireNotTorn
    <3>2. CASE d = c /\ i = Len(w) + 1
      <4>1. wire'[d][i] = Half(s, 2) /\ Len(wire'[d]) = i /\ i > 1
        BY <1>4, <3>2
      <4>2. wire'[d][i - 1] = Half(s, 1)
        BY <1>3, <1>4, <3>2
      <4>3. Half(s, 1) = [Half(s, 2) EXCEPT !.half = 1] /\ Half(s, 2).half = 2
        BY DEF Half
      <4> QED BY <4>1, <4>2, <4>3
    <3>3. CASE d = c /\ i # Len(w) + 1
      <4>1. i \in 1..Len(w) /\ wire'[d][i] = w[i] /\ Len(wire'[d]) = Len(w) + 1
        BY <1>4, <2>1, <3>3
      <4>2. /\ w[i].half = 2 => i > 1 /\ w[i - 1] = [w[i] EXCEPT !.half = 1]
            /\ w[i].half = 1 /\ i < Len(w) => w[i + 1].half = 2
        BY <1>3, <4>1 DEF WireInv, WireNotTorn
      <4>3. i > 1 => wire'[d][i - 1] = w[i - 1]
        BY <1>4, <3>3, <4>1
      <4>4. i < Len(w) => wire'[d][i + 1] = w[i + 1]
        BY <1>4, <3>3, <4>1
      <4>5. i = Len(w) => wire'[d][i + 1].half = 2
        BY <1>4, <3>3 DEF Half
      <4>6. i = Len(w) \/ i < Len(w)
        BY <1>4, <4>1
      <4> QED BY <4>1, <4>2, <4>3, <4>4, <4>5, <4>6
    <3> QED BY <3>1, <3>2, <3>3
  <2> QED BY <2>1 DEF WireNotTorn
<1> QED BY <1>2, <1>6, <1>7, <1>8, <1>9 DEF WireInv

\* The halves of a message lie next to each other on every wire, for any number
\* of threads, managers and WebSockets (_send_lock around ws.send).
THEOREM WireWhole == Spec => []WireNotTorn
<1>1. Init => WireInv
  BY DEF Init, WireInv, LockHeld, UsedWasOpen, FirstIsLast, HalfIsWritten,
         WireNotTorn, Writing
<1>2. TypeOK /\ WireInv /\ [Next]_vars => WireInv'
  <2> SUFFICES ASSUME TypeOK, WireInv, [Next]_vars PROVE WireInv'
    OBVIOUS
  <2>1. ASSUME NEW s \in Senders,
               \/ Send(s) \/ SendRefused(s) \/ CheckConnected(s) \/ Encrypt(s)
               \/ ReadSocket(s)
        PROVE  WireInv'
    <3>1. /\ pc[s] \in {"idle", "check", "encrypt", "read"}
          /\ pc'[s] \in {"idle", "check", "encrypt", "read", "lock"}
          /\ \A t \in Senders \ {s} :
               pc'[t] = pc[t] /\ calls'[t] = calls[t] /\ target'[t] = target[t]
          /\ UNCHANGED <<wire, socket, sendLock>>
      BY <2>1 DEF TypeOK, Send, SendRefused, CheckConnected, Encrypt, ReadSocket,
                  StartCall, Goto, connVars
    <3> QED BY <3>1, OutsideStep DEF Writing
  <2>2. ASSUME NEW m \in Managers,
               \/ Lose(m) \/ Disconnect(m) \/ Connect(m) \/ OnOpen(m)
        PROVE  WireInv'
    <3>1. PICK c \in Sockets, state \in {"opening", "open", "closed"} :
            /\ socket' = [socket EXCEPT ![c] = state]
            /\ state # "closed" => socket[c] \in {"none", "opening"}
      <4>1. ws[m] # 0 => Current(m) \in Sockets
        BY DEF TypeOK, Current, Sockets
      <4>2. CASE Lose(m)
        <5>1. PICK n \in 1..MaxSockets : socket' = [socket EXCEPT ![<<m, n>>] = "closed"]
          BY <4>2 DEF Lose, Change
        <5>2. <<m, n>> \in Sockets
          BY DEF Sockets
        <5> QED BY <5>1, <5>2
      <4>3. CASE Disconnect(m)
        BY <4>1, <4>3 DEF Disconnect
      <4>4. CASE Connect(m)
        <5>1. PICK n \in 1..MaxSockets : /\ socket[<<m, n>>] = "none"
                                        /\ socket' = [socket EXCEPT ![<<m, n>>] = "opening"]
          BY <4>4 DEF Connect
        <5>2. <<m, n>> \in Sockets
          BY DEF Sockets
        <5> QED BY <5>1, <5>2
      <4>5. CASE OnOpen(m)
        <5>1. PICK n \in 1..MaxSockets : /\ socket[<<m, n>>] = "opening"
                                        /\ socket' = [socket EXCEPT ![<<m, n>>] = "open"]
          BY <4>5 DEF OnOpen, Change
        <5>2. <<m, n>> \in Sockets
          BY DEF Sockets
        <5> QED BY <5>1, <5>2
      <4> QED BY <2>2, <4>2, <4>3, <4>4, <4>5
    <3>2. UNCHANGED <<pc, calls, target, wire, sendLock>>
      BY <2>2 DEF Lose, Disconnect, Connect, OnOpen, sendVars
    <3> QED BY <3>1, <3>2, SocketStep
  <2>3. ASSUME UNCHANGED <<pc, calls, target, wire, socket, sendLock>> PROVE WireInv'
    BY <2>3 DEF WireInv, LockHeld, UsedWasOpen, FirstIsLast, HalfIsWritten,
                WireNotTorn, Writing, Last, SocketOf, Half
  <2>4. ASSUME NEW m \in Managers, ClearConnected(m) PROVE WireInv'
    BY <2>3, <2>4 DEF ClearConnected, sendVars
  <2>5. CASE UNCHANGED vars
    BY <2>3, <2>5 DEF vars
  <2> QED
    BY <2>1, <2>2, <2>4, <2>5, TakeLockStep, WriteFirstStep, WriteRestStep,
       WriteFailsStep
    DEF Next, Continue, Finished
<1>3. WireInv => WireNotTorn
  BY DEF WireInv
<1> QED BY <1>1, <1>2, <1>3, TypeCorrect, PTL DEF Spec

-----------------------------------------------------------------------------
(* The order of the nonces on the wire. *)

\* The encryptions of a thread, call by call ...
SealOrder ==
  /\ \A x \in sealed :
       /\ x.nonce < counter
       /\ x.call <= calls[x.sender]
       /\ pc[x.sender] \in {"check", "encrypt"} => x.call < calls[x.sender]
  /\ \A x, y \in sealed : x.sender = y.sender /\ x.call <= y.call => x.nonce <= y.nonce

\* ... and what it has written, call by call.
WireOrder ==
  \A c \in Sockets : \A i \in 1..Len(wire[c]) :
    /\ wire[c][i].call <= calls[wire[c][i].sender]
    /\ \A j \in 1..Len(wire[c]) :
         i < j /\ wire[c][i].sender = wire[c][j].sender => wire[c][i].call <= wire[c][j].call

\* SealOrder is inductive: a thread encrypts call by call, and the counter ascends.
LEMMA SealStep ==
  ASSUME TypeOK, SealOrder, [Next]_vars
  PROVE  SealOrder'
<1>1. /\ calls \in [Senders -> 0..MaxSends] /\ counter \in Nat
      /\ pc \in [Senders -> {"idle", "check", "encrypt", "read", "lock", "write", "rest"}]
      /\ sealed \subseteq [nonce : Nat, sender : Senders, call : 1..MaxSends]
  BY DEF TypeOK
<1>2. MaxSends \in Nat
  BY SendAssumption
<1>3. \A x \in sealed : x.nonce \in Nat /\ x.sender \in Senders /\ x.call \in Nat
  BY <1>1, <1>2
<1>4. ASSUME NEW s \in Senders, Send(s) \/ SendRefused(s) PROVE SealOrder'
  <2>1. /\ UNCHANGED <<counter, sealed>> /\ pc[s] = "idle"
        /\ calls' = [calls EXCEPT ![s] = calls[s] + 1]
        /\ pc' = pc \/ pc' = [pc EXCEPT ![s] = "check"]
    BY <1>4 DEF Send, SendRefused, StartCall
  <2>2. \A x \in sealed : /\ x.call <= calls'[x.sender]
                          /\ pc'[x.sender] \in {"check", "encrypt"} => x.call < calls'[x.sender]
    <3> SUFFICES ASSUME NEW x \in sealed
                 PROVE  /\ x.call <= calls'[x.sender]
                        /\ pc'[x.sender] \in {"check", "encrypt"} => x.call < calls'[x.sender]
      OBVIOUS
    <3>1. x.call <= calls[x.sender] /\ x.call \in Nat /\ calls[x.sender] \in Nat
      BY <1>1, <1>2, <1>3 DEF SealOrder
    <3>2. CASE x.sender = s
      <4>1. calls'[s] = calls[s] + 1
        BY <1>1, <2>1
      <4> QED
        BY <3>1, <3>2, <4>1
    <3>3. CASE x.sender # s
      <4>1. calls'[x.sender] = calls[x.sender] /\ pc'[x.sender] = pc[x.sender]
        BY <1>1, <1>3, <2>1, <3>3
      <4> QED
        BY <3>1, <4>1 DEF SealOrder
    <3> QED
      BY <3>2, <3>3
  <2> QED
    BY <2>1, <2>2 DEF SealOrder
<1>5. ASSUME NEW s \in Senders, Encrypt(s) PROVE SealOrder'
  <2> DEFINE z == [nonce |-> counter, sender |-> s, call |-> calls[s]]
  <2>1. /\ pc[s] = "encrypt" /\ UNCHANGED calls /\ counter' = counter + 1
        /\ pc' = [pc EXCEPT ![s] = IF counter < NonceLimit THEN "read" ELSE "idle"]
        /\ sealed' \subseteq sealed \cup {z}
    BY <1>5 DEF Encrypt, Goto, NextCount
  <2>2. z.nonce = counter /\ z.sender = s /\ z.call = calls[s] /\ calls[s] \in Nat
    BY <1>1, <1>2
  <2>3. \A x \in sealed : x.sender = s => x.call < calls[s] /\ x.nonce <= counter
    BY <1>1, <1>3, <2>1 DEF SealOrder
  <2>4. pc'[s] \notin {"check", "encrypt"} /\ \A u \in Senders \ {s} : pc'[u] = pc[u]
    BY <1>1, <2>1
  <2> HIDE DEF z
  <2>5. \A x \in sealed' : x \in sealed \/ x = z
    BY <2>1
  <2>6. \A x \in sealed' : x.nonce < counter'
    BY <1>1, <1>3, <2>1, <2>2, <2>5 DEF SealOrder
  <2>7. \A x \in sealed' : x.call <= calls'[x.sender]
    BY <1>1, <1>3, <2>1, <2>2, <2>5 DEF SealOrder
  <2>8. \A x \in sealed' : pc'[x.sender] \in {"check", "encrypt"} => x.call < calls'[x.sender]
    BY <1>3, <2>1, <2>2, <2>4, <2>5 DEF SealOrder
  <2>9. \A x, y \in sealed' : x.sender = y.sender /\ x.call <= y.call => x.nonce <= y.nonce
    <3> SUFFICES ASSUME NEW x \in sealed', NEW y \in sealed',
                        x.sender = y.sender, x.call <= y.call
                 PROVE  x.nonce <= y.nonce
      OBVIOUS
    <3>1. CASE x \in sealed /\ y \in sealed
      BY <3>1 DEF SealOrder
    <3>2. CASE x \in sealed /\ y = z
      BY <2>2, <2>3, <3>2
    <3>3. CASE x = z /\ y \in sealed
      BY <1>3, <2>2, <2>3, <3>3
    <3>4. CASE x = z /\ y = z
      BY <1>1, <2>2, <3>4
    <3> QED
      BY <2>5, <3>1, <3>2, <3>3, <3>4
  <2> QED
    BY <2>6, <2>7, <2>8, <2>9 DEF SealOrder
<1>6. ASSUME UNCHANGED <<counter, calls, sealed>>,
             \A s \in Senders : pc'[s] \in {"check", "encrypt"} => pc[s] \in {"check", "encrypt"}
      PROVE  SealOrder'
  BY <1>3, <1>6 DEF SealOrder
<1>7. ASSUME NEW s \in Senders, CheckConnected(s) \/ ReadSocket(s) \/ TakeLock(s)
      PROVE  SealOrder'
  BY <1>1, <1>6, <1>7 DEF CheckConnected, ReadSocket, TakeLock, Goto
<1>8. ASSUME NEW s \in Senders, WriteFirst(s) \/ WriteRest(s) \/ WriteFails(s)
      PROVE  SealOrder'
  BY <1>1, <1>6, <1>8 DEF WriteFirst, WriteRest, WriteFails, Goto
<1>9. ASSUME NEW m \in Managers,
             \/ Lose(m) \/ Disconnect(m) \/ ClearConnected(m) \/ Connect(m) \/ OnOpen(m)
      PROVE  SealOrder'
  BY <1>6, <1>9 DEF Lose, Disconnect, ClearConnected, Connect, OnOpen, sendVars
<1>10. CASE Finished \/ UNCHANGED vars
  BY <1>6, <1>10 DEF Finished, vars
<1> QED
  BY <1>4, <1>5, <1>7, <1>8, <1>9, <1>10 DEF Next, Continue

\* A half that is written belongs to the last call of its thread.
LEMMA WriteOrdered ==
  ASSUME TypeOK, WireOrder, NEW s \in Senders, WriteFirst(s) \/ WriteRest(s)
  PROVE  WireOrder'
<1> DEFINE c == SocketOf(s)
<1>1. c \in Sockets /\ calls[s] \in 1..MaxSends /\ wire[c] \in Seq(Halves) /\ Writing(s)
  BY Targets DEF WriteFirst, WriteRest, Goto, Writing, TypeOK
<1>2. PICK h \in {Half(s, 1), Half(s, 2)} :
        calls' = calls /\ wire' = [wire EXCEPT ![c] = Append(wire[c], h)]
  BY DEF WriteFirst, WriteRest
<1>3. h \in Halves /\ h.sender = s /\ h.call = calls[s]
  BY <1>1, <1>2 DEF Halves, Half
<1>4. \A d \in Sockets : d # c => wire'[d] = wire[d]
  BY <1>2 DEF TypeOK
<1>5. wire'[c] = Append(wire[c], h)
  BY <1>1, <1>2 DEF TypeOK
<1> HIDE DEF c
<1>6. /\ Len(wire'[c]) = Len(wire[c]) + 1 /\ Len(wire[c]) \in Nat
      /\ wire'[c][Len(wire[c]) + 1] = h
      /\ \A i \in 1..Len(wire[c]) : wire'[c][i] = wire[c][i]
  BY <1>1, <1>3, <1>5, Appending
<1>7. \A i \in 1..Len(wire[c]) : wire[c][i].sender = s => wire[c][i].call <= calls[s]
  BY <1>1 DEF WireOrder
<1> SUFFICES ASSUME NEW d \in Sockets, NEW i \in 1..Len(wire'[d])
             PROVE  /\ wire'[d][i].call <= calls[wire'[d][i].sender]
                    /\ \A j \in 1..Len(wire'[d]) :
                         i < j /\ wire'[d][i].sender = wire'[d][j].sender
                           => wire'[d][i].call <= wire'[d][j].call
  BY <1>2 DEF WireOrder
<1>8. CASE d # c
  BY <1>4, <1>8 DEF WireOrder
<1>9. CASE d = c
  <2>1. calls[s] \in Nat
    BY <1>1, SendAssumption
  <2>2. CASE i = Len(wire[c]) + 1
    BY <1>3, <1>6, <1>9, <2>1, <2>2
  <2>3. CASE i \in 1..Len(wire[c])
    <3>1. wire'[c][i] = wire[c][i] /\ wire[c][i].call <= calls[wire[c][i].sender]
      BY <1>1, <1>6, <2>3 DEF WireOrder
    <3>2. ASSUME NEW j \in 1..Len(wire'[c]), i < j,
                 wire[c][i].sender = wire'[c][j].sender
          PROVE  wire[c][i].call <= wire'[c][j].call
      <4>1. CASE j = Len(wire[c]) + 1
        BY <1>3, <1>6, <1>7, <2>3, <3>2, <4>1
      <4>2. CASE j \in 1..Len(wire[c])
        BY <1>1, <1>6, <2>3, <3>2, <4>2 DEF WireOrder
      <4> QED
        BY <1>6, <4>1, <4>2
    <3> QED
      BY <1>9, <3>1, <3>2
  <2> QED
    BY <1>6, <1>9, <2>2, <2>3
<1> QED
  BY <1>8, <1>9

\* WireOrder is inductive.
LEMMA OrderStep ==
  ASSUME TypeOK, WireOrder, [Next]_vars
  PROVE  WireOrder'
<1>1. ASSUME NEW s \in Senders, Send(s) \/ SendRefused(s) PROVE WireOrder'
  <2>1. wire' = wire /\ calls' = [calls EXCEPT ![s] = calls[s] + 1]
    BY <1>1 DEF Send, SendRefused, StartCall
  <2>2. \A u \in Senders : calls[u] \in Nat
    BY SendAssumption DEF TypeOK
  <2>3. \A u \in Senders : calls'[u] >= calls[u] /\ calls'[u] \in Nat
    BY <2>1, <2>2 DEF TypeOK
  <2>4. \A c \in Sockets : \A i \in 1..Len(wire[c]) :
          wire[c][i].sender \in Senders /\ wire[c][i].call \in Nat
    <3> SUFFICES ASSUME NEW c \in Sockets, NEW i \in 1..Len(wire[c])
                 PROVE  wire[c][i] \in Halves
      BY SendAssumption DEF Halves
    <3>1. wire[c] \in Seq(Halves)
      BY DEF TypeOK
    <3> QED
      BY <3>1
  <2>5. \A c \in Sockets : \A i \in 1..Len(wire[c]) :
          wire[c][i].call <= calls'[wire[c][i].sender]
    BY <2>2, <2>3, <2>4 DEF WireOrder
  <2> QED
    BY <2>1, <2>5 DEF WireOrder
<1>2. ASSUME NEW s \in Senders, WriteFirst(s) \/ WriteRest(s) PROVE WireOrder'
  BY <1>2, WriteOrdered
<1>3. ASSUME UNCHANGED <<wire, calls>> PROVE WireOrder'
  BY <1>3 DEF WireOrder
<1>4. ASSUME NEW s \in Senders,
             \/ CheckConnected(s) \/ Encrypt(s) \/ ReadSocket(s) \/ TakeLock(s)
             \/ WriteFails(s)
      PROVE  WireOrder'
  BY <1>3, <1>4 DEF CheckConnected, Encrypt, ReadSocket, TakeLock, WriteFails
<1>5. ASSUME NEW m \in Managers,
             \/ Lose(m) \/ Disconnect(m) \/ ClearConnected(m) \/ Connect(m) \/ OnOpen(m)
      PROVE  WireOrder'
  BY <1>3, <1>5 DEF Lose, Disconnect, ClearConnected, Connect, OnOpen, sendVars
<1>6. CASE Finished \/ UNCHANGED vars
  BY <1>3, <1>6 DEF Finished, vars
<1> QED
  BY <1>1, <1>2, <1>4, <1>5, <1>6 DEF Next, Continue

\* The messages of one thread are on every wire in the order of their nonces,
\* however the threads overtake each other between the lock of the cipher and
\* _send_lock (HelixConnectionManager.send).
THEOREM Ascend == Spec => []NoncesAscend
<1>1. Init => SealOrder /\ WireOrder
  BY DEF Init, SealOrder, WireOrder
<1>2. TypeOK /\ SealOrder /\ WireOrder /\ [Next]_vars => SealOrder' /\ WireOrder'
  BY SealStep, OrderStep
<1>3. TypeOK /\ SealOrder /\ WireOrder => NoncesAscend
  <2> SUFFICES ASSUME TypeOK, SealOrder, WireOrder, NEW c \in Sockets,
                      NEW i \in 1..Len(wire[c]), NEW j \in 1..Len(wire[c]),
                      NEW x \in sealed, NEW y \in sealed,
                      i < j, wire[c][i].sender = wire[c][j].sender,
                      x.sender = wire[c][i].sender, x.call = wire[c][i].call,
                      y.sender = wire[c][j].sender, y.call = wire[c][j].call
               PROVE  x.nonce <= y.nonce
    BY DEF NoncesAscend
  <2>1. x.call <= y.call
    BY DEF WireOrder
  <2> QED
    BY <2>1 DEF SealOrder
<1> QED BY <1>1, <1>2, <1>3, TypeCorrect, PTL DEF Spec

-----------------------------------------------------------------------------
(* Every message once. *)

\* A call that returned has one end on the wires of its manager, any other call none;
\* a thread inside send has not returned from its present call.
SentInv ==
  /\ \A s \in Senders : \A n \in 1..MaxSends :
       /\ <<s, n>> \in sent => \E e : Ends(s, n) = {e} /\ e[1][1] = ManagerOf[s]
       /\ <<s, n>> \notin sent => Ends(s, n) = {}
  /\ \A s \in Senders : \A n \in 1..MaxSends :
       <<s, n>> \in sent => n <= calls[s] /\ (n = calls[s] => pc[s] = "idle")

\* The ends of a call, one by one.
LEMMA EndsMember ==
  ASSUME NEW s \in Senders, NEW n \in 1..MaxSends
  PROVE  \A e : e \in Ends(s, n) <=>
           \E c \in Sockets : \E i \in 1..Len(wire[c]) :
             e = <<c, i>> /\ wire[c][i] = [sender |-> s, call |-> n, half |-> 2]
BY DEF Ends

\* ws.send adds to the ends only the one it writes.
LEMMA EndsAppend ==
  ASSUME TypeOK, NEW c \in Sockets, NEW h \in Halves,
         wire' = [wire EXCEPT ![c] = Append(wire[c], h)],
         NEW s \in Senders, NEW n \in 1..MaxSends
  PROVE  Ends(s, n)' = IF h.sender = s /\ h.call = n /\ h.half = 2
                       THEN Ends(s, n) \cup {<<c, Len(wire[c]) + 1>>}
                       ELSE Ends(s, n)
<1>1. wire[c] \in Seq(Halves) /\ wire'[c] = Append(wire[c], h)
  BY DEF TypeOK
<1>2. \A d \in Sockets : d # c => wire'[d] = wire[d]
  BY DEF TypeOK
<1>3. /\ Len(wire'[c]) = Len(wire[c]) + 1 /\ Len(wire[c]) \in Nat
      /\ wire'[c][Len(wire[c]) + 1] = h
      /\ \A i \in 1..Len(wire[c]) : wire'[c][i] = wire[c][i]
  BY <1>1, Appending
<1> DEFINE last == <<c, Len(wire[c]) + 1>>
           end == [sender |-> s, call |-> n, half |-> 2]
<1>4. \A e : e \in Ends(s, n)' <=>
        \E d \in Sockets : \E i \in 1..Len(wire'[d]) : e = <<d, i>> /\ wire'[d][i] = end
  BY DEF Ends
<1>5. \A e : e \in Ends(s, n) <=>
        \E d \in Sockets : \E i \in 1..Len(wire[d]) : e = <<d, i>> /\ wire[d][i] = end
  BY EndsMember
<1>e. h = end <=> h.sender = s /\ h.call = n /\ h.half = 2
  BY DEF Halves
<1> HIDE DEF end
<1>6. ASSUME NEW e \in Ends(s, n)' PROVE e \in Ends(s, n) \/ (e = last /\ h = end)
  <2>1. PICK d \in Sockets : \E i \in 1..Len(wire'[d]) : e = <<d, i>> /\ wire'[d][i] = end
    BY <1>4
  <2>2. PICK i \in 1..Len(wire'[d]) : e = <<d, i>> /\ wire'[d][i] = end
    BY <2>1
  <2>3. CASE d # c
    BY <1>2, <1>5, <2>2, <2>3
  <2>4. CASE d = c /\ i \in 1..Len(wire[c])
    BY <1>3, <1>5, <2>2, <2>4
  <2>5. CASE d = c /\ i = Len(wire[c]) + 1
    BY <1>3, <2>2, <2>5
  <2> QED
    BY <1>3, <2>2, <2>3, <2>4, <2>5
<1>7. ASSUME NEW e \in Ends(s, n) PROVE e \in Ends(s, n)'
  <2>1. PICK d \in Sockets : \E i \in 1..Len(wire[d]) : e = <<d, i>> /\ wire[d][i] = end
    BY <1>5
  <2>2. PICK i \in 1..Len(wire[d]) : e = <<d, i>> /\ wire[d][i] = end
    BY <2>1
  <2>3. CASE d # c
    BY <1>2, <1>4, <2>2, <2>3
  <2>4. CASE d = c
    <3>1. i \in 1..Len(wire'[c]) /\ wire'[c][i] = end
      BY <1>3, <2>2, <2>4
    <3> QED
      BY <1>4, <2>2, <2>4, <3>1
  <2> QED
    BY <2>3, <2>4
<1>8. h = end => last \in Ends(s, n)'
  <2>1. Len(wire[c]) + 1 \in 1..Len(wire'[c])
    BY <1>3
  <2> QED
    BY <1>3, <1>4, <2>1
<1> QED
  BY <1>6, <1>7, <1>8, <1>e

\* SentInv is inductive: WriteRest ends a call where it writes the end.
LEMMA SentStep ==
  ASSUME TypeOK, SentInv, [Next]_vars
  PROVE  SentInv'
<1>1. \A s \in Senders : calls[s] \in Nat
  BY SendAssumption DEF TypeOK
<1>2. ASSUME UNCHANGED <<wire, sent>>,
             \A s \in Senders : /\ calls'[s] = calls[s]
                                /\ pc[s] = "idle" => pc'[s] = "idle"
      PROVE  SentInv'
  <2>1. \A t \in Senders : \A n \in 1..MaxSends : Ends(t, n)' = Ends(t, n)
    BY <1>2 DEF Ends
  <2>2. ASSUME NEW t \in Senders, NEW n \in 1..MaxSends
        PROVE  /\ <<t, n>> \in sent' => \E e : Ends(t, n)' = {e} /\ e[1][1] = ManagerOf[t]
               /\ <<t, n>> \notin sent' => Ends(t, n)' = {}
    BY <1>2, <2>1 DEF SentInv
  <2>3. ASSUME NEW t \in Senders, NEW n \in 1..MaxSends, <<t, n>> \in sent'
        PROVE  n <= calls'[t] /\ (n = calls'[t] => pc'[t] = "idle")
    BY <1>2, <2>3 DEF SentInv
  <2> QED
    BY <2>2, <2>3 DEF SentInv
<1>3. ASSUME NEW s \in Senders, Send(s) \/ SendRefused(s) PROVE SentInv'
  <2>1. /\ UNCHANGED <<wire, sent>> /\ calls'[s] = calls[s] + 1
        /\ \A t \in Senders : t # s => calls'[t] = calls[t] /\ pc'[t] = pc[t]
    BY <1>3 DEF TypeOK, Send, SendRefused, StartCall
  <2>2. \A n \in 1..MaxSends : <<s, n>> \in sent => n <= calls[s]
    BY DEF SentInv
  <2>3. \A t \in Senders : \A n \in 1..MaxSends : Ends(t, n)' = Ends(t, n)
    BY <2>1 DEF Ends
  <2>4. ASSUME NEW t \in Senders, NEW n \in 1..MaxSends, <<t, n>> \in sent
        PROVE  n <= calls'[t] /\ (n = calls'[t] => pc'[t] = "idle")
    <3>1. CASE t = s
      BY <1>1, <2>1, <2>2, <2>4, <3>1, SendAssumption
    <3>2. CASE t # s
      BY <2>1, <2>4, <3>2 DEF SentInv
    <3> QED
      BY <3>1, <3>2
  <2> QED
    BY <2>1, <2>3, <2>4 DEF SentInv
<1>4. ASSUME NEW s \in Senders,
             \/ CheckConnected(s) \/ Encrypt(s) \/ ReadSocket(s) \/ TakeLock(s)
             \/ WriteFails(s)
      PROVE  SentInv'
  BY <1>2, <1>4 DEF TypeOK, CheckConnected, Encrypt, ReadSocket, TakeLock, WriteFails, Goto
<1>5. ASSUME NEW s \in Senders, WriteFirst(s) PROVE SentInv'
  <2>1. PICK c \in Sockets, h \in Halves : c = SocketOf(s) /\ h = Half(s, 1)
    BY <1>5, Targets DEF WriteFirst, Goto, Writing, Half, Halves
  <2>2. /\ UNCHANGED <<calls, sent>> /\ h.half = 1
        /\ wire' = [wire EXCEPT ![c] = Append(wire[c], h)]
        /\ \A t \in Senders : pc[t] = "idle" => pc'[t] = "idle"
    BY <1>5, <2>1 DEF TypeOK, WriteFirst, Goto, Half
  <2>0. wire' = [wire EXCEPT ![c] = Append(wire[c], h)]
    BY <2>2
  <2>3. ASSUME NEW t \in Senders, NEW n \in 1..MaxSends PROVE Ends(t, n)' = Ends(t, n)
    <3>1. Ends(t, n)' = IF h.sender = t /\ h.call = n /\ h.half = 2
                        THEN Ends(t, n) \cup {<<c, Len(wire[c]) + 1>>}
                        ELSE Ends(t, n)
      BY TypeOK, <2>0, EndsAppend, Zenon
    <3> QED
      BY <2>2, <3>1
  <2>4. ASSUME NEW t \in Senders, NEW n \in 1..MaxSends
        PROVE  /\ <<t, n>> \in sent' => \E e : Ends(t, n)' = {e} /\ e[1][1] = ManagerOf[t]
               /\ <<t, n>> \notin sent' => Ends(t, n)' = {}
    BY <2>2, <2>3 DEF SentInv
  <2> QED
    BY <2>2, <2>4 DEF SentInv
<1>6. ASSUME NEW s \in Senders, WriteRest(s) PROVE SentInv'
  <2>0. PICK c \in Sockets, h \in Halves, k \in 1..MaxSends :
          c = SocketOf(s) /\ h = Half(s, 2) /\ k = calls[s]
    BY <1>6, Targets DEF WriteRest, Goto, Writing, Half, Halves
  <2>1. /\ calls' = calls /\ sent' = sent \cup {<<s, k>>} /\ pc[s] = "rest" /\ pc'[s] = "idle"
        /\ wire' = [wire EXCEPT ![c] = Append(wire[c], h)]
        /\ \A t \in Senders : pc[t] = "idle" => pc'[t] = "idle"
        /\ c[1] = ManagerOf[s]
    BY <1>6, <2>0 DEF TypeOK, WriteRest, Goto, SocketOf
  <2>2. <<s, k>> \notin sent
    BY <2>0, <2>1 DEF SentInv
  <2>3. h.sender = s /\ h.call = k /\ h.half = 2
    BY <2>0 DEF Half
  <2>4. ASSUME NEW t \in Senders, NEW n \in 1..MaxSends, ~(t = s /\ n = k)
        PROVE  Ends(t, n)' = Ends(t, n)
    <3>1. Ends(t, n)' = IF h.sender = t /\ h.call = n /\ h.half = 2
                        THEN Ends(t, n) \cup {<<c, Len(wire[c]) + 1>>}
                        ELSE Ends(t, n)
      BY <2>1, EndsAppend, Zenon
    <3> QED
      BY <2>3, <2>4, <3>1
  <2>5. \E i : Ends(s, k)' = {<<c, i>>}
    <3>1. Ends(s, k) = {}
      BY <2>2 DEF SentInv
    <3>2. Ends(s, k)' = IF h.sender = s /\ h.call = k /\ h.half = 2
                        THEN Ends(s, k) \cup {<<c, Len(wire[c]) + 1>>}
                        ELSE Ends(s, k)
      BY <2>1, EndsAppend, Zenon
    <3> QED
      BY <2>3, <3>1, <3>2
  <2>6. \A t \in Senders : \A n \in 1..MaxSends :
          ~(t = s /\ n = k) => (<<t, n>> \in sent' <=> <<t, n>> \in sent)
    BY <2>1
  <2>7. ASSUME NEW t \in Senders, NEW n \in 1..MaxSends
        PROVE  /\ <<t, n>> \in sent' => \E e : Ends(t, n)' = {e} /\ e[1][1] = ManagerOf[t]
               /\ <<t, n>> \notin sent' => Ends(t, n)' = {}
    <3>1. CASE t = s /\ n = k
      <4>1. PICK i : Ends(s, k)' = {<<c, i>>}
        BY <2>5
      <4>2. <<c, i>>[1][1] = ManagerOf[s]
        BY <2>1
      <4>3. \E e : Ends(s, k)' = {e} /\ e[1][1] = ManagerOf[s]
        BY <4>1, <4>2
      <4> QED
        BY <2>1, <3>1, <4>3
    <3>2. CASE ~(t = s /\ n = k)
      BY <2>4, <2>6, <3>2 DEF SentInv
    <3> QED
      BY <3>1, <3>2
  <2>8. ASSUME NEW t \in Senders, NEW n \in 1..MaxSends, <<t, n>> \in sent'
        PROVE  n <= calls'[t] /\ (n = calls'[t] => pc'[t] = "idle")
    <3>1. CASE t = s /\ n = k
      BY <1>1, <2>0, <2>1, <3>1
    <3>2. CASE ~(t = s /\ n = k)
      BY <2>1, <2>6, <2>8, <3>2 DEF SentInv
    <3> QED
      BY <3>1, <3>2
  <2> QED
    BY <2>7, <2>8 DEF SentInv
<1>7. ASSUME NEW m \in Managers,
             \/ Lose(m) \/ Disconnect(m) \/ ClearConnected(m) \/ Connect(m) \/ OnOpen(m)
      PROVE  SentInv'
  BY <1>2, <1>7 DEF Lose, Disconnect, ClearConnected, Connect, OnOpen, sendVars
<1>8. CASE Finished \/ UNCHANGED vars
  BY <1>2, <1>8 DEF Finished, vars
<1> QED
  BY <1>3, <1>4, <1>5, <1>6, <1>7, <1>8 DEF Next, Continue

\* However the connection is lost, closed and opened again under the threads, a call
\* of send that returned has its message on one wire of its manager, once, and a call
\* that raised on none (HelixConnectionManager.send).
THEOREM ExactlyOnce == Spec => []SentExactlyOnce
<1>1. Init => SentInv
  <2> SUFFICES ASSUME Init PROVE SentInv
    OBVIOUS
  <2>1. \A c \in Sockets : Len(wire[c]) = 0
    BY DEF Init
  <2>2. ASSUME NEW s \in Senders, NEW n \in 1..MaxSends PROVE Ends(s, n) = {}
    <3>1. \A e : e \in Ends(s, n) <=>
            \E c \in Sockets : \E i \in 1..Len(wire[c]) :
              e = <<c, i>> /\ wire[c][i] = [sender |-> s, call |-> n, half |-> 2]
      BY EndsMember
    <3> QED
      BY <2>1, <3>1
  <2> QED
    BY <2>2 DEF Init, SentInv
<1>2. TypeOK /\ SentInv /\ [Next]_vars => SentInv'
  BY SentStep
<1>3. SentInv => SentExactlyOnce
  <2> SUFFICES ASSUME SentInv, NEW s \in Senders, NEW n \in 1..MaxSends
               PROVE  /\ Cardinality(Ends(s, n)) = (IF <<s, n>> \in sent THEN 1 ELSE 0)
                      /\ \A e \in Ends(s, n) : e[1][1] = ManagerOf[s]
    BY DEF SentExactlyOnce
  <2>1. CASE <<s, n>> \in sent
    <3>1. PICK e : Ends(s, n) = {e} /\ e[1][1] = ManagerOf[s]
      BY <2>1 DEF SentInv
    <3>2. Cardinality({e}) = 1
      BY FS_Singleton
    <3> QED
      BY <2>1, <3>1, <3>2
  <2>2. CASE <<s, n>> \notin sent
    BY <2>2, FS_EmptySet DEF SentInv
  <2> QED
    BY <2>1, <2>2
<1> QED
  BY <1>1, <1>2, <1>3, TypeCorrect, PTL DEF Spec
=============================================================================
