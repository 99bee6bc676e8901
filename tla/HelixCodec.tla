----------------------------- MODULE HelixCodec -----------------------------
(***************************************************************************)
(* The binary CAN codec (can_helix/protocol.py): encode_can_tx turns a     *)
(* python-can Message into a record for the backend, decode_can_rx turns a *)
(* record of the backend into a Message.                                   *)
(*                                                                         *)
(* The bytes of a payload matter only by their number: a payload is the    *)
(* bytes of the application and the zeros that pad them.  Timestamp,       *)
(* arbitration id and channel are copied unchanged in both directions and  *)
(* left out, and the length field of a record is the size of what follows. *)
(***************************************************************************)
EXTENDS Naturals

\* A ValueError, raised also by bytes([x]) for a number that is no byte.
CONSTANT ValueError

Flags == {"extended", "remote", "error", "fd", "brs", "esi"}

\* python-can's Message.  dlc is independent of the payload: python-can sets it
\* to the number of data bytes, the request of a remote frame names another one.
Messages ==
  [flags : SUBSET Flags, dlc : Nat, bytes : Nat, zeros : Nat]

TxCommands == {"TX_NORMAL", "TX_REMOTE", "TX_ERROR", "TX_FD"}
RxCommands == {"RX_NORMAL", "RX_REMOTE", "RX_ERROR", "RX_FD"}

\* A record on the wire: [cmd][len][channel][id][flags][dlc][data].
Records ==
  [cmd : TxCommands \cup RxCommands, flags : SUBSET Flags, dlc : 0..255,
   bytes : Nat, zeros : Nat]

ASSUME CodecAssumption == ValueError \notin Records \cup Messages

Size(payload) == payload.bytes + payload.zeros

-----------------------------------------------------------------------------
(* The DLC codes of CAN FD. *)

DLC_TO_LEN ==
  [dlc \in 0..15 |->
     CASE dlc <= 8 -> dlc
       [] dlc = 9 -> 12 [] dlc = 10 -> 16 [] dlc = 11 -> 20 [] dlc = 12 -> 24
       [] dlc = 13 -> 32 [] dlc = 14 -> 48 [] dlc = 15 -> 64]

ValidLengths == {DLC_TO_LEN[dlc] : dlc \in DOMAIN DLC_TO_LEN}

LEN_TO_DLC ==
  [len \in ValidLengths |-> CHOOSE dlc \in DOMAIN DLC_TO_LEN : DLC_TO_LEN[dlc] = len]

\* The first of the sorted valid lengths that fits.
FittingLengths(len) == {valid \in ValidLengths : valid >= len}
NextLength(len) == CHOOSE valid \in FittingLengths(len) :
                     \A other \in FittingLengths(len) : valid <= other

-----------------------------------------------------------------------------
(* encode_can_tx *)

TxCommand(flags) ==
  CASE "fd" \in flags -> "TX_FD"
    [] "fd" \notin flags /\ "remote" \in flags -> "TX_REMOTE"
    [] {"fd", "remote"} \cap flags = {} /\ "error" \in flags -> "TX_ERROR"
    [] OTHER -> "TX_NORMAL"

\* BRS and ESI are flags of FD frames only.
TxFlags(flags) == IF "fd" \in flags THEN flags ELSE flags \ {"brs", "esi"}

\* A mutant of EncodeLong: the payload is not padded.
EncodeUnpadded(msg) ==
  [cmd |-> TxCommand(msg.flags), flags |-> TxFlags(msg.flags),
   dlc |-> LEN_TO_DLC[NextLength(Size(msg))],
   bytes |-> msg.bytes, zeros |-> msg.zeros]

\* An FD frame of more than 8 bytes takes the code of the next valid length,
\* and its payload is padded to that length.
EncodeLong(msg) ==
  LET len == NextLength(Size(msg))
  IN  [cmd |-> TxCommand(msg.flags), flags |-> TxFlags(msg.flags),
       dlc |-> LEN_TO_DLC[len],
       bytes |-> msg.bytes, zeros |-> msg.zeros + (len - Size(msg))]

\* Any other frame goes out as it is.
EncodeShort(msg) ==
  [cmd |-> TxCommand(msg.flags), flags |-> TxFlags(msg.flags), dlc |-> msg.dlc,
   bytes |-> msg.bytes, zeros |-> msg.zeros]

IsLong(msg) == "fd" \in msg.flags /\ Size(msg) > 8

\* encode_message: the length field has two bytes, for 7 of header and the data.
TooLong(msg) == 7 + Size(msg) > 65535

EncodeCanTx(msg) ==
  CASE IsLong(msg) /\ FittingLengths(Size(msg)) = {} -> ValueError
    [] IsLong(msg) /\ FittingLengths(Size(msg)) # {} -> EncodeLong(msg)
    [] ~IsLong(msg) /\ (msg.dlc > 255 \/ TooLong(msg)) -> ValueError
    [] OTHER -> EncodeShort(msg)

-----------------------------------------------------------------------------
(* decode_can_rx *)

Least(m, n) == IF m <= n THEN m ELSE n

\* The number of data bytes that a DLC announces.
GetDataLength(dlc, fd) ==
  IF fd /\ dlc > 8
  THEN IF dlc \in DOMAIN DLC_TO_LEN THEN DLC_TO_LEN[dlc] ELSE dlc
  ELSE Least(dlc, 8)

\* The constructor of python-can's Message drops the data of a remote frame.
NewMessage(flags, dlc, bytes, zeros) ==
  [flags |-> flags, dlc |-> dlc,
   bytes |-> IF "remote" \in flags THEN 0 ELSE bytes,
   zeros |-> IF "remote" \in flags THEN 0 ELSE zeros]

DecodeCanRx(record) ==
  IF /\ record.cmd \in RxCommands
     /\ Size(record) = GetDataLength(record.dlc, "fd" \in record.flags)
  THEN NewMessage(record.flags, record.dlc, record.bytes, record.zeros)
  ELSE ValueError

\* The backend reports a frame that it sent as received: the same channel, id,
\* flags, dlc and data behind a timestamp.
Echo(record) ==
  [record EXCEPT !.cmd = CASE record.cmd = "TX_NORMAL" -> "RX_NORMAL"
                           [] record.cmd = "TX_REMOTE" -> "RX_REMOTE"
                           [] record.cmd = "TX_ERROR" -> "RX_ERROR"
                           [] record.cmd = "TX_FD" -> "RX_FD"]

-----------------------------------------------------------------------------
(* What the codec promises for a record that encode_can_tx made. *)

\* What a received Message is: the frames of decode_can_rx carry the data length
\* in dlc up to 8 and a DLC code above.
Wellformed(msg) ==
  /\ "remote" \notin msg.flags
  /\ "fd" \notin msg.flags => Size(msg) <= 8
  /\ Size(msg) <= 8 => msg.dlc = Size(msg)

\* decode_can_rx accepts the echo of a data frame and gives back its flags and
\* its payload, padded to the next length a CAN FD frame can have and no
\* further.
RoundTrip(msg, record) ==
  LET echoed == DecodeCanRx(Echo(record))
  IN  /\ echoed # ValueError
      /\ echoed.flags = TxFlags(msg.flags)
      /\ echoed.bytes = msg.bytes
      /\ Size(echoed) \in ValidLengths
      /\ \A len \in ValidLengths : Size(msg) <= len => Size(echoed) <= len

\* A received frame can be sent on as it is: encoding it again gives the record
\* that it was decoded from.
Forwards(record) ==
  LET echoed == DecodeCanRx(Echo(record))
  IN  echoed # ValueError => EncodeCanTx(echoed) = record
=============================================================================
