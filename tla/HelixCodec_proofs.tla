-------------------------- MODULE HelixCodec_proofs --------------------------
(***************************************************************************)
(* What encode_can_tx and decode_can_rx compute, for messages of any       *)
(* length: the table of DLC codes first, then encoding, then the way back. *)
(***************************************************************************)
EXTENDS HelixCodec, TLAPS

\* The DLC table of the protocol, entry by entry.
LEMMA DlcTable ==
  /\ DOMAIN DLC_TO_LEN = 0..15
  /\ \A dlc \in 0..8 : DLC_TO_LEN[dlc] = dlc
  /\ DLC_TO_LEN[9] = 12 /\ DLC_TO_LEN[10] = 16 /\ DLC_TO_LEN[11] = 20
  /\ DLC_TO_LEN[12] = 24 /\ DLC_TO_LEN[13] = 32 /\ DLC_TO_LEN[14] = 48
  /\ DLC_TO_LEN[15] = 64
BY DEF DLC_TO_LEN

\* The lengths that a CAN FD frame can have.
LEMMA Lengths ==
  ValidLengths = 0..8 \cup {12, 16, 20, 24, 32, 48, 64}
<1>1. ASSUME NEW dlc \in 0..15
      PROVE  DLC_TO_LEN[dlc] \in 0..8 \cup {12, 16, 20, 24, 32, 48, 64}
  <2>1. dlc \in 0..8 \/ dlc = 9 \/ dlc = 10 \/ dlc = 11 \/ dlc = 12 \/ dlc = 13
          \/ dlc = 14 \/ dlc = 15
    OBVIOUS
  <2> QED BY <2>1, DlcTable
<1>2. ASSUME NEW len \in 0..8 \cup {12, 16, 20, 24, 32, 48, 64}
      PROVE  \E dlc \in 0..15 : DLC_TO_LEN[dlc] = len
  <2>1. CASE len \in 0..8
    <3>1. len \in 0..15 /\ DLC_TO_LEN[len] = len
      BY <2>1, DlcTable
    <3> QED BY <3>1
  <2>2. CASE len \in {12, 16, 20, 24}
    <3>1. {9, 10, 11, 12} \subseteq 0..15
      OBVIOUS
    <3> QED BY <2>2, <3>1, DlcTable
  <2>3. CASE len \in {32, 48, 64}
    <3>1. {13, 14, 15} \subseteq 0..15
      OBVIOUS
    <3> QED BY <2>3, <3>1, DlcTable
  <2> QED BY <2>1, <2>2, <2>3
<1>3. ValidLengths = {DLC_TO_LEN[dlc] : dlc \in 0..15}
  BY DlcTable DEF ValidLengths
<1>4. ValidLengths \subseteq 0..8 \cup {12, 16, 20, 24, 32, 48, 64}
  <2>1. SUFFICES ASSUME NEW len \in ValidLengths
                 PROVE  len \in 0..8 \cup {12, 16, 20, 24, 32, 48, 64}
    BY Zenon
  <2>2. PICK dlc \in 0..15 : len = DLC_TO_LEN[dlc]
    BY <1>3, Zenon
  <2> QED BY <1>1, <2>2
<1>5. 0..8 \cup {12, 16, 20, 24, 32, 48, 64} \subseteq ValidLengths
  <2>1. SUFFICES ASSUME NEW len \in 0..8 \cup {12, 16, 20, 24, 32, 48, 64}
                 PROVE  len \in ValidLengths
    BY Zenon
  <2>2. PICK dlc \in 0..15 : DLC_TO_LEN[dlc] = len
    BY <1>2
  <2> QED BY <1>3, <2>2, Zenon
<1> QED BY <1>4, <1>5, Zenon

\* LEN_TO_DLC inverts DLC_TO_LEN.
LEMMA Codes ==
  ASSUME NEW len \in ValidLengths
  PROVE  /\ LEN_TO_DLC[len] \in 0..15
         /\ DLC_TO_LEN[LEN_TO_DLC[len]] = len
<1>1. \E dlc \in DOMAIN DLC_TO_LEN : DLC_TO_LEN[dlc] = len
  BY DEF ValidLengths
<1>2. LEN_TO_DLC[len] = CHOOSE dlc \in DOMAIN DLC_TO_LEN : DLC_TO_LEN[dlc] = len
  BY DEF LEN_TO_DLC
<1> QED BY <1>1, <1>2, DlcTable

\* NextLength is the least valid length that fits.
LEMMA Fitting ==
  ASSUME NEW len \in Nat, FittingLengths(len) # {}
  PROVE  /\ NextLength(len) \in ValidLengths
         /\ NextLength(len) \in Nat
         /\ len <= NextLength(len)
         /\ \A other \in ValidLengths : len <= other => NextLength(len) <= other
<1>1. len <= 64
  BY Lengths DEF FittingLengths
<1>2. \E valid \in FittingLengths(len) :
        \A other \in FittingLengths(len) : valid <= other
  <2>1. \A valid \in ValidLengths : valid >= len => valid \in FittingLengths(len)
    BY DEF FittingLengths
  <2>2. \A other \in FittingLengths(len) : other \in ValidLengths /\ other >= len
    BY DEF FittingLengths
  <2>3. CASE len <= 8
    BY <2>1, <2>2, <2>3, Lengths
  <2>4. CASE 8 < len /\ len <= 24
    <3>1. CASE len <= 12 BY <2>1, <2>2, <2>4, <3>1, Lengths
    <3>2. CASE 12 < len /\ len <= 16 BY <2>1, <2>2, <3>2, Lengths
    <3>3. CASE 16 < len /\ len <= 20 BY <2>1, <2>2, <3>3, Lengths
    <3>4. CASE 20 < len BY <2>1, <2>2, <2>4, <3>4, Lengths
    <3> QED BY <3>1, <3>2, <3>3, <3>4
  <2>5. CASE 24 < len
    <3>1. CASE len <= 32 BY <2>1, <2>2, <2>5, <3>1, Lengths
    <3>2. CASE 32 < len /\ len <= 48 BY <2>1, <2>2, <3>2, Lengths
    <3>3. CASE 48 < len BY <1>1, <2>1, <2>2, <3>3, Lengths
    <3> QED BY <3>1, <3>2, <3>3
  <2> QED BY <2>3, <2>4, <2>5
<1>3. /\ NextLength(len) \in FittingLengths(len)
      /\ \A other \in FittingLengths(len) : NextLength(len) <= other
  BY <1>2 DEF NextLength
<1> QED BY <1>3, Lengths DEF FittingLengths

-----------------------------------------------------------------------------
(* Encoding. *)

\* encode_can_tx returns a record or raises ValueError.
LEMMA EncodeType ==
  ASSUME NEW msg \in Messages
  PROVE  EncodeCanTx(msg) \in Records \cup {ValueError}
<1>1. /\ TxCommand(msg.flags) \in TxCommands \cup RxCommands
      /\ TxFlags(msg.flags) \in SUBSET Flags
      /\ msg.bytes \in Nat /\ msg.zeros \in Nat /\ msg.dlc \in Nat
      /\ Size(msg) \in Nat
  BY DEF Messages, TxCommand, TxCommands, TxFlags, Size
<1>2. CASE IsLong(msg) /\ FittingLengths(Size(msg)) = {}
  BY <1>2 DEF EncodeCanTx
<1>3. CASE IsLong(msg) /\ FittingLengths(Size(msg)) # {}
  <2> DEFINE len == NextLength(Size(msg))
  <2>1. len \in ValidLengths /\ len \in Nat /\ Size(msg) <= len
    BY <1>1, <1>3, Fitting
  <2>2. LEN_TO_DLC[len] \in 0..255
    BY <2>1, Codes
  <2>3. msg.zeros + (len - Size(msg)) \in Nat
    BY <1>1, <2>1
  <2>4. EncodeLong(msg) \in Records
    BY <1>1, <2>2, <2>3 DEF EncodeLong, Records
  <2>5. EncodeCanTx(msg) = EncodeLong(msg)
    BY <1>3 DEF EncodeCanTx
  <2> QED BY <2>4, <2>5
<1>4. CASE ~IsLong(msg)
  <2>1. msg.dlc <= 255 => EncodeShort(msg) \in Records
    BY <1>1 DEF EncodeShort, Records
  <2> QED BY <1>1, <1>4, <2>1 DEF EncodeCanTx
<1> QED BY <1>2, <1>3, <1>4

\* What decode_can_rx makes of the echo of a transmitted record.
LEMMA DecodeEcho ==
  ASSUME NEW record \in Records, record.cmd \in TxCommands,
         "remote" \notin record.flags,
         Size(record) = GetDataLength(record.dlc, "fd" \in record.flags)
  PROVE  /\ DecodeCanRx(Echo(record)) =
              [flags |-> record.flags, dlc |-> record.dlc,
               bytes |-> record.bytes, zeros |-> record.zeros]
         /\ DecodeCanRx(Echo(record)) # ValueError
<1>1. /\ Echo(record).cmd \in RxCommands
      /\ Echo(record).flags = record.flags /\ Echo(record).dlc = record.dlc
      /\ Echo(record).bytes = record.bytes /\ Echo(record).zeros = record.zeros
  BY DEF Echo, Records, TxCommands, RxCommands
<1>2. DecodeCanRx(Echo(record)) =
        [flags |-> record.flags, dlc |-> record.dlc,
         bytes |-> record.bytes, zeros |-> record.zeros]
  BY <1>1 DEF DecodeCanRx, NewMessage, Size
<1>3. DecodeCanRx(Echo(record)) \in Messages
  BY <1>2 DEF Records, Messages
<1> QED BY <1>2, <1>3, CodecAssumption
-----------------------------------------------------------------------------
(* There and back. *)

\* Encoding a message changes neither its command nor its flags again.
LEMMA FlagsStable ==
  ASSUME NEW flags \in SUBSET Flags
  PROVE  /\ TxFlags(TxFlags(flags)) = TxFlags(flags)
         /\ TxCommand(TxFlags(flags)) = TxCommand(flags)
         /\ "fd" \in TxFlags(flags) <=> "fd" \in flags
         /\ "remote" \in TxFlags(flags) <=> "remote" \in flags
         /\ TxCommand(flags) \in TxCommands
BY DEF TxFlags, TxCommand, TxCommands

\* A frame that is sent as it is comes back as it is.
LEMMA ShortRoundTrip ==
  ASSUME NEW msg \in Messages, Wellformed(msg), ~IsLong(msg),
         EncodeCanTx(msg) # ValueError
  PROVE  RoundTrip(msg, EncodeCanTx(msg)) /\ Forwards(EncodeCanTx(msg))
<1> DEFINE record == EncodeCanTx(msg)
<1> DEFINE echoed == DecodeCanRx(Echo(record))
<1>1. /\ msg.flags \in SUBSET Flags /\ msg.dlc \in Nat
      /\ msg.bytes \in Nat /\ msg.zeros \in Nat /\ Size(msg) \in Nat
  BY DEF Messages, Size
<1>2. Size(msg) <= 8 /\ msg.dlc = Size(msg)
  BY <1>1 DEF Wellformed, IsLong
<1>3. record = EncodeShort(msg)
  BY <1>1 DEF EncodeCanTx
<1>4. /\ record.cmd = TxCommand(msg.flags) /\ record.flags = TxFlags(msg.flags)
      /\ record.dlc = msg.dlc /\ record.bytes = msg.bytes /\ record.zeros = msg.zeros
  BY <1>3 DEF EncodeShort
<1>5. Size(record) = GetDataLength(record.dlc, "fd" \in record.flags)
  BY <1>1, <1>2, <1>4 DEF Size, GetDataLength, Least
<1>6. /\ echoed = [flags |-> record.flags, dlc |-> record.dlc,
                   bytes |-> record.bytes, zeros |-> record.zeros]
      /\ echoed # ValueError
  BY <1>1, <1>4, <1>5, EncodeType, FlagsStable, DecodeEcho DEF Wellformed
<1>7. RoundTrip(msg, record)
  <2>1. Size(echoed) = Size(msg)
    BY <1>4, <1>6 DEF Size
  <2>2. Size(msg) \in ValidLengths
    BY <1>1, <1>2, Lengths
  <2> QED BY <1>4, <1>6, <2>1, <2>2 DEF RoundTrip
<1>8. Forwards(record)
  <2>1. ~IsLong(echoed)
    BY <1>1, <1>2, <1>4, <1>6 DEF IsLong, Size
  <2>2. EncodeCanTx(echoed) = EncodeShort(echoed)
    <3>1. Size(echoed) <= 8 /\ Size(echoed) \in Nat /\ echoed.dlc <= 8 /\ echoed.dlc \in Nat
      BY <1>1, <1>2, <1>4, <1>6 DEF Size
    <3>2. ~TooLong(echoed) /\ ~(echoed.dlc > 255)
      BY <3>1 DEF TooLong
    <3> QED
      BY <2>1, <3>2 DEF EncodeCanTx
  <2>3. EncodeShort(echoed) = record
    BY <1>1, <1>3, <1>4, <1>6, FlagsStable DEF EncodeShort
  <2> QED BY <2>2, <2>3 DEF Forwards
<1> QED BY <1>7, <1>8

\* A long FD frame comes back padded to the next valid length.
LEMMA LongRoundTrip ==
  ASSUME NEW msg \in Messages, Wellformed(msg), IsLong(msg), EncodeCanTx(msg) # ValueError
  PROVE  RoundTrip(msg, EncodeCanTx(msg)) /\ Forwards(EncodeCanTx(msg))
<1> DEFINE record == EncodeCanTx(msg)
<1> DEFINE echoed == DecodeCanRx(Echo(record))
<1> DEFINE len == NextLength(Size(msg))
<1>1. /\ msg.flags \in SUBSET Flags /\ msg.dlc \in Nat
      /\ msg.bytes \in Nat /\ msg.zeros \in Nat /\ Size(msg) \in Nat
  BY DEF Messages, Size
<1>2. FittingLengths(Size(msg)) # {}
  BY DEF EncodeCanTx
<1>3. record = EncodeLong(msg)
  BY <1>2 DEF EncodeCanTx
<1>4. /\ len \in ValidLengths /\ len \in Nat /\ Size(msg) <= len
      /\ \A other \in ValidLengths : Size(msg) <= other => len <= other
  BY <1>1, <1>2, Fitting
<1>5. len > 8 /\ "fd" \in msg.flags
  BY <1>1, <1>4 DEF IsLong
<1>6. /\ LEN_TO_DLC[len] \in 0..15 /\ DLC_TO_LEN[LEN_TO_DLC[len]] = len
      /\ LEN_TO_DLC[len] > 8
  <2>1. LEN_TO_DLC[len] \in 0..15 /\ DLC_TO_LEN[LEN_TO_DLC[len]] = len
    BY <1>4, Codes
  <2> QED BY <1>5, <2>1, DlcTable
<1>7. /\ record.cmd = TxCommand(msg.flags) /\ record.flags = TxFlags(msg.flags)
      /\ record.dlc = LEN_TO_DLC[len] /\ record.bytes = msg.bytes
      /\ record.zeros = msg.zeros + (len - Size(msg))
  BY <1>3 DEF EncodeLong
<1>8. Size(record) = len
  BY <1>1, <1>4, <1>7 DEF Size
<1>9. GetDataLength(record.dlc, "fd" \in record.flags) = len
  BY <1>1, <1>5, <1>6, <1>7, FlagsStable, DlcTable DEF GetDataLength
<1>10. /\ echoed = [flags |-> record.flags, dlc |-> record.dlc,
                    bytes |-> record.bytes, zeros |-> record.zeros]
       /\ echoed # ValueError
  BY <1>1, <1>7, <1>8, <1>9, EncodeType, FlagsStable, DecodeEcho DEF Wellformed
<1>11. RoundTrip(msg, record)
  <2>1. Size(echoed) = len
    BY <1>8, <1>10 DEF Size
  <2> QED BY <1>4, <1>7, <1>10, <2>1 DEF RoundTrip
<1>12. Forwards(record)
  <2>1. /\ Size(echoed) = len /\ echoed.flags = TxFlags(msg.flags)
        /\ echoed.bytes = record.bytes /\ echoed.zeros = record.zeros
        /\ record.zeros \in Nat
    BY <1>1, <1>4, <1>7, <1>8, <1>10 DEF Size
  <2>2. IsLong(echoed)
    BY <1>1, <1>5, <2>1, FlagsStable DEF IsLong
  <2>3. len \in FittingLengths(len)
    BY <1>4 DEF FittingLengths
  <2>4. NextLength(len) = len
    <3>1. /\ NextLength(len) \in Nat /\ len <= NextLength(len)
          /\ NextLength(len) <= len
      BY <1>4, <2>3, Fitting
    <3> QED BY <1>4, <3>1
  <2>5. EncodeCanTx(echoed) = EncodeLong(echoed)
    BY <2>1, <2>2, <2>3 DEF EncodeCanTx
  <2>6. EncodeLong(echoed) =
          [cmd |-> TxCommand(echoed.flags), flags |-> TxFlags(echoed.flags),
           dlc |-> LEN_TO_DLC[len], bytes |-> echoed.bytes,
           zeros |-> echoed.zeros + (len - len)]
    BY <2>1, <2>4 DEF EncodeLong
  <2>7. EncodeLong(echoed) = record
    BY <1>1, <1>3, <1>4, <1>7, <2>1, <2>6, FlagsStable DEF EncodeLong
  <2> QED BY <2>5, <2>7 DEF Forwards
<1> QED BY <1>11, <1>12

\* Whatever encode_can_tx accepts among well-formed data frames, of any length,
\* decode_can_rx accepts in return, with the same flags and the payload padded
\* to the next length of CAN FD, and the result can be sent on unchanged.
THEOREM CodecRoundTrip ==
  ASSUME NEW msg \in Messages, Wellformed(msg), EncodeCanTx(msg) # ValueError
  PROVE  RoundTrip(msg, EncodeCanTx(msg)) /\ Forwards(EncodeCanTx(msg))
BY ShortRoundTrip, LongRoundTrip
=============================================================================
