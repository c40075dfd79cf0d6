-------------------------------- MODULE Codec --------------------------------
(***************************************************************************)
(* The fixed header and remaining-length codec of src/packets/packets.go  *)
(* (ReadPacket, which also unpacks the body, is in Body).  Bytes are       *)
(* naturals in 0..255; a stream is a sequence of bytes; Go's byte and      *)
(* uint32 arithmetic is taken modulo 2^8 and 2^32.  ReadPacket's outcome   *)
(* is "ok" (a packet), "err" (an error returned) or "panic" (a Go runtime  *)
(* panic or an explicit panic()).  Alongside: the MQTT 3.1.1 reading of    *)
(* the same bytes (spec section 3 and 4.2) as the reference.               *)
(***************************************************************************)
EXTENDS Naturals, Sequences, Bitwise

MaxMessageType == 14              \* packets.go:69
PacketPoolsLen == MaxMessageType - 1  \* var packetPools [MaxMessageType - 1]sync.Pool
MaxRemaining == 268435455         \* the largest remaining length of MQTT 3.1.1

Byte(x) == x % 256

-----------------------------------------------------------------------------
(* encodeLength(length int) []byte                                         *)

RECURSIVE encodeLength(_)
encodeLength(length) ==
    LET digit == IF length \div 128 > 0 THEN (length % 128) | 128 ELSE length % 128
    IN  IF length \div 128 = 0 THEN <<digit>>
        ELSE <<digit>> \o encodeLength(length \div 128)

-----------------------------------------------------------------------------
(* decodeLength(r PacketReader) int, reading s from position i.  The       *)
(* uint32 rLength is kept as its bits 0..27 (lo) and 28..31 (hi), as TLC's *)
(* integers stop at 2^31: a 7-bit digit shifted by 0..21 lands in lo, by   *)
(* 28 its low 4 bits land in hi, by 35 or more it is shifted out.  The     *)
(* result names the value, the position after the last byte read, and      *)
(* whether ReadByte failed (which panics).                                 *)

\* rLength |= uint32(digit&127) << multiplier
OrShifted(rLength, d, multiplier) ==
    CASE multiplier < 28  -> [rLength EXCEPT !.lo = @ | (d * 2^multiplier)]
      [] multiplier = 28  -> [rLength EXCEPT !.hi = @ | (d % 16)]
      [] OTHER            -> rLength

\* Mutant: the multiplier grows by 8 bits per byte.
DecodeLoopWideShift(s, i, rLength, multiplier) ==
    LET RECURSIVE Loop(_, _, _)
        Loop(j, acc, m) ==
            IF j > Len(s) THEN [panic |-> TRUE, val |-> acc, next |-> j]
            ELSE LET acc2 == OrShifted(acc, s[j] & 127, m)
                 IN  IF (s[j] & 128) = 0 THEN [panic |-> FALSE, val |-> acc2, next |-> j + 1]
                     ELSE Loop(j + 1, acc2, m + 8)
    IN Loop(i, rLength, multiplier)

decodeLengthWideShift(s, i) == DecodeLoopWideShift(s, i, [lo |-> 0, hi |-> 0], 0)

RECURSIVE DecodeLoop(_, _, _, _)
DecodeLoop(s, i, rLength, multiplier) ==
    IF i > Len(s) THEN [panic |-> TRUE, val |-> rLength, next |-> i]
    ELSE LET acc == OrShifted(rLength, s[i] & 127, multiplier)
         IN  IF (s[i] & 128) = 0 THEN [panic |-> FALSE, val |-> acc, next |-> i + 1]
             ELSE DecodeLoop(s, i + 1, acc, multiplier + 7)

decodeLength(s, i) == DecodeLoop(s, i, [lo |-> 0, hi |-> 0], 0)

\* int(rLength) is at most k.
AtMost(v, k) == v.hi = 0 /\ v.lo <= k

-----------------------------------------------------------------------------
(* FixedHeader.unpack and FixedHeader.pack                                  *)

\* Mutant: the QoS is masked with 0x01.
unpackNarrowQos(typeAndFlags) ==
    [MessageType |-> typeAndFlags \div 16,
     Dup         |-> ((typeAndFlags \div 8) & 1) > 0,
     Qos         |-> (typeAndFlags \div 2) & 1,
     Retain      |-> (typeAndFlags & 1) > 0]

\* The fields taken from the first byte (the remaining length is read by
\* ReadPacket through decodeLength right after).
unpack(typeAndFlags) ==
    [MessageType |-> typeAndFlags \div 16,
     Dup         |-> ((typeAndFlags \div 8) & 1) > 0,
     Qos         |-> (typeAndFlags \div 2) & 3,
     Retain      |-> (typeAndFlags & 1) > 0]

BoolToByte(b) == IF b THEN 1 ELSE 0

pack(fh, remainingLength) ==
    << ((Byte(fh.MessageType * 16) | (BoolToByte(fh.Dup) * 8)) | (fh.Qos * 2)) | BoolToByte(fh.Retain) >>
    \o encodeLength(remainingLength)

-----------------------------------------------------------------------------
(* NewControlPacketWithHeader: the check at line 185 is never true; the    *)
(* pool index fh.MessageType-1 is byte arithmetic (0 - 1 = 255), and an    *)
(* index outside the array panics before the switch's default is reached.  *)

\* newControlPacketWithHeader, taken when the pool is empty: a packet for
\* each type of the switch, nil for any other.  The pooled branch's switch
\* has the same cases.
newControlPacketWithHeader(fh) ==
    IF fh.MessageType \in 1..MaxMessageType THEN "packet" ELSE "nil"

NewControlPacketWithHeader(fh) ==
    IF fh.MessageType = 0 /\ fh.MessageType > MaxMessageType THEN "nil"
    ELSE IF Byte(fh.MessageType - 1 + 256) >= PacketPoolsLen THEN "panic"
    ELSE newControlPacketWithHeader(fh)

-----------------------------------------------------------------------------
(* The reference: MQTT 3.1.1.  A remaining length is 1 to 4 bytes; a       *)
(* fifth continuation byte is malformed; a stream that ends early is an    *)
(* end-of-stream error; control packet types are 1..14.                    *)

RECURSIVE RefVarint(_, _, _)
RefVarint(s, i, k) ==
    CASE i > Len(s)  -> [ok |-> FALSE, why |-> "eof"]
      [] k = 4       -> [ok |-> FALSE, why |-> "malformed"]
      [] s[i] < 128  -> [ok |-> TRUE, val |-> s[i], next |-> i + 1]
      [] OTHER       -> LET rest == RefVarint(s, i + 1, k + 1)
                        IN  IF rest.ok
                               THEN [ok |-> TRUE, val |-> (s[i] - 128) + 128 * rest.val,
                                     next |-> rest.next]
                               ELSE rest

\* The number of bytes MQTT encodes a remaining length in.
RefLengthBytes(n) == CASE n < 128 -> 1 [] n < 16384 -> 2 [] n < 2097152 -> 3 [] OTHER -> 4

=============================================================================
