-------------------------------- MODULE Body --------------------------------
(***************************************************************************)
(* The packet bodies of src/packets: the field loaders and encoders of     *)
(* packets.go, Write and Unpack of PUBLISH (publish.go), PUBREC and        *)
(* UNSUBSCRIBE (pubrec.go), SUBSCRIBE and SUBACK (subscribe.go,            *)
(* suback.go), and ReadPacket through cp.Unpack.  A slice is a sequence of *)
(* bytes; a string is the sequence of its bytes.  A decoded packet is a    *)
(* record of the fields the packet structs hold; Unpack writes into the    *)
(* object it is given, which may come from a pool.  A Go runtime panic     *)
(* (a slice index out of range) is an outcome with panic |-> TRUE.         *)
(* Alongside: MQTT 3.1.1's reading of a packet body (spec 4.3).            *)
(***************************************************************************)
EXTENDS Codec, SequencesExt

\* The fields of a packet object, as NewControlPacket leaves them.
Fresh == [MessageID |-> 0, TopicName |-> <<>>, Payload |-> <<>>,
          Topics |-> <<>>, Qoss |-> <<>>, GrantedQoss |-> <<>>]

\* Go's src[a:], for 0 <= a <= len(src).
From(src, a) == SubSeq(src, a + 1, Len(src))

-----------------------------------------------------------------------------
(* Loaders and encoders (packets.go:379-489)                                *)

loadByte(src) == IF Len(src) = 0 THEN 0 ELSE src[1]

loadUint16(src) == IF Len(src) < 2 THEN 0 ELSE src[1] * 256 + src[2]

\* end is uint16(...) + 2 in uint16 arithmetic: a length field of 0xFFFE
\* or 0xFFFF gives end 0 or 1, and src[2:end] is out of range.
loadBytes(src) ==
    LET end == (loadUint16(src) + 2) % 65536
    IN  CASE Len(src) < end -> [panic |-> FALSE, bs |-> <<>>, end |-> Len(src)]
          [] end < 2        -> [panic |-> TRUE, bs |-> <<>>, end |-> 0]
          [] OTHER          -> [panic |-> FALSE, bs |-> SubSeq(src, 3, end), end |-> end]

\* string(bs) copies the bytes.
loadString(src) == loadBytes(src)

encodeUint16(num) == <<num \div 256, num % 256>>

\* uint16(len(field)) keeps the length modulo 2^16.
encodeString(field) == encodeUint16(Len(field) % 65536) \o field

\* ByteSlicePool.encodeBytes, the form PublishPacket.Write uses.
encodeBytes(field) == encodeUint16(Len(field) % 65536) \o field

-----------------------------------------------------------------------------
(* Write: each method builds the body, sets RemainingLength from it, and   *)
(* writes pack() followed by the body.                                     *)

\* Mutant: the message id is written whatever the QoS.
PublishWriteAlwaysId(p) ==
    LET body == encodeBytes(p.TopicName) \o encodeUint16(p.MessageID)
    IN  pack(p.fh, Len(body) + Len(p.Payload)) \o body \o p.Payload

PublishWrite(p) ==
    LET body == encodeBytes(p.TopicName)
                \o (IF p.fh.Qos > 0 THEN encodeUint16(p.MessageID) ELSE <<>>)
    IN  pack(p.fh, Len(body) + Len(p.Payload)) \o body \o p.Payload

PubrecWrite(p) == pack(p.fh, 2) \o encodeUint16(p.MessageID)

SubscribeWrite(p) ==
    LET body == encodeUint16(p.MessageID)
                \o FlattenSeq([i \in 1..Len(p.Topics) |-> encodeString(p.Topics[i]) \o <<p.Qoss[i]>>])
    IN  pack(p.fh, Len(body)) \o body

SubackWrite(p) ==
    LET body == encodeUint16(p.MessageID) \o p.GrantedQoss
    IN  pack(p.fh, Len(body)) \o body

UnsubscribeWrite(p) ==
    LET body == encodeUint16(p.MessageID)
                \o FlattenSeq([i \in 1..Len(p.Topics) |-> encodeString(p.Topics[i])])
    IN  pack(p.fh, Len(body)) \o body

\* ControlPacket.Write, dispatched on the packet's type.
Write(p) ==
    CASE p.fh.MessageType = 3  -> PublishWrite(p)
      [] p.fh.MessageType = 5  -> PubrecWrite(p)
      [] p.fh.MessageType = 8  -> SubscribeWrite(p)
      [] p.fh.MessageType = 9  -> SubackWrite(p)
      [] p.fh.MessageType = 10 -> UnsubscribeWrite(p)

-----------------------------------------------------------------------------
(* Unpack(src) into object obj.                                             *)

Ok(obj) == [panic |-> FALSE, obj |-> obj]
Panic(obj) == [panic |-> TRUE, obj |-> obj]

\* MessageID is set only for QoS > 0; src[2:] is out of range when the
\* bytes end before the message id.
PublishUnpack(obj, fh, src) ==
    LET t    == loadBytes(src)
        rest == From(src, t.end)
    IN  CASE t.panic                      -> Panic(obj)
          [] fh.Qos > 0 /\ Len(rest) < 2  -> Panic(obj)
          [] fh.Qos > 0 -> Ok([obj EXCEPT !.TopicName = t.bs, !.MessageID = loadUint16(rest),
                                          !.Payload = From(rest, 2)])
          [] OTHER      -> Ok([obj EXCEPT !.TopicName = t.bs, !.Payload = rest])

PubrecUnpack(obj, src) == Ok([obj EXCEPT !.MessageID = loadUint16(src)])

\* Topics and Qoss are appended to what the object already holds.
SubscribeUnpack(obj, src) ==
    LET RECURSIVE Entries(_, _)
        Entries(o, s) ==
            IF Len(s) <= 2 THEN Ok(o)
            ELSE LET t    == loadString(s)
                     rest == From(s, t.end)
                 IN  CASE t.panic       -> Panic(o)
                       [] Len(rest) < 1 -> Ok(o)
                       [] OTHER -> Entries([o EXCEPT !.Topics = Append(@, t.bs),
                                                     !.Qoss = Append(@, loadByte(rest))],
                                           From(rest, 1))
        withId == [obj EXCEPT !.MessageID = loadUint16(src)]
    IN  IF Len(src) < 2 THEN Ok(withId) ELSE Entries(withId, From(src, 2))

\* Mutant: the grants are taken from the id's second byte on.
SubackUnpackOffByOne(obj, src) ==
    Ok([obj EXCEPT !.MessageID = loadUint16(src),
                   !.GrantedQoss = IF Len(src) < 2 THEN <<>> ELSE From(src, 1)])

SubackUnpack(obj, src) ==
    Ok([obj EXCEPT !.MessageID = loadUint16(src),
                   !.GrantedQoss = IF Len(src) < 2 THEN <<>> ELSE From(src, 2)])

\* The topic loop starts at src itself, not after the message id, and
\* stops at the first empty topic.
UnsubscribeUnpack(obj, src) ==
    LET RECURSIVE Topics(_, _)
        Topics(o, s) ==
            LET t == loadString(s)
            IN  CASE t.panic      -> Panic(o)
                  [] t.bs = <<>>  -> Ok(o)
                  [] OTHER        -> Topics([o EXCEPT !.Topics = Append(@, t.bs)], From(s, t.end))
    IN  Topics([obj EXCEPT !.MessageID = loadUint16(src)], src)

\* PUBACK, PUBREL, PUBCOMP and UNSUBACK carry a message id (spec 4.3); the
\* remaining types' Unpack reads no field the model keeps.
AckUnpack(obj, src) == Ok([obj EXCEPT !.MessageID = loadUint16(src)])

\* ControlPacket.Unpack, dispatched on the packet's type.
Unpack(fh, obj, src) ==
    CASE fh.MessageType = 3                -> PublishUnpack(obj, fh, src)
      [] fh.MessageType = 5                -> PubrecUnpack(obj, src)
      [] fh.MessageType = 8                -> SubscribeUnpack(obj, src)
      [] fh.MessageType = 9                -> SubackUnpack(obj, src)
      [] fh.MessageType = 10               -> UnsubscribeUnpack(obj, src)
      [] fh.MessageType \in {4, 6, 7, 11}  -> AckUnpack(obj, src)
      [] OTHER                             -> Ok(obj)

-----------------------------------------------------------------------------
(* ReadPacket(r PacketReader): read the type byte, unpack the header and   *)
(* its length, get the packet, io.ReadFull the remaining bytes into a      *)
(* slice of that length, then cp.Unpack them into the packet object, here *)
(* a fresh one.                                                            *)

ReadPacket(s) ==
    IF s = <<>> THEN [result |-> "err"]
    ELSE LET fh   == unpack(s[1])
             len  == decodeLength(s, 2)
             cp   == NewControlPacketWithHeader(fh)
             body == SubSeq(s, len.next, len.next + len.val.lo - 1)
             u    == Unpack(fh, Fresh, body)
         IN  CASE len.panic       -> [result |-> "panic"]
               [] cp = "panic"    -> [result |-> "panic"]
               [] cp = "nil"      -> [result |-> "err"]
               [] ~AtMost(len.val, Len(s) - (len.next - 1)) -> [result |-> "err"]
               [] u.panic         -> [result |-> "panic"]
               [] OTHER -> [result |-> "ok", fh |-> fh, rl |-> len.val.lo,
                            used |-> len.next - 1 + len.val.lo, obj |-> u.obj]

-----------------------------------------------------------------------------
(* The reference: MQTT 3.1.1 section 3.  A length-prefixed field must fit  *)
(* in the body; a topic filter is not empty and its requested QoS is 0..2; *)
(* SUBSCRIBE and UNSUBSCRIBE carry at least one filter, SUBACK at least    *)
(* one return code in {0, 1, 2, 0x80}; the acks are exactly a message id;  *)
(* PINGREQ, PINGRESP and DISCONNECT have no body; CONNACK has two bytes.   *)
(* Flag and UTF-8 checks are left out, as the code makes none.            *)

Prefix(s) == IF Len(s) < 2 THEN 0 ELSE s[1] * 256 + s[2]

\* The filter list of a SUBSCRIBE (withQos) or an UNSUBSCRIBE body.
RECURSIVE RefFilters(_, _)
RefFilters(s, withQos) ==
    LET L    == Prefix(s)
        need == 2 + L + (IF withQos THEN 1 ELSE 0)
        rest == RefFilters(From(s, need), withQos)
    IN  CASE s = <<>> -> [ok |-> TRUE, topics |-> <<>>, qoss |-> <<>>]
          [] Len(s) < need \/ L = 0 \/ (withQos /\ s[need] > 2)
                      -> [ok |-> FALSE, topics |-> <<>>, qoss |-> <<>>]
          [] ~rest.ok -> rest
          [] OTHER    -> [ok |-> TRUE, topics |-> <<SubSeq(s, 3, 2 + L)>> \o rest.topics,
                          qoss |-> (IF withQos THEN <<s[need]>> ELSE <<>>) \o rest.qoss]

Malformed == [ok |-> FALSE, obj |-> Fresh]
Read(obj) == [ok |-> TRUE, obj |-> obj]

RefBody(fh, body) ==
    LET t    == fh.MessageType
        L    == Prefix(body)
        idAt == 2 + L                       \* a PUBLISH's message id follows the topic
        idLen == IF fh.Qos > 0 THEN 2 ELSE 0
        fs   == RefFilters(From(body, 2), t = 8)
    IN  CASE t = 3 -> IF Len(body) < 2 + L + idLen \/ fh.Qos = 3 THEN Malformed
                      ELSE Read([Fresh EXCEPT !.TopicName = SubSeq(body, 3, 2 + L),
                                 !.MessageID = IF idLen = 2 THEN Prefix(From(body, idAt)) ELSE 0,
                                 !.Payload = From(body, idAt + idLen)])
          [] t \in {4, 5, 6, 7, 11} -> IF Len(body) # 2 THEN Malformed
                                       ELSE Read([Fresh EXCEPT !.MessageID = Prefix(body)])
          [] t = 9 -> IF Len(body) < 3 \/ \E i \in 3..Len(body) : body[i] \notin {0, 1, 2, 128}
                      THEN Malformed
                      ELSE Read([Fresh EXCEPT !.MessageID = Prefix(body), !.GrantedQoss = From(body, 2)])
          [] t \in {8, 10} -> IF Len(body) < 2 \/ ~fs.ok \/ fs.topics = <<>> THEN Malformed
                              ELSE Read([Fresh EXCEPT !.MessageID = Prefix(body), !.Topics = fs.topics,
                                         !.Qoss = fs.qoss])
          [] t \in {12, 13, 14} -> IF body # <<>> THEN Malformed ELSE Read(Fresh)
          [] t = 2 -> IF Len(body) # 2 THEN Malformed ELSE Read(Fresh)
          [] OTHER -> Read(Fresh)

RefRead(s) ==
    IF s = <<>> THEN [result |-> "eof"]
    ELSE LET v  == RefVarint(s, 2, 0)
             fh == [MessageType |-> s[1] \div 16, Dup |-> (s[1] \div 8) % 2 = 1,
                    Qos |-> (s[1] \div 2) % 4, Retain |-> s[1] % 2 = 1]
             b  == RefBody(fh, SubSeq(s, v.next, v.next + v.val - 1))
         IN  CASE ~v.ok                        -> [result |-> v.why]
               [] fh.MessageType \notin 1..14  -> [result |-> "malformed"]
               [] v.next - 1 + v.val > Len(s)  -> [result |-> "eof"]
               [] ~b.ok                        -> [result |-> "malformed"]
               [] OTHER -> [result |-> "ok", fh |-> fh, rl |-> v.val,
                            used |-> v.next - 1 + v.val, obj |-> b.obj]

=============================================================================
