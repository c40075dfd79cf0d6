------------------------------- MODULE MC_Pure -------------------------------
(***************************************************************************)
(* The pure algorithms of the client against their references, one input  *)
(* per state:                                                              *)
(*  - [filter, topic]: every valid filter and topic name of up to MaxLen   *)
(*    characters over Chars, through routeIncludesTopic and MqttMatch;     *)
(*  - [n]: every remaining length up to MaxLength and the boundaries of    *)
(*    the 1- to 4-byte encodings, through encodeLength and decodeLength;   *)
(*  - [stream]: every byte stream of up to MaxStream bytes over Alphabet,  *)
(*    read by ReadPacket and by the MQTT 3.1.1 reference.  The alphabet    *)
(*    holds a QoS 2 PUBLISH header (0x34), a DISCONNECT header (0xE0),     *)
(*    type 0 and type 15 bytes (0x01, 0xF0), PUBCOMP with every flag set   *)
(*    (0x7F), a continuation byte (0x80) and a terminating zero;           *)
(*  - [pkt]: every packet of Packets, through Write; Wire then puts its    *)
(*    bytes on the stream, so that they are read back as a stream.         *)
(***************************************************************************)
EXTENDS Body, Topic

CONSTANTS MaxLength, Alphabet, MaxStream

Lengths == (0..MaxLength) \cup {16383, 16384, 2097151, 2097152, MaxRemaining}
Streams == BoundedSeq(Alphabet, MaxStream)

VARIABLE input

\* Packets as the client builds them: a topic or filter and a payload of
\* up to 3 bytes, message ids at both ends of the 16-bit range and one
\* with both bytes set, one or two filters, and every flag of a PUBLISH.
\* SUBSCRIBE and UNSUBSCRIBE get QoS 1 from NewControlPacket.
Names == {<<97>>, <<97, 47, 98>>}
Payloads == {<<>>, <<0>>, <<255, 1>>}
MsgIds == {1, 258, 65535}
Filters1or2 == {s \in BoundedSeq(Names, 2) : s # <<>>}
Pkt(fh, id, tn, pl, ts, qs, gq) ==
    [fh |-> fh, MessageID |-> id, TopicName |-> tn, Payload |-> pl,
     Topics |-> ts, Qoss |-> qs, GrantedQoss |-> gq]
Hdr(t, q) == [MessageType |-> t, Dup |-> FALSE, Qos |-> q, Retain |-> FALSE]

Packets ==
    {Pkt(fh, id, tn, pl, <<>>, <<>>, <<>>) :
        fh \in [MessageType : {3}, Dup : BOOLEAN, Qos : 0..2, Retain : BOOLEAN],
        id \in MsgIds \cup {0}, tn \in Names, pl \in Payloads}
    \cup {Pkt(Hdr(5, 0), id, <<>>, <<>>, <<>>, <<>>, <<>>) : id \in MsgIds}
    \cup {Pkt(Hdr(8, 1), id, <<>>, <<>>, ts, qs, <<>>) :
            id \in MsgIds, ts \in Filters1or2, qs \in BoundedSeq(0..2, 2)}
    \cup {Pkt(Hdr(9, 0), id, <<>>, <<>>, <<>>, <<>>, gq) :
            id \in MsgIds, gq \in {g \in BoundedSeq({0, 1, 2, 128}, 2) : g # <<>>}}
    \cup {Pkt(Hdr(10, 1), id, <<>>, <<>>, ts, <<>>, <<>>) : id \in MsgIds, ts \in Filters1or2}

\* Only a PUBLISH of QoS > 0 is given a message id (outgoing stamps it);
\* a SUBSCRIBE has a QoS per filter.
Wellformed(p) == /\ p.fh.MessageType = 3 => (p.fh.Qos = 0 <=> p.MessageID = 0)
                 /\ p.fh.MessageType = 8 => Len(p.Qoss) = Len(p.Topics)

Init == input \in [filter : Filters, topic : Topics] \cup [n : Lengths] \cup [stream : Streams]
                  \cup [pkt : {p \in Packets : Wellformed(p)}]

\* Keep the filter and try it against another topic.
Pick == /\ "filter" \in DOMAIN input
        /\ \E t \in Topics : input' = [input EXCEPT !.topic = t]

\* Move to the length left after the first digit is written.
Shift == /\ "n" \in DOMAIN input
         /\ input' = [n |-> input.n \div 128]

\* Move on to the stream that starts one byte later.
Skip == /\ "stream" \in DOMAIN input
        /\ input' = [stream |-> IF input.stream = <<>> THEN <<>> ELSE Tail(input.stream)]

\* Write the packet to the connection; its bytes are then read as a stream.
Wire == /\ "pkt" \in DOMAIN input
        /\ input' = [stream |-> Write(input.pkt)]

Spec == Init /\ [][Pick \/ Shift \/ Skip \/ Wire]_input

IsPair == "filter" \in DOMAIN input
IsStream == "stream" \in DOMAIN input
ref == RefRead(input.stream)
code == ReadPacket(input.stream)

\* Soundness of route.matchBytes (router.go:32-69), the test
\* matchAndDispatch applies: a valid filter the code says matches a valid
\* topic also matches it under the MQTT rules, so the router never
\* dispatches a message to a subscription the broker would not have matched.
CodeMatchIsSound ==
    IsPair => (matchBytes(input.filter, input.topic) => MqttMatch(input.filter, input.topic))

\* What FixedHeader.pack writes for a remaining length (encodeLength,
\* packets.go:413-427) is read back by decodeLength (packets.go:429-444)
\* as the same length, consuming exactly the bytes written, and takes as
\* many bytes as MQTT 3.1.1 prescribes for that length.
EncodeDecodeRoundTrip ==
    "n" \in DOMAIN input =>
        LET e == encodeLength(input.n)
            d == decodeLength(e, 1)
        IN  /\ ~d.panic
            /\ d.val = [lo |-> input.n, hi |-> 0]
            /\ d.next = Len(e) + 1
            /\ Len(e) = RefLengthBytes(input.n)

\* The types a broker sends a client (MQTT 3.1.1 section 3).
ClientBound == {2, 3, 4, 5, 6, 7, 9, 11, 13}

\* A well-formed packet of a type a broker sends is read by ReadPacket
\* (packets.go:120-139: unpack, decodeLength, then cp.Unpack of
\* publish.go, pubrec.go, suback.go) with the header, remaining length,
\* length on the wire and fields MQTT 3.1.1 gives it.  The streams include
\* every packet of Packets as Write puts it on the wire.
ReadPacketAgreesOnValid ==
    IsStream /\ ref.result = "ok" /\ ref.fh.MessageType \in ClientBound => code = ref

\* What the client writes is MQTT: for every packet the Write methods of
\* publish.go, pubrec.go, subscribe.go, suback.go and unsubscribe build
\* (a body, RemainingLength computed from it, pack()), an MQTT 3.1.1
\* reader reads exactly the bytes written and finds the header and every
\* field of the packet (spec 4.3: "All encoders must recompute
\* remaining_length from the encoded body").
WriteIsMqtt ==
    "pkt" \in DOMAIN input =>
        LET bytes == Write(input.pkt)
            r     == RefRead(bytes)
        IN  /\ r.result = "ok"
            /\ r.used = Len(bytes)
            /\ r.fh = input.pkt.fh
            /\ r.obj = [f \in DOMAIN Fresh |-> input.pkt[f]]

\* ReadPacket fails cleanly: on a stream MQTT 3.1.1 rejects (a type
\* outside 1..14, a fifth remaining-length byte, an early end) it returns
\* an error, and it never panics (the nil check at packets.go:129-131
\* meant for bad types; spec 4.2: MalformedVarint after 4 bytes; spec
\* example 5: a transport read error ends in connection-lost, no panic).
ReadPacketFailsCleanly ==
    IsStream => /\ code.result # "panic"
                /\ ref.result # "ok" => code.result = "err"
===============================================================================
