------------------------------- MODULE Session -------------------------------
(***************************************************************************)
(* The session engine of the client (src/net.go, src/ping.go): the four    *)
(* goroutines incoming, outgoing, alllogic and keepalive, the channels     *)
(* between them, the message-id registry and the tokens, together with    *)
(* the user who calls Publish/Subscribe/Unsubscribe/Disconnect, the        *)
(* router goroutine that drains incomingPubChan, and an MQTT 3.1.1 broker  *)
(* at the other end of one connection that may break.                      *)
(*                                                                         *)
(* Each goroutine has a program counter naming the statement it is blocked *)
(* at.  A buffered Go channel is a sequence (or a count, for signals)      *)
(* bounded by its capacity; the unbuffered ibound is a rendezvous between  *)
(* incoming (blocked at "sendIbound") and alllogic.  Time is abstract: a   *)
(* running timer may fire at any moment, and a 1-second send timeout can   *)
(* only win when the channel is full.  Packets are records; their tok      *)
(* field is a ghost that names the user operation or broker message a      *)
(* packet belongs to, so that properties can relate acks to operations.    *)
(***************************************************************************)
EXTENDS Naturals, Sequences, FiniteSets

CONSTANTS
    PubToks, SubToks, UnsubToks, DiscToks,  \* user operations (tokens)
    PubQos,        \* [PubToks -> 0..2], the QoS of each user publish
    InMsgs,        \* the messages the broker publishes to the client
    InQos,         \* [InMsgs -> 0..2]
    InId,          \* [InMsgs -> 1..MaxId], the broker's id of each message
    MaxId,         \* message ids are 1..MaxId (65535 in the code)
    ObCap,         \* capacity of obound and oboundP (MessageChannelDepth)
    PubChanCap,    \* capacity of incomingPubChan (MessageChannelDepth)
    ErrCap,        \* capacity of the errors channel
    PingCaps,      \* capacities of resetPing and resetPingResp the build may give
    KeepAliveOn,   \* whether keepalive runs (options.KeepAlive != 0)
    ConnCanFail,   \* whether the transport may break under the client
    MaxPingsOnWire,\* PINGREQ/PINGRESP on the wire before pingTimer may expire
    NoTok          \* "no token": a free id, an ack's PacketAndToken.t

Tokens == PubToks \cup SubToks \cup UnsubToks \cup DiscToks
Ids == 1..MaxId

ASSUME /\ PubQos \in [PubToks -> 0..2] /\ InQos \in [InMsgs -> 0..2]
       /\ MaxId \in Nat \ {0} /\ InId \in [InMsgs -> Ids]
       /\ {ObCap, PubChanCap, ErrCap} \subseteq Nat \ {0} /\ PingCaps \subseteq Nat /\ PingCaps # {}
       /\ MaxPingsOnWire \in Nat \ {0}
       /\ NoTok \notin Tokens \cup InMsgs

Acts == {"incoming", "outgoing", "logic", "keepalive"}

Pkt(type, id, tok, qos) == [type |-> type, id |-> id, tok |-> tok, qos |-> qos]
PubTypes == {"PUBLISH"}
AckTypes == {"PUBACK", "PUBREC", "PUBREL", "PUBCOMP", "SUBACK", "UNSUBACK"}
CtlTypes == {"SUBSCRIBE", "UNSUBSCRIBE", "DISCONNECT", "PINGREQ", "PINGRESP"}
NoPkt == Pkt("NONE", 0, NoTok, 0)
Packets == [type : PubTypes \cup AckTypes \cup CtlTypes \cup {"NONE"}, id : 0..MaxId,
            tok : Tokens \cup InMsgs \cup {NoTok}, qos : 0..2]
Timer == [run : BOOLEAN, fired : BOOLEAN]

VARIABLES
    pc,          \* [Acts -> statement each goroutine is at]
    ipkt,        \* incoming: the packet read, waiting to go on ibound
    shared,      \* ipkt was read into the pooled PublishPacket alllogic still acks
    lmsg,        \* alllogic: the packet being handled
    opt,         \* outgoing: the PacketAndToken being written
    stopped,     \* c.stop has been closed
    conn,        \* "open", "broken" (by the peer or network), "closed" (by us)
    werr,        \* outgoing's bufio.Writer holds a sticky error
    obound, oboundP, pubChan,   \* the buffered channels, as sequences
    errs,        \* number of errors buffered in c.errors
    reposts,     \* goroutines re-posting an error (net.go:322)
    rPing, rPingResp,           \* signals buffered in resetPing, resetPingResp
    pingTimer, pingRespTimer,   \* Go timers: running, tick in channel
    mids,        \* message-id registry: [Ids -> token or NoTok]
    lastId,      \* last id handed out (the sweep starts after it)
    freeing,     \* ids with a pending "go c.freeID(id)"
    toBroker, toClient,         \* the two directions of the TCP stream
    issued, done,               \* tokens handed to the client / completed
    handed, delivered,          \* broker messages put on incomingPubChan / dispatched
    bDone,       \* broker: operations whose flow it has ended
    bSent, bAcked,              \* broker: messages sent / PUBACK or PUBREC seen
    hookCalls,   \* number of calls of internalConnLost
    pingCap,     \* the capacity of resetPing and resetPingResp (client.go)
    panicked     \* a goroutine panicked: the process is dead

local   == <<pc, ipkt, shared, lmsg, opt>>
chans   == <<obound, oboundP, pubChan, errs, reposts, rPing, rPingResp>>
timers  == <<pingTimer, pingRespTimer>>
reg     == <<mids, lastId, freeing>>
net     == <<stopped, conn, werr, toBroker, toClient>>
user    == <<issued, done, handed, delivered>>
broker  == <<bDone, bSent, bAcked>>
vars    == <<local, chans, timers, reg, net, user, broker, hookCalls, panicked, pingCap>>

-----------------------------------------------------------------------------
(* Message-id registry (messageids.go is not in the sources; its contract  *)
(* is spec 4.4: a sweeping counter from the last id, skipping held ids,    *)
(* never 0, blocking while every id is held).                              *)

Sweep(k) == ((lastId + k - 1) % MaxId) + 1

FreeId == {i \in Ids : mids[i] = NoTok}

\* getID(t): the first free id after lastId, registered for t.
getID(t, id) ==
    /\ FreeId # {}
    /\ id = Sweep(CHOOSE k \in 1..MaxId : mids[Sweep(k)] = NoTok
                                    /\ \A j \in 1..(k - 1) : mids[Sweep(j)] # NoTok)
    /\ mids' = [mids EXCEPT ![id] = t]
    /\ lastId' = id

\* The goroutine started by "go c.freeID(id)" runs.
FreeIdRoutine ==
    /\ ~panicked
    /\ \E i \in freeing : /\ mids' = [mids EXCEPT ![i] = NoTok]
                          /\ freeing' = freeing \ {i}
    /\ UNCHANGED <<local, chans, timers, lastId, net, user, broker, hookCalls, panicked, pingCap>>

\* internalConnLost (client.go, not in the sources; spec 4.6/7): stop every
\* activity and close the connection.
ConnLost ==
    /\ hookCalls' = hookCalls + 1
    /\ stopped' = TRUE
    /\ conn' = "closed"

-----------------------------------------------------------------------------
(* incoming (net.go:88-131)                                                *)

\* ReadPacket takes a PublishPacket from its sync.Pool (packets.go:189).
\* Once the router has dispatched and released (part_001:155) the packet
\* alllogic still reads for its PUBACK or PUBREC, the pool may hand that
\* same object to incoming.
MayShare(p) == p.type = "PUBLISH" /\ pc["logic"] = "sendAck" /\ lmsg.tok \in delivered

\* ReadPacket succeeds; the stop check; then block on ibound.
IncomingRead ==
    /\ ~panicked /\ pc["incoming"] = "read"
    /\ conn # "closed" /\ toClient # <<>>
    /\ toClient' = Tail(toClient)
    /\ IF stopped THEN pc' = [pc EXCEPT !["incoming"] = "done"] /\ UNCHANGED ipkt
                  ELSE pc' = [pc EXCEPT !["incoming"] = "sendIbound"] /\ ipkt' = Head(toClient)
    /\ shared' \in IF ~stopped /\ MayShare(Head(toClient)) THEN BOOLEAN ELSE {FALSE}
    /\ UNCHANGED <<lmsg, opt, chans, timers, reg, stopped, conn, werr, toBroker,
                   user, broker, hookCalls, panicked, pingCap>>

\* Mutant: c.errors <- err as if errors were unbounded.
IncomingSendErrUnbounded ==
    /\ ~panicked /\ pc["incoming"] = "sendErr"
    /\ errs' = errs + 1
    /\ pc' = [pc EXCEPT !["incoming"] = "done"]
    /\ UNCHANGED <<ipkt, shared, lmsg, opt, obound, oboundP, pubChan, reposts, rPing, rPingResp,
                   timers, reg, net, user, broker, hookCalls, panicked, pingCap>>

\* ReadPacket fails; swallowed if stop is closed, else posted to errors.
IncomingReadError ==
    /\ ~panicked /\ pc["incoming"] = "read"
    /\ conn # "open"
    /\ pc' = [pc EXCEPT !["incoming"] = IF stopped THEN "done" ELSE "sendErr"]
    /\ UNCHANGED <<ipkt, shared, lmsg, opt, chans, timers, reg, net, user, broker, hookCalls, panicked, pingCap>>

IncomingSendErr ==
    /\ ~panicked /\ pc["incoming"] = "sendErr"
    /\ errs < ErrCap
    /\ errs' = errs + 1
    /\ pc' = [pc EXCEPT !["incoming"] = "done"]
    /\ UNCHANGED <<ipkt, shared, lmsg, opt, obound, oboundP, pubChan, reposts, rPing, rPingResp,
                   timers, reg, net, user, broker, hookCalls, panicked, pingCap>>

-----------------------------------------------------------------------------
(* outgoing (net.go:135-220)                                               *)

\* The effect of a flush on the stream: delivered while the connection is
\* open; lost without an error while the peer is gone but the local socket
\* still accepts the bytes.
Flushed == IF conn = "open" THEN Append(toBroker, opt.p) ELSE toBroker

OutStop ==
    /\ ~panicked /\ pc["outgoing"] = "select" /\ stopped
    /\ pc' = [pc EXCEPT !["outgoing"] = "done"]
    /\ UNCHANGED <<ipkt, shared, lmsg, opt, chans, timers, reg, net, user, broker, hookCalls, panicked, pingCap>>

\* case pub := <-c.obound: a QoS>0 publish without an id needs one.
OutTakePublish ==
    /\ ~panicked /\ pc["outgoing"] = "select" /\ obound # <<>>
    /\ LET t == Head(obound) IN
       /\ opt' = [p |-> Pkt("PUBLISH", 0, t, PubQos[t]), t |-> t]
       /\ pc' = [pc EXCEPT !["outgoing"] = IF PubQos[t] # 0 THEN "getID" ELSE "writePub"]
    /\ obound' = Tail(obound)
    /\ UNCHANGED <<ipkt, shared, lmsg, oboundP, pubChan, errs, reposts, rPing, rPingResp,
                   timers, reg, net, user, broker, hookCalls, panicked, pingCap>>

\* case msg := <-c.oboundP: SUBSCRIBE and UNSUBSCRIBE get an id.
OutTakePriority ==
    /\ ~panicked /\ pc["outgoing"] = "select" /\ oboundP # <<>>
    /\ opt' = Head(oboundP)
    /\ oboundP' = Tail(oboundP)
    /\ pc' = [pc EXCEPT !["outgoing"] =
                 IF Head(oboundP).p.type \in {"SUBSCRIBE", "UNSUBSCRIBE"} THEN "getID" ELSE "writePri"]
    /\ UNCHANGED <<ipkt, shared, lmsg, obound, pubChan, errs, reposts, rPing, rPingResp,
                   timers, reg, net, user, broker, hookCalls, panicked, pingCap>>

\* msg.MessageID = c.getID(t): stamp the packet (and the token).
OutGetID ==
    /\ ~panicked /\ pc["outgoing"] = "getID"
    /\ \E id \in Ids :
          /\ getID(opt.t, id)
          /\ opt' = [opt EXCEPT !.p.id = id]
    /\ pc' = [pc EXCEPT !["outgoing"] = IF opt.p.type = "PUBLISH" THEN "writePub" ELSE "writePri"]
    /\ UNCHANGED <<ipkt, shared, lmsg, chans, timers, freeing, net, user, broker, hookCalls, panicked, pingCap>>

\* Mutant: the token completes after the write whatever its QoS.
OutWritePublishAnyQos ==
    /\ ~panicked /\ pc["outgoing"] = "writePub"
    /\ \/ /\ ~werr /\ conn # "closed"
          /\ toBroker' = Flushed
          /\ done' = done \cup {opt.t}
          /\ pc' = [pc EXCEPT !["outgoing"] = "resetPing"]
          /\ UNCHANGED werr
       \/ /\ werr \/ conn # "open"
          /\ werr' = TRUE
          /\ pc' = [pc EXCEPT !["outgoing"] = "sendErr"]
          /\ UNCHANGED <<toBroker, done>>
    /\ UNCHANGED <<ipkt, shared, lmsg, opt, chans, timers, reg, stopped, conn, toClient,
                   issued, handed, delivered, broker, hookCalls, panicked, pingCap>>

\* msg.Write(writer); writer.Flush(): on success a QoS 0 token completes;
\* on error the error is posted and outgoing returns.
OutWritePublish ==
    /\ ~panicked /\ pc["outgoing"] = "writePub"
    /\ \/ /\ ~werr /\ conn # "closed"
          /\ toBroker' = Flushed
          /\ done' = IF opt.p.qos = 0 THEN done \cup {opt.t} ELSE done
          /\ pc' = [pc EXCEPT !["outgoing"] = "resetPing"]
          /\ UNCHANGED werr
       \/ /\ werr \/ conn # "open"
          /\ werr' = TRUE
          /\ pc' = [pc EXCEPT !["outgoing"] = "sendErr"]
          /\ UNCHANGED <<toBroker, done>>
    /\ UNCHANGED <<ipkt, shared, lmsg, opt, chans, timers, reg, stopped, conn, toClient,
                   issued, handed, delivered, broker, hookCalls, panicked, pingCap>>

\* msg.p.Write(writer) fails only with the writer's sticky error; the
\* error of writer.Flush() is ignored.  DISCONNECT completes its token and
\* ends outgoing.
OutWritePriority ==
    /\ ~panicked /\ pc["outgoing"] = "writePri"
    /\ \/ /\ werr
          /\ pc' = [pc EXCEPT !["outgoing"] = "sendErr"]
          /\ UNCHANGED <<toBroker, werr, done>>
       \/ /\ ~werr
          /\ \/ conn # "closed" /\ toBroker' = Flushed /\ UNCHANGED werr
             \/ conn # "open" /\ werr' = TRUE /\ UNCHANGED toBroker
          /\ IF opt.p.type = "DISCONNECT"
                THEN done' = done \cup {opt.t} /\ pc' = [pc EXCEPT !["outgoing"] = "done"]
                ELSE pc' = [pc EXCEPT !["outgoing"] = "resetPing"] /\ UNCHANGED done
    /\ UNCHANGED <<ipkt, shared, lmsg, opt, chans, timers, reg, stopped, conn, toClient,
                   issued, handed, delivered, broker, hookCalls, panicked, pingCap>>

\* c.errors <- err, then return.
OutSendErr ==
    /\ ~panicked /\ pc["outgoing"] = "sendErr"
    /\ errs < ErrCap
    /\ errs' = errs + 1
    /\ pc' = [pc EXCEPT !["outgoing"] = "done"]
    /\ UNCHANGED <<ipkt, shared, lmsg, opt, obound, oboundP, pubChan, reposts, rPing, rPingResp,
                   timers, reg, net, user, broker, hookCalls, panicked, pingCap>>

\* c.resetPing <- struct{}{} when keepalive runs (a nil channel otherwise).
\* With pingCap = 0 the send is a rendezvous taken by KeepaliveResetPing.
OutResetPing ==
    /\ ~panicked /\ pc["outgoing"] = "resetPing"
    /\ \/ ~KeepAliveOn /\ UNCHANGED rPing
       \/ KeepAliveOn /\ rPing < pingCap /\ rPing' = rPing + 1
    /\ pc' = [pc EXCEPT !["outgoing"] = "select"]
    /\ UNCHANGED <<ipkt, shared, lmsg, opt, obound, oboundP, pubChan, errs, reposts, rPingResp,
                   timers, reg, net, user, broker, hookCalls, panicked, pingCap>>

-----------------------------------------------------------------------------
(* alllogic (net.go:226-382)                                               *)

\* The ibound rendezvous: incoming goes back to reading, alllogic moves on
\* to the statement the handler blocks at next.
Deliver(next) == pc' = [pc EXCEPT !["incoming"] = "read", !["logic"] = next]

\* The reply alllogic posts for an inbound publish (PUBACK or PUBREC) and
\* for PUBREC and PUBREL (PUBREL or PUBCOMP); it carries no token.
AckFor(p) == [p |-> Pkt(CASE p.type = "PUBLISH" /\ p.qos = 1 -> "PUBACK"
                          [] p.type = "PUBLISH"              -> "PUBREC"
                          [] p.type = "PUBREC"               -> "PUBREL"
                          [] OTHER                           -> "PUBCOMP",
                        p.id, p.tok, IF p.type = "PUBREC" THEN 1 ELSE 0),
              t |-> NoTok]

\* Each handler fixes lmsg, done, mids, freeing and panicked.
HandlePingresp(p) ==
    /\ Deliver(IF KeepAliveOn THEN "pingResp" ELSE "select")
    /\ UNCHANGED <<lmsg, done, mids, freeing, panicked>>

\* c.getToken(id).(*SubscribeToken) panics unless id holds a subscribe
\* token; the token completes and the id is freed by a new goroutine.
HandleSuback(p, kind) ==
    /\ Deliver("select")
    /\ IF mids[p.id] \in kind
          THEN /\ done' = done \cup {mids[p.id]}
               /\ freeing' = freeing \cup {p.id}
               /\ UNCHANGED panicked
          ELSE panicked' = TRUE /\ UNCHANGED <<done, freeing>>
    /\ UNCHANGED <<lmsg, mids>>

HandlePublish(p) ==
    /\ Deliver(IF p.qos = 0 THEN "pubChan0" ELSE "pubChan")
    /\ lmsg' = p
    /\ UNCHANGED <<done, mids, freeing, panicked>>

\* c.getToken(id).flowComplete(); c.freeID(id): a nil token panics.
HandlePuback(p) ==
    /\ Deliver("select")
    /\ IF mids[p.id] # NoTok
          THEN /\ done' = done \cup {mids[p.id]}
               /\ mids' = [mids EXCEPT ![p.id] = NoTok]
               /\ UNCHANGED panicked
          ELSE panicked' = TRUE /\ UNCHANGED <<done, mids>>
    /\ UNCHANGED <<lmsg, freeing>>

\* Mutant: the id is freed on PUBREC (and PUBREL) instead of PUBCOMP.
HandlePubrecFreeing(p) ==
    /\ Deliver("sendReply")
    /\ lmsg' = p
    /\ mids' = [mids EXCEPT ![p.id] = NoTok]
    /\ UNCHANGED <<done, freeing, panicked>>

\* PUBREC and PUBREL: build the reply, then the timed send.
HandlePubrec(p) ==
    /\ Deliver("sendReply")
    /\ lmsg' = p
    /\ UNCHANGED <<done, mids, freeing, panicked>>

\* case msg := <-c.ibound, the switch on the packet's type.
LogicReceive ==
    /\ ~panicked /\ pc["logic"] = "select" /\ pc["incoming"] = "sendIbound"
    /\ CASE ipkt.type = "PINGRESP"                -> HandlePingresp(ipkt)
         [] ipkt.type = "SUBACK"                  -> HandleSuback(ipkt, SubToks)
         [] ipkt.type = "UNSUBACK"                -> HandleSuback(ipkt, UnsubToks)
         [] ipkt.type = "PUBLISH"                 -> HandlePublish(ipkt)
         [] ipkt.type \in {"PUBACK", "PUBCOMP"}   -> HandlePuback(ipkt)
         [] ipkt.type \in {"PUBREC", "PUBREL"}    -> HandlePubrec(ipkt)
    /\ UNCHANGED <<ipkt, shared, opt, chans, timers, lastId, net, issued, handed, delivered,
                   broker, hookCalls, pingCap>>

LogicStop ==
    /\ ~panicked /\ pc["logic"] = "select" /\ stopped
    /\ pc' = [pc EXCEPT !["logic"] = "done"]
    /\ UNCHANGED <<ipkt, shared, lmsg, opt, chans, timers, reg, net, user, broker, hookCalls, panicked, pingCap>>

\* case err := <-c.errors: c.internalConnLost(err); return.
LogicError ==
    /\ ~panicked /\ pc["logic"] = "select" /\ errs > 0
    /\ errs' = errs - 1
    /\ ConnLost
    /\ pc' = [pc EXCEPT !["logic"] = "done"]
    /\ UNCHANGED <<ipkt, shared, lmsg, opt, obound, oboundP, pubChan, reposts, rPing, rPingResp,
                   timers, reg, werr, toBroker, toClient, user, broker, panicked, pingCap>>

\* QoS 1 and 2: c.incomingPubChan <- pp, blocking, no stop case.
LogicPubChan ==
    /\ ~panicked /\ pc["logic"] = "pubChan"
    /\ Len(pubChan) < PubChanCap
    /\ pubChan' = Append(pubChan, lmsg.tok)
    /\ handed' = handed \cup {lmsg.tok}
    /\ pc' = [pc EXCEPT !["logic"] = "sendAck"]
    /\ UNCHANGED <<ipkt, shared, lmsg, opt, obound, oboundP, errs, reposts, rPing, rPingResp,
                   timers, reg, net, issued, done, delivered, broker, hookCalls, panicked, pingCap>>

\* The fields of the PublishPacket object alllogic holds, read after the
\* hand-off: incoming's Unpack overwrites them when the pool shared it.
PubHeld == IF shared /\ pc["incoming"] = "sendIbound" THEN ipkt ELSE lmsg

\* pa.MessageID = pp.MessageID (or pr's), then c.oboundP <- the PUBACK or
\* PUBREC, blocking, no stop case; its kind follows the QoS switched on.
LogicSendAck ==
    /\ ~panicked /\ pc["logic"] = "sendAck"
    /\ Len(oboundP) < ObCap
    /\ oboundP' = Append(oboundP, [AckFor(lmsg) EXCEPT !.p.id = PubHeld.id,
                                                       !.p.tok = PubHeld.tok])
    /\ pc' = [pc EXCEPT !["logic"] = "select"]
    /\ UNCHANGED <<ipkt, shared, lmsg, opt, obound, pubChan, errs, reposts, rPing, rPingResp,
                   timers, reg, net, user, broker, hookCalls, panicked, pingCap>>

\* Mutant: an error taken in the QoS 0 select is dropped, not re-posted.
LogicPubChanZeroDropErr ==
    /\ ~panicked /\ pc["logic"] = "pubChan0"
    /\ \/ /\ Len(pubChan) < PubChanCap
          /\ pubChan' = Append(pubChan, lmsg.tok)
          /\ handed' = handed \cup {lmsg.tok}
          /\ UNCHANGED <<errs, reposts>>
       \/ /\ errs > 0
          /\ errs' = errs - 1
          /\ UNCHANGED <<pubChan, handed, reposts>>
    /\ pc' = [pc EXCEPT !["logic"] = "select"]
    /\ UNCHANGED <<ipkt, shared, lmsg, opt, obound, oboundP, rPing, rPingResp,
                   timers, reg, net, issued, done, delivered, broker, hookCalls, panicked, pingCap>>

\* QoS 0: select between the send and an error; an error taken here is
\* re-posted by a new goroutine and the message is dropped.
LogicPubChanZero ==
    /\ ~panicked /\ pc["logic"] = "pubChan0"
    /\ \/ /\ Len(pubChan) < PubChanCap
          /\ pubChan' = Append(pubChan, lmsg.tok)
          /\ handed' = handed \cup {lmsg.tok}
          /\ UNCHANGED <<errs, reposts>>
       \/ /\ errs > 0
          /\ errs' = errs - 1
          /\ reposts' = reposts + 1
          /\ UNCHANGED <<pubChan, handed>>
    /\ pc' = [pc EXCEPT !["logic"] = "select"]
    /\ UNCHANGED <<ipkt, shared, lmsg, opt, obound, oboundP, rPing, rPingResp,
                   timers, reg, net, issued, done, delivered, broker, hookCalls, panicked, pingCap>>

\* The re-posting goroutine: errChan <- errVal.
Repost ==
    /\ ~panicked /\ reposts > 0
    /\ errs < ErrCap
    /\ errs' = errs + 1
    /\ reposts' = reposts - 1
    /\ UNCHANGED <<local, obound, oboundP, pubChan, rPing, rPingResp,
                   timers, reg, net, user, broker, hookCalls, panicked, pingCap>>

\* PUBREL for a PUBREC, PUBCOMP for a PUBREL: the send races a 1-second
\* timer, which can only win while oboundP is full; then the reply is dropped.
LogicSendReply ==
    /\ ~panicked /\ pc["logic"] = "sendReply"
    /\ \/ Len(oboundP) < ObCap /\ oboundP' = Append(oboundP, AckFor(lmsg))
       \/ Len(oboundP) = ObCap /\ UNCHANGED oboundP
    /\ pc' = [pc EXCEPT !["logic"] = "select"]
    /\ UNCHANGED <<ipkt, shared, lmsg, opt, obound, pubChan, errs, reposts, rPing, rPingResp,
                   timers, reg, net, user, broker, hookCalls, panicked, pingCap>>

\* c.resetPingResp <- struct{}{}, blocking, no stop case.
LogicPingResp ==
    /\ ~panicked /\ pc["logic"] = "pingResp"
    /\ rPingResp < pingCap
    /\ rPingResp' = rPingResp + 1
    /\ pc' = [pc EXCEPT !["logic"] = "select"]
    /\ UNCHANGED <<ipkt, shared, lmsg, opt, obound, oboundP, pubChan, errs, reposts, rPing,
                   timers, reg, net, user, broker, hookCalls, panicked, pingCap>>

-----------------------------------------------------------------------------
(* keepalive (ping.go:25-61).  A Go timer (before Go 1.23): Stop and Reset *)
(* change whether it runs but leave a tick already in its channel.         *)

\* PINGREQs and PINGRESPs on the wire.
PingsOnWire ==
    Cardinality({i \in DOMAIN toBroker : toBroker[i].type = "PINGREQ"})
    + Cardinality({i \in DOMAIN toClient : toClient[i].type = "PINGRESP"})

\* A running timer expires: its tick goes into the channel (a second tick
\* is dropped when the channel is full).  The round trip of a ping is
\* assumed shorter than PingTimeout: pingTimer does not expire while
\* MaxPingsOnWire pings are on the wire.
TimerFires ==
    /\ ~panicked
    /\ \/ /\ pingTimer.run /\ PingsOnWire < MaxPingsOnWire
          /\ pingTimer' = [run |-> FALSE, fired |-> TRUE]
          /\ UNCHANGED pingRespTimer
       \/ pingRespTimer.run /\ pingRespTimer' = [run |-> FALSE, fired |-> TRUE]
                            /\ UNCHANGED pingTimer
    /\ UNCHANGED <<local, chans, reg, net, user, broker, hookCalls, panicked, pingCap>>

KeepaliveStop ==
    /\ ~panicked /\ pc["keepalive"] = "select" /\ stopped
    /\ pingTimer' = [pingTimer EXCEPT !.run = FALSE]
    /\ pingRespTimer' = [pingRespTimer EXCEPT !.run = FALSE]
    /\ pc' = [pc EXCEPT !["keepalive"] = "done"]
    /\ UNCHANGED <<ipkt, shared, lmsg, opt, chans, reg, net, user, broker, hookCalls, panicked, pingCap>>

\* case <-c.resetPingResp: from the buffer, or from alllogic blocked on an
\* unbuffered channel.
KeepaliveResetPingResp ==
    /\ ~panicked /\ pc["keepalive"] = "select"
    /\ \/ rPingResp > 0 /\ rPingResp' = rPingResp - 1 /\ UNCHANGED pc
       \/ /\ pingCap = 0 /\ pc["logic"] = "pingResp"
          /\ pc' = [pc EXCEPT !["logic"] = "select"]
          /\ UNCHANGED rPingResp
    /\ pingRespTimer' = [pingRespTimer EXCEPT !.run = FALSE]
    /\ pingTimer' = [pingTimer EXCEPT !.run = TRUE]
    /\ UNCHANGED <<ipkt, shared, lmsg, opt, obound, oboundP, pubChan, errs, reposts, rPing,
                   reg, net, user, broker, hookCalls, panicked, pingCap>>

\* case <-c.resetPing: pingTimer.Reset(PingTimeout).
KeepaliveResetPing ==
    /\ ~panicked /\ pc["keepalive"] = "select"
    /\ \/ rPing > 0 /\ rPing' = rPing - 1 /\ UNCHANGED pc
       \/ /\ pingCap = 0 /\ pc["outgoing"] = "resetPing"
          /\ pc' = [pc EXCEPT !["outgoing"] = "select"]
          /\ UNCHANGED rPing
    /\ pingTimer' = [pingTimer EXCEPT !.run = TRUE]
    /\ UNCHANGED <<ipkt, shared, lmsg, opt, obound, oboundP, pubChan, errs, reposts, rPingResp,
                   pingRespTimer, reg, net, user, broker, hookCalls, panicked, pingCap>>

\* case <-pingTimer.C: PINGREQ written straight to the connection through a
\* fresh bufio.Writer, errors ignored; pingRespTimer.Reset(PingTimeout).
KeepalivePing ==
    /\ ~panicked /\ pc["keepalive"] = "select" /\ pingTimer.fired
    /\ pingTimer' = [pingTimer EXCEPT !.fired = FALSE]
    /\ toBroker' = IF conn = "open" THEN Append(toBroker, Pkt("PINGREQ", 0, NoTok, 0))
                                    ELSE toBroker
    /\ pingRespTimer' = [pingRespTimer EXCEPT !.run = TRUE]
    /\ UNCHANGED <<local, chans, reg, stopped, conn, werr, toClient, user, broker,
                   hookCalls, panicked, pingCap>>

\* case <-pingRespTimer.C: pingTimer.Stop(); c.internalConnLost(...); return.
KeepalivePingRespTimeout ==
    /\ ~panicked /\ pc["keepalive"] = "select" /\ pingRespTimer.fired
    /\ pingRespTimer' = [pingRespTimer EXCEPT !.fired = FALSE]
    /\ pingTimer' = [pingTimer EXCEPT !.run = FALSE]
    /\ ConnLost
    /\ pc' = [pc EXCEPT !["keepalive"] = "done"]
    /\ UNCHANGED <<ipkt, shared, lmsg, opt, chans, reg, werr, toBroker, toClient, user, broker,
                   panicked, pingCap>>

-----------------------------------------------------------------------------
(* The router goroutine (router.go matchAndDispatch; modelled in Router):  *)
(* it takes each message off incomingPubChan and dispatches it.            *)

RouterDispatch ==
    /\ ~panicked /\ pubChan # <<>>
    /\ delivered' = delivered \cup {Head(pubChan)}
    /\ pubChan' = Tail(pubChan)
    /\ UNCHANGED <<local, obound, oboundP, errs, reposts, rPing, rPingResp,
                   timers, reg, net, issued, done, handed, broker, hookCalls, panicked, pingCap>>

-----------------------------------------------------------------------------
(* The user (client.go, not in the sources): each call puts its packet and *)
(* token on obound or oboundP, blocking while the channel is full.         *)

UserCall ==
    /\ ~panicked /\ ~stopped
    /\ \/ \E t \in PubToks \ issued :
             /\ Len(obound) < ObCap
             /\ obound' = Append(obound, t)
             /\ issued' = issued \cup {t}
             /\ UNCHANGED oboundP
       \/ \E t \in (SubToks \cup UnsubToks \cup DiscToks) \ issued :
             /\ Len(oboundP) < ObCap
             /\ oboundP' = Append(oboundP,
                  [p |-> Pkt(CASE t \in SubToks   -> "SUBSCRIBE"
                              [] t \in UnsubToks -> "UNSUBSCRIBE"
                              [] OTHER           -> "DISCONNECT",
                             0, t, IF t \in DiscToks THEN 0 ELSE 1),
                   t |-> t])
             /\ issued' = issued \cup {t}
             /\ UNCHANGED obound
    /\ UNCHANGED <<local, pubChan, errs, reposts, rPing, rPingResp, timers, reg, net,
                   done, handed, delivered, broker, hookCalls, panicked, pingCap>>

\* Disconnect waits for its token (or the quiesce timeout), then
\* disconnect() closes stop and the connection.
UserDisconnectCleanup ==
    /\ ~panicked /\ ~stopped
    /\ issued \cap DiscToks # {}
    /\ stopped' = TRUE
    /\ conn' = "closed"
    /\ UNCHANGED <<local, chans, timers, reg, werr, toBroker, toClient, user, broker,
                   hookCalls, panicked, pingCap>>

-----------------------------------------------------------------------------
(* The broker: an MQTT 3.1.1 server that answers every packet in order.    *)

\* What the broker sends back for a packet it reads.
Reply(p) ==
    CASE p.type = "PUBLISH" /\ p.qos = 1 -> <<Pkt("PUBACK", p.id, p.tok, 0)>>
      [] p.type = "PUBLISH" /\ p.qos = 2 -> <<Pkt("PUBREC", p.id, p.tok, 0)>>
      [] p.type = "PUBREL"               -> <<Pkt("PUBCOMP", p.id, p.tok, 0)>>
      [] p.type = "SUBSCRIBE"            -> <<Pkt("SUBACK", p.id, p.tok, 0)>>
      [] p.type = "UNSUBSCRIBE"          -> <<Pkt("UNSUBACK", p.id, p.tok, 0)>>
      [] p.type = "PINGREQ"              -> <<Pkt("PINGRESP", 0, NoTok, 0)>>
      [] p.type = "PUBREC"               -> <<Pkt("PUBREL", p.id, p.tok, 1)>>
      [] OTHER                           -> <<>>

\* The packets that end a client operation's flow at the broker.
Terminal(p) ==
    \/ p.type = "PUBLISH" /\ p.qos = 1
    \/ p.type \in {"PUBREL", "SUBSCRIBE", "UNSUBSCRIBE"}

BrokerReceive ==
    /\ ~panicked /\ conn = "open" /\ toBroker # <<>>
    /\ LET p == Head(toBroker) IN
       /\ toClient' = toClient \o Reply(p)
       /\ bDone' = IF Terminal(p) THEN bDone \cup {p.tok} ELSE bDone
       /\ bAcked' = IF p.type \in {"PUBACK", "PUBREC"} THEN bAcked \cup {p.tok} ELSE bAcked
       /\ conn' = IF p.type = "DISCONNECT" THEN "broken" ELSE conn
    /\ toBroker' = Tail(toBroker)
    /\ UNCHANGED <<local, chans, timers, reg, stopped, werr, user, bSent, hookCalls, panicked, pingCap>>

BrokerPublish ==
    /\ ~panicked /\ conn = "open"
    /\ \E m \in InMsgs \ bSent :
          /\ toClient' = Append(toClient, Pkt("PUBLISH", InId[m], m, InQos[m]))
          /\ bSent' = bSent \cup {m}
    /\ UNCHANGED <<local, chans, timers, reg, stopped, conn, werr, toBroker, user,
                   bDone, bAcked, hookCalls, panicked, pingCap>>

\* The network or the peer breaks the connection.
ConnBreak ==
    /\ ~panicked /\ ConnCanFail /\ conn = "open"
    /\ conn' = "broken"
    /\ UNCHANGED <<local, chans, timers, reg, stopped, werr, toBroker, toClient, user,
                   broker, hookCalls, panicked, pingCap>>

-----------------------------------------------------------------------------

Init ==
    /\ pc = [a \in Acts |-> IF a = "keepalive" /\ ~KeepAliveOn THEN "done"
                            ELSE IF a = "incoming" THEN "read" ELSE "select"]
    /\ ipkt = NoPkt /\ shared = FALSE /\ lmsg = NoPkt /\ opt = [p |-> NoPkt, t |-> NoTok]
    /\ stopped = FALSE /\ conn = "open" /\ werr = FALSE
    /\ obound = <<>> /\ oboundP = <<>> /\ pubChan = <<>>
    /\ errs = 0 /\ reposts = 0 /\ rPing = 0 /\ rPingResp = 0
    /\ pingTimer = [run |-> KeepAliveOn, fired |-> FALSE]
    /\ pingRespTimer = [run |-> FALSE, fired |-> FALSE]
    /\ mids = [i \in Ids |-> NoTok] /\ lastId = 0 /\ freeing = {}
    /\ toBroker = <<>> /\ toClient = <<>>
    /\ issued = {} /\ done = {} /\ handed = {} /\ delivered = {}
    /\ bDone = {} /\ bSent = {} /\ bAcked = {}
    /\ hookCalls = 0 /\ panicked = FALSE
    /\ pingCap \in PingCaps

Incoming  == IncomingRead \/ IncomingReadError \/ IncomingSendErr
Outgoing  == OutStop \/ OutTakePublish \/ OutTakePriority \/ OutGetID
             \/ OutWritePublish \/ OutWritePriority \/ OutSendErr \/ OutResetPing
Logic     == LogicReceive \/ LogicStop \/ LogicError \/ LogicPubChan \/ LogicSendAck
             \/ LogicPubChanZero \/ LogicSendReply \/ LogicPingResp
Keepalive == KeepaliveStop \/ KeepaliveResetPingResp \/ KeepaliveResetPing
             \/ KeepalivePing \/ KeepalivePingRespTimeout
Env       == UserCall \/ UserDisconnectCleanup \/ BrokerReceive \/ BrokerPublish
             \/ ConnBreak \/ TimerFires

Next == Incoming \/ Outgoing \/ Logic \/ Keepalive \/ Repost \/ FreeIdRoutine
        \/ RouterDispatch \/ Env

\* Go's scheduler runs every runnable goroutine (weak fairness), and a
\* goroutine blocked in a select whose channels become ready again and
\* again is eventually woken (strong fairness for the three select loops);
\* a running timer eventually expires and the broker answers.
Fairness ==
    /\ WF_vars(Incoming) /\ WF_vars(Repost) /\ WF_vars(FreeIdRoutine)
    /\ WF_vars(RouterDispatch) /\ WF_vars(BrokerReceive) /\ WF_vars(TimerFires)
    /\ SF_vars(Outgoing) /\ SF_vars(Logic) /\ SF_vars(Keepalive)

Spec == Init /\ [][Next]_vars /\ Fairness

-----------------------------------------------------------------------------

TypeOK ==
    /\ pc \in [Acts -> {"read", "sendIbound", "sendErr", "select", "getID", "writePub",
                        "writePri", "resetPing", "pubChan", "sendAck", "pubChan0",
                        "sendReply", "pingResp", "done"}]
    /\ ipkt \in Packets /\ shared \in BOOLEAN /\ lmsg \in Packets /\ opt.p \in Packets
    /\ opt.t \in Tokens \cup {NoTok}
    /\ stopped \in BOOLEAN /\ conn \in {"open", "broken", "closed"} /\ werr \in BOOLEAN
    /\ obound \in Seq(PubToks) /\ Len(obound) <= ObCap
    /\ Len(oboundP) <= ObCap /\ \A i \in DOMAIN oboundP : oboundP[i].p \in Packets
    /\ pubChan \in Seq(InMsgs) /\ Len(pubChan) <= PubChanCap
    /\ errs \in 0..ErrCap /\ reposts \in Nat
    /\ rPing \in 0..pingCap /\ rPingResp \in 0..pingCap
    /\ pingTimer \in Timer /\ pingRespTimer \in Timer
    /\ mids \in [Ids -> Tokens \cup {NoTok}] /\ lastId \in 0..MaxId /\ freeing \subseteq Ids
    /\ toBroker \in Seq(Packets) /\ toClient \in Seq(Packets)
    /\ issued \subseteq Tokens /\ done \subseteq issued
    /\ delivered \subseteq handed /\ handed \subseteq InMsgs
    /\ bDone \subseteq Tokens /\ bSent \subseteq InMsgs /\ bAcked \subseteq bSent
    /\ hookCalls \in Nat /\ panicked \in BOOLEAN /\ pingCap \in PingCaps

\* Every acknowledgement alllogic receives finds a token of its kind in the
\* registry (net.go:255, 270, 337, 369 call a method on getToken(id), which
\* panics on a missing id or a token of another kind).  Breaking it takes an
\* id freed or reused while the broker still owes an ack for it.
NoPanic == ~panicked

\* A QoS 1 or 2 publish, subscribe or unsubscribe token completes only after
\* the broker has taken the step that ends that operation's flow (PUBACK,
\* PUBCOMP, SUBACK, UNSUBACK sent): the id of an ack always leads alllogic
\* to the token of the operation the broker acknowledged (net.go:250-371,
\* the id registry and the QoS 0 completion at net.go:177-179).
CompletedOnlyWhenAcked ==
    \A t \in done : \/ t \in bDone
                    \/ t \in DiscToks
                    \/ t \in PubToks /\ PubQos[t] = 0

\* While the connection stays open, every QoS 1 publish, subscribe and
\* unsubscribe the user starts eventually completes: no goroutine of the
\* engine blocks for good on another (net.go:135-382).  outgoing blocks in
\* c.getID (net.go:151, 188, 190) while every id is held, and only
\* alllogic frees ids; alllogic blocks on its oboundP sends (net.go:291,
\* 305), which only outgoing drains.
AckedOpsComplete ==
    \A t \in SubToks \cup UnsubToks \cup {q \in PubToks : PubQos[q] = 1} :
        t \in issued ~> (t \in done \/ conn # "open")

\* internalConnLost runs at most once per connection (spec section 7: the
\* logic activity invokes the connection-lost hook exactly once).  Both
\* alllogic on an error (net.go:376-379) and keepalive on a missing
\* PINGRESP (ping.go:53-58) call it, and nothing stops the other after one.
HookAtMostOnce == hookCalls <= 1

\* Once stop is closed, all four goroutines eventually return (spec
\* section 5: every blocking select includes stop).  incoming's send on
\* ibound (net.go:116-117), alllogic's sends on incomingPubChan, oboundP and
\* resetPingResp, and outgoing's send on resetPing have no stop case.
AllActivitiesExit ==
    stopped ~> \A a \in Acts : pc[a] = "done"

\* A connection that breaks is eventually noticed: stop is closed, by
\* internalConnLost after an error reaches alllogic, even when alllogic
\* takes the error in the QoS 0 select and re-posts it (net.go:309-326).
ConnLossDetected == conn = "broken" ~> stopped

=============================================================================
