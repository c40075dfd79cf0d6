------------------------------- MODULE Dispatch -------------------------------
(***************************************************************************)
(* The path of an inbound PUBLISH from the wire to the user's callbacks,   *)
(* and the pools its memory comes from:                                    *)
(*  - incoming (net.go:96-117) reads it with ReadPacket, which takes a     *)
(*    PublishPacket from packetPools and the packet's bytes from           *)
(*    byteSlicePools (packets.go:120-139, 188; part_000 getByteSlice);     *)
(*    Unpack makes TopicName and Payload slices of those bytes;            *)
(*  - alllogic (net.go:274-305) hands the packet to the router on          *)
(*    incomingPubChan, then builds the PUBACK or PUBREC from it;           *)
(*  - the router (part_001) keeps the route list under an RWMutex, matches *)
(*    the topic, calls the callbacks in order or in new goroutines, falls  *)
(*    back to the default handler, then Releases the packet, which returns *)
(*    the bytes and the packet to their pools (packets.go:331-339,         *)
(*    part_000 Release);                                                   *)
(*  - the user calls addRoute, deleteRoute and setDefaultHandler at any    *)
(*    time.                                                                *)
(* A sync.Pool's Get returns any pooled object or a new one.  Messages are *)
(* model values; a buffer holds the bytes of one message, so reading a     *)
(* buffer yields the message whose bytes were last written into it.  All   *)
(* messages have the same length, so their buffers come from one pool.     *)
(***************************************************************************)
EXTENDS Topic, FiniteSets

CONSTANTS Wire,        \* the PUBLISHes the broker sends, in order
          InQos, InId, InTopic,  \* their QoS, message id and topic
          RouteFilters,  \* the filters the user subscribes to
          Callbacks,   \* the callbacks the user registers
          Handlers,    \* the handlers the user may make the default
          NoHandler,   \* a nil MessageHandler
          Orders,      \* the values ClientOptions.Order may have
          PObjs,       \* the PublishPacket objects ever allocated
          Bufs,        \* the byte slices ever allocated
          Elems,       \* the list.Elements ever allocated
          PubChanCap,  \* capacity of incomingPubChan
          MaxUserOps   \* bound on the user's router calls

None == "none"
Msgs == {Wire[i] : i \in DOMAIN Wire}

ASSUME /\ Orders \subseteq BOOLEAN /\ PubChanCap \in Nat \ {0} /\ MaxUserOps \in Nat
       /\ NoHandler \notin Callbacks \cup Handlers /\ None \notin PObjs \cup Bufs \cup Elems

VARIABLES
    order,     \* ClientOptions.Order, fixed when the router is started
    wire,      \* the PUBLISHes not yet read
    inPc, inPkt, inMsg,     \* incoming: "read" or "send", its packet
    logPc, logPkt, logMsg,  \* alllogic: "recv", "hand" or "ack", its packet
    pubChan,   \* incomingPubChan
    acks,      \* the PUBACK/PUBREC alllogic posted: [msg, id]
    pkt,       \* per packet object: its MessageID and its byte slice
    bytes,     \* per byte slice: the message whose bytes it holds
    freeP, freeB,   \* the objects in packetPools[Publish-1] and byteSlicePools
    newP, newB,     \* the objects not allocated yet
    routes,    \* r.routes: the list's elements in order
    rt,        \* per element: its route's filter and callback
    newE,      \* the elements not allocated yet
    dh,        \* r.defaultHandler
    request,   \* the user's latest router call, as a tuple (history)
    rPc, rPkt, rMsg, e, sent,  \* the dispatch goroutine
    running,   \* concurrent callbacks started but not run: [cb, msg, buf]
    ran,       \* callbacks that ran: [cb, msg, saw]
    invoked,   \* callbacks called or started: [m, cb]
    dispatched,  \* messages the router has taken
    userOps,   \* router calls made by the user
    panicked   \* a nil function value was called: the process is dead

inVars == <<wire, inPc, inPkt, inMsg>>
logVars == <<logPc, logPkt, logMsg, acks>>
poolVars == <<pkt, bytes, freeP, freeB, newP, newB>>
tableVars == <<routes, rt, newE, dh, userOps, request>>
rVars == <<rPc, rPkt, rMsg, e, sent, running, ran, invoked, dispatched, panicked>>
vars == <<order, inVars, logVars, pubChan, poolVars, tableVars, rVars>>

First(s) == IF s = <<>> THEN None ELSE s[1]

Init ==
    /\ order \in Orders
    /\ wire = Wire /\ inPc = "read" /\ inPkt = None /\ inMsg = None
    /\ logPc = "recv" /\ logPkt = None /\ logMsg = None /\ acks = {}
    /\ pubChan = <<>>
    /\ pkt = [p \in PObjs |-> [id |-> 0, buf |-> None]]
    /\ bytes = [b \in Bufs |-> None]
    /\ freeP = {} /\ freeB = {} /\ newP = PObjs /\ newB = Bufs
    /\ routes = <<>> /\ rt = [x \in Elems |-> [filter |-> <<>>, cb |-> NoHandler]]
    /\ newE = Elems /\ dh = NoHandler /\ userOps = 0 /\ request = <<>>
    /\ rPc = "idle" /\ rPkt = None /\ rMsg = None /\ e = None /\ sent = FALSE
    /\ running = {} /\ ran = {} /\ invoked = {} /\ dispatched = {}
    /\ panicked = FALSE

-----------------------------------------------------------------------------
(* incoming                                                                *)

\* getByteSlice (part_000:34-51): a holder from byteSlicePools[size], or a
\* new one; every message's size is below MAX_SLICE_SIZE and the packet's
\* ByteSlicePool holds one slice, so the slice is always a pooled one.
getByteSlice == freeB \cup newB

\* packetPools[Publish-1].Get() in NewControlPacketWithHeader
\* (packets.go:188-193): a pooled PublishPacket, or a new one.
GetPublishPacket == freeP \cup newP

\* PublishPacket.Unpack (publish.go:44-53) of message m into packet p with
\* slice b: TopicName and Payload are slices of b; MessageID is set only
\* for QoS > 0, so a pooled packet keeps its old id otherwise.
Unpack(p, b, m) == [id |-> IF InQos[m] > 0 THEN InId[m] ELSE pkt[p].id, buf |-> b]

\* packets.ReadPacket (packets.go:120-139) then the stop check: the
\* message's bytes are read into the slice, then unpacked.
IncomingRead ==
    /\ ~panicked /\ inPc = "read" /\ wire # <<>>
    /\ LET m == Head(wire) IN
       \E p \in GetPublishPacket, b \in getByteSlice :
          /\ pkt' = [pkt EXCEPT ![p] = Unpack(p, b, m)]
          /\ bytes' = [bytes EXCEPT ![b] = m]
          /\ freeP' = freeP \ {p} /\ newP' = newP \ {p}
          /\ freeB' = freeB \ {b} /\ newB' = newB \ {b}
          /\ inPkt' = p /\ inMsg' = m
    /\ wire' = Tail(wire) /\ inPc' = "send"
    /\ UNCHANGED <<order, logVars, pubChan, tableVars, rVars>>

\* c.ibound <- cp, taken by alllogic's select.
IncomingSend ==
    /\ ~panicked /\ inPc = "send" /\ logPc = "recv"
    /\ logPkt' = inPkt /\ logMsg' = inMsg /\ logPc' = "hand"
    /\ inPc' = "read" /\ inPkt' = None /\ inMsg' = None
    /\ UNCHANGED <<order, wire, acks, pubChan, poolVars, tableVars, rVars>>

-----------------------------------------------------------------------------
(* alllogic, case *packets.PublishPacket                                   *)

\* Mutant: the send does not wait when incomingPubChan is full.
LogicHandOffUnbounded ==
    /\ ~panicked /\ logPc = "hand"
    /\ pubChan' = Append(pubChan, logPkt)
    /\ logPc' = IF InQos[logMsg] = 0 THEN "recv" ELSE "ack"
    /\ UNCHANGED <<order, inVars, logPkt, logMsg, acks, poolVars, tableVars, rVars>>

\* c.incomingPubChan <- pp; QoS 0 is done after it.
LogicHandOff ==
    /\ ~panicked /\ logPc = "hand" /\ Len(pubChan) < PubChanCap
    /\ pubChan' = Append(pubChan, logPkt)
    /\ logPc' = IF InQos[logMsg] = 0 THEN "recv" ELSE "ack"
    /\ UNCHANGED <<order, inVars, logPkt, logMsg, acks, poolVars, tableVars, rVars>>

\* pa.MessageID = pp.MessageID; c.oboundP <- pa: the id is read from the
\* packet after it was handed to the router.
LogicAck ==
    /\ ~panicked /\ logPc = "ack"
    /\ acks' = acks \cup {[msg |-> logMsg, id |-> pkt[logPkt].id]}
    /\ logPc' = "recv" /\ logPkt' = None /\ logMsg' = None
    /\ UNCHANGED <<order, inVars, pubChan, poolVars, tableVars, rVars>>

-----------------------------------------------------------------------------
(* The route list (container/list) and the user's calls                   *)

\* e.Next(): nil at the end, and nil once e was removed (list.Remove sets
\* e.next and e.list to nil).
NextElem(x) ==
    LET i == SelectInSeq(routes, LAMBDA y : y = x)
    IN  IF i = 0 \/ i = Len(routes) THEN None ELSE routes[i + 1]

\* The index of the first route whose route.match(topic) holds, or 0.
FirstMatch(f) == SelectInSeq(routes, LAMBDA x : match(rt[x].filter, f))

\* r.Lock() waits while matchAndDispatch holds the read lock; the writers
\* hold the lock for their whole body, so each is one step.
ReadLocked == rPc = "scan"

addRoute(f, cb) ==
    /\ ~panicked /\ userOps < MaxUserOps /\ ~ReadLocked
    /\ IF FirstMatch(f) # 0
          THEN rt' = [rt EXCEPT ![routes[FirstMatch(f)]].cb = cb] /\ UNCHANGED <<routes, newE>>
          ELSE \E x \in newE : /\ routes' = Append(routes, x)
                               /\ rt' = [rt EXCEPT ![x] = [filter |-> f, cb |-> cb]]
                               /\ newE' = newE \ {x}
    /\ userOps' = userOps + 1 /\ request' = <<"add", f, cb>>
    /\ UNCHANGED <<order, inVars, logVars, pubChan, poolVars, dh, rVars>>

deleteRoute(f) ==
    /\ ~panicked /\ userOps < MaxUserOps /\ ~ReadLocked
    /\ routes' = IF FirstMatch(f) = 0 THEN routes ELSE RemoveAt(routes, FirstMatch(f))
    /\ userOps' = userOps + 1 /\ request' = <<"delete", f>>
    /\ UNCHANGED <<order, inVars, logVars, pubChan, poolVars, rt, newE, dh, rVars>>

\* No lock is taken (part_001:118-120).
setDefaultHandler(h) ==
    /\ ~panicked /\ userOps < MaxUserOps
    /\ dh' = h /\ userOps' = userOps + 1 /\ request' = <<"default", h>>
    /\ UNCHANGED <<order, inVars, logVars, pubChan, poolVars, routes, rt, newE, rVars>>

-----------------------------------------------------------------------------
(* matchAndDispatch's goroutine                                            *)

\* message.TopicName, a slice of the packet's bytes.
TopicOfPkt(p) == InTopic[bytes[pkt[p].buf]]

\* case message := <-messages; sent := false; r.RLock(); e := Front().
RouterTake ==
    /\ ~panicked /\ rPc = "idle" /\ pubChan # <<>>
    /\ rPkt' = Head(pubChan) /\ pubChan' = Tail(pubChan)
    /\ rMsg' = bytes[pkt[Head(pubChan)].buf]
    /\ dispatched' = dispatched \cup {rMsg'}
    /\ sent' = FALSE /\ e' = First(routes) /\ rPc' = "scan"
    /\ UNCHANGED <<order, inVars, logVars, poolVars, tableVars, running, ran, invoked, panicked>>

\* One turn of the for loop over the routes, under the read lock.
RouterMatch ==
    /\ ~panicked /\ rPc = "scan" /\ e # None
    /\ LET r == rt[e] IN
       \/ /\ ~matchBytes(r.filter, TopicOfPkt(rPkt))
          /\ e' = NextElem(e)
          /\ UNCHANGED <<rPc, sent, running, invoked>>
       \* order: r.RUnlock() before the callback.
       \/ /\ matchBytes(r.filter, TopicOfPkt(rPkt)) /\ order
          /\ rPc' = "callback"
          /\ UNCHANGED <<e, sent, running, invoked>>
       \* go callback(client, messageFromPublish(message)): the function value
       \* and the message, whose payload is a slice of the packet's bytes,
       \* are taken now.
       \/ /\ matchBytes(r.filter, TopicOfPkt(rPkt)) /\ ~order
          /\ running' = running \cup {[cb |-> r.cb, msg |-> rMsg, buf |-> pkt[rPkt].buf]}
          /\ invoked' = invoked \cup {[m |-> rMsg, cb |-> r.cb]}
          /\ sent' = TRUE /\ e' = NextElem(e)
          /\ UNCHANGED rPc
    /\ UNCHANGED <<order, inVars, logVars, pubChan, poolVars, tableVars, rPkt, rMsg, ran, dispatched, panicked>>

\* The loop ends; r.RUnlock().
RouterScanDone ==
    /\ ~panicked /\ rPc = "scan" /\ e = None
    /\ rPc' = "checkDefault"
    /\ UNCHANGED <<order, inVars, logVars, pubChan, poolVars, tableVars, rPkt, rMsg, e, sent,
                   running, ran, invoked, dispatched, panicked>>

\* Ordered: e.Value.(*route).callback(...) runs with the lock released, so
\* the callback field is read now.
RouterCallback ==
    /\ ~panicked /\ rPc = "callback"
    /\ ran' = ran \cup {[cb |-> rt[e].cb, msg |-> rMsg, saw |-> bytes[pkt[rPkt].buf]]}
    /\ invoked' = invoked \cup {[m |-> rMsg, cb |-> rt[e].cb]}
    /\ rPc' = "relock"
    /\ UNCHANGED <<order, inVars, logVars, pubChan, poolVars, tableVars, rPkt, rMsg, e, sent,
                   running, dispatched, panicked>>

\* Mutant: the loop does not advance after an ordered callback.
RouterRelockStays ==
    /\ ~panicked /\ rPc = "relock"
    /\ sent' = TRUE /\ rPc' = "scan"
    /\ UNCHANGED <<order, inVars, logVars, pubChan, poolVars, tableVars, rPkt, rMsg, e,
                   running, ran, invoked, dispatched, panicked>>

\* r.RLock(); sent = true; e = e.Next().
RouterRelock ==
    /\ ~panicked /\ rPc = "relock"
    /\ sent' = TRUE /\ e' = NextElem(e) /\ rPc' = "scan"
    /\ UNCHANGED <<order, inVars, logVars, pubChan, poolVars, tableVars, rPkt, rMsg,
                   running, ran, invoked, dispatched, panicked>>

\* Mutant: the default handler is called whether or not a route matched.
RouterCheckDefaultIgnoresSent ==
    /\ ~panicked /\ rPc = "checkDefault"
    /\ rPc' = IF dh # NoHandler THEN "callDefault" ELSE "release"
    /\ UNCHANGED <<order, inVars, logVars, pubChan, poolVars, tableVars, rPkt, rMsg, e, sent,
                   running, ran, invoked, dispatched, panicked>>

\* if !sent && r.defaultHandler != nil, read without the lock.
RouterCheckDefault ==
    /\ ~panicked /\ rPc = "checkDefault"
    /\ rPc' = IF ~sent /\ dh # NoHandler THEN "callDefault" ELSE "release"
    /\ UNCHANGED <<order, inVars, logVars, pubChan, poolVars, tableVars, rPkt, rMsg, e, sent,
                   running, ran, invoked, dispatched, panicked>>

\* r.defaultHandler(...) or go r.defaultHandler(...): the field is read
\* again; a nil function value panics.
RouterCallDefault ==
    /\ ~panicked /\ rPc = "callDefault"
    /\ IF dh = NoHandler
          THEN panicked' = TRUE /\ UNCHANGED <<running, ran, invoked>>
          ELSE /\ invoked' = invoked \cup {[m |-> rMsg, cb |-> dh]}
               /\ IF order
                     THEN /\ ran' = ran \cup {[cb |-> dh, msg |-> rMsg, saw |-> bytes[pkt[rPkt].buf]]}
                          /\ UNCHANGED running
                     ELSE /\ running' = running \cup {[cb |-> dh, msg |-> rMsg, buf |-> pkt[rPkt].buf]}
                          /\ UNCHANGED ran
               /\ UNCHANGED panicked
    /\ rPc' = "release"
    /\ UNCHANGED <<order, inVars, logVars, pubChan, poolVars, tableVars, rPkt, rMsg, e, sent, dispatched>>

\* ByteSlicePool.Release (part_000:53-60): packet p's slice goes back to
\* byteSlicePools.
ReleaseSlices(p) == freeB \cup {pkt[p].buf}

\* FixedHeader.Release (packets.go:331-339): the slices, then the packet
\* into packetPools.
Release(p) == freeB' = ReleaseSlices(p) /\ freeP' = freeP \cup {p}

\* Mutant: Release does not end the router's hold on the packet.
RouterReleaseKeepsHold ==
    /\ ~panicked /\ rPc = "release"
    /\ Release(rPkt)
    /\ UNCHANGED <<order, inVars, logVars, pubChan, pkt, bytes, newP, newB, tableVars, rPc, rPkt, rMsg,
                   e, sent, running, ran, invoked, dispatched, panicked>>

\* message.Release() at the end of the loop body.
RouterRelease ==
    /\ ~panicked /\ rPc = "release"
    /\ Release(rPkt)
    /\ rPc' = "idle" /\ rPkt' = None /\ rMsg' = None
    /\ UNCHANGED <<order, inVars, logVars, pubChan, pkt, bytes, newP, newB, tableVars, e, sent,
                   running, ran, invoked, dispatched, panicked>>

\* A callback started with go runs and reads its message's payload.
CallbackRun(c) ==
    /\ ~panicked /\ running' = running \ {c}
    /\ ran' = ran \cup {[cb |-> c.cb, msg |-> c.msg, saw |-> bytes[c.buf]]}
    /\ UNCHANGED <<order, inVars, logVars, pubChan, poolVars, tableVars, rPc, rPkt, rMsg, e, sent,
                   invoked, dispatched, panicked>>

-----------------------------------------------------------------------------

Router == RouterTake \/ RouterMatch \/ RouterScanDone \/ RouterCallback \/ RouterRelock
          \/ RouterCheckDefault \/ RouterCallDefault \/ RouterRelease

User == \/ \E f \in RouteFilters, cb \in Callbacks : addRoute(f, cb)
        \/ \E f \in RouteFilters : deleteRoute(f)
        \/ \E h \in Handlers \cup {NoHandler} : setDefaultHandler(h)

Next == \/ IncomingRead \/ IncomingSend
        \/ LogicHandOff \/ LogicAck
        \/ Router
        \/ \E c \in running : CallbackRun(c)
        \/ User

\* Every goroutine is scheduled: incoming, alllogic, the dispatcher and the
\* callbacks' goroutines.  The user is not obliged to call anything.
Fairness == /\ WF_vars(IncomingRead \/ IncomingSend) /\ WF_vars(LogicHandOff \/ LogicAck)
            /\ WF_vars(Router) /\ \A c \in [cb : Callbacks \cup Handlers, msg : Msgs, buf : Bufs] :
                                       WF_vars(c \in running /\ CallbackRun(c))

Spec == Init /\ [][Next]_vars /\ Fairness

-----------------------------------------------------------------------------
(* Properties                                                              *)

TypeOK ==
    /\ inPc \in {"read", "send"} /\ logPc \in {"recv", "hand", "ack"}
    /\ rPc \in {"idle", "scan", "callback", "relock", "checkDefault", "callDefault", "release"}
    /\ pubChan \in Seq(PObjs) /\ Len(pubChan) <= PubChanCap
    /\ Range(routes) \subseteq Elems /\ newE \subseteq Elems
    /\ freeP \cup newP \subseteq PObjs /\ freeB \cup newB \subseteq Bufs
    /\ order \in Orders /\ userOps \in 0..MaxUserOps /\ dh \in Handlers \cup {NoHandler}

\* How many owners packet object p has: incoming until the ibound send,
\* alllogic until the incomingPubChan send, each slot of the channel, the
\* router until Release, and the pool.
Owners(p) == (IF inPc = "send" /\ inPkt = p THEN 1 ELSE 0)
           + (IF logPc = "hand" /\ logPkt = p THEN 1 ELSE 0)
           + Cardinality({i \in DOMAIN pubChan : pubChan[i] = p})
           + (IF rPc # "idle" /\ rPkt = p THEN 1 ELSE 0)
           + (IF p \in freeP THEN 1 ELSE 0)

Held == {p \in PObjs : Owners(p) > 0} \ freeP

\* The pools hand out nothing that is in use (spec: a packet is owned by
\* one activity at a time and Release()d exactly once; packets.go:331-339,
\* part_000 getByteSlice and Release): no packet object has two owners,
\* and the byte slice of a held packet is neither pooled nor shared.
PoolExclusive ==
    /\ \A p \in PObjs : Owners(p) <= 1
    /\ \A p, q \in Held : p # q => pkt[p].buf # pkt[q].buf
    /\ \A p \in Held : pkt[p].buf \notin freeB

\* Every reader of a handed-off packet reads the data of its own message
\* (spec: passing a packet onto a queue transfers ownership; no shared
\* mutability of released buffers): the PUBACK/PUBREC alllogic builds from
\* pp after 'c.incomingPubChan <- pp' (net.go:282-288, 296-301) carries that
\* message's id, and every callback reads its own message's bytes.
ReadsOwnData ==
    /\ \A a \in acks : a.id = InId[a.msg]
    /\ \A r \in ran : r.saw = r.msg

\* Every PUBLISH on the wire is eventually taken by the router, acked by
\* alllogic, its callbacks run and its packet Released, unless a nil
\* default handler crashed the process (spec 4.6: the router drains
\* incomingPubChan; net.go:274-305, part_001:126-161).
EveryPublishHandled ==
    <>(\/ panicked
       \/ /\ dispatched = Msgs /\ rPc = "idle" /\ running = {}
          /\ logPc = "recv" /\ inPc = "read")

-----------------------------------------------------------------------------
(* Refinement of RouterSpec.  The subscriptions are the route list; a      *)
(* message is dispatched, in the abstract, when the router takes it; the   *)
(* callbacks the loop has yet to reach from its cursor count as invoked.   *)

\* The element the loop looks at next.
Cursor == CASE rPc \in {"scan", "callback"} -> e
            [] rPc = "relock"               -> NextElem(e)
            [] OTHER                        -> None

\* The elements from x to the end of the list.
RestFrom(x) == LET i == SelectInSeq(routes, LAMBDA y : y = x)
               IN  IF i = 0 THEN {} ELSE {routes[j] : j \in i..Len(routes)}

\* The matching routes the loop has yet to call; in "callback" the route
\* matched and its callback is about to be read, even if it was deleted.
Pending == {x \in RestFrom(Cursor) : matchBytes(rt[x].filter, TopicOfPkt(rPkt))}
           \cup (IF rPc = "callback" THEN {e} ELSE {})

\* A pending route's filter, or Detached once deleteRoute removed it.
PendingFilter(x) == IF x \in Range(routes) THEN rt[x].filter ELSE <<>>  \* RouterSpec Detached

\* Whether a callback was called: in "relock" it has returned but sent is
\* set only after r.RLock().
Called == sent \/ rPc = "relock"

Awaiting == IF \/ rPc \in {"scan", "callback", "relock"} /\ ~Called /\ Pending = {}
               \/ rPc = "checkDefault" /\ ~sent
               \/ rPc = "callDefault"
            THEN {rMsg} ELSE {}

R == INSTANCE RouterSpec
       WITH Filters <- RouteFilters, MsgTopic <- InTopic, Matches <- matchBytes,
            table <- [i \in 1..Len(routes) |-> [filter |-> rt[routes[i]].filter, cb |-> rt[routes[i]].cb]],
            dflt <- dh, awaiting <- Awaiting, request <- request, ordered <- order,
            current <- IF order /\ rPc \in {"scan", "callback", "relock"} THEN {rMsg} ELSE {},
            pending <- IF order THEN {[m |-> rMsg, filter |-> PendingFilter(x), cb |-> rt[x].cb] :
                                        x \in Pending} ELSE {},
            invoked <- IF order THEN invoked
                       ELSE invoked \cup {[m |-> rMsg, cb |-> rt[x].cb] : x \in Pending}

\* The router implements RouterSpec while the user edits the list
\* (addRoute, deleteRoute, setDefaultHandler, part_001:90-161):
\* subscriptions unique by exact filter; every message dispatched to the
\* callbacks of the routes matching it, else to the default handler (spec
\* 4.5); in ordered mode, where matchAndDispatch drops the lock around each
\* callback (part_001:136-138), every route that matched and is still
\* subscribed is called with its callback of that moment.
RouterRefinement == R!Spec
===============================================================================
