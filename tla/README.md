# TLA+ models of the Paho MQTT Go client (wirenboard fork)

This directory holds TLA+ models of the client's session engine, its
keepalive goroutine in discrete time, its topic matcher, its fixed-header codec, and the path of an inbound PUBLISH
through the packet pools and the router. It also holds an abstract
specification of the router that the detailed model is shown to implement,
and the TLC configurations that check them.
Everything is written from the Go sources under `src/`. The parts of the
client that are not in `src/` (client.go, messageids.go, token.go) are
modelled from `spec.md` and are marked `spec_modelled` in `PROJECT.json`.

## The system

| Part | Source | What it does |
|---|---|---|
| Session engine | `src/net.go` | Four goroutines share one connection. `incoming` reads packets and hands them to `alllogic` over the unbuffered `ibound`. `alllogic` runs the QoS state machine: it completes tokens, frees ids, and posts acks on `oboundP` and messages on `incomingPubChan`. `outgoing` drains `obound` (publishes) and `oboundP` (everything else), stamps ids and writes. Any error goes to `errors`, and `alllogic` turns it into `internalConnLost`. |
| Keepalive | `src/ping.go` | `pingTimer` and `pingRespTimer`, reset by the `resetPing` and `resetPingResp` signals. PINGREQ is written straight to the connection. A missing PINGRESP calls `internalConnLost`. |
| Id registry | messageids.go (not in src) | `getID` sweeps from the last id, skipping held ids and blocking while all are held. `freeID` releases an id. `getToken` returns the token registered for an id. |
| Router | `src/unnamed/part_001` | `routeIncludesTopic` matches topics. `addRoute`, `deleteRoute` and `setDefaultHandler` edit the route table. `matchAndDispatch` consumes `incomingPubChan`. |
| Byte-slice pool | `src/unnamed/part_000` | Pools of byte slices by size, used by the decoders. |
| Codec | `src/packets/*.go` | The fixed header, the remaining-length varint, and Write/Unpack of each packet type, with packets taken from pools. |

How the parts interact:

- The user's Publish, Subscribe, Unsubscribe and Disconnect calls put a packet and a token on `obound` or `oboundP`.
- The broker's packets come in through `incoming`, reach `alllogic` over `ibound`, and reach the router through `incomingPubChan`.
- `stop` is closed by `internalConnLost` or by `Disconnect`, and every goroutine is meant to exit on it.

## Modules

- **`Topic.tla`**: `routeIncludesTopic`, translated loop for loop.
  - The `+` inner loop is `SkipLevel`. The main `for` loop is `Scan`, RECURSIVE, with 1-based indices.
  - `match` is the form `addRoute` and `deleteRoute` use. `matchBytes` is the form dispatch uses.
  - `MqttMatch` is the reference: MQTT 3.1.1 matching defined level by level on `Levels(s)`.
- **`Session.tla`**: the engine.
  - **Goroutine positions.** `pc[a]` names the statement each goroutine is blocked at. For example, `"sendIbound"` is incoming at `c.ibound <- cp`, `"pubChan"` is alllogic at `c.incomingPubChan <- pp`, and `"sendReply"` is the timed PUBREL/PUBCOMP send.
  - **Actions.** One action per statement a goroutine can take, named after the goroutine: `Incoming*`, `Out*`, `Logic*` and `Handle*`, `Keepalive*`. Each guard is the channel being ready. A select is the disjunction of its case actions.
  - **Channels.** Buffered channels are sequences or counts bounded by a capacity. `ibound` is a rendezvous: incoming waits at `"sendIbound"` and `LogicReceive` takes the packet.
  - **Timers.** A timer is `[run, fired]`. `Stop` and `Reset` change `run` and leave a fired tick in the channel, as Go timers did before Go 1.23. `TimerFires` is time passing.
  - **Writes and the connection.** `werr` is bufio.Writer's sticky error. `conn` is `"open"`, `"broken"` (the peer or network is gone: a write may vanish silently or fail) or `"closed"` (closed by us).
  - **Ghost state.** Packets carry a ghost `tok` naming the operation or broker message they belong to. `issued`, `done`, `handed`, `delivered`, `bDone`, `bSent` and `bAcked` are ghost sets over these names.
  - **Environment.** The user (`UserCall`, `UserDisconnectCleanup`), an MQTT 3.1.1 broker that answers every packet in order (`BrokerReceive`, `BrokerPublish`) and a breaking network (`ConnBreak`).
  - **Panics.** A nil or wrong-kind token found by an ack is a panic, recorded in `panicked`. Every action is guarded by `~panicked`.
  - **Pooled PublishPacket.** alllogic reads `pp.MessageID` for its PUBACK or PUBREC after handing `pp` to the router (net.go:287, 301). Once the router has dispatched the message, the pool may give the same object to incoming's next read (`MayShare`, recorded in `shared`), and the ack then carries that packet's id (`PubHeld` in `LogicSendAck`). `Dispatch.tla` follows the objects one by one; Session keeps only this effect.
  - **Build choice.** The capacity of `resetPing` and `resetPingResp` is set in client.go, which is not in `src/`. `pingCap` is chosen in `Init` from the constant `PingCaps`, so one run explores both the unbuffered and the buffered form.
- **`Keepalive.tla`**: `ping.go` on its own, with discrete time.
  - **Time.** `now` counts ticks, and `Tick` advances it up to `Horizon`. A timer is `[run, at, tick]`, where `at` is its deadline and `tick` is a tick waiting in its channel. `TimerExpires` puts the tick in the channel when `at = now`.
  - **Go timers before 1.23.** `Reset` and `Stop` change `run` and `at` but leave `tick` alone, as `time.Timer` did before Go 1.23 (the sources have no go.mod to opt into the new semantics).
  - **Actions.** One action per case of keepalive's select (`KeepaliveStop`, `KeepaliveResetPingResp`, `KeepaliveResetPing`, `KeepalivePing`, `KeepalivePingRespTimeout`). The senders are outgoing's write and its `resetPing` send (`OutgoingWrite`, `OutResetPing`) and alllogic's PINGRESP case (`PingrespArrives`, `LogicPingResp`). The broker answers within `MaxRtt` ticks or not at all (`PingreqLost`). `StopClosed` is another goroutine closing `c.stop` (alllogic's `internalConnLost`, or Disconnect), after which outgoing and alllogic send no more signals.
  - **Urgency.** `Tick` is disabled while a timer is due, a signal can be sent, keepalive has a ready case, or a PINGRESP is due. So every goroutine acts in the tick its input appears. This is the most favourable timing for the code.
  - **Ghost state.** `quietSince` and `quietFor` record the last reset keepalive handled and the interval it armed. `answered` records whether keepalive has handled a PINGRESP since its last PINGREQ.
- **`Codec.tla`**: the fixed header and remaining-length codec of `src/packets/packets.go`, as operators.
  - `encodeLength` and `decodeLength` are RECURSIVE, digit for digit. Go's `uint32` `rLength` is a record of bits 0..27 and 28..31, because TLC's integers stop at 2^31; `OrShifted` is `rLength |= uint32(digit&127) << multiplier`, so bits shifted past 32 are lost as in Go.
  - `unpack`, `pack`, `NewControlPacketWithHeader` (byte arithmetic for the pool index `fh.MessageType-1`) and `newControlPacketWithHeader` (the empty-pool path).
  - `RefVarint` and `RefLengthBytes` are the MQTT 3.1.1 reading of the remaining length: 1 to 4 bytes.
- **`Body.tla`** (extends `Codec`): the variable header and payload of every packet type, on bytes.
  - The helpers of packets.go: `loadByte`, `loadUint16`, `loadBytes`/`loadString` (with `end` computed in uint16, `% 65536`, as Go does) and `encodeUint16`, `encodeString`, `encodeBytes` (the length truncated to uint16).
  - `Write` and `Unpack` per type: PUBLISH (publish.go), PUBREC and UNSUBSCRIBE (pubrec.go), SUBSCRIBE (subscribe.go), SUBACK (suback.go). Loops over topics are RECURSIVE operators. The fixed-size acks (PUBACK, PUBREL, PUBCOMP, UNSUBACK) are one operator, `AckUnpack`, modelled from the spec because their files are not in `src/`.
  - A Go panic (a slice out of range) is an outcome `[panic |-> TRUE]`, not an error.
  - `ReadPacket` is the whole of packets.go's ReadPacket: fixed header, remaining length, pool lookup, payload read and `Unpack` into a fresh packet (`Fresh`). The outcome is `"ok"` with the packet's fields, `"err"` or `"panic"`.
  - `RefRead` and `RefBody` are the MQTT 3.1.1 reading of a whole packet: types 1..14, the exact body sizes of the acks, nonempty topics, QoS at most 2, SUBACK grants in {0,1,2,0x80}.
- **`MC_Pure.tla`**: checks the pure operators of `Topic`, `Codec` and `Body` in one state space. Each state is one input:
  - a filter and a topic (`[filter, topic]`), both valid strings of up to `MaxLen` characters from {a, b, /, +, #};
  - a remaining length (`[n]`);
  - a byte stream (`[stream]`);
  - a well-formed packet (`[pkt]`) of type PUBLISH, PUBREC, SUBSCRIBE, SUBACK or UNSUBSCRIBE, over topic names {a, a/b}, payloads {empty, 0x00, 0xFF 0x01} and message ids {1, 258, 65535}. `Wire` turns it into the stream `Write` produces, which is then read back as any other stream.
  - The next state moves to another topic, drops a digit or drops a byte (`Pick`, `Shift`, `Skip`), so the runs have no deadlock and no quadratic fan-out.
- **`RouterSpec.tla`**: what the router promises (spec 4.5), the abstract specification.
  - `table` is a sequence of subscriptions `[filter, cb]`, unique by exact filter. `Add` replaces or appends, `Delete` removes, `SetDefault` sets `dflt`.
  - `ordered` is the dispatch mode, chosen at construction.
  - **Concurrent mode.** `Dispatch(m)` records `[m, cb]` in `invoked` for every matching subscription in one step. When none matches, m goes to `awaiting`, and `Default(m)` later calls the default handler if there is one.
  - **Ordered mode.** `Dispatch(m)` makes the matching subscriptions `pending`, and `Serve` calls them one at a time with their callback of that moment. Between calls the user may edit the table:
    - a subscription added meanwhile that matches may join the pending ones;
    - a deleted one leaves them, unless its call is already under way (it is then `Detached`);
    - `Finish` ends the dispatch once nothing is pending.
  - `request` records the user's latest call, so that `Add(f, ...)` cannot stand for a call that edited another filter.
- **`Dispatch.tla`**: one inbound PUBLISH path, with its memory.
  - **incoming.** `IncomingRead` is `ReadPacket`: a `PublishPacket` from `packetPools` (`GetPublishPacket`), a slice from `byteSlicePools` (`getByteSlice`), and `Unpack`. `IncomingSend` is the `ibound` rendezvous.
  - **alllogic.** `LogicHandOff` is `c.incomingPubChan <- pp`. `LogicAck` builds the PUBACK or PUBREC from `pp.MessageID` afterwards.
  - **Pools.** A `sync.Pool` Get returns any pooled object or a new one (`freeP ∪ newP`, `freeB ∪ newB`). `Release` is `FixedHeader.Release` with `ByteSlicePool.Release`. `bytes[b]` is the message whose bytes slice b last received. Reading a slice therefore tells whose data a reader sees.
  - **Route list.** The route list is a sequence of `container/list` elements (`routes`) with their route (`rt`).
    - `NextElem` is `e.Next()`. It returns nil for a removed element, as `list.Remove` clears `e.next`.
    - `addRoute` and `deleteRoute` are one step each, taken only while the read lock is free (`~ReadLocked`), and find the route with `match`.
    - `setDefaultHandler` takes no lock.
  - **Router.** `matchAndDispatch` is `Router*`, one action per block between lock operations:
    - take, one loop turn, loop end;
    - in ordered mode, the unlocked callback and the re-lock;
    - the default-handler check, and the call that re-reads the field;
    - Release.
    - In concurrent mode a callback is a `running` goroutine, `CallbackRun(c)`, that reads its slice later.
    - Calling a nil default handler sets `panicked`, which stops every action.
  - **Refinement.** The section at the end maps this state to `RouterSpec`:
    - the table is the list;
    - the routes the loop has yet to reach, from its cursor, count as invoked (concurrent) or pending (ordered).
- **`MC_Dispatch.tla`**: two PUBLISHes, m1 (QoS 1, id 1, topic a/b) and m2 (QoS 2, id 2, topic b). `MC_RouteFilters` {a/+, b} do not overlap. `MC_OverlappingFilters` {a/+, a/b} do.
- **`MC_Session.tla`**: model values for tokens and messages, and their QoS and ids.
  - p0, p1 and p2 are QoS 0, 1 and 2 publishes. m0, m1 and m2 are QoS 0, 1 and 2 broker messages. m0 and m1 share id 1.

## Fairness

- **Scheduler.** Go runs every runnable goroutine, so each goroutine has weak fairness. This covers `incoming`, the re-post goroutine, the `freeID` goroutine and the router.
- **Select loops.** `outgoing`, `alllogic` and `keepalive` block in selects whose cases become ready again and again. They have strong fairness on the goroutine as a whole: a select that can proceed infinitely often does proceed.
- **Environment.** A running timer eventually fires, and the broker eventually reads what was sent.
- **Keepalive.** It has no fairness, because its one run checks a safety property. Its timing assumption is the urgency of `Tick` instead.
- **Dispatch.** Each goroutine has weak fairness: incoming, alllogic, the router, and every callback goroutine (`CallbackRun(c)`). Their steps stay enabled until taken. The user has no fairness, because nothing obliges a program to call the router.

## Runs

| Run | Bounds | Result |
|---|---|---|
| `pure` (MC_Pure.cfg) | filters and topics of up to 4 characters over {a,b}; lengths 0..20000 and the 1–4 byte boundaries up to 268,435,455; streams of up to 6 bytes over {0x00, 0x01, 0x34, 0x7F, 0x80, 0xE0, 0xFF}; the packets above and their Write output; 180K states | `matchBytes` ⇒ MQTT match. `decodeLength(encodeLength(n)) = n` in the byte count MQTT prescribes. `ReadPacket` reads the bytes `Write` produces for every packet of a type a client receives as MQTT does, body included (`ReadPacketAgreesOnValid`). No raw stream of up to 6 bytes over the alphabet is a valid client-bound packet, so on those streams the property says nothing; they serve `pure_reject`. `Write` of each packet gives bytes MQTT reads back as the same packet (`WriteIsMqtt`). |
| `pure_reject` | streams of up to 6 bytes over the same alphabet; no topics | **Violation** of "rejected input gives an error and never a panic". ReadPacket panics on a type byte of 0, 14 or 15 (the `packetPools` index), and on a stream that ends inside the remaining length. It accepts a five-byte remaining length. It also panics on a PUBLISH too short for its message id (`<<0x34, 0x00>>`, publish.go:50), and on the UNSUBSCRIBE that `Write` itself produces for id 65535: Unpack reads the message id as the first topic's length (pubrec.go:83), `loadBytes` computes `end` in uint16 and wraps to 1, and `src[2:1]` panics. |
| `session_failure` | a QoS 2 publish {p2}, a Disconnect {d1}, a QoS 0 message {m0}; keepalive on over `resetPing`/`resetPingResp` of capacity 0 or 1 (`PingCaps`); the connection may break; 2.7M states in about a minute | No ack finds a wrong or missing token (`NoPanic`), and no token completes before the broker ends its flow (`CompletedOnlyWhenAcked`). This holds while a Disconnect races the flows, with both forms of the keepalive signals. |
| `session_live` | {p1}, {s1}, {u1}, {m2}, MaxId 2, no keepalive, no failure; `CompletedOnlyWhenAcked` only | Three operations on two ids force an id to be reused, including one freed by the asynchronous `go c.freeID` of a SUBACK or UNSUBACK (net.go:263, 272). Every token still completes only after the broker ended its own flow: no ack completes the operation that took its id next. |
| `session_ids` | {p1, p2}, {s1}, {u1}, {m2}, MaxId 2, no keepalive, no failure; `AckedOpsComplete` only | **Violation**: four operations that each hold an id, over two ids, deadlock the open connection. u1 and p2 hold both ids, so outgoing waits in `getID` (net.go:151) with p1, and oboundP holds s1's SUBSCRIBE. alllogic blocks putting m2's PUBREC on the full oboundP (net.go:291), which only outgoing drains. The UNSUBACK that would free id 1 waits in incoming on `ibound`. |
| `session_hook` | {p1}, keepalive on, may break | **Violation**: internalConnLost runs twice (alllogic on an error, then keepalive on a stale pingRespTimer tick). |
| `session_shutdown` | {p1}, {m1}, may break | **Violation**: after stop, incoming stays blocked on `c.ibound <- cp` forever. |
| `session_connloss` | {p1}, {s1}, {m1}, may break | **Violation**: a broken connection is never turned into `internalConnLost`. outgoing posts its write error and returns; alllogic then blocks for ever sending a PUBACK on `oboundP` (net.go:305, no stop or errors case) and never reads `errors`. |
| `keepalive_stale` (Keepalive_stale.cfg) | KeepAlive 3, PingTimeout 2, broker answers within 1 tick or never, signal capacity 1, 8 ticks; `KeepaliveInvariant` only | **Violation** of spec 8's keepalive invariant. If a write and pingTimer's expiry fall in the same tick, keepalive may take `resetPing` first. `Reset` leaves the old tick in the channel, so a PINGREQ goes out at once (ping.go:43). Likewise, a tick of `pingRespTimer` survives `Reset` (ping.go:52) and `Stop` (ping.go:40): keepalive handles the PINGRESP of its latest PINGREQ and then ends the session with "pingresp not received". |
| `dispatch` (MC_Dispatch.cfg) | m1, m2; both dispatch modes; filters {a/+, b}; callbacks {c1,c2}, handler h1 or nil; two user calls; two packet objects, two slices, two list elements; incomingPubChan capacity 1; 255K states | The pools never hand out a packet or slice that is in use (`PoolExclusive`). The router implements `RouterSpec` (`RouterRefinement`). Every message is dispatched, acked, its callbacks run and its packet released, unless a nil default handler crashed the process (`EveryPublishHandled`). |
| `dispatch_handoff` | the same, `ReadsOwnData` only | **Violation**: the router Releases m1's packet before alllogic reads `pp.MessageID` (net.go:287, 301). incoming reuses the object for m2, so m1's PUBACK carries id 2. In concurrent mode a callback likewise reads a slice already refilled with another message. |
| `dispatch_routes` | filters {a/+, a/b}, three user calls, `RouterRefinement` only | **Violation**: `addRoute("a/b")` after `addRoute("a/+")` replaces a/+'s callback, because `route.match` applies wildcards (part_001:94). |

Why these bounds are enough:

- **Capacities of 1** make every channel-full case reachable: a blocked send, the PUBREL timeout and an errors channel that is already full.
- **MaxId 2** with three operations forces ids to be reused and `getID` to block; with four, every id is held while a fourth operation waits (`session_ids`).
- **MaxPingsOnWire 1** encodes the timing assumption that a ping's round trip is shorter than PingTimeout. Without it, the untimed model lets pingTimer expire over and over while pings are still in flight.
- **The codec alphabet** holds a byte of each class the code distinguishes: a good and a bad type nibble, the DISCONNECT type, every flag set, a continuation byte and a terminator. Six bytes reach a fifth length byte and a complete packet with a payload. 0xFF also makes a string length of 0xFFxx, which `loadBytes` wraps.
- **Message ids** 1, 258 and 65535: a one-byte id, an id whose two bytes differ, and the id whose `+2` wraps uint16 when it is misread as a length. Two topic names of different lengths and payloads of 0 to 2 bytes tell a shifted read from a correct one.
- **Liveness runs turn keepalive off.** With keepalive on, the temporal check goes past 5 minutes: `ConnLossDetected` under the `session_failure` bounds ran for 10 minutes without finishing. `session_connloss` therefore shows its deadlock with keepalive off; with keepalive on, the missing PINGRESP would eventually make keepalive call `internalConnLost`.
- **`session_failure` keeps one message in.** With {m0, m2} or {m0, m1} in place of {m0}, the run takes 4 to more than 15 minutes. `session_live` covers the QoS 2 incoming flow.
- **Keepalive.** PingTimeout 2 and KeepAlive 3 differ, so the first interval and the later ones can be told apart. Both timers can expire in the same tick. A broker that answers within one tick lets a PINGRESP arrive before the deadline and in the deadline's own tick. Eight ticks hold two PINGREQs with traffic in between. The violations need no latency: they occur in the most favourable timing.
- **Dispatch.** Two messages with two packet objects and two slices are the least that let the pool hand a released object to the next read. Two callbacks let a route's callback be replaced. A nil handler among the defaults reaches the re-read at part_001:149/152. The pass run allows two user calls: that is enough for a route to be deleted or its callback replaced while a dispatch is under way, and for the default handler to be cleared between its check and its call. Three calls take the run past three minutes; `dispatch_routes` uses three. The pass run's filters do not overlap, so neither bug of `dispatch_routes` fires there.

Each property of a passing run has a mutant in `PROJECT.json` that TLC catches: a plausible bug in the mapped code, such as freeing the id on PUBREC, completing every publish on write, or skipping the errors capacity.

## Not modelled, and the plan

1. **Keepalive liveness and the blocked `resetPing` send** (net.go:217): after keepalive returns, outgoing may block for good on its `resetPing` send. No run checks it: Session's temporal check with keepalive on takes too long, and the one `Keepalive` run checks the invariant. `PROJECT.json` lists it as a hazard.
2. **The stale MessageID of a reused QoS 0 PublishPacket.** `Body` reads into a fresh packet, and Dispatch keeps the pooled object's old id, but no property reads it.
3. **QoS 2 over a full oboundP**: the PUBREL dropped after 1 s (net.go:349) leaves the token pending on an open connection. No run checks it; `PROJECT.json` lists it as a hazard.
4. **Progress with ids to spare.** `AckedOpsComplete` fails once the operations in flight outnumber the ids (`session_ids`). Whether it holds when they do not is not checked by a run. An inbound message stays undelivered only through the same deadlocks (`session_ids`, `session_connloss`).
5. **The ordered-mode skip** (part_001:133): a `deleteRoute` of the route whose callback is running clears `e.next`, and the later matching routes are never called. `dispatch_routes` stops on the shorter `addRoute` replacement first. Filters a/+ and +/b, which `route.match` keeps apart, give a counterexample in which a route added during the callback is skipped, but RouterSpec allows that. Showing the skip itself needs both routes in place before the dispatch.
6. **Topic matching against `a/#`.** Reading `routeIncludesTopic` shows that `a/#` does not match `a`: the loop returns false at `tp == lt` (part_001:53), while spec 4.5 says `#` also matches the parent level. `Topic.tla` translates that loop and `MqttMatch` is the reference, but no run checks their agreement in that direction; `pure` checks soundness only.
7. **The Go 1.23 timer semantics.** That a draining `Stop`/`Reset` would keep `KeepaliveInvariant` is not checked by a run.
8. **The nil default handler** (part_001:146-152): the dispatch run reaches the panic. No property forbids it, because the callers of `setDefaultHandler` are not in the sources.

Out of scope:

- `openConnection`, CONNECT, persistence (commented out in net.go) and logging: they are not in `src/` or are pure I/O.
- The `packetsSent` and `packetsReceived` counters: metrics only, though they are written without synchronisation.
- The byte-slice pool's per-size array, `MAX_POOLED_SLICES` and `objectPools`. A packet takes one pooled slice per Read or Write: the read buffer of an incoming packet, or the topic of an outgoing PUBLISH. So the 256-slice cap is never reached. Nothing calls `getObjectPool`. Slices above `MAX_SLICE_SIZE` are plain allocations.
- `String`, `Details`, `Copy`, the stream decoders `decodeByte`/`decodeUint16`/`decodeString`/`decodeBytes` and the error tables: formatting, or code that no path of `src/` calls.
