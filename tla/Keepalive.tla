------------------------------ MODULE Keepalive ------------------------------
(***************************************************************************)
(* The keepalive goroutine of src/ping.go with discrete time, and the two  *)
(* signals it receives: resetPing, sent by outgoing after every write      *)
(* (net.go:216-217), and resetPingResp, sent by alllogic for a PINGRESP    *)
(* (net.go:242-249).  now counts ticks; a timer holds the tick at which it *)
(* expires.  Go timers before 1.23 (no go.mod: the old semantics): when a  *)
(* timer expires its tick is put in a channel of capacity 1; Stop and      *)
(* Reset change whether it runs but leave a tick already in the channel.   *)
(*                                                                         *)
(* Scheduling: keepalive, the senders and the timers act without delay.    *)
(* Time cannot advance while a timer is due, a signal is waiting to be     *)
(* sent or keepalive has a ready case.  This is the most favourable timing *)
(* for the code: what goes wrong here also goes wrong with latency.        *)
(***************************************************************************)
EXTENDS Naturals, Sequences

CONSTANTS
    KeepAlive,     \* options.KeepAlive, the first idle interval (ticks)
    PingTimeout,   \* options.PingTimeout, later idle intervals and the deadline
    PingCap,       \* capacity of resetPing and resetPingResp (client.go)
    MaxRtt,        \* a PINGRESP the broker sends arrives within MaxRtt ticks
    BrokerMayFail, \* whether a PINGREQ may go unanswered
    Horizon        \* the last tick explored

ASSUME /\ {KeepAlive, PingTimeout} \subseteq Nat \ {0}
       /\ PingCap \in Nat /\ MaxRtt \in Nat /\ BrokerMayFail \in BOOLEAN
       /\ Horizon \in Nat

VARIABLES
    now,            \* the current tick
    ka,             \* keepalive: "select" or "done" (returned)
    pingTimer, pingRespTimer,   \* [run, at, tick]
    outPending,     \* outgoing is blocked sending on resetPing
    logicPending,   \* alllogic is blocked sending on resetPingResp
    rPing, rPingResp,           \* signals buffered in the two channels
    inflight,       \* ticks at which the unanswered PINGREQs were written
    lost,           \* keepalive called internalConnLost
    stopped,        \* c.stop is closed
    quietSince,     \* ghost: tick of the last reset keepalive handled
    quietFor,       \* ghost: the interval keepalive then armed pingTimer with
    answered        \* ghost: keepalive handled a PINGRESP since its last PINGREQ

vars == <<now, ka, pingTimer, pingRespTimer, outPending, logicPending, rPing,
          rPingResp, inflight, lost, stopped, quietSince, quietFor, answered>>

Timer == [run : BOOLEAN, at : 0..(Horizon + KeepAlive + PingTimeout), tick : BOOLEAN]

\* time.Timer.Reset(d) and Stop() before Go 1.23: the channel is not drained.
Reset(t, d) == [t EXCEPT !.run = TRUE, !.at = now + d]
Stop(t) == [t EXCEPT !.run = FALSE, !.at = 0]
Take(t) == [t EXCEPT !.tick = FALSE]

\* keepalive's select: which cases can be taken now.
PingSignal == rPing > 0 \/ (PingCap = 0 /\ outPending)
RespSignal == rPingResp > 0 \/ (PingCap = 0 /\ logicPending)
KeepaliveReady ==
    ka = "select"
    /\ (stopped \/ PingSignal \/ RespSignal \/ pingTimer.tick \/ pingRespTimer.tick)

\* The receive of a signal: from the buffer, or straight from a sender
\* blocked on an unbuffered channel.
Receive(buf, pending) ==
    \/ buf > 0 /\ buf' = buf - 1 /\ UNCHANGED pending
    \/ PingCap = 0 /\ pending /\ pending' = FALSE /\ UNCHANGED buf

-----------------------------------------------------------------------------

Init ==
    /\ now = 0 /\ ka = "select"
    /\ pingTimer = [run |-> TRUE, at |-> KeepAlive, tick |-> FALSE]
    /\ pingRespTimer = [run |-> FALSE, at |-> 0, tick |-> FALSE]
    /\ outPending = FALSE /\ logicPending = FALSE /\ rPing = 0 /\ rPingResp = 0
    /\ inflight = <<>> /\ lost = FALSE /\ stopped = FALSE
    /\ quietSince = 0 /\ quietFor = KeepAlive /\ answered = FALSE

\* case <-c.stop: pingTimer.Stop(); pingRespTimer.Stop(); return.
KeepaliveStop ==
    /\ ka = "select" /\ stopped
    /\ pingTimer' = Stop(pingTimer) /\ pingRespTimer' = Stop(pingRespTimer)
    /\ ka' = "done"
    /\ UNCHANGED <<stopped, now, outPending, logicPending, rPing, rPingResp, inflight, lost,
                   quietSince, quietFor, answered>>

\* case <-c.resetPingResp: pingRespTimer.Stop(); pingTimer.Reset(PingTimeout).
KeepaliveResetPingResp ==
    /\ ka = "select" /\ Receive(rPingResp, logicPending)
    /\ pingRespTimer' = Stop(pingRespTimer)
    /\ pingTimer' = Reset(pingTimer, PingTimeout)
    /\ quietSince' = now /\ quietFor' = PingTimeout /\ answered' = TRUE
    /\ UNCHANGED <<stopped, now, ka, outPending, rPing, inflight, lost>>

\* case <-c.resetPing: pingTimer.Reset(PingTimeout).
KeepaliveResetPing ==
    /\ ka = "select" /\ Receive(rPing, outPending)
    /\ pingTimer' = Reset(pingTimer, PingTimeout)
    /\ quietSince' = now /\ quietFor' = PingTimeout
    /\ UNCHANGED <<stopped, now, ka, pingRespTimer, logicPending, rPingResp, inflight, lost,
                   answered>>

\* case <-pingTimer.C: a PINGREQ written to the connection;
\* pingRespTimer.Reset(PingTimeout).
KeepalivePing ==
    /\ ka = "select" /\ pingTimer.tick
    /\ pingTimer' = Take(pingTimer)
    /\ inflight' = Append(inflight, now)
    /\ pingRespTimer' = Reset(pingRespTimer, PingTimeout)
    /\ answered' = FALSE
    /\ UNCHANGED <<stopped, now, ka, outPending, logicPending, rPing, rPingResp, lost,
                   quietSince, quietFor>>

\* case <-pingRespTimer.C: pingTimer.Stop(); internalConnLost; return.
KeepalivePingRespTimeout ==
    /\ ka = "select" /\ pingRespTimer.tick
    /\ pingRespTimer' = Take(pingRespTimer)
    /\ pingTimer' = Stop(pingTimer)
    /\ lost' = TRUE /\ stopped' = TRUE /\ ka' = "done"
    /\ UNCHANGED <<now, outPending, logicPending, rPing, rPingResp, inflight,
                   quietSince, quietFor, answered>>

Keepalive == KeepaliveStop \/ KeepaliveResetPingResp \/ KeepaliveResetPing \/ KeepalivePing
             \/ KeepalivePingRespTimeout

-----------------------------------------------------------------------------
(* The rest of the engine and the broker, as far as keepalive sees them.   *)

\* outgoing writes a packet and then sends on c.resetPing (net.go:216-217);
\* the engine stops once c.stop is closed.
OutgoingWrite ==
    /\ ~stopped /\ ~outPending
    /\ outPending' = TRUE
    /\ UNCHANGED <<stopped, now, ka, pingTimer, pingRespTimer, logicPending, rPing, rPingResp,
                   inflight, lost, quietSince, quietFor, answered>>

\* c.resetPing <- struct{}{} into the buffer.
OutResetPing ==
    /\ outPending /\ rPing < PingCap
    /\ rPing' = rPing + 1 /\ outPending' = FALSE
    /\ UNCHANGED <<stopped, now, ka, pingTimer, pingRespTimer, logicPending, rPingResp,
                   inflight, lost, quietSince, quietFor, answered>>

\* The broker's PINGRESP is read and alllogic takes the PingrespPacket case
\* (net.go:242-249); it then sends on c.resetPingResp.
PingrespArrives ==
    /\ ~stopped /\ inflight # <<>> /\ ~logicPending
    /\ inflight' = Tail(inflight) /\ logicPending' = TRUE
    /\ UNCHANGED <<stopped, now, ka, pingTimer, pingRespTimer, outPending, rPing, rPingResp,
                   lost, quietSince, quietFor, answered>>

\* c.resetPingResp <- struct{}{} into the buffer.
LogicPingResp ==
    /\ logicPending /\ rPingResp < PingCap
    /\ rPingResp' = rPingResp + 1 /\ logicPending' = FALSE
    /\ UNCHANGED <<stopped, now, ka, pingTimer, pingRespTimer, outPending, rPing,
                   inflight, lost, quietSince, quietFor, answered>>

\* Another goroutine closes c.stop: alllogic's internalConnLost on an error
\* (net.go:376-379) or the user's Disconnect.
StopClosed ==
    /\ ~stopped
    /\ stopped' = TRUE
    /\ UNCHANGED <<now, ka, pingTimer, pingRespTimer, outPending, logicPending, rPing,
                   rPingResp, inflight, lost, quietSince, quietFor, answered>>

\* The broker never answers a PINGREQ (it or the network is gone).
PingreqLost ==
    /\ BrokerMayFail /\ inflight # <<>>
    /\ inflight' = Tail(inflight)
    /\ UNCHANGED <<stopped, now, ka, pingTimer, pingRespTimer, outPending, logicPending, rPing,
                   rPingResp, lost, quietSince, quietFor, answered>>

\* A running timer reaches its tick: the tick goes into its channel (a
\* second one is dropped while the first is there).
Expire(t) == [t EXCEPT !.run = FALSE, !.at = 0, !.tick = TRUE]
Due(t) == t.run /\ t.at = now

TimerExpires ==
    /\ \/ Due(pingTimer) /\ pingTimer' = Expire(pingTimer) /\ UNCHANGED pingRespTimer
       \/ Due(pingRespTimer) /\ pingRespTimer' = Expire(pingRespTimer)
                             /\ UNCHANGED pingTimer
    /\ UNCHANGED <<stopped, now, ka, outPending, logicPending, rPing, rPingResp, inflight,
                   lost, quietSince, quietFor, answered>>

\* Time advances once nothing is due at this tick: no timer expiring, no
\* signal that can be sent, no case keepalive can take, and no PINGRESP
\* that must arrive by now.
Tick ==
    /\ now < Horizon
    /\ ~Due(pingTimer) /\ ~Due(pingRespTimer) /\ ~KeepaliveReady
    /\ ~(outPending /\ rPing < PingCap) /\ ~(logicPending /\ rPingResp < PingCap)
    /\ lost \/ \A i \in DOMAIN inflight : inflight[i] + MaxRtt > now
    /\ now' = now + 1
    /\ UNCHANGED <<stopped, ka, pingTimer, pingRespTimer, outPending, logicPending, rPing,
                   rPingResp, inflight, lost, quietSince, quietFor, answered>>

Env == OutgoingWrite \/ OutResetPing \/ PingrespArrives \/ LogicPingResp
       \/ StopClosed \/ PingreqLost \/ TimerExpires \/ Tick

Next == Keepalive \/ Env

Spec == Init /\ [][Next]_vars

-----------------------------------------------------------------------------

TypeOK ==
    /\ now \in 0..Horizon /\ ka \in {"select", "done"}
    /\ pingTimer \in Timer /\ pingRespTimer \in Timer
    /\ {outPending, logicPending, lost, stopped, answered} \subseteq BOOLEAN
    /\ rPing \in 0..PingCap /\ rPingResp \in 0..PingCap
    /\ inflight \in Seq(0..Horizon)
    /\ quietSince \in 0..Horizon /\ quietFor \in {KeepAlive, PingTimeout}

\* Spec 8's keepalive invariant, as keepalive's own steps (ping.go:39-58):
\* a PINGREQ is written only once the idle interval has passed since the
\* last traffic or PINGRESP keepalive handled (resetPing, resetPingResp
\* defer it), and connection-lost is declared only when no PINGRESP has
\* been handled since the last PINGREQ.  A tick left in a timer's channel
\* by Stop or Reset (ping.go:40, 41, 43) breaks both.
KeepaliveInvariant ==
    [][/\ Len(inflight') > Len(inflight) => now >= quietSince + quietFor
       /\ lost' /\ ~lost => ~answered]_vars
====
