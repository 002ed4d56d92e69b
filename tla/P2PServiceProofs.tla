--------------------------- MODULE P2PServiceProofs ---------------------------
(***************************************************************************)
(* Proof about P2PService, for any number of attempts and any bound on the *)
(* signals under way: what stays registered can still reach its peer.      *)
(***************************************************************************)
EXTENDS P2PService, TLAPS

\* An attempt not yet clicked is nowhere; until its handshake is done an attempt
\* has not ended, has no direct channel, and no channel that is being closed.
Early ==
    /\ \A a \in Attempt : a > clicks => stage[a] = "none"
    /\ \A a \in Attempt : stage[a] \in {"none", "pairing", "handshake"} => ended[a] = "no"
    /\ \A a \in Attempt : direct[a] \/ channel[a] = "closing" => stage[a] \in {"priming", "up"}

IInv == RegisteredLives /\ Early

-----------------------------------------------------------------------------
\* Signals wait in a queue of signals.
LEMMA QueueTyped ==
    ASSUME signals \in Seq(Signal)
    PROVE  /\ \A s \in Seq(Signal) : signals \o s \in Seq(Signal)
           /\ signals # <<>> => Tail(signals) \in Seq(Signal) /\ Head(signals) \in Signal
           /\ <<>> \in Seq(Signal)
           /\ \A s \in Signal : <<s>> \in Seq(Signal)
           /\ \A s, t \in Signal : <<s>> \o <<t>> \in Seq(Signal) /\ <<s>> \o <<>> \in Seq(Signal)
OBVIOUS

\* Whatever a session says of its end, no other session takes its place, and none
\* that has ended stays.
LEMMA DisconnectedLeaves ==
    ASSUME IInv, NEW a \in Attempt, Disconnected(a)
    PROVE  /\ session' \in {session, None} /\ session' # a /\ link' \in {link, None}
           /\ ended' \in [Attempt -> {"no", "reported", "closed"}]
           /\ \A b \in Attempt : b # a => ended'[b] = ended[b]
           /\ session' # None => ended' = ended
           /\ signals' \in Seq(Signal)
<1>1. CASE ended[a] # "no"
    <2>1. session # a
        BY <1>1, P2PServiceAssumption DEF IInv, RegisteredLives, Started, Attempt
    <2>. QED BY <1>1, <2>1 DEF Disconnected, IInv, RegisteredLives, TypeOK
<1>2. CASE ended[a] = "no"
    <2>1. /\ ended' = [ended EXCEPT ![a] = "reported"] /\ session' = None /\ link' = None
          /\ Emit(IF session # None THEN <<"disconnected">> ELSE <<>>)
        BY <1>2 DEF Disconnected
    <2>2. signals' \in Seq(Signal)
        BY <2>1, QueueTyped DEF Emit, Signal, IInv, RegisteredLives, TypeOK
    <2>. QED BY <2>1, <2>2, P2PServiceAssumption DEF IInv, RegisteredLives, TypeOK, Attempt
<1>. QED BY <1>1, <1>2

\* Before the first click nothing is registered.
LEMMA InitHolds == Init => IInv
<1> SUFFICES ASSUME Init PROVE IInv
    OBVIOUS
<1>1. TypeOK
    <2>1. <<>> \in Seq(Signal) /\ 0 \in 0 .. MaxAttempts
        BY P2PServiceAssumption
    <2>. QED BY <2>1 DEF Init, TypeOK
<1>2. Early /\ session = None
    BY DEF Init, Early
<1>. QED BY <1>1, <1>2 DEF IInv, RegisteredLives

\* Whoever moves, loop, worker or window, what is registered lives.
LEMMA StepKeeps == IInv /\ [Next]_vars => IInv'
<1> SUFFICES ASSUME IInv, [Next]_vars PROVE IInv'
    OBVIOUS
<1> USE P2PServiceAssumption
<1>0. TypeOK /\ signals \in Seq(Signal) /\ clicks \in Nat
    BY DEF IInv, RegisteredLives, TypeOK
<1>a. \A a \in Attempt : session = a => Started(a) /\ (Reachable(a) \/ channel[a] = "closing")
    BY DEF IInv, RegisteredLives, Attempt
<1>1. ASSUME Connect PROVE IInv'
    <2>1. clicks + 1 \in Attempt /\ stage[clicks + 1] = "none" /\ session # clicks + 1
        BY <1>0, <1>1, <1>a DEF Connect, Attempt, IInv, Early, Started
    <2>2. TypeOK'
        <3>1. clicks' \in 0 .. MaxAttempts
            BY <1>0, <1>1 DEF Connect
        <3>2. /\ stage' = [stage EXCEPT ![clicks + 1] = "pairing"]
              /\ worker' = [worker EXCEPT ![clicks + 1] = "waiting"] /\ connecting' = TRUE
              /\ UNCHANGED <<path, channel, direct, ended, session, link, signals, online, row>>
            BY <1>1 DEF Connect
        <3>. QED BY ONLY <1>0, <2>1, <3>1, <3>2 DEF TypeOK
    <2>. QED BY <1>0, <1>1, <1>a, <2>1, <2>2
            DEF Connect, IInv, RegisteredLives, Early, Started, Reachable, Attempt, TypeOK
<1>2. ASSUME Hears PROVE IInv'
    <2>1. TypeOK'
        <3>1. connecting' \in BOOLEAN /\ online' \in BOOLEAN
            BY <1>0, <1>2 DEF Hears, TypeOK, ConnectingAfter, OnlineAfter
        <3>. QED BY <1>0, <1>2, <3>1, QueueTyped DEF Hears, TypeOK, service
    <2>. QED BY <1>2, <2>1
            DEF Hears, IInv, RegisteredLives, Early, Started, Reachable, service
<1>3. ASSUME DeleteStops PROVE IInv'
    <2>1. signals' \in Seq(Signal)
        BY <1>0, <1>3, QueueTyped DEF DeleteStops, Emit, Signal
    <2>2. TypeOK'
        <3>1. /\ channel' \in [Attempt -> {"none", "alive", "closing"}]
              /\ direct' \in [Attempt -> BOOLEAN]
              /\ ended' \in [Attempt -> {"no", "reported", "closed"}]
            BY ONLY <1>0, <1>3 DEF DeleteStops, TypeOK
        <3>2. /\ session' = None /\ link' \in {link, None} /\ row' = "deleting"
              /\ UNCHANGED <<stage, path, worker, connecting, online, clicks>>
            BY ONLY <1>3 DEF DeleteStops
        <3>. QED BY ONLY <1>0, <2>1, <3>1, <3>2 DEF TypeOK
    <2>3. Early'
        BY <1>0, <1>3, <1>a DEF DeleteStops, IInv, Early, TypeOK, Started
    <2>. QED BY <1>3, <2>2, <2>3 DEF DeleteStops, IInv, RegisteredLives
<1>4. ASSUME DeleteRows PROVE IInv'
    BY <1>0, <1>4
       DEF DeleteRows, IInv, RegisteredLives, Early, Started, Reachable, TypeOK, service
<1>5. ASSUME NEW a \in Attempt, Paired(a) PROVE IInv'
    <2>1. TypeOK' /\ session # a
        BY <1>0, <1>5, <1>a DEF Paired, TypeOK, window, Started
    <2>. QED BY <1>0, <1>5, <1>a, <2>1
            DEF Paired, IInv, RegisteredLives, Early, Started, Reachable, TypeOK, window
<1>6. ASSUME NEW a \in Attempt, HandshakeDone(a) PROVE IInv'
    <2>1. signals' \in Seq(Signal)
        BY <1>0, <1>6, QueueTyped DEF HandshakeDone, Told, Emit, Signal
    <2>2. TypeOK'
        BY <1>0, <1>6, <2>1 DEF HandshakeDone, Registered, TypeOK, window
    <2>3. ended[a] = "no"
        BY <1>6 DEF HandshakeDone, IInv, Early
    <2>4. /\ session' = a /\ stage'[a] \in {"priming", "up"}
          /\ \A b \in Attempt : b # a => stage'[b] = stage[b]
          /\ UNCHANGED <<channel, direct, ended, clicks>> /\ channel[a] = "alive"
        BY <1>0, <1>6 DEF HandshakeDone, Registered, TypeOK, window
    <2>5. Early'
        BY <1>0, <1>6, <2>4 DEF HandshakeDone, IInv, Early
    <2>. QED BY <2>2, <2>3, <2>4, <2>5 DEF IInv, RegisteredLives, Started, Reachable
<1>7. ASSUME NEW a \in Attempt, Primed(a) PROVE IInv'
    <2>1. signals' \in Seq(Signal)
        BY <1>0, <1>7, QueueTyped DEF Primed, Told, Emit, Signal
    <2>. QED BY <1>0, <1>7, <1>a, <2>1
            DEF Primed, IInv, RegisteredLives, Early, Started, Reachable, TypeOK, window
<1>8. ASSUME NEW a \in Attempt, Fails(a) PROVE IInv'
    <2>1. TypeOK' /\ session # a
        BY <1>0, <1>8, <1>a DEF Fails, TypeOK, window, Started
    <2>. QED BY <1>0, <1>8, <1>a, <2>1
            DEF Fails, IInv, RegisteredLives, Early, Started, Reachable, TypeOK, window
<1>9. ASSUME NEW a \in Attempt, Reports(a) \/ GivesUp(a) PROVE IInv'
    <2>1. signals' \in Seq(Signal)
        BY <1>0, <1>9, QueueTyped DEF Reports, GivesUp, Emit, Signal
    <2>2. TypeOK'
        BY <1>0, <1>9, <2>1 DEF Reports, GivesUp, TypeOK, service, window
    <2>. QED BY <1>9, <2>2
            DEF Reports, GivesUp, IInv, RegisteredLives, Early, Started, Reachable, service, window
<1>10. ASSUME NEW a \in Attempt, ChannelBreaks(a) PROVE IInv'
    BY <1>0, <1>10, <1>a
       DEF ChannelBreaks, IInv, RegisteredLives, Early, Started, Reachable, TypeOK, window
<1>11. ASSUME NEW a \in Attempt, ChannelClosed(a) PROVE IInv'
    <2>1. /\ channel' = [channel EXCEPT ![a] = "none"] /\ channel[a] = "closing"
          /\ UNCHANGED <<stage, path, direct, worker, connecting, online, row, clicks>>
        BY <1>11 DEF ChannelClosed, window
    <2>2. CASE direct[a]
        BY <1>0, <1>11, <1>a, <2>1, <2>2
           DEF ChannelClosed, IInv, RegisteredLives, Early, Started, Reachable, TypeOK
    <2>3. CASE ~direct[a]
        <3>1. /\ session' \in {session, None} /\ session' # a /\ link' \in {link, None}
              /\ ended' \in [Attempt -> {"no", "reported", "closed"}]
              /\ \A b \in Attempt : b # a => ended'[b] = ended[b]
              /\ session' # None => ended' = ended
              /\ signals' \in Seq(Signal)
            BY <1>11, <2>3, DisconnectedLeaves DEF ChannelClosed
        <3>2. TypeOK'
            BY ONLY <1>0, <2>1, <3>1 DEF TypeOK
        <3>3. Early'
            BY <1>0, <2>1, <3>1 DEF IInv, Early, TypeOK
        <3>. QED BY <1>0, <1>a, <2>1, <3>1, <3>2, <3>3
                DEF IInv, RegisteredLives, Started, Reachable, TypeOK
    <2>. QED BY <2>2, <2>3
<1>12. ASSUME NEW a \in Attempt, DirectOpens(a) PROVE IInv'
    <2>1. signals' \in Seq(Signal)
        BY <1>0, <1>12, QueueTyped DEF DirectOpens, Emit, Signal
    <2>. QED BY <1>0, <1>12, <1>a, <2>1
            DEF DirectOpens, IInv, RegisteredLives, Early, Started, Reachable, TypeOK, window
<1>13. ASSUME NEW a \in Attempt, DirectCloses(a) PROVE IInv'
    <2>1. /\ direct' = [direct EXCEPT ![a] = FALSE] /\ direct[a]
          /\ UNCHANGED <<stage, path, channel, worker, connecting, online, row, clicks>>
        BY <1>13 DEF DirectCloses, window
    <2>2. CASE channel[a] = "alive"
        <3>1. signals' \in Seq(Signal) /\ UNCHANGED <<ended, session, link>>
            BY <1>0, <1>13, <2>2, QueueTyped DEF DirectCloses, DirectDetached, Emit, Signal
        <3>. QED BY <1>0, <1>a, <2>1, <2>2, <3>1
                DEF IInv, RegisteredLives, Early, Started, Reachable, TypeOK
    <2>3. CASE channel[a] # "alive"
        <3>1. /\ session' \in {session, None} /\ session' # a /\ link' \in {link, None}
              /\ ended' \in [Attempt -> {"no", "reported", "closed"}]
              /\ \A b \in Attempt : b # a => ended'[b] = ended[b]
              /\ session' # None => ended' = ended
              /\ signals' \in Seq(Signal)
            BY <1>13, <2>3, DisconnectedLeaves DEF DirectCloses, DirectDetached
        <3>2. TypeOK'
            <4>1. direct' \in [Attempt -> BOOLEAN]
                BY <1>0, <2>1 DEF TypeOK
            <4>. QED BY ONLY <1>0, <2>1, <3>1, <4>1 DEF TypeOK
        <3>3. Early'
            BY <1>0, <2>1, <3>1 DEF IInv, Early, TypeOK
        <3>. QED BY <1>0, <1>a, <2>1, <3>1, <3>2, <3>3
                DEF IInv, RegisteredLives, Started, Reachable, TypeOK
    <2>. QED BY <2>2, <2>3
<1>14. ASSUME NEW a \in Attempt, Receives(a) PROVE IInv'
    <2>1. signals' \in Seq(Signal)
        BY <1>0, <1>14, QueueTyped DEF Receives, Emit, Signal
    <2>2. TypeOK'
        BY <1>0, <1>14, <2>1 DEF Receives, TypeOK, service, window
    <2>. QED BY <1>14, <2>2
            DEF Receives, IInv, RegisteredLives, Early, Started, Reachable, service, window
<1>15. CASE UNCHANGED vars
    BY <1>15
       DEF vars, service, window, IInv, RegisteredLives, Early, Started, Reachable, TypeOK
<1>. QED BY <1>1, <1>2, <1>3, <1>4, <1>5, <1>6, <1>7, <1>8, <1>9, <1>10, <1>11, <1>12,
            <1>13, <1>14, <1>15 DEF Next

\* Of relay and direct channel the one that dies last takes the session out of
\* _sessions, also while the prime is being sent (_recv_loop, _detach_direct,
\* _disconnect_once, _handle_disconnect).
THEOREM RegisteredSessionLives == Spec => []RegisteredLives
<1>1. IInv => RegisteredLives
    BY DEF IInv
<1>. QED BY <1>1, InitHolds, StepKeeps, PTL DEF Spec
=============================================================================
