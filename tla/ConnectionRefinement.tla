------------------------ MODULE ConnectionRefinement ------------------------
(* Connection implements the safety part of ConnectionContract.  What relates *)
(* _stopped_event, the socket and the retry task in the first connection is   *)
(* the invariant StoppedForGood of ConnectionProofs.                          *)
EXTENDS ConnectionProofs

LEMMA SocketCases == PlacesOK => (IsConnected <=> sio \notin {"closed", "linked"})
BY DEF PlacesOK, SocketStates, IsConnected, Closing

(* The steps of connect(). *)
LEMMA ConnectRefines ==
  ASSUME TypeOK, StoppedForGood,
         \/ ConnectBegin \/ Dial \/ DialFails \/ DialDone \/ DialLost \/ Confirmed
         \/ ConfirmTimeout \/ Abandon \/ Abandoned \/ CheckHandshake \/ AssertInfo \/ ReturnInfo
  PROVE  [Contract!Next]_(Contract!vars)
<1> USE DEF Phase, InConnect, Used, Contract!Goto
<1>1. CASE ConnectBegin
  <2>1. Contract!Connect
    BY <1>1 DEF ConnectBegin, socketVars, sessionVars, LinkState, IsConnected, Contract!Connect,
       TypeOK, CountersOK
  <2> QED
    BY <2>1 DEF Contract!Next
<1>2. CASE Dial \/ Confirmed \/ ConfirmTimeout \/ Abandon \/ AssertInfo \/ CheckHandshake
  <2>1. \/ UNCHANGED Contract!vars
        \/ Contract!ConnectRaises
    BY <1>2 DEF Dial, Confirmed, ConfirmTimeout, Abandon, AssertInfo, CheckHandshake, Link,
       Goto, Raise, socketVars, sessionVars, flagVars, LinkState, IsConnected, Closing,
       Contract!vars, Contract!ConnectRaises
  <2> QED
    BY <2>1 DEF Contract!Next
<1>3. CASE DialDone
  <2>1. Contract!Open
    BY <1>3 DEF DialDone, Goto, flagVars, LinkState, IsConnected, Contract!Open
  <2> QED
    BY <2>1 DEF Contract!Next
<1>4. CASE DialFails \/ DialLost \/ Abandoned
  <2>1. Contract!ConnectRaises
    BY <1>4, SocketCases DEF DialFails, DialLost, Abandoned, Raise, socketVars, sessionVars,
       flagVars, LinkState, IsConnected, Closing, Contract!ConnectRaises, TypeOK, PlacesOK,
       SocketStates
  <2> QED
    BY <2>1 DEF Contract!Next
<1>5. CASE ReturnInfo
  <2>1. Contract!Confirm
    BY <1>5 DEF ReturnInfo, socketVars, sessionVars, flagVars, LinkState, IsConnected,
       Contract!Confirm
  <2> QED
    BY <2>1 DEF Contract!Next
<1> QED
  BY <1>1, <1>2, <1>3, <1>4, <1>5

(* The steps of listen() and disconnect(), and disconnect() in a handler. *)
LEMMA MainRefines ==
  ASSUME TypeOK, StoppedForGood,
         \/ Listen \/ Leave \/ WaitReturns \/ Shut \/ Disconnect
         \/ HandlerShuts \/ HandlerDisconnects
  PROVE  [Contract!Next]_(Contract!vars)
<1> USE DEF Phase, InConnect, Used, Contract!Goto, Contract!Stay
<1>0. connects \in Nat /\ (IsConnected <=> sio \notin {"closed", "linked"})
  BY SocketCases DEF TypeOK, CountersOK
<1>1. CASE Listen \/ Leave \/ WaitReturns
  <2>1. Contract!Listen \/ Contract!Leave \/ Contract!WaitReturns
    BY <1>1 DEF Listen, Leave, WaitReturns, Goto, socketVars, sessionVars, flagVars, LinkState,
       IsConnected, Contract!Listen, Contract!Leave, Contract!WaitReturns
  <2> QED
    BY <2>1 DEF Contract!Next
\* shutdown() closes a live socket later, a lost one at once.
<1>2. ASSUME Shutdown
      PROVE  IF LinkState = "lost"
             THEN LinkState' = "closed" /\ stopped' = TRUE
             ELSE UNCHANGED <<LinkState, stopped>>
  <2>1. CASE sio = "up"
    BY <1>2, <2>1 DEF Shutdown, LinkState, IsConnected, Closing
  <2>2. CASE sio # "up" /\ retry
    BY <1>2, <2>2 DEF Shutdown, LinkState, IsConnected, Closing
  <2>3. CASE sio # "up" /\ ~retry
    BY <1>2, <2>3 DEF Shutdown, LinkState, IsConnected, Closing
  <2> QED
    BY <2>1, <2>2, <2>3
<1>3. CASE Shut
  <2>1. Contract!Shut
    BY <1>2, <1>3 DEF Shut, Goto, Contract!Shut
  <2> QED
    BY <2>1 DEF Contract!Next
<1>4. CASE HandlerShuts
  <2>1. UNCHANGED Contract!vars \/ Contract!GivesUp
    BY <1>2, <1>4 DEF HandlerShuts, mainVars, Contract!vars, Contract!GivesUp
  <2> QED
    BY <2>1 DEF Contract!Next
\* By the time disconnect() returns, _stopped_event is set and nothing is retried.
<1>5. CASE Disconnect
  <2>1. stopped' = TRUE /\ UNCHANGED <<LinkState, Used>> /\ sio \notin Closing
    BY <1>5 DEF Disconnect, Forget, Goto, socketVars, sessionVars, LinkState, IsConnected, Closing
  <2>2. LinkState = "closed" \/ Used = "again"
    BY <1>0, <1>5, <2>1 DEF Disconnect, StoppedForGood, LinkState, Closing, TypeOK, PlacesOK,
       SocketStates
  <2>3. Contract!Disconnect
    BY <1>5, <2>1, <2>2 DEF Disconnect, Goto, Contract!Disconnect
  <2> QED
    BY <2>3 DEF Contract!Next
<1>6. CASE HandlerDisconnects
  <2>1. /\ stopped' = TRUE /\ UNCHANGED <<LinkState, Used, Phase>> /\ sio \notin Closing
    BY <1>6 DEF HandlerDisconnects, Forget, socketVars, sessionVars, mainVars, LinkState,
       IsConnected, Closing
  <2>2. stopped = TRUE \/ Used = "again"
    BY <1>0, <1>6, <2>1 DEF HandlerDisconnects, StoppedForGood, Closing, TypeOK, FlagsOK
  <2>3. UNCHANGED Contract!vars \/ Contract!Stops
    BY <2>1, <2>2 DEF Contract!vars, Contract!Stops
  <2> QED
    BY <2>3 DEF Contract!Next
<1> QED
  BY <1>1, <1>3, <1>4, <1>5, <1>6

(* The steps of the library and the gateway. *)
LEMMA LibraryRefines ==
  ASSUME TypeOK, StoppedForGood, Library \/ Kicked \/ GatewayGreets \/ GatewayErrs
  PROVE  [Contract!Next]_(Contract!vars)
<1> USE DEF Phase, InConnect, Used, Contract!Stay
<1>0. connects \in Nat /\ stopped \in BOOLEAN /\ retry \in BOOLEAN
  BY DEF TypeOK, CountersOK, FlagsOK
<1>1. CASE OnDisconnect \/ Kicked \/ GatewayGreets \/ GatewayErrs \/ Retry
  <2>1. UNCHANGED Contract!vars
    BY <1>1 DEF OnDisconnect, Kicked, GatewayGreets, GatewayErrs, Retry, Link, sessionVars,
       flagVars, mainVars, LinkState, IsConnected, Closing, Contract!vars
  <2> QED
    BY <2>1
\* A drop, or the end of a connection that has been announced.
<1>2. CASE LinkDown
  <2>1. UNCHANGED <<stopped, Phase, Used>> /\ LinkState = "up"
    BY <1>2 DEF LinkDown, flagVars, mainVars, LinkState, IsConnected, Closing
  <2>2. /\ sio = "dropping" => LinkState' = "lost"
        /\ sio = "ended" => LinkState' = IF retry THEN "lost" ELSE "closed"
    BY <1>0, <1>2 DEF LinkDown, LinkState, IsConnected, Closing
  <2>3. \/ Used = "again"
        \/ /\ sio = "ended" <=> stopped
           /\ sio = "ended" => ~retry
           /\ sio = "dropping" => main # "closing"
    BY <1>0, <1>2 DEF LinkDown, StoppedForGood
  <2>4. Contract!Lose \/ Contract!Sever
    BY <1>2, <2>1, <2>2, <2>3 DEF LinkDown, Contract!Lose, Contract!Sever
  <2> QED
    BY <2>4 DEF Contract!Next
\* Lost while it is being opened.
<1>3. CASE LinkLost
  <2>1. /\ UNCHANGED <<stopped, Phase, Used>> /\ LinkState \in {"closed", "lost"}
        /\ LinkState' \in {LinkState, "lost"}
    BY <1>3 DEF LinkLost, flagVars, mainVars, LinkState, IsConnected, Closing
  <2>2. Phase = "opening" /\ (stopped => Used = "again")
    BY <1>0, <1>3 DEF LinkLost, StoppedForGood
  <2> QED
    BY <2>1, <2>2 DEF Contract!vars, Contract!Next, Contract!Lose
<1>4. CASE RetryEnds
  <2>0. UNCHANGED <<stopped, Phase, Used>> /\ LinkState = "lost"
    BY <1>4 DEF RetryEnds, flagVars, mainVars, StoppedForGood, LinkState, IsConnected, Closing
  <2>1. retry = TRUE
    BY <1>0, <1>4 DEF RetryEnds, StoppedForGood
  <2>2. UNCHANGED Contract!vars \/ Contract!Regain
    BY <1>4, <2>0, <2>1 DEF RetryEnds, LinkState, IsConnected, Closing, Contract!vars,
       Contract!Regain
  <2> QED
    BY <2>2 DEF Contract!Next
<1>5. CASE OnDisconnectFinal
  <2>1. UNCHANGED <<Phase, Used>> /\ stopped' = TRUE
    BY <1>5 DEF OnDisconnectFinal, mainVars
  <2>2. CASE sio = "ending" /\ sio' = "ended" /\ UNCHANGED retry
    <3>1. Contract!Stops
      BY <2>1, <2>2 DEF LinkState, IsConnected, Closing, Contract!Stops
    <3> QED
      BY <3>1 DEF Contract!Next
  <2>3. CASE retry /\ ~(sio = "linked" /\ ~byMain) /\ retry' = FALSE /\ UNCHANGED sio
    <3>1. CASE IsConnected
      <4>1. Used = "again"
        BY <1>0, <2>3, <3>1 DEF StoppedForGood, IsConnected, Closing
      <4>2. Contract!Stops
        BY <2>1, <2>3, <3>1, <4>1 DEF LinkState, IsConnected, Contract!Stops
      <4> QED
        BY <4>2 DEF Contract!Next
    <3>2. CASE ~IsConnected
      <4>1. Contract!GivesUp
        BY <2>1, <2>3, <3>2 DEF LinkState, IsConnected, Contract!GivesUp
      <4> QED
        BY <4>1 DEF Contract!Next
    <3> QED
      BY <3>1, <3>2
  <2> QED
    BY <1>5, <2>2, <2>3 DEF OnDisconnectFinal, Final
<1> QED
  BY <1>1, <1>2, <1>3, <1>4, <1>5 DEF Library

(* Handlers of events and heartbeats are invisible to the program. *)
LEMMA OthersStutter ==
  ASSUME \/ \E s \in Sessions : OnConnected(s)
         \/ \E n \in 1..MaxErrors : OnError(n)
         \/ \E s \in Sessions : Heartbeat(s)
         \/ UNCHANGED vars
  PROVE  UNCHANGED Contract!vars
<1> USE DEF LinkState, Phase, InConnect, Used, IsConnected, Contract!vars
<1>1. ASSUME NEW s \in Sessions, OnConnected(s) PROVE UNCHANGED Contract!vars
  BY <1>1 DEF OnConnected, mainVars
<1>2. ASSUME NEW n \in 1..MaxErrors, OnError(n) PROVE UNCHANGED Contract!vars
  BY <1>2 DEF OnError, mainVars
<1>3. ASSUME NEW s \in Sessions, Heartbeat(s) PROVE UNCHANGED Contract!vars
  BY <1>3 DEF Heartbeat, HeartbeatTop, HeartbeatSleeps, HeartbeatCheck, HeartbeatCall, Beat,
     socketVars, flagVars, mainVars
<1>4. CASE UNCHANGED vars
  BY <1>4 DEF vars, socketVars, flagVars, mainVars
<1> QED
  BY <1>1, <1>2, <1>3, <1>4

(* connect(), wait(), disconnect(), the retries and every event handler together do *)
(* nothing the contract forbids: the safety part of ImplementsLifecycle.            *)
THEOREM ConnectionImplementsContract == Spec => Contract!SafeSpec
<1>1. Init => Contract!Init
  BY DEF Init, Contract!Init, LinkState, Phase, Used, IsConnected, InConnect, Closing
<1>2. TypeOK /\ StoppedForGood /\ [Next]_vars => [Contract!Next]_(Contract!vars)
  BY ConnectRefines, MainRefines, LibraryRefines, OthersStutter
  DEF Next, MainProgress, Handlers
<1> QED
  BY <1>1, <1>2, ConnectionTypeCorrect, StopsForGood, PTL DEF Spec, Contract!SafeSpec
=============================================================================
