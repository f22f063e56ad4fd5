-------------------------- MODULE ConnectionProofs ---------------------------
(* Proofs about Connection: its types, the survival of heartbeat loops and the *)
(* meaning of wait() for a program that connects once.                         *)
EXTENDS Connection, TLAPS

(* Events are told apart by their kind and number. *)
LEMMA EventsDiffer ==
  /\ \A s, r : Greeting(s) = Greeting(r) => s = r
  /\ \A s, n : Greeting(s) # Error(n)
BY DEF Greeting, Error

-----------------------------------------------------------------------------
LEMMA InitTypeOK == Init => TypeOK
<1> SUFFICES ASSUME Init PROVE TypeOK
  OBVIOUS
<1>1. FlagsOK
  BY Zenon DEF Init, FlagsOK
<1>2. CountersOK
  BY ConnectionAssumption DEF Init, CountersOK
<1>3. PlacesOK /\ ~InConnect
  BY DEF Init, PlacesOK, SocketStates, InConnect
<1> QED
  BY <1>1, <1>2, <1>3 DEF TypeOK

LEMMA FlagsPreserved == FlagsOK /\ [Next]_vars => FlagsOK'
<1> SUFFICES ASSUME FlagsOK, [Next]_vars PROVE FlagsOK'
  OBVIOUS
<1> USE DEF FlagsOK
<1>1. CASE ConnectBegin
  BY <1>1, Zenon DEF ConnectBegin, socketVars, sessionVars
<1>2. CASE Listen \/ Leave \/ WaitReturns \/ DialFails \/ Confirmed \/ ConfirmTimeout
           \/ CheckHandshake \/ AssertInfo \/ ReturnInfo
  <2>1. UNCHANGED <<socketVars, flagVars, quitting>>
    BY <1>2, Zenon DEF Listen, Leave, WaitReturns, DialFails, Confirmed, ConfirmTimeout,
       CheckHandshake, AssertInfo, ReturnInfo
  <2> QED
    BY <2>1, Zenon DEF socketVars, sessionVars, flagVars
<1>3. CASE Shut \/ HandlerShuts
  <2>1. UNCHANGED <<byMain, greeted, connected, refused>>
    BY <1>3, Zenon DEF Shut, HandlerShuts, Shutdown, sessionVars
  <2>2. quitting' = TRUE \/ quitting' = quitting
    BY <1>3, Zenon DEF Shut, HandlerShuts
  <2>3. (retry' = FALSE \/ retry' = retry) /\ (stopped' = TRUE \/ stopped' = stopped)
    BY <1>3, SMT DEF Shut, HandlerShuts, Shutdown
  <2> QED
    BY <2>1, <2>2, <2>3, Zenon
<1>4. CASE Disconnect \/ HandlerDisconnects
  BY <1>4, Zenon DEF HandlerDisconnects, Disconnect, Forget, socketVars, sessionVars
<1>5. CASE Dial \/ Retry
  BY <1>5, Zenon DEF Dial, Retry, Link, flagVars
<1>6. CASE DialDone \/ DialLost \/ LinkDown \/ LinkLost \/ RetryEnds \/ Abandoned
  <2>1. UNCHANGED <<byMain, greeted, quitting, connected, stopped, refused>>
    BY <1>6, Zenon DEF DialDone, DialLost, LinkDown, LinkLost, RetryEnds, Abandoned,
       sessionVars, flagVars
  <2>2. retry' \in BOOLEAN
    BY <1>6, ConnectionAssumption, Zenon
    DEF DialDone, DialLost, LinkDown, LinkLost, RetryEnds, Abandoned
  <2> QED
    BY <2>1, <2>2, Zenon
<1>7. CASE Abandon
  BY <1>7, Zenon DEF Abandon, sessionVars
<1>8. ASSUME NEW s \in Sessions, OnConnected(s) PROVE FlagsOK'
  BY <1>8, Zenon DEF OnConnected
<1>9. ASSUME NEW n \in 1..MaxErrors, OnError(n) PROVE FlagsOK'
  BY <1>9, Zenon DEF OnError
<1>10. CASE OnDisconnect \/ Kicked
  BY <1>10, Zenon DEF OnDisconnect, Kicked, sessionVars
<1>11. CASE OnDisconnectFinal
  BY <1>11, Zenon DEF OnDisconnectFinal, Final, sessionVars
<1>12. CASE GatewayGreets \/ GatewayErrs
  BY <1>12, Zenon DEF GatewayGreets, GatewayErrs, flagVars
<1>13. ASSUME NEW s \in Sessions, Heartbeat(s) PROVE FlagsOK'
  <2>1. UNCHANGED <<socketVars, flagVars, quitting>>
    BY <1>13 DEF Heartbeat, HeartbeatTop, HeartbeatSleeps, HeartbeatCheck, HeartbeatCall, Beat
  <2> QED
    BY <2>1, Zenon DEF socketVars, sessionVars, flagVars
<1>14. CASE UNCHANGED vars
  BY <1>14, Zenon DEF vars, socketVars, sessionVars, flagVars
<1> QED
  BY <1>1, <1>2, <1>3, <1>4, <1>5, <1>6, <1>7, <1>8, <1>9, <1>10, <1>11, <1>12, <1>13, <1>14
  DEF Next, MainProgress, Handlers, Library

LEMMA CountersPreserved == CountersOK /\ LoopsHaveSessions /\ [Next]_vars => CountersOK'
<1> SUFFICES ASSUME CountersOK, LoopsHaveSessions, [Next]_vars PROVE CountersOK'
  OBVIOUS
<1> USE ConnectionAssumption DEF CountersOK, Sessions
<1>1. CASE ConnectBegin
  BY <1>1 DEF ConnectBegin, socketVars, sessionVars
<1>2. CASE Dial \/ Retry
  BY <1>2 DEF Dial, Retry, Link, Goto, flagVars, mainVars
<1>3. CASE Shut \/ HandlerShuts \/ Disconnect \/ HandlerDisconnects \/ Abandon
  <2>1. UNCHANGED <<sessionVars, connects>> /\ info' \in {0, info}
    BY <1>3 DEF Shut, HandlerShuts, Shutdown, Disconnect, HandlerDisconnects, Forget, Abandon,
       Goto, socketVars, mainVars
  <2> QED
    BY <2>1 DEF sessionVars
<1>4. ASSUME NEW s \in Sessions, OnConnected(s) PROVE CountersOK'
  BY <1>4 DEF OnConnected, mainVars
<1>5. ASSUME NEW n \in 1..MaxErrors, OnError(n) PROVE CountersOK'
  BY <1>5 DEF OnError, mainVars
<1>6. CASE OnDisconnect \/ Kicked
  BY <1>6 DEF OnDisconnect, Kicked, sessionVars, mainVars
<1>7. CASE GatewayGreets
  <2>1. session \in Sessions
    BY <1>7 DEF GatewayGreets, LoopsHaveSessions
  <2> QED
    BY <1>7, <2>1 DEF GatewayGreets, flagVars, mainVars
<1>8. CASE GatewayErrs
  BY <1>8 DEF GatewayErrs, flagVars, mainVars
<1>9. CASE UNCHANGED <<sessionVars, info, connects>>
  BY <1>9 DEF sessionVars
<1> QED
  BY <1>1, <1>2, <1>3, <1>4, <1>5, <1>6, <1>7, <1>8, <1>9
  DEF Next, MainProgress, Handlers, Library, vars, socketVars, flagVars, mainVars,
      Listen, Leave, WaitReturns, DialFails, DialDone, DialLost, Confirmed, ConfirmTimeout,
      Abandoned, CheckHandshake, AssertInfo, ReturnInfo, Goto, Raise, OnDisconnectFinal,
      LinkDown, LinkLost, RetryEnds,
      Heartbeat, HeartbeatTop, HeartbeatSleeps, HeartbeatCheck, HeartbeatCall, Beat

LEMMA PlacesPreserved == PlacesOK /\ [Next]_vars => PlacesOK'
<1> SUFFICES ASSUME PlacesOK, [Next]_vars PROVE PlacesOK'
  OBVIOUS
<1> USE DEF PlacesOK, SocketStates
<1>1. CASE ConnectBegin \/ Listen \/ Leave \/ WaitReturns \/ DialFails \/ Confirmed
           \/ ConfirmTimeout
  BY <1>1 DEF ConnectBegin, Listen, Leave, WaitReturns, DialFails, Confirmed, ConfirmTimeout,
     Goto, Raise, socketVars
<1>2. CASE Dial \/ Retry
  BY <1>2 DEF Dial, Retry, Link, Goto, mainVars
<1>3. CASE DialDone \/ DialLost \/ LinkDown \/ LinkLost \/ RetryEnds
  BY <1>3 DEF DialDone, DialLost, LinkDown, LinkLost, RetryEnds, Goto, Raise, mainVars
<1>4. CASE Shut \/ HandlerShuts
  BY <1>4 DEF Shut, HandlerShuts, Shutdown, Goto, mainVars
<1>5. CASE Disconnect \/ HandlerDisconnects
  BY <1>5 DEF Disconnect, HandlerDisconnects, Forget, Goto, socketVars, mainVars
<1>6. CASE Abandon \/ Abandoned
  BY <1>6 DEF Abandon, Abandoned, Goto, Raise
<1>7. CASE CheckHandshake \/ AssertInfo \/ ReturnInfo
  BY <1>7 DEF CheckHandshake, AssertInfo, ReturnInfo, Goto, Raise, socketVars
<1>8. CASE OnDisconnect \/ Kicked \/ OnDisconnectFinal
  BY <1>8 DEF OnDisconnect, Kicked, OnDisconnectFinal, Final, mainVars
<1>9. ASSUME NEW s \in Sessions, OnConnected(s) PROVE PlacesOK'
  BY <1>9 DEF OnConnected, mainVars
<1>10. ASSUME NEW n \in 1..MaxErrors, OnError(n) PROVE PlacesOK'
  BY <1>10 DEF OnError, mainVars
<1>11. ASSUME NEW s \in Sessions, Heartbeat(s) PROVE PlacesOK'
  BY <1>11 DEF Heartbeat, HeartbeatTop, HeartbeatSleeps, HeartbeatCheck, HeartbeatCall, Beat,
     socketVars, mainVars
<1>12. CASE UNCHANGED <<sio, mainVars, hb>>
  BY <1>12 DEF mainVars
<1> QED
  BY <1>1, <1>2, <1>3, <1>4, <1>5, <1>6, <1>7, <1>8, <1>9, <1>10, <1>11, <1>12
  DEF Next, MainProgress, Handlers, Library, vars, socketVars, GatewayGreets, GatewayErrs

(* A step that gives connect() a result leaves it. *)
LEMMA NoResultPreserved ==
  (InConnect => result = "none") /\ [Next]_vars => (InConnect => result = "none")'
<1> SUFFICES ASSUME InConnect => result = "none", [Next]_vars
             PROVE  (InConnect => result = "none")'
  OBVIOUS
<1> USE DEF InConnect
<1>1. CASE ConnectBegin \/ Listen \/ Leave
  BY <1>1 DEF ConnectBegin, Listen, Leave
<1>2. CASE MainProgress
  BY <1>2 DEF MainProgress, Dial, DialFails, DialDone, DialLost, Confirmed, ConfirmTimeout,
     Abandon, Abandoned, CheckHandshake, AssertInfo, ReturnInfo, WaitReturns, Shut, Disconnect,
     Goto, Raise
<1>3. CASE UNCHANGED mainVars
  BY <1>3 DEF mainVars
<1> QED
  BY <1>1, <1>2, <1>3
  DEF Next, Handlers, Library, vars, OnConnected, OnError, HandlerShuts, HandlerDisconnects,
      OnDisconnect, Kicked, OnDisconnectFinal, LinkDown, LinkLost, Retry, RetryEnds,
      GatewayGreets, GatewayErrs,
      Heartbeat, HeartbeatTop, HeartbeatSleeps, HeartbeatCheck, HeartbeatCall, Beat

(* What a step does to the socket, the session and its loop: it opens a new one, sets or *)
(* clears sio.connected, has a handler or a loop run, or none of these.                  *)
LEMMA SocketSteps ==
  ASSUME [Next]_vars
  PROVE  \/ Dial \/ Retry
         \/ sio = "linked" /\ sio' = "up" /\ UNCHANGED <<session, flying, hb>>
         \/ sio' \notin {"linked", "up"} /\ UNCHANGED <<session, flying, hb>>
         \/ \E s \in Sessions : OnConnected(s)
         \/ \E n \in 1..MaxErrors : OnError(n)
         \/ GatewayGreets \/ GatewayErrs
         \/ \E s \in Sessions : Heartbeat(s)
         \/ UNCHANGED <<sio, session, flying, hb>>
<1>1. CASE DialDone \/ RetryEnds
  BY <1>1 DEF DialDone, RetryEnds, sessionVars
<1>2. CASE DialLost \/ LinkDown \/ LinkLost \/ Abandon \/ Abandoned \/ OnDisconnect \/ Kicked
  BY <1>2 DEF DialLost, LinkDown, LinkLost, Abandon, Abandoned, OnDisconnect, Kicked, sessionVars
<1>3. CASE OnDisconnectFinal
  BY <1>3 DEF OnDisconnectFinal, Final, sessionVars
<1>4. CASE Shut \/ HandlerShuts
  BY <1>4 DEF Shut, HandlerShuts, Shutdown, sessionVars
<1> QED
  BY <1>1, <1>2, <1>3, <1>4
  DEF Next, MainProgress, Handlers, Library, vars, socketVars, sessionVars, ConnectBegin,
      Listen, Leave, WaitReturns, DialFails, Confirmed, ConfirmTimeout, CheckHandshake,
      AssertInfo, ReturnInfo, Disconnect, HandlerDisconnects, Forget

LEMMA SessionsPreserved ==
  CountersOK /\ PlacesOK /\ LoopsHaveSessions /\ [Next]_vars => LoopsHaveSessions'
<1> SUFFICES ASSUME CountersOK, PlacesOK, LoopsHaveSessions, [Next]_vars
             PROVE LoopsHaveSessions'
  OBVIOUS
<1> USE ConnectionAssumption DEF LoopsHaveSessions, CountersOK, PlacesOK, Sessions
<1>1. CASE Dial \/ Retry
  <2>1. session' = session + 1 /\ session < MaxSessions /\ flying' = {} /\ hb' = hb
    BY <1>1 DEF Dial, Retry, Link
  <2> QED
    BY <2>1
<1>2. CASE sio = "linked" /\ sio' = "up" /\ UNCHANGED <<session, flying, hb>>
  BY <1>2
<1>3. CASE sio' \notin {"linked", "up"} /\ UNCHANGED <<session, flying, hb>>
  BY <1>3
<1>4. ASSUME NEW s \in Sessions, OnConnected(s) PROVE LoopsHaveSessions'
  <2>1. s <= session
    BY <1>4 DEF OnConnected
  <2> QED
    BY <1>4, <2>1 DEF OnConnected
<1>5. ASSUME NEW n \in 1..MaxErrors, OnError(n) PROVE LoopsHaveSessions'
  BY <1>5 DEF OnError
<1>6. CASE GatewayGreets
  BY <1>6, EventsDiffer DEF GatewayGreets
<1>7. CASE GatewayErrs
  BY <1>7, EventsDiffer DEF GatewayErrs
<1>8. ASSUME NEW s \in Sessions, Heartbeat(s) PROVE LoopsHaveSessions'
  <2>1. s <= session /\ UNCHANGED socketVars /\ \A r \in Sessions : r # s => hb'[r] = hb[r]
    BY <1>8 DEF Heartbeat, HeartbeatTop, HeartbeatSleeps, HeartbeatCheck, HeartbeatCall, Beat
  <2> QED
    BY <2>1 DEF socketVars, sessionVars
<1>9. CASE UNCHANGED <<sio, session, flying, hb>>
  BY <1>9
<1> QED
  BY <1>1, <1>2, <1>3, <1>4, <1>5, <1>6, <1>7, <1>8, <1>9, SocketSteps

(* Types and the numbering of sessions are inductive together. *)
LEMMA TypesHold == Spec => [](TypeOK /\ LoopsHaveSessions)
<1>1. Init => TypeOK /\ LoopsHaveSessions
  BY InitTypeOK DEF Init, LoopsHaveSessions
<1>2. TypeOK /\ LoopsHaveSessions /\ [Next]_vars => (TypeOK /\ LoopsHaveSessions)'
  BY FlagsPreserved, CountersPreserved, PlacesPreserved, NoResultPreserved, SessionsPreserved
  DEF TypeOK
<1> QED
  BY <1>1, <1>2, PTL DEF Spec

(* Every variable keeps its type, and connect() has no result before it ends, whatever the *)
(* gateway and the network do.                                                             *)
THEOREM ConnectionTypeCorrect == Spec => []TypeOK
BY TypesHold, PTL

-----------------------------------------------------------------------------
(* The heartbeat loop of the session that is up.                           *)
LEMMA LoopPreserved ==
  TypeOK /\ LoopsHaveSessions /\ LoopOutlastsDrops /\ [Next]_vars => LoopOutlastsDrops'
<1> SUFFICES ASSUME CountersOK, PlacesOK, LoopsHaveSessions, LoopOutlastsDrops, [Next]_vars
             PROVE LoopOutlastsDrops'
  BY DEF TypeOK
<1> USE ConnectionAssumption DEF LoopOutlastsDrops, CountersOK, PlacesOK, Sessions
\* A new session has no loop yet.
<1>1. CASE Dial \/ Retry
  <2>1. session' = session + 1 /\ session' \in Sessions /\ sio' = "linked" /\ hb' = hb
    BY <1>1 DEF Dial, Retry, Link
  <2>2. hb[session + 1] = "none"
    BY <2>1 DEF LoopsHaveSessions
  <2> QED
    BY <2>1, <2>2
\* Once the socket is up its loop may pass its test.
<1>2. CASE sio = "linked" /\ sio' = "up" /\ UNCHANGED <<session, flying, hb>>
  BY <1>2
<1>3. CASE sio' \notin {"linked", "up"} /\ UNCHANGED <<session, flying, hb>>
  BY <1>3
<1>4. ASSUME NEW s \in Sessions, OnConnected(s) PROVE LoopOutlastsDrops'
  BY <1>4 DEF OnConnected, LoopsHaveSessions
<1>5. ASSUME NEW s \in Sessions, Heartbeat(s) PROVE LoopOutlastsDrops'
  <2>0. UNCHANGED <<sio, session>>
    BY <1>5 DEF Heartbeat, HeartbeatTop, HeartbeatSleeps, HeartbeatCheck, HeartbeatCall, Beat,
       socketVars, sessionVars
  <2>1. CASE s # session
    <3>1. hb'[session] = hb[session] \/ session \notin Sessions
      BY <1>5, <2>1 DEF Heartbeat, HeartbeatTop, HeartbeatSleeps, HeartbeatCheck,
         HeartbeatCall, Beat
    <3> QED
      BY <2>0, <3>1 DEF LoopsHaveSessions
  <2>2. CASE s = session /\ sio = "linked"
    BY <1>5, <2>0, <2>2 DEF Heartbeat, HeartbeatTop, HeartbeatSleeps, HeartbeatCheck,
       HeartbeatCall, Beat, IsConnected, Closing
  <2>3. CASE s = session /\ sio = "up"
    BY <1>5, <2>0, <2>3 DEF Heartbeat, HeartbeatTop, HeartbeatSleeps, HeartbeatCheck,
       HeartbeatCall, Beat, IsConnected
  <2> QED
    BY <2>0, <2>1, <2>2, <2>3
<1>6. ASSUME NEW n \in 1..MaxErrors, OnError(n) PROVE LoopOutlastsDrops'
  BY <1>6 DEF OnError
<1>7. CASE GatewayGreets \/ GatewayErrs \/ UNCHANGED <<sio, session, flying, hb>>
  BY <1>7 DEF GatewayGreets, GatewayErrs
<1> QED
  BY <1>1, <1>2, <1>3, <1>4, <1>5, <1>6, <1>7, SocketSteps

(* While its socket is up, the loop of a session that got past its first test is ended by *)
(* nothing but an acknowledgement that is not a robot: no timeout, no rejection and no    *)
(* event of an earlier socket ends it.                                                    *)
THEOREM SessionsKeepTheirHeartbeat == Spec => []HeartbeatWhileUp
<1>1. Init => LoopOutlastsDrops
  BY DEF Init, LoopOutlastsDrops
<1>2. LoopOutlastsDrops => HeartbeatWhileUp
  BY DEF LoopOutlastsDrops, HeartbeatWhileUp
<1> QED
  BY <1>1, <1>2, TypesHold, LoopPreserved, PTL DEF Spec

-----------------------------------------------------------------------------
(* wait(), until a second connect().  The proof is shared with             *)
(* ConnectionRefinement, and StoppedForGood is the invariant of both.      *)
LEMMA StoppedPreserved ==
  ASSUME TypeOK, StoppedForGood, [Next]_vars
  PROVE  StoppedForGood'
<1> USE DEF StoppedForGood, InConnect
<1>0. connects \in Nat
  BY DEF TypeOK, CountersOK
<1>1. CASE ConnectBegin
  BY <1>0, <1>1 DEF ConnectBegin, socketVars, sessionVars
<1>2. CASE Dial \/ Retry
  BY <1>2 DEF Dial, Retry, Link, Goto, flagVars, mainVars
<1>3. CASE DialFails \/ Listen \/ Leave \/ Confirmed \/ ConfirmTimeout \/ WaitReturns
           \/ CheckHandshake \/ AssertInfo \/ ReturnInfo
  BY <1>3 DEF DialFails, Listen, Leave, Confirmed, ConfirmTimeout, WaitReturns, CheckHandshake,
     AssertInfo, ReturnInfo, Goto, Raise, socketVars, sessionVars, flagVars
<1>4. CASE DialDone \/ DialLost
  <2>1. CASE DialDone
    BY <2>1 DEF DialDone, Goto, sessionVars, flagVars
  <2>2. CASE DialLost
    BY <2>2 DEF DialLost, Raise, sessionVars, flagVars
  <2> QED
    BY <1>4, <2>1, <2>2
<1>5. CASE Abandon \/ Abandoned
  BY <1>5 DEF Abandon, Abandoned, Goto, Raise, sessionVars, flagVars, Closing
<1>6. CASE Shut \/ HandlerShuts
  <2>1. CASE sio = "up"
    BY <1>6, <2>1 DEF Shut, HandlerShuts, Shutdown, Goto, sessionVars, mainVars
  <2>2. CASE sio # "up" /\ retry
    BY <1>6, <2>2 DEF Shut, HandlerShuts, Shutdown, Goto, sessionVars, mainVars
  <2>3. CASE sio # "up" /\ ~retry
    <3>1. sio \notin Closing /\ UNCHANGED <<sio, retry, stopped, byMain, connects>>
      BY <1>6, <2>3 DEF Shut, HandlerShuts, Shutdown, Goto, sessionVars, mainVars
    <3>2. CASE Shut
      BY <2>3, <3>1, <3>2, <1>0 DEF Shut, Goto, Closing, TypeOK, PlacesOK, SocketStates
    <3>3. CASE HandlerShuts
      BY <2>3, <3>1, <3>3, <1>0
      DEF HandlerShuts, mainVars, Closing, TypeOK, PlacesOK, SocketStates
    <3> QED
      BY <1>6, <3>2, <3>3
  <2> QED
    BY <2>1, <2>2, <2>3
<1>7. CASE Disconnect \/ HandlerDisconnects
  <2>1. sio \notin Closing /\ stopped' = TRUE /\ UNCHANGED <<sio, retry, byMain, connects>>
    BY <1>7 DEF Disconnect, HandlerDisconnects, Forget, Goto, socketVars, sessionVars, mainVars
  <2>2. CASE Disconnect
    BY <2>1, <2>2, <1>0 DEF Disconnect, Goto, Closing, PlacesOK, SocketStates, TypeOK
  <2>3. CASE HandlerDisconnects
    BY <2>1, <2>3, <1>0 DEF HandlerDisconnects, mainVars, Closing, PlacesOK, SocketStates, TypeOK
  <2> QED
    BY <1>7, <2>2, <2>3
<1>8. CASE LinkDown \/ LinkLost \/ RetryEnds
  <2>1. CASE LinkDown
    BY <2>1 DEF LinkDown, sessionVars, flagVars, mainVars
  <2>2. CASE LinkLost
    BY <2>2 DEF LinkLost, sessionVars, flagVars, mainVars
  <2>3. CASE RetryEnds
    <3>1. retry = TRUE /\ connects' = connects /\ UNCHANGED <<byMain, stopped, main, quitting>>
      BY <2>3 DEF RetryEnds, sessionVars, flagVars, mainVars, TypeOK, FlagsOK
    <3>2. CASE sio' = "up" /\ retry' = FALSE
      BY <2>3, <3>1, <3>2 DEF RetryEnds
    <3>3. CASE sio' = "closed" /\ retry' = TRUE
      BY <2>3, <3>1, <3>3 DEF RetryEnds
    <3> QED
      BY <2>3, <3>1, <3>2, <3>3 DEF RetryEnds
  <2> QED
    BY <1>8, <2>1, <2>2, <2>3
<1>9. CASE OnDisconnect \/ Kicked
  BY <1>9 DEF OnDisconnect, Kicked, sessionVars, mainVars
<1>10. CASE OnDisconnectFinal
  BY <1>10 DEF OnDisconnectFinal, Final, sessionVars, mainVars
<1>11. CASE UNCHANGED <<sio, retry, byMain, stopped, main, connects, quitting>>
  BY <1>11
<1> QED
  BY <1>1, <1>2, <1>3, <1>4, <1>5, <1>6, <1>7, <1>8, <1>9, <1>10, <1>11
  DEF Next, MainProgress, Handlers, Library, vars, socketVars, sessionVars, flagVars, mainVars,
      OnConnected, OnError, GatewayGreets, GatewayErrs,
      Heartbeat, HeartbeatTop, HeartbeatSleeps, HeartbeatCheck, HeartbeatCall, Beat

LEMMA StopsForGood == Spec => []StoppedForGood
<1>1. Init => StoppedForGood
  BY DEF Init, StoppedForGood
<1>2. TypeOK /\ StoppedForGood /\ [Next]_vars => StoppedForGood'
  BY StoppedPreserved
<1> QED
  BY <1>1, <1>2, ConnectionTypeCorrect, PTL DEF Spec

(* In the first connection of a program, wait() returns by itself only when it is *)
(* closed for good, and never for a drop that is being retried.                   *)
THEOREM WaitMeansClosedForGood == Spec => []WaitMeansClosed
<1>1. StoppedForGood => WaitMeansClosed
  BY DEF StoppedForGood, WaitMeansClosed
<1> QED
  BY <1>1, StopsForGood, PTL

-----------------------------------------------------------------------------
(* The answer to the handshake, until a second connect().                  *)
LEMMA AnswerPreserved ==
  ASSUME TypeOK, AnswerIsHeard, [Next]_vars
  PROVE  AnswerIsHeard'
<1> USE DEF AnswerIsHeard
<1>0. connects \in Nat
  BY DEF TypeOK, CountersOK
<1>1. CASE ConnectBegin
  BY <1>0, <1>1 DEF ConnectBegin, socketVars, sessionVars
<1>2. CASE Dial \/ Retry
  BY <1>2 DEF Dial, Retry, Link, Goto, flagVars, mainVars
<1>3. CASE DialFails \/ Listen \/ Leave \/ Confirmed \/ ConfirmTimeout \/ WaitReturns
           \/ CheckHandshake \/ AssertInfo \/ ReturnInfo
  BY <1>3 DEF DialFails, Listen, Leave, Confirmed, ConfirmTimeout, WaitReturns, CheckHandshake,
     AssertInfo, ReturnInfo, Goto, Raise, socketVars, sessionVars, flagVars
<1>4. CASE DialDone \/ DialLost \/ LinkDown \/ LinkLost \/ RetryEnds
  BY <1>4 DEF DialDone, DialLost, LinkDown, LinkLost, RetryEnds, Goto, Raise, sessionVars,
     flagVars, mainVars
<1>5. CASE Abandon \/ Abandoned
  BY <1>5 DEF Abandon, Abandoned, Goto, Raise, sessionVars, flagVars
<1>6. CASE Shut \/ Disconnect
  BY <1>6 DEF Shut, Disconnect, Shutdown, Forget, Goto, socketVars, sessionVars
<1>7. CASE HandlerShuts \/ HandlerDisconnects
  BY <1>7 DEF HandlerShuts, HandlerDisconnects, Shutdown, Forget, socketVars, sessionVars, mainVars
<1>8. CASE OnDisconnect \/ Kicked \/ OnDisconnectFinal
  BY <1>8 DEF OnDisconnect, Kicked, OnDisconnectFinal, Final, sessionVars, mainVars
<1>9. ASSUME NEW s \in Sessions, OnConnected(s) PROVE AnswerIsHeard'
  BY <1>9 DEF OnConnected, mainVars
\* An error either wakes connect(), or meets a session, which has woken it.
<1>10. ASSUME NEW n \in 1..MaxErrors, OnError(n) PROVE AnswerIsHeard'
  BY <1>10 DEF OnError, mainVars
<1>11. CASE GatewayGreets \/ GatewayErrs
  BY <1>11 DEF GatewayGreets, GatewayErrs, flagVars, mainVars
<1>12. CASE UNCHANGED <<socketVars, flagVars, mainVars>>
  BY <1>12 DEF socketVars, sessionVars, flagVars, mainVars
<1> QED
  BY <1>1, <1>2, <1>3, <1>4, <1>5, <1>6, <1>7, <1>8, <1>9, <1>10, <1>11, <1>12
  DEF Next, MainProgress, Handlers, Library, vars, Heartbeat, HeartbeatTop, HeartbeatSleeps,
      HeartbeatCheck, HeartbeatCall, Beat

(* The first connect() of a program gives up for want of `connected` only while no answer *)
(* has come or one waits for its handler: a refusal is never taken for silence.           *)
THEOREM RefusalsAreHeard == Spec => RefusalIsHeard
<1>1. Init => AnswerIsHeard
  BY DEF Init, AnswerIsHeard
<1>2. TypeOK /\ AnswerIsHeard /\ [Next]_vars => AnswerIsHeard'
  BY AnswerPreserved
<1>3. ASSUME AnswerIsHeard, [Next]_vars
      PROVE  [main = "waiting" /\ main' = "unconfirmed" /\ connects =< 1
              => ~greeted \/ flying # {}]_vars
  <2>1. SUFFICES ASSUME main = "waiting", connects =< 1, main' = "unconfirmed"
                 PROVE  ~greeted \/ flying # {}
    OBVIOUS
  <2>2. ConfirmTimeout
    <3>1. CASE MainProgress
      BY <2>1, <3>1 DEF MainProgress, Dial, DialFails, DialDone, DialLost, Confirmed, Abandon,
         Abandoned, CheckHandshake, AssertInfo, ReturnInfo, WaitReturns, Shut, Disconnect,
         Goto, Raise
    <3>2. CASE ~MainProgress
      BY <1>3, <2>1, <3>2
      DEF Next, Handlers, Library, vars, mainVars, ConnectBegin, Listen, Leave, OnConnected,
          OnError, HandlerShuts, HandlerDisconnects, OnDisconnect, Kicked, OnDisconnectFinal,
          LinkDown, LinkLost, Retry, RetryEnds, GatewayGreets, GatewayErrs,
          Heartbeat, HeartbeatTop, HeartbeatSleeps, HeartbeatCheck, HeartbeatCall, Beat
    <3> QED
      BY <3>1, <3>2
  <2> QED
    BY <1>3, <2>1, <2>2 DEF ConfirmTimeout, AnswerIsHeard
<1> QED
  BY <1>1, <1>2, <1>3, ConnectionTypeCorrect, PTL DEF Spec, RefusalIsHeard
=============================================================================
