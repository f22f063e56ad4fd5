----------------------------- MODULE Connection -----------------------------
(***************************************************************************)
(* The lifecycle of SocketConnection (connection.py): handshake, transient *)
(* drops and automatic reconnection, final disconnection, wait()/listen()  *)
(* and the heartbeat loops.  What call() does is the subject of Calls.tla. *)
(*                                                                         *)
(* The main thread runs connect(), listen() and disconnect(); python-      *)
(* socketio owns the socket and runs the handlers of the events it         *)
(* receives on threads of their own, so the events in flight (`flying`)    *)
(* are handled in any order, some after the socket they came through died. *)
(* Each run of _on_connected starts a heartbeat loop; loop s is the one of *)
(* the s-th session.                                                       *)
(***************************************************************************)
EXTENDS Naturals

CONSTANTS
  MaxSessions,    \* bound: times a socket reaches the gateway
  MaxConnects,    \* bound: times the program calls connect()
  MaxErrors,      \* bound: error events the gateway emits
  Reconnection    \* config.reconnection

ASSUME ConnectionAssumption ==
  /\ MaxSessions \in Nat \ {0} /\ MaxConnects \in Nat /\ MaxErrors \in Nat
  /\ Reconnection \in BOOLEAN

VARIABLES
  sio,            \* the socket, see SocketStates
  byMain,         \* the last socket was opened by connect(), not by the retry task
  retry,          \* the library's retry task is alive
  session,        \* number of the latest session, 0 before the first
  greeted,        \* the gateway has answered the handshake of this session
  sentErrors,     \* error events emitted so far
  flying,         \* events received whose handlers have not run yet
  info,           \* the session in _connection_info, 0 for None
  connected,      \* _connected_event
  stopped,        \* _stopped_event
  refused,        \* _handshake_error is set
  main,           \* where the main thread is
  connects,       \* calls of connect() so far
  result,         \* how the last connect() ended
  quitting,       \* an automation:start handler is inside disconnect()
  hb              \* where each heartbeat loop is

sessionVars == <<byMain, session, greeted, sentErrors, flying>>
socketVars == <<sio, retry, sessionVars>>
flagVars == <<info, connected, stopped, refused>>
mainVars == <<main, connects, result>>
vars == <<socketVars, flagVars, mainVars, quitting, hb>>

\* "linked": packets flow, but sio.connected is not set yet.  It is still set while the
\* disconnect handlers run: "dropping", when the connection will be retried, "ending",
\* when _on_disconnect_final is to follow, and "ended", when that one has run too.
SocketStates == {"closed", "linked", "up", "dropping", "ending", "ended"}
Closing == {"dropping", "ending", "ended"}
Sessions == 1..MaxSessions
Greeting(s) == <<"connected", s>>
Error(n) == <<"error", n>>

\* Mutation of IsConnected: read off _connection_info instead of the socket.
IsConnectedByInfo == info # 0

\* sio.connected
IsConnected == sio = "up" \/ sio \in Closing

InConnect ==
  main \in {"opening", "linking", "waiting", "unconfirmed", "abandoning",
            "confirmed", "asserting", "returning"}

Init ==
  /\ sio = "closed" /\ retry = FALSE /\ byMain = FALSE /\ session = 0 /\ greeted = FALSE
  /\ sentErrors = 0 /\ flying = {}
  /\ info = 0 /\ connected = FALSE /\ stopped = FALSE /\ refused = FALSE
  /\ main = "out" /\ connects = 0 /\ result = "none" /\ quitting = FALSE
  /\ hb = [s \in Sessions |-> "none"]

-----------------------------------------------------------------------------
(* connect()                                                               *)

\* The flags are cleared ...
ConnectBegin ==
  /\ main = "out" /\ connects < MaxConnects
  /\ main' = "opening" /\ connects' = connects + 1 /\ result' = "none"
  /\ refused' = FALSE /\ connected' = FALSE /\ stopped' = FALSE
  /\ UNCHANGED <<info, quitting, hb, socketVars>>

Goto(place) == main' = place /\ UNCHANGED <<connects, result>>
Raise(why) == main' = "out" /\ result' = why /\ UNCHANGED connects

\* A new socket; nothing of an older one is handled any more.
Link ==
  /\ session < MaxSessions
  /\ sio' = "linked" /\ session' = session + 1 /\ greeted' = FALSE /\ flying' = {}
  /\ UNCHANGED sentErrors

\* ... and sio.connect opens a socket, if none is open, whether or not a retry task sleeps.
Dial ==
  /\ main = "opening" /\ sio = "closed"
  /\ Link /\ byMain' = TRUE
  /\ Goto("linking")
  /\ UNCHANGED <<retry, flagVars, quitting, hb>>

\* sio.connect raises: the backend is unreachable, or a socket is already open.
DialFails ==
  /\ main = "opening"
  /\ Raise("unreachable")
  /\ UNCHANGED <<socketVars, flagVars, quitting, hb>>

\* sio.connect returns: its socket is up, or the one of the retry task that LinkLost
\* started, which then has nothing left to do.
DialDone ==
  /\ main = "linking" /\ sio \in {"linked", "up"}
  /\ sio' = "up" /\ retry' = (retry /\ byMain)
  /\ Goto("waiting")
  /\ UNCHANGED <<sessionVars, flagVars, quitting, hb>>

\* sio.connect times out and raises; an unfinished socket is closed, a retry task is not.
DialLost ==
  /\ main = "linking" /\ sio \in {"closed", "linked"}
  /\ sio' = "closed"
  /\ Raise("unreachable")
  /\ UNCHANGED <<retry, sessionVars, flagVars, quitting, hb>>

\* _connected_event.wait() returns True ...
Confirmed ==
  /\ main = "waiting" /\ connected
  /\ Goto("confirmed")
  /\ UNCHANGED <<socketVars, flagVars, quitting, hb>>

\* Mutation of ConfirmTimeout: _connected_event.wait() without a timeout.
ConfirmForever == FALSE

\* ... or False.
ConfirmTimeout ==
  /\ main = "waiting" /\ ~connected
  /\ Goto("unconfirmed")
  /\ UNCHANGED <<socketVars, flagVars, quitting, hb>>

\* Then the socket is closed: with all its handlers if sio.connected is set ...
Abandon ==
  /\ main = "unconfirmed" /\ sio = "up"
  /\ sio' = "ending" /\ info' = 0
  /\ Goto("abandoning")
  /\ UNCHANGED <<retry, sessionVars, connected, stopped, refused, quitting, hb>>

\* ... and connect() raises when it is closed.  No retry task is stopped.
Abandoned ==
  /\ main \in {"unconfirmed", "abandoning"} /\ sio # "up" /\ sio \notin Closing
  /\ sio' = "closed"
  /\ Raise("unconfirmed")
  /\ UNCHANGED <<retry, sessionVars, flagVars, quitting, hb>>

\* Mutation of CheckHandshake: the refusal is recorded, and connect() goes on.
CheckHandshakeLogs ==
  /\ main = "confirmed"
  /\ main' = "asserting" /\ result' = IF refused THEN "refused" ELSE result
  /\ UNCHANGED <<connects, socketVars, flagVars, quitting, hb>>

\* A handshake error is raised; the socket is left as it is.
CheckHandshake ==
  /\ main = "confirmed"
  /\ IF refused THEN Raise("refused") ELSE Goto("asserting")
  /\ UNCHANGED <<socketVars, flagVars, quitting, hb>>

\* assert self._connection_info is not None
AssertInfo ==
  /\ main = "asserting"
  /\ IF info = 0 THEN Raise("assertion") ELSE Goto("returning")
  /\ UNCHANGED <<socketVars, flagVars, quitting, hb>>

\* return self._connection_info, read once more: a drop since the assert makes it None.
ReturnInfo ==
  /\ main = "returning"
  /\ main' = "connected" /\ result' = IF info = 0 THEN "nothing" ELSE "ok"
  /\ UNCHANGED <<connects, socketVars, flagVars, quitting, hb>>

-----------------------------------------------------------------------------
(* listen(), wait() and disconnect()                                       *)

Listen ==
  /\ main = "connected"
  /\ main' = "listening"
  /\ UNCHANGED <<connects, result, socketVars, flagVars, quitting, hb>>

\* wait() polls _stopped_event.
WaitReturns ==
  /\ main = "listening" /\ stopped
  /\ main' = "returned"
  /\ UNCHANGED <<connects, result, socketVars, flagVars, quitting, hb>>

\* Ctrl+C in listen(), the end of a `with` block, a handler that gives up.
Leave ==
  /\ main \in {"connected", "listening"}
  /\ main' = "leaving"
  /\ UNCHANGED <<connects, result, socketVars, flagVars, quitting, hb>>

\* Mutation of Shutdown: sio.disconnect() in its place, which aborts no retries.
ShutdownLiveOnly ==
  /\ sio \notin Closing
  /\ IF sio = "up" THEN sio' = "ending" /\ info' = 0 ELSE sio' = "closed" /\ UNCHANGED info
  /\ UNCHANGED <<retry, stopped, sessionVars, connected, refused>>

\* sio.shutdown() closes a live socket, whose handlers are to run, or else aborts the
\* retry task, which runs _on_disconnect_final.  It returns once the socket is closed.
Shutdown ==
  /\ sio \notin Closing
  /\ CASE sio = "up" -> sio' = "ending" /\ info' = 0 /\ UNCHANGED <<retry, stopped>>
       [] sio # "up" /\ retry ->
            sio' = "closed" /\ retry' = FALSE /\ stopped' = TRUE /\ UNCHANGED info
       [] OTHER -> UNCHANGED <<sio, retry, info, stopped>>
  /\ UNCHANGED <<sessionVars, connected, refused>>

\* The rest of disconnect(), once shutdown() has returned.
Forget ==
  /\ sio \notin Closing
  /\ info' = 0 /\ stopped' = TRUE
  /\ UNCHANGED <<socketVars, connected, refused>>

\* disconnect(), as the last thing listen() and __exit__ do.
Shut ==
  /\ main \in {"returned", "leaving"}
  /\ Shutdown
  /\ Goto("closing")
  /\ UNCHANGED <<quitting, hb>>

Disconnect ==
  /\ main = "closing"
  /\ Forget
  /\ Goto("out")
  /\ UNCHANGED <<quitting, hb>>

\* disconnect() called by an automation:start handler while the main thread listens.
HandlerShuts ==
  /\ main = "listening" /\ ~quitting
  /\ Shutdown
  /\ quitting' = TRUE
  /\ UNCHANGED <<mainVars, hb>>

HandlerDisconnects ==
  /\ quitting
  /\ Forget
  /\ quitting' = FALSE
  /\ UNCHANGED <<mainVars, hb>>

-----------------------------------------------------------------------------
(* Handlers of the gateway's events.                                       *)

\* _on_connected records the session and starts its heartbeat loop.
OnConnected(s) ==
  /\ Greeting(s) \in flying
  /\ flying' = flying \ {Greeting(s)}
  /\ info' = s /\ connected' = TRUE
  /\ hb' = [hb EXCEPT ![s] = "top"]
  /\ UNCHANGED <<sio, retry, byMain, session, greeted, sentErrors, stopped, refused, mainVars, quitting>>

\* Mutation of OnError: connect() is not woken by an error.
OnErrorSilently(n) ==
  /\ Error(n) \in flying
  /\ flying' = flying \ {Error(n)}
  /\ refused' = (refused \/ info = 0)
  /\ UNCHANGED <<sio, retry, byMain, session, greeted, sentErrors, info, connected, stopped, mainVars,
                 quitting, hb>>

\* _on_error without a session is a refused handshake; with one it wakes calls.
OnError(n) ==
  /\ Error(n) \in flying
  /\ flying' = flying \ {Error(n)}
  /\ IF info = 0 THEN refused' = TRUE /\ connected' = TRUE
                 ELSE UNCHANGED <<refused, connected>>
  /\ UNCHANGED <<sio, retry, byMain, session, greeted, sentErrors, info, stopped, mainVars, quitting, hb>>

\* Mutation of OnDisconnect: a transient drop is taken for the end.
OnDisconnectStops ==
  /\ sio = "up"
  /\ sio' = IF Reconnection THEN "dropping" ELSE "ending"
  /\ info' = 0 /\ stopped' = TRUE
  /\ UNCHANGED <<retry, sessionVars, connected, refused, mainVars, quitting, hb>>

\* The connection drops: _on_disconnect forgets the session.
OnDisconnect ==
  /\ sio = "up"
  /\ sio' = IF Reconnection THEN "dropping" ELSE "ending"
  /\ info' = 0
  /\ UNCHANGED <<retry, sessionVars, connected, stopped, refused, mainVars, quitting, hb>>

\* The gateway disconnects the robot: _on_disconnect, with the end to follow.
Kicked ==
  /\ sio = "up"
  /\ sio' = "ending"
  /\ info' = 0
  /\ UNCHANGED <<retry, sessionVars, connected, stopped, refused, mainVars, quitting, hb>>

\* When _on_disconnect_final runs: a connection ends, with sio.connected still set, or
\* the retry task has failed for the last time, whatever connect() has opened since.
Final ==
  \/ sio = "ending" /\ sio' = "ended" /\ UNCHANGED retry
  \/ retry /\ ~(sio = "linked" /\ ~byMain) /\ retry' = FALSE /\ UNCHANGED sio

\* Mutation of OnDisconnectFinal: the end is only logged.
OnDisconnectFinalLogs ==
  /\ Final
  /\ UNCHANGED <<sessionVars, flagVars, mainVars, quitting, hb>>

\* _on_disconnect_final only sets _stopped_event.
OnDisconnectFinal ==
  /\ Final
  /\ stopped' = TRUE
  /\ UNCHANGED <<sessionVars, info, connected, refused, mainVars, quitting, hb>>

-----------------------------------------------------------------------------
(* The library's retry task and the gateway, as the code uses them.        *)

\* sio.connected is cleared after the handlers; a drop starts the retry task.
LinkDown ==
  /\ sio \in {"dropping", "ended"}
  /\ sio' = "closed" /\ retry' = (retry \/ sio = "dropping")
  /\ UNCHANGED <<sessionVars, flagVars, mainVars, quitting, hb>>

\* A socket lost while sio.connect waits for the namespace runs no handler, but starts
\* the retry task.
LinkLost ==
  /\ sio = "linked" /\ byMain
  /\ sio' = "closed" /\ retry' = (retry \/ Reconnection)
  /\ UNCHANGED <<sessionVars, flagVars, mainVars, quitting, hb>>

Retry ==
  /\ retry /\ sio = "closed"
  /\ Link /\ byMain' = FALSE
  /\ UNCHANGED <<retry, flagVars, mainVars, quitting, hb>>

RetryEnds ==
  /\ sio = "linked" /\ ~byMain
  /\ \/ sio' = "up" /\ retry' = FALSE
     \/ sio' = "closed" /\ UNCHANGED retry
  /\ UNCHANGED <<sessionVars, flagVars, mainVars, quitting, hb>>

\* The handshake is confirmed with `connected` or refused with `error`.
GatewayGreets ==
  /\ sio \in {"linked", "up"} /\ ~greeted
  /\ greeted' = TRUE /\ flying' = flying \cup {Greeting(session)}
  /\ UNCHANGED <<sio, retry, byMain, session, sentErrors, flagVars, mainVars, quitting, hb>>

GatewayErrs ==
  /\ sio \in {"linked", "up"} /\ sentErrors < MaxErrors
  /\ greeted' = TRUE /\ sentErrors' = sentErrors + 1
  /\ flying' = flying \cup {Error(sentErrors + 1)}
  /\ UNCHANGED <<sio, retry, byMain, session, flagVars, mainVars, quitting, hb>>

-----------------------------------------------------------------------------
(* _heartbeat_loop, one per session.                                       *)

Beat(s, from, to) ==
  /\ hb[s] = from
  /\ hb' = [hb EXCEPT ![s] = to]
  /\ UNCHANGED <<socketVars, flagVars, mainVars, quitting>>

\* `while self.is_connected`; a loop started before the flag is set ends at once.
HeartbeatTop(s) ==
  \/ IsConnected /\ Beat(s, "top", "sleeping")
  \/ ~IsConnected /\ Beat(s, "top", IF sio = "linked" THEN "missed" ELSE "dead")

HeartbeatSleeps(s) == Beat(s, "sleeping", "rested")

HeartbeatCheck(s) ==
  \/ IsConnected /\ Beat(s, "rested", "calling")
  \/ ~IsConnected /\ Beat(s, "rested", "dead")

\* Mutation of HeartbeatCall: the loop does not survive a rejected heartbeat.
HeartbeatCallOnce(s) == Beat(s, "calling", "top") \/ Beat(s, "calling", "dead")

\* call() answers, times out or is rejected, and the loop goes on.  What else is raised
\* ends the thread: by call() when the socket is down, or by RobotInfo.model_validate when
\* the acknowledgement is not a robot ("malformed").
HeartbeatCall(s) ==
  \/ Beat(s, "calling", "top")
  \/ Beat(s, "calling", "malformed")
  \/ ~IsConnected /\ Beat(s, "calling", "dead")

Heartbeat(s) == HeartbeatTop(s) \/ HeartbeatSleeps(s) \/ HeartbeatCheck(s) \/ HeartbeatCall(s)

-----------------------------------------------------------------------------
\* What connect(), wait() and disconnect() do by themselves once called.
MainProgress ==
  \/ Dial \/ DialFails \/ DialDone \/ DialLost
  \/ Confirmed \/ ConfirmTimeout \/ Abandon \/ Abandoned
  \/ CheckHandshake \/ AssertInfo \/ ReturnInfo
  \/ WaitReturns \/ Shut \/ Disconnect

Handlers ==
  \/ \E s \in Sessions : OnConnected(s)
  \/ \E n \in 1..MaxErrors : OnError(n)
  \/ HandlerShuts \/ HandlerDisconnects

Library == LinkDown \/ LinkLost \/ Retry \/ RetryEnds \/ OnDisconnect \/ OnDisconnectFinal

Next ==
  \/ ConnectBegin \/ Listen \/ Leave
  \/ MainProgress
  \/ Handlers
  \/ Library
  \/ Kicked \/ GatewayGreets \/ GatewayErrs
  \/ \E s \in Sessions : Heartbeat(s)

\* Every blocking step of the main thread has a timeout, sleeps end, threads are
\* scheduled; a disconnection in progress completes.  Neither the gateway nor the
\* network nor the user is assumed to do anything, and retries may go on forever.
Fairness ==
  /\ WF_vars(MainProgress)
  /\ WF_vars(sio = "ending" /\ OnDisconnectFinal)
  /\ WF_vars(LinkDown)
  /\ \A s \in Sessions : WF_vars(Heartbeat(s))

Spec == Init /\ [][Next]_vars /\ Fairness

-----------------------------------------------------------------------------
FlagsOK ==
  /\ byMain \in BOOLEAN /\ retry \in BOOLEAN /\ greeted \in BOOLEAN /\ quitting \in BOOLEAN
  /\ connected \in BOOLEAN /\ stopped \in BOOLEAN /\ refused \in BOOLEAN

CountersOK ==
  /\ session \in 0..MaxSessions /\ info \in 0..MaxSessions
  /\ sentErrors \in 0..MaxErrors /\ connects \in 0..MaxConnects
  /\ flying \subseteq {Greeting(s) : s \in Sessions} \cup {Error(n) : n \in 1..MaxErrors}

PlacesOK ==
  /\ sio \in SocketStates
  /\ main \in {"out", "opening", "linking", "waiting", "unconfirmed", "abandoning",
               "confirmed", "asserting", "returning", "connected", "listening",
               "returned", "leaving", "closing"}
  /\ result \in {"none", "ok", "nothing", "unreachable", "unconfirmed", "refused", "assertion"}
  /\ hb \in [Sessions -> {"none", "top", "sleeping", "rested", "calling",
                          "dead", "missed", "malformed"}]

\* connect() has no result before it ends.
TypeOK == FlagsOK /\ CountersOK /\ PlacesOK /\ (InConnect => result = "none")

\* In the program's first connection wait() returns by itself only when it is closed for
\* good, at most with the library's last bookkeeping to come: no drop that is being
\* retried unblocks it, and no retry task is left behind.  (With a second connect() the
\* end of the first connection may be reported after _stopped_event was cleared.)
WaitMeansClosed ==
  main = "returned" /\ connects =< 1 => sio \in {"ended", "closed"} /\ ~retry

\* Of a heartbeat loop that found its socket up at first, only an acknowledgement that is
\* not a robot ends it while that socket is up: no timeout, no rejection and no drop of an
\* earlier socket does.  (A loop that ran before the flag was set is "missed".)
HeartbeatWhileUp == sio = "up" /\ session > 0 => hb[session] # "dead"

\* The program's first connect() blames a missing `connected` only if the gateway's answer
\* to the handshake, be it a greeting or an error, has not been handled: a refusal is not
\* swallowed.  (Later ones may find _connection_info set by a late greeting.)
RefusalIsHeard ==
  [][main = "waiting" /\ main' = "unconfirmed" /\ connects =< 1
     => ~greeted \/ flying # {}]_vars

\* connect() ends, with or without an answer of the gateway.
ConnectEnds == InConnect ~> ~InConnect

\* listen() does not outlive the connection: however it is closed for good, the
\* thread blocked in wait() goes on.
ListenEnds == (main = "listening" /\ sio = "closed" /\ ~retry) ~> main # "listening"

\* No heartbeat thread survives a connection that stays closed.
HeartbeatsEnd ==
  <>[](sio = "closed")
    => \A s \in Sessions : <>[](hb[s] \in {"none", "dead", "missed", "malformed"})

-----------------------------------------------------------------------------
\* The abstract lifecycle: a socket that is still being opened is no link yet, and the
\* link is lost for as long as the retry task looks for one.
LinkState == IF IsConnected THEN "up" ELSE IF retry THEN "lost" ELSE "closed"

Phase ==
  CASE main \in {"opening", "linking"} -> "opening"
    [] InConnect /\ main \notin {"opening", "linking"} -> "waiting"
    [] OTHER -> main

Used == CASE connects = 0 -> "never" [] connects = 1 -> "once" [] OTHER -> "again"

Contract ==
  INSTANCE ConnectionContract WITH link <- LinkState, phase <- Phase, used <- Used

\* Seen from the program, connect(), wait(), disconnect() and all handlers together behave
\* as the contract says: in the first connection no event, however late, reopens a closed
\* one or closes one before setting _stopped_event; connect(), wait() and disconnect() end.
ImplementsLifecycle == Contract!Spec

-----------------------------------------------------------------------------
(* Inductive strengthenings of the properties above.                       *)

\* Loops and greetings belong to sessions there have been.
LoopsHaveSessions ==
  /\ \A s \in Sessions : s > session => hb[s] = "none" /\ Greeting(s) \notin flying
  /\ sio \in {"linked", "up"} => session \in Sessions
\* Until sio.connected is set the loop has not got past its test, and cannot end by it.
LoopOutlastsDrops ==
  /\ sio = "linked" => hb[session] \in {"none", "top", "missed"}
  /\ sio = "up" => hb[session] # "dead"

\* Until a second connect() _stopped_event is set before sio.connected is cleared for good,
\* never earlier than the end of the connection, and nothing is retried afterwards.
StoppedForGood ==
  /\ sio = "linked" => IF byMain THEN main = "linking" ELSE retry
  /\ connects =< 1 =>
      /\ main = "opening" \/ connects = 0 => sio = "closed" /\ ~retry /\ ~stopped
      /\ connects = 0 => main = "out"
      /\ quitting => ~InConnect /\ ~retry /\ sio \notin {"linked", "up", "dropping"}
                     /\ (sio # "ending" => stopped)
      /\ stopped => sio \in {"ended", "closed"} /\ ~retry
      /\ sio = "ended" => stopped
      /\ retry => sio = "closed" \/ (sio = "linked" /\ ~byMain)
      /\ main \notin {"out", "opening", "linking"} /\ sio = "closed" => retry \/ stopped
      /\ main = "returned" => stopped
      /\ main = "closing" => ~retry /\ sio \notin {"linked", "up", "dropping"}

\* Until a second connect(), what answered the handshake has woken connect() or is still to
\* be handled: there is no session of before to take an error for one of its calls.
AnswerIsHeard ==
  /\ connects = 0 => main = "out" /\ sio = "closed" /\ ~retry /\ info = 0 /\ ~greeted /\ flying = {}
  /\ connects =< 1 =>
       /\ info # 0 => connected
       /\ greeted /\ ~connected => flying # {}

-----------------------------------------------------------------------------
\* What the code says of itself.
\* `assert self._connection_info is not None` at the end of connect().
AssertHolds == result # "assertion"

\* "the one from the previous connection already exited when its socket dropped",
\* said where _on_connected starts the new loop.
PreviousLoopExited ==
  \A s \in Sessions : sio = "up" /\ s < session => hb[s] # "calling"
=============================================================================
