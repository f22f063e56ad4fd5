------------------------- MODULE ConnectionContract -------------------------
(***************************************************************************)
(* What SocketConnection's lifecycle promises the rest of the program, with*)
(* none of its events, handlers and heartbeats: a connection is opened by  *)
(* connect() only and survives drops by itself; when it ends, for whatever *)
(* reason, _stopped_event is set first and is_connected cleared after, and *)
(* wait() returns no earlier.  A second connect() may meet leftovers of the*)
(* first, and less is promised of it.  Connection.tla implements this      *)
(* contract and Robot.tla is built on it.                                  *)
(***************************************************************************)
VARIABLES
  link,      \* "closed", "up" (is_connected), "lost" (reconnecting)
  stopped,   \* _stopped_event, which is_stopping reads
  phase,     \* where the main thread is in connect(), listen() and disconnect()
  used       \* has connect() been called "never", "once" or "again"

vars == <<link, stopped, phase, used>>

Links == {"closed", "up", "lost"}
Phases ==
  {"out", "opening", "waiting", "connected", "listening", "returned", "leaving", "closing"}

Init == link = "closed" /\ stopped = FALSE /\ phase = "out" /\ used = "never"

Goto(from, to) == phase \in from /\ phase' = to /\ UNCHANGED used
Stay == UNCHANGED <<phase, used>>

\* connect() clears _stopped_event ...
Connect ==
  /\ phase = "out" /\ phase' = "opening"
  /\ used' = IF used = "never" THEN "once" ELSE "again"
  /\ stopped' = FALSE
  /\ UNCHANGED link

\* ... gets a socket, perhaps one of the retries it caused ...
Open == Goto({"opening"}, "waiting") /\ link' = "up" /\ UNCHANGED stopped

\* ... and returns once the handshake is confirmed.  The socket may be gone by then.
Confirm == Goto({"waiting"}, "connected") /\ UNCHANGED <<link, stopped>>

\* Or it raises, and leaves socket and retries as they are.
ConnectRaises == Goto({"opening", "waiting"}, "out") /\ UNCHANGED <<link, stopped>>

\* The socket drops, even while it is being opened, and is opened again, without the
\* program's doing: not after _stopped_event was set, or while disconnect() closes it.
Lose ==
  /\ link = "up" \/ (link = "closed" /\ phase = "opening")
  /\ stopped \/ phase = "closing" => used = "again"
  /\ link' = "lost"
  /\ UNCHANGED stopped /\ Stay
Regain == link = "lost" /\ link' = "up" /\ UNCHANGED stopped /\ Stay

\* A live connection ends, for the server, the network or the program: _stopped_event is
\* set, and only then is_connected is cleared.
Stops == (link = "up" \/ used = "again") /\ stopped' = TRUE /\ UNCHANGED link /\ Stay
Sever ==
  /\ link = "up" /\ (stopped \/ used = "again")
  /\ link' = "closed"
  /\ UNCHANGED stopped /\ Stay

\* A lost one ends because the retries have failed or are aborted.
GivesUp == link = "lost" /\ link' = "closed" /\ stopped' = TRUE /\ Stay

Listen == Goto({"connected"}, "listening") /\ UNCHANGED <<link, stopped>>

\* wait() returns by itself, or is interrupted.
WaitReturns == Goto({"listening"}, "returned") /\ stopped /\ UNCHANGED <<link, stopped>>
Leave == Goto({"connected", "listening"}, "leaving") /\ UNCHANGED <<link, stopped>>

\* disconnect() has the connection end, or the retries aborted, and returns after that.
Shut ==
  /\ Goto({"returned", "leaving"}, "closing")
  /\ IF link = "lost"
     THEN link' = "closed" /\ stopped' = TRUE
     ELSE UNCHANGED <<link, stopped>>
Disconnect ==
  /\ Goto({"closing"}, "out")
  /\ link = "closed" \/ used = "again"
  /\ stopped' = TRUE
  /\ UNCHANGED link

Next ==
  \/ Connect \/ Open \/ Confirm \/ ConnectRaises
  \/ Lose \/ Regain \/ Stops \/ Sever \/ GivesUp
  \/ Listen \/ WaitReturns \/ Leave \/ Shut \/ Disconnect

SafeSpec == Init /\ [][Next]_vars

\* What the main thread has begun it finishes, wait() notices that it may return, and a
\* connection that ends, or that disconnect() closes, gets to its end.
Fairness ==
  /\ WF_vars(Open \/ Confirm \/ ConnectRaises)
  /\ WF_vars(WaitReturns)
  /\ WF_vars(Shut)
  /\ WF_vars(Disconnect)
  /\ WF_vars(used = "once" /\ Sever)
  /\ WF_vars(used = "once" /\ phase = "closing" /\ Stops)

Spec == SafeSpec /\ Fairness
=============================================================================
