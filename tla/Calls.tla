------------------------------- MODULE Calls --------------------------------
(***************************************************************************)
(* SocketConnection.call and the handlers that wake it (connection.py).    *)
(*                                                                         *)
(* Several threads (automation:start handlers, the heartbeat loop, the     *)
(* user's main thread) call the gateway through one connection.  A call    *)
(* registers a _PendingCall, emits its event and waits, with a timeout,    *)
(* for the acknowledgement; the gateway's `error` event names no call, so  *)
(* _on_error wakes every call it finds registered.                         *)
(*                                                                         *)
(* A call object is identified by <<t, i>>, the i-th call of thread t.     *)
(* Its `outcome` is the dict of the code with its keys in insertion order; *)
(* `done` is set right after the first key, so Done(c) reads it off.       *)
(* Server-pushed events run on background threads: acknowledgements and    *)
(* errors in flight are handled in any order.                              *)
(***************************************************************************)
EXTENDS Naturals, Sequences

CONSTANTS
  Threads,      \* threads that use the connection
  MaxCalls,     \* bound: calls a thread makes
  MaxErrors,    \* bound: error events the gateway emits
  MaxDrops      \* bound: times the socket drops

ASSUME CallsAssumption == MaxCalls \in Nat /\ MaxErrors \in Nat /\ MaxDrops \in Nat

VARIABLES
  link,         \* the socket: "up", "dropping" (_on_disconnect ran), "down"
  drops,        \* drops so far
  info,         \* _connection_info is not None
  pc,           \* where each thread is inside call()
  made,         \* calls each thread has started
  ret,          \* how each thread's last call ended
  pending,      \* _pending_calls
  outcome,      \* the outcome dict of each call object
  inbox,        \* requests on their way to the gateway
  verdict,      \* what the gateway did with each request
  acks,         \* acknowledgements on their way back
  errors,       \* the error events: "unsent", "flying", "waking", "handled"
  todo,         \* calls each _on_error still has to wake
  heard         \* history: calls in flight when _on_error ran on a live session

envVars == <<link, drops, info>>
threadVars == <<pc, made, ret, pending>>
gatewayVars == <<inbox, verdict, acks>>
errorVars == <<errors, todo, heard>>
vars == <<envVars, threadVars, outcome, gatewayVars, errorVars>>

CallIds == Threads \X (1..MaxCalls)
ErrorIds == 1..MaxErrors
Cur(t) == <<t, made[t]>>
Keys(c) == {outcome[c][i] : i \in DOMAIN outcome[c]}
Done(c) == outcome[c] # <<>>

\* is_connected: python-socketio's flag stays set while _on_disconnect runs.
IsConnected == link # "down"

Init ==
  /\ link = "up" /\ drops = 0 /\ info = TRUE
  /\ pc = [t \in Threads |-> "idle"]
  /\ made = [t \in Threads |-> 0]
  /\ ret = [t \in Threads |-> "none"]
  /\ pending = {}
  /\ outcome = [c \in CallIds |-> <<>>]
  /\ inbox = {} /\ acks = {}
  /\ verdict = [c \in CallIds |-> "none"]
  /\ errors = [e \in ErrorIds |-> "unsent"]
  /\ todo = [e \in ErrorIds |-> {}]
  /\ heard = {}

-----------------------------------------------------------------------------
(* call(), one action for each step another thread can interleave with.    *)

\* The socket is down: NotConnectedError, nothing is registered or emitted.
Refuse(t) ==
  /\ pc[t] = "idle" /\ ~IsConnected
  /\ ret' = [ret EXCEPT ![t] = "not_connected"]
  /\ UNCHANGED <<pc, made, pending, outcome, envVars, gatewayVars, errorVars>>

\* The is_connected check passes and the _PendingCall is created.
Enter(t) ==
  /\ pc[t] = "idle" /\ IsConnected /\ made[t] < MaxCalls
  /\ pc' = [pc EXCEPT ![t] = "created"]
  /\ made' = [made EXCEPT ![t] = @ + 1]
  /\ ret' = [ret EXCEPT ![t] = "none"]
  /\ UNCHANGED <<pending, outcome, envVars, gatewayVars, errorVars>>

\* The pending call is appended under the lock.
Register(t) ==
  /\ pc[t] = "created"
  /\ pc' = [pc EXCEPT ![t] = "registered"]
  /\ pending' = pending \cup {Cur(t)}
  /\ UNCHANGED <<made, ret, outcome, envVars, gatewayVars, errorVars>>

\* emit() hands the event to the socket, which loses it while it is closing.
Emit(t) ==
  /\ pc[t] = "registered" /\ IsConnected
  /\ pc' = [pc EXCEPT ![t] = "waiting"]
  /\ inbox' = IF link = "up" THEN inbox \cup {Cur(t)} ELSE inbox
  /\ UNCHANGED <<made, ret, pending, outcome, verdict, acks, envVars, errorVars>>

\* emit() raises: the socket went down after the is_connected check.
EmitFails(t) ==
  /\ pc[t] = "registered" /\ ~IsConnected
  /\ pc' = [pc EXCEPT ![t] = "unwinding"]
  /\ ret' = [ret EXCEPT ![t] = "emit_failed"]
  /\ UNCHANGED <<made, pending, outcome, envVars, gatewayVars, errorVars>>

\* done.wait() returns True.
Wake(t) ==
  /\ pc[t] = "waiting" /\ Done(Cur(t))
  /\ pc' = [pc EXCEPT ![t] = "woken"]
  /\ UNCHANGED <<made, ret, pending, outcome, envVars, gatewayVars, errorVars>>

\* Mutation of TimeOut: the exception leaves call() without its finally clause.
TimeOutWithoutFinally(t) ==
  /\ pc[t] = "waiting" /\ ~Done(Cur(t))
  /\ pc' = [pc EXCEPT ![t] = "idle"]
  /\ ret' = [ret EXCEPT ![t] = "timeout"]
  /\ UNCHANGED <<made, pending, outcome, envVars, gatewayVars, errorVars>>

\* Mutation of TimeOut: done.wait() without a timeout.
NoTimeOut(t) == FALSE

\* done.wait() returns False: AckTimeoutError.
TimeOut(t) ==
  /\ pc[t] = "waiting" /\ ~Done(Cur(t))
  /\ pc' = [pc EXCEPT ![t] = "unwinding"]
  /\ ret' = [ret EXCEPT ![t] = "timeout"]
  /\ UNCHANGED <<made, pending, outcome, envVars, gatewayVars, errorVars>>

\* Mutation of Conclude: a woken call never looks for an error.
ConcludeWithResult(t) ==
  /\ pc[t] = "woken"
  /\ pc' = [pc EXCEPT ![t] = "unwinding"]
  /\ ret' = [ret EXCEPT ![t] = "result"]
  /\ UNCHANGED <<made, pending, outcome, envVars, gatewayVars, errorVars>>

\* Mutation of Conclude: what was put into the dict is handed out unexamined.
ConcludeUnexamined(t) ==
  /\ pc[t] = "woken"
  /\ pc' = [pc EXCEPT ![t] = "unwinding"]
  /\ ret' = [ret EXCEPT ![t] = Head(outcome[Cur(t)])]
  /\ UNCHANGED <<made, pending, outcome, envVars, gatewayVars, errorVars>>

\* The outcome is read: ServerRejectedError if it holds an error, else the result.
Conclude(t) ==
  /\ pc[t] = "woken"
  /\ pc' = [pc EXCEPT ![t] = "unwinding"]
  /\ ret' = [ret EXCEPT ![t] = IF "error" \in Keys(Cur(t)) THEN "rejected" ELSE "result"]
  /\ UNCHANGED <<made, pending, outcome, envVars, gatewayVars, errorVars>>

\* The finally clause removes the pending call under the lock.
Unwind(t) ==
  /\ pc[t] = "unwinding"
  /\ pc' = [pc EXCEPT ![t] = "idle"]
  /\ pending' = pending \ {Cur(t)}
  /\ UNCHANGED <<made, ret, outcome, envVars, gatewayVars, errorVars>>

-----------------------------------------------------------------------------
(* What is written into a call object from other threads.                  *)

\* A dict assignment: a key already present keeps its place.
Put(key, c) ==
  outcome' = [outcome EXCEPT ![c] = IF key \in Keys(c) THEN @ ELSE Append(@, key)]

\* Mutation of AckCallback: the answer goes to the thread's newest call.
AckNewestCall(c) ==
  /\ c \in acks
  /\ acks' = acks \ {c}
  /\ Put("result", Cur(c[1]))
  /\ UNCHANGED <<inbox, verdict, envVars, threadVars, errorVars>>

\* ack_callback: the closure names the call object the request was made for.
AckCallback(c) ==
  /\ c \in acks
  /\ acks' = acks \ {c}
  /\ Put("result", c)
  /\ UNCHANGED <<inbox, verdict, envVars, threadVars, errorVars>>

\* Registered calls that have not ended yet.
InFlight == {c \in pending : pc[c[1]] # "unwinding"}

\* _on_error with no _connection_info: taken for a handshake error, nobody is woken.
OnErrorInHandshake(e) ==
  /\ errors[e] = "flying" /\ ~info
  /\ errors' = [errors EXCEPT ![e] = "handled"]
  /\ UNCHANGED <<todo, heard, outcome, envVars, threadVars, gatewayVars>>

\* _on_error on a live session copies the pending calls under the lock ...
OnErrorSnapshot(e) ==
  /\ errors[e] = "flying" /\ info
  /\ errors' = [errors EXCEPT ![e] = "waking"]
  /\ todo' = [todo EXCEPT ![e] = pending]
  /\ heard' = heard \cup InFlight
  /\ UNCHANGED <<outcome, envVars, threadVars, gatewayVars>>

\* Mutation of OnErrorWake: the error goes to the newest call of the thread.
WakeNewestCall(e) ==
  /\ errors[e] = "waking"
  /\ \E c \in todo[e] :
       /\ Put("error", Cur(c[1]))
       /\ todo' = [todo EXCEPT ![e] = @ \ {c}]
  /\ UNCHANGED <<errors, heard, envVars, threadVars, gatewayVars>>

\* Mutation of OnErrorWake: only one of the pending calls is woken.
WakeOnlyOne(e) ==
  /\ errors[e] = "waking"
  /\ \E c \in todo[e] : Put("error", c)
  /\ todo' = [todo EXCEPT ![e] = {}]
  /\ UNCHANGED <<errors, heard, envVars, threadVars, gatewayVars>>

\* ... and then wakes them one by one, without the lock.
OnErrorWake(e) ==
  /\ errors[e] = "waking"
  /\ \E c \in todo[e] :
       /\ Put("error", c)
       /\ todo' = [todo EXCEPT ![e] = @ \ {c}]
  /\ UNCHANGED <<errors, heard, envVars, threadVars, gatewayVars>>

OnErrorDone(e) ==
  /\ errors[e] = "waking" /\ todo[e] = {}
  /\ errors' = [errors EXCEPT ![e] = "handled"]
  /\ UNCHANGED <<todo, heard, outcome, envVars, threadVars, gatewayVars>>

-----------------------------------------------------------------------------
(* The gateway and the socket, as the code uses them.                      *)

Serve(c, v) == inbox' = inbox \ {c} /\ verdict' = [verdict EXCEPT ![c] = v]

\* The gateway's handler succeeds and its acknowledgement is sent.
GatewayAccepts(c) ==
  /\ c \in inbox
  /\ Serve(c, "accepted")
  /\ acks' = acks \cup {c}
  /\ UNCHANGED <<envVars, threadVars, outcome, errorVars>>

\* The handler throws: the exception filter emits `error` and never acknowledges.
GatewayRejects(c, e) ==
  /\ c \in inbox /\ errors[e] = "unsent"
  /\ Serve(c, "rejected")
  /\ errors' = [errors EXCEPT ![e] = "flying"]
  /\ UNCHANGED <<acks, todo, heard, envVars, threadVars, outcome>>

\* An error about the session itself, e.g. the api key was regenerated.
SessionError(e) ==
  /\ link = "up" /\ errors[e] = "unsent"
  /\ errors' = [errors EXCEPT ![e] = "flying"]
  /\ UNCHANGED <<todo, heard, envVars, threadVars, outcome, gatewayVars>>

\* The socket drops: _on_disconnect forgets the session first ...
OnDisconnect ==
  /\ link = "up" /\ drops < MaxDrops
  /\ link' = "dropping" /\ drops' = drops + 1
  /\ info' = FALSE
  /\ UNCHANGED <<threadVars, outcome, gatewayVars, errorVars>>

\* ... then the library marks itself down; requests and acknowledgements are lost.
LinkDown ==
  /\ link = "dropping"
  /\ link' = "down"
  /\ inbox' = {} /\ acks' = {}
  /\ UNCHANGED <<drops, info, verdict, threadVars, outcome, errorVars>>

\* The library reconnects by itself, after a delay that leaves no event of the old
\* socket unhandled: calls are possible before `connected` arrives.
Reconnect ==
  /\ link = "down"
  /\ link' = "up"
  /\ errors' = [e \in ErrorIds |-> IF errors[e] = "flying" THEN "handled" ELSE errors[e]]
  /\ UNCHANGED <<drops, info, todo, heard, threadVars, outcome, gatewayVars>>

\* _on_connected records the new session.
OnConnected ==
  /\ link = "up" /\ ~info
  /\ info' = TRUE
  /\ UNCHANGED <<link, drops, threadVars, outcome, gatewayVars, errorVars>>

-----------------------------------------------------------------------------
\* The steps of a thread that is inside call().
Progress(t) ==
  \/ Register(t) \/ Emit(t) \/ EmitFails(t)
  \/ Wake(t) \/ TimeOut(t) \/ Conclude(t) \/ Unwind(t)

OnError(e) == OnErrorInHandshake(e) \/ OnErrorSnapshot(e) \/ OnErrorWake(e) \/ OnErrorDone(e)

Gateway ==
  \/ \E c \in CallIds : GatewayAccepts(c)
  \/ \E c \in CallIds, e \in ErrorIds : GatewayRejects(c, e)
  \/ \E e \in ErrorIds : SessionError(e)

Network == OnDisconnect \/ LinkDown \/ Reconnect \/ OnConnected

Next ==
  \/ \E t \in Threads : Refuse(t) \/ Enter(t) \/ Progress(t)
  \/ \E c \in CallIds : AckCallback(c)
  \/ \E e \in ErrorIds : OnError(e)
  \/ Gateway
  \/ Network

\* Threads are scheduled and Event.wait() has a timeout: a call goes on by itself.
\* Handler threads of the library are scheduled too.  Nothing is assumed of the
\* gateway or of the network.
Fairness ==
  /\ \A t \in Threads : WF_vars(Progress(t))
  /\ \A e \in ErrorIds : WF_vars(OnError(e))

Spec == Init /\ [][Next]_vars /\ Fairness

-----------------------------------------------------------------------------
TypeOK ==
  /\ link \in {"up", "dropping", "down"} /\ drops \in 0..MaxDrops /\ info \in BOOLEAN
  /\ pc \in [Threads -> {"idle", "created", "registered", "waiting", "woken", "unwinding"}]
  /\ made \in [Threads -> 0..MaxCalls]
  /\ ret \in [Threads -> {"none", "result", "rejected", "timeout", "emit_failed", "not_connected"}]
  /\ pending \subseteq CallIds /\ inbox \subseteq CallIds /\ acks \subseteq CallIds
  /\ outcome \in [CallIds -> Seq({"result", "error"})]
  /\ verdict \in [CallIds -> {"none", "accepted", "rejected"}]
  /\ errors \in [ErrorIds -> {"unsent", "flying", "waking", "handled"}]
  /\ todo \in [ErrorIds -> SUBSET CallIds]
  /\ heard \subseteq CallIds

Registered(t) == pc[t] \in {"registered", "waiting", "woken", "unwinding"}

\* _pending_calls holds exactly the calls still running, whichever way they end
\* (the `finally` of call(); the tests' "cleaned up, not left dangling").
NothingDangles == pending = {Cur(t) : t \in {u \in Threads : Registered(u)}}

\* call() returns a result only for a request the gateway accepted: the late
\* acknowledgement of a call that timed out never answers the thread's next call.
ResultWasAccepted ==
  \A t \in Threads : ret[t] = "result" => verdict[Cur(t)] = "accepted"

\* call() raises ServerRejectedError only if _on_error ran on a live session while
\* this call was registered: an error handled before it began never rejects it.
RejectionHasCause ==
  \A t \in Threads : ret[t] = "rejected" => Cur(t) \in heard

\* An error event on a live session reaches every call in flight: each has the
\* error in its outcome, or the handler that took the snapshot is about to put it.
ErrorReachesAll ==
  \A c \in CallIds : c \in heard =>
    "error" \in Keys(c) \/ \E e \in ErrorIds : errors[e] = "waking" /\ c \in todo[e]

\* Every call ends, even if the gateway never answers and the socket stays down.
EveryCallEnds == \A t \in Threads : pc[t] # "idle" ~> pc[t] = "idle"

\* What the docs say of the exceptions, in the terms of the model.
\* "its error event arrived before the acknowledgement did" (ServerRejectedError).
RejectedBeforeAck ==
  \A t \in Threads : ret[t] = "rejected" => Head(outcome[Cur(t)]) = "error"

-----------------------------------------------------------------------------
(* The inductive invariant: what makes the properties above hold.          *)

\* c has left registration behind: its request may have been sent.
Sent(c) ==
  \/ c[2] < made[c[1]]
  \/ c[2] = made[c[1]] /\ pc[c[1]] \notin {"created", "registered"}

\* The outcome of c can no longer be read.
Over(c) ==
  \/ c[2] < made[c[1]]
  \/ c[2] = made[c[1]] /\ pc[c[1]] \in {"unwinding", "idle"}

\* A thread that is inside call() has a call object, and one that woke has an outcome.
CallsCounted ==
  \A t \in Threads : /\ pc[t] # "idle" => made[t] > 0
                     /\ pc[t] = "woken" => Done(Cur(t))

\* A thread whose last call returned, or was rejected, has made a call.
EndedHasCall == \A t \in Threads : ret[t] \in {"result", "rejected"} => made[t] > 0

\* A request is emitted, and served, at most once; only an acceptance is acknowledged.
RequestsServedOnce ==
  \A c \in CallIds :
    /\ ~Sent(c) => c \notin inbox /\ verdict[c] = "none"
    /\ c \in inbox => verdict[c] = "none"
    /\ c \in acks \/ "result" \in Keys(c) => verdict[c] = "accepted"

\* Nothing is written into a call object before its call begins.
FreshUntouched ==
  \A c \in CallIds : c[2] > made[c[1]] =>
    outcome[c] = <<>> /\ \A e \in ErrorIds : c \notin todo[e]

\* An error that was not handled during the call comes too late to be read.
ErrorsHaveCause ==
  \A c \in CallIds :
    "error" \in Keys(c) \/ (\E e \in ErrorIds : c \in todo[e]) => c \in heard \/ Over(c)

IInv ==
  /\ TypeOK /\ NothingDangles /\ CallsCounted /\ EndedHasCall /\ RequestsServedOnce /\ FreshUntouched
  /\ ErrorsHaveCause /\ ResultWasAccepted /\ RejectionHasCause /\ ErrorReachesAll

-----------------------------------------------------------------------------
\* call() implements its contract.
InCall(t) == pc[t] \in {"created", "registered", "waiting", "woken"}

Contract == INSTANCE CallContract WITH
  calling  <- {t \in Threads : InCall(t)},
  accepted <- {t \in Threads : InCall(t) /\ verdict[Cur(t)] = "accepted"},
  heard    <- {t \in Threads : InCall(t) /\ "error" \in Keys(Cur(t))}

\* Every behaviour of call() is one the contract allows, its liveness included.
ImplementsContract == Contract!Spec
=============================================================================
