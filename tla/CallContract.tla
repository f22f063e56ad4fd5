---------------------------- MODULE CallContract ----------------------------
(***************************************************************************)
(* What SocketConnection.call promises its callers (ExecutionManager,      *)
(* QueueConsumer, the heartbeat loop), without saying how: a call ends     *)
(* exactly once; it returns a result only if the gateway accepted that     *)
(* very call, and it raises ServerRejectedError only if an error event was *)
(* handled while it was running.  Everything else (a timeout, a failing    *)
(* emit) may happen at any time.  Calls.tla implements this contract and   *)
(* Execution.tla is built on it.                                           *)
(***************************************************************************)
CONSTANT Threads      \* the threads that use the connection

VARIABLES
  calling,            \* threads that are inside call()
  accepted,           \* those whose request the gateway has acknowledged
  heard,              \* those an error event has reached since they entered
  ret                 \* how each thread's last call ended

vars == <<calling, accepted, heard, ret>>

Returns == {"result", "rejected", "timeout", "emit_failed", "not_connected"}

Init ==
  /\ calling = {} /\ accepted = {} /\ heard = {}
  /\ ret = [t \in Threads |-> "none"]

\* call() passes its is_connected check.
Enter(t) ==
  /\ t \notin calling
  /\ calling' = calling \cup {t}
  /\ ret' = [ret EXCEPT ![t] = "none"]
  /\ UNCHANGED <<accepted, heard>>

\* call() raises NotConnectedError before anything is sent.
Refuse(t) ==
  /\ t \notin calling
  /\ ret' = [ret EXCEPT ![t] = "not_connected"]
  /\ UNCHANGED <<calling, accepted, heard>>

\* The gateway acknowledges the request t is waiting for.
Accept(t) ==
  /\ t \in calling
  /\ accepted' = accepted \cup {t}
  /\ UNCHANGED <<calling, heard, ret>>

\* An error event reaches the threads in S: no correlation id says whose it is.
ErrorReaches(S) ==
  /\ S \subseteq calling
  /\ heard' = heard \cup S
  /\ UNCHANGED <<calling, accepted, ret>>

\* Mutation of Return: the next call starts with the previous one's acknowledgement.
ReturnKeepsAnswer(t, r) ==
  /\ t \in calling
  /\ r = "result" => t \in accepted
  /\ r = "rejected" => t \in heard
  /\ calling' = calling \ {t}
  /\ heard' = heard \ {t}
  /\ ret' = [ret EXCEPT ![t] = r]
  /\ UNCHANGED accepted

\* call() ends: it returns the acknowledgement or raises.
Return(t, r) ==
  /\ t \in calling
  /\ r = "result" => t \in accepted
  /\ r = "rejected" => t \in heard
  /\ calling' = calling \ {t}
  /\ accepted' = accepted \ {t}
  /\ heard' = heard \ {t}
  /\ ret' = [ret EXCEPT ![t] = r]

Next ==
  \/ \E t \in Threads : Enter(t) \/ Refuse(t) \/ Accept(t)
  \/ \E S \in SUBSET Threads : ErrorReaches(S)
  \/ \E t \in Threads, r \in Returns : Return(t, r)

SafeSpec == Init /\ [][Next]_vars

\* Every call ends: the wait on the acknowledgement has a timeout.
Spec == SafeSpec /\ \A t \in Threads : WF_vars(\E r \in Returns : Return(t, r))
=============================================================================
