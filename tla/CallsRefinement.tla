--------------------------- MODULE CallsRefinement ---------------------------
(* Proof that call() implements its contract: every step of Calls is a step *)
(* of CallContract, or changes nothing the contract speaks of.              *)
EXTENDS CallsProofs

Calling == {t \in Threads : InCall(t)}
Accepted == {t \in Threads : InCall(t) /\ verdict[Cur(t)] = "accepted"}
Heard == {t \in Threads : InCall(t) /\ "error" \in Keys(Cur(t))}

LEMMA InitRefines == Init => Contract!Init
BY DEF Init, Contract!Init, InCall

(* A call that begins has no verdict and no error yet. *)
LEMMA EnterRefines ==
  ASSUME IInv, IInv', NEW t \in Threads, Enter(t)
  PROVE  Contract!Enter(t)
<1>1. /\ Cur(t)' \in CallIds /\ Cur(t)'[1] = t /\ Cur(t)'[2] = made'[t]
      /\ made'[t] = made[t] + 1 /\ made[t] \in Nat
  BY CallsAssumption DEF Enter, IInv, TypeOK, Cur, CallIds
<1>2. verdict'[Cur(t)'] = "none"
  <2>1. ~Sent(Cur(t)')
    BY <1>1 DEF Sent
  <2> QED
    BY <1>1, <2>1 DEF IInv, RequestsServedOnce, Enter, gatewayVars
<1>3. "error" \notin Keys(Cur(t))'
  <2>1. outcome[Cur(t)'] = <<>> /\ outcome' = outcome
    BY <1>1 DEF IInv, FreshUntouched, Enter
  <2> QED
    BY <2>1 DEF Keys, Cur
<1>4. ASSUME NEW u \in Threads, u # t
      PROVE  /\ InCall(u)' = InCall(u) /\ Cur(u)' = Cur(u)
             /\ verdict'[Cur(u)'] = verdict[Cur(u)] /\ Keys(Cur(u))' = Keys(Cur(u))
  BY <1>4 DEF Enter, InCall, Cur, Keys, gatewayVars, IInv, TypeOK
<1>5. ~InCall(t) /\ InCall(t)'
  BY DEF Enter, InCall, IInv, TypeOK
<1> QED
  BY <1>2, <1>3, <1>4, <1>5 DEF Contract!Enter, Enter

(* The steps inside call() after which the call is still running, or already over. *)
LEMMA InnerStepsRefine ==
  ASSUME IInv, NEW t \in Threads, Register(t) \/ Emit(t) \/ Wake(t) \/ Unwind(t)
  PROVE  UNCHANGED <<Calling, Accepted, Heard, ret>>
<1>1. ASSUME NEW u \in Threads
      PROVE  /\ InCall(u)' = InCall(u) /\ Cur(u)' = Cur(u)
             /\ verdict'[Cur(u)'] = verdict[Cur(u)] /\ Keys(Cur(u))' = Keys(Cur(u))
  <2>1. InCall(u)' = InCall(u)
    BY DEF Register, Emit, Wake, Unwind, InCall, IInv, TypeOK
  <2>2. made' = made /\ verdict' = verdict /\ outcome' = outcome
    BY DEF Register, Emit, Wake, Unwind, gatewayVars
  <2> QED
    BY <2>1, <2>2 DEF Cur, Keys
<1>2. ret' = ret
  BY DEF Register, Emit, Wake, Unwind
<1> QED
  BY <1>1, <1>2 DEF Calling, Accepted, Heard

(* A call that ends returns what the contract lets it return. *)
LEMMA EndRefines ==
  ASSUME IInv, NEW t \in Threads, EmitFails(t) \/ TimeOut(t) \/ Conclude(t)
  PROVE  \E r \in Contract!Returns : Contract!Return(t, r)
<1>1. InCall(t) /\ ~InCall(t)' /\ ret' = [ret EXCEPT ![t] = ret'[t]]
  BY DEF EmitFails, TimeOut, Conclude, InCall, IInv, TypeOK
<1>2. ASSUME NEW u \in Threads, u # t
      PROVE  /\ InCall(u)' = InCall(u) /\ Cur(u)' = Cur(u)
             /\ verdict'[Cur(u)'] = verdict[Cur(u)] /\ Keys(Cur(u))' = Keys(Cur(u))
  <2>1. InCall(u)' = InCall(u)
    BY <1>2 DEF EmitFails, TimeOut, Conclude, InCall, IInv, TypeOK
  <2>2. made' = made /\ verdict' = verdict /\ outcome' = outcome
    BY DEF EmitFails, TimeOut, Conclude, gatewayVars
  <2> QED
    BY <2>1, <2>2 DEF Cur, Keys
<1>3. ret'[t] = "result" => t \in Accepted
  <2>1. SUFFICES ASSUME Conclude(t), "error" \notin Keys(Cur(t)) PROVE t \in Accepted
    BY DEF EmitFails, TimeOut, Conclude, IInv, TypeOK
  <2>2. Cur(t) \in CallIds /\ "result" \in Keys(Cur(t))
    BY <2>1, WokenHasCall DEF Conclude
  <2> QED
    BY <1>1, <2>2 DEF IInv, RequestsServedOnce, Accepted
<1>4. ret'[t] = "rejected" => t \in Heard
  BY <1>1 DEF EmitFails, TimeOut, Conclude, IInv, TypeOK, Heard
<1>5. ret'[t] \in Contract!Returns
  BY DEF EmitFails, TimeOut, Conclude, IInv, TypeOK, Contract!Returns
<1>6. Contract!Return(t, ret'[t])
  BY <1>1, <1>2, <1>3, <1>4 DEF Contract!Return, Accepted, Heard
<1> QED
  BY <1>5, <1>6

(* An acknowledgement adds a result, which the contract does not speak of. *)
LEMMA AckRefines ==
  ASSUME IInv, NEW c \in CallIds, AckCallback(c)
  PROVE  UNCHANGED <<Calling, Accepted, Heard, ret>>
<1>1. ASSUME NEW u \in Threads, InCall(u)
      PROVE  Cur(u) \in CallIds /\ ("error" \in Keys(Cur(u))' <=> "error" \in Keys(Cur(u)))
  <2>1. Cur(u) \in CallIds /\ Cur(u)' = Cur(u)
    BY <1>1, CurIsCall DEF AckCallback, threadVars, Cur, InCall, IInv, CallsCounted
  <2>2. CASE Cur(u) = c
    <3>1. Keys(Cur(u))' = Keys(c)' /\ Keys(Cur(u)) = Keys(c)
      BY <2>1, <2>2 DEF Keys
    <3>2. Keys(c)' = Keys(c) \cup {"result"}
      BY PutAddsKey DEF AckCallback, IInv, TypeOK
    <3> QED
      BY <2>1, <3>1, <3>2
  <2>3. CASE Cur(u) # c
    BY <2>1, <2>3, PutAddsKey DEF AckCallback, IInv, TypeOK, Keys
  <2> QED
    BY <2>1, <2>2, <2>3
<1>2. /\ pc' = pc /\ made' = made /\ verdict' = verdict /\ ret' = ret
      /\ \A u \in Threads : InCall(u)' = InCall(u) /\ Cur(u)' = Cur(u)
  BY DEF AckCallback, threadVars, InCall, Cur
<1> QED
  BY <1>1, <1>2 DEF Calling, Accepted, Heard

(* Waking one pending call is an error that reaches one thread, or a finished call. *)
LEMMA WakeRefines ==
  ASSUME IInv, NEW e \in ErrorIds, OnErrorWake(e)
  PROVE  \/ \E S \in SUBSET Threads : Contract!ErrorReaches(S)
         \/ UNCHANGED <<Calling, Accepted, Heard, ret>>
<1>1. PICK c \in todo[e] : Put("error", c)
  BY DEF OnErrorWake
<1>2. c \in CallIds
  BY <1>1 DEF IInv, TypeOK
<1>3. /\ pc' = pc /\ made' = made /\ verdict' = verdict /\ ret' = ret
      /\ \A u \in Threads : InCall(u)' = InCall(u) /\ Cur(u)' = Cur(u)
  BY DEF OnErrorWake, threadVars, gatewayVars, InCall, Cur
<1>4. ASSUME NEW u \in Threads, InCall(u)
      PROVE  /\ Cur(u) \in CallIds
             /\ "error" \in Keys(Cur(u))' <=> "error" \in Keys(Cur(u)) \/ Cur(u) = c
  <2>1. Cur(u) \in CallIds
    BY <1>4, CurIsCall DEF InCall, IInv, CallsCounted
  <2>2. CASE Cur(u) = c
    <3>1. Keys(Cur(u))' = Keys(c)' /\ Keys(Cur(u)) = Keys(c)
      BY <1>3, <2>2 DEF Keys
    <3>2. Keys(c)' = Keys(c) \cup {"error"}
      BY <1>1, <1>2, PutAddsKey DEF IInv, TypeOK
    <3> QED
      BY <2>1, <2>2, <3>1, <3>2
  <2>3. CASE Cur(u) # c
    BY <1>1, <1>2, <1>3, <2>1, <2>3, PutAddsKey DEF IInv, TypeOK, Keys
  <2> QED
    BY <2>1, <2>2, <2>3
<1> DEFINE S == {u \in Threads : InCall(u) /\ Cur(u) = c}
<1>5. Heard' = Heard \cup S /\ Calling' = Calling /\ Accepted' = Accepted
  BY <1>3, <1>4 DEF Heard, Calling, Accepted
<1>6. Contract!ErrorReaches(S)
  BY <1>3, <1>5 DEF Contract!ErrorReaches, Calling, Heard, Accepted
<1> QED
  BY <1>6

(* Accepting a request is what the contract calls Accept, if the call still runs. *)
LEMMA AcceptRefines ==
  ASSUME IInv, NEW c \in CallIds, GatewayAccepts(c)
  PROVE  \/ \E t \in Threads : Contract!Accept(t)
         \/ UNCHANGED <<Calling, Accepted, Heard, ret>>
<1>1. /\ ret' = ret /\ Calling' = Calling /\ Heard' = Heard
      /\ \A u \in Threads : InCall(u)' = InCall(u) /\ Cur(u)' = Cur(u)
  BY DEF GatewayAccepts, threadVars, InCall, Cur, Keys, Calling, Heard
<1>2. ASSUME NEW u \in Threads, InCall(u)
      PROVE  Cur(u) \in CallIds /\ Cur(u)[1] = u
  BY <1>2, CurIsCall DEF InCall, IInv, CallsCounted
<1>3. ASSUME NEW u \in Threads, InCall(u)
      PROVE  verdict'[Cur(u)] = "accepted" <=> verdict[Cur(u)] = "accepted" \/ Cur(u) = c
  BY <1>2, <1>3 DEF GatewayAccepts, Serve, IInv, TypeOK
<1>4. Accepted' = Accepted \cup {u \in Threads : InCall(u) /\ Cur(u) = c}
  BY <1>1, <1>3 DEF Accepted
<1>5. CASE InCall(c[1]) /\ Cur(c[1]) = c
  <2>1. c[1] \in Threads /\ Accepted' = Accepted \cup {c[1]}
    BY <1>2, <1>4, <1>5, CallIsPair
  <2>2. Contract!Accept(c[1])
    BY <1>1, <1>5, <2>1 DEF Contract!Accept, Accepted, Calling, Heard
  <2> QED
    BY <2>1, <2>2
<1>6. CASE ~(InCall(c[1]) /\ Cur(c[1]) = c)
  BY <1>1, <1>2, <1>4, <1>6
<1> QED
  BY <1>5, <1>6

(* A rejected request had no verdict before, so no call loses its acceptance. *)
LEMMA RejectRefines ==
  ASSUME IInv, NEW c \in CallIds, NEW e \in ErrorIds, GatewayRejects(c, e)
  PROVE  UNCHANGED <<Calling, Accepted, Heard, ret>>
<1>1. /\ ret' = ret /\ Calling' = Calling /\ Heard' = Heard
      /\ \A u \in Threads : InCall(u)' = InCall(u) /\ Cur(u)' = Cur(u)
  BY DEF GatewayRejects, threadVars, InCall, Cur, Keys, Calling, Heard
<1>2. ASSUME NEW u \in Threads, InCall(u)
      PROVE  verdict'[Cur(u)] = "accepted" <=> verdict[Cur(u)] = "accepted"
  <2>1. Cur(u) \in CallIds
    BY <1>2, CurIsCall DEF InCall, IInv, CallsCounted
  <2>2. verdict[c] = "none"
    BY DEF GatewayRejects, IInv, RequestsServedOnce
  <2> QED
    BY <2>1, <2>2 DEF GatewayRejects, Serve, IInv, TypeOK
<1> QED
  BY <1>1, <1>2 DEF Accepted

LEMMA StepRefines ==
  ASSUME IInv, IInv', [Next]_vars
  PROVE  [Contract!Next]_(Contract!vars)
<1> DEFINE Stutter == UNCHANGED <<Calling, Accepted, Heard, ret>>
<1>1. ASSUME NEW t \in Threads, Refuse(t) PROVE Contract!Refuse(t)
  BY <1>1 DEF Refuse, Contract!Refuse, InCall, Cur, Keys, gatewayVars
<1>2. ASSUME NEW t \in Threads, Progress(t)
      PROVE  Stutter \/ \E r \in Contract!Returns : Contract!Return(t, r)
  BY <1>2, InnerStepsRefine, EndRefines DEF Progress
<1>3. ASSUME NEW e \in ErrorIds, OnError(e)
      PROVE  Stutter \/ \E S \in SUBSET Threads : Contract!ErrorReaches(S)
  <2>1. CASE OnErrorWake(e)
    BY <2>1, WakeRefines
  <2>2. CASE OnErrorInHandshake(e) \/ OnErrorSnapshot(e) \/ OnErrorDone(e)
    BY <2>2 DEF OnErrorInHandshake, OnErrorSnapshot, OnErrorDone, threadVars, gatewayVars,
                Calling, Accepted, Heard, InCall, Cur, Keys
  <2> QED
    BY <1>3, <2>1, <2>2 DEF OnError
<1>4. CASE Gateway
  <2>1. ASSUME NEW e \in ErrorIds, SessionError(e) PROVE Stutter
    BY <2>1 DEF SessionError, threadVars, gatewayVars, Calling, Accepted, Heard, InCall, Cur, Keys
  <2> QED
    BY <1>4, <2>1, AcceptRefines, RejectRefines DEF Gateway, Contract!Next, Contract!vars,
       Calling, Accepted, Heard
<1>5. CASE Network
  <2>1. Stutter
    BY <1>5 DEF Network, OnDisconnect, LinkDown, Reconnect, OnConnected, threadVars, gatewayVars,
                Calling, Accepted, Heard, InCall, Cur, Keys
  <2> QED
    BY <2>1 DEF Contract!vars, Calling, Accepted, Heard
<1>6. CASE UNCHANGED vars
  <2>1. Stutter
    BY <1>6 DEF vars, threadVars, gatewayVars, Calling, Accepted, Heard, InCall, Cur, Keys
  <2> QED
    BY <2>1 DEF Contract!vars, Calling, Accepted, Heard
<1>7. CASE \E t \in Threads : Refuse(t) \/ Enter(t) \/ Progress(t)
  BY <1>1, <1>2, <1>7, EnterRefines DEF Contract!Next, Contract!vars, Calling, Accepted, Heard
<1>8. CASE \E c \in CallIds : AckCallback(c)
  BY <1>8, AckRefines DEF Contract!vars, Calling, Accepted, Heard
<1>9. CASE \E e \in ErrorIds : OnError(e)
  BY <1>3, <1>9 DEF Contract!Next, Contract!vars, Calling, Accepted, Heard
<1> QED
  BY <1>4, <1>5, <1>6, <1>7, <1>8, <1>9 DEF Next

(* call(), with its timeouts, its broadcast errors and its late acknowledgements, *)
(* does nothing its contract forbids: the safety part of ImplementsContract.      *)
THEOREM CallImplementsContract == Spec => Contract!SafeSpec
BY InitRefines, StepRefines, InvariantHolds, PTL DEF Spec, Contract!SafeSpec
=============================================================================
