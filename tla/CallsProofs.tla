----------------------------- MODULE CallsProofs -----------------------------
(* Proofs about Calls: the inductive invariant and the properties it implies. *)
EXTENDS Calls, TLAPS

(* A write into an outcome dict adds its key to one call object and no other. *)
LEMMA PutAddsKey ==
  ASSUME outcome \in [CallIds -> Seq({"result", "error"})],
         NEW c \in CallIds, NEW key \in {"result", "error"}, Put(key, c)
  PROVE  /\ outcome' \in [CallIds -> Seq({"result", "error"})]
         /\ \A d \in CallIds : d # c => outcome'[d] = outcome[d]
         /\ Keys(c)' = Keys(c) \cup {key}
         /\ Done(c)'
<1> DEFINE old == outcome[c]
<1> DEFINE new == IF key \in Keys(c) THEN old ELSE Append(old, key)
<1>1. outcome' = [outcome EXCEPT ![c] = new]
  BY DEF Put
<1>2. old \in Seq({"result", "error"})
  OBVIOUS
<1>3. new \in Seq({"result", "error"})
  BY <1>2
<1>4. outcome'[c] = new
  BY <1>1
<1>5. /\ outcome' \in [CallIds -> Seq({"result", "error"})]
      /\ \A d \in CallIds : d # c => outcome'[d] = outcome[d]
  BY <1>1, <1>3
<1>6. CASE key \in Keys(c)
  <2>1. outcome'[c] = old
    BY <1>4, <1>6
  <2>2. Keys(c)' = Keys(c)
    BY <2>1 DEF Keys
  <2>3. old # <<>>
    BY <1>6, <1>2 DEF Keys
  <2> QED
    BY <1>5, <1>6, <2>1, <2>2, <2>3 DEF Done
<1>7. CASE key \notin Keys(c)
  <2>1. outcome'[c] = Append(old, key)
    BY <1>4, <1>7
  <2>2. /\ DOMAIN Append(old, key) = 1..(Len(old) + 1)
        /\ DOMAIN old = 1..Len(old)
        /\ \A i \in 1..Len(old) : Append(old, key)[i] = old[i]
        /\ Append(old, key)[Len(old) + 1] = key
        /\ Len(old) \in Nat
    BY <1>2
  <2>3. Keys(c)' = {Append(old, key)[i] : i \in 1..(Len(old) + 1)}
    BY <2>1, <2>2 DEF Keys
  <2>4. Keys(c) = {old[i] : i \in 1..Len(old)}
    BY <2>2 DEF Keys
  <2>5. Keys(c)' = Keys(c) \cup {key}
    BY <2>2, <2>3, <2>4
  <2>6. Append(old, key) # <<>>
    BY <2>2
  <2> QED
    BY <1>5, <2>1, <2>5, <2>6 DEF Done
<1> QED
  BY <1>6, <1>7

(* Call objects that are untouched keep their keys. *)
LEMMA SameKeys ==
  ASSUME NEW c \in CallIds, outcome'[c] = outcome[c]
  PROVE  Keys(c)' = Keys(c) /\ Done(c)' = Done(c)
BY DEF Keys, Done

(* The call a thread is in, as a call object. *)
LEMMA CurIsCall ==
  ASSUME TypeOK, NEW t \in Threads, made[t] > 0
  PROVE  Cur(t) \in CallIds /\ Cur(t)[1] = t /\ Cur(t)[2] = made[t]
BY CallsAssumption DEF TypeOK, Cur, CallIds

LEMMA CallIsPair ==
  ASSUME NEW c \in CallIds
  PROVE  c[1] \in Threads /\ c[2] \in 1..MaxCalls /\ c = <<c[1], c[2]>>
BY DEF CallIds

(* The invariant holds initially. *)
LEMMA InitIInv == Init => IInv
<1> SUFFICES ASSUME Init PROVE IInv
  OBVIOUS
<1> USE CallsAssumption DEF Init
<1>1. TypeOK
  BY DEF TypeOK, CallIds, ErrorIds
<1>2. \A c \in CallIds : Keys(c) = {} /\ c[1] \in Threads /\ c[2] > 0
  BY CallIsPair DEF Keys
<1>3. NothingDangles
  BY DEF NothingDangles, Registered
<1>4. CallsCounted /\ EndedHasCall
  BY DEF CallsCounted, EndedHasCall
<1>5. RequestsServedOnce
  BY <1>2 DEF RequestsServedOnce
<1>6. FreshUntouched
  BY DEF FreshUntouched
<1>7. ErrorsHaveCause
  BY <1>2 DEF ErrorsHaveCause
<1>8. ResultWasAccepted /\ RejectionHasCause /\ ErrorReachesAll
  BY DEF ResultWasAccepted, RejectionHasCause, ErrorReachesAll
<1> QED
  BY <1>1, <1>3, <1>4, <1>5, <1>6, <1>7, <1>8 DEF IInv

-----------------------------------------------------------------------------
(* Every step preserves the invariant: one lemma for each of its parts.    *)

LEMMA TypePreserved == IInv /\ [Next]_vars => TypeOK'
<1> SUFFICES ASSUME IInv, [Next]_vars PROVE TypeOK'
  OBVIOUS
<1> USE CallsAssumption DEF IInv
<1>1. ASSUME NEW t \in Threads, Refuse(t) PROVE TypeOK'
  BY <1>1 DEF TypeOK, Refuse, envVars, gatewayVars, errorVars
<1>2. ASSUME NEW t \in Threads, Enter(t) PROVE TypeOK'
  BY <1>2 DEF TypeOK, Enter, envVars, gatewayVars, errorVars
<1>3. ASSUME NEW t \in Threads, Register(t) PROVE TypeOK'
  <2>1. Cur(t) \in CallIds
    BY <1>3, CurIsCall DEF Register, CallsCounted
  <2> QED
    BY <1>3, <2>1 DEF TypeOK, Register, envVars, gatewayVars, errorVars
<1>4. ASSUME NEW t \in Threads, Emit(t) PROVE TypeOK'
  <2>1. Cur(t) \in CallIds
    BY <1>4, CurIsCall DEF Emit, CallsCounted
  <2> QED
    BY <1>4, <2>1 DEF TypeOK, Emit, envVars, errorVars
<1>5. ASSUME NEW t \in Threads,
             EmitFails(t) \/ Wake(t) \/ TimeOut(t) \/ Conclude(t) \/ Unwind(t)
      PROVE  TypeOK'
  BY <1>5 DEF TypeOK, EmitFails, Wake, TimeOut, Conclude, Unwind, envVars, gatewayVars, errorVars
<1>6. ASSUME NEW c \in CallIds, AckCallback(c) PROVE TypeOK'
  <2>1. outcome' \in [CallIds -> Seq({"result", "error"})]
    BY <1>6, PutAddsKey DEF AckCallback, TypeOK
  <2> QED
    BY <1>6, <2>1 DEF TypeOK, AckCallback, envVars, threadVars, errorVars
<1>7. ASSUME NEW e \in ErrorIds, OnErrorWake(e) PROVE TypeOK'
  <2>1. PICK c \in todo[e] : Put("error", c) /\ todo' = [todo EXCEPT ![e] = @ \ {c}]
    BY <1>7 DEF OnErrorWake
  <2>2. outcome' \in [CallIds -> Seq({"result", "error"})]
    BY <2>1, PutAddsKey DEF TypeOK
  <2>3. todo' \in [ErrorIds -> SUBSET CallIds]
    BY <2>1 DEF TypeOK
  <2> QED
    BY <1>7, <2>2, <2>3 DEF TypeOK, OnErrorWake, envVars, threadVars, gatewayVars
<1>8. ASSUME NEW e \in ErrorIds, OnErrorInHandshake(e) \/ OnErrorSnapshot(e) \/ OnErrorDone(e)
      PROVE  TypeOK'
  <2>1. heard' \subseteq CallIds
    BY <1>8 DEF TypeOK, OnErrorInHandshake, OnErrorSnapshot, OnErrorDone, InFlight
  <2>2. errors' \in [ErrorIds -> {"unsent", "flying", "waking", "handled"}]
    BY <1>8 DEF TypeOK, OnErrorInHandshake, OnErrorSnapshot, OnErrorDone
  <2>3. todo' \in [ErrorIds -> SUBSET CallIds]
    BY <1>8 DEF TypeOK, OnErrorInHandshake, OnErrorSnapshot, OnErrorDone
  <2> QED
    BY <1>8, <2>1, <2>2, <2>3 DEF TypeOK, OnErrorInHandshake, OnErrorSnapshot, OnErrorDone,
                                  envVars, threadVars, gatewayVars
<1>9. ASSUME NEW c \in CallIds, GatewayAccepts(c) PROVE TypeOK'
  BY <1>9 DEF TypeOK, GatewayAccepts, Serve, envVars, threadVars, errorVars
<1>10. ASSUME NEW c \in CallIds, NEW e \in ErrorIds, GatewayRejects(c, e) PROVE TypeOK'
  BY <1>10 DEF TypeOK, GatewayRejects, Serve, envVars, threadVars
<1>11. ASSUME NEW e \in ErrorIds, SessionError(e) PROVE TypeOK'
  BY <1>11 DEF TypeOK, SessionError, envVars, threadVars, gatewayVars
<1>12. CASE Network
  <2>1. CASE OnDisconnect
    <3>1. drops' \in 0..MaxDrops
      BY <2>1 DEF TypeOK, OnDisconnect
    <3>2. info' \in BOOLEAN /\ link' \in {"up", "dropping", "down"}
      BY <2>1, Zenon DEF OnDisconnect
    <3> QED
      BY <2>1, <3>1, <3>2 DEF TypeOK, OnDisconnect, threadVars, gatewayVars, errorVars
  <2>3. CASE LinkDown \/ OnConnected
    BY <2>3 DEF TypeOK, LinkDown, OnConnected, envVars, threadVars, gatewayVars, errorVars
  <2>2. CASE Reconnect
    <3>1. errors' \in [ErrorIds -> {"unsent", "flying", "waking", "handled"}]
      BY <2>2 DEF Reconnect, TypeOK
    <3> QED
      BY <2>2, <3>1 DEF TypeOK, Reconnect, threadVars, gatewayVars
  <2> QED
    BY <1>12, <2>1, <2>2, <2>3 DEF Network
<1>13. CASE UNCHANGED vars
  BY <1>13 DEF TypeOK, vars, envVars, threadVars, gatewayVars, errorVars
<1> QED
  BY <1>1, <1>2, <1>3, <1>4, <1>5, <1>6, <1>7, <1>8, <1>9, <1>10, <1>11, <1>12, <1>13
  DEF Next, Progress, OnError, Gateway

LEMMA DanglingPreserved == IInv /\ [Next]_vars => NothingDangles'
<1> SUFFICES ASSUME IInv, [Next]_vars PROVE NothingDangles'
  OBVIOUS
<1> USE CallsAssumption DEF IInv
<1>1. ASSUME NEW t \in Threads, Refuse(t) PROVE NothingDangles'
  BY <1>1 DEF NothingDangles, Refuse, Registered, Cur
<1>2. ASSUME NEW t \in Threads, Enter(t) PROVE NothingDangles'
  <2>1. \A u \in Threads : Registered(u)' <=> Registered(u)
    BY <1>2 DEF Enter, Registered, TypeOK
  <2>2. \A u \in Threads : Registered(u) => Cur(u)' = Cur(u)
    BY <1>2 DEF Enter, Registered, Cur, TypeOK
  <2> QED
    BY <1>2, <2>1, <2>2 DEF NothingDangles, Enter
<1>3. ASSUME NEW t \in Threads, Register(t) PROVE NothingDangles'
  <2>1. \A u \in Threads : Registered(u)' <=> Registered(u) \/ u = t
    BY <1>3 DEF Register, Registered, TypeOK
  <2>2. \A u \in Threads : Cur(u)' = Cur(u)
    BY <1>3 DEF Register, Cur
  <2> QED
    BY <1>3, <2>1, <2>2 DEF NothingDangles, Register
<1>4. ASSUME NEW t \in Threads,
             Emit(t) \/ EmitFails(t) \/ Wake(t) \/ TimeOut(t) \/ Conclude(t)
      PROVE  NothingDangles'
  <2>1. \A u \in Threads : Registered(u)' <=> Registered(u)
    BY <1>4 DEF Emit, EmitFails, Wake, TimeOut, Conclude, Registered, TypeOK
  <2>2. pending' = pending /\ \A u \in Threads : Cur(u)' = Cur(u)
    BY <1>4 DEF Emit, EmitFails, Wake, TimeOut, Conclude, Cur
  <2> QED
    BY <2>1, <2>2 DEF NothingDangles
<1>5. ASSUME NEW t \in Threads, Unwind(t) PROVE NothingDangles'
  <2>1. \A u \in Threads : Registered(u)' <=> Registered(u) /\ u # t
    BY <1>5 DEF Unwind, Registered, TypeOK
  <2>2. \A u \in Threads : Cur(u)' = Cur(u) /\ (Cur(u) = Cur(t) => u = t)
    BY <1>5 DEF Unwind, Cur
  <2> QED
    BY <1>5, <2>1, <2>2 DEF NothingDangles, Unwind
<1>6. CASE UNCHANGED threadVars
  BY <1>6 DEF NothingDangles, threadVars, Registered, Cur
<1> QED
  BY <1>1, <1>2, <1>3, <1>4, <1>5, <1>6
  DEF Next, Progress, OnError, OnErrorInHandshake, OnErrorSnapshot, OnErrorWake, OnErrorDone,
      AckCallback, Gateway, GatewayAccepts, GatewayRejects, SessionError,
      Network, OnDisconnect, LinkDown, Reconnect, OnConnected, vars

(* A call object only moves forward: it is sent once and over for good. *)
LEMMA CallsAdvance ==
  ASSUME IInv, [Next]_vars, NEW c \in CallIds
  PROVE  /\ Sent(c) => Sent(c)'
         /\ Over(c) => Over(c)'
         /\ made[c[1]] =< made'[c[1]]
<1> USE CallsAssumption, CallIsPair DEF IInv
<1> DEFINE Goal == /\ Sent(c) => Sent(c)'
                   /\ Over(c) => Over(c)'
                   /\ made[c[1]] =< made'[c[1]]
<1>1. ASSUME NEW t \in Threads, Enter(t) PROVE Goal
  BY <1>1 DEF Enter, Sent, Over, TypeOK
<1>2. ASSUME NEW t \in Threads, Refuse(t) \/ Progress(t) PROVE Goal
  <2>1. made' = made /\ made[c[1]] \in Nat
    BY <1>2 DEF Progress, Refuse, Register, Emit, EmitFails, Wake, TimeOut, Conclude, Unwind, TypeOK
  <2>2. pc[c[1]] \notin {"created", "registered"} => pc'[c[1]] \notin {"created", "registered"}
    BY <1>2 DEF Progress, Refuse, Register, Emit, EmitFails, Wake, TimeOut, Conclude, Unwind, TypeOK
  <2>3. pc[c[1]] \in {"unwinding", "idle"} => pc'[c[1]] \in {"unwinding", "idle"}
    BY <1>2 DEF Progress, Refuse, Register, Emit, EmitFails, Wake, TimeOut, Conclude, Unwind, TypeOK
  <2> QED
    BY <2>1, <2>2, <2>3 DEF Sent, Over
<1>3. CASE UNCHANGED threadVars
  BY <1>3 DEF threadVars, Sent, Over, TypeOK
<1> QED
  BY <1>1, <1>2, <1>3
  DEF Next, OnError, OnErrorInHandshake, OnErrorSnapshot, OnErrorWake, OnErrorDone,
      AckCallback, Gateway, GatewayAccepts, GatewayRejects, SessionError,
      Network, OnDisconnect, LinkDown, Reconnect, OnConnected, vars

(* Only AckCallback and OnErrorWake write into a call object: they add a key. *)
LEMMA OutcomeSteps ==
  ASSUME IInv, [Next]_vars, NEW c \in CallIds
  PROVE  \/ outcome'[c] = outcome[c] /\ Keys(c)' = Keys(c)
         \/ /\ Keys(c)' = Keys(c) \cup {"result"}
            /\ Done(c)' /\ AckCallback(c)
         \/ /\ Keys(c)' = Keys(c) \cup {"error"} /\ Done(c)'
            /\ \E e \in ErrorIds : OnErrorWake(e) /\ c \in todo[e]
<1> DEFINE Goal ==
         \/ outcome'[c] = outcome[c] /\ Keys(c)' = Keys(c)
         \/ /\ Keys(c)' = Keys(c) \cup {"result"}
            /\ Done(c)' /\ AckCallback(c)
         \/ /\ Keys(c)' = Keys(c) \cup {"error"} /\ Done(c)'
            /\ \E e \in ErrorIds : OnErrorWake(e) /\ c \in todo[e]
<1>1. CASE UNCHANGED outcome
  BY <1>1, SameKeys
<1>2. ASSUME NEW d \in CallIds, AckCallback(d) PROVE Goal
  BY <1>2, PutAddsKey, SameKeys DEF AckCallback, IInv, TypeOK
<1>3. ASSUME NEW e \in ErrorIds, OnErrorWake(e) PROVE Goal
  <2>1. PICK d \in todo[e] : Put("error", d)
    BY <1>3 DEF OnErrorWake
  <2>2. d \in CallIds
    BY <1>3 DEF IInv, TypeOK
  <2> QED
    BY <1>3, <2>1, <2>2, PutAddsKey, SameKeys DEF IInv, TypeOK
<1> QED
  BY <1>1, <1>2, <1>3
  DEF Next, Refuse, Enter, Progress, Register, Emit, EmitFails, Wake, TimeOut, Conclude, Unwind,
      OnError, OnErrorInHandshake, OnErrorSnapshot, OnErrorDone,
      Gateway, GatewayAccepts, GatewayRejects, SessionError,
      Network, OnDisconnect, LinkDown, Reconnect, OnConnected, vars,
      envVars, threadVars, gatewayVars, errorVars

LEMMA CountedPreserved == IInv /\ [Next]_vars => CallsCounted'
<1> SUFFICES ASSUME IInv, [Next]_vars, NEW u \in Threads
             PROVE  /\ pc'[u] # "idle" => made'[u] > 0
                    /\ pc'[u] = "woken" => Done(Cur(u))'
  BY DEF CallsCounted
<1> USE CallsAssumption DEF IInv
<1> DEFINE Goal == /\ pc'[u] # "idle" => made'[u] > 0
                   /\ pc'[u] = "woken" => Done(Cur(u))'
<1>1. ASSUME NEW t \in Threads, Refuse(t) PROVE Goal
  BY <1>1 DEF Refuse, CallsCounted, Done, Cur
<1>2. ASSUME NEW t \in Threads, Enter(t) PROVE Goal
  BY <1>2 DEF Enter, CallsCounted, Done, Cur, TypeOK
<1>3. ASSUME NEW t \in Threads, Progress(t) PROVE Goal
  <2>1. made' = made /\ outcome' = outcome
    BY <1>3 DEF Progress, Register, Emit, EmitFails, Wake, TimeOut, Conclude, Unwind
  <2>2. pc'[u] # "idle" => pc[u] # "idle"
    BY <1>3 DEF Progress, Register, Emit, EmitFails, Wake, TimeOut, Conclude, Unwind, TypeOK
  <2>3. pc'[u] = "woken" => pc[u] = "woken" \/ Done(Cur(u))
    BY <1>3 DEF Progress, Register, Emit, EmitFails, Wake, TimeOut, Conclude, Unwind, TypeOK
  <2> QED
    BY <2>1, <2>2, <2>3 DEF CallsCounted, Done, Cur
<1>4. CASE UNCHANGED threadVars
  <2>1. pc' = pc /\ made' = made
    BY <1>4 DEF threadVars
  <2>2. ASSUME pc[u] = "woken" PROVE Done(Cur(u))'
    <3>1. Cur(u) \in CallIds /\ Done(Cur(u)) /\ Cur(u)' = Cur(u)
      BY <2>1, <2>2, CurIsCall DEF CallsCounted, Cur
    <3> QED
      BY <3>1, OutcomeSteps DEF Done
  <2> QED
    BY <2>1, <2>2 DEF CallsCounted
<1> QED
  BY <1>1, <1>2, <1>3, <1>4
  DEF Next, OnError, OnErrorInHandshake, OnErrorSnapshot, OnErrorWake, OnErrorDone,
      AckCallback, Gateway, GatewayAccepts, GatewayRejects, SessionError,
      Network, OnDisconnect, LinkDown, Reconnect, OnConnected, vars

(* The gateway's side of a request moves only when it is emitted, served, answered or lost. *)
LEMMA GatewaySteps ==
  ASSUME IInv, [Next]_vars, NEW c \in CallIds
  PROVE  /\ \/ verdict'[c] = verdict[c]
            \/ c \in inbox /\ GatewayAccepts(c)
            \/ c \in inbox /\ \E e \in ErrorIds : GatewayRejects(c, e)
         /\ c \in inbox' => \/ c \in inbox /\ verdict'[c] = verdict[c]
                           \/ \E t \in Threads : Emit(t) /\ c = Cur(t) /\ verdict' = verdict
         /\ c \in acks' => c \in acks \/ GatewayAccepts(c)
<1> DEFINE Goal ==
         /\ \/ verdict'[c] = verdict[c]
            \/ c \in inbox /\ GatewayAccepts(c)
            \/ c \in inbox /\ \E e \in ErrorIds : GatewayRejects(c, e)
         /\ c \in inbox' => \/ c \in inbox /\ verdict'[c] = verdict[c]
                           \/ \E t \in Threads : Emit(t) /\ c = Cur(t) /\ verdict' = verdict
         /\ c \in acks' => c \in acks \/ GatewayAccepts(c)
<1>1. CASE UNCHANGED gatewayVars
  BY <1>1 DEF gatewayVars
<1>2. ASSUME NEW t \in Threads, Emit(t) PROVE Goal
  BY <1>2 DEF Emit
<1>3. ASSUME NEW d \in CallIds, GatewayAccepts(d) PROVE Goal
  BY <1>3 DEF GatewayAccepts, Serve, IInv, TypeOK
<1>4. ASSUME NEW d \in CallIds, NEW e \in ErrorIds, GatewayRejects(d, e) PROVE Goal
  BY <1>4 DEF GatewayRejects, Serve, IInv, TypeOK
<1>5. ASSUME NEW d \in CallIds, AckCallback(d) PROVE Goal
  BY <1>5 DEF AckCallback
<1>6. CASE LinkDown
  BY <1>6 DEF LinkDown
<1> QED
  BY <1>1, <1>2, <1>3, <1>4, <1>5, <1>6
  DEF Next, Refuse, Enter, Progress, Register, EmitFails, Wake, TimeOut, Conclude, Unwind,
      OnError, OnErrorInHandshake, OnErrorSnapshot, OnErrorWake, OnErrorDone,
      Gateway, SessionError, Network, OnDisconnect, Reconnect, OnConnected, vars

LEMMA ServedOncePreserved == IInv /\ [Next]_vars => RequestsServedOnce'
<1> SUFFICES ASSUME IInv, [Next]_vars, NEW c \in CallIds
             PROVE  /\ ~Sent(c)' => c \notin inbox' /\ verdict'[c] = "none"
                    /\ c \in inbox' => verdict'[c] = "none"
                    /\ c \in acks' \/ "result" \in Keys(c)' => verdict'[c] = "accepted"
  BY DEF RequestsServedOnce
<1> USE DEF IInv
<1>1. Sent(c) => Sent(c)'
  BY CallsAdvance
<1>2. ASSUME NEW t \in Threads, Emit(t), c = Cur(t)
      PROVE  ~Sent(c) /\ Sent(c)'
  <2>1. c[1] = t /\ c[2] = made[t]
    BY <1>2, CurIsCall DEF Emit, CallsCounted
  <2> QED
    BY <1>2, <2>1 DEF Emit, Sent, TypeOK
<1>3. ~Sent(c)' => c \notin inbox' /\ verdict'[c] = "none"
  BY <1>1, <1>2, GatewaySteps DEF RequestsServedOnce
<1>4. c \in inbox' => verdict'[c] = "none"
  BY <1>2, GatewaySteps DEF RequestsServedOnce
<1>5. GatewayAccepts(c) => verdict'[c] = "accepted"
  BY DEF GatewayAccepts, Serve, TypeOK
<1>6. verdict[c] = "accepted" => verdict'[c] = "accepted"
  BY <1>5, GatewaySteps DEF RequestsServedOnce
<1>7. "result" \in Keys(c)' => "result" \in Keys(c) \/ c \in acks
  BY OutcomeSteps DEF AckCallback
<1>8. c \in acks' \/ "result" \in Keys(c)' => verdict'[c] = "accepted"
  BY <1>5, <1>6, <1>7, GatewaySteps DEF RequestsServedOnce
<1> QED
  BY <1>3, <1>4, <1>8

(* Only the snapshot of _on_error hands a call to a waker, and it was registered. *)
LEMMA TodoSteps ==
  ASSUME IInv, [Next]_vars, NEW e \in ErrorIds
  PROVE  \/ todo'[e] \subseteq todo[e]
         \/ OnErrorSnapshot(e) /\ todo'[e] = pending
<1>1. CASE UNCHANGED todo
  BY <1>1
<1>2. ASSUME NEW f \in ErrorIds, OnErrorSnapshot(f) \/ OnErrorWake(f)
      PROVE  \/ todo'[e] \subseteq todo[e]
             \/ OnErrorSnapshot(e) /\ todo'[e] = pending
  BY <1>2 DEF OnErrorSnapshot, OnErrorWake, IInv, TypeOK
<1> QED
  BY <1>1, <1>2
  DEF Next, Refuse, Enter, Progress, Register, Emit, EmitFails, Wake, TimeOut, Conclude, Unwind,
      AckCallback, OnError, OnErrorInHandshake, OnErrorDone,
      Gateway, GatewayAccepts, GatewayRejects, SessionError,
      Network, OnDisconnect, LinkDown, Reconnect, OnConnected, vars, errorVars

(* A registered call object is the current call of its thread. *)
LEMMA PendingIsCurrent ==
  ASSUME IInv, NEW c \in pending
  PROVE  /\ c \in CallIds /\ c[1] \in Threads /\ c = Cur(c[1]) /\ c[2] = made[c[1]]
         /\ Registered(c[1])
<1>1. PICK t \in Threads : Registered(t) /\ c = Cur(t)
  BY DEF IInv, NothingDangles
<1>2. made[t] > 0
  BY <1>1 DEF IInv, CallsCounted, Registered
<1> QED
  BY <1>1, <1>2, CurIsCall DEF IInv

LEMMA FreshPreserved == IInv /\ [Next]_vars => FreshUntouched'
<1> SUFFICES ASSUME IInv, [Next]_vars, NEW c \in CallIds, c[2] > made'[c[1]]
             PROVE  outcome'[c] = <<>> /\ \A e \in ErrorIds : c \notin todo'[e]
  BY DEF FreshUntouched
<1>1. made[c[1]] \in Nat /\ made'[c[1]] \in Nat /\ c[2] \in Nat
  BY TypePreserved, CallIsPair DEF IInv, TypeOK
<1>2. c[2] > made[c[1]]
  BY <1>1, CallsAdvance
<1>3. outcome[c] = <<>> /\ \A e \in ErrorIds : c \notin todo[e]
  BY <1>2 DEF IInv, FreshUntouched
<1>4. c \notin acks
  BY <1>1, <1>2, <1>3 DEF IInv, RequestsServedOnce, Sent
<1>5. outcome'[c] = <<>>
  BY <1>3, <1>4, OutcomeSteps DEF AckCallback
<1>6. c \notin pending
  BY <1>1, <1>2, PendingIsCurrent
<1> QED
  BY <1>3, <1>5, <1>6, TodoSteps

(* Handling an error is remembered by the calls it may concern. *)
LEMMA HeardGrows ==
  ASSUME [Next]_vars
  PROVE  \/ heard' = heard
         \/ \E e \in ErrorIds : OnErrorSnapshot(e) /\ heard' = heard \cup InFlight
BY DEF Next, Refuse, Enter, Progress, Register, Emit, EmitFails, Wake, TimeOut, Conclude, Unwind,
      AckCallback, OnError, OnErrorInHandshake, OnErrorSnapshot, OnErrorWake, OnErrorDone,
      Gateway, GatewayAccepts, GatewayRejects, SessionError,
      Network, OnDisconnect, LinkDown, Reconnect, OnConnected, vars, errorVars

LEMMA CausePreserved == IInv /\ [Next]_vars => ErrorsHaveCause'
<1> SUFFICES ASSUME IInv, [Next]_vars, NEW c \in CallIds,
                    "error" \in Keys(c)' \/ \E e \in ErrorIds : c \in todo'[e]
             PROVE  c \in heard' \/ Over(c)'
  BY DEF ErrorsHaveCause
<1>1. CASE "error" \in Keys(c) \/ \E e \in ErrorIds : c \in todo[e]
  BY <1>1, HeardGrows, CallsAdvance DEF IInv, ErrorsHaveCause
<1>2. CASE \E e \in ErrorIds : OnErrorSnapshot(e) /\ c \in pending
  <2>1. heard' = heard \cup InFlight /\ pc' = pc /\ made' = made
    BY <1>2 DEF OnErrorSnapshot, threadVars
  <2>2. CASE pc[c[1]] = "unwinding"
    BY <1>2, <2>1, <2>2, PendingIsCurrent DEF Over
  <2>3. CASE pc[c[1]] # "unwinding"
    BY <1>2, <2>1, <2>3 DEF InFlight
  <2> QED
    BY <2>2, <2>3
<1>3. "error" \in Keys(c)' => "error" \in Keys(c) \/ \E e \in ErrorIds : c \in todo[e]
  BY OutcomeSteps
<1> QED
  BY <1>1, <1>2, <1>3, TodoSteps

(* How a call ended is decided when it leaves the wait, from its own call object. *)
LEMMA RetSteps ==
  ASSUME IInv, [Next]_vars, NEW t \in Threads
  PROVE  \/ ret'[t] = ret[t] /\ made'[t] = made[t]
         \/ ret'[t] \notin {"result", "rejected"}
         \/ /\ Conclude(t) /\ Cur(t)' = Cur(t)
            /\ ret'[t] = IF "error" \in Keys(Cur(t)) THEN "rejected" ELSE "result"
<1> DEFINE Goal == \/ ret'[t] = ret[t] /\ made'[t] = made[t]
                   \/ ret'[t] \notin {"result", "rejected"}
                   \/ /\ Conclude(t) /\ Cur(t)' = Cur(t)
                      /\ ret'[t] = IF "error" \in Keys(Cur(t)) THEN "rejected" ELSE "result"
<1>1. ASSUME NEW u \in Threads, Refuse(u) \/ Enter(u) \/ EmitFails(u) \/ TimeOut(u)
      PROVE  Goal
  BY <1>1 DEF Refuse, Enter, EmitFails, TimeOut, IInv, TypeOK
<1>2. ASSUME NEW u \in Threads, Conclude(u) PROVE Goal
  BY <1>2 DEF Conclude, IInv, TypeOK, Cur
<1>3. CASE UNCHANGED <<ret, made>>
  BY <1>3
<1> QED
  BY <1>1, <1>2, <1>3
  DEF Next, Progress, Register, Emit, Wake, Unwind,
      AckCallback, OnError, OnErrorInHandshake, OnErrorSnapshot, OnErrorWake, OnErrorDone,
      Gateway, GatewayAccepts, GatewayRejects, SessionError,
      Network, OnDisconnect, LinkDown, Reconnect, OnConnected, vars, threadVars

(* A thread whose last call ended with a result or an error has made a call. *)
LEMMA WokenHasCall ==
  ASSUME IInv, NEW t \in Threads, pc[t] = "woken"
  PROVE  /\ Cur(t) \in CallIds /\ ~Over(Cur(t))
         /\ "result" \in Keys(Cur(t)) \/ "error" \in Keys(Cur(t))
<1> USE DEF IInv
<1>1. /\ Cur(t) \in CallIds /\ Cur(t)[1] = t /\ Cur(t)[2] = made[t]
      /\ outcome[Cur(t)] # <<>> /\ made[t] \in Nat
  BY CurIsCall DEF CallsCounted, Done, TypeOK
<1>2. ~Over(Cur(t))
  BY <1>1 DEF Over
<1>3. outcome[Cur(t)] \in Seq({"result", "error"})
  BY <1>1 DEF TypeOK
<1>4. /\ 1 \in DOMAIN outcome[Cur(t)] /\ outcome[Cur(t)][1] \in {"result", "error"}
  BY <1>1, <1>3
<1> QED
  BY <1>1, <1>2, <1>4 DEF Keys

LEMMA ResultPreserved == IInv /\ [Next]_vars => ResultWasAccepted'
<1> SUFFICES ASSUME IInv, [Next]_vars, NEW t \in Threads, ret'[t] = "result"
             PROVE  verdict'[Cur(t)'] = "accepted"
  BY DEF ResultWasAccepted
<1>1. ASSUME NEW c \in CallIds, verdict[c] = "accepted" PROVE verdict'[c] = "accepted"
  BY <1>1, GatewaySteps DEF IInv, RequestsServedOnce, GatewayAccepts, Serve, TypeOK
<1>2. CASE ret[t] = "result" /\ made'[t] = made[t]
  <2>1. verdict[Cur(t)] = "accepted" /\ Cur(t)' = Cur(t)
    BY <1>2 DEF IInv, ResultWasAccepted, Cur
  <2>2. CASE Cur(t) \in CallIds
    BY <1>1, <2>1, <2>2
  <2>3. CASE Cur(t) \notin CallIds
    BY <1>2, <2>3, CurIsCall DEF IInv, EndedHasCall
  <2> QED
    BY <2>2, <2>3
<1>3. CASE Conclude(t) /\ Cur(t)' = Cur(t) /\ "error" \notin Keys(Cur(t))
  <2>1. Cur(t) \in CallIds /\ "result" \in Keys(Cur(t))
    BY <1>3, WokenHasCall DEF Conclude
  <2>2. verdict[Cur(t)] = "accepted"
    BY <2>1 DEF IInv, RequestsServedOnce
  <2> QED
    BY <1>1, <1>3, <2>1, <2>2
<1> QED
  BY <1>2, <1>3, RetSteps

LEMMA RejectionPreserved == IInv /\ [Next]_vars => RejectionHasCause'
<1> SUFFICES ASSUME IInv, [Next]_vars, NEW t \in Threads, ret'[t] = "rejected"
             PROVE  Cur(t)' \in heard'
  BY DEF RejectionHasCause
<1>1. CASE ret[t] = "rejected" /\ made'[t] = made[t]
  <2>1. Cur(t) \in heard /\ Cur(t)' = Cur(t) /\ Cur(t) \in CallIds
    BY <1>1, CurIsCall DEF IInv, RejectionHasCause, Cur, EndedHasCall
  <2> QED
    BY <2>1, HeardGrows
<1>2. CASE Conclude(t) /\ Cur(t)' = Cur(t) /\ "error" \in Keys(Cur(t))
  <2>1. Cur(t) \in CallIds /\ ~Over(Cur(t))
    BY <1>2, WokenHasCall DEF Conclude
  <2>2. Cur(t) \in heard
    BY <1>2, <2>1 DEF IInv, ErrorsHaveCause
  <2> QED
    BY <1>2, <2>1, <2>2, HeardGrows
<1> QED
  BY <1>1, <1>2, RetSteps

LEMMA EndedPreserved == IInv /\ [Next]_vars => EndedHasCall'
<1> SUFFICES ASSUME IInv, [Next]_vars, NEW t \in Threads, ret'[t] \in {"result", "rejected"}
             PROVE  made'[t] > 0
  BY DEF EndedHasCall
<1>1. CASE Conclude(t)
  BY <1>1 DEF Conclude, IInv, CallsCounted
<1> QED
  BY <1>1, RetSteps DEF IInv, EndedHasCall

LEMMA ReachesPreserved == IInv /\ [Next]_vars => ErrorReachesAll'
<1> SUFFICES ASSUME IInv, [Next]_vars, NEW c \in CallIds, c \in heard'
             PROVE  \/ "error" \in Keys(c)'
                    \/ \E e \in ErrorIds : errors'[e] = "waking" /\ c \in todo'[e]
  BY DEF ErrorReachesAll
<1> DEFINE Goal == \/ "error" \in Keys(c)'
                   \/ \E e \in ErrorIds : errors'[e] = "waking" /\ c \in todo'[e]
<1>1. CASE c \in heard
  <2>1. CASE "error" \in Keys(c)
    BY <2>1, OutcomeSteps
  <2>2. CASE "error" \notin Keys(c)
    <3>1. PICK e \in ErrorIds : errors[e] = "waking" /\ c \in todo[e]
      BY <1>1, <2>2 DEF IInv, ErrorReachesAll
    <3>2. CASE UNCHANGED <<errors, todo>>
      BY <3>1, <3>2
    <3>3. ASSUME NEW f \in ErrorIds, OnErrorSnapshot(f) PROVE Goal
      <4>1. f # e
        BY <3>1, <3>3 DEF OnErrorSnapshot
      <4> QED
        BY <3>1, <3>3, <4>1 DEF OnErrorSnapshot, IInv, TypeOK
    <3>4. ASSUME NEW f \in ErrorIds, OnErrorWake(f) PROVE Goal
      <4>1. PICK d \in todo[f] : Put("error", d) /\ todo' = [todo EXCEPT ![f] = @ \ {d}]
        BY <3>4 DEF OnErrorWake
      <4>2. d \in CallIds
        BY <4>1, <3>4 DEF IInv, TypeOK
      <4>3. CASE d = c
        BY <4>1, <4>2, <4>3, PutAddsKey DEF IInv, TypeOK
      <4>4. CASE d # c
        BY <3>1, <3>4, <4>1, <4>4 DEF OnErrorWake, IInv, TypeOK
      <4> QED
        BY <4>3, <4>4
    <3>5. ASSUME NEW f \in ErrorIds, OnErrorInHandshake(f) \/ OnErrorDone(f) PROVE Goal
      <4>1. f # e
        BY <3>1, <3>5 DEF OnErrorInHandshake, OnErrorDone
      <4> QED
        BY <3>1, <3>5, <4>1 DEF OnErrorInHandshake, OnErrorDone, IInv, TypeOK
    <3>6. ASSUME NEW f \in ErrorIds,
                 SessionError(f) \/ \E d \in CallIds : GatewayRejects(d, f)
          PROVE  Goal
      BY <3>1, <3>6 DEF SessionError, GatewayRejects, IInv, TypeOK
    <3>7. CASE Reconnect
      BY <3>1, <3>7 DEF Reconnect
    <3> QED
      BY <3>2, <3>3, <3>4, <3>5, <3>6, <3>7
      DEF Next, Refuse, Enter, Progress, Register, Emit, EmitFails, Wake, TimeOut, Conclude, Unwind,
          AckCallback, OnError, Gateway, GatewayAccepts,
          Network, OnDisconnect, LinkDown, OnConnected, vars, errorVars
  <2> QED
    BY <2>1, <2>2
<1>2. CASE c \notin heard
  <2>1. PICK e \in ErrorIds : OnErrorSnapshot(e) /\ c \in pending
    BY <1>2, HeardGrows DEF InFlight
  <2> QED
    BY <2>1 DEF OnErrorSnapshot, IInv, TypeOK
<1> QED
  BY <1>1, <1>2

-----------------------------------------------------------------------------
(* The invariant is inductive. *)
LEMMA IInvInductive == IInv /\ [Next]_vars => IInv'
BY TypePreserved, DanglingPreserved, CountedPreserved, ServedOncePreserved, FreshPreserved,
   CausePreserved, ResultPreserved, RejectionPreserved, EndedPreserved, ReachesPreserved
DEF IInv

LEMMA InvariantHolds == Spec => []IInv
BY InitIInv, IInvInductive, PTL DEF Spec

(* The variables of Calls keep their types, whatever the threads, the gateway *)
(* and the network do.                                                        *)
THEOREM CallsTypeCorrect == Spec => []TypeOK
BY InvariantHolds, PTL DEF IInv

(* _pending_calls always holds exactly the calls that are running: the finally *)
(* clause of call() leaves nothing dangling however the call ended.            *)
THEOREM PendingCallsExact == Spec => []NothingDangles
BY InvariantHolds, PTL DEF IInv

(* A result handed out by call() is that of an accepted request of that very   *)
(* call, even when the acknowledgement of an earlier one arrives late.         *)
THEOREM ResultsAreOwn == Spec => []ResultWasAccepted
BY InvariantHolds, PTL DEF IInv

(* A call is rejected only if _on_error handled an error while it was running. *)
THEOREM RejectionsAreCaused == Spec => []RejectionHasCause
BY InvariantHolds, PTL DEF IInv

(* _on_error leaves out no call that was in flight when it handled the error.  *)
THEOREM ErrorsReachEveryCall == Spec => []ErrorReachesAll
BY InvariantHolds, PTL DEF IInv

=============================================================================
