------------------------- MODULE CredentialsProofs --------------------------
(* Proofs about Credentials, for any number of threads and operations.  The *)
(* inductive invariant is IInv of Credentials.                              *)
EXTENDS Credentials, TLAPS

(* The steps of Next, with Begin for the three operations. *)
LEMMA StepCases ==
  ASSUME [Next]_vars
  PROVE  \/ \E t \in Threads, o \in Operations : Begin(t, o)
         \/ \E t \in Threads : NetworkFails(t) \/ Answered(t) \/ Intercepts(t)
         \/ \E r \in wire : Serves(r) \/ Refuses(r) \/ Loses(r)
         \/ Deletes
         \/ UNCHANGED vars
BY DEF Next, Reveal, Rotate, Expire, Operations

(* A response reaches the thread that waits for it, or nobody. *)
LEMMA RespondReaches ==
  ASSUME TypeOK, NEW r \in wire, NEW ok \in BOOLEAN,
         NEW body \in Bodies, NEW v \in Nat, Respond(r, ok, body, v)
  PROVE  /\ response' \in [Threads -> Responses]
         /\ \A t \in Threads :
              \/ response'[t] = response[t]
              \/ /\ t = r.thread /\ t \in busy /\ asked[t] = r.n
                 /\ response'[t] = [ok |-> ok, body |-> body, version |-> v]
<1> DEFINE x == [ok |-> ok, body |-> body, version |-> v]
<1>1. x \in Responses
  BY DEF Responses
<1>2. r.thread \in Threads /\ response \in [Threads -> Responses]
  BY DEF TypeOK
<1>3. CASE Waiting(r.thread) /\ asked[r.thread] = r.n
  <2>1. response' = [response EXCEPT ![r.thread] = x]
    BY <1>3 DEF Respond
  <2> QED
    BY <1>1, <1>2, <1>3, <2>1 DEF Waiting
<1>4. CASE ~(Waiting(r.thread) /\ asked[r.thread] = r.n)
  <2>1. response' = response
    BY <1>4 DEF Respond
  <2> QED
    BY <1>2, <2>1
<1> QED
  BY <1>3, <1>4

(* A served request leaves the wire; it creates a version, expires the current one or *)
(* changes nothing.                                                                   *)
LEMMA ServesCases ==
  ASSUME TypeOK, NEW r \in wire, Serves(r)
  PROVE  /\ r.thread \in Threads /\ r.n \in 1..MaxRequests /\ r.op \in Operations
         /\ wire' = wire \ {r} /\ Respond(r, TRUE, Body(r), version') /\ Body(r) \in Bodies
         /\ version' \in Versions /\ version =< version'
         /\ \/ /\ r.op = "reveal" /\ status \in Revealable /\ version' = version
               /\ status' = status /\ created' = created
            \/ /\ r.op = "rotate" /\ version' = version + 1 /\ status' \in Revealable
               /\ created' = created \cup {<<version + 1, r.thread, r.n>>}
            \/ /\ r.op = "expire" /\ version' = version /\ status' = "EXPIRED"
               /\ created' = created
<1>1. r.thread \in Threads /\ r.n \in 1..MaxRequests /\ r.op \in Operations
  BY DEF TypeOK
<1>2. version \in Versions
  BY DEF TypeOK
<1>3. wire' = wire \ {r} /\ Respond(r, TRUE, Body(r), version') /\ Body(r) \in Bodies
  BY DEF Serves, Takes, Body, Bodies
<1>4. \/ /\ r.op = "reveal" /\ status \in Revealable /\ version' = version
         /\ status' = status /\ created' = created
      \/ /\ r.op = "rotate" /\ version' = version + 1 /\ status' \in Revealable
         /\ created' = created \cup {<<version + 1, r.thread, r.n>>}
      \/ /\ r.op = "expire" /\ version' = version /\ status' = "EXPIRED"
         /\ created' = created
  BY DEF Serves, vaultVars, Revealable
<1>5. version' \in Versions /\ version =< version'
  BY <1>2, <1>4 DEF Versions
<1> QED
  BY <1>1, <1>3, <1>4, <1>5

(* The response a served request gets, and the one a refused request gets. *)
LEMMA ServesResponds ==
  ASSUME TypeOK, NEW r \in wire, Serves(r), NEW t \in Threads
  PROVE  \/ response'[t] = response[t]
         \/ /\ t = r.thread /\ asked[t] = r.n
            /\ response'[t] = [ok |-> TRUE, body |-> Body(r), version |-> version']
<1>1. Respond(r, TRUE, Body(r), version')
  BY DEF Serves
<1>2. response \in [Threads -> Responses]
  BY DEF TypeOK
<1> QED
  BY <1>1, <1>2 DEF Respond

LEMMA RefusesResponds ==
  ASSUME TypeOK, NEW r \in wire, Refuses(r), NEW t \in Threads
  PROVE  \/ response'[t] = response[t]
         \/ response'[t] = [ok |-> FALSE, body |-> "object", version |-> 0]
<1>1. Respond(r, FALSE, "object", 0)
  BY DEF Refuses
<1>2. response \in [Threads -> Responses]
  BY DEF TypeOK
<1> QED
  BY <1>1, <1>2 DEF Respond

-----------------------------------------------------------------------------
LEMMA InitIInv == Init => IInv
<1> SUFFICES ASSUME Init PROVE IInv
  OBVIOUS
<1> USE DEF Init
<1>1. TypeOK
  BY CredentialsAssumption DEF TypeOK, Responses, NoResponse, Bodies, Outcomes, Versions, VaultStatus, CredentialStatus
<1>2. RequestsServedOnce
  BY DEF RequestsServedOnce
<1>3. KnowledgeOrdered
  BY DEF KnowledgeOrdered
<1>4. ResponsesAreTrue
  BY DEF ResponsesAreTrue, NoResponse
<1>5. RotateAtMostOnce /\ RevealedIsNotOlder /\ ExpiryHolds
  BY DEF RotateAtMostOnce, RevealedIsNotOlder, ExpiryHolds, Returned
<1> QED
  BY <1>1, <1>2, <1>3, <1>4, <1>5 DEF IInv

LEMMA EndPreservesTypes ==
  ASSUME TypeOK, NEW t \in Threads, NEW how \in Outcomes, NEW v \in Nat, t \in busy,
         v # 0 <=> how = "result", End(t, how, v), wire' = wire,
         told' \in Versions, expired' \in Nat
  PROVE  TypeOK'
<1>1. response[t] \in Responses /\ NoResponse \in Responses
  BY DEF TypeOK, Responses, NoResponse, Bodies
<1>2. /\ busy' \subseteq Threads /\ doing' \in [Threads -> {"none"} \cup Operations]
      /\ asked' \in [Threads -> 0..MaxRequests] /\ response' \in [Threads -> Responses]
  BY <1>1 DEF TypeOK, End
<1>3. \A u \in Threads : u \notin busy' => response'[u] = NoResponse
  BY <1>1 DEF TypeOK, End
<1>4. /\ outcome' \in [Threads -> Outcomes] /\ got' \in [Threads -> Nat]
      /\ \A u \in Threads : got'[u] # 0 <=> outcome'[u] = "result"
  BY DEF TypeOK, End
<1> QED
  BY <1>2, <1>3, <1>4 DEF TypeOK, End, vaultVars

(* What Answered does, spelled out. *)
LEMMA AnsweredEnds ==
  ASSUME TypeOK, NEW t \in Threads, Answered(t), ResponsesAreTrue
  PROVE  \E how \in Outcomes, v \in Nat :
           /\ how = Ends(response[t]) /\ End(t, how, v) /\ wire' = wire
           /\ v # 0 <=> how = "result"
           /\ how = "result" => /\ response[t].ok /\ response[t].body = "documented"
                                /\ v = response[t].version
           /\ told' = (IF v > told THEN v ELSE told)
           /\ expired' = (IF doing[t] = "expire" /\ v > expired THEN v ELSE expired)
<1> DEFINE how == Ends(response[t])
           v == IF how = "result" THEN response[t].version ELSE 0
<1>1. response[t] \in Responses /\ floor[t] \in Versions
  BY DEF TypeOK
<1>2. how \in Outcomes /\ v \in Nat
  BY <1>1 DEF Ends, Outcomes, Responses, Versions
<1>3. how = "result" => response[t].ok /\ response[t].body = "documented"
  BY DEF Ends
<1>4. how = "result" => response[t].version # 0
  <2>1. how = "result" => floor[t] =< response[t].version
    BY <1>3 DEF ResponsesAreTrue
  <2>2. response[t].version \in Nat
    BY <1>1 DEF Responses
  <2> QED
    BY <1>1, <2>1, <2>2 DEF Versions
<1>5. v # 0 <=> how = "result"
  BY <1>4
<1>6. /\ End(t, how, v) /\ wire' = wire
      /\ told' = (IF v > told THEN v ELSE told)
      /\ expired' = (IF doing[t] = "expire" /\ v > expired THEN v ELSE expired)
  BY DEF Answered
<1> HIDE DEF how
<1> QED
  BY <1>2, <1>3, <1>5, <1>6 DEF how

LEMMA TypesPreserved == IInv /\ [Next]_vars => TypeOK'
<1> SUFFICES ASSUME IInv, [Next]_vars PROVE TypeOK'
  OBVIOUS
<1>0. TypeOK /\ ResponsesAreTrue
  BY DEF IInv
<1>1. ASSUME NEW t \in Threads, NEW o \in Operations, Begin(t, o) PROVE TypeOK'
  <2>1. asked[t] + 1 \in 1..MaxRequests
    BY <1>0, <1>1, CredentialsAssumption DEF TypeOK, Begin
  <2>2. wire' \subseteq [thread : Threads, n : 1..MaxRequests, op : Operations]
    BY <1>0, <1>1, <2>1 DEF TypeOK, Begin
  <2>3. /\ busy' \subseteq Threads /\ doing' \in [Threads -> {"none"} \cup Operations]
        /\ asked' \in [Threads -> 0..MaxRequests]
        /\ floor' \in [Threads -> Versions] /\ dead' \in [Threads -> Nat]
    BY <1>0, <1>1, <2>1 DEF TypeOK, Begin
  <2> QED
    BY <1>0, <1>1, <2>2, <2>3 DEF TypeOK, Begin, vaultVars
<1>2. ASSUME NEW t \in Threads, NetworkFails(t) PROVE TypeOK'
  BY <1>0, <1>2, EndPreservesTypes DEF NetworkFails, Outcomes, TypeOK
<1>3. ASSUME NEW t \in Threads, Answered(t) PROVE TypeOK'
  <2>1. PICK how \in Outcomes, v \in Nat :
          /\ End(t, how, v) /\ wire' = wire /\ (v # 0 <=> how = "result")
          /\ told' = (IF v > told THEN v ELSE told)
          /\ expired' = (IF doing[t] = "expire" /\ v > expired THEN v ELSE expired)
    BY <1>0, <1>3, AnsweredEnds
  <2>2. told' \in Versions /\ expired' \in Nat
    BY <1>0, <2>1 DEF TypeOK, Versions
  <2>3. t \in busy
    BY <1>3 DEF Answered
  <2> QED
    BY <1>0, <2>1, <2>2, <2>3, EndPreservesTypes
<1>4. ASSUME NEW t \in Threads, Intercepts(t) PROVE TypeOK'
  <2>1. response' \in [Threads -> Responses] /\ t \in busy
        /\ \A u \in Threads : u # t => response'[u] = response[u]
    BY <1>0, <1>4 DEF TypeOK, Intercepts, Waiting, Responses, Bodies
  <2> QED
    BY <1>0, <1>4, <2>1 DEF TypeOK, Intercepts, vaultVars, historyVars
<1>5. ASSUME NEW r \in wire, Serves(r) PROVE TypeOK'
  <2>1. /\ response' \in [Threads -> Responses]
        /\ \A t \in Threads : response'[t] = response[t] \/ t \in busy
    BY <1>0, <1>5, ServesCases, RespondReaches DEF Bodies, Versions
  <2>2. /\ version' \in Versions /\ status' \in VaultStatus
        /\ created' \subseteq Versions \X Threads \X (1..MaxRequests)
    <3>1. created' = created \/ created' = created \cup {<<version + 1, r.thread, r.n>>}
      BY <1>0, <1>5, ServesCases
    <3>2. <<version + 1, r.thread, r.n>> \in Versions \X Threads \X (1..MaxRequests)
      BY <1>0, <1>5, ServesCases DEF TypeOK, Versions
    <3>3. version' \in Versions /\ status' \in VaultStatus
      BY <1>0, <1>5, ServesCases DEF TypeOK, VaultStatus, CredentialStatus, Revealable
    <3> QED
      BY <1>0, <3>1, <3>2, <3>3 DEF TypeOK
  <2>3. wire' \subseteq wire
    BY <1>0, <1>5, ServesCases
  <2>4. UNCHANGED <<busy, doing, asked, outcome, got, told, floor, expired, dead>>
    BY <1>5 DEF Serves
  <2> QED
    BY <1>0, <2>1, <2>2, <2>3, <2>4 DEF TypeOK
<1>6. ASSUME NEW r \in wire, Refuses(r) PROVE TypeOK'
  <2>1. /\ response' \in [Threads -> Responses]
        /\ \A t \in Threads : response'[t] = response[t] \/ t \in busy
    BY <1>0, <1>6, RespondReaches DEF Refuses, Bodies
  <2> QED
    BY <1>0, <1>6, <2>1 DEF TypeOK, Refuses, Takes, vaultVars, historyVars
<1>7. ASSUME NEW r \in wire, Loses(r) PROVE TypeOK'
  BY <1>0, <1>7 DEF TypeOK, Loses, Takes, threadVars, vaultVars, historyVars
<1>8. CASE UNCHANGED vars
  BY <1>0, <1>8 DEF TypeOK, vars, threadVars, vaultVars, historyVars
<1>9. CASE Deletes
  BY <1>0, <1>9 DEF TypeOK, Deletes, VaultStatus, CredentialStatus, threadVars, historyVars
<1> QED
  BY <1>1, <1>2, <1>3, <1>4, <1>5, <1>6, <1>7, <1>8, <1>9, StepCases

-----------------------------------------------------------------------------
OneVersionEach == \A c, d \in created : c[2] = d[2] /\ c[3] = d[3] => c = d

(* A request that is served leaves the wire for good, so it creates one version at most. *)
LEMMA ServedOncePreserved ==
  IInv /\ [Next]_vars => RequestsServedOnce' /\ OneVersionEach'
<1> SUFFICES ASSUME IInv, [Next]_vars PROVE RequestsServedOnce' /\ OneVersionEach'
  OBVIOUS
<1>0. TypeOK /\ RequestsServedOnce /\ OneVersionEach
  BY DEF IInv, RotateAtMostOnce, OneVersionEach
<1> USE DEF RequestsServedOnce, OneVersionEach
<1>1. ASSUME NEW t \in Threads, NEW o \in Operations, Begin(t, o)
      PROVE RequestsServedOnce' /\ OneVersionEach'
  <2> DEFINE q == [thread |-> t, n |-> asked[t] + 1, op |-> o]
  <2>1. /\ wire' = wire \cup {q} /\ created' = created
        /\ asked' = [asked EXCEPT ![t] = @ + 1] /\ doing' = [doing EXCEPT ![t] = o]
    BY <1>1 DEF Begin
  <2>2. asked \in [Threads -> Nat] /\ doing \in [Threads -> {"none"} \cup Operations]
    BY <1>0, CredentialsAssumption DEF TypeOK
  <2>3. \A r \in wire : r.thread \in Threads /\ r.n \in Nat /\ r.n =< asked[r.thread]
    BY <1>0, CredentialsAssumption DEF TypeOK
  <2>4. \A c \in created : c[2] \in Threads /\ c[3] \in Nat /\ c[3] =< asked[c[2]]
    BY <1>0, CredentialsAssumption DEF TypeOK
  <2>5. \A r \in wire : ~(r.thread = t /\ r.n = asked[t] + 1)
    BY <2>2, <2>3
  <2>6. \A c \in created : ~(c[2] = t /\ c[3] = asked[t] + 1)
    BY <2>2, <2>4
  <2>7. \A r, s \in wire' : r.thread = s.thread /\ r.n = s.n => r = s
    BY <1>0, <2>1, <2>5
  <2>8. \A r \in wire', c \in created' : ~(c[2] = r.thread /\ c[3] = r.n)
    BY <1>0, <2>1, <2>6
  <2>9. \A r \in wire' : r.n =< asked'[r.thread] /\ (r.n = asked'[r.thread] => r.op = doing'[r.thread])
    BY <1>0, <2>1, <2>2, <2>3
  <2>10. \A c \in created' : c[3] =< asked'[c[2]]
    BY <2>1, <2>2, <2>4
  <2> QED
    BY <1>0, <2>1, <2>7, <2>8, <2>9, <2>10
<1>2. ASSUME NEW r \in wire, Serves(r) PROVE RequestsServedOnce' /\ OneVersionEach'
  <2> DEFINE x == <<version + 1, r.thread, r.n>>
  <2>1. /\ wire' = wire \ {r} /\ asked' = asked /\ doing' = doing
        /\ created' = created \/ created' = created \cup {x}
    BY <1>0, <1>2, ServesCases DEF Serves
  <2>2. \A q \in wire' : q \in wire /\ ~(q.thread = r.thread /\ q.n = r.n)
    BY <1>0, <2>1
  <2>3. x[2] = r.thread /\ x[3] = r.n
    OBVIOUS
  <2>4. \A c \in created : ~(c[2] = x[2] /\ c[3] = x[3])
    BY <1>0, <2>3
  <2> HIDE DEF x
  <2>5. OneVersionEach'
    BY <1>0, <2>1, <2>4
  <2>6. \A q \in wire', c \in created' : ~(c[2] = q.thread /\ c[3] = q.n)
    BY <1>0, <2>1, <2>2, <2>3
  <2>7. \A c \in created' : c[3] =< asked'[c[2]]
    BY <1>0, <2>1, <2>3
  <2> QED
    BY <1>0, <2>1, <2>2, <2>5, <2>6, <2>7
<1>3. ASSUME NEW t \in Threads, NetworkFails(t) \/ Answered(t) \/ Intercepts(t)
      PROVE RequestsServedOnce' /\ OneVersionEach'
  <2>1. UNCHANGED <<wire, created, asked, doing>>
    BY <1>3 DEF NetworkFails, Answered, Intercepts, End, historyVars
  <2> QED
    BY <1>0, <2>1
<1>4. ASSUME NEW r \in wire, Refuses(r) \/ Loses(r) PROVE RequestsServedOnce' /\ OneVersionEach'
  <2>1. wire' = wire \ {r} /\ UNCHANGED <<created, asked, doing>>
    BY <1>4 DEF Refuses, Loses, Takes, threadVars, historyVars
  <2> QED
    BY <1>0, <2>1
<1>5. CASE Deletes \/ UNCHANGED vars
  BY <1>0, <1>5 DEF Deletes, vars, threadVars, historyVars
<1> QED
  BY <1>1, <1>2, <1>3, <1>4, <1>5, StepCases

(* Nobody knows of a version the vault does not have yet, and only a rotation makes an *)
(* expired credential active again.                                                    *)
LEMMA KnowledgePreserved == IInv /\ [Next]_vars => KnowledgeOrdered'
<1> SUFFICES ASSUME IInv, [Next]_vars PROVE KnowledgeOrdered'
  OBVIOUS
<1>0. TypeOK /\ KnowledgeOrdered /\ ResponsesAreTrue
  BY DEF IInv
<1>00. /\ version \in Nat /\ told \in Nat /\ expired \in Nat
       /\ floor \in [Threads -> Nat] /\ dead \in [Threads -> Nat]
  BY <1>0 DEF TypeOK, Versions
<1> USE DEF KnowledgeOrdered
<1>1. ASSUME NEW t \in Threads, NEW o \in Operations, Begin(t, o) PROVE KnowledgeOrdered'
  BY <1>0, <1>00, <1>1 DEF Begin, vaultVars
<1>2. ASSUME NEW t \in Threads, NetworkFails(t) PROVE KnowledgeOrdered'
  BY <1>0, <1>2 DEF NetworkFails, End, vaultVars
<1>3. ASSUME NEW t \in Threads, Answered(t) PROVE KnowledgeOrdered'
  <2>1. PICK how \in Outcomes, v \in Nat :
          /\ End(t, how, v) /\ (v # 0 <=> how = "result")
          /\ how = "result" => /\ response[t].ok /\ response[t].body = "documented"
                               /\ v = response[t].version
          /\ told' = (IF v > told THEN v ELSE told)
          /\ expired' = (IF doing[t] = "expire" /\ v > expired THEN v ELSE expired)
    BY <1>0, <1>3, AnsweredEnds
  <2>2. CASE how = "result"
    <3>1. v =< version /\ (doing[t] = "expire" /\ status \in Revealable => v < version)
      BY <1>0, <2>1, <2>2 DEF ResponsesAreTrue
    <3>2. UNCHANGED <<version, status, floor, dead>>
      BY <2>1 DEF End, vaultVars
    <3>3. told =< told' /\ expired =< expired' /\ told' =< version /\ expired' =< told'
          /\ (status \in Revealable => expired' < version) /\ told' \in Nat /\ expired' \in Nat
      BY <1>0, <1>00, <2>1, <3>1
    <3>4. \A u \in Threads : floor[u] =< told' /\ dead[u] =< expired'
      BY <1>0, <1>00, <3>3
    <3> QED
      BY <3>2, <3>3, <3>4
  <2>3. CASE how # "result"
    BY <1>0, <1>00, <2>1, <2>3 DEF End, vaultVars
  <2> QED
    BY <2>2, <2>3
<1>4. ASSUME NEW r \in wire, Serves(r) PROVE KnowledgeOrdered'
  <2>1. /\ version =< version' /\ version' \in Nat
        /\ \/ status' = status /\ version' = version
           \/ version' = version + 1
           \/ status' \notin Revealable
    BY <1>0, <1>4, ServesCases DEF Versions, Revealable
  <2>2. UNCHANGED <<told, floor, expired, dead>>
    BY <1>4 DEF Serves
  <2> QED
    BY <1>0, <1>00, <2>1, <2>2
<1>5. ASSUME NEW t \in Threads, Intercepts(t) PROVE KnowledgeOrdered'
  BY <1>0, <1>5 DEF Intercepts, vaultVars, historyVars
<1>6. ASSUME NEW r \in wire, Refuses(r) \/ Loses(r) PROVE KnowledgeOrdered'
  BY <1>0, <1>6 DEF Refuses, Loses, vaultVars, historyVars
<1>7. CASE UNCHANGED vars
  BY <1>0, <1>7 DEF vars, vaultVars, historyVars
<1>8. CASE Deletes
  BY <1>0, <1>8 DEF Deletes, Revealable, historyVars
<1> QED
  BY <1>1, <1>2, <1>3, <1>4, <1>5, <1>6, <1>7, <1>8, StepCases

-----------------------------------------------------------------------------
(* The ends of an operation take its response away, and touch no other's. *)
LEMMA EndClears ==
  ASSUME TypeOK, NEW t \in Threads, NEW how, NEW v, End(t, how, v)
  PROVE  /\ response'[t] = NoResponse /\ \A u \in Threads : u # t => response'[u] = response[u]
         /\ UNCHANGED <<doing, asked, version, status, created, floor, dead>>
BY DEF TypeOK, End, vaultVars

LEMMA NoResponseIsNoResult == ~NoResponse.ok /\ Ends(NoResponse) = "refused"
BY DEF NoResponse, Ends

LEMMA ResponsesPreserved == IInv /\ [Next]_vars => ResponsesAreTrue'
<1> SUFFICES ASSUME IInv, [Next]_vars PROVE ResponsesAreTrue'
  OBVIOUS
<1>0. TypeOK /\ KnowledgeOrdered /\ ResponsesAreTrue /\ RequestsServedOnce
  BY DEF IInv
<1>00. /\ version \in Nat /\ told \in Nat /\ expired \in Nat
       /\ \A t \in Threads : floor[t] \in Nat /\ dead[t] \in Nat /\ response[t].version \in Nat
  BY <1>0 DEF TypeOK, Versions, Responses
<1>1. ASSUME NEW t \in Threads, NEW o \in Operations, Begin(t, o) PROVE ResponsesAreTrue'
  <2>1. response[t] = NoResponse /\ response' = response
    BY <1>0, <1>1 DEF TypeOK, Begin
  <2>2. \A u \in Threads : u # t => doing'[u] = doing[u] /\ asked'[u] = asked[u]
                                      /\ floor'[u] = floor[u] /\ dead'[u] = dead[u]
    BY <1>0, <1>1 DEF TypeOK, Begin
  <2>3. UNCHANGED <<version, status, created>>
    BY <1>1 DEF Begin, vaultVars
  <2> QED
    BY <1>0, <2>1, <2>2, <2>3, NoResponseIsNoResult DEF ResponsesAreTrue
<1>2. ASSUME NEW t \in Threads, NetworkFails(t) \/ Answered(t) PROVE ResponsesAreTrue'
  <2>1. PICK how, v : End(t, how, v)
    BY <1>2 DEF NetworkFails, Answered
  <2> QED
    BY <1>0, <2>1, EndClears, NoResponseIsNoResult DEF ResponsesAreTrue
<1>3. ASSUME NEW t \in Threads, Intercepts(t) PROVE ResponsesAreTrue'
  <2>1. /\ response'[t].body # "documented"
        /\ \A u \in Threads : u # t => response'[u] = response[u]
        /\ UNCHANGED <<doing, asked, version, status, created, floor, dead>>
    BY <1>0, <1>3 DEF TypeOK, Intercepts, Bodies, vaultVars, historyVars
  <2> QED
    BY <1>0, <2>1 DEF ResponsesAreTrue
<1>4. ASSUME NEW r \in wire, Serves(r) PROVE ResponsesAreTrue'
  <2>1. /\ UNCHANGED <<doing, asked, floor, dead>> /\ version =< version' /\ version' \in Nat
        /\ created \subseteq created'
        /\ status' \in Revealable => status \in Revealable \/ version < version'
    <3>1. UNCHANGED <<doing, asked, floor, dead>>
      BY <1>4 DEF Serves
    <3>2. version =< version' /\ version' \in Nat
      BY <1>0, <1>4, ServesCases DEF Versions
    <3>3. \/ status' = status /\ created' = created
          \/ version' = version + 1 /\ created \subseteq created'
          \/ status' \notin Revealable /\ created' = created
      BY <1>0, <1>4, ServesCases DEF Revealable
    <3>4. created \subseteq created'
      BY <3>3
    <3>5. status' \in Revealable => status \in Revealable \/ version < version'
      BY <1>00, <3>3
    <3> QED
      BY <3>1, <3>2, <3>4, <3>5
  <2>2. ASSUME NEW u \in Threads, response'[u] = response[u], response[u].ok,
               response[u].body = "documented"
        PROVE  LET v == response[u].version
               IN  /\ floor[u] =< v /\ v =< version'
                   /\ doing[u] = "reveal" => dead[u] < v
                   /\ doing[u] = "rotate" => <<v, u, asked[u]>> \in created'
                   /\ doing[u] = "expire" /\ status' \in Revealable => v < version'
    <3> DEFINE v == response[u].version
    <3>1. /\ floor[u] =< v /\ v =< version
          /\ doing[u] = "reveal" => dead[u] < v
          /\ doing[u] = "rotate" => <<v, u, asked[u]>> \in created
          /\ doing[u] = "expire" /\ status \in Revealable => v < version
      BY <1>0, <2>2 DEF ResponsesAreTrue
    <3>2. v \in Nat
      BY <1>00
    <3> HIDE DEF v
    <3>3. v =< version' /\ (version < version' => v < version')
          /\ (v < version => v < version')
      BY <1>00, <2>1, <3>1, <3>2
    <3>4. /\ floor[u] =< v /\ v =< version'
          /\ doing[u] = "reveal" => dead[u] < v
          /\ doing[u] = "rotate" => <<v, u, asked[u]>> \in created'
          /\ doing[u] = "expire" /\ status' \in Revealable => v < version'
      BY <2>1, <3>1, <3>3
    <3> QED
      BY <3>4 DEF v
  <2>3. ASSUME NEW u \in Threads, u = r.thread, asked[u] = r.n
        PROVE  /\ floor[u] =< version'
               /\ doing[u] = "reveal" => dead[u] < version'
               /\ doing[u] = "rotate" => <<version', u, asked[u]>> \in created'
               /\ doing[u] = "expire" => status' \notin Revealable
    <3>1. doing[u] = r.op
      BY <1>0, <2>3 DEF RequestsServedOnce
    <3>2. floor[u] =< version /\ dead[u] =< expired /\ (status \in Revealable => expired < version)
      BY <1>0, <1>00 DEF KnowledgeOrdered
    <3>3. floor[u] \in Nat /\ dead[u] \in Nat
      BY <1>00
    <3>4. CASE r.op = "reveal"
      <4>1. status \in Revealable /\ version' = version
        BY <1>0, <1>4, <3>4, ServesCases
      <4> QED
        BY <1>00, <3>1, <3>2, <3>3, <3>4, <4>1
    <3>5. CASE r.op = "rotate"
      <4>1. version' = version + 1 /\ <<version + 1, r.thread, r.n>> \in created'
        BY <1>0, <1>4, <3>5, ServesCases
      <4> QED
        BY <1>00, <2>3, <3>1, <3>2, <3>3, <3>5, <4>1
    <3>6. CASE r.op = "expire"
      <4>1. status' \notin Revealable /\ version' = version
        BY <1>0, <1>4, <3>6, ServesCases DEF Revealable
      <4> QED
        BY <1>00, <3>1, <3>2, <3>3, <3>6, <4>1
    <3>7. r.op \in {"reveal", "rotate", "expire"}
      BY <1>0, <1>4, ServesCases DEF Operations
    <3> QED
      BY <3>4, <3>5, <3>6, <3>7
  <2>4. ASSUME NEW u \in Threads
        PROVE  \/ response'[u] = response[u]
               \/ /\ u = r.thread /\ asked[u] = r.n
                  /\ response'[u] = [ok |-> TRUE, body |-> Body(r), version |-> version']
    BY <1>0, <1>4, ServesResponds
  <2> QED
    BY <2>1, <2>2, <2>3, <2>4 DEF ResponsesAreTrue
<1>5. ASSUME NEW r \in wire, Refuses(r) PROVE ResponsesAreTrue'
  <2>1. UNCHANGED <<doing, asked, version, status, created, floor, dead>>
    BY <1>5 DEF Refuses, vaultVars, historyVars
  <2>2. \A u \in Threads : response'[u] = response[u] \/ response'[u].ok = FALSE
    BY <1>0, <1>5, RefusesResponds
  <2> QED
    BY <1>0, <2>1, <2>2 DEF ResponsesAreTrue
<1>6. ASSUME NEW r \in wire, Loses(r) PROVE ResponsesAreTrue'
  BY <1>0, <1>6 DEF Loses, threadVars, vaultVars, historyVars, ResponsesAreTrue
<1>7. CASE UNCHANGED vars
  BY <1>0, <1>7 DEF vars, threadVars, vaultVars, historyVars, ResponsesAreTrue
<1>8. CASE Deletes
  BY <1>0, <1>8 DEF Deletes, Revealable, threadVars, historyVars, ResponsesAreTrue
<1> QED
  BY <1>1, <1>2, <1>3, <1>4, <1>5, <1>6, <1>7, <1>8, StepCases

-----------------------------------------------------------------------------
(* Only Answered ends an operation with a result: what its response says of the vault *)
(* is what the caller knows from then on.                                             *)
Promises == RotateAtMostOnce /\ RevealedIsNotOlder /\ ExpiryHolds

(* What the promises say of the result of one thread. *)
Kept(t) ==
  /\ Returned(t, "rotate") => <<got[t], t, asked[t]>> \in created
  /\ Returned(t, "reveal") => got[t] >= floor[t] /\ got[t] > dead[t]

LEMMA PromisesAreKept == Promises => \A t \in Threads : Kept(t)
BY DEF Promises, Kept, RotateAtMostOnce, RevealedIsNotOlder, ExpiryHolds

(* A thread whose results a step leaves alone still knows what it knew. *)
LEMMA KeptByOthers ==
  ASSUME NEW t \in Threads, Kept(t), created \subseteq created',
         t \notin busy' => t \notin busy,
         outcome'[t] = outcome[t], got'[t] = got[t],
         \/ t \in busy'
         \/ doing'[t] = doing[t] /\ asked'[t] = asked[t] /\ floor'[t] = floor[t] /\ dead'[t] = dead[t]
  PROVE  Kept(t)'
BY DEF Kept, Returned

LEMMA PromisesPreserved == IInv /\ [Next]_vars => Promises'
<1> SUFFICES ASSUME IInv, [Next]_vars, NEW t \in Threads PROVE Kept(t)'
  BY ServedOncePreserved DEF Promises, Kept, OneVersionEach, RotateAtMostOnce,
     RevealedIsNotOlder, ExpiryHolds
<1>0. TypeOK /\ ResponsesAreTrue /\ Kept(t)
  BY PromisesAreKept DEF IInv, Promises
<1>1. ASSUME NEW u \in Threads, NEW o \in Operations, Begin(u, o) PROVE Kept(t)'
  <2>1. /\ created' = created /\ outcome' = outcome /\ got' = got
        /\ busy \subseteq busy'
    BY <1>1 DEF Begin
  <2>2. \/ t \in busy'
        \/ doing'[t] = doing[t] /\ asked'[t] = asked[t] /\ floor'[t] = floor[t] /\ dead'[t] = dead[t]
    BY <1>0, <1>1 DEF TypeOK, Begin
  <2> QED
    BY <1>0, <2>1, <2>2, KeptByOthers
<1>2. ASSUME NEW u \in Threads, NEW how, NEW v, End(u, how, v), u # t PROVE Kept(t)'
  <2>1. /\ created' = created /\ outcome'[t] = outcome[t] /\ got'[t] = got[t]
        /\ (t \notin busy' => t \notin busy)
        /\ doing' = doing /\ asked' = asked /\ floor' = floor /\ dead' = dead
    BY <1>0, <1>2 DEF TypeOK, End
  <2> QED
    BY <1>0, <2>1, KeptByOthers
<1>3. ASSUME NetworkFails(t) PROVE Kept(t)'
  <2>1. outcome'[t] = "unanswered"
    BY <1>0, <1>3 DEF TypeOK, NetworkFails, End
  <2> QED
    BY <2>1 DEF Kept, Returned
<1>4. ASSUME Answered(t) PROVE Kept(t)'
  <2>1. PICK how \in Outcomes, v \in Nat :
          /\ how = Ends(response[t]) /\ End(t, how, v)
          /\ how = "result" => /\ response[t].ok /\ response[t].body = "documented"
                               /\ v = response[t].version
    BY <1>0, <1>4, AnsweredEnds
  <2>2. /\ outcome'[t] = how /\ got'[t] = v
        /\ doing' = doing /\ asked' = asked /\ created' = created /\ floor' = floor /\ dead' = dead
    BY <1>0, <2>1 DEF TypeOK, End
  <2>3. floor[t] \in Nat /\ dead[t] \in Nat
    BY <1>0 DEF TypeOK, Versions
  <2>4. how = "result" => /\ floor[t] =< v /\ (doing[t] = "reveal" => dead[t] < v)
                          /\ doing[t] = "rotate" => <<v, t, asked[t]>> \in created
    BY <1>0, <2>1 DEF ResponsesAreTrue
  <2> QED
    BY <2>2, <2>3, <2>4 DEF Kept, Returned
<1>5. ASSUME NEW u \in Threads, Intercepts(u) PROVE Kept(t)'
  BY <1>0, <1>5, KeptByOthers DEF Intercepts, historyVars
<1>6. ASSUME NEW r \in wire, Serves(r) PROVE Kept(t)'
  <2>1. created \subseteq created'
    BY <1>0, <1>6, ServesCases
  <2>2. UNCHANGED <<busy, doing, asked, outcome, got, floor, dead>>
    BY <1>6 DEF Serves
  <2> QED
    BY <1>0, <2>1, <2>2, KeptByOthers
<1>7. ASSUME NEW r \in wire, Refuses(r) \/ Loses(r) PROVE Kept(t)'
  BY <1>0, <1>7, KeptByOthers DEF Refuses, Loses, threadVars, historyVars
<1>8. CASE Deletes \/ UNCHANGED vars
  BY <1>0, <1>8, KeptByOthers DEF Deletes, vars, threadVars, historyVars
<1>9. ASSUME NEW u \in Threads, NetworkFails(u) \/ Answered(u) PROVE Kept(t)'
  <2>1. CASE u = t
    BY <1>3, <1>4, <1>9, <2>1
  <2>2. CASE u # t
    BY <1>2, <1>9, <2>2 DEF NetworkFails, Answered
  <2> QED
    BY <2>1, <2>2
<1> QED
  BY <1>1, <1>5, <1>6, <1>7, <1>8, <1>9, StepCases

-----------------------------------------------------------------------------
LEMMA InvariantHolds == Spec => []IInv
<1>1. IInv /\ [Next]_vars => IInv'
  BY TypesPreserved, ServedOncePreserved, KnowledgePreserved, ResponsesPreserved,
     PromisesPreserved DEF IInv, Promises
<1> QED
  BY <1>1, InitIInv, PTL DEF Spec

(* The state of CredentialManager's callers and of the vault has its type: a result always *)
(* carries a version, and only a thread inside an operation can be answered.               *)
THEOREM CredentialsTypeCorrect == Spec => []TypeOK
BY InvariantHolds, PTL DEF IInv

(* However a rotate() ends (result, refusal, timeout, a reply from somewhere else), its one *)
(* POST has created at most one version, and a returned version is the one it created.      *)
THEOREM RotationsHappenOnce == Spec => []RotateAtMostOnce
BY InvariantHolds, PTL DEF IInv

(* reveal() never hands out a version older than one that any thread had been given before *)
(* it was called: each call is a request of its own, and nothing is cached.                *)
THEOREM RevealsAreCurrent == Spec => []RevealedIsNotOlder
BY InvariantHolds, PTL DEF IInv

(* After expire() has returned, the version it expired is never revealed again, though *)
(* requests that timed out may still be served in any order.                           *)
THEOREM ExpiriesHold == Spec => []ExpiryHolds
BY InvariantHolds, PTL DEF IInv
=============================================================================
