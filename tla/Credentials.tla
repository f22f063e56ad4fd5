---------------------------- MODULE Credentials -----------------------------
(***************************************************************************)
(* CredentialManager (credentials.py): reveal, rotate and expire one       *)
(* credential, by id or by key, from several threads.  Each operation is   *)
(* one REST request and needs no socket.                                   *)
(*                                                                         *)
(* _request either gets a response or a RequestException: a timeout does   *)
(* not take the request back, and the vault may serve it later.  The vault *)
(* is external: it numbers the versions, serves requests in any order and  *)
(* may refuse any.  Its credentials have a status BLOCKED that the SDK does*)
(* not know.  Whoever stands between (a proxy, a captive portal) may answer*)
(* in its place, and keep the request or pass it on.                       *)
(***************************************************************************)
EXTENDS Naturals

CONSTANTS
  Threads,       \* threads that use client.credentials
  MaxRequests    \* bound: operations of a thread

ASSUME CredentialsAssumption == MaxRequests \in Nat

VARIABLES
  busy,          \* threads inside an operation
  doing,         \* the latest operation of each thread
  asked,         \* operations it has begun
  response,      \* the response to it, on its way back
  outcome,       \* how its latest operation ended
  got,           \* the version in its result, 0 if it has none
  wire,          \* requests on their way to the vault
  version,       \* the vault's current version of the credential
  status,        \* its status
  created,       \* history: which request created which version
  told,          \* history: the newest version an operation has returned
  floor,         \* history: `told` when the operation of each thread began
  expired,       \* history: the newest version an expire() has returned as expired
  dead           \* history: `expired` when the operation of each thread began

threadVars == <<busy, doing, asked, response, outcome, got>>
vaultVars == <<version, status>>
historyVars == <<created, told, floor, expired, dead>>
vars == <<threadVars, wire, vaultVars, historyVars>>

Operations == {"reveal", "rotate", "expire"}
CredentialStatus == {"ACTIVE", "EXPIRED", "DELETED"}
\* Old credentials of the vault may be BLOCKED, which the enum no longer has.
VaultStatus == CredentialStatus \cup {"BLOCKED"}
Revealable == {"ACTIVE", "BLOCKED"}
Versions == Nat \ {0}
\* What a body is to _request and model_validate: the documented object, another
\* object, JSON that is no object, no JSON at all.
Bodies == {"documented", "object", "list", "text"}
Responses == [ok : BOOLEAN, body : Bodies \cup {"none"}, version : Nat]
NoResponse == [ok |-> FALSE, body |-> "none", version |-> 0]
Outcomes == {"none", "result", "refused", "unanswered", "foreign"}

Init ==
  /\ busy = {} /\ doing = [t \in Threads |-> "none"] /\ asked = [t \in Threads |-> 0]
  /\ response = [t \in Threads |-> NoResponse]
  /\ outcome = [t \in Threads |-> "none"] /\ got = [t \in Threads |-> 0]
  /\ wire = {} /\ version = 1 /\ status \in VaultStatus
  /\ created = {} /\ told = 1 /\ expired = 0
  /\ floor = [t \in Threads |-> 1] /\ dead = [t \in Threads |-> 0]

-----------------------------------------------------------------------------
(* The operations.                                                         *)

Waiting(t) == t \in busy /\ response[t] = NoResponse

\* _post or _patch: the operation becomes a request.
Begin(t, o) ==
  /\ t \notin busy /\ asked[t] < MaxRequests
  /\ busy' = busy \cup {t}
  /\ doing' = [doing EXCEPT ![t] = o]
  /\ asked' = [asked EXCEPT ![t] = @ + 1]
  /\ wire' = wire \cup {[thread |-> t, n |-> asked[t] + 1, op |-> o]}
  /\ floor' = [floor EXCEPT ![t] = told] /\ dead' = [dead EXCEPT ![t] = expired]
  /\ UNCHANGED <<response, outcome, got, vaultVars, created, told, expired>>

\* By id or by key, the request is the same.
Reveal(t) == Begin(t, "reveal")
Rotate(t) == Begin(t, "rotate")
\* set_status, whose only status is EXPIRED.
Expire(t) == Begin(t, "expire")

\* The operation of t ends.
End(t, how, v) ==
  /\ busy' = busy \ {t}
  /\ response' = [response EXCEPT ![t] = NoResponse]
  /\ outcome' = [outcome EXCEPT ![t] = how]
  /\ got' = [got EXCEPT ![t] = v]
  /\ UNCHANGED <<doing, asked, vaultVars, created, floor, dead>>

\* Mutation of NetworkFails: the request is sent again after a network error.
SendAgain(t) ==
  /\ t \in busy
  /\ wire' = wire \cup {[thread |-> t, n |-> asked[t], op |-> doing[t]]}
  /\ response' = [response EXCEPT ![t] = NoResponse]
  /\ UNCHANGED <<busy, doing, asked, outcome, got, vaultVars, historyVars>>

\* Mutation of NetworkFails: expire() is best effort and hides it.
HideFailure(t) ==
  /\ t \in busy
  /\ IF doing[t] = "expire"
     THEN End(t, "result", told) /\ expired' = told
     ELSE End(t, "unanswered", 0) /\ UNCHANGED expired
  /\ UNCHANGED <<told, wire>>

\* session.request raises RequestException, whatever the vault did: CredentialRequestError without a status.
NetworkFails(t) ==
  /\ t \in busy
  /\ End(t, "unanswered", 0)
  /\ UNCHANGED <<told, expired, wire>>

\* Mutation of Ends: any object is taken for a result, without model_validate.
EndsUnvalidated(r) ==
  IF r.ok
  THEN IF r.body \in {"documented", "object"} THEN "result" ELSE "foreign"
  ELSE IF r.body = "list" THEN "foreign" ELSE "refused"

\* What becomes of a response.  Not ok: CredentialRequestError with its status, but
\* _extract_error_message takes whatever JSON it finds for an object.  Ok: a result, if the
\* body is what the endpoint documents; otherwise the JSONDecodeError of response.json(),
\* the AttributeError of data.get or the ValidationError of the model, all of them "foreign".
Ends(r) ==
  IF r.ok
  THEN IF r.body = "documented" THEN "result" ELSE "foreign"
  ELSE IF r.body = "list" THEN "foreign" ELSE "refused"

\* Mutation of Answered: reveal() keeps the first version it has seen.
AnsweredOnce(t) ==
  /\ t \in busy /\ response[t] # NoResponse
  /\ LET how == Ends(response[t])
         v == IF how # "result" THEN 0
              ELSE IF doing[t] = "reveal" /\ got[t] # 0 THEN got[t] ELSE response[t].version
     IN  /\ End(t, how, v)
         /\ told' = IF v > told THEN v ELSE told
         /\ expired' = IF doing[t] = "expire" /\ v > expired THEN v ELSE expired
  /\ UNCHANGED wire

\* The response is returned by session.request and becomes a result or an exception.
Answered(t) ==
  /\ t \in busy /\ response[t] # NoResponse
  /\ LET how == Ends(response[t])
         v == IF how = "result" THEN response[t].version ELSE 0
     IN  /\ End(t, how, v)
         /\ told' = IF v > told THEN v ELSE told
         /\ expired' = IF doing[t] = "expire" /\ v > expired THEN v ELSE expired
  /\ UNCHANGED wire

-----------------------------------------------------------------------------
(* The vault and the network.                                              *)

\* A response to r, which reaches its thread if that still waits for it: a connection
\* whose request timed out is closed.
Respond(r, ok, body, v) ==
  response' = IF Waiting(r.thread) /\ asked[r.thread] = r.n
              THEN [response EXCEPT ![r.thread] = [ok |-> ok, body |-> body, version |-> v]]
              ELSE response

Takes(r) == r \in wire /\ wire' = wire \ {r}

\* What rotate() and set_status() return tells the status, what reveal() returns does not:
\* CredentialInfo does not validate with a status outside the enum.
Body(r) ==
  IF r.op = "reveal" \/ status' \in CredentialStatus THEN "documented" ELSE "object"

\* A new version of a blocked credential may be blocked as well.
Serves(r) ==
  /\ Takes(r) /\ status # "DELETED"
  /\ \/ r.op = "reveal" /\ status \in Revealable /\ UNCHANGED <<vaultVars, created>>
     \/ /\ r.op = "rotate" /\ version' = version + 1
        /\ status' \in {"ACTIVE"} \cup ({"BLOCKED"} \cap {status})
        /\ created' = created \cup {<<version + 1, r.thread, r.n>>}
     \/ r.op = "expire" /\ status' = "EXPIRED" /\ UNCHANGED <<version, created>>
  /\ Respond(r, TRUE, Body(r), version')
  /\ UNCHANGED <<busy, doing, asked, outcome, got, told, floor, expired, dead>>

\* The vault refuses: no expired or deleted credential is revealed; the robot may not do
\* this.
Refuses(r) ==
  /\ Takes(r)
  /\ Respond(r, FALSE, "object", 0)
  /\ UNCHANGED <<busy, doing, asked, outcome, got, vaultVars, historyVars>>

\* The platform deletes the credential.
Deletes ==
  /\ status # "DELETED" /\ status' = "DELETED"
  /\ UNCHANGED <<threadVars, wire, version, historyVars>>

\* The request is lost.
Loses(r) ==
  /\ Takes(r)
  /\ UNCHANGED <<threadVars, vaultVars, historyVars>>

\* Something else answers, and the request goes on its way.
Intercepts(t) ==
  /\ Waiting(t)
  /\ \E ok \in BOOLEAN, body \in Bodies \ {"documented"} :
       response' = [response EXCEPT ![t] = [ok |-> ok, body |-> body, version |-> 0]]
  /\ UNCHANGED <<busy, doing, asked, outcome, got, wire, vaultVars, historyVars>>

-----------------------------------------------------------------------------
Next ==
  \/ \E t \in Threads :
       \/ Reveal(t) \/ Rotate(t) \/ Expire(t)
       \/ NetworkFails(t) \/ Answered(t) \/ Intercepts(t)
  \/ \E r \in wire : Serves(r) \/ Refuses(r) \/ Loses(r)
  \/ Deletes

Spec == Init /\ [][Next]_vars

-----------------------------------------------------------------------------
TypeOK ==
  /\ busy \subseteq Threads /\ doing \in [Threads -> {"none"} \cup Operations]
  /\ asked \in [Threads -> 0..MaxRequests] /\ response \in [Threads -> Responses]
  /\ \A t \in Threads : t \notin busy => response[t] = NoResponse
  /\ outcome \in [Threads -> Outcomes] /\ got \in [Threads -> Nat]
  /\ \A t \in Threads : got[t] # 0 <=> outcome[t] = "result"
  /\ wire \subseteq [thread : Threads, n : 1..MaxRequests, op : Operations]
  /\ version \in Versions /\ status \in VaultStatus
  /\ created \subseteq Versions \X Threads \X (1..MaxRequests)
  /\ told \in Versions /\ floor \in [Threads -> Versions]
  /\ expired \in Nat /\ dead \in [Threads -> Nat]

Returned(t, o) == t \notin busy /\ doing[t] = o /\ outcome[t] = "result"

\* One rotate() creates at most one version, however it ends; when it returns it has
\* created exactly the one it returns.
RotateAtMostOnce ==
  /\ \A c, d \in created : c[2] = d[2] /\ c[3] = d[3] => c = d
  /\ \A t \in Threads : Returned(t, "rotate") => <<got[t], t, asked[t]>> \in created

\* reveal() returns a version at least as new as any that an operation of any thread had
\* returned before it began: a robot that rotated a password does not log in with the old.
RevealedIsNotOlder == \A t \in Threads : Returned(t, "reveal") => got[t] >= floor[t]

\* Once expire() has returned, no reveal() that begins later returns the version it expired
\* or an older one.
ExpiryHolds == \A t \in Threads : Returned(t, "reveal") => got[t] > dead[t]

-----------------------------------------------------------------------------
(* Inductive strengthenings, for the proofs in CredentialsProofs.          *)

\* A request is on the wire once, has not been served before, and is what its thread does.
RequestsServedOnce ==
  /\ \A r, q \in wire : r.thread = q.thread /\ r.n = q.n => r = q
  /\ \A r \in wire, c \in created : ~(c[2] = r.thread /\ c[3] = r.n)
  /\ \A r \in wire : r.n =< asked[r.thread] /\ (r.n = asked[r.thread] => r.op = doing[r.thread])
  /\ \A c \in created : c[3] =< asked[c[2]]

\* What threads know is no newer than the vault, and no version to be revealed is expired.
KnowledgeOrdered ==
  /\ expired =< told /\ told =< version /\ (status \in Revealable => expired < version)
  /\ \A t \in Threads : floor[t] =< told /\ dead[t] =< expired

\* What a response that will become a result says of the vault.
ResponsesAreTrue ==
  \A t \in Threads : response[t].ok /\ response[t].body = "documented" =>
    LET v == response[t].version
    IN  /\ floor[t] =< v /\ v =< version
        /\ doing[t] = "reveal" => dead[t] < v
        /\ doing[t] = "rotate" => <<v, t, asked[t]>> \in created
        /\ doing[t] = "expire" /\ status \in Revealable => v < version

IInv ==
  /\ TypeOK /\ RequestsServedOnce /\ KnowledgeOrdered /\ ResponsesAreTrue
  /\ RotateAtMostOnce /\ RevealedIsNotOlder /\ ExpiryHolds
=============================================================================
