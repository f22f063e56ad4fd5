--------------------------- MODULE ExecutionProofs --------------------------
(* Proofs about Execution.  CallsInv holds for any number of handlers, RunInv for one  *)
(* that has the ExecutionManager to itself.                                            *)
EXTENDS Execution, TLAPS

Operations == {"start", "task", "observe"} \cup Finishes

(* The steps of the handlers, the gateway and the network, whatever the program does with *)
(* them: Execution and Robot are two ways to put them together.                           *)
Steps ==
  \/ \E t \in Threads : \/ StartChecks(t) \/ StartAssigns(t) \/ BodyInterrupted(t) \/ FinishClears(t)
                        \/ FinishAgain(t) \/ CallReturns(t) \/ CallRaises(t) \/ CallRefused(t)
  \/ \E t \in Threads : /\ sent[t] < MaxMessages
                        /\ StartCalls(t) \/ ReportTasks(t) \/ RequiredCalls(t)
  \/ \E t \in Threads, o \in Operations : pc[t] \in {"idle", "body"} /\ o # "start" /\ Require(t, o)
  \/ \E t \in Threads, how \in Finishes : BodyEnds(t, how)
  \/ \E m \in wire : GatewayOpens(m) \/ GatewayServes(m) \/ GatewayRejects(m)
  \/ SessionError \/ ErrorArrives \/ PlatformCancels
  \/ Cut \/ (Reconnect /\ socket < MaxDrops) \/ UNCHANGED vars

LEMMA NextIsStep ==
  ASSUME TypeOK, BudgetLeft, [Next]_vars
  PROVE  Steps
<1>1. ASSUME NEW t \in Threads, \/ StartChecks(t) \/ StartAssigns(t) \/ BodyInterrupted(t)
                               \/ FinishClears(t) \/ FinishAgain(t)
                               \/ CallReturns(t) \/ CallRaises(t) \/ CallRefused(t)
      PROVE Steps
  BY <1>1 DEF Steps
<1>2. ASSUME NEW t \in Threads, StartCalls(t) \/ ReportTasks(t) \/ RequiredCalls(t) PROVE Steps
  <2>1. pc[t] \in {"checked", "required"}
    BY <1>2 DEF StartCalls, ReportTasks, RequiredCalls
  <2>2. sent[t] \in 0..MaxMessages /\ sent[t] + 1 =< MaxMessages
    BY <2>1, ExecutionAssumption DEF TypeOK, BudgetLeft, Budget
  <2>3. sent[t] < MaxMessages
    BY <2>2, ExecutionAssumption
  <2> QED
    BY <1>2, <2>3 DEF Steps
<1>3. ASSUME NEW t \in Threads, BodyRequires(t) PROVE Steps
  <2>1. \E o \in Operations : pc[t] \in {"idle", "body"} /\ o # "start" /\ Require(t, o)
    BY <1>3 DEF BodyRequires, Operations, Finishes
  <2> QED
    BY <2>1 DEF Steps
<1>4. ASSUME NEW t \in Threads, Finish(t) PROVE Steps
  BY <1>4 DEF Steps, Finish
<1>5. CASE Gateway
  BY <1>5 DEF Steps, Gateway
<1>6. CASE Drop \/ Reconnect \/ UNCHANGED vars
  BY <1>6 DEF Steps, Drop, Reconnect, BudgetLeft
<1> QED
  BY <1>1, <1>2, <1>3, <1>4, <1>5, <1>6 DEF Next, Handler, Progress, CallEnds

-----------------------------------------------------------------------------
(* What the building blocks of the actions do.                              *)

LEMMA ZeroIsExec == 0 \in 0..MaxExecs
BY ExecutionAssumption

LEMMA SendDoes ==
  ASSUME TypeOK, NEW t \in Threads, sent[t] < MaxMessages, NEW o \in Operations,
         NEW e \in 0..MaxExecs, Send(t, o, e)
  PROVE  /\ sent' \in [Threads -> 0..MaxMessages] /\ wire' \subseteq Messages
         /\ sent'[t] = sent[t] + 1 /\ \A u \in Threads : u # t => sent'[u] = sent[u]
         /\ UNCHANGED <<error, up, socket>>
         /\ \E q \in Messages : /\ wire' = wire \cup {q}
                                /\ q.thread = t /\ q.n = sent[t] + 1 /\ q.op = o /\ q.exec = e
<1>1. sent[t] \in 0..MaxMessages /\ sent[t] + 1 \in 1..MaxMessages
  BY ExecutionAssumption DEF TypeOK
<1> DEFINE q == [thread |-> t, n |-> sent[t] + 1, op |-> o, exec |-> e]
<1>2. q \in Messages
  BY <1>1 DEF Messages, Operations
<1>3. q.thread = t /\ q.n = sent[t] + 1 /\ q.op = o /\ q.exec = e
  OBVIOUS
<1>4. wire' = wire \cup {q} /\ sent' = [sent EXCEPT ![t] = @ + 1] /\ UNCHANGED <<error, up, socket>>
  BY DEF Send
<1> HIDE DEF q
<1>5. sent' \in [Threads -> 0..MaxMessages] /\ sent'[t] = sent[t] + 1
      /\ \A u \in Threads : u # t => sent'[u] = sent[u]
  BY <1>1, <1>4, ExecutionAssumption DEF TypeOK
<1> QED
  BY <1>2, <1>3, <1>4, <1>5 DEF TypeOK

LEMMA BeginCallDoes ==
  ASSUME TypeOK, NEW t \in Threads, sent[t] < MaxMessages, NEW o \in Operations,
         NEW e \in 0..MaxExecs, BeginCall(t, o, e)
  PROVE  /\ pc' = [pc EXCEPT ![t] = "calling"] /\ op' = [op EXCEPT ![t] = o]
         /\ answer' = [answer EXCEPT ![t] = 0]
         /\ UNCHANGED <<runVars, gatewayVars, failedStarts, accepted, heard, error, up, socket>>
         /\ t \notin calling
         /\ sent' \in [Threads -> 0..MaxMessages] /\ wire' \subseteq Messages
         /\ \/ /\ sent'[t] = sent[t] + 1 /\ \A u \in Threads : u # t => sent'[u] = sent[u]
               /\ calling' = calling \cup {t}
               /\ \E q \in Messages : /\ wire' = wire \cup {q}
                                      /\ q.thread = t /\ q.n = sent[t] + 1 /\ q.op = o /\ q.exec = e
            \/ calling' = calling /\ sent' = sent /\ wire' = wire
<1>1. CASE up
  <2>1. Send(t, o, e) /\ calling' = calling \cup {t} /\ t \notin calling
        /\ UNCHANGED <<accepted, heard>>
    BY <1>1 DEF BeginCall, Call!Enter
  <2>2. /\ pc' = [pc EXCEPT ![t] = "calling"] /\ op' = [op EXCEPT ![t] = o]
        /\ answer' = [answer EXCEPT ![t] = 0] /\ UNCHANGED <<runVars, gatewayVars, failedStarts>>
    BY DEF BeginCall
  <2> QED
    BY <2>1, <2>2, SendDoes
<1>2. CASE ~up
  BY <1>2 DEF BeginCall, Call!Refuse, linkVars, TypeOK
<1> QED
  BY <1>1, <1>2

LEMMA ReturnDoes ==
  ASSUME NEW t, NEW r, Call!Return(t, r)
  PROVE  /\ t \in calling /\ calling' = calling \ {t} /\ accepted' = accepted \ {t}
         /\ heard' = heard \ {t} /\ (r = "result" => t \in accepted)
BY DEF Call!Return

(* The call of t ends, in whatever way. *)
LEMMA CallEndDoes ==
  ASSUME TypeOK, NEW t \in Threads, CallReturns(t) \/ CallRaises(t) \/ CallRefused(t)
  PROVE  /\ pc[t] = "calling"
         /\ calling' = calling \ {t} /\ accepted' = accepted \ {t} /\ heard' = heard \ {t}
         /\ UNCHANGED <<runVars, op, sent, answer, linkVars, gatewayVars>>
         /\ \/ /\ t \in accepted /\ failedStarts' = failedStarts
               /\ pc' = [pc EXCEPT ![t] = CASE op[t] = "start"   -> "started"
                                            [] op[t] = "observe" -> "body"
                                            [] OTHER             -> "finished"]
            \/ /\ pc' = [pc EXCEPT ![t] = IF op[t] = "observe" THEN "body" ELSE "idle"]
               /\ failedStarts' = IF op[t] = "start" THEN failedStarts \cup {Latest(t)} ELSE failedStarts
<1>1. CASE CallReturns(t)
  BY <1>1, ReturnDoes DEF CallReturns, Resume
<1>2. CASE CallRaises(t)
  <2>1. pc[t] = "calling" /\ Abandon(t) /\ \E r : Call!Return(t, r)
    BY <1>2 DEF CallRaises
  <2> QED
    BY <2>1, ReturnDoes DEF Abandon, Resume, runVars
<1>3. CASE CallRefused(t)
  BY <1>3 DEF CallRefused, Abandon, Resume, runVars, callVars, TypeOK
<1> QED
  BY <1>1, <1>2, <1>3

LEMMA AcknowledgeDoes ==
  ASSUME TypeOK, NEW m \in wire, NEW e \in 0..MaxExecs, Acknowledge(m, e)
  PROVE  /\ calling' = calling /\ heard' = heard
         /\ accepted \subseteq accepted' /\ accepted' \subseteq calling
         /\ answer' \in [Threads -> 0..MaxExecs]
         /\ \A t \in Threads :
              \/ answer'[t] = answer[t] /\ (t \in accepted' => t \in accepted) /\ ~(t = m.thread /\ Awaited(m))
              \/ t = m.thread /\ Awaited(m) /\ t \in accepted' /\ answer'[t] = e
<1>1. m.thread \in Threads
  BY DEF TypeOK, Messages
<1>2. CASE Awaited(m)
  <2>1. accepted' = accepted \cup {m.thread} /\ calling' = calling /\ heard' = heard
        /\ answer' = [answer EXCEPT ![m.thread] = e] /\ m.thread \in calling
    BY <1>2 DEF Acknowledge, Call!Accept
  <2> QED
    BY <1>1, <1>2, <2>1 DEF TypeOK
<1>3. CASE ~Awaited(m)
  BY <1>1, <1>3 DEF Acknowledge, callVars, TypeOK
<1> QED
  BY <1>2, <1>3

-----------------------------------------------------------------------------
(* A repeated finish tells the outcome again, or FAILED instead of COMPLETED. *)
LEMMA FinishAgainDoes ==
  ASSUME TypeOK, NEW t \in Threads, FinishAgain(t)
  PROVE  /\ pc[t] = "idle" /\ execution_id # 0 /\ ended[t] \in Finishes /\ Budget(t, 1)
         /\ pc' = [pc EXCEPT ![t] = "required"]
         /\ \E how \in Finishes, b \in {"running", "doubted"} \cup Finishes :
              /\ op' = [op EXCEPT ![t] = how] /\ ended' = [ended EXCEPT ![t] = how]
              /\ how \in {ended[t], "failed"}
              /\ bodies' = [bodies EXCEPT ![mine[t]] = b]
              /\ mine[t] \in Execs =>
                   \/ b = bodies[mine[t]] /\ ~(how = "failed" /\ b = "completed")
                   \/ (b = "doubted" /\ how = "failed" /\ bodies[mine[t]] = "completed")
         /\ UNCHANGED <<execution_id, mine, sent, callVars, answer, linkVars, gatewayVars, failedStarts>>
<1>1. PICK how \in {ended[t], "failed"} :
        /\ ended' = [ended EXCEPT ![t] = how]
        /\ bodies' = [bodies EXCEPT ![mine[t]] = IF how = "failed" /\ @ = "completed" THEN "doubted" ELSE @]
        /\ op' = [op EXCEPT ![t] = how]
  BY DEF FinishAgain
<1>2. how \in Finishes /\ ended[t] \in Finishes
  BY DEF FinishAgain, Finishes
<1>3. CASE mine[t] \in Execs
  <2> DEFINE b == IF how = "failed" /\ bodies[mine[t]] = "completed" THEN "doubted" ELSE bodies[mine[t]]
  <2>1. b \in {"running", "doubted"} \cup Finishes /\ bodies' = [bodies EXCEPT ![mine[t]] = b]
    BY <1>1, <1>3 DEF TypeOK
  <2>2. \/ b = bodies[mine[t]] /\ ~(how = "failed" /\ b = "completed")
        \/ (b = "doubted" /\ how = "failed" /\ bodies[mine[t]] = "completed")
    OBVIOUS
  <2> HIDE DEF b
  <2> QED
    BY <1>1, <1>2, <2>1, <2>2 DEF FinishAgain
<1>4. CASE mine[t] \notin Execs
  <2>1. bodies' = [bodies EXCEPT ![mine[t]] = "running"]
    BY <1>1, <1>4 DEF TypeOK
  <2> QED
    BY <1>1, <1>2, <1>4, <2>1 DEF FinishAgain
<1> QED
  BY <1>3, <1>4

LEMMA InitCallsInv == Init => CallsInv
<1> SUFFICES ASSUME Init PROVE CallsInv
  OBVIOUS
<1> USE DEF Init, Call!Init
<1>1. TypeOK
  <2>1. /\ execution_id \in 0..MaxExecs /\ mine \in [Threads -> 0..MaxExecs]
        /\ sent \in [Threads -> 0..MaxMessages] /\ answer \in [Threads -> 0..MaxExecs]
        /\ socket \in 0..MaxDrops /\ gwExec \in 0..MaxExecs /\ execs \in 0..MaxExecs
    BY ExecutionAssumption
  <2>2. /\ pc \in [Threads -> Places] /\ op \in [Threads -> {"start", "task", "observe"} \cup Finishes]
        /\ ended \in [Threads -> {"running"} \cup Finishes]
        /\ status \in [Execs -> {"none", "open", "cancelled"} \cup Finishes]
        /\ bodies \in [Execs -> {"running", "doubted"} \cup Finishes]
    BY DEF Places
  <2>3. /\ failedStarts \subseteq Threads \X (0..MaxMessages) /\ wire \subseteq Messages
        /\ calling \subseteq Threads /\ accepted \subseteq calling /\ heard \subseteq calling
        /\ error \in BOOLEAN /\ up \in BOOLEAN
    OBVIOUS
  <2> QED
    BY <2>1, <2>2, <2>3 DEF TypeOK
<1>2. PlacesMatch /\ SocketMatches /\ RequestsMatch
  BY DEF PlacesMatch, SocketMatches, RequestsMatch
<1>3. ExecsCounted /\ OpenersMatch
  BY ExecutionAssumption DEF ExecsCounted, OpenersMatch, Execs
<1>4. StartsMatch /\ StartsAccountedFor
  BY DEF StartsMatch, StartsAccountedFor
<1> QED
  BY <1>1, <1>2, <1>3, <1>4 DEF CallsInv

LEMMA TypesPreserved == TypeOK /\ Steps => TypeOK'
<1> SUFFICES ASSUME TypeOK, Steps PROVE TypeOK'
  OBVIOUS
<1>1. ASSUME NEW t \in Threads, StartChecks(t) \/ StartAssigns(t) PROVE TypeOK'
  BY <1>1 DEF StartChecks, StartAssigns, TypeOK, Places, runVars, callVars, linkVars, gatewayVars
<1>2. ASSUME NEW t \in Threads, BodyInterrupted(t) \/ FinishClears(t) PROVE TypeOK'
  <2>1. /\ pc' \in [Threads -> Places] /\ execution_id' \in 0..MaxExecs
        /\ UNCHANGED <<mine, ended, bodies, op, sent, callVars, answer, linkVars, gatewayVars, failedStarts>>
    BY <1>2, ExecutionAssumption DEF BodyInterrupted, FinishClears, TypeOK, Places
  <2> QED
    BY <2>1 DEF TypeOK, callVars, linkVars, gatewayVars
<1>3. ASSUME NEW t \in Threads, CallReturns(t) \/ CallRaises(t) \/ CallRefused(t) PROVE TypeOK'
  <2>1. /\ calling' = calling \ {t} /\ accepted' = accepted \ {t} /\ heard' = heard \ {t}
        /\ UNCHANGED <<runVars, op, sent, answer, linkVars, gatewayVars>>
    BY <1>3, CallEndDoes
  <2>2. pc' \in [Threads -> Places]
    <3>1. \E place \in Places : pc' = [pc EXCEPT ![t] = place]
      BY <1>3, CallEndDoes DEF Places
    <3> QED
      BY <3>1 DEF TypeOK
  <2>3. Latest(t) \in Threads \X (0..MaxMessages)
    BY DEF TypeOK, Latest
  <2>4. failedStarts' \subseteq Threads \X (0..MaxMessages)
    BY <1>3, <2>3, CallEndDoes DEF TypeOK
  <2> QED
    BY <2>1, <2>2, <2>4 DEF TypeOK, runVars, linkVars, gatewayVars
<1>4. ASSUME NEW t \in Threads, sent[t] < MaxMessages, NEW o \in Operations, NEW e \in 0..MaxExecs,
             BeginCall(t, o, e)
      PROVE TypeOK'
  <2>1. /\ pc' = [pc EXCEPT ![t] = "calling"] /\ op' = [op EXCEPT ![t] = o]
        /\ answer' = [answer EXCEPT ![t] = 0]
        /\ UNCHANGED <<runVars, gatewayVars, failedStarts, accepted, heard, error, up, socket>>
        /\ sent' \in [Threads -> 0..MaxMessages] /\ wire' \subseteq Messages
        /\ calling \subseteq calling' /\ calling' \subseteq calling \cup {t}
    BY <1>4, BeginCallDoes
  <2>2. /\ pc' \in [Threads -> Places] /\ op' \in [Threads -> {"start", "task", "observe"} \cup Finishes]
        /\ answer' \in [Threads -> 0..MaxExecs]
    BY <2>1, ExecutionAssumption DEF TypeOK, Places, Operations
  <2> QED
    BY <2>1, <2>2 DEF TypeOK, runVars, gatewayVars
<1>5. ASSUME NEW t \in Threads, sent[t] < MaxMessages, StartCalls(t) \/ RequiredCalls(t) PROVE TypeOK'
  <2>1. \E o \in Operations, e \in 0..MaxExecs : BeginCall(t, o, e)
    <3>1. CASE StartCalls(t)
      <4>1. BeginCall(t, "start", 0) /\ "start" \in Operations /\ 0 \in 0..MaxExecs
        BY <3>1, ExecutionAssumption DEF StartCalls, Operations
      <4> QED
        BY <4>1
    <3>2. CASE RequiredCalls(t)
      <4>1. BeginCall(t, op[t], execution_id) /\ op[t] \in Operations /\ execution_id \in 0..MaxExecs
        BY <3>2 DEF RequiredCalls, Operations, TypeOK
      <4> QED
        BY <4>1
    <3> QED
      BY <1>5, <3>1, <3>2
  <2> QED
    BY <1>4, <1>5, <2>1
<1>6. ASSUME NEW t \in Threads, sent[t] < MaxMessages, ReportTasks(t) PROVE TypeOK'
  <2>1. /\ pc' \in [Threads -> Places]
        /\ UNCHANGED <<runVars, op, callVars, answer, gatewayVars, failedStarts>>
    BY <1>6 DEF ReportTasks, TypeOK, Places
  <2>2. /\ sent' \in [Threads -> 0..MaxMessages] /\ wire' \subseteq Messages
        /\ UNCHANGED <<error, up, socket>>
    <3>1. CASE up
      <4>1. Send(t, "task", execution_id) /\ execution_id \in 0..MaxExecs /\ "task" \in Operations
        BY <1>6, <3>1 DEF ReportTasks, TypeOK, Operations
      <4> QED
        BY <1>6, <4>1, SendDoes
    <3>2. CASE ~up
      BY <1>6, <3>2 DEF ReportTasks, TypeOK, linkVars
    <3> QED
      BY <3>1, <3>2
  <2> QED
    BY <2>1, <2>2 DEF TypeOK, runVars, callVars, gatewayVars
<1>7. ASSUME NEW t \in Threads, NEW o \in Operations, Require(t, o) PROVE TypeOK'
  BY <1>7 DEF Require, TypeOK, Places, Operations, runVars, callVars, linkVars, gatewayVars
<1>8. ASSUME NEW t \in Threads, NEW how \in Finishes, BodyEnds(t, how) PROVE TypeOK'
  BY <1>8 DEF BodyEnds, TypeOK, Places, callVars, linkVars, gatewayVars
<1>18. ASSUME NEW t \in Threads, FinishAgain(t) PROVE TypeOK'
  <2>1. /\ pc' = [pc EXCEPT ![t] = "required"]
        /\ \E how \in Finishes, b \in {"running", "doubted"} \cup Finishes :
             /\ op' = [op EXCEPT ![t] = how] /\ ended' = [ended EXCEPT ![t] = how]
             /\ bodies' = [bodies EXCEPT ![mine[t]] = b]
        /\ UNCHANGED <<execution_id, mine, sent, callVars, answer, linkVars, gatewayVars, failedStarts>>
    BY <1>18, FinishAgainDoes
  <2> QED
    BY <2>1 DEF TypeOK, Places, callVars, linkVars, gatewayVars
<1>9. ASSUME NEW m \in wire, NEW e \in 0..MaxExecs, Acknowledge(m, e), wire' = wire \ {m},
             UNCHANGED <<runVars, pc, op, sent, error, up, socket, failedStarts>>,
             gwExec' \in 0..MaxExecs, execs' \in 0..MaxExecs,
             status' \in [Execs -> {"none", "open", "cancelled"} \cup Finishes]
      PROVE TypeOK'
  <2>1. /\ calling' = calling /\ heard' = heard /\ accepted' \subseteq calling
        /\ answer' \in [Threads -> 0..MaxExecs]
    BY <1>9, AcknowledgeDoes
  <2> QED
    BY <1>9, <2>1 DEF TypeOK, runVars
<1>10. ASSUME NEW m \in wire, GatewayOpens(m) PROVE TypeOK'
  <2>1. execs + 1 \in 0..MaxExecs
    BY <1>10, ExecutionAssumption DEF GatewayOpens, Opens, TypeOK
  <2>2. status' \in [Execs -> {"none", "open", "cancelled"} \cup Finishes]
    BY <1>10 DEF GatewayOpens, TypeOK
  <2> QED
    BY <1>9, <1>10, <2>1, <2>2 DEF GatewayOpens
<1>11. ASSUME NEW m \in wire, GatewayServes(m) PROVE TypeOK'
  <2>1. gwExec' \in 0..MaxExecs /\ execs' \in 0..MaxExecs /\ gwExec \in 0..MaxExecs
    BY <1>11, ExecutionAssumption DEF GatewayServes, TypeOK
  <2>2. status' \in [Execs -> {"none", "open", "cancelled"} \cup Finishes]
    BY <1>11 DEF GatewayServes, TypeOK
  <2> QED
    BY <1>9, <1>11, <2>1, <2>2 DEF GatewayServes
<1>12. ASSUME NEW m \in wire, GatewayRejects(m) PROVE TypeOK'
  BY <1>12 DEF GatewayRejects, TypeOK, runVars, callVars, gatewayVars
<1>13. CASE SessionError \/ ErrorArrives
  BY <1>13 DEF SessionError, ErrorArrives, Call!ErrorReaches, TypeOK, runVars, callVars, gatewayVars
<1>14. CASE PlatformCancels
  <2>1. /\ gwExec' \in 0..MaxExecs /\ execs' \in 0..MaxExecs
        /\ status' \in [Execs -> {"none", "open", "cancelled"} \cup Finishes]
    BY <1>14, ZeroIsExec DEF PlatformCancels, TypeOK
  <2> QED
    BY <1>14, <2>1 DEF PlatformCancels, TypeOK, runVars, callVars, linkVars
<1>15. CASE Cut
  <2>1. gwExec' \in 0..MaxExecs /\ wire' \subseteq Messages /\ up' \in BOOLEAN /\ error' \in BOOLEAN
    BY <1>15, ZeroIsExec, Zenon DEF Cut
  <2> QED
    BY <1>15, <2>1 DEF Cut, TypeOK, runVars, callVars
<1>16. CASE Reconnect /\ socket < MaxDrops
  <2>1. socket' \in 0..MaxDrops /\ up' \in BOOLEAN
    BY <1>16, ExecutionAssumption DEF Reconnect, TypeOK
  <2> QED
    BY <1>16, <2>1 DEF Reconnect, TypeOK, runVars, callVars, gatewayVars
<1>17. CASE UNCHANGED vars
  BY <1>17 DEF vars, TypeOK, runVars, callVars, linkVars, gatewayVars
<1> QED
  BY <1>1, <1>2, <1>3, <1>5, <1>6, <1>7, <1>8, <1>10, <1>11, <1>12, <1>13, <1>14, <1>15, <1>16, <1>17,
     <1>18
  DEF Steps

-----------------------------------------------------------------------------
(* The shapes of the steps: a thread goes on by itself, begins a call, reports, or its *)
(* call ends; the gateway takes a message; or something happens outside.               *)
Inner(t) ==
  \/ StartChecks(t) \/ StartAssigns(t) \/ BodyInterrupted(t) \/ FinishClears(t)
  \/ \E o \in Operations : pc[t] \in {"idle", "body"} /\ Require(t, o)
  \/ \E how \in Finishes : BodyEnds(t, how)

Local(t) ==
  /\ pc[t] # "calling" /\ pc'[t] \notin {"calling", "started"}
  /\ \A u \in Threads : u # t => pc'[u] = pc[u] /\ op'[u] = op[u] /\ mine'[u] = mine[u]
  /\ \/ execution_id' = 0 /\ mine'[t] = mine[t]
     \/ execution_id' = execution_id /\ mine'[t] = mine[t]
     \/ pc[t] = "started" /\ execution_id' = answer[t] /\ mine'[t] = answer[t]
  /\ bodies' = bodies \/ \E how : bodies' = [bodies EXCEPT ![mine[t]] = how]
  /\ UNCHANGED <<sent, calling, accepted, answer, wire, up, socket, gwExec, execs, status, opener,
                 failedStarts>>

Asks(t, o, e) ==
  /\ pc[t] \in {"checked", "required"} /\ o \in Operations \ {"task"} /\ e \in 0..MaxExecs
  /\ o = "start" \/ (o = op[t] /\ e = execution_id /\ pc[t] = "required")
  /\ o = "start" => pc[t] = "checked" /\ e = 0
  /\ sent[t] < MaxMessages /\ BeginCall(t, o, e)

Reports(t) == pc[t] = "required" /\ op[t] = "task" /\ sent[t] < MaxMessages /\ ReportTasks(t)

Ends(t) == CallReturns(t) \/ CallRaises(t) \/ CallRefused(t)

Serves(m) == GatewayOpens(m) \/ GatewayServes(m) \/ GatewayRejects(m)

Outside ==
  /\ wire' = wire \/ wire' = {}
  /\ \/ gwExec' \in {0, gwExec} /\ status' = status
     \/ gwExec # 0 /\ gwExec' = 0 /\ status' = [status EXCEPT ![gwExec] = "cancelled"]
  /\ ~up' => wire' = {} /\ gwExec' = 0
  /\ UNCHANGED <<execution_id, mine, ended, bodies, pc, op, sent, calling, accepted, answer, execs,
                 opener, failedStarts>>

LEMMA StepShapes ==
  ASSUME TypeOK, PlacesMatch, SocketMatches, Steps
  PROVE  \/ \E t \in Threads : Local(t)
         \/ \E t \in Threads, o \in Operations, e \in 0..MaxExecs : Asks(t, o, e)
         \/ \E t \in Threads : Reports(t)
         \/ \E t \in Threads : Ends(t)
         \/ \E m \in wire : Serves(m)
         \/ Outside
<1> DEFINE Goal == \/ \E t \in Threads : Local(t)
                   \/ \E t \in Threads, o \in Operations, e \in 0..MaxExecs : Asks(t, o, e)
                   \/ \E t \in Threads : Reports(t)
                   \/ \E t \in Threads : Ends(t)
                   \/ \E m \in wire : Serves(m)
                   \/ Outside
<1>0. DOMAIN pc = Threads /\ DOMAIN op = Threads /\ DOMAIN mine = Threads
  BY DEF TypeOK
<1>1. ASSUME NEW t \in Threads, Inner(t) PROVE Local(t)
  <2>1. UNCHANGED <<sent, calling, accepted, answer, wire, up, socket, gwExec, execs, status, opener,
                    failedStarts>>
    BY <1>1 DEF Inner, StartChecks, StartAssigns, BodyInterrupted, FinishClears, Require, BodyEnds,
       callVars, linkVars, gatewayVars
  <2>2. /\ pc[t] # "calling" /\ \E place : pc' = [pc EXCEPT ![t] = place] /\ place \notin {"calling", "started"}
    BY <1>1 DEF Inner, StartChecks, StartAssigns, BodyInterrupted, FinishClears, Require, BodyEnds
  <2>3. \A u \in Threads : u # t => op'[u] = op[u] /\ mine'[u] = mine[u]
    BY <1>0, <1>1
    DEF Inner, StartChecks, StartAssigns, BodyInterrupted, FinishClears, Require, BodyEnds, runVars
  <2>4. \/ execution_id' = 0 /\ mine'[t] = mine[t]
        \/ execution_id' = execution_id /\ mine'[t] = mine[t]
        \/ pc[t] = "started" /\ execution_id' = answer[t] /\ mine'[t] = answer[t]
    BY <1>0, <1>1
    DEF Inner, StartChecks, StartAssigns, BodyInterrupted, FinishClears, Require, BodyEnds, runVars
  <2>5. bodies' = bodies \/ \E how : bodies' = [bodies EXCEPT ![mine[t]] = how]
    BY <1>1 DEF Inner, StartChecks, StartAssigns, BodyInterrupted, FinishClears, Require, BodyEnds, runVars
  <2> QED
    BY <1>0, <2>1, <2>2, <2>3, <2>4, <2>5 DEF Local
<1>2. ASSUME NEW t \in Threads, sent[t] < MaxMessages, StartCalls(t) \/ ReportTasks(t) \/ RequiredCalls(t)
      PROVE Goal
  <2>1. CASE StartCalls(t)
    <3>1. Asks(t, "start", 0) /\ "start" \in Operations /\ 0 \in 0..MaxExecs
      BY <1>2, <2>1, ZeroIsExec DEF StartCalls, Asks, Operations
    <3> QED
      BY <3>1
  <2>2. CASE RequiredCalls(t)
    <3>1. Asks(t, op[t], execution_id) /\ op[t] \in Operations /\ execution_id \in 0..MaxExecs
      BY <1>2, <2>2 DEF RequiredCalls, Asks, Operations, TypeOK, PlacesMatch
    <3> QED
      BY <3>1
  <2>3. CASE ReportTasks(t)
    <3>1. Reports(t)
      BY <1>2, <2>3 DEF ReportTasks, Reports
    <3> QED
      BY <3>1
  <2> QED
    BY <1>2, <2>1, <2>2, <2>3
<1>3. SessionError \/ ErrorArrives \/ PlatformCancels \/ UNCHANGED vars => Outside
  BY DEF SessionError, ErrorArrives, PlatformCancels, Outside, Call!ErrorReaches, vars, runVars,
     callVars, linkVars, gatewayVars, SocketMatches
<1>4. Cut \/ Reconnect => Outside
  BY DEF Cut, Reconnect, Outside, runVars, callVars, linkVars, gatewayVars
<1>5. ASSUME NEW t \in Threads, CallReturns(t) \/ CallRaises(t) \/ CallRefused(t) PROVE Goal
  BY <1>5 DEF Ends
<1>6. ASSUME NEW m \in wire, GatewayOpens(m) \/ GatewayServes(m) \/ GatewayRejects(m) PROVE Goal
  BY <1>6 DEF Serves
<1>7. ASSUME NEW t \in Threads, Inner(t) PROVE Goal
  BY <1>1, <1>7
<1>11. ASSUME NEW t \in Threads, FinishAgain(t) PROVE Local(t)
  <2>1. /\ pc[t] = "idle" /\ pc' = [pc EXCEPT ![t] = "required"]
        /\ \E how : op' = [op EXCEPT ![t] = how]
        /\ \E how : bodies' = [bodies EXCEPT ![mine[t]] = how]
        /\ UNCHANGED <<execution_id, mine, sent, callVars, answer, linkVars, gatewayVars, failedStarts>>
    BY <1>11, FinishAgainDoes
  <2> QED
    BY <1>0, <2>1 DEF Local, callVars, linkVars, gatewayVars
<1>8. ASSUME NEW t \in Threads, NEW o \in Operations, pc[t] \in {"idle", "body"}, Require(t, o) PROVE Inner(t)
  BY <1>8 DEF Inner
<1>9. ASSUME NEW t \in Threads, NEW how \in Finishes, BodyEnds(t, how) PROVE Inner(t)
  BY <1>9 DEF Inner
<1>10. ASSUME NEW t \in Threads, \/ StartChecks(t) \/ StartAssigns(t) \/ BodyInterrupted(t) \/ FinishClears(t)
       PROVE Inner(t)
  BY <1>10 DEF Inner
<1>12. ASSUME NEW t \in Threads, FinishAgain(t) PROVE Goal
  BY <1>11, <1>12
<1> HIDE DEF Goal
<1> QED
  <2>1. Outside => Goal
    BY DEF Goal
  <2>2. Goal
    BY <1>2, <1>3, <1>4, <1>5, <1>6, <1>7, <1>8, <1>9, <1>10, <1>12, <2>1 DEF Steps
  <2> QED
    BY <2>2 DEF Goal

LEMMA PlacesPreserved == TypeOK /\ PlacesMatch /\ Steps => PlacesMatch'
<1> SUFFICES ASSUME TypeOK, PlacesMatch, Steps PROVE PlacesMatch'
  OBVIOUS
<1>0. /\ pc \in [Threads -> Places] /\ op \in [Threads -> {"start", "task", "observe"} \cup Finishes]
      /\ calling \subseteq Threads
  BY DEF TypeOK
<1> USE DEF PlacesMatch
<1>1. ASSUME NEW t \in Threads, StartChecks(t) \/ StartAssigns(t) \/ BodyInterrupted(t) \/ FinishClears(t)
      PROVE PlacesMatch'
  BY <1>0, <1>1 DEF StartChecks, StartAssigns, BodyInterrupted, FinishClears, callVars
<1>2. ASSUME NEW t \in Threads, Ends(t) PROVE PlacesMatch'
  <2>1. /\ pc[t] = "calling" /\ calling' = calling \ {t} /\ op' = op
        /\ \E place : /\ pc' = [pc EXCEPT ![t] = place]
                      /\ \/ place \in {"idle", "body"}
                         \/ place = "started" /\ op[t] = "start"
                         \/ place = "finished" /\ op[t] \notin {"start", "observe"}
    BY <1>2, CallEndDoes DEF Ends
  <2> QED
    BY <1>0, <2>1
<1>3. ASSUME NEW t \in Threads, sent[t] < MaxMessages, StartCalls(t) \/ RequiredCalls(t)
      PROVE PlacesMatch'
  <2>1. \E o \in Operations, e \in 0..MaxExecs : o # "task" /\ BeginCall(t, o, e)
    <3>1. CASE StartCalls(t)
      <4>1. BeginCall(t, "start", 0) /\ "start" \in Operations
        BY <3>1 DEF StartCalls, Operations
      <4> QED
        BY <4>1, ZeroIsExec
    <3>2. CASE RequiredCalls(t)
      <4>1. BeginCall(t, op[t], execution_id) /\ op[t] \in Operations /\ execution_id \in 0..MaxExecs
            /\ op[t] # "task"
        BY <3>2 DEF RequiredCalls, Operations, TypeOK
      <4> QED
        BY <4>1
    <3> QED
      BY <1>3, <3>1, <3>2
  <2>2. PICK o \in Operations, e \in 0..MaxExecs : o # "task" /\ BeginCall(t, o, e)
    BY <2>1
  <2>3. pc' = [pc EXCEPT ![t] = "calling"] /\ op' = [op EXCEPT ![t] = o] /\ calling' \subseteq calling \cup {t}
    BY <1>3, <2>2, BeginCallDoes
  <2> QED
    BY <1>0, <2>2, <2>3
<1>4. ASSUME NEW t \in Threads, ReportTasks(t) PROVE PlacesMatch'
  BY <1>0, <1>4 DEF ReportTasks, callVars
<1>5. ASSUME NEW t \in Threads, NEW o \in Operations, pc[t] \in {"idle", "body"}, o # "start", Require(t, o)
      PROVE PlacesMatch'
  BY <1>0, <1>5 DEF Require, callVars
<1>6. ASSUME NEW t \in Threads, NEW how \in Finishes, BodyEnds(t, how) PROVE PlacesMatch'
  BY <1>0, <1>6 DEF BodyEnds, callVars, Finishes
<1>9. ASSUME NEW t \in Threads, FinishAgain(t) PROVE PlacesMatch'
  <2>1. pc[t] = "idle" /\ pc' = [pc EXCEPT ![t] = "required"] /\ calling' = calling
        /\ \E how \in Finishes : op' = [op EXCEPT ![t] = how]
    BY <1>9, FinishAgainDoes DEF callVars
  <2> QED
    BY <1>0, <2>1 DEF Finishes
<1>7. ASSUME NEW m \in wire, Serves(m) PROVE PlacesMatch'
  BY <1>7 DEF Serves, GatewayOpens, GatewayServes, GatewayRejects, Acknowledge, Call!Accept, callVars
<1>8. CASE SessionError \/ ErrorArrives \/ PlatformCancels \/ Cut \/ Reconnect \/ UNCHANGED vars
  BY <1>8 DEF SessionError, ErrorArrives, PlatformCancels, Cut, Reconnect, Call!ErrorReaches, vars, callVars
<1> QED
  BY <1>1, <1>2, <1>3, <1>4, <1>5, <1>6, <1>7, <1>8, <1>9 DEF Steps, Serves, Ends

(* At most one message is sent, the next one of t. *)
Sends(t, o, e) ==
  /\ sent' \in [Threads -> 0..MaxMessages] /\ wire' \subseteq Messages
  /\ \/ /\ sent'[t] = sent[t] + 1 /\ \A u \in Threads : u # t => sent'[u] = sent[u]
        /\ \E q \in Messages : /\ wire' = wire \cup {q}
                               /\ q.thread = t /\ q.n = sent[t] + 1 /\ q.op = o /\ q.exec = e
     \/ sent' = sent /\ wire' = wire
  /\ ~up => wire' = wire
  /\ UNCHANGED <<up, socket, gwExec, execs, status, opener, execution_id, mine, ended, bodies, failedStarts,
                 accepted>>
  /\ t \notin calling

LEMMA AsksDoes ==
  ASSUME TypeOK, NEW t \in Threads, NEW o \in Operations, NEW e \in 0..MaxExecs, Asks(t, o, e)
  PROVE  /\ Sends(t, o, e)
         /\ pc' = [pc EXCEPT ![t] = "calling"] /\ op' = [op EXCEPT ![t] = o]
         /\ answer' = [answer EXCEPT ![t] = 0]
         /\ \/ calling' = calling \cup {t} /\ sent'[t] = sent[t] + 1
            \/ calling' = calling /\ sent' = sent /\ wire' = wire
<1>1. ~up => wire' = wire
  BY DEF Asks, BeginCall, linkVars
<1>2. sent[t] < MaxMessages /\ BeginCall(t, o, e)
  BY DEF Asks
<1> QED
  BY <1>1, <1>2, BeginCallDoes DEF Sends, runVars, gatewayVars

LEMMA ReportsDoes ==
  ASSUME TypeOK, PlacesMatch, NEW t \in Threads, Reports(t)
  PROVE  /\ Sends(t, "task", execution_id)
         /\ pc[t] = "required" /\ op[t] = "task" /\ pc' = [pc EXCEPT ![t] = "body"]
         /\ UNCHANGED <<op, answer, calling, accepted>>
<1>1. /\ pc[t] = "required" /\ op[t] = "task" /\ pc' = [pc EXCEPT ![t] = "body"]
      /\ UNCHANGED <<runVars, op, callVars, answer, gatewayVars, failedStarts>>
      /\ sent[t] < MaxMessages
  BY DEF Reports, ReportTasks
<1>2. t \notin calling
  BY <1>1 DEF PlacesMatch
<1>3. "task" \in Operations /\ execution_id \in 0..MaxExecs
  BY DEF Operations, TypeOK
<1>4. CASE up
  <2>1. Send(t, "task", execution_id)
    BY <1>4 DEF Reports, ReportTasks
  <2>2. /\ sent' \in [Threads -> 0..MaxMessages] /\ wire' \subseteq Messages
        /\ sent'[t] = sent[t] + 1 /\ \A u \in Threads : u # t => sent'[u] = sent[u]
        /\ UNCHANGED <<error, up, socket>>
        /\ \E q \in Messages : /\ wire' = wire \cup {q}
                               /\ q.thread = t /\ q.n = sent[t] + 1 /\ q.op = "task" /\ q.exec = execution_id
    BY <1>1, <1>3, <2>1, SendDoes
  <2>3. /\ UNCHANGED <<gwExec, execs, status, opener, execution_id, mine, ended, bodies, accepted, calling,
                       answer, op, failedStarts>>
    BY <1>1 DEF runVars, callVars, gatewayVars
  <2> QED
    BY <1>1, <1>2, <1>4, <2>2, <2>3 DEF Sends
<1>5. CASE ~up
  <2>1. UNCHANGED <<sent, linkVars>>
    BY <1>5 DEF Reports, ReportTasks
  <2> QED
    BY <1>1, <1>2, <2>1 DEF Sends, runVars, callVars, gatewayVars, linkVars, TypeOK
<1> QED
  BY <1>4, <1>5

LEMMA ServesDoes ==
  ASSUME TypeOK, ExecsCounted, NEW m \in wire, Serves(m)
  PROVE  /\ wire' = wire \ {m} /\ calling' = calling
         /\ UNCHANGED <<execution_id, mine, ended, bodies, pc, op, sent, up, socket, failedStarts>>
         /\ \/ /\ m.op = "start" /\ gwExec = 0 /\ execs < MaxExecs
               /\ execs' = execs + 1 /\ gwExec' = execs + 1
               /\ status' = [status EXCEPT ![execs + 1] = "open"]
               /\ opener' = [opener EXCEPT ![execs + 1] = <<m.thread, m.n, socket>>]
               /\ Acknowledge(m, execs + 1)
            \/ /\ m.op # "start" /\ m.exec = gwExec /\ gwExec # 0 /\ execs' = execs /\ opener' = opener
               /\ IF m.op \in Finishes
                  THEN gwExec' = 0 /\ status' = [status EXCEPT ![gwExec] = m.op]
                  ELSE gwExec' = gwExec /\ status' = status
               /\ Acknowledge(m, gwExec)
            \/ UNCHANGED <<accepted, answer, gwExec, execs, status, opener>>
<1>1. CASE GatewayOpens(m)
  <2>1. calling' = calling
    BY <1>1, Zenon DEF GatewayOpens, Acknowledge, Call!Accept, callVars
  <2> QED
    BY <1>1, <2>1 DEF GatewayOpens, Opens, runVars
<1>2. CASE GatewayServes(m)
  <2>1. calling' = calling
    BY <1>2, Zenon DEF GatewayServes, Acknowledge, Call!Accept, callVars
  <2> QED
    BY <1>2, <2>1 DEF GatewayServes, Concerns, runVars
<1>3. CASE GatewayRejects(m)
  BY <1>3 DEF GatewayRejects, runVars, callVars, gatewayVars
<1> QED
  BY <1>1, <1>2, <1>3 DEF Serves

LEMMA EndsDoes ==
  ASSUME TypeOK, NEW t \in Threads, Ends(t)
  PROVE  /\ pc[t] = "calling" /\ calling' = calling \ {t} /\ accepted' = accepted \ {t}
         /\ UNCHANGED <<execution_id, mine, ended, bodies, op, sent, answer, wire, up, socket, gwExec, execs,
                        status, opener>>
         /\ \/ /\ t \in accepted /\ failedStarts' = failedStarts
               /\ pc' = [pc EXCEPT ![t] = CASE op[t] = "start"   -> "started"
                                            [] op[t] = "observe" -> "body"
                                            [] OTHER             -> "finished"]
            \/ /\ pc' = [pc EXCEPT ![t] = IF op[t] = "observe" THEN "body" ELSE "idle"]
               /\ failedStarts' = IF op[t] = "start" THEN failedStarts \cup {Latest(t)} ELSE failedStarts
BY CallEndDoes DEF Ends, runVars, linkVars, gatewayVars

-----------------------------------------------------------------------------
LEMMA SocketPreserved == CallsInv /\ Steps => SocketMatches'
<1> SUFFICES ASSUME CallsInv, Steps PROVE SocketMatches'
  OBVIOUS
<1>0. TypeOK /\ PlacesMatch /\ SocketMatches /\ ExecsCounted
  BY DEF CallsInv
<1>1. ASSUME NEW t \in Threads, Local(t) PROVE SocketMatches'
  BY <1>0, <1>1 DEF Local, SocketMatches
<1>2. ASSUME NEW t \in Threads, NEW o, NEW e, Sends(t, o, e) PROVE SocketMatches'
  BY <1>0, <1>2 DEF Sends, SocketMatches
<1>3. ASSUME NEW t \in Threads, Ends(t) PROVE SocketMatches'
  BY <1>0, <1>3, EndsDoes DEF SocketMatches
<1>4. ASSUME NEW m \in wire, Serves(m) PROVE SocketMatches'
  BY <1>0, <1>4, ServesDoes DEF SocketMatches
<1>5. CASE Outside
  BY <1>5 DEF Outside, SocketMatches
<1> QED
  BY <1>0, <1>1, <1>2, <1>3, <1>4, <1>5, StepShapes, AsksDoes, ReportsDoes

LEMMA ExecsPreserved == CallsInv /\ Steps => ExecsCounted'
<1> SUFFICES ASSUME CallsInv, Steps PROVE ExecsCounted'
  OBVIOUS
<1>0. TypeOK /\ PlacesMatch /\ SocketMatches /\ ExecsCounted
  BY DEF CallsInv
<1>a. /\ mine \in [Threads -> 0..MaxExecs] /\ answer \in [Threads -> 0..MaxExecs]
      /\ execution_id \in 0..MaxExecs /\ gwExec \in 0..MaxExecs /\ execs \in 0..MaxExecs
      /\ bodies \in [Execs -> {"running", "doubted"} \cup Finishes]
      /\ status \in [Execs -> {"none", "open", "cancelled"} \cup Finishes]
  BY <1>0 DEF TypeOK
<1>1. ASSUME NEW t \in Threads, Local(t) PROVE ExecsCounted'
  <2>1. mine'[t] =< execs /\ execution_id' =< execs
    BY <1>0, <1>1, <1>a DEF Local, ExecsCounted
  <2>2. \A e \in Execs : e > execs => bodies'[e] = "running"
    <3>1. /\ mine[t] =< execs /\ mine[t] \in 0..MaxExecs
          /\ \A e \in Execs : e > execs => bodies[e] = "running"
      BY <1>0, <1>a DEF ExecsCounted
    <3>2. CASE bodies' = bodies
      BY <3>1, <3>2
    <3>3. ASSUME NEW how, bodies' = [bodies EXCEPT ![mine[t]] = how]
          PROVE \A e \in Execs : e > execs => bodies'[e] = "running"
      <4>1. \A e \in Execs : e > execs => e # mine[t]
        BY <1>a, <3>1 DEF Execs
      <4> QED
        BY <1>a, <3>1, <3>3, <4>1
    <3> QED
      BY <1>1, <3>2, <3>3 DEF Local
  <2>3. /\ \A u \in Threads : u # t => mine'[u] = mine[u]
        /\ UNCHANGED <<answer, wire, gwExec, execs, status, opener>>
    BY <1>1 DEF Local
  <2> QED
    BY <1>0, <2>1, <2>2, <2>3 DEF ExecsCounted
<1>2. ASSUME NEW t \in Threads, NEW o, NEW e, e \in {0, execution_id}, Sends(t, o, e),
             answer' = answer \/ answer' = [answer EXCEPT ![t] = 0]
      PROVE ExecsCounted'
  <2>1. UNCHANGED <<gwExec, execs, status, opener, execution_id, mine, bodies>>
    BY <1>2 DEF Sends
  <2>2. \A m \in wire' : m.exec =< execs
    BY <1>0, <1>2, <1>a DEF Sends, ExecsCounted
  <2>3. \A u \in Threads : answer'[u] =< execs
    <3>1. \A u \in Threads : answer'[u] \in {0, answer[u]}
      BY <1>2, <1>a
    <3>2. 0 =< execs /\ \A u \in Threads : answer[u] =< execs
      BY <1>0, <1>a DEF ExecsCounted
    <3> QED
      BY <3>1, <3>2
  <2> QED
    BY <1>0, <2>1, <2>2, <2>3 DEF ExecsCounted
<1>3. ASSUME NEW t \in Threads, Ends(t) PROVE ExecsCounted'
  BY <1>0, <1>3, EndsDoes DEF ExecsCounted
<1>4. ASSUME NEW m \in wire, Serves(m) PROVE ExecsCounted'
  <2>0. /\ wire' = wire \ {m}
        /\ UNCHANGED <<execution_id, mine, bodies>>
    BY <1>0, <1>4, ServesDoes
  <2>1. ASSUME m.op = "start", gwExec = 0, execs < MaxExecs, execs' = execs + 1, gwExec' = execs + 1,
               status' = [status EXCEPT ![execs + 1] = "open"],
               opener' = [opener EXCEPT ![execs + 1] = <<m.thread, m.n, socket>>],
               Acknowledge(m, execs + 1)
        PROVE ExecsCounted'
    <3>1. execs + 1 \in 0..MaxExecs /\ execs + 1 \in Execs
      BY <1>a, <2>1, ExecutionAssumption DEF Execs
    <3>2. \A u \in Threads : answer'[u] =< execs'
      <4>1. \A u \in Threads : answer'[u] \in {answer[u], execs + 1}
        BY <1>0, <2>1, <3>1, AcknowledgeDoes
      <4>2. \A u \in Threads : answer[u] \in 0..MaxExecs /\ answer[u] =< execs
        BY <1>0, <1>a DEF ExecsCounted
      <4> QED
        BY <1>a, <2>1, <4>1, <4>2
    <3>3. gwExec' # 0 => status'[gwExec'] = "open"
      BY <1>a, <2>1, <3>1
    <3>4. \A e \in Execs : opener'[e] = <<>> <=> e > execs'
      <4>1. opener \in [Execs -> {<<>>} \cup (Threads \X (1..MaxMessages) \X (0..MaxDrops))]
        BY DEF CallsInv, OpenersMatch
      <4> QED
        BY <1>0, <1>a, <2>1, <3>1, <4>1 DEF ExecsCounted, Execs
    <3>5. /\ gwExec' =< execs' /\ execution_id' =< execs'
          /\ \A u \in Threads : mine'[u] =< execs'
          /\ \A q \in wire' : q.exec =< execs'
          /\ \A e \in Execs : e > execs' => bodies'[e] = "running"
      <4>1. wire \subseteq Messages /\ \A q \in wire : q.exec \in 0..MaxExecs
        BY <1>0 DEF TypeOK, Messages
      <4> QED
        BY <1>0, <1>a, <2>0, <2>1, <4>1 DEF ExecsCounted, Execs
    <3>6. \A e \in Execs : e > execs' => status'[e] = "none"
      BY <1>0, <1>a, <2>1, <3>1 DEF ExecsCounted, Execs
    <3> QED
      BY <3>2, <3>3, <3>4, <3>5, <3>6 DEF ExecsCounted
  <2>2. ASSUME m.op # "start", gwExec # 0, execs' = execs, opener' = opener,
               IF m.op \in Finishes
               THEN gwExec' = 0 /\ status' = [status EXCEPT ![gwExec] = m.op]
               ELSE gwExec' = gwExec /\ status' = status,
               Acknowledge(m, gwExec)
        PROVE ExecsCounted'
    <3>1. \A u \in Threads : answer'[u] =< execs
      <4>1. \A u \in Threads : answer'[u] \in {answer[u], gwExec}
        BY <1>0, <1>a, <2>2, AcknowledgeDoes
      <4> QED
        BY <1>0, <4>1 DEF ExecsCounted
    <3>2. gwExec' =< execs /\ (gwExec' # 0 => status'[gwExec'] = "open")
      BY <1>0, <1>a, <2>2 DEF ExecsCounted
    <3>3. \A e \in Execs : e > execs => status'[e] = "none"
      BY <1>0, <1>a, <2>2 DEF ExecsCounted, Execs
    <3> QED
      BY <1>0, <2>0, <2>2, <3>1, <3>2, <3>3 DEF ExecsCounted
  <2>3. CASE UNCHANGED <<accepted, answer, gwExec, execs, status, opener>>
    BY <1>0, <2>0, <2>3 DEF ExecsCounted
  <2> QED
    BY <1>0, <1>4, <2>1, <2>2, <2>3, ServesDoes
<1>5. CASE Outside
  <2>1. gwExec' =< execs /\ (gwExec' # 0 => status'[gwExec'] = "open")
    BY <1>0, <1>a, <1>5 DEF Outside, ExecsCounted
  <2>2. \A e \in Execs : e > execs => status'[e] = "none"
    BY <1>0, <1>a, <1>5 DEF Outside, ExecsCounted, Execs
  <2> QED
    BY <1>0, <1>5, <2>1, <2>2 DEF Outside, ExecsCounted
<1>6. ASSUME NEW t \in Threads, NEW o \in Operations, NEW e \in 0..MaxExecs, Asks(t, o, e) PROVE ExecsCounted'
  <2>1. e \in {0, execution_id}
    BY <1>6 DEF Asks
  <2> QED
    BY <1>0, <1>2, <1>6, <2>1, AsksDoes
<1>7. ASSUME NEW t \in Threads, Reports(t) PROVE ExecsCounted'
  BY <1>0, <1>2, <1>7, ReportsDoes
<1> QED
  BY <1>0, <1>1, <1>3, <1>4, <1>5, <1>6, <1>7, StepShapes

LEMMA RequestsPreserved == CallsInv /\ Steps => RequestsMatch'
<1> SUFFICES ASSUME CallsInv, Steps PROVE RequestsMatch'
  OBVIOUS
<1>0. TypeOK /\ PlacesMatch /\ SocketMatches /\ ExecsCounted /\ RequestsMatch
  BY DEF CallsInv
<1>a. /\ sent \in [Threads -> 0..MaxMessages] /\ op \in [Threads -> {"start", "task", "observe"} \cup Finishes]
      /\ wire \subseteq Messages /\ calling \subseteq Threads /\ accepted \subseteq calling
      /\ \A m \in wire : m.thread \in Threads /\ m.n \in Nat
  BY <1>0, ExecutionAssumption DEF TypeOK, Messages
<1>b. ASSUME NEW t \in Threads PROVE sent[t] \in Nat
  BY <1>a, ExecutionAssumption
<1>1. ASSUME NEW t \in Threads, Local(t) PROVE RequestsMatch'
  <2>1. t \notin calling
    BY <1>0, <1>1 DEF Local, PlacesMatch
  <2>2. /\ \A u \in calling : op'[u] = op[u]
        /\ UNCHANGED <<sent, calling, accepted, wire>>
    BY <1>a, <1>1, <2>1 DEF Local
  <2> QED
    BY <1>0, <1>a, <2>2 DEF RequestsMatch
<1>2. ASSUME NEW t \in Threads, NEW o, NEW e, Sends(t, o, e), \A u \in Threads : u # t => op'[u] = op[u],
             \/ calling' = calling
             \/ calling' = calling \cup {t} /\ op'[t] = o /\ sent'[t] = sent[t] + 1
      PROVE RequestsMatch'
  <2>1. t \notin calling /\ accepted' = accepted
    BY <1>2 DEF Sends
  <2>2. CASE sent' = sent /\ wire' = wire
    <3>1. calling' = calling
      BY <1>2, <1>b, <2>2
    <3> QED
      BY <1>0, <1>2, <1>a, <2>1, <2>2, <3>1 DEF RequestsMatch
  <2>3. ASSUME sent'[t] = sent[t] + 1, \A u \in Threads : u # t => sent'[u] = sent[u],
               NEW q \in Messages, wire' = wire \cup {q},
               q.thread = t, q.n = sent[t] + 1, q.op = o
        PROVE RequestsMatch'
    <3>1. \A m \in wire : /\ m.n =< sent[m.thread] /\ (m.thread = t => m.n < q.n)
                          /\ m.n =< sent'[m.thread]
      BY <1>0, <1>a, <1>b, <2>3 DEF RequestsMatch
    <3>2. \A m, k \in wire' : m.thread = k.thread /\ m.n = k.n => m = k
      BY <1>0, <1>a, <1>b, <2>3, <3>1 DEF RequestsMatch
    <3>3. \A m \in wire' : m.n =< sent'[m.thread]
      BY <1>b, <2>3, <3>1
    <3>4. ASSUME NEW m \in wire', m.thread \in calling', m.n = sent'[m.thread]
          PROVE m.thread \notin accepted' /\ m.op = op'[m.thread]
      <4>1. CASE m = q
        BY <1>2, <1>a, <2>1, <2>3, <3>4, <4>1
      <4>2. CASE m \in wire
        <5>1. m.thread # t
          BY <1>a, <1>b, <2>3, <3>1, <3>4, <4>2
        <5> QED
          BY <1>0, <1>2, <1>a, <2>1, <2>3, <3>4, <4>2, <5>1 DEF RequestsMatch
      <4> QED
        BY <2>3, <4>1, <4>2
    <3> QED
      BY <3>2, <3>3, <3>4 DEF RequestsMatch
  <2> QED
    BY <1>2, <2>2, <2>3 DEF Sends
<1>3. ASSUME NEW t \in Threads, Ends(t) PROVE RequestsMatch'
  <2>1. calling' = calling \ {t} /\ accepted' = accepted \ {t} /\ UNCHANGED <<op, sent, wire>>
    BY <1>0, <1>3, EndsDoes
  <2> QED
    BY <1>0, <2>1 DEF RequestsMatch
<1>4. ASSUME NEW m \in wire, Serves(m) PROVE RequestsMatch'
  <2>1. wire' = wire \ {m} /\ calling' = calling /\ UNCHANGED <<op, sent>>
    BY <1>0, <1>4, ServesDoes
  <2>2. \A u \in Threads : u \in accepted' => u \in accepted \/ (u = m.thread /\ Awaited(m))
    <3>1. \/ accepted' = accepted
          \/ execs + 1 \in 0..MaxExecs /\ Acknowledge(m, execs + 1)
          \/ gwExec \in 0..MaxExecs /\ Acknowledge(m, gwExec)
      BY <1>0, <1>4, ServesDoes, ExecutionAssumption DEF TypeOK
    <3> QED
      BY <1>0, <3>1, AcknowledgeDoes
  <2>3. \A k \in wire' : ~(k.thread = m.thread /\ k.n = m.n)
    BY <1>0, <2>1 DEF RequestsMatch
  <2> QED
    BY <1>0, <1>a, <2>1, <2>2, <2>3 DEF RequestsMatch, Awaited
<1>5. CASE Outside
  BY <1>0, <1>5 DEF Outside, RequestsMatch
<1>6. ASSUME NEW t \in Threads, NEW o \in Operations, NEW e \in 0..MaxExecs, Asks(t, o, e) PROVE RequestsMatch'
  <2>1. Sends(t, o, e) /\ op' = [op EXCEPT ![t] = o]
        /\ \/ calling' = calling \cup {t} /\ sent'[t] = sent[t] + 1
           \/ calling' = calling
    BY <1>0, <1>6, AsksDoes
  <2> QED
    BY <1>2, <1>a, <2>1
<1>7. ASSUME NEW t \in Threads, Reports(t) PROVE RequestsMatch'
  BY <1>0, <1>2, <1>7, ReportsDoes
<1> QED
  BY <1>0, <1>1, <1>3, <1>4, <1>5, <1>6, <1>7, StepShapes

LEMMA OpenersPreserved == CallsInv /\ Steps => OpenersMatch'
<1> SUFFICES ASSUME CallsInv, Steps PROVE OpenersMatch'
  OBVIOUS
<1>0. TypeOK /\ PlacesMatch /\ SocketMatches /\ ExecsCounted /\ RequestsMatch /\ OpenersMatch
  BY DEF CallsInv
<1>a. /\ sent \in [Threads -> 0..MaxMessages] /\ wire \subseteq Messages
      /\ \A m \in wire : m.thread \in Threads /\ m.n \in 1..MaxMessages
      /\ execs \in 0..MaxExecs /\ socket \in 0..MaxDrops
      /\ opener \in [Execs -> {<<>>} \cup (Threads \X (1..MaxMessages) \X (0..MaxDrops))]
  BY <1>0, ExecutionAssumption DEF TypeOK, Messages, OpenersMatch
<1>b. ASSUME NEW t \in Threads PROVE sent[t] \in Nat
  BY <1>a, ExecutionAssumption
<1>c. ASSUME NEW x \in Execs, opener[x] # <<>>
      PROVE opener[x][1] \in Threads /\ opener[x][2] \in Nat
  BY <1>a, <1>c, ExecutionAssumption
<1>1. ASSUME NEW t \in Threads, Local(t) PROVE OpenersMatch'
  BY <1>0, <1>1 DEF Local, OpenersMatch
<1>2. ASSUME NEW t \in Threads, NEW o, NEW e, Sends(t, o, e) PROVE OpenersMatch'
  <2>1. opener' = opener
    BY <1>2 DEF Sends
  <2>2. CASE sent' = sent /\ wire' = wire
    BY <1>0, <2>1, <2>2 DEF OpenersMatch
  <2>3. ASSUME sent'[t] = sent[t] + 1, \A u \in Threads : u # t => sent'[u] = sent[u],
               NEW q \in Messages, wire' = wire \cup {q}, q.thread = t, q.n = sent[t] + 1
        PROVE OpenersMatch'
    <3>1. \A x \in Execs : opener[x] # <<>> => opener[x][2] =< sent'[opener[x][1]]
      BY <1>0, <1>b, <1>c, <2>3 DEF OpenersMatch
    <3>2. \A x \in Execs : opener[x] # <<>> => ~(opener[x][1] = q.thread /\ opener[x][2] = q.n)
      BY <1>0, <1>b, <1>c, <2>3 DEF OpenersMatch
    <3> QED
      BY <1>0, <2>1, <2>3, <3>1, <3>2 DEF OpenersMatch
  <2> QED
    BY <1>2, <2>2, <2>3 DEF Sends
<1>3. ASSUME NEW t \in Threads, Ends(t) PROVE OpenersMatch'
  BY <1>0, <1>3, EndsDoes DEF OpenersMatch
<1>4. ASSUME NEW m \in wire, Serves(m) PROVE OpenersMatch'
  <2>1. wire' = wire \ {m} /\ sent' = sent
    BY <1>0, <1>4, ServesDoes
  <2>2. CASE opener' = opener
    BY <1>0, <2>1, <2>2 DEF OpenersMatch
  <2>3. ASSUME execs < MaxExecs, opener' = [opener EXCEPT ![execs + 1] = <<m.thread, m.n, socket>>]
        PROVE OpenersMatch'
    <3>1. execs + 1 \in Execs
      BY <1>a, <2>3, ExecutionAssumption DEF Execs
    <3> DEFINE new == <<m.thread, m.n, socket>>
    <3>2. /\ new \in Threads \X (1..MaxMessages) \X (0..MaxDrops) /\ new # <<>>
          /\ new[1] = m.thread /\ new[2] = m.n
      BY <1>a
    <3>3. /\ opener'[execs + 1] = new /\ \A x \in Execs : x # execs + 1 => opener'[x] = opener[x]
          /\ opener' \in [Execs -> {<<>>} \cup (Threads \X (1..MaxMessages) \X (0..MaxDrops))]
      BY <1>a, <2>3, <3>1, <3>2
    <3> HIDE DEF new
    <3>4. \A x \in Execs : opener'[x] # <<>> => opener'[x][2] =< sent'[opener'[x][1]]
      BY <1>0, <2>1, <3>2, <3>3 DEF OpenersMatch, RequestsMatch
    <3>5. \A k \in wire', x \in Execs :
            opener'[x] # <<>> => ~(opener'[x][1] = k.thread /\ opener'[x][2] = k.n)
      BY <1>0, <2>1, <3>2, <3>3 DEF OpenersMatch, RequestsMatch
    <3>6. \A x \in Execs : x # execs + 1 /\ opener[x] # <<>> => ~(opener[x][1] = new[1] /\ opener[x][2] = new[2])
      BY <1>0, <3>2 DEF OpenersMatch
    <3>7. \A x, y \in Execs :
            /\ opener'[x] # <<>> /\ opener'[y] # <<>>
            /\ opener'[x][1] = opener'[y][1] /\ opener'[x][2] = opener'[y][2]
            => x = y
      BY <1>0, <3>1, <3>3, <3>6 DEF OpenersMatch
    <3> QED
      BY <3>3, <3>4, <3>5, <3>7 DEF OpenersMatch
  <2> QED
    BY <1>0, <1>4, <2>2, <2>3, ServesDoes
<1>5. CASE Outside
  BY <1>0, <1>5 DEF Outside, OpenersMatch
<1> QED
  BY <1>0, <1>1, <1>2, <1>3, <1>4, <1>5, StepShapes, AsksDoes, ReportsDoes

LEMMA StartsPreserved == CallsInv /\ Steps => StartsMatch'
<1> SUFFICES ASSUME CallsInv, Steps PROVE StartsMatch'
  OBVIOUS
<1>0. TypeOK /\ PlacesMatch /\ SocketMatches /\ ExecsCounted /\ RequestsMatch /\ OpenersMatch /\ StartsMatch
  BY DEF CallsInv
<1>a. /\ pc \in [Threads -> Places] /\ op \in [Threads -> {"start", "task", "observe"} \cup Finishes]
      /\ answer \in [Threads -> 0..MaxExecs] /\ execs \in 0..MaxExecs
      /\ calling \subseteq Threads /\ accepted \subseteq calling
      /\ \A m \in wire : m.thread \in Threads
      /\ opener \in [Execs -> {<<>>} \cup (Threads \X (1..MaxMessages) \X (0..MaxDrops))]
  BY <1>0 DEF TypeOK, Messages, OpenersMatch
\* What the others await is not disturbed.
<1>b. ASSUME NEW t \in Threads, t \notin accepted', pc'[t] # "started",
             \A u \in Threads : u # t => /\ pc'[u] = pc[u] /\ op'[u] = op[u] /\ answer'[u] = answer[u]
                                         /\ sent'[u] = sent[u] /\ (u \in accepted' => u \in accepted),
             opener' = opener
      PROVE StartsMatch'
  BY <1>0, <1>b DEF StartsMatch
<1>1. ASSUME NEW t \in Threads, Local(t) PROVE StartsMatch'
  BY <1>0, <1>a, <1>b, <1>1 DEF Local, PlacesMatch
<1>2. ASSUME NEW t \in Threads, NEW o \in Operations, NEW e \in 0..MaxExecs, Asks(t, o, e) PROVE StartsMatch'
  <2>1. /\ Sends(t, o, e) /\ pc' = [pc EXCEPT ![t] = "calling"] /\ op' = [op EXCEPT ![t] = o]
        /\ answer' = [answer EXCEPT ![t] = 0]
    BY <1>0, <1>2, AsksDoes
  <2>2. /\ t \notin accepted' /\ accepted' = accepted /\ opener' = opener
        /\ \A u \in Threads : u # t => sent'[u] = sent[u]
    BY <1>a, <2>1 DEF Sends
  <2>3. /\ pc'[t] # "started"
        /\ \A u \in Threads : u # t => pc'[u] = pc[u] /\ op'[u] = op[u] /\ answer'[u] = answer[u]
    BY <1>a, <2>1
  <2> QED
    BY <1>b, <2>2, <2>3
<1>3. ASSUME NEW t \in Threads, Reports(t) PROVE StartsMatch'
  BY <1>0, <1>a, <1>b, <1>3, ReportsDoes DEF Sends
<1>4. ASSUME NEW t \in Threads, Ends(t) PROVE StartsMatch'
  <2>1. /\ accepted' = accepted \ {t} /\ UNCHANGED <<op, sent, answer, opener>>
        /\ \A u \in Threads : u # t => pc'[u] = pc[u]
        /\ op[t] = "start" /\ pc'[t] = "started" => t \in accepted
    BY <1>0, <1>a, <1>4, EndsDoes
  <2> QED
    BY <1>0, <2>1 DEF StartsMatch
<1>5. ASSUME NEW m \in wire, Serves(m) PROVE StartsMatch'
  <2>1. UNCHANGED <<pc, op, sent>>
    BY <1>0, <1>5, ServesDoes
  <2>2. ASSUME m.op = "start", execs < MaxExecs,
               opener' = [opener EXCEPT ![execs + 1] = <<m.thread, m.n, socket>>], Acknowledge(m, execs + 1)
        PROVE StartsMatch'
    <3>1. execs + 1 \in Execs /\ execs + 1 # 0 /\ execs + 1 \in 0..MaxExecs
      BY <1>a, <2>2, ExecutionAssumption DEF Execs
    <3>2. opener[execs + 1] = <<>>
      BY <1>0, <1>a, <3>1 DEF ExecsCounted
    <3>3. /\ opener'[execs + 1] # <<>> /\ opener'[execs + 1][1] = m.thread /\ opener'[execs + 1][2] = m.n
          /\ \A x \in Execs : x # execs + 1 => opener'[x] = opener[x]
      BY <1>a, <2>2, <3>1
    <3>4. ASSUME NEW t \in Threads, op[t] = "start", t \in accepted' \/ pc[t] = "started"
          PROVE /\ answer'[t] # 0 /\ opener'[answer'[t]] # <<>>
                /\ opener'[answer'[t]][1] = t /\ opener'[answer'[t]][2] = sent[t]
      <4>1. CASE answer'[t] = answer[t] /\ (t \in accepted' => t \in accepted)
        <5>1. /\ answer[t] # 0 /\ opener[answer[t]] # <<>>
              /\ opener[answer[t]][1] = t /\ opener[answer[t]][2] = sent[t]
          BY <1>0, <3>4, <4>1 DEF StartsMatch
        <5>2. answer[t] \in Execs /\ answer[t] # execs + 1
          BY <1>a, <3>2, <5>1 DEF Execs
        <5> QED
          BY <3>3, <4>1, <5>1, <5>2
      <4>2. CASE t = m.thread /\ Awaited(m) /\ answer'[t] = execs + 1
        BY <3>1, <3>3, <4>2 DEF Awaited
      <4> QED
        BY <1>0, <2>2, <3>1, <4>1, <4>2, AcknowledgeDoes
    <3> QED
      BY <2>1, <3>4 DEF StartsMatch
  <2>3. ASSUME m.op # "start", opener' = opener, Acknowledge(m, gwExec) PROVE StartsMatch'
    <3>1. ASSUME NEW t \in Threads, op[t] = "start"
          PROVE answer'[t] = answer[t] /\ (t \in accepted' => t \in accepted)
      BY <1>0, <2>3, <3>1, AcknowledgeDoes DEF Awaited, TypeOK
    <3> QED
      BY <1>0, <2>1, <2>3, <3>1 DEF StartsMatch
  <2>4. CASE UNCHANGED <<accepted, answer, opener>>
    BY <1>0, <2>1, <2>4 DEF StartsMatch
  <2> QED
    BY <1>0, <1>5, <2>2, <2>3, <2>4, ServesDoes
<1>6. CASE Outside
  BY <1>0, <1>6 DEF Outside, StartsMatch
<1> QED
  BY <1>0, <1>1, <1>2, <1>3, <1>4, <1>5, <1>6, StepShapes

LEMMA AccountsPreserved == CallsInv /\ Steps => StartsAccountedFor'
<1> SUFFICES ASSUME CallsInv, Steps PROVE StartsAccountedFor'
  OBVIOUS
<1>0. TypeOK /\ PlacesMatch /\ SocketMatches /\ ExecsCounted /\ RequestsMatch /\ StartsAccountedFor
  BY DEF CallsInv
<1>a. /\ sent \in [Threads -> 0..MaxMessages] /\ calling \subseteq Threads
      /\ \A m \in wire : m.thread \in Threads
  BY <1>0 DEF TypeOK, Messages
<1>1. ASSUME NEW t \in Threads, Local(t) PROVE StartsAccountedFor'
  BY <1>0, <1>1 DEF Local, StartsAccountedFor
<1>2. ASSUME NEW t \in Threads, NEW o, NEW e, Sends(t, o, e), calling \subseteq calling',
             o = "start" => calling' = calling \cup {t} \/ wire' = wire
      PROVE StartsAccountedFor'
  <2>1. t \notin calling /\ failedStarts' = failedStarts
    BY <1>2 DEF Sends
  <2>2. ASSUME NEW m \in wire, m.op = "start"
        PROVE <<m.thread, m.n>> \in failedStarts' \/ (m.thread \in calling' /\ m.n = sent'[m.thread])
    <3>1. <<m.thread, m.n>> \in failedStarts \/ (m.thread \in calling /\ m.n = sent[m.thread])
      BY <1>0, <2>2 DEF StartsAccountedFor
    <3>2. m.thread \in calling => sent'[m.thread] = sent[m.thread]
      BY <1>2, <1>a, <2>1 DEF Sends
    <3> QED
      BY <1>2, <2>1, <3>1, <3>2
  <2>3. ASSUME NEW m \in wire', m \notin wire, m.op = "start"
        PROVE m.thread \in calling' /\ m.n = sent'[m.thread]
    BY <1>2, <2>3 DEF Sends
  <2> QED
    BY <2>2, <2>3 DEF StartsAccountedFor
<1>3. ASSUME NEW t \in Threads, Ends(t) PROVE StartsAccountedFor'
  <2>1. /\ calling' = calling \ {t} /\ UNCHANGED <<sent, wire>>
        /\ t \in accepted \/ op[t] # "start" \/ failedStarts' = failedStarts \cup {Latest(t)}
        /\ failedStarts \subseteq failedStarts'
    BY <1>0, <1>3, EndsDoes
  <2>2. ASSUME NEW m \in wire, m.op = "start", m.thread = t, t \in calling, m.n = sent[t]
        PROVE <<m.thread, m.n>> \in failedStarts'
    BY <1>0, <2>1, <2>2 DEF RequestsMatch, Latest
  <2> QED
    BY <1>0, <2>1, <2>2 DEF StartsAccountedFor
<1>4. ASSUME NEW m \in wire, Serves(m) PROVE StartsAccountedFor'
  BY <1>0, <1>4, ServesDoes DEF StartsAccountedFor
<1>5. CASE Outside
  BY <1>0, <1>5 DEF Outside, StartsAccountedFor
<1>6. ASSUME NEW t \in Threads, NEW o \in Operations, NEW e \in 0..MaxExecs, Asks(t, o, e)
      PROVE StartsAccountedFor'
  BY <1>0, <1>2, <1>6, AsksDoes
<1>7. ASSUME NEW t \in Threads, Reports(t) PROVE StartsAccountedFor'
  BY <1>0, <1>2, <1>7, ReportsDoes
<1> QED
  BY <1>0, <1>1, <1>3, <1>4, <1>5, <1>6, <1>7, StepShapes

(* The calls keep their invariant whatever the program does with them. *)
LEMMA CallsInvPreserved == CallsInv /\ Steps => CallsInv'
<1>1. CallsInv /\ Steps => TypeOK' /\ PlacesMatch'
  BY TypesPreserved, PlacesPreserved DEF CallsInv
<1> QED
  BY <1>1, SocketPreserved, ExecsPreserved, RequestsPreserved, OpenersPreserved, StartsPreserved,
     AccountsPreserved DEF CallsInv

-----------------------------------------------------------------------------
(* The bounds.                                                              *)
LEMMA InitBudget == Init => BudgetLeft
BY DEF Init, BudgetLeft

LEMMA BudgetPreserved == CallsInv /\ BudgetLeft /\ [Next]_vars => BudgetLeft'
<1> SUFFICES ASSUME CallsInv, BudgetLeft, [Next]_vars PROVE BudgetLeft'
  OBVIOUS
<1>0. TypeOK /\ PlacesMatch
  BY DEF CallsInv
<1>a. /\ sent \in [Threads -> 0..MaxMessages] /\ pc \in [Threads -> Places]
      /\ op \in [Threads -> {"start", "task", "observe"} \cup Finishes]
      /\ MaxMessages \in Nat /\ socket \in 0..MaxDrops
  BY <1>0, ExecutionAssumption DEF TypeOK
\* Each step moves one thread, which has then still what it needs.
<1> DEFINE Left(t) ==
      /\ pc[t] = "checked" \/ (pc[t] = "required" /\ op[t] \notin Finishes) => Budget(t, 2)
      /\ \/ pc[t] \in {"started", "body", "required"}
         \/ pc[t] = "calling" /\ op[t] \notin Finishes
         => Budget(t, 1)
<1>b. \A t \in Threads : Left(t)
  BY DEF BudgetLeft
<1>c. ASSUME NEW t \in Threads, Left(t)',
             \A u \in Threads : u # t => pc'[u] = pc[u] /\ op'[u] = op[u] /\ sent'[u] = sent[u],
             up' = up, socket' = socket
      PROVE BudgetLeft'
  BY <1>b, <1>c DEF BudgetLeft, Budget
<1>1. ASSUME NEW t \in Threads, StartChecks(t) \/ StartAssigns(t) \/ BodyInterrupted(t) \/ FinishClears(t)
      PROVE BudgetLeft'
  <2>1. Left(t)'
    BY <1>a, <1>b, <1>1
    DEF StartChecks, StartAssigns, BodyInterrupted, FinishClears, Budget
  <2> QED
    BY <1>a, <1>c, <1>1, <2>1
    DEF StartChecks, StartAssigns, BodyInterrupted, FinishClears, linkVars
<1>2. ASSUME NEW t \in Threads, StartCalls(t) \/ RequiredCalls(t) PROVE BudgetLeft'
  <2>0. sent[t] < MaxMessages /\ ((pc[t] = "required" /\ op[t] \in Finishes) \/ sent[t] + 2 =< MaxMessages)
    BY <1>a, <1>b, <1>2 DEF StartCalls, RequiredCalls, Budget
  <2>1. \E o \in Operations, e \in 0..MaxExecs : Asks(t, o, e) /\ (o \in Finishes => op[t] \in Finishes)
    <3>1. CASE StartCalls(t)
      <4>1. Asks(t, "start", 0) /\ "start" \in Operations /\ "start" \notin Finishes
        BY <3>1, <2>0, ZeroIsExec DEF StartCalls, Asks, Operations, Finishes
      <4> QED
        BY <4>1, ZeroIsExec
    <3>2. CASE RequiredCalls(t)
      <4>1. Asks(t, op[t], execution_id) /\ op[t] \in Operations /\ execution_id \in 0..MaxExecs
        BY <1>0, <3>2, <2>0 DEF RequiredCalls, Asks, Operations, TypeOK, PlacesMatch
      <4> QED
        BY <4>1
    <3> QED
      BY <1>2, <3>1, <3>2
  <2>2. PICK o \in Operations, e \in 0..MaxExecs : Asks(t, o, e) /\ (o \in Finishes => op[t] \in Finishes)
    BY <2>1
  <2>3. /\ pc' = [pc EXCEPT ![t] = "calling"] /\ op' = [op EXCEPT ![t] = o]
        /\ sent' \in [Threads -> 0..MaxMessages] /\ sent'[t] \in {sent[t], sent[t] + 1}
        /\ \A u \in Threads : u # t => sent'[u] = sent[u]
        /\ up' = up /\ socket' = socket
    BY <1>0, <2>2, AsksDoes DEF Sends
  <2>4. o \in Finishes \/ pc[t] = "checked" \/ (pc[t] = "required" /\ op[t] \notin Finishes)
    BY <2>2 DEF Asks, Finishes
  <2>5. Left(t)'
    BY <1>a, <1>b, <2>0, <2>3, <2>4 DEF Budget
  <2> QED
    BY <1>a, <1>c, <2>3, <2>5
<1>3. ASSUME NEW t \in Threads, ReportTasks(t) PROVE BudgetLeft'
  <2>1. op[t] = "task" /\ pc[t] = "required" /\ sent[t] + 2 =< MaxMessages
    BY <1>a, <1>b, <1>3 DEF ReportTasks, Budget, Finishes
  <2>2. Reports(t)
    BY <1>a, <1>3, <2>1 DEF Reports
  <2>3. /\ pc' = [pc EXCEPT ![t] = "body"] /\ op' = op
        /\ sent'[t] \in {sent[t], sent[t] + 1}
        /\ \A u \in Threads : u # t => sent'[u] = sent[u]
        /\ up' = up /\ socket' = socket
    BY <1>0, <2>2, ReportsDoes DEF Sends
  <2>4. Left(t)'
    BY <1>a, <2>1, <2>3 DEF Budget
  <2> QED
    BY <1>a, <1>c, <2>3, <2>4
<1>4. ASSUME NEW t \in Threads, CallEnds(t) PROVE BudgetLeft'
  <2>1. /\ pc[t] = "calling" /\ UNCHANGED <<op, sent, up, socket>>
        /\ \E place : /\ pc' = [pc EXCEPT ![t] = place]
                      /\ place \in {"idle", "body", "started", "finished"}
                      /\ place = "body" => op[t] = "observe"
                      /\ place = "started" => op[t] = "start"
    BY <1>0, <1>4, EndsDoes DEF CallEnds, Ends
  <2>2. Left(t)'
    BY <1>a, <1>b, <2>1 DEF Budget, Finishes
  <2> QED
    BY <1>a, <1>c, <2>1, <2>2
<1>5. ASSUME NEW t \in Threads, BodyRequires(t) \/ FinishAgain(t) \/ Finish(t) PROVE BudgetLeft'
  <2>1. Left(t)'
    BY <1>a, <1>b, <1>5
    DEF BodyRequires, FinishAgain, Finish, BodyEnds, Require, Budget, Finishes
  <2> QED
    BY <1>a, <1>c, <1>5, <2>1 DEF BodyRequires, FinishAgain, Finish, BodyEnds, Require, linkVars
<1>6. ASSUME NEW m \in wire, Serves(m) PROVE BudgetLeft'
  BY <1>0, <1>6, ServesDoes DEF BudgetLeft, Budget, CallsInv
<1>7. CASE SessionError \/ ErrorArrives \/ PlatformCancels \/ UNCHANGED vars
  BY <1>7 DEF SessionError, ErrorArrives, PlatformCancels, vars, linkVars, BudgetLeft, Budget
<1>8. CASE Drop
  BY <1>8 DEF Drop, Cut, BudgetLeft, Budget
<1>9. CASE Reconnect
  BY <1>9 DEF Reconnect, BudgetLeft, Budget
<1> QED
  BY <1>1, <1>2, <1>3, <1>4, <1>5, <1>6, <1>7, <1>8, <1>9 DEF Next, Handler, Progress, Gateway, Serves

(* The types are right at every moment, and nothing is ever sent or counted beyond the *)
(* bounds, however many handlers share the ExecutionManager.                           *)
THEOREM ExecutionTypeCorrect == Spec => []TypeOK
<1>1. Init => CallsInv /\ BudgetLeft
  BY InitCallsInv, InitBudget
<1>2. CallsInv /\ BudgetLeft /\ [Next]_vars => (CallsInv /\ BudgetLeft)'
  <2> SUFFICES ASSUME CallsInv, BudgetLeft, [Next]_vars PROVE (CallsInv /\ BudgetLeft)'
    OBVIOUS
  <2>1. Steps
    BY NextIsStep DEF CallsInv
  <2> QED
    BY <2>1, CallsInvPreserved, BudgetPreserved
<1>3. CallsInv => TypeOK
  BY DEF CallsInv
<1> QED
  BY <1>1, <1>2, <1>3, PTL DEF Spec

-----------------------------------------------------------------------------
(* One handler has the ExecutionManager to itself.                          *)

\* All threads are one.
Alone == \A t, u \in Threads : t = u

RunParts == RunInv /\ NoSilentOrphan /\ StatusTellsOutcome

LEMMA InitRunParts == Init => RunParts
BY ExecutionAssumption
DEF Init, Call!Init, RunParts, RunInv, IdMatches, BodiesMatch, FinishesMatch, ClosedMatches, NoSilentOrphan,
    StatusTellsOutcome, Execs, Finishes

(* What the invariant says of a thread, with the types of the variables. *)
LEMMA RunTypes ==
  ASSUME CallsInv
  PROVE  /\ pc \in [Threads -> Places] /\ op \in [Threads -> {"start", "task", "observe"} \cup Finishes]
         /\ mine \in [Threads -> 0..MaxExecs] /\ ended \in [Threads -> {"running"} \cup Finishes]
         /\ sent \in [Threads -> 0..MaxMessages] /\ answer \in [Threads -> 0..MaxExecs]
         /\ calling \subseteq Threads /\ accepted \subseteq calling
         /\ execution_id \in 0..MaxExecs /\ gwExec \in 0..MaxExecs /\ execs \in 0..MaxExecs
         /\ status \in [Execs -> {"none", "open", "cancelled"} \cup Finishes]
         /\ bodies \in [Execs -> {"running", "doubted"} \cup Finishes]
         /\ \A m \in wire : m.thread \in Threads /\ m.n \in Nat /\ m.exec \in 0..MaxExecs
         /\ \A t \in Threads : sent[t] \in Nat
         /\ \A t \in Threads : pc[t] # "calling" => t \notin calling /\ t \notin accepted
BY ExecutionAssumption DEF CallsInv, TypeOK, PlacesMatch, Messages

(* The execution open on the socket was opened by a request of the handler. *)
LEMMA OpenerIsHandler ==
  ASSUME Alone, CallsInv, NEW t \in Threads, gwExec # 0
  PROVE  gwExec \in Execs /\ opener[gwExec] # <<>> /\ opener[gwExec][1] = t
<1>1. gwExec \in Execs /\ opener[gwExec] # <<>>
  BY RunTypes DEF CallsInv, ExecsCounted, Execs
<1>2. opener[gwExec][1] \in Threads
  BY <1>1 DEF CallsInv, OpenersMatch
<1> QED
  BY <1>1, <1>2 DEF Alone

(* A step of t while it awaits nothing, which leaves the execution, its record and the *)
(* wire alone, and does not undo a start.                                              *)
LEMMA QuietSteps ==
  ASSUME Alone, CallsInv, RunParts, NEW t \in Threads, pc[t] # "calling", pc'[t] \notin {"calling", "started"},
         pc[t] # "started",
         UNCHANGED <<execution_id, mine, ended, bodies, sent, calling, accepted, answer, wire, gwExec,
                     execs, status, opener, failedStarts>>,
         pc'[t] # "finished",
         pc'[t] = "checked" => execution_id = 0,
         pc'[t] \in {"body", "required"} => execution_id # 0,
         pc'[t] = "body" \/ (pc'[t] = "required" /\ op'[t] \in {"task", "observe"})
           => ended[t] = "running" /\ bodies[mine[t]] = "running",
         pc'[t] = "required" /\ op'[t] \in Finishes => ended[t] = op'[t]
  PROVE  RunParts'
<1>a. t \notin calling /\ t \notin accepted /\ \A u \in Threads : u = t
  BY RunTypes DEF Alone
<1>b. IdMatches /\ BodiesMatch /\ FinishesMatch /\ ClosedMatches /\ NoSilentOrphan /\ StatusTellsOutcome
  BY DEF RunParts, RunInv
<1>1. IdMatches'
  BY <1>a, <1>b DEF IdMatches
<1>2. BodiesMatch'
  BY <1>a, <1>b DEF BodiesMatch, Tells
<1>3. FinishesMatch'
  BY <1>b DEF FinishesMatch, Tells
<1>4. ClosedMatches'
  BY <1>a DEF ClosedMatches
<1>5. NoSilentOrphan'
  BY <1>b, OpenerIsHandler DEF NoSilentOrphan, Latest
<1>6. StatusTellsOutcome'
  BY <1>b DEF StatusTellsOutcome, Tells
<1> QED
  BY <1>1, <1>2, <1>3, <1>4, <1>5, <1>6 DEF RunParts, RunInv

(* The steps of the handler between its calls. *)
LEMMA HandlerKeepsRun ==
  ASSUME Alone, CallsInv, RunParts, NEW t \in Threads,
         \/ StartChecks(t) \/ StartAssigns(t) \/ BodyRequires(t) \/ BodyInterrupted(t) \/ FinishAgain(t)
         \/ Finish(t) \/ FinishClears(t)
  PROVE  RunParts'
<1>a. t \notin accepted /\ t \notin calling /\ \A u \in Threads : u = t
  <2>1. pc[t] # "calling"
    BY DEF StartChecks, StartAssigns, BodyRequires, BodyInterrupted, FinishAgain, Finish, BodyEnds,
       FinishClears, Require, CallsInv, TypeOK
  <2> QED
    BY <2>1, RunTypes DEF Alone
<1>b. IdMatches /\ BodiesMatch /\ FinishesMatch /\ ClosedMatches /\ NoSilentOrphan /\ StatusTellsOutcome
  BY DEF RunParts, RunInv
<1>c. pc \in [Threads -> Places] /\ op \in [Threads -> {"start", "task", "observe"} \cup Finishes]
  BY RunTypes
<1>1. CASE StartChecks(t) \/ BodyInterrupted(t)
  <2>1. pc'[t] = IF pc[t] = "idle" THEN "checked" ELSE "idle"
    BY <1>c, <1>1 DEF StartChecks, BodyInterrupted
  <2>2. pc[t] \in {"idle", "body"} /\ (pc[t] = "idle" => execution_id = 0)
    BY <1>1 DEF StartChecks, BodyInterrupted
  <2>3. UNCHANGED <<execution_id, mine, ended, bodies, sent, calling, accepted, answer, wire, gwExec,
                    execs, status, opener, failedStarts>>
    BY <1>1 DEF StartChecks, BodyInterrupted, runVars, callVars, linkVars, gatewayVars
  <2> QED
    BY <2>1, <2>2, <2>3, QuietSteps
<1>2. CASE BodyRequires(t)
  <2>2. PICK o \in {"task", "observe"} : Require(t, o) /\ pc[t] = "body"
    BY <1>2 DEF BodyRequires
  <2>3. pc'[t] = "required" /\ op'[t] = o /\ execution_id # 0
    BY <1>c, <2>2 DEF Require
  <2>4. UNCHANGED <<execution_id, mine, ended, bodies, sent, calling, accepted, answer, wire, gwExec,
                    execs, status, opener, failedStarts>>
    BY <2>2 DEF Require, runVars, callVars, linkVars, gatewayVars
  <2>5. ended[t] = "running" /\ bodies[mine[t]] = "running" /\ o \notin Finishes
    BY <1>b, <2>2 DEF BodiesMatch, Finishes
  <2> QED
    BY <2>2, <2>3, <2>4, <2>5, QuietSteps
<1>3. CASE StartAssigns(t)
  <2>0. /\ pc[t] = "started" /\ op[t] = "start" /\ op'[t] = "start" /\ pc'[t] = "body"
        /\ execution_id' = answer[t] /\ mine'[t] = answer[t] /\ ended'[t] = "running"
        /\ UNCHANGED <<bodies, sent, calling, accepted, answer, wire, gwExec, status, opener, failedStarts>>
    BY <1>3, RunTypes DEF StartAssigns, CallsInv, PlacesMatch, callVars, linkVars, gatewayVars
  <2>1. /\ answer[t] # 0 /\ opener[answer[t]] # <<>> /\ answer[t] \in Execs
        /\ opener[answer[t]][1] = t /\ opener[answer[t]][2] = sent[t]
    BY <2>0, RunTypes DEF CallsInv, StartsMatch, Execs
  <2>2. IdMatches'
    BY <1>a, <2>0, <2>1 DEF IdMatches
  <2>3. bodies[answer[t]] = "running"
    BY <1>b, <2>0 DEF BodiesMatch
  <2>4. BodiesMatch'
    BY <1>a, <2>0, <2>3 DEF BodiesMatch, Finishes
  <2>5. FinishesMatch' /\ ClosedMatches' /\ StatusTellsOutcome'
    BY <1>a, <1>b, <2>0, RunTypes DEF FinishesMatch, ClosedMatches, StatusTellsOutcome, Tells
  <2>6. NoSilentOrphan'
    <3>1. SUFFICES ASSUME gwExec # 0, gwExec # answer[t]
                   PROVE  <<t, opener[gwExec][2]>> \in failedStarts
      BY <1>b, <2>0, OpenerIsHandler DEF NoSilentOrphan
    <3>2. execution_id = 0
      BY <1>b, <2>0 DEF IdMatches
    <3>3. CASE opener[gwExec][2] = sent[t]
      BY <2>1, <3>1, <3>3, OpenerIsHandler DEF CallsInv, OpenersMatch
    <3> QED
      BY <1>b, <3>1, <3>2, <3>3, OpenerIsHandler DEF NoSilentOrphan, Latest
  <2> QED
    BY <2>2, <2>4, <2>5, <2>6 DEF RunParts, RunInv
<1>4. ASSUME NEW how \in Finishes, BodyEnds(t, how) PROVE RunParts'
  <2>0. pc[t] = "body" /\ execution_id # 0 /\ mine[t] = execution_id /\ mine[t] \in Execs
        /\ ended[t] = "running" /\ bodies[mine[t]] = "running"
    BY <1>4, <1>b, RunTypes DEF BodyEnds, IdMatches, BodiesMatch, Execs
  <2>1. /\ pc'[t] = "required" /\ op'[t] = how /\ ended'[t] = how
        /\ bodies'[mine[t]] = how /\ \A e \in Execs : e # mine[t] => bodies'[e] = bodies[e]
        /\ UNCHANGED <<execution_id, mine, sent, calling, accepted, answer, wire, gwExec, status, opener,
                       failedStarts>>
    BY <1>4, <2>0, RunTypes DEF BodyEnds, callVars, linkVars, gatewayVars
  <2>2. IdMatches' /\ BodiesMatch' /\ ClosedMatches'
    BY <1>a, <1>4, <2>0, <2>1 DEF IdMatches, BodiesMatch, ClosedMatches, Finishes, Tells
  <2>3. FinishesMatch'
    <3>1. ASSUME NEW m \in wire, m.op \in Finishes PROVE m.exec # 0 /\ Tells(m.op, m.exec)'
      <4>1. m.exec \in Execs /\ bodies[m.exec] \in {m.op, "doubted"}
        BY <1>b, <3>1, RunTypes DEF FinishesMatch, Execs, Tells
      <4>2. m.exec # mine[t]
        BY <2>0, <3>1, <4>1 DEF Finishes
      <4> QED
        BY <2>1, <4>1, <4>2 DEF Execs, Tells
    <3> QED
      BY <1>b, <1>a, <2>1, <3>1, RunTypes DEF FinishesMatch
  <2>4. NoSilentOrphan'
    BY <1>b, <2>0, <2>1, OpenerIsHandler DEF NoSilentOrphan
  <2>5. StatusTellsOutcome'
    BY <1>b, <2>0, <2>1 DEF StatusTellsOutcome, Finishes, Tells
  <2> QED
    BY <2>2, <2>3, <2>4, <2>5 DEF RunParts, RunInv
<1>5. CASE FinishClears(t)
  <2>0. /\ pc[t] = "finished" /\ pc'[t] = "idle" /\ execution_id' = 0 /\ op[t] \in Finishes
        /\ UNCHANGED <<mine, ended, bodies, op, sent, calling, accepted, answer, wire, gwExec, status, opener,
                       failedStarts>>
    BY <1>5, <1>c DEF FinishClears, CallsInv, PlacesMatch, callVars, linkVars, gatewayVars
  <2>1. status[execution_id] # "open"
    BY <1>b, <2>0 DEF ClosedMatches
  <2>2. gwExec # 0 => gwExec # execution_id
    BY <2>1 DEF CallsInv, ExecsCounted
  <2>3. IdMatches' /\ BodiesMatch' /\ ClosedMatches'
    BY <1>a, <1>b, <2>0 DEF IdMatches, BodiesMatch, ClosedMatches
  <2>4. FinishesMatch' /\ StatusTellsOutcome'
    BY <1>a, <1>b, <2>0, RunTypes DEF FinishesMatch, StatusTellsOutcome, Tells
  <2>5. NoSilentOrphan'
    BY <1>b, <2>0, <2>2, OpenerIsHandler DEF NoSilentOrphan
  <2> QED
    BY <2>3, <2>4, <2>5 DEF RunParts, RunInv
\* A repeated finish leaves the outcome told before as it was, or doubted.
<1>6. CASE FinishAgain(t)
  <2>0. TypeOK
    BY DEF CallsInv
  <2>1. PICK how \in Finishes, b \in {"running", "doubted"} \cup Finishes :
          /\ op' = [op EXCEPT ![t] = how] /\ ended' = [ended EXCEPT ![t] = how]
          /\ how \in {ended[t], "failed"}
          /\ bodies' = [bodies EXCEPT ![mine[t]] = b]
          /\ mine[t] \in Execs =>
               \/ b = bodies[mine[t]] /\ ~(how = "failed" /\ b = "completed")
               \/ (b = "doubted" /\ how = "failed" /\ bodies[mine[t]] = "completed")
    BY <1>6, <2>0, FinishAgainDoes
  <2>2. /\ pc[t] = "idle" /\ pc' = [pc EXCEPT ![t] = "required"] /\ execution_id # 0
        /\ ended[t] \in Finishes
        /\ UNCHANGED <<execution_id, mine, sent, calling, accepted, answer, wire, gwExec, execs, status,
                       opener, failedStarts>>
    BY <1>6, <2>0, FinishAgainDoes DEF callVars, linkVars, gatewayVars
  <2>3. mine[t] = execution_id /\ mine[t] \in Execs /\ bodies[mine[t]] \in {ended[t], "doubted"}
    BY <1>b, <2>2, RunTypes DEF IdMatches, BodiesMatch, Execs, Tells
  <2>4. /\ pc'[t] = "required" /\ op'[t] = how /\ ended'[t] = how /\ bodies'[mine[t]] = b
        /\ \A e \in Execs : bodies'[e] = bodies[e] \/ (bodies'[e] = "doubted" /\ bodies[e] = "completed")
    BY <2>1, <2>2, <2>3, RunTypes
  <2>5. b \in {how, "doubted"}
    BY <2>1, <2>2, <2>3 DEF Finishes
  <2>6. IdMatches' /\ BodiesMatch' /\ ClosedMatches'
    BY <1>a, <2>2, <2>3, <2>4, <2>5 DEF IdMatches, BodiesMatch, ClosedMatches, Finishes, Tells
  <2>7. \A e \in Execs, o \in Finishes : Tells(o, e) => Tells(o, e)'
    BY <2>4 DEF Tells, Finishes
  <2>8. FinishesMatch'
    <3>1. ASSUME NEW m \in wire, m.op \in Finishes PROVE m.exec # 0 /\ Tells(m.op, m.exec)'
      <4>1. m.exec \in Execs /\ Tells(m.op, m.exec)
        BY <1>b, <3>1, RunTypes DEF FinishesMatch, Execs
      <4> QED
        BY <2>7, <3>1, <4>1 DEF Execs
    <3> QED
      BY <1>b, <1>a, <2>2, <3>1, RunTypes DEF FinishesMatch
  <2>9. StatusTellsOutcome'
    BY <1>b, <2>2, <2>7 DEF StatusTellsOutcome
  <2>10. NoSilentOrphan'
    BY <1>b, <2>2, <2>3, <2>4, OpenerIsHandler DEF NoSilentOrphan
  <2> QED
    BY <2>6, <2>8, <2>9, <2>10 DEF RunParts, RunInv
<1> QED
  BY <1>1, <1>2, <1>3, <1>4, <1>5, <1>6 DEF Finish

(* The handler sends a message, and awaits its acknowledgement if it is a call. *)
LEMMA SendingKeepsRun ==
  ASSUME Alone, CallsInv, RunParts, NEW t \in Threads,
         \/ Reports(t)
         \/ \E o \in Operations, e \in 0..MaxExecs : Asks(t, o, e)
  PROVE  RunParts'
<1>a. \A u \in Threads : u = t
  BY DEF Alone
<1>b. /\ IdMatches /\ BodiesMatch /\ FinishesMatch /\ ClosedMatches /\ NoSilentOrphan /\ StatusTellsOutcome
      /\ TypeOK /\ PlacesMatch
  BY DEF RunParts, RunInv, CallsInv
<1>c. pc \in [Threads -> Places] /\ op \in [Threads -> {"start", "task", "observe"} \cup Finishes]
  BY RunTypes
\* What both ways of sending have in common; o is what is sent, naming e.
<1>1. ASSUME NEW o \in Operations, NEW e \in 0..MaxExecs, Sends(t, o, e),
             o # "start" => e = execution_id /\ execution_id # 0,
             o \in Finishes => Tells(o, e),
             IdMatches', BodiesMatch',
             pc[t] \in {"checked", "required"},
             op'[t] \in Finishes => pc'[t] # "finished",
             calling' = calling \/ sent'[t] = sent[t] + 1
      PROVE RunParts'
  <2>1. /\ UNCHANGED <<gwExec, execs, status, opener, execution_id, mine, bodies, failedStarts, accepted>>
        /\ t \notin calling /\ t \notin accepted
    BY <1>1, RunTypes DEF Sends
  <2>2. ClosedMatches' /\ StatusTellsOutcome'
    BY <1>a, <1>b, <1>1, <2>1 DEF ClosedMatches, StatusTellsOutcome, Tells
  <2>3. NoSilentOrphan'
    BY <1>b, <1>1, <2>1, OpenerIsHandler DEF NoSilentOrphan
  <2>4. FinishesMatch'
    <3>1. ASSUME NEW m \in wire'
          PROVE /\ m.op \in Finishes => m.exec # 0 /\ Tells(m.op, m.exec)
                /\ m.op # "start" /\ m.thread \in calling' /\ m.n = sent'[m.thread] => m.exec = execution_id
      <4>1. CASE m \in wire
        <5>1. m.thread = t /\ m.n =< sent[t] /\ m.n \in Nat /\ sent[t] \in Nat
          BY <1>a, <4>1, RunTypes DEF CallsInv, RequestsMatch
        <5>2. ~(m.thread \in calling' /\ m.n = sent'[m.thread])
          BY <1>1, <2>1, <5>1
        <5> QED
          BY <1>b, <4>1, <5>2 DEF FinishesMatch, Tells
      <4>2. CASE m \notin wire
        <5>1. m.op = o /\ m.exec = e
          BY <1>1, <3>1, <4>2 DEF Sends
        <5> QED
          BY <1>1, <5>1 DEF Finishes
      <4> QED
        BY <4>1, <4>2
    <3> QED
      BY <2>1, <3>1 DEF FinishesMatch, Tells
  <2> QED
    BY <1>1, <2>2, <2>3, <2>4 DEF RunParts, RunInv
<1>2. CASE Reports(t)
  <2>0. /\ Sends(t, "task", execution_id) /\ pc[t] = "required" /\ op[t] = "task" /\ pc'[t] = "body"
        /\ op'[t] = "task" /\ calling' = calling /\ answer' = answer
    BY <1>b, <1>c, <1>2, ReportsDoes
  <2>1. /\ UNCHANGED <<execution_id, mine, ended, bodies, accepted>> /\ t \notin calling /\ t \notin accepted
    BY <2>0, RunTypes DEF Sends
  <2>2. "task" \in Operations /\ execution_id \in 0..MaxExecs /\ "task" \notin Finishes /\ execution_id # 0
    BY <1>b, <2>0 DEF Operations, Finishes, TypeOK, IdMatches
  <2>3. IdMatches' /\ BodiesMatch'
    BY <1>a, <1>b, <2>0, <2>1, <2>2 DEF IdMatches, BodiesMatch, Tells
  <2> QED
    BY <1>1, <2>0, <2>2, <2>3
<1>3. ASSUME NEW o \in Operations, NEW e \in 0..MaxExecs, Asks(t, o, e) PROVE RunParts'
  <2>0. /\ Sends(t, o, e) /\ pc'[t] = "calling" /\ op'[t] = o
        /\ calling' = calling \/ sent'[t] = sent[t] + 1
    BY <1>b, <1>c, <1>3, AsksDoes
  <2>1. /\ UNCHANGED <<execution_id, mine, ended, bodies, accepted>> /\ t \notin calling /\ t \notin accepted
    BY <2>0, RunTypes DEF Sends
  <2>2. \/ o = "start" /\ pc[t] = "checked" /\ execution_id = 0
        \/ o # "start" /\ pc[t] = "required" /\ op[t] = o /\ e = execution_id /\ execution_id # 0
    BY <1>b, <1>3 DEF Asks, IdMatches, PlacesMatch
  <2>3. IdMatches'
    BY <1>a, <1>b, <2>0, <2>1, <2>2 DEF IdMatches
  <2>4. BodiesMatch'
    BY <1>a, <1>b, <2>0, <2>1, <2>2 DEF BodiesMatch, Finishes, Tells
  <2>5. o \in Finishes => Tells(o, e)
    BY <1>b, <2>2 DEF BodiesMatch, IdMatches, Finishes, Tells
  <2>6. pc[t] \in {"checked", "required"}
    BY <2>2
  <2>7. o # "start" => e = execution_id /\ execution_id # 0
    BY <2>2
  <2> QED
    BY <1>1, <2>0, <2>3, <2>4, <2>5, <2>6, <2>7
<1> QED
  BY <1>2, <1>3

(* The call of the handler ends. *)
LEMMA CallEndKeepsRun ==
  ASSUME Alone, CallsInv, RunParts, NEW t \in Threads, Ends(t)
  PROVE  RunParts'
<1>a. \A u \in Threads : u = t
  BY DEF Alone
<1>b. IdMatches /\ BodiesMatch /\ FinishesMatch /\ ClosedMatches /\ NoSilentOrphan /\ StatusTellsOutcome
  BY DEF RunParts, RunInv
<1>1. /\ pc[t] = "calling" /\ op[t] # "task" /\ t \notin calling' /\ t \notin accepted'
      /\ calling' \subseteq calling
      /\ UNCHANGED <<execution_id, mine, ended, bodies, op, sent, answer, wire, gwExec, execs, status, opener>>
  BY EndsDoes, RunTypes DEF CallsInv, PlacesMatch
<1>2. \/ t \in accepted /\ op[t] = "start" /\ pc'[t] = "started"
      \/ t \in accepted /\ op[t] \in Finishes /\ pc'[t] = "finished"
      \/ op[t] = "observe" /\ pc'[t] = "body"
      \/ op[t] \notin {"start", "observe"} /\ pc'[t] = "idle"
      \/ op[t] = "start" /\ pc'[t] = "idle" /\ Latest(t) \in failedStarts'
  <2>1. op[t] \in {"start", "observe"} \cup Finishes
    BY <1>1, RunTypes
  <2> QED
    BY <2>1, EndsDoes, RunTypes DEF CallsInv
<1>3. failedStarts \subseteq failedStarts'
  BY EndsDoes DEF CallsInv
<1>4. IdMatches'
  BY <1>a, <1>b, <1>1, <1>2 DEF IdMatches, Finishes
<1>5. BodiesMatch'
  BY <1>a, <1>b, <1>1, <1>2 DEF BodiesMatch, Finishes, Tells
<1>6. FinishesMatch'
  BY <1>b, <1>1 DEF FinishesMatch, Tells
<1>7. ClosedMatches' /\ StatusTellsOutcome'
  BY <1>a, <1>b, <1>1, <1>2 DEF ClosedMatches, StatusTellsOutcome, Finishes, Tells
<1>8. NoSilentOrphan'
  <2>1. SUFFICES ASSUME gwExec # 0, execution_id # gwExec, <<t, opener[gwExec][2]>> \notin failedStarts'
                 PROVE  <<t, opener[gwExec][2]>> = Latest(t)' /\ pc'[t] \in {"calling", "started"}
                        /\ op'[t] = "start"
    BY <1>1, OpenerIsHandler DEF NoSilentOrphan
  <2>2. <<t, opener[gwExec][2]>> = Latest(t) /\ op[t] = "start"
    BY <1>b, <1>3, <2>1, OpenerIsHandler DEF NoSilentOrphan
  <2> QED
    BY <1>1, <1>2, <2>1, <2>2 DEF Latest, Finishes
<1> QED
  BY <1>4, <1>5, <1>6, <1>7, <1>8 DEF RunParts, RunInv

(* The gateway takes a message. *)
LEMMA GatewayKeepsRun ==
  ASSUME Alone, CallsInv, RunParts, NEW m \in wire, Serves(m)
  PROVE  RunParts'
<1>a. \A u \in Threads : u = m.thread
  BY RunTypes DEF Alone
<1>b. /\ IdMatches /\ BodiesMatch /\ FinishesMatch /\ ClosedMatches /\ NoSilentOrphan /\ StatusTellsOutcome
      /\ TypeOK /\ PlacesMatch /\ ExecsCounted
  BY DEF RunParts, RunInv, CallsInv
<1> DEFINE t == m.thread
<1>c. t \in Threads
  BY RunTypes
<1>1. /\ wire' = wire \ {m} /\ calling' = calling
      /\ UNCHANGED <<execution_id, mine, ended, bodies, pc, op, sent, failedStarts>>
  BY <1>b, ServesDoes
<1>2. IdMatches' /\ FinishesMatch'
  BY <1>b, <1>1 DEF IdMatches, FinishesMatch, Tells
<1>3. BodiesMatch' <=> (op[t] = "start" /\ (t \in accepted' \/ pc[t] = "started") => bodies[answer'[t]] = "running")
  BY <1>a, <1>b, <1>c, <1>1 DEF BodiesMatch, Tells
<1>4. ClosedMatches' <=> (op[t] \in Finishes /\ (t \in accepted' \/ pc[t] = "finished") => status'[execution_id] # "open")
  BY <1>a, <1>c, <1>1 DEF ClosedMatches
<1>5. ASSUME m.op = "start", gwExec = 0, execs < MaxExecs, gwExec' = execs + 1,
             status' = [status EXCEPT ![execs + 1] = "open"],
             opener' = [opener EXCEPT ![execs + 1] = <<m.thread, m.n, socket>>],
             Acknowledge(m, execs + 1)
      PROVE RunParts'
  <2>0. execs + 1 \in Execs /\ execs + 1 \in 0..MaxExecs /\ execs \in Nat
    BY <1>5, RunTypes, ExecutionAssumption DEF Execs
  <2>1. \/ answer'[t] = answer[t] /\ (t \in accepted' => t \in accepted)
        \/ Awaited(m) /\ answer'[t] = execs + 1
    BY <1>b, <1>c, <1>5, <2>0, AcknowledgeDoes
  <2>2. bodies[execs + 1] = "running"
    BY <1>b, <2>0 DEF ExecsCounted
  <2>3. BodiesMatch'
    BY <1>b, <1>c, <1>3, <2>1, <2>2 DEF BodiesMatch
  <2>4. ClosedMatches'
    <3>1. SUFFICES ASSUME op[t] \in Finishes, t \in accepted' \/ pc[t] = "finished"
                   PROVE  status'[execution_id] # "open"
      BY <1>4
    <3>2. t \in accepted \/ pc[t] = "finished"
      BY <1>5, <2>1, <3>1 DEF Awaited, Finishes
    <3>3. pc[t] \in {"calling", "finished"} /\ op[t] # "start"
      BY <1>b, <1>c, <3>1, <3>2, RunTypes DEF PlacesMatch, Finishes
    <3>4. execution_id # 0 /\ status[execution_id] # "open"
      BY <1>b, <1>c, <3>1, <3>2, <3>3 DEF IdMatches, ClosedMatches
    <3>5. execution_id \in Execs /\ execution_id # execs + 1
      BY <1>b, <2>0, <3>4, RunTypes DEF ExecsCounted, Execs
    <3> QED
      BY <1>5, <2>0, <3>4, <3>5, RunTypes
  <2>5. NoSilentOrphan'
    <3>1. opener'[gwExec'] = <<t, m.n, socket>>
      BY <1>5, <2>0 DEF CallsInv, OpenersMatch
    <3>2. <<t, m.n>> \in failedStarts \/ (t \in calling /\ m.n = sent[t])
      BY <1>5 DEF CallsInv, StartsAccountedFor
    <3>3. t \in calling /\ m.n = sent[t] => pc[t] = "calling" /\ op[t] = "start"
      BY <1>b, <1>c, <1>5 DEF CallsInv, RequestsMatch, PlacesMatch
    <3> QED
      BY <1>1, <3>1, <3>2, <3>3 DEF NoSilentOrphan, Latest
  <2>6. StatusTellsOutcome'
    BY <1>b, <1>1, <1>5, <2>0, RunTypes DEF StatusTellsOutcome, Finishes, Tells
  <2> QED
    BY <1>2, <2>3, <2>4, <2>5, <2>6 DEF RunParts, RunInv
<1>6. ASSUME m.op # "start", m.exec = gwExec, gwExec # 0, opener' = opener,
             IF m.op \in Finishes
             THEN gwExec' = 0 /\ status' = [status EXCEPT ![gwExec] = m.op]
             ELSE gwExec' = gwExec /\ status' = status,
             Acknowledge(m, gwExec)
      PROVE RunParts'
  <2>0. gwExec \in Execs
    BY <1>6, RunTypes DEF Execs
  <2>1. \/ answer'[t] = answer[t] /\ (t \in accepted' => t \in accepted)
        \/ Awaited(m) /\ op[t] = m.op
    BY <1>b, <1>c, <1>6, RunTypes, AcknowledgeDoes DEF Awaited
  <2>2. BodiesMatch'
    BY <1>b, <1>c, <1>3, <1>6, <2>1 DEF BodiesMatch
  <2>3. ASSUME NEW e \in Execs, m.op \in Finishes PROVE status'[e] = IF e = gwExec THEN m.op ELSE status[e]
    BY <1>6, <2>0, <2>3, RunTypes
  <2>4. ClosedMatches'
    <3>1. SUFFICES ASSUME op[t] \in Finishes, t \in accepted' \/ pc[t] = "finished"
                   PROVE  status'[execution_id] # "open"
      BY <1>4
    <3>2. pc[t] \in {"calling", "finished"} /\ op[t] # "start"
      <4>1. t \in accepted' => t \in calling
        BY <2>1, RunTypes DEF Awaited
      <4> QED
        BY <1>b, <1>c, <3>1, <4>1 DEF PlacesMatch, Finishes
    <3>3. execution_id \in Execs
      BY <1>b, <1>c, <3>2, RunTypes DEF IdMatches, Execs
    <3>4. CASE t \in accepted \/ pc[t] = "finished"
      <4>1. status[execution_id] # "open"
        BY <1>b, <1>c, <3>1, <3>4 DEF ClosedMatches
      <4> QED
        BY <1>6, <2>3, <3>3, <4>1 DEF Finishes
    <3>5. CASE Awaited(m) /\ op[t] = m.op
      <4>1. m.exec = execution_id
        BY <1>b, <1>6, <3>5 DEF FinishesMatch, Awaited
      <4> QED
        BY <1>6, <2>3, <3>1, <3>3, <3>5, <4>1 DEF Finishes
    <3> QED
      BY <2>1, <3>1, <3>4, <3>5
  <2>5. NoSilentOrphan'
    BY <1>b, <1>1, <1>6 DEF NoSilentOrphan, Latest
  <2>6. StatusTellsOutcome'
    <3>1. m.op \in Finishes => Tells(m.op, gwExec)
      BY <1>b, <1>6 DEF FinishesMatch
    <3> QED
      BY <1>b, <1>1, <1>6, <2>3, <3>1 DEF StatusTellsOutcome, Tells
  <2> QED
    BY <1>2, <2>2, <2>4, <2>5, <2>6 DEF RunParts, RunInv
<1>7. CASE UNCHANGED <<accepted, answer, gwExec, execs, status, opener>>
  <2>1. BodiesMatch' /\ ClosedMatches'
    BY <1>b, <1>c, <1>3, <1>4, <1>7 DEF BodiesMatch, ClosedMatches
  <2>2. NoSilentOrphan' /\ StatusTellsOutcome'
    BY <1>b, <1>1, <1>7 DEF NoSilentOrphan, StatusTellsOutcome, Latest, Tells
  <2> QED
    BY <1>2, <2>1, <2>2 DEF RunParts, RunInv
<1> QED
  BY <1>b, <1>5, <1>6, <1>7, ServesDoes

(* What happens outside the handler. *)
LEMMA OutsideKeepsRun ==
  ASSUME Alone, CallsInv, RunParts,
         SessionError \/ ErrorArrives \/ PlatformCancels \/ Drop \/ Reconnect \/ UNCHANGED vars
  PROVE  RunParts'
<1>b. IdMatches /\ BodiesMatch /\ FinishesMatch /\ ClosedMatches /\ NoSilentOrphan /\ StatusTellsOutcome
  BY DEF RunParts, RunInv
<1>1. /\ UNCHANGED <<execution_id, mine, ended, bodies, pc, op, sent, calling, accepted, answer, opener,
                     failedStarts>>
      /\ wire' \subseteq wire
      /\ gwExec' \in {0, gwExec}
      /\ status' = status \/ (gwExec # 0 /\ status' = [status EXCEPT ![gwExec] = "cancelled"])
  BY DEF SessionError, ErrorArrives, PlatformCancels, Drop, Cut, Reconnect, Call!ErrorReaches, vars, runVars,
     callVars, linkVars, gatewayVars
<1>2. IdMatches' /\ BodiesMatch' /\ FinishesMatch' /\ NoSilentOrphan'
  BY <1>b, <1>1 DEF IdMatches, BodiesMatch, FinishesMatch, NoSilentOrphan, Latest, Tells
<1>3. ASSUME NEW e \in Execs PROVE status'[e] \in {status[e], "cancelled"}
  BY <1>1, RunTypes
<1>4. StatusTellsOutcome'
  BY <1>b, <1>1, <1>3 DEF StatusTellsOutcome, Finishes, Tells
<1>5. ClosedMatches'
  <2>1. SUFFICES ASSUME NEW t \in Threads, op[t] \in Finishes, t \in accepted \/ pc[t] = "finished"
                 PROVE  status'[execution_id] # "open"
    BY <1>1 DEF ClosedMatches
  <2>2. pc[t] \in {"calling", "finished"} /\ op[t] # "start"
    BY <2>1, RunTypes DEF CallsInv, PlacesMatch, Finishes
  <2>3. execution_id \in Execs /\ status[execution_id] # "open"
    BY <1>b, <2>1, <2>2, RunTypes DEF IdMatches, ClosedMatches, Execs
  <2> QED
    BY <1>3, <2>3
<1> QED
  BY <1>2, <1>4, <1>5 DEF RunParts, RunInv

LEMMA RunPartsPreserved ==
  ASSUME Alone, CallsInv, BudgetLeft, RunParts, [Next]_vars
  PROVE  RunParts'
<1>0. TypeOK /\ PlacesMatch
  BY DEF CallsInv
<1>1. ASSUME NEW t \in Threads, StartCalls(t) \/ ReportTasks(t) \/ RequiredCalls(t) PROVE RunParts'
  <2>1. pc[t] \in {"checked", "required"} /\ sent[t] < MaxMessages
    BY <1>1, RunTypes, ExecutionAssumption
    DEF StartCalls, ReportTasks, RequiredCalls, BudgetLeft, Budget
  <2>2. CASE StartCalls(t)
    <3>1. Asks(t, "start", 0) /\ "start" \in Operations
      BY <2>1, <2>2, ZeroIsExec DEF StartCalls, Asks, Operations
    <3> QED
      BY <3>1, ZeroIsExec, SendingKeepsRun
  <2>3. CASE RequiredCalls(t)
    <3>1. Asks(t, op[t], execution_id) /\ op[t] \in Operations /\ execution_id \in 0..MaxExecs
      BY <1>0, <2>1, <2>3 DEF RequiredCalls, Asks, Operations, TypeOK, PlacesMatch
    <3> QED
      BY <3>1, SendingKeepsRun
  <2>4. CASE ReportTasks(t)
    <3>1. Reports(t)
      BY <2>1, <2>4 DEF ReportTasks, Reports
    <3> QED
      BY <3>1, SendingKeepsRun
  <2> QED
    BY <1>1, <2>2, <2>3, <2>4
<1>2. ASSUME NEW t \in Threads, \/ StartChecks(t) \/ StartAssigns(t) \/ BodyRequires(t) \/ BodyInterrupted(t)
                               \/ FinishAgain(t) \/ Finish(t) \/ FinishClears(t)
      PROVE RunParts'
  BY <1>2, HandlerKeepsRun
<1>3. ASSUME NEW t \in Threads, CallEnds(t) PROVE RunParts'
  <2>1. Ends(t)
    BY <1>3 DEF CallEnds, Ends
  <2> QED
    BY <2>1, CallEndKeepsRun
<1>4. ASSUME NEW m \in wire, GatewayOpens(m) \/ GatewayServes(m) \/ GatewayRejects(m) PROVE RunParts'
  <2>1. Serves(m)
    BY <1>4 DEF Serves
  <2> QED
    BY <2>1, GatewayKeepsRun
<1>5. CASE SessionError \/ ErrorArrives \/ PlatformCancels \/ Drop \/ Reconnect \/ UNCHANGED vars
  BY <1>5, OutsideKeepsRun
<1> QED
  BY <1>1, <1>2, <1>3, <1>4, <1>5 DEF Next, Handler, Progress, Gateway

LEMMA InvariantHolds ==
  ASSUME Alone
  PROVE  Spec => []IInv
<1>1. Init => IInv
  BY InitCallsInv, InitBudget, InitRunParts DEF IInv, RunParts
<1>2. IInv /\ [Next]_vars => IInv'
  <2> SUFFICES ASSUME IInv, [Next]_vars PROVE IInv'
    OBVIOUS
  <2>1. CallsInv /\ BudgetLeft /\ RunParts
    BY DEF IInv, RunParts
  <2>2. Steps
    BY <2>1, NextIsStep DEF CallsInv
  <2>3. CallsInv' /\ BudgetLeft' /\ RunParts'
    BY <2>1, <2>2, CallsInvPreserved, BudgetPreserved, RunPartsPreserved
  <2> QED
    BY <2>3 DEF IInv, RunParts
<1> QED
  BY <1>1, <1>2, PTL DEF Spec

(* With one handler at a time, and whatever is lost, delayed or refused: the execution that *)
(* is open on the live socket is the one the robot holds, or its start() has not returned   *)
(* yet or has raised.  start() can let an execution slip only by telling the program so.    *)
THEOREM ExecutionNoSilentOrphan ==
  ASSUME Alone
  PROVE  Spec => []NoSilentOrphan
<1>1. IInv => NoSilentOrphan
  BY DEF IInv
<1> QED
  BY <1>1, InvariantHolds, PTL

(* With one handler at a time an execution shown as COMPLETED was run by a body that ended  *)
(* cleanly, and one shown as FAILED by a body that raised: a finish() that was given up and *)
(* is served later still names its own execution and tells its own outcome.                 *)
THEOREM ExecutionStatusTellsOutcome ==
  ASSUME Alone
  PROVE  Spec => []StatusTellsOutcome
<1>1. IInv => StatusTellsOutcome
  BY DEF IInv
<1> QED
  BY <1>1, InvariantHolds, PTL

(* With one handler at a time finish() forgets the execution only after the gateway has     *)
(* closed it: its acknowledgement is the one of the request that named this execution.      *)
THEOREM ExecutionReleaseAfterClose ==
  ASSUME Alone
  PROVE  Spec => ReleaseAfterClose
<1>1. IInv /\ [Next]_vars => [execution_id # 0 /\ execution_id' = 0 => status[execution_id] # "open"]_vars
  <2> SUFFICES ASSUME IInv, Next, execution_id # 0, execution_id' = 0
               PROVE  status[execution_id] # "open"
    OBVIOUS
  <2>1. CallsInv /\ ClosedMatches
    BY DEF IInv, RunInv
  <2>2. ASSUME NEW t \in Threads, FinishClears(t) PROVE status[execution_id] # "open"
    BY <2>1, <2>2 DEF FinishClears, ClosedMatches, CallsInv, PlacesMatch
  <2>3. ASSUME NEW t \in Threads, StartAssigns(t) PROVE FALSE
    BY <2>1, <2>3 DEF StartAssigns, CallsInv, PlacesMatch, StartsMatch
  <2>4. ASSUME NEW t \in Threads, Handler(t), ~FinishClears(t), ~StartAssigns(t) PROVE execution_id' = execution_id
    BY <2>4 DEF Handler, StartChecks, BodyRequires, BodyInterrupted, FinishAgain, Finish, BodyEnds, Require,
       Progress, StartCalls, ReportTasks, RequiredCalls, BeginCall, CallEnds, CallReturns, CallRaises,
       CallRefused, Abandon, runVars
  <2>5. Gateway \/ Drop \/ Reconnect => execution_id' = execution_id
    BY DEF Gateway, GatewayOpens, GatewayServes, GatewayRejects, SessionError, ErrorArrives, PlatformCancels,
       Drop, Cut, Reconnect, runVars
  <2> QED
    BY <2>2, <2>3, <2>4, <2>5 DEF Next
<1> QED
  BY <1>1, InvariantHolds, PTL DEF Spec, ReleaseAfterClose
=============================================================================
