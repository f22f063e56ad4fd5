---------------------------- MODULE QueueProofs -----------------------------
(* Proofs about Queue, for any number of workers, tasks and messages.  The  *)
(* inductive invariant is IInv of Queue.                                    *)
EXTENDS Queue, TLAPS

-----------------------------------------------------------------------------
(* What the building blocks of the actions do.                              *)

LEMMA BeginCallDoes ==
  ASSUME TypeOK, NEW t \in Threads, NEW o \in {"next"} \cup TaskStatus, NEW k, BeginCall(t, o, k)
  PROVE  /\ pc' = [pc EXCEPT ![t] = "calling"] /\ op' = [op EXCEPT ![t] = o]
         /\ answer' = [answer EXCEPT ![t] = 0]
         /\ UNCHANGED <<accepted, heard, up, drops>>
         /\ t \notin calling /\ calling \subseteq calling' /\ calling' \subseteq calling \cup {t}
         /\ \/ /\ sent[t] + 1 \in 1..MaxMessages /\ sent' = [sent EXCEPT ![t] = @ + 1]
               /\ wire' = wire \cup {[thread |-> t, n |-> sent[t] + 1, op |-> o, task |-> k]}
               /\ calling' = calling \cup {t}
            \/ calling' = calling /\ sent' = sent /\ wire' = wire
<1>1. sent[t] \in 0..MaxMessages
  BY DEF TypeOK
<1> QED
  BY <1>1, QueueAssumption DEF BeginCall, Call!Enter, Call!Refuse

LEMMA ReturnDoes ==
  ASSUME NEW t, NEW r, Call!Return(t, r)
  PROVE  /\ t \in calling /\ calling' = calling \ {t} /\ accepted' = accepted \ {t}
         /\ heard' = heard \ {t} /\ (r = "result" => t \in accepted)
BY DEF Call!Return

LEMMA RaisesDoes ==
  ASSUME TypeOK, NEW t, Raises(t)
  PROVE  /\ pc[t] = "calling" /\ calling' = calling \ {t} /\ accepted' = accepted \ {t}
         /\ heard' = heard \ {t}
<1>1. CASE \E r : Call!Return(t, r)
  BY <1>1, ReturnDoes DEF Raises
<1>2. CASE t \notin calling /\ UNCHANGED callVars
  BY <1>2 DEF Raises, callVars, TypeOK
<1> QED
  BY <1>1, <1>2 DEF Raises

LEMMA AcknowledgeDoes ==
  ASSUME TypeOK, NEW m \in wire, NEW k \in 0..MaxTasks, Acknowledge(m, k)
  PROVE  /\ calling' = calling /\ heard' = heard
         /\ accepted \subseteq accepted' /\ accepted' \subseteq calling
         /\ answer' \in [Threads -> 0..MaxTasks]
         /\ \A t \in Threads :
              \/ answer'[t] = answer[t] /\ (t \in accepted' => t \in accepted)
                 /\ ~(t = m.thread /\ t \in calling /\ m.n = sent[t])
              \/ /\ t = m.thread /\ t \in calling /\ m.n = sent[t]
                 /\ t \in accepted' /\ answer'[t] = k
<1>1. m.thread \in Threads
  BY DEF TypeOK, Messages
<1>2. CASE m.thread \in calling /\ m.n = sent[m.thread]
  <2>1. accepted' = accepted \cup {m.thread} /\ calling' = calling /\ heard' = heard
        /\ answer' = [answer EXCEPT ![m.thread] = k]
    BY <1>2 DEF Acknowledge, Call!Accept
  <2> QED
    BY <1>1, <1>2, <2>1 DEF TypeOK
<1>3. CASE ~(m.thread \in calling /\ m.n = sent[m.thread])
  BY <1>1, <1>3 DEF Acknowledge, callVars, TypeOK
<1> QED
  BY <1>2, <1>3

(* Where the steps of a worker lead.  Each lemma below has one step per case. *)
LEMMA StepCases ==
  ASSUME [Next]_vars
  PROVE  \/ \E t \in Threads : ClaimNext(t) \/ ConsumeAgain(t) \/ Claimed(t) \/ ClaimRaises(t)
         \/ \E t \in Threads, s \in TaskStatus : BodyReports(t, s)
         \/ \E t \in Threads : BodyReturns(t) \/ BodyRaises(t) \/ BodyInterrupted(t)
                               \/ Reported(t) \/ ReportRaises(t)
         \/ ExecutionEnds
         \/ \E m \in wire : PlatformHandsOut(m) \/ PlatformStores(m)
         \/ PlatformErrs \/ Drop \/ Reconnect \/ UNCHANGED vars
BY DEF Next, Worker, CallEnds, Platform

-----------------------------------------------------------------------------
LEMMA InitIInv == Init => IInv
<1> SUFFICES ASSUME Init PROVE IInv
  OBVIOUS
<1> USE DEF Init, Call!Init
<1>1. TypeOK
  BY QueueAssumption DEF TypeOK, Places, TaskStatus
<1>2. HoldingMatches /\ RequestsMatch /\ ClaimsServedOnce /\ TasksHeldOnce
  BY DEF HoldingMatches, Holding, RequestsMatch, ClaimsServedOnce, TasksHeldOnce
<1>3. AnswersAreTrue /\ FateIsOpen /\ ReportsTellFate /\ ClaimsAccountedFor
  BY DEF AnswersAreTrue, FateIsOpen, ReportsTellFate, ClaimsAccountedFor
<1>4. TasksAccountedFor /\ CleanExitsAreStored /\ OutcomesTellFate /\ DrainedMeansEmpty
  BY DEF TasksAccountedFor, CleanExitsAreStored, OutcomesTellFate, DrainedMeansEmpty
<1> QED
  BY <1>1, <1>2, <1>3, <1>4 DEF IInv

(* A worker that holds a task holds one of the queue. *)
LEMMA HeldIsTask ==
  ASSUME TypeOK, HoldingMatches, NEW t \in Threads, Holding(t)
  PROVE  task[t] \in TaskIds
BY QueueAssumption DEF TypeOK, HoldingMatches, TaskIds

LEMMA LeavePreservesTypes ==
  ASSUME TypeOK, NEW t \in Threads, NEW how, task[t] \in TaskIds, LeaveProcessing(t, how)
  PROVE  /\ pc' \in [Threads -> Places] /\ leaving' \in [Threads -> {"no", "cleanly", "raising"}]
         /\ task' \in [Threads -> 0..MaxTasks] /\ clean' \subseteq TaskIds
BY QueueAssumption DEF TypeOK, LeaveProcessing, Places

LEMMA BeginCallPreservesTypes ==
  ASSUME TypeOK, NEW t \in Threads, NEW o \in {"next"} \cup TaskStatus, NEW k \in 0..MaxTasks,
         BeginCall(t, o, k)
  PROVE  /\ pc' \in [Threads -> Places] /\ op' \in [Threads -> {"next"} \cup TaskStatus]
         /\ sent' \in [Threads -> 0..MaxMessages] /\ answer' \in [Threads -> 0..MaxTasks]
         /\ calling' \subseteq Threads /\ accepted' \subseteq calling' /\ heard' \subseteq calling'
         /\ wire' \subseteq Messages /\ up' \in BOOLEAN /\ drops' \in 0..MaxDrops
<1>1. /\ pc' = [pc EXCEPT ![t] = "calling"] /\ op' = [op EXCEPT ![t] = o]
      /\ answer' = [answer EXCEPT ![t] = 0]
      /\ UNCHANGED <<accepted, heard, up, drops>>
      /\ calling \subseteq calling' /\ calling' \subseteq calling \cup {t}
  BY BeginCallDoes
<1>2. /\ sent' \in [Threads -> 0..MaxMessages] /\ wire' \subseteq Messages
  <2>1. CASE sent' = sent /\ wire' = wire
    BY <2>1 DEF TypeOK
  <2>2. CASE /\ sent[t] + 1 \in 1..MaxMessages /\ sent' = [sent EXCEPT ![t] = @ + 1]
             /\ wire' = wire \cup {[thread |-> t, n |-> sent[t] + 1, op |-> o, task |-> k]}
    <3>1. [thread |-> t, n |-> sent[t] + 1, op |-> o, task |-> k] \in Messages
      BY <2>2 DEF Messages
    <3> QED
      BY <2>2, <3>1, QueueAssumption DEF TypeOK
  <2> QED
    BY <2>1, <2>2, BeginCallDoes
<1>3. /\ pc' \in [Threads -> Places] /\ op' \in [Threads -> {"next"} \cup TaskStatus]
      /\ answer' \in [Threads -> 0..MaxTasks]
  BY <1>1, QueueAssumption DEF TypeOK, Places
<1>4. /\ calling' \subseteq Threads /\ accepted' \subseteq calling' /\ heard' \subseteq calling'
  BY <1>1 DEF TypeOK
<1>5. up' \in BOOLEAN /\ drops' \in 0..MaxDrops
  BY <1>1, Zenon DEF TypeOK
<1> QED
  BY <1>2, <1>3, <1>4, <1>5

LEMMA TypesPreserved == TypeOK /\ HoldingMatches /\ [Next]_vars => TypeOK'
<1> SUFFICES ASSUME TypeOK, HoldingMatches, [Next]_vars PROVE TypeOK'
  OBVIOUS
<1>1. ASSUME NEW t \in Threads, ClaimNext(t) PROVE TypeOK'
  <2>1. UNCHANGED <<workVars, running, platformVars, historyVars>>
    BY <1>1 DEF ClaimNext
  <2>2. CASE running
    BY <1>1, <2>1, <2>2, BeginCallPreservesTypes, QueueAssumption
    DEF ClaimNext, TypeOK, workVars, platformVars, historyVars
  <2>3. CASE ~running
    BY <1>1, <2>1, <2>3
    DEF ClaimNext, TypeOK, workVars, platformVars, historyVars, callVars, linkVars, Places
  <2> QED
    BY <2>2, <2>3
<1>2. ASSUME NEW t \in Threads, ConsumeAgain(t) PROVE TypeOK'
  BY <1>2 DEF ConsumeAgain, TypeOK, workVars, callVars, linkVars, platformVars, historyVars, Places
<1>3. ASSUME NEW t \in Threads, Claimed(t) PROVE TypeOK'
  BY <1>3, ReturnDoes DEF Claimed, TypeOK, linkVars, platformVars, historyVars, Places
<1>4. ASSUME NEW t \in Threads, ClaimRaises(t) PROVE TypeOK'
  BY <1>4, RaisesDoes DEF ClaimRaises, TypeOK, workVars, linkVars, platformVars, Places
<1>5. ASSUME NEW t \in Threads, NEW s \in TaskStatus, BodyReports(t, s) PROVE TypeOK'
  <2>1. /\ BeginCall(t, s, task[t]) /\ leaving' = [leaving EXCEPT ![t] = "no"]
        /\ told' = [told EXCEPT ![task[t]] = @ \cup {s}]
        /\ UNCHANGED <<task, clean, reported, running, platformVars, fate>>
    BY <1>5 DEF BodyReports, Report
  <2> QED
    BY <2>1, BeginCallPreservesTypes DEF TypeOK, platformVars
<1>6. ASSUME NEW t \in Threads, BodyReturns(t) \/ BodyRaises(t) PROVE TypeOK'
  <2>1. /\ fate' \in [TaskIds -> {"running", "returned", "raised"}]
        /\ UNCHANGED <<reported, running, platformVars, told>>
    BY <1>6 DEF BodyReturns, BodyRaises, TypeOK
  <2>2. ASSUME NEW how, LeaveProcessing(t, how), UNCHANGED <<op, sent, callVars, answer, linkVars>>
        PROVE TypeOK'
    <3>1. task[t] \in TaskIds
      BY <1>6, HeldIsTask DEF BodyReturns, BodyRaises, Holding
    <3> QED
      BY <2>1, <2>2, <3>1, LeavePreservesTypes DEF TypeOK, callVars, linkVars, platformVars
  <2>3. ASSUME NEW s \in TaskStatus, NEW how \in {"cleanly", "raising"}, Report(t, s, how)
        PROVE TypeOK'
    <3>1. /\ BeginCall(t, s, task[t]) /\ leaving' = [leaving EXCEPT ![t] = how]
          /\ UNCHANGED <<task, clean>>
      BY <2>3 DEF Report
    <3> QED
      BY <2>1, <3>1, BeginCallPreservesTypes DEF TypeOK, platformVars
  <2> QED
    BY <1>6, <2>2, <2>3 DEF BodyReturns, BodyRaises, TaskStatus
<1>7. ASSUME NEW t \in Threads, BodyInterrupted(t) PROVE TypeOK'
  <2>1. task[t] \in TaskIds
    BY <1>7, HeldIsTask DEF BodyInterrupted, Holding
  <2> QED
    BY <1>7, <2>1, LeavePreservesTypes
    DEF BodyInterrupted, TypeOK, callVars, linkVars, platformVars
<1>8. ASSUME NEW t \in Threads, Reported(t) \/ ReportRaises(t) PROVE TypeOK'
  <2>1. /\ pc[t] = "calling" /\ op[t] \in TaskStatus
        /\ calling' = calling \ {t} /\ accepted' = accepted \ {t} /\ heard' = heard \ {t}
        /\ \E how : AfterReport(t, how)
    BY <1>8, ReturnDoes, RaisesDoes DEF Reported, ReportRaises
  <2>2. /\ reported' \in [Threads -> BOOLEAN]
        /\ UNCHANGED <<op, sent, running, answer, linkVars, platformVars, told, fate>>
    BY <1>8 DEF Reported, ReportRaises, TypeOK
  <2>3. task[t] \in TaskIds
    BY <2>1, HeldIsTask DEF Holding
  <2>4. /\ pc' \in [Threads -> Places] /\ leaving' \in [Threads -> {"no", "cleanly", "raising"}]
        /\ task' \in [Threads -> 0..MaxTasks] /\ clean' \subseteq TaskIds
    <3>1. PICK how : AfterReport(t, how)
      BY <2>1
    <3>2. CASE leaving[t] = "no"
      BY <3>1, <3>2 DEF AfterReport, TypeOK, Places
    <3>3. CASE leaving[t] # "no"
      BY <2>3, <3>1, <3>3, LeavePreservesTypes DEF AfterReport
    <3> QED
      BY <3>2, <3>3
  <2> QED
    BY <2>1, <2>2, <2>4 DEF TypeOK, linkVars, platformVars
<1>9. ASSUME NEW m \in wire, PlatformHandsOut(m) \/ PlatformStores(m) PROVE TypeOK'
  <2>1. /\ wire' = wire \ {m}
        /\ UNCHANGED <<pc, op, workVars, sent, running, up, drops, historyVars>>
        /\ \E k \in 0..MaxTasks : Acknowledge(m, k)
    BY <1>9, QueueAssumption DEF PlatformHandsOut, PlatformStores, Pending, TaskIds
  <2>2. /\ calling' = calling /\ heard' = heard /\ accepted' \subseteq calling
        /\ answer' \in [Threads -> 0..MaxTasks]
    BY <2>1, AcknowledgeDoes
  <2>3. results' \in [TaskIds -> SUBSET TaskStatus]
    BY <1>9 DEF PlatformHandsOut, PlatformStores, TypeOK, Messages
  <2> QED
    BY <2>1, <2>2, <2>3 DEF TypeOK, workVars, historyVars
<1>10. CASE ExecutionEnds \/ PlatformErrs \/ Drop \/ Reconnect \/ UNCHANGED vars
  <2>1. CASE ExecutionEnds
    BY <2>1 DEF ExecutionEnds, TypeOK, workVars, callVars, linkVars, platformVars, historyVars
  <2>2. CASE PlatformErrs
    BY <2>2 DEF PlatformErrs, Call!ErrorReaches, TypeOK, workVars, linkVars, platformVars, historyVars
  <2>3. CASE Drop
    <3>1. drops' \in 0..MaxDrops
      BY <2>3, QueueAssumption DEF Drop, TypeOK
    <3> QED
      BY <2>3, <3>1, Zenon DEF Drop, TypeOK, workVars, callVars, platformVars, historyVars
  <2>4. CASE Reconnect
    BY <2>4 DEF Reconnect, TypeOK, workVars, callVars, platformVars, historyVars
  <2>5. CASE UNCHANGED vars
    BY <2>5 DEF vars, TypeOK, workVars, callVars, linkVars, platformVars, historyVars
  <2> QED
    BY <1>10, <2>1, <2>2, <2>3, <2>4, <2>5
<1> QED
  BY <1>1, <1>2, <1>3, <1>4, <1>5, <1>6, <1>7, <1>8, <1>9, <1>10, StepCases

-----------------------------------------------------------------------------
(* The end of the body, in both ways. *)
LEMMA BodyEndsDoes ==
  ASSUME NEW t \in Threads, BodyReturns(t) \/ BodyRaises(t)
  PROVE  \E f \in {"returned", "raised"}, how \in {"cleanly", "raising"} :
           /\ pc[t] = "body" /\ fate' = [fate EXCEPT ![task[t]] = f]
           /\ UNCHANGED <<reported, running, claimer, results, told>>
           /\ \/ /\ reported[t] /\ LeaveProcessing(t, how)
                 /\ UNCHANGED <<op, sent, calling, accepted, heard, ret, answer, wire, up, drops>>
              \/ Report(t, IF f = "returned" THEN "success" ELSE "failure", how)
BY DEF BodyReturns, BodyRaises, platformVars, callVars, linkVars

LEMMA HoldingPreserved == TypeOK /\ HoldingMatches /\ [Next]_vars => HoldingMatches'
<1> SUFFICES ASSUME TypeOK, HoldingMatches, [Next]_vars PROVE HoldingMatches'
  OBVIOUS
<1>0. /\ DOMAIN pc = Threads /\ DOMAIN op = Threads /\ DOMAIN leaving = Threads
      /\ DOMAIN task = Threads /\ calling \subseteq Threads
      /\ pc \in [Threads -> Places] /\ op \in [Threads -> {"next"} \cup TaskStatus]
      /\ task \in [Threads -> 0..MaxTasks] /\ leaving \in [Threads -> {"no", "cleanly", "raising"}]
  BY DEF TypeOK
<1> USE DEF HoldingMatches, Holding
<1>1. ASSUME NEW t \in Threads, NEW o \in {"next"} \cup TaskStatus, NEW k, BeginCall(t, o, k),
             task' = task, task[t] # 0 <=> o \in TaskStatus,
             \/ leaving' = leaving /\ leaving[t] = "no"
             \/ o \in TaskStatus /\ \E how : leaving' = [leaving EXCEPT ![t] = how]
      PROVE HoldingMatches'
  <2>1. /\ pc' = [pc EXCEPT ![t] = "calling"] /\ op' = [op EXCEPT ![t] = o]
        /\ calling' \subseteq calling \cup {t}
    BY <1>1, BeginCallDoes
  <2> QED
    BY <1>0, <1>1, <2>1
<1>2. ASSUME NEW t \in Threads, NEW how, LeaveProcessing(t, how), t \notin calling',
             calling' \subseteq calling, op' = op
      PROVE HoldingMatches'
  BY <1>0, <1>2 DEF LeaveProcessing
<1>3. ASSUME NEW t \in Threads, ClaimNext(t) PROVE HoldingMatches'
  <2>1. task[t] = 0 /\ leaving[t] = "no" /\ task' = task /\ leaving' = leaving /\ t \notin calling
    BY <1>3 DEF ClaimNext, workVars
  <2>2. CASE running
    <3>1. BeginCall(t, "next", 0)
      BY <1>3, <2>2 DEF ClaimNext
    <3> QED
      BY <1>1, <2>1, <3>1 DEF TaskStatus
  <2>3. CASE ~running
    BY <1>0, <1>3, <2>1, <2>3 DEF ClaimNext, callVars
  <2> QED
    BY <2>2, <2>3
<1>4. ASSUME NEW t \in Threads, ConsumeAgain(t) PROVE HoldingMatches'
  BY <1>0, <1>4 DEF ConsumeAgain, workVars, callVars
<1>5. ASSUME NEW t \in Threads, Claimed(t) PROVE HoldingMatches'
  BY <1>0, <1>5, ReturnDoes DEF Claimed, TaskStatus
<1>6. ASSUME NEW t \in Threads, ClaimRaises(t) PROVE HoldingMatches'
  BY <1>0, <1>6, RaisesDoes DEF ClaimRaises, workVars, TaskStatus
<1>7. ASSUME NEW t \in Threads, NEW s \in TaskStatus, BodyReports(t, s) PROVE HoldingMatches'
  BY <1>1, <1>7 DEF BodyReports, Report
<1>8. ASSUME NEW t \in Threads, BodyReturns(t) \/ BodyRaises(t) PROVE HoldingMatches'
  <2>1. CASE \E how : LeaveProcessing(t, how) /\ UNCHANGED <<op, calling>>
    BY <1>2, <1>8, <2>1 DEF BodyReturns, BodyRaises
  <2>2. CASE \E s \in TaskStatus : \E how : Report(t, s, how)
    BY <1>1, <1>8, <2>2 DEF BodyReturns, BodyRaises, Report
  <2> QED
    BY <1>8, <2>1, <2>2, BodyEndsDoes DEF TaskStatus
<1>9. ASSUME NEW t \in Threads, BodyInterrupted(t) PROVE HoldingMatches'
  BY <1>2, <1>9 DEF BodyInterrupted, callVars
<1>10. ASSUME NEW t \in Threads, Reported(t) \/ ReportRaises(t) PROVE HoldingMatches'
  <2>1. /\ pc[t] = "calling" /\ op[t] \in TaskStatus /\ calling' = calling \ {t} /\ op' = op
    BY <1>10, ReturnDoes, RaisesDoes DEF Reported, ReportRaises
  <2>2. PICK how : AfterReport(t, how)
    BY <1>10 DEF Reported, ReportRaises
  <2>3. CASE leaving[t] = "no"
    BY <1>0, <2>1, <2>2, <2>3 DEF AfterReport
  <2>4. CASE leaving[t] # "no"
    BY <1>2, <2>1, <2>2, <2>4 DEF AfterReport
  <2> QED
    BY <2>3, <2>4
<1>11. CASE UNCHANGED <<pc, op, workVars, calling>>
  BY <1>0, <1>11 DEF workVars
<1>12. ASSUME NEW m \in wire, PlatformHandsOut(m) \/ PlatformStores(m)
       PROVE UNCHANGED <<pc, op, workVars, calling>>
  BY <1>12 DEF PlatformHandsOut, PlatformStores, Acknowledge, Call!Accept, callVars
<1>13. ExecutionEnds \/ PlatformErrs \/ Drop \/ Reconnect \/ UNCHANGED vars
       => UNCHANGED <<pc, op, workVars, calling>>
  BY DEF ExecutionEnds, PlatformErrs, Drop, Reconnect, vars, callVars, Call!ErrorReaches
<1> QED
  BY <1>3, <1>4, <1>5, <1>6, <1>7, <1>8, <1>9, <1>10, <1>11, <1>12, <1>13, StepCases

-----------------------------------------------------------------------------
(* What a step does to the calls, the wire and the tasks: a worker begins a call, ends one *)
(* or neither, or the platform serves a request.                                          *)
Begins(t, o) ==
  /\ BeginCall(t, o, IF o = "next" THEN 0 ELSE task[t])
  /\ UNCHANGED <<task, claimer, results, reported>>

Keeps(t) ==
  /\ UNCHANGED <<op, sent, answer, claimer, results>> /\ wire' \subseteq wire
  /\ \A u \in Threads : u # t => task'[u] = task[u]

Ends(t) ==
  /\ pc[t] = "calling" /\ wire' = wire /\ Keeps(t)
  /\ calling' = calling \ {t} /\ accepted' = accepted \ {t}

Rests(t) == t \notin calling /\ Keeps(t) /\ calling' = calling /\ accepted' = accepted

Serves(m) ==
  /\ wire' = wire \ {m} /\ UNCHANGED <<op, task, sent, reported>>
  /\ \E k \in 0..MaxTasks :
       /\ Acknowledge(m, k)
       /\ \/ /\ m.op = "next" /\ k = 0 /\ Pending = {} /\ UNCHANGED <<claimer, results>>
          \/ /\ m.op = "next" /\ k \in Pending /\ results' = results
             /\ claimer' = [claimer EXCEPT ![k] = <<m.thread, m.n>>]
          \/ /\ m.op # "next" /\ k = 0 /\ claimer' = claimer
             /\ results' = [results EXCEPT ![m.task] = @ \cup {m.op}]

LEMMA CallSteps ==
  ASSUME TypeOK, HoldingMatches, [Next]_vars
  PROVE  \/ \E t \in Threads, o \in {"next"} \cup TaskStatus : Begins(t, o)
         \/ \E t \in Threads : Ends(t)
         \/ \E t \in Threads : Rests(t)
         \/ \E m \in wire : Serves(m)
         \/ UNCHANGED <<op, sent, answer, calling, accepted, claimer, results, task>>
            /\ wire' \subseteq wire
<1> DEFINE Goal == \/ \E t \in Threads, o \in {"next"} \cup TaskStatus : Begins(t, o)
                   \/ \E t \in Threads : Ends(t)
                   \/ \E t \in Threads : Rests(t)
                   \/ \E m \in wire : Serves(m)
                   \/ UNCHANGED <<op, sent, answer, calling, accepted, claimer, results, task>>
                      /\ wire' \subseteq wire
<1>0. DOMAIN task = Threads
  BY DEF TypeOK
<1>1. ASSUME NEW t \in Threads, ClaimNext(t) PROVE Goal
  <2>1. CASE running
    <3>1. Begins(t, "next")
      BY <1>1, <2>1 DEF ClaimNext, Begins, workVars, platformVars
    <3> QED
      BY <3>1
  <2>2. CASE ~running
    BY <1>1, <2>2 DEF ClaimNext, workVars, platformVars, callVars, linkVars
  <2> QED
    BY <2>1, <2>2
<1>2. ASSUME NEW t \in Threads, Claimed(t) \/ ClaimRaises(t) \/ Reported(t) \/ ReportRaises(t)
      PROVE Goal
  <2>1. /\ pc[t] = "calling" /\ calling' = calling \ {t} /\ accepted' = accepted \ {t}
    BY <1>2, ReturnDoes, RaisesDoes DEF Claimed, ClaimRaises, Reported, ReportRaises
  <2>2. UNCHANGED <<op, sent, answer, claimer, results, wire>>
    BY <1>2 DEF Claimed, ClaimRaises, Reported, ReportRaises, platformVars, linkVars
  <2>3. \A u \in Threads : u # t => task'[u] = task[u]
    BY <1>0, <1>2
    DEF Claimed, ClaimRaises, Reported, ReportRaises, AfterReport, LeaveProcessing, workVars
  <2>4. Ends(t)
    BY <2>1, <2>2, <2>3 DEF Ends, Keeps
  <2> QED
    BY <2>4
<1>3. ASSUME NEW t \in Threads, NEW s \in TaskStatus, NEW how, Report(t, s, how),
             UNCHANGED <<claimer, results, reported>>
      PROVE Goal
  <2>1. Begins(t, s)
    BY <1>3 DEF Report, Begins, TaskStatus
  <2> QED
    BY <2>1
<1>4. ASSUME NEW t \in Threads, NEW how, pc[t] = "body", LeaveProcessing(t, how),
             UNCHANGED <<op, sent, answer, claimer, results, wire, calling, accepted>>
      PROVE Goal
  <2>1. Rests(t)
    BY <1>0, <1>4 DEF LeaveProcessing, Rests, Keeps, HoldingMatches
  <2> QED
    BY <2>1
<1>5. ASSUME NEW t \in Threads, NEW s \in TaskStatus, BodyReports(t, s) PROVE Goal
  BY <1>3, <1>5 DEF BodyReports, platformVars
<1>6. ASSUME NEW t \in Threads, BodyReturns(t) \/ BodyRaises(t) PROVE Goal
  BY <1>3, <1>4, <1>6, BodyEndsDoes DEF TaskStatus
<1>7. ASSUME NEW t \in Threads, BodyInterrupted(t) PROVE Goal
  BY <1>4, <1>7 DEF BodyInterrupted, callVars, linkVars, platformVars
<1>8. ASSUME NEW m \in wire, PlatformHandsOut(m) PROVE Goal
  <2>1. Serves(m)
    BY <1>8, QueueAssumption DEF PlatformHandsOut, Serves, workVars, Pending, TaskIds
  <2> QED
    BY <2>1
<1>9. ASSUME NEW m \in wire, PlatformStores(m) PROVE Goal
  <2>1. Serves(m)
    BY <1>9, QueueAssumption DEF PlatformStores, Serves, workVars
  <2> QED
    BY <2>1
<1>10. ASSUME \/ \E t \in Threads : ConsumeAgain(t)
              \/ ExecutionEnds \/ PlatformErrs \/ Drop \/ Reconnect \/ UNCHANGED vars
       PROVE Goal
  BY <1>10 DEF ConsumeAgain, ExecutionEnds, PlatformErrs, Drop, Reconnect, vars, callVars, workVars,
     linkVars, platformVars, Call!ErrorReaches
<1> QED
  BY <1>1, <1>2, <1>5, <1>6, <1>7, <1>8, <1>9, <1>10, StepCases

LEMMA RequestsPreserved ==
  TypeOK /\ HoldingMatches /\ RequestsMatch /\ [Next]_vars => RequestsMatch'
<1> SUFFICES ASSUME TypeOK, HoldingMatches, RequestsMatch, [Next]_vars PROVE RequestsMatch'
  OBVIOUS
<1>0. /\ sent \in [Threads -> Nat] /\ DOMAIN op = Threads /\ DOMAIN task = Threads
      /\ accepted \subseteq calling /\ calling \subseteq Threads
      /\ \A m \in wire : m.thread \in Threads /\ m.n \in Nat
  BY QueueAssumption DEF TypeOK, Messages
<1> USE DEF RequestsMatch
<1>1. ASSUME wire' \subseteq wire, sent' = sent, op' = op, calling' \subseteq calling,
             \A u \in calling' : task'[u] = task[u],
             \A m \in wire' : m.thread \in calling' /\ m.n = sent[m.thread] /\ m.thread \in accepted'
                             => m.thread \in accepted
      PROVE RequestsMatch'
  BY <1>0, <1>1
<1>2. ASSUME NEW t \in Threads, NEW o \in {"next"} \cup TaskStatus, Begins(t, o) PROVE RequestsMatch'
  <2> DEFINE k == IF o = "next" THEN 0 ELSE task[t]
             q == [thread |-> t, n |-> sent[t] + 1, op |-> o, task |-> k]
  <2>1. /\ op' = [op EXCEPT ![t] = o] /\ accepted' = accepted /\ t \notin calling /\ task' = task
        /\ \/ /\ sent' = [sent EXCEPT ![t] = @ + 1] /\ wire' = wire \cup {q}
              /\ calling' = calling \cup {t}
           \/ calling' = calling /\ sent' = sent /\ wire' = wire
    BY <1>2, BeginCallDoes DEF Begins
  <2>2. q.thread = t /\ q.n = sent[t] + 1 /\ q.op = o /\ q.task = k
    OBVIOUS
  <2>3. \A m \in wire : ~(m.thread = t /\ m.n = sent[t] + 1)
    BY <1>0
  <2> HIDE DEF q
  <2>4. CASE calling' = calling /\ sent' = sent /\ wire' = wire
    BY <1>0, <2>1, <2>4
  <2>5. CASE /\ sent' = [sent EXCEPT ![t] = @ + 1] /\ wire' = wire \cup {q}
             /\ calling' = calling \cup {t}
    <3>1. \A m, r \in wire' : m.thread = r.thread /\ m.n = r.n => m = r
      BY <2>2, <2>3, <2>5
    <3>2. \A m \in wire' : m.n =< sent'[m.thread]
      BY <1>0, <2>2, <2>5
    <3>3. ASSUME NEW m \in wire', m.thread \in calling', m.n = sent'[m.thread]
          PROVE  /\ m.thread \notin accepted' /\ m.op = op'[m.thread]
                 /\ m.op # "next" => m.task = task'[m.thread]
      <4>1. CASE m = q
        BY <1>0, <2>1, <2>2, <4>1
      <4>2. CASE m \in wire
        <5>1. m.thread # t
          BY <1>0, <2>5, <3>3, <4>2
        <5> QED
          BY <1>0, <2>1, <2>5, <3>3, <4>2, <5>1
      <4> QED
        BY <2>5, <4>1, <4>2
    <3> QED
      BY <3>1, <3>2, <3>3
  <2> QED
    BY <2>1, <2>4, <2>5
<1>3. ASSUME NEW t \in Threads, Ends(t) \/ Rests(t) PROVE RequestsMatch'
  BY <1>0, <1>1, <1>3 DEF Ends, Rests, Keeps
<1>4. ASSUME NEW m \in wire, Serves(m) PROVE RequestsMatch'
  <2>1. PICK k \in 0..MaxTasks : Acknowledge(m, k)
    BY <1>4 DEF Serves
  <2>2. calling' = calling
        /\ \A t \in Threads : (t \in accepted' => t \in accepted) \/ (t = m.thread /\ m.n = sent[t])
    BY <2>1, AcknowledgeDoes
  <2>3. wire' = wire \ {m} /\ sent' = sent /\ op' = op /\ task' = task
    BY <1>4 DEF Serves
  <2>4. \A q \in wire' : ~(q.thread = m.thread /\ q.n = m.n)
    BY <2>3
  <2>5. \A q \in wire' : q.n = sent[q.thread] /\ q.thread \in accepted' => q.thread \in accepted
    BY <1>0, <2>2, <2>3, <2>4
  <2> QED
    BY <1>1, <2>2, <2>3, <2>5
<1> QED
  BY <1>1, <1>2, <1>3, <1>4, CallSteps

-----------------------------------------------------------------------------
(* The platform serves a request once, so no task is handed out twice and no claim gets two. *)
LEMMA ClaimsPreserved ==
  TypeOK /\ HoldingMatches /\ RequestsMatch /\ ClaimsServedOnce /\ [Next]_vars => ClaimsServedOnce'
<1> SUFFICES ASSUME TypeOK, HoldingMatches, RequestsMatch, ClaimsServedOnce, [Next]_vars
             PROVE  ClaimsServedOnce'
  OBVIOUS
<1>0. /\ sent \in [Threads -> Nat]
      /\ \A m \in wire : m.thread \in Threads /\ m.n \in 1..MaxMessages /\ m.n =< sent[m.thread]
      /\ \A k \in TaskIds : claimer[k] # <<>> =>
           /\ claimer[k][1] \in Threads /\ claimer[k][2] \in Nat
           /\ claimer[k] = <<claimer[k][1], claimer[k][2]>>
  BY QueueAssumption DEF TypeOK, Messages, RequestsMatch, ClaimsServedOnce
<1> USE DEF ClaimsServedOnce
<1>1. ASSUME claimer' = claimer, sent' = sent, wire' \subseteq wire PROVE ClaimsServedOnce'
  BY <1>1
<1>2. ASSUME NEW t \in Threads, NEW o \in {"next"} \cup TaskStatus, Begins(t, o)
      PROVE ClaimsServedOnce'
  <2>1. claimer' = claimer
    BY <1>2 DEF Begins
  <2>2. CASE calling' = calling /\ sent' = sent /\ wire' = wire
    BY <1>1, <2>1, <2>2
  <2>3. ASSUME NEW q, sent' = [sent EXCEPT ![t] = @ + 1], wire' = wire \cup {q},
               q.thread = t, q.n = sent[t] + 1
        PROVE ClaimsServedOnce'
    <3>1. \A k \in TaskIds : claimer[k] # <<>> => claimer[k][2] =< sent'[claimer[k][1]]
      BY <1>0, <2>3
    <3>2. \A k \in TaskIds : claimer[k] # <<q.thread, q.n>>
      <4> SUFFICES ASSUME NEW k \in TaskIds, claimer[k] = <<t, sent[t] + 1>> PROVE FALSE
        BY <2>3
      <4>1. claimer[k][1] = t /\ claimer[k][2] = sent[t] + 1 /\ claimer[k] # <<>>
        OBVIOUS
      <4>2. claimer[k][2] =< sent[claimer[k][1]] /\ sent[t] \in Nat
        BY <1>0, <4>1
      <4> QED
        BY <4>1, <4>2
    <3>3. \A m \in wire', k \in TaskIds : claimer[k] # <<m.thread, m.n>>
      BY <2>3, <3>2
    <3> QED
      BY <2>1, <3>1, <3>3
  <2>4. CASE /\ sent' = [sent EXCEPT ![t] = @ + 1]
             /\ wire' = wire \cup {[thread |-> t, n |-> sent[t] + 1, op |-> o,
                                    task |-> IF o = "next" THEN 0 ELSE task[t]]}
    <3> DEFINE q == [thread |-> t, n |-> sent[t] + 1, op |-> o,
                     task |-> IF o = "next" THEN 0 ELSE task[t]]
    <3>1. q.thread = t /\ q.n = sent[t] + 1
      OBVIOUS
    <3>2. wire' = wire \cup {q} /\ sent' = [sent EXCEPT ![t] = @ + 1]
      BY <2>4
    <3> HIDE DEF q
    <3> QED
      BY <2>3, <3>1, <3>2
  <2>5. BeginCall(t, o, IF o = "next" THEN 0 ELSE task[t])
    BY <1>2 DEF Begins
  <2> QED
    BY <2>2, <2>4, <2>5, BeginCallDoes
<1>3. ASSUME NEW m \in wire, Serves(m) PROVE ClaimsServedOnce'
  <2>1. wire' = wire \ {m} /\ sent' = sent
    BY <1>3 DEF Serves
  <2>2. CASE claimer' = claimer
    BY <1>1, <2>1, <2>2
  <2>3. CASE \E k \in Pending : claimer' = [claimer EXCEPT ![k] = <<m.thread, m.n>>]
    <3>1. PICK k \in TaskIds : claimer' = [claimer EXCEPT ![k] = <<m.thread, m.n>>]
      BY <2>3 DEF Pending
    <3>2. claimer' \in [TaskIds -> {<<>>} \cup (Threads \X (1..MaxMessages))]
      BY <1>0, <3>1
    <3>3. /\ claimer'[k] = <<m.thread, m.n>>
          /\ \A j \in TaskIds : j # k => claimer'[j] = claimer[j]
      BY <3>1
    <3>4. \A j \in TaskIds : claimer'[j] # <<>> => claimer'[j][2] =< sent[claimer'[j][1]]
      BY <1>0, <3>3
    <3>5. \A q \in wire' : <<m.thread, m.n>> # <<q.thread, q.n>>
      BY <2>1 DEF RequestsMatch
    <3>6. \A q \in wire', j \in TaskIds : claimer'[j] # <<q.thread, q.n>>
      BY <2>1, <3>3, <3>5
    <3>7. \A j \in TaskIds : claimer[j] # <<m.thread, m.n>>
      OBVIOUS
    <3>8. \A i, j \in TaskIds : claimer'[i] = claimer'[j] /\ claimer'[j] # <<>> => i = j
      BY <3>3, <3>7
    <3> QED
      BY <2>1, <3>2, <3>4, <3>6, <3>8
  <2> QED
    BY <1>3, <2>2, <2>3 DEF Serves
<1> QED
  BY <1>1, <1>2, <1>3, CallSteps DEF Ends, Rests, Keeps

(* A task that is handed out stays so. *)
LEMMA ClaimsStay ==
  ASSUME TypeOK, HoldingMatches, ClaimsServedOnce, [Next]_vars
  PROVE  /\ \A k \in TaskIds : claimer[k] # <<>> => claimer'[k] = claimer[k]
         /\ Pending' \subseteq Pending
         /\ \A k \in TaskIds : results[k] \subseteq results'[k]
<1>1. ASSUME NEW m \in wire, Serves(m)
      PROVE  /\ \A k \in TaskIds : claimer[k] # <<>> => claimer'[k] = claimer[k]
             /\ \A k \in TaskIds : results[k] \subseteq results'[k]
  <2>1. \A k \in TaskIds : claimer[k] # <<>> => claimer'[k] = claimer[k]
    BY <1>1 DEF Serves, Pending, ClaimsServedOnce
  <2>2. results' = results \/ results' = [results EXCEPT ![m.task] = @ \cup {m.op}]
    BY <1>1 DEF Serves
  <2>3. \A k \in TaskIds : results[k] \subseteq results'[k]
    BY <2>2 DEF TypeOK
  <2> QED
    BY <2>1, <2>3
<1>2. (claimer' = claimer /\ results' = results) \/ \E m \in wire : Serves(m)
  BY CallSteps DEF Begins, Ends, Rests, Keeps
<1>3. /\ \A k \in TaskIds : claimer[k] # <<>> => claimer'[k] = claimer[k]
      /\ \A k \in TaskIds : results[k] \subseteq results'[k]
  BY <1>1, <1>2
<1> QED
  BY <1>3 DEF Pending

(* What an acknowledgement says. *)
AnswersMatch ==
  /\ \A t \in calling, k \in TaskIds :
       op[t] = "next" => (claimer[k] = Request(t) <=> t \in accepted /\ answer[t] = k)
  /\ \A t \in accepted : op[t] = "next" /\ answer[t] = 0 => Pending = {}
  /\ \A t \in accepted : op[t] \in TaskStatus => results[task[t]] # {}

LEMMA AnswersPreserved ==
  /\ TypeOK /\ HoldingMatches /\ RequestsMatch /\ ClaimsServedOnce /\ AnswersMatch /\ [Next]_vars
  => AnswersMatch'
<1> SUFFICES ASSUME TypeOK, HoldingMatches, RequestsMatch, ClaimsServedOnce, AnswersMatch, [Next]_vars
             PROVE  AnswersMatch'
  OBVIOUS
<1>0. /\ sent \in [Threads -> Nat] /\ DOMAIN op = Threads /\ DOMAIN task = Threads
      /\ DOMAIN answer = Threads
      /\ accepted \subseteq calling /\ calling \subseteq Threads
      /\ \A m \in wire : m.thread \in Threads /\ m.n \in Nat
      /\ \A k \in TaskIds : claimer[k] # <<>> =>
           /\ claimer[k][1] \in Threads /\ claimer[k][2] \in Nat
           /\ claimer[k][2] =< sent[claimer[k][1]]
  BY QueueAssumption DEF TypeOK, Messages, ClaimsServedOnce
<1>00. \A t \in calling : op[t] \in TaskStatus => task[t] \in TaskIds
  BY <1>0, HeldIsTask DEF HoldingMatches, Holding
<1> USE DEF AnswersMatch, Request
<1>1. ASSUME UNCHANGED <<op, sent, answer, claimer, results>>,
             calling' \subseteq calling, \A u \in calling' : u \in accepted' <=> u \in accepted,
             accepted' \subseteq accepted, \A u \in calling' : task'[u] = task[u],
             accepted' \subseteq calling'
      PROVE AnswersMatch'
  BY <1>1 DEF Pending
<1>2. ASSUME NEW t \in Threads, NEW o \in {"next"} \cup TaskStatus, Begins(t, o) PROVE AnswersMatch'
  <2>1. /\ op' = [op EXCEPT ![t] = o] /\ answer' = [answer EXCEPT ![t] = 0]
        /\ accepted' = accepted /\ t \notin calling /\ UNCHANGED <<task, claimer, results>>
        /\ \/ calling' = calling \cup {t} /\ sent' = [sent EXCEPT ![t] = @ + 1]
           \/ calling' = calling /\ sent' = sent
    BY <1>2, BeginCallDoes DEF Begins
  <2>2. \A u \in calling : /\ u # t /\ op'[u] = op[u] /\ answer'[u] = answer[u] /\ sent'[u] = sent[u]
    BY <1>0, <2>1
  <2>3. \A k \in TaskIds : claimer[k] # <<t, sent[t] + 1>>
    <3> SUFFICES ASSUME NEW k \in TaskIds, claimer[k] = <<t, sent[t] + 1>> PROVE FALSE
      OBVIOUS
    <3>1. claimer[k][1] = t /\ claimer[k][2] = sent[t] + 1 /\ claimer[k] # <<>>
      OBVIOUS
    <3>2. claimer[k][2] =< sent[claimer[k][1]] /\ sent[t] \in Nat
      BY <1>0, <3>1
    <3> QED
      BY <3>1, <3>2
  <2>4. ASSUME NEW u \in calling', NEW k \in TaskIds, op'[u] = "next"
        PROVE  claimer'[k] = <<u, sent'[u]>> <=> u \in accepted' /\ answer'[u] = k
    <3>1. CASE u \in calling
      BY <2>1, <2>2, <2>4, <3>1
    <3>2. CASE u \notin calling
      <4>1. u = t /\ sent'[t] = sent[t] + 1
        BY <1>0, <2>1, <2>4, <3>2
      <4> QED
        BY <1>0, <2>1, <2>3, <3>2, <4>1
    <3> QED
      BY <3>1, <3>2
  <2>5. \A u \in accepted' : /\ op'[u] = "next" /\ answer'[u] = 0 => Pending' = {}
                             /\ op'[u] \in TaskStatus => results'[task'[u]] # {}
    BY <1>0, <2>1, <2>2 DEF Pending
  <2> QED
    BY <2>4, <2>5
<1>3. ASSUME NEW t \in Threads, Ends(t) \/ Rests(t) PROVE AnswersMatch'
  BY <1>0, <1>1, <1>3 DEF Ends, Rests, Keeps
<1>4. ASSUME NEW m \in wire, Serves(m) PROVE AnswersMatch'
  <2>1. PICK k \in 0..MaxTasks :
          /\ Acknowledge(m, k)
          /\ \/ /\ m.op = "next" /\ k = 0 /\ Pending = {} /\ UNCHANGED <<claimer, results>>
             \/ /\ m.op = "next" /\ k \in Pending /\ results' = results
                /\ claimer' = [claimer EXCEPT ![k] = <<m.thread, m.n>>]
             \/ /\ m.op # "next" /\ k = 0 /\ claimer' = claimer
                /\ results' = [results EXCEPT ![m.task] = @ \cup {m.op}]
    BY <1>4 DEF Serves
  <2>2. UNCHANGED <<op, task, sent>>
    BY <1>4 DEF Serves
  <2>3. /\ calling' = calling /\ accepted \subseteq accepted' /\ accepted' \subseteq calling
        /\ \A t \in Threads :
             \/ answer'[t] = answer[t] /\ (t \in accepted' => t \in accepted)
                /\ ~(t = m.thread /\ t \in calling /\ m.n = sent[t])
             \/ /\ t = m.thread /\ t \in calling /\ m.n = sent[t]
                /\ t \in accepted' /\ answer'[t] = k
    BY <2>1, AcknowledgeDoes
  <2>4. Pending' \subseteq Pending /\ \A j \in TaskIds : results[j] \subseteq results'[j]
    BY ClaimsStay
  <2>5. ASSUME NEW u \in calling, NEW j \in TaskIds, op[u] = "next"
        PROVE  claimer'[j] = <<u, sent[u]>> <=> u \in accepted' /\ answer'[u] = j
    <3>1. CASE u = m.thread /\ m.n = sent[u]
      <4>1. u \in accepted' /\ answer'[u] = k /\ m.op = "next"
        BY <1>0, <2>3, <2>5, <3>1 DEF RequestsMatch
      <4>2. claimer[j] # <<u, sent[u]>>
        BY <3>1 DEF ClaimsServedOnce
      <4>3. CASE k = 0
        BY <2>1, <4>1, <4>2, <4>3, QueueAssumption DEF TaskIds, Pending
      <4>4. CASE k \in Pending /\ claimer' = [claimer EXCEPT ![k] = <<m.thread, m.n>>]
        BY <3>1, <4>1, <4>2, <4>4 DEF Pending, ClaimsServedOnce
      <4> QED
        BY <2>1, <4>1, <4>3, <4>4
    <3>2. CASE ~(u = m.thread /\ m.n = sent[u])
      <4>1. answer'[u] = answer[u] /\ (u \in accepted' <=> u \in accepted)
        BY <1>0, <2>3, <3>2
      <4>2. claimer'[j] = <<u, sent[u]>> <=> claimer[j] = <<u, sent[u]>>
        <5>1. <<m.thread, m.n>> # <<u, sent[u]>> /\ <<>> # <<u, sent[u]>>
          BY <3>2
        <5>2. \/ claimer'[j] = claimer[j]
              \/ claimer'[j] = <<m.thread, m.n>> /\ claimer[j] = <<>>
          BY <2>1 DEF Pending, ClaimsServedOnce
        <5> QED
          BY <5>1, <5>2
      <4> QED
        BY <2>5, <4>1, <4>2
    <3> QED
      BY <3>1, <3>2
  <2>6. ASSUME NEW u \in accepted'
        PROVE  /\ op[u] = "next" /\ answer'[u] = 0 => Pending' = {}
               /\ op[u] \in TaskStatus => results'[task[u]] # {}
    <3>1. CASE u \in accepted /\ answer'[u] = answer[u]
      BY <1>0, <1>00, <2>4, <3>1
    <3>2. CASE u = m.thread /\ u \in calling /\ m.n = sent[u] /\ answer'[u] = k
      <4>1. m.op = op[u] /\ (m.op # "next" => m.task = task[u])
        BY <3>2 DEF RequestsMatch
      <4>2. op[u] = "next" /\ k = 0 => Pending = {}
        BY <2>1, <4>1, QueueAssumption DEF Pending, TaskIds
      <4>3. op[u] \in TaskStatus => results'[task[u]] # {}
        <5>1. SUFFICES ASSUME op[u] \in TaskStatus PROVE results'[task[u]] # {}
          OBVIOUS
        <5>2. m.op # "next" /\ m.task = task[u] /\ task[u] \in TaskIds
          BY <1>00, <3>2, <4>1, <5>1 DEF TaskStatus
        <5>3. results' = [results EXCEPT ![task[u]] = @ \cup {m.op}]
          BY <2>1, <5>2
        <5> QED
          BY <5>2, <5>3 DEF TypeOK
      <4> QED
        BY <2>4, <3>2, <4>2, <4>3
    <3> QED
      BY <1>0, <2>3, <3>1, <3>2
  <2> QED
    BY <2>2, <2>3, <2>5, <2>6
<1> QED
  BY <1>0, <1>1, <1>2, <1>3, <1>4, CallSteps

-----------------------------------------------------------------------------
(* How a worker comes to hold a task, and to know that its outcome is stored. *)
LEMMA TaskSteps ==
  ASSUME TypeOK, [Next]_vars, NEW u \in Threads
  PROVE  \/ task'[u] = task[u] /\ (reported'[u] = reported[u] \/ Reported(u))
         \/ task'[u] = 0
         \/ Claimed(u) /\ task'[u] = answer[u] /\ reported'[u] = FALSE
<1> DEFINE Goal == \/ task'[u] = task[u] /\ (reported'[u] = reported[u] \/ Reported(u))
                   \/ task'[u] = 0
                   \/ Claimed(u) /\ task'[u] = answer[u] /\ reported'[u] = FALSE
<1>0. DOMAIN task = Threads /\ DOMAIN reported = Threads
  BY DEF TypeOK
<1>1. CASE task' = task /\ reported' = reported
  BY <1>1
<1>2. ASSUME NEW t \in Threads, NEW how, LeaveProcessing(t, how), reported' = reported PROVE Goal
  BY <1>0, <1>2 DEF LeaveProcessing
<1>3. ASSUME NEW t \in Threads, Claimed(t) PROVE Goal
  BY <1>0, <1>3 DEF Claimed
<1>4. ASSUME NEW t \in Threads, Reported(t) \/ ReportRaises(t) PROVE Goal
  BY <1>0, <1>4 DEF Reported, ReportRaises, AfterReport, LeaveProcessing
<1>5. ASSUME NEW t \in Threads, BodyReturns(t) \/ BodyRaises(t) PROVE Goal
  <2>1. reported' = reported
    BY <1>5 DEF BodyReturns, BodyRaises
  <2>2. CASE \E how : LeaveProcessing(t, how)
    BY <1>2, <2>1, <2>2
  <2>3. CASE task' = task
    BY <1>1, <2>1, <2>3
  <2> QED
    BY <1>5, <2>2, <2>3, BodyEndsDoes DEF Report
<1>6. ASSUME NEW t \in Threads, BodyInterrupted(t) PROVE Goal
  BY <1>2, <1>6 DEF BodyInterrupted
<1>7. ASSUME NEW t \in Threads, \/ ClaimNext(t) \/ ConsumeAgain(t) \/ ClaimRaises(t)
                               \/ \E s \in TaskStatus : BodyReports(t, s)
      PROVE Goal
  BY <1>1, <1>7 DEF ClaimNext, ConsumeAgain, ClaimRaises, BodyReports, Report, workVars
<1>8. ASSUME NEW m \in wire, PlatformHandsOut(m) \/ PlatformStores(m) PROVE Goal
  BY <1>1, <1>8 DEF PlatformHandsOut, PlatformStores, workVars
<1>9. CASE ExecutionEnds \/ PlatformErrs \/ Drop \/ Reconnect \/ UNCHANGED vars
  BY <1>1, <1>9 DEF ExecutionEnds, PlatformErrs, Drop, Reconnect, vars, workVars
<1> QED
  BY <1>3, <1>4, <1>5, <1>6, <1>7, <1>8, <1>9, StepCases

LEMMA HeldOncePreserved ==
  /\ TypeOK /\ HoldingMatches /\ ClaimsServedOnce /\ AnswersMatch /\ TasksHeldOnce /\ [Next]_vars
  => TasksHeldOnce'
<1> SUFFICES ASSUME TypeOK, HoldingMatches, ClaimsServedOnce, AnswersMatch, TasksHeldOnce,
                    [Next]_vars, NEW u \in Threads, task'[u] # 0
             PROVE  claimer'[task'[u]] # <<>> /\ claimer'[task'[u]][1] = u
  BY DEF TasksHeldOnce
<1>1. CASE task'[u] = task[u]
  <2>1. task[u] \in TaskIds
    BY <1>1, HeldIsTask DEF HoldingMatches
  <2> QED
    BY <1>1, <2>1, ClaimsStay DEF TasksHeldOnce
<1>2. CASE Claimed(u) /\ task'[u] = answer[u]
  <2>1. u \in accepted /\ u \in calling /\ op[u] = "next"
    BY <1>2, ReturnDoes DEF Claimed
  <2>2. answer[u] \in TaskIds
    BY <1>2, QueueAssumption DEF TypeOK, TaskIds
  <2>3. claimer[answer[u]] = <<u, sent[u]>>
    BY <2>1, <2>2 DEF AnswersMatch, Request
  <2>4. claimer[answer[u]] # <<>> /\ claimer[answer[u]][1] = u
    BY <2>3
  <2> QED
    BY <1>2, <2>2, <2>4, ClaimsStay
<1> QED
  BY <1>1, <1>2, TaskSteps

(* `reported` is set only once the platform has stored an outcome. *)
StoredIfReported == \A t \in Threads : reported[t] /\ task[t] # 0 => results[task[t]] # {}

(* An acknowledged report is stored. *)
LEMMA ReportedIsStored ==
  ASSUME TypeOK, HoldingMatches, AnswersMatch, NEW t \in Threads, Reported(t)
  PROVE  task[t] \in TaskIds /\ results[task[t]] # {}
<1>1. pc[t] = "calling" /\ op[t] \in TaskStatus /\ t \in accepted
  BY ReturnDoes DEF Reported
<1> QED
  BY <1>1, HeldIsTask DEF Holding, AnswersMatch

LEMMA StoredPreserved ==
  /\ TypeOK /\ HoldingMatches /\ ClaimsServedOnce /\ AnswersMatch /\ StoredIfReported /\ [Next]_vars
  => StoredIfReported'
<1> SUFFICES ASSUME TypeOK, HoldingMatches, ClaimsServedOnce, AnswersMatch, StoredIfReported,
                    [Next]_vars, NEW u \in Threads, reported'[u], task'[u] # 0
             PROVE  results'[task'[u]] # {}
  BY DEF StoredIfReported
<1>1. CASE task'[u] = task[u] /\ reported'[u] = reported[u]
  <2>1. task[u] \in TaskIds
    BY <1>1, HeldIsTask DEF HoldingMatches
  <2> QED
    BY <1>1, <2>1, ClaimsStay DEF StoredIfReported
<1>2. CASE task'[u] = task[u] /\ Reported(u)
  BY <1>2, ReportedIsStored, ClaimsStay
<1> QED
  BY <1>1, <1>2, TaskSteps

(* processing() is left cleanly only when an outcome is stored. *)
LEMMA CleanPreserved ==
  /\ TypeOK /\ HoldingMatches /\ ClaimsServedOnce /\ AnswersMatch /\ StoredIfReported
  /\ CleanExitsAreStored /\ [Next]_vars
  => CleanExitsAreStored'
<1> SUFFICES ASSUME TypeOK, HoldingMatches, ClaimsServedOnce, AnswersMatch, StoredIfReported,
                    CleanExitsAreStored, [Next]_vars
             PROVE  CleanExitsAreStored'
  OBVIOUS
<1>0. \A k \in clean : k \in TaskIds /\ results[k] # {}
  BY DEF TypeOK, CleanExitsAreStored
<1>1. ASSUME clean' \subseteq clean PROVE CleanExitsAreStored'
  BY <1>0, <1>1, ClaimsStay DEF CleanExitsAreStored
<1>2. ASSUME NEW t \in Threads, NEW how, LeaveProcessing(t, how), task[t] \in TaskIds,
             how = "cleanly" => results[task[t]] # {}
      PROVE CleanExitsAreStored'
  BY <1>0, <1>2, ClaimsStay DEF CleanExitsAreStored, LeaveProcessing
<1>3. ASSUME NEW t \in Threads, BodyReturns(t) \/ BodyRaises(t) \/ BodyInterrupted(t)
      PROVE CleanExitsAreStored'
  <2>1. task[t] \in TaskIds
    BY <1>3, HeldIsTask DEF BodyReturns, BodyRaises, BodyInterrupted, Holding
  <2>2. \/ clean' = clean
        \/ \E how : LeaveProcessing(t, how) /\ (how = "cleanly" => reported[t])
    BY <1>3 DEF BodyReturns, BodyRaises, BodyInterrupted, Report
  <2>3. reported[t] => results[task[t]] # {}
    BY <2>1, QueueAssumption DEF StoredIfReported, TaskIds
  <2> QED
    BY <1>1, <1>2, <2>1, <2>2, <2>3
<1>4. ASSUME NEW t \in Threads, Reported(t) \/ ReportRaises(t) PROVE CleanExitsAreStored'
  <2>1. task[t] \in TaskIds
    <3>1. pc[t] = "calling" /\ op[t] \in TaskStatus
      BY <1>4, RaisesDoes DEF Reported, ReportRaises
    <3> QED
      BY <3>1, HeldIsTask DEF Holding
  <2>2. \/ clean' = clean
        \/ \E how : LeaveProcessing(t, how) /\ (how = "cleanly" => Reported(t))
    BY <1>4 DEF Reported, ReportRaises, AfterReport
  <2> QED
    BY <1>1, <1>2, <2>1, <2>2, ReportedIsStored
<1>5. ASSUME NEW t \in Threads, \/ ClaimNext(t) \/ ConsumeAgain(t) \/ ClaimRaises(t) \/ Claimed(t)
                               \/ \E s \in TaskStatus : BodyReports(t, s)
      PROVE CleanExitsAreStored'
  BY <1>1, <1>5 DEF ClaimNext, ConsumeAgain, ClaimRaises, Claimed, BodyReports, Report, historyVars
<1>6. ASSUME NEW m \in wire, PlatformHandsOut(m) \/ PlatformStores(m) PROVE CleanExitsAreStored'
  BY <1>1, <1>6 DEF PlatformHandsOut, PlatformStores, historyVars
<1>7. CASE ExecutionEnds \/ PlatformErrs \/ Drop \/ Reconnect \/ UNCHANGED vars
  BY <1>1, <1>7 DEF ExecutionEnds, PlatformErrs, Drop, Reconnect, vars, historyVars
<1> QED
  BY <1>3, <1>4, <1>5, <1>6, <1>7, StepCases

(* consume() ends by itself only on an answer that says that the queue is empty. *)
LEMMA DrainedPreserved ==
  /\ TypeOK /\ HoldingMatches /\ ClaimsServedOnce /\ AnswersMatch /\ DrainedMeansEmpty /\ [Next]_vars
  => DrainedMeansEmpty'
<1> SUFFICES ASSUME TypeOK, HoldingMatches, ClaimsServedOnce, AnswersMatch, DrainedMeansEmpty,
                    [Next]_vars, NEW u \in Threads, pc'[u] = "drained"
             PROVE  Pending' = {}
  BY DEF DrainedMeansEmpty
<1>0. DOMAIN pc = Threads
  BY DEF TypeOK
<1>1. \/ pc[u] = "drained"
      \/ \E t \in Threads : Claimed(t) /\ answer[t] = 0
  <2>1. ASSUME NEW t \in Threads, BodyReturns(t) \/ BodyRaises(t) \/ BodyInterrupted(t)
                                 \/ Reported(t) \/ ReportRaises(t)
        PROVE pc'[u] = pc[u]
    BY <1>0, <2>1 DEF BodyReturns, BodyRaises, BodyInterrupted, Report, BeginCall, Reported,
       ReportRaises, AfterReport, LeaveProcessing
  <2>2. ASSUME NEW t \in Threads, \/ ClaimNext(t) \/ ConsumeAgain(t) \/ ClaimRaises(t)
                                 \/ \E s \in TaskStatus : BodyReports(t, s)
        PROVE pc'[u] = pc[u]
    BY <1>0, <2>2 DEF ClaimNext, ConsumeAgain, ClaimRaises, BodyReports, Report, BeginCall
  <2>3. ASSUME NEW t \in Threads, Claimed(t) PROVE pc'[u] = pc[u] \/ answer[t] = 0
    <3>1. pc' = [pc EXCEPT ![t] = IF answer[t] = 0 THEN "drained" ELSE "body"]
      BY <2>3 DEF Claimed
    <3>2. CASE u # t
      BY <1>0, <3>1, <3>2
    <3>3. CASE u = t
      BY <1>0, <3>1, <3>3
    <3> QED
      BY <3>2, <3>3
  <2>4. ASSUME NEW m \in wire, PlatformHandsOut(m) \/ PlatformStores(m) PROVE pc' = pc
    BY <2>4 DEF PlatformHandsOut, PlatformStores
  <2>5. ExecutionEnds \/ PlatformErrs \/ Drop \/ Reconnect \/ UNCHANGED vars => pc' = pc
    BY DEF ExecutionEnds, PlatformErrs, Drop, Reconnect, vars
  <2> QED
    BY <2>1, <2>2, <2>3, <2>4, <2>5, StepCases
<1>2. ASSUME NEW t \in Threads, Claimed(t), answer[t] = 0 PROVE Pending = {}
  BY <1>2, ReturnDoes DEF Claimed, AnswersMatch
<1> QED
  BY <1>1, <1>2, ClaimsStay DEF DrainedMeansEmpty

-----------------------------------------------------------------------------
(* The end of a body settles the fate of the task its worker holds, and only that. *)
LEMMA FateSteps ==
  ASSUME [Next]_vars
  PROVE  \/ fate' = fate
         \/ \E t \in Threads, f \in {"returned", "raised"} :
              /\ BodyReturns(t) \/ BodyRaises(t)
              /\ pc[t] = "body" /\ fate' = [fate EXCEPT ![task[t]] = f]
<1> DEFINE Settles(t, f) == /\ BodyReturns(t) \/ BodyRaises(t)
                            /\ pc[t] = "body" /\ fate' = [fate EXCEPT ![task[t]] = f]
<1>1. ASSUME NEW t \in Threads, BodyReturns(t) \/ BodyRaises(t)
      PROVE \E f \in {"returned", "raised"} : Settles(t, f)
  <2>1. \E f \in {"returned", "raised"} : pc[t] = "body" /\ fate' = [fate EXCEPT ![task[t]] = f]
    BY <1>1 DEF BodyReturns, BodyRaises
  <2> QED
    BY <1>1, <2>1, Zenon
<1>2. ASSUME NEW t \in Threads, \/ ClaimNext(t) \/ ConsumeAgain(t) \/ ClaimRaises(t) \/ Claimed(t)
                               \/ BodyInterrupted(t) \/ Reported(t) \/ ReportRaises(t)
      PROVE fate' = fate
  BY <1>2 DEF ClaimNext, ConsumeAgain, ClaimRaises, Claimed, BodyInterrupted, Reported, ReportRaises,
     historyVars
<1>3. ASSUME NEW t \in Threads, NEW s \in TaskStatus, BodyReports(t, s) PROVE fate' = fate
  BY <1>3 DEF BodyReports
<1>4. ASSUME NEW m \in wire, PlatformHandsOut(m) \/ PlatformStores(m) PROVE fate' = fate
  BY <1>4 DEF PlatformHandsOut, PlatformStores, historyVars
<1>5. ExecutionEnds \/ PlatformErrs \/ Drop \/ Reconnect \/ UNCHANGED vars => fate' = fate
  BY DEF ExecutionEnds, PlatformErrs, Drop, Reconnect, vars, historyVars
<1>6. ASSUME fate' # fate PROVE \E t \in Threads : BodyReturns(t) \/ BodyRaises(t)
  BY <1>2, <1>3, <1>4, <1>5, <1>6, StepCases
<1>7. ASSUME fate' # fate PROVE \E t \in Threads, f \in {"returned", "raised"} : Settles(t, f)
  <2>1. PICK t \in Threads : BodyReturns(t) \/ BodyRaises(t)
    BY <1>6, <1>7
  <2>2. PICK f \in {"returned", "raised"} : Settles(t, f)
    BY <1>1, <2>1
  <2> HIDE DEF Settles
  <2> QED
    BY <2>2
<1> QED
  BY <1>7

LEMMA LeavingSteps ==
  ASSUME TypeOK, HoldingMatches, [Next]_vars, NEW u \in Threads, leaving'[u] = "no", task'[u] # 0
  PROVE  leaving[u] = "no" /\ ~BodyReturns(u) /\ ~BodyRaises(u)
<1>0. DOMAIN leaving = Threads /\ DOMAIN task = Threads
  BY DEF TypeOK
<1>1. ~BodyReturns(u) /\ ~BodyRaises(u)
  BY <1>0 DEF BodyReturns, BodyRaises, Report, LeaveProcessing
<1>2. ASSUME leaving' = leaving PROVE leaving[u] = "no"
  BY <1>2
<1>3. ASSUME NEW t \in Threads, NEW how, LeaveProcessing(t, how) PROVE leaving[u] = "no"
  BY <1>0, <1>3 DEF LeaveProcessing
<1>4. ASSUME NEW t \in Threads, pc[t] = "body", NEW how, leaving' = [leaving EXCEPT ![t] = how]
      PROVE leaving[u] = "no"
  BY <1>0, <1>4 DEF HoldingMatches
<1>5. ASSUME NEW t \in Threads, \/ BodyReturns(t) \/ BodyRaises(t) \/ BodyInterrupted(t)
                               \/ \E s \in TaskStatus : BodyReports(t, s)
      PROVE leaving[u] = "no"
  BY <1>3, <1>4, <1>5 DEF BodyReturns, BodyRaises, BodyInterrupted, BodyReports, Report
<1>6. ASSUME NEW t \in Threads, Reported(t) \/ ReportRaises(t) PROVE leaving[u] = "no"
  BY <1>2, <1>3, <1>6 DEF Reported, ReportRaises, AfterReport
<1>7. ASSUME NEW t \in Threads, ClaimNext(t) \/ ConsumeAgain(t) \/ ClaimRaises(t) \/ Claimed(t)
      PROVE leaving[u] = "no"
  BY <1>2, <1>7 DEF ClaimNext, ConsumeAgain, ClaimRaises, Claimed, workVars
<1>8. ASSUME NEW m \in wire, PlatformHandsOut(m) \/ PlatformStores(m) PROVE leaving[u] = "no"
  BY <1>2, <1>8 DEF PlatformHandsOut, PlatformStores, workVars
<1>9. CASE ExecutionEnds \/ PlatformErrs \/ Drop \/ Reconnect \/ UNCHANGED vars
  BY <1>1, <1>2, <1>9 DEF ExecutionEnds, PlatformErrs, Drop, Reconnect, vars, workVars
<1> QED
  BY <1>1, <1>5, <1>6, <1>7, <1>8, <1>9, StepCases

(* A claim that is or will be answered with task k. *)
LEMMA ClaimSteps ==
  ASSUME TypeOK, HoldingMatches, ClaimsServedOnce, AnswersMatch, AnswersMatch', [Next]_vars,
         NEW u \in calling', NEW k \in TaskIds, op'[u] = "next", claimer'[k] = Request(u)'
  PROVE  claimer[k] = <<>> \/ (u \in calling /\ op[u] = "next" /\ claimer[k] = Request(u))
<1>0. u \in accepted' /\ calling \subseteq Threads /\ accepted \subseteq calling
      /\ DOMAIN op = Threads /\ DOMAIN sent = Threads
  BY DEF AnswersMatch, TypeOK
<1> USE DEF Request
<1>1. ASSUME NEW t \in Threads, NEW o \in {"next"} \cup TaskStatus, Begins(t, o)
      PROVE u \in calling /\ op[u] = "next" /\ claimer[k] = Request(u)
  <2>1. /\ op' = [op EXCEPT ![t] = o] /\ accepted' = accepted /\ t \notin calling /\ claimer' = claimer
        /\ (sent' = [sent EXCEPT ![t] = @ + 1] \/ sent' = sent)
    BY <1>1, BeginCallDoes DEF Begins
  <2>2. u \in calling /\ u # t
    BY <1>0, <2>1
  <2> QED
    BY <1>0, <2>1, <2>2
<1>2. ASSUME calling' \subseteq calling, op' = op, sent' = sent, claimer' = claimer
      PROVE u \in calling /\ op[u] = "next" /\ claimer[k] = Request(u)
  BY <1>2
<1>3. ASSUME NEW m \in wire, Serves(m)
      PROVE claimer[k] = <<>> \/ (u \in calling /\ op[u] = "next" /\ claimer[k] = Request(u))
  <2>1. calling' = calling /\ op' = op /\ sent' = sent
    BY <1>3, AcknowledgeDoes DEF Serves
  <2> QED
    BY <2>1, ClaimsStay
<1> QED
  BY <1>1, <1>2, <1>3, CallSteps DEF Ends, Rests, Keeps

LEMMA FatePreserved ==
  /\ TypeOK /\ HoldingMatches /\ ClaimsServedOnce /\ AnswersMatch /\ AnswersMatch' /\ TasksHeldOnce
  /\ FateIsOpen /\ [Next]_vars
  => FateIsOpen'
<1> SUFFICES ASSUME TypeOK, HoldingMatches, ClaimsServedOnce, AnswersMatch, AnswersMatch',
                    TasksHeldOnce, FateIsOpen, [Next]_vars
             PROVE  FateIsOpen'
  OBVIOUS
<1>0. DOMAIN fate = TaskIds /\ \A t \in Threads : task[t] # 0 => task[t] \in TaskIds
  BY HeldIsTask DEF TypeOK, HoldingMatches
<1>1. ASSUME NEW k \in TaskIds, fate[k] = "running", fate'[k] # "running"
      PROVE  \E t \in Threads : /\ BodyReturns(t) \/ BodyRaises(t)
                                /\ pc[t] = "body" /\ task[t] = k
  BY <1>0, <1>1, FateSteps
<1>2. ASSUME NEW u \in Threads, task'[u] # 0, leaving'[u] = "no" PROVE fate'[task'[u]] = "running"
  <2>1. CASE task'[u] = task[u]
    <3>1. task[u] \in TaskIds /\ fate[task[u]] = "running"
      BY <1>0, <1>2, <2>1, LeavingSteps DEF FateIsOpen
    <3>2. ASSUME NEW t \in Threads, BodyReturns(t) \/ BodyRaises(t), task[t] = task[u] PROVE FALSE
      <4>1. t = u
        BY <1>2, <2>1, <3>2 DEF TasksHeldOnce
      <4>2. BodyReturns(u) \/ BodyRaises(u)
        BY <3>2, <4>1, Zenon
      <4> QED
        BY <1>2, <4>2, LeavingSteps
    <3> QED
      BY <1>1, <2>1, <3>1, <3>2
  <2>2. CASE Claimed(u) /\ task'[u] = answer[u]
    <3>1. u \in accepted /\ u \in calling /\ op[u] = "next" /\ pc[u] = "calling"
      BY <2>2, ReturnDoes DEF Claimed
    <3>2. answer[u] \in TaskIds
      BY <1>2, <2>2, QueueAssumption DEF TypeOK, TaskIds
    <3>3. claimer[answer[u]] = <<u, sent[u]>> /\ fate[answer[u]] = "running"
      BY <3>1, <3>2 DEF AnswersMatch, FateIsOpen, Request
    <3>4. fate' = fate
      BY <2>2 DEF Claimed, historyVars
    <3> QED
      BY <2>2, <3>3, <3>4
  <2> QED
    BY <1>2, <2>1, <2>2, TaskSteps
<1>3. ASSUME NEW k \in TaskIds, claimer'[k] = <<>> PROVE fate'[k] = "running"
  <2>1. claimer[k] = <<>>
    BY <1>3, ClaimsStay
  <2>2. fate[k] = "running"
    BY <2>1 DEF FateIsOpen
  <2>3. ASSUME NEW t \in Threads, pc[t] = "body", task[t] = k PROVE FALSE
    BY <2>1, <2>3 DEF TasksHeldOnce, HoldingMatches, Holding
  <2> QED
    BY <1>1, <2>2, <2>3
<1>4. ASSUME NEW u \in calling', NEW k \in TaskIds, op'[u] = "next", claimer'[k] = Request(u)'
      PROVE fate'[k] = "running"
  <2>1. claimer[k] = <<>> \/ (u \in calling /\ op[u] = "next" /\ claimer[k] = Request(u))
    BY <1>4, ClaimSteps
  <2>2. fate[k] = "running"
    BY <2>1 DEF FateIsOpen
  <2>3. ASSUME NEW t \in Threads, pc[t] = "body", task[t] = k PROVE FALSE
    <3>1. claimer[k] # <<>> /\ claimer[k][1] = t
      BY <2>3 DEF TasksHeldOnce, HoldingMatches, Holding
    <3>2. u \in calling /\ claimer[k] = <<u, sent[u]>>
      BY <2>1, <3>1 DEF Request
    <3>3. u = t
      BY <3>1, <3>2
    <3> QED
      BY <2>3, <3>2, <3>3 DEF HoldingMatches
  <2> QED
    BY <1>1, <2>2, <2>3
<1> QED
  BY <1>2, <1>3, <1>4 DEF FateIsOpen

-----------------------------------------------------------------------------
(* A body may add to what it says of its task, and its end settles what was open. *)
LEMMA SaidGrows ==
  ASSUME TypeOK, HoldingMatches, FateIsOpen, [Next]_vars, NEW k \in TaskIds
  PROVE  Said(k) \subseteq Said(k)'
<1>1. told[k] \subseteq told'[k]
  <2>1. ASSUME NEW t \in Threads, NEW s \in TaskStatus, BodyReports(t, s)
        PROVE told[k] \subseteq told'[k]
    BY <2>1 DEF BodyReports, TypeOK
  <2>2. ASSUME NEW t \in Threads, \/ ClaimNext(t) \/ ConsumeAgain(t) \/ ClaimRaises(t) \/ Claimed(t)
                                 \/ BodyReturns(t) \/ BodyRaises(t) \/ BodyInterrupted(t)
                                 \/ Reported(t) \/ ReportRaises(t)
        PROVE told' = told
    BY <2>2 DEF ClaimNext, ConsumeAgain, ClaimRaises, Claimed, BodyReturns, BodyRaises,
       BodyInterrupted, Reported, ReportRaises, historyVars
  <2>3. ASSUME NEW m \in wire, PlatformHandsOut(m) \/ PlatformStores(m) PROVE told' = told
    BY <2>3 DEF PlatformHandsOut, PlatformStores, historyVars
  <2>4. ExecutionEnds \/ PlatformErrs \/ Drop \/ Reconnect \/ UNCHANGED vars => told' = told
    BY DEF ExecutionEnds, PlatformErrs, Drop, Reconnect, vars, historyVars
  <2> QED
    BY <2>1, <2>2, <2>3, <2>4, StepCases
<1>2. fate'[k] = fate[k] \/ fate[k] = "running"
  <2>1. ASSUME NEW t \in Threads, pc[t] = "body" PROVE task[t] # 0 /\ fate[task[t]] = "running"
    BY <2>1 DEF HoldingMatches, Holding, FateIsOpen
  <2>2. ASSUME NEW t \in Threads, NEW f, pc[t] = "body", fate' = [fate EXCEPT ![task[t]] = f]
        PROVE fate'[k] = fate[k] \/ fate[k] = "running"
    BY <2>1, <2>2 DEF TypeOK
  <2> QED
    BY <2>2, FateSteps
<1> QED
  BY <1>1, <1>2 DEF Said

(* A report that is sent says what the body says, or how it has just ended. *)
LEMMA ReportsSent ==
  ASSUME TypeOK, HoldingMatches, [Next]_vars, NEW m \in wire', m \notin wire, m.op # "next"
  PROVE  m.op \in Said(m.task)'
<1>0. DOMAIN told = TaskIds /\ DOMAIN fate = TaskIds
  BY DEF TypeOK
<1>1. ASSUME NEW t \in Threads, NEW s \in TaskStatus, NEW how, Report(t, s, how)
      PROVE m.op = s /\ m.task = task[t]
  <2>1. BeginCall(t, s, task[t])
    BY <1>1 DEF Report
  <2>2. wire' = wire \cup {[thread |-> t, n |-> sent[t] + 1, op |-> s, task |-> task[t]]}
    BY <2>1 DEF BeginCall
  <2>3. m = [thread |-> t, n |-> sent[t] + 1, op |-> s, task |-> task[t]]
    BY <2>2
  <2> QED
    BY <2>3
<1>2. ASSUME NEW t \in Threads, NEW s \in TaskStatus, BodyReports(t, s) PROVE m.op \in Said(m.task)'
  <2>1. m.op = s /\ m.task = task[t]
    BY <1>1, <1>2 DEF BodyReports
  <2>2. task[t] \in TaskIds
    BY <1>2, HeldIsTask DEF BodyReports, Holding
  <2>3. s \in told'[task[t]]
    BY <1>0, <1>2, <2>2 DEF BodyReports
  <2> QED
    BY <2>1, <2>3 DEF Said
<1>3. ASSUME NEW t \in Threads, BodyReturns(t) \/ BodyRaises(t) PROVE m.op \in Said(m.task)'
  <2>1. task[t] \in TaskIds
    BY <1>3, HeldIsTask DEF BodyReturns, BodyRaises, Holding
  <2>2. \/ \E how : Report(t, "success", how) /\ fate'[task[t]] = "returned"
        \/ \E how : Report(t, "failure", how) /\ fate'[task[t]] = "raised"
    BY <1>0, <1>3, <2>1 DEF BodyReturns, BodyRaises, linkVars
  <2>3. \/ m.op = "success" /\ m.task = task[t] /\ fate'[task[t]] = "returned"
        \/ m.op = "failure" /\ m.task = task[t] /\ fate'[task[t]] = "raised"
    BY <1>1, <2>2 DEF TaskStatus
  <2> QED
    BY <2>3 DEF Said
<1>4. ASSUME NEW t \in Threads, ClaimNext(t) PROVE FALSE
  <2>1. CASE running
    <3>1. wire' = wire \/ wire' = wire \cup {[thread |-> t, n |-> sent[t] + 1, op |-> "next", task |-> 0]}
      BY <1>4, <2>1 DEF ClaimNext, BeginCall
    <3>2. m = [thread |-> t, n |-> sent[t] + 1, op |-> "next", task |-> 0]
      BY <3>1
    <3> QED
      BY <3>2
  <2>2. CASE ~running
    BY <1>4, <2>2 DEF ClaimNext, linkVars
  <2> QED
    BY <2>1, <2>2
<1>5. ASSUME NEW t \in Threads, \/ ConsumeAgain(t) \/ ClaimRaises(t) \/ Claimed(t)
                               \/ BodyInterrupted(t) \/ Reported(t) \/ ReportRaises(t)
      PROVE FALSE
  BY <1>5 DEF ConsumeAgain, ClaimRaises, Claimed, BodyInterrupted, Reported, ReportRaises, linkVars
<1>6. ASSUME NEW q \in wire, PlatformHandsOut(q) \/ PlatformStores(q) PROVE FALSE
  BY <1>6 DEF PlatformHandsOut, PlatformStores
<1>7. ~(ExecutionEnds \/ PlatformErrs \/ Drop \/ Reconnect \/ UNCHANGED vars)
  BY DEF ExecutionEnds, PlatformErrs, Drop, Reconnect, vars, linkVars
<1> QED
  BY <1>2, <1>3, <1>4, <1>5, <1>6, <1>7, StepCases

LEMMA ReportsPreserved ==
  TypeOK /\ HoldingMatches /\ FateIsOpen /\ ReportsTellFate /\ [Next]_vars => ReportsTellFate'
<1> SUFFICES ASSUME TypeOK, HoldingMatches, FateIsOpen, ReportsTellFate, [Next]_vars,
                    NEW m \in wire', m.op # "next", m.task # 0
             PROVE  m.op \in Said(m.task)'
  BY DEF ReportsTellFate
<1>1. CASE m \in wire
  <2>1. m.task \in TaskIds
    BY <1>1, QueueAssumption DEF TypeOK, Messages, TaskIds
  <2>2. Said(m.task) \subseteq Said(m.task)'
    BY <2>1, SaidGrows
  <2> QED
    BY <1>1, <2>2 DEF ReportsTellFate
<1> QED
  BY <1>1, ReportsSent

LEMMA OutcomesPreserved ==
  /\ TypeOK /\ HoldingMatches /\ FateIsOpen /\ ReportsTellFate /\ OutcomesTellFate /\ [Next]_vars
  => OutcomesTellFate'
<1> SUFFICES ASSUME TypeOK, HoldingMatches, FateIsOpen, ReportsTellFate, OutcomesTellFate,
                    [Next]_vars, NEW k \in TaskIds
             PROVE  results'[k] \subseteq Said(k)'
  BY DEF OutcomesTellFate, TaskIds
<1>1. results'[k] \subseteq Said(k)
  <2>1. CASE results' = results
    BY <2>1 DEF OutcomesTellFate
  <2>2. ASSUME NEW m \in wire, m.op # "next", results' = [results EXCEPT ![m.task] = @ \cup {m.op}]
        PROVE results'[k] \subseteq Said(k)
    <3>1. k # 0
      BY QueueAssumption DEF TaskIds
    <3>2. m.task = k => m.op \in Said(k)
      BY <2>2, <3>1 DEF ReportsTellFate
    <3>3. results'[k] = results[k] \/ (m.task = k /\ results'[k] = results[k] \cup {m.op})
      BY <2>2 DEF TypeOK
    <3> QED
      BY <3>2, <3>3 DEF OutcomesTellFate
  <2> QED
    BY <2>1, <2>2, CallSteps DEF Begins, Ends, Rests, Keeps, Serves
<1> QED
  BY <1>1, SaidGrows

-----------------------------------------------------------------------------
(* What an exception has told the program stays told. *)
LEMMA SurfacedGrows == ASSUME [Next]_vars PROVE surfaced \subseteq surfaced'
<1>1. ASSUME NEW t \in Threads, \/ BodyReturns(t) \/ BodyRaises(t) \/ BodyInterrupted(t)
                               \/ Reported(t) \/ ReportRaises(t)
      PROVE surfaced \subseteq surfaced'
  BY <1>1 DEF BodyReturns, BodyRaises, BodyInterrupted, Reported, ReportRaises, AfterReport,
     LeaveProcessing, Report
<1>2. ASSUME NEW t \in Threads, NEW s \in TaskStatus, BodyReports(t, s)
      PROVE surfaced \subseteq surfaced'
  BY <1>2 DEF BodyReports, Report
<1>3. ASSUME NEW t \in Threads, ClaimNext(t) \/ ConsumeAgain(t) \/ Claimed(t) \/ ClaimRaises(t)
      PROVE surfaced \subseteq surfaced'
  BY <1>3 DEF ClaimNext, ConsumeAgain, Claimed, ClaimRaises, historyVars
<1>4. ASSUME NEW m \in wire, PlatformHandsOut(m) \/ PlatformStores(m) PROVE surfaced' = surfaced
  BY <1>4 DEF PlatformHandsOut, PlatformStores, historyVars
<1>5. ExecutionEnds \/ PlatformErrs \/ Drop \/ Reconnect \/ UNCHANGED vars => surfaced' = surfaced
  BY DEF ExecutionEnds, PlatformErrs, Drop, Reconnect, vars, historyVars
<1> QED
  BY <1>1, <1>2, <1>3, <1>4, <1>5, StepCases

(* A worker that waits for its claim goes on waiting until the claim ends. *)
LEMMA WaitingSteps ==
  ASSUME TypeOK, [Next]_vars, NEW u \in Threads, Claiming(u)
  PROVE  \/ Claimed(u) \/ ClaimRaises(u)
         \/ pc'[u] = "calling" /\ op'[u] = "next" /\ sent'[u] = sent[u]
<1> DEFINE Waits == pc'[u] = "calling" /\ op'[u] = "next" /\ sent'[u] = sent[u]
<1>0. DOMAIN pc = Threads /\ DOMAIN op = Threads /\ DOMAIN sent = Threads
  BY DEF TypeOK
<1> USE DEF Claiming
<1>1. ASSUME NEW t \in Threads, NEW o, NEW k, BeginCall(t, o, k), t # u PROVE Waits
  BY <1>0, <1>1 DEF BeginCall
<1>2. ASSUME NEW t \in Threads, NEW how, LeaveProcessing(t, how), t # u, UNCHANGED <<op, sent>>
      PROVE Waits
  BY <1>0, <1>2 DEF LeaveProcessing
<1>3. ASSUME NEW t \in Threads, NEW s \in TaskStatus, BodyReports(t, s) PROVE Waits
  <2>1. BeginCall(t, s, task[t]) /\ t # u
    BY <1>3 DEF BodyReports, Report
  <2> QED
    BY <1>1, <2>1
<1>4. ASSUME NEW t \in Threads, BodyReturns(t) \/ BodyRaises(t) PROVE Waits
  <2>1. \/ \E how : LeaveProcessing(t, how) /\ UNCHANGED <<op, sent>>
        \/ \E s, k : BeginCall(t, s, k)
    BY <1>4 DEF BodyReturns, BodyRaises, Report
  <2>2. t # u
    BY <1>4 DEF BodyReturns, BodyRaises
  <2> QED
    BY <1>1, <1>2, <2>1, <2>2
<1>5. ASSUME NEW t \in Threads, BodyInterrupted(t) PROVE Waits
  <2>1. t # u
    BY <1>5 DEF BodyInterrupted
  <2> QED
    BY <1>2, <1>5, <2>1 DEF BodyInterrupted
<1>6. ASSUME NEW t \in Threads, Reported(t) \/ ReportRaises(t) PROVE Waits
  <2>1. t # u
    BY <1>6 DEF Reported, ReportRaises, TaskStatus
  <2> QED
    BY <1>0, <1>6, <2>1 DEF Reported, ReportRaises, AfterReport, LeaveProcessing
<1>7. ASSUME NEW t \in Threads, t # u, ClaimRaises(t) \/ Claimed(t) PROVE Waits
  BY <1>0, <1>7 DEF ClaimRaises, Claimed
<1>8. ASSUME NEW t \in Threads, ClaimNext(t) \/ ConsumeAgain(t) PROVE Waits
  <2>1. t # u
    BY <1>8 DEF ClaimNext, ConsumeAgain
  <2>2. \/ BeginCall(t, "next", 0)
        \/ pc' = [pc EXCEPT ![t] = "idle"] /\ UNCHANGED <<op, sent>>
        \/ pc' = [pc EXCEPT ![t] = "consuming"] /\ UNCHANGED <<op, sent>>
    BY <1>8 DEF ClaimNext, ConsumeAgain
  <2> QED
    BY <1>0, <1>1, <2>1, <2>2
<1>9. ASSUME NEW m \in wire, PlatformHandsOut(m) \/ PlatformStores(m) PROVE Waits
  BY <1>9 DEF PlatformHandsOut, PlatformStores
<1>10. ExecutionEnds \/ PlatformErrs \/ Drop \/ Reconnect \/ UNCHANGED vars => Waits
  BY DEF ExecutionEnds, PlatformErrs, Drop, Reconnect, vars
<1>11. Waits \/ Claimed(u) \/ ClaimRaises(u)
  <2> HIDE DEF Waits
  <2> QED
    BY <1>3, <1>4, <1>5, <1>6, <1>7, <1>8, <1>9, <1>10, StepCases
<1> QED
  BY <1>11

(* A worker that lets go of its task has left processing(). *)
LEMMA LettingGo ==
  ASSUME TypeOK, HoldingMatches, [Next]_vars, NEW u \in Threads, task[u] # 0, task'[u] # task[u]
  PROVE  task[u] \in clean' \/ <<"task", task[u]>> \in surfaced'
<1>0. DOMAIN task = Threads
  BY DEF TypeOK
<1>1. ASSUME NEW t \in Threads, NEW how, LeaveProcessing(t, how)
      PROVE task[u] \in clean' \/ <<"task", task[u]>> \in surfaced'
  BY <1>0, <1>1 DEF LeaveProcessing
<1>2. ASSUME NEW t \in Threads, BodyReturns(t) \/ BodyRaises(t) \/ BodyInterrupted(t)
      PROVE \E how : LeaveProcessing(t, how)
  BY <1>2 DEF BodyReturns, BodyRaises, BodyInterrupted, Report
<1>3. ASSUME NEW t \in Threads, Reported(t) \/ ReportRaises(t)
      PROVE \E how : LeaveProcessing(t, how)
  BY <1>3 DEF Reported, ReportRaises, AfterReport
<1>4. ASSUME NEW t \in Threads, Claimed(t) PROVE FALSE
  BY <1>0, <1>4 DEF Claimed, HoldingMatches, Holding, TaskStatus
<1>5. ASSUME NEW t \in Threads, NEW s \in TaskStatus, BodyReports(t, s) PROVE FALSE
  BY <1>5 DEF BodyReports, Report
<1>6. ASSUME NEW t \in Threads, ClaimNext(t) \/ ConsumeAgain(t) \/ ClaimRaises(t) PROVE FALSE
  BY <1>6 DEF ClaimNext, ConsumeAgain, ClaimRaises, workVars
<1>7. ASSUME NEW m \in wire, PlatformHandsOut(m) \/ PlatformStores(m) PROVE FALSE
  BY <1>7 DEF PlatformHandsOut, PlatformStores, workVars
<1>8. ~(ExecutionEnds \/ PlatformErrs \/ Drop \/ Reconnect \/ UNCHANGED vars)
  BY DEF ExecutionEnds, PlatformErrs, Drop, Reconnect, vars, workVars
<1>9. PICK t \in Threads : \E how : LeaveProcessing(t, how)
  BY <1>2, <1>3, <1>4, <1>5, <1>6, <1>7, <1>8, StepCases
<1> QED
  BY <1>1, <1>9

(* A call is over only when its worker has seen it end. *)
LEMMA CallingSteps ==
  ASSUME TypeOK, [Next]_vars, NEW u \in calling
  PROVE  u \in calling' \/ CallEnds(u)
<1>1. ASSUME NEW t \in Threads, CallEnds(t) PROVE u \in calling' \/ CallEnds(u)
  <2>1. calling' = calling \ {t}
    BY <1>1, ReturnDoes, RaisesDoes DEF CallEnds, Claimed, ClaimRaises, Reported, ReportRaises
  <2>2. CASE u = t
    <3>1. CallEnds(u)
      BY <1>1, <2>2, Zenon
    <3> QED
      BY <3>1
  <2> QED
    BY <2>1, <2>2
<1>2. ASSUME NEW o, NEW k, NEW t, BeginCall(t, o, k) PROVE u \in calling'
  BY <1>2 DEF BeginCall, Call!Enter, Call!Refuse
<1>3. ASSUME NEW t \in Threads, ClaimNext(t) \/ ConsumeAgain(t) PROVE u \in calling'
  BY <1>2, <1>3 DEF ClaimNext, ConsumeAgain, callVars
<1>4. ASSUME NEW t \in Threads, NEW s \in TaskStatus, BodyReports(t, s) PROVE u \in calling'
  BY <1>2, <1>4 DEF BodyReports, Report
<1>5. ASSUME NEW t \in Threads, BodyReturns(t) \/ BodyRaises(t) \/ BodyInterrupted(t)
      PROVE u \in calling'
  BY <1>2, <1>5 DEF BodyReturns, BodyRaises, BodyInterrupted, Report, callVars
<1>6. ASSUME NEW m \in wire, PlatformHandsOut(m) \/ PlatformStores(m) PROVE u \in calling'
  BY <1>6 DEF PlatformHandsOut, PlatformStores, Acknowledge, Call!Accept, callVars
<1>7. ExecutionEnds \/ PlatformErrs \/ Drop \/ Reconnect \/ UNCHANGED vars => u \in calling'
  BY DEF ExecutionEnds, PlatformErrs, Drop, Reconnect, vars, callVars, Call!ErrorReaches
<1> QED
  BY <1>1, <1>3, <1>4, <1>5, <1>6, <1>7, StepCases DEF CallEnds

(* A claim on the wire is awaited until its exception is raised. *)
LEMMA ClaimsAccountedPreserved ==
  TypeOK /\ HoldingMatches /\ RequestsMatch /\ ClaimsAccountedFor /\ [Next]_vars => ClaimsAccountedFor'
<1> SUFFICES ASSUME TypeOK, HoldingMatches, RequestsMatch, ClaimsAccountedFor, [Next]_vars,
                    NEW m \in wire', m.op = "next"
             PROVE  \/ <<m.thread, m.n>> \in surfaced'
                    \/ m.thread \in calling' /\ m.n = sent'[m.thread]
  BY DEF ClaimsAccountedFor
<1>0. calling \subseteq Threads /\ accepted \subseteq calling /\ DOMAIN sent = Threads
  BY DEF TypeOK
<1>1. CASE m \in wire /\ <<m.thread, m.n>> \in surfaced
  BY <1>1, SurfacedGrows
<1>2. CASE m \in wire /\ m.thread \in calling /\ m.n = sent[m.thread]
  <2> DEFINE u == m.thread
  <2>1. u \in Threads /\ u \notin accepted /\ op[u] = "next" /\ pc[u] = "calling"
    BY <1>0, <1>2 DEF RequestsMatch, HoldingMatches
  <2>2. CASE ClaimRaises(u)
    BY <1>2, <2>2 DEF ClaimRaises, Request
  <2>3. ~Claimed(u) /\ ~Reported(u) /\ ~ReportRaises(u)
    BY <2>1, ReturnDoes DEF Claimed, Reported, ReportRaises, TaskStatus
  <2>4. CASE ~ClaimRaises(u)
    <3>1. u \in calling'
      BY <1>2, <2>3, <2>4, CallingSteps DEF CallEnds
    <3>2. sent'[u] = sent[u]
      BY <2>1, <2>3, <2>4, WaitingSteps DEF Claiming
    <3> QED
      BY <1>2, <3>1, <3>2
  <2> QED
    BY <2>2, <2>4
<1>3. CASE m \notin wire
  <2>1. PICK t \in Threads, o \in {"next"} \cup TaskStatus : Begins(t, o)
    BY <1>3, CallSteps DEF Ends, Rests, Keeps, Serves
  <2> DEFINE k == IF o = "next" THEN 0 ELSE task[t]
  <2>2. BeginCall(t, o, k)
    BY <2>1 DEF Begins
  <2> HIDE DEF k
  <2>3. /\ sent' = [sent EXCEPT ![t] = @ + 1] /\ calling' = calling \cup {t}
        /\ wire' = wire \cup {[thread |-> t, n |-> sent[t] + 1, op |-> o, task |-> k]}
    BY <1>3, <2>2 DEF BeginCall, Call!Enter
  <2>4. m = [thread |-> t, n |-> sent[t] + 1, op |-> o, task |-> k]
    BY <1>3, <2>3
  <2> QED
    BY <1>0, <2>3, <2>4
<1> QED
  BY <1>1, <1>2, <1>3 DEF ClaimsAccountedFor

(* No task is lost between the platform and the program. *)
LEMMA AccountsPreserved ==
  /\ TypeOK /\ HoldingMatches /\ RequestsMatch /\ ClaimsServedOnce /\ AnswersMatch
  /\ ClaimsAccountedFor /\ TasksAccountedFor /\ CleanExitsAreStored' /\ [Next]_vars
  => TasksAccountedFor'
<1> SUFFICES ASSUME TypeOK, HoldingMatches, RequestsMatch, ClaimsServedOnce, AnswersMatch,
                    ClaimsAccountedFor, TasksAccountedFor, CleanExitsAreStored', [Next]_vars,
                    NEW k \in TaskIds, claimer'[k] # <<>>, results'[k] = {}
             PROVE  \/ \E t \in Threads : task'[t] = k
                    \/ \E t \in Threads : /\ pc'[t] = "calling" /\ op'[t] = "next"
                                          /\ claimer'[k] = <<t, sent'[t]>>
                    \/ claimer'[k] \in surfaced' \/ <<"task", k>> \in surfaced'
  BY DEF TasksAccountedFor, Request, TaskIds
<1>0. results[k] = {} /\ k # 0
  BY ClaimsStay, QueueAssumption DEF TaskIds
<1>1. CASE claimer[k] = <<>>
  <2>1. PICK m \in wire : Serves(m) /\ m.op = "next" /\ claimer'[k] = <<m.thread, m.n>>
    <3>1. PICK m \in wire : Serves(m)
      BY <1>1, CallSteps DEF Begins, Ends, Rests, Keeps
    <3>2. m.op = "next" /\ claimer'[k] = <<m.thread, m.n>>
      BY <1>1, <3>1 DEF Serves, Pending, ClaimsServedOnce
    <3> QED
      BY <3>1, <3>2
  <2>2. CASE <<m.thread, m.n>> \in surfaced
    BY <2>1, <2>2, SurfacedGrows
  <2>3. CASE m.thread \in calling /\ m.n = sent[m.thread]
    <3>1. m.thread \in Threads /\ pc[m.thread] = "calling" /\ op[m.thread] = "next"
      BY <2>1, <2>3 DEF RequestsMatch, HoldingMatches, TypeOK
    <3>2. ~Claimed(m.thread) /\ ~ClaimRaises(m.thread)
      BY <1>1, <2>1 DEF Claimed, ClaimRaises, platformVars
    <3>3. pc'[m.thread] = "calling" /\ op'[m.thread] = "next" /\ sent'[m.thread] = sent[m.thread]
      BY <3>1, <3>2, WaitingSteps DEF Claiming
    <3> QED
      BY <2>1, <2>3, <3>1, <3>3
  <2> QED
    BY <2>1, <2>2, <2>3 DEF ClaimsAccountedFor
<1>2. CASE claimer[k] # <<>>
  <2>0. claimer'[k] = claimer[k]
    BY <1>2, ClaimsStay
  <2>1. CASE claimer[k] \in surfaced \/ <<"task", k>> \in surfaced
    BY <2>0, <2>1, SurfacedGrows
  <2>2. ASSUME NEW t \in Threads, task[t] = k
        PROVE task'[t] = k \/ <<"task", k>> \in surfaced'
    <3>1. k \notin clean'
      BY DEF CleanExitsAreStored
    <3> QED
      BY <1>0, <2>2, <3>1, LettingGo
  <2>3. ASSUME NEW t \in Threads, pc[t] = "calling", op[t] = "next", claimer[k] = Request(t)
        PROVE  \/ task'[t] = k \/ claimer'[k] \in surfaced'
               \/ pc'[t] = "calling" /\ op'[t] = "next" /\ claimer'[k] = <<t, sent'[t]>>
    <3>1. CASE Claimed(t)
      <4>1. t \in calling /\ t \in accepted
        BY <3>1, ReturnDoes DEF Claimed
      <4>2. answer[t] = k
        BY <2>3, <4>1 DEF AnswersMatch
      <4> QED
        BY <3>1, <4>2 DEF Claimed, TypeOK
    <3>2. CASE ClaimRaises(t)
      BY <2>0, <2>3, <3>2 DEF ClaimRaises
    <3>3. CASE pc'[t] = "calling" /\ op'[t] = "next" /\ sent'[t] = sent[t]
      BY <2>0, <2>3, <3>3 DEF Request
    <3> QED
      BY <2>3, <3>1, <3>2, <3>3, WaitingSteps DEF Claiming
  <2>4. \/ \E t \in Threads : task[t] = k
        \/ \E t \in Threads : pc[t] = "calling" /\ op[t] = "next" /\ claimer[k] = Request(t)
        \/ claimer[k] \in surfaced \/ <<"task", k>> \in surfaced
    BY <1>0, <1>2 DEF TasksAccountedFor
  <2> QED
    BY <2>1, <2>2, <2>3, <2>4
<1> QED
  BY <1>1, <1>2

-----------------------------------------------------------------------------
LEMMA AnswersAreTrueParts == AnswersAreTrue <=> AnswersMatch /\ StoredIfReported
BY DEF AnswersAreTrue, AnswersMatch, StoredIfReported

LEMMA NextIInv == IInv /\ [Next]_vars => IInv'
<1> SUFFICES ASSUME IInv, [Next]_vars PROVE IInv'
  OBVIOUS
<1>1. /\ TypeOK /\ HoldingMatches /\ RequestsMatch /\ ClaimsServedOnce /\ TasksHeldOnce
      /\ FateIsOpen /\ ReportsTellFate /\ ClaimsAccountedFor
      /\ TasksAccountedFor /\ CleanExitsAreStored /\ OutcomesTellFate /\ DrainedMeansEmpty
      /\ AnswersMatch /\ StoredIfReported
  BY AnswersAreTrueParts DEF IInv
<1>2. TypeOK' /\ HoldingMatches' /\ RequestsMatch' /\ ClaimsServedOnce' /\ AnswersMatch'
  BY <1>1, TypesPreserved, HoldingPreserved, RequestsPreserved, ClaimsPreserved, AnswersPreserved
<1>3. StoredIfReported' /\ TasksHeldOnce' /\ FateIsOpen' /\ ReportsTellFate' /\ ClaimsAccountedFor'
  BY <1>1, <1>2, StoredPreserved, HeldOncePreserved, FatePreserved, ReportsPreserved,
     ClaimsAccountedPreserved
<1>4. CleanExitsAreStored' /\ OutcomesTellFate' /\ DrainedMeansEmpty'
  BY <1>1, CleanPreserved, OutcomesPreserved, DrainedPreserved
<1>5. TasksAccountedFor'
  BY <1>1, <1>4, AccountsPreserved
<1>6. AnswersAreTrue'
  BY <1>2, <1>3 DEF AnswersAreTrue, AnswersMatch, StoredIfReported
<1> QED
  BY <1>2, <1>3, <1>4, <1>5, <1>6 DEF IInv

LEMMA InvariantHolds == Spec => []IInv
BY InitIInv, NextIInv, PTL DEF Spec

\* The state of the workers, the calls and the platform is well typed.
THEOREM QueueTypeCorrect == Spec => []TypeOK
BY InvariantHolds, PTL DEF IInv

\* A task that claim_next() has taken from the platform and that has no outcome there is in
\* the hands of a worker, on its way to one, or an exception has told the program, however
\* claims time out, are rejected by another's error or meet a dropped socket.
THEOREM EveryTaskAccountedFor == Spec => []TasksAccountedFor
BY InvariantHolds, PTL DEF IInv

\* A task whose processing() was left without an exception has an outcome on the platform.
THEOREM CleanExitsStored == Spec => []CleanExitsAreStored
BY InvariantHolds, PTL DEF IInv

\* The platform stores for a task only what its body reported or how that body ended: the
\* SUCCESS and FAILURE that processing() reports by itself are never another task's.
THEOREM OutcomesAreTrue == Spec => []OutcomesTellFate
BY InvariantHolds, PTL DEF IInv

\* consume() ends by itself only when the platform has handed out every task.
THEOREM DrainedIsEmpty == Spec => []DrainedMeansEmpty
BY InvariantHolds, PTL DEF IInv
=============================================================================
