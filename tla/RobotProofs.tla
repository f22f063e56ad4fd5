----------------------------- MODULE RobotProofs -----------------------------
(* Proofs about Robot, for any number of handler threads.  The calls keep CallsInv, as *)
(* ExecutionProofs shows of every program whose steps are Steps.                       *)
EXTENDS Robot, ExecutionProofs, FiniteSetTheorems

\* What RobotTypeOK adds to TypeOK.
RobotTypes ==
  /\ link \in Link!Links /\ stopped \in BOOLEAN /\ phase \in Link!Phases
  /\ up <=> link = "up"
  /\ due \subseteq Threads
  /\ item \in [Threads -> 0..MaxItems] /\ late \in [Threads -> 0..MaxItems]
  /\ busy \in [Threads -> BOOLEAN] /\ raised \in [Threads -> BOOLEAN]
  /\ filed \subseteq Messages
  /\ clean \subseteq [thread : Threads, exec : 1..MaxExecs, items : 0..MaxItems]

(* What the steps of the robot take for granted of the calls and of the bounds. *)
Ground == CallsInv /\ RobotTypes /\ RunBudget /\ ItemsMatch

LEMMA GroundFacts ==
  ASSUME Ground
  PROVE  /\ TypeOK /\ PlacesMatch /\ SocketMatches /\ ExecsCounted /\ RequestsMatch /\ OpenersMatch
         /\ StartsMatch
         /\ pc \in [Threads -> Places] /\ op \in [Threads -> {"start", "task", "observe"} \cup Finishes]
         /\ mine \in [Threads -> 0..MaxExecs] /\ answer \in [Threads -> 0..MaxExecs]
         /\ sent \in [Threads -> 0..MaxMessages] /\ \A t \in Threads : sent[t] \in Nat
         /\ item \in [Threads -> 0..MaxItems] /\ late \in [Threads -> 0..MaxItems]
         /\ busy \in [Threads -> BOOLEAN] /\ raised \in [Threads -> BOOLEAN]
         /\ execution_id \in 0..MaxExecs /\ gwExec \in 0..MaxExecs /\ execs \in 0..MaxExecs
         /\ socket \in 0..MaxDrops /\ calling \subseteq Threads /\ accepted \subseteq calling
         /\ status \in [Execs -> {"none", "open", "cancelled"} \cup Finishes]
         /\ wire \subseteq Messages /\ filed \subseteq Messages
         /\ \A m \in wire \cup filed : m.thread \in Threads /\ m.n \in Nat /\ m.exec \in 0..MaxExecs
         /\ MaxItems \in Nat /\ MaxMessages \in Nat /\ MaxExecs \in Nat /\ MaxDrops \in Nat
         /\ Main \in Threads
<1>1. /\ TypeOK /\ PlacesMatch /\ SocketMatches /\ ExecsCounted /\ RequestsMatch /\ OpenersMatch
      /\ StartsMatch /\ RobotTypes
  BY DEF Ground, CallsInv
<1>2. \A m \in Messages : m.thread \in Threads /\ m.n \in Nat /\ m.exec \in 0..MaxExecs
  BY ExecutionAssumption DEF Messages
<1>3. \A t \in Threads : sent[t] \in Nat
  BY <1>1, ExecutionAssumption DEF TypeOK
<1>4. /\ MaxItems \in Nat /\ MaxMessages \in Nat /\ MaxExecs \in Nat /\ MaxDrops \in Nat
      /\ Main \in Threads
  BY RobotAssumption, ExecutionAssumption
<1> QED
  BY <1>1, <1>2, <1>3, <1>4 DEF TypeOK, RobotTypes

-----------------------------------------------------------------------------
(* The steps of the robot are steps of Execution.                           *)
LEMMA RobotStepIsStep ==
  ASSUME Ground, [RobotNext]_allVars
  PROVE  Steps
<1>1. ASSUME NEW t \in Threads, AutomationStart(t) \/ ProcessItem(t) PROVE Steps
  BY <1>1 DEF AutomationStart, ProcessItem, execVars, Steps
<1>2. ASSUME NEW t \in Threads, Begins(t) PROVE Steps
  BY <1>2 DEF Begins, execVars, Steps
<1>3. ASSUME NEW t \in Threads, StartCalls(t) \/ (op[t] # "task" /\ RequiredCalls(t)) \/ ReportTasks(t)
      PROVE Steps
  <2>1. pc[t] = "checked" \/ pc[t] = "required"
    BY <1>3 DEF StartCalls, RequiredCalls, ReportTasks
  <2>2. \E k \in Nat : k >= 1 /\ sent[t] + k =< MaxMessages
    <3>1. item[t] \in 0..MaxItems
      BY GroundFacts
    <3>2. pc[t] = "checked" => sent[t] + (MaxItems + 2) =< MaxMessages /\ MaxItems + 2 \in Nat
      BY GroundFacts DEF Ground, RunBudget, Budget
    <3>3. pc[t] = "required" /\ op[t] = "task"
          => sent[t] + (MaxItems - item[t] + 2) =< MaxMessages /\ MaxItems - item[t] + 2 \in Nat
             /\ MaxItems - item[t] + 2 >= 1
      BY <3>1, GroundFacts DEF Ground, RunBudget, Budget
    <3>4. pc[t] = "required" /\ op[t] # "task" => sent[t] + 1 =< MaxMessages
      BY GroundFacts DEF Ground, RunBudget, Budget
    <3> QED
      BY <2>1, <3>2, <3>3, <3>4, GroundFacts
  <2>3. sent[t] < MaxMessages
    BY <2>2, GroundFacts
  <2> QED
    BY <1>3, <2>3 DEF Steps
<1>4. ASSUME NEW t \in Threads, StartAssigns(t) \/ CallReturns(t) \/ CallRaises(t) \/ CallRefused(t)
                               \/ FinishClears(t) \/ BodyInterrupted(t)
      PROVE Steps
  BY <1>4 DEF Steps
<1>5. ASSUME NEW t \in Threads, ReportItem(t) PROVE Steps
  <2>1. CASE Require(t, "task")
    <3>1. pc[t] \in {"idle", "body"} /\ "task" \in Operations /\ "task" # "start"
      BY <1>5 DEF ReportItem, InBody, Operations
    <3> QED
      BY <2>1, <3>1 DEF Steps
  <2>2. CASE UNCHANGED execVars
    BY <2>2 DEF execVars, Steps
  <2> QED
    BY <1>5, <2>1, <2>2 DEF ReportItem
<1>6. ASSUME NEW t \in Threads, LeaveBody(t) PROVE Steps
  <2>1. \E how \in Finishes : BodyEnds(t, how)
    BY <1>6 DEF LeaveBody, Finishes
  <2> QED
    BY <2>1 DEF Steps
<1>7. CASE Listen \/ WaitReturns \/ CtrlC \/ Shuts \/ Disconnects \/ Stops \/ GivesUp
  BY <1>7 DEF Listen, WaitReturns, CtrlC, Shuts, Disconnects, Stops, GivesUp, execVars, Steps
<1>8. CASE Severs \/ Drops
  BY <1>8 DEF Severs, Drops, Drop, Steps
<1>9. CASE Reconnects
  <2>1. link = "lost"
    BY <1>9 DEF Reconnects, Link!Regain
  <2> QED
    BY <1>9, <2>1 DEF Reconnects, Ground, RunBudget, Steps
<1>10. CASE Platform
  BY <1>10 DEF Platform, Served, Steps
<1>11. CASE UNCHANGED allVars
  BY <1>11 DEF allVars, execVars, Steps
<1>12. ASSUME NEW t \in Threads, Runs(t) \/ RunRaises(t) \/ EmitItem(t) \/ RunEnds(t) PROVE Steps
  BY <1>3, <1>4, <1>12 DEF Runs, RunRaises, EmitItem, RunEnds
<1>13. CASE Interrupt
  BY <1>4, <1>13, GroundFacts DEF Interrupt
<1> QED
  BY <1>1, <1>2, <1>5, <1>6, <1>7, <1>8, <1>9, <1>10, <1>11, <1>12, <1>13 DEF RobotNext, Automation

LEMMA RobotCallsPreserved ==
  ASSUME Ground, [RobotNext]_allVars
  PROVE  CallsInv'
BY RobotStepIsStep, CallsInvPreserved DEF Ground

-----------------------------------------------------------------------------
(* The connection, the items and what the robot has to show for them.       *)

\* What moves of the connection: the phase of the main thread, or the link with the socket.
LifeMoves ==
  /\ phase' \in Link!Phases /\ (stopped' = stopped \/ stopped' = TRUE)
  /\ \/ link' = link /\ (up' <=> up) /\ (link = "lost" => socket' = socket)
     \/ link' = "closed" /\ ~up'
     \/ link = "up" /\ link' = "lost" /\ ~up' /\ socket' < MaxDrops
     \/ link = "lost" /\ link' = "up" /\ up'

LEMMA LifeDoes ==
  ASSUME Ground, [RobotNext]_allVars
  PROVE  LifeMoves
<1>0. phase \in Link!Phases /\ up \in BOOLEAN /\ link \in {"closed", "up", "lost"} /\ (up <=> link = "up")
  BY GroundFacts DEF Ground, RobotTypes, TypeOK, Link!Links
<1>a. ASSUME UNCHANGED <<link, stopped, up, socket>>, phase' \in Link!Phases PROVE LifeMoves
  BY <1>a DEF LifeMoves
<1>b. ASSUME NEW t \in Threads, Escape(t), UNCHANGED <<up, socket>> PROVE LifeMoves
  <2>1. UNCHANGED <<link, stopped>> /\ phase' \in Link!Phases
    BY <1>0, <1>b DEF Escape, Link!Leave, Link!Goto, Link!Phases, lifeVars
  <2> QED
    BY <1>a, <1>b, <2>1
<1>1. ASSUME NEW t \in Threads, AutomationStart(t) \/ ProcessItem(t) PROVE LifeMoves
  BY <1>0, <1>1, <1>a DEF AutomationStart, ProcessItem, execVars, vars, linkVars, lifeVars
<1>2. ASSUME NEW t \in Threads, Begins(t) PROVE LifeMoves
  <2>1. UNCHANGED <<up, socket>>
    BY <1>2 DEF Begins, StartChecks, execVars, vars, linkVars
  <2>2. Escape(t) \/ UNCHANGED lifeVars
    BY <1>2 DEF Begins
  <2> QED
    BY <1>0, <1>a, <1>b, <2>1, <2>2 DEF lifeVars
<1>3. ASSUME NEW t \in Threads, Runs(t) \/ EmitItem(t) \/ ReportItem(t) PROVE LifeMoves
  <2>1. UNCHANGED <<up, socket>>
    BY <1>3 DEF Runs, EmitItem, ReportItem, ReportTasks, StartCalls, StartAssigns, CallReturns, RequiredCalls,
       BeginCall, Send, Require, execVars, vars, linkVars
  <2>2. UNCHANGED lifeVars
    BY <1>3 DEF Runs, EmitItem, ReportItem, robotVars
  <2> QED
    BY <1>0, <1>a, <2>1, <2>2 DEF lifeVars
<1>4. ASSUME NEW t \in Threads, RunRaises(t) \/ LeaveBody(t) \/ RunEnds(t) PROVE LifeMoves
  <2>1. UNCHANGED <<up, socket>>
    BY <1>4 DEF RunRaises, LeaveBody, RunEnds, CallRaises, CallRefused, Abandon, BodyEnds, FinishClears, linkVars
  <2>2. Escape(t) \/ UNCHANGED lifeVars
    BY <1>4 DEF RunRaises, LeaveBody, RunEnds
  <2> QED
    BY <1>0, <1>a, <1>b, <2>1, <2>2 DEF lifeVars
<1>5. CASE Listen \/ WaitReturns \/ CtrlC \/ Interrupt
  <2>1. UNCHANGED <<up, socket>>
    BY <1>5 DEF Listen, WaitReturns, CtrlC, Interrupt, BodyInterrupted, execVars, vars, linkVars
  <2>2. UNCHANGED <<link, stopped>> /\ phase' \in Link!Phases
    BY <1>5 DEF Listen, WaitReturns, CtrlC, Interrupt, Link!Listen, Link!WaitReturns, Link!Leave, Link!Goto, Link!Phases
  <2> QED
    BY <1>a, <2>1, <2>2
\* The end of the connection, with the socket cut at the end or lost before.
<1>6. CASE Shuts \/ Disconnects \/ Stops \/ GivesUp
  <2>1. UNCHANGED <<up, socket>>
    BY <1>6 DEF Shuts, Disconnects, Stops, GivesUp, execVars, vars, linkVars
  <2>2. /\ phase' \in Link!Phases /\ (stopped' = stopped \/ stopped' = TRUE)
        /\ link' = link \/ (link = "lost" /\ link' = "closed")
    BY <1>0, <1>6 DEF Shuts, Disconnects, Stops, GivesUp, Link!Shut, Link!Disconnect, Link!Stops, Link!GivesUp,
       Link!Goto, Link!Stay, Link!Phases
  <2> QED
    BY <1>0, <2>1, <2>2 DEF LifeMoves
<1>7. CASE Severs \/ Drops \/ Reconnects
  BY <1>0, <1>7 DEF Severs, Drops, Reconnects, Drop, Cut, Reconnect, Link!Sever, Link!Lose, Link!Regain, Link!Stay,
     LifeMoves
<1>8. CASE Platform
  <2>1. UNCHANGED <<up, socket>> /\ UNCHANGED lifeVars
    BY <1>8 DEF Platform, Served, GatewayOpens, GatewayServes, GatewayRejects, ErrorArrives, PlatformCancels,
       linkVars, robotVars
  <2> QED
    BY <1>0, <1>a, <2>1 DEF lifeVars
<1>9. CASE UNCHANGED allVars
  BY <1>0, <1>9, <1>a DEF allVars, execVars, vars, linkVars, robotVars, lifeVars
<1> QED
  BY <1>1, <1>2, <1>3, <1>4, <1>5, <1>6, <1>7, <1>8, <1>9 DEF RobotNext, Automation

LEMMA RobotTypesPreserved ==
  ASSUME Ground, [RobotNext]_allVars
  PROVE  RobotTypes'
<1>0. RobotTypes
  BY DEF Ground
<1>1. /\ link' \in Link!Links /\ stopped' \in BOOLEAN /\ phase' \in Link!Phases /\ (up' <=> link' = "up")
  <2>1. link' \in Link!Links /\ phase' \in Link!Phases
    BY <1>0, LifeDoes DEF LifeMoves, RobotTypes, Link!Links
  <2>2. stopped' \in BOOLEAN
    BY <1>0, LifeDoes, Zenon DEF LifeMoves, RobotTypes
  <2>3. up' <=> link' = "up"
    BY <1>0, LifeDoes DEF LifeMoves, RobotTypes
  <2> QED
    BY <2>1, <2>2, <2>3
<1>2. ASSUME UNCHANGED <<due, itemVars, filed, clean>> PROVE RobotTypes'
  BY <1>0, <1>1, <1>2 DEF RobotTypes, itemVars
<1>3. ASSUME NEW t \in Threads, AutomationStart(t) PROVE RobotTypes'
  BY <1>0, <1>1, <1>3 DEF AutomationStart, RobotTypes, itemVars
<1>4. ASSUME NEW t \in Threads, Begins(t) PROVE RobotTypes'
  BY <1>0, <1>1, <1>4, GroundFacts DEF Begins, RobotTypes
<1>5. ASSUME NEW t \in Threads, ProcessItem(t) PROVE RobotTypes'
  <2>1. item[t] \in 0..MaxItems /\ item[t] < MaxItems /\ late[t] \in 0..MaxItems /\ late[t] =< item[t]
    BY <1>5, GroundFacts DEF ProcessItem, Ground, ItemsMatch
  <2>2. item[t] + 1 \in 0..MaxItems /\ late[t] + 1 \in 0..MaxItems
    BY <2>1, GroundFacts
  <2>3. item' \in [Threads -> 0..MaxItems] /\ late' \in [Threads -> 0..MaxItems]
        /\ busy' \in [Threads -> BOOLEAN] /\ UNCHANGED <<due, raised, filed, clean>>
    BY <1>0, <1>5, <2>2 DEF ProcessItem, RobotTypes
  <2> QED
    BY <1>0, <1>1, <2>3 DEF RobotTypes
<1>6. ASSUME NEW t \in Threads, ReportItem(t) \/ EmitItem(t) PROVE RobotTypes'
  <2>1. /\ UNCHANGED <<due, item, late, filed, clean>>
        /\ busy' \in [Threads -> BOOLEAN] /\ raised' \in [Threads -> BOOLEAN]
    BY <1>0, <1>6, GroundFacts DEF ReportItem, EmitItem, RobotTypes, TypeOK
  <2> QED
    BY <1>0, <1>1, <2>1 DEF RobotTypes
<1>7. ASSUME NEW t \in Threads, RunEnds(t) PROVE RobotTypes'
  <2>1. answer[t] # 0
    BY <1>7 DEF RunEnds, FinishClears, Ground, ItemsMatch
  <2>2. answer[t] \in 1..MaxExecs /\ item[t] \in 0..MaxItems
    BY <2>1, GroundFacts
  <2>3. clean' \subseteq [thread : Threads, exec : 1..MaxExecs, items : 0..MaxItems]
    BY <1>0, <1>7, <2>2 DEF RunEnds, RobotTypes
  <2> QED
    BY <1>0, <1>1, <1>7, <2>3 DEF RunEnds, RobotTypes, itemVars
<1>8. ASSUME NEW m \in wire, Served(m) PROVE RobotTypes'
  <2>1. filed' \subseteq Messages
    BY <1>0, <1>8, GroundFacts DEF Served, Stores, RobotTypes
  <2> QED
    BY <1>0, <1>1, <1>8, <2>1 DEF Served, RobotTypes, itemVars
<1>9. ASSUME NEW t \in Threads, Runs(t) \/ RunRaises(t) \/ LeaveBody(t) PROVE RobotTypes'
  BY <1>2, <1>9 DEF Runs, RunRaises, LeaveBody, robotVars
<1>10. CASE Listen \/ WaitReturns \/ CtrlC \/ Interrupt \/ Shuts \/ Disconnects \/ Stops \/ Severs \/ GivesUp
             \/ Drops \/ Reconnects
  BY <1>2, <1>10 DEF Listen, WaitReturns, CtrlC, Interrupt, Shuts, Disconnects, Stops, Severs, GivesUp, Drops,
     Reconnects
<1>11. CASE ((ErrorArrives \/ PlatformCancels) /\ UNCHANGED robotVars) \/ UNCHANGED allVars
  BY <1>2, <1>11 DEF robotVars, allVars
<1> QED
  BY <1>3, <1>4, <1>5, <1>6, <1>7, <1>8, <1>9, <1>10, <1>11 DEF RobotNext, Automation, Platform

-----------------------------------------------------------------------------
(* The runs, one thread at a time.                                          *)

\* What RunBudget, ItemsMatch, LateMatches and AtMostOneLateItem say of one thread.
RunOK(t) ==
  /\ t \in due => pc[t] = "idle"
  /\ t \in due \/ pc[t] = "checked" => Budget(t, MaxItems + 2)
  /\ Starting(t) => Budget(t, MaxItems + 1)
  /\ pc[t] = "body" => Budget(t, MaxItems - item[t] + (IF busy[t] THEN 2 ELSE 1))
  /\ pc[t] = "required" => Budget(t, IF op[t] = "task" THEN MaxItems - item[t] + 2 ELSE 1)
  /\ op[t] # "observe"
  /\ pc[t] = "required" => ~busy[t]
  /\ pc[t] = "checked" \/ Starting(t) => item[t] = 0 /\ late[t] = 0 /\ ~busy[t] /\ ~raised[t]
  /\ late[t] =< item[t]
  /\ t \in accepted \/ pc[t] = "finished" => answer[t] # 0
  /\ late[t] # 0 => link = "closed"
  /\ InBody(t) /\ ~busy[t] => late[t] = 0
  /\ late[t] =< 1

RunsOK ==
  /\ link = "lost" => socket < MaxDrops
  /\ \A t \in Threads : RunOK(t)

LEMMA RunsOKMeans == RunsOK <=> RunBudget /\ ItemsMatch /\ LateMatches /\ AtMostOneLateItem
<1>1. RunsOK => RunBudget /\ ItemsMatch
  BY DEF RunsOK, RunOK, RunBudget, ItemsMatch
<1>2. RunsOK => LateMatches /\ AtMostOneLateItem
  BY DEF RunsOK, RunOK, LateMatches, AtMostOneLateItem
<1>3. ASSUME RunBudget, ItemsMatch, LateMatches, AtMostOneLateItem, NEW t \in Threads PROVE RunOK(t)
  BY <1>3 DEF RunOK, RunBudget, ItemsMatch, LateMatches, AtMostOneLateItem
<1>4. RunBudget => (link = "lost" => socket < MaxDrops)
  BY DEF RunBudget
<1> QED
  BY <1>1, <1>2, <1>3, <1>4 DEF RunsOK

\* The step of t leaves the runs of the others alone.
Keeps(t) ==
  \A u \in Threads : u # t =>
    /\ pc'[u] = pc[u] /\ op'[u] = op[u] /\ sent'[u] = sent[u] /\ answer'[u] = answer[u]
    /\ item'[u] = item[u] /\ busy'[u] = busy[u] /\ raised'[u] = raised[u] /\ late'[u] = late[u]
    /\ (u \in accepted' => u \in accepted) /\ (u \in due' => u \in due)

LEMMA OthersKeepOK ==
  ASSUME RunsOK, NEW t \in Threads, Keeps(t), link = "closed" => link' = "closed", NEW u \in Threads, u # t
  PROVE  RunOK(u)'
<1>1. RunOK(u)
  BY DEF RunsOK
<1>2. /\ pc'[u] = pc[u] /\ op'[u] = op[u] /\ sent'[u] = sent[u] /\ answer'[u] = answer[u]
      /\ item'[u] = item[u] /\ busy'[u] = busy[u] /\ raised'[u] = raised[u] /\ late'[u] = late[u]
      /\ (u \in accepted' => u \in accepted) /\ (u \in due' => u \in due)
  BY DEF Keeps
<1> QED
  BY <1>1, <1>2 DEF RunOK, Starting, InBody, Budget

LEMMA ClosedStaysClosed ==
  ASSUME Ground, RunsOK, [RobotNext]_allVars
  PROVE  /\ link' = "lost" => socket' < MaxDrops
         /\ link = "closed" => link' = "closed"
<1>0. link = "lost" => socket < MaxDrops
  BY DEF RunsOK
<1>1. link' = "lost" => socket' < MaxDrops
  BY <1>0, LifeDoes DEF LifeMoves
<1>2. link = "closed" => link' = "closed"
  BY LifeDoes DEF LifeMoves
<1> QED
  BY <1>1, <1>2

(* What each step of a thread does to its run. *)
LEMMA RunSteps ==
  ASSUME Ground, RunsOK, NEW t \in Threads, Automation(t) \/ AutomationStart(t), link = "closed" => link' = "closed"
  PROVE  Keeps(t) /\ RunOK(t)'
<1>0. RunOK(t)
  BY DEF RunsOK
<1>a. /\ sent[t] \in Nat /\ item[t] \in 0..MaxItems /\ late[t] \in 0..MaxItems /\ MaxItems \in Nat
      /\ op[t] \in {"start", "task", "observe"} \cup Finishes
      /\ pc \in [Threads -> Places] /\ op \in [Threads -> {"start", "task", "observe"} \cup Finishes]
      /\ item \in [Threads -> 0..MaxItems] /\ late \in [Threads -> 0..MaxItems]
      /\ busy \in [Threads -> BOOLEAN] /\ raised \in [Threads -> BOOLEAN]
  BY GroundFacts
<1>b. /\ pc[t] # "calling" => t \notin accepted
      /\ pc[t] = "started" => op[t] = "start"
  BY GroundFacts DEF PlacesMatch
<1>1. CASE AutomationStart(t)
  BY <1>0, <1>a, <1>1 DEF AutomationStart, Keeps, RunOK, Starting, InBody, Budget, execVars, vars, itemVars, callVars
<1>2. CASE Begins(t)
  <2>1. t \in due /\ pc[t] = "idle" /\ Budget(t, MaxItems + 2)
    BY <1>0, <1>2 DEF Begins, RunOK
  <2>2. /\ pc' = pc \/ pc' = [pc EXCEPT ![t] = "checked"]
        /\ UNCHANGED <<op, sent, accepted, answer>>
    BY <1>2 DEF Begins, StartChecks, execVars, vars, callVars
  <2>3. /\ due' = due \ {t}
        /\ item' = [item EXCEPT ![t] = 0] /\ raised' = [raised EXCEPT ![t] = FALSE]
        /\ busy' = [busy EXCEPT ![t] = FALSE] /\ late' = [late EXCEPT ![t] = 0]
    BY <1>2 DEF Begins
  <2>4. Keeps(t)
    BY <1>a, <2>2, <2>3 DEF Keeps
  <2>5. item'[t] = 0 /\ late'[t] = 0 /\ ~busy'[t] /\ ~raised'[t] /\ pc'[t] \in {"idle", "checked"} /\ t \notin due'
    BY <1>a, <2>1, <2>2, <2>3
  <2> QED
    BY <1>0, <1>a, <1>b, <2>1, <2>2, <2>4, <2>5 DEF RunOK, Starting, InBody, Budget
<1>c. ASSUME UNCHANGED <<due, item, busy, raised, late>>, UNCHANGED <<sent, accepted, answer>>,
             \A u \in Threads : u # t => pc'[u] = pc[u] /\ op'[u] = op[u]
      PROVE Keeps(t)
  BY <1>c DEF Keeps
<1>3. CASE StartAssigns(t) /\ UNCHANGED robotVars
  <2>1. pc[t] = "started" /\ pc'[t] = "body" /\ op'[t] = op[t] /\ UNCHANGED <<sent, accepted, answer>>
        /\ UNCHANGED <<due, item, busy, raised, late>>
        /\ \A u \in Threads : u # t => pc'[u] = pc[u] /\ op'[u] = op[u]
    BY <1>a, <1>3 DEF StartAssigns, robotVars, itemVars, callVars
  <2> QED
    BY <1>0, <1>a, <1>b, <1>c, <2>1 DEF RunOK, Starting, InBody, Budget
<1>4. CASE (StartCalls(t) \/ (op[t] # "task" /\ RequiredCalls(t))) /\ UNCHANGED robotVars
  <2>1. sent[t] < MaxMessages
    <3>1. pc[t] = "checked" \/ (pc[t] = "required" /\ op[t] # "task")
      BY <1>4 DEF StartCalls, RequiredCalls
    <3> QED
      BY <1>0, <1>a, <3>1, GroundFacts DEF RunOK, Budget
  <2>2. \E o \in Operations, e \in 0..MaxExecs :
          Asks(t, o, e) /\ o # "observe" /\ (o = "start" => pc[t] = "checked")
    <3>1. CASE StartCalls(t)
      <4>1. Asks(t, "start", 0) /\ "start" \in Operations /\ pc[t] = "checked"
        BY <3>1, <2>1, ZeroIsExec DEF StartCalls, Asks, Operations
      <4> QED
        BY <4>1, ZeroIsExec
    <3>2. CASE op[t] # "task" /\ RequiredCalls(t)
      <4>1. Asks(t, op[t], execution_id) /\ op[t] \in Operations /\ execution_id \in 0..MaxExecs /\ op[t] # "start"
        BY <1>a, <3>2, <2>1, GroundFacts DEF RequiredCalls, Asks, Operations, PlacesMatch
      <4> QED
        BY <1>0, <4>1 DEF RunOK
    <3> QED
      BY <1>4, <3>1, <3>2
  <2>3. PICK o \in Operations, e \in 0..MaxExecs :
          Asks(t, o, e) /\ o # "observe" /\ (o = "start" => pc[t] = "checked")
    BY <2>2
  <2>4. /\ pc' = [pc EXCEPT ![t] = "calling"] /\ op' = [op EXCEPT ![t] = o] /\ Sends(t, o, e)
        /\ answer' = [answer EXCEPT ![t] = 0]
    BY <2>3, AsksDoes, GroundFacts
  <2>5. /\ accepted' = accepted /\ t \notin accepted' /\ sent'[t] \in {sent[t], sent[t] + 1}
        /\ \A u \in Threads : u # t => sent'[u] = sent[u]
    BY <2>4, GroundFacts DEF Sends
  <2>6. Keeps(t)
    BY <1>4, <1>a, <2>4, <2>5, GroundFacts DEF Keeps, robotVars, itemVars
  <2>7. pc'[t] = "calling" /\ op'[t] = o
    BY <1>a, <2>4
  <2>8. UNCHANGED <<due, item, busy, raised, late>> /\ pc[t] # "idle"
    BY <1>4, <2>3 DEF robotVars, itemVars, Asks
  <2>9. Starting(t)' => Budget(t, MaxItems + 1)' /\ item[t] = 0 /\ late[t] = 0 /\ ~busy[t] /\ ~raised[t]
    BY <1>0, <1>a, <2>3, <2>5, <2>7, GroundFacts DEF RunOK, Starting, Budget
  <2> QED
    BY <1>0, <2>3, <2>5, <2>6, <2>7, <2>8, <2>9 DEF RunOK, InBody, Starting
<1>5. CASE (CallReturns(t) /\ UNCHANGED robotVars) \/ RunRaises(t)
  <2>1. Ends(t) /\ UNCHANGED <<due, item, busy, raised, late>>
    BY <1>5 DEF Ends, RunRaises, robotVars, itemVars
  <2>2. /\ pc[t] = "calling" /\ UNCHANGED <<op, sent, answer>> /\ accepted' \subseteq accepted /\ t \notin accepted'
        /\ \A u \in Threads : u # t => pc'[u] = pc[u]
        /\ \/ t \in accepted /\ pc'[t] \in {"started", "finished"} /\ (pc'[t] = "started" => op[t] = "start")
           \/ pc'[t] = "idle"
    BY <1>0, <1>a, <2>1, EndsDoes, GroundFacts DEF RunOK
  <2>3. Keeps(t)
    BY <2>1, <2>2 DEF Keeps
  <2> QED
    BY <1>0, <2>1, <2>2, <2>3 DEF RunOK, Starting, InBody, Budget
<1>6. CASE ProcessItem(t)
  <2>1. /\ UNCHANGED <<pc, op, sent, accepted, answer, due, raised>> /\ pc[t] = "body" /\ ~busy[t] /\ ~raised[t]
        /\ item[t] < MaxItems /\ item'[t] = item[t] + 1 /\ busy'[t]
        /\ late'[t] = IF link = "closed" THEN late[t] + 1 ELSE late[t]
        /\ \A u \in Threads : u # t => item'[u] = item[u] /\ busy'[u] = busy[u] /\ late'[u] = late[u]
    BY <1>a, <1>6 DEF ProcessItem, InBody, execVars, vars, callVars
  <2>2. Keeps(t)
    BY <2>1 DEF Keeps
  <2>3. link' = link
    BY <1>6 DEF ProcessItem, lifeVars
  <2> QED
    BY <1>0, <1>a, <2>1, <2>2, <2>3 DEF RunOK, Starting, InBody, Budget
<1>7. CASE ReportItem(t)
  <2>1. /\ UNCHANGED <<sent, accepted, answer, due, item, late>> /\ pc[t] = "body" /\ busy[t] /\ ~busy'[t]
        /\ \A u \in Threads : u # t => /\ pc'[u] = pc[u] /\ op'[u] = op[u] /\ busy'[u] = busy[u]
                                       /\ raised'[u] = raised[u]
        /\ \/ pc'[t] = "required" /\ op'[t] = "task"
           \/ pc'[t] = "body" /\ op'[t] = op[t] /\ raised'[t]
    BY <1>a, <1>7 DEF ReportItem, InBody, Require, execVars, vars, callVars
  <2>2. Keeps(t)
    BY <2>1 DEF Keeps
  <2>3. Budget(t, MaxItems - item[t] + 2) /\ late[t] =< item[t] /\ late[t] =< 1 /\ t \notin due /\ t \notin accepted
    BY <1>0, <1>b, <2>1 DEF RunOK
  <2>4. CASE pc'[t] = "required" /\ op'[t] = "task"
    BY <1>0, <2>1, <2>2, <2>3, <2>4 DEF RunOK, Starting, InBody, Budget
  <2>5. CASE pc'[t] = "body" /\ op'[t] = op[t] /\ raised'[t]
    <3>1. Budget(t, MaxItems - item[t] + 1)
      BY <1>a, <2>3, GroundFacts DEF Budget
    <3> QED
      BY <1>0, <2>1, <2>2, <2>3, <2>5, <3>1 DEF RunOK, Starting, InBody, Budget
  <2> QED
    BY <2>1, <2>4, <2>5
<1>8. CASE EmitItem(t)
  <2>1. op[t] = "task" /\ pc[t] = "required" /\ Budget(t, MaxItems - item[t] + 2)
    BY <1>0, <1>8 DEF EmitItem, ReportTasks, RunOK
  <2>2. sent[t] < MaxMessages
    BY <1>a, <2>1, GroundFacts DEF Budget
  <2>3. Reports(t)
    BY <1>8, <2>1, <2>2 DEF EmitItem, Reports
  <2>4. /\ pc' = [pc EXCEPT ![t] = "body"] /\ UNCHANGED <<op, answer, accepted>>
        /\ sent'[t] \in {sent[t], sent[t] + 1} /\ \A u \in Threads : u # t => sent'[u] = sent[u]
    BY <2>3, ReportsDoes, GroundFacts DEF Sends
  <2>5. /\ UNCHANGED <<due, item, busy, late>> /\ (raised'[t] <=> ~up)
        /\ \A u \in Threads : u # t => raised'[u] = raised[u]
    BY <1>a, <1>8 DEF EmitItem
  <2>6. Keeps(t)
    BY <1>a, <2>4, <2>5 DEF Keeps
  <2>7. up => late[t] = 0
    BY <1>0 DEF RunsOK, RunOK, Ground, RobotTypes
  <2>8. pc'[t] = "body" /\ ~busy[t] /\ t \notin due
    BY <1>0, <1>a, <2>1, <2>4 DEF RunOK
  <2>9. Budget(t, MaxItems - item[t] + 1)'
    <3>1. sent[t] + (MaxItems - item[t] + 2) =< MaxMessages
      BY <2>1 DEF Budget
    <3>2. sent'[t] + (MaxItems - item[t] + 1) =< MaxMessages
      BY <1>a, <2>4, <3>1, GroundFacts
    <3> QED
      BY <2>5, <3>2 DEF Budget
  <2>10. t \notin accepted'
    BY <1>b, <2>1, <2>4
  <2> QED
    BY <1>0, <2>1, <2>4, <2>5, <2>6, <2>7, <2>8, <2>9, <2>10 DEF RunOK, Starting, InBody
<1>9. CASE LeaveBody(t)
  <2>1. /\ UNCHANGED <<sent, accepted, answer, due, item, busy, raised, late>> /\ pc[t] = "body" /\ ~busy[t]
        /\ \A u \in Threads : u # t => pc'[u] = pc[u] /\ op'[u] = op[u]
        /\ pc'[t] \in {"required", "idle"} /\ op'[t] \in Finishes
    BY <1>a, <1>9 DEF LeaveBody, BodyEnds, Finishes, itemVars, callVars
  <2>2. Budget(t, 1)
    <3>1. sent[t] + (MaxItems - item[t] + 1) =< MaxMessages
      BY <1>0, <2>1 DEF RunOK, Budget
    <3> QED
      BY <1>a, <3>1, GroundFacts DEF Budget
  <2>3. Keeps(t) /\ t \notin due /\ t \notin accepted'
    BY <1>0, <1>b, <1>c, <2>1 DEF RunOK
  <2> QED
    BY <1>0, <2>1, <2>2, <2>3 DEF RunOK, Starting, InBody, Budget, Finishes
<1>10. CASE RunEnds(t)
  <2>1. /\ UNCHANGED <<op, sent, accepted, answer, due, item, busy, raised, late>> /\ pc[t] = "finished"
        /\ pc'[t] = "idle" /\ \A u \in Threads : u # t => pc'[u] = pc[u]
    BY <1>a, <1>10 DEF RunEnds, FinishClears, itemVars, callVars
  <2> QED
    BY <1>0, <1>a, <1>b, <1>c, <2>1 DEF RunOK, Starting, InBody, Budget
<1> QED
  BY <1>1, <1>2, <1>3, <1>4, <1>5, <1>6, <1>7, <1>8, <1>9, <1>10 DEF Automation, Runs

LEMMA RunsOKPreserved ==
  ASSUME Ground, RunsOK, [RobotNext]_allVars
  PROVE  RunsOK'
<1>0. /\ link' = "lost" => socket' < MaxDrops
      /\ link = "closed" => link' = "closed"
  BY ClosedStaysClosed
<1>1. ASSUME NEW t \in Threads, Automation(t) \/ AutomationStart(t) PROVE RunsOK'
  <2>1. Keeps(t) /\ RunOK(t)'
    BY <1>0, <1>1, RunSteps
  <2>2. \A u \in Threads : RunOK(u)'
    BY <1>0, <2>1, OthersKeepOK
  <2> QED
    BY <1>0, <2>2 DEF RunsOK
<1>2. CASE Interrupt
  <2>1. /\ pc[Main] = "body" /\ pc' = [pc EXCEPT ![Main] = "idle"]
        /\ UNCHANGED <<op, sent, accepted, answer, due, item, busy, raised, late>>
    BY <1>2 DEF Interrupt, BodyInterrupted, itemVars, callVars
  <2>2. Keeps(Main) /\ pc'[Main] = "idle" /\ Main \in Threads
    BY <2>1, GroundFacts DEF Keeps
  <2>3. RunOK(Main)'
    BY <1>0, <2>1, <2>2, GroundFacts DEF RunsOK, RunOK, Starting, InBody, Budget, PlacesMatch
  <2>4. \A u \in Threads : RunOK(u)'
    BY <1>0, <2>2, <2>3, OthersKeepOK
  <2> QED
    BY <1>0, <2>4 DEF RunsOK
<1>3. ASSUME UNCHANGED <<pc, op, sent, due, item, busy, raised, late>>,
             \A u \in Threads : u \in accepted' \/ pc[u] = "finished" => answer'[u] # 0
      PROVE RunsOK'
  <2>1. ASSUME NEW u \in Threads PROVE RunOK(u)'
    <3>1. RunOK(u)
      BY DEF RunsOK
    <3> QED
      BY <1>0, <1>3, <3>1 DEF RunOK, Starting, InBody, Budget
  <2> QED
    BY <1>0, <2>1 DEF RunsOK
<1>4. ASSUME UNCHANGED <<pc, op, sent, due, item, busy, raised, late, accepted, answer>> PROVE RunsOK'
  BY <1>3, <1>4 DEF RunsOK, RunOK
<1>5. ASSUME NEW m \in wire, Served(m) PROVE RunsOK'
  <2>1. Serves(m) /\ UNCHANGED <<due, item, busy, raised, late>>
    BY <1>5 DEF Served, Serves, itemVars
  <2>2. UNCHANGED <<pc, op, sent>>
        /\ \/ UNCHANGED <<accepted, answer>>
           \/ \E e \in 0..MaxExecs : e # 0 /\ Acknowledge(m, e)
    <3>1. execs < MaxExecs => execs + 1 \in 0..MaxExecs /\ execs + 1 # 0
      BY GroundFacts
    <3>2. \/ UNCHANGED <<accepted, answer>>
          \/ execs < MaxExecs /\ Acknowledge(m, execs + 1)
          \/ gwExec # 0 /\ Acknowledge(m, gwExec)
      BY <2>1, ServesDoes, GroundFacts
    <3>3. UNCHANGED <<pc, op, sent>>
      BY <2>1, ServesDoes, GroundFacts
    <3> QED
      BY <3>1, <3>2, <3>3, GroundFacts
  <2>3. ASSUME NEW e \in 0..MaxExecs, e # 0, Acknowledge(m, e), NEW u \in Threads,
               u \in accepted' \/ pc[u] = "finished"
        PROVE answer'[u] # 0
    BY <2>3, AcknowledgeDoes, GroundFacts DEF RunsOK, RunOK
  <2> QED
    BY <1>3, <1>4, <2>1, <2>2, <2>3
<1>6. CASE Listen \/ WaitReturns \/ CtrlC \/ Shuts \/ Disconnects \/ Stops \/ Severs \/ GivesUp \/ Drops
            \/ Reconnects
  BY <1>4, <1>6 DEF Listen, WaitReturns, CtrlC, Shuts, Disconnects, Stops, Severs, GivesUp, Drops, Reconnects, Drop,
     Cut, Reconnect, execVars, vars, callVars, itemVars
<1>7. CASE ((ErrorArrives \/ PlatformCancels) /\ UNCHANGED robotVars) \/ UNCHANGED allVars
  BY <1>4, <1>7 DEF ErrorArrives, PlatformCancels, Call!ErrorReaches, robotVars, itemVars, allVars, execVars, vars,
     callVars
<1> QED
  BY <1>1, <1>2, <1>5, <1>6, <1>7 DEF RobotNext, Platform

-----------------------------------------------------------------------------
(* What is stored, and whose execution a run has.                           *)

\* A number is never taken back, and an execution keeps its opener.
LEMMA CountersGrow ==
  ASSUME Ground, [RobotNext]_allVars
  PROVE  /\ \A t \in Threads : sent[t] =< sent'[t]
         /\ execs =< execs' /\ execs' \in Nat
         /\ \A e \in Execs : opener[e] # <<>> => opener'[e] = opener[e]
         /\ gwExec' \in {0, gwExec} \/ (gwExec' > execs /\ execs' = gwExec')
<1>1. CASE \E t \in Threads : Local(t)
  BY <1>1, GroundFacts DEF Local
<1>2. ASSUME NEW t \in Threads, NEW o, NEW e, Sends(t, o, e)
      PROVE  /\ \A u \in Threads : sent[u] =< sent'[u]
             /\ execs' = execs /\ opener' = opener /\ gwExec' = gwExec
  BY <1>2, GroundFacts DEF Sends
<1>3. CASE \E t \in Threads : Ends(t)
  BY <1>3, EndsDoes, GroundFacts
<1>4. ASSUME NEW m \in wire, Serves(m)
      PROVE  /\ sent' = sent /\ execs =< execs' /\ execs' \in Nat
             /\ \A e \in Execs : opener[e] # <<>> => opener'[e] = opener[e]
             /\ gwExec' \in {0, gwExec} \/ (gwExec' > execs /\ execs' = gwExec')
  <2>1. sent' = sent
    BY <1>4, ServesDoes, GroundFacts
  <2>2. CASE execs' = execs /\ opener' = opener /\ gwExec' \in {0, gwExec}
    BY <2>1, <2>2, GroundFacts
  <2>3. CASE execs < MaxExecs /\ execs' = execs + 1 /\ gwExec' = execs + 1
             /\ opener' = [opener EXCEPT ![execs + 1] = <<m.thread, m.n, socket>>]
    <3>0. execs \in 0..MaxExecs /\ MaxExecs \in Nat /\ DOMAIN opener = Execs /\ ExecsCounted
      BY GroundFacts DEF OpenersMatch
    <3>1. execs + 1 \in Execs /\ opener[execs + 1] = <<>>
      <4>1. execs + 1 \in Execs /\ execs + 1 > execs
        BY <2>3, <3>0 DEF Execs
      <4> QED
        BY <3>0, <4>1 DEF ExecsCounted
    <3>2. \A e \in Execs : opener[e] # <<>> => opener'[e] = opener[e]
      BY <2>3, <3>0, <3>1
    <3>3. execs =< execs' /\ execs' \in Nat /\ gwExec' > execs /\ execs' = gwExec'
      BY <2>3, <3>0
    <3> QED
      BY <2>1, <3>2, <3>3
  <2> QED
    BY <1>4, <2>2, <2>3, ServesDoes, GroundFacts
<1>5. CASE Outside
  BY <1>5, GroundFacts DEF Outside
<1>6. ASSUME NEW t \in Threads, NEW o \in Operations, NEW e \in 0..MaxExecs, Asks(t, o, e) PROVE Sends(t, o, e)
  BY <1>6, AsksDoes, GroundFacts
<1>7. ASSUME NEW t \in Threads, Reports(t) PROVE Sends(t, "task", execution_id)
  BY <1>7, ReportsDoes, GroundFacts
<1>8. execs \in Nat /\ \A t \in Threads : sent[t] \in Nat
  BY GroundFacts
<1>9. ASSUME sent' = sent \/ \A t \in Threads : sent[t] =< sent'[t], execs' = execs, opener' = opener,
             gwExec' \in {0, gwExec}
      PROVE  /\ \A t \in Threads : sent[t] =< sent'[t]
             /\ execs =< execs' /\ execs' \in Nat
             /\ \A e \in Execs : opener[e] # <<>> => opener'[e] = opener[e]
             /\ gwExec' \in {0, gwExec}
  BY <1>8, <1>9
<1>10. CASE \E t \in Threads, o \in Operations, e \in 0..MaxExecs : Asks(t, o, e)
  BY <1>2, <1>6, <1>9, <1>10
<1>11. CASE \E t \in Threads : Reports(t)
  BY <1>2, <1>7, <1>9, <1>11
<1>12. CASE \E m \in wire : Serves(m)
  BY <1>4, <1>8, <1>12
<1> QED
  BY <1>1, <1>3, <1>5, <1>10, <1>11, <1>12, StepShapes, RobotStepIsStep, GroundFacts

LEMMA FiledDoes ==
  ASSUME [RobotNext]_allVars
  PROVE  \/ filed' = filed
         \/ \E m \in wire : Served(m) /\ GatewayServes(m) /\ m.op = "task" /\ filed' = filed \cup {m}
<1>1. ASSUME NEW t \in Threads, Automation(t) \/ AutomationStart(t) PROVE filed' = filed
  BY <1>1 DEF Automation, AutomationStart, Begins, Runs, RunRaises, ProcessItem, ReportItem, EmitItem, LeaveBody,
     RunEnds, robotVars
<1>2. CASE Interrupt \/ Listen \/ WaitReturns \/ CtrlC \/ Shuts \/ Disconnects \/ Stops \/ Severs \/ GivesUp
            \/ Drops \/ Reconnects
  BY <1>2 DEF Interrupt, Listen, WaitReturns, CtrlC, Shuts, Disconnects, Stops, Severs, GivesUp, Drops, Reconnects
<1>3. ASSUME NEW m \in wire, Served(m) PROVE filed' = filed \/ (GatewayServes(m) /\ m.op = "task" /\ filed' = filed \cup {m})
  BY <1>3 DEF Served, Stores
<1>4. CASE ((ErrorArrives \/ PlatformCancels) /\ UNCHANGED robotVars) \/ UNCHANGED allVars
  BY <1>4 DEF robotVars, allVars
<1> QED
  BY <1>1, <1>2, <1>3, <1>4 DEF RobotNext, Platform

LEMMA FiledPreserved ==
  ASSUME Ground, FiledMatch, [RobotNext]_allVars
  PROVE  FiledMatch'
<1>1. IsFiniteSet(wire')
  <2>1. ASSUME NEW t \in Threads, NEW o, NEW e, Sends(t, o, e) PROVE IsFiniteSet(wire')
    <3>1. wire' = wire \/ \E q : wire' = wire \cup {q}
      BY <2>1 DEF Sends
    <3> QED
      BY <3>1, FS_AddElement DEF FiledMatch
  <2>2. ASSUME NEW m \in wire, Serves(m) PROVE IsFiniteSet(wire')
    <3>1. wire' = wire \ {m}
      BY <2>2, ServesDoes, GroundFacts
    <3> QED
      BY <3>1, FS_RemoveElement DEF FiledMatch
  <2>3. ASSUME wire' = wire \/ wire' = {} PROVE IsFiniteSet(wire')
    BY <2>3, FS_EmptySet DEF FiledMatch
  <2>4. ASSUME NEW t \in Threads, Local(t) \/ Ends(t) PROVE wire' = wire
    BY <2>4, EndsDoes, GroundFacts DEF Local
  <2>5. ASSUME NEW t \in Threads, NEW o \in Operations, NEW e \in 0..MaxExecs, Asks(t, o, e) PROVE Sends(t, o, e)
    BY <2>5, AsksDoes, GroundFacts
  <2>6. ASSUME NEW t \in Threads, Reports(t) PROVE Sends(t, "task", execution_id)
    BY <2>6, ReportsDoes, GroundFacts
  <2>7. Outside => wire' = wire \/ wire' = {}
    BY DEF Outside
  <2> QED
    BY <2>1, <2>2, <2>3, <2>4, <2>5, <2>6, <2>7, StepShapes, RobotStepIsStep, GroundFacts
<1>2. IsFiniteSet(filed')
  BY FiledDoes, FS_AddElement DEF FiledMatch
<1>3. ASSUME NEW m \in filed' PROVE m.op = "task" /\ m.n =< sent[m.thread] /\ m.exec =< execs
  <2>1. m \in filed \/ (m \in wire /\ m.op = "task")
    BY <1>3, FiledDoes
  <2> QED
    BY <2>1, GroundFacts DEF FiledMatch, RequestsMatch, ExecsCounted
<1>4. ASSUME NEW m \in filed' PROVE m.n =< sent'[m.thread] /\ m.exec =< execs'
  <2>1. m \in wire \cup filed
    BY <1>4, FiledDoes
  <2>2. m.thread \in Threads /\ m.n \in Nat /\ m.exec \in Nat
    BY <2>1, GroundFacts
  <2>3. sent[m.thread] =< sent'[m.thread] /\ execs =< execs' /\ execs' \in Nat
    BY <2>2, CountersGrow
  <2>4. sent'[m.thread] \in Nat
    <3>1. TypeOK'
      BY RobotCallsPreserved DEF CallsInv
    <3> QED
      BY <2>2, <3>1, ExecutionAssumption DEF TypeOK
  <2> QED
    BY <1>3, <1>4, <2>2, <2>3, <2>4, GroundFacts
<1> QED
  BY <1>1, <1>2, <1>3, <1>4 DEF FiledMatch

LEMMA MinePreserved ==
  ASSUME Ground, MineMatch, [RobotNext]_allVars
  PROVE  MineMatch'
<1>1. ASSUME NEW t \in Threads, mine'[t] # 0 PROVE opener'[mine'[t]] # <<>> /\ opener'[mine'[t]][1] = t
  <2>1. mine'[t] = mine[t] \/ (pc[t] = "started" /\ mine'[t] = answer[t])
    <3>1. ASSUME NEW u \in Threads, Local(u) PROVE mine'[t] = mine[t] \/ (pc[t] = "started" /\ mine'[t] = answer[t])
      BY <3>1 DEF Local
    <3>2. ASSUME NEW u \in Threads, NEW o \in Operations, NEW e \in 0..MaxExecs, Asks(u, o, e) PROVE mine' = mine
      BY <3>2, AsksDoes, GroundFacts DEF Sends
    <3>3. ASSUME NEW u \in Threads, Reports(u) \/ Ends(u) PROVE mine' = mine
      BY <3>3, ReportsDoes, EndsDoes, GroundFacts DEF Sends
    <3>4. ASSUME NEW m \in wire, Serves(m) PROVE mine' = mine
      BY <3>4, ServesDoes, GroundFacts
    <3>5. Outside => mine' = mine
      BY DEF Outside
    <3> QED
      BY <3>1, <3>2, <3>3, <3>4, <3>5, StepShapes, RobotStepIsStep, GroundFacts
  <2>2. opener[mine'[t]] # <<>> /\ opener[mine'[t]][1] = t
    BY <1>1, <2>1, GroundFacts DEF MineMatch, StartsMatch, PlacesMatch
  <2>3. mine'[t] \in Execs
    BY <1>1, <2>1, GroundFacts DEF Execs
  <2> QED
    BY <2>2, <2>3, CountersGrow
<1> QED
  BY <1>1 DEF MineMatch

-----------------------------------------------------------------------------
(* The shapes of the robot's steps.                                         *)

\* A step of the run of t between its calls.
Moves(t) ==
  \/ AutomationStart(t) \/ Begins(t) \/ (StartAssigns(t) /\ UNCHANGED robotVars)
  \/ ProcessItem(t) \/ ReportItem(t) \/ LeaveBody(t) \/ RunEnds(t)
  \/ BodyInterrupted(t) /\ UNCHANGED <<due, itemVars, filed, clean>>

\* It does not touch the calls and the wire, nor the runs of the others.
MovesAlone(t) ==
  /\ UNCHANGED <<wire, sent, calling, accepted, answer, gwExec, execs, status, opener, filed, up, socket>>
  /\ \A u \in Threads : u # t =>
       pc'[u] = pc[u] /\ op'[u] = op[u] /\ mine'[u] = mine[u] /\ item'[u] = item[u] /\ busy'[u] = busy[u]
  /\ pc[t] # "calling" /\ pc'[t] \notin {"calling", "started", "finished"}

LEMMA MovesDoes ==
  ASSUME Ground, NEW t \in Threads, Moves(t)
  PROVE  MovesAlone(t)
<1>0. /\ DOMAIN pc = Threads /\ DOMAIN op = Threads /\ DOMAIN mine = Threads /\ DOMAIN item = Threads
      /\ DOMAIN busy = Threads
  BY GroundFacts
<1>1. CASE AutomationStart(t)
  BY <1>1 DEF AutomationStart, MovesAlone, execVars, vars, runVars, callVars, linkVars, gatewayVars, itemVars
<1>2. CASE Begins(t)
  <2>1. /\ UNCHANGED <<wire, sent, calling, accepted, answer, gwExec, execs, status, opener, filed, up, socket>>
        /\ UNCHANGED <<op, mine>>
    BY <1>2 DEF Begins, StartChecks, execVars, vars, runVars, callVars, linkVars, gatewayVars
  <2>2. pc[t] = "idle"
    BY <1>2 DEF Begins, Ground, RunBudget
  <2>3. pc' = pc \/ pc' = [pc EXCEPT ![t] = "checked"]
    BY <1>2 DEF Begins, StartChecks, execVars, vars
  <2>4. item' = [item EXCEPT ![t] = 0] /\ busy' = [busy EXCEPT ![t] = FALSE]
    BY <1>2 DEF Begins
  <2> QED
    BY <1>0, <2>1, <2>2, <2>3, <2>4 DEF MovesAlone
<1>3. CASE StartAssigns(t) /\ UNCHANGED robotVars
  BY <1>0, <1>3 DEF StartAssigns, MovesAlone, robotVars, callVars, linkVars, gatewayVars, itemVars
<1>4. CASE ProcessItem(t)
  BY <1>0, <1>4 DEF ProcessItem, InBody, MovesAlone, execVars, vars, runVars, callVars, linkVars, gatewayVars
<1>5. CASE ReportItem(t)
  BY <1>0, <1>5 DEF ReportItem, Require, InBody, MovesAlone, execVars, vars, runVars, callVars, linkVars, gatewayVars
<1>6. CASE LeaveBody(t)
  BY <1>0, <1>6 DEF LeaveBody, BodyEnds, MovesAlone, callVars, linkVars, gatewayVars, itemVars
<1>7. CASE RunEnds(t)
  BY <1>0, <1>7 DEF RunEnds, FinishClears, MovesAlone, callVars, linkVars, gatewayVars, itemVars
<1>8. CASE BodyInterrupted(t) /\ UNCHANGED <<due, itemVars, filed, clean>>
  BY <1>0, <1>8 DEF BodyInterrupted, MovesAlone, callVars, linkVars, gatewayVars, itemVars
<1> QED
  BY <1>1, <1>2, <1>3, <1>4, <1>5, <1>6, <1>7, <1>8 DEF Moves

Emits(t) == EmitItem(t) /\ Reports(t)

Asking(t) ==
  \E o \in {"start"} \cup Finishes, k \in 0..MaxExecs : Asks(t, o, k) /\ UNCHANGED <<item, busy, filed, clean>>

\* A step that leaves the runs alone and either what is on the wire too, or closes the socket.
Elsewhere ==
  /\ Outside /\ UNCHANGED <<sent, filed, item, busy, clean>>
  /\ wire' = wire \/ gwExec' = 0
  /\ \/ gwExec' = gwExec /\ status' = status
     \/ ~up' /\ status' = status
     \/ gwExec # 0 /\ status' = [status EXCEPT ![gwExec] = "cancelled"]
  /\ socket' = socket + 1 \/ (socket' = socket /\ (up' => up))

LEMMA RobotShapes ==
  ASSUME Ground, [RobotNext]_allVars
  PROVE  \/ \E t \in Threads : Moves(t)
         \/ \E t \in Threads, o \in {"start"} \cup Finishes, e \in 0..MaxExecs :
              Asks(t, o, e) /\ UNCHANGED <<item, busy, filed, clean>>
         \/ \E t \in Threads : Emits(t)
         \/ \E t \in Threads : Ends(t) /\ UNCHANGED <<item, busy, filed, clean>>
         \/ \E m \in wire : Served(m)
         \/ Elsewhere
<1> DEFINE Goal ==
         \/ \E t \in Threads : Moves(t)
         \/ \E t \in Threads, o \in {"start"} \cup Finishes, e \in 0..MaxExecs :
              Asks(t, o, e) /\ UNCHANGED <<item, busy, filed, clean>>
         \/ \E t \in Threads : Emits(t)
         \/ \E t \in Threads : Ends(t) /\ UNCHANGED <<item, busy, filed, clean>>
         \/ \E m \in wire : Served(m)
         \/ Elsewhere
<1> SUFFICES Goal
  OBVIOUS
<1>1. ASSUME NEW t \in Threads, AutomationStart(t) \/ Begins(t) \/ ProcessItem(t) \/ ReportItem(t) \/ LeaveBody(t)
                               \/ RunEnds(t)
      PROVE Goal
  BY <1>1 DEF Moves
<1>a. ASSUME NEW t \in Threads, pc[t] = "checked" \/ pc[t] = "required" PROVE sent[t] < MaxMessages
  <2>1. item[t] \in 0..MaxItems /\ sent[t] \in Nat /\ MaxItems \in Nat /\ MaxMessages \in Nat
    BY GroundFacts
  <2>2. CASE pc[t] = "checked"
    <3>1. sent[t] + (MaxItems + 2) =< MaxMessages
      BY <2>2 DEF Ground, RunBudget, Budget
    <3> QED
      BY <2>1, <3>1
  <2>3. CASE pc[t] = "required" /\ op[t] = "task"
    <3>1. sent[t] + (MaxItems - item[t] + 2) =< MaxMessages
      BY <2>3 DEF Ground, RunBudget, Budget
    <3> QED
      BY <2>1, <3>1
  <2>4. CASE pc[t] = "required" /\ op[t] # "task"
    <3>1. sent[t] + 1 =< MaxMessages
      BY <2>4 DEF Ground, RunBudget, Budget
    <3> QED
      BY <2>1, <3>1
  <2> QED
    BY <1>a, <2>2, <2>3, <2>4
<1>2. ASSUME NEW t \in Threads, StartCalls(t), UNCHANGED robotVars PROVE Goal
  <2>1. Asks(t, "start", 0) /\ "start" \in {"start"} \cup Finishes
    BY <1>2, <1>a, ZeroIsExec DEF StartCalls, Asks, Operations
  <2>2. UNCHANGED <<item, busy, filed, clean>>
    BY <1>2 DEF robotVars, itemVars
  <2> QED
    BY <2>1, <2>2, ZeroIsExec
<1>3. ASSUME NEW t \in Threads, op[t] # "task", RequiredCalls(t), UNCHANGED robotVars PROVE Goal
  <2>1. pc[t] = "required" /\ op[t] \in Finishes /\ execution_id \in 0..MaxExecs /\ op[t] # "task"
    BY <1>3, GroundFacts DEF RequiredCalls, PlacesMatch, Ground, ItemsMatch
  <2>2. Asks(t, op[t], execution_id)
    BY <1>3, <1>a, <2>1 DEF RequiredCalls, Asks, Operations, Finishes
  <2>3. UNCHANGED <<item, busy, filed, clean>>
    BY <1>3 DEF robotVars, itemVars
  <2> QED
    BY <2>1, <2>2, <2>3
<1>4. ASSUME NEW t \in Threads, Runs(t) PROVE Goal
  <2>1. CASE StartAssigns(t) /\ UNCHANGED robotVars
    BY <2>1 DEF Moves
  <2>2. CASE CallReturns(t) /\ UNCHANGED robotVars
    <3>1. Ends(t) /\ UNCHANGED <<item, busy, filed, clean>>
      BY <2>2 DEF Ends, robotVars, itemVars
    <3> QED
      BY <3>1
  <2> HIDE DEF Goal
  <2> QED
    BY <1>2, <1>3, <1>4, <2>1, <2>2 DEF Runs
<1>5. ASSUME NEW t \in Threads, RunRaises(t) PROVE Goal
  <2>1. Ends(t) /\ UNCHANGED <<item, busy, filed, clean>>
    BY <1>5 DEF RunRaises, Ends, itemVars
  <2> QED
    BY <2>1
<1>6. ASSUME NEW t \in Threads, EmitItem(t) PROVE Goal
  <2>1. Emits(t)
    BY <1>6, <1>a DEF EmitItem, ReportTasks, Reports, Emits
  <2> QED
    BY <2>1
<1>7. CASE Interrupt
  <2>1. Moves(Main) /\ Main \in Threads
    BY <1>7, GroundFacts DEF Interrupt, Moves
  <2> QED
    BY <2>1
<1>8. CASE Listen \/ WaitReturns \/ CtrlC \/ Shuts \/ Disconnects \/ Stops \/ GivesUp
  <2>1. Elsewhere
    BY <1>8, GroundFacts DEF Listen, WaitReturns, CtrlC, Shuts, Disconnects, Stops, GivesUp, Elsewhere, Outside, SocketMatches, execVars, vars, runVars,
       callVars, linkVars, gatewayVars, itemVars
  <2> QED
    BY <2>1
<1>9. CASE Severs \/ Drops
  <2>1. Elsewhere
    BY <1>9 DEF Severs, Drops, Drop, Cut, Elsewhere, Outside, runVars, callVars, itemVars
  <2> QED
    BY <2>1
<1>10. CASE Reconnects
  <2>1. Elsewhere
    BY <1>10 DEF Reconnects, Reconnect, Elsewhere, Outside, runVars, callVars, gatewayVars, itemVars
  <2> QED
    BY <2>1
<1>11. CASE (ErrorArrives \/ PlatformCancels) /\ UNCHANGED robotVars
  <2>1. Elsewhere
    BY <1>11, GroundFacts DEF ErrorArrives, PlatformCancels, Call!ErrorReaches, Elsewhere, Outside, SocketMatches,
       runVars, callVars, linkVars, gatewayVars, robotVars, itemVars
  <2> QED
    BY <2>1
<1>12. CASE UNCHANGED allVars
  <2>1. Elsewhere
    BY <1>12, GroundFacts DEF Elsewhere, Outside, SocketMatches, allVars, execVars, vars, runVars, callVars, linkVars,
       gatewayVars, robotVars, itemVars
  <2> QED
    BY <2>1
<1>13. ASSUME NEW m \in wire, Served(m) PROVE Goal
  BY <1>13
<1> HIDE DEF Goal
<1>14. ASSUME NEW t \in Threads, AutomationStart(t) \/ Automation(t) PROVE Goal
  BY <1>1, <1>4, <1>5, <1>6, <1>14 DEF Automation
<1>15. CASE Platform
  BY <1>11, <1>13, <1>15 DEF Platform
<1> QED
  BY <1>7, <1>8, <1>9, <1>10, <1>12, <1>14, <1>15 DEF RobotNext

-----------------------------------------------------------------------------
(* The reports of a run.                                                    *)

\* The gateway takes m: what that does to the wire and to what is stored.
LEMMA ServedDoes ==
  ASSUME Ground, NEW m \in wire, Served(m)
  PROVE  /\ Serves(m) /\ InOrder(m)
         /\ wire' = wire \ {m} /\ calling' = calling
         /\ UNCHANGED <<execution_id, mine, pc, op, sent, up, socket, failedStarts, item, busy, clean>>
         /\ filed \subseteq filed' /\ filed' \subseteq filed \cup {m}
         /\ m \in filed' => m \in filed \/ (m.op = "task" /\ m.exec = gwExec /\ gwExec # 0)
         /\ m.op = "task" /\ m.exec = gwExec /\ gwExec # 0 => m \in filed'
<1>1. Serves(m)
  BY DEF Served, Serves
<1>2. /\ wire' = wire \ {m} /\ calling' = calling
      /\ UNCHANGED <<execution_id, mine, pc, op, sent, up, socket, failedStarts>>
  BY <1>1, ServesDoes, GroundFacts
<1>3. InOrder(m) /\ UNCHANGED <<item, busy, clean>>
  BY DEF Served, itemVars
<1>4. CASE GatewayOpens(m) /\ filed' = filed
  BY <1>1, <1>2, <1>3, <1>4 DEF GatewayOpens, Opens
<1>5. CASE GatewayRejects(m) /\ filed' = filed
  BY <1>1, <1>2, <1>3, <1>5 DEF GatewayRejects, Concerns
<1>6. CASE GatewayServes(m) /\ Stores(m)
  BY <1>1, <1>2, <1>3, <1>6 DEF GatewayServes, Concerns, Stores
<1> QED
  BY <1>4, <1>5, <1>6 DEF Served

(* A report that is on the wire, or stored, was made by an earlier message. *)
LEMMA MadeIsOld ==
  ASSUME Ground, FiledMatch, NEW t \in Threads, NEW e, NEW m \in Made(t, e)
  PROVE  m.n =< sent[t] /\ m.n \in Nat /\ m.exec =< execs
BY GroundFacts DEF Made, FiledMatch, RequestsMatch, ExecsCounted

LEMMA MadeIsFinite ==
  ASSUME FiledMatch, NEW t, NEW e
  PROVE  IsFiniteSet(Made(t, e)) /\ IsFiniteSet(Stored(t, e))
<1>1. IsFiniteSet(wire \cup filed)
  BY FS_Union DEF FiledMatch
<1>2. Made(t, e) \subseteq wire \cup filed /\ Stored(t, e) \subseteq filed
  BY DEF Made, Stored
<1> QED
  BY <1>1, <1>2, FS_Subset DEF FiledMatch

(* A step in which t sends nothing makes no report of t ... *)
LEMMA MadeShrinks ==
  ASSUME Ground, [RobotNext]_allVars, NEW t \in Threads, NEW e,
         ~Asking(t), ~Emits(t)
  PROVE  Made(t, e)' \subseteq Made(t, e)
<1>1. CASE \E u \in Threads : Moves(u)
  BY <1>1, MovesDoes DEF MovesAlone, Made
<1>2. ASSUME NEW u \in Threads, u # t, NEW o, NEW k, Sends(u, o, k), filed' = filed
      PROVE Made(t, e)' \subseteq Made(t, e)
  BY <1>2 DEF Sends, Made
<1>3. CASE \E u \in Threads : Ends(u) /\ UNCHANGED <<item, busy, filed, clean>>
  BY <1>3, EndsDoes, GroundFacts DEF Made
<1>4. ASSUME NEW m \in wire, Served(m) PROVE Made(t, e)' \subseteq Made(t, e)
  BY <1>4, ServedDoes DEF Made
<1>5. CASE Elsewhere
  BY <1>5 DEF Elsewhere, Outside, Made
<1>6. ASSUME NEW u \in Threads, NEW o \in {"start"} \cup Finishes, NEW k \in 0..MaxExecs, Asks(u, o, k),
             UNCHANGED <<item, busy, filed, clean>>
      PROVE Made(t, e)' \subseteq Made(t, e)
  <2>1. Sends(u, o, k) /\ u # t
    <3>1. o \in Operations
      BY DEF Operations
    <3> QED
      BY <1>6, <3>1, AsksDoes, GroundFacts DEF Asking
  <2> QED
    BY <1>2, <1>6, <2>1
<1>7. ASSUME NEW u \in Threads, Emits(u) PROVE Made(t, e)' \subseteq Made(t, e)
  <2>1. Sends(u, "task", execution_id) /\ filed' = filed /\ u # t
    BY <1>7, ReportsDoes, GroundFacts DEF Emits, EmitItem
  <2> QED
    BY <1>2, <2>1
<1> QED
  BY <1>1, <1>3, <1>4, <1>5, <1>6, <1>7, RobotShapes

(* ... and no report under an execution is lost that the gateway keeps. *)
LEMMA MadeKept ==
  ASSUME Ground, [RobotNext]_allVars, NEW t \in Threads, NEW e, e # 0, gwExec = e, gwExec' = e
  PROVE  Made(t, e) \subseteq Made(t, e)'
<1>1. ASSUME wire \subseteq wire', filed \subseteq filed' PROVE Made(t, e) \subseteq Made(t, e)'
  BY <1>1 DEF Made
<1>2. CASE \E u \in Threads : Moves(u)
  BY <1>1, <1>2, MovesDoes DEF MovesAlone
<1>3. ASSUME NEW u \in Threads, NEW o, NEW k, Sends(u, o, k) PROVE wire \subseteq wire'
  BY <1>3 DEF Sends
<1>4. CASE \E u \in Threads : Ends(u) /\ UNCHANGED <<item, busy, filed, clean>>
  BY <1>1, <1>4, EndsDoes, GroundFacts
<1>5. ASSUME NEW m \in wire, Served(m) PROVE Made(t, e) \subseteq Made(t, e)'
  BY <1>5, ServedDoes DEF Made
<1>6. CASE Elsewhere
  BY <1>1, <1>6 DEF Elsewhere
<1>7. ASSUME NEW u \in Threads, NEW o \in {"start"} \cup Finishes, NEW k \in 0..MaxExecs, Asks(u, o, k),
             UNCHANGED <<item, busy, filed, clean>>
      PROVE Made(t, e) \subseteq Made(t, e)'
  <2>1. Sends(u, o, k)
    <3>1. o \in Operations
      BY DEF Operations
    <3> QED
      BY <1>7, <3>1, AsksDoes, GroundFacts
  <2> QED
    BY <1>1, <1>3, <1>7, <2>1
<1>8. ASSUME NEW u \in Threads, Emits(u) PROVE Made(t, e) \subseteq Made(t, e)'
  <2>1. Sends(u, "task", execution_id) /\ filed' = filed
    BY <1>8, ReportsDoes, GroundFacts DEF Emits, EmitItem
  <2> QED
    BY <1>1, <1>3, <2>1
<1> QED
  BY <1>2, <1>4, <1>5, <1>6, <1>7, <1>8, RobotShapes

(* Nothing is stored under an execution the gateway does not hold. *)
LEMMA StoredKept ==
  ASSUME [RobotNext]_allVars, NEW t, NEW e, gwExec # e
  PROVE  Stored(t, e)' = Stored(t, e)
<1>1. CASE filed' = filed
  BY <1>1 DEF Stored
<1>2. ASSUME NEW m \in wire, GatewayServes(m), filed' = filed \cup {m} PROVE Stored(t, e)' = Stored(t, e)
  <2>1. m.exec # e
    BY <1>2 DEF GatewayServes, Concerns
  <2> QED
    BY <1>2, <2>1 DEF Stored
<1> QED
  BY <1>1, <1>2, FiledDoes

(* A start or a finish sends no report; a report of t is one more, made by its next message. *)
LEMMA AsksMakesNone ==
  ASSUME Ground, NEW t \in Threads, NEW u \in Threads, NEW o \in {"start"} \cup Finishes, NEW k \in 0..MaxExecs,
         Asks(t, o, k), filed' = filed, NEW e
  PROVE  Made(u, e)' = Made(u, e)
<1>1. Sends(t, o, k)
  <2>1. o \in Operations
    BY DEF Operations
  <2> QED
    BY <2>1, AsksDoes, GroundFacts
<1>2. wire' = wire \/ \E q : wire' = wire \cup {q} /\ q.op = o
  BY <1>1 DEF Sends
<1> QED
  BY <1>2 DEF Made, Finishes

LEMMA EmitsMakesOne ==
  ASSUME Ground, FiledMatch, NEW t \in Threads, Emits(t), Send(t, "task", execution_id)
  PROVE  Cardinality(Made(t, execution_id)') = Cardinality(Made(t, execution_id)) + 1
<1>1. filed' = filed /\ sent[t] < MaxMessages
  BY DEF Emits, EmitItem, Reports, ReportTasks
<1>2. PICK q \in Messages : /\ wire' = wire \cup {q}
                            /\ q.thread = t /\ q.n = sent[t] + 1 /\ q.op = "task" /\ q.exec = execution_id
  <2>1. "task" \in Operations
    BY DEF Operations
  <2>2. TypeOK /\ execution_id \in 0..MaxExecs
    BY GroundFacts
  <2> QED
    BY <1>1, <2>1, <2>2, SendDoes
<1>3. Made(t, execution_id)' = Made(t, execution_id) \cup {q}
  <2>1. execution_id' = execution_id
    BY DEF Emits, EmitItem, ReportTasks, runVars
  <2>2. \A m : m \in Made(t, execution_id)' <=> m \in Made(t, execution_id) \/ m = q
    BY <1>1, <1>2, <2>1 DEF Made
  <2> QED
    BY <2>2
<1>4. q \notin Made(t, execution_id)
  <2>1. sent[t] \in Nat
    BY GroundFacts
  <2> QED
    BY <1>2, <2>1, MadeIsOld
<1> QED
  BY <1>3, <1>4, FS_AddElement, MadeIsFinite

-----------------------------------------------------------------------------
(* The reports of a run are stored before its finish is acknowledged.       *)

(* A message of another thread makes no report of t. *)
LEMMA OthersMakeNone ==
  ASSUME NEW t \in Threads, NEW u \in Threads, u # t, NEW o, NEW k, Sends(u, o, k), filed' = filed, NEW e
  PROVE  Made(t, e)' = Made(t, e)
<1>1. wire' = wire \/ \E q : wire' = wire \cup {q} /\ q.thread = u
  BY DEF Sends
<1> QED
  BY <1>1 DEF Made

(* What is acknowledged to t: nothing new, or the message it awaits. *)
LEMMA AcknowledgedDoes ==
  ASSUME Ground, [RobotNext]_allVars, NEW t \in Threads, t \in accepted' \/ pc'[t] \in {"started", "finished"}
  PROVE  /\ op'[t] = op[t] /\ mine'[t] = mine[t] /\ item'[t] = item[t]
         /\ ~Asking(t)
         /\ ~Emits(t)
         /\ \/ (t \in accepted \/ pc[t] \in {"started", "finished"}) /\ answer'[t] = answer[t]
            \/ \E m \in wire :
                 /\ Served(m) /\ Awaited(m) /\ m.thread = t
                 /\ \/ m.op = "start" /\ answer'[t] = execs + 1
                    \/ m.op # "start" /\ m.exec = gwExec /\ gwExec # 0 /\ answer'[t] = gwExec
                       /\ (m.op \in Finishes => gwExec' = 0)
<1> DEFINE Goal == /\ op'[t] = op[t] /\ mine'[t] = mine[t] /\ item'[t] = item[t]
                   /\ \/ (t \in accepted \/ pc[t] \in {"started", "finished"}) /\ answer'[t] = answer[t]
                      \/ \E m \in wire :
                           /\ Served(m) /\ Awaited(m) /\ m.thread = t
                           /\ \/ m.op = "start" /\ answer'[t] = execs + 1
                              \/ m.op # "start" /\ m.exec = gwExec /\ gwExec # 0 /\ answer'[t] = gwExec
                                 /\ (m.op \in Finishes => gwExec' = 0)
<1>0. /\ TypeOK /\ PlacesMatch /\ ExecsCounted /\ accepted \subseteq calling
      /\ DOMAIN pc = Threads /\ DOMAIN op = Threads
      /\ pc[t] # "calling" => t \notin accepted
  BY GroundFacts DEF PlacesMatch
<1>1. ASSUME NEW o \in {"start"} \cup Finishes, NEW k \in 0..MaxExecs, Asks(t, o, k) PROVE FALSE
  <2>1. o \in Operations
    BY DEF Operations
  <2>2. Sends(t, o, k) /\ pc' = [pc EXCEPT ![t] = "calling"]
    BY <1>0, <1>1, <2>1, AsksDoes
  <2>3. accepted' = accepted /\ t \notin calling
    BY <2>2 DEF Sends
  <2> QED
    BY <1>0, <2>2, <2>3
<1>2. ASSUME Emits(t) PROVE FALSE
  <2>1. pc[t] = "required" /\ pc' = [pc EXCEPT ![t] = "body"] /\ accepted' = accepted
    BY <1>0, <1>2, ReportsDoes DEF Emits
  <2> QED
    BY <1>0, <2>1
<1>3. ASSUME NEW u \in Threads, Moves(u) PROVE Goal
  <2>1. /\ MovesAlone(u) /\ UNCHANGED <<accepted, answer>>
    BY <1>3, MovesDoes DEF MovesAlone
  <2>2. u # t
    BY <1>0, <2>1 DEF MovesAlone
  <2> QED
    BY <2>1, <2>2 DEF MovesAlone
<1>a. ASSUME NEW u \in Threads, u # t, NEW o, NEW k, Sends(u, o, k), item' = item, op'[t] = op[t], pc'[t] = pc[t],
             answer'[t] = answer[t]
      PROVE Goal
  BY <1>a DEF Sends
<1>4. ASSUME NEW u \in Threads, NEW o \in {"start"} \cup Finishes, NEW k \in 0..MaxExecs, Asks(u, o, k), item' = item
      PROVE Goal
  <2>1. o \in Operations /\ u # t
    BY <1>1, <1>4 DEF Operations
  <2>2. /\ Sends(u, o, k) /\ pc' = [pc EXCEPT ![u] = "calling"] /\ op' = [op EXCEPT ![u] = o]
        /\ answer' = [answer EXCEPT ![u] = 0]
    BY <1>0, <1>4, <2>1, AsksDoes
  <2>3. op'[t] = op[t] /\ pc'[t] = pc[t] /\ answer'[t] = answer[t]
    BY <1>0, <2>1, <2>2, GroundFacts
  <2> HIDE DEF Goal
  <2> QED
    BY <1>4, <1>a, <2>1, <2>2, <2>3
<1>5. ASSUME NEW u \in Threads, Emits(u) PROVE Goal
  <2>1. u # t
    BY <1>2, <1>5
  <2>2. Sends(u, "task", execution_id) /\ pc' = [pc EXCEPT ![u] = "body"] /\ UNCHANGED <<op, answer, item>>
    BY <1>0, <1>5, ReportsDoes DEF Emits, EmitItem
  <2>3. op'[t] = op[t] /\ pc'[t] = pc[t] /\ answer'[t] = answer[t]
    BY <1>0, <2>1, <2>2
  <2> HIDE DEF Goal
  <2> QED
    BY <1>a, <2>1, <2>2, <2>3
<1>6. ASSUME NEW u \in Threads, Ends(u), item' = item PROVE Goal
  <2>1. /\ accepted' = accepted \ {u} /\ UNCHANGED <<mine, op, answer>>
        /\ \/ u \in accepted /\ \E place : pc' = [pc EXCEPT ![u] = place]
           \/ \E place : pc' = [pc EXCEPT ![u] = place] /\ place \notin {"started", "finished"}
    BY <1>0, <1>6, EndsDoes
  <2> QED
    BY <1>0, <1>6, <2>1
<1>7. ASSUME NEW m \in wire, Served(m) PROVE Goal
  <2>1. Serves(m) /\ UNCHANGED <<mine, pc, op, item>>
    BY <1>7, ServedDoes
  <2>2. execs < MaxExecs => execs + 1 \in 0..MaxExecs
    BY GroundFacts
  <2>3. gwExec \in 0..MaxExecs
    BY GroundFacts
  <2>4. ASSUME NEW e \in 0..MaxExecs, Acknowledge(m, e)
        PROVE  \/ answer'[t] = answer[t] /\ (t \in accepted' => t \in accepted)
               \/ t = m.thread /\ Awaited(m) /\ answer'[t] = e
    BY <1>0, <2>4, AcknowledgeDoes
  <2>5. CASE m.op = "start" /\ execs < MaxExecs /\ Acknowledge(m, execs + 1)
    BY <1>7, <2>1, <2>2, <2>4, <2>5
  <2>6. CASE m.op # "start" /\ m.exec = gwExec /\ gwExec # 0 /\ (m.op \in Finishes => gwExec' = 0)
             /\ Acknowledge(m, gwExec)
    BY <1>7, <2>1, <2>3, <2>4, <2>6
  <2>7. CASE UNCHANGED <<accepted, answer>>
    BY <2>1, <2>7
  <2> HIDE DEF Goal
  <2> QED
    BY <1>0, <2>1, <2>5, <2>6, <2>7, ServesDoes
<1>8. ASSUME Elsewhere PROVE Goal
  <2>1. UNCHANGED <<pc, op, mine, item, accepted, answer>>
    BY <1>8 DEF Elsewhere, Outside
  <2> QED
    BY <2>1
<1>9. Goal
  <2> HIDE DEF Goal
  <2>1. CASE \E u \in Threads : Ends(u) /\ UNCHANGED <<item, busy, filed, clean>>
    BY <1>6, <2>1
  <2>2. CASE \E u \in Threads, o \in {"start"} \cup Finishes, k \in 0..MaxExecs :
               Asks(u, o, k) /\ UNCHANGED <<item, busy, filed, clean>>
    BY <1>4, <2>2
  <2>3. Elsewhere => Goal
    BY <1>8 DEF Goal
  <2> QED
    BY <1>3, <1>5, <1>7, <2>1, <2>2, <2>3, RobotShapes
<1> QED
  BY <1>1, <1>2, <1>9 DEF Asking

LEMMA NoneReportedPreserved ==
  ASSUME Ground, FiledMatch, NoneReported, [RobotNext]_allVars
  PROVE  NoneReported'
<1>1. ASSUME NEW t \in Threads, op'[t] = "start", t \in accepted' \/ pc'[t] = "started"
      PROVE  Made(t, answer[t])' = {}
  <2>1. /\ op[t] = "start"
        /\ ~Asking(t)
        /\ ~Emits(t)
        /\ \/ (t \in accepted \/ pc[t] \in {"started", "finished"}) /\ answer'[t] = answer[t]
           \/ \E m \in wire : Awaited(m) /\ m.thread = t /\ (m.op = "start" => answer'[t] = execs + 1)
    BY <1>1, AcknowledgedDoes
  <2>2. \A e : Made(t, e)' \subseteq Made(t, e)
    BY <2>1, MadeShrinks
  <2>3. Made(t, answer'[t]) = {}
    <3>1. CASE (t \in accepted \/ pc[t] \in {"started", "finished"}) /\ answer'[t] = answer[t]
      <4>1. pc[t] # "finished"
        BY <2>1, GroundFacts DEF PlacesMatch, Finishes
      <4> QED
        BY <2>1, <3>1, <4>1 DEF NoneReported
    <3>2. CASE answer'[t] = execs + 1
      <4>1. \A m \in Made(t, execs + 1) : m.exec = execs + 1 /\ m.exec =< execs
        BY MadeIsOld DEF Made
      <4> QED
        BY <3>2, <4>1, GroundFacts
    <3> QED
      BY <2>1, <3>1, <3>2 DEF Awaited
  <2>4. PICK e : e = answer'[t]
    OBVIOUS
  <2>5. Made(t, e)' = {}
    BY <2>2, <2>3, <2>4
  <2> QED
    BY <2>4, <2>5 DEF Made
<1> QED
  BY <1>1 DEF NoneReported

(* An execution that is over stays over. *)
LEMMA OverIsOver ==
  ASSUME Ground, [RobotNext]_allVars, NEW e \in Nat, e # 0, e =< execs, gwExec # e
  PROVE  gwExec' # e /\ e =< execs'
<1>1. execs \in Nat /\ execs =< execs' /\ execs' \in Nat /\ (gwExec' \in {0, gwExec} \/ gwExec' > execs)
      /\ (gwExec' \in {0, gwExec} \/ gwExec' = execs')
  BY CountersGrow, GroundFacts
<1> QED
  BY <1>1

LEMMA AllStoredPreserved ==
  ASSUME Ground, FiledMatch, FinishIsLast, AllStored, [RobotNext]_allVars
  PROVE  AllStored'
<1>1. ASSUME NEW t \in Threads, op'[t] = "completed", t \in accepted' \/ pc'[t] = "finished", answer'[t] = mine'[t]
      PROVE  gwExec' # mine[t] /\ Cardinality(Stored(t, mine[t])') = item[t]
             /\ mine'[t] = mine[t] /\ item'[t] = item[t]
  <2>1. /\ op[t] = "completed" /\ mine'[t] = mine[t] /\ item'[t] = item[t]
        /\ \/ (t \in accepted \/ pc[t] \in {"started", "finished"}) /\ answer'[t] = answer[t]
           \/ \E m \in wire : /\ Served(m) /\ Awaited(m) /\ m.thread = t /\ m.op # "start"
                              /\ m.exec = gwExec /\ gwExec # 0 /\ answer'[t] = gwExec
                              /\ (m.op \in Finishes => gwExec' = 0)
    <3>1. op[t] = "completed"
      BY <1>1, AcknowledgedDoes
    <3> QED
      BY <1>1, <3>1, AcknowledgedDoes DEF Awaited
  <2>2. CASE (t \in accepted \/ pc[t] \in {"started", "finished"}) /\ answer'[t] = answer[t]
    <3>1. t \in accepted \/ pc[t] = "finished"
      BY <2>1, <2>2, GroundFacts DEF PlacesMatch
    <3>2. gwExec # mine[t] /\ Cardinality(Stored(t, mine[t])) = item[t]
      BY <1>1, <2>1, <2>2, <3>1 DEF AllStored
    <3>3. mine[t] # 0 /\ mine[t] =< execs /\ mine[t] \in Nat
      BY <1>1, <2>1, <2>2, <3>1, GroundFacts DEF Ground, ItemsMatch, ExecsCounted
    <3>4. Stored(t, mine[t])' = Stored(t, mine[t])
      <4>1. PICK e : e = mine[t]
        OBVIOUS
      <4>2. Stored(t, e)' = Stored(t, e)
        BY <3>2, <4>1, StoredKept
      <4> QED
        BY <2>1, <4>1, <4>2 DEF Stored
    <3> QED
      BY <2>1, <3>2, <3>3, <3>4, OverIsOver
  <2>3. ASSUME NEW m \in wire, Served(m), Awaited(m), m.thread = t, m.exec = gwExec, gwExec # 0, answer'[t] = gwExec,
               m.op \in Finishes => gwExec' = 0
        PROVE gwExec' # mine[t] /\ Cardinality(Stored(t, mine[t])') = item[t]
    <3>1. m.op = "completed" /\ m.n = sent[t] /\ t \in calling /\ gwExec = mine[t] /\ gwExec' = 0
      BY <1>1, <2>1, <2>3 DEF Awaited, Finishes
    <3>2. Cardinality(Made(t, gwExec)) = item[t]
      BY <2>3, <3>1 DEF FinishIsLast
    <3>3. filed' = filed
      <4>1. filed \subseteq filed' /\ filed' \subseteq filed \cup {m} /\ (m \in filed' => m \in filed \/ m.op = "task")
        BY <2>3, ServedDoes
      <4> QED
        BY <3>1, <4>1
    <3>4. Made(t, gwExec) = Stored(t, gwExec)
      <4>1. ASSUME NEW k \in wire, k.thread = t, k.op = "task" PROVE FALSE
        <5>1. m.n =< k.n /\ k.n =< sent[t] /\ m.n \in Nat /\ k.n \in Nat /\ sent[t] \in Nat
          BY <2>3, <4>1, ServedDoes, GroundFacts DEF InOrder, RequestsMatch
        <5>2. k.n = m.n
          BY <3>1, <5>1
        <5> QED
          BY <2>3, <3>1, <4>1, <5>2, GroundFacts DEF RequestsMatch
      <4> QED
        BY <4>1 DEF Made, Stored, FiledMatch
    <3>5. Stored(t, mine[t])' = Stored(t, gwExec)
      BY <2>1, <3>1, <3>3 DEF Stored
    <3> QED
      BY <2>3, <3>1, <3>2, <3>4, <3>5
  <2> QED
    BY <2>1, <2>2, <2>3
<1> QED
  BY <1>1 DEF AllStored

LEMMA CleanDoes ==
  ASSUME Ground, [RobotNext]_allVars
  PROVE  \/ clean' = clean
         \/ \E t \in Threads :
              /\ pc[t] = "finished" /\ op[t] = "completed" /\ answer[t] = mine[t] /\ UNCHANGED <<filed, gwExec, execs>>
              /\ clean' = clean \cup {[thread |-> t, exec |-> mine[t], items |-> item[t]]}
<1>1. ASSUME NEW t \in Threads, Moves(t)
      PROVE  \/ clean' = clean
             \/ /\ pc[t] = "finished" /\ op[t] = "completed" /\ answer[t] = mine[t] /\ UNCHANGED <<filed, gwExec, execs>>
                /\ clean' = clean \cup {[thread |-> t, exec |-> mine[t], items |-> item[t]]}
  BY <1>1 DEF Moves, AutomationStart, Begins, ProcessItem, ReportItem, LeaveBody, RunEnds, FinishClears, robotVars,
     gatewayVars
<1>2. (\E m \in wire : Served(m)) \/ Elsewhere => clean' = clean
  BY DEF Served, Elsewhere
<1>3. (\E t \in Threads : Emits(t)) => clean' = clean
  BY DEF Emits, EmitItem
<1> QED
  BY <1>1, <1>2, <1>3, RobotShapes

LEMMA CleanPreserved ==
  ASSUME Ground, AllStored, CleanIsOver, CleanRunIsComplete, [RobotNext]_allVars
  PROVE  CleanIsOver' /\ CleanRunIsComplete'
<1>1. ASSUME NEW r \in clean PROVE gwExec' # r.exec /\ r.exec =< execs' /\ Stored(r.thread, r.exec)' = Stored(r.thread, r.exec)
                                   /\ Cardinality(Stored(r.thread, r.exec)) = r.items
  <2>1. r.exec \in Nat /\ r.exec # 0
    BY ExecutionAssumption DEF Ground, RobotTypes
  <2>2. gwExec # r.exec /\ r.exec =< execs /\ Cardinality(Stored(r.thread, r.exec)) = r.items
    BY DEF CleanIsOver, CleanRunIsComplete, Stored
  <2> QED
    BY <2>1, <2>2, OverIsOver, StoredKept
<1>2. ASSUME NEW t \in Threads, pc[t] = "finished", op[t] = "completed", answer[t] = mine[t],
             UNCHANGED <<filed, gwExec, execs>>
      PROVE gwExec' # mine[t] /\ mine[t] =< execs' /\ Stored(t, mine[t]) = {m \in filed' : m.thread = t /\ m.exec = mine[t]}
            /\ Cardinality(Stored(t, mine[t])) = item[t]
  BY <1>2, GroundFacts DEF AllStored, ExecsCounted, Stored
<1>3. ASSUME NEW r \in clean'
      PROVE  /\ gwExec' # r.exec /\ r.exec =< execs'
             /\ Cardinality({m \in filed' : m.thread = r.thread /\ m.exec = r.exec}) = r.items
  <2>1. CASE r \in clean
    BY <1>1, <2>1 DEF Stored
  <2>2. CASE r \notin clean
    <3>1. PICK t \in Threads :
              /\ pc[t] = "finished" /\ op[t] = "completed" /\ answer[t] = mine[t] /\ UNCHANGED <<filed, gwExec, execs>>
              /\ r = [thread |-> t, exec |-> mine[t], items |-> item[t]]
      BY <1>3, <2>2, CleanDoes
    <3>2. r.thread = t /\ r.exec = mine[t] /\ r.items = item[t]
      BY <3>1
    <3> QED
      BY <1>2, <3>1, <3>2
  <2> QED
    BY <2>1, <2>2
<1> QED
  BY <1>3 DEF CleanIsOver, CleanRunIsComplete

(* A thread that waits, and has just begun to or does so already. *)
LEMMA WaitingDoes ==
  ASSUME Ground, [RobotNext]_allVars, NEW t \in Threads, t \in calling',
         ~Asking(t)
  PROVE  /\ t \in calling /\ sent'[t] = sent[t] /\ mine'[t] = mine[t] /\ item'[t] = item[t]
         /\ pc'[t] = pc[t] /\ op'[t] = op[t] /\ ~Emits(t)
         /\ \A m \in wire' : m.thread = t => m \in wire
<1> DEFINE Goal == /\ t \in calling /\ sent'[t] = sent[t] /\ mine'[t] = mine[t] /\ item'[t] = item[t]
                   /\ pc'[t] = pc[t] /\ op'[t] = op[t]
                   /\ \A m \in wire' : m.thread = t => m \in wire
<1>0. /\ TypeOK /\ PlacesMatch /\ ExecsCounted /\ DOMAIN pc = Threads /\ DOMAIN op = Threads
      /\ pc[t] # "calling" => t \notin calling
  BY GroundFacts DEF PlacesMatch
<1>1. ASSUME Emits(t) PROVE FALSE
  <2>1. pc[t] = "required" /\ calling' = calling
    BY <1>0, <1>1, ReportsDoes DEF Emits
  <2> QED
    BY <1>0, <2>1
<1>2. ASSUME NEW u \in Threads, Moves(u) PROVE Goal
  <2>1. MovesAlone(u) /\ UNCHANGED <<calling, sent, wire>>
    BY <1>2, MovesDoes DEF MovesAlone
  <2>2. u # t
    BY <1>0, <2>1 DEF MovesAlone
  <2> QED
    BY <2>1, <2>2 DEF MovesAlone
<1>a. ASSUME NEW u \in Threads, u # t, NEW o, NEW k, Sends(u, o, k), item' = item, op'[t] = op[t], pc'[t] = pc[t],
             t \in calling
      PROVE Goal
  <2>1. /\ wire' = wire \/ \E q : wire' = wire \cup {q} /\ q.thread = u
        /\ mine' = mine /\ sent'[t] = sent[t]
    BY <1>a DEF Sends
  <2> QED
    BY <1>a, <2>1
<1>3. ASSUME NEW u \in Threads, NEW o \in {"start"} \cup Finishes, NEW k \in 0..MaxExecs, Asks(u, o, k), UNCHANGED <<item, busy, filed, clean>>
      PROVE Goal
  <2>1. o \in Operations /\ u # t
    BY <1>3 DEF Operations, Asking
  <2>2. /\ Sends(u, o, k) /\ pc' = [pc EXCEPT ![u] = "calling"] /\ op' = [op EXCEPT ![u] = o]
        /\ calling' \subseteq calling \cup {u}
    BY <1>0, <1>3, <2>1, AsksDoes
  <2>3. op'[t] = op[t] /\ pc'[t] = pc[t] /\ t \in calling
    BY <1>0, <2>1, <2>2
  <2> HIDE DEF Goal
  <2> QED
    BY <1>3, <1>a, <2>1, <2>2, <2>3
<1>4. ASSUME NEW u \in Threads, Emits(u) PROVE Goal
  <2>1. u # t
    BY <1>1, <1>4
  <2>2. Sends(u, "task", execution_id) /\ pc' = [pc EXCEPT ![u] = "body"] /\ UNCHANGED <<op, calling, item>>
    BY <1>0, <1>4, ReportsDoes DEF Emits, EmitItem
  <2>3. op'[t] = op[t] /\ pc'[t] = pc[t] /\ t \in calling
    BY <1>0, <2>1, <2>2
  <2> HIDE DEF Goal
  <2> QED
    BY <1>a, <2>1, <2>2, <2>3
<1>5. ASSUME NEW u \in Threads, Ends(u), item' = item PROVE Goal
  <2>1. /\ calling' = calling \ {u} /\ UNCHANGED <<mine, op, wire, sent>>
        /\ \E place : pc' = [pc EXCEPT ![u] = place]
    BY <1>0, <1>5, EndsDoes
  <2> QED
    BY <1>0, <1>5, <2>1
<1>6. ASSUME NEW m \in wire, Served(m) PROVE Goal
  BY <1>6, ServedDoes
<1>7. ASSUME Elsewhere PROVE Goal
  <2>1. UNCHANGED <<pc, op, mine, item, sent, calling>> /\ wire' \subseteq wire
    BY <1>7 DEF Elsewhere, Outside
  <2> QED
    BY <2>1
<1>8. Goal
  <2> HIDE DEF Goal
  <2>1. ASSUME NEW u \in Threads, Ends(u) /\ UNCHANGED <<item, busy, filed, clean>> PROVE Goal
    BY <1>5, <2>1
  <2>2. ASSUME NEW u \in Threads, NEW o \in {"start"} \cup Finishes, NEW k \in 0..MaxExecs,
               Asks(u, o, k) /\ UNCHANGED <<item, busy, filed, clean>>
        PROVE Goal
    BY <1>3, <2>2
  <2> QED
    BY <1>2, <1>4, <1>6, <1>7, <2>1, <2>2, RobotShapes
<1> QED
  BY <1>1, <1>8

LEMMA FinishIsLastPreserved ==
  ASSUME Ground, FiledMatch, NoneLost, FinishIsLast, [RobotNext]_allVars
  PROVE  FinishIsLast'
<1>1. ASSUME NEW m \in wire', NEW t \in Threads, m.op = "completed", t = m.thread, t \in calling', m.n = sent'[t],
             gwExec' # 0, gwExec' = mine'[t], NEW e, m.exec = e, e = gwExec'
      PROVE  Cardinality(Made(t, e)') = item'[t]
  <2>1. ASSUME NEW o \in {"start"} \cup Finishes, NEW k \in 0..MaxExecs, Asks(t, o, k), UNCHANGED <<item, filed>>
        PROVE  Cardinality(Made(t, e)') = item'[t]
    <3>1. o \in Operations
      BY DEF Operations
    <3>2. Sends(t, o, k) /\ (calling' = calling \/ sent'[t] = sent[t] + 1)
      BY <2>1, <3>1, AsksDoes, GroundFacts
    <3>3. /\ sent'[t] = sent[t] + 1
          /\ \E q \in Messages : wire' = wire \cup {q} /\ q.n = sent[t] + 1 /\ q.op = o /\ q.exec = k
          /\ mine' = mine /\ gwExec' = gwExec
      <4>1. t \notin calling
        BY <3>2 DEF Sends
      <4>2. sent[t] \in Nat
        BY GroundFacts
      <4> QED
        BY <1>1, <3>2, <4>1, <4>2 DEF Sends
    <3>4. o = "completed" /\ k = e
      <4>1. m \notin wire
        <5>1. sent[t] \in Nat /\ (m \in wire => m.n =< sent[t] /\ m.n \in Nat)
          BY <1>1, GroundFacts DEF RequestsMatch
        <5> QED
          BY <1>1, <3>3, <5>1
      <4> QED
        BY <1>1, <3>3, <4>1
    <3>5. pc[t] = "required" /\ op[t] = "completed" /\ e = execution_id
      BY <2>1, <3>4 DEF Asks
    <3>6. ~busy[t] /\ item[t] \in Nat
      BY <3>5, GroundFacts DEF Ground, ItemsMatch
    <3>7. Cardinality(Made(t, e)) = item[t]
      <4>1. gwExec # 0 /\ gwExec = mine[t] /\ execution_id = mine[t] /\ e = mine[t]
        BY <1>1, <3>3, <3>5
      <4>2. Cardinality(Made(t, e)) = Emitted(t)
        BY <3>5, <4>1 DEF NoneLost
      <4> QED
        BY <3>5, <3>6, <4>2 DEF Emitted
    <3>8. Made(t, e)' = Made(t, e)
      BY <2>1, AsksMakesNone
    <3> QED
      BY <2>1, <3>7, <3>8
  <2>2. ASSUME ~Asking(t)
        PROVE  Cardinality(Made(t, e)') = item'[t]
    <3>1. /\ t \in calling /\ sent'[t] = sent[t] /\ mine'[t] = mine[t] /\ item'[t] = item[t] /\ m \in wire /\ ~Emits(t)
      BY <1>1, <2>2, WaitingDoes
    <3>2. gwExec' = gwExec
      <4>1. mine[t] =< execs /\ mine[t] \in Nat /\ execs \in Nat
        BY GroundFacts DEF ExecsCounted
      <4> QED
        BY <1>1, <3>1, <4>1, CountersGrow
    <3>3. Cardinality(Made(t, e)) = item[t]
      BY <1>1, <3>1, <3>2 DEF FinishIsLast
    <3>4. Made(t, e)' = Made(t, e)
      <4>1. Made(t, e)' \subseteq Made(t, e)
        BY <2>2, <3>1, MadeShrinks
      <4>2. Made(t, e) \subseteq Made(t, e)'
        BY <1>1, <3>2, MadeKept
      <4> QED
        BY <4>1, <4>2
    <3> QED
      BY <3>1, <3>3, <3>4
  <2> QED
    BY <2>1, <2>2 DEF Asking
<1>2. ASSUME NEW m \in wire', m.op = "completed", m.thread \in calling', m.n = sent'[m.thread],
             gwExec' # 0, gwExec' = mine'[m.thread], m.exec = gwExec'
      PROVE  Cardinality(Made(m.thread, m.exec)') = item'[m.thread]
  <2>1. m.thread \in Threads
    <3>1. TypeOK'
      BY RobotCallsPreserved DEF CallsInv
    <3> QED
      BY <1>2, <3>1 DEF TypeOK
  <2> QED
    BY <1>1, <1>2, <2>1
<1> QED
  BY <1>2 DEF FinishIsLast

LEMMA NoneLostPreserved ==
  ASSUME Ground, FiledMatch, MineMatch, NoneReported, NoneLost, [RobotNext]_allVars
  PROVE  NoneLost'
<1>0. /\ TypeOK /\ PlacesMatch /\ ExecsCounted /\ DOMAIN pc = Threads /\ DOMAIN op = Threads
      /\ DOMAIN mine = Threads /\ item \in [Threads -> 0..MaxItems] /\ MaxItems \in Nat
      /\ busy \in [Threads -> BOOLEAN]
  BY GroundFacts
<1> SUFFICES ASSUME NEW t \in Threads, pc'[t] \in {"body", "required"}, gwExec' # 0, gwExec' = mine'[t],
                    execution_id' = mine'[t]
             PROVE  Cardinality(Made(t, mine[t])') = Emitted(t)'
  BY DEF NoneLost
<1> DEFINE Goal == Cardinality(Made(t, mine[t])') = Emitted(t)'
<1> SUFFICES Goal
  OBVIOUS
<1>e. PICK e : e = mine'[t]
  OBVIOUS
<1>m. Made(t, mine[t])' = Made(t, e)'
  BY <1>e DEF Made
<1>k. ASSUME pc[t] \in {"body", "required"}, mine'[t] = mine[t], gwExec' = gwExec, execution_id' = execution_id
      PROVE  Cardinality(Made(t, e)) = Emitted(t) /\ gwExec # 0 /\ gwExec = e /\ execution_id = e
  BY <1>k, <1>e DEF NoneLost
\* The step is none of t's run.
<1>s. ASSUME pc'[t] = pc[t], op'[t] = op[t], mine'[t] = mine[t], item'[t] = item[t], busy'[t] = busy[t],
             gwExec' = gwExec, execution_id' = execution_id, Made(t, e)' = Made(t, e)
      PROVE  Goal
  BY <1>s, <1>m, <1>k DEF Emitted
\* It is, and makes no report.
<1>h. ASSUME pc[t] \in {"body", "required"}, mine'[t] = mine[t], gwExec' = gwExec, execution_id' = execution_id,
             UNCHANGED <<wire, filed>>, Emitted(t)' = Emitted(t)
      PROVE  Goal
  <2>1. Made(t, e)' = Made(t, e)
    BY <1>h DEF Made
  <2> HIDE DEF Goal
  <2>2. Cardinality(Made(t, e)) = Emitted(t)
    BY <1>h, <1>k
  <2> QED
    BY <1>h, <1>m, <2>1, <2>2 DEF Goal
<1>1. ASSUME Moves(t) PROVE Goal
  <2>1. UNCHANGED <<wire, filed, gwExec>>
    BY <1>1, MovesDoes DEF MovesAlone
  <2>2. CASE AutomationStart(t)
    BY <1>0, <2>2 DEF AutomationStart, execVars, vars
  <2>3. CASE Begins(t)
    BY <1>0, <2>3 DEF Begins, StartChecks, execVars, vars, Ground, RunBudget
  <2>4. CASE StartAssigns(t) /\ UNCHANGED robotVars
    <3>1. /\ pc[t] = "started" /\ pc'[t] = "body" /\ mine'[t] = answer[t] /\ UNCHANGED <<item, busy>>
      BY <1>0, <2>4 DEF StartAssigns, robotVars, itemVars
    <3>2. Made(t, answer[t]) = {} /\ item[t] = 0 /\ ~busy[t]
      BY <3>1, GroundFacts DEF NoneReported, PlacesMatch, Ground, ItemsMatch, Starting
    <3>3. Made(t, e)' = {}
      BY <1>e, <2>1, <3>1, <3>2 DEF Made
    <3>4. Emitted(t)' = 0
      <4>1. item'[t] = 0 /\ ~busy'[t] /\ pc'[t] # "required"
        BY <3>1, <3>2
      <4> QED
        <5>1. (IF busy'[t] \/ (pc'[t] = "required" /\ op'[t] = "task") THEN 1 ELSE 0) = 0
          BY <4>1
        <5>2. Emitted(t)' = 0 - 0
          BY <4>1, <5>1 DEF Emitted
        <5> QED
          BY <5>2
    <3> QED
      BY <1>m, <3>3, <3>4, FS_EmptySet
  <2>5. CASE ProcessItem(t)
    <3>1. /\ pc[t] = "body" /\ ~busy[t] /\ item'[t] = item[t] + 1 /\ busy'[t]
          /\ UNCHANGED <<pc, mine, execution_id>>
      BY <1>0, <2>5 DEF ProcessItem, InBody, execVars, vars, runVars
    <3>2. Emitted(t)' = Emitted(t)
      BY <1>0, <3>1 DEF Emitted
    <3> HIDE DEF Goal
    <3> QED
      BY <1>h, <2>1, <3>1, <3>2
  <2>6. CASE ReportItem(t)
    <3>1. pc[t] = "body" /\ busy[t] /\ ~busy'[t] /\ item' = item /\ UNCHANGED <<mine, execution_id>>
      BY <1>0, <2>6 DEF ReportItem, InBody, Require, execVars, vars, runVars
    <3>2. pc'[t] = "required" /\ op'[t] = "task"
      BY <1>0, <2>1, <2>6, <3>1 DEF ReportItem, Require, execVars, vars
    <3>3. Emitted(t)' = Emitted(t)
      BY <1>0, <3>1, <3>2 DEF Emitted
    <3> HIDE DEF Goal
    <3> QED
      BY <1>h, <2>1, <3>1, <3>3
  <2>7. CASE LeaveBody(t)
    <3>1. pc[t] = "body" /\ ~busy[t] /\ UNCHANGED <<item, busy, mine, execution_id>> /\ op'[t] # "task"
      BY <1>0, <2>7 DEF LeaveBody, BodyEnds, itemVars
    <3>2. Emitted(t)' = Emitted(t)
      BY <3>1 DEF Emitted
    <3> HIDE DEF Goal
    <3> QED
      BY <1>h, <2>1, <3>1, <3>2
  <2>8. CASE RunEnds(t) \/ BodyInterrupted(t)
    BY <1>0, <2>8 DEF RunEnds, FinishClears, BodyInterrupted
  <2> HIDE DEF Goal
  <2>9. Goal
    BY <1>1, <2>2, <2>3, <2>4, <2>5, <2>6, <2>7, <2>8 DEF Moves, Goal
  <2> QED
    BY <2>9
<1>2. ASSUME NEW u \in Threads, u # t, Moves(u) PROVE Goal
  <2>1. /\ UNCHANGED <<wire, filed, gwExec>>
        /\ pc'[t] = pc[t] /\ op'[t] = op[t] /\ mine'[t] = mine[t] /\ item'[t] = item[t] /\ busy'[t] = busy[t]
    BY <1>2, MovesDoes DEF MovesAlone
  <2>2. execution_id' = execution_id
    <3>1. \/ execution_id' = execution_id
          \/ execution_id' = 0
          \/ pc[u] = "started" /\ execution_id' = answer[u]
      BY <1>2 DEF Moves, AutomationStart, Begins, StartChecks, StartAssigns, ProcessItem, ReportItem, Require, LeaveBody,
         BodyEnds, RunEnds, FinishClears, BodyInterrupted, execVars, vars, runVars
    <3>2. pc[u] = "started" => answer[u] # 0 /\ opener[answer[u]][1] = u
      BY GroundFacts DEF StartsMatch, PlacesMatch
    <3>3. mine[t] # 0 => opener[mine[t]][1] = t
      BY DEF MineMatch
    <3> QED
      BY <1>2, <2>1, <3>1, <3>2, <3>3
  <2>3. Made(t, e)' = Made(t, e)
    BY <2>1 DEF Made
  <2> HIDE DEF Goal
  <2> QED
    BY <1>s, <2>1, <2>2, <2>3
<1>3. ASSUME NEW u \in Threads, NEW o \in {"start"} \cup Finishes, NEW k \in 0..MaxExecs, Asks(u, o, k),
             UNCHANGED <<item, busy, filed, clean>>
      PROVE Goal
  <2>1. o \in Operations
    BY DEF Operations
  <2>2. /\ Sends(u, o, k) /\ pc' = [pc EXCEPT ![u] = "calling"] /\ op' = [op EXCEPT ![u] = o]
    BY <1>0, <1>3, <2>1, AsksDoes
  <2>3. u # t /\ pc'[t] = pc[t] /\ op'[t] = op[t] /\ UNCHANGED <<mine, gwExec, execution_id>>
    BY <1>0, <2>2 DEF Sends
  <2>4. Made(t, e)' = Made(t, e)
    BY <1>3, AsksMakesNone
  <2> HIDE DEF Goal
  <2> QED
    BY <1>s, <1>3, <2>3, <2>4
<1>4. ASSUME Emits(t) PROVE Goal
  <2>1. /\ pc[t] = "required" /\ op[t] = "task" /\ pc'[t] = "body"
        /\ UNCHANGED <<mine, gwExec, execution_id, item, busy>>
    BY <1>0, <1>4, ReportsDoes DEF Emits, EmitItem, Sends
  <2>2. ~busy[t] /\ item[t] \in Nat
    BY <1>0, <2>1 DEF Ground, ItemsMatch
  <2>3. Cardinality(Made(t, e)) = Emitted(t) /\ gwExec # 0 /\ execution_id = e
    BY <1>k, <2>1
  <2>4. Send(t, "task", execution_id)
    BY <1>4, <2>3, GroundFacts DEF Emits, EmitItem, ReportTasks, SocketMatches
  <2>5. Cardinality(Made(t, execution_id)') = Cardinality(Made(t, execution_id)) + 1
    BY <1>4, <2>4, EmitsMakesOne
  <2>6. Made(t, execution_id)' = Made(t, e)' /\ Made(t, execution_id) = Made(t, e)
    BY <2>1, <2>3 DEF Made
  <2>7. Emitted(t)' = Emitted(t) + 1
    BY <2>1, <2>2 DEF Emitted
  <2> QED
    BY <1>m, <2>3, <2>5, <2>6, <2>7
<1>5. ASSUME NEW u \in Threads, u # t, Emits(u) PROVE Goal
  <2>1. /\ Sends(u, "task", execution_id) /\ pc' = [pc EXCEPT ![u] = "body"] /\ UNCHANGED <<op, item, busy, filed>>
    BY <1>0, <1>5, ReportsDoes DEF Emits, EmitItem
  <2>2. pc'[t] = pc[t] /\ op'[t] = op[t] /\ UNCHANGED <<mine, gwExec, execution_id>>
    BY <1>0, <1>5, <2>1 DEF Sends
  <2>3. Made(t, e)' = Made(t, e)
    BY <1>5, <2>1, OthersMakeNone
  <2> HIDE DEF Goal
  <2> QED
    BY <1>s, <2>1, <2>2, <2>3
<1>6. ASSUME NEW u \in Threads, Ends(u), UNCHANGED <<item, busy, filed, clean>> PROVE Goal
  <2>1. /\ UNCHANGED <<mine, op, wire, gwExec, execution_id>> /\ op[u] # "observe"
        /\ \E place : pc' = [pc EXCEPT ![u] = place] /\ place \in {"started", "finished", "idle"}
    BY <1>0, <1>6, EndsDoes DEF Ground, ItemsMatch
  <2>2. pc'[t] = pc[t]
    BY <1>0, <2>1
  <2>3. Made(t, e)' = Made(t, e)
    BY <1>6, <2>1 DEF Made
  <2> HIDE DEF Goal
  <2> QED
    BY <1>s, <1>6, <2>1, <2>2, <2>3
<1>7. ASSUME NEW m \in wire, Served(m) PROVE Goal
  <2>1. UNCHANGED <<mine, pc, op, execution_id, item, busy>>
    BY <1>7, ServedDoes
  <2>2. gwExec' = gwExec
    <3>1. mine[t] =< execs /\ mine[t] \in Nat /\ execs \in Nat
      BY GroundFacts DEF ExecsCounted
    <3> QED
      BY <2>1, <3>1, CountersGrow
  <2>3. Made(t, e) \subseteq Made(t, e)'
    BY <1>e, <2>2, MadeKept
  <2>4. Made(t, e)' \subseteq Made(t, e)
    BY <1>7, ServedDoes DEF Made
  <2> HIDE DEF Goal
  <2> QED
    BY <1>s, <2>1, <2>2, <2>3, <2>4
<1>8. ASSUME Elsewhere PROVE Goal
  <2>1. UNCHANGED <<pc, op, mine, item, busy, filed, execution_id, wire>> /\ gwExec' \in {0, gwExec}
    BY <1>8 DEF Elsewhere, Outside
  <2>2. Made(t, e)' = Made(t, e)
    BY <2>1 DEF Made
  <2> HIDE DEF Goal
  <2> QED
    BY <1>s, <2>1, <2>2
<1> HIDE DEF Goal
<1>9. ASSUME NEW u \in Threads, Moves(u) PROVE Goal
  BY <1>1, <1>2, <1>9
<1>10. ASSUME NEW u \in Threads, Emits(u) PROVE Goal
  BY <1>4, <1>5, <1>10
<1> QED
  BY <1>3, <1>6, <1>7, <1>8, <1>9, <1>10, RobotShapes

LEMMA ReportsPreserved ==
  ASSUME Ground, FiledMatch, MineMatch, ReportsMatch, CleanRunIsComplete, [RobotNext]_allVars
  PROVE  ReportsMatch' /\ CleanRunIsComplete'
BY NoneReportedPreserved, NoneLostPreserved, FinishIsLastPreserved, AllStoredPreserved, CleanPreserved
DEF ReportsMatch

-----------------------------------------------------------------------------
(* At most one run has an execution.                                        *)

\* The parts of ExecutionsMatch.
OneOpen ==
  /\ \A e, f \in Execs : status[e] = "open" /\ status[f] = "open" => e = f
  /\ \A e \in Execs : status[e] = "open" /\ up => gwExec = e
HeldIsOpen ==
  \A t \in Threads :
    Holding(t) => Held(t) \in Execs /\ status[Held(t)] = "open" /\ opener[Held(t)][1] = t
NoFinishOfHeld == \A t \in Threads, m \in wire : Holding(t) /\ m.op \in Finishes => m.exec # Held(t)
IdIsOwn == \A t \in Threads : pc[t] \in {"body", "required"} => execution_id \in {0, mine[t]}
Exclusion == OneOpen /\ HeldIsOpen /\ NoFinishOfHeld /\ IdIsOwn

LEMMA ExclusionMeans == ExecutionsMatch <=> (Undisturbed => Exclusion)
<1>1. ExecutionsMatch => (Undisturbed => Exclusion)
  BY DEF ExecutionsMatch, Exclusion, OneOpen, HeldIsOpen, NoFinishOfHeld, IdIsOwn
<1>2. (Undisturbed => Exclusion) => ExecutionsMatch
  BY DEF ExecutionsMatch, Exclusion, OneOpen, HeldIsOpen, NoFinishOfHeld, IdIsOwn
<1> QED
  BY <1>1, <1>2

(* The gateway and the socket, when nothing takes an execution from its run. *)
LEMMA UndisturbedDoes ==
  ASSUME Ground, [RobotNext]_allVars, Undisturbed'
  PROVE  /\ Undisturbed /\ (up' => up)
         /\ \/ UNCHANGED <<status, opener>> /\ (up' => gwExec' = gwExec)
            \/ \E m \in wire : Served(m)
<1>0. /\ TypeOK /\ PlacesMatch /\ ExecsCounted /\ socket \in Nat /\ DOMAIN status = Execs
      /\ gwExec \in 0..MaxExecs /\ execs \in 0..MaxExecs /\ MaxExecs \in Nat
  BY GroundFacts
<1>1. \/ UNCHANGED <<status, opener, gwExec, socket, up>>
      \/ Elsewhere
      \/ \E m \in wire : Served(m)
  <2>1. ASSUME NEW t \in Threads, Moves(t) PROVE UNCHANGED <<status, opener, gwExec, socket, up>>
    BY <2>1, MovesDoes DEF MovesAlone
  <2>2. ASSUME NEW t \in Threads, NEW o \in {"start"} \cup Finishes, NEW k \in 0..MaxExecs, Asks(t, o, k)
        PROVE UNCHANGED <<status, opener, gwExec, socket, up>>
    <3>1. o \in Operations
      BY DEF Operations
    <3> QED
      BY <1>0, <2>2, <3>1, AsksDoes DEF Sends
  <2>3. ASSUME NEW t \in Threads, Emits(t) PROVE UNCHANGED <<status, opener, gwExec, socket, up>>
    BY <1>0, <2>3, ReportsDoes DEF Emits, Sends
  <2>4. ASSUME NEW t \in Threads, Ends(t) PROVE UNCHANGED <<status, opener, gwExec, socket, up>>
    BY <1>0, <2>4, EndsDoes
  <2> QED
    BY <2>1, <2>2, <2>3, <2>4, RobotShapes
<1>2. ASSUME NEW m \in wire, Served(m)
      PROVE  /\ UNCHANGED <<socket, up>>
             /\ \A e \in Execs : status[e] = "cancelled" => status'[e] = "cancelled"
  <2>1. Serves(m) /\ UNCHANGED <<socket, up>>
    BY <1>2, ServedDoes
  <2>2. execs < MaxExecs => execs + 1 \in Execs /\ status[execs + 1] = "none"
    <3>1. execs < MaxExecs => execs + 1 \in Execs /\ execs + 1 > execs
      BY <1>0 DEF Execs
    <3> QED
      BY <1>0, <3>1 DEF ExecsCounted
  <2>3. gwExec # 0 => status[gwExec] = "open"
    BY <1>0 DEF ExecsCounted
  <2> QED
    BY <1>0, <2>1, <2>2, <2>3, ServesDoes
<1>3. socket' = 0 /\ \A e \in Execs : status'[e] # "cancelled"
  BY DEF Undisturbed
<1>4. ASSUME Elsewhere
      PROVE  Undisturbed /\ (up' => up) /\ UNCHANGED <<status, opener>> /\ (up' => gwExec' = gwExec)
  <2>1. socket' = socket /\ (up' => up)
    BY <1>0, <1>3, <1>4 DEF Elsewhere
  <2>2. gwExec # 0 => gwExec \in Execs
    BY <1>0 DEF Execs
  <2>3. status' = status /\ (up' => gwExec' = gwExec)
    BY <1>0, <1>3, <1>4, <2>2 DEF Elsewhere
  <2>4. opener' = opener
    BY <1>4 DEF Elsewhere, Outside
  <2>5. Undisturbed
    BY <1>3, <2>1, <2>3 DEF Undisturbed
  <2> QED
    BY <2>1, <2>3, <2>4, <2>5
<1>5. ASSUME UNCHANGED <<status, opener, gwExec, socket, up>>
      PROVE  Undisturbed /\ (up' => up) /\ UNCHANGED <<status, opener>> /\ (up' => gwExec' = gwExec)
  <2>1. Undisturbed /\ UNCHANGED <<status, opener>> /\ gwExec' = gwExec
    BY <1>3, <1>5 DEF Undisturbed
  <2> QED
    BY <1>5, <2>1
<1>6. ASSUME NEW m \in wire, Served(m) PROVE Undisturbed /\ (up' => up)
  <2>1. Undisturbed
    BY <1>2, <1>3, <1>6 DEF Undisturbed
  <2> QED
    BY <1>2, <1>6, <2>1
<1> QED
  BY <1>1, <1>4, <1>5, <1>6

LEMMA OneOpenPreserved ==
  ASSUME Ground, [RobotNext]_allVars, Undisturbed', OneOpen
  PROVE  OneOpen'
<1>0. /\ TypeOK /\ PlacesMatch /\ ExecsCounted /\ SocketMatches /\ DOMAIN status = Execs
      /\ gwExec \in 0..MaxExecs /\ execs \in 0..MaxExecs /\ MaxExecs \in Nat
  BY GroundFacts
<1>1. CASE UNCHANGED <<status, opener>> /\ (up' => gwExec' = gwExec)
  <2>1. up' => up
    BY UndisturbedDoes
  <2> QED
    BY <1>1, <2>1 DEF OneOpen
<1>2. ASSUME NEW m \in wire, Served(m) PROVE OneOpen'
  <2>1. Serves(m) /\ up
    BY <1>0, <1>2, ServedDoes DEF SocketMatches
  <2>2. \A e \in Execs : status[e] = "open" => gwExec = e
    BY <2>1 DEF OneOpen
  <2>3. \A e \in Execs : status'[e] = "open" => gwExec' = e
    <3>1. CASE gwExec = 0 /\ gwExec' = execs + 1 /\ status' = [status EXCEPT ![execs + 1] = "open"]
      <4>1. \A e \in Execs : e # 0
        BY DEF Execs
      <4> QED
        BY <1>0, <2>2, <3>1, <4>1
    <3>2. CASE m.op \in Finishes /\ status' = [status EXCEPT ![gwExec] = m.op]
      BY <1>0, <2>2, <3>2 DEF Finishes
    <3>3. CASE UNCHANGED <<gwExec, status>>
      BY <2>2, <3>3
    <3> QED
      BY <1>0, <2>1, <3>1, <3>2, <3>3, ServesDoes
  <2> QED
    BY <2>3 DEF OneOpen
<1> QED
  BY <1>1, <1>2, UndisturbedDoes

(* An execution that a run holds was held already, or its start is served in this step. *)
LEMMA HeldDoes ==
  ASSUME Ground, [RobotNext]_allVars, NEW t \in Threads, Holding(t)'
  PROVE  \/ Holding(t) /\ Held(t)' = Held(t)
         \/ \E m \in wire : Served(m) /\ Awaited(m) /\ m.thread = t /\ m.op = "start" /\ Held(t)' = execs + 1
<1> DEFINE Goal == \/ Holding(t) /\ Held(t)' = Held(t)
                   \/ \E m \in wire : /\ Served(m) /\ Awaited(m) /\ m.thread = t /\ m.op = "start"
                                      /\ Held(t)' = execs + 1
<1> SUFFICES Goal
  OBVIOUS
<1>0. /\ TypeOK /\ PlacesMatch /\ ExecsCounted /\ DOMAIN pc = Threads /\ DOMAIN op = Threads
      /\ DOMAIN mine = Threads /\ DOMAIN answer = Threads
      /\ (pc[t] # "calling" => t \notin accepted /\ t \notin calling)
  BY GroundFacts DEF PlacesMatch
<1>s. ASSUME pc'[t] = pc[t], op'[t] = op[t], mine'[t] = mine[t], answer'[t] = answer[t], t \in accepted' => t \in accepted
      PROVE  Goal
  BY <1>s DEF Holding, Held
<1>1. ASSUME Moves(t) PROVE Goal
  <2>1. UNCHANGED <<accepted, answer>> /\ t \notin accepted
    BY <1>0, <1>1, MovesDoes DEF MovesAlone
  <2>2. CASE AutomationStart(t) \/ Begins(t)
    <3>1. pc[t] = "idle"
      BY <2>2 DEF AutomationStart, Begins, Ground, RunBudget
    <3>2. pc'[t] \in {"idle", "checked"}
      BY <1>0, <2>2, <3>1 DEF AutomationStart, Begins, StartChecks, execVars, vars
    <3> QED
      BY <2>1, <3>2 DEF Holding
  <2>3. CASE StartAssigns(t)
    <3>1. pc[t] = "started" /\ pc'[t] = "body" /\ mine'[t] = answer[t]
      BY <1>0, <2>3 DEF StartAssigns
    <3> QED
      BY <3>1 DEF Holding, Held
  <2>4. CASE ProcessItem(t) \/ ReportItem(t) \/ LeaveBody(t)
    <3>1. pc[t] = "body" /\ mine' = mine /\ pc'[t] \in {"body", "required", "idle"}
      BY <1>0, <2>4 DEF ProcessItem, ReportItem, LeaveBody, InBody, BodyEnds, Require, execVars, vars, runVars
    <3> QED
      BY <2>1, <3>1 DEF Holding, Held
  <2>5. CASE RunEnds(t) \/ BodyInterrupted(t)
    <3>1. pc'[t] = "idle"
      BY <1>0, <2>5 DEF RunEnds, FinishClears, BodyInterrupted
    <3> QED
      BY <2>1, <3>1 DEF Holding
  <2> HIDE DEF Goal
  <2>6. Goal
    BY <1>1, <2>2, <2>3, <2>4, <2>5 DEF Moves, Goal
  <2> QED
    BY <2>6
<1>2. ASSUME NEW u \in Threads, u # t, Moves(u) PROVE Goal
  <2>1. UNCHANGED <<accepted, answer>> /\ pc'[t] = pc[t] /\ op'[t] = op[t] /\ mine'[t] = mine[t]
    BY <1>2, MovesDoes DEF MovesAlone
  <2> HIDE DEF Goal
  <2> QED
    BY <1>s, <2>1
<1>3. ASSUME NEW u \in Threads, NEW o \in {"start"} \cup Finishes, NEW k \in 0..MaxExecs, Asks(u, o, k) PROVE Goal
  <2>1. o \in Operations
    BY DEF Operations
  <2>2. /\ pc' = [pc EXCEPT ![u] = "calling"] /\ op' = [op EXCEPT ![u] = o]
        /\ answer' = [answer EXCEPT ![u] = 0] /\ UNCHANGED <<mine, accepted>> /\ u \notin calling
    BY <1>0, <1>3, <2>1, AsksDoes DEF Sends
  <2>3. CASE u = t
    <3>1. pc'[t] = "calling" /\ t \notin accepted'
      BY <2>2, <2>3, <1>0, GroundFacts
    <3> QED
      BY <3>1 DEF Holding
  <2>4. CASE u # t
    <3>1. pc'[t] = pc[t] /\ op'[t] = op[t] /\ mine'[t] = mine[t] /\ answer'[t] = answer[t] /\ accepted' = accepted
      BY <1>0, <2>2, <2>4
    <3> HIDE DEF Goal
    <3>2. Goal
      BY <1>s, <3>1
    <3> QED
      BY <3>2 DEF Goal
  <2> QED
    BY <2>3, <2>4
<1>4. ASSUME NEW u \in Threads, Emits(u) PROVE Goal
  <2>1. pc[u] = "required" /\ pc' = [pc EXCEPT ![u] = "body"] /\ UNCHANGED <<op, answer, mine, accepted>>
    BY <1>0, <1>4, ReportsDoes DEF Emits, Sends
  <2>2. \/ pc[t] = "required" /\ pc'[t] = "body"
        \/ pc'[t] = pc[t]
    BY <1>0, <2>1
  <2> QED
    BY <2>1, <2>2 DEF Holding, Held
<1>5. ASSUME NEW u \in Threads, Ends(u) PROVE Goal
  <2>1. /\ UNCHANGED <<mine, op, answer>> /\ op[u] # "observe" /\ accepted' = accepted \ {u} /\ pc[u] = "calling"
        /\ \/ u \in accepted /\ pc' = [pc EXCEPT ![u] = "started"] /\ op[u] = "start"
           \/ \E place : pc' = [pc EXCEPT ![u] = place] /\ place \in {"finished", "idle"}
    BY <1>0, <1>5, EndsDoes DEF Ground, ItemsMatch
  <2>2. CASE u # t
    <3>1. pc'[t] = pc[t] /\ (t \in accepted' => t \in accepted)
      BY <1>0, <2>1, <2>2
    <3> HIDE DEF Goal
    <3>2. Goal
      BY <1>s, <2>1, <3>1
    <3> QED
      BY <3>2 DEF Goal
  <2>3. CASE u = t
    <3>1. /\ pc[t] = "calling" /\ t \notin accepted'
          /\ (t \in accepted /\ pc'[t] = "started" /\ op[t] = "start") \/ pc'[t] \in {"finished", "idle"}
      BY <1>0, <2>1, <2>3
    <3> QED
      BY <2>1, <3>1 DEF Holding, Held
  <2> QED
    BY <2>2, <2>3
<1>6. ASSUME NEW m \in wire, Served(m) PROVE Goal
  <2>1. UNCHANGED <<mine, pc, op>>
    BY <1>6, ServedDoes
  <2>2. CASE pc[t] \in {"body", "required"}
    BY <2>1, <2>2 DEF Holding, Held
  <2>3. CASE pc[t] \notin {"body", "required"}
    <3>1. t \in accepted' \/ pc'[t] = "started"
      BY <2>1, <2>3 DEF Holding
    <3>2. op[t] = "start"
      BY <1>0, <2>1, <2>3 DEF Holding, PlacesMatch
    <3>3. CASE (t \in accepted \/ pc[t] \in {"started", "finished"}) /\ answer'[t] = answer[t]
      <4>1. pc[t] # "finished"
        BY <1>0, <3>2 DEF PlacesMatch, Finishes
      <4> QED
        BY <2>1, <2>3, <3>2, <3>3, <4>1 DEF Holding, Held
    <3>4. ASSUME NEW q \in wire, Served(q), Awaited(q), q.thread = t, q.op = "start" => answer'[t] = execs + 1
          PROVE Goal
      <4>1. q.op = "start" /\ answer'[t] = execs + 1
        BY <3>2, <3>4 DEF Awaited
      <4>2. Held(t)' = execs + 1
        BY <2>1, <2>3, <4>1 DEF Held
      <4> QED
        BY <3>4, <4>1, <4>2
    <3> HIDE DEF Goal
    <3>5. Goal
      BY <3>1, <3>3, <3>4, AcknowledgedDoes DEF Goal
    <3> QED
      BY <3>5 DEF Goal
  <2> QED
    BY <2>2, <2>3
<1>7. ASSUME Elsewhere PROVE Goal
  <2>1. UNCHANGED <<pc, op, mine, answer, accepted>>
    BY <1>7 DEF Elsewhere, Outside
  <2> HIDE DEF Goal
  <2> QED
    BY <1>s, <2>1
<1> HIDE DEF Goal
<1>8. ASSUME NEW u \in Threads, Moves(u) PROVE Goal
  BY <1>1, <1>2, <1>8
<1> QED
  BY <1>3, <1>4, <1>5, <1>6, <1>7, <1>8, RobotShapes

LEMMA HeldStays ==
  ASSUME Ground, [RobotNext]_allVars, Undisturbed', Exclusion, NEW t \in Threads, Holding(t)
  PROVE  status'[Held(t)] = "open" /\ opener'[Held(t)] = opener[Held(t)]
<1>0. /\ TypeOK /\ PlacesMatch /\ ExecsCounted /\ DOMAIN status = Execs
      /\ gwExec \in 0..MaxExecs /\ execs \in 0..MaxExecs /\ MaxExecs \in Nat
  BY GroundFacts
<1>1. Held(t) \in Execs /\ status[Held(t)] = "open" /\ opener[Held(t)] # <<>>
  <2>1. Held(t) \in Execs /\ status[Held(t)] = "open"
    BY DEF Exclusion, HeldIsOpen
  <2> QED
    BY <1>0, <2>1 DEF ExecsCounted
<1>2. opener'[Held(t)] = opener[Held(t)]
  BY <1>1, CountersGrow
<1>3. CASE UNCHANGED <<status, opener>>
  BY <1>1, <1>3
<1>4. ASSUME NEW m \in wire, Served(m) PROVE status'[Held(t)] = "open"
  <2>1. CASE execs < MaxExecs /\ status' = [status EXCEPT ![execs + 1] = "open"]
    BY <1>0, <1>1, <2>1
  <2>2. CASE m.op \in Finishes /\ m.exec = gwExec /\ status' = [status EXCEPT ![gwExec] = m.op]
    <3>1. m.exec # Held(t)
      BY <2>2 DEF Exclusion, NoFinishOfHeld
    <3> QED
      BY <1>0, <1>1, <2>2, <3>1
  <2>3. CASE status' = status
    BY <1>1, <2>3
  <2> QED
    BY <1>0, <1>4, <2>1, <2>2, <2>3, ServedDoes, ServesDoes
<1> QED
  BY <1>2, <1>3, <1>4, <1>1, UndisturbedDoes

(* What a run holds stays open and its own; what it comes to hold is opened for it. *)
LEMMA HeldPreserved ==
  ASSUME Ground, [RobotNext]_allVars, Undisturbed', Exclusion
  PROVE  HeldIsOpen'
<1>0. /\ TypeOK /\ PlacesMatch /\ ExecsCounted /\ DOMAIN status = Execs /\ OpenersMatch
      /\ gwExec \in 0..MaxExecs /\ execs \in 0..MaxExecs /\ MaxExecs \in Nat
  BY GroundFacts
<1>1. ASSUME NEW t \in Threads, Holding(t)'
      PROVE (Held(t) \in Execs /\ status[Held(t)] = "open" /\ opener[Held(t)][1] = t)'
  <2>1. CASE Holding(t) /\ Held(t)' = Held(t)
    BY <2>1, HeldStays DEF Exclusion, HeldIsOpen
  <2>2. ASSUME NEW m \in wire, Served(m), m.thread = t, m.op = "start", Held(t)' = execs + 1
        PROVE (Held(t) \in Execs /\ status[Held(t)] = "open" /\ opener[Held(t)][1] = t)'
    <3>1. ~UNCHANGED <<mine, answer>>
      <4>1. mine[t] =< execs /\ answer[t] =< execs /\ mine[t] \in Nat /\ answer[t] \in Nat
        BY GroundFacts DEF ExecsCounted
      <4> QED
        BY <1>0, <2>2, <4>1 DEF Held
    <3>2. Serves(m) /\ mine' = mine
      BY <2>2, ServedDoes
    <3>3. /\ execs < MaxExecs /\ status' = [status EXCEPT ![execs + 1] = "open"]
          /\ opener' = [opener EXCEPT ![execs + 1] = <<m.thread, m.n, socket>>]
      BY <1>0, <2>2, <3>1, <3>2, ServesDoes
    <3>4. execs + 1 \in Execs /\ DOMAIN opener = Execs
      BY <1>0, <3>3 DEF Execs, OpenersMatch
    <3> QED
      BY <1>0, <2>2, <3>3, <3>4
  <2> QED
    BY <1>1, <2>1, <2>2, HeldDoes
<1> QED
  BY <1>1 DEF HeldIsOpen

(* A message that is new on the wire is a report, or asks for what its thread is about to do. *)
LEMMA NewMessage ==
  ASSUME Ground, [RobotNext]_allVars, NEW m \in wire', m \notin wire
  PROVE  \/ m.op = "task"
         \/ \E o \in {"start"} \cup Finishes, k \in 0..MaxExecs :
              m.thread \in Threads /\ Asks(m.thread, o, k) /\ m.op = o /\ m.exec = k
<1>1. ASSUME NEW u \in Threads, NEW o, NEW k, Sends(u, o, k) PROVE m.thread = u /\ m.op = o /\ m.exec = k
  BY <1>1 DEF Sends
<1>2. ASSUME NEW u \in Threads, NEW o \in {"start"} \cup Finishes, NEW k \in 0..MaxExecs, Asks(u, o, k)
      PROVE  m.thread = u /\ m.op = o /\ m.exec = k
  <2>1. o \in Operations
    BY DEF Operations
  <2> QED
    BY <1>1, <1>2, <2>1, AsksDoes, GroundFacts
<1>3. ASSUME NEW u \in Threads, Emits(u) PROVE m.op = "task"
  <2>1. Sends(u, "task", execution_id)
    BY <1>3, ReportsDoes, GroundFacts DEF Emits
  <2> QED
    BY <1>1, <2>1
<1>4. (\E u \in Threads : Moves(u)) => wire' = wire
  BY MovesDoes DEF MovesAlone
<1>5. (\E u \in Threads : Ends(u)) => wire' = wire
  BY EndsDoes, GroundFacts
<1>6. (\E q \in wire : Served(q)) => wire' \subseteq wire
  BY ServedDoes
<1>7. Elsewhere => wire' \subseteq wire
  BY DEF Elsewhere, Outside
<1> QED
  BY <1>2, <1>3, <1>4, <1>5, <1>6, <1>7, RobotShapes

LEMMA NoFinishPreserved ==
  ASSUME Ground, [RobotNext]_allVars, Undisturbed', Exclusion
  PROVE  NoFinishOfHeld'
<1>0. /\ TypeOK /\ PlacesMatch /\ ExecsCounted /\ DOMAIN pc = Threads /\ accepted \subseteq calling
      /\ execs \in Nat /\ execution_id \in Nat /\ \A m \in wire : m.exec \in Nat
  BY GroundFacts
<1>1. ASSUME NEW t \in Threads, NEW m \in wire', m.op \in Finishes, Holding(t)' PROVE m.exec # Held(t)'
  <2>1. CASE m \in wire
    <3>1. CASE Holding(t) /\ Held(t)' = Held(t)
      BY <1>1, <2>1, <3>1 DEF Exclusion, NoFinishOfHeld
    <3>2. CASE Held(t)' = execs + 1
      BY <1>0, <2>1, <3>2 DEF ExecsCounted
    <3> QED
      BY <1>1, <3>1, <3>2, HeldDoes
  <2>2. CASE m \notin wire
    <3>1. PICK u \in Threads, o \in {"start"} \cup Finishes, k \in 0..MaxExecs :
                 Asks(u, o, k) /\ m.op = o /\ m.exec = k
      BY <1>1, <2>2, NewMessage DEF Finishes
    <3>2. pc[u] = "required" /\ m.exec = execution_id
      BY <1>1, <3>1 DEF Asks, Finishes
    <3>3. u # t
      <4>1. o \in Operations
        BY DEF Operations
      <4>2. pc' = [pc EXCEPT ![u] = "calling"] /\ accepted' = accepted /\ u \notin calling
        BY <1>0, <3>1, <4>1, AsksDoes DEF Sends
      <4> QED
        BY <1>0, <1>1, <4>2 DEF Holding
    <3>4. CASE Holding(t) /\ Held(t)' = Held(t)
      <4>1. Held(t) \in Execs /\ opener[Held(t)][1] = t /\ Held(t) # 0
        BY <3>4 DEF Exclusion, HeldIsOpen, Execs
      <4>2. Held(u) = mine[u] /\ opener[mine[u]][1] = u /\ execution_id \in {0, mine[u]}
        BY <3>2 DEF Exclusion, HeldIsOpen, Holding, Held, IdIsOwn
      <4> QED
        BY <3>2, <3>3, <3>4, <4>1, <4>2
    <3>5. CASE Held(t)' = execs + 1
      BY <1>0, <3>2, <3>5 DEF ExecsCounted
    <3> QED
      BY <1>1, <3>4, <3>5, HeldDoes
  <2> QED
    BY <2>1, <2>2
<1> QED
  BY <1>1 DEF NoFinishOfHeld

LEMMA IdPreserved ==
  ASSUME Ground, [RobotNext]_allVars, Exclusion
  PROVE  IdIsOwn'
<1>0. /\ TypeOK /\ PlacesMatch /\ ExecsCounted /\ DOMAIN pc = Threads /\ DOMAIN op = Threads
      /\ DOMAIN mine = Threads
  BY GroundFacts
<1> SUFFICES ASSUME NEW t \in Threads, pc'[t] \in {"body", "required"} PROVE execution_id' \in {0, mine'[t]}
  BY DEF IdIsOwn
<1>s. ASSUME pc[t] \in {"body", "required"}, mine'[t] = mine[t], execution_id' \in {0, execution_id}
      PROVE  execution_id' \in {0, mine'[t]}
  BY <1>s DEF Exclusion, IdIsOwn
<1>1. CASE Moves(t)
  <2>1. CASE AutomationStart(t) \/ Begins(t)
    <3>1. pc[t] = "idle"
      BY <2>1 DEF AutomationStart, Begins, Ground, RunBudget
    <3> QED
      BY <1>0, <2>1, <3>1 DEF AutomationStart, Begins, StartChecks, execVars, vars
  <2>2. CASE StartAssigns(t)
    BY <1>0, <2>2 DEF StartAssigns
  <2>3. CASE ProcessItem(t) \/ ReportItem(t) \/ LeaveBody(t)
    <3>1. pc[t] = "body" /\ mine' = mine /\ execution_id' = execution_id
      BY <1>0, <2>3 DEF ProcessItem, ReportItem, LeaveBody, InBody, BodyEnds, Require, execVars, vars, runVars
    <3> QED
      BY <1>s, <3>1
  <2>4. CASE RunEnds(t) \/ BodyInterrupted(t)
    BY <1>0, <2>4 DEF RunEnds, FinishClears, BodyInterrupted
  <2> QED
    BY <1>1, <2>1, <2>2, <2>3, <2>4 DEF Moves
<1>2. ASSUME NEW u \in Threads, u # t, Moves(u) PROVE execution_id' \in {0, mine'[t]}
  <2>1. pc'[t] = pc[t] /\ mine'[t] = mine[t]
    BY <1>2, MovesDoes DEF MovesAlone
  <2>2. \/ execution_id' \in {0, execution_id}
        \/ pc[u] = "started" /\ execution_id' = answer[u]
    BY <1>2 DEF Moves, AutomationStart, Begins, StartChecks, StartAssigns, ProcessItem, ReportItem, Require, LeaveBody,
       BodyEnds, RunEnds, FinishClears, BodyInterrupted, execVars, vars, runVars
  <2>3. pc[u] # "started"
    <3>1. SUFFICES ASSUME pc[u] = "started" PROVE FALSE
      OBVIOUS
    <3>2. Holding(u) /\ Holding(t)
      BY <2>1, <3>1 DEF Holding
    <3>3. Held(u) = Held(t)
      BY <3>2 DEF Exclusion, HeldIsOpen, OneOpen
    <3> QED
      BY <1>2, <3>2, <3>3 DEF Exclusion, HeldIsOpen
  <2> QED
    BY <1>s, <2>1, <2>2, <2>3
<1>3. ASSUME NEW u \in Threads, NEW o \in {"start"} \cup Finishes, NEW k \in 0..MaxExecs, Asks(u, o, k)
      PROVE  execution_id' \in {0, mine'[t]}
  <2>1. o \in Operations
    BY DEF Operations
  <2>2. pc' = [pc EXCEPT ![u] = "calling"] /\ UNCHANGED <<mine, execution_id>>
    BY <1>0, <1>3, <2>1, AsksDoes DEF Sends
  <2>3. pc'[t] = pc[t]
    BY <1>0, <2>2
  <2> QED
    BY <1>s, <2>2, <2>3
<1>4. ASSUME NEW u \in Threads, Emits(u) PROVE execution_id' \in {0, mine'[t]}
  <2>1. pc[u] = "required" /\ pc' = [pc EXCEPT ![u] = "body"] /\ UNCHANGED <<mine, execution_id>>
    BY <1>0, <1>4, ReportsDoes DEF Emits, Sends
  <2>2. pc[t] \in {"body", "required"}
    BY <1>0, <2>1
  <2> QED
    BY <1>s, <2>1, <2>2
<1>5. ASSUME NEW u \in Threads, Ends(u) PROVE execution_id' \in {0, mine'[t]}
  <2>1. /\ UNCHANGED <<mine, execution_id>> /\ op[u] # "observe"
        /\ \E place : pc' = [pc EXCEPT ![u] = place] /\ place \in {"started", "finished", "idle"}
    BY <1>0, <1>5, EndsDoes DEF Ground, ItemsMatch
  <2>2. pc'[t] = pc[t]
    BY <1>0, <2>1
  <2> QED
    BY <1>s, <2>1, <2>2
<1>6. ASSUME NEW m \in wire, Served(m) PROVE execution_id' \in {0, mine'[t]}
  <2>1. UNCHANGED <<pc, mine, execution_id>>
    BY <1>6, ServedDoes
  <2> QED
    BY <1>s, <2>1
<1>7. CASE Elsewhere
  <2>1. UNCHANGED <<pc, mine, execution_id>>
    BY <1>7 DEF Elsewhere, Outside
  <2> QED
    BY <1>s, <2>1
<1>8. ASSUME NEW u \in Threads, Moves(u) PROVE execution_id' \in {0, mine'[t]}
  BY <1>1, <1>2, <1>8
<1> QED
  BY <1>3, <1>4, <1>5, <1>6, <1>7, <1>8, RobotShapes

LEMMA ExecutionsPreserved ==
  ASSUME Ground, [RobotNext]_allVars, ExecutionsMatch
  PROVE  ExecutionsMatch'
<1>1. ASSUME Undisturbed' PROVE Exclusion'
  <2>1. Exclusion
    BY <1>1, UndisturbedDoes, ExclusionMeans
  <2> QED
    BY <1>1, <2>1, OneOpenPreserved, HeldPreserved, NoFinishPreserved, IdPreserved DEF Exclusion
<1>2. ExecutionsMatch' <=> (Undisturbed' => Exclusion')
  BY ExclusionMeans, PTL
<1> QED
  BY <1>1, <1>2

LEMMA BodiesExclude == ExecutionsMatch => BodiesExclusive
<1> SUFFICES ASSUME Undisturbed, Exclusion, NEW t \in Threads, NEW u \in Threads,
                    pc[t] \in {"body", "started"}, pc[u] \in {"body", "started"}
             PROVE  t = u
  BY ExclusionMeans DEF BodiesExclusive, Undisturbed
<1>1. Holding(t) /\ Holding(u)
  BY DEF Holding
<1>2. Held(t) = Held(u)
  BY <1>1 DEF Exclusion, HeldIsOpen, OneOpen
<1> QED
  BY <1>1, <1>2 DEF Exclusion, HeldIsOpen

-----------------------------------------------------------------------------
(* The invariant, and what follows from it.                                 *)

LEMMA RobotParts ==
  RobotInv <=> /\ Ground /\ RunsOK /\ FiledMatch /\ MineMatch /\ ReportsMatch /\ CleanRunIsComplete
               /\ ExecutionsMatch
<1>1. CallsInv => (RobotTypeOK <=> RobotTypes)
  BY DEF CallsInv, RobotTypeOK, RobotTypes
<1> QED
  BY <1>1, RunsOKMeans DEF RobotInv, Ground

LEMMA RobotInvInit == RobotInit => RobotInv
<1> SUFFICES ASSUME RobotInit PROVE RobotInv
  OBVIOUS
<1>0. /\ execution_id = 0 /\ pc = [t \in Threads |-> "idle"] /\ op = [t \in Threads |-> "start"]
      /\ mine = [t \in Threads |-> 0] /\ sent = [t \in Threads |-> 0] /\ answer = [t \in Threads |-> 0]
      /\ calling = {} /\ accepted = {} /\ wire = {} /\ up = TRUE /\ socket = 0 /\ gwExec = 0
      /\ status = [e \in Execs |-> "none"]
      /\ link = "up" /\ stopped = FALSE /\ phase = "connected" /\ due = (IF AutoStart THEN {Main} ELSE {})
      /\ item = [t \in Threads |-> 0] /\ busy = [t \in Threads |-> FALSE]
      /\ raised = [t \in Threads |-> FALSE] /\ late = [t \in Threads |-> 0]
      /\ filed = {} /\ clean = {}
  BY DEF RobotInit, Init, Call!Init
<1>1. CallsInv
  BY InitCallsInv DEF RobotInit
<1>2. RobotTypes
  <2>1. 0 \in 0..MaxItems /\ due \subseteq Threads
    BY <1>0, RobotAssumption
  <2> QED
    BY <1>0, <2>1 DEF RobotTypes, Link!Links, Link!Phases
<1>3. RunsOK
  <2>1. ASSUME NEW t \in Threads PROVE RunOK(t)
    <3>1. t \in due => MaxItems + 2 =< MaxMessages
      BY <1>0, RobotAssumption
    <3>2. t \in due => Budget(t, MaxItems + 2)
      BY <1>0, <3>1, RobotAssumption, ExecutionAssumption DEF Budget
    <3>3. /\ pc[t] = "idle" /\ op[t] = "start" /\ item[t] = 0 /\ late[t] = 0 /\ t \notin accepted
      BY <1>0
    <3> QED
      BY <3>2, <3>3 DEF RunOK, Starting, InBody
  <2> QED
    BY <1>0, <2>1 DEF RunsOK
<1>4. RunBudget /\ ItemsMatch
  BY <1>3, RunsOKMeans
<1>5. FiledMatch /\ MineMatch
  BY <1>0, FS_EmptySet DEF FiledMatch, MineMatch
<1>6. ReportsMatch /\ CleanRunIsComplete
  BY <1>0 DEF ReportsMatch, NoneReported, NoneLost, FinishIsLast, AllStored, CleanIsOver, CleanRunIsComplete
<1>7. ExecutionsMatch
  BY <1>0 DEF ExecutionsMatch, Holding
<1> QED
  BY <1>1, <1>2, <1>3, <1>4, <1>5, <1>6, <1>7, RobotParts DEF Ground

LEMMA RobotInvPreserved ==
  ASSUME RobotInv, [RobotNext]_allVars
  PROVE  RobotInv'
<1>1. /\ Ground /\ RunsOK /\ FiledMatch /\ MineMatch /\ ReportsMatch /\ CleanRunIsComplete /\ ExecutionsMatch
  BY RobotParts
<1>2. CallsInv' /\ RobotTypes' /\ RunsOK'
  BY <1>1, RobotCallsPreserved, RobotTypesPreserved, RunsOKPreserved
<1>3. RunBudget' /\ ItemsMatch' /\ LateMatches' /\ AtMostOneLateItem'
  <2>1. RunsOK' <=> RunBudget' /\ ItemsMatch' /\ LateMatches' /\ AtMostOneLateItem'
    BY RunsOKMeans, PTL
  <2> QED
    BY <1>2, <2>1
<1>4. FiledMatch' /\ MineMatch' /\ ReportsMatch' /\ CleanRunIsComplete' /\ ExecutionsMatch'
  BY <1>1, FiledPreserved, MinePreserved, ReportsPreserved, ExecutionsPreserved
<1>5. RobotTypeOK'
  BY <1>2 DEF CallsInv, RobotTypeOK, RobotTypes
<1> QED
  BY <1>2, <1>3, <1>4, <1>5 DEF RobotInv

LEMMA RobotInvariant == RobotSpec => []RobotInv
BY RobotInvInit, RobotInvPreserved, PTL DEF RobotSpec

\* Type correctness: the connection, the calls, the runs of any number of threads and what the
\* platform stores keep their types, whatever the handlers, the user and the network do.
THEOREM RobotTypeCorrect == RobotSpec => []RobotTypeOK
<1>1. RobotInv => RobotTypeOK
  BY DEF RobotInv
<1> QED
  BY <1>1, RobotInvariant, PTL

\* Once the socket is closed for good, which is after is_stopping has become true, a run that
\* never looks at is_stopping begins at most one more item: the report of an item after the end
\* raises NotConnectedError, or the run finds no execution, and leaves its body.
THEOREM RobotAtMostOneLateItem == RobotSpec => []AtMostOneLateItem
<1>1. RobotInv => AtMostOneLateItem
  BY DEF RobotInv
<1> QED
  BY <1>1, RobotInvariant, PTL

\* When run() has returned without an exception, having finished the execution it opened, the
\* platform has stored a report of every item, although report_tasks awaits no answer: drops,
\* reconnections, cancellations, timeouts and the runs of other threads included.
THEOREM RobotCleanRunIsComplete == RobotSpec => []CleanRunIsComplete
<1>1. RobotInv => CleanRunIsComplete
  BY DEF RobotInv
<1> QED
  BY <1>1, RobotInvariant, PTL

\* Before the first reconnection, and while the platform cancels nothing, start() and the
\* gateway keep all threads but one out of the body of run(), however many there are and
\* although is_running is looked at before the call and set after it.
THEOREM RobotBodiesExclusive == RobotSpec => []BodiesExclusive
<1>1. RobotInv => BodiesExclusive
  BY BodiesExclude DEF RobotInv
<1> QED
  BY <1>1, RobotInvariant, PTL
=============================================================================
