------------------------------- MODULE Robot --------------------------------
(***************************************************************************)
(* A whole robot: the program of examples/own_tasks_robot.py on top of     *)
(* RobotClient.  It composes ExecutionManager over the calls (Execution)   *)
(* with the lifecycle of the connection (ConnectionContract).              *)
(*                                                                         *)
(*   with client:                       connect() ... disconnect()         *)
(*       if AUTO_START: run_automation(client)                             *)
(*       client.listen()                                                   *)
(*                                                                         *)
(* The platform's automation:start runs run_automation on a thread of its  *)
(* own, beside the main thread.  Each run processes its items and reports  *)
(* them one by one with report_tasks, which emits and awaits no answer.    *)
(* The model begins where connect() has returned.                          *)
(***************************************************************************)
EXTENDS Execution, FiniteSets

CONSTANTS
  Main,         \* the main thread; the others run automation:start handlers
  AutoStart,    \* AUTO_START: the main thread runs the automation before it listens
  MaxItems      \* items of a run

\* The bound on messages leaves room for a run of the main thread.
ASSUME RobotAssumption ==
  /\ Main \in Threads /\ AutoStart \in BOOLEAN /\ MaxItems \in Nat
  /\ AutoStart => MaxItems + 2 =< MaxMessages

VARIABLES
  link, stopped, phase,   \* the connection, see ConnectionContract
  due,                    \* threads whose automation is about to call start()
  item,                   \* items each run has begun
  busy,                   \* it is processing one of them
  raised,                 \* the body is left by an exception
  late,                   \* history: items it began once the socket was closed for good
  filed,                  \* history: reports the platform has stored
  clean                   \* history: runs that ended without an exception

Link == INSTANCE ConnectionContract WITH used <- "once"

lifeVars == <<link, stopped, phase>>
itemVars == <<item, busy, raised, late>>
robotVars == <<lifeVars, due, itemVars, filed, clean>>
execVars == vars
allVars == <<execVars, robotVars>>

RobotInit ==
  /\ Init
  /\ link = "up" /\ stopped = FALSE /\ phase = "connected"
  /\ due = IF AutoStart THEN {Main} ELSE {}
  /\ item = [t \in Threads |-> 0] /\ busy = [t \in Threads |-> FALSE]
  /\ raised = [t \in Threads |-> FALSE] /\ late = [t \in Threads |-> 0]
  /\ filed = {} /\ clean = {}

-----------------------------------------------------------------------------
(* automation:start and start()                                            *)

\* _on_automation_start starts a thread for the handler.  A run may need MaxItems + 2 messages.
AutomationStart(t) ==
  /\ t # Main /\ link = "up" /\ pc[t] = "idle" /\ t \notin due /\ Budget(t, MaxItems + 2)
  /\ due' = due \cup {t}
  /\ UNCHANGED <<execVars, lifeVars, itemVars, filed, clean>>

\* An exception that leaves run_automation is logged by _run_handler_safely; in the main
\* thread it leaves the with block.
Escape(t) == IF t = Main THEN Link!Leave ELSE UNCHANGED lifeVars

\* start() finds no execution, or raises RuntimeError.
Begins(t) ==
  /\ t \in due /\ due' = due \ {t}
  /\ item' = [item EXCEPT ![t] = 0] /\ raised' = [raised EXCEPT ![t] = FALSE]
  /\ busy' = [busy EXCEPT ![t] = FALSE] /\ late' = [late EXCEPT ![t] = 0]
  /\ IF execution_id = 0
     THEN StartChecks(t) /\ UNCHANGED lifeVars
     ELSE UNCHANGED execVars /\ Escape(t)
  /\ UNCHANGED <<filed, clean>>

\* The steps of Execution that concern neither the items nor the main thread.
Runs(t) ==
  /\ \/ StartCalls(t) \/ StartAssigns(t) \/ CallReturns(t)
     \/ op[t] # "task" /\ RequiredCalls(t)
  /\ UNCHANGED robotVars

\* The exception of the call of start() or finish() leaves run().
RunRaises(t) ==
  /\ CallRaises(t) \/ CallRefused(t)
  /\ Escape(t)
  /\ UNCHANGED <<due, itemVars, filed, clean>>

-----------------------------------------------------------------------------
(* The body of the run                                                     *)

InBody(t) == pc[t] = "body" /\ ~raised[t]

\* process_item
ProcessItem(t) ==
  /\ InBody(t) /\ ~busy[t] /\ item[t] < MaxItems
  /\ item' = [item EXCEPT ![t] = @ + 1] /\ busy' = [busy EXCEPT ![t] = TRUE]
  /\ late' = IF link = "closed" THEN [late EXCEPT ![t] = @ + 1] ELSE late
  /\ UNCHANGED <<execVars, lifeVars, due, raised, filed, clean>>

\* Mutation of ReportItem: an item that failed is logged and skipped.
SkipItem(t) ==
  /\ InBody(t) /\ busy[t]
  /\ busy' = [busy EXCEPT ![t] = FALSE]
  /\ \/ execution_id # 0 /\ Require(t, "task")
     \/ UNCHANGED execVars
  /\ UNCHANGED <<lifeVars, due, item, raised, late, filed, clean>>

\* The outcome is SUCCESS or FAILURE, and is reported whichever it is.
\* report_tasks: _require_execution passes, or raises NoActiveExecutionError ...
ReportItem(t) ==
  /\ InBody(t) /\ busy[t]
  /\ busy' = [busy EXCEPT ![t] = FALSE]
  /\ IF execution_id # 0
     THEN Require(t, "task") /\ UNCHANGED raised
     ELSE UNCHANGED execVars /\ raised' = [raised EXCEPT ![t] = TRUE]
  /\ UNCHANGED <<lifeVars, due, item, late, filed, clean>>

\* Mutation of EmitItem: emit() without the is_connected check.
EmitItemBlindly(t) ==
  /\ ReportTasks(t)
  /\ UNCHANGED <<lifeVars, due, item, busy, raised, late, filed, clean>>

\* ... and emit() sends the report, or raises NotConnectedError.
EmitItem(t) ==
  /\ ReportTasks(t)
  /\ raised' = [raised EXCEPT ![t] = ~up]
  /\ UNCHANGED <<lifeVars, due, item, busy, late, filed, clean>>

\* The body ends, by an exception or with its items: it never looks at is_stopping.
\* finish() follows, and raises at once if there is no execution.
LeaveBody(t) ==
  /\ pc[t] = "body" /\ ~busy[t]
  /\ \/ raised[t] /\ BodyEnds(t, "failed")
     \/ ~raised[t] /\ item[t] = MaxItems /\ BodyEnds(t, "completed")
  /\ IF execution_id = 0 THEN Escape(t) ELSE UNCHANGED lifeVars
  /\ UNCHANGED <<due, itemVars, filed, clean>>

\* finish() returned: run() returns, or re-raises the exception of the body.
RunEnds(t) ==
  /\ FinishClears(t)
  /\ IF op[t] = "completed"
     THEN UNCHANGED lifeVars
     ELSE Escape(t)
  /\ clean' = IF op[t] = "completed" /\ answer[t] = mine[t]
              THEN clean \cup {[thread |-> t, exec |-> mine[t], items |-> item[t]]}
              ELSE clean
  /\ UNCHANGED <<due, itemVars, filed>>

-----------------------------------------------------------------------------
(* The main thread                                                         *)

\* Ctrl+C while the main thread is in the body of its own automation.
Interrupt ==
  /\ BodyInterrupted(Main) /\ Link!Leave
  /\ UNCHANGED <<due, itemVars, filed, clean>>

MainIdle == pc[Main] = "idle" /\ Main \notin due

\* Mutation of Listen: wait() clears _stopped_event before it waits.
ListenClears ==
  /\ MainIdle /\ phase = "connected" /\ phase' = "listening" /\ stopped' = FALSE
  /\ UNCHANGED <<execVars, link, due, itemVars, filed, clean>>

Listen == MainIdle /\ Link!Listen /\ UNCHANGED <<execVars, due, itemVars, filed, clean>>

WaitReturns == Link!WaitReturns /\ UNCHANGED <<execVars, due, itemVars, filed, clean>>

\* Ctrl+C in listen().
CtrlC == phase = "listening" /\ Link!Leave /\ UNCHANGED <<execVars, due, itemVars, filed, clean>>

\* listen() and the with block end in disconnect(), which begins by closing the socket or
\* aborting the retries, and returns once that is done; then the process ends.
Shuts == Link!Shut /\ UNCHANGED <<execVars, due, itemVars, filed, clean>>
Disconnects == Link!Disconnect /\ UNCHANGED <<execVars, due, itemVars, filed, clean>>

-----------------------------------------------------------------------------
(* The connection and the gateway                                          *)

Drops == Drop /\ Link!Lose /\ UNCHANGED <<due, itemVars, filed, clean>>

Reconnects == Reconnect /\ Link!Regain /\ UNCHANGED <<due, itemVars, filed, clean>>

\* Kicked, or disconnected by disconnect(): is_stopping is true first, while what is sent
\* is still sent, and then the socket is closed.
Stops == Link!Stops /\ UNCHANGED <<execVars, due, itemVars, filed, clean>>
Severs == Link!Sever /\ Cut /\ UNCHANGED <<due, itemVars, filed, clean>>

\* The retries are exhausted, or aborted by a handler's disconnect().
GivesUp == Link!GivesUp /\ UNCHANGED <<execVars, due, itemVars, filed, clean>>

\* A socket delivers what a thread sends in the order it was sent.
InOrder(m) == \A k \in wire : k.thread = m.thread => m.n =< k.n

Stores(m) == IF m.op = "task" THEN filed' = filed \cup {m} ELSE UNCHANGED filed

Served(m) ==
  /\ InOrder(m)
  /\ \/ (GatewayOpens(m) \/ GatewayRejects(m)) /\ UNCHANGED filed
     \/ GatewayServes(m) /\ Stores(m)
  /\ UNCHANGED <<lifeVars, due, itemVars, clean>>

\* An error about something else does to a call what a timeout does, and is left out.
Platform ==
  \/ \E m \in wire : Served(m)
  \/ (ErrorArrives \/ PlatformCancels) /\ UNCHANGED robotVars

-----------------------------------------------------------------------------
Automation(t) ==
  \/ Begins(t) \/ Runs(t) \/ RunRaises(t) \/ ProcessItem(t) \/ ReportItem(t) \/ EmitItem(t)
  \/ LeaveBody(t) \/ RunEnds(t)

MainThread == Listen \/ WaitReturns \/ Shuts \/ Disconnects \/ Automation(Main)

RobotNext ==
  \/ \E t \in Threads : AutomationStart(t) \/ Automation(t)
  \/ Listen \/ WaitReturns \/ Shuts \/ Disconnects \/ Interrupt \/ CtrlC
  \/ Drops \/ Reconnects \/ Stops \/ Severs \/ GivesUp
  \/ Platform

\* The main thread is scheduled, items take an end, and a connection that ends gets closed,
\* as ConnectionContract promises.  Nothing is assumed of the network, the platform or the
\* user.
RobotSpec ==
  /\ RobotInit /\ [][RobotNext]_allVars
  /\ WF_allVars(MainThread)
  /\ WF_allVars(Severs \/ (phase = "closing" /\ Stops))

-----------------------------------------------------------------------------
RobotTypeOK ==
  /\ TypeOK
  /\ link \in Link!Links /\ stopped \in BOOLEAN /\ phase \in Link!Phases
  /\ up <=> link = "up"
  /\ due \subseteq Threads
  /\ item \in [Threads -> 0..MaxItems] /\ late \in [Threads -> 0..MaxItems]
  /\ busy \in [Threads -> BOOLEAN] /\ raised \in [Threads -> BOOLEAN]
  /\ filed \subseteq Messages
  /\ clean \subseteq [thread : Threads, exec : 1..MaxExecs, items : 0..MaxItems]

\* When run() returns without an exception, having finished the execution it opened, every
\* item it processed is stored under that execution, although reports are not acknowledged.
CleanRunIsComplete ==
  \A r \in clean :
    Cardinality({m \in filed : m.thread = r.thread /\ m.exec = r.exec}) = r.items

\* Until the first reconnection, and while the platform cancels nothing, at most one thread
\* is inside the body of run(): start() and the gateway together exclude the others.
BodiesExclusive ==
  socket = 0 /\ (\A e \in Execs : status[e] # "cancelled") =>
    \A t, u \in Threads : pc[t] \in {"body", "started"} /\ pc[u] \in {"body", "started"}
                          => t = u

\* A run goes on to at most one more item once the socket is closed for good, although it
\* never looks at is_stopping: it learns of the end from its next report.  (Between
\* _stopped_event and the socket's end its reports still go out.)
AtMostOneLateItem == \A t \in Threads : late[t] =< 1

\* When the connection ends for good, or the main thread leaves the `with` block, the process
\* ends, whatever the main thread and the socket were doing at that moment.
ProcessEnds == stopped \/ phase \in {"leaving", "closing"} ~> phase = "out"

\* When no run is in progress, start() refuses with "Já existe uma execução em andamento ...
\* finalize-a antes de iniciar outra" only if the platform shows that execution as open.
RefusalIsTrue ==
  [][\A t \in due : t \notin due' /\ pc'[t] = "idle" =>
       status[execution_id] = "open" \/ \E u \in Threads : pc[u] # "idle"]_allVars

-----------------------------------------------------------------------------
(* Inductive strengthenings, for the proofs in RobotProofs.                *)

Starting(t) == pc[t] = "started" \/ (pc[t] = "calling" /\ op[t] = "start")

\* Bounds: a run can send what it still has to, and a lost socket can come back.
RunBudget ==
  /\ \A t \in Threads :
       /\ t \in due => pc[t] = "idle"
       /\ t \in due \/ pc[t] = "checked" => Budget(t, MaxItems + 2)
       /\ Starting(t) => Budget(t, MaxItems + 1)
       /\ pc[t] = "body" => Budget(t, MaxItems - item[t] + (IF busy[t] THEN 2 ELSE 1))
       /\ pc[t] = "required" => Budget(t, IF op[t] = "task" THEN MaxItems - item[t] + 2 ELSE 1)
  /\ link = "lost" => socket < MaxDrops

\* What the record of a run is at each place.
ItemsMatch ==
  \A t \in Threads :
    /\ op[t] # "observe"
    /\ pc[t] = "required" => ~busy[t]
    /\ pc[t] = "checked" \/ Starting(t) => item[t] = 0 /\ late[t] = 0 /\ ~busy[t] /\ ~raised[t]
    /\ late[t] =< item[t]
    /\ t \in accepted \/ pc[t] = "finished" => answer[t] # 0

\* A socket closed for good is not reopened, and a run that is ready for its next item has
\* begun none since.
LateMatches ==
  /\ \A t \in Threads : late[t] # 0 => link = "closed"
  /\ \A t \in Threads : InBody(t) /\ ~busy[t] => late[t] = 0

\* What the platform stores are reports that were sent.
FiledMatch ==
  /\ IsFiniteSet(wire) /\ IsFiniteSet(filed)
  /\ \A m \in filed : m.op = "task" /\ m.n =< sent[m.thread] /\ m.exec =< execs

\* The execution of a run was opened by its own request.
MineMatch ==
  \A t \in Threads : mine[t] # 0 => opener[mine[t]] # <<>> /\ opener[mine[t]][1] = t

\* The reports a thread made under an execution that are not lost; and those stored.
Made(t, e) == {m \in wire \cup filed : m.op = "task" /\ m.thread = t /\ m.exec = e}
Stored(t, e) == {m \in filed : m.thread = t /\ m.exec = e}

\* The items a run has emitted the reports of.
Emitted(t) == item[t] - (IF busy[t] \/ (pc[t] = "required" /\ op[t] = "task") THEN 1 ELSE 0)

\* A run whose start is served has reported nothing yet.
NoneReported ==
  \A t \in Threads :
    op[t] = "start" /\ (t \in accepted \/ pc[t] = "started") => Made(t, answer[t]) = {}

\* While the gateway holds a run's execution and the robot names it, no report is lost ...
NoneLost ==
  \A t \in Threads :
    pc[t] \in {"body", "required"} /\ gwExec # 0 /\ gwExec = mine[t] /\ execution_id = mine[t]
    => Cardinality(Made(t, mine[t])) = Emitted(t)

\* ... not even while its finish is on the way ...
FinishIsLast ==
  \A m \in wire :
    /\ m.op = "completed" /\ m.thread \in calling /\ m.n = sent[m.thread]
    /\ gwExec # 0 /\ gwExec = mine[m.thread] /\ m.exec = gwExec
    => Cardinality(Made(m.thread, m.exec)) = item[m.thread]

\* ... and when that is acknowledged they are all stored ...
AllStored ==
  \A t \in Threads :
    op[t] = "completed" /\ (t \in accepted \/ pc[t] = "finished") /\ answer[t] = mine[t]
    => gwExec # mine[t] /\ Cardinality(Stored(t, mine[t])) = item[t]

\* ... for good: the execution of a clean run is over.
CleanIsOver == \A r \in clean : gwExec # r.exec /\ r.exec =< execs

ReportsMatch == NoneReported /\ NoneLost /\ FinishIsLast /\ AllStored /\ CleanIsOver

\* Nothing has taken an execution from its run.
Undisturbed == socket = 0 /\ \A e \in Execs : status[e] # "cancelled"

\* A run that has its execution and has not yet tried to finish it, and that execution.
Holding(t) ==
  \/ pc[t] \in {"started", "body", "required"}
  \/ op[t] = "start" /\ t \in accepted
Held(t) == IF pc[t] \in {"body", "required"} THEN mine[t] ELSE answer[t]

\* The gateway has at most one execution open, and its run is the only one that holds any.
ExecutionsMatch ==
  Undisturbed =>
    /\ \A e, f \in Execs : status[e] = "open" /\ status[f] = "open" => e = f
    /\ \A e \in Execs : status[e] = "open" /\ up => gwExec = e
    /\ \A t \in Threads :
         Holding(t) => Held(t) \in Execs /\ status[Held(t)] = "open" /\ opener[Held(t)][1] = t
    /\ \A t \in Threads, m \in wire : Holding(t) /\ m.op \in Finishes => m.exec # Held(t)
    /\ \A t \in Threads : pc[t] \in {"body", "required"} => execution_id \in {0, mine[t]}

RobotInv ==
  /\ CallsInv /\ RobotTypeOK /\ RunBudget /\ ItemsMatch /\ LateMatches /\ AtMostOneLateItem
  /\ FiledMatch /\ MineMatch /\ ReportsMatch /\ CleanRunIsComplete /\ ExecutionsMatch
=============================================================================
