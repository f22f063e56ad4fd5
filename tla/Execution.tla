----------------------------- MODULE Execution ------------------------------
(***************************************************************************)
(* ExecutionManager (execution.py) over SocketConnection.call, as several  *)
(* automation:start handlers use it, and the executions the gateway keeps. *)
(*                                                                         *)
(* Each handler runs `with execution.run(): body`, and the body may report *)
(* tasks and update the observation.  The calls are those of the contract  *)
(* that Calls.tla implements: a timeout does not undo a request, which may *)
(* be served later, and an error event may end calls it does not belong to.*)
(* The gateway's side is external: it tracks one execution per socket,     *)
(* refuses a second start, and refuses whatever names another execution.   *)
(***************************************************************************)
EXTENDS Naturals

CONSTANTS
  Threads,       \* threads that run automations
  MaxMessages,   \* bound: requests and reports a thread sends
  MaxExecs,      \* bound: executions the gateway opens
  MaxDrops,      \* bound: times the socket drops
  Cancellable    \* the executions the platform may cancel while they run

ASSUME ExecutionAssumption ==
  /\ MaxMessages \in Nat /\ MaxExecs \in Nat /\ MaxDrops \in Nat /\ Cancellable \subseteq Nat

VARIABLES
  execution_id,  \* _execution_id, 0 for None
  pc,            \* where each thread is, see Places
  op,            \* the operation it is about to perform or performing
  mine,          \* the execution its latest run() yielded, 0 for none
  ended,         \* how the body of its latest run() ended, by what finish() last told
  sent,          \* messages each thread has sent
  calling, accepted, heard, ret,   \* the calls, see CallContract
  answer,        \* the execution id in the acknowledgement a thread awaits
  wire,          \* messages on their way to the gateway
  error,         \* an error event is on its way to the robot
  up, socket,    \* the socket is up; its number
  gwExec,        \* the gateway's executionId for this socket, 0 for none
  execs,         \* executions opened so far, numbered from 1
  status,        \* the gateway's status of each execution
  opener,        \* history: the request and the socket that opened it
  bodies,        \* history: how the body that ran it ended, see FinishAgain
  failedStarts   \* history: start requests whose call raised

callVars == <<calling, accepted, heard, ret>>
runVars == <<execution_id, mine, ended, bodies>>
linkVars == <<wire, error, up, socket>>
gatewayVars == <<gwExec, execs, status, opener>>
vars == <<runVars, pc, op, sent, callVars, answer, linkVars, gatewayVars, failedStarts>>

Call == INSTANCE CallContract

Execs == 1..MaxExecs
Places == {"idle", "checked", "required", "calling", "started", "body", "finished"}
\* a finish carries the status it reports
Finishes == {"completed", "failed"}
Messages == [thread : Threads, n : 1..MaxMessages, op : {"start", "task", "observe"} \cup Finishes,
             exec : 0..MaxExecs]

Init ==
  /\ execution_id = 0 /\ failedStarts = {}
  /\ pc = [t \in Threads |-> "idle"] /\ op = [t \in Threads |-> "start"]
  /\ mine = [t \in Threads |-> 0] /\ ended = [t \in Threads |-> "running"]
  /\ sent = [t \in Threads |-> 0] /\ answer = [t \in Threads |-> 0]
  /\ Call!Init
  /\ wire = {} /\ error = FALSE /\ up = TRUE /\ socket = 0
  /\ gwExec = 0 /\ execs = 0
  /\ status = [e \in Execs |-> "none"]
  /\ opener = [e \in Execs |-> <<>>]
  /\ bodies = [e \in Execs |-> "running"]

-----------------------------------------------------------------------------
(* call() and emit(), as the operations below use them.                    *)

Latest(t) == <<t, sent[t]>>

\* The bound on messages, checked where a step is optional, leaves room for finish.
Budget(t, n) == sent[t] + n =< MaxMessages

\* The message t sends next, naming execution e.
Send(t, o, e) ==
  /\ sent' = [sent EXCEPT ![t] = @ + 1]
  /\ wire' = wire \cup {[thread |-> t, n |-> sent[t] + 1, op |-> o, exec |-> e]}
  /\ UNCHANGED <<error, up, socket>>

\* The call is refused for want of a connection, or its request is sent.
BeginCall(t, o, e) ==
  /\ pc' = [pc EXCEPT ![t] = "calling"]
  /\ op' = [op EXCEPT ![t] = o]
  /\ IF up
     THEN Call!Enter(t) /\ Send(t, o, e)
     ELSE Call!Refuse(t) /\ UNCHANGED <<sent, linkVars>>
  /\ answer' = [answer EXCEPT ![t] = 0]
  /\ UNCHANGED <<runVars, gatewayVars, failedStarts>>

-----------------------------------------------------------------------------
(* start()                                                                 *)

\* automation:start begins a run(): start() looks at is_running, and raises RuntimeError,
\* changing nothing, if an execution is open ...
StartChecks(t) ==
  /\ pc[t] = "idle" /\ execution_id = 0 /\ Budget(t, 2)
  /\ pc' = [pc EXCEPT ![t] = "checked"]
  /\ UNCHANGED <<runVars, op, sent, callVars, answer, linkVars, gatewayVars, failedStarts>>

\* ... and calls execution:start.
StartCalls(t) ==
  /\ pc[t] = "checked"
  /\ BeginCall(t, "start", 0)

\* The call returned: the id in its acknowledgement becomes the current execution.
StartAssigns(t) ==
  /\ pc[t] = "started"
  /\ execution_id' = answer[t]
  /\ mine' = [mine EXCEPT ![t] = answer[t]] /\ ended' = [ended EXCEPT ![t] = "running"]
  /\ pc' = [pc EXCEPT ![t] = "body"]
  /\ UNCHANGED <<bodies, op, sent, callVars, answer, linkVars, gatewayVars, failedStarts>>

-----------------------------------------------------------------------------
(* report_tasks(), update_observation() and finish()                       *)

\* _require_execution passes; if it raises, the body may go on or let it end the run.
Require(t, o) ==
  /\ execution_id # 0
  /\ pc' = [pc EXCEPT ![t] = "required"] /\ op' = [op EXCEPT ![t] = o]
  /\ UNCHANGED <<runVars, sent, callVars, answer, linkVars, gatewayVars, failedStarts>>

BodyRequires(t) == pc[t] = "body" /\ Budget(t, 2) /\ \E o \in {"task", "observe"} : Require(t, o)

\* report_tasks emits, with no acknowledgement; without a socket it raises.
ReportTasks(t) ==
  /\ pc[t] = "required" /\ op[t] = "task"
  /\ pc' = [pc EXCEPT ![t] = "body"]
  /\ IF up THEN Send(t, "task", execution_id) ELSE UNCHANGED <<sent, linkVars>>
  /\ UNCHANGED <<runVars, op, callVars, answer, gatewayVars, failedStarts>>

\* update_observation and finish name the execution_id of this moment.
RequiredCalls(t) ==
  /\ pc[t] = "required" /\ op[t] # "task"
  /\ BeginCall(t, op[t], execution_id)

\* Mutation of BodyEnds: a `finally: finish()`, whatever the body did.
BodyEndsCompleted(t, how) ==
  /\ pc[t] = "body" /\ how \in Finishes
  /\ ended' = [ended EXCEPT ![t] = how]
  /\ bodies' = [bodies EXCEPT ![mine[t]] = how]
  /\ op' = [op EXCEPT ![t] = "completed"]
  /\ pc' = [pc EXCEPT ![t] = IF execution_id # 0 THEN "required" ELSE "idle"]
  /\ UNCHANGED <<execution_id, mine, sent, callVars, answer, linkVars, gatewayVars, failedStarts>>

\* The body of run() ends, and run() calls finish: COMPLETED, or FAILED if it raised.
BodyEnds(t, how) ==
  /\ pc[t] = "body" /\ how \in Finishes
  /\ ended' = [ended EXCEPT ![t] = how]
  /\ bodies' = [bodies EXCEPT ![mine[t]] = how]
  /\ op' = [op EXCEPT ![t] = how]
  /\ pc' = [pc EXCEPT ![t] = IF execution_id # 0 THEN "required" ELSE "idle"]
  /\ UNCHANGED <<execution_id, mine, sent, callVars, answer, linkVars, gatewayVars, failedStarts>>

\* The body is left by a BaseException (Ctrl+C), which run() does not catch.
BodyInterrupted(t) ==
  /\ pc[t] = "body"
  /\ pc' = [pc EXCEPT ![t] = "idle"]
  /\ UNCHANGED <<execution_id, mine, ended, bodies, op, sent, callVars, answer, linkVars,
                 gatewayVars, failedStarts>>

\* A program that caught the error of finish() calls it again, with the same status, or, as
\* the README's try/except around start() and finish() does, with FAILED.  Then it is
\* "doubted" how the body of a completed execution ended: finish() was part of it.
FinishAgain(t) ==
  /\ pc[t] = "idle" /\ execution_id # 0 /\ ended[t] \in Finishes /\ Budget(t, 1)
  /\ \E how \in {ended[t], "failed"} :
       /\ ended' = [ended EXCEPT ![t] = how]
       /\ bodies' = [bodies EXCEPT ![mine[t]] =
                       IF how = "failed" /\ @ = "completed" THEN "doubted" ELSE @]
       /\ op' = [op EXCEPT ![t] = how]
  /\ pc' = [pc EXCEPT ![t] = "required"]
  /\ UNCHANGED <<execution_id, mine, sent, callVars, answer, linkVars, gatewayVars, failedStarts>>

\* The call returned: the current execution is forgotten.
FinishClears(t) ==
  /\ pc[t] = "finished"
  /\ execution_id' = 0
  /\ pc' = [pc EXCEPT ![t] = "idle"]
  /\ UNCHANGED <<mine, ended, bodies, op, sent, callVars, answer, linkVars, gatewayVars, failedStarts>>

-----------------------------------------------------------------------------
(* How a call ends.                                                        *)

Resume(t, place) == pc' = [pc EXCEPT ![t] = place]

\* It returns: start and finish have something left to do.
CallReturns(t) ==
  /\ pc[t] = "calling" /\ Call!Return(t, "result")
  /\ Resume(t, CASE op[t] = "start"   -> "started"
                 [] op[t] = "observe" -> "body"
                 [] OTHER             -> "finished")
  /\ UNCHANGED <<runVars, op, sent, answer, linkVars, gatewayVars, failedStarts>>

\* Mutation of Abandon: run() enters its body although start() raised.
AbandonIntoBody(t) ==
  /\ Resume(t, IF op[t] \in Finishes THEN "idle" ELSE "body")
  /\ failedStarts' = IF op[t] = "start" THEN failedStarts \cup {Latest(t)} ELSE failedStarts
  /\ UNCHANGED <<execution_id, mine, ended, bodies, op, sent, answer, linkVars, gatewayVars>>

\* What an exception of the call does to the operation that made it.
Abandon(t) ==
  /\ Resume(t, IF op[t] = "observe" THEN "body" ELSE "idle")
  /\ failedStarts' = IF op[t] = "start" THEN failedStarts \cup {Latest(t)} ELSE failedStarts
  /\ UNCHANGED <<execution_id, mine, ended, bodies, op, sent, answer, linkVars, gatewayVars>>

\* Mutation of CallRaises: a call without a timeout.
CallRaisesIfTold(t) ==
  /\ pc[t] = "calling"
  /\ Call!Return(t, "rejected") \/ (~up /\ Call!Return(t, "emit_failed"))
  /\ Abandon(t)

\* Mutation of CallRaises: finish() forgets the execution even if its call raised.
FinishForgets(t) ==
  /\ pc[t] = "calling"
  /\ \/ \E r \in {"timeout", "rejected"} : Call!Return(t, r)
     \/ ~up /\ Call!Return(t, "emit_failed")
  /\ execution_id' = IF op[t] \in Finishes THEN 0 ELSE execution_id
  /\ Resume(t, IF op[t] = "observe" THEN "body" ELSE "idle")
  /\ failedStarts' = IF op[t] = "start" THEN failedStarts \cup {Latest(t)} ELSE failedStarts
  /\ UNCHANGED <<mine, ended, bodies, op, sent, answer, linkVars, gatewayVars>>

\* It raises AckTimeoutError, ServerRejectedError or what a dead socket raises.
CallRaises(t) ==
  /\ pc[t] = "calling"
  /\ \/ \E r \in {"timeout", "rejected"} : Call!Return(t, r)
     \/ ~up /\ Call!Return(t, "emit_failed")
  /\ Abandon(t)

\* It raised NotConnectedError at once.
CallRefused(t) ==
  /\ pc[t] = "calling" /\ t \notin calling
  /\ Abandon(t)
  /\ UNCHANGED callVars

-----------------------------------------------------------------------------
(* The gateway, the platform and the network.                              *)

Opens(m) == m.op = "start" /\ gwExec = 0 /\ execs < MaxExecs
Concerns(m) == m.op # "start" /\ m.exec = gwExec /\ gwExec # 0

Awaited(m) == m.thread \in calling /\ m.n = sent[m.thread] /\ m.op = op[m.thread]

\* The acknowledgement reaches the call that waits for it, if any does.
Acknowledge(m, e) ==
  IF Awaited(m)
  THEN Call!Accept(m.thread) /\ answer' = [answer EXCEPT ![m.thread] = e]
  ELSE UNCHANGED <<callVars, answer>>

GatewayOpens(m) ==
  /\ m \in wire /\ Opens(m)
  /\ wire' = wire \ {m}
  /\ execs' = execs + 1 /\ gwExec' = execs + 1
  /\ status' = [status EXCEPT ![execs + 1] = "open"]
  /\ opener' = [opener EXCEPT ![execs + 1] = <<m.thread, m.n, socket>>]
  /\ Acknowledge(m, execs + 1)
  /\ UNCHANGED <<runVars, pc, op, sent, error, up, socket, failedStarts>>

\* A report is stored, an observation replaced, or the execution closed.
GatewayServes(m) ==
  /\ m \in wire /\ Concerns(m)
  /\ wire' = wire \ {m}
  /\ IF m.op \in Finishes
     THEN gwExec' = 0 /\ status' = [status EXCEPT ![gwExec] = m.op]
     ELSE UNCHANGED <<gwExec, status>>
  /\ Acknowledge(m, gwExec)
  /\ UNCHANGED <<runVars, pc, op, sent, error, up, socket, execs, opener, failedStarts>>

\* Everything else is answered with an error event, which names no request.
GatewayRejects(m) ==
  /\ m \in wire /\ ~Concerns(m) /\ (m.op = "start" => gwExec # 0)
  /\ wire' = wire \ {m}
  /\ error' = TRUE
  /\ UNCHANGED <<runVars, pc, op, sent, callVars, answer, up, socket, gatewayVars, failedStarts>>

\* An error about something else: another event of this robot, the session.
SessionError ==
  /\ up /\ error' = TRUE
  /\ UNCHANGED <<runVars, pc, op, sent, callVars, answer, wire, up, socket, gatewayVars, failedStarts>>

\* It reaches the calls that are registered by then.
ErrorArrives ==
  /\ error /\ error' = FALSE
  /\ \E S \in SUBSET calling : Call!ErrorReaches(S)
  /\ UNCHANGED <<runVars, pc, op, sent, answer, wire, up, socket, gatewayVars, failedStarts>>

PlatformCancels ==
  /\ gwExec # 0 /\ gwExec \in Cancellable
  /\ status' = [status EXCEPT ![gwExec] = "cancelled"] /\ gwExec' = 0
  /\ UNCHANGED <<runVars, pc, op, sent, callVars, answer, linkVars, execs, opener, failedStarts>>

\* The socket dies with what it carries; the gateway's executionId was kept on it.
Cut ==
  /\ up' = FALSE /\ wire' = {} /\ error' = FALSE
  /\ gwExec' = 0
  /\ UNCHANGED <<runVars, pc, op, sent, callVars, answer, socket, execs, status, opener, failedStarts>>

Drop == up /\ socket < MaxDrops /\ Cut

Reconnect ==
  /\ ~up
  /\ up' = TRUE /\ socket' = socket + 1
  /\ UNCHANGED <<runVars, pc, op, sent, callVars, answer, wire, error, gatewayVars, failedStarts>>

-----------------------------------------------------------------------------
\* Steps of a handler once started; the body is the program's own.
CallEnds(t) == CallReturns(t) \/ CallRaises(t) \/ CallRefused(t)
Finish(t) == \E how \in Finishes : BodyEnds(t, how)
Progress(t) ==
  \/ StartCalls(t) \/ StartAssigns(t) \/ ReportTasks(t) \/ RequiredCalls(t)
  \/ CallEnds(t) \/ FinishClears(t)

Handler(t) ==
  \/ StartChecks(t) \/ BodyRequires(t) \/ BodyInterrupted(t) \/ FinishAgain(t)
  \/ Finish(t) \/ Progress(t)

Gateway ==
  \/ \E m \in wire : GatewayOpens(m) \/ GatewayServes(m) \/ GatewayRejects(m)
  \/ SessionError \/ ErrorArrives \/ PlatformCancels

Next ==
  \/ \E t \in Threads : Handler(t)
  \/ Gateway
  \/ Drop \/ Reconnect

Fairness == \A t \in Threads : WF_vars(Progress(t)) /\ WF_vars(Finish(t))

Spec == Init /\ [][Next]_vars /\ Fairness

-----------------------------------------------------------------------------
\* Outcome o is what became of the body of execution e, as far as the program says.
Tells(o, e) == bodies[e] \in {o, "doubted"}

TypeOK ==
  /\ execution_id \in 0..MaxExecs 
  /\ failedStarts \subseteq Threads \X (0..MaxMessages)
  /\ pc \in [Threads -> Places]
  /\ op \in [Threads -> {"start", "task", "observe"} \cup Finishes]
  /\ mine \in [Threads -> 0..MaxExecs] /\ ended \in [Threads -> {"running"} \cup Finishes]
  /\ sent \in [Threads -> 0..MaxMessages] /\ answer \in [Threads -> 0..MaxExecs]
  /\ calling \subseteq Threads /\ accepted \subseteq calling /\ heard \subseteq calling
  /\ wire \subseteq Messages
  /\ error \in BOOLEAN /\ up \in BOOLEAN /\ socket \in 0..MaxDrops
  /\ gwExec \in 0..MaxExecs /\ execs \in 0..MaxExecs
  /\ status \in [Execs -> {"none", "open", "cancelled"} \cup Finishes]
  /\ bodies \in [Execs -> {"running", "doubted"} \cup Finishes]

\* The execution open on the live socket is the one the robot holds, unless the start()
\* that opened it is still on its way back or has raised: none is lost silently.
NoSilentOrphan ==
  gwExec # 0 /\ execution_id # gwExec =>
    LET t == opener[gwExec][1]
        request == <<t, opener[gwExec][2]>>
    IN  \/ request \in failedStarts
        \/ request = Latest(t) /\ pc[t] \in {"calling", "started"} /\ op[t] = "start"

\* finish() lets go of an execution only after the gateway has closed it.
ReleaseAfterClose ==
  [][execution_id # 0 /\ execution_id' = 0 => status[execution_id] # "open"]_vars

\* An execution the gateway shows as COMPLETED was run by a body that ended cleanly, one it
\* shows as FAILED by a body that raised, late and repeated requests included, unless the
\* program itself told two outcomes: COMPLETED, and FAILED when that finish() raised.
StatusTellsOutcome ==
  \A e \in Execs : status[e] \in Finishes => Tells(status[e], e)

\* Every operation ends, and with it every run() whose body ends.
OperationsEnd ==
  \A t \in Threads : pc[t] \notin {"idle", "body"} ~> pc[t] \in {"idle", "body"}

-----------------------------------------------------------------------------
(* Inductive strengthenings, for the proofs in ExecutionProofs.            *)

\* Bounds: a thread can send what it has begun, and finish; a socket can come back.
BudgetLeft ==
  /\ \A t \in Threads :
       /\ pc[t] = "checked" \/ (pc[t] = "required" /\ op[t] \notin Finishes) => Budget(t, 2)
       /\ \/ pc[t] \in {"started", "body", "required"}
          \/ pc[t] = "calling" /\ op[t] \notin Finishes
          => Budget(t, 1)
  /\ ~up => socket < MaxDrops

\* What a thread is doing at each place.
PlacesMatch ==
  \A t \in Threads :
    /\ t \in calling => pc[t] = "calling"
    /\ pc[t] = "calling" => op[t] # "task"
    /\ pc[t] = "started" => op[t] = "start"
    /\ pc[t] = "finished" => op[t] \in Finishes
    /\ pc[t] = "required" => op[t] # "start"

\* A dead socket carries nothing, and its execution is forgotten.
SocketMatches == ~up => wire = {} /\ gwExec = 0

\* Executions are numbered as they are opened, and nothing names a later one.
ExecsCounted ==
  /\ gwExec =< execs /\ execution_id =< execs
  /\ \A t \in Threads : mine[t] =< execs /\ answer[t] =< execs
  /\ \A m \in wire : m.exec =< execs
  /\ gwExec # 0 => status[gwExec] = "open"
  /\ \A e \in Execs : e > execs => bodies[e] = "running" /\ status[e] = "none"
  /\ \A e \in Execs : opener[e] = <<>> <=> e > execs

\* A request is on the wire once, and the latest of a waiting thread is what it waits for.
RequestsMatch ==
  /\ \A m, q \in wire : m.thread = q.thread /\ m.n = q.n => m = q
  /\ \A m \in wire : m.n =< sent[m.thread]
  /\ \A m \in wire : m.thread \in calling /\ m.n = sent[m.thread] =>
       m.thread \notin accepted /\ m.op = op[m.thread]

\* A request opens one execution at most, and is then no longer on the wire.
OpenersMatch ==
  /\ opener \in [Execs -> {<<>>} \cup (Threads \X (1..MaxMessages) \X (0..MaxDrops))]
  /\ \A e \in Execs : opener[e] # <<>> => opener[e][2] =< sent[opener[e][1]]
  /\ \A m \in wire, e \in Execs :
       opener[e] # <<>> => ~(opener[e][1] = m.thread /\ opener[e][2] = m.n)
  /\ \A e, f \in Execs :
       /\ opener[e] # <<>> /\ opener[f] # <<>>
       /\ opener[e][1] = opener[f][1] /\ opener[e][2] = opener[f][2]
       => e = f

\* The acknowledgement of a start names the execution that this very request opened.
StartsMatch ==
  \A t \in Threads :
    op[t] = "start" /\ (t \in accepted \/ pc[t] = "started") =>
      /\ answer[t] # 0 /\ opener[answer[t]] # <<>>
      /\ opener[answer[t]][1] = t /\ opener[answer[t]][2] = sent[t]

\* A start on the wire is awaited, or its call has raised.
StartsAccountedFor ==
  \A m \in wire : m.op = "start" =>
    <<m.thread, m.n>> \in failedStarts \/ (m.thread \in calling /\ m.n = sent[m.thread])

\* The following four need that one handler has the ExecutionManager to itself.

\* _execution_id is set exactly while the handler's run is open.
IdMatches ==
  \A t \in Threads :
    /\ pc[t] = "checked" \/ (pc[t] \in {"calling", "started"} /\ op[t] = "start")
         => execution_id = 0
    /\ pc[t] \in {"body", "required", "finished"} \/ (pc[t] = "calling" /\ op[t] # "start")
         => execution_id # 0
    /\ execution_id # 0 => execution_id = mine[t]

\* An execution has no outcome before its body ends, and afterwards the one of its body.
BodiesMatch ==
  \A t \in Threads :
    /\ pc[t] = "body" \/ (pc[t] \in {"required", "calling"} /\ op[t] \in {"task", "observe"})
         => ended[t] = "running" /\ bodies[mine[t]] = "running"
    /\ pc[t] \in {"required", "calling", "finished"} /\ op[t] \in Finishes => ended[t] = op[t]
    /\ execution_id # 0 /\ ended[t] \in Finishes => Tells(ended[t], mine[t])
    /\ op[t] = "start" /\ (t \in accepted \/ pc[t] = "started") => bodies[answer[t]] = "running"

\* A finish on the wire tells the outcome of the execution it names.
FinishesMatch ==
  /\ \A m \in wire : m.op \in Finishes => m.exec # 0 /\ Tells(m.op, m.exec)
  /\ \A m \in wire : m.op # "start" /\ m.thread \in calling /\ m.n = sent[m.thread] =>
       m.exec = execution_id

\* An acknowledged finish has closed the current execution.
ClosedMatches ==
  \A t \in Threads :
    op[t] \in Finishes /\ (t \in accepted \/ pc[t] = "finished") => status[execution_id] # "open"

CallsInv ==
  /\ TypeOK /\ PlacesMatch /\ SocketMatches /\ ExecsCounted /\ RequestsMatch /\ OpenersMatch
  /\ StartsMatch /\ StartsAccountedFor

RunInv == IdMatches /\ BodiesMatch /\ FinishesMatch /\ ClosedMatches

IInv == BudgetLeft /\ CallsInv /\ RunInv /\ NoSilentOrphan /\ StatusTellsOutcome
=============================================================================
