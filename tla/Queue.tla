------------------------------- MODULE Queue --------------------------------
(***************************************************************************)
(* QueueConsumer and TaskOutcome (queue.py) over SocketConnection.call.    *)
(*                                                                         *)
(* Each worker thread runs                                                 *)
(*    for task in queue.consume():                                         *)
(*        with queue.processing(task) as outcome: body                     *)
(* and the body may report outcomes itself, one after another.             *)
(* An exception that leaves the loop ends it; the program may start again. *)
(* Calls follow CallContract.  The platform is external: it hands out each *)
(* task of the queue once, stores the outcomes it is sent and may reject   *)
(* any request with an error event; nothing is added to the queue.         *)
(***************************************************************************)
EXTENDS Naturals

CONSTANTS
  Threads,       \* worker threads
  MaxTasks,      \* bound: tasks in the queue
  MaxMessages,   \* bound: requests a worker sends
  MaxDrops       \* bound: times the socket drops

ASSUME QueueAssumption == MaxTasks \in Nat /\ MaxMessages \in Nat /\ MaxDrops \in Nat

VARIABLES
  pc,            \* where each worker is, see Places
  op,            \* what its latest call asks for: "next" or an outcome
  leaving,       \* how it is leaving processing(): "no", "cleanly", "raising"
  task,          \* the ClaimedTask it holds, 0 for none
  reported,      \* TaskOutcome.reported
  sent,          \* messages it has sent
  running,       \* execution.is_running
  calling, accepted, heard, ret,   \* the calls, see CallContract
  answer,        \* the task id in the acknowledgement it awaits, 0 for none
  wire,          \* requests on their way to the platform
  up, drops,     \* the socket is up; drops so far
  claimer,       \* the claim request each task was handed out for, <<>> if pending
  results,       \* the outcomes the platform has stored for each task
  told,          \* history: outcomes the body tried to report
  fate,          \* history: how the body ended
  surfaced,      \* history: claims and tasks whose failure an exception told the program
  clean          \* history: tasks whose processing() was left without an exception

callVars == <<calling, accepted, heard, ret>>
workVars == <<leaving, task, reported>>
linkVars == <<wire, up, drops>>
platformVars == <<claimer, results>>
historyVars == <<told, fate, surfaced, clean>>
vars == <<pc, op, workVars, sent, running, callVars, answer, linkVars, platformVars, historyVars>>

Call == INSTANCE CallContract

TaskIds == 1..MaxTasks
\* WARNING is reported as SUCCESS is, and left out.
TaskStatus == {"success", "failure"}
Places == {"idle", "consuming", "calling", "body", "drained"}
Messages == [thread : Threads, n : 1..MaxMessages, op : {"next"} \cup TaskStatus, task : 0..MaxTasks]

Init ==
  /\ pc = [t \in Threads |-> "consuming"] /\ op = [t \in Threads |-> "next"]
  /\ leaving = [t \in Threads |-> "no"] /\ task = [t \in Threads |-> 0]
  /\ reported = [t \in Threads |-> FALSE] /\ sent = [t \in Threads |-> 0]
  /\ running = TRUE
  /\ Call!Init /\ answer = [t \in Threads |-> 0]
  /\ wire = {} /\ up = TRUE /\ drops = 0
  /\ claimer = [k \in TaskIds |-> <<>>] /\ results = [k \in TaskIds |-> {}]
  /\ told = [k \in TaskIds |-> {}] /\ fate = [k \in TaskIds |-> "running"]
  /\ surfaced = {} /\ clean = {}

-----------------------------------------------------------------------------
Request(t) == <<t, sent[t]>>

\* The call is refused for want of a connection, or its request is sent.  A worker that
\* has used up its messages stops here.
BeginCall(t, o, k) ==
  /\ sent[t] < MaxMessages
  /\ pc' = [pc EXCEPT ![t] = "calling"] /\ op' = [op EXCEPT ![t] = o]
  /\ answer' = [answer EXCEPT ![t] = 0]
  /\ IF up
     THEN /\ Call!Enter(t)
          /\ sent' = [sent EXCEPT ![t] = @ + 1]
          /\ wire' = wire \cup {[thread |-> t, n |-> sent[t] + 1, op |-> o, task |-> k]}
     ELSE Call!Refuse(t) /\ UNCHANGED <<sent, wire>>
  /\ UNCHANGED <<up, drops>>

\* The call of t ends with the exception of a timeout, a rejection or a dead socket.
Raises(t) ==
  /\ pc[t] = "calling"
  /\ \/ \E r \in {"timeout", "rejected"} : Call!Return(t, r)
     \/ ~up /\ Call!Return(t, "emit_failed")
     \/ t \notin calling /\ UNCHANGED callVars

-----------------------------------------------------------------------------
(* claim_next() and consume()                                              *)

\* The next iteration of consume(): without an execution claim_next() raises.
ClaimNext(t) ==
  /\ pc[t] = "consuming"
  /\ IF running
     THEN BeginCall(t, "next", 0)
     ELSE pc' = [pc EXCEPT ![t] = "idle"] /\ UNCHANGED <<op, sent, callVars, answer, linkVars>>
  /\ UNCHANGED <<workVars, running, platformVars, historyVars>>

\* The call returns: a task is yielded, or the queue is empty and consume() ends.
Claimed(t) ==
  /\ pc[t] = "calling" /\ op[t] = "next"
  /\ Call!Return(t, "result")
  /\ pc' = [pc EXCEPT ![t] = IF answer[t] = 0 THEN "drained" ELSE "body"]
  /\ task' = [task EXCEPT ![t] = answer[t]] /\ reported' = [reported EXCEPT ![t] = FALSE]
  /\ UNCHANGED <<leaving, op, sent, running, answer, linkVars, platformVars, historyVars>>

\* Mutation of ClaimRaises: a claim that times out is taken for an empty queue.
ClaimGivesUp(t) ==
  /\ op[t] = "next" /\ Raises(t)
  /\ pc' = [pc EXCEPT ![t] = "drained"]
  /\ surfaced' = surfaced \cup {Request(t)}
  /\ UNCHANGED <<workVars, op, sent, running, answer, linkVars, platformVars, told, fate, clean>>

\* Mutation of ClaimRaises: consume() logs the exception and claims again.
ClaimRetries(t) ==
  /\ op[t] = "next" /\ Raises(t)
  /\ pc' = [pc EXCEPT ![t] = "consuming"]
  /\ UNCHANGED <<workVars, op, sent, running, answer, linkVars, platformVars, historyVars>>

\* The exception leaves consume() and the loop.
ClaimRaises(t) ==
  /\ op[t] = "next" /\ Raises(t)
  /\ pc' = [pc EXCEPT ![t] = "idle"]
  /\ surfaced' = surfaced \cup {Request(t)}
  /\ UNCHANGED <<workVars, op, sent, running, answer, linkVars, platformVars, told, fate, clean>>

\* A program whose loop was ended by an exception iterates consume() again.
ConsumeAgain(t) ==
  /\ pc[t] = "idle"
  /\ pc' = [pc EXCEPT ![t] = "consuming"]
  /\ UNCHANGED <<op, workVars, sent, running, callVars, answer, linkVars, platformVars, historyVars>>

-----------------------------------------------------------------------------
(* processing() and TaskOutcome                                            *)

\* processing() is left: the loop goes on, or the exception ends it.
LeaveProcessing(t, how) ==
  /\ pc' = [pc EXCEPT ![t] = IF how = "cleanly" THEN "consuming" ELSE "idle"]
  /\ leaving' = [leaving EXCEPT ![t] = "no"] /\ task' = [task EXCEPT ![t] = 0]
  /\ clean' = IF how = "cleanly" THEN clean \cup {task[t]} ELSE clean
  /\ surfaced' = IF how = "cleanly" THEN surfaced ELSE surfaced \cup {<<"task", task[t]>>}

\* report_result() for the task the outcome was created for.
Report(t, s, how) ==
  /\ BeginCall(t, s, task[t])
  /\ leaving' = [leaving EXCEPT ![t] = how]
  /\ UNCHANGED <<task, surfaced, clean>>

\* The body calls success() or failure(), which do not look at `reported`.
BodyReports(t, s) ==
  /\ pc[t] = "body"
  /\ Report(t, s, "no")
  /\ told' = [told EXCEPT ![task[t]] = @ \cup {s}]
  /\ UNCHANGED <<reported, running, platformVars, fate>>

\* The body ends without an exception: SUCCESS, unless an outcome is reported.
BodyReturns(t) ==
  /\ pc[t] = "body"
  /\ fate' = [fate EXCEPT ![task[t]] = "returned"]
  /\ IF reported[t]
     THEN LeaveProcessing(t, "cleanly") /\ UNCHANGED <<op, sent, callVars, answer, linkVars>>
     ELSE Report(t, "success", "cleanly")
  /\ UNCHANGED <<reported, running, platformVars, told>>

\* Mutation of BodyRaises: a `finally` that reports SUCCESS if nothing is reported.
BodyRaisesReportsSuccess(t) ==
  /\ pc[t] = "body"
  /\ fate' = [fate EXCEPT ![task[t]] = "raised"]
  /\ IF reported[t]
     THEN LeaveProcessing(t, "raising") /\ UNCHANGED <<op, sent, callVars, answer, linkVars>>
     ELSE Report(t, "success", "raising")
  /\ UNCHANGED <<reported, running, platformVars, told>>

\* The body raises: FAILURE, unless an outcome is reported, and the exception goes on.
BodyRaises(t) ==
  /\ pc[t] = "body"
  /\ fate' = [fate EXCEPT ![task[t]] = "raised"]
  /\ IF reported[t]
     THEN LeaveProcessing(t, "raising") /\ UNCHANGED <<op, sent, callVars, answer, linkVars>>
     ELSE Report(t, "failure", "raising")
  /\ UNCHANGED <<reported, running, platformVars, told>>

\* The body is left by a BaseException, which processing() does not catch.
BodyInterrupted(t) ==
  /\ pc[t] = "body"
  /\ LeaveProcessing(t, "raising")
  /\ UNCHANGED <<op, reported, sent, running, callVars, answer, linkVars, platformVars, told, fate>>

\* The report of the body is over and it goes on, or processing() is left.
AfterReport(t, how) ==
  IF leaving[t] = "no"
  THEN pc' = [pc EXCEPT ![t] = "body"] /\ UNCHANGED <<leaving, task, surfaced, clean>>
  ELSE LeaveProcessing(t, how)

\* The report was acknowledged.
Reported(t) ==
  /\ pc[t] = "calling" /\ op[t] \in TaskStatus
  /\ Call!Return(t, "result")
  /\ reported' = [reported EXCEPT ![t] = TRUE]
  /\ AfterReport(t, leaving[t])
  /\ UNCHANGED <<op, sent, running, answer, linkVars, platformVars, told, fate>>

\* Mutation of ReportRaises: `reported` is set before the outcome is sent.
ReportRaisesReported(t) ==
  /\ op[t] \in TaskStatus /\ Raises(t)
  /\ AfterReport(t, "raising")
  /\ reported' = [reported EXCEPT ![t] = TRUE]
  /\ UNCHANGED <<op, sent, running, answer, linkVars, platformVars, told, fate>>

\* It was not, and `reported` stays as it was: the body may catch the exception, which
\* otherwise leaves processing() in place of what was leaving it.
ReportRaises(t) ==
  /\ op[t] \in TaskStatus /\ Raises(t)
  /\ AfterReport(t, "raising")
  /\ UNCHANGED <<reported, op, sent, running, answer, linkVars, platformVars, told, fate>>

-----------------------------------------------------------------------------
(* The rest of the program, the platform and the network.                  *)

\* Another handler finishes the execution the workers run in.
ExecutionEnds ==
  /\ running /\ running' = FALSE
  /\ UNCHANGED <<pc, op, workVars, sent, callVars, answer, linkVars, platformVars, historyVars>>

Pending == {k \in TaskIds : claimer[k] = <<>>}

\* The acknowledgement reaches the call that waits for it, if any does.
Acknowledge(m, k) ==
  IF m.thread \in calling /\ m.n = sent[m.thread]
  THEN Call!Accept(m.thread) /\ answer' = [answer EXCEPT ![m.thread] = k]
  ELSE UNCHANGED <<callVars, answer>>

\* queue:next hands out a task, or says that there is none.
PlatformHandsOut(m) ==
  /\ m \in wire /\ m.op = "next"
  /\ wire' = wire \ {m}
  /\ \/ Pending = {} /\ UNCHANGED claimer /\ Acknowledge(m, 0)
     \/ \E k \in Pending :
          /\ \A j \in Pending : k =< j
          /\ claimer' = [claimer EXCEPT ![k] = <<m.thread, m.n>>] /\ Acknowledge(m, k)
  /\ UNCHANGED <<results, pc, op, workVars, sent, running, up, drops, historyVars>>

\* queue:task-result stores an outcome.
PlatformStores(m) ==
  /\ m \in wire /\ m.op # "next"
  /\ wire' = wire \ {m}
  /\ results' = [results EXCEPT ![m.task] = @ \cup {m.op}]
  /\ Acknowledge(m, 0)
  /\ UNCHANGED <<claimer, pc, op, workVars, sent, running, up, drops, historyVars>>

\* A request is refused, and is never served, or an error event is another's: calls in
\* flight are rejected.
PlatformErrs ==
  /\ \E S \in SUBSET calling : S # {} /\ Call!ErrorReaches(S)
  /\ UNCHANGED <<pc, op, workVars, sent, running, answer, linkVars, platformVars, historyVars>>

Drop ==
  /\ up /\ drops < MaxDrops
  /\ up' = FALSE /\ drops' = drops + 1 /\ wire' = {}
  /\ UNCHANGED <<pc, op, workVars, sent, running, callVars, answer, platformVars, historyVars>>

Reconnect ==
  /\ ~up /\ up' = TRUE
  /\ UNCHANGED <<pc, op, workVars, sent, running, callVars, answer, wire, drops, platformVars, historyVars>>

-----------------------------------------------------------------------------
CallEnds(t) == Claimed(t) \/ ClaimRaises(t) \/ Reported(t) \/ ReportRaises(t)

Worker(t) ==
  \/ ClaimNext(t) \/ ConsumeAgain(t)
  \/ (\E s \in TaskStatus : BodyReports(t, s))
  \/ BodyReturns(t) \/ BodyRaises(t) \/ BodyInterrupted(t)
  \/ CallEnds(t)

Platform ==
  \/ \E m \in wire : PlatformHandsOut(m) \/ PlatformStores(m)
  \/ PlatformErrs

Next ==
  \/ \E t \in Threads : Worker(t)
  \/ ExecutionEnds \/ Platform \/ Drop \/ Reconnect

Spec == Init /\ [][Next]_vars

-----------------------------------------------------------------------------
TypeOK ==
  /\ pc \in [Threads -> Places] /\ op \in [Threads -> {"next"} \cup TaskStatus]
  /\ leaving \in [Threads -> {"no", "cleanly", "raising"}]
  /\ task \in [Threads -> 0..MaxTasks] /\ reported \in [Threads -> BOOLEAN]
  /\ sent \in [Threads -> 0..MaxMessages] /\ running \in BOOLEAN
  /\ calling \subseteq Threads /\ accepted \subseteq calling /\ heard \subseteq calling
  /\ answer \in [Threads -> 0..MaxTasks] /\ wire \subseteq Messages
  /\ up \in BOOLEAN /\ drops \in 0..MaxDrops
  /\ results \in [TaskIds -> SUBSET TaskStatus] /\ told \in [TaskIds -> SUBSET TaskStatus]
  /\ fate \in [TaskIds -> {"running", "returned", "raised"}] /\ clean \subseteq TaskIds

\* A task the platform handed out and has no outcome for is in the hands of a worker, or
\* the claim is on its way back, or an exception has told the program.
TasksAccountedFor ==
  \A k \in TaskIds : claimer[k] # <<>> /\ results[k] = {} =>
    \/ \E t \in Threads : task[t] = k
    \/ claimer[k] \in {Request(t) : t \in {u \in Threads : pc[u] = "calling" /\ op[u] = "next"}}
    \/ claimer[k] \in surfaced \/ <<"task", k>> \in surfaced

\* processing() is left without an exception only if the platform has stored an outcome.
CleanExitsAreStored == \A k \in clean : results[k] # {}

\* What a body says of its task, and what its end says.
Said(k) == told[k] \cup (CASE fate[k] = "returned" -> {"success"}
                           [] fate[k] = "raised"   -> {"failure"}
                           [] OTHER                -> {})

\* What the platform stores is what the body said, or what its end says: SUCCESS if it
\* returned and FAILURE if it raised, through every timeout and repetition.
OutcomesTellFate == \A k \in TaskIds : results[k] \subseteq Said(k)

\* consume() ends by itself only when no task is pending.
DrainedMeansEmpty == \A t \in Threads : pc[t] = "drained" => Pending = {}

-----------------------------------------------------------------------------
(* Inductive strengthenings, for the proofs in QueueProofs.                *)

Claiming(t) == pc[t] = "calling" /\ op[t] = "next"
Holding(t) == pc[t] = "body" \/ (pc[t] = "calling" /\ op[t] \in TaskStatus)

\* A worker holds a task exactly while it is inside processing().
HoldingMatches ==
  \A t \in Threads :
    /\ task[t] # 0 <=> Holding(t)
    /\ leaving[t] # "no" => pc[t] = "calling" /\ op[t] \in TaskStatus
    /\ t \in calling => pc[t] = "calling"

\* A request is on the wire once, and the latest of a worker that waits is what it waits for.
RequestsMatch ==
  /\ \A m, q \in wire : m.thread = q.thread /\ m.n = q.n => m = q
  /\ \A m \in wire : m.n =< sent[m.thread]
  /\ \A m \in wire : m.thread \in calling /\ m.n = sent[m.thread] =>
       /\ m.thread \notin accepted /\ m.op = op[m.thread]
       /\ m.op # "next" => m.task = task[m.thread]

\* A task is handed out once, for a request that is then no longer on the wire.
ClaimsServedOnce ==
  /\ claimer \in [TaskIds -> {<<>>} \cup (Threads \X (1..MaxMessages))]
  /\ \A k \in TaskIds : claimer[k] # <<>> => claimer[k][2] =< sent[claimer[k][1]]
  /\ \A m \in wire, k \in TaskIds : claimer[k] # <<m.thread, m.n>>
  /\ \A j, k \in TaskIds : claimer[j] = claimer[k] /\ claimer[k] # <<>> => j = k

\* A worker holds no task that was handed out to another one.
TasksHeldOnce ==
  \A t \in Threads : task[t] # 0 => claimer[task[t]] # <<>> /\ claimer[task[t]][1] = t

\* What an acknowledgement says is what the platform has done.
AnswersAreTrue ==
  /\ \A t \in calling, k \in TaskIds :
       op[t] = "next" => (claimer[k] = Request(t) <=> t \in accepted /\ answer[t] = k)
  /\ \A t \in accepted : op[t] = "next" /\ answer[t] = 0 => Pending = {}
  /\ \A t \in accepted : op[t] \in TaskStatus => results[task[t]] # {}
  /\ \A t \in Threads : reported[t] /\ task[t] # 0 => results[task[t]] # {}

\* A task has no fate before a body has it, and while that body runs.
FateIsOpen ==
  /\ \A t \in Threads : task[t] # 0 /\ leaving[t] = "no" => fate[task[t]] = "running"
  /\ \A k \in TaskIds : claimer[k] = <<>> => fate[k] = "running"
  /\ \A t \in calling, k \in TaskIds :
       op[t] = "next" /\ claimer[k] = Request(t) => fate[k] = "running"

\* A report on the wire says what the body said, or how it ended.
ReportsTellFate ==
  \A m \in wire : m.op # "next" /\ m.task # 0 => m.op \in Said(m.task)

\* A claim on the wire is awaited, or its exception has been raised.
ClaimsAccountedFor ==
  \A m \in wire : m.op = "next" =>
    \/ <<m.thread, m.n>> \in surfaced
    \/ m.thread \in calling /\ m.n = sent[m.thread]

IInv ==
  /\ TypeOK /\ HoldingMatches /\ RequestsMatch /\ ClaimsServedOnce /\ TasksHeldOnce
  /\ AnswersAreTrue /\ FateIsOpen /\ ReportsTellFate /\ ClaimsAccountedFor
  /\ TasksAccountedFor /\ CleanExitsAreStored /\ OutcomesTellFate /\ DrainedMeansEmpty

-----------------------------------------------------------------------------
\* "Reports at most one outcome for the ClaimedTask it was created for" (TaskOutcome),
\* even when the body tries to report but one.
AtMostOneOutcome == \A k \in TaskIds : results[k] = TaskStatus => told[k] = TaskStatus
=============================================================================
