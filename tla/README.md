# Formal models of zsynctech-studio-sdk

TLA+ models of the Python SDK a robot uses to talk to the platform: the
Socket.IO connection, the calls made over it, executions, the task queue, the
credentials it reads over REST, and a whole robot built from them.
TLC checks small instances; TLAPS proves theorems for every value of the
constants. Line numbers refer to `src/zsynctech_studio_sdk/` at this commit.

    tlc -config MCConnection.cfg MCConnection      # a model-checking run
    tlapm ConnectionProofs.tla                     # the proofs of a module

## 1. The system

### Inventory

| Component | State | Operations | Talks to |
|---|---|---|---|
| `SocketConnection`, calls (`connection.py` 30-38, 92-118, 217-257) | `_pending_calls` and its lock, the `outcome`/`done` of each `_PendingCall` | `call`, `emit`, `ack_callback`, `_on_error` | threads of the program, the heartbeat, handler threads of python-socketio, the gateway |
| `SocketConnection`, lifecycle (44-90, 134-213, 268-286) | `_connection_info`, `_connected_event`, `_stopped_event`, `_handshake_error`, one heartbeat thread per session | `connect`, `disconnect`, `wait`, `_on_connected`, `_on_disconnect`, `_on_disconnect_final`, `_heartbeat_loop`, `is_stopping` | python-socketio's reconnection task, the gateway |
| `ExecutionManager` (`execution.py`) | `_execution_id` | `start`, `report_tasks`, `update_observation`, `finish`, `run` | `call`/`emit`; several `automation:start` handlers share it |
| `QueueConsumer`, `TaskOutcome` (`queue.py`) | `reported` of each outcome | `claim_next`, `report_result`, `consume`, `processing` | `call`; reads `execution.is_running` |
| `RobotClient` (`client.py`) | none of its own | `connect`, `listen`, `disconnect`, the `with` block, `on_automation_start`, `is_stopping` | everything above; `automation:start` runs each handler on a thread of its own (`connection.py` 122-132) |
| `CredentialManager` (`credentials.py`) | a `requests.Session`; nothing is cached | `reveal`, `rotate`, `set_status`, `expire` and their `_by_key` forms | REST API of the platform, without the socket |
| a robot (`examples/own_tasks_robot.py`) | its items | `main`, `run_automation` | the client, from the main thread and from handlers |
| models, `protocol.py`, `exceptions.py`, `utils.py`, `loggers.py` | none | validation, names, formatting | |

Threads and callbacks are where the difficulty lies. python-socketio runs the
handlers of server events on background threads, each `automation:start`
handler gets a thread of its own (125-126), each session gets a heartbeat
thread (89), and all of them call the gateway through one connection. The
gateway answers a request with an acknowledgement or with an `error` event
that names no request. The socket drops and comes back by itself.

### What makes each component correct

* Calls: whichever way a call ends, nothing of it stays behind; an answer
  goes to the request it answers, even if it arrives after the timeout and the
  same thread waits in another call; an error is raised in the calls that were
  running, and in no other.
* Lifecycle: `wait()` returns when the connection is closed for good and not
  before; a refused handshake is reported as such; a live session has a
  heartbeat and a closed one has none; nothing blocks for ever.
* Executions: the robot and the gateway agree on the open execution, or an
  exception has told the program why not; the status shown by the platform is
  the outcome of the body that ran.
* Credentials: a request that timed out may still be served, so each operation
  is sent once; what a thread is told is never older than what the robot already
  knew; a failure says nothing about what the vault did.
* A robot: the runs it ends cleanly are complete on the platform although the
  reports are not acknowledged; it notices the end of the connection in time, and
  the process ends whatever the main thread was doing.
* Queue: a task handed out is in somebody's hands, has an outcome, or an
  exception was raised about it; outcomes say what the body did.

## 2. Modules

| Module | Models | Checked by |
|---|---|---|
| `CallContract` | abstract: what `call()` promises | implemented by `Calls`, used by `Execution` and `Queue` |
| `Calls` | `call`, `ack_callback`, `_on_error` step by step | `MCCalls`, `CallsProofs`, `CallsRefinement` |
| `ConnectionContract` | abstract: what the lifecycle promises the program | implemented by `Connection`, used by `Robot` |
| `Connection` | handshake, drops, reconnection, `wait`, heartbeat loops | `MCConnection`, `ConnectionProofs`, `ConnectionRefinement` |
| `Execution` | `ExecutionManager` used by several handlers, and the gateway's side | `MCExecution`, `ExecutionProofs` |
| `Queue` | `QueueConsumer` and `TaskOutcome`, and the platform's side | `MCQueue`, `QueueProofs` |
| `Robot` | `own_tasks_robot.py`: `Execution` and `ConnectionContract` under one program | `MCRobot`, `RobotProofs` |
| `Credentials` | `CredentialManager`, the network and the vault | `MCCredentials`, `CredentialsProofs` |

Composition follows the code's layers: `Execution` and `Queue` do not repeat
how a call works. They take the state of the calls from `CallContract`
(`Call == INSTANCE CallContract`) and perform `Call!Enter`, `Call!Return`,
and so on in their own actions; `Calls` is shown to implement that contract.
In the same way `Robot` takes the connection from `ConnectionContract`
(`Link!Lose`, `Link!WaitReturns`, ...), which `Connection` is shown to implement,
and extends `Execution`, whose actions it conjoins with its own.

An operator introduced by "Mutation of X" is a plausible bug in X. Nothing
uses it: putting it in the place of X makes a property fail, and documents
what the property is sensitive to.

### CallContract and Calls

A call is `<<t, i>>`, the i-th call of thread t. Actions are the steps another
thread can get between: the `is_connected` test (231), registration under the
lock (240), `emit` (243), waking up or timing out (244), reading the outcome
(246-248), the `finally` (249-251). `outcome[c]` holds the keys of the
`outcome` dict in insertion order; `done` is set right after the first key, so
it is not a variable. `_on_error` is split where the code releases the lock: it
copies `_pending_calls` (114-115) and then wakes the calls one by one (116-118).
Acknowledgements and errors in flight are sets, because their handlers run on
separate threads.

`CallContract` has four variables: who is inside `call()`, whose request was
accepted, whom an error reached, and how the last call ended. `Calls!Contract`
is the refinement mapping: a thread is `calling` from `Enter` until it leaves
the wait, `accepted` and `heard` are read off its call object.

### Connection

The main thread goes through `connect()`, `listen()` and `disconnect()`; the
socket through `closed`, `linked` (packets flow, `sio.connected` not yet set),
`up`, and `dropping`, `ending` or `ended`, when the disconnect handlers run and
the flag is still set. `_on_disconnect_final` (141-143) is the step from `ending`
to `ended`: it sets `_stopped_event`, and the library clears its flag afterwards
(`LinkDown`), so there is a time in which `is_stopping` and `is_connected` hold
together. The library's retry task is a flag of its own, `retry`: it begins with a
drop, or when a socket is lost inside `sio.connect` (`LinkLost`), and outlives a
`connect()` that raises.

`flying` holds events whose handlers have not run; an event survives the socket it
came through until the next one is opened. The two reads of `_connection_info` at
the end of `connect()` (175, 176) are two steps; a drop between them makes it
return None (`result = "nothing"`). `disconnect()` is `Shutdown` (181) and `Forget`
(182-183), and returns when the socket is closed. Each session has one heartbeat
loop, with the two tests of `is_connected`, the sleep between them and the call as
separate steps. A loop that meets a socket still `linked` ends at its first test
("missed"), and one whose acknowledgement does not validate as a `RobotInfo` (210)
ends too ("malformed"); both leave a session that is up without a heartbeat, and
`HeartbeatWhileUp` says that nothing else does.

`Reconnection` is `config.reconnection`. The runs use TRUE; with FALSE a drop
does what `Kicked` does in every run.

`ConnectionContract` is the same seen from the program: a link that is closed, up
or lost, `_stopped_event`, and the phase of the main thread. `Connection!Contract`
maps a socket to `up` while `is_connected` holds and to `lost` while the retry task
has none. What the contract promises of the first connection is that a link is
closed for good only after `_stopped_event` was set (`Stops`, `Sever`), or together
with it when no socket is open (`GivesUp`), that nothing but `connect()` opens it
afterwards, that `disconnect()` returns with the link closed, and that a drop needs
no help to end. `used` says whether `connect()` was called again; of what follows
then, the contract promises that the calls end.

### Execution

One thread per `automation:start` handler; `run()` is a start, a body that may
report tasks and update the observation in any order, and a finish. `start()` is
three actions, because the test of `is_running` (38), the call (49) and the
assignment (51) are not atomic; `_require_execution` (98-100) and the reading of
`_execution_id` for the message are two. A timeout leaves the request on the
wire, and the gateway may serve it later. `FinishAgain` is a program that calls
`finish()` again after it raised, with the same status or, as the `try`/`except` of
the repository's README (95-108) does, with FAILED. The second tells two outcomes of
one body, and `bodies` is then "doubted".

`Cancellable` is the set of executions the platform may cancel.

### Queue

One thread per worker: `consume()` as a loop over `claim_next()`, and
`processing()` around a body that may report outcomes, any number of them.
`leaving` records why a report is being made: by the body, because it returned,
or because it raised. An exception ends the loop; the program may start again.

### Robot

`Robot` begins where `connect()` has returned. `due` holds the threads whose
`run_automation` has not called `start()` yet: the main thread with `AUTO_START`,
and every `automation:start` handler. A run processes `item[t]` items, each followed
by `report_tasks`: `_require_execution` (98-100) and `emit` (`connection.py` 254-257)
are separate steps, and either raises into the body (`raised`). A handler's
exception ends its thread (`_run_handler_safely`); the main thread's leaves the
`with` block. `Drops`, `Reconnects` and `Severs` are one step of the connection and
of the executions each: the socket, what it carries and the gateway's execution go
together. `Stops` is `_on_disconnect_final` of a live socket: reports still go out
until `Severs`.

The example never looks at `is_stopping`, as the docstring of that property
(`connection.py` 272-282) asks of a robot; its run goes on to its next report.

### Credentials

One action begins an operation (`_post`, `_patch`), and one ends it, with the
response (`Answered`) or with a `RequestException` (`NetworkFails`), which leaves the
request where it is. `Ends` is what `_request`, `_extract_error_message` and
`model_validate` make of a response: a result, `CredentialRequestError`, or
("foreign") the `JSONDecodeError`, `AttributeError` or `ValidationError` of a body
that does not validate. Such a body comes from a proxy (`Intercepts`), or from the
vault itself: the platform still has credentials with the status BLOCKED
(`models/enums.py` 91-93), which is no `CredentialStatus`, so `rotate()` raises
`ValidationError` when the new version is blocked as well (`Body`), and what it did
stays done. The version number stands for the whole result. By id or by key the
request is the same, and `expire` is the only status of `set_status`.

### What is assumed of the code outside the repository

* python-socketio: event handlers and acknowledgement callbacks run on
  background threads, in any order. `sio.connected` is set at the end of
  `sio.connect`; it is still set while the disconnect handlers run, the final one
  included. A drop starts the retry task, and so does a socket lost inside
  `sio.connect`, whose caller gets an exception. `shutdown()` does what the
  docstring of `disconnect()` says (179-180): it closes a live socket or aborts
  the retry task, and returns when that is done; one that is called while the
  disconnect handlers run waits for them. Dialling is refused while a socket is
  open, whether or not a retry task sleeps. The retry delay is long enough for the
  events of the old socket to be handled before a new one is opened.
* Gateway: answers a handshake with `connected` or `error`; acknowledges a
  request or emits an `error` event for it; tracks one execution per socket
  (`execution.py` 3-4), refuses a second start, and refuses requests that name
  another execution. It may also emit errors unrelated to any request.
* Platform: may cancel an execution; hands out each queued task once; stores
  the outcomes it is sent. It may refuse any request.
* A socket delivers the messages of one thread in the order they were sent
  (`Robot`; `Execution` alone does not need it).
* Vault: numbers the versions of a credential from 1; rotating a credential
  makes it active again, and may leave a blocked one blocked; an expired or deleted
  one is not revealed, and a deleted one is not served at all. It serves requests in
  any order and may refuse any. A proxy may answer in its place, and pass the
  request on or not.
* Responses of the gateway to `start`, `finish` and `claim_next` are well formed:
  `model_validate` never raises there, or does what a timeout does.

## 3. Runs

Every property is stated in a comment in its module.

| Run | What it shows |
|---|---|
| `calls` (`MCCalls.cfg`) | `_pending_calls` holds exactly the running calls (`NothingDangles`); results belong to accepted requests (`ResultWasAccepted`); rejections have a cause (`RejectionHasCause`); an error reaches every call in flight (`ErrorReachesAll`). |
| `calls_live` | `Calls` implements `CallContract`, fairness included (`ImplementsContract`); every call ends (`EveryCallEnds`). |
| `connection` | `WaitMeansClosed`, `HeartbeatWhileUp`, `RefusalIsHeard`, the liveness of `connect()`, `listen()` and of the ending of heartbeat threads, and that all of it implements `ConnectionContract`, fairness included (`ImplementsLifecycle`). |
| `execution` | No execution is lost silently (`NoSilentOrphan`), an id is released only after the gateway closed it (`ReleaseAfterClose`), the status is the body's outcome (`StatusTellsOutcome`), operations end (`OperationsEnd`). |
| `queue` | `TasksAccountedFor`, `CleanExitsAreStored`, `OutcomesTellFate`, `DrainedMeansEmpty`. |
| `robot` | A run that finished the execution it opened, without an exception, has every item it processed on the platform (`CleanRunIsComplete`); the main thread and a handler are never in their bodies together (`BodiesExclusive`); a run begins at most one item after the socket is closed for good (`AtMostOneLateItem`); when the connection ends the process ends (`ProcessEnds`). |
| `credentials` | One `rotate()` makes one version at most (`RotateAtMostOnce`); no `reveal()` returns a version older than what the robot knew (`RevealedIsNotOlder`), or one an `expire()` has returned as expired (`ExpiryHolds`). |

Five runs check one sentence of the code's own documentation each, and find it
violated:

| Run | The text | What happens |
|---|---|---|
| `calls_rejected_before_ack` | `connection.py` 227-228: the `error` event "arrived before the acknowledgement" | The acknowledgement arrives, the error follows before the caller is scheduled, and line 246 prefers the error: an accepted request is reported as rejected. |
| `connection_assert` | 175: `assert self._connection_info is not None` | The socket drops after `connected`; `connect()` raises `AssertionError`. |
| `connection_previous_loop` | 87-88: the previous loop "already exited when its socket dropped" | It sleeps through the drop and beats on, next to the new loop. |
| `robot_refuses` | `execution.py` 40: "Já existe uma execução em andamento (...); finalize-a antes de iniciar outra" | `finish()` times out although the gateway closed the execution; the id stays (84), and with no run in progress the next `automation:start` is refused because of an execution that is over. Finishing it again is rejected, so the process takes no further automation. |
| `queue_at_most_one` | `queue.py` 100: "Reports at most one outcome" | `success()` times out after the request was sent; `processing()` then reports FAILURE, and both are stored. |

Other disagreements appear as restrictions of what is claimed, or are only
described here:

* `WaitMeansClosed` and `RefusalIsHeard` speak of the program's first
  connection. With a second `connect()`, the end of the first connection may be
  reported between the clearing of `_stopped_event` (151) and the new handshake,
  and a late `connected` of the first may leave `_connection_info` set, so that
  the next refusal is taken for an error of a live session (94).
* `connect()` is declared to return a `RobotConnection` and may return None: the
  assertion (175) and the return (176) read `_connection_info` one after the other,
  and `_on_disconnect` may reset it between them.
* A `connect()` that raises leaves a retry task running if one was started: no line
  after 160 stops it. The connection may come up later, although the program was told
  that it failed. A second `connect()` then, or during any retry, opens a socket
  beside the task; when its attempts are used up, `_on_disconnect_final` stops a
  connection that is up, and `disconnect()` closes the socket and not the task. For
  these reasons `ConnectionContract` promises little once `used` is "again".
* "`_on_connected` restarts the heartbeat once it succeeds" (193): not when
  `connected` is handled before `sio.connected` is set ("missed"), and no longer than
  until an acknowledgement that does not validate ("malformed").
* `NoSilentOrphan`, `StatusTellsOutcome` and `ReleaseAfterClose` are claimed of one
  handler at a time. Two handlers violate each of them (2 threads, 3 messages,
  2 executions and 1 drop suffice), because `start()` assigns (51) and `finish()`
  clears (84) an `_execution_id` another handler has changed since it was read: after a
  reconnection the later assignment hides the execution that is open; a `finish()`
  reads the id (78) of the execution the other handler has opened since, and closes
  that one; and, without any drop, a `finish()` that has been acknowledged clears the
  id of the execution the other handler has started meanwhile.
* `BodiesExclusive` holds until the first reconnection, and while nothing is
  cancelled: then the gateway has forgotten the execution, and nothing but
  `_execution_id` excludes a second handler, whose test (38) and assignment (51) are
  not atomic. "One execution can be open at a time per connection" (`execution.py`
  3-4) and `start()` "fails if one is already open" (37) are the gateway's doing.
* `CleanRunIsComplete` speaks of runs that finish the execution they opened. After
  a reconnection two runs may be in their bodies; the later assignment of
  `_execution_id` makes the first report its items, and finish, under the other's.
* `CredentialRequestError` says that a request without a status "never made it to
  the server at all" (`exceptions.py` 44-46). A timeout ends it the same way when the
  vault has served it: `RotateAtMostOnce` is what remains true.
* `StatusTellsOutcome` leaves open which of two outcomes is stored when the program
  told two: a `finish()` with COMPLETED that raised, and then one with FAILED.
* "Every exception the SDK raises is one of these" (`exceptions.py` 1-2) fails
  for the "foreign" outcomes of `Credentials`, a blocked credential's among them, for the `AssertionError` of `connect()`
  and for the `RuntimeError` of `start()`.
* A status report names no version: an `expire()` that timed out and is served late
  marks the version a later `rotate()` created. `ExpiryHolds` is only about an
  `expire()` that returned.

### Bounds

| Run | Constants | Why this is enough |
|---|---|---|
| `calls` | 2 threads, 2 calls each, 1 error, 1 drop | a late answer needs a second call of the same thread; a misdirected error needs a second thread; the error may come before, during or after the drop |
| `calls_live`, `calls_rejected_before_ack` | 1 call per thread | liveness without symmetry |
| `connection` | 2 sessions, 2 connects, 1 error | a drop and a retry, or a new `connect()`, after a first session; an older loop and a late event beside the current one; the error as a refusal or later. The proofs hold for any number |
| `execution` | 1 handler, 6 messages, 2 executions, 1 drop | a run with a report and a repeated finish, then another run, with the drop or a cancellation in any place |
| `queue` | 1 worker, 2 tasks, 5 messages, 1 drop | a report that is repeated, then a second task. `QueueConsumer` keeps no state and a `TaskOutcome` serves one task, so workers meet only in the platform's queue |
| `robot` | the main thread with `AUTO_START` and one handler, 2 items, 4 messages each, 2 executions, 1 drop, cancellation of the first execution | one whole run per thread (start, two reports, finish), overlapping in every way; `MaxMessages` leaves a thread no second run, which would add nothing to these properties |
| `robot_refuses` | one handler, 8 messages, no cancellation | a run and the start of the next |
| `credentials` | 2 threads, 2 operations each | an operation that is served after its thread began the next one, beside another thread's; the proofs hold for any number |

Thread symmetry is used in the safety runs with two threads and in no run with
a liveness property. `CHECK_DEADLOCK FALSE` is set because bounded programs
stop: calls, sessions and messages are used up.

### Fairness

* A thread inside `call()` goes on: threads are scheduled and
  `done.wait(timeout)` returns. Handler threads of the library go on.
* `connect()`, `wait()` and `disconnect()` go on: every wait has a timeout or a
  polling interval. A disconnection that has begun completes
  (`_on_disconnect_final` runs, then the library clears its flag; a dying link
  becomes a retry).
* Heartbeat loops go on: their sleep ends and their call times out.
* Bodies of `run()` end, for `OperationsEnd`.
* In `Robot`, the main thread is scheduled: its calls time out, its items take an
  end, and `wait()` polls. A connection that has been stopped is closed, and one that
  `disconnect()` closes is stopped, which is the fairness of `ConnectionContract`.
  Handlers get none: nothing that is claimed waits for one.
* `Credentials` claims nothing about liveness: the timeout of a request bounds each
  read of the response and not the whole of it.

Nothing is assumed of the gateway, the network, the platform or the user: no
answer ever has to arrive, and retries may go on for ever.

## 4. Proofs

| Theorem | Module | States |
|---|---|---|
| `CallsTypeCorrect` | `CallsProofs` | `Spec => []TypeOK` |
| `PendingCallsExact` | | `Spec => []NothingDangles` |
| `ResultsAreOwn` | | `Spec => []ResultWasAccepted` |
| `RejectionsAreCaused` | | `Spec => []RejectionHasCause` |
| `ErrorsReachEveryCall` | | `Spec => []ErrorReachesAll` |
| `CallImplementsContract` | `CallsRefinement` | `Spec => Contract!SafeSpec` |
| `ConnectionTypeCorrect` | `ConnectionProofs` | `Spec => []TypeOK` |
| `SessionsKeepTheirHeartbeat` | | `Spec => []HeartbeatWhileUp` |
| `WaitMeansClosedForGood` | | `Spec => []WaitMeansClosed` |
| `RefusalsAreHeard` | | `Spec => RefusalIsHeard` |
| `ConnectionImplementsContract` | `ConnectionRefinement` | `Spec => Contract!SafeSpec` |
| `CredentialsTypeCorrect` | `CredentialsProofs` | `Spec => []TypeOK` |
| `RotationsHappenOnce` | | `Spec => []RotateAtMostOnce` |
| `RevealsAreCurrent` | | `Spec => []RevealedIsNotOlder` |
| `ExpiriesHold` | | `Spec => []ExpiryHolds` |
| `QueueTypeCorrect` | `QueueProofs` | `Spec => []TypeOK` |
| `EveryTaskAccountedFor` | | `Spec => []TasksAccountedFor` |
| `CleanExitsStored` | | `Spec => []CleanExitsAreStored` |
| `OutcomesAreTrue` | | `Spec => []OutcomesTellFate` |
| `DrainedIsEmpty` | | `Spec => []DrainedMeansEmpty` |
| `ExecutionTypeCorrect` | `ExecutionProofs` | `Spec => []TypeOK` |
| `ExecutionNoSilentOrphan` | | `Alone` proves `Spec => []NoSilentOrphan` |
| `ExecutionStatusTellsOutcome` | | `Alone` proves `Spec => []StatusTellsOutcome` |
| `ExecutionReleaseAfterClose` | | `Alone` proves `Spec => ReleaseAfterClose` |
| `RobotTypeCorrect` | `RobotProofs` | `RobotSpec => []RobotTypeOK` |
| `RobotAtMostOneLateItem` | | `RobotSpec => []AtMostOneLateItem` |
| `RobotCleanRunIsComplete` | | `RobotSpec => []CleanRunIsComplete` |
| `RobotBodiesExclusive` | | `RobotSpec => []BodiesExclusive` |

The only assumptions are those the modules state about their constants
(`CallsAssumption`, `ConnectionAssumption`, `CredentialsAssumption`,
`QueueAssumption`, `ExecutionAssumption`, `RobotAssumption`): bounds are natural
numbers, the main thread is a thread and, with `AUTO_START`, the bound on messages
leaves room for its run. Three theorems about `Execution` have the hypothesis `Alone`,
that there is one handler, which they need (see section 3); `RobotProofs` does not use
it, and its theorems hold for any number of threads.

**Calls.** The properties are not inductive alone: that a result was accepted
depends on acknowledgements being of accepted requests, that a rejection has a
cause depends on what the snapshots of `_on_error` still hold. `IInv`
(`Calls.tla`) adds: the current call is within bounds and counted
(`CallsCounted`, `EndedHasCall`), a request is in one place at a time and is
acknowledged only if accepted (`RequestsServedOnce`), a call not yet made has
left no trace (`FreshUntouched`), an error in an outcome or in a snapshot was
heard by the call or the call is over (`ErrorsHaveCause`). `CallsProofs` shows
how each variable changes (`OutcomeSteps`, `TodoSteps`, `RetSteps` and the like)
and has one lemma per conjunct. The argument for `ErrorsHaveCause` is the point
of the model: a snapshot may hold a call that ended meanwhile, and its error
lands in an object nobody reads.

**Refinement.** `CallsRefinement` uses `IInv` to map each step of `Calls` to a
step of `CallContract` or to a stutter: waking a call whose `wait` has not
returned is `ErrorReaches`, an acknowledgement is `Accept` or, for a call that is
over, a stutter; `TimeOut`, `Conclude` and `EmitFails` are `Return`.

**Connection.** Types need `LoopsHaveSessions`: loops and greetings exist only for
sessions there have been. `HeartbeatWhileUp` needs `LoopOutlastsDrops`: until
`sio.connected` is set the loop of the session has not got past its first test,
so the second test can fail only after the socket went down. `WaitMeansClosed`
needs `StoppedForGood`: until a second `connect()`, `_stopped_event` is set only
once the connection has ended and no retry task is left, and from there nothing
opens a socket. `RefusalIsHeard` needs `AnswerIsHeard`: until then, too, there is no
`_connection_info` of an earlier session, so an event that answers the handshake sets
`_connected_event`, whichever of the two it is, and an answer that has not set it has
not been handled.

**Lifecycle refinement.** It rests on `StoppedForGood` too, which also says the
converse: a connection that is closed without a retry, outside `sio.connect`, is one
that was stopped. With it each step of `Connection` is a step of `ConnectionContract`
or stutters. Events and heartbeats stutter; `OnDisconnectFinal` is `Stops`, or `GivesUp`
when the retries have failed; `LinkDown` is `Lose` after a drop and `Sever` after an
end.

**Credentials.** `IInv` (`Credentials.tla`) adds to the properties: a request is on
the wire once and has created nothing yet (`RequestsServedOnce`), what threads have
been told is no newer than the vault's version, and an active version is newer than
any expired one (`KnowledgeOrdered`); a response that will become a result is true of
the vault (`ResponsesAreTrue`). The ordering argument is `ResponsesAreTrue`: a
response carries the version of the moment it was served, which lies between the
start of the operation and its end, whatever was served or told in between.

**Queue.** `IInv` (`Queue.tla`) follows a task and a request through the system. A
worker holds a task exactly while it is inside `processing()` (`HoldingMatches`), and
only one that was handed out to it (`TasksHeldOnce`), because the platform hands a
task out once and for one request (`ClaimsServedOnce`). The request a worker waits for
is the latest it sent, so the wire and the acknowledgement agree with what it asked
(`RequestsMatch`, `AnswersAreTrue`): an answer is a task claimed for that very request,
an empty queue, or an outcome that is stored. From there `CleanExitsAreStored` and
`DrainedMeansEmpty` follow. `TasksAccountedFor` needs that a claim on the wire is
awaited or has raised its timeout (`ClaimsAccountedFor`): one that is served late was
reported to the program, and that is all it is told. `OutcomesTellFate` needs that a
task's fate is open until the body that holds it ends (`FateIsOpen`) and that a report
said the truth when it was sent (`ReportsTellFate`); since what a body said only grows
(`SaidGrows`), it still does when it is served. `CallSteps` sorts the steps into
those that begin a call, end one or serve a request, and most lemmas go by that.

**Execution.** The invariant has two halves. `CallsInv` (`Execution.tla`) holds for any
number of handlers. A request is on the wire once, and one that is awaited is the
latest its thread sent (`RequestsMatch`); executions are numbered as they are opened,
each by a request that is then no longer on the wire (`ExecsCounted`, `OpenersMatch`).
So the acknowledgement of a `start` names the execution which that very call opened
(`StartsMatch`), even if an earlier `start` timed out and is served late; and a `start`
on the wire is awaited or has raised (`StartsAccountedFor`). `RunInv` relates this to
`_execution_id`, and needs that one handler has it to itself: the id is set exactly
while the run is open and is the one that run was given (`IdMatches`), the outcome of a
body is settled before its finish is sent, or in doubt because the program tells two
(`BodiesMatch`), a finish on the wire names
an execution whose outcome it tells, whenever it is served (`FinishesMatch`), and an
acknowledged one has closed the current execution (`ClosedMatches`).
`NoSilentOrphan` and `StatusTellsOutcome` are then preserved step by step, and
`ReleaseAfterClose` is `ClosedMatches` at the assignment of line 84.

**Robot.** `ExecutionProofs` shows that `CallsInv` is kept by `Steps`, the steps of which
those of `Execution` and those of `Robot` are both instances, so it carries over;
`RunInv` does not, for several threads share the manager. The properties have one argument each:

* `AtMostOneLateItem`. A socket that is closed for good is not opened again, so the
  report that follows an item raises and the run leaves its body; a run that is ready
  for its next item has therefore begun none since the end (`LateMatches`). Between
  `_stopped_event` and the end of the socket reports still succeed, and items begun
  then are not late.
* `CleanRunIsComplete`, over `ReportsMatch`. A run starts with no report under its
  execution (`NoneReported`: the execution is new). While the gateway holds that
  execution and the robot names it, the reports stored and on the wire are as many
  as the items reported (`NoneLost`): a drop, which loses some, also takes the execution
  away. The finish follows all of them on the same socket (`FinishIsLast`), so when it
  is served, in order, they are stored (`AllStored`), and the execution is over
  (`CleanIsOver`): nothing is added to it later. The counting is by cardinality, for any
  number of items.
* `BodiesExclusive`, over `ExecutionsMatch`. Nothing in the SDK excludes two runs; the
  gateway does. Before a reconnection or a cancellation, every run that has
  its execution and has not tried to finish it (`Holding`) has one that is open and
  that it opened itself; no finish on the wire names it, because a finish names
  what `_execution_id` held, and that is the run's own or None. One execution is open
  at most, so one run is.

Only model-checked: all liveness (`EveryCallEnds`, `ConnectEnds`, `ListenEnds`,
`HeartbeatsEnd`, `OperationsEnd`, `ProcessEnds`) and the fairness part of the two
refinements (`ImplementsContract`, `ImplementsLifecycle`), because the prover handles
neither ENABLED nor leads-to under fairness here. Every other property of the passing
runs is a theorem.

## 5. Not modelled

* `examples/simulate_robot.py`: the same `main` as `Robot`'s with `consume()` and
  `processing()` for a body. Its parts are `Queue` (where `ExecutionEnds` stands for
  another handler's `finish()`) and `Robot`; their product is beyond TLC in the
  bounds in which anything of interest could happen.
* `set_status()` and the delegating properties of `RobotClient`.
* `warning()`, which does what `success()` does with another status.
* `_on_exception`, `_on_connect_error`: they log.
* Models, enums, `utils.py`, `loggers.py`: declarations and formatting.
* Durations: `timeout or ack_timeout` (244) treats 0 as not given; no caller in
  the SDK passes a timeout.
* Acknowledgements that fail validation in `start`, `finish` and `claim_next`, which
  raise pydantic's exceptions there. (The heartbeat's are modelled.)

## 6. Roadmap

1. What `Execution` promises several handlers: the part of `NoSilentOrphan` that
   remains true when the orphan belongs to a run that is still in its body.
2. A robot that consumes the queue: `Queue` under `ConnectionContract`, with
   `running` read off a single execution.
3. The step lemmas of the two refinements for the enabling conditions their fairness
   needs, so that what stays with TLC is only the temporal argument.
