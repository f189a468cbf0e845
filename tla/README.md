# Verification of the system state management services

TLA+ models of the part of this repository that carries its own control logic:
the System State Manager (`sysstatemgmt/systemstatemgr`), which moves the device
between system states and changes system wide properties by running lists of
commands, and the shutdown server, which has its clients save their data before
the power goes off. TLC checks the models on small instances; TLAPS proves the
safety properties and the two refinements for every instance.

## 1. Inventory

### The System State Manager

A state transition takes this way through the system:

    client --RequestStateTransition--> CSsmServer / CSsmSession
        --SubmitL--> CSsmStateTransitionEngine
              --GetStatePolicyL, Call...--> CSsmStatePolicyResolver, CSsmStatePolicyFrame --> policy DLL
              --ExecuteCommandList--> CCleSessionProxy, RCleSession
                    --IPC--> CCleSession, CCleServer
                        --StartL--> CSsmCmdListExecutor
                              --Execute--> CSsmCommandListImpl --> its commands
                                     --Start--> CSsmStartSafe --> a process
                              --ListExecutionComplete--> CCleServer --> RMessage2::Complete
              <-- the policy names a further state, or the transition ends

| component | state it keeps | operations | interacts by | what is hard | what makes it correct |
|---|---|---|---|---|---|
| transition engine (`ssm/src/ssmstatetransitionengine.cpp`) | phase, current and queued request, command list, session handle | SubmitL, Cancel, RunL in seven phases, RunError | asynchronous requests to the policy DLL and the command list server; message completion to clients | a request or a cancellation in any phase; the command list server dying; a policy cancelled half way | every request answered once; never idle with work; the policy asked when it expects it; the list kept while it is read |
| server and sessions (`ssm/src/ssmserver.cpp`) | sessions | RequestStateTransitionL, its cancellation, SWP requests | calls on the engines | the displaced request | the contract of section 3 |
| command list server (`cle/src`) | slots: session, executor, message | connect, execute, cancel, close, death of a client | IPC with its client; callback from the executor | slots reused and trimmed while indices are held; reply before cancellation; leaves between two assignments | a slot belongs to one session; an executor owes its answer; nothing leaks |
| executor (`cle/src/cmdlistexecutor.cpp`) | position, request, delay timer | RunL, DoCancel | its request is completed by the command it executes | cancellation while the request is with a command or the timer | cancellation ends; the list is executed in order |
| command list (`cmd/src`) | commands, deferred deletion | Execute, ExecuteCancel, DeferredDelete | observers of deferred commands | deferred commands that outlive the list's execution, a timer that fires late | one observer; success means done; the list is deleted |
| StartSafe (`ss/src`) | array of callers; per start: attempts left, timer, process | Start, StartCancel, its destruction | callbacks from process observers, which they delete | indices outlive entries; timers race rendezvous; starts that have no index | an entry is that of a waiting command; a cancellation reaches its own start; no process survives a failure |
| SWP engine (`ssm/src/ssmswp*.cpp`) | a scheduler per property, with a queue, a current engine and two sessions | SubmitL, Cancel, lazy cleanup, RunL in eight phases | as the transition engine, with a policy server between it and the policies | cleanup racing new requests; search by key; engines that fail before they have a message | one scheduler per property; served in order; answered once |
| SWP policy server (`ssm/src/ssmswppolicy*.cpp`) | a policy and its step per session | the steps of a policy | IPC with the engine | an object for the steps that outlives the transition, and may be missing; a panic that ends the server under its sessions | called in the order its assertions ask for |
| utility server, mapper, domain policy (`sus`, `cmn`, `dompolicy`) | loaded plug-ins | load, forward | IPC | little | not planned |

### Around it

| component | state and operations | status |
|---|---|---|
| shutdown server (`resourcemgmt/powerandmemorynotificationservice`) | sessions with pending notifications, a timer; NotifySave, SwitchOff | modelled, section 3 |
| mediator (`mediator/src/Server`) | commands between two clients with a timeout, event subscriptions | planned |
| system monitor (`systemhealthmanagement/systemhealthmgr/sysmonsrc`) | monitored processes, throttle list | planned |
| system starter, old StartSafe | predecessors of the above, kept for compatibility | not planned |
| sensor, PSM, hardware resource, accessory and remote control servers | large servers of their own, independent of the state manager | not planned |
| resources, plug-ins, haptics, DOS services | adaptation and data | not planned |

`PROJECT.json` lists every component with its files, every hazard at its line
with the properties that would notice it, and, for every definition, the lines
it models.

## 2. Modules

| module | what it is |
|---|---|
| `SsmStateTransitionEngine` | the engine, with the server's requests, the policy frame and resolver, and the session proxy |
| `SsmTransitionContract` | abstract: what clients of state transitions are promised |
| `SsmStateTransitionEngine_proofs` | the theorems about the engine |
| `CmdListExecutor` | one command list from StartL to its deletion: executor, commands, multiple wait, deferred deleter |
| `CmdListExecutor_proofs` | the theorems about the executor |
| `CleServer` | the sessions of the command list server, client side and server side |
| `CleServer_proofs` | the theorems about them |
| `SsmStartSafe` | StartSafe, its observers, timers and processes, and the commands that call it |
| `SsmStartSafe_proofs` | the theorems about it |
| `SsmSwpTransitionEngine` | the schedulers and engines of system wide properties, and the policy server's steps |
| `SsmSwpContract` | abstract: what clients that change properties are promised |
| `SequenceFilter` | what is left of a sequence when elements are removed; used by the two above |
| `SsmSwpTransitionEngine_proofs` | the theorems about the system wide properties |
| `SequenceFilter_proofs` | lemmas about `SequenceFilter` |
| `ShutdownServer` | the shutdown server, its timer and its clients |
| `ShutdownServer_proofs` | the theorems about it |
| `NaturalSets` | lemmas: the least and the greatest element of a set of numbers |
| `MC...` | the instances TLC checks |

**How state corresponds.** Variables are the members of the C++ classes, under
their names or with the name in a comment. An active object is a phase, a status
and a flag; "active and not `KRequestPending`" is when the scheduler may run
it. A handler or a RunL is one action, as the objects of a server share one
thread. `TRequestStatus` is a member of a small set of codes. A message is the
identity of the request it belongs to: completing it changes `outcome` (engine)
or `request` (server). `NULL` is a model value or a Boolean.

**Engine.** `RunL` has one action per phase, `RunError` stands for a leave or
an error in any of them. The answers of `TransitionAllowed` select between
`RequestNotAllowed`, `RequestQueued`/`RequestCurrent` and `RequestReplacesAll`;
the `...NoMemory` actions are the leaves of `SubmitL`. `CActive::Cancel` is
given by the operators `...AfterCancel`, one per variable it changes. The policy
DLL is `PolicyAnswers` and the choice of list and of further state; the command
list server is `CleAnswers` and `CleTerminates`.

**Executor.** The order in which the scheduler runs ready objects is left open.
This includes the order their priorities give. `StartSafe` is one action,
`StartSafeAnswers`. Three requests of a command are kept apart: the executor's
(`execRequest`, `estatus`), the command's own (`start`) and the observer's
(`observer`). Commands that complete within `Execute` behave like a skipped
command and have no kind of their own.

**Server.** Clients and server exchange messages through `inbox`, one queue per
client. `CancelReplied` and `CancelPerformed` are two actions, because
`ServiceL` completes the message of a cancellation before it performs it and
the client, a thread of its own, can go on in between. Between them the server
does nothing else. An executor completes when it likes, as `CmdListExecutor`
shows it does.

**StartSafe.** `StarterRuns` is `RunL` of the observer (`CRvObserver`, or
`CFireAndForget`, which shares its shape) in its two states; `InvokeL` is an
attempt, which starts a process or fails; `ProcessStep` is what the process does
by itself. A command that waits in `CActive::Cancel` for a request nobody will
complete is `"hung"`. `CSsmStartSafe::DeRegisterCall` deletes the observer that
called it: who completes the request then is told apart by whether the observer
is active (`DeRegisterCall` is used with `RendezvousComplete` or with
`CancellationCode`). The array indices count from one.

**System wide properties.** A scheduler is a record of its key, current request,
queue, and the state of its two sessions; `step` is what the policy server keeps
for its session, and `"gone"` when the server has terminated: the session stays
open and everything asked of it is answered `KErrServerTerminated`. The engine of a request has the name of the request. A
scheduler's step that ends one transition and begins the next is one action:
`TakeNext` is what becomes of the scheduler, `EngineAfter` and `AnswerAfter` of
the engine and the message. `InitializeLeaves` is the policy server that has no
memory for the object of the steps and keeps the one it had, or none; `Unserved`
are the schedulers at which a cancellation then finds none, and `WithFault` is
what the end of the server's thread means for every session: those connected by
then are gone, one that connects later in the same cancellation starts a new
server. `Position` is the binary search of the array, with
the comparison's overflow (`Difference`), modulo `KeyRange`.

**Shutdown server.** `phase` is the client's notifier, `session` what the server
keeps for it. A client's message and its cancellation are delivered in order, so
a cancellation is one step. The switch off is left with the power on, or off.
`CShutdownTimer::DoCancel` is empty (`shutdowntimer.cpp:71-74`), so that
`Cancel()` (`shutdownsrv.cpp:176`, `:241`) blocks the server until the time is up.
It handles nothing meanwhile and the timer is inactive afterwards, so the model
stops it at once; the delay is not modelled.

Each module has operators named `Wrong...`: variants of a mapped definition with
a plausible bug. No specification uses them. Replacing the definition by its
variant makes the property they are listed with in `PROJECT.json` fail, which
shows that the property watches that code.

## 3. What is checked

### Engine: run `engine`

Safety: `EngineAtWork` (active exactly with a current request, resting only
where `DoSubmit` starts it), `NoRequestLost` (a waiting client is in exactly
one slot), `AcknowledgedBeforeWork`, `PolicyFollowsEngine` (the right DLL, asked for
its list and for a further state when its frame expects it; not `Prepare`, which
`engine_uninitialized` shows to come out of order), `ConnectsOnlyWhenClosed`,
`ListOutlivesExecution`. Action property: `AnsweredOnce`. Liveness:
`EveryRequestAnswered`. Refinement: `ImplementsContract`, with
`SsmTransitionContract`, in which a request runs or waits and the phases are
gone; the mapping takes the request out of each slot.

*Bounds.* Three requests (one running, one queued, one that displaces either),
two sessions, the first with two requests (so it can own both slots), two main
states (a policy kept or exchanged). Each request is sent once; further states
are chosen without bound. 50,892 states.

*Fairness.* Weak for `RunL` (the scheduler runs ready objects), weak for the
answers of policy and command list server, strong for `TransitionCompleted`: a
policy that names a further state for ever would keep a queued request waiting
for ever, and that is the policy's business.

Three promises of comments and assertions do not hold:

* `engine_cancel_started`: a transition that was acknowledged can be cancelled
  by its client between two states of its chain.
* `engine_unconnected`: cancelling the first request before the connection is
  made starts the queued one without a connection.
* `engine_uninitialized`: a cancelled `Initialize` counts as done.

### Executor: run `executor`

`CancelNeverHangs` (`CActive::Cancel` waits for the executor's request: it is
with the timer or with the command `DoCancel` cancels), `NothingDangles` (after
the executor or the list is gone), `InOrder` and `SuccessMeansDone` (what the
list waits for has completed before it goes on, or says `KErrNone`),
`OneObserver`, `ListAnswered`, `ListDisposed`.

*Bounds.* All lists of up to three commands from a palette of seven (waited
for, deferred, failures ignored, waits with and without a timeout, a false
condition) and eight of four commands, with fire and forget and two waits, each
with and without a delay between commands. Three are enough for a deferred
command, a wait and a command after it. A start is answered with success, an
error, or `KErrCancel`, which `StartSafe` gives when it cannot make it and which
even a command whose failure is ignored reports. 99,104 states.

*Fairness.* Weak for each active object and timer. `StartSafe` answers every
start except of a command that a timed wait waits for: a process may never
signal, and that is what the timeout is for. `ListDisposed` and `CancelDisposes`
add that those answer too (`Answering`): a list cannot be deleted before its
processes have answered.

`executor_cancel` shows that a list cancelled before all its deferred commands
were executed is never deleted.

### Command list server: run `cle_server`

`SlotsAreOwned` (each session its slot, the count, the trimmed end),
`ExecutorOwesAnswer`, `ClosedIsCancelled`, `NoListAbandoned`,
`RequestAnswered`, `SlotsAreReleased`.

*Bounds.* Two clients that connect, execute, cancel, close, connect again and
die without bound: enough for a free slot below one in use, reuse and trimming.
Messages per client are bounded by the protocol, as all calls but one are
synchronous. 22,448 states.

*Fairness.* Strong for the server's handling of a client's messages and for the
end of its list, since other clients disable both again and again while the
server is fair among them (it receives in order of arrival); weak for a client
that is on its way to disconnect.

The passing run includes failure of the larger allocations (the session's
utility provider, the copy of the list, the executor). The two smallest
(`TimerFails`, `ArrayAppendFails`) are in `OutOfMemorySpec` only. There the
code breaks its own assertions: `cle_server_timer` (a message completed twice)
and `cle_server_append` (a slot freed under another session).

### StartSafe: run `start_safe`

`EntriesAreCallers` (entries, indices, observers and the count agree, and no
cancellation waits for ever), `FailureLeavesNoProcess`, `CancelSparesPending`
(who may end another command's start), `TimedStartsEnd`.

*Bounds.* Three callers: one starts an application with a timeout and a retry,
or forgets a process with a timeout; one waits for a process, one for an
application. So there are entries below, between and above one that is freed,
and every kind of start races every other. Commands are executed again and again
without bound; a retry can follow a timeout. 211,297 states.

*Fairness.* Weak for the observer and the timer of a start that has a timeout.
Processes, the other starts and who executes and cancels need not do anything.

`CancelSparesPending` states an exception the code has: a command that cancels
between its own answer and its `RunL` passes an index that is not valid any more
(`cmdstarterbase.cpp:134`), and may end another command's start.

### System wide properties: run `swp_engine`

`EnginesAreHeld` (one scheduler per property; each engine in one place;
what the cleanup deletes is needed by nobody), `CallsArePossible` (the sessions
are connected, and the policy server's assertions on its step hold, but for one
call: see below),
`RequestsAreAnswered`. Refinement: `ImplementsContract`, with `SsmSwpContract`,
in which there are lines of requests and nothing else: they are served in order,
one property does not see the other, and each is answered at most once.

*Bounds.* Three requests, two of them of one session; two properties with the
keys 7 and 1 of a range of eight, which are in order only across its end; the
three for one property or two and one; requests are sent again without bound.
Three is a current, a queued and one behind it. `AfterFault = FALSE`: no client
sends a request any more when a policy server has terminated; those sent are
still served, cancelled or cleaned up. With `TRUE` the same properties are
theorems, but for liveness. 135,800 states.

*Fairness.* Weak for the work of each property: its scheduler and engine run,
policies and command list server answer. Nothing of clients or cleanup timer.

Three facts of the code are part of the properties.

* A request that finds its scheduler free can be left without an answer
  (`Lost`): its message is set after the submission
  (`ssmswprequesthandler.cpp:183-186`), so that an engine that fails in it has
  nothing to complete.
* A request cancelled while its policy is initialised is answered with what
  `CallInitializeCancel` returns (`ssmswptransitionengine.cpp:234`): `KErrNone`, or
  `KErrServerTerminated` if the policy server ends. They are what the contract
  lets the first request of a line be `told` by `Withdraw`. The test
  `tssm_step_server.cpp:536-546` expects `KErrCancel`.
* If the policy server has no memory for the object of the steps
  (`ssmswppolicysrv.cpp:234`) the engine is told `KErrNoMemory`, but until its RunL
  it can still be cancelled, and its policy frame remembers the initialisation.
  `CallInitializeCancel` then finds the object of an earlier transition, which it
  deletes, or none: the assertion at `:248` fails, and without assertions NULL is
  dereferenced at `:253`. The comment at `:250-251` says that there is "no need to
  check". It is the server's own thread that panics and not a system critical one,
  so the device goes on: the client is answered `KErrServerTerminated`, and the
  next engine with an old session fails and then resets the device (`DoRunError`).
  `CallsArePossible` names this case (`MayLackObject`), and says that it is the only
  one and ends with the engine's RunL.

`KeysAssumption` (all keys within half of the range, as those of the platform
are) is assumed, not checked: without it the comparison of keys is no order, and
a property can get two schedulers. To break the order takes three keys, and the
run has two.

### Shutdown server: run `shutdown`

`MessagesAreOwned` (both sides agree on who has the message; what is outstanding
is for a client that will come back), `SavedBeforeOff`, `PowerOffIsTimed`,
`PowerOffEnds`.

*Bounds.* Three clients and four types of events, among them every type the code
treats differently, with the timer; all of it without bound. 187,520 states.

*Fairness.* Weak for the timer.

Where the comments say more than the code does: "if all sessions have a pending
request then they've all saved their data" (`shutdownsrv.cpp:98`) does not hold
for a client that was busy with a weaker event when the power off was announced:
it is not told, comes back, and counts. `SavedBeforeOff` speaks of what a client
has been told. The timer is neither restarted by a power off that follows another
event nor cancelled by an event that withdraws it, so that the time can be short;
an event without a save starts no timer (the exception in `PowerOffIsTimed`).

Deadlock is not checked: each of these systems may come to rest, an engine with
all requests answered or the device resetting, a list when it is over, the
server when its clients are dead, StartSafe when its session is closed, the
shutdown server when the power is off.

## 4. What is proved

`SsmStateTransitionEngine_proofs`, for any sets of requests, sessions and
states, with or without validation, under the four named assumptions of the
module (the startup request and `None` are none of the others, requests have
sessions, the startup state is a state).

* `Invariance`: `Spec => []IInv`. `IInv` is the conjunction of `TypeOK` and the
  six state invariants, which lean on each other. The phases that use
  `current.state` keep their types only because `EngineAtWork` says there is a
  current request. `NoRequestLost` needs `AcknowledgedBeforeWork` where the
  slot of a finished transition is emptied: its client has been told;
  `AcknowledgedBeforeWork` needs `NoRequestLost` where a transition starts: its
  client waits or was told already. `PolicyFollowsEngine` and
  `ListOutlivesExecution` need `EngineAtWork` where a request restarts the
  engine: it rests in no phase in which a policy or a list is in use. `NextInv`
  has one step per action, with the conjuncts each can disturb beneath.
* `TypeCorrect`, `AlwaysAtWork`, `NoneLost`, `AcknowledgedFirst`,
  `PolicyCalledInOrder`, `ConnectsOnce`, `ListLives`: its parts.
* `OneAnswer`: `Spec => AnsweredOnce`, from the invariant and what `Complete`
  does (`CompleteValue`): it changes a request that waits and no other, and a
  request that is in both slots, excluded by `NoRequestLost`, would be told
  twice.
* `Implementation`: `Spec => ImplementsContract`. `StepImplements` maps each
  action to an action of the contract or a stutter; `CompleteIsTell` and
  `CompleteTwiceIsTell` identify the messages completed one after the other
  with the set of requests the contract tells at once.

`CmdListExecutor_proofs`, for any set of non-empty lists of commands, of any
length, with or without delays.

* `Invariance`: `Spec => []IInv`. The properties of the executor are far from
  inductive, because they speak of the moment of a deletion and depend on how
  four requests relate before it. `IInv` says where each of them is:
  `RequestHeld` (the executor's is with the command it executes, with the
  timer, or completed), `StartsPending` (a start belongs to a command that was
  executed, is pending, and is deferred or has the executor's request),
  `WaitsIdle`, `RestHeld` (a wait has commands left only while it has the
  executor's request, so that at most one wait has), `ObserversWait` (the wait's
  observers are on commands it has left, the deleter's on a list it was given)
  and `ListOwned` (the executor has the list until the deleter gets it).
  `CleanUpFacts`, `WaitEnds`, `WaitRegisters`, `GiveUpInv` and `CancelInv` are
  the steps of the multiple wait and the cancellation, `NextInv` the rest.
* `TypeCorrect`; `CancelEnds`: `Spec => []CancelNeverHangs`, from `RequestHeld`;
  `NoDangling`: `Spec => []NothingDangles`, because a deleted list has no
  pending deferred command and an executor that is gone has no request;
  `OneObserverEach`: `Spec => OneObserver`. A wait and the deleter cannot meet:
  the deleter has the list only when the executor is gone, and then no wait has
  commands left.

* `StartsInOrder`: `Spec => []InOrder`, and `DoneWhenTold`:
  `Spec => []SuccessMeansDone`. Two more invariants are inductive with `IInv`:
  `Progress`, how far the list has got (what it waits for in front of the current
  command is done, and the current command too when the request completes
  without an error; a wait that has not timed out has let go of nothing but
  commands that are done), and `Woken` (a wait that is to act on a command is still
  registered with it, or the command has completed). What is done stays done
  (`DoneStays`, `StepKeeps`) but for the current command when the executor is
  cancelled: nothing that was started waits for that one, and the client is not
  told of success (`OrderCancelled`).

`FirstIn` (the least element that `First` chooses is in the set) and the ends of
the arrays rest on `NaturalSets`, which takes them from the library's theorem
about the order of the natural numbers.

`CleServer_proofs`, for any finite set of clients, one of which is not
`NoClient`.

* `Invariance`: `Spec => []IInv`. `SlotsAreOwned` and `ExecutorOwesAnswer` depend
  on what is still on its way, so `IInv` adds a `Local` invariant for each
  client: `Shape` (what its queue can hold in each of its states: connections and
  disconnections while it is closed, calls while it is open, and after its death
  calls with a disconnection at the end, and whether it has a slot then),
  `ListOnItsWay` (a list on its way is the only one, and excludes an executor; a
  live client that waits has its list on its way or executed) and `CloseCancels`
  (after a close, an answer that is owed is being cancelled). `KeptLocal` is the
  frame: a step of one client or slot leaves the others' `Local` alone.
  `RegisterFacts` and `DeregisterFacts` are the array, with `TrimFacts` for its
  end; `RoomForOne` bounds the array by the number of clients, by counting.
* `TypeCorrect`, `SlotsOwned`, `ExecutorsOweAnswer`, `ClosedCancelled`: its
  parts. `ListsAnswered`: `Spec => NoListAbandoned`, from the invariant, where an
  executor is deleted.

`ShutdownServer_proofs`, for any set of clients, with or without a timer.

* `TypeCorrect` and `MessagesOwned`: `TypeOK /\ MessagesAreOwned` is inductive.
  `NothingCutShort`: `Spec => SavedBeforeOff`. The server looks at `pending`; that
  this is a client that waits, and that has nothing outstanding, is
  `MessagesAreOwned` after the step. `PowerOffTimed`: `Spec => PowerOffIsTimed`.

`SsmStartSafe_proofs`, for any finite set of callers and any properties they
start with.

* `Invariance`: `Spec => []IInv`. `IInv` is `TypeOK`, `ArrayCounted` (the count, and
  the end of the array) and `CallersEntered`, which is `EntriesAreCallers` caller
  by caller: who waits has an observer, an entry with its name, and the index of
  it, and every entry is that of somebody. `RegisteredFacts` (the free entry that
  is taken, or the new one), `DeRegisteredFacts` and `TrimFacts` are what the array
  does, `SameEntered` and `DeRegisterEntered` the frame: no entry moves, and one
  goes. `CancelFacts` is the index that may be another's: a command that waits
  has its own, as two that wait differ in theirs (`EntriesDiffer`).
* `TypeCorrect`, `EntriesOfCallers`: its parts.
* `FailuresEndProcesses`: `Spec => []FailureLeavesNoProcess`. It is inductive with
  `IdleLeavesNoProcess`: a new command must not find the process of the one that
  had its name before. `CodeFacts` is the code of an answer and the process.
* `PendingSpared`: `Spec => CancelSparesPending`, from the invariant and
  `PendingExecutes` (only a command that is active has a request pending).

`SsmSwpTransitionEngine_proofs`, for any set of requests and sessions and any set
of properties whose keys lie within half of the range (`KeysAssumption`).

* The search. `KeyOrder`: with that assumption the comparison that overflows is a
  strict order of the keys. `Position` and `Only` are recursive functions. What
  they compute would be shown by induction, which the prover cannot do with its
  library's theorems; it can take the least counterexample there is
  (`LeastExists`, from `NaturalSets`). `SearchExists` shows so that the recursion
  defines a function, `PositionFound` that it returns the place of the key, or the
  one where it is to be inserted, and `FindSchedulerFinds` and `InsertFacts` what
  follows for an array in order. `SequenceFilter_proofs` has the same for what is
  left of a sequence: its elements, their order, and how it is taken apart.
* `Invariance`: `Spec => []IInv`, with `IInv` made of `TypeOK` and `ArrayOK`. The
  properties to be shown are not inductive: that an engine has its connection
  depends on what the scheduler keeps from one transition to the next, and that it
  is in one place on the array's order. `ArrayOK` is that order, `SchedulerOK` for
  every scheduler, and that every engine is with one. `SchedulerOK` speaks of one
  scheduler and the requests it holds: `QueueOK` (those behind wait, each once, and
  have not been started) and `CurrentOK` (what the action of the current one
  implies for the connections, the policy's step, its message and the scheduler's
  status). So `SchedulerFrame` and `OneChanges` leave all the others alone in a
  step for one property. Only `Cancel` changes all schedulers at once:
  `AfterCancelOK` is one of them, and `CancelInv` puts them together. `TakeNextOK`
  is the end of a transition and the begin of the next, and `WithSchedulerOK` a new
  scheduler in the array.
* `TypeCorrect`, `EnginesHeld`, `CallsPossible`: consequences of `IInv`, the
  last with the exception of `CallsArePossible` for a cancelled initialisation.
  `WithFaultOK` is the policy server's end: `"gone"` is a step every phase allows.
  `SearchIsRight`: the search finds a scheduler if and only if there is one.
  `Invariance`, `EnginesHeld`, `SearchIsRight` and `Implementation` are as good as
  `KeysAssumption`.
* `Implementation`: `Spec => ImplementsContract`. The line of a property is the
  current request and the queue of its scheduler (`LineOf`), the outcome of a
  request its answer, or `"lost"` (`OutcomeIn`). A submission is `Submit`, an
  answer of an engine `Answer`, `Tell` or a stutter, the scheduler's step `Leave`,
  the cleanup a stutter (`CleanUpImplements`: an idle scheduler has an empty line).
  `CancelImplements` is the longest: in one step requests leave every line, the
  next ones move up and may fail at once, and clients are told. `CancelledLine`
  is what becomes of one line, by the lemmas about `Only`, `CancelledOutcome` what
  becomes of one request.

Every invariant, action property and refinement that a passing run checks is a
theorem. Only model-checked is liveness, which is out of the prover's reach:
`EveryRequestAnswered`, `ListAnswered`, `ListDisposed`, `RequestAnswered`,
`SlotsAreReleased`, `TimedStartsEnd`, `RequestsAreAnswered`, `PowerOffEnds`.

## 5. Not modelled

In the modelled components: reasons and submain parts of a state, severities
returned to the engine (an error reaches the policy, which answers anything),
streaming of lists, conditions as anything but a Boolean, commands that complete
at once, libraries that are never unloaded, starting the server processes,
logging and test hooks. StartSafe: `StartL` and `StartAndMonitorL`, which wait
within the server, waiting for AppArc, and monitoring; an error of
`RendezvousCancel` counts as `KErrCancel` (`rvobserver.cpp:238-242`). System wide properties:
registering them and loading their policies, and the policy server's array of
sessions; that validation of their lists can be switched off. Shutdown server: storing the locale, and the queries; with
`KSsmGracefulShutdown` the state manager takes the power off, and the switch off
leaves it on. Debug assertions do not stop a release build and are invariants
here. A panic ends the system, which `panicked` records.

The other servers of the repository (sensors, PSM, hardware resources,
accessories, remote control) share nothing with the above but the platform; each
is a system of its own, and most of the repository's code. The mediator and the
system monitor are the next ones that could be modelled.

## 6. Plan

1. Composition of the engines and the command list server through the session
   proxy: the server as the implementation of `CleAnswers`, and an abstract
   specification of "one list at a time, answered once" that `CmdListExecutor`
   and `CleServer` implement; StartSafe as the one of `StartSafeAnswers`.
2. The mediator's commands: a response, a timeout and a cancellation of the same
   command. The system monitor: restarts within its throttle list.
3. Proofs: the composition of point 1, step by step as the contracts were.
