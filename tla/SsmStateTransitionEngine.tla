---------------------- MODULE SsmStateTransitionEngine ----------------------
(***************************************************************************)
(* The System State Manager's transition engine, with the server that      *)
(* feeds it and the three objects it drives:                               *)
(*                                                                         *)
(*   CSsmServer / CSsmSession     client requests and cancellations        *)
(*   CSsmStateTransitionEngine    the active object that walks one request *)
(*                                through its phases, with one more queued *)
(*   CSsmStatePolicyResolver,     the loaded policy DLL and the order in   *)
(*   CSsmStatePolicyFrame         which it is called                       *)
(*   CCleSessionProxy             the session on the command list server   *)
(*                                                                         *)
(* All of it runs in one thread: a handler or a RunL is one atomic action. *)
(* The policy DLL and the command list server answer asynchronously, and   *)
(* the latter can die.  A TSsmState is its main state, the only part that  *)
(* selects a policy DLL; the reason of a request is left out.  Debug       *)
(* assertions do not stop the model (they are compiled out of a release    *)
(* build): those that matter are invariants below.                         *)
(***************************************************************************)
CONSTANTS
  Requests,     \* requests for a transition that clients can make, one each
  Sessions,     \* client sessions on the server
  SessionOf,    \* the session each request is made on
  States,       \* main states: each has a policy DLL
  StartupState, \* the state the server is started with
  Startup,      \* the server's own request, which carries no message
  None,         \* a NULL pointer
  Validate      \* iPerformCommandListValidation

RequestIds == Requests \cup {Startup}
Slots == [req : RequestIds, state : States]

ASSUME SessionAssumption == SessionOf \in [Requests -> Sessions]
ASSUME StateAssumption == StartupState \in States
ASSUME IdAssumption == Startup \notin Requests /\ None \notin Slots \cup RequestIds
ASSUME ValidateAssumption == Validate \in BOOLEAN

VARIABLES
  nextAction,   \* iNextAction of the engine: the phase its next RunL executes
  active,       \* the engine is an active object with a request outstanding
  status,       \* iStatus of the engine ("KErrNone" while it is not active)
  current,      \* iCurrentTransition
  queued,       \* iQueuedTransition
  target,       \* iTargetSystemState
  list,         \* iCommandList is not NULL
  frame,        \* the policy DLL loaded by the resolver, and its call protocol
  link,         \* the session handle on the command list server
  outcome,      \* what the client of each request has been told
  panicked      \* PanicNow was called: a kernel fault that resets the device

vars == <<nextAction, active, status, current, queued, target, list, frame,
          link, outcome, panicked>>

Phases == {"EUnConnected", "EIdle", "EStartTransition", "EInitialize",
           "EPrepareCommandList", "EExecuteCommandList", "EReadNextTransition"}

FrameSteps == {"EInitialize", "EPrepare", "EGet", "ENext"}

Frames == [id : States, next : FrameSteps, initializeCalled : BOOLEAN]

StatusCodes == {"KRequestPending", "KErrNone", "KErrGeneral", "KErrArgument",
                "KErrDisconnected", "KErrServerTerminated"}

Outcomes == {"unsent", "pending", "KErrNone", "KErrCancel", "KErrNotSupported",
             "KErrNoMemory", "error"}

TypeOK ==
  /\ nextAction \in Phases
  /\ active \in BOOLEAN
  /\ status \in StatusCodes
  /\ current \in Slots \cup {None}
  /\ queued \in Slots \cup {None}
  /\ target \in States
  /\ list \in BOOLEAN
  /\ frame \in Frames
  /\ link \in {"none", "up", "dead"}
  /\ outcome \in [Requests -> Outcomes]
  /\ panicked \in BOOLEAN

\* Operators named Wrong... are variants with a plausible bug.  Nothing here uses
\* them: each replaces its namesake to show that some property notices.

WrongComplete(told, slot, code) ==      \* no guard on the message handle
  IF slot # None /\ slot.req \in Requests THEN [told EXCEPT ![slot.req] = code]
                                          ELSE told

(***************************************************************************)
(* A request completes its message once: RMessage2::Complete clears the    *)
(* handle, and the request the server makes of itself never has one.       *)
(***************************************************************************)
Complete(told, slot, code) ==
  IF slot # None /\ slot.req \in Requests /\ told[slot.req] = "pending"
  THEN [told EXCEPT ![slot.req] = code]
  ELSE told

WrongOriginatesFrom(slot, s) == slot.req \in Requests   \* whoever sent it

OriginatesFrom(slot, s) == slot.req \in Requests /\ SessionOf[slot.req] = s

\* SetStatePolicyId is not called
WrongNewFrame(s) == [id |-> None, next |-> "EInitialize", initializeCalled |-> FALSE]

NewFrame(s) == [id |-> s, next |-> "EInitialize", initializeCalled |-> FALSE]

WrongGetStatePolicy(s) == frame         \* never reloads

\* GetStatePolicyL: a DLL is loaded only if it is not the one in use.
GetStatePolicy(s) == IF frame.id = s THEN frame ELSE NewFrame(s)

IsConnected == link # "none"

InTransition ==
  nextAction \in {"EInitialize", "EPrepareCommandList", "EExecuteCommandList",
                  "EReadNextTransition"}

WrongFirstPhase(handle) == "EUnConnected"   \* always reconnects

\* The phase that begins a transition on a session that may have been closed.
FirstPhase(handle) == IF handle # "none" THEN "EStartTransition" ELSE "EUnConnected"

-----------------------------------------------------------------------------
(***************************************************************************)
(* CSsmServer::ConstructL leaves the policy of the startup state loaded,   *)
(* the CleSrv session unconnected and the startup transition submitted.    *)
(***************************************************************************)
Init ==
  /\ nextAction = "EUnConnected"
  /\ active = TRUE
  /\ status = "KErrNone"
  /\ current = [req |-> Startup, state |-> StartupState]
  /\ queued = None
  /\ target \in States
  /\ list = FALSE
  /\ frame = NewFrame(StartupState)
  /\ link = "none"
  /\ outcome = [r \in Requests |-> "unsent"]
  /\ panicked = FALSE

(***************************************************************************)
(* CSsmStateTransitionEngine::DoCancel, which CActive::Cancel calls when   *)
(* the engine is active.  What it leaves in each variable is given by an   *)
(* operator, because two callers go on from there.                         *)
(***************************************************************************)
FrameAfterCancel ==
  CASE nextAction = "EPrepareCommandList" -> [frame EXCEPT !.next = "EInitialize"]
    [] nextAction = "EExecuteCommandList" -> [frame EXCEPT !.next = "EPrepare"]
    [] OTHER -> frame

WrongListAfterCancel == list            \* the list is not deleted

ListAfterCancel == list /\ nextAction # "EReadNextTransition"

PhaseAfterCancel == IF nextAction = "EUnConnected" THEN "EUnConnected" ELSE "EIdle"

StartNow == active' = TRUE /\ status' = "KErrNone"
Rest     == active' = FALSE /\ status' = "KErrNone"

WrongPhaseAfterSubmit(phase) ==         \* the start of the transition is skipped
  IF phase = "EIdle" THEN "EInitialize" ELSE phase

(***************************************************************************)
(* The end of CSsmStateTransitionEngine::DoSubmit, which starts an engine  *)
(* that is not active: in its own phase if it has never been connected, in *)
(* the first phase of a transition if it is idle.                          *)
(***************************************************************************)
PhaseAfterSubmit(phase) == IF phase = "EIdle" THEN FirstPhase(link) ELSE phase

WrongStartIfStopped ==                  \* an idle engine is not started
  IF ~active /\ nextAction = "EUnConnected" THEN nextAction' = nextAction /\ StartNow
  ELSE UNCHANGED <<nextAction, active, status>>

StartIfStopped ==
  IF ~active /\ nextAction \in {"EUnConnected", "EIdle"}
  THEN nextAction' = PhaseAfterSubmit(nextAction) /\ StartNow
  ELSE UNCHANGED <<nextAction, active, status>>

-----------------------------------------------------------------------------
(***************************************************************************)
(* CSsmServer::RequestStateTransitionL: one action per answer the policy's *)
(* TransitionAllowed can give.                                             *)
(***************************************************************************)
Send(r) == ~panicked /\ outcome[r] = "unsent"

RequestNotAllowed(r) ==
  /\ Send(r)
  /\ outcome' = [outcome EXCEPT ![r] = "KErrNotSupported"]
  /\ UNCHANGED <<nextAction, active, status, current, queued, target, list,
                 frame, link, panicked>>

\* EDefinitelyAllowed or ECurrentRemainReplaceQueued, but SubmitL leaves.
RequestNoMemory(r) ==
  /\ Send(r)
  /\ outcome' = [outcome EXCEPT ![r] = "KErrNoMemory"]
  /\ UNCHANGED <<nextAction, active, status, current, queued, target, list,
                 frame, link, panicked>>

\* Accepted while a transition is current: it replaces what was queued.
RequestQueued(r, s) ==
  /\ Send(r)
  /\ current # None
  /\ queued' = [req |-> r, state |-> s]
  /\ outcome' = [Complete(outcome, queued, "KErrCancel") EXCEPT ![r] = "pending"]
  /\ StartIfStopped
  /\ UNCHANGED <<current, target, list, frame, link, panicked>>

\* Accepted while no transition is current.
RequestCurrent(r, s) ==
  /\ Send(r)
  /\ current = None
  /\ current' = [req |-> r, state |-> s]
  /\ queued' = None
  /\ outcome' = [Complete(outcome, queued, "KErrCancel") EXCEPT ![r] = "pending"]
  /\ StartIfStopped
  /\ UNCHANGED <<target, list, frame, link, panicked>>

(***************************************************************************)
(* EReplaceCurrentClearQueue: Engine::Cancel(NULL), then SubmitL, which    *)
(* leaves when there is no memory for the new request.                     *)
(***************************************************************************)
WrongCancelAll == Complete(outcome, current, "KErrCancel")  \* queued is just deleted

CancelAll ==
  LET withoutQueued == Complete(outcome, queued, "KErrCancel")
  IN  Complete(withoutQueued, current, "KErrCancel")

PhaseAfterCancelAll == IF current = None THEN nextAction ELSE PhaseAfterCancel

RequestReplacesAll(r, s) ==
  /\ Send(r)
  /\ outcome' = [CancelAll EXCEPT ![r] = "pending"]
  /\ current' = [req |-> r, state |-> s]
  /\ queued' = None
  /\ nextAction' = PhaseAfterSubmit(PhaseAfterCancelAll)
  /\ StartNow
  /\ frame' = IF current = None THEN frame ELSE FrameAfterCancel
  /\ list' = IF current = None THEN list ELSE ListAfterCancel
  /\ UNCHANGED <<target, link, panicked>>

RequestReplacesAllNoMemory(r) ==
  /\ Send(r)
  /\ outcome' = [CancelAll EXCEPT ![r] = "KErrNoMemory"]
  /\ current' = None
  /\ queued' = None
  /\ nextAction' = PhaseAfterCancelAll
  /\ Rest
  /\ frame' = IF current = None THEN frame ELSE FrameAfterCancel
  /\ list' = IF current = None THEN list ELSE ListAfterCancel
  /\ UNCHANGED <<target, link, panicked>>

(***************************************************************************)
(* CSsmServer::RequestStateTransitionCancel: Engine::Cancel(aSession).     *)
(* The session of a request whose message is completed is still known.     *)
(***************************************************************************)
CancelsQueued(s) == queued # None /\ OriginatesFrom(queued, s)
CancelsCurrent(s) == current # None /\ OriginatesFrom(current, s) /\ ~InTransition

RequestStateTransitionCancel(s) ==
  LET left == IF CancelsQueued(s) THEN None ELSE queued
      told == IF CancelsQueued(s) THEN Complete(outcome, queued, "KErrCancel")
                                  ELSE outcome
  IN  /\ ~panicked
      /\ IF CancelsCurrent(s)
         THEN /\ outcome' = Complete(told, current, "KErrCancel")
              /\ current' = left
              /\ queued' = None
              /\ frame' = FrameAfterCancel
              /\ list' = ListAfterCancel
              /\ IF left # None
                 THEN nextAction' = "EStartTransition" /\ StartNow
                 ELSE nextAction' = PhaseAfterCancel /\ Rest
         ELSE /\ outcome' = told
              /\ queued' = left
              /\ UNCHANGED <<current, frame, list, nextAction, active, status>>
      /\ UNCHANGED <<target, link, panicked>>

-----------------------------------------------------------------------------
(***************************************************************************)
(* CSsmStateTransitionEngine::RunL, one action per phase.                  *)
(***************************************************************************)
Runs(phase) ==
  /\ ~panicked /\ active
  /\ status # "KRequestPending"
  /\ nextAction = phase

RunsWell(phase) == Runs(phase) /\ status = "KErrNone"

DoConnectCleSession ==
  /\ RunsWell("EUnConnected")
  /\ link = "none"
  /\ link' = "up"
  /\ nextAction' = "EStartTransition"
  /\ StartNow
  /\ UNCHANGED <<current, queued, target, list, frame, outcome, panicked>>

DoStartTransition ==
  /\ RunsWell("EStartTransition")
  /\ outcome' = Complete(outcome, current, "KErrNone")
  /\ target' = current.state
  /\ frame' = GetStatePolicy(current.state)
  /\ nextAction' = "EInitialize"
  /\ StartNow
  /\ UNCHANGED <<current, queued, list, link, panicked>>

DoInitialize ==
  /\ RunsWell("EInitialize")
  /\ IF frame.initializeCalled
     THEN StartNow /\ frame' = frame
     ELSE /\ frame' = [frame EXCEPT !.initializeCalled = TRUE, !.next = "EPrepare"]
          /\ status' = "KRequestPending"
          /\ active' = TRUE
  /\ nextAction' = "EPrepareCommandList"
  /\ UNCHANGED <<current, queued, target, list, link, outcome, panicked>>

DoPrepareCommandList ==
  /\ RunsWell("EPrepareCommandList")
  /\ frame' = [frame EXCEPT !.next = "EGet"]
  /\ status' = "KRequestPending"
  /\ active' = TRUE
  /\ nextAction' = "EExecuteCommandList"
  /\ UNCHANGED <<current, queued, target, list, link, outcome, panicked>>

(***************************************************************************)
(* The policy hands over no list, an empty list, or a list of commands.    *)
(* Validation rejects the first two.  RCleSession::ExecuteCommandList      *)
(* answers on the spot unless the message reaches a live server.           *)
(***************************************************************************)
Lists == {"NoList", "EmptyList", "Commands"}

ExecuteStatus(l) ==
  CASE l = "NoList" -> "KErrNone"
    [] l = "EmptyList" -> "KErrArgument"
    [] l = "Commands" /\ link = "none" -> "KErrDisconnected"
    [] l = "Commands" /\ link = "dead" -> "KErrServerTerminated"
    [] OTHER -> "KRequestPending"

DoExecuteCommandList(l) ==
  /\ RunsWell("EExecuteCommandList")
  /\ Validate => l = "Commands"
  /\ frame' = [frame EXCEPT !.next = "ENext"]
  /\ list' = (l # "NoList")
  /\ status' = ExecuteStatus(l)
  /\ active' = TRUE
  /\ nextAction' = "EReadNextTransition"
  /\ UNCHANGED <<current, queued, target, link, outcome, panicked>>

(***************************************************************************)
(* EReadNextTransition: the list is deleted, a dead session is closed and  *)
(* the policy is asked for a further state.                                *)
(***************************************************************************)
LinkAfterRead == IF status = "KErrServerTerminated" THEN "none" ELSE link

ReadNextTransition ==
  /\ Runs("EReadNextTransition")
  /\ list' = FALSE
  /\ link' = LinkAfterRead
  /\ frame' = [frame EXCEPT !.next = "EPrepare"]
  /\ UNCHANGED <<target, outcome, panicked>>

FurtherTransition(s) ==
  /\ ReadNextTransition
  /\ current' = [current EXCEPT !.state = s]
  /\ nextAction' = FirstPhase(LinkAfterRead)
  /\ StartNow
  /\ UNCHANGED queued

TransitionCompleted ==
  /\ ReadNextTransition
  /\ current' = queued
  /\ queued' = None
  /\ IF queued # None
     THEN nextAction' = FirstPhase(LinkAfterRead) /\ StartNow
     ELSE nextAction' = "EIdle" /\ Rest

(***************************************************************************)
(* RunError: an error passed to a phase other than EReadNextTransition, or *)
(* a leave in any phase, panics.  A failure to connect, and only that, is  *)
(* also told to the client; a transition that cannot load its policy has   *)
(* already been acknowledged.                                              *)
(***************************************************************************)
RunError(phase) ==
  /\ Runs(phase)
  /\ panicked' = TRUE
  /\ outcome' =
       CASE phase = "EUnConnected" -> Complete(outcome, current, "error")
         [] phase = "EStartTransition" /\ status = "KErrNone" ->
              Complete(outcome, current, "KErrNone")
         [] OTHER -> outcome
  /\ Rest
  /\ UNCHANGED <<nextAction, current, queued, target, list, frame, link>>

-----------------------------------------------------------------------------
(***************************************************************************)
(* The providers: the policy DLL, and the command list server.             *)
(***************************************************************************)
Pending(phases) ==
  ~panicked /\ active /\ status = "KRequestPending" /\ nextAction \in phases

PolicyAnswers(code) ==
  /\ Pending({"EPrepareCommandList", "EExecuteCommandList"})
  /\ status' = code
  /\ UNCHANGED <<nextAction, active, current, queued, target, list, frame, link,
                 outcome, panicked>>

CleAnswers(code) ==
  /\ Pending({"EReadNextTransition"})
  /\ link = "up"
  /\ status' = code
  /\ UNCHANGED <<nextAction, active, current, queued, target, list, frame, link,
                 outcome, panicked>>

CleTerminates ==
  /\ ~panicked
  /\ link = "up"
  /\ link' = "dead"
  /\ status' = IF Pending({"EReadNextTransition"}) THEN "KErrServerTerminated"
                                                   ELSE status
  /\ UNCHANGED <<nextAction, active, current, queued, target, list, frame,
                 outcome, panicked>>

-----------------------------------------------------------------------------
ClientStep ==
  \/ \E r \in Requests :
       \/ RequestNotAllowed(r)
       \/ RequestNoMemory(r)
       \/ RequestReplacesAllNoMemory(r)
       \/ \E s \in States : \/ RequestQueued(r, s)
                            \/ RequestCurrent(r, s)
                            \/ RequestReplacesAll(r, s)
  \/ \E s \in Sessions : RequestStateTransitionCancel(s)

RunL ==
  \/ DoConnectCleSession
  \/ DoStartTransition
  \/ DoInitialize
  \/ DoPrepareCommandList
  \/ \E l \in Lists : DoExecuteCommandList(l)
  \/ \E s \in States : FurtherTransition(s)
  \/ TransitionCompleted
  \/ \E phase \in Phases : RunError(phase)

Provider ==
  \/ \E code \in {"KErrNone", "KErrGeneral"} : PolicyAnswers(code) \/ CleAnswers(code)
  \/ CleTerminates

Next == ClientStep \/ RunL \/ Provider

Spec == Init /\ [][Next]_vars

(***************************************************************************)
(* The scheduler runs a ready active object, a provider answers what it    *)
(* was asked, and a policy does not chain further states for ever.         *)
(***************************************************************************)
Fairness ==
  /\ WF_vars(RunL)
  /\ WF_vars(\E code \in {"KErrNone", "KErrGeneral"} :
               PolicyAnswers(code) \/ CleAnswers(code))
  /\ SF_vars(TransitionCompleted)

FairSpec == Spec /\ Fairness

-----------------------------------------------------------------------------
(***************************************************************************)
(* The engine is at work exactly when it has a current transition, rests   *)
(* only in a phase in which DoSubmit starts it, and nothing is queued      *)
(* behind an empty current slot: no accepted request waits on an engine    *)
(* that nobody will start again, and no phase runs on a NULL request.      *)
(***************************************************************************)
EngineAtWork ==
  ~panicked =>
    /\ active <=> current # None
    /\ current = None => nextAction \in {"EUnConnected", "EIdle"}
    /\ current # None => nextAction # "EIdle"
    /\ queued # None => current # None

(***************************************************************************)
(* A request whose client still waits for an answer is in one of the two   *)
(* slots, and no request is in both: none is deleted with an open message  *)
(* (the destructor's assertion) and none is answered from two places.  The *)
(* queued one still waits, and the current one has at most been started.   *)
(***************************************************************************)
Held(r, slot) == slot # None /\ slot.req = r

NoRequestLost ==
  \A r \in Requests :
    /\ outcome[r] = "pending" => Held(r, current) \/ Held(r, queued)
    /\ ~(Held(r, current) /\ Held(r, queued))
    /\ Held(r, queued) => outcome[r] = "pending"
    /\ ~panicked /\ Held(r, current) => outcome[r] \in {"pending", "KErrNone"}

(***************************************************************************)
(* A client is answered once: the outcome of a request never changes after *)
(* its message is completed, though a request that chains further states   *)
(* starts several times and can still be cancelled by the server.          *)
(***************************************************************************)
AnsweredOnce ==
  [][\A r \in Requests :
       outcome[r] \notin {"unsent", "pending"} => outcome'[r] = outcome[r]]_vars

(***************************************************************************)
(* From EInitialize on, nothing is done on behalf of a request whose       *)
(* client has not been told that its transition has started, and the       *)
(* engine's target is the state of that request.                           *)
(***************************************************************************)
AcknowledgedBeforeWork ==
  ~panicked /\ InTransition =>
    /\ current.state = target
    /\ current.req \in Requests => outcome[current.req] = "KErrNone"

(***************************************************************************)
(* The policy DLL is the one of the target state, and CommandList and      *)
(* GetNextState are called when its frame expects them, whatever was       *)
(* cancelled in between; a frame that was never initialised still expects  *)
(* Initialize.  Nothing is said of Prepare, which can be called out of     *)
(* order: see InitializedBeforePrepare.                                    *)
(***************************************************************************)
PolicyFollowsEngine ==
  /\ ~frame.initializeCalled => frame.next = "EInitialize"
  /\ ~panicked =>
       /\ InTransition => frame.id = target
       /\ InTransition /\ nextAction # "EInitialize" => frame.initializeCalled
       /\ nextAction = "EExecuteCommandList" => frame.next = "EGet"
       /\ nextAction = "EReadNextTransition" => frame.next = "ENext"

(***************************************************************************)
(* The engine asks for a connection only when it has none (the assertion   *)
(* in CCleSessionProxy::ConnectL, and KErrAlreadyExists in RCleSession).   *)
(***************************************************************************)
ConnectsOnlyWhenClosed == nextAction = "EUnConnected" => ~IsConnected

(***************************************************************************)
(* The engine keeps the command list while the server may be reading it,   *)
(* and holds none in any other phase, where the pointer would be           *)
(* overwritten and the list leaked.                                        *)
(***************************************************************************)
ListOutlivesExecution ==
  ~panicked =>
    /\ list => nextAction = "EReadNextTransition"
    /\ Pending({"EReadNextTransition"}) => list

(***************************************************************************)
(* Every accepted request is eventually answered, started or cancelled,    *)
(* unless the device resets.                                               *)
(***************************************************************************)
EveryRequestAnswered ==
  \A r \in Requests :
    outcome[r] = "pending" ~> (outcome[r] # "pending" \/ panicked)

-----------------------------------------------------------------------------
(***************************************************************************)
(* The engine implements the contract it offers its clients.               *)
(***************************************************************************)
RequestIn(slot) == IF slot = None THEN None ELSE slot.req

Contract == INSTANCE SsmTransitionContract
              WITH running <- RequestIn(current), waiting <- RequestIn(queued)

ImplementsContract == Contract!Spec

-----------------------------------------------------------------------------
(***************************************************************************)
(* The next three are promises of the source that the code does not keep.  *)
(*                                                                         *)
(* DoStartTransitionL tells the client that the transition has started,    *)
(* and from then on it "can't be cancelled" by the client.                 *)
(***************************************************************************)
StartedIsNotCancelled ==
  [][\A s \in Sessions :
       /\ RequestStateTransitionCancel(s)
       /\ current # None
       /\ current.req \in Requests => outcome[current.req] = "KErrNone"
       => current' = current]_vars

(***************************************************************************)
(* The engine connects to CleSrv before it is used for the first time.     *)
(***************************************************************************)
ConnectedBeforeUse ==
  ~panicked /\ nextAction \in {"EStartTransition", "EInitialize",
        "EPrepareCommandList", "EExecuteCommandList"} => IsConnected

(***************************************************************************)
(* Initialize is guaranteed to be called before a policy is used: when the *)
(* engine calls PrepareCommandList the frame does not expect Initialize.   *)
(***************************************************************************)
InitializedBeforePrepare ==
  RunsWell("EPrepareCommandList") => frame.next \in {"EPrepare", "ENext"}
=============================================================================
