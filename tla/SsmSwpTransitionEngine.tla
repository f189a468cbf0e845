----------------------- MODULE SsmSwpTransitionEngine -----------------------
(***************************************************************************)
(* How the System State Manager changes system wide properties:            *)
(*                                                                         *)
(*   CSsmSwpRequestHandler                makes an engine for a request    *)
(*   CSsmSwpTransitionScheduler           the schedulers, one per property *)
(*   CSsmSwpIndividualTransitionScheduler runs the engines one by one      *)
(*   CSsmSwpTransitionEngine              takes one request through policy *)
(*                                        and command list                 *)
(*   CSsmSwpPolicyServer                  the step of the policy a session *)
(*                                        has at work                      *)
(*                                                                         *)
(* All but the last run in the server's thread: a RunL is one step.  A     *)
(* request is a client's message, and its engine is named by it; the name  *)
(* is used again when the message is answered and the engine deleted.      *)
(***************************************************************************)
EXTENDS SequenceFilter

CONSTANTS
  Requests,
  NoRequest,    \* no current transition
  Sessions,
  SessionOf,    \* the session of each request
  Keys,         \* the properties
  Changes,      \* what the requests may be about: functions to Keys
  KeyRange,     \* 2^32, the number of values of a TUint
  AfterFault    \* a bound: clients go on when a policy server has terminated

ASSUME RequestsAssumption ==
  /\ NoRequest \notin Requests
  /\ SessionOf \in [Requests -> Sessions]
  /\ KeyRange \in Nat \ {0}
  /\ Keys \subseteq 0..(KeyRange - 1)
  /\ Changes \subseteq [Requests -> Keys]
  /\ AfterFault \in BOOLEAN

(***************************************************************************)
(* The keys in use lie within half of the range, which may be across its   *)
(* end: the comparison of keys is no order otherwise.                      *)
(***************************************************************************)
ASSUME KeysAssumption ==
  \A a, b, c \in Keys : \E k \in {a, b, c} :
    \A j \in {a, b, c} : 2 * ((j - k) % KeyRange) < KeyRange

VARIABLES
  keyOf,        \* iSwp.Key() of each request, which stays as it is
  schedulers,   \* iIndividualTransitionSchedulers
  engine,       \* the engine of each request
  answer,       \* what each message was completed with
  timer,        \* the timer of the lazy cleanup is active
  panicked      \* PanicNow was called: a kernel fault that resets the device

vars == <<keyOf, schedulers, engine, answer, timer, panicked>>

Calls == {"ETransitionAllowed", "EExecuteCommandList", "EWaitForCommandListExecute",
          "EWaitForHandleCleReturnValue"}
InTransitionActions == {"EPrepareCommandList", "EExecuteCommandList",
                        "EWaitForCommandListExecute", "EWaitForHandleCleReturnValue",
                        "ETransitionComplete"}

Errors == {"KErrNoMemory", "KErrGeneral"}     \* any other error is the latter
Codes == Errors \cup {"KErrNone", "KErrNotSupported", "KErrServerTerminated"}

(***************************************************************************)
(* next: iNextAction.  status: iStatus, "idle" if the engine is not        *)
(* active; only a call of another server can be pending.                   *)
(***************************************************************************)
Engines ==
  [next : Calls, status : Codes \cup {"KRequestPending"}]
  \cup [next : {"EUnConnected", "ESetSwpPolicyDllHandleAndInitialize", "EPrepareCommandList"},
        status : {"KErrNone"}]
  \cup [next : (Calls \ {"EWaitForCommandListExecute"})
                  \cup {"EIdle", "EUnConnected", "ETransitionComplete"},
        status : {"idle"}]

Idle == [next |-> "EIdle", status |-> "idle"]
NoEngine == [next |-> "none", status |-> "idle"]

(***************************************************************************)
(* queue: in the order it is taken from, iTransitionQueue has it from back *)
(* to front.  status: "idle" if the scheduler is not active.  policy, cle: *)
(* the sessions with the policy server and the CLE are connected.  step:   *)
(* iStep of what the policy server has for that session, "none" if NULL;   *)
(* "gone" if that server has terminated, as the session is not closed.     *)
(***************************************************************************)
Steps == {"none", "EInitialize", "EPrepareCommandList", "ECallCommandList",
          "EHandleCleReturnValue", "gone"}
Schedulers == [key : Keys, current : Requests \cup {NoRequest}, queue : Seq(Requests),
               status : {"idle", "KRequestPending"} \cup Codes,
               policy : BOOLEAN, cle : BOOLEAN, step : Steps]

NewScheduler(key) ==
  [key |-> key, current |-> NoRequest, queue |-> <<>>, status |-> "idle",
   policy |-> FALSE, cle |-> FALSE, step |-> "none"]

TypeOK ==
  /\ keyOf \in Changes
  /\ schedulers \in Seq(Schedulers)
  /\ engine \in [Requests -> Engines \cup {NoEngine}]
  /\ answer \in [Requests -> Codes \cup {"none", "waiting", "KErrCancel"}]
  /\ timer \in BOOLEAN
  /\ panicked \in BOOLEAN

Init ==
  /\ keyOf \in Changes
  /\ schedulers = <<>>
  /\ engine = [r \in Requests |-> NoEngine]
  /\ answer = [r \in Requests |-> "none"]
  /\ timer = FALSE
  /\ panicked = FALSE

-----------------------------------------------------------------------------
(***************************************************************************)
(* The array of schedulers.  OrderingFunction and SearchingFunction take   *)
(* the difference of two TUint for a TInt.                                 *)
(***************************************************************************)
Difference(a, b) ==
  LET d == (a - b) % KeyRange
  IN  IF 2 * d < KeyRange THEN d ELSE d - KeyRange

(***************************************************************************)
(* The binary search of the array, over the places from p[1] up to p[2]:   *)
(* that of the key, or where it is to be inserted.                         *)
(***************************************************************************)
Position(key) ==
  LET places == 1..(Len(schedulers) + 1)
      at[p \in places \X places] ==
        LET m == (p[1] + p[2]) \div 2
            d == Difference(key, schedulers[m].key)
        IN  IF p[1] >= p[2] THEN p[2]
            ELSE IF d = 0 THEN m
            ELSE IF d > 0 THEN at[<<m + 1, p[2]>>]
            ELSE at[<<p[1], m>>]
  IN  at[<<1, Len(schedulers) + 1>>]

FindScheduler(key) ==
  Position(key) \in DOMAIN schedulers /\ schedulers[Position(key)].key = key

WrongInsertInOrder(s) == Append(schedulers, s)

InsertInOrder(s) ==
  SubSeq(schedulers, 1, Position(s.key) - 1) \o <<s>>
    \o SubSeq(schedulers, Position(s.key), Len(schedulers))

IsIdle(s) == s.queue = <<>> /\ s.current = NoRequest
IsActive(s) == s.status # "idle"

-----------------------------------------------------------------------------
(***************************************************************************)
(* ScheduleTransition: scheduler s submits the engine of request r, which  *)
(* connects to the policy server with the outcome err.  What becomes of    *)
(* the scheduler, of the engine, and of the message if it has it.          *)
(***************************************************************************)
ConnectOutcomes(s) == IF s.policy THEN {"KErrNone"} ELSE {"KErrNone"} \cup Errors

Scheduled(s, r, err) ==
  [s EXCEPT !.current = r,
            !.status = IF err = "KErrNone" THEN "KRequestPending" ELSE err,
            !.policy = err = "KErrNone"]

WrongSubmitted(s, err) ==
  IF err # "KErrNone" THEN Idle
  ELSE [next |-> "ESetSwpPolicyDllHandleAndInitialize", status |-> "KErrNone"]

Submitted(s, err) ==
  IF err # "KErrNone" THEN Idle
  ELSE [next |-> IF s.cle THEN "ESetSwpPolicyDllHandleAndInitialize" ELSE "EUnConnected",
        status |-> "KErrNone"]

\* The current transition is gone: GetNextFromQueue, and that one is scheduled.
TakeNext(s, err) ==
  IF s.queue = <<>> THEN [s EXCEPT !.current = NoRequest, !.status = "idle"]
  ELSE Scheduled([s EXCEPT !.queue = Tail(@)], Head(s.queue), err)

NextOutcomes(s) == IF s.queue = <<>> THEN {"KErrNone"} ELSE ConnectOutcomes(s)

(***************************************************************************)
(* What a step by which scheduler s becomes t, with the outcome err of     *)
(* connecting, makes of the engine and the message of its request r.       *)
(***************************************************************************)
Holds(s, r) == s.current = r \/ \E n \in DOMAIN s.queue : s.queue[n] = r
Begins(s, t, r) == t.current = r /\ s.current # r

EngineAfter(s, t, r, err) ==
  IF ~Holds(t, r) THEN NoEngine
  ELSE IF Begins(s, t, r) THEN Submitted(s, err)
  ELSE engine[r]

\* CompleteClientMessage: it is completed once.
Completed(r, code) == IF answer[r] = "waiting" THEN code ELSE answer[r]

\* The answer of RunError.
Failed(r) == Completed(r, "KErrNoMemory")

AnswerAfter(s, t, r, err) ==
  IF Begins(s, t, r) /\ err = "KErrNoMemory" THEN Failed(r) ELSE answer[r]

\* PanicNow, if the policy server cannot be connected to for another reason.
Panics(err) == panicked' = (err = "KErrGeneral")

-----------------------------------------------------------------------------
(***************************************************************************)
(* DoSubmitRequestL: a client requests a change.                           *)
(***************************************************************************)
Requested(r) ==
  /\ ~panicked /\ answer[r] # "waiting" /\ engine[r] = NoEngine
  /\ AfterFault \/ \A i \in DOMAIN schedulers : schedulers[i].step # "gone"

\* The array of schedulers with one for the key.
WithScheduler(key) ==
  IF FindScheduler(key) THEN schedulers ELSE InsertInOrder(NewScheduler(key))

WrongQueued(s, r) == [s EXCEPT !.queue = <<r>> \o @]

Queued(s, r) == [s EXCEPT !.queue = Append(@, r)]

SubmitBehind(r) ==
  LET i == Position(keyOf[r])
  IN  /\ Requested(r)
      /\ FindScheduler(keyOf[r]) /\ IsActive(schedulers[i])
      /\ schedulers' = [schedulers EXCEPT ![i] = Queued(@, r)]
      /\ engine' = [engine EXCEPT ![r] = Idle]
      /\ answer' = [answer EXCEPT ![r] = "waiting"]
      /\ UNCHANGED <<timer, panicked>>

(***************************************************************************)
(* The engine is submitted before SetClientMessage: if it fails at once it *)
(* has no message to complete.                                             *)
(***************************************************************************)
SubmitFirst(r) ==
  LET array == WithScheduler(keyOf[r])
      i == Position(keyOf[r])
      s == array[i]
  IN  /\ Requested(r)
      /\ ~IsActive(s)
      /\ answer' = [answer EXCEPT ![r] = "waiting"]
      /\ \E err \in ConnectOutcomes(s) :
           /\ schedulers' = [array EXCEPT ![i] = Scheduled(s, r, err)]
           /\ engine' = [engine EXCEPT ![r] = Submitted(s, err)]
           /\ Panics(err)
      /\ UNCHANGED timer

\* No policy, no memory for the engine, a scheduler or the queue: it leaves.
SubmitLeaves(r) ==
  /\ Requested(r)
  /\ answer' = [answer EXCEPT ![r] = "KErrNoMemory"]
  /\ UNCHANGED <<schedulers, engine, timer, panicked>>

-----------------------------------------------------------------------------
(***************************************************************************)
(* CSsmSwpTransitionEngine: the engine of request r.                       *)
(***************************************************************************)
IsCurrent(r) == ~panicked /\ \E i \in DOMAIN schedulers : schedulers[i].current = r

\* iTransitionScheduler: where the scheduler is.
Place(r) == CHOOSE i \in DOMAIN schedulers : schedulers[i].current = r

Runs(r) ==
  /\ IsCurrent(r)
  /\ engine[r].status \notin {"idle", "KRequestPending"}

\* A status other than KErrNone is for RunError, but for that of the CLE.
RunsWell(r) ==
  /\ Runs(r)
  /\ engine[r].status = "KErrNone" \/ engine[r].next = "EWaitForCommandListExecute"

WrongGoes(r, next, status) == engine' = [engine EXCEPT ![r].next = next]

Goes(r, next, status) == engine' = [engine EXCEPT ![r] = [next |-> next, status |-> status]]

\* The engine is done: the scheduler's status is completed.
Ends(r, code) == schedulers' = [schedulers EXCEPT ![Place(r)].status = code]

RunError(r) ==
  /\ Ends(r, "KErrNoMemory")
  /\ engine' = [engine EXCEPT ![r].status = "idle"]
  /\ answer' = [answer EXCEPT ![r] = Failed(r)]
  /\ UNCHANGED <<timer, panicked>>

EngineFails(r) ==
  /\ Runs(r) /\ ~RunsWell(r)
  /\ engine[r].status = "KErrNoMemory"
  /\ RunError(r)

EnginePanics(r) ==
  /\ \/ Runs(r) /\ ~RunsWell(r) /\ engine[r].status # "KErrNoMemory"
     \/ RunsWell(r) /\ engine[r].next \in {"EUnConnected", "EExecuteCommandList"}
  /\ panicked' = TRUE
  /\ UNCHANGED <<schedulers, engine, answer, timer>>

ConnectCle(r) ==
  /\ RunsWell(r) /\ engine[r].next = "EUnConnected"
  /\ schedulers' = [schedulers EXCEPT ![Place(r)].cle = TRUE]
  /\ Goes(r, "ESetSwpPolicyDllHandleAndInitialize", "KErrNone")
  /\ UNCHANGED <<answer, timer, panicked>>

ConnectCleFails(r) ==
  /\ RunsWell(r) /\ engine[r].next = "EUnConnected"
  /\ RunError(r)

(***************************************************************************)
(* A call of the policy server: the step it goes to, and iStatus.  If it   *)
(* is gone it cannot be asked for anything.                                *)
(***************************************************************************)
Gone(r) == schedulers[Place(r)].step = "gone"
StepOf(r, step) == IF Gone(r) THEN "gone" ELSE step
Asked(r) == IF Gone(r) THEN "KErrServerTerminated" ELSE "KRequestPending"

\* The policy server makes an object for the policy's steps, whatever it had.
Initialize(r) ==
  /\ RunsWell(r) /\ engine[r].next = "ESetSwpPolicyDllHandleAndInitialize"
  /\ schedulers' = [schedulers EXCEPT ![Place(r)].step = StepOf(r, "EInitialize")]
  /\ Goes(r, "ETransitionAllowed", Asked(r))
  /\ UNCHANGED <<answer, timer, panicked>>

\* It has no memory for the object: it leaves, and has the one it had, or none.
InitializeLeaves(r) ==
  /\ RunsWell(r) /\ engine[r].next = "ESetSwpPolicyDllHandleAndInitialize"
  /\ ~Gone(r)
  /\ Goes(r, "ETransitionAllowed", "KErrNoMemory")
  /\ UNCHANGED <<schedulers, answer, timer, panicked>>

Allowed(r) ==
  /\ RunsWell(r) /\ engine[r].next = "ETransitionAllowed"
  /\ answer' = [answer EXCEPT ![r] = Completed(r, "KErrNone")]
  /\ Goes(r, "EPrepareCommandList", "KErrNone")
  /\ UNCHANGED <<schedulers, timer, panicked>>

NotAllowed(r) ==
  /\ RunsWell(r) /\ engine[r].next = "ETransitionAllowed"
  /\ answer' = [answer EXCEPT ![r] = Completed(r, "KErrNotSupported")]
  /\ Ends(r, "KErrNotSupported")
  /\ Goes(r, "EIdle", "idle")
  /\ UNCHANGED <<timer, panicked>>

PrepareCommandList(r) ==
  /\ RunsWell(r) /\ engine[r].next = "EPrepareCommandList"
  /\ schedulers' = [schedulers EXCEPT ![Place(r)].step = StepOf(r, "EPrepareCommandList")]
  /\ Goes(r, "EExecuteCommandList", Asked(r))
  /\ UNCHANGED <<answer, timer, panicked>>

\* The policy's list is fetched, validated, and goes to the CLE; or it panics above.
ExecuteCommandList(r) ==
  /\ RunsWell(r) /\ engine[r].next = "EExecuteCommandList" /\ ~Gone(r)
  /\ schedulers' = [schedulers EXCEPT ![Place(r)].step = "ECallCommandList"]
  /\ Goes(r, "EWaitForCommandListExecute", "KRequestPending")
  /\ UNCHANGED <<answer, timer, panicked>>

HandleCleReturnValue(r) ==
  /\ RunsWell(r) /\ engine[r].next = "EWaitForCommandListExecute"
  /\ schedulers' = [schedulers EXCEPT
       ![Place(r)].step = StepOf(r, "EHandleCleReturnValue"),
       ![Place(r)].cle = @ /\ engine[r].status # "KErrServerTerminated"]
  /\ Goes(r, "EWaitForHandleCleReturnValue", Asked(r))
  /\ UNCHANGED <<answer, timer, panicked>>

TransitionComplete(r) ==
  /\ RunsWell(r) /\ engine[r].next = "EWaitForHandleCleReturnValue"
  /\ Ends(r, "KErrNone")
  /\ Goes(r, "ETransitionComplete", "idle")
  /\ UNCHANGED <<answer, timer, panicked>>

EngineRunL(r) ==
  \/ EngineFails(r) \/ EnginePanics(r)
  \/ ConnectCle(r) \/ ConnectCleFails(r)
  \/ Initialize(r) \/ InitializeLeaves(r) \/ Allowed(r) \/ NotAllowed(r)
  \/ PrepareCommandList(r) \/ ExecuteCommandList(r)
  \/ HandleCleReturnValue(r) \/ TransitionComplete(r)

(***************************************************************************)
(* The other server completes its call.  RunL of the policy server's step  *)
(* forgets the policy after the last one.  It makes no difference what     *)
(* else the CLE completes a list with.                                     *)
(***************************************************************************)
Returns(r, code) ==
  /\ IsCurrent(r)
  /\ engine[r].status = "KRequestPending"
  /\ code \in IF engine[r].next = "EWaitForCommandListExecute"
              THEN {"KErrNone", "KErrServerTerminated"}
              ELSE IF Gone(r) THEN {"KErrServerTerminated"} ELSE {"KErrNone"} \cup Errors
  /\ engine' = [engine EXCEPT ![r].status = code]
  /\ schedulers' = [schedulers EXCEPT ![Place(r)].step =
                      IF engine[r].next = "EWaitForHandleCleReturnValue"
                      THEN StepOf(r, "none") ELSE @]
  /\ UNCHANGED <<answer, timer, panicked>>

-----------------------------------------------------------------------------
(***************************************************************************)
(* CSsmSwpIndividualTransitionScheduler::RunL: the current transition has  *)
(* ended.  Only success asks for the cleanup.                              *)
(***************************************************************************)
SchedulerRunL(r) ==
  LET s == schedulers[Place(r)]
  IN  /\ IsCurrent(r)
      /\ s.status \notin {"idle", "KRequestPending"}
      /\ timer' = (timer \/ s.status = "KErrNone")
      /\ \E err \in NextOutcomes(s) :
           LET t == TakeNext(s, err)
           IN  /\ schedulers' = [schedulers EXCEPT ![Place(r)] = t]
               /\ engine' = [x \in Requests |->
                               IF Holds(s, x) THEN EngineAfter(s, t, x, err) ELSE engine[x]]
               /\ answer' = [x \in Requests |-> AnswerAfter(s, t, x, err)]
               /\ Panics(err)

\* CSsmSwpTransitionScheduler::RunL: the lazy cleanup.
CleanUp ==
  /\ ~panicked /\ timer
  /\ timer' = FALSE
  /\ schedulers' = Only(schedulers, {s \in Elements(schedulers) : ~IsIdle(s)})
  /\ UNCHANGED <<engine, answer, panicked>>

-----------------------------------------------------------------------------
(***************************************************************************)
(* RequestSwpChangeCancel of session c, at every scheduler: its requests   *)
(* leave the queue, and so does the current one unless it is InTransition. *)
(***************************************************************************)
InTransition(r) == engine[r].next \in InTransitionActions

WithoutQueued(s, c) ==
  [s EXCEPT !.queue = Only(@, {r \in Requests : SessionOf[r] # c})]

TakesCurrent(s, c) ==
  s.current # NoRequest /\ SessionOf[s.current] = c /\ ~InTransition(s.current)

\* The policy server forgets the policy if its initialisation is cancelled.
IsInitializing(r) == engine[r].next = "ETransitionAllowed" /\ engine[r].status # "idle"
StepAfterCancel(s) ==
  IF IsInitializing(s.current) /\ s.step # "gone" THEN "none" ELSE s.step

WrongAfterCancel(s, c, err) ==
  LET rest == WithoutQueued(s, c)
  IN  IF TakesCurrent(s, c) THEN [rest EXCEPT !.current = NoRequest, !.status = "idle"] ELSE rest

AfterCancel(s, c, err) ==
  LET rest == WithoutQueued(s, c)
  IN  IF TakesCurrent(s, c) THEN TakeNext([rest EXCEPT !.step = StepAfterCancel(s)], err) ELSE rest

\* What is connected to for the requests that become current.
CancelOutcomes(s, c) ==
  IF TakesCurrent(s, c) THEN NextOutcomes(WithoutQueued(s, c)) ELSE {"KErrNone"}

(***************************************************************************)
(* CallInitializeCancel panics the thread of the policy server if there is *)
(* no object.  The schedulers are cancelled one by one: from the first one *)
(* at which that happens on the server is gone, for all the sessions that  *)
(* are connected by then, and one that connects after it has a new server. *)
(***************************************************************************)
Unserved(c) ==
  {i \in DOMAIN schedulers :
     LET s == schedulers[i]
     IN  TakesCurrent(s, c) /\ IsInitializing(s.current) /\ s.step = "none"}

GoneBy(c, i) == \E j \in Unserved(c) : j <= i

\* What becomes of scheduler i, which is t when it has been cancelled itself.
WithFault(c, i, t) ==
  IF /\ Unserved(c) # {}
     /\ schedulers[i].policy \/ (t.policy /\ ~GoneBy(c, i))
  THEN [t EXCEPT !.step = "gone"] ELSE t

(***************************************************************************)
(* DoCancel tells the client what CallInitializeCancel returned: KErrNone, *)
(* if the server is there.  An engine that is not active any more has told *)
(* it already, or cannot.                                                  *)
(***************************************************************************)
CancelCode(r, gone) ==
  IF ~IsInitializing(r) THEN "KErrCancel"
  ELSE IF gone THEN "KErrServerTerminated" ELSE "KErrNone"

AnswerAfterCancel(s, t, r, err, gone) ==
  IF Holds(s, r) /\ ~Holds(t, r) /\ ~(s.current = r /\ engine[r].status = "idle")
  THEN Completed(r, CancelCode(r, gone))
  ELSE AnswerAfter(s, t, r, err)

Cancel(c) ==
  \E err \in [DOMAIN schedulers -> {"KErrNone"} \cup Errors] :
    LET After(i) == AfterCancel(schedulers[i], c, err[i])
        At(r) == CHOOSE i \in DOMAIN schedulers : Holds(schedulers[i], r)
    IN  /\ ~panicked
        /\ \A i \in DOMAIN schedulers : err[i] \in CancelOutcomes(schedulers[i], c)
        /\ schedulers' = [i \in DOMAIN schedulers |-> WithFault(c, i, After(i))]
        /\ engine' = [r \in Requests |->
             IF engine[r] = NoEngine THEN NoEngine
             ELSE EngineAfter(schedulers[At(r)], After(At(r)), r, err[At(r)])]
        /\ answer' = [r \in Requests |->
             IF engine[r] = NoEngine THEN answer[r]
             ELSE LET s == schedulers[At(r)]
                  IN  AnswerAfterCancel(s, After(At(r)), r, err[At(r)],
                                        s.step = "gone" \/ GoneBy(c, At(r)))]
        /\ panicked' = \E i \in DOMAIN schedulers : err[i] = "KErrGeneral"
        /\ UNCHANGED timer

-----------------------------------------------------------------------------
RequestSteps(r) ==
  \/ EngineRunL(r)
  \/ \E code \in Codes : Returns(r, code)
  \/ SchedulerRunL(r)

Next ==
  /\ \/ \E r \in Requests : SubmitBehind(r) \/ SubmitFirst(r) \/ SubmitLeaves(r) \/ RequestSteps(r)
     \/ \E c \in Sessions : Cancel(c)
     \/ CleanUp
  /\ UNCHANGED keyOf

Spec == Init /\ [][Next]_vars

(***************************************************************************)
(* Fairness.  Active objects that are ready run, the policies come to an   *)
(* end of each of their steps, and the CLE of a list: the one request that *)
(* is at work for a property goes on.  Nothing is asked of the clients or  *)
(* of the timer.                                                           *)
(***************************************************************************)
AtWork(k) == {r \in Requests : keyOf[r] = k /\ IsCurrent(r)}
Serve(k) == UNCHANGED keyOf /\ \E r \in AtWork(k) : RequestSteps(r)

FairSpec == Spec /\ \A k \in Keys : WF_vars(Serve(k))

-----------------------------------------------------------------------------
(***************************************************************************)
(* There is one scheduler for a property, and every engine is with the one *)
(* of its property: the current one if it has been submitted, else once in *)
(* the queue.  A scheduler is active while it has a current transition,    *)
(* and nothing is in the queue of one that is not: the cleanup, which may  *)
(* run at any time, deletes nothing that is needed.                        *)
(***************************************************************************)
EnginesAreHeld ==
  /\ \A i, j \in DOMAIN schedulers : schedulers[i].key = schedulers[j].key => i = j
  /\ \A i \in DOMAIN schedulers :
       LET s == schedulers[i]
       IN  /\ IsActive(s) <=> s.current # NoRequest
           /\ IsActive(s) \/ s.queue = <<>>
           /\ \A n \in DOMAIN s.queue :
                /\ engine[s.queue[n]] = Idle /\ answer[s.queue[n]] = "waiting"
                /\ s.queue[n] # s.current
                /\ \A m \in DOMAIN s.queue : s.queue[m] = s.queue[n] => m = n
  /\ \A r \in Requests :
       engine[r] # NoEngine <=>
         \E i \in DOMAIN schedulers : schedulers[i].key = keyOf[r] /\ Holds(schedulers[i], r)

(***************************************************************************)
(* A transition asks other servers for what they can do: it is connected   *)
(* to the policy server, to the CLE whatever became of the connection of   *)
(* an earlier one, and the policy server's own assertions on its object    *)
(* and on iStep hold for every call that reaches it, though the object     *)
(* outlives transitions that were refused, failed or withdrawn.  There is  *)
(* one exception: an initialisation for which the server had no memory can *)
(* still be cancelled, and there may be no object to cancel it (see        *)
(* Unserved).  It ends with the engine's RunL, which fails.                *)
(***************************************************************************)
MayLackObject(e) == e.next = "ETransitionAllowed" /\ e.status \in {"idle", "KErrNoMemory"}

PolicyStep(e) ==
  {"gone"} \cup
  CASE e.next \in {"ETransitionAllowed", "EPrepareCommandList"} /\ ~MayLackObject(e)
         -> {"EInitialize"}
    [] e.next = "EExecuteCommandList" -> {"EPrepareCommandList"}
    [] e.next = "EWaitForCommandListExecute" -> {"ECallCommandList"}
    [] e.next = "ETransitionComplete" -> {"none"}
    [] OTHER -> Steps

CallsArePossible ==
  \A i \in DOMAIN schedulers :
    LET s == schedulers[i]
        e == engine[s.current]
    IN  s.current # NoRequest =>
          /\ s.step \in PolicyStep(e)
          /\ e.next # "EIdle" => s.policy
          /\ e.next \notin {"EIdle", "EUnConnected", "EWaitForHandleCleReturnValue",
                           "ETransitionComplete"} => s.cle

-----------------------------------------------------------------------------
(***************************************************************************)
(* A message that can no longer be completed: its engine is done.          *)
(***************************************************************************)
Lost(r) ==
  /\ answer[r] = "waiting"
  /\ \A i \in DOMAIN schedulers :
       Holds(schedulers[i], r) =>
         schedulers[i].current = r /\ schedulers[i].status # "KRequestPending"

Line(k) ==
  LET at == {i \in DOMAIN schedulers : schedulers[i].key = k}
      s == schedulers[CHOOSE i \in at : TRUE]
  IN  IF at = {} \/ s.current = NoRequest THEN <<>> ELSE <<s.current>> \o s.queue

Lines == [k \in Keys |-> Line(k)]
Outcomes == [r \in Requests |-> IF Lost(r) THEN "lost" ELSE answer[r]]

Contract == INSTANCE SsmSwpContract WITH line <- Lines, outcome <- Outcomes, stopped <- panicked

(***************************************************************************)
(* Requests for a property are served in the order they came, each is      *)
(* answered at most once, in its turn or when its session cancels, and one *)
(* can be left without an answer only if it found the scheduler idle, as   *)
(* the message is set after the submission that failed.                    *)
(***************************************************************************)
ImplementsContract == Contract!Spec

(***************************************************************************)
(* Every request is answered, unless it is one of those, or the device is  *)
(* reset: whatever is cancelled, queued and refused in front of it.        *)
(***************************************************************************)
RequestsAreAnswered ==
  \A r \in Requests :
    answer[r] = "waiting" ~> (answer[r] # "waiting" \/ Lost(r) \/ panicked)
=============================================================================
