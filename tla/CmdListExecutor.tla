--------------------------- MODULE CmdListExecutor ---------------------------
(***************************************************************************)
(* One command list in the command list execution server (CleSrv), from    *)
(* the moment its executor starts to the deletion of the list:             *)
(*                                                                         *)
(*   CSsmCmdListExecutor      executes the commands one after the other    *)
(*   CSsmCommandListImpl      the list, and its deferred deletion          *)
(*   CSsmDeferrableCommand,   a command that starts a process or an        *)
(*   CCmdStarterBase          application through StartSafe                *)
(*   CCmdMultipleWait         waits for the deferred commands before it    *)
(*   CSsmDeferredDeleter      deletes the list after the last of them      *)
(*                                                                         *)
(* Each is an active object of the server's thread, so that a RunL is one  *)
(* step; the steps of different objects, StartSafe's answers, the timers   *)
(* and the client's cancellation interleave.  The order in which ready     *)
(* objects run is left open, which includes the one their priorities give. *)
(***************************************************************************)
EXTENDS Naturals, Sequences

CONSTANTS
  Lists,    \* the command lists to execute
  Delays    \* whether the list delays each command: a set of Booleans

Kinds == {"ESsmWaitForSignal", "ESsmFireAndForget", "ESsmDeferredWaitForSignal",
          "MultipleWait"}

(***************************************************************************)
(* critical: a severity other than ECmdIgnoreFailure.  condition: what     *)
(* EvaluateCondition returns.  timeout: of a multiple wait.                *)
(***************************************************************************)
Commands == [kind : Kinds, critical : BOOLEAN, condition : BOOLEAN, timeout : BOOLEAN]

ASSUME ListsAssumption == \A l \in Lists : l \in Seq(Commands) /\ Len(l) > 0
ASSUME DelaysAssumption == Delays \subseteq BOOLEAN

VARIABLES
  cmds,        \* the list
  delay,       \* iInterCmdDelay > 0
  index,       \* iCommandIndex of the executor: the commands executed so far
  toggle,      \* iDoDelayToggle
  estatus,     \* iStatus of the executor, "inactive" once it is deleted
  timing,      \* the executor's request is on its delay timer
  execRequest, \* the command whose iExecuteRequest is not NULL, or 0
  completion,  \* iCompletionStatus of each command
  start,       \* iStatus of each command's request to StartSafe, or "idle"
  observer,    \* who is registered for each command's completion
  waitState,   \* iInternalState of each multiple wait, "inactive" if it is
  rest,        \* the commands from iCommandIndex on of each multiple wait
  timers,      \* the multiple waits whose timer is running
  list,        \* "executing", "deferred" to the deleter, or "deleted"
  message      \* what the client has been told

evars == <<index, toggle, estatus, timing, execRequest>>
wvars == <<waitState, rest, timers>>
vars == <<cmds, delay, evars, completion, start, observer, wvars, list, message>>

Index == 1..Len(cmds)
Waits == {j \in Index : cmds[j].kind = "MultipleWait"}
Starters == Index \ Waits

\* CSsmDeferrableCommand::IsDeferred, which the base class makes false of a wait.
IsDeferred(i) ==
  cmds[i].kind \in {"ESsmFireAndForget", "ESsmDeferredWaitForSignal"}

(***************************************************************************)
(* The deferred commands the list constructor hands to a multiple wait:    *)
(* those since the previous one.                                           *)
(***************************************************************************)
DeferredCommands(j) ==
  {i \in 1..(j - 1) : /\ cmds[i].kind = "ESsmDeferredWaitForSignal"
                      /\ \A k \in (i + 1)..(j - 1) : k \notin Waits}

First(S) == CHOOSE i \in S : \A k \in S : i <= k

\* What a start is answered with; KErrCancel also if it cannot be made at all.
Codes == {"KErrNone", "KErrGeneral", "KErrCancel"}
States == {"inactive", "EStateCheckCompletionStatus", "EStateTakeAction",
           "EStateTimerExpired"}

TypeOK ==
  /\ cmds \in Lists /\ delay \in Delays
  /\ index \in 0..Len(cmds)
  /\ toggle \in BOOLEAN /\ timing \in BOOLEAN
  /\ estatus \in Codes \cup {"inactive", "KRequestPending", "KErrTimedOut"}
  /\ execRequest \in 0..Len(cmds)
  /\ completion \in [Index -> Codes \cup {"KRequestPending"}]
  /\ start \in [Index -> Codes \cup {"idle", "KRequestPending"}]
  /\ observer \in [Index -> {"none", "wait", "deleter"}]
  /\ waitState \in [Index -> States]
  /\ rest \in [Index -> SUBSET Index]
  /\ timers \subseteq Waits
  /\ list \in {"executing", "deferred", "deleted"}
  /\ message \in Codes \cup {"open", "KErrTimedOut", "abandoned"}

-----------------------------------------------------------------------------
\* CCleServer::ExecuteCommandListL and CSsmCmdListExecutor::StartL.
Init ==
  /\ cmds \in Lists /\ delay \in Delays
  /\ index = 0
  /\ toggle = delay
  /\ estatus = "KErrNone"
  /\ timing = FALSE
  /\ execRequest = 0
  /\ completion = [i \in Index |-> "KRequestPending"]
  /\ start = [i \in Index |-> "idle"]
  /\ observer = [i \in Index |-> "none"]
  /\ waitState = [i \in Index |-> "inactive"]
  /\ rest = [i \in Index |-> {}]
  /\ timers = {}
  /\ list = "executing"
  /\ message = "open"

-----------------------------------------------------------------------------
(***************************************************************************)
(* CSsmCommandBase::CompleteExecuteRequest: the executor's request is      *)
(* completed if the command still has it.                                  *)
(***************************************************************************)
Reported(i, code) ==
  IF ~cmds[i].critical /\ code # "KErrCancel" THEN "KErrNone" ELSE code

WrongCompleteExecuteRequest(i, code) ==
  /\ execRequest' = IF execRequest = i THEN 0 ELSE execRequest
  /\ UNCHANGED estatus

CompleteExecuteRequest(i, code) ==
  /\ execRequest' = IF execRequest = i THEN 0 ELSE execRequest
  /\ estatus' = IF execRequest = i THEN code ELSE estatus

(***************************************************************************)
(* ExecuteCancel of a set of commands that start something: StartSafe is   *)
(* told, and the observer and the completion status are dealt with by      *)
(* CompleteDeferredExecuteRequest(KErrCancel).                             *)
(***************************************************************************)
CancelCommands(S) ==
  /\ completion' = [i \in Index |-> IF i \in S THEN "KErrCancel" ELSE completion[i]]
  /\ start' = [i \in Index |-> IF i \in S THEN "idle" ELSE start[i]]
  /\ observer' = [i \in Index |-> IF i \in S THEN "none" ELSE observer[i]]

\* What CCmdMultipleWait::Cleanup cancels.
ToCleanUp(j) == {i \in rest[j] : completion[i] = "KRequestPending"}

(***************************************************************************)
(* CSsmCommandListImpl::DeferredDelete, when the commands of S have been   *)
(* cancelled.                                                              *)
(***************************************************************************)
PendingCommands == {i \in Index : IsDeferred(i) /\ completion[i] = "KRequestPending"}

DeferredDelete(S) ==
  list' = IF PendingCommands \ S = {} THEN "deleted" ELSE "deferred"

\* The executor is deleted, its request with it.
DeleteExecutor ==
  /\ estatus' = "inactive"
  /\ timing' = FALSE

-----------------------------------------------------------------------------
(***************************************************************************)
(* CSsmCmdListExecutor::RunL and DoExecute.                                *)
(***************************************************************************)
WrongExecutorRuns == estatus # "inactive"

ExecutorRuns == estatus \notin {"inactive", "KRequestPending"}

WrongUnexecuted == {i \in Starters : i > index + 1}

Unexecuted == {i \in Starters : i > index}

\* An error ends the list: what has not been executed is cancelled.
ListFails ==
  /\ ExecutorRuns /\ estatus # "KErrNone"
  /\ CancelCommands(Unexecuted)
  /\ DeferredDelete(Unexecuted)
  /\ index' = Len(cmds)
  /\ message' = estatus
  /\ DeleteExecutor
  /\ UNCHANGED <<cmds, delay, toggle, execRequest, wvars>>

ListCompletes ==
  /\ ExecutorRuns /\ estatus = "KErrNone"
  /\ index = Len(cmds)
  /\ DeferredDelete({})
  /\ message' = "KErrNone"
  /\ DeleteExecutor
  /\ UNCHANGED <<cmds, delay, index, toggle, execRequest, completion, start, observer,
                 wvars>>

StartDelay ==
  /\ ExecutorRuns /\ estatus = "KErrNone"
  /\ index < Len(cmds)
  /\ delay /\ toggle
  /\ toggle' = FALSE
  /\ timing' = TRUE
  /\ estatus' = "KRequestPending"
  /\ UNCHANGED <<cmds, delay, index, execRequest, completion, start, observer, wvars,
                 list, message>>

DelayOver ==
  /\ timing
  /\ timing' = FALSE
  /\ estatus' = "KErrNone"
  /\ UNCHANGED <<cmds, delay, index, toggle, execRequest, completion, start, observer,
                 wvars, list, message>>

\* The executor turns to the next command, index' = i.
ExecuteNext(i) ==
  /\ ExecutorRuns /\ estatus = "KErrNone"
  /\ i = index + 1
  /\ delay => ~toggle
  /\ index' = i
  /\ toggle' = delay
  /\ UNCHANGED <<cmds, delay, timing, observer, timers, list, message>>

\* A condition that is false: the command counts as completed.
SkipCommand(i) ==
  /\ ~cmds[i].condition
  /\ ExecuteNext(i)
  /\ completion' = IF i \in Starters THEN [completion EXCEPT ![i] = "KErrNone"]
                                  ELSE completion
  /\ estatus' = "KErrNone"
  /\ UNCHANGED <<execRequest, start, waitState, rest>>

\* CCmdStarterBase::Execute.
ExecuteStarter(i) ==
  /\ i \in Starters /\ cmds[i].condition
  /\ ExecuteNext(i)
  /\ start' = [start EXCEPT ![i] = "KRequestPending"]
  /\ IF cmds[i].kind = "ESsmDeferredWaitForSignal"
     THEN estatus' = "KErrNone" /\ execRequest' = 0
     ELSE estatus' = "KRequestPending" /\ execRequest' = i
  /\ UNCHANGED <<completion, waitState, rest>>

\* CCmdMultipleWait::Execute.
ExecuteMultipleWait(j) ==
  /\ j \in Waits /\ cmds[j].condition
  /\ ExecuteNext(j)
  /\ IF DeferredCommands(j) = {}
     THEN /\ estatus' = "KErrNone" /\ execRequest' = 0
          /\ UNCHANGED <<waitState, rest>>
     ELSE /\ estatus' = "KRequestPending" /\ execRequest' = j
          /\ rest' = [rest EXCEPT ![j] = DeferredCommands(j)]
          /\ waitState' = [waitState EXCEPT ![j] = "EStateCheckCompletionStatus"]
  /\ UNCHANGED <<completion, start>>

-----------------------------------------------------------------------------
(***************************************************************************)
(* CCmdStarterBase::RunL and RunError, once StartSafe has answered.        *)
(***************************************************************************)
StartSafeAnswers(i, code) ==
  /\ list # "deleted"
  /\ start[i] = "KRequestPending"
  /\ start' = [start EXCEPT ![i] = code]
  /\ UNCHANGED <<cmds, delay, evars, completion, observer, wvars, list, message>>

CompleteDeferredExecuteRequest(i) ==
  /\ list # "deleted"
  /\ start[i] \in Codes
  /\ start' = [start EXCEPT ![i] = "idle"]
  /\ observer' = [observer EXCEPT ![i] = "none"]
  /\ completion' = [completion EXCEPT ![i] = Reported(i, start[i])]
  /\ IF cmds[i].kind # "ESsmDeferredWaitForSignal"
     THEN CompleteExecuteRequest(i, Reported(i, start[i]))
     ELSE UNCHANGED <<execRequest, estatus>>
  /\ UNCHANGED <<cmds, delay, index, toggle, timing, wvars, list, message>>

-----------------------------------------------------------------------------
(***************************************************************************)
(* CCmdMultipleWait::RunL.  Its request is pending exactly while it is     *)
(* registered for the completion of a command.                             *)
(***************************************************************************)
WaitRuns(j, state) ==
  /\ list # "deleted"
  /\ waitState[j] = state
  /\ \A i \in rest[j] : observer[i] # "wait"

WrongFailed(i) == cmds[i].critical /\ completion[i] = "KErrCancel"

Failed(i) == cmds[i].critical /\ completion[i] \notin {"KErrNone", "KRequestPending"}

\* A critical command has failed: the others are cancelled and the wait ends.
GiveUp(j, i, next) ==
  /\ CancelCommands(ToCleanUp(j))
  /\ rest' = [rest EXCEPT ![j] = {}]
  /\ waitState' = [waitState EXCEPT ![j] = next]
  /\ CompleteExecuteRequest(j, completion[i])
  /\ UNCHANGED timers

\* The commands CheckCompletion does not pass: pending ones, and failures.
WrongStops(j) == {i \in rest[j] : completion[i] = "KRequestPending"}

Stops(j) == {i \in rest[j] : completion[i] = "KRequestPending" \/ Failed(i)}

CheckCompletion(j) ==
  /\ WaitRuns(j, "EStateCheckCompletionStatus")
  /\ UNCHANGED <<cmds, delay, index, toggle, timing, list, message>>
  /\ \/ /\ Stops(j) = {}
        /\ CompleteExecuteRequest(j, "KErrNone")
        /\ rest' = [rest EXCEPT ![j] = {}]
        /\ waitState' = [waitState EXCEPT ![j] = "inactive"]
        /\ UNCHANGED <<completion, start, observer, timers>>
     \/ /\ Stops(j) # {} /\ completion[First(Stops(j))] = "KRequestPending"
        /\ LET i == First(Stops(j))
           IN  /\ rest' = [rest EXCEPT ![j] = {k \in @ : k >= i}]
               /\ observer' = [observer EXCEPT ![i] = "wait"]
        /\ waitState' = [waitState EXCEPT ![j] = "EStateTakeAction"]
        /\ timers' = IF cmds[j].timeout THEN timers \cup {j} ELSE timers
        /\ UNCHANGED <<completion, start, execRequest, estatus>>
     \/ /\ Stops(j) # {} /\ Failed(First(Stops(j)))
        /\ GiveUp(j, First(Stops(j)), "inactive")

TakeAction(j) ==
  /\ WaitRuns(j, "EStateTakeAction")
  /\ LET i == First(rest[j])
     IN  \/ /\ Failed(i)
            /\ GiveUp(j, i, "EStateCheckCompletionStatus")
         \/ /\ ~Failed(i)
            /\ rest' = [rest EXCEPT ![j] = @ \ {i}]
            /\ waitState' = [waitState EXCEPT ![j] = "EStateCheckCompletionStatus"]
            /\ UNCHANGED <<completion, start, observer, execRequest, estatus, timers>>
  /\ UNCHANGED <<cmds, delay, index, toggle, timing, list, message>>

TimerExpired(j) ==
  /\ WaitRuns(j, "EStateTimerExpired")
  /\ waitState' = [waitState EXCEPT ![j] = "inactive"]
  /\ CompleteExecuteRequest(j, "KErrTimedOut")
  /\ UNCHANGED <<cmds, delay, index, toggle, timing, completion, start, observer, rest,
                 timers, list, message>>

\* The timer is not stopped when the wait ends, and may run out at any time.
HandleTimeoutCallback(j) ==
  /\ list # "deleted"
  /\ j \in timers
  /\ timers' = timers \ {j}
  /\ CancelCommands(ToCleanUp(j))
  /\ rest' = [rest EXCEPT ![j] = {}]
  /\ waitState' = IF waitState[j] = "inactive" THEN waitState
                  ELSE [waitState EXCEPT ![j] = "EStateTimerExpired"]
  /\ UNCHANGED <<cmds, delay, evars, list, message>>

-----------------------------------------------------------------------------
(***************************************************************************)
(* CCleServer deletes an executor that is active: on the client's cancel,  *)
(* whose message it completes, or when the session ends.  The executor's   *)
(* DoCancel cancels the current command and gives the list up.             *)
(***************************************************************************)
WrongCurrentCommand == IF index = Len(cmds) THEN index ELSE index + 1

CurrentCommand == IF index = 0 THEN 1 ELSE index

CancelExecutor ==
  LET j == CurrentCommand
      stopped == IF j \in Waits THEN ToCleanUp(j) ELSE {j}
  IN  /\ estatus # "inactive"
      /\ CancelCommands(stopped)
      /\ DeferredDelete(stopped)
      /\ rest' = [rest EXCEPT ![j] = {}]
      /\ waitState' = [waitState EXCEPT ![j] = "inactive"]
      /\ execRequest' = IF execRequest = j THEN 0 ELSE execRequest
      /\ DeleteExecutor
      /\ UNCHANGED <<cmds, delay, index, toggle, timers>>

ExecuteCommandListCancel == CancelExecutor /\ message' = "KErrCancel"

DeregisterSession == CancelExecutor /\ message' = "abandoned"

-----------------------------------------------------------------------------
(***************************************************************************)
(* CSsmDeferredDeleter::RunL.                                              *)
(***************************************************************************)
DeleterRuns == list = "deferred" /\ \A i \in Index : observer[i] # "deleter"

DeleterRegisters ==
  /\ DeleterRuns
  /\ PendingCommands # {}
  /\ observer' = [observer EXCEPT ![First(PendingCommands)] = "deleter"]
  /\ UNCHANGED <<cmds, delay, evars, completion, start, wvars, list, message>>

DeleterDeletes ==
  /\ DeleterRuns
  /\ PendingCommands = {}
  /\ list' = "deleted"
  /\ UNCHANGED <<cmds, delay, evars, completion, start, observer, wvars, message>>

-----------------------------------------------------------------------------
ExecutorStep ==
  \/ ListFails \/ ListCompletes \/ StartDelay \/ DelayOver
  \/ \E i \in Index : SkipCommand(i) \/ ExecuteStarter(i) \/ ExecuteMultipleWait(i)

StarterRuns(i) == i \in Starters /\ CompleteDeferredExecuteRequest(i)

StartSafeStep(i) == i \in Starters /\ \E code \in Codes : StartSafeAnswers(i, code)

WaitStep(j) == j \in Waits /\ (CheckCompletion(j) \/ TakeAction(j) \/ TimerExpired(j))

TimerStep(j) == j \in Waits /\ HandleTimeoutCallback(j)

DeleterStep == DeleterRegisters \/ DeleterDeletes

Next ==
  \/ ExecutorStep
  \/ \E i \in Index : StarterRuns(i)
  \/ \E i \in Index : StartSafeStep(i)
  \/ \E j \in Index : WaitStep(j)
  \/ \E j \in Index : TimerStep(j)
  \/ ExecuteCommandListCancel \/ DeregisterSession
  \/ DeleterStep

Spec == Init /\ [][Next]_vars

(***************************************************************************)
(* Fairness.  The active scheduler runs every ready object and every timer *)
(* goes off.  StartSafe answers, except that a process awaited by a wait   *)
(* with a timeout may never signal.                                        *)
(***************************************************************************)
Positions == UNION {1..Len(l) : l \in Lists}

Timed(i) ==
  \E j \in Waits : i \in DeferredCommands(j) /\ cmds[j].condition /\ cmds[j].timeout

Fairness ==
  /\ WF_vars(ExecutorStep)
  /\ WF_vars(DeleterStep)
  /\ \A i \in Positions :
       /\ WF_vars(i \in Index /\ StarterRuns(i))
       /\ WF_vars(i \in Index /\ WaitStep(i))
       /\ WF_vars(i \in Index /\ TimerStep(i))
       /\ WF_vars(i \in Index /\ ~Timed(i) /\ StartSafeStep(i))

FairSpec == Spec /\ Fairness

-----------------------------------------------------------------------------
(***************************************************************************)
(* Cancelling the executor cannot hang.  CActive::Cancel waits for the     *)
(* executor's request, and DoCancel stops the delay timer and cancels the  *)
(* current command only: while the request is pending it is on the timer   *)
(* or with the current command.                                            *)
(***************************************************************************)
CancelNeverHangs ==
  estatus = "KRequestPending" /\ ~timing => execRequest = CurrentCommand

(***************************************************************************)
(* A command's completion has one observer: neither a multiple wait nor    *)
(* the deferred deleter registers with a command the other is registered   *)
(* with, which RegisterCompletionObserver asserts.                         *)
(***************************************************************************)
OneObserver ==
  [][\A i \in Index : observer'[i] # observer[i] => "none" \in {observer[i], observer'[i]}]_vars

(***************************************************************************)
(* Nothing refers to what is deleted.  Once the executor is gone no        *)
(* command has its request; once the list is gone no command is still with *)
(* StartSafe, none has an observer, and the destructor of a multiple wait, *)
(* which runs after those of the commands it waits for, has none to clean  *)
(* up.                                                                     *)
(***************************************************************************)
NothingDangles ==
  /\ estatus = "inactive" => execRequest = 0
  /\ list = "deleted" =>
       \A i \in Index : start[i] = "idle" /\ observer[i] = "none" /\ rest[i] = {}

\* Commands that hold up what follows position i of the list.
Awaited(i) ==
  {k \in Starters : k < i /\ cmds[k].kind # "ESsmDeferredWaitForSignal"}
    \cup UNION {DeferredCommands(j) : j \in {w \in Waits : w < i /\ cmds[w].condition}}

Succeeded(k) ==
  IF cmds[k].critical THEN completion[k] = "KErrNone" ELSE completion[k] # "KRequestPending"

(***************************************************************************)
(* A command is started only when every command the list waits for before  *)
(* it has completed, the critical ones without an error, whatever the      *)
(* answers, timeouts and cancellations in between.                         *)
(***************************************************************************)
InOrder ==
  \A i \in Starters : start[i] # "idle" => \A k \in Awaited(i) : Succeeded(k)

(***************************************************************************)
(* The client is told KErrNone only if every command the list waits for    *)
(* has completed, the critical ones without an error.                      *)
(***************************************************************************)
SuccessMeansDone ==
  message = "KErrNone" => \A k \in Awaited(Len(cmds) + 1) : Succeeded(k)

(***************************************************************************)
(* The client of every list is answered, even if a process that a timed    *)
(* wait waits for never signals.                                           *)
(***************************************************************************)
ListAnswered == <>(message # "open")

(***************************************************************************)
(* If StartSafe answers every request, a list that ended with a result is  *)
(* deleted in the end.                                                     *)
(***************************************************************************)
Answering == \A i \in Positions : WF_vars(i \in Index /\ StartSafeStep(i))

ListDisposed ==
  Answering => (message \in {"KErrNone", "KErrGeneral", "KErrTimedOut"} ~> list = "deleted")

(***************************************************************************)
(* The comment on CSsmCmdListExecutor::DoCancel, "Cancel the current       *)
(* command. Dispose of iCommandList.": a list whose executor is cancelled  *)
(* is deleted in the end, too.                                             *)
(***************************************************************************)
CancelDisposes ==
  Answering => (message \in {"KErrCancel", "abandoned"} ~> list = "deleted")
=============================================================================
