----------------------------- MODULE SsmStartSafe -----------------------------
(***************************************************************************)
(* StartSafe (CSsmStartSafe), which starts processes and applications for  *)
(* the commands of one session of the command list server, and the         *)
(* commands that call it:                                                  *)
(*                                                                         *)
(*   CSsmStartSafe            the array of callers                         *)
(*   CStartAndRetry,          starts the process of one caller, again if   *)
(*   CRvObserver              it fails, and waits for its rendezvous       *)
(*   CFireAndForget           does so for a caller that does not wait      *)
(*   CTimeoutWaiter           ends the wait                                *)
(*   CCmdStarterBase          the command: starts, cancels, is answered    *)
(*                                                                         *)
(* All are active objects of the server's thread, and a RunL is one step;  *)
(* the processes that are started run beside it.  A caller's name is taken *)
(* by a new command object when the old one is done.  Indices of the array *)
(* count from one here: 1 is the zero of a new command, and 0 stands for   *)
(* the values out of range (KErrNotFound, KErrArgument, KSsNegValue).      *)
(***************************************************************************)
EXTENDS Integers, Sequences, FiniteSets

CONSTANTS
  Callers,
  Nobody,             \* a NULL pointer to a caller
  StartupProperties   \* what the commands of each name ask for

(***************************************************************************)
(* forget: ESsmFireAndForget, otherwise the command waits for the signal.  *)
(* app: ESsmCmdStartApp, otherwise ESsmCmdStartProcess.  timeout: it is    *)
(* greater than KSsmStartSafeNoTimeout.                                    *)
(***************************************************************************)
AllProperties == [forget : BOOLEAN, app : BOOLEAN, timeout : BOOLEAN, retries : Nat]

ASSUME CallersAssumption == Nobody \notin Callers /\ IsFiniteSet(Callers)
ASSUME PropertiesAssumption == StartupProperties \in [Callers -> SUBSET AllProperties]

VARIABLES
  command,      \* whether each command object is active
  status,       \* its iStatus
  callerIndex,  \* its iCallerIndex
  entries,      \* iStartSafeEntryArray
  callerCount,  \* iCallerCount
  starter,      \* the CRvObserver or CFireAndForget that works for it
  process,      \* the process of iProcess
  deleted       \* the session is closed, and its StartSafe with it

svars == <<entries, callerCount, deleted>>
vars == <<command, status, callerIndex, svars, starter, process>>

Failures == {"KErrGeneral"}            \* any other error, a time out included
Answers == {"KErrNone", "KErrCancel"} \cup Failures
Entries == [inUse : BOOLEAN, starter : Callers \cup {Nobody}, callerTrs : Callers \cup {Nobody}]

(***************************************************************************)
(* forget, app: of its CSsmStartupProperties.  phase: in "notInvoked" and  *)
(* "signalled" its request has completed, with code, and RunL is to run.   *)
(* timer: "none" if it has no CTimeoutWaiter.  index: iCallerIndex.        *)
(***************************************************************************)
Starters == [forget : BOOLEAN,
             app : BOOLEAN,
             phase : {"none", "notInvoked", "awaiting", "signalled"},
             code : {"KErrNone"} \cup Failures,
             retries : Nat,
             timer : {"none", "idle", "running"},
             index : Nat]

NoStarter == [forget |-> FALSE, app |-> FALSE, phase |-> "none", code |-> "KErrNone",
              retries |-> 0, timer |-> "none", index |-> 0]

TypeOK ==
  /\ command \in [Callers -> {"idle", "executing", "hung"}]
  /\ status \in [Callers -> Answers \cup {"idle", "KRequestPending"}]
  /\ callerIndex \in [Callers -> Nat]
  /\ entries \in Seq(Entries)
  /\ callerCount \in Nat
  /\ starter \in [Callers -> Starters]
  /\ process \in [Callers -> {"none", "started", "ready", "exited", "panicked"}]
  /\ deleted \in BOOLEAN

Init ==
  /\ command = [c \in Callers |-> "idle"]
  /\ status = [c \in Callers |-> "idle"]
  /\ callerIndex = [c \in Callers |-> 1]
  /\ entries = <<>>
  /\ callerCount = 0
  /\ starter = [c \in Callers |-> NoStarter]
  /\ process = [c \in Callers |-> "none"]
  /\ deleted = FALSE

-----------------------------------------------------------------------------
(***************************************************************************)
(* The array of callers.                                                   *)
(***************************************************************************)
Unused == [inUse |-> FALSE, starter |-> Nobody, callerTrs |-> Nobody]
InUse(array) == {i \in DOMAIN array : array[i].inUse}
Free == DOMAIN entries \ InUse(entries)

WrongRegisterIndex == callerCount + 1

\* The index RegisterCall gives: of the first entry not in use, or of a new one.
RegisterIndex ==
  IF Free = {} THEN callerCount + 1
  ELSE CHOOSE i \in Free : \A k \in Free : i <= k

\* RegisterCall, and the CStartAndRetry that Start then creates for the entry.
Registered(c, s) ==
  LET entry == [inUse |-> TRUE, starter |-> s, callerTrs |-> c]
  IN  IF Free = {} THEN Append(entries, entry)
      ELSE [entries EXCEPT ![RegisterIndex] = entry]

\* DeRegisterCall of entry i: it is freed, and unused ones are removed from the end.
Trim(array) ==
  LET used == InUse(array)
  IN  SubSeq(array, 1, IF used = {} THEN 0 ELSE CHOOSE i \in used : \A k \in used : k <= i)

WrongDeRegistered(array, i) == SubSeq(array, 1, Len(array) - 1)

DeRegistered(array, i) == Trim([array EXCEPT ![i] = Unused])

-----------------------------------------------------------------------------
(***************************************************************************)
(* CCmdStarterBase::Execute: the command calls Start.                      *)
(***************************************************************************)
Executes(c) ==
  /\ command[c] = "idle" /\ ~deleted
  /\ starter[c] = NoStarter
  /\ command' = [command EXCEPT ![c] = "executing"]

\* The observer of properties p before its first RunL, with its timer allocated.
NewStarter(p, i) ==
  [forget |-> p.forget, app |-> p.app, phase |-> "notInvoked", code |-> "KErrNone",
   retries |-> p.retries, timer |-> IF p.timeout THEN "idle" ELSE "none", index |-> i]

\* CFireAndForget is on its own: the caller is answered, and has no entry.
StartFireAndForget(c, p) ==
  /\ Executes(c) /\ p.forget
  /\ status' = [status EXCEPT ![c] = "KErrNone"]
  /\ starter' = [starter EXCEPT ![c] = NewStarter(p, 0)]
  /\ UNCHANGED <<callerIndex, svars, process>>

FireAndForgetFails(c, p) ==
  /\ Executes(c) /\ p.forget
  /\ status' = [status EXCEPT ![c] = "KErrGeneral"]
  /\ UNCHANGED <<callerIndex, svars, starter, process>>

StartAndRetry(c, p) ==
  /\ Executes(c) /\ ~p.forget
  /\ status' = [status EXCEPT ![c] = "KRequestPending"]
  /\ callerIndex' = [callerIndex EXCEPT ![c] = RegisterIndex]
  /\ entries' = Registered(c, c)
  /\ callerCount' = callerCount + 1
  /\ starter' = [starter EXCEPT ![c] = NewStarter(p, RegisterIndex)]
  /\ UNCHANGED <<process, deleted>>

\* A new entry cannot be allocated.
RegisterFails(c, p) ==
  /\ Executes(c) /\ ~p.forget
  /\ Free = {}
  /\ status' = [status EXCEPT ![c] = "KErrGeneral"]
  /\ callerIndex' = [callerIndex EXCEPT ![c] = 0]
  /\ UNCHANGED <<svars, starter, process>>

(***************************************************************************)
(* The entry is made, and given up before the observer is active:          *)
(* CStartAndRetry::NewL leaves, and DeRegisterCall answers; or Actuate     *)
(* does, as there is no memory for the timer, or nothing to start          *)
(* applications with, and RendezvousComplete answers.                      *)
(***************************************************************************)
StartFails(c, p, code) ==
  /\ Executes(c) /\ ~p.forget
  /\ code \in IF p.timeout \/ p.app THEN {"KErrCancel", "KErrGeneral"} ELSE {"KErrCancel"}
  /\ status' = [status EXCEPT ![c] = code]
  /\ callerIndex' = [callerIndex EXCEPT ![c] = RegisterIndex]
  /\ entries' = DeRegistered(Registered(c, Nobody), RegisterIndex)
  /\ UNCHANGED <<callerCount, starter, process, deleted>>

Start(c, p) ==
  \/ StartFireAndForget(c, p) \/ FireAndForgetFails(c, p)
  \/ StartAndRetry(c, p) \/ RegisterFails(c, p)
  \/ \E code \in {"KErrCancel", "KErrGeneral"} : StartFails(c, p, code)

-----------------------------------------------------------------------------
(***************************************************************************)
(* What CRvObserver and CFireAndForget have in common.  InvokeL starts the *)
(* process, and the timer if it is not running: what it makes of a starter *)
(* whose process is started, or is not.                                    *)
(***************************************************************************)
WrongTimed(s) == s

Timed(s) == [s EXCEPT !.timer = IF @ = "none" THEN "none" ELSE "running"]

\* A process that asks for no memory at its rendezvous is never resumed.
InvokeL(c, s) ==
  \/ /\ starter' = [starter EXCEPT ![c] = [Timed(s) EXCEPT !.phase = "awaiting"]]
     /\ process' = [process EXCEPT ![c] = "started"]
  \/ /\ starter' = [starter EXCEPT ![c] =
                       [Timed(s) EXCEPT !.phase = "signalled", !.code = "KErrGeneral"]]
     /\ process' = [process EXCEPT ![c] = IF s.app THEN "none" ELSE "started"]
  \/ /\ ~s.app
     /\ starter' = [starter EXCEPT ![c] =
                       [s EXCEPT !.phase = "signalled", !.code = "KErrGeneral"]]
     /\ process' = [process EXCEPT ![c] = "none"]

\* GetProcessHandle finds the process of an application by its thread.
HasHandle(c) == starter[c].app => process[c] \in {"started", "ready"}

GoodStart(c) ==
  /\ starter[c].code = "KErrNone"
  /\ HasHandle(c)
  /\ process[c] # "panicked"

WrongProcessAfter(c) == process[c]

\* It terminates a process that reported an error.
ProcessAfter(c) ==
  IF starter[c].code # "KErrNone" /\ process[c] \in {"started", "ready"} THEN "none" ELSE process[c]

\* iStatus after GoodStart: a panic may have looked like KErrNone.
Code(c) ==
  IF HasHandle(c) /\ process[c] = "panicked" THEN "KErrGeneral" ELSE starter[c].code

WrongRetriesLeft(c) == starter[c].retries >= 0

\* iRetries is taken down before it is looked at, and iTimeOut makes no difference.
RetriesLeft(c) == starter[c].retries > 0

\* RunL: the first attempt, or another after a failure.
Invoked(c) ==
  /\ starter[c].phase = "notInvoked"
  /\ InvokeL(c, starter[c])
  /\ UNCHANGED <<command, status, callerIndex, svars>>

Retried(c) ==
  /\ starter[c].phase = "signalled" /\ ~GoodStart(c) /\ RetriesLeft(c)
  /\ InvokeL(c, [starter[c] EXCEPT !.retries = @ - 1, !.code = "KErrNone"])
  /\ UNCHANGED <<command, status, callerIndex, svars>>

Finished(c) ==
  /\ starter[c].phase = "signalled"
  /\ GoodStart(c) \/ ~RetriesLeft(c)

(***************************************************************************)
(* The request of entry i is completed with code, its starter deleted, and *)
(* the entry freed.  In RendezvousComplete that is the starter that calls: *)
(* it is not active, so that its destructor completes nothing.  In         *)
(* StartCancel it is active, and its DoCancel completes the request.       *)
(***************************************************************************)
Complete(i, code) == [status EXCEPT ![entries[i].callerTrs] = code]

DeRegisterCall(i) ==
  /\ starter' = [starter EXCEPT ![entries[i].starter] = NoStarter]
  /\ entries' = DeRegistered(entries, i)
  /\ callerCount' = callerCount - 1
  /\ UNCHANGED deleted

RendezvousComplete(c) ==
  /\ Finished(c) /\ ~starter[c].forget
  /\ status' = Complete(starter[c].index, Code(c))
  /\ DeRegisterCall(starter[c].index)
  /\ process' = [process EXCEPT ![c] = ProcessAfter(c)]
  /\ UNCHANGED <<command, callerIndex>>

\* CFireAndForget deletes itself, its process handle too.
Forget(c) ==
  /\ starter' = [starter EXCEPT ![c] = NoStarter]
  /\ process' = [process EXCEPT ![c] = "none"]
  /\ UNCHANGED <<command, status, callerIndex, svars>>

FireAndForgetEnds(c) == Finished(c) /\ starter[c].forget /\ Forget(c)

\* No memory for its timer, or nothing to start applications with: RunError.
FireAndForgetLeaves(c) ==
  /\ starter[c].forget /\ starter[c].phase = "notInvoked"
  /\ starter[c].timer # "none" \/ starter[c].app
  /\ Forget(c)

StarterRuns(c) ==
  \/ Invoked(c) \/ Retried(c) \/ RendezvousComplete(c)
  \/ FireAndForgetEnds(c) \/ FireAndForgetLeaves(c)

(***************************************************************************)
(* The timer.  It is behind its observer among the active objects, and     *)
(* runs only while that waits; but what it terminates may have signalled   *)
(* in the meantime: code is what the process completed the request with.   *)
(***************************************************************************)
TimerExpires(c) == starter[c].phase = "awaiting" /\ starter[c].timer = "running"

NotifyTimeout(c, code) ==
  /\ TimerExpires(c) /\ ~starter[c].forget
  /\ starter' = [starter EXCEPT ![c] =
                   [@ EXCEPT !.phase = "signalled", !.code = code, !.timer = "idle"]]
  /\ process' = [process EXCEPT ![c] = "exited"]
  /\ UNCHANGED <<command, status, callerIndex, svars>>

NotifyTimeoutForget(c) == TimerExpires(c) /\ starter[c].forget /\ Forget(c)

\* The process rendezvouses or ends; it may still end after the former.
ProcessSignals(c, p, code) ==
  /\ starter[c].phase = "awaiting"
  /\ starter' = [starter EXCEPT ![c] = [@ EXCEPT !.phase = "signalled", !.code = code]]
  /\ process' = [process EXCEPT ![c] = p]
  /\ UNCHANGED <<command, status, callerIndex, svars>>

ProcessEnds(c, p) ==
  /\ starter[c].phase = "signalled" /\ process[c] = "ready" /\ p # "ready"
  /\ process' = [process EXCEPT ![c] = p]
  /\ UNCHANGED <<command, status, callerIndex, svars, starter>>

-----------------------------------------------------------------------------
(***************************************************************************)
(* The command is done: another one takes the caller's name.               *)
(***************************************************************************)
CommandEnds(c) ==
  /\ command' = [command EXCEPT ![c] = "idle"]
  /\ callerIndex' = [callerIndex EXCEPT ![c] = 1]
  /\ process' = [process EXCEPT ![c] = IF starter[c].forget THEN @ ELSE "none"]

CommandRunL(c) ==
  /\ command[c] = "executing" /\ status[c] # "KRequestPending"
  /\ CommandEnds(c)
  /\ status' = [status EXCEPT ![c] = "idle"]
  /\ UNCHANGED <<svars, starter>>

\* What an active observer completes the request of its caller with.  An error of
\* RendezvousCancel, if the rendezvous has come already, counts as KErrCancel.
CancellationCode(c) == IF HasHandle(c) THEN "KErrCancel" ELSE "KErrGeneral"

(***************************************************************************)
(* ExecuteCancel, and the destructor: CActive::Cancel calls StartCancel    *)
(* with the command's index while it is active, answered or not, and waits *)
(* for its request.                                                        *)
(***************************************************************************)
Cancels(c) == command[c] = "executing" /\ ~deleted

CancelEntry(c, i) ==
  /\ Cancels(c)
  /\ i = callerIndex[c] /\ i \in InUse(entries)
  /\ DeRegisterCall(i)
  /\ LET after == Complete(i, CancellationCode(entries[i].starter))
     IN  IF after[c] # "KRequestPending"
         THEN CommandEnds(c) /\ status' = [after EXCEPT ![c] = "idle"]
         ELSE /\ command' = [command EXCEPT ![c] = "hung"]
              /\ status' = after
              /\ UNCHANGED <<callerIndex, process>>

CancelNothing(c) ==
  /\ Cancels(c)
  /\ callerIndex[c] \notin InUse(entries)
  /\ IF status[c] # "KRequestPending"
     THEN CommandEnds(c) /\ status' = [status EXCEPT ![c] = "idle"]
     ELSE /\ command' = [command EXCEPT ![c] = "hung"]
          /\ UNCHANGED <<status, callerIndex, process>>
  /\ UNCHANGED <<svars, starter>>

StartCancel(c) == CancelNothing(c) \/ \E i \in DOMAIN entries : CancelEntry(c, i)

(***************************************************************************)
(* The session is closed after its executor, and deletes StartSafe, whose  *)
(* destructor deregisters every call.  Deferred commands may be left.      *)
(***************************************************************************)
DeleteStartSafe ==
  /\ ~deleted
  /\ deleted' = TRUE
  /\ status' = [c \in Callers |->
                  IF \E i \in InUse(entries) : entries[i].callerTrs = c
                  THEN CancellationCode(c) ELSE status[c]]
  /\ starter' = [c \in Callers |->
                  IF \E i \in InUse(entries) : entries[i].starter = c
                  THEN NoStarter ELSE starter[c]]
  /\ entries' = <<>>
  /\ callerCount' = callerCount - Cardinality(InUse(entries))
  /\ UNCHANGED <<command, callerIndex, process>>
-----------------------------------------------------------------------------
ProcessStep(c) ==
  \/ \E p \in {"ready", "exited", "panicked"}, code \in {"KErrNone", "KErrGeneral"} :
       ProcessSignals(c, p, code)
  \/ \E p \in {"exited", "panicked"} : ProcessEnds(c, p)

TimerRunL(c) ==
  \/ \E code \in {"KErrNone", "KErrGeneral"} : NotifyTimeout(c, code)
  \/ NotifyTimeoutForget(c)

Next ==
  \/ \E c \in Callers : \/ \E p \in StartupProperties[c] : Start(c, p)
                        \/ StarterRuns(c) \/ TimerRunL(c) \/ ProcessStep(c)
                        \/ CommandRunL(c) \/ StartCancel(c)
  \/ DeleteStartSafe

Spec == Init /\ [][Next]_vars

(***************************************************************************)
(* Fairness.  The observer of a start that has a time out runs when it is  *)
(* ready, and its timer goes off.  Nothing is asked of the other starts,   *)
(* of the processes, or of who executes and cancels.                       *)
(***************************************************************************)
MayTimeOut == {c \in Callers : \E p \in StartupProperties[c] : p.timeout}

FairSpec == Spec /\ \A c \in MayTimeOut : WF_vars(StarterRuns(c)) /\ WF_vars(TimerRunL(c))

-----------------------------------------------------------------------------
(***************************************************************************)
(* The entries in use are those of the commands that wait for an answer,   *)
(* and each has an observer at work that knows its place; iCallerCount is  *)
(* their number, on which the place of a new entry rests.  So              *)
(* CActive::Cancel of a command reaches the request it waits for and       *)
(* returns, and nothing is left for a deleted StartSafe to answer.         *)
(***************************************************************************)
EntriesAreCallers ==
  LET waiting == {c \in Callers : command[c] = "executing" /\ status[c] = "KRequestPending"}
      observed == {c \in Callers : starter[c].phase # "none" /\ ~starter[c].forget}
  IN  /\ InUse(entries) = {callerIndex[c] : c \in waiting}
      /\ observed = waiting
      /\ \A c \in waiting :
           /\ entries[callerIndex[c]].callerTrs = c
           /\ entries[callerIndex[c]].starter = c
           /\ starter[c].index = callerIndex[c]
      /\ callerCount = Cardinality(InUse(entries))
      /\ entries # <<>> => Len(entries) \in InUse(entries)
      /\ deleted => entries = <<>>
      /\ \A c \in Callers : command[c] # "hung"

(***************************************************************************)
(* A start that fails has terminated its process, whichever attempt it was *)
(* and whatever it was waiting for.                                        *)
(***************************************************************************)
FailureLeavesNoProcess ==
  \A c \in Callers :
    command[c] = "executing" /\ status[c] = "KErrGeneral"
      => process[c] \notin {"started", "ready"} \/ starter[c].forget \/ deleted

(***************************************************************************)
(* A command's start is answered on behalf of another command only when    *)
(* that one cancels after its own answer and before its RunL, or when the  *)
(* session goes: the index of an answered start is not valid any more.     *)
(***************************************************************************)
CancelSparesPending ==
  [][\A c \in Callers :
       status[c] = "KRequestPending" /\ status'[c] \in {"KErrCancel", "KErrGeneral"}
         => \/ starter[c].phase = "signalled" /\ ~GoodStart(c) /\ starter[c].retries = 0
            \/ deleted'
            \/ \E d \in Callers : /\ command[d] = "executing" /\ command'[d] = "idle"
                                 /\ status[d] # "KRequestPending"]_vars

\* Every start with a time out comes to an end, answered if there is a caller.
TimedStartsEnd ==
  \A c \in MayTimeOut : starter[c].timer # "none" ~> starter[c].timer = "none"
=============================================================================
