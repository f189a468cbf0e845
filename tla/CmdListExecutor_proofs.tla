----------------------- MODULE CmdListExecutor_proofs -----------------------
(***************************************************************************)
(* Theorems about the execution of a command list, for every set of lists: *)
(* cancelling the executor cannot hang, nothing refers to what is deleted, *)
(* a command has one observer, commands are started in order, and the      *)
(* client is told of success only when the list is done.                   *)
(***************************************************************************)
EXTENDS CmdListExecutor, NaturalSets, TLAPS

(***************************************************************************)
(* Where the executor's request is: with the command it executes, with the *)
(* timer, or completed.                                                    *)
(***************************************************************************)
RequestHeld ==
  /\ execRequest # 0 => /\ estatus = "KRequestPending" /\ ~timing
                        /\ execRequest = index
  /\ estatus = "KRequestPending" /\ ~timing => execRequest # 0
  /\ timing => estatus = "KRequestPending"

(***************************************************************************)
(* A start that is not idle belongs to a command that has been executed    *)
(* and is pending, and that is deferred or holds the executor's request.   *)
(* What the executor has not reached is pending.                           *)
(***************************************************************************)
StartsPending ==
  \A i \in Starters :
    /\ start[i] # "idle" => /\ i <= index
                            /\ completion[i] = "KRequestPending"
                            /\ IsDeferred(i) \/ execRequest = i
    /\ estatus # "inactive" /\ i > index => completion[i] = "KRequestPending"

\* Multiple waits start nothing.
WaitsIdle == \A j \in Waits : start[j] = "idle" /\ observer[j] = "none"

(***************************************************************************)
(* A multiple wait has commands left only while it holds the executor's    *)
(* request and its timer has not gone off, and it has one to act on when   *)
(* it is woken.                                                            *)
(***************************************************************************)
RestHeld ==
  \A j \in Index :
    /\ rest[j] # {} => /\ j \in Waits /\ execRequest = j
                       /\ waitState[j] # "EStateTimerExpired"
    /\ rest[j] \subseteq DeferredCommands(j)
    /\ waitState[j] = "EStateTakeAction" => rest[j] # {}

(***************************************************************************)
(* An observer waits for a pending command: the wait that runs for one of  *)
(* the commands it has left, the deleter for one of a list it was given.   *)
(***************************************************************************)
ObserversWait ==
  \A i \in Starters :
    /\ observer[i] # "none" => completion[i] = "KRequestPending"
    /\ observer[i] = "wait" => \E j \in Waits : i \in rest[j]
    /\ observer[i] = "deleter" => list = "deferred"

\* The executor has the list until the deleter gets it.
ListOwned ==
  /\ list = "executing" <=> estatus # "inactive"
  /\ list = "deleted" => PendingCommands = {}

(***************************************************************************)
(* The inductive invariant.                                                *)
(***************************************************************************)
IInv ==
  /\ TypeOK
  /\ RequestHeld
  /\ StartsPending
  /\ WaitsIdle
  /\ RestHeld
  /\ ObserversWait
  /\ ListOwned

-----------------------------------------------------------------------------
(***************************************************************************)
(* A set of numbers has a least element, which is what First chooses.      *)
(***************************************************************************)
LEMMA FirstIn ==
  ASSUME NEW S \in SUBSET Nat, S # {}
  PROVE  First(S) \in S /\ \A k \in S : First(S) <= k
BY LeastExists DEF First

\* The positions of a list.
LEMMA ListFacts ==
  ASSUME TypeOK
  PROVE  /\ Len(cmds) \in Nat /\ Len(cmds) > 0
         /\ Index \subseteq Nat /\ 0 \notin Index
         /\ \A n \in Nat : n \in Index <=> 0 < n /\ n <= Len(cmds)
         /\ Waits \cup Starters = Index /\ Waits \cap Starters = {}
         /\ index \in Nat /\ index <= Len(cmds)
<1>1. cmds \in Seq(Commands) /\ Len(cmds) > 0
  BY ListsAssumption DEF TypeOK
<1>2. Len(cmds) \in Nat
  BY <1>1
<1> QED
  BY <1>1, <1>2 DEF TypeOK, Index, Waits, Starters

\* What is said of the commands is said of them after any step, too.
LEMMA SameList ==
  ASSUME cmds' = cmds
  PROVE  /\ Index' = Index /\ Waits' = Waits /\ Starters' = Starters
         /\ \A i : IsDeferred(i)' <=> IsDeferred(i)
         /\ \A j : DeferredCommands(j)' = DeferredCommands(j)
BY DEF Index, Waits, Starters, IsDeferred, DeferredCommands

\* A multiple wait waits for commands that start something, before it.
LEMMA DeferredFacts ==
  ASSUME TypeOK, NEW j \in Index
  PROVE  \A i \in DeferredCommands(j) : i \in Starters /\ i < j /\ IsDeferred(i)
<1> SUFFICES ASSUME NEW i \in DeferredCommands(j)
             PROVE  i \in Starters /\ i < j /\ IsDeferred(i)
  OBVIOUS
<1>1. i \in 1..(j - 1) /\ cmds[i].kind = "ESsmDeferredWaitForSignal"
  BY DEF DeferredCommands
<1>2. i \in Index /\ i < j
  BY <1>1, ListFacts
<1> QED
  BY <1>1, <1>2 DEF Starters, Waits, IsDeferred

\* CancelCommands changes the commands it cancels.
LEMMA CancelFacts ==
  ASSUME TypeOK, NEW S, S \subseteq Index, CancelCommands(S)
  PROVE  /\ completion' \in [Index -> Codes \cup {"KRequestPending"}]
         /\ start' \in [Index -> Codes \cup {"idle", "KRequestPending"}]
         /\ observer' \in [Index -> {"none", "wait", "deleter"}]
         /\ \A i \in S : /\ completion'[i] = "KErrCancel"
                         /\ start'[i] = "idle" /\ observer'[i] = "none"
         /\ \A i \in Index \ S : /\ completion'[i] = completion[i]
                                 /\ start'[i] = start[i] /\ observer'[i] = observer[i]
BY DEF TypeOK, CancelCommands, Codes

\* A list is deleted only when nothing of it is pending.
LEMMA DeleteFacts ==
  ASSUME TypeOK, cmds' = cmds, NEW S, S \subseteq Index, DeferredDelete(S),
         \A i \in S : completion'[i] = "KErrCancel",
         \A i \in Index \ S : completion'[i] = completion[i]
  PROVE  /\ list' \in {"deferred", "deleted"}
         /\ list' = "deleted" => PendingCommands' = {}
<1>1. list' \in {"deferred", "deleted"}
  BY DEF DeferredDelete
<1>2. ASSUME list' = "deleted", NEW i \in PendingCommands' PROVE FALSE
  <2>1. i \in Index /\ IsDeferred(i) /\ completion'[i] = "KRequestPending"
    BY <1>2, SameList DEF PendingCommands
  <2>2. i \in PendingCommands \ S
    BY <2>1 DEF PendingCommands
  <2> QED
    BY <1>2, <2>2 DEF DeferredDelete
<1> QED
  BY <1>1, <1>2

\* What a multiple wait would cancel lies before it.
LEMMA RestFacts ==
  ASSUME IInv, NEW j \in Index
  PROVE  /\ ToCleanUp(j) \subseteq rest[j]
         /\ \A i \in rest[j] : i \in Starters /\ i <= index /\ execRequest = j
         /\ j \in Starters => rest[j] = {}
<1>1. ToCleanUp(j) \subseteq rest[j]
  BY DEF ToCleanUp
<1>2. rest[j] \subseteq DeferredCommands(j)
  BY DEF IInv, RestHeld
<1>3. rest[j] # {} => j \in Waits /\ execRequest = j
  BY DEF IInv, RestHeld
<1>4. execRequest = j => index = j
  BY ListFacts DEF IInv, RequestHeld
<1> QED
  BY <1>1, <1>2, <1>3, <1>4, DeferredFacts, ListFacts DEF IInv

\* Completing the executor's request, if it is with command i.
LEMMA CompleteFacts ==
  ASSUME IInv, NEW i \in Index, NEW code \in Codes \cup {"KErrTimedOut"},
         CompleteExecuteRequest(i, code), timing' = timing, index' = index
  PROVE  /\ RequestHeld'
         /\ estatus' = "inactive" <=> estatus = "inactive"
         /\ estatus' \in Codes \cup {"inactive", "KRequestPending", "KErrTimedOut"}
         /\ execRequest' \in 0..Len(cmds)
         /\ \A k \in Index : k # i => (execRequest' = k <=> execRequest = k)
         /\ execRequest' # i
<1>1. 0 \notin Index /\ 0 \in 0..Len(cmds)
  BY ListFacts DEF IInv
<1>2. execRequest = i => estatus = "KRequestPending"
  BY <1>1 DEF IInv, RequestHeld
<1> QED
  BY <1>1, <1>2 DEF IInv, RequestHeld, CompleteExecuteRequest, TypeOK, Codes

\* A step that leaves the waits and the executor's request alone keeps RestHeld.
LEMMA RestSame ==
  ASSUME RestHeld, UNCHANGED <<cmds, rest, waitState, execRequest>>
  PROVE  RestHeld'
BY SameList DEF RestHeld

(***************************************************************************)
(* Cleanup of a multiple wait, common to a failure and to its timer: the   *)
(* commands it has left are cancelled, and it has none.                    *)
(***************************************************************************)
LEMMA CleanUpFacts ==
  ASSUME IInv, NEW j \in Waits, CancelCommands(ToCleanUp(j)),
         UNCHANGED <<cmds, index, list>>,
         rest' = [rest EXCEPT ![j] = {}],
         waitState'[j] # "EStateTakeAction",
         \A k \in Index : k # j => /\ waitState'[k] = waitState[k]
                                   /\ execRequest' = k <=> execRequest = k,
         estatus' = "inactive" <=> estatus = "inactive"
  PROVE  StartsPending' /\ WaitsIdle' /\ RestHeld' /\ ObserversWait'
<1>1. ToCleanUp(j) \subseteq Index /\ j \in Index /\ j \notin Starters
  BY RestFacts, ListFacts DEF IInv
<1>2. \A k \in Index : k # j => rest'[k] = rest[k]
  BY DEF IInv, TypeOK
<1>3. rest'[j] = {}
  BY <1>1 DEF IInv, TypeOK
<1>4. StartsPending'
  <2>1. ASSUME NEW k \in Starters
        PROVE  /\ start'[k] # "idle" => /\ k <= index
                                        /\ completion'[k] = "KRequestPending"
                                        /\ IsDeferred(k) \/ execRequest' = k
               /\ estatus' # "inactive" /\ k > index => completion'[k] = "KRequestPending"
    <3>1. CASE k \in ToCleanUp(j)
      <4>1. start'[k] = "idle" /\ k <= index /\ k \in Nat /\ index \in Nat
        BY <1>1, <3>1, RestFacts, CancelFacts, ListFacts DEF IInv
      <4> QED
        BY <4>1
    <3>2. CASE k \notin ToCleanUp(j)
      <4>1. k \in Index /\ k # j
        BY <1>1, ListFacts DEF IInv
      <4>2. start'[k] = start[k] /\ completion'[k] = completion[k]
        BY <1>1, <3>2, <4>1, CancelFacts DEF IInv
      <4> QED
        BY <4>1, <4>2 DEF IInv, StartsPending
    <3> QED
      BY <3>1, <3>2
  <2> QED
    BY <2>1, SameList DEF StartsPending
<1>5. WaitsIdle'
  <2>1. \A k \in Waits : k \in Index /\ k \notin ToCleanUp(j)
    BY <1>1, RestFacts, ListFacts DEF IInv
  <2> QED
    BY <1>1, <2>1, CancelFacts, SameList DEF IInv, WaitsIdle
<1>6. RestHeld'
  <2>1. ASSUME NEW k \in Index
        PROVE  /\ rest'[k] # {} => /\ k \in Waits /\ execRequest' = k
                                   /\ waitState'[k] # "EStateTimerExpired"
               /\ rest'[k] \subseteq DeferredCommands(k)
               /\ waitState'[k] = "EStateTakeAction" => rest'[k] # {}
    BY <1>2, <1>3 DEF IInv, RestHeld
  <2> QED
    BY <2>1, SameList DEF RestHeld
<1>7. ObserversWait'
  <2>1. ASSUME NEW k \in Starters
        PROVE  /\ observer'[k] # "none" => completion'[k] = "KRequestPending"
               /\ observer'[k] = "wait" => \E m \in Waits : k \in rest'[m]
               /\ observer'[k] = "deleter" => list = "deferred"
    <3>1. CASE k \in ToCleanUp(j)
      BY <1>1, <3>1, CancelFacts DEF IInv
    <3>2. CASE k \notin ToCleanUp(j)
      <4>1. k \in Index /\ observer'[k] = observer[k] /\ completion'[k] = completion[k]
        BY <1>1, <3>2, CancelFacts, ListFacts DEF IInv
      <4>2. observer[k] = "wait" => \E m \in Waits : m # j /\ k \in rest[m]
        BY <3>2, <4>1 DEF IInv, ObserversWait, ToCleanUp
      <4>3. \A m \in Waits : m # j => rest'[m] = rest[m]
        BY <1>2, ListFacts DEF IInv
      <4> QED
        BY <4>1, <4>2, <4>3 DEF IInv, ObserversWait
    <3> QED
      BY <3>1, <3>2
  <2> QED
    BY <2>1, SameList DEF ObserversWait
<1> QED
  BY <1>4, <1>5, <1>6, <1>7

\* A multiple wait that meets a failure cancels the rest and completes.
LEMMA GiveUpInv ==
  ASSUME IInv, NEW j \in Waits, NEW i \in rest[j], Failed(i),
         NEW next \in {"inactive", "EStateCheckCompletionStatus"}, GiveUp(j, i, next),
         UNCHANGED <<cmds, delay, index, toggle, timing, list, message>>
  PROVE  IInv'
<1>1. ToCleanUp(j) \subseteq Index /\ j \in Index /\ i \in Index
  BY RestFacts, ListFacts DEF IInv
<1>2. completion[i] \in Codes \cup {"KErrTimedOut"}
  BY <1>1 DEF IInv, TypeOK, Failed
<1>3. /\ RequestHeld'
      /\ estatus' = "inactive" <=> estatus = "inactive"
      /\ estatus' \in Codes \cup {"inactive", "KRequestPending", "KErrTimedOut"}
      /\ execRequest' \in 0..Len(cmds)
      /\ \A k \in Index : k # j => (execRequest' = k <=> execRequest = k)
  BY <1>1, <1>2, CompleteFacts DEF GiveUp
<1>4. waitState' \in [Index -> States] /\ rest' \in [Index -> SUBSET Index]
  BY <1>1 DEF GiveUp, IInv, TypeOK, States
<1>5. /\ waitState'[j] # "EStateTakeAction"
      /\ \A k \in Index : k # j => waitState'[k] = waitState[k]
  BY <1>1 DEF GiveUp, IInv, TypeOK
<1>6. TypeOK'
  BY <1>1, <1>3, <1>4, CancelFacts, SameList DEF GiveUp, IInv, TypeOK
<1>7. StartsPending' /\ WaitsIdle' /\ RestHeld' /\ ObserversWait'
  BY <1>3, <1>5, CleanUpFacts DEF GiveUp
<1>8. ListOwned'
  <2>1. list = "deleted" => estatus = "inactive"
    BY DEF IInv, ListOwned
  <2>2. list # "deleted"
    BY <1>1, <2>1, RestFacts, ListFacts DEF IInv, RequestHeld
  <2> QED
    BY <1>3, <2>2 DEF IInv, ListOwned
<1> QED
  BY <1>3, <1>6, <1>7, <1>8 DEF IInv

\* A multiple wait that has nothing left to wait for completes.
LEMMA WaitEnds ==
  ASSUME IInv, NEW j \in Waits,
         \A i \in rest[j] : observer[i] # "wait",
         CompleteExecuteRequest(j, "KErrNone"),
         rest' = [rest EXCEPT ![j] = {}],
         waitState' = [waitState EXCEPT ![j] = "inactive"],
         UNCHANGED <<cmds, delay, index, toggle, timing, list, message>>,
         UNCHANGED <<completion, start, observer, timers>>
  PROVE  IInv'
<1>1. j \in Index
  BY ListFacts DEF IInv
<1>2. /\ RequestHeld'
      /\ estatus' = "inactive" <=> estatus = "inactive"
      /\ estatus' \in Codes \cup {"inactive", "KRequestPending", "KErrTimedOut"}
      /\ execRequest' \in 0..Len(cmds)
      /\ \A k \in Index : k # j => (execRequest' = k <=> execRequest = k)
  BY <1>1, CompleteFacts DEF Codes
<1>3. /\ waitState' \in [Index -> States] /\ rest' \in [Index -> SUBSET Index]
      /\ rest'[j] = {} /\ waitState'[j] = "inactive"
      /\ \A k \in Index : k # j => waitState'[k] = waitState[k] /\ rest'[k] = rest[k]
  BY <1>1 DEF IInv, TypeOK, States
<1>4. TypeOK'
  BY <1>2, <1>3, SameList DEF IInv, TypeOK
<1>5. StartsPending' /\ WaitsIdle'
  <2>1. \A k \in Starters : k \in Index /\ k # j
    BY ListFacts DEF IInv
  <2> QED
    BY <1>2, <2>1, SameList DEF IInv, StartsPending, WaitsIdle
<1>6. RestHeld'
  <2>1. ASSUME NEW k \in Index
        PROVE  /\ rest'[k] # {} => /\ k \in Waits /\ execRequest' = k
                                   /\ waitState'[k] # "EStateTimerExpired"
               /\ rest'[k] \subseteq DeferredCommands(k)
               /\ waitState'[k] = "EStateTakeAction" => rest'[k] # {}
    BY <1>2, <1>3 DEF IInv, RestHeld
  <2> QED
    BY <2>1, SameList DEF RestHeld
<1>7. ObserversWait'
  BY <1>3, SameList, ListFacts DEF IInv, ObserversWait
<1>8. ListOwned'
  BY <1>2, SameList DEF IInv, ListOwned, PendingCommands
<1> QED
  BY <1>2, <1>4, <1>5, <1>6, <1>7, <1>8 DEF IInv

\* A multiple wait becomes the observer of the first command that is pending.
LEMMA WaitRegisters ==
  ASSUME IInv, NEW j \in Waits, NEW i \in rest[j], completion[i] = "KRequestPending",
         \A k \in rest[j] : observer[k] # "wait",
         rest' = [rest EXCEPT ![j] = {k \in @ : k >= i}],
         observer' = [observer EXCEPT ![i] = "wait"],
         waitState' = [waitState EXCEPT ![j] = "EStateTakeAction"],
         timers' \subseteq Waits,
         UNCHANGED <<cmds, delay, index, toggle, timing, list, message>>,
         UNCHANGED <<completion, start, execRequest, estatus>>
  PROVE  IInv'
<1>1. j \in Index /\ i \in Starters /\ i \in Index /\ i \in Nat
  BY RestFacts, ListFacts DEF IInv
<1>2. /\ waitState' \in [Index -> States] /\ rest' \in [Index -> SUBSET Index]
      /\ observer' \in [Index -> {"none", "wait", "deleter"}]
  BY <1>1 DEF IInv, TypeOK, States
<1>3. /\ rest'[j] \subseteq rest[j] /\ i \in rest'[j]
      /\ waitState'[j] = "EStateTakeAction"
      /\ \A k \in Index : k # j => waitState'[k] = waitState[k] /\ rest'[k] = rest[k]
  BY <1>1 DEF IInv, TypeOK
<1>4. TypeOK'
  BY <1>2, SameList DEF IInv, TypeOK
<1>5. StartsPending' /\ RequestHeld' /\ ListOwned'
  BY SameList DEF IInv, StartsPending, RequestHeld, ListOwned, PendingCommands
<1>6. WaitsIdle'
  BY <1>1, SameList, ListFacts DEF IInv, WaitsIdle, TypeOK
<1>7. RestHeld'
  <2>1. ASSUME NEW k \in Index
        PROVE  /\ rest'[k] # {} => /\ k \in Waits /\ execRequest = k
                                   /\ waitState'[k] # "EStateTimerExpired"
               /\ rest'[k] \subseteq DeferredCommands(k)
               /\ waitState'[k] = "EStateTakeAction" => rest'[k] # {}
    BY <1>1, <1>3 DEF IInv, RestHeld
  <2> QED
    BY <2>1, SameList DEF RestHeld
<1>8. ObserversWait'
  <2>1. ASSUME NEW k \in Starters
        PROVE  /\ observer'[k] # "none" => completion[k] = "KRequestPending"
               /\ observer'[k] = "wait" => \E m \in Waits : k \in rest'[m]
               /\ observer'[k] = "deleter" => list = "deferred"
    <3>1. CASE k = i
      BY <1>1, <1>3, <3>1 DEF IInv, TypeOK
    <3>2. CASE k # i
      <4>1. observer'[k] = observer[k]
        BY <1>1, <3>2, ListFacts DEF IInv, TypeOK
      <4> QED
        BY <1>3, <4>1, ListFacts DEF IInv, ObserversWait
    <3> QED
      BY <3>1, <3>2
  <2> QED
    BY <2>1, SameList DEF ObserversWait
<1> QED
  BY <1>4, <1>5, <1>6, <1>7, <1>8 DEF IInv

(***************************************************************************)
(* Cancelling the executor: what is left pending is deferred, and the      *)
(* deleter gets the list with none of its commands observed.               *)
(***************************************************************************)
LEMMA CancelInv ==
  ASSUME IInv, CancelExecutor, message' \in {"KErrCancel", "abandoned"}
  PROVE  IInv'
<1> DEFINE j == CurrentCommand
           stopped == IF j \in Waits THEN ToCleanUp(j) ELSE {j}
<1>1. /\ j \in Index
      /\ execRequest # 0 => execRequest = j /\ index = j
      /\ j \in Starters => index \in {0, j} /\ rest[j] = {}
  BY ListFacts, RestFacts DEF IInv, CurrentCommand, RequestHeld
<1>2. stopped \subseteq Index
  BY <1>1, RestFacts, ListFacts DEF IInv
<1>3. /\ estatus # "inactive" /\ CancelCommands(stopped) /\ DeferredDelete(stopped)
      /\ rest' = [rest EXCEPT ![j] = {}]
      /\ waitState' = [waitState EXCEPT ![j] = "inactive"]
      /\ execRequest' = IF execRequest = j THEN 0 ELSE execRequest
      /\ estatus' = "inactive" /\ timing' = FALSE
      /\ UNCHANGED <<cmds, delay, index, toggle, timers>>
  BY DEF CancelExecutor, DeleteExecutor
<1> HIDE DEF j
<1>4. execRequest' = 0 /\ list = "executing"
  BY <1>1, <1>3 DEF IInv, ListOwned
<1>5. /\ waitState' \in [Index -> States] /\ rest' \in [Index -> SUBSET Index]
      /\ rest'[j] = {} /\ waitState'[j] = "inactive"
      /\ \A k \in Index : k # j => waitState'[k] = waitState[k] /\ rest'[k] = rest[k]
  BY <1>1, <1>3 DEF IInv, TypeOK, States
<1>6. /\ completion' \in [Index -> Codes \cup {"KRequestPending"}]
      /\ start' \in [Index -> Codes \cup {"idle", "KRequestPending"}]
      /\ observer' \in [Index -> {"none", "wait", "deleter"}]
      /\ \A i \in stopped : /\ completion'[i] = "KErrCancel"
                            /\ start'[i] = "idle" /\ observer'[i] = "none"
      /\ \A i \in Index \ stopped : /\ completion'[i] = completion[i]
                                    /\ start'[i] = start[i] /\ observer'[i] = observer[i]
  BY <1>2, <1>3, CancelFacts DEF IInv
<1>7. list' \in {"deferred", "deleted"} /\ (list' = "deleted" => PendingCommands' = {})
  BY <1>2, <1>3, <1>6, DeleteFacts DEF IInv
<1>8. TypeOK'
  <2>1. /\ 0 \in 0..Len(cmds) /\ Index' = Index /\ Waits' = Waits /\ cmds' = cmds
        /\ execRequest' = 0
    BY <1>3, <1>4, ListFacts, SameList DEF IInv
  <2>2. /\ cmds \in Lists /\ delay \in Delays /\ index \in 0..Len(cmds)
        /\ toggle \in BOOLEAN /\ timers \subseteq Waits
    BY DEF IInv, TypeOK
  <2> QED
    BY <1>3, <1>5, <1>6, <1>7, <2>1, <2>2 DEF TypeOK, Codes
<1>9. RequestHeld' /\ ListOwned'
  BY <1>3, <1>4, <1>7 DEF RequestHeld, ListOwned
<1>10. StartsPending'
  <2>1. ASSUME NEW k \in Starters, start'[k] # "idle"
        PROVE  k <= index /\ completion'[k] = "KRequestPending" /\ IsDeferred(k)
    <3>1. k \in Index \ stopped
      BY <1>6, <2>1, ListFacts DEF IInv
    <3>2. start[k] # "idle" /\ completion'[k] = completion[k]
      BY <1>6, <2>1, <3>1
    <3>3. execRequest # k
      BY <1>1, <3>1, ListFacts DEF IInv
    <3> QED
      BY <3>2, <3>3 DEF IInv, StartsPending
  <2> QED
    BY <1>3, <2>1, SameList DEF StartsPending
<1>11. WaitsIdle'
  <2>1. \A k \in Waits : k \in Index \ stopped
    BY <1>1, RestFacts, ListFacts DEF IInv
  <2> QED
    BY <1>3, <1>6, <2>1, SameList DEF IInv, WaitsIdle
<1>12. \A k \in Index : rest'[k] = {}
  BY <1>1, <1>4, <1>5, ListFacts DEF IInv, RestHeld
<1>13. RestHeld'
  <2>1. \A k \in Index : waitState'[k] # "EStateTakeAction"
    BY <1>5, <1>12 DEF IInv, RestHeld
  <2> QED
    BY <1>3, <1>12, <2>1, SameList DEF RestHeld
<1>14. ObserversWait'
  <2>1. ASSUME NEW k \in Starters PROVE observer'[k] = "none"
    <3>1. CASE k \in stopped
      BY <1>6, <3>1
    <3>2. CASE k \notin stopped
      <4>1. k \in Index /\ observer'[k] = observer[k]
        BY <1>6, <3>2, ListFacts DEF IInv
      <4>2. observer[k] # "deleter"
        BY <1>4 DEF IInv, ObserversWait
      <4>3. observer[k] # "wait"
        <5>1. ASSUME observer[k] = "wait" PROVE FALSE
          <6>1. PICK m \in Waits : k \in rest[m]
            BY <5>1 DEF IInv, ObserversWait
          <6>2. m = j
            BY <1>1, <6>1, ListFacts DEF IInv, RestHeld
          <6>3. completion[k] = "KRequestPending"
            BY <5>1 DEF IInv, ObserversWait
          <6> QED
            BY <3>2, <6>1, <6>2, <6>3 DEF ToCleanUp
        <5> QED
          BY <5>1
      <4> QED
        BY <1>6, <4>1, <4>2, <4>3
    <3> QED
      BY <3>1, <3>2
  <2> QED
    BY <1>3, <2>1, SameList DEF ObserversWait
<1> QED
  BY <1>8, <1>9, <1>10, <1>11, <1>13, <1>14 DEF IInv

-----------------------------------------------------------------------------
\* The state in which StartL leaves the executor.
LEMMA InitInv == Init => IInv
<1> SUFFICES ASSUME Init PROVE IInv
  OBVIOUS
<1>1. TypeOK
  <2>1. Len(cmds) \in Nat /\ Len(cmds) > 0
    BY ListsAssumption DEF Init
  <2>2. index \in 0..Len(cmds) /\ execRequest \in 0..Len(cmds)
    BY <2>1 DEF Init
  <2>3. toggle \in BOOLEAN /\ timing \in BOOLEAN
    BY DelaysAssumption DEF Init
  <2>4. /\ completion \in [Index -> Codes \cup {"KRequestPending"}]
        /\ start \in [Index -> Codes \cup {"idle", "KRequestPending"}]
        /\ observer \in [Index -> {"none", "wait", "deleter"}]
        /\ waitState \in [Index -> States]
        /\ rest \in [Index -> SUBSET Index]
    BY DEF Init, States
  <2> QED
    BY <2>2, <2>3, <2>4 DEF Init, TypeOK, Codes
<1>2. RequestHeld /\ ListOwned
  BY DEF Init, RequestHeld, ListOwned
<1>3. StartsPending /\ WaitsIdle /\ ObserversWait
  BY DEF Init, StartsPending, WaitsIdle, ObserversWait, Starters, Waits
<1>4. RestHeld
  BY DEF Init, RestHeld
<1> QED
  BY <1>1, <1>2, <1>3, <1>4 DEF IInv

\* Every step of the executor, a command, a wait, the deleter or the client keeps it.
LEMMA NextInv == IInv /\ [Next]_vars => IInv'
<1> SUFFICES ASSUME IInv, [Next]_vars PROVE IInv'
  OBVIOUS
<1> USE DEF IInv
<1>1. ASSUME ListFails PROVE IInv'
  <2>0. CancelCommands(Unexecuted) /\ Unexecuted \subseteq Starters
    BY <1>1 DEF ListFails, Unexecuted
  <2>1. TypeOK'
    <3>1. list' \in {"deferred", "deleted"} /\ index' \in 0..Len(cmds)
      BY <1>1 DEF ListFails, DeferredDelete
    <3>2. message' \in Codes \cup {"open", "KErrTimedOut", "abandoned"}
      BY <1>1 DEF ListFails, ExecutorRuns, TypeOK
    <3> QED
      BY <1>1, <2>0, <3>1, <3>2, SameList, ListFacts, CancelFacts DEF ListFails,
         DeleteExecutor, wvars, TypeOK
  <2>2. RequestHeld'
    BY <1>1 DEF ListFails, ExecutorRuns, DeleteExecutor, RequestHeld
  <2>3. StartsPending' /\ WaitsIdle'
    BY <1>1, SameList, ListFacts, <2>0, CancelFacts DEF ListFails, StartsPending,
       WaitsIdle, TypeOK
  <2>4. RestHeld'
    BY <1>1, SameList DEF ListFails, wvars, RestHeld
  <2>5. ObserversWait'
    BY <1>1, SameList, ListFacts, <2>0, CancelFacts DEF ListFails, ExecutorRuns, wvars,
       ObserversWait, ListOwned
  <2>6. ListOwned'
    <3>1. list' \in {"deferred", "deleted"} /\ (list' = "deleted" => PendingCommands' = {})
      BY <1>1, <2>0, CancelFacts, ListFacts, DeleteFacts DEF ListFails
    <3> QED
      BY <1>1, <3>1 DEF ListFails, DeleteExecutor, ListOwned
  <2> QED
    BY <2>1, <2>2, <2>3, <2>4, <2>5, <2>6
<1>2. ASSUME ListCompletes PROVE IInv'
  <2>1. TypeOK'
    <3>1. list' \in {"deferred", "deleted"}
      BY <1>2 DEF ListCompletes, DeferredDelete
    <3> QED
      BY <1>2, <3>1, SameList DEF ListCompletes, DeleteExecutor, wvars, TypeOK
  <2>2. RequestHeld'
    BY <1>2 DEF ListCompletes, DeleteExecutor, RequestHeld
  <2>3. StartsPending' /\ WaitsIdle'
    BY <1>2, SameList DEF ListCompletes, StartsPending, WaitsIdle
  <2>4. RestHeld'
    BY <1>2, SameList DEF ListCompletes, wvars, RestHeld
  <2>5. ObserversWait'
    BY <1>2, SameList, ListFacts DEF ListCompletes, ObserversWait, RestHeld, RequestHeld,
       ListOwned
  <2>6. ListOwned'
    <3>1. list' \in {"deferred", "deleted"} /\ (list' = "deleted" => PendingCommands' = {})
      BY <1>2, DeleteFacts DEF ListCompletes
    <3> QED
      BY <1>2, <3>1 DEF ListCompletes, DeleteExecutor, ListOwned
  <2> QED
    BY <2>1, <2>2, <2>3, <2>4, <2>5, <2>6
<1>3. ASSUME StartDelay PROVE IInv'
  <2>1. TypeOK'
    BY <1>3, SameList DEF StartDelay, wvars, TypeOK
  <2>2. RequestHeld'
    BY <1>3 DEF StartDelay, RequestHeld
  <2>3. StartsPending' /\ WaitsIdle'
    BY <1>3, SameList DEF StartDelay, StartsPending, WaitsIdle
  <2>4. RestHeld'
    BY <1>3, SameList DEF StartDelay, wvars, RestHeld
  <2>5. ObserversWait'
    BY <1>3, SameList DEF StartDelay, wvars, ObserversWait
  <2>6. ListOwned'
    BY <1>3 DEF StartDelay, ListOwned
  <2> QED
    BY <2>1, <2>2, <2>3, <2>4, <2>5, <2>6
<1>4. ASSUME DelayOver PROVE IInv'
  <2>1. TypeOK'
    BY <1>4, SameList DEF DelayOver, wvars, Codes, TypeOK
  <2>2. RequestHeld'
    BY <1>4 DEF DelayOver, RequestHeld
  <2>3. StartsPending' /\ WaitsIdle'
    BY <1>4, SameList DEF DelayOver, StartsPending, WaitsIdle, RequestHeld
  <2>4. RestHeld'
    BY <1>4, SameList DEF DelayOver, wvars, RestHeld
  <2>5. ObserversWait'
    BY <1>4, SameList, ListFacts DEF DelayOver, ObserversWait, RestHeld, RequestHeld,
       ListOwned
  <2>6. ListOwned'
    BY <1>4 DEF DelayOver, ListOwned, RequestHeld
  <2> QED
    BY <2>1, <2>2, <2>3, <2>4, <2>5, <2>6
<1>5. ASSUME NEW i \in Index, SkipCommand(i) PROVE IInv'
  <2>1. TypeOK'
    <3>1. index' \in 0..Len(cmds) /\ toggle' \in BOOLEAN /\ estatus' \in Codes
      BY <1>5, ListFacts, DelaysAssumption DEF SkipCommand, ExecuteNext, TypeOK
    <3> QED
      BY <1>5, <3>1, SameList DEF SkipCommand, ExecuteNext, TypeOK
  <2>2. RequestHeld'
    BY <1>5 DEF SkipCommand, ExecuteNext, RequestHeld
  <2>3. StartsPending' /\ WaitsIdle'
    BY <1>5, SameList, ListFacts DEF SkipCommand, ExecuteNext, StartsPending, WaitsIdle,
       RequestHeld, TypeOK
  <2>4. RestHeld'
    BY <1>5, SameList DEF SkipCommand, ExecuteNext, ExecutorRuns, RestHeld, RequestHeld
  <2>5. ObserversWait'
    <3>1. execRequest = 0 /\ list = "executing"
      BY <1>5 DEF SkipCommand, ExecuteNext, RequestHeld, ListOwned
    <3>2. \A k \in Starters : observer[k] = "none"
      BY <3>1, ListFacts DEF ObserversWait, RestHeld, TypeOK
    <3> QED
      BY <1>5, <3>2, SameList DEF SkipCommand, ExecuteNext, ObserversWait
  <2>6. ListOwned'
    BY <1>5 DEF SkipCommand, ExecuteNext, ListOwned
  <2> QED
    BY <2>1, <2>2, <2>3, <2>4, <2>5, <2>6
<1>6. ASSUME NEW i \in Index, ExecuteStarter(i) PROVE IInv'
  <2>1. TypeOK'
    <3>1. /\ index' \in 0..Len(cmds) /\ toggle' \in BOOLEAN
          /\ estatus' \in Codes \cup {"KRequestPending"} /\ execRequest' \in 0..Len(cmds)
      BY <1>6, ListFacts, DelaysAssumption DEF ExecuteStarter, ExecuteNext, TypeOK
    <3> QED
      BY <1>6, <3>1, SameList DEF ExecuteStarter, ExecuteNext, TypeOK
  <2>2. RequestHeld'
    BY <1>6, ListFacts DEF ExecuteStarter, ExecuteNext, RequestHeld
  <2>3. StartsPending' /\ WaitsIdle'
    <3>1. execRequest = 0 /\ i = index + 1 /\ i > index
      BY <1>6, ListFacts DEF ExecuteStarter, ExecuteNext, RequestHeld
    <3>2. completion[i] = "KRequestPending"
      BY <1>6, <3>1 DEF ExecuteStarter, ExecuteNext, StartsPending
    <3>3. IsDeferred(i) \/ execRequest' = i
      BY <1>6 DEF ExecuteStarter, IsDeferred
    <3>4. ASSUME NEW k \in Starters
          PROVE  /\ start'[k] # "idle" => /\ k <= index'
                                          /\ completion'[k] = "KRequestPending"
                                          /\ IsDeferred(k) \/ execRequest' = k
                 /\ k > index' => completion'[k] = "KRequestPending"
      <4>1. CASE k = i
        BY <1>6, <3>2, <3>3, <4>1 DEF ExecuteStarter, ExecuteNext
      <4>2. CASE k # i
        <5>1. start'[k] = start[k] /\ completion'[k] = completion[k]
          BY <1>6, <4>2, ListFacts DEF ExecuteStarter, TypeOK
        <5>2. k \in Nat /\ index' = index + 1 /\ estatus # "inactive"
          BY <1>6, ListFacts DEF ExecuteStarter, ExecuteNext
        <5> QED
          BY <3>1, <5>1, <5>2, ListFacts DEF StartsPending
      <4> QED
        BY <4>1, <4>2
    <3>5. StartsPending'
      BY <1>6, <3>4, SameList DEF ExecuteStarter, ExecuteNext, StartsPending
    <3>6. WaitsIdle'
      BY <1>6, SameList, ListFacts DEF ExecuteStarter, ExecuteNext, WaitsIdle
    <3> QED
      BY <3>5, <3>6
  <2>4. RestHeld'
    BY <1>6, SameList, ListFacts DEF ExecuteStarter, ExecuteNext, ExecutorRuns, RestHeld,
       RequestHeld
  <2>5. ObserversWait'
    BY <1>6, SameList DEF ExecuteStarter, ExecuteNext, ObserversWait
  <2>6. ListOwned'
    BY <1>6 DEF ExecuteStarter, ExecuteNext, ListOwned
  <2> QED
    BY <2>1, <2>2, <2>3, <2>4, <2>5, <2>6
<1>7. ASSUME NEW j \in Index, ExecuteMultipleWait(j) PROVE IInv'
  <2>1. TypeOK'
    <3>1. DeferredCommands(j) \subseteq Index
      BY DeferredFacts, ListFacts
    <3>2. rest' \in [Index -> SUBSET Index] /\ waitState' \in [Index -> States]
      BY <1>7, <3>1 DEF ExecuteMultipleWait, TypeOK, States
    <3>3. /\ index' \in 0..Len(cmds) /\ toggle' \in BOOLEAN
          /\ estatus' \in Codes \cup {"KRequestPending"} /\ execRequest' \in 0..Len(cmds)
      BY <1>7, ListFacts, DelaysAssumption DEF ExecuteMultipleWait, ExecuteNext, TypeOK
    <3> QED
      BY <1>7, <3>2, <3>3, SameList DEF ExecuteMultipleWait, ExecuteNext, TypeOK
  <2>2. RequestHeld'
    BY <1>7, ListFacts DEF ExecuteMultipleWait, ExecuteNext, RequestHeld
  <2>3. StartsPending' /\ WaitsIdle'
    BY <1>7, SameList, ListFacts DEF ExecuteMultipleWait, ExecuteNext, ExecutorRuns,
       StartsPending, WaitsIdle, RequestHeld, TypeOK, Codes
  <2>4. RestHeld'
    BY <1>7, SameList, ListFacts DEF ExecuteMultipleWait, ExecuteNext, ExecutorRuns,
       RestHeld, RequestHeld, TypeOK
  <2>5. ObserversWait'
    BY <1>7, SameList, ListFacts DEF ExecuteMultipleWait, ExecuteNext, ObserversWait,
       RestHeld, TypeOK
  <2>6. ListOwned'
    BY <1>7 DEF ExecuteMultipleWait, ExecuteNext, ListOwned
  <2> QED
    BY <2>1, <2>2, <2>3, <2>4, <2>5, <2>6
<1>8. ASSUME NEW i \in Index, StarterRuns(i) PROVE IInv'
  <2>0. /\ i \in Starters /\ CompleteDeferredExecuteRequest(i) /\ cmds' = cmds
        /\ Reported(i, start[i]) \in Codes
    BY <1>8 DEF StarterRuns, CompleteDeferredExecuteRequest, Reported, Codes
  <2>7. /\ RequestHeld'
        /\ estatus' = "inactive" <=> estatus = "inactive"
        /\ estatus' \in Codes \cup {"inactive", "KRequestPending", "KErrTimedOut"}
        /\ execRequest' \in 0..Len(cmds)
        /\ \A k \in Index : k # i => (execRequest' = k <=> execRequest = k)
    <3>1. CASE cmds[i].kind # "ESsmDeferredWaitForSignal"
      BY <2>0, <3>1, CompleteFacts DEF CompleteDeferredExecuteRequest
    <3>2. CASE cmds[i].kind = "ESsmDeferredWaitForSignal"
      BY <2>0, <3>2 DEF CompleteDeferredExecuteRequest, RequestHeld, TypeOK
    <3> QED
      BY <3>1, <3>2
  <2>1. TypeOK'
    BY <2>0, <2>7, SameList DEF CompleteDeferredExecuteRequest, wvars, TypeOK
  <2>2. RequestHeld'
    BY <2>7
  <2>3. StartsPending' /\ WaitsIdle'
    <3>1. start[i] # "idle" /\ i \in Starters
      BY <2>0 DEF CompleteDeferredExecuteRequest, Codes
    <3>2. ASSUME NEW k \in Starters
          PROVE  /\ start'[k] # "idle" => /\ k <= index
                                          /\ completion'[k] = "KRequestPending"
                                          /\ IsDeferred(k) \/ execRequest' = k
                 /\ estatus' # "inactive" /\ k > index => completion'[k] = "KRequestPending"
      <4>1. CASE k = i
        BY <2>0, <3>1, <4>1 DEF CompleteDeferredExecuteRequest, StartsPending, TypeOK
      <4>2. CASE k # i
        <5>1. start'[k] = start[k] /\ completion'[k] = completion[k]
          BY <2>0, <4>2, ListFacts DEF CompleteDeferredExecuteRequest, TypeOK
        <5> QED
          BY <4>2, <5>1, <2>7, ListFacts DEF StartsPending
      <4> QED
        BY <4>1, <4>2
    <3>3. StartsPending'
      BY <2>0, <3>2, SameList DEF CompleteDeferredExecuteRequest, StartsPending
    <3>4. WaitsIdle'
      BY <2>0, SameList DEF CompleteDeferredExecuteRequest, WaitsIdle
    <3> QED
      BY <3>3, <3>4
  <2>4. RestHeld'
    <3>1. \A j \in Index : rest[j] # {} => j # i
      BY <2>0, ListFacts DEF RestHeld
    <3> QED
      BY <2>0, <2>7, <3>1, SameList
         DEF CompleteDeferredExecuteRequest, wvars, RestHeld
  <2>5. ObserversWait'
    BY <1>8, SameList DEF StarterRuns, CompleteDeferredExecuteRequest, wvars,
       ObserversWait, TypeOK
  <2>6. ListOwned'
    BY <2>0, <2>7 DEF CompleteDeferredExecuteRequest, ListOwned
  <2> QED
    BY <2>1, <2>2, <2>3, <2>4, <2>5, <2>6
<1>9. ASSUME NEW i \in Index, StartSafeStep(i) PROVE IInv'
  <2>1. TypeOK'
    <3>1. start' \in [Index -> Codes \cup {"idle", "KRequestPending"}]
      BY <1>9 DEF StartSafeStep, StartSafeAnswers, TypeOK
    <3> QED
      BY <1>9, <3>1, SameList DEF StartSafeStep, StartSafeAnswers, evars, wvars, TypeOK
  <2>2. RequestHeld'
    BY <1>9 DEF StartSafeStep, StartSafeAnswers, evars, RequestHeld
  <2>3. StartsPending' /\ WaitsIdle'
    BY <1>9, SameList DEF StartSafeStep, StartSafeAnswers, evars, StartsPending, WaitsIdle
  <2>4. RestHeld'
    BY <1>9, RestSame DEF StartSafeStep, StartSafeAnswers, evars, wvars
  <2>5. ObserversWait'
    BY <1>9, SameList DEF StartSafeStep, StartSafeAnswers, wvars, ObserversWait
  <2>6. ListOwned'
    BY <1>9 DEF StartSafeStep, StartSafeAnswers, evars, ListOwned
  <2> QED
    BY <2>1, <2>2, <2>3, <2>4, <2>5, <2>6
<1>10. ASSUME NEW j \in Index, j \in Waits, CheckCompletion(j) PROVE IInv'
  <2>1. /\ Stops(j) \subseteq rest[j] /\ rest[j] \in SUBSET Index
        /\ \A i \in rest[j] : observer[i] # "wait" /\ i \in Starters
    BY <1>10, RestFacts DEF Stops, CheckCompletion, WaitRuns, TypeOK
  <2>2. Stops(j) # {} => First(Stops(j)) \in Stops(j)
    BY <2>1, FirstIn, ListFacts
  <2>3. CASE Stops(j) = {}
    <3>1. /\ CompleteExecuteRequest(j, "KErrNone")
          /\ rest' = [rest EXCEPT ![j] = {}]
          /\ waitState' = [waitState EXCEPT ![j] = "inactive"]
          /\ UNCHANGED <<cmds, delay, index, toggle, timing, list, message>>
          /\ UNCHANGED <<completion, start, observer, timers>>
      BY <1>10, <2>3 DEF CheckCompletion
    <3> QED
      BY <1>10, <2>1, <3>1, WaitEnds DEF IInv
  <2>4. CASE Stops(j) # {} /\ completion[First(Stops(j))] = "KRequestPending"
    <3>1. First(Stops(j)) \in rest[j] /\ First(Stops(j)) \in Nat
      BY <2>1, <2>2, <2>4, ListFacts
    <3>2. /\ rest' = [rest EXCEPT ![j] = {k \in @ : k >= First(Stops(j))}]
          /\ observer' = [observer EXCEPT ![First(Stops(j))] = "wait"]
          /\ waitState' = [waitState EXCEPT ![j] = "EStateTakeAction"]
          /\ timers' \subseteq Waits
          /\ UNCHANGED <<cmds, delay, index, toggle, timing, list, message>>
          /\ UNCHANGED <<completion, start, execRequest, estatus>>
      BY <1>10, <2>4 DEF CheckCompletion, Failed, TypeOK
    <3> QED
      BY <1>10, <2>1, <2>4, <3>1, <3>2, WaitRegisters
  <2>5. CASE Stops(j) # {} /\ Failed(First(Stops(j)))
    <3>1. First(Stops(j)) \in rest[j]
      BY <2>1, <2>2, <2>5
    <3>2. GiveUp(j, First(Stops(j)), "inactive")
      BY <1>10, <2>5 DEF CheckCompletion, Failed
    <3>3. UNCHANGED <<cmds, delay, index, toggle, timing, list, message>>
      BY <1>10 DEF CheckCompletion
    <3> QED
      BY <1>10, <2>5, <3>1, <3>2, <3>3, GiveUpInv
  <2> QED
    BY <1>10, <2>3, <2>4, <2>5 DEF CheckCompletion
<1>11. ASSUME NEW j \in Index, j \in Waits, TakeAction(j) PROVE IInv'
  <2>1. /\ rest[j] # {} /\ rest[j] \in SUBSET Index
        /\ \A i \in rest[j] : observer[i] # "wait"
    BY <1>11 DEF TakeAction, WaitRuns, RestHeld, TypeOK
  <2>2. First(rest[j]) \in rest[j]
    BY <2>1, FirstIn, ListFacts
  <2>3. CASE Failed(First(rest[j]))
    <3>1. GiveUp(j, First(rest[j]), "EStateCheckCompletionStatus")
      BY <1>11, <2>3 DEF TakeAction
    <3>2. UNCHANGED <<cmds, delay, index, toggle, timing, list, message>>
      BY <1>11 DEF TakeAction
    <3> QED
      BY <1>11, <2>2, <2>3, <3>1, <3>2, GiveUpInv
  <2>4. CASE ~Failed(First(rest[j]))
    <3>1. /\ rest' = [rest EXCEPT ![j] = @ \ {First(rest[j])}]
          /\ waitState' = [waitState EXCEPT ![j] = "EStateCheckCompletionStatus"]
          /\ UNCHANGED <<cmds, delay, index, toggle, timing, list, message>>
          /\ UNCHANGED <<completion, start, observer, execRequest, estatus, timers>>
      BY <1>11, <2>4 DEF TakeAction
    <3>2. TypeOK'
      <4>1. rest' \in [Index -> SUBSET Index] /\ waitState' \in [Index -> States]
        BY <3>1 DEF TypeOK, States
      <4> QED
        BY <3>1, <4>1, SameList DEF TypeOK
    <3>3. RequestHeld' /\ ListOwned' /\ StartsPending' /\ WaitsIdle'
      BY <3>1, SameList DEF RequestHeld, ListOwned, PendingCommands, StartsPending, WaitsIdle
    <3>4. /\ rest'[j] \subseteq rest[j] /\ waitState'[j] = "EStateCheckCompletionStatus"
          /\ \A k \in Index : k # j => rest'[k] = rest[k] /\ waitState'[k] = waitState[k]
      BY <3>1 DEF TypeOK
    <3>5. RestHeld'
      <4>1. ASSUME NEW k \in Index
            PROVE  /\ rest'[k] # {} => /\ k \in Waits /\ execRequest = k
                                       /\ waitState'[k] # "EStateTimerExpired"
                   /\ rest'[k] \subseteq DeferredCommands(k)
                   /\ waitState'[k] = "EStateTakeAction" => rest'[k] # {}
        BY <3>4 DEF RestHeld
      <4> QED
        BY <3>1, <4>1, SameList DEF RestHeld
    <3>6. ObserversWait'
      BY <2>1, <3>1, SameList DEF ObserversWait
    <3> QED
      BY <3>2, <3>3, <3>5, <3>6
  <2> QED
    BY <2>3, <2>4
<1>12. ASSUME NEW j \in Index, j \in Waits, TimerExpired(j) PROVE IInv'
  <2>0. /\ RequestHeld'
        /\ estatus' = "inactive" <=> estatus = "inactive"
        /\ estatus' \in Codes \cup {"inactive", "KRequestPending", "KErrTimedOut"}
        /\ execRequest' \in 0..Len(cmds)
        /\ \A k \in Index : k # j => (execRequest' = k <=> execRequest = k)
    BY <1>12, CompleteFacts DEF TimerExpired
  <2>1. TypeOK'
    <3>1. waitState' \in [Index -> States]
      BY <1>12 DEF TimerExpired, TypeOK, States
    <3> QED
      BY <1>12, <2>0, <3>1, SameList DEF TimerExpired, TypeOK
  <2>2. RequestHeld'
    BY <1>12, ListFacts DEF TimerExpired, CompleteExecuteRequest, RequestHeld
  <2>3. StartsPending' /\ WaitsIdle'
    BY <1>12, SameList, ListFacts DEF TimerExpired, CompleteExecuteRequest, StartsPending,
       WaitsIdle, RequestHeld
  <2>4. RestHeld'
    <3>1. rest[j] = {}
      BY <1>12 DEF TimerExpired, WaitRuns, RestHeld
    <3>2. ASSUME NEW k \in Index
          PROVE  /\ rest[k] # {} => /\ k \in Waits /\ execRequest' = k
                                    /\ waitState'[k] # "EStateTimerExpired"
                 /\ rest[k] \subseteq DeferredCommands(k)
                 /\ waitState'[k] = "EStateTakeAction" => rest[k] # {}
      <4>1. CASE k = j
        BY <1>12, <3>1, <4>1 DEF TimerExpired, TypeOK
      <4>2. CASE k # j
        BY <1>12, <2>0, <4>2 DEF TimerExpired, RestHeld
      <4> QED
        BY <4>1, <4>2
    <3> QED
      BY <1>12, <3>2, SameList DEF TimerExpired, RestHeld
  <2>5. ObserversWait'
    BY <1>12, SameList DEF TimerExpired, ObserversWait
  <2>6. ListOwned'
    BY <1>12, SameList, ListFacts DEF TimerExpired, CompleteExecuteRequest, ListOwned,
       RequestHeld, PendingCommands
  <2> QED
    BY <2>1, <2>2, <2>3, <2>4, <2>5, <2>6
<1>13. ASSUME NEW j \in Index, TimerStep(j) PROVE IInv'
  <2>1. /\ j \in Waits /\ CancelCommands(ToCleanUp(j)) /\ ToCleanUp(j) \subseteq Index
        /\ waitState' \in [Index -> States]
        /\ waitState'[j] # "EStateTakeAction"
        /\ \A k \in Index : k # j => waitState'[k] = waitState[k]
    BY <1>13, RestFacts DEF TimerStep, HandleTimeoutCallback, TypeOK, States
  <2>2. StartsPending' /\ WaitsIdle' /\ RestHeld' /\ ObserversWait'
    BY <1>13, <2>1, CleanUpFacts DEF TimerStep, HandleTimeoutCallback, evars
  <2>3. rest' \in [Index -> SUBSET Index]
    BY <1>13 DEF TimerStep, HandleTimeoutCallback, TypeOK
  <2>4. TypeOK'
    BY <1>13, <2>1, <2>3, CancelFacts, SameList
       DEF TimerStep, HandleTimeoutCallback, evars, TypeOK
  <2>5. RequestHeld' /\ ListOwned'
    BY <1>13 DEF TimerStep, HandleTimeoutCallback, evars, RequestHeld, ListOwned
  <2> QED
    BY <2>2, <2>4, <2>5
<1>14. ASSUME CancelExecutor, message' \in {"KErrCancel", "abandoned"} PROVE IInv'
  BY <1>14, CancelInv
<1>15. ASSUME DeleterRegisters PROVE IInv'
  <2>0. First(PendingCommands) \in PendingCommands /\ PendingCommands \subseteq Starters
    <3>1. PendingCommands \subseteq Starters /\ PendingCommands \in SUBSET Nat
      BY ListFacts DEF PendingCommands, IsDeferred, Starters, Waits
    <3> QED
      BY <1>15, <3>1, FirstIn DEF DeleterRegisters
  <2>7. /\ First(PendingCommands) \in Starters
        /\ completion[First(PendingCommands)] = "KRequestPending"
    BY <2>0 DEF PendingCommands
  <2>1. TypeOK'
    BY <1>15, SameList DEF DeleterRegisters, DeleterRuns, evars, wvars, TypeOK
  <2>2. RequestHeld'
    BY <1>15 DEF DeleterRegisters, evars, RequestHeld
  <2>3. StartsPending' /\ WaitsIdle'
    <3>1. StartsPending'
      BY <1>15, SameList DEF DeleterRegisters, evars, StartsPending
    <3>2. WaitsIdle'
      BY <1>15, <2>0, SameList, ListFacts DEF DeleterRegisters, WaitsIdle
    <3> QED
      BY <3>1, <3>2
  <2>4. RestHeld'
    BY <1>15, RestSame DEF DeleterRegisters, evars, wvars
  <2>5. ObserversWait'
    <3>1. ASSUME NEW k \in Starters
          PROVE  /\ observer'[k] # "none" => completion[k] = "KRequestPending"
                 /\ observer'[k] = "wait" => \E m \in Waits : k \in rest[m]
                 /\ observer'[k] = "deleter" => list = "deferred"
      <4>1. CASE k = First(PendingCommands)
        BY <1>15, <2>7, <4>1, ListFacts DEF DeleterRegisters, DeleterRuns, TypeOK
      <4>2. CASE k # First(PendingCommands)
        BY <1>15, <4>2 DEF DeleterRegisters, ObserversWait
      <4> QED
        BY <4>1, <4>2
    <3> QED
      BY <1>15, <3>1, SameList DEF DeleterRegisters, wvars, ObserversWait
  <2>6. ListOwned'
    BY <1>15 DEF DeleterRegisters, evars, ListOwned
  <2> QED
    BY <2>1, <2>2, <2>3, <2>4, <2>5, <2>6
<1>16. ASSUME DeleterDeletes PROVE IInv'
  <2>1. TypeOK'
    BY <1>16, SameList DEF DeleterDeletes, evars, wvars, TypeOK
  <2>2. RequestHeld'
    BY <1>16 DEF DeleterDeletes, evars, RequestHeld
  <2>3. StartsPending' /\ WaitsIdle'
    BY <1>16, SameList DEF DeleterDeletes, evars, StartsPending, WaitsIdle
  <2>4. RestHeld'
    BY <1>16, SameList DEF DeleterDeletes, evars, wvars, RestHeld
  <2>5. ObserversWait'
    BY <1>16, SameList, ListFacts DEF DeleterDeletes, DeleterRuns, wvars, ObserversWait
  <2>6. ListOwned'
    BY <1>16, SameList DEF DeleterDeletes, DeleterRuns, evars, ListOwned, PendingCommands
  <2> QED
    BY <2>1, <2>2, <2>3, <2>4, <2>5, <2>6
<1>17. CASE UNCHANGED vars
  <2>1. TypeOK'
    BY <1>17, SameList DEF vars, evars, wvars, TypeOK
  <2>2. RequestHeld'
    BY <1>17 DEF vars, evars, RequestHeld
  <2>3. StartsPending' /\ WaitsIdle'
    BY <1>17, SameList DEF vars, evars, StartsPending, WaitsIdle
  <2>4. RestHeld'
    BY <1>17, SameList DEF vars, evars, wvars, RestHeld
  <2>5. ObserversWait'
    BY <1>17, SameList DEF vars, wvars, ObserversWait
  <2>6. ListOwned'
    BY <1>17, SameList DEF vars, evars, ListOwned, PendingCommands
  <2> QED
    BY <2>1, <2>2, <2>3, <2>4, <2>5, <2>6
<1> QED
  BY <1>1, <1>2, <1>3, <1>4, <1>5, <1>6, <1>7, <1>8, <1>9, <1>10, <1>11, <1>12,
     <1>13, <1>14, <1>15, <1>16, <1>17
     DEF Next, ExecutorStep, WaitStep, DeleterStep, ExecuteCommandListCancel,
         DeregisterSession

(***************************************************************************)
(* Every reachable state satisfies the inductive invariant.                *)
(***************************************************************************)
THEOREM Invariance == Spec => []IInv
<1>1. Init => IInv
  BY InitInv
<1>2. IInv /\ [Next]_vars => IInv'
  BY NextInv
<1> QED
  BY <1>1, <1>2, PTL DEF Spec

\* The state of the list, its executor, commands and waits has its type.
THEOREM TypeCorrect == Spec => []TypeOK
<1>1. IInv => TypeOK
  BY DEF IInv
<1> QED
  BY <1>1, Invariance, PTL

-----------------------------------------------------------------------------
(***************************************************************************)
(* Deleting an active executor ends: CActive::Cancel waits for a request   *)
(* that CSsmCmdListExecutor::DoCancel completes, because it is on the      *)
(* delay timer or with the current command.                                *)
(***************************************************************************)
THEOREM CancelEnds == Spec => []CancelNeverHangs
<1>1. IInv => CancelNeverHangs
  <2> SUFFICES ASSUME IInv, estatus = "KRequestPending", ~timing
               PROVE  execRequest = CurrentCommand
    BY DEF CancelNeverHangs
  <2>1. execRequest # 0 /\ execRequest = index
    BY DEF IInv, RequestHeld
  <2> QED
    BY <2>1 DEF CurrentCommand
<1> QED
  BY <1>1, Invariance, PTL

(***************************************************************************)
(* No command keeps the request of an executor that is gone, and when the  *)
(* list is deleted none of its commands is with StartSafe, is observed, or *)
(* is left for a multiple wait to clean up.                                *)
(***************************************************************************)
THEOREM NoDangling == Spec => []NothingDangles
<1>1. IInv => NothingDangles
  <2> SUFFICES ASSUME IInv PROVE NothingDangles
    OBVIOUS
  <2>1. estatus = "inactive" => execRequest = 0
    BY DEF IInv, RequestHeld
  <2>2. ASSUME list = "deleted", NEW i \in Index
        PROVE  start[i] = "idle" /\ observer[i] = "none" /\ rest[i] = {}
    <3>1. execRequest = 0 /\ PendingCommands = {}
      BY <2>1, <2>2 DEF IInv, ListOwned
    <3>2. \A j \in Index : rest[j] = {}
      BY <3>1, ListFacts DEF IInv, RestHeld
    <3>3. CASE i \in Waits
      BY <3>2, <3>3 DEF IInv, WaitsIdle
    <3>4. CASE i \in Starters
      <4>1. start[i] = "idle"
        BY <3>1, <3>4, ListFacts DEF IInv, StartsPending, PendingCommands
      <4>2. observer[i] \notin {"wait", "deleter"}
        BY <2>2, <3>2, <3>4, ListFacts DEF IInv, ObserversWait
      <4>3. observer[i] \in {"none", "wait", "deleter"}
        BY DEF IInv, TypeOK
      <4> QED
        BY <3>2, <4>1, <4>2, <4>3
    <3> QED
      BY <3>3, <3>4 DEF Starters
  <2> QED
    BY <2>1, <2>2 DEF NothingDangles
<1> QED
  BY <1>1, Invariance, PTL

-----------------------------------------------------------------------------
\* Cancelling commands takes observers away and registers none.
LEMMA CancelObserves ==
  ASSUME NEW S, CancelCommands(S), NEW i \in Index
  PROVE  observer'[i] \in {observer[i], "none"}
BY DEF CancelCommands

(***************************************************************************)
(* A step registers an observer only with a command that has none.         *)
(***************************************************************************)
LEMMA StepObserves ==
  ASSUME IInv, Next, NEW i \in Index, observer'[i] # observer[i]
  PROVE  "none" \in {observer[i], observer'[i]}
<1> DEFINE Done == "none" \in {observer[i], observer'[i]}
<1>0. observer \in [Index -> {"none", "wait", "deleter"}]
  BY DEF IInv, TypeOK
<1>1. CASE ExecutorStep
  BY <1>1, CancelObserves
     DEF ExecutorStep, ListFails, ListCompletes, StartDelay, DelayOver, SkipCommand,
         ExecuteStarter, ExecuteMultipleWait, ExecuteNext
<1>2. ASSUME NEW k \in Index, StarterRuns(k) \/ StartSafeStep(k) PROVE Done
  BY <1>0, <1>2 DEF StarterRuns, CompleteDeferredExecuteRequest, StartSafeStep,
                    StartSafeAnswers
<1>3. ASSUME NEW j \in Index, WaitStep(j) PROVE Done
  <2>1. CASE TakeAction(j) \/ TimerExpired(j)
    BY <2>1, CancelObserves DEF TakeAction, GiveUp, TimerExpired
  <2>2. CASE CheckCompletion(j)
    <3>1. CASE observer' = observer \/ CancelCommands(ToCleanUp(j))
      BY <3>1, CancelObserves
    <3>2. CASE /\ Stops(j) # {}
               /\ observer' = [observer EXCEPT ![First(Stops(j))] = "wait"]
      <4>1. i = First(Stops(j))
        BY <1>0, <3>2
      <4>2. Stops(j) \subseteq rest[j] /\ Stops(j) \subseteq Nat
        BY RestFacts, ListFacts DEF Stops, IInv
      <4>3. i \in rest[j]
        BY <3>2, <4>1, <4>2, FirstIn
      <4>4. observer[i] # "wait"
        BY <2>2, <4>3 DEF CheckCompletion, WaitRuns
      <4>5. observer[i] # "deleter"
        BY <4>3, RestFacts, ListFacts DEF IInv, ObserversWait, ListOwned, RequestHeld
      <4> QED
        BY <1>0, <4>4, <4>5
    <3> QED
      BY <2>2, <3>1, <3>2 DEF CheckCompletion, GiveUp
  <2> QED
    BY <1>3, <2>1, <2>2 DEF WaitStep
<1>4. ASSUME NEW j \in Index, TimerStep(j) PROVE Done
  BY <1>4, CancelObserves DEF TimerStep, HandleTimeoutCallback
<1>5. CASE ExecuteCommandListCancel \/ DeregisterSession
  BY <1>5, CancelObserves DEF ExecuteCommandListCancel, DeregisterSession, CancelExecutor
<1>6. CASE DeleterStep
  <2>1. CASE DeleterRegisters
    <3>1. list = "deferred" /\ observer[i] # "deleter" /\ PendingCommands # {}
          /\ observer' = [observer EXCEPT ![First(PendingCommands)] = "deleter"]
      BY <2>1 DEF DeleterRegisters, DeleterRuns
    <3>2. i \in PendingCommands
      <4>1. PendingCommands \subseteq Nat
        BY ListFacts DEF PendingCommands, IInv
      <4>2. i = First(PendingCommands)
        BY <1>0, <3>1
      <4> QED
        BY <3>1, <4>1, <4>2, FirstIn
    <3>3. i \in Starters
      BY <3>2 DEF PendingCommands, IsDeferred, Starters, Waits
    <3>4. estatus = "inactive"
      BY <3>1 DEF IInv, ListOwned
    <3>5. \A j \in Waits : rest[j] = {}
      BY <3>4, ListFacts DEF IInv, RestHeld, RequestHeld
    <3>6. observer[i] # "wait"
      BY <3>3, <3>5 DEF IInv, ObserversWait
    <3> QED
      BY <1>0, <3>1, <3>6
  <2> QED
    BY <1>6, <2>1 DEF DeleterStep, DeleterDeletes
<1> QED
  BY <1>1, <1>2, <1>3, <1>4, <1>5, <1>6 DEF Next

(***************************************************************************)
(* A multiple wait and the deferred deleter never register with a command  *)
(* that has an observer, the assertion of RegisterCompletionObserver.      *)
(***************************************************************************)
THEOREM OneObserverEach == Spec => OneObserver
<1>1. IInv /\ [Next]_vars =>
        [\A i \in Index : observer'[i] # observer[i] =>
           "none" \in {observer[i], observer'[i]}]_vars
  BY StepObserves
<1> QED
  BY <1>1, Invariance, PTL DEF Spec, OneObserver

-----------------------------------------------------------------------------
\* What the list waits for before position n is done.
Done(n) == \A k \in Awaited(n) : Succeeded(k)

(***************************************************************************)
(* How far the list has got: what it waits for before the current command  *)
(* is done, and the current command too once the request is completed      *)
(* without an error.  A wait that has not timed out has left only commands *)
(* that are done.                                                          *)
(***************************************************************************)
Progress ==
  /\ estatus = "KErrNone" \/ timing => Done(index + 1)
  /\ estatus # "inactive" => Done(index)
  /\ \A j \in Waits :
       execRequest = j => /\ cmds[j].condition
                          /\ waitState[j] # "inactive"
                          /\ waitState[j] # "EStateTimerExpired" =>
                               \A k \in DeferredCommands(j) \ rest[j] : Succeeded(k)

(***************************************************************************)
(* A multiple wait that is to act on a command is still registered with    *)
(* it, or the command has completed.                                       *)
(***************************************************************************)
Woken ==
  \A j \in Waits :
    waitState[j] = "EStateTakeAction" =>
      \/ observer[First(rest[j])] = "wait"
      \/ completion[First(rest[j])] # "KRequestPending"

OrderInv == Progress /\ InOrder /\ SuccessMeansDone

\* The commands that hold up position n.
LEMMA AwaitedFacts ==
  ASSUME TypeOK, NEW n \in Nat, NEW k
  PROVE  /\ k \in Awaited(n) =>
              \/ k \in Starters /\ k < n /\ cmds[k].kind # "ESsmDeferredWaitForSignal"
              \/ \E j \in Waits : j < n /\ cmds[j].condition /\ k \in DeferredCommands(j)
         /\ k \in Awaited(n) => k \in Starters /\ k < n
<1>1. k \in Awaited(n) =>
        \/ k \in Starters /\ k < n /\ cmds[k].kind # "ESsmDeferredWaitForSignal"
        \/ \E j \in Waits : j < n /\ cmds[j].condition /\ k \in DeferredCommands(j)
  BY DEF Awaited
<1>2. ASSUME NEW j \in Waits, j < n, k \in DeferredCommands(j)
      PROVE  k \in Starters /\ k < n
  BY <1>2, DeferredFacts, ListFacts
<1> QED
  BY <1>1, <1>2

(***************************************************************************)
(* The next command adds itself, or what it waits for, to what holds up    *)
(* the commands after it.                                                  *)
(***************************************************************************)
LEMMA AwaitedNext ==
  ASSUME TypeOK, NEW n \in Index, NEW k \in Awaited(n + 1), k \notin Awaited(n)
  PROVE  \/ n \in Starters /\ k = n /\ cmds[n].kind # "ESsmDeferredWaitForSignal"
         \/ n \in Waits /\ cmds[n].condition /\ k \in DeferredCommands(n)
<1>1. n \in Nat /\ Index \subseteq Nat
  BY ListFacts
<1>2. CASE k \in Starters /\ k < n + 1 /\ cmds[k].kind # "ESsmDeferredWaitForSignal"
  <2>1. k \in Nat /\ ~(k < n)
    BY <1>1, <1>2, ListFacts DEF Awaited
  <2>2. k = n
    BY <1>1, <1>2, <2>1
  <2> QED
    BY <1>2, <2>2
<1>3. ASSUME NEW j \in Waits, j < n + 1, cmds[j].condition, k \in DeferredCommands(j)
      PROVE  j = n
  <2>1. ~(j < n)
    BY <1>3 DEF Awaited
  <2>2. j \in Nat
    BY ListFacts
  <2> QED
    BY <1>1, <1>3, <2>1, <2>2
<1> QED
  BY <1>1, <1>2, <1>3, AwaitedFacts

\* The conditions and kinds of the commands do not change.
LEMMA SameAwaited ==
  ASSUME cmds' = cmds
  PROVE  \A n : Awaited(n)' = Awaited(n)
BY SameList DEF Awaited

(***************************************************************************)
(* What is done stays done: only the cancellation of the executor          *)
(* completes a command that has been completed, the current one.           *)
(***************************************************************************)
Kept(k) == \/ completion'[k] = completion[k]
           \/ completion[k] = "KRequestPending" /\ completion'[k] # "KRequestPending"

LEMMA DoneStays ==
  ASSUME cmds' = cmds, NEW k, Kept(k), Succeeded(k)
  PROVE  Succeeded(k)'
BY DEF Succeeded, Kept

\* The cancellation of pending commands is no such completion.
LEMMA CancelKeeps ==
  ASSUME TypeOK, NEW S, S \subseteq Index, CancelCommands(S),
         \A i \in S : completion[i] = "KRequestPending", NEW k \in Index
  PROVE  Kept(k)
BY CancelFacts DEF Kept

\* The steps other than the cancellation of the executor.
Uncancelled ==
  \/ ExecutorStep
  \/ \E i \in Index : StarterRuns(i) \/ StartSafeStep(i) \/ WaitStep(i) \/ TimerStep(i)
  \/ DeleterStep

\* None of them completes a command that has been completed.
LEMMA StepKeeps ==
  ASSUME IInv, Uncancelled, NEW k \in Starters
  PROVE  Kept(k)
<1> USE DEF IInv
<1>0. k \in Index /\ k \in Nat
  BY ListFacts
<1>1. CASE ListFails
  <2>1. Unexecuted \subseteq Index /\ \A i \in Unexecuted : completion[i] = "KRequestPending"
    BY <1>1, ListFacts DEF ListFails, ExecutorRuns, Unexecuted, StartsPending
  <2> QED
    BY <1>0, <1>1, <2>1, CancelKeeps DEF ListFails
<1>2. CASE ListCompletes \/ StartDelay \/ DelayOver
  BY <1>2 DEF ListCompletes, StartDelay, DelayOver, Kept
<1>3. ASSUME NEW i \in Index, SkipCommand(i) PROVE Kept(k)
  <2>1. k = i => completion[k] = "KRequestPending"
    BY <1>0, <1>3, ListFacts DEF SkipCommand, ExecuteNext, ExecutorRuns, StartsPending
  <2>2. completion' = [completion EXCEPT ![i] = "KErrNone"] \/ completion' = completion
    BY <1>3 DEF SkipCommand
  <2> QED
    BY <1>0, <2>1, <2>2 DEF Kept, TypeOK
<1>4. ASSUME NEW i \in Index, ExecuteStarter(i) \/ ExecuteMultipleWait(i) PROVE Kept(k)
  BY <1>4 DEF ExecuteStarter, ExecuteMultipleWait, Kept
<1>5. ASSUME NEW i \in Index, StarterRuns(i) PROVE Kept(k)
  <2>1. i \in Starters /\ start[i] \in Codes
        /\ completion' = [completion EXCEPT ![i] = Reported(i, start[i])]
    BY <1>5 DEF StarterRuns, CompleteDeferredExecuteRequest
  <2>2. completion[i] = "KRequestPending" /\ Reported(i, start[i]) # "KRequestPending"
    BY <2>1 DEF Codes, StartsPending, Reported
  <2> QED
    BY <1>0, <2>1, <2>2 DEF Kept, TypeOK
<1>6. ASSUME NEW i \in Index, StartSafeStep(i) PROVE Kept(k)
  BY <1>6 DEF StartSafeStep, StartSafeAnswers, Kept
<1>7. ASSUME NEW j \in Index
      PROVE  /\ ToCleanUp(j) \subseteq Index
             /\ \A i \in ToCleanUp(j) : completion[i] = "KRequestPending"
  BY RestFacts, ListFacts DEF ToCleanUp
<1>8. ASSUME NEW j \in Index, WaitStep(j) PROVE Kept(k)
  <2>1. completion' = completion \/ CancelCommands(ToCleanUp(j))
    BY <1>8 DEF WaitStep, CheckCompletion, TakeAction, TimerExpired, GiveUp
  <2> QED
    BY <1>0, <1>7, <2>1, CancelKeeps DEF Kept
<1>9. ASSUME NEW j \in Index, TimerStep(j) PROVE Kept(k)
  BY <1>0, <1>7, <1>9, CancelKeeps DEF TimerStep, HandleTimeoutCallback
<1>10. CASE DeleterStep
  BY <1>10 DEF DeleterStep, DeleterRegisters, DeleterDeletes, Kept
<1> QED
  BY <1>1, <1>2, <1>3, <1>4, <1>5, <1>6, <1>8, <1>9, <1>10
     DEF Uncancelled, ExecutorStep

\* The list itself does not change.
LEMMA SameCommands == ASSUME Uncancelled PROVE cmds' = cmds
BY DEF Uncancelled, ExecutorStep, ListFails, ListCompletes, StartDelay, DelayOver, SkipCommand,
       ExecuteStarter, ExecuteMultipleWait, ExecuteNext, StarterRuns,
       CompleteDeferredExecuteRequest, StartSafeStep, StartSafeAnswers, WaitStep,
       CheckCompletion, TakeAction, TimerExpired, TimerStep, HandleTimeoutCallback,
       DeleterStep, DeleterRegisters, DeleterDeletes

\* So what the list waits for before a position stays done.
LEMMA StepDone ==
  ASSUME IInv, Uncancelled
  PROVE  /\ cmds' = cmds
         /\ \A k \in Starters : Succeeded(k) => Succeeded(k)'
         /\ \A n \in Nat : Done(n) => Done(n)'
<1>1. cmds' = cmds
  BY SameCommands
<1>2. \A k \in Starters : Succeeded(k) => Succeeded(k)'
  <2> SUFFICES ASSUME NEW k \in Starters, Succeeded(k) PROVE Succeeded(k)'
    OBVIOUS
  <2>1. Kept(k)
    BY StepKeeps
  <2> QED
    BY <1>1, <2>1, DoneStays
<1>3. ASSUME NEW n \in Nat, Done(n) PROVE Done(n)'
  <2> SUFFICES ASSUME NEW k \in Awaited(n)' PROVE Succeeded(k)'
    BY DEF Done
  <2>1. k \in Awaited(n)
    BY <1>1, SameAwaited
  <2>2. k \in Starters
    BY <2>1, AwaitedFacts DEF IInv
  <2> QED
    BY <1>2, <1>3, <2>1, <2>2 DEF Done
<1> QED
  BY <1>1, <1>2, <1>3

-----------------------------------------------------------------------------
\* Before the first command nothing is awaited.
LEMMA InitOrder == Init => OrderInv
<1> SUFFICES ASSUME Init PROVE OrderInv
  OBVIOUS
<1> USE DEF Init
<1>1. TypeOK /\ index = 0
  BY InitInv DEF IInv
<1>2. ASSUME NEW k \in Awaited(0) \cup Awaited(1) PROVE FALSE
  <2>1. k \in Starters /\ (k < 0 \/ k < 1)
    BY <1>1, <1>2, AwaitedFacts
  <2> QED
    BY <1>1, <2>1, ListFacts
<1>3. Progress
  BY <1>1, <1>2, ListFacts DEF Progress, Done
<1>4. InOrder
  BY DEF InOrder, Starters
<1>5. SuccessMeansDone
  BY DEF SuccessMeansDone
<1> QED
  BY <1>3, <1>4, <1>5 DEF OrderInv

(***************************************************************************)
(* What a step that is not a cancellation has to show: what was done stays *)
(* done.                                                                   *)
(***************************************************************************)
LEMMA OrderKept ==
  ASSUME IInv, OrderInv, Uncancelled,
         NEW n \in Nat, index' = n,
         estatus' = "KErrNone" \/ timing' => \A k \in Awaited(n + 1) : Succeeded(k)',
         estatus' # "inactive" => Done(n),
         message' = "KErrNone" => Done(Len(cmds) + 1),
         \A i \in Starters : start'[i] # "idle" => Done(i),
         \A j \in Waits : execRequest' = j =>
           /\ cmds[j].condition
           /\ waitState'[j] # "inactive"
           /\ waitState'[j] # "EStateTimerExpired" =>
                \A k \in DeferredCommands(j) \ rest'[j] : Succeeded(k)'
  PROVE  OrderInv'
<1>1. cmds' = cmds
  BY StepDone
<1>2. Index' = Index /\ Waits' = Waits /\ Starters' = Starters
  BY <1>1, SameList
<1>3. estatus' = "KErrNone" \/ timing' => Done(index + 1)'
  BY <1>1, SameAwaited DEF Done
<1>4. estatus' # "inactive" => Done(index)'
  BY StepDone
<1>5. ASSUME NEW j \in Waits', execRequest' = j
      PROVE  /\ (cmds[j].condition)'
             /\ waitState'[j] # "inactive"
             /\ waitState'[j] # "EStateTimerExpired" =>
                  \A k \in DeferredCommands(j)' \ rest'[j] : Succeeded(k)'
  <2>1. j \in Waits /\ DeferredCommands(j)' = DeferredCommands(j)
    BY <1>1, <1>2, SameList
  <2> QED
    BY <1>1, <1>5, <2>1
<1>6. Progress'
  BY <1>3, <1>4, <1>5 DEF Progress
<1>7. InOrder'
  <2> SUFFICES ASSUME NEW i \in Starters', start'[i] # "idle" PROVE Done(i)'
    BY DEF InOrder, Done
  <2>1. Done(i) /\ i \in Nat
    BY <1>2, ListFacts DEF IInv
  <2> QED
    BY <2>1, StepDone
<1>8. SuccessMeansDone'
  <2>1. Len(cmds) + 1 \in Nat
    BY ListFacts DEF IInv
  <2> QED
    BY <1>1, <2>1, StepDone DEF SuccessMeansDone, Done
<1> QED
  BY <1>6, <1>7, <1>8 DEF OrderInv

(***************************************************************************)
(* A step that starts nothing, and leaves the executor at its command      *)
(* unless it deletes it.                                                   *)
(***************************************************************************)
LEMMA OrderStays ==
  ASSUME IInv, OrderInv, Uncancelled,
         index' \in Nat,
         estatus' = "KErrNone" \/ timing' => index' = index /\ Done(index + 1),
         estatus' # "inactive" => index' = index /\ estatus # "inactive",
         message' = "KErrNone" => message = "KErrNone" \/ Done(Len(cmds) + 1),
         \A i \in Starters : start'[i] # "idle" => start[i] # "idle",
         \A j \in Waits : execRequest' = j =>
           /\ execRequest = j
           /\ waitState'[j] # "inactive"
           /\ waitState'[j] # "EStateTimerExpired" =>
                \A k \in DeferredCommands(j) \ rest'[j] : Succeeded(k)
  PROVE  OrderInv'
<1> DEFINE n == index'
<1>1. n \in Nat /\ index + 1 \in Nat
  BY ListFacts DEF IInv
<1>2. ASSUME estatus' = "KErrNone" \/ timing', NEW k \in Awaited(n + 1)
      PROVE  Succeeded(k)'
  <2>1. k \in Starters /\ Succeeded(k)
    BY <1>1, <1>2, AwaitedFacts DEF Done, IInv
  <2> QED
    BY <2>1, StepDone
<1>3. estatus' # "inactive" => Done(n)
  BY DEF OrderInv, Progress
<1>4. message' = "KErrNone" => Done(Len(cmds) + 1)
  BY DEF OrderInv, SuccessMeansDone, Done
<1>5. \A i \in Starters : start'[i] # "idle" => Done(i)
  BY DEF OrderInv, InOrder, Done
<1>6. ASSUME NEW j \in Waits, execRequest' = j
      PROVE  /\ cmds[j].condition
             /\ waitState'[j] # "inactive"
             /\ waitState'[j] # "EStateTimerExpired" =>
                  \A k \in DeferredCommands(j) \ rest'[j] : Succeeded(k)'
  <2>1. \A k \in DeferredCommands(j) : k \in Starters
    BY DeferredFacts DEF IInv, Waits
  <2> QED
    BY <1>6, <2>1, StepDone DEF OrderInv, Progress
<1> HIDE DEF n
<1>7. index' = n
  BY DEF n
<1> QED
  BY <1>1, <1>2, <1>3, <1>4, <1>5, <1>6, <1>7, OrderKept

(***************************************************************************)
(* The cancellation of the executor, which completes the current command   *)
(* again: nothing started waits for that one, and the client is not told   *)
(* of success.                                                             *)
(***************************************************************************)
LEMMA OrderCancelled ==
  ASSUME IInv, OrderInv, CancelExecutor, message' # "KErrNone" PROVE OrderInv'
<1> DEFINE j == CurrentCommand
           stopped == IF j \in Waits THEN ToCleanUp(j) ELSE {j}
<1>1. cmds' = cmds /\ CancelCommands(stopped) /\ estatus' = "inactive" /\ ~timing'
  BY DEF CancelExecutor, DeleteExecutor
<1>2. Index' = Index /\ Waits' = Waits /\ Starters' = Starters
  BY <1>1, SameList
<1>3. j \in Index /\ (index > 0 => j = index)
  BY ListFacts DEF CurrentCommand, IInv
<1>4. stopped \subseteq Index
  BY <1>3, RestFacts, ListFacts DEF IInv
<1> HIDE DEF stopped
<1>5. ASSUME NEW w \in Waits PROVE execRequest' # w
  <2>1. execRequest = w => w = j
    BY <1>3, ListFacts DEF IInv, RequestHeld
  <2> QED
    BY <1>3, <2>1, ListFacts DEF CancelExecutor, IInv
<1>6. Progress'
  BY <1>1, <1>2, <1>5 DEF Progress
<1>7. ASSUME NEW i \in Starters, start'[i] # "idle", NEW k \in Awaited(i)
      PROVE  Succeeded(k)'
  <2>1. i \in Index /\ k \in Starters /\ k \in Index /\ k < i
    BY ListFacts, AwaitedFacts DEF IInv
  <2>2. start[i] # "idle"
    BY <1>1, <1>4, <1>7, <2>1, CancelFacts DEF IInv
  <2>3. i <= index /\ Succeeded(k)
    BY <1>7, <2>2 DEF IInv, StartsPending, OrderInv, InOrder
  <2>4. k # j
    BY <1>3, <2>1, <2>3, ListFacts DEF IInv
  <2>5. Kept(k)
    <3>1. k \in stopped => completion[k] = "KRequestPending"
      BY <2>4 DEF stopped, ToCleanUp
    <3> QED
      BY <1>1, <1>4, <2>1, <3>1, CancelFacts DEF Kept, IInv
  <2> QED
    BY <1>1, <2>3, <2>5, DoneStays
<1>8. InOrder'
  BY <1>1, <1>2, <1>7, SameAwaited DEF InOrder
<1> QED
  BY <1>6, <1>8 DEF OrderInv, SuccessMeansDone

\* A step that leaves the waits and the executor's request alone, or drops it.
LEMMA WaitsKept ==
  ASSUME IInv, OrderInv, waitState' = waitState, rest' = rest,
         execRequest' \in {0, execRequest},
         NEW j \in Waits, execRequest' = j
  PROVE  /\ execRequest = j
         /\ waitState'[j] # "inactive"
         /\ waitState'[j] # "EStateTimerExpired" =>
              \A k \in DeferredCommands(j) \ rest'[j] : Succeeded(k)
<1>1. j # 0
  BY ListFacts DEF IInv
<1> QED
  BY <1>1 DEF OrderInv, Progress

\* A step that touches neither the executor nor a wait.
LEMMA QuietOrder ==
  ASSUME IInv, OrderInv, Uncancelled, evars' = evars, wvars' = wvars, message' = message,
         \A m \in Starters : start'[m] # "idle" => start[m] # "idle"
  PROVE  OrderInv'
<1>1. /\ index' = index /\ estatus' = estatus /\ timing' = timing
      /\ execRequest' = execRequest /\ waitState' = waitState /\ rest' = rest
  BY DEF evars, wvars
<1>2. estatus' = "KErrNone" \/ timing' => Done(index + 1)
  BY <1>1 DEF OrderInv, Progress
<1>3. index \in Nat
  BY ListFacts DEF IInv
<1> QED
  BY <1>1, <1>2, <1>3, WaitsKept, OrderStays

\* The cancellation of commands starts none.
LEMMA CancelStarts ==
  ASSUME NEW S, CancelCommands(S), NEW m \in Starters, start'[m] # "idle"
  PROVE  start[m] # "idle"
BY DEF CancelCommands, Starters

-----------------------------------------------------------------------------
\* A wait loses its registration with a command only when that completes.
LEMMA ObserverStays ==
  ASSUME IInv, Uncancelled, NEW i \in Starters, observer[i] = "wait"
  PROVE  observer'[i] = "wait" \/ completion'[i] # "KRequestPending"
<1> DEFINE Stays == observer'[i] = "wait" \/ completion'[i] # "KRequestPending"
<1>0. i \in Index
  BY DEF Starters
<1>1. ASSUME NEW S, CancelCommands(S) PROVE Stays
  BY <1>0, <1>1 DEF CancelCommands
<1>2. CASE ExecutorStep
  BY <1>1, <1>2 DEF ExecutorStep, ListFails, ListCompletes, StartDelay, DelayOver,
                    SkipCommand, ExecuteStarter, ExecuteMultipleWait, ExecuteNext
<1>3. ASSUME NEW k \in Index, StarterRuns(k) \/ StartSafeStep(k) PROVE Stays
  BY <1>0, <1>3 DEF StarterRuns, CompleteDeferredExecuteRequest, StartSafeStep,
                    StartSafeAnswers, Reported, Codes, IInv, TypeOK
<1>4. ASSUME NEW j \in Index, WaitStep(j) \/ TimerStep(j) PROVE Stays
  <2>1. \/ observer' = observer \/ CancelCommands(ToCleanUp(j))
        \/ \E k : observer' = [observer EXCEPT ![k] = "wait"]
    BY <1>4 DEF WaitStep, CheckCompletion, TakeAction, TimerExpired, GiveUp, TimerStep,
                HandleTimeoutCallback
  <2> QED
    BY <1>0, <1>1, <2>1 DEF IInv, TypeOK
<1>5. CASE DeleterStep
  <2>1. CASE DeleterRegisters
    <3>1. estatus = "inactive"
      BY <2>1 DEF DeleterRegisters, DeleterRuns, IInv, ListOwned
    <3>2. \A j \in Waits : rest[j] = {}
      BY <3>1, ListFacts DEF IInv, RestHeld, RequestHeld
    <3> QED
      BY <3>2 DEF IInv, ObserversWait
  <2> QED
    BY <1>5, <2>1 DEF DeleterStep, DeleterDeletes
<1> QED
  BY <1>2, <1>3, <1>4, <1>5 DEF Uncancelled

\* What a wait acts on stays the same while others run.
LEMMA UncancelledWoken == ASSUME IInv, Woken, Uncancelled PROVE Woken'
<1> USE DEF IInv
<1>0. /\ cmds' = cmds /\ Waits' = Waits /\ Waits \subseteq Index
      /\ waitState \in [Index -> States] /\ rest \in [Index -> SUBSET Index]
  BY SameCommands, SameList, ListFacts DEF TypeOK
<1> SUFFICES ASSUME NEW j \in Waits, waitState'[j] = "EStateTakeAction"
             PROVE  \/ observer'[First(rest'[j])] = "wait"
                    \/ completion'[First(rest'[j])] # "KRequestPending"
  BY <1>0 DEF Woken, First
<1>1. CASE waitState[j] = "EStateTakeAction" /\ rest'[j] = rest[j]
  <2>1. First(rest[j]) \in Starters
    BY <1>0, <1>1, ListFacts, RestFacts, FirstIn DEF RestHeld
  <2>2. \/ observer[First(rest[j])] = "wait"
        \/ completion[First(rest[j])] # "KRequestPending"
    BY <1>1 DEF Woken
  <2>3. completion[First(rest[j])] # "KRequestPending"
          => completion'[First(rest[j])] # "KRequestPending"
    BY <2>1, StepKeeps DEF Kept
  <2> QED
    BY <1>1, <2>1, <2>2, <2>3, ObserverStays
<1>2. CASE waitState'[j] = waitState[j] /\ rest'[j] = rest[j]
  BY <1>1, <1>2
<1>3. CASE ExecutorStep
  BY <1>0, <1>2, <1>3 DEF ExecutorStep, ListFails, ListCompletes, StartDelay, DelayOver,
                    SkipCommand, ExecuteStarter, ExecuteMultipleWait, ExecuteNext, wvars
<1>4. ASSUME NEW k \in Index, StarterRuns(k) \/ StartSafeStep(k)
      PROVE  waitState'[j] = waitState[j] /\ rest'[j] = rest[j]
  BY <1>4 DEF StarterRuns, CompleteDeferredExecuteRequest, StartSafeStep,
              StartSafeAnswers, wvars
<1>5. ASSUME NEW w \in Index, w # j, WaitStep(w) \/ TimerStep(w)
      PROVE  waitState'[j] = waitState[j] /\ rest'[j] = rest[j]
  BY <1>0, <1>5 DEF WaitStep, CheckCompletion, TakeAction, TimerExpired, GiveUp, TimerStep,
                    HandleTimeoutCallback
<1>6. CASE WaitStep(j)
  <2>1. /\ CheckCompletion(j) /\ Stops(j) # {}
        /\ rest' = [rest EXCEPT ![j] = {k \in @ : k >= First(Stops(j))}]
        /\ observer' = [observer EXCEPT ![First(Stops(j))] = "wait"]
    BY <1>0, <1>6 DEF WaitStep, CheckCompletion, TakeAction, TimerExpired, GiveUp, WaitRuns
  <2>2. Stops(j) \subseteq rest[j] /\ rest[j] \subseteq Nat /\ rest[j] \subseteq Index
    BY <1>0, ListFacts DEF Stops
  <2>3. First(Stops(j)) \in rest[j] /\ First(Stops(j)) \in Index
    BY <2>1, <2>2, FirstIn
  <2>4. rest'[j] = {k \in rest[j] : k >= First(Stops(j))}
    BY <1>0, <2>1
  <2>5. First(Stops(j)) \in rest'[j] /\ rest'[j] \subseteq Nat
        /\ \A k \in rest'[j] : First(Stops(j)) <= k
    BY <2>2, <2>3, <2>4
  <2>6. First(rest'[j]) = First(Stops(j))
    <3> DEFINE i == First(Stops(j))
               S == rest'[j]
    <3>1. S \in SUBSET Nat /\ i \in S /\ \A k \in S : i <= k
      BY <2>5
    <3> HIDE DEF i, S
    <3>2. First(S) \in S /\ First(S) <= i /\ S # {}
      BY <3>1, FirstIn
    <3>3. i <= First(S) /\ i \in Nat /\ First(S) \in Nat
      BY <3>1, <3>2
    <3>4. First(S) = i
      BY <3>2, <3>3
    <3> QED
      BY <3>4 DEF i, S
  <2> QED
    BY <2>1, <2>3, <2>6 DEF TypeOK
<1>7. CASE TimerStep(j)
  BY <1>0, <1>7 DEF TimerStep, HandleTimeoutCallback
<1>8. CASE DeleterStep
  BY <1>2, <1>8 DEF DeleterStep, DeleterRegisters, DeleterDeletes, wvars
<1> QED
  BY <1>2, <1>3, <1>4, <1>5, <1>6, <1>7, <1>8 DEF Uncancelled

\* The cancellation stops the wait that runs.
LEMMA WokenCancelled == ASSUME IInv, CancelExecutor PROVE Woken'
<1> USE DEF IInv
<1>1. cmds' = cmds /\ Waits' = Waits /\ Waits \subseteq Index
  BY SameList, ListFacts DEF CancelExecutor
<1>2. ASSUME NEW j \in Waits PROVE waitState'[j] # "EStateTakeAction"
  <2>1. waitState[j] = "EStateTakeAction" => j = CurrentCommand
    BY ListFacts DEF RestHeld, RequestHeld, CurrentCommand
  <2> QED
    BY <1>1, <2>1 DEF CancelExecutor, TypeOK
<1> QED
  BY <1>1, <1>2 DEF Woken

\* A command a wait has left is one it stops at, or is done.
LEMMA StoppedOrDone ==
  ASSUME TypeOK, NEW j, NEW k,
         \/ k \in rest[j] /\ k \notin Stops(j)
         \/ ~Failed(k) /\ completion[k] # "KRequestPending"
  PROVE  Succeeded(k)
BY DEF Stops, Failed, Succeeded

\* A wait is woken when the command it is to act on has completed.
LEMMA ActedOnce ==
  ASSUME IInv, Woken, NEW j \in Waits, TakeAction(j)
  PROVE  completion[First(rest[j])] # "KRequestPending"
<1>1. rest[j] # {} /\ rest[j] \subseteq Nat
  BY ListFacts DEF TakeAction, WaitRuns, IInv, RestHeld, TypeOK
<1>2. observer[First(rest[j])] # "wait"
  BY <1>1, FirstIn DEF TakeAction, WaitRuns
<1> QED
  BY <1>2 DEF Woken, TakeAction, WaitRuns

\* The request of the executor is completed with KErrNone in one way.
LEMMA CompletesDone ==
  ASSUME IInv, NEW j \in Waits, WaitStep(j), execRequest = j,
         estatus # "KErrNone", estatus' = "KErrNone"
  PROVE  CheckCompletion(j) /\ Stops(j) = {}
<1>1. ASSUME NEW i, Failed(i) PROVE completion[i] # "KErrNone"
  BY <1>1 DEF Failed
<1> QED
  BY <1>1 DEF WaitStep, CheckCompletion, TakeAction, TimerExpired, GiveUp,
              CompleteExecuteRequest

(***************************************************************************)
(* A multiple wait completes the executor's request without an error only  *)
(* when it has no command left that is pending or has failed.              *)
(***************************************************************************)
LEMMA WaitOrder ==
  ASSUME IInv, Woken, OrderInv, NEW j \in Index, WaitStep(j) PROVE OrderInv'
<1> USE DEF IInv
<1>0. /\ index \in Nat /\ index + 1 \in Nat /\ j \in Waits /\ j \in Nat /\ j # 0
      /\ waitState \in [Index -> States] /\ rest \in [Index -> SUBSET Index]
  BY ListFacts DEF WaitStep, TypeOK
<1>1. /\ index' = index /\ timing' = timing /\ message' = message /\ Uncancelled
  BY DEF WaitStep, CheckCompletion, TakeAction, TimerExpired, Uncancelled
<1>2. \A m \in Starters : start'[m] # "idle" => start[m] # "idle"
  <2>1. start' = start \/ CancelCommands(ToCleanUp(j))
    BY DEF WaitStep, CheckCompletion, TakeAction, TimerExpired, GiveUp
  <2> QED
    BY <2>1, CancelStarts
<1>3. /\ execRequest' \in {0, execRequest}
      /\ \A w \in Waits : w # j => waitState'[w] = waitState[w] /\ rest'[w] = rest[w]
  BY <1>0 DEF WaitStep, CheckCompletion, TakeAction, TimerExpired, GiveUp,
              CompleteExecuteRequest, Waits
<1>4. ASSUME NEW w \in Waits, w # j, execRequest' = w
      PROVE  /\ execRequest = w
             /\ waitState'[w] # "inactive"
             /\ waitState'[w] # "EStateTimerExpired" =>
                  \A k \in DeferredCommands(w) \ rest'[w] : Succeeded(k)
  <2>1. execRequest = w
    BY <1>3, <1>4, ListFacts
  <2> QED
    BY <1>3, <1>4, <2>1 DEF OrderInv, Progress
<1>5. ASSUME execRequest = j
      PROVE  index = j /\ ~timing /\ estatus = "KRequestPending" /\ Done(j)
             /\ cmds[j].condition
  BY <1>0, <1>5 DEF RequestHeld, OrderInv, Progress
<1>6. estatus' = estatus \/ execRequest = j
  BY DEF WaitStep, CheckCompletion, TakeAction, TimerExpired, GiveUp,
         CompleteExecuteRequest
<1>7. estatus' # "inactive" => estatus # "inactive"
  BY <1>5, <1>6
<1>8. ASSUME execRequest' = j
      PROVE  /\ execRequest = j
             /\ waitState'[j] # "inactive"
             /\ waitState'[j] # "EStateTimerExpired" =>
                  \A k \in DeferredCommands(j) \ rest'[j] : Succeeded(k)
  <2>1. execRequest = j
    BY <1>0, <1>3, <1>8
  <2>2. CASE CheckCompletion(j)
    <3>1. /\ Stops(j) # {}
          /\ rest' = [rest EXCEPT ![j] = {k \in @ : k >= First(Stops(j))}]
          /\ waitState' = [waitState EXCEPT ![j] = "EStateTakeAction"]
      BY <1>0, <1>8, <2>1, <2>2 DEF CheckCompletion, GiveUp, CompleteExecuteRequest
    <3>2. \A k \in DeferredCommands(j) \ rest[j] : Succeeded(k)
      BY <1>0, <2>1, <2>2 DEF CheckCompletion, WaitRuns, OrderInv, Progress
    <3>3. ASSUME NEW k \in rest[j], k \notin rest'[j] PROVE Succeeded(k)
      <4>1. ~(k >= First(Stops(j)))
        BY <1>0, <3>1, <3>3
      <4>2. Stops(j) \in SUBSET Nat
        BY <1>0, ListFacts DEF Stops
      <4>3. k \in Nat /\ First(Stops(j)) \in Nat
        BY <1>0, <3>1, <4>2, FirstIn, ListFacts
      <4>4. k \notin Stops(j)
        BY <3>1, <4>1, <4>2, <4>3, FirstIn
      <4> QED
        BY <4>4, StoppedOrDone
    <3> QED
      BY <1>0, <2>1, <3>1, <3>2, <3>3
  <2>3. CASE TakeAction(j)
    <3> DEFINE i == First(rest[j])
    <3>1. /\ ~Failed(i) /\ rest' = [rest EXCEPT ![j] = @ \ {i}]
          /\ waitState' = [waitState EXCEPT ![j] = "EStateCheckCompletionStatus"]
      BY <1>0, <1>8, <2>1, <2>3 DEF TakeAction, GiveUp, CompleteExecuteRequest
    <3>2. \A k \in DeferredCommands(j) \ rest[j] : Succeeded(k)
      BY <1>0, <2>1, <2>3 DEF TakeAction, WaitRuns, OrderInv, Progress
    <3>3. Succeeded(i)
      BY <1>0, <3>1, ActedOnce, <2>3, StoppedOrDone
    <3> HIDE DEF i
    <3> QED
      BY <1>0, <2>1, <3>1, <3>2, <3>3
  <2>4. CASE TimerExpired(j)
    BY <1>0, <1>8, <2>1, <2>4 DEF TimerExpired, CompleteExecuteRequest
  <2> QED
    BY <2>2, <2>3, <2>4 DEF WaitStep
<1>9. ASSUME estatus' = "KErrNone" \/ timing' PROVE Done(index + 1)
  <2>1. CASE estatus = "KErrNone" \/ timing
    BY <2>1 DEF OrderInv, Progress
  <2>2. CASE ~(estatus = "KErrNone" \/ timing)
    <3>1. execRequest = j /\ estatus' = "KErrNone" /\ index = j /\ Done(j)
      BY <1>1, <1>5, <1>6, <1>9, <2>2
    <3>2. CheckCompletion(j) /\ Stops(j) = {}
      BY <1>0, <3>1, <2>2, CompletesDone
    <3>3. ASSUME NEW k \in DeferredCommands(j) PROVE Succeeded(k)
      <4>1. k \notin rest[j] => Succeeded(k)
        BY <1>0, <3>1, <3>2 DEF CheckCompletion, WaitRuns, OrderInv, Progress
      <4>2. k \in rest[j] => Succeeded(k)
        BY <3>2, StoppedOrDone
      <4> QED
        BY <4>1, <4>2
    <3>4. ASSUME NEW k \in Awaited(j + 1) PROVE Succeeded(k)
      BY <1>0, <3>1, <3>3, AwaitedNext DEF Done, Starters
    <3> QED
      BY <3>1, <3>4 DEF Done
  <2> QED
    BY <2>1, <2>2
<1> QED
  BY <1>0, <1>1, <1>2, <1>4, <1>7, <1>8, <1>9, OrderStays

\* The timer of a wait that holds the request makes it fail.
LEMMA TimerOrder ==
  ASSUME IInv, OrderInv, NEW j \in Index, TimerStep(j) PROVE OrderInv'
<1> USE DEF IInv
<1>1. /\ evars' = evars /\ message' = message /\ Uncancelled
      /\ CancelCommands(ToCleanUp(j)) /\ rest' = [rest EXCEPT ![j] = {}]
      /\ waitState' = IF waitState[j] = "inactive" THEN waitState
                      ELSE [waitState EXCEPT ![j] = "EStateTimerExpired"]
  BY DEF TimerStep, HandleTimeoutCallback, Uncancelled
<1>2. /\ index' = index /\ estatus' = estatus /\ timing' = timing
      /\ execRequest' = execRequest /\ index \in Nat
  BY <1>1, ListFacts DEF evars
<1>3. estatus' = "KErrNone" \/ timing' => Done(index + 1)
  BY <1>2 DEF OrderInv, Progress
<1>4. ASSUME NEW w \in Waits, execRequest' = w
      PROVE  /\ execRequest = w
             /\ waitState'[w] # "inactive"
             /\ waitState'[w] # "EStateTimerExpired" =>
                  \A k \in DeferredCommands(w) \ rest'[w] : Succeeded(k)
  BY <1>1, <1>2, <1>4 DEF OrderInv, Progress, TypeOK, Waits
<1> QED
  BY <1>1, <1>2, <1>3, <1>4, CancelStarts, OrderStays

(***************************************************************************)
(* Each step but the cancellation keeps the order of execution.            *)
(***************************************************************************)
LEMMA UncancelledOrder == ASSUME IInv, Woken, OrderInv, Uncancelled PROVE OrderInv'
<1> USE DEF IInv
<1>0. index \in Nat /\ Len(cmds) \in Nat
  BY ListFacts
<1>1. ASSUME ListFails \/ ListCompletes \/ StartDelay \/ DelayOver PROVE OrderInv'
  <2>1. /\ index' \in Nat
        /\ estatus' = "KErrNone" \/ timing' => index' = index /\ Done(index + 1)
        /\ estatus' # "inactive" => index' = index /\ estatus # "inactive"
        /\ message' = "KErrNone" => message = "KErrNone" \/ Done(Len(cmds) + 1)
    BY <1>0, <1>1 DEF ListFails, ListCompletes, StartDelay, DelayOver, ExecutorRuns,
                      DeleteExecutor, OrderInv, Progress, RequestHeld
  <2>2. \A i \in Starters : start'[i] # "idle" => start[i] # "idle"
    <3>1. start' = start \/ CancelCommands(Unexecuted)
      BY <1>1 DEF ListFails, ListCompletes, StartDelay, DelayOver
    <3> QED
      BY <3>1 DEF CancelCommands, Starters
  <2>3. waitState' = waitState /\ rest' = rest /\ execRequest' = execRequest
    BY <1>1 DEF ListFails, ListCompletes, StartDelay, DelayOver, wvars
  <2> QED
    BY <1>1, <2>1, <2>2, <2>3, WaitsKept, OrderStays
<1>2. ASSUME NEW i \in Index, SkipCommand(i) PROVE OrderInv'
  <2>1. /\ index' = i /\ i = index + 1 /\ i \in Nat
        /\ Done(i)
    BY <1>0, <1>2 DEF SkipCommand, ExecuteNext, OrderInv, Progress
  <2>2. estatus' = "KErrNone" \/ timing' => \A k \in Awaited(i + 1) : Succeeded(k)'
    <3> SUFFICES ASSUME NEW k \in Awaited(i + 1) PROVE Succeeded(k)'
      OBVIOUS
    <3>1. CASE k \in Awaited(i)
      BY <1>2, <2>1, <3>1, AwaitedFacts, StepDone DEF Done, Uncancelled, ExecutorStep
    <3>2. CASE k \notin Awaited(i)
      <4>1. i \in Starters /\ k = i
        BY <1>2, <3>2, AwaitedNext DEF SkipCommand
      <4>2. completion'[i] = "KErrNone"
        BY <1>2, <4>1 DEF SkipCommand, TypeOK
      <4> QED
        BY <1>2, <4>1, <4>2 DEF Succeeded, SkipCommand, ExecuteNext
    <3> QED
      BY <3>1, <3>2
  <2>3. message' = "KErrNone" => Done(Len(cmds) + 1)
    BY <1>2 DEF SkipCommand, ExecuteNext, OrderInv, SuccessMeansDone, Done
  <2>4. \A m \in Starters : start'[m] # "idle" => Done(m)
    BY <1>2 DEF SkipCommand, OrderInv, InOrder, Done
  <2>5. \A j \in Waits : execRequest' # j
    BY <1>2, ListFacts DEF SkipCommand, ExecuteNext, ExecutorRuns, RequestHeld
  <2>6. Uncancelled
    BY <1>2 DEF Uncancelled, ExecutorStep
  <2> QED
    BY <2>1, <2>2, <2>3, <2>4, <2>5, <2>6, OrderKept
<1>3. ASSUME NEW i \in Index, ExecuteStarter(i) PROVE OrderInv'
  <2>1. /\ index' = i /\ i = index + 1 /\ i \in Nat
        /\ Done(i)
    BY <1>0, <1>3 DEF ExecuteStarter, ExecuteNext, OrderInv, Progress
  <2>2. estatus' = "KErrNone" \/ timing' => \A k \in Awaited(i + 1) : Succeeded(k)'
    <3> SUFFICES ASSUME estatus' = "KErrNone" \/ timing', NEW k \in Awaited(i + 1)
                 PROVE  Succeeded(k)'
      OBVIOUS
    <3>1. ~timing'
      BY <1>3 DEF ExecuteStarter, ExecuteNext, ExecutorRuns, RequestHeld
    <3>2. k \in Awaited(i)
      BY <1>3, <3>1, AwaitedNext DEF ExecuteStarter, Starters
    <3> QED
      BY <1>3, <2>1, <3>2, AwaitedFacts, StepDone DEF Done, Uncancelled, ExecutorStep
  <2>3. message' = "KErrNone" => Done(Len(cmds) + 1)
    BY <1>3 DEF ExecuteStarter, ExecuteNext, OrderInv, SuccessMeansDone, Done
  <2>4. \A m \in Starters : start'[m] # "idle" => Done(m)
    BY <1>3, <2>1 DEF ExecuteStarter, OrderInv, InOrder, Done, TypeOK
  <2>5. \A j \in Waits : execRequest' # j
    BY <1>3, ListFacts DEF ExecuteStarter, Starters
  <2>6. Uncancelled
    BY <1>3 DEF Uncancelled, ExecutorStep
  <2> QED
    BY <2>1, <2>2, <2>3, <2>4, <2>5, <2>6, OrderKept
<1>4. ASSUME NEW i \in Index, ExecuteMultipleWait(i) PROVE OrderInv'
  <2>1. /\ index' = i /\ i = index + 1 /\ i \in Nat
        /\ Done(i)
    BY <1>0, <1>4 DEF ExecuteMultipleWait, ExecuteNext, OrderInv, Progress
  <2>2. estatus' = "KErrNone" \/ timing' => \A k \in Awaited(i + 1) : Succeeded(k)'
    <3> SUFFICES ASSUME estatus' = "KErrNone" \/ timing', NEW k \in Awaited(i + 1)
                 PROVE  Succeeded(k)'
      OBVIOUS
    <3>1. ~timing'
      BY <1>4 DEF ExecuteMultipleWait, ExecuteNext, ExecutorRuns, RequestHeld
    <3>2. DeferredCommands(i) = {}
      BY <1>4, <3>1 DEF ExecuteMultipleWait
    <3>3. k \in Awaited(i)
      BY <1>4, <3>2, AwaitedNext DEF ExecuteMultipleWait, Starters
    <3> QED
      BY <1>4, <2>1, <3>3, AwaitedFacts, StepDone DEF Done, Uncancelled, ExecutorStep
  <2>3. message' = "KErrNone" => Done(Len(cmds) + 1)
    BY <1>4 DEF ExecuteMultipleWait, ExecuteNext, OrderInv, SuccessMeansDone, Done
  <2>4. \A m \in Starters : start'[m] # "idle" => Done(m)
    BY <1>4 DEF ExecuteMultipleWait, OrderInv, InOrder, Done
  <2>5. ASSUME NEW j \in Waits, execRequest' = j
        PROVE  /\ cmds[j].condition
               /\ waitState'[j] # "inactive"
               /\ DeferredCommands(j) \ rest'[j] = {}
    <3>1. j # 0
      BY ListFacts
    <3> QED
      BY <1>4, <2>5, <3>1 DEF ExecuteMultipleWait, TypeOK
  <2>6. Uncancelled
    BY <1>4 DEF Uncancelled, ExecutorStep
  <2> QED
    BY <2>1, <2>2, <2>3, <2>4, <2>5, <2>6, OrderKept
<1>5. ASSUME NEW i \in Index, StarterRuns(i) PROVE OrderInv'
  <2>1. /\ i \in Starters /\ start[i] \in Codes /\ index' = index /\ timing' = timing
        /\ message' = message /\ start' = [start EXCEPT ![i] = "idle"]
        /\ waitState' = waitState /\ rest' = rest
        /\ completion'[i] = Reported(i, start[i])
    BY <1>5 DEF StarterRuns, CompleteDeferredExecuteRequest, wvars, TypeOK
  <2>2. execRequest' \in {0, execRequest}
    BY <1>5 DEF StarterRuns, CompleteDeferredExecuteRequest, CompleteExecuteRequest
  <2>3. Uncancelled
    BY <1>5 DEF Uncancelled
  <2>4. \/ estatus' = estatus
        \/ /\ execRequest = i /\ estatus' = Reported(i, start[i])
           /\ cmds[i].kind # "ESsmDeferredWaitForSignal"
    BY <1>5 DEF StarterRuns, CompleteDeferredExecuteRequest, CompleteExecuteRequest
  <2>5. estatus' # "inactive" => estatus # "inactive"
    BY <2>1, <2>4, ListFacts DEF RequestHeld
  <2>6. ASSUME estatus' = "KErrNone" \/ timing', NEW k \in Awaited(index + 1)
        PROVE  Succeeded(k)'
    <3>1. CASE Done(index + 1)
      BY <1>0, <2>3, <2>6, <3>1, AwaitedFacts, StepDone DEF Done
    <3>2. CASE ~Done(index + 1)
      <4>1. /\ execRequest = i /\ index = i /\ estatus' = Reported(i, start[i])
            /\ estatus' = "KErrNone" /\ Done(i)
        BY <2>1, <2>4, <2>6, <3>2, ListFacts DEF OrderInv, Progress, RequestHeld
      <4>2. CASE k \in Awaited(i)
        BY <1>0, <2>3, <4>1, <4>2, AwaitedFacts, StepDone DEF Done
      <4>3. CASE k \notin Awaited(i)
        <5>1. k = i
          BY <2>1, <2>6, <4>1, <4>3, AwaitedNext DEF Starters
        <5> QED
          BY <2>1, <2>3, <4>1, <5>1, SameCommands DEF Succeeded
      <4> QED
        BY <4>2, <4>3
    <3> QED
      BY <3>1, <3>2
  <2>7. estatus' # "inactive" => Done(index)
    BY <2>5 DEF OrderInv, Progress
  <2>8. message' = "KErrNone" => Done(Len(cmds) + 1)
    BY <2>1 DEF OrderInv, SuccessMeansDone, Done
  <2>9. \A m \in Starters : start'[m] # "idle" => Done(m)
    BY <2>1 DEF OrderInv, InOrder, Done, TypeOK
  <2>10. ASSUME NEW j \in Waits, execRequest' = j
         PROVE  /\ cmds[j].condition
                /\ waitState'[j] # "inactive"
                /\ waitState'[j] # "EStateTimerExpired" =>
                     \A k \in DeferredCommands(j) \ rest'[j] : Succeeded(k)'
    <3>1. \A k \in DeferredCommands(j) : k \in Starters
      BY DeferredFacts DEF Waits
    <3>2. /\ execRequest = j /\ waitState'[j] # "inactive"
          /\ waitState'[j] # "EStateTimerExpired" =>
               \A k \in DeferredCommands(j) \ rest'[j] : Succeeded(k)
      BY <2>1, <2>2, <2>10, WaitsKept
    <3> QED
      BY <2>3, <3>1, <3>2, StepDone DEF OrderInv, Progress
  <2> QED
    BY <1>0, <2>1, <2>3, <2>6, <2>7, <2>8, <2>9, <2>10, OrderKept
<1>6. ASSUME NEW i \in Index, StartSafeStep(i) PROVE OrderInv'
  <2>1. /\ evars' = evars /\ wvars' = wvars /\ message' = message
        /\ \A m \in Starters : start'[m] # "idle" => start[m] # "idle"
    BY <1>6 DEF StartSafeStep, StartSafeAnswers, TypeOK, Starters
  <2>2. Uncancelled
    BY <1>6 DEF Uncancelled
  <2> QED
    BY <1>0, <2>1, <2>2, QuietOrder
<1>7. ASSUME NEW j \in Index, WaitStep(j) PROVE OrderInv'
  BY <1>7, WaitOrder
<1>8. ASSUME NEW j \in Index, TimerStep(j) PROVE OrderInv'
  BY <1>8, TimerOrder
<1>9. ASSUME DeleterStep PROVE OrderInv'
  <2>1. evars' = evars /\ wvars' = wvars /\ message' = message /\ start' = start
    BY <1>9 DEF DeleterStep, DeleterRegisters, DeleterDeletes
  <2>2. Uncancelled
    BY <1>9 DEF Uncancelled
  <2> QED
    BY <1>0, <2>1, <2>2, QuietOrder
<1> QED
  BY <1>1, <1>2, <1>3, <1>4, <1>5, <1>6, <1>7, <1>8, <1>9 DEF Uncancelled, ExecutorStep

(***************************************************************************)
(* The parts that are inductive together with IInv.                        *)
(***************************************************************************)
LEMMA NextOrder == IInv /\ Woken /\ OrderInv /\ [Next]_vars => Woken' /\ OrderInv'
<1> SUFFICES ASSUME IInv, Woken, OrderInv, [Next]_vars PROVE Woken' /\ OrderInv'
  OBVIOUS
<1>1. CASE UNCHANGED vars
  <2>1. cmds' = cmds /\ Index' = Index /\ Waits' = Waits /\ Starters' = Starters
    BY <1>1, SameList DEF vars
  <2>2. \A n : Done(n)' <=> Done(n)
    BY <1>1, <2>1, SameAwaited DEF Done, Succeeded, vars
  <2>3. \A k : Succeeded(k)' <=> Succeeded(k)
    BY <1>1 DEF Succeeded, vars
  <2>4. Progress'
    BY <1>1, <2>1, <2>2, <2>3, SameList
       DEF OrderInv, Progress, Done, vars, evars, wvars
  <2>5. InOrder' /\ SuccessMeansDone'
    BY <1>1, <2>1, <2>3, SameAwaited DEF OrderInv, InOrder, SuccessMeansDone, vars
  <2>6. Woken'
    BY <1>1, <2>1 DEF Woken, First, vars, wvars
  <2> QED
    BY <2>4, <2>5, <2>6 DEF OrderInv
<1>2. CASE ExecuteCommandListCancel \/ DeregisterSession
  BY <1>2, OrderCancelled, WokenCancelled DEF ExecuteCommandListCancel, DeregisterSession
<1>3. CASE Uncancelled
  BY <1>3, UncancelledOrder, UncancelledWoken
<1> QED
  BY <1>1, <1>2, <1>3 DEF Next, Uncancelled

\* Every reachable state keeps the order of execution.
LEMMA Ordered == Spec => []OrderInv
<1>1. Init => IInv /\ Woken /\ OrderInv
  BY InitInv, InitOrder DEF Init, Woken, Waits
<1>2. IInv /\ (Woken /\ OrderInv) /\ [Next]_vars => (Woken /\ OrderInv)'
  BY NextOrder
<1> QED
  BY <1>1, <1>2, Invariance, PTL DEF Spec

(***************************************************************************)
(* A command is started only when every command before it that the list    *)
(* waits for has completed, the critical ones without an error.            *)
(***************************************************************************)
THEOREM StartsInOrder == Spec => []InOrder
<1>1. OrderInv => InOrder
  BY DEF OrderInv
<1> QED
  BY <1>1, Ordered, PTL

(***************************************************************************)
(* The client is told of success only when every command that the list     *)
(* waits for has completed, the critical ones without an error.            *)
(***************************************************************************)
THEOREM DoneWhenTold == Spec => []SuccessMeansDone
<1>1. OrderInv => SuccessMeansDone
  BY DEF OrderInv
<1> QED
  BY <1>1, Ordered, PTL
=============================================================================
