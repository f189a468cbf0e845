------------------- MODULE SsmStateTransitionEngine_proofs -------------------
(***************************************************************************)
(* Theorems about the transition engine, for every set of requests,        *)
(* sessions and states: its invariants, that a request is answered once,   *)
(* and that the engine implements the contract with its clients.           *)
(***************************************************************************)
EXTENDS SsmStateTransitionEngine, TLAPS

(***************************************************************************)
(* The inductive invariant. A slot is read only where EngineAtWork fills   *)
(* it; NoRequestLost and AcknowledgedBeforeWork need each other, one where *)
(* a request is started and one where its slot is emptied; the others need *)
(* EngineAtWork where a request restarts the engine.                       *)
(***************************************************************************)
IInv ==
  /\ TypeOK
  /\ EngineAtWork
  /\ NoRequestLost
  /\ AcknowledgedBeforeWork
  /\ PolicyFollowsEngine
  /\ ConnectsOnlyWhenClosed
  /\ ListOutlivesExecution

-----------------------------------------------------------------------------
\* Completing a message leaves a function from requests to answers.
LEMMA CompleteType ==
  ASSUME NEW told \in [Requests -> Outcomes], NEW slot, NEW code \in Outcomes
  PROVE  Complete(told, slot, code) \in [Requests -> Outcomes]
BY DEF Complete

\* Completing a message tells the request of that slot, if it still waits, and no other.
LEMMA CompleteValue ==
  ASSUME NEW told \in [Requests -> Outcomes], NEW slot, NEW code, NEW r \in Requests
  PROVE  Complete(told, slot, code)[r]
           = IF Held(r, slot) /\ told[r] = "pending" THEN code ELSE told[r]
BY DEF Complete, Held

\* A slot is a request and a state, and never NULL.
LEMMA SlotFacts ==
  /\ \A slot \in Slots : /\ slot # None
                         /\ slot.req \in RequestIds
                         /\ slot.state \in States
  /\ \A r \in RequestIds, s \in States : [req |-> r, state |-> s] \in Slots
  /\ \A slot \in Slots, s \in States :
       /\ [slot EXCEPT !.state = s] \in Slots
       /\ [slot EXCEPT !.state = s].req = slot.req
       /\ [slot EXCEPT !.state = s].state = s
  /\ Requests \subseteq RequestIds
BY IdAssumption DEF Slots, RequestIds

\* The policy frame keeps its type through the calls the engine makes.
LEMMA FrameFacts ==
  /\ \A s \in States : NewFrame(s) \in Frames
  /\ \A f \in Frames, n \in FrameSteps :
       /\ [f EXCEPT !.next = n] \in Frames
       /\ [f EXCEPT !.initializeCalled = TRUE, !.next = n] \in Frames
BY DEF Frames, FrameSteps, NewFrame

-----------------------------------------------------------------------------
\* The state in which CSsmServer::ConstructL leaves the engine.
LEMMA InitInv == Init => IInv
<1> SUFFICES ASSUME Init PROVE IInv
  OBVIOUS
<1>1. TypeOK
  BY SlotFacts, StateAssumption DEF Init, TypeOK, Phases, StatusCodes, RequestIds, Frames,
     FrameSteps, NewFrame, Outcomes
<1>2. current # None /\ current.req = Startup /\ queued = None
  BY SlotFacts, StateAssumption DEF Init, RequestIds
<1>3. EngineAtWork /\ ConnectsOnlyWhenClosed
  BY <1>2 DEF Init, EngineAtWork, ConnectsOnlyWhenClosed, IsConnected
<1>4. NoRequestLost
  BY <1>2, IdAssumption DEF Init, NoRequestLost, Held
<1>5. AcknowledgedBeforeWork /\ PolicyFollowsEngine
  BY DEF Init, AcknowledgedBeforeWork, PolicyFollowsEngine, InTransition, NewFrame
<1>6. ListOutlivesExecution
  BY DEF Init, ListOutlivesExecution, Pending
<1> QED
  BY <1>1, <1>3, <1>4, <1>5, <1>6 DEF IInv

\* Every handler, phase, error and answer keeps the invariant.
LEMMA NextInv == IInv /\ [Next]_vars => IInv'
<1> SUFFICES ASSUME IInv, [Next]_vars PROVE IInv'
  OBVIOUS
<1> USE DEF IInv
<1>0. CASE UNCHANGED vars
  BY <1>0 DEF vars, TypeOK, EngineAtWork, NoRequestLost, AcknowledgedBeforeWork,
     InTransition, PolicyFollowsEngine, ConnectsOnlyWhenClosed, IsConnected,
     ListOutlivesExecution, Pending
<1>1. ASSUME NEW r \in Requests, RequestNotAllowed(r) PROVE IInv'
  <2>1. TypeOK'
    BY <1>1, SlotFacts DEF RequestNotAllowed, Send, TypeOK, Phases, StatusCodes,
       FrameSteps, Outcomes
  <2>2. EngineAtWork' /\ ConnectsOnlyWhenClosed'
    BY <1>1 DEF RequestNotAllowed, EngineAtWork, ConnectsOnlyWhenClosed, IsConnected
  <2>3. NoRequestLost'
    BY <1>1 DEF RequestNotAllowed, Send, NoRequestLost
  <2>4. AcknowledgedBeforeWork' /\ PolicyFollowsEngine'
    BY <1>1 DEF RequestNotAllowed, Send, AcknowledgedBeforeWork, PolicyFollowsEngine,
       InTransition
  <2>5. ListOutlivesExecution'
    BY <1>1 DEF RequestNotAllowed, ListOutlivesExecution, Pending
  <2> QED
    BY <2>1, <2>2, <2>3, <2>4, <2>5
<1>2. ASSUME NEW r \in Requests, RequestNoMemory(r) PROVE IInv'
  <2>1. TypeOK'
    BY <1>2, SlotFacts DEF RequestNoMemory, Send, TypeOK, Phases, StatusCodes, FrameSteps,
       Outcomes
  <2>2. EngineAtWork' /\ ConnectsOnlyWhenClosed'
    BY <1>2 DEF RequestNoMemory, EngineAtWork, ConnectsOnlyWhenClosed, IsConnected
  <2>3. NoRequestLost'
    BY <1>2 DEF RequestNoMemory, Send, NoRequestLost
  <2>4. AcknowledgedBeforeWork' /\ PolicyFollowsEngine'
    BY <1>2 DEF RequestNoMemory, Send, AcknowledgedBeforeWork, PolicyFollowsEngine,
       InTransition
  <2>5. ListOutlivesExecution'
    BY <1>2 DEF RequestNoMemory, ListOutlivesExecution, Pending
  <2> QED
    BY <2>1, <2>2, <2>3, <2>4, <2>5
<1>3. ASSUME NEW r \in Requests, RequestReplacesAllNoMemory(r) PROVE IInv'
  <2>1. TypeOK'
    BY <1>3, SlotFacts, FrameFacts, CompleteType, StateAssumption DEF
       RequestReplacesAllNoMemory, Send, Rest, CancelAll, PhaseAfterCancelAll,
       PhaseAfterCancel, FrameAfterCancel, ListAfterCancel, TypeOK, Phases,
       StatusCodes, FrameSteps, Outcomes
  <2>2. EngineAtWork' /\ ConnectsOnlyWhenClosed'
    BY <1>3 DEF RequestReplacesAllNoMemory, Rest, PhaseAfterCancelAll, PhaseAfterCancel,
       EngineAtWork, ConnectsOnlyWhenClosed, IsConnected
  <2>3. NoRequestLost'
    BY <1>3, CompleteType, CompleteValue DEF RequestReplacesAllNoMemory, CancelAll,
       PhaseAfterCancelAll, ListAfterCancel, NoRequestLost, Held, TypeOK, Outcomes
  <2>4. AcknowledgedBeforeWork' /\ PolicyFollowsEngine'
    BY <1>3 DEF RequestReplacesAllNoMemory, Send, PhaseAfterCancelAll, PhaseAfterCancel,
       FrameAfterCancel, AcknowledgedBeforeWork, PolicyFollowsEngine, InTransition,
       EngineAtWork
  <2>5. ListOutlivesExecution'
    BY <1>3 DEF RequestReplacesAllNoMemory, PhaseAfterCancelAll, PhaseAfterCancel,
       ListAfterCancel, ListOutlivesExecution, Pending, EngineAtWork
  <2> QED
    BY <2>1, <2>2, <2>3, <2>4, <2>5
<1>4. ASSUME NEW r \in Requests, NEW s \in States, RequestQueued(r, s) PROVE IInv'
  <2>1. TypeOK'
    BY <1>4, SlotFacts, FrameFacts, CompleteType, StateAssumption DEF RequestQueued,
       Send, StartIfStopped, PhaseAfterSubmit, FirstPhase, StartNow, TypeOK, Phases,
       StatusCodes, FrameSteps, Outcomes
  <2>2. EngineAtWork' /\ ConnectsOnlyWhenClosed'
    BY <1>4 DEF RequestQueued, StartIfStopped, PhaseAfterSubmit, FirstPhase, EngineAtWork,
       ConnectsOnlyWhenClosed, IsConnected
  <2>3. NoRequestLost'
    BY <1>4, SlotFacts, CompleteType, CompleteValue DEF RequestQueued, Send,
       NoRequestLost, Held, TypeOK, Outcomes
  <2>4. AcknowledgedBeforeWork' /\ PolicyFollowsEngine'
    BY <1>4, CompleteValue DEF RequestQueued, Send, StartIfStopped,
       AcknowledgedBeforeWork, PolicyFollowsEngine, InTransition, EngineAtWork, TypeOK
  <2>5. ListOutlivesExecution'
    BY <1>4 DEF RequestQueued, StartIfStopped, ListOutlivesExecution, Pending,
       EngineAtWork
  <2> QED
    BY <2>1, <2>2, <2>3, <2>4, <2>5
<1>5. ASSUME NEW r \in Requests, NEW s \in States, RequestCurrent(r, s) PROVE IInv'
  <2>1. TypeOK'
    BY <1>5, SlotFacts, FrameFacts, CompleteType, StateAssumption DEF RequestCurrent,
       Send, StartIfStopped, PhaseAfterSubmit, FirstPhase, StartNow, TypeOK, Phases,
       StatusCodes, FrameSteps, Outcomes
  <2>2. EngineAtWork' /\ ConnectsOnlyWhenClosed'
    BY <1>5, SlotFacts DEF RequestCurrent, StartIfStopped, PhaseAfterSubmit, FirstPhase,
       StartNow, EngineAtWork, ConnectsOnlyWhenClosed, IsConnected
  <2>3. NoRequestLost'
    BY <1>5, SlotFacts, CompleteType, CompleteValue DEF RequestCurrent, NoRequestLost,
       Held, TypeOK, Outcomes
  <2>4. AcknowledgedBeforeWork' /\ PolicyFollowsEngine'
    BY <1>5 DEF RequestCurrent, StartIfStopped, PhaseAfterSubmit, FirstPhase,
       AcknowledgedBeforeWork, PolicyFollowsEngine, InTransition, EngineAtWork
  <2>5. ListOutlivesExecution'
    BY <1>5 DEF RequestCurrent, StartIfStopped, StartNow, ListOutlivesExecution, Pending
  <2> QED
    BY <2>1, <2>2, <2>3, <2>4, <2>5
<1>6. ASSUME NEW r \in Requests, NEW s \in States, RequestReplacesAll(r, s) PROVE IInv'
  <2>1. TypeOK'
    BY <1>6, SlotFacts, FrameFacts, CompleteType, StateAssumption DEF
       RequestReplacesAll, Send, CancelAll, PhaseAfterSubmit, FirstPhase,
       PhaseAfterCancelAll, PhaseAfterCancel, FrameAfterCancel, ListAfterCancel,
       StartNow, TypeOK, Phases, StatusCodes, FrameSteps, Outcomes
  <2>2. EngineAtWork' /\ ConnectsOnlyWhenClosed'
    BY <1>6, SlotFacts DEF RequestReplacesAll, PhaseAfterSubmit, FirstPhase,
       PhaseAfterCancelAll, PhaseAfterCancel, StartNow, EngineAtWork,
       ConnectsOnlyWhenClosed, IsConnected
  <2>3. NoRequestLost'
    BY <1>6, SlotFacts, CompleteType, CompleteValue DEF RequestReplacesAll, CancelAll,
       NoRequestLost, Held, TypeOK, Outcomes
  <2>4. AcknowledgedBeforeWork' /\ PolicyFollowsEngine'
    BY <1>6 DEF RequestReplacesAll, Send, PhaseAfterSubmit, FirstPhase,
       PhaseAfterCancelAll, PhaseAfterCancel, FrameAfterCancel, AcknowledgedBeforeWork,
       PolicyFollowsEngine, InTransition, EngineAtWork
  <2>5. ListOutlivesExecution'
    BY <1>6 DEF RequestReplacesAll, ListAfterCancel, StartNow, ListOutlivesExecution,
       Pending, EngineAtWork
  <2> QED
    BY <2>1, <2>2, <2>3, <2>4, <2>5
<1>7. ASSUME NEW s \in Sessions, RequestStateTransitionCancel(s) PROVE IInv'
  <2>1. TypeOK'
    <3> DEFINE told == IF CancelsQueued(s) THEN Complete(outcome, queued, "KErrCancel")
                                           ELSE outcome
    <3>1. told \in [Requests -> Outcomes]
      BY CompleteType DEF TypeOK, Outcomes
    <3>2. Complete(told, current, "KErrCancel") \in [Requests -> Outcomes]
      BY <3>1, CompleteType DEF Outcomes
    <3> HIDE DEF told
    <3>3. outcome' \in [Requests -> Outcomes]
      BY <1>7, <3>1, <3>2 DEF RequestStateTransitionCancel, told
    <3>4. frame' \in Frames
      BY <1>7, FrameFacts DEF RequestStateTransitionCancel, FrameAfterCancel,
         FrameSteps, TypeOK
    <3> QED
      BY <1>7, <3>3, <3>4 DEF RequestStateTransitionCancel, PhaseAfterCancel,
         ListAfterCancel,
         StartNow, Rest, TypeOK, Phases, StatusCodes
  <2>2. EngineAtWork' /\ ConnectsOnlyWhenClosed'
    BY <1>7 DEF RequestStateTransitionCancel, PhaseAfterCancel, StartNow, Rest,
       EngineAtWork, ConnectsOnlyWhenClosed, IsConnected
  <2>3. NoRequestLost'
    <3> DEFINE left == IF CancelsQueued(s) THEN None ELSE queued
               told == IF CancelsQueued(s) THEN Complete(outcome, queued, "KErrCancel")
                                           ELSE outcome
    <3>1. /\ told \in [Requests -> Outcomes]
          /\ \A q \in Requests :
               told[q] = IF CancelsQueued(s) /\ Held(q, queued) THEN "KErrCancel"
                                                               ELSE outcome[q]
      BY CompleteType, CompleteValue DEF NoRequestLost, TypeOK, Outcomes
    <3>2. CASE CancelsCurrent(s)
      <4>1. /\ outcome' = Complete(told, current, "KErrCancel")
            /\ current' = left /\ queued' = None /\ panicked' = panicked
        BY <1>7, <3>2 DEF RequestStateTransitionCancel
      <4>2. \A q \in Requests :
              outcome'[q] = IF Held(q, current) /\ told[q] = "pending" THEN "KErrCancel"
                                                                      ELSE told[q]
        BY <4>1, <3>1, CompleteValue
      <4> HIDE DEF told
      <4> QED
        BY <4>1, <4>2, <3>1 DEF NoRequestLost, Held
    <3>3. CASE ~CancelsCurrent(s)
      <4>1. /\ outcome' = told /\ queued' = left
            /\ current' = current /\ panicked' = panicked
        BY <1>7, <3>3 DEF RequestStateTransitionCancel
      <4> HIDE DEF told
      <4> QED
        BY <4>1, <3>1 DEF NoRequestLost, Held
    <3> QED
      BY <3>2, <3>3
  <2>4. AcknowledgedBeforeWork' /\ PolicyFollowsEngine'
    BY <1>7, CompleteValue DEF RequestStateTransitionCancel, PhaseAfterCancel,
       FrameAfterCancel, AcknowledgedBeforeWork, PolicyFollowsEngine, InTransition,
       TypeOK, Frames
  <2>5. ListOutlivesExecution'
    BY <1>7 DEF RequestStateTransitionCancel, ListAfterCancel, Rest,
       ListOutlivesExecution, Pending
  <2> QED
    BY <2>1, <2>2, <2>3, <2>4, <2>5
<1>8. ASSUME DoConnectCleSession PROVE IInv'
  <2>1. TypeOK'
    BY <1>8, SlotFacts DEF DoConnectCleSession, RunsWell, Runs, StartNow, TypeOK, Phases,
       StatusCodes, FrameSteps, Outcomes
  <2>2. EngineAtWork' /\ ConnectsOnlyWhenClosed'
    BY <1>8 DEF DoConnectCleSession, RunsWell, Runs, StartNow, EngineAtWork,
       ConnectsOnlyWhenClosed
  <2>3. NoRequestLost'
    BY <1>8 DEF DoConnectCleSession, NoRequestLost
  <2>4. AcknowledgedBeforeWork' /\ PolicyFollowsEngine'
    BY <1>8 DEF DoConnectCleSession, AcknowledgedBeforeWork, PolicyFollowsEngine,
       InTransition
  <2>5. ListOutlivesExecution'
    BY <1>8 DEF DoConnectCleSession, RunsWell, Runs, ListOutlivesExecution, Pending
  <2> QED
    BY <2>1, <2>2, <2>3, <2>4, <2>5
<1>9. ASSUME DoStartTransition PROVE IInv'
  <2>1. TypeOK'
    BY <1>9, SlotFacts, FrameFacts, CompleteType DEF DoStartTransition, RunsWell,
       Runs, StartNow, GetStatePolicy, NewFrame, EngineAtWork, TypeOK, Phases,
       StatusCodes, FrameSteps, Outcomes
  <2>2. EngineAtWork' /\ ConnectsOnlyWhenClosed'
    BY <1>9 DEF DoStartTransition, RunsWell, Runs, StartNow, EngineAtWork,
       ConnectsOnlyWhenClosed
  <2>3. NoRequestLost'
    BY <1>9, CompleteValue DEF DoStartTransition, NoRequestLost, TypeOK
  <2>4. AcknowledgedBeforeWork' /\ PolicyFollowsEngine'
    <3>1. current \in Slots /\ ~panicked
      BY <1>9 DEF DoStartTransition, RunsWell, Runs, EngineAtWork, TypeOK
    <3>2. current.req \in Requests => outcome'[current.req] = "KErrNone"
      BY <1>9, <3>1, SlotFacts, CompleteValue DEF DoStartTransition, NoRequestLost,
         Held, TypeOK
    <3>3. AcknowledgedBeforeWork'
      BY <1>9, <3>2 DEF DoStartTransition, AcknowledgedBeforeWork
    <3>4. frame'.id = current.state
      BY <1>9 DEF DoStartTransition, GetStatePolicy, NewFrame
    <3>5. ~frame'.initializeCalled => frame'.next = "EInitialize"
      BY <1>9 DEF DoStartTransition, GetStatePolicy, NewFrame, PolicyFollowsEngine
    <3> QED
      BY <1>9, <3>3, <3>4, <3>5 DEF DoStartTransition, PolicyFollowsEngine
  <2>5. ListOutlivesExecution'
    BY <1>9 DEF DoStartTransition, RunsWell, Runs, ListOutlivesExecution, Pending
  <2> QED
    BY <2>1, <2>2, <2>3, <2>4, <2>5
<1>10. ASSUME DoInitialize PROVE IInv'
  <2>1. TypeOK'
    BY <1>10, SlotFacts, FrameFacts, CompleteType, StateAssumption DEF DoInitialize,
       RunsWell, Runs, StartNow, TypeOK, Phases, StatusCodes, FrameSteps, Outcomes
  <2>2. EngineAtWork' /\ ConnectsOnlyWhenClosed'
    BY <1>10 DEF DoInitialize, RunsWell, Runs, StartNow, EngineAtWork,
       ConnectsOnlyWhenClosed
  <2>3. NoRequestLost'
    BY <1>10 DEF DoInitialize, NoRequestLost
  <2>4. AcknowledgedBeforeWork' /\ PolicyFollowsEngine'
    BY <1>10 DEF DoInitialize, RunsWell, Runs, StartNow, AcknowledgedBeforeWork,
       PolicyFollowsEngine, InTransition, EngineAtWork, NoRequestLost, TypeOK, Frames,
       Held, Outcomes
  <2>5. ListOutlivesExecution'
    BY <1>10 DEF DoInitialize, RunsWell, Runs, ListOutlivesExecution, Pending
  <2> QED
    BY <2>1, <2>2, <2>3, <2>4, <2>5
<1>11. ASSUME DoPrepareCommandList PROVE IInv'
  <2>1. TypeOK'
    BY <1>11, SlotFacts, FrameFacts, CompleteType, StateAssumption DEF
       DoPrepareCommandList, RunsWell, Runs, TypeOK, Phases, StatusCodes, FrameSteps,
       Outcomes
  <2>2. EngineAtWork' /\ ConnectsOnlyWhenClosed'
    BY <1>11 DEF DoPrepareCommandList, RunsWell, Runs, EngineAtWork,
       ConnectsOnlyWhenClosed
  <2>3. NoRequestLost'
    BY <1>11 DEF DoPrepareCommandList, NoRequestLost
  <2>4. AcknowledgedBeforeWork' /\ PolicyFollowsEngine'
    BY <1>11 DEF DoPrepareCommandList, RunsWell, Runs, AcknowledgedBeforeWork,
       PolicyFollowsEngine, InTransition
  <2>5. ListOutlivesExecution'
    BY <1>11 DEF DoPrepareCommandList, RunsWell, Runs, ListOutlivesExecution, Pending
  <2> QED
    BY <2>1, <2>2, <2>3, <2>4, <2>5
<1>12. ASSUME NEW l \in Lists, DoExecuteCommandList(l) PROVE IInv'
  <2>1. TypeOK'
    BY <1>12, SlotFacts, FrameFacts, CompleteType, StateAssumption DEF Lists,
       DoExecuteCommandList, RunsWell, Runs, ExecuteStatus, TypeOK, Phases,
       StatusCodes, FrameSteps, Outcomes
  <2>2. EngineAtWork' /\ ConnectsOnlyWhenClosed'
    BY <1>12 DEF DoExecuteCommandList, RunsWell, Runs, EngineAtWork,
       ConnectsOnlyWhenClosed
  <2>3. NoRequestLost'
    BY <1>12 DEF DoExecuteCommandList, NoRequestLost
  <2>4. AcknowledgedBeforeWork' /\ PolicyFollowsEngine'
    BY <1>12 DEF DoExecuteCommandList, RunsWell, Runs, AcknowledgedBeforeWork,
       PolicyFollowsEngine, InTransition
  <2>5. ListOutlivesExecution'
    BY <1>12 DEF DoExecuteCommandList, ExecuteStatus, ListOutlivesExecution, Pending
  <2> QED
    BY <2>1, <2>2, <2>3, <2>4, <2>5
<1>13. ASSUME NEW s \in States, FurtherTransition(s) PROVE IInv'
  <2>1. TypeOK'
    BY <1>13, SlotFacts, FrameFacts, CompleteType DEF FurtherTransition,
       ReadNextTransition, Runs, LinkAfterRead, FirstPhase, StartNow, EngineAtWork,
       TypeOK, Phases, StatusCodes, FrameSteps, Outcomes
  <2>2. EngineAtWork' /\ ConnectsOnlyWhenClosed'
    BY <1>13, SlotFacts DEF FurtherTransition, ReadNextTransition, Runs, FirstPhase,
       StartNow, EngineAtWork, ConnectsOnlyWhenClosed, IsConnected, TypeOK
  <2>3. NoRequestLost'
    BY <1>13 DEF FurtherTransition, ReadNextTransition, Runs, NoRequestLost, Held,
       AcknowledgedBeforeWork, InTransition
  <2>4. AcknowledgedBeforeWork' /\ PolicyFollowsEngine'
    BY <1>13 DEF FurtherTransition, ReadNextTransition, Runs, FirstPhase,
       AcknowledgedBeforeWork, PolicyFollowsEngine, InTransition
  <2>5. ListOutlivesExecution'
    BY <1>13 DEF FurtherTransition, ReadNextTransition, StartNow, ListOutlivesExecution,
       Pending
  <2> QED
    BY <2>1, <2>2, <2>3, <2>4, <2>5
<1>14. ASSUME TransitionCompleted PROVE IInv'
  <2>1. TypeOK'
    BY <1>14, SlotFacts, FrameFacts, CompleteType, StateAssumption DEF
       TransitionCompleted, ReadNextTransition, Runs, LinkAfterRead, FirstPhase,
       StartNow, Rest, TypeOK, Phases, StatusCodes, FrameSteps, Outcomes
  <2>2. EngineAtWork' /\ ConnectsOnlyWhenClosed'
    BY <1>14 DEF TransitionCompleted, ReadNextTransition, FirstPhase, StartNow, Rest,
       EngineAtWork, ConnectsOnlyWhenClosed, IsConnected
  <2>3. NoRequestLost'
    BY <1>14 DEF TransitionCompleted, ReadNextTransition, Runs, NoRequestLost, Held,
       AcknowledgedBeforeWork, InTransition
  <2>4. AcknowledgedBeforeWork' /\ PolicyFollowsEngine'
    BY <1>14 DEF TransitionCompleted, ReadNextTransition, Runs, FirstPhase,
       AcknowledgedBeforeWork, PolicyFollowsEngine, InTransition
  <2>5. ListOutlivesExecution'
    BY <1>14 DEF TransitionCompleted, ReadNextTransition, StartNow, ListOutlivesExecution,
       Pending
  <2> QED
    BY <2>1, <2>2, <2>3, <2>4, <2>5
<1>15. ASSUME NEW phase \in Phases, RunError(phase) PROVE IInv'
  <2>1. TypeOK'
    BY <1>15, SlotFacts, CompleteType DEF RunError, Runs, Rest, TypeOK, Phases,
       StatusCodes, FrameSteps, Outcomes
  <2>2. EngineAtWork' /\ ConnectsOnlyWhenClosed'
    BY <1>15 DEF RunError, EngineAtWork, ConnectsOnlyWhenClosed, IsConnected
  <2>3. NoRequestLost'
    BY <1>15, CompleteValue DEF RunError, NoRequestLost, TypeOK
  <2>4. AcknowledgedBeforeWork' /\ PolicyFollowsEngine'
    BY <1>15 DEF RunError, AcknowledgedBeforeWork, PolicyFollowsEngine
  <2>5. ListOutlivesExecution'
    BY <1>15 DEF RunError, ListOutlivesExecution
  <2> QED
    BY <2>1, <2>2, <2>3, <2>4, <2>5
<1>16. ASSUME NEW code \in {"KErrNone", "KErrGeneral"}, PolicyAnswers(code) PROVE IInv'
  <2>1. TypeOK'
    BY <1>16, SlotFacts DEF PolicyAnswers, Pending, TypeOK, Phases, StatusCodes,
       FrameSteps, Outcomes
  <2>2. EngineAtWork' /\ ConnectsOnlyWhenClosed'
    BY <1>16 DEF PolicyAnswers, EngineAtWork, ConnectsOnlyWhenClosed, IsConnected
  <2>3. NoRequestLost'
    BY <1>16 DEF PolicyAnswers, NoRequestLost
  <2>4. AcknowledgedBeforeWork' /\ PolicyFollowsEngine'
    BY <1>16 DEF PolicyAnswers, AcknowledgedBeforeWork, PolicyFollowsEngine, InTransition
  <2>5. ListOutlivesExecution'
    BY <1>16 DEF PolicyAnswers, Pending, ListOutlivesExecution
  <2> QED
    BY <2>1, <2>2, <2>3, <2>4, <2>5
<1>17. ASSUME NEW code \in {"KErrNone", "KErrGeneral"}, CleAnswers(code) PROVE IInv'
  <2>1. TypeOK'
    BY <1>17, SlotFacts DEF CleAnswers, Pending, TypeOK, Phases, StatusCodes, FrameSteps,
       Outcomes
  <2>2. EngineAtWork' /\ ConnectsOnlyWhenClosed'
    BY <1>17 DEF CleAnswers, EngineAtWork, ConnectsOnlyWhenClosed, IsConnected
  <2>3. NoRequestLost'
    BY <1>17 DEF CleAnswers, NoRequestLost
  <2>4. AcknowledgedBeforeWork' /\ PolicyFollowsEngine'
    BY <1>17 DEF CleAnswers, AcknowledgedBeforeWork, PolicyFollowsEngine, InTransition
  <2>5. ListOutlivesExecution'
    BY <1>17 DEF CleAnswers, ListOutlivesExecution
  <2> QED
    BY <2>1, <2>2, <2>3, <2>4, <2>5
<1>18. ASSUME CleTerminates PROVE IInv'
  <2>1. TypeOK'
    BY <1>18, SlotFacts DEF CleTerminates, Pending, TypeOK, Phases, StatusCodes,
       FrameSteps, Outcomes
  <2>2. EngineAtWork' /\ ConnectsOnlyWhenClosed'
    BY <1>18 DEF CleTerminates, EngineAtWork, ConnectsOnlyWhenClosed, IsConnected
  <2>3. NoRequestLost'
    BY <1>18 DEF CleTerminates, NoRequestLost
  <2>4. AcknowledgedBeforeWork' /\ PolicyFollowsEngine'
    BY <1>18 DEF CleTerminates, AcknowledgedBeforeWork, PolicyFollowsEngine, InTransition
  <2>5. ListOutlivesExecution'
    BY <1>18 DEF CleTerminates, Pending, ListOutlivesExecution
  <2> QED
    BY <2>1, <2>2, <2>3, <2>4, <2>5
<1> QED
  BY <1>0, <1>1, <1>2, <1>3, <1>4, <1>5, <1>6, <1>7, <1>8, <1>9, <1>10, <1>11, <1>12,
     <1>13, <1>14, <1>15, <1>16, <1>17, <1>18 DEF Next, ClientStep, RunL, Provider

-----------------------------------------------------------------------------
\* Every reachable state satisfies the inductive invariant.
THEOREM Invariance == Spec => []IInv
<1>1. Init => IInv
  BY InitInv
<1>2. IInv /\ [Next]_vars => IInv'
  BY NextInv
<1> QED
  BY <1>1, <1>2, PTL DEF Spec

(***************************************************************************)
(* The engine's variables have their types.                                *)
(***************************************************************************)
THEOREM TypeCorrect == Spec => []TypeOK
<1>1. IInv => TypeOK
  BY DEF IInv
<1> QED
  BY <1>1, Invariance, PTL

(***************************************************************************)
(* No accepted request waits on an engine that nobody will start again.    *)
(***************************************************************************)
THEOREM AlwaysAtWork == Spec => []EngineAtWork
<1>1. IInv => EngineAtWork
  BY DEF IInv
<1> QED
  BY <1>1, Invariance, PTL

(***************************************************************************)
(* No message of an accepted request is dropped, whatever is submitted,    *)
(* replaced and cancelled in whatever phase.                               *)
(***************************************************************************)
THEOREM NoneLost == Spec => []NoRequestLost
<1>1. IInv => NoRequestLost
  BY DEF IInv
<1> QED
  BY <1>1, Invariance, PTL

(***************************************************************************)
(* The client of a transition is told before any work is done for it.      *)
(***************************************************************************)
THEOREM AcknowledgedFirst == Spec => []AcknowledgedBeforeWork
<1>1. IInv => AcknowledgedBeforeWork
  BY DEF IInv
<1> QED
  BY <1>1, Invariance, PTL

(***************************************************************************)
(* The policy is the one of the target state, and CommandList and          *)
(* GetNextState are called when its frame expects them.  Prepare is not    *)
(* part of this.                                                           *)
(***************************************************************************)
THEOREM PolicyCalledInOrder == Spec => []PolicyFollowsEngine
<1>1. IInv => PolicyFollowsEngine
  BY DEF IInv
<1> QED
  BY <1>1, Invariance, PTL

(***************************************************************************)
(* The engine asks CleSrv for a connection only when it has none, as       *)
(* ConnectL asserts, however the transition before it ended.               *)
(***************************************************************************)
THEOREM ConnectsOnce == Spec => []ConnectsOnlyWhenClosed
<1>1. IInv => ConnectsOnlyWhenClosed
  BY DEF IInv
<1> QED
  BY <1>1, Invariance, PTL

(***************************************************************************)
(* The command list lives as long as the server may read it, and no longer.*)
(***************************************************************************)
THEOREM ListLives == Spec => []ListOutlivesExecution
<1>1. IInv => ListOutlivesExecution
  BY DEF IInv
<1> QED
  BY <1>1, Invariance, PTL

-----------------------------------------------------------------------------
(***************************************************************************)
(* The implementation of the contract, for which what Complete does to the *)
(* answers is put in the contract's terms.                                 *)
(***************************************************************************)
LEMMA CompleteIsTell ==
  ASSUME TypeOK, NEW slot \in Slots \cup {None}, NEW code \in Outcomes
  PROVE  Complete(outcome, slot, code) = Contract!Tell({RequestIn(slot)}, code)
<1> DEFINE told == Complete(outcome, slot, code)
           tell == Contract!Tell({RequestIn(slot)}, code)
<1>1. told \in [Requests -> Outcomes]
  BY CompleteType DEF TypeOK
<1>2. tell = [q \in Requests |-> tell[q]]
  BY DEF Contract!Tell
<1>3. ASSUME NEW q \in Requests PROVE told[q] = tell[q]
  <2>1. Held(q, slot) <=> q = RequestIn(slot)
    BY IdAssumption DEF Held, RequestIn, RequestIds
  <2> QED
    BY <2>1, CompleteValue DEF Contract!Tell, TypeOK
<1> QED
  BY <1>1, <1>2, <1>3

\* Two messages completed one after the other are both told at once.
LEMMA CompleteTwiceIsTell ==
  ASSUME TypeOK, NEW slot \in Slots \cup {None}, NEW other \in Slots \cup {None},
         NEW code \in Outcomes \ {"pending"}
  PROVE  Complete(Complete(outcome, slot, code), other, code)
           = Contract!Tell({RequestIn(slot), RequestIn(other)}, code)
<1> DEFINE once == Complete(outcome, slot, code)
           told == Complete(once, other, code)
           tell == Contract!Tell({RequestIn(slot), RequestIn(other)}, code)
<1>1. once \in [Requests -> Outcomes] /\ told \in [Requests -> Outcomes]
  BY CompleteType DEF TypeOK
<1>2. tell = [q \in Requests |-> tell[q]]
  BY DEF Contract!Tell
<1>3. ASSUME NEW q \in Requests PROVE told[q] = tell[q]
  <2>1. /\ Held(q, slot) <=> q = RequestIn(slot)
        /\ Held(q, other) <=> q = RequestIn(other)
    BY IdAssumption DEF Held, RequestIn, RequestIds
  <2>2. once[q] = IF Held(q, slot) /\ outcome[q] = "pending" THEN code ELSE outcome[q]
    BY CompleteValue DEF TypeOK
  <2> HIDE DEF once
  <2>3. told[q] = IF Held(q, other) /\ once[q] = "pending" THEN code ELSE once[q]
    BY <1>1, CompleteValue
  <2> QED
    BY <2>1, <2>2, <2>3 DEF Contract!Tell
<1> QED
  BY <1>1, <1>2, <1>3

\* The slot a request is put into is not NULL.
LEMMA SlotOfRequest ==
  \A r \in Requests, s \in States :
    [req |-> r, state |-> s] # None /\ RequestIn([req |-> r, state |-> s]) = r
BY SlotFacts DEF RequestIn

\* What the two slots hold.
LEMMA SlotOrNone == TypeOK => current \in Slots \cup {None} /\ queued \in Slots \cup {None}
BY DEF TypeOK

\* Every step of the engine is a step of the contract or leaves it alone.
LEMMA StepImplements ==
  ASSUME IInv, IInv', [Next]_vars
  PROVE  [Contract!Next]_(Contract!cvars)
<1> USE DEF IInv
<1> DEFINE Stutter == UNCHANGED <<current, queued, outcome, panicked>>
<1>a. RequestIn(None) = None /\ \A slot \in Slots : RequestIn(slot) = slot.req
  BY IdAssumption DEF RequestIn
<1>b. ASSUME Stutter PROVE UNCHANGED Contract!cvars
  BY <1>b DEF Contract!cvars, RequestIn
<1>0. CASE UNCHANGED vars
  BY <1>0, <1>b DEF vars
<1>1. ASSUME NEW r \in Requests, RequestNotAllowed(r) PROVE Contract!Next
  <2>1. Contract!Reject(r)
    BY <1>1 DEF RequestNotAllowed, Send, Contract!Reject, RequestIn
  <2> QED
    BY <1>1, <2>1 DEF RequestNotAllowed, Send, Contract!Next
<1>2. ASSUME NEW r \in Requests, RequestNoMemory(r) PROVE Contract!Next
  <2>1. Contract!Reject(r)
    BY <1>2 DEF RequestNoMemory, Send, Contract!Reject, RequestIn
  <2> QED
    BY <1>2, <2>1 DEF RequestNoMemory, Send, Contract!Next
<1>c. CancelAll = Contract!Tell({RequestIn(current), RequestIn(queued)}, "KErrCancel")
  <2>1. CancelAll = Contract!Tell({RequestIn(queued), RequestIn(current)}, "KErrCancel")
    BY CompleteTwiceIsTell, SlotOrNone DEF CancelAll, Outcomes
  <2> QED
    BY <2>1 DEF Contract!Tell
<1>3. ASSUME NEW r \in Requests, RequestReplacesAllNoMemory(r) PROVE Contract!Next
  <2>1. Contract!TakeNoMemory(r)
    BY <1>3, <1>a, <1>c DEF RequestReplacesAllNoMemory, Send, Contract!TakeNoMemory
  <2> QED
    BY <1>3, <2>1 DEF RequestReplacesAllNoMemory, Send, Contract!Next
<1>4. ASSUME NEW r \in Requests, NEW s \in States, RequestQueued(r, s) PROVE Contract!Next
  <2>1. Complete(outcome, queued, "KErrCancel")
          = Contract!Tell({RequestIn(queued)}, "KErrCancel")
    BY CompleteIsTell, SlotOrNone DEF Outcomes
  <2>2. RequestIn(current) # None
    BY <1>4, SlotOrNone, SlotFacts, IdAssumption DEF RequestQueued, RequestIn
  <2>3. Contract!Enqueue(r)
    BY <1>4, <2>1, <2>2, SlotOfRequest DEF RequestQueued, Send, Contract!Enqueue
  <2> QED
    BY <1>4, <2>3 DEF RequestQueued, Send, Contract!Next
<1>5. ASSUME NEW r \in Requests, NEW s \in States, RequestCurrent(r, s) PROVE Contract!Next
  <2>1. queued = None
    BY <1>5 DEF RequestCurrent, Send, EngineAtWork
  <2>2. Complete(outcome, queued, "KErrCancel")
          = Contract!Tell({RequestIn(queued)}, "KErrCancel")
    BY CompleteIsTell, SlotOrNone DEF Outcomes
  <2>3. Contract!Take(r)
    BY <1>5, <1>a, <2>1, <2>2, SlotOfRequest DEF RequestCurrent, Send, Contract!Take
  <2> QED
    BY <1>5, <2>3 DEF RequestCurrent, Send, Contract!Next
<1>6. ASSUME NEW r \in Requests, NEW s \in States, RequestReplacesAll(r, s)
      PROVE  Contract!Next
  <2>1. Contract!Take(r)
    BY <1>6, <1>a, <1>c, SlotOfRequest DEF RequestReplacesAll, Send, Contract!Take
  <2> QED
    BY <1>6, <2>1 DEF RequestReplacesAll, Send, Contract!Next
<1>7. ASSUME NEW s \in Sessions, RequestStateTransitionCancel(s) PROVE Contract!Next
  <2> DEFINE mine == {r \in {RequestIn(queued)} : Contract!Owns(s, r)}
             left == IF CancelsQueued(s) THEN None ELSE queued
             told == IF CancelsQueued(s) THEN Complete(outcome, queued, "KErrCancel")
                                         ELSE outcome
  <2>1. mine = IF CancelsQueued(s) THEN {RequestIn(queued)} ELSE {}
    BY SlotFacts, IdAssumption DEF CancelsQueued, OriginatesFrom, RequestIn, Contract!Owns
  <2>2. RequestIn(left) = IF mine = {} THEN RequestIn(queued) ELSE None
    BY <2>1, <1>a
  <2>3. told = Contract!Tell(mine, "KErrCancel")
    <3>1. CASE CancelsQueued(s)
      BY <3>1, <2>1, CompleteIsTell, SlotOrNone DEF Outcomes
    <3>2. CASE ~CancelsQueued(s)
      BY <3>2, <2>1 DEF Contract!Tell, TypeOK
    <3> QED
      BY <3>1, <3>2
  <2>4. CASE ~CancelsCurrent(s)
    <3>1. /\ outcome' = Contract!Tell(mine, "KErrCancel")
          /\ RequestIn(queued)' = IF mine = {} THEN RequestIn(queued) ELSE None
          /\ UNCHANGED <<RequestIn(current), panicked>>
      BY <1>7, <2>2, <2>3, <2>4 DEF RequestStateTransitionCancel
    <3>2. Contract!Cancel(s)
      BY <3>1 DEF Contract!Cancel
    <3> QED
      BY <1>7, <3>2 DEF RequestStateTransitionCancel, Contract!Next
  <2>5. CASE CancelsCurrent(s)
    <3>1. Contract!Owns(s, RequestIn(current))
      BY <2>5 DEF CancelsCurrent, OriginatesFrom, RequestIn, Contract!Owns
    <3>2. Complete(told, current, "KErrCancel")
            = Contract!Tell(mine \cup {RequestIn(current)}, "KErrCancel")
      <4>1. CASE CancelsQueued(s)
        <5>1. mine \cup {RequestIn(current)} = {RequestIn(queued), RequestIn(current)}
          BY <4>1, <2>1
        <5> QED
          BY <4>1, <5>1, CompleteTwiceIsTell, SlotOrNone DEF Outcomes
      <4>2. CASE ~CancelsQueued(s)
        <5>1. mine \cup {RequestIn(current)} = {RequestIn(current)}
          BY <4>2, <2>1
        <5> QED
          BY <4>2, <5>1, CompleteIsTell, SlotOrNone DEF Outcomes
      <4> QED
        BY <4>1, <4>2
    <3>3. /\ outcome' = Contract!Tell(mine \cup {RequestIn(current)}, "KErrCancel")
          /\ RequestIn(current)' = RequestIn(left)
          /\ RequestIn(queued)' = None
          /\ UNCHANGED panicked
      BY <1>7, <1>a, <2>5, <3>2 DEF RequestStateTransitionCancel
    <3>4. Contract!Cancel(s)
      BY <2>2, <3>1, <3>3 DEF Contract!Cancel
    <3> QED
      BY <1>7, <3>4 DEF RequestStateTransitionCancel, Contract!Next
  <2> QED
    BY <2>4, <2>5
<1>8. ASSUME DoConnectCleSession PROVE Stutter
  BY <1>8 DEF DoConnectCleSession
<1>9. ASSUME DoStartTransition PROVE [Contract!Next]_(Contract!cvars)
  <2>1. current \in Slots /\ ~panicked
    BY <1>9, SlotOrNone DEF DoStartTransition, RunsWell, Runs, EngineAtWork
  <2>2. outcome' = Contract!Tell({RequestIn(current)}, "KErrNone")
    BY <1>9, CompleteIsTell, SlotOrNone DEF DoStartTransition, Outcomes
  <2>3. UNCHANGED <<current, queued, panicked>>
    BY <1>9 DEF DoStartTransition
  <2>4. CASE Contract!IsWaitingForAnswer(RequestIn(current))
    <3>1. Contract!Start
      BY <2>2, <2>3, <2>4 DEF Contract!Start, RequestIn
    <3> QED
      BY <2>1, <3>1 DEF Contract!Next
  <2>5. CASE ~Contract!IsWaitingForAnswer(RequestIn(current))
    <3>1. outcome' = outcome
      BY <2>2, <2>5 DEF Contract!IsWaitingForAnswer, Contract!Tell, TypeOK
    <3> QED
      BY <2>3, <3>1, <1>b
  <2> QED
    BY <2>4, <2>5
<1>10. ASSUME DoInitialize PROVE Stutter
  BY <1>10 DEF DoInitialize
<1>11. ASSUME DoPrepareCommandList PROVE Stutter
  BY <1>11 DEF DoPrepareCommandList
<1>12. ASSUME NEW l \in Lists, DoExecuteCommandList(l) PROVE Stutter
  BY <1>12 DEF DoExecuteCommandList
<1>13. ASSUME NEW s \in States, FurtherTransition(s) PROVE UNCHANGED Contract!cvars
  <2>1. current \in Slots
    BY <1>13, SlotOrNone DEF FurtherTransition, ReadNextTransition, Runs, EngineAtWork
  <2>2. RequestIn(current)' = RequestIn(current)
    BY <1>13, <2>1, <1>a, SlotFacts DEF FurtherTransition
  <2> QED
    BY <1>13, <2>2 DEF FurtherTransition, ReadNextTransition, Contract!cvars
<1>14. ASSUME TransitionCompleted PROVE Contract!Next
  <2>1. current \in Slots /\ ~panicked /\ InTransition
    BY <1>14, SlotOrNone
       DEF TransitionCompleted, ReadNextTransition, Runs, EngineAtWork, InTransition
  <2>2. RequestIn(current) # None
    BY <2>1, SlotFacts, IdAssumption DEF RequestIn
  <2>3. ~Contract!IsWaitingForAnswer(RequestIn(current))
    BY <2>1, <1>a DEF AcknowledgedBeforeWork, Contract!IsWaitingForAnswer
  <2>4. Contract!Finish
    BY <1>14, <1>a, <2>2, <2>3 DEF TransitionCompleted, ReadNextTransition,
       Contract!Finish
  <2> QED
    BY <2>1, <2>4 DEF Contract!Next
<1>15. ASSUME NEW phase \in Phases, RunError(phase) PROVE Contract!Next
  <2>1. current \in Slots /\ ~panicked
    BY <1>15, SlotOrNone DEF RunError, Runs, EngineAtWork
  <2>2. RequestIn(current) # None
    BY <2>1, SlotFacts, IdAssumption DEF RequestIn
  <2>3. \A code \in {"KErrNone", "error"} :
          Complete(outcome, current, code) = Contract!Tell({RequestIn(current)}, code)
    BY CompleteIsTell, SlotOrNone DEF Outcomes
  <2>4. Contract!Panic
    BY <1>15, <2>2, <2>3 DEF RunError, Contract!Panic
  <2> QED
    BY <2>1, <2>4 DEF Contract!Next
<1>16. ASSUME NEW code \in {"KErrNone", "KErrGeneral"}, PolicyAnswers(code) PROVE Stutter
  BY <1>16 DEF PolicyAnswers
<1>17. ASSUME NEW code \in {"KErrNone", "KErrGeneral"}, CleAnswers(code) PROVE Stutter
  BY <1>17 DEF CleAnswers
<1>18. ASSUME CleTerminates PROVE Stutter
  BY <1>18 DEF CleTerminates
<1> HIDE DEF Stutter
<1> QED
  BY <1>0, <1>1, <1>2, <1>3, <1>4, <1>5, <1>6, <1>7, <1>8, <1>9, <1>10, <1>11, <1>12, <1>13,
     <1>14, <1>15, <1>16, <1>17, <1>18, <1>b DEF Next, ClientStep, RunL, Provider

(***************************************************************************)
(* Every behaviour of the engine, with all its phases, providers and       *)
(* errors, is one the contract with the clients allows.                    *)
(***************************************************************************)
THEOREM Implementation == Spec => ImplementsContract
<1>1. Init => Contract!Init
  BY SlotFacts, StateAssumption DEF Init, Contract!Init, RequestIn, RequestIds
<1>2. IInv /\ IInv' /\ [Next]_vars => [Contract!Next]_(Contract!cvars)
  BY StepImplements
<1> QED
  BY <1>1, <1>2, Invariance, PTL DEF Spec, ImplementsContract, Contract!Spec

(***************************************************************************)
(* The contract answers each request once, and so does the engine.         *)
(***************************************************************************)
THEOREM OneAnswer == Spec => AnsweredOnce
<1>1. ASSUME IInv, [Contract!Next]_(Contract!cvars), NEW r \in Requests,
             outcome[r] \notin {"unsent", "pending"}
      PROVE  outcome'[r] = outcome[r]
  <2>1. CASE UNCHANGED Contract!cvars
    BY <2>1 DEF Contract!cvars
  <2>2. CASE Contract!Next
    BY <1>1, <2>2 DEF IInv, TypeOK, Contract!Next, Contract!Reject, Contract!Enqueue,
       Contract!Take,
       Contract!TakeNoMemory, Contract!Cancel, Contract!Start, Contract!Finish,
       Contract!Panic, Contract!Tell
  <2> QED
    BY <1>1, <2>1, <2>2
<1>2. IInv /\ IInv' /\ [Next]_vars =>
        [\A r \in Requests :
           outcome[r] \notin {"unsent", "pending"} => outcome'[r] = outcome[r]]_vars
  BY <1>1, StepImplements
<1> QED
  BY <1>2, Invariance, PTL DEF Spec, AnsweredOnce
=============================================================================
