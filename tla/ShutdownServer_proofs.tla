----------------------- MODULE ShutdownServer_proofs ------------------------
(***************************************************************************)
(* Theorems about the shutdown server, for every number of clients and any *)
(* choice of save types: who has a message, what has been saved when the   *)
(* power goes off, and when there is a timer to see to it.                 *)
(***************************************************************************)
EXTENDS ShutdownServer, TLAPS

USE DEF Phases, Sessions, NewSession

(***************************************************************************)
(* Type correctness.                                                       *)
(***************************************************************************)
LEMMA NotifiedType ==
  ASSUME NEW s \in Sessions, NEW type \in SaveTypes
  PROVE  Notified(s, type) \in Sessions
  BY DEF Notified

LEMMA RegisteredType ==
  ASSUME NEW s \in Sessions
  PROVE  Registered(s) \in Sessions
  BY DEF Registered

LEMMA SwitchOffType ==
  ASSUME TypeOK, NEW requested \in BOOLEAN, SwitchOff(requested)
  PROVE  iPowerOff' \in BOOLEAN /\ timer' \in BOOLEAN /\ power' \in {"on", "off"}
  BY DEF SwitchOff

LEMMA TypeStep == TypeOK /\ [Next]_vars => TypeOK'
<1> SUFFICES ASSUME TypeOK, [Next]_vars PROVE TypeOK'
    OBVIOUS
<1> USE DEF TypeOK
<1>1. ASSUME NEW off \in BOOLEAN, EventWithoutSave(off) PROVE TypeOK'
      BY <1>1 DEF EventWithoutSave
<1>2. ASSUME NEW off \in BOOLEAN, EventWithoutClients(off) PROVE TypeOK'
      BY <1>2, SwitchOffType DEF EventWithoutClients
<1>3. ASSUME NEW off \in BOOLEAN, NEW type \in SaveTypes, EventToClients(type, off)
      PROVE TypeOK'
      BY <1>3, NotifiedType, ParametersAssumption DEF EventToClients, Timed
<1>4. CASE CancelPowerOff
      BY <1>4 DEF CancelPowerOff
<1>5. CASE TimerRunL
      BY <1>5, SwitchOffType DEF TimerRunL
<1>6. ASSUME NEW c \in Clients, Register(c) PROVE TypeOK'
  <2>1. session' \in [Clients -> Sessions]
        BY <1>6, RegisteredType DEF Register
  <2>2. phase' \in [Clients -> Phases]
        BY <1>6 DEF Register
  <2> QED BY <1>6, <2>1, <2>2, SwitchOffType DEF Register, HandlePowerNotifRequest
<1>7. ASSUME NEW c \in Clients, NEW from, NEW to \in Phases, Goes(c, from, to)
      PROVE TypeOK'
      BY <1>7 DEF Goes
<1>8. ASSUME NEW c \in Clients, Cancel(c) PROVE TypeOK'
      BY <1>8 DEF Cancel, Cancelled
<1>9. ASSUME NEW c \in Clients, Close(c) PROVE TypeOK'
      BY <1>9 DEF Close
<1>10. CASE UNCHANGED vars
      BY <1>10 DEF vars
<1> QED BY <1>1, <1>2, <1>3, <1>4, <1>5, <1>6, <1>7, <1>8, <1>9, <1>10
        DEF Next, Connect, RunL, Requeue, Delay, Queue

\* Every variable stays in its type.
THEOREM TypeCorrect == Spec => []TypeOK
<1>1. ASSUME Init PROVE TypeOK
  <2>1. NewSession \in Sessions
        OBVIOUS
  <2> QED BY <1>1, <2>1 DEF Init, TypeOK
<1> QED BY <1>1, TypeStep, PTL DEF Spec

-----------------------------------------------------------------------------
(***************************************************************************)
(* The messages.  MessagesAreOwned is inductive with the types.            *)
(***************************************************************************)
Owned(s, p) ==
  /\ s.pending <=> p = "waiting"
  /\ s.outstanding # "none" =>
       /\ s.current \in {"ESaveAll", "ESaveQuick"}
       /\ p \notin {"none", "waiting"}
  /\ p \in {"notified", "saving"} => s.current # "none"

LEMMA OwnedEach == MessagesAreOwned <=> \A c \in Clients : Owned(session[c], phase[c])
  BY DEF MessagesAreOwned, Owned

LEMMA OwnedEachNext ==
  MessagesAreOwned' <=> \A c \in Clients : Owned(session'[c], phase'[c])
  BY DEF MessagesAreOwned, Owned

\* An event, for a client that is connected.
LEMMA NotifiedOwned ==
  ASSUME NEW s \in Sessions, NEW p \in Phases, NEW type \in SaveTypes,
         Owned(s, p), p # "none"
  PROVE  Owned(Notified(s, type), IF s.pending THEN "notified" ELSE p)
<1>1. type # "none"
      BY ParametersAssumption
<1>2. CASE s.pending
      BY <1>1, <1>2 DEF Owned, Notified
<1>3. CASE ~s.pending /\ Later(s, type)
      BY <1>3 DEF Owned, Notified, Later
<1>4. CASE ~s.pending /\ ~Later(s, type)
      BY <1>4 DEF Owned, Notified
<1> QED BY <1>2, <1>3, <1>4

LEMMA RegisteredOwned ==
  ASSUME NEW s \in Sessions, Owned(s, "requesting")
  PROVE  Owned(Registered(s), IF s.outstanding = "none" THEN "waiting" ELSE "notified")
  BY DEF Owned, Registered

LEMMA OwnedStep == TypeOK /\ MessagesAreOwned /\ [Next]_vars => MessagesAreOwned'
<1> SUFFICES ASSUME TypeOK, MessagesAreOwned, [Next]_vars, NEW d \in Clients
             PROVE  Owned(session'[d], phase'[d])
    BY OwnedEachNext
<1>0. session[d] \in Sessions /\ phase[d] \in Phases /\ Owned(session[d], phase[d])
      BY OwnedEach DEF TypeOK
<1> USE DEF TypeOK
<1>1. CASE UNCHANGED <<phase, session>>
      BY <1>0, <1>1
<1>2. ASSUME NEW off \in BOOLEAN, NEW type \in SaveTypes, EventToClients(type, off)
      PROVE Owned(session'[d], phase'[d])
  <2>1. CASE d \in Connected
        BY <1>0, <1>2, <2>1, NotifiedOwned DEF EventToClients, Connected
  <2>2. CASE d \notin Connected
        BY <1>0, <1>2, <2>2 DEF EventToClients, Connected, Owned
  <2> QED BY <2>1, <2>2
<1>3. ASSUME NEW c \in Clients, Register(c) PROVE Owned(session'[d], phase'[d])
      BY <1>0, <1>3, RegisteredOwned DEF Register
<1>4. ASSUME NEW c \in Clients,
             Connect(c) \/ RunL(c) \/ Requeue(c) \/ Delay(c) \/ Queue(c)
      PROVE Owned(session'[d], phase'[d])
      BY <1>0, <1>4 DEF Connect, RunL, Requeue, Delay, Queue, Goes, Owned
<1>5. ASSUME NEW c \in Clients, Cancel(c) PROVE Owned(session'[d], phase'[d])
      BY <1>0, <1>5 DEF Cancel, Cancelled, Owned
<1>6. ASSUME NEW c \in Clients, Close(c) PROVE Owned(session'[d], phase'[d])
      BY <1>0, <1>6 DEF Close, Owned
<1> QED BY <1>1, <1>2, <1>3, <1>4, <1>5, <1>6
        DEF Next, EventWithoutSave, EventWithoutClients, CancelPowerOff, TimerRunL, vars

(***************************************************************************)
(* Client and server agree on who has the message; nobody who waits is     *)
(* owed anything.                                                          *)
(***************************************************************************)
THEOREM MessagesOwned == Spec => []MessagesAreOwned
<1>1. ASSUME Init PROVE MessagesAreOwned
  <2> SUFFICES ASSUME NEW c \in Clients PROVE Owned(session[c], phase[c])
      BY OwnedEach
  <2>1. Owned(NewSession, "none")
        BY DEF Owned
  <2> QED BY <1>1, <2>1 DEF Init
<1> QED BY <1>1, OwnedStep, TypeCorrect, PTL DEF Spec

-----------------------------------------------------------------------------
(***************************************************************************)
(* The power goes off when the time is up, or when nobody has anything     *)
(* left to save: HandlePowerNotifRequest finds every message pending, and  *)
(* such a session owes nothing.                                            *)
(***************************************************************************)
LEMMA OffStep ==
  MessagesAreOwned' /\ [Next]_vars => [power' = "off" => TimerRunL \/ AllHaveComeBack]_vars
<1> SUFFICES ASSUME MessagesAreOwned', Next, power' = "off", ~TimerRunL
             PROVE  AllHaveComeBack
    OBVIOUS
<1>1. ASSUME NEW off \in BOOLEAN, EventWithoutClients(off) PROVE AllHaveComeBack
      BY <1>1 DEF EventWithoutClients, Connected, AllHaveComeBack
<1>2. ASSUME NEW c \in Clients, Register(c) PROVE AllHaveComeBack
  <2>1. \A d \in Connected : session'[d].pending
        BY <1>2 DEF Register, HandlePowerNotifRequest
  <2>2. \A d \in Clients : phase'[d] # "none" => d \in Connected
        BY <1>2 DEF Register, Connected
  <2> QED BY <2>1, <2>2 DEF MessagesAreOwned, AllHaveComeBack
<1> QED BY <1>1, <1>2 DEF Next, EventWithoutSave, EventToClients, CancelPowerOff,
        Connect, RunL, Requeue, Delay, Queue, Goes, Cancel, Close

\* No client's work is cut short but by the timer.
THEOREM NothingCutShort == Spec => SavedBeforeOff
<1>1. MessagesAreOwned' /\ [Next]_vars => [power' = "off" => TimerRunL \/ AllHaveComeBack]_vars
      BY OffStep
<1> QED BY <1>1, MessagesOwned, PTL DEF Spec, SavedBeforeOff

(***************************************************************************)
(* With a timer, only an event that asks nobody to save leaves a power off *)
(* without one.                                                            *)
(***************************************************************************)
LEMMA TimedStep ==
  [Next]_vars => [HasTimer /\ iPowerOff' /\ ~timer' =>
                    EventWithoutSave(TRUE) \/ (iPowerOff /\ ~timer)]_vars
<1> SUFFICES ASSUME Next, HasTimer, iPowerOff', ~timer'
             PROVE  EventWithoutSave(TRUE) \/ (iPowerOff /\ ~timer)
    OBVIOUS
<1>1. ASSUME NEW off \in BOOLEAN, EventWithoutSave(off) PROVE EventWithoutSave(TRUE)
      BY <1>1, Zenon DEF EventWithoutSave
<1>2. ASSUME NEW c \in Clients, Register(c) PROVE iPowerOff /\ ~timer
      BY <1>2, Zenon DEF Register, HandlePowerNotifRequest, SwitchOff
<1>3. ASSUME NEW off \in BOOLEAN, EventWithoutClients(off) PROVE iPowerOff /\ ~timer
      BY <1>3, Zenon DEF EventWithoutClients, SwitchOff
<1> QED BY <1>1, <1>2, <1>3, Zenon DEF Next, EventToClients, Timed, CancelPowerOff, TimerRunL,
        SwitchOff, Connect, RunL, Requeue, Delay, Queue, Goes, Cancel, Close

\* A power off that clients were told of is not left without its timer.
THEOREM PowerOffTimed == Spec => PowerOffIsTimed
  BY TimedStep, PTL DEF Spec, PowerOffIsTimed
=============================================================================
