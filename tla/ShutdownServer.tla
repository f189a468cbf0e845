--------------------------- MODULE ShutdownServer ---------------------------
(***************************************************************************)
(* The shutdown server and its clients.  A client registers with a message *)
(* that stays with its session; the server completes it to have the client *)
(* save its data or release memory, and the client registers again when it *)
(* is done.  When the power is to go off, it does so as soon as every      *)
(* session has a message again, or when the time for that is up.           *)
(*                                                                         *)
(*   CServShutdownServer, CServShutdownSession   the server                *)
(*   CShutdownTimer                              its timer                 *)
(*   CSaveNotifier, RSaveSession                 a client                  *)
(***************************************************************************)
EXTENDS Integers

CONSTANTS
  Clients,
  SaveTypes,    \* the types of MSaveObserver in use, but for ESaveNone
  HasTimer      \* KShtdwnTimeoutBase is not -1

ASSUME ParametersAssumption ==
  /\ SaveTypes \subseteq {"ESaveData", "ESaveAll", "ESaveQuick", "EReleaseRAM", "EReleaseDisk"}
  /\ HasTimer \in BOOLEAN

VARIABLES
  phase,      \* of each client, what its notifier is at
  session,    \* what the server keeps for each client
  iPowerOff,
  timer,      \* iShutdownTimer is active
  power       \* the device

vars == <<phase, session, iPowerOff, timer, power>>

(***************************************************************************)
(* "none": there is no notifier.  "idle": it is not active.  "requesting": *)
(* its message is on the way.  "waiting": the session has the message.     *)
(* "notified": iStatus is completed.  "saving": SaveL runs.                *)
(***************************************************************************)
Phases == {"none", "idle", "requesting", "waiting", "notified", "saving"}

\* pending: iPtr.  "none" is the -1 of iCurrentEvent and iOutstandingEvent.
Sessions == [pending : BOOLEAN, current : SaveTypes \cup {"none"},
             outstanding : SaveTypes \cup {"none"}]

WrongNewSession == [pending |-> FALSE, current |-> "ESaveNone", outstanding |-> "ESaveNone"]

NewSession == [pending |-> FALSE, current |-> "none", outstanding |-> "none"]

TypeOK ==
  /\ phase \in [Clients -> Phases]
  /\ session \in [Clients -> Sessions]
  /\ iPowerOff \in BOOLEAN
  /\ timer \in BOOLEAN
  /\ power \in {"on", "off"}

Init ==
  /\ phase = [c \in Clients |-> "none"]
  /\ session = [c \in Clients |-> NewSession]
  /\ iPowerOff = FALSE
  /\ timer = FALSE
  /\ power = "on"

Connected == {c \in Clients : phase[c] # "none"}

-----------------------------------------------------------------------------
WrongSwitchOff(requested) ==
  /\ timer' = FALSE
  /\ iPowerOff' = iPowerOff
  /\ power' \in IF requested THEN {"on", "off"} ELSE {"on"}

(***************************************************************************)
(* SwitchOff.  The power stays on if no wake-up event can be enabled, and  *)
(* comes back after a standby.  DoCancel of the timer does nothing: Cancel *)
(* blocks the server until the time is up, and then the timer is inactive, *)
(* as it is at once here.  So it does in CancelPowerOff.                   *)
(***************************************************************************)
SwitchOff(requested) ==
  /\ timer' = FALSE
  /\ iPowerOff' = FALSE
  /\ power' \in IF requested THEN {"on", "off"} ELSE {"on"}

(***************************************************************************)
(* CServShutdownSession::NotifySave.  A client that is not registered is   *)
(* told later if it is at a full save, or at a quick one and is to save    *)
(* its data; it is not told otherwise.                                     *)
(***************************************************************************)
Later(s, type) == s.current = "ESaveAll" \/ (s.current = "ESaveQuick" /\ type = "ESaveData")

Notified(s, type) ==
  IF s.pending THEN [s EXCEPT !.pending = FALSE, !.current = type]
  ELSE IF Later(s, type) THEN [s EXCEPT !.outstanding = type]
  ELSE s

-----------------------------------------------------------------------------
(***************************************************************************)
(* HandleShutdownEventL: of action ESaveNone, without clients, and with.   *)
(***************************************************************************)
EventWithoutSave(off) ==
  /\ power = "on"
  /\ iPowerOff' = off
  /\ UNCHANGED <<phase, session, timer, power>>

EventWithoutClients(off) ==
  /\ power = "on" /\ Connected = {}
  /\ IF off THEN SwitchOff(TRUE) ELSE iPowerOff' = FALSE /\ UNCHANGED <<timer, power>>
  /\ UNCHANGED <<phase, session>>

WrongTimed == timer

\* The timer runs on if it does; whatever the event is, it is started.
Timed == timer \/ HasTimer

EventToClients(type, off) ==
  /\ power = "on" /\ Connected # {}
  /\ iPowerOff' = off
  /\ session' = [c \in Clients |->
       IF c \in Connected THEN Notified(session[c], type) ELSE session[c]]
  /\ phase' = [c \in Clients |-> IF session[c].pending THEN "notified" ELSE phase[c]]
  /\ timer' = Timed
  /\ UNCHANGED power

CancelPowerOff ==
  /\ power = "on"
  /\ iPowerOff' = FALSE /\ timer' = FALSE
  /\ UNCHANGED <<phase, session, power>>

TimerRunL ==
  /\ power = "on" /\ timer
  /\ SwitchOff(iPowerOff)
  /\ UNCHANGED <<phase, session>>

-----------------------------------------------------------------------------
(***************************************************************************)
(* The message of client c arrives: RequestNotifyPowerDown.  What is still *)
(* outstanding comes first, then HandlePowerNotifRequest looks at all the  *)
(* sessions.                                                               *)
(***************************************************************************)
Registered(s) ==
  IF s.outstanding = "none" THEN [s EXCEPT !.pending = TRUE, !.current = "none"]
  ELSE [s EXCEPT !.current = s.outstanding, !.outstanding = "none"]

WrongHandlePowerNotifRequest ==
  IF iPowerOff THEN SwitchOff(TRUE) ELSE UNCHANGED <<iPowerOff, timer, power>>

HandlePowerNotifRequest ==
  IF iPowerOff /\ \A c \in Connected : session'[c].pending
  THEN SwitchOff(TRUE)
  ELSE UNCHANGED <<iPowerOff, timer, power>>

Register(c) ==
  /\ power = "on" /\ phase[c] = "requesting"
  /\ session' = [session EXCEPT ![c] = Registered(@)]
  /\ phase' = [phase EXCEPT ![c] = IF session[c].outstanding = "none"
                                   THEN "waiting" ELSE "notified"]
  /\ HandlePowerNotifRequest

-----------------------------------------------------------------------------
(***************************************************************************)
(* The client.  It may not register again when SaveL is done: DelayRequeue *)
(* was called, and it does so with Queue or HandleError.                   *)
(***************************************************************************)
Goes(c, from, to) ==
  /\ power = "on" /\ phase[c] \in from
  /\ phase' = [phase EXCEPT ![c] = to]
  /\ UNCHANGED <<session, iPowerOff, timer, power>>

Connect(c) == Goes(c, {"none"}, "requesting")
RunL(c) == Goes(c, {"notified"}, "saving")
Requeue(c) == Goes(c, {"saving"}, "requesting")
Delay(c) == Goes(c, {"saving"}, "idle")
Queue(c) == Goes(c, {"idle"}, "requesting")

WrongCancelled(s) == s

\* RequestNotifyPowerDownCancel
Cancelled(s) == [s EXCEPT !.pending = FALSE]

(***************************************************************************)
(* The notifier is cancelled; if its message is on the way, that is served *)
(* first, as both come in order and the client waits.  A notification that *)
(* it has not looked at is lost.                                           *)
(***************************************************************************)
Cancel(c) ==
  /\ power = "on" /\ phase[c] \in {"waiting", "notified"}
  /\ phase' = [phase EXCEPT ![c] = "idle"]
  /\ session' = [session EXCEPT ![c] = Cancelled(@)]
  /\ UNCHANGED <<iPowerOff, timer, power>>

\* The notifier is deleted, or its thread dies at any time: the session is closed.
Close(c) ==
  /\ power = "on" /\ phase[c] # "none"
  /\ phase' = [phase EXCEPT ![c] = "none"]
  /\ session' = [session EXCEPT ![c] = NewSession]
  /\ UNCHANGED <<iPowerOff, timer, power>>

-----------------------------------------------------------------------------
Next ==
  \/ \E off \in BOOLEAN :
       \/ EventWithoutSave(off) \/ EventWithoutClients(off)
       \/ \E type \in SaveTypes : EventToClients(type, off)
  \/ CancelPowerOff \/ TimerRunL
  \/ \E c \in Clients :
       \/ Register(c)
       \/ Connect(c) \/ RunL(c) \/ Requeue(c) \/ Delay(c) \/ Queue(c)
       \/ Cancel(c) \/ Close(c)

Spec == Init /\ [][Next]_vars

\* The timer is an active object of the server, and goes off.
FairSpec == Spec /\ WF_vars(TimerRunL)

-----------------------------------------------------------------------------
(***************************************************************************)
(* The two sides agree on who has the client's message, through events,    *)
(* cancellations and deaths: each is completed once, with nothing more to  *)
(* tell to a client that waits, and what there is still to tell is for a   *)
(* client that was told before and has not come back.                      *)
(***************************************************************************)
MessagesAreOwned ==
  \A c \in Clients :
    /\ session[c].pending <=> phase[c] = "waiting"
    /\ session[c].outstanding # "none" =>
         /\ session[c].current \in {"ESaveAll", "ESaveQuick"}
         /\ phase[c] \notin {"none", "waiting"}
    /\ phase[c] \in {"notified", "saving"} => session[c].current # "none"

(***************************************************************************)
(* The power goes off before the time is up only if every client that is   *)
(* connected has come back from what it was told, and there is nothing     *)
(* that it will be told when it does.                                      *)
(***************************************************************************)
AllHaveComeBack ==
  \A c \in Clients :
    phase'[c] # "none" => phase'[c] = "waiting" /\ session'[c].outstanding = "none"

SavedBeforeOff == [][power' = "off" => TimerRunL \/ AllHaveComeBack]_vars

(***************************************************************************)
(* A client that hangs, leaves or dies cannot hold the power off forever:  *)
(* once clients have been told of it, it is not on its way without the     *)
(* timer running.                                                          *)
(***************************************************************************)
PowerOffIsTimed ==
  [][HasTimer /\ iPowerOff' /\ ~timer' =>
       EventWithoutSave(TRUE) \/ (iPowerOff /\ ~timer)]_vars

\* The time is up some day, or the power off is done or withdrawn before.
PowerOffEnds == iPowerOff /\ timer ~> ~iPowerOff
=============================================================================
