------------------------------ MODULE CleServer ------------------------------
(***************************************************************************)
(* The sessions of the command list execution server: RCleSession in its   *)
(* client, CCleSession and CCleServer in the server's thread, and the      *)
(* array of slots through which the server finds the executor and the      *)
(* outstanding message of a session.                                       *)
(*                                                                         *)
(* What an executor does with its list is the subject of CmdListExecutor;  *)
(* here it completes with some code whenever it likes.                     *)
(*                                                                         *)
(* The kernel delivers the messages of a session in the order they were    *)
(* sent; the clients are threads of their own.                             *)
(***************************************************************************)
EXTENDS Naturals, Sequences, FiniteSets

CONSTANTS
  Clients,   \* threads with an RCleSession each
  NoClient

ASSUME ClientAssumption == NoClient \notin Clients /\ IsFiniteSet(Clients)

VARIABLES
  client,        \* what each client is doing
  request,       \* iStatus of its ExecuteCommandList
  inbox,         \* its messages the server has not received
  sessionIndex,  \* iSessionIndex of its CCleSession, or 0 without one
  slots,         \* iSessionInfoArray
  sessionCount,  \* iSessionCount
  cancelling     \* whose cancellation is acknowledged but not yet performed

vars == <<client, request, inbox, sessionIndex, slots, sessionCount, cancelling>>

Codes == {"KErrNone", "KErrGeneral"}
Functions == {"Connect", "ECleSrvExecuteCmdList", "ECleSrvExecuteCmdListCancel",
              "Disconnect"}

(***************************************************************************)
(* message: the client whose RMessage2 iMessagePtr is a handle to, NoClient *)
(* once the message has been completed.                                    *)
(***************************************************************************)
SlotRecords == [inUse : BOOLEAN, executor : BOOLEAN, message : Clients \cup {NoClient}]

TypeOK ==
  /\ client \in [Clients -> {"closed", "connecting", "open", "cancelling", "closing", "dead"}]
  /\ request \in [Clients -> Codes \cup {"idle", "KRequestPending", "KErrCancel", "KErrNoMemory"}]
  /\ inbox \in [Clients -> Seq(Functions)]
  /\ sessionIndex \in [Clients -> 0..Cardinality(Clients)]
  /\ slots \in Seq(SlotRecords)
  /\ sessionCount \in 0..Cardinality(Clients)
  /\ cancelling \in Clients \cup {NoClient}

Init ==
  /\ client = [c \in Clients |-> "closed"]
  /\ request = [c \in Clients |-> "idle"]
  /\ inbox = [c \in Clients |-> <<>>]
  /\ sessionIndex = [c \in Clients |-> 0]
  /\ slots = <<>>
  /\ sessionCount = 0
  /\ cancelling = NoClient

svars == <<sessionIndex, slots, sessionCount, cancelling>>

Send(c, f) == inbox' = [inbox EXCEPT ![c] = Append(@, f)]
Goto(c, state) == client' = [client EXCEPT ![c] = state]

-----------------------------------------------------------------------------
(***************************************************************************)
(* The client.  All but ExecuteCommandList wait for the server's reply.    *)
(***************************************************************************)
ConnectL(c) ==
  /\ client[c] = "closed"
  /\ Goto(c, "connecting") /\ Send(c, "Connect")
  /\ UNCHANGED <<request, svars>>

\* One list at a time: its active object is not active when it calls.
ExecuteCommandList(c) ==
  /\ client[c] = "open"
  /\ request[c] # "KRequestPending"
  /\ request' = [request EXCEPT ![c] = "KRequestPending"]
  /\ Send(c, "ECleSrvExecuteCmdList")
  /\ UNCHANGED <<client, svars>>

ExecuteCommandListCancel(c) ==
  /\ client[c] = "open"
  /\ Goto(c, "cancelling") /\ Send(c, "ECleSrvExecuteCmdListCancel")
  /\ UNCHANGED <<request, svars>>

\* Close cancels first, and disconnects when the server has replied.
Close(c) ==
  /\ client[c] = "open"
  /\ Goto(c, "closing") /\ Send(c, "ECleSrvExecuteCmdListCancel")
  /\ UNCHANGED <<request, svars>>

\* The kernel closes the session of a thread that dies.
Die(c) ==
  /\ client[c] \in {"open", "cancelling", "closing"}
  /\ Goto(c, "dead") /\ Send(c, "Disconnect")
  /\ UNCHANGED <<request, svars>>

-----------------------------------------------------------------------------
(***************************************************************************)
(* The server.                                                             *)
(***************************************************************************)
Receives(c, f) ==
  /\ cancelling = NoClient
  /\ inbox[c] # <<>> /\ Head(inbox[c]) = f
  /\ inbox' = [inbox EXCEPT ![c] = Tail(@)]

Unused == [inUse |-> FALSE, executor |-> FALSE, message |-> NoClient]
InUse == {i \in DOMAIN slots : slots[i].inUse}
FreeSlots == DOMAIN slots \ InUse

\* Removes the unused elements at the end.
Trim(array) ==
  LET last == {i \in DOMAIN array : array[i].inUse}
  IN  SubSeq(array, 1, IF last = {} THEN 0 ELSE CHOOSE i \in last : \A k \in last : k <= i)

\* RegisterSessionL in slot i: the first free one, or a new one.
Register(i) ==
  /\ slots' = IF i \in DOMAIN slots THEN [slots EXCEPT ![i].inUse = TRUE]
              ELSE Append(slots, [Unused EXCEPT !.inUse = TRUE])
  /\ sessionCount' = sessionCount + 1

RegisterIndex ==
  IF FreeSlots = {} THEN sessionCount + 1
  ELSE CHOOSE i \in FreeSlots : \A k \in FreeSlots : i <= k

WrongDeregister(i) ==
  /\ slots' = Trim([slots EXCEPT ![i].inUse = FALSE])
  /\ sessionCount' = sessionCount - 1

WrongCount(i) ==
  /\ slots' = Trim([slots EXCEPT ![i] = Unused])
  /\ UNCHANGED sessionCount

WrongTrim(i) ==
  /\ slots' = [slots EXCEPT ![i] = Unused]
  /\ sessionCount' = sessionCount - 1

\* DeregisterSession: the executor is deleted, its message left to the kernel.
Deregister(i) ==
  /\ slots' = Trim([slots EXCEPT ![i] = Unused])
  /\ sessionCount' = sessionCount - 1

(***************************************************************************)
(* NewSessionL: the session registers itself in its constructor.           *)
(***************************************************************************)
NewSessionL(c) ==
  /\ Receives(c, "Connect")
  /\ Register(RegisterIndex)
  /\ sessionIndex' = [sessionIndex EXCEPT ![c] = RegisterIndex]
  /\ Goto(c, "open")
  /\ UNCHANGED <<request, cancelling>>

\* The session is constructed in part, and its destructor deregisters it.
UtilProviderFails(c) ==
  /\ Receives(c, "Connect")
  /\ slots' = Trim(slots)
  /\ Goto(c, "closed")
  /\ UNCHANGED <<request, sessionIndex, sessionCount, cancelling>>

\* AppendL leaves: the destructor deregisters the slot of index zero.
ArrayAppendFails(c) ==
  /\ Receives(c, "Connect")
  /\ FreeSlots = {} /\ slots # <<>>
  /\ Deregister(1)
  /\ Goto(c, "closed")
  /\ UNCHANGED <<request, sessionIndex, cancelling>>

Complete(c, code) == request' = [request EXCEPT ![c] = code]

\* ExecuteCommandListL: the session's slot gets an executor and the message.
ExecuteCommandListL(c) ==
  /\ Receives(c, "ECleSrvExecuteCmdList")
  /\ sessionIndex[c] \in DOMAIN slots
  /\ slots' = [slots EXCEPT ![sessionIndex[c]] =
                 [@ EXCEPT !.executor = TRUE, !.message = c]]
  /\ UNCHANGED <<client, request, sessionIndex, sessionCount, cancelling>>

\* The copy of the list or the executor cannot be allocated.
CommandListFails(c) ==
  /\ Receives(c, "ECleSrvExecuteCmdList")
  /\ Complete(c, "KErrNoMemory")
  /\ UNCHANGED <<client, svars>>

\* The executor's StartL leaves, and ServiceError completes the message.
TimerFails(c) ==
  /\ Receives(c, "ECleSrvExecuteCmdList")
  /\ sessionIndex[c] \in DOMAIN slots
  /\ slots' = [slots EXCEPT ![sessionIndex[c]] =
                 [@ EXCEPT !.executor = TRUE, !.message = NoClient]]
  /\ Complete(c, "KErrNoMemory")
  /\ UNCHANGED <<client, sessionIndex, sessionCount, cancelling>>

(***************************************************************************)
(* The executor is done, or is cancelled: the message of slot i is         *)
(* completed and the executor deleted.  Completing a message a second time *)
(* panics the server.                                                      *)
(***************************************************************************)
CompleteSlot(i, code) ==
  /\ slots[i].message # NoClient
  /\ Complete(slots[i].message, code)
  /\ slots' = [slots EXCEPT ![i] = [@ EXCEPT !.executor = FALSE, !.message = NoClient]]

ListExecutionComplete(i, code) ==
  /\ cancelling = NoClient
  /\ slots[i].executor
  /\ CompleteSlot(i, code)
  /\ UNCHANGED <<client, inbox, sessionIndex, sessionCount, cancelling>>

(***************************************************************************)
(* ServiceL replies to a cancellation before it performs it.               *)
(***************************************************************************)
CancelReplied(c) ==
  /\ Receives(c, "ECleSrvExecuteCmdListCancel")
  /\ cancelling' = c
  /\ Goto(c, IF client[c] = "cancelling" THEN "open" ELSE client[c])
  /\ UNCHANGED <<request, sessionIndex, slots, sessionCount>>

WrongToCancel == {i \in {sessionCount} \cap DOMAIN slots : slots[i].executor}

ToCancel == {i \in {sessionIndex[cancelling]} \cap DOMAIN slots : slots[i].executor}

CancelPerformed ==
  /\ cancelling # NoClient
  /\ cancelling' = NoClient
  /\ IF ToCancel = {} THEN UNCHANGED <<request, slots>>
     ELSE \E i \in ToCancel : CompleteSlot(i, "KErrCancel")
  /\ UNCHANGED <<client, inbox, sessionIndex, sessionCount>>

\* The reply to Close's cancellation: the client closes its handle.
Disconnects(c) ==
  /\ client[c] = "closing"
  /\ inbox[c] = <<>>
  /\ Goto(c, "closed") /\ Send(c, "Disconnect")
  /\ UNCHANGED <<request, svars>>

DeregisterSession(c) ==
  /\ Receives(c, "Disconnect")
  /\ Deregister(sessionIndex[c])
  /\ sessionIndex' = [sessionIndex EXCEPT ![c] = 0]
  /\ UNCHANGED <<client, request, cancelling>>
-----------------------------------------------------------------------------
ClientStep(c) ==
  \/ ConnectL(c) \/ ExecuteCommandList(c) \/ ExecuteCommandListCancel(c)
  \/ Close(c) \/ Disconnects(c) \/ Die(c)

ServiceL(c) ==
  \/ NewSessionL(c) \/ UtilProviderFails(c) \/ DeregisterSession(c)
  \/ ExecuteCommandListL(c) \/ CommandListFails(c)
  \/ CancelReplied(c)

ExecutorStep ==
  \E i \in DOMAIN slots, code \in Codes : ListExecutionComplete(i, code)

Next ==
  \/ \E c \in Clients : ClientStep(c) \/ ServiceL(c)
  \/ CancelPerformed
  \/ ExecutorStep

Spec == Init /\ [][Next]_vars

(***************************************************************************)
(* Fairness.  The server receives messages in the order of their arrival   *)
(* and runs its ready active objects: none is passed over for ever.  Every *)
(* list ends.  A client that closes its handle gets there, but need never  *)
(* call anything.                                                          *)
(***************************************************************************)
OwnList(c) ==
  \E i \in DOMAIN slots, code \in Codes :
    slots[i].message = c /\ ListExecutionComplete(i, code)

Fairness ==
  /\ WF_vars(CancelPerformed)
  /\ \A c \in Clients :
       SF_vars(ServiceL(c)) /\ SF_vars(OwnList(c)) /\ WF_vars(Disconnects(c))

FairSpec == Spec /\ Fairness

\* The server when its smallest allocations fail too.
OutOfMemorySpec ==
  Init /\ [][Next \/ \E c \in Clients : ArrayAppendFails(c) \/ TimerFails(c)]_vars

-----------------------------------------------------------------------------
(***************************************************************************)
(* Every session has a slot of its own, the count is that of the slots in  *)
(* use, on which the index of the next new slot rests, and the array ends  *)
(* in a slot that is in use.                                               *)
(***************************************************************************)
SlotsAreOwned ==
  LET sessions == {c \in Clients : sessionIndex[c] # 0}
  IN  /\ InUse = {sessionIndex[c] : c \in sessions}
      /\ \A c, d \in sessions : sessionIndex[c] = sessionIndex[d] => c = d
      /\ sessionCount = Cardinality(InUse)
      /\ slots # <<>> => Len(slots) \in InUse

(***************************************************************************)
(* "In the case of ECleSrvExecuteCmdList, the RMessage is completed by the *)
(* Executor call into the server's ListExecutionComplete method.": while   *)
(* there is an executor its message has not been completed, and is the one *)
(* of the session that owns the slot.                                      *)
(***************************************************************************)
ExecutorOwesAnswer ==
  \A i \in DOMAIN slots :
    slots[i].executor =>
      \E c \in Clients : /\ slots[i].message = c
                         /\ sessionIndex[c] = i
                         /\ request[c] = "KRequestPending"

(***************************************************************************)
(* A client that has closed its session is not owed an answer for longer   *)
(* than the server takes to perform the cancellation it has replied to.    *)
(***************************************************************************)
ClosedIsCancelled ==
  \A c \in Clients :
    client[c] = "closed" /\ request[c] = "KRequestPending" => cancelling = c

(***************************************************************************)
(* An executor is not deleted with its message left open, unless the       *)
(* client is dead.                                                         *)
(***************************************************************************)
NoListAbandoned ==
  [][\A c \in Clients :
       /\ \E i \in DOMAIN slots : slots[i].executor /\ slots[i].message = c
       /\ ~ \E i \in DOMAIN slots' : slots'[i].executor /\ slots'[i].message = c
       => request'[c] # "KRequestPending" \/ client[c] = "dead"]_vars

\* Every list a client sends for execution is answered.
RequestAnswered ==
  \A c \in Clients :
    request[c] = "KRequestPending" ~> request[c] # "KRequestPending" \/ client[c] = "dead"

\* When every client is gone for good the array is empty again.
SlotsAreReleased ==
  <>[](\A c \in Clients : client[c] \in {"closed", "dead"}) => <>[](slots = <<>>)

(***************************************************************************)
(* The assertion in RegisterSessionL: a slot that is not in use has no     *)
(* executor.                                                               *)
(***************************************************************************)
FreeSlotIsEmpty == \A i \in FreeSlots : ~slots[i].executor
=============================================================================
