-------------------------- MODULE CleServer_proofs --------------------------
(***************************************************************************)
(* Theorems about the sessions of the command list server, for any number  *)
(* of clients: the array of slots, the messages of the executors, and what *)
(* closing a session and deleting an executor leave behind.                *)
(***************************************************************************)
EXTENDS CleServer, NaturalSets, FiniteSetTheorems, SequenceTheorems, TLAPS

Used(array) == {i \in DOMAIN array : array[i].inUse}

Has(q, f) == \E n \in DOMAIN q : q[n] = f

OnlyList(q) ==
  \A m, n \in DOMAIN q :
    q[m] = "ECleSrvExecuteCmdList" /\ q[n] = "ECleSrvExecuteCmdList" => m = n

Calls == {"ECleSrvExecuteCmdList", "ECleSrvExecuteCmdListCancel"}

(***************************************************************************)
(* What the inbox q of a client in state s can hold when the index of its  *)
(* session is x.                                                           *)
(***************************************************************************)
Shape(s, x, q) ==
  /\ s \in {"closed", "connecting"} =>
       /\ Len(q) = (IF s = "connecting" THEN 1 ELSE 0) + (IF x = 0 THEN 0 ELSE 1)
       /\ \A n \in DOMAIN q :
            q[n] = IF s = "connecting" /\ n = Len(q) THEN "Connect" ELSE "Disconnect"
  /\ s \in {"open", "cancelling", "closing"} => x # 0 /\ \A n \in DOMAIN q : q[n] \in Calls
  /\ s = "closing" => \A n \in DOMAIN q : n = Len(q) => q[n] = "ECleSrvExecuteCmdListCancel"
  /\ s = "dead" =>
       /\ Len(q) = 0 <=> x = 0
       /\ \A n \in DOMAIN q : IF n = Len(q) THEN q[n] = "Disconnect" ELSE q[n] \in Calls

HasExecutor(c) == sessionIndex[c] \in DOMAIN slots /\ slots[sessionIndex[c]].executor

(***************************************************************************)
(* A list on its way is the only one of its client, and waits for an       *)
(* answer; and what waits for an answer is on its way or executed, or its  *)
(* client is dead.                                                         *)
(***************************************************************************)
ListOnItsWay(c) ==
  /\ OnlyList(inbox[c])
  /\ Has(inbox[c], "ECleSrvExecuteCmdList") =>
       request[c] = "KRequestPending" /\ ~HasExecutor(c)
  /\ request[c] = "KRequestPending" /\ client[c] # "dead" =>
       Has(inbox[c], "ECleSrvExecuteCmdList") \/ HasExecutor(c)

\* What a client that closes has not been answered yet will be cancelled.
CloseCancels(c) ==
  request[c] = "KRequestPending" =>
    /\ client[c] = "closing" => cancelling = c \/ inbox[c] # <<>>
    /\ client[c] \in {"closed", "connecting"} => cancelling = c

Local(c) ==
  /\ Shape(client[c], sessionIndex[c], inbox[c])
  /\ ListOnItsWay(c)
  /\ CloseCancels(c)

IInv == TypeOK /\ SlotsAreOwned /\ ExecutorOwesAnswer /\ \A c \in Clients : Local(c)

-----------------------------------------------------------------------------
(***************************************************************************)
(* The array of slots.                                                     *)
(***************************************************************************)
LEMMA TrimFacts ==
  ASSUME NEW array \in Seq(SlotRecords)
  PROVE  /\ Trim(array) \in Seq(SlotRecords)
         /\ DOMAIN Trim(array) \subseteq DOMAIN array
         /\ \A i \in DOMAIN Trim(array) : Trim(array)[i] = array[i]
         /\ Used(Trim(array)) = Used(array)
         /\ Trim(array) # <<>> => Len(Trim(array)) \in Used(array)
<1> DEFINE last == Used(array)
           n == IF last = {} THEN 0 ELSE CHOOSE i \in last : \A k \in last : k <= i
<1>1. Len(array) \in Nat /\ DOMAIN array = 1..Len(array)
  BY LenProperties
<1>2. last \in SUBSET Nat /\ \A k \in last : k <= Len(array)
  BY <1>1 DEF Used
<1>3. /\ n \in 0..Len(array)
      /\ last = {} => n = 0
      /\ last # {} => n \in last
      /\ \A k \in last : k <= n
  <2>1. CASE last = {}
    BY <1>1, <2>1
  <2>2. CASE last # {}
    <3>1. \E i \in last : \A k \in last : k <= i
      BY <1>1, <1>2, <2>2, GreatestExists
    <3>2. n \in last /\ \A k \in last : k <= n
      BY <2>2, <3>1
    <3>3. n \in Nat /\ n <= Len(array)
      BY <1>2, <3>2
    <3> HIDE DEF n, last
    <3> QED BY <1>1, <2>2, <3>2, <3>3
  <2> QED BY <2>1, <2>2
<1> HIDE DEF n
<1>4. Trim(array) = SubSeq(array, 1, n)
  BY DEF Trim, Used, n
<1>5. /\ SubSeq(array, 1, n) \in Seq(SlotRecords)
      /\ Len(SubSeq(array, 1, n)) = n
      /\ \A i \in 1..n : SubSeq(array, 1, n)[i] = array[i]
  <2>1. \A i \in 1..n : array[i] \in SlotRecords
    BY <1>1, <1>3, ElementOfSeq
  <2> QED BY <1>1, <1>3, <2>1, SubSeqProperties
<1>6. DOMAIN SubSeq(array, 1, n) = 1..n
  BY <1>5, LenProperties
<1>7. Used(Trim(array)) = Used(array)
  <2>1. \A i \in 1..n : i \in DOMAIN array
    BY <1>1, <1>3
  <2>2. \A i \in last : i \in 1..n
    BY <1>1, <1>3 DEF Used
  <2> QED BY <1>4, <1>5, <1>6, <2>1, <2>2 DEF Used
<1>8. Trim(array) # <<>> => Len(Trim(array)) \in Used(array)
  <2>1. CASE n = 0
    BY <1>4, <1>5, <2>1, EmptySeq
  <2>2. CASE n # 0
    BY <1>3, <1>4, <1>5, <2>2
  <2> QED BY <2>1, <2>2
<1> QED BY <1>1, <1>3, <1>4, <1>5, <1>6, <1>7, <1>8

(***************************************************************************)
(* The slots are numbered by at most as many indices as there are clients. *)
(***************************************************************************)
LEMMA SlotFacts ==
  ASSUME TypeOK, SlotsAreOwned
  PROVE  /\ Len(slots) \in Nat /\ DOMAIN slots = 1..Len(slots)
         /\ InUse = Used(slots)
         /\ IsFiniteSet(InUse) /\ Cardinality(InUse) = sessionCount
         /\ \A c \in Clients : sessionIndex[c] # 0 => sessionIndex[c] \in InUse
         /\ \A i \in InUse : \E c \in Clients : sessionIndex[c] = i /\ i # 0
         /\ \A c, d \in Clients : sessionIndex[c] # 0 /\ sessionIndex[c] = sessionIndex[d] => c = d
         /\ Len(slots) <= Cardinality(Clients)
         /\ Cardinality(Clients) \in Nat
<1>1. Len(slots) \in Nat /\ DOMAIN slots = 1..Len(slots)
  BY LenProperties DEF TypeOK
<1>2. InUse = Used(slots)
  BY DEF InUse, Used
<1>3. IsFiniteSet(DOMAIN slots)
  BY <1>1, FS_Interval
<1>4. IsFiniteSet(InUse)
  BY <1>3, FS_Subset DEF InUse
<1>5. Cardinality(Clients) \in Nat
  BY ClientAssumption, FS_CardinalityType
<1>6. Len(slots) <= Cardinality(Clients)
  <2>1. CASE slots = <<>>
    BY <1>1, <1>5, <2>1, EmptySeq
  <2>2. CASE slots # <<>>
    <3>1. PICK c \in Clients : sessionIndex[c] = Len(slots)
      BY <2>2 DEF SlotsAreOwned
    <3> QED BY <1>1, <1>5, <3>1 DEF TypeOK
  <2> QED BY <2>1, <2>2
<1> QED BY <1>1, <1>2, <1>4, <1>5, <1>6 DEF SlotsAreOwned, TypeOK

(***************************************************************************)
(* A client without a session leaves room for one more.                    *)
(***************************************************************************)
LEMMA RoomForOne ==
  ASSUME TypeOK, SlotsAreOwned, NEW c \in Clients, sessionIndex[c] = 0
  PROVE  sessionCount + 1 <= Cardinality(Clients)
<1> DEFINE sessions == {d \in Clients : sessionIndex[d] # 0}
           f == [d \in sessions |-> sessionIndex[d]]
<1>1. /\ IsFiniteSet(Clients \ {c})
      /\ Cardinality(Clients \ {c}) = Cardinality(Clients) - 1
  BY ClientAssumption, FS_RemoveElement
<1>2. sessions \in SUBSET (Clients \ {c})
  OBVIOUS
<1>3. IsFiniteSet(sessions) /\ Cardinality(sessions) <= Cardinality(Clients) - 1
  BY <1>1, <1>2, FS_Subset
<1>4. f \in Surjection(sessions, InUse)
  <2>1. f \in [sessions -> InUse]
    BY SlotFacts
  <2>2. \A i \in InUse : \E d \in sessions : f[d] = i
    BY SlotFacts
  <2> QED BY <2>1, <2>2 DEF Surjection
<1>5. Cardinality(InUse) <= Cardinality(sessions)
  BY <1>3, <1>4, FS_Surjection
<1>6. /\ Cardinality(sessions) \in Nat /\ Cardinality(InUse) = sessionCount
      /\ sessionCount \in Nat /\ Cardinality(Clients) \in Nat
  BY <1>3, FS_CardinalityType, SlotFacts DEF TypeOK
<1> QED BY <1>3, <1>5, <1>6

LEMMA AllInUse ==
  ASSUME TypeOK, SlotsAreOwned, DOMAIN slots = InUse
  PROVE  sessionCount = Len(slots)
<1>1. Len(slots) \in Nat /\ DOMAIN slots = 1..Len(slots) /\ Len(slots) \in Int /\ 1 \in Int
  BY SlotFacts
<1>2. Cardinality(1..Len(slots)) = IF 1 > Len(slots) THEN 0 ELSE Len(slots) - 1 + 1
  BY <1>1, FS_Interval
<1>3. Cardinality(1..Len(slots)) = Len(slots)
  BY <1>1, <1>2
<1> QED BY <1>1, <1>3, SlotFacts

(***************************************************************************)
(* RegisterSessionL: a slot not in use, without an executor, comes into    *)
(* use; no other one changes.                                              *)
(***************************************************************************)
LEMMA RegisterIndexFacts ==
  ASSUME TypeOK, SlotsAreOwned
  PROVE  IF FreeSlots = {} THEN /\ RegisterIndex = Len(slots) + 1
                                /\ DOMAIN slots = InUse
         ELSE RegisterIndex \in FreeSlots
<1>1. CASE FreeSlots = {}
  <2>1. DOMAIN slots = InUse
    BY <1>1 DEF FreeSlots, InUse
  <2>2. sessionCount = Len(slots)
    BY <2>1, AllInUse
  <2> QED BY <1>1, <2>1, <2>2 DEF RegisterIndex
<1>2. CASE FreeSlots # {}
  <2>1. FreeSlots \in SUBSET Nat
    BY SlotFacts DEF FreeSlots
  <2>2. \E i \in FreeSlots : \A k \in FreeSlots : i <= k
    BY <1>2, <2>1, LeastExists
  <2> QED BY <1>2, <2>2 DEF RegisterIndex
<1> QED BY <1>1, <1>2

LEMMA RegisterFacts ==
  ASSUME TypeOK, SlotsAreOwned, NEW c \in Clients, sessionIndex[c] = 0,
         Register(RegisterIndex)
  PROVE  /\ slots' \in Seq(SlotRecords)
         /\ sessionCount' = sessionCount + 1 /\ sessionCount' \in 0..Cardinality(Clients)
         /\ RegisterIndex \in 1..Cardinality(Clients) /\ RegisterIndex \notin InUse
         /\ Used(slots') = InUse \cup {RegisterIndex}
         /\ slots' # <<>> /\ Len(slots') \in Used(slots')
         /\ DOMAIN slots' = DOMAIN slots \cup {RegisterIndex}
         /\ \A i \in DOMAIN slots : /\ slots'[i].executor = slots[i].executor
                                    /\ slots'[i].message = slots[i].message
         /\ RegisterIndex \notin DOMAIN slots => ~slots'[RegisterIndex].executor
<1> DEFINE r == RegisterIndex
<1>1. /\ sessionCount \in Nat /\ Cardinality(Clients) \in Nat
      /\ sessionCount + 1 <= Cardinality(Clients)
  BY RoomForOne, SlotFacts DEF TypeOK
<1>2. sessionCount' = sessionCount + 1 /\ sessionCount' \in 0..Cardinality(Clients)
  BY <1>1 DEF Register
<1>3. CASE FreeSlots = {}
  <2> DEFINE new == [Unused EXCEPT !.inUse = TRUE]
  <2>1. r = Len(slots) + 1 /\ DOMAIN slots = InUse /\ r \notin DOMAIN slots
    BY <1>3, RegisterIndexFacts, SlotFacts
  <2>2. new \in SlotRecords /\ new.inUse /\ ~new.executor
    BY DEF SlotRecords, Unused
  <2>3. slots' = Append(slots, new)
    BY <2>1 DEF Register
  <2> HIDE DEF new
  <2>4. /\ slots' \in Seq(SlotRecords) /\ slots' # <<>>
        /\ Len(slots') = Len(slots) + 1
        /\ \A i \in 1..Len(slots) : slots'[i] = slots[i]
        /\ slots'[Len(slots) + 1] = new
    BY <2>2, <2>3, AppendProperties DEF TypeOK
  <2>5. DOMAIN slots' = 1..(Len(slots) + 1)
    BY <2>4, LenProperties
  <2>6. r = sessionCount + 1
    BY <2>1, AllInUse
  <2>7. DOMAIN slots' = DOMAIN slots \cup {r}
    BY <2>1, <2>5, SlotFacts
  <2>8. Used(slots') = InUse \cup {r}
    BY <2>1, <2>2, <2>4, <2>7, SlotFacts DEF Used
  <2> QED BY <1>1, <1>2, <2>1, <2>2, <2>4, <2>6, <2>7, <2>8, SlotFacts
<1>4. CASE FreeSlots # {}
  <2> DEFINE new == [slots[r] EXCEPT !.inUse = TRUE]
  <2>1. r \in DOMAIN slots /\ r \notin InUse
    BY <1>4, RegisterIndexFacts DEF FreeSlots
  <2>2. slots[r] \in SlotRecords
    BY <2>1, SlotFacts, ElementOfSeq DEF TypeOK
  <2>3. new \in SlotRecords /\ new.inUse /\ new.executor = slots[r].executor
        /\ new.message = slots[r].message
    BY <2>2 DEF SlotRecords
  <2>4. slots' = [slots EXCEPT ![r] = new]
    BY <2>1 DEF Register
  <2> HIDE DEF new
  <2>5. /\ slots' \in Seq(SlotRecords)
        /\ Len(slots') = Len(slots)
        /\ \A j \in 1..Len(slots) : slots'[j] = IF j = r THEN new ELSE slots[j]
    BY <2>1, <2>3, <2>4, SlotFacts, ExceptSeq DEF TypeOK
  <2>6. DOMAIN slots' = DOMAIN slots
    BY <2>4
  <2>7. Used(slots') = InUse \cup {r}
    BY <2>1, <2>3, <2>5, <2>6, SlotFacts DEF Used
  <2>8. slots # <<>> /\ Len(slots) \in InUse
    BY <2>1 DEF SlotsAreOwned
  <2>9. slots' # <<>> /\ Len(slots') \in Used(slots')
    BY <2>1, <2>5, <2>6, <2>7, <2>8
  <2> QED BY <1>1, <1>2, <2>1, <2>3, <2>5, <2>6, <2>7, <2>9, SlotFacts
<1> QED BY <1>3, <1>4

(***************************************************************************)
(* DeregisterSession of a slot in use: no other one changes.               *)
(***************************************************************************)
LEMMA DeregisterFacts ==
  ASSUME TypeOK, SlotsAreOwned, NEW i \in InUse, Deregister(i)
  PROVE  /\ slots' \in Seq(SlotRecords)
         /\ sessionCount' \in 0..Cardinality(Clients)
         /\ Used(slots') = InUse \ {i} /\ sessionCount' = Cardinality(Used(slots'))
         /\ slots' # <<>> => Len(slots') \in Used(slots')
         /\ DOMAIN slots' \subseteq DOMAIN slots
         /\ \A k \in DOMAIN slots' : k # i => slots'[k] = slots[k]
         /\ i \in DOMAIN slots' => ~slots'[i].executor
<1> DEFINE array == [slots EXCEPT ![i] = Unused]
<1>1. i \in DOMAIN slots /\ Unused \in SlotRecords /\ ~Unused.inUse /\ ~Unused.executor
  BY DEF InUse, SlotRecords, Unused
<1>2. /\ array \in Seq(SlotRecords)
      /\ DOMAIN array = DOMAIN slots
      /\ \A k \in DOMAIN slots : array[k] = IF k = i THEN Unused ELSE slots[k]
  BY <1>1, SlotFacts, ExceptSeq DEF TypeOK
<1>3. slots' = Trim(array) /\ sessionCount' = sessionCount - 1
  BY DEF Deregister
<1>4. Used(array) = InUse \ {i}
  BY <1>1, <1>2 DEF Used, InUse
<1>5. Cardinality(InUse \ {i}) = sessionCount - 1 /\ IsFiniteSet(InUse \ {i})
  BY SlotFacts, FS_RemoveElement
<1>6. sessionCount - 1 \in Nat /\ sessionCount \in Nat /\ sessionCount <= Cardinality(Clients)
  BY <1>5, FS_CardinalityType, SlotFacts DEF TypeOK
<1>7. sessionCount' \in 0..Cardinality(Clients)
  BY <1>3, <1>6, SlotFacts
<1> HIDE DEF array
<1> QED BY <1>1, <1>2, <1>3, <1>4, <1>5, <1>7, TrimFacts

-----------------------------------------------------------------------------
(***************************************************************************)
(* Sending and receiving.                                                  *)
(***************************************************************************)
LEMMA SentFacts ==
  ASSUME TypeOK, NEW c \in Clients, NEW f \in Functions, Send(c, f)
  PROVE  /\ inbox' \in [Clients -> Seq(Functions)]
         /\ \A d \in Clients : d # c => inbox'[d] = inbox[d]
         /\ Len(inbox[c]) \in Nat /\ DOMAIN inbox[c] = 1..Len(inbox[c])
         /\ Len(inbox'[c]) = Len(inbox[c]) + 1
         /\ DOMAIN inbox'[c] = 1..(Len(inbox[c]) + 1)
         /\ \A n \in 1..Len(inbox[c]) : inbox'[c][n] = inbox[c][n]
         /\ inbox'[c][Len(inbox[c]) + 1] = f
         /\ inbox'[c] # <<>>
<1>1. inbox[c] \in Seq(Functions)
  BY DEF TypeOK
<1>2. inbox' = [inbox EXCEPT ![c] = Append(inbox[c], f)]
  BY DEF Send
<1>3. inbox'[c] = Append(inbox[c], f) /\ \A d \in Clients : d # c => inbox'[d] = inbox[d]
  BY <1>2 DEF TypeOK
<1>4. /\ Append(inbox[c], f) \in Seq(Functions)
      /\ Append(inbox[c], f) # <<>>
      /\ Len(Append(inbox[c], f)) = Len(inbox[c]) + 1
      /\ \A n \in 1..Len(inbox[c]) : Append(inbox[c], f)[n] = inbox[c][n]
      /\ Append(inbox[c], f)[Len(inbox[c]) + 1] = f
  BY <1>1, AppendProperties
<1>5. inbox' \in [Clients -> Seq(Functions)]
  BY <1>2, <1>4 DEF TypeOK
<1> QED BY <1>1, <1>3, <1>4, <1>5, LenProperties

LEMMA ReceivedFacts ==
  ASSUME TypeOK, NEW c \in Clients, NEW f \in Functions, Receives(c, f)
  PROVE  /\ inbox' \in [Clients -> Seq(Functions)]
         /\ \A d \in Clients : d # c => inbox'[d] = inbox[d]
         /\ Len(inbox[c]) \in Nat /\ DOMAIN inbox[c] = 1..Len(inbox[c])
         /\ Len(inbox[c]) >= 1 /\ inbox[c][1] = f
         /\ Len(inbox'[c]) = Len(inbox[c]) - 1
         /\ DOMAIN inbox'[c] = 1..(Len(inbox[c]) - 1)
         /\ \A n \in 1..(Len(inbox[c]) - 1) : inbox'[c][n] = inbox[c][n + 1]
         /\ inbox'[c] # <<>> <=> Len(inbox[c]) >= 2
<1>1. inbox[c] \in Seq(Functions) /\ inbox[c] # <<>> /\ Head(inbox[c]) = f
  BY DEF TypeOK, Receives
<1>2. inbox' = [inbox EXCEPT ![c] = Tail(inbox[c])]
  BY DEF Receives
<1>3. inbox'[c] = Tail(inbox[c]) /\ \A d \in Clients : d # c => inbox'[d] = inbox[d]
  BY <1>2 DEF TypeOK
<1>4. /\ Tail(inbox[c]) \in Seq(Functions)
      /\ Len(Tail(inbox[c])) = Len(inbox[c]) - 1
      /\ \A n \in 1..(Len(inbox[c]) - 1) : Tail(inbox[c])[n] = inbox[c][n + 1]
  BY <1>1, HeadTailProperties
<1>5. /\ Len(inbox[c]) \in Nat /\ DOMAIN inbox[c] = 1..Len(inbox[c])
      /\ Len(inbox[c]) # 0 /\ Head(inbox[c]) = inbox[c][1]
  BY <1>1, LenProperties, EmptySeq
<1>6. DOMAIN Tail(inbox[c]) = 1..Len(Tail(inbox[c]))
  BY <1>4, LenProperties
<1>7. Tail(inbox[c]) # <<>> <=> Len(inbox[c]) >= 2
  <2>1. Tail(inbox[c]) = <<>> <=> Len(Tail(inbox[c])) = 0
    BY <1>4, EmptySeq
  <2>2. \A k \in Nat : k # 0 => (k - 1 = 0 <=> ~(k >= 2))
    OBVIOUS
  <2> QED BY <1>4, <1>5, <2>1, <2>2, Zenon
<1>8. inbox' \in [Clients -> Seq(Functions)]
  BY <1>2, <1>4 DEF TypeOK
<1> QED BY <1>1, <1>3, <1>4, <1>5, <1>6, <1>7, <1>8

-----------------------------------------------------------------------------
(***************************************************************************)
(* What concerns a client stays as it is when another one takes a step.    *)
(***************************************************************************)
Kept(d) ==
  /\ client'[d] = client[d] /\ request'[d] = request[d]
  /\ inbox'[d] = inbox[d] /\ sessionIndex'[d] = sessionIndex[d]
  /\ HasExecutor(d)' <=> HasExecutor(d)
  /\ cancelling' = d <=> cancelling = d

LEMMA KeptLocal ==
  ASSUME NEW d \in Clients, Local(d), Kept(d)
  PROVE  Local(d)'
<1>1. Shape(client[d], sessionIndex[d], inbox[d])'
  BY DEF Local, Kept
<1>2. ListOnItsWay(d)'
  BY DEF Local, Kept, ListOnItsWay
<1>3. CloseCancels(d)'
  BY DEF Local, Kept, CloseCancels
<1> QED BY <1>1, <1>2, <1>3 DEF Local

\* Only the session of a client has its executor.
LEMMA OwnExecutor ==
  ASSUME TypeOK, SlotsAreOwned, ExecutorOwesAnswer, NEW c \in Clients, HasExecutor(c)
  PROVE  /\ slots[sessionIndex[c]].message = c /\ request[c] = "KRequestPending"
         /\ sessionIndex[c] \in InUse
<1>1. sessionIndex[c] \in DOMAIN slots /\ slots[sessionIndex[c]].executor
  BY DEF HasExecutor
<1>2. sessionIndex[c] # 0
  BY <1>1, SlotFacts
<1>3. PICK d \in Clients : /\ slots[sessionIndex[c]].message = d
                           /\ sessionIndex[d] = sessionIndex[c]
                           /\ request[d] = "KRequestPending"
  BY <1>1 DEF ExecutorOwesAnswer
<1> QED BY <1>2, <1>3, SlotFacts

(***************************************************************************)
(* The steps of the clients leave the server as it is, and no request is   *)
(* answered by them.                                                       *)
(***************************************************************************)
LEMMA ServerUnchanged ==
  ASSUME IInv, UNCHANGED svars,
         \A d \in Clients : request[d] = "KRequestPending" => request'[d] = "KRequestPending"
  PROVE  SlotsAreOwned' /\ ExecutorOwesAnswer' /\ \A d \in Clients : HasExecutor(d)' <=> HasExecutor(d)
<1>1. SlotsAreOwned'
  BY DEF IInv, SlotsAreOwned, svars, InUse
<1>2. ExecutorOwesAnswer'
  BY DEF IInv, ExecutorOwesAnswer, svars
<1> QED BY <1>1, <1>2 DEF HasExecutor, svars

(***************************************************************************)
(* Lists among what is sent.                                               *)
(***************************************************************************)
LEMMA SentList ==
  ASSUME TypeOK, NEW c \in Clients, NEW f \in Functions, Send(c, f), OnlyList(inbox[c]),
         f = "ECleSrvExecuteCmdList" => ~Has(inbox[c], "ECleSrvExecuteCmdList")
  PROVE  /\ OnlyList(inbox'[c])
         /\ Has(inbox'[c], "ECleSrvExecuteCmdList")
              <=> Has(inbox[c], "ECleSrvExecuteCmdList") \/ f = "ECleSrvExecuteCmdList"
<1> DEFINE k == Len(inbox[c])
           q == inbox[c]
           p == inbox'[c]
<1>1. /\ k \in Nat /\ DOMAIN q = 1..k /\ DOMAIN p = 1..(k + 1)
      /\ \A n \in 1..k : p[n] = q[n]
      /\ p[k + 1] = f
  BY SentFacts
<1>2. OnlyList(q) /\ (f = "ECleSrvExecuteCmdList" => ~Has(q, "ECleSrvExecuteCmdList"))
  OBVIOUS
<1> HIDE DEF k, q, p
<1>3. \A n \in 1..(k + 1) : n \in 1..k \/ n = k + 1
  BY <1>1
<1>4. 1..k \subseteq 1..(k + 1) /\ k + 1 \in 1..(k + 1)
  BY <1>1
<1>5. OnlyList(p)
  BY <1>1, <1>2, <1>3, <1>4 DEF OnlyList, Has
<1>6. Has(p, "ECleSrvExecuteCmdList")
        <=> Has(q, "ECleSrvExecuteCmdList") \/ f = "ECleSrvExecuteCmdList"
  BY <1>1, <1>3, <1>4 DEF Has
<1> QED BY <1>5, <1>6 DEF q, p

\* A call sent over a session leaves its client in a state where calls are.
LEMMA SentCall ==
  ASSUME TypeOK, NEW c \in Clients, NEW f \in Calls, Send(c, f),
         Shape("open", sessionIndex[c], inbox[c]),
         NEW s \in {"open", "cancelling", "closing"},
         s = "closing" => f = "ECleSrvExecuteCmdListCancel"
  PROVE  Shape(s, sessionIndex[c], inbox'[c])
<1> DEFINE k == Len(inbox[c])
           q == inbox[c]
           p == inbox'[c]
           x == sessionIndex[c]
<1>1. f \in Functions
  BY DEF Calls, Functions
<1>2. /\ k \in Nat /\ DOMAIN q = 1..k /\ DOMAIN p = 1..(k + 1) /\ Len(p) = k + 1
      /\ \A n \in 1..k : p[n] = q[n]
      /\ p[k + 1] = f
  BY <1>1, SentFacts
<1>3. x # 0 /\ \A n \in DOMAIN q : q[n] \in Calls
  BY DEF Shape
<1> HIDE DEF k, q, p, x
<1>4. \A n \in DOMAIN p : n \in DOMAIN q \/ n = k + 1
  BY <1>2
<1>5. \A n \in DOMAIN p : p[n] \in Calls
  BY <1>2, <1>3, <1>4
<1>6. s = "closing" => \A n \in DOMAIN p : n = Len(p) => p[n] = "ECleSrvExecuteCmdListCancel"
  BY <1>2
<1>7. Shape(s, x, p)
  BY <1>3, <1>5, <1>6 DEF Shape
<1> QED BY <1>7 DEF p, x

LEMMA ClientTypes ==
  ASSUME TypeOK, NEW c \in Clients, NEW f \in Functions, Send(c, f),
         NEW s \in {"connecting", "open", "cancelling", "closing", "closed", "dead"},
         client' = [client EXCEPT ![c] = s],
         request' = request \/ request' = [request EXCEPT ![c] = "KRequestPending"],
         UNCHANGED svars
  PROVE  TypeOK'
<1>1. inbox' \in [Clients -> Seq(Functions)]
  BY SentFacts
<1> QED BY <1>1 DEF TypeOK, svars

LEMMA ConnectKeepsLocal ==
  ASSUME IInv, NEW c \in Clients, ConnectL(c), HasExecutor(c)' <=> HasExecutor(c)
  PROVE  Local(c)'
<1>1. /\ client[c] = "closed" /\ client'[c] = "connecting" /\ Send(c, "Connect")
      /\ request'[c] = request[c] /\ sessionIndex'[c] = sessionIndex[c] /\ cancelling' = cancelling
  BY DEF ConnectL, Goto, svars, IInv, TypeOK
<1>2. Local(c) /\ TypeOK /\ "Connect" \in Functions
  BY DEF IInv, Functions
<1>3. Shape(client[c], sessionIndex[c], inbox[c])'
  <2> DEFINE k == Len(inbox[c])
             q == inbox[c]
             p == inbox'[c]
             x == sessionIndex[c]
  <2>1. /\ k = (IF x = 0 THEN 0 ELSE 1)
        /\ \A n \in DOMAIN q : q[n] = "Disconnect"
    BY <1>1, <1>2 DEF Local, Shape
  <2>2. /\ k \in Nat /\ DOMAIN q = 1..k /\ DOMAIN p = 1..(k + 1) /\ Len(p) = k + 1
        /\ \A n \in 1..k : p[n] = q[n]
        /\ p[k + 1] = "Connect"
    BY <1>1, <1>2, SentFacts
  <2> HIDE DEF k, q, p, x
  <2>3. \A n \in DOMAIN p : (n \in DOMAIN q /\ n # k + 1) \/ n = k + 1
    BY <2>2
  <2>4. \A n \in DOMAIN p : p[n] = IF n = Len(p) THEN "Connect" ELSE "Disconnect"
    BY <2>1, <2>2, <2>3
  <2>5. Shape("connecting", x, p)
    BY <2>1, <2>2, <2>4 DEF Shape
  <2> QED BY <1>1, <2>5 DEF p, x
<1>4. ListOnItsWay(c)'
  BY <1>1, <1>2, SentList DEF Local, ListOnItsWay
<1>5. CloseCancels(c)'
  BY <1>1, <1>2 DEF Local, CloseCancels
<1> QED BY <1>3, <1>4, <1>5 DEF Local

LEMMA ExecuteKeepsLocal ==
  ASSUME IInv, NEW c \in Clients, ExecuteCommandList(c), HasExecutor(c)' <=> HasExecutor(c)
  PROVE  Local(c)'
<1>1. /\ client[c] = "open" /\ client'[c] = "open" /\ Send(c, "ECleSrvExecuteCmdList")
      /\ request[c] # "KRequestPending" /\ request'[c] = "KRequestPending"
      /\ sessionIndex'[c] = sessionIndex[c] /\ cancelling' = cancelling
  BY DEF ExecuteCommandList, svars, IInv, TypeOK
<1>2. Local(c) /\ TypeOK /\ "ECleSrvExecuteCmdList" \in Functions
  BY DEF IInv, Functions
<1>3. Shape(client[c], sessionIndex[c], inbox[c])'
  BY <1>1, <1>2, SentCall DEF Local, Calls
<1>4. ~HasExecutor(c)
  BY <1>1, OwnExecutor DEF IInv
<1>5. OnlyList(inbox[c]) /\ ~Has(inbox[c], "ECleSrvExecuteCmdList")
  BY <1>1, <1>2 DEF Local, ListOnItsWay
<1>6. ListOnItsWay(c)'
  BY <1>1, <1>2, <1>4, <1>5, SentList DEF ListOnItsWay
<1>7. CloseCancels(c)'
  BY <1>1 DEF CloseCancels
<1> QED BY <1>3, <1>6, <1>7 DEF Local

LEMMA CancelKeepsLocal ==
  ASSUME IInv, NEW c \in Clients, HasExecutor(c)' <=> HasExecutor(c),
         ExecuteCommandListCancel(c) \/ Close(c)
  PROVE  Local(c)'
<1>1. /\ client[c] = "open" /\ client'[c] \in {"cancelling", "closing"}
      /\ Send(c, "ECleSrvExecuteCmdListCancel")
      /\ request'[c] = request[c] /\ sessionIndex'[c] = sessionIndex[c] /\ cancelling' = cancelling
  BY DEF ExecuteCommandListCancel, Close, Goto, svars, IInv, TypeOK
<1>2. Local(c) /\ TypeOK /\ "ECleSrvExecuteCmdListCancel" \in Functions
  BY DEF IInv, Functions
<1>3. Shape(client[c], sessionIndex[c], inbox[c])'
  BY <1>1, <1>2, SentCall DEF Local, Calls
<1>4. ListOnItsWay(c)'
  BY <1>1, <1>2, SentList DEF Local, ListOnItsWay
<1>5. CloseCancels(c)'
  BY <1>1, <1>2, SentFacts DEF Local, CloseCancels
<1> QED BY <1>3, <1>4, <1>5 DEF Local

LEMMA DisconnectKeepsLocal ==
  ASSUME IInv, NEW c \in Clients, HasExecutor(c)' <=> HasExecutor(c),
         Disconnects(c) \/ Die(c)
  PROVE  Local(c)'
<1>1. /\ client[c] \in {"open", "cancelling", "closing"}
      /\ \/ client'[c] = "dead"
         \/ client'[c] = "closed" /\ client[c] = "closing" /\ inbox[c] = <<>>
      /\ Send(c, "Disconnect")
      /\ request'[c] = request[c] /\ sessionIndex'[c] = sessionIndex[c] /\ cancelling' = cancelling
  BY DEF Disconnects, Die, Goto, svars, IInv, TypeOK
<1>2. Local(c) /\ TypeOK /\ "Disconnect" \in Functions /\ sessionIndex[c] # 0
  BY <1>1 DEF IInv, Functions, Local, Shape
<1>3. Shape(client[c], sessionIndex[c], inbox[c])'
  <2>1. inbox[c] = <<>> => Len(inbox[c]) = 0
    BY <1>2, EmptySeq
  <2>2. Shape(client[c], sessionIndex[c], inbox[c]) /\ sessionIndex'[c] # 0
    BY <1>1, <1>2 DEF Local
  <2>3. CASE client'[c] = "dead"
    <3> DEFINE k == Len(inbox[c])
               q == inbox[c]
               p == inbox'[c]
               x == sessionIndex[c]
    <3>1. x # 0 /\ \A n \in DOMAIN q : q[n] \in Calls
      BY <1>1, <2>2 DEF Shape
    <3>2. /\ k \in Nat /\ DOMAIN q = 1..k /\ DOMAIN p = 1..(k + 1) /\ Len(p) = k + 1
          /\ \A n \in 1..k : p[n] = q[n]
          /\ p[k + 1] = "Disconnect"
      BY <1>1, <1>2, SentFacts
    <3> HIDE DEF k, q, p, x
    <3>3. \A n \in DOMAIN p : n \in DOMAIN q \/ n = k + 1
      BY <3>2
    <3>4. \A n \in DOMAIN p : IF n = Len(p) THEN p[n] = "Disconnect" ELSE p[n] \in Calls
      BY <3>1, <3>2, <3>3
    <3>5. Len(p) # 0
      BY <3>2
    <3>6. Shape("dead", x, p)
      BY <3>1, <3>4, <3>5 DEF Shape
    <3> QED BY <1>1, <2>3, <3>6 DEF p, x
  <2>4. CASE client'[c] = "closed"
    <3>1. Len(inbox[c]) = 0
      BY <1>1, <2>1, <2>4
    <3>2. /\ Len(inbox'[c]) = Len(inbox[c]) + 1
          /\ DOMAIN inbox'[c] = 1..(Len(inbox[c]) + 1)
          /\ inbox'[c][Len(inbox[c]) + 1] = "Disconnect"
      BY <1>1, <1>2, SentFacts
    <3>3. Len(inbox'[c]) = 1 /\ DOMAIN inbox'[c] = 1..1 /\ inbox'[c][1] = "Disconnect"
      BY <3>1, <3>2
    <3> QED BY <2>2, <2>4, <3>3 DEF Shape
  <2> QED BY <1>1, <2>3, <2>4
<1>4. ListOnItsWay(c)'
  BY <1>1, <1>2, SentList DEF Local, ListOnItsWay
<1>5. CloseCancels(c)'
  BY <1>1, <1>2, SentFacts DEF Local, CloseCancels
<1> QED BY <1>3, <1>4, <1>5 DEF Local

LEMMA ClientKeepsInvariant ==
  ASSUME IInv, NEW c \in Clients, ClientStep(c)
  PROVE  IInv'
<1>1. /\ \E f \in Functions : Send(c, f)
      /\ \E s \in {"connecting", "open", "cancelling", "closing", "closed", "dead"} :
           client' = [client EXCEPT ![c] = s]
      /\ request' = request \/ request' = [request EXCEPT ![c] = "KRequestPending"]
      /\ UNCHANGED svars
  <2>1. CASE ExecuteCommandList(c)
    <3>1. client' = [client EXCEPT ![c] = "open"]
      BY <2>1 DEF ExecuteCommandList, IInv, TypeOK
    <3> QED BY <2>1, <3>1 DEF ExecuteCommandList, Functions
  <2>2. CASE ~ExecuteCommandList(c)
    BY <2>2 DEF ClientStep, ConnectL, ExecuteCommandListCancel, Close, Disconnects, Die,
                Goto, Functions
  <2> QED BY <2>1, <2>2
<1>2. TypeOK'
  BY <1>1, ClientTypes DEF IInv
<1>3. /\ SlotsAreOwned' /\ ExecutorOwesAnswer'
      /\ \A d \in Clients : HasExecutor(d)' <=> HasExecutor(d)
  <2>1. \A d \in Clients : request[d] = "KRequestPending" => request'[d] = "KRequestPending"
    BY <1>1 DEF IInv, TypeOK
  <2> QED BY <1>1, <2>1, ServerUnchanged
<1>4. ASSUME NEW d \in Clients, d # c PROVE Local(d)'
  <2>1. Kept(d)
    BY <1>1, <1>3, <1>4, SentFacts DEF IInv, TypeOK, Kept, svars
  <2> QED BY <2>1, KeptLocal DEF IInv
<1>5. Local(c)'
  BY <1>3, ConnectKeepsLocal, ExecuteKeepsLocal, CancelKeepsLocal, DisconnectKeepsLocal
     DEF ClientStep
<1> QED BY <1>2, <1>3, <1>4, <1>5 DEF IInv

-----------------------------------------------------------------------------
(***************************************************************************)
(* What the server receives, and from whom.                                *)
(***************************************************************************)
LEMMA ReceivedList ==
  ASSUME TypeOK, NEW c \in Clients, NEW f \in Functions, Receives(c, f), OnlyList(inbox[c])
  PROVE  /\ OnlyList(inbox'[c])
         /\ f = "ECleSrvExecuteCmdList" => /\ Has(inbox[c], "ECleSrvExecuteCmdList")
                                           /\ ~Has(inbox'[c], "ECleSrvExecuteCmdList")
         /\ f # "ECleSrvExecuteCmdList" =>
              (Has(inbox'[c], "ECleSrvExecuteCmdList") <=> Has(inbox[c], "ECleSrvExecuteCmdList"))
<1> DEFINE k == Len(inbox[c])
           q == inbox[c]
           p == inbox'[c]
<1>1. /\ k \in Nat /\ k >= 1 /\ DOMAIN q = 1..k /\ DOMAIN p = 1..(k - 1)
      /\ \A n \in 1..(k - 1) : p[n] = q[n + 1]
      /\ q[1] = f
      /\ OnlyList(q)
  BY ReceivedFacts
<1> HIDE DEF k, q, p
<1>2. \A n \in 1..(k - 1) : n + 1 \in 1..k /\ n + 1 # 1
  BY <1>1
<1>3. \A n \in 1..k : n # 1 => n - 1 \in 1..(k - 1) /\ (n - 1) + 1 = n
  BY <1>1
<1>4. 1 \in 1..k
  BY <1>1
<1>5. OnlyList(p)
  <2> SUFFICES ASSUME NEW m \in 1..(k - 1), NEW n \in 1..(k - 1),
                      p[m] = "ECleSrvExecuteCmdList", p[n] = "ECleSrvExecuteCmdList"
               PROVE  m = n
    BY <1>1 DEF OnlyList
  <2>1. m + 1 = n + 1
    BY <1>1, <1>2 DEF OnlyList
  <2> QED BY <1>1, <2>1
<1>6. ASSUME f = "ECleSrvExecuteCmdList"
      PROVE  Has(q, "ECleSrvExecuteCmdList") /\ ~Has(p, "ECleSrvExecuteCmdList")
  BY <1>1, <1>2, <1>4, <1>6 DEF OnlyList, Has
<1>7. ASSUME f # "ECleSrvExecuteCmdList"
      PROVE  Has(p, "ECleSrvExecuteCmdList") <=> Has(q, "ECleSrvExecuteCmdList")
  <2>1. ASSUME NEW n \in 1..k, q[n] = "ECleSrvExecuteCmdList"
        PROVE  Has(p, "ECleSrvExecuteCmdList")
    <3>1. n # 1
      BY <1>1, <1>7, <2>1
    <3>2. n - 1 \in 1..(k - 1) /\ p[n - 1] = q[n]
      BY <1>1, <1>3, <3>1
    <3> QED BY <1>1, <2>1, <3>2 DEF Has
  <2>2. ASSUME NEW n \in 1..(k - 1), p[n] = "ECleSrvExecuteCmdList"
        PROVE  Has(q, "ECleSrvExecuteCmdList")
    BY <1>1, <1>2, <2>2 DEF Has
  <2> QED BY <1>1, <2>1, <2>2 DEF Has
<1> QED BY <1>5, <1>6, <1>7 DEF q, p

LEMMA ReceivedConnect ==
  ASSUME IInv, NEW c \in Clients, Receives(c, "Connect")
  PROVE  /\ client[c] = "connecting" /\ sessionIndex[c] = 0
         /\ Len(inbox'[c]) = 0 /\ DOMAIN inbox'[c] = {}
         /\ request[c] # "KRequestPending"
<1>1. TypeOK /\ Local(c) /\ "Connect" \in Functions /\ cancelling # c
  BY ClientAssumption DEF IInv, Functions, Receives
<1>2. /\ Len(inbox[c]) \in Nat /\ DOMAIN inbox[c] = 1..Len(inbox[c])
      /\ Len(inbox[c]) >= 1 /\ inbox[c][1] = "Connect"
      /\ Len(inbox'[c]) = Len(inbox[c]) - 1
      /\ DOMAIN inbox'[c] = 1..(Len(inbox[c]) - 1)
  BY <1>1, ReceivedFacts
<1>3. 1 \in DOMAIN inbox[c]
  BY <1>2
<1>4. client[c] \in {"closed", "connecting", "open", "cancelling", "closing", "dead"}
  BY <1>1 DEF TypeOK
<1>5. client[c] = "connecting" /\ Len(inbox[c]) = 1
  BY <1>1, <1>2, <1>3, <1>4 DEF Local, Shape, Calls
<1>6. sessionIndex[c] = 0
  BY <1>1, <1>5 DEF Local, Shape
<1>7. request[c] # "KRequestPending"
  BY <1>1, <1>5 DEF Local, CloseCancels
<1> QED BY <1>2, <1>5, <1>6, <1>7

LEMMA ReceivedDisconnect ==
  ASSUME IInv, NEW c \in Clients, Receives(c, "Disconnect")
  PROVE  /\ client[c] \in {"closed", "connecting", "dead"} /\ sessionIndex[c] # 0
         /\ Shape(client[c], 0, inbox'[c])
         /\ ~Has(inbox[c], "ECleSrvExecuteCmdList")
         /\ ~Has(inbox'[c], "ECleSrvExecuteCmdList")
         /\ request[c] = "KRequestPending" => client[c] = "dead"
<1> DEFINE k == Len(inbox[c])
<1>1. TypeOK /\ Local(c) /\ "Disconnect" \in Functions /\ cancelling # c
  BY ClientAssumption DEF IInv, Functions, Receives
<1>2. /\ k \in Nat /\ DOMAIN inbox[c] = 1..k
      /\ k >= 1 /\ inbox[c][1] = "Disconnect"
      /\ Len(inbox'[c]) = k - 1
      /\ DOMAIN inbox'[c] = 1..(k - 1)
      /\ \A n \in 1..(k - 1) : inbox'[c][n] = inbox[c][n + 1]
  BY <1>1, ReceivedFacts
<1>3. 1 \in DOMAIN inbox[c]
  BY <1>2
<1>4. client[c] \in {"closed", "connecting", "open", "cancelling", "closing", "dead"}
  BY <1>1 DEF TypeOK
<1>5. \/ client[c] = "closed" /\ k = 1
      \/ client[c] = "connecting" /\ k = 2 /\ inbox[c][2] = "Connect"
      \/ client[c] = "dead" /\ k = 1
  <2>1. Shape(client[c], sessionIndex[c], inbox[c])
    BY <1>1 DEF Local
  <2>2. CASE client[c] \in {"closed", "connecting"}
    <3>1. k = (IF client[c] = "connecting" THEN 1 ELSE 0) + (IF sessionIndex[c] = 0 THEN 0 ELSE 1)
      BY <2>1, <2>2 DEF Shape
    <3>2. \A n \in 1..k : inbox[c][n] =
            IF client[c] = "connecting" /\ n = k THEN "Connect" ELSE "Disconnect"
      BY <1>2, <2>1, <2>2 DEF Shape
    <3> HIDE DEF k
    <3>3. CASE client[c] = "closed"
      BY <1>2, <3>1, <3>3
    <3>4. CASE client[c] = "connecting"
      <4>1. k # 1
        BY <1>2, <3>2, <3>4
      <4>2. k = 2
        BY <1>2, <3>1, <3>4, <4>1
      <4> QED BY <3>2, <3>4, <4>2
    <3> QED BY <2>2, <3>3, <3>4
  <2>3. CASE client[c] \in {"open", "cancelling", "closing"}
    BY <1>2, <1>3, <2>1, <2>3 DEF Shape, Calls
  <2>4. CASE client[c] = "dead"
    BY <1>2, <1>3, <2>1, <2>4 DEF Shape, Calls
  <2> QED BY <1>4, <2>2, <2>3, <2>4
<1>6. sessionIndex[c] # 0
  BY <1>1, <1>5 DEF Local, Shape
<1>7. Shape(client[c], 0, inbox'[c])
  <2>1. CASE k = 1
    BY <1>2, <1>5, <2>1 DEF Shape
  <2>2. CASE client[c] = "connecting" /\ k = 2 /\ inbox[c][2] = "Connect"
    <3>1. Len(inbox'[c]) = 1 /\ DOMAIN inbox'[c] = 1..1 /\ inbox'[c][1] = "Connect"
      BY <1>2, <2>2
    <3> QED BY <2>2, <3>1 DEF Shape
  <2> QED BY <1>5, <2>1, <2>2
<1>8. /\ ~Has(inbox[c], "ECleSrvExecuteCmdList")
      /\ ~Has(inbox'[c], "ECleSrvExecuteCmdList")
  <2> HIDE DEF k
  <2>1. CASE k = 1
    BY <1>2, <2>1 DEF Has
  <2>2. CASE k = 2 /\ inbox[c][2] = "Connect"
    <3>1. \A n \in 1..k : inbox[c][n] # "ECleSrvExecuteCmdList"
      BY <1>2, <2>2
    <3>2. \A n \in 1..(k - 1) : inbox'[c][n] # "ECleSrvExecuteCmdList"
      BY <1>2, <2>2
    <3> QED BY <1>2, <3>1, <3>2 DEF Has
  <2> QED BY <1>5, <2>1, <2>2
<1>9. request[c] = "KRequestPending" => client[c] = "dead"
  BY <1>1, <1>5 DEF Local, CloseCancels
<1> QED BY <1>5, <1>6, <1>7, <1>8, <1>9

LEMMA ReceivedCall ==
  ASSUME IInv, NEW c \in Clients, NEW f \in Calls, Receives(c, f)
  PROVE  /\ client[c] \in {"open", "cancelling", "closing", "dead"} /\ sessionIndex[c] # 0
         /\ Shape(client[c], sessionIndex[c], inbox'[c])
         /\ f = "ECleSrvExecuteCmdList" /\ client[c] = "closing" => inbox'[c] # <<>>
<1> DEFINE k == Len(inbox[c])
<1>1. TypeOK /\ Local(c) /\ f \in Functions
  BY DEF IInv, Functions, Calls
<1>2. /\ k \in Nat /\ DOMAIN inbox[c] = 1..k
      /\ k >= 1 /\ inbox[c][1] = f
      /\ Len(inbox'[c]) = k - 1
      /\ DOMAIN inbox'[c] = 1..(k - 1)
      /\ \A n \in 1..(k - 1) : inbox'[c][n] = inbox[c][n + 1]
      /\ inbox'[c] # <<>> <=> k >= 2
  BY <1>1, ReceivedFacts
<1>3. 1 \in DOMAIN inbox[c] /\ f # "Connect" /\ f # "Disconnect"
  BY <1>2 DEF Calls
<1>4. client[c] \in {"closed", "connecting", "open", "cancelling", "closing", "dead"}
  BY <1>1 DEF TypeOK
<1>5. Shape(client[c], sessionIndex[c], inbox[c])
  BY <1>1 DEF Local
<1>6. client[c] \in {"open", "cancelling", "closing", "dead"}
  BY <1>2, <1>3, <1>4, <1>5 DEF Shape
<1>7. client[c] = "dead" => k >= 2
  BY <1>2, <1>3, <1>5 DEF Shape
<1>8. f = "ECleSrvExecuteCmdList" /\ client[c] = "closing" => k >= 2
  BY <1>2, <1>3, <1>5 DEF Shape
<1>9. sessionIndex[c] # 0
  BY <1>2, <1>5, <1>6 DEF Shape
<1>10. \A n \in 1..(k - 1) : n + 1 \in 1..k /\ (n = k - 1 <=> n + 1 = k)
  BY <1>2
<1> HIDE DEF k
<1>11. Shape(client[c], sessionIndex[c], inbox'[c])
  <2>1. CASE client[c] \in {"open", "cancelling"}
    BY <1>2, <1>5, <1>9, <1>10, <2>1 DEF Shape
  <2>2. CASE client[c] = "closing"
    BY <1>2, <1>5, <1>9, <1>10, <2>2 DEF Shape, k
  <2>3. CASE client[c] = "dead"
    <3>1. k >= 2 /\ Len(inbox'[c]) # 0 /\ Len(inbox'[c]) = k - 1
      BY <1>2, <1>7, <2>3
    <3>2. \A n \in 1..k : IF n = k THEN inbox[c][n] = "Disconnect" ELSE inbox[c][n] \in Calls
      BY <1>2, <1>5, <2>3 DEF Shape, k
    <3>3. \A n \in 1..(k - 1) :
            IF n = k - 1 THEN inbox'[c][n] = "Disconnect" ELSE inbox'[c][n] \in Calls
      BY <1>2, <1>10, <3>2
    <3> QED BY <1>2, <1>9, <2>3, <3>1, <3>3 DEF Shape
  <2> QED BY <1>6, <2>1, <2>2, <2>3
<1> QED BY <1>2, <1>6, <1>8, <1>9, <1>11

-----------------------------------------------------------------------------
(***************************************************************************)
(* An executor comes to a slot, or leaves it.                              *)
(***************************************************************************)
LEMMA SlotChange ==
  ASSUME TypeOK, SlotsAreOwned, NEW i \in DOMAIN slots,
         NEW e \in BOOLEAN, NEW m \in Clients \cup {NoClient},
         slots' = [slots EXCEPT ![i] = [@ EXCEPT !.executor = e, !.message = m]],
         UNCHANGED <<sessionIndex, sessionCount>>
  PROVE  /\ slots' \in Seq(SlotRecords)
         /\ DOMAIN slots' = DOMAIN slots
         /\ slots'[i].executor = e /\ slots'[i].message = m
         /\ \A k \in DOMAIN slots : k # i => slots'[k] = slots[k]
         /\ SlotsAreOwned'
<1> DEFINE new == [slots[i] EXCEPT !.executor = e, !.message = m]
<1>1. slots[i] \in SlotRecords
  BY SlotFacts, ElementOfSeq DEF TypeOK
<1>2. /\ new \in SlotRecords /\ new.inUse = slots[i].inUse
      /\ new.executor = e /\ new.message = m
  BY <1>1 DEF SlotRecords
<1>3. slots' = [slots EXCEPT ![i] = new]
  OBVIOUS
<1> HIDE DEF new
<1>4. /\ slots' \in Seq(SlotRecords)
      /\ Len(slots') = Len(slots)
      /\ \A j \in 1..Len(slots) : slots'[j] = IF j = i THEN new ELSE slots[j]
  BY <1>2, <1>3, SlotFacts, ExceptSeq DEF TypeOK
<1>5. DOMAIN slots' = DOMAIN slots
  BY <1>3
<1>6. InUse' = InUse
  BY <1>2, <1>4, <1>5, SlotFacts DEF InUse
<1>7. slots # <<>>
  BY SlotFacts, EmptySeq
<1>8. SlotsAreOwned'
  BY <1>4, <1>6, <1>7 DEF SlotsAreOwned
<1> QED BY <1>2, <1>4, <1>5, <1>8, SlotFacts

LEMMA OtherExecutors ==
  ASSUME TypeOK, SlotsAreOwned, NEW c \in Clients, NEW d \in Clients, d # c,
         DOMAIN slots' = DOMAIN slots, sessionIndex' = sessionIndex,
         sessionIndex[c] # 0,
         \A k \in DOMAIN slots : k # sessionIndex[c] => slots'[k] = slots[k]
  PROVE  HasExecutor(d)' <=> HasExecutor(d)
<1>1. sessionIndex[d] \in DOMAIN slots => sessionIndex[d] # sessionIndex[c]
  BY SlotFacts
<1> QED BY <1>1 DEF HasExecutor

LEMMA ExecuteListStep ==
  ASSUME IInv, NEW c \in Clients, ExecuteCommandListL(c)
  PROVE  IInv'
<1> DEFINE x == sessionIndex[c]
           f == "ECleSrvExecuteCmdList"
<1>1. /\ Receives(c, f) /\ x \in DOMAIN slots
      /\ slots' = [slots EXCEPT ![x] = [@ EXCEPT !.executor = TRUE, !.message = c]]
      /\ UNCHANGED <<client, request, sessionIndex, sessionCount, cancelling>>
  BY DEF ExecuteCommandListL
<1>2. /\ TypeOK /\ SlotsAreOwned /\ ExecutorOwesAnswer /\ Local(c)
      /\ f \in Functions /\ f \in Calls
  BY DEF IInv, Functions, Calls
<1>3. /\ slots' \in Seq(SlotRecords)
      /\ DOMAIN slots' = DOMAIN slots
      /\ slots'[x].executor = TRUE /\ slots'[x].message = c
      /\ \A k \in DOMAIN slots : k # x => slots'[k] = slots[k]
      /\ SlotsAreOwned'
  BY <1>1, <1>2, SlotChange
<1>4. TypeOK'
  <2>1. inbox' \in [Clients -> Seq(Functions)]
    BY <1>1, <1>2, ReceivedFacts
  <2> QED BY <1>1, <1>2, <1>3, <2>1 DEF TypeOK
<1>5. /\ Has(inbox[c], f) /\ ~Has(inbox'[c], f) /\ OnlyList(inbox'[c])
  BY <1>1, <1>2, ReceivedList DEF Local, ListOnItsWay
<1>6. request[c] = "KRequestPending"
  BY <1>2, <1>5 DEF Local, ListOnItsWay
<1>7. ExecutorOwesAnswer'
  BY <1>1, <1>2, <1>3, <1>6 DEF ExecutorOwesAnswer
<1>8. /\ Shape(client[c], x, inbox'[c]) /\ x # 0
      /\ client[c] \in {"open", "cancelling", "closing", "dead"}
      /\ client[c] = "closing" => inbox'[c] # <<>>
  BY <1>1, <1>2, ReceivedCall
<1>9. Local(c)'
  <2>1. HasExecutor(c)'
    BY <1>1, <1>3 DEF HasExecutor
  <2>2. ListOnItsWay(c)'
    BY <1>5, <2>1 DEF ListOnItsWay
  <2>3. CloseCancels(c)'
    BY <1>1, <1>8 DEF CloseCancels
  <2> QED BY <1>1, <1>8, <2>2, <2>3 DEF Local
<1>10. ASSUME NEW d \in Clients, d # c PROVE Local(d)'
  <2>1. HasExecutor(d)' <=> HasExecutor(d)
    BY <1>1, <1>2, <1>3, <1>8, <1>10, OtherExecutors
  <2>2. Kept(d)
    BY <1>1, <1>2, <1>10, <2>1, ReceivedFacts DEF Kept
  <2> QED BY <2>2, KeptLocal DEF IInv
<1> QED BY <1>3, <1>4, <1>7, <1>9, <1>10 DEF IInv

LEMMA ListFailsStep ==
  ASSUME IInv, NEW c \in Clients, CommandListFails(c)
  PROVE  IInv'
<1> DEFINE f == "ECleSrvExecuteCmdList"
<1>1. /\ Receives(c, f) /\ request' = [request EXCEPT ![c] = "KErrNoMemory"]
      /\ UNCHANGED <<client, svars>>
  BY DEF CommandListFails, Complete
<1>2. /\ TypeOK /\ SlotsAreOwned /\ ExecutorOwesAnswer /\ Local(c)
      /\ f \in Functions /\ f \in Calls
  BY DEF IInv, Functions, Calls
<1>3. TypeOK'
  <2>1. inbox' \in [Clients -> Seq(Functions)]
    BY <1>1, <1>2, ReceivedFacts
  <2> QED BY <1>1, <1>2, <2>1 DEF TypeOK, svars
<1>4. SlotsAreOwned'
  BY <1>1, <1>2 DEF SlotsAreOwned, svars, InUse
<1>5. /\ Has(inbox[c], f) /\ ~Has(inbox'[c], f) /\ OnlyList(inbox'[c])
  BY <1>1, <1>2, ReceivedList DEF Local, ListOnItsWay
<1>6. ~HasExecutor(c)
  BY <1>2, <1>5 DEF Local, ListOnItsWay
<1>7. ExecutorOwesAnswer'
  <2> SUFFICES ASSUME NEW i \in DOMAIN slots, slots[i].executor
               PROVE  \E d \in Clients : /\ slots[i].message = d /\ sessionIndex[d] = i
                                         /\ request'[d] = "KRequestPending"
    BY <1>1 DEF ExecutorOwesAnswer, svars
  <2>1. PICK d \in Clients : /\ slots[i].message = d /\ sessionIndex[d] = i
                             /\ request[d] = "KRequestPending"
    BY <1>2 DEF ExecutorOwesAnswer
  <2>2. d # c
    BY <1>6, <2>1 DEF HasExecutor
  <2> QED BY <1>1, <1>2, <2>1, <2>2 DEF TypeOK
<1>8. Shape(client[c], sessionIndex[c], inbox'[c])
  BY <1>1, <1>2, ReceivedCall
<1>9. Local(c)'
  <2>1. request'[c] = "KErrNoMemory"
    BY <1>1, <1>2 DEF TypeOK
  <2>2. ListOnItsWay(c)' /\ CloseCancels(c)'
    BY <1>5, <2>1 DEF ListOnItsWay, CloseCancels
  <2> QED BY <1>1, <1>8, <2>2 DEF Local, svars
<1>10. ASSUME NEW d \in Clients, d # c PROVE Local(d)'
  <2>1. Kept(d)
    BY <1>1, <1>2, <1>10, ReceivedFacts DEF Kept, svars, HasExecutor, TypeOK
  <2> QED BY <2>1, KeptLocal DEF IInv
<1> QED BY <1>2, <1>3, <1>4, <1>7, <1>9, <1>10 DEF IInv

LEMMA ListCompleteStep ==
  ASSUME IInv, NEW i \in DOMAIN slots, NEW code \in Codes \cup {"KErrCancel"},
         slots[i].executor, CompleteSlot(i, code),
         UNCHANGED <<client, inbox, sessionIndex, sessionCount>>,
         \/ cancelling = NoClient /\ cancelling' = NoClient
         \/ /\ cancelling \in Clients /\ sessionIndex[cancelling] = i
            /\ cancelling' = NoClient
  PROVE  IInv'
<1>1. TypeOK /\ SlotsAreOwned /\ ExecutorOwesAnswer
  BY DEF IInv
<1>2. PICK c \in Clients : /\ slots[i].message = c /\ sessionIndex[c] = i
                           /\ request[c] = "KRequestPending"
  BY <1>1 DEF ExecutorOwesAnswer
<1>3. /\ i # 0 /\ Local(c) /\ HasExecutor(c)
  BY <1>2, SlotFacts, <1>1 DEF IInv, HasExecutor
<1>4. /\ request' = [request EXCEPT ![c] = code]
      /\ slots' = [slots EXCEPT ![i] = [@ EXCEPT !.executor = FALSE, !.message = NoClient]]
  BY <1>2 DEF CompleteSlot, Complete
<1>5. cancelling \in Clients => cancelling = c
  BY <1>1, <1>2, <1>3, SlotFacts, ClientAssumption
<1>6. /\ slots' \in Seq(SlotRecords)
      /\ DOMAIN slots' = DOMAIN slots
      /\ slots'[i].executor = FALSE
      /\ \A k \in DOMAIN slots : k # i => slots'[k] = slots[k]
      /\ SlotsAreOwned'
  BY <1>1, <1>4, SlotChange
<1>7. TypeOK'
  BY <1>1, <1>4, <1>6 DEF TypeOK, Codes
<1>8. request'[c] = code /\ code # "KRequestPending"
      /\ \A d \in Clients : d # c => request'[d] = request[d]
  BY <1>1, <1>4 DEF TypeOK, Codes
<1>9. ExecutorOwesAnswer'
  <2> SUFFICES ASSUME NEW k \in DOMAIN slots, slots'[k].executor
               PROVE  \E d \in Clients : /\ slots'[k].message = d /\ sessionIndex[d] = k
                                         /\ request'[d] = "KRequestPending"
    BY <1>6 DEF ExecutorOwesAnswer
  <2>1. k # i /\ slots'[k] = slots[k]
    BY <1>6
  <2>2. PICK d \in Clients : /\ slots[k].message = d /\ sessionIndex[d] = k
                             /\ request[d] = "KRequestPending"
    BY <1>1, <2>1 DEF ExecutorOwesAnswer
  <2> QED BY <1>2, <1>8, <2>1, <2>2
<1>10. Local(c)'
  <2>1. ~Has(inbox[c], "ECleSrvExecuteCmdList")
    BY <1>3 DEF Local, ListOnItsWay
  <2>2. ListOnItsWay(c)' /\ CloseCancels(c)'
    BY <1>3, <1>8, <2>1 DEF Local, ListOnItsWay, CloseCancels
  <2> QED BY <1>3, <2>2 DEF Local
<1>11. ASSUME NEW d \in Clients, d # c PROVE Local(d)'
  <2>1. HasExecutor(d)' <=> HasExecutor(d)
    BY <1>1, <1>2, <1>3, <1>6, <1>11, OtherExecutors
  <2>2. Kept(d)
    BY <1>5, <1>8, <1>11, <2>1, ClientAssumption DEF Kept
  <2> QED BY <2>2, KeptLocal DEF IInv
<1> QED BY <1>6, <1>7, <1>9, <1>10, <1>11 DEF IInv

\* What the cancellation performed finds nothing to cancel for.
LEMMA NothingToCancelStep ==
  ASSUME IInv, cancelling \in Clients, cancelling' = NoClient, ToCancel = {},
         UNCHANGED <<client, request, inbox, sessionIndex, slots, sessionCount>>
  PROVE  IInv'
<1> PICK c \in Clients : cancelling = c
  OBVIOUS
<1>1. TypeOK /\ Local(c)
  BY DEF IInv
<1>2. TypeOK' /\ SlotsAreOwned' /\ ExecutorOwesAnswer'
  BY DEF IInv, TypeOK, SlotsAreOwned, ExecutorOwesAnswer, InUse
<1>3. ~HasExecutor(c)
  BY DEF ToCancel, HasExecutor
<1>4. ListOnItsWay(c)' /\ Shape(client[c], sessionIndex[c], inbox[c])'
  BY <1>1 DEF Local, ListOnItsWay, HasExecutor
<1>5. CloseCancels(c)'
  <2> SUFFICES ASSUME request[c] = "KRequestPending",
                      client[c] \in {"closing", "closed", "connecting"}
               PROVE  client[c] = "closing" /\ inbox[c] # <<>>
    BY DEF CloseCancels
  <2>1. Has(inbox[c], "ECleSrvExecuteCmdList")
    BY <1>1, <1>3 DEF Local, ListOnItsWay
  <2>2. client[c] = "closing"
    BY <1>1, <2>1 DEF Local, Shape, Has
  <2>3. inbox[c] # <<>>
    BY <2>1 DEF Has
  <2> QED BY <2>2, <2>3
<1>6. ASSUME NEW d \in Clients, d # c PROVE Local(d)'
  <2>1. Kept(d)
    BY <1>6, ClientAssumption DEF Kept, HasExecutor
  <2> QED BY <2>1, KeptLocal DEF IInv
<1> QED BY <1>2, <1>4, <1>5, <1>6 DEF IInv, Local

LEMMA CancelPerformedStep ==
  ASSUME IInv, CancelPerformed
  PROVE  IInv'
<1>1. cancelling \in Clients /\ cancelling' = NoClient
  BY DEF IInv, TypeOK, CancelPerformed
<1>2. CASE ToCancel = {}
  BY <1>1, <1>2, NothingToCancelStep DEF CancelPerformed
<1>3. CASE ToCancel # {}
  <2>1. PICK i \in ToCancel : CompleteSlot(i, "KErrCancel")
    BY <1>3 DEF CancelPerformed
  <2>2. i \in DOMAIN slots /\ slots[i].executor /\ sessionIndex[cancelling] = i
    BY DEF ToCancel
  <2> QED BY <1>1, <2>1, <2>2, ListCompleteStep DEF CancelPerformed
<1> QED BY <1>2, <1>3

LEMMA CancelRepliedStep ==
  ASSUME IInv, NEW c \in Clients, CancelReplied(c)
  PROVE  IInv'
<1> DEFINE f == "ECleSrvExecuteCmdListCancel"
<1>1. /\ Receives(c, f) /\ cancelling = NoClient /\ cancelling' = c
      /\ client' = [client EXCEPT ![c] = IF client[c] = "cancelling" THEN "open" ELSE client[c]]
      /\ UNCHANGED <<request, sessionIndex, slots, sessionCount>>
  BY DEF CancelReplied, Goto, Receives
<1>2. TypeOK /\ Local(c) /\ f \in Functions /\ f \in Calls
  BY DEF IInv, Functions, Calls
<1>3. TypeOK'
  <2>1. inbox' \in [Clients -> Seq(Functions)]
    BY <1>1, <1>2, ReceivedFacts
  <2> QED BY <1>1, <1>2, <2>1 DEF TypeOK
<1>4. SlotsAreOwned' /\ ExecutorOwesAnswer'
  BY <1>1 DEF IInv, SlotsAreOwned, ExecutorOwesAnswer, InUse
<1>5. /\ client[c] \in {"open", "cancelling", "closing", "dead"} /\ sessionIndex[c] # 0
      /\ Shape(client[c], sessionIndex[c], inbox'[c])
  BY <1>1, <1>2, ReceivedCall
<1>6. client'[c] = IF client[c] = "cancelling" THEN "open" ELSE client[c]
  BY <1>1, <1>2 DEF TypeOK
<1>7. Shape(client[c], sessionIndex[c], inbox[c])'
  BY <1>1, <1>5, <1>6 DEF Shape
<1>8. ListOnItsWay(c)'
  BY <1>1, <1>2, <1>6, ReceivedList DEF Local, ListOnItsWay, HasExecutor
<1>9. CloseCancels(c)'
  BY <1>1 DEF CloseCancels
<1>10. ASSUME NEW d \in Clients, d # c PROVE Local(d)'
  <2>1. Kept(d)
    BY <1>1, <1>2, <1>10, ReceivedFacts, ClientAssumption DEF Kept, HasExecutor, TypeOK
  <2> QED BY <2>1, KeptLocal DEF IInv
<1> QED BY <1>3, <1>4, <1>7, <1>8, <1>9, <1>10 DEF IInv, Local

-----------------------------------------------------------------------------
(***************************************************************************)
(* Sessions that come and go.                                              *)
(***************************************************************************)
LEMMA NewSessionStep ==
  ASSUME IInv, NEW c \in Clients, NewSessionL(c)
  PROVE  IInv'
<1> DEFINE r == RegisterIndex
<1>1. /\ Receives(c, "Connect") /\ Register(r)
      /\ sessionIndex' = [sessionIndex EXCEPT ![c] = r]
      /\ client' = [client EXCEPT ![c] = "open"]
      /\ UNCHANGED <<request, cancelling>>
  BY DEF NewSessionL, Goto
<1>2. /\ TypeOK /\ SlotsAreOwned /\ ExecutorOwesAnswer /\ Local(c)
      /\ "Connect" \in Functions
  BY DEF IInv, Functions
<1>3. /\ client[c] = "connecting" /\ sessionIndex[c] = 0
      /\ Len(inbox'[c]) = 0 /\ DOMAIN inbox'[c] = {}
      /\ request[c] # "KRequestPending"
  BY <1>1, ReceivedConnect
<1>4. /\ slots' \in Seq(SlotRecords)
      /\ sessionCount' = sessionCount + 1 /\ sessionCount' \in 0..Cardinality(Clients)
      /\ r \in 1..Cardinality(Clients) /\ r \notin InUse
      /\ Used(slots') = InUse \cup {r}
      /\ slots' # <<>> /\ Len(slots') \in Used(slots')
      /\ DOMAIN slots' = DOMAIN slots \cup {r}
      /\ \A i \in DOMAIN slots : /\ slots'[i].executor = slots[i].executor
                                 /\ slots'[i].message = slots[i].message
      /\ r \notin DOMAIN slots => ~slots'[r].executor
  BY <1>1, <1>2, <1>3, RegisterFacts
<1> HIDE DEF r
<1>5. /\ sessionIndex' \in [Clients -> 0..Cardinality(Clients)]
      /\ sessionIndex'[c] = r /\ r # 0
      /\ \A d \in Clients : d # c => sessionIndex'[d] = sessionIndex[d]
  BY <1>1, <1>2, <1>4, SlotFacts DEF TypeOK
<1>6. TypeOK'
  <2>1. inbox' \in [Clients -> Seq(Functions)]
    BY <1>1, <1>2, ReceivedFacts
  <2> QED BY <1>1, <1>2, <1>4, <1>5, <2>1 DEF TypeOK
<1>7. SlotsAreOwned'
  <2>1. InUse' = InUse \cup {r}
    BY <1>4 DEF InUse, Used
  <2>2. InUse' = {sessionIndex'[d] : d \in {e \in Clients : sessionIndex'[e] # 0}}
    BY <1>2, <1>3, <1>5, <2>1 DEF SlotsAreOwned
  <2>3. \A d, e \in Clients :
          sessionIndex'[d] # 0 /\ sessionIndex'[d] = sessionIndex'[e] => d = e
    BY <1>2, <1>4, <1>5, SlotFacts
  <2>4. sessionCount' = Cardinality(InUse')
    BY <1>2, <1>4, <2>1, SlotFacts, FS_AddElement
  <2>5. Len(slots') \in InUse'
    BY <1>4, <2>1
  <2> QED BY <2>2, <2>3, <2>4, <2>5 DEF SlotsAreOwned
<1>8. ExecutorOwesAnswer'
  <2> SUFFICES ASSUME NEW i \in DOMAIN slots', slots'[i].executor
               PROVE  \E d \in Clients : /\ slots'[i].message = d /\ sessionIndex'[d] = i
                                         /\ request[d] = "KRequestPending"
    BY <1>1 DEF ExecutorOwesAnswer
  <2>1. i \in DOMAIN slots /\ slots[i].executor /\ slots'[i].message = slots[i].message
    BY <1>4
  <2>2. PICK d \in Clients : /\ slots[i].message = d /\ sessionIndex[d] = i
                             /\ request[d] = "KRequestPending"
    BY <1>2, <2>1 DEF ExecutorOwesAnswer
  <2> QED BY <1>3, <1>5, <2>1, <2>2
<1>9. Local(c)'
  <2>1. client'[c] = "open" /\ request'[c] # "KRequestPending"
    BY <1>1, <1>2, <1>3 DEF TypeOK
  <2>2. Shape(client[c], sessionIndex[c], inbox[c])'
    BY <1>3, <1>5, <2>1 DEF Shape
  <2>3. ListOnItsWay(c)'
    BY <1>3, <2>1 DEF ListOnItsWay, OnlyList, Has
  <2> QED BY <2>1, <2>2, <2>3 DEF Local, CloseCancels
<1>10. ASSUME NEW d \in Clients, d # c PROVE Local(d)'
  <2>1. sessionIndex[d] \in DOMAIN slots' => sessionIndex[d] \in DOMAIN slots
    <3>1. CASE sessionIndex[d] = 0
      BY <1>2, <1>4, <1>5, <3>1
    <3>2. CASE sessionIndex[d] # 0
      BY <1>2, <3>2, SlotFacts DEF InUse
    <3> QED BY <3>1, <3>2
  <2>2. HasExecutor(d)' <=> HasExecutor(d)
    BY <1>4, <1>5, <1>10, <2>1 DEF HasExecutor
  <2>3. Kept(d)
    BY <1>1, <1>2, <1>5, <1>10, <2>2, ReceivedFacts DEF Kept, TypeOK
  <2> QED BY <2>3, KeptLocal DEF IInv
<1> QED BY <1>6, <1>7, <1>8, <1>9, <1>10 DEF IInv

LEMMA UtilProviderFailsStep ==
  ASSUME IInv, NEW c \in Clients, UtilProviderFails(c)
  PROVE  IInv'
<1>1. /\ Receives(c, "Connect") /\ slots' = Trim(slots)
      /\ client' = [client EXCEPT ![c] = "closed"]
      /\ UNCHANGED <<request, sessionIndex, sessionCount, cancelling>>
  BY DEF UtilProviderFails, Goto
<1>2. /\ TypeOK /\ SlotsAreOwned /\ ExecutorOwesAnswer /\ Local(c)
      /\ "Connect" \in Functions
  BY DEF IInv, Functions
<1>3. /\ client[c] = "connecting" /\ sessionIndex[c] = 0
      /\ Len(inbox'[c]) = 0 /\ DOMAIN inbox'[c] = {}
      /\ request[c] # "KRequestPending"
  BY <1>1, ReceivedConnect
<1>4. /\ slots' \in Seq(SlotRecords)
      /\ DOMAIN slots' \subseteq DOMAIN slots
      /\ \A i \in DOMAIN slots' : slots'[i] = slots[i]
      /\ Used(slots') = InUse
      /\ slots' # <<>> => Len(slots') \in InUse
  BY <1>1, <1>2, TrimFacts, SlotFacts DEF TypeOK
<1>5. TypeOK'
  <2>1. inbox' \in [Clients -> Seq(Functions)]
    BY <1>1, <1>2, ReceivedFacts
  <2> QED BY <1>1, <1>2, <1>4, <2>1 DEF TypeOK
<1>6. SlotsAreOwned'
  <2>1. InUse' = InUse
    BY <1>4 DEF InUse, Used
  <2> QED BY <1>1, <1>2, <1>4, <2>1 DEF SlotsAreOwned
<1>7. ExecutorOwesAnswer'
  BY <1>1, <1>2, <1>4 DEF ExecutorOwesAnswer
<1>8. Local(c)'
  <2>1. client'[c] = "closed" /\ request'[c] # "KRequestPending" /\ sessionIndex'[c] = 0
    BY <1>1, <1>2, <1>3 DEF TypeOK
  <2>2. Shape(client[c], sessionIndex[c], inbox[c])'
    BY <1>3, <2>1 DEF Shape
  <2>3. ListOnItsWay(c)'
    BY <1>3, <2>1 DEF ListOnItsWay, OnlyList, Has
  <2> QED BY <2>1, <2>2, <2>3 DEF Local, CloseCancels
<1>9. ASSUME NEW d \in Clients, d # c PROVE Local(d)'
  <2>1. HasExecutor(d) => sessionIndex[d] \in DOMAIN slots'
    BY <1>2, <1>4, OwnExecutor DEF Used
  <2>2. HasExecutor(d)' <=> HasExecutor(d)
    BY <1>1, <1>4, <2>1 DEF HasExecutor
  <2>3. Kept(d)
    BY <1>1, <1>2, <1>9, <2>2, ReceivedFacts DEF Kept, TypeOK
  <2> QED BY <2>3, KeptLocal DEF IInv
<1> QED BY <1>5, <1>6, <1>7, <1>8, <1>9 DEF IInv

LEMMA DeregisterStep ==
  ASSUME IInv, NEW c \in Clients, DeregisterSession(c)
  PROVE  IInv'
<1> DEFINE x == sessionIndex[c]
<1>1. /\ Receives(c, "Disconnect") /\ Deregister(x)
      /\ sessionIndex' = [sessionIndex EXCEPT ![c] = 0]
      /\ UNCHANGED <<client, request, cancelling>>
  BY DEF DeregisterSession
<1>2. /\ TypeOK /\ SlotsAreOwned /\ ExecutorOwesAnswer /\ Local(c)
      /\ "Disconnect" \in Functions
  BY DEF IInv, Functions
<1>3. /\ client[c] \in {"closed", "connecting", "dead"} /\ x # 0
      /\ Shape(client[c], 0, inbox'[c])
      /\ ~Has(inbox'[c], "ECleSrvExecuteCmdList")
      /\ request[c] = "KRequestPending" => client[c] = "dead"
  BY <1>1, ReceivedDisconnect
<1>4. x \in InUse
  BY <1>2, <1>3, SlotFacts
<1>5. /\ slots' \in Seq(SlotRecords)
      /\ sessionCount' \in 0..Cardinality(Clients)
      /\ Used(slots') = InUse \ {x} /\ sessionCount' = Cardinality(Used(slots'))
      /\ slots' # <<>> => Len(slots') \in Used(slots')
      /\ DOMAIN slots' \subseteq DOMAIN slots
      /\ \A k \in DOMAIN slots' : k # x => slots'[k] = slots[k]
      /\ x \in DOMAIN slots' => ~slots'[x].executor
  BY <1>1, <1>2, <1>4, DeregisterFacts
<1>6. /\ sessionIndex' \in [Clients -> 0..Cardinality(Clients)]
      /\ sessionIndex'[c] = 0
      /\ \A d \in Clients : d # c => sessionIndex'[d] = sessionIndex[d] /\ sessionIndex[d] # x
  BY <1>1, <1>2, <1>3, SlotFacts DEF TypeOK
<1> HIDE DEF x
<1>7. TypeOK'
  <2>1. inbox' \in [Clients -> Seq(Functions)]
    BY <1>1, <1>2, ReceivedFacts
  <2> QED BY <1>1, <1>2, <1>5, <1>6, <2>1 DEF TypeOK
<1>8. SlotsAreOwned'
  <2>1. InUse' = InUse \ {x}
    BY <1>5 DEF InUse, Used
  <2>2. InUse' = {sessionIndex'[d] : d \in {e \in Clients : sessionIndex'[e] # 0}}
    BY <1>2, <1>6, <2>1 DEF SlotsAreOwned, x
  <2>3. \A d, e \in Clients :
          sessionIndex'[d] # 0 /\ sessionIndex'[d] = sessionIndex'[e] => d = e
    BY <1>2, <1>6, SlotFacts
  <2>4. sessionCount' = Cardinality(InUse')
    BY <1>5, <2>1
  <2>5. slots' # <<>> => Len(slots') \in InUse'
    BY <1>5, <2>1
  <2> QED BY <2>2, <2>3, <2>4, <2>5 DEF SlotsAreOwned
<1>9. ExecutorOwesAnswer'
  <2> SUFFICES ASSUME NEW i \in DOMAIN slots', slots'[i].executor
               PROVE  \E d \in Clients : /\ slots'[i].message = d /\ sessionIndex'[d] = i
                                         /\ request[d] = "KRequestPending"
    BY <1>1 DEF ExecutorOwesAnswer
  <2>1. i \in DOMAIN slots /\ i # x /\ slots'[i] = slots[i]
    BY <1>5
  <2>2. PICK d \in Clients : /\ slots[i].message = d /\ sessionIndex[d] = i
                             /\ request[d] = "KRequestPending"
    BY <1>2, <2>1 DEF ExecutorOwesAnswer
  <2> QED BY <1>6, <2>1, <2>2 DEF x
<1>10. Local(c)'
  <2>1. ListOnItsWay(c)'
    BY <1>1, <1>3 DEF ListOnItsWay, OnlyList, Has
  <2>2. CloseCancels(c)'
    BY <1>1, <1>3 DEF CloseCancels
  <2> QED BY <1>1, <1>3, <1>6, <2>1, <2>2 DEF Local
<1>11. ASSUME NEW d \in Clients, d # c PROVE Local(d)'
  <2>1. HasExecutor(d) => sessionIndex[d] \in DOMAIN slots'
    BY <1>2, <1>5, <1>6, <1>11, OwnExecutor DEF Used
  <2>2. HasExecutor(d)' <=> HasExecutor(d)
    BY <1>1, <1>5, <1>6, <1>11, <2>1 DEF HasExecutor
  <2>3. Kept(d)
    BY <1>1, <1>2, <1>6, <1>11, <2>2, ReceivedFacts DEF Kept, TypeOK
  <2> QED BY <2>3, KeptLocal DEF IInv
<1> QED BY <1>7, <1>8, <1>9, <1>10, <1>11 DEF IInv

-----------------------------------------------------------------------------
LEMMA InitInvariant == Init => IInv
<1> SUFFICES ASSUME Init PROVE IInv
  OBVIOUS
<1>1. Cardinality(Clients) \in Nat /\ Cardinality({}) = 0
  BY ClientAssumption, FS_CardinalityType, FS_EmptySet
<1>2. <<>> \in Seq(Functions) /\ <<>> \in Seq(SlotRecords) /\ Len(<<>>) = 0 /\ DOMAIN <<>> = {}
  BY EmptySeq
<1>3. TypeOK
  BY <1>1, <1>2 DEF Init, TypeOK
<1>4. InUse = {} /\ SlotsAreOwned
  BY <1>1, <1>2 DEF Init, InUse, SlotsAreOwned
<1>5. ExecutorOwesAnswer
  BY <1>2 DEF Init, ExecutorOwesAnswer
<1>6. ASSUME NEW c \in Clients PROVE Local(c)
  <2>1. client[c] = "closed" /\ sessionIndex[c] = 0 /\ inbox[c] = <<>> /\ request[c] = "idle"
    BY DEF Init
  <2> QED BY <1>2, <2>1 DEF Local, Shape, ListOnItsWay, OnlyList, Has, CloseCancels
<1> QED BY <1>3, <1>4, <1>5, <1>6 DEF IInv

LEMMA NextInvariant == IInv /\ [Next]_vars => IInv'
<1> SUFFICES ASSUME IInv, [Next]_vars PROVE IInv'
  OBVIOUS
<1>1. ASSUME NEW c \in Clients, ClientStep(c) PROVE IInv'
  BY <1>1, ClientKeepsInvariant
<1>2. ASSUME NEW c \in Clients, ServiceL(c) PROVE IInv'
  BY <1>2, NewSessionStep, UtilProviderFailsStep, DeregisterStep, ExecuteListStep,
     ListFailsStep, CancelRepliedStep DEF ServiceL
<1>3. ASSUME CancelPerformed PROVE IInv'
  BY <1>3, CancelPerformedStep
<1>4. ASSUME ExecutorStep PROVE IInv'
  <2>1. PICK i \in DOMAIN slots, code \in Codes : ListExecutionComplete(i, code)
    BY <1>4 DEF ExecutorStep
  <2> QED BY <2>1, ListCompleteStep DEF ListExecutionComplete
<1>5. ASSUME UNCHANGED vars PROVE IInv'
  <2>1. TypeOK' /\ SlotsAreOwned' /\ ExecutorOwesAnswer'
    BY <1>5 DEF IInv, vars, TypeOK, SlotsAreOwned, ExecutorOwesAnswer, InUse
  <2>2. \A c \in Clients : Kept(c)
    BY <1>5 DEF vars, Kept, HasExecutor
  <2> QED BY <2>1, <2>2, KeptLocal DEF IInv
<1> QED BY <1>1, <1>2, <1>3, <1>4, <1>5 DEF Next

THEOREM Invariance == Spec => []IInv
<1> QED BY InitInvariant, NextInvariant, PTL DEF Spec

(***************************************************************************)
(* The variables keep their types: no index and no count of sessions is    *)
(* ever larger than the number of clients.                                 *)
(***************************************************************************)
THEOREM TypeCorrect == Spec => []TypeOK
<1>1. IInv => TypeOK
  BY DEF IInv
<1> QED BY <1>1, Invariance, PTL

(***************************************************************************)
(* RegisterSessionL and DeregisterSession give every session a slot of its *)
(* own, whatever the order in which clients connect, fail to, and leave.   *)
(***************************************************************************)
THEOREM SlotsOwned == Spec => []SlotsAreOwned
<1>1. IInv => SlotsAreOwned
  BY DEF IInv
<1> QED BY <1>1, Invariance, PTL

(***************************************************************************)
(* The message an executor will complete is that of the session in whose   *)
(* slot it is, and has not been completed: ListExecutionComplete and       *)
(* CancelCommandList never complete a message twice.                       *)
(***************************************************************************)
THEOREM ExecutorsOweAnswer == Spec => []ExecutorOwesAnswer
<1>1. IInv => ExecutorOwesAnswer
  BY DEF IInv
<1> QED BY <1>1, Invariance, PTL

(***************************************************************************)
(* RCleSession::Close cancels the list before the handle is closed.        *)
(***************************************************************************)
THEOREM ClosedCancelled == Spec => []ClosedIsCancelled
<1>1. IInv => ClosedIsCancelled
  BY DEF IInv, Local, CloseCancels, ClosedIsCancelled
<1> QED BY <1>1, Invariance, PTL

\* A list a client sends is not sent while it waits for an answer.
LEMMA SentWhileIdle ==
  ASSUME IInv, Next, NEW c \in Clients, Has(inbox'[c], "ECleSrvExecuteCmdList"),
         ~Has(inbox[c], "ECleSrvExecuteCmdList")
  PROVE  request[c] # "KRequestPending"
<1>1. TypeOK /\ OnlyList(inbox[c])
  BY DEF IInv, Local, ListOnItsWay
<1>2. inbox'[c] # inbox[c]
  OBVIOUS
<1>3. PICK d \in Clients : ClientStep(d) \/ ServiceL(d)
  BY <1>2 DEF Next, CancelPerformed, ExecutorStep, ListExecutionComplete
<1>4. CASE ServiceL(d)
  <2>1. PICK f \in Functions : Receives(d, f)
    BY <1>4 DEF ServiceL, NewSessionL, UtilProviderFails, DeregisterSession,
                ExecuteCommandListL, CommandListFails, CancelReplied, Functions
  <2>2. d = c
    BY <1>1, <1>2, <2>1, ReceivedFacts
  <2> QED BY <1>1, <2>1, <2>2, ReceivedList
<1>5. CASE ClientStep(d)
  <2>1. PICK f \in Functions : Send(d, f) /\ (f = "ECleSrvExecuteCmdList" => ExecuteCommandList(d))
    BY <1>5 DEF ClientStep, ConnectL, ExecuteCommandList, ExecuteCommandListCancel, Close,
                Disconnects, Die, Functions
  <2>2. d = c
    BY <1>1, <1>2, <2>1, SentFacts
  <2>3. f = "ECleSrvExecuteCmdList"
    BY <1>1, <2>1, <2>2, SentList
  <2> QED BY <2>1, <2>2, <2>3 DEF ExecuteCommandList
<1> QED BY <1>3, <1>4, <1>5

(***************************************************************************)
(* Deleting an executor, by DeregisterSession or otherwise, leaves no      *)
(* client that still lives without the answer to its list.                 *)
(***************************************************************************)
THEOREM ListsAnswered == Spec => NoListAbandoned
<1> DEFINE A(c) ==
      /\ \E i \in DOMAIN slots : slots[i].executor /\ slots[i].message = c
      /\ ~ \E i \in DOMAIN slots' : slots'[i].executor /\ slots'[i].message = c
      => request'[c] # "KRequestPending" \/ client[c] = "dead"
<1>1. ASSUME IInv, IInv', [Next]_vars, NEW c \in Clients PROVE A(c)
  <2> SUFFICES ASSUME NEW i \in DOMAIN slots, slots[i].executor, slots[i].message = c,
                      ~ \E k \in DOMAIN slots' : slots'[k].executor /\ slots'[k].message = c,
                      request'[c] = "KRequestPending", client[c] # "dead"
               PROVE  FALSE
    OBVIOUS
  <2>1. Next /\ slots' # slots
    BY <1>1 DEF vars
  <2>2. HasExecutor(c)
    BY <1>1 DEF IInv, ExecutorOwesAnswer, HasExecutor
  <2>3. request[c] = "KRequestPending" /\ ~Has(inbox[c], "ECleSrvExecuteCmdList")
    BY <1>1, <2>2, OwnExecutor DEF IInv, Local, ListOnItsWay
  <2>4. ~Has(inbox'[c], "ECleSrvExecuteCmdList")
    BY <1>1, <2>1, <2>3, SentWhileIdle
  <2>5. client'[c] # "dead"
    BY <1>1, <2>1 DEF IInv, TypeOK, Next, ClientStep, ConnectL, ExecuteCommandList,
                      ExecuteCommandListCancel, Close, Disconnects, Die, ServiceL, NewSessionL,
                      UtilProviderFails, DeregisterSession, ExecuteCommandListL,
                      CommandListFails, CancelReplied, CancelPerformed, ExecutorStep,
                      ListExecutionComplete, svars, Goto
  <2>6. HasExecutor(c)'
    BY <1>1, <2>4, <2>5 DEF IInv, Local, ListOnItsWay
  <2>7. PICK d \in Clients : /\ slots'[sessionIndex'[c]].message = d
                             /\ sessionIndex'[d] = sessionIndex'[c]
    BY <1>1, <2>6 DEF IInv, ExecutorOwesAnswer, HasExecutor
  <2>8. sessionIndex'[c] # 0
    <3>1. DOMAIN slots' = 1..Len(slots')
      BY <1>1, LenProperties DEF IInv, TypeOK
    <3> QED BY <2>6, <3>1 DEF HasExecutor
  <2>9. d = c
    BY <1>1, <2>7, <2>8 DEF IInv, SlotsAreOwned
  <2> QED BY <2>6, <2>7, <2>9 DEF HasExecutor
<1>2. IInv /\ IInv' /\ [Next]_vars => [\A c \in Clients : A(c)]_vars
  BY <1>1
<1>3. Spec => [][\A c \in Clients : A(c)]_vars
  BY <1>2, Invariance, PTL DEF Spec
<1> QED BY <1>3 DEF NoListAbandoned
=============================================================================
