------------------------- MODULE SsmStartSafe_proofs -------------------------
(***************************************************************************)
(* Theorems about StartSafe, for any finite set of callers and whatever    *)
(* they start: the array of callers is that of the commands that wait, a   *)
(* start that fails leaves no process, and a start that waits is cancelled *)
(* only by its own command, by one that has been answered, or by the end   *)
(* of the session.                                                         *)
(***************************************************************************)
EXTENDS SsmStartSafe, NaturalSets, FiniteSetTheorems, SequenceTheorems, TLAPS

Waiting(c) == command[c] = "executing" /\ status[c] = "KRequestPending"
Observed(c) == starter[c].phase # "none" /\ ~starter[c].forget

\* The entry of a command that waits.
Entered(c) ==
  /\ callerIndex[c] \in InUse(entries)
  /\ entries[callerIndex[c]].callerTrs = c
  /\ entries[callerIndex[c]].starter = c
  /\ starter[c].index = callerIndex[c]

\* The array by itself: it ends with an entry in use, and they are counted.
ArrayCounted ==
  /\ callerCount = Cardinality(InUse(entries))
  /\ entries # <<>> => Len(entries) \in InUse(entries)
  /\ deleted => entries = <<>>

(***************************************************************************)
(* EntriesAreCallers, caller by caller.                                    *)
(***************************************************************************)
CallersEntered ==
  /\ \A c \in Callers : /\ Observed(c) <=> Waiting(c)
                        /\ Waiting(c) => Entered(c)
                        /\ command[c] # "hung"
  /\ \A i \in InUse(entries) : \E c \in Callers : Waiting(c) /\ callerIndex[c] = i

IInv == TypeOK /\ ArrayCounted /\ CallersEntered

\* The inductive invariant says what EntriesAreCallers says.
LEMMA InvEntries == IInv => EntriesAreCallers
<1> SUFFICES ASSUME IInv PROVE EntriesAreCallers
  OBVIOUS
<1> DEFINE waiting == {c \in Callers : command[c] = "executing" /\ status[c] = "KRequestPending"}
           observed == {c \in Callers : starter[c].phase # "none" /\ ~starter[c].forget}
<1>1. \A c : c \in waiting <=> c \in Callers /\ Waiting(c)
  BY DEF Waiting
<1>2. observed = waiting
  BY DEF IInv, CallersEntered, Observed, Waiting
<1>3. InUse(entries) = {callerIndex[c] : c \in waiting}
  BY <1>1 DEF IInv, CallersEntered, Entered
<1>4. \A c \in waiting : Entered(c)
  BY <1>1 DEF IInv, CallersEntered
<1> HIDE DEF waiting, observed
<1> QED
  BY <1>2, <1>3, <1>4 DEF EntriesAreCallers, IInv, ArrayCounted, CallersEntered, Entered,
                          waiting, observed

-----------------------------------------------------------------------------
(***************************************************************************)
(* The array.                                                              *)
(***************************************************************************)
LEMMA InUseFacts ==
  ASSUME NEW array \in Seq(Entries)
  PROVE  /\ Len(array) \in Nat /\ DOMAIN array = 1..Len(array)
         /\ InUse(array) \in SUBSET Nat /\ 0 \notin InUse(array)
         /\ \A k \in InUse(array) : k <= Len(array) /\ array[k].inUse
         /\ IsFiniteSet(InUse(array)) /\ Cardinality(InUse(array)) \in Nat
<1>1. Len(array) \in Nat /\ DOMAIN array = 1..Len(array)
  BY LenProperties
<1>2. InUse(array) \subseteq 1..Len(array)
  BY <1>1 DEF InUse
<1>3. IsFiniteSet(InUse(array)) /\ Cardinality(InUse(array)) \in Nat
  <2>1. IsFiniteSet(1..Len(array))
    BY <1>1, FS_Interval
  <2> QED
    BY <1>2, <2>1, FS_Subset, FS_CardinalityType
<1>4. \A k \in InUse(array) : k \in Nat /\ k # 0 /\ k <= Len(array) /\ array[k].inUse
  BY <1>1, <1>2 DEF InUse
<1> QED
  BY <1>1, <1>3, <1>4

\* Trimming leaves the entries in use where they are.
LEMMA TrimFacts ==
  ASSUME NEW array \in Seq(Entries)
  PROVE  /\ Trim(array) \in Seq(Entries)
         /\ \A i \in InUse(array) : Trim(array)[i] = array[i]
         /\ InUse(Trim(array)) = InUse(array)
         /\ Trim(array) # <<>> => Len(Trim(array)) \in InUse(array)
<1> DEFINE used == InUse(array)
           n == IF used = {} THEN 0 ELSE CHOOSE i \in used : \A k \in used : k <= i
<1>1. n \in 0..Len(array) /\ (n # 0 => n \in used) /\ \A k \in used : k \in 1..n
  <2>1. CASE used = {}
    BY <2>1, InUseFacts
  <2>2. CASE used # {}
    <3>1. \E i \in used : \A k \in used : k <= i
      BY <2>2, InUseFacts, GreatestExists
    <3>2. n \in used /\ \A k \in used : k <= n
      BY <2>2, <3>1
    <3> HIDE DEF n
    <3> QED
      BY <3>2, InUseFacts
  <2> QED
    BY <2>1, <2>2
<1>2. Trim(array) = SubSeq(array, 1, n)
  BY DEF Trim
<1> HIDE DEF n
<1>3. /\ Trim(array) \in Seq(Entries)
      /\ Len(Trim(array)) = n
      /\ \A i \in 1..n : Trim(array)[i] = array[i]
  <2>1. \A i \in 1..n : array[i] \in Entries
    BY <1>1, InUseFacts, ElementOfSeq
  <2> QED
    BY <1>1, <1>2, <2>1, InUseFacts, SubSeqProperties
<1>4. DOMAIN Trim(array) = 1..n
  BY <1>3, LenProperties
<1>5. InUse(Trim(array)) = used
  <2>1. \A i \in 1..n : i \in DOMAIN array
    BY <1>1, InUseFacts
  <2> QED
    BY <1>1, <1>3, <1>4, <2>1 DEF InUse
<1>6. Trim(array) # <<>> => Len(Trim(array)) \in used
  BY <1>1, <1>3, EmptySeq
<1> QED
  BY <1>1, <1>3, <1>5, <1>6

\* DeRegisterCall frees its entry, and leaves the others where they are.
LEMMA DeRegisteredFacts ==
  ASSUME NEW array \in Seq(Entries), NEW i \in InUse(array)
  PROVE  /\ DeRegistered(array, i) \in Seq(Entries)
         /\ InUse(DeRegistered(array, i)) = InUse(array) \ {i}
         /\ \A k \in InUse(array) \ {i} : DeRegistered(array, i)[k] = array[k]
         /\ DeRegistered(array, i) # <<>> =>
              Len(DeRegistered(array, i)) \in InUse(DeRegistered(array, i))
         /\ Cardinality(InUse(DeRegistered(array, i))) = Cardinality(InUse(array)) - 1
<1> DEFINE freed == [array EXCEPT ![i] = Unused]
<1>1. i \in DOMAIN array /\ i \in 1..Len(array)
  BY InUseFacts DEF InUse
<1>2. Unused \in Entries
  BY DEF Unused, Entries
<1>3. freed \in Seq(Entries)
  BY <1>1, <1>2, ExceptSeq
<1>4. InUse(freed) = InUse(array) \ {i}
  BY <1>1 DEF InUse, Unused
<1>5. \A k \in InUse(array) \ {i} : freed[k] = array[k]
  BY <1>1 DEF InUse
<1>6. DeRegistered(array, i) = Trim(freed)
  BY DEF DeRegistered
<1> HIDE DEF freed
<1>7. Cardinality(InUse(array) \ {i}) = Cardinality(InUse(array)) - 1
  BY InUseFacts, FS_RemoveElement
<1> QED
  BY <1>3, <1>4, <1>5, <1>6, <1>7, TrimFacts

LEMMA OneMore ==
  ASSUME NEW array \in Seq(Entries), NEW i, i \notin InUse(array)
  PROVE  Cardinality(InUse(array) \cup {i}) = Cardinality(InUse(array)) + 1
BY InUseFacts, FS_AddElement

(***************************************************************************)
(* A new call gets an index that is not in use: that of a free entry, or   *)
(* the next one, which the count of the calls gives if none is free.       *)
(***************************************************************************)
LEMMA RegisteredFacts ==
  ASSUME IInv, NEW c \in Callers, NEW s \in Callers \cup {Nobody}
  PROVE  /\ RegisterIndex \in Nat /\ RegisterIndex \notin InUse(entries)
         /\ Registered(c, s) \in Seq(Entries)
         /\ Registered(c, s)[RegisterIndex].callerTrs = c
         /\ Registered(c, s)[RegisterIndex].starter = s
         /\ InUse(Registered(c, s)) = InUse(entries) \cup {RegisterIndex}
         /\ \A k \in InUse(entries) : Registered(c, s)[k] = entries[k]
         /\ Len(Registered(c, s)) \in InUse(Registered(c, s))
         /\ Cardinality(InUse(Registered(c, s))) = callerCount + 1
<1> DEFINE entry == [inUse |-> TRUE, starter |-> s, callerTrs |-> c]
<1>0. entries \in Seq(Entries) /\ entry \in Entries
      /\ callerCount = Cardinality(InUse(entries))
  BY DEF IInv, TypeOK, ArrayCounted, Entries
<1>1. Len(entries) \in Nat /\ DOMAIN entries = 1..Len(entries)
      /\ InUse(entries) \subseteq DOMAIN entries
  BY <1>0, InUseFacts DEF InUse
<1>2. CASE Free = {}
  <2>1. InUse(entries) = 1..Len(entries)
    BY <1>1, <1>2 DEF Free
  <2>2. callerCount = Len(entries)
    <3>1. 1 \in Int /\ Len(entries) \in Int
      BY <1>1
    <3>2. Cardinality(1..Len(entries)) = IF 1 > Len(entries) THEN 0 ELSE Len(entries) - 1 + 1
      BY <3>1, FS_Interval, Zenon
    <3> QED
      BY <1>0, <1>1, <2>1, <3>2
  <2>3. RegisterIndex = Len(entries) + 1 /\ Registered(c, s) = Append(entries, entry)
    BY <1>2, <2>2 DEF RegisterIndex, Registered
  <2> HIDE DEF entry
  <2>4. /\ Registered(c, s) \in Seq(Entries)
        /\ Len(Registered(c, s)) = Len(entries) + 1
        /\ Registered(c, s)[Len(entries) + 1] = entry
        /\ \A k \in 1..Len(entries) : Registered(c, s)[k] = entries[k]
    BY <1>0, <1>1, <2>3, AppendProperties
  <2>5. DOMAIN Registered(c, s) = 1..(Len(entries) + 1)
    BY <2>4, LenProperties
  <2>6. InUse(Registered(c, s)) = InUse(entries) \cup {Len(entries) + 1}
    BY <1>1, <2>1, <2>4, <2>5 DEF InUse, entry
  <2>7. Cardinality(InUse(Registered(c, s))) = callerCount + 1
    <3>1. Len(entries) + 1 \notin InUse(entries)
      BY <1>1, <2>1
    <3> QED
      BY <1>0, <2>6, <3>1, OneMore
  <2>8. RegisterIndex \in Nat /\ RegisterIndex \notin InUse(entries)
    BY <1>1, <2>1, <2>3
  <2>9. /\ Registered(c, s)[RegisterIndex].callerTrs = c
        /\ Registered(c, s)[RegisterIndex].starter = s
    BY <2>3, <2>4 DEF entry
  <2> QED
    BY <2>1, <2>3, <2>4, <2>6, <2>7, <2>8, <2>9
<1>3. CASE Free # {}
  <2>1. RegisterIndex \in Free
    <3>1. Free \in SUBSET Nat
      BY <1>1 DEF Free
    <3>2. \E i \in Free : \A k \in Free : i <= k
      BY <1>3, <3>1, LeastExists
    <3> QED
      BY <1>3, <3>2 DEF RegisterIndex
  <2>2. RegisterIndex \in DOMAIN entries /\ RegisterIndex \notin InUse(entries)
    BY <2>1 DEF Free
  <2>3. Registered(c, s) = [entries EXCEPT ![RegisterIndex] = entry]
    BY <1>3 DEF Registered
  <2>4. Registered(c, s) \in Seq(Entries) /\ Len(Registered(c, s)) = Len(entries)
    BY <1>0, <1>1, <2>2, <2>3, ExceptSeq
  <2>5. InUse(Registered(c, s)) = InUse(entries) \cup {RegisterIndex}
    BY <1>1, <2>2, <2>3 DEF InUse
  <2>6. Len(entries) \in InUse(entries)
    BY <1>0, <1>1, <2>2, EmptySeq DEF IInv, ArrayCounted
  <2>7. Cardinality(InUse(Registered(c, s))) = callerCount + 1
    BY <1>0, <2>2, <2>5, OneMore
  <2>8. /\ Registered(c, s)[RegisterIndex].callerTrs = c
        /\ Registered(c, s)[RegisterIndex].starter = s
    BY <2>2, <2>3
  <2>9. RegisterIndex \in Nat
    BY <1>1, <2>2
  <2>10. \A k \in InUse(entries) : Registered(c, s)[k] = entries[k]
    BY <1>1, <2>2, <2>3
  <2>11. Len(Registered(c, s)) \in InUse(Registered(c, s))
    BY <2>4, <2>5, <2>6
  <2> QED
    BY <2>2, <2>4, <2>5, <2>7, <2>8, <2>9, <2>10, <2>11
<1> QED
  BY <1>2, <1>3

-----------------------------------------------------------------------------
(***************************************************************************)
(* A step that leaves the array alone keeps the invariant if it leaves     *)
(* alone who waits and who is observed.                                    *)
(***************************************************************************)
LEMMA SameEntered ==
  ASSUME IInv, svars' = svars,
         \A c \in Callers : /\ Waiting(c)' <=> Waiting(c)
                            /\ Observed(c)' <=> Observed(c)
                            /\ Waiting(c) => /\ callerIndex'[c] = callerIndex[c]
                                             /\ starter'[c].index = starter[c].index
                            /\ command'[c] # "hung"
  PROVE  ArrayCounted' /\ CallersEntered'
<1>1. entries' = entries /\ InUse(entries)' = InUse(entries)
      /\ callerCount' = callerCount /\ deleted' = deleted
  BY DEF svars, InUse
<1>2. ArrayCounted'
  BY <1>1 DEF IInv, ArrayCounted
<1>3. ASSUME NEW c \in Callers
      PROVE  /\ Observed(c)' <=> Waiting(c)'
             /\ Waiting(c)' => Entered(c)'
             /\ command'[c] # "hung"
  BY <1>1 DEF IInv, CallersEntered, Entered, Waiting, Observed
<1>4. ASSUME NEW i \in InUse(entries)'
      PROVE  \E c \in Callers : Waiting(c)' /\ callerIndex'[c] = i
  BY <1>1, <1>4 DEF IInv, CallersEntered, Waiting
<1> QED
  BY <1>2, <1>3, <1>4 DEF CallersEntered

\* Two commands that wait have entries of their own.
LEMMA EntriesDiffer ==
  ASSUME CallersEntered, NEW c \in Callers, NEW d \in Callers, Waiting(c), Waiting(d),
         callerIndex[c] = callerIndex[d]
  PROVE  c = d
BY DEF CallersEntered, Entered

(***************************************************************************)
(* Entry i is given up, and the command it is of, d, does not wait any     *)
(* more; for the others nothing changes.                                   *)
(***************************************************************************)
LEMMA DeRegisterEntered ==
  ASSUME IInv, NEW d \in Callers, Waiting(d), DeRegisterCall(callerIndex[d]),
         ~Waiting(d)',
         \A c \in Callers : /\ c # d => (Waiting(c)' <=> Waiting(c))
                            /\ Waiting(c)' => callerIndex'[c] = callerIndex[c]
                            /\ command'[c] # "hung"
  PROVE  ArrayCounted' /\ CallersEntered'
<1> DEFINE i == callerIndex[d]
<1>1. /\ entries \in Seq(Entries) /\ i \in InUse(entries)
      /\ entries[i].starter = d
  BY DEF IInv, TypeOK, CallersEntered, Entered
<1>2. /\ starter' = [starter EXCEPT ![d] = NoStarter]
      /\ entries' = DeRegistered(entries, i)
      /\ callerCount' = callerCount - 1 /\ deleted' = deleted
  BY <1>1 DEF DeRegisterCall
<1>3. InUse(entries)' = InUse(entries')
  BY DEF InUse
<1>4. /\ InUse(entries)' = InUse(entries) \ {i}
      /\ \A k \in InUse(entries) \ {i} : entries'[k] = entries[k]
      /\ entries' # <<>> => Len(entries') \in InUse(entries)'
      /\ Cardinality(InUse(entries)') = Cardinality(InUse(entries)) - 1
  BY <1>1, <1>2, <1>3, DeRegisteredFacts
<1>5. ~deleted
  BY <1>1, InUseFacts DEF IInv, ArrayCounted, InUse
<1>6. ArrayCounted'
  BY <1>2, <1>4, <1>5 DEF IInv, ArrayCounted
<1>7. ASSUME NEW c \in Callers
      PROVE  /\ Observed(c)' <=> Waiting(c)'
             /\ Waiting(c)' => Entered(c)'
  <2>1. CASE c = d
    BY <1>2, <2>1 DEF Observed, NoStarter, IInv, TypeOK
  <2>2. CASE c # d
    <3>1. starter'[c] = starter[c]
      BY <1>2, <2>2 DEF IInv, TypeOK
    <3>2. Waiting(c)' => callerIndex[c] # i
      BY <2>2, EntriesDiffer DEF IInv, Waiting
    <3> HIDE DEF i
    <3> QED
      BY <1>4, <2>2, <3>1, <3>2 DEF IInv, CallersEntered, Entered, Observed, Waiting
  <2> QED
    BY <2>1, <2>2
<1>8. ASSUME NEW k \in InUse(entries)'
      PROVE  \E c \in Callers : Waiting(c)' /\ callerIndex'[c] = k
  BY <1>4, <1>8 DEF IInv, CallersEntered, Waiting
<1> QED
  BY <1>6, <1>7, <1>8 DEF CallersEntered

-----------------------------------------------------------------------------
(***************************************************************************)
(* Types.                                                                  *)
(***************************************************************************)
LEMMA StarterTypes ==
  ASSUME NEW c \in Callers, NEW p \in StartupProperties[c], NEW i \in Nat
  PROVE  /\ NewStarter(p, i) \in Starters
         /\ NewStarter(p, i).forget = p.forget /\ NewStarter(p, i).phase # "none"
         /\ NewStarter(p, i).index = i
<1>1. p \in AllProperties
  BY PropertiesAssumption
<1> QED
  BY <1>1 DEF NewStarter, Starters, AllProperties

\* What InvokeL leaves of a starter.
LEMMA InvokeFacts ==
  ASSUME TypeOK, NEW c \in Callers, NEW s \in Starters, InvokeL(c, s),
         s.forget = starter[c].forget, s.index = starter[c].index
  PROVE  /\ starter' \in [Callers -> Starters]
         /\ process' \in [Callers -> {"none", "started", "ready", "exited", "panicked"}]
         /\ \A d \in Callers : /\ starter'[d].forget = starter[d].forget
                               /\ starter'[d].index = starter[d].index
                               /\ d # c => starter'[d] = starter[d]
         /\ starter'[c].phase # "none"
<1>1. PICK t \in Starters : /\ starter' = [starter EXCEPT ![c] = t]
                            /\ t.phase # "none" /\ t.forget = s.forget /\ t.index = s.index
  <2>1. Timed(s) \in Starters /\ Timed(s).forget = s.forget /\ Timed(s).index = s.index
    BY DEF Timed, Starters
  <2> DEFINE t1 == [Timed(s) EXCEPT !.phase = "awaiting"]
             t2 == [Timed(s) EXCEPT !.phase = "signalled", !.code = "KErrGeneral"]
             t3 == [s EXCEPT !.phase = "signalled", !.code = "KErrGeneral"]
  <2>2. /\ t1 \in Starters /\ t1.phase # "none" /\ t1.forget = s.forget /\ t1.index = s.index
        /\ t2 \in Starters /\ t2.phase # "none" /\ t2.forget = s.forget /\ t2.index = s.index
        /\ t3 \in Starters /\ t3.phase # "none" /\ t3.forget = s.forget /\ t3.index = s.index
    BY <2>1 DEF Starters, Failures
  <2>3. \/ starter' = [starter EXCEPT ![c] = t1]
        \/ starter' = [starter EXCEPT ![c] = t2]
        \/ starter' = [starter EXCEPT ![c] = t3]
    BY DEF InvokeL
  <2> HIDE DEF t1, t2, t3
  <2> QED
    BY <2>2, <2>3
<1>2. process' \in [Callers -> {"none", "started", "ready", "exited", "panicked"}]
  BY DEF InvokeL, TypeOK
<1> QED
  BY <1>1, <1>2 DEF TypeOK

\* A command that has nothing at work does not wait.
LEMMA NotWaiting ==
  ASSUME IInv, NEW c \in Callers, Executes(c)
  PROVE  ~Waiting(c) /\ ~Observed(c)
BY DEF Executes, Waiting, Observed, NoStarter

\* A command that starts waits with an entry of its own, or does not wait.
LEMMA StartInv ==
  ASSUME IInv, NEW c \in Callers, NEW p \in StartupProperties[c], Start(c, p)
  PROVE  IInv'
<1> USE DEF IInv
<1>0. /\ Executes(c) /\ ~Waiting(c) /\ ~Observed(c)
      /\ command' = [command EXCEPT ![c] = "executing"]
  BY NotWaiting DEF Start, StartFireAndForget, FireAndForgetFails, StartAndRetry,
                    RegisterFails, StartFails, Executes
<1>1. CASE StartFireAndForget(c, p)
  <2>1. TypeOK'
    BY <1>0, <1>1, StarterTypes DEF StartFireAndForget, svars, TypeOK, Answers
  <2>2. ArrayCounted' /\ CallersEntered'
    BY <1>0, <1>1, StarterTypes, SameEntered
       DEF StartFireAndForget, svars, TypeOK, Waiting, Observed, CallersEntered
  <2> QED
    BY <2>1, <2>2
<1>2. CASE FireAndForgetFails(c, p) \/ RegisterFails(c, p)
  <2>1. TypeOK'
    <3>1. /\ svars' = svars /\ starter' = starter /\ process' = process
          /\ status' = [status EXCEPT ![c] = "KErrGeneral"]
          /\ callerIndex' = callerIndex \/ callerIndex' = [callerIndex EXCEPT ![c] = 0]
      BY <1>2 DEF FireAndForgetFails, RegisterFails, svars
    <3>2. callerIndex' \in [Callers -> Nat]
      BY <3>1 DEF TypeOK
    <3> QED
      BY <1>0, <3>1, <3>2 DEF svars, TypeOK, Answers, Failures
  <2>2. ArrayCounted' /\ CallersEntered'
    BY <1>0, <1>2, SameEntered
       DEF FireAndForgetFails, RegisterFails, svars, TypeOK, Waiting, Observed,
           CallersEntered
  <2> QED
    BY <2>1, <2>2
<1>3. CASE StartAndRetry(c, p)
  <2> DEFINE i == RegisterIndex
  <2>1. /\ i \in Nat /\ i \notin InUse(entries)
        /\ entries' \in Seq(Entries)
        /\ entries'[i].callerTrs = c /\ entries'[i].starter = c
        /\ InUse(entries') = InUse(entries) \cup {i}
        /\ \A k \in InUse(entries) : entries'[k] = entries[k]
        /\ Len(entries') \in InUse(entries')
        /\ Cardinality(InUse(entries')) = callerCount + 1
    BY <1>3, RegisteredFacts DEF StartAndRetry
  <2>2. /\ starter' = [starter EXCEPT ![c] = NewStarter(p, i)]
        /\ callerIndex' = [callerIndex EXCEPT ![c] = i]
        /\ status' = [status EXCEPT ![c] = "KRequestPending"]
        /\ callerCount' = callerCount + 1 /\ deleted' = deleted /\ process' = process
        /\ ~p.forget /\ ~deleted
    BY <1>3, <1>0 DEF StartAndRetry, Executes
  <2>3. /\ NewStarter(p, i) \in Starters
        /\ ~NewStarter(p, i).forget /\ NewStarter(p, i).phase # "none"
        /\ NewStarter(p, i).index = i
    BY <2>1, <2>2, StarterTypes
  <2> HIDE DEF i
  <2>4. TypeOK'
    BY <1>0, <2>1, <2>2, <2>3 DEF TypeOK, Answers
  <2>5. ArrayCounted'
    BY <2>1, <2>2 DEF ArrayCounted, InUse
  <2>6. ASSUME NEW d \in Callers
        PROVE  /\ Observed(d)' <=> Waiting(d)'
               /\ Waiting(d)' => Entered(d)'
               /\ command'[d] # "hung"
    <3>1. CASE d = c
      BY <1>0, <2>1, <2>2, <2>3, <3>1 DEF TypeOK, Observed, Waiting, Entered, InUse
    <3>2. CASE d # c
      <4>1. /\ command'[d] = command[d] /\ status'[d] = status[d]
            /\ starter'[d] = starter[d] /\ callerIndex'[d] = callerIndex[d]
        BY <1>0, <2>2, <3>2 DEF TypeOK
      <4> QED
        BY <2>1, <4>1 DEF CallersEntered, Observed, Waiting, Entered, InUse
    <3> QED
      BY <3>1, <3>2
  <2>7. ASSUME NEW k \in InUse(entries')
        PROVE  \E d \in Callers : Waiting(d)' /\ callerIndex'[d] = k
    <3>1. CASE k = i
      BY <1>0, <2>2, <3>1 DEF TypeOK, Waiting
    <3>2. CASE k \in InUse(entries)
      <4>1. PICK d \in Callers : Waiting(d) /\ callerIndex[d] = k
        BY <3>2 DEF CallersEntered
      <4> QED
        BY <1>0, <2>2, <4>1 DEF TypeOK, Waiting
    <3> QED
      BY <2>1, <3>1, <3>2
  <2>8. CallersEntered'
    BY <2>6, <2>7 DEF CallersEntered, InUse
  <2> QED
    BY <2>4, <2>5, <2>8
<1>4. ASSUME NEW code \in {"KErrCancel", "KErrGeneral"}, StartFails(c, p, code) PROVE IInv'
  <2> DEFINE i == RegisterIndex
             array == Registered(c, Nobody)
  <2>1. /\ i \in Nat /\ i \notin InUse(entries)
        /\ array \in Seq(Entries) /\ i \in InUse(array)
        /\ InUse(array) = InUse(entries) \cup {i}
        /\ \A k \in InUse(entries) : array[k] = entries[k]
        /\ Cardinality(InUse(array)) = callerCount + 1
    BY RegisteredFacts
  <2>2. /\ callerIndex' = [callerIndex EXCEPT ![c] = i]
        /\ entries' = DeRegistered(array, i)
        /\ status' = [status EXCEPT ![c] = code]
        /\ callerCount' = callerCount /\ deleted' = deleted /\ process' = process
        /\ starter' = starter /\ ~deleted
    BY <1>4, <1>0 DEF StartFails, Executes
  <2> HIDE DEF i, array
  <2>3. /\ entries' \in Seq(Entries) /\ InUse(entries') = InUse(entries)
        /\ \A k \in InUse(entries) : entries'[k] = entries[k]
        /\ entries' # <<>> => Len(entries') \in InUse(entries')
    <3>1. InUse(array) \ {i} = InUse(entries)
      BY <2>1
    <3> QED
      BY <2>1, <2>2, <3>1, DeRegisteredFacts
  <2>4. TypeOK'
    BY <1>0, <2>1, <2>2, <2>3 DEF TypeOK, Answers, Failures
  <2>5. ArrayCounted'
    BY <2>2, <2>3 DEF ArrayCounted, InUse
  <2>6. ASSUME NEW d \in Callers
        PROVE  /\ Observed(d)' <=> Waiting(d)'
               /\ Waiting(d)' => Waiting(d) /\ d # c /\ Entered(d)'
               /\ Waiting(d) => Waiting(d)' /\ d # c
               /\ command'[d] # "hung"
    <3>1. /\ Waiting(d)' <=> Waiting(d)
          /\ Waiting(d) => d # c
          /\ command'[d] # "hung"
      BY <1>0, <2>2 DEF TypeOK, CallersEntered, Waiting
    <3>2. ASSUME Waiting(d) PROVE Entered(d)'
      <4>1. Entered(d) /\ callerIndex'[d] = callerIndex[d]
        BY <2>2, <3>1, <3>2 DEF CallersEntered, TypeOK
      <4> QED
        BY <2>2, <2>3, <4>1 DEF Entered, InUse
    <3>3. Observed(d)' <=> Observed(d)
      BY <2>2 DEF Observed
    <3> QED
      BY <3>1, <3>2, <3>3 DEF CallersEntered
  <2>7. ASSUME NEW k \in InUse(entries')
        PROVE  \E d \in Callers : Waiting(d)' /\ callerIndex'[d] = k
    <3>1. PICK d \in Callers : Waiting(d) /\ callerIndex[d] = k
      BY <2>3 DEF CallersEntered
    <3> QED
      BY <2>2, <2>6, <3>1 DEF TypeOK
  <2>8. CallersEntered'
    BY <2>6, <2>7 DEF CallersEntered, InUse
  <2> QED
    BY <2>4, <2>5, <2>8
<1> QED
  BY <1>1, <1>2, <1>3, <1>4 DEF Start

\* What DeRegisterCall leaves has its type.
LEMMA DeRegisterTypes ==
  ASSUME IInv, NEW d \in Callers, Waiting(d), DeRegisterCall(callerIndex[d])
  PROVE  /\ entries[callerIndex[d]].callerTrs = d
         /\ starter' = [starter EXCEPT ![d] = NoStarter]
         /\ starter' \in [Callers -> Starters]
         /\ entries' \in Seq(Entries) /\ callerCount' \in Nat /\ deleted' \in BOOLEAN
<1>1. /\ callerIndex[d] \in InUse(entries) /\ entries[callerIndex[d]].starter = d
      /\ entries[callerIndex[d]].callerTrs = d
      /\ entries \in Seq(Entries)
  BY DEF IInv, TypeOK, CallersEntered, Entered
<1>2. NoStarter \in Starters
  BY DEF NoStarter, Starters
<1>3. entries' \in Seq(Entries)
      /\ Cardinality(InUse(entries')) = Cardinality(InUse(entries)) - 1
  BY <1>1, DeRegisteredFacts DEF DeRegisterCall
<1>4. Cardinality(InUse(entries')) \in Nat
  BY <1>3, InUseFacts
<1> QED
  BY <1>1, <1>2, <1>3, <1>4 DEF DeRegisterCall, IInv, TypeOK, ArrayCounted

\* What InvokeL is called with.
LEMMA AttemptOf ==
  ASSUME TypeOK, NEW c \in Callers, Invoked(c) \/ Retried(c)
  PROVE  \E s \in Starters : /\ InvokeL(c, s) /\ s.forget = starter[c].forget
                             /\ s.index = starter[c].index
<1>1. CASE Invoked(c)
  BY <1>1 DEF Invoked, TypeOK
<1>2. CASE Retried(c)
  <2> DEFINE s == [starter[c] EXCEPT !.retries = @ - 1, !.code = "KErrNone"]
  <2>1. InvokeL(c, s)
    BY <1>2 DEF Retried
  <2>2. s \in Starters /\ s.forget = starter[c].forget /\ s.index = starter[c].index
    <3>1. starter[c] \in Starters
      BY DEF TypeOK
    <3>2. starter[c].retries - 1 \in Nat
      BY <1>2, <3>1 DEF Retried, RetriesLeft, Starters
    <3> QED
      BY <3>1, <3>2 DEF Starters
  <2> HIDE DEF s
  <2> QED
    BY <2>1, <2>2
<1> QED
  BY <1>1, <1>2

\* RunL of an observer.
LEMMA StarterInv ==
  ASSUME IInv, NEW c \in Callers, StarterRuns(c)
  PROVE  IInv'
<1> USE DEF IInv
<1>1. CASE Invoked(c) \/ Retried(c)
  <2>1. PICK s \in Starters : /\ InvokeL(c, s) /\ s.forget = starter[c].forget
                              /\ s.index = starter[c].index
    BY <1>1, AttemptOf
  <2>2. /\ starter' \in [Callers -> Starters]
        /\ process' \in [Callers -> {"none", "started", "ready", "exited", "panicked"}]
        /\ \A d \in Callers : /\ starter'[d].forget = starter[d].forget
                              /\ starter'[d].index = starter[d].index
                              /\ d # c => starter'[d] = starter[d]
        /\ starter'[c].phase # "none"
    BY <2>1, InvokeFacts
  <2>3. /\ command' = command /\ status' = status /\ callerIndex' = callerIndex
        /\ svars' = svars /\ starter[c].phase # "none"
    BY <1>1 DEF Invoked, Retried
  <2>4. TypeOK'
    BY <2>2, <2>3 DEF TypeOK, svars
  <2>5. ArrayCounted' /\ CallersEntered'
    BY <2>2, <2>3, SameEntered DEF Waiting, Observed, CallersEntered
  <2> QED
    BY <2>4, <2>5
<1>2. CASE RendezvousComplete(c)
  <2>1. Observed(c) /\ Waiting(c) /\ starter[c].index = callerIndex[c]
    BY <1>2 DEF RendezvousComplete, Finished, CallersEntered, Observed, Entered
  <2>2. /\ DeRegisterCall(callerIndex[c])
        /\ status' = Complete(callerIndex[c], Code(c))
        /\ process' = [process EXCEPT ![c] = ProcessAfter(c)]
        /\ command' = command /\ callerIndex' = callerIndex
    BY <1>2, <2>1 DEF RendezvousComplete
  <2>3. status' = [status EXCEPT ![c] = Code(c)]
    BY <2>1, <2>2, DeRegisterTypes DEF Complete
  <2>4. Code(c) \in Answers /\ Code(c) # "KRequestPending"
    BY DEF Code, Answers, Failures, TypeOK, Starters
  <2>5. ProcessAfter(c) \in {"none", "started", "ready", "exited", "panicked"}
    BY DEF ProcessAfter, TypeOK
  <2>6. TypeOK'
    BY <2>1, <2>2, <2>3, <2>4, <2>5, DeRegisterTypes DEF TypeOK
  <2>7. /\ ~Waiting(c)'
        /\ \A d \in Callers : /\ d # c => (Waiting(d)' <=> Waiting(d))
                              /\ Waiting(d)' => callerIndex'[d] = callerIndex[d]
                              /\ command'[d] # "hung"
    BY <2>2, <2>3, <2>4 DEF Waiting, TypeOK, CallersEntered
  <2>8. ArrayCounted' /\ CallersEntered'
    BY <2>1, <2>2, <2>7, DeRegisterEntered
  <2> QED
    BY <2>6, <2>8
<1>3. CASE FireAndForgetEnds(c) \/ FireAndForgetLeaves(c)
  <2>1. /\ starter[c].forget
        /\ starter' = [starter EXCEPT ![c] = NoStarter]
        /\ process' = [process EXCEPT ![c] = "none"]
        /\ command' = command /\ status' = status /\ callerIndex' = callerIndex
        /\ svars' = svars
    BY <1>3 DEF FireAndForgetEnds, FireAndForgetLeaves, Forget
  <2>2. NoStarter \in Starters /\ NoStarter.phase = "none"
    BY DEF NoStarter, Starters
  <2>3. TypeOK'
    BY <2>1, <2>2 DEF TypeOK, svars
  <2>4. ArrayCounted' /\ CallersEntered'
    BY <2>1, <2>2, SameEntered DEF Waiting, Observed, CallersEntered, TypeOK
  <2> QED
    BY <2>3, <2>4
<1> QED
  BY <1>1, <1>2, <1>3 DEF StarterRuns

\* A time out, and what the process does, move no entry.
LEMMA TimerInv ==
  ASSUME IInv, NEW c \in Callers, TimerRunL(c) \/ ProcessStep(c)
  PROVE  IInv'
<1> USE DEF IInv
<1>1. ASSUME NEW code \in {"KErrNone", "KErrGeneral"},
             NotifyTimeout(c, code)
               \/ \E p \in {"ready", "exited", "panicked"} : ProcessSignals(c, p, code)
      PROVE  IInv'
  <2> DEFINE s1 == [starter[c] EXCEPT !.phase = "signalled", !.code = code]
             s2 == [starter[c] EXCEPT !.phase = "signalled", !.code = code, !.timer = "idle"]
  <2>1. /\ starter[c].phase # "none"
        /\ \/ starter' = [starter EXCEPT ![c] = s1]
           \/ starter' = [starter EXCEPT ![c] = s2]
        /\ \E p \in {"ready", "exited", "panicked"} : process' = [process EXCEPT ![c] = p]
        /\ command' = command /\ status' = status /\ callerIndex' = callerIndex
        /\ svars' = svars
    BY <1>1 DEF NotifyTimeout, TimerExpires, ProcessSignals, TypeOK
  <2>2. /\ s1 \in Starters /\ s1.phase # "none"
        /\ s1.forget = starter[c].forget /\ s1.index = starter[c].index
        /\ s2 \in Starters /\ s2.phase # "none"
        /\ s2.forget = starter[c].forget /\ s2.index = starter[c].index
    <3>1. starter[c] \in Starters
      BY DEF TypeOK
    <3> QED
      BY <3>1 DEF Starters, Failures
  <2> HIDE DEF s1, s2
  <2>3. TypeOK'
    BY <2>1, <2>2 DEF TypeOK, svars
  <2>4. \A d \in Callers : /\ starter'[d].phase # "none" <=> starter[d].phase # "none"
                           /\ starter'[d].forget = starter[d].forget
                           /\ starter'[d].index = starter[d].index
    BY <2>1, <2>2 DEF TypeOK
  <2>5. ArrayCounted' /\ CallersEntered'
    BY <2>1, <2>4, SameEntered DEF Waiting, Observed, CallersEntered
  <2> QED
    BY <2>3, <2>5
<1>2. CASE NotifyTimeoutForget(c)
  <2>1. /\ starter[c].forget
        /\ starter' = [starter EXCEPT ![c] = NoStarter]
        /\ process' = [process EXCEPT ![c] = "none"]
        /\ command' = command /\ status' = status /\ callerIndex' = callerIndex
        /\ svars' = svars
    BY <1>2 DEF NotifyTimeoutForget, Forget
  <2>2. NoStarter \in Starters /\ NoStarter.phase = "none"
    BY DEF NoStarter, Starters
  <2>3. TypeOK'
    BY <2>1, <2>2 DEF TypeOK, svars
  <2>4. ArrayCounted' /\ CallersEntered'
    BY <2>1, <2>2, SameEntered DEF Waiting, Observed, CallersEntered, TypeOK
  <2> QED
    BY <2>3, <2>4
<1>3. ASSUME NEW p \in {"exited", "panicked"}, ProcessEnds(c, p) PROVE IInv'
  <2>1. TypeOK'
    BY <1>3 DEF ProcessEnds, TypeOK, svars
  <2>2. ArrayCounted' /\ CallersEntered'
    BY <1>3, SameEntered DEF ProcessEnds, Waiting, Observed, CallersEntered
  <2> QED
    BY <2>1, <2>2
<1> QED
  BY <1>1, <1>2, <1>3 DEF TimerRunL, ProcessStep

\* A command that has been answered ends: it did not wait.
LEMMA CommandInv ==
  ASSUME IInv, NEW c \in Callers,
         CommandRunL(c) \/ CancelNothing(c)
  PROVE  IInv' /\ command' = [command EXCEPT ![c] = "idle"]
<1> USE DEF IInv
<1>1. status[c] # "KRequestPending"
  BY DEF CommandRunL, CancelNothing, Cancels, CallersEntered, Waiting, Entered
<1>2. /\ CommandEnds(c) /\ svars' = svars /\ starter' = starter
      /\ status' = [status EXCEPT ![c] = "idle"]
  BY <1>1 DEF CommandRunL, CancelNothing
<1>3. TypeOK'
  BY <1>2 DEF CommandEnds, TypeOK, svars
<1>4. ArrayCounted' /\ CallersEntered'
  BY <1>1, <1>2, SameEntered DEF CommandEnds, TypeOK, Waiting, Observed, CallersEntered
<1> QED
  BY <1>2, <1>3, <1>4 DEF CommandEnds

(***************************************************************************)
(* A command cancels entry i with the index it keeps, which may be that of *)
(* another command by now: one that waits does not, as its entry is its    *)
(* own.                                                                    *)
(***************************************************************************)
LEMMA CancelFacts ==
  ASSUME IInv, NEW c \in Callers, NEW i, CancelEntry(c, i)
  PROVE  \E d \in Callers :
           /\ Waiting(d) /\ i = callerIndex[d] /\ DeRegisterCall(i)
           /\ Waiting(c) => d = c
           /\ CommandEnds(c)
           /\ status' = [status EXCEPT ![d] = CancellationCode(d), ![c] = "idle"]
<1>1. PICK d \in Callers : Waiting(d) /\ callerIndex[d] = i
  BY DEF CancelEntry, IInv, CallersEntered
<1>2. entries[i].starter = d /\ entries[i].callerTrs = d
  BY <1>1 DEF IInv, CallersEntered, Entered
<1>3. Waiting(c) => d = c
  BY <1>1, EntriesDiffer DEF CancelEntry, IInv
<1>4. CancellationCode(d) # "KRequestPending"
  BY DEF CancellationCode
<1>5. Complete(i, CancellationCode(entries[i].starter))
        = [status EXCEPT ![d] = CancellationCode(d)]
  BY <1>2 DEF Complete
<1>6. [status EXCEPT ![d] = CancellationCode(d)][c] # "KRequestPending"
  BY <1>3, <1>4 DEF IInv, TypeOK, CancelEntry, Cancels, Waiting
<1>7. /\ CommandEnds(c)
      /\ status' = [[status EXCEPT ![d] = CancellationCode(d)] EXCEPT ![c] = "idle"]
  BY <1>5, <1>6 DEF CancelEntry
<1> QED
  BY <1>1, <1>3, <1>7 DEF CancelEntry

\* The entry that is cancelled goes with the command that waited for it.
LEMMA CancelInv ==
  ASSUME IInv, NEW c \in Callers, NEW i, CancelEntry(c, i)
  PROVE  IInv'
<1> USE DEF IInv
<1>1. PICK d \in Callers :
        /\ Waiting(d) /\ i = callerIndex[d] /\ DeRegisterCall(i)
        /\ Waiting(c) => d = c
        /\ CommandEnds(c)
        /\ status' = [status EXCEPT ![d] = CancellationCode(d), ![c] = "idle"]
  BY CancelFacts
<1>2. CancellationCode(d) \in Answers /\ CancellationCode(d) # "KRequestPending"
  BY DEF CancellationCode, Answers, Failures
<1>3. TypeOK'
  BY <1>1, <1>2, DeRegisterTypes DEF CommandEnds, TypeOK
<1>4. /\ ~Waiting(d)'
      /\ \A e \in Callers : /\ e # d => (Waiting(e)' <=> Waiting(e))
                            /\ Waiting(e)' => callerIndex'[e] = callerIndex[e]
                            /\ command'[e] # "hung"
  BY <1>1, <1>2 DEF CommandEnds, TypeOK, Waiting, CallersEntered
<1>5. ArrayCounted' /\ CallersEntered'
  BY <1>1, <1>4, DeRegisterEntered
<1> QED
  BY <1>3, <1>5

\* The destructor of StartSafe completes what waits, and leaves an empty array.
LEMMA DeleteInv == ASSUME IInv, DeleteStartSafe PROVE IInv'
<1> USE DEF IInv
<1>1. ASSUME NEW c \in Callers
      PROVE  /\ (\E i \in InUse(entries) : entries[i].callerTrs = c) <=> Waiting(c)
             /\ (\E i \in InUse(entries) : entries[i].starter = c) <=> Waiting(c)
  BY DEF CallersEntered, Entered
<1>2. /\ status' = [c \in Callers |-> IF Waiting(c) THEN CancellationCode(c) ELSE status[c]]
      /\ starter' = [c \in Callers |-> IF Waiting(c) THEN NoStarter ELSE starter[c]]
  BY <1>1 DEF DeleteStartSafe
<1>3. entries' = <<>> /\ callerCount' = 0 /\ deleted' = TRUE
  BY InUseFacts DEF DeleteStartSafe, ArrayCounted, TypeOK
<1>4. InUse(entries') = {} /\ entries' \in Seq(Entries)
  BY <1>3, EmptySeq DEF InUse
<1>5. \A c \in Callers : /\ CancellationCode(c) \in Answers
                         /\ CancellationCode(c) # "KRequestPending"
  BY DEF CancellationCode, Answers, Failures
<1>6. NoStarter \in Starters /\ NoStarter.phase = "none"
  BY DEF NoStarter, Starters
<1>7. TypeOK'
  BY <1>2, <1>3, <1>4, <1>5, <1>6 DEF DeleteStartSafe, TypeOK
<1>8. ArrayCounted'
  BY <1>3, <1>4, FS_EmptySet DEF ArrayCounted, InUse
<1>9. ASSUME NEW c \in Callers
      PROVE  ~Observed(c)' /\ ~Waiting(c)' /\ command'[c] # "hung"
  BY <1>2, <1>5, <1>6 DEF DeleteStartSafe, CallersEntered, Observed, Waiting
<1>10. CallersEntered'
  BY <1>4, <1>9 DEF CallersEntered, InUse
<1> QED
  BY <1>7, <1>8, <1>10

\* The inductive invariant holds at first.
LEMMA InitInv == Init => IInv
<1> SUFFICES ASSUME Init PROVE IInv
  OBVIOUS
<1> USE DEF Init
<1>1. InUse(entries) = {} /\ entries \in Seq(Entries)
  BY EmptySeq DEF InUse
<1>2. NoStarter \in Starters /\ NoStarter.phase = "none"
  BY DEF NoStarter, Starters
<1>3. TypeOK
  BY <1>1, <1>2 DEF TypeOK
<1>4. ArrayCounted
  BY <1>1, FS_EmptySet DEF ArrayCounted
<1>5. CallersEntered
  BY <1>1, <1>2 DEF CallersEntered, Observed, Waiting
<1> QED
  BY <1>3, <1>4, <1>5 DEF IInv

\* Every step keeps the inductive invariant.
LEMMA NextInv == IInv /\ [Next]_vars => IInv'
<1> SUFFICES ASSUME IInv, [Next]_vars PROVE IInv'
  OBVIOUS
<1>1. CASE UNCHANGED vars
  <2>1. TypeOK'
    BY <1>1 DEF vars, svars, IInv, TypeOK
  <2>2. ArrayCounted' /\ CallersEntered'
    BY <1>1, SameEntered DEF vars, svars, Waiting, Observed, IInv, CallersEntered
  <2> QED
    BY <2>1, <2>2 DEF IInv
<1>2. ASSUME NEW c \in Callers, StartCancel(c) PROVE IInv'
  BY <1>2, CommandInv, CancelInv DEF StartCancel
<1> QED
  BY <1>1, <1>2, StartInv, StarterInv, TimerInv, CommandInv, DeleteInv DEF Next

\* Every reachable state satisfies the inductive invariant.
THEOREM Invariance == Spec => []IInv
BY InitInv, NextInv, PTL DEF Spec

\* The callers, the array and what works for them have their types.
THEOREM TypeCorrect == Spec => []TypeOK
<1>1. IInv => TypeOK
  BY DEF IInv
<1> QED
  BY <1>1, Invariance, PTL

(***************************************************************************)
(* The entries of iStartSafeEntryArray are those of the commands that wait *)
(* for an answer, each with its observer, and iCallerCount counts them: a  *)
(* command that is cancelled while it waits never hangs.                   *)
(***************************************************************************)
THEOREM EntriesOfCallers == Spec => []EntriesAreCallers
BY InvEntries, Invariance, PTL

-----------------------------------------------------------------------------
(***************************************************************************)
(* Nor does a command that is not executed leave a process, unless it has  *)
(* forgotten it.                                                           *)
(***************************************************************************)
NoProcess(c) == process[c] \notin {"started", "ready"}

IdleLeavesNoProcess ==
  \A c \in Callers : command[c] = "idle" => NoProcess(c) \/ starter[c].forget

\* What becomes of a command while nothing works for it.
LEMMA ProcessKept ==
  ASSUME IInv, FailureLeavesNoProcess, IdleLeavesNoProcess, deleted => deleted',
         \A c \in Callers :
           \/ NoProcess(c)'
           \/ starter'[c].forget
           \/ /\ command'[c] = "executing"
              /\ status'[c] # "KErrGeneral" \/ deleted'
           \/ /\ process'[c] = process[c] /\ command'[c] = command[c]
              /\ status'[c] = status[c]
              /\ starter[c].forget => starter'[c].forget
  PROVE  FailureLeavesNoProcess' /\ IdleLeavesNoProcess'
<1>1. ASSUME NEW c \in Callers
      PROVE  /\ command'[c] = "executing" /\ status'[c] = "KErrGeneral" =>
                  NoProcess(c)' \/ starter'[c].forget \/ deleted'
             /\ command'[c] = "idle" => NoProcess(c)' \/ starter'[c].forget
  BY DEF FailureLeavesNoProcess, IdleLeavesNoProcess, NoProcess
<1> QED
  BY <1>1 DEF FailureLeavesNoProcess, IdleLeavesNoProcess, NoProcess

LEMMA InitProcess == Init => FailureLeavesNoProcess /\ IdleLeavesNoProcess
BY DEF Init, FailureLeavesNoProcess, IdleLeavesNoProcess, NoProcess

\* A code that is an error means that the process is not there, or terminated.
LEMMA CodeFacts ==
  ASSUME IInv, NEW c \in Callers
  PROVE  /\ Code(c) = "KErrGeneral" => ProcessAfter(c) \notin {"started", "ready"}
         /\ Code(c) \in {"KErrNone", "KErrGeneral"}
         /\ GoodStart(c) => Code(c) = "KErrNone"
         /\ CancellationCode(c) = "KErrGeneral" => NoProcess(c)
BY DEF Code, ProcessAfter, GoodStart, CancellationCode, HasHandle, NoProcess, IInv, TypeOK,
       Starters, Failures

\* An attempt changes nobody's ESsmFireAndForget, and no other process.
LEMMA InvokedForget ==
  ASSUME TypeOK, NEW c \in Callers, Invoked(c) \/ Retried(c)
  PROVE  /\ \A d \in Callers : d # c => process'[d] = process[d]
         /\ \A d \in Callers : starter'[d].forget = starter[d].forget
<1>1. PICK s \in Starters : /\ InvokeL(c, s) /\ s.forget = starter[c].forget
                            /\ s.index = starter[c].index
  BY AttemptOf
<1>2. \A d \in Callers : starter'[d].forget = starter[d].forget
  BY <1>1, InvokeFacts
<1>3. \E p : process' = [process EXCEPT ![c] = p]
  BY <1>1 DEF InvokeL
<1> QED
  BY <1>2, <1>3 DEF TypeOK

\* No step leaves a process behind.
LEMMA NextProcess ==
  IInv /\ (FailureLeavesNoProcess /\ IdleLeavesNoProcess) /\ [Next]_vars
    => (FailureLeavesNoProcess /\ IdleLeavesNoProcess)'
<1> SUFFICES ASSUME IInv, FailureLeavesNoProcess, IdleLeavesNoProcess, [Next]_vars
             PROVE  (FailureLeavesNoProcess /\ IdleLeavesNoProcess)'
  OBVIOUS
<1> USE DEF IInv
<1> DEFINE Kept(c) == /\ process'[c] = process[c] /\ command'[c] = command[c]
                      /\ status'[c] = status[c]
                      /\ starter[c].forget => starter'[c].forget
           Inv == FailureLeavesNoProcess /\ IdleLeavesNoProcess
<1>1. CASE UNCHANGED vars
  BY <1>1 DEF vars, svars, FailureLeavesNoProcess, IdleLeavesNoProcess, NoProcess
<1>2. ASSUME NEW c \in Callers, NEW p \in StartupProperties[c], Start(c, p) PROVE Inv'
  <2>1. /\ command[c] = "idle" /\ ~starter[c].forget /\ process' = process
        /\ command' = [command EXCEPT ![c] = "executing"] /\ deleted' = deleted
    BY <1>2 DEF Start, StartFireAndForget, FireAndForgetFails, StartAndRetry,
                RegisterFails, StartFails, Executes, NoStarter, svars
  <2>2. NoProcess(c)'
    BY <2>1 DEF IdleLeavesNoProcess, NoProcess
  <2>3. ASSUME NEW d \in Callers, d # c PROVE Kept(d)
    <3>1. starter' = starter \/ \E s : starter' = [starter EXCEPT ![c] = s]
      BY <1>2 DEF Start, StartFireAndForget, FireAndForgetFails, StartAndRetry,
                  RegisterFails, StartFails
    <3>2. \E s : status' = [status EXCEPT ![c] = s]
      BY <1>2 DEF Start, StartFireAndForget, FireAndForgetFails, StartAndRetry,
                  RegisterFails, StartFails
    <3> QED
      BY <2>1, <2>3, <3>1, <3>2 DEF TypeOK
  <2> QED
    BY <2>1, <2>2, <2>3, ProcessKept
<1>3. ASSUME NEW c \in Callers, Invoked(c) \/ Retried(c) PROVE Inv'
  <2>1. /\ command' = command /\ status' = status /\ deleted' = deleted
        /\ starter[c].phase # "none"
    BY <1>3 DEF Invoked, Retried, svars
  <2>2. /\ \A d \in Callers : d # c => process'[d] = process[d]
        /\ \A d \in Callers : starter'[d].forget = starter[d].forget
    BY <1>3, InvokedForget DEF TypeOK
  <2>3. ~starter[c].forget => command[c] = "executing" /\ status[c] # "KErrGeneral"
    BY <2>1 DEF CallersEntered, Observed, Waiting
  <2> QED
    BY <2>1, <2>2, <2>3, ProcessKept
<1>4. ASSUME NEW c \in Callers, RendezvousComplete(c) PROVE Inv'
  <2>1. Observed(c) /\ Waiting(c) /\ starter[c].index = callerIndex[c]
    BY <1>4 DEF RendezvousComplete, Finished, CallersEntered, Observed, Entered
  <2>2. /\ starter' = [starter EXCEPT ![c] = NoStarter]
        /\ status' = [status EXCEPT ![c] = Code(c)]
        /\ process' = [process EXCEPT ![c] = ProcessAfter(c)]
        /\ command' = command /\ deleted' = deleted
    BY <1>4, <2>1, DeRegisterTypes DEF RendezvousComplete, DeRegisterCall, Complete
  <2>3. \/ NoProcess(c)'
        \/ command'[c] = "executing" /\ status'[c] # "KErrGeneral"
    BY <2>1, <2>2, CodeFacts DEF NoProcess, TypeOK, Waiting
  <2>4. \A d \in Callers : d # c => Kept(d)
    BY <2>2 DEF TypeOK
  <2> QED
    BY <2>2, <2>3, <2>4, ProcessKept
<1>5. ASSUME NEW c \in Callers, Forget(c) PROVE Inv'
  <2>1. NoProcess(c)' /\ deleted' = deleted
    BY <1>5 DEF Forget, TypeOK, NoProcess, svars
  <2>2. \A d \in Callers : d # c => Kept(d)
    BY <1>5 DEF Forget, TypeOK
  <2> QED
    BY <2>1, <2>2, ProcessKept
<1>6. ASSUME NEW c \in Callers, NEW code \in {"KErrNone", "KErrGeneral"},
             NotifyTimeout(c, code)
               \/ \E p \in {"ready", "exited", "panicked"} : ProcessSignals(c, p, code)
      PROVE  Inv'
  <2>1. /\ command' = command /\ status' = status /\ deleted' = deleted
        /\ starter[c].phase # "none"
        /\ \E p : process' = [process EXCEPT ![c] = p]
    BY <1>6 DEF NotifyTimeout, TimerExpires, ProcessSignals, svars
  <2>2. \A d \in Callers : starter'[d].forget = starter[d].forget
    <3> DEFINE s1 == [starter[c] EXCEPT !.phase = "signalled", !.code = code]
               s2 == [starter[c] EXCEPT !.phase = "signalled", !.code = code, !.timer = "idle"]
    <3>1. starter[c] \in Starters
      BY DEF TypeOK
    <3>2. s1.forget = starter[c].forget /\ s2.forget = starter[c].forget
      BY <3>1 DEF Starters
    <3>3. starter' = [starter EXCEPT ![c] = s1] \/ starter' = [starter EXCEPT ![c] = s2]
      BY <1>6 DEF NotifyTimeout, ProcessSignals, TypeOK
    <3> HIDE DEF s1, s2
    <3> QED
      BY <3>2, <3>3 DEF TypeOK
  <2>3. ~starter[c].forget => command[c] = "executing" /\ status[c] # "KErrGeneral"
    BY <2>1 DEF CallersEntered, Observed, Waiting
  <2> QED
    BY <2>1, <2>2, <2>3, ProcessKept DEF TypeOK
<1>7. ASSUME NEW c \in Callers, NEW p \in {"exited", "panicked"}, ProcessEnds(c, p)
      PROVE  Inv'
  <2>1. NoProcess(c)' /\ deleted' = deleted
    BY <1>7 DEF ProcessEnds, TypeOK, NoProcess, svars
  <2>2. \A d \in Callers : d # c => Kept(d)
    BY <1>7 DEF ProcessEnds, TypeOK
  <2> QED
    BY <2>1, <2>2, ProcessKept
<1>8. ASSUME NEW c \in Callers, CommandRunL(c) \/ CancelNothing(c) PROVE Inv'
  <2>1. status[c] # "KRequestPending"
    BY <1>8 DEF CommandRunL, CancelNothing, Cancels, CallersEntered, Waiting, Entered
  <2>2. /\ CommandEnds(c) /\ deleted' = deleted /\ starter' = starter
        /\ status' = [status EXCEPT ![c] = "idle"]
    BY <1>8, <2>1 DEF CommandRunL, CancelNothing, svars
  <2>3. NoProcess(c)' \/ starter'[c].forget
    BY <2>2 DEF CommandEnds, TypeOK, NoProcess
  <2>4. \A d \in Callers : d # c => Kept(d)
    BY <2>2 DEF CommandEnds, TypeOK
  <2> QED
    BY <2>2, <2>3, <2>4, ProcessKept
<1>9. ASSUME NEW c \in Callers, NEW i, CancelEntry(c, i) PROVE Inv'
  <2>1. PICK d \in Callers :
          /\ Waiting(d) /\ i = callerIndex[d] /\ DeRegisterCall(i)
          /\ Waiting(c) => d = c
          /\ CommandEnds(c)
          /\ status' = [status EXCEPT ![d] = CancellationCode(d), ![c] = "idle"]
    BY <1>9, CancelFacts
  <2>2. starter' = [starter EXCEPT ![d] = NoStarter] /\ deleted' = deleted
    BY <2>1, DeRegisterTypes DEF DeRegisterCall
  <2>3. ~starter[d].forget /\ command[d] = "executing"
    BY <2>1 DEF CallersEntered, Observed, Waiting
  <2>4. NoProcess(c)' \/ starter'[c].forget
    BY <2>1, <2>2, <2>3 DEF CommandEnds, TypeOK, NoProcess
  <2>5. d # c => \/ NoProcess(d)'
                 \/ command'[d] = "executing" /\ status'[d] # "KErrGeneral"
    BY <2>1, <2>3, CodeFacts DEF CommandEnds, TypeOK, NoProcess
  <2>6. \A e \in Callers : e # c /\ e # d => Kept(e)
    BY <2>1, <2>2 DEF CommandEnds, TypeOK
  <2> QED
    BY <2>2, <2>4, <2>5, <2>6, ProcessKept
<1>10. ASSUME DeleteStartSafe PROVE Inv'
  <2>1. /\ deleted' /\ command' = command /\ process' = process
        /\ \A c \in Callers : ~Waiting(c) => starter'[c] = starter[c]
    BY <1>10 DEF DeleteStartSafe, CallersEntered, Entered
  <2>2. ASSUME NEW c \in Callers
        PROVE  \/ NoProcess(c)' \/ starter'[c].forget \/ command'[c] = "executing"
    BY <2>1 DEF IdleLeavesNoProcess, NoProcess, Waiting, TypeOK, CallersEntered
  <2> QED
    BY <2>1, <2>2, ProcessKept
<1> QED
  BY <1>1, <1>2, <1>3, <1>4, <1>5, <1>6, <1>7, <1>8, <1>9, <1>10
     DEF Next, StarterRuns, FireAndForgetEnds, FireAndForgetLeaves, TimerRunL, ProcessStep,
         NotifyTimeoutForget, StartCancel

(***************************************************************************)
(* A start that fails has terminated its process, whichever attempt it was *)
(* and whoever cancels.                                                    *)
(***************************************************************************)
THEOREM FailuresEndProcesses == Spec => []FailureLeavesNoProcess
<1>1. Init => FailureLeavesNoProcess /\ IdleLeavesNoProcess
  BY InitProcess
<1> QED
  BY <1>1, NextProcess, Invariance, PTL DEF Spec


-----------------------------------------------------------------------------
(***************************************************************************)
(* A request is pending only while its command is active.                  *)
(***************************************************************************)
PendingExecutes == \A c \in Callers : status[c] = "KRequestPending" => command[c] = "executing"

LEMMA InitPending == Init => PendingExecutes
BY DEF Init, PendingExecutes

LEMMA NextPending == IInv /\ PendingExecutes /\ [Next]_vars => PendingExecutes'
<1> SUFFICES ASSUME IInv, PendingExecutes, [Next]_vars PROVE PendingExecutes'
  OBVIOUS
<1> USE DEF IInv
<1>1. CASE UNCHANGED vars
  BY <1>1 DEF vars, PendingExecutes
<1>2. ASSUME NEW c \in Callers, NEW p \in StartupProperties[c], Start(c, p)
      PROVE  PendingExecutes'
  <2>1. command' = [command EXCEPT ![c] = "executing"]
    BY <1>2 DEF Start, StartFireAndForget, FireAndForgetFails, StartAndRetry,
                RegisterFails, StartFails, Executes, TypeOK
  <2>2. \E s : status' = [status EXCEPT ![c] = s]
    BY <1>2 DEF Start, StartFireAndForget, FireAndForgetFails, StartAndRetry,
                RegisterFails, StartFails
  <2> QED
    BY <2>1, <2>2 DEF PendingExecutes, TypeOK
<1>3. ASSUME NEW c \in Callers, RendezvousComplete(c) PROVE PendingExecutes'
  <2>1. command' = command /\ \E d : status' = [status EXCEPT ![d] = Code(c)]
    BY <1>3 DEF RendezvousComplete, Complete
  <2>2. Code(c) # "KRequestPending"
    BY CodeFacts
  <2> QED
    BY <2>1, <2>2 DEF PendingExecutes, TypeOK
<1>4. ASSUME NEW c \in Callers, CommandRunL(c) \/ CancelNothing(c) PROVE PendingExecutes'
  <2>1. status[c] # "KRequestPending"
    BY <1>4 DEF CommandRunL, CancelNothing, Cancels, CallersEntered, Waiting, Entered
  <2>2. /\ command' = [command EXCEPT ![c] = "idle"]
        /\ status' = [status EXCEPT ![c] = "idle"]
    BY <1>4, <2>1 DEF CommandRunL, CancelNothing, CommandEnds
  <2> QED
    BY <2>2 DEF PendingExecutes, TypeOK
<1>5. ASSUME NEW c \in Callers, NEW i, CancelEntry(c, i) PROVE PendingExecutes'
  <2>1. PICK d \in Callers :
          /\ CommandEnds(c)
          /\ status' = [status EXCEPT ![d] = CancellationCode(d), ![c] = "idle"]
    BY <1>5, CancelFacts
  <2>2. CancellationCode(d) # "KRequestPending"
    BY DEF CancellationCode
  <2> QED
    BY <2>1, <2>2 DEF PendingExecutes, TypeOK, CommandEnds
<1>6. ASSUME DeleteStartSafe PROVE PendingExecutes'
  <2>1. \A c \in Callers : CancellationCode(c) # "KRequestPending"
    BY DEF CancellationCode
  <2> QED
    BY <1>6, <2>1 DEF DeleteStartSafe, PendingExecutes
<1>7. ASSUME command' = command, status' = status PROVE PendingExecutes'
  BY <1>7 DEF PendingExecutes
<1> QED
  BY <1>1, <1>2, <1>3, <1>4, <1>5, <1>6, <1>7
     DEF Next, StarterRuns, Invoked, Retried, FireAndForgetEnds, FireAndForgetLeaves, Forget,
         TimerRunL, NotifyTimeout, NotifyTimeoutForget, ProcessStep, ProcessSignals,
         ProcessEnds, StartCancel

(***************************************************************************)
(* What answers a start that waits with an error: its own observer, when   *)
(* it has no attempt left; the end of the session; or another command,     *)
(* that has been answered and cancels with the index it had.               *)
(***************************************************************************)
Spared(c) ==
  \/ starter[c].phase = "signalled" /\ ~GoodStart(c) /\ starter[c].retries = 0
  \/ deleted'
  \/ \E d \in Callers : /\ command[d] = "executing" /\ command'[d] = "idle"
                        /\ status[d] # "KRequestPending"

LEMMA StepSpares ==
  ASSUME IInv, PendingExecutes, Next, NEW c \in Callers,
         status[c] = "KRequestPending", status'[c] \in {"KErrCancel", "KErrGeneral"}
  PROVE  Spared(c)
<1> USE DEF IInv
<1>1. ASSUME NEW d \in Callers, NEW p \in StartupProperties[d], Start(d, p) PROVE FALSE
  <2>1. command[d] = "idle" /\ \E s : status' = [status EXCEPT ![d] = s]
    BY <1>1 DEF Start, StartFireAndForget, FireAndForgetFails, StartAndRetry,
                RegisterFails, StartFails, Executes
  <2>2. d # c
    BY <2>1 DEF PendingExecutes
  <2> QED
    BY <2>1, <2>2 DEF TypeOK
<1>2. ASSUME NEW d \in Callers, RendezvousComplete(d) PROVE Spared(c)
  <2>1. Waiting(d) /\ starter[d].index = callerIndex[d] /\ Finished(d)
    BY <1>2 DEF RendezvousComplete, Finished, CallersEntered, Observed, Entered
  <2>2. status' = [status EXCEPT ![d] = Code(d)]
    BY <1>2, <2>1, DeRegisterTypes DEF RendezvousComplete, Complete
  <2>3. d = c
    BY <2>2 DEF TypeOK
  <2>4. ~GoodStart(c)
    BY <2>2, <2>3, CodeFacts DEF TypeOK
  <2>5. starter[c].retries = 0
    <3>1. starter[c].retries \in Nat /\ ~(starter[c].retries > 0)
      BY <2>1, <2>3, <2>4 DEF Finished, RetriesLeft, TypeOK, Starters
    <3> QED
      BY <3>1
  <2> QED
    BY <2>1, <2>3, <2>4, <2>5 DEF Spared, Finished
<1>3. ASSUME NEW d \in Callers, CommandRunL(d) \/ CancelNothing(d) PROVE FALSE
  <2>1. status[d] # "KRequestPending"
    BY <1>3 DEF CommandRunL, CancelNothing, Cancels, CallersEntered, Waiting, Entered
  <2>2. status' = [status EXCEPT ![d] = "idle"]
    BY <1>3, <2>1 DEF CommandRunL, CancelNothing
  <2> QED
    BY <2>2 DEF TypeOK
<1>4. ASSUME NEW d \in Callers, NEW i, CancelEntry(d, i) PROVE Spared(c)
  <2>1. PICK e \in Callers :
          /\ Waiting(d) => e = d
          /\ CommandEnds(d)
          /\ status' = [status EXCEPT ![e] = CancellationCode(e), ![d] = "idle"]
    BY <1>4, CancelFacts
  <2>2. c = e /\ c # d
    BY <2>1 DEF TypeOK
  <2>3. command[d] = "executing" /\ command'[d] = "idle"
    BY <1>4, <2>1 DEF CancelEntry, Cancels, CommandEnds, TypeOK
  <2>4. status[d] # "KRequestPending"
    BY <2>1, <2>2, <2>3 DEF Waiting
  <2> QED
    BY <2>3, <2>4 DEF Spared
<1>5. ASSUME DeleteStartSafe PROVE Spared(c)
  BY <1>5 DEF DeleteStartSafe, Spared
<1>6. status' # status
  OBVIOUS
<1> QED
  BY <1>1, <1>2, <1>3, <1>4, <1>5, <1>6
     DEF Next, StarterRuns, Invoked, Retried, FireAndForgetEnds, FireAndForgetLeaves, Forget,
         TimerRunL, NotifyTimeout, NotifyTimeoutForget, ProcessStep, ProcessSignals,
         ProcessEnds, StartCancel

(***************************************************************************)
(* A command's start is answered on behalf of another one only when that   *)
(* one has been answered already, or the session goes.                     *)
(***************************************************************************)
THEOREM PendingSpared == Spec => CancelSparesPending
<1>1. Init => PendingExecutes
  BY InitPending
<1>2. IInv /\ PendingExecutes /\ [Next]_vars =>
        [\A c \in Callers :
           status[c] = "KRequestPending" /\ status'[c] \in {"KErrCancel", "KErrGeneral"}
             => \/ starter[c].phase = "signalled" /\ ~GoodStart(c) /\ starter[c].retries = 0
                \/ deleted'
                \/ \E d \in Callers : /\ command[d] = "executing" /\ command'[d] = "idle"
                                     /\ status[d] # "KRequestPending"]_vars
  BY StepSpares DEF Spared
<1> QED
  BY <1>1, <1>2, NextPending, Invariance, PTL DEF Spec, CancelSparesPending
=============================================================================
