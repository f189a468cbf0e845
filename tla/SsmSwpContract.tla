--------------------------- MODULE SsmSwpContract ---------------------------
(***************************************************************************)
(* What the System State Manager promises the clients that request changes *)
(* of system wide properties: the requests for one property stand in line, *)
(* in the order they came, and the first one is at work; other properties  *)
(* have lines of their own.  A request is answered at most once, and only  *)
(* the first one of its line is answered other than by a cancellation.     *)
(* Implemented by SsmSwpTransitionEngine.                                  *)
(***************************************************************************)
EXTENDS SequenceFilter

CONSTANTS Requests, Keys, Sessions, SessionOf

VARIABLES
  keyOf,    \* the property each request is about, which stays as it is
  line,     \* the requests for each property, the first one at work
  outcome,  \* the answer to each request: "waiting" if it is still to come
  stopped   \* the device is being reset

cvars == <<keyOf, line, outcome, stopped>>

Refusals == {"KErrNotSupported", "KErrNoMemory"}
InLine(r) == \E k \in Keys : \E i \in DOMAIN line[k] : line[k][i] = r
First(k) == IF line[k] = <<>> THEN {} ELSE {Head(line[k])}

Init ==
  /\ keyOf \in [Requests -> Keys]
  /\ line = [k \in Keys |-> <<>>]
  /\ outcome = [r \in Requests |-> "none"]
  /\ stopped = FALSE

\* Only a request that is first in its line at once can be lost.
Submit(r) ==
  /\ ~InLine(r) /\ outcome[r] \notin {"waiting", "lost"}
  /\ line' = [line EXCEPT ![keyOf[r]] = Append(@, r)]
  /\ \/ outcome' = [outcome EXCEPT ![r] = "waiting"]
     \/ line[keyOf[r]] = <<>> /\ outcome' = [outcome EXCEPT ![r] = "lost"]

Reject(r) ==
  /\ ~InLine(r) /\ outcome[r] \notin {"waiting", "lost"}
  /\ outcome' = [outcome EXCEPT ![r] = "KErrNoMemory"]
  /\ UNCHANGED line

Answer(k) ==
  \E r \in First(k), code \in Refusals \cup {"KErrNone"} :
    /\ outcome[r] = "waiting"
    /\ outcome' = [outcome EXCEPT ![r] = code]
    /\ UNCHANGED line

\* The requests that become the first of their line may find no memory at once.
NewFirst ==
  {Head(line'[k]) : k \in {j \in Keys : /\ line'[j] # <<>>
                                        /\ Head(line'[j]) \notin First(j)}}

Tell(answers) ==
  \E failed \in SUBSET NewFirst :
    outcome' = [r \in Requests |-> IF r \in failed THEN "KErrNoMemory" ELSE answers[r]]

\* The first one has its answer, and is done.
Leave(k) ==
  /\ \E r \in First(k) : outcome[r] # "waiting"
  /\ line' = [line EXCEPT ![k] = Tail(@)]
  /\ Tell(outcome)

(***************************************************************************)
(* Session s withdraws what has not been accepted.  One that is first may  *)
(* be told that it was accepted, or that who was to withdraw it is gone.   *)
(***************************************************************************)
Withdraw(s) ==
  LET stay == {r \in Requests : SessionOf[r] # s \/ outcome[r] = "KErrNone"}
      open == {r \in Requests \ stay : InLine(r) /\ outcome[r] = "waiting"}
      heads == UNION {First(k) : k \in Keys}
  IN  /\ line' = [k \in Keys |-> Only(line[k], stay)]
      /\ \E told \in [open \cap heads -> {"KErrCancel", "KErrNone", "KErrServerTerminated"}] :
           Tell([r \in Requests |-> CASE r \in open \cap heads -> told[r]
                                      [] r \in open \ heads -> "KErrCancel"
                                      [] OTHER -> outcome[r]])

Act ==
  \/ \E r \in Requests : Submit(r) \/ Reject(r)
  \/ \E k \in Keys : Answer(k) \/ Leave(k)
  \/ \E s \in Sessions : Withdraw(s)

\* A reset of the device ends everything.
Next ==
  /\ ~stopped
  /\ \/ Act /\ UNCHANGED stopped
     \/ stopped' = TRUE
  /\ UNCHANGED keyOf

Spec == Init /\ [][Next]_cvars
=============================================================================
