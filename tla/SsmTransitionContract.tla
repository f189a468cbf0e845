----------------------- MODULE SsmTransitionContract -----------------------
(***************************************************************************)
(* What the System State Manager promises the clients that request state   *)
(* transitions, with nothing of the phases, the policy DLL or the command  *)
(* list server: at most one transition is running and at most one waits.   *)
(* A request is answered once: KErrNone when its transition starts,        *)
(* KErrCancel if it is superseded or cancelled before that.  Only a        *)
(* transition that has been started ends, and the waiting one takes its    *)
(* place.  Implemented by SsmStateTransitionEngine.                        *)
(***************************************************************************)
CONSTANTS Requests, Sessions, SessionOf, Startup, None

VARIABLES
  running,   \* the request whose transition has the engine, or None
  waiting,   \* the request that runs next, or None
  outcome,   \* the answer to each request
  panicked   \* the device is being reset

cvars == <<running, waiting, outcome, panicked>>

IsWaitingForAnswer(r) == r \in Requests /\ outcome[r] = "pending"

\* The answers once the requests of the set who are told code, as far as they wait.
Tell(who, code) ==
  [r \in Requests |-> IF r \in who /\ outcome[r] = "pending" THEN code ELSE outcome[r]]

Owns(s, r) == r \in Requests /\ SessionOf[r] = s

Init ==
  /\ running = Startup
  /\ waiting = None
  /\ outcome = [r \in Requests |-> "unsent"]
  /\ panicked = FALSE

Reject(r) ==
  /\ outcome[r] = "unsent"
  /\ \E code \in {"KErrNotSupported", "KErrNoMemory"} :
       outcome' = [outcome EXCEPT ![r] = code]
  /\ UNCHANGED <<running, waiting, panicked>>

\* A request waits behind the running one, and supersedes the one that waited.
Enqueue(r) ==
  /\ outcome[r] = "unsent"
  /\ running # None
  /\ waiting' = r
  /\ outcome' = [Tell({waiting}, "KErrCancel") EXCEPT ![r] = "pending"]
  /\ UNCHANGED <<running, panicked>>

\* A request takes the engine, from both of the requests that had it.
Take(r) ==
  /\ outcome[r] = "unsent"
  /\ running' = r
  /\ waiting' = None
  /\ outcome' = [Tell({running, waiting}, "KErrCancel") EXCEPT ![r] = "pending"]
  /\ UNCHANGED panicked

\* There was no memory for the request that was to take the engine.
TakeNoMemory(r) ==
  /\ outcome[r] = "unsent"
  /\ running' = None
  /\ waiting' = None
  /\ outcome' = [Tell({running, waiting}, "KErrCancel") EXCEPT ![r] = "KErrNoMemory"]
  /\ UNCHANGED panicked

\* A session takes back what it has waiting, and what it has running as far as
\* the engine lets it: the choice of dropping running is the engine's.
Cancel(s) ==
  LET mine == {r \in {waiting} : Owns(s, r)}
      left == IF mine = {} THEN waiting ELSE None
  IN  \/ /\ waiting' = left
         /\ outcome' = Tell(mine, "KErrCancel")
         /\ UNCHANGED <<running, panicked>>
      \/ /\ Owns(s, running)
         /\ running' = left
         /\ waiting' = None
         /\ outcome' = Tell(mine \cup {running}, "KErrCancel")
         /\ UNCHANGED panicked

Start ==
  /\ IsWaitingForAnswer(running)
  /\ outcome' = Tell({running}, "KErrNone")
  /\ UNCHANGED <<running, waiting, panicked>>

Finish ==
  /\ running # None
  /\ ~IsWaitingForAnswer(running)
  /\ running' = waiting
  /\ waiting' = None
  /\ UNCHANGED <<outcome, panicked>>

\* The device resets; the running request may learn of its start or of an error.
Panic ==
  /\ running # None
  /\ panicked' = TRUE
  /\ \/ UNCHANGED outcome
     \/ \E code \in {"KErrNone", "error"} : outcome' = Tell({running}, code)
  /\ UNCHANGED <<running, waiting>>

Next ==
  /\ ~panicked
  /\ \/ \E r \in Requests : Reject(r) \/ Enqueue(r) \/ Take(r) \/ TakeNoMemory(r)
     \/ \E s \in Sessions : Cancel(s)
     \/ Start
     \/ Finish
     \/ Panic

Spec == Init /\ [][Next]_cvars
=============================================================================
