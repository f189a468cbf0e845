---------------------------- MODULE MCSsmEngine ----------------------------
(***************************************************************************)
(* Three requests on two sessions, the first two on the same one, and two  *)
(* main states: enough for one request running, one queued and one that    *)
(* replaces either, for a session that owns both slots, and for a policy   *)
(* that is kept as well as one that is changed.                            *)
(***************************************************************************)
EXTENDS SsmStateTransitionEngine, TLC

CONSTANTS r1, r2, r3, s1, s2

MCSessionOf == r1 :> s1 @@ r2 :> s1 @@ r3 :> s2
=============================================================================
