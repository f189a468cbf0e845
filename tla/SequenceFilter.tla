--------------------------- MODULE SequenceFilter ---------------------------
(***************************************************************************)
(* What is left of a sequence when elements are removed: as SelectSeq, but *)
(* with the set of those that stay in the place of an operator, so that    *)
(* lemmas can be stated about it.                                          *)
(***************************************************************************)
EXTENDS Integers, Sequences

Elements(s) == {s[n] : n \in DOMAIN s}

Only(s, S) ==
  LET kept[n \in 0..Len(s)] ==
        IF n = 0 THEN <<>>
        ELSE IF s[n] \in S THEN Append(kept[n - 1], s[n])
        ELSE kept[n - 1]
  IN  kept[Len(s)]
=============================================================================
