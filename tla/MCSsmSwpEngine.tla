--------------------------- MODULE MCSsmSwpEngine ---------------------------
EXTENDS SsmSwpTransitionEngine

CONSTANTS r1, r2, r3, s1, s2

MCRequests == {r1, r2, r3}
MCSessions == {s1, s2}
MCSessionOf == [r \in MCRequests |-> IF r = r2 THEN s2 ELSE s1]

\* The keys are on both sides of the end of the range: 7 comes before 1.
MCKeyRange == 8
MCKeys == {7, 1}

\* All the requests are about one property, or one is about another.
MCChanges == {[r \in MCRequests |-> 7], [r \in MCRequests |-> IF r = r3 THEN 1 ELSE 7]}
=============================================================================
