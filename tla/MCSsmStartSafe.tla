--------------------------- MODULE MCSsmStartSafe ---------------------------
EXTENDS SsmStartSafe

CONSTANTS c1, c2, c3

MCCallers == {c1, c2, c3}

Wait(app, timeout, retries) ==
  [forget |-> FALSE, app |-> app, timeout |-> timeout, retries |-> retries]
Forgotten(app) == [forget |-> TRUE, app |-> app, timeout |-> TRUE, retries |-> 0]

MCProperties ==
  [c \in MCCallers |-> CASE c = c1 -> {Wait(TRUE, TRUE, 1), Forgotten(FALSE)}
                         [] c = c2 -> {Wait(FALSE, FALSE, 0)}
                         [] c = c3 -> {Wait(TRUE, FALSE, 0)}]
=============================================================================
