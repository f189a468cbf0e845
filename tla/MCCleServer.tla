----------------------------- MODULE MCCleServer -----------------------------
(***************************************************************************)
(* Two clients: a slot can be freed below one in use, taken again, and     *)
(* trimmed together with the one above it.  The runs out of memory have a  *)
(* third, which fails to connect beside two that have.  Clients close and  *)
(* connect again without bound.                                            *)
(***************************************************************************)
EXTENDS CleServer

CONSTANTS c1, c2, c3

MCThreeClients == {c1, c2, c3}
MCClients == {c1, c2}
=============================================================================
