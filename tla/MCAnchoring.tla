----------------------------- MODULE MCAnchoring -----------------------------
(***************************************************************************)
(* Model-checking instances of Anchoring: two or three entries, batches of *)
(* two, one or two gateways, up to two faults.                             *)
(***************************************************************************)
EXTENDS Anchoring

CONSTANTS e1, e2, e3, g1, g2

Three == {e1, e2, e3}
Older == {e1, e2}
First == <<e1>>
One   == {g1}
Two   == {g1, g2}
Log    == {"log"}
Fabric == {"fabric"}
Both   == {"log", "fabric"}
=============================================================================
