------------------------------ MODULE MCPanels ------------------------------
(* A product, which is a hash of two rows, and the order queue, a list.     *)
EXTENDS Panels

CONSTANTS product, orders, r1, r2

MCInitial ==
  [k \in Keys |-> CASE k = product -> [type |-> "hash", rows |-> {r1, r2}]
                    [] k = orders -> [type |-> "list", rows |-> {r1}]
                    [] OTHER -> None]

MCOthers == {None, [type |-> "string", rows |-> {r2}], [type |-> "hash", rows |-> {r1}]}
=============================================================================
