---------------------------- MODULE StockLedger ----------------------------
(***************************************************************************)
(* What a flash sale promises: a fixed number of items, each order gets    *)
(* one item or is refused, once and for all, and no order is refused while *)
(* an item remains.  FlashSale implements it.                              *)
(***************************************************************************)
EXTENDS Naturals

CONSTANTS Orders, Stock0

VARIABLES remaining, outcome

Init == remaining = Stock0 /\ outcome = [o \in Orders |-> "open"]

Sell(o) ==
  /\ outcome[o] = "open" /\ remaining > 0
  /\ outcome' = [outcome EXCEPT ![o] = "sold"]
  /\ remaining' = remaining - 1

Refuse(o) ==
  /\ outcome[o] = "open" /\ remaining = 0
  /\ outcome' = [outcome EXCEPT ![o] = "refused"]
  /\ UNCHANGED remaining

Next == \E o \in Orders : Sell(o) \/ Refuse(o)

Spec == Init /\ [][Next]_<<remaining, outcome>>
=============================================================================
