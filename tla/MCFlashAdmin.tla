---------------------------- MODULE MCFlashAdmin ----------------------------
(* Two desktops: one adjusts the stock and ends the flash sale of the      *)
(* product, the other starts it, deletes the product and adds it again;    *)
(* both connect, order and run stress tests.                               *)
EXTENDS FlashAdmin

CONSTANTS d1, d2

MCMenu == [d \in Desktops |-> IF d = d1 THEN {"adjust", "plain", "reload"}
                              ELSE {"flash", "delete", "add"}]
=============================================================================
