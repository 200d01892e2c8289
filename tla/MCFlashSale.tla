---------------------------- MODULE MCFlashSale ----------------------------
(* Two connections and four orders racing for fewer items: a places two    *)
(* orders one by one, b a stress test of two.                              *)
EXTENDS FlashSale

CONSTANTS a, b, a1, a2, b1, b2

MCBy == [o \in Orders |-> IF o \in {a1, a2} THEN a ELSE b]
MCBatch == [c \in Clients |-> IF c = b THEN <<b1, b2>> ELSE <<>>]
=============================================================================
