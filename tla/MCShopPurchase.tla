--------------------------- MODULE MCShopPurchase ---------------------------
(* Model values for ShopPurchase: one lot; a buyer who may reserve it again     *)
(* after a first reservation ended, and a guest.                                *)
EXTENDS ShopPurchase, TLC

CONSTANTS l1, b1

OneLot      == [p \in Purchases |-> l1]
BuyerAndGuest == [p \in Purchases |-> IF p = 3 THEN Anon ELSE b1]

\* The requests are alike.
SameRequests == Permutations(Requests)
=============================================================================
