--------------------------- MODULE MCOrderBuilder ---------------------------
(* Instances of OrderBuilder for TLC: one customer, one product. *)
EXTENDS BuilderClaims, TLC

TabsAlike == Permutations(Tabs)
=============================================================================
