---------------------------- MODULE BuilderClaims ----------------------------
(***************************************************************************)
(* What the repository says of order submission and the code of            *)
(* OrderBuilder does not keep.                                             *)
(***************************************************************************)
EXTENDS OrderBuilder

(* TEST_MATRIX.md, EDGE-002: a submission sent twice records its payment once.
   The replay of the order goes on to record the payment again, as long as
   the order is not fully paid. *)
ReplayCollectsOnce ==
  [][\A o \in Ids : Book!Live(o) /\ orders[o].status # "DRAFT" /\ orders[o].paid # 0
                    => orders'[o].paid = orders[o].paid]_vars
=============================================================================
