--------------------------- MODULE SupplierClaims ---------------------------
(***************************************************************************)
(* What the documents and the journal page say of a reversed journal.      *)
(***************************************************************************)
EXTENDS SupplierBooks

(* A journal is reversed by an equal and opposite one: afterwards every    *)
(* account reports what it would if neither had been posted.               *)
ReversalCancels ==
  \A account \in Accounts :
    Reported(journals, account) =
      Reported({j \in journals : j.type # "REVERSAL" /\ j.status = "POSTED"}, account)
=============================================================================
