---------------------------- MODULE StockBalance ----------------------------
(***************************************************************************)
(* One row of inventory_balances: the stock of one product in the (single) *)
(* warehouse, split into what is on hand, what is reserved for orders,     *)
(* what is quarantined as damaged, and the stored figure of what is        *)
(* available.  Every service that touches the row takes its row lock,      *)
(* computes the new row with one of the operators below and writes it back *)
(* in the same transaction; PostgreSQL refuses the write when a CHECK      *)
(* constraint of the table fails, and the transaction rolls back.          *)
(***************************************************************************)
EXTENDS Integers

Balance == [onHand : Nat, reserved : Nat, available : Nat, damaged : Nat]

Max0(n) == IF n > 0 THEN n ELSE 0

Lesser(m, n) == IF m < n THEN m ELSE n

(***************************************************************************)
(* InventoryBalance::calculateAvailableQuantity, and the assignment every  *)
(* service but completeDelivery makes after changing another column.       *)
(***************************************************************************)
CalculateAvailable(b) == Max0(b.onHand - b.reserved - b.damaged)

Recomputed(b) == [b EXCEPT !.available = CalculateAvailable(b)]

(* The three CHECK constraints of the table. *)
SatisfiesChecks(b) ==
  /\ b.onHand >= 0 /\ b.reserved >= 0 /\ b.available >= 0 /\ b.damaged >= 0
  /\ b.reserved + b.damaged <= b.onHand
  /\ b.available = b.onHand - b.reserved - b.damaged

-----------------------------------------------------------------------------
(* Reservations: InventoryService. *)

Reserve(b, q) == Recomputed([b EXCEPT !.reserved = @ + q])

Release(b, q) ==
  LET actual == Lesser(b.reserved, q)
  IN  IF actual <= 0 THEN b
      ELSE Recomputed([b EXCEPT !.reserved = Max0(@ - actual)])

(* The stock a completed delivery takes out: DeliveryWorkflowService.  The  *)
(* stored available figure is computed here without the damaged column.    *)
Relieve(b, q) ==
  LET left == [b EXCEPT !.onHand = Max0(@ - q), !.reserved = Max0(@ - q)]
  IN  [left EXCEPT !.available = Max0(left.onHand - left.reserved)]

-----------------------------------------------------------------------------
(* Manual adjustments: InventoryAdjustmentService. *)

AdjustmentTypes ==
  {"INCREASE_ON_HAND", "DECREASE_ON_HAND", "TRANSFER_TO_DAMAGED", "DAMAGE_DISPOSAL"}

MayAdjust(b, type, q) ==
  CASE type = "INCREASE_ON_HAND" -> TRUE
    [] type \in {"DECREASE_ON_HAND", "TRANSFER_TO_DAMAGED"} -> b.available >= q
    [] type = "DAMAGE_DISPOSAL" -> b.damaged >= q

AdjustedButScrapKept(b, type, q) ==  \* mutated
  Recomputed(
    CASE type = "INCREASE_ON_HAND"    -> [b EXCEPT !.onHand = @ + q]
      [] type = "DECREASE_ON_HAND"    -> [b EXCEPT !.onHand = @ - q]
      [] type = "TRANSFER_TO_DAMAGED" -> [b EXCEPT !.damaged = @ + q]
      [] type = "DAMAGE_DISPOSAL"     -> [b EXCEPT !.damaged = @ - q])

Adjusted(b, type, q) ==
  Recomputed(
    CASE type = "INCREASE_ON_HAND"    -> [b EXCEPT !.onHand = @ + q]
      [] type = "DECREASE_ON_HAND"    -> [b EXCEPT !.onHand = @ - q]
      [] type = "TRANSFER_TO_DAMAGED" -> [b EXCEPT !.damaged = @ + q]
      [] type = "DAMAGE_DISPOSAL"     -> [b EXCEPT !.damaged = @ - q, !.onHand = @ - q])

-----------------------------------------------------------------------------
(* Quarantine: StockExceptionService.  A source is AVAILABLE or RESERVED.   *)

MayQuarantine(b, source, q) ==
  IF source = "AVAILABLE" THEN b.available >= q ELSE b.reserved >= q

Quarantined(b, source, q) ==
  Recomputed(
    IF source = "AVAILABLE"
    THEN [b EXCEPT !.damaged = @ + q]
    ELSE [b EXCEPT !.reserved = Max0(@ - q), !.damaged = @ + q])

RevertedToAvailable(b, source, q) ==  \* mutated
  Recomputed([b EXCEPT !.damaged = Max0(@ - q)])

RevertedInFull(b, source, q) ==  \* mutated
  Recomputed(
    IF source = "RESERVED"
    THEN [b EXCEPT !.damaged = Max0(@ - q), !.reserved = @ + q]
    ELSE [b EXCEPT !.damaged = Max0(@ - q)])

Reverted(b, source, q) ==
  LET actual == Lesser(b.damaged, q)
  IN  IF actual <= 0 THEN b
      ELSE Recomputed(
             IF source = "RESERVED"
             THEN [b EXCEPT !.damaged = Max0(@ - actual), !.reserved = @ + actual]
             ELSE [b EXCEPT !.damaged = Max0(@ - actual)])
=============================================================================
