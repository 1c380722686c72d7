----------------------------- MODULE StockDesk -----------------------------
(***************************************************************************)
(* The inventory desk beside the order flow: manual adjustments of a       *)
(* balance row, and stock exceptions, which quarantine pieces that were    *)
(* available or reserved and are later resolved or dismissed, the latter   *)
(* with or without putting the pieces back.                                *)
(*                                                                         *)
(* Every operation of the desk is one transaction that locks the balance   *)
(* row (a review locks the exception's row first); it knows nothing of the *)
(* orders whose reservations the row sums up, and the order flow knows     *)
(* nothing of exceptions.  An adjustment sent with an outdated version of  *)
(* the row is refused and changes nothing.                                 *)
(***************************************************************************)
EXTENDS OrderFulfillment

CONSTANTS
  Exceptions,   \* bound: the stock_exceptions rows there may be
  MaxPieces     \* bound: pieces adjusted by hand of one kind

ASSUME ExceptionsAssumption == IsFiniteSet(Exceptions)

ASSUME MaxPiecesAssumption == MaxPieces \in Nat

VARIABLES
  exception,  \* stock_exceptions, with the sum of their DAMAGE_RELEASE movements
  adjusted    \* sums of the inventory_adjustments rows of a product, by type

deskVars == <<exception, adjusted>>
stockVars == <<order, line, alloc, mission, balance, shipped, exception, adjusted>>

Sources == {"AVAILABLE", "RESERVED"}

NoException == [status |-> "NONE"]

ExceptionRows == [status : {"PENDING_REVIEW", "RESOLVED", "DISMISSED"},
                  product : Products, source : Sources, quantity : Nat \ {0}, reverted : Nat]

Reported == {e \in Exceptions : exception[e] # NoException}

DeskInit ==
  /\ Init
  /\ exception = [e \in Exceptions |-> NoException]
  /\ adjusted = [p \in Products |-> [type \in AdjustmentTypes |-> 0]]

-----------------------------------------------------------------------------
(* InventoryAdjustmentService::adjustBalance. *)
AdjustBalance(p, type, q) ==
  /\ MayAdjust(balance[p], type, q)
  /\ adjusted[p][type] + q <= MaxPieces
  /\ balance' = [balance EXCEPT ![p] = Adjusted(@, type, q)]
  /\ adjusted' = [adjusted EXCEPT ![p][type] = @ + q]
  /\ UNCHANGED <<order, line, alloc, mission, shipped, exception>>

(* StockExceptionService::reportException, from whatever source state the
   reporter names. *)
ReportException(e, p, source, q) ==
  /\ e \notin Reported
  /\ MayQuarantine(balance[p], source, q)
  /\ balance' = [balance EXCEPT ![p] = Quarantined(@, source, q)]
  /\ exception' = [exception EXCEPT ![e] =
       [status |-> "PENDING_REVIEW", product |-> p, source |-> source, quantity |-> q, reverted |-> 0]]
  /\ UNCHANGED <<order, line, alloc, mission, shipped, adjusted>>

(* A resolution moves no stock: scrapping the pieces is an adjustment of its own. *)
ResolveException(e) ==
  /\ e \in Reported /\ exception[e].status = "PENDING_REVIEW"
  /\ exception' = [exception EXCEPT ![e].status = "RESOLVED"]
  /\ UNCHANGED <<order, line, alloc, mission, balance, shipped, adjusted>>

RevertQuarantine(e) ==
  LET p == exception[e].product
      q == exception[e].quantity
  IN  /\ balance' = [balance EXCEPT ![p] = Reverted(@, exception[e].source, q)]
      /\ exception' = [exception EXCEPT
           ![e].status = "DISMISSED", ![e].reverted = @ + Lesser(balance[p].damaged, q)]

DismissAgain(e, revert) ==  \* mutated
  /\ e \in Reported /\ revert
  /\ RevertQuarantine(e)
  /\ UNCHANGED <<order, line, alloc, mission, shipped, adjusted>>

DismissException(e, revert) ==
  /\ e \in Reported /\ exception[e].status = "PENDING_REVIEW"
  /\ \/ revert /\ RevertQuarantine(e)
     \/ /\ ~revert
        /\ exception' = [exception EXCEPT ![e].status = "DISMISSED"]
        /\ UNCHANGED balance
  /\ UNCHANGED <<order, line, alloc, mission, shipped, adjusted>>

-----------------------------------------------------------------------------
(* Quantities worth distinguishing: no movement exceeds what is on hand but an
   increase, which MaxPieces bounds. *)
Pieces(p) == 1 .. IF balance[p].onHand > MaxPieces THEN balance[p].onHand ELSE MaxPieces

DeskStep ==
  \/ \E p \in Products, q \in 1 .. MaxPieces, type \in AdjustmentTypes : AdjustBalance(p, type, q)
  \/ \E e \in Exceptions, p \in Products, source \in Sources : \E q \in Pieces(p) :
       ReportException(e, p, source, q)
  \/ \E e \in Exceptions : ResolveException(e)
  \/ \E e \in Exceptions, revert \in BOOLEAN : DismissException(e, revert)

DeskNext ==
  \/ Next /\ UNCHANGED deskVars
  \/ DeskStep

DeskSpec == DeskInit /\ [][DeskNext]_stockVars

-----------------------------------------------------------------------------
(* Properties.  BalancesKeepChecks of OrderFulfillment is checked here again,
   with the desk's writers among the others and with damaged pieces, of which
   completeDelivery knows nothing. *)

(* Every column of the desk's rows keeps its type beside the order flow's. *)
DeskTypeOK ==
  /\ TypeOK
  /\ exception \in [Exceptions -> ExceptionRows \cup {NoException}]
  /\ adjusted \in [Products -> [AdjustmentTypes -> Nat]]

(* Quarantined pieces are given back once, by the dismissal of their own report,
   and never more than it quarantined, although other pieces of the product may
   have been quarantined or scrapped since. *)
QuarantineRevertedOnce ==
  \A e \in Reported :
    /\ exception[e].reverted <= exception[e].quantity
    /\ exception[e].reverted > 0 => exception[e].status = "DISMISSED"

ReportedOf(p, sources) ==
  {e \in Reported : exception[e].product = p /\ exception[e].source \in sources}

Kept == [e \in Reported |-> exception[e].quantity - exception[e].reverted]

Quarantine(p, sources) == SumFunctionOnSet(Kept, ReportedOf(p, sources))

(* The movement ledger explains the row: the damaged pieces are those reports and
   adjustments put there, less those scrapped or put back; and what is on hand
   is what came in less what went out, except that deliveries of more than an
   order holds, or of pieces a report took from a reservation, may take fewer
   pieces than they record. *)
MovementsExplainStock ==
  \A p \in Products :
    LET net == InitialBalance[p].onHand - ShippedStock(p) + adjusted[p]["INCREASE_ON_HAND"]
                 - adjusted[p]["DECREASE_ON_HAND"] - adjusted[p]["DAMAGE_DISPOSAL"]
    IN  /\ balance[p].damaged = InitialBalance[p].damaged + Quarantine(p, Sources)
             + adjusted[p]["TRANSFER_TO_DAMAGED"] - adjusted[p]["DAMAGE_DISPOSAL"]
        /\ balance[p].onHand >= net
        /\ NeverOvershipped /\ ReportedOf(p, {"RESERVED"}) = {} => balance[p].onHand = net

(* Every piece orders hold is still reserved, or a report that took it from a
   reservation has not put it back: cancellations, deliveries, adjustments and
   dismissals lose none. *)
HeldIsReservedOrQuarantined ==
  NeverOvershipped =>
    \A p \in Products :
      balance[p].reserved + Quarantine(p, {"RESERVED"}) >= InitialBalance[p].reserved + HeldStock(p)
=============================================================================
