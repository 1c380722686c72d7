# Orders, stock and money of Unique Distributors, in TLA+

Unique Distributors is a Laravel application with an Inertia/React front end for a
wholesale distributor. Salesmen build orders for their customers, administrators review
them against the stock of one warehouse, the warehouse picks, packs and dispatches, drivers
deliver, accountants record and verify payments, orders are adjusted and goods come back,
suppliers are paid and everything ends up in a general ledger. The rules live in the
service classes under `src/app/Services`; controllers validate input and call them; pages
under `src/resources/js/Pages` decide which button is offered, when, and what it sends.
PostgreSQL holds all state.

This project models the services together with the pages that call them, checks the models
with TLC, and proves with TLAPS, for every value of the constants, all of their safety
properties: every invariant and action property of the runs, the five refinements of abstract
specifications and the lock discipline. Liveness is model-checked.

## How the code behaves, and what follows for the models

Almost every state-changing operation of a service is one `DB::transaction` that first
locks the aggregate's row (`lockForUpdate`), checks its guards under the lock, writes and
commits, or throws and leaves nothing behind. So **an action is one committed transaction**
and a transaction that throws changes no row. Where that is not so, the model has more steps:

* transactions of the supplier books read rows nobody locks, so each is two steps, `Begin`
  and `Commit` (`SupplierBooks`);
* a submission's payment is a second transaction after the order's (`OrderBuilder`);
* locks are taken one by one where their order matters (`RowLocks`).

CHECK and UNIQUE constraints are part of the guards, since they abort the transaction.

What interleaves is people: administrators, pickers, drivers, accountants, clerks and
salesmen work on the same rows through pages that may be minutes old, in several tabs, and
press a button again when its answer is lost. No service knows the whole sequence. That,
and not races inside one transaction, is where the hard behaviour is:

* guards look at *some* of the columns `orders.status`, `fulfillment_status`,
  `delivery_status`, `payment_status`, `deliveries.status`,
  `order_item_allocations.status`, never at all of them;
* the same fact is stored in several rows (a reservation in `inventory_balances`,
  `order_items` and `order_item_allocations`) and written by different services;
* completion is evaluated from two sides, by the delivery and by the payment;
* pages offer what was possible when they were rendered, and requests and answers pass
  each other on the network.

## Components

| Component | State | Operations | What makes it correct | Here |
|---|---|---|---|---|
| Order drafting and submission | drafts, versions, idempotency keys | save, submit, place, pay, discard | no save overwrites another; one order per key | `OrderBook`, `OrderBuilder` |
| Order builder page | cart, draft and version seen, key, requests under way; `localStorage` | edit, save, submit, read answers, give up, reload | late answers never corrupt the page; no spinner turns for ever | `OrderCart`, `OrderBuilder` |
| Inventory balances and reservations | on hand, reserved, damaged, available | reserve, release, relieve, restock | CHECKs hold; reservations are what orders hold | `StockBalance` and all who write rows |
| Order review and cancellation | four status columns | approve, reject, cancel, complete | closed stays closed; completion is exact | `OrderFulfillment`, `OrderLife` |
| Warehouse floor | line and allocation quantities | pick, pack, dispatch | delivered ≤ dispatched ≤ picked ≤ allocated ≤ ordered | `OrderFulfillment`, `OrderAdjustments` |
| Delivery missions | deliveries, their items, DISPATCH movements | assign, six driver steps | missions carry what was allocated | `OrderFulfillment` |
| Inventory desk | stock exceptions, adjustments | adjust, report, resolve, dismiss | movements explain the row | `StockDesk` |
| Payments | payments, instruments | record, verify, reject, correct, reverse | settlement is what verified payments add up to | `PaymentSettlement` |
| Invoices; receivables | invoices; customer ledger | generate, synchronise, void; post | each source once; invoices count what was verified | `PaymentSettlement`, `CreditRefunds` (partly) |
| Order adjustments and their pages | requests, lines, allocations; what each page offers | request, withdraw, approve, reject, apply, reverse | each change booked once, undone last in first out | `OrderAdjustments`, `AdjustmentDesk`, `AdjustmentStack` |
| Allocations | `order_item_allocations` | allocate, split, release, add | sums match the line | `OrderFulfillment`, `OrderAdjustments` (partly) |
| Returns | return requests, returned columns, stock | request, inspect, approve, reject, cancel | goods come back once | `CustomerReturns`, `AfterSale` |
| Credit notes and refunds | notes, refunds, postings | issue, request, review, process | paid back ≤ credited ≤ returned | `CreditRefunds`, `MoneyBack` |
| Supplier payables | bills, payments, sub-ledger | post, pay, reverse | bill, sub-ledger and journal agree | `SupplierBooks` |
| General ledger | journal entries | post once per event, reverse, synchronise | one entry per event | `GeneralLedger` (partly) |
| Row locks | the rows each transaction holds | lock, commit, roll back, retry | only known inversions deadlock | `RowLocks` (partly) |
| Reports; catalogue and pricing; people and places; accounts and access; notifications and audit; other pages and files | | | | not modelled, see the end |

How they interact: a submission makes an order and tries its payment; approval reserves
stock and generates the invoice, which posts to the receivables ledger; dispatch creates a
delivery; completing it relieves balances, writes movements, synchronises the invoice and
evaluates completion; verifying a payment recomputes the settlement, synchronises the
invoice, posts and evaluates completion; cancelling releases the reservation, sometimes,
and voids the invoice; applying an adjustment rewrites lines, allocations and reservations
of an order the warehouse may be working on; approving a return restocks, and its credit
note and refunds post to both ledgers. There are no queues or timers in these paths. Row
locks are the only synchronisation of the server; in the browser it is the `processing`
flags of the forms.

## The modules

| Module | Models | Role |
|---|---|---|
| `StockBalance` | arithmetic of one balance row | operators of all writers |
| `OrderStatus`, `OrderLife` | what desk, warehouse and accountants promise one another about an order | abstract specification |
| `OrderFulfillment` | order desk, warehouse, missions | core specification |
| `OrderFulfillmentLife` | mapping of the core to `OrderLife` | refinement |
| `PaymentSettlement` | payments, invoices, receivables around `OrderLife` | composition and refinement |
| `StockDesk` | core and inventory desk on the same rows | composition |
| `OrderCart`, `OrderBook` | carts; what the order desk promises about drafts and orders | shared; abstract specification |
| `OrderBuilder` | tabs, `localStorage`, wire and server of order submission | detailed specification, implements `OrderBook` |
| `CustomerReturns`, `CreditRefunds` | the transactions of returns, credit notes and refunds | operators |
| `AfterSale` | the office's pages that call them | specification, implements `MoneyBack` |
| `MoneyBack` | paid back ≤ credited ≤ returned ≤ delivered, none ever shrinking | abstract specification |
| `OrderAdjustments` | the transactions of adjustments, with review, cancellation, picking, packing | operators |
| `AdjustmentDesk` | order page and review page | specification, implements `AdjustmentStack` |
| `AdjustmentStack` | one undecided request, four eyes, last in first out | abstract specification |
| `GeneralLedger` | journal entries | operators, extended by `SupplierBooks` |
| `SupplierBooks` | bills, payments, sub-ledger, journals, overlapping transactions | specification |
| `RowLocks` | lock order and deadlocks of the long transactions | specification |
| `BuilderClaims`, `SupplierClaims` | statements of documents the code does not keep | properties of the claim runs |
| `MC...` | instances | for TLC |
| `..._proofs` | theorems about the module they are named after; `OrderFulfillment_proofs` also those of `StockDesk` | for TLAPS |
| `OperatorLemmas` | what sums over sets of rows and sequences of them, and the operators of a balance row, do | lemmas of all proofs |

Definitions keep the names of the code where TLA+ allows it (`approveOrder` is
`ApproveOrder`). Definitions marked `\* mutated` are not part of a specification: each is a
plausible bug in the definition that follows, and substituting it breaks a property.

**`OrderFulfillment`.** `order[o]` holds the four status columns; `line[o][p]` the quantity
columns of `order_items`; `alloc[o][p]` the allocation approval made; `mission[o][m]` a
delivery and its items; `balance[p]` the balance row; `shipped[o][p]` the sum of DISPATCH
movements. `Ordered[o][p] = 0` says the order has no line for `p`. `PENDING_APPROVAL` is
accepted by the review's guards and assigned by no service. Completing a delivered mission
again returns without writing and is a stutter. Picking nothing of a line counts as picking
all of it when the order is packed (`PickedOrAll`), as the code's `?:` does. Every action
stands for someone entitled to press the button on active records. The warehouse page may
press any of its buttons from an old rendering: a stale "Confirm Packed" takes a dispatched
order back to PACKED. `Deliveries/Index.tsx` offers assignment for every row, so a second
mission can be made from the page; `NeverOvershipped` is the premise that it was not.

**`PaymentSettlement`** takes the order's own steps from `OrderLife` and adds payments, the
invoice and the ledger. As `OrderFulfillment` implements the same `OrderLife`, each half may
rely on the other's abstraction without both being explored at once. Amounts are whole
units; the code compares cents. Rejection calls the reconciliation and finds nothing new to
write, as pending payments never counted. Orders submitted today get their invoice with the
submission, older ones may have none: hence two initial invoice statuses. The payments page,
the modal of an order and its controllers are mapped to the inputs of the actions: no page
corrects a rejected payment, the desk's form has no order field, the modal compares with the
outstanding amount it shows and the server compares again.

**`StockDesk`** adds the desk's transactions on the same `balance`. An adjustment sent with
an outdated version of the row is refused. Movements are abstracted to the sums properties
compare: `adjusted` per type, `reverted` per report, `shipped` per order line.

**`OrderBuilder`.** `orders` is the table, `tab` the pages, `stored` the backup of the cart
in `localStorage`, `wire` the requests under way. A request may be lost, or its answer given
up on, after the server handled it or before. Answers wait in the page's `inbox` and are
read in any order. `seen` is a history variable: what the draft held when the tab last read
or wrote it. Keys are random in the code; naming them by page load and redisplay keeps them
fresh. Simplified: the catalogue and the customers change at any time, so their refusals are
nondeterministic; discarding and approval are answered at once; the list of customers on the
page is fixed; one unit price, and price bands are left to the server's refusals; a backup
removed after a submission counts as one of an empty cart, also for a redisplay elsewhere.

**`AfterSale`.** Every member of staff looks at a page of any age; a refused request leaves
the rows alone and the page as it is or reloaded; a lost answer leaves the page offering the
same button. `UNDER_REVIEW` is assigned by no service. Processing a refund twice is refused
by its status before its idempotency key is compared. Taxes are left out.

**`AdjustmentDesk`** has one line of unit price 1 and no tax, staff who may do everything
except check their own requests, and pages of any age. The key of the request form is
drawn on every opening. Pages offer nothing in state `Away`. An approved request is
evaluated `TERMINAL_REQUEST`, so only the order's lifecycle disables its buttons.

**`SupplierBooks`.** `Begin` locks a bill or payment, checks it, draws the sub-ledger row's
id and reads the rows committed so far (READ COMMITTED); `Commit` makes everything visible.
Nothing locks the supplier, so transactions about different bills overlap and commit in any
order. The historical synchronisation is one step. Initial states contain bills and payments
from before the ledger existed. Pages show snapshots, but add no guard the server lacks, so
the forms are input sets. Taxes and due dates are left out, each form by hand is written once.

**`RowLocks`.** A transaction takes its rows one by one and keeps them to its end. Rows only
the holder of an order locks (items, allocations, deliveries, payments, invoice) make nobody
wait and are left out, and so are a return request's own row and the key-share locks of
foreign keys. Assignment locks like dispatch, verification and reversal like payment. A
return locks the balances of all its order's lines (the code: of the returned ones).
Balances ascend with product ids: returns sort by product id, approvals by balance id. Both
agree as long as balances were created in the order of their products, which
`initializeCatalog` (`InventoryInitializationService.php:74`) does not enforce: it takes the
products unordered. Where they do not, approvals and returns of two shared products are a
third inversion.
`OrderService` inserts items in the order of the request, so the items of an order may list
products in any order. `Refuse` is a check that fails under the locks.

## What is checked

Every run is exhaustive within its instance.

| Run | Instance | Distinct states | Checks |
|---|---|---|---|
| `one_order` | one order, lines of 2 and 1 pieces, exactly enough stock, 2 deliveries | 409,728 | `TypeOK` `AllocationLadder` `UnapprovedHoldsNothing` `MissionsAreBacked` `CompletedWasShipped` `ClosedStaysClosed` `LastConditionCompletes` `ImplementsLife` |
| `three_orders` | three orders of one piece each, 2 on hand, 1 delivery each; the third stays in the office | 444,976 | `BalancesKeepChecks` `StockConserved` |
| `one_customer` | one order of 2 units, 3 payments of 1 or 2 units, cash or one cheque, with or without the order | 1,124,608 | `TypeOK` `SettlementFollowsPayments` `RecordedWithinTotal` `LedgerBalances` `InvoiceCountsVerified` `CompletionIsSettled` `PaymentsKeepLife` |
| `desk` | one order of 2 of 3 pieces, the third reserved by others, 2 deliveries, 2 reports, 1 adjusted piece of each kind | 552,061 | `BalancesKeepChecks` `QuarantineRevertedOnce` `MovementsExplainStock` `HeldIsReservedOrQuarantined` |
| `builder` | 2 tabs, an old draft and a new order, 2 requests | 205,411 | `BuilderTypeOK` `NoLostEdit` `ImplementsBook` |
| `builder_retries` | 1 tab, 3 requests, 2 redisplays, fair | 372,685 | `OneOrderPerKey` `SpinnersEnd` |
| `after_sale` | a line of 2 pieces from 2 allocations, 2 staff, 3 documents of which at most 2 returns or refunds | 619,212 | `AfterSaleTypeOK` `ReturnsWithinDelivery` `GoodsComeBackOnce` `NotesMatchLedger` `ImplementsMoneyBack` |
| `adjustments` | a line of 2 of 3 pieces, 2 staff, 2 requests of up to 2 pieces | 687,650 | `AdjustmentsTypeOK` `LinesMatchApplied` `HoldingsAreReserved` `ImplementsStack` |
| `supplier_books` | 2 clerks, a bill, 2 payments on it or on account, 1 correction by hand, 2 days | 380,740 | `BooksTypeOK` `BooksAgree` `QuietBalancesAddUp` |
| `row_locks` | every mix of 3 transactions on 2 orders of a customer that list 2 products in opposite orders, 2 attempts, fair | 79,141 | `OnlyInversionsDeadlock` `TransactionsEnd` |

What the properties say:

* `BalancesKeepChecks`: whoever writes a balance row, it satisfies the table's CHECKs. In
  `three_orders` approvals compete: with two approved the third is refused until one is
  cancelled. In `desk` damaged pieces keep a delivery from committing, and a dismissal finds
  its pieces scrapped.
* `AllocationLadder`, `MissionsAreBacked`: goods pass allocations and missions in order and
  never exceed what was allocated, although dispatch takes over missions made for other
  quantities and returns to the warehouse reset everything.
* `UnapprovedHoldsNothing`: the warehouse does not ask whether an order was approved; still
  nothing is held or shipped for one that was not.
* `CompletedWasShipped`, `LastConditionCompletes`, `CompletionIsSettled`: completion is exact
  from both sides: the ledger shows the goods shipped, the order charged, the invoice paid
  and verified payments of the total; and the transaction that brings the last condition
  completes the order.
* `StockConserved`, `MovementsExplainStock`, `HeldIsReservedOrQuarantined`: the row is
  explained by what orders hold, what was shipped, adjusted and quarantined. Their premises
  name where the code does lose track: once an order had more delivered than it held, or
  (for what is on hand) after pieces of a reservation were quarantined.
* `ClosedStaysClosed`: no later button reopens a closed order.
* `SettlementFollowsPayments`, `RecordedWithinTotal`, `LedgerBalances`,
  `InvoiceCountsVerified`: derived columns agree with the payments in any order of
  verification, reversal, correction and cancellation.
* `QuarantineRevertedOnce`: only its own dismissal gives a quarantine back, once. (The types
  of the desk's rows, `DeskTypeOK`, are proved and not run: what arithmetic could take out
  of its type are the columns of the balance, which `BalancesKeepChecks` bounds.)
* `NoLostEdit`: a save that writes finds what its tab last read or wrote. `OneOrderPerKey`:
  the UNIQUE column never has to speak. `SpinnersEnd`: every way a request can end clears
  the flag that disables its button. `ImplementsBook`: whatever is retried or lost, a draft
  is revised version by version, what was submitted never changes, and no more is collected
  at the checkout than the order is worth.
* `ReturnsWithinDelivery`, `GoodsComeBackOnce`: all open requests could be accepted in full;
  each accepted piece is counted once, in line, allocation and stock. `NotesMatchLedger`,
  `ImplementsMoneyBack`: notes, refunds and ledger agree, within what the goods were worth.
* `LinesMatchApplied`, `HoldingsAreReserved`, `ImplementsStack`: line, total and allocations
  are the original ones and the adjustments in force; the stock still holds what unpicked
  rows count on (an allocation that was picked short at nothing is excepted, below).
* `BooksAgree`: bill, sub-ledger and journal tell one story, with what a synchronisation
  would still post. `QuietBalancesAddUp`: a posting that overlapped no other leaves running
  balances that add up, whatever overlapping ones left before it.
* `OnlyInversionsDeadlock`: whoever waits in a circle, two of them lock a customer and an
  order the opposite ways round, or one is a delivery whose items do not ascend.
  `TransactionsEnd`: every transaction commits, is refused, or is rolled back for good.

**Bounds.** Two deliveries are where a second mission exists beside a delivered, failed or
cancelled first one. Two pieces are the least that can be picked short, two lines the least
where one is complete and the other not, three orders for two pieces the least where two
hold stock and a third is refused it. Three payments let a rejected one be corrected beside two active ones; `MaxVersion = 4` allows one
correction and everything after it. Two tabs and two requests are the least for a conflict
of versions and for a save and a submission to be answered out of order; three requests and
two redisplays allow a save, a submission that is lost and its retry under an old or a new
key. Two adjustments are the least with an order to reverse in; two returns and two refunds
the least that compete for one delivery and one note. Two payments of a bill are the least
that overlap and can be reversed out of turn. Three transactions are the least for a circle
that passes order, customer and balance; two attempts show a rollback that is retried and
one that is final (the code allows three). Bounds named `Max...` appear in guards only to
stop counters. `PaidOnDelivery`, `Unpaid` and `NoDetour` (constraints of `three_orders` and
`desk`) leave out steps that neither read nor write what these runs compare and `one_order`
explores. `ThirdStaysInOffice` leaves the third order to approval, rejection and cancellation;
symmetry is over the other two. `SecondFollows` keeps of all the second deliveries in `desk`
those that follow a first one, beside one report at most: they take the same goods again,
beyond what the row still has. `FewAdjusted` allows two adjusted pieces in all beside two
reports.
Deadlock checking is off where bounded requests, payments or forms run out.

**Fairness.** Transactions are button presses and nobody has to make one, so no fairness is
assumed of `OrderFulfillment`, the payments, the desks or the books, and no liveness claimed:
what the code promises to happen by itself, completion, happens inside a transaction and is
an action property. In two places the code does promise progress. In the builder
`WF(Serve)` says the server handles what reaches it, which a PHP worker does once started,
and `WF` of reading answers that the browser runs the callback of a request that ended, be it
by a broken connection. Salesmen are not fair. In `RowLocks` weak fairness of each
transaction's `Step` says that a running PHP request goes on, that PostgreSQL grants a free
row to whoever waits for it, and that its deadlock detector resolves circles; requests are
finite in number, so a row is not taken away for ever. A refusal is nobody's duty.

## Where documents and code disagree

Two runs end with a counterexample:

| Run | Statement | What the code does |
|---|---|---|
| `claim_replay_collects_once` | a resubmission records no payment twice (`docs/TEST_MATRIX.md:1017`) | the idempotency key covers the order only; a part payment is recorded again |
| `claim_journal_reversal_cancels` | a reversal offsets the journal (`docs/reports/PHASE-13-ACCOUNTING-ACC-001-009.md:66`) | reports count POSTED entries, and the original stops being one: it is taken out twice |

The models also show, without a run of their own:

* *Orders.* Drivers' steps never read `orders.status`: a cancelled order is delivered, and one
  cancelled after picking began keeps its reservation (`cancelOrder` has no route at present).
  A delivery leaves damaged pieces out of the available figure, so the CHECK refuses
  deliveries while anything of the product is quarantined. A paid order that was picked short
  is never completed by its delivery. Picking is possible from every fulfillment status.
  Relief is clamped at zero and may take less than the movement records.
* *Payments.* A reversal leaves the invoice as paid, although `PAYMENT_WORKFLOW.md:82` says it
  restores it. Correcting a rejected payment checks neither the total nor whether the cheque
  is in use. More than the total verified makes an order OVERPAID, which never completes. The
  charge of a cancelled order stays in the receivables ledger.
* *Stock desk.* A dismissed report returns damaged pieces to available stock, against
  RULE-INV-004.
* *Returns.* The form has no idempotency key (`TEST_MATRIX.md:946` says it has), so a resend
  makes a second request; approvals of both stay within the delivery.
* *Adjustments.* A reduction leaves the pieces reserved in the balance
  (`TEST_MATRIX.md:1136`). An increase on a SUBMITTED order reserves, and approval reserves
  again. An increase applied before approval, or whose row a reversed reduction touched, can
  never be reversed; reversing a reduction restores its allocation with nothing reserved;
  reversal ignores open requests and resets `adjustment_status`. An approved request that
  cannot be applied stays for ever. A split line cannot be picked in full, and a short pick
  counts once per row. `adjustment_total` is wrong after a clamped reversal. A pick of
  nothing and the reversal of an increase give a reservation away. Versions do not change on
  approval, cancellation or picking.
* *Supplier books.* Overlapping postings leave wrong running balances until the next lone one.
  Reversing a system journal by hand breaks the reconciliation with account 2010
  (`ACCOUNTING_WORKFLOW.md:99`), which is why `BooksAgree` compares system journals. A
  concurrent synchronisation that loses the race for an event catches a `QueryException`
  inside its aborted transaction, cannot read the winner and only logs. `Journals.tsx` loses
  a typed amount when its side is changed. The payment form has no idempotency key.
* *Locks.* `MASTER_WORKFLOW.md:22` and a comment at `InventoryService.php:84` claim freedom of
  deadlock; the two inversions of `OnlyInversionsDeadlock` are reachable, and three attempts
  may not be enough.

## What is proved

All theorems hold for every set of orders, products, tabs, customers, requests, documents and
clerks, every quantity, stock and bound, under the named assumptions on the constants in the
modules and nothing else. The sets that are summed over (orders, payments, stock exceptions,
order lines, bills, the products of a cart) are assumed finite, as tables are.

| Theorem | Module | States |
|---|---|---|
| `TypeCorrect` | `OrderFulfillment_proofs` | `Spec => []TypeOK` |
| `BalancesSafe` `LadderSafe` `UnapprovedSafe` `MissionsSafe` `CompletionSafe` | | the safety invariants of the core |
| `StockIsConserved` | | `StockConserved` |
| `ClosedIsFinal` `DeliveryIsFinal` `CompletionIsPrompt` | | the action properties of the core |
| `LifeImplemented` | | the core implements `OrderLife` |
| `AccountsTyped` `SettlementIsDerived` `NeverOverclaimed` `LedgerAlwaysBalances` `InvoicesNeverOverask` | `PaymentSettlement_proofs` | the invariants of payments |
| `AccountsInOrder` | | `Spec => []Books`, on which they rest |
| `CompletionAlwaysSettled` `PaymentsRefineLife` | | `CompletionIsSettled`; payments keep to `OrderLife` |
| `DeskTypeCorrect` `DeskBalancesSafe` `RevertedOnce` | `OrderFulfillment_proofs` | types, CHECKs and `QuarantineRevertedOnce` with the desk at work |
| `StockIsExplained` `HeldIsCovered` | | `MovementsExplainStock`, `HeldIsReservedOrQuarantined` |
| `BuilderTyped` `KeysAreUnique` `SavesLoseNothing` | `OrderBuilder_proofs` | types, `OneOrderPerKey`, `NoLostEdit` |
| `BuilderKeepsTheBook` | | `OrderBuilder` implements `OrderBook` |
| `AdjustmentsTyped` `LinesAlwaysMatch` `HoldingsStayReserved` | `AdjustmentDesk_proofs` | `AdjustmentsTypeOK`, `LinesMatchApplied`, `HoldingsAreReserved` |
| `DeskKeepsTheStack` | | `AdjustmentDesk` implements `AdjustmentStack` |
| `AfterSaleTyped` `NeverOverReturned` `PiecesComeBackOnce` `NotesAlwaysMatch` | `AfterSale_proofs` | the invariants of returns, notes and refunds |
| `SaleKeepsThePromise` | | `AfterSale` implements `MoneyBack` |
| `BooksTyped` `BooksAlwaysAgree` `QuietBalances` | `SupplierBooks_proofs` | `BooksTypeOK`, `BooksAgree`, `QuietBalancesAddUp` |
| `LocksTyped` `OnlyInversions` | `RowLocks_proofs` | types, `OnlyInversionsDeadlock` |

*Sums.* Most accounts say that a column is a sum over rows of another table. What a fold
computes would need an induction over an operator, which the provers cannot instantiate;
`OperatorLemmas` gets it from well-founded induction on *sets* instead: the finite subsets
for which a claim fails are ordered by strict inclusion, so there would be a smallest one
(`WFMin` with `FS_StrictSubsetOrderingWellFounded`), and taking one element away refutes it.
This yields that a sum is an integer, grows by the element that is added, changes by what one
row changes (the lemma every action uses), is monotone, and splits over disjoint sets.

*The core.* `OperatorLemmas` also states what each operator of `StockBalance` does to a row.
Types are proved first, action by action. The safety invariants are not inductive alone:
that `delivered <= dispatched` survives a return depends on the statuses a row with delivered
goods can have; that a completed order was shipped depends on lines never running ahead of
the ledger; that unapproved orders stay empty depends on missions implying an approval. The
inductive invariant

    Inv == TypeOK /\ BalancesKeepChecks /\ \A o \in Orders : OrderInv(o)

collects these per order. A step of one order touches no other order's rows except `balance`,
which leaves one lemma per action. Stock is conserved because each step that changes a
balance row changes one order's `HeldOf` or `ShippedOf` by the same amount; the clamp of a
relief at zero, where this fails, cannot be reached while no order was shipped more than it
holds (`NeverOvershipped`), for then the sum of what orders hold covers each single one.

*The refinement.* `delivered` of `OrderLife` is a predicate over all lines, which
`completeDelivery` makes true only if it has rolled up every other allocation before. So the
invariant adds `RolledInv` (delivered allocations already count in their lines) and
`DrivenInv` (only approved orders have missions). Then each action is one step of `OrderLife`
at its own order and `LifeMoves` shows that no other order's abstract state moves.

*Payments.* `Books` says that the ledger credits only payments that were verified once and
takes back only what was reversed, that the version of a payment counts its rejection,
and that approval, the only way to a delivery, left an invoice and a charge. Then what stands
verified is a sum over payments on one side and over postings on the other, and every
transaction changes one term of both. The settlement status compares that sum with the
total; completion asks for it in the same transaction that changes it.

*The desk.* A desk step that keeps a row within its CHECKs keeps all of `Inv`, so the core's
theorems hold beside it. The invariant adds that a report gives back no more than it
quarantined, and nothing before it is dismissed (`ExceptionInv`), and that row, movements and
reports explain one another (`LedgersExplain`); a report moves its own term of the sum only,
and a dismissal gives back at most the damaged pieces that are still there, to the reservation
if they came from one. What it cannot give back, because the pieces were scrapped, it goes on
keeping, which is why `HeldIsReservedOrQuarantined` compares with what was not reverted.

*Returns and refunds.* `SaleInv` has four parts: rows and pages are typed (`PagesTyped`); a
page shows a document that exists, however old what it shows of it (`PagesKnow`); for goods,
what open and approved requests claim of a line, its returned column, its allocations' and
the stock are sums over the same rows (`GoodsInv`); for money, a note is worth what was
accepted and its balance is that less the refunds processed (`MoneyInv`). The spread of the
accepted pieces over a line's allocations is a fold over a sequence, of which one lemma
shows that it takes each piece once and none too many. The refinement follows, as
`MoneyBack`'s four amounts are these sums (`AccountsFit`).

*Supplier books.* Journals may lag behind: an old bill has no entry until a synchronisation
posts it. `BooksInv` therefore speaks of what the ledger *will* hold (`SystemOf`): the system
entries it has, and the entries of what has happened (`Happened`) that it has none for. A
commit adds one event to `Happened` and so exactly one entry to `SystemOf`, whoever posts it;
a synchronisation and a correction by hand leave it as it is. Two transactions that overlap
hold different rows (`Apart`), so that what `Begin` checked still holds at `Commit`
(`WorkFits`): this is where the row locks are used. Rewriting running balances changes
no amount (`SameRows`), whatever part of the rows the transaction saw, so the supplier's
balance is right even when the running balances are not; a lone posting saw all of them, and
its rewriting makes every one right.

*The builder.* A save is safe if its tab *knows* the draft: as long as it is a draft, the
tab's version is at most the row's, and equal only if the row holds what the tab saw
(`Known`). The invariant says so of each page (`PageFits`), of each save under way
(`MessageFits`) and of each answer that a page will take its version from; the last needs that
only a save can be answered to a page waiting for one, hence numbers that identify requests
(`Numbered`) and orders still to be opened (`Unsent`). Rows only grow in the sense that keeps
what is known (`Grown`), so a handler has to be looked at only where it writes and answers.
`OneOrderPerKey` is inductive with these, as every handler that takes a key checks it.

*The order book.* What the table shows is `OrderBook`'s state as it is, so the refinement
needs no mapping, but the book submits and places only what may be reviewed and the server
does not look at the cart again: it relies on the page. `Chosen` carries that check over the
network: every save and placement under way, and so every draft in the table, names a
customer. Then each handler is one step of the book; a replay that finds its order, a
collected payment of nothing, a loss and everything the pages do by themselves are
stutters, and a part payment is collected only while the outstanding amount covers it.

*Adjustments.* The inductive invariant `RowsInv` says of the rows, beside the two properties:

* `Held`: until the order is cancelled, the stock's reservation covers all increases in force
  *and* what the rows that none of them brought count on. `HoldingsAreReserved` alone is not
  inductive: an increase applied before approval has no row and still gives its reservation
  back on reversal, which would eat into what somebody else's row counts on;
* `Noted`, `Owned`: a number in an allocation's notes is that of an adjustment that was
  applied, and an increase brought at most one row, which it shares with no other increase
  and which never allocates more than it. So the rows count on no more than the increases in
  force and what is free of them, and `Held` implies `HoldingsAreReserved` (`HoldingsFollow`);
* `Unpicked` and that a submitted order has no rows: a cancellation that releases leaves no
  row that reserves anything;
* `InTime`: adjustments in force were applied at different versions, none in the future;
* `Unreviewed`: a request still waiting has no reviewer.

What an application splits off, what a reversal takes and gives back, and the rows that are
picked or cancelled are each a change row by row (`Thinned`: no row reserves or counts on
more than before), perhaps with one more row at the end that reserves nothing; an increase
alone adds one that does. One lemma each shows so, and lemmas about sums over sequences do
the rest. That allocations do not outgrow the line is the services' own check (`Settle`);
that the line's columns and the order's totals follow the adjustments in force is not: it
needs that each request moves the two sums once (`SumsMove`, `BooksGrow`, `BooksShrink`).
The pages need little: one that offers a withdrawal shows a request that exists
(`PagesSound`).

*The stack.* `InForce`, the abstract stack, lists the applied adjustments by their rank in
`at`. By `InTime` ranks are 1 to their number, each taken once, so applying one appends it,
and reversing the latest drops the last. The other actions leave every rank as it is.

*Row locks.* Each transaction climbs a ladder: what it holds is the beginning of its list of
locks (`HeldInOrder`). In a circle without an inversion all climb the same one of two ladders,
`OrderLadder` or `CustomerLadder`, so the highest row somebody holds and somebody waits for
leads to a higher one, and rows do not go up for ever.

*Only model-checked.* Liveness (`SpinnersEnd`, `TransactionsEnd`), as fairness is out of the
prover's reach, and the two claims that the code does not keep, which TLC refutes.

## What is not modelled

* *Partly modelled components.* Allocating, releasing and cancelling single allocation rows by
  hand, and the backfill of old orders, have no route. Invoices of adjusted orders, the running
  balances of receivables, aging and statements, the journals of customer events (made like
  the supplier's, from other events), cash reconciliation, and the locks of adjustments and of
  the inventory desk.
* *Not modelled.* Reports and reconciliations are read-only queries. Catalogue, pricing and
  master data are records whose state only refuses operations. Access control decides who may
  act; every action may be someone entitled to. Notifications and audit are written and never
  read by the services. PDF rendering, file storage, demonstration data, and the pages that
  keep nothing but what is typed into them, are input and output.
* *Within the models.* Cents, taxes and rounding, permissions, evidence files, numbers and
  dates other than those the guards compare.

## Running

    tlc -config one_order.cfg MCOrderFulfillment        # also three_orders
    tlc -config one_customer.cfg MCPaymentSettlement
    tlc -config desk.cfg MCStockDesk
    tlc -config builder.cfg MCOrderBuilder              # also builder_retries, claim_replay_collects_once
    tlc -config after_sale.cfg MCAfterSale
    tlc -config adjustments.cfg MCAdjustmentDesk
    tlc -config supplier_books.cfg MCSupplierBooks      # also claim_journal_reversal_cancels
    tlc -config row_locks.cfg MCRowLocks
    tlapm OrderFulfillment_proofs.tla                   # and the other ..._proofs, OperatorLemmas

`PROJECT.json` lists all runs, with the source lines behind every definition.
