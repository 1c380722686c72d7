------------------------- MODULE OrderBuilder_proofs -------------------------
(***************************************************************************)
(* Theorems about the order builder, for any tabs and customers, any       *)
(* finite set of products, and any number of visits, retries and requests: *)
(* the types; that no two orders share an idempotency key; that no save    *)
(* overwrites another's; and that the page and its server keep the book of *)
(* orders and payments.                                                    *)
(***************************************************************************)
EXTENDS OrderBuilder, OperatorLemmas

-----------------------------------------------------------------------------
(* Carts, rows and pages: every write keeps their types. *)

LiveRows ==
  [status : {"DRAFT", "SUBMITTED", "APPROVED"}, key : Keys, version : Nat,
   cart : Carts, paid : Nat]

TabPages == {Away} \cup PagesShown

(* The bounds are positive numbers, so there are keys and numbers of requests. *)
LEMMA Bounds ==
  /\ MaxVisits \in Nat /\ MaxRefreshes \in Nat /\ MaxRequests \in Nat /\ MaxRequests > 0
  /\ MaxQuantity \in Nat /\ MaxQuantity > 0
  /\ Requests \subseteq Ids /\ Requests \subseteq Nat /\ 0 \notin Ids /\ Ids \subseteq Nat
BY BuilderAssumption, CartAssumption DEF Requests, Ids

(* Whatever a salesman does to a cart leaves a cart. *)
LEMMA CartTypes ==
  /\ EmptyCart \in Carts
  /\ \A c \in Carts :
       /\ \A customer \in Customers \cup {NoCustomer} : WithCustomer(c, customer) \in Carts
       /\ \A p \in Products, q \in 0..(MaxQuantity + 1) : WithLine(c, p, q) \in Carts
       /\ \A p \in Products : WithoutLine(c, p) \in Carts
<1>1. EmptyCart \in Carts
  BY Bounds DEF EmptyCart, Carts
<1>2. ASSUME NEW c \in Carts, NEW customer \in Customers \cup {NoCustomer}
      PROVE  WithCustomer(c, customer) \in Carts
  BY DEF WithCustomer, Carts
<1>3. ASSUME NEW c \in Carts, NEW p \in Products, NEW q \in 0..MaxQuantity
      PROVE  [c EXCEPT !.lines[p] = q] \in Carts
  BY DEF Carts
<1>4. ASSUME NEW q \in 0..(MaxQuantity + 1)
      PROVE  Clamped(q) \in 0..MaxQuantity
  BY Bounds DEF Clamped
<1>5. 0 \in 0..MaxQuantity
  BY Bounds
<1> QED
  BY <1>1, <1>2, <1>3, <1>4, <1>5 DEF WithLine, WithoutLine

(* So does an edit. *)
LEMMA EditedType ==
  ASSUME NEW c \in Carts
  PROVE  Edited(c) \subseteq Carts
BY CartTypes DEF Edited, InCart

(* A row that is not absent or discarded has all its columns. *)
LEMMA LiveRow ==
  ASSUME NEW r \in Rows
  PROVE  /\ r.status \in {"DRAFT", "SUBMITTED", "APPROVED"} => r \in LiveRows
         /\ r.status \notin {"ABSENT", "DISCARDED"} => r \in LiveRows
         /\ r.status \in {"ABSENT", "DISCARDED", "DRAFT", "SUBMITTED", "APPROVED"}
         /\ r.status = "ABSENT" => r = Book!NoRow
BY DEF Rows, LiveRows, Book!NoRow

(* The writes to a row. *)
LEMMA RowTypes ==
  /\ \A k \in Keys, c \in Carts, s \in {"DRAFT", "SUBMITTED"} :
       Book!Row(s, k, 1, c, 0) \in LiveRows
  /\ \A r \in LiveRows :
       /\ \A c \in Carts : [r EXCEPT !.version = @ + 1, !.cart = c] \in LiveRows
       /\ \A k \in Keys : [r EXCEPT !.status = "SUBMITTED", !.key = k] \in LiveRows
       /\ \A n \in Nat : [r EXCEPT !.paid = @ + n] \in LiveRows
       /\ [r EXCEPT !.status = "APPROVED"] \in LiveRows
  /\ [status |-> "DISCARDED"] \in Rows /\ Book!NoRow \in Rows
  /\ LiveRows \subseteq Rows
<1>1. ASSUME NEW k \in Keys, NEW c \in Carts, NEW s \in {"DRAFT", "SUBMITTED"}
      PROVE  Book!Row(s, k, 1, c, 0) \in LiveRows
  BY DEF Book!Row, LiveRows
<1>2. ASSUME NEW r \in LiveRows, NEW c \in Carts
      PROVE  [r EXCEPT !.version = @ + 1, !.cart = c] \in LiveRows
  <2> DEFINE v == r.version + 1
  <2>1. v \in Nat
    BY DEF LiveRows
  <2> HIDE DEF v
  <2>2. [r EXCEPT !.version = v, !.cart = c] \in LiveRows
    BY <2>1 DEF LiveRows
  <2> QED
    BY <2>2 DEF v
<1>3. ASSUME NEW r \in LiveRows, NEW k \in Keys
      PROVE  [r EXCEPT !.status = "SUBMITTED", !.key = k] \in LiveRows
  BY DEF LiveRows
<1>4. ASSUME NEW r \in LiveRows, NEW n \in Nat
      PROVE  [r EXCEPT !.paid = @ + n] \in LiveRows
  BY DEF LiveRows
<1>5. ASSUME NEW r \in LiveRows
      PROVE  [r EXCEPT !.status = "APPROVED"] \in LiveRows
  BY DEF LiveRows
<1>6. /\ [status |-> "DISCARDED"] \in Rows /\ Book!NoRow \in Rows
      /\ LiveRows \subseteq Rows
  BY DEF Rows, LiveRows, Book!NoRow
<1> QED
  BY <1>1, <1>2, <1>3, <1>4, <1>5, <1>6

(* A new page. *)
LEMMA NewPageType ==
  ASSUME NEW page \in {"create", "createFor", "edit"}, NEW cart \in Carts,
         NEW draft \in {0} \cup Ids, NEW version \in Nat, NEW key \in Keys
  PROVE  Page(page, cart, draft, version, key) \in PagesShown
BY CartTypes DEF Page, PagesShown, WaitingFor, Carts

(* A draft's page. *)
LEMMA DraftPageType ==
  ASSUME orders \in [Ids -> Rows], NEW o \in Ids, IsDraft(o)
  PROVE  DraftPage(o) \in PagesShown
<1>1. orders[o] \in LiveRows
  BY LiveRow DEF IsDraft
<1> QED
  BY <1>1, NewPageType DEF DraftPage, LiveRows

(* The writes to a page. *)
LEMMA PageTypes ==
  ASSUME NEW pg \in PagesShown
  PROVE  /\ \A c \in Carts : [pg EXCEPT !.cart = c] \in PagesShown
         /\ \A n \in WaitingFor : [pg EXCEPT !.saving = n] \in PagesShown
         /\ \A n \in WaitingFor : [pg EXCEPT !.submitting = n] \in PagesShown
         /\ \A inbox \in SUBSET Answers : [pg EXCEPT !.inbox = inbox] \in PagesShown
         /\ \A k \in Keys : [pg EXCEPT !.key = k] \in PagesShown
         /\ \A p \in {"createFor", "edit"} : [pg EXCEPT !.page = p] \in PagesShown
         /\ \A o \in {0} \cup Ids, v \in Nat, c \in Carts :
              [pg EXCEPT !.draft = o, !.version = v, !.seen = c] \in PagesShown
BY DEF PagesShown

-----------------------------------------------------------------------------
(* The inductive invariant. *)

Types ==
  /\ orders \in [Ids -> Rows]
  /\ tab \in [Tabs -> TabPages]
  /\ stored \in Carts
  /\ wire \subseteq Messages
  /\ visits \in 0..MaxVisits /\ sent \in 0..MaxRequests

(* Who holds version v of a draft knows what the draft held then: versions only
   grow while it is one, and a number is never given to another order. *)
Known(rows, o, v, cart) ==
  /\ rows[o].status # "ABSENT"
  /\ rows[o].status = "DRAFT" =>
       v <= rows[o].version /\ (v = rows[o].version => rows[o].cart = cart)

(* A page knows the draft it edits, and will know the one a save it waits for
   made or revised. *)
PageFits(rows, messages, n, t, pg) ==
  pg.page # "away" =>
    /\ pg.saving <= n /\ pg.submitting <= n
    /\ pg.draft # 0 => Known(rows, pg.draft, pg.version, pg.seen)
    /\ pg.page = "edit" => pg.draft # 0
    /\ \A a \in pg.inbox : a.n <= n
    /\ \A a \in pg.inbox : a.result = "ok" =>
         a.order # 0 /\ (a.n = pg.saving => Known(rows, a.order, a.version, a.cart))
    /\ \A m \in messages : m.tab = t /\ m.n = pg.saving => m.kind = "save"

(* So does a save; a request that opens an order finds its number free. *)
MessageFits(rows, n, m) ==
  /\ m.n <= n
  /\ m.kind = "save" => m.order = 0
  /\ m.kind = "save" /\ m.draft # 0 => Known(rows, m.draft, m.version, m.seen)
  /\ m.kind = "submit" => m.draft # 0
  /\ m.kind = "place" => m.draft = 0
  /\ m.order = 0 /\ m.draft = 0 => rows[m.n].status = "ABSENT"

Unsent(rows, n) == \A i \in Requests : i > n => rows[i].status = "ABSENT"

Numbered(messages) == \A m, k \in messages : m.n = k.n => m = k

Fits ==
  /\ \A t \in Tabs : PageFits(orders, wire, sent, t, tab[t])
  /\ \A m \in wire : MessageFits(orders, sent, m)
  /\ Unsent(orders, sent)
  /\ Numbered(wire)

Inv == Types /\ OneOrderPerKey /\ Fits

-----------------------------------------------------------------------------
(* Steps of one tab that send nothing and write no row: it is enough to look at
   its new page. *)

(* A tab turns to a page that fits. *)
LEMMA TurnPage ==
  ASSUME Inv, NEW t \in Tabs, NEW pg \in TabPages, PageFits(orders, wire, sent, t, pg),
         tab' = [tab EXCEPT ![t] = pg], UNCHANGED <<orders, wire, sent>>,
         stored' \in Carts, visits' \in 0..MaxVisits
  PROVE  Inv'
<1>1. Types'
  BY DEF Inv, Types
<1>2. OneOrderPerKey'
  BY DEF Inv, OneOrderPerKey, Book!KeyFree, Book!Live
<1>3. \A u \in Tabs : PageFits(orders', wire', sent', u, tab'[u])
  BY DEF Inv, Fits, Types
<1>4. \A m \in wire' : MessageFits(orders', sent', m)
  BY DEF Inv, Fits
<1>5. Unsent(orders', sent') /\ Numbered(wire')
  BY DEF Inv, Fits
<1> QED
  BY <1>1, <1>2, <1>3, <1>4, <1>5 DEF Inv, Fits

(* The page that is away fits. *)
LEMMA AwayFits ==
  ASSUME NEW t \in Tabs
  PROVE  Away \in TabPages /\ PageFits(orders, wire, sent, t, Away)
BY DEF TabPages, PageFits, Away

(* A page of a new order fits. *)
LEMMA CreateFits ==
  ASSUME Inv, NEW t \in Tabs, NEW page \in {"create", "createFor"},
         NEW cart \in Carts, NEW key \in Keys
  PROVE  /\ Page(page, cart, 0, 1, key) \in TabPages
         /\ PageFits(orders, wire, sent, t, Page(page, cart, 0, 1, key))
<1> DEFINE pg == Page(page, cart, 0, 1, key)
<1>1. pg \in PagesShown
  BY NewPageType
<1>2. /\ pg.saving = 0 /\ pg.submitting = 0 /\ pg.draft = 0 /\ pg.inbox = {}
      /\ pg.page # "edit"
  BY DEF Page
<1>3. \A m \in wire : m.n # 0
  BY Bounds DEF Inv, Types, Messages
<1>4. 0 <= sent
  BY Bounds DEF Inv, Types
<1> HIDE DEF pg
<1>5. pg \in TabPages /\ PageFits(orders, wire, sent, t, pg)
  BY <1>1, <1>2, <1>3, <1>4 DEF TabPages, PageFits
<1> QED
  BY <1>5 DEF pg

(* A draft's page, perhaps with the save the tab still waits for. *)
LEMMA DraftFits ==
  ASSUME Inv, NEW t \in Tabs, NEW o \in Ids, IsDraft(o)
  PROVE  /\ DraftPage(o) \in TabPages
         /\ PageFits(orders, wire, sent, t, DraftPage(o))
<1> DEFINE pg == DraftPage(o)
<1>1. pg \in PagesShown
  BY DraftPageType DEF Inv, Types
<1>2. /\ pg.saving = 0 /\ pg.submitting = 0 /\ pg.draft = o /\ pg.inbox = {}
      /\ pg.version = orders[o].version /\ pg.seen = orders[o].cart
  BY Bounds DEF DraftPage, Page
<1>3. \A m \in wire : m.n # 0
  BY Bounds DEF Inv, Types, Messages
<1>4. 0 <= sent
  BY Bounds DEF Inv, Types
<1>5. Known(orders, o, orders[o].version, orders[o].cart)
  <2>1. orders[o].version \in Nat
    BY LiveRow DEF Inv, Types, IsDraft, LiveRows
  <2> QED
    BY <2>1 DEF Known, IsDraft
<1> HIDE DEF pg
<1>6. pg \in TabPages /\ PageFits(orders, wire, sent, t, pg)
  BY <1>1, <1>2, <1>3, <1>4, <1>5, Bounds DEF TabPages, PageFits
<1> QED
  BY <1>6 DEF pg

(* A page that keeps its draft and forgets requests or answers still fits. *)
LEMMA NarrowedFits ==
  ASSUME Inv, NEW t \in Tabs, NEW pg \in PagesShown, PageFits(orders, wire, sent, t, pg),
         NEW np \in PagesShown, np.draft = pg.draft, np.version = pg.version, np.seen = pg.seen,
         np.inbox \subseteq pg.inbox, np.saving \in {0, pg.saving},
         np.submitting \in {0, pg.submitting}, np.page = "edit" => pg.draft # 0
  PROVE  PageFits(orders, wire, sent, t, np)
<1>1. pg.page # "away"
  BY DEF PagesShown
<1>2. \A m \in wire : m.n # 0
  BY Bounds DEF Inv, Types, Messages
<1>3. \A a \in np.inbox : a.n # 0
  BY Bounds DEF PagesShown, Answers
<1>4. 0 <= sent
  BY Bounds DEF Inv, Types
<1> QED
  BY <1>1, <1>2, <1>3, <1>4 DEF PageFits

-----------------------------------------------------------------------------
(* The steps of a tab. *)

(* A page that is shown has all its columns and fits. *)
LEMMA Shown ==
  ASSUME Inv, NEW t \in Tabs, OnPage(t)
  PROVE  tab[t] \in PagesShown /\ PageFits(orders, wire, sent, t, tab[t])
BY DEF Inv, Types, Fits, OnPage, TabPages, Away

(* The key a create page draws on a visit, and the one its redisplay draws. *)
LEMMA KeyTypes ==
  ASSUME Types
  PROVE  /\ visits < MaxVisits => visits + 1 \in 0..MaxVisits /\ <<visits + 1, 0>> \in Keys
         /\ \A k \in Keys : k[2] < MaxRefreshes => <<k[1], k[2] + 1>> \in Keys
BY Bounds DEF Types, Keys

(* Loading a create page. *)
LEMMA CreateLoads ==
  ASSUME Inv, NEW t \in Tabs, UNCHANGED <<orders, wire, sent>>,
         LoadCreate(t) \/ \E c \in Customers \cup {NoCustomer} : LoadCreateFor(t, c)
  PROVE  Inv'
<1>1. Types
  BY DEF Inv
<1>2. /\ visits < MaxVisits /\ visits' = visits + 1
      /\ visits' \in 0..MaxVisits /\ <<visits', 0>> \in Keys
  BY <1>1, KeyTypes DEF LoadCreate, LoadCreateFor
<1>3. ASSUME NEW page \in {"create", "createFor"}, NEW cart \in Carts,
             Show(t, Page(page, cart, 0, 1, <<visits', 0>>))
      PROVE  Inv'
  <2> DEFINE pg == Page(page, cart, 0, 1, <<visits + 1, 0>>)
  <2>1. pg \in TabPages /\ PageFits(orders, wire, sent, t, pg)
    BY <1>2, CreateFits
  <2>2. tab' = [tab EXCEPT ![t] = pg] /\ stored' \in Carts
    BY <1>2, <1>3 DEF Show, Page
  <2> HIDE DEF pg
  <2> QED
    BY <1>2, <2>1, <2>2, TurnPage
<1>4. CASE LoadCreate(t)
  BY <1>1, <1>3, <1>4 DEF LoadCreate, Types
<1>5. ASSUME NEW c \in Customers \cup {NoCustomer}, LoadCreateFor(t, c)
      PROVE  Inv'
  BY <1>3, <1>5, CartTypes DEF LoadCreateFor
<1> QED
  BY <1>4, <1>5

(* Loading a draft, or being sent away because it is none any more. *)
LEMMA DraftLoads ==
  ASSUME Inv, NEW t \in Tabs, NEW o \in Ids, UNCHANGED <<orders, wire, sent, visits>>,
         LoadDraft(t, o)
  PROVE  Inv'
<1>1. stored \in Carts /\ visits \in 0..MaxVisits
  BY DEF Inv, Types
<1>2. CASE IsDraft(o)
  <2>1. DraftPage(o).cart \in Carts
    BY <1>2, DraftPageType DEF Inv, Types, PagesShown
  <2>2. tab' = [tab EXCEPT ![t] = DraftPage(o)] /\ stored' = DraftPage(o).cart
    BY <1>2 DEF LoadDraft, Show
  <2> QED
    BY <1>1, <1>2, <2>1, <2>2, DraftFits, TurnPage
<1>3. CASE ~IsDraft(o)
  BY <1>1, <1>3, AwayFits, TurnPage DEF LoadDraft
<1> QED
  BY <1>2, <1>3

(* Opening a page. *)
LEMMA OpenKeepsInv ==
  ASSUME Inv, NEW t \in Tabs, Open(t)
  PROVE  Inv'
BY CreateLoads, DraftLoads DEF Open, DraftsListed

(* Reloading it. *)
LEMMA ReloadKeepsInv ==
  ASSUME Inv, NEW t \in Tabs, Reload(t)
  PROVE  Inv'
<1>1. tab[t] \in PagesShown
  BY Shown DEF Reload
<1>2. tab[t].address \in Customers \cup {NoCustomer}
  BY <1>1 DEF PagesShown
<1>3. CASE tab[t].page # "edit"
  BY <1>1, <1>2, <1>3, CreateLoads DEF Reload
<1>4. CASE tab[t].page = "edit"
  <2>1. LoadDraft(t, tab[t].draft) /\ UNCHANGED <<orders, wire, sent, visits>>
    BY <1>4 DEF Reload
  <2>2. tab[t].draft \in Ids
    BY <1>1, <1>4, Shown DEF Reload, PageFits, PagesShown
  <2> QED
    BY <2>1, <2>2, DraftLoads
<1> QED
  BY <1>3, <1>4

(* Leaving the page. *)
LEMMA LeaveKeepsInv ==
  ASSUME Inv, NEW t \in Tabs, Leave(t)
  PROVE  Inv'
BY AwayFits, TurnPage DEF Leave, Inv, Types

(* Filtering the catalogue drops the submission under way. *)
LEMMA FilterKeepsInv ==
  ASSUME Inv, NEW t \in Tabs, Filter(t)
  PROVE  Inv'
<1> DEFINE np == [tab[t] EXCEPT !.submitting = 0,
                                !.inbox = {a \in tab[t].inbox : a.n # tab[t].submitting},
                                !.page = IF tab[t].draft # 0 THEN "edit" ELSE "createFor",
                                !.address = IF tab[t].draft # 0 THEN NoCustomer
                                            ELSE tab[t].cart.customer]
<1>1. /\ tab[t] \in PagesShown /\ PageFits(orders, wire, sent, t, tab[t])
      /\ stored' \in Carts /\ visits' \in 0..MaxVisits /\ UNCHANGED <<orders, wire, sent>>
  BY Shown DEF Filter, Inv, Types
<1>2. CASE tab' = [tab EXCEPT ![t] = Away]
  BY <1>1, <1>2, AwayFits, TurnPage
<1>3. CASE tab' = [tab EXCEPT ![t].submitting = 0,
                              ![t].inbox = {a \in @ : a.n # tab[t].submitting},
                              ![t].page = IF tab[t].draft # 0 THEN "edit" ELSE "createFor",
                              ![t].address = IF tab[t].draft # 0 THEN NoCustomer
                                             ELSE tab[t].cart.customer]
  <2>1. tab' = [tab EXCEPT ![t] = np]
    BY <1>3 DEF Inv, Types
  <2>2. np \in PagesShown
    BY <1>1 DEF PagesShown, WaitingFor, Carts
  <2>3. /\ np.draft = tab[t].draft /\ np.version = tab[t].version /\ np.seen = tab[t].seen
        /\ np.inbox \subseteq tab[t].inbox /\ np.saving = tab[t].saving /\ np.submitting = 0
        /\ np.page = "edit" => tab[t].draft # 0
    BY <1>1 DEF PagesShown
  <2> HIDE DEF np
  <2>4. PageFits(orders, wire, sent, t, np)
    BY <1>1, <2>2, <2>3, NarrowedFits
  <2> QED
    BY <1>1, <2>1, <2>2, <2>4, TurnPage DEF TabPages
<1> QED
  BY <1>2, <1>3 DEF Filter

(* Editing the cart. *)
LEMMA EditKeepsInv ==
  ASSUME Inv, NEW t \in Tabs, Edit(t)
  PROVE  Inv'
<1>1. /\ tab[t] \in PagesShown /\ PageFits(orders, wire, sent, t, tab[t])
      /\ visits' \in 0..MaxVisits /\ UNCHANGED <<orders, wire, sent>>
  BY Shown DEF Edit, Inv, Types
<1>2. PICK cart \in Edited(tab[t].cart) : Show(t, [tab[t] EXCEPT !.cart = cart])
  BY DEF Edit
<1>3. cart \in Carts
  BY <1>1, EditedType DEF PagesShown
<1> DEFINE np == [tab[t] EXCEPT !.cart = cart]
<1>4. np \in PagesShown /\ np.cart = cart
  BY <1>1, <1>3 DEF PagesShown
<1>5. /\ np.draft = tab[t].draft /\ np.version = tab[t].version /\ np.seen = tab[t].seen
      /\ np.inbox = tab[t].inbox /\ np.saving = tab[t].saving /\ np.submitting = tab[t].submitting
      /\ np.page = tab[t].page
  BY <1>1 DEF PagesShown
<1>6. tab' = [tab EXCEPT ![t] = np] /\ stored' = np.cart
  BY <1>2 DEF Show
<1> HIDE DEF np
<1>7. PageFits(orders, wire, sent, t, np)
  <2>1. np.page = "edit" => tab[t].draft # 0
    BY <1>1, <1>5 DEF PageFits
  <2> QED
    BY <1>1, <1>4, <1>5, <2>1, NarrowedFits
<1> QED
  BY <1>1, <1>3, <1>4, <1>6, <1>7, TurnPage DEF TabPages

(* Giving up on a request. *)
LEMMA GiveUpKeepsInv ==
  ASSUME Inv, NEW t \in Tabs, GiveUp(t)
  PROVE  Inv'
<1>1. /\ tab[t] \in PagesShown /\ PageFits(orders, wire, sent, t, tab[t])
      /\ stored' \in Carts /\ visits' \in 0..MaxVisits /\ UNCHANGED <<orders, wire, sent>>
  BY Shown DEF GiveUp, Inv, Types
<1>2. tab[t].page = "edit" => tab[t].draft # 0
  BY <1>1 DEF PageFits, PagesShown
<1>3. ASSUME NEW np \in PagesShown, tab' = [tab EXCEPT ![t] = np],
             np.draft = tab[t].draft, np.version = tab[t].version, np.seen = tab[t].seen,
             np.inbox \subseteq tab[t].inbox, np.saving \in {0, tab[t].saving},
             np.submitting \in {0, tab[t].submitting}, np.page = tab[t].page
      PROVE  Inv'
  BY <1>1, <1>2, <1>3, NarrowedFits, TurnPage DEF TabPages
<1>4. CASE tab' = [tab EXCEPT ![t].saving = 0, ![t].inbox = {a \in @ : a.n # tab[t].saving}]
  <2> DEFINE np == [tab[t] EXCEPT !.saving = 0,
                                  !.inbox = {a \in tab[t].inbox : a.n # tab[t].saving}]
  <2>1. tab' = [tab EXCEPT ![t] = np]
    BY <1>4 DEF Inv, Types
  <2>2. np \in PagesShown
    BY <1>1 DEF PagesShown, WaitingFor
  <2>3. /\ np.draft = tab[t].draft /\ np.version = tab[t].version /\ np.seen = tab[t].seen
        /\ np.inbox \subseteq tab[t].inbox /\ np.saving = 0
        /\ np.submitting = tab[t].submitting /\ np.page = tab[t].page
    BY <1>1 DEF PagesShown
  <2> HIDE DEF np
  <2> QED
    BY <1>3, <2>1, <2>2, <2>3
<1>5. CASE tab' = [tab EXCEPT ![t].submitting = 0, ![t].inbox = {a \in @ : a.n # tab[t].submitting}]
  <2> DEFINE np == [tab[t] EXCEPT !.submitting = 0,
                                  !.inbox = {a \in tab[t].inbox : a.n # tab[t].submitting}]
  <2>1. tab' = [tab EXCEPT ![t] = np]
    BY <1>5 DEF Inv, Types
  <2>2. np \in PagesShown
    BY <1>1 DEF PagesShown, WaitingFor
  <2>3. /\ np.draft = tab[t].draft /\ np.version = tab[t].version /\ np.seen = tab[t].seen
        /\ np.inbox \subseteq tab[t].inbox /\ np.submitting = 0
        /\ np.saving = tab[t].saving /\ np.page = tab[t].page
    BY <1>1 DEF PagesShown
  <2> HIDE DEF np
  <2> QED
    BY <1>3, <2>1, <2>2, <2>3
<1> QED
  BY <1>4, <1>5 DEF GiveUp

(* Reading the answer to a save: it tells the draft and what it now holds. *)
LEMMA SaveAnsweredKeepsInv ==
  ASSUME Inv, NEW t \in Tabs, SaveAnswered(t)
  PROVE  Inv'
<1>1. /\ tab[t] \in PagesShown /\ PageFits(orders, wire, sent, t, tab[t])
      /\ stored' \in Carts /\ visits' \in 0..MaxVisits /\ UNCHANGED <<orders, wire, sent>>
  BY Shown DEF SaveAnswered, Inv, Types
<1>2. tab[t].page = "edit" => tab[t].draft # 0
  BY <1>1 DEF PageFits, PagesShown
<1> DEFINE here == [tab[t] EXCEPT !.saving = 0]
<1>3. PICK a \in tab[t].inbox :
        /\ a.n = tab[t].saving
        /\ Read(t, a, IF a.result = "ok"
                      THEN [here EXCEPT !.draft = a.order, !.version = a.version, !.seen = a.cart]
                      ELSE here)
  BY DEF SaveAnswered
<1>4. a \in Answers
  BY <1>1 DEF PagesShown
<1> DEFINE rest == tab[t].inbox \ {a}
<1>5. CASE a.result = "ok"
  <2> DEFINE np == [tab[t] EXCEPT !.saving = 0, !.draft = a.order, !.version = a.version,
                                  !.seen = a.cart, !.inbox = rest]
  <2>1. tab' = [tab EXCEPT ![t] = np]
    <3>1. tab' = [tab EXCEPT ![t] =
                   [[here EXCEPT !.draft = a.order, !.version = a.version, !.seen = a.cart]
                      EXCEPT !.inbox = @ \ {a}]]
      BY <1>3, <1>5 DEF Read
    <3>2. [[here EXCEPT !.draft = a.order, !.version = a.version, !.seen = a.cart]
             EXCEPT !.inbox = @ \ {a}] = np
      BY <1>1 DEF PagesShown
    <3> QED
      BY <3>1, <3>2
  <2>2. np \in PagesShown
    BY <1>1, <1>4 DEF PagesShown, WaitingFor, Answers
  <2>3. /\ np.draft = a.order /\ np.version = a.version /\ np.seen = a.cart
        /\ np.inbox \subseteq tab[t].inbox /\ np.saving = 0 /\ np.submitting = tab[t].submitting
        /\ np.page = tab[t].page
    BY <1>1 DEF PagesShown
  <2> HIDE DEF np
  <2>4. a.order # 0 /\ Known(orders, a.order, a.version, a.cart)
    BY <1>1, <1>3, <1>5 DEF PageFits, PagesShown
  <2>5. PageFits(orders, wire, sent, t, np)
    <3>1. (\A m \in wire : m.n # 0) /\ (\A b \in np.inbox : b.n # 0) /\ 0 <= sent
      BY <2>2, Bounds DEF Inv, Types, Messages, PagesShown, Answers
    <3>2. tab[t].page # "away"
      BY <1>1 DEF PagesShown
    <3> QED
      BY <1>1, <2>3, <2>4, <3>1, <3>2 DEF PageFits
  <2> QED
    BY <1>1, <2>1, <2>2, <2>5, TurnPage DEF TabPages
<1>6. CASE a.result # "ok"
  <2> DEFINE np == [tab[t] EXCEPT !.saving = 0, !.inbox = rest]
  <2>1. tab' = [tab EXCEPT ![t] = np]
    <3>1. tab' = [tab EXCEPT ![t] = [here EXCEPT !.inbox = @ \ {a}]]
      BY <1>3, <1>6 DEF Read
    <3>2. [here EXCEPT !.inbox = @ \ {a}] = np
      BY <1>1 DEF PagesShown
    <3> QED
      BY <3>1, <3>2
  <2>2. np \in PagesShown
    BY <1>1 DEF PagesShown, WaitingFor
  <2>3. /\ np.draft = tab[t].draft /\ np.version = tab[t].version /\ np.seen = tab[t].seen
        /\ np.inbox \subseteq tab[t].inbox /\ np.saving = 0 /\ np.submitting = tab[t].submitting
        /\ np.page = tab[t].page
    BY <1>1 DEF PagesShown
  <2> HIDE DEF np
  <2>4. PageFits(orders, wire, sent, t, np)
    BY <1>1, <1>2, <2>2, <2>3, NarrowedFits
  <2> QED
    BY <1>1, <2>1, <2>2, <2>4, TurnPage DEF TabPages
<1> QED
  BY <1>5, <1>6

(* Showing the page again after a refusal. *)
LEMMA RedisplayKeepsInv ==
  ASSUME Inv, NEW t \in Tabs, OnPage(t), Redisplay(t), UNCHANGED <<orders, wire, visits, sent>>
  PROVE  Inv'
<1> DEFINE rest == {a \in tab[t].inbox : a.n # tab[t].submitting}
           here == [tab[t] EXCEPT !.submitting = 0, !.inbox = rest]
           key == <<tab[t].key[1], tab[t].key[2] + 1>>
<1>1. /\ tab[t] \in PagesShown /\ PageFits(orders, wire, sent, t, tab[t])
      /\ stored \in Carts /\ visits' \in 0..MaxVisits /\ UNCHANGED <<orders, wire, sent>>
  BY Shown DEF Inv, Types
<1>2. tab[t].page = "edit" => tab[t].draft # 0
  BY <1>1 DEF PageFits, PagesShown
<1>3. [here EXCEPT !.key = <<@[1], @[2] + 1>>] = [here EXCEPT !.key = key]
  BY <1>1 DEF PagesShown
<1>4. ASSUME NEW cart \in Carts, tab[t].page # "edit", tab[t].key[2] < MaxRefreshes,
             Show(t, [tab[t] EXCEPT !.submitting = 0, !.inbox = rest, !.key = key, !.cart = cart])
      PROVE  Inv'
  <2> DEFINE np == [tab[t] EXCEPT !.submitting = 0, !.inbox = rest, !.key = key, !.cart = cart]
  <2>1. key \in Keys
    BY <1>1, <1>4, KeyTypes DEF Inv, PagesShown
  <2> HIDE DEF key
  <2>2. np \in PagesShown /\ np.cart = cart
    BY <1>1, <2>1 DEF PagesShown, WaitingFor
  <2>3. /\ np.draft = tab[t].draft /\ np.version = tab[t].version /\ np.seen = tab[t].seen
        /\ np.inbox \subseteq tab[t].inbox /\ np.saving = tab[t].saving /\ np.submitting = 0
        /\ np.page = tab[t].page
    BY <1>1 DEF PagesShown
  <2>4. tab' = [tab EXCEPT ![t] = np] /\ stored' = np.cart
    BY <1>4 DEF Show
  <2> HIDE DEF np
  <2>5. PageFits(orders, wire, sent, t, np)
    BY <1>1, <1>2, <2>2, <2>3, NarrowedFits
  <2> QED
    BY <1>1, <2>2, <2>4, <2>5, TurnPage DEF TabPages
<1>5. CASE tab[t].page = "create" /\ tab[t].key[2] < MaxRefreshes
           /\ Show(t, [[here EXCEPT !.key = <<@[1], @[2] + 1>>] EXCEPT !.cart = stored])
  <2>1. [[here EXCEPT !.key = <<@[1], @[2] + 1>>] EXCEPT !.cart = stored]
          = [tab[t] EXCEPT !.submitting = 0, !.inbox = rest, !.key = key, !.cart = stored]
    BY <1>1, <1>3 DEF PagesShown
  <2> QED
    BY <1>1, <1>4, <1>5, <2>1
<1>6. CASE tab[t].page = "createFor" /\ tab[t].key[2] < MaxRefreshes
           /\ Show(t, [[here EXCEPT !.key = <<@[1], @[2] + 1>>]
                          EXCEPT !.cart = WithCustomer(@, tab[t].address)])
  <2>1. [[here EXCEPT !.key = <<@[1], @[2] + 1>>] EXCEPT !.cart = WithCustomer(@, tab[t].address)]
          = [tab[t] EXCEPT !.submitting = 0, !.inbox = rest, !.key = key,
                           !.cart = WithCustomer(tab[t].cart, tab[t].address)]
    BY <1>1, <1>3 DEF PagesShown
  <2>2. WithCustomer(tab[t].cart, tab[t].address) \in Carts
    BY <1>1 DEF PagesShown, WithCustomer, Carts
  <2> QED
    BY <1>4, <1>6, <2>1, <2>2
<1>7. CASE tab[t].page = "edit" /\ IsDraft(tab[t].draft)
           /\ Show(t, [DraftPage(tab[t].draft) EXCEPT !.saving = here.saving, !.inbox = here.inbox])
  <2> DEFINE dp == DraftPage(tab[t].draft)
             np == [dp EXCEPT !.saving = here.saving, !.inbox = here.inbox]
  <2>1. tab[t].draft \in Ids
    BY <1>1, <1>2, <1>7 DEF PagesShown
  <2>2. dp \in PagesShown /\ PageFits(orders, wire, sent, t, dp)
    BY <1>7, <2>1, DraftPageType, DraftFits DEF Inv, Types
  <2>3. here.saving = tab[t].saving /\ here.inbox = rest /\ rest \subseteq tab[t].inbox
    BY <1>1 DEF PagesShown
  <2>4. np = [dp EXCEPT !.saving = tab[t].saving, !.inbox = rest]
    BY <2>3
  <2> HIDE DEF rest, dp, np
  <2>5. np \in PagesShown
    BY <1>1, <2>2, <2>3, <2>4 DEF PagesShown
  <2>6. /\ np.draft = dp.draft /\ np.version = dp.version /\ np.seen = dp.seen /\ np.cart = dp.cart
        /\ np.inbox = rest /\ np.saving = tab[t].saving /\ np.submitting = dp.submitting
        /\ np.page = dp.page
    BY <2>2, <2>4 DEF PagesShown
  <2>7. PageFits(orders, wire, sent, t, np)
    <3>1. tab[t].page # "away" /\ dp.page # "away"
      BY <1>1, <2>2 DEF PagesShown
    <3> QED
      BY <1>1, <2>2, <2>3, <2>6, <3>1 DEF PageFits
  <2>8. tab' = [tab EXCEPT ![t] = np] /\ stored' = np.cart
    BY <1>7 DEF Show, np, dp
  <2>9. np.cart \in Carts
    BY <2>5 DEF PagesShown
  <2> QED
    BY <1>1, <2>5, <2>7, <2>8, <2>9, TurnPage DEF TabPages
<1>8. CASE tab' = [tab EXCEPT ![t] = Away] /\ stored' = EmptyCart
  BY <1>1, <1>8, AwayFits, CartTypes, TurnPage
<1> QED
  BY <1>5, <1>6, <1>7, <1>8 DEF Redisplay

(* Reading the answer to a submission. *)
LEMMA SubmitAnsweredKeepsInv ==
  ASSUME Inv, NEW t \in Tabs, SubmitAnswered(t)
  PROVE  Inv'
<1>1. /\ OnPage(t) /\ tab[t] \in PagesShown /\ PageFits(orders, wire, sent, t, tab[t])
      /\ stored \in Carts /\ visits' \in 0..MaxVisits /\ UNCHANGED <<orders, wire, visits, sent>>
  BY Shown DEF SubmitAnswered, Inv, Types
<1>2. CASE tab' = [tab EXCEPT ![t] = Away] /\ stored' = EmptyCart
  BY <1>1, <1>2, AwayFits, CartTypes, TurnPage
<1>3. ASSUME NEW a \in tab[t].inbox, Read(t, a, [tab[t] EXCEPT !.submitting = 0]), UNCHANGED stored
      PROVE  Inv'
  <2> DEFINE np == [tab[t] EXCEPT !.submitting = 0, !.inbox = tab[t].inbox \ {a}]
  <2>1. tab' = [tab EXCEPT ![t] = np]
    <3>1. [[tab[t] EXCEPT !.submitting = 0] EXCEPT !.inbox = @ \ {a}] = np
      BY <1>1 DEF PagesShown
    <3> QED
      BY <1>3, <3>1 DEF Read
  <2>2. np \in PagesShown
    BY <1>1 DEF PagesShown, WaitingFor
  <2>3. /\ np.draft = tab[t].draft /\ np.version = tab[t].version /\ np.seen = tab[t].seen
        /\ np.inbox \subseteq tab[t].inbox /\ np.saving = tab[t].saving /\ np.submitting = 0
        /\ np.page = tab[t].page
    BY <1>1 DEF PagesShown
  <2> HIDE DEF np
  <2>4. tab[t].page = "edit" => tab[t].draft # 0
    BY <1>1 DEF PageFits, PagesShown
  <2>5. PageFits(orders, wire, sent, t, np)
    BY <1>1, <2>2, <2>3, <2>4, NarrowedFits
  <2> QED
    BY <1>1, <1>3, <2>1, <2>2, <2>5, TurnPage DEF TabPages
<1>4. CASE Redisplay(t)
  BY <1>1, <1>4, RedisplayKeepsInv
<1> QED
  BY <1>2, <1>3, <1>4 DEF SubmitAnswered

-----------------------------------------------------------------------------
(* Sending a request. *)

(* The numbers on a page. *)
LEMMA PageNumbers ==
  ASSUME NEW pg \in PagesShown
  PROVE  /\ pg.saving \in Nat /\ pg.submitting \in Nat /\ pg.page # "away"
         /\ \A a \in pg.inbox : a.n \in Nat
<1>1. WaitingFor \subseteq Nat
  BY Bounds DEF WaitingFor
<1>2. pg.saving \in WaitingFor /\ pg.submitting \in WaitingFor /\ pg.page # "away"
      /\ pg.inbox \subseteq Answers
  BY DEF PagesShown
<1>3. \A a \in Answers : a.n \in Nat
  BY Bounds DEF Answers
<1> QED
  BY <1>1, <1>2, <1>3

(* A request under a new number, by a tab that waits for it. *)
LEMMA SendKeepsInv ==
  ASSUME Inv, NEW t \in Tabs, NEW m \in Messages, NEW np \in PagesShown, sent < MaxRequests,
         sent' = sent + 1, wire' = wire \cup {m}, tab' = [tab EXCEPT ![t] = np],
         UNCHANGED <<orders, stored, visits>>,
         m.n = sent + 1, m.tab = t, MessageFits(orders, sent + 1, m),
         np.draft = tab[t].draft, np.version = tab[t].version, np.seen = tab[t].seen,
         np.inbox = tab[t].inbox, np.page = tab[t].page, OnPage(t),
         \/ m.kind = "save" /\ np.saving = sent + 1 /\ np.submitting = tab[t].submitting
         \/ np.submitting = sent + 1 /\ np.saving = tab[t].saving
  PROVE  Inv'
<1>1. sent \in Nat /\ sent' \in 0..MaxRequests
  BY Bounds DEF Inv, Types
<1>2. Types'
  BY <1>1 DEF Inv, Types, TabPages
<1>3. OneOrderPerKey'
  BY DEF Inv, OneOrderPerKey, Book!KeyFree, Book!Live
<1>4. \A k \in wire : k.n \in Nat /\ k.n <= sent /\ MessageFits(orders, sent, k)
  BY Bounds DEF Inv, Types, Fits, Messages, MessageFits
<1>5. \A k \in wire' : MessageFits(orders', sent', k)
  BY <1>1, <1>4 DEF MessageFits
<1>6. Numbered(wire')
  <2>1. \A k \in wire : k.n # m.n
    BY <1>1, <1>4
  <2> QED
    BY <2>1 DEF Inv, Fits, Numbered
<1>7. Unsent(orders', sent')
  <2>1. ASSUME NEW i \in Requests, i > sent + 1
        PROVE  orders[i].status = "ABSENT"
    <3>1. i \in Nat /\ i > sent
      BY <1>1, <2>1, Bounds
    <3> QED
      BY <3>1 DEF Inv, Fits, Unsent
  <2> QED
    BY <2>1 DEF Unsent
<1>8. tab[t] \in PagesShown /\ PageFits(orders, wire, sent, t, tab[t])
  BY Shown
<1>9. PageFits(orders', wire', sent', t, np)
  <2>1. /\ tab[t].saving \in Nat /\ tab[t].submitting \in Nat /\ tab[t].page # "away"
        /\ \A a \in tab[t].inbox : a.n \in Nat
    BY <1>8, PageNumbers
  <2>2. /\ tab[t].saving <= sent /\ tab[t].submitting <= sent
        /\ tab[t].draft # 0 => Known(orders, tab[t].draft, tab[t].version, tab[t].seen)
        /\ tab[t].page = "edit" => tab[t].draft # 0
        /\ \A a \in tab[t].inbox : a.n <= sent
        /\ \A a \in tab[t].inbox : a.result = "ok" =>
             a.order # 0 /\ (a.n = tab[t].saving => Known(orders, a.order, a.version, a.cart))
        /\ \A k \in wire : k.tab = t /\ k.n = tab[t].saving => k.kind = "save"
    BY <1>8, <2>1 DEF PageFits
  <2>3. /\ np.saving <= sent + 1 /\ np.submitting <= sent + 1
        /\ \A a \in np.inbox : a.n <= sent + 1
    BY <1>1, <2>1, <2>2
  <2>4. \A a \in np.inbox : a.result = "ok" =>
          a.order # 0 /\ (a.n = np.saving => Known(orders, a.order, a.version, a.cart))
    BY <1>1, <2>1, <2>2
  <2>5. \A k \in wire' : k.tab = t /\ k.n = np.saving => k.kind = "save"
    BY <1>1, <1>4, <2>1, <2>2
  <2> QED
    BY <2>2, <2>3, <2>4, <2>5 DEF PageFits
<1>10. ASSUME NEW u \in Tabs
       PROVE  PageFits(orders', wire', sent', u, tab'[u])
  <2>1. CASE u = t
    BY <1>9, <2>1 DEF Inv, Types
  <2>2. CASE u # t
    <3>1. tab'[u] = tab[u] /\ tab[u] \in TabPages /\ PageFits(orders, wire, sent, u, tab[u])
      BY <2>2 DEF Inv, Types, Fits
    <3>2. CASE tab[u].page = "away"
      BY <3>1, <3>2 DEF PageFits
    <3>3. CASE tab[u] \in PagesShown
      <4>1. /\ tab[u].saving \in Nat /\ tab[u].submitting \in Nat
            /\ \A a \in tab[u].inbox : a.n \in Nat
        BY <3>3, PageNumbers
      <4> QED
        BY <1>1, <2>2, <3>1, <4>1 DEF PageFits
    <3> QED
      BY <3>1, <3>2, <3>3 DEF TabPages, Away
  <2> QED
    BY <2>1, <2>2
<1> QED
  BY <1>2, <1>3, <1>5, <1>6, <1>7, <1>10 DEF Inv, Fits

(* A save tells what the tab knows of its draft. *)
LEMMA SaveKeepsInv ==
  ASSUME Inv, NEW t \in Tabs, Save(t)
  PROVE  Inv'
<1>1. /\ OnPage(t) /\ sent < MaxRequests /\ sent' = sent + 1 /\ UNCHANGED <<orders, stored, visits>>
      /\ tab[t] \in PagesShown /\ PageFits(orders, wire, sent, t, tab[t])
  BY Shown DEF Save, MaySave, Send
<1>2. sent \in Nat /\ sent + 1 \in Requests
  BY <1>1, Bounds DEF Inv, Types, Requests
<1> DEFINE m == [n |-> sent + 1, tab |-> t, kind |-> "save", key |-> tab[t].key, pay |-> 0,
                 order |-> 0, draft |-> tab[t].draft, version |-> tab[t].version,
                 cart |-> tab[t].cart, seen |-> tab[t].seen]
           np == [tab[t] EXCEPT !.saving = sent + 1]
<1>3. wire' = wire \cup {m}
  BY DEF Save, Send
<1>4. m \in Messages
  BY <1>1, <1>2 DEF Messages, PagesShown
<1>5. tab' = [tab EXCEPT ![t] = np]
  BY DEF Save, Inv, Types
<1>6. np \in PagesShown
  BY <1>1, <1>2 DEF PagesShown, WaitingFor
<1>7. /\ np.draft = tab[t].draft /\ np.version = tab[t].version /\ np.seen = tab[t].seen
      /\ np.inbox = tab[t].inbox /\ np.saving = sent + 1 /\ np.submitting = tab[t].submitting
      /\ np.page = tab[t].page
  BY <1>1 DEF PagesShown
<1>8. MessageFits(orders, sent + 1, m)
  <2>1. tab[t].draft # 0 => Known(orders, tab[t].draft, tab[t].version, tab[t].seen)
    BY <1>1 DEF PageFits, PagesShown
  <2>2. orders[sent + 1].status = "ABSENT"
    BY <1>2 DEF Inv, Fits, Unsent
  <2> QED
    BY <1>2, <2>1, <2>2 DEF MessageFits
<1>9. m.n = sent + 1 /\ m.tab = t /\ m.kind = "save"
  OBVIOUS
<1> HIDE DEF m, np
<1> QED
  BY <1>1, <1>3, <1>4, <1>5, <1>6, <1>7, <1>8, <1>9, SendKeepsInv

(* A submission. *)
LEMMA SubmitKeepsInv ==
  ASSUME Inv, NEW t \in Tabs, Submit(t)
  PROVE  Inv'
<1>1. /\ OnPage(t) /\ UNCHANGED <<orders, stored, visits>>
      /\ tab[t] \in PagesShown /\ PageFits(orders, wire, sent, t, tab[t])
  BY Shown DEF Submit, MaySubmit
<1> DEFINE kind == IF tab[t].draft # 0 THEN "submit" ELSE "place"
<1>2. PICK pay \in PaymentsOffered(t) : Send(t, kind, pay)
  BY DEF Submit
<1>3. /\ sent < MaxRequests /\ sent' = sent + 1 /\ sent \in Nat /\ sent + 1 \in Requests
      /\ pay \in Nat
  BY <1>2, Bounds DEF Send, Inv, Types, Requests, PaymentsOffered
<1> DEFINE cart == IF kind = "submit" THEN EmptyCart ELSE tab[t].cart
           m == [n |-> sent + 1, tab |-> t, kind |-> kind, key |-> tab[t].key, pay |-> pay,
                 order |-> 0, draft |-> tab[t].draft, version |-> 0, cart |-> cart,
                 seen |-> EmptyCart]
           np == [tab[t] EXCEPT !.submitting = sent + 1]
<1>4. wire' = wire \cup {m}
  BY <1>2 DEF Send
<1>5. kind \in {"submit", "place"} /\ cart \in Carts
  BY <1>1, CartTypes DEF PagesShown
<1>6. (kind = "submit" => tab[t].draft # 0) /\ (kind = "place" => tab[t].draft = 0)
  OBVIOUS
<1> HIDE DEF kind, cart
<1>7. m \in Messages
  BY <1>1, <1>3, <1>5, CartTypes DEF Messages, PagesShown
<1>8. tab' = [tab EXCEPT ![t] = np]
  BY DEF Submit, Inv, Types
<1>9. np \in PagesShown
  BY <1>1, <1>3 DEF PagesShown, WaitingFor
<1>10. /\ np.draft = tab[t].draft /\ np.version = tab[t].version /\ np.seen = tab[t].seen
       /\ np.inbox = tab[t].inbox /\ np.submitting = sent + 1 /\ np.saving = tab[t].saving
       /\ np.page = tab[t].page
  BY <1>1 DEF PagesShown
<1>11. MessageFits(orders, sent + 1, m)
  <2>1. orders[sent + 1].status = "ABSENT"
    BY <1>3 DEF Inv, Fits, Unsent
  <2> QED
    BY <1>3, <1>5, <1>6, <2>1 DEF MessageFits
<1>12. m.n = sent + 1 /\ m.tab = t
  OBVIOUS
<1> HIDE DEF m, np
<1> QED
  BY <1>1, <1>3, <1>4, <1>7, <1>8, <1>9, <1>10, <1>11, <1>12, SendKeepsInv

-----------------------------------------------------------------------------
(* Steps that write rows: what tabs and messages know stays true while drafts
   only grow. *)

Grown(rows, after) ==
  \A o \in Ids :
    /\ rows[o].status # "ABSENT" => after[o].status # "ABSENT"
    /\ rows[o].status # "ABSENT" /\ after[o].status = "DRAFT" =>
         /\ rows[o].status = "DRAFT"
         /\ rows[o].version <= after[o].version
         /\ rows[o].version = after[o].version => rows[o].cart = after[o].cart

(* What is known stays true. *)
LEMMA KnownGrows ==
  ASSUME orders \in [Ids -> Rows], orders' \in [Ids -> Rows], Grown(orders, orders'),
         NEW o \in Ids, NEW v \in Nat, NEW cart, Known(orders, o, v, cart)
  PROVE  Known(orders', o, v, cart)
<1>1. CASE orders'[o].status # "DRAFT"
  BY <1>1 DEF Grown, Known
<1>2. CASE orders'[o].status = "DRAFT"
  <2>1. orders[o].status = "DRAFT"
    BY <1>2 DEF Grown, Known
  <2>2. orders[o].version \in Nat /\ orders'[o].version \in Nat
    BY <1>2, <2>1, LiveRow DEF LiveRows
  <2> QED
    BY <1>2, <2>1, <2>2 DEF Grown, Known
<1> QED
  BY <1>1, <1>2

(* A page still fits. *)
LEMMA PageGrows ==
  ASSUME Inv, orders' \in [Ids -> Rows], Grown(orders, orders'),
         NEW t \in Tabs, NEW pg \in TabPages, PageFits(orders, wire, sent, t, pg), NEW messages,
         \A k \in messages : \E m \in wire : k.tab = m.tab /\ k.n = m.n /\ k.kind = m.kind
  PROVE  PageFits(orders', messages, sent, t, pg)
<1>1. CASE pg.page = "away"
  BY <1>1 DEF PageFits
<1>2. CASE pg \in PagesShown
  <2>1. orders \in [Ids -> Rows]
    BY DEF Inv, Types
  <2>2. pg.draft # 0 => Known(orders', pg.draft, pg.version, pg.seen)
    BY <1>2, <2>1, KnownGrows DEF PageFits, PagesShown
  <2>3. \A a \in pg.inbox : a.result = "ok" =>
          a.order # 0 /\ (a.n = pg.saving => Known(orders', a.order, a.version, a.cart))
    <3>1. SUFFICES ASSUME NEW a \in pg.inbox, a.result = "ok"
                   PROVE  /\ a.order # 0
                          /\ a.n = pg.saving => Known(orders', a.order, a.version, a.cart)
      OBVIOUS
    <3>2. a.order \in {0} \cup Ids /\ a.version \in Nat
      BY <1>2 DEF PagesShown, Answers
    <3>3. a.order # 0 /\ (a.n = pg.saving => Known(orders, a.order, a.version, a.cart))
      BY <1>2, <3>1 DEF PageFits, PagesShown
    <3> QED
      BY <2>1, <3>2, <3>3, KnownGrows
  <2> QED
    BY <1>2, <2>2, <2>3 DEF PageFits, PagesShown
<1> QED
  BY <1>1, <1>2 DEF TabPages, Away

(* A message whose number is not taken still fits. *)
LEMMA MessageGrows ==
  ASSUME Inv, orders' \in [Ids -> Rows], Grown(orders, orders'), NEW k \in wire,
         orders[k.n].status = "ABSENT" => orders'[k.n].status = "ABSENT"
  PROVE  MessageFits(orders', sent, k)
<1>1. orders \in [Ids -> Rows] /\ k \in Messages /\ MessageFits(orders, sent, k)
  BY DEF Inv, Types, Fits
<1>2. k.kind = "save" /\ k.draft # 0 => Known(orders', k.draft, k.version, k.seen)
  BY <1>1, KnownGrows DEF MessageFits, Messages
<1> QED
  BY <1>1, <1>2 DEF MessageFits

(* Writing one row: it may become a draft, be revised, be submitted, approved or
   discarded, or collect a payment. *)
LEMMA RowGrows ==
  ASSUME orders \in [Ids -> Rows], NEW o \in Ids, NEW row \in Rows,
         orders' = [orders EXCEPT ![o] = row], row.status # "ABSENT",
         row.status = "DRAFT" =>
           \/ orders[o].status = "ABSENT"
           \/ orders[o].status = "DRAFT" /\ row.version = orders[o].version + 1
  PROVE  /\ orders' \in [Ids -> Rows] /\ Grown(orders, orders')
         /\ \A i \in Ids : orders[i].status = "ABSENT" /\ i # o => orders'[i].status = "ABSENT"
<1>1. /\ orders' \in [Ids -> Rows] /\ orders'[o] = row
      /\ \A i \in Ids : i # o => orders'[i] = orders[i]
  OBVIOUS
<1>2. \A i \in Ids : orders[i].status = "DRAFT" => orders[i].version \in Nat
  BY LiveRow DEF LiveRows
<1>3. ASSUME NEW i \in Ids
      PROVE  /\ orders[i].status # "ABSENT" => orders'[i].status # "ABSENT"
             /\ orders[i].status # "ABSENT" /\ orders'[i].status = "DRAFT" =>
                  /\ orders[i].status = "DRAFT"
                  /\ orders[i].version <= orders'[i].version
                  /\ orders[i].version = orders'[i].version => orders[i].cart = orders'[i].cart
  BY <1>1, <1>2
<1> QED
  BY <1>1, <1>3 DEF Grown

(* Writing no row. *)
LEMMA NothingGrows ==
  ASSUME orders \in [Ids -> Rows], UNCHANGED orders
  PROVE  /\ orders' \in [Ids -> Rows] /\ Grown(orders, orders')
         /\ \A i \in Ids : orders[i].status = "ABSENT" => orders'[i].status = "ABSENT"
<1>1. \A i \in Ids : orders[i].status = "DRAFT" => orders[i].version \in Nat
  BY LiveRow DEF LiveRows
<1> QED
  BY <1>1 DEF Grown

(* A row that keeps its key. *)
LEMMA KeysKept ==
  ASSUME OneOrderPerKey, NEW o \in Ids, NEW row, orders \in [Ids -> Rows],
         orders' = [orders EXCEPT ![o] = row],
         row.status \notin {"ABSENT", "DISCARDED"} => Book!Live(o) /\ row.key = orders[o].key
  PROVE  OneOrderPerKey'
BY DEF OneOrderPerKey, Book!KeyFree, Book!Live

(* A row that takes a free key. *)
LEMMA KeyTaken ==
  ASSUME OneOrderPerKey, NEW o \in Ids, NEW row, orders \in [Ids -> Rows],
         orders' = [orders EXCEPT ![o] = row], Book!KeyFree(row.key, o)
  PROVE  OneOrderPerKey'
BY DEF OneOrderPerKey, Book!KeyFree, Book!Live

(* No row is written. *)
LEMMA KeysUnchanged ==
  ASSUME OneOrderPerKey, UNCHANGED orders
  PROVE  OneOrderPerKey'
BY DEF OneOrderPerKey, Book!KeyFree, Book!Live

-----------------------------------------------------------------------------
(* The server. *)

(* An answer is right: it names the order, and what a saved draft now holds. *)
AnswerFits(rows, m, result, o) ==
  result = "ok" =>
    /\ o # 0
    /\ m.kind = "save" => Known(rows, o, IF m.draft = 0 THEN 1 ELSE m.version + 1, m.cart)

(* It is enough to look at the pages and at what replaces the request. *)
LEMMA ServedKeepsInv ==
  ASSUME Inv, NEW m \in wire, NEW left \in SUBSET Messages, wire' = (wire \ {m}) \cup left,
         \A k \in left : k.n = m.n /\ MessageFits(orders', sent, k),
         \A k, l \in left : k = l,
         UNCHANGED <<stored, visits, sent>>,
         orders' \in [Ids -> Rows], Grown(orders, orders'), OneOrderPerKey',
         \A i \in Ids : orders[i].status = "ABSENT" /\ i # m.n => orders'[i].status = "ABSENT",
         tab' \in [Tabs -> TabPages],
         \A t \in Tabs : PageFits(orders', wire', sent, t, tab'[t])
  PROVE  Inv'
<1>1. /\ wire \subseteq Messages /\ Numbered(wire) /\ sent \in Nat
      /\ \A k \in wire : k.n \in Ids /\ k.n \in Nat /\ k.n <= sent
  <2>1. /\ wire \subseteq Messages /\ Numbered(wire) /\ sent \in Nat
        /\ \A k \in wire : k.n <= sent
    BY Bounds DEF Inv, Types, Fits, MessageFits
  <2>2. \A k \in wire : k.n \in Requests
    BY <2>1 DEF Messages
  <2> QED
    BY <2>1, <2>2, Bounds
<1>2. Types'
  BY <1>1 DEF Inv, Types
<1>3. \A k \in wire \ {m} : k.n # m.n
  BY <1>1 DEF Numbered
<1>4. \A k \in wire \ {m} : MessageFits(orders', sent, k)
  BY <1>1, <1>3, MessageGrows
<1>5. Unsent(orders', sent)
  <2>1. ASSUME NEW i \in Requests, i > sent
        PROVE  orders'[i].status = "ABSENT"
    <3>1. i \in Ids /\ i \in Nat /\ orders[i].status = "ABSENT"
      BY <2>1, Bounds DEF Inv, Fits, Unsent
    <3>2. i # m.n
      BY <1>1, <2>1, <3>1
    <3> QED
      BY <3>1, <3>2
  <2> QED
    BY <2>1 DEF Unsent
<1>6. Numbered(wire')
  BY <1>1, <1>3 DEF Numbered
<1> QED
  BY <1>2, <1>4, <1>5, <1>6 DEF Inv, Fits

(* An answer that fits reaches the tab, or nobody. *)
LEMMA AnsweredKeepsInv ==
  ASSUME Inv, NEW m \in wire, NEW o \in {0} \cup Ids,
         NEW result \in {"ok", "conflict", "invalid", "gone", "error", "lost"},
         Answered(m, result, o), UNCHANGED <<stored, visits, sent>>,
         orders' \in [Ids -> Rows], Grown(orders, orders'), OneOrderPerKey',
         \A i \in Ids : orders[i].status = "ABSENT" /\ i # m.n => orders'[i].status = "ABSENT",
         AnswerFits(orders', m, result, o)
  PROVE  Inv'
<1> DEFINE a == [n |-> m.n, result |-> result, order |-> o,
                 version |-> IF m.draft = 0 THEN 1 ELSE m.version + 1, cart |-> m.cart]
<1>1. /\ m \in Messages /\ MessageFits(orders, sent, m) /\ Numbered(wire)
      /\ wire \subseteq Messages /\ wire' = wire \ {m} /\ tab \in [Tabs -> TabPages]
  BY DEF Inv, Types, Fits, Answered
<1>2. a \in Answers
  BY <1>1 DEF Messages, Answers
<1>3. /\ a.n = m.n /\ a.result = result /\ a.order = o /\ a.cart = m.cart
      /\ a.version = IF m.draft = 0 THEN 1 ELSE m.version + 1
  OBVIOUS
<1> HIDE DEF a
<1>4. ASSUME tab' \in [Tabs -> TabPages], \A t \in Tabs : PageFits(orders', wire', sent, t, tab'[t])
      PROVE  Inv'
  <2>1. wire' = (wire \ {m}) \cup {} /\ {} \in SUBSET Messages
    BY <1>1
  <2> QED
    BY <1>4, <2>1, ServedKeepsInv
<1>5. ASSUME NEW t \in Tabs
      PROVE  PageFits(orders', wire', sent, t, tab[t])
  BY <1>1, PageGrows DEF Inv, Fits
<1>6. CASE Waiting(m.tab, m.n)
  <2> DEFINE pg == tab[m.tab]
             np == [pg EXCEPT !.inbox = pg.inbox \cup {a}]
  <2>1. m.tab \in Tabs
    BY <1>1 DEF Messages
  <2>2. pg \in PagesShown /\ PageFits(orders', wire', sent, m.tab, pg)
    BY <1>5, <1>6, <2>1, Shown DEF Waiting
  <2>3. tab' = [tab EXCEPT ![m.tab] = np]
    BY <1>1, <1>6, <2>1 DEF Answered, a
  <2>4. np \in PagesShown
    BY <1>2, <2>2 DEF PagesShown
  <2>5. /\ np.draft = pg.draft /\ np.version = pg.version /\ np.seen = pg.seen
        /\ np.inbox = pg.inbox \cup {a} /\ np.saving = pg.saving /\ np.submitting = pg.submitting
        /\ np.page = pg.page
    BY <2>2 DEF PagesShown
  <2>6. m.n = pg.saving => m.kind = "save"
    BY <1>1, <2>1, <2>2 DEF Inv, Fits, PageFits, PagesShown
  <2> HIDE DEF np
  <2>7. PageFits(orders', wire', sent, m.tab, np)
    <3>1. pg.page # "away"
      BY <2>2 DEF PagesShown
    <3>2. a.n <= sent
      BY <1>1, <1>3 DEF MessageFits
    <3>3. a.result = "ok" =>
            a.order # 0 /\ (a.n = pg.saving => Known(orders', a.order, a.version, a.cart))
      BY <1>3, <2>6 DEF AnswerFits
    <3> HIDE DEF pg
    <3> QED
      BY <2>2, <2>5, <3>1, <3>2, <3>3 DEF PageFits
  <2>8. tab' \in [Tabs -> TabPages]
    BY <1>1, <2>1, <2>3, <2>4 DEF TabPages
  <2>9. \A t \in Tabs : PageFits(orders', wire', sent, t, tab'[t])
    BY <1>1, <1>5, <2>1, <2>3, <2>7
  <2> QED
    BY <1>4, <2>8, <2>9
<1>7. CASE ~Waiting(m.tab, m.n)
  <2>1. tab' = tab
    BY <1>7 DEF Answered
  <2> QED
    BY <1>1, <1>5, <1>4, <2>1
<1> QED
  BY <1>6, <1>7

(* A submission whose payment is still to be tried stays on the wire. *)
LEMMA AcceptedKeepsInv ==
  ASSUME Inv, NEW m \in wire, NEW o \in Ids, m.kind # "save",
         Accepted(m, o), UNCHANGED <<stored, visits, sent>>,
         orders' \in [Ids -> Rows], Grown(orders, orders'), OneOrderPerKey',
         \A i \in Ids : orders[i].status = "ABSENT" /\ i # m.n => orders'[i].status = "ABSENT"
  PROVE  Inv'
<1>1. o # 0 /\ o \in {0} \cup Ids
  BY Bounds
<1>2. CASE m.pay = 0
  BY <1>1, <1>2, AnsweredKeepsInv DEF Accepted, AnswerFits
<1>3. CASE m.pay # 0
  <2> DEFINE mm == [m EXCEPT !.order = o]
  <2>1. wire' = (wire \ {m}) \cup {mm} /\ tab' = tab
    BY <1>3 DEF Accepted
  <2>2. m \in Messages /\ MessageFits(orders, sent, m) /\ tab \in [Tabs -> TabPages]
    BY DEF Inv, Types, Fits
  <2>3. mm \in Messages
    BY <2>2 DEF Messages
  <2>4. /\ mm.n = m.n /\ mm.tab = m.tab /\ mm.kind = m.kind /\ mm.order = o /\ mm.draft = m.draft
        /\ mm.version = m.version /\ mm.seen = m.seen
    BY <2>2 DEF Messages
  <2> HIDE DEF mm
  <2>5. MessageFits(orders', sent, mm)
    BY <1>1, <2>2, <2>4 DEF MessageFits
  <2>6. \A k \in wire' : \E l \in wire : k.tab = l.tab /\ k.n = l.n /\ k.kind = l.kind
    BY <2>1, <2>4
  <2>7. \A t \in Tabs : PageFits(orders', wire', sent, t, tab'[t])
    BY <2>1, <2>2, <2>6, PageGrows DEF Inv, Fits
  <2>8. {mm} \in SUBSET Messages
    BY <2>3
  <2> QED
    BY <2>1, <2>2, <2>4, <2>5, <2>7, <2>8, ServedKeepsInv
<1> QED
  BY <1>2, <1>3

(* A refusal. *)
LEMMA RefusedKeepsInv ==
  ASSUME Inv, NEW m \in wire,
         NEW result \in {"conflict", "invalid", "gone", "error", "lost"},
         Refused(m, result), UNCHANGED <<stored, visits, sent>>
  PROVE  Inv'
<1>1. /\ orders' \in [Ids -> Rows] /\ Grown(orders, orders') /\ OneOrderPerKey'
      /\ \A i \in Ids : orders[i].status = "ABSENT" /\ i # m.n => orders'[i].status = "ABSENT"
  BY NothingGrows, KeysUnchanged DEF Inv, Types, Refused
<1>2. AnswerFits(orders', m, result, 0)
  BY DEF AnswerFits
<1> QED
  BY <1>1, <1>2, AnsweredKeepsInv DEF Refused

(* Writing the row of an order that exists, or opening one under the request's
   own number. *)
LEMMA WroteRow ==
  ASSUME Inv, NEW m \in wire, NEW o \in Ids, NEW row \in Rows, orders' = [orders EXCEPT ![o] = row],
         row.status # "ABSENT", o = m.n \/ orders[o].status # "ABSENT",
         row.status = "DRAFT" =>
           \/ orders[o].status = "ABSENT"
           \/ orders[o].status = "DRAFT" /\ row.version = orders[o].version + 1
  PROVE  /\ orders' \in [Ids -> Rows] /\ Grown(orders, orders')
         /\ \A i \in Ids : orders[i].status = "ABSENT" /\ i # m.n => orders'[i].status = "ABSENT"
BY RowGrows DEF Inv, Types

(* A new draft. *)
LEMMA HandleNewDraftKeepsInv ==
  ASSUME Inv, NEW m \in wire, m.order = 0, m.kind = "save", m.draft = 0, HandleNewDraft(m),
         UNCHANGED <<stored, visits, sent>>
  PROVE  Inv'
<1>1. /\ m \in Messages /\ m.n \in Ids /\ orders[m.n].status = "ABSENT" /\ orders \in [Ids -> Rows]
      /\ OneOrderPerKey
  BY Bounds DEF Inv, Types, Fits, Messages, MessageFits
<1>2. CASE CustomerRefuses(m) \/ CatalogueRefuses(m, m.cart) \/ Refused(m, "error")
  BY <1>2, RefusedKeepsInv DEF CustomerRefuses, CatalogueRefuses
<1>3. CASE /\ Book!KeyFree(m.key, m.n)
           /\ orders' = [orders EXCEPT ![m.n] = Book!Row("DRAFT", m.key, 1, m.cart, 0)]
           /\ Answered(m, "ok", m.n)
  <2> DEFINE row == Book!Row("DRAFT", m.key, 1, m.cart, 0)
  <2>1. row \in Rows
    BY <1>1, RowTypes DEF Messages
  <2>2. row.status = "DRAFT" /\ row.key = m.key /\ row.version = 1 /\ row.cart = m.cart
    BY DEF Book!Row
  <2> HIDE DEF row
  <2>3. orders' = [orders EXCEPT ![m.n] = row]
    BY <1>3 DEF row
  <2>4. /\ orders' \in [Ids -> Rows] /\ Grown(orders, orders')
        /\ \A i \in Ids : orders[i].status = "ABSENT" /\ i # m.n => orders'[i].status = "ABSENT"
    <3>1. row.status # "ABSENT"
      BY <2>2
    <3> QED
      BY <1>1, <2>1, <2>3, <3>1, WroteRow
  <2>5. OneOrderPerKey'
    BY <1>1, <1>3, <2>2, <2>3, KeyTaken
  <2>6. AnswerFits(orders', m, "ok", m.n)
    <3>1. orders'[m.n] = row /\ m.n # 0
      BY <1>1, <2>3, Bounds
    <3> QED
      BY <2>2, <3>1 DEF AnswerFits, Known
  <2> QED
    BY <1>1, <1>3, <2>4, <2>5, <2>6, AnsweredKeepsInv
<1> QED
  BY <1>2, <1>3 DEF HandleNewDraft

(* A save of a draft. *)
LEMMA HandleSavedDraftKeepsInv ==
  ASSUME Inv, NEW m \in wire, m.kind = "save", m.draft # 0, HandleSavedDraft(m),
         UNCHANGED <<stored, visits, sent>>
  PROVE  Inv'
<1> DEFINE o == m.draft
<1>1. /\ m \in Messages /\ o \in Ids /\ orders \in [Ids -> Rows] /\ OneOrderPerKey
  BY DEF Inv, Types, Messages
<1>2. CASE \/ Refused(m, "gone") \/ Refused(m, "invalid") \/ Refused(m, "conflict")
           \/ CustomerRefuses(m) \/ CatalogueRefuses(m, m.cart)
  BY <1>2, RefusedKeepsInv DEF CustomerRefuses, CatalogueRefuses
<1>3. CASE /\ IsDraft(o) /\ orders[o].version = m.version
           /\ orders' = [orders EXCEPT ![o].version = @ + 1, ![o].cart = m.cart]
           /\ Answered(m, "ok", o)
  <2> DEFINE row == [orders[o] EXCEPT !.version = @ + 1, !.cart = m.cart]
  <2>1. orders[o] \in LiveRows
    BY <1>1, <1>3, LiveRow DEF IsDraft
  <2>2. row \in Rows
    BY <1>1, <2>1, RowTypes DEF Messages
  <2>3. /\ row.status = "DRAFT" /\ row.key = orders[o].key
        /\ row.version = m.version + 1 /\ row.cart = m.cart
    BY <1>3, <2>1 DEF LiveRows, IsDraft
  <2>4. orders' = [orders EXCEPT ![o] = row]
    BY <1>1, <1>3
  <2> HIDE DEF row
  <2>5. /\ orders' \in [Ids -> Rows] /\ Grown(orders, orders')
        /\ \A i \in Ids : orders[i].status = "ABSENT" /\ i # m.n => orders'[i].status = "ABSENT"
    BY <1>1, <1>3, <2>2, <2>3, <2>4, WroteRow DEF IsDraft
  <2>6. OneOrderPerKey'
    BY <1>1, <1>3, <2>3, <2>4, KeysKept DEF IsDraft, Book!Live
  <2>7. AnswerFits(orders', m, "ok", o)
    <3>1. orders'[o] = row /\ o # 0 /\ m.version + 1 \in Nat
      BY <1>1, <2>4, Bounds DEF Messages
    <3> QED
      BY <2>3, <3>1 DEF AnswerFits, Known
  <2> QED
    BY <1>1, <1>3, <2>5, <2>6, <2>7, AnsweredKeepsInv
<1> QED
  BY <1>2, <1>3 DEF HandleSavedDraft

(* The submission of a draft. *)
LEMMA HandleSubmitKeepsInv ==
  ASSUME Inv, NEW m \in wire, m.kind = "submit", HandleSubmit(m), UNCHANGED <<stored, visits, sent>>
  PROVE  Inv'
<1> DEFINE o == m.draft
<1>1. /\ m \in Messages /\ o \in Ids /\ orders \in [Ids -> Rows] /\ OneOrderPerKey
  BY DEF Inv, Types, Fits, Messages, MessageFits
<1>2. CASE \/ Refused(m, "gone") \/ Refused(m, "invalid") \/ Refused(m, "conflict")
           \/ CustomerRefuses(m) \/ CatalogueRefuses(m, orders[o].cart)
  BY <1>2, RefusedKeepsInv DEF CustomerRefuses, CatalogueRefuses
<1>3. CASE Accepted(m, o) /\ UNCHANGED orders
  BY <1>1, <1>3, AcceptedKeepsInv, NothingGrows, KeysUnchanged
<1>4. CASE /\ IsDraft(o) /\ Book!KeyFree(m.key, o)
           /\ orders' = [orders EXCEPT ![o].status = "SUBMITTED", ![o].key = m.key]
           /\ Accepted(m, o)
  <2> DEFINE row == [orders[o] EXCEPT !.status = "SUBMITTED", !.key = m.key]
  <2>1. orders[o] \in LiveRows
    BY <1>1, <1>4, LiveRow DEF IsDraft
  <2>2. row \in Rows
    BY <1>1, <2>1, RowTypes DEF Messages
  <2>3. row.status = "SUBMITTED" /\ row.key = m.key
    BY <2>1 DEF LiveRows
  <2>4. orders' = [orders EXCEPT ![o] = row]
    BY <1>1, <1>4
  <2> HIDE DEF row
  <2>5. /\ orders' \in [Ids -> Rows] /\ Grown(orders, orders')
        /\ \A i \in Ids : orders[i].status = "ABSENT" /\ i # m.n => orders'[i].status = "ABSENT"
    BY <1>1, <1>4, <2>2, <2>3, <2>4, WroteRow DEF IsDraft
  <2>6. OneOrderPerKey'
    BY <1>1, <1>4, <2>3, <2>4, KeyTaken
  <2> QED
    BY <1>1, <1>4, <2>5, <2>6, AcceptedKeepsInv
<1> QED
  BY <1>2, <1>3, <1>4 DEF HandleSubmit

(* A direct submission, or the replay of one. *)
LEMMA HandlePlaceKeepsInv ==
  ASSUME Inv, NEW m \in wire, m.order = 0, m.kind = "place", HandlePlace(m),
         UNCHANGED <<stored, visits, sent>>
  PROVE  Inv'
<1>1. /\ m \in Messages /\ m.n \in Ids /\ orders[m.n].status = "ABSENT" /\ orders \in [Ids -> Rows]
      /\ OneOrderPerKey
  BY Bounds DEF Inv, Types, Fits, Messages, MessageFits
<1>2. CASE \/ Refused(m, "conflict")
           \/ CustomerRefuses(m) \/ CatalogueRefuses(m, m.cart)
  BY <1>2, RefusedKeepsInv DEF CustomerRefuses, CatalogueRefuses
<1>3. ASSUME NEW o \in WithKey(m.key), Accepted(m, o) /\ UNCHANGED orders
      PROVE  Inv'
  <2>1. o \in Ids
    BY DEF WithKey
  <2> QED
    BY <1>1, <1>3, <2>1, AcceptedKeepsInv, NothingGrows, KeysUnchanged
<1>4. CASE /\ WithKey(m.key) = {}
           /\ orders' = [orders EXCEPT ![m.n] = Book!Row("SUBMITTED", m.key, 1, m.cart, 0)]
           /\ Accepted(m, m.n)
  <2> DEFINE row == Book!Row("SUBMITTED", m.key, 1, m.cart, 0)
  <2>1. row \in Rows
    BY <1>1, RowTypes DEF Messages
  <2>2. row.status = "SUBMITTED" /\ row.key = m.key
    BY DEF Book!Row
  <2> HIDE DEF row
  <2>3. orders' = [orders EXCEPT ![m.n] = row]
    BY <1>4 DEF row
  <2>4. /\ orders' \in [Ids -> Rows] /\ Grown(orders, orders')
        /\ \A i \in Ids : orders[i].status = "ABSENT" /\ i # m.n => orders'[i].status = "ABSENT"
    <3>1. row.status # "ABSENT" /\ row.status # "DRAFT"
      BY <2>2
    <3> QED
      BY <1>1, <2>1, <2>3, <3>1, WroteRow
  <2>5. Book!KeyFree(m.key, m.n)
    BY <1>4 DEF WithKey, Book!KeyFree
  <2>6. OneOrderPerKey'
    BY <1>1, <2>2, <2>3, <2>5, KeyTaken
  <2> QED
    BY <1>1, <1>4, <2>4, <2>6, AcceptedKeepsInv
<1> QED
  BY <1>2, <1>3, <1>4 DEF HandlePlace, Replay

(* The payment sent with a submission. *)
LEMMA HandlePaymentKeepsInv ==
  ASSUME Inv, NEW m \in wire, HandlePayment(m), UNCHANGED <<stored, visits, sent>>
  PROVE  Inv'
<1> DEFINE o == m.order
<1>1. /\ m \in Messages /\ o \in Ids /\ o # 0 /\ m.kind # "save" /\ orders \in [Ids -> Rows]
      /\ OneOrderPerKey
  BY Bounds DEF Inv, Types, Fits, Messages, MessageFits, HandlePayment
<1>2. CASE Refused(m, "invalid")
  BY <1>2, RefusedKeepsInv
<1>3. CASE /\ orders[o].status \in {"SUBMITTED", "APPROVED"}
           /\ orders' = [orders EXCEPT ![o].paid = @ + m.pay]
           /\ Answered(m, "ok", o)
  <2> DEFINE row == [orders[o] EXCEPT !.paid = @ + m.pay]
  <2>1. orders[o] \in LiveRows
    BY <1>1, <1>3, LiveRow
  <2>2. row \in Rows
    BY <1>1, <2>1, RowTypes DEF Messages
  <2>3. row.status = orders[o].status /\ row.key = orders[o].key
    BY <2>1 DEF LiveRows
  <2>4. orders' = [orders EXCEPT ![o] = row]
    BY <1>1, <1>3
  <2> HIDE DEF row
  <2>5. /\ orders' \in [Ids -> Rows] /\ Grown(orders, orders')
        /\ \A i \in Ids : orders[i].status = "ABSENT" /\ i # m.n => orders'[i].status = "ABSENT"
    <3>1. row.status # "ABSENT" /\ row.status # "DRAFT" /\ orders[o].status # "ABSENT"
      BY <1>3, <2>3
    <3> QED
      BY <1>1, <2>2, <2>4, <3>1, WroteRow
  <2>6. OneOrderPerKey'
    BY <1>1, <1>3, <2>3, <2>4, KeysKept DEF Book!Live
  <2>7. AnswerFits(orders', m, "ok", o)
    BY <1>1 DEF AnswerFits
  <2> QED
    BY <1>1, <1>3, <2>5, <2>6, <2>7, AnsweredKeepsInv
<1> QED
  BY <1>2, <1>3 DEF HandlePayment

(* The server handles a request or tries a payment; or the request is lost. *)
LEMMA ServeKeepsInv ==
  ASSUME Inv, Serve \/ Lose
  PROVE  Inv'
<1>1. ASSUME NEW m \in wire, Handle(m), UNCHANGED <<stored, visits, sent>>
      PROVE  Inv'
  BY <1>1, HandleNewDraftKeepsInv, HandleSavedDraftKeepsInv, HandleSubmitKeepsInv,
     HandlePlaceKeepsInv DEF Handle
<1>2. ASSUME NEW m \in wire, Refused(m, "lost"), UNCHANGED <<stored, visits, sent>>
      PROVE  Inv'
  BY <1>2, RefusedKeepsInv
<1> QED
  BY <1>1, <1>2, HandlePaymentKeepsInv DEF Serve, Lose

-----------------------------------------------------------------------------
(* Discarding and approving. *)

(* A row that exists is discarded or moves past being a draft. *)
LEMMA DeskKeepsInv ==
  ASSUME Inv, NEW o \in Ids, NEW row \in Rows, orders' = [orders EXCEPT ![o] = row],
         UNCHANGED <<stored, wire, visits, sent>>, Book!Live(o),
         row.status \notin {"ABSENT", "DRAFT"},
         row.status # "DISCARDED" => row.key = orders[o].key,
         tab' = tab \/ \E t \in Tabs : tab' = [tab EXCEPT ![t] = Away]
  PROVE  Inv'
<1>1. orders \in [Ids -> Rows] /\ OneOrderPerKey /\ tab \in [Tabs -> TabPages]
  BY DEF Inv, Types
<1>2. /\ orders' \in [Ids -> Rows] /\ Grown(orders, orders')
      /\ \A i \in Ids : orders[i].status = "ABSENT" => orders'[i].status = "ABSENT"
  BY <1>1, RowGrows DEF Book!Live
<1>3. OneOrderPerKey'
  BY <1>1, KeysKept
<1>4. tab' \in [Tabs -> TabPages] /\ \A t \in Tabs : tab'[t] \in {Away, tab[t]}
  BY <1>1 DEF TabPages
<1>5. Types'
  BY <1>2, <1>4 DEF Inv, Types
<1>6. \A t \in Tabs : PageFits(orders', wire', sent', t, tab'[t])
  <2>1. SUFFICES ASSUME NEW t \in Tabs
                 PROVE  PageFits(orders', wire, sent, t, tab'[t])
    OBVIOUS
  <2>2. PageFits(orders, wire, sent, t, tab'[t])
    BY <1>4, AwayFits DEF Inv, Fits
  <2> QED
    BY <1>2, <1>4, <2>2, PageGrows
<1>7. \A k \in wire' : MessageFits(orders', sent', k)
  <2>1. \A k \in wire : k.n \in Ids
    BY Bounds DEF Inv, Types, Messages
  <2> QED
    BY <1>2, <2>1, MessageGrows
<1>8. Unsent(orders', sent')
  BY <1>2, Bounds DEF Inv, Fits, Unsent
<1>9. Numbered(wire')
  BY DEF Inv, Fits
<1> QED
  BY <1>3, <1>5, <1>6, <1>7, <1>8, <1>9 DEF Inv, Fits

(* Discarding from the page. *)
LEMMA DiscardKeepsInv ==
  ASSUME Inv, NEW t \in Tabs, Discard(t)
  PROVE  Inv'
<1>1. tab[t].draft \in Ids
  BY Shown DEF Discard, PagesShown
<1>2. CASE IsDraft(tab[t].draft)
  <2>1. DiscardRow(tab[t].draft) /\ tab' = [tab EXCEPT ![t] = Away]
        /\ UNCHANGED <<stored, wire, visits, sent>>
    BY <1>2 DEF Discard
  <2> QED
    BY <1>1, <1>2, <2>1, RowTypes, DeskKeepsInv DEF DiscardRow, IsDraft, Book!Live
<1>3. CASE ~IsDraft(tab[t].draft)
  <2>1. /\ UNCHANGED <<orders, wire, visits, sent>> /\ OnPage(t)
        /\ orders[tab[t].draft].status # "DISCARDED" => Redisplay(t)
        /\ orders[tab[t].draft].status = "DISCARDED" =>
             tab' = [tab EXCEPT ![t] = Away] /\ UNCHANGED stored
    BY <1>3, Zenon DEF Discard
  <2>2. CASE Redisplay(t)
    BY <2>1, <2>2, RedisplayKeepsInv
  <2>3. CASE tab' = [tab EXCEPT ![t] = Away] /\ UNCHANGED stored
    BY <2>1, <2>3, AwayFits, TurnPage DEF Inv, Types
  <2> QED
    BY <2>1, <2>2, <2>3
<1> QED
  BY <1>2, <1>3

(* Discarding from the list. *)
LEMMA DiscardFromListKeepsInv ==
  ASSUME Inv, NEW o \in Ids, DiscardFromList(o)
  PROVE  Inv'
BY RowTypes, DeskKeepsInv DEF DiscardFromList, DraftsListed, DiscardRow, IsDraft, Book!Live

(* Approval. *)
LEMMA ApproveKeepsInv ==
  ASSUME Inv, NEW o \in Ids, Approve(o)
  PROVE  Inv'
<1> DEFINE row == [orders[o] EXCEPT !.status = "APPROVED"]
<1>1. orders[o] \in LiveRows /\ orders[o].status = "SUBMITTED" /\ orders \in [Ids -> Rows]
  BY LiveRow DEF Approve, Inv, Types
<1>2. row \in Rows
  BY <1>1, RowTypes
<1>3. row.status = "APPROVED" /\ row.key = orders[o].key
  BY <1>1 DEF LiveRows
<1>4. orders' = [orders EXCEPT ![o] = row]
  BY <1>1 DEF Approve
<1> HIDE DEF row
<1> QED
  BY <1>1, <1>2, <1>3, <1>4, DeskKeepsInv DEF Approve, Book!Live

-----------------------------------------------------------------------------
(* The theorems. *)

(* The system starts in the invariant. *)
LEMMA InitInv ==
  ASSUME Init
  PROVE  Inv
<1>1. PICK customer \in Customers :
        orders = [o \in Ids |->
          IF o = OldDraft THEN Book!Row("DRAFT", <<0, 0>>, 1, WithCustomer(EmptyCart, customer), 0)
          ELSE Book!NoRow]
  BY DEF Init
<1> DEFINE row == Book!Row("DRAFT", <<0, 0>>, 1, WithCustomer(EmptyCart, customer), 0)
<1>2. row \in Rows
  <2>1. <<0, 0>> \in Keys
    BY Bounds DEF Keys
  <2>2. WithCustomer(EmptyCart, customer) \in Carts
    BY CartTypes
  <2> QED
    BY <2>1, <2>2, RowTypes
<1>3. orders \in [Ids -> Rows]
  BY <1>1, <1>2, RowTypes
<1>4. Types
  BY <1>3, Bounds, CartTypes DEF Init, Types, TabPages
<1>5. OneOrderPerKey
  BY <1>1 DEF OneOrderPerKey, Book!KeyFree, Book!Live, Book!NoRow
<1>6. \A t \in Tabs : PageFits(orders, wire, sent, t, tab[t])
  BY DEF Init, PageFits, Away
<1>7. Unsent(orders, sent)
  <2>1. \A i \in Requests : i \in Ids /\ i # OldDraft
    BY Bounds DEF Requests, Ids, OldDraft
  <2> QED
    BY <1>1, <2>1 DEF Unsent, Book!NoRow
<1> QED
  BY <1>4, <1>5, <1>6, <1>7 DEF Init, Inv, Fits, Numbered

(* Every step keeps it. *)
LEMMA NextKeepsInv ==
  ASSUME Inv, [Next]_vars
  PROVE  Inv'
<1>1. CASE UNCHANGED vars
  <2>1. UNCHANGED <<orders, tab, stored, wire, visits, sent>>
    BY <1>1 DEF vars
  <2>2. OneOrderPerKey'
    BY <2>1, KeysUnchanged DEF Inv
  <2> QED
    BY <2>1, <2>2 DEF Inv, Types, Fits
<1>2. ASSUME NEW t \in Tabs,
             \/ Open(t) \/ Reload(t) \/ Leave(t) \/ Filter(t) \/ Edit(t)
             \/ Save(t) \/ Submit(t) \/ SaveAnswered(t) \/ SubmitAnswered(t)
             \/ GiveUp(t) \/ Discard(t)
      PROVE  Inv'
  BY <1>2, OpenKeepsInv, ReloadKeepsInv, LeaveKeepsInv, FilterKeepsInv, EditKeepsInv,
     SaveKeepsInv, SubmitKeepsInv, SaveAnsweredKeepsInv, SubmitAnsweredKeepsInv,
     GiveUpKeepsInv, DiscardKeepsInv
<1> QED
  BY <1>1, <1>2, ServeKeepsInv, DiscardFromListKeepsInv, ApproveKeepsInv DEF Next

(* So it always holds. *)
LEMMA Invariant == Spec => []Inv
BY InitInv, NextKeepsInv, PTL DEF Spec

(* The types of the builder: see BuilderTypeOK. *)
THEOREM BuilderTyped == Spec => []BuilderTypeOK
<1>1. Inv => BuilderTypeOK
  BY DEF Inv, Types, BuilderTypeOK, TabPages
<1> QED
  BY <1>1, Invariant, PTL

(* No two orders that exist share an idempotency key, whatever is retried,
   replayed or answered late: the fairness of the runs is not needed. *)
THEOREM KeysAreUnique == Spec => []OneOrderPerKey
<1>1. Inv => OneOrderPerKey
  BY DEF Inv
<1> QED
  BY <1>1, Invariant, PTL

(* A save of a draft that writes finds there what its tab last read or wrote. *)
THEOREM SavesLoseNothing == Spec => NoLostEdit
<1>1. ASSUME Inv, [Next]_vars
      PROVE  [\A m \in wire : m.kind = "save" /\ m.draft # 0 /\ m \notin wire' /\ orders' # orders
                => orders[m.draft].cart = m.seen]_vars
  <2>1. SUFFICES ASSUME NEW m \in wire, m.kind = "save", m.draft # 0, m \notin wire',
                        orders' # orders, Next
                 PROVE  orders[m.draft].cart = m.seen
    BY <1>1 DEF vars
  <2>2. wire' # wire
    BY <2>1
  <2>3. Serve
    <3>1. ASSUME NEW t \in Tabs, Send(t, "save", 0) \/ \E k, p : Send(t, k, p)
          PROVE  FALSE
      BY <2>1, <3>1 DEF Send
    <3>2. ~Lose
      BY <2>1 DEF Lose, Refused
    <3> QED
      BY <2>1, <2>2, <3>1, <3>2 DEF Next, Open, Reload, Leave, Filter, Edit, Save, Submit,
         SaveAnswered, SubmitAnswered, GiveUp, Discard, DiscardFromList, Approve
  <2>4. PICK k \in wire : Handle(k) \/ HandlePayment(k)
    BY <2>3 DEF Serve
  <2>5. k = m
    <3>1. wire \ {k} \subseteq wire'
      BY <2>4 DEF Handle, HandlePayment, HandleNewDraft, HandleSavedDraft, HandleSubmit,
         HandlePlace, Replay, CustomerRefuses, CatalogueRefuses, Refused, Accepted, Answered
    <3> QED
      BY <2>1, <3>1
  <2>6. MessageFits(orders, sent, m) /\ m \in Messages
    BY <1>1 DEF Inv, Fits, Types
  <2>7. HandleSavedDraft(m)
    BY <2>1, <2>4, <2>5, <2>6 DEF Handle, HandlePayment, MessageFits
  <2>8. IsDraft(m.draft) /\ orders[m.draft].version = m.version
    BY <2>1, <2>7 DEF HandleSavedDraft, CustomerRefuses, CatalogueRefuses, Refused
  <2> QED
    BY <2>1, <2>6, <2>8 DEF MessageFits, Known, IsDraft
<1> QED
  BY <1>1, Invariant, PTL DEF Spec, NoLostEdit
-----------------------------------------------------------------------------
(* The builder implements the order book. *)

(* Who saves or submits has chosen a customer, and who places an order directly
   has something in the cart: what the pages check before they send. *)
Chosen ==
  /\ \A o \in Ids : orders[o].status = "DRAFT" => orders[o].cart.customer # NoCustomer
  /\ \A m \in wire : /\ m.kind = "save" => m.cart.customer # NoCustomer
                     /\ m.kind = "place" => Reviewable(m.cart)

BookMoves == Book!Next \/ UNCHANGED orders

(* The cart's operators are the same in the order book. *)
LEMMA SameCarts ==
  /\ Book!Carts = Carts
  /\ \A c : (Book!Reviewable(c) <=> Reviewable(c)) /\ Book!Total(c) = Total(c)
<1>1. Book!Carts = Carts
  BY DEF Book!Carts, Carts
<1>2. \A c : Book!Reviewable(c) <=> Reviewable(c)
  BY DEF Book!Reviewable, Reviewable, Book!InCart, InCart
<1>3. \A c : Book!Total(c) = Total(c)
  BY Zenon DEF Book!Total, Total, Book!SumFunction, SumFunction, Book!SumFunctionOnSet, SumFunctionOnSet,
     Book!FoldFunctionOnSet, FoldFunctionOnSet, Book!MapThenFoldSet, MapThenFoldSet
<1> QED
  BY <1>1, <1>2, <1>3

(* The worth of a cart is a number. *)
LEMMA TotalType ==
  ASSUME NEW c \in Carts
  PROVE  Total(c) \in Nat
<1>1. PICK f : f = c.lines
  OBVIOUS
<1>2. f \in [Products -> 0..MaxQuantity]
  BY <1>1 DEF Carts
<1>3. \A p \in Products : f[p] \in Nat
  BY <1>2, Bounds
<1>4. DOMAIN f = Products /\ IsFiniteSet(Products)
  BY <1>2, CartAssumption
<1>5. SumFunctionOnSet(f, Products) \in Nat
  BY <1>3, <1>4, SumNat
<1>6. SumFunction(f) = SumFunctionOnSet(f, Products)
  BY <1>4, SumIs
<1> QED
  BY <1>1, <1>5, <1>6 DEF Total

(* The request that is served leaves the wire, or goes on to its payment. *)
Carried(m) == \A k \in wire' : k \in wire \/ (k.kind = m.kind /\ k.cart = m.cart)

LEMMA ServedCarries ==
  ASSUME Inv, NEW m \in wire, NEW result, NEW o, Answered(m, result, o) \/ Accepted(m, o)
  PROVE  Carried(m)
<1>1. CASE wire' = wire \ {m}
  BY <1>1 DEF Carried
<1>2. CASE wire' = (wire \ {m}) \cup {[m EXCEPT !.order = o]}
  <2>1. m \in Messages
    BY DEF Inv, Types
  <2>2. PICK k : k = [m EXCEPT !.order = o]
    OBVIOUS
  <2>3. k.kind = m.kind /\ k.cart = m.cart
    BY <2>1, <2>2 DEF Messages
  <2> QED
    BY <1>2, <2>2, <2>3 DEF Carried
<1> QED
  BY <1>1, <1>2 DEF Answered, Accepted

(* A row that is written keeps the choice when it is no draft or has a customer. *)
LEMMA ChosenStays ==
  ASSUME Inv, Chosen, NEW m \in wire, Carried(m),
         \/ orders' = orders
         \/ \E o \in Ids : \E row : /\ orders' = [orders EXCEPT ![o] = row]
                                    /\ row.status = "DRAFT" => row.cart.customer # NoCustomer
  PROVE  Chosen'
<1>1. orders \in [Ids -> Rows]
  BY DEF Inv, Types
<1>2. \A o \in Ids : orders'[o].status = "DRAFT" => orders'[o].cart.customer # NoCustomer
  BY <1>1 DEF Chosen
<1>3. \A k \in wire' : /\ k.kind = "save" => k.cart.customer # NoCustomer
                       /\ k.kind = "place" => Reviewable(k.cart)
  BY DEF Chosen, Carried
<1> QED
  BY <1>2, <1>3 DEF Chosen

(* A request that is refused leaves the book. *)
LEMMA RefusedBooks ==
  ASSUME Inv, Chosen, NEW m \in wire, NEW result, Refused(m, result)
  PROVE  BookMoves /\ Chosen'
<1>1. orders' = orders /\ Answered(m, result, 0)
  BY DEF Refused
<1>2. Carried(m)
  BY <1>1, ServedCarries
<1> QED
  BY <1>1, <1>2, ChosenStays DEF BookMoves

(* So does one that was served before. *)
LEMMA AcceptedBooks ==
  ASSUME Inv, Chosen, NEW m \in wire, NEW o, Accepted(m, o), UNCHANGED orders
  PROVE  BookMoves /\ Chosen'
<1>1. Carried(m)
  BY ServedCarries
<1> QED
  BY <1>1, ChosenStays DEF BookMoves

(* A new draft. *)
LEMMA NewDraftBooks ==
  ASSUME Inv, Chosen, NEW m \in wire, m.order = 0, m.kind = "save", m.draft = 0, HandleNewDraft(m)
  PROVE  BookMoves /\ Chosen'
<1>1. /\ m \in Messages /\ m.n \in Ids /\ orders[m.n].status = "ABSENT" /\ orders \in [Ids -> Rows]
  BY Bounds DEF Inv, Types, Fits, Messages, MessageFits
<1>2. CASE CustomerRefuses(m) \/ CatalogueRefuses(m, m.cart) \/ Refused(m, "error")
  BY <1>2, RefusedBooks DEF CustomerRefuses, CatalogueRefuses
<1>3. CASE /\ Book!KeyFree(m.key, m.n)
           /\ orders' = [orders EXCEPT ![m.n] = Book!Row("DRAFT", m.key, 1, m.cart, 0)]
           /\ Answered(m, "ok", m.n)
  <2>1. PICK row : row = Book!Row("DRAFT", m.key, 1, m.cart, 0)
    OBVIOUS
  <2>2. row.cart = m.cart /\ m.cart.customer # NoCustomer
    BY <2>1 DEF Book!Row, Chosen
  <2>3. orders[m.n] = Book!NoRow /\ m.key \in Keys /\ m.cart \in Carts
    BY <1>1, LiveRow DEF Messages
  <2>4. Book!Draft(m.n, m.key, m.cart)
    BY <1>3, <2>3 DEF Book!Draft
  <2>5. Book!Next
    BY <1>1, <2>3, <2>4, SameCarts DEF Book!Next
  <2>6. Carried(m)
    BY <1>3, ServedCarries
  <2>7. orders' = [orders EXCEPT ![m.n] = row] /\ (row.status = "DRAFT" => row.cart.customer # NoCustomer)
    BY <1>3, <2>1, <2>2
  <2>8. Chosen'
    BY <1>1, <2>6, <2>7, ChosenStays
  <2> QED
    BY <2>5, <2>8 DEF BookMoves
<1> QED
  BY <1>2, <1>3 DEF HandleNewDraft

(* A save of a draft. *)
LEMMA SavedDraftBooks ==
  ASSUME Inv, Chosen, NEW m \in wire, m.kind = "save", m.draft # 0, HandleSavedDraft(m)
  PROVE  BookMoves /\ Chosen'
<1>0. PICK o : o = m.draft
  OBVIOUS
<1>1. /\ m \in Messages /\ o \in Ids /\ orders \in [Ids -> Rows] /\ m.cart \in Carts
  BY <1>0 DEF Inv, Types, Messages
<1>2. CASE \/ Refused(m, "gone") \/ Refused(m, "invalid") \/ Refused(m, "conflict")
           \/ CustomerRefuses(m) \/ CatalogueRefuses(m, m.cart)
  BY <1>2, RefusedBooks DEF CustomerRefuses, CatalogueRefuses
<1>3. CASE /\ IsDraft(o)
           /\ orders' = [orders EXCEPT ![o].version = @ + 1, ![o].cart = m.cart]
           /\ Answered(m, "ok", o)
  <2>1. orders[o] \in LiveRows
    BY <1>1, <1>3, LiveRow DEF IsDraft
  <2>2. PICK row : row = [orders[o] EXCEPT !.version = @ + 1, !.cart = m.cart]
    OBVIOUS
  <2>3. row.cart = m.cart /\ m.cart.customer # NoCustomer
    BY <2>1, <2>2 DEF LiveRows, Chosen
  <2>4. orders' = [orders EXCEPT ![o] = row]
    BY <1>1, <1>3, <2>2
  <2>5. Book!Revise(o, m.cart)
    BY <1>3 DEF Book!Revise, IsDraft
  <2>6. Book!Next
    BY <1>1, <2>5, SameCarts DEF Book!Next
  <2>7. Carried(m)
    BY <1>3, ServedCarries
  <2>8. Chosen'
    BY <1>1, <2>3, <2>4, <2>7, ChosenStays
  <2> QED
    BY <2>6, <2>8 DEF BookMoves
<1> QED
  BY <1>0, <1>2, <1>3 DEF HandleSavedDraft

(* The submission of a draft. *)
LEMMA SubmitBooks ==
  ASSUME Inv, Chosen, NEW m \in wire, m.kind = "submit", HandleSubmit(m)
  PROVE  BookMoves /\ Chosen'
<1>0. PICK o : o = m.draft
  OBVIOUS
<1>1. /\ m \in Messages /\ o \in Ids /\ orders \in [Ids -> Rows] /\ m.key \in Keys
  BY <1>0 DEF Inv, Types, Fits, Messages, MessageFits
<1>2. CASE \/ Refused(m, "gone") \/ Refused(m, "invalid") \/ Refused(m, "conflict")
           \/ CustomerRefuses(m) \/ CatalogueRefuses(m, orders[o].cart)
  BY <1>2, RefusedBooks DEF CustomerRefuses, CatalogueRefuses
<1>3. CASE Accepted(m, o) /\ UNCHANGED orders
  BY <1>3, AcceptedBooks
<1>4. CASE /\ IsDraft(o) /\ Book!KeyFree(m.key, o) /\ InCart(orders[o].cart) # {}
           /\ orders' = [orders EXCEPT ![o].status = "SUBMITTED", ![o].key = m.key]
           /\ Accepted(m, o)
  <2>1. orders[o] \in LiveRows
    BY <1>1, <1>4, LiveRow DEF IsDraft
  <2>2. PICK row : row = [orders[o] EXCEPT !.status = "SUBMITTED", !.key = m.key]
    OBVIOUS
  <2>3. row.status = "SUBMITTED"
    BY <2>1, <2>2 DEF LiveRows
  <2>4. orders' = [orders EXCEPT ![o] = row]
    BY <1>1, <1>4, <2>2
  <2>5. Reviewable(orders[o].cart)
    BY <1>1, <1>4 DEF Chosen, IsDraft, Reviewable
  <2>6. Book!Reviewable(orders[o].cart)
    BY <2>5, SameCarts
  <2>7. Book!Submit(o, m.key)
    BY <1>4, <2>6 DEF Book!Submit, IsDraft
  <2>8. Book!Next
    BY <1>1, <2>7 DEF Book!Next
  <2>9. Carried(m)
    BY <1>4, ServedCarries
  <2>10. Chosen'
    BY <1>1, <2>3, <2>4, <2>9, ChosenStays
  <2> QED
    BY <2>8, <2>10 DEF BookMoves
<1> QED
  BY <1>0, <1>2, <1>3, <1>4 DEF HandleSubmit

(* A direct submission, or the replay of one. *)
LEMMA PlaceBooks ==
  ASSUME Inv, Chosen, NEW m \in wire, m.order = 0, m.kind = "place", HandlePlace(m)
  PROVE  BookMoves /\ Chosen'
<1>1. /\ m \in Messages /\ m.n \in Ids /\ orders[m.n].status = "ABSENT" /\ orders \in [Ids -> Rows]
  BY Bounds DEF Inv, Types, Fits, Messages, MessageFits
<1>2. CASE \/ Refused(m, "conflict")
           \/ CustomerRefuses(m) \/ CatalogueRefuses(m, m.cart)
  BY <1>2, RefusedBooks DEF CustomerRefuses, CatalogueRefuses
<1>3. ASSUME NEW o \in WithKey(m.key), Accepted(m, o) /\ UNCHANGED orders
      PROVE  BookMoves /\ Chosen'
  BY <1>3, AcceptedBooks
<1>4. CASE /\ WithKey(m.key) = {}
           /\ orders' = [orders EXCEPT ![m.n] = Book!Row("SUBMITTED", m.key, 1, m.cart, 0)]
           /\ Accepted(m, m.n)
  <2>1. PICK row : row = Book!Row("SUBMITTED", m.key, 1, m.cart, 0)
    OBVIOUS
  <2>2. row.status = "SUBMITTED"
    BY <2>1 DEF Book!Row
  <2>3. orders[m.n] = Book!NoRow /\ m.key \in Keys /\ m.cart \in Carts
    BY <1>1, LiveRow DEF Messages
  <2>4. Book!KeyFree(m.key, m.n)
    BY <1>4 DEF WithKey, Book!KeyFree
  <2>5. Book!Reviewable(m.cart)
    BY SameCarts DEF Chosen
  <2>6. Book!Place(m.n, m.key, m.cart)
    BY <1>4, <2>3, <2>4, <2>5 DEF Book!Place
  <2>7. Book!Next
    BY <1>1, <2>3, <2>6, SameCarts DEF Book!Next
  <2>8. Carried(m)
    BY <1>4, ServedCarries
  <2>9. orders' = [orders EXCEPT ![m.n] = row]
    BY <1>4, <2>1
  <2>10. Chosen'
    BY <1>1, <2>2, <2>8, <2>9, ChosenStays
  <2> QED
    BY <2>7, <2>10 DEF BookMoves
<1> QED
  BY <1>2, <1>3, <1>4 DEF HandlePlace, Replay

(* The payment sent with a submission: no more is collected than the order is worth. *)
LEMMA PaymentBooks ==
  ASSUME Inv, Chosen, NEW m \in wire, HandlePayment(m)
  PROVE  BookMoves /\ Chosen'
<1>0. PICK o : o = m.order
  OBVIOUS
<1>1. /\ m \in Messages /\ o \in Ids /\ orders \in [Ids -> Rows] /\ m.pay \in Nat
  BY <1>0, Bounds DEF Inv, Types, Fits, Messages, MessageFits, HandlePayment
<1>2. CASE Refused(m, "invalid")
  BY <1>2, RefusedBooks
<1>3. CASE /\ orders[o].status \in {"SUBMITTED", "APPROVED"}
           /\ orders[o].paid + m.pay <= Total(orders[o].cart)
           /\ orders' = [orders EXCEPT ![o].paid = @ + m.pay]
           /\ Answered(m, "ok", o)
  <2>1. orders[o] \in LiveRows
    BY <1>1, <1>3, LiveRow
  <2>2. orders[o].paid \in Nat /\ Total(orders[o].cart) \in Nat
    BY <2>1, TotalType DEF LiveRows
  <2>3. PICK row : row = [orders[o] EXCEPT !.paid = @ + m.pay]
    OBVIOUS
  <2>4. row.status = orders[o].status /\ orders' = [orders EXCEPT ![o] = row]
    BY <1>1, <1>3, <2>1, <2>3 DEF LiveRows
  <2>5. ASSUME m.pay = 0 PROVE BookMoves
    <3>1. row = orders[o]
      <4>1. orders[o].paid + m.pay = orders[o].paid
        BY <2>2, <2>5
      <4>2. PICK r, p : r = orders[o] /\ p = orders[o].paid + m.pay
        OBVIOUS
      <4>3. row = [r EXCEPT !.paid = p] /\ p = r.paid /\ r \in LiveRows
        BY <2>1, <2>3, <4>1, <4>2
      <4>4. [r EXCEPT !.paid = p] = r
        BY <4>3 DEF LiveRows
      <4> QED
        BY <4>2, <4>3, <4>4
    <3> QED
      BY <1>1, <2>4, <3>1 DEF BookMoves
  <2>6. ASSUME m.pay # 0 PROVE BookMoves
    <3>1. Book!Worth(o) = Total(orders[o].cart)
      BY <1>3, SameCarts DEF Book!Worth, Book!Live
    <3>2. /\ m.pay > 0 /\ m.pay \in 1..Book!Worth(o)
          /\ orders[o].paid + m.pay <= Book!Worth(o)
      BY <1>1, <1>3, <2>2, <2>6, <3>1
    <3>3. Book!Collect(o, m.pay)
      BY <1>3, <3>2 DEF Book!Collect
    <3>4. Book!Next
      BY <1>1, <3>2, <3>3 DEF Book!Next
    <3> QED
      BY <3>4 DEF BookMoves
  <2>7. Carried(m)
    BY <1>3, ServedCarries
  <2>8. Chosen'
    BY <1>1, <1>3, <2>4, <2>7, ChosenStays
  <2> QED
    BY <2>5, <2>6, <2>8
<1> QED
  BY <1>0, <1>2, <1>3 DEF HandlePayment

(* The server. *)
LEMMA ServeBooks ==
  ASSUME Inv, Chosen, Serve \/ Lose
  PROVE  BookMoves /\ Chosen'
<1>1. ASSUME NEW m \in wire, Handle(m)
      PROVE  BookMoves /\ Chosen'
  BY <1>1, NewDraftBooks, SavedDraftBooks, SubmitBooks, PlaceBooks DEF Handle
<1> QED
  BY <1>1, PaymentBooks, RefusedBooks DEF Serve, Lose

(* A request that a page sends. *)
LEMMA SendBooks ==
  ASSUME Inv, Chosen, NEW t \in Tabs, Save(t) \/ Submit(t)
  PROVE  BookMoves /\ Chosen'
<1>1. orders' = orders
  BY DEF Save, Submit
<1>2. \A k \in wire' : k \in wire \/ (/\ k.kind = "save" => k.cart.customer # NoCustomer
                                      /\ k.kind = "place" => Reviewable(k.cart))
  <2>1. CASE Save(t)
    BY <2>1 DEF Save, MaySave, Send
  <2>2. CASE Submit(t)
    <3>1. PICK kind, pay : /\ Send(t, kind, pay) /\ kind \in {"submit", "place"}
                           /\ Reviewable(tab[t].cart)
      BY <2>2 DEF Submit, MaySubmit
    <3> QED
      BY <3>1 DEF Send
  <2> QED
    BY <2>1, <2>2
<1> QED
  BY <1>1, <1>2 DEF BookMoves, Chosen

(* A row that is discarded or approved. *)
LEMMA OfficeBooks ==
  ASSUME Inv, Chosen, NEW o \in Ids, wire' = wire,
         \/ IsDraft(o) /\ DiscardRow(o)
         \/ /\ orders[o].status = "SUBMITTED"
            /\ orders' = [orders EXCEPT ![o].status = "APPROVED"]
  PROVE  BookMoves /\ Chosen'
<1>1. orders \in [Ids -> Rows]
  BY DEF Inv, Types
<1>2. CASE IsDraft(o) /\ DiscardRow(o)
  <2>1. Book!Discard(o)
    BY <1>2 DEF IsDraft, DiscardRow, Book!Discard
  <2>2. \A i \in Ids : orders'[i].status = "DRAFT" => orders'[i] = orders[i]
    BY <1>1, <1>2 DEF DiscardRow
  <2> QED
    BY <2>1, <2>2 DEF Book!Next, BookMoves, Chosen
<1>3. CASE /\ orders[o].status = "SUBMITTED"
           /\ orders' = [orders EXCEPT ![o].status = "APPROVED"]
  <2>1. Book!Approve(o)
    BY <1>3 DEF Book!Approve
  <2>2. PICK row : row = [orders[o] EXCEPT !.status = "APPROVED"]
    OBVIOUS
  <2>3. row.status = "APPROVED" /\ orders' = [orders EXCEPT ![o] = row]
    BY <1>1, <1>3, <2>2, LiveRow DEF LiveRows
  <2>4. \A i \in Ids : orders'[i].status = "DRAFT" => orders'[i] = orders[i]
    BY <1>1, <2>3
  <2> QED
    BY <2>1, <2>4 DEF Book!Next, BookMoves, Chosen
<1> QED
  BY <1>2, <1>3

(* Discarding from the page. *)
LEMMA DiscardBooks ==
  ASSUME Inv, Chosen, NEW t \in Tabs, Discard(t)
  PROVE  BookMoves /\ Chosen'
<1>1. tab[t].draft \in Ids /\ wire' = wire
  BY Shown DEF Discard, PagesShown
<1>2. CASE IsDraft(tab[t].draft)
  <2>1. DiscardRow(tab[t].draft)
    BY <1>2 DEF Discard
  <2> QED
    BY <1>1, <1>2, <2>1, OfficeBooks
<1>3. CASE ~IsDraft(tab[t].draft)
  <2>1. orders' = orders
    BY <1>3 DEF Discard
  <2> QED
    BY <1>1, <2>1 DEF BookMoves, Chosen
<1> QED
  BY <1>2, <1>3

(* Every step of the builder is one of the book, or none. *)
LEMMA NextBooks ==
  ASSUME Inv, Chosen, [Next]_vars
  PROVE  BookMoves /\ Chosen'
<1>1. CASE UNCHANGED <<orders, wire>>
  BY <1>1 DEF BookMoves, Chosen
<1>2. ASSUME NEW t \in Tabs,
             \/ Open(t) \/ Reload(t) \/ Leave(t) \/ Filter(t) \/ Edit(t)
             \/ SaveAnswered(t) \/ SubmitAnswered(t) \/ GiveUp(t)
      PROVE  UNCHANGED <<orders, wire>>
  BY <1>2 DEF Open, Reload, Leave, Filter, Edit, SaveAnswered, SubmitAnswered, GiveUp
<1>3. ASSUME NEW o \in Ids, DiscardFromList(o) \/ Approve(o)
      PROVE  BookMoves /\ Chosen'
  BY <1>3, OfficeBooks DEF DiscardFromList, DraftsListed, Approve
<1> QED
  BY <1>1, <1>2, <1>3, ServeBooks, SendBooks, DiscardBooks DEF Next, vars

(* The draft of an earlier day has a customer, and its key is nobody else's. *)
LEMMA BookBegins ==
  ASSUME Init
  PROVE  Book!Init /\ Chosen
<1>1. PICK customer \in Customers :
        orders = [o \in Ids |->
          IF o = OldDraft THEN Book!Row("DRAFT", <<0, 0>>, 1, WithCustomer(EmptyCart, customer), 0)
          ELSE Book!NoRow]
  BY DEF Init
<1>2. PICK c, k : c = WithCustomer(EmptyCart, customer) /\ k = <<0, 0>>
  OBVIOUS
<1>3. k \in Keys /\ c \in Carts
  BY <1>2, Bounds, CartTypes DEF Keys
<1>4. c.customer = customer /\ customer # NoCustomer
  BY <1>2, CartAssumption DEF WithCustomer, EmptyCart
<1>5. PICK row : row = Book!Row("DRAFT", k, 1, c, 0)
  OBVIOUS
<1>6. row.cart = c
  BY <1>5 DEF Book!Row
<1>7. \A o \in Ids : orders[o] = IF o = OldDraft THEN row ELSE Book!NoRow
  BY <1>1, <1>2, <1>5
<1>8. \A o \in Ids : o # OldDraft => orders[o].status = "ABSENT"
  BY <1>7 DEF Book!NoRow
<1>9. Book!KeyFree(k, OldDraft)
  BY <1>8 DEF Book!KeyFree, Book!Live
<1>10. Book!Init
  BY <1>3, <1>5, <1>7, <1>9, SameCarts DEF Book!Init
<1>11. \A o \in Ids : orders[o].status = "DRAFT" => orders[o].cart.customer # NoCustomer
  BY <1>4, <1>6, <1>7, <1>8
<1> QED
  BY <1>10, <1>11 DEF Init, Chosen

(* The tabs, the wire that loses requests and answers, the retries and the replays
   implement OrderBook: a draft is revised one version at a time until it is
   discarded or submitted, what was submitted never changes again, and no more is
   collected at the checkout than the order is worth. *)
THEOREM BuilderKeepsTheBook == Spec => ImplementsBook
<1>1. Init => Book!Init /\ Chosen
  BY BookBegins
<1>2. Inv /\ Chosen /\ [Next]_vars => [Book!Next]_orders /\ Chosen'
  BY NextBooks DEF BookMoves
<1> QED
  BY <1>1, <1>2, Invariant, PTL DEF Spec, ImplementsBook, Book!Spec
=============================================================================
