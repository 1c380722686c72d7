---------------------------- MODULE OrderBuilder ----------------------------
(***************************************************************************)
(* A salesman builds orders in several browser tabs.  A tab holds the      *)
(* cart, the draft it edits with the version it last saw, and the          *)
(* idempotency key of this visit; all tabs share one backup of the cart in *)
(* localStorage.  Requests travel on a wire that may lose the request or   *)
(* its answer; the server handles each in one transaction, a payment sent  *)
(* with a submission in a second one.                                      *)
(***************************************************************************)
EXTENDS OrderCart, FiniteSets

CONSTANTS
  Tabs,
  MaxVisits,     \* bound: page loads
  MaxRefreshes,  \* bound: redisplays of one page after a refused submission
  MaxRequests    \* bound: requests sent

ASSUME BuilderAssumption ==
  {MaxVisits, MaxRefreshes, MaxRequests} \subseteq Nat \ {0}

VARIABLES orders, tab, stored, wire, visits, sent

vars == <<orders, tab, stored, wire, visits, sent>>

(* A request that opens an order gives it its own number; one more order is
   a draft saved on an earlier day. *)
Ids == 1..(MaxRequests + 1)

OldDraft == MaxRequests + 1

(* A key is random; naming it by the visit and the redisplay that drew it
   keeps it fresh. *)
Keys == (0..MaxVisits) \X (0..MaxRefreshes)

Book == INSTANCE OrderBook WITH book <- orders

Away == [page |-> "away"]

OnPage(t) == tab[t].page # "away"

Page(page, cart, draft, version, key) ==
  [page |-> page, cart |-> cart, draft |-> draft, version |-> version, key |-> key,
   address |-> IF page = "createFor" THEN cart.customer ELSE NoCustomer,
   seen |-> IF draft = 0 THEN EmptyCart ELSE cart,
   saving |-> 0, submitting |-> 0, inbox |-> {}]

IsDraft(o) == orders[o].status = "DRAFT"

DraftsListed == {o \in Ids : IsDraft(o)}

DraftPage(o) == Page("edit", orders[o].cart, o, orders[o].version, orders[o].key)

-----------------------------------------------------------------------------
(* Loading and leaving the page.  Whatever cart is shown is also written to *)
(* the backup.  `address` is the customer named in a create page's URL.    *)
(* `seen` is what the draft held when the tab last read or wrote it; no    *)
(* code has it.                                                            *)

Show(t, page) ==
  /\ tab' = [tab EXCEPT ![t] = page]
  /\ stored' = page.cart

LoadCreate(t) ==
  /\ visits < MaxVisits
  /\ visits' = visits + 1
  /\ Show(t, Page("create", stored, 0, 1, <<visits', 0>>))

LoadCreateFor(t, customer) ==
  /\ visits < MaxVisits
  /\ visits' = visits + 1
  /\ Show(t, Page("createFor", WithCustomer(EmptyCart, customer), 0, 1, <<visits', 0>>))

LoadDraft(t, o) ==
  \/ IsDraft(o) /\ Show(t, DraftPage(o))
  \/ ~IsDraft(o) /\ tab' = [tab EXCEPT ![t] = Away] /\ UNCHANGED stored

Open(t) ==
  /\ ~OnPage(t)
  /\ \/ LoadCreate(t)
     \/ \E c \in Customers : LoadCreateFor(t, c)
     \/ \E o \in DraftsListed : LoadDraft(t, o) /\ UNCHANGED visits
  /\ UNCHANGED <<orders, wire, sent>>

(* A reload forgets the draft a create page has saved in the meantime. *)
Reload(t) ==
  /\ OnPage(t)
  /\ \/ tab[t].page = "create" /\ LoadCreate(t)
     \/ tab[t].page = "createFor" /\ LoadCreateFor(t, tab[t].address)
     \/ tab[t].page = "edit" /\ LoadDraft(t, tab[t].draft) /\ UNCHANGED visits
  /\ UNCHANGED <<orders, wire, sent>>

Leave(t) ==
  /\ OnPage(t)
  /\ tab' = [tab EXCEPT ![t] = Away]
  /\ UNCHANGED <<orders, stored, wire, visits, sent>>

(* A catalogue filter is a visit of its own: it cancels a submission under
   way in this tab (not on the server) and changes the page's address.  A
   draft that has been submitted meanwhile sends the salesman to the order,
   one that was discarded to an error page. *)
Filter(t) ==
  /\ OnPage(t) /\ tab[t].cart.customer # NoCustomer
  /\ IF tab[t].draft # 0 /\ ~IsDraft(tab[t].draft)
     THEN tab' = [tab EXCEPT ![t] = Away]
     ELSE tab' = [tab EXCEPT ![t].submitting = 0,
                             ![t].inbox = {a \in @ : a.n # tab[t].submitting},
                             ![t].page = IF tab[t].draft # 0 THEN "edit" ELSE "createFor",
                             ![t].address = IF tab[t].draft # 0 THEN NoCustomer
                                            ELSE tab[t].cart.customer]
  /\ UNCHANGED <<orders, stored, wire, visits, sent>>

Edited(c) ==
  {WithCustomer(c, customer) : customer \in Customers}
    \cup (IF c.customer = NoCustomer THEN {} ELSE
            {WithLine(c, p, q) : p \in Products, q \in 0..(MaxQuantity + 1)}
              \cup {WithoutLine(c, p) : p \in InCart(c)})

Edit(t) ==
  /\ OnPage(t)
  /\ \E cart \in Edited(tab[t].cart) \ {tab[t].cart} :
       Show(t, [tab[t] EXCEPT !.cart = cart])
  /\ UNCHANGED <<orders, wire, visits, sent>>

-----------------------------------------------------------------------------
(* Requests. *)

(* What a request carries: a submission of a draft has no cart, a direct one
   no draft, and only a save tells the version it is based on. *)
Send(t, kind, pay) ==
  /\ sent < MaxRequests
  /\ sent' = sent + 1
  /\ wire' = wire \cup
       {[n |-> sent + 1, tab |-> t, kind |-> kind, key |-> tab[t].key, pay |-> pay, order |-> 0,
         draft |-> tab[t].draft,
         version |-> IF kind = "save" THEN tab[t].version ELSE 0,
         cart |-> IF kind = "submit" THEN EmptyCart ELSE tab[t].cart,
         seen |-> IF kind = "save" THEN tab[t].seen ELSE EmptyCart]}

MaySave(t) ==
  /\ OnPage(t) /\ tab[t].cart.customer # NoCustomer
  /\ tab[t].saving = 0 /\ tab[t].submitting = 0

Save(t) ==
  /\ MaySave(t)
  /\ Send(t, "save", 0)
  /\ tab' = [tab EXCEPT ![t].saving = sent + 1]
  /\ UNCHANGED <<orders, stored, visits>>

MaySubmit(t) == OnPage(t) /\ Reviewable(tab[t].cart) /\ tab[t].submitting = 0

(* No payment, or one that does not exceed the total on the screen. *)
PaymentsOffered(t) == 0..Total(tab[t].cart)

(* A tab that edits a draft submits the draft as saved: the cart stays here. *)
Submit(t) ==
  /\ MaySubmit(t) /\ tab[t].key[2] < MaxRefreshes
  /\ \E pay \in PaymentsOffered(t) :
       Send(t, IF tab[t].draft # 0 THEN "submit" ELSE "place", pay)
  /\ tab' = [tab EXCEPT ![t].submitting = sent + 1]
  /\ UNCHANGED <<orders, stored, visits>>

Waiting(t, n) == OnPage(t) /\ n \in {tab[t].saving, tab[t].submitting}

(* The answer travels to the tab, if that tab still waits for it. *)
Answered(m, result, o) ==
  /\ wire' = wire \ {m}
  /\ tab' = IF Waiting(m.tab, m.n)
            THEN [tab EXCEPT ![m.tab].inbox = @ \cup
                    {[n |-> m.n, result |-> result, order |-> o,
                      version |-> IF m.draft = 0 THEN 1 ELSE m.version + 1, cart |-> m.cart]}]
            ELSE tab

Refused(m, result) == Answered(m, result, 0) /\ UNCHANGED orders

(* A product that may not be ordered, a price outside its band, a customer
   who may not order: the catalogue and the customers change at any time. *)
CatalogueRefuses(m, cart) == InCart(cart) # {} /\ Refused(m, "invalid")

CustomerRefuses(m) == Refused(m, "invalid")

(* A submission is answered when its payment, if any, has been tried. *)
Accepted(m, o) ==
  IF m.pay = 0 THEN Answered(m, "ok", o)
  ELSE /\ wire' = (wire \ {m}) \cup {[m EXCEPT !.order = o]}
       /\ UNCHANGED tab

HandleNewDraft(m) ==
  LET o == m.n IN
  \/ CustomerRefuses(m) \/ CatalogueRefuses(m, m.cart)
  \/ /\ ~Book!KeyFree(m.key, o)
     /\ Refused(m, "error")
  \/ /\ Book!KeyFree(m.key, o)
     /\ orders' = [orders EXCEPT ![o] = Book!Row("DRAFT", m.key, 1, m.cart, 0)]
     /\ Answered(m, "ok", o)

\* mutated HandleSavedDraft: the version is not compared
SaveBlindly(m) ==
  LET o == m.draft IN
  IF ~IsDraft(o) THEN Refused(m, "invalid")
  ELSE \/ CustomerRefuses(m) \/ CatalogueRefuses(m, m.cart)
       \/ /\ orders' = [orders EXCEPT ![o].version = @ + 1, ![o].cart = m.cart]
          /\ Answered(m, "ok", o)

(* The customer is looked up before the draft: it may not be the salesman's
   (any more), whatever became of the draft. *)
HandleSavedDraft(m) ==
  LET o == m.draft IN
  IF orders[o].status = "DISCARDED" THEN Refused(m, "gone")
  ELSE \/ CustomerRefuses(m)
       \/ IF ~IsDraft(o) THEN Refused(m, "invalid")
          ELSE IF orders[o].version # m.version THEN Refused(m, "conflict")
          ELSE \/ CatalogueRefuses(m, m.cart)
               \/ /\ orders' = [orders EXCEPT ![o].version = @ + 1, ![o].cart = m.cart]
                  /\ Answered(m, "ok", o)

HandleSubmit(m) ==
  LET o == m.draft IN
  IF orders[o].status = "DISCARDED" THEN Refused(m, "gone")
  ELSE IF orders[o].status = "SUBMITTED" THEN Accepted(m, o) /\ UNCHANGED orders
  ELSE IF ~IsDraft(o) THEN Refused(m, "conflict")
  ELSE IF InCart(orders[o].cart) = {} THEN Refused(m, "invalid")
  ELSE IF ~Book!KeyFree(m.key, o) THEN Refused(m, "conflict")
  ELSE \/ CustomerRefuses(m) \/ CatalogueRefuses(m, orders[o].cart)
       \/ /\ orders' = [orders EXCEPT ![o].status = "SUBMITTED", ![o].key = m.key]
          /\ Accepted(m, o)

WithKey(k) == {o \in Ids : Book!Live(o) /\ orders[o].key = k}

(* An order with this key, a draft too, is taken for an earlier attempt. *)
Replay(m, o) ==
  IF SameOrder(orders[o].cart, m.cart)
  THEN Accepted(m, o) /\ UNCHANGED orders
  ELSE Refused(m, "conflict")

\* mutated HandlePlace: no replay, the key is trusted to be new
PlaceAgain(m) ==
  \/ CustomerRefuses(m) \/ CatalogueRefuses(m, m.cart)
  \/ /\ orders' = [orders EXCEPT ![m.n] = Book!Row("SUBMITTED", m.key, 1, m.cart, 0)]
     /\ Accepted(m, m.n)

HandlePlace(m) ==
  IF WithKey(m.key) # {} THEN \E o \in WithKey(m.key) : Replay(m, o)
  ELSE \/ CustomerRefuses(m) \/ CatalogueRefuses(m, m.cart)
       \/ /\ orders' = [orders EXCEPT ![m.n] = Book!Row("SUBMITTED", m.key, 1, m.cart, 0)]
          /\ Accepted(m, m.n)

\* mutated HandlePayment: compared with the total, not with what is left of it
PayAgain(m) ==
  /\ m.order # 0
  /\ orders[m.order].status \in {"SUBMITTED", "APPROVED"}
  /\ m.pay <= Total(orders[m.order].cart)
  /\ orders' = [orders EXCEPT ![m.order].paid = @ + m.pay]
  /\ Answered(m, "ok", m.order)

(* The payment's own transaction; a refusal leaves the order placed.  The
   instrument's details or the customer may be refused as well. *)
HandlePayment(m) ==
  /\ m.order # 0
  /\ \/ /\ orders[m.order].status \in {"SUBMITTED", "APPROVED"}
        /\ orders[m.order].paid + m.pay <= Total(orders[m.order].cart)
        /\ orders' = [orders EXCEPT ![m.order].paid = @ + m.pay]
        /\ Answered(m, "ok", m.order)
     \/ Refused(m, "invalid")

Handle(m) ==
  /\ m.order = 0
  /\ \/ m.kind = "save" /\ m.draft = 0 /\ HandleNewDraft(m)
     \/ m.kind = "save" /\ m.draft # 0 /\ HandleSavedDraft(m)
     \/ m.kind = "submit" /\ HandleSubmit(m)
     \/ m.kind = "place" /\ HandlePlace(m)

Serve == /\ \E m \in wire : Handle(m) \/ HandlePayment(m)
         /\ UNCHANGED <<stored, visits, sent>>

-----------------------------------------------------------------------------
(* Answers. *)

Read(t, a, page) == tab' = [tab EXCEPT ![t] = [page EXCEPT !.inbox = @ \ {a}]]

\* mutated SaveAnswered: a conflict returns before the spinner is cleared
SaveAnsweredKeepsSpinner(t) ==
  /\ OnPage(t)
  /\ \E a \in tab[t].inbox :
       /\ a.n = tab[t].saving
       /\ Read(t, a, IF a.result = "conflict" THEN tab[t] ELSE [tab[t] EXCEPT !.saving = 0])
  /\ UNCHANGED <<orders, stored, wire, visits, sent>>

SaveAnswered(t) ==
  /\ OnPage(t)
  /\ \E a \in tab[t].inbox :
       /\ a.n = tab[t].saving
       /\ LET here == [tab[t] EXCEPT !.saving = 0]
          IN Read(t, a, IF a.result = "ok"
                        THEN [here EXCEPT !.draft = a.order, !.version = a.version,
                                          !.seen = a.cart]
                        ELSE here)
  /\ UNCHANGED <<orders, stored, wire, visits, sent>>

(* A refused submission redisplays the page with fresh properties: a create
   page draws a new key and takes the backup, or, opened for a customer, that
   customer back; an edit page reads the draft. *)
Redisplay(t) ==
  LET here == [tab[t] EXCEPT !.submitting = 0, !.inbox = {a \in @ : a.n # tab[t].submitting}]
      rekeyed == [here EXCEPT !.key = <<@[1], @[2] + 1>>]
      draft == tab[t].draft
  IN \/ /\ tab[t].page = "create" /\ tab[t].key[2] < MaxRefreshes
        /\ Show(t, [rekeyed EXCEPT !.cart = stored])
     \/ /\ tab[t].page = "createFor" /\ tab[t].key[2] < MaxRefreshes
        /\ Show(t, [rekeyed EXCEPT !.cart = WithCustomer(@, tab[t].address)])
     \/ /\ tab[t].page = "edit" /\ IsDraft(draft)
        /\ Show(t, [DraftPage(draft) EXCEPT !.saving = here.saving, !.inbox = here.inbox])
     \/ /\ tab[t].page = "edit" /\ ~IsDraft(draft)
        /\ tab' = [tab EXCEPT ![t] = Away] /\ stored' = EmptyCart

SubmitAnswered(t) ==
  /\ OnPage(t)
  /\ \E a \in tab[t].inbox :
       /\ a.n = tab[t].submitting
       /\ \/ /\ a.result \in {"ok", "gone"}
             /\ tab' = [tab EXCEPT ![t] = Away] /\ stored' = EmptyCart
          \/ /\ a.result \in {"conflict", "lost"}
             /\ Read(t, a, [tab[t] EXCEPT !.submitting = 0]) /\ UNCHANGED stored
          \/ a.result = "invalid" /\ Redisplay(t)
  /\ UNCHANGED <<orders, wire, visits, sent>>

(* The network loses a request and the browser reports it.  It may also give
   up while the request is still under way, which loses the answer. *)
Lose ==
  /\ \E m \in wire : m.order = 0 /\ Refused(m, "lost")
  /\ UNCHANGED <<stored, visits, sent>>

GiveUp(t) ==
  /\ OnPage(t)
  /\ \/ /\ tab[t].saving # 0
        /\ tab' = [tab EXCEPT ![t].saving = 0, ![t].inbox = {a \in @ : a.n # tab[t].saving}]
     \/ /\ tab[t].submitting # 0
        /\ tab' = [tab EXCEPT ![t].submitting = 0,
                              ![t].inbox = {a \in @ : a.n # tab[t].submitting}]
  /\ UNCHANGED <<orders, stored, wire, visits, sent>>

-----------------------------------------------------------------------------
(* Discarding, from the page or from the list of drafts, and the office's   *)
(* approval, are single requests answered at once.                         *)

DiscardRow(o) == orders' = [orders EXCEPT ![o] = [status |-> "DISCARDED"]]

Discard(t) ==
  /\ OnPage(t) /\ tab[t].draft # 0
  /\ LET o == tab[t].draft IN
     IF IsDraft(o) THEN DiscardRow(o) /\ tab' = [tab EXCEPT ![t] = Away] /\ UNCHANGED stored
     ELSE /\ UNCHANGED orders
          /\ IF orders[o].status # "DISCARDED" THEN Redisplay(t)
             ELSE tab' = [tab EXCEPT ![t] = Away] /\ UNCHANGED stored
  /\ UNCHANGED <<wire, visits, sent>>

DiscardFromList(o) ==
  /\ o \in DraftsListed /\ DiscardRow(o)
  /\ UNCHANGED <<tab, stored, wire, visits, sent>>

Approve(o) ==
  /\ orders[o].status = "SUBMITTED"
  /\ orders' = [orders EXCEPT ![o].status = "APPROVED"]
  /\ UNCHANGED <<tab, stored, wire, visits, sent>>

-----------------------------------------------------------------------------

Init ==
  /\ \E customer \in Customers :
       orders = [o \in Ids |->
         IF o = OldDraft
         THEN Book!Row("DRAFT", <<0, 0>>, 1, WithCustomer(EmptyCart, customer), 0)
         ELSE Book!NoRow]
  /\ tab = [t \in Tabs |-> Away]
  /\ stored = EmptyCart
  /\ wire = {}
  /\ visits = 0 /\ sent = 0

Next ==
  \/ \E t \in Tabs : \/ Open(t) \/ Reload(t) \/ Leave(t) \/ Filter(t) \/ Edit(t)
                     \/ Save(t) \/ Submit(t) \/ SaveAnswered(t) \/ SubmitAnswered(t)
                     \/ GiveUp(t) \/ Discard(t)
  \/ Serve \/ Lose
  \/ \E o \in Ids : DiscardFromList(o) \/ Approve(o)

(* The server handles what reaches it, and an answer that arrives, be it a
   broken connection, is read; nobody is obliged to click anything. *)
Fairness ==
  /\ WF_vars(Serve)
  /\ \A t \in Tabs : WF_vars(SaveAnswered(t)) /\ WF_vars(SubmitAnswered(t))

Spec == Init /\ [][Next]_vars

FairSpec == Spec /\ Fairness
-----------------------------------------------------------------------------
(* Properties. *)

Requests == 1..MaxRequests

WaitingFor == {0} \cup Requests

Answers ==
  [n : Requests, result : {"ok", "conflict", "invalid", "gone", "error", "lost"},
   order : {0} \cup Ids, version : Nat, cart : Carts]

PagesShown ==
  [page : {"create", "createFor", "edit"}, address : Customers \cup {NoCustomer},
   cart : Carts, draft : {0} \cup Ids, version : Nat, key : Keys, seen : Carts, saving : WaitingFor, submitting : WaitingFor,
   inbox : SUBSET Answers]

Messages ==
  [n : Requests, tab : Tabs, kind : {"save", "submit", "place"}, key : Keys, pay : Nat,
   order : {0} \cup Ids, draft : {0} \cup Ids, version : Nat, cart : Carts, seen : Carts]

Rows ==
  {Book!NoRow} \cup [status : {"DISCARDED"}]
    \cup [status : {"DRAFT", "SUBMITTED", "APPROVED"}, key : Keys, version : Nat,
         cart : Carts, paid : Nat]

(* Every variable has its type. *)
BuilderTypeOK ==
  /\ orders \in [Ids -> Rows]
  /\ \A t \in Tabs : tab[t] \in {Away} \cup PagesShown
  /\ DOMAIN tab = Tabs
  /\ stored \in Carts
  /\ \A m \in wire : m \in Messages
  /\ visits \in 0..MaxVisits /\ sent \in 0..MaxRequests

(* Whatever is retried, replayed or answered late, and whether an order began
   as a draft or was placed directly, no two orders that exist share an
   idempotency key (the column's UNIQUE constraint never has to speak). *)
OneOrderPerKey ==
  \A o \in Ids : Book!Live(o) => Book!KeyFree(orders[o].key, o)

(* A save never overwrites what another tab has saved: the draft held what
   this tab last read or wrote (the optimistic lock on `version`). *)
NoLostEdit ==
  [][\A m \in wire :
       m.kind = "save" /\ m.draft # 0 /\ m \notin wire' /\ orders' # orders
       => orders[m.draft].cart = m.seen]_vars

(* The tabs, the wire and the retries implement the order book. *)
ImplementsBook == Book!Spec

(* A tab that waits for an answer does not wait forever: every way a request
   can end clears the spinner that disables its button. *)
SpinnersEnd ==
  \A t \in Tabs :
    /\ OnPage(t) /\ tab[t].saving # 0 ~> ~OnPage(t) \/ tab[t].saving = 0
    /\ OnPage(t) /\ tab[t].submitting # 0 ~> ~OnPage(t) \/ tab[t].submitting = 0
=============================================================================
