------------------------------- MODULE Checkout -------------------------------
(***************************************************************************)
(* Placing an order: CheckoutService, StockReservationService,             *)
(* PricingService and PrismaCheckoutUnitOfWork of src/modules/checkout,    *)
(* with what races them: duplicates of a request, other customers, the     *)
(* customer's own cart, and administrators of the catalogue.  The cart is  *)
(* read outside the transaction, everything else inside one serializable   *)
(* PostgreSQL transaction, of which the model keeps what decides its fate: *)
(* row locks, rows changed since its snapshot, deadlocks and aborts.       *)
(***************************************************************************)
EXTENDS Integers, FiniteSets, Functions

CONSTANTS
  Requests,      \* POST /checkout requests; a client's retry is one of its own
  UserOf,        \* the customer of a request
  KeyOf,         \* its Idempotency-Key (the middleware copies it to the body)
  WithCode,      \* requests with a discount code
  Careful,       \* requests with an expectedTotal, taken from a quote
  Admins, Users, Products,
  InitialStock, InitialPrice,
  Prices,        \* what administrators may set a price to
  MaxQty,        \* bound: quantity of a product in a cart
  MaxUses,       \* maxUses of the discount
  MinOrder,      \* minOrderAmount of the discount
  CodeValue,     \* the amount the discount takes off
  MaxRetries,    \* MAX_RETRIES (5 in production)
  MaxVersion,    \* bound: administrators stop at this version of a product
  Coupon, CartRows, Nobody

ASSUME ConstantsAssumption ==
  /\ UserOf \in [Requests -> Users]
  /\ IsFiniteSet(Requests) /\ IsFiniteSet(Products)
  /\ WithCode \subseteq Requests /\ Careful \subseteq Requests
  /\ InitialStock \in Nat /\ MaxQty \in Nat /\ MaxUses \in Nat
  /\ InitialPrice \in Nat /\ Prices \subseteq Nat
  /\ MinOrder \in Nat /\ CodeValue \in Nat
  /\ MaxRetries \in Nat /\ MaxVersion \in Nat
  /\ Coupon \notin Products /\ CartRows \notin Products /\ Coupon # CartRows
  /\ Nobody \notin Requests

VARIABLES
  \* committed tables
  product,       \* price, stock, active and version of each product
  live,          \* the discount has not expired
  used,          \* usedCount of the discount
  cart,          \* quantity of each product in each customer's cart, 0 for no row
  order,         \* the order a request created, or Nobody
  announced,     \* sourceVersions of each product's events in the outbox
  \* one request
  pc,
  lines,         \* cart.items as read before the transaction
  quoted,        \* the quote behind expectedTotal: its lines and unit prices
  tries,         \* retryCount of executeWithRetry
  answer,        \* the request whose order the response names
  \* its transaction
  held,          \* products locked FOR UPDATE
  stale,         \* rows changed by others since the transaction's snapshot
  sweep,         \* the customer's cart rows in that snapshot
  bill,          \* unit prices of the order
  announces,     \* product versions it will announce
  \* administrators and history
  view,          \* what an administrator read: a product, its switch, its version
  supply         \* stock ever put on sale: what administrators add or take by setting it

catalogue == <<product, announced, supply>>
discount  == <<live, used>>
txVars    == <<held, stale, sweep, bill, announces>>
reqVars   == <<pc, lines, quoted, tries, answer, txVars>>
vars      == <<catalogue, discount, cart, order, view, reqVars>>

-----------------------------------------------------------------------------
Quantities == [Products -> 0..MaxQty]
Empty      == [p \in Products |-> 0]
Product    == [price : Nat, stock : Int, active : BOOLEAN, version : Nat]
Order      == [lines : Quantities, bill : [Products -> Nat]]
TxStates   == {"lock", "code", "coupon", "insert", "clear", "commit"}
Final      == {"answered", "rejected", "failed"}
NoBill     == [p \in Products |-> 0]

ASSUME NobodyIsNoOrder == Nobody \notin Order

TypeOK ==
  /\ product \in [Products -> Product]
  /\ live \in BOOLEAN
  /\ used \in Nat
  /\ cart \in [Users -> Quantities]
  /\ order \in [Requests -> Order \cup {Nobody}]
  /\ announced \in [Products -> SUBSET Nat]
  /\ pc \in [Requests -> TxStates \cup Final \cup {"new", "cart", "begin", "conflict", "reload"}]
  /\ lines \in [Requests -> Quantities]
  /\ quoted \in [Requests -> Order \cup {Nobody}]
  /\ tries \in [Requests -> 0..MaxRetries]
  /\ answer \in [Requests -> Requests \cup {Nobody}]
  /\ held \in [Requests -> SUBSET Products]
  /\ stale \in [Requests -> SUBSET (Products \cup {Coupon, CartRows})]
  /\ sweep \in [Requests -> SUBSET Products]
  /\ bill \in [Requests -> [Products -> Nat]]
  /\ announces \in [Requests -> [Products -> Nat]]
  /\ view \in [Admins -> [of : Products, active : BOOLEAN, version : Nat] \cup {Nobody}]
  /\ supply \in [Products -> Int]
  /\ \A q \in Requests : pc[q] \notin TxStates => held[q] = {} /\ stale[q] = {}

Init ==
  /\ product = [p \in Products |-> [price |-> InitialPrice, stock |-> InitialStock,
                                    active |-> TRUE, version |-> 0]]
  /\ live = TRUE
  /\ used = 0
  /\ cart = [u \in Users |-> Empty]
  /\ order = [q \in Requests |-> Nobody]
  /\ announced = [p \in Products |-> {0}]
  /\ pc = [q \in Requests |-> "new"]
  /\ lines = [q \in Requests |-> Empty]
  /\ quoted = [q \in Requests |-> Nobody]
  /\ tries = [q \in Requests |-> 0]
  /\ answer = [q \in Requests |-> Nobody]
  /\ held = [q \in Requests |-> {}]
  /\ stale = [q \in Requests |-> {}]
  /\ sweep = [q \in Requests |-> {}]
  /\ bill = [q \in Requests |-> NoBill]
  /\ announces = [q \in Requests |-> NoBill]
  /\ view = [a \in Admins |-> Nobody]
  /\ supply = [p \in Products |-> InitialStock]

-----------------------------------------------------------------------------
(* What a request can see of the others.                                    *)

InTx(q)        == pc[q] \in TxStates
Needed(q)      == {p \in Products : lines[q][p] > 0}
HasInserted(q) == pc[q] \in {"clear", "commit"}
HoldsCoupon(q) == q \in WithCode /\ pc[q] \in {"insert", "clear", "commit"}
Placed         == {q \in Requests : order[q] # Nobody}

SameKey(q, s) == UserOf[q] = UserOf[s] /\ KeyOf[q] = KeyOf[s]
Twins(q)      == {s \in Placed : SameKey(q, s)}

\* Rows locked by uncommitted work of other transactions.
LockedProducts(q) == UNION {held[s] : s \in Requests \ {q}}
CouponLocked(q)   == \E s \in Requests \ {q} : HoldsCoupon(s)
KeyLocked(q)      == \E s \in Requests \ {q} : SameKey(q, s) /\ HasInserted(s)
Filled(u)         == {p \in Products : cart[u][p] > 0}
CartLocked(u, p)  == \E s \in Requests : UserOf[s] = u /\ pc[s] = "commit" /\ p \in sweep[s]

Amount(ls, bl) == SumFunction([p \in Products |-> ls[p] * bl[p]])

\* Tax and shipping are functions of the subtotal and are left out.
Total(q, ls, bl) ==
  LET subtotal == Amount(ls, bl) IN
  IF q \notin WithCode THEN subtotal
  ELSE IF subtotal < CodeValue THEN 0 ELSE subtotal - CodeValue

\* Every other transaction sees these rows change under its snapshot.
Touch(q, rows) ==
  stale' = [s \in Requests |->
              IF s = q THEN {} ELSE IF InTx(s) THEN stale[s] \cup rows[s] ELSE stale[s]]

-----------------------------------------------------------------------------
(* The customer's cart.  CartService reads the stock and the old quantity     *)
(* before it writes, so neither bounds what it writes.                        *)

\* A row is inserted, updated or, with n = 0, deleted.
SetCartItem(u, p, n) ==
  /\ n # cart[u][p]
  /\ ~CartLocked(u, p)
  /\ cart' = [cart EXCEPT ![u][p] = n]
  /\ Touch(Nobody, [s \in Requests |->
                     IF UserOf[s] = u /\ p \in sweep[s] THEN {CartRows} ELSE {}])
  /\ UNCHANGED <<catalogue, discount, order, view, pc, lines, quoted, tries, answer>>
  /\ UNCHANGED <<held, sweep, bill, announces>>

\* clearCart.
EmptyCart(u) ==
  /\ cart[u] # Empty
  /\ \A p \in Products : ~CartLocked(u, p)
  /\ cart' = [cart EXCEPT ![u] = Empty]
  /\ Touch(Nobody, [s \in Requests |->
                     IF UserOf[s] = u /\ sweep[s] \cap Filled(u) # {} THEN {CartRows} ELSE {}])
  /\ UNCHANGED <<catalogue, discount, order, view, pc, lines, quoted, tries, answer>>
  /\ UNCHANGED <<held, sweep, bill, announces>>

-----------------------------------------------------------------------------
(* Administrators (AdminProductService): read the product, then update it.   *)

AdminRead(a, p) ==
  /\ view[a] = Nobody
  /\ view' = [view EXCEPT ![a] = [of |-> p, active |-> product[p].active,
                                  version |-> product[p].version]]
  /\ UNCHANGED <<catalogue, discount, cart, order, reqVars>>

\* UPDATE ... SET data, version = version + 1, whatever happened since the read.
AdminWrite(a, row) ==
  LET p == view[a].of
      v == product[p].version + 1
  IN
  /\ v <= MaxVersion
  /\ p \notin LockedProducts(Nobody)
  /\ product' = [product EXCEPT ![p] = [row EXCEPT !.version = v]]
  /\ announced' = [announced EXCEPT ![p] = @ \cup {v}]
  /\ supply' = [supply EXCEPT ![p] = @ + row.stock - product[p].stock]
  /\ view' = [view EXCEPT ![a] = Nobody]
  /\ Touch(Nobody, [s \in Requests |-> {p}])
  /\ UNCHANGED <<discount, cart, order, pc, lines, quoted, tries, answer>>
  /\ UNCHANGED <<held, sweep, bill, announces>>

AdminUpdate(a) ==
  /\ view[a] # Nobody
  /\ \/ \E c \in Prices : AdminWrite(a, [product[view[a].of] EXCEPT !.price = c])
     \/ \E n \in 0..InitialStock : AdminWrite(a, [product[view[a].of] EXCEPT !.stock = n])
     \/ AdminWrite(a, [product[view[a].of] EXCEPT !.active = ~view[a].active])

\* expiresAt of the discount passes.
CouponExpires ==
  /\ live
  /\ live' = FALSE
  /\ UNCHANGED <<catalogue, used, cart, order, view, reqVars>>

-----------------------------------------------------------------------------
(* The end of a transaction, with or without its effects.                    *)

\* Its locks go.  The request is tried again (state = "begin") with the same
\* cart, or stands at state and has done with what it read.
EndTx(q, state) ==
  /\ pc' = [pc EXCEPT ![q] = state]
  /\ tries' = [tries EXCEPT ![q] = IF state = "begin" THEN @ + 1 ELSE 0]
  /\ lines' = [lines EXCEPT ![q] = IF state = "begin" THEN @ ELSE Empty]
  /\ quoted' = [quoted EXCEPT ![q] = IF state = "begin" THEN @ ELSE Nobody]
  /\ held' = [held EXCEPT ![q] = {}]
  /\ sweep' = [sweep EXCEPT ![q] = {}]
  /\ bill' = [bill EXCEPT ![q] = NoBill]
  /\ announces' = [announces EXCEPT ![q] = NoBill]

Rollback(q, state) ==
  /\ EndTx(q, state)
  /\ stale' = [stale EXCEPT ![q] = {}]
  /\ UNCHANGED <<catalogue, discount, cart, order, view, answer>>

\* Mutant: a transaction to be retried keeps its row locks.
ConflictKeepingLocks(q) ==
  /\ pc' = [pc EXCEPT ![q] = IF tries[q] < MaxRetries THEN "begin" ELSE "failed"]
  /\ tries' = [tries EXCEPT ![q] = IF @ < MaxRetries THEN @ + 1 ELSE @]
  /\ stale' = [stale EXCEPT ![q] = {}]
  /\ UNCHANGED <<catalogue, discount, cart, order, view, lines, quoted, answer>>
  /\ UNCHANGED <<held, sweep, bill, announces>>

\* ConflictError: executeWithRetry runs the operation again, MaxRetries times.
Conflict(q) ==
  Rollback(q, IF tries[q] < MaxRetries THEN "begin" ELSE "failed")

Reject(q)  == Rollback(q, "rejected")
Failure(q) == Rollback(q, "failed")

\* Only P2034 becomes a ConflictError.  A raw query reports a serialization
\* failure or a deadlock in a form of its own (P2010), which is not retried.
RawConflict(q) == Conflict(q) \/ Failure(q)

\* A step inside the request that touches no shared state.
Go(q, from, to) ==
  /\ pc[q] = from
  /\ pc' = [pc EXCEPT ![q] = to]
  /\ UNCHANGED <<catalogue, discount, cart, order, view, tries>>

-----------------------------------------------------------------------------
(* Before the transaction.                                                   *)

Sellable(p, n) == product[p].active /\ product[p].stock >= n
UnitPrices     == [p \in Products |-> product[p].price]

\* GET /quote: what the customer reviews before checking out.
Quote(q) ==
  LET u == UserOf[q] IN
  /\ q \in Careful
  /\ quoted[q] = Nobody
  /\ cart[u] # Empty
  /\ \A p \in Filled(u) : Sellable(p, cart[u][p])
  /\ q \in WithCode => live /\ used < MaxUses /\ Amount(cart[u], UnitPrices) >= MinOrder
  /\ Go(q, "new", "new")
  /\ quoted' = [quoted EXCEPT ![q] = [lines |-> cart[u], bill |-> UnitPrices]]
  /\ UNCHANGED <<lines, answer, txVars>>

\* findOrderByIdempotencyKey: the response of an earlier request is repeated.
AnswerTwin(q, from) ==
  /\ Go(q, from, "answered")
  /\ \E s \in Twins(q) : answer' = [answer EXCEPT ![q] = s]
  /\ UNCHANGED <<lines, quoted, txVars>>

Lookup(q) ==
  /\ q \in Careful => quoted[q] # Nobody
  /\ \/ AnswerTwin(q, "new")
     \/ /\ Twins(q) = {}
        /\ Go(q, "new", "cart")
        /\ UNCHANGED <<lines, quoted, answer, txVars>>

\* findUserCartForCheckout, outside the transaction.
ReadCart(q) ==
  /\ Go(q, "cart", IF cart[UserOf[q]] = Empty THEN "rejected" ELSE "begin")
  /\ lines' = [lines EXCEPT ![q] = cart[UserOf[q]]]
  /\ UNCHANGED <<quoted, answer, txVars>>

-----------------------------------------------------------------------------
(* The serializable transaction.                                             *)

\* Its first statement takes the snapshot.
Begin(q) ==
  /\ Go(q, "begin", "lock")
  /\ sweep' = [sweep EXCEPT ![q] = Filled(UserOf[q])]
  /\ UNCHANGED <<lines, quoted, answer, held, stale, bill, announces>>

\* SELECT ... FOR UPDATE takes its row locks one by one, in no promised order.
LockProduct(q, p) ==
  /\ pc[q] = "lock"
  /\ p \in Needed(q) \ held[q]
  /\ p \notin LockedProducts(q)
  /\ \/ p \in stale[q] /\ RawConflict(q)
     \/ /\ p \notin stale[q]
        /\ Go(q, "lock", "lock")
        /\ held' = [held EXCEPT ![q] = @ \cup {p}]
        /\ UNCHANGED <<lines, quoted, answer, stale, sweep, bill, announces>>

\* PostgreSQL breaks a cycle of lock waits by aborting one of its members.
WaitsFor(q, s) ==
  \/ pc[q] = "lock" /\ s # q /\ Needed(q) # held[q]
       /\ Needed(q) \ held[q] \subseteq LockedProducts(q)
       /\ held[s] \cap Needed(q) # {}
  \/ pc[q] = "coupon" /\ s # q /\ HoldsCoupon(s)
  \/ pc[q] = "insert" /\ s # q /\ SameKey(q, s) /\ HasInserted(s)

DeadlockVictim(q) ==
  /\ pc[q] = "lock"
  /\ \E S \in SUBSET Requests : /\ q \in S
                                /\ \A s \in S : \E t \in S : WaitsFor(s, t)
  /\ RawConflict(q)

\* Mutant: the quantity is compared with nothing.
InStockUnchecked(q) == \A p \in Needed(q) : product[p].active

\* doReserveStock: every locked row is active and has enough stock.
InStock(q) == \A p \in Needed(q) : Sellable(p, lines[q][p])

\* Mutant: the event carries the version before the update.
AnnounceOldVersion(q) ==
  [p \in Products |-> IF p \in Needed(q) THEN product[p].version ELSE 0]

\* sourceVersion of the ProductUpdated events: product.version + 1.
Announcement(q) ==
  [p \in Products |-> IF p \in Needed(q) THEN product[p].version + 1 ELSE 0]

\* Stock is decremented (the version guard holds under the lock), the order is
\* composed at the locked prices.
Reserve(q) ==
  /\ pc[q] = "lock"
  /\ held[q] = Needed(q)
  /\ \/ ~InStock(q) /\ Reject(q)
     \/ /\ InStock(q)
        /\ Go(q, "lock", IF q \in WithCode THEN "code" ELSE "insert")
        /\ bill' = [bill EXCEPT ![q] =
                      [p \in Products |-> IF p \in Needed(q) THEN product[p].price ELSE 0]]
        /\ announces' = [announces EXCEPT ![q] = Announcement(q)]
        /\ UNCHANGED <<lines, quoted, answer, held, stale, sweep>>

\* price: a code must be live and the order large enough.
CheckCode(q) ==
  /\ pc[q] = "code"
  /\ LET accepted == live /\ Amount(lines[q], bill[q]) >= MinOrder IN
     \/ ~accepted /\ Reject(q)
     \/ /\ accepted
        /\ Go(q, "code", "coupon")
        /\ UNCHANGED <<lines, quoted, answer, txVars>>

\* Mutant: the limit is not part of the guarded update.
CouponLeftUnchecked(q) == Coupon \notin stale[q]

\* incrementDiscountUsage: UPDATE ... WHERE usedCount < maxUses.
CouponLeft(q) == used < MaxUses /\ Coupon \notin stale[q]

TakeCoupon(q) ==
  /\ pc[q] = "coupon"
  /\ ~CouponLocked(q)
  /\ \/ ~CouponLeft(q) /\ Conflict(q)
     \/ /\ CouponLeft(q)
        /\ Go(q, "coupon", "insert")
        /\ UNCHANGED <<lines, quoted, answer, txVars>>

\* Mutant: expectedTotal is not compared.
AnyTotal(q) == TRUE

\* The total must be the one the customer reviewed.
AsQuoted(q) ==
  q \in Careful =>
    Total(q, lines[q], bill[q]) = Total(q, quoted[q].lines, quoted[q].bill)

\* Mutant: the unique index does not exist.
KeyNeverTaken(q) == FALSE

\* @@unique([userId, idempotencyKey])
KeyTaken(q) == Twins(q) # {}

\* saveNewOrder: another transaction that inserted the key is waited for.
InsertOrder(q) ==
  /\ pc[q] = "insert"
  /\ \/ ~AsQuoted(q) /\ Reject(q)
     \/ /\ AsQuoted(q)
        /\ ~KeyLocked(q)
        /\ \/ KeyTaken(q) /\ Rollback(q, "conflict")
           \/ /\ ~KeyTaken(q)
              /\ Go(q, "insert", "clear")
              /\ UNCHANGED <<lines, quoted, answer, txVars>>

\* deleteMany: the cart rows of the snapshot, ordered or not.
ClearCart(q) ==
  /\ pc[q] = "clear"
  /\ \A p \in sweep[q] : ~CartLocked(UserOf[q], p)
  /\ \/ CartRows \in stale[q] /\ Conflict(q)
     \/ /\ CartRows \notin stale[q]
        /\ Go(q, "clear", "commit")
        /\ UNCHANGED <<lines, quoted, answer, txVars>>

\* The rows of transaction s that the commit of q changed.
ChangedFor(q, s) ==
  Needed(q) \cup (IF q \in WithCode THEN {Coupon} ELSE {})
    \cup (IF UserOf[q] = UserOf[s] /\ sweep[q] \cap sweep[s] # {} THEN {CartRows} ELSE {})

\* The order's own event is part of the order here: both are inserted together.
Commit(q) ==
  /\ pc[q] = "commit"
  /\ product' = [p \in Products |->
                   IF p \in Needed(q)
                   THEN [product[p] EXCEPT !.stock = @ - lines[q][p], !.version = @ + 1]
                   ELSE product[p]]
  /\ announced' = [p \in Products |->
                     announced[p] \cup (IF p \in Needed(q) THEN {announces[q][p]} ELSE {})]
  /\ used' = IF q \in WithCode THEN used + 1 ELSE used
  /\ order' = [order EXCEPT ![q] = [lines |-> lines[q], bill |-> bill[q]]]
  /\ cart' = [cart EXCEPT ![UserOf[q]] =
                [p \in Products |-> IF p \in sweep[q] THEN 0 ELSE @[p]]]
  /\ Touch(q, [s \in Requests |-> ChangedFor(q, s)])
  /\ EndTx(q, "reload")
  /\ UNCHANGED <<live, supply, view, answer>>

\* PostgreSQL may refuse the commit of a serializable transaction.
CommitRefused(q) == pc[q] = "commit" /\ Conflict(q)

-----------------------------------------------------------------------------
(* After the transaction.                                                    *)

\* findOrderWithItems and the 201 response.
Reload(q) ==
  /\ Go(q, "reload", "answered")
  /\ answer' = [answer EXCEPT ![q] = q]
  /\ UNCHANGED <<lines, quoted, txVars>>

\* IdempotencyConflictError: the order of the request that won.
AnswerAfterConflict(q) == AnswerTwin(q, "conflict")

\* The database, the process or the connection to the client fails; an open
\* transaction is rolled back, a committed one stays.
Lose(q) == pc[q] \notin Final \cup {"new"} /\ Failure(q)

-----------------------------------------------------------------------------
\* What a request does as long as nothing fails.
RequestStep(q) ==
  \/ Lookup(q) \/ ReadCart(q) \/ Begin(q)
  \/ \E p \in Products : LockProduct(q, p)
  \/ DeadlockVictim(q)
  \/ Reserve(q) \/ CheckCode(q) \/ TakeCoupon(q) \/ InsertOrder(q) \/ ClearCart(q) \/ Commit(q)
  \/ Reload(q) \/ AnswerAfterConflict(q)

Environment ==
  \/ \E u \in Users, p \in Products, n \in 0..MaxQty : SetCartItem(u, p, n)
  \/ \E u \in Users : EmptyCart(u)
  \/ \E a \in Admins : AdminUpdate(a) \/ \E p \in Products : AdminRead(a, p)
  \/ CouponExpires

Next ==
  \/ \E q \in Requests : RequestStep(q) \/ Quote(q) \/ CommitRefused(q) \/ Lose(q)
  \/ Environment

Spec == Init /\ [][Next]_vars

\* The process keeps serving the request; PostgreSQL detects deadlocks.
Fairness == \A q \in Requests : WF_vars(RequestStep(q))

LiveSpec == Spec /\ Fairness

-----------------------------------------------------------------------------
(* Properties.                                                               *)

\* However a request is duplicated, retried or interrupted, one customer and one
\* Idempotency-Key never have two orders, and every response names that order.
OneOrderPerKey ==
  /\ \A q, s \in Placed : SameKey(q, s) => q = s
  /\ \A q \in Requests : pc[q] = "answered" => answer[q] \in Twins(q)

\* What has been ordered of a product.
Sold(p) == SumFunction([q \in Requests |-> IF q \in Placed THEN order[q].lines[p] ELSE 0])

\* Concurrent orders and administrators never bring a stock below zero.
NeverOversold == \A p \in Products : product[p].stock >= 0

\* No order oversells stock, takes it twice or loses what another has taken: what was
\* put on sale is what is left and what was ordered. A stock that an administrator
\* sets is taken as put on sale; whether he knew the stock he replaces is
\* AdminUpdatesWhatItRead.
StockConserved ==
  NeverOversold /\ \A p \in Products : supply[p] = product[p].stock + Sold(p)

\* Each use of the discount belongs to one order and the limit holds.
DiscountWithinLimit ==
  used <= MaxUses /\ used = Cardinality(Placed \cap WithCode)

\* The outbox announces exactly the versions each product has had: a projection
\* that follows versions misses none and never runs ahead of the product.
EveryVersionAnnounced ==
  \A p \in Products : announced[p] = 0..product[p].version

\* An order is charged at the prices in force when it commits, and at the total
\* the customer reviewed.
ChargedAsAgreed ==
  [][\A q \in Requests : order[q] = Nobody /\ order'[q] # Nobody =>
       /\ \A p \in Needed(q) : order'[q].bill[p] = product[p].price
       /\ q \in Careful =>
            Total(q, order'[q].lines, order'[q].bill)
              = Total(q, quoted[q].lines, quoted[q].bill)]_vars

\* A request that has begun is answered, rejected or fails, in spite of row
\* locks, deadlocks and conflicts.
EventuallyDecided == \A q \in Requests : pc[q] = "cart" ~> pc[q] \in Final

\* Stated by README.md: "Optimistic Concurrency Control uses persisted version
\* fields for Product and Order updates".  Then an administrator's update only
\* applies to the version of the product it was computed from.
AdminUpdatesWhatItRead ==
  [][\A a \in Admins : view[a] # Nobody /\ view'[a] = Nobody =>
       product[view[a].of].version = view[a].version]_vars
=============================================================================
