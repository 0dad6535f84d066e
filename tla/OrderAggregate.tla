--------------------------- MODULE OrderAggregate ---------------------------
(***************************************************************************)
(* The Order entity (src/modules/orders/domain/order.entity.ts): a draft is *)
(* filled with items and priced, then placed, which freezes it; its status  *)
(* moves along the allowed transitions whether it has been placed or not.   *)
(* An operation that throws leaves the entity as it was, so it is no step.  *)
(***************************************************************************)
EXTENDS Naturals, Functions, OrderLifecycle

CONSTANTS Lines,       \* products an order can contain
          LinePrices,  \* unit prices a product may be added at
          Charges,     \* amounts of tax, shipping fee and discount
          MaxLine      \* stands for MAX_SAFE_INTEGER, the bound of a quantity

ASSUME AggregateAssumption == LinePrices # {} /\ 0 \in Charges /\ MaxLine \in Nat

VARIABLES items,         \* items[p]: quantity and unit price of p in the order
          pricing,       \* tax, shipping fee and discount
          draftStatus,   \* status of the entity
          hasBeenPlaced, \* PENDING alone does not tell a draft from an order
          raised         \* events waiting in the entity, by name

draftVars == <<items, pricing, draftStatus, hasBeenPlaced, raised>>

DraftTypeOK ==
  /\ items \in [Lines -> [quantity : 0..MaxLine, price : LinePrices]]
  /\ pricing \in [tax : Charges, shipping : Charges, discount : Charges]
  /\ draftStatus \in Statuses
  /\ hasBeenPlaced \in BOOLEAN
  /\ raised \subseteq {"OrderPlaced", "OrderStatusChanged", "OrderCancelled"}

\* Order.create
Create ==
  /\ items \in [Lines -> [quantity : {0}, price : {CHOOSE c \in LinePrices : TRUE}]]
  /\ pricing = [tax |-> 0, shipping |-> 0, discount |-> 0]
  /\ draftStatus = "PENDING"
  /\ hasBeenPlaced = FALSE
  /\ raised = {}

Subtotal == SumFunction([p \in Lines |-> items[p].quantity * items[p].price])
Gross    == Subtotal + pricing.tax + pricing.shipping

IsMutable == ~hasBeenPlaced /\ draftStatus = "PENDING"

\* Mutant: the merged quantity is not checked.
AddUnchecked(p, n, c) ==
  /\ IsMutable
  /\ items[p].quantity > 0 => items[p].price = c
  /\ items' = [items EXCEPT ![p] = [quantity |-> @.quantity + n, price |-> c]]
  /\ UNCHANGED <<pricing, draftStatus, hasBeenPlaced, raised>>

\* A product already there is merged, at the same unit price only.
AddItem(p, n, c) ==
  /\ IsMutable
  /\ items[p].quantity + n <= MaxLine
  /\ items[p].quantity > 0 => items[p].price = c
  /\ items' = [items EXCEPT ![p] = [quantity |-> @.quantity + n, price |-> c]]
  /\ UNCHANGED <<pricing, draftStatus, hasBeenPlaced, raised>>

\* Mutant: the item is removed from a placed order as well.
RemoveFromAny(p) ==
  /\ items[p].quantity > 0
  /\ items' = [items EXCEPT ![p].quantity = 0]
  /\ UNCHANGED <<pricing, draftStatus, hasBeenPlaced, raised>>

RemoveItem(p) ==
  /\ IsMutable
  /\ items[p].quantity > 0
  /\ items' = [items EXCEPT ![p].quantity = 0]
  /\ UNCHANGED <<pricing, draftStatus, hasBeenPlaced, raised>>

ApplyPricing(amounts) ==
  /\ IsMutable
  /\ amounts.discount <= Subtotal
  /\ pricing' = amounts
  /\ UNCHANGED <<items, draftStatus, hasBeenPlaced, raised>>

\* place() evaluates the total, which refuses a discount above the gross amount.
PlaceDraft ==
  /\ IsMutable
  /\ \E p \in Lines : items[p].quantity > 0
  /\ pricing.discount <= Gross
  /\ hasBeenPlaced' = TRUE
  /\ raised' = raised \cup {"OrderPlaced"}
  /\ UNCHANGED <<items, pricing, draftStatus>>

\* confirm, ship, deliver and cancel
ChangeStatus(to) ==
  /\ CanTransition(draftStatus, to)
  /\ draftStatus' = to
  /\ raised' = raised \cup {"OrderStatusChanged"}
                    \cup (IF to = "CANCELLED" THEN {"OrderCancelled"} ELSE {})
  /\ UNCHANGED <<items, pricing, hasBeenPlaced>>

DraftNext ==
  \/ \E p \in Lines : RemoveItem(p) \/ \E n \in 1..MaxLine, c \in LinePrices : AddItem(p, n, c)
  \/ \E a \in [tax : Charges, shipping : Charges, discount : Charges] : ApplyPricing(a)
  \/ PlaceDraft
  \/ \E s \in Statuses : ChangeStatus(s)

DraftSpec == Create /\ [][DraftNext]_draftVars

-----------------------------------------------------------------------------
\* Whatever is added, removed and priced in whatever order, and whatever is
\* attempted afterwards, an order that has been placed has items and a total
\* that is not negative: the discount accepted for an earlier subtotal is
\* measured again when items have been removed since.
PlacedOrderIsPayable ==
  hasBeenPlaced => /\ \E p \in Lines : items[p].quantity > 0
                   /\ pricing.discount <= Gross
=============================================================================
