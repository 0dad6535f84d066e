------------------------------- MODULE CartLine -------------------------------
(***************************************************************************)
(* The line of one product in one customer's cart, and the requests that    *)
(* change it. Every request asks for one piece, so a quantity is the set of *)
(* requests it adds up; the cart itself is created with its user. Whether   *)
(* the stock read earlier suffices is left open.                            *)
(***************************************************************************)
EXTENDS Integers, FiniteSets

CONSTANTS Shoppers,   \* requests: one call of CartService each
          MaxLine,    \* bound: lines created
          NoLine      \* no row in cart_items

VARIABLES line,       \* the row: its id and what its quantity adds up
          lineCount,  \* lines created so far
          shopper,    \* shopper[s]: where a request is, and the row it has read
          gone        \* requests whose pieces were in a line that has been deleted

cartVars == <<line, lineCount, shopper, gone>>

Line == [id : 1 .. MaxLine, pieces : SUBSET Shoppers]

ASSUME CartAssumption == MaxLine \in Nat /\ NoLine \notin Line

CartTypeOK ==
  /\ line \in Line \cup {NoLine} /\ lineCount \in 0 .. MaxLine
  /\ shopper \in [Shoppers ->
       [at : {"idle", "add", "increase", "create", "set", "remove", "over"},
        read : Line \cup {NoLine}]]
  /\ gone \subseteq Shoppers

CartInit ==
  /\ line = NoLine /\ lineCount = 0 /\ gone = {}
  /\ shopper = [s \in Shoppers |-> [at |-> "idle", read |-> NoLine]]

ShopperGoes(s, from, to, read) ==
  /\ shopper[s].at = from
  /\ shopper' = [shopper EXCEPT ![s] = [at |-> to, read |-> read]]

Answer(s, from) == ShopperGoes(s, from, "over", NoLine)

-----------------------------------------------------------------------------
\* addItem: the stock first, then the line; both may have changed when it writes.
ReadStock(s) ==
  /\ \/ ShopperGoes(s, "idle", "add", NoLine)
     \/ Answer(s, "idle")
  /\ UNCHANGED <<line, lineCount, gone>>

FindCartItem(s) ==
  /\ IF line = NoLine THEN ShopperGoes(s, "add", "create", NoLine)
     ELSE ShopperGoes(s, "add", "increase", line) \/ Answer(s, "add")
  /\ UNCHANGED <<line, lineCount, gone>>

\* Mutant: the row is found by its cart and product.
SameLine(s) == line # NoLine

\* A row is updated and deleted by its id: if it is gone, the request fails.
SameLineId(s) == line # NoLine /\ line.id = shopper[s].read.id

\* The quantity is the one that was read, plus one: of two requests that read the same
\* quantity one is lost.
IncreaseQuantity(s) ==
  /\ Answer(s, "increase")
  /\ line' = IF SameLineId(s) THEN [line EXCEPT !.pieces = shopper[s].read.pieces \cup {s}] ELSE line
  /\ UNCHANGED <<lineCount, gone>>

\* The unique key of cart and product: a second line is not created.
CreateCartItem(s) ==
  /\ Answer(s, "create")
  /\ IF line = NoLine /\ lineCount < MaxLine
     THEN /\ lineCount' = lineCount + 1
          /\ line' = [id |-> lineCount + 1, pieces |-> {s}]
     ELSE UNCHANGED <<line, lineCount>>
  /\ UNCHANGED gone

\* updateItem: the cart with its lines first, then the stock.
ReadCart(s, to) ==
  /\ IF line = NoLine THEN Answer(s, "idle")
     ELSE ShopperGoes(s, "idle", to, line) \/ Answer(s, "idle")
  /\ UNCHANGED <<line, lineCount, gone>>

SetQuantity(s) ==
  /\ Answer(s, "set")
  /\ line' = IF SameLineId(s) THEN [line EXCEPT !.pieces = {s}] ELSE line
  /\ UNCHANGED <<lineCount, gone>>

Delete == gone' = gone \cup line.pieces /\ line' = NoLine

\* removeItem, and updateItem to nothing.
RemoveItem(s) ==
  /\ Answer(s, "remove")
  /\ IF SameLineId(s) THEN Delete ELSE UNCHANGED <<line, gone>>
  /\ UNCHANGED lineCount

\* clearCart, and the checkout of the cart: all lines of the cart at once.
ClearCart ==
  /\ line # NoLine /\ Delete
  /\ UNCHANGED <<lineCount, shopper>>

CartNext ==
  \/ \E s \in Shoppers :
       \/ ReadStock(s) \/ FindCartItem(s) \/ IncreaseQuantity(s) \/ CreateCartItem(s)
       \/ ReadCart(s, "set") \/ SetQuantity(s) \/ ReadCart(s, "remove") \/ RemoveItem(s)
  \/ ClearCart

CartSpec == CartInit /\ [][CartNext]_cartVars

-----------------------------------------------------------------------------
\* What has been bought, cleared or removed does not come back: a request that read the
\* line before it was deleted fails, even when the product has been added again.
GoneStaysGone == line # NoLine => line.pieces \cap gone = {}
=============================================================================
