--------------------------- MODULE OrderLifecycle ---------------------------
\* The statuses of an order and the transitions between them, which the entity
\* (OrderAggregate) and the stored orders (Orders) share.
Statuses == {"PENDING", "PROCESSING", "SHIPPED", "DELIVERED", "CANCELLED"}

ALLOWED_TRANSITIONS ==
  [s \in Statuses |->
     CASE s = "PENDING"    -> {"PROCESSING", "CANCELLED"}
       [] s = "PROCESSING" -> {"SHIPPED", "CANCELLED"}
       [] s = "SHIPPED"    -> {"DELIVERED"}
       [] OTHER            -> {}]

CanTransition(from, to) == to \in ALLOWED_TRANSITIONS[from]
=============================================================================
