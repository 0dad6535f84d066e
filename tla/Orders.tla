------------------------------- MODULE Orders -------------------------------
(***************************************************************************)
(* The write side of orders after checkout (OrdersService.updateOrderStatus *)
(* and PrismaOrdersRepository): staff move an order along its lifecycle by  *)
(* reading it, deciding, and writing under the version they read. Every     *)
(* committed change leaves an outbox event that carries the new version.    *)
(***************************************************************************)
EXTENDS Integers, Sequences, OrderLifecycle

CONSTANTS Orders,      \* order identifiers
          Staff,       \* concurrent admin requests
          Nothing,     \* no order, no row, no request in hand
          MaxVersion   \* bound: changes of one order

VARIABLES log,     \* log[o]: the status of order o at versions 0, 1, ...; empty before checkout
          hand,    \* hand[a]: the order a request has read and the status it will write
          outbox   \* events committed with the changes

orderVars == <<log, hand, outbox>>

Status(o)  == log[o][Len(log[o])]
Version(o) == Len(log[o]) - 1

Event == [name : {"OrderPlaced", "OrderStatusChanged", "OrderCancelled"},
          of : Orders, status : Statuses, version : Nat]
Decision == [of : Orders, status : Statuses, version : Nat]

ASSUME NothingIsNoDecision == Nothing \notin Decision /\ Nothing \notin Orders

OrdersTypeOK ==
  /\ log \in [Orders -> Seq(Statuses)]
  /\ hand \in [Staff -> Decision \cup {Nothing}]
  /\ outbox \subseteq Event

OrdersInit ==
  /\ log = [o \in Orders |-> <<>>]
  /\ hand = [a \in Staff |-> Nothing]
  /\ outbox = {}

\* The events of one committed change: a cancellation raises two, of one version.
EventsOf(o, s, v) ==
  LET Named(n) == [name |-> n, of |-> o, status |-> s, version |-> v]
  IN  IF v = 0 THEN {Named("OrderPlaced")}
      ELSE {Named("OrderStatusChanged")}
             \cup {e \in {Named("OrderCancelled")} : s = "CANCELLED"}

\* Commit of the row and of its events in one transaction.
Persist(o, s) ==
  /\ log' = [log EXCEPT ![o] = Append(@, s)]
  /\ outbox' = outbox \cup EventsOf(o, s, Len(log[o]))

\* The checkout transaction inserts the order (module Checkout).
PlaceOrder(o) ==
  /\ log[o] = <<>>
  /\ Persist(o, "PENDING")
  /\ UNCHANGED hand

\* findById, hydrate and the aggregate's transition: refused ones write nothing.
Decide(a, o, s) ==
  /\ hand[a] = Nothing
  /\ log[o] # <<>>
  /\ CanTransition(Status(o), s)
  /\ hand' = [hand EXCEPT ![a] = [of |-> o, status |-> s, version |-> Version(o)]]
  /\ UNCHANGED <<log, outbox>>

\* Mutant: the update selects the row by its id alone.
WriteUnconditionally(a) ==
  /\ hand[a] # Nothing
  /\ Persist(hand[a].of, hand[a].status)
  /\ hand' = [hand EXCEPT ![a] = Nothing]

\* updateStatusWithEvents: the row is selected by id and version.
WriteStatus(a) ==
  /\ hand[a] # Nothing
  /\ IF Version(hand[a].of) = hand[a].version
     THEN Persist(hand[a].of, hand[a].status)
     ELSE UNCHANGED <<log, outbox>>   \* ConflictError
  /\ hand' = [hand EXCEPT ![a] = Nothing]

\* What a request amounts to when it is written: HistoryIsLegal shows that the
\* status it decides on is still the order's then.
ChangeOrder(o, s) ==
  /\ log[o] # <<>>
  /\ CanTransition(Status(o), s)
  /\ Version(o) < MaxVersion
  /\ Persist(o, s)
  /\ UNCHANGED hand

OrdersNext ==
  \/ \E o \in Orders : PlaceOrder(o)
  \/ \E a \in Staff, o \in Orders, s \in Statuses : Decide(a, o, s)
  \/ \E a \in Staff : WriteStatus(a)

OrdersSpec == OrdersInit /\ [][OrdersNext]_orderVars

-----------------------------------------------------------------------------
\* However many requests decide on the same order at once, its history is a path
\* of the lifecycle that begins at PENDING: a transition that was legal when it was
\* decided is never written over a status for which it is not, such as CANCELLED
\* over an order that has been shipped in between.
HistoryIsLegal ==
  \A o \in Orders : \A n \in 1..Len(log[o]) :
    IF n = 1 THEN log[o][n] = "PENDING" ELSE CanTransition(log[o][n - 1], log[o][n])
=============================================================================
