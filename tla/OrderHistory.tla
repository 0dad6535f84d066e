---------------------------- MODULE OrderHistory ----------------------------
(***************************************************************************)
(* What follows the events of orders: the order-history projection and its  *)
(* rebuild, the admin dashboard and the customers' notifications.           *)
(* The relay promises at-least-once delivery in any order (module           *)
(* OutboxDelivery): here any idle relay may take any delivery that is still *)
(* due, two relays may have the same one, and a relay may stop at any       *)
(* statement. Every database statement is a step of its own.                *)
(***************************************************************************)
EXTENDS Orders, FiniteSets

CONSTANTS Relays,      \* relay instances handling deliveries
          Rebuilders,  \* rebuild-order-history-projection processes
          Counters,    \* queries of the dashboard over this projection
          Crews        \* who runs together, and the bound on interrupted workers

Workers == Relays \cup Rebuilders

VARIABLES row,        \* order_history_projection
          due,        \* deliveries not yet tracked as done
          pc,         \* the statement a worker is at
          task,       \* what a worker projects or tells the customer
          tally,      \* results of a worker's dashboard queries so far
          dashboard,  \* admin_dashboard_projection
          crew,       \* one of Crews, chosen at the start: the workers running, and
                      \* how many of their handlers and rebuilds are interrupted at most
          notice,     \* notice[o][s]: the notification keyed order-status-o-s
          crashes

historyVars == <<row, due, pc, task, tally, dashboard, notice, crashes>>
historyAll  == <<orderVars, historyVars>>

-----------------------------------------------------------------------------
Subscribed == {"projectPlaced", "projectStatus", "notify"}
Task       == [handler : Subscribed \cup {"rebuild"}, of : Orders, value : Statuses, version : Nat]
Row        == [value : Statuses, version : Nat]

ASSUME HistoryAssumption ==
  /\ Nothing \notin Task /\ Nothing \notin Row
  /\ IsFiniteSet(Orders) /\ Relays \cap Rebuilders = {}
  /\ Counters \subseteq {"totalOrders", "gross", "pendingOrders", "completedOrders"}
  /\ \A c \in Crews : c.who \subseteq Workers /\ IsFiniteSet(c.who)

PcStates   == {"idle", "update", "create", "retry", "check", "patch", "exists",
               "upsert", "count", "store", "done"}

\* The subscriptions to the events of orders; OrderCancelled has none.
HandlersOf(name) ==
  CASE name = "OrderPlaced"        -> {"projectPlaced"}
    [] name = "OrderStatusChanged" -> {"projectStatus", "notify"}
    [] OTHER                       -> {}

Deliveries(events) ==
  UNION {{[handler |-> h, of |-> e.of, value |-> e.status, version |-> e.version]
            : h \in HandlersOf(e.name)} : e \in events}

\* Orders whose row shows one of the statuses in S.
RowsWith(S) == Cardinality({o \in Orders : row[o] # Nothing /\ row[o].value \in S})

\* What refreshDashboard counts; an order counts 1 towards the gross value.
Count(c) ==
  CASE c = "totalOrders"     -> RowsWith(Statuses)
    [] c = "gross"           -> RowsWith(Statuses \ {"CANCELLED"})
    [] c = "pendingOrders"   -> RowsWith({"PENDING"})
    [] c = "completedOrders" -> RowsWith({"DELIVERED"})

NotCounted == Cardinality(Orders) + 1
NoTally    == [c \in Counters |-> NotCounted]

HistoryTypeOK ==
  /\ row \in [Orders -> Row \cup {Nothing}]
  /\ due \subseteq Task
  /\ pc \in [Workers -> PcStates]
  /\ task \in [Workers -> Task \cup {Nothing}]
  /\ tally \in [Workers -> [Counters -> 0..NotCounted]]
  /\ dashboard \in [Counters -> 0..NotCounted]
  /\ crew \in Crews
  /\ notice \in [Orders -> [Statuses -> {"none", "unread", "read"}]]
  /\ crashes \in Nat

HistoryInit ==
  /\ row = [o \in Orders |-> Nothing]
  /\ due = {}
  /\ pc = [w \in Workers |-> "idle"]
  /\ task = [w \in Workers |-> Nothing]
  /\ tally = [w \in Workers |-> NoTally]
  /\ dashboard = [c \in Counters |-> 0]
  /\ crew \in Crews
  /\ notice = [o \in Orders |-> [s \in Statuses |-> "none"]]
  /\ crashes = 0

-----------------------------------------------------------------------------
(* The write side: what it commits becomes due.                            *)

WriteSide(o) ==
  /\ PlaceOrder(o) \/ \E s \in Statuses : ChangeOrder(o, s)
  /\ due' = due \cup Deliveries(outbox' \ outbox)
  /\ UNCHANGED <<row, pc, task, tally, dashboard, notice, crashes>>

-----------------------------------------------------------------------------
(* A worker's life.                                                        *)

Step(w, from, to) ==
  /\ pc[w] = from
  /\ pc' = [pc EXCEPT ![w] = to]
  /\ UNCHANGED <<orderVars, crashes>>

Begin(w, t, first) ==
  /\ Step(w, "idle", first)
  /\ task' = [task EXCEPT ![w] = t]
  /\ UNCHANGED <<row, due, tally, dashboard, notice>>

Take(w, d) ==
  /\ w \in Relays \cap crew.who
  /\ d \in due
  /\ \/ d.handler = "projectPlaced" /\ Begin(w, d, "update")
     \/ d.handler = "projectStatus" /\ Begin(w, d, "patch")
     \/ d.handler = "notify" /\ Begin(w, d, "upsert")

\* A rebuild reads an order and writes what it read, whatever happens in between.
Rebuild(w, o) ==
  /\ w \in Rebuilders \cap crew.who
  /\ log[o] # <<>>
  /\ Begin(w, [handler |-> "rebuild", of |-> o, value |-> Status(o), version |-> Version(o)],
           "update")

\* Where a worker goes once its row is written: handlers refresh the dashboard.
AfterRow(w) == IF w \in Rebuilders THEN "done" ELSE "count"

-----------------------------------------------------------------------------
(* writeOrderHistoryProjection: update, create, update again, look.         *)

\* Mutant: the row is written whatever version it has.
Existing(w) == row[task[w].of] # Nothing

Older(w) == /\ row[task[w].of] # Nothing
            /\ row[task[w].of].version < task[w].version

WriteRow(w) ==
  /\ row' = [row EXCEPT ![task[w].of] =
               [value |-> task[w].value, version |-> task[w].version]]
  /\ UNCHANGED <<due, task, tally, dashboard, notice>>

SameRows == UNCHANGED <<row, due, task, tally, dashboard, notice>>

UpdateRow(w) ==
  \/ Step(w, "update", AfterRow(w)) /\ Older(w) /\ WriteRow(w)
  \/ Step(w, "update", "create") /\ ~Older(w) /\ SameRows

CreateRow(w) ==
  \/ Step(w, "create", AfterRow(w)) /\ row[task[w].of] = Nothing /\ WriteRow(w)
  \/ Step(w, "create", "retry") /\ row[task[w].of] # Nothing /\ SameRows

RetryRow(w) ==
  \/ Step(w, "retry", AfterRow(w)) /\ Older(w) /\ WriteRow(w)
  \/ Step(w, "retry", "check") /\ ~Older(w) /\ SameRows

\* The row that was in the way is still there: rows of this table are not deleted.
CheckRow(w) ==
  /\ Step(w, "check", AfterRow(w))
  /\ row[task[w].of] # Nothing /\ row[task[w].of].version >= task[w].version
  /\ SameRows

-----------------------------------------------------------------------------
(* updateOrderStatus: a change waits for the row of its order.              *)

PatchRow(w) ==
  \/ Step(w, "patch", "count") /\ Older(w) /\ WriteRow(w)
  \/ Step(w, "patch", "exists") /\ ~Older(w) /\ SameRows

\* Mutant: a change whose order has no row yet is dropped.
GiveUpWithoutRow(w) ==
  /\ Step(w, "exists", "count")
  /\ SameRows

\* Mutant: a change that is in the row already does not refresh the dashboard.
NothingToDo(w) ==
  \/ Step(w, "exists", "done") /\ row[task[w].of] # Nothing /\ SameRows
  \/ /\ Step(w, "exists", "idle")
     /\ row[task[w].of] = Nothing
     /\ task' = [task EXCEPT ![w] = Nothing]
     /\ UNCHANGED <<row, due, tally, dashboard, notice>>

\* ProjectionDependencyError leaves the delivery due.
RowExists(w) ==
  \/ Step(w, "exists", "count") /\ row[task[w].of] # Nothing /\ SameRows
  \/ /\ Step(w, "exists", "idle")
     /\ row[task[w].of] = Nothing
     /\ task' = [task EXCEPT ![w] = Nothing]
     /\ UNCHANGED <<row, due, tally, dashboard, notice>>

-----------------------------------------------------------------------------
(* refreshDashboard: queries in any order, then one upsert.                 *)

Query(w, c) ==
  /\ tally[w][c] = NotCounted
  /\ Step(w, "count", "count")
  /\ tally' = [tally EXCEPT ![w][c] = Count(c)]
  /\ UNCHANGED <<row, due, task, dashboard, notice>>

StoreDashboard(w) ==
  /\ \A c \in Counters : tally[w][c] # NotCounted
  /\ Step(w, "count", "done")
  /\ dashboard' = tally[w]
  /\ tally' = [tally EXCEPT ![w] = NoTally]
  /\ UNCHANGED <<row, due, task, notice>>

-----------------------------------------------------------------------------
(* Notifications.                                                           *)

\* Mutant: a redelivered change overwrites the notification.
UpsertAfresh(w) ==
  /\ Step(w, "upsert", "done")
  /\ notice' = [notice EXCEPT ![task[w].of][task[w].value] = "unread"]
  /\ UNCHANGED <<row, due, task, tally, dashboard>>

\* create() with an idempotency key: an upsert that updates nothing.
Notify(w) ==
  /\ Step(w, "upsert", "done")
  /\ notice' = [notice EXCEPT ![task[w].of][task[w].value] = IF @ = "none" THEN "unread" ELSE @]
  /\ UNCHANGED <<row, due, task, tally, dashboard>>

MarkAsRead(o, s) ==
  /\ notice[o][s] = "unread"
  /\ notice' = [notice EXCEPT ![o][s] = "read"]
  /\ UNCHANGED <<orderVars, row, due, pc, task, tally, dashboard, crashes>>

\* All of them belong to one customer here.
MarkAllAsRead ==
  /\ \E o \in Orders, s \in Statuses : notice[o][s] = "unread"
  /\ notice' = [o \in Orders |-> [s \in Statuses |->
                  IF notice[o][s] = "unread" THEN "read" ELSE notice[o][s]]]
  /\ UNCHANGED <<orderVars, row, due, pc, task, tally, dashboard, crashes>>

-----------------------------------------------------------------------------
\* The tracker records the handler's success; a rebuild just ends.
Finish(w) ==
  /\ Step(w, "done", "idle")
  /\ task' = [task EXCEPT ![w] = Nothing]
  /\ due' = due \ {task[w]}
  /\ UNCHANGED <<row, tally, dashboard, notice>>

\* A process dies, or a statement fails: the delivery stays due.
Interrupt(w) ==
  /\ pc[w] # "idle" /\ crashes < crew.crashes
  /\ crashes' = crashes + 1
  /\ pc' = [pc EXCEPT ![w] = "idle"]
  /\ task' = [task EXCEPT ![w] = Nothing]
  /\ tally' = [tally EXCEPT ![w] = NoTally]
  /\ UNCHANGED <<orderVars, row, due, dashboard, notice>>

WorkerStep(w) ==
  \/ UpdateRow(w) \/ CreateRow(w) \/ RetryRow(w) \/ CheckRow(w)
  \/ PatchRow(w) \/ RowExists(w)
  \/ StoreDashboard(w) \/ \E c \in Counters : Query(w, c)
  \/ Notify(w) \/ Finish(w)

HistoryNext ==
  /\ \/ \E o \in Orders : WriteSide(o)
     \/ \E w \in crew.who : WorkerStep(w) \/ Interrupt(w)
     \/ \E w \in crew.who, d \in due : Take(w, d)
     \/ \E w \in crew.who, o \in Orders : Rebuild(w, o)
     \/ MarkAllAsRead \/ \E o \in Orders, s \in Statuses : MarkAsRead(o, s)
  /\ UNCHANGED crew

HistorySpec == OrdersInit /\ HistoryInit /\ [][HistoryNext]_<<historyAll, crew>>

\* A worker that has begun goes on, and while deliveries to a handler about an order
\* are due some idle relay takes one again and again: the relay polls for ever and
\* claims the oldest rows first.
HistoryFairness ==
  /\ \A w \in Workers : WF_historyAll(WorkerStep(w))
  /\ \A h \in Subscribed, o \in Orders :
       SF_historyAll(\E w \in Relays, d \in due : d.handler = h /\ d.of = o /\ Take(w, d))

-----------------------------------------------------------------------------
\* The projection implements the read model: what the row of an order shows is the
\* status that order had at the row's version, and the row only moves to a later
\* version, although handlers and rebuilds write what they read or were sent
\* earlier, in three unprotected statements, in any order and more than once.
OrderReadModel == INSTANCE ReadModel WITH
  Keys <- Orders, Values <- Statuses, NoRow <- Nothing, committed <- log, shown <- row

HistoryImplementsReadModel == OrderReadModel!ReadModelSpec

LoneRelay == crew.who \subseteq Relays /\ Cardinality(crew.who) = 1

\* With one relay and no rebuild running, every status change reaches the history:
\* a change that comes before the placement of its order, or a handler that dies
\* half way, only delays it.
HistoryCatchesUp == LoneRelay => OrderReadModel!CatchesUp

\* With one relay, once every delivery is done, the dashboard counts what the rows
\* say, although it is queries followed by an unconditional upsert and any of them
\* may be the last that is executed.
DashboardSettles ==
  LoneRelay /\ due = {} => \A c \in Counters : dashboard[c] = Count(c)

\* OPERATIONS.md, projection ordering policy: a status event without its placement
\* row fails with a retryable error "so the relay cannot silently lose it". So once
\* the deliveries of an order are done its row has the order's version.
ChangesAreNotLost ==
  \A o \in Orders : log[o] # <<>> /\ (\A d \in due : d.of # o)
    => row[o] # Nothing /\ row[o].version = Version(o)

\* A notification the customer has read stays read when its event comes again.
ReadStaysRead ==
  [][\A o \in Orders, s \in Statuses : notice[o][s] = "read" => notice'[o][s] = "read"]_historyAll
=============================================================================
