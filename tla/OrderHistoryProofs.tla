-------------------------- MODULE OrderHistoryProofs --------------------------
(***************************************************************************)
(* Proofs about Orders and OrderHistory for every set of orders, staff,    *)
(* relays and rebuilds, and however often handlers are interrupted: types, *)
(* a history that is always a path of the lifecycle, a projection that     *)
(* implements the read model, a dashboard that settles, and notifications  *)
(* that stay read.                                                         *)
(***************************************************************************)
EXTENDS OrderHistory, SequenceTheorems, FiniteSetTheorems, TLAPS

-----------------------------------------------------------------------------
(* The write side.                                                           *)

\* A request in hand decided on a status its order has had, at the version it read.
\* Statuses of earlier versions never change, so this stays true while others write.
HandsAreSound ==
  \A a \in Staff : hand[a] # Nothing =>
    LET d == hand[a] IN
    /\ d.version + 1 \in 1..Len(log[d.of])
    /\ CanTransition(log[d.of][d.version + 1], d.status)

OrdersInv == OrdersTypeOK /\ HandsAreSound /\ HistoryIsLegal

-----------------------------------------------------------------------------
\* Appending keeps the statuses of earlier versions.
LEMMA Appended ==
  ASSUME NEW S, NEW q \in Seq(S), NEW s \in S
  PROVE  /\ Append(q, s) \in Seq(S)
         /\ Len(Append(q, s)) = Len(q) + 1
         /\ \A n \in 1..Len(q) : Append(q, s)[n] = q[n]
         /\ Append(q, s)[Len(q) + 1] = s
         /\ Len(q) \in Nat
  OBVIOUS

\* A committed change lengthens one log by one status and leaves the others alone.
LEMMA PersistLog ==
  ASSUME OrdersTypeOK, NEW o \in Orders, NEW s \in Statuses, Persist(o, s)
  PROVE  /\ log' \in [Orders -> Seq(Statuses)]
         /\ outbox' \subseteq Event
         /\ \A p \in Orders : p # o => log'[p] = log[p]
         /\ Len(log[o]) \in Nat /\ Len(log'[o]) = Len(log[o]) + 1
         /\ \A n \in 1..Len(log[o]) : log'[o][n] = log[o][n]
         /\ log'[o][Len(log[o]) + 1] = s
  <1>1. log[o] \in Seq(Statuses) /\ log' = [log EXCEPT ![o] = Append(log[o], s)]
        BY DEF Persist, OrdersTypeOK
  <1>2. log'[o] = Append(log[o], s)
        BY <1>1 DEF OrdersTypeOK
  <1>3. log' \in [Orders -> Seq(Statuses)]
        BY <1>1, Appended DEF OrdersTypeOK
  <1>4. Len(log[o]) \in Nat
        BY <1>1
  <1>5. EventsOf(o, s, Len(log[o])) \subseteq Event
        BY <1>4 DEF EventsOf, Event
  <1> QED
      BY <1>1, <1>2, <1>3, <1>4, <1>5, Appended DEF Persist, OrdersTypeOK

\* Whoever commits a transition that is legal for the current status keeps the
\* history legal, and disturbs no decision in hand.
LEMMA PersistKeeps ==
  ASSUME OrdersInv, NEW o \in Orders, NEW s \in Statuses, Persist(o, s),
         IF log[o] = <<>> THEN s = "PENDING" ELSE CanTransition(Status(o), s)
  PROVE  /\ HistoryIsLegal'
         /\ \A a \in Staff : hand[a] # Nothing =>
              LET d == hand[a] IN
              /\ d.version + 1 \in 1..Len(log'[d.of])
              /\ CanTransition(log'[d.of][d.version + 1], d.status)
  <1> USE DEF OrdersInv
  <1>1. HistoryIsLegal'
    <2> SUFFICES ASSUME NEW p \in Orders, NEW n \in 1..Len(log'[p])
                 PROVE  IF n = 1 THEN log'[p][n] = "PENDING"
                                 ELSE CanTransition(log'[p][n - 1], log'[p][n])
        BY DEF HistoryIsLegal
    <2>1. CASE p # o
          BY <2>1, PersistLog DEF HistoryIsLegal
    <2>2. CASE p = o /\ n \in 1..Len(log[o])
      <3>1. n # 1 => n - 1 \in 1..Len(log[o])
            BY <2>2, PersistLog
      <3> QED
          BY <2>2, <3>1, PersistLog DEF HistoryIsLegal
    <2>3. CASE p = o /\ n = Len(log[o]) + 1
      <3>1. log[o] \in Seq(Statuses) /\ (log[o] = <<>> <=> Len(log[o]) = 0)
            BY DEF OrdersTypeOK
      <3>2. CASE n = 1
            BY <2>3, <3>1, <3>2, PersistLog
      <3>3. CASE n # 1
        <4>1. n - 1 = Len(log[o]) /\ n - 1 \in 1..Len(log[o]) /\ log[o] # <<>>
              BY <2>3, <3>1, <3>3, PersistLog
        <4> QED
            BY <2>3, <4>1, PersistLog DEF Status
      <3> QED
          BY <3>2, <3>3
    <2> QED
        BY <2>1, <2>2, <2>3, PersistLog
  <1>2. ASSUME NEW a \in Staff, hand[a] # Nothing
        PROVE  /\ hand[a].version + 1 \in 1..Len(log'[hand[a].of])
               /\ CanTransition(log'[hand[a].of][hand[a].version + 1], hand[a].status)
    <2>1. hand[a] \in Decision
          BY <1>2 DEF OrdersTypeOK
    <2>2. hand[a].of \in Orders /\ hand[a].version \in Nat
          BY <2>1 DEF Decision
    <2>3. /\ hand[a].version + 1 \in 1..Len(log[hand[a].of])
          /\ CanTransition(log[hand[a].of][hand[a].version + 1], hand[a].status)
          BY <1>2 DEF HandsAreSound
    <2>4. CASE hand[a].of # o
          BY <2>2, <2>3, <2>4, PersistLog
    <2>5. CASE hand[a].of = o
          BY <2>2, <2>3, <2>5, PersistLog
    <2> QED
        BY <2>4, <2>5
  <1> QED
      BY <1>1, <1>2

\* A write that finds the version its request has read is a legal change at once of
\* the status the order has then.
LEMMA WriteIsLegal ==
  ASSUME OrdersInv, NEW a \in Staff, WriteStatus(a),
         Version(hand[a].of) = hand[a].version
  PROVE  LET d == hand[a] IN
         /\ d.of \in Orders /\ d.status \in Statuses /\ log[d.of] # <<>>
         /\ CanTransition(Status(d.of), d.status) /\ Persist(d.of, d.status)
  <1> DEFINE d == hand[a]
  <1>1. /\ d # Nothing /\ d \in Decision
        /\ d.of \in Orders /\ d.status \in Statuses /\ d.version \in Nat
        BY DEF WriteStatus, OrdersInv, OrdersTypeOK, Decision
  <1>2. Persist(d.of, d.status)
        BY DEF WriteStatus
  <1>3. /\ d.version + 1 \in 1..Len(log[d.of])
        /\ CanTransition(log[d.of][d.version + 1], d.status)
        BY <1>1 DEF OrdersInv, HandsAreSound
  <1>4. log[d.of] \in Seq(Statuses) /\ Len(log[d.of]) \in Nat
        BY <1>1 DEF OrdersInv, OrdersTypeOK
  <1>5. d.version + 1 = Len(log[d.of]) /\ log[d.of] # <<>>
        BY <1>1, <1>3, <1>4 DEF Version
  <1>6. CanTransition(Status(d.of), d.status)
        BY <1>3, <1>5 DEF Status
  <1> QED
      BY <1>1, <1>2, <1>5, <1>6

-----------------------------------------------------------------------------
LEMMA OrdersInitInv == OrdersInit => OrdersInv
  BY DEF OrdersInit, OrdersInv, OrdersTypeOK, HandsAreSound, HistoryIsLegal

\* The invariant is preserved by every operation.
LEMMA OrdersStep == OrdersInv /\ [OrdersNext]_orderVars => OrdersInv'
  <1> SUFFICES ASSUME OrdersInv, [OrdersNext]_orderVars
               PROVE  OrdersInv'
      OBVIOUS
  <1>1. ASSUME NEW o \in Orders, PlaceOrder(o)
        PROVE  OrdersInv'
    <2>1. "PENDING" \in Statuses /\ log[o] = <<>> /\ Persist(o, "PENDING") /\ hand' = hand
          BY <1>1 DEF PlaceOrder, Statuses
    <2>2. OrdersTypeOK'
          BY <2>1, PersistLog DEF OrdersInv, OrdersTypeOK
    <2> QED
        BY <2>1, <2>2, PersistKeeps DEF OrdersInv, HandsAreSound
  <1>2. ASSUME NEW a \in Staff, NEW o \in Orders, NEW s \in Statuses, Decide(a, o, s)
        PROVE  OrdersInv'
    <2> DEFINE d == [of |-> o, status |-> s, version |-> Version(o)]
    <2>1. /\ log[o] \in Seq(Statuses) /\ log[o] # <<>>
          /\ log' = log /\ outbox' = outbox
          /\ hand' = [hand EXCEPT ![a] = d]
          /\ CanTransition(Status(o), s)
          BY <1>2 DEF Decide, OrdersInv, OrdersTypeOK
    <2>2. Version(o) \in Nat /\ Version(o) + 1 = Len(log[o])
                             /\ Version(o) + 1 \in 1..Len(log[o])
          BY <2>1 DEF Version
    <2>3. d \in Decision
          BY <2>2 DEF Decision
    <2>4. OrdersTypeOK'
          BY <2>1, <2>3 DEF OrdersInv, OrdersTypeOK
    <2>5. HandsAreSound'
      <3> SUFFICES ASSUME NEW b \in Staff, hand'[b] # Nothing
                   PROVE  /\ hand'[b].version + 1 \in 1..Len(log[hand'[b].of])
                          /\ CanTransition(log[hand'[b].of][hand'[b].version + 1],
                                           hand'[b].status)
          BY <2>1 DEF HandsAreSound
      <3>1. CASE b = a
        <4>1. hand'[b] = d
              BY <2>1, <3>1 DEF OrdersInv, OrdersTypeOK
        <4> QED
            BY <2>1, <2>2, <4>1 DEF Status
      <3>2. CASE b # a
            BY <2>1, <3>2 DEF OrdersInv, OrdersTypeOK, HandsAreSound
      <3> QED
          BY <3>1, <3>2
    <2>6. HistoryIsLegal'
          BY <2>1 DEF OrdersInv, HistoryIsLegal
    <2> QED
        BY <2>4, <2>5, <2>6 DEF OrdersInv
  <1>3. ASSUME NEW a \in Staff, WriteStatus(a)
        PROVE  OrdersInv'
    <2> DEFINE d == hand[a]
    <2>1. /\ d # Nothing /\ d \in Decision
          /\ d.of \in Orders /\ d.status \in Statuses /\ d.version \in Nat
          /\ hand' = [hand EXCEPT ![a] = Nothing]
          BY <1>3 DEF WriteStatus, OrdersInv, OrdersTypeOK, Decision
    <2>2. \A b \in Staff : hand'[b] # Nothing => hand'[b] = hand[b]
          BY <2>1 DEF OrdersInv, OrdersTypeOK
    <2>3. hand' \in [Staff -> Decision \cup {Nothing}]
          BY <2>1 DEF OrdersInv, OrdersTypeOK
    <2>4. CASE Version(d.of) = d.version
      <3>1. /\ Persist(d.of, d.status) /\ log[d.of] # <<>>
            /\ CanTransition(Status(d.of), d.status)
            BY <1>3, <2>4, WriteIsLegal
      <3>2. OrdersTypeOK'
            BY <2>1, <2>3, <3>1, PersistLog DEF OrdersInv, OrdersTypeOK
      <3>3. /\ HistoryIsLegal'
            /\ \A b \in Staff : hand[b] # Nothing =>
                 /\ hand[b].version + 1 \in 1..Len(log'[hand[b].of])
                 /\ CanTransition(log'[hand[b].of][hand[b].version + 1], hand[b].status)
            BY <2>1, <3>1, PersistKeeps
      <3>4. HandsAreSound'
            BY <2>2, <3>3 DEF HandsAreSound
      <3> QED
          BY <3>2, <3>3, <3>4 DEF OrdersInv
    <2>5. CASE Version(d.of) # d.version
      <3>1. log' = log /\ outbox' = outbox
            BY <1>3, <2>5 DEF WriteStatus
      <3>2. OrdersTypeOK' /\ HistoryIsLegal'
            BY <2>3, <3>1 DEF OrdersInv, OrdersTypeOK, HistoryIsLegal
      <3>3. HandsAreSound'
            BY <2>2, <3>1 DEF OrdersInv, HandsAreSound
      <3> QED
          BY <3>2, <3>3 DEF OrdersInv
    <2> QED
        BY <2>4, <2>5
  <1>4. CASE UNCHANGED orderVars
        BY <1>4 DEF orderVars, OrdersInv, OrdersTypeOK, HandsAreSound, HistoryIsLegal
  <1> QED
      BY <1>1, <1>2, <1>3, <1>4 DEF OrdersNext

LEMMA OrdersInvariant == OrdersSpec => []OrdersInv
  BY OrdersInitInv, OrdersStep, PTL DEF OrdersSpec

-----------------------------------------------------------------------------
\* Orders, decisions in hand and committed events are what their types say,
\* whatever PrismaOrdersRepository and concurrent requests do.
THEOREM OrdersTypes == OrdersSpec => []OrdersTypeOK
  <1>1. OrdersInv => OrdersTypeOK
        BY DEF OrdersInv
  <1> QED
      BY <1>1, OrdersInvariant, PTL

\* However many requests read one order and write it later, its statuses are always a
\* path of the lifecycle from PENDING (updateStatusWithEvents, where id and version).
THEOREM OrdersHistoryIsLegal == OrdersSpec => []HistoryIsLegal
  <1>1. OrdersInv => HistoryIsLegal
        BY DEF OrdersInv
  <1> QED
      BY <1>1, OrdersInvariant, PTL

\* What the orders and their events do when a request is one step: OrderHistory's
\* write side, without its bound on versions.
ChangeAtOnce ==
  \E o \in Orders :
    \/ log[o] = <<>> /\ Persist(o, "PENDING")
    \/ \E s \in Statuses : log[o] # <<>> /\ CanTransition(Status(o), s) /\ Persist(o, s)

\* Requests that read an order, decide, and write later, are each as good as one step:
\* they change an order at once, or nothing (updateStatusWithEvents).
THEOREM ChangesAreAtomic == OrdersSpec => [][ChangeAtOnce]_<<log, outbox>>
  <1>1. OrdersInv /\ [OrdersNext]_orderVars => [ChangeAtOnce]_<<log, outbox>>
    <2> SUFFICES ASSUME OrdersInv, [OrdersNext]_orderVars
                 PROVE  ChangeAtOnce \/ UNCHANGED <<log, outbox>>
        OBVIOUS
    <2>1. ASSUME NEW o \in Orders, PlaceOrder(o)
          PROVE  ChangeAtOnce
          BY <2>1 DEF PlaceOrder, ChangeAtOnce
    <2>2. ASSUME NEW a \in Staff, NEW o \in Orders, NEW s \in Statuses, Decide(a, o, s)
          PROVE  UNCHANGED <<log, outbox>>
          BY <2>2 DEF Decide
    <2>3. ASSUME NEW a \in Staff, WriteStatus(a)
          PROVE  ChangeAtOnce \/ UNCHANGED <<log, outbox>>
          BY <2>3, WriteIsLegal DEF WriteStatus, ChangeAtOnce
    <2> QED
        BY <2>1, <2>2, <2>3 DEF OrdersNext, orderVars
  <1> QED
      BY <1>1, OrdersInvariant, PTL DEF OrdersSpec

-----------------------------------------------------------------------------
(* The projection.                                                           *)

\* What a delivery or a rebuild writes is a status that its order has had, at the
\* version it carries.
Truthful(t) ==
  /\ t.version + 1 \in 1..Len(log[t.of])
  /\ t.value = log[t.of][t.version + 1]

HistoryTypes ==
  /\ log \in [Orders -> Seq(Statuses)] /\ outbox \subseteq Event
  /\ hand \in [Staff -> Decision \cup {Nothing}]
  /\ row \in [Orders -> Row \cup {Nothing}]
  /\ due \subseteq Task
  /\ pc \in [Workers -> PcStates]
  /\ task \in [Workers -> Task \cup {Nothing}]
  /\ crew \in Crews

TasksAreTrue ==
  /\ \A t \in due : Truthful(t)
  /\ \A w \in Workers : pc[w] # "idle" => task[w] # Nothing
  /\ \A w \in Workers : task[w] # Nothing => Truthful(task[w])

RowsAreTrue ==
  \A o \in Orders : row[o] # Nothing =>
    /\ row[o].version + 1 \in 1..Len(log[o])
    /\ row[o].value = log[o][row[o].version + 1]

HistoryInv == HistoryTypes /\ TasksAreTrue /\ RowsAreTrue

-----------------------------------------------------------------------------
LEMMA HistoryInitInv == OrdersInit /\ HistoryInit => HistoryInv
  BY DEF OrdersInit, HistoryInit, HistoryInv, HistoryTypes, TasksAreTrue, RowsAreTrue,
         PcStates

\* A new status makes its own deliveries true, and no older one false.
LEMMA PersistKeepsTasksTrue ==
  ASSUME HistoryInv, NEW o \in Orders, NEW s \in Statuses, Persist(o, s),
         hand' \in [Staff -> Decision \cup {Nothing}],
         due' = due \cup Deliveries(outbox' \ outbox),
         UNCHANGED <<row, pc, task, crew>>
  PROVE  HistoryInv' /\ OrderReadModel!Commit(o)
  <1>1. OrdersTypeOK
        BY DEF HistoryInv, HistoryTypes, OrdersTypeOK
  <1>2. \A t \in Task : Truthful(t) => Truthful(t)'
    <2> SUFFICES ASSUME NEW t \in Task, Truthful(t)
                 PROVE  Truthful(t)'
        OBVIOUS
    <2>1. t.of \in Orders /\ t.version \in Nat
          BY DEF Task
    <2>2. CASE t.of = o
          BY <1>1, <2>1, <2>2, PersistLog DEF Truthful
    <2>3. CASE t.of # o
          BY <1>1, <2>1, <2>3, PersistLog DEF Truthful
    <2> QED
        BY <2>2, <2>3
  <1>3. \A t \in Deliveries(outbox' \ outbox) : t \in Task /\ Truthful(t)'
    <2> SUFFICES ASSUME NEW t \in Deliveries(outbox' \ outbox)
                 PROVE  t \in Task /\ Truthful(t)'
        OBVIOUS
    <2>1. PICK e \in outbox' \ outbox : \E h \in HandlersOf(e.name) :
            t = [handler |-> h, of |-> e.of, value |-> e.status, version |-> e.version]
          BY DEF Deliveries
    <2>2. e \in EventsOf(o, s, Len(log[o]))
          BY <2>1 DEF Persist
    <2>3. e.of = o /\ e.status = s /\ e.version = Len(log[o])
          BY <2>2 DEF EventsOf
    <2>4. HandlersOf(e.name) \subseteq Subscribed
          BY DEF HandlersOf, Subscribed
    <2> QED
        BY <1>1, <2>1, <2>3, <2>4, PersistLog DEF Task, Truthful
  <1>4. TasksAreTrue'
    <2>1. \A t \in due' : Truthful(t)'
          BY <1>2, <1>3 DEF HistoryInv, HistoryTypes, TasksAreTrue
    <2>2. \A w \in Workers : task[w] # Nothing => task[w] \in Task
          BY DEF HistoryInv, HistoryTypes
    <2> QED
        BY <1>2, <2>1, <2>2 DEF HistoryInv, TasksAreTrue
  <1>5. RowsAreTrue'
    <2> SUFFICES ASSUME NEW p \in Orders, row[p] # Nothing
                 PROVE  /\ row[p].version + 1 \in 1..Len(log'[p])
                        /\ row[p].value = log'[p][row[p].version + 1]
        BY DEF RowsAreTrue
    <2>1. /\ row[p].version \in Nat
          /\ row[p].version + 1 \in 1..Len(log[p])
          /\ row[p].value = log[p][row[p].version + 1]
          BY DEF HistoryInv, HistoryTypes, RowsAreTrue, Row
    <2>2. CASE p = o
          BY <1>1, <2>1, <2>2, PersistLog
    <2>3. CASE p # o
          BY <1>1, <2>1, <2>3, PersistLog
    <2> QED
        BY <2>2, <2>3
  <1>6. HistoryTypes'
        BY <1>1, <1>3, PersistLog DEF HistoryInv, HistoryTypes
  <1>7. OrderReadModel!Commit(o)
        BY DEF OrderReadModel!Commit, Persist
  <1> QED
      BY <1>4, <1>5, <1>6, <1>7 DEF HistoryInv

LEMMA CommitKeeps ==
  ASSUME HistoryInv, NEW o \in Orders, WriteSide(o), crew' = crew
  PROVE  HistoryInv' /\ OrderReadModel!Commit(o)
  <1>1. PICK s \in Statuses : Persist(o, s)
        BY DEF WriteSide, PlaceOrder, ChangeOrder, Statuses
  <1>2. /\ hand' = hand /\ due' = due \cup Deliveries(outbox' \ outbox)
        /\ UNCHANGED <<row, pc, task>>
        BY DEF WriteSide, PlaceOrder, ChangeOrder
  <1>3. hand' \in [Staff -> Decision \cup {Nothing}]
        BY <1>2 DEF HistoryInv, HistoryTypes
  <1> QED
      BY <1>1, <1>2, <1>3, PersistKeepsTasksTrue

\* A worker that writes the row moves it to a later version.
LEMMA WriteShows ==
  ASSUME HistoryInv, NEW w \in Workers, pc[w] # "idle",
         row[task[w].of] = Nothing \/ row[task[w].of].version < task[w].version,
         WriteRow(w), UNCHANGED log
  PROVE  /\ row' \in [Orders -> Row \cup {Nothing}]
         /\ RowsAreTrue'
         /\ \E o \in Orders : OrderReadModel!Show(o)
  <1> DEFINE t == task[w]
             o == t.of
  <1>1. /\ t \in Task /\ Truthful(t)
        /\ o \in Orders /\ t.version \in Nat /\ t.value \in Statuses
        BY DEF HistoryInv, HistoryTypes, TasksAreTrue, Task
  <1>2. row' = [row EXCEPT ![o] = [value |-> t.value, version |-> t.version]]
        BY DEF WriteRow
  <1>3. row' \in [Orders -> Row \cup {Nothing}]
        BY <1>1, <1>2 DEF HistoryInv, HistoryTypes, Row
  <1>4. RowsAreTrue'
    <2> SUFFICES ASSUME NEW p \in Orders, row'[p] # Nothing
                 PROVE  /\ row'[p].version + 1 \in 1..Len(log[p])
                        /\ row'[p].value = log[p][row'[p].version + 1]
        BY DEF RowsAreTrue
    <2>1. CASE p = o
      <3>1. row'[p] = [value |-> t.value, version |-> t.version]
            BY <1>1, <1>2, <2>1 DEF HistoryInv, HistoryTypes
      <3> QED
          BY <1>1, <2>1, <3>1 DEF Truthful
    <2>2. CASE p # o
          BY <1>1, <1>2, <2>2 DEF HistoryInv, HistoryTypes, RowsAreTrue
    <2> QED
        BY <2>1, <2>2
  <1>5. OrderReadModel!Show(o)
    <2> DEFINE n == t.version + 1
    <2>1. n \in 1..Len(log[o]) /\ log[o][n] = t.value /\ n - 1 = t.version
          BY <1>1 DEF Truthful
    <2>2. OrderReadModel!RowAt(o, n) = [value |-> t.value, version |-> t.version]
          BY <2>1 DEF OrderReadModel!RowAt
    <2>3. Len(log[o]) \in Nat
          BY <1>1 DEF HistoryInv, HistoryTypes
    <2>4. row[o] # Nothing => row[o].version \in Nat
          BY <1>1 DEF HistoryInv, HistoryTypes, Row
    <2>5. n \in OrderReadModel!ShownVersion(o) + 2..Len(log[o])
          BY <1>1, <2>1, <2>3, <2>4 DEF OrderReadModel!ShownVersion
    <2> QED
        BY <1>2, <2>2, <2>5 DEF OrderReadModel!Show
  <1> QED
      BY <1>1, <1>3, <1>4, <1>5

-----------------------------------------------------------------------------
\* Taking a task, writing the row, or neither: what a worker does to its task and
\* its row, with everything else the invariant speaks about as it was.
Takes(w) ==
  /\ \E t \in Task : Truthful(t) /\ task' = [task EXCEPT ![w] = t]
  /\ pc' \in [Workers -> PcStates] /\ \A v \in Workers \ {w} : pc'[v] = pc[v]
  /\ UNCHANGED <<row, due>>

Writes(w) ==
  /\ pc[w] # "idle"
  /\ row[task[w].of] = Nothing \/ row[task[w].of].version < task[w].version
  /\ WriteRow(w)
  /\ \E c \in PcStates : pc' = [pc EXCEPT ![w] = c]

Moves(w) ==
  /\ pc[w] # "idle"
  /\ \E c \in PcStates : pc' = [pc EXCEPT ![w] = c]
  /\ UNCHANGED <<row, due, task>>

Ends(w) ==
  /\ pc' = [pc EXCEPT ![w] = "idle"]
  /\ task' = [task EXCEPT ![w] = Nothing]
  /\ due' \subseteq due /\ UNCHANGED row

\* Every statement of a worker is one of the four.
LEMMA WorkerCases ==
  ASSUME HistoryInv, NEW w \in Workers, WorkerStep(w) \/ Interrupt(w)
  PROVE  UNCHANGED orderVars /\ (Writes(w) \/ Moves(w) \/ Ends(w))
  <1> USE DEF Step, SameRows, PcStates, AfterRow
  <1>1. CASE UpdateRow(w)
        BY <1>1 DEF UpdateRow, Older, Writes, Moves
  <1>2. CASE CreateRow(w)
        BY <1>2 DEF CreateRow, Writes, Moves
  <1>3. CASE RetryRow(w)
        BY <1>3 DEF RetryRow, Older, Writes, Moves
  <1>4. CASE CheckRow(w)
        BY <1>4 DEF CheckRow, Moves
  <1>5. CASE PatchRow(w)
        BY <1>5 DEF PatchRow, Older, Writes, Moves
  <1>6. CASE RowExists(w)
        BY <1>6 DEF RowExists, Moves, Ends
  <1>7. CASE StoreDashboard(w)
        BY <1>7 DEF StoreDashboard, Moves
  <1>8. ASSUME NEW c \in Counters, Query(w, c)
        PROVE  UNCHANGED orderVars /\ Moves(w)
        BY <1>8 DEF Query, Moves
  <1>9. CASE Notify(w)
        BY <1>9 DEF Notify, Moves
  <1>10. CASE Finish(w)
        BY <1>10 DEF Finish, Ends
  <1>11. CASE Interrupt(w)
        BY <1>11 DEF Interrupt, Ends
  <1> QED
      BY <1>1, <1>2, <1>3, <1>4, <1>5, <1>6, <1>7, <1>8, <1>9, <1>10, <1>11 DEF WorkerStep

\* A delivery that is due, and what a rebuild has read, are true.
LEMMA TakeCases ==
  ASSUME HistoryInv, NEW w \in Workers,
         (\E d \in due : Take(w, d)) \/ (\E o \in Orders : Rebuild(w, o))
  PROVE  UNCHANGED orderVars /\ Takes(w)
  <1>1. ASSUME NEW t \in Task, Truthful(t), NEW c \in PcStates, Begin(w, t, c)
        PROVE  UNCHANGED orderVars /\ Takes(w)
    <2>1. UNCHANGED <<orderVars, row, due>> /\ pc' = [pc EXCEPT ![w] = c]
          /\ task' = [task EXCEPT ![w] = t]
          BY <1>1 DEF Begin, Step
    <2> QED
        BY <1>1, <2>1 DEF Takes, HistoryInv, HistoryTypes
  <1>2. CASE \E d \in due : Take(w, d)
        BY <1>1, <1>2 DEF Take, PcStates, HistoryInv, HistoryTypes, TasksAreTrue
  <1>3. ASSUME NEW o \in Orders, Rebuild(w, o)
        PROVE  UNCHANGED orderVars /\ Takes(w)
    <2> DEFINE t == [handler |-> "rebuild", of |-> o, value |-> Status(o),
                     version |-> Version(o)]
    <2>1. log[o] \in Seq(Statuses) /\ log[o] # <<>>
          BY <1>3 DEF Rebuild, HistoryInv, HistoryTypes
    <2>2. /\ Version(o) \in Nat /\ Version(o) + 1 = Len(log[o])
          /\ Version(o) + 1 \in 1..Len(log[o]) /\ Status(o) \in Statuses
          BY <2>1 DEF Version, Status
    <2>3. t \in Task /\ Truthful(t)
          BY <2>2 DEF Task, Truthful, Status
    <2> QED
        BY <1>1, <1>3, <2>3 DEF Rebuild, PcStates
  <1> QED
      BY <1>2, <1>3

LEMMA WorkerKeeps ==
  ASSUME HistoryInv, NEW w \in Workers, UNCHANGED <<orderVars, crew>>,
         Takes(w) \/ Writes(w) \/ Moves(w) \/ Ends(w)
  PROVE  /\ HistoryInv'
         /\ UNCHANGED <<log, row>> \/ \E o \in Orders : OrderReadModel!Show(o)
  <1>1. log' = log /\ hand' = hand /\ outbox' = outbox /\ crew' = crew
        BY DEF orderVars
  <1>2. \A t : Truthful(t) => Truthful(t)'
        BY <1>1 DEF Truthful
  <1> USE HistoryAssumption DEF HistoryInv, HistoryTypes
  <1>3. CASE Takes(w)
    <2>1. HistoryTypes' /\ RowsAreTrue'
          BY <1>1, <1>3 DEF Takes, RowsAreTrue
    <2>2. TasksAreTrue'
          BY <1>2, <1>3 DEF Takes, TasksAreTrue
    <2> QED
        BY <1>1, <1>3, <2>1, <2>2 DEF Takes
  <1>4. CASE Writes(w)
    <2>1. /\ row' \in [Orders -> Row \cup {Nothing}] /\ RowsAreTrue'
          /\ \E o \in Orders : OrderReadModel!Show(o)
          BY <1>1, <1>4, WriteShows DEF Writes
    <2>2. due' = due /\ task' = task
          BY <1>4 DEF Writes, WriteRow
    <2>3. HistoryTypes'
          BY <1>1, <1>4, <2>1, <2>2 DEF Writes
    <2>4. TasksAreTrue'
          BY <1>2, <1>4, <2>2 DEF Writes, TasksAreTrue
    <2> QED
        BY <2>1, <2>3, <2>4
  <1>5. CASE Moves(w)
    <2>1. HistoryTypes' /\ RowsAreTrue'
          BY <1>1, <1>5 DEF Moves, RowsAreTrue
    <2>2. TasksAreTrue'
          BY <1>2, <1>5 DEF Moves, TasksAreTrue
    <2> QED
        BY <1>1, <1>5, <2>1, <2>2 DEF Moves
  <1>6. CASE Ends(w)
    <2>1. HistoryTypes' /\ RowsAreTrue'
          BY <1>1, <1>6 DEF Ends, RowsAreTrue, PcStates
    <2>2. TasksAreTrue'
          BY <1>2, <1>6 DEF Ends, TasksAreTrue
    <2> QED
        BY <1>1, <1>6, <2>1, <2>2 DEF Ends
  <1> QED
      BY <1>3, <1>4, <1>5, <1>6

-----------------------------------------------------------------------------
\* Every step keeps the invariant, and is a step of the read model or a stutter.
LEMMA HistoryStep ==
  HistoryInv /\ [HistoryNext]_<<historyAll, crew>>
    => HistoryInv' /\ [OrderReadModel!ReadModelNext]_<<log, row>>
  <1> SUFFICES ASSUME HistoryInv, [HistoryNext]_<<historyAll, crew>>
               PROVE  HistoryInv' /\ [OrderReadModel!ReadModelNext]_<<log, row>>
      OBVIOUS
  <1>1. crew.who \subseteq Workers
        BY HistoryAssumption DEF HistoryInv, HistoryTypes
  <1>2. crew' = crew
        BY DEF HistoryNext
  <1>3. ASSUME NEW o \in Orders, WriteSide(o)
        PROVE  HistoryInv' /\ [OrderReadModel!ReadModelNext]_<<log, row>>
        BY <1>2, <1>3, CommitKeeps DEF OrderReadModel!ReadModelNext
  <1>4. ASSUME NEW w \in crew.who, WorkerStep(w) \/ Interrupt(w)
        PROVE  HistoryInv' /\ [OrderReadModel!ReadModelNext]_<<log, row>>
        BY <1>1, <1>2, <1>4, WorkerCases, WorkerKeeps DEF OrderReadModel!ReadModelNext
  <1>5. ASSUME NEW w \in crew.who,
               (\E d \in due : Take(w, d)) \/ (\E o \in Orders : Rebuild(w, o))
        PROVE  HistoryInv' /\ [OrderReadModel!ReadModelNext]_<<log, row>>
        BY <1>1, <1>2, <1>5, TakeCases, WorkerKeeps DEF OrderReadModel!ReadModelNext
  <1>6. ASSUME UNCHANGED <<orderVars, row, due, pc, task>>
        PROVE  HistoryInv' /\ [OrderReadModel!ReadModelNext]_<<log, row>>
        BY <1>2, <1>6 DEF HistoryInv, HistoryTypes, TasksAreTrue, RowsAreTrue, Truthful, orderVars
  <1>7. CASE MarkAllAsRead \/ \E o \in Orders, s \in Statuses : MarkAsRead(o, s)
        BY <1>6, <1>7 DEF MarkAllAsRead, MarkAsRead
  <1>8. CASE UNCHANGED <<historyAll, crew>>
        BY <1>6, <1>8 DEF historyAll, historyVars
  <1> QED
      BY <1>3, <1>4, <1>5, <1>7, <1>8 DEF HistoryNext

\* Whatever handlers, redeliveries and rebuilds write, and in whichever order their
\* statements interleave, a row shows one committed status of its order with its
\* version and only moves to a later one (writeOrderHistoryProjection).
THEOREM HistoryRefinesReadModel == HistorySpec => HistoryImplementsReadModel
  <1>1. OrdersInit /\ HistoryInit => OrderReadModel!ReadModelInit
        BY DEF OrdersInit, HistoryInit, OrderReadModel!ReadModelInit
  <1> QED
      BY <1>1, HistoryInitInv, HistoryStep, PTL
      DEF HistorySpec, HistoryImplementsReadModel, OrderReadModel!ReadModelSpec

-----------------------------------------------------------------------------
(* Dashboard and notifications.                                              *)

Notices == [Orders -> [Statuses -> {"none", "unread", "read"}]]

SideTypes ==
  /\ tally \in [Workers -> [Counters -> 0..NotCounted]]
  /\ dashboard \in [Counters -> 0..NotCounted]
  /\ notice \in Notices
  /\ crashes \in Nat

ReadOnes(was, now) == \A o \in Orders, s \in Statuses : was[o][s] = "read" => now[o][s] = "read"

\* What refreshDashboard counts is at most the number of orders, and nothing at first.
LEMMA CountType ==
  ASSUME NEW c \in Counters
  PROVE  Count(c) \in 0..NotCounted /\ NotCounted \in Nat
  <1>1. ASSUME NEW S
        PROVE  RowsWith(S) \in 0..NotCounted /\ NotCounted \in Nat
    <2> DEFINE shown == {o \in Orders : row[o] # Nothing /\ row[o].value \in S}
    <2>1. Cardinality(shown) \in Nat /\ Cardinality(Orders) \in Nat
          /\ Cardinality(shown) <= Cardinality(Orders)
          BY HistoryAssumption, FS_Subset, FS_CardinalityType
    <2> HIDE DEF shown
    <2>2. Cardinality(shown) \in 0..NotCounted /\ NotCounted \in Nat
          BY <2>1 DEF NotCounted
    <2> QED
        BY <2>2 DEF RowsWith, shown
  <1> QED
      BY <1>1, HistoryAssumption DEF Count

LEMMA CountsNothing ==
  ASSUME NEW c \in Counters, \A o \in Orders : row[o] = Nothing
  PROVE  Count(c) = 0
  <1>1. ASSUME NEW S
        PROVE  RowsWith(S) = 0
    <2>1. {o \in Orders : row[o] # Nothing /\ row[o].value \in S} = {}
          OBVIOUS
    <2> QED
        BY <2>1, FS_EmptySet DEF RowsWith
  <1> QED
      BY <1>1, HistoryAssumption DEF Count

LEMMA CountFollowsRows ==
  ASSUME row' = row, NEW c
  PROVE  Count(c)' = Count(c)
  BY DEF Count, RowsWith

LEMMA SideInitTypes == HistoryInit => SideTypes
  <1>1. NotCounted \in Nat
        BY HistoryAssumption, FS_CardinalityType DEF NotCounted
  <1> QED
      BY <1>1 DEF HistoryInit, SideTypes, Notices, NoTally

\* The statements on the row, and the end of a task.
LEMMA RowsAside ==
  ASSUME NEW w, \/ UpdateRow(w) \/ CreateRow(w) \/ RetryRow(w) \/ CheckRow(w)
                \/ PatchRow(w) \/ RowExists(w) \/ Finish(w)
  PROVE  UNCHANGED <<tally, dashboard, notice, crashes>>
  <1> USE DEF Step, SameRows, WriteRow
  <1>1. CASE UpdateRow(w)
        BY <1>1 DEF UpdateRow
  <1>2. CASE CreateRow(w)
        BY <1>2 DEF CreateRow
  <1>3. CASE RetryRow(w)
        BY <1>3 DEF RetryRow
  <1>4. CASE CheckRow(w) \/ Finish(w)
        BY <1>4 DEF CheckRow, Finish
  <1>5. CASE PatchRow(w)
        BY <1>5 DEF PatchRow
  <1>6. CASE RowExists(w)
        BY <1>6 DEF RowExists
  <1> QED
      BY <1>1, <1>2, <1>3, <1>4, <1>5, <1>6

\* A notification is created, read, or left as it is.
LEMMA OneNotice ==
  ASSUME notice \in Notices, NEW o \in Orders, NEW s \in Statuses,
         NEW new \in {"none", "unread", "read"}, notice[o][s] = "read" => new = "read",
         notice' = [notice EXCEPT ![o][s] = new]
  PROVE  notice' \in Notices /\ ReadOnes(notice, notice')
  <1>1. notice[o] \in [Statuses -> {"none", "unread", "read"}]
        BY DEF Notices
  <1>2. [notice[o] EXCEPT ![s] = new] \in [Statuses -> {"none", "unread", "read"}]
        BY <1>1
  <1>3. notice' = [notice EXCEPT ![o] = [notice[o] EXCEPT ![s] = new]]
        BY DEF Notices
  <1>4. notice' \in Notices
        BY <1>2, <1>3 DEF Notices
  <1>5. ASSUME NEW p \in Orders, NEW t \in Statuses, notice[p][t] = "read"
        PROVE  notice'[p][t] = "read"
    <2>1. CASE p # o
          BY <1>3, <1>5, <2>1 DEF Notices
    <2>2. CASE p = o
      <3>1. notice'[o] = [notice[o] EXCEPT ![s] = new]
            BY <1>3 DEF Notices
      <3> QED
          BY <1>1, <1>5, <2>2, <3>1
    <2> QED
        BY <2>1, <2>2
  <1> QED
      BY <1>4, <1>5 DEF ReadOnes

LEMMA SideStep ==
  HistoryInv /\ SideTypes /\ [HistoryNext]_<<historyAll, crew>>
    => SideTypes' /\ ReadOnes(notice, notice')
  <1> SUFFICES ASSUME HistoryInv, SideTypes, [HistoryNext]_<<historyAll, crew>>
               PROVE  SideTypes' /\ ReadOnes(notice, notice')
      OBVIOUS
  <1>1. notice' = notice => ReadOnes(notice, notice')
        BY DEF ReadOnes
  <1>2. ASSUME UNCHANGED <<tally, dashboard, notice, crashes>>
        PROVE  SideTypes' /\ ReadOnes(notice, notice')
        BY <1>1, <1>2 DEF SideTypes
  <1>3. NotCounted \in Nat /\ NoTally \in [Counters -> 0..NotCounted]
        BY HistoryAssumption, FS_CardinalityType DEF NotCounted, NoTally
  <1>4. ASSUME NEW w \in crew.who, WorkerStep(w) \/ Interrupt(w)
        PROVE  SideTypes' /\ ReadOnes(notice, notice')
    <2>1. w \in Workers
          BY HistoryAssumption DEF HistoryInv, HistoryTypes
    <2>2. CASE \/ UpdateRow(w) \/ CreateRow(w) \/ RetryRow(w) \/ CheckRow(w)
               \/ PatchRow(w) \/ RowExists(w) \/ Finish(w)
          BY <1>2, <2>2, RowsAside
    <2>3. ASSUME NEW c \in Counters, Query(w, c)
          PROVE  SideTypes' /\ ReadOnes(notice, notice')
      <3>1. tally[w] \in [Counters -> 0..NotCounted]
            BY <2>1 DEF SideTypes
      <3>2. [tally[w] EXCEPT ![c] = Count(c)] \in [Counters -> 0..NotCounted]
            BY <3>1, CountType
      <3>3. tally' = [tally EXCEPT ![w] = [tally[w] EXCEPT ![c] = Count(c)]]
            BY <2>3 DEF Query, SideTypes
      <3>4. tally' \in [Workers -> [Counters -> 0..NotCounted]]
            BY <3>2, <3>3 DEF SideTypes
      <3> QED
          BY <1>1, <2>3, <3>4 DEF Query, Step, SideTypes
    <2>4. CASE StoreDashboard(w)
          BY <1>1, <1>3, <2>1, <2>4 DEF StoreDashboard, Step, SideTypes
    <2>5. CASE Notify(w)
      <3>1. pc[w] # "idle" /\ task[w] \in Task
            BY <2>1, <2>5 DEF Notify, Step, HistoryInv, HistoryTypes, TasksAreTrue
      <3>2. task[w].of \in Orders /\ task[w].value \in Statuses
            BY <3>1 DEF Task
      <3> DEFINE old == notice[task[w].of][task[w].value]
      <3>3. old \in {"none", "unread", "read"}
            BY <3>2 DEF SideTypes, Notices
      <3>4. notice' = [notice EXCEPT ![task[w].of][task[w].value] =
                         IF old = "none" THEN "unread" ELSE old]
            BY <2>5 DEF Notify
      <3>5. notice' \in Notices /\ ReadOnes(notice, notice')
            BY <3>2, <3>3, <3>4, OneNotice DEF SideTypes
      <3> QED
          BY <2>5, <3>5 DEF Notify, Step, SideTypes
    <2>6. CASE Interrupt(w)
      <3>1. /\ tally' = [tally EXCEPT ![w] = NoTally] /\ crashes' = crashes + 1
            /\ UNCHANGED <<dashboard, notice>>
            BY <2>6 DEF Interrupt
      <3>2. tally' \in [Workers -> [Counters -> 0..NotCounted]]
            BY <1>3, <3>1 DEF SideTypes
      <3>3. crashes' \in Nat
            BY <3>1 DEF SideTypes
      <3> QED
          BY <1>1, <3>1, <3>2, <3>3 DEF SideTypes
    <2> QED
        BY <1>4, <2>2, <2>3, <2>4, <2>5, <2>6 DEF WorkerStep
  <1>5. ASSUME NEW o \in Orders, NEW s \in Statuses, MarkAsRead(o, s)
        PROVE  SideTypes' /\ ReadOnes(notice, notice')
    <2>1. notice' = [notice EXCEPT ![o][s] = "read"]
          BY <1>5 DEF MarkAsRead
    <2>2. notice' \in Notices /\ ReadOnes(notice, notice')
          BY <2>1, OneNotice DEF SideTypes
    <2> QED
        BY <1>5, <2>2 DEF MarkAsRead, SideTypes
  <1>6. CASE MarkAllAsRead
    <2>1. notice' = [o \in Orders |-> [s \in Statuses |->
                       IF notice[o][s] = "unread" THEN "read" ELSE notice[o][s]]]
          BY <1>6 DEF MarkAllAsRead
    <2>2. \A o \in Orders, s \in Statuses : notice[o][s] \in {"none", "unread", "read"}
          BY DEF SideTypes, Notices
    <2>3. notice' \in Notices
          BY <2>1, <2>2 DEF Notices
    <2>4. ReadOnes(notice, notice')
          BY <2>1 DEF ReadOnes
    <2> QED
        BY <1>6, <2>3, <2>4 DEF MarkAllAsRead, SideTypes
  <1>7. CASE \E o \in Orders : WriteSide(o)
        BY <1>2, <1>7 DEF WriteSide
  <1>8. ASSUME NEW w, (\E d \in due : Take(w, d)) \/ (\E o \in Orders : Rebuild(w, o))
        PROVE  SideTypes' /\ ReadOnes(notice, notice')
        BY <1>2, <1>8 DEF Take, Rebuild, Begin, Step
  <1>9. CASE UNCHANGED <<historyAll, crew>>
        BY <1>2, <1>9 DEF historyAll, historyVars
  <1> QED
      BY <1>4, <1>5, <1>6, <1>7, <1>8, <1>9 DEF HistoryNext

\* Rows, deliveries, workers, dashboard and notifications keep their types.
THEOREM HistoryTypesHold == HistorySpec => []HistoryTypeOK
  <1>1. HistoryInv /\ SideTypes => HistoryTypeOK
        BY DEF HistoryInv, HistoryTypes, SideTypes, Notices, HistoryTypeOK
  <1> QED
      BY <1>1, HistoryInitInv, HistoryStep, SideInitTypes, SideStep, PTL DEF HistorySpec

\* An order-status notification that the customer has read is not made unread by its
\* event when that comes again (NotificationsService.create, an upsert by key).
THEOREM ReadNotificationsStayRead == HistorySpec => ReadStaysRead
  <1>1. ASSUME ReadOnes(notice, notice')
        PROVE  \A o \in Orders, s \in Statuses : notice[o][s] = "read" => notice'[o][s] = "read"
        BY <1>1 DEF ReadOnes
  <1>2. HistoryInv /\ SideTypes /\ [HistoryNext]_<<historyAll, crew>>
          => [\A o \in Orders, s \in Statuses :
                notice[o][s] = "read" => notice'[o][s] = "read"]_historyAll
        BY <1>1, SideStep
  <1> QED
      BY <1>2, HistoryInitInv, HistoryStep, SideInitTypes, SideStep, PTL
      DEF HistorySpec, ReadStaysRead

-----------------------------------------------------------------------------
(* A relay alone.                                                            *)

Projecting == {"projectPlaced", "projectStatus"}

\* The task of a worker is due until it is finished, and a result of its dashboard
\* queries is what the query would still return.
Counting(w) ==
  /\ pc[w] # "idle" => task[w] \in due
  /\ pc[w] \in {"update", "create", "retry", "check", "patch", "exists", "count"}
       => task[w].handler \in Projecting
  /\ pc[w] = "upsert" => task[w].handler \notin Projecting
  /\ \A c \in Counters : tally[w][c] # NotCounted => pc[w] = "count" /\ tally[w][c] = Count(c)

Finishing(w, d) == pc[w] = "done" /\ task[w] = d

\* A dashboard behind the rows has a projection to come that will refresh it.
RefreshIsDue ==
  (\E c \in Counters : dashboard[c] # Count(c))
    => \E d \in due : d.handler \in Projecting /\ \A w \in crew.who : ~Finishing(w, d)

DashboardInv == LoneRelay => RefreshIsDue /\ \A w \in crew.who : Counting(w)

LEMMA DashboardInitInv == OrdersInit /\ HistoryInit => DashboardInv
  <1> SUFFICES ASSUME HistoryInit
               PROVE  RefreshIsDue /\ \A w \in crew.who : Counting(w)
      BY DEF DashboardInv
  <1>1. \A c \in Counters : Count(c) = 0 /\ dashboard[c] = 0
        BY CountsNothing DEF HistoryInit
  <1>2. crew.who \subseteq Workers
        BY HistoryAssumption DEF HistoryInit
  <1> QED
      BY <1>1, <1>2 DEF HistoryInit, RefreshIsDue, Counting, NoTally

\* The refresh stays due as long as no worker finishes it.
LEMMA RefreshStaysDue ==
  ASSUME RefreshIsDue, UNCHANGED <<row, dashboard, crew>>,
         \A d \in due : \/ d.handler \notin Projecting
                        \/ \E w \in crew.who : Finishing(w, d)
                        \/ d \in due' /\ \A w \in crew.who : ~Finishing(w, d)'
  PROVE  RefreshIsDue'
  <1>1. \A c \in Counters : (dashboard[c] # Count(c))' <=> dashboard[c] # Count(c)
        BY CountFollowsRows
  <1> QED
      BY <1>1 DEF RefreshIsDue

\* What the statements of a relay on the row of its task do.
LEMMA RelayOnRow ==
  ASSUME HistoryInv, NEW r \in Relays,
         \/ UpdateRow(r) \/ CreateRow(r) \/ RetryRow(r) \/ CheckRow(r)
         \/ PatchRow(r) \/ RowExists(r)
  PROVE  /\ pc[r] \in {"update", "create", "retry", "check", "patch", "exists"}
         /\ UNCHANGED <<due, tally, dashboard>>
         /\ \/ pc'[r] = "count" /\ task' = task
            \/ /\ pc'[r] \in {"create", "retry", "check", "exists"}
               /\ UNCHANGED <<row, task>>
            \/ pc'[r] = "idle" /\ row' = row
  <1>1. AfterRow(r) = "count"
        BY HistoryAssumption DEF AfterRow
  <1>2. \A from, to : Step(r, from, to) => pc[r] = from /\ pc'[r] = to
        BY DEF Step, HistoryInv, HistoryTypes, Workers
  <1> USE DEF SameRows, WriteRow
  <1>3. CASE UpdateRow(r)
        BY <1>1, <1>2, <1>3 DEF UpdateRow
  <1>4. CASE CreateRow(r)
        BY <1>1, <1>2, <1>4 DEF CreateRow
  <1>5. CASE RetryRow(r)
        BY <1>1, <1>2, <1>5 DEF RetryRow
  <1>6. CASE CheckRow(r)
        BY <1>1, <1>2, <1>6 DEF CheckRow
  <1>7. CASE PatchRow(r)
        BY <1>2, <1>7 DEF PatchRow
  <1>8. CASE RowExists(r)
        BY <1>2, <1>8 DEF RowExists
  <1> QED
      BY <1>3, <1>4, <1>5, <1>6, <1>7, <1>8

LEMMA RelayKeepsDashboard ==
  ASSUME HistoryInv, SideTypes, NEW r \in Relays, crew.who = {r}, crew' = crew,
         RefreshIsDue, Counting(r), WorkerStep(r) \/ Interrupt(r)
  PROVE  RefreshIsDue' /\ Counting(r)'
  <1>1. /\ r \in Workers /\ pc \in [Workers -> PcStates]
        /\ task \in [Workers -> Task \cup {Nothing}]
        /\ tally[r] \in [Counters -> 0..NotCounted]
        /\ tally \in [Workers -> [Counters -> 0..NotCounted]]
        BY DEF HistoryInv, HistoryTypes, SideTypes, Workers
  <1>2. CASE \/ UpdateRow(r) \/ CreateRow(r) \/ RetryRow(r) \/ CheckRow(r)
             \/ PatchRow(r) \/ RowExists(r)
    <2>1. /\ pc[r] \in {"update", "create", "retry", "check", "patch", "exists"}
          /\ UNCHANGED <<due, tally, dashboard>>
          /\ \/ pc'[r] = "count" /\ task' = task
             \/ pc'[r] \in {"create", "retry", "check", "exists"} /\ UNCHANGED <<row, task>>
             \/ pc'[r] = "idle" /\ row' = row
          BY <1>2, RelayOnRow
    <2>2. /\ task[r] \in due /\ task[r].handler \in Projecting
          /\ \A c \in Counters : tally[r][c] = NotCounted
          BY <2>1 DEF Counting
    <2>3. Counting(r)'
          BY <2>1, <2>2 DEF Counting
    <2>4. \A d : ~Finishing(r, d)'
          BY <2>1 DEF Finishing
    <2>5. CASE pc'[r] = "count"
      <3>1. PICK d \in due' : d.handler \in Projecting
            BY <2>1, <2>2
      <3>2. \A w \in crew'.who : ~Finishing(w, d)'
            BY <2>4
      <3> QED
          BY <2>3, <3>1, <3>2 DEF RefreshIsDue
    <2>6. CASE pc'[r] # "count"
      <3>1. row' = row
            BY <2>1, <2>6
      <3>2. \A d \in due : d \in due' /\ \A w \in crew.who : ~Finishing(w, d)'
            BY <2>1, <2>4
      <3> QED
          BY <2>1, <2>3, <3>1, <3>2, RefreshStaysDue
    <2> QED
        BY <2>3, <2>5, <2>6
  <1>3. ASSUME NEW k \in Counters, Query(r, k)
        PROVE  RefreshIsDue' /\ Counting(r)'
    <2>1. /\ pc[r] = "count" /\ pc'[r] = "count"
          /\ tally' = [tally EXCEPT ![r] = [tally[r] EXCEPT ![k] = Count(k)]]
          /\ UNCHANGED <<row, due, task, dashboard>>
          BY <1>1, <1>3 DEF Query, Step
    <2>2. tally'[r] = [tally[r] EXCEPT ![k] = Count(k)]
          BY <1>1, <2>1
    <2>3. \A c \in Counters : tally'[r][c] # NotCounted => tally'[r][c] = Count(c)
          BY <1>1, <2>2 DEF Counting
    <2>4. \A c \in Counters : Count(c)' = Count(c)
          BY <2>1, CountFollowsRows
    <2>5. Counting(r)'
          BY <2>1, <2>3, <2>4 DEF Counting
    <2>6. \A d : ~Finishing(r, d)'
          BY <2>1 DEF Finishing
    <2> QED
        BY <2>1, <2>5, <2>6, RefreshStaysDue
  <1>4. CASE StoreDashboard(r)
    <2>1. /\ pc[r] = "count" /\ pc'[r] = "done"
          /\ dashboard' = tally[r] /\ tally'[r] = NoTally
          /\ \A c \in Counters : tally[r][c] # NotCounted
          /\ UNCHANGED <<row, due, task>>
          BY <1>1, <1>4 DEF StoreDashboard, Step
    <2>2. \A c \in Counters : dashboard'[c] = Count(c)'
          BY <2>1, CountFollowsRows DEF Counting
    <2>3. Counting(r)'
          BY <2>1 DEF Counting, NoTally
    <2> QED
        BY <2>2, <2>3 DEF RefreshIsDue
  <1>5. CASE Notify(r)
    <2>1. /\ pc[r] = "upsert" /\ pc'[r] = "done"
          /\ UNCHANGED <<row, due, task, tally, dashboard>>
          BY <1>1, <1>5 DEF Notify, Step
    <2>2. task[r] \in due /\ task[r].handler \notin Projecting
          /\ \A c \in Counters : tally[r][c] = NotCounted
          BY <2>1 DEF Counting
    <2>3. Counting(r)'
          BY <2>1, <2>2 DEF Counting
    <2>4. \A d \in due : d.handler \in Projecting => ~Finishing(r, d)'
          BY <2>1, <2>2 DEF Finishing
    <2> QED
        BY <2>1, <2>3, <2>4, RefreshStaysDue
  <1>6. CASE Finish(r)
    <2>1. /\ pc[r] = "done" /\ pc'[r] = "idle" /\ due' = due \ {task[r]}
          /\ UNCHANGED <<row, tally, dashboard>>
          BY <1>1, <1>6 DEF Finish, Step
    <2>2. Counting(r)'
          BY <2>1 DEF Counting
    <2>3. \A d \in due : Finishing(r, d) \/ (d \in due' /\ ~Finishing(r, d)')
          BY <2>1 DEF Finishing
    <2> QED
        BY <2>1, <2>2, <2>3, RefreshStaysDue
  <1>7. CASE Interrupt(r)
    <2>1. /\ pc'[r] = "idle" /\ tally'[r] = NoTally
          /\ UNCHANGED <<row, due, dashboard>>
          BY <1>1, <1>7 DEF Interrupt
    <2>2. Counting(r)'
          BY <2>1 DEF Counting, NoTally
    <2>3. \A d : ~Finishing(r, d)'
          BY <2>1 DEF Finishing
    <2> QED
        BY <2>1, <2>2, <2>3, RefreshStaysDue
  <1> QED
      BY <1>2, <1>3, <1>4, <1>5, <1>6, <1>7 DEF WorkerStep

\* A crew of one relay.
LEMMA TheRelay ==
  ASSUME HistoryInv, LoneRelay
  PROVE  \E r \in Relays : crew.who = {r}
  <1>1. IsFiniteSet(crew.who)
        BY HistoryAssumption DEF HistoryInv, HistoryTypes
  <1> QED
      BY <1>1, FS_Singleton DEF LoneRelay

LEMMA DashboardStep ==
  HistoryInv /\ SideTypes /\ DashboardInv /\ [HistoryNext]_<<historyAll, crew>> => DashboardInv'
  <1> SUFFICES ASSUME HistoryInv, SideTypes, DashboardInv, LoneRelay,
                      [HistoryNext]_<<historyAll, crew>>
               PROVE  RefreshIsDue' /\ \A w \in crew.who : Counting(w)'
    <2>1. HistoryInv /\ [HistoryNext]_<<historyAll, crew>> => crew' = crew
          BY DEF HistoryNext
    <2> QED
        BY <2>1 DEF DashboardInv, LoneRelay
  <1>1. PICK r \in Relays : crew.who = {r}
        BY TheRelay
  <1>2. crew' = crew /\ RefreshIsDue /\ Counting(r) /\ r \in Workers
        BY <1>1 DEF DashboardInv, HistoryNext, Workers
  <1>3. CASE WorkerStep(r) \/ Interrupt(r)
        BY <1>1, <1>2, <1>3, RelayKeepsDashboard
  <1>4. ASSUME NEW d \in due, Take(r, d)
        PROVE  RefreshIsDue' /\ Counting(r)'
    <2>1. /\ pc[r] = "idle" /\ task'[r] = d
          /\ UNCHANGED <<row, due, tally, dashboard>>
          /\ \/ d.handler \in Projecting /\ pc'[r] \in {"update", "patch"}
             \/ d.handler \notin Projecting /\ pc'[r] = "upsert"
          BY <1>2, <1>4 DEF Take, Begin, Step, HistoryInv, HistoryTypes, Projecting
    <2>2. \A c \in Counters : tally'[r][c] = NotCounted
          BY <1>2, <2>1 DEF Counting
    <2>4. Counting(r)'
          BY <2>1, <2>2 DEF Counting
    <2>3. \A e : ~Finishing(r, e)'
          BY <2>1 DEF Finishing
    <2> QED
        BY <1>1, <1>2, <2>1, <2>3, <2>4, RefreshStaysDue
  <1>5. \A o \in Orders : ~Rebuild(r, o)
        BY <1>1, HistoryAssumption DEF Rebuild
  <1>6. ASSUME UNCHANGED <<row, pc, task, tally, dashboard>>, due \subseteq due'
        PROVE  RefreshIsDue' /\ Counting(r)'
    <2>1. \A c \in Counters : Count(c)' = Count(c)
          BY <1>6, CountFollowsRows
    <2>2. Counting(r)'
          BY <1>2, <1>6, <2>1 DEF Counting
    <2>3. \A d \in due : Finishing(r, d) \/ (d \in due' /\ ~Finishing(r, d)')
          BY <1>6 DEF Finishing
    <2> QED
        BY <1>1, <1>2, <1>6, <2>2, <2>3, RefreshStaysDue
  <1>7. CASE \E o \in Orders : WriteSide(o)
    <2>1. UNCHANGED <<row, pc, task, tally, dashboard>> /\ due \subseteq due'
          BY <1>7 DEF WriteSide
    <2> QED
        BY <1>1, <1>6, <2>1
  <1>8. CASE MarkAllAsRead \/ \E o \in Orders, s \in Statuses : MarkAsRead(o, s)
    <2>1. UNCHANGED <<row, due, pc, task, tally, dashboard>>
          BY <1>8 DEF MarkAllAsRead, MarkAsRead
    <2> QED
        BY <1>1, <1>6, <2>1
  <1>9. CASE UNCHANGED <<historyAll, crew>>
    <2>1. UNCHANGED <<row, due, pc, task, tally, dashboard>>
          BY <1>9 DEF historyAll, historyVars
    <2> QED
        BY <1>1, <1>6, <2>1
  <1> QED
      BY <1>1, <1>3, <1>4, <1>5, <1>7, <1>8, <1>9 DEF HistoryNext

\* With one relay, the dashboard counts what the rows say once every delivery is done:
\* a projection that changes a row refreshes it afterwards, and until it has, its
\* delivery is due (OrderHistoryProjectionHandler, refreshDashboard).
THEOREM DashboardIsSettled == HistorySpec => []DashboardSettles
  <1>1. DashboardInv => DashboardSettles
        BY DEF DashboardInv, RefreshIsDue, DashboardSettles
  <1> QED
      BY <1>1, HistoryInitInv, HistoryStep, SideInitTypes, SideStep, DashboardInitInv,
         DashboardStep, PTL
      DEF HistorySpec
=============================================================================
