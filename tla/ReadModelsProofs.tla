--------------------------- MODULE ReadModelsProofs ---------------------------
(***************************************************************************)
(* Proofs about the order entity, and about the instance that puts orders,  *)
(* their read models, products and drafts side by side, for every set of    *)
(* each of them.                                                            *)
(***************************************************************************)
EXTENDS MCReadModels, OrderHistoryProofs, CatalogueProofs

-----------------------------------------------------------------------------
(* The entity.                                                               *)

DraftInv == DraftTypeOK /\ PlacedOrderIsPayable

LEMMA DraftInitInv == Create => DraftInv
  <1> SUFFICES ASSUME Create
               PROVE  DraftInv
      OBVIOUS
  <1>1. (CHOOSE c \in LinePrices : TRUE) \in LinePrices
        BY AggregateAssumption
  <1>2. items \in [Lines -> [quantity : 0..MaxLine, price : LinePrices]]
    <2> DEFINE empty == [quantity : {0}, price : {CHOOSE c \in LinePrices : TRUE}]
    <2>1. empty \subseteq [quantity : 0..MaxLine, price : LinePrices]
          BY <1>1, AggregateAssumption
    <2>2. items \in [Lines -> empty]
          BY DEF Create
    <2> HIDE DEF empty
    <2> QED
        BY <2>1, <2>2
  <1>3. pricing \in [tax : Charges, shipping : Charges, discount : Charges]
        BY AggregateAssumption DEF Create
  <1> QED
      BY <1>2, <1>3 DEF Create, DraftInv, DraftTypeOK, PlacedOrderIsPayable, Statuses

\* What an order amounts to is fixed by its items and its pricing.
LEMMA GrossFollowsItems ==
  ASSUME UNCHANGED <<items, pricing>>
  PROVE  Gross' = Gross
  BY DEF Gross, Subtotal

\* Items and pricing change in a draft only.
LEMMA DraftsArePriced ==
  ASSUME DraftInv, DraftTypeOK', hasBeenPlaced' = hasBeenPlaced,
         IsMutable \/ UNCHANGED <<items, pricing>>
  PROVE  DraftInv'
  <1>1. CASE IsMutable
        BY <1>1 DEF DraftInv, IsMutable, PlacedOrderIsPayable
  <1>2. CASE UNCHANGED <<items, pricing>>
        BY <1>2, GrossFollowsItems DEF DraftInv, PlacedOrderIsPayable
  <1> QED
      BY <1>1, <1>2

LEMMA ItemsTyped ==
  ASSUME DraftTypeOK, NEW p \in Lines, NEW n \in 0..MaxLine, NEW c \in LinePrices,
         items' = [items EXCEPT ![p] = [quantity |-> n, price |-> c]],
         UNCHANGED <<pricing, draftStatus, hasBeenPlaced, raised>>
  PROVE  DraftTypeOK'
  BY DEF DraftTypeOK

LEMMA DraftStep == DraftInv /\ [DraftNext]_draftVars => DraftInv'
  <1> SUFFICES ASSUME DraftInv, [DraftNext]_draftVars
               PROVE  DraftInv'
      OBVIOUS
  <1> USE AggregateAssumption
  <1>1. ASSUME NEW p \in Lines, NEW n \in 1..MaxLine, NEW c \in LinePrices, AddItem(p, n, c)
        PROVE  DraftInv'
    <2>1. items[p].quantity \in 0..MaxLine
          BY DEF DraftInv, DraftTypeOK
    <2>2. items[p].quantity + n \in 0..MaxLine
          BY <1>1, <2>1 DEF AddItem
    <2>3. /\ items' = [items EXCEPT ![p] = [quantity |-> items[p].quantity + n, price |-> c]]
          /\ UNCHANGED <<pricing, draftStatus, hasBeenPlaced, raised>> /\ IsMutable
          BY <1>1 DEF AddItem
    <2> QED
        BY <2>2, <2>3, ItemsTyped, DraftsArePriced DEF DraftInv
  <1>2. ASSUME NEW p \in Lines, RemoveItem(p)
        PROVE  DraftInv'
    <2>1. items[p] \in [quantity : 0..MaxLine, price : LinePrices] /\ 0 \in 0..MaxLine
          BY DEF DraftInv, DraftTypeOK
    <2>2. [items[p] EXCEPT !.quantity = 0] = [quantity |-> 0, price |-> items[p].price]
          BY <2>1
    <2>3. items' = [items EXCEPT ![p] = [items[p] EXCEPT !.quantity = 0]]
          BY <1>2 DEF RemoveItem
    <2>4. UNCHANGED <<pricing, draftStatus, hasBeenPlaced, raised>> /\ IsMutable
          BY <1>2 DEF RemoveItem
    <2> QED
        BY <2>1, <2>2, <2>3, <2>4, ItemsTyped, DraftsArePriced DEF DraftInv
  <1>3. ASSUME NEW a \in [tax : Charges, shipping : Charges, discount : Charges], ApplyPricing(a)
        PROVE  DraftInv'
        BY <1>3, DraftsArePriced DEF ApplyPricing, DraftInv, DraftTypeOK
  <1>4. CASE PlaceDraft
    <2>1. DraftTypeOK'
          BY <1>4 DEF PlaceDraft, DraftInv, DraftTypeOK
    <2>2. Gross' = Gross
          BY <1>4, GrossFollowsItems DEF PlaceDraft
    <2> QED
        BY <1>4, <2>1, <2>2 DEF PlaceDraft, DraftInv, PlacedOrderIsPayable
  <1>5. ASSUME NEW s \in Statuses, ChangeStatus(s)
        PROVE  DraftInv'
    <2>1. DraftTypeOK'
          BY <1>5 DEF ChangeStatus, DraftInv, DraftTypeOK
    <2> QED
        BY <1>5, <2>1, DraftsArePriced DEF ChangeStatus
  <1>6. CASE UNCHANGED draftVars
        BY <1>6, DraftsArePriced DEF draftVars, DraftInv, DraftTypeOK
  <1> QED
      BY <1>1, <1>2, <1>3, <1>4, <1>5, <1>6 DEF DraftNext

\* Items, pricing, status and raised events of the entity keep their types.
THEOREM DraftTypesHold == DraftSpec => []DraftTypeOK
  <1>1. DraftInv => DraftTypeOK
        BY DEF DraftInv
  <1> QED
      BY <1>1, DraftInitInv, DraftStep, PTL DEF DraftSpec

\* However a draft is filled, emptied and priced before it is placed, and whatever is
\* attempted afterwards, a placed order has items and a discount its gross amount
\* covers (Order.place, which measures the discount again).
THEOREM PlacedOrdersArePayable == DraftSpec => []PlacedOrderIsPayable
  <1>1. DraftInv => PlacedOrderIsPayable
        BY DEF DraftInv
  <1> QED
      BY <1>1, DraftInitInv, DraftStep, PTL DEF DraftSpec

-----------------------------------------------------------------------------
(* Side by side.                                                             *)

ReadModelsInv == HistoryInv /\ SideTypes /\ CatalogueInv /\ DraftInv

LEMMA StandsStill ==
  /\ HistoryInv /\ SideTypes /\ UNCHANGED <<historyAll, crew>> => HistoryInv' /\ SideTypes'
  /\ CatalogueInv /\ UNCHANGED catalogueVars => CatalogueInv'
  /\ DraftInv /\ UNCHANGED draftVars => DraftInv'
  BY HistoryStep, SideStep, CatalogueStep, DraftStep

\* Requests that read an order, decide and write later leave the history as true as
\* a change in one step does.
LEMMA LifecycleKeeps ==
  ASSUME HistoryInv, SideTypes, OrdersNext,
         due' = due \cup Deliveries(outbox' \ outbox),
         UNCHANGED <<row, pc, task, tally, dashboard, notice, crashes, crew>>
  PROVE  HistoryInv' /\ SideTypes'
  <1>1. SideTypes'
        BY DEF SideTypes
  <1>2. OrdersTypeOK
        BY DEF HistoryInv, HistoryTypes, OrdersTypeOK
  <1>3. ASSUME UNCHANGED <<log, outbox>>, hand' \in [Staff -> Decision \cup {Nothing}]
        PROVE  HistoryInv'
    <2>1. outbox' \ outbox = {}
          BY <1>3
    <2>2. due' = due
          BY <2>1 DEF Deliveries
    <2> QED
        BY <1>3, <2>2 DEF HistoryInv, HistoryTypes, TasksAreTrue, RowsAreTrue, Truthful
  <1>4. ASSUME NEW o \in Orders, PlaceOrder(o)
        PROVE  HistoryInv'
    <2>1. "PENDING" \in Statuses /\ Persist(o, "PENDING") /\ hand' = hand
          BY <1>4 DEF PlaceOrder, Statuses
    <2> QED
        BY <1>2, <2>1, PersistKeepsTasksTrue DEF OrdersTypeOK
  <1>5. ASSUME NEW a \in Staff, NEW o \in Orders, NEW s \in Statuses, Decide(a, o, s)
        PROVE  HistoryInv'
    <2> DEFINE d == [of |-> o, status |-> s, version |-> Version(o)]
    <2>1. /\ log[o] \in Seq(Statuses) /\ log[o] # <<>>
          /\ hand' = [hand EXCEPT ![a] = d] /\ UNCHANGED <<log, outbox>>
          BY <1>2, <1>5 DEF Decide, OrdersTypeOK
    <2>2. d \in Decision
          BY <2>1 DEF Decision, Version
    <2> QED
        BY <1>2, <1>3, <2>1, <2>2 DEF OrdersTypeOK
  <1>6. ASSUME NEW a \in Staff, WriteStatus(a)
        PROVE  HistoryInv'
    <2>1. hand[a] \in Decision /\ hand' = [hand EXCEPT ![a] = Nothing]
          BY <1>2, <1>6 DEF WriteStatus, OrdersTypeOK
    <2>2. hand' \in [Staff -> Decision \cup {Nothing}]
          BY <1>2, <2>1 DEF OrdersTypeOK
    <2>3. hand[a].of \in Orders /\ hand[a].status \in Statuses
          BY <2>1 DEF Decision
    <2> QED
        BY <1>3, <1>6, <2>2, <2>3, PersistKeepsTasksTrue DEF WriteStatus
  <1> QED
      BY <1>1, <1>4, <1>5, <1>6 DEF OrdersNext

LEMMA ReadModelsStep == ReadModelsInv /\ [ReadModelsNext]_Everything => ReadModelsInv'
  <1> SUFFICES ASSUME ReadModelsInv, [ReadModelsNext]_Everything
               PROVE  ReadModelsInv'
      OBVIOUS
  <1> USE DEF ReadModelsInv
  <1>1. CASE /\ OrdersNext /\ due' = due \cup Deliveries(outbox' \ outbox)
             /\ UNCHANGED <<row, pc, task, tally, dashboard, notice, crashes, crew, catalogueVars,
                            draftVars>>
        BY <1>1, LifecycleKeeps, StandsStill
  <1>2. CASE DraftNext /\ UNCHANGED <<historyAll, crew, catalogueVars>>
        BY <1>2, DraftStep, StandsStill
  <1>3. CASE HistoryNext /\ UNCHANGED <<catalogueVars, draftVars>>
        BY <1>3, HistoryStep, SideStep, StandsStill
  <1>4. CASE CatalogueNext /\ UNCHANGED <<historyAll, crew, draftVars>>
        BY <1>4, CatalogueStep, StandsStill
  <1>5. CASE UNCHANGED Everything
        BY <1>5, StandsStill DEF Everything
  <1> QED
      BY <1>1, <1>2, <1>3, <1>4, <1>5 DEF ReadModelsNext

\* Whichever of the components moves, and with requests that decide on an order and
\* write it later, every variable keeps its type.
THEOREM ReadModelsTypesHold == ReadModelsSpec => []ReadModelsTypeOK
  <1>1. ReadModelsInit => ReadModelsInv
        BY HistoryInitInv, SideInitTypes, CatalogueInitInv, DraftInitInv
        DEF ReadModelsInit, ReadModelsInv
  <1>2. ReadModelsInv => ReadModelsTypeOK
        BY DEF ReadModelsInv, ReadModelsTypeOK, HistoryInv, HistoryTypes, SideTypes, Notices,
               OrdersTypeOK, HistoryTypeOK, CatalogueInv, DraftInv
  <1> QED
      BY <1>1, <1>2, ReadModelsStep, PTL DEF ReadModelsSpec
=============================================================================
