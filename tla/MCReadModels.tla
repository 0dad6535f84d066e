----------------------------- MODULE MCReadModels -----------------------------
(* Instances for TLC of the write sides and read models of orders and          *)
(* products. They share no state, so they are checked side by side: a          *)
(* behaviour picks one of them at the start and the others stand still.        *)
EXTENDS OrderHistory, Catalogue, OrderAggregate

CONSTANTS p1, p2, s1, s2, s3, u1, r1, r2, b1, h1, h2, b2

VARIABLE focus

Everything == <<focus, historyAll, crew, catalogueVars, draftVars>>

\* Two relays, a relay beside a rebuild, and one relay whose handlers fail.
Alone   == [who |-> {r1}, crashes |-> 2]
Pair    == [who |-> {r1, r2}, crashes |-> 0]
Rebuilt == [who |-> {r1, b1}, crashes |-> 1]
Nobody  == [who |-> {}, crashes |-> 0]
Teams   == {Alone, Pair, Rebuilt, Nobody}

\* Slugs exchanged through a third one; a slug taken over from another product; two
\* relays refreshing a rating; a relay beside a rebuild.
Asked(a, b) == [p \in Products |-> IF p = p1 THEN a ELSE b]
Ratings == [who |-> {h1, h2, u1}, slugs |-> Asked(<<s1>>, <<>>), opinions |-> 2, failures |-> 0]
Companies == {
  [who |-> {h1}, slugs |-> Asked(<<s1, s3, s2>>, <<s2, s1>>), opinions |-> 0, failures |-> 1],
  [who |-> {h1}, slugs |-> Asked(<<s1, s2>>, <<s2, s3>>), opinions |-> 1, failures |-> 0],
  [who |-> {h1, b2, u1}, slugs |-> Asked(<<s1, s2>>, <<>>), opinions |-> 1, failures |-> 1],
  Ratings}

ReadModelsInit ==
  /\ focus \in {"lifecycle", "draft", "history", "catalogue"}
  /\ OrdersInit /\ HistoryInit /\ CatalogueInit /\ Create
  /\ focus = "history" <=> crew # Nobody
  /\ focus # "catalogue" => cast = Ratings

ReadModelsNext ==
  /\ UNCHANGED focus
  /\ \/ focus = "lifecycle" /\ OrdersNext /\ due' = due \cup Deliveries(outbox' \ outbox)
        /\ UNCHANGED <<row, pc, task, tally, dashboard, notice, crashes, crew, catalogueVars, draftVars>>
     \/ focus = "draft" /\ DraftNext /\ UNCHANGED <<historyAll, crew, catalogueVars>>
     \/ focus = "history" /\ HistoryNext /\ UNCHANGED <<catalogueVars, draftVars>>
     \/ focus = "catalogue" /\ CatalogueNext /\ UNCHANGED <<historyAll, crew, draftVars>>

\* A component that stands still has nothing due: its fairness asks nothing of it.
ReadModelsSpec ==
  /\ ReadModelsInit /\ [][ReadModelsNext]_Everything
  /\ HistoryFairness /\ CatalogueFairness

\* Every variable keeps its type.
ReadModelsTypeOK == OrdersTypeOK /\ HistoryTypeOK /\ CatalogueTypeOK /\ DraftTypeOK
=============================================================================
