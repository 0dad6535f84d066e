------------------------------ MODULE Catalogue ------------------------------
(***************************************************************************)
(* Products and their reviews, the catalog projection of both, and its      *)
(* rebuild. The content of a product is reduced to its slug, the one field  *)
(* that is unique in the table and in the projection; the rating of a row   *)
(* is the set of customers whose reviews it averages.                       *)
(* Deliveries are as in OrderHistory: in any order, maybe more than once.   *)
(***************************************************************************)
EXTENDS Integers, Sequences, FiniteSets

CONSTANTS Products, Slugs, Customers,
          Handlers,     \* relay instances handling deliveries
          Repairers,    \* rebuild-product-catalog-projection processes
          Casts,        \* scenarios: who takes part, what is asked, and the bounds
          None          \* no row, no job, no lock

Hands      == Handlers \cup Repairers
Job        == [kind : {"product", "rating", "rebuild"}, of : Products, n : Nat]
CatalogRow == [value : Slugs, version : Nat]

ASSUME NoneAssumption == None \notin Job \cup CatalogRow \cup Hands

VARIABLES plog,      \* plog[p]: the slug of p at versions 0, 1, ...
          reviews,   \* reviews[p]: customers with a review of p
          opinions,  \* review events so far
          catalog,   \* product_catalog_projection, without the rating columns
          rated,     \* the reviews that the rating of a row counts
          suspect,   \* products whose refresh found no row, or was never reached
          undone,    \* deliveries not yet tracked as done
          at,        \* the statement a worker is at
          job,       \* the delivery or rebuild it works on
          copy,      \* what it has read
          lock,      \* lock[p]: the worker holding the row of p FOR UPDATE
          cast,      \* one of Casts, chosen at the start: the customers and workers
                     \* taking part, the slugs asked for each product one after the
                     \* other, and how many reviews are written or deleted and how
                     \* many workers die at most
          failures

sourceVars    == <<plog, reviews, opinions>>
tableVars     == <<catalog, rated, suspect>>
catalogueVars == <<sourceVars, tableVars, undone, at, job, copy, lock, cast, failures>>

Copy     == [row : CatalogRow \cup {None}, rating : SUBSET Customers, found : BOOLEAN]
AtStates == {"idle", "update", "create", "retry", "check",
             "lock", "aggregate", "store", "done"}
Blank    == [row |-> None, rating |-> {}, found |-> FALSE]

Revision(p) == Len(plog[p]) - 1

CatalogueTypeOK ==
  /\ plog \in [Products -> Seq(Slugs)]
  /\ reviews \in [Products -> SUBSET Customers] /\ opinions \in Nat
  /\ catalog \in [Products -> CatalogRow \cup {None}]
  /\ rated \in [Products -> SUBSET Customers] /\ suspect \subseteq Products
  /\ undone \subseteq Job
  /\ at \in [Hands -> AtStates] /\ job \in [Hands -> Job \cup {None}]
  /\ copy \in [Hands -> Copy] /\ lock \in [Products -> Hands \cup {None}]
  /\ cast \in Casts /\ failures \in Nat

CatalogueInit ==
  /\ plog = [p \in Products |-> <<>>]
  /\ reviews = [p \in Products |-> {}] /\ opinions = 0
  /\ catalog = [p \in Products |-> None]
  /\ rated = [p \in Products |-> {}] /\ suspect = {}
  /\ undone = {}
  /\ at = [w \in Hands |-> "idle"] /\ job = [w \in Hands |-> None]
  /\ copy = [w \in Hands |-> Blank] /\ lock = [p \in Products |-> None]
  /\ cast \in Casts /\ failures = 0

-----------------------------------------------------------------------------
(* The write side. Every change is announced in its own transaction.        *)

Announce(kind, p, n) == undone' = undone \cup {[kind |-> kind, of |-> p, n |-> n]}

SetProduct(p, s) ==
  /\ Len(plog[p]) < Len(cast.slugs[p]) /\ s = cast.slugs[p][Len(plog[p]) + 1]
  /\ plog' = [plog EXCEPT ![p] = Append(@, s)]
  /\ Announce("product", p, Len(plog[p]))
  /\ UNCHANGED <<reviews, opinions, tableVars, at, job, copy, lock, cast, failures>>

\* The unique index repeats the check that the services make before they write.
SlugIsFree(p, s) == ~ \E q \in Products \ {p} : plog[q] # <<>> /\ plog[q][Len(plog[q])] = s

CreateProduct(p, s) == plog[p] = <<>> /\ SlugIsFree(p, s) /\ SetProduct(p, s)

\* An update, a toggle of isActive, an uploaded image or a reservation of stock: the
\* write is unconditional, whatever was read before.
UpdateProduct(p, s) ==
  /\ plog[p] # <<>>
  /\ SlugIsFree(p, s)
  /\ SetProduct(p, s)

SetReviews(p, who) ==
  /\ opinions < cast.opinions
  /\ opinions' = opinions + 1
  /\ reviews' = [reviews EXCEPT ![p] = who]
  /\ Announce("rating", p, opinions)
  /\ UNCHANGED <<plog, tableVars, at, job, copy, lock, cast, failures>>

\* One review per customer and product: checked first, then by the unique index.
CreateReview(u, p) ==
  /\ u \in cast.who /\ plog[p] # <<>> /\ u \notin reviews[p]
  /\ SetReviews(p, reviews[p] \cup {u})

\* By its author or an admin; of two deletions the second finds nothing.
DeleteReview(u, p) == u \in cast.who /\ u \in reviews[p] /\ SetReviews(p, reviews[p] \ {u})

-----------------------------------------------------------------------------
(* A worker's life.                                                        *)

Move(w, from, to) ==
  /\ at[w] = from
  /\ at' = [at EXCEPT ![w] = to]
  /\ UNCHANGED <<sourceVars, cast, failures>>

\* A product's event and a rebuild start by reading the product as it is now, which
\* may be newer than the event; only a rebuild reads its reviews as well.
Read(w, j) ==
  /\ Move(w, "idle", "update")
  /\ job' = [job EXCEPT ![w] = j]
  /\ copy' = [copy EXCEPT ![w] =
       [row |-> [value |-> plog[j.of][Len(plog[j.of])], version |-> Revision(j.of)],
        rating |-> IF j.kind = "rebuild" THEN reviews[j.of] ELSE {}, found |-> FALSE]]
  /\ UNCHANGED <<tableVars, undone, lock>>

DeliverProduct(w, j) ==
  /\ w \in Handlers \cap cast.who /\ j \in undone /\ j.kind = "product"
  /\ Read(w, j)

DeliverRating(w, j) ==
  /\ w \in Handlers \cap cast.who /\ j \in undone /\ j.kind = "rating"
  /\ Move(w, "idle", "lock")
  /\ job' = [job EXCEPT ![w] = j]
  /\ UNCHANGED <<tableVars, undone, copy, lock>>

Deliver(w, j) == DeliverProduct(w, j) \/ DeliverRating(w, j)

RebuildProduct(w, p) ==
  /\ w \in Repairers \cap cast.who /\ plog[p] # <<>>
  /\ Read(w, [kind |-> "rebuild", of |-> p, n |-> 0])

AfterWrite(w) == IF job[w].kind = "rebuild" THEN "lock" ELSE "done"

\* The exception leaves the delivery due, and ends a rebuild.
Throw(w, from) ==
  /\ Move(w, from, "idle")
  /\ job' = [job EXCEPT ![w] = None] /\ copy' = [copy EXCEPT ![w] = Blank]
  /\ UNCHANGED <<tableVars, undone, lock>>

-----------------------------------------------------------------------------
(* writeProductCatalogProjection. P2002 also comes from the unique slug.    *)

RowFor(w) == catalog[job[w].of]

\* Mutant: the row is overwritten whatever its version.
RowIsThere(w) == RowFor(w) # None

RowIsOlder(w) == RowFor(w) # None /\ RowFor(w).version < copy[w].row.version

SlugIsShown(w) ==
  \E q \in Products \ {job[w].of} : catalog[q] # None /\ catalog[q].value = copy[w].row.value

Unlocked(w) == lock[job[w].of] \in {None, w}

\* Only a rebuild writes the rating that it read.
Write(w, from) ==
  /\ Unlocked(w) /\ ~SlugIsShown(w)
  /\ Move(w, from, AfterWrite(w))
  /\ catalog' = [catalog EXCEPT ![job[w].of] = copy[w].row]
  /\ rated' = [rated EXCEPT ![job[w].of] =
                 IF job[w].kind = "rebuild" THEN copy[w].rating ELSE @]
  /\ UNCHANGED <<suspect, undone, job, copy, lock>>

Skip(w, from, to) == Move(w, from, to) /\ UNCHANGED <<tableVars, undone, job, copy, lock>>

Overwrite(w, from, otherwise) ==
  /\ at[w] = from
  /\ \/ RowIsOlder(w) /\ Write(w, from)
     \/ RowIsOlder(w) /\ Unlocked(w) /\ SlugIsShown(w) /\ Throw(w, from)
     \/ ~RowIsOlder(w) /\ Skip(w, from, otherwise)

UpdateProductRow(w) == Overwrite(w, "update", "create")

CreateProductRow(w) ==
  /\ at[w] = "create"
  /\ IF RowFor(w) = None /\ ~SlugIsShown(w)
     THEN Write(w, "create")
     ELSE Skip(w, "create", "retry")

RetryProductRow(w) == Overwrite(w, "retry", "check")

\* Mutant: every violated unique index is taken for a row that is there already.
IgnoreConflict(w) == at[w] = "check" /\ Skip(w, "check", AfterWrite(w))

CheckProductRow(w) ==
  /\ at[w] = "check"
  /\ IF RowFor(w) # None /\ RowFor(w).version >= copy[w].row.version
     THEN Skip(w, "check", AfterWrite(w))
     ELSE Throw(w, "check")

-----------------------------------------------------------------------------
(* refreshProductRatingProjection, in a transaction.                        *)

Found(w) == [copy EXCEPT ![w].found = RowFor(w) # None]

\* Mutant: the row is selected without FOR UPDATE.
LockNothing(w) ==
  /\ Move(w, "lock", "aggregate")
  /\ copy' = Found(w)
  /\ UNCHANGED <<tableVars, undone, job, lock>>

\* SELECT ... FOR UPDATE locks nothing when the row is not there.
LockRow(w) ==
  /\ Move(w, "lock", "aggregate")
  /\ Unlocked(w)
  /\ copy' = Found(w)
  /\ lock' = IF RowFor(w) = None THEN lock ELSE [lock EXCEPT ![job[w].of] = w]
  /\ UNCHANGED <<tableVars, undone, job>>

Aggregate(w) ==
  /\ Move(w, "aggregate", "store")
  /\ copy' = [copy EXCEPT ![w].rating = reviews[job[w].of]]
  /\ UNCHANGED <<tableVars, undone, job, lock>>

StoreRating(w) ==
  LET p == job[w].of IN
  /\ Move(w, "store", "done")
  /\ Unlocked(w)
  /\ rated' = IF RowFor(w) = None THEN rated ELSE [rated EXCEPT ![p] = copy[w].rating]
  /\ suspect' = IF copy[w].found THEN suspect \ {p} ELSE suspect \cup {p}
  /\ lock' = [lock EXCEPT ![p] = IF @ = w THEN None ELSE @]
  /\ UNCHANGED <<catalog, undone, job, copy>>

-----------------------------------------------------------------------------
Complete(w) ==
  /\ Move(w, "done", "idle")
  /\ undone' = undone \ {job[w]}
  /\ job' = [job EXCEPT ![w] = None] /\ copy' = [copy EXCEPT ![w] = Blank]
  /\ UNCHANGED <<tableVars, lock>>

\* A worker dies: its transaction rolls back, its delivery stays due, and the ratings
\* that a rebuild has overwritten are not repaired.
Die(w) ==
  /\ at[w] # "idle" /\ failures < cast.failures
  /\ failures' = failures + 1
  /\ at' = [at EXCEPT ![w] = "idle"]
  /\ job' = [job EXCEPT ![w] = None] /\ copy' = [copy EXCEPT ![w] = Blank]
  /\ lock' = [p \in Products |-> IF lock[p] = w THEN None ELSE lock[p]]
  /\ suspect' = IF job[w].kind = "rebuild" /\ at[w] \in {"lock", "aggregate", "store"}
                THEN suspect \cup {job[w].of} ELSE suspect
  /\ UNCHANGED <<sourceVars, catalog, rated, undone, cast>>

HandStep(w) ==
  \/ UpdateProductRow(w) \/ CreateProductRow(w) \/ RetryProductRow(w) \/ CheckProductRow(w)
  \/ LockRow(w) \/ Aggregate(w) \/ StoreRating(w)
  \/ Complete(w)

CatalogueNext ==
  \/ \E p \in Products, s \in Slugs : CreateProduct(p, s) \/ UpdateProduct(p, s)
  \/ \E u \in Customers, p \in Products : CreateReview(u, p) \/ DeleteReview(u, p)
  \/ \E w \in Hands : HandStep(w) \/ Die(w)
  \/ \E w \in Hands, j \in undone : Deliver(w, j)
  \/ \E w \in Hands, p \in Products : RebuildProduct(w, p)

CatalogueSpec == CatalogueInit /\ [][CatalogueNext]_catalogueVars

\* As in OrderHistory: workers go on, and due deliveries are taken again and again.
CatalogueFairness ==
  /\ \A w \in Hands : WF_catalogueVars(HandStep(w))
  /\ \A k \in {"product", "rating"}, p \in Products :
       SF_catalogueVars(\E w \in Hands, j \in undone : j.kind = k /\ j.of = p /\ Deliver(w, j))

-----------------------------------------------------------------------------
\* The catalog implements the read model too: a row shows a product as it was at the
\* row's version and never goes back, whichever of the handlers and rebuilds that
\* read the product at different times writes last.
CatalogReadModel == INSTANCE ReadModel WITH
  Keys <- Products, Values <- Slugs, NoRow <- None, committed <- plog, shown <- catalog

CatalogImplementsReadModel == CatalogReadModel!ReadModelSpec

\* Products that have exchanged their slugs, round a cycle, between two projections:
\* each waits for the slug that another one's row still shows.
SlugDeadlock ==
  \E S \in SUBSET Products \ {{}} : \A p \in S :
    /\ plog[p] # <<>>
    /\ \E q \in S \ {p} : catalog[q] # None /\ catalog[q].value = plog[p][Len(plog[p])]

\* With one relay the rows catch up with their products, although the projection has
\* a unique index on the slug of its own and an event may meet the slug in a row that
\* has not followed yet; unless slugs have been exchanged, which never resolves.
CatalogCatchesUp ==
  Cardinality(cast.who \cap Hands) = 1 /\ cast.who \cap Repairers = {}
    => CatalogReadModel!CatchesUp \/ <>[]SlugDeadlock

\* Once its reviews' events are done and nobody works on it, a row's rating counts
\* exactly the product's reviews, however the refreshes and rebuilds overlapped:
\* reviews are aggregated under the row's lock, so an older result is not stored last.
\* Left out are rows whose refresh came before the row, or whose rebuild died.
RatingSettles ==
  \A p \in Products \ suspect :
    /\ catalog[p] # None
    /\ \A j \in undone : j.kind = "product" \/ j.of # p
    /\ \A w \in Hands : job[w] # None => job[w].of # p
    => rated[p] = reviews[p]

\* OPERATIONS.md, outbox delivery: "Current consumers are order-tolerant". So the
\* same holds of every row when all of its deliveries are done and nothing has died.
RatingIsNotLost ==
  \A p \in Products :
    /\ catalog[p] # None /\ failures = 0
    /\ \A j \in undone : j.of # p
    /\ \A w \in Hands : job[w] # None => job[w].of # p
    => rated[p] = reviews[p]
=============================================================================
