---------------------------- MODULE CatalogueProofs ----------------------------
(***************************************************************************)
(* For every set of products, slugs, customers, relays and rebuilds, and    *)
(* for any scenario: the catalog projection implements the read model, and *)
(* a rating that is not up to date has a refresh to come.                  *)
(***************************************************************************)
EXTENDS Catalogue, SequenceTheorems, TLAPS

Writing == {"update", "create", "retry", "check"}

\* A row that shows a product as it was at the row's version.
Genuine(p, r) ==
  /\ r \in CatalogRow
  /\ r.version + 1 \in 1..Len(plog[p])
  /\ r.value = plog[p][r.version + 1]

JobsAreReal ==
  /\ \A j \in undone : j.kind = "product" => plog[j.of] # <<>>
  /\ \A w \in Hands : at[w] # "idle" => job[w] \in Job

CopiesAreGenuine == \A w \in Hands : at[w] \in Writing => Genuine(job[w].of, copy[w].row)

RowsAreGenuine == \A p \in Products : catalog[p] # None => Genuine(p, catalog[p])

CatalogueInv == CatalogueTypeOK /\ JobsAreReal /\ CopiesAreGenuine /\ RowsAreGenuine

-----------------------------------------------------------------------------
LEMMA CatalogueInitInv == CatalogueInit => CatalogueInv
  <1> SUFFICES ASSUME CatalogueInit
               PROVE  CatalogueInv
      OBVIOUS
  <1>1. Blank \in Copy
        BY DEF Blank, Copy
  <1>2. CatalogueTypeOK
        BY <1>1 DEF CatalogueInit, CatalogueTypeOK, AtStates
  <1> QED
      BY <1>2 DEF CatalogueInit, CatalogueInv, JobsAreReal, CopiesAreGenuine, RowsAreGenuine,
                  Writing

\* What is appended to a sequence is its last element, and the others stay.
LEMMA OneMore ==
  ASSUME NEW S, NEW q \in Seq(S), NEW s \in S
  PROVE  /\ Append(q, s) \in Seq(S) /\ Append(q, s) # <<>>
         /\ Len(q) \in Nat /\ Len(Append(q, s)) = Len(q) + 1
         /\ \A n \in 1..Len(q) : Append(q, s)[n] = q[n]
  <1>1. Len(q) \in Nat /\ Len(Append(q, s)) = Len(q) + 1 /\ Append(q, s) \in Seq(S)
        OBVIOUS
  <1>2. Append(q, s) # <<>>
        BY <1>1, EmptySeq
  <1>3. \A n \in 1..Len(q) : Append(q, s)[n] = q[n]
        OBVIOUS
  <1> QED
      BY <1>1, <1>2, <1>3

\* A new version of a product leaves its earlier ones as they are.
LEMMA Lengthened ==
  ASSUME CatalogueTypeOK, NEW p \in Products, NEW s \in Slugs,
         plog' = [plog EXCEPT ![p] = Append(@, s)]
  PROVE  /\ plog' \in [Products -> Seq(Slugs)]
         /\ plog'[p] # <<>>
         /\ \A q \in Products \ {p} : plog'[q] = plog[q]
         /\ \A q \in Products : \A r : Genuine(q, r) => Genuine(q, r)'
  <1>1. plog[p] \in Seq(Slugs) /\ plog'[p] = Append(plog[p], s)
        BY DEF CatalogueTypeOK
  <1>2. /\ plog'[p] \in Seq(Slugs) /\ plog'[p] # <<>>
        /\ Len(plog[p]) \in Nat /\ Len(plog'[p]) = Len(plog[p]) + 1
        /\ \A n \in 1..Len(plog[p]) : plog'[p][n] = plog[p][n]
        BY <1>1, OneMore
  <1>3. \A q \in Products \ {p} : plog'[q] = plog[q]
        BY DEF CatalogueTypeOK
  <1>4. plog' \in [Products -> Seq(Slugs)]
        BY <1>1, <1>2 DEF CatalogueTypeOK
  <1>5. ASSUME NEW q \in Products, NEW r, Genuine(q, r)
        PROVE  Genuine(q, r)'
    <2>1. r.version \in Nat
          BY <1>5 DEF Genuine, CatalogRow
    <2>2. CASE q = p
          BY <1>2, <1>5, <2>1, <2>2 DEF Genuine
    <2>3. CASE q # p
          BY <1>3, <1>5, <2>3 DEF Genuine
    <2> QED
        BY <2>2, <2>3
  <1> QED
      BY <1>2, <1>3, <1>4, <1>5

\* The write side commits a version to the read model's source, or no version.
LEMMA ProductCommitted ==
  ASSUME CatalogueInv, NEW p \in Products, NEW s \in Slugs, SetProduct(p, s)
  PROVE  CatalogueInv' /\ CatalogReadModel!Commit(p)
  <1>1. /\ plog' = [plog EXCEPT ![p] = Append(@, s)]
        /\ undone' = undone \cup {[kind |-> "product", of |-> p, n |-> Len(plog[p])]}
        /\ UNCHANGED <<reviews, opinions, catalog, rated, suspect, at, job, copy, lock, cast,
                       failures>>
        BY DEF SetProduct, Announce, tableVars
  <1>2. CatalogueTypeOK
        BY DEF CatalogueInv
  <1>3. /\ plog' \in [Products -> Seq(Slugs)] /\ plog'[p] # <<>>
        /\ \A q \in Products \ {p} : plog'[q] = plog[q]
        /\ \A q \in Products : \A r : Genuine(q, r) => Genuine(q, r)'
        BY <1>1, <1>2, Lengthened
  <1>4. [kind |-> "product", of |-> p, n |-> Len(plog[p])] \in Job
        BY <1>2 DEF CatalogueTypeOK, Job
  <1>5. CatalogueTypeOK'
        BY <1>1, <1>2, <1>3, <1>4 DEF CatalogueTypeOK
  <1>6. JobsAreReal'
    <2>1. \A j \in undone : j.of \in Products
          BY <1>2 DEF CatalogueTypeOK, Job
    <2> QED
        BY <1>1, <1>3, <2>1 DEF CatalogueInv, JobsAreReal
  <1>7. CopiesAreGenuine'
    <2>1. \A w \in Hands : at[w] \in Writing => job[w].of \in Products
          BY DEF CatalogueInv, JobsAreReal, Writing, Job
    <2> QED
        BY <1>1, <1>3, <2>1 DEF CatalogueInv, CopiesAreGenuine
  <1>8. RowsAreGenuine'
        BY <1>1, <1>3 DEF CatalogueInv, RowsAreGenuine
  <1>9. CatalogReadModel!Commit(p)
        BY <1>1 DEF CatalogReadModel!Commit
  <1> QED
      BY <1>5, <1>6, <1>7, <1>8, <1>9 DEF CatalogueInv

LEMMA ReviewsChanged ==
  ASSUME CatalogueInv, NEW p \in Products, NEW who \in SUBSET Customers, SetReviews(p, who)
  PROVE  CatalogueInv' /\ UNCHANGED <<plog, catalog>>
  <1>1. /\ opinions' = opinions + 1
        /\ reviews' = [reviews EXCEPT ![p] = who]
        /\ undone' = undone \cup {[kind |-> "rating", of |-> p, n |-> opinions]}
        /\ UNCHANGED <<plog, catalog, rated, suspect, at, job, copy, lock, cast, failures>>
        BY DEF SetReviews, Announce, tableVars
  <1>2. CatalogueTypeOK'
        BY <1>1 DEF CatalogueInv, CatalogueTypeOK, Job
  <1> QED
      BY <1>1, <1>2
      DEF CatalogueInv, JobsAreReal, CopiesAreGenuine, RowsAreGenuine, Genuine

-----------------------------------------------------------------------------
\* A worker's step that writes no row: the worker stops writing, or goes on with the
\* same job and the same copy.
LEMMA NothingWritten ==
  ASSUME CatalogueInv, NEW w \in Hands, CatalogueTypeOK',
         UNCHANGED <<plog, catalog>>, undone' \subseteq undone,
         \A v \in Hands \ {w} : at'[v] = at[v] /\ job'[v] = job[v] /\ copy'[v] = copy[v],
         at'[w] # "idle" => job'[w] \in Job,
         at'[w] \in Writing =>
           at[w] \in Writing /\ job'[w] = job[w] /\ copy'[w] = copy[w]
  PROVE  CatalogueInv' /\ UNCHANGED <<plog, catalog>>
  <1>1. \A p, r : Genuine(p, r)' <=> Genuine(p, r)
        BY DEF Genuine
  <1>2. JobsAreReal'
        BY DEF CatalogueInv, JobsAreReal
  <1>3. CopiesAreGenuine'
        BY <1>1 DEF CatalogueInv, CopiesAreGenuine
  <1>4. RowsAreGenuine'
        BY <1>1 DEF CatalogueInv, RowsAreGenuine
  <1> QED
      BY <1>2, <1>3, <1>4 DEF CatalogueInv

\* Handlers of product events and rebuilds read the product's current version.
LEMMA ReadIsGenuine ==
  ASSUME CatalogueInv, NEW w \in Hands, NEW j \in Job, plog[j.of] # <<>>, Read(w, j)
  PROVE  CatalogueInv' /\ UNCHANGED <<plog, catalog>>
  <1> DEFINE p == j.of
             r == [value |-> plog[p][Len(plog[p])], version |-> Revision(p)]
             c == [row |-> r, rating |-> IF j.kind = "rebuild" THEN reviews[p] ELSE {},
                   found |-> FALSE]
  <1>1. /\ at' = [at EXCEPT ![w] = "update"] /\ job' = [job EXCEPT ![w] = j]
        /\ copy' = [copy EXCEPT ![w] = c]
        /\ UNCHANGED <<plog, reviews, opinions, catalog, rated, suspect, undone, lock, cast,
                       failures>>
        BY DEF Read, Move, sourceVars, tableVars
  <1>2. p \in Products /\ plog[p] \in Seq(Slugs) /\ reviews[p] \subseteq Customers
        BY DEF CatalogueInv, CatalogueTypeOK, Job
  <1>3. /\ Revision(p) \in Nat /\ Revision(p) + 1 = Len(plog[p])
        /\ Len(plog[p]) \in 1..Len(plog[p]) /\ plog[p][Len(plog[p])] \in Slugs
        BY <1>2 DEF Revision
  <1>4. r \in CatalogRow /\ r.version = Revision(p) /\ r.value = plog[p][Len(plog[p])]
        BY <1>3 DEF CatalogRow
  <1>5. Genuine(p, r)
        BY <1>3, <1>4 DEF Genuine
  <1> HIDE DEF r
  <1>6. c \in Copy /\ c.row = r
        BY <1>2, <1>4 DEF Copy
  <1> HIDE DEF c
  <1>7. CatalogueTypeOK'
        BY <1>1, <1>6 DEF CatalogueInv, CatalogueTypeOK, AtStates
  <1>8. \A q, s : Genuine(q, s)' <=> Genuine(q, s)
        BY <1>1 DEF Genuine
  <1>9. /\ job'[w] = j /\ copy'[w] = c
        /\ \A v \in Hands \ {w} : at'[v] = at[v] /\ job'[v] = job[v] /\ copy'[v] = copy[v]
        BY <1>1 DEF CatalogueInv, CatalogueTypeOK
  <1>10. JobsAreReal'
         BY <1>1, <1>9 DEF CatalogueInv, JobsAreReal
  <1>11. CopiesAreGenuine'
         BY <1>5, <1>6, <1>8, <1>9 DEF CatalogueInv, CopiesAreGenuine
  <1>12. RowsAreGenuine'
         BY <1>1, <1>8 DEF CatalogueInv, RowsAreGenuine
  <1> QED
      BY <1>1, <1>7, <1>10, <1>11, <1>12 DEF CatalogueInv

\* A written row shows the version that was read, which is later than the one it showed.
LEMMA WriteShowsLater ==
  ASSUME CatalogueInv, NEW w \in Hands, NEW from \in Writing, Write(w, from),
         RowFor(w) = None \/ RowFor(w).version < copy[w].row.version
  PROVE  CatalogueInv' /\ \E p \in Products : CatalogReadModel!Show(p)
  <1> DEFINE p == job[w].of
             r == copy[w].row
  <1>1. /\ at[w] = from /\ at' = [at EXCEPT ![w] = AfterWrite(w)]
        /\ catalog' = [catalog EXCEPT ![p] = r]
        /\ rated' = [rated EXCEPT ![p] =
                       IF job[w].kind = "rebuild" THEN copy[w].rating ELSE @]
        /\ UNCHANGED <<plog, reviews, opinions, suspect, undone, job, copy, lock, cast,
                       failures>>
        BY DEF Write, Move, sourceVars
  <1>2. job[w] \in Job /\ Genuine(p, r)
        BY <1>1 DEF CatalogueInv, JobsAreReal, CopiesAreGenuine, Writing
  <1>3. p \in Products /\ r \in CatalogRow /\ r.version \in Nat
        BY <1>2 DEF Job, Genuine, CatalogRow
  <1>4. AfterWrite(w) \in {"lock", "done"}
        BY DEF AfterWrite
  <1>5. CatalogueTypeOK'
    <2>1. copy[w].rating \subseteq Customers
          BY DEF CatalogueInv, CatalogueTypeOK, Copy
    <2>2. rated' \in [Products -> SUBSET Customers]
          BY <1>1, <1>3, <2>1 DEF CatalogueInv, CatalogueTypeOK
    <2>3. catalog' \in [Products -> CatalogRow \cup {None}]
          BY <1>1, <1>3 DEF CatalogueInv, CatalogueTypeOK
    <2>4. at' \in [Hands -> AtStates]
          BY <1>1, <1>4 DEF CatalogueInv, CatalogueTypeOK, AtStates
    <2> QED
        BY <1>1, <2>2, <2>3, <2>4 DEF CatalogueInv, CatalogueTypeOK
  <1>6. \A q, s : Genuine(q, s)' <=> Genuine(q, s)
        BY <1>1 DEF Genuine
  <1>7. /\ at'[w] \notin Writing
        /\ \A v \in Hands \ {w} : at'[v] = at[v]
        BY <1>1, <1>4 DEF CatalogueInv, CatalogueTypeOK, Writing
  <1>8. JobsAreReal'
        BY <1>1, <1>2, <1>7 DEF CatalogueInv, JobsAreReal
  <1>9. CopiesAreGenuine'
        BY <1>1, <1>6, <1>7 DEF CatalogueInv, CopiesAreGenuine
  <1>10. RowsAreGenuine'
         BY <1>1, <1>2, <1>6 DEF CatalogueInv, CatalogueTypeOK, RowsAreGenuine
  <1>11. CatalogReadModel!Show(p)
    <2> DEFINE n == r.version + 1
    <2>1. n \in 1..Len(plog[p]) /\ plog[p][n] = r.value /\ n - 1 = r.version
          BY <1>2, <1>3 DEF Genuine
    <2>2. CatalogReadModel!RowAt(p, n) = r
          BY <1>3, <2>1 DEF CatalogReadModel!RowAt, CatalogRow
    <2>3. Len(plog[p]) \in Nat
          BY <1>3 DEF CatalogueInv, CatalogueTypeOK
    <2>4. catalog[p] # None => catalog[p].version \in Nat
          BY <1>3 DEF CatalogueInv, CatalogueTypeOK, CatalogRow
    <2>5. n \in CatalogReadModel!ShownVersion(p) + 2..Len(plog[p])
          BY <1>3, <2>1, <2>3, <2>4 DEF CatalogReadModel!ShownVersion, RowFor
    <2> QED
        BY <1>1, <2>2, <2>5 DEF CatalogReadModel!Show
  <1> QED
      BY <1>3, <1>5, <1>8, <1>9, <1>10, <1>11 DEF CatalogueInv

\* The exception and the end of a job leave the worker idle.
LEMMA SkipAndThrow ==
  ASSUME CatalogueInv, NEW w \in Hands, NEW from \in AtStates \ {"idle"}, NEW to \in AtStates,
         \/ Skip(w, from, to) /\ (to \in Writing => from \in Writing)
         \/ Throw(w, from)
  PROVE  CatalogueInv' /\ UNCHANGED <<plog, catalog>>
  <1>1. Blank \in Copy /\ "idle" \in AtStates /\ "idle" \notin Writing
        BY DEF Blank, Copy, AtStates, Writing
  <1>2. CASE Skip(w, from, to) /\ (to \in Writing => from \in Writing)
    <2>1. /\ at[w] = from /\ at' = [at EXCEPT ![w] = to]
          /\ UNCHANGED <<sourceVars, tableVars, undone, job, copy, lock, cast, failures>>
          BY <1>2 DEF Skip, Move
    <2>2. CatalogueTypeOK'
          BY <2>1 DEF CatalogueInv, CatalogueTypeOK, sourceVars, tableVars
    <2>3. job[w] \in Job
          BY <2>1 DEF CatalogueInv, JobsAreReal
    <2>4. at'[w] = to /\ \A v \in Hands \ {w} : at'[v] = at[v]
          BY <2>1 DEF CatalogueInv, CatalogueTypeOK
    <2> QED
        BY <1>2, <2>1, <2>2, <2>3, <2>4, NothingWritten DEF sourceVars, tableVars
  <1>3. CASE Throw(w, from)
    <2>1. /\ at' = [at EXCEPT ![w] = "idle"] /\ job' = [job EXCEPT ![w] = None]
          /\ copy' = [copy EXCEPT ![w] = Blank]
          /\ UNCHANGED <<sourceVars, tableVars, undone, lock, cast, failures>>
          BY <1>3 DEF Throw, Move
    <2>2. CatalogueTypeOK'
          BY <1>1, <2>1 DEF CatalogueInv, CatalogueTypeOK, sourceVars, tableVars
    <2>3. /\ at'[w] = "idle"
          /\ \A v \in Hands \ {w} : at'[v] = at[v] /\ job'[v] = job[v] /\ copy'[v] = copy[v]
          BY <2>1 DEF CatalogueInv, CatalogueTypeOK
    <2> QED
        BY <1>1, <2>1, <2>2, <2>3, NothingWritten DEF sourceVars, tableVars
  <1> QED
      BY <1>2, <1>3

LEMMA RowSteps ==
  ASSUME CatalogueInv, NEW w \in Hands,
         \/ UpdateProductRow(w) \/ CreateProductRow(w)
         \/ RetryProductRow(w) \/ CheckProductRow(w)
  PROVE  CatalogueInv' /\ (UNCHANGED <<plog, catalog>> \/ \E p \in Products : CatalogReadModel!Show(p))
  <1>1. /\ Writing \subseteq AtStates \ {"idle"} /\ AfterWrite(w) \in AtStates
        /\ AfterWrite(w) \notin Writing
        BY DEF Writing, AtStates, AfterWrite
  <1>2. ASSUME NEW from \in Writing, NEW otherwise \in Writing, Overwrite(w, from, otherwise)
        PROVE  CatalogueInv' /\ (UNCHANGED <<plog, catalog>> \/ \E p \in Products : CatalogReadModel!Show(p))
    <2>1. CASE RowIsOlder(w) /\ Write(w, from)
          BY <2>1, WriteShowsLater DEF RowIsOlder
    <2>2. CASE Throw(w, from) \/ Skip(w, from, otherwise)
          BY <1>1, <2>2, SkipAndThrow
    <2> QED
        BY <1>2, <2>1, <2>2 DEF Overwrite
  <1>3. CASE UpdateProductRow(w) \/ RetryProductRow(w)
        BY <1>2, <1>3 DEF UpdateProductRow, RetryProductRow, Writing
  <1>4. CASE CreateProductRow(w)
    <2>1. CASE RowFor(w) = None /\ Write(w, "create")
          BY <2>1, WriteShowsLater DEF Writing
    <2>2. CASE Skip(w, "create", "retry")
          BY <1>1, <2>2, SkipAndThrow DEF Writing
    <2> QED
        BY <1>4, <2>1, <2>2 DEF CreateProductRow
  <1>5. CASE CheckProductRow(w)
    <2>1. CASE Skip(w, "check", AfterWrite(w)) \/ Throw(w, "check")
          BY <1>1, <2>1, SkipAndThrow DEF Writing
    <2> QED
        BY <1>5, <2>1 DEF CheckProductRow
  <1> QED
      BY <1>3, <1>4, <1>5

\* The rating transaction, the end of a job and of a worker write no version.
LEMMA OtherSteps ==
  ASSUME CatalogueInv, NEW w \in Hands,
         LockRow(w) \/ Aggregate(w) \/ StoreRating(w) \/ Complete(w) \/ Die(w)
  PROVE  CatalogueInv' /\ UNCHANGED <<plog, catalog>>
  <1>1. Blank \in Copy
        BY DEF Blank, Copy
  <1>2. /\ at[w] # "idle" /\ job[w] \in Job /\ job[w].of \in Products
        /\ \E a \in AtStates \ Writing : at' = [at EXCEPT ![w] = a] /\ (a # "idle" => job' = job)
        /\ UNCHANGED <<sourceVars, catalog, cast>>
    <2>1. at[w] # "idle" => job[w] \in Job /\ job[w].of \in Products
          BY DEF CatalogueInv, JobsAreReal, Job
    <2>2. CASE LockRow(w)
          BY <2>1, <2>2 DEF LockRow, Move, AtStates, Writing, tableVars
    <2>3. CASE Aggregate(w)
          BY <2>1, <2>3 DEF Aggregate, Move, AtStates, Writing, tableVars
    <2>4. CASE StoreRating(w)
          BY <2>1, <2>4 DEF StoreRating, Move, AtStates, Writing
    <2>5. CASE Complete(w)
          BY <2>1, <2>5 DEF Complete, Move, AtStates, Writing, tableVars
    <2>6. CASE Die(w)
          BY <2>1, <2>6 DEF Die, AtStates, Writing
    <2> QED
        BY <2>2, <2>3, <2>4, <2>5, <2>6
  <1>3. /\ undone' \subseteq undone
        /\ job' = job \/ job' = [job EXCEPT ![w] = None]
        /\ \E c \in Copy : copy' = [copy EXCEPT ![w] = c]
    <2>1. copy \in [Hands -> Copy] /\ copy[w] \in Copy /\ reviews[job[w].of] \subseteq Customers
          BY <1>2 DEF CatalogueInv, CatalogueTypeOK
    <2>2. copy = [copy EXCEPT ![w] = copy[w]]
          BY <2>1
    <2>3. CASE LockRow(w)
      <3>1. copy' = [copy EXCEPT ![w] = [copy[w] EXCEPT !.found = (RowFor(w) # None)]]
            BY <2>3, <2>1 DEF LockRow, Found
      <3>2. [copy[w] EXCEPT !.found = (RowFor(w) # None)] \in Copy
            BY <2>1 DEF Copy
      <3> QED
          BY <2>3, <3>1, <3>2 DEF LockRow
    <2>4. CASE Aggregate(w)
      <3>1. copy' = [copy EXCEPT ![w] = [copy[w] EXCEPT !.rating = reviews[job[w].of]]]
            BY <2>4, <2>1 DEF Aggregate
      <3>2. [copy[w] EXCEPT !.rating = reviews[job[w].of]] \in Copy
            BY <2>1 DEF Copy
      <3> QED
          BY <2>4, <3>1, <3>2 DEF Aggregate
    <2>5. CASE StoreRating(w)
          BY <2>1, <2>2, <2>5 DEF StoreRating
    <2>6. CASE Complete(w)
          BY <1>1, <2>6 DEF Complete
    <2>7. CASE Die(w)
          BY <1>1, <2>7 DEF Die
    <2> QED
        BY <2>3, <2>4, <2>5, <2>6, <2>7
  <1>4. /\ rated' \in [Products -> SUBSET Customers] /\ suspect' \subseteq Products
        /\ lock' \in [Products -> Hands \cup {None}] /\ failures' \in Nat
    <2> USE DEF CatalogueInv, CatalogueTypeOK
    <2>1. CASE LockRow(w)
          BY <1>2, <2>1 DEF LockRow, Move, tableVars
    <2>2. CASE Aggregate(w)
          BY <2>2 DEF Aggregate, Move, tableVars
    <2>3. CASE StoreRating(w)
      <3>1. copy[w].rating \subseteq Customers
            BY DEF Copy
      <3> QED
          BY <1>2, <2>3, <3>1 DEF StoreRating, Move
    <2>4. CASE Complete(w)
          BY <2>4 DEF Complete, Move, tableVars
    <2>5. CASE Die(w)
      <3>1. suspect' \subseteq Products
            BY <1>2, <2>5 DEF Die
      <3>2. lock' \in [Products -> Hands \cup {None}] /\ failures' \in Nat /\ rated' = rated
            BY <2>5 DEF Die
      <3> QED
          BY <3>1, <3>2
    <2> QED
        BY <2>1, <2>2, <2>3, <2>4, <2>5
  <1>5. CatalogueTypeOK'
    <2>1. at' \in [Hands -> AtStates]
          BY <1>2 DEF CatalogueInv, CatalogueTypeOK
    <2>2. job' \in [Hands -> Job \cup {None}]
          BY <1>3 DEF CatalogueInv, CatalogueTypeOK
    <2>3. copy' \in [Hands -> Copy]
          BY <1>3 DEF CatalogueInv, CatalogueTypeOK
    <2>4. undone' \subseteq Job
          BY <1>3 DEF CatalogueInv, CatalogueTypeOK
    <2>5. /\ plog' \in [Products -> Seq(Slugs)]
          /\ reviews' \in [Products -> SUBSET Customers] /\ opinions' \in Nat
          /\ catalog' \in [Products -> CatalogRow \cup {None}] /\ cast' \in Casts
          BY <1>2 DEF CatalogueInv, CatalogueTypeOK, sourceVars
    <2> QED
        BY <1>4, <2>1, <2>2, <2>3, <2>4, <2>5 DEF CatalogueTypeOK
  <1>6. \A v \in Hands \ {w} : at'[v] = at[v] /\ job'[v] = job[v] /\ copy'[v] = copy[v]
        BY <1>2, <1>3 DEF CatalogueInv, CatalogueTypeOK
  <1>7. at'[w] \notin Writing /\ (at'[w] # "idle" => job'[w] \in Job)
        BY <1>2 DEF CatalogueInv, CatalogueTypeOK
  <1> QED
      BY <1>2, <1>3, <1>5, <1>6, <1>7, NothingWritten DEF sourceVars

\* A delivery that is taken, and a rebuild that begins.
LEMMA BeginSteps ==
  ASSUME CatalogueInv, NEW w \in Hands,
         (\E j \in undone : Deliver(w, j)) \/ (\E p \in Products : RebuildProduct(w, p))
  PROVE  CatalogueInv' /\ UNCHANGED <<plog, catalog>>
  <1>1. ASSUME NEW j \in undone, DeliverProduct(w, j)
        PROVE  CatalogueInv' /\ UNCHANGED <<plog, catalog>>
    <2>1. j \in Job /\ plog[j.of] # <<>> /\ Read(w, j)
          BY <1>1 DEF DeliverProduct, CatalogueInv, CatalogueTypeOK, JobsAreReal
    <2> QED
        BY <2>1, ReadIsGenuine
  <1>2. ASSUME NEW j \in undone, DeliverRating(w, j)
        PROVE  CatalogueInv' /\ UNCHANGED <<plog, catalog>>
    <2>1. /\ j \in Job
          /\ at' = [at EXCEPT ![w] = "lock"] /\ job' = [job EXCEPT ![w] = j]
          /\ UNCHANGED <<sourceVars, tableVars, undone, copy, lock, cast, failures>>
          BY <1>2 DEF DeliverRating, Move, CatalogueInv, CatalogueTypeOK
    <2>2. CatalogueTypeOK'
          BY <2>1 DEF CatalogueInv, CatalogueTypeOK, AtStates, sourceVars, tableVars
    <2>3. /\ at'[w] = "lock" /\ job'[w] = j
          /\ \A v \in Hands \ {w} : at'[v] = at[v] /\ job'[v] = job[v] /\ copy'[v] = copy[v]
          BY <2>1 DEF CatalogueInv, CatalogueTypeOK
    <2> QED
        BY <2>1, <2>2, <2>3, NothingWritten DEF Writing, sourceVars, tableVars
  <1>3. ASSUME NEW p \in Products, RebuildProduct(w, p)
        PROVE  CatalogueInv' /\ UNCHANGED <<plog, catalog>>
    <2>1. /\ [kind |-> "rebuild", of |-> p, n |-> 0] \in Job
          /\ plog[p] # <<>> /\ Read(w, [kind |-> "rebuild", of |-> p, n |-> 0])
          BY <1>3 DEF RebuildProduct, Job
    <2> QED
        BY <2>1, ReadIsGenuine
  <1> QED
      BY <1>1, <1>2, <1>3 DEF Deliver

-----------------------------------------------------------------------------
\* Every step keeps the invariant, and is a step of the read model or a stutter.
LEMMA CatalogueStep ==
  CatalogueInv /\ [CatalogueNext]_catalogueVars
    => CatalogueInv' /\ [CatalogReadModel!ReadModelNext]_<<plog, catalog>>
  <1> SUFFICES ASSUME CatalogueInv, [CatalogueNext]_catalogueVars
               PROVE  CatalogueInv' /\ [CatalogReadModel!ReadModelNext]_<<plog, catalog>>
      OBVIOUS
  <1>1. ASSUME NEW p \in Products, NEW s \in Slugs, CreateProduct(p, s) \/ UpdateProduct(p, s)
        PROVE  CatalogueInv' /\ [CatalogReadModel!ReadModelNext]_<<plog, catalog>>
        BY <1>1, ProductCommitted
        DEF CreateProduct, UpdateProduct, CatalogReadModel!ReadModelNext
  <1>2. ASSUME NEW u \in Customers, NEW p \in Products, CreateReview(u, p) \/ DeleteReview(u, p)
        PROVE  CatalogueInv' /\ UNCHANGED <<plog, catalog>>
    <2>1. reviews[p] \cup {u} \in SUBSET Customers /\ reviews[p] \ {u} \in SUBSET Customers
          BY DEF CatalogueInv, CatalogueTypeOK
    <2> QED
        BY <1>2, <2>1, ReviewsChanged DEF CreateReview, DeleteReview
  <1>3. ASSUME NEW w \in Hands, HandStep(w) \/ Die(w)
        PROVE  CatalogueInv' /\ [CatalogReadModel!ReadModelNext]_<<plog, catalog>>
        BY <1>3, RowSteps, OtherSteps DEF HandStep, CatalogReadModel!ReadModelNext
  <1>4. ASSUME NEW w \in Hands,
               (\E j \in undone : Deliver(w, j)) \/ (\E p \in Products : RebuildProduct(w, p))
        PROVE  CatalogueInv' /\ UNCHANGED <<plog, catalog>>
        BY <1>4, BeginSteps
  <1>5. CASE UNCHANGED catalogueVars
    <2>1. UNCHANGED <<plog, reviews, opinions, catalog, rated, suspect, undone, at, job, copy,
                      lock, cast, failures>>
          BY <1>5 DEF catalogueVars, sourceVars, tableVars
    <2>2. CatalogueTypeOK'
          BY <2>1 DEF CatalogueInv, CatalogueTypeOK
    <2> QED
        BY <2>1, <2>2
        DEF CatalogueInv, JobsAreReal, CopiesAreGenuine, RowsAreGenuine, Genuine
  <1> QED
      BY <1>1, <1>2, <1>3, <1>4, <1>5 DEF CatalogueNext

LEMMA CatalogueInvariant == CatalogueSpec => []CatalogueInv
  BY CatalogueInitInv, CatalogueStep, PTL DEF CatalogueSpec

\* Products, reviews, projection rows, deliveries and workers keep their types.
THEOREM CatalogueTypes == CatalogueSpec => []CatalogueTypeOK
  <1>1. CatalogueInv => CatalogueTypeOK
        BY DEF CatalogueInv
  <1> QED
      BY <1>1, CatalogueInvariant, PTL

\* Whichever handlers and rebuilds read a product earlier and write its row later, fail
\* on its slug or die, the row shows one version of the product and only moves to a
\* later one (writeProductCatalogProjection).
THEOREM CatalogueRefinesReadModel == CatalogueSpec => CatalogImplementsReadModel
  <1>1. CatalogueInit => CatalogReadModel!ReadModelInit
        BY DEF CatalogueInit, CatalogReadModel!ReadModelInit
  <1> QED
      BY <1>1, CatalogueInitInv, CatalogueStep, PTL
      DEF CatalogueSpec, CatalogImplementsReadModel, CatalogReadModel!ReadModelSpec

-----------------------------------------------------------------------------
(* Ratings.                                                                  *)

WorkersOn(j) == {w \in Hands : at[w] # "idle" /\ job[w] = j}

DueFor(p) == {j \in undone : j.kind = "rating" /\ j.of = p}

\* The worker will still count the reviews as they are, or has counted them. One that
\* found no row will leave the product suspect.
Refreshing(w) ==
  \/ at[w] \in {"lock", "aggregate"}
  \/ at[w] = "store" /\ (copy[w].found => copy[w].rating = reviews[job[w].of])

\* A delivery that will count the reviews as they are, if need be once more, and one
\* that nobody has come further with than waiting for the row.
Pending(p)   == \E j \in DueFor(p) : \A w \in WorkersOn(j) : Refreshing(w)
Untouched(p) == \E j \in DueFor(p) : \A w \in WorkersOn(j) : at[w] = "lock"

Repairing(p) ==
  \E w \in Hands :
    at[w] # "idle" /\ job[w].kind = "rebuild" /\ job[w].of = p /\ Refreshing(w)

\* The next change of reviews makes a delivery that there has not been.
RatingsAreNumbered ==
  /\ \A j \in undone : j.kind = "rating" => j.n < opinions
  /\ \A w \in Hands : at[w] # "idle" /\ job[w].kind = "rating" => job[w].n < opinions

RatingsWriteNoRow == \A w \in Hands : at[w] \in Writing => job[w].kind # "rating"

RowsAreLocked ==
  \A w \in Hands : at[w] \in {"aggregate", "store"} /\ copy[w].found =>
    lock[job[w].of] = w /\ catalog[job[w].of] # None

\* Reviews changed since a worker counted them have a delivery waiting for its lock.
StaleIsFollowed ==
  \A w \in Hands :
    at[w] = "store" /\ copy[w].found /\ copy[w].rating # reviews[job[w].of]
      => Untouched(job[w].of)

Settling ==
  \A p \in Products \ suspect : rated[p] # reviews[p] => Pending(p) \/ Repairing(p)

RatingInv ==
  /\ RatingsAreNumbered /\ RatingsWriteNoRow /\ RowsAreLocked
  /\ StaleIsFollowed /\ Settling

\* The job of a worker that is not idle names a product.
LEMMA JobsName ==
  ASSUME CatalogueInv, NEW w \in Hands, at[w] # "idle"
  PROVE  job[w] \in Job /\ job[w].of \in Products
  BY DEF CatalogueInv, JobsAreReal, Job

LEMMA RatingInitInv == CatalogueInit => RatingInv
  BY DEF CatalogueInit, RatingInv, RatingsAreNumbered, RatingsWriteNoRow, RowsAreLocked,
         StaleIsFollowed, Settling, Writing

\* A product changes, or nothing does.
LEMMA RatingsUntouched ==
  ASSUME RatingInv,
         UNCHANGED <<reviews, opinions, catalog, rated, suspect, at, job, copy, lock>>,
         undone \subseteq undone', \A j \in undone' \ undone : j.kind # "rating"
  PROVE  RatingInv'
  <1>1. \A p : DueFor(p)' = DueFor(p)
        BY DEF DueFor
  <1>2. \A p : /\ Pending(p)' <=> Pending(p)
               /\ Untouched(p)' <=> Untouched(p)
               /\ Repairing(p)' <=> Repairing(p)
        BY <1>1 DEF Pending, Untouched, Repairing, WorkersOn, Refreshing
  <1> QED
      BY <1>2 DEF RatingInv, RatingsAreNumbered, RatingsWriteNoRow, RowsAreLocked,
                  StaleIsFollowed, Settling

\* New reviews announce themselves by a delivery that nobody works on.
LEMMA ReviewsFollowed ==
  ASSUME CatalogueInv, RatingInv, NEW p \in Products, NEW who, SetReviews(p, who)
  PROVE  RatingInv'
  <1> DEFINE new == [kind |-> "rating", of |-> p, n |-> opinions]
  <1>1. /\ opinions' = opinions + 1 /\ opinions \in Nat
        /\ reviews' = [reviews EXCEPT ![p] = who]
        /\ undone' = undone \cup {new}
        /\ UNCHANGED <<plog, catalog, rated, suspect, at, job, copy, lock>>
        BY DEF SetReviews, Announce, tableVars, CatalogueInv, CatalogueTypeOK
  <1>2. /\ \A j \in undone : j.n \in Nat
        /\ \A w \in Hands : at[w] # "idle" => job[w].n \in Nat
        BY JobsName DEF CatalogueInv, CatalogueTypeOK, Job
  <1>3. /\ new.kind = "rating" /\ new.of = p /\ new.n = opinions
        /\ \A w \in Hands : ~(at[w] # "idle" /\ job[w] = new)
        BY <1>1 DEF RatingInv, RatingsAreNumbered
  <1>4. \A q \in Products \ {p} : reviews'[q] = reviews[q]
        BY <1>1 DEF CatalogueInv, CatalogueTypeOK
  <1> HIDE DEF new
  <1>5. Untouched(p)' /\ Pending(p)'
        BY <1>1, <1>3 DEF Untouched, Pending, DueFor, WorkersOn
  <1>6. ASSUME NEW q \in Products \ {p}
        PROVE  /\ Untouched(q) => Untouched(q)'
               /\ Pending(q) => Pending(q)'
               /\ Repairing(q) => Repairing(q)'
    <2>1. DueFor(q) \subseteq DueFor(q)' /\ \A j \in DueFor(q) : WorkersOn(j)' = WorkersOn(j)
          BY <1>1 DEF DueFor, WorkersOn
    <2>2. \A w \in Hands : job[w].of = q => (Refreshing(w)' <=> Refreshing(w))
          BY <1>1, <1>4 DEF Refreshing
    <2>3. \A j \in DueFor(q) : \A w \in WorkersOn(j) : job[w].of = q
          BY DEF DueFor, WorkersOn
    <2>4. Untouched(q) => Untouched(q)'
          BY <1>1, <2>1 DEF Untouched
    <2>5. Pending(q) => Pending(q)'
          BY <2>1, <2>2, <2>3 DEF Pending, WorkersOn
    <2>6. Repairing(q) => Repairing(q)'
          BY <1>1, <2>2 DEF Repairing
    <2> QED
        BY <2>4, <2>5, <2>6
  <1>7. RatingsAreNumbered'
        BY <1>1, <1>2, <1>3 DEF RatingInv, RatingsAreNumbered
  <1>8. RatingsWriteNoRow' /\ RowsAreLocked'
        BY <1>1 DEF RatingInv, RatingsWriteNoRow, RowsAreLocked
  <1>9. StaleIsFollowed'
    <2> SUFFICES ASSUME NEW w \in Hands, at[w] = "store", copy[w].found,
                        copy[w].rating # reviews'[job[w].of]
                 PROVE  Untouched(job[w].of)'
        BY <1>1 DEF StaleIsFollowed
    <2>1. job[w].of \in Products /\ job'[w].of = job[w].of
          BY <1>1, JobsName
    <2>2. ASSUME NEW q \in Products, q = job[w].of
          PROVE  Untouched(q)'
      <3>1. CASE q = p
            BY <1>5, <3>1
      <3>2. CASE q # p
            BY <1>4, <1>6, <2>2, <3>2 DEF RatingInv, StaleIsFollowed
      <3> QED
          BY <3>1, <3>2
    <2> QED
        BY <2>1, <2>2
  <1>10. Settling'
         BY <1>1, <1>4, <1>5, <1>6 DEF RatingInv, Settling
  <1> QED
      BY <1>7, <1>8, <1>9, <1>10 DEF RatingInv

\* A worker begins, or goes on with a row: no rating is counted. A rebuild that puts
\* an old rating into the row will refresh it.
LEMMA NothingCounted ==
  ASSUME CatalogueInv, RatingInv, NEW w \in Hands,
         at[w] \in Writing \cup {"idle"}, at'[w] \in Writing \cup {"idle", "lock", "done"},
         \A v \in Hands \ {w} : at'[v] = at[v] /\ job'[v] = job[v] /\ copy'[v] = copy[v],
         at'[w] # "idle" /\ job'[w].kind = "rating" =>
           at'[w] = "lock" /\ job'[w].n < opinions,
         UNCHANGED <<reviews, opinions, suspect, undone, lock>>,
         \A p \in Products : catalog[p] # None => catalog'[p] # None,
         \A p \in Products : rated'[p] # rated[p] =>
           at'[w] = "lock" /\ job'[w].kind = "rebuild" /\ job'[w].of = p
  PROVE  RatingInv'
  <1>1. /\ ~Refreshing(w) /\ at[w] \notin {"lock", "aggregate", "store", "done"}
        /\ at'[w] \notin {"aggregate", "store"}
        /\ at[w] # "idle" => job[w].kind # "rating"
        BY DEF Refreshing, Writing, RatingInv, RatingsWriteNoRow
  <1>2. \A v \in Hands \ {w} : Refreshing(v)' <=> Refreshing(v)
        BY DEF Refreshing
  <1>3. \A p : DueFor(p)' = DueFor(p)
        BY DEF DueFor
  <1>4. ASSUME NEW p, NEW j \in DueFor(p), NEW v \in WorkersOn(j)'
        PROVE  (v \in WorkersOn(j) /\ v # w) \/ (v = w /\ at'[w] = "lock")
        BY <1>4 DEF DueFor, WorkersOn
  <1>5. ASSUME NEW p, Untouched(p)
        PROVE  Untouched(p)'
        BY <1>3, <1>4, <1>5 DEF Untouched, WorkersOn
  <1>6. ASSUME NEW p, Pending(p)
        PROVE  Pending(p)'
        BY <1>2, <1>3, <1>4, <1>6 DEF Pending, Refreshing, WorkersOn
  <1>7. ASSUME NEW p, Repairing(p)
        PROVE  Repairing(p)'
        BY <1>1, <1>2, <1>7 DEF Repairing
  <1>8. RatingsAreNumbered' /\ RatingsWriteNoRow'
    <2>1. RatingsAreNumbered'
          BY DEF RatingInv, RatingsAreNumbered
    <2>2. RatingsWriteNoRow'
          BY DEF RatingInv, RatingsWriteNoRow, Writing
    <2> QED
        BY <2>1, <2>2
  <1>9. RowsAreLocked'
    <2>1. \A v \in Hands : at[v] # "idle" => job[v].of \in Products
          BY JobsName
    <2> QED
        BY <1>1, <2>1 DEF RatingInv, RowsAreLocked
  <1>10. StaleIsFollowed'
         BY <1>1, <1>5 DEF RatingInv, StaleIsFollowed
  <1>11. Settling'
    <2> SUFFICES ASSUME NEW p \in Products \ suspect, rated'[p] # reviews[p]
                 PROVE  Pending(p)' \/ Repairing(p)'
        BY DEF Settling
    <2>1. CASE rated'[p] = rated[p]
          BY <1>6, <1>7, <2>1 DEF RatingInv, Settling
    <2>2. CASE rated'[p] # rated[p]
          BY <2>2 DEF Repairing, Refreshing
    <2> QED
        BY <2>1, <2>2
  <1> QED
      BY <1>8, <1>9, <1>10, <1>11 DEF RatingInv

\* The lock is taken with no other worker past it; what is counted under it is up to date.
LEMMA CountingFollowed ==
  ASSUME CatalogueInv, RatingInv, NEW w \in Hands, LockRow(w) \/ Aggregate(w)
  PROVE  RatingInv'
  <1> DEFINE p == job[w].of
  <1>1. /\ at[w] \in {"lock", "aggregate"} /\ at'[w] \in {"aggregate", "store"}
        /\ p \in Products
        /\ \A v \in Hands \ {w} : at'[v] = at[v] /\ copy'[v] = copy[v]
        /\ \A q \in Products \ {p} : lock'[q] = lock[q]
        /\ UNCHANGED <<reviews, opinions, catalog, rated, suspect, undone, job>>
    <2>1. at[w] # "idle"
          BY DEF LockRow, Aggregate, Move
    <2> QED
        BY <2>1, JobsName
        DEF LockRow, Aggregate, Move, Found, tableVars, sourceVars, CatalogueInv,
            CatalogueTypeOK
  <1>2. Refreshing(w) /\ Refreshing(w)'
    <2>1. copy[w] \in Copy
          BY DEF CatalogueInv, CatalogueTypeOK
    <2>2. Aggregate(w) => copy'[w].rating = reviews[p]
          BY <2>1 DEF Aggregate, CatalogueInv, CatalogueTypeOK, Copy
    <2>3. LockRow(w) => at'[w] = "aggregate"
          BY DEF LockRow, Move, CatalogueInv, CatalogueTypeOK
    <2> QED
        BY <1>1, <2>2, <2>3 DEF Refreshing
  <1>3. ASSUME NEW v \in Hands \ {w}
        PROVE  Refreshing(v)' <=> Refreshing(v)
        BY <1>1 DEF Refreshing
  <1>4. \A q : DueFor(q)' = DueFor(q) /\ \A j : WorkersOn(j)' = WorkersOn(j)
    <2>1. \A v \in Hands : at'[v] # "idle" <=> at[v] # "idle"
          BY <1>1
    <2> QED
        BY <1>1, <2>1 DEF DueFor, WorkersOn
  <1>5. ASSUME NEW v \in Hands \ {w}, at[v] \in {"aggregate", "store"}, copy[v].found,
               job[v].of = p
        PROVE  ~LockRow(w) /\ lock' = lock /\ lock[p] = v
    <2>1. lock[p] = v /\ v # None
          BY <1>5, NoneAssumption DEF RatingInv, RowsAreLocked
    <2>2. ~LockRow(w)
          BY <2>1 DEF LockRow, Unlocked
    <2> QED
        BY <2>1, <2>2 DEF Aggregate
  <1>6. RatingsAreNumbered' /\ RatingsWriteNoRow'
    <2>1. RatingsAreNumbered'
          BY <1>1 DEF RatingInv, RatingsAreNumbered
    <2>2. RatingsWriteNoRow'
          BY <1>1 DEF RatingInv, RatingsWriteNoRow, Writing
    <2> QED
        BY <2>1, <2>2
  <1>7. RowsAreLocked'
    <2> SUFFICES ASSUME NEW v \in Hands, at'[v] \in {"aggregate", "store"}, copy'[v].found
                 PROVE  lock'[job[v].of] = v /\ catalog[job[v].of] # None
        BY <1>1 DEF RowsAreLocked
    <2>1. CASE v # w
      <3>1. lock[job[v].of] = v /\ catalog[job[v].of] # None /\ job[v].of \in Products
            BY <1>1, <2>1, JobsName DEF RatingInv, RowsAreLocked
      <3> QED
          BY <1>1, <1>5, <2>1, <3>1
    <2>2. CASE v = w /\ LockRow(w)
      <3>1. copy'[w].found = (catalog[p] # None)
            BY <2>2 DEF LockRow, Found, RowFor, CatalogueInv, CatalogueTypeOK, Copy
      <3>2. catalog[p] # None => lock' = [lock EXCEPT ![p] = w]
            BY <2>2 DEF LockRow, RowFor
      <3> QED
          BY <1>1, <2>2, <3>1, <3>2 DEF CatalogueInv, CatalogueTypeOK
    <2>3. CASE v = w /\ Aggregate(w)
      <3>1. copy'[w].found = copy[w].found
            BY <2>3 DEF Aggregate, CatalogueInv, CatalogueTypeOK, Copy
      <3>2. at[w] = "aggregate" /\ lock' = lock
            BY <2>3 DEF Aggregate, Move
      <3> QED
          BY <2>3, <3>1, <3>2 DEF RatingInv, RowsAreLocked
    <2> QED
        BY <2>1, <2>2, <2>3
  <1>8. StaleIsFollowed'
    <2> SUFFICES ASSUME NEW v \in Hands, at'[v] = "store", copy'[v].found,
                        copy'[v].rating # reviews[job[v].of]
                 PROVE  Untouched(job[v].of)'
        BY <1>1 DEF StaleIsFollowed
    <2>1. v # w
          BY <1>1, <1>2 DEF Refreshing
    <2>2. at[v] = "store" /\ copy[v].found /\ Untouched(job[v].of)
          BY <1>1, <2>1 DEF RatingInv, StaleIsFollowed
    <2>3. PICK j \in DueFor(job[v].of) : \A u \in WorkersOn(j) : at[u] = "lock"
          BY <2>2 DEF Untouched
    <2>4. w \notin WorkersOn(j)
      <3>1. ASSUME w \in WorkersOn(j)
            PROVE  FALSE
        <4>1. at[w] = "lock" /\ p = job[v].of /\ LockRow(w)
              BY <2>3, <3>1 DEF WorkersOn, DueFor, Aggregate, Move
        <4> QED
            BY <1>5, <2>1, <2>2, <4>1
      <3> QED
          BY <3>1
    <2>5. j \in DueFor(job[v].of)' /\ \A u \in WorkersOn(j)' : at'[u] = "lock"
          BY <1>1, <1>4, <2>3, <2>4 DEF WorkersOn
    <2> QED
        BY <1>1, <2>5 DEF Untouched
  <1>9. Settling'
    <2>1. ASSUME NEW q, Pending(q)
          PROVE  Pending(q)'
          BY <1>2, <1>3, <1>4, <2>1 DEF Pending, WorkersOn
    <2>2. ASSUME NEW q, Repairing(q)
          PROVE  Repairing(q)'
          BY <1>1, <1>2, <1>3, <2>2 DEF Repairing
    <2> QED
        BY <1>1, <2>1, <2>2 DEF RatingInv, Settling
  <1> QED
      BY <1>6, <1>7, <1>8, <1>9 DEF RatingInv

\* The rating that is stored is up to date, or has a delivery waiting behind the lock;
\* or the product becomes suspect.
LEMMA StoreFollowed ==
  ASSUME CatalogueInv, RatingInv, NEW w \in Hands, StoreRating(w)
  PROVE  RatingInv'
  <1> DEFINE p == job[w].of
  <1>1. /\ at[w] = "store" /\ at'[w] = "done" /\ p \in Products
        /\ lock[p] \in {None, w}
        /\ \A v \in Hands \ {w} : at'[v] = at[v]
        /\ \A q \in Products \ {p} : lock'[q] = lock[q] /\ rated'[q] = rated[q]
                                       /\ (q \in suspect' <=> q \in suspect)
        /\ UNCHANGED <<reviews, opinions, catalog, undone, job, copy>>
    <2>1. at[w] = "store"
          BY DEF StoreRating, Move
    <2> QED
        BY <2>1, JobsName
        DEF StoreRating, Move, Unlocked, sourceVars, CatalogueInv, CatalogueTypeOK
  <1>2. ASSUME NEW v \in Hands \ {w}, at[v] \in {"aggregate", "store"}, copy[v].found
        PROVE  job[v].of # p
        BY <1>1, <1>2, NoneAssumption DEF RatingInv, RowsAreLocked
  <1>3. ASSUME NEW v \in Hands \ {w}
        PROVE  Refreshing(v)' <=> Refreshing(v)
        BY <1>1 DEF Refreshing
  <1>4. \A q : DueFor(q)' = DueFor(q) /\ \A j : WorkersOn(j)' = WorkersOn(j)
    <2>1. \A v \in Hands : at'[v] # "idle" <=> at[v] # "idle"
          BY <1>1
    <2> QED
        BY <1>1, <2>1 DEF DueFor, WorkersOn
  <1>5. ASSUME NEW q, Untouched(q)
        PROVE  Untouched(q)' /\ Pending(q)'
    <2>1. PICK j \in DueFor(q) : \A u \in WorkersOn(j) : at[u] = "lock"
          BY <1>5 DEF Untouched
    <2>2. \A u \in WorkersOn(j)' : at'[u] = "lock"
          BY <1>1, <1>4, <2>1 DEF WorkersOn
    <2> QED
        BY <1>4, <2>1, <2>2 DEF Untouched, Pending, Refreshing
  <1>6. RatingsAreNumbered' /\ RatingsWriteNoRow'
    <2>1. RatingsAreNumbered'
          BY <1>1 DEF RatingInv, RatingsAreNumbered
    <2>2. RatingsWriteNoRow'
          BY <1>1 DEF RatingInv, RatingsWriteNoRow, Writing
    <2> QED
        BY <2>1, <2>2
  <1>7. RowsAreLocked'
    <2> SUFFICES ASSUME NEW v \in Hands, at'[v] \in {"aggregate", "store"}, copy[v].found
                 PROVE  lock'[job[v].of] = v /\ catalog[job[v].of] # None
        BY <1>1 DEF RowsAreLocked
    <2>1. v # w /\ at[v] = at'[v] /\ job[v].of \in Products
          BY <1>1, JobsName
    <2> QED
        BY <1>1, <1>2, <2>1 DEF RatingInv, RowsAreLocked
  <1>8. StaleIsFollowed'
        BY <1>1, <1>5 DEF RatingInv, StaleIsFollowed
  <1>9. Settling'
    <2> SUFFICES ASSUME NEW q \in Products \ suspect', rated'[q] # reviews[q]
                 PROVE  Pending(q)' \/ Repairing(q)'
        BY <1>1 DEF Settling
    <2>1. CASE q = p
      <3>1. copy[w].found
            BY <2>1 DEF StoreRating
      <3>2. rated' = [rated EXCEPT ![p] = copy[w].rating]
            BY <1>1, <3>1 DEF StoreRating, RowFor, RatingInv, RowsAreLocked
      <3>3. copy[w].rating # reviews[p]
            BY <1>1, <2>1, <3>2 DEF CatalogueInv, CatalogueTypeOK
      <3>4. Untouched(p)
            BY <1>1, <3>1, <3>3 DEF RatingInv, StaleIsFollowed
      <3> QED
          BY <1>5, <2>1, <3>4
    <2>2. CASE q # p
      <3>1. q \in Products \ suspect /\ rated[q] # reviews[q]
            BY <1>1, <2>2
      <3>2. CASE Pending(q)
        <4>1. PICK j \in DueFor(q) : \A u \in WorkersOn(j) : Refreshing(u)
              BY <3>2 DEF Pending
        <4>2. w \notin WorkersOn(j)
              BY <2>2, <4>1 DEF WorkersOn, DueFor
        <4>3. \A u \in WorkersOn(j)' : Refreshing(u)'
              BY <1>3, <1>4, <4>1, <4>2 DEF WorkersOn
        <4> QED
            BY <1>4, <4>1, <4>3 DEF Pending
      <3>3. CASE Repairing(q)
        <4>1. PICK v \in Hands : /\ at[v] # "idle" /\ job[v].kind = "rebuild"
                                 /\ job[v].of = q /\ Refreshing(v)
              BY <3>3 DEF Repairing
        <4>2. v # w
              BY <2>2, <4>1
        <4> QED
            BY <1>1, <1>3, <4>1, <4>2 DEF Repairing
      <3> QED
          BY <3>1, <3>2, <3>3 DEF RatingInv, Settling
    <2> QED
        BY <2>1, <2>2
  <1> QED
      BY <1>6, <1>7, <1>8, <1>9 DEF RatingInv

\* A delivery that is tracked as done is not the one that others wait for; one whose
\* worker dies stays due, and a rebuild that dies leaves its product suspect.
LEMMA EndFollowed ==
  ASSUME CatalogueInv, RatingInv, NEW w \in Hands, Complete(w) \/ Die(w)
  PROVE  RatingInv'
  <1>1. /\ at[w] # "idle" /\ at'[w] = "idle"
        /\ \A v \in Hands \ {w} : at'[v] = at[v] /\ job'[v] = job[v] /\ copy'[v] = copy[v]
        /\ \A q \in Products : lock[q] # w => lock'[q] = lock[q]
        /\ undone' \subseteq undone
        /\ \A j \in undone \ undone' : at[w] = "done" /\ job[w] = j
        /\ suspect \subseteq suspect'
        /\ UNCHANGED <<reviews, opinions, catalog, rated>>
        BY DEF Complete, Die, Move, sourceVars, tableVars, CatalogueInv, CatalogueTypeOK
  <1>2. ASSUME NEW v \in Hands \ {w}
        PROVE  Refreshing(v)' <=> Refreshing(v)
        BY <1>1 DEF Refreshing
  <1>3. ASSUME NEW q, NEW j \in DueFor(q), w \in WorkersOn(j) => at[w] # "done"
        PROVE  j \in DueFor(q)'
        BY <1>1, <1>3 DEF DueFor, WorkersOn
  <1>4. \A j : WorkersOn(j)' \subseteq WorkersOn(j) \ {w}
        BY <1>1 DEF WorkersOn
  <1>5. ASSUME NEW q, Untouched(q)
        PROVE  Untouched(q)'
    <2>1. PICK j \in DueFor(q) : \A u \in WorkersOn(j) : at[u] = "lock"
          BY <1>5 DEF Untouched
    <2>2. j \in DueFor(q)'
          BY <1>3, <2>1
    <2>3. \A u \in WorkersOn(j)' : at'[u] = "lock"
          BY <1>1, <1>4, <2>1 DEF WorkersOn
    <2> QED
        BY <2>2, <2>3 DEF Untouched
  <1>6. RatingsAreNumbered' /\ RatingsWriteNoRow'
    <2>1. RatingsAreNumbered'
          BY <1>1 DEF RatingInv, RatingsAreNumbered
    <2>2. RatingsWriteNoRow'
          BY <1>1 DEF RatingInv, RatingsWriteNoRow, Writing
    <2> QED
        BY <2>1, <2>2
  <1>7. RowsAreLocked'
    <2> SUFFICES ASSUME NEW v \in Hands \ {w}, at[v] \in {"aggregate", "store"},
                        copy[v].found
                 PROVE  lock'[job[v].of] = v /\ catalog[job[v].of] # None
        BY <1>1 DEF RowsAreLocked
    <2>1. job[v].of \in Products
          BY JobsName
    <2> QED
        BY <1>1, <2>1 DEF RatingInv, RowsAreLocked
  <1>8. StaleIsFollowed'
    <2> SUFFICES ASSUME NEW v \in Hands \ {w}, at[v] = "store", copy[v].found,
                        copy[v].rating # reviews[job[v].of]
                 PROVE  Untouched(job[v].of)'
        BY <1>1 DEF StaleIsFollowed
    <2>1. ASSUME NEW q, q = job[v].of
          PROVE  Untouched(q)'
          BY <1>5, <2>1 DEF RatingInv, StaleIsFollowed
    <2>2. job'[v].of = job[v].of
          BY <1>1
    <2> QED
        BY <2>1, <2>2
  <1>9. Settling'
    <2> SUFFICES ASSUME NEW q \in Products \ suspect', rated[q] # reviews[q]
                 PROVE  Pending(q)' \/ Repairing(q)'
        BY <1>1 DEF Settling
    <2>1. CASE Pending(q)
      <3>1. PICK j \in DueFor(q) : \A u \in WorkersOn(j) : Refreshing(u)
            BY <2>1 DEF Pending
      <3>2. j \in DueFor(q)'
            BY <1>3, <3>1 DEF Refreshing
      <3>3. \A u \in WorkersOn(j)' : Refreshing(u)'
            BY <1>2, <1>4, <3>1 DEF WorkersOn
      <3> QED
          BY <3>2, <3>3 DEF Pending
    <2>2. CASE Repairing(q)
      <3>1. PICK v \in Hands : /\ at[v] # "idle" /\ job[v].kind = "rebuild"
                               /\ job[v].of = q /\ Refreshing(v)
            BY <2>2 DEF Repairing
      <3>2. v # w
        <4>1. Refreshing(w) => at[w] \in {"lock", "aggregate", "store"}
              BY DEF Refreshing
        <4> QED
            BY <3>1, <4>1 DEF Complete, Die, Move
      <3> QED
          BY <1>1, <1>2, <3>1, <3>2 DEF Repairing
    <2> QED
        BY <1>1, <2>1, <2>2 DEF RatingInv, Settling
  <1> QED
      BY <1>6, <1>7, <1>8, <1>9 DEF RatingInv

\* The statements on the row, up to the rating.
LEMMA RowStepsFollowed ==
  ASSUME CatalogueInv, RatingInv, NEW w \in Hands,
         \/ UpdateProductRow(w) \/ CreateProductRow(w)
         \/ RetryProductRow(w) \/ CheckProductRow(w)
  PROVE  RatingInv'
  <1>1. ASSUME NEW from \in Writing, NEW to \in Writing \cup {AfterWrite(w)}, Skip(w, from, to)
        PROVE  RatingInv'
    <2>1. /\ at[w] = from /\ at' = [at EXCEPT ![w] = to]
          /\ UNCHANGED <<reviews, opinions, catalog, rated, suspect, undone, job, copy, lock>>
          BY <1>1 DEF Skip, Move, sourceVars, tableVars
    <2>2. /\ at'[w] = to /\ to \in Writing \cup {"lock", "done"}
          /\ \A v \in Hands \ {w} : at'[v] = at[v] /\ job'[v] = job[v] /\ copy'[v] = copy[v]
          BY <2>1 DEF CatalogueInv, CatalogueTypeOK, AfterWrite
    <2>3. job[w].kind # "rating"
          BY <2>1 DEF RatingInv, RatingsWriteNoRow
    <2> QED
        BY <2>1, <2>2, <2>3, NothingCounted
  <1>2. ASSUME NEW from \in Writing, Throw(w, from)
        PROVE  RatingInv'
    <2>1. /\ at[w] = from /\ at' = [at EXCEPT ![w] = "idle"]
          /\ job' = [job EXCEPT ![w] = None] /\ copy' = [copy EXCEPT ![w] = Blank]
          /\ UNCHANGED <<reviews, opinions, catalog, rated, suspect, undone, lock>>
          BY <1>2 DEF Throw, Move, sourceVars, tableVars
    <2>2. /\ at'[w] = "idle"
          /\ \A v \in Hands \ {w} : at'[v] = at[v] /\ job'[v] = job[v] /\ copy'[v] = copy[v]
          BY <2>1 DEF CatalogueInv, CatalogueTypeOK
    <2> QED
        BY <2>1, <2>2, NothingCounted
  <1>3. ASSUME NEW from \in Writing, Write(w, from)
        PROVE  RatingInv'
    <2>1. /\ at[w] = from /\ at' = [at EXCEPT ![w] = AfterWrite(w)]
          /\ catalog' = [catalog EXCEPT ![job[w].of] = copy[w].row]
          /\ rated' = [rated EXCEPT ![job[w].of] =
                         IF job[w].kind = "rebuild" THEN copy[w].rating ELSE @]
          /\ UNCHANGED <<reviews, opinions, suspect, undone, job, copy, lock>>
          BY <1>3 DEF Write, Move, sourceVars
    <2>2. /\ at'[w] = AfterWrite(w)
          /\ \A v \in Hands \ {w} : at'[v] = at[v] /\ job'[v] = job[v] /\ copy'[v] = copy[v]
          BY <2>1 DEF CatalogueInv, CatalogueTypeOK
    <2>3. /\ AfterWrite(w) \in {"lock", "done"} /\ job[w].kind # "rating"
          /\ job[w].kind = "rebuild" => AfterWrite(w) = "lock"
          BY <2>1 DEF AfterWrite, RatingInv, RatingsWriteNoRow
    <2>4. copy[w].row # None
          BY <2>1, NoneAssumption DEF CatalogueInv, CopiesAreGenuine, Genuine
    <2>5. \A p \in Products : catalog[p] # None => catalog'[p] # None
          BY <2>1, <2>4 DEF CatalogueInv, CatalogueTypeOK
    <2>6. \A p \in Products : rated'[p] # rated[p] => job[w].kind = "rebuild" /\ job[w].of = p
          BY <2>1 DEF CatalogueInv, CatalogueTypeOK
    <2> QED
        BY <2>1, <2>2, <2>3, <2>5, <2>6, NothingCounted
  <1>4. {"update", "create", "retry", "check"} \subseteq Writing
        BY DEF Writing
  <1>5. CASE UpdateProductRow(w) \/ RetryProductRow(w)
        BY <1>1, <1>2, <1>3, <1>4, <1>5 DEF UpdateProductRow, RetryProductRow, Overwrite
  <1>6. CASE CreateProductRow(w)
        BY <1>1, <1>3, <1>4, <1>6 DEF CreateProductRow
  <1>7. CASE CheckProductRow(w)
        BY <1>1, <1>2, <1>4, <1>7 DEF CheckProductRow
  <1> QED
      BY <1>5, <1>6, <1>7

\* A delivery or a rebuild begins.
LEMMA BeginFollowed ==
  ASSUME CatalogueInv, RatingInv, NEW w \in Hands,
         (\E j \in undone : Deliver(w, j)) \/ (\E p \in Products : RebuildProduct(w, p))
  PROVE  RatingInv'
  <1>1. ASSUME NEW j, j.kind # "rating", Read(w, j)
        PROVE  RatingInv'
    <2>1. /\ at[w] = "idle" /\ at' = [at EXCEPT ![w] = "update"]
          /\ job' = [job EXCEPT ![w] = j] /\ \E c : copy' = [copy EXCEPT ![w] = c]
          /\ UNCHANGED <<reviews, opinions, catalog, rated, suspect, undone, lock>>
          BY <1>1 DEF Read, Move, sourceVars, tableVars
    <2>2. /\ at'[w] = "update" /\ job'[w] = j
          /\ \A v \in Hands \ {w} : at'[v] = at[v] /\ job'[v] = job[v] /\ copy'[v] = copy[v]
          BY <2>1 DEF CatalogueInv, CatalogueTypeOK
    <2> QED
        BY <1>1, <2>1, <2>2, NothingCounted DEF Writing
  <1>2. ASSUME NEW j \in undone, DeliverRating(w, j)
        PROVE  RatingInv'
    <2>1. /\ at[w] = "idle" /\ at' = [at EXCEPT ![w] = "lock"]
          /\ job' = [job EXCEPT ![w] = j] /\ j.kind = "rating"
          /\ UNCHANGED <<reviews, opinions, catalog, rated, suspect, undone, copy, lock>>
          BY <1>2 DEF DeliverRating, Move, sourceVars, tableVars
    <2>2. /\ at'[w] = "lock" /\ job'[w] = j /\ j.n < opinions
          /\ \A v \in Hands \ {w} : at'[v] = at[v] /\ job'[v] = job[v] /\ copy'[v] = copy[v]
          BY <2>1 DEF CatalogueInv, CatalogueTypeOK, RatingInv, RatingsAreNumbered
    <2> QED
        BY <2>1, <2>2, NothingCounted
  <1>3. ASSUME NEW j \in undone, DeliverProduct(w, j)
        PROVE  RatingInv'
        BY <1>1, <1>3 DEF DeliverProduct
  <1>4. ASSUME NEW p \in Products, RebuildProduct(w, p)
        PROVE  RatingInv'
        BY <1>1, <1>4 DEF RebuildProduct
  <1> QED
      BY <1>2, <1>3, <1>4 DEF Deliver

LEMMA RatingStep == CatalogueInv /\ RatingInv /\ [CatalogueNext]_catalogueVars => RatingInv'
  <1> SUFFICES ASSUME CatalogueInv, RatingInv, [CatalogueNext]_catalogueVars
               PROVE  RatingInv'
      OBVIOUS
  <1>1. ASSUME NEW p \in Products, NEW s \in Slugs, CreateProduct(p, s) \/ UpdateProduct(p, s)
        PROVE  RatingInv'
    <2>1. /\ undone' = undone \cup {[kind |-> "product", of |-> p, n |-> Len(plog[p])]}
          /\ UNCHANGED <<reviews, opinions, catalog, rated, suspect, at, job, copy, lock>>
          BY <1>1 DEF CreateProduct, UpdateProduct, SetProduct, Announce, tableVars
    <2> QED
        BY <2>1, RatingsUntouched
  <1>2. ASSUME NEW u \in Customers, NEW p \in Products, CreateReview(u, p) \/ DeleteReview(u, p)
        PROVE  RatingInv'
        BY <1>2, ReviewsFollowed DEF CreateReview, DeleteReview
  <1>3. ASSUME NEW w \in Hands, HandStep(w) \/ Die(w)
        PROVE  RatingInv'
        BY <1>3, RowStepsFollowed, CountingFollowed, StoreFollowed, EndFollowed DEF HandStep
  <1>4. ASSUME NEW w \in Hands,
               (\E j \in undone : Deliver(w, j)) \/ (\E p \in Products : RebuildProduct(w, p))
        PROVE  RatingInv'
        BY <1>4, BeginFollowed
  <1>5. CASE UNCHANGED catalogueVars
        BY <1>5, RatingsUntouched DEF catalogueVars, sourceVars, tableVars
  <1> QED
      BY <1>1, <1>2, <1>3, <1>4, <1>5 DEF CatalogueNext

\* Reviews are counted under the row's lock, and every change of them is followed by a
\* delivery: once these are done, a row that is not suspect shows the reviews there are
\* (refreshProductRatingProjection).
THEOREM RatingsSettle == CatalogueSpec => []RatingSettles
  <1>1. ASSUME CatalogueInv, RatingInv
        PROVE  RatingSettles
    <2> SUFFICES ASSUME NEW p \in Products \ suspect,
                        \A j \in undone : j.kind = "product" \/ j.of # p,
                        \A w \in Hands : job[w] # None => job[w].of # p
                 PROVE  rated[p] = reviews[p]
        BY DEF RatingSettles
    <2>1. ~Pending(p)
          BY DEF Pending, DueFor
    <2>2. ASSUME NEW w \in Hands, at[w] # "idle"
          PROVE  job[w].of # p
          BY <1>1, <2>2, JobsName, NoneAssumption
    <2>3. ~Repairing(p)
          BY <2>2 DEF Repairing
    <2> QED
        BY <1>1, <2>1, <2>3 DEF RatingInv, Settling
  <1> QED
      BY <1>1, CatalogueInitInv, CatalogueStep, RatingInitInv, RatingStep, PTL DEF CatalogueSpec
=============================================================================
