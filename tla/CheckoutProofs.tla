---------------------------- MODULE CheckoutProofs ----------------------------
(***************************************************************************)
(* Proofs about Checkout for every set of requests, customers and products *)
(* and every limit: types, one order per key, the discount limit, stock    *)
(* that is never oversold nor lost, announced versions, the price charged. *)
(***************************************************************************)
EXTENDS Checkout, FiniteSetTheorems, TLAPS

-----------------------------------------------------------------------------
(* Sums.  SumFunction folds a function over its domain: what a sum is follows   *)
(* from the sums of smaller sets, by a least counterexample to the claim.     *)

\* Induction over the natural numbers, for a set instead of a predicate.
LEMMA Induction ==
  ASSUME NEW N, 0 \in N, \A n \in Nat : n \in N => n + 1 \in N
  PROVE  Nat \subseteq N
  <1> SUFFICES ASSUME Nat \ N # {}
               PROVE  FALSE
    OBVIOUS
  <1>1. PICK n \in Nat \ N : \A m \in Nat \ N : <<m, n>> \notin OpToRel(<, Nat)
    BY WFMin, NatLessThanWellFounded, Zenon
  <1>2. \A m \in Nat \ N : ~(m < n)
    BY <1>1, Zenon DEF OpToRel
  <1>3. n \in Nat /\ n \notin N /\ n # 0
    OBVIOUS
  <1>4. n - 1 \in Nat /\ n - 1 < n /\ n = (n - 1) + 1
    BY <1>3
  <1> QED BY <1>2, <1>3, <1>4

First(s) == CHOOSE x \in s : TRUE

\* The sum over s of a function, from the sums of smaller sets.
SumStep(f, sums, s) == IF s = {} THEN 0 ELSE f[First(s)] + sums[s \ {First(s)}]

SumsOver(f, sums, sets) == sums = [s \in sets |-> SumStep(f, sums, s)]

UpTo(S, n) == {s \in SUBSET S : Cardinality(s) <= n}

\* The community module's fold is that recursion over the subsets of the domain.
LEMMA SumUnfolds ==
  ASSUME NEW f
  PROVE  SumFunction(f) = (CHOOSE sums : SumsOver(f, sums, SUBSET (DOMAIN f)))[DOMAIN f]
    BY DEF SumFunction, SumFunctionOnSet, FoldFunctionOnSet, MapThenFoldSet, SumsOver, SumStep, First

\* The recursion goes to a smaller set.
LEMMA Smaller ==
  ASSUME NEW S, IsFiniteSet(S), NEW n \in Nat, NEW s \in UpTo(S, n + 1), s # {}
  PROVE  First(s) \in s /\ s \ {First(s)} \in UpTo(S, n)
  <1>1. First(s) \in s
    BY DEF First
  <1>2. IsFiniteSet(s) /\ Cardinality(s) \in Nat /\ Cardinality(s) <= n + 1
    BY FS_Subset, FS_CardinalityType DEF UpTo
  <1>3. Cardinality(s \ {First(s)}) = Cardinality(s) - 1
    BY <1>1, <1>2, FS_RemoveElement
  <1> QED BY <1>1, <1>2, <1>3 DEF UpTo

\* The empty set, where it ends, and all the sets it may start from.
LEMMA UpToNothing ==
  ASSUME NEW S, IsFiniteSet(S)
  PROVE  UpTo(S, 0) = {{}}
  <1>1. \A s \in SUBSET S : IsFiniteSet(s) /\ Cardinality(s) \in Nat
    BY FS_Subset, FS_CardinalityType
  <1> QED BY <1>1, FS_EmptySet DEF UpTo

LEMMA UpToAll ==
  ASSUME NEW S, IsFiniteSet(S)
  PROVE  Cardinality(S) \in Nat /\ UpTo(S, Cardinality(S)) = SUBSET S
    BY FS_Subset, FS_CardinalityType DEF UpTo

\* The recursion has a solution: one for sets of n elements extends to n + 1.
LEMMA SumsExist ==
  ASSUME NEW S, IsFiniteSet(S), NEW f
  PROVE  \E sums : SumsOver(f, sums, SUBSET S)
  <1> DEFINE N == {n \in Nat : \E sums : SumsOver(f, sums, UpTo(S, n))}
  <1>1. 0 \in N
    <2> DEFINE sums == [s \in UpTo(S, 0) |-> 0]
    <2>1. sums = [s \in UpTo(S, 0) |-> SumStep(f, sums, s)]
      BY UpToNothing DEF SumStep
    <2> QED BY <2>1 DEF SumsOver
  <1>2. ASSUME NEW n \in Nat, n \in N
        PROVE  n + 1 \in N
    <2>1. PICK sums : SumsOver(f, sums, UpTo(S, n))
      BY <1>2
    <2> DEFINE more == [s \in UpTo(S, n + 1) |-> SumStep(f, sums, s)]
    <2>2. \A s \in UpTo(S, n) : s \in UpTo(S, n + 1) /\ more[s] = sums[s]
      <3> SUFFICES ASSUME NEW s \in UpTo(S, n)
                   PROVE  s \in UpTo(S, n + 1) /\ more[s] = sums[s]
        OBVIOUS
      <3>1. s \in UpTo(S, n + 1)
        BY FS_Subset, FS_CardinalityType DEF UpTo
      <3>2. sums[s] = SumStep(f, sums, s)
        BY <2>1 DEF SumsOver
      <3> QED BY <3>1, <3>2
    <2>3. ASSUME NEW s \in UpTo(S, n + 1)
          PROVE  SumStep(f, sums, s) = SumStep(f, more, s)
      BY <2>2, Smaller DEF SumStep
    <2>4. more = [s \in UpTo(S, n + 1) |-> SumStep(f, more, s)]
      BY <2>3
    <2>5. SumsOver(f, more, UpTo(S, n + 1))
      BY <2>4 DEF SumsOver
    <2> QED BY <2>5
  <1>3. \A n \in Nat : n \in N => n + 1 \in N
    BY <1>2
  <1> HIDE DEF N
  <1>4. Cardinality(S) \in N
    BY <1>1, <1>3, UpToAll, Induction
  <1> QED BY <1>4, UpToAll DEF N

SumsOf(f) == CHOOSE sums : SumsOver(f, sums, SUBSET (DOMAIN f))

\* So the chosen solution is one.
LEMMA SumsOfIsRecursive ==
  ASSUME NEW S, IsFiniteSet(S), NEW f, DOMAIN f = S
  PROVE  /\ SumFunction(f) = SumsOf(f)[S]
         /\ \A s \in SUBSET S : SumsOf(f)[s] = SumStep(f, SumsOf(f), s)
  <1>1. SumFunction(f) = SumsOf(f)[S]
    BY SumUnfolds DEF SumsOf
  <1>2. SumsOver(f, SumsOf(f), SUBSET S)
    BY SumsExist DEF SumsOf
  <1> QED BY <1>1, <1>2 DEF SumsOver

\* A function that differs from another one at r only: so does its sum.
LEMMA SumChangesAt ==
  ASSUME NEW S, IsFiniteSet(S), NEW f \in [S -> Int], NEW g \in [S -> Int], NEW r \in S,
         \A s \in S \ {r} : g[s] = f[s]
  PROVE  /\ SumFunction(f) \in Int
         /\ SumFunction(g) = SumFunction(f) + g[r] - f[r]
  <1> DEFINE F == SumsOf(f)
             G == SumsOf(g)
             Fits(s) == /\ F[s] \in Int
                        /\ G[s] = IF r \in s THEN F[s] + g[r] - f[r] ELSE F[s]
             N == {n \in Nat : \A s \in UpTo(S, n) : Fits(s)}
  <1>1. /\ SumFunction(f) = F[S] /\ SumFunction(g) = G[S]
        /\ \A s \in SUBSET S : F[s] = SumStep(f, F, s) /\ G[s] = SumStep(g, G, s)
    BY SumsOfIsRecursive
  <1> HIDE DEF F, G
  <1>2. 0 \in N
    BY <1>1, UpToNothing DEF SumStep
  <1>3. ASSUME NEW n \in Nat, n \in N
        PROVE  n + 1 \in N
    <2> SUFFICES ASSUME NEW s \in UpTo(S, n + 1)
                 PROVE  Fits(s)
      OBVIOUS
    <2>1. s \subseteq S
      BY DEF UpTo
    <2>2. CASE s = {}
      <3>1. F[s] = 0 /\ G[s] = 0 /\ r \notin s
        BY <1>1, <2>1, <2>2 DEF SumStep
      <3> QED BY <3>1
    <2>3. CASE s # {}
      <3> DEFINE x == First(s)
                 t == s \ {x}
      <3>1. x \in s /\ t \in UpTo(S, n)
        BY <2>3, Smaller
      <3>2. Fits(t)
        BY <1>3, <3>1
      <3>3. F[s] = f[x] + F[t] /\ G[s] = g[x] + G[t]
        BY <1>1, <2>1, <2>3 DEF SumStep
      <3>4. f[x] \in Int /\ g[x] \in Int /\ f[r] \in Int /\ g[r] \in Int
        BY <2>1, <3>1
      <3> HIDE DEF x, t
      <3>5. CASE x = r
        <4>1. r \notin t /\ r \in s
          BY <3>1, <3>5 DEF t
        <4> QED BY <3>2, <3>3, <3>4, <3>5, <4>1
      <3>6. CASE x # r
        <4>1. (r \in t <=> r \in s) /\ g[x] = f[x]
          BY <2>1, <3>1, <3>6 DEF t
        <4> QED BY <3>2, <3>3, <3>4, <4>1
      <3> QED BY <3>5, <3>6
    <2> QED BY <2>2, <2>3
  <1>4. \A n \in Nat : n \in N => n + 1 \in N
    BY <1>3
  <1> HIDE DEF N
  <1>5. Cardinality(S) \in N
    BY <1>2, <1>4, UpToAll, Induction
  <1>6. Fits(S)
    BY <1>5, UpToAll DEF N
  <1> QED BY <1>1, <1>6

\* Nothing adds up to nothing.
LEMMA SumOfZeros ==
  ASSUME NEW S, IsFiniteSet(S)
  PROVE  SumFunction([s \in S |-> 0]) = 0
  <1> DEFINE f == [s \in S |-> 0]
             F == SumsOf(f)
             N == {n \in Nat : \A s \in UpTo(S, n) : F[s] = 0}
  <1>1. /\ SumFunction(f) = F[S]
        /\ \A s \in SUBSET S : F[s] = SumStep(f, F, s)
    BY SumsOfIsRecursive
  <1> HIDE DEF F
  <1>2. 0 \in N
    BY <1>1, UpToNothing DEF SumStep
  <1>3. ASSUME NEW n \in Nat, n \in N, NEW s \in UpTo(S, n + 1), s # {}
        PROVE  F[s] = 0
    <2>1. First(s) \in s /\ s \subseteq S /\ F[s \ {First(s)}] = 0
      BY <1>3, Smaller DEF UpTo
    <2>2. F[s] = f[First(s)] + F[s \ {First(s)}] /\ f[First(s)] = 0
      BY <1>1, <1>3, <2>1 DEF SumStep
    <2> QED BY <2>1, <2>2
  <1>4. \A s \in SUBSET S : s = {} => F[s] = 0
    BY <1>1 DEF SumStep
  <1>5. \A n \in Nat : n \in N => n + 1 \in N
    BY <1>3, <1>4 DEF UpTo
  <1> HIDE DEF N
  <1>6. Cardinality(S) \in N
    BY <1>2, <1>5, UpToAll, Induction
  <1> QED BY <1>1, <1>6, UpToAll DEF N

-----------------------------------------------------------------------------
(* The inductive invariant, in named parts.                                  *)

\* The states of a transaction that has locked and checked its products.
Reserved == {"code", "coupon", "insert", "clear", "commit"}

\* A product is locked by one transaction at most, from its reservation on by
\* the one that will change it.
Locking ==
  /\ \A q, s \in Requests : q # s => held[q] \cap held[s] = {}
  /\ \A q \in Requests : pc[q] \in Reserved => held[q] = Needed(q)

\* What a transaction has read of the products it holds is still true.
Reading ==
  \A q \in Requests, p \in Products :
    pc[q] \in Reserved /\ p \in Needed(q) =>
      /\ bill[q][p] = product[p].price
      /\ announces[q][p] = product[p].version + 1
      /\ product[p].stock >= lines[q][p]

\* An inserted key is the first of its kind, and alone.
Keys ==
  \A q \in Requests : HasInserted(q) =>
    /\ Twins(q) = {}
    /\ \A s \in Requests : SameKey(q, s) /\ HasInserted(s) => s = q

\* A transaction that counted a use of the discount is alone, and the limit
\* leaves room for it.
Uses ==
  \A q \in Requests : HoldsCoupon(q) =>
    /\ used < MaxUses
    /\ \A s \in Requests : HoldsCoupon(s) => s = q

\* The total of an inserted order is the reviewed one.
Agreed ==
  \A q \in Requests : HasInserted(q) => AsQuoted(q)

\* An order stands once its request is past the transaction.
Standing ==
  \A q \in Requests : /\ q \in Placed => pc[q] \in Final \cup {"reload"}
                      /\ pc[q] = "reload" => q \in Placed

IInv ==
  /\ TypeOK
  /\ Locking /\ Reading /\ Keys /\ Uses /\ Agreed /\ Standing
  /\ OneOrderPerKey /\ DiscountWithinLimit /\ EveryVersionAnnounced
  /\ NeverOversold

-----------------------------------------------------------------------------
(* The invariant holds initially.                                            *)

LEMMA InitInv == Init => IInv
  <1> SUFFICES ASSUME Init PROVE IInv
    OBVIOUS
  <1> USE ConstantsAssumption, NobodyIsNoOrder DEF Init
  <1>1. TypeOK
    BY DEF TypeOK, Quantities, Empty, NoBill, Product, TxStates, Final
  <1>2. Placed = {}
    BY DEF Placed
  <1>3. Locking /\ Reading /\ Keys /\ Uses /\ Agreed /\ Standing
    BY <1>2 DEF Locking, Reading, Keys, Uses, Agreed, Standing, Reserved, HasInserted,
                HoldsCoupon, Final
  <1>4. OneOrderPerKey
    BY <1>2 DEF OneOrderPerKey
  <1>5. DiscountWithinLimit
    BY <1>2, FS_EmptySet DEF DiscountWithinLimit
  <1>6. EveryVersionAnnounced /\ NeverOversold
    BY DEF EveryVersionAnnounced, NeverOversold
  <1>7. QED BY <1>1, <1>3, <1>4, <1>5, <1>6 DEF IInv

-----------------------------------------------------------------------------
(* Transactions that end without effect.                                     *)

\* A rolled-back transaction leaves its locks and its claims behind, whatever
\* the request does next.
LEMMA RollbackInv ==
  ASSUME IInv, NEW q \in Requests, NEW state \in {"begin", "conflict", "rejected", "failed"},
         state = "begin" => tries[q] < MaxRetries,
         q \in Placed => state \in Final,
         Rollback(q, state)
  PROVE  IInv'
  <1> USE ConstantsAssumption, NobodyIsNoOrder DEF IInv
  <1> DEFINE Same == UNCHANGED <<product, announced, supply, live, used, cart, order, view, answer>>
  <1>1. Same /\ \A s \in Requests \ {q} :
            /\ pc'[s] = pc[s] /\ held'[s] = held[s] /\ bill'[s] = bill[s]
            /\ announces'[s] = announces[s] /\ lines'[s] = lines[s] /\ quoted'[s] = quoted[s]
    BY DEF TypeOK, Rollback, EndTx, catalogue, discount
  <1>2. pc'[q] = state /\ held'[q] = {}
    BY DEF TypeOK, Rollback, EndTx
  <1>3. Placed' = Placed /\ \A s \in Requests : Twins(s)' = Twins(s)
    BY <1>1 DEF Placed, Twins, SameKey
  <1>4. TypeOK'
    <2> USE DEF TypeOK, Rollback, EndTx, catalogue, discount, TxStates, Final
    <2>1. UNCHANGED <<product, live, used, cart, order, announced, answer, view, supply>>
      OBVIOUS
    <2>2. pc' \in [Requests -> TxStates \cup Final \cup {"new", "cart", "begin", "conflict", "reload"}]
      OBVIOUS
    <2>3. tries' \in [Requests -> 0..MaxRetries] /\ held' \in [Requests -> SUBSET Products]
      OBVIOUS
    <2>4. lines' \in [Requests -> Quantities] /\ quoted' \in [Requests -> Order \cup {Nobody}]
      BY DEF Quantities, Empty
    <2>5. stale' \in [Requests -> SUBSET (Products \cup {Coupon, CartRows})]
      OBVIOUS
    <2>6. sweep' \in [Requests -> SUBSET Products]
      OBVIOUS
    <2>7. bill' \in [Requests -> [Products -> Nat]] /\ announces' \in [Requests -> [Products -> Nat]]
      BY DEF NoBill
    <2>8. \A s \in Requests : pc'[s] \notin TxStates => held'[s] = {} /\ stale'[s] = {}
      OBVIOUS
    <2>9. QED BY <2>1, <2>2, <2>3, <2>4, <2>5, <2>6, <2>7, <2>8
  <1>5. Locking' /\ Reading'
    BY <1>1, <1>2 DEF Locking, Reading, Needed, Reserved
  <1>6. Keys' /\ Uses' /\ Agreed'
    BY <1>1, <1>2, <1>3 DEF Keys, Uses, Agreed, HasInserted, HoldsCoupon, AsQuoted, SameKey
  <1>7. Standing' /\ OneOrderPerKey'
    BY <1>1, <1>2, <1>3 DEF Standing, OneOrderPerKey, SameKey, Final
  <1>8. DiscountWithinLimit' /\ EveryVersionAnnounced' /\ NeverOversold'
    BY <1>1, <1>3 DEF DiscountWithinLimit, EveryVersionAnnounced, NeverOversold
  <1>9. QED BY <1>4, <1>5, <1>6, <1>7, <1>8

-----------------------------------------------------------------------------
(* Steps that leave what the invariant speaks about as it is, but for types. *)

LEMMA FrameInv ==
  ASSUME IInv, TypeOK',
         UNCHANGED <<product, announced, used, order, pc, lines, quoted, answer>>,
         UNCHANGED <<held, bill, announces>>
  PROVE  IInv'
  <1> USE DEF IInv
  <1>1. Placed' = Placed /\ \A s \in Requests : Twins(s)' = Twins(s)
    BY DEF Placed, Twins, SameKey
  <1>2. Locking' /\ Reading'
    BY DEF Locking, Reading, Needed
  <1>3. Keys' /\ Uses' /\ Agreed'
    BY <1>1 DEF Keys, Uses, Agreed, HasInserted, HoldsCoupon, AsQuoted, SameKey
  <1>4. Standing' /\ OneOrderPerKey'
    BY <1>1 DEF Standing, OneOrderPerKey, SameKey
  <1>5. DiscountWithinLimit' /\ EveryVersionAnnounced' /\ NeverOversold'
    BY <1>1 DEF DiscountWithinLimit, EveryVersionAnnounced, NeverOversold
  <1>6. QED BY <1>2, <1>3, <1>4, <1>5

\* Rows that others change under a transaction's snapshot are rows it can have.
LEMMA TouchType ==
  ASSUME TypeOK, NEW q,
         NEW rows \in [Requests -> SUBSET (Products \cup {Coupon, CartRows})], Touch(q, rows)
  PROVE  /\ stale' \in [Requests -> SUBSET (Products \cup {Coupon, CartRows})]
         /\ \A s \in Requests : pc[s] \notin TxStates => stale'[s] = {}
         /\ q \in Requests => stale'[q] = {}
  BY DEF TypeOK, Touch, InTx

LEMMA EnvironmentInv ==
  ASSUME IInv,
         \/ \E u \in Users, p \in Products, n \in 0..MaxQty : SetCartItem(u, p, n)
         \/ \E u \in Users : EmptyCart(u)
         \/ \E a \in Admins, p \in Products : AdminRead(a, p)
         \/ CouponExpires
  PROVE  IInv'
  <1> USE ConstantsAssumption DEF IInv, reqVars, txVars, catalogue, discount
  <1>1. ASSUME NEW u \in Users, NEW p \in Products, NEW n \in 0..MaxQty, SetCartItem(u, p, n)
        PROVE  IInv'
    <2> DEFINE rows == [s \in Requests |->
                         IF UserOf[s] = u /\ p \in sweep[s] THEN {CartRows} ELSE {}]
    <2>1. rows \in [Requests -> SUBSET (Products \cup {Coupon, CartRows})] /\ Touch(Nobody, rows)
      BY <1>1 DEF SetCartItem
    <2> HIDE DEF rows
    <2>2. TypeOK'
      BY <1>1, <2>1, TouchType DEF SetCartItem, TypeOK, Quantities
    <2>3. QED BY <1>1, <2>2, FrameInv DEF SetCartItem
  <1>2. ASSUME NEW u \in Users, EmptyCart(u) PROVE IInv'
    <2> DEFINE rows == [s \in Requests |->
                         IF UserOf[s] = u /\ sweep[s] \cap Filled(u) # {}
                         THEN {CartRows} ELSE {}]
    <2>1. rows \in [Requests -> SUBSET (Products \cup {Coupon, CartRows})] /\ Touch(Nobody, rows)
      BY <1>2 DEF EmptyCart
    <2> HIDE DEF rows
    <2>2. TypeOK'
      BY <1>2, <2>1, TouchType DEF EmptyCart, TypeOK, Quantities, Empty
    <2>3. QED BY <1>2, <2>2, FrameInv DEF EmptyCart
  <1>3. ASSUME NEW a \in Admins, NEW p \in Products, AdminRead(a, p) PROVE IInv'
    <2>1. TypeOK'
      BY <1>3 DEF AdminRead, TypeOK, Product
    <2>2. QED BY <1>3, <2>1, FrameInv DEF AdminRead
  <1>4. ASSUME CouponExpires PROVE IInv'
    <2>1. TypeOK'
      BY <1>4 DEF CouponExpires, TypeOK
    <2>2. QED BY <1>4, <2>1, FrameInv DEF CouponExpires
  <1>5. QED BY <1>1, <1>2, <1>3, <1>4

\* An administrator changes a product nobody holds, and the event announces
\* the version the update returned.
LEMMA AdminWriteInv ==
  ASSUME IInv, NEW a \in Admins, view[a] # Nobody, NEW row \in Product, row.stock >= 0,
         AdminWrite(a, row)
  PROVE  IInv'
  <1> USE ConstantsAssumption DEF IInv
  <1> DEFINE p == view[a].of
             v == product[p].version + 1
             rows == [s \in Requests |-> {p}]
  <1>1. p \in Products /\ v \in Nat
    BY DEF TypeOK, Product
  <1>2. /\ product' = [product EXCEPT ![p] = [row EXCEPT !.version = v]]
        /\ announced' = [announced EXCEPT ![p] = @ \cup {v}]
        /\ \A s \in Requests : p \notin held[s]
        /\ UNCHANGED <<used, order, pc, lines, quoted, answer, held, bill, announces>>
    BY DEF AdminWrite, LockedProducts, discount
  <1>3. rows \in [Requests -> SUBSET (Products \cup {Coupon, CartRows})] /\ Touch(Nobody, rows)
    BY <1>1 DEF AdminWrite
  <1> HIDE DEF rows
  <1>4. TypeOK'
    <2>1. product' \in [Products -> Product] /\ announced' \in [Products -> SUBSET Nat]
      BY <1>1, <1>2 DEF TypeOK, Product
    <2>2. supply' \in [Products -> Int] /\ UNCHANGED <<live, used, cart, tries, sweep>>
      BY <1>1 DEF AdminWrite, TypeOK, Product, discount
    <2>3. view' \in [Admins -> [of : Products, active : BOOLEAN, version : Nat] \cup {Nobody}]
      BY DEF AdminWrite, TypeOK
    <2>4. QED BY <1>2, <1>3, <2>1, <2>2, <2>3, TouchType DEF TypeOK
  <1>5. Placed' = Placed /\ \A s \in Requests : Twins(s)' = Twins(s)
    BY <1>2 DEF Placed, Twins, SameKey
  <1>6. Locking' /\ Reading'
    BY <1>1, <1>2 DEF Locking, Reading, Needed, TypeOK
  <1>7. Keys' /\ Uses' /\ Agreed'
    BY <1>2, <1>5 DEF Keys, Uses, Agreed, HasInserted, HoldsCoupon, AsQuoted, SameKey
  <1>8. Standing' /\ OneOrderPerKey' /\ DiscountWithinLimit'
    BY <1>2, <1>5 DEF Standing, OneOrderPerKey, SameKey, DiscountWithinLimit
  <1>9. NeverOversold'
    BY <1>1, <1>2 DEF NeverOversold, TypeOK, Product
  <1>10. EveryVersionAnnounced'
    <2> SUFFICES ASSUME NEW x \in Products PROVE announced'[x] = 0..product'[x].version
      BY DEF EveryVersionAnnounced
    <2>1. CASE x = p
      <3>1. product'[p].version = v /\ announced'[p] = (0..product[p].version) \cup {v}
        BY <1>1, <1>2 DEF EveryVersionAnnounced, TypeOK, Product
      <3>2. product[p].version \in Nat
        BY <1>1 DEF TypeOK, Product
      <3>3. QED BY <2>1, <3>1, <3>2
    <2>2. CASE x # p
      BY <1>1, <1>2, <2>2 DEF EveryVersionAnnounced, TypeOK
    <2>3. QED BY <2>1, <2>2
  <1>11. QED BY <1>4, <1>6, <1>7, <1>8, <1>9, <1>10

LEMMA AdminUpdateInv ==
  ASSUME IInv, NEW a \in Admins, AdminUpdate(a)
  PROVE  IInv'
  <1> USE ConstantsAssumption DEF IInv
  <1> DEFINE now == product[view[a].of]
  <1>1. view[a] # Nobody /\ now \in Product /\ now.stock >= 0 /\ view[a].active \in BOOLEAN
    BY DEF AdminUpdate, TypeOK, NeverOversold
  <1>2. CASE \E c \in Prices : AdminWrite(a, [now EXCEPT !.price = c])
    BY <1>1, <1>2, AdminWriteInv DEF Product
  <1>3. CASE \E n \in 0..InitialStock : AdminWrite(a, [now EXCEPT !.stock = n])
    BY <1>1, <1>3, AdminWriteInv DEF Product
  <1>4. CASE AdminWrite(a, [now EXCEPT !.active = ~view[a].active])
    BY <1>1, <1>4, AdminWriteInv DEF Product
  <1>5. QED BY <1>2, <1>3, <1>4 DEF AdminUpdate

-----------------------------------------------------------------------------
(* Steps of a request outside its transaction.                               *)

\* Nothing is reserved or inserted here, and what is answered has been placed.
LEMMA OutsideInv ==
  ASSUME IInv, TypeOK', NEW q \in Requests, NEW to,
         UNCHANGED <<product, announced, used, order, held, bill, announces>>,
         pc' = [pc EXCEPT ![q] = to],
         \A s \in Requests \ {q} : /\ lines'[s] = lines[s] /\ quoted'[s] = quoted[s]
                                   /\ answer'[s] = answer[s],
         to \in {"new", "cart", "begin", "lock"} \cup Final,
         to \in Final \/ q \notin Placed,
         to = "answered" => answer'[q] \in Twins(q)
  PROVE  IInv'
  <1> USE DEF IInv
  <1>1. Placed' = Placed /\ \A s \in Requests : Twins(s)' = Twins(s)
    BY DEF Placed, Twins, SameKey
  <1>2. pc'[q] = to /\ to \notin Reserved \cup {"reload"}
                    /\ \A s \in Requests \ {q} : pc'[s] = pc[s]
    BY DEF TypeOK, Reserved, Final
  <1>3. Locking' /\ Reading'
    BY <1>2 DEF Locking, Reading, Needed
  <1>4. Keys' /\ Uses' /\ Agreed'
    BY <1>1, <1>2 DEF Keys, Uses, Agreed, HasInserted, HoldsCoupon, AsQuoted, SameKey, Reserved
  <1>5. Standing'
    BY <1>1, <1>2 DEF Standing
  <1>6. OneOrderPerKey'
    BY <1>1, <1>2 DEF OneOrderPerKey, SameKey
  <1>7. DiscountWithinLimit' /\ EveryVersionAnnounced' /\ NeverOversold'
    BY <1>1 DEF DiscountWithinLimit, EveryVersionAnnounced, NeverOversold
  <1>8. QED BY <1>3, <1>4, <1>5, <1>6, <1>7

LEMMA OutsideSteps ==
  ASSUME IInv, NEW q \in Requests,
         Quote(q) \/ Lookup(q) \/ ReadCart(q) \/ Begin(q) \/ Reload(q) \/ AnswerAfterConflict(q)
  PROVE  IInv'
  <1> USE ConstantsAssumption
      DEF IInv, Go, txVars, catalogue, discount, Final
  <1>0. q \in Placed => pc[q] \in Final \cup {"reload"}
    BY DEF Standing
  <1>1. CASE Quote(q)
    <2> DEFINE quote == [lines |-> cart[UserOf[q]], bill |-> UnitPrices]
    <2>1. UnitPrices \in [Products -> Nat]
      BY DEF UnitPrices, TypeOK, Product
    <2>2. cart[UserOf[q]] \in Quantities
      BY DEF TypeOK
    <2>3. quote \in Order
      BY <2>1, <2>2 DEF Order
    <2>4. quoted' \in [Requests -> Order \cup {Nobody}]
      BY <1>1, <2>3 DEF Quote, TypeOK
    <2>5. pc' \in [Requests -> TxStates \cup Final \cup {"new", "cart", "begin", "conflict", "reload"}]
      BY <1>1 DEF Quote, TypeOK
    <2>6. \A s \in Requests : pc'[s] \notin TxStates => held'[s] = {} /\ stale'[s] = {}
      BY <1>1 DEF Quote, TypeOK, TxStates
    <2>7. TypeOK'
      BY <1>1, <2>4, <2>5, <2>6 DEF Quote, TypeOK
    <2>8. pc' = [pc EXCEPT ![q] = "new"] /\ q \notin Placed
      BY <1>0, <1>1 DEF Quote, Final
    <2>9. \A s \in Requests \ {q} : quoted'[s] = quoted[s]
      BY <1>1 DEF Quote, TypeOK
    <2>10. UNCHANGED <<product, announced, used, order, held, bill, announces, lines, answer>>
      BY <1>1 DEF Quote
    <2>11. QED BY <2>7, <2>8, <2>9, <2>10, OutsideInv DEF Final
  <1>2. ASSUME NEW from \in {"new", "conflict"}, AnswerTwin(q, from) PROVE IInv'
    <2>1. TypeOK'
      BY <1>2 DEF AnswerTwin, TypeOK, Twins, Placed, TxStates
    <2>2. answer'[q] \in Twins(q)
      BY <1>2 DEF AnswerTwin, TypeOK
    <2>3. QED BY <1>2, <2>1, <2>2, OutsideInv DEF AnswerTwin, TypeOK
  <1>3. CASE Lookup(q)
    <2>1. CASE AnswerTwin(q, "new")
      BY <1>2, <2>1
    <2>2. CASE Go(q, "new", "cart") /\ UNCHANGED <<lines, quoted, answer, txVars>>
      <3>1. TypeOK'
        BY <2>2 DEF TypeOK, TxStates
      <3>2. QED BY <1>0, <2>2, <3>1, OutsideInv
    <2>3. QED BY <1>3, <2>1, <2>2 DEF Lookup
  <1>4. CASE ReadCart(q)
    <2>1. TypeOK'
      BY <1>4 DEF ReadCart, TypeOK, TxStates
    <2>2. PICK to \in {"rejected", "begin"} : pc' = [pc EXCEPT ![q] = to]
      BY <1>4 DEF ReadCart
    <2>3. /\ UNCHANGED <<product, announced, used, order, held, bill, announces>>
          /\ \A s \in Requests \ {q} : /\ lines'[s] = lines[s] /\ quoted'[s] = quoted[s]
                                       /\ answer'[s] = answer[s]
      BY <1>4 DEF ReadCart, TypeOK
    <2>4. q \notin Placed
      BY <1>0, <1>4 DEF ReadCart
    <2>5. QED BY <2>1, <2>2, <2>3, <2>4, OutsideInv
  <1>5. CASE Begin(q)
    <2>1. TypeOK'
      BY <1>5 DEF Begin, TypeOK, TxStates, Filled
    <2>2. QED BY <1>0, <1>5, <2>1, OutsideInv DEF Begin
  <1>6. CASE Reload(q)
    <2>1. TypeOK'
      BY <1>6 DEF Reload, TypeOK, TxStates
    <2>2. answer'[q] \in Twins(q)
      BY <1>6 DEF Reload, TypeOK, Standing, Twins, SameKey
    <2>3. QED BY <1>6, <2>1, <2>2, OutsideInv DEF Reload, TypeOK
  <1>7. QED BY <1>1, <1>2, <1>3, <1>4, <1>5, <1>6 DEF AnswerAfterConflict

-----------------------------------------------------------------------------
(* Steps of an open transaction.                                             *)

LEMMA ConflictInv ==
  ASSUME IInv, NEW q \in Requests, q \notin Placed, Conflict(q)
  PROVE  IInv'
  BY RollbackInv DEF Conflict, Final

LEMMA RawConflictInv ==
  ASSUME IInv, NEW q \in Requests, q \notin Placed, RawConflict(q)
  PROVE  IInv'
  BY RollbackInv, ConflictInv DEF RawConflict, Failure, Final

\* A transaction that has not committed has no order.
LEMMA OpenNotPlaced ==
  ASSUME IInv, NEW q \in Requests, pc[q] \in TxStates \cup {"begin", "cart", "conflict"}
  PROVE  q \notin Placed
  BY DEF IInv, Standing, TxStates, Final

LEMMA LockProductInv ==
  ASSUME IInv, NEW q \in Requests, NEW p \in Products, LockProduct(q, p)
  PROVE  IInv'
  <1> USE ConstantsAssumption DEF IInv, Go, catalogue, discount
  <1>1. q \notin Placed
    BY OpenNotPlaced DEF LockProduct, TxStates
  <1>2. CASE RawConflict(q)
    BY <1>1, <1>2, RawConflictInv
  <1>3. CASE /\ Go(q, "lock", "lock")
             /\ held' = [held EXCEPT ![q] = @ \cup {p}]
             /\ UNCHANGED <<lines, quoted, answer, stale, sweep, bill, announces>>
    <2>1. TypeOK'
      BY <1>3 DEF TypeOK, TxStates
    <2>2. pc' = pc /\ Placed' = Placed /\ \A s \in Requests : Twins(s)' = Twins(s)
      BY <1>3 DEF Placed, Twins, SameKey, TypeOK
    <2>3. Locking' /\ Reading'
      BY <1>3, <2>2 DEF Locking, Reading, Needed, LockProduct, LockedProducts, TypeOK, Reserved
    <2>4. Keys' /\ Uses' /\ Agreed'
      BY <1>3, <2>2 DEF Keys, Uses, Agreed, HasInserted, HoldsCoupon, AsQuoted, SameKey
    <2>5. Standing' /\ OneOrderPerKey'
      BY <1>3, <2>2 DEF Standing, OneOrderPerKey, SameKey
    <2>6. DiscountWithinLimit' /\ EveryVersionAnnounced' /\ NeverOversold'
      BY <1>3, <2>2 DEF DiscountWithinLimit, EveryVersionAnnounced, NeverOversold
    <2>7. QED BY <2>1, <2>3, <2>4, <2>5, <2>6
  <1>4. QED BY <1>2, <1>3 DEF LockProduct

\* The transaction moves on with what it holds; to becomes its state.
LEMMA AdvanceInv ==
  ASSUME IInv, TypeOK', NEW q \in Requests, pc[q] \in TxStates, NEW to \in Reserved,
         pc' = [pc EXCEPT ![q] = to],
         UNCHANGED <<product, announced, used, order, lines, quoted, answer, held>>,
         pc[q] \in Reserved \/ held[q] = Needed(q),
         \A s \in Requests \ {q} : bill'[s] = bill[s] /\ announces'[s] = announces[s],
         \A p \in Needed(q) : /\ bill'[q][p] = product[p].price
                              /\ announces'[q][p] = product[p].version + 1
                              /\ product[p].stock >= lines[q][p],
         HasInserted(q)' => (AsQuoted(q) /\ Twins(q) = {})',
         HasInserted(q)' => \A s \in Requests \ {q} : SameKey(q, s) => ~HasInserted(s),
         HoldsCoupon(q)' => used < MaxUses,
         HoldsCoupon(q)' => \A s \in Requests \ {q} : ~HoldsCoupon(s)
  PROVE  IInv'
  <1> USE DEF IInv
  <1>1. Placed' = Placed /\ \A s \in Requests : Twins(s)' = Twins(s)
    BY DEF Placed, Twins, SameKey
  <1>2. pc'[q] = to /\ \A s \in Requests \ {q} : pc'[s] = pc[s]
    BY DEF TypeOK
  <1>3. Locking' /\ Reading'
    BY <1>2 DEF Locking, Reading, Needed
  <1>4. \A s \in Requests \ {q} : /\ HasInserted(s)' = HasInserted(s)
                                  /\ HoldsCoupon(s)' = HoldsCoupon(s)
                                  /\ AsQuoted(s) => AsQuoted(s)'
    BY <1>2 DEF HasInserted, HoldsCoupon, AsQuoted
  <1>5. Keys' /\ Uses' /\ Agreed'
    BY <1>1, <1>4 DEF Keys, Uses, Agreed, SameKey
  <1>6. Standing' /\ OneOrderPerKey'
    BY <1>1, <1>2 DEF Standing, OneOrderPerKey, SameKey, Reserved, TxStates, Final
  <1>7. DiscountWithinLimit' /\ EveryVersionAnnounced' /\ NeverOversold'
    BY <1>1 DEF DiscountWithinLimit, EveryVersionAnnounced, NeverOversold
  <1>8. QED BY <1>3, <1>5, <1>6, <1>7

LEMMA ReserveInv ==
  ASSUME IInv, NEW q \in Requests, Reserve(q)
  PROVE  IInv'
  <1> USE ConstantsAssumption DEF IInv, Go, catalogue, discount
  <1>1. q \notin Placed /\ pc[q] = "lock" /\ held[q] = Needed(q)
    BY OpenNotPlaced DEF Reserve, TxStates
  <1>2. CASE Reject(q)
    BY <1>1, <1>2, RollbackInv DEF Reject
  <1>3. CASE InStock(q) /\ ~Reject(q)
    <2> DEFINE to == IF q \in WithCode THEN "code" ELSE "insert"
    <2>1. /\ pc' = [pc EXCEPT ![q] = to]
          /\ bill' = [bill EXCEPT ![q] =
                        [p \in Products |-> IF p \in Needed(q) THEN product[p].price ELSE 0]]
          /\ announces' = [announces EXCEPT ![q] = Announcement(q)]
          /\ UNCHANGED <<catalogue, discount, cart, order, view, tries>>
          /\ UNCHANGED <<lines, quoted, answer, held, stale, sweep>>
      BY <1>3 DEF Reserve
    <2>2. \A p \in Products : product[p] \in Product
      BY DEF TypeOK
    <2>3. bill' \in [Requests -> [Products -> Nat]] /\ announces' \in [Requests -> [Products -> Nat]]
      BY <2>1, <2>2 DEF TypeOK, Product, Announcement
    <2>4. TypeOK'
      BY <1>1, <2>1, <2>3 DEF TypeOK, TxStates
    <2>5. \A p \in Needed(q) : /\ bill'[q][p] = product[p].price
                               /\ announces'[q][p] = product[p].version + 1
                               /\ product[p].stock >= lines[q][p]
      BY <1>3, <2>1 DEF TypeOK, Announcement, Needed, InStock, Sellable
    <2>6. to \in {"code", "insert"} /\ (to = "insert" => q \notin WithCode) /\ pc'[q] = to
      BY <2>1 DEF TypeOK
    <2>7. ~HasInserted(q)' /\ ~HoldsCoupon(q)'
      BY <2>6 DEF HasInserted, HoldsCoupon
    <2>8. \A s \in Requests \ {q} : bill'[s] = bill[s] /\ announces'[s] = announces[s]
      BY <2>1 DEF TypeOK
    <2> HIDE DEF to
    <2>9. QED BY <1>1, <2>1, <2>4, <2>5, <2>6, <2>7, <2>8, AdvanceInv DEF Reserved, TxStates
  <1>4. QED BY <1>2, <1>3 DEF Reserve

\* The four steps that only move the transaction on.
LEMMA MoveInv ==
  ASSUME IInv, NEW q \in Requests, pc[q] \in Reserved, NEW to \in Reserved,
         Go(q, pc[q], to), UNCHANGED <<lines, quoted, answer, txVars>>,
         to \in {"clear", "commit"} =>
           /\ AsQuoted(q) /\ Twins(q) = {}
           /\ \A s \in Requests \ {q} : SameKey(q, s) => ~HasInserted(s),
         to \in {"insert", "clear", "commit"} /\ q \in WithCode =>
           used < MaxUses /\ \A s \in Requests \ {q} : ~HoldsCoupon(s)
  PROVE  IInv'
  <1> USE DEF IInv
  <1>1. /\ UNCHANGED <<product, announced, used, order, lines, quoted, answer, held, bill, announces>>
        /\ UNCHANGED <<supply, live, cart, view, tries, stale, sweep>>
        /\ pc' = [pc EXCEPT ![q] = to]
    BY DEF Go, catalogue, discount, txVars
  <1>2. TypeOK'
    BY <1>1 DEF TypeOK, Reserved, TxStates
  <1>3. \A p \in Needed(q) : /\ bill[q][p] = product[p].price
                             /\ announces[q][p] = product[p].version + 1
                             /\ product[p].stock >= lines[q][p]
    BY DEF Reading, Needed
  <1>4. pc'[q] = to
    BY <1>1 DEF TypeOK
  <1>5. HasInserted(q)' => (AsQuoted(q) /\ Twins(q) = {})'
    BY <1>1, <1>4 DEF HasInserted, AsQuoted, Twins, Placed, SameKey
  <1>6. HasInserted(q)' => \A s \in Requests \ {q} : SameKey(q, s) => ~HasInserted(s)
    BY <1>4 DEF HasInserted
  <1>7. /\ HoldsCoupon(q)' => used < MaxUses
        /\ HoldsCoupon(q)' => \A s \in Requests \ {q} : ~HoldsCoupon(s)
    BY <1>4 DEF HoldsCoupon
  <1>8. QED BY <1>1, <1>2, <1>3, <1>5, <1>6, <1>7, AdvanceInv DEF Reserved, TxStates

LEMMA InsideSteps ==
  ASSUME IInv, NEW q \in Requests,
         CheckCode(q) \/ TakeCoupon(q) \/ InsertOrder(q) \/ ClearCart(q)
  PROVE  IInv'
  <1> USE DEF IInv
  <1>1. q \notin Placed
    BY OpenNotPlaced DEF CheckCode, TakeCoupon, InsertOrder, ClearCart, TxStates
  <1>2. CASE Reject(q) \/ Conflict(q) \/ Rollback(q, "conflict")
    BY <1>1, <1>2, RollbackInv, ConflictInv DEF Reject
  <1>3. CASE CheckCode(q) /\ ~Reject(q)
    BY <1>3, MoveInv DEF CheckCode, Go, Reserved
  <1>4. CASE TakeCoupon(q) /\ ~Conflict(q)
    <2>1. /\ pc[q] = "coupon" /\ Go(q, "coupon", "insert")
          /\ UNCHANGED <<lines, quoted, answer, txVars>>
          /\ used < MaxUses /\ \A s \in Requests \ {q} : ~HoldsCoupon(s)
      BY <1>4 DEF TakeCoupon, CouponLocked, CouponLeft
    <2>2. QED BY <2>1, MoveInv DEF Reserved
  <1>5. CASE InsertOrder(q) /\ ~Reject(q) /\ ~Rollback(q, "conflict")
    <2>1. /\ pc[q] = "insert" /\ Go(q, "insert", "clear")
          /\ UNCHANGED <<lines, quoted, answer, txVars>>
          /\ AsQuoted(q) /\ Twins(q) = {}
          /\ \A s \in Requests \ {q} : SameKey(q, s) => ~HasInserted(s)
      BY <1>5 DEF InsertOrder, KeyLocked, KeyTaken
    <2>2. q \in WithCode => used < MaxUses /\ \A s \in Requests \ {q} : ~HoldsCoupon(s)
      BY <2>1 DEF Uses, HoldsCoupon
    <2>3. QED BY <2>1, <2>2, MoveInv DEF Reserved
  <1>6. CASE ClearCart(q) /\ ~Conflict(q)
    <2>1. /\ pc[q] = "clear" /\ Go(q, "clear", "commit")
          /\ UNCHANGED <<lines, quoted, answer, txVars>>
      BY <1>6 DEF ClearCart
    <2>2. /\ AsQuoted(q) /\ Twins(q) = {}
          /\ \A s \in Requests \ {q} : SameKey(q, s) => ~HasInserted(s)
      BY <2>1 DEF Keys, Agreed, HasInserted
    <2>3. q \in WithCode => used < MaxUses /\ \A s \in Requests \ {q} : ~HoldsCoupon(s)
      BY <2>1 DEF Uses, HoldsCoupon
    <2>4. QED BY <2>1, <2>2, <2>3, MoveInv DEF Reserved
  <1>7. QED BY <1>2, <1>3, <1>4, <1>5, <1>6

-----------------------------------------------------------------------------
(* The commit.                                                               *)

LEMMA PlacedFinite == IsFiniteSet(Placed \cap WithCode)
  <1>1. Placed \cap WithCode \subseteq Requests
    BY DEF Placed
  <1>2. QED BY <1>1, ConstantsAssumption, FS_Subset

\* What a commit writes has its type.
LEMMA CommitType ==
  ASSUME TypeOK, NEW q \in Requests, Commit(q)
  PROVE  TypeOK'
  <1> DEFINE rows == [s \in Requests |-> ChangedFor(q, s)]
  <1>1. rows \in [Requests -> SUBSET (Products \cup {Coupon, CartRows})] /\ Touch(q, rows)
    BY DEF Commit, ChangedFor, Needed
  <1> HIDE DEF rows
  <1>2. /\ stale' \in [Requests -> SUBSET (Products \cup {Coupon, CartRows})]
        /\ \A s \in Requests : pc[s] \notin TxStates => stale'[s] = {}
        /\ stale'[q] = {}
    BY <1>1, TouchType
  <1>3. product' \in [Products -> Product]
    <2> SUFFICES ASSUME NEW p \in Products
                 PROVE  IF p \in Needed(q)
                        THEN [product[p] EXCEPT !.stock = @ - lines[q][p], !.version = @ + 1]
                               \in Product
                        ELSE product[p] \in Product
      BY DEF Commit
    <2>1. product[p] \in Product /\ lines[q][p] \in Int
      BY DEF TypeOK, Quantities
    <2>2. product[p].stock - lines[q][p] \in Int /\ product[p].version + 1 \in Nat
      BY <2>1 DEF Product
    <2>3. QED BY <2>1, <2>2 DEF Product
  <1>4. announced' \in [Products -> SUBSET Nat]
    <2>1. \A p \in Products : announced[p] \subseteq Nat /\ announces[q][p] \in Nat
      BY DEF TypeOK
    <2>2. QED BY <2>1 DEF Commit
  <1>5. order' \in [Requests -> Order \cup {Nobody}]
    <2>1. lines[q] \in Quantities /\ bill[q] \in [Products -> Nat]
      BY DEF TypeOK
    <2>2. [lines |-> lines[q], bill |-> bill[q]] \in Order
      BY <2>1 DEF Order
    <2>3. order \in [Requests -> Order \cup {Nobody}]
      BY DEF TypeOK
    <2>4. QED BY <2>2, <2>3 DEF Commit
  <1>6. used' \in Nat
    <2>1. used \in Nat /\ used' = IF q \in WithCode THEN used + 1 ELSE used
      BY DEF Commit, TypeOK
    <2>2. QED BY <2>1
  <1>7. cart' \in [Users -> Quantities]
    <2> DEFINE swept == [p \in Products |-> IF p \in sweep[q] THEN 0 ELSE cart[UserOf[q]][p]]
    <2>1. cart \in [Users -> Quantities] /\ UserOf[q] \in Users /\ MaxQty \in Nat
      BY ConstantsAssumption DEF TypeOK
    <2>2. swept \in Quantities
      BY <2>1 DEF Quantities
    <2>3. cart' = [cart EXCEPT ![UserOf[q]] = swept]
      BY <2>1 DEF Commit
    <2> HIDE DEF swept
    <2>4. QED BY <2>1, <2>2, <2>3
  <1>8. pc' \in [Requests -> TxStates \cup Final \cup {"new", "cart", "begin", "conflict", "reload"}]
    BY DEF Commit, EndTx, TypeOK
  <1>9. tries' \in [Requests -> 0..MaxRetries]
    <2>1. tries' = [tries EXCEPT ![q] = 0]
      BY DEF Commit, EndTx
    <2>2. QED BY <2>1, ConstantsAssumption DEF TypeOK
  <1>10. held' \in [Requests -> SUBSET Products] /\ sweep' \in [Requests -> SUBSET Products]
    BY DEF Commit, EndTx, TypeOK
  <1>11. lines' \in [Requests -> Quantities] /\ quoted' \in [Requests -> Order \cup {Nobody}]
    <2>1. lines' = [lines EXCEPT ![q] = Empty] /\ quoted' = [quoted EXCEPT ![q] = Nobody]
      BY DEF Commit, EndTx
    <2>2. Empty \in Quantities
      BY ConstantsAssumption DEF Empty, Quantities
    <2>3. QED BY <2>1, <2>2 DEF TypeOK
  <1>12. bill' \in [Requests -> [Products -> Nat]] /\ announces' \in [Requests -> [Products -> Nat]]
    <2>1. bill' = [bill EXCEPT ![q] = NoBill] /\ announces' = [announces EXCEPT ![q] = NoBill]
      BY DEF Commit, EndTx
    <2>2. NoBill \in [Products -> Nat]
      BY DEF NoBill
    <2>3. QED BY <2>1, <2>2 DEF TypeOK
  <1>13. \A s \in Requests : pc'[s] \notin TxStates => held'[s] = {} /\ stale'[s] = {}
    <2>1. held'[q] = {} /\ \A s \in Requests \ {q} : pc'[s] = pc[s] /\ held'[s] = held[s]
      BY DEF Commit, EndTx, TypeOK
    <2>2. QED BY <1>2, <2>1 DEF TypeOK
  <1>14. UNCHANGED <<supply, live, view, answer>>
    BY DEF Commit
  <1>15. QED BY <1>2, <1>3, <1>4, <1>5, <1>6, <1>7, <1>8, <1>9, <1>10, <1>11, <1>12, <1>13, <1>14
         DEF TypeOK

LEMMA CommitInv ==
  ASSUME IInv, NEW q \in Requests, Commit(q)
  PROVE  IInv'
  <1> USE ConstantsAssumption, NobodyIsNoOrder DEF IInv
  <1>1. /\ pc[q] = "commit" /\ q \notin Placed /\ held[q] = Needed(q)
        /\ HasInserted(q) /\ AsQuoted(q) /\ Twins(q) = {}
        /\ \A s \in Requests : SameKey(q, s) /\ HasInserted(s) => s = q
        /\ q \in WithCode => HoldsCoupon(q)
    BY OpenNotPlaced
       DEF Commit, TxStates, Locking, Reserved, HasInserted, Agreed, Keys, HoldsCoupon
  <1>2. /\ UNCHANGED <<supply, live, view, answer>>
        /\ order' = [order EXCEPT ![q] = [lines |-> lines[q], bill |-> bill[q]]]
        /\ used' = IF q \in WithCode THEN used + 1 ELSE used
        /\ product' = [p \in Products |->
                         IF p \in Needed(q)
                         THEN [product[p] EXCEPT !.stock = @ - lines[q][p], !.version = @ + 1]
                         ELSE product[p]]
        /\ announced' = [p \in Products |-> announced[p]
                           \cup (IF p \in Needed(q) THEN {announces[q][p]} ELSE {})]
    BY DEF Commit
  <1>3. /\ pc'[q] = "reload" /\ held'[q] = {}
        /\ \A s \in Requests \ {q} :
            /\ pc'[s] = pc[s] /\ held'[s] = held[s] /\ bill'[s] = bill[s]
            /\ announces'[s] = announces[s] /\ lines'[s] = lines[s] /\ quoted'[s] = quoted[s]
    BY DEF Commit, EndTx, TypeOK
  <1>4. \A p \in Products : p \in Needed(q) =>
           /\ announces[q][p] = product[p].version + 1
           /\ product[p].stock >= lines[q][p]
    BY <1>1 DEF Reading, Reserved
  <1>5. \A p \in Products : product[p] \in Product /\ lines[q][p] \in Nat
    BY DEF TypeOK, Quantities
  <1>6. \A p \in Products :
           /\ p \in Needed(q) => product'[p].stock = product[p].stock - lines[q][p]
                                   /\ product'[p].version = product[p].version + 1
           /\ p \notin Needed(q) => product'[p] = product[p]
    BY <1>2, <1>5 DEF Product
  <1>7. order'[q] # Nobody /\ Placed' = Placed \cup {q}
    <2>1. [lines |-> lines[q], bill |-> bill[q]] \in Order
      BY DEF TypeOK, Order
    <2>2. order'[q] # Nobody /\ \A s \in Requests \ {q} : order'[s] = order[s]
      BY <1>2, <2>1 DEF TypeOK
    <2>3. QED BY <2>2 DEF Placed
  <1>8. TypeOK'
    BY CommitType
  <1>9. Locking' /\ Reading'
    <2>1. Locking'
      BY <1>3 DEF Locking, Needed, Reserved
    <2>2. ASSUME NEW s \in Requests \ {q}, pc[s] \in Reserved, NEW p \in Needed(s)
          PROVE  product'[p] = product[p]
      <3>1. p \in held[s] /\ held[s] \cap held[q] = {}
        BY <2>2 DEF Locking
      <3>2. QED BY <1>1, <1>6, <3>1 DEF Needed
    <2>3. Reading'
      BY <1>3, <2>2 DEF Reading, Needed, Reserved
    <2>4. QED BY <2>1, <2>3
  <1>10. Keys' /\ Uses' /\ Agreed'
    <2>1. \A s \in Requests \ {q} : HasInserted(s)' = HasInserted(s) /\ HoldsCoupon(s)' = HoldsCoupon(s)
      BY <1>3 DEF HasInserted, HoldsCoupon
    <2>2. ~HasInserted(q)' /\ ~HoldsCoupon(q)'
      BY <1>3 DEF HasInserted, HoldsCoupon
    <2>3. Keys'
      BY <1>1, <1>7, <2>1, <2>2 DEF Keys, Twins, SameKey
    <2>4. Uses'
      BY <1>1, <1>2, <2>1, <2>2 DEF Uses
    <2>5. Agreed'
      BY <1>3, <2>1, <2>2 DEF Agreed, AsQuoted
    <2>6. QED BY <2>3, <2>4, <2>5
  <1>11. Standing' /\ OneOrderPerKey'
    <2>1. Standing'
      BY <1>3, <1>7 DEF Standing
    <2>2. \A s \in Placed : ~SameKey(q, s) /\ ~SameKey(s, q)
      BY <1>1 DEF Twins, SameKey
    <2>3. (\A r, s \in Placed : SameKey(r, s) => r = s)'
      BY <1>7, <2>2 DEF OneOrderPerKey, SameKey
    <2>4. ASSUME NEW s \in Requests, pc'[s] = "answered" PROVE (answer[s] \in Twins(s))'
      <3>1. s # q /\ answer'[s] = answer[s] /\ answer[s] \in Twins(s)
        BY <1>2, <1>3, <2>4 DEF OneOrderPerKey
      <3>2. QED BY <1>7, <3>1 DEF Twins, SameKey
    <2>5. QED BY <2>1, <2>3, <2>4 DEF OneOrderPerKey
  <1>12. DiscountWithinLimit'
    <2>1. CASE q \in WithCode
      <3>1. used < MaxUses /\ used \in Nat
        BY <1>1, <2>1 DEF Uses, TypeOK
      <3>2. Placed' \cap WithCode = (Placed \cap WithCode) \cup {q} /\ q \notin Placed \cap WithCode
        BY <1>1, <1>7, <2>1
      <3>3. Cardinality(Placed' \cap WithCode) = Cardinality(Placed \cap WithCode) + 1
        BY <3>2, PlacedFinite, FS_AddElement
      <3>4. used = Cardinality(Placed \cap WithCode) /\ used' = used + 1 /\ MaxUses \in Nat
        BY <1>2, <2>1 DEF DiscountWithinLimit
      <3>5. used' <= MaxUses /\ used' = Cardinality(Placed' \cap WithCode)
        BY <3>1, <3>3, <3>4
      <3>6. QED BY <3>5 DEF DiscountWithinLimit
    <2>2. CASE q \notin WithCode
      <3>1. Placed' \cap WithCode = Placed \cap WithCode
        BY <1>7, <2>2
      <3>2. QED BY <1>2, <2>2, <3>1 DEF DiscountWithinLimit
    <2>3. QED BY <2>1, <2>2
  <1>13. NeverOversold'
    BY <1>4, <1>5, <1>6 DEF NeverOversold, Product
  <1>14. EveryVersionAnnounced'
    <2> SUFFICES ASSUME NEW p \in Products PROVE announced'[p] = 0..product'[p].version
      BY DEF EveryVersionAnnounced
    <2>1. announced[p] = 0..product[p].version /\ product[p].version \in Nat
      BY <1>5 DEF EveryVersionAnnounced, Product
    <2>2. CASE p \in Needed(q)
      <3>1. announced'[p] = (0..product[p].version) \cup {product[p].version + 1}
        BY <1>2, <1>4, <2>1, <2>2
      <3>2. QED BY <1>6, <2>1, <2>2, <3>1
    <2>3. CASE p \notin Needed(q)
      BY <1>2, <1>6, <2>1, <2>3
    <2>4. QED BY <2>2, <2>3
  <1>15. QED BY <1>8, <1>9, <1>10, <1>11, <1>12, <1>13, <1>14

-----------------------------------------------------------------------------
(* Every step, and the theorems.                                             *)

\* A deadlock victim, a refused commit, a failure: the transaction is undone.
LEMMA AbortInv ==
  ASSUME IInv, NEW q \in Requests, DeadlockVictim(q) \/ CommitRefused(q) \/ Lose(q)
  PROVE  IInv'
  <1>1. CASE DeadlockVictim(q)
    BY <1>1, OpenNotPlaced, RawConflictInv DEF DeadlockVictim, TxStates
  <1>2. CASE CommitRefused(q)
    BY <1>2, OpenNotPlaced, ConflictInv DEF CommitRefused, TxStates
  <1>3. CASE Lose(q)
    BY <1>3, RollbackInv DEF Lose, Failure, Final
  <1>4. QED BY <1>1, <1>2, <1>3

LEMMA StepInv == IInv /\ [Next]_vars => IInv'
  <1> SUFFICES ASSUME IInv, [Next]_vars PROVE IInv'
    OBVIOUS
  <1>1. ASSUME NEW q \in Requests, RequestStep(q) \/ Quote(q) \/ CommitRefused(q) \/ Lose(q)
        PROVE  IInv'
    <2>1. CASE \/ Quote(q) \/ Lookup(q) \/ ReadCart(q) \/ Begin(q) \/ Reload(q)
               \/ AnswerAfterConflict(q)
      BY <2>1, OutsideSteps
    <2>2. ASSUME NEW p \in Products, LockProduct(q, p) PROVE IInv'
      BY <2>2, LockProductInv
    <2>3. CASE Reserve(q)
      BY <2>3, ReserveInv
    <2>4. CASE CheckCode(q) \/ TakeCoupon(q) \/ InsertOrder(q) \/ ClearCart(q)
      BY <2>4, InsideSteps
    <2>5. CASE Commit(q)
      BY <2>5, CommitInv
    <2>6. CASE DeadlockVictim(q) \/ CommitRefused(q) \/ Lose(q)
      BY <2>6, AbortInv
    <2>7. QED BY <1>1, <2>1, <2>2, <2>3, <2>4, <2>5, <2>6 DEF RequestStep
  <1>2. CASE Environment
    BY <1>2, EnvironmentInv, AdminUpdateInv DEF Environment
  <1>3. CASE UNCHANGED vars
    <2>1. TypeOK'
      BY <1>3 DEF IInv, TypeOK, vars, catalogue, discount, reqVars, txVars
    <2>2. QED BY <1>3, <2>1, FrameInv DEF vars, catalogue, discount, reqVars, txVars
  <1>4. QED BY <1>1, <1>2, <1>3 DEF Next

THEOREM Invariance == Spec => []IInv
  <1>1. QED BY InitInv, StepInv, PTL DEF Spec

\* Checkout keeps every table, lock and snapshot within its type, and no
\* request holds a row lock outside its transaction.
THEOREM TypeCorrect == Spec => []TypeOK
  <1>1. IInv => TypeOK
    BY DEF IInv
  <1>2. QED BY <1>1, Invariance, PTL

\* However many requests carry a customer's Idempotency-Key, one order exists
\* for it and every response names that order.
THEOREM OneOrder == Spec => []OneOrderPerKey
  <1>1. IInv => OneOrderPerKey
    BY DEF IInv
  <1>2. QED BY <1>1, Invariance, PTL

\* incrementDiscountUsage, inside concurrent and aborted transactions, counts
\* exactly the orders that used the code and never exceeds maxUses.
THEOREM DiscountLimit == Spec => []DiscountWithinLimit
  <1>1. IInv => DiscountWithinLimit
    BY DEF IInv
  <1>2. QED BY <1>1, Invariance, PTL

\* Checkout and the administrators announce each version a product reaches, and
\* no version it has not reached.
THEOREM VersionsAnnounced == Spec => []EveryVersionAnnounced
  <1>1. IInv => EveryVersionAnnounced
    BY DEF IInv
  <1>2. QED BY <1>1, Invariance, PTL

-----------------------------------------------------------------------------
(* Stock: what was put on sale is on the shelf or ordered.                   *)

Conserved == \A p \in Products : Sold(p) = supply[p] - product[p].stock

\* Commits and administrators alone touch orders and stock.
LEMMA OnlyCommitAndUpdate ==
  ASSUME Next, \A q \in Requests : ~Commit(q), \A a \in Admins : ~AdminUpdate(a)
  PROVE  UNCHANGED <<order, product, supply>>
  <1> USE DEF catalogue, discount, reqVars, txVars, Go, Rollback
  <1>1. CASE Environment
    BY <1>1 DEF Environment, SetCartItem, EmptyCart, AdminRead, CouponExpires
  <1>2. ASSUME NEW q \in Requests, RequestStep(q) \/ Quote(q) \/ CommitRefused(q) \/ Lose(q)
        PROVE  UNCHANGED <<order, product, supply>>
    <2>1. CASE Quote(q) \/ CommitRefused(q) \/ Lose(q)
      BY <2>1 DEF Quote, CommitRefused, Lose, Failure, Conflict
    <2>2. CASE Lookup(q) \/ ReadCart(q) \/ Begin(q) \/ Reload(q) \/ AnswerAfterConflict(q)
      BY <2>2 DEF Lookup, ReadCart, Begin, Reload, AnswerAfterConflict, AnswerTwin
    <2>3. CASE DeadlockVictim(q) \/ \E p \in Products : LockProduct(q, p)
      BY <2>3 DEF DeadlockVictim, LockProduct, RawConflict, Conflict, Failure
    <2>4. CASE Reserve(q) \/ CheckCode(q) \/ TakeCoupon(q) \/ InsertOrder(q) \/ ClearCart(q)
      BY <2>4 DEF Reserve, CheckCode, TakeCoupon, InsertOrder, ClearCart, Reject, Conflict
    <2>5. QED BY <1>2, <2>1, <2>2, <2>3, <2>4 DEF RequestStep
  <1>3. QED BY <1>1, <1>2 DEF Next

\* A commit sells what it takes from the stock.
LEMMA CommitSells ==
  ASSUME IInv, NEW q \in Requests, Commit(q), NEW p \in Products
  PROVE  /\ Sold(p) \in Int /\ lines[q][p] \in Nat
         /\ Sold(p)' = Sold(p) + lines[q][p]
         /\ product'[p].stock = product[p].stock - lines[q][p]
  <1> DEFINE f == [s \in Requests |-> IF s \in Placed THEN order[s].lines[p] ELSE 0]
             g == [s \in Requests |-> IF s \in Placed' THEN order'[s].lines[p] ELSE 0]
  <1>1. TypeOK /\ TypeOK' /\ q \notin Placed
    BY CommitType, OpenNotPlaced DEF IInv, Commit, TxStates
  <1>2. /\ lines[q] \in Quantities /\ bill[q] \in [Products -> Nat] /\ lines[q][p] \in Nat
        /\ product[p] \in Product
    BY <1>1, ConstantsAssumption DEF TypeOK, Quantities
  <1>3. /\ order' = [order EXCEPT ![q] = [lines |-> lines[q], bill |-> bill[q]]]
        /\ order \in [Requests -> Order \cup {Nobody}]
        /\ order' \in [Requests -> Order \cup {Nobody}]
    BY <1>1 DEF Commit, TypeOK
  <1>4. [lines |-> lines[q], bill |-> bill[q]] \in Order
    BY <1>2 DEF Order
  <1>5. order'[q].lines = lines[q] /\ Placed' = Placed \cup {q}
    BY <1>3, <1>4, NobodyIsNoOrder DEF Placed
  <1>6. ASSUME NEW o \in Order PROVE o.lines[p] \in Int
    BY ConstantsAssumption DEF Order, Quantities
  <1>7. f \in [Requests -> Int] /\ g \in [Requests -> Int]
    BY <1>3, <1>6 DEF Placed
  <1>8. f[q] = 0 /\ g[q] = lines[q][p] /\ \A s \in Requests \ {q} : g[s] = f[s]
    BY <1>1, <1>3, <1>5
  <1>9. Sold(p) = SumFunction(f) /\ Sold(p)' = SumFunction(g)
    BY DEF Sold
  <1> HIDE DEF f, g
  <1>10. Sold(p) \in Int /\ Sold(p)' = Sold(p) + lines[q][p]
    BY <1>2, <1>7, <1>8, <1>9, SumChangesAt, ConstantsAssumption
  <1>11. product'[p] = IF p \in Needed(q)
                       THEN [product[p] EXCEPT !.stock = @ - lines[q][p], !.version = @ + 1]
                       ELSE product[p]
    BY DEF Commit
  <1>12. product'[p].stock = product[p].stock - lines[q][p]
    BY <1>2, <1>11 DEF Needed, Product
  <1>13. QED BY <1>2, <1>10, <1>12

\* An administrator who sets a stock counts the difference as put on sale.
LEMMA UpdateSupplies ==
  ASSUME IInv, NEW a \in Admins, AdminUpdate(a), NEW p \in Products
  PROVE  /\ UNCHANGED order
         /\ supply'[p] - product'[p].stock = supply[p] - product[p].stock
  <1>1. PICK row : row \in Product /\ AdminWrite(a, row)
    <2>1. view[a] # Nobody /\ view[a].of \in Products /\ view[a].active \in BOOLEAN
      BY DEF IInv, TypeOK, AdminUpdate
    <2> DEFINE now == product[view[a].of]
    <2>2. now \in Product
      BY <2>1 DEF IInv, TypeOK
    <2>3. \/ \E c \in Prices : AdminWrite(a, [now EXCEPT !.price = c])
          \/ \E n \in 0..InitialStock : AdminWrite(a, [now EXCEPT !.stock = n])
          \/ AdminWrite(a, [now EXCEPT !.active = ~view[a].active])
      BY DEF AdminUpdate
    <2> HIDE DEF now
    <2>4. \A c \in Prices : [now EXCEPT !.price = c] \in Product
      BY <2>2, ConstantsAssumption DEF Product
    <2>5. \A n \in 0..InitialStock : [now EXCEPT !.stock = n] \in Product
      BY <2>2, ConstantsAssumption DEF Product
    <2>6. [now EXCEPT !.active = ~view[a].active] \in Product
      BY <2>1, <2>2 DEF Product
    <2>7. QED BY <2>3, <2>4, <2>5, <2>6
  <1>2. product \in [Products -> Product] /\ supply \in [Products -> Int]
    BY DEF IInv, TypeOK
  <1>3. /\ UNCHANGED order
        /\ product' = [product EXCEPT ![view[a].of] =
                          [row EXCEPT !.version = product[view[a].of].version + 1]]
        /\ supply' = [supply EXCEPT ![view[a].of] = @ + row.stock - product[view[a].of].stock]
    BY <1>1 DEF AdminWrite
  <1>4. CASE p = view[a].of
    <2>1. product'[p].stock = row.stock /\ supply'[p] = supply[p] + row.stock - product[p].stock
      BY <1>1, <1>2, <1>3, <1>4 DEF Product
    <2>2. row.stock \in Int /\ product[p].stock \in Int /\ supply[p] \in Int
      BY <1>1, <1>2 DEF Product
    <2>3. QED BY <1>3, <2>1, <2>2
  <1>5. CASE p # view[a].of
    BY <1>2, <1>3, <1>5 DEF Product
  <1>6. QED BY <1>4, <1>5

\* Orders, their retries and duplicates neither create stock nor lose any, whatever
\* stock administrators set between them, and no stock is negative.
THEOREM StockAccounted == Spec => []StockConserved
  <1>1. Init => Conserved
    <2> SUFFICES ASSUME Init, NEW p \in Products PROVE Sold(p) = supply[p] - product[p].stock
      BY DEF Conserved
    <2>1. [q \in Requests |-> IF q \in Placed THEN order[q].lines[p] ELSE 0]
            = [q \in Requests |-> 0]
      BY DEF Init, Placed
    <2>2. Sold(p) = 0
      BY <2>1, SumOfZeros, ConstantsAssumption DEF Sold
    <2>3. QED BY <2>2, ConstantsAssumption DEF Init
  <1>2. ASSUME IInv, Conserved, [Next]_vars PROVE Conserved'
    <2> SUFFICES ASSUME NEW p \in Products
                 PROVE  Sold(p)' = supply'[p] - product'[p].stock
      BY DEF Conserved
    <2>1. /\ Sold(p) = supply[p] - product[p].stock
          /\ product[p].stock \in Int /\ supply[p] \in Int
      BY <1>2 DEF Conserved, IInv, TypeOK, Product
    <2>2. ASSUME NEW q \in Requests, Commit(q)
          PROVE  Sold(p)' = supply'[p] - product'[p].stock
      <3>1. supply' = supply
        BY <2>2 DEF Commit
      <3>2. QED BY <1>2, <2>1, <2>2, <3>1, CommitSells
    <2>3. ASSUME UNCHANGED order PROVE Sold(p)' = Sold(p)
      BY <2>3 DEF Sold, Placed
    <2>4. ASSUME NEW a \in Admins, AdminUpdate(a)
          PROVE  Sold(p)' = supply'[p] - product'[p].stock
      <3>1. UNCHANGED order /\ supply'[p] - product'[p].stock = supply[p] - product[p].stock
        BY <1>2, <2>4, UpdateSupplies
      <3>2. QED BY <2>1, <2>3, <3>1
    <2>5. ASSUME UNCHANGED <<order, product, supply>>
          PROVE  Sold(p)' = supply'[p] - product'[p].stock
      BY <2>1, <2>3, <2>5
    <2>6. QED BY <1>2, <2>2, <2>4, <2>5, OnlyCommitAndUpdate
              DEF vars, catalogue
  <1>3. ASSUME IInv, Conserved PROVE StockConserved
    <2>1. \A p \in Products : product[p].stock \in Int /\ supply[p] \in Int
      BY <1>3 DEF IInv, TypeOK, Product
    <2>2. QED BY <1>3, <2>1 DEF IInv, Conserved, StockConserved
  <1>4. QED BY <1>1, <1>2, <1>3, Invariance, PTL DEF Spec

-----------------------------------------------------------------------------
(* The price charged.                                                        *)

\* Only a commit creates an order.
LEMMA OnlyCommitOrders ==
  ASSUME Next, NEW q \in Requests, TypeOK, order[q] = Nobody, order'[q] # Nobody
  PROVE  Commit(q)
  <1>1. \A a \in Admins : ~AdminUpdate(a)
    BY DEF AdminUpdate, AdminWrite
  <1>2. PICK s \in Requests : Commit(s)
    BY <1>1, OnlyCommitAndUpdate
  <1>3. s = q
    BY <1>2 DEF Commit, TypeOK
  <1>4. QED BY <1>2, <1>3

\* The locked prices are those in force at the commit, and the total the
\* customer reviewed is the one the order is charged at.
THEOREM Charged == Spec => ChargedAsAgreed
  <1> DEFINE Agreement(q) ==
        /\ \A p \in Needed(q) : order'[q].bill[p] = product[p].price
        /\ q \in Careful =>
             Total(q, order'[q].lines, order'[q].bill)
               = Total(q, quoted[q].lines, quoted[q].bill)
  <1>1. ASSUME IInv, Next, NEW q \in Requests, order[q] = Nobody, order'[q] # Nobody
        PROVE  Agreement(q)
    <2>1. Commit(q) /\ TypeOK
      BY <1>1, OnlyCommitOrders DEF IInv
    <2>2. order'[q].lines = lines[q] /\ order'[q].bill = bill[q] /\ pc[q] = "commit"
      BY <2>1 DEF Commit, TypeOK
    <2>3. \A p \in Needed(q) : bill[q][p] = product[p].price
      BY <1>1, <2>2 DEF IInv, Reading, Reserved, Needed
    <2>4. AsQuoted(q)
      BY <1>1, <2>2 DEF IInv, Agreed, HasInserted
    <2>5. QED BY <2>2, <2>3, <2>4 DEF AsQuoted
  <1>2. IInv /\ [Next]_vars =>
          [\A q \in Requests : order[q] = Nobody /\ order'[q] # Nobody => Agreement(q)]_vars
    BY <1>1
  <1>3. QED BY <1>2, Invariance, PTL DEF Spec, ChargedAsAgreed
=============================================================================
