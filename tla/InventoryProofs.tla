--------------------------- MODULE InventoryProofs ---------------------------
(***************************************************************************)
(* Proofs about the stock tables, for any products, orders, demands and    *)
(* initial stock.                                                          *)
(***************************************************************************)
EXTENDS Inventory, FiniteSetTheorems, WellFoundedInduction, TLAPS

\* A quantity is a natural number: zero for a product the order does not ask.
LEMMA QuantityType ==
  ASSUME NEW o \in Orders, NEW p
  PROVE  Quantity(o, p) \in Nat
  BY StockAssumption DEF StockConstants, Quantity

\* A product is created with a natural number of units.
LEMMA InitialStockType == ASSUME NEW p \in Products PROVE InitialStock[p] \in Nat
  BY StockAssumption DEF StockConstants

\* What the rows of an order hold is a natural number.
LEMMA HeldType ==
  ASSUME TypeOK, NEW o \in Orders, NEW p
  PROVE  Held(o, p) \in Nat
<1>1. Quantity(o, p) \in Nat
  BY QuantityType
<1>2. rows[o]["RESERVED"] \in Nat
  BY DEF TypeOK, RowStatus
<1>3. \A m, n \in Nat : m * n \in Nat
  OBVIOUS
<1> QED
  BY <1>1, <1>2, <1>3 DEF Held

\* The two ways a transaction moves rows keep their type.
LEMMA RowsType ==
  ASSUME TypeOK, NEW o \in Orders, NEW status \in RowStatus, MoveRows(o, status)
  PROVE  rows' \in [Orders -> [RowStatus -> Nat]]
  BY DEF TypeOK, MoveRows, RowStatus

\* Each RPC keeps the types.
LEMMA ReserveTyped ==
  ASSUME TypeOK, NEW o \in Orders, NEW code, ReserveStock(o, code)
  PROVE  TypeOK'
<1>1. CASE UNCHANGED <<reserved, rows>>
  BY <1>1 DEF TypeOK, ReserveStock
<1>2. CASE Reserve(o)
  <2>1. reserved' \in [Products -> Int]
    BY <1>2, QuantityType DEF TypeOK, Reserve
  <2>2. rows' \in [Orders -> [RowStatus -> Nat]]
    BY <1>2 DEF TypeOK, Reserve, RowStatus
  <2> QED
    BY <2>1, <2>2 DEF TypeOK, ReserveStock
<1> QED
  BY <1>1, <1>2 DEF ReserveStock

LEMMA ReleaseTyped ==
  ASSUME TypeOK, NEW o \in Orders, NEW code, ReleaseStock(o, code)
  PROVE  TypeOK'
<1>1. CASE NothingReserved(o, code)
  BY <1>1 DEF TypeOK, ReleaseStock, NothingReserved
<1>2. CASE ~ NothingReserved(o, code)
  <2>1. reserved' \in [Products -> Int]
    BY <1>2, HeldType DEF TypeOK, ReleaseStock
  <2>2. rows' \in [Orders -> [RowStatus -> Nat]]
    BY <1>2, RowsType DEF ReleaseStock, RowStatus
  <2> QED
    BY <1>2, <2>1, <2>2 DEF TypeOK, ReleaseStock
<1> QED
  BY <1>1, <1>2

LEMMA DecrementTyped ==
  ASSUME TypeOK, NEW o \in Orders, NEW code, DecrementStock(o, code)
  PROVE  TypeOK'
<1>1. CASE NothingReserved(o, code)
  BY <1>1 DEF TypeOK, DecrementStock, NothingReserved
<1>2. CASE ~ NothingReserved(o, code)
  <2>1. reserved' \in [Products -> Int] /\ available' \in [Products -> Int]
    BY <1>2, HeldType DEF TypeOK, DecrementStock
  <2>2. rows' \in [Orders -> [RowStatus -> Nat]]
    BY <1>2, RowsType DEF DecrementStock, RowStatus
  <2> QED
    BY <1>2, <2>1, <2>2 DEF TypeOK, DecrementStock
<1> QED
  BY <1>1, <1>2

\* The catalogue operations keep the types.
LEMMA CatalogueTyped ==
  ASSUME TypeOK, NEW p \in Products, CreateProduct(p) \/ UpdateProduct(p)
  PROVE  TypeOK'
<1>1. CASE CreateProduct(p)
  BY <1>1, InitialStockType DEF TypeOK, CreateProduct
<1>2. CASE UpdateProduct(p)
  BY <1>2 DEF TypeOK, UpdateProduct
<1> QED
  BY <1>1, <1>2

\* Every variable of the stock tables keeps its type.
THEOREM StockTyped == Spec => []TypeOK
<1>1. Init => TypeOK
  BY InitialStockType DEF Init, TypeOK, RowStatus
<1>2. TypeOK /\ [Next]_vars => TypeOK'
  <2> SUFFICES ASSUME TypeOK, [Next]_vars PROVE TypeOK'
    OBVIOUS
  <2>1. CASE UNCHANGED vars
    BY <2>1 DEF vars, TypeOK
  <2>2. CASE Next
    BY <2>2, CatalogueTyped, ReserveTyped, ReleaseTyped, DecrementTyped DEF Next
  <2> QED
    BY <2>1, <2>2
<1> QED
  BY <1>1, <1>2, PTL DEF Spec

-----------------------------------------------------------------------------

\* Each operation keeps reserved within available.  Reserve tests the free
\* stock; Release and Decrement take the same held quantity from a column
\* the CHECK constraints keep at or above zero.
LEMMA ReserveKeeps ==
  ASSUME TypeOK, NoOversell, NEW o \in Orders, NEW code, ReserveStock(o, code)
  PROVE  NoOversell'
<1> SUFFICES ASSUME NEW p \in Products
             PROVE  0 <= reserved'[p] /\ reserved'[p] <= available'[p]
  BY DEF NoOversell
<1>1. available' = available /\ available[p] \in Int /\ reserved[p] \in Int
  BY DEF TypeOK, ReserveStock
<1>2. 0 <= reserved[p] /\ reserved[p] <= available[p]
  BY DEF NoOversell
<1>3. CASE UNCHANGED <<reserved, rows>>
  BY <1>1, <1>2, <1>3
<1>4. CASE Enough(o) /\ Reserve(o)
  <2>1. reserved'[p] = reserved[p] + Quantity(o, p)
    BY <1>4 DEF Reserve
  <2>2. Quantity(o, p) <= available[p] - reserved[p]
    BY <1>4 DEF Enough, Free
  <2> QED
    BY <1>1, <1>2, <2>1, <2>2, QuantityType
<1> QED
  BY <1>3, <1>4 DEF ReserveStock

LEMMA ReleaseKeeps ==
  ASSUME TypeOK, NoOversell, NEW o \in Orders, NEW code, ReleaseStock(o, code)
  PROVE  NoOversell'
<1> SUFFICES ASSUME NEW p \in Products
             PROVE  0 <= reserved'[p] /\ reserved'[p] <= available'[p]
  BY DEF NoOversell
<1>1. available[p] \in Int /\ reserved[p] \in Int /\ Held(o, p) \in Nat
  BY HeldType DEF TypeOK
<1>2. 0 <= reserved[p] /\ reserved[p] <= available[p]
  BY DEF NoOversell
<1>3. CASE NothingReserved(o, code)
  BY <1>2, <1>3 DEF NothingReserved
<1>4. CASE ~ NothingReserved(o, code)
  <2>1. /\ reserved'[p] = reserved[p] - Held(o, p)
        /\ reserved'[p] >= 0
        /\ available' = available
    BY <1>4 DEF ReleaseStock
  <2> QED
    BY <1>1, <1>2, <2>1
<1> QED
  BY <1>3, <1>4

LEMMA DecrementKeeps ==
  ASSUME TypeOK, NoOversell, NEW o \in Orders, NEW code, DecrementStock(o, code)
  PROVE  NoOversell'
<1> SUFFICES ASSUME NEW p \in Products
             PROVE  0 <= reserved'[p] /\ reserved'[p] <= available'[p]
  BY DEF NoOversell
<1>1. available[p] \in Int /\ reserved[p] \in Int /\ Held(o, p) \in Nat
  BY HeldType DEF TypeOK
<1>2. 0 <= reserved[p] /\ reserved[p] <= available[p]
  BY DEF NoOversell
<1>3. CASE NothingReserved(o, code)
  BY <1>2, <1>3 DEF NothingReserved
<1>4. CASE ~ NothingReserved(o, code)
  <2>1. /\ reserved'[p] = reserved[p] - Held(o, p)
        /\ reserved'[p] >= 0
        /\ available'[p] = available[p] - Held(o, p)
    BY <1>4 DEF DecrementStock
  <2> QED
    BY <1>1, <1>2, <2>1
<1> QED
  BY <1>3, <1>4

\* What creating a product needs: nothing of it is reserved before.
Unlisted == \A p \in Products \ listed : reserved[p] = 0

LEMMA CatalogueKeeps ==
  ASSUME TypeOK, NoOversell, Unlisted, NEW q \in Products,
         CreateProduct(q) \/ UpdateProduct(q)
  PROVE  NoOversell'
<1> SUFFICES ASSUME NEW p \in Products
             PROVE  0 <= reserved'[p] /\ reserved'[p] <= available'[p]
  BY DEF NoOversell
<1>1. 0 <= reserved[p] /\ reserved[p] <= available[p] /\ reserved' = reserved
  BY DEF NoOversell, CreateProduct, UpdateProduct
<1>2. CASE UpdateProduct(q)
  BY <1>1, <1>2 DEF UpdateProduct
<1>3. CASE CreateProduct(q) /\ p # q
  BY <1>1, <1>3 DEF CreateProduct, TypeOK
<1>4. CASE CreateProduct(q) /\ p = q
  <2>1. reserved[p] = 0
    BY <1>4 DEF Unlisted, CreateProduct
  <2>2. available'[p] = InitialStock[p]
    BY <1>4 DEF CreateProduct, TypeOK
  <2> QED
    BY <1>1, <2>1, <2>2, InitialStockType
<1> QED
  BY <1>2, <1>3, <1>4

\* A product that does not exist yet has nothing reserved: an order can
\* reserve only products that are listed.
LEMMA UnlistedKept ==
  ASSUME TypeOK, Unlisted, NoOversell, [Next]_vars
  PROVE  Unlisted'
<1> SUFFICES ASSUME NEW p \in Products \ listed' PROVE reserved'[p] = 0
  BY DEF Unlisted
<1>1. p \notin listed /\ reserved[p] = 0
  <2>1. listed \subseteq listed'
    BY DEF Next, vars, CreateProduct, UpdateProduct, ReserveStock, ReleaseStock, DecrementStock
  <2> QED
    BY <2>1 DEF Unlisted
<1>2. CASE UNCHANGED vars
  BY <1>1, <1>2 DEF vars
<1>3. ASSUME NEW q \in Products, CreateProduct(q) \/ UpdateProduct(q)
      PROVE  reserved'[p] = 0
  BY <1>1, <1>3 DEF CreateProduct, UpdateProduct
<1>4. ASSUME NEW o \in Orders, NEW code, ReserveStock(o, code)
      PROVE  reserved'[p] = 0
  <2>1. CASE UNCHANGED <<reserved, rows>>
    BY <1>1, <2>1
  <2>2. CASE DOMAIN Demand[o] \subseteq listed /\ Reserve(o)
    <3>1. Quantity(o, p) = 0
      BY <1>1, <2>2 DEF Quantity
    <3>2. reserved'[p] = reserved[p] + Quantity(o, p)
      BY <2>2 DEF Reserve
    <3> QED
      BY <1>1, <3>1, <3>2
  <2> QED
    BY <1>4, <2>1, <2>2 DEF ReserveStock
<1>5. ASSUME NEW o \in Orders, NEW code, ReleaseStock(o, code) \/ DecrementStock(o, code)
      PROVE  reserved'[p] = 0
  <2>1. CASE NothingReserved(o, code)
    BY <1>1, <2>1 DEF NothingReserved
  <2>2. CASE ~ NothingReserved(o, code)
    <3>1. reserved'[p] = reserved[p] - Held(o, p) /\ reserved'[p] >= 0
      BY <1>5, <2>2 DEF ReleaseStock, DecrementStock
    <3> QED
      BY <1>1, <3>1, HeldType
  <2> QED
    BY <2>1, <2>2
<1> QED
  BY <1>2, <1>3, <1>4, <1>5 DEF Next

\* Stock is never promised twice, in any inventory and however many orders
\* reserve, release and buy concurrently.
THEOREM NeverOversells == Spec => []NoOversell
<1>1. Init => NoOversell /\ Unlisted
  <2> SUFFICES ASSUME Init PROVE NoOversell /\ Unlisted
    OBVIOUS
  <2>1. \A p \in Products : reserved[p] = 0 /\ available[p] >= 0
    BY InitialStockType DEF Init
  <2> QED
    BY <2>1 DEF NoOversell, Unlisted
<1>2. TypeOK /\ NoOversell /\ Unlisted /\ [Next]_vars => NoOversell' /\ Unlisted'
  <2> SUFFICES ASSUME TypeOK, NoOversell, Unlisted, [Next]_vars PROVE NoOversell'
    BY UnlistedKept
  <2>1. CASE UNCHANGED vars
    BY <2>1 DEF vars, NoOversell
  <2>2. CASE Next
    BY <2>2, CatalogueKeeps, ReserveKeeps, ReleaseKeeps, DecrementKeeps DEF Next
  <2> QED
    BY <2>1, <2>2
<1> QED
  BY <1>1, <1>2, StockTyped, PTL DEF Spec

-----------------------------------------------------------------------------
(* Sums over finite sets.  SumFunctionOnSet is a recursive function on the *)
(* subsets of a set; that it exists is proved along strict inclusion, by   *)
(* looking at a smallest set without it.                                   *)

Pick(U) == CHOOSE x \in U : TRUE

Unfolded(f, S, g) ==
  g = [U \in SUBSET S |-> IF U = {} THEN 0 ELSE f[Pick(U)] + g[U \ {Pick(U)}]]

Summing(f, S) == CHOOSE g : Unfolded(f, S, g)

\* A set of subsets of a finite set has a member that contains no other.
LEMMA SmallestSubset ==
  ASSUME NEW S, IsFiniteSet(S), NEW B, B \subseteq SUBSET S, B # {}
  PROVE  \E T \in B : \A U \in B : U \subseteq T => U = T
<1>1. IsWellFoundedOn(StrictSubsetOrdering(S), SUBSET S)
  BY FS_StrictSubsetOrderingWellFounded, FS_FiniteSubsetsOfFinite
<1>2. PICK T \in B : \A U \in B : <<U, T>> \notin StrictSubsetOrdering(S)
  BY <1>1, WFMin
<1> QED BY <1>2 DEF StrictSubsetOrdering

\* Two such functions agree where both are defined.
LEMMA SummingUnique ==
  ASSUME NEW f, NEW S, NEW T, NEW g, NEW h, Unfolded(f, S, g), Unfolded(f, T, h),
         NEW U, IsFiniteSet(U), U \subseteq S, U \subseteq T
  PROVE  g[U] = h[U]
<1> DEFINE Bad == {V \in SUBSET U : g[V] # h[V]}
<1>1. SUFFICES Bad = {}
  OBVIOUS
<1>2. ASSUME Bad # {} PROVE FALSE
  <2>1. PICK V \in Bad : \A W \in Bad : W \subseteq V => W = V
    <3>1. Bad \subseteq SUBSET U
      OBVIOUS
    <3> HIDE DEF Bad
    <3> QED BY <1>2, <3>1, SmallestSubset
  <2>2. V # {} /\ Pick(V) \in V
    BY <2>1 DEF Unfolded, Pick
  <2>3. g[V \ {Pick(V)}] = h[V \ {Pick(V)}]
    BY <2>1, <2>2
  <2>4. g[V] = f[Pick(V)] + g[V \ {Pick(V)}] /\ h[V] = f[Pick(V)] + h[V \ {Pick(V)}]
    BY <2>1, <2>2 DEF Unfolded
  <2> QED BY <2>1, <2>3, <2>4
<1> QED BY <1>2

\* There is one for every finite set.
LEMMA SummingExists ==
  ASSUME NEW f, NEW S, IsFiniteSet(S)
  PROVE  Unfolded(f, S, Summing(f, S))
<1> DEFINE Bad == {T \in SUBSET S : ~ Unfolded(f, T, Summing(f, T))}
<1>1. SUFFICES Bad = {}
  OBVIOUS
<1>2. ASSUME Bad # {} PROVE FALSE
  <2>1. PICK T \in Bad : \A U \in Bad : U \subseteq T => U = T
    <3>1. Bad \subseteq SUBSET S
      OBVIOUS
    <3> HIDE DEF Bad
    <3> QED BY <1>2, <3>1, SmallestSubset
  <2>2. \A U \in SUBSET T : U # T => Unfolded(f, U, Summing(f, U))
    BY <2>1
  <2> DEFINE rest(U) == U \ {Pick(U)}
             g == [U \in SUBSET T |->
                     IF U = {} THEN 0 ELSE f[Pick(U)] + Summing(f, rest(U))[rest(U)]]
  <2>3. ASSUME NEW U \in SUBSET T, U # {} PROVE g[rest(U)] = Summing(f, rest(U))[rest(U)]
    <3>1. Pick(U) \in U /\ rest(U) \in SUBSET T /\ rest(U) # T
      BY <2>3 DEF Pick
    <3>2. Unfolded(f, rest(U), Summing(f, rest(U)))
      BY <2>2, <3>1
    <3>3. CASE rest(U) = {}
      BY <3>1, <3>2, <3>3 DEF Unfolded
    <3>4. CASE rest(U) # {}
      <4> DEFINE V == rest(U)
      <4> HIDE DEF V
      <4>1. Pick(V) \in V /\ rest(V) \in SUBSET V /\ V \in SUBSET T /\ V # T /\ V # {}
        BY <3>1, <3>4 DEF Pick, V
      <4>2. Unfolded(f, rest(V), Summing(f, rest(V))) /\ Unfolded(f, V, Summing(f, V))
        BY <2>2, <4>1
      <4>3. IsFiniteSet(rest(V))
        BY <4>1, FS_Subset
      <4>4. Summing(f, V)[rest(V)] = Summing(f, rest(V))[rest(V)]
        BY <4>1, <4>2, <4>3, SummingUnique
      <4>5. Summing(f, V)[V] = f[Pick(V)] + Summing(f, V)[rest(V)]
        BY <4>1, <4>2 DEF Unfolded
      <4>6. g[V] = f[Pick(V)] + Summing(f, rest(V))[rest(V)]
        BY <4>1
      <4> QED BY <4>4, <4>5, <4>6 DEF V
    <3> QED BY <3>3, <3>4
  <2>4. Unfolded(f, T, g)
    BY <2>3 DEF Unfolded
  <2>5. Unfolded(f, T, Summing(f, T))
    BY <2>4 DEF Summing
  <2> QED BY <2>1, <2>5
<1> QED BY <1>2

\* The sum takes one element after the other.
LEMMA SumUnfolds ==
  ASSUME NEW f, NEW S, IsFiniteSet(S)
  PROVE  SumFunctionOnSet(f, S) =
           IF S = {} THEN 0 ELSE f[Pick(S)] + SumFunctionOnSet(f, S \ {Pick(S)})
<1>1. ASSUME NEW T PROVE SumFunctionOnSet(f, T) = Summing(f, T)[T]
  BY DEF SumFunctionOnSet, FoldFunctionOnSet, MapThenFoldSet, Summing, Unfolded, Pick
<1>2. Unfolded(f, S, Summing(f, S))
  BY SummingExists
<1>3. CASE S = {}
  BY <1>1, <1>2, <1>3 DEF Unfolded
<1>4. CASE S # {}
  <2> DEFINE T == S \ {Pick(S)}
  <2>1. Pick(S) \in S /\ T \subseteq S /\ IsFiniteSet(T)
    BY <1>4, FS_RemoveElement DEF Pick
  <2>2. Unfolded(f, T, Summing(f, T))
    BY <2>1, SummingExists
  <2>3. Summing(f, S)[T] = Summing(f, T)[T]
    BY <1>2, <2>1, <2>2, SummingUnique
  <2>4. Summing(f, S)[S] = f[Pick(S)] + Summing(f, S)[T]
    BY <1>2, <1>4 DEF Unfolded
  <2> QED BY <1>1, <1>4, <2>3, <2>4
<1> QED BY <1>3, <1>4

\* Two functions of integers that differ at o only have sums of integers that
\* differ as much.
LEMMA SumChange ==
  ASSUME NEW S, IsFiniteSet(S), NEW f, NEW g, NEW o,
         \A x \in S : f[x] \in Int /\ g[x] \in Int, \A x \in S \ {o} : g[x] = f[x]
  PROVE  /\ SumFunctionOnSet(f, S) \in Int /\ SumFunctionOnSet(g, S) \in Int
         /\ o \in S => SumFunctionOnSet(g, S) = SumFunctionOnSet(f, S) + (g[o] - f[o])
         /\ o \notin S => SumFunctionOnSet(g, S) = SumFunctionOnSet(f, S)
<1> DEFINE F(T) == SumFunctionOnSet(f, T)
           G(T) == SumFunctionOnSet(g, T)
           Good(T) == /\ F(T) \in Int /\ G(T) \in Int
                      /\ o \in T => G(T) = F(T) + (g[o] - f[o])
                      /\ o \notin T => G(T) = F(T)
           Bad == {T \in SUBSET S : ~ Good(T)}
<1>1. ASSUME NEW T \in Bad, \A U \in Bad : U \subseteq T => U = T PROVE FALSE
  <2>1. IsFiniteSet(T) /\ T \subseteq S
    BY <1>1, FS_Subset
  <2>2. /\ F(T) = IF T = {} THEN 0 ELSE f[Pick(T)] + F(T \ {Pick(T)})
        /\ G(T) = IF T = {} THEN 0 ELSE g[Pick(T)] + G(T \ {Pick(T)})
    BY <2>1, SumUnfolds
  <2> HIDE DEF F, G
  <2>3. T # {}
    BY <1>1, <2>2
  <2>4. Pick(T) \in T
    BY <2>3 DEF Pick
  <2>5. Good(T \ {Pick(T)})
    BY <1>1, <2>1, <2>4
  <2> QED BY <1>1, <2>1, <2>2, <2>3, <2>4, <2>5
<1>2. Bad \subseteq SUBSET S
  OBVIOUS
<1>3. Bad = {}
  <2> HIDE DEF Bad
  <2> QED BY <1>1, <1>2, SmallestSubset
<1> QED BY <1>3

\* A sum of natural numbers is one, at least as large as each of them.
LEMMA SumOfNats ==
  ASSUME NEW S, IsFiniteSet(S), NEW f, \A x \in S : f[x] \in Nat
  PROVE  /\ SumFunctionOnSet(f, S) \in Nat
         /\ \A x \in S : f[x] <= SumFunctionOnSet(f, S)
         /\ (\A x \in S : f[x] = 0) => SumFunctionOnSet(f, S) = 0
<1> DEFINE F(T) == SumFunctionOnSet(f, T)
           Good(T) == /\ F(T) \in Nat
                      /\ \A x \in T : f[x] <= F(T)
                      /\ (\A x \in T : f[x] = 0) => F(T) = 0
           Bad == {T \in SUBSET S : ~ Good(T)}
<1>1. ASSUME NEW T \in Bad, \A U \in Bad : U \subseteq T => U = T PROVE FALSE
  <2>1. IsFiniteSet(T) /\ T \subseteq S
    BY <1>1, FS_Subset
  <2>2. F(T) = IF T = {} THEN 0 ELSE f[Pick(T)] + F(T \ {Pick(T)})
    BY <2>1, SumUnfolds
  <2> HIDE DEF F
  <2>3. T # {}
    BY <1>1, <2>2
  <2>4. Pick(T) \in T
    BY <2>3 DEF Pick
  <2>5. Good(T \ {Pick(T)})
    BY <1>1, <2>1, <2>4
  <2> QED BY <1>1, <2>1, <2>2, <2>3, <2>4, <2>5
<1>2. Bad \subseteq SUBSET S
  OBVIOUS
<1>3. Bad = {}
  <2> HIDE DEF Bad
  <2> QED BY <1>1, <1>2, SmallestSubset
<1> QED BY <1>3

\* The same at an element of the set.
LEMMA SumChangeAt ==
  ASSUME NEW S, IsFiniteSet(S), NEW o \in S, NEW f \in [S -> Int], NEW g \in [S -> Int],
         \A x \in S \ {o} : g[x] = f[x]
  PROVE  SumFunctionOnSet(g, S) = SumFunctionOnSet(f, S) + (g[o] - f[o])
<1>1. \A x \in S : f[x] \in Int /\ g[x] \in Int
  OBVIOUS
<1> QED BY <1>1, SumChange

\* It does not matter which element comes first.
LEMMA SumRemove ==
  ASSUME NEW S, IsFiniteSet(S), NEW f, \A x \in S : f[x] \in Nat, NEW x \in S
  PROVE  SumFunctionOnSet(f, S) = f[x] + SumFunctionOnSet(f, S \ {x})
<1> DEFINE F(T) == SumFunctionOnSet(f, T)
           Good(T) == \A y \in T : F(T) = f[y] + F(T \ {y})
           Bad == {T \in SUBSET S : ~ Good(T)}
<1>1. ASSUME NEW T \in Bad, \A U \in Bad : U \subseteq T => U = T PROVE FALSE
  <2>1. IsFiniteSet(T) /\ T \subseteq S
    BY <1>1, FS_Subset
  <2>2. PICK y \in T : F(T) # f[y] + F(T \ {y})
    BY <1>1
  <2> DEFINE z == Pick(T)
  <2>3. z \in T
    BY <2>2 DEF Pick
  <2>4. F(T) = f[z] + F(T \ {z})
    BY <2>1, <2>2, SumUnfolds
  <2>5. ASSUME NEW U \in SUBSET T PROVE F(U) \in Nat
    <3>1. IsFiniteSet(U) /\ \A q \in U : f[q] \in Nat
      BY <2>1, <2>5, FS_Subset
    <3> QED BY <3>1, SumOfNats
  <2> HIDE DEF F, z
  <2>6. y # z
    BY <2>2, <2>4
  <2>7. Good(T \ {z}) /\ Good(T \ {y})
    BY <1>1, <2>1, <2>2, <2>3
  <2>8. F(T \ {z}) = f[y] + F((T \ {z}) \ {y})
    BY <2>2, <2>6, <2>7
  <2>9. F(T \ {y}) = f[z] + F((T \ {z}) \ {y})
    <3>1. (T \ {z}) \ {y} = (T \ {y}) \ {z}
      OBVIOUS
    <3> QED BY <2>3, <2>6, <2>7, <3>1
  <2>10. f[y] \in Nat /\ f[z] \in Nat /\ F((T \ {z}) \ {y}) \in Nat
    BY <2>1, <2>2, <2>3, <2>5
  <2> QED BY <2>2, <2>4, <2>8, <2>9, <2>10
<1>2. Bad \subseteq SUBSET S
  OBVIOUS
<1>3. Bad = {}
  <2> HIDE DEF Bad
  <2> QED BY <1>1, <1>2, SmallestSubset
<1> QED BY <1>3

\* The sum over two sets without a common element.
LEMMA SumUnion ==
  ASSUME NEW S, IsFiniteSet(S), NEW f, \A x \in S : f[x] \in Nat, NEW T \in SUBSET S
  PROVE  SumFunctionOnSet(f, S) = SumFunctionOnSet(f, T) + SumFunctionOnSet(f, S \ T)
<1> DEFINE F(U) == SumFunctionOnSet(f, U)
           Good(U) == F((S \ T) \cup U) = F(U) + F(S \ T)
           Bad == {U \in SUBSET T : ~ Good(U)}
<1>1. ASSUME NEW U \in SUBSET S PROVE IsFiniteSet(U) /\ F(U) \in Nat
  <2>1. IsFiniteSet(U) /\ \A q \in U : f[q] \in Nat
    BY <1>1, FS_Subset
  <2> QED BY <2>1, SumOfNats
<1>2. ASSUME NEW U \in SUBSET S, NEW x \in U PROVE F(U) = f[x] + F(U \ {x})
  <2>1. IsFiniteSet(U) /\ \A q \in U : f[q] \in Nat
    BY <1>2, FS_Subset
  <2> QED BY <2>1, SumRemove
<1>3. F({}) = 0
  BY <1>1, SumUnfolds
<1>4. ASSUME NEW U \in Bad, \A V \in Bad : V \subseteq U => V = U PROVE FALSE
  <2> HIDE DEF F
  <2>1. U \subseteq T
    BY <1>4
  <2>2. CASE U = {}
    BY <1>1, <1>3, <1>4, <2>2
  <2>3. CASE U # {}
    <3>1. PICK x \in U : TRUE
      BY <2>3
    <3>2. Good(U \ {x})
      <4>1. U \ {x} \in SUBSET T /\ U \ {x} # U /\ U \ {x} \subseteq U
        BY <2>1, <3>1
      <4> HIDE DEF Good
      <4> QED BY <1>4, <4>1
    <3>3. F(U) = f[x] + F(U \ {x})
      BY <1>2, <2>1, <3>1
    <3>4. ((S \ T) \cup U) \ {x} = (S \ T) \cup (U \ {x})
      BY <2>1, <3>1
    <3>5. F((S \ T) \cup U) = f[x] + F((S \ T) \cup (U \ {x}))
      <4>1. (S \ T) \cup U \in SUBSET S /\ x \in (S \ T) \cup U
        BY <2>1, <3>1
      <4> QED BY <1>2, <3>4, <4>1
    <3>6. f[x] \in Nat /\ F(U \ {x}) \in Nat /\ F(S \ T) \in Nat
      BY <1>1, <2>1, <3>1
    <3> QED BY <1>4, <3>2, <3>3, <3>5, <3>6
  <2> QED BY <2>2, <2>3
<1>5. Bad = {}
  <2>1. Bad \subseteq SUBSET T /\ IsFiniteSet(T)
    BY <1>1
  <2> HIDE DEF Bad
  <2> QED BY <1>4, <2>1, SmallestSubset
<1>6. (S \ T) \cup T = S
  OBVIOUS
<1> QED BY <1>5, <1>6

\* The sum depends on the values in the set only.
LEMMA SumSame ==
  ASSUME NEW S, IsFiniteSet(S), NEW f, NEW g, \A x \in S : g[x] = f[x]
  PROVE  SumFunctionOnSet(g, S) = SumFunctionOnSet(f, S)
<1> DEFINE F(T) == SumFunctionOnSet(f, T)
           G(T) == SumFunctionOnSet(g, T)
           Bad == {T \in SUBSET S : F(T) # G(T)}
<1>1. ASSUME NEW T \in Bad, \A U \in Bad : U \subseteq T => U = T PROVE FALSE
  <2>1. IsFiniteSet(T) /\ T \subseteq S
    BY <1>1, FS_Subset
  <2>2. /\ F(T) = IF T = {} THEN 0 ELSE f[Pick(T)] + F(T \ {Pick(T)})
        /\ G(T) = IF T = {} THEN 0 ELSE g[Pick(T)] + G(T \ {Pick(T)})
    BY <2>1, SumUnfolds
  <2> HIDE DEF F, G
  <2>3. T # {}
    BY <1>1, <2>2
  <2>4. Pick(T) \in T
    BY <2>3 DEF Pick
  <2>5. F(T \ {Pick(T)}) = G(T \ {Pick(T)})
    BY <1>1, <2>1, <2>4
  <2> QED BY <1>1, <2>1, <2>2, <2>3, <2>4, <2>5
<1>2. Bad \subseteq SUBSET S
  OBVIOUS
<1>3. Bad = {}
  <2> HIDE DEF Bad
  <2> QED BY <1>1, <1>2, SmallestSubset
<1> QED BY <1>3

\* The same sum over other names of the elements.
LEMMA SumRenamed ==
  ASSUME NEW S, IsFiniteSet(S), NEW f, \A x \in S : f[x] \in Nat,
         NEW T, IsFiniteSet(T), NEW g, \A y \in T : g[y] \in Nat,
         NEW name, \A x \in S : name[x] \in T /\ g[name[x]] = f[x],
         \A x, y \in S : name[x] = name[y] => x = y,
         \A z \in T : \E x \in S : z = name[x]
  PROVE  SumFunctionOnSet(g, T) = SumFunctionOnSet(f, S)
<1> DEFINE Named(U) == {name[x] : x \in U}
           F(U) == SumFunctionOnSet(f, U)
           G(U) == SumFunctionOnSet(g, U)
           Good(U) == G(Named(U)) = F(U)
           Bad == {U \in SUBSET S : ~ Good(U)}
<1>1. ASSUME NEW U \in SUBSET S, NEW x \in U
      PROVE  /\ F(U) = f[x] + F(U \ {x})
             /\ G(Named(U)) = f[x] + G(Named(U \ {x}))
  <2>1. IsFiniteSet(U) /\ \A q \in U : f[q] \in Nat
    BY <1>1, FS_Subset
  <2>2. F(U) = f[x] + F(U \ {x})
    BY <2>1, SumRemove
  <2>3. Named(U) \subseteq T /\ name[x] \in Named(U) /\ g[name[x]] = f[x]
    BY <1>1
  <2>4. IsFiniteSet(Named(U)) /\ \A y \in Named(U) : g[y] \in Nat
    BY <2>3, FS_Subset
  <2>5. Named(U) \ {name[x]} = Named(U \ {x})
    BY <1>1
  <2> HIDE DEF Named
  <2>6. G(Named(U)) = g[name[x]] + G(Named(U) \ {name[x]})
    BY <2>3, <2>4, SumRemove
  <2> QED BY <2>2, <2>3, <2>5, <2>6
<1>2. ASSUME NEW U \in Bad, \A V \in Bad : V \subseteq U => V = U PROVE FALSE
  <2>1. CASE U = {}
    <3>1. Named({}) = {}
      OBVIOUS
    <3>2. F({}) = 0 /\ G({}) = 0
      BY SumUnfolds, FS_EmptySet
    <3> QED BY <1>2, <2>1, <3>1, <3>2
  <2>2. CASE U # {}
    <3>1. PICK x \in U : TRUE
      BY <2>2
    <3>2. Good(U \ {x})
      <4>1. U \ {x} \in SUBSET S /\ U \ {x} # U /\ U \ {x} \subseteq U
        BY <1>2, <3>1
      <4> HIDE DEF Good
      <4> QED BY <1>2, <4>1
    <3>3. /\ F(U) = f[x] + F(U \ {x})
          /\ G(Named(U)) = f[x] + G(Named(U \ {x}))
      BY <1>1, <1>2, <3>1
    <3> HIDE DEF F, G, Named
    <3> QED BY <1>2, <3>2, <3>3
  <2> QED BY <2>1, <2>2
<1>3. Bad = {}
  <2>1. Bad \subseteq SUBSET S
    OBVIOUS
  <2> HIDE DEF Bad
  <2> QED BY <1>2, <2>1, SmallestSubset
<1>4. Named(S) = T
  OBVIOUS
<1>5. Good(S)
  <2> HIDE DEF Good
  <2> QED BY <1>3
<1> QED BY <1>4, <1>5

-----------------------------------------------------------------------------
(* The ledger: the columns of products agree with the reservation rows     *)

\* When the rows of one order change, the totals change by what it changed.
LEMMA TotalsChange ==
  ASSUME IsFiniteSet(Orders), TypeOK, TypeOK', NEW p, NEW o \in Orders,
         \A x \in Orders \ {o} : rows'[x] = rows[x]
  PROVE  /\ SumFunctionOnSet([x \in Orders |-> Held(x, p)'], Orders)
              = SumFunctionOnSet([x \in Orders |-> Held(x, p)], Orders) + (Held(o, p)' - Held(o, p))
         /\ SumFunctionOnSet([x \in Orders |-> Bought(x, p)'], Orders)
              = SumFunctionOnSet([x \in Orders |-> Bought(x, p)], Orders) + (Bought(o, p)' - Bought(o, p))
<1>1. \A x \in Orders : /\ Held(x, p) \in Int /\ Held(x, p)' \in Int
                        /\ Bought(x, p) \in Int /\ Bought(x, p)' \in Int
  <2>1. \A m, n \in Nat : m * n \in Int
    OBVIOUS
  <2> QED BY <2>1, QuantityType DEF TypeOK, RowStatus, Held, Bought, Quantity
<1>2. \A x \in Orders \ {o} : Held(x, p)' = Held(x, p) /\ Bought(x, p)' = Bought(x, p)
  BY DEF Held, Bought, Quantity
<1> DEFINE h == [x \in Orders |-> Held(x, p)]
           H == [x \in Orders |-> Held(x, p)']
           b == [x \in Orders |-> Bought(x, p)]
           B == [x \in Orders |-> Bought(x, p)']
<1>3. /\ h \in [Orders -> Int] /\ H \in [Orders -> Int]
      /\ \A x \in Orders \ {o} : H[x] = h[x]
      /\ H[o] - h[o] = Held(o, p)' - Held(o, p)
  BY <1>1, <1>2
<1>4. /\ b \in [Orders -> Int] /\ B \in [Orders -> Int]
      /\ \A x \in Orders \ {o} : B[x] = b[x]
      /\ B[o] - b[o] = Bought(o, p)' - Bought(o, p)
  BY <1>1, <1>2
<1> HIDE DEF h, H, b, B
<1>5. SumFunctionOnSet(H, Orders) = SumFunctionOnSet(h, Orders) + (H[o] - h[o])
  BY <1>3, SumChangeAt
<1>6. SumFunctionOnSet(B, Orders) = SumFunctionOnSet(b, Orders) + (B[o] - b[o])
  BY <1>4, SumChangeAt
<1> QED BY <1>3, <1>5, <1>6, <1>4 DEF h, H, b, B

\* An order has rows only if the products it asks are listed.
RowsListed ==
  \A o \in Orders : (\E s \in RowStatus : rows[o][s] > 0) => DOMAIN Demand[o] \subseteq listed

LEMMA RowsListedKept ==
  ASSUME TypeOK, RowsListed, [Next]_vars
  PROVE  RowsListed'
<1> SUFFICES ASSUME NEW x \in Orders, NEW s \in RowStatus, rows'[x][s] > 0
             PROVE  DOMAIN Demand[x] \subseteq listed'
  BY DEF RowsListed
<1>1. listed \subseteq listed'
  BY DEF Next, vars, CreateProduct, UpdateProduct, ReserveStock, ReleaseStock, DecrementStock
<1>2. CASE rows' = rows
  BY <1>1, <1>2 DEF RowsListed
<1>3. ASSUME NEW o \in Orders, NEW code, ReserveStock(o, code), rows' # rows
      PROVE  DOMAIN Demand[x] \subseteq listed'
  <2>1. DOMAIN Demand[o] \subseteq listed /\ Reserve(o)
    BY <1>3 DEF ReserveStock
  <2>2. CASE x = o
    BY <1>1, <2>1, <2>2
  <2>3. CASE x # o
    BY <1>1, <2>1, <2>3 DEF Reserve, RowsListed, TypeOK
  <2> QED BY <2>2, <2>3
<1>4. ASSUME NEW o \in Orders, NEW status \in RowStatus, rows[o]["RESERVED"] > 0, MoveRows(o, status)
      PROVE  DOMAIN Demand[x] \subseteq listed'
  <2>1. CASE x = o
    BY <1>1, <1>4, <2>1 DEF RowsListed, RowStatus
  <2>2. CASE x # o
    BY <1>1, <1>4, <2>2 DEF MoveRows, RowsListed, TypeOK
  <2> QED BY <2>1, <2>2
<1>5. ASSUME NEW o \in Orders, NEW code, ReleaseStock(o, code) \/ DecrementStock(o, code), rows' # rows
      PROVE  DOMAIN Demand[x] \subseteq listed'
  BY <1>4, <1>5 DEF ReleaseStock, DecrementStock, NothingReserved, RowStatus
<1> QED BY <1>2, <1>3, <1>5 DEF Next, vars, CreateProduct, UpdateProduct

\* What the rows of one order come to when they change.
LEMMA RowsReserved ==
  ASSUME TypeOK, NEW o \in Orders, NEW p, Reserve(o)
  PROVE  Held(o, p)' = Held(o, p) + Quantity(o, p) /\ Bought(o, p)' = Bought(o, p)
<1>1. /\ rows'[o]["RESERVED"] = rows[o]["RESERVED"] + 1
      /\ rows'[o]["DECREMENTED"] = rows[o]["DECREMENTED"]
      /\ rows[o]["RESERVED"] \in Nat
  BY DEF Reserve, TypeOK, RowStatus
<1>2. \A m, n \in Nat : (m + 1) * n = m * n + n
  OBVIOUS
<1> QED BY <1>1, <1>2, QuantityType DEF Held, Bought, Quantity

LEMMA RowsMoved ==
  ASSUME TypeOK, NEW o \in Orders, NEW p, NEW status \in {"RELEASED", "DECREMENTED"},
         MoveRows(o, status)
  PROVE  /\ Held(o, p)' = 0
         /\ Bought(o, p)' = Bought(o, p) + (IF status = "DECREMENTED" THEN Held(o, p) ELSE 0)
<1>1. /\ rows'[o]["RESERVED"] = 0
      /\ rows'[o]["DECREMENTED"] =
           rows[o]["DECREMENTED"] + (IF status = "DECREMENTED" THEN rows[o]["RESERVED"] ELSE 0)
      /\ rows[o]["RESERVED"] \in Nat /\ rows[o]["DECREMENTED"] \in Nat
  BY DEF MoveRows, TypeOK, RowStatus
<1>2. \A k, m, n \in Nat : (k + m) * n = k * n + m * n /\ 0 * n = 0 /\ k * n \in Nat
  OBVIOUS
<1>3. Held(o, p)' = 0
  BY <1>1, <1>2, QuantityType DEF Held, Quantity
<1>4. CASE status = "DECREMENTED"
  BY <1>1, <1>2, <1>3, <1>4, QuantityType DEF Held, Bought, Quantity
<1>5. CASE status # "DECREMENTED"
  BY <1>1, <1>2, <1>3, <1>5, QuantityType DEF Held, Bought, Quantity
<1> QED BY <1>4, <1>5

HeldOf(p) == [o \in Orders |-> Held(o, p)]
BoughtOf(p) == [o \in Orders |-> Bought(o, p)]

\* The ledger, by its two sums.
LEMMA LedgerSums ==
  StockLedger <=> \A p \in listed :
     /\ reserved[p] = SumFunctionOnSet(HeldOf(p), Orders)
     /\ available[p] = InitialStock[p] - SumFunctionOnSet(BoughtOf(p), Orders)
  BY DEF StockLedger, SumFunction, HeldOf, BoughtOf

LEMMA TotalsTyped ==
  ASSUME IsFiniteSet(Orders), TypeOK, NEW p
  PROVE  /\ HeldOf(p) \in [Orders -> Nat] /\ BoughtOf(p) \in [Orders -> Nat]
         /\ SumFunctionOnSet(HeldOf(p), Orders) \in Nat
         /\ SumFunctionOnSet(BoughtOf(p), Orders) \in Nat
         /\ \A o \in Orders : Held(o, p) <= SumFunctionOnSet(HeldOf(p), Orders)
         /\ (\A o \in Orders : Held(o, p) = 0) => SumFunctionOnSet(HeldOf(p), Orders) = 0
         /\ (\A o \in Orders : Bought(o, p) = 0) => SumFunctionOnSet(BoughtOf(p), Orders) = 0
<1>1. \A o \in Orders : Held(o, p) \in Nat /\ Bought(o, p) \in Nat
  <2>1. \A m, n \in Nat : m * n \in Nat
    OBVIOUS
  <2> QED BY <2>1, QuantityType DEF TypeOK, RowStatus, Held, Bought
<1>2. /\ HeldOf(p) \in [Orders -> Nat] /\ BoughtOf(p) \in [Orders -> Nat]
      /\ \A o \in Orders : HeldOf(p)[o] = Held(o, p) /\ BoughtOf(p)[o] = Bought(o, p)
  BY <1>1 DEF HeldOf, BoughtOf
<1>3. /\ SumFunctionOnSet(HeldOf(p), Orders) \in Nat
      /\ \A o \in Orders : HeldOf(p)[o] <= SumFunctionOnSet(HeldOf(p), Orders)
      /\ (\A o \in Orders : HeldOf(p)[o] = 0) => SumFunctionOnSet(HeldOf(p), Orders) = 0
  BY <1>2, SumOfNats
<1>4. /\ SumFunctionOnSet(BoughtOf(p), Orders) \in Nat
      /\ (\A o \in Orders : BoughtOf(p)[o] = 0) => SumFunctionOnSet(BoughtOf(p), Orders) = 0
  BY <1>2, SumOfNats
<1> QED BY <1>2, <1>3, <1>4

\* The totals of the rows when one order's rows change, or none do.
LEMMA LedgerTotals ==
  ASSUME IsFiniteSet(Orders), TypeOK, TypeOK', NEW p
  PROVE  /\ \A o \in Orders : (\A x \in Orders \ {o} : rows'[x] = rows[x]) =>
              /\ SumFunctionOnSet(HeldOf(p)', Orders)
                   = SumFunctionOnSet(HeldOf(p), Orders) + (Held(o, p)' - Held(o, p))
              /\ SumFunctionOnSet(BoughtOf(p)', Orders)
                   = SumFunctionOnSet(BoughtOf(p), Orders) + (Bought(o, p)' - Bought(o, p))
         /\ rows' = rows => HeldOf(p)' = HeldOf(p) /\ BoughtOf(p)' = BoughtOf(p)
<1>1. rows' = rows => HeldOf(p)' = HeldOf(p) /\ BoughtOf(p)' = BoughtOf(p)
  BY DEF HeldOf, BoughtOf, Held, Bought, Quantity
<1>2. ASSUME NEW o \in Orders, \A x \in Orders \ {o} : rows'[x] = rows[x]
      PROVE  /\ SumFunctionOnSet(HeldOf(p)', Orders)
                   = SumFunctionOnSet(HeldOf(p), Orders) + (Held(o, p)' - Held(o, p))
             /\ SumFunctionOnSet(BoughtOf(p)', Orders)
                   = SumFunctionOnSet(BoughtOf(p), Orders) + (Bought(o, p)' - Bought(o, p))
  BY <1>2, TotalsChange DEF HeldOf, BoughtOf
<1> QED BY <1>1, <1>2

\* One operation after the other keeps the ledger.
LEMMA ReserveBooked ==
  ASSUME IsFiniteSet(Orders), TypeOK, TypeOK', StockLedger, NEW o \in Orders, NEW code,
         ReserveStock(o, code)
  PROVE  StockLedger'
<1> SUFFICES ASSUME NEW p \in listed'
             PROVE  /\ reserved'[p] = SumFunctionOnSet(HeldOf(p)', Orders)
                    /\ available'[p] = InitialStock[p] - SumFunctionOnSet(BoughtOf(p)', Orders)
  BY LedgerSums DEF StockLedger, SumFunction, HeldOf, BoughtOf
<1>1. p \in listed /\ p \in Products /\ available' = available
  BY DEF ReserveStock, TypeOK
<1>2. /\ reserved[p] = SumFunctionOnSet(HeldOf(p), Orders)
      /\ available[p] = InitialStock[p] - SumFunctionOnSet(BoughtOf(p), Orders)
  BY <1>1, LedgerSums
<1>3. CASE UNCHANGED <<reserved, rows>>
  BY <1>1, <1>2, <1>3, LedgerTotals
<1>4. CASE Reserve(o)
  <2>1. \A x \in Orders \ {o} : rows'[x] = rows[x]
    BY <1>4 DEF Reserve, TypeOK
  <2>2. /\ SumFunctionOnSet(HeldOf(p)', Orders) = SumFunctionOnSet(HeldOf(p), Orders) + (Held(o, p)' - Held(o, p))
        /\ SumFunctionOnSet(BoughtOf(p)', Orders) = SumFunctionOnSet(BoughtOf(p), Orders) + (Bought(o, p)' - Bought(o, p))
    BY <2>1, LedgerTotals
  <2>3. Held(o, p)' = Held(o, p) + Quantity(o, p) /\ Bought(o, p)' = Bought(o, p)
    BY <1>4, RowsReserved
  <2>4. Held(o, p) \in Int /\ Bought(o, p) \in Int /\ Quantity(o, p) \in Int
    <3>1. HeldOf(p)[o] \in Nat /\ BoughtOf(p)[o] \in Nat
      BY TotalsTyped
    <3> QED BY <3>1, QuantityType DEF HeldOf, BoughtOf
  <2>5. reserved'[p] = reserved[p] + Quantity(o, p)
    BY <1>1, <1>4 DEF Reserve
  <2> QED BY <1>1, <1>2, <2>2, <2>3, <2>4, <2>5, TotalsTyped
<1> QED BY <1>3, <1>4 DEF ReserveStock

LEMMA SettleBooked ==
  ASSUME IsFiniteSet(Orders), TypeOK, TypeOK', StockLedger, NEW o \in Orders, NEW code,
         ReleaseStock(o, code) \/ DecrementStock(o, code)
  PROVE  StockLedger'
<1> SUFFICES ASSUME NEW p \in listed'
             PROVE  /\ reserved'[p] = SumFunctionOnSet(HeldOf(p)', Orders)
                    /\ available'[p] = InitialStock[p] - SumFunctionOnSet(BoughtOf(p)', Orders)
  BY LedgerSums DEF StockLedger, SumFunction, HeldOf, BoughtOf
<1>1. p \in listed /\ p \in Products
  BY DEF ReleaseStock, DecrementStock, TypeOK
<1>2. /\ reserved[p] = SumFunctionOnSet(HeldOf(p), Orders)
      /\ available[p] = InitialStock[p] - SumFunctionOnSet(BoughtOf(p), Orders)
  BY <1>1, LedgerSums
<1>3. CASE NothingReserved(o, code)
  BY <1>1, <1>2, <1>3, LedgerTotals DEF NothingReserved
<1>4. ASSUME NEW status \in {"RELEASED", "DECREMENTED"}, MoveRows(o, status),
             reserved'[p] = reserved[p] - Held(o, p),
             available'[p] = available[p] - (IF status = "DECREMENTED" THEN Held(o, p) ELSE 0)
      PROVE  /\ reserved'[p] = SumFunctionOnSet(HeldOf(p)', Orders)
             /\ available'[p] = InitialStock[p] - SumFunctionOnSet(BoughtOf(p)', Orders)
  <2>1. \A x \in Orders \ {o} : rows'[x] = rows[x]
    BY <1>4 DEF MoveRows, TypeOK
  <2>2. /\ SumFunctionOnSet(HeldOf(p)', Orders) = SumFunctionOnSet(HeldOf(p), Orders) + (Held(o, p)' - Held(o, p))
        /\ SumFunctionOnSet(BoughtOf(p)', Orders) = SumFunctionOnSet(BoughtOf(p), Orders) + (Bought(o, p)' - Bought(o, p))
    BY <2>1, LedgerTotals
  <2>3. /\ Held(o, p)' = 0
        /\ Bought(o, p)' = Bought(o, p) + (IF status = "DECREMENTED" THEN Held(o, p) ELSE 0)
    BY <1>4, RowsMoved
  <2>4. Held(o, p) \in Int /\ Bought(o, p) \in Int /\ InitialStock[p] \in Int
    <3>1. HeldOf(p)[o] \in Nat /\ BoughtOf(p)[o] \in Nat
      BY TotalsTyped
    <3> QED BY <1>1, <3>1, InitialStockType DEF HeldOf, BoughtOf
  <2> QED BY <1>2, <1>4, <2>2, <2>3, <2>4, TotalsTyped
<1>5. CASE ~ NothingReserved(o, code) /\ ReleaseStock(o, code)
  <2>1. /\ MoveRows(o, "RELEASED") /\ reserved'[p] = reserved[p] - Held(o, p)
        /\ available'[p] = available[p] - 0
    BY <1>1, <1>5 DEF ReleaseStock, TypeOK
  <2> QED BY <1>4, <2>1
<1>6. CASE ~ NothingReserved(o, code) /\ DecrementStock(o, code)
  <2>1. /\ MoveRows(o, "DECREMENTED") /\ reserved'[p] = reserved[p] - Held(o, p)
        /\ available'[p] = available[p] - Held(o, p)
    BY <1>1, <1>6 DEF DecrementStock
  <2> QED BY <1>4, <2>1
<1> QED BY <1>3, <1>5, <1>6

\* A product that is not listed has no row.
LEMMA UnlistedHasNoRows ==
  ASSUME TypeOK, RowsListed, NEW o \in Orders, NEW p, p \notin listed
  PROVE  Held(o, p) = 0 /\ Bought(o, p) = 0
<1>1. rows[o]["RESERVED"] \in Nat /\ rows[o]["DECREMENTED"] \in Nat
  BY DEF TypeOK, RowStatus
<1>2. \A n \in Nat : 0 * n = 0 /\ n * 0 = 0
  OBVIOUS
<1>3. CASE p \in DOMAIN Demand[o]
  <2>1. ~ (rows[o]["RESERVED"] > 0) /\ ~ (rows[o]["DECREMENTED"] > 0)
    BY <1>3 DEF RowsListed, RowStatus
  <2> QED BY <1>1, <1>2, <2>1, QuantityType DEF Held, Bought
<1>4. CASE p \notin DOMAIN Demand[o]
  BY <1>1, <1>2, <1>4 DEF Held, Bought, Quantity
<1> QED BY <1>3, <1>4

LEMMA CatalogueBooked ==
  ASSUME IsFiniteSet(Orders), TypeOK, TypeOK', StockLedger, RowsListed, Unlisted,
         NEW q \in Products, CreateProduct(q) \/ UpdateProduct(q)
  PROVE  StockLedger'
<1> SUFFICES ASSUME NEW p \in listed'
             PROVE  /\ reserved'[p] = SumFunctionOnSet(HeldOf(p)', Orders)
                    /\ available'[p] = InitialStock[p] - SumFunctionOnSet(BoughtOf(p)', Orders)
  BY LedgerSums DEF StockLedger, SumFunction, HeldOf, BoughtOf
<1>1. HeldOf(p)' = HeldOf(p) /\ BoughtOf(p)' = BoughtOf(p) /\ reserved' = reserved
  BY LedgerTotals DEF CreateProduct, UpdateProduct
<1>2. CASE p \in listed
  <2>1. available'[p] = available[p]
    BY <1>2 DEF CreateProduct, UpdateProduct, TypeOK
  <2> QED BY <1>1, <1>2, <2>1, LedgerSums
<1>3. CASE p \notin listed
  <2>1. CreateProduct(q) /\ p = q
    BY <1>3 DEF CreateProduct, UpdateProduct
  <2>2. available'[p] = InitialStock[p] /\ reserved[p] = 0
    BY <1>3, <2>1 DEF CreateProduct, TypeOK, Unlisted
  <2>3. \A o \in Orders : Held(o, p) = 0 /\ Bought(o, p) = 0
    BY <1>3, UnlistedHasNoRows
  <2>4. SumFunctionOnSet(HeldOf(p), Orders) = 0 /\ SumFunctionOnSet(BoughtOf(p), Orders) = 0
    BY <2>3, TotalsTyped
  <2> QED BY <1>1, <2>1, <2>2, <2>4, InitialStockType
<1> QED BY <1>2, <1>3

\* The ledger holds when the service starts: no row exists.
LEMMA LedgerStarts ==
  ASSUME IsFiniteSet(Orders), Init
  PROVE  StockLedger /\ RowsListed
<1>1. TypeOK
  BY InitialStockType DEF Init, TypeOK, RowStatus
<1>2. RowsListed
  BY DEF Init, RowsListed
<1>3. ASSUME NEW p \in listed
      PROVE  /\ reserved[p] = SumFunctionOnSet(HeldOf(p), Orders)
             /\ available[p] = InitialStock[p] - SumFunctionOnSet(BoughtOf(p), Orders)
  <2>1. \A n \in Nat : 0 * n = 0
    OBVIOUS
  <2>2. \A o \in Orders : Held(o, p) = 0 /\ Bought(o, p) = 0
    BY <2>1, QuantityType DEF Init, RowStatus, Held, Bought
  <2>3. reserved[p] = 0 /\ available[p] = InitialStock[p] /\ p \in Products
    BY DEF Init
  <2> QED BY <1>1, <2>2, <2>3, TotalsTyped, InitialStockType
<1> QED BY <1>2, <1>3, LedgerSums

LEMMA LedgerKept ==
  ASSUME IsFiniteSet(Orders), TypeOK, TypeOK', NoOversell, StockLedger, RowsListed, Unlisted,
         [Next]_vars
  PROVE  StockLedger' /\ RowsListed' /\ Unlisted'
<1>1. ASSUME UNCHANGED vars PROVE StockLedger'
  <2> SUFFICES ASSUME NEW p \in listed'
               PROVE  /\ reserved'[p] = SumFunctionOnSet(HeldOf(p)', Orders)
                      /\ available'[p] = InitialStock[p] - SumFunctionOnSet(BoughtOf(p)', Orders)
    BY DEF StockLedger, SumFunction, HeldOf, BoughtOf
  <2>1. HeldOf(p)' = HeldOf(p) /\ BoughtOf(p)' = BoughtOf(p)
    BY <1>1, LedgerTotals DEF vars
  <2> QED BY <1>1, <2>1, LedgerSums DEF vars
<1>2. ASSUME NEW p \in Products, CreateProduct(p) \/ UpdateProduct(p) PROVE StockLedger'
  BY <1>2, CatalogueBooked
<1>3. ASSUME NEW o \in Orders, NEW code \in Codes, ReserveStock(o, code) PROVE StockLedger'
  BY <1>3, ReserveBooked
<1>4. ASSUME NEW o \in Orders, NEW code \in Codes, ReleaseStock(o, code) \/ DecrementStock(o, code)
      PROVE  StockLedger'
  BY <1>4, SettleBooked
<1>5. StockLedger'
  BY <1>1, <1>2, <1>3, <1>4 DEF Next
<1> QED BY <1>5, RowsListedKept, UnlistedKept

\* stock_reserved is at any time what the RESERVED rows hold, and what is gone
\* of the initial stock what the DECREMENTED rows took: the two tables never
\* drift apart, whatever the products, the orders and their demands.
THEOREM LedgerAgrees ==
  ASSUME IsFiniteSet(Orders)
  PROVE  Spec => []StockLedger
<1>1. Init => StockLedger /\ RowsListed /\ Unlisted
  BY LedgerStarts DEF Init, Unlisted
<1>2. TypeOK /\ TypeOK' /\ NoOversell /\ StockLedger /\ RowsListed /\ Unlisted /\ [Next]_vars
      => StockLedger' /\ RowsListed' /\ Unlisted'
  BY LedgerKept
<1> QED
  BY <1>1, <1>2, StockTyped, NeverOversells, PTL DEF Spec

\* The CHECK constraints of the stock columns never reject a Release or a
\* Decrement: what an order holds is part of stock_reserved, and that is never
\* more than stock_available.
THEOREM AlwaysSettleable ==
  ASSUME IsFiniteSet(Orders)
  PROVE  Spec => []Settleable
<1>1. TypeOK /\ NoOversell /\ StockLedger /\ RowsListed => Settleable
  <2> SUFFICES ASSUME TypeOK, NoOversell, StockLedger, RowsListed, NEW o \in Orders, NEW p \in Products
               PROVE  Held(o, p) <= reserved[p] /\ Held(o, p) <= available[p]
    BY DEF Settleable
  <2>1. 0 <= reserved[p] /\ reserved[p] <= available[p] /\ reserved[p] \in Int /\ available[p] \in Int
    BY DEF NoOversell, TypeOK
  <2>2. Held(o, p) \in Nat
    BY HeldType
  <2>3. CASE p \in listed
    <3>1. reserved[p] = SumFunctionOnSet(HeldOf(p), Orders)
      BY <2>3, LedgerSums
    <3>2. Held(o, p) <= SumFunctionOnSet(HeldOf(p), Orders)
      BY TotalsTyped
    <3> QED BY <2>1, <2>2, <3>1, <3>2
  <2>4. CASE p \notin listed
    <3>1. Held(o, p) = 0
      BY <2>4, UnlistedHasNoRows
    <3> QED BY <2>1, <3>1
  <2> QED BY <2>3, <2>4
<1>2. Init => RowsListed
  BY DEF Init, RowsListed
<1>3. TypeOK /\ RowsListed /\ [Next]_vars => RowsListed'
  BY RowsListedKept
<1> QED
  BY <1>1, <1>2, <1>3, StockTyped, NeverOversells, LedgerAgrees, PTL DEF Spec
=============================================================================
