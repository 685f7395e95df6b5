------------------------ MODULE MatrixMultiplyProofs ------------------------
(***************************************************************************)
(* Proofs about MatrixMultiply, for every block size, width of an unsigned *)
(* and dimension that fits: the blocked multiplication stays inside the    *)
(* arrays and adds every product once, so that the sanity check passes.    *)
(***************************************************************************)
EXTENDS MatrixMultiply, TLAPS

USE MatrixAssumption

-----------------------------------------------------------------------------
(* Arithmetic of indices *)

LEMMA ProductMonotone ==
    ASSUME NEW a \in Nat, NEW b \in Nat, NEW n \in Nat, a <= b
    PROVE  a * n <= b * n
<1>1. PICK e \in Nat : b = a + e
  <2>1. b - a \in Nat /\ b = a + (b - a)
    OBVIOUS
  <2> QED BY <2>1
<1>2. b * n = a * n + e * n
  BY <1>1
<1>3. e * n \in Nat /\ a * n \in Nat
  OBVIOUS
<1> QED BY <1>2, <1>3

LEMMA IndexInRange ==
    ASSUME NEW n \in Nat, NEW r \in 0..(n - 1), NEW c \in 0..(n - 1)
    PROVE  r * n + c \in 0..(n * n - 1)
<1>1. (r + 1) * n <= n * n
  BY ProductMonotone
<1>2. (r + 1) * n = r * n + n
  OBVIOUS
<1>3. r * n \in Nat /\ n * n \in Nat
  OBVIOUS
<1> QED BY <1>1, <1>2, <1>3

\* An element of a matrix has one row and one column only.
LEMMA IndexIsUnique ==
    ASSUME NEW n \in Nat, NEW r \in Nat, NEW s \in Nat,
           NEW c \in 0..(n - 1), NEW d \in 0..(n - 1), r * n + c = s * n + d
    PROVE  r = s /\ c = d
<1>1. ASSUME NEW p \in Nat, NEW q \in Nat, NEW e \in 0..(n - 1), NEW f \in 0..(n - 1), p < q
      PROVE  p * n + e < q * n + f
  <2>1. (p + 1) * n <= q * n
    BY <1>1, ProductMonotone
  <2>2. (p + 1) * n = p * n + n
    OBVIOUS
  <2>3. p * n \in Nat /\ q * n \in Nat
    OBVIOUS
  <2> QED BY <2>1, <2>2, <2>3
<1>2. ~(r < s) /\ ~(s < r)
  BY <1>1
<1>3. r = s
  BY <1>2
<1>4. r * n \in Nat
  OBVIOUS
<1> QED BY <1>3, <1>4

LEMMA IndexIsReached ==
    ASSUME NEW n \in Nat, NEW x \in 0..(n * n - 1)
    PROVE  \E r, c \in 0..(n - 1) : x = r * n + c
<1>1. n > 0
  OBVIOUS
<1> DEFINE r == x \div n
           c == x % n
<1>2. r \in Int /\ c \in 0..(n - 1) /\ x = r * n + c
  BY <1>1
<1> HIDE DEF r, c
<1>3. r >= 0
  <2>1. CASE r < 0
    <3>1. PICK e \in Nat : r = -1 - e
      <4>1. -1 - r \in Nat /\ r = -1 - (-1 - r)
        BY <1>2, <2>1
      <4> QED BY <4>1
    <3>2. r * n = -n - e * n /\ e * n \in Nat
      BY <3>1
    <3> QED BY <1>2, <3>2
  <2> QED BY <1>2, <2>1
<1>4. r < n
  <2>1. CASE n <= r
    <3>1. n * n <= r * n
      BY <1>2, <1>3, <2>1, ProductMonotone
    <3> QED BY <1>2, <3>1
  <2> QED BY <1>2, <2>1
<1> QED BY <1>2, <1>3, <1>4

\* Two multiples of the block size are a whole block apart.
Multiple(x) == \E q \in Nat : x = q * SM

LEMMA MultiplesApart ==
    ASSUME NEW a \in Nat, NEW b \in Nat, Multiple(a), Multiple(b), a < b
    PROVE  a + SM <= b
<1>1. PICK p \in Nat : a = p * SM
  BY DEF Multiple
<1>2. PICK q \in Nat : b = q * SM
  BY DEF Multiple
<1>3. p < q
  <2>1. CASE q <= p
    BY <1>1, <1>2, <2>1, ProductMonotone
  <2> QED BY <2>1
<1>4. (p + 1) * SM <= q * SM
  BY <1>3, ProductMonotone
<1>5. (p + 1) * SM = p * SM + SM
  OBVIOUS
<1> QED BY <1>1, <1>2, <1>4, <1>5

LEMMA MultipleNext ==
    ASSUME NEW a \in Nat, Multiple(a)
    PROVE  Multiple(a + SM)
<1>1. PICK p \in Nat : a = p * SM
  BY DEF Multiple
<1>2. (p + 1) * SM = p * SM + SM /\ p + 1 \in Nat
  OBVIOUS
<1> QED BY <1>1, <1>2 DEF Multiple

LEMMA MultipleZero == Multiple(0)
<1>1. 0 \in Nat /\ 0 = 0 * SM
  OBVIOUS
<1> QED BY <1>1 DEF Multiple

-----------------------------------------------------------------------------
(* The type invariant, for any dimension *)

\* Every variable keeps its type: indices and sizes stay values of an unsigned,
\* also where dim * dim has overflowed.
THEOREM MatrixTypeCorrect == Spec => []TypeOK
<1>1. Init => TypeOK
  BY DEF Init, TypeOK
<1>2. TypeOK /\ [Next]_vars => TypeOK'
  <2> SUFFICES ASSUME TypeOK, [Next]_vars PROVE TypeOK'
    OBVIOUS
  <2> USE DEF TypeOK
  <2>1. CASE ParseDimension
    BY <2>1 DEF ParseDimension
  <2>2. CASE CreateMatrices
    <3>1. Elements \in 0..(UIntSize - 1)
      BY DEF Elements
    <3> QED BY <2>2, <3>1 DEF CreateMatrices
  <2>3. CASE CreateFails
    BY <2>3 DEF CreateFails
  <2>4. CASE MultiplyBlock
    <3>1. NextI \in Nat /\ NextJ \in Nat /\ NextK \in Nat
      BY DEF NextI, NextJ, NextK
    <3> QED BY <2>4, <3>1 DEF MultiplyBlock
  <2>5. CASE BlockOutOfBounds
    BY <2>5 DEF BlockOutOfBounds
  <2>6. CASE DrepperReturns
    BY <2>6 DEF DrepperReturns
  <2>7. CASE MultiplyElement
    BY <2>7 DEF MultiplyElement
  <2>8. CASE NaiveReturns
    BY <2>8 DEF NaiveReturns
  <2>9. CASE CompareElement
    BY <2>9 DEF CompareElement
  <2>10. CASE Exit
    BY <2>10 DEF Exit
  <2>11. CASE UNCHANGED vars
    BY <2>11 DEF vars
  <2> QED
    BY <2>1, <2>2, <2>3, <2>4, <2>5, <2>6, <2>7, <2>8, <2>9, <2>10, <2>11 DEF Next, Step, Ended
<1> QED BY <1>1, <1>2, PTL DEF Spec

-----------------------------------------------------------------------------
(* The loops stay inside the arrays *)

\* The inductive invariant behind StaysInside: before a block the loop indices
\* are multiples of its size and, as long as there is a block to come, below dim.
Blocks ==
    /\ pc # "undefined"
    /\ pc \in {"parse", "alloc"} => i = 0 /\ j = 0 /\ k = 0
    /\ pc \in {"drepper", "naive", "compare", "exited"} => size = dim * dim
    /\ pc = "drepper" => Multiple(i) /\ Multiple(j) /\ Multiple(k)
    /\ pc = "drepper" /\ i < dim => j < dim /\ k < dim

LEMMA DimIsMultiple ==
    ASSUME TypeOK, FitsBlocks
    PROVE  Multiple(dim)
<1>1. dim = (dim \div SM) * SM /\ dim \div SM \in Int
  BY DEF TypeOK, FitsBlocks
<1>2. dim \div SM \in Nat
  BY DEF TypeOK
<1> QED BY <1>1, <1>2 DEF Multiple

\* Where a block begins, in a matrix that fits.
LEMMA BlockStarts ==
    ASSUME TypeOK, FitsBlocks, Blocks, pc = "drepper", i < dim
    PROVE  /\ i + SM <= dim /\ j + SM <= dim /\ k + SM <= dim
           /\ Result = i * dim + j /\ Left = i * dim + k /\ Right = k * dim + j
<1>1. i + SM <= dim /\ j + SM <= dim /\ k + SM <= dim
  BY DimIsMultiple, MultiplesApart DEF TypeOK, Blocks
<1>2. ASSUME NEW a \in Nat, NEW b \in Nat, a < dim, b < dim
      PROVE  (a * dim + b) % UIntSize = a * dim + b
  <2>1. a * dim + b \in 0..(dim * dim - 1)
    BY <1>2, IndexInRange DEF TypeOK
  <2>2. a * dim + b \in 0..(UIntSize - 1)
    BY <2>1 DEF FitsBlocks, TypeOK
  <2> QED BY <2>2
<1> QED BY <1>1, <1>2 DEF TypeOK, Blocks, Result, Left, Right

\* The cells of a block that begins in row a and column b.
LEMMA CellsOfBlock ==
    ASSUME dim \in Nat, NEW a \in Nat, NEW b \in Nat
    PROVE  BlockCells(a * dim + b) = {(a + r) * dim + (b + c) : r, c \in Offsets}
<1>1. \A r, c \in Offsets : (a * dim + b) + r * dim + c = (a + r) * dim + (b + c)
  BY DEF Offsets
<1> QED BY <1>1 DEF BlockCells

LEMMA BlockFits ==
    ASSUME TypeOK, FitsBlocks, Blocks, pc = "drepper", i < dim
    PROVE  BlockInBounds
<1>1. ASSUME NEW a \in Nat, NEW b \in Nat, a + SM <= dim, b + SM <= dim
      PROVE  BlockCells(a * dim + b) \subseteq 0..(size - 1)
  <2>1. ASSUME NEW r \in Offsets, NEW c \in Offsets
        PROVE  (a + r) * dim + (b + c) \in 0..(size - 1)
    <3>1. a + r \in 0..(dim - 1) /\ b + c \in 0..(dim - 1) /\ dim \in Nat
      BY <1>1 DEF Offsets, TypeOK
    <3> QED BY <3>1, IndexInRange DEF Blocks
  <2> QED BY <2>1, CellsOfBlock DEF TypeOK
<1> QED BY <1>1, BlockStarts DEF BlockInBounds, TypeOK

\* The next block begins at multiples of the block size again.
LEMMA NextBlock ==
    ASSUME TypeOK, FitsBlocks, Blocks, pc = "drepper", i < dim
    PROVE  /\ Multiple(NextI) /\ Multiple(NextJ) /\ Multiple(NextK)
           /\ NextJ < dim /\ NextK < dim
<1>1. i \in Nat /\ j \in Nat /\ k \in Nat /\ dim \in Nat
  BY DEF TypeOK
<1>2. Multiple(i + SM) /\ Multiple(j + SM) /\ Multiple(k + SM)
  BY <1>1, MultipleNext DEF Blocks
<1> QED BY <1>1, <1>2, MultipleZero DEF Blocks, NextI, NextJ, NextK

LEMMA BlocksStep == TypeOK /\ FitsBlocks /\ Blocks /\ [Next]_vars => FitsBlocks' /\ Blocks'
<1> SUFFICES ASSUME TypeOK, FitsBlocks, Blocks, [Next]_vars PROVE FitsBlocks' /\ Blocks'
  OBVIOUS
<1>1. CASE ParseDimension
  BY <1>1 DEF ParseDimension, Blocks, FitsBlocks, Multiple
<1>2. CASE CreateMatrices
  <2>1. Elements = dim * dim
    BY DEF Elements, FitsBlocks, TypeOK
  <2>2. i = 0 /\ j = 0 /\ k = 0
    BY <1>2 DEF CreateMatrices, Blocks
  <2>3. dim' = dim /\ size' = dim' * dim' /\ i' = 0 /\ j' = 0 /\ k' = 0 /\ pc' = "drepper"
    BY <1>2, <2>1, <2>2 DEF CreateMatrices
  <2> QED BY <2>3, MultipleZero DEF Blocks, FitsBlocks, Multiple
<1>3. CASE CreateFails
  BY <1>3 DEF CreateFails, Blocks, FitsBlocks, Multiple
<1>4. CASE MultiplyBlock
  BY <1>4, NextBlock DEF MultiplyBlock, Blocks, FitsBlocks, Multiple
<1>5. CASE BlockOutOfBounds
  BY <1>5, BlockFits DEF BlockOutOfBounds
<1>6. CASE DrepperReturns
  BY <1>6 DEF DrepperReturns, Blocks, FitsBlocks, Multiple
<1>7. CASE MultiplyElement
  BY <1>7 DEF MultiplyElement, Blocks, FitsBlocks, Multiple
<1>8. CASE NaiveReturns
  BY <1>8 DEF NaiveReturns, Blocks, FitsBlocks, Multiple
<1>9. CASE CompareElement
  BY <1>9 DEF CompareElement, Blocks, FitsBlocks, Multiple
<1>10. CASE Exit
  BY <1>10 DEF Exit, Blocks, FitsBlocks, Multiple
<1>11. CASE UNCHANGED vars
  BY <1>11 DEF vars, Blocks, FitsBlocks, Multiple
<1> QED
  BY <1>1, <1>2, <1>3, <1>4, <1>5, <1>6, <1>7, <1>8, <1>9, <1>10, <1>11 DEF Next, Step, Ended

LEMMA DimStays == [Next]_vars => dim' = dim
BY DEF Next, Step, Ended, vars, ParseDimension, CreateMatrices, CreateFails, MultiplyBlock,
       BlockOutOfBounds, DrepperReturns, MultiplyElement, NaiveReturns, CompareElement, Exit

LEMMA BlocksInvariant == Spec => [](FitsBlocks => Blocks)
<1>1. Init => (FitsBlocks => Blocks)
  BY DEF Init, Blocks
<1>2. TypeOK /\ (FitsBlocks => Blocks) /\ [Next]_vars => (FitsBlocks => Blocks)'
  BY BlocksStep, DimStays DEF FitsBlocks
<1> QED BY <1>1, <1>2, MatrixTypeCorrect, PTL DEF Spec

\* A dimension that is a multiple of the block size and whose square does not
\* overflow keeps both multiplications inside the arrays (matrix.c:30-47).
THEOREM FittingStaysInside == Spec => []StaysInside
<1>1. (FitsBlocks => Blocks) => StaysInside
  BY DEF Blocks, StaysInside
<1> QED BY <1>1, BlocksInvariant, PTL

-----------------------------------------------------------------------------
(* The products *)

LEMMA AddDisjoint ==
    ASSUME NEW P, NEW Q, P \intersect Q = {}
    PROVE  Add(Once(P), Q) = Once(P \union Q)
BY DEF Add, Once

LEMMA AddNothing ==
    ASSUME NEW P
    PROVE  Add(Once(P), {}) = Once(P)
BY DEF Add, Once

\* What the current block adds to an element inside of it ...
LEMMA ContributionInside ==
    ASSUME TypeOK, FitsBlocks, Blocks, pc = "drepper", i < dim,
           NEW r \in i..(i + SM - 1), NEW c \in j..(j + SM - 1)
    PROVE  Contribution(r * dim + c) = {<<r * dim + m, m * dim + c>> : m \in k..(k + SM - 1)}
<1> DEFINE Hits == {u \in Offsets \X Offsets \X Offsets : r * dim + c = Result + u[1] * dim + u[2]}
           Pair(t) == <<Left + t[1] * dim + t[3], Right + t[3] * dim + t[2]>>
           Wanted == {<<r * dim + m, m * dim + c>> : m \in k..(k + SM - 1)}
<1>1. i \in Nat /\ j \in Nat /\ k \in Nat /\ dim \in Nat /\ SM \in Nat
  BY DEF TypeOK
<1>2. i + SM <= dim /\ j + SM <= dim /\ k + SM <= dim
      /\ Result = i * dim + j /\ Left = i * dim + k /\ Right = k * dim + j
  BY BlockStarts
<1>3. ASSUME NEW u \in Hits
      PROVE  u[1] = r - i /\ u[2] = c - j /\ u[3] \in Offsets
  <2>1. u[1] \in Offsets /\ u[2] \in Offsets /\ u[3] \in Offsets
    OBVIOUS
  <2>2. r * dim + c = (i + u[1]) * dim + (j + u[2])
    BY <1>1, <1>2, <2>1 DEF Offsets
  <2>3. i + u[1] \in Nat /\ r \in Nat /\ j + u[2] \in 0..(dim - 1) /\ c \in 0..(dim - 1)
    BY <1>1, <1>2, <2>1 DEF Offsets
  <2>4. r = i + u[1] /\ c = j + u[2]
    BY <1>1, <2>2, <2>3, IndexIsUnique
  <2> QED BY <1>1, <2>1, <2>4 DEF Offsets
<1>4. ASSUME NEW e \in Offsets
      PROVE  <<r - i, c - j, e>> \in Hits
  <2>1. r * dim + c = i * dim + j + (r - i) * dim + (c - j)
    BY <1>1
  <2>2. r - i \in Offsets /\ c - j \in Offsets
    BY <1>1 DEF Offsets
  <2> QED BY <1>2, <2>1, <2>2
<1>5. ASSUME NEW e \in Offsets
      PROVE  <<i * dim + k + (r - i) * dim + e, k * dim + j + e * dim + (c - j)>>
               = <<r * dim + (k + e), (k + e) * dim + c>>
  BY <1>1 DEF Offsets
<1>6. ASSUME NEW u \in Hits
      PROVE  Pair(u) \in Wanted
  <2>1. Pair(u) = <<i * dim + k + (r - i) * dim + u[3], k * dim + j + u[3] * dim + (c - j)>>
    BY <1>2, <1>3
  <2>2. Pair(u) = <<r * dim + (k + u[3]), (k + u[3]) * dim + c>>
    BY <1>3, <1>5, <2>1
  <2>3. k + u[3] \in k..(k + SM - 1)
    BY <1>1, <1>3 DEF Offsets
  <2> QED BY <2>2, <2>3
<1>7. ASSUME NEW m \in k..(k + SM - 1)
      PROVE  \E u \in Hits : Pair(u) = <<r * dim + m, m * dim + c>>
  <2> DEFINE u == <<r - i, c - j, m - k>>
  <2>1. m - k \in Offsets /\ k + (m - k) = m
    BY <1>1 DEF Offsets
  <2>2. u \in Hits
    BY <1>4, <2>1
  <2>3. Pair(u) = <<i * dim + k + (r - i) * dim + (m - k), k * dim + j + (m - k) * dim + (c - j)>>
    BY <1>2
  <2>4. Pair(u) = <<r * dim + m, m * dim + c>>
    BY <1>5, <2>1, <2>3
  <2> QED BY <2>2, <2>4
<1>8. Contribution(r * dim + c) = {Pair(u) : u \in Hits}
  BY DEF Contribution
<1> HIDE DEF Hits, Pair
<1> QED BY <1>6, <1>7, <1>8

\* ... and that it adds nothing to an element outside.
LEMMA ContributionOutside ==
    ASSUME TypeOK, FitsBlocks, Blocks, pc = "drepper", i < dim,
           NEW r \in 0..(dim - 1), NEW c \in 0..(dim - 1),
           ~(r \in i..(i + SM - 1) /\ c \in j..(j + SM - 1))
    PROVE  Contribution(r * dim + c) = {}
<1>1. i \in Nat /\ j \in Nat /\ k \in Nat /\ dim \in Nat /\ SM \in Nat
  BY DEF TypeOK
<1>2. i + SM <= dim /\ j + SM <= dim /\ Result = i * dim + j
  BY BlockStarts
<1>3. ASSUME NEW a \in Offsets, NEW b \in Offsets
      PROVE  r * dim + c # Result + a * dim + b
  <2>1. SUFFICES ASSUME r * dim + c = Result + a * dim + b PROVE FALSE
    OBVIOUS
  <2>2. i + a \in Nat /\ r \in Nat /\ j + b \in 0..(dim - 1)
    BY <1>1, <1>2 DEF Offsets
  <2>3. ~(r = i + a /\ c = j + b)
    BY <1>1 DEF Offsets
  <2>4. r * dim + c = (i + a) * dim + (j + b)
    BY <1>1, <1>2, <2>1 DEF Offsets
  <2> DEFINE s == i + a
             d == j + b
  <2> HIDE DEF s, d
  <2>5. r = s /\ c = d
    <3>1. r * dim + c = s * dim + d /\ s \in Nat /\ r \in Nat /\ d \in 0..(dim - 1)
      BY <2>2, <2>4 DEF s, d
    <3> QED BY <1>1, <3>1, IndexIsUnique
  <2> QED BY <2>3, <2>5 DEF s, d
<1>4. \A u \in Offsets \X Offsets \X Offsets : r * dim + c # Result + u[1] * dim + u[2]
  BY <1>3
<1> QED BY <1>4 DEF Contribution

\* A block brings every element from its products so far to those after it.
LEMMA BlockAdds ==
    ASSUME TypeOK, FitsBlocks, Blocks, PartialProducts, MultiplyBlock
    PROVE  PartialProducts'
<1>1. i \in Nat /\ j \in Nat /\ k \in Nat /\ dim \in Nat /\ SM \in Nat \ {0} /\ size = dim * dim
      /\ pc = "drepper" /\ i < dim /\ j < dim /\ k < dim
  BY DEF TypeOK, MultiplyBlock, Blocks
<1>2. i + SM <= dim /\ j + SM <= dim /\ k + SM <= dim
  BY <1>1, BlockStarts
<1>3. SUFFICES ASSUME NEW r \in 0..(dim - 1), NEW c \in 0..(dim - 1)
               PROVE  C0'[r * dim + c] = Once(Products(r, c, ProductsUpTo(r, c)'))
  <2>1. dim' = dim /\ size' = size
    BY DEF MultiplyBlock
  <2>2. \A r, c \in 0..(dim - 1) :
          Once(Products(r, c, ProductsUpTo(r, c)))' = Once(Products(r, c, ProductsUpTo(r, c)'))
    BY <2>1 DEF Once, Products
  <2> QED BY <2>1, <2>2 DEF PartialProducts
<1>4. r * dim + c \in 0..(size - 1)
  BY <1>1, IndexInRange
<1>5. C0'[r * dim + c] = Add(Once(Products(r, c, ProductsUpTo(r, c))), Contribution(r * dim + c))
  <2>1. r * dim + c < size /\ DOMAIN C0 = 0..(size - 1)
    BY <1>1, <1>4 DEF TypeOK
  <2>2. C0[r * dim + c] = Once(Products(r, c, ProductsUpTo(r, c)))
    BY <1>1, <2>1 DEF PartialProducts
  <2> QED BY <1>4, <2>1, <2>2 DEF MultiplyBlock
<1>6. i' = NextI /\ j' = NextJ /\ k' = NextK /\ dim' = dim
  BY DEF MultiplyBlock
<1>7. CASE r \in i..(i + SM - 1) /\ c \in j..(j + SM - 1)
  <2>1. ProductsUpTo(r, c) = k
    BY <1>1, <1>7 DEF ProductsUpTo
  <2>2. ProductsUpTo(r, c)' = k + SM
    BY <1>1, <1>2, <1>6, <1>7 DEF ProductsUpTo, NextI, NextJ, NextK
  <2> DEFINE New == {<<r * dim + m, m * dim + c>> : m \in k..(k + SM - 1)}
  <2>3. Contribution(r * dim + c) = New
    BY <1>1, <1>7, ContributionInside
  <2>4. Products(r, c, k) \intersect New = {}
    <3>1. ASSUME NEW m \in 0..(k - 1), NEW p \in k..(k + SM - 1)
          PROVE  <<r * dim + m, m * dim + c>> # <<r * dim + p, p * dim + c>>
      BY <1>1
    <3> QED BY <3>1 DEF Products
  <2>5. Products(r, c, k) \union New = Products(r, c, k + SM)
    <3>1. 0..((k + SM) - 1) = (0..(k - 1)) \union (k..(k + SM - 1))
      BY <1>1
    <3> DEFINE Pair(m) == <<r * dim + m, m * dim + c>>
    <3>2. ASSUME NEW n PROVE Products(r, c, n) = {Pair(m) : m \in 0..(n - 1)}
      BY Zenon DEF Products
    <3>3. New = {Pair(m) : m \in k..(k + SM - 1)}
      BY Zenon
    <3> HIDE DEF Pair, New
    <3>4. ASSUME NEW A, NEW B
          PROVE  {Pair(m) : m \in A} \union {Pair(m) : m \in B} = {Pair(m) : m \in A \union B}
      OBVIOUS
    <3>5. Products(r, c, k) \union New = {Pair(m) : m \in (0..(k - 1)) \union (k..(k + SM - 1))}
      BY <3>2, <3>3, <3>4
    <3>6. Products(r, c, k + SM) = {Pair(m) : m \in 0..((k + SM) - 1)}
      BY <3>2
    <3> QED BY <3>1, <3>5, <3>6
  <2> HIDE DEF New
  <2>6. Add(Once(Products(r, c, k)), New) = Once(Products(r, c, k + SM))
    BY <2>4, <2>5, AddDisjoint
  <2> QED BY <1>5, <2>1, <2>2, <2>3, <2>6
<1>8. CASE ~(r \in i..(i + SM - 1) /\ c \in j..(j + SM - 1))
  <2>1. Contribution(r * dim + c) = {}
    BY <1>1, <1>8, ContributionOutside
  <2>2. ProductsUpTo(r, c)' = ProductsUpTo(r, c)
    <3>1. Multiple(i) /\ Multiple(j) /\ Multiple(dim)
      BY <1>1, DimIsMultiple DEF Blocks
    <3> QED BY <1>1, <1>2, <1>6, <1>8 DEF ProductsUpTo, NextI, NextJ, NextK
  <2> QED BY <1>5, <2>1, <2>2, AddNothing
<1> QED BY <1>7, <1>8

\* The elements of C1 that matrixmul_naive() has stored.
Stored(r, c) == r < i \/ (r = i /\ c < j)

\* The inductive invariant of the values: which elements are complete when.
Results ==
    /\ PartialProducts
    /\ pc \in {"naive", "compare", "exited"} =>
          \A r, c \in 0..(dim - 1) : C0[r * dim + c] = Once(Products(r, c, dim))
    /\ pc = "naive" =>
          /\ i < dim => j < dim
          /\ \A r, c \in 0..(dim - 1) : Stored(r, c) => C1[r * dim + c] = Once(Products(r, c, dim))
    /\ pc \in {"compare", "exited"} =>
          \A r, c \in 0..(dim - 1) : C1[r * dim + c] = Once(Products(r, c, dim))
    /\ pc # "mismatch"

\* The bag of the complete products depends on the dimension only.
LEMMA CompleteStays ==
    ASSUME dim' = dim
    PROVE  \A r, c \in 0..(dim - 1) : Once(Products(r, c, dim))' = Once(Products(r, c, dim))
BY DEF Once, Products

LEMMA DrepperComplete ==
    ASSUME TypeOK, FitsBlocks, Blocks, Results, DrepperReturns
    PROVE  Results'
<1>1. i \in Nat /\ dim \in Nat /\ pc = "drepper" /\ i >= dim /\ size = dim * dim
  BY DEF TypeOK, DrepperReturns, Blocks
<1>2. \A r, c \in 0..(dim - 1) : C0[r * dim + c] = Once(Products(r, c, dim))
  <2> TAKE r, c \in 0..(dim - 1)
  <2>1. r * dim + c < size
    BY <1>1, IndexInRange
  <2>2. ProductsUpTo(r, c) = dim
    BY <1>1 DEF ProductsUpTo
  <2> QED BY <1>1, <2>1, <2>2 DEF Results, PartialProducts
<1>3. pc' = "naive" /\ i' = 0 /\ j' = 0 /\ dim' = dim /\ C0' = C0
  BY DEF DrepperReturns
<1>4. \A r, c \in 0..(dim - 1) : ~Stored(r, c)'
  BY <1>3 DEF Stored
<1> QED BY <1>1, <1>2, <1>3, <1>4, CompleteStays DEF Results, PartialProducts

LEMMA NaiveStores ==
    ASSUME TypeOK, FitsBlocks, Blocks, Results, MultiplyElement
    PROVE  Results'
<1>1. i \in Nat /\ j \in Nat /\ dim \in Nat /\ pc = "naive" /\ i < dim /\ j < dim /\ size = dim * dim
  BY DEF TypeOK, MultiplyElement, Blocks, Results
<1>2. pc' = "naive" /\ dim' = dim /\ C0' = C0 /\ C1' = [C1 EXCEPT ![i * dim + j] = Once(Products(i, j, dim))]
      /\ j' = (IF j + 1 < dim THEN j + 1 ELSE 0) /\ i' = (IF j + 1 < dim THEN i ELSE i + 1)
  BY <1>1 DEF MultiplyElement
<1>3. ASSUME NEW r \in 0..(dim - 1), NEW c \in 0..(dim - 1), Stored(r, c)'
      PROVE  C1'[r * dim + c] = Once(Products(r, c, dim))
  <2>1. Stored(r, c) \/ (r = i /\ c = j)
    BY <1>1, <1>2, <1>3 DEF Stored
  <2>2. r * dim + c \in DOMAIN C1
    BY <1>1, IndexInRange DEF TypeOK
  <2>3. CASE r = i /\ c = j
    BY <1>2, <2>2, <2>3
  <2>4. CASE Stored(r, c) /\ ~(r = i /\ c = j)
    <3>1. r * dim + c # i * dim + j
      <4>1. SUFFICES ASSUME r * dim + c = i * dim + j PROVE FALSE
        OBVIOUS
      <4>2. j \in 0..(dim - 1) /\ r \in Nat
        BY <1>1
      <4> QED BY <1>1, <2>4, <4>1, <4>2, IndexIsUnique
    <3>2. C1[r * dim + c] = Once(Products(r, c, dim))
      BY <1>1, <2>4 DEF Results
    <3> QED BY <1>2, <2>2, <3>1, <3>2
  <2> QED BY <2>1, <2>3, <2>4
<1>4. i' < dim' => j' < dim'
  BY <1>1, <1>2
<1>5. \A r, c \in 0..(dim - 1) : Once(Products(r, c, dim))' = Once(Products(r, c, dim))
  BY <1>2, CompleteStays
<1>6. \A r, c \in 0..(dim' - 1) : C0'[r * dim' + c] = Once(Products(r, c, dim))'
  BY <1>1, <1>2, <1>5 DEF Results
<1>7. \A r, c \in 0..(dim' - 1) : Stored(r, c)' => C1'[r * dim' + c] = Once(Products(r, c, dim))'
  BY <1>2, <1>3, <1>5
<1> QED BY <1>2, <1>4, <1>6, <1>7 DEF Results, PartialProducts

\* Every element that is compared is one of some row and column.
LEMMA ComparedEqual ==
    ASSUME TypeOK, FitsBlocks, Blocks, Results, CompareElement
    PROVE  C0[i] = C1[i]
<1>1. dim \in Nat /\ pc = "compare" /\ i \in 0..(dim * dim - 1)
  BY DEF TypeOK, CompareElement, Blocks
<1>2. PICK r \in 0..(dim - 1), c \in 0..(dim - 1) : i = r * dim + c
  BY <1>1, IndexIsReached
<1>3. C0[r * dim + c] = Once(Products(r, c, dim)) /\ C1[r * dim + c] = Once(Products(r, c, dim))
  BY <1>1 DEF Results
<1> QED BY <1>2, <1>3

LEMMA ResultsStep == TypeOK /\ FitsBlocks /\ Blocks /\ Results /\ [Next]_vars => Results'
<1> SUFFICES ASSUME TypeOK, FitsBlocks, Blocks, Results, [Next]_vars PROVE Results'
  OBVIOUS
<1>1. CASE ParseDimension
  BY <1>1 DEF ParseDimension, Results, PartialProducts
<1>2. CASE CreateMatrices
  <2>1. i' = 0 /\ j' = 0 /\ k' = 0 /\ pc' = "drepper" /\ dim' = dim /\ size' = Elements
        /\ C0' = [x \in 0..(size' - 1) |-> Once({})]
    BY <1>2 DEF CreateMatrices, Blocks
  <2>2. ASSUME NEW r \in 0..(dim - 1), NEW c \in 0..(dim - 1), r * dim + c < size'
        PROVE  C0'[r * dim + c] = Once(Products(r, c, ProductsUpTo(r, c)'))
    <3>1. r * dim + c \in 0..(size' - 1)
      <4>1. r * dim + c \in 0..(dim * dim - 1)
        BY IndexInRange DEF TypeOK
      <4>2. size' \in Nat
        BY <2>1 DEF Elements, TypeOK
      <4> QED BY <2>2, <4>1, <4>2
    <3>2. ProductsUpTo(r, c)' = 0
      BY <2>1 DEF ProductsUpTo
    <3>3. Products(r, c, 0) = {}
      BY DEF Products
    <3> QED BY <2>1, <3>1, <3>2, <3>3
  <2>3. \A r, c \in 0..(dim - 1) :
          Once(Products(r, c, ProductsUpTo(r, c)))' = Once(Products(r, c, ProductsUpTo(r, c)'))
    BY <2>1 DEF Once, Products
  <2>4. PartialProducts'
    <3>1. SUFFICES ASSUME NEW r \in 0..(dim - 1), NEW c \in 0..(dim - 1), r * dim + c < size'
                   PROVE  C0'[r * dim + c] = Once(Products(r, c, ProductsUpTo(r, c)))'
      BY <2>1 DEF PartialProducts
    <3> QED BY <2>2, <2>3, <3>1
  <2> QED BY <2>1, <2>4 DEF Results
<1>3. CASE CreateFails
  BY <1>3 DEF CreateFails, Results, PartialProducts
<1>4. CASE MultiplyBlock
  <2>1. PartialProducts'
    BY <1>4, BlockAdds DEF Results
  <2>2. pc' = "drepper"
    BY <1>4 DEF MultiplyBlock
  <2> QED BY <2>1, <2>2 DEF Results
<1>5. CASE BlockOutOfBounds
  BY <1>5 DEF BlockOutOfBounds, Results, PartialProducts
<1>6. CASE DrepperReturns
  BY <1>6, DrepperComplete
<1>7. CASE MultiplyElement
  BY <1>7, NaiveStores
<1>8. CASE NaiveReturns
  <2>1. i \in Nat /\ dim \in Nat /\ pc = "naive" /\ i >= dim
    BY <1>8 DEF NaiveReturns, TypeOK
  <2>2. \A r, c \in 0..(dim - 1) : Stored(r, c)
    BY <2>1 DEF Stored
  <2>3. pc' = "compare" /\ dim' = dim /\ C0' = C0 /\ C1' = C1
    BY <1>8 DEF NaiveReturns
  <2> QED BY <2>1, <2>2, <2>3, CompleteStays DEF Results, PartialProducts
<1>9. CASE CompareElement
  <2>1. pc' = pc /\ pc = "compare" /\ dim' = dim /\ C0' = C0 /\ C1' = C1
    BY <1>9, ComparedEqual DEF CompareElement
  <2> QED BY <2>1, CompleteStays DEF Results, PartialProducts
<1>10. CASE Exit
  <2>1. pc' = "exited" /\ pc = "compare" /\ dim' = dim /\ C0' = C0 /\ C1' = C1
    BY <1>10 DEF Exit
  <2> QED BY <2>1, CompleteStays DEF Results, PartialProducts
<1>11. CASE UNCHANGED vars
  <2>1. pc' = pc /\ dim' = dim /\ size' = size /\ i' = i /\ j' = j /\ k' = k /\ C0' = C0 /\ C1' = C1
    BY <1>11 DEF vars
  <2>2. \A r, c \in 0..(dim - 1) :
          Once(Products(r, c, ProductsUpTo(r, c)))' = Once(Products(r, c, ProductsUpTo(r, c)))
    BY <2>1 DEF Once, Products, ProductsUpTo
  <2>3. PartialProducts'
    BY <2>1, <2>2 DEF Results, PartialProducts
  <2> QED BY <2>1, <2>3, CompleteStays DEF Results, Stored
<1> QED
  BY <1>1, <1>2, <1>3, <1>4, <1>5, <1>6, <1>7, <1>8, <1>9, <1>10, <1>11 DEF Next, Step, Ended

LEMMA ResultsInvariant == Spec => [](FitsBlocks => Results)
<1>1. Init => Results
  BY DEF Init, Results, PartialProducts
<1>2. TypeOK /\ (FitsBlocks => Blocks) /\ (FitsBlocks => Results) /\ [Next]_vars
        => (FitsBlocks => Results)'
  BY ResultsStep, DimStays DEF FitsBlocks
<1> QED BY <1>1, <1>2, BlocksInvariant, MatrixTypeCorrect, PTL DEF Spec

\* In a matrix that fits, every block adds exactly its products to exactly its
\* elements (matrix.c:30-50).
THEOREM BlocksAddUp == Spec => [](FitsBlocks => PartialProducts)
<1>1. Results => PartialProducts
  BY DEF Results
<1> QED BY <1>1, ResultsInvariant, PTL

\* In a matrix that fits, both multiplications end with every product of a row
\* and a column once, so the comparison of perf.c:126-133 finds no difference.
THEOREM MultiplicationsAgree == Spec => [](FitsBlocks => SanityCheckPasses)
<1>1. Results => SanityCheckPasses
  BY DEF Results, SanityCheckPasses
<1> QED BY <1>1, ResultsInvariant, PTL
=============================================================================
