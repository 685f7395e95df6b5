--------------------------- MODULE MatrixMultiply ---------------------------
(***************************************************************************)
(* 19-perf: main() of perf.c multiplies two random matrices with Drepper's *)
(* blocked algorithm and with the naive one (matrix.c) and compares the    *)
(* results.  The perf events themselves are stubs.                         *)
(*                                                                         *)
(* A matrix is a flat array of size elements.  An element of a result is   *)
(* the bag of the products that were added up for it: a function from them *)
(* to how often each was added, where a product is named by the indices of *)
(* its two factors.  What the doubles are does not matter, which of them   *)
(* are multiplied and how often does.                                      *)
(* Unsigned arithmetic wraps around at UIntSize.  Outside of its array an  *)
(* access is undefined: the model stops there.                             *)
(***************************************************************************)
EXTENDS Integers

CONSTANTS DimArgs,      \* values of atoi(argv[1]) that are tried (32 if there is none)
          SM,           \* doubles in a cache line: CLS / sizeof(double) = 8
          UIntSize,     \* number of values of an unsigned (2^32)
          CallocFails   \* may calloc() fail?

ASSUME MatrixAssumption ==
    /\ DimArgs \subseteq Int
    /\ SM \in Nat \ {0} /\ SM % 2 = 0
    /\ UIntSize \in Nat \ {0}
    /\ CallocFails \in BOOLEAN

VARIABLES pc,       \* where main() is
          dim,      \* the dimension, called N in matrix.c
          size,     \* number of elements of each of the four arrays
          i, j, k,  \* loop indices
          C0,       \* result of matrixmul_drepper()
          C1        \* result of matrixmul_naive()

vars == <<pc, dim, size, i, j, k, C0, C1>>

Init ==
    /\ pc = "parse"
    /\ dim \in {d % UIntSize : d \in DimArgs}
    /\ size = 0
    /\ i = 0 /\ j = 0 /\ k = 0
    /\ C0 = <<>> /\ C1 = <<>>

-----------------------------------------------------------------------------
(* main(): parsing and allocation *)

\* dim & (dim - 1) is 0 if at most one bit is set: if no factor but 1 is odd.
IsAccepted(d) == \A q \in 2..d : d % q = 0 => q % 2 = 0

ParseDimension ==
    /\ pc = "parse"
    /\ pc' = IF IsAccepted(dim) THEN "alloc" ELSE "rejected"
    /\ UNCHANGED <<dim, size, i, j, k, C0, C1>>

\* Mutants: the product does not wrap around; room for one row only.
ElementsUnbounded == dim * dim
ElementsOneRow == dim

\* calloc() is given dim * dim, which is an unsigned product.
Elements == (dim * dim) % UIntSize

\* The bag that holds each of the given products once, and an addition to a bag.
Once(products) == [p \in products |-> 1]
Add(bag, products) ==
    [p \in DOMAIN bag \union products |->
        (IF p \in DOMAIN bag THEN bag[p] ELSE 0) + (IF p \in products THEN 1 ELSE 0)]

CreateMatrices ==
    /\ pc = "alloc"
    /\ size' = Elements
    /\ C0' = [x \in 0..(size' - 1) |-> Once({})]
    /\ C1' = C0'
    /\ pc' = "drepper"
    /\ UNCHANGED <<dim, i, j, k>>

CreateFails == pc = "alloc" /\ CallocFails /\ pc' = "failed" /\ UNCHANGED <<dim, size, i, j, k, C0, C1>>

-----------------------------------------------------------------------------
(* matrixmul_drepper() *)

Offsets == 0..(SM - 1)

\* Mutant: the block of the second factor is transposed.
RightTransposed == (j * dim + k) % UIntSize

\* rres, rmul1 and rmul2 at the start of a block ...
Result == (i * dim + j) % UIntSize
Left   == (i * dim + k) % UIntSize
Right  == (k * dim + j) % UIntSize

\* ... and the elements the block reaches from there, N apart from row to row.
BlockCells(start) == {start + r * dim + c : r, c \in Offsets}
BlockInBounds == BlockCells(Result) \union BlockCells(Left) \union BlockCells(Right) \subseteq 0..(size - 1)

\* What the block adds to the element at x.
Contribution(x) ==
    {<<Left + t[1] * dim + t[3], Right + t[3] * dim + t[2]>> :
        t \in {u \in Offsets \X Offsets \X Offsets : x = Result + u[1] * dim + u[2]}}

\* Mutant: k keeps its value when j advances.
NextKKept == IF k + SM < dim THEN k + SM ELSE k

\* The three outer loops: k runs fastest, then j, then i.
NextK == IF k + SM < dim THEN k + SM ELSE 0
NextJ == IF k + SM < dim THEN j ELSE IF j + SM < dim THEN j + SM ELSE 0
NextI == IF k + SM < dim \/ j + SM < dim THEN i ELSE i + SM

MultiplyBlock ==
    /\ pc = "drepper"
    /\ i < dim
    /\ BlockInBounds
    /\ C0' = [x \in DOMAIN C0 |-> Add(C0[x], Contribution(x))]
    /\ i' = NextI /\ j' = NextJ /\ k' = NextK
    /\ UNCHANGED <<pc, dim, size, C1>>

BlockOutOfBounds ==
    /\ pc = "drepper"
    /\ i < dim
    /\ ~BlockInBounds
    /\ pc' = "undefined"
    /\ UNCHANGED <<dim, size, i, j, k, C0, C1>>

DrepperReturns ==
    /\ pc = "drepper"
    /\ i >= dim
    /\ pc' = "naive"
    /\ i' = 0 /\ j' = 0 /\ k' = 0
    /\ UNCHANGED <<dim, size, C0, C1>>

-----------------------------------------------------------------------------
(* matrixmul_naive() *)

\* The first n products of the row r and the column c.
Products(r, c, n) == {<<r * dim + m, m * dim + c>> : m \in 0..(n - 1)}

\* The inner loop over k and the store; N is not zero here, but small enough:
\* the blocked multiplication has used the same arrays before.
MultiplyElement ==
    /\ pc = "naive"
    /\ i < dim
    /\ C1' = [C1 EXCEPT ![i * dim + j] = Once(Products(i, j, dim))]
    /\ j' = IF j + 1 < dim THEN j + 1 ELSE 0
    /\ i' = IF j + 1 < dim THEN i ELSE i + 1
    /\ UNCHANGED <<pc, dim, size, k, C0>>

NaiveReturns ==
    /\ pc = "naive"
    /\ i >= dim
    /\ pc' = "compare"
    /\ i' = 0
    /\ UNCHANGED <<dim, size, j, k, C0, C1>>

-----------------------------------------------------------------------------
(* main(): the sanity check *)

CompareElement ==
    /\ pc = "compare"
    /\ i < size
    /\ IF C0[i] = C1[i] THEN i' = i + 1 /\ UNCHANGED pc
                        ELSE pc' = "mismatch" /\ UNCHANGED i
    /\ UNCHANGED <<dim, size, j, k, C0, C1>>

Exit ==
    /\ pc = "compare"
    /\ i = size
    /\ pc' = "exited"
    /\ UNCHANGED <<dim, size, i, j, k, C0, C1>>

-----------------------------------------------------------------------------
Ended == pc \in {"rejected", "failed", "undefined", "mismatch", "exited"} /\ UNCHANGED vars

Step ==
    \/ ParseDimension \/ CreateMatrices \/ CreateFails
    \/ MultiplyBlock \/ BlockOutOfBounds \/ DrepperReturns
    \/ MultiplyElement \/ NaiveReturns \/ CompareElement \/ Exit

Next == Step \/ Ended

Spec == Init /\ [][Next]_vars /\ WF_vars(Step)

-----------------------------------------------------------------------------
(* Properties *)

TypeOK ==
    /\ pc \in {"parse", "alloc", "drepper", "naive", "compare", "rejected", "failed",
               "undefined", "mismatch", "exited"}
    /\ dim \in 0..(UIntSize - 1)
    /\ size \in 0..(UIntSize - 1)
    /\ i \in Nat /\ j \in Nat /\ k \in Nat
    /\ pc \notin {"parse", "alloc", "rejected", "failed"} =>
          DOMAIN C0 = 0..(size - 1) /\ DOMAIN C1 = 0..(size - 1)

\* Block by block the products are complete: before the block (i, j, k) every
\* element of an earlier block row or, in this one, of an earlier block column
\* has all its products, each once; the elements of the block itself have those
\* for the first k factors, all later ones none.
ProductsUpTo(r, c) ==
    IF r < i \/ (r < i + SM /\ c < j) THEN dim
    ELSE IF r < i + SM /\ c < j + SM THEN k ELSE 0

PartialProducts ==
    pc = "drepper" =>
        \A r, c \in 0..(dim - 1) : r * dim + c < size =>
            C0[r * dim + c] = Once(Products(r, c, ProductsUpTo(r, c)))

\* "Are both result matrices equal" (perf.c:125): the two multiplications add
\* up the same products, so the sanity check never fails.
SanityCheckPasses ==
    /\ pc # "mismatch"
    /\ pc = "exited" =>
          \A r, c \in 0..(dim - 1) :
              C0[r * dim + c] = Once(Products(r, c, dim)) /\ C1[r * dim + c] = Once(Products(r, c, dim))

\* A dimension that is a multiple of the block size, and whose square fits into
\* an unsigned, keeps every access inside the arrays.  "Given dimension must be a
\* power of two" (perf.c:101) is not enough for that: 1, 2 and 4 pass the check.
FitsBlocks == dim % SM = 0 /\ dim * dim < UIntSize

StaysInside == FitsBlocks => pc # "undefined"
=============================================================================
