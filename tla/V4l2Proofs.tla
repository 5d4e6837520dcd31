----------------------------- MODULE V4l2Proofs -----------------------------
(***************************************************************************)
(* What is proved of the webcam backend for every geometry, threshold and  *)
(* capacity, every number of buffers and of frames, and every image: what  *)
(* its session holds, the cycle of its buffers, the numbers of its frames  *)
(* and the sites in them.                                                  *)
(***************************************************************************)
EXTENDS V4l2, DataLemmas

-----------------------------------------------------------------------------
LEMMA GridNatural ==
  Rows \in Nat \ {0} /\ Cols \in Nat \ {0} /\ Rows * Cols \in Nat
<1>1. Rows \in Nat \ {0} /\ Cols \in Nat \ {0}
  BY V4l2Assumption DEF Rows, Cols
<1> QED BY <1>1

\* A cell of a grid by its row and column: a number below the number of cells.
LEMMA CellRange ==
  ASSUME NEW R \in Nat \ {0}, NEW C \in Nat \ {0},
         NEW r \in 0 .. R - 1, NEW c \in 0 .. C - 1
  PROVE  r * C + c \in 0 .. R * C - 1
<1> DEFINE p == r * C
           q == (R - 1) * C
<1>1. p \in Nat /\ q \in Nat /\ p <= q
  <2>1. \E d \in Nat : R - 1 = r + d
    <3> WITNESS (R - 1) - r \in Nat
    <3> QED OBVIOUS
  <2>2. PICK d \in Nat : R - 1 = r + d
    BY <2>1
  <2>3. q = p + d * C /\ d * C \in Nat /\ p \in Nat
    BY <2>2
  <2> QED BY <2>3
<1>2. R * C = q + C
  OBVIOUS
<1> HIDE DEF p, q
<1>3. p + c \in 0 .. q + C - 1
  BY <1>1
<1> QED BY <1>2, <1>3 DEF p

\* The sites of an image are cells of the output, and there are finitely many.
LEMMA LitCells ==
  ASSUME NEW image
  PROVE  /\ Lit(image) \subseteq 0 .. Rows * Cols - 1
         /\ Lit(image) \in SUBSET Nat /\ IsFiniteSet(Lit(image))
         /\ Cardinality(Lit(image)) \in Nat
<1>1. Lit(image) \subseteq 0 .. Rows * Cols - 1
  <2> SUFFICES ASSUME NEW cell \in (0 .. Rows - 1) \X (0 .. Cols - 1)
               PROVE  cell[1] * Cols + cell[2] \in 0 .. Rows * Cols - 1
    BY DEF Lit
  <2>1. cell[1] \in 0 .. Rows - 1 /\ cell[2] \in 0 .. Cols - 1
    OBVIOUS
  <2> QED BY <2>1, GridNatural, CellRange
<1>2. IsFiniteSet(0 .. Rows * Cols - 1)
  BY GridNatural, FS_Interval
<1>3. IsFiniteSet(Lit(image)) /\ Cardinality(Lit(image)) \in Nat
  BY <1>1, <1>2, FS_Subset, FS_CardinalityType
<1> QED BY <1>1, <1>3, GridNatural

\* What yuyv_to_sparse writes: the first sites of the image in their order, as
\* many as there are or as the frame has room for.
LEMMA SparseSites ==
  ASSUME NEW image
  PROVE  LET sites == Sparse(image)
             n     == Len(sites)
         IN  /\ sites \in Seq(Nat)
             /\ n = Min({Cardinality(Lit(image)), Capacity})
             /\ n \in Nat /\ n <= Capacity
             /\ \A i, j \in 1 .. n : i < j => sites[i] < sites[j]
             /\ \A i \in 1 .. n : sites[i] \in Lit(image)
             /\ \A a \in Lit(image) :
                  (\A i \in 1 .. n : sites[i] # a) => \A i \in 1 .. n : sites[i] < a
<1> DEFINE L == Lit(image)
           N == Cardinality(L)
           all == Ascending(L)
           n == Min({N, Capacity})
           sites == SubSeq(all, 1, n)
<1>1. L \in SUBSET Nat /\ IsFiniteSet(L) /\ N \in Nat
  BY LitCells
<1>2. /\ all \in [1 .. N -> L]
      /\ \A i, j \in 1 .. N : i < j => all[i] < all[j]
  <2>1. \E s \in [1 .. N -> L] : \A i, j \in 1 .. N : i < j => s[i] < s[j]
    <3>1. PICK s \in [1 .. N -> L] : IsAscending(s)
      BY <1>1, AscendingExists DEF HasAscending
    <3> QED BY <3>1 DEF IsAscending
  <2> HIDE DEF L
  <2> QED BY <2>1, Zenon DEF Ascending
<1>3. n \in Nat /\ n <= N /\ n <= Capacity
  BY <1>1, MinOfTwo, V4l2Assumption
<1>4. \A i \in 1 .. N : all[i] \in Nat
  BY <1>1, <1>2
<1>5. \A x \in L : \E i \in 1 .. N : all[i] = x
  BY <1>1, <1>2, AscendingIsOnto
<1> HIDE DEF all, n, N, L
<1>6. /\ sites \in Seq(Nat) /\ Len(sites) = n
      /\ \A i \in 1 .. n : sites[i] = all[i]
  <2>1. \A i \in 1 .. n : all[i] \in Nat
    BY <1>1, <1>3, <1>4
  <2>2. /\ sites \in Seq(Nat) /\ Len(sites) = IF 1 <= n THEN n - 1 + 1 ELSE 0
        /\ \A i \in 1 .. n - 1 + 1 : sites[i] = all[1 + i - 1]
    BY <2>1, <1>3, SubSeqProperties
  <2> HIDE DEF sites
  <2> QED BY <2>2, <1>3
<1>7. Sparse(image) = sites
  BY DEF Sparse, all, n, N, L
<1> HIDE DEF sites
<1>8. \A i, j \in 1 .. n : i < j => sites[i] < sites[j]
  BY <1>1, <1>2, <1>3, <1>6
<1>9. \A i \in 1 .. n : sites[i] \in L
  BY <1>1, <1>2, <1>3, <1>6
<1>10. ASSUME NEW a \in L, \A i \in 1 .. n : sites[i] # a, NEW i \in 1 .. n
       PROVE  sites[i] < a
  <2>1. PICK k \in 1 .. N : all[k] = a
    BY <1>5
  <2>2. k > n
    BY <2>1, <1>1, <1>3, <1>6, <1>10
  <2>3. i \in 1 .. N /\ i < k
    BY <2>2, <1>1, <1>3
  <2> QED BY <2>1, <2>3, <1>2, <1>6
<1> QED BY <1>3, <1>6, <1>7, <1>8, <1>9, <1>10 DEF n, N, L

-----------------------------------------------------------------------------
\* The blocks along one side cover it: the edges begin at 0, end with the side
\* and never go back.
LEMMA DivBounds ==
  ASSUME NEW a \in Nat, NEW n \in Nat \ {0}
  PROVE  a \div n \in Nat /\ n * (a \div n) <= a /\ a < n * (a \div n) + n
BY Z3

LEMMA DivMonotonic ==
  ASSUME NEW a \in Nat, NEW b \in Nat, a <= b, NEW n \in Nat \ {0}
  PROVE  a \div n <= b \div n
BY Z3

LEMMA Edges ==
  ASSUME NEW n \in Nat \ {0}, NEW side \in Nat \ {0}
  PROVE  /\ Edge(0, n, side) = 0 /\ Edge(n, n, side) = side
         /\ \A i \in Nat : Edge(i, n, side) \in Nat
         /\ \A i, j \in Nat : i <= j => Edge(i, n, side) <= Edge(j, n, side)
<1>1. Edge(0, n, side) = 0
  BY Z3 DEF Edge
<1>2. Edge(n, n, side) = side
  BY Z3 DEF Edge
<1>3. \A i \in Nat : Edge(i, n, side) \in Nat
  BY DivBounds DEF Edge
<1>4. ASSUME NEW i \in Nat, NEW j \in Nat, i <= j
      PROVE  Edge(i, n, side) <= Edge(j, n, side)
  <2>1. i * side \in Nat /\ j * side \in Nat /\ i * side <= j * side
    <3>1. PICK d \in Nat : j = i + d
      <4>1. j - i \in Nat /\ j = i + (j - i)
        BY <1>4
      <4> QED BY <4>1
    <3>2. j * side = i * side + d * side /\ d * side \in Nat /\ i * side \in Nat
      BY <3>1
    <3> QED BY <3>2
  <2> QED BY <2>1, DivMonotonic DEF Edge
<1> QED BY <1>1, <1>2, <1>3, <1>4

\* An edge lies on its side.
LEMMA EdgeInside ==
  ASSUME NEW n \in Nat \ {0}, NEW side \in Nat \ {0}, NEW i \in Nat, i <= n
  PROVE  Edge(i, n, side) \in Nat /\ Edge(i, n, side) <= side
<1>1. Edge(i, n, side) \in Nat
  BY Edges
<1>2. n \in Nat /\ Edge(n, n, side) = side
  BY Edges
<1>3. Edge(i, n, side) <= Edge(n, n, side)
  BY <1>2, Edges
<1> QED BY <1>1, <1>2, <1>3

\* Each place on a side lies in one block, and CellOf finds it.
LEMMA BlockOfPlace ==
  ASSUME NEW n \in Nat \ {0}, NEW side \in Nat \ {0}, NEW y \in 0 .. side - 1
  PROVE  LET i == Max({r \in 0 .. n - 1 : Edge(r, n, side) <= y})
         IN  /\ i \in 0 .. n - 1
             /\ \A r \in 0 .. n - 1 :
                  y \in Edge(r, n, side) .. Edge(r + 1, n, side) - 1 <=> r = i
<1> DEFINE S == {r \in 0 .. n - 1 : Edge(r, n, side) <= y}
           i == Max(S)
           E(r) == Edge(r, n, side)
<1>1. /\ E(0) = 0 /\ E(n) = side
      /\ \A r \in Nat : E(r) \in Nat
      /\ \A r, s \in Nat : r <= s => E(r) <= E(s)
  BY Edges
<1>2. i \in S /\ \A r \in S : r <= i
  <2>1. S \in SUBSET Nat /\ S # {} /\ n \in Nat /\ \A x \in S : x <= n
    BY <1>1
  <2> HIDE DEF S
  <2> QED BY <2>1, MaxIsGreatest
<1> HIDE DEF i
<1>3. i \in 0 .. n - 1 /\ E(i) <= y
  BY <1>2
<1>4. y < E(i + 1)
  <2>1. CASE i = n - 1
    BY <1>1, <2>1
  <2>2. CASE i # n - 1
    <3>1. i + 1 \in 0 .. n - 1 /\ ~(i + 1 <= i)
      BY <1>3, <2>2
    <3>2. ~(E(i + 1) <= y) /\ E(i + 1) \in Nat
      BY <1>1, <1>2, <3>1
    <3> QED BY <3>2
  <2> QED BY <2>1, <2>2
<1>5. ASSUME NEW r \in 0 .. n - 1, E(r) <= y, y < E(r + 1)
      PROVE  r = i
  <2>1. r <= i
    BY <1>2, <1>5
  <2>2. ~(r + 1 <= i)
    <3>1. r + 1 <= i => E(r + 1) <= E(i)
      BY <1>1, <1>3
    <3>2. E(r + 1) \in Nat /\ E(i) \in Nat
      BY <1>1, <1>3
    <3> QED BY <1>3, <1>5, <3>1, <3>2
  <2> QED BY <1>3, <2>1, <2>2
<1>6. \A r \in 0 .. n - 1 : E(r) \in Nat /\ E(r + 1) \in Nat
  BY <1>1
<1> HIDE DEF E
<1>7. \A r \in 0 .. n - 1 : y \in E(r) .. E(r + 1) - 1 <=> r = i
  BY <1>3, <1>4, <1>5, <1>6
<1> QED BY <1>3, <1>7 DEF i, E

\* A number of a cell gives its row and its column.
LEMMA CellUnique ==
  ASSUME NEW C \in Nat \ {0}, NEW r \in Nat, NEW s \in Nat,
         NEW c \in 0 .. C - 1, NEW d \in 0 .. C - 1, r * C + c = s * C + d
  PROVE  r = s /\ c = d
<1>1. ASSUME NEW i \in Nat, NEW j \in Nat, i < j PROVE i * C + C <= j * C
  <2>1. PICK k \in Nat : j = i + 1 + k
    <3>1. j - (i + 1) \in Nat /\ j = i + 1 + (j - (i + 1))
      BY <1>1
    <3> QED BY <3>1
  <2>2. j * C = i * C + C + k * C /\ k * C \in Nat /\ i * C \in Nat
    BY <2>1
  <2> QED BY <2>2
<1>2. r * C \in Nat /\ s * C \in Nat
  OBVIOUS
<1>3. ~(r < s)
  BY <1>1, <1>2
<1>4. ~(s < r)
  BY <1>1, <1>2
<1>5. r = s
  BY <1>3, <1>4
<1> QED BY <1>2, <1>5

\* The pixels of a cell are its block.
LEMMA BlockIsCell ==
  ASSUME NEW r \in 0 .. Rows - 1, NEW c \in 0 .. Cols - 1
  PROVE  Block(r, c) = {p \in Pixels : CellOf(p) = r * Cols + c}
<1>1. /\ Rows \in Nat \ {0} /\ Cols \in Nat \ {0}
      /\ Height \in Nat \ {0} /\ Width \in Nat \ {0}
  BY GridNatural, V4l2Assumption
<1> DEFINE row(p) == Max({i \in 0 .. Rows - 1 : Edge(i, Rows, Height) <= p[1]})
           col(p) == Max({i \in 0 .. Cols - 1 : Edge(i, Cols, Width) <= p[2]})
           ys == Edge(r, Rows, Height) .. Edge(r + 1, Rows, Height) - 1
           xs == Edge(c, Cols, Width) .. Edge(c + 1, Cols, Width) - 1
<1>2. ASSUME NEW p \in Pixels
      PROVE  /\ row(p) \in 0 .. Rows - 1 /\ (p[1] \in ys <=> r = row(p))
             /\ col(p) \in 0 .. Cols - 1 /\ (p[2] \in xs <=> c = col(p))
  <2>1. p[1] \in 0 .. Height - 1 /\ p[2] \in 0 .. Width - 1
    BY DEF Pixels
  <2>2. row(p) \in 0 .. Rows - 1 /\ (p[1] \in ys <=> r = row(p))
    BY <1>1, <2>1, BlockOfPlace
  <2>3. col(p) \in 0 .. Cols - 1 /\ (p[2] \in xs <=> c = col(p))
    <3> DEFINE y == p[2]
    <3>1. y \in 0 .. Width - 1
      BY <2>1
    <3> HIDE DEF y
    <3>2. LET i == Max({k \in 0 .. Cols - 1 : Edge(k, Cols, Width) <= y})
          IN  /\ i \in 0 .. Cols - 1
              /\ \A k \in 0 .. Cols - 1 :
                   y \in Edge(k, Cols, Width) .. Edge(k + 1, Cols, Width) - 1 <=> k = i
      BY <1>1, <3>1, BlockOfPlace
    <3> QED BY <3>2 DEF y
  <2> QED BY <2>2, <2>3
<1>3. \A p \in Pixels : CellOf(p) = row(p) * Cols + col(p)
  BY DEF CellOf
<1>4. ys \subseteq 0 .. Height - 1 /\ xs \subseteq 0 .. Width - 1
  <2>1. /\ r \in Nat /\ r + 1 \in Nat /\ r + 1 <= Rows
        /\ c \in Nat /\ c + 1 \in Nat /\ c + 1 <= Cols
    BY <1>1
  <2> HIDE DEF row, col, ys, xs
  <2>2. Edge(r, Rows, Height) \in Nat /\ Edge(r + 1, Rows, Height) <= Height
        /\ Edge(r + 1, Rows, Height) \in Nat
    BY <1>1, <2>1, EdgeInside
  <2>3. Edge(c, Cols, Width) \in Nat /\ Edge(c + 1, Cols, Width) <= Width
        /\ Edge(c + 1, Cols, Width) \in Nat
    BY <1>1, <2>1, EdgeInside
  <2>4. ys \subseteq 0 .. Height - 1
    BY <1>1, <2>2 DEF ys
  <2>5. xs \subseteq 0 .. Width - 1
    BY <1>1, <2>3 DEF xs
  <2> QED BY <2>4, <2>5
<1>5. Block(r, c) = ys \X xs
  BY DEF Block
<1> HIDE DEF row, col, ys, xs
<1>6. ASSUME NEW p \in Pixels PROVE p \in ys \X xs <=> CellOf(p) = r * Cols + c
  <2>1. p \in ys \X xs <=> r = row(p) /\ c = col(p)
    BY <1>2 DEF Pixels
  <2>2. CellOf(p) = row(p) * Cols + col(p)
    BY <1>3
  <2>3. row(p) \in Nat /\ r \in Nat /\ col(p) \in 0 .. Cols - 1
    BY <1>1, <1>2
  <2>4. row(p) * Cols + col(p) = r * Cols + c => r = row(p) /\ c = col(p)
    BY <1>1, <2>3, CellUnique
  <2> QED BY <2>1, <2>2, <2>4
<1>7. ys \X xs \subseteq Pixels
  BY <1>4 DEF Pixels
<1> QED BY <1>5, <1>6, <1>7

\* yuyv_to_sparse, which goes through the cells, and SitesOf, which goes through
\* the pixels, name the same sites.
LEMMA SitesAgree ==
  ASSUME NEW image
  PROVE  Lit(image) = SitesOf(image)
<1> DEFINE Of(k) == {p \in Pixels : CellOf(p) = k}
           Cell == (0 .. Rows - 1) \X (0 .. Cols - 1)
           Number(x) == x[1] * Cols + x[2]
<1>1. ASSUME NEW x \in Cell PROVE Block(x[1], x[2]) = Of(Number(x))
  BY BlockIsCell
<1>2. ASSUME NEW p \in Pixels PROVE \E x \in Cell : CellOf(p) = Number(x)
  <2> DEFINE row == Max({i \in 0 .. Rows - 1 : Edge(i, Rows, Height) <= p[1]})
             col == Max({i \in 0 .. Cols - 1 : Edge(i, Cols, Width) <= p[2]})
  <2>1. /\ Rows \in Nat \ {0} /\ Cols \in Nat \ {0}
        /\ Height \in Nat \ {0} /\ Width \in Nat \ {0}
        /\ p[1] \in 0 .. Height - 1 /\ p[2] \in 0 .. Width - 1
    BY GridNatural, V4l2Assumption DEF Pixels
  <2>2. row \in 0 .. Rows - 1 /\ col \in 0 .. Cols - 1
    <3> DEFINE y == p[1]
               x == p[2]
    <3>1. y \in 0 .. Height - 1 /\ x \in 0 .. Width - 1
      BY <2>1
    <3> HIDE DEF y, x
    <3>2. Max({i \in 0 .. Rows - 1 : Edge(i, Rows, Height) <= y}) \in 0 .. Rows - 1
      BY <2>1, <3>1, BlockOfPlace
    <3>3. Max({i \in 0 .. Cols - 1 : Edge(i, Cols, Width) <= x}) \in 0 .. Cols - 1
      BY <2>1, <3>1, BlockOfPlace
    <3> QED BY <3>2, <3>3 DEF y, x
  <2>3. CellOf(p) = row * Cols + col
    BY DEF CellOf
  <2> HIDE DEF row, col
  <2>4. <<row, col>> \in Cell /\ Number(<<row, col>>) = row * Cols + col
    BY <2>2
  <2> QED BY <2>3, <2>4
<1>3. Lit(image) = {Number(x) : x \in {x \in Cell : Bright(image, Block(x[1], x[2]))}}
  BY DEF Lit
<1>4. SitesOf(image) = {k \in {CellOf(p) : p \in Pixels} : Above(image, Of(k))}
  BY DEF SitesOf
<1> HIDE DEF Number, Cell
<1>5. ASSUME NEW k \in Lit(image) PROVE k \in SitesOf(image)
  <2>1. PICK x \in Cell : Bright(image, Block(x[1], x[2])) /\ k = Number(x)
    BY <1>3
  <2>2. Of(k) # {} /\ Above(image, Of(k))
    BY <2>1, <1>1 DEF Bright
  <2>3. k \in {CellOf(p) : p \in Pixels}
    BY <2>2
  <2> QED BY <1>4, <2>2, <2>3
<1>6. ASSUME NEW k \in SitesOf(image) PROVE k \in Lit(image)
  <2>1. PICK p \in Pixels : k = CellOf(p)
    BY <1>4
  <2>2. PICK x \in Cell : k = Number(x)
    BY <1>2, <2>1
  <2>3. p \in Of(k) /\ Above(image, Of(k))
    BY <1>4, <2>1
  <2>4. Bright(image, Block(x[1], x[2]))
    BY <1>1, <2>2, <2>3 DEF Bright
  <2> QED BY <1>3, <2>2, <2>4
<1> QED BY <1>5, <1>6

-----------------------------------------------------------------------------
(***************************************************************************)
(* The inductive invariant, in parts that name one concern each.  Holding  *)
(* is "there is a buffer between DQBUF and QBUF".                          *)
(***************************************************************************)
Holding == held # NoBuffer

Types ==
  /\ V4l2TypeOK
  /\ memory \in [DOMAIN buffers -> [Pixels -> 0 .. 255]]

\* What is left in each stage of a session.
Stages ==
  /\ maps = {i \in DOMAIN buffers : buffers[i] = "mapped"}
  /\ stage = "created" =>
       /\ ~fd /\ ~debug /\ ~streaming /\ buffers = NoTable
       /\ outq = <<>> /\ captured = {} /\ delivered = <<>>
  /\ stage \in {"down", "gone"} =>
       ~fd /\ ~debug /\ ~streaming /\ buffers = NoTable /\ outq = <<>>
  /\ Holding => stage = "up"

\* Every buffer in the cycle is one of the table and is in one place only.
Places ==
  /\ \A i \in 1 .. Len(inq) : inq[i] \in DOMAIN buffers
  /\ \A i \in 1 .. Len(outq) : outq[i].index \in DOMAIN buffers
  /\ Holding => held.index \in DOMAIN buffers

Apart ==
  /\ \A i, j \in 1 .. Len(inq) : inq[i] = inq[j] => i = j
  /\ \A i, j \in 1 .. Len(outq) : outq[i].index = outq[j].index => i = j
  /\ \A i \in 1 .. Len(inq), j \in 1 .. Len(outq) : inq[i] # outq[j].index
  /\ Holding => /\ \A i \in 1 .. Len(inq) : inq[i] # held.index
                /\ \A i \in 1 .. Len(outq) : outq[i].index # held.index

\* While the camera runs, all of them are in the cycle.
InCycle(b) ==
  \/ \E i \in 1 .. Len(inq) : inq[i] = b
  \/ \E i \in 1 .. Len(outq) : outq[i].index = b
  \/ Holding /\ held.index = b

Everywhere ==
  stage = "up" =>
    /\ Len(buffers) >= 2
    /\ \A b \in DOMAIN buffers : buffers[b] = "mapped" /\ InCycle(b)
    /\ Len(inq) + Len(outq) + (IF Holding THEN 1 ELSE 0) = Len(buffers)

\* The numbers ascend along the way of a frame, up to the driver's clock.
Order ==
  /\ \A i, j \in 1 .. Len(delivered) :
       i < j => delivered[i].sequence < delivered[j].sequence
  /\ \A i, j \in 1 .. Len(outq) : i < j => outq[i].sequence < outq[j].sequence
  /\ \A i \in 1 .. Len(delivered), j \in 1 .. Len(outq) :
       delivered[i].sequence < outq[j].sequence
  /\ Holding => /\ \A i \in 1 .. Len(delivered) : delivered[i].sequence < held.sequence
                /\ \A j \in 1 .. Len(outq) : held.sequence < outq[j].sequence

\* A number stands for one image and its stamp, and what is on its way under a
\* number is them: in the memory of its buffer first, as its sites at the end.
Shows(buffer) ==
  <<buffer.sequence, memory[buffer.index], buffer.t_ns>> \in captured

Faithful ==
  /\ \A c \in captured : c[1] < clock
  /\ \A c, d \in captured : c[1] = d[1] => c = d
  /\ \A i \in 1 .. Len(outq) : Shows(outq[i])
  /\ Holding => Shows(held)
  /\ \A i \in 1 .. Len(delivered) :
       \E c \in captured :
         /\ c[1] = delivered[i].sequence /\ delivered[i].support = Sparse(c[2])
         /\ c[3] = delivered[i].t_ns

\* While the camera runs, no image is lost.
OnItsWay(number) ==
  \/ \E i \in 1 .. Len(delivered) : delivered[i].sequence = number
  \/ Holding /\ held.sequence = number
  \/ \E i \in 1 .. Len(outq) : outq[i].sequence = number

NoneLost == stage = "up" => \A c \in captured : OnItsWay(c[1])

V4l2Inv ==
  /\ Types /\ Stages /\ Places /\ Apart /\ Everywhere
  /\ Order /\ Faithful /\ NoneLost
-----------------------------------------------------------------------------
LEMMA InitEstablishes == Init => V4l2Inv
<1> SUFFICES ASSUME Init PROVE V4l2Inv
  OBVIOUS
<1>1. /\ \A S : <<>> \in Seq(S)
      /\ Len(inq) = 0 /\ Len(outq) = 0 /\ Len(delivered) = 0 /\ DOMAIN buffers = {}
      /\ DOMAIN memory = {} /\ memory \in [{} -> [Pixels -> 0 .. 255]]
  BY EmptySeq DEF Init, NoTable
<1>2. NoBuffer \in Numbered
  BY DEF NoBuffer, Numbered
<1>3. Types
  <2>1. /\ maps \subseteq Nat /\ clock \in Nat
        /\ captured \subseteq Nat \X [Pixels -> 0 .. 255] \X Int
    BY DEF Init
  <2> QED BY <1>1, <1>2, <2>1, Zenon DEF Init, Types, V4l2TypeOK, NoTable
<1>4. Stages
  BY <1>1 DEF Stages, Init, Holding
<1>5. Places /\ Apart
  BY <1>1 DEF Places, Apart, Init, Holding
<1>6. Everywhere /\ NoneLost
  BY DEF Everywhere, NoneLost, Init
<1>7. Order /\ Faithful
  BY <1>1 DEF Order, Faithful, Init, Holding
<1> QED BY <1>3, <1>4, <1>5, <1>6, <1>7 DEF V4l2Inv

\* A session that was opened in any of the ways of v4l2_init, whether or not it
\* succeeded, if it is not up unless everything is mapped and queued.
LEMMA OpenedSession ==
  ASSUME V4l2Inv, stage \in {"created", "down"},
         NEW n \in Nat, NEW table \in [1 .. n -> {"null", "mapped", "failed"}],
         NEW q \in 0 .. n, NEW on \in BOOLEAN, NEW frame \in BOOLEAN,
         Session(table, q, on, frame),
         clock' = 0, captured' = {}, delivered' = <<>>, UNCHANGED <<outq, held>>,
         stage' \in {"up", "failed"},
         stage' = "up" => n >= 2 /\ q = n /\ \A b \in 1 .. n : table[b] = "mapped"
  PROVE  V4l2Inv'
<1>1. /\ outq = <<>> /\ ~Holding
      /\ outq' = <<>> /\ captured' = {} /\ delivered' = <<>> /\ ~Holding'
  BY DEF V4l2Inv, Stages, Holding
<1>2. /\ buffers' = table /\ DOMAIN table = 1 .. n
      /\ buffers' \in Seq({"null", "mapped", "failed"}) /\ Len(buffers') = n
  <2>1. table \in Seq({"null", "mapped", "failed"})
    BY SeqDef
  <2> QED BY <2>1, LenProperties DEF Session
<1>3. inq' = UpTo(q) /\ inq' \in Seq(Nat) /\ Len(inq') = q /\ \A i \in 1 .. q : inq'[i] = i
  <2>1. UpTo(q) \in [1 .. q -> Nat]
    BY DEF UpTo
  <2>2. UpTo(q) \in Seq(Nat) /\ Len(UpTo(q)) = q
    BY <2>1, SeqDef, LenProperties
  <2> QED BY <2>2 DEF Session, UpTo
<1>4. Len(outq') = 0 /\ Len(delivered') = 0
  BY <1>1, EmptySeq
<1>5. maps' = {i \in 1 .. n : table[i] = "mapped"}
  BY <1>2 DEF Session
<1>6. Types'
  <2>1. Dark \in [Pixels -> 0 .. 255]
    BY DEF Dark
  <2>2. memory' \in [DOMAIN buffers' -> [Pixels -> 0 .. 255]]
    BY <1>2, <2>1 DEF Session
  <2>3. DOMAIN memory' = DOMAIN buffers'
    BY <2>2
  <2>4. /\ outq' \in Seq(Numbered) /\ held' \in Numbered
        /\ captured' \subseteq Nat \X [Pixels -> 0 .. 255] \X Int
    BY DEF V4l2Inv, Types, V4l2TypeOK
  <2>8. clock' \in Nat /\ delivered' \in Seq(Delivery)
    BY EmptySeq
  <2>5. maps' \subseteq Nat
    BY <1>5
  <2>6. fd' \in BOOLEAN /\ debug' \in BOOLEAN /\ streaming' \in BOOLEAN
    BY Zenon DEF Session
  <2>7. stage' \in {"created", "failed", "up", "faulted", "down", "gone"}
    OBVIOUS
  <2> QED BY <1>2, <1>3, <2>2, <2>3, <2>4, <2>5, <2>6, <2>7, <2>8, Zenon DEF Types, V4l2TypeOK
<1>7. Stages'
  BY <1>1, <1>2, <1>5 DEF Stages
<1>8. Places' /\ Apart'
  BY <1>1, <1>2, <1>3, <1>4 DEF Places, Apart
<1>9. Everywhere'
  BY <1>1, <1>2, <1>3, <1>4 DEF Everywhere, InCycle
<1>10. Order' /\ Faithful' /\ NoneLost'
  BY <1>1, <1>4 DEF Order, Faithful, NoneLost
<1> QED BY <1>6, <1>7, <1>8, <1>9, <1>10 DEF V4l2Inv

\* v4l2_init, whether it succeeds or stops half-way.
LEMMA V4l2InitPreserves ==
  ASSUME V4l2Inv, V4l2Init
  PROVE  V4l2Inv'
<1> DEFINE Entry == {"null", "mapped", "failed"}
<1>1. /\ stage \in {"created", "down"}
      /\ clock' = 0 /\ captured' = {} /\ delivered' = <<>> /\ UNCHANGED <<outq, held>>
  BY DEF V4l2Init
<1>2. \A n \in Granted : n \in Nat
  BY V4l2Assumption
<1>3. \A n, k \in Nat : Table(n, k) \in [1 .. n -> Entry]
  BY DEF Table
<1>4. \A n \in Nat : \A b \in 1 .. n : Table(n, n)[b] = "mapped"
  BY DEF Table
<1> HIDE DEF Entry
<1>5. CASE InitDone
  <2>1. PICK n \in Granted : n >= 2 /\ Session(Table(n, n), n, TRUE, TRUE) /\ stage' = "up"
    BY <1>5 DEF InitDone
  <2>2. n \in Nat /\ n \in 0 .. n /\ TRUE \in BOOLEAN
    BY <1>2
  <2> QED BY <1>1, <1>3, <1>4, <2>1, <2>2, OpenedSession DEF Entry
<1>6. CASE OpenFails /\ stage' = "failed"
  <2>1. UNCHANGED <<fd, buffers, debug, maps, inq, outq, streaming, memory, held>>
    BY <1>1, <1>6 DEF OpenFails
  <2>2. /\ ~Holding /\ ~Holding' /\ outq = <<>>
        /\ Len(outq') = 0 /\ Len(delivered') = 0
    BY <1>1, <2>1, EmptySeq DEF V4l2Inv, Stages, Holding
  <2>3. Types'
    <3>1. /\ clock' \in Nat /\ delivered' \in Seq(Delivery)
          /\ captured' \subseteq Nat \X [Pixels -> 0 .. 255] \X Int
      BY <1>1, EmptySeq
    <3> QED BY <1>6, <2>1, <3>1 DEF V4l2Inv, Types, V4l2TypeOK
  <2>4. Stages'
    BY <1>1, <1>6, <2>1, <2>2 DEF V4l2Inv, Stages
  <2>5. Places' /\ Apart'
    BY <2>1 DEF V4l2Inv, Places, Apart, Holding
  <2>6. Order' /\ Faithful'
    BY <1>1, <2>2 DEF Order, Faithful
  <2>7. Everywhere' /\ NoneLost'
    BY <1>6 DEF Everywhere, NoneLost
  <2> QED BY <2>3, <2>4, <2>5, <2>6, <2>7 DEF V4l2Inv
<1>7. CASE NoBuffersGot /\ stage' = "failed"
  <2>1. NoTable \in [1 .. 0 -> Entry] /\ 0 \in 0 .. 0
    <3>1. NoTable \in Seq(Entry) /\ Len(NoTable) = 0
      BY EmptySeq DEF NoTable
    <3> QED BY <3>1, LenProperties
  <2> QED BY <1>1, <1>7, <2>1, OpenedSession DEF NoBuffersGot, Entry
<1>8. CASE MapFails /\ stage' = "failed"
  <2>1. PICK n \in Granted : \E k \in 0 .. n - 1 :
          \/ Session(Table(n, k), k, FALSE, FALSE)
          \/ Session([Table(n, k) EXCEPT ![k + 1] = "failed"], k, FALSE, FALSE)
          \/ Session(Table(n, k + 1), k, FALSE, FALSE)
    BY <1>8 DEF MapFails
  <2> PICK k \in 0 .. n - 1 :
          \/ Session(Table(n, k), k, FALSE, FALSE)
          \/ Session([Table(n, k) EXCEPT ![k + 1] = "failed"], k, FALSE, FALSE)
          \/ Session(Table(n, k + 1), k, FALSE, FALSE)
    BY <2>1
  <2>2. n \in Nat /\ k \in Nat /\ k \in 0 .. n /\ k + 1 \in Nat /\ k + 1 \in 1 .. n
    BY <1>2
  <2>3. /\ Table(n, k) \in [1 .. n -> Entry] /\ Table(n, k + 1) \in [1 .. n -> Entry]
        /\ [Table(n, k) EXCEPT ![k + 1] = "failed"] \in [1 .. n -> Entry]
    BY <1>3, <2>2 DEF Entry
  <2> QED BY <1>1, <1>8, <2>1, <2>2, <2>3, OpenedSession DEF Entry
<1>9. CASE StreamFails /\ stage' = "failed"
  <2>1. PICK n \in Granted, on \in BOOLEAN : Session(Table(n, n), n, on, FALSE)
    BY <1>9 DEF StreamFails
  <2>2. n \in Nat /\ n \in 0 .. n
    BY <1>2
  <2> QED BY <1>1, <1>3, <1>9, <2>1, <2>2, OpenedSession DEF Entry
<1> QED BY <1>5, <1>6, <1>7, <1>8, <1>9 DEF V4l2Init

\* What the actions below know of the state they start from.
LEMMA Facts ==
  ASSUME V4l2Inv
  PROVE  /\ buffers \in Seq({"null", "mapped", "failed"}) /\ Len(buffers) \in Nat
         /\ DOMAIN buffers = 1 .. Len(buffers)
         /\ inq \in Seq(Nat) /\ Len(inq) \in Nat /\ DOMAIN inq = 1 .. Len(inq)
         /\ outq \in Seq(Numbered) /\ Len(outq) \in Nat /\ DOMAIN outq = 1 .. Len(outq)
         /\ delivered \in Seq(Delivery)
         /\ Len(delivered) \in Nat /\ DOMAIN delivered = 1 .. Len(delivered)
         /\ held \in Numbered /\ held.index \in Nat /\ held.sequence \in Nat
         /\ held.t_ns \in Int
         /\ clock \in Nat /\ captured \subseteq Nat \X [Pixels -> 0 .. 255] \X Int
         /\ memory \in [DOMAIN buffers -> [Pixels -> 0 .. 255]]
         /\ \A i \in 1 .. Len(outq) : outq[i] \in Numbered
         /\ \A i \in 1 .. Len(outq) : outq[i].index \in Nat /\ outq[i].sequence \in Nat
         /\ \A i \in 1 .. Len(delivered) : delivered[i].sequence \in Nat
<1>1. /\ buffers \in Seq({"null", "mapped", "failed"})
      /\ inq \in Seq(Nat) /\ outq \in Seq(Numbered) /\ held \in Numbered /\ clock \in Nat
      /\ delivered \in Seq(Delivery)
      /\ captured \subseteq Nat \X [Pixels -> 0 .. 255] \X Int
      /\ memory \in [DOMAIN buffers -> [Pixels -> 0 .. 255]]
  BY DEF V4l2Inv, Types, V4l2TypeOK
<1>2. \A i \in 1 .. Len(outq) : outq[i] \in Numbered
  BY <1>1, ElementOfSeq
<1>3. \A i \in 1 .. Len(outq) : outq[i].index \in Nat /\ outq[i].sequence \in Nat
  BY <1>2 DEF Numbered
<1>4. \A i \in 1 .. Len(delivered) : delivered[i].sequence \in Nat
  <2>1. \A i \in 1 .. Len(delivered) : delivered[i] \in Delivery
    BY <1>1, ElementOfSeq
  <2> QED BY <2>1 DEF Delivery
<1>5. held.index \in Nat /\ held.sequence \in Nat /\ held.t_ns \in Int
  BY <1>1 DEF Numbered
<1> QED BY <1>1, <1>2, <1>3, <1>4, <1>5, LenProperties

LEMMA FillPreserves ==
  ASSUME V4l2Inv, Fill
  PROVE  V4l2Inv'
<1> DEFINE h == Head(inq)
           m == Len(outq)
<1>1. PICK image \in Images, t \in Stamps :
        /\ memory' = [memory EXCEPT ![h] = image]
        /\ captured' = captured \cup {<<clock, image, t>>}
        /\ outq' = Append(outq, [index |-> h, sequence |-> clock, t_ns |-> t])
  BY DEF Fill
<1> DEFINE entry == [index |-> h, sequence |-> clock, t_ns |-> t]
<1>2. /\ inq # <<>> /\ inq' = Tail(inq) /\ outq' = Append(outq, entry) /\ clock' = clock + 1
      /\ UNCHANGED <<stage, fd, buffers, debug, maps, streaming, held, delivered>>
  BY <1>1 DEF Fill, sessionVars
<1>3. image \in [Pixels -> 0 .. 255] /\ t \in Int
  BY V4l2Assumption
<1>4. /\ inq' \in Seq(Nat) /\ Len(inq) \in Nat \ {0} /\ Len(inq') = Len(inq) - 1
      /\ h = inq[1] /\ h \in Nat
      /\ \A k \in 1 .. Len(inq) - 1 : inq'[k] = inq[k + 1]
  BY <1>2, Facts, TailAt
<1>5. entry \in Numbered /\ entry.index = h /\ entry.sequence = clock /\ entry.t_ns = t
  BY <1>3, <1>4, Facts DEF Numbered
<1> HIDE DEF entry, h
<1>6. /\ outq' \in Seq(Numbered) /\ Len(outq') = m + 1 /\ m \in Nat
      /\ outq'[m + 1] = entry
      /\ \A k \in 1 .. m : outq'[k] = outq[k]
  BY <1>2, <1>5, Facts, AppendAt
<1>7. h \in DOMAIN buffers
  BY <1>4 DEF V4l2Inv, Places
<1>8. /\ memory' \in [DOMAIN buffers -> [Pixels -> 0 .. 255]]
      /\ memory'[h] = image
      /\ \A b \in DOMAIN buffers : b # h => memory'[b] = memory[b]
  BY <1>1, <1>3, <1>7, Facts
<1>9. \A k \in 1 .. m + 1 : k \in 1 .. m \/ k = m + 1
  BY <1>6
<1>10. Holding' <=> Holding
  BY <1>2 DEF Holding
<1> HIDE DEF m
<1>11. Types'
  <2>1. captured' \subseteq Nat \X [Pixels -> 0 .. 255] \X Int /\ clock' \in Nat
    <3>1. clock \in Nat /\ captured \subseteq Nat \X [Pixels -> 0 .. 255] \X Int
      BY Facts
    <3>2. <<clock, image, t>> \in Nat \X [Pixels -> 0 .. 255] \X Int
      BY <3>1, <1>3
    <3>3. clock' \in Nat
      BY <1>2, <3>1
    <3>4. captured' \subseteq Nat \X [Pixels -> 0 .. 255] \X Int
      BY <1>1, <3>1, <3>2, Zenon
    <3> QED BY <3>3, <3>4
  <2>2. DOMAIN memory' = DOMAIN buffers'
    BY <1>2, <1>8
  <2>3. memory' \in [DOMAIN buffers' -> [Pixels -> 0 .. 255]]
    BY <1>2, <1>8
  <2> QED BY <1>2, <1>4, <1>6, <2>1, <2>2, <2>3, Zenon DEF V4l2Inv, Types, V4l2TypeOK
<1>12. Stages'
  <2>1. stage # "created" /\ streaming
    BY DEF V4l2Inv, Stages, Fill
  <2> QED BY <1>2, <1>10, <2>1 DEF V4l2Inv, Stages
<1>13. Places'
  <2>1. \A i \in 1 .. Len(inq') : inq'[i] \in DOMAIN buffers'
    BY <1>2, <1>4 DEF V4l2Inv, Places
  <2>2. \A i \in 1 .. m + 1 : outq'[i].index \in DOMAIN buffers'
    BY <1>2, <1>5, <1>6, <1>7, <1>9 DEF V4l2Inv, Places, m
  <2> QED BY <1>2, <1>6, <1>10, <2>1, <2>2 DEF V4l2Inv, Places
<1>14. Apart'
  <2> 1 \in 1 .. Len(inq)
    BY <1>4
  <2> \A i \in 1 .. Len(inq') : i \in Nat /\ i + 1 \in 1 .. Len(inq) /\ i + 1 # 1
    BY <1>4
  <2>1. ASSUME NEW i \in 1 .. Len(inq'), NEW j \in 1 .. Len(inq'), inq'[i] = inq'[j]
        PROVE  i = j
    <3>1. inq[i + 1] = inq[j + 1]
      BY <2>1, <1>4
    <3>2. i + 1 = j + 1
      BY <3>1 DEF V4l2Inv, Apart
    <3> QED BY <3>2
  <2>2. \A i \in 1 .. m : outq[i].index # h
    BY <1>4 DEF V4l2Inv, Apart, m
  <2>3. \A i, j \in 1 .. m + 1 : outq'[i].index = outq'[j].index => i = j
    BY <1>5, <1>6, <1>9, <2>2 DEF V4l2Inv, Apart, m
  <2>4. \A i \in 1 .. Len(inq') : inq'[i] # h
    BY <1>4 DEF V4l2Inv, Apart
  <2>5. \A i \in 1 .. Len(inq'), j \in 1 .. m : inq'[i] # outq'[j].index
    <3> SUFFICES ASSUME NEW i \in 1 .. Len(inq'), NEW j \in 1 .. m
                 PROVE  inq'[i] # outq'[j].index
      OBVIOUS
    <3>1. inq'[i] = inq[i + 1] /\ outq'[j] = outq[j]
      BY <1>4, <1>6
    <3>2. inq[i + 1] # outq[j].index
      BY DEF V4l2Inv, Apart, m
    <3> QED BY <3>1, <3>2
  <2>6. \A i \in 1 .. Len(inq'), j \in 1 .. m + 1 : inq'[i] # outq'[j].index
    BY <1>5, <1>6, <1>9, <2>4, <2>5
  <2>7. Holding => /\ \A i \in 1 .. Len(inq') : inq'[i] # held.index
                   /\ h # held.index
    BY <1>4 DEF V4l2Inv, Apart
  <2>8. Holding => \A i \in 1 .. m + 1 : outq'[i].index # held.index
    BY <1>5, <1>6, <1>9, <2>7 DEF V4l2Inv, Apart, m
  <2> QED BY <1>2, <1>6, <1>10, <2>1, <2>3, <2>6, <2>7, <2>8 DEF Apart
<1>15. Everywhere'
  <2> SUFFICES ASSUME stage' = "up" PROVE Everywhere'
    BY DEF Everywhere
  <2>1. /\ Len(buffers) >= 2
        /\ \A b \in DOMAIN buffers : buffers[b] = "mapped" /\ InCycle(b)
        /\ Len(inq) + m + (IF Holding THEN 1 ELSE 0) = Len(buffers)
    BY <1>2 DEF V4l2Inv, Everywhere, m
  <2>2. ASSUME NEW b \in DOMAIN buffers PROVE InCycle(b)'
    <3>1. CASE \E i \in 1 .. Len(inq) : inq[i] = b
      <4>1. PICK i \in 1 .. Len(inq) : inq[i] = b
        BY <3>1
      <4>2. CASE i = 1
        <5>1. outq'[m + 1].index = b /\ m + 1 \in 1 .. Len(outq')
          BY <4>1, <4>2, <1>4, <1>5, <1>6
        <5> QED BY <5>1 DEF InCycle
      <4>3. CASE i # 1
        <5>1. inq'[i - 1] = b /\ i - 1 \in 1 .. Len(inq')
          BY <4>1, <4>3, <1>4
        <5> QED BY <5>1 DEF InCycle
      <4> QED BY <4>2, <4>3
    <3>2. CASE \E i \in 1 .. m : outq[i].index = b
      BY <3>2, <1>6 DEF InCycle
    <3>3. CASE Holding /\ held.index = b
      BY <3>3, <1>2, <1>10 DEF InCycle
    <3> QED BY <2>1, <3>1, <3>2, <3>3 DEF InCycle, m
  <2>3. Len(inq') + Len(outq') + (IF Holding' THEN 1 ELSE 0) = Len(buffers')
    BY <1>2, <1>4, <1>6, <1>10, <2>1
  <2> QED BY <1>2, <2>1, <2>2, <2>3 DEF Everywhere
<1>16. \A i \in 1 .. m : outq[i].sequence < clock
  BY Facts DEF V4l2Inv, Faithful, Shows, m
<1>17. \A i \in 1 .. Len(delivered) : delivered[i].sequence < clock
  BY Facts DEF V4l2Inv, Faithful
<1>18. Holding => held.sequence < clock
  BY Facts DEF V4l2Inv, Faithful, Shows
<1>19. Order'
  <2>1. \A i, j \in 1 .. m + 1 : i < j => outq'[i].sequence < outq'[j].sequence
    BY <1>5, <1>6, <1>9, <1>16 DEF V4l2Inv, Order, m
  <2>2. \A i \in 1 .. Len(delivered), j \in 1 .. m + 1 :
          delivered[i].sequence < outq'[j].sequence
    BY <1>5, <1>6, <1>9, <1>17 DEF V4l2Inv, Order, m
  <2>3. Holding => \A j \in 1 .. m + 1 : held.sequence < outq'[j].sequence
    BY <1>5, <1>6, <1>9, <1>18 DEF V4l2Inv, Order, m
  <2> QED BY <1>2, <1>6, <1>10, <2>1, <2>2, <2>3 DEF V4l2Inv, Order
<1>20. Faithful'
  <2>1. \A c \in captured' : c \in captured \/ c = <<clock, image, t>>
    BY <1>1
  <2>2. \A c \in captured' : c[1] < clock'
    <3>1. clock \in Nat /\ \A c \in captured : c[1] \in Nat /\ c[1] < clock
      BY Facts DEF V4l2Inv, Faithful
    <3>2. <<clock, image, t>>[1] < clock + 1
      BY <3>1
    <3>3. ASSUME NEW c \in captured PROVE c[1] < clock + 1
      BY <3>1
    <3> QED BY <1>2, <2>1, <3>2, <3>3
  <2>3. \A c, d \in captured' : c[1] = d[1] => c = d
    <3>1. clock \in Nat /\ \A c \in captured : c[1] \in Nat /\ c[1] < clock
      BY Facts DEF V4l2Inv, Faithful
    <3>2. <<clock, image, t>>[1] = clock /\ ~(clock < clock)
      BY <3>1
    <3>3. \A c, d \in captured : c[1] = d[1] => c = d
      BY DEF V4l2Inv, Faithful
    <3> QED BY <2>1, <3>1, <3>2, <3>3
  <2>4. \A i \in 1 .. m + 1 : <<outq'[i].sequence, memory'[outq'[i].index], outq'[i].t_ns>> \in captured'
    <3>1. ASSUME NEW i \in 1 .. m
          PROVE  <<outq'[i].sequence, memory'[outq'[i].index], outq'[i].t_ns>> \in captured'
      <4>1. outq'[i] = outq[i] /\ outq[i].index \in DOMAIN buffers /\ outq[i].index # h
        BY <1>4, <1>6 DEF V4l2Inv, Places, Apart, m
      <4>2. memory'[outq[i].index] = memory[outq[i].index]
        BY <4>1, <1>8
      <4> QED BY <4>1, <4>2, <1>1 DEF V4l2Inv, Faithful, Shows, m
    <3>2. <<outq'[m + 1].sequence, memory'[outq'[m + 1].index], outq'[m + 1].t_ns>> \in captured'
      BY <1>1, <1>5, <1>6, <1>8
    <3> QED BY <3>1, <3>2, <1>9
  <2>5. Holding => <<held.sequence, memory'[held.index], held.t_ns>> \in captured'
    <3>1. Holding => held.index \in DOMAIN buffers /\ held.index # h
      BY <1>4 DEF V4l2Inv, Places, Apart
    <3> QED BY <3>1, <1>1, <1>8 DEF V4l2Inv, Faithful, Shows
  <2>6. \A i \in 1 .. Len(delivered) : \E c \in captured' :
          /\ c[1] = delivered[i].sequence /\ delivered[i].support = Sparse(c[2])
          /\ c[3] = delivered[i].t_ns
    BY <1>1 DEF V4l2Inv, Faithful
  <2> QED BY <1>2, <1>6, <1>10, <2>2, <2>3, <2>4, <2>5, <2>6 DEF Faithful, Shows
<1>21. NoneLost'
  <2> SUFFICES ASSUME stage' = "up", NEW c \in captured' PROVE OnItsWay(c[1])'
    BY DEF NoneLost
  <2>1. CASE c \in captured
    <3>1. OnItsWay(c[1])
      BY <1>2, <2>1 DEF V4l2Inv, NoneLost
    <3>2. (\E i \in 1 .. m : outq[i].sequence = c[1]) =>
            \E i \in 1 .. Len(outq') : outq'[i].sequence = c[1]
      BY <1>6
    <3> QED BY <3>1, <3>2, <1>2, <1>10 DEF OnItsWay, m
  <2>2. CASE c = <<clock, image, t>>
    <3>1. outq'[m + 1].sequence = c[1] /\ m + 1 \in 1 .. Len(outq')
      BY <2>2, <1>5, <1>6
    <3> QED BY <3>1 DEF OnItsWay
  <2> QED BY <1>1, <2>1, <2>2
<1> QED BY <1>11, <1>12, <1>13, <1>14, <1>15, <1>19, <1>20, <1>21 DEF V4l2Inv

\* The driver skips a number that it has no buffer for.
LEMMA SkipPreserves ==
  ASSUME V4l2Inv, Skip
  PROVE  V4l2Inv'
<1>1. /\ clock \in Nat /\ clock' = clock + 1
      /\ UNCHANGED <<stage, fd, buffers, debug, maps, inq, outq, streaming, memory, held,
                     captured, delivered>>
  BY Facts DEF Skip, sessionVars
<1>2. \A c \in captured' : c[1] < clock'
  <2>1. \A c \in captured : c[1] \in Nat /\ c[1] < clock
    BY Facts DEF V4l2Inv, Faithful
  <2> QED BY <1>1, <2>1
<1>3. Types'
  <2>1. clock' \in Nat
    BY <1>1
  <2> QED BY <1>1, <2>1 DEF V4l2Inv, Types, V4l2TypeOK
<1>4. Faithful'
  BY <1>1, <1>2 DEF V4l2Inv, Faithful, Shows, Holding
<1>5. Stages' /\ Places' /\ Apart'
  BY <1>1 DEF V4l2Inv, Stages, Places, Apart, Holding
<1>6. Everywhere' /\ Order' /\ NoneLost'
  BY <1>1 DEF V4l2Inv, Everywhere, InCycle, Order, NoneLost, OnItsWay, Holding
<1> QED BY <1>3, <1>4, <1>5, <1>6 DEF V4l2Inv

\* A filled buffer is not NoBuffer: its index is one of the table.
LEMMA HoldsAfterDequeue ==
  ASSUME V4l2Inv, NEW i \in 1 .. Len(outq)
  PROVE  outq[i] # NoBuffer
<1>1. outq[i].index \in 1 .. Len(buffers)
  BY Facts DEF V4l2Inv, Places
<1> QED BY <1>1, Facts DEF NoBuffer

LEMMA DequeuePreserves ==
  ASSUME V4l2Inv, Dequeue
  PROVE  V4l2Inv'
<1> DEFINE m == Len(outq)
<1>1. /\ stage = "up" /\ ~Holding /\ outq # <<>>
      /\ held' = Head(outq) /\ outq' = Tail(outq)
      /\ UNCHANGED <<stage, fd, buffers, debug, maps, inq, streaming, memory, clock,
                     captured, delivered>>
  BY DEF Dequeue, Idle, Holding, sessionVars
<1>2. /\ m \in Nat \ {0} /\ Len(outq') = m - 1 /\ held' = outq[1]
      /\ outq' \in Seq(Numbered) /\ held' \in Numbered
      /\ \A k \in 1 .. m - 1 : outq'[k] = outq[k + 1]
  BY <1>1, Facts, TailAt
<1>3. /\ 1 \in 1 .. m
      /\ \A k \in 1 .. Len(outq') :
           k \in Nat /\ k + 1 \in 1 .. m /\ k + 1 # 1 /\ 1 < k + 1 /\ outq'[k] = outq[k + 1]
      /\ \A k \in 1 .. m : k = 1 \/ (k - 1 \in 1 .. Len(outq') /\ outq'[k - 1] = outq[k])
  <2>1. ASSUME NEW k \in 1 .. m, k # 1
        PROVE  k - 1 \in 1 .. m - 1 /\ (k - 1) + 1 = k
    BY <1>2, <2>1
  <2> HIDE DEF m
  <2>2. \A k \in 1 .. m : k = 1 \/ (k - 1 \in 1 .. Len(outq') /\ outq'[k - 1] = outq[k])
    BY <1>2, <2>1
  <2>3. \A k \in 1 .. Len(outq') :
          k \in Nat /\ k + 1 \in 1 .. m /\ k + 1 # 1 /\ 1 < k + 1 /\ outq'[k] = outq[k + 1]
    BY <1>2
  <2> QED BY <1>2, <2>2, <2>3
<1>4. Holding'
  BY <1>2, <1>3, HoldsAfterDequeue DEF Holding, NoBuffer
<1> HIDE DEF m
<1>5. Types'
  BY <1>1, <1>2, Zenon DEF V4l2Inv, Types, V4l2TypeOK
<1>6. Stages'
  BY <1>1 DEF V4l2Inv, Stages
<1>7. Places'
  BY <1>1, <1>2, <1>3 DEF V4l2Inv, Places, m
<1>8. Apart'
  <2>1. ASSUME NEW i \in 1 .. Len(outq'), NEW j \in 1 .. Len(outq'),
               outq'[i].index = outq'[j].index
        PROVE  i = j
    <3>1. i + 1 = j + 1
      <4>1. i + 1 \in 1 .. m /\ j + 1 \in 1 .. m /\ outq[i + 1].index = outq[j + 1].index
        BY <2>1, <1>3
      <4> QED BY <4>1 DEF V4l2Inv, Apart, m
    <3> QED BY <3>1, <1>3
  <2>2. \A i \in 1 .. Len(inq'), j \in 1 .. Len(outq') : inq'[i] # outq'[j].index
    BY <1>1, <1>3 DEF V4l2Inv, Apart, m
  <2>3. \A i \in 1 .. Len(inq') : inq'[i] # held'.index
    BY <1>1, <1>2, <1>3 DEF V4l2Inv, Apart, m
  <2>4. ASSUME NEW i \in 1 .. Len(outq') PROVE outq'[i].index # held'.index
    <3>1. outq[i + 1].index # outq[1].index
      BY <1>3 DEF V4l2Inv, Apart, m
    <3> QED BY <3>1, <1>2, <1>3
  <2>5. \A i, j \in 1 .. Len(inq') : inq'[i] = inq'[j] => i = j
    BY <1>1 DEF V4l2Inv, Apart
  <2> QED BY <2>1, <2>2, <2>3, <2>4, <2>5 DEF Apart
<1>9. Everywhere'
  <2>1. /\ Len(buffers) >= 2
        /\ \A b \in DOMAIN buffers : buffers[b] = "mapped" /\ InCycle(b)
        /\ Len(inq) + m = Len(buffers)
    BY <1>1, <1>2, Facts DEF V4l2Inv, Everywhere, m
  <2>2. ASSUME NEW b \in DOMAIN buffers PROVE InCycle(b)'
    <3>1. CASE \E i \in 1 .. Len(inq) : inq[i] = b
      BY <3>1, <1>1 DEF InCycle
    <3>2. CASE \E i \in 1 .. m : outq[i].index = b
      <4>1. PICK i \in 1 .. m : outq[i].index = b
        BY <3>2
      <4>2. CASE i = 1
        BY <4>1, <4>2, <1>2, <1>4 DEF InCycle
      <4>3. CASE i # 1
        BY <4>1, <4>3, <1>3 DEF InCycle
      <4> QED BY <4>2, <4>3
    <3> QED BY <2>1, <3>1, <3>2, <1>1 DEF InCycle, m
  <2>3. Len(inq') + Len(outq') + 1 = Len(buffers')
    BY <1>1, <1>2, <2>1, Facts
  <2> QED BY <1>1, <1>4, <2>1, <2>2, <2>3 DEF Everywhere
<1>10. Order'
  <2>1. \A i, j \in 1 .. m : i < j => outq[i].sequence < outq[j].sequence
    BY DEF V4l2Inv, Order, m
  <2>2. ASSUME NEW i \in 1 .. Len(outq'), NEW j \in 1 .. Len(outq'), i < j
        PROVE  outq'[i].sequence < outq'[j].sequence
    <3>1. i + 1 < j + 1
      BY <2>2, <1>3
    <3> QED BY <2>1, <3>1, <1>3
  <2>3. \A i \in 1 .. Len(delivered'), j \in 1 .. Len(outq') :
          delivered'[i].sequence < outq'[j].sequence
    BY <1>1, <1>3 DEF V4l2Inv, Order, m
  <2>4. \A i \in 1 .. Len(delivered') : delivered'[i].sequence < held'.sequence
    BY <1>1, <1>2, <1>3 DEF V4l2Inv, Order, m
  <2>5. \A j \in 1 .. Len(outq') : held'.sequence < outq'[j].sequence
    BY <1>2, <1>3, <2>1
  <2>6. \A i, j \in 1 .. Len(delivered') :
          i < j => delivered'[i].sequence < delivered'[j].sequence
    BY <1>1 DEF V4l2Inv, Order
  <2> QED BY <2>2, <2>3, <2>4, <2>5, <2>6 DEF Order
<1>11. Faithful'
  BY <1>1, <1>2, <1>3 DEF V4l2Inv, Faithful, Shows, m
<1>12. NoneLost'
  <2> SUFFICES ASSUME NEW c \in captured PROVE OnItsWay(c[1])'
    BY <1>1 DEF NoneLost
  <2>1. OnItsWay(c[1])
    BY <1>1 DEF V4l2Inv, NoneLost
  <2>2. CASE \E i \in 1 .. Len(delivered) : delivered[i].sequence = c[1]
    BY <2>2, <1>1 DEF OnItsWay
  <2>3. CASE \E i \in 1 .. m : outq[i].sequence = c[1]
    <3>1. PICK i \in 1 .. m : outq[i].sequence = c[1]
      BY <2>3
    <3>2. CASE i = 1
      BY <3>1, <3>2, <1>2, <1>4 DEF OnItsWay
    <3>3. CASE i # 1
      BY <3>1, <3>3, <1>3 DEF OnItsWay
    <3> QED BY <3>2, <3>3
  <2> QED BY <2>1, <2>2, <2>3, <1>1 DEF OnItsWay, m
<1> QED BY <1>5, <1>6, <1>7, <1>8, <1>9, <1>10, <1>11, <1>12 DEF V4l2Inv

LEMMA RequeuePreserves ==
  ASSUME V4l2Inv, Requeue
  PROVE  V4l2Inv'
<1> DEFINE d == [sequence |-> held.sequence, t_ns |-> held.t_ns,
                 support  |-> Sparse(memory[held.index])]
           h == held.index
           n == Len(inq)
           m == Len(delivered)
<1>1. /\ stage = "up" /\ Holding /\ held' = NoBuffer
      /\ delivered' = Append(delivered, d) /\ inq' = Append(inq, h)
      /\ UNCHANGED <<stage, fd, buffers, debug, maps, outq, streaming, memory, clock, captured>>
  BY DEF Requeue, Reading, Holding, sessionVars
<1>2. /\ d.sequence = held.sequence /\ d.support = Sparse(memory[h]) /\ d.t_ns = held.t_ns
      /\ d \in Delivery
  <2>1. held.sequence \in Nat /\ held.t_ns \in Int /\ Sparse(memory[h]) \in Seq(Nat)
    BY Facts, SparseSites
  <2> QED BY <2>1 DEF Delivery
<1> HIDE DEF d
<1>3. /\ delivered' \in Seq(Delivery) /\ Len(delivered') = m + 1 /\ m \in Nat
      /\ delivered'[m + 1] = d
      /\ \A k \in 1 .. m : delivered'[k] = delivered[k]
  BY <1>1, <1>2, Facts, AppendAt
<1>4. /\ inq' \in Seq(Nat) /\ Len(inq') = n + 1 /\ n \in Nat
      /\ inq'[n + 1] = h
      /\ \A k \in 1 .. n : inq'[k] = inq[k]
  BY <1>1, Facts, AppendAt
<1>5. ~Holding'
  BY <1>1 DEF Holding
<1>6. /\ \A k \in 1 .. m + 1 : k \in 1 .. m \/ k = m + 1
      /\ \A k \in 1 .. n + 1 : k \in 1 .. n \/ k = n + 1
  <2>1. m \in Nat /\ n \in Nat
    BY <1>3, <1>4
  <2> HIDE DEF n, m
  <2> QED BY <2>1
<1> HIDE DEF n, m
<1>7. Types'
  <2>1. NoBuffer \in Numbered
    BY DEF NoBuffer, Numbered
  <2> QED BY <1>1, <1>3, <1>4, <2>1, Zenon DEF V4l2Inv, Types, V4l2TypeOK
<1>8. Stages'
  BY <1>1, <1>5 DEF V4l2Inv, Stages
<1>9. Places'
  <2>1. h \in DOMAIN buffers
    BY <1>1 DEF V4l2Inv, Places
  <2> QED BY <1>1, <1>4, <1>5, <1>6, <2>1 DEF V4l2Inv, Places, n
<1>10. Apart'
  <2>1. \A i \in 1 .. n : inq[i] # h
    BY <1>1 DEF V4l2Inv, Apart, n
  <2>2. \A i, j \in 1 .. n + 1 : inq'[i] = inq'[j] => i = j
    BY <1>4, <1>6, <2>1 DEF V4l2Inv, Apart, n
  <2>3. \A i \in 1 .. n + 1, j \in 1 .. Len(outq') : inq'[i] # outq'[j].index
    BY <1>1, <1>4, <1>6 DEF V4l2Inv, Apart, n
  <2>4. \A i, j \in 1 .. Len(outq') : outq'[i].index = outq'[j].index => i = j
    BY <1>1 DEF V4l2Inv, Apart
  <2> QED BY <1>4, <1>5, <2>2, <2>3, <2>4 DEF Apart
<1>11. Everywhere'
  <2>1. /\ Len(buffers) >= 2
        /\ \A b \in DOMAIN buffers : buffers[b] = "mapped" /\ InCycle(b)
        /\ n + Len(outq) + 1 = Len(buffers)
    BY <1>1 DEF V4l2Inv, Everywhere, n
  <2>2. ASSUME NEW b \in DOMAIN buffers PROVE InCycle(b)'
    <3>1. CASE \E i \in 1 .. n : inq[i] = b
      BY <3>1, <1>4 DEF InCycle
    <3>2. CASE \E i \in 1 .. Len(outq) : outq[i].index = b
      BY <3>2, <1>1 DEF InCycle
    <3>3. CASE h = b
      <4>1. inq'[n + 1] = b /\ n + 1 \in 1 .. Len(inq')
        BY <3>3, <1>4
      <4> QED BY <4>1 DEF InCycle
    <3> QED BY <2>1, <3>1, <3>2, <3>3 DEF InCycle, n
  <2>3. Len(inq') + Len(outq') + 0 = Len(buffers')
    BY <1>1, <1>4, <2>1, Facts
  <2> QED BY <1>1, <1>5, <2>1, <2>2, <2>3 DEF Everywhere
<1>12. Order'
  <2>1. \A i \in 1 .. m : delivered[i].sequence < held.sequence
    BY <1>1 DEF V4l2Inv, Order, m
  <2>2. \A i, j \in 1 .. m + 1 : i < j => delivered'[i].sequence < delivered'[j].sequence
    BY <1>2, <1>3, <1>6, <2>1 DEF V4l2Inv, Order, m
  <2>3. \A i \in 1 .. m + 1, j \in 1 .. Len(outq') :
          delivered'[i].sequence < outq'[j].sequence
    BY <1>1, <1>2, <1>3, <1>6 DEF V4l2Inv, Order, m
  <2>4. \A i, j \in 1 .. Len(outq') : i < j => outq'[i].sequence < outq'[j].sequence
    BY <1>1 DEF V4l2Inv, Order
  <2> QED BY <1>3, <1>5, <2>2, <2>3, <2>4 DEF Order
<1>13. Faithful'
  <2>1. <<held.sequence, memory[h], held.t_ns>> \in captured
    BY <1>1 DEF V4l2Inv, Faithful, Shows
  <2>2. ASSUME NEW i \in 1 .. m + 1
        PROVE  \E c \in captured :
                 /\ c[1] = delivered'[i].sequence /\ delivered'[i].support = Sparse(c[2])
                 /\ c[3] = delivered'[i].t_ns
    <3>1. CASE i \in 1 .. m
      BY <3>1, <1>3 DEF V4l2Inv, Faithful, m
    <3>2. CASE i = m + 1
      <4> DEFINE c == <<held.sequence, memory[h], held.t_ns>>
      <4>1. c[1] = held.sequence /\ c[2] = memory[h] /\ c[3] = held.t_ns
        OBVIOUS
      <4> HIDE DEF c
      <4>2. c \in captured
        BY <2>1 DEF c
      <4> QED BY <3>2, <4>1, <4>2, <1>2, <1>3
    <3> QED BY <3>1, <3>2, <1>6
  <2>3. /\ \A c \in captured' : c[1] < clock'
        /\ \A c, e \in captured' : c[1] = e[1] => c = e
        /\ \A i \in 1 .. Len(outq') :
             <<outq'[i].sequence, memory'[outq'[i].index], outq'[i].t_ns>> \in captured'
    BY <1>1 DEF V4l2Inv, Faithful, Shows
  <2> QED BY <1>1, <1>3, <1>5, <2>2, <2>3 DEF Faithful, Shows
<1>14. NoneLost'
  <2> SUFFICES ASSUME NEW c \in captured PROVE OnItsWay(c[1])'
    BY <1>1 DEF NoneLost
  <2>1. OnItsWay(c[1])
    BY <1>1 DEF V4l2Inv, NoneLost
  <2>2. CASE \E i \in 1 .. m : delivered[i].sequence = c[1]
    BY <2>2, <1>3 DEF OnItsWay
  <2>3. CASE held.sequence = c[1]
    <3>1. delivered'[m + 1].sequence = c[1] /\ m + 1 \in 1 .. Len(delivered')
      BY <2>3, <1>2, <1>3
    <3> QED BY <3>1 DEF OnItsWay
  <2>4. CASE \E i \in 1 .. Len(outq) : outq[i].sequence = c[1]
    BY <2>4, <1>1 DEF OnItsWay
  <2> QED BY <2>1, <2>2, <2>3, <2>4 DEF OnItsWay, m
<1> QED BY <1>7, <1>8, <1>9, <1>10, <1>11, <1>12, <1>13, <1>14 DEF V4l2Inv

\* acquire fails, before DQBUF or at QBUF, and the buffer in hand is given up.
LEMMA FaultPreserves ==
  ASSUME V4l2Inv, AcquireFails \/ RequeueFails
  PROVE  V4l2Inv'
<1>1. /\ stage = "up" /\ stage' = "faulted" /\ held' = NoBuffer
      /\ UNCHANGED <<fd, buffers, debug, maps, inq, outq, streaming, memory, clock,
                     captured, delivered>>
  BY DEF AcquireFails, RequeueFails, Idle, Reading, driverVars
<1>2. ~Holding' /\ NoBuffer \in Numbered
  BY <1>1 DEF Holding, NoBuffer, Numbered
<1>3. Types'
  BY <1>1, <1>2, Zenon DEF V4l2Inv, Types, V4l2TypeOK
<1>4. Stages' /\ Places' /\ Apart'
  BY <1>1, <1>2 DEF V4l2Inv, Stages, Places, Apart
<1>5. Everywhere' /\ NoneLost'
  BY <1>1 DEF Everywhere, NoneLost
<1>6. Order' /\ Faithful'
  BY <1>1, <1>2 DEF V4l2Inv, Order, Faithful, Shows
<1> QED BY <1>3, <1>4, <1>5, <1>6 DEF V4l2Inv

\* v4l2_release, from wherever it is called.
LEMMA ReleasePreserves ==
  ASSUME V4l2Inv, V4l2Deinit \/ V4l2Destroy
  PROVE  V4l2Inv'
<1>1. Release /\ ~Holding /\ stage' \in {"down", "gone"}
  BY DEF V4l2Inv, Stages, V4l2Deinit, V4l2Destroy, Idle, Holding
<1>2. /\ maps' = maps \ Unmapped /\ buffers' = NoTable /\ ~fd' /\ ~debug' /\ ~streaming'
      /\ fd' = FALSE /\ debug' = FALSE /\ streaming' = FALSE
      /\ inq' = <<>> /\ outq' = <<>> /\ memory' = <<>>
      /\ UNCHANGED <<clock, held, captured, delivered>>
  BY <1>1 DEF Release
<1>3. /\ \A S : <<>> \in Seq(S)
      /\ Len(inq') = 0 /\ Len(outq') = 0 /\ DOMAIN buffers' = {} /\ DOMAIN memory' = {}
      /\ memory' \in [DOMAIN buffers' -> [Pixels -> 0 .. 255]]
  BY <1>2, EmptySeq DEF NoTable
<1>4. ~Holding'
  BY <1>1, <1>2 DEF Holding
<1>5. maps' = {}
  BY <1>2 DEF V4l2Inv, Stages, Unmapped
<1>6. Types'
  <2>1. maps' \subseteq Nat /\ stage' \in {"created", "failed", "up", "faulted", "down", "gone"}
    BY <1>1, <1>5
  <2> QED BY <1>2, <1>3, <2>1, Zenon DEF V4l2Inv, Types, V4l2TypeOK, NoTable
<1>7. Stages'
  BY <1>1, <1>2, <1>3, <1>4, <1>5 DEF Stages
<1>8. Places' /\ Apart'
  BY <1>3, <1>4 DEF Places, Apart
<1>9. Everywhere' /\ NoneLost'
  BY <1>1 DEF Everywhere, NoneLost
<1>10. Order' /\ Faithful'
  BY <1>2, <1>3, <1>4 DEF V4l2Inv, Order, Faithful, Shows
<1> QED BY <1>6, <1>7, <1>8, <1>9, <1>10 DEF V4l2Inv

LEMMA NextPreserves == V4l2Inv /\ [Next]_vars => V4l2Inv'
<1> SUFFICES ASSUME V4l2Inv, [Next]_vars PROVE V4l2Inv'
  OBVIOUS
<1>1. CASE UNCHANGED vars
  <2>1. UNCHANGED <<stage, fd, buffers, debug, maps, inq, outq, streaming, memory, clock,
                    held, captured, delivered>>
    BY <1>1 DEF vars, sessionVars, driverVars
  <2>2. Types' /\ Stages' /\ Places' /\ Apart'
    BY <2>1 DEF V4l2Inv, Types, V4l2TypeOK, Stages, Places, Apart, Holding
  <2>3. Everywhere' /\ Order' /\ Faithful' /\ NoneLost'
    BY <2>1 DEF V4l2Inv, Everywhere, InCycle, Order, Faithful, Shows, NoneLost, OnItsWay,
                Holding
  <2> QED BY <2>2, <2>3 DEF V4l2Inv
<1> QED
  BY <1>1, V4l2InitPreserves, FillPreserves, SkipPreserves, DequeuePreserves,
     RequeuePreserves, FaultPreserves, ReleasePreserves DEF Next

LEMMA V4l2Invariant == V4l2Spec => []V4l2Inv
BY InitEstablishes, NextPreserves, PTL DEF V4l2Spec

-----------------------------------------------------------------------------
(***************************************************************************)
(* The state of a session with any driver stays what v4l2_ctx and the      *)
(* driver's interface make it, the sites of every frame included.          *)
(***************************************************************************)
THEOREM V4l2TypeCorrect == V4l2Spec => []V4l2TypeOK
BY V4l2Invariant, PTL DEF V4l2Inv, Types

(***************************************************************************)
(* Wherever v4l2_init stopped, after any number of buffers, and whatever   *)
(* acquire did, v4l2_release leaves no mapping, no allocation and no open  *)
(* device.  That maps are exactly the mapped entries of the table is what  *)
(* makes its loop sufficient.                                              *)
(***************************************************************************)
THEOREM ReleaseIsComplete == V4l2Spec => []NothingLeft
<1>1. V4l2Inv => NothingLeft
  BY EmptySeq DEF V4l2Inv, Stages, NothingLeft, NoTable
<1> QED BY <1>1, V4l2Invariant, PTL

\* The way of the buffers and of their numbers, as sequences.
LEMMA Way ==
  ASSUME V4l2Inv
  PROVE  /\ Waiting \in Seq(Nat) /\ Len(Waiting) = Len(outq) /\ Read \in Seq(Nat)
         /\ \A i \in 1 .. Len(outq) : Waiting[i] = outq[i].index
         /\ Holding => Len(Read) = 1 /\ ToSet(Read) = {held.index}
         /\ ~Holding => Len(Read) = 0 /\ ToSet(Read) = {}
<1>1. /\ Waiting \in Seq(Nat) /\ Len(Waiting) = Len(outq)
      /\ \A i \in 1 .. Len(outq) : Waiting[i] = outq[i].index
  <2>1. Waiting \in [1 .. Len(outq) -> Nat]
    BY Facts DEF Waiting
  <2>2. Waiting \in Seq(Nat)
    <3>1. Len(outq) \in Nat
      BY Facts
    <3> QED BY <2>1, <3>1, SeqDef
  <2>3. Len(Waiting) = Len(outq)
    BY <2>1, <2>2, Facts, LenProperties
  <2> QED BY <2>2, <2>3, Facts DEF Waiting
<1>2. held.index \in Nat
  BY Facts
<1>3. CASE Holding
  BY <1>1, <1>2, <1>3 DEF Read, ToSet, Holding
<1>4. CASE ~Holding
  BY <1>1, <1>4, EmptySeq DEF Read, ToSet, Holding
<1> QED BY <1>1, <1>3, <1>4

(***************************************************************************)
(* For any number of buffers, none is lost and none has two owners while   *)
(* the camera runs.                                                        *)
(***************************************************************************)
THEOREM PoolAlwaysConserved == V4l2Spec => []PoolConserved
<1>1. ASSUME V4l2Inv, stage = "up"
      PROVE  LET pool == inq \o Waiting \o Read
             IN  /\ Len(pool) = Len(buffers) /\ Len(buffers) >= 2
                 /\ ToSet(pool) = DOMAIN buffers
                 /\ \A i \in DOMAIN buffers : buffers[i] = "mapped" /\ i \in maps
  <2> DEFINE pool == inq \o Waiting \o Read
  <2>1. /\ Len(pool) = Len(inq) + Len(outq) + Len(Read)
        /\ ToSet(pool) = (ToSet(inq) \cup ToSet(Waiting)) \cup ToSet(Read)
    <3>1. inq \in Seq(Nat) /\ Waiting \in Seq(Nat) /\ Read \in Seq(Nat)
      BY <1>1, Facts, Way
    <3>2. inq \o Waiting \in Seq(Nat) /\ Len(inq \o Waiting) = Len(inq) + Len(Waiting)
      BY <3>1, ConcatProperties
    <3>3. Len(pool) = Len(inq \o Waiting) + Len(Read)
      BY <3>1, <3>2, ConcatProperties
    <3>4. ToSet(pool) = (ToSet(inq) \cup ToSet(Waiting)) \cup ToSet(Read)
      <4>1. ToSet(inq \o Waiting) = ToSet(inq) \cup ToSet(Waiting)
        BY <3>1, ToSetConcat
      <4>2. ToSet(pool) = ToSet(inq \o Waiting) \cup ToSet(Read)
        <5> DEFINE front == inq \o Waiting
        <5>1. front \in Seq(Nat) /\ Read \in Seq(Nat) /\ pool = front \o Read
          BY <3>1, <3>2
        <5> HIDE DEF front
        <5>2. ToSet(front \o Read) = ToSet(front) \cup ToSet(Read)
          BY <5>1, ToSetConcat
        <5> QED BY <5>1, <5>2 DEF front
      <4> QED BY <4>1, <4>2
    <3> QED BY <1>1, <3>2, <3>3, <3>4, Way
  <2> HIDE DEF pool
  <2>2. /\ Len(buffers) >= 2
        /\ \A b \in DOMAIN buffers : buffers[b] = "mapped" /\ InCycle(b)
        /\ Len(inq) + Len(outq) + (IF Holding THEN 1 ELSE 0) = Len(buffers)
    BY <1>1 DEF V4l2Inv, Everywhere
  <2>3. Len(pool) = Len(buffers)
    BY <1>1, <2>1, <2>2, Way, Facts
  <2>4. /\ ToSet(inq) = {inq[i] : i \in 1 .. Len(inq)}
        /\ ToSet(Waiting) = {outq[i].index : i \in 1 .. Len(outq)}
        /\ ToSet(Read) = IF Holding THEN {held.index} ELSE {}
    <3>1. DOMAIN inq = 1 .. Len(inq) /\ DOMAIN Waiting = 1 .. Len(outq)
      BY <1>1, Way, Facts, LenProperties
    <3>2. \A i \in 1 .. Len(outq) : Waiting[i] = outq[i].index
      BY <1>1, Way
    <3>3. ToSet(Read) = IF Holding THEN {held.index} ELSE {}
      BY <1>1, Way
    <3> QED BY <3>1, <3>2, <3>3 DEF ToSet
  <2>5. ASSUME NEW b \in DOMAIN buffers PROVE b \in ToSet(pool)
    <3>1. InCycle(b)
      BY <2>2
    <3> QED BY <3>1, <2>1, <2>4 DEF InCycle
  <2>6. ASSUME NEW b \in ToSet(pool) PROVE b \in DOMAIN buffers
    BY <1>1, <2>1, <2>4 DEF V4l2Inv, Places
  <2>7. \A i \in DOMAIN buffers : i \in maps
    BY <1>1, <2>2 DEF V4l2Inv, Stages
  <2> QED BY <2>2, <2>3, <2>5, <2>6, <2>7 DEF pool
<1>2. V4l2Inv => PoolConserved
  BY <1>1 DEF PoolConserved
<1> QED BY <1>2, V4l2Invariant, PTL

(***************************************************************************)
(* The numbers that acquire returns ascend, however many frames the driver *)
(* skips, and a number is missing only where the driver had no buffer.     *)
(***************************************************************************)
THEOREM GapsAreAlwaysSkips == V4l2Spec => []GapsAreSkips
<1>1. ASSUME V4l2Inv, stage = "up"
      PROVE  LET done    == [i \in DOMAIN delivered |-> delivered[i].sequence]
                 reading == IF held = NoBuffer THEN <<>> ELSE <<held.sequence>>
                 numbers == done \o reading \o [i \in DOMAIN outq |-> outq[i].sequence]
             IN  /\ \A i \in 1 .. Len(numbers) - 1 : numbers[i] < numbers[i + 1]
                 /\ ToSet(numbers) = {c[1] : c \in captured}
  <2> DEFINE done    == [i \in DOMAIN delivered |-> delivered[i].sequence]
             reading == IF held = NoBuffer THEN <<>> ELSE <<held.sequence>>
             filled  == [i \in DOMAIN outq |-> outq[i].sequence]
             first   == done \o reading
             numbers == first \o filled
  <2>1. /\ done \in Seq(Nat) /\ DOMAIN done = 1 .. Len(delivered)
        /\ filled \in Seq(Nat) /\ DOMAIN filled = 1 .. Len(outq)
    <3>1. done \in [1 .. Len(delivered) -> Nat] /\ filled \in [1 .. Len(outq) -> Nat]
      BY <1>1, Facts
    <3> QED BY <1>1, <3>1, Facts, SeqDef
  <2>2. /\ reading \in Seq(Nat)
        /\ ToSet(reading) = IF Holding THEN {held.sequence} ELSE {}
        /\ \A i \in DOMAIN reading : Holding /\ i = 1 /\ reading[i] = held.sequence
    BY <1>1, Facts, EmptySeq DEF ToSet, Holding
  <2>3. /\ \A i \in DOMAIN done : done[i] = delivered[i].sequence
        /\ \A i \in DOMAIN filled : filled[i] = outq[i].sequence
    BY <1>1, <2>1
  <2> HIDE DEF done, reading, filled
  <2>4. IsAscending(done) /\ IsAscending(reading) /\ IsAscending(filled)
    <3>1. IsAscending(done)
      BY <1>1, <2>1, <2>3 DEF V4l2Inv, Order, IsAscending
    <3>2. IsAscending(reading)
      BY <2>2 DEF IsAscending
    <3>3. IsAscending(filled)
      BY <1>1, <2>1, <2>3 DEF V4l2Inv, Order, IsAscending
    <3> QED BY <3>1, <3>2, <3>3
  <2>5. /\ \A i \in DOMAIN done, j \in DOMAIN reading : done[i] < reading[j]
        /\ \A i \in DOMAIN done, j \in DOMAIN filled : done[i] < filled[j]
        /\ \A i \in DOMAIN reading, j \in DOMAIN filled : reading[i] < filled[j]
    <3>1. Order
      BY <1>1 DEF V4l2Inv
    <3>2. \A i \in DOMAIN done, j \in DOMAIN reading : done[i] < reading[j]
      BY <3>1, <2>1, <2>2, <2>3 DEF Order
    <3>3. \A i \in DOMAIN done, j \in DOMAIN filled : done[i] < filled[j]
      BY <3>1, <2>1, <2>3 DEF Order
    <3>4. \A i \in DOMAIN reading, j \in DOMAIN filled : reading[i] < filled[j]
      BY <3>1, <2>1, <2>2, <2>3 DEF Order
    <3> QED BY <3>2, <3>3, <3>4
  <2>6. first \in Seq(Nat) /\ IsAscending(first)
    BY <2>1, <2>2, <2>4, <2>5, AscendingConcat
  <2>7. ToSet(first) = ToSet(done) \cup ToSet(reading)
    BY <2>1, <2>2, ToSetConcat
  <2>8. \A i \in DOMAIN first, j \in DOMAIN filled : first[i] < filled[j]
    <3> SUFFICES ASSUME NEW i \in DOMAIN first, NEW j \in DOMAIN filled
                 PROVE  first[i] < filled[j]
      OBVIOUS
    <3>1. first[i] \in ToSet(done) \/ first[i] \in ToSet(reading)
      BY <2>7 DEF ToSet
    <3> QED BY <3>1, <2>5 DEF ToSet
  <2> HIDE DEF first
  <2>9. /\ numbers \in Seq(Nat) /\ IsAscending(numbers)
        /\ ToSet(numbers) = (ToSet(done) \cup ToSet(reading)) \cup ToSet(filled)
    <3>1. numbers \in Seq(Nat) /\ IsAscending(numbers)
      BY <2>1, <2>4, <2>6, <2>8, AscendingConcat
    <3>2. ToSet(numbers) = ToSet(first) \cup ToSet(filled)
      BY <2>1, <2>6, ToSetConcat
    <3> QED BY <3>1, <3>2, <2>7
  <2> HIDE DEF numbers
  <2>10. ASSUME NEW i \in 1 .. Len(numbers) - 1 PROVE numbers[i] < numbers[i + 1]
    <3>1. i \in DOMAIN numbers /\ i + 1 \in DOMAIN numbers /\ i < i + 1
      BY <2>9, LenProperties
    <3> QED BY <3>1, <2>9 DEF IsAscending
  <2>11. /\ ToSet(done) = {delivered[i].sequence : i \in 1 .. Len(delivered)}
         /\ ToSet(filled) = {outq[i].sequence : i \in 1 .. Len(outq)}
    BY <2>1, <2>3 DEF ToSet
  <2>12. ASSUME NEW c \in captured PROVE c[1] \in ToSet(numbers)
    <3>1. OnItsWay(c[1])
      BY <1>1 DEF V4l2Inv, NoneLost
    <3> QED BY <3>1, <2>2, <2>9, <2>11 DEF OnItsWay
  <2>13. ASSUME NEW k \in ToSet(numbers) PROVE \E c \in captured : c[1] = k
    <3>1. CASE k \in ToSet(done)
      BY <1>1, <3>1, <2>11 DEF V4l2Inv, Faithful
    <3>2. ASSUME NEW buffer, Shows(buffer)
          PROVE  \E c \in captured : c[1] = buffer.sequence
      <4>1. <<buffer.sequence, memory[buffer.index], buffer.t_ns>>[1] = buffer.sequence
        OBVIOUS
      <4> QED BY <3>2, <4>1 DEF Shows
    <3>3. CASE k \in ToSet(reading)
      BY <1>1, <3>2, <3>3, <2>2 DEF V4l2Inv, Faithful
    <3>4. CASE k \in ToSet(filled)
      BY <1>1, <3>2, <3>4, <2>11 DEF V4l2Inv, Faithful
    <3> QED BY <2>9, <3>1, <3>3, <3>4
  <2>14. ToSet(numbers) = {c[1] : c \in captured}
    BY <2>12, <2>13
  <2> QED BY <2>10, <2>14 DEF numbers, first, done, reading, filled
<1>2. V4l2Inv => GapsAreSkips
  BY <1>1 DEF GapsAreSkips
<1> QED BY <1>2, V4l2Invariant, PTL

(***************************************************************************)
(* For every geometry of image and grid, every threshold, every capacity,  *)
(* every precision of the floats and every image, the sites of a frame are *)
(* those of the image captured under its number, in order, as many as the  *)
(* frame has room for, and stamped by the driver.  A site is a cell whose  *)
(* mean, as floats give it, is above the threshold.  The driver may have   *)
(* filled the other buffers meanwhile: that no buffer is in two places     *)
(* keeps it from writing into the one that is read.                        *)
(***************************************************************************)
THEOREM FramesAreAlwaysImages == V4l2Spec => []FramesAreImages
<1>1. ASSUME V4l2Inv, NEW i \in DOMAIN delivered
      PROVE  LET shown == {c \in captured : c[1] = delivered[i].sequence}
                 sites == delivered[i].support
             IN  \E c \in shown : LET image == c[2] IN
                   /\ shown = {c} /\ c[3] = delivered[i].t_ns
                   /\ \A k \in 1 .. Len(sites) - 1 : sites[k] < sites[k + 1]
                   /\ ToSet(sites) \subseteq SitesOf(image)
                   /\ Len(sites) = Min({Cardinality(SitesOf(image)), Capacity})
                   /\ \A a \in SitesOf(image) \ ToSet(sites), b \in ToSet(sites) : b < a
  <2> DEFINE shown == {c \in captured : c[1] = delivered[i].sequence}
             sites == delivered[i].support
  <2>1. PICK d \in captured :
          /\ d[1] = delivered[i].sequence /\ delivered[i].support = Sparse(d[2])
          /\ d[3] = delivered[i].t_ns
    <3>1. i \in 1 .. Len(delivered)
      BY <1>1, Facts
    <3> QED BY <1>1, <3>1 DEF V4l2Inv, Faithful
  <2> DEFINE image == d[2]
             n == Len(sites)
  <2>2. shown = {d}
    <3>1. \A c \in captured : c[1] = d[1] => c = d
      BY <1>1 DEF V4l2Inv, Faithful
    <3> QED BY <2>1, <3>1
  <2>3. sites = Sparse(image)
    BY <2>1
  <2> HIDE DEF sites, image, shown
  <2>4. /\ sites \in Seq(Nat)
        /\ n = Min({Cardinality(SitesOf(image)), Capacity})
        /\ n \in Nat
        /\ \A k, l \in 1 .. n : k < l => sites[k] < sites[l]
        /\ \A k \in 1 .. n : sites[k] \in SitesOf(image)
        /\ \A a \in SitesOf(image) :
             (\A k \in 1 .. n : sites[k] # a) => \A k \in 1 .. n : sites[k] < a
    BY <2>3, SparseSites, SitesAgree
  <2>5. DOMAIN sites = 1 .. n
    BY <2>4, LenProperties
  <2> HIDE DEF n
  <2>6. \A k \in 1 .. n - 1 : sites[k] < sites[k + 1]
    <3>1. \A k \in 1 .. n - 1 : k \in 1 .. n /\ k + 1 \in 1 .. n /\ k < k + 1
      BY <2>4
    <3> QED BY <2>4, <3>1
  <2>7. /\ ToSet(sites) \subseteq SitesOf(image)
        /\ \A a \in SitesOf(image) \ ToSet(sites), b \in ToSet(sites) : b < a
    BY <2>4, <2>5 DEF ToSet
  <2>8. d \in shown /\ d[3] = delivered[i].t_ns
    BY <2>1, <2>2
  <2> QED BY <2>2, <2>4, <2>6, <2>7, <2>8 DEF shown, sites, n, image
<1>2. V4l2Inv => FramesAreImages
  BY <1>1 DEF FramesAreImages
<1> QED BY <1>2, V4l2Invariant, PTL

-----------------------------------------------------------------------------
(***************************************************************************)
(* The webcam as a backend: the refinement mapping of WebcamContract.      *)
(***************************************************************************)
PhaseOf(place) == CASE place = "up" -> "up"
                    [] place \in {"failed", "faulted"} -> "failed"
                    [] OTHER -> "down"

FrameOf(frame) == [t_ns     |-> frame.t_ns,
                   sequence |-> frame.sequence,
                   support  |-> frame.support,
                   room     |-> Capacity]

Given(place, frames) ==
  IF place = "up" THEN [k \in DOMAIN frames |-> FrameOf(frames[k])] ELSE <<>>

\* Nothing was given where nothing was delivered.
LEMMA NothingGiven ==
  ASSUME NEW place PROVE Given(place, <<>>) = <<>>
<1>1. DOMAIN <<>> = {} /\ \A f : DOMAIN <<>> = {}
  BY EmptySeq
<1>2. [k \in DOMAIN <<>> |-> FrameOf(<<>>[k])] = <<>>
  BY <1>1, EmptySeq
<1> QED BY <1>2 DEF Given

\* One more frame is appended to what was given.
LEMMA OneMoreGiven ==
  ASSUME NEW S, NEW done \in Seq(S), NEW frame \in S
  PROVE  LET before == Given("up", done)
             after  == Given("up", Append(done, frame))
         IN  /\ after # <<>> /\ Front(after) = before
             /\ Last(after) = FrameOf(frame)
             /\ before # <<>> => done # <<>> /\ Last(before) = FrameOf(done[Len(done)])
<1> DEFINE T == {FrameOf(f) : f \in S}
           n == Len(done)
           next == Append(done, frame)
           before == Given("up", done)
           after == Given("up", next)
<1>1. /\ next \in Seq(S) /\ Len(next) = n + 1 /\ next[n + 1] = frame
      /\ \A k \in 1 .. n : next[k] = done[k]
      /\ n \in Nat /\ DOMAIN done = 1 .. n /\ DOMAIN next = 1 .. n + 1
  BY AppendAt, LenProperties
<1> HIDE DEF next
<1>2. /\ before = [k \in 1 .. n |-> FrameOf(done[k])]
      /\ after = [k \in 1 .. n + 1 |-> FrameOf(next[k])]
  BY <1>1 DEF Given
<1>3. \A k \in 1 .. n : done[k] \in S
  BY <1>1, ElementOfSeq
<1>4. \A k \in 1 .. n + 1 : next[k] \in S
  BY <1>1, ElementOfSeq
<1> HIDE DEF n, before, after
<1>5. before \in [1 .. n -> T] /\ after \in [1 .. n + 1 -> T]
  BY <1>2, <1>3, <1>4
<1> HIDE DEF T
<1>6. \A k \in 1 .. n : after[k] = before[k]
  BY <1>1, <1>2
<1>7. /\ after # <<>> /\ Front(after) = before /\ Last(after) = after[n + 1]
      /\ before # <<>> => n # 0 /\ Last(before) = before[n]
  <2>1. n \in Nat /\ n + 1 \in Nat
    BY <1>1
  <2>2. before \in Seq(T) /\ after \in Seq(T)
    BY <1>5, <2>1, SeqDef
  <2>3. DOMAIN before = 1 .. n /\ DOMAIN after = 1 .. n + 1
    BY <1>2
  <2>4. Len(before) = n /\ Len(after) = n + 1
    BY <2>1, <2>2, <2>3, LenProperties
  <2> QED BY <1>6, <2>1, <2>2, <2>4, OneMore
<1>8. Last(after) = FrameOf(frame)
  BY <1>1, <1>2, <1>7
<1>9. before # <<>> => done # <<>> /\ Last(before) = FrameOf(done[n])
  <2> SUFFICES ASSUME before # <<>> PROVE done # <<>> /\ Last(before) = FrameOf(done[n])
    OBVIOUS
  <2>1. n \in 1 .. n
    BY <1>1, <1>7
  <2>2. done # <<>>
    BY <1>7, EmptySeq DEF n
  <2> QED BY <1>2, <1>7, <2>1, <2>2
<1> QED BY <1>7, <1>8, <1>9 DEF n, before, after, next

\* The cells of the grid are as many as were told before init.
LEMMA GridTold ==
  ASSUME GridRows * GridCols # 0
  PROVE  Rows = GridRows /\ Cols = GridCols /\ Rows * Cols = GridRows * GridCols
<1>1. GridRows # 0 /\ GridCols # 0
  BY V4l2Assumption
<1> QED BY <1>1 DEF Rows, Cols

(***************************************************************************)
(* The webcam keeps the contract of camera.h.  smoke.c refuses a backend   *)
(* whose max_sites is 0, so the grid has a cell: then every site is a cell *)
(* of the grid that was told before the driver agreed on a format, however *)
(* the two sizes differ, the numbers ascend, and between a failure and the *)
(* release there is no frame.                                              *)
(***************************************************************************)
THEOREM WebcamIsBackend ==
  ASSUME GridRows * GridCols # 0
  PROVE  V4l2Spec => WebcamKeepsContract
<1> DEFINE phase  == PhaseOf(stage)
           frames == Given(stage, delivered)
           grid   == GridRows * GridCols
<1>1. Init => WebcamContract!BackendInit
  <2> SUFFICES ASSUME Init PROVE WebcamContract!BackendInit
    OBVIOUS
  <2>1. phase = "down" /\ frames = <<>>
    BY DEF Init, PhaseOf, Given
  <2>2. grid \in Nat
    BY V4l2Assumption
  <2> QED BY <2>1, <2>2 DEF WebcamContract!BackendInit, PhaseOf, Given, FrameOf
<1>2. V4l2Inv /\ [Next]_vars => [WebcamContract!BackendNext]_(WebcamContract!backendVars)
  <2> SUFFICES ASSUME V4l2Inv, [Next]_vars
               PROVE  \/ WebcamContract!BackendNext
                      \/ UNCHANGED WebcamContract!backendVars
    OBVIOUS
  <2>0. /\ WebcamContract!backendVars = <<phase, grid, frames>>
        /\ WebcamContract!backendVars' = <<phase', grid, frames'>>
    BY DEF WebcamContract!backendVars, PhaseOf, Given, FrameOf
  <2>1. ASSUME UNCHANGED <<stage, delivered>> PROVE UNCHANGED WebcamContract!backendVars
    BY <2>0, <2>1
  <2>2. ASSUME phase' = "down", frames' = <<>> PROVE WebcamContract!BackendNext
    BY <2>2 DEF WebcamContract!BackendNext, WebcamContract!Down, PhaseOf, Given, FrameOf
  <2>3. ASSUME phase' = "failed", frames' = <<>> PROVE WebcamContract!BackendNext
    BY <2>3 DEF WebcamContract!BackendNext, WebcamContract!Fail, PhaseOf, Given, FrameOf
  <2>4. ASSUME phase = "down", phase' = "up", frames' = <<>>
        PROVE  WebcamContract!BackendNext
    BY <2>4 DEF WebcamContract!BackendNext, WebcamContract!Up, PhaseOf, Given, FrameOf
  <2>5. CASE V4l2Init
    <3>1. stage \in {"created", "down"} /\ delivered' = <<>>
      BY <2>5 DEF V4l2Init
    <3>2. stage' \in {"up", "failed"}
      BY <2>5 DEF V4l2Init, InitDone
    <3>3. frames' = <<>> /\ phase = "down"
      BY <3>1, NothingGiven DEF PhaseOf
    <3>4. CASE stage' = "up"
      <4>1. phase' = "up"
        BY <3>4 DEF PhaseOf
      <4> QED BY <2>4, <3>3, <4>1
    <3>5. CASE stage' = "failed"
      <4>1. phase' = "failed"
        BY <3>5 DEF PhaseOf
      <4> QED BY <2>3, <3>3, <4>1
    <3> QED BY <3>2, <3>4, <3>5
  <2>6. CASE Fill \/ Skip \/ Dequeue
    <3>1. UNCHANGED <<stage, delivered>>
      BY <2>6 DEF Fill, Skip, Dequeue, sessionVars
    <3> QED BY <2>1, <3>1
  <2>7. CASE AcquireFails \/ RequeueFails
    <3>1. stage' = "faulted"
      BY <2>7 DEF AcquireFails, RequeueFails
    <3>2. phase' = "failed" /\ frames' = <<>>
      BY <3>1 DEF PhaseOf, Given
    <3> QED BY <2>3, <3>2
  <2>8. CASE V4l2Deinit \/ V4l2Destroy
    <3>1. stage' \in {"down", "gone"}
      BY <2>8 DEF V4l2Deinit, V4l2Destroy
    <3>2. phase' = "down" /\ frames' = <<>>
      BY <3>1 DEF PhaseOf, Given
    <3> QED BY <2>2, <3>2
  <2>9. CASE Requeue
    <3> DEFINE image == memory[held.index]
               frame == [sequence |-> held.sequence, t_ns |-> held.t_ns,
                         support  |-> Sparse(image)]
    <3>1. /\ stage = "up" /\ stage' = "up" /\ Holding
          /\ delivered' = Append(delivered, frame)
      BY <2>9 DEF Requeue, Reading, sessionVars, Holding
    <3>2. /\ delivered \in Seq(Delivery)
          /\ frame \in Delivery
      <4>1. Sparse(image) \in Seq(Nat)
        BY SparseSites
      <4>2. held.sequence \in Nat /\ held.t_ns \in Int
        BY Facts
      <4> HIDE DEF image
      <4>3. frame \in Delivery
        BY <4>1, <4>2 DEF Delivery
      <4> QED BY <4>3, Facts DEF image
    <3> HIDE DEF image
    <3>3. frame.sequence = held.sequence /\ frame.support = Sparse(image)
      OBVIOUS
    <3> HIDE DEF frame
    <3>4. /\ frames' # <<>> /\ Front(frames') = frames
          /\ Last(frames') = FrameOf(frame)
          /\ frames # <<>> =>
               delivered # <<>> /\ Last(frames) = FrameOf(delivered[Len(delivered)])
      BY <3>1, <3>2, OneMoreGiven
    <3>5. /\ FrameOf(frame).sequence = held.sequence
          /\ FrameOf(frame).support = Sparse(image)
          /\ FrameOf(frame).room = Capacity
      BY <3>3 DEF FrameOf
    <3>6. ASSUME frames # <<>> PROVE held.sequence > Last(frames).sequence
      <4>1. Len(delivered) \in 1 .. Len(delivered)
        BY <3>2, <3>4, <3>6, EmptySeq
      <4>2. delivered[Len(delivered)].sequence < held.sequence
        BY <3>1, <4>1 DEF V4l2Inv, Order
      <4>3. /\ delivered[Len(delivered)].sequence \in Nat /\ held.sequence \in Nat
        BY <3>2, <4>1, Facts
      <4>4. Last(frames).sequence = delivered[Len(delivered)].sequence
        BY <3>4, <3>6 DEF FrameOf
      <4> QED BY <4>2, <4>3, <4>4
    <3>7. /\ \A i \in DOMAIN Sparse(image) : Sparse(image)[i] \in 0 .. grid - 1
          /\ Len(Sparse(image)) <= Capacity
      <4> DEFINE sites == Sparse(image)
      <4>1. /\ sites \in Seq(Nat) /\ Len(sites) <= Capacity
            /\ \A i \in 1 .. Len(sites) : sites[i] \in Lit(image)
        BY SparseSites
      <4>2. Lit(image) \subseteq 0 .. grid - 1
        BY LitCells, GridTold
      <4>3. DOMAIN sites = 1 .. Len(sites)
        BY <4>1, LenProperties
      <4> HIDE DEF sites, grid
      <4>4. \A i \in DOMAIN sites : sites[i] \in 0 .. grid - 1
        BY <4>1, <4>2, <4>3
      <4> QED BY <4>1, <4>4 DEF sites
    <3>8. phase = "up" /\ phase' = "up"
      BY <3>1 DEF PhaseOf
    <3> DEFINE last == FrameOf(frame)
    <3>9. /\ \A i \in DOMAIN last.support : last.support[i] \in 0 .. grid - 1
          /\ Len(last.support) <= last.room
          /\ frames # <<>> => last.sequence > Last(frames).sequence
      BY <3>5, <3>6, <3>7
    <3> HIDE DEF last
    <3>10. last = Last(frames')
      BY <3>4 DEF last
    <3>11. WebcamContract!Deliver
      <4> HIDE DEF phase, frames, grid
      <4>1. /\ phase = "up" /\ phase' = "up"
            /\ frames' # <<>> /\ Front(frames') = frames
            /\ \A i \in DOMAIN Last(frames').support : Last(frames').support[i] \in 0 .. grid - 1
            /\ Len(Last(frames').support) <= Last(frames').room
            /\ frames # <<>> => Last(frames').sequence > Last(frames).sequence
        BY <3>4, <3>8, <3>9, <3>10
      <4>2. \A s : WebcamContract!Last(s) = Last(s) /\ WebcamContract!Front(s) = Front(s)
        BY DEF WebcamContract!Last, Last, WebcamContract!Front, Front
      <4>3. WebcamContract!Accepted(Last(frames'))
        BY <4>1 DEF WebcamContract!Accepted, grid
      <4>4. WebcamContract!InOrder(frames, Last(frames'))
        BY <4>1, <4>2 DEF WebcamContract!InOrder
      <4>5. WebcamContract!Front(frames') = frames /\ WebcamContract!Last(frames') = Last(frames')
        BY <4>1, <4>2
      <4> QED BY <4>1, <4>3, <4>4, <4>5 DEF WebcamContract!Deliver, phase, frames, grid,
              PhaseOf, Given, FrameOf
    <3> QED BY <3>11 DEF WebcamContract!BackendNext
  <2>10. CASE UNCHANGED vars
    <3>1. UNCHANGED <<stage, delivered>>
      BY <2>10 DEF vars, sessionVars
    <3> QED BY <2>1, <3>1
  <2> QED BY <2>5, <2>6, <2>7, <2>8, <2>9, <2>10 DEF Next
<1>3. V4l2Spec => WebcamContract!BackendSpec
  BY <1>1, <1>2, V4l2Invariant, PTL DEF V4l2Spec, WebcamContract!BackendSpec
<1> QED BY <1>3 DEF WebcamKeepsContract

=============================================================================
