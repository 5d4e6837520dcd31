----------------------------- MODULE DataLemmas -----------------------------
(***************************************************************************)
(* Lemmas about numbers, sequences and finite sets that the proofs of more *)
(* than one component rest on.  The library states induction for operators *)
(* given as a parameter; where it is needed, the least counterexample is   *)
(* taken instead (MinIsLeast).                                             *)
(***************************************************************************)
EXTENDS SequencesExt, FiniteSetsExt, SequenceTheorems, FiniteSetTheorems,
        WellFoundedInduction, TLAPS

-----------------------------------------------------------------------------
Below == {p \in Nat \X Nat : p[1] < p[2]}

\* Min of a non-empty set of natural numbers is its least element.
LEMMA MinIsLeast ==
  ASSUME NEW S \in SUBSET Nat, S # {}
  PROVE  Min(S) \in S /\ \A y \in S : Min(S) <= y
<1>1. IsWellFoundedOn(Below, Nat)
  BY NatLessThanWellFounded, Zenon DEF OpToRel, Below
<1>2. PICK x \in S : \A y \in S : ~ (<<y, x>> \in Below)
  BY <1>1, WFMin, Zenon
<1>3. ASSUME NEW y \in S PROVE x <= y
  <2>1. ~ (<<y, x>> \in Nat \X Nat /\ y < x)
    BY <1>2 DEF Below
  <2> QED BY <2>1
<1>4. QED BY <1>3 DEF Min

\* Max of a non-empty set of natural numbers with a bound is its greatest element.
LEMMA MaxIsGreatest ==
  ASSUME NEW S \in SUBSET Nat, S # {}, NEW b \in Nat, \A x \in S : x <= b
  PROVE  Max(S) \in S /\ \A y \in S : y <= Max(S)
<1> DEFINE D == {b - x : x \in S}
<1>1. D \in SUBSET Nat /\ D # {}
  <2>1. \A x \in S : b - x \in Nat
    OBVIOUS
  <2>2. PICK x \in S : TRUE
    OBVIOUS
  <2>3. b - x \in D
    BY <2>2
  <2>4. D \subseteq Nat
    BY <2>1
  <2> QED BY <2>3, <2>4
<1>2. Min(D) \in D /\ \A y \in D : Min(D) <= y
  <2> HIDE DEF D
  <2> QED BY <1>1, MinIsLeast
<1>3. PICK x \in S : Min(D) = b - x
  BY <1>2
<1>4. ASSUME NEW y \in S PROVE y <= x
  <2>1. b - x <= b - y
    BY <1>2, <1>3
  <2> QED BY <2>1
<1> QED BY <1>4 DEF Max

\* The smaller one of two numbers.
LEMMA MinOfTwo ==
  ASSUME NEW a \in Nat, NEW b \in Nat
  PROVE  Min({a, b}) = IF a <= b THEN a ELSE b
<1>1. Min({a, b}) \in {a, b} /\ \A y \in {a, b} : Min({a, b}) <= y
  BY MinIsLeast
<1> QED BY <1>1

-----------------------------------------------------------------------------
\* Appending keeps the entries that are there and puts the new one last.
LEMMA AppendAt ==
  ASSUME NEW S, NEW s \in Seq(S), NEW x \in S
  PROVE  /\ Append(s, x) \in Seq(S)
         /\ Len(Append(s, x)) = Len(s) + 1
         /\ Append(s, x)[Len(s) + 1] = x
         /\ \A k \in 1 .. Len(s) : Append(s, x)[k] = s[k]
         /\ Len(s) \in Nat
BY AppendProperties, LenProperties

\* The tail is the rest, one place further on.
LEMMA TailAt ==
  ASSUME NEW S, NEW s \in Seq(S), s # <<>>
  PROVE  /\ Tail(s) \in Seq(S)
         /\ Len(s) \in Nat \ {0} /\ Len(Tail(s)) = Len(s) - 1
         /\ Head(s) = s[1] /\ Head(s) \in S
         /\ \A k \in 1 .. Len(s) - 1 : Tail(s)[k] = s[k + 1]
<1>1. Len(s) \in Nat \ {0}
  BY EmptySeq
<1> QED BY <1>1, HeadTailProperties

-----------------------------------------------------------------------------
IsAscending(s) == \A i, j \in DOMAIN s : i < j => s[i] < s[j]

HasAscending(T) == \E s \in [1 .. Cardinality(T) -> T] : IsAscending(s)

\* What begins with the least element and goes on with the others in order.
LEMMA LeastThenRest ==
  ASSUME NEW T \in SUBSET Nat, IsFiniteSet(T), NEW m \in T, \A y \in T : m <= y,
         HasAscending(T \ {m})
  PROVE  HasAscending(T)
<1> DEFINE n == Cardinality(T)
<1>1. Cardinality(T \ {m}) = n - 1 /\ n \in Nat
  BY FS_RemoveElement, FS_CardinalityType
<1>2. PICK r \in [1 .. n - 1 -> T \ {m}] : IsAscending(r)
  BY <1>1 DEF HasAscending
<1> HIDE DEF n
<1> DEFINE s == [i \in 1 .. n |-> IF i = 1 THEN m ELSE r[i - 1]]
<1>3. \A i \in 1 .. n : i # 1 => i - 1 \in 1 .. n - 1 /\ r[i - 1] \in T /\ r[i - 1] # m
  BY <1>1, <1>2
<1>4. s \in [1 .. n -> T]
  BY <1>3
<1>5. ASSUME NEW i \in 1 .. n, NEW j \in 1 .. n, i < j
      PROVE  s[i] < s[j]
  <2>1. j # 1 /\ s[j] = r[j - 1] /\ s[j] \in T /\ s[j] # m
    BY <1>3, <1>5
  <2>2. CASE i = 1
    <3>1. s[i] = m /\ m \in Nat /\ s[j] \in Nat /\ m <= s[j]
      BY <2>1, <2>2
    <3> QED BY <2>1, <3>1
  <2>3. CASE i # 1
    <3>1. s[i] = r[i - 1] /\ i - 1 < j - 1 /\ i - 1 \in 1 .. n - 1 /\ j - 1 \in 1 .. n - 1
      BY <1>1, <1>5, <2>3
    <3> QED BY <2>1, <3>1, <1>2 DEF IsAscending
  <2> QED BY <2>2, <2>3
<1>6. IsAscending(s)
  BY <1>5 DEF IsAscending
<1> QED BY <1>4, <1>6 DEF HasAscending, n

\* Every finite set of natural numbers can be listed in ascending order.
LEMMA AscendingExists ==
  ASSUME NEW S \in SUBSET Nat, IsFiniteSet(S)
  PROVE  HasAscending(S)
<1> DEFINE Bad(T) == T \in SUBSET Nat /\ IsFiniteSet(T) /\ ~HasAscending(T)
           Sizes == {n \in Nat : \E T \in SUBSET Nat : Bad(T) /\ Cardinality(T) = n}
<1> SUFFICES ASSUME ~HasAscending(S) PROVE FALSE
  OBVIOUS
<1>1. Cardinality(S) \in Sizes /\ Sizes \in SUBSET Nat
  BY FS_CardinalityType
<1>2. Min(Sizes) \in Sizes /\ \A n \in Sizes : Min(Sizes) <= n
  <2> HIDE DEF Sizes
  <2> QED BY <1>1, MinIsLeast
<1>3. PICK T \in SUBSET Nat : Bad(T) /\ Cardinality(T) = Min(Sizes)
  BY <1>2
<1>4. T # {}
  <2> SUFFICES ASSUME T = {} PROVE FALSE
    OBVIOUS
  <2>1. Cardinality(T) = 0
    BY FS_EmptySet
  <2> DEFINE e == [i \in 1 .. Cardinality(T) |-> i]
  <2>2. e \in [1 .. Cardinality(T) -> T] /\ IsAscending(e)
    BY <2>1 DEF IsAscending
  <2> QED BY <2>2, <1>3 DEF HasAscending
<1>5. Min(T) \in T /\ \A y \in T : Min(T) <= y
  BY <1>4, MinIsLeast
<1> DEFINE R == T \ {Min(T)}
<1>6. R \in SUBSET Nat /\ IsFiniteSet(R) /\ Cardinality(R) = Cardinality(T) - 1
  BY <1>3, <1>5, FS_RemoveElement
<1>7. Cardinality(R) \in Nat /\ Cardinality(T) \in Nat
  BY <1>3, <1>6, FS_CardinalityType
<1>8. ~HasAscending(R)
  BY <1>3, <1>5, LeastThenRest
<1>9. Cardinality(R) \in Sizes
  BY <1>6, <1>7, <1>8
<1> QED
  <2> HIDE DEF Sizes, R
  <2> QED BY <1>2, <1>3, <1>6, <1>7, <1>9

\* A list of all elements in ascending order has each element once.
LEMMA AscendingIsOnto ==
  ASSUME NEW S \in SUBSET Nat, IsFiniteSet(S),
         NEW s \in [1 .. Cardinality(S) -> S],
         \A i, j \in 1 .. Cardinality(S) : i < j => s[i] < s[j]
  PROVE  \A x \in S : \E i \in 1 .. Cardinality(S) : s[i] = x
<1> DEFINE n == Cardinality(S)
<1>1. n \in Nat /\ IsFiniteSet(1 .. n) /\ Cardinality(1 .. n) = n
  BY FS_CardinalityType, FS_Interval
<1>2. s \in Injection(1 .. n, S)
  <2> SUFFICES ASSUME NEW i \in 1 .. n, NEW j \in 1 .. n, s[i] = s[j]
               PROVE  i = j
    BY DEF Injection, IsInjective
  <2>1. s[i] \in Nat /\ s[j] \in Nat
    OBVIOUS
  <2> QED BY <2>1, <1>1
<1>3. s \in Surjection(1 .. n, S)
  BY <1>1, <1>2, FS_Injection
<1> QED BY <1>3 DEF Surjection

-----------------------------------------------------------------------------
\* A concatenation has the elements of its parts.
LEMMA ToSetConcat ==
  ASSUME NEW S, NEW a \in Seq(S), NEW b \in Seq(S)
  PROVE  ToSet(a \o b) = ToSet(a) \cup ToSet(b)
<1>1. \A s : ToSet(s) = Range(s)
  BY DEF ToSet, Range
<1> QED BY <1>1, RangeConcatenation

\* It ascends if the parts do and the first one stays below the second.
LEMMA AscendingConcat ==
  ASSUME NEW a \in Seq(Nat), NEW b \in Seq(Nat), IsAscending(a), IsAscending(b),
         \A i \in DOMAIN a, j \in DOMAIN b : a[i] < b[j]
  PROVE  a \o b \in Seq(Nat) /\ IsAscending(a \o b)
<1> DEFINE s == a \o b
<1>1. /\ Len(a) \in Nat /\ DOMAIN a = 1 .. Len(a)
      /\ Len(b) \in Nat /\ DOMAIN b = 1 .. Len(b)
  BY LenProperties
<1>2. /\ s \in Seq(Nat) /\ DOMAIN s = 1 .. Len(a) + Len(b)
      /\ \A i \in 1 .. Len(a) + Len(b) : s[i] = IF i <= Len(a) THEN a[i] ELSE b[i - Len(a)]
  BY ConcatProperties, LenProperties
<1> HIDE DEF s
<1> DEFINE n == Len(a)
<1>3. /\ n \in Nat /\ Len(b) \in Nat
      /\ \A i \in DOMAIN s : i \in Nat /\ i <= n => i \in DOMAIN a /\ s[i] = a[i]
      /\ \A i \in DOMAIN s : i > n => i - n \in DOMAIN b /\ s[i] = b[i - n]
  <2>1. \A l \in Nat : \A i \in 1 .. n + l : /\ i <= n => i \in 1 .. n
                                             /\ i > n => i - n \in 1 .. l /\ ~(i <= n)
    BY <1>1
  <2> QED BY <1>1, <1>2, <2>1
<1> HIDE DEF n
<1>4. ASSUME NEW i \in DOMAIN s, NEW j \in DOMAIN s, i < j
      PROVE  s[i] < s[j]
  <2> i \in Nat /\ j \in Nat
    BY <1>2
  <2>1. CASE j <= n
    BY <1>3, <1>4, <2>1 DEF IsAscending
  <2>2. CASE i > n
    <3>1. j > n /\ i - n < j - n
      BY <1>3, <1>4, <2>2
    <3>2. s[i] = b[i - n] /\ i - n \in DOMAIN b /\ s[j] = b[j - n] /\ j - n \in DOMAIN b
      BY <1>3, <2>2, <3>1
    <3> QED BY <3>1, <3>2 DEF IsAscending
  <2>3. CASE i <= n /\ j > n
    BY <1>3, <2>3
  <2> QED BY <1>3, <2>1, <2>2, <2>3
<1> QED BY <1>2, <1>4 DEF IsAscending, s

\* What is appended to the end of a concatenation is appended to its second part.
LEMMA ConcatAppend ==
  ASSUME NEW S, NEW a \in Seq(S), NEW b \in Seq(S), NEW x \in S
  PROVE  a \o Append(b, x) = Append(a \o b, x)
<1>1. <<x>> \in Seq(S) /\ a \o b \in Seq(S)
  BY ConcatProperties
<1> QED BY <1>1, AppendIsConcat, ConcatAssociative

\* What leaves the head of one queue for the end of the one before it keeps its
\* place.
LEMMA HandedOver ==
  ASSUME NEW S, NEW a \in Seq(S), NEW b \in Seq(S), b # <<>>
  PROVE  Append(a, Head(b)) \o Tail(b) = a \o b
<1>1. /\ Tail(b) \in Seq(S) /\ Len(b) \in Nat \ {0} /\ Len(Tail(b)) = Len(b) - 1
      /\ Head(b) = b[1] /\ Head(b) \in S
      /\ \A k \in 1 .. Len(b) - 1 : Tail(b)[k] = b[k + 1]
  BY TailAt
<1>2. /\ Append(a, Head(b)) \in Seq(S) /\ Len(Append(a, Head(b))) = Len(a) + 1
      /\ Append(a, Head(b))[Len(a) + 1] = b[1] /\ Len(a) \in Nat
      /\ \A k \in 1 .. Len(a) : Append(a, Head(b))[k] = a[k]
  BY <1>1, AppendAt
<1> DEFINE p == Append(a, Head(b))
           l == p \o Tail(b)
           r == a \o b
<1>3. /\ l \in Seq(S) /\ Len(l) = Len(p) + Len(Tail(b))
      /\ \A i \in 1 .. Len(p) + Len(Tail(b)) :
           l[i] = IF i <= Len(p) THEN p[i] ELSE Tail(b)[i - Len(p)]
  BY <1>1, <1>2, ConcatProperties
<1>4. /\ r \in Seq(S) /\ Len(r) = Len(a) + Len(b)
      /\ \A i \in 1 .. Len(a) + Len(b) :
           r[i] = IF i <= Len(a) THEN a[i] ELSE b[i - Len(a)]
  BY ConcatProperties
<1> HIDE DEF l, r, p
<1>5. Len(p) = Len(a) + 1
  BY <1>2 DEF p
<1>6. ASSUME NEW i \in 1 .. Len(l) PROVE l[i] = r[i]
  <2> DEFINE n == Len(a)
             k == Len(b)
  <2>1. n \in Nat /\ k \in Nat \ {0} /\ i \in 1 .. n + k /\ Len(p) = n + 1
    BY <1>1, <1>2, <1>3, <1>5
  <2>2. CASE i <= n
    BY <1>1, <1>2, <1>3, <1>4, <2>1, <2>2 DEF p
  <2>3. CASE i = n + 1
    BY <1>1, <1>2, <1>3, <1>4, <2>1, <2>3 DEF p
  <2>4. CASE i > n + 1
    <3>1. i - Len(p) \in 1 .. Len(b) - 1 /\ (i - Len(p)) + 1 = i - Len(a)
      BY <2>1, <2>4
    <3>2. l[i] = Tail(b)[i - Len(p)] /\ r[i] = b[i - Len(a)]
      BY <1>1, <1>3, <1>4, <2>1, <2>4
    <3> QED BY <1>1, <3>1, <3>2
  <2> QED BY <2>1, <2>2, <2>3, <2>4
<1>7. Len(l) = Len(r)
  BY <1>1, <1>2, <1>3, <1>4, <1>5
<1>8. l = r
  BY <1>3, <1>4, <1>6, <1>7, SeqEqual
<1> QED BY <1>8 DEF l, r, p

-----------------------------------------------------------------------------
(***************************************************************************)
(* A sum over a set is the size of a pile: F[x] entries on every x.  Sizes *)
(* can be compared and taken apart without induction.                      *)
(***************************************************************************)
Pile(S, F) == {p \in S \X Nat : p[2] \in 1 .. F[p[1]]}

\* One more heap on a pile.
LEMMA PileAdd ==
  ASSUME NEW S, NEW F, NEW x, x \notin S, F[x] \in Nat,
         IsFiniteSet(Pile(S, F))
  PROVE  /\ IsFiniteSet(Pile(S \cup {x}, F))
         /\ Cardinality(Pile(S \cup {x}, F)) = Cardinality(Pile(S, F)) + F[x]
<1> DEFINE H == {x} \X (1 .. F[x])
<1>1. IsFiniteSet(H) /\ Cardinality(H) = F[x]
  <2>1. IsFiniteSet({x}) /\ Cardinality({x}) = 1
    BY FS_Singleton
  <2>2. IsFiniteSet(1 .. F[x]) /\ Cardinality(1 .. F[x]) = F[x]
    BY FS_Interval
  <2>3. IsFiniteSet(H) /\ Cardinality(H) = 1 * F[x]
    BY <2>1, <2>2, FS_Product
  <2> QED BY <2>3
<1>2. Pile(S \cup {x}, F) = Pile(S, F) \cup H
  BY DEF Pile
<1>3. Pile(S, F) \cap H = {}
  BY DEF Pile
<1> HIDE DEF H
<1>4. /\ IsFiniteSet(Pile(S, F) \cup H)
      /\ Cardinality(Pile(S, F) \cup H) =
           Cardinality(Pile(S, F)) + Cardinality(H) - Cardinality(Pile(S, F) \cap H)
  BY <1>1, FS_Union
<1>5. Cardinality(Pile(S, F) \cap H) = 0 /\ Cardinality(Pile(S, F)) \in Nat
  BY <1>3, FS_EmptySet, FS_CardinalityType
<1>6. Cardinality(Pile(S, F)) + Cardinality(H) - Cardinality(Pile(S, F) \cap H)
        = Cardinality(Pile(S, F)) + F[x]
  BY <1>1, <1>5
<1> QED BY <1>2, <1>4, <1>6

LEMMA PileFinite ==
  ASSUME NEW S, IsFiniteSet(S), NEW F, \A x \in S : F[x] \in Nat
  PROVE  IsFiniteSet(Pile(S, F))
<1> DEFINE f == [x \in S |-> {x} \X (1 .. F[x])]
           T == {f[x] : x \in S}
<1>1. IsFiniteSet(T)
  <2>1. f \in Surjection(S, T)
    BY Zenon DEF Surjection
  <2> QED BY <2>1, FS_Surjection
<1>2. ASSUME NEW t \in T PROVE IsFiniteSet(t)
  <2>1. PICK x \in S : t = {x} \X (1 .. F[x])
    OBVIOUS
  <2>2. IsFiniteSet({x}) /\ IsFiniteSet(1 .. F[x])
    <3>1. F[x] \in Int
      OBVIOUS
    <3>2. IsFiniteSet(1 .. F[x])
      BY <3>1, FS_Interval
    <3>3. IsFiniteSet({x})
      BY FS_Singleton
    <3> QED BY <3>2, <3>3
  <2> QED BY <2>1, <2>2, FS_Product
<1>3. IsFiniteSet(UNION T)
  BY <1>1, <1>2, FS_UNION
<1>4. Pile(S, F) \subseteq UNION T
  <2> SUFFICES ASSUME NEW p \in Pile(S, F) PROVE p \in UNION T
    OBVIOUS
  <2>1. p \in S \X Nat /\ p[1] \in S /\ p[2] \in 1 .. F[p[1]]
    BY DEF Pile
  <2>2. p \in f[p[1]]
    BY <2>1
  <2> QED BY <2>1, <2>2
<1> QED BY <1>3, <1>4, FS_Subset

(***************************************************************************)
(* The function that MapThenSumSet(f, S) defines by recursion, for the     *)
(* values F[x] = f(x): the size of the pile on each subset.                *)
(***************************************************************************)
SumsUp(g, S, F) ==
  g = [s \in SUBSET S |-> IF s = {} THEN 0
                          ELSE F[CHOOSE x \in s : TRUE] + g[s \ {CHOOSE x \in s : TRUE}]]

PileStep(s, F) ==
  Cardinality(Pile(s, F)) = IF s = {} THEN 0
                            ELSE F[CHOOSE x \in s : TRUE]
                                 + Cardinality(Pile(s \ {CHOOSE x \in s : TRUE}, F))

LEMMA PileSteps ==
  ASSUME NEW S, IsFiniteSet(S), NEW F, \A x \in S : F[x] \in Nat, NEW s \in SUBSET S
  PROVE  PileStep(s, F)
<1>1. CASE s = {}
  <2>1. Pile(s, F) = {}
    BY <1>1 DEF Pile
  <2> QED BY <1>1, <2>1, FS_EmptySet DEF PileStep
<1>2. CASE s # {}
  <2>1. PICK x : x = CHOOSE y \in s : TRUE
    OBVIOUS
  <2>2. x \in s
    BY <1>2, <2>1
  <2>3. IsFiniteSet(s \ {x}) /\ \A y \in s \ {x} : F[y] \in Nat
    BY FS_Subset
  <2>4. IsFiniteSet(Pile(s \ {x}, F))
    BY <2>3, PileFinite
  <2>5. (s \ {x}) \cup {x} = s /\ x \notin s \ {x} /\ F[x] \in Nat
    BY <2>2
  <2>6. Cardinality(Pile(s, F)) = Cardinality(Pile(s \ {x}, F)) + F[x]
    BY <2>4, <2>5, PileAdd
  <2>7. Cardinality(Pile(s \ {x}, F)) \in Nat
    BY <2>4, FS_CardinalityType
  <2> QED BY <1>2, <2>1, <2>5, <2>6, <2>7 DEF PileStep
<1> QED BY <1>1, <1>2

\* There is such a function, and its value is the size of the pile.
LEMMA SumExists ==
  ASSUME NEW S, IsFiniteSet(S), NEW F, \A x \in S : F[x] \in Nat
  PROVE  SumsUp([s \in SUBSET S |-> Cardinality(Pile(s, F))], S, F)
<1> DEFINE g == [s \in SUBSET S |-> Cardinality(Pile(s, F))]
           h == [s \in SUBSET S |-> IF s = {} THEN 0
                          ELSE F[CHOOSE x \in s : TRUE] + g[s \ {CHOOSE x \in s : TRUE}]]
<1>1. ASSUME NEW s \in SUBSET S PROVE g[s] = h[s]
  <2>1. s \ {CHOOSE x \in s : TRUE} \in SUBSET S
    OBVIOUS
  <2>2. g[s \ {CHOOSE x \in s : TRUE}] = Cardinality(Pile(s \ {CHOOSE x \in s : TRUE}, F))
    BY <2>1
  <2>3. PileStep(s, F)
    BY PileSteps
  <2>4. g[s] = Cardinality(Pile(s, F))
    OBVIOUS
  <2> HIDE DEF g
  <2> QED BY <2>2, <2>3, <2>4 DEF PileStep
<1>2. g = h
  BY <1>1
<1> QED BY <1>2 DEF SumsUp

LEMMA SumIsPile ==
  ASSUME NEW S, IsFiniteSet(S), NEW F, \A x \in S : F[x] \in Nat,
         NEW g, SumsUp(g, S, F)
  PROVE  g[S] = Cardinality(Pile(S, F))
<1> DEFINE Bad(s) == s \in SUBSET S /\ g[s] # Cardinality(Pile(s, F))
           Sizes == {n \in Nat : \E s \in SUBSET S : Bad(s) /\ Cardinality(s) = n}
<1> SUFFICES ASSUME Bad(S) PROVE FALSE
  OBVIOUS
<1>1. Cardinality(S) \in Sizes /\ Sizes \in SUBSET Nat
  BY FS_CardinalityType
<1>2. Min(Sizes) \in Sizes /\ \A n \in Sizes : Min(Sizes) <= n
  <2> HIDE DEF Sizes
  <2> QED BY <1>1, MinIsLeast
<1>3. PICK s \in SUBSET S : Bad(s) /\ Cardinality(s) = Min(Sizes)
  BY <1>2
<1>4. PICK x : x = CHOOSE y \in s : TRUE
  OBVIOUS
<1>5. g[s] = IF s = {} THEN 0 ELSE F[x] + g[s \ {x}]
  BY <1>4 DEF SumsUp
<1>6. Cardinality(Pile(s, F)) = IF s = {} THEN 0 ELSE F[x] + Cardinality(Pile(s \ {x}, F))
  BY <1>4, PileSteps DEF PileStep
<1>7. s # {} /\ x \in s
  BY <1>3, <1>4, <1>5, <1>6
<1>8. g[s \ {x}] # Cardinality(Pile(s \ {x}, F))
  BY <1>3, <1>5, <1>6, <1>7
<1>9. IsFiniteSet(s) /\ IsFiniteSet(s \ {x}) /\ Cardinality(s \ {x}) = Cardinality(s) - 1
  BY <1>7, FS_Subset, FS_RemoveElement
<1>10. Cardinality(s) \in Nat /\ Cardinality(s \ {x}) \in Nat
  BY <1>9, FS_CardinalityType
<1>11. Cardinality(s \ {x}) \in Sizes
  BY <1>8, <1>10
<1> QED
  <2> HIDE DEF Sizes
  <2> QED BY <1>2, <1>3, <1>9, <1>10, <1>11

\* Two piles that differ in one heap, and a pile that is covered by another.
LEMMA PileChanges ==
  ASSUME NEW S, IsFiniteSet(S), NEW F, NEW G, NEW x \in S,
         \A y \in S : F[y] \in Nat /\ G[y] \in Nat,
         \A y \in S : y # x => G[y] = F[y]
  PROVE  /\ Cardinality(Pile(S, F)) \in Nat /\ Cardinality(Pile(S, G)) \in Nat
         /\ Cardinality(Pile(S, G)) + F[x] = Cardinality(Pile(S, F)) + G[x]
<1> DEFINE R == S \ {x}
<1>1. IsFiniteSet(R) /\ x \notin R /\ R \cup {x} = S
  BY FS_RemoveElement
<1> HIDE DEF R
<1>2. \A y \in R : F[y] \in Nat /\ G[y] \in Nat /\ G[y] = F[y]
  BY <1>1
<1>3. Pile(R, G) = Pile(R, F)
  <2>1. \A p \in R \X Nat : G[p[1]] = F[p[1]]
    BY <1>2
  <2> QED BY <2>1 DEF Pile
<1>4. IsFiniteSet(Pile(R, F)) /\ IsFiniteSet(Pile(R, G))
  BY <1>1, <1>2, PileFinite
<1>5. Cardinality(Pile(R, F)) \in Nat
  BY <1>4, FS_CardinalityType
<1>6. F[x] \in Nat /\ G[x] \in Nat
  OBVIOUS
<1>7. /\ Cardinality(Pile(R \cup {x}, F)) = Cardinality(Pile(R, F)) + F[x]
      /\ Cardinality(Pile(R \cup {x}, G)) = Cardinality(Pile(R, G)) + G[x]
  BY <1>1, <1>4, <1>6, PileAdd
<1>8. /\ Cardinality(Pile(S, F)) = Cardinality(Pile(R, F)) + F[x]
      /\ Cardinality(Pile(S, G)) = Cardinality(Pile(R, F)) + G[x]
  BY <1>1, <1>3, <1>7
<1> QED BY <1>5, <1>6, <1>8

LEMMA PileCovers ==
  ASSUME NEW S, IsFiniteSet(S), NEW F, NEW G,
         \A y \in S : F[y] \in Nat /\ G[y] \in Nat /\ F[y] <= G[y]
  PROVE  /\ Cardinality(Pile(S, F)) \in Nat /\ Cardinality(Pile(S, G)) \in Nat
         /\ Cardinality(Pile(S, F)) <= Cardinality(Pile(S, G))
         /\ Cardinality(Pile(S, F)) = Cardinality(Pile(S, G)) => \A y \in S : F[y] = G[y]
<1>1. IsFiniteSet(Pile(S, F)) /\ IsFiniteSet(Pile(S, G))
  BY PileFinite
<1>2. Pile(S, F) \subseteq Pile(S, G)
  BY DEF Pile
<1>3. /\ Cardinality(Pile(S, F)) <= Cardinality(Pile(S, G))
      /\ Cardinality(Pile(S, G)) = Cardinality(Pile(S, F)) => Pile(S, G) = Pile(S, F)
  BY <1>1, <1>2, FS_Subset
<1>4. ASSUME Pile(S, G) = Pile(S, F), NEW y \in S PROVE F[y] = G[y]
  <2>1. CASE G[y] = 0
    BY <2>1
  <2>2. CASE G[y] # 0
    <3>1. <<y, G[y]>> \in Pile(S, G)
      BY <2>2 DEF Pile
    <3>2. <<y, G[y]>> \in Pile(S, F)
      BY <1>4, <3>1
    <3>3. G[y] \in 1 .. F[y]
      BY <3>2 DEF Pile
    <3> QED BY <3>3
  <2> QED BY <2>1, <2>2
<1>5. Cardinality(Pile(S, F)) \in Nat /\ Cardinality(Pile(S, G)) \in Nat
  BY <1>1, FS_CardinalityType
<1> QED BY <1>3, <1>4, <1>5

\* A sequence and the one that has one more element at its end.
LEMMA OneMore ==
  ASSUME NEW T, NEW before \in Seq(T), NEW after \in Seq(T), NEW n \in Nat,
         Len(before) = n, Len(after) = n + 1,
         \A k \in 1 .. n : after[k] = before[k]
  PROVE  /\ after # <<>> /\ Front(after) = before /\ Last(after) = after[n + 1]
         /\ before # <<>> => n # 0 /\ Last(before) = before[n]
<1>1. before \in Seq(T) /\ after \in Seq(T)
  OBVIOUS
<1>2. Len(before) = n /\ Len(after) = n + 1
  OBVIOUS
<1>3. Front(after) = before
  <2>1. Front(after) = SubSeq(after, 1, n)
    BY <1>2 DEF Front
  <2>2. /\ SubSeq(after, 1, n) \in Seq(T) /\ Len(SubSeq(after, 1, n)) = n
        /\ \A k \in 1 .. n : SubSeq(after, 1, n)[k] = after[k]
    <3>1. \A k \in 1 .. n : after[k] \in T
      BY ElementOfSeq
    <3>2. /\ SubSeq(after, 1, n) \in Seq(T)
          /\ Len(SubSeq(after, 1, n)) = IF 1 <= n THEN n - 1 + 1 ELSE 0
          /\ \A k \in 1 .. n - 1 + 1 : SubSeq(after, 1, n)[k] = after[1 + k - 1]
      BY <3>1, SubSeqProperties
    <3> QED BY <3>2
  <2> DEFINE front == SubSeq(after, 1, n)
  <2>3. /\ front \in Seq(T) /\ Len(front) = Len(before)
        /\ \A k \in 1 .. Len(front) : front[k] = before[k]
    BY <1>2, <2>2
  <2> HIDE DEF front
  <2>4. front = before
    BY <1>1, <2>3, SeqEqual
  <2> QED BY <2>1, <2>4 DEF front
<1>4. after # <<>> /\ Last(after) = after[n + 1]
  BY <1>1, <1>2, EmptySeq DEF Last
<1>5. before # <<>> => n # 0 /\ Last(before) = before[n]
  BY <1>1, <1>2, EmptySeq DEF Last
<1> QED BY <1>3, <1>4, <1>5

=============================================================================
