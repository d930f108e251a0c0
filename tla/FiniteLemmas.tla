----------------------------- MODULE FiniteLemmas -----------------------------
(***************************************************************************)
(* What the proofs of the other modules need of finite sets: least and     *)
(* last elements, induction and recursion over the subsets of a finite     *)
(* set, a sequence for every strict order, and sums.                       *)
(*                                                                         *)
(* The library's induction theorems take an operator as a parameter, which *)
(* the provers cannot instantiate; here a collection of sets takes its     *)
(* place.                                                                  *)
(***************************************************************************)
EXTENDS Integers, FiniteSets, SequencesExt, FiniteSetTheorems, WellFoundedInduction, TLAPS

\* A set of numbers has a least one.
LEMMA LeastNumber ==
    ASSUME NEW T, T \subseteq Nat, T # {}
    PROVE  \E n \in T : \A m \in T : n <= m
<1>1. PICK n \in T : \A m \in T : ~(<<m, n>> \in OpToRel(<, Nat))
  BY NatLessThanWellFounded, WFMin
<1>2. \A m, k \in Nat : <<m, k>> \in OpToRel(<, Nat) <=> m < k
  BY DEF OpToRel
<1>3. ASSUME NEW m \in T PROVE n <= m
  <2>1. m \in Nat /\ n \in Nat /\ ~(m < n)
    BY <1>1, <1>2
  <2> QED
    BY <2>1
<1> QED
  BY <1>3

\* A collection of subsets of S that has the empty set, and has a subset as soon
\* as it has it without one of its elements, has all of them.
LEMMA SubsetInduction ==
    ASSUME NEW S, IsFiniteSet(S), NEW G, {} \in G,
           \A s \in SUBSET S : s # {} => \E x \in s : s \ {x} \in G => s \in G
    PROVE  SUBSET S \subseteq G
<1> DEFINE Sizes == {n \in Nat : \E s \in SUBSET S : s \notin G /\ Cardinality(s) = n}
<1>1. \A s \in SUBSET S : IsFiniteSet(s) /\ Cardinality(s) \in Nat
  BY FS_Subset, FS_CardinalityType
<1>2. SUFFICES ASSUME Sizes # {} PROVE FALSE
  BY <1>1
<1>3. PICK n \in Sizes : \A m \in Sizes : n <= m
  BY <1>2, LeastNumber
<1>4. PICK s \in SUBSET S : s \notin G /\ Cardinality(s) = n
  BY <1>3
<1>5. PICK x \in s : s \ {x} \notin G
  BY <1>4
<1>6. Cardinality(s \ {x}) = n - 1 /\ n - 1 \in Nat /\ ~(n <= n - 1)
  <2>1. Cardinality(s \ {x}) = Cardinality(s) - 1 /\ Cardinality(s \ {x}) \in Nat
    BY <1>1, <1>4, <1>5, FS_RemoveElement
  <2> QED
    BY <1>3, <1>4, <2>1
<1>7. n - 1 \in Sizes
  BY <1>5, <1>6
<1> QED
  BY <1>3, <1>6, <1>7

\* before is a strict order of the elements of S without ties.
TotalOrder(S, before) ==
    /\ \A x \in S : <<x, x>> \notin before
    /\ \A x, y \in S : x # y => <<x, y>> \in before \/ <<y, x>> \in before
    /\ \A x, y, z \in S : <<x, y>> \in before /\ <<y, z>> \in before => <<x, z>> \in before

\* The last element of a finite set in such an order.
LEMMA LastExists ==
    ASSUME NEW S, IsFiniteSet(S), NEW before, TotalOrder(S, before), NEW T, T \subseteq S, T # {}
    PROVE  \E x \in T : \A y \in T \ {x} : <<y, x>> \in before
<1> DEFINE G == {s \in SUBSET S : s = {} \/ \E x \in s : \A y \in s \ {x} : <<y, x>> \in before}
<1>1. ASSUME NEW s \in SUBSET S, NEW z \in s, s \ {z} \in G PROVE s \in G
  <2>1. CASE s \ {z} = {}
    BY <2>1
  <2>2. ASSUME NEW x \in s \ {z}, \A y \in (s \ {z}) \ {x} : <<y, x>> \in before PROVE s \in G
    <3>1. CASE <<z, x>> \in before
      BY <2>2, <3>1
    <3>2. CASE <<x, z>> \in before
      <4>1. \A y \in s \ {z} : <<y, z>> \in before
        BY <2>2, <3>2 DEF TotalOrder
      <4> QED
        BY <4>1
    <3> QED
      BY <2>2, <3>1, <3>2 DEF TotalOrder
  <2> QED
    BY <1>1, <2>1, <2>2
<1>2. SUBSET S \subseteq G
  <2>1. {} \in G /\ \A s \in SUBSET S : s # {} => \E x \in s : s \ {x} \in G => s \in G
    BY <1>1
  <2> HIDE DEF G
  <2> QED
    BY <2>1, SubsetInduction
<1> QED
  BY <1>2

\* A finite set can be put in such an order.
LEMMA OrderExists ==
    ASSUME NEW S, IsFiniteSet(S), NEW before, TotalOrder(S, before)
    PROVE  \E s \in SetToSeqs(S) :
                /\ \A m, n \in DOMAIN s : m < n => <<s[m], s[n]>> \in before
                /\ ToSet(s) = S
<1> DEFINE Ordered(T, s) == /\ s \in [1..Cardinality(T) -> T]
                            /\ \A m, n \in 1..Cardinality(T) : m < n => <<s[m], s[n]>> \in before
                            /\ \A x \in T : \E m \in 1..Cardinality(T) : s[m] = x
           G == {T \in SUBSET S : \E s : Ordered(T, s)}
<1>1. ASSUME NEW T \in SUBSET S, NEW x \in T, \A y \in T \ {x} : <<y, x>> \in before, T \ {x} \in G
      PROVE  T \in G
  <2>1. PICK s : Ordered(T \ {x}, s)
    BY <1>1
  <2> DEFINE c == Cardinality(T \ {x})
  <2>2. Cardinality(T) = c + 1 /\ c \in Nat
    <3>1. IsFiniteSet(T)
      BY FS_Subset
    <3>2. Cardinality(T \ {x}) = Cardinality(T) - 1 /\ Cardinality(T \ {x}) \in Nat /\ Cardinality(T) \in Nat
      BY <3>1, FS_RemoveElement, FS_CardinalityType
    <3> QED
      BY <3>2
  <2> HIDE DEF c
  <2> DEFINE t == [m \in 1..(c + 1) |-> IF m = c + 1 THEN x ELSE s[m]]
  <2>3. /\ s \in [1..c -> T \ {x}]
        /\ \A m, n \in 1..c : m < n => <<s[m], s[n]>> \in before
        /\ \A y \in T \ {x} : \E m \in 1..c : s[m] = y
    BY <2>1 DEF c
  <2>4. \A m \in 1..(c + 1) : m = c + 1 \/ (m \in 1..c /\ m # c + 1)
    BY <2>2
  <2>5. t \in [1..(c + 1) -> T]
    BY <1>1, <2>3, <2>4
  <2>6. ASSUME NEW m \in 1..(c + 1), NEW n \in 1..(c + 1), m < n PROVE <<t[m], t[n]>> \in before
    <3>1. m \in 1..c /\ m # c + 1
      BY <2>2, <2>6
    <3>2. s[m] \in T \ {x} /\ t[m] = s[m]
      BY <2>3, <3>1
    <3>3. CASE n = c + 1
      BY <1>1, <3>2, <3>3
    <3>4. CASE n \in 1..c /\ n # c + 1
      BY <2>3, <2>6, <3>1, <3>2, <3>4
    <3> QED
      BY <2>4, <3>3, <3>4
  <2>7. ASSUME NEW y \in T PROVE \E m \in 1..(c + 1) : t[m] = y
    <3>1. CASE y = x
      <4>1. c + 1 \in 1..(c + 1) /\ t[c + 1] = x
        BY <2>2
      <4> QED
        BY <3>1, <4>1
    <3>2. CASE y # x
      <4>1. PICK m \in 1..c : s[m] = y
        BY <2>3, <2>7, <3>2
      <4>2. m \in 1..(c + 1) /\ m # c + 1
        BY <2>2
      <4>3. t[m] = y
        BY <4>1, <4>2
      <4> QED
        BY <4>2, <4>3
    <3> QED
      BY <3>1, <3>2
  <2> HIDE DEF t
  <2>8. Ordered(T, t)
    BY <2>2, <2>5, <2>6, <2>7
  <2> HIDE DEF Ordered
  <2> QED
    BY <2>8
<1>2. {} \in G
  <2>1. Cardinality({}) = 0
    BY FS_EmptySet
  <2>2. Ordered({}, [m \in 1..0 |-> 0])
    BY <2>1
  <2> HIDE DEF Ordered
  <2> QED
    BY <2>2
<1>3. \A T \in SUBSET S : T # {} => \E x \in T : T \ {x} \in G => T \in G
  <2> SUFFICES ASSUME NEW T \in SUBSET S, T # {} PROVE \E x \in T : T \ {x} \in G => T \in G
    OBVIOUS
  <2>1. PICK x \in T : \A y \in T \ {x} : <<y, x>> \in before
    BY LastExists
  <2> QED
    BY <1>1, <2>1
<1> HIDE DEF G
<1>4. S \in G
  BY <1>2, <1>3, SubsetInduction
<1>5. PICK s : Ordered(S, s)
  BY <1>4 DEF G
<1>6. \A m, n \in 1..Cardinality(S) : m # n => s[m] # s[n]
  <2>1. \A m, n \in 1..Cardinality(S) : m < n => s[m] # s[n]
    BY <1>5 DEF TotalOrder
  <2>2. \A m, n \in 1..Cardinality(S) : m # n => m < n \/ n < m
    OBVIOUS
  <2> QED
    BY <2>1, <2>2
<1>7. s \in SetToSeqs(S) /\ DOMAIN s = 1..Cardinality(S)
  BY <1>5, <1>6 DEF SetToSeqs
<1>8. ToSet(s) = S
  BY <1>5, <1>7 DEF ToSet
<1> QED
  BY <1>5, <1>7, <1>8

\* In particular the set itself has one.
LEMMA LastOfAll ==
    ASSUME NEW S, IsFiniteSet(S), S # {}, NEW before, TotalOrder(S, before)
    PROVE  \E x \in S : \A y \in S \ {x} : <<y, x>> \in before
<1>1. S \subseteq S
  OBVIOUS
<1> QED
  BY <1>1, LastExists

\* The least and the greatest of some integers.
LEMMA MinMaxExist ==
    ASSUME NEW S, IsFiniteSet(S), S \subseteq Int, S # {}
    PROVE  /\ Min(S) \in S /\ \A y \in S : Min(S) <= y
           /\ Max(S) \in S /\ \A y \in S : Max(S) >= y
<1> DEFINE up   == {p \in S \X S : p[1] < p[2]}
           down == {p \in S \X S : p[1] > p[2]}
<1>1. TotalOrder(S, up) /\ TotalOrder(S, down)
  BY DEF TotalOrder
<1>4. /\ \A x, y \in S : <<x, y>> \in up => x < y
      /\ \A x, y \in S : <<x, y>> \in down => x > y
  OBVIOUS
<1> HIDE DEF up, down
<1>2. \E x \in S : \A y \in S : x >= y
  <2>1. PICK x \in S : \A y \in S \ {x} : <<y, x>> \in up
    BY ONLY <1>1, IsFiniteSet(S), S # {}, LastOfAll
  <2>2. \A y \in S \ {x} : y < x
    BY <1>4, <2>1
  <2>3. x \in Int /\ \A y \in S : y \in Int /\ (y = x \/ y < x)
    BY <2>2
  <2> QED
    BY <2>3
<1>3. \E x \in S : \A y \in S : x <= y
  <2>1. PICK x \in S : \A y \in S \ {x} : <<y, x>> \in down
    BY ONLY <1>1, IsFiniteSet(S), S # {}, LastOfAll
  <2>2. \A y \in S \ {x} : y > x
    BY <1>4, <2>1
  <2>3. x \in Int /\ \A y \in S : y \in Int /\ (y = x \/ y > x)
    BY <2>2
  <2> QED
    BY <2>3
<1> QED
  BY <1>2, <1>3 DEF Max, Min

\* it takes an element out of a set, the one that ch chooses, until none is left.
Recurses(it, S, A, base, ch, op) ==
    /\ it \in [SUBSET S -> A]
    /\ \A s \in SUBSET S : it[s] = IF s = {} THEN base ELSE op[<<ch[s], it[s \ {ch[s]}]>>]

Recursive(S, A, base, ch, op) ==
    /\ IsFiniteSet(S)
    /\ base \in A
    /\ \A s \in SUBSET S : s # {} => ch[s] \in s
    /\ op \in [S \X A -> A]

\* A function of the subsets of S can be defined by taking an element out.
LEMMA SubsetRecursion ==
    ASSUME NEW S, NEW A, NEW base, NEW ch, NEW op, Recursive(S, A, base, ch, op)
    PROVE  \E it : Recurses(it, S, A, base, ch, op)
<1> USE DEF Recursive
<1> DEFINE Eqn(it, s) == it[s] = IF s = {} THEN base ELSE op[<<ch[s], it[s \ {ch[s]}]>>]
           Up(n) == \E it \in [SUBSET S -> A] : \A s \in SUBSET S : Cardinality(s) <= n => Eqn(it, s)
           Bad == {n \in Nat : ~Up(n)}
<1>1. \A s \in SUBSET S : IsFiniteSet(s) /\ Cardinality(s) \in Nat /\ Cardinality(s) <= Cardinality(S)
  BY FS_Subset, FS_CardinalityType
<1>2. \A s \in SUBSET S : Cardinality(s) = 0 <=> s = {}
  BY <1>1, FS_EmptySet
<1>3. Up(0)
  <2> DEFINE it == [s \in SUBSET S |-> base]
  <2>1. it \in [SUBSET S -> A]
    OBVIOUS
  <2>2. ASSUME NEW s \in SUBSET S, Cardinality(s) <= 0 PROVE Eqn(it, s)
    <3>1. s = {}
      BY <1>1, <1>2, <2>2
    <3> QED
      BY <3>1
  <2> HIDE DEF it, Eqn
  <2> QED
    BY <2>1, <2>2
<1>4. ASSUME NEW n \in Nat, Up(n) PROVE Up(n + 1)
  <2>1. PICK it \in [SUBSET S -> A] : \A s \in SUBSET S : Cardinality(s) <= n => Eqn(it, s)
    BY <1>4
  <2> DEFINE next == [s \in SUBSET S |-> IF s = {} THEN base ELSE op[<<ch[s], it[s \ {ch[s]}]>>]]
  <2>2. next \in [SUBSET S -> A]
    OBVIOUS
  <2>3. ASSUME NEW s \in SUBSET S, Cardinality(s) <= n PROVE next[s] = it[s]
    BY <2>1, <2>3
  <2>4. ASSUME NEW s \in SUBSET S, s # {}, Cardinality(s) <= n + 1
        PROVE  next[s \ {ch[s]}] = it[s \ {ch[s]}]
    <3>1. /\ ch[s] \in s /\ s \ {ch[s]} \in SUBSET S
          /\ Cardinality(s \ {ch[s]}) = Cardinality(s) - 1
      BY <1>1, <2>4, FS_RemoveElement
    <3>2. Cardinality(s \ {ch[s]}) <= n
      BY <1>1, <2>4, <3>1
    <3> QED
      BY <2>3, <3>1, <3>2
  <2>5. ASSUME NEW s \in SUBSET S, Cardinality(s) <= n + 1 PROVE Eqn(next, s)
    <3>1. CASE s = {}
      BY <3>1
    <3>2. CASE s # {}
      <4>1. next[s] = op[<<ch[s], it[s \ {ch[s]}]>>]
        BY <3>2
      <4> HIDE DEF next
      <4> QED
        BY <2>4, <2>5, <3>2, <4>1
    <3> QED
      BY <3>1, <3>2
  <2> HIDE DEF next, Eqn
  <2> QED
    BY <2>2, <2>5
<1> HIDE DEF Up
<1>5. Bad = {}
  <2> SUFFICES ASSUME Bad # {} PROVE FALSE
    OBVIOUS
  <2>1. PICK n \in Bad : \A m \in Bad : n <= m
    BY LeastNumber
  <2>2. n # 0 /\ n \in Nat /\ n - 1 \in Nat /\ ~(n <= n - 1)
    BY <1>3, <2>1
  <2>3. Up(n - 1)
    BY <2>1, <2>2
  <2>4. Up(n - 1 + 1)
    BY <1>4, <2>2, <2>3
  <2>5. n - 1 + 1 = n
    BY <2>2
  <2> QED
    BY <2>1, <2>4, <2>5
<1>6. Up(Cardinality(S))
  BY <1>1, <1>5
<1>7. PICK it \in [SUBSET S -> A] : \A s \in SUBSET S : Cardinality(s) <= Cardinality(S) => Eqn(it, s)
  BY <1>6 DEF Up
<1>8. Recurses(it, S, A, base, ch, op)
  BY <1>1, <1>7 DEF Recurses
<1> QED
  BY <1>8

\* sum adds up the values of f, the element that is chosen first.
SumsUp(sum, f, S) ==
    /\ sum[{}] = 0
    /\ \A s \in SUBSET S : s # {} =>
            /\ sum[s] \in Int
            /\ \E x \in s : x = (CHOOSE y \in s : TRUE) /\ sum[s] = f[x] + sum[s \ {x}]

\* The sum of finitely many integers is one, and can be taken one by one.
LEMMA SumsOneByOne ==
    ASSUME NEW S, IsFiniteSet(S), NEW f \in [S -> Int]
    PROVE  SumFunction(f) \in Int /\ \E sum : SumsUp(sum, f, S) /\ SumFunction(f) = sum[S]
<1> DEFINE Sum(it) == it = [s \in SUBSET S |-> IF s = {} THEN 0
                            ELSE f[CHOOSE x \in s : TRUE] + it[s \ {CHOOSE x \in s : TRUE}]]
<1>1. \E it : Sum(it)
  <2> DEFINE ch == [s \in SUBSET S |-> CHOOSE x \in s : TRUE]
             op == [p \in S \X Int |-> f[p[1]] + p[2]]
  <2>1. PICK it : Recurses(it, S, Int, 0, ch, op)
    <3>1. Recursive(S, Int, 0, ch, op)
      BY DEF Recursive
    <3> HIDE DEF op, ch
    <3> QED
      BY <3>1, SubsetRecursion
  <2> HIDE DEF ch
  <2>5. \A a \in S, b \in Int : op[<<a, b>>] = f[a] + b
    OBVIOUS
  <2> HIDE DEF op
  <2>2. ASSUME NEW s \in SUBSET S, s # {}
        PROVE  it[s] = f[CHOOSE x \in s : TRUE] + it[s \ {CHOOSE x \in s : TRUE}]
    <3>1. ch[s] = (CHOOSE x \in s : TRUE) /\ ch[s] \in s
      BY <2>2 DEF ch
    <3>2. it[s] = op[<<ch[s], it[s \ {ch[s]}]>>]
      BY <2>1, <2>2 DEF Recurses
    <3>3. it[s \ {ch[s]}] \in Int /\ ch[s] \in S
      BY <2>1, <3>1 DEF Recurses
    <3>4. op[<<ch[s], it[s \ {ch[s]}]>>] = f[ch[s]] + it[s \ {ch[s]}]
      BY <2>5, <3>3
    <3> QED
      BY <3>1, <3>2, <3>4
  <2>3. it[{}] = 0 /\ DOMAIN it = SUBSET S /\ it = [s \in DOMAIN it |-> it[s]]
    BY <2>1 DEF Recurses
  <2>4. Sum(it)
    BY <2>2, <2>3
  <2> QED
    BY <2>4
<1> DEFINE sum == CHOOSE it : Sum(it)
<1>2. Sum(sum)
  <2> HIDE DEF Sum
  <2> QED
    BY <1>1
<1>3. SumFunction(f) = sum[S]
  BY DEF SumFunction, SumFunctionOnSet, FoldFunctionOnSet, MapThenFoldSet
<1> HIDE DEF sum
<1>4. /\ sum[{}] = 0
      /\ \A s \in SUBSET S : s # {} =>
            sum[s] = f[CHOOSE x \in s : TRUE] + sum[s \ {CHOOSE x \in s : TRUE}]
  BY <1>2
<1> DEFINE G == {s \in SUBSET S : sum[s] \in Int}
<1>5. {} \in G /\ \A s \in SUBSET S : s # {} => \E x \in s : s \ {x} \in G => s \in G
  <2>1. ASSUME NEW s \in SUBSET S, s # {} PROVE \E x \in s : s \ {x} \in G => s \in G
    <3>1. PICK x \in s : x = CHOOSE y \in s : TRUE
      BY <2>1
    <3>2. sum[s] = f[x] + sum[s \ {x}]
      BY <1>4, <2>1, <3>1
    <3>3. s \ {x} \in G => s \in G
      BY <3>1, <3>2
    <3> HIDE DEF G
    <3> QED
      BY <3>3
  <2> QED
    BY <1>4, <2>1
<1>6. SUBSET S \subseteq G
  <2> HIDE DEF G
  <2> QED
    BY <1>5, SubsetInduction
<1>7. SumsUp(sum, f, S)
  <2> SUFFICES ASSUME NEW s \in SUBSET S, s # {}
               PROVE  \E x \in s : x = (CHOOSE y \in s : TRUE) /\ sum[s] = f[x] + sum[s \ {x}]
    BY <1>4, <1>6 DEF SumsUp
  <2>1. PICK x \in s : x = CHOOSE y \in s : TRUE
    OBVIOUS
  <2> QED
    BY <1>4, <2>1
<1> QED
  BY <1>3, <1>6, <1>7

\* A sum of larger integers is larger.
LEMMA SumMonotone ==
    ASSUME NEW S, IsFiniteSet(S), NEW f \in [S -> Int], NEW g \in [S -> Int],
           \A x \in S : f[x] >= g[x]
    PROVE  SumFunction(f) >= SumFunction(g)
<1>1. PICK F : SumsUp(F, f, S) /\ SumFunction(f) = F[S]
  BY SumsOneByOne
<1>2. PICK H : SumsUp(H, g, S) /\ SumFunction(g) = H[S]
  BY SumsOneByOne
<1> DEFINE G == {s \in SUBSET S : F[s] \in Int /\ H[s] \in Int /\ F[s] >= H[s]}
<1>3. {} \in G
  BY <1>1, <1>2 DEF SumsUp
<1>4. ASSUME NEW s \in SUBSET S, s # {} PROVE \E x \in s : s \ {x} \in G => s \in G
  <2>1. PICK x \in s : x = CHOOSE y \in s : TRUE
    BY <1>4
  <2>2. F[s] = f[x] + F[s \ {x}] /\ H[s] = g[x] + H[s \ {x}]
    BY <1>1, <1>2, <1>4, <2>1 DEF SumsUp
  <2>3. f[x] \in Int /\ g[x] \in Int /\ f[x] >= g[x]
    OBVIOUS
  <2>4. s \ {x} \in G => s \in G
    BY <2>2, <2>3
  <2> HIDE DEF G
  <2> QED
    BY <2>4
<1>5. SUBSET S \subseteq G
  <2> HIDE DEF G
  <2> QED
    BY <1>3, <1>4, SubsetInduction
<1> QED
  BY <1>1, <1>2, <1>5

\* Division rounds down, and so keeps the order.
LEMMA DivisionMonotone ==
    ASSUME NEW a \in Nat, NEW b \in Nat, NEW d \in Nat \ {0}, a <= b
    PROVE  a \div d \in Nat /\ a \div d <= b \div d
<1> DEFINE p == a \div d  q == b \div d
<1>1. p \in Int /\ q \in Int
  OBVIOUS
<1>2. p * d <= a /\ b < (q + 1) * d
  OBVIOUS
<1>3. 0 <= p
  OBVIOUS
<1> HIDE DEF p, q
<1>4. ASSUME p > q PROVE FALSE
  <2>1. p >= q + 1
    BY <1>1, <1>4
  <2>2. p * d >= (q + 1) * d
    BY <1>1, <2>1
  <2>3. p * d \in Int /\ (q + 1) * d \in Int
    BY <1>1
  <2> QED
    BY <1>2, <2>2, <2>3
<1> QED
  BY <1>1, <1>3, <1>4 DEF p, q


-----------------------------------------------------------------------------
(***************************************************************************)
(* Orders of the numbers 1..n, and how sums change                         *)
(***************************************************************************)
\* A strict order of the positions of a sequence is a permutation of them.
LEMMA PermutationExists ==
    ASSUME NEW n \in Nat, NEW before, TotalOrder(1..n, before)
    PROVE  \E p \in [1..n -> 1..n] :
                /\ IsInjective(p)
                /\ \A i, j \in 1..n : i < j => <<p[i], p[j]>> \in before
<1>1. IsFiniteSet(1..n) /\ Cardinality(1..n) = n
  BY FS_Interval
<1>2. PICK p \in SetToSeqs(1..n) : \A i, j \in DOMAIN p : i < j => <<p[i], p[j]>> \in before
  BY <1>1, OrderExists
<1>3. p \in [1..n -> 1..n] /\ DOMAIN p = 1..n
  BY <1>1, <1>2 DEF SetToSeqs
<1>4. IsInjective(p)
  <2>1. \A i, j \in 1..n : i # j => p[i] # p[j]
    <3>1. ASSUME NEW i \in 1..n, NEW j \in 1..n, i < j PROVE p[i] # p[j]
      BY <1>2, <1>3, <3>1 DEF TotalOrder
    <3>2. \A i, j \in 1..n : i # j => i < j \/ j < i
      OBVIOUS
    <3> QED
      BY <3>1, <3>2
  <2> QED
    BY <1>3, <2>1 DEF IsInjective
<1> QED
  BY <1>2, <1>3, <1>4

\* A permutation of the positions meets each of them.
LEMMA PermutationIsOnto ==
    ASSUME NEW n \in Nat, NEW p \in [1..n -> 1..n], IsInjective(p)
    PROVE  \A k \in 1..n : \E i \in 1..n : p[i] = k
<1>1. IsFiniteSet(1..n)
  BY FS_Interval
<1>2. p \in Injection(1..n, 1..n)
  BY DEF Injection
<1>3. p \in Surjection(1..n, 1..n)
  BY <1>1, <1>2, FS_Injection
<1> QED
  BY <1>3 DEF Surjection

\* Sums of functions that differ in one place differ by as much.
LEMMA SumChangesAt ==
    ASSUME NEW S, IsFiniteSet(S), NEW f \in [S -> Int], NEW g \in [S -> Int], NEW m \in S,
           \A x \in S \ {m} : f[x] = g[x]
    PROVE  SumFunction(g) = SumFunction(f) + (g[m] - f[m])
<1>1. PICK F : SumsUp(F, f, S) /\ SumFunction(f) = F[S]
  BY SumsOneByOne
<1>2. PICK H : SumsUp(H, g, S) /\ SumFunction(g) = H[S]
  BY SumsOneByOne
<1> DEFINE d(s) == IF m \in s THEN g[m] - f[m] ELSE 0
           G == {s \in SUBSET S : F[s] \in Int /\ H[s] \in Int /\ H[s] = F[s] + d(s)}
<1>3. {} \in G
  BY <1>1, <1>2 DEF SumsUp
<1>4. ASSUME NEW s \in SUBSET S, s # {} PROVE \E x \in s : s \ {x} \in G => s \in G
  <2>1. PICK x \in s : x = CHOOSE y \in s : TRUE
    BY <1>4
  <2>2. F[s] = f[x] + F[s \ {x}] /\ H[s] = g[x] + H[s \ {x}]
    BY <1>1, <1>2, <1>4, <2>1 DEF SumsUp
  <2>3. f[x] \in Int /\ g[x] \in Int /\ f[m] \in Int /\ g[m] \in Int
    OBVIOUS
  <2>4. g[x] + d(s \ {x}) = f[x] + d(s)
    <3>1. CASE x = m
      BY <2>3, <3>1
    <3>2. CASE x # m
      <4>1. f[x] = g[x] /\ d(s \ {x}) = d(s)
        BY <3>2
      <4> QED
        BY <4>1
    <3> QED
      BY <3>1, <3>2
  <2>5. d(s) \in Int /\ d(s \ {x}) \in Int
    BY <2>3
  <2> HIDE DEF d
  <2>6. s \ {x} \in G => s \in G
    BY <2>2, <2>3, <2>4, <2>5
  <2> HIDE DEF G
  <2> QED
    BY <2>6
<1>5. SUBSET S \subseteq G
  <2> HIDE DEF G
  <2> QED
    BY <1>3, <1>4, SubsetInduction
<1> QED
  BY <1>1, <1>2, <1>5

===============================================================================
