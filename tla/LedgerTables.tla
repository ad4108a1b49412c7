---------------------------- MODULE LedgerTables ----------------------------
(***************************************************************************)
(* What the sums of the ledger are made of, and what each step of it makes *)
(* of the tables: for any ETFs, prices, volumes, fees, limits and corporate*)
(* actions.                                                                *)
(***************************************************************************)
EXTENDS Ledger, SequenceTheorems, FiniteSetTheorems, TLAPS

(* Sums of a function over a finite set of its arguments.                  *)

(* Induction over the subsets of a finite set, as a set of good ones: the  *)
(* smallest subset outside it has all its proper subsets inside.           *)
LEMMA SubsetInduction ==
  ASSUME NEW S, IsFiniteSet(S), NEW G,
         \A T \in SUBSET S : (\A U \in SUBSET T : U # T => U \in G) => T \in G
  PROVE  \A T \in SUBSET S : T \in G
<1> SUFFICES ASSUME NEW T \in SUBSET S, T \notin G PROVE FALSE
  OBVIOUS
<1> DEFINE B == {U \in SUBSET S : U \notin G}
           R == StrictSubsetOrdering(S)
<1>1. IsWellFoundedOn(R, FiniteSubsetsOf(S)) /\ FiniteSubsetsOf(S) = SUBSET S
  BY FS_StrictSubsetOrderingWellFounded, FS_FiniteSubsetsOfFinite
<1>2. IsWellFoundedOn(R, SUBSET S) /\ B \subseteq SUBSET S /\ T \in B
  BY <1>1
<1>3. \E x \in B : \A y \in B : ~(<<y, x>> \in R)
  <2> HIDE DEF B, R
  <2> QED
    BY <1>2, WFMin
<1>4. PICK x \in B : \A y \in B : ~(<<y, x>> \in R)
  BY <1>3
<1>5. \A U \in SUBSET x : U # x => U \in G
  BY <1>4 DEF StrictSubsetOrdering
<1> QED
  BY <1>4, <1>5

(* The defining equation.                                                  *)
Pick(S) == CHOOSE x \in S : TRUE
Iterates(g, f, S) ==
  g = [s \in SUBSET S |-> IF s = {} THEN 0 ELSE f[Pick(s)] + g[s \ {Pick(s)}]]

LEMMA SumIsIterate ==
  ASSUME NEW f, NEW S
  PROVE  SumFunctionOnSet(f, S) = (CHOOSE g : Iterates(g, f, S))[S]
BY DEF SumFunctionOnSet, FoldFunctionOnSet, MapThenFoldSet, Iterates, Pick

LEMMA IteratesAgree ==
  ASSUME NEW f, NEW h, NEW S, IsFiniteSet(S), NEW T, NEW R, R \subseteq S, R \subseteq T,
         \A x \in R : f[x] = h[x], NEW g, NEW k, Iterates(g, f, S), Iterates(k, h, T)
  PROVE  g[R] = k[R]
<1> DEFINE G == {Q \in SUBSET R : g[Q] = k[Q]}
<1>1. IsFiniteSet(R)
  BY FS_Subset
<1>2. ASSUME NEW Q \in SUBSET R, \A U \in SUBSET Q : U # Q => U \in G PROVE Q \in G
  <2>1. /\ g[Q] = IF Q = {} THEN 0 ELSE f[Pick(Q)] + g[Q \ {Pick(Q)}]
        /\ k[Q] = IF Q = {} THEN 0 ELSE h[Pick(Q)] + k[Q \ {Pick(Q)}]
    BY DEF Iterates
  <2>2. CASE Q = {}
    BY <2>1, <2>2
  <2>3. CASE Q # {}
    <3>1. Pick(Q) \in Q
      BY <2>3 DEF Pick
    <3>2. g[Q \ {Pick(Q)}] = k[Q \ {Pick(Q)}] /\ f[Pick(Q)] = h[Pick(Q)]
      BY <1>2, <3>1
    <3> QED
      BY <2>1, <2>3, <3>2
  <2> QED
    BY <2>2, <2>3
<1>3. R \in G
  <2> HIDE DEF G
  <2> QED
    BY <1>1, <1>2, SubsetInduction
<1> QED
  BY <1>3

(* There is a function that satisfies the equation: every subset has one   *)
(* for its own subsets.                                                    *)
LEMMA IterateExists ==
  ASSUME NEW f, NEW S, IsFiniteSet(S)
  PROVE  \E g : Iterates(g, f, S)
<1> DEFINE G == {T \in SUBSET S : \E g : Iterates(g, f, T)}
<1>1. ASSUME NEW T \in SUBSET S, \A U \in SUBSET T : U # T => U \in G PROVE T \in G
  <2> DEFINE of(U) == CHOOSE g : Iterates(g, f, U)
             new == [s \in SUBSET T |->
                       IF s = {} THEN 0 ELSE f[Pick(s)] + of(s \ {Pick(s)})[s \ {Pick(s)}]]
  <2>1. \A U \in SUBSET T : U # T => Iterates(of(U), f, U)
    BY <1>1
  <2>2. \A s \in SUBSET T : IsFiniteSet(s)
    BY FS_Subset
  <2>3. \A s \in SUBSET T : s # {} => Pick(s) \in s
    BY DEF Pick
  <2> HIDE DEF of
  <2>4. ASSUME NEW s \in SUBSET T, s # T PROVE new[s] = of(s)[s]
    <3>1. Iterates(of(s), f, s) /\ IsFiniteSet(s)
      BY <2>1, <2>2, <2>4
    <3>2. of(s)[s] = IF s = {} THEN 0 ELSE f[Pick(s)] + of(s)[s \ {Pick(s)}]
      BY <3>1 DEF Iterates
    <3>3. CASE s = {}
      BY <3>2, <3>3
    <3>4. CASE s # {}
      <4> DEFINE r == s \ {Pick(s)}
      <4>1. r \in SUBSET T /\ r # T /\ r \subseteq s /\ IsFiniteSet(r)
        BY <2>2, <2>3, <3>4
      <4>2. Iterates(of(r), f, r)
        BY <2>1, <4>1
      <4>3. of(r)[r] = of(s)[r]
        BY <3>1, <4>1, <4>2, IteratesAgree
      <4> QED
        BY <3>2, <3>4, <4>3
    <3> QED
      BY <3>3, <3>4
  <2>5. \A s \in SUBSET T : s # {} => s \ {Pick(s)} \in SUBSET T /\ s \ {Pick(s)} # T
    BY <2>3
  <2>6. new = [s \in SUBSET T |-> IF s = {} THEN 0 ELSE f[Pick(s)] + new[s \ {Pick(s)}]]
    <3> SUFFICES ASSUME NEW s \in SUBSET T, s # {}
                 PROVE  of(s \ {Pick(s)})[s \ {Pick(s)}] = new[s \ {Pick(s)}]
      OBVIOUS
    <3> QED
      BY <2>4, <2>5
  <2> HIDE DEF new
  <2>7. Iterates(new, f, T)
    BY <2>6 DEF Iterates
  <2> QED
    BY <2>7
<1>2. S \in G
  <2> HIDE DEF G
  <2> QED
    BY <1>1, SubsetInduction
<1> QED
  BY <1>2

LEMMA SumIterates ==
  ASSUME NEW f, NEW S, IsFiniteSet(S)
  PROVE  \E g : Iterates(g, f, S) /\ SumFunctionOnSet(f, S) = g[S]
<1>1. Iterates(CHOOSE g : Iterates(g, f, S), f, S)
  BY IterateExists
<1> QED
  BY <1>1, SumIsIterate

(* Only the values in the set matter.                                      *)
LEMMA SumOfEqual ==
  ASSUME NEW S, IsFiniteSet(S), NEW f, NEW h, \A x \in S : f[x] = h[x]
  PROVE  SumFunctionOnSet(f, S) = SumFunctionOnSet(h, S)
<1>1. PICK g : Iterates(g, f, S) /\ SumFunctionOnSet(f, S) = g[S]
  BY SumIterates
<1>2. PICK k : Iterates(k, h, S) /\ SumFunctionOnSet(h, S) = k[S]
  BY SumIterates
<1>3. g[S] = k[S]
  BY <1>1, <1>2, IteratesAgree
<1> QED
  BY <1>1, <1>2, <1>3

LEMMA SumOfEmpty ==
  ASSUME NEW f PROVE SumFunctionOnSet(f, {}) = 0
<1>1. PICK g : Iterates(g, f, {}) /\ SumFunctionOnSet(f, {}) = g[{}]
  BY SumIterates, FS_EmptySet
<1> QED
  BY <1>1 DEF Iterates

LEMMA SumUnfolds ==
  ASSUME NEW S, IsFiniteSet(S), S # {}, NEW f
  PROVE  SumFunctionOnSet(f, S) = f[Pick(S)] + SumFunctionOnSet(f, S \ {Pick(S)})
<1> DEFINE R == S \ {Pick(S)}
<1>1. IsFiniteSet(R) /\ R \subseteq S
  BY FS_Subset
<1>2. PICK g : Iterates(g, f, S) /\ SumFunctionOnSet(f, S) = g[S]
  BY SumIterates
<1>3. PICK k : Iterates(k, f, R) /\ SumFunctionOnSet(f, R) = k[R]
  BY <1>1, SumIterates
<1>4. g[R] = k[R]
  BY <1>1, <1>2, <1>3, IteratesAgree
<1>5. g[S] = f[Pick(S)] + g[R]
  BY <1>2 DEF Iterates
<1> QED
  BY <1>2, <1>3, <1>4, <1>5

LEMMA SumIsInt ==
  ASSUME NEW S, IsFiniteSet(S), NEW f, \A x \in S : f[x] \in Int
  PROVE  SumFunctionOnSet(f, S) \in Int
<1> DEFINE G == {T \in SUBSET S : SumFunctionOnSet(f, T) \in Int}
<1>1. ASSUME NEW T \in SUBSET S, \A U \in SUBSET T : U # T => U \in G PROVE T \in G
  <2>1. CASE T = {}
    BY <2>1, SumOfEmpty
  <2>2. CASE T # {}
    <3>1. Pick(T) \in T /\ IsFiniteSet(T)
      BY <2>2, FS_Subset DEF Pick
    <3>2. SumFunctionOnSet(f, T) = f[Pick(T)] + SumFunctionOnSet(f, T \ {Pick(T)})
      BY <2>2, <3>1, SumUnfolds
    <3>3. SumFunctionOnSet(f, T \ {Pick(T)}) \in Int /\ f[Pick(T)] \in Int
      BY <1>1, <3>1
    <3> QED
      BY <3>2, <3>3
  <2> QED
    BY <2>1, <2>2
<1>2. S \in G
  <2> HIDE DEF G
  <2> QED
    BY <1>1, SubsetInduction
<1> QED
  BY <1>2

(* Any element may be taken out.                                           *)
LEMMA SumTakesOut ==
  ASSUME NEW S, IsFiniteSet(S), NEW f, \A x \in S : f[x] \in Int, NEW x \in S
  PROVE  SumFunctionOnSet(f, S) = f[x] + SumFunctionOnSet(f, S \ {x})
<1> DEFINE Sum(T) == SumFunctionOnSet(f, T)
           G == {T \in SUBSET S : \A y \in T : Sum(T) = f[y] + Sum(T \ {y})}
<1>1. ASSUME NEW T \in SUBSET S, \A U \in SUBSET T : U # T => U \in G PROVE T \in G
  <2> SUFFICES ASSUME NEW y \in T PROVE Sum(T) = f[y] + Sum(T \ {y})
    OBVIOUS
  <2> DEFINE c == Pick(T)
  <2>1. c \in T /\ IsFiniteSet(T)
    BY FS_Subset DEF Pick
  <2>2. Sum(T) = f[c] + Sum(T \ {c})
    BY <2>1, SumUnfolds
  <2> HIDE DEF c
  <2>3. CASE c = y
    BY <2>2, <2>3
  <2>4. CASE c # y
    <3> DEFINE R == (T \ {y}) \ {c}
    <3>1. R = (T \ {c}) \ {y} /\ IsFiniteSet(R) /\ R \subseteq S
      BY <2>1, FS_Subset
    <3>2. Sum(T \ {c}) = f[y] + Sum(R)
      BY <1>1, <2>1, <2>4, <3>1
    <3>3. Sum(T \ {y}) = f[c] + Sum(R)
      BY <1>1, <2>1, <2>4
    <3>4. Sum(R) \in Int /\ f[c] \in Int /\ f[y] \in Int
      BY <2>1, <3>1, SumIsInt
    <3> HIDE DEF R, Sum
    <3> QED
      BY <2>2, <3>2, <3>3, <3>4
  <2> QED
    BY <2>3, <2>4
<1>2. S \in G
  <2> HIDE DEF G
  <2> QED
    BY <1>1, SubsetInduction
<1> QED
  BY <1>2

LEMMA SumAddsOne ==
  ASSUME NEW S, IsFiniteSet(S), NEW f, NEW x, x \notin S,
         \A y \in S \cup {x} : f[y] \in Int
  PROVE  SumFunctionOnSet(f, S \cup {x}) = SumFunctionOnSet(f, S) + f[x]
<1> DEFINE T == S \cup {x}
           R == T \ {x}
<1>1. IsFiniteSet(T) /\ x \in T
  BY FS_AddElement
<1>2. SumFunctionOnSet(f, T) = f[x] + SumFunctionOnSet(f, R)
  BY <1>1, SumTakesOut
<1>3. SumFunctionOnSet(f, S) \in Int /\ f[x] \in Int
  BY SumIsInt
<1>4. R = S
  OBVIOUS
<1> HIDE DEF R, T
<1>5. SumFunctionOnSet(f, T) = f[x] + SumFunctionOnSet(f, S)
  BY <1>2, <1>4
<1>6. SumFunctionOnSet(f, T) = SumFunctionOnSet(f, S) + f[x]
  BY <1>3, <1>5
<1> QED
  BY <1>6 DEF T

(* Sums of sums: what h adds to f.                                         *)
LEMMA SumOfSum ==
  ASSUME NEW S, IsFiniteSet(S), NEW f, NEW g, NEW h,
         \A x \in S : f[x] \in Int /\ g[x] \in Int /\ h[x] = f[x] + g[x]
  PROVE  SumFunctionOnSet(h, S) = SumFunctionOnSet(f, S) + SumFunctionOnSet(g, S)
<1> DEFINE Sum(k, T) == SumFunctionOnSet(k, T)
           G == {T \in SUBSET S : Sum(h, T) = Sum(f, T) + Sum(g, T)}
<1>1. ASSUME NEW T \in SUBSET S, \A U \in SUBSET T : U # T => U \in G PROVE T \in G
  <2>1. CASE T = {}
    BY <2>1, SumOfEmpty
  <2>2. CASE T # {}
    <3>1. PICK x \in T : TRUE
      BY <2>2
    <3> DEFINE R == T \ {x}
    <3>2. IsFiniteSet(T) /\ IsFiniteSet(R) /\ R # T
      BY <3>1, FS_Subset
    <3>3. /\ Sum(f, T) = f[x] + Sum(f, R)
          /\ Sum(g, T) = g[x] + Sum(g, R)
          /\ Sum(h, T) = h[x] + Sum(h, R)
      BY <3>2, SumTakesOut
    <3>4. Sum(f, R) \in Int /\ Sum(g, R) \in Int
      BY <3>2, SumIsInt
    <3>5. Sum(h, R) = Sum(f, R) + Sum(g, R)
      BY <1>1, <3>2
    <3> HIDE DEF R, Sum
    <3>6. f[x] \in Int /\ g[x] \in Int /\ h[x] = f[x] + g[x]
      OBVIOUS
    <3>7. Sum(h, T) = Sum(f, T) + Sum(g, T)
      BY <3>3, <3>4, <3>5, <3>6
    <3> QED
      BY <3>7
  <2> QED
    BY <2>1, <2>2
<1>2. S \in G
  <2> HIDE DEF G
  <2> QED
    BY <1>1, SubsetInduction
<1> QED
  BY <1>2

LEMMA SumOfZeros ==
  ASSUME NEW S, IsFiniteSet(S), NEW f, \A x \in S : f[x] = 0
  PROVE  SumFunctionOnSet(f, S) = 0
<1> DEFINE z == SumFunctionOnSet(f, S)
<1>1. z = z + z
  BY SumOfSum
<1>2. z \in Int
  BY SumIsInt
<1> HIDE DEF z
<1>3. z = 0
  BY <1>1, <1>2
<1> QED
  BY <1>3 DEF z

(* Arguments outside the set, or with the value 0, do not matter.          *)
LEMMA SumOfSupport ==
  ASSUME NEW S, IsFiniteSet(S), NEW T \in SUBSET S, NEW f, \A x \in S : f[x] \in Int,
         \A x \in S \ T : f[x] = 0
  PROVE  SumFunctionOnSet(f, S) = SumFunctionOnSet(f, T)
<1> DEFINE Sum(U) == SumFunctionOnSet(f, U)
           G == {U \in SUBSET S : Sum(U) = Sum(U \cap T)}
<1>1. ASSUME NEW U \in SUBSET S, \A V \in SUBSET U : V # U => V \in G PROVE U \in G
  <2>1. CASE U \subseteq T
    <3>1. U \cap T = U
      BY <2>1
    <3> QED
      BY <3>1
  <2>2. CASE ~(U \subseteq T)
    <3>1. PICK x \in U : x \notin T
      BY <2>2
    <3> DEFINE R == U \ {x}
    <3>2. IsFiniteSet(U) /\ IsFiniteSet(R) /\ R # U /\ R \cap T = U \cap T
      BY <3>1, FS_Subset
    <3>3. Sum(U) = f[x] + Sum(R) /\ f[x] = 0
      BY <3>1, <3>2, SumTakesOut
    <3>4. Sum(R) \in Int
      BY <3>2, SumIsInt
    <3>5. Sum(R) = Sum(R \cap T)
      BY <1>1, <3>2
    <3>6. Sum(R \cap T) = Sum(U \cap T)
      BY <3>2
    <3> HIDE DEF R, Sum
    <3>7. Sum(U) = Sum(U \cap T)
      BY <3>3, <3>4, <3>5, <3>6
    <3> QED
      BY <3>7
  <2> QED
    BY <2>1, <2>2
<1>2. S \in G
  <2> HIDE DEF G
  <2> QED
    BY <1>1, SubsetInduction
<1>3. S \cap T = T
  OBVIOUS
<1> QED
  BY <1>2, <1>3

(* A natural number, and no element has more.                              *)
LEMMA SumIsNat ==
  ASSUME NEW S, IsFiniteSet(S), NEW f, \A x \in S : f[x] \in Nat
  PROVE  /\ SumFunctionOnSet(f, S) \in Nat
         /\ \A x \in S : f[x] <= SumFunctionOnSet(f, S)
<1> DEFINE Sum(T) == SumFunctionOnSet(f, T)
           G == {T \in SUBSET S : Sum(T) \in Nat}
<1>1. ASSUME NEW T \in SUBSET S, \A U \in SUBSET T : U # T => U \in G PROVE T \in G
  <2>1. CASE T = {}
    BY <2>1, SumOfEmpty
  <2>2. CASE T # {}
    <3>1. PICK x \in T : TRUE
      BY <2>2
    <3>2. Sum(T) = f[x] + Sum(T \ {x})
      <4>1. IsFiniteSet(T) /\ \A y \in T : f[y] \in Int
        BY FS_Subset
      <4> QED
        BY <4>1, <3>1, SumTakesOut
    <3>3. Sum(T \ {x}) \in Nat /\ f[x] \in Nat
      BY <1>1
    <3> QED
      BY <3>2, <3>3
  <2> QED
    BY <2>1, <2>2
<1>2. \A T \in SUBSET S : T \in G
  <2> HIDE DEF G
  <2> QED
    BY <1>1, SubsetInduction
<1>3. ASSUME NEW x \in S PROVE f[x] <= Sum(S)
  <2>1. Sum(S) = f[x] + Sum(S \ {x})
    BY SumTakesOut
  <2>2. Sum(S \ {x}) \in Nat /\ f[x] \in Nat
    BY <1>2
  <2> QED
    BY <2>1, <2>2
<1> QED
  BY <1>2, <1>3

(* A change of one value.                                                  *)
LEMMA SumChangesBy ==
  ASSUME NEW S, IsFiniteSet(S), NEW x \in S, NEW f, NEW h,
         \A y \in S : f[y] \in Int /\ h[y] \in Int, \A y \in S \ {x} : h[y] = f[y]
  PROVE  SumFunctionOnSet(h, S) = SumFunctionOnSet(f, S) + (h[x] - f[x])
<1> DEFINE R == S \ {x}
<1>1. IsFiniteSet(R)
  BY FS_Subset
<1>2. SumFunctionOnSet(f, S) = f[x] + SumFunctionOnSet(f, R)
  BY SumTakesOut
<1>3. SumFunctionOnSet(h, S) = h[x] + SumFunctionOnSet(h, R)
  BY SumTakesOut
<1>4. SumFunctionOnSet(f, R) = SumFunctionOnSet(h, R)
  BY <1>1, SumOfEqual
<1>5. SumFunctionOnSet(f, R) \in Int /\ f[x] \in Int /\ h[x] \in Int
  BY <1>1, SumIsInt
<1> HIDE DEF R
<1> QED
  BY <1>2, <1>3, <1>4, <1>5

(* Every value scaled alike, where each scales without a rest.             *)
LEMMA SumScales ==
  ASSUME NEW S, IsFiniteSet(S), NEW f, NEW h, NEW n \in Int, NEW m \in Int,
         \A x \in S : f[x] \in Int /\ h[x] \in Int /\ m * h[x] = n * f[x]
  PROVE  m * SumFunctionOnSet(h, S) = n * SumFunctionOnSet(f, S)
<1> DEFINE Sum(k, T) == SumFunctionOnSet(k, T)
           G == {T \in SUBSET S : m * Sum(h, T) = n * Sum(f, T)}
<1>1. ASSUME NEW T \in SUBSET S, \A U \in SUBSET T : U # T => U \in G PROVE T \in G
  <2>1. CASE T = {}
    BY <2>1, SumOfEmpty
  <2>2. CASE T # {}
    <3>1. PICK x \in T : TRUE
      BY <2>2
    <3> DEFINE R == T \ {x}
    <3>2. IsFiniteSet(T) /\ IsFiniteSet(R) /\ R # T
      BY <3>1, FS_Subset
    <3>3. /\ Sum(f, T) = f[x] + Sum(f, R)
          /\ Sum(h, T) = h[x] + Sum(h, R)
      BY <3>2, SumTakesOut
    <3>4. Sum(f, R) \in Int /\ Sum(h, R) \in Int
      BY <3>2, SumIsInt
    <3>5. m * Sum(h, R) = n * Sum(f, R)
      BY <1>1, <3>2
    <3> HIDE DEF R, Sum
    <3>6. f[x] \in Int /\ h[x] \in Int /\ m * h[x] = n * f[x]
      OBVIOUS
    <3>7. /\ m * (h[x] + Sum(h, R)) = m * h[x] + m * Sum(h, R)
          /\ n * (f[x] + Sum(f, R)) = n * f[x] + n * Sum(f, R)
      BY <3>4, <3>6
    <3>8. m * Sum(h, T) = n * Sum(f, T)
      BY <3>3, <3>5, <3>6, <3>7
    <3> QED
      BY <3>8
  <2> QED
    BY <2>1, <2>2
<1>2. S \in G
  <2> HIDE DEF G
  <2> QED
    BY <1>1, SubsetInduction
<1> QED
  BY <1>2

----------------------------------------------------------------------------
LEMMA LengthOfFunction ==
  ASSUME NEW n \in Nat, NEW f, f = [x \in 1 .. n |-> f[x]]
  PROVE  Len(f) = n /\ DOMAIN f = 1 .. n
<1> DEFINE S == {f[x] : x \in 1 .. n}
<1>1. f \in [1 .. n -> S]
  OBVIOUS
<1>2. f \in Seq(S)
  BY <1>1
<1>3. Len(f) \in Nat /\ DOMAIN f = 1 .. Len(f)
  BY <1>2, LenProperties
<1> QED
  BY <1>1, <1>3

USE DEF Total

LEMMA Quotient ==
  ASSUME NEW a \in Nat, NEW b \in Nat \ {0}
  PROVE  a \div b \in Nat /\ (a \div b) * b <= a
OBVIOUS

LEMMA QuotientExact ==
  ASSUME NEW a \in Int, NEW b \in Nat \ {0}, a % b = 0
  PROVE  (a \div b) * b = a
OBVIOUS

LEMMA ProductIsNat ==
  ASSUME NEW a \in Nat, NEW b \in Nat
  PROVE  a * b \in Nat
OBVIOUS

LEMMA ProductGrows ==
  ASSUME NEW a \in Nat, NEW b \in Int, NEW c \in Int, b <= c
  PROVE  a * b <= a * c
OBVIOUS

LEMMA ProductCancels ==
  ASSUME NEW a \in Int, NEW b \in Int, NEW c \in Nat \ {0}, a * c <= b * c
  PROVE  a <= b
OBVIOUS

LEMMA PartOfCost ==
  ASSUME NEW c \in Nat, NEW q \in Nat \ {0}, NEW t \in 0 .. q
  PROVE  (c * t) \div q \in 0 .. c
<1>1. c * t \in Nat /\ c * t <= c * q
  BY ProductIsNat, ProductGrows
<1>2. (c * t) \div q \in Nat /\ ((c * t) \div q) * q <= c * t
  BY <1>1, Quotient
<1>3. c * q \in Nat
  BY ProductIsNat
<1>4. ((c * t) \div q) * q <= c * q
  BY <1>1, <1>2, <1>3, ProductIsNat
<1> QED
  BY <1>2, <1>4, ProductCancels

LEMMA FeeIsNat ==
  ASSUME NEW gross \in Nat PROVE FeeFor(gross) \in Nat
<1>1. 2 * gross + FeeParts \in Nat /\ 2 * FeeParts \in Nat \ {0} /\ MinFee \in Nat
  BY LedgerAssumption
<1>2. (2 * gross + FeeParts) \div (2 * FeeParts) \in Nat
  BY <1>1, Quotient
<1> QED
  BY <1>1, <1>2 DEF FeeFor, Most

LEMMA LotsRounds ==
  ASSUME NEW q \in Nat PROVE Lots(q) \in 0 .. q
BY LedgerAssumption DEF Lots


----------------------------------------------------------------------------
(* What an ETF holds and what it cost, of any table of lots: the sums over *)
(* all rows of what is its own.                                            *)
RowsOf(ls) == 1 .. Len(ls)
Its(ls, e) == {l \in RowsOf(ls) : ls[l].etf = e /\ ls[l].qty > 0}
HeldIn(ls, e) == Total([l \in RowsOf(ls) |-> ls[l].qty], Its(ls, e))
CostIn(ls, e) == Total([l \in RowsOf(ls) |-> ls[l].cost], Its(ls, e))
Own(ls, e) == [l \in RowsOf(ls) |-> IF l \in Its(ls, e) THEN ls[l].qty ELSE 0]
Spent(ls, e) == [l \in RowsOf(ls) |-> IF l \in Its(ls, e) THEN ls[l].cost ELSE 0]

LEMMA TheTable ==
  /\ \A e : Held(e) = HeldIn(lots, e) /\ LotsOf(e) = Its(lots, e)
  /\ \A e : Total(Cost, LotsOf(e)) = CostIn(lots, e)
BY DEF Held, Shares, Quantity, Cost, LotsOf, Rows, HeldIn, CostIn, Its, RowsOf

LEMMA TheTableAfter ==
  /\ \A e : Held(e)' = HeldIn(lots', e) /\ LotsOf(e)' = Its(lots', e)
  /\ \A e : Total(Cost', LotsOf(e)') = CostIn(lots', e)
BY DEF Held, Shares, Quantity, Cost, LotsOf, Rows, HeldIn, CostIn, Its, RowsOf

LEMMA RowsAreLots ==
  ASSUME NEW ls \in Seq(LotRow)
  PROVE  /\ Len(ls) \in Nat /\ IsFiniteSet(RowsOf(ls))
         /\ ls = [l \in RowsOf(ls) |-> ls[l]]
         /\ \A l \in RowsOf(ls) : ls[l] \in LotRow
         /\ \A e : IsFiniteSet(Its(ls, e)) /\ Its(ls, e) \subseteq RowsOf(ls)
<1>1. Len(ls) \in Nat /\ ls \in [1 .. Len(ls) -> LotRow]
  BY LenProperties
<1>2. IsFiniteSet(RowsOf(ls))
  BY <1>1, FS_Interval DEF RowsOf
<1>3. \A e : Its(ls, e) \subseteq RowsOf(ls)
  BY DEF Its
<1>4. \A e : IsFiniteSet(Its(ls, e))
  BY <1>2, <1>3, FS_Subset
<1> QED
  BY <1>1, <1>2, <1>3, <1>4 DEF RowsOf

LEMMA LotType ==
  ASSUME NEW r \in LotRow
  PROVE  /\ r.qty \in Nat /\ r.cost \in Nat /\ r.etf \in Etfs
         /\ r.acquired \in 1 .. Days /\ r.avail \in Nat
         /\ r = [etf |-> r.etf, acquired |-> r.acquired, avail |-> r.avail,
                 qty |-> r.qty, cost |-> r.cost]
BY DEF LotRow

LEMMA OwnRows ==
  ASSUME NEW ls \in Seq(LotRow), NEW e
  PROVE  /\ HeldIn(ls, e) = Total(Own(ls, e), RowsOf(ls))
         /\ CostIn(ls, e) = Total(Spent(ls, e), RowsOf(ls))
         /\ HeldIn(ls, e) \in Nat /\ CostIn(ls, e) \in Nat
         /\ \A l \in RowsOf(ls) : Own(ls, e)[l] \in Nat /\ Spent(ls, e)[l] \in Nat
         /\ \A l \in Its(ls, e) : ls[l].qty <= HeldIn(ls, e)
<1> DEFINE S == RowsOf(ls)
           T == Its(ls, e)
           q == [l \in S |-> ls[l].qty]
           c == [l \in S |-> ls[l].cost]
<1>1. IsFiniteSet(S) /\ IsFiniteSet(T) /\ T \in SUBSET S
  BY RowsAreLots
<1>2. \A l \in S : ls[l].qty \in Nat /\ ls[l].cost \in Nat
  BY RowsAreLots, LotType
<1>3. \A l \in S : Own(ls, e)[l] \in Nat /\ Spent(ls, e)[l] \in Nat
  BY <1>2 DEF Own, Spent
<1>4. \A l \in T : q[l] \in Nat /\ q[l] = Own(ls, e)[l] /\ c[l] = Spent(ls, e)[l]
  BY <1>1, <1>2 DEF Own, Spent
<1>5. \A l \in S \ T : Own(ls, e)[l] = 0 /\ Spent(ls, e)[l] = 0
  BY DEF Own, Spent
<1>6. HeldIn(ls, e) = Total(q, T) /\ CostIn(ls, e) = Total(c, T)
  BY DEF HeldIn, CostIn
<1> HIDE DEF S, T, q, c
<1>7. /\ Total(q, T) = Total(Own(ls, e), T) /\ Total(c, T) = Total(Spent(ls, e), T)
  BY <1>1, <1>4, SumOfEqual
<1>8. Total(Own(ls, e), S) = Total(Own(ls, e), T)
  BY <1>1, <1>3, <1>5, SumOfSupport
<1>9. Total(Spent(ls, e), S) = Total(Spent(ls, e), T)
  BY <1>1, <1>3, <1>5, SumOfSupport
<1>10. Total(Own(ls, e), S) \in Nat /\ Total(Spent(ls, e), S) \in Nat
  BY <1>1, <1>3, SumIsNat
<1>11. \A l \in T : q[l] <= Total(q, T)
  BY <1>1, <1>4, SumIsNat
<1>12. \A l \in T : ls[l].qty <= Total(q, T)
  BY <1>1, <1>11 DEF q
<1>13. \A l \in S : Own(ls, e)[l] \in Nat /\ Spent(ls, e)[l] \in Nat
  BY <1>3
<1>14. Total(q, T) = Total(Own(ls, e), S) /\ Total(c, T) = Total(Spent(ls, e), S)
  BY <1>7, <1>8, <1>9
<1> QED
  BY <1>6, <1>10, <1>12, <1>13, <1>14 DEF S, T

(* A change of the rows, row by row.                                       *)
LEMMA HeldChangesBy ==
  ASSUME NEW ls \in Seq(LotRow), NEW ms \in Seq(LotRow), Len(ms) = Len(ls),
         NEW e, NEW d, \A l \in RowsOf(ls) : d[l] \in Int,
         \A l \in RowsOf(ls) : Own(ms, e)[l] = Own(ls, e)[l] + d[l]
  PROVE  HeldIn(ms, e) = HeldIn(ls, e) + Total(d, RowsOf(ls))
<1>1. RowsOf(ms) = RowsOf(ls) /\ IsFiniteSet(RowsOf(ls))
  BY RowsAreLots DEF RowsOf
<1> QED
  BY <1>1, OwnRows, SumOfSum

LEMMA CostChangesBy ==
  ASSUME NEW ls \in Seq(LotRow), NEW ms \in Seq(LotRow), Len(ms) = Len(ls),
         NEW e, NEW d, \A l \in RowsOf(ls) : d[l] \in Int,
         \A l \in RowsOf(ls) : Spent(ms, e)[l] = Spent(ls, e)[l] + d[l]
  PROVE  CostIn(ms, e) = CostIn(ls, e) + Total(d, RowsOf(ls))
<1>1. RowsOf(ms) = RowsOf(ls) /\ IsFiniteSet(RowsOf(ls))
  BY RowsAreLots DEF RowsOf
<1> QED
  BY <1>1, OwnRows, SumOfSum

(* A new lot.                                                              *)
LEMMA LotAdded ==
  ASSUME NEW ls \in Seq(LotRow), NEW r \in LotRow, r.qty > 0, NEW e
  PROVE  /\ Append(ls, r) \in Seq(LotRow)
         /\ HeldIn(Append(ls, r), e) = HeldIn(ls, e) + (IF r.etf = e THEN r.qty ELSE 0)
         /\ CostIn(Append(ls, r), e) = CostIn(ls, e) + (IF r.etf = e THEN r.cost ELSE 0)
         /\ Its(Append(ls, r), e) = Its(ls, e) \cup (IF r.etf = e THEN {Len(ls) + 1} ELSE {})
<1> DEFINE ms == Append(ls, r)
           n == Len(ls) + 1
           S == RowsOf(ls)
<1>1. /\ ms \in Seq(LotRow) /\ Len(ms) = n /\ ms[n] = r
      /\ \A l \in S : ms[l] = ls[l]
  BY AppendProperties DEF RowsOf
<1>2. RowsOf(ms) = S \cup {n} /\ n \notin S /\ IsFiniteSet(S) /\ n \in RowsOf(ms)
  BY <1>1, RowsAreLots DEF RowsOf
<1> HIDE DEF ms, n, S
<1>3. Its(ms, e) = Its(ls, e) \cup (IF r.etf = e THEN {n} ELSE {})
  BY <1>1, <1>2 DEF Its, S
<1>4. \A l \in S : l \in Its(ms, e) <=> l \in Its(ls, e)
  BY <1>2, <1>3
<1>5. n \in Its(ms, e) <=> r.etf = e
  BY <1>2, <1>3 DEF Its, S
<1>6. /\ \A l \in S : Own(ms, e)[l] = Own(ls, e)[l] /\ Spent(ms, e)[l] = Spent(ls, e)[l]
      /\ Own(ms, e)[n] = IF r.etf = e THEN r.qty ELSE 0
      /\ Spent(ms, e)[n] = IF r.etf = e THEN r.cost ELSE 0
  BY <1>1, <1>2, <1>4, <1>5 DEF Own, Spent, S
<1>7. \A l \in S \cup {n} : Own(ms, e)[l] \in Int /\ Spent(ms, e)[l] \in Int
  BY <1>1, <1>2, OwnRows
<1>8. /\ Total(Own(ms, e), S \cup {n}) = Total(Own(ms, e), S) + Own(ms, e)[n]
      /\ Total(Spent(ms, e), S \cup {n}) = Total(Spent(ms, e), S) + Spent(ms, e)[n]
  BY <1>2, <1>7, SumAddsOne
<1>9. /\ Total(Own(ms, e), S) = Total(Own(ls, e), S)
      /\ Total(Spent(ms, e), S) = Total(Spent(ls, e), S)
  BY <1>2, <1>6, SumOfEqual
<1>10. /\ HeldIn(ms, e) = Total(Own(ms, e), S \cup {n})
       /\ CostIn(ms, e) = Total(Spent(ms, e), S \cup {n})
       /\ HeldIn(ls, e) = Total(Own(ls, e), S) /\ CostIn(ls, e) = Total(Spent(ls, e), S)
  BY <1>1, <1>2, OwnRows DEF S
<1> QED
  BY <1>1, <1>3, <1>6, <1>8, <1>9, <1>10 DEF ms, n

LEMMA FunctionOfLots ==
  ASSUME NEW n \in Nat, NEW ms, ms = [l \in 1 .. n |-> ms[l]], \A l \in 1 .. n : ms[l] \in LotRow
  PROVE  ms \in Seq(LotRow) /\ Len(ms) = n
<1>1. ms \in [1 .. n -> LotRow]
  OBVIOUS
<1>2. ms \in Seq(LotRow)
  BY <1>1
<1>3. Len(ms) = n
  BY LengthOfFunction
<1> QED
  BY <1>2, <1>3

(* A sale: what is taken from the lots is what is sold, and what it cost   *)
(* is what leaves the cost of the lots that remain.                        *)
CostTaken(take) == Total([l \in Rows |-> CostOf(l, take[l])], {l \in Rows : take[l] > 0})
LEMMA LotsTaken ==
  ASSUME lots \in Seq(LotRow), NEW e \in Etfs, NEW q \in Nat,
         NEW take \in [Rows -> 0 .. MaxShares], Fifo(take, e, q), NEW f
  PROVE  /\ Reduced(take) \in Seq(LotRow) /\ Len(Reduced(take)) = Len(lots)
         /\ HeldIn(lots, f) = HeldIn(Reduced(take), f) + (IF f = e THEN q ELSE 0)
         /\ CostTaken(take) \in Int
         /\ CostIn(lots, f) =
              CostIn(Reduced(take), f) + (IF f = e THEN CostTaken(take) ELSE 0)
         /\ Its(Reduced(take), f) \subseteq Its(lots, f)
         /\ \A l \in Rows : Reduced(take)[l].acquired = lots[l].acquired
<1> DEFINE ms == Reduced(take)
           n == Len(lots)
           cost == [l \in Rows |-> CostOf(l, take[l])]
           S == {l \in Rows : take[l] > 0}
           c == [l \in Rows |-> IF l \in S THEN cost[l] ELSE 0]
           none == [l \in Rows |-> 0]
<1>1. /\ n \in Nat /\ Rows = RowsOf(lots) /\ Rows = 1 .. n /\ IsFiniteSet(Rows)
      /\ \A l \in Rows : lots[l] \in LotRow
  BY RowsAreLots DEF Rows, RowsOf
<1>2. \A l \in Rows :
        /\ take[l] \in Nat
        /\ take[l] > 0 => l \in Its(lots, e) /\ take[l] <= lots[l].qty
  <2> SUFFICES ASSUME NEW l \in Rows
               PROVE  /\ take[l] \in Nat
                      /\ take[l] > 0 => l \in Its(lots, e) /\ take[l] <= lots[l].qty
    OBVIOUS
  <2>1. take[l] \in Nat /\ take[l] <= IF l \in Sellable(e) THEN lots[l].qty ELSE 0
    BY DEF Fifo
  <2> QED
    BY <2>1, TheTable DEF Sellable
<1>3. \A l \in Rows : take[l] > 0 =>
        /\ CostOf(l, take[l]) \in 0 .. lots[l].cost
        /\ take[l] = lots[l].qty => CostOf(l, take[l]) = lots[l].cost
  <2> SUFFICES ASSUME NEW l \in Rows, take[l] > 0
               PROVE  /\ CostOf(l, take[l]) \in 0 .. lots[l].cost
                      /\ take[l] = lots[l].qty => CostOf(l, take[l]) = lots[l].cost
    OBVIOUS
  <2>1. lots[l].cost \in Nat /\ lots[l].qty \in Nat \ {0} /\ take[l] \in 0 .. lots[l].qty
    BY <1>1, <1>2, LotType
  <2>2. (lots[l].cost * take[l]) \div lots[l].qty \in 0 .. lots[l].cost
    BY <2>1, PartOfCost
  <2> QED
    BY <2>1, <2>2 DEF CostOf
<1>4. ms = [l \in Rows |-> IF take[l] = 0 THEN lots[l]
             ELSE [lots[l] EXCEPT !.qty = lots[l].qty - take[l],
                                  !.cost = lots[l].cost - CostOf(l, take[l])]]
  BY DEF Reduced
<1> HIDE DEF ms, cost, S
<1>5. \A l \in Rows :
        /\ ms[l] \in LotRow /\ ms[l].etf = lots[l].etf /\ ms[l].acquired = lots[l].acquired
        /\ ms[l].qty = lots[l].qty - take[l]
        /\ ms[l].cost = lots[l].cost - (IF take[l] > 0 THEN CostOf(l, take[l]) ELSE 0)
  <2> SUFFICES ASSUME NEW l \in Rows
               PROVE  /\ ms[l] \in LotRow /\ ms[l].etf = lots[l].etf
                      /\ ms[l].acquired = lots[l].acquired
                      /\ ms[l].qty = lots[l].qty - take[l]
                      /\ ms[l].cost = lots[l].cost - (IF take[l] > 0 THEN CostOf(l, take[l]) ELSE 0)
    OBVIOUS
  <2>1. lots[l] \in LotRow /\ lots[l].qty \in Nat /\ lots[l].cost \in Nat
    BY <1>1, LotType
  <2>2. CASE take[l] = 0
    <3>1. ms[l] = lots[l]
      BY <1>4, <2>2
    <3>2. ~(take[l] > 0)
      BY <2>2
    <3> QED
      BY <2>1, <2>2, <3>1, <3>2
  <2>3. CASE take[l] # 0
    <3>1. take[l] > 0 /\ take[l] \in Nat
      BY <1>2, <2>3
    <3> DEFINE a == lots[l].qty - take[l]
               b == lots[l].cost - CostOf(l, take[l])
    <3>2. a \in Nat /\ b \in Nat
      BY <1>2, <1>3, <2>1, <3>1
    <3>3. ms[l] = [lots[l] EXCEPT !.qty = a, !.cost = b]
      BY <1>4, <2>3
    <3> HIDE DEF a, b
    <3>4. /\ ms[l] \in LotRow /\ ms[l].etf = lots[l].etf /\ ms[l].acquired = lots[l].acquired
          /\ ms[l].qty = a /\ ms[l].cost = b
      BY <2>1, <3>2, <3>3 DEF LotRow
    <3> QED
      BY <3>1, <3>4 DEF a, b
  <2> QED
    BY <2>2, <2>3
<1>6. ms \in Seq(LotRow) /\ Len(ms) = n
  <2>1. ms = [l \in 1 .. n |-> ms[l]]
    BY <1>1, <1>4
  <2> QED
    BY <1>1, <1>5, <2>1, FunctionOfLots
<1>7. RowsOf(ms) = Rows
  BY <1>1, <1>6 DEF RowsOf
<1>8. \A g : \A l \in Rows : l \in Its(ms, g) <=> l \in Its(lots, g) /\ take[l] # lots[l].qty
  <2> SUFFICES ASSUME NEW g, NEW l \in Rows
               PROVE  l \in Its(ms, g) <=> l \in Its(lots, g) /\ take[l] # lots[l].qty
    OBVIOUS
  <2>1. lots[l].qty \in Nat /\ take[l] \in Nat /\ take[l] <= lots[l].qty
    BY <1>1, <1>2, LotType
  <2> QED
    BY <1>1, <1>5, <1>7, <2>1 DEF Its
<1>9. Its(ms, f) \subseteq Its(lots, f)
  BY <1>7, <1>8 DEF Its
<1>10. \A l \in Rows : /\ c[l] \in Int /\ none[l] = 0
                       /\ c[l] = IF take[l] > 0 THEN CostOf(l, take[l]) ELSE 0
                       /\ l \in S => c[l] = cost[l]
                       /\ l \notin S => c[l] = 0
  BY <1>3 DEF cost, S
<1> HIDE DEF c, none
<1>11. CostTaken(take) = Total(c, Rows) /\ CostTaken(take) \in Int
  <2>1. S \in SUBSET Rows /\ IsFiniteSet(S)
    BY <1>1, FS_Subset DEF S
  <2>2. Total(cost, S) = Total(c, S)
    BY <1>10, <2>1, SumOfEqual
  <2>3. Total(c, Rows) = Total(c, S)
    BY <1>1, <1>10, <2>1, SumOfSupport
  <2>4. CostTaken(take) = Total(cost, S)
    BY DEF CostTaken, cost, S
  <2>5. Total(c, Rows) \in Int
    BY <1>1, <1>10, SumIsInt
  <2> QED
    BY <2>2, <2>3, <2>4, <2>5
<1>12. CASE f = e
  <2>1. \A l \in Rows : Own(lots, f)[l] = Own(ms, f)[l] + take[l]
    <3> SUFFICES ASSUME NEW l \in Rows PROVE Own(lots, f)[l] = Own(ms, f)[l] + take[l]
      OBVIOUS
    <3>1. lots[l].qty \in Nat /\ take[l] \in Nat /\ (take[l] > 0 => l \in Its(lots, f))
      BY <1>1, <1>2, <1>12, LotType
    <3> QED
      BY <1>1, <1>5, <1>7, <1>8, <3>1 DEF Own
  <2>2. \A l \in Rows : Spent(lots, f)[l] = Spent(ms, f)[l] + c[l]
    <3> SUFFICES ASSUME NEW l \in Rows PROVE Spent(lots, f)[l] = Spent(ms, f)[l] + c[l]
      OBVIOUS
    <3>1. lots[l].cost \in Nat /\ take[l] \in Nat /\ (take[l] > 0 => l \in Its(lots, f))
      BY <1>1, <1>2, <1>12, LotType
    <3>2. c[l] = IF take[l] > 0 THEN CostOf(l, take[l]) ELSE 0
      BY <1>10
    <3>3. l \in Its(lots, f) => lots[l].qty > 0
      BY DEF Its
    <3>4. CASE take[l] > 0
      <4>1. l \in Its(lots, f) /\ Spent(lots, f)[l] = lots[l].cost
        BY <1>1, <3>1, <3>4 DEF Spent
      <4>2. CASE take[l] = lots[l].qty
        <5>1. Spent(ms, f)[l] = 0
          BY <1>7, <1>8, <4>2 DEF Spent
        <5> QED
          BY <1>3, <3>1, <3>2, <3>4, <4>1, <4>2, <5>1
      <4>3. CASE take[l] # lots[l].qty
        <5>1. Spent(ms, f)[l] = ms[l].cost
          BY <1>7, <1>8, <4>1, <4>3 DEF Spent
        <5>2. CostOf(l, take[l]) \in Int
          BY <1>3, <3>4
        <5> QED
          BY <1>5, <3>1, <3>2, <3>4, <4>1, <5>1, <5>2
      <4> QED
        BY <4>2, <4>3
    <3>5. CASE ~(take[l] > 0)
      <4>1. l \in Its(ms, f) <=> l \in Its(lots, f)
        BY <1>8, <3>1, <3>3, <3>5
      <4>2. ms[l].cost = lots[l].cost /\ c[l] = 0
        BY <1>5, <3>1, <3>2, <3>5
      <4> QED
        BY <1>1, <1>7, <3>1, <4>1, <4>2 DEF Spent
    <3> QED
      BY <3>4, <3>5
  <2>3. HeldIn(lots, f) = HeldIn(ms, f) + Total(take, Rows)
    <3>1. /\ \A l \in RowsOf(ms) : take[l] \in Int
          /\ \A l \in RowsOf(ms) : Own(lots, f)[l] = Own(ms, f)[l] + take[l]
      BY <1>2, <1>7, <2>1
    <3>2. HeldIn(lots, f) = HeldIn(ms, f) + Total(take, RowsOf(ms))
      BY <1>6, <3>1, HeldChangesBy
    <3> QED
      BY <1>7, <3>2
  <2>4. CostIn(lots, f) = CostIn(ms, f) + Total(c, Rows)
    <3>1. /\ \A l \in RowsOf(ms) : c[l] \in Int
          /\ \A l \in RowsOf(ms) : Spent(lots, f)[l] = Spent(ms, f)[l] + c[l]
      BY <1>7, <1>10, <2>2
    <3>2. CostIn(lots, f) = CostIn(ms, f) + Total(c, RowsOf(ms))
      BY <1>6, <3>1, CostChangesBy
    <3> QED
      BY <1>7, <3>2
  <2>5. Total(take, Rows) = q
    BY DEF Fifo
  <2> QED
    BY <1>5, <1>6, <1>9, <1>11, <1>12, <2>3, <2>4, <2>5 DEF ms
<1>13. CASE f # e
  <2>1. \A l \in Rows : l \in Its(lots, f) => take[l] = 0
    BY <1>2, <1>13 DEF Its
  <2>2. \A l \in Rows : /\ Own(lots, f)[l] = Own(ms, f)[l] + none[l]
                        /\ Spent(lots, f)[l] = Spent(ms, f)[l] + none[l]
    <3> SUFFICES ASSUME NEW l \in Rows
                 PROVE  /\ Own(lots, f)[l] = Own(ms, f)[l] + none[l]
                        /\ Spent(lots, f)[l] = Spent(ms, f)[l] + none[l]
      OBVIOUS
    <3>1. lots[l].qty \in Nat /\ lots[l].cost \in Nat
      BY <1>1, LotType
    <3>2. l \in Its(ms, f) <=> l \in Its(lots, f)
      <4>1. l \in Its(ms, f) <=> l \in Its(lots, f) /\ take[l] # lots[l].qty
        BY <1>8
      <4>2. l \in Its(lots, f) => lots[l].qty > 0
        BY DEF Its
      <4>3. l \in Its(lots, f) => take[l] # lots[l].qty
        BY <2>1, <3>1, <4>2
      <4> QED
        BY <4>1, <4>3
    <3>3. l \in Its(lots, f) => ms[l].qty = lots[l].qty /\ ms[l].cost = lots[l].cost
      BY <1>5, <2>1, <3>1
    <3> QED
      BY <1>1, <1>7, <1>10, <3>1, <3>2, <3>3 DEF Own, Spent
  <2>3. Total(none, Rows) = 0
    BY <1>1, <1>10, SumOfZeros
  <2>4. /\ HeldIn(lots, f) = HeldIn(ms, f) + Total(none, Rows)
        /\ CostIn(lots, f) = CostIn(ms, f) + Total(none, Rows)
    <3>1. /\ \A l \in RowsOf(ms) : none[l] \in Int
          /\ \A l \in RowsOf(ms) : Own(lots, f)[l] = Own(ms, f)[l] + none[l]
          /\ \A l \in RowsOf(ms) : Spent(lots, f)[l] = Spent(ms, f)[l] + none[l]
      BY <1>7, <1>10, <2>2
    <3>2. HeldIn(lots, f) = HeldIn(ms, f) + Total(none, RowsOf(ms))
      BY <1>6, <3>1, HeldChangesBy
    <3>3. CostIn(lots, f) = CostIn(ms, f) + Total(none, RowsOf(ms))
      BY <1>6, <3>1, CostChangesBy
    <3> QED
      BY <1>7, <3>2, <3>3
  <2> QED
    BY <1>5, <1>6, <1>9, <1>11, <1>13, <2>3, <2>4 DEF ms
<1> QED
  BY <1>12, <1>13

LEMMA ExactQuotient ==
  ASSUME NEW a \in Nat \ {0}, NEW b \in Nat \ {0}, a % b = 0
  PROVE  a \div b \in Nat \ {0} /\ b * (a \div b) = a
<1>1. a \div b \in Nat
  BY Quotient
<1>2. (a \div b) * b = a
  BY QuotientExact
<1> QED
  BY <1>1, <1>2

LEMMA ProductIsPositive ==
  ASSUME NEW a \in Nat \ {0}, NEW b \in Nat \ {0}
  PROVE  a * b \in Nat \ {0}
OBVIOUS

(* A split: the lots of the ETF that are older than it, each one scaled to *)
(* a whole number of shares; what they cost is not touched.                *)
Split(s) == [l \in Rows |-> IF l \in OldLots(s)
                            THEN [lots[l] EXCEPT !.qty = Scaled(s, @)] ELSE lots[l]]
Added(s) == Total([l \in Rows |-> Scaled(s, lots[l].qty) - lots[l].qty], OldLots(s))
LEMMA LotsScaled ==
  ASSUME lots \in Seq(LotRow), NEW s \in Splits,
         \A l \in OldLots(s) : (lots[l].qty * s.num) % s.den = 0, NEW f
  PROVE  /\ Split(s) \in Seq(LotRow) /\ Len(Split(s)) = Len(lots)
         /\ Added(s) \in Int
         /\ HeldIn(Split(s), f) = HeldIn(lots, f) + (IF f = s.etf THEN Added(s) ELSE 0)
         /\ CostIn(Split(s), f) = CostIn(lots, f)
         /\ Its(Split(s), f) = Its(lots, f)
         /\ \A l \in Rows : Split(s)[l].acquired = lots[l].acquired
         /\ Its(lots, s.etf) \subseteq OldLots(s) =>
              s.den * HeldIn(Split(s), s.etf) = s.num * HeldIn(lots, s.etf)
<1> DEFINE ms == Split(s)
           n == Len(lots)
           old == OldLots(s)
           more == [l \in Rows |-> Scaled(s, lots[l].qty) - lots[l].qty]
           d == [l \in Rows |-> IF l \in old THEN more[l] ELSE 0]
           none == [l \in Rows |-> 0]
<1>1. /\ n \in Nat /\ Rows = RowsOf(lots) /\ Rows = 1 .. n /\ IsFiniteSet(Rows)
      /\ \A l \in Rows : lots[l] \in LotRow
  BY RowsAreLots DEF Rows, RowsOf
<1>2. s.num \in Nat \ {0} /\ s.den \in Nat \ {0}
  BY LedgerAssumption
<1>3. \A l \in old : /\ l \in Rows /\ lots[l].etf = s.etf /\ lots[l].qty \in Nat \ {0}
                     /\ Scaled(s, lots[l].qty) \in Nat \ {0}
                     /\ s.den * Scaled(s, lots[l].qty) = s.num * lots[l].qty
  <2> SUFFICES ASSUME NEW l \in old
               PROVE  /\ l \in Rows /\ lots[l].etf = s.etf /\ lots[l].qty \in Nat \ {0}
                      /\ Scaled(s, lots[l].qty) \in Nat \ {0}
                      /\ s.den * Scaled(s, lots[l].qty) = s.num * lots[l].qty
    OBVIOUS
  <2>1. l \in Rows /\ lots[l].etf = s.etf /\ lots[l].qty > 0
    BY DEF OldLots
  <2>2. lots[l].qty \in Nat \ {0}
    BY <1>1, <2>1, LotType
  <2>3. lots[l].qty * s.num \in Nat \ {0} /\ (lots[l].qty * s.num) % s.den = 0
    BY <1>2, <2>2, ProductIsPositive
  <2>4. /\ Scaled(s, lots[l].qty) \in Nat \ {0}
        /\ s.den * Scaled(s, lots[l].qty) = lots[l].qty * s.num
    BY <1>2, <2>3, ExactQuotient DEF Scaled
  <2> QED
    BY <1>2, <2>1, <2>2, <2>4
<1>4. ms = [l \in Rows |-> IF l \in old THEN [lots[l] EXCEPT !.qty = Scaled(s, lots[l].qty)]
                           ELSE lots[l]]
  BY DEF Split
<1>5. Added(s) = Total(more, old)
  BY DEF Added
<1> HIDE DEF ms, old
<1>6. \A l \in Rows :
        /\ ms[l] \in LotRow /\ ms[l].etf = lots[l].etf /\ ms[l].acquired = lots[l].acquired
        /\ ms[l].qty = IF l \in old THEN Scaled(s, lots[l].qty) ELSE lots[l].qty
        /\ ms[l].cost = lots[l].cost
  <2> SUFFICES ASSUME NEW l \in Rows
               PROVE  /\ ms[l] \in LotRow /\ ms[l].etf = lots[l].etf
                      /\ ms[l].acquired = lots[l].acquired
                      /\ ms[l].qty = IF l \in old THEN Scaled(s, lots[l].qty) ELSE lots[l].qty
                      /\ ms[l].cost = lots[l].cost
    OBVIOUS
  <2>1. lots[l] \in LotRow
    BY <1>1
  <2>2. CASE l \in old
    <3> DEFINE a == Scaled(s, lots[l].qty)
    <3>1. a \in Nat
      BY <1>3, <2>2
    <3>2. ms[l] = [lots[l] EXCEPT !.qty = a]
      BY <1>4, <2>2
    <3> HIDE DEF a
    <3>3. /\ ms[l] \in LotRow /\ ms[l].etf = lots[l].etf /\ ms[l].acquired = lots[l].acquired
          /\ ms[l].qty = a /\ ms[l].cost = lots[l].cost
      BY <2>1, <3>1, <3>2 DEF LotRow
    <3> QED
      BY <2>2, <3>3 DEF a
  <2>3. CASE l \notin old
    <3>1. ms[l] = lots[l]
      BY <1>4, <2>3
    <3> QED
      BY <2>1, <2>3, <3>1
  <2> QED
    BY <2>2, <2>3
<1>7. ms \in Seq(LotRow) /\ Len(ms) = n
  <2>1. ms = [l \in 1 .. n |-> ms[l]]
    BY <1>1, <1>4
  <2> QED
    BY <1>1, <1>6, <2>1, FunctionOfLots
<1>8. RowsOf(ms) = Rows
  BY <1>1, <1>7 DEF RowsOf
<1>9. \A l \in Rows : ms[l].qty > 0 <=> lots[l].qty > 0
  BY <1>3, <1>6
<1>10. \A g : Its(ms, g) = Its(lots, g)
  BY <1>1, <1>6, <1>8, <1>9 DEF Its
<1>16. /\ \A g : /\ HeldIn(lots, g) = Total(Own(lots, g), Rows)
                  /\ HeldIn(ms, g) = Total(Own(ms, g), Rows)
                  /\ HeldIn(lots, g) \in Int
       /\ \A g : \A l \in Rows : Own(lots, g)[l] \in Int /\ Own(ms, g)[l] \in Int
  <2> SUFFICES ASSUME NEW g
               PROVE  /\ HeldIn(lots, g) = Total(Own(lots, g), Rows)
                      /\ HeldIn(ms, g) = Total(Own(ms, g), Rows)
                      /\ HeldIn(lots, g) \in Int
                      /\ \A l \in Rows : Own(lots, g)[l] \in Int /\ Own(ms, g)[l] \in Int
    OBVIOUS
  <2>1. /\ HeldIn(lots, g) = Total(Own(lots, g), Rows) /\ HeldIn(lots, g) \in Nat
        /\ \A l \in Rows : Own(lots, g)[l] \in Nat
    BY <1>1, OwnRows
  <2>2. /\ HeldIn(ms, g) = Total(Own(ms, g), Rows)
        /\ \A l \in Rows : Own(ms, g)[l] \in Nat
    BY <1>7, <1>8, OwnRows
  <2> QED
    BY <2>1, <2>2
<1>11. /\ \A l \in Rows : d[l] \in Int /\ none[l] = 0 /\ none[l] \in Int
       /\ \A l \in old : d[l] = more[l] /\ more[l] = Scaled(s, lots[l].qty) - lots[l].qty
       /\ \A l \in Rows \ old : d[l] = 0
  BY <1>3
<1> HIDE DEF d, none, more
<1>12. Added(s) = Total(d, Rows) /\ Added(s) \in Int
  <2>1. old \in SUBSET Rows /\ IsFiniteSet(old)
    BY <1>1, <1>3, FS_Subset
  <2>2. Total(more, old) = Total(d, old)
    BY <1>11, <2>1, SumOfEqual
  <2>3. Total(d, Rows) = Total(d, old)
    BY <1>1, <1>11, <2>1, SumOfSupport
  <2>4. Total(d, Rows) \in Int
    BY <1>1, <1>11, SumIsInt
  <2> QED
    BY <1>5, <2>2, <2>3, <2>4
<1>13. HeldIn(ms, f) = HeldIn(lots, f) + (IF f = s.etf THEN Added(s) ELSE 0)
  <2>1. CASE f = s.etf
    <3>1. \A l \in Rows : Own(ms, f)[l] = Own(lots, f)[l] + d[l]
      <4> SUFFICES ASSUME NEW l \in Rows PROVE Own(ms, f)[l] = Own(lots, f)[l] + d[l]
        OBVIOUS
      <4>1. lots[l].qty \in Nat
        BY <1>1, LotType
      <4>2. CASE l \in old
        <5>1. l \in Its(lots, f)
          BY <1>1, <1>3, <2>1, <4>2 DEF Its
        <5>2. Own(ms, f)[l] = ms[l].qty /\ Own(lots, f)[l] = lots[l].qty
          BY <1>1, <1>8, <1>10, <5>1 DEF Own
        <5>3. ms[l].qty = Scaled(s, lots[l].qty) /\ Scaled(s, lots[l].qty) \in Int
          BY <1>3, <1>6, <4>2
        <5> QED
          BY <1>11, <4>1, <4>2, <5>2, <5>3
      <4>3. CASE l \notin old
        <5>1. ms[l].qty = lots[l].qty /\ d[l] = 0
          BY <1>6, <1>11, <4>3
        <5> QED
          BY <1>1, <1>8, <1>10, <4>1, <5>1 DEF Own
      <4> QED
        BY <4>2, <4>3
    <3>2. HeldIn(ms, f) = HeldIn(lots, f) + Total(d, Rows)
      <4>1. /\ \A l \in RowsOf(lots) : d[l] \in Int
            /\ \A l \in RowsOf(lots) : Own(ms, f)[l] = Own(lots, f)[l] + d[l]
        BY <1>1, <1>11, <3>1
      <4>2. HeldIn(ms, f) = HeldIn(lots, f) + Total(d, RowsOf(lots))
        BY <1>7, <4>1, HeldChangesBy
      <4> QED
        BY <1>1, <4>2
    <3> QED
      BY <1>12, <2>1, <3>2
  <2>2. CASE f # s.etf
    <3>1. \A l \in Rows : Own(ms, f)[l] = Own(lots, f)[l]
      <4> SUFFICES ASSUME NEW l \in Rows PROVE Own(ms, f)[l] = Own(lots, f)[l]
        OBVIOUS
      <4>1. l \in Its(lots, f) => ms[l].qty = lots[l].qty
        BY <1>3, <1>6, <2>2 DEF Its
      <4> QED
        BY <1>1, <1>8, <1>10, <4>1 DEF Own
    <3>2. Total(Own(ms, f), Rows) = Total(Own(lots, f), Rows)
      BY <1>1, <3>1, SumOfEqual
    <3> QED
      BY <1>16, <2>2, <3>2
  <2> QED
    BY <2>1, <2>2
<1>14. CostIn(ms, f) = CostIn(lots, f)
  <2>1. \A l \in Rows : Spent(ms, f)[l] = Spent(lots, f)[l]
    BY <1>1, <1>6, <1>8, <1>10 DEF Spent
  <2>2. Total(Spent(ms, f), Rows) = Total(Spent(lots, f), Rows)
    BY <1>1, <2>1, SumOfEqual
  <2> QED
    BY <1>1, <1>7, <1>8, <2>2, OwnRows
<1>15. ASSUME Its(lots, s.etf) \subseteq old
       PROVE  s.den * HeldIn(ms, s.etf) = s.num * HeldIn(lots, s.etf)
  <2>1. \A l \in Rows : /\ Own(lots, s.etf)[l] \in Int /\ Own(ms, s.etf)[l] \in Int
                        /\ s.den * Own(ms, s.etf)[l] = s.num * Own(lots, s.etf)[l]
    <3> SUFFICES ASSUME NEW l \in Rows
                 PROVE  /\ Own(lots, s.etf)[l] \in Int /\ Own(ms, s.etf)[l] \in Int
                        /\ s.den * Own(ms, s.etf)[l] = s.num * Own(lots, s.etf)[l]
      OBVIOUS
    <3>1. Own(lots, s.etf)[l] \in Int /\ Own(ms, s.etf)[l] \in Int
      BY <1>16
    <3>2. CASE l \in Its(lots, s.etf)
      <4>1. l \in old
        BY <1>15, <3>2
      <4>2. Own(ms, s.etf)[l] = ms[l].qty /\ Own(lots, s.etf)[l] = lots[l].qty
        BY <1>1, <1>8, <1>10, <3>2 DEF Own
      <4>3. ms[l].qty = Scaled(s, lots[l].qty)
        BY <1>6, <4>1
      <4> QED
        BY <1>3, <3>1, <4>1, <4>2, <4>3
    <3>3. CASE l \notin Its(lots, s.etf)
      <4>1. Own(ms, s.etf)[l] = 0 /\ Own(lots, s.etf)[l] = 0
        BY <1>1, <1>8, <1>10, <3>3 DEF Own
      <4> QED
        BY <1>2, <4>1
    <3> QED
      BY <3>2, <3>3
  <2>2. s.den * Total(Own(ms, s.etf), Rows) = s.num * Total(Own(lots, s.etf), Rows)
    <3>1. s.num \in Int /\ s.den \in Int
      BY <1>2
    <3> QED
      BY <1>1, <2>1, <3>1, SumScales
  <2> QED
    BY <1>16, <2>2
<1> QED
  BY <1>6, <1>7, <1>10, <1>12, <1>13, <1>14, <1>15 DEF ms, old

----------------------------------------------------------------------------
(* The types, those of the tables TypeOK leaves to the sums included.      *)
Typed ==
  /\ TypeOK
  /\ held \in [Etfs -> [1 .. Days -> Int]] /\ basis \in [Etfs -> Int]
  /\ real \in [Etfs -> Int] /\ due \in [Dividends -> Int]

LEMMA OrderType ==
  ASSUME Typed, NEW e \in Etfs
  PROVE  /\ orders[e] \in OrderRow /\ orders[e].side \in Side
         /\ orders[e].left \in Nat /\ orders[e].gross \in Nat /\ orders[e].fee \in Nat
         /\ orders[e].open \in BOOLEAN /\ orders[e].seen \in BOOLEAN
         /\ price[e] \in Nat /\ room[e] \in Nat
BY DEF Typed, TypeOK, OrderRow

LEMMA AddedFrom ==
  ASSUME NEW f \in [1 .. Days -> Int], NEW n \in Int, NEW q \in Int
  PROVE  [d \in 1 .. Days |-> IF d >= n THEN f[d] + q ELSE f[d]] \in [1 .. Days -> Int]
<1>1. \A d \in 1 .. Days : (IF d >= n THEN f[d] + q ELSE f[d]) \in Int
  OBVIOUS
<1> QED
  BY <1>1

(* A fill is no more than the order has left and the quote has room for.   *)
LEMMA FilledFits ==
  ASSUME Typed, NEW e \in Etfs, NEW q \in 1 .. MaxShares, Filled(e, q)
  PROVE  /\ q \in Nat \ {0} /\ q <= orders[e].left /\ q <= room[e]
         /\ FeeOf(e, q) \in Nat /\ price[e] * q \in Nat
<1>1. /\ q \in Nat \ {0} /\ orders[e].left \in Nat /\ room[e] \in Nat
      /\ orders[e].gross \in Nat /\ orders[e].fee \in Nat /\ price[e] \in Nat
  BY OrderType, LedgerAssumption
<1>2. price[e] * q \in Nat
  BY <1>1, ProductIsNat
<1>3. FeeOf(e, q) \in Nat
  <2>1. orders[e].gross + price[e] * q \in Nat
    BY <1>1, <1>2
  <2>2. FeeFor(orders[e].gross + price[e] * q) \in Nat
    BY <2>1, FeeIsNat
  <2> QED
    BY <1>1, <2>2 DEF FeeOf, Most
<1>4. q <= orders[e].left /\ q <= room[e]
  <2>1. CASE Sale(orders[e])
    <3> DEFINE can == Shares(Sellable(e))
               r == Least(Least(orders[e].left, room[e]), can)
    <3>1. q = SaleQuantity(e)
      BY <2>1 DEF Filled
    <3>2. q = r \/ q = Lots(r)
      BY <3>1 DEF SaleQuantity
    <3>3. can \in Nat
      <4> DEFINE T == Sellable(e)
      <4>1. lots \in Seq(LotRow) /\ T \subseteq Its(lots, e) /\ T \subseteq RowsOf(lots)
        BY TheTable DEF Typed, TypeOK, Sellable, Its
      <4>2. IsFiniteSet(T)
        BY <4>1, RowsAreLots, FS_Subset
      <4>3. \A l \in T : Quantity[l] \in Nat
        BY <4>1, RowsAreLots, LotType DEF Quantity, Rows, RowsOf
      <4> HIDE DEF T
      <4>4. Total(Quantity, T) \in Nat
        BY <4>2, <4>3, SumIsNat
      <4> QED
        BY <4>4 DEF Shares, T
    <3> HIDE DEF can
    <3>4. r \in Nat /\ r <= orders[e].left /\ r <= room[e]
      BY <1>1, <3>3 DEF Least
    <3> HIDE DEF r
    <3>5. Lots(r) \in 0 .. r
      BY <3>4, LotsRounds
    <3> QED
      BY <1>1, <3>2, <3>4, <3>5
  <2>2. CASE ~Sale(orders[e])
    BY <2>2 DEF Filled, Fits
  <2> QED
    BY <2>1, <2>2
<1> QED
  BY <1>1, <1>2, <1>3, <1>4

(* The order row, the quote and the position ledger after a fill.          *)
LEMMA ExecutedTyped ==
  ASSUME Typed, NEW e \in Etfs, NEW q \in 1 .. MaxShares, Filled(e, q),
         Executed(e, q, FeeOf(e, q))
  PROVE  orders' \in [Etfs -> OrderRow] /\ room' \in [Etfs -> Nat] /\ fills' \in Nat
<1>1. /\ q \in Nat /\ q <= orders[e].left /\ q <= room[e]
      /\ FeeOf(e, q) \in Nat /\ price[e] * q \in Nat
  BY FilledFits
<1>2. /\ orders[e] \in OrderRow /\ orders[e].left \in Nat /\ orders[e].gross \in Nat
      /\ orders[e].fee \in Nat /\ room[e] \in Nat
  BY OrderType
<1>3. room' \in [Etfs -> Nat] /\ fills' \in Nat
  <2>1. room[e] - q \in Nat
    BY <1>1, <1>2
  <2>2. room' = [room EXCEPT ![e] = room[e] - q] /\ fills' = fills + 1
    BY DEF Executed
  <2> QED
    BY <2>1, <2>2 DEF Typed, TypeOK
<1>4. orders' \in [Etfs -> OrderRow]
  <2> DEFINE a == orders[e].left - q
             b == orders[e].gross + price[e] * q
             c == orders[e].fee + FeeOf(e, q)
             row == IF q = orders[e].left THEN NoOrder
                    ELSE [orders[e] EXCEPT !.left = a, !.seen = TRUE, !.gross = b, !.fee = c]
  <2>1. a \in Nat /\ b \in Nat /\ c \in Nat
    BY <1>1, <1>2
  <2>2. orders' = [orders EXCEPT ![e] = row]
    BY DEF Executed
  <2>3. row \in OrderRow
    <3>1. NoOrder \in OrderRow
      BY DEF NoOrder, OrderRow, Side
    <3> HIDE DEF a, b, c
    <3>2. [orders[e] EXCEPT !.left = a, !.seen = TRUE, !.gross = b, !.fee = c] \in OrderRow
      BY <1>2, <2>1 DEF OrderRow
    <3> QED
      BY <3>1, <3>2
  <2> HIDE DEF row
  <2> QED
    BY <2>2, <2>3 DEF Typed, TypeOK
<1> QED
  BY <1>3, <1>4

LEMMA MoveTyped ==
  ASSUME Typed, NEW e \in Etfs, NEW q \in Int, Move(e, q)
  PROVE  held' \in [Etfs -> [1 .. Days -> Int]] /\ real' \in [Etfs -> Int]
<1>1. held' = [held EXCEPT ![e] =
                 [d \in 1 .. Days |-> IF d >= day THEN held[e][d] + q ELSE held[e][d]]]
  BY DEF Move
<1>2. [d \in 1 .. Days |-> IF d >= day THEN held[e][d] + q ELSE held[e][d]]
        \in [1 .. Days -> Int]
  <2>1. held[e] \in [1 .. Days -> Int] /\ day \in Int
    BY DEF Typed, TypeOK
  <2> QED
    BY <2>1, AddedFrom
<1>3. held' \in [Etfs -> [1 .. Days -> Int]]
  BY <1>1, <1>2 DEF Typed
<1> QED
  BY <1>3 DEF Move, Typed

LEMMA FillBuyTyped ==
  ASSUME Typed, NEW e \in Etfs, NEW q \in 1 .. MaxShares, Filled(e, q), FillBuy(e, q)
  PROVE  /\ orders' \in [Etfs -> OrderRow] /\ room' \in [Etfs -> Nat] /\ fills' \in Nat
         /\ held' \in [Etfs -> [1 .. Days -> Int]] /\ real' \in [Etfs -> Int]
         /\ lots' \in Seq(LotRow) /\ basis' \in [Etfs -> Int]
         /\ cash' \in Int /\ net' \in Int
<1> DEFINE paid == price[e] * q + FeeOf(e, q)
           row == [etf |-> e, acquired |-> day, avail |-> day + Settlement[e],
                   qty |-> q, cost |-> paid]
<1>1. q \in Nat /\ paid \in Nat
  BY FilledFits
<1>2. row \in LotRow
  <2>1. day + Settlement[e] \in Nat /\ day \in 1 .. Days
    <3>1. Settlement[e] \in {0, 1} /\ Days \in Nat /\ day \in 1 .. Days
      BY LedgerAssumption DEF Typed, TypeOK
    <3> QED
      BY <3>1
  <2> HIDE DEF paid
  <2> QED
    BY <1>1, <2>1 DEF LotRow
<1>3. /\ lots' = Append(lots, row) /\ cash' = cash - paid /\ net' = net - paid
      /\ basis' = [basis EXCEPT ![e] = basis[e] + paid]
      /\ Executed(e, q, FeeOf(e, q)) /\ Move(e, q)
  BY DEF FillBuy
<1> HIDE DEF row, paid
<1>4. lots' \in Seq(LotRow) /\ basis' \in [Etfs -> Int] /\ cash' \in Int /\ net' \in Int
  BY <1>1, <1>2, <1>3, AppendProperties DEF Typed, TypeOK
<1> QED
  BY <1>1, <1>3, <1>4, ExecutedTyped, MoveTyped

LEMMA FillSaleTyped ==
  ASSUME Typed, NEW e \in Etfs, NEW q \in 1 .. MaxShares, Filled(e, q), FillSale(e, q)
  PROVE  /\ orders' \in [Etfs -> OrderRow] /\ room' \in [Etfs -> Nat] /\ fills' \in Nat
         /\ held' \in [Etfs -> [1 .. Days -> Int]] /\ real' \in [Etfs -> Int]
         /\ lots' \in Seq(LotRow) /\ basis' \in [Etfs -> Int]
         /\ cash' \in Int /\ net' \in Int
<1> DEFINE got == price[e] * q - FeeOf(e, q)
<1>1. q \in Nat /\ got \in Int
  BY FilledFits
<1>2. PICK take \in [Rows -> 0 .. MaxShares] :
        /\ Fifo(take, e, q) /\ lots' = Reduced(take)
        /\ basis' = [basis EXCEPT ![e] = basis[e] - CostTaken(take)]
  BY DEF FillSale, CostTaken
<1>3. lots' \in Seq(LotRow) /\ CostTaken(take) \in Int
  BY <1>1, <1>2, LotsTaken DEF Typed, TypeOK
<1>4. basis' \in [Etfs -> Int]
  BY <1>2, <1>3 DEF Typed
<1>5. Executed(e, q, FeeOf(e, q)) /\ Move(e, -q) /\ -q \in Int
  BY <1>1 DEF FillSale
<1>6. cash' \in Int /\ net' \in Int
  BY <1>1 DEF FillSale, Typed, TypeOK
<1> QED
  BY <1>3, <1>4, <1>5, <1>6, ExecutedTyped, MoveTyped

(* What applying a split does to the tables, in full.                      *)
LEMMA ApplySplitSays ==
  ASSUME NEW s \in Splits, ApplySplit(s)
  PROVE  \/ s.ex > day /\ UNCHANGED <<frozen, status, orders, lots, held>>
         \/ /\ s.ex <= day /\ frozen' = [frozen EXCEPT ![s.etf] = TRUE]
            /\ UNCHANGED <<status, orders, lots, held>>
         \/ /\ s.ex <= day /\ \A l \in OldLots(s) : (lots[l].qty * s.num) % s.den = 0
            /\ lots' = Split(s)
            /\ held' = [held EXCEPT ![s.etf] =
                 [d \in 1 .. Days |-> IF d >= s.ex THEN held[s.etf][d] + Added(s)
                                      ELSE held[s.etf][d]]]
            /\ status' = [status EXCEPT ![s] = "applied"]
            /\ orders' = Ended(s.etf) /\ UNCHANGED frozen
BY DEF ApplySplit, Split, Added

LEMMA EndedTyped ==
  ASSUME Typed, NEW e \in Etfs PROVE Ended(e) \in [Etfs -> OrderRow]
BY DEF Typed, TypeOK, Ended, NoOrder, OrderRow, Side

LEMMA ApplySplitTyped ==
  ASSUME Typed, NEW s \in Splits, ApplySplit(s)
  PROVE  /\ frozen' \in [Etfs -> BOOLEAN] /\ status' \in [Actions -> Status]
         /\ orders' \in [Etfs -> OrderRow] /\ lots' \in Seq(LotRow)
         /\ held' \in [Etfs -> [1 .. Days -> Int]]
<1>1. s.etf \in Etfs /\ s \in Actions
  BY LedgerAssumption DEF Actions
<1> USE DEF Typed, TypeOK
<1>2. CASE s.ex > day /\ UNCHANGED <<frozen, status, orders, lots, held>>
  BY <1>2
<1>3. CASE /\ frozen' = [frozen EXCEPT ![s.etf] = TRUE]
           /\ UNCHANGED <<status, orders, lots, held>>
  BY <1>1, <1>3
<1>4. CASE /\ s.ex <= day /\ \A l \in OldLots(s) : (lots[l].qty * s.num) % s.den = 0
           /\ lots' = Split(s)
           /\ held' = [held EXCEPT ![s.etf] =
                [d \in 1 .. Days |-> IF d >= s.ex THEN held[s.etf][d] + Added(s)
                                     ELSE held[s.etf][d]]]
           /\ status' = [status EXCEPT ![s] = "applied"]
           /\ orders' = Ended(s.etf) /\ UNCHANGED frozen
  <2>1. Split(s) \in Seq(LotRow) /\ Added(s) \in Int
    BY <1>4, LotsScaled
  <2>2. [d \in 1 .. Days |-> IF d >= s.ex THEN held[s.etf][d] + Added(s) ELSE held[s.etf][d]]
          \in [1 .. Days -> Int]
    <3> DEFINE f == held[s.etf]
               n == s.ex
               q == Added(s)
    <3>1. f \in [1 .. Days -> Int] /\ n \in Int /\ q \in Int
      BY <1>1, <2>1, LedgerAssumption
    <3> HIDE DEF f, n, q
    <3>2. [d \in 1 .. Days |-> IF d >= n THEN f[d] + q ELSE f[d]] \in [1 .. Days -> Int]
      BY <3>1, AddedFrom
    <3> QED
      BY <3>2 DEF f, n, q
  <2>3. held' \in [Etfs -> [1 .. Days -> Int]]
    BY <1>4, <2>2
  <2>4. status' \in [Actions -> Status]
    BY <1>1, <1>4 DEF Status
  <2> QED
    BY <1>1, <1>4, <2>1, <2>3, <2>4, EndedTyped
<1> QED
  BY <1>2, <1>3, <1>4, ApplySplitSays

LEMMA ApplyDividendTyped ==
  ASSUME Typed, NEW d \in Dividends, ApplyDividend(d)
  PROVE  /\ owed' \in [Dividends -> Int] /\ status' \in [Actions -> Status]
         /\ orders' \in [Etfs -> OrderRow] /\ cash' \in Int
         /\ UNCHANGED <<frozen, lots, held>>
<1> DEFINE recorded == status[d] = "pending" /\ (d.record < day \/ (d.record = day /\ closed))
           entitled == (recorded \/ status[d] = "recorded") /\ d.ex <= day
           paid     == (entitled \/ status[d] = "entitled") /\ d.pay <= day
           amount   == IF recorded THEN Entitlement(d) ELSE owed[d]
<1>1. /\ owed' = [owed EXCEPT ![d] = amount]
      /\ status' = [status EXCEPT ![d] = IF paid THEN "paid" ELSE IF entitled THEN "entitled"
                                          ELSE IF recorded THEN "recorded" ELSE status[d]]
      /\ orders' = IF entitled THEN Ended(d.etf) ELSE orders
      /\ cash' = IF paid THEN cash + amount ELSE cash
      /\ UNCHANGED <<frozen, lots, held>>
  BY DEF ApplyDividend
<1>2. /\ d.etf \in Etfs /\ d.record \in Nat \ {0} /\ d.value \in Nat /\ d \in Actions
  BY LedgerAssumption DEF Actions
<1>3. amount \in Int
  <2>1. CASE recorded
    <3>1. d.record \in 1 .. Days
      <4>1. day \in 1 .. Days /\ Days \in Nat
        BY LedgerAssumption DEF Typed, TypeOK
      <4>2. d.record <= day
        BY <1>2, <2>1, <4>1
      <4> QED
        BY <1>2, <4>1, <4>2
    <3>2. held[d.etf][d.record] \in Int
      BY <1>2, <3>1 DEF Typed
    <3> QED
      BY <1>2, <2>1, <3>2 DEF Entitlement
  <2>2. CASE ~recorded
    BY <2>2 DEF Typed, TypeOK
  <2> QED
    BY <2>1, <2>2
<1>4. (IF paid THEN "paid" ELSE IF entitled THEN "entitled"
         ELSE IF recorded THEN "recorded" ELSE status[d]) \in Status
  BY <1>2 DEF Typed, TypeOK, Status
<1> DEFINE st == IF paid THEN "paid" ELSE IF entitled THEN "entitled"
                 ELSE IF recorded THEN "recorded" ELSE status[d]
<1>5. status' = [status EXCEPT ![d] = st] /\ st \in Status
  BY <1>1, <1>4
<1> HIDE DEF recorded, entitled, paid, amount, st
<1>6. orders' \in [Etfs -> OrderRow] /\ cash' \in Int
  <2>1. orders \in [Etfs -> OrderRow] /\ cash \in Int /\ Ended(d.etf) \in [Etfs -> OrderRow]
    BY <1>2, EndedTyped DEF Typed, TypeOK
  <2> QED
    BY <1>1, <1>3, <2>1
<1>7. owed' \in [Dividends -> Int] /\ status' \in [Actions -> Status]
  <2>1. owed \in [Dividends -> Int] /\ status \in [Actions -> Status]
    BY DEF Typed, TypeOK
  <2> QED
    BY <1>1, <1>3, <1>5, <2>1
<1> QED
  BY <1>1, <1>6, <1>7

(* One order is matched: it is left alone, or filled once.                 *)
LEMMA MatchOneSays ==
  ASSUME Typed, MatchOne
  PROVE  \E e \in Etfs :
           /\ e \in todo /\ todo' = todo \ {e} /\ pc' \in {"idle", "match"} /\ pc = "match"
           /\ UNCHANGED <<clock, price, usable, corporate, traded, capital, due>>
           /\ \/ /\ orders' = [orders EXCEPT ![e].seen = TRUE]
                 /\ UNCHANGED <<room, lots, held, cash, evidence, real>>
              \/ /\ ~Blocked(e)
                 /\ \E q \in 1 .. MaxShares :
                      /\ Filled(e, q)
                      /\ \/ Sale(orders[e]) /\ FillSale(e, q)
                         \/ ~Sale(orders[e]) /\ FillBuy(e, q)
<1>1. PICK e \in todo :
        /\ Go(todo \ {e})
        /\ \/ /\ orders' = [orders EXCEPT ![e].seen = TRUE]
              /\ UNCHANGED <<room, lots, held, cash, evidence, real>>
           \/ /\ ~Blocked(e)
              /\ \E q \in 1 .. MaxShares :
                   /\ Filled(e, q)
                   /\ \/ Sale(orders[e]) /\ FillSale(e, q)
                      \/ ~Sale(orders[e]) /\ FillBuy(e, q)
  BY DEF MatchOne
<1>2. pc = "match" /\ UNCHANGED <<clock, price, usable, corporate, traded, capital, due>>
  BY DEF MatchOne
<1>3. e \in Etfs /\ todo' = todo \ {e} /\ pc' \in {"idle", "match"}
  BY <1>1, <1>2 DEF Typed, TypeOK, Go
<1> QED
  BY <1>1, <1>2, <1>3

LEMMA TypedHolds == Spec => []Typed
<1>1. Init => Typed
  <2> SUFFICES ASSUME Init PROVE Typed
    OBVIOUS
  <2>1. /\ day \in 1 .. Days /\ capital \in Nat
        /\ price \in [Etfs -> Nat]
    <3>1. \A e \in Etfs : (CHOOSE p \in Prices[e] : TRUE) \in Nat
      BY LedgerAssumption
    <3> QED
      BY <3>1, LedgerAssumption DEF Init
  <2>2. lots \in Seq(LotRow) /\ orders \in [Etfs -> OrderRow]
    BY DEF Init, NoOrder, OrderRow, Side
  <2>3. held \in [Etfs -> [1 .. Days -> Int]]
    BY DEF Init
  <2>4. status \in [Actions -> Status]
    BY DEF Init, Status
  <2> QED
    <3>1. /\ room \in [Etfs -> Nat] /\ usable \in [Etfs -> BOOLEAN]
          /\ checked \in [Etfs -> BOOLEAN] /\ frozen \in [Etfs -> BOOLEAN]
          /\ owed \in [Dividends -> Int] /\ basis \in [Etfs -> Int]
          /\ real \in [Etfs -> Int] /\ due \in [Dividends -> Int]
      BY DEF Init
    <3>2. /\ pc = "idle" /\ todo = {} /\ closed = FALSE /\ traded = FALSE
          /\ cash \in Int /\ fills \in Nat /\ net \in Int
      BY <2>1 DEF Init
    <3> QED
      BY <2>1, <2>2, <2>3, <2>4, <3>1, <3>2 DEF Typed, TypeOK
<1>2. Typed /\ [Next]_vars => Typed'
  <2> SUFFICES ASSUME Typed, [Next]_vars PROVE Typed'
    OBVIOUS
  <2>1. ASSUME NEW e \in Etfs, NEW side \in Side, NEW q \in 1 .. MaxShares, Submit(e, side, q)
        PROVE  Typed'
    <3>1. orders' = [orders EXCEPT ![e] = [NoOrder EXCEPT !.side = side, !.left = q, !.open = TRUE]]
      BY <2>1 DEF Submit
    <3>2. [NoOrder EXCEPT !.side = side, !.left = q, !.open = TRUE] \in OrderRow
      <4>1. q \in Nat /\ NoOrder \in OrderRow
        BY LedgerAssumption DEF NoOrder, OrderRow, Side
      <4> QED
        BY <4>1 DEF OrderRow
    <3>3. orders' \in [Etfs -> OrderRow]
      BY <3>1, <3>2 DEF Typed, TypeOK
    <3> QED
      BY <2>1, <3>3 DEF Submit, clock, market, corporate, evidence, truth, Typed, TypeOK
  <2>2. ASSUME NEW e \in Etfs, Withdraw(e) PROVE Typed'
    BY <2>2, EndedTyped
    DEF Withdraw, clock, market, corporate, evidence, truth, Typed, TypeOK
  <2>3. ASSUME NEW c \in Capitals, SetCapital(c) PROVE Typed'
    BY <2>3, LedgerAssumption
    DEF SetCapital, clock, market, corporate, evidence, truth, Typed, TypeOK
  <2>4. CASE PassTime
    <3>1. /\ pc' = "idle" /\ pc = "idle" /\ todo' = todo /\ day < Days /\ closed' = ~closed
          /\ usable' \in [Etfs -> BOOLEAN]
          /\ UNCHANGED <<price, room, frozen, status, owed, books>>
      BY <2>4 DEF PassTime
    <3>2. CASE ~closed
      <4>1. UNCHANGED <<day, checked, real>>
        BY <2>4, <3>2 DEF PassTime
      <4>2. due' = [d \in Dividends |-> IF d.record = day THEN d.value * real[d.etf] ELSE due[d]]
        BY <2>4, <3>2 DEF PassTime
      <4>3. \A d \in Dividends : d.value * real[d.etf] \in Int
        BY LedgerAssumption DEF Typed
      <4>4. due' \in [Dividends -> Int]
        BY <4>2, <4>3 DEF Typed
      <4> QED
        BY <3>1, <4>1, <4>4 DEF books, evidence, Typed, TypeOK
    <3>3. CASE closed
      <4>1. /\ day' = day + 1 /\ checked' = [e \in Etfs |-> FALSE] /\ UNCHANGED due
            /\ real' = [e \in Etfs |->
                 IF \E s \in Splits : s.etf = e /\ s.ex = day + 1
                 THEN (real[e] * (CHOOSE s \in Splits : s.etf = e /\ s.ex = day + 1).num)
                        \div (CHOOSE s \in Splits : s.etf = e /\ s.ex = day + 1).den
                 ELSE real[e]]
        BY <2>4, <3>3 DEF PassTime
      <4>2. \A e \in Etfs :
              (IF \E s \in Splits : s.etf = e /\ s.ex = day + 1
               THEN (real[e] * (CHOOSE s \in Splits : s.etf = e /\ s.ex = day + 1).num)
                      \div (CHOOSE s \in Splits : s.etf = e /\ s.ex = day + 1).den
               ELSE real[e]) \in Int
        <5> SUFFICES ASSUME NEW e \in Etfs, \E s \in Splits : s.etf = e /\ s.ex = day + 1
                     PROVE  (real[e] * (CHOOSE s \in Splits : s.etf = e /\ s.ex = day + 1).num)
                              \div (CHOOSE s \in Splits : s.etf = e /\ s.ex = day + 1).den \in Int
          BY DEF Typed
        <5> DEFINE t == CHOOSE s \in Splits : s.etf = e /\ s.ex = day + 1
        <5>1. t \in Splits
          OBVIOUS
        <5> HIDE DEF t
        <5>2. t.num \in Nat \ {0} /\ t.den \in Nat \ {0} /\ real[e] \in Int
          BY <5>1, LedgerAssumption DEF Typed
        <5>3. real[e] * t.num \in Int
          BY <5>2
        <5>4. (real[e] * t.num) \div t.den \in Int
          BY <5>2, <5>3
        <5> QED
          BY <5>4 DEF t
      <4>3. real' \in [Etfs -> Int]
        BY <4>1, <4>2
      <4>4. day' \in 1 .. Days
        BY <3>1, <4>1, LedgerAssumption DEF Typed, TypeOK
      <4> QED
        BY <3>1, <4>1, <4>3, <4>4 DEF books, evidence, Typed, TypeOK
    <3> QED
      BY <3>2, <3>3
  <2>5. CASE Collect
    <3>1. UNCHANGED <<clock, truth>>
      BY <2>5 DEF Collect
    <3>2. CASE UNCHANGED <<market, corporate, books>>
      <4>1. /\ pc' \in {"idle", "apply"} /\ todo' \subseteq IF pc' = "apply" THEN Actions ELSE Etfs
        BY <2>5, <3>2 DEF Collect, Due, Typed, TypeOK, corporate
      <4> QED
        BY <3>1, <3>2, <4>1 DEF clock, market, corporate, books, evidence, truth, Typed, TypeOK
    <3>3. ASSUME NEW e \in Etfs, NewQuote(e) PROVE Typed'
      <4>1. /\ price' \in [Etfs -> Nat] /\ room' \in [Etfs -> Nat] /\ usable' \in [Etfs -> BOOLEAN]
        <5>1. PICK p \in Prices[e], r \in Rooms[e] :
                price' = [price EXCEPT ![e] = p] /\ room' = [room EXCEPT ![e] = r]
          BY <3>3 DEF NewQuote
        <5>2. p \in Nat /\ r \in Nat
          BY LedgerAssumption
        <5>3. usable' = [usable EXCEPT ![e] = TRUE]
          BY <3>3 DEF NewQuote
        <5> QED
          BY <5>1, <5>2, <5>3 DEF Typed, TypeOK
      <4>2. orders' \in [Etfs -> OrderRow]
        <5>1. orders' = [orders EXCEPT ![e] =
                           [orders[e] EXCEPT !.seen = orders[e].seen /\ ~orders[e].open]]
          BY <3>3 DEF NewQuote, Typed, TypeOK
        <5>2. (orders[e].seen /\ ~orders[e].open) \in BOOLEAN /\ orders[e] \in OrderRow
          BY OrderType
        <5>3. [orders[e] EXCEPT !.seen = orders[e].seen /\ ~orders[e].open] \in OrderRow
          BY <5>2 DEF OrderRow
        <5> QED
          BY <5>1, <5>3 DEF Typed, TypeOK
      <4>3. UNCHANGED <<corporate, traded, lots, held, cash, capital, evidence>>
        BY <3>3 DEF NewQuote
      <4>4. /\ pc' \in {"idle", "apply"} /\ todo' \subseteq IF pc' = "apply" THEN Actions ELSE Etfs
        BY <2>5, <4>3 DEF Collect, Due, Typed, TypeOK, corporate
      <4> QED
        BY <3>1, <4>1, <4>2, <4>3, <4>4 DEF clock, corporate, evidence, truth, Typed, TypeOK
    <3>4. ASSUME NEW e \in Etfs, Verify(e) PROVE Typed'
      <4>1. /\ checked' \in [Etfs -> BOOLEAN] /\ UNCHANGED <<market, owed, books>>
        BY <3>4 DEF Verify, Typed, TypeOK
      <4>2. status' \in [Actions -> Status]
        <5>1. PICK early \in SUBSET {a \in Actions : a.etf = e} :
                status' = [a \in Actions |->
                  IF a \in Published(e) \cup early /\ status[a] = "unknown"
                  THEN "pending" ELSE status[a]]
          BY <3>4 DEF Verify
        <5> QED
          BY <5>1 DEF Status, Typed, TypeOK
      <4>3. frozen' \in [Etfs -> BOOLEAN]
        <5>1. PICK revised \in BOOLEAN : frozen' = [frozen EXCEPT ![e] = frozen[e] \/ revised]
          BY <3>4 DEF Verify
        <5> QED
          BY <5>1 DEF Typed, TypeOK
      <4>4. /\ pc' \in {"idle", "apply"} /\ todo' \subseteq IF pc' = "apply" THEN Actions ELSE Etfs
        BY <2>5, <4>2 DEF Collect, Due, Typed, TypeOK
      <4> QED
        BY <3>1, <4>1, <4>2, <4>3, <4>4 DEF clock, market, books, evidence, truth, Typed, TypeOK
    <3> QED
      BY <2>5, <3>2, <3>3, <3>4 DEF Collect
  <2>6. CASE ApplyOne
    <3>1. /\ pc = "apply" /\ pc' = "apply"
          /\ UNCHANGED <<clock, market, checked, traded, capital, evidence, truth>>
      BY <2>6 DEF ApplyOne
    <3>2. PICK a \in todo : /\ todo' = todo \ {a}
                            /\ \/ a \in Dividends /\ ApplyDividend(a)
                               \/ a \in Splits /\ ApplySplit(a) /\ UNCHANGED <<owed, cash>>
      BY <2>6 DEF ApplyOne
    <3>3. CASE a \in Dividends /\ ApplyDividend(a)
      BY <3>1, <3>2, <3>3, ApplyDividendTyped
      DEF clock, market, evidence, truth, Typed, TypeOK
    <3>4. CASE a \in Splits /\ ApplySplit(a) /\ UNCHANGED <<owed, cash>>
      BY <3>1, <3>2, <3>4, ApplySplitTyped
      DEF clock, market, evidence, truth, Typed, TypeOK
    <3> QED
      BY <3>2, <3>3, <3>4
  <2>7. CASE MatchStart
    <3>1. pc' \in {"idle", "match"} /\ todo' \subseteq Etfs
      BY <2>7 DEF MatchStart, Go, Selected, OpenOrders
    <3> QED
      BY <2>7, <3>1
      DEF MatchStart, clock, market, corporate, books, evidence, truth, Typed, TypeOK
  <2>8. CASE MatchOne
    <3>1. PICK e \in Etfs :
           /\ e \in todo /\ todo' = todo \ {e} /\ pc' \in {"idle", "match"} /\ pc = "match"
           /\ UNCHANGED <<clock, price, usable, corporate, traded, capital, due>>
           /\ \/ /\ orders' = [orders EXCEPT ![e].seen = TRUE]
                 /\ UNCHANGED <<room, lots, held, cash, evidence, real>>
              \/ \E q \in 1 .. MaxShares :
                      /\ Filled(e, q)
                      /\ \/ Sale(orders[e]) /\ FillSale(e, q)
                         \/ ~Sale(orders[e]) /\ FillBuy(e, q)
      BY <2>8, MatchOneSays
    <3>2. todo' \subseteq Etfs
      BY <3>1 DEF Typed, TypeOK
    <3>3. CASE /\ orders' = [orders EXCEPT ![e].seen = TRUE]
               /\ UNCHANGED <<room, lots, held, cash, evidence, real>>
      <4>1. orders' \in [Etfs -> OrderRow]
        <5>1. orders' = [orders EXCEPT ![e] = [orders[e] EXCEPT !.seen = TRUE]]
          BY <3>3 DEF Typed, TypeOK
        <5>2. [orders[e] EXCEPT !.seen = TRUE] \in OrderRow
          BY OrderType DEF OrderRow
        <5> QED
          BY <5>1, <5>2 DEF Typed, TypeOK
      <4> QED
        BY <3>1, <3>2, <3>3, <4>1 DEF clock, corporate, evidence, Typed, TypeOK
    <3>4. ASSUME NEW q \in 1 .. MaxShares, Filled(e, q), FillSale(e, q) \/ FillBuy(e, q)
          PROVE  Typed'
      <4>1. /\ orders' \in [Etfs -> OrderRow] /\ room' \in [Etfs -> Nat] /\ fills' \in Nat
            /\ held' \in [Etfs -> [1 .. Days -> Int]] /\ real' \in [Etfs -> Int]
            /\ lots' \in Seq(LotRow) /\ basis' \in [Etfs -> Int]
            /\ cash' \in Int /\ net' \in Int
        BY <3>4, FillSaleTyped, FillBuyTyped
      <4> QED
        BY <3>1, <3>2, <4>1 DEF clock, corporate, Typed, TypeOK
    <3> QED
      BY <3>1, <3>3, <3>4
  <2>9. CASE Abort
    BY <2>9 DEF Abort, clock, market, corporate, books, evidence, truth, Typed, TypeOK
  <2>10. CASE UNCHANGED vars
    BY <2>10 DEF vars, clock, market, corporate, books, evidence, truth, Typed, TypeOK
  <2> QED
    BY <2>1, <2>2, <2>3, <2>4, <2>5, <2>6, <2>7, <2>8, <2>9, <2>10 DEF Next
<1> QED
  BY <1>1, <1>2, PTL DEF Spec

(* Every table is of its type, in every state.                             *)
THEOREM LedgerTypes == Spec => []TypeOK
<1>1. Typed => TypeOK
  BY DEF Typed
<1> QED
  BY <1>1, TypedHolds, PTL

----------------------------------------------------------------------------
(* What a fill changes, a purchase and a sale in one form: m shares, c of  *)
(* cost and g of cash, in the lots, in the ledgers and at the exchange.    *)
FillOf(e, m, c, g) ==
  /\ \A f \in Etfs :
       /\ HeldIn(lots', f) = HeldIn(lots, f) + (IF f = e THEN m ELSE 0)
       /\ CostIn(lots', f) = CostIn(lots, f) + (IF f = e THEN c ELSE 0)
       /\ basis'[f] = basis[f] + (IF f = e THEN c ELSE 0)
       /\ real'[f] = real[f] + (IF f = e THEN m ELSE 0)
       /\ \A x \in 1 .. Days :
            held'[f][x] = held[f][x] + (IF f = e /\ day <= x THEN m ELSE 0)
  /\ cash' = cash + g /\ net' = net + g

LEMMA MoveSays ==
  ASSUME Typed, NEW e \in Etfs, NEW m \in Int, Move(e, m), NEW f \in Etfs
  PROVE  /\ real'[f] = real[f] + (IF f = e THEN m ELSE 0)
         /\ \A x \in 1 .. Days :
              held'[f][x] = held[f][x] + (IF f = e /\ day <= x THEN m ELSE 0)
<1>1. held' = [held EXCEPT ![e] =
                 [d \in 1 .. Days |-> IF d >= day THEN held[e][d] + m ELSE held[e][d]]]
  BY DEF Move
<1>2. real'[f] = real[f] + (IF f = e THEN m ELSE 0)
  BY DEF Move, Typed
<1>3. ASSUME NEW x \in 1 .. Days
      PROVE  held'[f][x] = held[f][x] + (IF f = e /\ day <= x THEN m ELSE 0)
  <2>1. held[f][x] \in Int /\ day \in Int /\ x \in Int
    <3>1. held[f] \in [1 .. Days -> Int] /\ day \in 1 .. Days /\ Days \in Nat
      BY LedgerAssumption DEF Typed, TypeOK
    <3> QED
      BY <3>1
  <2>2. CASE f = e
    <3>1. held'[f][x] = IF x >= day THEN held[f][x] + m ELSE held[f][x]
      BY <1>1, <2>2 DEF Typed
    <3> QED
      BY <2>1, <2>2, <3>1
  <2>3. CASE f # e
    BY <1>1, <2>1, <2>3 DEF Typed
  <2> QED
    BY <2>2, <2>3
<1> QED
  BY <1>2, <1>3

LEMMA FillBuySays ==
  ASSUME Typed, NEW e \in Etfs, NEW q \in 1 .. MaxShares, Filled(e, q), FillBuy(e, q)
  PROVE  FillOf(e, q, price[e] * q + FeeOf(e, q), -(price[e] * q + FeeOf(e, q)))
<1> DEFINE c == price[e] * q + FeeOf(e, q)
           row == [etf |-> e, acquired |-> day, avail |-> day + Settlement[e],
                   qty |-> q, cost |-> c]
<1>1. q \in Nat \ {0} /\ c \in Nat
  BY FilledFits
<1>2. row \in LotRow /\ row.etf = e /\ row.qty = q /\ row.cost = c
  <2>1. day + Settlement[e] \in Nat /\ day \in 1 .. Days
    <3>1. Settlement[e] \in {0, 1} /\ Days \in Nat /\ day \in 1 .. Days
      BY LedgerAssumption DEF Typed, TypeOK
    <3> QED
      BY <3>1
  <2> HIDE DEF c
  <2> QED
    BY <1>1, <2>1 DEF LotRow
<1>3. /\ lots' = Append(lots, row) /\ cash' = cash - c /\ net' = net - c
      /\ basis' = [basis EXCEPT ![e] = basis[e] + c] /\ Move(e, q)
  BY DEF FillBuy
<1>4. lots \in Seq(LotRow) /\ cash \in Int /\ net \in Int /\ basis \in [Etfs -> Int]
  BY DEF Typed, TypeOK
<1> HIDE DEF row, c
<1>5. ASSUME NEW f \in Etfs
      PROVE  /\ HeldIn(lots', f) = HeldIn(lots, f) + (IF f = e THEN q ELSE 0)
             /\ CostIn(lots', f) = CostIn(lots, f) + (IF f = e THEN c ELSE 0)
             /\ basis'[f] = basis[f] + (IF f = e THEN c ELSE 0)
             /\ real'[f] = real[f] + (IF f = e THEN q ELSE 0)
             /\ \A x \in 1 .. Days :
                  held'[f][x] = held[f][x] + (IF f = e /\ day <= x THEN q ELSE 0)
  <2>1. /\ HeldIn(lots', f) = HeldIn(lots, f) + (IF f = e THEN q ELSE 0)
        /\ CostIn(lots', f) = CostIn(lots, f) + (IF f = e THEN c ELSE 0)
    BY <1>1, <1>2, <1>3, <1>4, LotAdded
  <2>2. basis'[f] = basis[f] + (IF f = e THEN c ELSE 0)
    BY <1>1, <1>3, <1>4
  <2> QED
    BY <1>1, <1>3, <2>1, <2>2, MoveSays
<1>6. cash' = cash + (-c) /\ net' = net + (-c)
  BY <1>1, <1>3, <1>4
<1>7. FillOf(e, q, c, -c)
  BY <1>5, <1>6 DEF FillOf
<1> QED
  BY <1>7 DEF c

LEMMA FillSaleSays ==
  ASSUME Typed, NEW e \in Etfs, NEW q \in 1 .. MaxShares, Filled(e, q), FillSale(e, q)
  PROVE  \E c \in Int :
           /\ FillOf(e, -q, c, price[e] * q - FeeOf(e, q))
           /\ Len(lots') = Len(lots)
           /\ \A f : Its(lots', f) \subseteq Its(lots, f)
           /\ \A l \in Rows : lots'[l].acquired = lots[l].acquired
<1> DEFINE g == price[e] * q - FeeOf(e, q)
<1>1. q \in Nat \ {0} /\ g \in Int
  BY FilledFits
<1>2. PICK take \in [Rows -> 0 .. MaxShares] :
        /\ Fifo(take, e, q) /\ lots' = Reduced(take)
        /\ basis' = [basis EXCEPT ![e] = basis[e] - CostTaken(take)]
  BY DEF FillSale, CostTaken
<1>3. lots \in Seq(LotRow) /\ cash \in Int /\ net \in Int /\ basis \in [Etfs -> Int]
  BY DEF Typed, TypeOK
<1>4. \A f :
        /\ Reduced(take) \in Seq(LotRow) /\ Len(Reduced(take)) = Len(lots)
        /\ HeldIn(lots, f) = HeldIn(Reduced(take), f) + (IF f = e THEN q ELSE 0)
        /\ CostTaken(take) \in Int
        /\ CostIn(lots, f) = CostIn(Reduced(take), f) + (IF f = e THEN CostTaken(take) ELSE 0)
        /\ Its(Reduced(take), f) \subseteq Its(lots, f)
        /\ \A l \in Rows : Reduced(take)[l].acquired = lots[l].acquired
  BY <1>1, <1>2, <1>3, LotsTaken
<1>5. lots' \in Seq(LotRow) /\ CostTaken(take) \in Int
  BY <1>2, <1>4
<1>6. cash' = cash + g /\ net' = net + g /\ Move(e, -q)
  BY DEF FillSale
<1> DEFINE c == -CostTaken(take)
<1>7. ASSUME NEW f \in Etfs
      PROVE  /\ HeldIn(lots', f) = HeldIn(lots, f) + (IF f = e THEN -q ELSE 0)
             /\ CostIn(lots', f) = CostIn(lots, f) + (IF f = e THEN c ELSE 0)
             /\ basis'[f] = basis[f] + (IF f = e THEN c ELSE 0)
             /\ real'[f] = real[f] + (IF f = e THEN -q ELSE 0)
             /\ \A x \in 1 .. Days :
                  held'[f][x] = held[f][x] + (IF f = e /\ day <= x THEN -q ELSE 0)
  <2>1. /\ HeldIn(lots', f) \in Int /\ CostIn(lots', f) \in Int
    BY <1>5, OwnRows
  <2>2. /\ HeldIn(lots, f) = HeldIn(lots', f) + (IF f = e THEN q ELSE 0)
        /\ CostIn(lots, f) = CostIn(lots', f) + (IF f = e THEN CostTaken(take) ELSE 0)
    BY <1>2, <1>4
  <2>3. basis'[f] = basis[f] + (IF f = e THEN c ELSE 0)
    BY <1>2, <1>3, <1>5
  <2>4. -q \in Int
    BY <1>1
  <2>5. /\ real'[f] = real[f] + (IF f = e THEN -q ELSE 0)
        /\ \A x \in 1 .. Days :
             held'[f][x] = held[f][x] + (IF f = e /\ day <= x THEN -q ELSE 0)
    BY <1>6, <2>4, MoveSays
  <2>6. /\ HeldIn(lots', f) = HeldIn(lots, f) + (IF f = e THEN -q ELSE 0)
        /\ CostIn(lots', f) = CostIn(lots, f) + (IF f = e THEN c ELSE 0)
    BY <1>1, <1>5, <2>1, <2>2
  <2> QED
    BY <2>3, <2>5, <2>6
<1>8. c \in Int
  BY <1>5
<1> HIDE DEF g, c
<1>9. FillOf(e, -q, c, g)
  BY <1>6, <1>7 DEF FillOf
<1>10. /\ Len(lots') = Len(lots) /\ \A f : Its(lots', f) \subseteq Its(lots, f)
       /\ \A l \in Rows : lots'[l].acquired = lots[l].acquired
  BY <1>2, <1>4
<1>11. FillOf(e, -q, c, price[e] * q - FeeOf(e, q))
  BY <1>9 DEF g
<1> QED
  BY <1>8, <1>10, <1>11

LEMMA SplitSays ==
  ASSUME Typed, NEW s \in Splits, \A l \in OldLots(s) : (lots[l].qty * s.num) % s.den = 0,
         lots' = Split(s),
         held' = [held EXCEPT ![s.etf] =
                    [d \in 1 .. Days |-> IF d >= s.ex THEN held[s.etf][d] + Added(s)
                                         ELSE held[s.etf][d]]],
         NEW f \in Etfs
  PROVE  /\ HeldIn(lots', f) = HeldIn(lots, f) + (IF f = s.etf THEN Added(s) ELSE 0)
         /\ CostIn(lots', f) = CostIn(lots, f) /\ Added(s) \in Int
         /\ \A x \in 1 .. Days :
              held'[f][x] = held[f][x] + (IF f = s.etf /\ s.ex <= x THEN Added(s) ELSE 0)
<1>1. /\ HeldIn(lots', f) = HeldIn(lots, f) + (IF f = s.etf THEN Added(s) ELSE 0)
      /\ CostIn(lots', f) = CostIn(lots, f) /\ Added(s) \in Int
  BY LotsScaled DEF Typed, TypeOK
<1>2. s.etf \in Etfs /\ s.ex \in Int
  BY LedgerAssumption
<1>3. ASSUME NEW x \in 1 .. Days
      PROVE  held'[f][x] = held[f][x] + (IF f = s.etf /\ s.ex <= x THEN Added(s) ELSE 0)
  <2>1. held[f][x] \in Int /\ x \in Int
    <3>1. held[f] \in [1 .. Days -> Int] /\ Days \in Nat
      BY LedgerAssumption DEF Typed
    <3> QED
      BY <3>1
  <2>2. CASE f = s.etf
    <3>1. held'[f][x] = IF x >= s.ex THEN held[f][x] + Added(s) ELSE held[f][x]
      BY <2>2 DEF Typed
    <3> QED
      BY <1>1, <1>2, <2>1, <2>2, <3>1
  <2>3. CASE f # s.etf
    <3>1. held'[f] = held[f]
      BY <1>2, <2>3 DEF Typed
    <3> QED
      BY <2>1, <2>3, <3>1
  <2> QED
    BY <2>2, <2>3
<1> QED
  BY <1>1, <1>3

(* A dividend is moved on; its amount is fixed when it is recorded, and it *)
(* is in the cash when it is paid.                                         *)
Recorded(d) == status[d] = "pending" /\ (d.record < day \/ (d.record = day /\ closed))
LEMMA ApplyDividendSays ==
  ASSUME Typed, NEW d \in Dividends, ApplyDividend(d),
         status[d] \notin {"unknown", "paid", "applied"}
  PROVE  \E a \in Int, st \in {"pending", "recorded", "entitled", "paid"} :
           /\ a = IF Recorded(d) THEN Entitlement(d) ELSE owed[d]
           /\ owed' = [owed EXCEPT ![d] = a] /\ status' = [status EXCEPT ![d] = st]
           /\ st = "pending" <=> status[d] = "pending" /\ ~Recorded(d)
           /\ cash' = cash + (IF st = "paid" THEN a ELSE 0)
           /\ UNCHANGED <<frozen, lots, held>>
<1> DEFINE recorded == Recorded(d)
           entitled == (recorded \/ status[d] = "recorded") /\ d.ex <= day
           paid     == (entitled \/ status[d] = "entitled") /\ d.pay <= day
           a  == IF recorded THEN Entitlement(d) ELSE owed[d]
           st == IF paid THEN "paid" ELSE IF entitled THEN "entitled"
                 ELSE IF recorded THEN "recorded" ELSE status[d]
<1>1. /\ owed' = [owed EXCEPT ![d] = a] /\ status' = [status EXCEPT ![d] = st]
      /\ cash' = IF paid THEN cash + a ELSE cash
      /\ UNCHANGED <<frozen, lots, held>>
  BY DEF ApplyDividend, Recorded
<1>2. /\ d.etf \in Etfs /\ d.record \in Nat \ {0} /\ d.value \in Nat /\ d \in Actions
  BY LedgerAssumption DEF Actions
<1>3. owed' \in [Dividends -> Int] /\ owed \in [Dividends -> Int]
  BY ApplyDividendTyped DEF Typed, TypeOK
<1>4. status[d] \in {"pending", "recorded", "entitled"} /\ cash \in Int
  BY <1>2 DEF Typed, TypeOK, Status
<1>5. st \in {"pending", "recorded", "entitled", "paid"}
  BY <1>4
<1>6. st = "pending" <=> status[d] = "pending" /\ ~recorded
  BY <1>4 DEF Recorded
<1>7. st = "paid" <=> paid
  <2> HIDE DEF paid, entitled, recorded
  <2> QED
    BY <1>4
<1> HIDE DEF a, st, paid, recorded
<1>8. a \in Int
  BY <1>1, <1>3
<1>9. cash' = cash + (IF st = "paid" THEN a ELSE 0)
  BY <1>1, <1>4, <1>7, <1>8
<1>10. a = IF recorded THEN Entitlement(d) ELSE owed[d]
  BY DEF a
<1> QED
  BY <1>1, <1>5, <1>6, <1>8, <1>9, <1>10 DEF recorded

(* The dividends that were paid, in total.                                 *)
LEMMA PaidSame ==
  ASSUME UNCHANGED owed, \A d \in Dividends : status'[d] = "paid" <=> status[d] = "paid"
  PROVE  Paid' = Paid
<1>1. With("paid")' = With("paid")
  BY DEF With
<1> QED
  BY <1>1 DEF Paid

LEMMA PaidGrows ==
  ASSUME Typed, NEW d \in Dividends, status[d] # "paid", NEW a \in Int, NEW st,
         owed' = [owed EXCEPT ![d] = a], status' = [status EXCEPT ![d] = st]
  PROVE  Paid \in Int /\ Paid' = Paid + (IF st = "paid" THEN a ELSE 0)
<1> DEFINE S == {x \in Dividends : status[x] = "paid"}
           T == {x \in Dividends : status'[x] = "paid"}
<1>1. IsFiniteSet(S) /\ IsFiniteSet(T)
  BY LedgerAssumption, FS_Subset
<1>2. Paid = Total(owed, S) /\ Paid' = Total(owed', T)
  BY DEF Paid, With
<1>3. /\ owed \in [Dividends -> Int] /\ owed' \in [Dividends -> Int] /\ owed'[d] = a
      /\ S \subseteq Dividends /\ T \subseteq Dividends
  BY DEF Typed, TypeOK
<1>4. d \notin S /\ \A x \in S : owed'[x] = owed[x]
  BY <1>3
<1>5. T = S \cup (IF st = "paid" THEN {d} ELSE {})
  BY DEF Typed, TypeOK, Actions
<1> HIDE DEF S, T
<1>6. Total(owed, S) \in Int /\ Total(owed', S) = Total(owed, S)
  BY <1>1, <1>3, <1>4, SumIsInt, SumOfEqual
<1>7. CASE st = "paid"
  <2>1. T = S \cup {d}
    BY <1>5, <1>7
  <2>2. \A x \in S \cup {d} : owed'[x] \in Int
    BY <1>3
  <2>3. Total(owed', S \cup {d}) = Total(owed', S) + owed'[d]
    <3> DEFINE h == owed'
    <3>1. \A x \in S \cup {d} : h[x] \in Int
      BY <2>2
    <3> HIDE DEF h
    <3>2. d \notin S /\ IsFiniteSet(S)
      BY <1>1, <1>4
    <3>3. SumFunctionOnSet(h, S \cup {d}) = SumFunctionOnSet(h, S) + h[d]
      BY <3>1, <3>2, SumAddsOne
    <3> QED
      BY <3>3 DEF h
  <2> QED
    BY <1>2, <1>3, <1>6, <1>7, <2>1, <2>3
<1>8. CASE st # "paid"
  BY <1>2, <1>5, <1>6, <1>8
<1> QED
  BY <1>7, <1>8

LEMMA PaidIsInt ==
  ASSUME Typed PROVE Paid \in Int
<1>1. IsFiniteSet(With("paid")) /\ With("paid") \subseteq Dividends
  BY LedgerAssumption, FS_Subset DEF With
<1>2. \A d \in With("paid") : owed[d] \in Int
  BY <1>1 DEF Typed, TypeOK
<1> QED
  BY <1>1, <1>2, SumIsInt DEF Paid

----------------------------------------------------------------------------
(* What Collect makes of the rows of actions: unknown ones become pending. *)
LEMMA CollectSays ==
  ASSUME Typed, Collect
  PROVE  /\ UNCHANGED <<clock, truth, owed, traded, lots, held, cash, capital, evidence>>
         /\ \A a \in Actions :
              status'[a] = status[a] \/ (status[a] = "unknown" /\ status'[a] = "pending")
         /\ \A e \in Etfs : frozen[e] => frozen'[e]
         /\ pc = "idle" /\ ((pc' = "apply" /\ todo' = Due(status')) \/ pc' = "idle")
<1>1. pc = "idle" /\ UNCHANGED <<clock, truth>>
      /\ ((pc' = "apply" /\ todo' = Due(status')) \/ pc' = "idle")
  BY DEF Collect
<1>2. CASE UNCHANGED <<market, corporate, books>>
  BY <1>1, <1>2 DEF corporate, books
<1>3. ASSUME NEW e \in Etfs, NewQuote(e)
      PROVE  UNCHANGED <<corporate, traded, lots, held, cash, capital, evidence>>
  BY <1>3 DEF NewQuote
<1>4. ASSUME NEW e \in Etfs, Verify(e)
      PROVE  /\ UNCHANGED <<owed, books>>
             /\ \A a \in Actions :
                  status'[a] = status[a] \/ (status[a] = "unknown" /\ status'[a] = "pending")
             /\ \A f \in Etfs : frozen[f] => frozen'[f]
  <2>1. PICK early \in SUBSET {a \in Actions : a.etf = e} :
          status' = [a \in Actions |->
            IF a \in Published(e) \cup early /\ status[a] = "unknown"
            THEN "pending" ELSE status[a]]
    BY <1>4 DEF Verify
  <2>2. PICK revised \in BOOLEAN : frozen' = [frozen EXCEPT ![e] = frozen[e] \/ revised]
    BY <1>4 DEF Verify
  <2>3. \A f \in Etfs : frozen[f] => frozen'[f]
    BY <2>2 DEF Typed, TypeOK
  <2> QED
    BY <1>4, <2>1, <2>3 DEF Verify
<1> QED
  BY <1>1, <1>2, <1>3, <1>4 DEF Collect, corporate, books

(* The rows apply_actions has left are none that is done.                  *)
LeftToDo ==
  /\ pc = "apply" => \A a \in todo : status[a] \notin {"unknown", "paid", "applied"}
  /\ \A s \in Splits : status[s] \in {"unknown", "pending", "applied"}
  /\ \A d \in Dividends : status[d] # "applied"
LEMMA LeftToDoHolds == Spec => []LeftToDo
<1>1. Init => LeftToDo
  BY DEF Init, LeftToDo, Actions
<1>2. Typed /\ LeftToDo /\ [Next]_vars => LeftToDo'
  <2> SUFFICES ASSUME Typed, LeftToDo, [Next]_vars PROVE LeftToDo'
    OBVIOUS
  <2>1. CASE Collect
    <3>1. /\ pc' = "apply" => todo' = Due(status')
          /\ \A a \in Actions :
               status'[a] = status[a] \/ (status[a] = "unknown" /\ status'[a] = "pending")
      BY <2>1, CollectSays
    <3>2. \A a \in Due(status') : status'[a] \notin {"unknown", "paid", "applied"}
      BY DEF Due
    <3> QED
      BY <3>1, <3>2 DEF LeftToDo, Actions
  <2>2. CASE ApplyOne
    <3>1. PICK a \in todo : /\ todo' = todo \ {a}
                            /\ \/ a \in Dividends /\ ApplyDividend(a)
                               \/ a \in Splits /\ ApplySplit(a)
      BY <2>2 DEF ApplyOne
    <3>2. pc = "apply" /\ pc' = "apply" /\ a \in Actions /\ todo \subseteq Actions
      BY <2>2, <3>1 DEF ApplyOne, Typed, TypeOK
    <3>3. CASE a \in Dividends /\ ApplyDividend(a)
      <4>1. PICK st \in {"pending", "recorded", "entitled", "paid"} :
              status' = [status EXCEPT ![a] = st]
        BY <3>1, <3>2, <3>3, ApplyDividendSays DEF LeftToDo
      <4>2. a \notin Splits
        BY <3>3, LedgerAssumption
      <4>3. \A x \in Actions : x # a => status'[x] = status[x]
        BY <4>1 DEF Typed, TypeOK
      <4>4. status'[a] = st
        BY <3>2, <4>1 DEF Typed, TypeOK
      <4> QED
        BY <3>1, <3>2, <4>2, <4>3, <4>4 DEF LeftToDo, Actions
    <3>4. CASE a \in Splits /\ ApplySplit(a)
      <4>1. status' = status \/ status' = [status EXCEPT ![a] = "applied"]
        BY <3>4, ApplySplitSays
      <4>2. a \notin Dividends
        BY <3>4, LedgerAssumption
      <4>3. \A x \in Actions : x # a => status'[x] = status[x]
        BY <4>1 DEF Typed, TypeOK
      <4>4. status'[a] = status[a] \/ status'[a] = "applied"
        BY <3>2, <4>1 DEF Typed, TypeOK
      <4> QED
        BY <3>1, <3>2, <4>2, <4>3, <4>4 DEF LeftToDo, Actions
    <3> QED
      BY <3>1, <3>3, <3>4
  <2>3. CASE MatchOne
    <3>1. pc' # "apply" /\ UNCHANGED status
      BY <2>3 DEF MatchOne, Go, corporate
    <3> QED
      BY <3>1 DEF LeftToDo
  <2>4. CASE UNCHANGED status /\ (pc' = "apply" => pc = "apply" /\ todo' = todo)
    BY <2>4 DEF LeftToDo
  <2> QED
    BY <2>1, <2>2, <2>3, <2>4
    DEF Next, Submit, Withdraw, SetCapital, PassTime, MatchStart, Go, Abort, corporate, vars
<1> QED
  BY <1>1, <1>2, TypedHolds, PTL DEF Spec

----------------------------------------------------------------------------
(* The tables agree, and no fill is ever posted behind today: from today   *)
(* on the position ledger says the same for every day.                     *)
Books ==
  /\ \A e \in Etfs : HeldIn(lots, e) = held[e][Days] /\ CostIn(lots, e) = basis[e]
  /\ \A e \in Etfs, x \in 1 .. Days : day <= x => held[e][x] = held[e][Days]
  /\ cash = capital + net + Paid

LEMMA BooksAgree == Books => TablesAgree
<1> SUFFICES ASSUME Books PROVE TablesAgree
  OBVIOUS
<1>1. \A e \in Etfs : Held(e) = held[e][Days] /\ Total(Cost, LotsOf(e)) = basis[e]
  BY TheTable DEF Books
<1> QED
  BY <1>1 DEF Books, TablesAgree, Agree

LEMMA BooksSame ==
  ASSUME Books, UNCHANGED <<lots, held, basis, net, owed>>, cash' - capital' = cash - capital,
         \A d \in Dividends : status'[d] = "paid" <=> status[d] = "paid",
         day' = day \/ day' = day + 1, Typed, Typed'
  PROVE  Books'
<1>1. Paid' = Paid /\ Paid \in Int
  BY PaidSame, PaidIsInt
<1>2. cash \in Int /\ cash' \in Int /\ capital \in Int /\ capital' \in Int /\ net \in Int
  BY DEF Typed, TypeOK
<1>3. cash' = capital' + net' + Paid'
  BY <1>1, <1>2 DEF Books
<1>4. \A e \in Etfs, x \in 1 .. Days : day' <= x => held[e][x] = held[e][Days]
  <2>1. \A x \in 1 .. Days : day' <= x => day <= x
    BY LedgerAssumption DEF Typed, TypeOK
  <2> QED
    BY <2>1 DEF Books
<1> QED
  BY <1>3, <1>4 DEF Books

LEMMA BooksFilled ==
  ASSUME Typed, Typed', Books, NEW e \in Etfs, NEW m \in Int, NEW c \in Int, NEW g \in Int,
         FillOf(e, m, c, g), UNCHANGED <<day, capital, owed, status>>
  PROVE  Books'
<1>1. Paid' = Paid /\ Paid \in Int
  BY PaidSame, PaidIsInt
<1>2. cash' = capital' + net' + Paid'
  BY <1>1 DEF FillOf, Books, Typed, TypeOK
<1>3. day <= Days /\ Days \in 1 .. Days /\ day \in Int
  BY LedgerAssumption DEF Typed, TypeOK
<1>4. ASSUME NEW f \in Etfs
      PROVE  HeldIn(lots', f) = held'[f][Days] /\ CostIn(lots', f) = basis'[f]
  BY <1>3 DEF FillOf, Books
<1>5. ASSUME NEW f \in Etfs, NEW x \in 1 .. Days, day <= x
      PROVE  held'[f][x] = held'[f][Days]
  <2>1. /\ held'[f][x] = held[f][x] + (IF f = e THEN m ELSE 0)
        /\ held'[f][Days] = held[f][Days] + (IF f = e THEN m ELSE 0)
    BY <1>3, <1>5 DEF FillOf
  <2> QED
    BY <1>5, <2>1 DEF Books
<1> QED
  BY <1>2, <1>4, <1>5 DEF Books

LEMMA BooksSplit ==
  ASSUME Typed, Books, NEW s \in Splits, ApplySplit(s), s \in Actions,
         status[s] # "paid", UNCHANGED <<day, cash, capital, evidence, owed>>
  PROVE  Books'
<1>1. \A d \in Dividends : status'[d] = "paid" <=> status[d] = "paid"
  <2>1. status' = status \/ status' = [status EXCEPT ![s] = "applied"]
    BY ApplySplitSays
  <2>2. \A d \in Dividends : d # s /\ d \in Actions
    BY LedgerAssumption DEF Actions
  <2> QED
    BY <2>1, <2>2 DEF Typed, TypeOK
<1>2. Paid' = Paid
  BY <1>1, PaidSame
<1>3. cash' = capital' + net' + Paid'
  BY <1>2 DEF Books, evidence
<1>4. CASE UNCHANGED <<lots, held>>
  BY <1>3, <1>4 DEF Books, evidence
<1>5. CASE /\ s.ex <= day /\ \A l \in OldLots(s) : (lots[l].qty * s.num) % s.den = 0
           /\ lots' = Split(s)
           /\ held' = [held EXCEPT ![s.etf] =
                [d \in 1 .. Days |-> IF d >= s.ex THEN held[s.etf][d] + Added(s)
                                     ELSE held[s.etf][d]]]
  <2>1. /\ day <= Days /\ Days \in 1 .. Days /\ day \in Int /\ s.ex \in Int
        /\ \A x \in 1 .. Days : x \in Int
    BY LedgerAssumption DEF Typed, TypeOK
  <2>2. ASSUME NEW f \in Etfs
        PROVE  /\ HeldIn(lots', f) = HeldIn(lots, f) + (IF f = s.etf THEN Added(s) ELSE 0)
               /\ CostIn(lots', f) = CostIn(lots, f)
               /\ \A x \in 1 .. Days :
                    held'[f][x] = held[f][x] + (IF f = s.etf /\ s.ex <= x THEN Added(s) ELSE 0)
    BY <1>5, SplitSays
  <2>3. ASSUME NEW f \in Etfs
        PROVE  HeldIn(lots', f) = held'[f][Days] /\ CostIn(lots', f) = basis'[f]
    BY <1>5, <2>1, <2>2 DEF Books, evidence
  <2>4. ASSUME NEW f \in Etfs, NEW x \in 1 .. Days, day <= x
        PROVE  held'[f][x] = held'[f][Days]
    <3>1. s.ex <= x /\ s.ex <= Days
      BY <1>5, <2>1, <2>4
    <3>2. /\ held'[f][x] = held[f][x] + (IF f = s.etf THEN Added(s) ELSE 0)
          /\ held'[f][Days] = held[f][Days] + (IF f = s.etf THEN Added(s) ELSE 0)
      BY <2>1, <2>2, <3>1
    <3> QED
      BY <2>4, <3>2 DEF Books
  <2> QED
    BY <1>3, <2>3, <2>4 DEF Books
<1> QED
  BY <1>4, <1>5, ApplySplitSays

LEMMA BooksHold == Spec => []Books
<1>1. Init => Books
  <2> SUFFICES ASSUME Init PROVE Books
    OBVIOUS
  <2>1. \A e : Its(lots, e) = {}
    BY DEF Init, Its, RowsOf
  <2>2. \A e : HeldIn(lots, e) = 0 /\ CostIn(lots, e) = 0
    BY <2>1, SumOfEmpty DEF HeldIn, CostIn
  <2>3. Paid = 0
    <3>1. With("paid") = {}
      BY DEF Init, With, Actions
    <3> QED
      BY <3>1, SumOfEmpty DEF Paid
  <2>4. capital \in Int /\ Days \in 1 .. Days
    BY LedgerAssumption DEF Init
  <2> QED
    BY <2>2, <2>3, <2>4 DEF Init, Books
<1>2. Books /\ Typed /\ Typed' /\ LeftToDo /\ [Next]_vars => Books'
  <2> SUFFICES ASSUME Books, Typed, Typed', LeftToDo, [Next]_vars PROVE Books'
    OBVIOUS
  <2>1. CASE UNCHANGED <<lots, held, cash, capital, basis, net, owed, status, day>>
    BY <2>1, BooksSame
  <2>2. ASSUME NEW c \in Capitals, SetCapital(c) PROVE Books'
    <3>1. UNCHANGED <<lots, held, basis, net, owed, status, day>>
      BY <2>2 DEF SetCapital, corporate, evidence, clock
    <3>2. cash' - capital' = cash - capital
      BY <2>2, LedgerAssumption DEF SetCapital, Typed, TypeOK
    <3> QED
      BY <3>1, <3>2, BooksSame
  <2>3. CASE PassTime
    <3>1. UNCHANGED <<lots, held, cash, capital, basis, net, owed, status>>
      BY <2>3 DEF PassTime, books, evidence
    <3>2. day' = day \/ day' = day + 1
      BY <2>3 DEF PassTime
    <3>3. cash' - capital' = cash - capital
      BY <3>1
    <3> QED
      BY <3>1, <3>2, <3>3, BooksSame
  <2>4. CASE Collect
    <3>1. /\ UNCHANGED <<lots, held, cash, capital, basis, net, owed, day>>
          /\ \A a \in Actions :
               status'[a] = status[a] \/ (status[a] = "unknown" /\ status'[a] = "pending")
      BY <2>4, CollectSays DEF evidence, clock
    <3>2. \A d \in Dividends : status'[d] = "paid" <=> status[d] = "paid"
      BY <3>1 DEF Actions
    <3>3. cash' - capital' = cash - capital
      BY <3>1
    <3> QED
      BY <3>1, <3>2, <3>3, BooksSame
  <2>5. CASE ApplyOne
    <3>1. PICK a \in todo : \/ a \in Dividends /\ ApplyDividend(a)
                            \/ a \in Splits /\ ApplySplit(a) /\ UNCHANGED <<owed, cash>>
      BY <2>5 DEF ApplyOne
    <3>2. UNCHANGED <<day, capital, evidence>> /\ status[a] \notin {"unknown", "paid", "applied"}
      BY <2>5 DEF ApplyOne, clock, LeftToDo
    <3>3. CASE a \in Dividends /\ ApplyDividend(a)
      <4>1. PICK b \in Int, st \in {"pending", "recorded", "entitled", "paid"} :
              /\ owed' = [owed EXCEPT ![a] = b] /\ status' = [status EXCEPT ![a] = st]
              /\ cash' = cash + (IF st = "paid" THEN b ELSE 0) /\ UNCHANGED <<lots, held>>
        BY <3>2, <3>3, ApplyDividendSays
      <4>2. Paid \in Int /\ Paid' = Paid + (IF st = "paid" THEN b ELSE 0)
        BY <3>2, <3>3, <4>1, PaidGrows
      <4>3. cash' = capital' + net' + Paid'
        BY <3>2, <4>1, <4>2 DEF Books, evidence, Typed, TypeOK
      <4> QED
        BY <3>2, <4>1, <4>3 DEF Books, evidence
    <3>4. CASE a \in Splits /\ ApplySplit(a) /\ UNCHANGED <<owed, cash>>
      BY <3>2, <3>4, BooksSplit DEF Actions
    <3> QED
      BY <3>1, <3>3, <3>4
  <2>6. CASE MatchOne
    <3>1. PICK e \in Etfs :
            \/ UNCHANGED <<lots, held, cash, evidence>>
            \/ \E q \in 1 .. MaxShares : Filled(e, q) /\ (FillSale(e, q) \/ FillBuy(e, q))
      BY <2>6, MatchOneSays
    <3>2. UNCHANGED <<day, capital, owed, status>>
      BY <2>6 DEF MatchOne, clock, corporate
    <3>3. CASE UNCHANGED <<lots, held, cash, evidence>>
      BY <2>1, <3>2, <3>3 DEF evidence
    <3>4. ASSUME NEW q \in 1 .. MaxShares, Filled(e, q), FillSale(e, q) \/ FillBuy(e, q)
          PROVE  Books'
      <4>1. q \in Int /\ price[e] * q \in Int /\ FeeOf(e, q) \in Int
        BY <3>4, FilledFits
      <4>2. CASE FillBuy(e, q)
        <5> DEFINE c == price[e] * q + FeeOf(e, q)
        <5>1. FillOf(e, q, c, -c) /\ c \in Int /\ -c \in Int
          BY <3>4, <4>1, <4>2, FillBuySays
        <5> HIDE DEF c
        <5> QED
          BY <3>2, <4>1, <5>1, BooksFilled
      <4>3. CASE FillSale(e, q)
        <5> DEFINE g == price[e] * q - FeeOf(e, q)
        <5>1. PICK c \in Int : FillOf(e, -q, c, g)
          BY <3>4, <4>3, FillSaleSays
        <5>2. g \in Int /\ -q \in Int
          BY <4>1
        <5> HIDE DEF g
        <5> QED
          BY <3>2, <5>1, <5>2, BooksFilled
      <4> QED
        BY <3>4, <4>2, <4>3
    <3> QED
      BY <3>1, <3>3, <3>4
  <2> QED
    BY <2>1, <2>2, <2>3, <2>4, <2>5, <2>6
    DEF Next, Submit, Withdraw, MatchStart, Abort, vars, clock, corporate, books, evidence
<1> QED
  BY <1>1, <1>2, TypedHolds, LeftToDoHolds, PTL DEF Spec

(* Lots, fills, position ledger and cash agree after every step that can   *)
(* be committed, for any lots and any splits, however late they came: what *)
(* _fill takes from the lots row by row, and what a floored cost leaves in *)
(* them, is what it posts to the ledgers.                                  *)
THEOREM TablesAlwaysAgree == Spec => []TablesAgree
BY BooksHold, BooksAgree, PTL
=============================================================================
