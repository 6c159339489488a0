------------------------------ MODULE FiniteSums -----------------------------
(* Facts about natural numbers and about sums over finite sets that the       *)
(* proofs of the other modules use.  The induction theorems of the library    *)
(* have an operator as a parameter; here induction is a fact about sets.      *)
EXTENDS Integers, FiniteSets, Functions, FiniteSetTheorems, WellFoundedInduction, TLAPS

------------------------------------------------------------------------------
(* Least elements and induction                                               *)

\* A set of natural numbers that is not empty has a least element.
LEMMA Least ==
  ASSUME NEW T \in SUBSET Nat, T # {}
  PROVE  \E x \in T : \A y \in T : x <= y
<1> DEFINE Upto(k) == 0 .. k
           B == {Upto(k) : k \in T}
<1>1. IsWellFoundedOn(StrictSubsetOrdering(Nat), FiniteSubsetsOf(Nat))
  BY FS_StrictSubsetOrderingWellFounded DEF FiniteSubsetsOf
<1>2. B \subseteq FiniteSubsetsOf(Nat) /\ B # {}
  <2>1. ASSUME NEW k \in T
        PROVE  IsFiniteSet(0 .. k)
    <3>1. 0 \in Int /\ k \in Int
      OBVIOUS
    <3> QED BY <3>1, FS_Interval
  <2>2. \A k \in T : 0 .. k \subseteq Nat
    OBVIOUS
  <2>3. ASSUME NEW k \in T
        PROVE  0 .. k \in FiniteSubsetsOf(Nat)
    BY <2>1, <2>2 DEF FiniteSubsetsOf
  <2> QED BY <2>3
<1>3. PICK b \in B : \A c \in B : <<c, b>> \notin StrictSubsetOrdering(Nat)
  BY <1>1, <1>2, WFMin
<1>4. PICK x \in T : b = 0 .. x
  OBVIOUS
<1>5. ASSUME NEW y \in T, y < x
      PROVE  FALSE
  <2>1. 0 .. y \in B /\ 0 .. y \subseteq Nat /\ 0 .. x \subseteq Nat
    BY <1>2
  <2>2. 0 .. y \subseteq 0 .. x /\ x \in 0 .. x /\ x \notin 0 .. y
    BY <1>5
  <2> QED BY <1>3, <1>4, <2>1, <2>2 DEF StrictSubsetOrdering
<1> QED BY <1>5

\* Induction: a set that holds 0 and the successor of what it holds is Nat.
LEMMA Inductive ==
  ASSUME NEW T \in SUBSET Nat, 0 \in T, \A n \in T : n + 1 \in T
  PROVE  T = Nat
<1>1. SUFFICES ASSUME Nat \ T # {}
               PROVE  FALSE
  OBVIOUS
<1>2. PICK x \in Nat \ T : \A y \in Nat \ T : x <= y
  BY <1>1, Least
<1>3. x - 1 \in T /\ (x - 1) + 1 = x
  BY <1>2
<1> QED BY <1>2, <1>3

\* Induction on finite sets: a family of subsets of S that holds the empty set,
\* and a set as soon as it holds all that have one element less, is complete.
LEMMA RemovalInduction ==
  ASSUME NEW S, IsFiniteSet(S),
         NEW F \in SUBSET SUBSET S, {} \in F,
         \A A \in SUBSET S : A # {} /\ (\A x \in A : A \ {x} \in F) => A \in F
  PROVE  F = SUBSET S
<1> DEFINE T == {n \in Nat : \A A \in SUBSET S : Cardinality(A) = n => A \in F}
<1>1. \A A \in SUBSET S : IsFiniteSet(A) /\ Cardinality(A) \in Nat
  BY FS_Subset, FS_CardinalityType
<1>2. 0 \in T
  <2>1. ASSUME NEW A \in SUBSET S, Cardinality(A) = 0
        PROVE  A \in F
    <3>1. A = {}
      BY <1>1, <2>1, FS_EmptySet
    <3> QED BY <3>1
  <2> QED BY <2>1
<1>3. ASSUME NEW n \in T
      PROVE  n + 1 \in T
  <2>1. ASSUME NEW A \in SUBSET S, Cardinality(A) = n + 1
        PROVE  A \in F
    <3>1. A # {}
      BY <2>1, <1>1, FS_EmptySet
    <3>2. ASSUME NEW x \in A
          PROVE  A \ {x} \in F
      <4>1. Cardinality(A \ {x}) = Cardinality(A) - 1
        BY <1>1, FS_RemoveElement
      <4> QED BY <2>1, <4>1
    <3> QED BY <3>1, <3>2
  <2> QED BY <2>1
<1>4. T = Nat
  <2> HIDE DEF T
  <2>1. T \in SUBSET Nat
    BY DEF T
  <2> QED BY <1>2, <1>3, <2>1, Inductive
<1> QED BY <1>1, <1>4

\* The same, one element more at a time.
LEMMA FiniteInduction ==
  ASSUME NEW S, IsFiniteSet(S),
         NEW F \in SUBSET SUBSET S, {} \in F,
         \A A \in F : \A x \in S \ A : A \cup {x} \in F
  PROVE  S \in F
<1>1. ASSUME NEW A \in SUBSET S, A # {}, \A x \in A : A \ {x} \in F
      PROVE  A \in F
  <2>1. PICK x \in A : TRUE
    BY <1>1
  <2>2. A \ {x} \in F /\ x \in S \ (A \ {x}) /\ (A \ {x}) \cup {x} = A
    BY <1>1
  <2> QED BY <2>2
<1>2. F = SUBSET S
  BY <1>1, RemovalInduction
<1> QED BY <1>2

\* A finite set of integers that is not empty has a greatest element.
LEMMA Greatest ==
  ASSUME NEW S \in SUBSET Int, IsFiniteSet(S), S # {}
  PROVE  \E x \in S : \A y \in S : y <= x
<1> DEFINE F == {A \in SUBSET S : A # {} => \E x \in A : \A y \in A : y <= x}
<1>1. {} \in F
  OBVIOUS
<1>2. ASSUME NEW A \in F, NEW x \in S \ A
      PROVE  A \cup {x} \in F
  <2>1. CASE A = {}
    <3>1. \A y \in A \cup {x} : y <= x
      BY <2>1
    <3> QED BY <3>1
  <2>2. CASE A # {}
    <3>1. PICK m \in A : \A y \in A : y <= m
      BY <2>2
    <3>2. m \in Int /\ x \in Int /\ A \subseteq Int
      OBVIOUS
    <3>3. CASE x <= m
      <4>1. \A y \in A \cup {x} : y <= m
        BY <3>1, <3>3
      <4> QED BY <4>1
    <3>4. CASE m < x
      <4>1. \A y \in A \cup {x} : y <= x
        BY <3>1, <3>2, <3>4
      <4> QED BY <4>1
    <3> QED BY <3>2, <3>3, <3>4
  <2> QED BY <2>1, <2>2
<1>3. S \in F
  <2> HIDE DEF F
  <2>1. F \in SUBSET SUBSET S
    BY DEF F
  <2> QED BY <1>1, <1>2, <2>1, FiniteInduction
<1> QED BY <1>3

------------------------------------------------------------------------------
(* SumFunctionOnSet(w, S): the library adds up in an order of its own choice; *)
(* the sum is nevertheless what one expects of any element.                   *)
AnyOf(s) == CHOOSE x \in s : TRUE

\* f holds the sums of w over all subsets of S.
Sums(w, S, f) ==
  f = [s \in SUBSET S |-> IF s = {} THEN 0 ELSE w[AnyOf(s)] + f[s \ {AnyOf(s)}]]

LEMMA SumMeans ==
  ASSUME NEW w, NEW S
  PROVE  SumFunctionOnSet(w, S) = (CHOOSE f : Sums(w, S, f))[S]
BY DEF SumFunctionOnSet, FoldFunctionOnSet, MapThenFoldSet, Sums, AnyOf

LEMMA SumsUnique ==
  ASSUME NEW w, NEW S, IsFiniteSet(S), NEW f, NEW g, Sums(w, S, f), Sums(w, S, g)
  PROVE  f[S] = g[S]
<1> DEFINE F == {A \in SUBSET S : f[A] = g[A]}
<1>1. \A A \in SUBSET S :
        /\ f[A] = IF A = {} THEN 0 ELSE w[AnyOf(A)] + f[A \ {AnyOf(A)}]
        /\ g[A] = IF A = {} THEN 0 ELSE w[AnyOf(A)] + g[A \ {AnyOf(A)}]
  BY DEF Sums
<1>2. {} \in F
  BY <1>1
<1>3. ASSUME NEW A \in SUBSET S, A # {}, \A x \in A : A \ {x} \in F
      PROVE  A \in F
  <2>1. AnyOf(A) \in A
    BY <1>3 DEF AnyOf
  <2>2. f[A \ {AnyOf(A)}] = g[A \ {AnyOf(A)}]
    BY <1>3, <2>1
  <2> QED BY <1>1, <1>3, <2>2
<1>4. F = SUBSET S
  <2> HIDE DEF F
  <2>1. F \in SUBSET SUBSET S
    BY DEF F
  <2> QED BY <1>2, <1>3, <2>1, RemovalInduction
<1> QED BY <1>4

LEMMA SumChosen ==
  ASSUME NEW w, NEW S, IsFiniteSet(S)
  PROVE  SumFunctionOnSet(w, S)
           = IF S = {} THEN 0
             ELSE w[AnyOf(S)] + SumFunctionOnSet(w, S \ {AnyOf(S)})
<1> DEFINE G(A) == SumFunctionOnSet(w, A)
           Next(A) == IF A = {} THEN 0 ELSE w[AnyOf(A)] + G(A \ {AnyOf(A)})
           Fine(A) == G(A) = Next(A)
           F == {A \in SUBSET S : \A B \in SUBSET A : Fine(B)}
<1>1. ASSUME NEW A \in SUBSET S, \A B \in SUBSET A : B # A => Fine(B)
      PROVE  Fine(A)
  <2> DEFINE h == [B \in SUBSET A |-> Next(B)]
             k == CHOOSE f : Sums(w, A, f)
  <2>1. \A B \in SUBSET A : B # A => h[B] = G(B)
    BY <1>1
  <2>2. \A B \in SUBSET A : B # {} => /\ AnyOf(B) \in B
                                      /\ B \ {AnyOf(B)} \in SUBSET A
                                      /\ B \ {AnyOf(B)} # A
    BY DEF AnyOf
  <2>3. \A B \in SUBSET A :
          h[B] = IF B = {} THEN 0 ELSE w[AnyOf(B)] + h[B \ {AnyOf(B)}]
    <3> SUFFICES ASSUME NEW B \in SUBSET A
                 PROVE  h[B] = IF B = {} THEN 0 ELSE w[AnyOf(B)] + h[B \ {AnyOf(B)}]
      OBVIOUS
    <3>1. CASE B = {}
      BY <3>1
    <3>2. CASE B # {}
      <4>1. h[B \ {AnyOf(B)}] = G(B \ {AnyOf(B)})
        BY <2>1, <2>2, <3>2
      <4>2. h[B] = w[AnyOf(B)] + G(B \ {AnyOf(B)})
        BY <3>2
      <4> HIDE DEF h
      <4> QED BY <3>2, <4>1, <4>2
    <3> QED BY <3>1, <3>2
  <2>4. h = [B \in SUBSET A |-> h[B]]
    OBVIOUS
  <2>5. Sums(w, A, h)
    <3> HIDE DEF h
    <3> QED BY <2>3, <2>4 DEF Sums
  <2>6. Sums(w, A, k)
    BY <2>5
  <2>7. IsFiniteSet(A)
    BY FS_Subset
  <2>8. k[A] = h[A]
    <3> HIDE DEF h, k
    <3> QED BY <2>5, <2>6, <2>7, SumsUnique
  <2>9. G(A) = k[A]
    BY SumMeans
  <2>10. h[A] = Next(A)
    OBVIOUS
  <2> HIDE DEF h, k
  <2> QED BY <2>8, <2>9, <2>10
<1> HIDE DEF Fine
<1>2. {} \in F
  BY <1>1
<1>3. ASSUME NEW A \in SUBSET S, A # {}, \A x \in A : A \ {x} \in F
      PROVE  A \in F
  <2>1. \A B \in SUBSET A : B # A => \E x \in A : B \in SUBSET (A \ {x})
    OBVIOUS
  <2>2. \A B \in SUBSET A : B # A => Fine(B)
    BY <1>3, <2>1
  <2>3. Fine(A)
    BY <1>1, <2>2
  <2> QED BY <2>2, <2>3
<1>4. F = SUBSET S
  <2> HIDE DEF F
  <2>1. F \in SUBSET SUBSET S
    BY DEF F
  <2> QED BY <1>2, <1>3, <2>1, RemovalInduction
<1>5. Fine(S)
  BY <1>4
<1> QED BY <1>5 DEF Fine

LEMMA SumEmpty ==
  ASSUME NEW w
  PROVE  SumFunctionOnSet(w, {}) = 0
BY SumChosen, FS_EmptySet

LEMMA SumInt ==
  ASSUME NEW w, NEW S, IsFiniteSet(S), \A x \in S : w[x] \in Int
  PROVE  SumFunctionOnSet(w, S) \in Int
<1> DEFINE F == {A \in SUBSET S : SumFunctionOnSet(w, A) \in Int}
<1>1. {} \in F
  BY SumEmpty
<1>2. ASSUME NEW A \in SUBSET S, A # {}, \A x \in A : A \ {x} \in F
      PROVE  A \in F
  <2>1. AnyOf(A) \in A /\ IsFiniteSet(A)
    BY <1>2, FS_Subset DEF AnyOf
  <2>2. SumFunctionOnSet(w, A \ {AnyOf(A)}) \in Int /\ w[AnyOf(A)] \in Int
    BY <1>2, <2>1
  <2>3. SumFunctionOnSet(w, A) = w[AnyOf(A)] + SumFunctionOnSet(w, A \ {AnyOf(A)})
    BY <1>2, <2>1, SumChosen
  <2>4. SumFunctionOnSet(w, A) \in Int
    BY <2>2, <2>3
  <2> QED BY <2>4
<1>3. F = SUBSET S
  <2> HIDE DEF F
  <2>1. F \in SUBSET SUBSET S
    BY DEF F
  <2> QED BY <1>1, <1>2, <2>1, RemovalInduction
<1> QED BY <1>3

\* Any element may be taken out first.
LEMMA SumRemove ==
  ASSUME NEW w, NEW S, IsFiniteSet(S), \A x \in S : w[x] \in Int, NEW x \in S
  PROVE  SumFunctionOnSet(w, S) = w[x] + SumFunctionOnSet(w, S \ {x})
<1> DEFINE G(A) == SumFunctionOnSet(w, A)
           F == {A \in SUBSET S : \A y \in A : G(A) = w[y] + G(A \ {y})}
<1>1. \A A \in SUBSET S : IsFiniteSet(A) /\ G(A) \in Int
  BY FS_Subset, SumInt
<1>2. {} \in F
  OBVIOUS
<1>3. ASSUME NEW A \in SUBSET S, A # {}, \A y \in A : A \ {y} \in F
      PROVE  A \in F
  <2> DEFINE c == AnyOf(A)
  <2>1. c \in A
    BY <1>3 DEF AnyOf
  <2>2. G(A) = w[c] + G(A \ {c})
    BY <1>1, <1>3, SumChosen
  <2> HIDE DEF c
  <2>3. ASSUME NEW y \in A
        PROVE  G(A) = w[y] + G(A \ {y})
    <3>1. CASE y = c
      BY <2>2, <3>1
    <3>2. CASE y # c
      <4>1. G(A \ {c}) = w[y] + G((A \ {c}) \ {y})
        BY <1>3, <2>1, <3>2
      <4>2. G(A \ {y}) = w[c] + G((A \ {y}) \ {c})
        BY <1>3, <2>1, <3>2
      <4>3. (A \ {c}) \ {y} = (A \ {y}) \ {c}
        OBVIOUS
      <4>4. w[c] \in Int /\ w[y] \in Int /\ G((A \ {y}) \ {c}) \in Int
        BY <1>1, <2>1
      <4>5. G(A) = w[c] + (w[y] + G((A \ {y}) \ {c}))
        BY <2>2, <4>1, <4>3
      <4>6. \A a, b, g \in Int : a + (b + g) = b + (a + g)
        OBVIOUS
      <4> HIDE DEF G
      <4>7. w[c] + (w[y] + G((A \ {y}) \ {c})) = w[y] + (w[c] + G((A \ {y}) \ {c}))
        BY <4>4, <4>6
      <4> QED BY <4>2, <4>5, <4>7
    <3> QED BY <3>1, <3>2
  <2> QED BY <2>3
<1>4. F = SUBSET S
  <2> HIDE DEF F
  <2>1. F \in SUBSET SUBSET S
    BY DEF F
  <2> QED BY <1>2, <1>3, <2>1, RemovalInduction
<1> QED BY <1>4

LEMMA SumAdd ==
  ASSUME NEW w, NEW A, IsFiniteSet(A), NEW x, x \notin A, \A y \in A \cup {x} : w[y] \in Int
  PROVE  SumFunctionOnSet(w, A \cup {x}) = SumFunctionOnSet(w, A) + w[x]
<1>1. IsFiniteSet(A \cup {x})
  BY FS_AddElement
<1>2. (A \cup {x}) \ {x} = A
  OBVIOUS
<1>3. SumFunctionOnSet(w, A \cup {x}) = w[x] + SumFunctionOnSet(w, A)
  BY <1>1, <1>2, SumRemove
<1>4. SumFunctionOnSet(w, A) \in Int /\ w[x] \in Int
  BY SumInt
<1> QED BY <1>3, <1>4

\* A relation between two sums holds as soon as it holds of every summand.
LEMMA SumSame ==
  ASSUME NEW w, NEW v, NEW S, IsFiniteSet(S), \A x \in S : w[x] \in Int /\ w[x] = v[x]
  PROVE  SumFunctionOnSet(w, S) = SumFunctionOnSet(v, S)
<1> DEFINE F == {A \in SUBSET S : SumFunctionOnSet(w, A) = SumFunctionOnSet(v, A)}
<1>1. {} \in F
  BY SumEmpty
<1>2. ASSUME NEW A \in F, NEW x \in S \ A
      PROVE  A \cup {x} \in F
  <2>1. IsFiniteSet(A)
    BY FS_Subset
  <2>2. SumFunctionOnSet(w, A \cup {x}) = SumFunctionOnSet(w, A) + w[x]
    BY <2>1, SumAdd
  <2>3. SumFunctionOnSet(v, A \cup {x}) = SumFunctionOnSet(v, A) + v[x]
    BY <2>1, SumAdd
  <2> QED BY <2>2, <2>3
<1>3. S \in F
  <2> HIDE DEF F
  <2>1. F \in SUBSET SUBSET S
    BY DEF F
  <2> QED BY <1>1, <1>2, <2>1, FiniteInduction
<1> QED BY <1>3

LEMMA SumLeq ==
  ASSUME NEW w, NEW v, NEW S, IsFiniteSet(S),
         \A x \in S : w[x] \in Int /\ v[x] \in Int /\ w[x] <= v[x]
  PROVE  SumFunctionOnSet(w, S) <= SumFunctionOnSet(v, S)
<1> DEFINE F == {A \in SUBSET S : SumFunctionOnSet(w, A) <= SumFunctionOnSet(v, A)}
<1>1. {} \in F
  BY SumEmpty
<1>2. ASSUME NEW A \in F, NEW x \in S \ A
      PROVE  A \cup {x} \in F
  <2>1. IsFiniteSet(A)
    BY FS_Subset
  <2>2. SumFunctionOnSet(w, A \cup {x}) = SumFunctionOnSet(w, A) + w[x]
    BY <2>1, SumAdd
  <2>3. SumFunctionOnSet(v, A \cup {x}) = SumFunctionOnSet(v, A) + v[x]
    BY <2>1, SumAdd
  <2>4. /\ SumFunctionOnSet(w, A) \in Int /\ SumFunctionOnSet(v, A) \in Int
        /\ SumFunctionOnSet(w, A) <= SumFunctionOnSet(v, A)
        /\ w[x] \in Int /\ v[x] \in Int /\ w[x] <= v[x]
    BY <2>1, SumInt
  <2>5. SumFunctionOnSet(w, A \cup {x}) <= SumFunctionOnSet(v, A \cup {x})
    BY <2>2, <2>3, <2>4
  <2> QED BY <2>5
<1>3. S \in F
  <2> HIDE DEF F
  <2>1. F \in SUBSET SUBSET S
    BY DEF F
  <2> QED BY <1>1, <1>2, <2>1, FiniteInduction
<1> QED BY <1>3

LEMMA SumScale ==
  ASSUME NEW w, NEW v, NEW c \in Int, NEW S, IsFiniteSet(S),
         \A x \in S : w[x] \in Int /\ v[x] = c * w[x]
  PROVE  SumFunctionOnSet(v, S) = c * SumFunctionOnSet(w, S)
<1> DEFINE F == {A \in SUBSET S : SumFunctionOnSet(v, A) = c * SumFunctionOnSet(w, A)}
<1>1. {} \in F
  BY SumEmpty
<1>2. ASSUME NEW A \in F, NEW x \in S \ A
      PROVE  A \cup {x} \in F
  <2>1. IsFiniteSet(A)
    BY FS_Subset
  <2>2. \A y \in A \cup {x} : v[y] \in Int
    OBVIOUS
  <2>3. SumFunctionOnSet(w, A \cup {x}) = SumFunctionOnSet(w, A) + w[x]
    BY <2>1, SumAdd
  <2>4. SumFunctionOnSet(v, A \cup {x}) = SumFunctionOnSet(v, A) + v[x]
    BY <2>1, <2>2, SumAdd
  <2>5. /\ SumFunctionOnSet(w, A) \in Int /\ w[x] \in Int
        /\ SumFunctionOnSet(v, A) = c * SumFunctionOnSet(w, A)
        /\ v[x] = c * w[x]
    BY <2>1, SumInt
  <2>6. \A a, b \in Int : c * a + c * b = c * (a + b)
    OBVIOUS
  <2>7. SumFunctionOnSet(v, A \cup {x}) = c * SumFunctionOnSet(w, A \cup {x})
    BY <2>3, <2>4, <2>5, <2>6
  <2> QED BY <2>7
<1>3. S \in F
  <2> HIDE DEF F
  <2>1. F \in SUBSET SUBSET S
    BY DEF F
  <2> QED BY <1>1, <1>2, <2>1, FiniteInduction
<1> QED BY <1>3

LEMMA SumNat ==
  ASSUME NEW w, NEW S, IsFiniteSet(S), \A x \in S : w[x] \in Nat
  PROVE  SumFunctionOnSet(w, S) \in Nat
<1> DEFINE F == {A \in SUBSET S : SumFunctionOnSet(w, A) \in Nat}
<1>1. {} \in F
  BY SumEmpty
<1>2. ASSUME NEW A \in F, NEW x \in S \ A
      PROVE  A \cup {x} \in F
  <2>1. IsFiniteSet(A)
    BY FS_Subset
  <2>2. SumFunctionOnSet(w, A \cup {x}) = SumFunctionOnSet(w, A) + w[x]
    BY <2>1, SumAdd
  <2> QED BY <2>2
<1>3. S \in F
  <2> HIDE DEF F
  <2>1. F \in SUBSET SUBSET S
    BY DEF F
  <2> QED BY <1>1, <1>2, <2>1, FiniteInduction
<1> QED BY <1>3

\* Multiples of u add up to a multiple of u.
LEMMA Multiples ==
  ASSUME NEW a \in Int, NEW b \in Int, NEW u \in Nat \ {0}, a % u = 0, b % u = 0
  PROVE  (a + b) % u = 0 /\ (a - b) % u = 0
<1>1. a = (a \div u) * u /\ b = (b \div u) * u /\ a \div u \in Int /\ b \div u \in Int
  OBVIOUS
<1>2. \A i, j \in Int : i * u + j * u = (i + j) * u /\ i * u - j * u = (i - j) * u
  OBVIOUS
<1>3. \A i \in Int : (i * u) % u = 0
  OBVIOUS
<1>4. /\ a + b = ((a \div u) + (b \div u)) * u
      /\ a - b = ((a \div u) - (b \div u)) * u
  BY <1>1, <1>2
<1> QED BY <1>1, <1>3, <1>4

LEMMA SumMultiple ==
  ASSUME NEW w, NEW S, IsFiniteSet(S), NEW u \in Nat \ {0},
         \A x \in S : w[x] \in Int /\ w[x] % u = 0
  PROVE  SumFunctionOnSet(w, S) % u = 0
<1> DEFINE F == {A \in SUBSET S : SumFunctionOnSet(w, A) % u = 0}
<1>1. {} \in F
  <2>1. 0 % u = 0
    OBVIOUS
  <2> QED BY <2>1, SumEmpty
<1>2. ASSUME NEW A \in F, NEW x \in S \ A
      PROVE  A \cup {x} \in F
  <2>1. IsFiniteSet(A)
    BY FS_Subset
  <2>2. SumFunctionOnSet(w, A \cup {x}) = SumFunctionOnSet(w, A) + w[x]
    BY <2>1, SumAdd
  <2>3. SumFunctionOnSet(w, A) \in Int
    BY <2>1, SumInt
  <2>4. SumFunctionOnSet(w, A \cup {x}) % u = 0
    BY <2>2, <2>3, Multiples
  <2> QED BY <2>4
<1>3. S \in F
  <2> HIDE DEF F
  <2>1. F \in SUBSET SUBSET S
    BY DEF F
  <2> QED BY <1>1, <1>2, <2>1, FiniteInduction
<1> QED BY <1>3

\* The sum over two sets that have nothing in common.
LEMMA SumSplit ==
  ASSUME NEW w, NEW A, NEW B, IsFiniteSet(A), IsFiniteSet(B), A \cap B = {},
         \A x \in A \cup B : w[x] \in Int
  PROVE  SumFunctionOnSet(w, A \cup B) = SumFunctionOnSet(w, A) + SumFunctionOnSet(w, B)
<1> DEFINE F == {C \in SUBSET B :
                   SumFunctionOnSet(w, A \cup C) = SumFunctionOnSet(w, A) + SumFunctionOnSet(w, C)}
<1>1. {} \in F
  <2>1. A \cup {} = A /\ SumFunctionOnSet(w, A) \in Int /\ SumFunctionOnSet(w, {}) = 0
    BY SumInt, SumEmpty
  <2> QED BY <2>1
<1>2. ASSUME NEW C \in F, NEW x \in B \ C
      PROVE  C \cup {x} \in F
  <2>1. IsFiniteSet(C) /\ IsFiniteSet(A \cup C)
    BY FS_Subset, FS_Union
  <2>2. SumFunctionOnSet(w, C \cup {x}) = SumFunctionOnSet(w, C) + w[x]
    BY <2>1, SumAdd
  <2>3. SumFunctionOnSet(w, (A \cup C) \cup {x}) = SumFunctionOnSet(w, A \cup C) + w[x]
    <3>1. x \notin A \cup C /\ \A y \in (A \cup C) \cup {x} : w[y] \in Int
      OBVIOUS
    <3> QED BY <2>1, <3>1, SumAdd
  <2>4. /\ SumFunctionOnSet(w, A) \in Int /\ SumFunctionOnSet(w, C) \in Int /\ w[x] \in Int
        /\ SumFunctionOnSet(w, A \cup C) = SumFunctionOnSet(w, A) + SumFunctionOnSet(w, C)
    BY <2>1, SumInt
  <2>5. A \cup (C \cup {x}) = (A \cup C) \cup {x}
    OBVIOUS
  <2>6. SumFunctionOnSet(w, (A \cup C) \cup {x})
          = SumFunctionOnSet(w, A) + SumFunctionOnSet(w, C \cup {x})
    BY <2>2, <2>3, <2>4
  <2> QED BY <2>5, <2>6
<1>3. B \in F
  <2> HIDE DEF F
  <2>1. F \in SUBSET SUBSET B
    BY DEF F
  <2> QED BY <1>1, <1>2, <2>1, FiniteInduction
<1> QED BY <1>3

LEMMA SumSubset ==
  ASSUME NEW w, NEW S, IsFiniteSet(S), NEW A \in SUBSET S, \A x \in S : w[x] \in Nat
  PROVE  SumFunctionOnSet(w, A) <= SumFunctionOnSet(w, S)
<1>1. IsFiniteSet(A) /\ IsFiniteSet(S \ A) /\ A \cap (S \ A) = {} /\ A \cup (S \ A) = S
  BY FS_Subset, FS_Difference
<1>2. SumFunctionOnSet(w, A \cup (S \ A))
        = SumFunctionOnSet(w, A) + SumFunctionOnSet(w, S \ A)
  BY <1>1, SumSplit
<1>3. SumFunctionOnSet(w, A) \in Nat /\ SumFunctionOnSet(w, S \ A) \in Nat
  BY <1>1, SumNat
<1>4. \A a, b \in Nat : a <= a + b
  OBVIOUS
<1> QED BY <1>1, <1>2, <1>3, <1>4

LEMMA SumZero ==
  ASSUME NEW w, NEW S, IsFiniteSet(S), \A x \in S : w[x] = 0
  PROVE  SumFunctionOnSet(w, S) = 0
<1>1. \A x \in S : w[x] \in Int /\ w[x] = 0 * w[x]
  OBVIOUS
<1>2. SumFunctionOnSet(w, S) = 0 * SumFunctionOnSet(w, S)
  BY <1>1, SumScale
<1>3. SumFunctionOnSet(w, S) \in Int
  BY <1>1, SumInt
<1> QED BY <1>2, <1>3

LEMMA SumOne ==
  ASSUME NEW w, NEW x, w[x] \in Int
  PROVE  SumFunctionOnSet(w, {x}) = w[x]
<1>1. SumFunctionOnSet(w, {} \cup {x}) = SumFunctionOnSet(w, {}) + w[x]
  BY SumAdd, FS_EmptySet
<1>2. {} \cup {x} = {x}
  OBVIOUS
<1> QED BY <1>1, <1>2, SumEmpty

\* The sum class by class: g[k] is the sum over the class C[k] of what h maps
\* to k.
LEMMA SumClasses ==
  ASSUME NEW w, NEW S, NEW K, NEW g, IsFiniteSet(S), IsFiniteSet(K),
         NEW h \in [S -> K], NEW C \in [K -> SUBSET S],
         \A x \in S : w[x] \in Int,
         \A k \in K : \A x \in S : x \in C[k] <=> h[x] = k,
         \A k \in K : g[k] = SumFunctionOnSet(w, C[k])
  PROVE  SumFunctionOnSet(w, S) = SumFunctionOnSet(g, K)
<1> DEFINE Of(A) == {x \in S : h[x] \in A}
           Class(k) == C[k]
           F == {A \in SUBSET K : SumFunctionOnSet(w, Of(A)) = SumFunctionOnSet(g, A)}
<1>1. \A k \in K : g[k] \in Int
  <2> SUFFICES ASSUME NEW k \in K
               PROVE  g[k] \in Int
    OBVIOUS
  <2>1. IsFiniteSet(Class(k)) /\ \A x \in Class(k) : w[x] \in Int
    BY FS_Subset
  <2>2. g[k] = SumFunctionOnSet(w, Class(k))
    OBVIOUS
  <2> HIDE DEF Class
  <2> QED BY <2>1, <2>2, SumInt
<1>2. {} \in F
  <2>1. Of({}) = {}
    OBVIOUS
  <2> QED BY <2>1, SumEmpty
<1>3. ASSUME NEW A \in F, NEW k \in K \ A
      PROVE  A \cup {k} \in F
  <2>1. /\ Of(A \cup {k}) = Of(A) \cup Class(k) /\ Of(A) \cap Class(k) = {}
        /\ \A x \in Of(A) \cup Class(k) : w[x] \in Int
    OBVIOUS
  <2>2. IsFiniteSet(Of(A)) /\ IsFiniteSet(Class(k)) /\ IsFiniteSet(A)
    BY FS_Subset
  <2>3. SumFunctionOnSet(w, Of(A) \cup Class(k))
          = SumFunctionOnSet(w, Of(A)) + SumFunctionOnSet(w, Class(k))
    <3> HIDE DEF Of, Class
    <3> QED BY <2>1, <2>2, SumSplit
  <2>4. SumFunctionOnSet(g, A \cup {k}) = SumFunctionOnSet(g, A) + g[k]
    BY <1>1, <2>2, SumAdd
  <2>5. SumFunctionOnSet(w, Of(A \cup {k})) = SumFunctionOnSet(g, A \cup {k})
    <3>1. SumFunctionOnSet(w, Of(A)) = SumFunctionOnSet(g, A)
      OBVIOUS
    <3>2. g[k] = SumFunctionOnSet(w, Class(k))
      OBVIOUS
    <3>3. Of(A \cup {k}) = Of(A) \cup Class(k)
      BY <2>1
    <3> HIDE DEF Of, Class
    <3> QED BY <2>3, <2>4, <3>1, <3>2, <3>3
  <2> QED BY <2>5
<1>4. K \in F
  <2> HIDE DEF F
  <2>1. F \in SUBSET SUBSET K
    BY DEF F
  <2> QED BY <1>2, <1>3, <2>1, FiniteInduction
<1>5. Of(K) = S
  OBVIOUS
<1> QED BY <1>4, <1>5

\* What a function takes from a finite set is finite.
LEMMA ImageFinite ==
  ASSUME NEW h, NEW S, IsFiniteSet(S)
  PROVE  IsFiniteSet({h[x] : x \in S})
<1> DEFINE F == {A \in SUBSET S : IsFiniteSet({h[x] : x \in A})}
<1>1. {} \in F
  BY FS_EmptySet
<1>2. ASSUME NEW A \in F, NEW y \in S \ A
      PROVE  A \cup {y} \in F
  <2>1. {h[x] : x \in A \cup {y}} = {h[x] : x \in A} \cup {h[y]}
    OBVIOUS
  <2>2. IsFiniteSet({h[x] : x \in A} \cup {h[y]})
    BY FS_AddElement
  <2> QED BY <2>1, <2>2
<1>3. S \in F
  <2> HIDE DEF F
  <2>1. F \in SUBSET SUBSET S
    BY DEF F
  <2> QED BY <1>1, <1>2, <2>1, FiniteInduction
<1> QED BY <1>3

\* The elements may be renamed.
LEMMA SumRenamed ==
  ASSUME NEW w, NEW v, NEW h, NEW S, NEW T, IsFiniteSet(S),
         \A x \in S : w[x] \in Int /\ h[x] \in T /\ v[h[x]] = w[x],
         \A x, y \in S : h[x] = h[y] => x = y,
         \A t \in T : \E x \in S : h[x] = t
  PROVE  SumFunctionOnSet(w, S) = SumFunctionOnSet(v, T)
<1>1. T = {h[x] : x \in S}
  OBVIOUS
<1>2. IsFiniteSet(T)
  BY <1>1, ImageFinite
<1> DEFINE C == [t \in T |-> {x \in S : h[x] = t}]
<1>3. ASSUME NEW t \in T
      PROVE  v[t] = SumFunctionOnSet(w, C[t])
  <2>1. PICK x \in S : h[x] = t
    OBVIOUS
  <2>2. {y \in S : h[y] = t} = {x}
    BY <2>1
  <2>3. SumFunctionOnSet(w, {x}) = w[x]
    BY SumOne
  <2> QED BY <2>1, <2>2, <2>3
<1> DEFINE n == [x \in S |-> h[x]]
<1>4. n \in [S -> T] /\ C \in [T -> SUBSET S]
      /\ \A t \in T : \A x \in S : x \in C[t] <=> n[x] = t
  OBVIOUS
<1>5. (\A x \in S : w[x] \in Int) /\ \A t \in T : v[t] = SumFunctionOnSet(w, C[t])
  BY <1>3
<1> HIDE DEF C, n
<1> QED BY <1>2, <1>4, <1>5, SumClasses

\* Shares of an amount, by ratio and rounded down, add up to no more than it.
LEMMA SumOfShares ==
  ASSUME NEW want, NEW got, NEW G, IsFiniteSet(G), NEW amount \in Nat,
         NEW total \in Nat \ {0}, total = SumFunctionOnSet(want, G),
         \A d \in G : /\ want[d] \in Nat /\ got[d] \in Nat
                      /\ got[d] <= (amount * want[d]) \div total
  PROVE  SumFunctionOnSet(got, G) <= amount
<1> DEFINE v == [d \in G |-> total * got[d]]
           u == [d \in G |-> amount * want[d]]
<1>1. \A d \in G : /\ want[d] \in Int /\ u[d] = amount * want[d]
                   /\ got[d] \in Int /\ v[d] = total * got[d]
  OBVIOUS
<1>2. SumFunctionOnSet(u, G) = amount * total
  <2> HIDE DEF u
  <2> QED BY <1>1, SumScale
<1>3. SumFunctionOnSet(v, G) = total * SumFunctionOnSet(got, G)
  <2> HIDE DEF v
  <2> QED BY <1>1, SumScale
<1>4. \A d \in G : v[d] \in Int /\ u[d] \in Int /\ v[d] <= u[d]
  <2> SUFFICES ASSUME NEW d \in G
               PROVE  v[d] \in Int /\ u[d] \in Int /\ v[d] <= u[d]
    OBVIOUS
  <2>1. v[d] = total * got[d] /\ u[d] = amount * want[d]
    OBVIOUS
  <2>2. total * got[d] \in Int /\ amount * want[d] \in Int
    OBVIOUS
  <2>3. \A a \in Int : total * (a \div total) <= a
    OBVIOUS
  <2>4. \A a, b \in Int : a <= b => total * a <= total * b
    OBVIOUS
  <2>5. (amount * want[d]) \div total \in Int
    BY <2>2
  <2>6. total * got[d] <= total * ((amount * want[d]) \div total)
    BY <2>4, <2>5
  <2>7. total * ((amount * want[d]) \div total) <= amount * want[d]
    BY <2>2, <2>3
  <2>8. \A a, b, c \in Int : a <= b /\ b <= c => a <= c
    OBVIOUS
  <2>9. total * ((amount * want[d]) \div total) \in Int
    BY <2>5
  <2>10. total * got[d] <= amount * want[d]
    BY <2>2, <2>6, <2>7, <2>8, <2>9
  <2> QED BY <2>1, <2>2, <2>10
<1>5. SumFunctionOnSet(v, G) <= SumFunctionOnSet(u, G)
  <2> HIDE DEF u, v
  <2> QED BY <1>4, SumLeq
<1>6. SumFunctionOnSet(got, G) \in Int
  BY SumInt
<1>7. \A s \in Int : total * s <= amount * total => s <= amount
  OBVIOUS
<1> HIDE DEF u, v
<1> QED BY <1>2, <1>3, <1>5, <1>6, <1>7

\* The element of a finite set where a function is least, and where greatest.
LEMMA Lowest ==
  ASSUME NEW S, IsFiniteSet(S), S # {}, NEW f, \A x \in S : f[x] \in Int
  PROVE  \E m \in S : \A x \in S : f[m] <= f[x]
<1> DEFINE g == [x \in S |-> -f[x]]
           T == {g[x] : x \in S}
<1>1. IsFiniteSet(T) /\ T # {} /\ T \in SUBSET Int
  <2>1. IsFiniteSet(T)
    <3> HIDE DEF g
    <3> QED BY ImageFinite
  <2> QED BY <2>1
<1>2. PICK t \in T : \A y \in T : y <= t
  BY <1>1, Greatest
<1>3. PICK m \in S : t = -f[m]
  BY <1>2
<1>4. \A x \in S : -f[x] <= -f[m]
  BY <1>2, <1>3
<1> QED BY <1>4

LEMMA Highest ==
  ASSUME NEW S, IsFiniteSet(S), S # {}, NEW f, \A x \in S : f[x] \in Int
  PROVE  \E m \in S : \A x \in S : f[x] <= f[m]
<1> DEFINE T == {f[x] : x \in S}
<1>1. IsFiniteSet(T) /\ T # {} /\ T \in SUBSET Int
  BY ImageFinite
<1>2. PICK t \in T : \A y \in T : y <= t
  BY <1>1, Greatest
<1> QED BY <1>2

\* Adding up term by term.
LEMMA SumPlus ==
  ASSUME NEW w, NEW v, NEW f, NEW S, IsFiniteSet(S),
         \A x \in S : w[x] \in Int /\ v[x] \in Int /\ f[x] = w[x] + v[x]
  PROVE  SumFunctionOnSet(f, S) = SumFunctionOnSet(w, S) + SumFunctionOnSet(v, S)
<1> DEFINE F == {A \in SUBSET S :
                   SumFunctionOnSet(f, A) = SumFunctionOnSet(w, A) + SumFunctionOnSet(v, A)}
<1>1. {} \in F
  <2>1. /\ SumFunctionOnSet(f, {}) = 0 /\ SumFunctionOnSet(w, {}) = 0
        /\ SumFunctionOnSet(v, {}) = 0
    BY SumEmpty
  <2> QED BY <2>1
<1>2. ASSUME NEW A \in F, NEW x \in S \ A
      PROVE  A \cup {x} \in F
  <2>1. IsFiniteSet(A)
    BY FS_Subset
  <2>2. \A y \in A \cup {x} : f[y] \in Int /\ w[y] \in Int /\ v[y] \in Int
    OBVIOUS
  <2>3. /\ SumFunctionOnSet(w, A \cup {x}) = SumFunctionOnSet(w, A) + w[x]
        /\ SumFunctionOnSet(v, A \cup {x}) = SumFunctionOnSet(v, A) + v[x]
        /\ SumFunctionOnSet(f, A \cup {x}) = SumFunctionOnSet(f, A) + f[x]
    BY <2>1, <2>2, SumAdd
  <2>4. /\ SumFunctionOnSet(w, A) \in Int /\ SumFunctionOnSet(v, A) \in Int
        /\ SumFunctionOnSet(f, A) = SumFunctionOnSet(w, A) + SumFunctionOnSet(v, A)
        /\ w[x] \in Int /\ v[x] \in Int /\ f[x] = w[x] + v[x]
    BY <2>1, SumInt
  <2>5. SumFunctionOnSet(f, A \cup {x})
          = SumFunctionOnSet(w, A \cup {x}) + SumFunctionOnSet(v, A \cup {x})
    BY <2>3, <2>4
  <2> QED BY <2>5
<1>3. S \in F
  <2> HIDE DEF F
  <2>1. F \in SUBSET SUBSET S
    BY DEF F
  <2> QED BY <1>1, <1>2, <2>1, FiniteInduction
<1> QED BY <1>3

\* What is nothing outside A need not be added up there.
LEMMA SumWithin ==
  ASSUME NEW f, NEW v, NEW S, IsFiniteSet(S), NEW A \in SUBSET S,
         \A x \in A : v[x] \in Int /\ f[x] = v[x], \A x \in S \ A : f[x] = 0
  PROVE  SumFunctionOnSet(f, S) = SumFunctionOnSet(v, A)
<1>1. IsFiniteSet(A) /\ IsFiniteSet(S \ A) /\ A \cap (S \ A) = {} /\ A \cup (S \ A) = S
  BY FS_Subset, FS_Difference
<1>2. \A x \in A \cup (S \ A) : f[x] \in Int
  OBVIOUS
<1>3. SumFunctionOnSet(f, A \cup (S \ A))
        = SumFunctionOnSet(f, A) + SumFunctionOnSet(f, S \ A)
  BY <1>1, <1>2, SumSplit
<1>4. SumFunctionOnSet(f, S \ A) = 0
  BY <1>1, SumZero
<1>5. \A x \in A : f[x] \in Int /\ f[x] = v[x]
  OBVIOUS
<1>6. SumFunctionOnSet(f, A) = SumFunctionOnSet(v, A) /\ SumFunctionOnSet(f, A) \in Int
  BY <1>1, <1>5, SumSame, SumInt
<1> QED BY <1>1, <1>3, <1>4, <1>6
==============================================================================
