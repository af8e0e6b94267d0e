----------------------------- MODULE SetLemmas -----------------------------
(***************************************************************************)
(* Least and greatest elements, and sums over finite sets, for the proofs    *)
(* about what is picked out of a set and what is added up.  Induction is     *)
(* used in one form only: finite sets are well founded under inclusion       *)
(* (FiniteSetTheorems).                                                      *)
(***************************************************************************)
EXTENDS Integers, FiniteSets, FiniteSetsExt, Functions, FiniteSetTheorems, TLAPS

\* Among some subsets of a finite set, one has no other below it.
LEMMA LeastSet ==
    ASSUME NEW S, IsFiniteSet(S), NEW T \in SUBSET SUBSET S, T # {}
    PROVE  \E X \in T : \A Y \in T : Y \subseteq X => Y = X
<1> DEFINE R == StrictSubsetOrdering(S)
<1>1. IsWellFoundedOn(R, SUBSET S)
  BY FS_StrictSubsetOrderingWellFounded, FS_FiniteSubsetsOfFinite
<1>2. \A x, y \in SUBSET S : x \subseteq y /\ x # y => <<x, y>> \in R
  BY DEF StrictSubsetOrdering
<1> HIDE DEF R
<1>3. \E n \in T : \A m \in T : ~ (<<m, n>> \in R)
  BY <1>1, WFMin
<1> QED BY <1>2, <1>3

\* Among some naturals there is a least one, ...
LEMMA LeastNatural ==
    ASSUME NEW T \in SUBSET Nat, T # {}
    PROVE  \E n \in T : \A m \in T : n <= m
<1>1. PICK b \in T : TRUE
  OBVIOUS
<1> DEFINE Below == {0..n : n \in {m \in T : m <= b}}
<1>2. \A X \in Below : X \subseteq 0..b
  <2>1. \A n \in T : n <= b => 0..n \subseteq 0..b
    BY <1>1
  <2> QED BY <2>1
<1>3. 0..b \in Below
  BY <1>1
<1>4. \A X \in Below : \E n \in T : n <= b /\ X = 0..n
  OBVIOUS
<1>5. \A n \in T : n <= b => 0..n \in Below
  OBVIOUS
<1>6. IsFiniteSet(0..b)
  BY <1>1, FS_Interval
<1> HIDE DEF Below
<1>7. PICK X \in Below : \A Y \in Below : Y \subseteq X => Y = X
  <2> DEFINE S == 0..b
  <2>1. IsFiniteSet(S) /\ Below \in SUBSET SUBSET S /\ Below # {}
    BY <1>2, <1>3, <1>6
  <2> HIDE DEF S
  <2> QED BY <2>1, LeastSet
<1>8. PICK n \in T : n <= b /\ X = 0..n
  BY <1>4
<1>9. ASSUME NEW m \in T, m < n PROVE FALSE
  <2>1. 0..m \in Below /\ 0..m \subseteq X
    BY <1>5, <1>8, <1>9, <1>1
  <2>2. 0..m = 0..n
    BY <1>7, <1>8, <2>1
  <2>3. n \in 0..n /\ n \notin 0..m
    BY <1>9
  <2> QED BY <2>2, <2>3
<1> QED BY <1>8, <1>9

\* ... and a greatest one if they are finitely many.
LEMMA GreatestNatural ==
    ASSUME NEW T \in SUBSET Nat, T # {}, IsFiniteSet(T)
    PROVE  \E n \in T : \A m \in T : m <= n
<1> DEFINE Aboves == {{m \in T : m > n} : n \in T}
<1>1. Aboves \in SUBSET SUBSET T /\ Aboves # {}
  OBVIOUS
<1>2. \A X \in Aboves : \E n \in T : X = {m \in T : m > n}
  OBVIOUS
<1>3. \A n \in T : {m \in T : m > n} \in Aboves
  OBVIOUS
<1> HIDE DEF Aboves
<1>4. PICK X \in Aboves : \A Y \in Aboves : Y \subseteq X => Y = X
  <2> DEFINE S == T
  <2>1. IsFiniteSet(S) /\ Aboves \in SUBSET SUBSET S /\ Aboves # {}
    BY <1>1
  <2> HIDE DEF S
  <2> QED BY <2>1, LeastSet
<1>5. PICK n \in T : X = {m \in T : m > n}
  BY <1>2
<1>6. ASSUME NEW m \in T, m > n PROVE FALSE
  <2> DEFINE Y == {k \in T : k > m}
  <2>1. Y \in Aboves
    BY <1>3
  <2>2. \A k \in T : k > m => k > n
    BY <1>6
  <2>3. Y \subseteq X
    BY <1>5, <2>2
  <2>4. m \in X /\ m \notin Y
    BY <1>5, <1>6
  <2> QED BY <1>4, <2>1, <2>3, <2>4
<1> QED BY <1>5, <1>6

\* Among some things ranked by one natural, and then by another, one is first.
LEMMA FirstOfRanked ==
    ASSUME NEW S, S # {}, NEW f \in [S -> Nat], NEW g \in [S -> Nat]
    PROVE  \E x \in S : \A y \in S : f[x] < f[y] \/ (f[x] = f[y] /\ g[x] <= g[y])
<1> DEFINE F == {f[x] : x \in S}
<1>1. PICK n \in F : \A m \in F : n <= m
  <2>1. F \in SUBSET Nat /\ F # {}
    OBVIOUS
  <2> HIDE DEF F
  <2> QED BY <2>1, LeastNatural
<1> DEFINE G == {g[x] : x \in {y \in S : f[y] = n}}
<1>2. PICK k \in G : \A m \in G : k <= m
  <2>1. G \in SUBSET Nat /\ G # {}
    BY <1>1
  <2> HIDE DEF G
  <2> QED BY <2>1, LeastNatural
<1>3. PICK x \in S : f[x] = n /\ g[x] = k
  BY <1>2
<1>4. ASSUME NEW y \in S PROVE f[x] < f[y] \/ (f[x] = f[y] /\ g[x] <= g[y])
  BY <1>1, <1>2, <1>3
<1> QED BY <1>4

\* Among finitely many things in a strict order, one is before the others.
LEMMA FirstInOrder ==
    ASSUME NEW S, IsFiniteSet(S), S # {}, NEW R,
           \A x \in S : <<x, x>> \notin R,
           \A x, y \in S : x # y => <<x, y>> \in R \/ <<y, x>> \in R,
           \A x, y, z \in S : <<x, y>> \in R /\ <<y, z>> \in R => <<x, z>> \in R
    PROVE  \E x \in S : \A y \in S \ {x} : <<x, y>> \in R
<1> DEFINE Before(x) == {y \in S : <<y, x>> \in R}
           Befores == {Before(x) : x \in S}
<1>1. Befores \in SUBSET SUBSET S /\ Befores # {}
  <2>1. \A x \in S : Before(x) \in SUBSET S
    OBVIOUS
  <2> HIDE DEF Before
  <2> QED BY <2>1
<1>2. \A X \in Befores : \E x \in S : X = Before(x)
  OBVIOUS
<1>3. \A x \in S : Before(x) \in Befores
  OBVIOUS
<1> HIDE DEF Befores
<1>4. PICK X \in Befores : \A Y \in Befores : Y \subseteq X => Y = X
  BY <1>1, LeastSet
<1>5. PICK x \in S : X = Before(x)
  BY <1>2
<1>6. ASSUME NEW y \in S, <<y, x>> \in R PROVE FALSE
  <2>1. Before(y) \subseteq Before(x)
    BY <1>6
  <2>2. y \in Before(x) /\ y \notin Before(y)
    BY <1>6
  <2> HIDE DEF Before
  <2> QED BY <1>3, <1>4, <1>5, <2>1, <2>2
<1> QED BY <1>5, <1>6

LEMMA MaxIsGreatest ==
    ASSUME NEW T \in SUBSET Nat, T # {}, IsFiniteSet(T)
    PROVE  Max(T) \in T /\ \A n \in T : n <= Max(T)
<1>1. \E n \in T : \A m \in T : n >= m
  BY GreatestNatural
<1> QED BY <1>1 DEF Max

LEMMA MinIsLeast ==
    ASSUME NEW T \in SUBSET Nat, T # {}
    PROVE  Min(T) \in T /\ \A n \in T : Min(T) <= n
<1>1. \E n \in T : \A m \in T : n <= m
  BY LeastNatural
<1> QED BY <1>1 DEF Min

\* The values of a function on a finite set are finitely many.
LEMMA ValuesFinite ==
    ASSUME NEW S, IsFiniteSet(S), NEW f, f = [x \in S |-> f[x]]
    PROVE  IsFiniteSet({f[x] : x \in S})
<1> DEFINE T == {f[x] : x \in S}
<1>1. f \in Surjection(S, T)
  BY DEF Surjection
<1> HIDE DEF T
<1>2. IsFiniteSet(T)
  BY <1>1, FS_Surjection
<1> QED BY <1>2 DEF T

----------------------------------------------------------------------------
(* Sums over finite sets. *)

\* What a fold computes a sum with: one element after the other.
One(s) == CHOOSE x \in s : TRUE
Sums(w, S) ==
    CHOOSE g : g = [s \in SUBSET S |-> IF s = {} THEN 0 ELSE w[One(s)] + g[s \ {One(s)}]]
Solves(g, w, S) ==
    g = [s \in SUBSET S |-> IF s = {} THEN 0 ELSE w[One(s)] + g[s \ {One(s)}]]

LEMMA SumIsFolded == ASSUME NEW S, NEW w PROVE SumFunctionOnSet(w, S) = Sums(w, S)[S]
BY Zenon DEF SumFunctionOnSet, FoldFunctionOnSet, MapThenFoldSet, Sums, One

LEMMA OneOf == ASSUME NEW s, s # {} PROVE One(s) \in s
BY DEF One

\* Two such functions agree where both are defined.
LEMMA SumsAgree ==
    ASSUME NEW B, IsFiniteSet(B), NEW A \in SUBSET B, NEW w,
           NEW g, Solves(g, w, A), NEW h, Solves(h, w, B)
    PROVE  \A s \in SUBSET A : g[s] = h[s]
<1> DEFINE C == {s \in SUBSET A : g[s] # h[s]}
<1>1. SUFFICES ASSUME C # {} PROVE FALSE
  OBVIOUS
<1>2. C \in SUBSET SUBSET B
  OBVIOUS
<1>3. PICK X \in C : \A Y \in C : Y \subseteq X => Y = X
  <2> HIDE DEF C
  <2> QED BY <1>1, <1>2, LeastSet
<1> DEFINE R == X \ {One(X)}
<1>4. X \in SUBSET A /\ X \in SUBSET B /\ R \in SUBSET A
  OBVIOUS
<1>5. X = {} => g[X] = 0 /\ h[X] = 0
  BY <1>4 DEF Solves
<1>6. X # {} => g[X] = w[One(X)] + g[R] /\ h[X] = w[One(X)] + h[R]
  BY <1>4 DEF Solves
<1>7. X # {} => R \subseteq X /\ R # X
  BY OneOf
<1>8. X # {} => g[R] = h[R]
  BY <1>3, <1>4, <1>7
<1> QED BY <1>3, <1>5, <1>6, <1>8

\* And on a finite set there is one.
LEMMA SumsSolve ==
    ASSUME NEW S, IsFiniteSet(S), NEW w
    PROVE  Solves(Sums(w, S), w, S)
<1> DEFINE C == {s \in SUBSET S : ~ Solves(Sums(w, s), w, s)}
<1>1. SUFFICES ASSUME C # {} PROVE FALSE
  OBVIOUS
<1>2. C \in SUBSET SUBSET S
  OBVIOUS
<1>3. PICK T \in C : \A Y \in C : Y \subseteq T => Y = T
  <2> HIDE DEF C
  <2> QED BY <1>1, <1>2, LeastSet
<1>4. \A s \in SUBSET T : s # T => Solves(Sums(w, s), w, s)
  BY <1>3
<1>5. \A s \in SUBSET T : IsFiniteSet(s)
  BY FS_Subset
<1> DEFINE R == T \ {One(T)}
           g == [s \in SUBSET T |->
                   IF s # T THEN Sums(w, s)[s]
                   ELSE IF T = {} THEN 0 ELSE w[One(T)] + Sums(w, R)[R]]
<1>6. \A s \in SUBSET T : s # {} => s \ {One(s)} \in SUBSET T /\ s \ {One(s)} # s /\ s \ {One(s)} # T
  BY OneOf
<1>7. ASSUME NEW s \in SUBSET T
      PROVE  g[s] = IF s = {} THEN 0 ELSE w[One(s)] + g[s \ {One(s)}]
  <2> DEFINE r == s \ {One(s)}
  <2>1. CASE s = T
    BY <2>1, <1>6
  <2>2. CASE s # T
    <3>1. Solves(Sums(w, s), w, s)
      BY <1>4, <2>2
    <3>2. s = {} => Sums(w, s)[s] = 0
      BY <3>1 DEF Solves
    <3>3. s # {} => Sums(w, s)[s] = w[One(s)] + Sums(w, s)[r]
      BY <3>1 DEF Solves
    <3>4. s # {} => Solves(Sums(w, r), w, r)
      BY <1>4, <1>6
    <3>5. s # {} => Sums(w, r)[r] = Sums(w, s)[r]
      BY <3>1, <3>4, <1>5, SumsAgree
    <3>6. s # {} => g[r] = Sums(w, r)[r]
      BY <1>6
    <3>7. g[s] = Sums(w, s)[s]
      BY <2>2
    <3> HIDE DEF g, r
    <3> QED BY <3>2, <3>3, <3>5, <3>6, <3>7 DEF r
  <2> QED BY <2>1, <2>2
<1>8. g = [s \in SUBSET T |-> IF s = {} THEN 0 ELSE w[One(s)] + g[s \ {One(s)}]]
  <2>1. g = [s \in SUBSET T |-> g[s]]
    OBVIOUS
  <2> HIDE DEF g
  <2> QED BY <2>1, <1>7
<1>9. Solves(g, w, T)
  BY <1>8 DEF Solves
<1>10. Solves(Sums(w, T), w, T)
  <2> HIDE DEF g
  <2> QED BY <1>9 DEF Solves, Sums
<1> QED BY <1>3, <1>10

LEMMA SumOfNone == ASSUME NEW w PROVE SumFunctionOnSet(w, {}) = 0
<1>1. Solves(Sums(w, {}), w, {})
  BY SumsSolve, FS_EmptySet
<1>2. {} \in SUBSET {}
  OBVIOUS
<1>3. Sums(w, {})[{}] = 0
  BY <1>1, <1>2 DEF Solves
<1> QED BY <1>3, SumIsFolded

LEMMA SumOfOne ==
    ASSUME NEW S, IsFiniteSet(S), S # {}, NEW w
    PROVE  SumFunctionOnSet(w, S) = w[One(S)] + SumFunctionOnSet(w, S \ {One(S)})
<1> DEFINE r == S \ {One(S)}
<1>1. Solves(Sums(w, S), w, S)
  BY SumsSolve
<1>2. r \in SUBSET S /\ IsFiniteSet(r)
  BY FS_Subset
<1>3. Solves(Sums(w, r), w, r)
  BY SumsSolve, <1>2
<1>4. Sums(w, S)[S] = w[One(S)] + Sums(w, S)[r]
  BY <1>1 DEF Solves
<1>5. Sums(w, r)[r] = Sums(w, S)[r]
  <2> HIDE DEF r
  <2> QED BY <1>1, <1>2, <1>3, SumsAgree
<1> HIDE DEF r
<1>6. SumFunctionOnSet(w, S) = w[One(S)] + SumFunctionOnSet(w, r)
  BY <1>4, <1>5, SumIsFolded
<1> QED BY <1>6 DEF r

LEMMA SumOfInt ==
    ASSUME NEW S, IsFiniteSet(S), NEW w, \A x \in S : w[x] \in Int
    PROVE  SumFunctionOnSet(w, S) \in Int
<1> DEFINE C == {s \in SUBSET S : SumFunctionOnSet(w, s) \notin Int}
<1>1. SUFFICES ASSUME C # {} PROVE FALSE
  OBVIOUS
<1>2. C \in SUBSET SUBSET S
  OBVIOUS
<1>3. PICK T \in C : \A Y \in C : Y \subseteq T => Y = T
  <2> HIDE DEF C
  <2> QED BY <1>1, <1>2, LeastSet
<1>4. T # {}
  BY SumOfNone
<1>5. One(T) \in T /\ T \ {One(T)} \in SUBSET S /\ T \ {One(T)} # T /\ IsFiniteSet(T)
  BY <1>4, OneOf, FS_Subset
<1>6. SumFunctionOnSet(w, T \ {One(T)}) \in Int
  BY <1>3, <1>5
<1>7. SumFunctionOnSet(w, T) = w[One(T)] + SumFunctionOnSet(w, T \ {One(T)})
  BY <1>4, <1>5, SumOfOne
<1> QED BY <1>5, <1>6, <1>7

LEMMA SumOfNat ==
    ASSUME NEW S, IsFiniteSet(S), NEW w, \A x \in S : w[x] \in Nat
    PROVE  SumFunctionOnSet(w, S) \in Nat
<1> DEFINE C == {s \in SUBSET S : SumFunctionOnSet(w, s) \notin Nat}
<1>1. SUFFICES ASSUME C # {} PROVE FALSE
  OBVIOUS
<1>2. C \in SUBSET SUBSET S
  OBVIOUS
<1>3. PICK T \in C : \A Y \in C : Y \subseteq T => Y = T
  <2> HIDE DEF C
  <2> QED BY <1>1, <1>2, LeastSet
<1>4. T # {}
  BY SumOfNone
<1>5. One(T) \in T /\ T \ {One(T)} \in SUBSET S /\ T \ {One(T)} # T /\ IsFiniteSet(T)
  BY <1>4, OneOf, FS_Subset
<1>6. SumFunctionOnSet(w, T \ {One(T)}) \in Nat
  BY <1>3, <1>5
<1>7. SumFunctionOnSet(w, T) = w[One(T)] + SumFunctionOnSet(w, T \ {One(T)})
  BY <1>4, <1>5, SumOfOne
<1> QED BY <1>5, <1>6, <1>7

\* It may be taken in any order.
LEMMA SumOfAny ==
    ASSUME NEW S, IsFiniteSet(S), NEW w, \A x \in S : w[x] \in Int, NEW e \in S
    PROVE  SumFunctionOnSet(w, S) = w[e] + SumFunctionOnSet(w, S \ {e})
<1> DEFINE Differs(s) == \E x \in s : SumFunctionOnSet(w, s) # w[x] + SumFunctionOnSet(w, s \ {x})
           C == {s \in SUBSET S : Differs(s)}
<1>1. SUFFICES ASSUME C # {} PROVE FALSE
  OBVIOUS
<1>2. C \in SUBSET SUBSET S
  OBVIOUS
<1>3. PICK T \in C : \A Y \in C : Y \subseteq T => Y = T
  <2> HIDE DEF C
  <2> QED BY <1>1, <1>2, LeastSet
<1>4. PICK x \in T : SumFunctionOnSet(w, T) # w[x] + SumFunctionOnSet(w, T \ {x})
  OBVIOUS
<1> DEFINE y == One(T)
<1>5. y \in T /\ IsFiniteSet(T) /\ T \in SUBSET S
  BY <1>4, OneOf, FS_Subset
<1>6. SumFunctionOnSet(w, T) = w[y] + SumFunctionOnSet(w, T \ {y})
  BY <1>5, SumOfOne
<1>7. x # y
  BY <1>4, <1>6
<1>8. ASSUME NEW u \in T PROVE ~ Differs(T \ {u})
  <2>1. T \ {u} \in SUBSET S /\ T \ {u} \subseteq T /\ T \ {u} # T
    BY <1>5
  <2>2. T \ {u} \notin C
    <3> HIDE DEF C
    <3> QED BY <1>3, <2>1
  <2> HIDE DEF Differs
  <2> QED BY <2>1, <2>2
<1> HIDE DEF y
<1>9. SumFunctionOnSet(w, T \ {y}) = w[x] + SumFunctionOnSet(w, (T \ {y}) \ {x})
  BY <1>5, <1>7, <1>8
<1>10. SumFunctionOnSet(w, T \ {x}) = w[y] + SumFunctionOnSet(w, (T \ {x}) \ {y})
  BY <1>5, <1>7, <1>8
<1>11. (T \ {y}) \ {x} = (T \ {x}) \ {y}
  OBVIOUS
<1>12. SumFunctionOnSet(w, (T \ {x}) \ {y}) \in Int
  <2>1. (T \ {x}) \ {y} \in SUBSET S
    BY <1>5
  <2>2. IsFiniteSet((T \ {x}) \ {y})
    BY <2>1, FS_Subset
  <2> QED BY <2>1, <2>2, SumOfInt
<1>13. w[x] \in Int /\ w[y] \in Int
  BY <1>5
<1> HIDE DEF C, Differs
<1> DEFINE a == SumFunctionOnSet(w, (T \ {x}) \ {y})
<1>14. SumFunctionOnSet(w, T) = w[y] + (w[x] + a)
  BY <1>6, <1>9, <1>11
<1>15. SumFunctionOnSet(w, T \ {x}) = w[y] + a
  BY <1>10
<1>16. a \in Int
  BY <1>12
<1> HIDE DEF a
<1>17. w[x] + (w[y] + a) = w[y] + (w[x] + a)
  BY <1>13, <1>16
<1> QED BY <1>4, <1>14, <1>15, <1>17

LEMMA SumOfSame ==
    ASSUME NEW S, IsFiniteSet(S), NEW w, NEW v, \A x \in S : w[x] = v[x]
    PROVE  SumFunctionOnSet(w, S) = SumFunctionOnSet(v, S)
<1> DEFINE C == {s \in SUBSET S : SumFunctionOnSet(w, s) # SumFunctionOnSet(v, s)}
<1>1. SUFFICES ASSUME C # {} PROVE FALSE
  OBVIOUS
<1>2. C \in SUBSET SUBSET S
  OBVIOUS
<1>3. PICK T \in C : \A Y \in C : Y \subseteq T => Y = T
  <2> HIDE DEF C
  <2> QED BY <1>1, <1>2, LeastSet
<1>4. T # {}
  BY SumOfNone
<1>5. One(T) \in T /\ T \ {One(T)} \in SUBSET S /\ T \ {One(T)} # T /\ IsFiniteSet(T)
  BY <1>4, OneOf, FS_Subset
<1>6. SumFunctionOnSet(w, T \ {One(T)}) = SumFunctionOnSet(v, T \ {One(T)})
  BY <1>3, <1>5
<1>7. /\ SumFunctionOnSet(w, T) = w[One(T)] + SumFunctionOnSet(w, T \ {One(T)})
      /\ SumFunctionOnSet(v, T) = v[One(T)] + SumFunctionOnSet(v, T \ {One(T)})
  BY <1>4, <1>5, SumOfOne
<1>8. w[One(T)] = v[One(T)]
  BY <1>5
<1> QED BY <1>3, <1>6, <1>7, <1>8

LEMMA SumOfUnion ==
    ASSUME NEW A, IsFiniteSet(A), NEW B, IsFiniteSet(B), A \cap B = {},
           NEW w, \A x \in A \cup B : w[x] \in Int
    PROVE  SumFunctionOnSet(w, A \cup B) = SumFunctionOnSet(w, A) + SumFunctionOnSet(w, B)
<1> DEFINE C == {s \in SUBSET B : SumFunctionOnSet(w, A \cup s) # SumFunctionOnSet(w, A) + SumFunctionOnSet(w, s)}
<1>1. SUFFICES ASSUME C # {} PROVE FALSE
  OBVIOUS
<1>2. C \in SUBSET SUBSET B
  OBVIOUS
<1>3. PICK T \in C : \A Y \in C : Y \subseteq T => Y = T
  <2> HIDE DEF C
  <2> QED BY <1>1, <1>2, LeastSet
<1>4. T # {}
  <2>1. SumFunctionOnSet(w, A) \in Int
    BY SumOfInt
  <2>2. A \cup {} = A
    OBVIOUS
  <2> QED BY <2>1, <2>2, SumOfNone
<1>5. PICK x \in T : TRUE
  BY <1>4
<1> DEFINE R == T \ {x}
<1>6. R \in SUBSET B /\ T \in SUBSET B /\ IsFiniteSet(R) /\ IsFiniteSet(T) /\ x \in B
  BY FS_Subset
<1>7. SumFunctionOnSet(w, A \cup R) = SumFunctionOnSet(w, A) + SumFunctionOnSet(w, R)
  BY <1>3, <1>6
<1>8. SumFunctionOnSet(w, T) = w[x] + SumFunctionOnSet(w, R)
  BY <1>6, SumOfAny
<1>9. SumFunctionOnSet(w, A \cup T) = w[x] + SumFunctionOnSet(w, A \cup R)
  <2> DEFINE U == A \cup T
  <2>1. U \ {x} = A \cup R
    BY <1>6
  <2>2. IsFiniteSet(U)
    BY <1>6, FS_Union
  <2>3. x \in U /\ \A z \in U : w[z] \in Int
    BY <1>6
  <2> HIDE DEF U, R
  <2>4. SumFunctionOnSet(w, U) = w[x] + SumFunctionOnSet(w, U \ {x})
    BY <2>2, <2>3, SumOfAny
  <2> QED BY <2>1, <2>4 DEF U
<1>10. SumFunctionOnSet(w, A) \in Int /\ SumFunctionOnSet(w, R) \in Int /\ w[x] \in Int
  BY <1>6, SumOfInt
<1> QED BY <1>3, <1>7, <1>8, <1>9, <1>10

LEMMA SumOfZeros ==
    ASSUME NEW S, IsFiniteSet(S), NEW w, \A x \in S : w[x] = 0
    PROVE  SumFunctionOnSet(w, S) = 0
<1> DEFINE C == {s \in SUBSET S : SumFunctionOnSet(w, s) # 0}
<1>1. SUFFICES ASSUME C # {} PROVE FALSE
  OBVIOUS
<1>2. C \in SUBSET SUBSET S
  OBVIOUS
<1>3. PICK T \in C : \A Y \in C : Y \subseteq T => Y = T
  <2> HIDE DEF C
  <2> QED BY <1>1, <1>2, LeastSet
<1>4. T # {}
  BY SumOfNone
<1>5. One(T) \in T /\ T \ {One(T)} \in SUBSET S /\ T \ {One(T)} # T /\ IsFiniteSet(T)
  BY <1>4, OneOf, FS_Subset
<1>6. SumFunctionOnSet(w, T \ {One(T)}) = 0
  BY <1>3, <1>5
<1>7. SumFunctionOnSet(w, T) = w[One(T)] + SumFunctionOnSet(w, T \ {One(T)})
  BY <1>4, <1>5, SumOfOne
<1>8. w[One(T)] = 0
  BY <1>5
<1> QED BY <1>3, <1>6, <1>7, <1>8

LEMMA SumOfEmpty == ASSUME NEW w, DOMAIN w = {} PROVE SumFunction(w) = 0
BY SumOfNone DEF SumFunction

\* The sum of a function with one more value.
LEMMA SumGrows ==
    ASSUME NEW S, IsFiniteSet(S), NEW x, x \notin S, NEW v, NEW w,
           DOMAIN v = S, DOMAIN w = S \cup {x}, \A y \in S : v[y] = w[y],
           \A y \in S \cup {x} : w[y] \in Int
    PROVE  SumFunction(w) = SumFunction(v) + w[x] /\ SumFunction(v) \in Int
<1> DEFINE T == S \cup {x}
<1>1. IsFiniteSet(T) /\ T \ {x} = S /\ x \in T
  BY FS_AddElement
<1>2. \A y \in T : w[y] \in Int
  OBVIOUS
<1>3. DOMAIN w = T
  OBVIOUS
<1> HIDE DEF T
<1>4. SumFunctionOnSet(w, T) = w[x] + SumFunctionOnSet(w, S)
  BY <1>1, <1>2, SumOfAny
<1>5. SumFunctionOnSet(w, S) = SumFunctionOnSet(v, S)
  BY SumOfSame
<1>6. SumFunctionOnSet(v, S) \in Int
  <2>1. \A y \in S : v[y] \in Int
    OBVIOUS
  <2> QED BY <2>1, SumOfInt
<1> QED BY <1>1, <1>2, <1>3, <1>4, <1>5, <1>6 DEF SumFunction
=============================================================================
