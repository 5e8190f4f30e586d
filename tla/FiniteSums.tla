----------------------------- MODULE FiniteSums ------------------------------
(***************************************************************************)
(* Sums over finite sets, of any size.  MapThenSumSet of the community     *)
(* modules chooses a function that is defined by recursion on the subsets; *)
(* that there is one, and what it computes, is shown of a smallest set     *)
(* that would be an exception.                                             *)
(***************************************************************************)
EXTENDS Integers, FiniteSetsExt, FiniteSetTheorems, WellFoundedInduction, TLAPS

\* Numbers have a least one.
LEMMA Least ==
  ASSUME NEW D \in SUBSET Nat, D # {}
  PROVE  \E d \in D : \A e \in D : d <= e
<1>1. PICK d \in D : \A e \in D : ~(<<e, d>> \in OpToRel(<, Nat))
  BY NatLessThanWellFounded, WFMin
<1>2. \A e \in D : ~(e < d)
  BY <1>1 DEF OpToRel
<1> QED
  BY <1>2

\* The least of some numbers, and the greatest of them when they are bounded.
LEMMA Extremes ==
  ASSUME NEW D \in SUBSET Nat, D # {}
  PROVE  /\ Min(D) \in D /\ \A e \in D : Min(D) <= e
         /\ \A n \in Nat : (\A e \in D : e <= n) => Max(D) \in D /\ \A e \in D : e <= Max(D)
<1>1. Min(D) \in D /\ \A e \in D : Min(D) <= e
  BY Least DEF Min
<1>2. ASSUME NEW n \in Nat, \A e \in D : e <= n
      PROVE  Max(D) \in D /\ \A e \in D : e <= Max(D)
  <2> DEFINE C == {n - e : e \in D}
  <2>0. \A e \in D : n - e \in Nat
    BY <1>2
  <2>1. C \in SUBSET Nat /\ C # {}
    BY <2>0
  <2>2. PICK m \in C : \A x \in C : m <= x
    <3> HIDE DEF C
    <3> QED
      BY <2>1, Least
  <2>3. PICK d \in D : m = n - d
    OBVIOUS
  <2>4. \A e \in D : d >= e
    BY <2>0, <2>2, <2>3
  <2> QED
    BY <2>4 DEF Max
<1> QED
  BY <1>1, <1>2

\* A property of finite sets fails of a smallest one.
LEMMA Smallest ==
  ASSUME NEW S, IsFiniteSet(S), NEW Bad \in SUBSET SUBSET S, Bad # {}
  PROVE  \E T \in Bad : IsFiniteSet(T) /\ \A R \in Bad : ~(R \subseteq T /\ R # T)
<1> DEFINE D == {Cardinality(T) : T \in Bad}
<1>1. \A T \in Bad : IsFiniteSet(T) /\ Cardinality(T) \in Nat
  BY FS_Subset, FS_CardinalityType
<1>2. D \in SUBSET Nat /\ D # {}
  BY <1>1
<1>3. PICK d \in D : \A e \in D : d <= e
  BY <1>2, Least
<1>4. PICK T \in Bad : Cardinality(T) = d
  BY <1>3
<1>5. ASSUME NEW R \in Bad, R \subseteq T, R # T PROVE FALSE
  <2>1. Cardinality(R) < Cardinality(T)
    BY <1>1, <1>5, FS_Subset
  <2>2. d <= Cardinality(R)
    BY <1>3, <1>5
  <2> QED
    BY <1>1, <1>4, <2>1, <2>2
<1> QED
  BY <1>1, <1>4, <1>5

-----------------------------------------------------------------------------
(***************************************************************************)
(* The fold takes an element, then the sum of the others.                  *)
(***************************************************************************)

Pick(s) == CHOOSE x \in s : TRUE
SumOf(m, S) == MapThenSumSet(LAMBDA n : m[n], S)

\* The function by which the fold is defined.
Iterates(m, S, g) ==
  g = [s \in SUBSET S |-> IF s = {} THEN 0 ELSE m[Pick(s)] + g[s \ {Pick(s)}]]
Iterate(m, S) == CHOOSE g : Iterates(m, S, g)

\* The sum is that function's value.
LEMMA SumIterates == ASSUME NEW m, NEW S PROVE SumOf(m, S) = Iterate(m, S)[S]
  BY Zenon DEF SumOf, Iterate, Iterates, MapThenSumSet, MapThenFoldSet, Pick

\* What the fold picks is an element.
LEMMA PickIsIn == ASSUME NEW S, S # {} PROVE Pick(S) \in S
  BY DEF Pick

\* One step of the fold.
LEMMA IteratesAt ==
  ASSUME NEW m, NEW S, NEW g, Iterates(m, S, g), NEW s \in SUBSET S
  PROVE  g[s] = IF s = {} THEN 0 ELSE m[Pick(s)] + g[s \ {Pick(s)}]
  BY Zenon DEF Iterates

\* There is no more than one such function: two differ on no smallest set.
LEMMA OneIterate ==
  ASSUME NEW m, NEW S, IsFiniteSet(S), NEW g, NEW h, Iterates(m, S, g), Iterates(m, S, h)
  PROVE  g = h
<1> DEFINE Bad == {s \in SUBSET S : g[s] # h[s]}
<1>1. CASE Bad = {}
  <2>1. \A s \in SUBSET S : g[s] = h[s]
    BY <1>1
  <2>2. DOMAIN g = SUBSET S /\ DOMAIN h = SUBSET S /\ g = [s \in DOMAIN g |-> g[s]] /\ h = [s \in DOMAIN h |-> h[s]]
    BY DEF Iterates
  <2> HIDE DEF Bad
  <2> QED
    BY <2>1, <2>2
<1>2. CASE Bad # {}
  <2>0. Bad \in SUBSET SUBSET S
    OBVIOUS
  <2>1. PICK s \in Bad : \A r \in Bad : ~(r \subseteq s /\ r # s)
    <3> HIDE DEF Bad
    <3> QED
      BY <1>2, <2>0, Smallest
  <2>2. s # {}
    BY <2>1, IteratesAt
  <2>3. Pick(s) \in s
    BY <2>2, PickIsIn
  <2>4. g[s \ {Pick(s)}] = h[s \ {Pick(s)}]
    BY <2>1, <2>3
  <2> QED
    BY <2>1, <2>2, <2>4, IteratesAt
<1> QED
  BY <1>1, <1>2

\* Restricted to the subsets of a part it is that part's function.
LEMMA Narrowed ==
  ASSUME NEW m, NEW S, NEW g, Iterates(m, S, g), NEW T \in SUBSET S
  PROVE  Iterates(m, T, [s \in SUBSET T |-> g[s]])
<1> DEFINE h == [s \in SUBSET T |-> g[s]]
<1>1. ASSUME NEW s \in SUBSET T
      PROVE  h[s] = IF s = {} THEN 0 ELSE m[Pick(s)] + h[s \ {Pick(s)}]
  <2>1. s \in SUBSET S /\ s \ {Pick(s)} \in SUBSET T
    OBVIOUS
  <2>2. g[s] = IF s = {} THEN 0 ELSE m[Pick(s)] + g[s \ {Pick(s)}]
    BY <2>1, IteratesAt
  <2>3. h[s] = g[s] /\ h[s \ {Pick(s)}] = g[s \ {Pick(s)}]
    BY <2>1
  <2> QED
    BY <2>2, <2>3
<1>2. h = [s \in SUBSET T |-> IF s = {} THEN 0 ELSE m[Pick(s)] + h[s \ {Pick(s)}]]
  BY <1>1
<1> QED
  BY <1>2 DEF Iterates

\* The function of a set has the sums of all its subsets.
LEMMA SumFrom ==
  ASSUME NEW m, NEW S, IsFiniteSet(S), NEW g, Iterates(m, S, g), NEW T \in SUBSET S
  PROVE  SumOf(m, T) = g[T]
<1>1. Iterates(m, T, [s \in SUBSET T |-> g[s]])
  BY Narrowed
<1>2. Iterates(m, T, Iterate(m, T))
  BY <1>1, Zenon DEF Iterate
<1>3. IsFiniteSet(T)
  BY FS_Subset
<1>4. Iterate(m, T) = [s \in SUBSET T |-> g[s]]
  BY <1>1, <1>2, <1>3, OneIterate
<1> QED
  BY <1>4, SumIterates

\* There is one: a smallest set without it would have the one made of the sums of
\* its parts.
LEMMA SomeIterate ==
  ASSUME NEW m, NEW S, IsFiniteSet(S)
  PROVE  \E g : Iterates(m, S, g)
<1> DEFINE Bad == {s \in SUBSET S : ~ \E g : Iterates(m, s, g)}
<1> SUFFICES ASSUME Bad # {} PROVE FALSE
  OBVIOUS
<1>0. Bad \in SUBSET SUBSET S
  OBVIOUS
<1>1. PICK T \in Bad : IsFiniteSet(T) /\ \A R \in Bad : ~(R \subseteq T /\ R # T)
  <2> HIDE DEF Bad
  <2> QED
    BY <1>0, Smallest
<1> DEFINE f == [s \in SUBSET T |-> IF s = {} THEN 0 ELSE m[Pick(s)] + SumOf(m, s \ {Pick(s)})]
<1>2. ASSUME NEW s \in SUBSET T, s # {}
      PROVE  SumOf(m, s \ {Pick(s)}) = f[s \ {Pick(s)}]
  <2> DEFINE r == s \ {Pick(s)}
  <2>1. r \in SUBSET T /\ r \in SUBSET S /\ r # T
    BY <1>2, PickIsIn
  <2>2. PICK g : Iterates(m, r, g)
    BY <1>1, <2>1
  <2>3. IsFiniteSet(r)
    BY <1>1, <2>1, FS_Subset
  <2>4. \A t \in SUBSET r : SumOf(m, t) = g[t]
    BY <2>2, <2>3, SumFrom
  <2>5. r \in SUBSET r /\ r \ {Pick(r)} \in SUBSET r
    OBVIOUS
  <2> HIDE DEF r
  <2>6. SumOf(m, r) = IF r = {} THEN 0 ELSE m[Pick(r)] + SumOf(m, r \ {Pick(r)})
    <3>1. g[r] = IF r = {} THEN 0 ELSE m[Pick(r)] + g[r \ {Pick(r)}]
      BY <2>2, <2>5, IteratesAt
    <3>2. SumOf(m, r) = g[r] /\ SumOf(m, r \ {Pick(r)}) = g[r \ {Pick(r)}]
      BY <2>4, <2>5
    <3> QED
      BY <3>1, <3>2
  <2>7. f[r] = IF r = {} THEN 0 ELSE m[Pick(r)] + SumOf(m, r \ {Pick(r)})
    BY <2>1
  <2> QED
    BY <2>6, <2>7 DEF r
<1>3. Iterates(m, T, f)
  <2>1. ASSUME NEW s \in SUBSET T
        PROVE  f[s] = IF s = {} THEN 0 ELSE m[Pick(s)] + f[s \ {Pick(s)}]
    BY <1>2
  <2>2. f = [s \in SUBSET T |-> IF s = {} THEN 0 ELSE m[Pick(s)] + f[s \ {Pick(s)}]]
    BY <2>1
  <2> QED
    BY <2>2 DEF Iterates
<1> QED
  BY <1>1, <1>3

\* What the fold computes.
LEMMA SumStep ==
  ASSUME NEW m, NEW S, IsFiniteSet(S)
  PROVE  SumOf(m, S) = IF S = {} THEN 0 ELSE m[Pick(S)] + SumOf(m, S \ {Pick(S)})
<1>1. PICK g : Iterates(m, S, g)
  BY SomeIterate
<1>2. SumOf(m, S) = g[S] /\ SumOf(m, S \ {Pick(S)}) = g[S \ {Pick(S)}]
  BY <1>1, SumFrom
<1> QED
  BY <1>1, <1>2, IteratesAt

-----------------------------------------------------------------------------
(***************************************************************************)
(* What a sum is.                                                          *)
(***************************************************************************)

\* A sum of numbers is a number.
LEMMA SumType ==
  ASSUME NEW S, IsFiniteSet(S), NEW m, \A x \in S : m[x] \in Int
  PROVE  SumOf(m, S) \in Int
<1> DEFINE Bad == {T \in SUBSET S : SumOf(m, T) \notin Int}
<1> SUFFICES ASSUME Bad # {} PROVE FALSE
  OBVIOUS
<1>1. Bad \in SUBSET SUBSET S
  OBVIOUS
<1>2. PICK T \in Bad : IsFiniteSet(T) /\ \A R \in Bad : ~(R \subseteq T /\ R # T)
  <2> HIDE DEF Bad
  <2> QED
    BY <1>1, Smallest
<1>3. T # {} => Pick(T) \in T /\ m[Pick(T)] \in Int
  BY <1>1, <1>2, PickIsIn
<1>4. T # {} => SumOf(m, T \ {Pick(T)}) \in Int
  BY <1>2, <1>3
<1> QED
  BY <1>2, <1>3, <1>4, SumStep

\* Nothing adds up to 0.
LEMMA SumEmpty == ASSUME NEW m PROVE SumOf(m, {}) = 0
  BY SumStep, FS_EmptySet

\* The order in which elements are picked makes no difference.
LEMMA SumWithout ==
  ASSUME NEW S, IsFiniteSet(S), NEW m, \A x \in S : m[x] \in Int, NEW x \in S
  PROVE  SumOf(m, S) = m[x] + SumOf(m, S \ {x})
<1> DEFINE Bad == {T \in SUBSET S : \E y \in T : SumOf(m, T) # m[y] + SumOf(m, T \ {y})}
<1> SUFFICES ASSUME Bad # {} PROVE FALSE
  OBVIOUS
<1>1. Bad \in SUBSET SUBSET S
  OBVIOUS
<1>2. PICK T \in Bad : IsFiniteSet(T) /\ \A R \in Bad : ~(R \subseteq T /\ R # T)
  <2> HIDE DEF Bad
  <2> QED
    BY <1>1, Smallest
<1>3. PICK y \in T : SumOf(m, T) # m[y] + SumOf(m, T \ {y})
  BY <1>2
<1> DEFINE p == Pick(T)
<1>4. T \in SUBSET S /\ p \in T
  BY <1>3, PickIsIn
<1>5. SumOf(m, T) = m[p] + SumOf(m, T \ {p})
  BY <1>2, <1>4, SumStep
<1> HIDE DEF p
<1>6. p # y
  BY <1>3, <1>5
<1>7. SumOf(m, T \ {p}) = m[y] + SumOf(m, (T \ {p}) \ {y})
  <2> DEFINE R == T \ {p}
  <2>1. R \in SUBSET S /\ R \subseteq T /\ R # T /\ y \in R
    BY <1>3, <1>4, <1>6
  <2>2. R \notin Bad
    BY <1>2, <2>1
  <2> HIDE DEF R
  <2>3. SumOf(m, R) = m[y] + SumOf(m, R \ {y})
    BY <2>1, <2>2
  <2> QED
    BY <2>3 DEF R
<1>8. SumOf(m, T \ {y}) = m[p] + SumOf(m, (T \ {y}) \ {p})
  <2> DEFINE R == T \ {y}
  <2>1. R \in SUBSET S /\ R \subseteq T /\ R # T /\ p \in R
    BY <1>3, <1>4, <1>6
  <2>2. R \notin Bad
    BY <1>2, <2>1
  <2> HIDE DEF R
  <2>3. SumOf(m, R) = m[p] + SumOf(m, R \ {p})
    BY <2>1, <2>2
  <2> QED
    BY <2>3 DEF R
<1>9. (T \ {y}) \ {p} = (T \ {p}) \ {y}
  OBVIOUS
<1>10. SumOf(m, (T \ {p}) \ {y}) \in Int /\ m[p] \in Int /\ m[y] \in Int
  <2>1. IsFiniteSet((T \ {p}) \ {y})
    BY <1>2, FS_Subset
  <2> QED
    BY <1>3, <1>4, <2>1, SumType
<1> DEFINE rest == SumOf(m, (T \ {p}) \ {y})
<1>11. SumOf(m, T) = m[p] + (m[y] + rest) /\ SumOf(m, T \ {y}) = m[p] + rest
  BY <1>5, <1>7, <1>8, <1>9
<1>12. rest \in Int /\ m[p] \in Int /\ m[y] \in Int
  BY <1>10
<1> HIDE DEF rest
<1> QED
  BY <1>3, <1>11, <1>12

\* A sum of one.
LEMMA SumOne == ASSUME NEW x, NEW m, m[x] \in Int PROVE SumOf(m, {x}) = m[x]
<1>1. IsFiniteSet({x}) /\ {x} \ {x} = {}
  BY FS_Singleton
<1>2. SumOf(m, {x}) = m[x] + SumOf(m, {x} \ {x})
  BY <1>1, SumWithout
<1> QED
  BY <1>1, <1>2, SumEmpty

\* Sums of values that are no less.
LEMMA SumAtMost ==
  ASSUME NEW S, IsFiniteSet(S), NEW m, NEW k, \A x \in S : m[x] \in Int /\ k[x] \in Int /\ m[x] <= k[x]
  PROVE  SumOf(m, S) <= SumOf(k, S)
<1> DEFINE Bad == {T \in SUBSET S : ~(SumOf(m, T) <= SumOf(k, T))}
<1> SUFFICES ASSUME Bad # {} PROVE FALSE
  OBVIOUS
<1>1. Bad \in SUBSET SUBSET S
  OBVIOUS
<1>2. PICK T \in Bad : IsFiniteSet(T) /\ \A R \in Bad : ~(R \subseteq T /\ R # T)
  <2> HIDE DEF Bad
  <2> QED
    BY <1>1, Smallest
<1>3. T # {}
  <2> SUFFICES ASSUME T = {} PROVE FALSE
    OBVIOUS
  <2>1. SumOf(m, T) = 0 /\ SumOf(k, T) = 0
    BY SumEmpty
  <2> QED
    BY <1>2, <2>1
<1>4. PICK y \in T : TRUE
  BY <1>3
<1>5. SumOf(m, T) = m[y] + SumOf(m, T \ {y}) /\ SumOf(k, T) = k[y] + SumOf(k, T \ {y})
  BY <1>1, <1>2, SumWithout
<1>6. SumOf(m, T \ {y}) <= SumOf(k, T \ {y})
  BY <1>2
<1>7. SumOf(m, T \ {y}) \in Int /\ SumOf(k, T \ {y}) \in Int /\ m[y] \in Int /\ k[y] \in Int /\ m[y] <= k[y]
  <2>1. IsFiniteSet(T \ {y})
    BY <1>2, FS_Subset
  <2> QED
    BY <1>1, <1>2, <2>1, SumType
<1> QED
  BY <1>2, <1>5, <1>6, <1>7

\* Sums of the same values.
LEMMA SumSame ==
  ASSUME NEW S, IsFiniteSet(S), NEW m, NEW k, \A x \in S : m[x] \in Int /\ k[x] = m[x]
  PROVE  SumOf(k, S) = SumOf(m, S)
<1>1. SumOf(m, S) <= SumOf(k, S) /\ SumOf(k, S) <= SumOf(m, S)
  BY SumAtMost
<1>2. SumOf(m, S) \in Int /\ SumOf(k, S) \in Int
  BY SumType
<1> QED
  BY <1>1, <1>2

\* One value one more.
LEMMA SumOneMore ==
  ASSUME NEW S, IsFiniteSet(S), NEW m \in [S -> Int], NEW x \in S
  PROVE  SumOf([m EXCEPT ![x] = @ + 1], S) = SumOf(m, S) + 1
<1> DEFINE k == [m EXCEPT ![x] = @ + 1]
<1>1. \A y \in S : m[y] \in Int /\ k[y] \in Int /\ k[y] = IF y = x THEN m[x] + 1 ELSE m[y]
  OBVIOUS
<1> HIDE DEF k
<1>2. SumOf(k, S) = k[x] + SumOf(k, S \ {x}) /\ SumOf(m, S) = m[x] + SumOf(m, S \ {x})
  BY <1>1, SumWithout
<1>3. IsFiniteSet(S \ {x})
  BY FS_Subset
<1>4. SumOf(k, S \ {x}) = SumOf(m, S \ {x}) /\ SumOf(m, S \ {x}) \in Int
  BY <1>1, <1>3, SumSame, SumType
<1> QED
  BY <1>1, <1>2, <1>4 DEF k

\* The sum of differences.
LEMMA SumMinus ==
  ASSUME NEW S, IsFiniteSet(S), NEW m, NEW k, NEW d,
         \A x \in S : m[x] \in Int /\ k[x] \in Int /\ d[x] = m[x] - k[x]
  PROVE  SumOf(d, S) = SumOf(m, S) - SumOf(k, S)
<1> DEFINE Bad == {T \in SUBSET S : SumOf(d, T) # SumOf(m, T) - SumOf(k, T)}
<1> SUFFICES ASSUME Bad # {} PROVE FALSE
  OBVIOUS
<1>1. Bad \in SUBSET SUBSET S
  OBVIOUS
<1>2. PICK T \in Bad : IsFiniteSet(T) /\ \A R \in Bad : ~(R \subseteq T /\ R # T)
  <2> HIDE DEF Bad
  <2> QED
    BY <1>1, Smallest
<1>3. T # {}
  <2> SUFFICES ASSUME T = {} PROVE FALSE
    OBVIOUS
  <2>1. SumOf(m, T) = 0 /\ SumOf(k, T) = 0 /\ SumOf(d, T) = 0
    BY SumEmpty
  <2> QED
    BY <1>2, <2>1
<1>4. PICK y \in T : TRUE
  BY <1>3
<1>5. \A x \in T : m[x] \in Int /\ k[x] \in Int /\ d[x] \in Int /\ d[x] = m[x] - k[x]
  BY <1>1, <1>2
<1>6. /\ SumOf(m, T) = m[y] + SumOf(m, T \ {y}) /\ SumOf(k, T) = k[y] + SumOf(k, T \ {y})
      /\ SumOf(d, T) = d[y] + SumOf(d, T \ {y})
  BY <1>2, <1>5, SumWithout
<1>7. SumOf(d, T \ {y}) = SumOf(m, T \ {y}) - SumOf(k, T \ {y})
  BY <1>2
<1>8. SumOf(m, T \ {y}) \in Int /\ SumOf(k, T \ {y}) \in Int
  <2>1. IsFiniteSet(T \ {y})
    BY <1>2, FS_Subset
  <2> QED
    BY <1>5, <2>1, SumType
<1> QED
  BY <1>2, <1>5, <1>6, <1>7, <1>8

\* A sum over other names of the same things.
LEMMA SumRenamed ==
  ASSUME NEW S, IsFiniteSet(S), NEW U, NEW m, NEW k, NEW b \in [S -> U],
         \A x, y \in S : b[x] = b[y] => x = y,
         \A u \in U : \E x \in S : b[x] = u,
         \A x \in S : m[x] \in Int /\ k[b[x]] = m[x]
  PROVE  SumOf(k, U) = SumOf(m, S)
<1> DEFINE Im(T) == {b[x] : x \in T}
           Bad == {T \in SUBSET S : SumOf(k, Im(T)) # SumOf(m, T)}
<1>0. Im(S) = U
  OBVIOUS
<1> SUFFICES ASSUME Bad # {} PROVE FALSE
  BY <1>0
<1>1. Bad \in SUBSET SUBSET S
  OBVIOUS
<1>2. PICK T \in Bad : IsFiniteSet(T) /\ \A R \in Bad : ~(R \subseteq T /\ R # T)
  <2> HIDE DEF Bad
  <2> QED
    BY <1>1, Smallest
<1>3. SumOf(k, Im(T)) # SumOf(m, T)
  BY <1>2
<1>4. T # {}
  <2> SUFFICES ASSUME T = {} PROVE FALSE
    OBVIOUS
  <2>1. Im(T) = {}
    OBVIOUS
  <2> HIDE DEF Im
  <2> QED
    BY <1>3, <2>1, SumEmpty
<1>5. PICK y \in T : TRUE
  BY <1>4
<1> DEFINE R == T \ {y}
<1>6. /\ R \in SUBSET S /\ R \subseteq T /\ R # T /\ T \in SUBSET S
      /\ Im(T) \ {b[y]} = Im(R) /\ b[y] \in Im(T)
  BY <1>1, <1>2
<1>7. IsFiniteSet(R) /\ IsFiniteSet(Im(T))
  <2>1. [x \in T |-> b[x]] \in Surjection(T, Im(T))
    BY DEF Surjection
  <2> HIDE DEF Im
  <2> QED
    BY <1>2, <1>6, <2>1, FS_Surjection, FS_Subset
<1>8. \A z \in Im(T) : k[z] \in Int
  BY <1>6
<1>9. SumOf(k, Im(R)) = SumOf(m, R)
  BY <1>2, <1>6
<1>10. m[y] \in Int /\ k[b[y]] = m[y]
  BY <1>6
<1> HIDE DEF R, Im, Bad
<1>11. SumOf(k, Im(T)) = k[b[y]] + SumOf(k, Im(R))
  BY <1>6, <1>7, <1>8, SumWithout
<1>12. SumOf(m, T) = m[y] + SumOf(m, R)
  BY <1>2, <1>6, SumWithout DEF R
<1> QED
  BY <1>3, <1>9, <1>10, <1>11, <1>12

\* A sum of values that are not negative is not.
LEMMA SumNat ==
  ASSUME NEW S, IsFiniteSet(S), NEW m, \A x \in S : m[x] \in Nat
  PROVE  SumOf(m, S) \in Nat
<1> DEFINE k == [x \in S |-> m[x] - m[x]]
<1>1. SumOf(k, S) = SumOf(m, S) - SumOf(m, S)
  BY SumMinus
<1>2. SumOf(k, S) <= SumOf(m, S)
  BY SumAtMost
<1>3. SumOf(m, S) \in Int
  BY SumType
<1> QED
  BY <1>1, <1>2, <1>3

\* And it is no less than each of them.
LEMMA SumHasEach ==
  ASSUME NEW S, IsFiniteSet(S), NEW m, \A x \in S : m[x] \in Nat, NEW x \in S
  PROVE  m[x] <= SumOf(m, S)
<1>1. SumOf(m, S) = m[x] + SumOf(m, S \ {x})
  BY SumWithout
<1>2. IsFiniteSet(S \ {x}) /\ \A y \in S \ {x} : m[y] \in Nat
  BY FS_Subset
<1>3. SumOf(m, S \ {x}) \in Nat
  BY <1>2, SumNat
<1> QED
  BY <1>1, <1>3

\* The sum of a function over its domain.
LEMMA SumFunctionIs == ASSUME NEW m PROVE SumFunction(m) = SumOf(m, DOMAIN m)
  BY Zenon DEF SumFunction, SumFunctionOnSet, FoldFunctionOnSet, SumOf, MapThenSumSet

-----------------------------------------------------------------------------
(***************************************************************************)
(* The spread of numbers: that of squares is no less than the square of    *)
(* the sum.                                                                *)
(***************************************************************************)

\* One number more, v: n of them, their sum s and the sum q of their squares.
LEMMA OneMore ==
  ASSUME NEW n \in Int, NEW s \in Int, NEW q \in Int, NEW v \in Int
  PROVE  /\ (n + 1) * (q + v * v) - (s + v) * (s + v) = (n * q - s * s) + (n * v * v - 2 * s * v + q)
         /\ \A y \in Int : (n + 1) * y * y - 2 * (s + v) * y + (q + v * v)
                           = (n * y * y - 2 * s * y + q) + (v - y) * (v - y)
  OBVIOUS

LEMMA SquareNotNegative == ASSUME NEW x \in Int PROVE x * x \in Int /\ x * x >= 0
  OBVIOUS

LEMMA OneElementLess ==
  ASSUME NEW T, IsFiniteSet(T), NEW x \in T
  PROVE  IsFiniteSet(T \ {x}) /\ Cardinality(T) = Cardinality(T \ {x}) + 1 /\ Cardinality(T \ {x}) \in Nat
<1>1. IsFiniteSet(T \ {x}) /\ Cardinality(T \ {x}) = Cardinality(T) - 1
  BY FS_RemoveElement
<1>2. Cardinality(T) \in Nat /\ Cardinality(T \ {x}) \in Nat
  BY <1>1, FS_CardinalityType
<1> QED
  BY <1>1, <1>2

\* The sum of the squared distances to a number y is not negative.
LEMMA DistancesNotNegative ==
  ASSUME NEW S, IsFiniteSet(S), NEW m, NEW sq, \A x \in S : m[x] \in Int /\ sq[x] = m[x] * m[x], NEW y \in Int
  PROVE  Cardinality(S) * y * y - 2 * SumOf(m, S) * y + SumOf(sq, S) >= 0
<1> DEFINE P(T) == Cardinality(T) * y * y - 2 * SumOf(m, T) * y + SumOf(sq, T)
           Bad == {T \in SUBSET S : ~(P(T) >= 0)}
<1> SUFFICES ASSUME Bad # {} PROVE FALSE
  OBVIOUS
<1>1. Bad \in SUBSET SUBSET S
  OBVIOUS
<1>2. PICK T \in Bad : IsFiniteSet(T) /\ \A R \in Bad : ~(R \subseteq T /\ R # T)
  <2> HIDE DEF Bad
  <2> QED
    BY <1>1, Smallest
<1>3. T # {}
  <2> SUFFICES ASSUME T = {} PROVE FALSE
    OBVIOUS
  <2>1. SumOf(m, T) = 0 /\ SumOf(sq, T) = 0 /\ Cardinality(T) = 0
    BY SumEmpty, FS_EmptySet
  <2> QED
    BY <1>2, <2>1
<1>4. PICK x \in T : TRUE
  BY <1>3
<1> DEFINE R == T \ {x}
<1>5. IsFiniteSet(R) /\ Cardinality(T) = Cardinality(R) + 1 /\ Cardinality(R) \in Nat
  BY <1>2, <1>4, OneElementLess
<1>6. SumOf(m, T) = SumOf(m, R) + m[x] /\ SumOf(sq, T) = SumOf(sq, R) + m[x] * m[x]
  <2>1. /\ SumOf(m, T) = m[x] + SumOf(m, R) /\ SumOf(sq, T) = m[x] * m[x] + SumOf(sq, R)
        /\ SumOf(m, R) \in Int /\ SumOf(sq, R) \in Int /\ m[x] \in Int /\ m[x] * m[x] \in Int
    BY <1>1, <1>2, <1>4, <1>5, SumWithout, SumType, SquareNotNegative
  <2> HIDE DEF R
  <2> QED
    BY <2>1
<1>7. m[x] \in Int /\ SumOf(m, R) \in Int /\ SumOf(sq, R) \in Int
  BY <1>1, <1>5, SumType, SquareNotNegative
<1>8. P(R) >= 0
  BY <1>2, <1>4
<1> HIDE DEF R
<1>9. P(T) = P(R) + (m[x] - y) * (m[x] - y)
  BY <1>5, <1>6, <1>7, OneMore
<1>10. P(R) \in Int /\ (m[x] - y) * (m[x] - y) \in Int /\ (m[x] - y) * (m[x] - y) >= 0
  BY <1>5, <1>7, SquareNotNegative
<1>11. P(T) >= 0
  <2> HIDE DEF P
  <2> QED
    BY <1>8, <1>9, <1>10
<1> QED
  BY <1>2, <1>11

\* The number of summands times the sum of their squares.
LEMMA SpreadNotNegative ==
  ASSUME NEW S, IsFiniteSet(S), NEW m, NEW sq, \A x \in S : m[x] \in Int /\ sq[x] = m[x] * m[x]
  PROVE  Cardinality(S) * SumOf(sq, S) - SumOf(m, S) * SumOf(m, S) \in Nat
<1> DEFINE P(T) == Cardinality(T) * SumOf(sq, T) - SumOf(m, T) * SumOf(m, T)
           Bad == {T \in SUBSET S : P(T) \notin Nat}
<1> SUFFICES ASSUME Bad # {} PROVE FALSE
  OBVIOUS
<1>1. Bad \in SUBSET SUBSET S
  OBVIOUS
<1>2. PICK T \in Bad : IsFiniteSet(T) /\ \A R \in Bad : ~(R \subseteq T /\ R # T)
  <2> HIDE DEF Bad
  <2> QED
    BY <1>1, Smallest
<1>3. T # {}
  <2> SUFFICES ASSUME T = {} PROVE FALSE
    OBVIOUS
  <2>1. SumOf(m, T) = 0 /\ SumOf(sq, T) = 0 /\ Cardinality(T) = 0
    BY SumEmpty, FS_EmptySet
  <2> QED
    BY <1>2, <2>1
<1>4. PICK x \in T : TRUE
  BY <1>3
<1> DEFINE R == T \ {x}
<1>5. IsFiniteSet(R) /\ Cardinality(T) = Cardinality(R) + 1 /\ Cardinality(R) \in Nat
  BY <1>2, <1>4, OneElementLess
<1>6. SumOf(m, T) = SumOf(m, R) + m[x] /\ SumOf(sq, T) = SumOf(sq, R) + m[x] * m[x]
  <2>1. /\ SumOf(m, T) = m[x] + SumOf(m, R) /\ SumOf(sq, T) = m[x] * m[x] + SumOf(sq, R)
        /\ SumOf(m, R) \in Int /\ SumOf(sq, R) \in Int /\ m[x] \in Int /\ m[x] * m[x] \in Int
    BY <1>1, <1>2, <1>4, <1>5, SumWithout, SumType, SquareNotNegative
  <2> HIDE DEF R
  <2> QED
    BY <2>1
<1>7. m[x] \in Int /\ SumOf(m, R) \in Int /\ SumOf(sq, R) \in Int
  BY <1>1, <1>5, SumType, SquareNotNegative
<1>8. P(R) \in Nat
  BY <1>2, <1>4
<1> DEFINE rest == Cardinality(R) * m[x] * m[x] - 2 * SumOf(m, R) * m[x] + SumOf(sq, R)
<1>9. rest >= 0
  BY <1>1, <1>5, <1>7, DistancesNotNegative
<1> HIDE DEF R
<1>10. P(T) = P(R) + rest
  <2> DEFINE n == Cardinality(R)  s == SumOf(m, R)  q == SumOf(sq, R)  v == m[x]
  <2>1. P(T) = (n + 1) * (q + v * v) - (s + v) * (s + v)
    BY <1>5, <1>6
  <2>2. n \in Int /\ s \in Int /\ q \in Int /\ v \in Int
    BY <1>5, <1>7
  <2>3. P(R) + rest = (n * q - s * s) + (n * v * v - 2 * s * v + q)
    OBVIOUS
  <2> HIDE DEF n, s, q, v, P, rest
  <2>4. (n + 1) * (q + v * v) - (s + v) * (s + v) = (n * q - s * s) + (n * v * v - 2 * s * v + q)
    BY <2>2, OneMore
  <2> QED
    BY <2>1, <2>3, <2>4
<1>11. rest \in Int
  BY <1>5, <1>7
<1>12. P(T) \in Nat
  <2> HIDE DEF P, rest
  <2> QED
    BY <1>8, <1>9, <1>10, <1>11
<1> QED
  BY <1>2, <1>12

-----------------------------------------------------------------------------
(***************************************************************************)
(* Sums of two, of equal values, of two parts.                             *)
(***************************************************************************)
\* A sum of two.
LEMMA SumTwo ==
  ASSUME NEW x, NEW y, x # y, NEW m, m[x] \in Int, m[y] \in Int
  PROVE  SumOf(m, {x, y}) = m[x] + m[y]
<1>1. IsFiniteSet({x, y})
  <2>1. IsFiniteSet({y}) /\ {x, y} = {y} \cup {x}
    BY FS_Singleton
  <2> QED
    BY <2>1, FS_AddElement
<1>2. {x, y} \ {x} = {y}
  OBVIOUS
<1>3. SumOf(m, {x, y}) = m[x] + SumOf(m, {x, y} \ {x})
  BY <1>1, SumWithout
<1> QED
  BY <1>2, <1>3, SumOne

\* A sum of as many equal values as there are elements.
LEMMA SumConstant ==
  ASSUME NEW S, IsFiniteSet(S), NEW m, NEW c \in Int, \A x \in S : m[x] = c
  PROVE  SumOf(m, S) = Cardinality(S) * c
<1> DEFINE Bad == {T \in SUBSET S : SumOf(m, T) # Cardinality(T) * c}
<1> SUFFICES ASSUME Bad # {} PROVE FALSE
  OBVIOUS
<1>1. Bad \in SUBSET SUBSET S
  OBVIOUS
<1>2. PICK T \in Bad : IsFiniteSet(T) /\ \A R \in Bad : ~(R \subseteq T /\ R # T)
  <2> HIDE DEF Bad
  <2> QED
    BY <1>1, Smallest
<1>3. T # {}
  <2> SUFFICES ASSUME T = {} PROVE FALSE
    OBVIOUS
  <2>1. SumOf(m, T) = 0 /\ Cardinality(T) = 0
    BY SumEmpty, FS_EmptySet
  <2> QED
    BY <1>2, <2>1
<1>4. PICK x \in T : TRUE
  BY <1>3
<1> DEFINE R == T \ {x}
<1>5. Cardinality(T) = Cardinality(R) + 1 /\ Cardinality(R) \in Nat
  BY <1>2, <1>4, OneElementLess
<1>6. SumOf(m, T) = c + SumOf(m, R)
  <2>1. m[x] = c /\ \A y \in T : m[y] \in Int
    BY <1>2
  <2>2. SumOf(m, T) = m[x] + SumOf(m, T \ {x})
    BY <1>2, <2>1, SumWithout
  <2> QED
    BY <2>1, <2>2
<1>7. SumOf(m, R) = Cardinality(R) * c
  BY <1>2, <1>4
<1> HIDE DEF R
<1>8. SumOf(m, T) = Cardinality(T) * c
  BY <1>5, <1>6, <1>7
<1> QED
  BY <1>2, <1>8

\* The sum of two parts.
LEMMA SumParts ==
  ASSUME NEW S, IsFiniteSet(S), NEW U, IsFiniteSet(U), S \cap U = {}, NEW m, \A x \in S \cup U : m[x] \in Int
  PROVE  SumOf(m, S \cup U) = SumOf(m, S) + SumOf(m, U)
<1> DEFINE Bad == {T \in SUBSET U : SumOf(m, S \cup T) # SumOf(m, S) + SumOf(m, T)}
<1> SUFFICES ASSUME Bad # {} PROVE FALSE
  OBVIOUS
<1>1. Bad \in SUBSET SUBSET U
  OBVIOUS
<1>2. PICK T \in Bad : IsFiniteSet(T) /\ \A R \in Bad : ~(R \subseteq T /\ R # T)
  <2> HIDE DEF Bad
  <2> QED
    BY <1>1, Smallest
<1>3. SumOf(m, S) \in Int
  BY SumType
<1>4. T # {}
  <2> SUFFICES ASSUME T = {} PROVE FALSE
    OBVIOUS
  <2>1. SumOf(m, T) = 0 /\ S \cup T = S
    BY SumEmpty
  <2> QED
    BY <1>2, <1>3, <2>1
<1>5. PICK x \in T : TRUE
  BY <1>4
<1> DEFINE R == T \ {x}
<1>6. R \in SUBSET U /\ IsFiniteSet(R) /\ SumOf(m, S \cup R) = SumOf(m, S) + SumOf(m, R)
  BY <1>1, <1>2, <1>5, FS_Subset
<1>7. SumOf(m, T) = m[x] + SumOf(m, R) /\ m[x] \in Int /\ SumOf(m, R) \in Int
  <2>1. \A y \in T : m[y] \in Int
    BY <1>1, <1>2
  <2> QED
    BY <1>2, <1>5, <1>6, <2>1, SumWithout, SumType
<1>8. SumOf(m, S \cup T) = m[x] + SumOf(m, S \cup R)
  <2>1. IsFiniteSet(S \cup T) /\ \A y \in S \cup T : m[y] \in Int
    BY <1>1, <1>2, FS_Union
  <2>2. (S \cup T) \ {x} = S \cup R
    BY <1>1, <1>2, <1>5
  <2>3. x \in S \cup T
    BY <1>5
  <2> HIDE DEF R
  <2> QED
    BY <2>1, <2>2, <2>3, SumWithout
<1> HIDE DEF R
<1>9. SumOf(m, S \cup T) = SumOf(m, S) + SumOf(m, T)
  BY <1>3, <1>6, <1>7, <1>8
<1> QED
  BY <1>2, <1>9

\* A value per number, all of them c but one that is k more.
AllButOne(m, S, N, v, c, k) ==
  /\ S = {<<n, v[n]>> : n \in 1..N}
  /\ \E one \in 1..N : m[<<one, v[one]>>] = c + k /\ \A n \in 1..N : n # one => m[<<n, v[n]>>] = c

\* There are as many of them as there are numbers.
LEMMA AsManyNumbered ==
  ASSUME NEW v, NEW S, NEW N, S = {<<n, v[n]>> : n \in 1..N}, N \in Nat
  PROVE  IsFiniteSet(S) /\ Cardinality(S) = N
<1> DEFINE b == [n \in 1..N |-> <<n, v[n]>>]
<1>1. b \in Bijection(1..N, S)
  <2>1. b \in Surjection(1..N, S)
    BY DEF Surjection
  <2>2. b \in Injection(1..N, S)
    BY DEF Injection, IsInjective
  <2> QED
    BY <2>1, <2>2 DEF Bijection
<1>2. IsFiniteSet(1..N) /\ Cardinality(1..N) = N
  BY FS_Interval
<1> HIDE DEF b
<1> QED
  BY <1>1, <1>2, FS_Bijection DEF ExistsBijection

\* Their sum.
LEMMA SumNumbered ==
  ASSUME NEW v, NEW S, NEW m, NEW N, NEW c, NEW k, AllButOne(m, S, N, v, c, k), N \in Nat, c \in Int, k \in Int
  PROVE  SumOf(m, S) = N * c + k
<1>0. S = {<<n, v[n]>> : n \in 1..N}
  BY DEF AllButOne
<1>a. PICK one \in 1..N : m[<<one, v[one]>>] = c + k /\ \A n \in 1..N : n # one => m[<<n, v[n]>>] = c
  BY Zenon DEF AllButOne
<1> DEFINE x == <<one, v[one]>>  R == S \ {x}
<1>1. IsFiniteSet(S) /\ Cardinality(S) = N
  BY <1>0, AsManyNumbered
<1>2. x \in S
  BY <1>0, <1>a
<1>3. \A y \in R : m[y] = c
  BY <1>0, <1>a
<1>4. m[x] = c + k
  BY <1>a
<1> HIDE DEF x
<1>5. IsFiniteSet(R) /\ N = Cardinality(R) + 1 /\ Cardinality(R) \in Nat
  BY <1>1, <1>2, OneElementLess
<1>6. \A y \in S : m[y] \in Int
  BY <1>3, <1>4
<1>7. SumOf(m, S) = m[x] + SumOf(m, R)
  BY <1>1, <1>2, <1>6, SumWithout
<1> HIDE DEF R
<1>8. SumOf(m, R) = Cardinality(R) * c
  BY <1>3, <1>5, SumConstant
<1>9. SumOf(m, S) = N * c + k
  <2> DEFINE r == Cardinality(R)
  <2>1. SumOf(m, S) = (c + k) + r * c /\ N = r + 1 /\ r \in Nat
    BY <1>4, <1>5, <1>7, <1>8
  <2> HIDE DEF r
  <2> QED
    BY <2>1
<1> QED
  BY <1>9

-----------------------------------------------------------------------------
(***************************************************************************)
(* Products of one and of two values, as FoldSet takes them.               *)
(***************************************************************************)
\* A product over one or two elements, as the fold takes it.
Multiplies(m, S, g) ==
  g = [s \in SUBSET S |-> IF s = {} THEN 1 ELSE g[s \ {Pick(s)}] * m[Pick(s)]]

Multiplied(m, S, g) ==
  \A s \in SUBSET S : (s = {} => g[s] = 1) /\ (s # {} => g[s] = g[s \ {Pick(s)}] * m[Pick(s)])

LEMMA MultipliesAt ==
  ASSUME NEW m, NEW S, NEW g, Multiplies(m, S, g)
  PROVE  Multiplied(m, S, g)
<1>1. ASSUME NEW s \in SUBSET S PROVE g[s] = IF s = {} THEN 1 ELSE g[s \ {Pick(s)}] * m[Pick(s)]
  BY Zenon DEF Multiplies
<1> QED
  BY <1>1, Zenon DEF Multiplied

\* Of one element that one is picked, and the product is its value.
LEMMA PickOfOne == ASSUME NEW x PROVE Pick({x}) = x
  BY DEF Pick

LEMMA ProductOfOne ==
  ASSUME NEW x, NEW m, m[x] \in Int, NEW S, x \in S, NEW g, Multiplies(m, S, g)
  PROVE  g[{x}] = m[x]
<1>0. Multiplied(m, S, g)
  BY MultipliesAt
<1>1. {x} \in SUBSET S /\ {} \in SUBSET S /\ {x} # {}
  OBVIOUS
<1>2. g[{}] = 1
  BY <1>0, <1>1 DEF Multiplied
<1>3. g[{x}] = g[{x} \ {Pick({x})}] * m[Pick({x})]
  BY <1>0, <1>1, Zenon DEF Multiplied
<1>4. {x} \ {Pick({x})} = {} /\ Pick({x}) = x
  BY PickOfOne
<1>5. g[{x}] = 1 * m[x]
  BY <1>2, <1>3, <1>4, Zenon
<1> QED
  BY <1>5

\* Of two it is theirs, whichever is picked first.
IsProduct(m, x, y, g) == g[{x, y}] = m[x] * m[y]

LEMMA ProductOfTwo ==
  ASSUME NEW x, NEW y, x # y, NEW m, m[x] \in Int, m[y] \in Int, NEW g, Multiplies(m, {x, y}, g)
  PROVE  IsProduct(m, x, y, g)
<1> DEFINE S == {x, y}
<1>0. Multiplied(m, S, g)
  <2> HIDE DEF S
  <2> QED
    BY MultipliesAt DEF S
<1>1. S \in SUBSET S /\ S # {} /\ x \in S /\ y \in S
  OBVIOUS
<1>2. g[S] = g[S \ {Pick(S)}] * m[Pick(S)]
  BY <1>0, <1>1, Zenon DEF Multiplied
<1>3. Pick(S) = x \/ Pick(S) = y
  BY PickIsIn
<1>4. S \ {x} = {y} /\ S \ {y} = {x}
  OBVIOUS
<1>5. g[{x}] = m[x] /\ g[{y}] = m[y]
  BY <1>1, ProductOfOne
<1> HIDE DEF S
<1>6. g[S] = m[y] * m[x] \/ g[S] = m[x] * m[y]
  BY <1>2, <1>3, <1>4, <1>5
<1>7. m[y] * m[x] = m[x] * m[y]
  OBVIOUS
<1> QED
  BY <1>6, <1>7 DEF S, IsProduct

\* The fold's choice has something to choose.
LEMMA SomeProduct ==
  ASSUME NEW x, NEW y, NEW m, m[x] \in Int, m[y] \in Int
  PROVE  \E g : Multiplies(m, {x, y}, g)
<1> DEFINE S == {x, y}
           h == [s \in SUBSET S |-> IF s = {} THEN 1 ELSE IF s = {x} THEN m[x] ELSE IF s = {y} THEN m[y] ELSE m[x] * m[y]]
<1>1. ASSUME NEW s \in SUBSET S
      PROVE  h[s] = IF s = {} THEN 1 ELSE h[s \ {Pick(s)}] * m[Pick(s)]
  <2>1. s = {} \/ s = {x} \/ s = {y} \/ (s = S /\ x # y)
    OBVIOUS
  <2>2. CASE s = {}
    BY <2>2
  <2>0. h[{}] = 1 /\ h[{x}] = m[x] /\ h[{y}] = m[y]
    OBVIOUS
  <2>3. ASSUME NEW z \in S, s = {z} PROVE h[s] = h[s \ {Pick(s)}] * m[Pick(s)]
    <3>1. Pick(s) = z /\ s \ {z} = {}
      BY <2>3, PickOfOne
    <3>2. h[s] = m[z] /\ m[z] \in Int
      BY <2>3
    <3>3. h[s] = 1 * m[z]
      BY <3>2
    <3> HIDE DEF h, S
    <3> QED
      BY <2>0, <3>1, <3>3, Zenon
  <2>4. ASSUME s = S, x # y PROVE h[s] = h[s \ {Pick(s)}] * m[Pick(s)]
    <3>1. Pick(S) = x \/ Pick(S) = y
      BY PickIsIn
    <3>2. S \ {x} = {y} /\ S \ {y} = {x}
      BY <2>4
    <3>3. h[S] = m[x] * m[y] /\ m[y] * m[x] = m[x] * m[y]
      BY <2>4
    <3> HIDE DEF h, S
    <3> QED
      BY <2>0, <2>4, <3>1, <3>2, <3>3
  <2> HIDE DEF h
  <2> QED
    BY <2>1, <2>2, <2>3, <2>4
<1>2. h = [s \in SUBSET S |-> IF s = {} THEN 1 ELSE h[s \ {Pick(s)}] * m[Pick(s)]]
  BY <1>1
<1> QED
  BY <1>2 DEF Multiplies
=============================================================================
