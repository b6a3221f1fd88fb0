-------------------------------- MODULE Sums --------------------------------
(***************************************************************************)
(* Lemmas on induction and on the sums the ledger, the backtest and the    *)
(* contract are accounted with.  The library's induction theorems take a   *)
(* predicate as a parameter; here a set stands in its place.               *)
(***************************************************************************)
EXTENDS Integers, FiniteSets, Functions, FiniteSetTheorems, WellFoundedInduction, TLAPS

-----------------------------------------------------------------------------
(* Induction *)

(* A set of naturals has a least member. *)
LEMMA LeastOf ==
  ASSUME NEW T, T \subseteq Nat, T # {}
  PROVE  \E x \in T : \A y \in T : x <= y
<1> DEFINE R == OpToRel(<, Nat)
<1>1. IsWellFoundedOn(R, Nat)
  BY NatLessThanWellFounded, Zenon
<1>2. \A x, y \in Nat : x < y => <<x, y>> \in R
  BY DEF OpToRel
<1> HIDE DEF R
<1>3. PICK x \in T : \A y \in T : <<y, x>> \notin R
  BY <1>1, WFMin
<1>4. \A y \in T : ~(y < x)
  BY <1>2, <1>3
<1>5. \A y \in T : x <= y
  BY <1>4
<1> QED
  BY <1>5

(* Induction, with a set in the place of a predicate. *)
LEMMA NumberInduction ==
  ASSUME NEW P, 0 \in P, \A n \in Nat : n \in P => n + 1 \in P
  PROVE  \A n \in Nat : n \in P
<1> DEFINE T == Nat \ P
<1> SUFFICES ASSUME T # {} PROVE FALSE
  OBVIOUS
<1>1. PICK x \in T : \A y \in T : x <= y
  BY LeastOf
<1>2. x # 0 /\ x \in Nat
  OBVIOUS
<1>3. x - 1 \in Nat /\ x - 1 \notin T
  BY <1>1, <1>2
<1> QED
  BY <1>2, <1>3

(* The same over the subsets of a finite set. *)
LEMMA SetInduction ==
  ASSUME NEW S, IsFiniteSet(S), NEW P, {} \in P,
         \A T \in SUBSET S : T # {} /\ (\A x \in T : T \ {x} \in P) => T \in P
  PROVE  \A T \in SUBSET S : T \in P
<1> DEFINE Sizes == {n \in Nat : \A T \in SUBSET S : Cardinality(T) = n => T \in P}
<1>1. 0 \in Sizes
  <2> SUFFICES ASSUME NEW T \in SUBSET S, Cardinality(T) = 0 PROVE T \in P
    OBVIOUS
  <2>1. IsFiniteSet(T)
    BY FS_Subset
  <2> QED
    BY <2>1, FS_EmptySet
<1>2. ASSUME NEW n \in Nat, n \in Sizes PROVE n + 1 \in Sizes
  <2> SUFFICES ASSUME NEW T \in SUBSET S, Cardinality(T) = n + 1 PROVE T \in P
    OBVIOUS
  <2>1. IsFiniteSet(T)
    BY FS_Subset
  <2>2. T # {}
    <3>1. T = {} => Cardinality(T) = 0
      BY <2>1, FS_EmptySet
    <3> QED
      BY <3>1
  <2>3. ASSUME NEW x \in T PROVE T \ {x} \in P
    <3>1. Cardinality(T \ {x}) = Cardinality(T) - 1
      BY <2>1, FS_RemoveElement
    <3> QED
      BY <1>2, <3>1
  <2> QED
    BY <2>2, <2>3
<1>3. \A n \in Nat : n \in Sizes
  <2> HIDE DEF Sizes
  <2> QED
    BY <1>1, <1>2, NumberInduction
<1> SUFFICES ASSUME NEW T \in SUBSET S PROVE T \in P
  OBVIOUS
<1>4. Cardinality(T) \in Nat
  BY FS_Subset, FS_CardinalityType
<1> QED
  BY <1>3, <1>4

-----------------------------------------------------------------------------
(* Sums *)

(* SumFunctionOnSet is a choice among the functions that satisfy its       *)
(* recursion; Counts says that g is one of them.                           *)
Pick(s) == CHOOSE x \in s : TRUE
Adds(f, D, it) == [s \in D |-> IF s = {} THEN 0 ELSE f[Pick(s)] + it[s \ {Pick(s)}]]

Counts(f, S, g) == g = Adds(f, SUBSET S, g)

(* The element the sum takes next. *)
LEMMA PickIn == ASSUME NEW s, s # {} PROVE Pick(s) \in s
BY DEF Pick

(* The recursion has a solution: on the subsets of at most k elements, for *)
(* every k.                                                                *)
LEMMA AddsExists ==
  ASSUME NEW f, NEW S, IsFiniteSet(S)
  PROVE  \E g : g = Adds(f, SUBSET S, g)
<1> DEFINE D(k) == {s \in SUBSET S : Cardinality(s) <= k}
           E == {k \in Nat : \E g : g = Adds(f, D(k), g)}
<1>0. ASSUME NEW s \in SUBSET S
      PROVE  /\ IsFiniteSet(s) /\ Cardinality(s) \in Nat
             /\ s # {} => Pick(s) \in s /\ Cardinality(s \ {Pick(s)}) = Cardinality(s) - 1
  <2>1. IsFiniteSet(s) /\ Cardinality(s) \in Nat
    BY FS_Subset, FS_CardinalityType
  <2>2. s # {} => Pick(s) \in s
    BY PickIn
  <2> QED
    BY <2>1, <2>2, FS_RemoveElement
<1>1. 0 \in E
  <2> DEFINE g == [s \in D(0) |-> 0]
  <2>1. ASSUME NEW s \in D(0) PROVE s = {}
    <3>1. s \in SUBSET S /\ Cardinality(s) <= 0
      OBVIOUS
    <3>2. IsFiniteSet(s) /\ Cardinality(s) \in Nat
      BY <1>0, <3>1
    <3>3. Cardinality(s) = 0
      BY <3>1, <3>2
    <3> QED
      BY <3>2, <3>3, FS_EmptySet
  <2>2. g = Adds(f, D(0), g)
    BY <2>1 DEF Adds
  <2> QED
    BY <2>2
<1>2. ASSUME NEW k \in Nat, k \in E PROVE k + 1 \in E
  <2>1. PICK g : g = Adds(f, D(k), g)
    BY <1>2
  <2> DEFINE h == [s \in D(k + 1) |-> IF s \in D(k) THEN g[s]
                                      ELSE f[Pick(s)] + g[s \ {Pick(s)}]]
  <2>2. \A s \in D(k + 1) : s # {} => s \ {Pick(s)} \in D(k) /\ s \ {Pick(s)} \in D(k + 1)
    BY <1>0
  <2>3. \A s \in D(k) : s \in D(k + 1) /\ h[s] = g[s]
    <3>1. ASSUME NEW s \in D(k) PROVE s \in D(k + 1)
      <4>1. s \in SUBSET S /\ Cardinality(s) <= k
        OBVIOUS
      <4>2. Cardinality(s) \in Nat
        BY <1>0, <4>1
      <4> QED
        BY <4>1, <4>2
    <3> HIDE DEF D
    <3> QED
      BY <3>1
  <2>4. \A s \in D(k) : g[s] = IF s = {} THEN 0 ELSE f[Pick(s)] + g[s \ {Pick(s)}]
    BY <2>1 DEF Adds
  <2>5. {} \in D(k)
    BY FS_EmptySet
  <2>6. ASSUME NEW s \in D(k + 1)
        PROVE  h[s] = IF s = {} THEN 0 ELSE f[Pick(s)] + h[s \ {Pick(s)}]
    <3>1. CASE s \in D(k)
      BY <3>1, <2>2, <2>3, <2>4
    <3>2. CASE s \notin D(k)
      <4>1. s # {}
        BY <3>2, <2>5
      <4>2. h[s] = f[Pick(s)] + g[s \ {Pick(s)}]
        BY <3>2
      <4> HIDE DEF D, h
      <4> QED
        BY <4>1, <4>2, <2>2, <2>3
    <3> QED
      BY <3>1, <3>2
  <2>7. h = Adds(f, D(k + 1), h)
    <3>1. h = [s \in D(k + 1) |-> h[s]]
      OBVIOUS
    <3> HIDE DEF h, D
    <3> QED
      BY <2>6, <3>1 DEF Adds
  <2> QED
    BY <2>7
<1>3. \A k \in Nat : k \in E
  <2> HIDE DEF E
  <2> QED
    BY <1>1, <1>2, NumberInduction
<1>4. Cardinality(S) \in Nat
  BY FS_CardinalityType
<1>5. D(Cardinality(S)) = SUBSET S
  BY FS_Subset, FS_CardinalityType
<1> QED
  BY <1>3, <1>4, <1>5

(* So the sum is what a solution says of the whole set. *)
LEMMA SumIter ==
  ASSUME NEW f, NEW S, IsFiniteSet(S)
  PROVE  \E g : Counts(f, S, g) /\ SumFunctionOnSet(f, S) = g[S]
<1> DEFINE g == CHOOSE it : it = Adds(f, SUBSET S, it)
<1>1. SumFunctionOnSet(f, S) = g[S]
  BY DEF SumFunctionOnSet, FoldFunctionOnSet, MapThenFoldSet, Adds, Pick
<1>2. g = Adds(f, SUBSET S, g)
  BY AddsExists
<1> QED
  BY <1>1, <1>2 DEF Counts

(* Two solutions agree where both speak. *)
LEMMA AddsUnique ==
  ASSUME NEW f, NEW S, IsFiniteSet(S), NEW T \in SUBSET S,
         NEW g, Counts(f, S, g), NEW h, Counts(f, T, h)
  PROVE  g[T] = h[T]
<1> DEFINE P == {s \in SUBSET T : g[s] = h[s]}
<1>1. {} \in P
  BY DEF Adds, Counts
<1>2. ASSUME NEW U \in SUBSET T, U # {}, \A x \in U : U \ {x} \in P PROVE U \in P
  <2>1. Pick(U) \in U
    BY <1>2, PickIn
  <2>2. g[U \ {Pick(U)}] = h[U \ {Pick(U)}]
    BY <1>2, <2>1
  <2>3. g[U] = f[Pick(U)] + g[U \ {Pick(U)}]
    BY <1>2 DEF Adds, Counts
  <2>4. h[U] = f[Pick(U)] + h[U \ {Pick(U)}]
    BY <1>2 DEF Adds, Counts
  <2> QED
    BY <2>2, <2>3, <2>4
<1>3. IsFiniteSet(T)
  BY FS_Subset
<1>4. \A U \in SUBSET T : U \in P
  <2> HIDE DEF P
  <2> QED
    BY <1>1, <1>2, <1>3, SetInduction
<1> QED
  BY <1>4

(* The sum over nothing. *)
LEMMA SumEmpty == ASSUME NEW f PROVE SumFunctionOnSet(f, {}) = 0
<1>1. IsFiniteSet({})
  BY FS_EmptySet
<1>2. PICK g : Counts(f, {}, g) /\ SumFunctionOnSet(f, {}) = g[{}]
  BY <1>1, SumIter
<1> QED
  BY <1>2 DEF Adds, Counts

(* The sum is the picked element's value and the sum of the others. *)
LEMMA SumPick ==
  ASSUME NEW f, NEW S, IsFiniteSet(S), S # {}
  PROVE  SumFunctionOnSet(f, S) = f[Pick(S)] + SumFunctionOnSet(f, S \ {Pick(S)})
<1> DEFINE T == S \ {Pick(S)}
<1>1. PICK g : Counts(f, S, g) /\ SumFunctionOnSet(f, S) = g[S]
  BY SumIter
<1>2. IsFiniteSet(T)
  BY FS_Subset
<1>3. PICK h : Counts(f, T, h) /\ SumFunctionOnSet(f, T) = h[T]
  BY <1>2, SumIter
<1>4. g[T] = h[T]
  <2>1. T \in SUBSET S
    OBVIOUS
  <2> HIDE DEF T
  <2> QED
    BY <1>1, <1>3, <2>1, AddsUnique
<1>5. g[S] = f[Pick(S)] + g[T]
  BY <1>1 DEF Adds, Counts
<1> QED
  BY <1>1, <1>3, <1>4, <1>5

(* A sum of integers is one. *)
LEMMA SumType ==
  ASSUME NEW f, NEW S, IsFiniteSet(S), \A x \in S : f[x] \in Int
  PROVE  SumFunctionOnSet(f, S) \in Int
<1> DEFINE P == {T \in SUBSET S : SumFunctionOnSet(f, T) \in Int}
<1>1. {} \in P
  BY SumEmpty
<1>2. ASSUME NEW T \in SUBSET S, T # {}, \A x \in T : T \ {x} \in P PROVE T \in P
  <2>1. IsFiniteSet(T)
    BY FS_Subset
  <2>2. Pick(T) \in T
    BY <1>2, PickIn
  <2>3. SumFunctionOnSet(f, T) = f[Pick(T)] + SumFunctionOnSet(f, T \ {Pick(T)})
    BY <1>2, <2>1, SumPick
  <2> QED
    BY <1>2, <2>2, <2>3
<1>3. \A T \in SUBSET S : T \in P
  <2> HIDE DEF P
  <2> QED
    BY <1>1, <1>2, SetInduction
<1> QED
  BY <1>3

(* The order does not matter: any element can be taken out first. *)
LEMMA SumTake ==
  ASSUME NEW f, NEW S, IsFiniteSet(S), \A x \in S : f[x] \in Int, NEW y \in S
  PROVE  SumFunctionOnSet(f, S) = f[y] + SumFunctionOnSet(f, S \ {y})
<1> DEFINE Sum(T) == SumFunctionOnSet(f, T)
           P == {T \in SUBSET S : \A x \in T : Sum(T) = f[x] + Sum(T \ {x})}
<1>1. {} \in P
  OBVIOUS
<1>2. ASSUME NEW T \in SUBSET S, T # {}, \A x \in T : T \ {x} \in P PROVE T \in P
  <2> DEFINE p == Pick(T)
  <2>1. IsFiniteSet(T)
    BY FS_Subset
  <2>2. p \in T
    BY <1>2, PickIn
  <2>3. Sum(T) = f[p] + Sum(T \ {p})
    BY <1>2, <2>1, SumPick
  <2>4. ASSUME NEW x \in T, x # p PROVE Sum(T) = f[x] + Sum(T \ {x})
    <3>1. T \ {p} \in P /\ T \ {x} \in P
      BY <1>2, <2>2
    <3>2. Sum(T \ {p}) = f[x] + Sum((T \ {p}) \ {x})
      BY <3>1, <2>4
    <3>3. Sum(T \ {x}) = f[p] + Sum((T \ {x}) \ {p})
      BY <3>1, <2>2, <2>4
    <3>4. Sum((T \ {p}) \ {x}) = Sum((T \ {x}) \ {p})
      <4>1. (T \ {p}) \ {x} = (T \ {x}) \ {p}
        OBVIOUS
      <4> QED
        BY <4>1
    <3>5. Sum((T \ {p}) \ {x}) \in Int
      <4>1. IsFiniteSet((T \ {p}) \ {x})
        BY <2>1, FS_Subset
      <4> QED
        BY <4>1, SumType
    <3>6. f[p] \in Int /\ f[x] \in Int
      BY <2>2
    <3> HIDE DEF Sum, p, P
    <3> QED
      BY <3>6, <2>3, <3>2, <3>3, <3>4, <3>5
  <2> QED
    BY <2>3, <2>4
<1>3. \A T \in SUBSET S : T \in P
  <2> HIDE DEF P
  <2> QED
    BY <1>1, <1>2, SetInduction
<1> QED
  BY <1>3

(* A sum of naturals is one. *)
LEMMA SumNat ==
  ASSUME NEW f, NEW S, IsFiniteSet(S), \A x \in S : f[x] \in Nat
  PROVE  SumFunctionOnSet(f, S) \in Nat
<1> DEFINE P == {T \in SUBSET S : SumFunctionOnSet(f, T) \in Nat}
<1>1. {} \in P
  BY SumEmpty
<1>2. ASSUME NEW T \in SUBSET S, T # {}, \A x \in T : T \ {x} \in P PROVE T \in P
  <2>1. IsFiniteSet(T)
    BY FS_Subset
  <2>2. Pick(T) \in T
    BY <1>2, PickIn
  <2>3. SumFunctionOnSet(f, T) = f[Pick(T)] + SumFunctionOnSet(f, T \ {Pick(T)})
    BY <1>2, <2>1, SumPick
  <2> QED
    BY <1>2, <2>2, <2>3
<1>3. \A T \in SUBSET S : T \in P
  <2> HIDE DEF P
  <2> QED
    BY <1>1, <1>2, SetInduction
<1> QED
  BY <1>3

(* The sum depends on the values on the set only. *)
LEMMA SumSame ==
  ASSUME NEW f, NEW g, NEW S, IsFiniteSet(S), \A x \in S : f[x] = g[x]
  PROVE  SumFunctionOnSet(f, S) = SumFunctionOnSet(g, S)
<1> DEFINE P == {T \in SUBSET S : SumFunctionOnSet(f, T) = SumFunctionOnSet(g, T)}
<1>1. {} \in P
  BY SumEmpty
<1>2. ASSUME NEW T \in SUBSET S, T # {}, \A x \in T : T \ {x} \in P PROVE T \in P
  <2>1. IsFiniteSet(T)
    BY FS_Subset
  <2>2. Pick(T) \in T
    BY <1>2, PickIn
  <2>3. SumFunctionOnSet(f, T) = f[Pick(T)] + SumFunctionOnSet(f, T \ {Pick(T)})
    BY <1>2, <2>1, SumPick
  <2>4. SumFunctionOnSet(g, T) = g[Pick(T)] + SumFunctionOnSet(g, T \ {Pick(T)})
    BY <1>2, <2>1, SumPick
  <2> QED
    BY <1>2, <2>2, <2>3, <2>4
<1>3. \A T \in SUBSET S : T \in P
  <2> HIDE DEF P
  <2> QED
    BY <1>1, <1>2, SetInduction
<1> QED
  BY <1>3

(* What adds nothing can be left out. *)
LEMMA SumOnPart ==
  ASSUME NEW f, NEW S, IsFiniteSet(S), NEW R \in SUBSET S,
         \A x \in S : f[x] \in Int, \A x \in S \ R : f[x] = 0
  PROVE  SumFunctionOnSet(f, S) = SumFunctionOnSet(f, R)
<1> DEFINE D == S \ R
           Q == {T \in SUBSET D :
                    SumFunctionOnSet(f, R \cup T) = SumFunctionOnSet(f, R)}
<1>1. {} \in Q
  <2>1. R \cup {} = R
    OBVIOUS
  <2> QED
    BY <2>1
<1>2. ASSUME NEW T \in SUBSET D, T # {}, \A x \in T : T \ {x} \in Q PROVE T \in Q
  <2>1. PICK x \in T : TRUE
    BY <1>2
  <2> DEFINE U == R \cup T
  <2>2. IsFiniteSet(U) /\ x \in U /\ \A y \in U : f[y] \in Int
    BY <2>1, FS_Subset
  <2>3. U \ {x} = R \cup (T \ {x})
    BY <2>1
  <2>4. SumFunctionOnSet(f, U \ {x}) = SumFunctionOnSet(f, R)
    BY <1>2, <2>1, <2>3
  <2>5. IsFiniteSet(U \ {x}) /\ \A y \in U \ {x} : f[y] \in Int
    BY <2>2, FS_Subset
  <2> HIDE DEF U
  <2>6. SumFunctionOnSet(f, U) = f[x] + SumFunctionOnSet(f, U \ {x})
    BY <2>2, SumTake
  <2>7. SumFunctionOnSet(f, U \ {x}) \in Int
    BY <2>5, SumType
  <2>8. f[x] = 0
    BY <2>1
  <2>9. SumFunctionOnSet(f, U) = SumFunctionOnSet(f, R)
    BY <2>4, <2>6, <2>7, <2>8
  <2> QED
    BY <2>9 DEF U
<1>3. IsFiniteSet(D)
  BY FS_Subset
<1>4. \A T \in SUBSET D : T \in Q
  <2> HIDE DEF Q, D
  <2> QED
    BY <1>1, <1>2, <1>3, SetInduction
<1>5. R \cup D = S /\ D \in Q
  BY <1>4
<1> QED
  BY <1>5

(* One value changes. *)
LEMMA SumChange ==
  ASSUME NEW f, NEW g, NEW S, IsFiniteSet(S), NEW y \in S,
         \A x \in S : f[x] \in Int, g[y] \in Int, \A x \in S \ {y} : g[x] = f[x]
  PROVE  SumFunctionOnSet(g, S) = SumFunctionOnSet(f, S) + (g[y] - f[y])
<1> DEFINE R == S \ {y}
<1>1. IsFiniteSet(R) /\ \A x \in S : g[x] \in Int
  BY FS_Subset
<1>2. SumFunctionOnSet(f, S) = f[y] + SumFunctionOnSet(f, R)
  BY SumTake
<1>3. SumFunctionOnSet(g, S) = g[y] + SumFunctionOnSet(g, R)
  BY <1>1, SumTake
<1>4. SumFunctionOnSet(g, R) = SumFunctionOnSet(f, R)
  BY <1>1, SumSame
<1>5. SumFunctionOnSet(f, R) \in Int
  BY <1>1, SumType
<1> HIDE DEF R
<1> QED
  BY <1>2, <1>3, <1>4, <1>5

(* One element is new. *)
LEMMA SumGrow ==
  ASSUME NEW f, NEW g, NEW S, IsFiniteSet(S), NEW y, y \notin S,
         \A x \in S : f[x] \in Int, g[y] \in Int, \A x \in S : g[x] = f[x]
  PROVE  SumFunctionOnSet(g, S \cup {y}) = SumFunctionOnSet(f, S) + g[y]
<1> DEFINE R == S \cup {y}
<1>1. IsFiniteSet(R) /\ y \in R /\ \A x \in R : g[x] \in Int
  BY FS_AddElement
<1>2. R \ {y} = S
  OBVIOUS
<1> HIDE DEF R
<1>3. SumFunctionOnSet(g, R) = g[y] + SumFunctionOnSet(g, R \ {y})
  BY <1>1, SumTake
<1>4. SumFunctionOnSet(g, R \ {y}) = SumFunctionOnSet(f, S)
  <2>1. SumFunctionOnSet(g, S) = SumFunctionOnSet(f, S)
    BY SumSame
  <2> QED
    BY <1>2, <2>1
<1>5. SumFunctionOnSet(f, S) \in Int
  BY SumType
<1>6. SumFunctionOnSet(g, R) = SumFunctionOnSet(f, S) + g[y]
  BY <1>3, <1>4, <1>5
<1> QED
  BY <1>6 DEF R

(* A bound on each term bounds the sum: c times f and g together, by h.    *)
LEMMA SumsWithin ==
  ASSUME NEW f, NEW g, NEW h, NEW S, IsFiniteSet(S), NEW c \in Int,
         \A x \in S : f[x] \in Int /\ g[x] \in Int /\ h[x] \in Int,
         \A x \in S : -h[x] <= c * f[x] + g[x] /\ c * f[x] + g[x] <= h[x]
  PROVE  /\ -SumFunctionOnSet(h, S) <= c * SumFunctionOnSet(f, S) + SumFunctionOnSet(g, S)
         /\ c * SumFunctionOnSet(f, S) + SumFunctionOnSet(g, S) <= SumFunctionOnSet(h, S)
<1> DEFINE F(T) == SumFunctionOnSet(f, T)
           G(T) == SumFunctionOnSet(g, T)
           H(T) == SumFunctionOnSet(h, T)
           Ok(T) == -H(T) <= c * F(T) + G(T) /\ c * F(T) + G(T) <= H(T)
           P == {T \in SUBSET S : Ok(T)}
<1>1. {} \in P
  <2>1. F({}) = 0 /\ G({}) = 0 /\ H({}) = 0
    BY SumEmpty
  <2> QED
    BY <2>1
<1>2. ASSUME NEW T \in SUBSET S, T # {}, \A x \in T : T \ {x} \in P PROVE T \in P
  <2>1. PICK x \in T : TRUE
    BY <1>2
  <2> DEFINE R == T \ {x}
  <2>2. IsFiniteSet(T) /\ IsFiniteSet(R)
    BY FS_Subset
  <2>3. F(T) = f[x] + F(R) /\ G(T) = g[x] + G(R) /\ H(T) = h[x] + H(R)
    BY <2>2, SumTake
  <2>4. F(R) \in Int /\ G(R) \in Int /\ H(R) \in Int
    BY <2>2, SumType
  <2>5. Ok(R)
    BY <1>2
  <2>6. /\ f[x] \in Int /\ g[x] \in Int /\ h[x] \in Int
        /\ -h[x] <= c * f[x] + g[x] /\ c * f[x] + g[x] <= h[x]
    OBVIOUS
  <2>7. Ok(T)
    <3> DEFINE u == F(R)
               v == G(R)
               w == H(R)
    <3>1. u \in Int /\ v \in Int /\ w \in Int /\ -w <= c * u + v /\ c * u + v <= w
      BY <2>4, <2>5
    <3> HIDE DEF u, v, w
    <3>2. c * (f[x] + u) = c * f[x] + c * u /\ c * f[x] \in Int /\ c * u \in Int
      BY <2>6, <3>1
    <3>3. /\ -(h[x] + w) <= c * (f[x] + u) + (g[x] + v)
          /\ c * (f[x] + u) + (g[x] + v) <= h[x] + w
      <4> DEFINE m == c * f[x]
                 n == c * u
      <4>1. m \in Int /\ n \in Int /\ -h[x] <= m + g[x] /\ m + g[x] <= h[x]
            /\ -w <= n + v /\ n + v <= w
        BY <2>6, <3>1, <3>2
      <4> HIDE DEF m, n
      <4>2. -(h[x] + w) <= (m + n) + (g[x] + v) /\ (m + n) + (g[x] + v) <= h[x] + w
        BY <2>6, <3>1, <4>1
      <4> QED
        BY <3>2, <4>2 DEF m, n
    <3> QED
      BY <2>3, <3>3 DEF u, v, w
  <2> QED
    BY <2>7
<1>3. \A T \in SUBSET S : T \in P
  <2> HIDE DEF P
  <2> QED
    BY <1>1, <1>2, SetInduction
<1> QED
  BY <1>3

(* A finite set of numbers has a largest. *)
LEMMA LargestOf ==
  ASSUME NEW S, IsFiniteSet(S), S \subseteq Int, S # {}
  PROVE  \E x \in S : \A y \in S : x >= y
<1> DEFINE P == {T \in SUBSET S : T # {} => \E x \in T : \A y \in T : x >= y}
<1>1. {} \in P
  OBVIOUS
<1>2. ASSUME NEW T \in SUBSET S, T # {}, \A x \in T : T \ {x} \in P PROVE T \in P
  <2>1. PICK z \in T : TRUE
    BY <1>2
  <2>2. CASE T \ {z} = {}
    <3>1. \A y \in T : y = z
      BY <2>2
    <3>2. \A y \in T : z >= y
      BY <3>1
    <3> QED
      BY <2>1, <3>2
  <2>3. CASE T \ {z} # {}
    <3>1. PICK x \in T \ {z} : \A y \in T \ {z} : x >= y
      BY <1>2, <2>1, <2>3
    <3>2. CASE x >= z
      <4>1. \A y \in T : x >= y
        BY <3>1, <3>2
      <4> QED
        BY <3>1, <4>1
    <3>3. CASE ~(x >= z)
      <4>1. \A y \in T : z >= y
        BY <3>1, <3>3
      <4> QED
        BY <2>1, <4>1
    <3> QED
      BY <3>2, <3>3
  <2> QED
    BY <2>2, <2>3
<1>3. \A T \in SUBSET S : T \in P
  <2> HIDE DEF P
  <2> QED
    BY <1>1, <1>2, SetInduction
<1> QED
  BY <1>3

=============================================================================
