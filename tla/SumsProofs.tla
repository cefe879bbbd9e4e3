------------------------------ MODULE SumsProofs ------------------------------
(***************************************************************************)
(* What sums over finite sets do when a set or a function changes at one   *)
(* place.  The sums are recursive functions on the subsets of a set; that  *)
(* there is such a function, and what it gives, is shown by looking at a   *)
(* smallest subset for which it fails.                                     *)
(***************************************************************************)
EXTENDS Sums, FiniteSetTheorems, WellFoundedInduction, TLAPS

\* A set of subsets of a finite set that is not empty has a member none of whose
\* proper subsets is in it.
LEMMA SmallestSubset ==
  ASSUME NEW S, IsFiniteSet(S), NEW F, F \subseteq SUBSET S, F # {}
  PROVE  \E T \in F : \A U \in SUBSET T : U # T => U \notin F
<1>1. IsWellFoundedOn(StrictSubsetOrdering(S), SUBSET S)
  BY FS_StrictSubsetOrderingWellFounded, FS_FiniteSubsetsOfFinite
<1>2. PICK T \in F : \A U \in F : ~(<<U, T>> \in StrictSubsetOrdering(S))
  BY <1>1, WFMin
<1>3. ASSUME NEW U \in SUBSET T, U # T, U \in F
      PROVE  FALSE
  BY <1>2, <1>3 DEF StrictSubsetOrdering
<1> QED
  BY <1>2, <1>3

\* The element the recursion takes first.
Some(T) == CHOOSE x \in T : TRUE

\* g gives the sum of f over each subset of S in `dom`.
Sums(g, f, dom) ==
  g = [T \in dom |-> IF T = {} THEN 0 ELSE f[Some(T)] + g[T \ {Some(T)}]]

\* The subsets of S with at most n elements.
UpTo(S, n) == {T \in SUBSET S : Cardinality(T) <= n}

\* The recursion has a solution: one for the subsets of a size gives one for the next.
LEMMA SumsExist ==
  ASSUME NEW S, IsFiniteSet(S), NEW f
  PROVE  \E g : Sums(g, f, SUBSET S)
<1> DEFINE F == {T \in SUBSET S : ~ \E g : Sums(g, f, UpTo(S, Cardinality(T)))}
<1>1. ASSUME F # {} PROVE FALSE
  <2>1. PICK T \in F : \A U \in SUBSET T : U # T => U \notin F
    <3> HIDE DEF F
    <3>1. F \subseteq SUBSET S
      BY DEF F
    <3> QED
      BY <1>1, <3>1, SmallestSubset
  <2>2. T \in SUBSET S /\ IsFiniteSet(T) /\ Cardinality(T) \in Nat
    BY FS_Subset, FS_CardinalityType
  <2>3. CASE T = {}
    <3> DEFINE g == [U \in UpTo(S, 0) |-> 0]
    <3>1. \A U \in UpTo(S, 0) : U = {}
      BY FS_EmptySet, FS_Subset, FS_CardinalityType DEF UpTo
    <3>2. Sums(g, f, UpTo(S, 0))
      BY <3>1 DEF Sums
    <3> HIDE DEF g
    <3> QED
      BY <2>3, <3>2, FS_EmptySet
  <2>4. CASE T # {}
    <3>1. PICK x \in T : TRUE
      BY <2>4
    <3> DEFINE n == Cardinality(T \ {x})
    <3>2. n \in Nat /\ Cardinality(T) = n + 1
      <4>1. IsFiniteSet(T \ {x}) /\ n = Cardinality(T) - 1
        BY <2>2, <3>1, FS_RemoveElement
      <4>2. n \in Nat
        BY <4>1, FS_CardinalityType
      <4> HIDE DEF n
      <4> QED
        BY <2>2, <4>1, <4>2
    <3>3. \E g : Sums(g, f, UpTo(S, n))
      BY <2>1, <2>2, <3>1
    <3> HIDE DEF n
    <3>4. PICK g : Sums(g, f, UpTo(S, n))
      BY <3>3
    <3> DEFINE h == [U \in UpTo(S, n + 1) |->
                       IF U = {} THEN 0 ELSE f[Some(U)] + g[U \ {Some(U)}]]
    <3>5. \A U \in UpTo(S, n) : h[U] = g[U] /\ U \in UpTo(S, n + 1)
      <4> SUFFICES ASSUME NEW U \in UpTo(S, n) PROVE h[U] = g[U] /\ U \in UpTo(S, n + 1)
        OBVIOUS
      <4>1. U \in UpTo(S, n + 1)
        BY <3>2, FS_Subset, FS_CardinalityType DEF UpTo
      <4> QED
        BY <3>4, <4>1 DEF Sums
    <3>6. \A U \in UpTo(S, n + 1) : U # {} => U \ {Some(U)} \in UpTo(S, n)
      <4> SUFFICES ASSUME NEW U \in UpTo(S, n + 1), U # {}
                   PROVE  U \ {Some(U)} \in UpTo(S, n)
        OBVIOUS
      <4>1. IsFiniteSet(U) /\ Cardinality(U) \in Nat /\ Cardinality(U) <= n + 1
        BY FS_Subset, FS_CardinalityType DEF UpTo
      <4>2. Some(U) \in U
        BY DEF Some
      <4>3. Cardinality(U \ {Some(U)}) = Cardinality(U) - 1
        BY <4>1, <4>2, FS_RemoveElement
      <4> QED
        BY <3>2, <4>1, <4>3 DEF UpTo
    <3>7. h = [U \in UpTo(S, n + 1) |-> IF U = {} THEN 0 ELSE f[Some(U)] + h[U \ {Some(U)}]]
      BY <3>5, <3>6
    <3> HIDE DEF h
    <3>8. Sums(h, f, UpTo(S, Cardinality(T)))
      BY <3>2, <3>7 DEF Sums
    <3> QED
      BY <3>8
  <2> QED
    BY <2>3, <2>4
<1>2. \E g : Sums(g, f, UpTo(S, Cardinality(S)))
  BY <1>1
<1>3. UpTo(S, Cardinality(S)) = SUBSET S
  BY FS_Subset DEF UpTo
<1> QED
  BY <1>2, <1>3

\* SumOver is that solution, at the set itself.
LEMMA SumOverDef ==
  ASSUME NEW S, IsFiniteSet(S), NEW f
  PROVE  \E g : Sums(g, f, SUBSET S) /\ SumOver(f, S) = g[S]
<1> DEFINE g == CHOOSE h : Sums(h, f, SUBSET S)
<1>1. Sums(g, f, SUBSET S)
  BY SumsExist
<1>2. SumOver(f, S) = g[S]
  BY DEF SumOver, MapThenSumSet, MapThenFoldSet, Sums, Some
<1> QED
  BY <1>1, <1>2

\* g satisfies the recursion of the sum on the subsets of T.
Recurs(g, f, T) ==
  \A U \in SUBSET T : g[U] = IF U = {} THEN 0 ELSE f[Some(U)] + g[U \ {Some(U)}]

\* Two functions that satisfy the same recursion agree.
LEMMA SumsUnique ==
  ASSUME NEW T, IsFiniteSet(T), NEW f, NEW g, NEW h, Recurs(g, f, T), Recurs(h, f, T)
  PROVE  g[T] = h[T]
<1> DEFINE F == {U \in SUBSET T : g[U] # h[U]}
<1>1. ASSUME F # {} PROVE FALSE
  <2>1. PICK U \in F : \A V \in SUBSET U : V # U => V \notin F
    <3>1. F \subseteq SUBSET T
      OBVIOUS
    <3> HIDE DEF F
    <3> QED
      BY <1>1, <3>1, SmallestSubset
  <2>2. U # {}
    BY DEF Recurs
  <2>3. Some(U) \in U
    BY <2>2 DEF Some
  <2>4. g[U \ {Some(U)}] = h[U \ {Some(U)}]
    BY <2>1, <2>3
  <2> QED
    BY <2>3, <2>4 DEF Recurs
<1> QED
  BY <1>1

\* The sum over a set, by one of its elements.
LEMMA SumBySome ==
  ASSUME NEW S, IsFiniteSet(S), NEW f
  PROVE  SumOver(f, S) = IF S = {} THEN 0 ELSE f[Some(S)] + SumOver(f, S \ {Some(S)})
<1>1. PICK g : Sums(g, f, SUBSET S) /\ SumOver(f, S) = g[S]
  BY SumOverDef
<1>2. g[S] = IF S = {} THEN 0 ELSE f[Some(S)] + g[S \ {Some(S)}]
  BY <1>1 DEF Sums
<1>3. IsFiniteSet(S \ {Some(S)})
  BY FS_RemoveElement
<1>4. PICK h : Sums(h, f, SUBSET (S \ {Some(S)})) /\ SumOver(f, S \ {Some(S)}) = h[S \ {Some(S)}]
  BY <1>3, SumOverDef
<1>5. g[S \ {Some(S)}] = h[S \ {Some(S)}]
  <2> DEFINE T == S \ {Some(S)}
  <2>1. T \in SUBSET S
    OBVIOUS
  <2> HIDE DEF T
  <2>2. Recurs(g, f, T)
    BY <1>1, <2>1 DEF Sums, Recurs
  <2>3. Recurs(h, f, T)
    BY <1>4 DEF Sums, Recurs, T
  <2>4. IsFiniteSet(T)
    BY <1>3 DEF T
  <2>5. g[T] = h[T]
    BY <2>2, <2>3, <2>4, SumsUnique
  <2> QED
    BY <2>5 DEF T
<1> QED
  BY <1>1, <1>2, <1>4, <1>5

\* Only the values on the set count.
LEMMA SumSame ==
  ASSUME NEW S, IsFiniteSet(S), NEW e, NEW f, \A x \in S : e[x] = f[x]
  PROVE  SumOver(e, S) = SumOver(f, S)
<1>1. PICK g : Sums(g, e, SUBSET S) /\ SumOver(e, S) = g[S]
  BY SumOverDef
<1>2. PICK h : Sums(h, f, SUBSET S) /\ SumOver(f, S) = h[S]
  BY SumOverDef
<1>3. Recurs(g, f, S)
  <2> SUFFICES ASSUME NEW U \in SUBSET S
               PROVE  g[U] = IF U = {} THEN 0 ELSE f[Some(U)] + g[U \ {Some(U)}]
    BY DEF Recurs
  <2>1. U # {} => Some(U) \in S
    BY DEF Some
  <2>2. U # {} => e[Some(U)] = f[Some(U)]
    BY <2>1
  <2> QED
    BY <1>1, <2>2 DEF Sums
<1>4. Recurs(h, f, S)
  BY <1>2 DEF Sums, Recurs
<1>5. g[S] = h[S]
  BY <1>3, <1>4, SumsUnique
<1> QED
  BY <1>1, <1>2, <1>5

\* Nothing adds up to 0.
LEMMA SumEmpty ==
  ASSUME NEW f
  PROVE  SumOver(f, {}) = 0
  BY SumBySome, FS_EmptySet

\* A sum of integers is an integer.
LEMMA SumInt ==
  ASSUME NEW S, IsFiniteSet(S), NEW f, \A x \in S : f[x] \in Int
  PROVE  SumOver(f, S) \in Int
<1> DEFINE F == {T \in SUBSET S : SumOver(f, T) \notin Int}
<1>1. ASSUME F # {} PROVE FALSE
  <2>1. PICK T \in F : \A U \in SUBSET T : U # T => U \notin F
    <3>1. F \subseteq SUBSET S
      OBVIOUS
    <3> HIDE DEF F
    <3> QED
      BY <1>1, <3>1, SmallestSubset
  <2>2. SumOver(f, T) = IF T = {} THEN 0 ELSE f[Some(T)] + SumOver(f, T \ {Some(T)})
    BY SumBySome, FS_Subset
  <2>3. T # {} => Some(T) \in T
    BY DEF Some
  <2>4. T # {} => SumOver(f, T \ {Some(T)}) \in Int
    BY <2>1, <2>3
  <2> QED
    BY <2>2, <2>3, <2>4
<1> QED
  BY <1>1

\* The sum over a set, by any of its elements.
THEOREM SumRemove ==
  ASSUME NEW S, IsFiniteSet(S), NEW f, \A x \in S : f[x] \in Int, NEW y \in S
  PROVE  SumOver(f, S) = f[y] + SumOver(f, S \ {y})
<1> DEFINE F == {T \in SUBSET S : \E x \in T : SumOver(f, T) # f[x] + SumOver(f, T \ {x})}
<1>1. ASSUME F # {} PROVE FALSE
  <2>1. PICK T \in F : \A U \in SUBSET T : U # T => U \notin F
    <3>1. F \subseteq SUBSET S
      OBVIOUS
    <3> HIDE DEF F
    <3> QED
      BY <1>1, <3>1, SmallestSubset
  <2>2. PICK x \in T : SumOver(f, T) # f[x] + SumOver(f, T \ {x})
    OBVIOUS
  <2> DEFINE z == Some(T)
             R == T \ {x, z}
  <2>3. z \in T
    BY DEF Some
  <2>4. SumOver(f, T) = f[z] + SumOver(f, T \ {z})
    BY SumBySome, FS_Subset
  <2>5. x # z
    BY <2>2, <2>4
  <2>6. T \ {z} \in SUBSET T /\ T \ {z} # T /\ T \ {x} \in SUBSET T /\ T \ {x} # T
    BY <2>3
  <2>7. SumOver(f, T \ {z}) = f[x] + SumOver(f, R)
    <3>1. T \ {z} \notin F /\ x \in T \ {z} /\ (T \ {z}) \ {x} = R
      BY <2>1, <2>5, <2>6
    <3> QED
      BY <2>6, <3>1
  <2>8. SumOver(f, T \ {x}) = f[z] + SumOver(f, R)
    <3>1. T \ {x} \notin F /\ z \in T \ {x} /\ (T \ {x}) \ {z} = R
      BY <2>1, <2>3, <2>5, <2>6
    <3> QED
      BY <2>6, <3>1
  <2>9. f[x] \in Int /\ f[z] \in Int /\ SumOver(f, R) \in Int
    <3>1. R \in SUBSET S
      OBVIOUS
    <3>2. SumOver(f, R) \in Int
      BY <3>1, SumInt, FS_Subset
    <3> QED
      BY <2>3, <3>2
  <2> HIDE DEF z, R, F
  <2> QED
    BY <2>2, <2>4, <2>7, <2>8, <2>9
<1> QED
  BY <1>1

\* The sum over a set with one element more.
LEMMA SumAdd ==
  ASSUME NEW S, IsFiniteSet(S), NEW y, y \notin S, NEW f, \A x \in S \cup {y} : f[x] \in Int
  PROVE  SumOver(f, S \cup {y}) = f[y] + SumOver(f, S)
<1>1. IsFiniteSet(S \cup {y}) /\ (S \cup {y}) \ {y} = S
  BY FS_AddElement
<1> QED
  BY <1>1, SumRemove

\* A function that changes at one place.
THEOREM SumChange ==
  ASSUME NEW S, IsFiniteSet(S), NEW y \in S, NEW e, NEW f,
         \A x \in S : e[x] \in Int /\ f[x] \in Int, \A x \in S \ {y} : e[x] = f[x]
  PROVE  SumOver(f, S) = SumOver(e, S) + f[y] - e[y]
<1>1. IsFiniteSet(S \ {y})
  BY FS_RemoveElement
<1>2. SumOver(e, S \ {y}) = SumOver(f, S \ {y}) /\ SumOver(e, S \ {y}) \in Int
  BY <1>1, SumSame, SumInt
<1>3. SumOver(e, S) = e[y] + SumOver(e, S \ {y}) /\ SumOver(f, S) = f[y] + SumOver(f, S \ {y})
  BY SumRemove
<1> QED
  BY <1>2, <1>3

\* A sum of naturals is one.
LEMMA SumNat ==
  ASSUME NEW S, IsFiniteSet(S), NEW f, \A x \in S : f[x] \in Nat
  PROVE  SumOver(f, S) \in Nat
<1> DEFINE F == {T \in SUBSET S : SumOver(f, T) \notin Nat}
<1>1. ASSUME F # {} PROVE FALSE
  <2>1. PICK T \in F : \A U \in SUBSET T : U # T => U \notin F
    <3>1. F \subseteq SUBSET S
      OBVIOUS
    <3> HIDE DEF F
    <3> QED
      BY <1>1, <3>1, SmallestSubset
  <2>2. SumOver(f, T) = IF T = {} THEN 0 ELSE f[Some(T)] + SumOver(f, T \ {Some(T)})
    BY SumBySome, FS_Subset
  <2>3. T # {} => Some(T) \in T
    BY DEF Some
  <2>4. T # {} => SumOver(f, T \ {Some(T)}) \in Nat
    BY <2>1, <2>3
  <2> QED
    BY <2>2, <2>3, <2>4
<1> QED
  BY <1>1

\* A sum of zeros.
LEMMA SumZero ==
  ASSUME NEW S, IsFiniteSet(S), NEW f, \A x \in S : f[x] = 0
  PROVE  SumOver(f, S) = 0
<1> DEFINE F == {T \in SUBSET S : SumOver(f, T) # 0}
<1>1. ASSUME F # {} PROVE FALSE
  <2>1. PICK T \in F : \A U \in SUBSET T : U # T => U \notin F
    <3>1. F \subseteq SUBSET S
      OBVIOUS
    <3> HIDE DEF F
    <3> QED
      BY <1>1, <3>1, SmallestSubset
  <2>2. SumOver(f, T) = IF T = {} THEN 0 ELSE f[Some(T)] + SumOver(f, T \ {Some(T)})
    BY SumBySome, FS_Subset
  <2>3. T # {} => Some(T) \in T
    BY DEF Some
  <2>4. T # {} => SumOver(f, T \ {Some(T)}) = 0
    BY <2>1, <2>3
  <2> QED
    BY <2>2, <2>3, <2>4
<1> QED
  BY <1>1
===============================================================================
