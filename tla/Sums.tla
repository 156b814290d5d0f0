-------------------------------- MODULE Sums --------------------------------
(***************************************************************************)
(* Lemmas about SumFunction and SumFunctionOnSet (Functions.tla), by which *)
(* the models add up what Redis keeps per miner, per round or per share.   *)
(*                                                                         *)
(* The sums are recursive functions over finite sets.  The induction that  *)
(* the proofs need is stated here for a set of subsets, G, instead of a    *)
(* predicate: strict inclusion is well founded on the subsets of a finite  *)
(* set, so a set of them that is not empty has a minimal element, and a    *)
(* subset that is minimal among those outside G is in G.                   *)
(***************************************************************************)
EXTENDS Integers, FiniteSets, Functions, FiniteSetTheorems,
        WellFoundedInduction, TLAPS

\* The element that the library's fold takes first.
Least(s) == CHOOSE x \in s : TRUE

\* h[s] is the sum of f over s, for the subsets s of S.
IsIter(f, h, S) ==
    h = [s \in SUBSET S |->
            IF s = {} THEN 0 ELSE f[Least(s)] + h[s \ {Least(s)}]]

-----------------------------------------------------------------------------
(* Induction.                                                                *)

\* A nonempty set of subsets of a finite set has a minimal member.
LEMMA MinimalSubset ==
  ASSUME NEW D, IsFiniteSet(D), NEW B, B \subseteq SUBSET D, B # {}
  PROVE  \E T \in B : \A U \in SUBSET T : U # T => U \notin B
<1>1. IsWellFoundedOn(StrictSubsetOrdering(D), FiniteSubsetsOf(D))
  BY FS_StrictSubsetOrderingWellFounded
<1>2. B \subseteq FiniteSubsetsOf(D)
  BY FS_Subset DEF FiniteSubsetsOf
<1>3. PICK T \in B : \A U \in B : ~ (<<U, T>> \in StrictSubsetOrdering(D))
  BY <1>1, <1>2, WFMin, Zenon
<1>4. ASSUME NEW U \in SUBSET T, U # T, U \in B PROVE FALSE
  <2>1. <<U, T>> \in StrictSubsetOrdering(D)
    BY <1>4 DEF StrictSubsetOrdering
  <2>2. QED BY <2>1, <1>3, <1>4
<1>5. QED BY <1>3, <1>4, Zenon

\* Induction on inclusion: a set G that contains T whenever it contains the
\* proper subsets of T contains every subset of D.
LEMMA SubsetInduction ==
  ASSUME NEW D, IsFiniteSet(D), NEW G,
         \A T \in SUBSET D :
            (\A U \in SUBSET T : U # T => U \in G) => T \in G
  PROVE  \A T \in SUBSET D : T \in G
<1> DEFINE B == {T \in SUBSET D : T \notin G}
<1>1. SUFFICES ASSUME B # {} PROVE FALSE
  OBVIOUS
<1>2. PICK T \in B : \A U \in SUBSET T : U # T => U \notin B
  <2>1. B \subseteq SUBSET D OBVIOUS
  <2> HIDE DEF B
  <2>2. QED BY <1>1, <2>1, MinimalSubset, Zenon
<1>3. \A U \in SUBSET T : U # T => U \in G
  BY <1>2
<1>4. QED BY <1>2, <1>3

\* Induction that adds one element, of the proof's choice, at a time.
LEMMA ElementInduction ==
  ASSUME NEW D, IsFiniteSet(D), NEW G, {} \in G,
         \A T \in SUBSET D : \A x \in T : T \ {x} \in G => T \in G
  PROVE  \A T \in SUBSET D : T \in G
<1>1. ASSUME NEW T \in SUBSET D, \A U \in SUBSET T : U # T => U \in G
      PROVE  T \in G
  <2>1. CASE T = {} BY <2>1
  <2>2. CASE T # {}
    <3>1. PICK x \in T : TRUE BY <2>2
    <3>2. T \ {x} \in SUBSET T /\ T \ {x} # T BY <3>1
    <3>3. QED BY <3>1, <3>2, <1>1
  <2>3. QED BY <2>1, <2>2
<1>2. QED BY <1>1, SubsetInduction, Zenon

-----------------------------------------------------------------------------
(* The recursion behind a sum is well defined.                               *)

\* A nonempty set has an element to take.
LEMMA LeastIn == ASSUME NEW s, s # {} PROVE Least(s) \in s
  BY DEF Least

\* Two functions that satisfy the equation of the sum agree.
LEMMA IterUnique ==
  ASSUME NEW f, NEW h, NEW k, NEW D, NEW E, NEW S \in SUBSET (D \cap E),
         IsFiniteSet(S), IsIter(f, h, D), IsIter(f, k, E)
  PROVE  h[S] = k[S]
<1> DEFINE G == {s \in SUBSET S : h[s] = k[s]}
<1>1. ASSUME NEW T \in SUBSET S, \A U \in SUBSET T : U # T => U \in G
      PROVE  h[T] = k[T]
  <2>1. T \in SUBSET D /\ T \in SUBSET E OBVIOUS
  <2>2. CASE T = {}
    <3>1. h[T] = 0 /\ k[T] = 0 BY <2>1, <2>2, Zenon DEF IsIter
    <3>2. QED BY <3>1
  <2>3. CASE T # {}
    <3> DEFINE x == Least(T)
    <3>1. x \in T BY <2>3, LeastIn
    <3>2. h[T \ {x}] = k[T \ {x}] BY <1>1, <3>1
    <3>3. h[T] = f[x] + h[T \ {x}] BY <2>1, <2>3, Zenon DEF IsIter
    <3>4. k[T] = f[x] + k[T \ {x}] BY <2>1, <2>3, Zenon DEF IsIter
    <3> HIDE DEF x
    <3>5. QED BY <3>2, <3>3, <3>4
  <2>4. QED BY <2>2, <2>3
<1>2. \A T \in SUBSET S : (\A U \in SUBSET T : U # T => U \in G) => T \in G
  BY <1>1
<1> HIDE DEF G
<1>3. \A T \in SUBSET S : T \in G
  BY <1>2, SubsetInduction, Zenon
<1>4. QED BY <1>3 DEF G

\* The recursion is well defined: a function satisfies its equation.
LEMMA IterExists ==
  ASSUME NEW f, NEW D, IsFiniteSet(D)
  PROVE  \E h : IsIter(f, h, D)
<1> DEFINE G == {s \in SUBSET D : \E h : IsIter(f, h, s)}
           Val(s) == (CHOOSE h : IsIter(f, h, s))[s]
<1>1. ASSUME NEW T \in SUBSET D, \A U \in SUBSET T : U # T => U \in G
      PROVE  T \in G
  <2> DEFINE h == [s \in SUBSET T |->
                     IF s = {} THEN 0
                     ELSE f[Least(s)] + Val(s \ {Least(s)})]
  <2>1. ASSUME NEW s \in SUBSET T, s # {}
        PROVE  h[s \ {Least(s)}] = Val(s \ {Least(s)})
    <3> DEFINE w == s \ {Least(s)}
               k == CHOOSE i : IsIter(f, i, w)
               v == w \ {Least(w)}
               j == CHOOSE i : IsIter(f, i, v)
    <3> SUFFICES h[w] = k[w]
      BY Zenon
    <3>1. w \in SUBSET T /\ w # T
      BY <2>1, LeastIn
    <3>2. IsIter(f, k, w)
      <4>1. \E i : IsIter(f, i, w) BY <1>1, <3>1
      <4> HIDE DEF w
      <4>2. QED BY <4>1, Zenon
    <3>3. CASE w = {}
      <4>1. h[w] = 0 BY <3>1, <3>3
      <4>2. k[w] = 0
        <5> HIDE DEF k, w
        <5> QED BY <3>2, <3>3, Zenon DEF IsIter
      <4>3. QED BY <4>1, <4>2
    <3>4. CASE w # {}
      <4>1. v \in SUBSET T /\ v # T /\ v \in SUBSET w
        BY <3>1
      <4>2. IsIter(f, j, v)
        <5>1. \E i : IsIter(f, i, v) BY <1>1, <4>1
        <5> HIDE DEF v
        <5>2. QED BY <5>1, Zenon
      <4>3. IsFiniteSet(v)
        BY <4>1, FS_Subset
      <4>4. k[v] = j[v]
        <5> HIDE DEF v, k, j, w, h
        <5>1. v \in SUBSET (w \cap v) BY <4>1
        <5>2. QED BY <5>1, <3>2, <4>2, <4>3, IterUnique
      <4>5. k[w] = f[Least(w)] + k[v]
        <5> HIDE DEF k
        <5>1. w \in SUBSET w OBVIOUS
        <5>2. QED BY <5>1, <3>2, <3>4, Zenon DEF IsIter
      <4>6. h[w] = f[Least(w)] + j[v]
        BY <3>1, <3>4, Zenon
      <4>7. QED
        <5> HIDE DEF v, k, j, h
        <5> QED BY <4>4, <4>5, <4>6
    <3>5. QED BY <3>3, <3>4, Zenon
  <2>2. IsIter(f, h, T)
    <3>1. ASSUME NEW s \in SUBSET T
          PROVE  h[s] = IF s = {} THEN 0 ELSE f[Least(s)] + h[s \ {Least(s)}]
      <4>1. CASE s = {} BY <4>1
      <4>2. CASE s # {}
        <5>1. h[s] = f[Least(s)] + Val(s \ {Least(s)}) BY <4>2, Zenon
        <5>2. h[s \ {Least(s)}] = Val(s \ {Least(s)}) BY <2>1, <4>2
        <5> HIDE DEF h, Val
        <5>3. QED BY <5>1, <5>2, <4>2
      <4>3. QED BY <4>1, <4>2
    <3>2. h = [s \in SUBSET T |-> h[s]] OBVIOUS
    <3> HIDE DEF h
    <3>3. h = [s \in SUBSET T |->
                IF s = {} THEN 0 ELSE f[Least(s)] + h[s \ {Least(s)}]]
      BY <3>1, <3>2, Zenon
    <3>4. QED BY <3>3 DEF IsIter
  <2> HIDE DEF h
  <2>3. QED BY <2>2
<1>2. \A T \in SUBSET D : (\A U \in SUBSET T : U # T => U \in G) => T \in G
  <2> HIDE DEF G
  <2> QED BY <1>1
<1>3. \A T \in SUBSET D : T \in G
  <2> HIDE DEF G
  <2> QED BY <1>2, SubsetInduction, Zenon
<1>4. QED BY <1>3

\* The library's definition of a sum, written with IsIter.
LEMMA SumUnfold ==
  ASSUME NEW f, NEW S
  PROVE  SumFunctionOnSet(f, S) = (CHOOSE h : IsIter(f, h, S))[S]
  BY Zenon DEF SumFunctionOnSet, FoldFunctionOnSet, MapThenFoldSet, IsIter, Least

-----------------------------------------------------------------------------
(* Sums.                                                                     *)

\* The sum over no element is 0.
LEMMA SumEmpty == ASSUME NEW f PROVE SumFunctionOnSet(f, {}) = 0
<1> DEFINE h == CHOOSE i : IsIter(f, i, {})
<1>1. IsIter(f, h, {})
  <2>1. \E i : IsIter(f, i, {}) BY IterExists, FS_EmptySet
  <2>2. QED BY <2>1, Zenon
<1>2. SumFunctionOnSet(f, {}) = h[{}] BY SumUnfold
<1> HIDE DEF h
<1>3. h[{}] = 0 BY <1>1, Zenon DEF IsIter
<1>4. QED BY <1>2, <1>3

\* The equation of the sum, for the element that the fold takes.
LEMMA SumLeast ==
  ASSUME NEW f, NEW S, IsFiniteSet(S), S # {}
  PROVE  SumFunctionOnSet(f, S) =
            f[Least(S)] + SumFunctionOnSet(f, S \ {Least(S)})
<1> DEFINE w == S \ {Least(S)}
           h == CHOOSE i : IsIter(f, i, S)
           k == CHOOSE i : IsIter(f, i, w)
<1>1. IsIter(f, h, S)
  <2>1. \E i : IsIter(f, i, S) BY IterExists
  <2>2. QED BY <2>1, Zenon
<1>2. IsFiniteSet(w) BY FS_Subset
<1>3. IsIter(f, k, w)
  <2> HIDE DEF w
  <2>1. \E i : IsIter(f, i, w) BY IterExists, <1>2
  <2>2. QED BY <2>1, Zenon
<1>4. SumFunctionOnSet(f, S) = h[S] /\ SumFunctionOnSet(f, w) = k[w]
  BY SumUnfold
<1>5. h[S] = f[Least(S)] + h[w]
  <2> HIDE DEF h
  <2>1. S \in SUBSET S OBVIOUS
  <2>2. QED BY <2>1, <1>1, Zenon DEF IsIter
<1> HIDE DEF h, k
<1>6. h[w] = k[w]
  <2>1. w \in SUBSET (S \cap w) OBVIOUS
  <2> HIDE DEF w
  <2>2. QED BY <2>1, <1>1, <1>2, <1>3, IterUnique
<1>7. QED BY <1>4, <1>5, <1>6

\* A sum of integers is an integer.
LEMMA SumInt ==
  ASSUME NEW S, IsFiniteSet(S), NEW f, \A x \in S : f[x] \in Int
  PROVE  SumFunctionOnSet(f, S) \in Int
<1> DEFINE G == {T \in SUBSET S : SumFunctionOnSet(f, T) \in Int}
<1>1. ASSUME NEW T \in SUBSET S, \A U \in SUBSET T : U # T => U \in G
      PROVE  T \in G
  <2>1. CASE T = {} BY <2>1, SumEmpty
  <2>2. CASE T # {}
    <3> DEFINE x == Least(T)
    <3>1. x \in T BY <2>2, LeastIn
    <3>2. T \ {x} \in SUBSET T /\ T \ {x} # T BY <3>1
    <3>3. SumFunctionOnSet(f, T \ {x}) \in Int BY <3>2, <1>1
    <3>4. IsFiniteSet(T) BY FS_Subset
    <3>5. SumFunctionOnSet(f, T) = f[x] + SumFunctionOnSet(f, T \ {x})
      BY <2>2, <3>4, SumLeast
    <3> HIDE DEF x
    <3>6. QED BY <3>1, <3>3, <3>5
  <2>3. QED BY <2>1, <2>2
<1> HIDE DEF G
<1>2. S \in G BY <1>1, SubsetInduction
<1>3. QED BY <1>2 DEF G

\* The order does not matter: any element can be taken first.
LEMMA SumRemove ==
  ASSUME NEW S, IsFiniteSet(S), NEW f, \A x \in S : f[x] \in Int,
         NEW y \in S
  PROVE  SumFunctionOnSet(f, S) = f[y] + SumFunctionOnSet(f, S \ {y})
<1> DEFINE G == {T \in SUBSET S : \A z \in T :
                   SumFunctionOnSet(f, T) =
                      f[z] + SumFunctionOnSet(f, T \ {z})}
<1>1. ASSUME NEW T \in SUBSET S, \A U \in SUBSET T : U # T => U \in G,
             NEW z \in T
      PROVE  SumFunctionOnSet(f, T) = f[z] + SumFunctionOnSet(f, T \ {z})
  <2> DEFINE x == Least(T)
  <2>1. x \in T BY LeastIn
  <2>2. IsFiniteSet(T) BY FS_Subset
  <2>3. SumFunctionOnSet(f, T) = f[x] + SumFunctionOnSet(f, T \ {x})
    BY <2>2, SumLeast
  <2> HIDE DEF x
  <2>4. CASE x = z BY <2>3, <2>4
  <2>5. CASE x # z
    <3> DEFINE v == (T \ {x}) \ {z}
    <3>1. v = (T \ {z}) \ {x} OBVIOUS
    <3>2. SumFunctionOnSet(f, T \ {x}) = f[z] + SumFunctionOnSet(f, v)
      BY <1>1, <2>1, <2>5
    <3>3. SumFunctionOnSet(f, T \ {z}) = f[x] + SumFunctionOnSet(f, v)
      BY <1>1, <2>1, <2>5, <3>1
    <3>4. SumFunctionOnSet(f, v) \in Int
      BY <2>2, FS_Subset, SumInt
    <3>5. f[x] \in Int /\ f[z] \in Int BY <2>1
    <3> HIDE DEF v
    <3>6. QED BY <2>3, <3>2, <3>3, <3>4, <3>5
  <2>6. QED BY <2>4, <2>5
<1>2. \A T \in SUBSET S : (\A U \in SUBSET T : U # T => U \in G) => T \in G
  BY <1>1
<1> HIDE DEF G
<1>3. S \in G BY <1>2, SubsetInduction
<1>4. QED BY <1>3 DEF G

\* A sum of naturals is a natural.
LEMMA SumNat ==
  ASSUME NEW S, IsFiniteSet(S), NEW f, \A x \in S : f[x] \in Nat
  PROVE  SumFunctionOnSet(f, S) \in Nat
<1> DEFINE G == {T \in SUBSET S : SumFunctionOnSet(f, T) \in Nat}
<1>1. {} \in G BY SumEmpty
<1>2. ASSUME NEW T \in SUBSET S, NEW x \in T, T \ {x} \in G PROVE T \in G
  <2>1. IsFiniteSet(T) BY FS_Subset
  <2>2. SumFunctionOnSet(f, T) = f[x] + SumFunctionOnSet(f, T \ {x})
    BY <2>1, SumRemove
  <2>3. QED BY <2>2, <1>2
<1> HIDE DEF G
<1>3. \A T \in SUBSET S : \A x \in T : T \ {x} \in G => T \in G
  BY <1>2
<1>4. S \in G BY <1>1, <1>3, ElementInduction
<1>5. QED BY <1>4 DEF G

\* A sum depends on the values over the set only.
LEMMA SumSame ==
  ASSUME NEW S, IsFiniteSet(S), NEW f, NEW g,
         \A x \in S : f[x] \in Int /\ g[x] = f[x]
  PROVE  SumFunctionOnSet(g, S) = SumFunctionOnSet(f, S)
<1> DEFINE G == {T \in SUBSET S :
                   SumFunctionOnSet(g, T) = SumFunctionOnSet(f, T)}
<1>1. {} \in G BY SumEmpty
<1>2. ASSUME NEW T \in SUBSET S, NEW x \in T, T \ {x} \in G PROVE T \in G
  <2>1. IsFiniteSet(T) BY FS_Subset
  <2>2. SumFunctionOnSet(f, T) = f[x] + SumFunctionOnSet(f, T \ {x})
    BY <2>1, SumRemove
  <2>3. SumFunctionOnSet(g, T) = g[x] + SumFunctionOnSet(g, T \ {x})
    BY <2>1, SumRemove
  <2>4. QED BY <2>2, <2>3, <1>2
<1> HIDE DEF G
<1>3. \A T \in SUBSET S : \A x \in T : T \ {x} \in G => T \in G
  BY <1>2
<1>4. S \in G BY <1>1, <1>3, ElementInduction
<1>5. QED BY <1>4 DEF G

\* One more element.
LEMMA SumInsert ==
  ASSUME NEW S, IsFiniteSet(S), NEW y, y \notin S, NEW f, NEW g,
         \A x \in S : f[x] \in Int /\ g[x] = f[x], g[y] \in Int
  PROVE  SumFunctionOnSet(g, S \cup {y}) = g[y] + SumFunctionOnSet(f, S)
<1>1. IsFiniteSet(S \cup {y})
  BY FS_AddElement
<1>2. (S \cup {y}) \ {y} = S
  OBVIOUS
<1>3. SumFunctionOnSet(g, S \cup {y}) = g[y] + SumFunctionOnSet(g, S)
  BY <1>1, <1>2, SumRemove
<1>4. QED BY <1>3, SumSame

\* The sum of a pointwise sum.
LEMMA SumAdd ==
  ASSUME NEW S, IsFiniteSet(S), NEW f, NEW g, NEW h,
         \A x \in S : f[x] \in Int /\ g[x] \in Int /\ h[x] = f[x] + g[x]
  PROVE  SumFunctionOnSet(h, S) =
            SumFunctionOnSet(f, S) + SumFunctionOnSet(g, S)
<1> DEFINE G == {T \in SUBSET S :
                   SumFunctionOnSet(h, T) =
                      SumFunctionOnSet(f, T) + SumFunctionOnSet(g, T)}
<1>1. {} \in G BY SumEmpty
<1>2. ASSUME NEW T \in SUBSET S, NEW x \in T, T \ {x} \in G PROVE T \in G
  <2>1. IsFiniteSet(T) /\ IsFiniteSet(T \ {x}) BY FS_Subset
  <2>2. SumFunctionOnSet(f, T) = f[x] + SumFunctionOnSet(f, T \ {x})
    BY <2>1, SumRemove
  <2>3. SumFunctionOnSet(g, T) = g[x] + SumFunctionOnSet(g, T \ {x})
    BY <2>1, SumRemove
  <2>4. SumFunctionOnSet(h, T) = h[x] + SumFunctionOnSet(h, T \ {x})
    BY <2>1, SumRemove
  <2>5. SumFunctionOnSet(f, T \ {x}) \in Int
    BY <2>1, SumInt
  <2>6. SumFunctionOnSet(g, T \ {x}) \in Int
    BY <2>1, SumInt
  <2>7. f[x] \in Int /\ g[x] \in Int /\ h[x] = f[x] + g[x]
    OBVIOUS
  <2>8. SumFunctionOnSet(h, T \ {x}) =
          SumFunctionOnSet(f, T \ {x}) + SumFunctionOnSet(g, T \ {x})
    BY <1>2
  <2>9. SumFunctionOnSet(h, T) =
          SumFunctionOnSet(f, T) + SumFunctionOnSet(g, T)
    BY <2>2, <2>3, <2>4, <2>5, <2>6, <2>7, <2>8
  <2>10. QED BY <2>9
<1> HIDE DEF G
<1>3. \A T \in SUBSET S : \A x \in T : T \ {x} \in G => T \in G
  BY <1>2
<1>4. S \in G BY <1>1, <1>3, ElementInduction
<1>5. QED BY <1>4 DEF G

\* A sum of zeros is 0.
LEMMA SumZero ==
  ASSUME NEW S, IsFiniteSet(S), NEW f, \A x \in S : f[x] = 0
  PROVE  SumFunctionOnSet(f, S) = 0
<1>1. \A x \in S : f[x] \in Int /\ f[x] = f[x] + f[x]
  OBVIOUS
<1>2. SumFunctionOnSet(f, S) =
        SumFunctionOnSet(f, S) + SumFunctionOnSet(f, S)
  BY <1>1, SumAdd
<1>3. SumFunctionOnSet(f, S) \in Int
  BY <1>1, SumInt
<1>4. \A n \in Int : n = n + n => n = 0
  OBVIOUS
<1>5. QED BY <1>2, <1>3, <1>4, Zenon

\* A sum of smaller values is no larger.
LEMMA SumMonotone ==
  ASSUME NEW S, IsFiniteSet(S), NEW f, NEW g,
         \A x \in S : f[x] \in Int /\ g[x] \in Int /\ f[x] <= g[x]
  PROVE  SumFunctionOnSet(f, S) <= SumFunctionOnSet(g, S)
<1> DEFINE d == [x \in S |-> g[x] - f[x]]
<1>1. SumFunctionOnSet(d, S) \in Nat BY SumNat
<1>2. \A x \in S : f[x] \in Int /\ d[x] \in Int /\ g[x] = f[x] + d[x]
  OBVIOUS
<1>3. SumFunctionOnSet(f, S) \in Int BY SumInt
<1> HIDE DEF d
<1>4. SumFunctionOnSet(g, S) =
        SumFunctionOnSet(f, S) + SumFunctionOnSet(d, S)
  BY <1>2, SumAdd
<1>5. QED BY <1>1, <1>3, <1>4

\* The sum after one component changed: HINCRBY on one miner's field moves the
\* total by as much.
LEMMA SumExcept ==
  ASSUME NEW S, IsFiniteSet(S), NEW f \in [S -> Int], NEW y \in S,
         NEW v \in Int
  PROVE  SumFunction([f EXCEPT ![y] = v]) = SumFunction(f) + v - f[y]
<1> DEFINE g == [f EXCEPT ![y] = v]
<1>1. SumFunctionOnSet(f, S) = f[y] + SumFunctionOnSet(f, S \ {y})
  BY SumRemove
<1>2. SumFunctionOnSet(g, S) = v + SumFunctionOnSet(g, S \ {y})
  <2>1. \A x \in S : g[x] \in Int OBVIOUS
  <2>2. g[y] = v OBVIOUS
  <2> HIDE DEF g
  <2>3. QED BY <2>1, <2>2, SumRemove
<1>3. SumFunctionOnSet(g, S \ {y}) = SumFunctionOnSet(f, S \ {y})
  <2>1. IsFiniteSet(S \ {y}) BY FS_Subset
  <2>2. \A x \in S \ {y} : f[x] \in Int /\ g[x] = f[x] OBVIOUS
  <2> HIDE DEF g
  <2>3. QED BY <2>1, <2>2, SumSame
<1>4. SumFunctionOnSet(f, S \ {y}) \in Int
  BY SumInt, FS_Subset
<1>5. SumFunction(f) = SumFunctionOnSet(f, S)
  BY DEF SumFunction
<1>6. SumFunction(g) = SumFunctionOnSet(g, S)
  BY DEF SumFunction
<1>7. f[y] \in Int OBVIOUS
<1> HIDE DEF g
<1>8. SumFunction(g) = SumFunction(f) + v - f[y]
  BY <1>1, <1>2, <1>3, <1>4, <1>5, <1>6, <1>7
<1>9. QED BY <1>8 DEF g

\* The same for an increment, as HINCRBY makes it.
LEMMA SumIncrement ==
  ASSUME NEW S, IsFiniteSet(S), NEW f \in [S -> Int], NEW y \in S,
         NEW a \in Int, NEW g, g = [f EXCEPT ![y] = f[y] + a]
  PROVE  SumFunction(f) \in Int /\ SumFunction(g) = SumFunction(f) + a
<1>1. SumFunction(f) \in Int
  BY SumInt DEF SumFunction
<1>2. f[y] \in Int /\ f[y] + a \in Int
  OBVIOUS
<1>3. SumFunction(g) = SumFunction(f) + (f[y] + a) - f[y]
  BY <1>2, SumExcept
<1> QED
  BY <1>1, <1>2, <1>3

\* A sum of multiples.
LEMMA SumScale ==
  ASSUME NEW S, IsFiniteSet(S), NEW a \in Int, NEW f, NEW g,
         \A x \in S : f[x] \in Int /\ g[x] = a * f[x]
  PROVE  SumFunctionOnSet(g, S) = a * SumFunctionOnSet(f, S)
<1> DEFINE G == {T \in SUBSET S :
                   SumFunctionOnSet(g, T) = a * SumFunctionOnSet(f, T)}
<1>1. {} \in G BY SumEmpty
<1>2. ASSUME NEW T \in SUBSET S, NEW x \in T, T \ {x} \in G PROVE T \in G
  <2>1. IsFiniteSet(T) /\ IsFiniteSet(T \ {x}) BY FS_Subset
  <2>2. SumFunctionOnSet(f, T) = f[x] + SumFunctionOnSet(f, T \ {x})
    BY <2>1, SumRemove
  <2>3. SumFunctionOnSet(g, T) = g[x] + SumFunctionOnSet(g, T \ {x})
    <3>1. \A y \in T : g[y] \in Int
      <4>1. \A n \in Int : a * n \in Int OBVIOUS
      <4>2. QED BY <4>1
    <3>2. QED BY <2>1, <3>1, SumRemove
  <2>4. f[x] \in Int /\ SumFunctionOnSet(f, T \ {x}) \in Int
    BY <2>1, SumInt
  <2>5. SumFunctionOnSet(g, T \ {x}) = a * SumFunctionOnSet(f, T \ {x})
    BY <1>2
  <2>6. \A m, n \in Int : a * (m + n) = a * m + a * n
    OBVIOUS
  <2>7. a * (f[x] + SumFunctionOnSet(f, T \ {x})) =
            a * f[x] + a * SumFunctionOnSet(f, T \ {x})
    BY <2>4, <2>6, Zenon
  <2>8. g[x] = a * f[x]
    OBVIOUS
  <2>9. SumFunctionOnSet(g, T) = a * SumFunctionOnSet(f, T)
    BY <2>2, <2>3, <2>5, <2>7, <2>8, Zenon
  <2>10. QED BY <2>9
<1> HIDE DEF G
<1>3. \A T \in SUBSET S : \A x \in T : T \ {x} \in G => T \in G
  BY <1>2
<1>4. S \in G BY <1>1, <1>3, ElementInduction
<1>5. QED BY <1>4 DEF G

\* A linear bound on every value is one on the sums.
LEMMA SumLinear ==
  ASSUME NEW S, IsFiniteSet(S), NEW a \in Int, NEW b \in Int, NEW c \in Int,
         NEW f, NEW g, NEW h,
         \A x \in S : /\ f[x] \in Int /\ g[x] \in Int /\ h[x] \in Int
                      /\ a * f[x] <= b * g[x] + c * h[x]
  PROVE  a * SumFunctionOnSet(f, S) <=
            b * SumFunctionOnSet(g, S) + c * SumFunctionOnSet(h, S)
<1> DEFINE af == [x \in S |-> a * f[x]]
           bg == [x \in S |-> b * g[x]]
           ch == [x \in S |-> c * h[x]]
           sum == [x \in S |-> bg[x] + ch[x]]
<1>1. /\ \A x \in S : f[x] \in Int /\ af[x] = a * f[x]
      /\ \A x \in S : g[x] \in Int /\ bg[x] = b * g[x]
      /\ \A x \in S : h[x] \in Int /\ ch[x] = c * h[x]
  OBVIOUS
<1>2. \A m, n \in Int : m * n \in Int
  OBVIOUS
<1>3. \A x \in S : /\ a * f[x] \in Int /\ b * g[x] \in Int /\ c * h[x] \in Int
                   /\ a * f[x] <= b * g[x] + c * h[x]
  BY <1>2
<1>4. \A x \in S : /\ af[x] = a * f[x] /\ bg[x] = b * g[x]
                   /\ ch[x] = c * h[x] /\ sum[x] = bg[x] + ch[x]
  OBVIOUS
<1> HIDE DEF af, bg, ch, sum
<1>5. \A x \in S : /\ af[x] \in Int /\ bg[x] \in Int /\ ch[x] \in Int
                   /\ sum[x] \in Int
                   /\ sum[x] = bg[x] + ch[x] /\ af[x] <= sum[x]
  BY <1>3, <1>4
<1>6. SumFunctionOnSet(af, S) = a * SumFunctionOnSet(f, S)
  BY <1>1, SumScale
<1>7. SumFunctionOnSet(bg, S) = b * SumFunctionOnSet(g, S)
  BY <1>1, SumScale
<1>8. SumFunctionOnSet(ch, S) = c * SumFunctionOnSet(h, S)
  BY <1>1, SumScale
<1>9. SumFunctionOnSet(sum, S) =
        SumFunctionOnSet(bg, S) + SumFunctionOnSet(ch, S)
  BY <1>5, SumAdd
<1>10. SumFunctionOnSet(af, S) <= SumFunctionOnSet(sum, S)
  BY <1>5, SumMonotone
<1>11. QED BY <1>6, <1>7, <1>8, <1>9, <1>10

\* What is 0 outside a subset adds up to the same over both.
LEMMA SumOutside ==
  ASSUME NEW D, IsFiniteSet(D), NEW S \in SUBSET D, NEW f,
         \A x \in D : f[x] \in Int, \A x \in D \ S : f[x] = 0
  PROVE  SumFunctionOnSet(f, D) = SumFunctionOnSet(f, S)
<1> DEFINE G == {T \in SUBSET (D \ S) :
                    SumFunctionOnSet(f, S \cup T) = SumFunctionOnSet(f, S)}
<1>1. {} \in G
  <2>1. S \cup {} = S OBVIOUS
  <2>2. QED BY <2>1
<1>2. ASSUME NEW T \in SUBSET (D \ S), NEW x \in T, T \ {x} \in G
      PROVE  T \in G
  <2>1. IsFiniteSet(S \cup T) BY FS_Subset
  <2>2. \A y \in S \cup T : f[y] \in Int OBVIOUS
  <2>3. SumFunctionOnSet(f, S \cup T) =
            f[x] + SumFunctionOnSet(f, (S \cup T) \ {x})
    BY <2>1, <2>2, SumRemove
  <2>4. /\ (S \cup T) \ {x} = S \cup (T \ {x})
        /\ T \in SUBSET (D \ S) /\ f[x] = 0
    OBVIOUS
  <2>5. SumFunctionOnSet(f, S \cup (T \ {x})) = SumFunctionOnSet(f, S)
    BY <1>2
  <2>6. SumFunctionOnSet(f, S) \in Int
    BY FS_Subset, SumInt
  <2>7. SumFunctionOnSet(f, S \cup T) = 0 + SumFunctionOnSet(f, S)
    BY <2>3, <2>4, <2>5, Zenon
  <2>8. SumFunctionOnSet(f, S \cup T) = SumFunctionOnSet(f, S)
    BY <2>6, <2>7
  <2>9. QED BY <2>8, Zenon
<1> HIDE DEF G
<1>3. \A T \in SUBSET (D \ S) : \A x \in T : T \ {x} \in G => T \in G
  BY <1>2
<1>4. IsFiniteSet(D \ S)
  BY FS_Subset
<1> DEFINE R == D \ S
<1>5. R \in SUBSET R OBVIOUS
<1>6. /\ \A T \in SUBSET R : \A x \in T : T \ {x} \in G => T \in G
      /\ IsFiniteSet(R)
  BY <1>3, <1>4, Zenon
<1>7. S \cup R = D OBVIOUS
<1> HIDE DEF R
<1>8. R \in G
  <2>1. \A T \in SUBSET R : T \in G
    BY <1>1, <1>6, ElementInduction, Zenon
  <2>2. QED BY <1>5, <2>1
<1>9. SumFunctionOnSet(f, S \cup R) = SumFunctionOnSet(f, S)
  BY <1>8, Zenon DEF G
<1>10. QED BY <1>7, <1>9, Zenon

\* What is 0 but at one element.
LEMMA SumPoint ==
  ASSUME NEW D, IsFiniteSet(D), NEW y \in D, NEW v \in Int, NEW f,
         \A x \in D : f[x] = IF x = y THEN v ELSE 0
  PROVE  SumFunctionOnSet(f, D) = v
<1>1. \A x \in D : f[x] \in Int OBVIOUS
<1>2. SumFunctionOnSet(f, D) = f[y] + SumFunctionOnSet(f, D \ {y})
  BY <1>1, SumRemove
<1>3. SumFunctionOnSet(f, D \ {y}) = 0
  <2>1. IsFiniteSet(D \ {y}) /\ \A x \in D \ {y} : f[x] = 0
    BY FS_Subset
  <2>2. QED BY <2>1, SumZero
<1>4. f[y] = v OBVIOUS
<1>5. QED BY <1>2, <1>3, <1>4

\* Counting is adding up ones.
LEMMA SumCount ==
  ASSUME NEW D, IsFiniteSet(D), NEW S \in SUBSET D, NEW f,
         \A x \in D : f[x] = IF x \in S THEN 1 ELSE 0
  PROVE  SumFunctionOnSet(f, D) = Cardinality(S)
<1> DEFINE G == {T \in SUBSET S : SumFunctionOnSet(f, T) = Cardinality(T)}
<1>1. {} \in G BY SumEmpty, FS_EmptySet
<1>2. ASSUME NEW T \in SUBSET S, NEW x \in T, T \ {x} \in G PROVE T \in G
  <2>1. IsFiniteSet(T) BY FS_Subset
  <2>2. \A y \in T : f[y] \in Int OBVIOUS
  <2>3. SumFunctionOnSet(f, T) = f[x] + SumFunctionOnSet(f, T \ {x})
    BY <2>1, <2>2, SumRemove
  <2>4. /\ Cardinality(T \ {x}) = Cardinality(T) - 1
        /\ Cardinality(T) \in Nat
    BY <2>1, FS_RemoveElement, FS_CardinalityType
  <2>5. SumFunctionOnSet(f, T \ {x}) = Cardinality(T \ {x}) /\ f[x] = 1
    BY <1>2
  <2>6. SumFunctionOnSet(f, T) = Cardinality(T)
    BY <2>3, <2>4, <2>5
  <2>7. QED BY <2>6
<1> HIDE DEF G
<1>3. \A T \in SUBSET S : \A x \in T : T \ {x} \in G => T \in G
  BY <1>2
<1>4. IsFiniteSet(S) BY FS_Subset
<1>5. S \in G BY <1>1, <1>3, <1>4, ElementInduction
<1>6. SumFunctionOnSet(f, D) = SumFunctionOnSet(f, S)
  <2>1. (\A x \in D : f[x] \in Int) /\ \A x \in D \ S : f[x] = 0
    OBVIOUS
  <2>2. QED BY <2>1, SumOutside
<1>7. QED BY <1>5, <1>6 DEF G

-----------------------------------------------------------------------------
(* Induction over the numbers up to n, for a set of them.                    *)

LEMMA UpToInduction ==
  ASSUME NEW n \in Nat, NEW G, 0 \in G,
         \A k \in 0 .. n : k # n /\ k \in G => k + 1 \in G
  PROVE  \A k \in 0 .. n : k \in G
<1> DEFINE H == {T \in SUBSET (0 .. n) :
                    \A k \in 0 .. n : T = 0 .. k => k \in G}
<1>1. ASSUME NEW T \in SUBSET (0 .. n), \A U \in SUBSET T : U # T => U \in H,
             NEW k \in 0 .. n, T = 0 .. k
      PROVE  k \in G
  <2>1. CASE k = 0 BY <2>1
  <2>2. CASE k # 0
    <3>1. k - 1 \in 0 .. n /\ k - 1 # n /\ k - 1 + 1 = k
      BY <2>2
    <3>2. 0 .. k - 1 \in SUBSET T /\ 0 .. k - 1 # T
      <4>1. k \in T /\ k \notin 0 .. k - 1 BY <1>1
      <4>2. QED BY <1>1, <4>1
    <3>3. 0 .. k - 1 \in H BY <1>1, <3>2
    <3>4. k - 1 \in G BY <3>1, <3>3
    <3>5. QED BY <3>1, <3>4
  <2>3. QED BY <2>1, <2>2
<1>2. \A T \in SUBSET (0 .. n) :
        (\A U \in SUBSET T : U # T => U \in H) => T \in H
  BY <1>1
<1>3. IsFiniteSet(0 .. n) BY FS_Interval
<1> HIDE DEF H
<1>4. \A T \in SUBSET (0 .. n) : T \in H
  BY <1>2, <1>3, SubsetInduction
<1>5. ASSUME NEW k \in 0 .. n PROVE k \in G
  <2>1. 0 .. k \in SUBSET (0 .. n) OBVIOUS
  <2>2. 0 .. k \in H BY <1>4, <2>1
  <2>3. QED BY <2>2 DEF H
<1>6. QED BY <1>5
=============================================================================
