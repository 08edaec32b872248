----------------------------- MODULE SumProofs ------------------------------
(***************************************************************************)
(* What SumFunctionOnSet(f, S), the sum of f[x] over a finite set S, is:   *)
(* lemmas for the proofs about values, fees and sizes.  It is defined by   *)
(* recursion over the subsets of S, one chosen element at a time.  Each    *)
(* induction is an argument about a smallest counterexample, SetInduction  *)
(* also for other folds over finite sets.                                  *)
(***************************************************************************)
EXTENDS Integers, FiniteSets, Functions, FiniteSetTheorems, WellFoundedInduction, TLAPS

\* A set of numbers has a least element.
LEMMA LeastNumber ==
    ASSUME NEW T \in SUBSET Nat, T # {}
    PROVE  \E n \in T : \A m \in T : n <= m
<1> DEFINE R == {ss \in Nat \X Nat : ss[1] < ss[2]}
<1>1. IsWellFoundedOn(R, Nat)
  BY NatLessThanWellFounded, Zenon DEF OpToRel
<1> HIDE DEF R
<1>2. PICK n \in T : \A m \in T : <<m, n>> \notin R
  BY <1>1, WFMin
<1>3. \A m \in T : ~ (m < n)
  BY <1>2 DEF R
<1> QED BY <1>3

\* Two functions on the subsets of a finite set that agree on the empty set,
\* and on a set when they agree without some element of it, agree.
LEMMA SetInduction ==
    ASSUME NEW T, IsFiniteSet(T), NEW g, NEW h, g[{}] = h[{}],
           \A s \in SUBSET T : s # {} =>
               \E x \in s : g[s \ {x}] = h[s \ {x}] => g[s] = h[s]
    PROVE  g[T] = h[T]
<1> DEFINE Bad == {s \in SUBSET T : g[s] # h[s]}
           N == {n \in Nat : \E s \in Bad : Cardinality(s) = n}
<1>1. \A s \in SUBSET T : Cardinality(s) \in Nat /\ IsFiniteSet(s)
  BY FS_Subset, FS_CardinalityType
<1> SUFFICES ASSUME Bad # {} PROVE FALSE
  BY DEF Bad
<1>2. N # {}
  BY <1>1
<1>3. N \in SUBSET Nat
  OBVIOUS
<1> HIDE DEF N
<1>4. PICK n \in N : \A m \in N : n <= m
  BY <1>2, <1>3, LeastNumber
<1>5. PICK s \in Bad : Cardinality(s) = n
  BY <1>4 DEF N
<1>6. PICK x \in s : g[s \ {x}] = h[s \ {x}] => g[s] = h[s]
  BY <1>5
<1>7. s \ {x} \in Bad
  BY <1>5, <1>6
<1>8. Cardinality(s \ {x}) = n - 1 /\ n \in Nat /\ n - 1 \in Nat
  BY <1>1, <1>5, <1>7, FS_RemoveElement
<1>9. n - 1 \in N
  BY <1>7, <1>8 DEF N
<1> QED BY <1>4, <1>8, <1>9

-----------------------------------------------------------------------------
Chosen(s) == CHOOSE x \in s : TRUE

\* g is the sum of f over the subsets of S, by the recursive definition
IsSum(f, g, S) ==
    g = [s \in SUBSET S |-> IF s = {} THEN 0 ELSE f[Chosen(s)] + g[s \ {Chosen(s)}]]

LEMMA ChosenElement == ASSUME NEW s, s # {} PROVE Chosen(s) \in s
BY DEF Chosen

LEMMA SumUnfolds ==
    ASSUME NEW f, NEW S
    PROVE  SumFunctionOnSet(f, S) = (CHOOSE g : IsSum(f, g, S))[S]
BY DEF SumFunctionOnSet, FoldFunctionOnSet, MapThenFoldSet, IsSum, Chosen

\* g is the sum of f over the subsets of S of at most n elements
UpTo(f, g, S, n) ==
    \A s \in SUBSET S : Cardinality(s) <= n =>
        g[s] = IF s = {} THEN 0 ELSE f[Chosen(s)] + g[s \ {Chosen(s)}]

LEMMA SumExists ==
    ASSUME NEW S, IsFiniteSet(S), NEW f, \A x \in S : f[x] \in Nat
    PROVE  \E g \in [SUBSET S -> Nat] : IsSum(f, g, S)
<1> DEFINE Body(g, s) == IF s = {} THEN 0 ELSE f[Chosen(s)] + g[s \ {Chosen(s)}]
           T == {n \in Nat : ~ \E g \in [SUBSET S -> Nat] : UpTo(f, g, S, n)}
<1>1. \A s \in SUBSET S : Cardinality(s) \in Nat /\ IsFiniteSet(s)
  BY FS_Subset, FS_CardinalityType
<1>2. \A s \in SUBSET S : s # {} => /\ Chosen(s) \in S /\ s \ {Chosen(s)} \in SUBSET S
                                    /\ Cardinality(s \ {Chosen(s)}) = Cardinality(s) - 1
  BY <1>1, ChosenElement, FS_RemoveElement
<1>3. T = {}
  <2> SUFFICES ASSUME T # {} PROVE FALSE
    OBVIOUS
  <2>1. PICK n \in T : \A m \in T : n <= m
    BY LeastNumber
  <2>2. CASE n = 0
    <3> DEFINE z == [s \in SUBSET S |-> 0]
    <3>1. z \in [SUBSET S -> Nat]
      OBVIOUS
    <3>2. UpTo(f, z, S, 0)
      BY <1>1, FS_EmptySet DEF UpTo
    <3> QED BY <2>1, <2>2, <3>1, <3>2
  <2>3. CASE n # 0
    <3>1. n - 1 \in Nat /\ n - 1 \notin T /\ n \in Nat
      <4>1. n \in Nat
        BY <2>1
      <4>2. n - 1 \in Nat /\ ~ (n <= n - 1)
        BY <4>1, <2>3
      <4> HIDE DEF T
      <4> QED BY <4>1, <4>2, <2>1
    <3>2. PICK g \in [SUBSET S -> Nat] : UpTo(f, g, S, n - 1)
      BY <3>1
    <3> DEFINE h == [s \in SUBSET S |-> IF Cardinality(s) <= n - 1 THEN g[s] ELSE Body(g, s)]
    <3>3. ASSUME NEW s \in SUBSET S PROVE Body(g, s) \in Nat
      <4>1. s # {} => f[Chosen(s)] \in Nat /\ g[s \ {Chosen(s)}] \in Nat
        BY <1>2
      <4> QED BY <4>1
    <3>4. h \in [SUBSET S -> Nat]
      BY <3>3
    <3>5. ASSUME NEW s \in SUBSET S, Cardinality(s) <= n
          PROVE  h[s] = IF s = {} THEN 0 ELSE f[Chosen(s)] + h[s \ {Chosen(s)}]
      <4>1. h[s] = Body(g, s)
        BY <3>1, <3>2, <3>5, <1>1 DEF UpTo
      <4>2. s # {} => h[s \ {Chosen(s)}] = g[s \ {Chosen(s)}]
        <5> SUFFICES ASSUME s # {} PROVE h[s \ {Chosen(s)}] = g[s \ {Chosen(s)}]
          OBVIOUS
        <5>1. /\ s \ {Chosen(s)} \in SUBSET S
              /\ Cardinality(s \ {Chosen(s)}) = Cardinality(s) - 1
          BY <1>2
        <5>2. Cardinality(s \ {Chosen(s)}) <= n - 1
          BY <5>1, <3>5, <1>1, <3>1
        <5> QED BY <5>1, <5>2
      <4> QED BY <4>1, <4>2
    <3>6. UpTo(f, h, S, n)
      BY <3>5 DEF UpTo
    <3> QED BY <2>1, <3>4, <3>6
  <2> QED BY <2>2, <2>3
<1>4. Cardinality(S) \in Nat
  BY <1>1
<1>5. PICK g \in [SUBSET S -> Nat] : UpTo(f, g, S, Cardinality(S))
  BY <1>3, <1>4
<1>6. \A s \in SUBSET S : g[s] = Body(g, s)
  BY <1>5, FS_Subset DEF UpTo
<1>7. IsSum(f, g, S)
  BY <1>6 DEF IsSum
<1> QED BY <1>7

\* Two sums, of functions that agree on T, agree on the subsets of T.
LEMMA SumUnique ==
    ASSUME NEW T, IsFiniteSet(T), NEW S, NEW U, T \subseteq S, T \subseteq U,
           NEW e, NEW f, \A x \in T : e[x] = f[x],
           NEW g, IsSum(e, g, S), NEW h, IsSum(f, h, U)
    PROVE  g[T] = h[T]
<1> DEFINE Bad == {s \in SUBSET T : g[s] # h[s]}
           N == {n \in Nat : \E s \in Bad : Cardinality(s) = n}
<1>1. \A s \in SUBSET T : Cardinality(s) \in Nat /\ IsFiniteSet(s)
  BY FS_Subset, FS_CardinalityType
<1>2. Bad = {}
  <2> SUFFICES ASSUME Bad # {} PROVE FALSE
    OBVIOUS
  <2>1. N # {}
    BY <1>1
  <2>2. PICK n \in N : \A m \in N : n <= m
    BY <2>1, LeastNumber
  <2>3. PICK s \in Bad : Cardinality(s) = n
    BY <2>2
  <2>4. s \in SUBSET S /\ s \in SUBSET U /\ s \in SUBSET T
    OBVIOUS
  <2>5. g[s] = IF s = {} THEN 0 ELSE e[Chosen(s)] + g[s \ {Chosen(s)}]
    BY <2>4 DEF IsSum
  <2>6. h[s] = IF s = {} THEN 0 ELSE f[Chosen(s)] + h[s \ {Chosen(s)}]
    BY <2>4 DEF IsSum
  <2>7. s # {}
    BY <2>5, <2>6
  <2>8. Chosen(s) \in s /\ e[Chosen(s)] = f[Chosen(s)]
    BY <2>7, ChosenElement
  <2>9. /\ s \ {Chosen(s)} \in SUBSET T
        /\ Cardinality(s \ {Chosen(s)}) = n - 1 /\ n - 1 \in Nat
    <3>1. n \in Nat /\ IsFiniteSet(s)
      BY <1>1
    <3>2. Cardinality(s \ {Chosen(s)}) = Cardinality(s) - 1
      BY <3>1, <2>8, FS_RemoveElement
    <3>3. s \ {Chosen(s)} \in SUBSET T
      OBVIOUS
    <3>4. Cardinality(s \ {Chosen(s)}) \in Nat
      BY <1>1, <3>3
    <3> QED BY <2>3, <3>2, <3>3, <3>4
  <2>10. g[s \ {Chosen(s)}] = h[s \ {Chosen(s)}]
    BY <2>2, <2>9
  <2> QED BY <2>5, <2>6, <2>7, <2>8, <2>10
<1> QED BY <1>2

Tabulates(f, g, S) ==
    /\ g \in [SUBSET S -> Nat]
    /\ IsSum(f, g, S)
    /\ \A T \in SUBSET S : SumFunctionOnSet(f, T) = g[T]

\* The sums over the subsets of S are the values of one function.
LEMMA SumIs ==
    ASSUME NEW S, IsFiniteSet(S), NEW f, \A x \in S : f[x] \in Nat
    PROVE  \E g : Tabulates(f, g, S)
<1>1. PICK g \in [SUBSET S -> Nat] : IsSum(f, g, S)
  BY SumExists
<1>2. ASSUME NEW T \in SUBSET S PROVE SumFunctionOnSet(f, T) = g[T]
  <2> DEFINE h == CHOOSE h : IsSum(f, h, T)
  <2>1. IsFiniteSet(T)
    BY FS_Subset
  <2>2. \E k : IsSum(f, k, T)
    BY <2>1, SumExists
  <2>3. IsSum(f, h, T)
    BY <2>2
  <2>4. SumFunctionOnSet(f, T) = h[T]
    BY SumUnfolds
  <2> HIDE DEF h
  <2>5. h[T] = g[T]
    BY <2>1, <2>3, <1>1, SumUnique
  <2> QED BY <2>4, <2>5
<1> QED BY <1>1, <1>2 DEF Tabulates

LEMMA SumNat ==
    ASSUME NEW S, IsFiniteSet(S), NEW f, \A x \in S : f[x] \in Nat
    PROVE  SumFunctionOnSet(f, S) \in Nat
<1>1. PICK g : Tabulates(f, g, S)
  BY SumIs
<1>2. S \in SUBSET S
  OBVIOUS
<1> QED BY <1>1, <1>2 DEF Tabulates

LEMMA SumEmpty == ASSUME NEW f PROVE SumFunctionOnSet(f, {}) = 0
<1>1. PICK g : Tabulates(f, g, {})
  BY SumIs, FS_EmptySet
<1> QED BY <1>1 DEF IsSum, Tabulates

LEMMA SumChosen ==
    ASSUME NEW S, IsFiniteSet(S), S # {}, NEW f, \A x \in S : f[x] \in Nat
    PROVE  SumFunctionOnSet(f, S) = f[Chosen(S)] + SumFunctionOnSet(f, S \ {Chosen(S)})
<1>1. PICK g : Tabulates(f, g, S)
  BY SumIs
<1>2. g[S] = f[Chosen(S)] + g[S \ {Chosen(S)}]
  BY <1>1 DEF IsSum, Tabulates
<1>3. S \in SUBSET S /\ S \ {Chosen(S)} \in SUBSET S
  OBVIOUS
<1> QED BY <1>1, <1>2, <1>3 DEF Tabulates

\* Functions that agree on a set have the same sum over it.
LEMMA SumAgree ==
    ASSUME NEW S, IsFiniteSet(S), NEW f, \A x \in S : f[x] \in Nat,
           NEW e, \A x \in S : e[x] = f[x]
    PROVE  SumFunctionOnSet(e, S) = SumFunctionOnSet(f, S)
<1>1. PICK g : Tabulates(e, g, S)
  BY SumIs
<1>2. PICK h : Tabulates(f, h, S)
  BY SumIs
<1>3. g[S] = h[S]
  BY <1>1, <1>2, SumUnique DEF Tabulates
<1>4. S \in SUBSET S
  OBVIOUS
<1> QED BY <1>1, <1>2, <1>3, <1>4 DEF Tabulates

\* Any element may be taken out first.
LEMMA SumRemove ==
    ASSUME NEW S, IsFiniteSet(S), NEW f, \A x \in S : f[x] \in Nat, NEW x \in S
    PROVE  SumFunctionOnSet(f, S) = f[x] + SumFunctionOnSet(f, S \ {x})
<1> DEFINE sum(T) == SumFunctionOnSet(f, T)
           Bad == {T \in SUBSET S : \E y \in T : sum(T) # f[y] + sum(T \ {y})}
           N == {n \in Nat : \E T \in Bad : Cardinality(T) = n}
<1>1. \A T \in SUBSET S : /\ Cardinality(T) \in Nat /\ IsFiniteSet(T) /\ sum(T) \in Nat
                          /\ T # {} => /\ Chosen(T) \in T
                                       /\ sum(T) = f[Chosen(T)] + sum(T \ {Chosen(T)})
  <2> SUFFICES ASSUME NEW T \in SUBSET S
               PROVE  /\ Cardinality(T) \in Nat /\ IsFiniteSet(T) /\ sum(T) \in Nat
                      /\ T # {} => /\ Chosen(T) \in T
                                   /\ sum(T) = f[Chosen(T)] + sum(T \ {Chosen(T)})
    OBVIOUS
  <2>1. IsFiniteSet(T)
    BY FS_Subset
  <2>2. Cardinality(T) \in Nat
    BY <2>1, FS_CardinalityType
  <2>3. sum(T) \in Nat
    BY <2>1, SumNat
  <2>4. T # {} => Chosen(T) \in T
    BY ChosenElement
  <2>5. T # {} => sum(T) = f[Chosen(T)] + sum(T \ {Chosen(T)})
    BY <2>1, SumChosen
  <2> QED BY <2>1, <2>2, <2>3, <2>4, <2>5
<1> HIDE DEF sum
<1>2. Bad = {}
  <2> SUFFICES ASSUME Bad # {} PROVE FALSE
    OBVIOUS
  <2>1. N # {}
    BY <1>1
  <2>2. PICK n \in N : \A m \in N : n <= m
    BY <2>1, LeastNumber
  <2>3. PICK T \in Bad : Cardinality(T) = n
    BY <2>2
  <2>4. PICK y \in T : sum(T) # f[y] + sum(T \ {y})
    OBVIOUS
  <2> DEFINE c == Chosen(T)
  <2>5. c \in T /\ c # y /\ sum(T) = f[c] + sum(T \ {c})
    BY <1>1, <2>4
  <2> HIDE DEF c
  <2>6. \A z \in T : /\ T \ {z} \in SUBSET S /\ Cardinality(T \ {z}) \in Nat
                     /\ Cardinality(T \ {z}) = n - 1 /\ T \ {z} \notin Bad
    <3> SUFFICES ASSUME NEW z \in T
                 PROVE  /\ T \ {z} \in SUBSET S /\ Cardinality(T \ {z}) \in Nat
                        /\ Cardinality(T \ {z}) = n - 1 /\ T \ {z} \notin Bad
      OBVIOUS
    <3>1. T \ {z} \in SUBSET S
      OBVIOUS
    <3>2. Cardinality(T \ {z}) \in Nat /\ IsFiniteSet(T)
      BY <3>1, <1>1
    <3>3. Cardinality(T \ {z}) = n - 1
      BY <3>2, <2>3, FS_RemoveElement
    <3>4. n \in Nat
      BY <2>2
    <3>5. T \ {z} \notin Bad
      BY <3>2, <3>3, <3>4, <2>2
    <3> QED BY <3>1, <3>2, <3>3, <3>5
  <2>7. sum(T \ {c}) = f[y] + sum((T \ {c}) \ {y})
    BY <2>5, <2>6
  <2>8. sum(T \ {y}) = f[c] + sum((T \ {y}) \ {c})
    BY <2>5, <2>6
  <2>9. (T \ {y}) \ {c} = (T \ {c}) \ {y} /\ (T \ {c}) \ {y} \in SUBSET S
    OBVIOUS
  <2>10. f[c] \in Nat /\ f[y] \in Nat /\ sum((T \ {c}) \ {y}) \in Nat
    BY <1>1, <2>5, <2>9
  <2>11. sum((T \ {y}) \ {c}) = sum((T \ {c}) \ {y})
    BY <2>9
  <2> QED BY <2>4, <2>5, <2>7, <2>8, <2>10, <2>11
<1>3. S \in SUBSET S
  OBVIOUS
<1>4. sum(S) = f[x] + sum(S \ {x})
  BY <1>2, <1>3
<1> QED BY <1>4 DEF sum

LEMMA SumAdd ==
    ASSUME NEW S, IsFiniteSet(S), NEW x, x \notin S, NEW f, \A y \in S \cup {x} : f[y] \in Nat
    PROVE  SumFunctionOnSet(f, S \cup {x}) = f[x] + SumFunctionOnSet(f, S)
<1>1. IsFiniteSet(S \cup {x}) /\ x \in S \cup {x} /\ (S \cup {x}) \ {x} = S
  BY FS_AddElement
<1>2. SumFunctionOnSet(f, S \cup {x}) = f[x] + SumFunctionOnSet(f, (S \cup {x}) \ {x})
  BY <1>1, SumRemove
<1>3. SumFunctionOnSet(f, (S \cup {x}) \ {x}) = SumFunctionOnSet(f, S)
  BY <1>1
<1> QED BY <1>2, <1>3

\* The sum over two disjoint sets
LEMMA SumUnion ==
    ASSUME NEW S, IsFiniteSet(S), NEW T, IsFiniteSet(T), S \cap T = {},
           NEW f, \A x \in S \cup T : f[x] \in Nat
    PROVE  SumFunctionOnSet(f, S \cup T) = SumFunctionOnSet(f, S) + SumFunctionOnSet(f, T)
<1> DEFINE sum(U) == SumFunctionOnSet(f, U)
           Bad == {U \in SUBSET T : sum(S \cup U) # sum(S) + sum(U)}
           N == {n \in Nat : \E U \in Bad : Cardinality(U) = n}
<1>1. \A U \in SUBSET T : Cardinality(U) \in Nat /\ IsFiniteSet(U) /\ sum(U) \in Nat
  BY FS_Subset, FS_CardinalityType, SumNat
<1>2. sum(S) \in Nat /\ sum({}) = 0
  BY SumNat, SumEmpty
<1>3. \A U \in SUBSET T : \A x \in U :
          /\ sum(U) = f[x] + sum(U \ {x}) 
          /\ sum(S \cup U) = f[x] + sum(S \cup (U \ {x}))
  <2> SUFFICES ASSUME NEW U \in SUBSET T, NEW x \in U
               PROVE  /\ sum(U) = f[x] + sum(U \ {x}) 
                      /\ sum(S \cup U) = f[x] + sum(S \cup (U \ {x}))
    OBVIOUS
  <2>1. IsFiniteSet(U) /\ IsFiniteSet(S \cup U)
    BY <1>1, FS_Union
  <2>2. sum(U) = f[x] + sum(U \ {x})
    BY <2>1, SumRemove
  <2>3. sum(S \cup U) = f[x] + sum((S \cup U) \ {x})
    BY <2>1, SumRemove
  <2>4. (S \cup U) \ {x} = S \cup (U \ {x})
    OBVIOUS
  <2> QED BY <2>2, <2>3, <2>4
<1> HIDE DEF sum
<1>4. Bad = {}
  <2> SUFFICES ASSUME Bad # {} PROVE FALSE
    OBVIOUS
  <2>1. N # {}
    BY <1>1
  <2>2. PICK n \in N : \A m \in N : n <= m
    BY <2>1, LeastNumber
  <2>3. PICK U \in Bad : Cardinality(U) = n
    BY <2>2
  <2>4. U # {}
    <3> SUFFICES ASSUME U = {} PROVE FALSE
      OBVIOUS
    <3>1. S \cup U = S
      OBVIOUS
    <3>2. sum(S \cup U) = sum(S) /\ sum(U) = 0
      BY <3>1, <1>2
    <3> QED BY <3>2, <1>2
  <2>5. PICK x \in U : TRUE
    BY <2>4
  <2>6. U \ {x} \in SUBSET T
    OBVIOUS
  <2>7. Cardinality(U \ {x}) \in Nat /\ IsFiniteSet(U) /\ n \in Nat
    BY <2>6, <1>1
  <2>8. Cardinality(U \ {x}) = n - 1
    BY <2>7, <2>3, FS_RemoveElement
  <2>9. sum(S \cup (U \ {x})) = sum(S) + sum(U \ {x})
    <3>1. n - 1 \notin N
      BY <2>2, <2>7
    <3>2. U \ {x} \notin Bad
      BY <2>7, <2>8, <3>1
    <3> QED BY <2>6, <3>2
  <2>10. /\ f[x] \in Nat /\ sum(U \ {x}) \in Nat
         /\ sum(U) = f[x] + sum(U \ {x}) 
         /\ sum(S \cup U) = f[x] + sum(S \cup (U \ {x}))
         /\ sum(S \cup U) # sum(S) + sum(U)
    BY <1>1, <1>3, <2>6
  <2> QED BY <2>9, <2>10, <1>2
<1>5. T \in SUBSET T
  OBVIOUS
<1>6. sum(S \cup T) = sum(S) + sum(T)
  BY <1>4, <1>5
<1> QED BY <1>6 DEF sum

\* Taking a subset out
LEMMA SumSplit ==
    ASSUME NEW S, IsFiniteSet(S), NEW T \in SUBSET S, NEW f, \A x \in S : f[x] \in Nat
    PROVE  SumFunctionOnSet(f, S) = SumFunctionOnSet(f, S \ T) + SumFunctionOnSet(f, T)
<1>1. IsFiniteSet(T) /\ IsFiniteSet(S \ T)
  BY FS_Subset
<1>2. (S \ T) \cup T = S /\ (S \ T) \cap T = {}
  OBVIOUS
<1>3. SumFunctionOnSet(f, (S \ T) \cup T) = SumFunctionOnSet(f, S \ T) + SumFunctionOnSet(f, T)
  BY <1>1, <1>2, SumUnion
<1> QED BY <1>2, <1>3

\* The sum over the image of a one-to-one function
LEMMA SumImage ==
    ASSUME NEW I, IsFiniteSet(I), NEW h, \A i, j \in I : h[i] = h[j] => i = j,
           NEW f, \A i \in I : f[h[i]] \in Nat,
           NEW e, \A i \in I : e[i] = f[h[i]]
    PROVE  SumFunctionOnSet(e, I) = SumFunctionOnSet(f, {h[i] : i \in I})
<1> DEFINE Image(J) == {h[i] : i \in J}
           dom(J) == SumFunctionOnSet(e, J)
           sum(J) == SumFunctionOnSet(f, Image(J))
           Bad == {J \in SUBSET I : dom(J) # sum(J)}
           N == {n \in Nat : \E J \in Bad : Cardinality(J) = n}
<1>1. \A J \in SUBSET I : Cardinality(J) \in Nat /\ IsFiniteSet(J)
  BY FS_Subset, FS_CardinalityType
<1>2. dom({}) = 0 /\ sum({}) = 0
  <2>1. Image({}) = {}
    OBVIOUS
  <2>2. SumFunctionOnSet(f, Image({})) = SumFunctionOnSet(f, {})
    BY <2>1
  <2> QED BY <2>2, SumEmpty
<1>3. ASSUME NEW J \in SUBSET I PROVE IsFiniteSet(Image(J))
  <2> DEFINE k == [i \in J |-> h[i]]
  <2>1. k \in Surjection(J, Image(J))
    BY DEF Surjection
  <2> QED BY <1>1, <2>1, FS_Surjection
<1>4. ASSUME NEW J \in SUBSET I, NEW i \in J
      PROVE  dom(J) = e[i] + dom(J \ {i}) /\ sum(J) = e[i] + sum(J \ {i})
  <2>1. dom(J) = e[i] + dom(J \ {i})
    BY <1>1, SumRemove
  <2>2. Image(J \ {i}) = Image(J) \ {h[i]} /\ h[i] \in Image(J)
    OBVIOUS
  <2>3. \A x \in Image(J) : f[x] \in Nat
    OBVIOUS
  <2>4. IsFiniteSet(Image(J))
    BY <1>3
  <2> HIDE DEF Image
  <2>5. SumFunctionOnSet(f, Image(J)) = f[h[i]] + SumFunctionOnSet(f, Image(J) \ {h[i]})
    BY <2>2, <2>3, <2>4, SumRemove
  <2>6. SumFunctionOnSet(f, Image(J) \ {h[i]}) = SumFunctionOnSet(f, Image(J \ {i}))
    BY <2>2
  <2> QED BY <2>1, <2>5, <2>6
<1> HIDE DEF dom, sum
<1>5. Bad = {}
  <2> SUFFICES ASSUME Bad # {} PROVE FALSE
    OBVIOUS
  <2>1. N # {}
    BY <1>1
  <2>2. PICK n \in N : \A m \in N : n <= m
    BY <2>1, LeastNumber
  <2>3. PICK J \in Bad : Cardinality(J) = n
    BY <2>2
  <2>4. J # {}
    BY <1>2
  <2>5. PICK i \in J : TRUE
    BY <2>4
  <2>6. J \ {i} \in SUBSET I
    OBVIOUS
  <2>7. Cardinality(J \ {i}) \in Nat /\ IsFiniteSet(J) /\ n \in Nat
    BY <2>6, <1>1
  <2>8. Cardinality(J \ {i}) = n - 1
    BY <2>7, <2>3, FS_RemoveElement
  <2>9. dom(J \ {i}) = sum(J \ {i})
    BY <2>2, <2>6, <2>7, <2>8
  <2>10. dom(J) = e[i] + dom(J \ {i}) /\ sum(J) = e[i] + sum(J \ {i}) /\ dom(J) # sum(J)
    BY <1>4
  <2> QED BY <2>9, <2>10
<1>6. dom(I) = sum(I)
  BY <1>5
<1> QED BY <1>6 DEF dom, sum

-----------------------------------------------------------------------------
\* The stake of a set of validators as the code adds it up, validator by validator, is
\* what Consensus, Slashing and Node assume it to be (StakeAssumption,
\* VoteStakeAssumption, StakesAssumption): a measure, for any stakes.
THEOREM StakesAreMeasures ==
    ASSUME NEW V, IsFiniteSet(V), NEW stake \in [V -> Nat],
           NEW stakeOf, stakeOf = [S \in SUBSET V |-> SumFunctionOnSet(stake, S)]
    PROVE  /\ stakeOf \in [SUBSET V -> Nat]
           /\ stakeOf[{}] = 0
           /\ \A v \in V : stakeOf[{v}] = stake[v]
           /\ \A S, T \in SUBSET V : S \cap T = {} => stakeOf[S \cup T] = stakeOf[S] + stakeOf[T]
<1>1. \A S \in SUBSET V : IsFiniteSet(S) /\ SumFunctionOnSet(stake, S) \in Nat
  BY FS_Subset, SumNat
<1>2. stakeOf \in [SUBSET V -> Nat] /\ \A S \in SUBSET V : stakeOf[S] = SumFunctionOnSet(stake, S)
  BY <1>1
<1>3. stakeOf[{}] = 0
  BY <1>2, SumEmpty
<1>4. ASSUME NEW v \in V PROVE stakeOf[{v}] = stake[v]
  <2>1. {v} \in SUBSET V /\ IsFiniteSet({v}) /\ {v} \ {v} = {} /\ stake[v] \in Nat
    BY <1>1
  <2>2. SumFunctionOnSet(stake, {v}) = stake[v] + SumFunctionOnSet(stake, {})
    BY <2>1, SumRemove
  <2> QED BY <1>2, <2>1, <2>2, SumEmpty
<1>5. ASSUME NEW S \in SUBSET V, NEW T \in SUBSET V, S \cap T = {}
      PROVE  stakeOf[S \cup T] = stakeOf[S] + stakeOf[T]
  <2>1. S \cup T \in SUBSET V /\ \A x \in S \cup T : stake[x] \in Nat
    OBVIOUS
  <2>2. SumFunctionOnSet(stake, S \cup T) = SumFunctionOnSet(stake, S) + SumFunctionOnSet(stake, T)
    BY <1>1, <1>5, <2>1, SumUnion
  <2> QED BY <1>2, <2>1, <2>2
<1> QED BY <1>2, <1>3, <1>4, <1>5
=============================================================================
