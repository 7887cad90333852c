------------------------------ MODULE SumLemmas ------------------------------
(***************************************************************************)
(* Facts about sums over finite sets, for the proofs of the modules that   *)
(* add up amounts or counters with MapThenSumSet.  The induction over the  *)
(* elements of a set is a choice of a smallest counterexample: the sets    *)
(* for which a claim holds are themselves a set.                           *)
(***************************************************************************)
EXTENDS Integers, FiniteSets, FiniteSetsExt, FiniteSetTheorems, TLAPS

\* The sum of the values of f on S, as the modules write it.
SumOf(f, S) == MapThenSumSet(LAMBDA x : f[x], S)

\* The element that the fold takes first, and the equation that defines the fold.
Taken(s) == CHOOSE x \in s : TRUE
Summing(g, f, U) ==
  g = [s \in SUBSET U |-> IF s = {} THEN 0 ELSE f[Taken(s)] + g[s \ {Taken(s)}]]
Adder(f, U) == CHOOSE g : Summing(g, f, U)

-----------------------------------------------------------------------------
(* Induction over finite sets *)

\* A set of subsets of a finite set has a smallest member.
LEMMA SmallestSubset ==
  ASSUME NEW S, IsFiniteSet(S), NEW Bad \in SUBSET (SUBSET S), Bad # {}
  PROVE  \E T \in Bad : \A U \in Bad : U \subseteq T => U = T
<1> DEFINE R == StrictSubsetOrdering(S)
<1>1. Bad \subseteq FiniteSubsetsOf(S)
  BY FS_Subset DEF FiniteSubsetsOf
<1>2. IsWellFoundedOn(R, FiniteSubsetsOf(S))
  BY FS_StrictSubsetOrderingWellFounded
<1>3. PICK T \in Bad : \A U \in Bad : ~ (<<U, T>> \in R)
  <2> HIDE DEF R
  <2> QED BY <1>1, <1>2, WFMin
<1>4. ASSUME NEW U \in Bad, U \subseteq T PROVE U = T
  <2>1. U \in SUBSET S /\ T \in SUBSET S
    OBVIOUS
  <2> QED BY <1>3, <1>4, <2>1 DEF StrictSubsetOrdering
<1> QED BY <1>4

\* What holds of the empty set, and of a set with one more element whenever it
\* holds of the set, holds of all subsets of a finite set.
LEMMA SetInduction ==
  ASSUME NEW S, IsFiniteSet(S), NEW G, {} \in G,
         \A T \in SUBSET S : \A x \in S \ T : T \in G => T \cup {x} \in G
  PROVE  SUBSET S \subseteq G
<1> DEFINE Bad == (SUBSET S) \ G
<1> SUFFICES ASSUME Bad # {} PROVE FALSE
  OBVIOUS
<1>1. PICK T \in Bad : \A U \in Bad : U \subseteq T => U = T
  <2>1. Bad \in SUBSET (SUBSET S)
    OBVIOUS
  <2> HIDE DEF Bad
  <2> QED BY <2>1, SmallestSubset
<1>2. PICK x : x \in T
  BY <1>1
<1>3. T \ {x} \in G
  BY <1>1, <1>2
<1>4. (T \ {x}) \cup {x} \in G
  BY <1>1, <1>2, <1>3
<1>5. (T \ {x}) \cup {x} = T
  BY <1>2
<1> QED BY <1>1, <1>4, <1>5

-----------------------------------------------------------------------------
(* The equation of the fold *)

\* The sum is what the first solution of the equation says.
LEMMA SumAdder ==
  ASSUME NEW f, NEW S
  PROVE  SumOf(f, S) = Adder(f, S)[S]
BY DEF SumOf, MapThenSumSet, MapThenFoldSet, Adder, Summing, Taken

\* The element taken first is an element.
LEMMA TakenIn ==
  ASSUME NEW s, s # {}
  PROVE  Taken(s) \in s
BY DEF Taken

\* A solution of the equation, set by set.
LEMMA SummingAt ==
  ASSUME NEW f, NEW U, NEW g, Summing(g, f, U), NEW s \in SUBSET U
  PROVE  g[s] = IF s = {} THEN 0 ELSE f[Taken(s)] + g[s \ {Taken(s)}]
BY DEF Summing

\* Two solutions agree wherever both are defined.
LEMMA SummingAgree ==
  ASSUME NEW f, NEW U, NEW V, NEW g, NEW h, IsFiniteSet(U),
         Summing(g, f, U), Summing(h, f, V)
  PROVE  \A s \in (SUBSET U) \cap (SUBSET V) : g[s] = h[s]
<1> DEFINE Bad == {s \in (SUBSET U) \cap (SUBSET V) : g[s] # h[s]}
<1> SUFFICES ASSUME Bad # {} PROVE FALSE
  OBVIOUS
<1>1. PICK s \in Bad : \A t \in Bad : t \subseteq s => t = s
  <2>1. Bad \in SUBSET (SUBSET U)
    OBVIOUS
  <2> HIDE DEF Bad
  <2> QED BY <2>1, SmallestSubset
<1>2. s \in SUBSET U /\ s \in SUBSET V /\ g[s] # h[s]
  OBVIOUS
<1>3. /\ g[s] = IF s = {} THEN 0 ELSE f[Taken(s)] + g[s \ {Taken(s)}]
      /\ h[s] = IF s = {} THEN 0 ELSE f[Taken(s)] + h[s \ {Taken(s)}]
  <2> HIDE DEF Bad
  <2>1. g[s] = IF s = {} THEN 0 ELSE f[Taken(s)] + g[s \ {Taken(s)}]
    BY <1>2, Zenon DEF Summing
  <2>2. h[s] = IF s = {} THEN 0 ELSE f[Taken(s)] + h[s \ {Taken(s)}]
    BY <1>2, Zenon DEF Summing
  <2> QED BY <2>1, <2>2
<1>4. s # {} /\ Taken(s) \in s
  BY <1>2, <1>3, TakenIn
<1>5. s \ {Taken(s)} \notin Bad
  BY <1>1, <1>4
<1>6. g[s \ {Taken(s)}] = h[s \ {Taken(s)}]
  BY <1>2, <1>5
<1> QED BY <1>2, <1>3, <1>4, <1>6

\* The equation has a solution.
LEMMA AdderExists ==
  ASSUME NEW f, NEW S, IsFiniteSet(S)
  PROVE  Summing(Adder(f, S), f, S)
<1> DEFINE Bad == {T \in SUBSET S : ~ \E g : Summing(g, f, T)}
<1>1. ASSUME NEW T \in SUBSET S, \E g : Summing(g, f, T)
      PROVE  Summing(Adder(f, T), f, T)
  BY <1>1 DEF Adder
<1> SUFFICES ASSUME Bad # {} PROVE FALSE
  BY <1>1
<1>2. PICK T \in Bad : \A U \in Bad : U \subseteq T => U = T
  <2>1. Bad \in SUBSET (SUBSET S)
    OBVIOUS
  <2> HIDE DEF Bad
  <2> QED BY <2>1, SmallestSubset
<1> DEFINE Part(u) == Adder(f, u)[u]
           g == [s \in SUBSET T |-> IF s = {} THEN 0 ELSE f[Taken(s)] + Part(s \ {Taken(s)})]
<1>3. \A u \in SUBSET T : u # T => Summing(Adder(f, u), f, u) /\ IsFiniteSet(u)
  <2> SUFFICES ASSUME NEW u \in SUBSET T, u # T
               PROVE  Summing(Adder(f, u), f, u) /\ IsFiniteSet(u)
    OBVIOUS
  <2>1. u \in SUBSET S /\ u \notin Bad
    BY <1>2
  <2> QED BY <1>1, <2>1, FS_Subset
<1>4. \A u \in SUBSET T : u # T => g[u] = Part(u)
  <2> SUFFICES ASSUME NEW u \in SUBSET T, u # T PROVE g[u] = Part(u)
    OBVIOUS
  <2>1. Part(u) = IF u = {} THEN 0 ELSE f[Taken(u)] + Adder(f, u)[u \ {Taken(u)}]
    BY <1>3, SummingAt
  <2>2. CASE u = {}
    BY <2>1, <2>2
  <2>3. CASE u # {}
    <3> DEFINE v == u \ {Taken(u)}
    <3>1. v \in SUBSET T /\ v # T /\ v \in (SUBSET u) \cap (SUBSET v)
      BY <2>3, TakenIn
    <3>2. Summing(Adder(f, u), f, u) /\ Summing(Adder(f, v), f, v) /\ IsFiniteSet(u)
      BY <1>3, <3>1
    <3>3. Adder(f, u)[v] = Part(v)
      <4> HIDE DEF v
      <4> QED BY <3>1, <3>2, SummingAgree
    <3> QED BY <2>1, <2>3, <3>3
  <2> QED BY <2>2, <2>3
<1>5. Summing(g, f, T)
  <2>1. ASSUME NEW s \in SUBSET T, s # {}
        PROVE  Part(s \ {Taken(s)}) = g[s \ {Taken(s)}]
    <3>1. s \ {Taken(s)} \in SUBSET T /\ s \ {Taken(s)} # T
      BY <2>1, TakenIn
    <3> HIDE DEF g, Part
    <3> QED BY <1>4, <3>1
  <2>2. g = [s \in SUBSET T |-> IF s = {} THEN 0 ELSE f[Taken(s)] + g[s \ {Taken(s)}]]
    <3> SUFFICES [s \in SUBSET T |-> IF s = {} THEN 0 ELSE f[Taken(s)] + Part(s \ {Taken(s)})]
               = [s \in SUBSET T |-> IF s = {} THEN 0 ELSE f[Taken(s)] + g[s \ {Taken(s)}]]
      OBVIOUS
    <3> HIDE DEF g, Part
    <3> QED BY <2>1
  <2> QED BY <2>2 DEF Summing
<1> QED BY <1>2, <1>5

\* The end of the fold.
LEMMA SumEmpty ==
  ASSUME NEW f
  PROVE  SumOf(f, {}) = 0
<1>1. Summing(Adder(f, {}), f, {})
  BY AdderExists, FS_EmptySet
<1> QED BY <1>1, SummingAt, SumAdder

\* One step of the fold.
LEMMA SumStep ==
  ASSUME NEW f, NEW S, IsFiniteSet(S), S # {}
  PROVE  SumOf(f, S) = f[Taken(S)] + SumOf(f, S \ {Taken(S)})
<1> DEFINE v == S \ {Taken(S)}
<1>1. IsFiniteSet(v) /\ v \in (SUBSET S) \cap (SUBSET v)
  BY FS_Subset
<1>2. Summing(Adder(f, S), f, S) /\ Summing(Adder(f, v), f, v)
  BY <1>1, AdderExists
<1>3. Adder(f, S)[v] = Adder(f, v)[v]
  <2> HIDE DEF v
  <2> QED BY <1>1, <1>2, SummingAgree
<1>4. Adder(f, S)[S] = f[Taken(S)] + Adder(f, S)[v]
  BY <1>2, SummingAt
<1> QED BY <1>3, <1>4, SumAdder

-----------------------------------------------------------------------------
(* What the proofs use *)

\* A sum of integers is an integer.
LEMMA SumInt ==
  ASSUME NEW f, NEW S, IsFiniteSet(S), \A x \in S : f[x] \in Int
  PROVE  SumOf(f, S) \in Int
<1> DEFINE Bad == {T \in SUBSET S : SumOf(f, T) \notin Int}
<1> SUFFICES ASSUME Bad # {} PROVE FALSE
  OBVIOUS
<1>1. PICK T \in Bad : \A U \in Bad : U \subseteq T => U = T
  <2>1. Bad \in SUBSET (SUBSET S)
    OBVIOUS
  <2> HIDE DEF Bad
  <2> QED BY <2>1, SmallestSubset
<1>2. T \in SUBSET S /\ IsFiniteSet(T) /\ SumOf(f, T) \notin Int
  BY FS_Subset
<1>3. T # {} /\ Taken(T) \in T
  BY <1>2, SumEmpty, TakenIn
<1>4. T \ {Taken(T)} \notin Bad
  BY <1>1, <1>3
<1>5. SumOf(f, T \ {Taken(T)}) \in Int /\ f[Taken(T)] \in Int
  BY <1>2, <1>3, <1>4
<1> QED BY <1>2, <1>3, <1>5, SumStep

\* The order of the elements does not matter: any one can be taken out first.
LEMMA SumRemove ==
  ASSUME NEW f, NEW S, IsFiniteSet(S), \A x \in S : f[x] \in Int, NEW e \in S
  PROVE  SumOf(f, S) = f[e] + SumOf(f, S \ {e})
<1> DEFINE Fails(T, x) == SumOf(f, T) # f[x] + SumOf(f, T \ {x})
           Bad == {T \in SUBSET S : \E x \in T : Fails(T, x)}
<1> SUFFICES ASSUME Bad # {} PROVE FALSE
  OBVIOUS
<1>1. PICK T \in Bad : \A U \in Bad : U \subseteq T => U = T
  <2>1. Bad \in SUBSET (SUBSET S)
    OBVIOUS
  <2> HIDE DEF Bad
  <2> QED BY <2>1, SmallestSubset
<1>2. PICK x \in T : Fails(T, x)
  OBVIOUS
<1> DEFINE c == Taken(T)
           both == T \ {x, c}
<1>3. T \in SUBSET S /\ IsFiniteSet(T) /\ c \in T /\ both \in SUBSET S /\ IsFiniteSet(both)
  BY FS_Subset, TakenIn
<1>4. SumOf(f, T) = f[c] + SumOf(f, T \ {c})
  BY <1>3, SumStep
<1>5. c # x
  BY <1>2, <1>4
<1>6. T \ {c} \notin Bad /\ T \ {x} \notin Bad
  BY <1>1, <1>3
<1>7. ~ Fails(T \ {c}, x) /\ ~ Fails(T \ {x}, c)
  <2>1. T \ {c} \in SUBSET S /\ T \ {x} \in SUBSET S /\ x \in T \ {c} /\ c \in T \ {x}
    BY <1>3, <1>5
  <2> HIDE DEF Fails, c
  <2> QED BY <1>6, <2>1
<1>8. (T \ {c}) \ {x} = both /\ (T \ {x}) \ {c} = both
  OBVIOUS
<1>9. f[x] \in Int /\ f[c] \in Int /\ SumOf(f, both) \in Int
  <2>1. x \in S /\ c \in S /\ \A y \in both : f[y] \in Int
    BY <1>3
  <2> QED BY <1>3, <2>1, SumInt
<1>10. /\ SumOf(f, T \ {c}) = f[x] + SumOf(f, both)
       /\ SumOf(f, T \ {x}) = f[c] + SumOf(f, both)
  BY <1>7, <1>8
<1>11. SumOf(f, T) # f[x] + SumOf(f, T \ {x})
  BY <1>2
<1> HIDE DEF c, both
<1> QED BY <1>4, <1>9, <1>10, <1>11

\* An element that is added to a set adds its value.
LEMMA SumAdd ==
  ASSUME NEW f, NEW S, IsFiniteSet(S), NEW e, e \notin S, \A x \in S \cup {e} : f[x] \in Int
  PROVE  SumOf(f, S \cup {e}) = f[e] + SumOf(f, S)
<1>1. IsFiniteSet(S \cup {e}) /\ (S \cup {e}) \ {e} = S
  BY FS_AddElement
<1> QED BY <1>1, SumRemove

\* Functions with the same values have the same sum.
LEMMA SumSame ==
  ASSUME NEW f, NEW g, NEW S, IsFiniteSet(S),
         \A x \in S : f[x] \in Int, \A x \in S : f[x] = g[x]
  PROVE  SumOf(f, S) = SumOf(g, S)
<1> DEFINE G == {T \in SUBSET S : SumOf(f, T) = SumOf(g, T)}
<1>1. {} \in G
  BY SumEmpty
<1>2. ASSUME NEW T \in SUBSET S, NEW e \in S \ T, T \in G
      PROVE  T \cup {e} \in G
  <2>1. IsFiniteSet(T) /\ T \cup {e} \in SUBSET S /\ e \notin T
    BY FS_Subset
  <2>2. \A x \in T \cup {e} : f[x] \in Int /\ g[x] \in Int
    OBVIOUS
  <2>3. /\ SumOf(f, T \cup {e}) = f[e] + SumOf(f, T)
        /\ SumOf(g, T \cup {e}) = g[e] + SumOf(g, T)
    BY <2>1, <2>2, SumAdd
  <2> QED BY <1>2, <2>1, <2>3
<1>3. SUBSET S \subseteq G
  <2> HIDE DEF G
  <2> QED BY <1>1, <1>2, SetInduction
<1> QED BY <1>3

\* Greater values have a greater sum.
LEMMA SumMono ==
  ASSUME NEW f, NEW g, NEW S, IsFiniteSet(S),
         \A x \in S : f[x] \in Int /\ g[x] \in Int /\ f[x] <= g[x]
  PROVE  SumOf(f, S) <= SumOf(g, S)
<1> DEFINE G == {T \in SUBSET S : SumOf(f, T) <= SumOf(g, T)}
<1>1. {} \in G
  BY SumEmpty
<1>2. ASSUME NEW T \in SUBSET S, NEW e \in S \ T, T \in G
      PROVE  T \cup {e} \in G
  <2>1. IsFiniteSet(T) /\ T \cup {e} \in SUBSET S /\ e \notin T
    BY FS_Subset
  <2>2. \A x \in T \cup {e} : f[x] \in Int /\ g[x] \in Int /\ f[x] <= g[x]
    OBVIOUS
  <2>3. /\ SumOf(f, T \cup {e}) = f[e] + SumOf(f, T)
        /\ SumOf(g, T \cup {e}) = g[e] + SumOf(g, T)
    BY <2>1, <2>2, SumAdd
  <2>4. SumOf(f, T) \in Int /\ SumOf(g, T) \in Int
    BY <2>1, <2>2, SumInt
  <2>5. f[e] \in Int /\ g[e] \in Int /\ f[e] <= g[e] /\ SumOf(f, T) <= SumOf(g, T)
    BY <1>2
  <2>6. SumOf(f, T \cup {e}) <= SumOf(g, T \cup {e})
    BY <2>3, <2>4, <2>5
  <2> QED BY <2>1, <2>6
<1>3. SUBSET S \subseteq G
  <2> HIDE DEF G
  <2> QED BY <1>1, <1>2, SetInduction
<1> QED BY <1>3

\* The sum of a function that is 0 everywhere.
LEMMA SumZero ==
  ASSUME NEW f, NEW S, IsFiniteSet(S), \A x \in S : f[x] = 0
  PROVE  SumOf(f, S) = 0
<1> DEFINE G == {T \in SUBSET S : SumOf(f, T) = 0}
<1>1. {} \in G
  BY SumEmpty
<1>2. ASSUME NEW T \in SUBSET S, NEW e \in S \ T, T \in G
      PROVE  T \cup {e} \in G
  <2>1. IsFiniteSet(T) /\ T \cup {e} \in SUBSET S /\ e \notin T
    BY FS_Subset
  <2>2. SumOf(f, T \cup {e}) = f[e] + SumOf(f, T)
    BY <2>1, SumAdd
  <2> QED BY <1>2, <2>1, <2>2
<1>3. SUBSET S \subseteq G
  <2> HIDE DEF G
  <2> QED BY <1>1, <1>2, SetInduction
<1> QED BY <1>3

\* A sum of natural numbers is a natural number.
LEMMA SumNat ==
  ASSUME NEW f, NEW S, IsFiniteSet(S), \A x \in S : f[x] \in Nat
  PROVE  SumOf(f, S) \in Nat
<1> DEFINE z == [x \in S |-> 0]
<1>1. SumOf(z, S) = 0
  BY SumZero
<1>2. SumOf(z, S) <= SumOf(f, S)
  <2>1. \A x \in S : z[x] \in Int /\ f[x] \in Int /\ z[x] <= f[x]
    OBVIOUS
  <2> HIDE DEF z
  <2> QED BY <2>1, SumMono
<1>3. SumOf(f, S) \in Int
  BY SumInt
<1> QED BY <1>1, <1>2, <1>3

\* Sums are added value by value.
LEMMA SumPlus ==
  ASSUME NEW f, NEW g, NEW h, NEW S, IsFiniteSet(S),
         \A x \in S : f[x] \in Int /\ g[x] \in Int /\ h[x] = f[x] + g[x]
  PROVE  SumOf(h, S) = SumOf(f, S) + SumOf(g, S)
<1> DEFINE G == {T \in SUBSET S : SumOf(h, T) = SumOf(f, T) + SumOf(g, T)}
<1>1. {} \in G
  BY SumEmpty
<1>2. ASSUME NEW T \in SUBSET S, NEW e \in S \ T, T \in G
      PROVE  T \cup {e} \in G
  <2>1. IsFiniteSet(T) /\ T \cup {e} \in SUBSET S /\ e \notin T
    BY FS_Subset
  <2>2. \A x \in T \cup {e} : f[x] \in Int /\ g[x] \in Int
        /\ h[x] \in Int /\ h[x] = f[x] + g[x]
    OBVIOUS
  <2>3. /\ SumOf(f, T \cup {e}) = f[e] + SumOf(f, T)
        /\ SumOf(g, T \cup {e}) = g[e] + SumOf(g, T)
        /\ SumOf(h, T \cup {e}) = h[e] + SumOf(h, T)
    BY <2>1, <2>2, SumAdd
  <2>4. SumOf(f, T) \in Int /\ SumOf(g, T) \in Int /\ SumOf(h, T) \in Int
    BY <2>1, <2>2, SumInt
  <2>5. f[e] \in Int /\ g[e] \in Int /\ h[e] = f[e] + g[e]
    BY <1>2
  <2>6. SumOf(h, T) = SumOf(f, T) + SumOf(g, T)
    BY <1>2
  <2>7. SumOf(h, T \cup {e}) = SumOf(f, T \cup {e}) + SumOf(g, T \cup {e})
    BY <2>3, <2>4, <2>5, <2>6
  <2> QED BY <2>1, <2>7
<1>3. SUBSET S \subseteq G
  <2> HIDE DEF G
  <2> QED BY <1>1, <1>2, SetInduction
<1> QED BY <1>3

\* Sums over disjoint sets add up.
LEMMA SumUnion ==
  ASSUME NEW f, NEW A, NEW B, IsFiniteSet(A), IsFiniteSet(B), A \cap B = {},
         \A x \in A \cup B : f[x] \in Int
  PROVE  SumOf(f, A \cup B) = SumOf(f, A) + SumOf(f, B)
<1> DEFINE G == {T \in SUBSET B : SumOf(f, A \cup T) = SumOf(f, A) + SumOf(f, T)}
<1>0. SumOf(f, A) \in Int
  BY SumInt
<1>1. {} \in G
  <2>1. A \cup {} = A
    OBVIOUS
  <2>2. SumOf(f, A) = SumOf(f, A) + 0
    BY <1>0
  <2> QED BY <2>1, <2>2, SumEmpty
<1>2. ASSUME NEW T \in SUBSET B, NEW e \in B \ T, T \in G
      PROVE  T \cup {e} \in G
  <2>1. /\ IsFiniteSet(T) /\ IsFiniteSet(A \cup T) /\ e \notin T /\ e \notin A \cup T
        /\ T \cup {e} \in SUBSET B /\ A \cup (T \cup {e}) = (A \cup T) \cup {e}
    BY FS_Subset, FS_Union
  <2>2. \A x \in (A \cup T) \cup {e} : f[x] \in Int
    OBVIOUS
  <2>3. SumOf(f, (A \cup T) \cup {e}) = f[e] + SumOf(f, A \cup T)
    BY <2>1, <2>2, SumAdd
  <2>4. SumOf(f, T \cup {e}) = f[e] + SumOf(f, T)
    BY <2>1, <2>2, SumAdd
  <2>5. SumOf(f, T) \in Int /\ f[e] \in Int
    BY <2>1, <2>2, SumInt
  <2>6. SumOf(f, A \cup T) = SumOf(f, A) + SumOf(f, T)
    BY <1>2
  <2>7. SumOf(f, (A \cup T) \cup {e}) = SumOf(f, A) + SumOf(f, T \cup {e})
    BY <1>0, <2>3, <2>4, <2>5, <2>6
  <2> QED BY <2>1, <2>7
<1>3. SUBSET B \subseteq G
  <2> HIDE DEF G
  <2> QED BY <1>1, <1>2, SetInduction
<1> QED BY <1>3

\* The union of the sets that P gives to the members of I.
UnionOf(P, I) == UNION {P[i] : i \in I}

\* These sets are disjoint, and g gives the sum of f over each of them.
PartSums(f, I, P, g) ==
  /\ IsFiniteSet(I)
  /\ \A i \in I : IsFiniteSet(P[i]) /\ \A x \in P[i] : f[x] \in Int
  /\ \A i, j \in I : i # j => P[i] \cap P[j] = {}
  /\ \A i \in I : g[i] = SumOf(f, P[i])

\* A sum over the union of disjoint sets is the sum of the sums over each.
LEMMA SumFamily ==
  ASSUME NEW f, NEW I, NEW P, NEW g, PartSums(f, I, P, g)
  PROVE  IsFiniteSet(UnionOf(P, I)) /\ SumOf(f, UnionOf(P, I)) = SumOf(g, I)
<1> USE DEF PartSums
<1> DEFINE All(J) == UNION {P[i] : i \in J}
           G == {J \in SUBSET I : IsFiniteSet(All(J)) /\ SumOf(f, All(J)) = SumOf(g, J)}
<1>1. {} \in G
  <2>1. All({}) = {}
    OBVIOUS
  <2> HIDE DEF All
  <2> QED BY <2>1, SumEmpty, FS_EmptySet
<1>2. ASSUME NEW J \in SUBSET I, NEW e \in I \ J, J \in G
      PROVE  J \cup {e} \in G
  <2>1. All(J \cup {e}) = All(J) \cup P[e] /\ All(J) \cap P[e] = {}
    OBVIOUS
  <2>2. \A x \in All(J) \cup P[e] : f[x] \in Int
    OBVIOUS
  <2>3. \A i \in J \cup {e} : g[i] \in Int
    <3> TAKE i \in J \cup {e}
    <3>1. i \in I
      OBVIOUS
    <3> QED BY <3>1, SumInt
  <2>4. IsFiniteSet(All(J)) /\ IsFiniteSet(P[e]) /\ SumOf(f, All(J)) = SumOf(g, J)
    BY <1>2
  <2> DEFINE U == All(J)
             V == All(J \cup {e})
             W == P[e]
  <2> HIDE DEF All, U, V, W
  <2>5. V = U \cup W /\ U \cap W = {} /\ IsFiniteSet(U) /\ IsFiniteSet(W)
        /\ \A x \in U \cup W : f[x] \in Int
    BY <2>1, <2>2, <2>4 DEF U, V, W
  <2>6. IsFiniteSet(V) /\ SumOf(f, V) = SumOf(f, U) + SumOf(f, W)
    <3>1. IsFiniteSet(U \cup W)
      BY <2>5, FS_Union
    <3>2. SumOf(f, U \cup W) = SumOf(f, U) + SumOf(f, W)
      BY <2>5, SumUnion
    <3> QED BY <2>5, <3>1, <3>2
  <2>7. IsFiniteSet(All(J \cup {e}))
    BY <2>6 DEF V
  <2>8. SumOf(f, All(J \cup {e})) = SumOf(f, All(J)) + SumOf(f, P[e])
    BY <2>6 DEF U, V, W
  <2>9. IsFiniteSet(J) /\ e \notin J
    BY FS_Subset
  <2>10. SumOf(g, J \cup {e}) = g[e] + SumOf(g, J)
    BY <2>3, <2>9, SumAdd
  <2>11. g[e] = SumOf(f, P[e]) /\ g[e] \in Int /\ SumOf(g, J) \in Int
    BY <2>3, <2>9, SumInt
  <2>12. SumOf(f, All(J \cup {e})) = SumOf(g, J \cup {e})
    BY <2>4, <2>8, <2>10, <2>11
  <2> QED BY <2>7, <2>12
<1>3. SUBSET I \subseteq G
  <2> HIDE DEF G
  <2> QED BY <1>1, <1>2, SetInduction
<1>4. I \in G
  BY <1>3
<1> QED BY <1>4 DEF UnionOf

\* One value is changed.
LEMMA SumChange ==
  ASSUME NEW f, NEW g, NEW S, IsFiniteSet(S), NEW e \in S,
         \A x \in S : f[x] \in Int /\ g[x] \in Int,
         \A x \in S \ {e} : g[x] = f[x]
  PROVE  SumOf(g, S) = SumOf(f, S) - f[e] + g[e]
<1> DEFINE R == S \ {e}
<1>1. IsFiniteSet(R) /\ \A x \in R : f[x] \in Int /\ g[x] \in Int /\ f[x] = g[x]
  BY FS_Subset
<1>2. SumOf(f, S) = f[e] + SumOf(f, R) /\ SumOf(g, S) = g[e] + SumOf(g, R)
  BY SumRemove
<1>3. SumOf(f, R) = SumOf(g, R) /\ SumOf(f, R) \in Int
  <2> HIDE DEF R
  <2> QED BY <1>1, SumSame, SumInt
<1>4. f[e] \in Int /\ g[e] \in Int
  OBVIOUS
<1> HIDE DEF R
<1> QED BY <1>2, <1>3, <1>4

\* A common factor of all values.
LEMMA SumScale ==
  ASSUME NEW k \in Int, NEW f, NEW g, NEW S, IsFiniteSet(S),
         \A x \in S : f[x] \in Int /\ g[x] = k * f[x]
  PROVE  SumOf(g, S) = k * SumOf(f, S)
<1> DEFINE G == {T \in SUBSET S : SumOf(g, T) = k * SumOf(f, T)}
<1>1. {} \in G
  BY SumEmpty
<1>2. ASSUME NEW T \in SUBSET S, NEW e \in S \ T, T \in G
      PROVE  T \cup {e} \in G
  <2>1. IsFiniteSet(T) /\ T \cup {e} \in SUBSET S /\ e \notin T
    BY FS_Subset
  <2>2. \A x \in T \cup {e} : f[x] \in Int /\ g[x] \in Int
    OBVIOUS
  <2>3. /\ SumOf(f, T \cup {e}) = f[e] + SumOf(f, T)
        /\ SumOf(g, T \cup {e}) = g[e] + SumOf(g, T)
    BY <2>1, <2>2, SumAdd
  <2>4. SumOf(f, T) \in Int
    BY <2>1, <2>2, SumInt
  <2>5. f[e] \in Int /\ g[e] = k * f[e] /\ SumOf(g, T) = k * SumOf(f, T)
    BY <1>2
  <2>6. \A a, b \in Int : k * (a + b) = k * a + k * b
    OBVIOUS
  <2>7. SumOf(g, T \cup {e}) = k * SumOf(f, T \cup {e})
    BY <2>3, <2>4, <2>5, <2>6
  <2> QED BY <2>1, <2>7
<1>3. SUBSET S \subseteq G
  <2> HIDE DEF G
  <2> QED BY <1>1, <1>2, SetInduction
<1> QED BY <1>3

\* Values up to a bound.
LEMMA SumBound ==
  ASSUME NEW k \in Int, NEW f, NEW S, IsFiniteSet(S), \A x \in S : f[x] \in Int /\ f[x] <= k
  PROVE  SumOf(f, S) <= k * Cardinality(S)
<1> DEFINE G == {T \in SUBSET S : SumOf(f, T) <= k * Cardinality(T)}
<1>1. {} \in G
  BY SumEmpty, FS_EmptySet
<1>2. ASSUME NEW T \in SUBSET S, NEW e \in S \ T, T \in G
      PROVE  T \cup {e} \in G
  <2>1. IsFiniteSet(T) /\ T \cup {e} \in SUBSET S /\ e \notin T
    BY FS_Subset
  <2>2. SumOf(f, T \cup {e}) = f[e] + SumOf(f, T)
    BY <2>1, SumAdd
  <2>3. SumOf(f, T) \in Int
    BY <2>1, SumInt
  <2>4. Cardinality(T \cup {e}) = Cardinality(T) + 1 /\ Cardinality(T) \in Nat
    BY <2>1, FS_AddElement, FS_CardinalityType
  <2>5. f[e] \in Int /\ f[e] <= k /\ SumOf(f, T) <= k * Cardinality(T)
    BY <1>2
  <2>6. \A a \in Int : k * (a + 1) = k * a + k /\ k * a \in Int
    OBVIOUS
  <2>7. SumOf(f, T \cup {e}) <= k * Cardinality(T \cup {e})
    BY <2>2, <2>3, <2>4, <2>5, <2>6
  <2> QED BY <2>1, <2>7
<1>3. SUBSET S \subseteq G
  <2> HIDE DEF G
  <2> QED BY <1>1, <1>2, SetInduction
<1> QED BY <1>3

\* Values of at least one.
LEMMA SumPositive ==
  ASSUME NEW f, NEW S, IsFiniteSet(S), \A x \in S : f[x] \in Int /\ f[x] >= 1
  PROVE  SumOf(f, S) >= Cardinality(S)
<1> DEFINE g == [x \in S |-> (-1) * f[x]]
<1>1. \A x \in S : f[x] \in Int /\ g[x] = (-1) * f[x] /\ g[x] \in Int /\ g[x] <= -1
  OBVIOUS
<1>2. -1 \in Int /\ SumOf(f, S) \in Int /\ Cardinality(S) \in Nat
  BY SumInt, FS_CardinalityType
<1>3. SumOf(g, S) = (-1) * SumOf(f, S) /\ SumOf(g, S) <= (-1) * Cardinality(S)
  <2> HIDE DEF g
  <2> QED BY <1>1, <1>2, SumScale, SumBound
<1> QED BY <1>2, <1>3

\* The elements of D to which w gives m.
Having(D, w, m) == {i \in D : w[i] = m}

\* The numbers of the elements with each value add up to the number of elements.
LEMMA SumCounts ==
  ASSUME NEW M, IsFiniteSet(M), NEW D, IsFiniteSet(D), NEW w, \A i \in D : w[i] \in M,
         NEW n, \A m \in M : n[m] = Cardinality(Having(D, w, m))
  PROVE  (\A m \in M : n[m] \in Nat) /\ SumOf(n, M) = Cardinality(D)
<1> DEFINE Counts(T) == [m \in M |-> Cardinality(Having(T, w, m))]
           G == {T \in SUBSET D : SumOf(Counts(T), M) = Cardinality(T)}
<1>0. \A T \in SUBSET D : \A m \in M : IsFiniteSet(Having(T, w, m)) /\ Counts(T)[m] \in Nat
  <2> SUFFICES ASSUME NEW T \in SUBSET D, NEW m \in M
               PROVE  IsFiniteSet(Having(T, w, m)) /\ Counts(T)[m] \in Nat
    OBVIOUS
  <2>1. Having(T, w, m) \in SUBSET D
    BY DEF Having
  <2>2. IsFiniteSet(Having(T, w, m))
    BY <2>1, FS_Subset
  <2> QED BY <2>2, FS_CardinalityType
<1>1. {} \in G
  <2>1. \A m \in M : Having({}, w, m) = {}
    BY DEF Having
  <2>2. \A m \in M : Counts({})[m] = 0
    BY <2>1, FS_EmptySet
  <2>3. SumOf(Counts({}), M) = 0
    <3> HIDE DEF Counts
    <3> QED BY <2>2, SumZero
  <2> QED BY <2>3, FS_EmptySet
<1>2. ASSUME NEW T \in SUBSET D, NEW e \in D \ T, T \in G
      PROVE  T \cup {e} \in G
  <2> DEFINE f == Counts(T)
             g == Counts(T \cup {e})
  <2>1. IsFiniteSet(T) /\ T \cup {e} \in SUBSET D /\ e \notin T /\ w[e] \in M
    BY FS_Subset
  <2>3. \A m \in M : f[m] \in Int /\ g[m] \in Int
    BY <1>0, <2>1
  <2>4. \A m \in M \ {w[e]} : g[m] = f[m]
    <3> SUFFICES ASSUME NEW m \in M \ {w[e]} PROVE Having(T \cup {e}, w, m) = Having(T, w, m)
      OBVIOUS
    <3> QED BY DEF Having
  <2>5. g[w[e]] = f[w[e]] + 1
    <3>1. /\ Having(T \cup {e}, w, w[e]) = Having(T, w, w[e]) \cup {e}
          /\ e \notin Having(T, w, w[e])
      BY <2>1 DEF Having
    <3>2. Cardinality(Having(T, w, w[e]) \cup {e}) = Cardinality(Having(T, w, w[e])) + 1
      BY <1>0, <2>1, <3>1, FS_AddElement
    <3> QED BY <2>1, <3>1, <3>2
  <2>6. SumOf(g, M) = SumOf(f, M) - f[w[e]] + g[w[e]]
    <3> HIDE DEF f, g
    <3> QED BY <2>1, <2>3, <2>4, SumChange
  <2>7. SumOf(f, M) \in Int /\ f[w[e]] \in Int
    <3>1. \A m \in M : f[m] \in Int
      BY <2>3
    <3> HIDE DEF f
    <3> QED BY <2>1, <3>1, SumInt
  <2>8. SumOf(f, M) = Cardinality(T)
    BY <1>2
  <2>9. SumOf(g, M) = Cardinality(T) + 1
    <3> HIDE DEF f, g
    <3> QED BY <2>5, <2>6, <2>7, <2>8
  <2>10. Cardinality(T \cup {e}) = Cardinality(T) + 1
    BY <2>1, FS_AddElement
  <2> QED BY <2>1, <2>9, <2>10
<1>3. SUBSET D \subseteq G
  <2> HIDE DEF G
  <2> QED BY <1>1, <1>2, SetInduction
<1>4. SumOf(n, M) = SumOf(Counts(D), M) /\ \A m \in M : n[m] \in Nat
  <2>1. \A m \in M : n[m] = Counts(D)[m] /\ n[m] \in Int /\ n[m] \in Nat
    BY <1>0
  <2> HIDE DEF Counts
  <2> QED BY <2>1, SumSame
<1> QED BY <1>3, <1>4

\* A division rounds down, by less than one.
LEMMA DivLeaves ==
  ASSUME NEW a \in Nat, NEW d \in Nat \ {0}, NEW q, q = a \div d
  PROVE  q \in Nat /\ d * q <= a /\ a <= d * q + (d - 1)
<1>1. q \in Int /\ a % d \in 0..(d - 1) /\ a = d * q + (a % d)
  OBVIOUS
<1>2. q \in Nat
  OBVIOUS
<1>3. d * q \in Int
  BY <1>1
<1> QED BY <1>1, <1>2, <1>3

\* A is divided in proportion to n, and each part is rounded down: the parts do
\* not exceed A, and less than one unit for each part is left over.
LEMMA SumRounded ==
  ASSUME NEW A \in Nat, NEW n, NEW q, NEW S, IsFiniteSet(S), S # {}, NEW L \in Nat \ {0},
         \A x \in S : n[x] \in Nat /\ q[x] \in Nat, SumOf(n, S) = L,
         \A x \in S : L * q[x] <= A * n[x] /\ A * n[x] <= L * q[x] + (L - 1)
  PROVE  SumOf(q, S) \in Nat /\ SumOf(q, S) <= A /\ SumOf(q, S) > A - Cardinality(S)
<1> DEFINE a == [x \in S |-> A * n[x]]
           b == [x \in S |-> L * q[x]]
           r == [x \in S |-> a[x] - b[x]]
<1>1. \A x \in S : a[x] \in Int /\ b[x] \in Int
  OBVIOUS
<1>2. \A x \in S : r[x] \in Int /\ 0 <= r[x] /\ r[x] <= L - 1
  <2> SUFFICES ASSUME NEW x \in S PROVE r[x] \in Int /\ 0 <= r[x] /\ r[x] <= L - 1
    OBVIOUS
  <2>1. a[x] \in Int /\ b[x] \in Int /\ b[x] <= a[x] /\ a[x] <= b[x] + (L - 1)
        /\ r[x] = a[x] - b[x]
    BY <1>1
  <2> HIDE DEF a, b, r
  <2> QED BY <2>1
<1>3. \A x \in S : a[x] = b[x] + r[x]
  <2> SUFFICES ASSUME NEW x \in S PROVE a[x] = b[x] + r[x]
    OBVIOUS
  <2>1. a[x] \in Int /\ b[x] \in Int /\ r[x] = a[x] - b[x]
    BY <1>1
  <2> HIDE DEF a, b, r
  <2> QED BY <2>1
<1>4. SumOf(a, S) = A * SumOf(n, S)
  <2>1. A \in Int /\ \A x \in S : n[x] \in Int /\ a[x] = A * n[x]
    OBVIOUS
  <2> HIDE DEF a
  <2> QED BY <2>1, SumScale
<1>5. SumOf(b, S) = L * SumOf(q, S)
  <2>1. L \in Int /\ \A x \in S : q[x] \in Int /\ b[x] = L * q[x]
    BY <1>1
  <2> HIDE DEF b
  <2> QED BY <2>1, SumScale
<1>6. SumOf(a, S) = SumOf(b, S) + SumOf(r, S)
  <2> HIDE DEF a, b, r
  <2> QED BY <1>1, <1>2, <1>3, SumPlus
<1>7. SumOf(r, S) \in Nat /\ SumOf(r, S) <= (L - 1) * Cardinality(S)
  <2>1. L - 1 \in Int /\ \A x \in S : r[x] \in Nat
    BY <1>2
  <2> HIDE DEF r
  <2> QED BY <1>2, <2>1, SumNat, SumBound
<1>8. SumOf(q, S) \in Nat
  BY SumNat
<1>9. Cardinality(S) \in Nat /\ Cardinality(S) # 0
  BY FS_CardinalityType, FS_EmptySet
<1> DEFINE Q == SumOf(q, S)
           R == SumOf(r, S)
           C == Cardinality(S)
<1>10. A * L = L * Q + R /\ Q \in Nat /\ R \in Nat /\ R <= (L - 1) * C /\ C \in Nat /\ C > 0
  BY <1>4, <1>5, <1>6, <1>7, <1>8, <1>9
<1> HIDE DEF Q, R, C
<1>11. Q <= A
  <2> SUFFICES ASSUME Q >= A + 1 PROVE FALSE
    BY <1>10
  <2>1. L * Q >= L * (A + 1)
    BY <1>10
  <2>2. L * (A + 1) = A * L + L
    OBVIOUS
  <2> QED BY <1>10, <2>1, <2>2
<1>12. Q > A - C
  <2> SUFFICES ASSUME Q + C <= A PROVE FALSE
    BY <1>10
  <2>1. L * (Q + C) <= L * A
    BY <1>10
  <2>2. L * (Q + C) = L * Q + L * C /\ (L - 1) * C = L * C - C /\ L * A = A * L
    BY <1>10
  <2>3. L * Q \in Int /\ L * C \in Int /\ A * L \in Int
    BY <1>10
  <2> QED BY <1>10, <2>1, <2>2, <2>3
<1> QED BY <1>10, <1>11, <1>12 DEF Q, C

\* The same for the division that rounds down.
LEMMA SumShares ==
  ASSUME NEW A \in Nat, NEW n, NEW q, NEW S, IsFiniteSet(S), S # {}, NEW L \in Nat \ {0},
         \A x \in S : n[x] \in Nat, SumOf(n, S) = L,
         \A x \in S : q[x] = (A * n[x]) \div L
  PROVE  SumOf(q, S) \in Nat /\ SumOf(q, S) <= A /\ SumOf(q, S) > A - Cardinality(S)
<1>1. ASSUME NEW x \in S
      PROVE  q[x] \in Nat /\ L * q[x] <= A * n[x] /\ A * n[x] <= L * q[x] + (L - 1)
  <2> DEFINE y == A * n[x]
  <2>1. y \in Nat
    OBVIOUS
  <2>2. q[x] = y \div L
    OBVIOUS
  <2>3. q[x] \in Nat /\ L * q[x] <= y /\ y <= L * q[x] + (L - 1)
    <3> HIDE DEF y
    <3> QED BY <2>1, <2>2, DivLeaves
  <2> QED BY <2>3
<1> QED BY <1>1, SumRounded
=============================================================================
