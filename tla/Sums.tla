-------------------------------- MODULE Sums --------------------------------
(***************************************************************************)
(* What the sums of the models do, for every finite set: the lemmas that   *)
(* the proofs about balances and counts rest on, and those about sorted    *)
(* lists and ranks that settling up needs.  A sum is the community         *)
(* modules' fold of + over a set, whose elements are taken in an order     *)
(* nobody knows; the lemmas show that the order does not matter.  What     *)
(* would be an induction is an argument about a smallest set for which the *)
(* claim fails.                                                            *)
(***************************************************************************)
EXTENDS Integers, FiniteSets, FiniteSetsExt, Functions, FiniteSetTheorems, WellFoundedInduction, TLAPS

-----------------------------------------------------------------------------
(* The smallest counterexample.                                            *)

\* Among some subsets of a finite set there is one of which no proper subset
\* is among them.
LEMMA SmallestSet ==
    ASSUME NEW S, IsFiniteSet(S), NEW Bad \in SUBSET SUBSET S, Bad # {}
    PROVE  \E T \in Bad : \A U \in Bad : U \subseteq T => U = T
<1>1. Bad \subseteq FiniteSubsetsOf(S)
  BY FS_FiniteSubsetsOfFinite
<1>2. \E T \in Bad : \A U \in Bad : ~ (<<U, T>> \in StrictSubsetOrdering(S))
  BY <1>1, FS_StrictSubsetOrderingWellFounded, WFMin
<1>. QED
  BY <1>2 DEF StrictSubsetOrdering

-----------------------------------------------------------------------------
(* The recursion a sum is defined by.                                      *)

Taken(s) == CHOOSE x \in s : TRUE

\* g is the function by which the sum of f over S is computed.
SumsUp(g, f, S) ==
    g = [s \in SUBSET S |-> IF s = {} THEN 0 ELSE f[Taken(s)] + g[s \ {Taken(s)}]]

\* Two such functions agree where both are defined.
LEMMA SumsUpOnce ==
    ASSUME NEW f, NEW S, IsFiniteSet(S), NEW T \in SUBSET S, NEW g, NEW h,
           SumsUp(g, f, S), SumsUp(h, f, T)
    PROVE  \A s \in SUBSET T : g[s] = h[s]
<1>. DEFINE Bad == {s \in SUBSET T : g[s] # h[s]}
<1>. SUFFICES ASSUME Bad # {} PROVE FALSE
  OBVIOUS
<1>1. IsFiniteSet(T)
  BY FS_Subset
<1>2. PICK s \in Bad : \A U \in Bad : U \subseteq s => U = s
  <2>. Bad \in SUBSET SUBSET T
    OBVIOUS
  <2>. HIDE DEF Bad
  <2>. QED
    BY <1>1, SmallestSet
<1>3. CASE s = {}
  BY <1>2, <1>3 DEF SumsUp
<1>4. CASE s # {}
  <2>1. Taken(s) \in s
    BY <1>4 DEF Taken
  <2>2. g[s \ {Taken(s)}] = h[s \ {Taken(s)}]
    BY <2>1, <1>2
  <2>3. s \in SUBSET S /\ s \in SUBSET T
    BY <1>2
  <2>4. g[s] = f[Taken(s)] + g[s \ {Taken(s)}]
    BY <1>4, <2>3 DEF SumsUp
  <2>5. h[s] = f[Taken(s)] + h[s \ {Taken(s)}]
    BY <1>4, <2>3 DEF SumsUp
  <2>. QED
    BY <2>2, <2>4, <2>5, <1>2
<1>. QED
  BY <1>3, <1>4

\* There is such a function.
LEMMA SumsUpExists ==
    ASSUME NEW f, NEW S, IsFiniteSet(S)
    PROVE  \E g : SumsUp(g, f, S)
<1>. DEFINE Bad == {T \in SUBSET S : ~ \E g : SumsUp(g, f, T)}
<1>. SUFFICES ASSUME Bad # {} PROVE FALSE
  OBVIOUS
<1>1. PICK T \in Bad : \A U \in Bad : U \subseteq T => U = T
  <2>. Bad \in SUBSET SUBSET S
    OBVIOUS
  <2>. HIDE DEF Bad
  <2>. QED
    BY SmallestSet
<1>. DEFINE h == [U \in SUBSET S |-> CHOOSE g : SumsUp(g, f, U)]
<1>2. \A U \in SUBSET T : U # T => SumsUp(h[U], f, U)
  <2>. SUFFICES ASSUME NEW U \in SUBSET T, U # T PROVE SumsUp(h[U], f, U)
    OBVIOUS
  <2>1. \E g : SumsUp(g, f, U)
    BY <1>1
  <2>2. h[U] = CHOOSE g : SumsUp(g, f, U)
    OBVIOUS
  <2>. HIDE DEF h
  <2>. QED
    BY <2>1, <2>2
<1>. DEFINE under(s) == IF s = {} THEN 0 ELSE f[Taken(s)] + h[s \ {Taken(s)}][s \ {Taken(s)}]
            g == [s \in SUBSET T |-> under(s)]
<1>3. \A s \in SUBSET T : s # T => g[s] = h[s][s]
  <2>. SUFFICES ASSUME NEW s \in SUBSET T, s # T PROVE g[s] = h[s][s]
    OBVIOUS
  <2>1. SumsUp(h[s], f, s)
    BY <1>2
  <2>2. CASE s = {}
    BY <2>1, <2>2 DEF SumsUp
  <2>3. CASE s # {}
    <3>. DEFINE r == s \ {Taken(s)}
    <3>1. Taken(s) \in s
      BY <2>3 DEF Taken
    <3>2. r \in SUBSET s /\ r # T /\ r \in SUBSET T
      BY <3>1
    <3>3. SumsUp(h[r], f, r)
      BY <3>2, <1>2
    <3>4. IsFiniteSet(s)
      BY FS_Subset, <1>1
    <3>5. h[s][r] = h[r][r]
      <4>. HIDE DEF r, h
      <4>. QED
        BY <3>2, <3>3, <3>4, <2>1, SumsUpOnce
    <3>6. h[s][s] = f[Taken(s)] + h[s][r]
      <4>. HIDE DEF h
      <4>. QED
        BY <2>1, <2>3 DEF SumsUp
    <3>. QED
      BY <3>5, <3>6, <2>3
  <2>. QED
    BY <2>2, <2>3
<1>4. SumsUp(g, f, T)
  <2>1. ASSUME NEW s \in SUBSET T
        PROVE  under(s) = IF s = {} THEN 0 ELSE f[Taken(s)] + g[s \ {Taken(s)}]
    <3>1. CASE s = {}
      BY <3>1
    <3>2. CASE s # {}
      <4>1. Taken(s) \in s
        BY <3>2 DEF Taken
      <4>2. s \ {Taken(s)} \in SUBSET T /\ s \ {Taken(s)} # T
        BY <4>1
      <4>3. g[s \ {Taken(s)}] = h[s \ {Taken(s)}][s \ {Taken(s)}]
        BY <4>2, <1>3
      <4>. HIDE DEF g, h
      <4>. QED
        BY <3>2, <4>3
    <3>. QED
      BY <3>1, <3>2
  <2>. HIDE DEF under
  <2>. QED
    BY <2>1 DEF SumsUp
<1>. QED
  BY <1>1, <1>4

\* A sum is the value of that function.
LEMMA SumIsComputed ==
    ASSUME NEW f, NEW S, IsFiniteSet(S)
    PROVE  \E g : SumsUp(g, f, S) /\ SumFunctionOnSet(f, S) = g[S]
<1>. DEFINE iter == CHOOSE g : SumsUp(g, f, S)
<1>1. SumsUp(iter, f, S)
  BY SumsUpExists
<1>2. SumFunctionOnSet(f, S) = iter[S]
  BY DEF SumFunctionOnSet, FoldFunctionOnSet, MapThenFoldSet, SumsUp, Taken
<1>. QED
  BY <1>1, <1>2

\* ... and of any function that satisfies the same equations.
LEMMA SumIsFound ==
    ASSUME NEW f, NEW S, IsFiniteSet(S), NEW g, SumsUp(g, f, S)
    PROVE  SumFunctionOnSet(f, S) = g[S]
<1>1. PICK h : SumsUp(h, f, S) /\ SumFunctionOnSet(f, S) = h[S]
  BY SumIsComputed
<1>2. g[S] = h[S]
  BY <1>1, SumsUpOnce
<1>. QED
  BY <1>1, <1>2

-----------------------------------------------------------------------------
(* What a sum is, whatever the order its elements are taken in.            *)

LEMMA SumOfNothing ==
    ASSUME NEW f
    PROVE  SumFunctionOnSet(f, {}) = 0
<1>1. PICK g : SumsUp(g, f, {}) /\ SumFunctionOnSet(f, {}) = g[{}]
  BY FS_EmptySet, SumIsComputed
<1>. QED
  BY <1>1 DEF SumsUp

\* The first element taken, and the rest.
LEMMA SumTakes ==
    ASSUME NEW f, NEW S, IsFiniteSet(S), S # {}
    PROVE  /\ Taken(S) \in S
           /\ SumFunctionOnSet(f, S) = f[Taken(S)] + SumFunctionOnSet(f, S \ {Taken(S)})
<1>. DEFINE R == S \ {Taken(S)}
<1>1. Taken(S) \in S
  BY DEF Taken
<1>2. R \in SUBSET S /\ IsFiniteSet(R)
  BY FS_Subset
<1>3. PICK g : SumsUp(g, f, S) /\ SumFunctionOnSet(f, S) = g[S]
  BY SumIsComputed
<1>4. PICK h : SumsUp(h, f, R) /\ SumFunctionOnSet(f, R) = h[R]
  BY <1>2, SumIsComputed
<1>5. g[R] = h[R]
  <2>. HIDE DEF R
  <2>. QED
    BY <1>2, <1>3, <1>4, SumsUpOnce
<1>6. g[S] = f[Taken(S)] + g[R]
  BY <1>3 DEF SumsUp
<1>. QED
  BY <1>1, <1>3, <1>4, <1>5, <1>6

\* Integers have an integer sum.
LEMMA SumType ==
    ASSUME NEW S, IsFiniteSet(S), NEW f, \A x \in S : f[x] \in Int
    PROVE  SumFunctionOnSet(f, S) \in Int
<1>. DEFINE Bad == {T \in SUBSET S : SumFunctionOnSet(f, T) \notin Int}
<1>. SUFFICES ASSUME Bad # {} PROVE FALSE
  OBVIOUS
<1>1. PICK T \in Bad : \A U \in Bad : U \subseteq T => U = T
  <2>. Bad \in SUBSET SUBSET S
    OBVIOUS
  <2>. HIDE DEF Bad
  <2>. QED
    BY SmallestSet
<1>2. T # {}
  BY SumOfNothing
<1>3. IsFiniteSet(T)
  BY FS_Subset
<1>4. /\ Taken(T) \in T
      /\ SumFunctionOnSet(f, T) = f[Taken(T)] + SumFunctionOnSet(f, T \ {Taken(T)})
  BY <1>2, <1>3, SumTakes
<1>5. SumFunctionOnSet(f, T \ {Taken(T)}) \in Int
  BY <1>1, <1>4
<1>6. f[Taken(T)] \in Int
  BY <1>4
<1>. QED
  BY <1>4, <1>5, <1>6

\* Any element may be taken first.
LEMMA SumRemove ==
    ASSUME NEW S, IsFiniteSet(S), NEW f, \A x \in S : f[x] \in Int, NEW x \in S
    PROVE  SumFunctionOnSet(f, S) = f[x] + SumFunctionOnSet(f, S \ {x})
<1>. DEFINE Sum(T) == SumFunctionOnSet(f, T)
            Bad == {T \in SUBSET S : \E y \in T : Sum(T) # f[y] + Sum(T \ {y})}
<1>. SUFFICES ASSUME Bad # {} PROVE FALSE
  OBVIOUS
<1>1. PICK T \in Bad : \A U \in Bad : U \subseteq T => U = T
  <2>. Bad \in SUBSET SUBSET S
    OBVIOUS
  <2>. HIDE DEF Bad
  <2>. QED
    BY SmallestSet
<1>2. PICK y \in T : Sum(T) # f[y] + Sum(T \ {y})
  BY <1>1
<1>. DEFINE z == Taken(T)
<1>3. IsFiniteSet(T) /\ IsFiniteSet(T \ {y}) /\ IsFiniteSet(T \ {z}) /\ IsFiniteSet(T \ {y, z})
  <2>1. \A U \in SUBSET S : IsFiniteSet(U)
    BY FS_Subset
  <2>. HIDE DEF z
  <2>. QED
    BY <2>1
<1>4. z \in T /\ Sum(T) = f[z] + Sum(T \ {z})
  BY <1>2, <1>3, SumTakes
<1>5. y # z
  BY <1>2, <1>4
<1>. HIDE DEF z
<1>6. Sum(T \ {z}) = f[y] + Sum(T \ {y, z})
  <2>1. T \ {z} \notin Bad /\ y \in T \ {z} /\ T \ {z} \in SUBSET S
    BY <1>1, <1>4, <1>5
  <2>2. (T \ {z}) \ {y} = T \ {y, z}
    OBVIOUS
  <2>. HIDE DEF Sum
  <2>. QED
    BY <2>1, <2>2
<1>7. Sum(T \ {y}) = f[z] + Sum(T \ {y, z})
  <2>1. T \ {y} \notin Bad /\ z \in T \ {y} /\ T \ {y} \in SUBSET S
    BY <1>1, <1>4, <1>5
  <2>2. (T \ {y}) \ {z} = T \ {y, z}
    OBVIOUS
  <2>. HIDE DEF Sum
  <2>. QED
    BY <2>1, <2>2
<1>8. Sum(T \ {y, z}) \in Int
  <2>1. \A w \in T \ {y, z} : f[w] \in Int
    OBVIOUS
  <2>. QED
    BY <2>1, <1>3, SumType
<1>9. f[y] \in Int /\ f[z] \in Int
  BY <1>4
<1>. HIDE DEF Sum
<1>. QED
  BY <1>2, <1>4, <1>6, <1>7, <1>8, <1>9

LEMMA SumAdd ==
    ASSUME NEW S, IsFiniteSet(S), NEW f, NEW x, x \notin S, \A y \in S \cup {x} : f[y] \in Int
    PROVE  SumFunctionOnSet(f, S \cup {x}) = f[x] + SumFunctionOnSet(f, S)
<1>1. IsFiniteSet(S \cup {x})
  BY FS_AddElement
<1>2. SumFunctionOnSet(f, S \cup {x}) = f[x] + SumFunctionOnSet(f, (S \cup {x}) \ {x})
  BY <1>1, SumRemove
<1>3. (S \cup {x}) \ {x} = S
  OBVIOUS
<1>. QED
  BY <1>2, <1>3

LEMMA SumOfOne ==
    ASSUME NEW f, NEW x, f[x] \in Int
    PROVE  SumFunctionOnSet(f, {x}) = f[x]
<1>1. SumFunctionOnSet(f, {} \cup {x}) = f[x] + SumFunctionOnSet(f, {})
  BY FS_EmptySet, SumAdd
<1>2. {} \cup {x} = {x}
  OBVIOUS
<1>. QED
  BY <1>1, <1>2, SumOfNothing

LEMMA PartIsFinite ==
    ASSUME NEW S, IsFiniteSet(S), NEW T, T \subseteq S
    PROVE  IsFiniteSet(T)
  BY FS_Subset

LEMMA OneMoreIsFinite ==
    ASSUME NEW S, IsFiniteSet(S), NEW x
    PROVE  IsFiniteSet(S \cup {x})
  BY FS_AddElement

LEMMA SmallSetsAreFinite ==
    ASSUME NEW x, NEW y
    PROVE  IsFiniteSet({}) /\ IsFiniteSet({x}) /\ IsFiniteSet({x, y})
<1>1. IsFiniteSet({})
  BY FS_EmptySet
<1>2. IsFiniteSet({x})
  BY FS_Singleton
<1>3. IsFiniteSet({x} \cup {y})
  BY <1>2, FS_AddElement
<1>4. {x} \cup {y} = {x, y}
  OBVIOUS
<1>. QED
  BY <1>1, <1>2, <1>3, <1>4

LEMMA SumOfTwo ==
    ASSUME NEW f, NEW x, NEW y, x # y, f[x] \in Int, f[y] \in Int
    PROVE  SumFunctionOnSet(f, {x, y}) = f[x] + f[y]
<1>1. IsFiniteSet({x, y})
  BY SmallSetsAreFinite
<1>2. SumFunctionOnSet(f, {x, y}) = f[x] + SumFunctionOnSet(f, {x, y} \ {x})
  BY <1>1, SumRemove
<1>3. {x, y} \ {x} = {y}
  OBVIOUS
<1>4. SumFunctionOnSet(f, {y}) = f[y]
  BY SumOfOne
<1>. QED
  BY <1>2, <1>3, <1>4

-----------------------------------------------------------------------------
(* Sums of several functions.                                              *)

\* The sum of two functions' values is the sum of their sums.
LEMMA SumPlus ==
    ASSUME NEW S, IsFiniteSet(S), NEW f, NEW g, NEW h,
           \A x \in S : f[x] \in Int /\ g[x] \in Int /\ h[x] = f[x] + g[x]
    PROVE  SumFunctionOnSet(h, S) = SumFunctionOnSet(f, S) + SumFunctionOnSet(g, S)
<1>. DEFINE Sum(e, T) == SumFunctionOnSet(e, T)
            Bad == {T \in SUBSET S : Sum(h, T) # Sum(f, T) + Sum(g, T)}
<1>. SUFFICES ASSUME Bad # {} PROVE FALSE
  OBVIOUS
<1>1. PICK T \in Bad : \A U \in Bad : U \subseteq T => U = T
  <2>. Bad \in SUBSET SUBSET S
    OBVIOUS
  <2>. HIDE DEF Bad
  <2>. QED
    BY SmallestSet
<1>2. T # {}
  <2>. SUFFICES ASSUME T = {} PROVE FALSE
    OBVIOUS
  <2>1. Sum(f, T) = 0
    BY SumOfNothing
  <2>2. Sum(g, T) = 0
    BY SumOfNothing
  <2>3. Sum(h, T) = 0
    BY SumOfNothing
  <2>4. Sum(h, T) # Sum(f, T) + Sum(g, T)
    OBVIOUS
  <2>. HIDE DEF Sum
  <2>. QED
    BY <2>1, <2>2, <2>3, <2>4
<1>3. IsFiniteSet(T)
  BY FS_Subset
<1>4. PICK z \in T : TRUE
  BY <1>2
<1>5. /\ Sum(f, T) = f[z] + Sum(f, T \ {z})
      /\ Sum(g, T) = g[z] + Sum(g, T \ {z})
      /\ Sum(h, T) = h[z] + Sum(h, T \ {z})
  <2>1. \A x \in T : f[x] \in Int /\ g[x] \in Int /\ h[x] \in Int
    OBVIOUS
  <2>. QED
    BY <1>3, <2>1, SumRemove
<1>6. Sum(f, T \ {z}) \in Int /\ Sum(g, T \ {z}) \in Int
  <2>1. IsFiniteSet(T \ {z})
    BY <1>3, FS_RemoveElement
  <2>2. \A x \in T \ {z} : f[x] \in Int /\ g[x] \in Int
    OBVIOUS
  <2>. QED
    BY <2>1, <2>2, SumType
<1>7. Sum(h, T \ {z}) = Sum(f, T \ {z}) + Sum(g, T \ {z})
  BY <1>1, <1>4
<1>8. f[z] \in Int /\ g[z] \in Int /\ h[z] = f[z] + g[z]
  OBVIOUS
<1>. HIDE DEF Sum
<1>. QED
  BY <1>1, <1>5, <1>6, <1>7, <1>8

\* What is zero everywhere sums to zero.
LEMMA SumOfZeros ==
    ASSUME NEW S, IsFiniteSet(S), NEW f, \A x \in S : f[x] = 0
    PROVE  SumFunctionOnSet(f, S) = 0
<1>1. PICK s \in Int : s = SumFunctionOnSet(f, S)
  BY SumType
<1>2. SumFunctionOnSet(f, S) = SumFunctionOnSet(f, S) + SumFunctionOnSet(f, S)
  BY SumPlus
<1>3. s = s + s
  BY <1>1, <1>2
<1>4. s = 0
  BY <1>3
<1>. QED
  BY <1>1, <1>4

\* A sum is that of the values on the set.
LEMMA SumSame ==
    ASSUME NEW S, IsFiniteSet(S), NEW f, NEW g, \A x \in S : f[x] \in Int /\ g[x] = f[x]
    PROVE  SumFunctionOnSet(g, S) = SumFunctionOnSet(f, S)
<1>. DEFINE zero == [x \in S |-> 0]
<1>1. SumFunctionOnSet(zero, S) = 0
  BY SumOfZeros
<1>2. SumFunctionOnSet(g, S) = SumFunctionOnSet(f, S) + SumFunctionOnSet(zero, S)
  <2>1. \A x \in S : f[x] \in Int /\ zero[x] \in Int /\ g[x] = f[x] + zero[x]
    OBVIOUS
  <2>. HIDE DEF zero
  <2>. QED
    BY <2>1, SumPlus
<1>3. SumFunctionOnSet(f, S) \in Int
  BY SumType
<1>. QED
  BY <1>1, <1>2, <1>3

\* If one value changes, so does the sum.
LEMMA SumChange ==
    ASSUME NEW S, IsFiniteSet(S), NEW f, NEW g, NEW x \in S,
           \A y \in S : f[y] \in Int /\ g[y] \in Int,
           \A y \in S \ {x} : g[y] = f[y]
    PROVE  SumFunctionOnSet(g, S) = SumFunctionOnSet(f, S) + (g[x] - f[x])
<1>1. /\ SumFunctionOnSet(g, S) = g[x] + SumFunctionOnSet(g, S \ {x})
      /\ SumFunctionOnSet(f, S) = f[x] + SumFunctionOnSet(f, S \ {x})
  BY SumRemove
<1>2. IsFiniteSet(S \ {x})
  BY FS_RemoveElement
<1>3. SumFunctionOnSet(g, S \ {x}) = SumFunctionOnSet(f, S \ {x})
  BY <1>2, SumSame
<1>4. SumFunctionOnSet(f, S \ {x}) \in Int
  BY <1>2, SumType
<1>. QED
  BY <1>1, <1>3, <1>4

\* What is zero outside a subset has the subset's sum.
LEMMA SumOnSubset ==
    ASSUME NEW S, IsFiniteSet(S), NEW A \in SUBSET S, NEW f,
           \A x \in A : f[x] \in Int, \A x \in S \ A : f[x] = 0
    PROVE  SumFunctionOnSet(f, S) = SumFunctionOnSet(f, A)
<1>. DEFINE Sum(T) == SumFunctionOnSet(f, T)
            Bad == {T \in SUBSET S : A \subseteq T /\ Sum(T) # Sum(A)}
<1>. SUFFICES ASSUME Bad # {} PROVE FALSE
  OBVIOUS
<1>1. PICK T \in Bad : \A U \in Bad : U \subseteq T => U = T
  <2>. Bad \in SUBSET SUBSET S
    OBVIOUS
  <2>. HIDE DEF Bad
  <2>. QED
    BY SmallestSet
<1>2. PICK z \in T : z \notin A
  <2>1. A \subseteq T /\ T # A
    OBVIOUS
  <2>. QED
    BY <2>1
<1>3. IsFiniteSet(T) /\ IsFiniteSet(T \ {z})
  BY FS_Subset
<1>4. Sum(T) = f[z] + Sum(T \ {z})
  BY <1>3, SumRemove
<1>5. Sum(T \ {z}) = Sum(A)
  BY <1>1, <1>2
<1>6. f[z] = 0 /\ Sum(A) \in Int
  <2>1. IsFiniteSet(A)
    BY FS_Subset
  <2>. QED
    BY <2>1, <1>2, SumType
<1>. HIDE DEF Sum
<1>. QED
  BY <1>1, <1>4, <1>5, <1>6
\* A multiple of every value gives the multiple of the sum.
LEMMA SumScale ==
    ASSUME NEW S, IsFiniteSet(S), NEW f, NEW g, NEW c \in Int,
           \A x \in S : f[x] \in Int /\ g[x] = c * f[x]
    PROVE  SumFunctionOnSet(g, S) = c * SumFunctionOnSet(f, S)
<1>. DEFINE Sum(e, T) == SumFunctionOnSet(e, T)
            Bad == {T \in SUBSET S : Sum(g, T) # c * Sum(f, T)}
<1>. SUFFICES ASSUME Bad # {} PROVE FALSE
  OBVIOUS
<1>1. PICK T \in Bad : \A U \in Bad : U \subseteq T => U = T
  <2>. Bad \in SUBSET SUBSET S
    OBVIOUS
  <2>. HIDE DEF Bad
  <2>. QED
    BY SmallestSet
<1>2. T # {}
  <2>. SUFFICES ASSUME T = {} PROVE FALSE
    OBVIOUS
  <2>1. Sum(f, T) = 0
    BY SumOfNothing
  <2>2. Sum(g, T) = 0
    BY SumOfNothing
  <2>3. Sum(g, T) # c * Sum(f, T)
    OBVIOUS
  <2>. HIDE DEF Sum
  <2>. QED
    BY <2>1, <2>2, <2>3
<1>3. IsFiniteSet(T)
  BY FS_Subset
<1>4. PICK z \in T : TRUE
  BY <1>2
<1>5. /\ Sum(f, T) = f[z] + Sum(f, T \ {z})
      /\ Sum(g, T) = g[z] + Sum(g, T \ {z})
  <2>1. \A x \in T : f[x] \in Int /\ g[x] \in Int
    OBVIOUS
  <2>. QED
    BY <1>3, <2>1, SumRemove
<1>6. Sum(f, T \ {z}) \in Int
  <2>1. IsFiniteSet(T \ {z})
    BY <1>3, FS_RemoveElement
  <2>2. \A x \in T \ {z} : f[x] \in Int
    OBVIOUS
  <2>. QED
    BY <2>1, <2>2, SumType
<1>7. Sum(g, T \ {z}) = c * Sum(f, T \ {z})
  BY <1>1, <1>4
<1>8. PICK a \in Int, b \in Int : a = f[z] /\ b = Sum(f, T \ {z})
  BY <1>6
<1>9. c * (a + b) = c * a + c * b
  OBVIOUS
<1>10. g[z] = c * a
  BY <1>8
<1>11. Sum(g, T) # c * Sum(f, T)
  OBVIOUS
<1>. HIDE DEF Sum
<1>. QED
  BY <1>5, <1>7, <1>8, <1>9, <1>10, <1>11

\* A sum of nothing negative is not negative, nor less than any of its parts.
LEMMA SumNotNegative ==
    ASSUME NEW S, IsFiniteSet(S), NEW f, \A x \in S : f[x] \in Nat
    PROVE  /\ SumFunctionOnSet(f, S) \in Nat
           /\ \A x \in S : f[x] <= SumFunctionOnSet(f, S)
<1>. DEFINE Bad == {T \in SUBSET S : SumFunctionOnSet(f, T) \notin Nat}
<1>1. Bad = {}
  <2>. SUFFICES ASSUME Bad # {} PROVE FALSE
    OBVIOUS
  <2>1. PICK T \in Bad : \A U \in Bad : U \subseteq T => U = T
    <3>. Bad \in SUBSET SUBSET S
      OBVIOUS
    <3>. HIDE DEF Bad
    <3>. QED
      BY SmallestSet
  <2>2. T # {}
    BY SumOfNothing
  <2>3. PICK z \in T : TRUE
    BY <2>2
  <2>4. IsFiniteSet(T)
    BY FS_Subset
  <2>5. SumFunctionOnSet(f, T) = f[z] + SumFunctionOnSet(f, T \ {z})
    BY <2>4, SumRemove
  <2>6. SumFunctionOnSet(f, T \ {z}) \in Nat
    BY <2>1, <2>3
  <2>. QED
    BY <2>5, <2>6
<1>2. \A T \in SUBSET S : SumFunctionOnSet(f, T) \in Nat
  BY <1>1
<1>3. ASSUME NEW x \in S
      PROVE  f[x] <= SumFunctionOnSet(f, S)
  <2>1. SumFunctionOnSet(f, S) = f[x] + SumFunctionOnSet(f, S \ {x})
    BY SumRemove
  <2>2. SumFunctionOnSet(f, S \ {x}) \in Nat
    BY <1>2
  <2>. QED
    BY <2>1, <2>2
<1>. QED
  BY <1>2, <1>3

\* What is smaller everywhere sums to no more.
LEMMA SumAtMost ==
    ASSUME NEW S, IsFiniteSet(S), NEW f, NEW g,
           \A x \in S : f[x] \in Int /\ g[x] \in Int /\ f[x] <= g[x]
    PROVE  SumFunctionOnSet(f, S) <= SumFunctionOnSet(g, S)
<1>1. PICK d : d = [x \in S |-> g[x] - f[x]]
  OBVIOUS
<1>2. \A x \in S : f[x] \in Int /\ d[x] \in Nat /\ g[x] = f[x] + d[x]
  BY <1>1
<1>3. SumFunctionOnSet(g, S) = SumFunctionOnSet(f, S) + SumFunctionOnSet(d, S)
  BY <1>2, SumPlus
<1>4. SumFunctionOnSet(d, S) \in Nat
  BY <1>2, SumNotNegative
<1>5. SumFunctionOnSet(f, S) \in Int
  BY SumType
<1>. QED
  BY <1>3, <1>4, <1>5

\* A sum of ones counts.
LEMMA SumOfOnes ==
    ASSUME NEW S, IsFiniteSet(S), NEW f, \A x \in S : f[x] = 1
    PROVE  SumFunctionOnSet(f, S) = Cardinality(S)
<1>. DEFINE Bad == {T \in SUBSET S : SumFunctionOnSet(f, T) # Cardinality(T)}
<1>. SUFFICES ASSUME Bad # {} PROVE FALSE
  OBVIOUS
<1>1. PICK T \in Bad : \A U \in Bad : U \subseteq T => U = T
  <2>. Bad \in SUBSET SUBSET S
    OBVIOUS
  <2>. HIDE DEF Bad
  <2>. QED
    BY SmallestSet
<1>2. T # {}
  BY SumOfNothing, FS_EmptySet
<1>3. PICK z \in T : TRUE
  BY <1>2
<1>4. IsFiniteSet(T) /\ Cardinality(T) \in Nat
  BY FS_Subset, FS_CardinalityType
<1>5. SumFunctionOnSet(f, T) = f[z] + SumFunctionOnSet(f, T \ {z})
  BY <1>4, SumRemove
<1>6. SumFunctionOnSet(f, T \ {z}) = Cardinality(T \ {z})
  BY <1>1, <1>3
<1>7. Cardinality(T \ {z}) = Cardinality(T) - 1
  BY <1>3, <1>4, FS_RemoveElement
<1>. QED
  BY <1>4, <1>5, <1>6, <1>7

-----------------------------------------------------------------------------
(* Sorting.                                                                *)

\* R, a set of pairs, orders the elements of S one after the other.
Orders(R, S) ==
    /\ \A x, y \in S : x # y => <<x, y>> \in R \/ <<y, x>> \in R
    /\ \A x, y \in S : ~(<<x, y>> \in R /\ <<y, x>> \in R)
    /\ \A x, y, z \in S : <<x, y>> \in R /\ <<y, z>> \in R => <<x, z>> \in R

\* One of the elements comes last.
LEMMA SomethingLast ==
    ASSUME NEW S, IsFiniteSet(S), NEW R, Orders(R, S), S # {}
    PROVE  \E m \in S : \A x \in S \ {m} : <<x, m>> \in R
<1>. DEFINE Last(T) == \E m \in T : \A x \in T \ {m} : <<x, m>> \in R
            Bad == {T \in SUBSET S : T # {} /\ ~Last(T)}
<1>. SUFFICES ASSUME Bad # {} PROVE FALSE
  OBVIOUS
<1>1. PICK T \in Bad : \A U \in Bad : U \subseteq T => U = T
  <2>. Bad \in SUBSET SUBSET S
    OBVIOUS
  <2>. HIDE DEF Bad
  <2>. QED
    BY SmallestSet
<1>2. PICK z \in T : TRUE
  OBVIOUS
<1>3. CASE T = {z}
  BY <1>3
<1>4. CASE T # {z}
  <2>1. Last(T \ {z})
    <3>1. T \ {z} \in SUBSET S /\ T \ {z} # {} /\ T \ {z} # T
      BY <1>2, <1>4
    <3>. HIDE DEF Last
    <3>. QED
      BY <1>1, <3>1
  <2>2. PICK m \in T \ {z} : \A x \in (T \ {z}) \ {m} : <<x, m>> \in R
    BY <2>1
  <2>3. CASE <<z, m>> \in R
    BY <2>2, <2>3
  <2>4. CASE <<m, z>> \in R
    <3>1. \A x \in T \ {z} : <<x, z>> \in R
      <4>1. \A x \in S : <<x, m>> \in R /\ <<m, z>> \in R => <<x, z>> \in R
        BY <1>2 DEF Orders
      <4>. QED
        BY <2>2, <2>4, <4>1
    <3>. QED
      BY <1>2, <3>1
  <2>. QED
    BY <1>2, <2>2, <2>3, <2>4 DEF Orders
<1>. QED
  BY <1>3, <1>4

\* All of them can be listed in that order.
LEMMA Listed ==
    ASSUME NEW S, IsFiniteSet(S), NEW R, Orders(R, S)
    PROVE  \E f \in [1..Cardinality(S) -> S] :
               \A i, j \in 1..Cardinality(S) : i < j => <<f[i], f[j]>> \in R
<1>. DEFINE List(T) == \E f \in [1..Cardinality(T) -> T] :
                           \A i, j \in 1..Cardinality(T) : i < j => <<f[i], f[j]>> \in R
            Bad == {T \in SUBSET S : ~List(T)}
<1>. SUFFICES ASSUME Bad # {} PROVE FALSE
  OBVIOUS
<1>1. PICK T \in Bad : \A U \in Bad : U \subseteq T => U = T
  <2>. Bad \in SUBSET SUBSET S
    OBVIOUS
  <2>. HIDE DEF Bad
  <2>. QED
    BY SmallestSet
<1>2. IsFiniteSet(T) /\ Cardinality(T) \in Nat
  BY FS_Subset, FS_CardinalityType
<1>3. CASE T = {}
  <2>1. Cardinality(T) = 0
    BY <1>3, FS_EmptySet
  <2>2. PICK f : f = [i \in 1..0 |-> 0]
    OBVIOUS
  <2>3. f \in [1..0 -> T] /\ \A i, j \in 1..0 : i < j => <<f[i], f[j]>> \in R
    BY <2>2
  <2>. QED
    BY <2>1, <2>3
<1>4. CASE T # {}
  <2>1. PICK m \in T : \A x \in T \ {m} : <<x, m>> \in R
    <3>1. Orders(R, T)
      BY DEF Orders
    <3>. QED
      BY <1>2, <1>4, <3>1, SomethingLast
  <2>. DEFINE U == T \ {m}
              n == Cardinality(T)
  <2>2. n \in Nat \ {0} /\ Cardinality(U) = n - 1
    <3>1. Cardinality(U) = n - 1
      BY <1>2, FS_RemoveElement
    <3>2. n # 0
      BY <1>2, <1>4, FS_EmptySet
    <3>. QED
      BY <1>2, <3>1, <3>2
  <2>3. PICK g \in [1..n - 1 -> U] : \A i, j \in 1..n - 1 : i < j => <<g[i], g[j]>> \in R
    <3>1. List(U)
      <4>1. U \in SUBSET S /\ U # T /\ U \subseteq T
        OBVIOUS
      <4>. HIDE DEF List, U
      <4>. QED
        BY <1>1, <4>1
    <3>. HIDE DEF n, U
    <3>. QED
      BY <2>2, <3>1
  <2>. DEFINE f == [i \in 1..n |-> IF i = n THEN m ELSE g[i]]
  <2>. HIDE DEF n
  <2>4. \A i \in 1..n : i # n => i \in 1..n - 1
    BY <2>2
  <2>5. f \in [1..n -> T]
    BY <2>2, <2>3, <2>4
  <2>6. ASSUME NEW i \in 1..n, NEW j \in 1..n, i < j
        PROVE  <<f[i], f[j]>> \in R
    <3>1. i # n /\ i \in 1..n - 1 /\ f[i] = g[i] /\ g[i] \in T \ {m}
      BY <2>2, <2>3, <2>6
    <3>2. CASE j = n
      BY <2>1, <3>1, <3>2
    <3>3. CASE j # n
      BY <2>3, <2>4, <2>6, <3>1, <3>3
    <3>. QED
      BY <3>2, <3>3
  <2>7. f \in [1..n -> T] /\ \A i, j \in 1..n : i < j => <<f[i], f[j]>> \in R
    BY <2>5, <2>6
  <2>. HIDE DEF f
  <2>. QED
    BY <2>7 DEF n
<1>. QED
  BY <1>3, <1>4

\* A list without repetition, as long as the set has elements, has them all.
LEMMA ListedAll ==
    ASSUME NEW S, IsFiniteSet(S), NEW f \in [1..Cardinality(S) -> S],
           \A i, j \in 1..Cardinality(S) : i # j => f[i] # f[j]
    PROVE  \A x \in S : \E i \in 1..Cardinality(S) : f[i] = x
<1>1. Cardinality(S) \in Nat
  BY FS_CardinalityType
<1>2. Cardinality(1..Cardinality(S)) = Cardinality(S)
  BY <1>1, FS_Interval
<1>3. f \in Injection(1..Cardinality(S), S)
  BY DEF Injection, IsInjective
<1>4. f \in Surjection(1..Cardinality(S), S)
  BY <1>2, <1>3, FS_Injection
<1>. QED
  BY <1>4 DEF Surjection
-----------------------------------------------------------------------------
(* The first so many of a set of integers.                                 *)

Rank(u, T) == Cardinality({v \in T : v < u})

\* Of two, the later has the higher rank.
LEMMA RankGrows ==
    ASSUME NEW S, IsFiniteSet(S), \A x \in S : x \in Int, NEW u \in S, NEW v \in S, u < v
    PROVE  Rank(u, S) \in Nat /\ Rank(v, S) \in Nat /\ Rank(u, S) <= Rank(v, S)
<1>. DEFINE A == {x \in S : x < u}
            B == {x \in S : x < v}
<1>1. A \in SUBSET B /\ B \in SUBSET S
  <2>2. ASSUME NEW x \in S, x < u PROVE x < v
    BY <2>2
  <2>. QED
    BY <2>2
<1>2. IsFiniteSet(A) /\ IsFiniteSet(B)
  <2>1. IsFiniteSet(B)
    BY <1>1, FS_Subset
  <2>. QED
    BY <1>1, <2>1, FS_Subset
<1>3. Cardinality(A) \in Nat /\ Cardinality(B) \in Nat /\ Cardinality(A) <= Cardinality(B)
  <2>. HIDE DEF A, B
  <2>. QED
    BY <1>1, <1>2, FS_Subset, FS_CardinalityType
<1>. QED
  BY <1>3 DEF Rank

\* Those whose rank is below r are r.
LEMMA SumOfRanks ==
    ASSUME NEW S, IsFiniteSet(S), \A x \in S : x \in Int, NEW r \in 0..Cardinality(S)
    PROVE  SumFunctionOnSet([u \in S |-> IF Rank(u, S) < r THEN 1 ELSE 0], S) = r
<1>. DEFINE First(T, k) == [u \in T |-> IF Rank(u, T) < k THEN 1 ELSE 0]
            Bad == {T \in SUBSET S : \E k \in 0..Cardinality(T) :
                      SumFunctionOnSet(First(T, k), T) # k}
<1>. SUFFICES ASSUME Bad # {} PROVE FALSE
  OBVIOUS
<1>1. PICK T \in Bad : \A U \in Bad : U \subseteq T => U = T
  <2>. Bad \in SUBSET SUBSET S
    OBVIOUS
  <2>. HIDE DEF Bad, First
  <2>. QED
    BY SmallestSet
<1>2. PICK k \in 0..Cardinality(T) : SumFunctionOnSet(First(T, k), T) # k
  BY <1>1
<1>3. IsFiniteSet(T) /\ Cardinality(T) \in Nat
  BY FS_Subset, FS_CardinalityType
<1>4. T # {}
  BY <1>2, <1>3, SumOfNothing, FS_EmptySet
<1>. HIDE DEF Bad, First
<1>. \A x \in T : x \in Int
  BY DEF Bad
<1>5. PICK m \in T : \A x \in T \ {m} : x < m
  <2>. DEFINE R == {p \in T \X T : p[1] < p[2]}
  <2>1. \A x, y \in T : <<x, y>> \in R <=> x < y
    OBVIOUS
  <2>2. \A x \in T : x \in Int
    OBVIOUS
  <2>. HIDE DEF R
  <2>3. Orders(R, T)
    BY <2>1, <2>2 DEF Orders
  <2>4. \E m \in T : \A x \in T \ {m} : <<x, m>> \in R
    <3>1. IsFiniteSet(T)
      BY <1>3
    <3>. QED
      BY <1>4, <2>3, <3>1, SomethingLast
  <2>. QED
    BY <2>1, <2>4
<1>. DEFINE U == T \ {m}
            n == Cardinality(T)
<1>6. IsFiniteSet(U) /\ Cardinality(U) = n - 1 /\ n \in Nat \ {0}
  <2>1. IsFiniteSet(U) /\ Cardinality(U) = n - 1
    BY <1>3, FS_RemoveElement
  <2>2. Cardinality(U) \in Nat
    BY <2>1, FS_CardinalityType
  <2>. QED
    BY <1>3, <2>1, <2>2
<1>7. Rank(m, T) = n - 1
  <2>1. \A v \in T : v < m <=> v # m
    BY <1>5
  <2>2. {v \in T : v < m} = U
    BY <2>1
  <2>. QED
    BY <1>6, <2>2 DEF Rank
<1>8. ASSUME NEW u \in U
      PROVE  Rank(u, T) = Rank(u, U) /\ Rank(u, U) \in Nat /\ Rank(u, U) < n - 1
  <2>1. {v \in T : v < u} = {v \in U : v < u}
    <3>1. ~(m < u)
      BY <1>5
    <3>. QED
      BY <3>1
  <2>2. {v \in U : v < u} \in SUBSET (U \ {u})
    OBVIOUS
  <2>3. IsFiniteSet(U \ {u}) /\ Cardinality(U \ {u}) = n - 2
    <3>. HIDE DEF U, n
    <3>1. IsFiniteSet(U \ {u}) /\ Cardinality(U \ {u}) = Cardinality(U) - 1
      BY <1>6, FS_RemoveElement
    <3>. QED
      BY <1>6, <3>1
  <2>4. PICK V : V = {v \in U : v < u}
    OBVIOUS
  <2>5. IsFiniteSet(V) /\ Cardinality(V) <= n - 2 /\ Cardinality(V) \in Nat
    <3>1. IsFiniteSet(V) /\ Cardinality(V) <= Cardinality(U \ {u})
      <4>. HIDE DEF U
      <4>. QED
        BY <2>2, <2>3, <2>4, FS_Subset
    <3>. QED
      BY <2>3, <3>1, FS_CardinalityType
  <2>. HIDE DEF U, n
  <2>. QED
    BY <1>6, <2>1, <2>4, <2>5 DEF Rank
<1>9. PICK f : f = First(T, k)
  OBVIOUS
<1>. \A x \in T : f[x] = IF Rank(x, T) < k THEN 1 ELSE 0
  BY <1>9 DEF First
<1>10. SumFunctionOnSet(f, T) = f[m] + SumFunctionOnSet(f, U)
  <2>1. \A x \in T : f[x] \in Int
    BY <1>9
  <2>. QED
    BY <1>3, <2>1, SumRemove
<1>11. ASSUME NEW j \in 0..n - 1
       PROVE  SumFunctionOnSet(First(U, j), U) = j
  <2>1. \A i \in 0..Cardinality(U) : SumFunctionOnSet(First(U, i), U) = i
    BY <1>1 DEF Bad
  <2>. HIDE DEF First, U, n
  <2>. QED
    BY <1>6, <2>1
<1>12. CASE k = n
  <2>1. f[m] = 1
    BY <1>6, <1>7, <1>9, <1>12
  <2>2. \A x \in U : f[x] = 1
    BY <1>6, <1>8, <1>9, <1>12
  <2>3. SumFunctionOnSet(f, U) = Cardinality(U)
    <3>. HIDE DEF U
    <3>. QED
      BY <1>6, <2>2, SumOfOnes
  <2>. QED
    BY <1>2, <1>6, <1>9, <1>10, <1>12, <2>1, <2>3
<1>13. CASE k # n
  <2>1. k \in 0..n - 1
    BY <1>6, <1>13
  <2>2. f[m] = 0
    BY <1>6, <1>7, <1>9, <2>1
  <2>3. PICK g : g = First(U, k)
    OBVIOUS
  <2>4. \A x \in U : f[x] \in Int /\ g[x] = f[x]
    BY <1>8, <2>3 DEF First
  <2>5. SumFunctionOnSet(g, U) = SumFunctionOnSet(f, U)
    <3>. HIDE DEF U
    <3>. QED
      BY <1>6, <2>4, SumSame
  <2>6. SumFunctionOnSet(g, U) = k
    <3>. HIDE DEF First, U, n
    <3>. QED
      BY <1>11, <2>1, <2>3
  <2>. QED
    BY <1>2, <1>9, <1>10, <2>1, <2>2, <2>5, <2>6
<1>. QED
  BY <1>12, <1>13

-----------------------------------------------------------------------------
(* Sets that are counted, and sums along a sequence.                       *)

\* One more term.
LEMMA SumOneMore ==
    ASSUME NEW n \in Nat, NEW f, NEW g,
           \A i \in 1..n : f[i] \in Int /\ g[i] = f[i], g[n + 1] \in Int
    PROVE  /\ SumFunctionOnSet(g, 1..n + 1) = SumFunctionOnSet(f, 1..n) + g[n + 1]
           /\ SumFunctionOnSet(f, 1..n) \in Int
<1>1. IsFiniteSet(1..n)
  BY FS_Interval
<1>2. SumFunctionOnSet(g, 1..n) = SumFunctionOnSet(f, 1..n)
  BY <1>1, SumSame
<1>3. SumFunctionOnSet(f, 1..n) \in Int
  BY <1>1, SumType
<1>4. 1..n + 1 = (1..n) \cup {n + 1} /\ n + 1 \notin 1..n
  OBVIOUS
<1>5. \A y \in (1..n) \cup {n + 1} : g[y] \in Int
  OBVIOUS
<1>6. SumFunctionOnSet(g, (1..n) \cup {n + 1}) = g[n + 1] + SumFunctionOnSet(g, 1..n)
  BY <1>1, <1>4, <1>5, SumAdd
<1>7. SumFunctionOnSet(g, 1..n + 1) = g[n + 1] + SumFunctionOnSet(f, 1..n)
  BY <1>2, <1>4, <1>6
<1>. QED
  BY <1>3, <1>7

\* The rows of a finite set of users.
LEMMA RowsAreFinite ==
    ASSUME NEW S, IsFiniteSet(S), NEW owed
    PROVE  IsFiniteSet({[user |-> u, cents |-> owed[u]] : u \in S})
<1>. DEFINE T == {[user |-> u, cents |-> owed[u]] : u \in S}
<1>1. PICK f : f = [u \in S |-> [user |-> u, cents |-> owed[u]]]
  OBVIOUS
<1>2. f \in Surjection(S, T)
  BY <1>1 DEF Surjection
<1>. HIDE DEF T
<1>3. IsFiniteSet(T)
  BY <1>2, FS_Surjection
<1>. QED
  BY <1>3 DEF T

\* A list that has every element of a set once counts it.
LEMMA ListCounts ==
    ASSUME NEW S, NEW n \in Nat, NEW f \in [1..n -> S],
           \A i, j \in 1..n : i # j => f[i] # f[j], \A x \in S : \E i \in 1..n : f[i] = x
    PROVE  IsFiniteSet(S) /\ Cardinality(S) = n
<1>1. f \in Surjection(1..n, S)
  BY DEF Surjection
<1>2. f \in Injection(1..n, S)
  BY DEF Injection, IsInjective
<1>3. IsFiniteSet(1..n) /\ Cardinality(1..n) = n
  BY FS_Interval
<1>. QED
  BY <1>1, <1>2, <1>3, FS_Surjection

\* The sizes of parts that have nothing in common add up.
LEMMA SumOfParts ==
    ASSUME NEW S, IsFiniteSet(S), NEW P, IsFiniteSet(P), NEW part, NEW f,
           \A i \in S : part[i] \subseteq P /\ f[i] = Cardinality(part[i]),
           \A i, j \in S : i # j => part[i] \cap part[j] = {}
    PROVE  SumFunctionOnSet(f, S) = Cardinality({d \in P : \E i \in S : d \in part[i]})
<1>. DEFINE Whole(T) == {d \in P : \E i \in T : d \in part[i]}
            Bad == {T \in SUBSET S : SumFunctionOnSet(f, T) # Cardinality(Whole(T))}
<1>. SUFFICES ASSUME Bad # {} PROVE FALSE
  OBVIOUS
<1>1. PICK T \in Bad : \A U \in Bad : U \subseteq T => U = T
  <2>. Bad \in SUBSET SUBSET S
    OBVIOUS
  <2>. HIDE DEF Bad
  <2>. QED
    BY SmallestSet
<1>2. T # {}
  <2>. SUFFICES ASSUME T = {} PROVE FALSE
    OBVIOUS
  <2>1. Whole(T) = {}
    OBVIOUS
  <2>2. SumFunctionOnSet(f, T) = 0 /\ Cardinality(Whole(T)) = 0
    <3>. HIDE DEF Whole, Bad
    <3>. QED
      BY <2>1, SumOfNothing, FS_EmptySet
  <2>. QED
    BY <2>2
<1>3. PICK z \in T : TRUE
  BY <1>2
<1>4. IsFiniteSet(T)
  BY FS_Subset
<1>. DEFINE U == T \ {z}
<1>5. SumFunctionOnSet(f, U) = Cardinality(Whole(U))
  <2>1. U \in SUBSET S /\ U \subseteq T /\ U # T
    BY <1>3
  <2>. QED
    BY <1>1, <2>1
<1>6. \A i \in T : f[i] \in Int
  <2>1. ASSUME NEW i \in T PROVE IsFiniteSet(part[i])
    <3>1. part[i] \in SUBSET P
      OBVIOUS
    <3>. QED
      BY <3>1, FS_Subset
  <2>2. ASSUME NEW i \in T PROVE Cardinality(part[i]) \in Nat
    BY <2>1, FS_CardinalityType
  <2>. QED
    BY <2>2
<1>7. SumFunctionOnSet(f, T) = f[z] + SumFunctionOnSet(f, U)
  BY <1>4, <1>6, SumRemove
<1>8. Whole(T) = Whole(U) \cup part[z] /\ Whole(U) \cap part[z] = {}
  OBVIOUS
<1>9. IsFiniteSet(Whole(U)) /\ IsFiniteSet(part[z])
  <2>1. Whole(U) \in SUBSET P /\ part[z] \in SUBSET P
    OBVIOUS
  <2>. HIDE DEF Whole, U
  <2>. QED
    BY <2>1, FS_Subset
<1>10. Cardinality(Whole(T)) = Cardinality(Whole(U)) + Cardinality(part[z])
  <2>. HIDE DEF Whole, U
  <2>1. Cardinality(Whole(U) \cup part[z])
          = Cardinality(Whole(U)) + Cardinality(part[z]) - Cardinality(Whole(U) \cap part[z])
    BY <1>9, FS_Union
  <2>2. Cardinality(Whole(U) \cap part[z]) = 0
    BY <1>8, FS_EmptySet
  <2>3. Cardinality(Whole(U)) \in Nat /\ Cardinality(part[z]) \in Nat
    BY <1>9, FS_CardinalityType
  <2>. QED
    BY <1>8, <2>1, <2>2, <2>3
<1>11. f[z] = Cardinality(part[z]) /\ f[z] \in Int
  BY <1>6
<1>12. Cardinality(Whole(U)) \in Int
  BY <1>9, FS_CardinalityType
<1>13. SumFunctionOnSet(f, T) = Cardinality(Whole(T))
  <2>. HIDE DEF Whole, U, Bad
  <2>. QED
    BY <1>5, <1>7, <1>10, <1>11, <1>12
<1>. QED
  BY <1>13

\* A sum of the same value.
LEMMA SumOfSame ==
    ASSUME NEW S, IsFiniteSet(S), NEW f, NEW c \in Int, \A x \in S : f[x] = c
    PROVE  SumFunctionOnSet(f, S) = c * Cardinality(S)
<1>1. PICK one : one = [x \in S |-> 1]
  OBVIOUS
<1>2. SumFunctionOnSet(one, S) = Cardinality(S)
  BY <1>1, SumOfOnes
<1>3. \A x \in S : one[x] \in Int /\ f[x] = c * one[x]
  BY <1>1
<1>. QED
  BY <1>2, <1>3, SumScale

=============================================================================
