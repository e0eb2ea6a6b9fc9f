---------------------------- MODULE Sums_proofs -----------------------------
(***************************************************************************)
(* Induction, and what follows about sums.                                 *)
(*                                                                         *)
(* Induction is stated over sets: a set of naturals that has 0 and every   *)
(* successor, a set of finite sets that has {} and every set one element   *)
(* larger.  It comes from the well-foundedness of < on Nat, so that it can *)
(* be cited with an ordinary set for the claim.  The sums are those of     *)
(* SumFunctionOnSet, which adds in an order that is not specified.         *)
(***************************************************************************)
EXTENDS Integers, Sequences, FiniteSets, Functions, FiniteSetTheorems,
        WellFoundedInduction, TLAPS

LEMMA LeastNumber ==
  ASSUME NEW C, C \subseteq Nat, C # {}
  PROVE  \E m \in C : \A k \in C : m <= k
  <1> DEFINE R == OpToRel(<, Nat)
  <1>1. IsWellFoundedOn(R, Nat)
    BY NatLessThanWellFounded
  <1>2. \A x, y \in Nat : <<x, y>> \in R <=> x < y
    BY DEF OpToRel
  <1> HIDE DEF R
  <1>3. PICK m \in C : \A k \in C : <<k, m>> \notin R
    BY <1>1, WFMin
  <1>4. ASSUME NEW k \in C PROVE m <= k
    <2>1. m \in Nat /\ k \in Nat /\ ~(k < m)
      BY <1>2, <1>3
    <2> QED BY <2>1
  <1> QED BY <1>4

LEMMA NatSetInduction ==
  ASSUME NEW C, 0 \in C, \A n \in Nat : n \in C => n + 1 \in C
  PROVE  Nat \subseteq C
  <1> SUFFICES ASSUME Nat \ C # {} PROVE FALSE
    OBVIOUS
  <1>1. PICK m \in Nat \ C : \A k \in Nat \ C : m <= k
    BY LeastNumber
  <1>2. m # 0 /\ m - 1 \in Nat /\ ~(m <= m - 1)
    BY <1>1
  <1>3. m - 1 \in C
    BY <1>1, <1>2
  <1>4. (m - 1) + 1 = m
    BY <1>1
  <1> QED BY <1>1, <1>2, <1>3, <1>4

LEMMA SubsetInduction ==
  ASSUME NEW S, IsFiniteSet(S), NEW C, {} \in C,
         \A T \in SUBSET S : T # {} /\ (\A x \in T : T \ {x} \in C) => T \in C
  PROVE  SUBSET S \subseteq C
  <1> DEFINE N == {n \in Nat : \A T \in SUBSET S : Cardinality(T) = n => T \in C}
  <1>1. ASSUME NEW T \in SUBSET S
        PROVE  IsFiniteSet(T) /\ Cardinality(T) \in Nat
    BY <1>1, FS_Subset, FS_CardinalityType
  <1>2. 0 \in N
    BY <1>1, FS_EmptySet
  <1>3. ASSUME NEW n \in Nat, n \in N PROVE n + 1 \in N
    <2> SUFFICES ASSUME NEW T \in SUBSET S, Cardinality(T) = n + 1 PROVE T \in C
      OBVIOUS
    <2>1. T # {}
      <3>1. Cardinality({}) = 0
        BY FS_EmptySet
      <3>2. n + 1 # 0
        OBVIOUS
      <3> QED BY <3>1, <3>2
    <2>2. ASSUME NEW x \in T PROVE T \ {x} \in C
      <3>1. Cardinality(T \ {x}) = Cardinality(T) - 1
        BY <1>1, FS_RemoveElement
      <3>2. Cardinality(T \ {x}) = n
        BY <3>1
      <3> QED BY <1>3, <3>2
    <2> QED BY <2>1, <2>2
  <1>4. Nat \subseteq N
    <2> HIDE DEF N
    <2> QED BY <1>2, <1>3, NatSetInduction
  <1> QED BY <1>1, <1>4
-----------------------------------------------------------------------------
\* The element SumFunctionOnSet takes first, and the function it sums with.
First(T) == CHOOSE x \in T : TRUE
Summing(f, S, g) ==
  g = [T \in SUBSET S |-> IF T = {} THEN 0 ELSE f[First(T)] + g[T \ {First(T)}]]

LEMMA FirstIsMember == ASSUME NEW T, T # {} PROVE First(T) \in T
  BY DEF First

LEMMA SummingExists ==
  ASSUME NEW f, NEW S, IsFiniteSet(S)
  PROVE  \E g : Summing(f, S, g)
  <1> DEFINE Small(n) == {T \in SUBSET S : Cardinality(T) <= n}
             Upto(n, g) ==
               g = [T \in Small(n) |-> IF T = {} THEN 0 ELSE f[First(T)] + g[T \ {First(T)}]]
             N == {n \in Nat : \E g : Upto(n, g)}
  <1>1. ASSUME NEW T \in SUBSET S
        PROVE  IsFiniteSet(T) /\ Cardinality(T) \in Nat /\ Cardinality(T) <= Cardinality(S)
    BY <1>1, FS_Subset, FS_CardinalityType
  <1>2. ASSUME NEW T \in SUBSET S, T # {}, NEW n \in Nat, Cardinality(T) <= n + 1
        PROVE  T \ {First(T)} \in Small(n)
    <2>1. Cardinality(T \ {First(T)}) = Cardinality(T) - 1
      BY <1>1, <1>2, FirstIsMember, FS_RemoveElement
    <2>2. T \ {First(T)} \in SUBSET S
      OBVIOUS
    <2> QED BY <1>1, <1>2, <2>1, <2>2
  <1>3. 0 \in N
    <2> DEFINE g == [T \in Small(0) |-> 0]
    <2>1. \A T \in Small(0) : T = {}
      BY <1>1, FS_EmptySet
    <2>2. Upto(0, g)
      BY <2>1
    <2> QED BY <2>2
  <1>4. ASSUME NEW n \in Nat, n \in N PROVE n + 1 \in N
    <2>1. PICK g : Upto(n, g)
      BY <1>4
    <2> DEFINE h == [T \in Small(n + 1) |-> IF T = {} THEN 0 ELSE f[First(T)] + g[T \ {First(T)}]]
    <2>2. ASSUME NEW T \in Small(n) PROVE T \in Small(n + 1) /\ h[T] = g[T]
      <3>1. T \in Small(n + 1)
        BY <1>1, <2>2
      <3>2. g[T] = IF T = {} THEN 0 ELSE f[First(T)] + g[T \ {First(T)}]
        BY <2>1, <2>2, Zenon
      <3> QED BY <3>1, <3>2, Zenon
    <2>3. ASSUME NEW T \in Small(n + 1), T # {} PROVE g[T \ {First(T)}] = h[T \ {First(T)}]
      BY <1>2, <2>2, <2>3
    <2>4. Upto(n + 1, h)
      <3> HIDE DEF Small
      <3> QED BY <2>3, Zenon
    <2>5. n + 1 \in Nat
      OBVIOUS
    <2> QED BY <2>4, <2>5, Zenon
  <1>5. Nat \subseteq N
    <2> HIDE DEF N
    <2> QED BY <1>3, <1>4, NatSetInduction
  <1>6. Cardinality(S) \in Nat /\ SUBSET S = Small(Cardinality(S))
    BY <1>1
  <1>7. PICK g : Upto(Cardinality(S), g)
    BY <1>5, <1>6
  <1>8. Summing(f, S, g)
    <2> HIDE DEF Small
    <2> QED BY <1>6, <1>7, Zenon DEF Summing
  <1> QED BY <1>8

LEMMA SummingAgree ==
  ASSUME NEW f, NEW S, IsFiniteSet(S), NEW T \in SUBSET S,
         NEW g, Summing(f, S, g), NEW h, Summing(f, T, h)
  PROVE  g[T] = h[T]
  <1> DEFINE C == {U \in SUBSET T : g[U] = h[U]}
  <1>1. ASSUME NEW U \in SUBSET T
        PROVE  /\ g[U] = IF U = {} THEN 0 ELSE f[First(U)] + g[U \ {First(U)}]
               /\ h[U] = IF U = {} THEN 0 ELSE f[First(U)] + h[U \ {First(U)}]
    <2>1. U \in SUBSET S /\ U \in SUBSET T
      OBVIOUS
    <2> QED BY <2>1, Zenon DEF Summing
  <1>2. {} \in C
    BY <1>1
  <1>3. ASSUME NEW U \in SUBSET T, U # {}, \A x \in U : U \ {x} \in C
        PROVE  U \in C
    <2>1. First(U) \in U
      BY <1>3, FirstIsMember
    <2>2. g[U \ {First(U)}] = h[U \ {First(U)}]
      BY <1>3, <2>1
    <2> QED BY <1>1, <1>3, <2>2
  <1>4. IsFiniteSet(T)
    BY FS_Subset
  <1>5. SUBSET T \subseteq C
    <2> HIDE DEF C
    <2> QED BY <1>2, <1>3, <1>4, SubsetInduction
  <1> QED BY <1>5

LEMMA SumStep ==
  ASSUME NEW f, NEW S, IsFiniteSet(S)
  PROVE  SumFunctionOnSet(f, S)
           = IF S = {} THEN 0 ELSE f[First(S)] + SumFunctionOnSet(f, S \ {First(S)})
  <1>1. ASSUME NEW T, IsFiniteSet(T)
        PROVE  \E g : Summing(f, T, g) /\ SumFunctionOnSet(f, T) = g[T]
    <2> DEFINE g == CHOOSE g : Summing(f, T, g)
    <2>1. Summing(f, T, g)
      BY <1>1, SummingExists, Zenon
    <2>2. SumFunctionOnSet(f, T) = g[T]
      BY Zenon DEF SumFunctionOnSet, FoldFunctionOnSet, MapThenFoldSet, Summing, First
    <2> HIDE DEF g
    <2> QED BY <2>1, <2>2
  <1>2. PICK g : Summing(f, S, g) /\ SumFunctionOnSet(f, S) = g[S]
    BY <1>1
  <1>3. g[S] = IF S = {} THEN 0 ELSE f[First(S)] + g[S \ {First(S)}]
    <2>1. S \in SUBSET S
      OBVIOUS
    <2> QED BY <1>2, <2>1, Zenon DEF Summing
  <1>4. S \ {First(S)} \in SUBSET S /\ IsFiniteSet(S \ {First(S)})
    BY FS_Subset
  <1>5. PICK h : /\ Summing(f, S \ {First(S)}, h)
                 /\ SumFunctionOnSet(f, S \ {First(S)}) = h[S \ {First(S)}]
    BY <1>1, <1>4
  <1>6. g[S \ {First(S)}] = h[S \ {First(S)}]
    BY <1>2, <1>4, <1>5, SummingAgree
  <1> QED BY <1>2, <1>3, <1>5, <1>6, Zenon
-----------------------------------------------------------------------------
LEMMA SumEmpty == ASSUME NEW f PROVE SumFunctionOnSet(f, {}) = 0
  BY SumStep, FS_EmptySet

LEMMA SumInt ==
  ASSUME NEW f, NEW S, IsFiniteSet(S), \A x \in S : f[x] \in Int
  PROVE  \A T \in SUBSET S : SumFunctionOnSet(f, T) \in Int
  <1> DEFINE C == {T \in SUBSET S : SumFunctionOnSet(f, T) \in Int}
  <1>1. {} \in C
    BY SumEmpty
  <1>2. ASSUME NEW T \in SUBSET S, T # {}, \A x \in T : T \ {x} \in C
        PROVE  T \in C
    <2>1. First(T) \in T /\ IsFiniteSet(T)
      BY <1>2, FirstIsMember, FS_Subset
    <2>2. SumFunctionOnSet(f, T) = f[First(T)] + SumFunctionOnSet(f, T \ {First(T)})
      BY <1>2, <2>1, SumStep
    <2> QED BY <1>2, <2>1, <2>2
  <1>3. SUBSET S \subseteq C
    <2> HIDE DEF C
    <2> QED BY <1>1, <1>2, SubsetInduction
  <1> QED BY <1>3

LEMMA SumIsInt ==
  ASSUME NEW f, IsFiniteSet(DOMAIN f), \A x \in DOMAIN f : f[x] \in Int
  PROVE  SumFunction(f) \in Int
  <1>1. SumFunction(f) = SumFunctionOnSet(f, DOMAIN f)
    BY Zenon DEF SumFunction
  <1>2. DOMAIN f \in SUBSET DOMAIN f
    OBVIOUS
  <1> QED BY <1>1, <1>2, SumInt

\* The order does not matter: any element may be taken first.
LEMMA SumRemove ==
  ASSUME NEW f, NEW S, IsFiniteSet(S), \A x \in S : f[x] \in Int
  PROVE  \A z \in S : SumFunctionOnSet(f, S) = f[z] + SumFunctionOnSet(f, S \ {z})
  <1> DEFINE Any(T) == \A z \in T : SumFunctionOnSet(f, T) = f[z] + SumFunctionOnSet(f, T \ {z})
             C == {T \in SUBSET S : Any(T)}
  <1>1. {} \in C
    OBVIOUS
  <1>2. ASSUME NEW T \in SUBSET S, T # {}, \A x \in T : T \ {x} \in C
        PROVE  T \in C
    <2> SUFFICES ASSUME NEW z \in T
                 PROVE  SumFunctionOnSet(f, T) = f[z] + SumFunctionOnSet(f, T \ {z})
      OBVIOUS
    <2> DEFINE y == First(T)
    <2>1. y \in T /\ IsFiniteSet(T)
      BY <1>2, FirstIsMember, FS_Subset
    <2>2. SumFunctionOnSet(f, T) = f[y] + SumFunctionOnSet(f, T \ {y})
      BY <1>2, <2>1, SumStep
    <2> HIDE DEF y
    <2>3. CASE z # y
      <3>1. SumFunctionOnSet(f, T \ {y}) = f[z] + SumFunctionOnSet(f, (T \ {y}) \ {z})
        BY <1>2, <2>1, <2>3
      <3>2. SumFunctionOnSet(f, T \ {z}) = f[y] + SumFunctionOnSet(f, (T \ {z}) \ {y})
        BY <1>2, <2>1, <2>3
      <3>3. (T \ {y}) \ {z} = (T \ {z}) \ {y}
        OBVIOUS
      <3>4. SumFunctionOnSet(f, (T \ {z}) \ {y}) \in Int
        <4>1. (T \ {z}) \ {y} \in SUBSET S
          OBVIOUS
        <4> QED BY <4>1, SumInt
      <3>5. f[y] \in Int /\ f[z] \in Int
        BY <2>1
      <3> DEFINE rest == SumFunctionOnSet(f, (T \ {z}) \ {y})
      <3>6. /\ SumFunctionOnSet(f, T) = f[y] + (f[z] + rest)
            /\ SumFunctionOnSet(f, T \ {z}) = f[y] + rest
        BY <2>2, <3>1, <3>2, <3>3
      <3>7. rest \in Int
        BY <3>4
      <3> HIDE DEF rest
      <3>8. f[y] + (f[z] + rest) = f[z] + (f[y] + rest)
        BY <3>5, <3>7
      <3> QED BY <3>6, <3>8, Zenon
    <2> QED BY <2>2, <2>3
  <1>3. SUBSET S \subseteq C
    <2> HIDE DEF C
    <2> QED BY <1>1, <1>2, SubsetInduction
  <1>4. S \in SUBSET S
    OBVIOUS
  <1> QED BY <1>3, <1>4

LEMMA SumAdd ==
  ASSUME NEW f, NEW S, IsFiniteSet(S), NEW z, z \notin S, \A x \in S \cup {z} : f[x] \in Int
  PROVE  SumFunctionOnSet(f, S \cup {z}) = SumFunctionOnSet(f, S) + f[z]
  <1>1. IsFiniteSet(S \cup {z})
    BY FS_AddElement
  <1>2. SumFunctionOnSet(f, S \cup {z}) = f[z] + SumFunctionOnSet(f, (S \cup {z}) \ {z})
    BY <1>1, SumRemove
  <1>3. (S \cup {z}) \ {z} = S
    OBVIOUS
  <1> DEFINE rest == SumFunctionOnSet(f, S)
  <1>4. rest \in Int /\ f[z] \in Int
    BY SumInt
  <1>5. SumFunctionOnSet(f, S \cup {z}) = f[z] + rest
    BY <1>2, <1>3
  <1> HIDE DEF rest
  <1>6. f[z] + rest = rest + f[z]
    BY <1>4
  <1> QED BY <1>5, <1>6 DEF rest

\* Only the values on the set count.
LEMMA SumSame ==
  ASSUME NEW f, NEW g, NEW S, IsFiniteSet(S), \A x \in S : f[x] = g[x]
  PROVE  SumFunctionOnSet(f, S) = SumFunctionOnSet(g, S)
  <1> DEFINE C == {T \in SUBSET S : SumFunctionOnSet(f, T) = SumFunctionOnSet(g, T)}
  <1>1. {} \in C
    BY SumEmpty
  <1>2. ASSUME NEW T \in SUBSET S, T # {}, \A x \in T : T \ {x} \in C
        PROVE  T \in C
    <2>1. First(T) \in T /\ IsFiniteSet(T)
      BY <1>2, FirstIsMember, FS_Subset
    <2>2. /\ SumFunctionOnSet(f, T) = f[First(T)] + SumFunctionOnSet(f, T \ {First(T)})
          /\ SumFunctionOnSet(g, T) = g[First(T)] + SumFunctionOnSet(g, T \ {First(T)})
      BY <1>2, <2>1, SumStep
    <2>3. f[First(T)] = g[First(T)]
      BY <2>1
    <2>4. SumFunctionOnSet(f, T \ {First(T)}) = SumFunctionOnSet(g, T \ {First(T)})
      BY <1>2, <2>1
    <2> QED BY <2>2, <2>3, <2>4
  <1>3. SUBSET S \subseteq C
    <2> HIDE DEF C
    <2> QED BY <1>1, <1>2, SubsetInduction
  <1> QED BY <1>3

\* One value changes.
LEMMA SumChange ==
  ASSUME NEW f, NEW g, NEW S, IsFiniteSet(S), NEW z \in S,
         \A x \in S : f[x] \in Int /\ g[x] \in Int,
         \A x \in S : x # z => f[x] = g[x]
  PROVE  SumFunctionOnSet(g, S) = SumFunctionOnSet(f, S) - f[z] + g[z]
  <1>1. /\ SumFunctionOnSet(f, S) = f[z] + SumFunctionOnSet(f, S \ {z})
        /\ SumFunctionOnSet(g, S) = g[z] + SumFunctionOnSet(g, S \ {z})
    BY SumRemove
  <1>2. SumFunctionOnSet(f, S \ {z}) = SumFunctionOnSet(g, S \ {z})
    <2>1. IsFiniteSet(S \ {z}) /\ \A x \in S \ {z} : f[x] = g[x]
      BY FS_Subset
    <2> QED BY <2>1, SumSame
  <1>3. SumFunctionOnSet(f, S \ {z}) \in Int /\ f[z] \in Int /\ g[z] \in Int
    BY SumInt
  <1> QED BY <1>1, <1>2, <1>3

LEMMA SumZero ==
  ASSUME NEW f, NEW S, IsFiniteSet(S), \A x \in S : f[x] = 0
  PROVE  SumFunctionOnSet(f, S) = 0
  <1> DEFINE C == {T \in SUBSET S : SumFunctionOnSet(f, T) = 0}
  <1>1. {} \in C
    BY SumEmpty
  <1>2. ASSUME NEW T \in SUBSET S, T # {}, \A x \in T : T \ {x} \in C
        PROVE  T \in C
    <2>1. First(T) \in T /\ IsFiniteSet(T)
      BY <1>2, FirstIsMember, FS_Subset
    <2>2. SumFunctionOnSet(f, T) = f[First(T)] + SumFunctionOnSet(f, T \ {First(T)})
      BY <1>2, <2>1, SumStep
    <2> QED BY <1>2, <2>1, <2>2
  <1>3. SUBSET S \subseteq C
    <2> HIDE DEF C
    <2> QED BY <1>1, <1>2, SubsetInduction
  <1> QED BY <1>3

LEMMA SumIsZero ==
  ASSUME NEW f, IsFiniteSet(DOMAIN f), \A x \in DOMAIN f : f[x] = 0
  PROVE  SumFunction(f) = 0
  <1>1. SumFunction(f) = SumFunctionOnSet(f, DOMAIN f)
    BY Zenon DEF SumFunction
  <1> QED BY <1>1, SumZero

\* Sums are monotone, and so bounded by any bound their terms respect.
LEMMA SumLeq ==
  ASSUME NEW f, NEW g, NEW S, IsFiniteSet(S),
         \A x \in S : f[x] \in Int /\ g[x] \in Int /\ f[x] <= g[x]
  PROVE  SumFunctionOnSet(f, S) <= SumFunctionOnSet(g, S)
  <1> DEFINE C == {T \in SUBSET S : SumFunctionOnSet(f, T) <= SumFunctionOnSet(g, T)}
  <1>1. {} \in C
    BY SumEmpty
  <1>2. ASSUME NEW T \in SUBSET S, T # {}, \A x \in T : T \ {x} \in C
        PROVE  T \in C
    <2>1. First(T) \in T /\ IsFiniteSet(T)
      BY <1>2, FirstIsMember, FS_Subset
    <2>2. /\ SumFunctionOnSet(f, T) = f[First(T)] + SumFunctionOnSet(f, T \ {First(T)})
          /\ SumFunctionOnSet(g, T) = g[First(T)] + SumFunctionOnSet(g, T \ {First(T)})
      BY <1>2, <2>1, SumStep
    <2>3. SumFunctionOnSet(f, T \ {First(T)}) \in Int /\ SumFunctionOnSet(g, T \ {First(T)}) \in Int
      BY SumInt
    <2>4. SumFunctionOnSet(f, T \ {First(T)}) <= SumFunctionOnSet(g, T \ {First(T)})
      BY <1>2, <2>1
    <2>5. /\ f[First(T)] \in Int /\ g[First(T)] \in Int
          /\ f[First(T)] <= g[First(T)]
      BY <2>1
    <2>6. SumFunctionOnSet(f, T) <= SumFunctionOnSet(g, T)
      BY <2>2, <2>3, <2>4, <2>5
    <2> QED BY <2>6
  <1>3. SUBSET S \subseteq C
    <2> HIDE DEF C
    <2> QED BY <1>1, <1>2, SubsetInduction
  <1> QED BY <1>3
-----------------------------------------------------------------------------
\* Sums over a sequence: that of one element more.
LEMMA SumFirst ==
  ASSUME NEW n \in Nat, NEW f, NEW g,
         \A i \in 1..n : f[i] \in Int /\ g[i] = f[i], g[n + 1] \in Int
  PROVE  SumFunctionOnSet(g, 1..(n + 1)) = SumFunctionOnSet(f, 1..n) + g[n + 1]
  <1> DEFINE R == 1..n
             z == n + 1
  <1>1. IsFiniteSet(R) /\ z \notin R /\ 1..(n + 1) = R \cup {z}
    <2>1. n \in Int /\ 1 \in Int
      OBVIOUS
    <2>2. IsFiniteSet(R)
      BY <2>1, FS_Interval
    <2>3. z \notin R /\ 1..(n + 1) = R \cup {z}
      OBVIOUS
    <2> QED BY <2>2, <2>3
  <1>2. \A x \in R \cup {z} : g[x] \in Int
    OBVIOUS
  <1>3. \A x \in R : g[x] = f[x]
    OBVIOUS
  <1>4. g[z] = g[n + 1]
    OBVIOUS
  <1> HIDE DEF R, z
  <1>5. SumFunctionOnSet(g, R \cup {z}) = SumFunctionOnSet(g, R) + g[z]
    BY <1>1, <1>2, SumAdd
  <1>6. SumFunctionOnSet(g, R) = SumFunctionOnSet(f, R)
    BY <1>1, <1>3, SumSame
  <1> QED BY <1>1, <1>4, <1>5, <1>6 DEF R

\* What has no negative term is not negative.
LEMMA SumIsNat ==
  ASSUME NEW f, IsFiniteSet(DOMAIN f), \A x \in DOMAIN f : f[x] \in Nat
  PROVE  SumFunction(f) \in Nat
  <1> DEFINE z == [x \in DOMAIN f |-> 0]
  <1>1. \A x \in DOMAIN f : z[x] \in Int /\ z[x] = 0 /\ f[x] \in Int /\ z[x] <= f[x]
    OBVIOUS
  <1> HIDE DEF z
  <1>2. SumFunctionOnSet(z, DOMAIN f) <= SumFunctionOnSet(f, DOMAIN f)
    BY <1>1, SumLeq
  <1>3. SumFunctionOnSet(z, DOMAIN f) = 0
    BY <1>1, SumZero
  <1>4. SumFunction(f) = SumFunctionOnSet(f, DOMAIN f)
    BY Zenon DEF SumFunction
  <1> QED BY <1>1, <1>2, <1>3, <1>4, SumIsInt

LEMMA SumAppend ==
  ASSUME NEW n \in Nat, NEW f, DOMAIN f = 1..n, NEW g, DOMAIN g = 1..(n + 1),
         \A i \in 1..n : f[i] \in Int /\ g[i] = f[i], g[n + 1] \in Int
  PROVE  SumFunction(g) = SumFunction(f) + g[n + 1]
  <1>1. SumFunction(g) = SumFunctionOnSet(g, DOMAIN g) /\ SumFunction(f) = SumFunctionOnSet(f, DOMAIN f)
    BY Zenon DEF SumFunction
  <1>2. SumFunctionOnSet(g, 1..(n + 1)) = SumFunctionOnSet(f, 1..n) + g[n + 1]
    BY SumFirst
  <1> QED BY <1>1, <1>2

\* One value of a function changes.
LEMMA SumExcept ==
  ASSUME NEW f, NEW g, NEW z \in DOMAIN f, DOMAIN g = DOMAIN f, IsFiniteSet(DOMAIN f),
         \A x \in DOMAIN f : f[x] \in Int /\ g[x] \in Int,
         \A x \in DOMAIN f : x # z => f[x] = g[x]
  PROVE  SumFunction(g) = SumFunction(f) - f[z] + g[z]
  <1>1. /\ SumFunction(f) = SumFunctionOnSet(f, DOMAIN f)
        /\ SumFunction(g) = SumFunctionOnSet(g, DOMAIN f)
    BY Zenon DEF SumFunction
  <1>2. SumFunctionOnSet(g, DOMAIN f) = SumFunctionOnSet(f, DOMAIN f) - f[z] + g[z]
    BY SumChange
  <1> QED BY <1>1, <1>2
-----------------------------------------------------------------------------
LEMMA SumBoth ==
  ASSUME NEW f, NEW g, NEW h, NEW S, IsFiniteSet(S),
         \A x \in S : f[x] \in Int /\ g[x] \in Int /\ h[x] = f[x] + g[x]
  PROVE  SumFunctionOnSet(h, S) = SumFunctionOnSet(f, S) + SumFunctionOnSet(g, S)
  <1> DEFINE C == {T \in SUBSET S :
                     SumFunctionOnSet(h, T) = SumFunctionOnSet(f, T) + SumFunctionOnSet(g, T)}
  <1>1. {} \in C
    BY SumEmpty
  <1>2. ASSUME NEW T \in SUBSET S, T # {}, \A x \in T : T \ {x} \in C
        PROVE  T \in C
    <2>1. PICK z \in T : TRUE
      BY <1>2
    <2>2. IsFiniteSet(T) /\ T \ {z} \in SUBSET S
      BY FS_Subset
    <2>3. /\ SumFunctionOnSet(f, T) = f[z] + SumFunctionOnSet(f, T \ {z})
          /\ SumFunctionOnSet(g, T) = g[z] + SumFunctionOnSet(g, T \ {z})
          /\ SumFunctionOnSet(h, T) = h[z] + SumFunctionOnSet(h, T \ {z})
      BY <2>2, SumRemove
    <2>4. SumFunctionOnSet(f, T \ {z}) \in Int /\ SumFunctionOnSet(g, T \ {z}) \in Int
      BY <2>2, SumInt
    <2>5. SumFunctionOnSet(h, T \ {z}) = SumFunctionOnSet(f, T \ {z}) + SumFunctionOnSet(g, T \ {z})
      BY <1>2
    <2>6. f[z] \in Int /\ g[z] \in Int /\ h[z] = f[z] + g[z]
      OBVIOUS
    <2> DEFINE a == SumFunctionOnSet(f, T \ {z})
               b == SumFunctionOnSet(g, T \ {z})
    <2>7. SumFunctionOnSet(h, T) = SumFunctionOnSet(f, T) + SumFunctionOnSet(g, T)
      <3>1. /\ SumFunctionOnSet(f, T) = f[z] + a /\ SumFunctionOnSet(g, T) = g[z] + b
            /\ SumFunctionOnSet(h, T) = (f[z] + g[z]) + (a + b) /\ a \in Int /\ b \in Int
        BY <2>3, <2>4, <2>5, <2>6
      <3> HIDE DEF a, b
      <3> QED BY <2>6, <3>1
    <2> QED BY <2>7
  <1> HIDE DEF C
  <1>3. SUBSET S \subseteq C
    BY <1>1, <1>2, SubsetInduction
  <1>4. S \in C
    BY <1>3
  <1> QED BY <1>4 DEF C

LEMMA SumPlus ==
  ASSUME NEW f, NEW g, NEW h, IsFiniteSet(DOMAIN f), DOMAIN g = DOMAIN f, DOMAIN h = DOMAIN f,
         \A x \in DOMAIN f : f[x] \in Int /\ g[x] \in Int /\ h[x] = f[x] + g[x]
  PROVE  SumFunction(h) = SumFunction(f) + SumFunction(g)
  <1>1. /\ SumFunction(f) = SumFunctionOnSet(f, DOMAIN f)
        /\ SumFunction(g) = SumFunctionOnSet(g, DOMAIN f)
        /\ SumFunction(h) = SumFunctionOnSet(h, DOMAIN f)
    BY Zenon DEF SumFunction
  <1> QED BY <1>1, SumBoth

\* What is zero outside a part of the domain sums up to the part.
LEMMA SumPart ==
  ASSUME NEW f, NEW g, IsFiniteSet(DOMAIN f), DOMAIN g \subseteq DOMAIN f,
         \A x \in DOMAIN f : f[x] \in Int,
         \A x \in DOMAIN f : f[x] = IF x \in DOMAIN g THEN g[x] ELSE 0
  PROVE  SumFunction(f) = SumFunction(g)
  <1> DEFINE S == DOMAIN f
             D == DOMAIN g
             C == {T \in SUBSET S : SumFunctionOnSet(f, T) = SumFunctionOnSet(f, T \cap D)}
  <1>1. {} \in C
    <2>1. {} \cap D = {}
      OBVIOUS
    <2> QED BY <2>1
  <1>2. ASSUME NEW T \in SUBSET S, T # {}, \A x \in T : T \ {x} \in C
        PROVE  T \in C
    <2>1. PICK z \in T : TRUE
      BY <1>2
    <2>2. IsFiniteSet(T) /\ T \ {z} \in SUBSET S /\ IsFiniteSet(T \cap D) /\ z \in S
      BY FS_Subset
    <2>3. SumFunctionOnSet(f, T) = f[z] + SumFunctionOnSet(f, T \ {z})
      BY <2>2, SumRemove
    <2>4. SumFunctionOnSet(f, T \ {z}) = SumFunctionOnSet(f, (T \ {z}) \cap D)
      BY <1>2
    <2>5. CASE z \in D
      <3>1. (T \ {z}) \cap D = (T \cap D) \ {z} /\ z \in T \cap D
        BY <2>5
      <3>2. SumFunctionOnSet(f, T \cap D) = f[z] + SumFunctionOnSet(f, (T \cap D) \ {z})
        BY <2>2, <3>1, SumRemove
      <3> QED BY <2>3, <2>4, <3>1, <3>2
    <2>6. CASE z \notin D
      <3>1. (T \ {z}) \cap D = T \cap D /\ f[z] = 0
        BY <2>2, <2>6
      <3>2. SumFunctionOnSet(f, T \cap D) \in Int
        BY SumInt
      <3> QED BY <2>3, <2>4, <3>1, <3>2
    <2> QED BY <2>5, <2>6
  <1>5. S \cap D = D /\ IsFiniteSet(D) /\ IsFiniteSet(S)
    BY FS_Subset
  <1>6. \A x \in D : f[x] = g[x]
    OBVIOUS
  <1> HIDE DEF C, S, D
  <1>3. SUBSET S \subseteq C
    BY <1>1, <1>2, <1>5, SubsetInduction
  <1>4. SumFunctionOnSet(f, S) = SumFunctionOnSet(f, S \cap D)
    BY <1>3 DEF C
  <1>7. SumFunctionOnSet(f, D) = SumFunctionOnSet(g, D)
    BY <1>5, <1>6, SumSame
  <1>8. SumFunction(f) = SumFunctionOnSet(f, S) /\ SumFunction(g) = SumFunctionOnSet(g, D)
    BY Zenon DEF SumFunction, S, D
  <1> QED BY <1>4, <1>5, <1>7, <1>8
=============================================================================
