-------------------------- MODULE ContainerProofs --------------------------
(***************************************************************************)
(* The two containers of a node.                                           *)
(*                                                                         *)
(* The cache, for any addresses, sizes, hash and room: its list of uses    *)
(* and its items agree, its room is accounted for, it hangs only when it   *)
(* has been drained, and it implements ForgetfulMap.                       *)
(*                                                                         *)
(* The hash table, for any keys, buckets, hash and memory: its elements    *)
(* own what Malloc returned, one element for each address, and it          *)
(* implements LifoMap.                                                     *)
(***************************************************************************)
EXTENDS Containers, FiniteSets, SequenceFacts, FiniteSetTheorems,
        WellFoundedInduction, TLAPS

-----------------------------------------------------------------------------
(* Sums over sets.  The induction is on the size of a set, and goes by the *)
(* least size for which a set refutes the claim.                           *)

\* A set of naturals that is not empty has a least element.
LEMMA LeastNatural ==
    ASSUME NEW T \in SUBSET Nat, T # {}
    PROVE  \E m \in T : \A k \in T : m <= k
<1> DEFINE R == OpToRel(<, Nat)
<1>1. IsWellFoundedOn(R, Nat)
  BY NatLessThanWellFounded
<1>2. PICK m \in T : \A k \in T : ~ (<<k, m>> \in R)
  <2> HIDE DEF R
  <2> QED
    BY <1>1, WFMin
<1>3. ASSUME NEW k \in T PROVE m <= k
  <2>1. <<k, m>> \in Nat \X Nat /\ <<k, m>>[1] = k /\ <<k, m>>[2] = m
    OBVIOUS
  <2>2. k < m => <<k, m>> \in R
    BY <2>1 DEF OpToRel
  <2>3. k \in Nat /\ m \in Nat
    OBVIOUS
  <2> HIDE DEF R
  <2> QED
    BY <1>2, <2>2, <2>3
<1> QED
  BY <1>3

\* A family of sets of finite sets that contains a set of sets whenever it
\* contains all smaller ones.
LEMMA SizeInduction ==
    ASSUME NEW U, NEW Good \in SUBSET U, \A T \in U : IsFiniteSet(T),
           \A T \in U : (\A V \in U : Cardinality(V) < Cardinality(T) => V \in Good) => T \in Good
    PROVE  Good = U
<1> SUFFICES ASSUME U \ Good # {} PROVE FALSE
  OBVIOUS
<1>1. \A T \in U : Cardinality(T) \in Nat
  BY FS_CardinalityType
<1> DEFINE Sizes == {Cardinality(T) : T \in U \ Good}
<1>2. Sizes \in SUBSET Nat /\ Sizes # {}
  BY <1>1
<1>3. PICK m \in Sizes : \A k \in Sizes : m <= k
  <2> HIDE DEF Sizes
  <2> QED
    BY <1>2, LeastNatural
<1>4. PICK T \in U \ Good : m = Cardinality(T)
  BY <1>3
<1>5. ASSUME NEW V \in U, Cardinality(V) < Cardinality(T), V \notin Good PROVE FALSE
  <2>1. Cardinality(V) \in Sizes /\ Cardinality(V) \in Nat /\ Cardinality(T) \in Nat
    BY <1>1, <1>5, <1>4
  <2>2. m <= Cardinality(V)
    BY <1>3, <2>1
  <2> QED
    BY <2>1, <2>2, <1>4, <1>5
<1> QED
  BY <1>4, <1>5

\* The order in which SumFunctionOnSet takes the elements: any first, then the
\* rest.
Some(s) == CHOOSE x \in s : TRUE

Smaller(S, n) == {s \in SUBSET S : Cardinality(s) < n}

SumStep(f, g, s) == IF s = {} THEN 0 ELSE f[Some(s)] + g[s \ {Some(s)}]

\* There is a function that sums over all subsets.
LEMMA SumExists ==
    ASSUME NEW S, IsFiniteSet(S), NEW f
    PROVE  \E g : g = [s \in SUBSET S |-> SumStep(f, g, s)]
<1> DEFINE Has(n) == \E g : g = [s \in Smaller(S, n) |-> SumStep(f, g, s)]
           Hasnt == {n \in Nat : ~ Has(n)}
<1>1. \A s \in SUBSET S : IsFiniteSet(s) /\ Cardinality(s) \in Nat
  BY FS_Subset, FS_CardinalityType
<1>2. ASSUME NEW s \in SUBSET S, s # {}
      PROVE  /\ Some(s) \in s /\ s \ {Some(s)} \in SUBSET S
             /\ Cardinality(s \ {Some(s)}) = Cardinality(s) - 1
  BY <1>1, <1>2, FS_RemoveElement DEF Some
<1>3. Hasnt = {}
  <2> SUFFICES ASSUME Hasnt # {} PROVE FALSE
    OBVIOUS
  <2>1. PICK n \in Hasnt : \A k \in Hasnt : n <= k
    <3>1. Hasnt \in SUBSET Nat
      OBVIOUS
    <3> HIDE DEF Hasnt
    <3> QED
      BY <3>1, LeastNatural
  <2>2. Has(0)
    <3>1. Smaller(S, 0) = {}
      BY <1>1 DEF Smaller
    <3>2. [s \in Smaller(S, 0) |-> 0] = [s \in Smaller(S, 0) |-> SumStep(f, [t \in Smaller(S, 0) |-> 0], s)]
      BY <3>1
    <3> QED
      BY <3>2
  <2>3. n \in Nat /\ n # 0 /\ ~ Has(n)
    BY <2>1, <2>2
  <2>4. n - 1 \in Nat /\ Has(n - 1)
    BY <2>1, <2>3
  <2>5. PICK g : g = [s \in Smaller(S, n - 1) |-> SumStep(f, g, s)]
    BY <2>4
  <2> DEFINE h == [s \in Smaller(S, n) |-> SumStep(f, g, s)]
  <2>6. ASSUME NEW s \in Smaller(S, n) PROVE h[s] = SumStep(f, h, s)
    <3>1. CASE s = {}
      BY <3>1 DEF SumStep
    <3>2. CASE s # {}
      <4> DEFINE t == s \ {Some(s)}
      <4>1. t \in Smaller(S, n - 1) /\ t \in Smaller(S, n)
        BY <1>1, <1>2, <2>3, <2>4, <3>2 DEF Smaller
      <4>2. g[t] = SumStep(f, g, t)
        BY <2>5, <4>1
      <4>3. h[t] = g[t]
        BY <4>1, <4>2
      <4> QED
        BY <4>3, <3>2 DEF SumStep
    <3> QED
      BY <3>1, <3>2
  <2>7. h = [s \in Smaller(S, n) |-> SumStep(f, h, s)]
    <3>1. h = [s \in Smaller(S, n) |-> h[s]]
      OBVIOUS
    <3> HIDE DEF h
    <3> QED
      BY <3>1, <2>6
  <2> HIDE DEF h
  <2> QED
    BY <2>3, <2>7
<1>4. Cardinality(S) + 1 \in Nat /\ Smaller(S, Cardinality(S) + 1) = SUBSET S
  BY <1>1, FS_Subset, FS_CardinalityType DEF Smaller
<1>5. Has(Cardinality(S) + 1)
  BY <1>3, <1>4
<1> QED
  BY <1>4, <1>5

\* Induction over the subsets of a finite set, one element at a time.
LEMMA SubsetInduction ==
    ASSUME NEW S, IsFiniteSet(S), NEW Good \in SUBSET (SUBSET S), {} \in Good,
           \A s \in SUBSET S : s # {} /\ s \ {Some(s)} \in Good => s \in Good
    PROVE  Good = SUBSET S
<1> DEFINE U == SUBSET S
<1>1. \A s \in U : IsFiniteSet(s)
  BY FS_Subset
<1>2. ASSUME NEW s \in U,
             \A t \in U : Cardinality(t) < Cardinality(s) => t \in Good
      PROVE  s \in Good
  <2>1. CASE s # {}
    <3>1. Some(s) \in s /\ Cardinality(s) \in Nat
      BY <1>1, <2>1, FS_CardinalityType DEF Some
    <3>2. Cardinality(s \ {Some(s)}) = Cardinality(s) - 1
      BY <1>1, <3>1, FS_RemoveElement
    <3> QED
      BY <1>2, <2>1, <3>1, <3>2
  <2> QED
    BY <2>1
<1> HIDE DEF U
<1>3. Good \in SUBSET U
  BY DEF U
<1>4. Good = U
  BY <1>1, <1>2, <1>3, SizeInduction
<1> QED
  BY <1>4 DEF U

IsSum(f, S, g) == g = [s \in SUBSET S |-> SumStep(f, g, s)]

\* SumFunctionOnSet is the value of such a function at the whole set.
LEMMA SumOfSet ==
    ASSUME NEW S, IsFiniteSet(S), NEW f
    PROVE  \E g : IsSum(f, S, g) /\ SumFunctionOnSet(f, S) = g[S]
<1> DEFINE G == CHOOSE g : g = [s \in SUBSET S |-> SumStep(f, g, s)]
<1>1. SumFunctionOnSet(f, S) = G[S]
  BY DEF SumFunctionOnSet, FoldFunctionOnSet, MapThenFoldSet, SumStep, Some
<1>2. G = [s \in SUBSET S |-> SumStep(f, G, s)]
  BY SumExists
<1>3. IsSum(f, S, G)
  BY <1>2 DEF IsSum
<1> HIDE DEF G
<1> QED
  BY <1>1, <1>3

\* Two such functions agree on the sets that both sum over.
LEMMA SumsAgree ==
    ASSUME NEW S, IsFiniteSet(S), NEW T, IsFiniteSet(T), NEW f, NEW g, NEW h,
           IsSum(f, S, g), IsSum(f, T, h)
    PROVE  \A s \in SUBSET (S \cap T) : g[s] = h[s]
<1> DEFINE Good == {s \in SUBSET (S \cap T) : g[s] = h[s]}
<1>1. \A s \in SUBSET (S \cap T) : g[s] = SumStep(f, g, s) /\ h[s] = SumStep(f, h, s)
  BY DEF IsSum
<1>2. {} \in Good
  BY <1>1 DEF SumStep
<1>3. ASSUME NEW s \in SUBSET (S \cap T), s # {}, s \ {Some(s)} \in Good
      PROVE  s \in Good
  BY <1>1, <1>3 DEF SumStep
<1>4. Good \in SUBSET (SUBSET (S \cap T)) /\ IsFiniteSet(S \cap T)
  BY FS_Intersection
<1> HIDE DEF Good
<1>5. Good = SUBSET (S \cap T)
  BY <1>2, <1>3, <1>4, SubsetInduction
<1> QED
  BY <1>5 DEF Good

\* Nothing adds up to nothing.
LEMMA SumEmpty == ASSUME NEW f PROVE SumFunctionOnSet(f, {}) = 0
<1>1. IsFiniteSet({})
  BY FS_EmptySet
<1>2. PICK g : IsSum(f, {}, g) /\ SumFunctionOnSet(f, {}) = g[{}]
  BY <1>1, SumOfSet
<1> QED
  BY <1>2 DEF IsSum, SumStep

\* A sum is one summand and the sum of the rest.
LEMMA SumSome ==
    ASSUME NEW S, IsFiniteSet(S), S # {}, NEW f
    PROVE  /\ Some(S) \in S
           /\ SumFunctionOnSet(f, S) = f[Some(S)] + SumFunctionOnSet(f, S \ {Some(S)})
<1> DEFINE T == S \ {Some(S)}
<1>1. Some(S) \in S
  BY DEF Some
<1>2. IsFiniteSet(T)
  BY FS_RemoveElement
<1>3. PICK g : IsSum(f, S, g) /\ SumFunctionOnSet(f, S) = g[S]
  BY SumOfSet
<1>4. PICK h : IsSum(f, T, h) /\ SumFunctionOnSet(f, T) = h[T]
  <2> HIDE DEF T
  <2> QED
    BY <1>2, SumOfSet
<1>5. g[T] = h[T]
  <2>1. T \in SUBSET (S \cap T)
    OBVIOUS
  <2> HIDE DEF T
  <2> QED
    BY <1>2, <1>3, <1>4, <2>1, SumsAgree
<1>6. g[S] = f[Some(S)] + g[T]
  BY <1>3 DEF IsSum, SumStep
<1> QED
  BY <1>1, <1>3, <1>4, <1>5, <1>6

\* Integers add up to an integer.
LEMMA SumType ==
    ASSUME NEW S, IsFiniteSet(S), NEW f, \A x \in S : f[x] \in Int
    PROVE  SumFunctionOnSet(f, S) \in Int
<1> DEFINE Good == {s \in SUBSET S : SumFunctionOnSet(f, s) \in Int}
<1>1. {} \in Good
  BY SumEmpty
<1>2. ASSUME NEW s \in SUBSET S, s # {}, s \ {Some(s)} \in Good
      PROVE  s \in Good
  <2>1. IsFiniteSet(s)
    BY FS_Subset
  <2>2. Some(s) \in s /\ SumFunctionOnSet(f, s) = f[Some(s)] + SumFunctionOnSet(f, s \ {Some(s)})
    BY <1>2, <2>1, SumSome
  <2> QED
    BY <1>2, <2>2
<1>3. Good \in SUBSET (SUBSET S)
  OBVIOUS
<1> HIDE DEF Good
<1>4. Good = SUBSET S
  BY <1>1, <1>2, <1>3, SubsetInduction
<1> QED
  BY <1>4 DEF Good

\* Natural numbers add up to a natural number.
LEMMA SumNat ==
    ASSUME NEW S, IsFiniteSet(S), NEW f, \A x \in S : f[x] \in Nat
    PROVE  SumFunctionOnSet(f, S) \in Nat
<1> DEFINE Good == {s \in SUBSET S : SumFunctionOnSet(f, s) \in Nat}
<1>1. {} \in Good
  BY SumEmpty
<1>2. ASSUME NEW s \in SUBSET S, s # {}, s \ {Some(s)} \in Good
      PROVE  s \in Good
  <2>1. IsFiniteSet(s)
    BY FS_Subset
  <2>2. Some(s) \in s /\ SumFunctionOnSet(f, s) = f[Some(s)] + SumFunctionOnSet(f, s \ {Some(s)})
    BY <1>2, <2>1, SumSome
  <2> QED
    BY <1>2, <2>2
<1>3. Good \in SUBSET (SUBSET S)
  OBVIOUS
<1> HIDE DEF Good
<1>4. Good = SUBSET S
  BY <1>1, <1>2, <1>3, SubsetInduction
<1> QED
  BY <1>4 DEF Good

\* Functions that agree on a set have one sum over it.
LEMMA SumSame ==
    ASSUME NEW S, IsFiniteSet(S), NEW f, NEW g, \A x \in S : f[x] = g[x]
    PROVE  SumFunctionOnSet(f, S) = SumFunctionOnSet(g, S)
<1> DEFINE Good == {s \in SUBSET S : SumFunctionOnSet(f, s) = SumFunctionOnSet(g, s)}
<1>1. {} \in Good
  BY SumEmpty
<1>2. ASSUME NEW s \in SUBSET S, s # {}, s \ {Some(s)} \in Good
      PROVE  s \in Good
  <2>1. IsFiniteSet(s)
    BY FS_Subset
  <2>2. /\ Some(s) \in s
        /\ SumFunctionOnSet(f, s) = f[Some(s)] + SumFunctionOnSet(f, s \ {Some(s)})
        /\ SumFunctionOnSet(g, s) = g[Some(s)] + SumFunctionOnSet(g, s \ {Some(s)})
    BY <1>2, <2>1, SumSome
  <2> QED
    BY <1>2, <2>2
<1>3. Good \in SUBSET (SUBSET S)
  OBVIOUS
<1> HIDE DEF Good
<1>4. Good = SUBSET S
  BY <1>1, <1>2, <1>3, SubsetInduction
<1> QED
  BY <1>4 DEF Good

\* Every element may be the first, since addition commutes.
LEMMA SumTake ==
    ASSUME NEW S, IsFiniteSet(S), NEW f, \A x \in S : f[x] \in Int, NEW y \in S
    PROVE  SumFunctionOnSet(f, S) = f[y] + SumFunctionOnSet(f, S \ {y})
<1> DEFINE U == SUBSET S
           Good == {s \in U : \A z \in s :
                       SumFunctionOnSet(f, s) = f[z] + SumFunctionOnSet(f, s \ {z})}
<1>1. \A s \in U : IsFiniteSet(s) /\ Cardinality(s) \in Nat
                          /\ SumFunctionOnSet(f, s) \in Int
  BY FS_Subset, FS_CardinalityType, SumType
<1>2. ASSUME NEW s \in U,
             \A t \in U : Cardinality(t) < Cardinality(s) => t \in Good
      PROVE  s \in Good
  <2> SUFFICES ASSUME NEW z \in s
               PROVE  SumFunctionOnSet(f, s) = f[z] + SumFunctionOnSet(f, s \ {z})
    OBVIOUS
  <2>1. PICK c \in s : SumFunctionOnSet(f, s) = f[c] + SumFunctionOnSet(f, s \ {c})
    BY <1>1, SumSome
  <2>2. CASE c # z
    <3>1. \A x \in s : /\ s \ {x} \in SUBSET S
                       /\ Cardinality(s \ {x}) = Cardinality(s) - 1
      BY <1>1, FS_RemoveElement
    <3>2. s \ {c} \in Good /\ s \ {z} \in Good
      BY <1>1, <1>2, <3>1
    <3>3. SumFunctionOnSet(f, s \ {c}) = f[z] + SumFunctionOnSet(f, (s \ {c}) \ {z})
      BY <3>2, <2>2
    <3>4. SumFunctionOnSet(f, s \ {z}) = f[c] + SumFunctionOnSet(f, (s \ {z}) \ {c})
      BY <3>2, <2>2
    <3>5. (s \ {c}) \ {z} = (s \ {z}) \ {c} /\ (s \ {c}) \ {z} \in SUBSET S
      OBVIOUS
    <3>6. /\ SumFunctionOnSet(f, (s \ {c}) \ {z}) \in Int
          /\ f[c] \in Int /\ f[z] \in Int
      BY <1>1, <3>5
    <3>7. /\ SumFunctionOnSet(f, s \ {z}) \in Int /\ SumFunctionOnSet(f, s \ {c}) \in Int
          /\ SumFunctionOnSet(f, (s \ {z}) \ {c}) = SumFunctionOnSet(f, (s \ {c}) \ {z})
      BY <1>1, <3>1, <3>5
    <3> QED
      BY <2>1, <3>3, <3>4, <3>6, <3>7
  <2> QED
    BY <2>1, <2>2
<1>3. Good \in SUBSET U
  OBVIOUS
<1> HIDE DEF Good, U
<1>4. Good = U
  BY <1>1, <1>2, <1>3, SizeInduction
<1> QED
  BY <1>4 DEF Good, U

\* A set can be summed over in two parts.
LEMMA SumSplit ==
    ASSUME NEW S, IsFiniteSet(S), NEW f, \A x \in S : f[x] \in Int, NEW T \in SUBSET S
    PROVE  SumFunctionOnSet(f, S) = SumFunctionOnSet(f, T) + SumFunctionOnSet(f, S \ T)
<1> DEFINE Good == {s \in SUBSET T :
                SumFunctionOnSet(f, S) = SumFunctionOnSet(f, s) + SumFunctionOnSet(f, S \ s)}
<1>1. \A s \in SUBSET S : IsFiniteSet(s) /\ SumFunctionOnSet(f, s) \in Int
  BY FS_Subset, SumType
<1>2. {} \in Good
  <2>1. S \ {} = S /\ S \in SUBSET S
    OBVIOUS
  <2> QED
    BY <1>1, <2>1, SumEmpty
<1>3. ASSUME NEW s \in SUBSET T, s # {}, s \ {Some(s)} \in Good
      PROVE  s \in Good
  <2> DEFINE c == Some(s)
             t == s \ {c}
  <2>1. c \in s /\ SumFunctionOnSet(f, s) = f[c] + SumFunctionOnSet(f, t)
    BY <1>1, <1>3, SumSome
  <2>2. c \in S \ t /\ (S \ t) \ {c} = S \ s /\ S \ t \in SUBSET S /\ S \ s \in SUBSET S
    BY <2>1
  <2>3. SumFunctionOnSet(f, S \ t) = f[c] + SumFunctionOnSet(f, S \ s)
    <3>1. IsFiniteSet(S \ t) /\ \A x \in S \ t : f[x] \in Int
      BY <1>1, <2>2
    <3> HIDE DEF t, c
    <3> QED
      BY <2>2, <3>1, SumTake
  <2>4. /\ SumFunctionOnSet(f, t) \in Int /\ SumFunctionOnSet(f, S \ s) \in Int /\ f[c] \in Int
        /\ SumFunctionOnSet(f, S) = SumFunctionOnSet(f, t) + SumFunctionOnSet(f, S \ t)
    BY <1>1, <1>3, <2>1, <2>2
  <2> HIDE DEF t, c
  <2> QED
    BY <2>1, <2>3, <2>4
<1>4. Good \in SUBSET (SUBSET T) /\ IsFiniteSet(T)
  BY <1>1
<1> HIDE DEF Good
<1>5. Good = SUBSET T
  BY <1>2, <1>3, <1>4, SubsetInduction
<1> QED
  BY <1>5 DEF Good

-----------------------------------------------------------------------------
(* Sequences that lose or gain an element.                                 *)

\* What a sequence is without its element i: an item that leaves the list of
\* uses, an element that leaves its chain.
LEMMA RemoveAtFacts ==
    ASSUME NEW S, NEW s \in Seq(S), NEW i \in 1 .. Len(s)
    PROVE  /\ RemoveAt(s, i) \in Seq(S)
           /\ Len(RemoveAt(s, i)) = Len(s) - 1
           /\ \A j \in 1 .. (Len(s) - 1) : RemoveAt(s, i)[j] = IF j < i THEN s[j] ELSE s[j + 1]
<1> DEFINE a == SubSeq(s, 1, i - 1)
           b == SubSeq(s, i + 1, Len(s))
<1>1. /\ a \in Seq(S) /\ Len(a) = i - 1
      /\ \A j \in 1 .. (i - 1) : a[j] = s[j]
  OBVIOUS
<1>2. /\ b \in Seq(S) /\ Len(b) = Len(s) - i
      /\ \A j \in 1 .. (Len(s) - i) : b[j] = s[i + j]
  OBVIOUS
<1>3. RemoveAt(s, i) = a \o b
  BY DEF RemoveAt
<1> HIDE DEF a, b
<1>4. /\ a \o b \in Seq(S) /\ Len(a \o b) = Len(a) + Len(b)
      /\ \A j \in 1 .. (Len(a) + Len(b)) :
            (a \o b)[j] = IF j <= Len(a) THEN a[j] ELSE b[j - Len(a)]
  <2>1. a \in Seq(S) /\ b \in Seq(S)
    BY <1>1, <1>2
  <2> QED
    BY <2>1
<1>5. ASSUME NEW j \in 1 .. (Len(s) - 1)
      PROVE  (a \o b)[j] = IF j < i THEN s[j] ELSE s[j + 1]
  <2>1. CASE j < i
    BY <2>1, <1>1, <1>2, <1>4
  <2>2. CASE ~ (j < i)
    <3>1. j - (i - 1) \in 1 .. (Len(s) - i) /\ i + (j - (i - 1)) = j + 1
      BY <2>2
    <3>2. b[j - (i - 1)] = s[j + 1]
      BY <3>1, <1>2
    <3> QED
      BY <2>2, <3>2, <1>1, <1>2, <1>4
  <2> QED
    BY <2>1, <2>2
<1> QED
  BY <1>1, <1>2, <1>3, <1>4, <1>5

Distinct(s) == \A i, j \in DOMAIN s : s[i] = s[j] => i = j

\* A list without repetition loses exactly the element that is removed.
LEMMA RemoveFirstFacts ==
    ASSUME NEW S, NEW s \in Seq(S), NEW e, Distinct(s)
    PROVE  /\ RemoveFirst(s, e) \in Seq(S) /\ Distinct(RemoveFirst(s, e))
           /\ Range(RemoveFirst(s, e)) = Range(s) \ {e}
<1>1. CASE e \notin Range(s)
  <2>1. ~ \E i \in 1 .. Len(s) : s[i] = e
    BY <1>1 DEF Range
  <2>2. RemoveFirst(s, e) = s
    BY <2>1 DEF RemoveFirst
  <2> QED
    BY <1>1, <2>2
<1>2. CASE e \in Range(s)
  <2> DEFINE I == {i \in 1 .. Len(s) : s[i] = e}
  <2>1. PICK i \in 1 .. Len(s) : s[i] = e
    BY <1>2 DEF Range
  <2>2. I = {i}
    BY <2>1 DEF Distinct
  <2>3. Min(I) = i
    BY <2>2 DEF Min
  <2> DEFINE r == RemoveAt(s, i)
  <2>4. RemoveFirst(s, e) = r
    BY <2>1, <2>2, <2>3 DEF RemoveFirst, SelectInSeq
  <2>5. /\ r \in Seq(S) /\ Len(r) = Len(s) - 1 /\ DOMAIN r = 1 .. (Len(s) - 1)
        /\ \A j \in 1 .. (Len(s) - 1) : r[j] = IF j < i THEN s[j] ELSE s[j + 1]
    <3>1. r \in Seq(S) /\ Len(r) = Len(s) - 1
      BY RemoveAtFacts
    <3>2. \A j \in 1 .. (Len(s) - 1) : r[j] = IF j < i THEN s[j] ELSE s[j + 1]
      BY RemoveAtFacts
    <3>3. DOMAIN r = 1 .. Len(r)
      <4> HIDE DEF r
      <4> QED
        BY <3>1
    <3> HIDE DEF r
    <3> QED
      BY <3>1, <3>2, <3>3
  <2> HIDE DEF r
  <2> DEFINE at(j) == IF j < i THEN j ELSE j + 1
  <2>6. Distinct(r)
    <3> SUFFICES ASSUME NEW j \in 1 .. (Len(s) - 1), NEW k \in 1 .. (Len(s) - 1), r[j] = r[k]
                 PROVE  j = k
      BY <2>5 DEF Distinct
    <3>1. at(j) \in 1 .. Len(s) /\ at(k) \in 1 .. Len(s) /\ (at(j) = at(k) => j = k)
      OBVIOUS
    <3>2. s[at(j)] = s[at(k)]
      BY <2>5
    <3> QED
      BY <3>1, <3>2 DEF Distinct
  <2>7. ASSUME NEW x \in Range(r) PROVE x \in Range(s) \ {e}
    <3>1. PICK j \in 1 .. (Len(s) - 1) : x = r[j]
      BY <2>5, <2>7 DEF Range
    <3>2. PICK k \in 1 .. Len(s) : x = s[k] /\ k # i
      BY <2>5, <3>1
    <3> QED
      BY <2>1, <3>2 DEF Range, Distinct
  <2>8. ASSUME NEW x \in Range(s), x # e PROVE x \in Range(r)
    <3>1. PICK j \in 1 .. Len(s) : x = s[j]
      BY DEF Range
    <3>2. j # i
      BY <3>1, <2>1, <2>8
    <3>3. CASE j < i
      <4>1. j \in 1 .. (Len(s) - 1) /\ r[j] = x
        BY <3>1, <3>3, <2>5
      <4> QED
        BY <4>1, <2>5 DEF Range
    <3>4. CASE j > i
      <4>1. j - 1 \in 1 .. (Len(s) - 1) /\ r[j - 1] = x
        BY <3>1, <3>4, <2>5
      <4> QED
        BY <4>1, <2>5 DEF Range
    <3> QED
      BY <3>2, <3>3, <3>4
  <2> QED
    BY <2>4, <2>5, <2>6, <2>7, <2>8
<1> QED
  BY <1>1, <1>2

\* The sum over one element.
LEMMA SumOne ==
    ASSUME NEW k, NEW f, f[k] \in Int PROVE SumFunctionOnSet(f, {k}) = f[k]
<1>1. IsFiniteSet({k}) /\ {k} \ {k} = {}
  BY FS_Singleton
<1>2. SumFunctionOnSet(f, {k}) = f[k] + SumFunctionOnSet(f, {k} \ {k})
  <2> DEFINE T == {k}
  <2>1. IsFiniteSet(T) /\ k \in T /\ \A x \in T : f[x] \in Int
    BY <1>1
  <2> HIDE DEF T
  <2>2. SumFunctionOnSet(f, T) = f[k] + SumFunctionOnSet(f, T \ {k})
    BY <2>1, SumTake
  <2> QED
    BY <2>2 DEF T
<1>3. SumFunctionOnSet(f, {k}) = f[k] + 0
  BY <1>1, <1>2, SumEmpty
<1> QED
  BY <1>3

\* A list without repetition takes a new element at its end.
LEMMA AppendNew ==
    ASSUME NEW S, NEW s \in Seq(S), Distinct(s), NEW x \in S, x \notin Range(s)
    PROVE  /\ Append(s, x) \in Seq(S) /\ Distinct(Append(s, x))
           /\ Range(Append(s, x)) = Range(s) \cup {x}
<1> DEFINE r == Append(s, x)
<1>1. /\ r \in Seq(S) /\ DOMAIN r = 1 .. (Len(s) + 1) /\ r[Len(s) + 1] = x
      /\ \A i \in 1 .. Len(s) : r[i] = s[i]
      /\ Len(s) \in Nat /\ DOMAIN s = 1 .. Len(s)
  OBVIOUS
<1>2. \A i \in 1 .. Len(s) : s[i] # x
  BY <1>1 DEF Range
<1>3. Distinct(r)
  <2> HIDE DEF r
  <2> SUFFICES ASSUME NEW i \in 1 .. (Len(s) + 1), NEW j \in 1 .. (Len(s) + 1), r[i] = r[j]
               PROVE  i = j
    BY <1>1 DEF Distinct
  <2>1. CASE i \in 1 .. Len(s) /\ j \in 1 .. Len(s)
    BY <1>1, <2>1 DEF Distinct
  <2>2. CASE ~ (i \in 1 .. Len(s) /\ j \in 1 .. Len(s))
    BY <1>1, <1>2, <2>2
  <2> QED
    BY <2>1, <2>2
<1> QED
  BY <1>1, <1>3, RangeOfAppend

\* Without its last n elements a list names what they are not.
LEMMA PrefixFacts ==
    ASSUME NEW S, NEW s \in Seq(S), Distinct(s), NEW n \in 0 .. Len(s)
    PROVE  LET r == SubSeq(s, 1, Len(s) - n) IN
           /\ r \in Seq(S) /\ Distinct(r)
           /\ Range(r) = Range(s) \ {s[i] : i \in (Len(s) - n + 1) .. Len(s)}
<1> DEFINE r == SubSeq(s, 1, Len(s) - n)
           m == Len(s) - n
<1>1. /\ Len(s) \in Nat /\ DOMAIN s = 1 .. Len(s)
      /\ m \in 0 .. Len(s) /\ n = Len(s) - m
  OBVIOUS
<1>2. /\ r \in Seq(S) /\ Len(r) = m /\ \A i \in 1 .. m : r[i] = s[i]
  OBVIOUS
<1> HIDE DEF r, m
<1>3. DOMAIN r = 1 .. m
  BY <1>2
<1>4. Distinct(r)
  BY <1>1, <1>2, <1>3 DEF Distinct
<1>5. ASSUME NEW x \in Range(r) PROVE x \in Range(s) /\ \A i \in (m + 1) .. Len(s) : x # s[i]
  <2>1. PICK i \in 1 .. m : x = s[i]
    BY <1>2, <1>3 DEF Range
  <2> QED
    BY <2>1, <1>1 DEF Range, Distinct
<1>6. ASSUME NEW x \in Range(s), \A i \in (m + 1) .. Len(s) : x # s[i] PROVE x \in Range(r)
  <2>1. PICK i \in 1 .. Len(s) : x = s[i]
    BY <1>1 DEF Range
  <2>2. i \in 1 .. m
    BY <1>1, <1>6, <2>1
  <2>3. r[i] = x
    BY <1>2, <2>1, <2>2
  <2> QED
    BY <1>3, <2>2, <2>3 DEF Range
<1>7. Range(r) = Range(s) \ {s[i] : i \in (m + 1) .. Len(s)}
  BY <1>5, <1>6
<1> QED
  BY <1>2, <1>4, <1>7 DEF r, m

\* A list without repetition is as long as it names elements.
LEMMA DistinctSize ==
    ASSUME NEW S, NEW s \in Seq(S), Distinct(s)
    PROVE  IsFiniteSet(Range(s)) /\ Cardinality(Range(s)) = Len(s)
<1>1. Len(s) \in Nat /\ DOMAIN s = 1 .. Len(s)
  OBVIOUS
<1>2. IsFiniteSet(1 .. Len(s)) /\ Cardinality(1 .. Len(s)) = Len(s)
  BY <1>1, FS_Interval
<1>3. s \in [1 .. Len(s) -> Range(s)]
  BY <1>1 DEF Range
<1>4. s \in Bijection(1 .. Len(s), Range(s))
  BY <1>1, <1>3 DEF Bijection, Injection, Surjection, IsInjective, Distinct, Range
<1>5. ExistsBijection(1 .. Len(s), Range(s))
  BY <1>4 DEF ExistsBijection
<1> QED
  BY <1>2, <1>5, FS_Bijection

-----------------------------------------------------------------------------
(* The cache.                                                              *)

\* Room is free, in use or was lost.
Balanced == availablesize + Used + lost = maxsize

\* The inductive invariant: the list of uses names each item once, and the room
\* adds up.  RoomAccounted alone does not say that the list has no repetition
\* in terms a removal or an eviction preserves.
RoomInv ==
    /\ TypeOK /\ Distinct(recent) /\ Range(recent) = Present
    /\ Balanced /\ HangsOnlyWhenDrained

\* room gives every key in the cache the size of its item, a natural number.
LEMMA RoomOfItems ==
    ASSUME TypeOK, IsFiniteSet(Present)
    PROVE  /\ \A k \in Present : room[k] = size[items[k].globalAddress] /\ room[k] \in Nat
           /\ Used = SumFunctionOnSet(room, Present) /\ Used \in Nat
<1>1. \A k \in Present : items[k] \in CacheItem
  BY DEF TypeOK, Present
<1>2. \A k \in Present : room[k] = size[items[k].globalAddress] /\ room[k] \in Nat
  BY <1>1, CacheAssumption DEF room, CacheItem
<1>3. Used = SumFunctionOnSet(room, Present)
  BY DEF Used, SumFunction, room
<1>4. SumFunctionOnSet(room, Present) \in Nat
  BY <1>2, SumNat
<1> QED
  BY <1>2, <1>3, <1>4

\* The cache holds as many items as its list of uses is long.
LEMMA PresentFinite ==
    ASSUME RoomInv
    PROVE  IsFiniteSet(Present) /\ Cardinality(Present) = Len(recent)
  BY DistinctSize DEF RoomInv, TypeOK

\* The mark of an absent key is not an item.
LEMMA NoItemIsNone == NoItem \notin CacheItem
  BY CacheAssumption DEF NoItem, CacheItem

\* A new item takes its size.
LEMMA ItemAdded ==
    ASSUME RoomInv, NEW a \in Gaddr, NEW v \in Value, items[keyOf[a]] = NoItem,
           items' = [items EXCEPT ![keyOf[a]] = Item(a, v)]
    PROVE  /\ items' \in [Key -> CacheItem \cup {NoItem}]
           /\ Present' = Present \cup {keyOf[a]} /\ keyOf[a] \notin Present
           /\ Used' = Used + size[a]
<1> DEFINE k == keyOf[a]
<1>1. /\ k \in Key /\ size[a] \in Nat /\ Item(a, v) \in CacheItem
      /\ items \in [Key -> CacheItem \cup {NoItem}]
  BY CacheAssumption DEF RoomInv, TypeOK, Item, CacheItem
<1>2. Item(a, v) # NoItem
  BY <1>1, NoItemIsNone
<1>3. Present' = Present \cup {k} /\ k \notin Present
  BY <1>1, <1>2 DEF Present
<1>4. /\ IsFiniteSet(Present) /\ IsFiniteSet(Present') /\ (Present \cup {k}) \ {k} = Present
  BY <1>3, PresentFinite, FS_AddElement
<1>5. \A j \in Present' : room'[j] = size[items'[j].globalAddress]
  BY DEF room
<1>6. room'[k] = size[a] /\ \A j \in Present : room'[j] = room[j]
  <2>1. room'[k] = size[a]
    BY <1>1, <1>3, <1>5 DEF Item
  <2>2. \A j \in Present : items'[j] = items[j] /\ room[j] = size[items[j].globalAddress]
    BY <1>1, <1>3 DEF room, Present
  <2> QED
    BY <1>3, <1>5, <2>1, <2>2
<1>7. /\ Used = SumFunctionOnSet(room, Present) /\ Used \in Nat
      /\ \A j \in Present : room[j] \in Nat
  BY <1>4, RoomOfItems DEF RoomInv
<1>8. Used' = SumFunctionOnSet(room', Present')
  BY DEF Used, SumFunction, room
<1>9. \A j \in Present' : room'[j] \in Int
  BY <1>1, <1>3, <1>6, <1>7
<1>10. SumFunctionOnSet(room', Present') = room'[k] + SumFunctionOnSet(room', Present' \ {k})
  <2> DEFINE R == room'  Q == Present'
  <2>1. IsFiniteSet(Q) /\ k \in Q /\ \A j \in Q : R[j] \in Int
    BY <1>3, <1>4, <1>9
  <2> HIDE DEF R, Q, k
  <2>2. SumFunctionOnSet(R, Q) = R[k] + SumFunctionOnSet(R, Q \ {k})
    BY <2>1, SumTake
  <2> QED
    BY <2>2 DEF R, Q
<1>11. SumFunctionOnSet(room', Present) = SumFunctionOnSet(room, Present)
  <2> DEFINE R == room'
  <2>1. \A j \in Present : R[j] = room[j]
    BY <1>6
  <2> HIDE DEF R
  <2>2. SumFunctionOnSet(R, Present) = SumFunctionOnSet(room, Present)
    BY <1>4, <2>1, SumSame
  <2> QED
    BY <2>2 DEF R
<1>12. Present' \ {k} = Present
  BY <1>3, <1>4
<1>13. items' \in [Key -> CacheItem \cup {NoItem}]
  BY <1>1
<1>14. SumFunctionOnSet(room', Present' \ {k}) = SumFunctionOnSet(room, Present)
  BY <1>11, <1>12, Zenon
<1>15. Used' = size[a] + Used
  BY <1>6, <1>7, <1>8, <1>10, <1>14, Zenon
<1>16. Used' = Used + size[a]
  BY <1>1, <1>7, <1>15
<1> QED
  BY <1>3, <1>13, <1>16

\* An item that replaces another changes the room in use by their difference.
LEMMA ItemReplaced ==
    ASSUME RoomInv, NEW a \in Gaddr, NEW v \in Value, items[keyOf[a]] # NoItem,
           items' = [items EXCEPT ![keyOf[a]] = Item(a, v)]
    PROVE  /\ items' \in [Key -> CacheItem \cup {NoItem}]
           /\ Present' = Present /\ keyOf[a] \in Present
           /\ Used' = Used - size[items[keyOf[a]].globalAddress] + size[a]
           /\ size[items[keyOf[a]].globalAddress] \in Nat
<1> DEFINE k == keyOf[a]
<1>1. /\ k \in Key /\ size[a] \in Nat /\ Item(a, v) \in CacheItem
      /\ items \in [Key -> CacheItem \cup {NoItem}]
  BY CacheAssumption DEF RoomInv, TypeOK, Item, CacheItem
<1>2. Item(a, v) # NoItem
  BY <1>1, NoItemIsNone
<1>3. Present' = Present /\ k \in Present
  BY <1>1, <1>2 DEF Present
<1>4. IsFiniteSet(Present)
  BY PresentFinite
<1>5. /\ Used = SumFunctionOnSet(room, Present) /\ Used \in Nat
      /\ \A j \in Present : room[j] \in Nat /\ room[j] = size[items[j].globalAddress]
  BY <1>4, RoomOfItems DEF RoomInv
<1>6. room'[k] = size[a] /\ \A j \in Present \ {k} : room'[j] = room[j]
  <2>1. \A j \in Present' : room'[j] = size[items'[j].globalAddress]
    BY DEF room
  <2>2. items'[k].globalAddress = a /\ \A j \in Present \ {k} : items'[j] = items[j]
    BY <1>1 DEF Item, Present
  <2> QED
    BY <1>3, <1>5, <2>1, <2>2
<1>7. Used' = SumFunctionOnSet(room', Present)
  BY <1>3 DEF Used, SumFunction, room
<1>8. /\ SumFunctionOnSet(room', Present) = size[a] + SumFunctionOnSet(room, Present \ {k})
      /\ SumFunctionOnSet(room, Present) = room[k] + SumFunctionOnSet(room, Present \ {k})
      /\ SumFunctionOnSet(room, Present \ {k}) \in Int
  <2> DEFINE R == room'  T == Present \ {k}
  <2>1. \A j \in T : R[j] = room[j]
    BY <1>6
  <2>2. \A j \in Present : R[j] \in Int
    BY <1>1, <1>5, <1>6
  <2>3. IsFiniteSet(T) /\ \A j \in T : room[j] \in Int
    BY <1>4, <1>5, FS_RemoveElement
  <2>4. R[k] = size[a]
    BY <1>6
  <2>5. \A j \in Present : room[j] \in Int
    BY <1>5
  <2> HIDE DEF R, k
  <2>6. SumFunctionOnSet(R, Present) = R[k] + SumFunctionOnSet(R, T)
    BY <1>3, <1>4, <2>2, SumTake
  <2>7. SumFunctionOnSet(room, Present) = room[k] + SumFunctionOnSet(room, T)
    BY <1>3, <1>4, <2>5, SumTake
  <2> HIDE DEF T
  <2>8. SumFunctionOnSet(R, T) = SumFunctionOnSet(room, T)
    BY <2>1, <2>3, SumSame
  <2>9. SumFunctionOnSet(room, T) \in Int
    BY <2>3, SumType
  <2>10. SumFunctionOnSet(R, Present) = size[a] + SumFunctionOnSet(room, T)
    BY <2>4, <2>6, <2>8, Zenon
  <2> QED
    BY <2>7, <2>9, <2>10 DEF R, T
<1>9. items' \in [Key -> CacheItem \cup {NoItem}]
  BY <1>1
<1>10. Used' = size[a] + SumFunctionOnSet(room, Present \ {k})
  BY <1>7, <1>8, Zenon
<1>11. room[k] = size[items[k].globalAddress] /\ room[k] \in Nat
  BY <1>3, <1>5
<1>12. Used = size[items[k].globalAddress] + SumFunctionOnSet(room, Present \ {k})
  BY <1>5, <1>8, <1>11, Zenon
<1>13. Used' = Used - size[items[k].globalAddress] + size[a]
  BY <1>1, <1>8, <1>10, <1>11, <1>12
<1> QED
  BY <1>3, <1>9, <1>11, <1>13

\* Items that go leave their room.
LEMMA ItemsGone ==
    ASSUME RoomInv, NEW S \in SUBSET Present,
           items' = [j \in Key |-> IF j \in S THEN NoItem ELSE items[j]]
    PROVE  /\ items' \in [Key -> CacheItem \cup {NoItem}]
           /\ Present' = Present \ S
           /\ Used' = Used - SumFunctionOnSet(room, S)
           /\ Used' \in Nat /\ SumFunctionOnSet(room, S) \in Nat
<1>1. items \in [Key -> CacheItem \cup {NoItem}]
  BY DEF RoomInv, TypeOK
<1>2. items' \in [Key -> CacheItem \cup {NoItem}] /\ Present' = Present \ S
  BY <1>1 DEF Present
<1>3. IsFiniteSet(Present) /\ IsFiniteSet(S) /\ IsFiniteSet(Present \ S)
  BY PresentFinite, FS_Subset, FS_Difference
<1>4. /\ Used = SumFunctionOnSet(room, Present)
      /\ \A j \in Present : room[j] \in Nat /\ room[j] = size[items[j].globalAddress]
  BY <1>3, RoomOfItems DEF RoomInv
<1>5. \A j \in Present \ S : room'[j] = room[j]
  <2>1. \A j \in Present' : room'[j] = size[items'[j].globalAddress]
    BY DEF room
  <2>2. \A j \in Present \ S : items'[j] = items[j]
    BY DEF Present
  <2> QED
    BY <1>2, <1>4, <2>1, <2>2
<1>6. Used' = SumFunctionOnSet(room', Present \ S)
  BY <1>2 DEF Used, SumFunction, room
<1>7. SumFunctionOnSet(room', Present \ S) = SumFunctionOnSet(room, Present \ S)
  <2> DEFINE R == room'  T == Present \ S
  <2>1. IsFiniteSet(T) /\ \A j \in T : R[j] = room[j]
    BY <1>3, <1>5
  <2> HIDE DEF R, T
  <2>2. SumFunctionOnSet(R, T) = SumFunctionOnSet(room, T)
    BY <2>1, SumSame
  <2> QED
    BY <2>2 DEF R, T
<1>8. SumFunctionOnSet(room, Present) =
          SumFunctionOnSet(room, S) + SumFunctionOnSet(room, Present \ S)
  <2>1. \A j \in Present : room[j] \in Int
    BY <1>4
  <2> QED
    BY <1>3, <2>1, SumSplit
<1>9. SumFunctionOnSet(room, S) \in Nat /\ SumFunctionOnSet(room, Present \ S) \in Nat
  <2> DEFINE T == Present \ S
  <2>1. IsFiniteSet(T) /\ \A j \in T : room[j] \in Nat
    BY <1>3, <1>4
  <2> HIDE DEF T
  <2>2. SumFunctionOnSet(room, T) \in Nat
    BY <2>1, SumNat
  <2>3. SumFunctionOnSet(room, S) \in Nat
    BY <1>3, <1>4, SumNat
  <2> QED
    BY <2>2, <2>3 DEF T
<1>10. Used' = SumFunctionOnSet(room, Present \ S)
  BY <1>6, <1>7, Zenon
<1> QED
  BY <1>2, <1>4, <1>8, <1>9, <1>10

-----------------------------------------------------------------------------
\* The empty cache has all of its room.
LEMMA InitRoomInv == Init => RoomInv
<1> SUFFICES ASSUME Init PROVE RoomInv
  OBVIOUS
<1>1. TypeOK /\ recent = << >> /\ Present = {}
  BY CacheAssumption DEF Init, TypeOK, Present
<1>2. Distinct(recent) /\ Range(recent) = Present
  BY <1>1 DEF Distinct, Range
<1>3. IsFiniteSet(Present)
  BY <1>1, FS_EmptySet
<1>4. Used = 0
  BY <1>1, <1>3, RoomOfItems, SumEmpty
<1>5. Balanced /\ HangsOnlyWhenDrained
  BY <1>4, CacheAssumption DEF Init, Balanced, HangsOnlyWhenDrained
<1> QED
  BY <1>1, <1>2, <1>5 DEF RoomInv

\* What the calls do to the list of uses.
LEMMA TouchedFacts ==
    ASSUME RoomInv, NEW k \in Key
    PROVE  /\ Touched(k) \in Seq(Key) /\ Distinct(Touched(k))
           /\ Range(Touched(k)) = Present \cup {k}
<1>1. recent \in Seq(Key) /\ Distinct(recent) /\ Range(recent) = Present
  BY DEF RoomInv, TypeOK
<1> DEFINE r == RemoveFirst(recent, k)
<1>2. r \in Seq(Key) /\ Distinct(r) /\ Range(r) = Present \ {k}
  BY <1>1, RemoveFirstFacts
<1> HIDE DEF r
<1>3. /\ Append(r, k) \in Seq(Key) /\ Distinct(Append(r, k))
      /\ Range(Append(r, k)) = Range(r) \cup {k}
  BY <1>2, AppendNew
<1>4. Touched(k) = Append(r, k)
  BY DEF Touched, r
<1> QED
  BY <1>2, <1>3, <1>4

\* The n latest uses name n keys of the cache, and they are the keys that
\* removeOldestItem erases.
LEMMA LatestFacts ==
    ASSUME RoomInv, NEW n \in 0 .. Len(recent)
    PROVE  /\ Latest(n) \in SUBSET Present
           /\ SubSeq(recent, 1, Len(recent) - n) \in Seq(Key)
           /\ Distinct(SubSeq(recent, 1, Len(recent) - n))
           /\ Range(SubSeq(recent, 1, Len(recent) - n)) = Present \ Latest(n)
<1>1. recent \in Seq(Key) /\ Distinct(recent) /\ Range(recent) = Present
  BY DEF RoomInv, TypeOK
<1>2. DOMAIN recent = 1 .. Len(recent) /\ Len(recent) \in Nat
  BY <1>1
<1>3. Latest(n) \in SUBSET Present
  BY <1>1, <1>2 DEF Latest, Range
<1>4. Latest(n) = {recent[i] : i \in (Len(recent) - n + 1) .. Len(recent)}
  BY DEF Latest
<1> QED
  BY <1>1, <1>3, <1>4, PrefixFacts

\* Once all are named, nothing is left.
LEMMA LatestAll ==
    ASSUME RoomInv PROVE Latest(Len(recent)) = Present
<1>1. recent \in Seq(Key) /\ Range(recent) = Present
  BY DEF RoomInv, TypeOK
<1>2. DOMAIN recent = 1 .. Len(recent) /\ Len(recent) - Len(recent) + 1 = 1
  BY <1>1
<1> QED
  BY <1>1, <1>2 DEF Latest, Range

\* removeOldestItem gives back the room of what it erases.
LEMMA EvictKeeps ==
    ASSUME RoomInv, NEW n \in 0 .. Len(recent), Evict(n)
    PROVE  /\ items' \in [Key -> CacheItem \cup {NoItem}]
           /\ recent' \in Seq(Key) /\ Distinct(recent)' /\ (Range(recent) = Present)'
           /\ availablesize' \in Nat /\ availablesize' + Used' = availablesize + Used
<1>1. Latest(n) \in SUBSET Present
  BY LatestFacts
<1>2. items' = [j \in Key |-> IF j \in Latest(n) THEN NoItem ELSE items[j]]
  BY DEF Evict
<1> DEFINE S == Latest(n)
<1> HIDE DEF S
<1>3. /\ items' \in [Key -> CacheItem \cup {NoItem}] /\ Present' = Present \ S
      /\ Used' = Used - SumFunctionOnSet(room, S)
      /\ Used' \in Nat /\ SumFunctionOnSet(room, S) \in Nat
  BY <1>1, <1>2, ItemsGone DEF S
<1>4. recent' \in Seq(Key) /\ Distinct(recent') /\ Range(recent') = Present \ S
  BY LatestFacts DEF Evict, S
<1>5. availablesize' = availablesize + SumFunctionOnSet(room, S)
  BY DEF Evict, RoomAfter, S
<1>6. Used \in Nat /\ availablesize \in Nat
  BY PresentFinite, RoomOfItems DEF RoomInv, TypeOK
<1>7. availablesize' \in Nat /\ availablesize' + Used' = availablesize + Used
  BY <1>3, <1>5, <1>6
<1> QED
  BY <1>3, <1>4, <1>7

\* addCacheItem, with the evictions it makes: the item it stores takes its size.
LEMMA AddKeeps ==
    ASSUME RoomInv, status = "up", NEW a \in Gaddr, NEW v \in Value, items[keyOf[a]] = NoItem,
           addCacheItem(a, v)
    PROVE  RoomInv'
<1> DEFINE k == keyOf[a]
<1>1. /\ k \in Key /\ size[a] \in Nat /\ recent \in Seq(Key) /\ Len(recent) \in Nat
      /\ availablesize \in Nat /\ lost \in Int /\ maxsize \in Nat
      /\ availablesize + Used + lost = maxsize /\ Used \in Nat
  BY CacheAssumption, PresentFinite, RoomOfItems DEF RoomInv, TypeOK, Balanced
<1>2. CASE /\ size[a] <= maxsize /\ Insert(a, v) /\ UNCHANGED <<lost, status>>
  <2>1. /\ items' \in [Key -> CacheItem \cup {NoItem}] /\ Present' = Present \cup {k}
        /\ Used' = Used + size[a]
    BY <1>2, ItemAdded DEF Insert
  <2>2. recent' \in Seq(Key) /\ Distinct(recent') /\ Range(recent') = Present \cup {k}
    BY <1>1, <1>2, TouchedFacts DEF Insert
  <2>3. /\ availablesize' = availablesize - size[a] /\ size[a] <= availablesize
        /\ lost' = lost /\ status' = "up"
    BY <1>2 DEF Insert
  <2>4. availablesize' \in Nat /\ availablesize' + Used' + lost' = maxsize
    <3>1. availablesize' \in Nat
      BY <1>1, <2>3
    <3>2. availablesize' + Used' + lost' = (availablesize - size[a]) + (Used + size[a]) + lost
      BY <2>1, <2>3
    <3>3. (availablesize - size[a]) + (Used + size[a]) + lost = availablesize + Used + lost
      BY <1>1
    <3> QED
      BY <1>1, <3>1, <3>2, <3>3
  <2> QED
    BY <1>1, <2>1, <2>2, <2>3, <2>4 DEF RoomInv, TypeOK, Balanced, HangsOnlyWhenDrained
<1>3. ASSUME NEW n \in 1 .. Len(recent), Evict(n), UNCHANGED <<lost, status>>
      PROVE  RoomInv'
  <2>1. n \in 0 .. Len(recent)
    BY <1>1
  <2>2. /\ items' \in [Key -> CacheItem \cup {NoItem}] /\ recent' \in Seq(Key)
        /\ Distinct(recent)' /\ (Range(recent) = Present)'
        /\ availablesize' \in Nat /\ availablesize' + Used' = availablesize + Used
    BY <1>3, <2>1, EvictKeeps
  <2>3. Balanced'
    BY <1>1, <1>3, <2>2 DEF Balanced
  <2> QED
    BY <1>1, <1>3, <2>2, <2>3 DEF RoomInv, TypeOK, HangsOnlyWhenDrained
<1>4. CASE /\ size[a] <= maxsize /\ RoomAfter(Len(recent)) < size[a] /\ Evict(Len(recent))
           /\ status' = "spin" /\ UNCHANGED lost
  <2>1. Len(recent) \in 0 .. Len(recent)
    BY <1>1
  <2>2. /\ items' \in [Key -> CacheItem \cup {NoItem}] /\ recent' \in Seq(Key)
        /\ Distinct(recent)' /\ (Range(recent) = Present)'
        /\ availablesize' \in Nat /\ availablesize' + Used' = availablesize + Used
    BY <1>4, <2>1, EvictKeeps
  <2>3. Balanced'
    BY <1>1, <1>4, <2>2 DEF Balanced
  <2>4. RoomAfter(Len(recent)) = availablesize + Used
    BY LatestAll, PresentFinite, RoomOfItems DEF RoomInv, RoomAfter
  <2>5. lost + size[a] > maxsize
    BY <1>1, <1>4, <2>4
  <2>6. HangsOnlyWhenDrained'
    BY <1>4, <2>5 DEF HangsOnlyWhenDrained
  <2> QED
    BY <1>1, <1>4, <2>2, <2>3, <2>6 DEF RoomInv, TypeOK
<1>5. CASE status' = "dead" /\ UNCHANGED <<items, recent, availablesize, lost>>
  <2>1. (room = room)' /\ room' = room /\ Present' = Present
    BY <1>5 DEF room, Present
  <2>2. Used' = Used
    BY <1>5 DEF Used, room, Present
  <2> QED
    BY <1>5, <2>1, <2>2 DEF RoomInv, TypeOK, Balanced, HangsOnlyWhenDrained
<1> QED
  BY <1>2, <1>3, <1>4, <1>5 DEF addCacheItem

\* What is taken from the room in use and given to the room that was lost leaves
\* the sum as it is.
LEMMA MovedRoom ==
    ASSUME NEW x \in Int, NEW y \in Int, NEW z \in Int, NEW d \in Int, NEW e \in Int
    PROVE  x + (y - d + e) + (z + d - e) = x + y + z
  OBVIOUS

\* Every call of the cache keeps the list of uses, the items and the room in
\* agreement.
LEMMA NextRoomInv ==
    ASSUME RoomInv, Next PROVE RoomInv'
<1>1. /\ recent \in Seq(Key) /\ Distinct(recent) /\ Range(recent) = Present
      /\ availablesize \in Nat /\ lost \in Int /\ maxsize \in Nat
      /\ availablesize + Used + lost = maxsize /\ Used \in Nat
      /\ items \in [Key -> CacheItem \cup {NoItem}]
  BY CacheAssumption, PresentFinite, RoomOfItems DEF RoomInv, TypeOK, Balanced
<1>2. ASSUME NEW a \in Gaddr, getCacheItem(a) PROVE RoomInv'
  <2> DEFINE k == keyOf[a]
  <2>1. k \in Key /\ k \in Present
    BY <1>2, CacheAssumption DEF getCacheItem, Present
  <2>2. recent' \in Seq(Key) /\ Distinct(recent') /\ Range(recent') = Present \cup {k}
    BY <1>2, <2>1, TouchedFacts DEF getCacheItem
  <2>3. UNCHANGED <<items, availablesize, lost, status>> /\ status = "up"
    BY <1>2 DEF getCacheItem, Called
  <2>4. Present' = Present /\ Used' = Used
    BY <2>3 DEF Used, room, Present
  <2>5. Range(recent') = Present'
    BY <2>1, <2>2, <2>4
  <2> QED
    BY <1>1, <2>2, <2>3, <2>4, <2>5 DEF RoomInv, TypeOK, Balanced, HangsOnlyWhenDrained
<1>3. ASSUME NEW a \in Gaddr, removeCacheItem(a) PROVE RoomInv'
  <2> DEFINE k == keyOf[a]
             S == {k} \cap Present
  <2>1. k \in Key /\ S \in SUBSET Present
    BY CacheAssumption DEF Present
  <2>2. recent' = RemoveFirst(recent, k) /\ status' = "up"
        /\ items' = [items EXCEPT ![k] = NoItem] /\ availablesize' = availablesize
        /\ lost' = IF items[k] = NoItem THEN lost ELSE lost + size[items[k].globalAddress]
    BY <1>3 DEF removeCacheItem, Called
  <2>3. recent' \in Seq(Key) /\ Distinct(recent') /\ Range(recent') = Present \ {k}
    BY <1>1, <2>2, RemoveFirstFacts
  <2>4. items' = [j \in Key |-> IF j \in S THEN NoItem ELSE items[j]]
    BY <1>1, <2>1, <2>2 DEF Present
  <2>5. /\ items' \in [Key -> CacheItem \cup {NoItem}] /\ Present' = Present \ S
        /\ Used' = Used - SumFunctionOnSet(room, S) /\ SumFunctionOnSet(room, S) \in Nat
    <3> HIDE DEF S
    <3> QED
      BY <2>1, <2>4, ItemsGone
  <2>6. lost' = lost + SumFunctionOnSet(room, S)
    <3>1. CASE items[k] = NoItem
      <4>1. S = {}
        BY <3>1 DEF Present
      <4>2. SumFunctionOnSet(room, S) = 0
        BY <4>1, SumEmpty
      <4>3. lost' = lost
        BY <2>2, <3>1
      <4> HIDE DEF S
      <4> QED
        BY <1>1, <4>2, <4>3
    <3>2. CASE items[k] # NoItem
      <4>1. S = {k} /\ k \in Present
        BY <2>1, <3>2 DEF Present
      <4>2. /\ room[k] = size[items[k].globalAddress] /\ room[k] \in Nat
        BY <4>1, PresentFinite, RoomOfItems DEF RoomInv
      <4>3. SumFunctionOnSet(room, {k}) = room[k]
        BY <4>2, SumOne
      <4> QED
        BY <2>2, <3>2, <4>1, <4>2, <4>3
    <3> QED
      BY <3>1, <3>2
  <2>7. availablesize' + Used' + lost' = maxsize /\ lost' \in Int
    <3> DEFINE w == SumFunctionOnSet(room, S)
    <3>1. Used' = Used - w /\ lost' = lost + w /\ w \in Nat /\ availablesize' = availablesize
      BY <2>2, <2>5, <2>6
    <3> HIDE DEF w
    <3>2. availablesize' + Used' + lost' = availablesize + (Used - w) + (lost + w)
      BY <3>1
    <3> QED
      BY <1>1, <3>1, <3>2
  <2>8. Range(recent') = Present'
    BY <2>3, <2>5
  <2> QED
    BY <1>1, <2>2, <2>3, <2>5, <2>7, <2>8 DEF RoomInv, TypeOK, Balanced, HangsOnlyWhenDrained
<1>4. ASSUME NEW a \in Gaddr, NEW v \in Value, Fetch(a, v) PROVE RoomInv'
  BY <1>4, AddKeeps DEF Fetch, Called
<1>5. ASSUME NEW a \in Gaddr, NEW v \in Value, alterCacheItem(a, v) PROVE RoomInv'
  <2> DEFINE k == keyOf[a]
  <2>1. CASE items[k] = NoItem
    BY <1>5, <2>1, AddKeeps DEF alterCacheItem, Called
  <2>2. CASE items[k] # NoItem
    <3>1. /\ items' = [items EXCEPT ![k] = Item(a, v)] /\ recent' = Touched(k)
          /\ lost' = lost + size[items[k].globalAddress] - size[a]
          /\ availablesize' = availablesize /\ status' = "up"
      BY <1>5, <2>2 DEF alterCacheItem, Called
    <3>2. /\ items' \in [Key -> CacheItem \cup {NoItem}]
          /\ Present' = Present /\ k \in Present
          /\ Used' = Used - size[items[k].globalAddress] + size[a]
          /\ size[items[k].globalAddress] \in Nat
      BY <2>2, <3>1, ItemReplaced
    <3>3. k \in Key /\ size[a] \in Nat
      BY CacheAssumption
    <3>4. recent' \in Seq(Key) /\ Distinct(recent') /\ Range(recent') = Present \cup {k}
      BY <3>1, <3>3, TouchedFacts
    <3>5. Range(recent') = Present'
      BY <3>2, <3>4
    <3>6. availablesize' + Used' + lost' = maxsize /\ lost' \in Int
      <4> DEFINE w == size[items[k].globalAddress]
      <4>1. /\ Used' = Used - w + size[a] /\ lost' = lost + w - size[a]
            /\ w \in Nat /\ availablesize' = availablesize
        BY <3>1, <3>2
      <4> HIDE DEF w
      <4>2. availablesize' + Used' + lost'
                = availablesize + (Used - w + size[a]) + (lost + w - size[a])
        BY <4>1, Zenon
      <4>3. /\ availablesize \in Int /\ Used \in Int /\ lost \in Int
            /\ w \in Int /\ size[a] \in Int
        BY <1>1, <3>3, <4>1
      <4>5. availablesize + (Used - w + size[a]) + (lost + w - size[a])
                = availablesize + Used + lost
        BY <4>3, MovedRoom
      <4>4. lost' \in Int
        BY <1>1, <3>3, <4>1
      <4> QED
        BY <1>1, <4>2, <4>4, <4>5
    <3> QED
      BY <1>1, <3>1, <3>2, <3>4, <3>5, <3>6
          DEF RoomInv, TypeOK, Balanced, HangsOnlyWhenDrained
  <2> QED
    BY <2>1, <2>2
<1> QED
  BY <1>2, <1>3, <1>4, <1>5 DEF Next

\* Whatever the order of lookups, adds, alterations, removals and evictions, the
\* list of uses names every item once and the room adds up.
THEOREM CacheInvariant == Spec => []RoomInv
<1>1. RoomInv /\ UNCHANGED vars => RoomInv'
  <2> SUFFICES ASSUME RoomInv, UNCHANGED vars PROVE RoomInv'
    OBVIOUS
  <2>1. Present' = Present /\ Used' = Used
    BY DEF vars, Used, room, Present
  <2> QED
    BY <2>1 DEF vars, RoomInv, TypeOK, Balanced, HangsOnlyWhenDrained
<1>2. RoomInv /\ [Next]_vars => RoomInv'
  BY <1>1, NextRoomInv
<1> QED
  BY <1>2, InitRoomInv, PTL DEF Spec

\* availablesize is what the items in the cache, and the invalidations and
\* collisions before, have left of maxsize: evictions neither lose room nor
\* invent any, and removeOldestItem finds an item while there is one.
THEOREM RoomIsConserved == Spec => []RoomAccounted
<1>1. RoomInv => RoomAccounted
  <2> SUFFICES ASSUME RoomInv PROVE RoomAccounted
    OBVIOUS
  <2>1. Latest(Len(recent)) = Present /\ Len(recent) = Cardinality(Present)
    BY LatestAll, PresentFinite
  <2> QED
    BY <2>1 DEF RoomInv, RoomAccounted, Balanced
<1> QED
  BY <1>1, CacheInvariant, PTL

\* addCacheItem fails to end only when invalidations and collisions have cost
\* so much room that an item does not even fit into the empty cache.
THEOREM OnlyDrainedCachesHang == Spec => []HangsOnlyWhenDrained
<1>1. RoomInv => HangsOnlyWhenDrained
  BY DEF RoomInv
<1> QED
  BY <1>1, CacheInvariant, PTL

-----------------------------------------------------------------------------
\* The map that the items are.
Shown == [k \in Key |-> items[k].data]

\* What is left of the items is left of the map.
LEMMA EvictedShown ==
    ASSUME RoomInv, NEW n \in Nat, Evict(n)
    PROVE  Shown' = Map!Kept(Shown, Key \ Latest(n))
<1>1. items' = [k \in Key |-> IF k \in Latest(n) THEN NoItem ELSE items[k]]
  BY DEF Evict
<1>2. ASSUME NEW k \in Key
      PROVE  items'[k].data = IF k \in Key \ Latest(n) THEN Shown[k] ELSE None
  BY <1>1 DEF NoItem, Shown
<1> QED
  BY <1>2 DEF Shown, Map!Kept

\* What is stored last is what the map shows.
LEMMA StoredShown ==
    ASSUME RoomInv, NEW a \in Gaddr, NEW v \in Value,
           items' = [items EXCEPT ![keyOf[a]] = Item(a, v)]
    PROVE  Shown' = Map!Kept([Shown EXCEPT ![keyOf[a]] = v], Key)
<1>1. keyOf[a] \in Key /\ items \in [Key -> CacheItem \cup {NoItem}]
  BY CacheAssumption DEF RoomInv, TypeOK
<1>2. ASSUME NEW k \in Key
      PROVE  items'[k].data = [Shown EXCEPT ![keyOf[a]] = v][k]
  <2>1. CASE k = keyOf[a]
    BY <1>1, <2>1 DEF Item, Shown
  <2>2. CASE k # keyOf[a]
    BY <1>1, <2>2 DEF Shown
  <2> QED
    BY <2>1, <2>2
<1> QED
  BY <1>2 DEF Shown, Map!Kept

\* addCacheItem stores its value and forgets what it evicts.
LEMMA AddIsStore ==
    ASSUME RoomInv, NEW a \in Gaddr, NEW v \in Value, items[keyOf[a]] = NoItem,
           addCacheItem(a, v)
    PROVE  Map!Store(keyOf[a], v) \/ Map!Fail
<1> DEFINE k == keyOf[a]
<1>1. /\ k \in Key /\ Len(recent) \in Nat /\ k \notin Present
      /\ Shown \in [Key -> Value \cup {None}] /\ Shown[k] = None
  BY CacheAssumption DEF RoomInv, TypeOK, Present, Shown, CacheItem, NoItem
<1>2. CASE Insert(a, v) /\ out' = Answer("stored", a, v)
  <2>1. Shown' = Map!Kept([Shown EXCEPT ![k] = v], Key)
    BY <1>2, StoredShown DEF Insert
  <2> QED
    BY <1>2, <2>1 DEF Map!Store, Answer, Shown
<1>3. ASSUME NEW n \in 1 .. Len(recent), Evict(n), out' = Answer("stored", a, v)
      PROVE  Map!Store(k, v)
  <2>1. n \in Nat
    BY <1>1
  <2>2. Shown' = Map!Kept(Shown, Key \ Latest(n))
    BY <1>3, <2>1, EvictedShown
  <2>3. Shown' = Map!Kept([Shown EXCEPT ![k] = v], (Key \ Latest(n)) \ {k})
    BY <1>1, <2>2 DEF Map!Kept
  <2> QED
    BY <1>3, <2>3 DEF Map!Store, Answer, Shown
<1>4. CASE Evict(Len(recent)) /\ out' = NoAnswer
  <2>1. Shown' = Map!Kept(Shown, Key \ Latest(Len(recent)))
    BY <1>1, <1>4, EvictedShown
  <2> QED
    BY <1>4, <2>1 DEF Map!Fail, NoAnswer, Shown
<1>5. CASE out' = NoAnswer /\ UNCHANGED items
  <2>1. Shown' = Map!Kept(Shown, Key)
    BY <1>1, <1>5 DEF Shown, Map!Kept
  <2> QED
    BY <1>5, <2>1 DEF Map!Fail, NoAnswer, Shown
<1> QED
  BY <1>2, <1>3, <1>4, <1>5 DEF addCacheItem

\* Every call of the cache is a call of the map or changes nothing of it.
LEMMA CallIsMapped ==
    ASSUME RoomInv, Next PROVE Map!MapNext
<1>1. ASSUME NEW a \in Gaddr PROVE keyOf[a] \in Key
  BY CacheAssumption
<1>2. items \in [Key -> CacheItem \cup {NoItem}]
  BY DEF RoomInv, TypeOK
<1>3. ASSUME NEW a \in Gaddr, getCacheItem(a) PROVE Map!Lookup(keyOf[a])
  BY <1>1, <1>3 DEF getCacheItem, Answer, Map!Lookup
<1>4. ASSUME NEW a \in Gaddr, removeCacheItem(a) PROVE Map!Remove(keyOf[a])
  <2> DEFINE k == keyOf[a]
  <2>1. /\ items' = [items EXCEPT ![k] = NoItem] /\ out' = <<"removed", k, items[k].data>>
    BY <1>4 DEF removeCacheItem, Answer
  <2>2. Shown' = [Shown EXCEPT ![k] = None]
    BY <1>1, <1>2, <2>1 DEF Shown, NoItem
  <2> QED
    BY <1>1, <2>1, <2>2 DEF Map!Remove, Shown
<1>5. ASSUME NEW a \in Gaddr, NEW v \in Value, Fetch(a, v)
      PROVE  Map!Store(keyOf[a], v) \/ Map!Fail
  BY <1>5, AddIsStore DEF Fetch
<1>6. ASSUME NEW a \in Gaddr, NEW v \in Value, alterCacheItem(a, v)
      PROVE  Map!Store(keyOf[a], v) \/ Map!Fail
  <2>1. CASE items[keyOf[a]] = NoItem
    BY <1>6, <2>1, AddIsStore DEF alterCacheItem
  <2>2. CASE items[keyOf[a]] # NoItem
    <3>1. /\ items' = [items EXCEPT ![keyOf[a]] = Item(a, v)]
          /\ out' = <<"stored", keyOf[a], v>>
      BY <1>6, <2>2 DEF alterCacheItem, Answer
    <3>2. Shown' = Map!Kept([Shown EXCEPT ![keyOf[a]] = v], Key)
      BY <3>1, StoredShown
    <3> QED
      BY <3>1, <3>2 DEF Map!Store, Shown
  <2> QED
    BY <2>1, <2>2
<1> QED
  BY <1>1, <1>3, <1>4, <1>5, <1>6 DEF Next, Map!MapNext

\* Whatever a cache of any size forgets, it never shows a value other than the
\* last one stored for the key: Cache implements ForgetfulMap.
THEOREM CacheIsForgetfulMap == Spec => ImplementsForgetfulMap
<1>1. Init => Map!MapInit
  BY DEF Init, Map!MapInit, NoItem, NoAnswer
<1>2. RoomInv /\ [Next]_vars => [Map!MapNext]_(Map!mapVars)
  <2>1. UNCHANGED vars => UNCHANGED Map!mapVars
    BY DEF vars, Map!mapVars
  <2> QED
    BY <2>1, CallIsMapped
<1> QED
  BY <1>1, <1>2, CacheInvariant, PTL DEF Spec, ImplementsForgetfulMap, Map!MapSpec

-----------------------------------------------------------------------------
(* The hash table.                                                         *)

\* An element is a place in a chain; it names the address of its value.
At(b, i) == storage[b][i].gaddr
Places == {p \in Bucket \X Nat : p[2] \in 1 .. Len(storage[p[1]])}

Named(g) == \E b \in Bucket : \E i \in 1 .. Len(storage[b]) : At(b, i) = g

\* No two elements name the same address.
Owned ==
    \A b, c \in Bucket : \A i \in 1 .. Len(storage[b]), j \in 1 .. Len(storage[c]) :
        At(b, i) = At(c, j) => b = c /\ i = j

\* What Malloc returned and Free has not taken back is named by an element.
Covered == \A g \in Address : memory[g] # NoEntry <=> Named(g)

\* The counter of the table is the number of its elements, so that it is at
\* least one whenever erase decrements it.
Counted == IsFiniteSet(Places) /\ Cardinality(Places) = amountElements

\* The inductive invariant.
TableInv == Table!TypeOK /\ Owned /\ Covered /\ Counted

\* The chain of a bucket, its places and the addresses they name.
LEMMA ChainTypes ==
    ASSUME storage \in [Bucket -> Seq(Table!Elem)], NEW b \in Bucket
    PROVE  /\ storage[b] \in Seq(Table!Elem) /\ Len(storage[b]) \in Nat
           /\ DOMAIN storage[b] = 1 .. Len(storage[b])
           /\ \A i \in 1 .. Len(storage[b]) : storage[b][i] \in Table!Elem /\ At(b, i) \in Address
<1>1. storage[b] \in Seq(Table!Elem)
  OBVIOUS
<1>2. /\ Len(storage[b]) \in Nat /\ DOMAIN storage[b] = 1 .. Len(storage[b])
      /\ \A i \in 1 .. Len(storage[b]) : storage[b][i] \in Table!Elem
  BY <1>1
<1> QED
  BY <1>1, <1>2 DEF At, Table!Elem

\* The invariant, in the words of the property that the runs check.
LEMMA OwnedMeans ==
    ASSUME TableInv
    PROVE  Table!ElementsOwnMemory
<1>1. storage \in [Bucket -> Seq(Table!Elem)]
  BY DEF TableInv, Table!TypeOK
<1>2. ASSUME NEW e \in Table!Elements
      PROVE  \E b \in Bucket : \E i \in 1 .. Len(storage[b]) :
                e = <<b, i>> /\ Table!GaddrAt(e) = At(b, i)
  <2>1. PICK b \in Bucket : e \in {<<b, i>> : i \in DOMAIN storage[b]}
    BY DEF Table!Elements
  <2>2. PICK i \in DOMAIN storage[b] : e = <<b, i>>
    BY <2>1
  <2>3. i \in 1 .. Len(storage[b]) /\ e[1] = b /\ e[2] = i
    BY <1>1, <2>2, ChainTypes
  <2> QED
    BY <2>2, <2>3 DEF Table!GaddrAt, At
<1>3. ASSUME NEW b \in Bucket, NEW i \in 1 .. Len(storage[b])
      PROVE  <<b, i>> \in Table!Elements /\ Table!GaddrAt(<<b, i>>) = At(b, i)
  <2>1. i \in DOMAIN storage[b]
    BY <1>1, ChainTypes
  <2> QED
    BY <2>1 DEF Table!Elements, Table!GaddrAt, At
<1>4. ASSUME NEW e \in Table!Elements, NEW f \in Table!Elements,
             Table!GaddrAt(e) = Table!GaddrAt(f)
      PROVE  e = f
  <2>1. PICK b \in Bucket : \E i \in 1 .. Len(storage[b]) :
                e = <<b, i>> /\ Table!GaddrAt(e) = At(b, i)
    BY <1>2
  <2>2. PICK i \in 1 .. Len(storage[b]) : e = <<b, i>> /\ Table!GaddrAt(e) = At(b, i)
    BY <2>1
  <2>3. PICK c \in Bucket : \E j \in 1 .. Len(storage[c]) :
                f = <<c, j>> /\ Table!GaddrAt(f) = At(c, j)
    BY <1>2
  <2>4. PICK j \in 1 .. Len(storage[c]) : f = <<c, j>> /\ Table!GaddrAt(f) = At(c, j)
    BY <2>3
  <2>5. At(b, i) = At(c, j)
    BY <1>4, <2>2, <2>4
  <2>6. b = c /\ i = j
    BY <2>5 DEF TableInv, Owned
  <2> QED
    BY <2>2, <2>4, <2>6
<1>5. ASSUME NEW g
      PROVE  (\E e \in Table!Elements : g = Table!GaddrAt(e)) <=> Named(g)
  BY <1>2, <1>3 DEF Named
<1>6. ASSUME NEW g, Named(g) PROVE g \in Address
  BY <1>1, <1>6, ChainTypes DEF Named
<1>7. {Table!GaddrAt(e) : e \in Table!Elements} = {g \in Address : memory[g] # NoEntry}
  BY <1>5, <1>6 DEF TableInv, Covered
<1> QED
  BY <1>4, <1>7 DEF Table!ElementsOwnMemory, TableInv

\* Where the elements are after an insert.
LEMMA PrependShifts ==
    ASSUME storage \in [Bucket -> Seq(Table!Elem)], NEW k \in TableKey, NEW g \in Address,
           Table!Prepend(k, g)
    PROVE  /\ hashBucket[k] \in Bucket /\ Len(storage[hashBucket[k]]) \in Nat
           /\ storage' \in [Bucket -> Seq(Table!Elem)]
           /\ Len(storage'[hashBucket[k]]) = Len(storage[hashBucket[k]]) + 1
           /\ storage'[hashBucket[k]][1] = [key |-> k, gaddr |-> g]
           /\ \A i \in 1 .. Len(storage[hashBucket[k]]) :
                 storage'[hashBucket[k]][i + 1] = storage[hashBucket[k]][i]
           /\ \A b \in Bucket \ {hashBucket[k]} : storage'[b] = storage[b]
<1> DEFINE b0 == hashBucket[k]
           e == [key |-> k, gaddr |-> g]
           new == <<e>> \o storage[b0]
<1>1. b0 \in Bucket /\ e \in Table!Elem
  BY ContainersAssumption DEF Table!TableAssumption, Table!Elem
<1>2. storage[b0] \in Seq(Table!Elem) /\ Len(storage[b0]) \in Nat
  BY <1>1, ChainTypes
<1>3. /\ new \in Seq(Table!Elem) /\ Len(new) = Len(storage[b0]) + 1 /\ new[1] = e
      /\ \A i \in 1 .. Len(storage[b0]) : new[i + 1] = storage[b0][i]
  <2>1. <<e>> \in Seq(Table!Elem)
    BY <1>1
  <2>2. /\ new \in Seq(Table!Elem) /\ Len(new) = 1 + Len(storage[b0])
        /\ \A i \in 1 .. (1 + Len(storage[b0])) :
              new[i] = IF i <= 1 THEN <<e>>[i] ELSE storage[b0][i - 1]
    BY <1>2, <2>1
  <2> HIDE DEF new, e
  <2>3. ASSUME NEW i \in 1 .. Len(storage[b0]) PROVE new[i + 1] = storage[b0][i]
    BY <1>2, <2>2
  <2>4. new[1] = <<e>>[1] /\ <<e>>[1] = e
    BY <1>2, <2>2
  <2> QED
    BY <2>2, <2>3, <2>4
<1>4. storage' = [storage EXCEPT ![b0] = new]
  BY DEF Table!Prepend
<1> HIDE DEF new
<1> QED
  BY <1>1, <1>2, <1>3, <1>4

\* Where they are after an erase.
LEMMA UnlinkShifts ==
    ASSUME storage \in [Bucket -> Seq(Table!Elem)], NEW b0 \in Bucket,
           NEW p \in 1 .. Len(storage[b0]),
           storage' = [storage EXCEPT ![b0] = Table!Unlink(storage[b0], p)]
    PROVE  /\ storage' \in [Bucket -> Seq(Table!Elem)] /\ Len(storage[b0]) \in Nat
           /\ Len(storage'[b0]) = Len(storage[b0]) - 1
           /\ \A i \in 1 .. (Len(storage[b0]) - 1) :
                 storage'[b0][i] = IF i < p THEN storage[b0][i] ELSE storage[b0][i + 1]
           /\ \A b \in Bucket \ {b0} : storage'[b] = storage[b]
<1> DEFINE r == Table!Unlink(storage[b0], p)
<1>1. storage[b0] \in Seq(Table!Elem) /\ Len(storage[b0]) \in Nat
  BY ChainTypes
<1>2. r = RemoveAt(storage[b0], p)
  BY DEF Table!Unlink, Table!RemoveAt, RemoveAt
<1> HIDE DEF r
<1>3. /\ r \in Seq(Table!Elem) /\ Len(r) = Len(storage[b0]) - 1
      /\ \A i \in 1 .. (Len(storage[b0]) - 1) :
            r[i] = IF i < p THEN storage[b0][i] ELSE storage[b0][i + 1]
  BY <1>1, <1>2, RemoveAtFacts
<1>4. storage' = [storage EXCEPT ![b0] = r]
  BY DEF r
<1> QED
  BY <1>1, <1>3, <1>4

\* One more element, at the head of a chain, with memory of its own.
LEMMA PrependKeeps ==
    ASSUME TableInv, NEW k \in TableKey, NEW g \in Address, memory[g] = NoEntry,
           NEW d \in Table!SaveData, Table!Prepend(k, g), memory' = [memory EXCEPT ![g] = d],
           Table!TableAssumption
    PROVE  /\ storage' \in [Bucket -> Seq(Table!Elem)] /\ amountElements' \in Nat
           /\ memory' \in [Address -> Table!SaveData \cup {NoEntry}]
           /\ Owned' /\ Covered' /\ Counted'
<1> DEFINE b0 == hashBucket[k]
<1>1. /\ storage \in [Bucket -> Seq(Table!Elem)] /\ amountElements \in Nat
      /\ memory \in [Address -> Table!SaveData \cup {NoEntry}]
      /\ b0 \in Bucket /\ d # NoEntry
  BY DEF TableInv, Table!TypeOK, Table!TableAssumption
<1>2. \A b \in Bucket : Len(storage[b]) \in Nat
  BY <1>1, ChainTypes
<1>3. /\ Len(storage'[b0]) = Len(storage[b0]) + 1
      /\ storage'[b0][1] = [key |-> k, gaddr |-> g]
      /\ \A i \in 1 .. Len(storage[b0]) : storage'[b0][i + 1] = storage[b0][i]
  BY <1>1, PrependShifts
<1>4. amountElements' = amountElements + 1
  BY DEF Table!Prepend
<1>6. storage' \in [Bucket -> Seq(Table!Elem)] /\ \A b \in Bucket \ {b0} : storage'[b] = storage[b]
  BY <1>1, PrependShifts
<1> HIDE DEF b0
<1>7. /\ Len(storage'[b0]) = Len(storage[b0]) + 1 /\ At(b0, 1)' = g
      /\ \A i \in 1 .. Len(storage[b0]) : At(b0, i + 1)' = At(b0, i)
      /\ \A b \in Bucket \ {b0} : /\ Len(storage'[b]) = Len(storage[b])
                                  /\ \A i \in 1 .. Len(storage[b]) : At(b, i)' = At(b, i)
  BY <1>3, <1>6 DEF At
<1>8. ~ Named(g)
  BY DEF TableInv, Covered
<1>9. ASSUME NEW b \in Bucket, NEW i \in 1 .. Len(storage'[b])
      PROVE  \/ b = b0 /\ i = 1 /\ At(b, i)' = g
             \/ /\ IF b = b0 THEN i - 1 \in 1 .. Len(storage[b]) ELSE i \in 1 .. Len(storage[b])
                /\ At(b, i)' = At(b, IF b = b0 THEN i - 1 ELSE i)
  <2>1. CASE b = b0
    <3>1. CASE i = 1
      BY <1>7, <2>1, <3>1
    <3>2. CASE i # 1
      <4>1. i - 1 \in 1 .. Len(storage[b0]) /\ (i - 1) + 1 = i
        BY <1>2, <1>7, <2>1, <3>2
      <4>2. At(b0, (i - 1) + 1)' = At(b0, i - 1)
        BY <1>7, <4>1
      <4> QED
        BY <2>1, <4>1, <4>2
    <3> QED
      BY <3>1, <3>2
  <2>2. CASE b # b0
    BY <1>7, <2>2
  <2> QED
    BY <2>1, <2>2
<1>10. ASSUME NEW b \in Bucket, NEW i \in 1 .. Len(storage[b])
       PROVE  /\ (IF b = b0 THEN i + 1 ELSE i) \in 1 .. Len(storage'[b])
              /\ At(b, IF b = b0 THEN i + 1 ELSE i)' = At(b, i)
  BY <1>2, <1>7
<1>11. Owned'
  <2> SUFFICES ASSUME NEW b \in Bucket, NEW c \in Bucket, NEW i \in 1 .. Len(storage'[b]),
                      NEW j \in 1 .. Len(storage'[c]), At(b, i)' = At(c, j)'
               PROVE  b = c /\ i = j
    BY DEF Owned
  <2>1. \A a \in Bucket : \A h \in 1 .. Len(storage[a]) : At(a, h) # g
    BY <1>8 DEF Named
  <2>2. i \in Nat /\ j \in Nat
    BY <1>2, <1>7
  <2>3. CASE b = b0 /\ i = 1
    BY <1>9, <2>1, <2>3, <1>7
  <2>4. CASE c = b0 /\ j = 1
    BY <1>9, <2>1, <2>4, <1>7
  <2>5. CASE ~ (b = b0 /\ i = 1) /\ ~ (c = b0 /\ j = 1)
    <3> DEFINE x == IF b = b0 THEN i - 1 ELSE i
               y == IF c = b0 THEN j - 1 ELSE j
    <3>1. x \in 1 .. Len(storage[b]) /\ At(b, i)' = At(b, x)
      BY <1>9, <2>5
    <3>2. y \in 1 .. Len(storage[c]) /\ At(c, j)' = At(c, y)
      BY <1>9, <2>5
    <3>3. b = c /\ x = y
      <4>1. Owned
        BY DEF TableInv
      <4> HIDE DEF x, y
      <4>2. At(b, x) = At(c, y)
        BY <3>1, <3>2, <2>5
      <4> QED
        BY <3>1, <3>2, <4>1, <4>2 DEF Owned
    <3>4. CASE b = b0
      BY <2>2, <3>3, <3>4
    <3>5. CASE b # b0
      BY <2>2, <3>3, <3>5
    <3> QED
      BY <3>4, <3>5
  <2> QED
    BY <2>3, <2>4, <2>5
<1>12. ASSUME NEW h \in Address PROVE Named(h)' <=> Named(h) \/ h = g
  <2>1. Named(h)' => Named(h) \/ h = g
    <3> SUFFICES ASSUME NEW b \in Bucket, NEW i \in 1 .. Len(storage'[b]), At(b, i)' = h, h # g
                 PROVE  Named(h)
      BY DEF Named
    <3> DEFINE x == IF b = b0 THEN i - 1 ELSE i
    <3>1. x \in 1 .. Len(storage[b]) /\ At(b, i)' = At(b, x)
      BY <1>9
    <3> QED
      BY <3>1 DEF Named
  <2>2. Named(h) => Named(h)'
    <3> SUFFICES ASSUME NEW b \in Bucket, NEW i \in 1 .. Len(storage[b]), At(b, i) = h
                 PROVE  Named(h)'
      BY DEF Named
    <3> DEFINE x == IF b = b0 THEN i + 1 ELSE i
    <3>1. x \in 1 .. Len(storage'[b]) /\ At(b, x)' = h
      BY <1>10
    <3> QED
      BY <3>1 DEF Named
  <2>3. Named(g)'
    <3>1. 1 \in 1 .. Len(storage'[b0])
      BY <1>1, <1>2, <1>7
    <3> QED
      BY <1>1, <1>7, <3>1 DEF Named
  <2> QED
    BY <2>1, <2>2, <2>3
<1>13. Covered'
  <2>1. \A h \in Address : memory'[h] # NoEntry <=> memory[h] # NoEntry \/ h = g
    BY <1>1
  <2> QED
    BY <1>12, <2>1 DEF TableInv, Covered
<1>14. Counted'
  <2> DEFINE p == <<b0, Len(storage[b0]) + 1>>
  <2>1. Places' = Places \cup {p}
    <3>1. ASSUME NEW q \in Bucket \X Nat
          PROVE  q[2] \in 1 .. Len(storage'[q[1]])
                     <=> q[2] \in 1 .. Len(storage[q[1]]) \/ q = p
      BY <1>1, <1>2, <1>7
    <3>2. p \in Bucket \X Nat
      BY <1>1, <1>2
    <3> QED
      BY <3>1, <3>2 DEF Places
  <2>2. p \notin Places
    BY <1>1, <1>2 DEF Places
  <2> QED
    BY <1>1, <1>4, <2>1, <2>2, FS_AddElement DEF TableInv, Counted
<1> QED
  BY <1>1, <1>4, <1>6, <1>11, <1>13, <1>14

\* An element leaves its chain with its memory.
LEMMA UnlinkKeeps ==
    ASSUME TableInv, NEW b0 \in Bucket, NEW p \in 1 .. Len(storage[b0]),
           storage' = [storage EXCEPT ![b0] = Table!Unlink(storage[b0], p)],
           memory' = [memory EXCEPT ![At(b0, p)] = NoEntry],
           amountElements' = amountElements - 1
    PROVE  /\ storage' \in [Bucket -> Seq(Table!Elem)] /\ amountElements' \in Nat
           /\ memory' \in [Address -> Table!SaveData \cup {NoEntry}]
           /\ Owned' /\ Covered' /\ Counted'
<1> DEFINE over(b, i) == IF b = b0 /\ i >= p THEN i + 1 ELSE i
           under(b, i) == IF b = b0 /\ i > p THEN i - 1 ELSE i
<1>1. /\ storage \in [Bucket -> Seq(Table!Elem)] /\ amountElements \in Nat
      /\ memory \in [Address -> Table!SaveData \cup {NoEntry}]
  BY DEF TableInv, Table!TypeOK
<1>2. \A b \in Bucket : /\ Len(storage[b]) \in Nat
                        /\ \A i \in 1 .. Len(storage[b]) : At(b, i) \in Address
  BY <1>1, ChainTypes
<1>3. /\ Len(storage'[b0]) = Len(storage[b0]) - 1
      /\ \A i \in 1 .. (Len(storage[b0]) - 1) :
            storage'[b0][i] = IF i < p THEN storage[b0][i] ELSE storage[b0][i + 1]
  BY <1>1, UnlinkShifts
<1>5. storage' \in [Bucket -> Seq(Table!Elem)] /\ \A b \in Bucket \ {b0} : storage'[b] = storage[b]
  BY <1>1, UnlinkShifts
<1>6. /\ Len(storage'[b0]) = Len(storage[b0]) - 1
      /\ \A i \in 1 .. (Len(storage[b0]) - 1) :
            At(b0, i)' = IF i < p THEN At(b0, i) ELSE At(b0, i + 1)
      /\ \A b \in Bucket \ {b0} : /\ Len(storage'[b]) = Len(storage[b])
                                  /\ \A i \in 1 .. Len(storage[b]) : At(b, i)' = At(b, i)
  BY <1>3, <1>5 DEF At
<1>7. ASSUME NEW b \in Bucket, NEW i \in 1 .. Len(storage'[b])
      PROVE  /\ over(b, i) \in 1 .. Len(storage[b]) /\ At(b, i)' = At(b, over(b, i))
             /\ ~ (b = b0 /\ over(b, i) = p)
  <2>1. CASE b = b0
    <3>1. i \in 1 .. (Len(storage[b0]) - 1) /\ Len(storage[b0]) \in Nat
      BY <1>2, <1>6, <2>1
    <3>2. CASE i < p
      BY <1>6, <2>1, <3>1, <3>2
    <3>3. CASE ~ (i < p)
      BY <1>6, <2>1, <3>1, <3>3
    <3> QED
      BY <3>2, <3>3
  <2>2. CASE b # b0
    BY <1>6, <2>2
  <2> QED
    BY <2>1, <2>2
<1>8. ASSUME NEW b \in Bucket, NEW i \in 1 .. Len(storage[b]), ~ (b = b0 /\ i = p)
      PROVE  under(b, i) \in 1 .. Len(storage'[b]) /\ At(b, under(b, i))' = At(b, i)
  <2>1. CASE b = b0
    <3>1. i # p /\ Len(storage[b0]) \in Nat /\ i \in 1 .. Len(storage[b0])
      BY <1>2, <1>8, <2>1
    <3>2. CASE i < p
      BY <1>6, <2>1, <3>1, <3>2
    <3>3. CASE i > p
      <4>1. i - 1 \in 1 .. (Len(storage[b0]) - 1) /\ ~ (i - 1 < p) /\ (i - 1) + 1 = i
        BY <3>1, <3>3
      <4>2. At(b0, i - 1)' = At(b0, (i - 1) + 1)
        BY <1>6, <4>1
      <4> QED
        BY <1>6, <2>1, <3>3, <4>1, <4>2
    <3> QED
      BY <3>1, <3>2, <3>3
  <2>2. CASE b # b0
    BY <1>6, <2>2
  <2> QED
    BY <2>1, <2>2
<1>9. Owned'
  <2> SUFFICES ASSUME NEW b \in Bucket, NEW c \in Bucket, NEW i \in 1 .. Len(storage'[b]),
                      NEW j \in 1 .. Len(storage'[c]), At(b, i)' = At(c, j)'
               PROVE  b = c /\ i = j
    BY DEF Owned
  <2>1. /\ over(b, i) \in 1 .. Len(storage[b]) /\ At(b, i)' = At(b, over(b, i))
        /\ over(c, j) \in 1 .. Len(storage[c]) /\ At(c, j)' = At(c, over(c, j))
    BY <1>7
  <2>2. b = c /\ over(b, i) = over(c, j)
    <3> DEFINE x == over(b, i)
               y == over(c, j)
    <3>1. x \in 1 .. Len(storage[b]) /\ At(b, i)' = At(b, x)
      BY <2>1
    <3>2. y \in 1 .. Len(storage[c]) /\ At(c, j)' = At(c, y)
      BY <2>1
    <3>3. At(b, x) = At(c, y)
      <4> HIDE DEF x, y
      <4> QED
        BY <3>1, <3>2, Zenon
    <3>4. b = c /\ x = y
      <4> HIDE DEF x, y
      <4>1. \A h \in 1 .. Len(storage[b]), k \in 1 .. Len(storage[c]) :
                At(b, h) = At(c, k) => b = c /\ h = k
        BY Zenon DEF TableInv, Owned
      <4> QED
        BY <3>1, <3>2, <3>3, <4>1, Zenon
    <3> QED
      BY <3>4
  <2>3. i \in Nat /\ j \in Nat /\ p \in Nat
    BY <1>2, <1>6
  <2> QED
    BY <2>2, <2>3
<1> DEFINE g == At(b0, p)
<1>10. g \in Address /\ memory[g] # NoEntry
  <2>1. Named(g)
    BY DEF Named
  <2> QED
    BY <1>2, <2>1 DEF TableInv, Covered
<1>11. ASSUME NEW h \in Address PROVE Named(h)' <=> Named(h) /\ h # g
  <2>1. Named(h)' => Named(h) /\ h # g
    <3> SUFFICES ASSUME NEW b \in Bucket, NEW i \in 1 .. Len(storage'[b]), At(b, i)' = h
                 PROVE  Named(h) /\ h # g
      BY DEF Named
    <3>1. /\ over(b, i) \in 1 .. Len(storage[b]) /\ h = At(b, over(b, i))
          /\ ~ (b = b0 /\ over(b, i) = p)
      BY <1>7
    <3> HIDE DEF over
    <3>2. h # g
      BY <3>1 DEF TableInv, Owned
    <3> QED
      BY <3>1, <3>2 DEF Named
  <2>2. Named(h) /\ h # g => Named(h)'
    <3> SUFFICES ASSUME NEW b \in Bucket, NEW i \in 1 .. Len(storage[b]), At(b, i) = h, h # g
                 PROVE  Named(h)'
      BY DEF Named
    <3>1. under(b, i) \in 1 .. Len(storage'[b]) /\ At(b, under(b, i))' = h
      BY <1>8
    <3> HIDE DEF under
    <3> QED
      BY <3>1 DEF Named
  <2> QED
    BY <2>1, <2>2
<1>12. /\ Covered' /\ memory' \in [Address -> Table!SaveData \cup {NoEntry}]
  <2>1. \A h \in Address : memory'[h] # NoEntry <=> memory[h] # NoEntry /\ h # g
    BY <1>1, <1>10
  <2>2. memory' \in [Address -> Table!SaveData \cup {NoEntry}]
    BY <1>1
  <2> HIDE DEF g
  <2>3. Covered'
    BY <1>11, <2>1 DEF TableInv, Covered
  <2> QED
    BY <2>2, <2>3
<1>13. Counted' /\ amountElements' \in Nat
  <2> DEFINE q == <<b0, Len(storage[b0])>>
  <2>1. Places' = Places \ {q}
    <3>1. ASSUME NEW x \in Bucket \X Nat
          PROVE  x[2] \in 1 .. Len(storage'[x[1]])
                     <=> x[2] \in 1 .. Len(storage[x[1]]) /\ x # q
      BY <1>2, <1>6
    <3> QED
      BY <3>1 DEF Places
  <2>2. q \in Places
    BY <1>2 DEF Places
  <2>3. IsFiniteSet(Places) /\ Cardinality(Places) = amountElements
    BY DEF TableInv, Counted
  <2>4. IsFiniteSet(Places') /\ Cardinality(Places') = amountElements - 1
    BY <2>1, <2>2, <2>3, FS_RemoveElement
  <2>5. Cardinality(Places') \in Nat
    BY <2>4, FS_CardinalityType
  <2> QED
    BY <2>4, <2>5 DEF Counted
<1> QED
  BY <1>5, <1>9, <1>12, <1>13

-----------------------------------------------------------------------------
\* An empty table has no places and no memory.
LEMMA TableInit == Table!TableAssumption /\ Table!Init => TableInv
<1> SUFFICES ASSUME Table!TableAssumption, Table!Init PROVE TableInv
  OBVIOUS
<1>1. /\ storage = [b \in Bucket |-> << >>] /\ amountElements = 0
      /\ memory = [g \in Address |-> NoEntry] /\ answer = Absent /\ ended = FALSE
  BY DEF Table!Init
<1>2. Table!TypeOK
  <2>1. << >> \in Seq(Table!Elem)
    OBVIOUS
  <2>2. storage \in [Bucket -> Seq(Table!Elem)]
    BY <1>1, <2>1
  <2>3. memory \in [Address -> Table!SaveData \cup {NoEntry}]
    BY <1>1
  <2>4. amountElements \in Nat /\ answer \in Word \cup {Absent} /\ ended \in BOOLEAN
    BY <1>1
  <2> QED
    BY <2>2, <2>3, <2>4 DEF Table!TypeOK
<1>3. \A b \in Bucket : Len(storage[b]) = 0
  BY <1>1
<1>4. Owned /\ Covered
  BY <1>1, <1>3 DEF Owned, Covered, Named
<1>5. Places = {}
  BY <1>3 DEF Places
<1>6. Counted
  BY <1>1, <1>5, FS_EmptySet DEF Counted
<1> QED
  BY <1>2, <1>4, <1>6 DEF TableInv

\* A lookup that finds an element finds one of the chain.
LEMMA PositionFound ==
    ASSUME Table!TypeOK, Table!TableAssumption, NEW k \in TableKey, Table!Matches(k) # {}
    PROVE  /\ hashBucket[k] \in Bucket
           /\ Table!Position(k) \in 1 .. Len(storage[hashBucket[k]])
           /\ Table!Found(k).gaddr = At(hashBucket[k], Table!Position(k))
<1>1. hashBucket[k] \in Bucket /\ storage \in [Bucket -> Seq(Table!Elem)]
  BY DEF Table!TableAssumption, Table!TypeOK
<1>2. Table!Matches(k) \in SUBSET (1 .. Len(storage[hashBucket[k]]))
  BY <1>1, ChainTypes DEF Table!Matches, Table!Chain
<1>3. Table!Matches(k) \in SUBSET Nat
  BY <1>2
<1>4. \E i \in Table!Matches(k) : \A j \in Table!Matches(k) : i <= j
  BY <1>3, LeastNatural
<1>5. Table!Position(k) \in Table!Matches(k)
  BY <1>4 DEF Table!Position
<1> QED
  BY <1>1, <1>2, <1>5 DEF Table!Found, Table!Chain, At

\* Every call of the table keeps its elements and their memory paired, and its
\* counter the number of its places.
LEMMA TableStep ==
    ASSUME TableInv, Table!TableAssumption, Table!Next PROVE TableInv'
<1>1. Table!TypeOK
  BY DEF TableInv
<1>2. CASE Table!End
  <2>1. /\ storage' = storage /\ amountElements' = amountElements /\ memory' = memory
        /\ answer' = answer /\ ended' = TRUE
    BY <1>2 DEF Table!End
  <2> QED
    BY <2>1 DEF TableInv, Table!TypeOK, Owned, Covered, Named, Counted, Places, At
<1>3. CASE /\ UNCHANGED <<storage, amountElements, memory, ended>>
           /\ answer' \in Word \cup {Absent}
  <2>1. /\ storage' = storage /\ amountElements' = amountElements /\ memory' = memory
        /\ ended' = ended
    BY <1>3
  <2> QED
    BY <1>3, <2>1 DEF TableInv, Table!TypeOK, Owned, Covered, Named, Counted, Places, At
<1>4. ASSUME NEW k \in TableKey, NEW g \in Address, memory[g] = NoEntry,
             NEW d \in Table!SaveData, Table!Prepend(k, g), memory' = [memory EXCEPT ![g] = d],
             ended' = ended, answer' \in Word \cup {Absent}
      PROVE  TableInv'
  <2>1. /\ storage' \in [Bucket -> Seq(Table!Elem)] /\ amountElements' \in Nat
        /\ memory' \in [Address -> Table!SaveData \cup {NoEntry}]
        /\ Owned' /\ Covered' /\ Counted'
    BY <1>4, PrependKeeps
  <2> QED
    BY <1>1, <1>4, <2>1 DEF TableInv, Table!TypeOK
<1>5. ASSUME NEW d, NEW granted \in Table!Granted, d \in Table!SaveData, Table!Read(d, granted)
      PROVE  answer' \in Word \cup {Absent}
  BY <1>5 DEF Table!Read, Table!SaveData, Table!TableAssumption
<1>6. answer \in Word \cup {Absent}
  BY <1>1 DEF Table!TypeOK
<1>7. ASSUME NEW k \in TableKey, NEW v \in Word, Table!insert(k, v) PROVE TableInv'
  <2>1. PICK g \in Address, d \in Table!SaveData, granted \in Table!Granted :
            /\ memory[g] = NoEntry
            /\ IF granted /\ Table!WriteEnds(d)
               THEN Table!End
               ELSE /\ Table!Prepend(k, g)
                    /\ memory' = [memory EXCEPT ![g] =
                                     IF granted THEN Table!Written(v) ELSE d]
                    /\ UNCHANGED <<answer, ended>>
    BY <1>7 DEF Table!insert
  <2>2. Table!Written(v) \in Table!SaveData
    BY DEF Table!Written, Table!SaveData
  <2>3. CASE granted /\ Table!WriteEnds(d)
    BY <1>2, <2>1, <2>3
  <2>4. CASE ~ (granted /\ Table!WriteEnds(d))
    <3> DEFINE w == IF granted THEN Table!Written(v) ELSE d
    <3>1. /\ w \in Table!SaveData /\ Table!Prepend(k, g)
          /\ memory' = [memory EXCEPT ![g] = w] /\ ended' = ended /\ answer' = answer
      BY <2>1, <2>2, <2>4
    <3> HIDE DEF w
    <3> QED
      BY <1>4, <1>6, <2>1, <3>1
  <2> QED
    BY <2>3, <2>4
<1>8. ASSUME NEW k \in TableKey, Table!erase(k) PROVE TableInv'
  <2>1. Table!Matches(k) # {}
    BY <1>8 DEF Table!erase
  <2> DEFINE b0 == hashBucket[k]
             p == Table!Position(k)
  <2>2. /\ b0 \in Bucket /\ p \in 1 .. Len(storage[b0]) /\ Table!Found(k).gaddr = At(b0, p)
    BY <1>1, <2>1, PositionFound
  <2>3. CASE Table!FreeEnds(memory[Table!Found(k).gaddr])
    BY <1>2, <1>8, <2>3 DEF Table!erase
  <2>4. CASE ~ Table!FreeEnds(memory[Table!Found(k).gaddr])
    <3>1. /\ storage' = [storage EXCEPT ![b0] = Table!Unlink(storage[b0], p)]
          /\ memory' = [memory EXCEPT ![At(b0, p)] = NoEntry]
          /\ amountElements' = amountElements - 1 /\ answer' = answer /\ ended' = ended
      BY <1>8, <2>2, <2>4 DEF Table!erase
    <3> HIDE DEF b0, p
    <3>2. /\ storage' \in [Bucket -> Seq(Table!Elem)] /\ amountElements' \in Nat
          /\ memory' \in [Address -> Table!SaveData \cup {NoEntry}]
          /\ Owned' /\ Covered' /\ Counted'
      BY <2>2, <3>1, UnlinkKeeps
    <3> QED
      BY <1>1, <3>1, <3>2 DEF TableInv, Table!TypeOK
  <2> QED
    BY <2>3, <2>4
<1>9. ASSUME NEW k \in TableKey, Table!get(k) PROVE TableInv'
  <2>1. CASE Table!Matches(k) = {}
    BY <1>3, <1>9, <2>1, <1>2 DEF Table!get
  <2>2. CASE Table!Matches(k) # {}
    <3> DEFINE g == Table!Found(k).gaddr
    <3>1. g \in Address /\ memory[g] # NoEntry
      <4>1. /\ hashBucket[k] \in Bucket
            /\ Table!Position(k) \in 1 .. Len(storage[hashBucket[k]])
            /\ g = At(hashBucket[k], Table!Position(k))
        BY <1>1, <2>2, PositionFound
      <4>2. Named(g) /\ g \in Address
        <5> HIDE DEF g
        <5> QED
          BY <1>1, <4>1, ChainTypes DEF Named, Table!TypeOK
      <4> QED
        BY <4>2 DEF TableInv, Covered
    <3>2. memory[g] \in Table!SaveData
      BY <1>1, <3>1 DEF Table!TypeOK
    <3>3. CASE Table!End
      BY <1>2, <3>3
    <3>4. CASE ~ Table!End
      <4>1. PICK granted \in Table!Granted :
                /\ Table!Read(memory[g], granted)
                /\ UNCHANGED <<storage, amountElements, memory, ended>>
        BY <1>9, <2>2, <3>4 DEF Table!get
      <4>2. answer' \in Word \cup {Absent}
        BY <1>5, <3>2, <4>1
      <4> QED
        BY <1>3, <4>1, <4>2
    <3> QED
      BY <3>3, <3>4
  <2> QED
    BY <2>1, <2>2
<1>10. ASSUME NEW k \in TableKey, Table!create(k) PROVE TableInv'
  <2>1. CASE Table!End
    BY <1>2, <2>1
  <2>2. CASE ~ Table!End
    <3>1. PICK g \in Address, d \in Table!SaveData, granted \in Table!Granted :
              /\ memory[g] = NoEntry /\ Table!Read(d, granted) /\ Table!Prepend(k, g)
              /\ memory' = [memory EXCEPT ![g] = d] /\ UNCHANGED ended
      BY <1>10, <2>2 DEF Table!create
    <3>2. answer' \in Word \cup {Absent}
      BY <1>5, <3>1
    <3> QED
      BY <1>4, <3>1, <3>2
  <2> QED
    BY <2>1, <2>2
<1>11. ASSUME Table!clear PROVE TableInv'
  <2>1. CASE Table!End
    BY <1>2, <2>1
  <2>2. CASE ~ Table!End
    <3>1. /\ storage' = [b \in Bucket |-> << >>] /\ amountElements' = 0
          /\ memory' = [g \in Address |->
                   IF \E b \in Bucket : \E i \in DOMAIN storage[b] : storage[b][i].gaddr = g
                   THEN NoEntry ELSE memory[g]]
          /\ answer' = answer /\ ended' = ended
      BY <1>11, <2>2 DEF Table!clear
    <3>2. storage' \in [Bucket -> Seq(Table!Elem)] /\ \A b \in Bucket : Len(storage'[b]) = 0
      BY <3>1
    <3>3. \A b \in Bucket : DOMAIN storage[b] = 1 .. Len(storage[b])
      BY <1>1, ChainTypes DEF Table!TypeOK
    <3>4. \A g \in Address : memory'[g] = NoEntry
      <4> TAKE g \in Address
      <4>1. Named(g) => memory'[g] = NoEntry
        BY <3>1, <3>3 DEF Named, At
      <4>2. ~ Named(g) => memory'[g] = memory[g] /\ memory[g] = NoEntry
        BY <3>1, <3>3 DEF Named, At, TableInv, Covered
      <4> QED
        BY <4>1, <4>2
    <3>5. memory' \in [Address -> Table!SaveData \cup {NoEntry}]
      BY <3>1, <3>4
    <3>6. Owned' /\ Covered'
      BY <3>2, <3>4 DEF Owned, Covered, Named
    <3>7. Places' = {}
      BY <3>2 DEF Places
    <3>8. Counted'
      BY <3>1, <3>7, FS_EmptySet DEF Counted
    <3> QED
      BY <1>1, <3>1, <3>2, <3>5, <3>6, <3>8 DEF TableInv, Table!TypeOK
  <2> QED
    BY <2>1, <2>2
<1> QED
  BY <1>7, <1>8, <1>9, <1>10, <1>11 DEF Table!Next

\* The invariant holds in every state of a table.
LEMMA TableInvariant == Table!Spec => []TableInv
<1>1. Table!Init => TableInv
  BY TableInit, ContainersAssumption
<1>2. TableInv /\ [Table!Next]_(Table!vars) => TableInv'
  <2>1. TableInv /\ UNCHANGED Table!vars => TableInv'
    BY DEF Table!vars, TableInv, Table!TypeOK, Owned, Covered, Named, Counted, Places, At
  <2> QED
    BY <2>1, TableStep, ContainersAssumption
<1> QED
  BY <1>1, <1>2, PTL DEF Table!Spec

\* Whatever inserts, erases, lookups and clears came before, every address that
\* Malloc returned and Free has not taken back is named by exactly one element:
\* no element dangles and no memory is lost.
THEOREM ElementsKeepTheirMemory == Table!Spec => []ElementsOwnMemory
<1>1. TableInv => ElementsOwnMemory
  BY OwnedMeans DEF ElementsOwnMemory
<1> QED
  BY <1>1, TableInvariant, PTL

-----------------------------------------------------------------------------
(* The chains as stacks.                                                   *)

KeyAt(b, i) == storage[b][i].key

\* The key has an element with this address; two elements of one key.
InStack(k, g) ==
    \E i \in 1 .. Len(storage[hashBucket[k]]) :
        KeyAt(hashBucket[k], i) = k /\ At(hashBucket[k], i) = g
Lies(g, h) ==
    \E b \in Bucket : \E i, j \in 1 .. Len(storage[b]) :
        i < j /\ KeyAt(b, i) = KeyAt(b, j) /\ At(b, i) = g /\ At(b, j) = h

\* The stacks of the abstract map, by the places of the chains.
StacksMean ==
    storage \in [Bucket -> Seq(Table!Elem)] =>
        /\ \A k \in TableKey : \A g : g \in Table!Cells(k) <=> InStack(k, g)
        /\ \A p : p \in Table!Above <=> \E g, h \in Address : p = <<g, h>> /\ Lies(g, h)
        /\ \A g, h : Lies(g, h) => g \in Address /\ h \in Address

LEMMA StacksMeant == StacksMean
<1> SUFFICES ASSUME storage \in [Bucket -> Seq(Table!Elem)]
             PROVE  /\ \A k \in TableKey : \A g : g \in Table!Cells(k) <=> InStack(k, g)
                    /\ \A p : p \in Table!Above <=> \E g, h \in Address : p = <<g, h>> /\ Lies(g, h)
                    /\ \A g, h : Lies(g, h) => g \in Address /\ h \in Address
  BY DEF StacksMean
<1>1. \A b \in Bucket : DOMAIN storage[b] = 1 .. Len(storage[b])
  BY ChainTypes
<1>2. ASSUME NEW k \in TableKey, NEW g PROVE g \in Table!Cells(k) <=> InStack(k, g)
  <2>1. hashBucket[k] \in Bucket
    BY ContainersAssumption DEF Table!TableAssumption
  <2> QED
    BY <1>1, <2>1 DEF Table!Cells, Table!Matches, Table!Chain, InStack, KeyAt, At
<1>3. ASSUME NEW g, NEW h, Lies(g, h) PROVE g \in Address /\ h \in Address
  BY <1>3, ChainTypes DEF Lies
<1>4. ASSUME NEW p PROVE p \in Table!Above <=> \E g, h \in Address : p = <<g, h>> /\ Lies(g, h)
  <2>1. ASSUME p \in Table!Above PROVE \E g, h \in Address : p = <<g, h>> /\ Lies(g, h)
    <3>1. PICK b \in Bucket : \E i, j \in 1 .. Len(storage[b]) :
              /\ i < j /\ KeyAt(b, i) = KeyAt(b, j)
              /\ p = <<At(b, i), At(b, j)>>
      BY <1>1, <2>1 DEF Table!Above, KeyAt, At
    <3>2. PICK i \in 1 .. Len(storage[b]), j \in 1 .. Len(storage[b]) :
              /\ i < j /\ KeyAt(b, i) = KeyAt(b, j)
              /\ p = <<At(b, i), At(b, j)>>
      BY <3>1
    <3>3. Lies(At(b, i), At(b, j))
      BY <3>2 DEF Lies
    <3> QED
      BY <1>3, <3>2, <3>3
  <2>2. ASSUME NEW g \in Address, NEW h \in Address, p = <<g, h>>, Lies(g, h)
        PROVE  p \in Table!Above
    <3>1. PICK b \in Bucket : \E i, j \in 1 .. Len(storage[b]) :
              i < j /\ KeyAt(b, i) = KeyAt(b, j) /\ At(b, i) = g /\ At(b, j) = h
      BY <2>2 DEF Lies
    <3>2. p \in Address \X Address
      BY <2>2
    <3> QED
      BY <1>1, <2>2, <3>1, <3>2 DEF Table!Above, KeyAt, At
  <2> QED
    BY <2>1, <2>2
<1> QED
  BY <1>2, <1>3, <1>4

LEMMA StacksMeantNext == StacksMean'
  BY StacksMeant, PTL


\* The stacks after an insert.
LEMMA StacksPushed ==
    ASSUME storage \in [Bucket -> Seq(Table!Elem)], NEW k \in TableKey, NEW g \in Address,
           Table!Prepend(k, g)
    PROVE  /\ \A j \in TableKey : \A h : InStack(j, h)' <=> InStack(j, h) \/ (j = k /\ h = g)
           /\ \A x, h : Lies(x, h)' <=> Lies(x, h) \/ (x = g /\ InStack(k, h))
<1> DEFINE b0 == hashBucket[k]
<1>1. /\ b0 \in Bucket /\ Len(storage[b0]) \in Nat
      /\ Len(storage'[b0]) = Len(storage[b0]) + 1
      /\ storage'[b0][1] = [key |-> k, gaddr |-> g]
      /\ \A i \in 1 .. Len(storage[b0]) : storage'[b0][i + 1] = storage[b0][i]
      /\ \A b \in Bucket \ {b0} : storage'[b] = storage[b]
  BY PrependShifts
<1> HIDE DEF b0
<1>2. /\ KeyAt(b0, 1)' = k /\ At(b0, 1)' = g
      /\ \A i \in 1 .. Len(storage[b0]) : KeyAt(b0, i + 1)' = KeyAt(b0, i) /\ At(b0, i + 1)' = At(b0, i)
      /\ \A b \in Bucket \ {b0} : /\ Len(storage'[b]) = Len(storage[b])
                                  /\ \A i : KeyAt(b, i)' = KeyAt(b, i) /\ At(b, i)' = At(b, i)
  BY <1>1 DEF KeyAt, At
<1>3. ASSUME NEW i \in 1 .. Len(storage'[b0]), i # 1
      PROVE  /\ i - 1 \in 1 .. Len(storage[b0])
             /\ KeyAt(b0, i)' = KeyAt(b0, i - 1) /\ At(b0, i)' = At(b0, i - 1)
  <2>1. i - 1 \in 1 .. Len(storage[b0]) /\ (i - 1) + 1 = i
    BY <1>1, <1>3
  <2>2. KeyAt(b0, (i - 1) + 1)' = KeyAt(b0, i - 1) /\ At(b0, (i - 1) + 1)' = At(b0, i - 1)
    BY <1>2, <2>1
  <2> QED
    BY <2>1, <2>2
<1>4. /\ 1 \in 1 .. Len(storage'[b0])
      /\ \A i \in 1 .. Len(storage[b0]) : i + 1 \in 1 .. Len(storage'[b0]) /\ 1 < i + 1
  BY <1>1
<1>5. ASSUME NEW j \in TableKey, NEW h
      PROVE  InStack(j, h)' <=> InStack(j, h) \/ (j = k /\ h = g)
  <2>1. hashBucket[j] \in Bucket
    BY ContainersAssumption DEF Table!TableAssumption
  <2>2. CASE hashBucket[j] # b0
    <3>1. j # k
      BY <2>2 DEF b0
    <3> QED
      BY <1>2, <2>1, <2>2, <3>1 DEF InStack
  <2>3. CASE hashBucket[j] = b0
    <3>1. ASSUME InStack(j, h)' PROVE InStack(j, h) \/ (j = k /\ h = g)
      <4>1. PICK i \in 1 .. Len(storage'[b0]) : KeyAt(b0, i)' = j /\ At(b0, i)' = h
        BY <2>3, <3>1 DEF InStack
      <4>2. CASE i = 1
        BY <1>2, <4>1, <4>2
      <4>3. CASE i # 1
        BY <1>3, <2>3, <4>1, <4>3 DEF InStack
      <4> QED
        BY <4>2, <4>3
    <3>2. ASSUME InStack(j, h) PROVE InStack(j, h)'
      <4>1. PICK i \in 1 .. Len(storage[b0]) : KeyAt(b0, i) = j /\ At(b0, i) = h
        BY <2>3, <3>2 DEF InStack
      <4>2. KeyAt(b0, i + 1)' = j /\ At(b0, i + 1)' = h /\ i + 1 \in 1 .. Len(storage'[b0])
        BY <1>2, <1>4, <4>1
      <4> QED
        BY <2>3, <4>2 DEF InStack
    <3>3. ASSUME j = k, h = g PROVE InStack(j, h)'
      BY <1>2, <1>4, <2>3, <3>3 DEF InStack
    <3> QED
      BY <3>1, <3>2, <3>3
  <2> QED
    BY <2>2, <2>3
<1>6. ASSUME NEW x, NEW h
      PROVE  Lies(x, h)' <=> Lies(x, h) \/ (x = g /\ InStack(k, h))
  <2>1. ASSUME Lies(x, h)' PROVE Lies(x, h) \/ (x = g /\ InStack(k, h))
    <3>1. PICK b \in Bucket : \E i, j \in 1 .. Len(storage'[b]) :
              i < j /\ KeyAt(b, i)' = KeyAt(b, j)' /\ At(b, i)' = x /\ At(b, j)' = h
      BY <2>1 DEF Lies
    <3>2. PICK i \in 1 .. Len(storage'[b]), j \in 1 .. Len(storage'[b]) :
              i < j /\ KeyAt(b, i)' = KeyAt(b, j)' /\ At(b, i)' = x /\ At(b, j)' = h
      BY <3>1
    <3>3. CASE b # b0
      <4>1. /\ i \in 1 .. Len(storage[b]) /\ j \in 1 .. Len(storage[b])
            /\ i < j /\ KeyAt(b, i) = KeyAt(b, j) /\ At(b, i) = x /\ At(b, j) = h
        BY <1>2, <3>2, <3>3
      <4> QED
        BY <4>1 DEF Lies
    <3>4. CASE b = b0
      <4>1. i \in 1 .. Len(storage'[b0]) /\ j \in 1 .. Len(storage'[b0]) /\ j # 1
        BY <1>1, <3>2, <3>4
      <4>2. j - 1 \in 1 .. Len(storage[b0]) /\ KeyAt(b0, j)' = KeyAt(b0, j - 1) /\ At(b0, j - 1) = h
        BY <1>3, <3>2, <3>4, <4>1
      <4>3. CASE i = 1
        <5>1. x = g /\ KeyAt(b0, j - 1) = k
          BY <1>2, <3>2, <3>4, <4>2, <4>3
        <5> QED
          BY <4>2, <5>1 DEF InStack, b0
      <4>4. CASE i # 1
        <5>1. i - 1 \in 1 .. Len(storage[b0]) /\ KeyAt(b0, i)' = KeyAt(b0, i - 1) /\ At(b0, i - 1) = x
          BY <1>3, <3>2, <3>4, <4>1, <4>4
        <5>2. i - 1 < j - 1
          BY <1>1, <3>2, <4>1
        <5>3. KeyAt(b0, i - 1) = KeyAt(b0, j - 1)
          BY <3>2, <3>4, <4>2, <5>1
        <5> QED
          BY <1>1, <4>2, <5>1, <5>2, <5>3 DEF Lies
      <4> QED
        BY <4>3, <4>4
    <3> QED
      BY <3>3, <3>4
  <2>2. ASSUME Lies(x, h) PROVE Lies(x, h)'
    <3>1. PICK b \in Bucket : \E i, j \in 1 .. Len(storage[b]) :
              i < j /\ KeyAt(b, i) = KeyAt(b, j) /\ At(b, i) = x /\ At(b, j) = h
      BY <2>2 DEF Lies
    <3>2. PICK i \in 1 .. Len(storage[b]), j \in 1 .. Len(storage[b]) :
              i < j /\ KeyAt(b, i) = KeyAt(b, j) /\ At(b, i) = x /\ At(b, j) = h
      BY <3>1
    <3>3. CASE b # b0
      <4>1. /\ i \in 1 .. Len(storage'[b]) /\ j \in 1 .. Len(storage'[b])
            /\ i < j /\ KeyAt(b, i)' = KeyAt(b, j)' /\ At(b, i)' = x /\ At(b, j)' = h
        BY <1>2, <3>2, <3>3
      <4> QED
        BY <4>1 DEF Lies
    <3>4. CASE b = b0
      <4>1. /\ i + 1 \in 1 .. Len(storage'[b0]) /\ j + 1 \in 1 .. Len(storage'[b0])
            /\ KeyAt(b0, i + 1)' = KeyAt(b0, j + 1)'
            /\ At(b0, i + 1)' = x /\ At(b0, j + 1)' = h
        BY <1>2, <1>4, <3>2, <3>4
      <4>2. i + 1 < j + 1
        BY <1>1, <3>2, <3>4
      <4> QED
        BY <1>1, <4>1, <4>2 DEF Lies
    <3> QED
      BY <3>3, <3>4
  <2>3. ASSUME x = g, InStack(k, h) PROVE Lies(x, h)'
    <3>1. PICK j \in 1 .. Len(storage[b0]) : KeyAt(b0, j) = k /\ At(b0, j) = h
      BY <2>3 DEF InStack, b0
    <3>2. /\ j + 1 \in 1 .. Len(storage'[b0]) /\ 1 \in 1 .. Len(storage'[b0]) /\ 1 < j + 1
          /\ KeyAt(b0, 1)' = KeyAt(b0, j + 1)' /\ At(b0, 1)' = x /\ At(b0, j + 1)' = h
      BY <1>2, <1>4, <2>3, <3>1
    <3> QED
      BY <1>1, <3>2 DEF Lies
  <2> QED
    BY <2>1, <2>2, <2>3
<1> QED
  BY <1>5, <1>6

\* The element that a lookup finds is above all others of its key.
LEMMA FoundIsTop ==
    ASSUME TableInv, NEW k \in TableKey, Table!Matches(k) # {},
           NEW b0, b0 = hashBucket[k], NEW p, p = Table!Position(k), NEW g, g = Table!Found(k).gaddr
    PROVE  /\ b0 \in Bucket /\ p \in 1 .. Len(storage[b0]) /\ Len(storage[b0]) \in Nat
           /\ KeyAt(b0, p) = k /\ At(b0, p) = g /\ g \in Address
           /\ \A i \in 1 .. Len(storage[b0]) : KeyAt(b0, i) = k => p <= i
<1>1. storage \in [Bucket -> Seq(Table!Elem)] /\ Table!TypeOK
  BY DEF TableInv, Table!TypeOK
<1>2. b0 \in Bucket /\ p \in 1 .. Len(storage[b0]) /\ g = At(b0, p)
  BY <1>1, PositionFound, ContainersAssumption
<1>3. DOMAIN storage[b0] = 1 .. Len(storage[b0]) /\ Len(storage[b0]) \in Nat /\ g \in Address
  BY <1>1, <1>2, ChainTypes
<1>4. Table!Matches(k) = {i \in 1 .. Len(storage[b0]) : KeyAt(b0, i) = k}
  BY <1>3 DEF Table!Matches, Table!Chain, KeyAt
<1>5. Table!Matches(k) \in SUBSET Nat
  BY <1>3, <1>4
<1>6. \E i \in Table!Matches(k) : \A j \in Table!Matches(k) : i <= j
  BY <1>5, LeastNatural
<1>7. p \in Table!Matches(k) /\ \A j \in Table!Matches(k) : p <= j
  BY <1>6 DEF Table!Position
<1> QED
  BY <1>2, <1>3, <1>4, <1>7

\* What a lookup finds is the top of the stack.
LEMMA LookupSeesTop ==
    ASSUME TableInv, NEW k \in TableKey, Table!Matches(k) # {}
    PROVE  Table!Map!IsTop(k, Table!Found(k).gaddr)
<1> DEFINE g == Table!Found(k).gaddr
           b0 == hashBucket[k]
           p == Table!Position(k)
<1>1. /\ b0 \in Bucket /\ p \in 1 .. Len(storage[b0]) /\ Len(storage[b0]) \in Nat
      /\ KeyAt(b0, p) = k /\ At(b0, p) = g /\ g \in Address
      /\ \A i \in 1 .. Len(storage[b0]) : KeyAt(b0, i) = k => p <= i
  BY FoundIsTop
<1>2. /\ \A h : h \in Table!Cells(k) <=> InStack(k, h)
      /\ \A q : q \in Table!Above <=> \E x, h \in Address : q = <<x, h>> /\ Lies(x, h)
      /\ \A x, h : Lies(x, h) => x \in Address /\ h \in Address
  BY StacksMeant DEF StacksMean, TableInv, Table!TypeOK
<1> HIDE DEF g, p
<1>3. InStack(k, g)
  BY <1>1 DEF InStack
<1>4. ASSUME NEW h, InStack(k, h), h # g PROVE Lies(g, h)
  <2>1. PICK i \in 1 .. Len(storage[b0]) : KeyAt(b0, i) = k /\ At(b0, i) = h
    BY <1>4 DEF InStack
  <2>2. p <= i /\ i # p
    BY <1>1, <1>4, <2>1
  <2>3. p < i
    BY <1>1, <2>2
  <2> QED
    BY <1>1, <2>1, <2>3 DEF Lies
<1>5. g \in Table!Cells(k) /\ \A h \in Table!Cells(k) \ {g} : <<g, h>> \in Table!Above
  BY <1>2, <1>3, <1>4
<1> QED
  BY <1>5 DEF Table!Map!IsTop, g

\* The stacks after an erase.
LEMMA StacksPopped ==
    ASSUME TableInv, NEW k \in TableKey, Table!Matches(k) # {},
           NEW g, g = Table!Found(k).gaddr,
           storage' = [storage EXCEPT ![hashBucket[k]] =
                          Table!Unlink(storage[hashBucket[k]], Table!Position(k))]
    PROVE  /\ \A j \in TableKey : \A h : InStack(j, h)' <=> InStack(j, h) /\ ~ (j = k /\ h = g)
           /\ \A x, h : Lies(x, h)' <=> Lies(x, h) /\ x # g
<1>0. PICK b0, p : b0 = hashBucket[k] /\ p = Table!Position(k)
  OBVIOUS
<1>1. /\ b0 \in Bucket /\ p \in 1 .. Len(storage[b0]) /\ Len(storage[b0]) \in Nat
      /\ KeyAt(b0, p) = k /\ At(b0, p) = g
      /\ \A i \in 1 .. Len(storage[b0]) : KeyAt(b0, i) = k => p <= i
  BY <1>0, FoundIsTop
<1>2. /\ Len(storage'[b0]) = Len(storage[b0]) - 1
      /\ \A i \in 1 .. (Len(storage[b0]) - 1) :
            storage'[b0][i] = IF i < p THEN storage[b0][i] ELSE storage[b0][i + 1]
      /\ \A b \in Bucket \ {b0} : storage'[b] = storage[b]
  <2>1. storage \in [Bucket -> Seq(Table!Elem)]
    BY DEF TableInv, Table!TypeOK
  <2> QED
    <3>1. storage' = [storage EXCEPT ![b0] = Table!Unlink(storage[b0], p)]
      BY <1>0
    <3> QED
      BY ONLY <1>1, <2>1, <3>1, UnlinkShifts
<1>3. \A b \in Bucket : \A i \in 1 .. Len(storage[b]) : At(b, i) = g => b = b0 /\ i = p
  BY <1>1 DEF TableInv, Owned
<1> HIDE DEF TableInv
<1>4. \A b \in Bucket \ {b0} : /\ Len(storage'[b]) = Len(storage[b])
                               /\ \A i : KeyAt(b, i)' = KeyAt(b, i) /\ At(b, i)' = At(b, i)
  BY <1>2 DEF KeyAt, At
<1> DEFINE over(i) == IF i < p THEN i ELSE i + 1
           under(i) == IF i < p THEN i ELSE i - 1
<1>5. ASSUME NEW i \in 1 .. Len(storage'[b0])
      PROVE  /\ over(i) \in 1 .. Len(storage[b0]) /\ over(i) # p
             /\ KeyAt(b0, i)' = KeyAt(b0, over(i)) /\ At(b0, i)' = At(b0, over(i))
             /\ \A j \in 1 .. Len(storage'[b0]) : i < j => over(i) < over(j)
  <2>1. i \in 1 .. (Len(storage[b0]) - 1) /\ i \in Nat /\ p \in Nat
    BY <1>1, <1>2
  <2>2. storage'[b0][i] = storage[b0][over(i)]
    BY <1>2, <2>1
  <2>3. over(i) \in 1 .. Len(storage[b0]) /\ over(i) # p
    BY <1>1, <2>1
  <2>4. \A j \in 1 .. Len(storage'[b0]) : i < j => over(i) < over(j)
    BY <1>1, <1>2, <2>1
  <2> HIDE DEF over
  <2> QED
    BY <2>2, <2>3, <2>4 DEF KeyAt, At
<1>6. ASSUME NEW i \in 1 .. Len(storage[b0]), i # p
      PROVE  /\ under(i) \in 1 .. Len(storage'[b0]) /\ over(under(i)) = i
             /\ \A j \in 1 .. Len(storage[b0]) : j # p /\ i < j => under(i) < under(j)
  <2>1. i \in Nat /\ p \in Nat /\ 1 <= i /\ i <= Len(storage[b0])
    BY <1>1
  <2>2. under(i) \in 1 .. (Len(storage[b0]) - 1) /\ over(under(i)) = i
    BY <1>1, <1>6, <2>1
  <2>3. \A j \in 1 .. Len(storage[b0]) : j # p /\ i < j => under(i) < under(j)
    BY <1>1, <1>6, <2>1
  <2> HIDE DEF over, under
  <2> QED
    BY <1>2, <2>2, <2>3
<1>7. ASSUME NEW i \in 1 .. Len(storage[b0]), i # p
      PROVE  KeyAt(b0, under(i))' = KeyAt(b0, i) /\ At(b0, under(i))' = At(b0, i)
  <2> DEFINE u == under(i)
  <2>1. u \in 1 .. Len(storage'[b0]) /\ over(u) = i
    BY <1>6, <1>7
  <2> HIDE DEF over, under, u
  <2>2. KeyAt(b0, u)' = KeyAt(b0, over(u)) /\ At(b0, u)' = At(b0, over(u))
    BY <1>5, <2>1
  <2> QED
    BY <2>1, <2>2 DEF u
<1> HIDE DEF over, under
<1>8. ASSUME NEW j \in TableKey, NEW h
      PROVE  InStack(j, h)' <=> InStack(j, h) /\ ~ (j = k /\ h = g)
  <2>1. hashBucket[j] \in Bucket
    BY ContainersAssumption DEF Table!TableAssumption
  <2>2. CASE hashBucket[j] # b0
    BY <1>0, <1>4, <2>1, <2>2 DEF InStack
  <2>3. CASE hashBucket[j] = b0
    <3>1. ASSUME InStack(j, h)' PROVE InStack(j, h) /\ h # g
      <4>1. PICK i \in 1 .. Len(storage'[b0]) : KeyAt(b0, i)' = j /\ At(b0, i)' = h
        BY <2>3, <3>1 DEF InStack
      <4>2. /\ over(i) \in 1 .. Len(storage[b0]) /\ over(i) # p
            /\ KeyAt(b0, over(i)) = j /\ At(b0, over(i)) = h
        BY <1>5, <4>1
      <4>3. h # g
        BY <1>1, <1>3, <4>2
      <4> QED
        BY <2>3, <4>2, <4>3 DEF InStack
    <3>2. ASSUME InStack(j, h), ~ (j = k /\ h = g) PROVE InStack(j, h)'
      <4>1. PICK i \in 1 .. Len(storage[b0]) : KeyAt(b0, i) = j /\ At(b0, i) = h
        BY <2>3, <3>2 DEF InStack
      <4>2. i # p
        BY <1>1, <3>2, <4>1
      <4>3. /\ under(i) \in 1 .. Len(storage'[b0])
            /\ KeyAt(b0, under(i))' = j /\ At(b0, under(i))' = h
        BY <1>6, <1>7, <4>1, <4>2
      <4> QED
        BY <2>3, <4>3 DEF InStack
    <3> QED
      BY <3>1, <3>2
  <2> QED
    BY <2>2, <2>3
<1>9. ASSUME NEW x, NEW h PROVE Lies(x, h)' <=> Lies(x, h) /\ x # g
  <2>1. ASSUME Lies(x, h)' PROVE Lies(x, h) /\ x # g
    <3>1. PICK b \in Bucket : \E i, j \in 1 .. Len(storage'[b]) :
              i < j /\ KeyAt(b, i)' = KeyAt(b, j)' /\ At(b, i)' = x /\ At(b, j)' = h
      BY <2>1 DEF Lies
    <3>2. PICK i \in 1 .. Len(storage'[b]), j \in 1 .. Len(storage'[b]) :
              i < j /\ KeyAt(b, i)' = KeyAt(b, j)' /\ At(b, i)' = x /\ At(b, j)' = h
      BY <3>1
    <3>3. CASE b # b0
      <4>1. /\ i \in 1 .. Len(storage[b]) /\ j \in 1 .. Len(storage[b])
            /\ i < j /\ KeyAt(b, i) = KeyAt(b, j) /\ At(b, i) = x /\ At(b, j) = h
        BY <1>4, <3>2, <3>3
      <4>2. x # g
        BY <1>3, <3>3, <4>1
      <4> QED
        BY <4>1, <4>2 DEF Lies
    <3>4. CASE b = b0
      <4>1. /\ over(i) \in 1 .. Len(storage[b0]) /\ over(i) # p
            /\ KeyAt(b0, i)' = KeyAt(b0, over(i)) /\ At(b0, over(i)) = x
        BY <1>5, <3>2, <3>4
      <4>2. /\ over(j) \in 1 .. Len(storage[b0])
            /\ KeyAt(b0, j)' = KeyAt(b0, over(j)) /\ At(b0, over(j)) = h
        BY <1>5, <3>2, <3>4
      <4>3. over(i) < over(j)
        BY <1>5, <3>2, <3>4
      <4>4. KeyAt(b0, over(i)) = KeyAt(b0, over(j))
        BY <3>2, <3>4, <4>1, <4>2
      <4>5. x # g
        BY <1>1, <1>3, <4>1
      <4> QED
        BY <1>1, <4>1, <4>2, <4>3, <4>4, <4>5 DEF Lies
    <3> QED
      BY <3>3, <3>4
  <2>2. ASSUME Lies(x, h), x # g PROVE Lies(x, h)'
    <3>1. PICK b \in Bucket : \E i, j \in 1 .. Len(storage[b]) :
              i < j /\ KeyAt(b, i) = KeyAt(b, j) /\ At(b, i) = x /\ At(b, j) = h
      BY <2>2 DEF Lies
    <3>2. PICK i \in 1 .. Len(storage[b]), j \in 1 .. Len(storage[b]) :
              i < j /\ KeyAt(b, i) = KeyAt(b, j) /\ At(b, i) = x /\ At(b, j) = h
      BY <3>1
    <3>3. CASE b # b0
      <4>1. /\ i \in 1 .. Len(storage'[b]) /\ j \in 1 .. Len(storage'[b])
            /\ i < j /\ KeyAt(b, i)' = KeyAt(b, j)' /\ At(b, i)' = x /\ At(b, j)' = h
        BY <1>4, <3>2, <3>3
      <4> QED
        BY <4>1 DEF Lies
    <3>4. CASE b = b0
      <4>1. i # p
        BY <1>1, <2>2, <3>2, <3>4
      <4>2. j # p
        <5>1. SUFFICES ASSUME j = p PROVE FALSE
          OBVIOUS
        <5>2. KeyAt(b0, i) = k /\ i < p /\ i \in 1 .. Len(storage[b0])
          BY <1>1, <3>2, <3>4, <5>1
        <5>3. p <= i /\ p \in Nat /\ i \in Nat
          BY <1>1, <5>2
        <5> QED
          BY <5>2, <5>3
      <4>3. /\ under(i) \in 1 .. Len(storage'[b0])
            /\ KeyAt(b0, under(i))' = KeyAt(b0, i) /\ At(b0, under(i))' = x
        BY <1>6, <1>7, <3>2, <3>4, <4>1
      <4>4. /\ under(j) \in 1 .. Len(storage'[b0])
            /\ KeyAt(b0, under(j))' = KeyAt(b0, j) /\ At(b0, under(j))' = h
        BY <1>6, <1>7, <3>2, <3>4, <4>2
      <4>5. under(i) < under(j)
        BY <1>6, <3>2, <3>4, <4>1, <4>2
      <4>6. KeyAt(b0, under(i))' = KeyAt(b0, under(j))'
        BY <3>2, <3>4, <4>3, <4>4
      <4> QED
        BY <1>1, <4>3, <4>4, <4>5, <4>6 DEF Lies
    <3> QED
      BY <3>3, <3>4
  <2> QED
    BY <2>1, <2>2
<1> QED
  BY <1>8, <1>9

\* The value of a cell, as the abstract map sees it.
Kept(g) == IF memory[g] = NoEntry THEN Absent ELSE memory[g].data

\* An insert pushes what it leaves in the new element's memory.
LEMMA PrependIsPush ==
    ASSUME TableInv, NEW k \in TableKey, NEW g \in Address, memory[g] = NoEntry,
           NEW d \in Table!SaveData, Table!Prepend(k, g), memory' = [memory EXCEPT ![g] = d]
    PROVE  Table!Map!Push(k, d.data)
<1>1. /\ storage \in [Bucket -> Seq(Table!Elem)] /\ d # NoEntry
      /\ memory \in [Address -> Table!SaveData \cup {NoEntry}]
  BY ContainersAssumption DEF TableInv, Table!TypeOK, Table!TableAssumption
<1>2. storage' \in [Bucket -> Seq(Table!Elem)]
  BY <1>1, PrependShifts
<1>3. /\ \A j \in TableKey : \A h : InStack(j, h)' <=> InStack(j, h) \/ (j = k /\ h = g)
      /\ \A x, h : Lies(x, h)' <=> Lies(x, h) \/ (x = g /\ InStack(k, h))
  BY <1>1, StacksPushed
<1>4. /\ \A j \in TableKey : \A h : h \in Table!Cells(j) <=> InStack(j, h)
      /\ \A p : p \in Table!Above <=> \E x, h \in Address : p = <<x, h>> /\ Lies(x, h)
      /\ \A x, h : Lies(x, h) => x \in Address /\ h \in Address
  BY <1>1, StacksMeant DEF StacksMean
<1>5. /\ \A j \in TableKey : \A h : h \in Table!Cells(j)' <=> InStack(j, h)'
      /\ \A p : p \in Table!Above' <=> \E x, h \in Address : p = <<x, h>> /\ Lies(x, h)'
      /\ \A x, h : Lies(x, h)' => x \in Address /\ h \in Address
  BY <1>2, StacksMeantNext DEF StacksMean
<1>6. ASSUME NEW j \in TableKey
      PROVE  Table!Cells(j)' = IF j = k THEN Table!Cells(j) \cup {g} ELSE Table!Cells(j)
  <2>1. \A h : h \in Table!Cells(j)' <=> h \in Table!Cells(j) \/ (j = k /\ h = g)
    BY <1>3, <1>4, <1>5
  <2> QED
    BY <2>1
<1>7. Table!Above' = Table!Above \cup ({g} \X Table!Cells(k))
  <2>1. ASSUME NEW p \in Table!Above' PROVE p \in Table!Above \/ p \in {g} \X Table!Cells(k)
    <3>1. PICK x \in Address, h \in Address : p = <<x, h>> /\ Lies(x, h)'
      BY <1>5
    <3>2. Lies(x, h) \/ (x = g /\ h \in Table!Cells(k))
      BY <1>3, <1>4, <3>1
    <3> QED
      BY <1>4, <3>1, <3>2
  <2>2. ASSUME NEW p \in Table!Above PROVE p \in Table!Above'
    BY <1>3, <1>4, <1>5, <2>2
  <2>3. ASSUME NEW h \in Table!Cells(k) PROVE <<g, h>> \in Table!Above'
    <3>1. Lies(g, h)'
      BY <1>3, <1>4, <2>3
    <3> QED
      BY <1>5, <3>1
  <2> QED
    BY <2>1, <2>2, <2>3
<1>8. \A h \in Address : Kept(h)' = IF h = g THEN d.data ELSE Kept(h)
  BY <1>1 DEF Kept
<1>9. amountElements' = amountElements + 1
  BY DEF Table!Prepend
<1>10. [j \in TableKey |-> Table!Cells(j)'] =
           [[j \in TableKey |-> Table!Cells(j)] EXCEPT ![k] = @ \cup {g}]
  BY <1>6
<1>11. [h \in Address |-> Kept(h)'] = [[h \in Address |-> Kept(h)] EXCEPT ![g] = d.data]
  BY <1>8
<1>12. [h \in Address |-> Kept(h)][g] = Absent
  BY DEF Kept
<1> QED
  BY <1>7, <1>9, <1>10, <1>11, <1>12 DEF Table!Map!Push, Kept

\* An erase pops.
LEMMA UnlinkIsPop ==
    ASSUME TableInv, NEW k \in TableKey, Table!Matches(k) # {},
           storage' = [storage EXCEPT ![hashBucket[k]] =
                          Table!Unlink(storage[hashBucket[k]], Table!Position(k))],
           memory' = [memory EXCEPT ![Table!Found(k).gaddr] = NoEntry],
           amountElements' = amountElements - 1, answer' = answer
    PROVE  Table!Map!Erase(k)
<1>0. PICK b0, q, g : b0 = hashBucket[k] /\ q = Table!Position(k) /\ g = Table!Found(k).gaddr
  OBVIOUS
<1>1. /\ storage \in [Bucket -> Seq(Table!Elem)]
      /\ memory \in [Address -> Table!SaveData \cup {NoEntry}]
  BY DEF TableInv, Table!TypeOK
<1>2. /\ b0 \in Bucket /\ q \in 1 .. Len(storage[b0])
      /\ storage' = [storage EXCEPT ![b0] = Table!Unlink(storage[b0], q)]
      /\ memory' = [memory EXCEPT ![g] = NoEntry] /\ g \in Address
  BY <1>0, FoundIsTop
<1>3. /\ \A j \in TableKey : \A h : InStack(j, h)' <=> InStack(j, h) /\ ~ (j = k /\ h = g)
      /\ \A x, h : Lies(x, h)' <=> Lies(x, h) /\ x # g
  BY <1>0, <1>2, StacksPopped
<1>4. Table!Map!IsTop(k, g)
  BY <1>0, LookupSeesTop
<1>5. storage' \in [Bucket -> Seq(Table!Elem)]
  BY <1>1, <1>2, UnlinkShifts
<1>6. /\ \A j \in TableKey : \A h : h \in Table!Cells(j) <=> InStack(j, h)
      /\ \A p : p \in Table!Above <=> \E x, h \in Address : p = <<x, h>> /\ Lies(x, h)
  BY <1>1, StacksMeant DEF StacksMean
<1>7. /\ \A j \in TableKey : \A h : h \in Table!Cells(j)' <=> InStack(j, h)'
      /\ \A p : p \in Table!Above' <=> \E x, h \in Address : p = <<x, h>> /\ Lies(x, h)'
  BY <1>5, StacksMeantNext DEF StacksMean
<1>8. ASSUME NEW j \in TableKey
      PROVE  Table!Cells(j)' = IF j = k THEN Table!Cells(j) \ {g} ELSE Table!Cells(j)
  <2>1. \A h : h \in Table!Cells(j)' <=> h \in Table!Cells(j) /\ ~ (j = k /\ h = g)
    BY <1>3, <1>6, <1>7
  <2> QED
    BY <2>1
<1>9. Table!Above' = Table!Above \ ({g} \X Address)
  <2>1. ASSUME NEW p \in Table!Above' PROVE p \in Table!Above /\ p \notin {g} \X Address
    <3>1. PICK x \in Address, h \in Address : p = <<x, h>> /\ Lies(x, h)'
      BY <1>7
    <3>2. Lies(x, h) /\ x # g
      BY <1>3, <3>1
    <3> QED
      BY <1>6, <3>1, <3>2
  <2>2. ASSUME NEW p \in Table!Above, p \notin {g} \X Address PROVE p \in Table!Above'
    <3>1. PICK x \in Address, h \in Address : p = <<x, h>> /\ Lies(x, h)
      BY <1>6
    <3>2. Lies(x, h)'
      BY <1>3, <2>2, <3>1
    <3> QED
      BY <1>7, <3>1, <3>2
  <2> QED
    BY <2>1, <2>2
<1>10. \A h \in Address : Kept(h)' = IF h = g THEN Absent ELSE Kept(h)
  BY <1>1, <1>2 DEF Kept
<1>11. [j \in TableKey |-> Table!Cells(j)'] =
           [[j \in TableKey |-> Table!Cells(j)] EXCEPT ![k] = @ \ {g}]
  BY <1>8
<1>12. [h \in Address |-> Kept(h)'] = [[h \in Address |-> Kept(h)] EXCEPT ![g] = Absent]
  BY <1>10
<1> QED
  BY <1>2, <1>4, <1>9, <1>11, <1>12 DEF Table!Map!Erase, Kept

\* What a stack holds is allocated.
LEMMA CellsAreHeld ==
    ASSUME TableInv, NEW k \in TableKey, NEW g \in Table!Cells(k)
    PROVE  g \in Address /\ memory[g] # NoEntry
<1>1. storage \in [Bucket -> Seq(Table!Elem)] /\ hashBucket[k] \in Bucket
  BY ContainersAssumption DEF TableInv, Table!TypeOK, Table!TableAssumption
<1>2. InStack(k, g)
  BY <1>1, StacksMeant DEF StacksMean
<1>3. Named(g) /\ g \in Address
  BY <1>1, <1>2, ChainTypes DEF InStack, Named
<1> QED
  BY <1>3 DEF TableInv, Covered

\* Empty chains are empty stacks.
LEMMA EmptyStacks ==
    ASSUME storage \in [Bucket -> Seq(Table!Elem)], \A b \in Bucket : Len(storage[b]) = 0
    PROVE  (\A k \in TableKey : Table!Cells(k) = {}) /\ Table!Above = {}
<1>1. /\ \A j \in TableKey : \A h : h \in Table!Cells(j) <=> InStack(j, h)
      /\ \A p : p \in Table!Above <=> \E x, h \in Address : p = <<x, h>> /\ Lies(x, h)
  BY StacksMeant DEF StacksMean
<1>2. ASSUME NEW k \in TableKey, NEW h PROVE ~ InStack(k, h)
  BY ContainersAssumption DEF Table!TableAssumption, InStack
<1>3. \A x, h : ~ Lies(x, h)
  BY DEF Lies
<1> QED
  BY <1>1, <1>2, <1>3

\* clear empties every stack.
LEMMA ClearIsClear ==
    ASSUME TableInv, Table!clear, ~ Table!End PROVE Table!Map!Clear
<1>1. /\ storage' = [b \in Bucket |-> << >>] /\ amountElements' = 0
      /\ memory' = [g \in Address |->
               IF \E b \in Bucket : \E i \in DOMAIN storage[b] : storage[b][i].gaddr = g
               THEN NoEntry ELSE memory[g]]
      /\ answer' = answer
  BY DEF Table!clear
<1>2. \A b \in Bucket : DOMAIN storage[b] = 1 .. Len(storage[b])
  BY ChainTypes DEF TableInv, Table!TypeOK
<1>3. ASSUME NEW g \in Address PROVE memory'[g] = NoEntry
  <2>1. Named(g) => memory'[g] = NoEntry
    BY <1>1, <1>2 DEF Named, At
  <2>2. ~ Named(g) => memory'[g] = memory[g] /\ memory[g] = NoEntry
    BY <1>1, <1>2 DEF Named, At, TableInv, Covered
  <2> QED
    BY <2>1, <2>2
<1>4. /\ storage' \in [Bucket -> Seq(Table!Elem)]
      /\ \A b \in Bucket : Len(storage'[b]) = 0
  <2>1. << >> \in Seq(Table!Elem)
    OBVIOUS
  <2> QED
    BY <1>1, <2>1
<1>5. /\ \A j \in TableKey : \A h : h \in Table!Cells(j)' <=> InStack(j, h)'
      /\ \A p : p \in Table!Above' <=> \E x, h \in Address : p = <<x, h>> /\ Lies(x, h)'
  BY <1>4, StacksMeantNext DEF StacksMean
<1>6. ASSUME NEW k \in TableKey, NEW h PROVE ~ InStack(k, h)'
  BY <1>4, ContainersAssumption DEF Table!TableAssumption, InStack
<1>7. \A x, h : ~ Lies(x, h)'
  BY <1>4 DEF Lies
<1>8. (\A k \in TableKey : Table!Cells(k)' = {}) /\ Table!Above' = {}
  BY <1>5, <1>6, <1>7
<1> QED
  BY <1>1, <1>3, <1>8 DEF Table!Map!Clear

\* Every call of the table is a call of the map, or ends the process and
\* changes nothing of it.
LEMMA TableIsMapped ==
    ASSUME TableInv, Table!Next PROVE Table!Map!MapNext \/ UNCHANGED Table!Map!mapVars
<1>1. CASE Table!End
  <2>1. /\ storage' = storage /\ amountElements' = amountElements /\ memory' = memory
        /\ answer' = answer
    BY <1>1 DEF Table!End
  <2> QED
    BY <2>1 DEF Table!Map!mapVars, Table!Cells, Table!Above, Table!Matches, Table!Chain
<1>2. CASE ~ Table!End
  <2>1. ASSUME NEW k \in TableKey, NEW v \in Word, Table!insert(k, v)
        PROVE  Table!Map!Insert(k, v)
    <3>1. PICK g \in Address, d \in Table!SaveData, granted \in Table!Granted :
              /\ memory[g] = NoEntry /\ Table!Prepend(k, g) /\ answer' = answer
              /\ memory' = [memory EXCEPT ![g] = IF granted THEN Table!Written(v) ELSE d]
      BY <1>2, <2>1 DEF Table!insert
    <3>2. CASE granted
      <4>1. Table!Written(v) \in Table!SaveData /\ Table!Written(v).data = v
        BY DEF Table!Written, Table!SaveData
      <4>2. Table!Map!Push(k, Table!Written(v).data)
        BY <3>1, <3>2, <4>1, PrependIsPush
      <4> QED
        BY <3>1, <4>1, <4>2 DEF Table!Map!Insert
    <3>3. CASE ~ granted
      <4>1. Contended /\ d.data \in Word
        BY <3>1, <3>3 DEF Table!Granted, Table!SaveData
      <4>2. Table!Map!Push(k, d.data)
        BY <3>1, <3>3, PrependIsPush
      <4> QED
        BY <3>1, <4>1, <4>2 DEF Table!Map!Insert
    <3> QED
      BY <3>2, <3>3
  <2>2. ASSUME NEW k \in TableKey, Table!erase(k) PROVE Table!Map!Erase(k)
    BY <1>2, <2>2, UnlinkIsPop DEF Table!erase
  <2>3. ASSUME NEW k \in TableKey, Table!get(k) PROVE Table!Map!Lookup(k)
    <3>1. [j \in TableKey |-> Table!Cells(j)][k] = Table!Cells(k)
      OBVIOUS
    <3>2. ASSUME UNCHANGED <<storage, amountElements, memory>>
          PROVE  UNCHANGED <<[j \in TableKey |-> Table!Cells(j)], Table!Above,
                             [g \in Address |-> Kept(g)], amountElements>>
      BY <3>2 DEF Table!Cells, Table!Above, Table!Matches, Table!Chain, Kept
    <3>3. CASE Table!Matches(k) = {}
      <4>1. answer' = Absent /\ UNCHANGED <<storage, amountElements, memory>>
        BY <2>3, <3>3 DEF Table!get
      <4>2. Table!Cells(k) = {}
        BY <3>3 DEF Table!Cells
      <4> QED
        BY <3>1, <3>2, <4>1, <4>2 DEF Table!Map!Lookup, Kept
    <3>4. CASE Table!Matches(k) # {}
      <4>1. PICK g : g = Table!Found(k).gaddr
        OBVIOUS
      <4>2. PICK granted \in Table!Granted :
                /\ Table!Read(memory[g], granted)
                /\ UNCHANGED <<storage, amountElements, memory>>
        BY <1>2, <2>3, <3>4, <4>1 DEF Table!get
      <4>3. Table!Map!IsTop(k, g) /\ g \in Address
        BY <3>4, <4>1, LookupSeesTop, FoundIsTop
      <4>4. g \in Table!Cells(k)
        BY <3>1, <4>3 DEF Table!Map!IsTop
      <4>5. CASE granted
        <5>1. memory[g] # NoEntry
          BY <4>4, CellsAreHeld
        <5>2. answer' = [h \in Address |-> Kept(h)][g]
          BY <4>2, <4>3, <4>5, <5>1 DEF Table!Read, Kept
        <5> QED
          BY <3>2, <4>2, <4>3, <5>2 DEF Table!Map!Lookup, Kept
      <4>6. CASE ~ granted
        <5>1. answer' = Zero /\ Contended
          BY <4>2, <4>6 DEF Table!Read, Table!Granted
        <5> QED
          BY <3>1, <3>2, <4>2, <4>4, <5>1 DEF Table!Map!Lookup, Kept
      <4> QED
        BY <4>5, <4>6
    <3> QED
      BY <3>3, <3>4
  <2>4. ASSUME NEW k \in TableKey, Table!create(k) PROVE Table!Map!Create(k)
    <3>1. PICK g \in Address, d \in Table!SaveData, granted \in Table!Granted :
              /\ memory[g] = NoEntry /\ Table!Read(d, granted) /\ Table!Prepend(k, g)
              /\ memory' = [memory EXCEPT ![g] = d]
      BY <1>2, <2>4 DEF Table!create
    <3>2. Table!Map!Push(k, d.data) /\ d.data \in Word
      BY <3>1, PrependIsPush DEF Table!SaveData
    <3>3. answer' = d.data \/ (Contended /\ answer' = Zero)
      BY <3>1 DEF Table!Read, Table!Granted
    <3>4. [j \in TableKey |-> Table!Cells(j)][k] = {}
      BY <2>4 DEF Table!create, Table!Cells
    <3> QED
      BY <3>2, <3>3, <3>4 DEF Table!Map!Create
  <2>5. ASSUME Table!clear PROVE Table!Map!Clear
    BY <1>2, <2>5, ClearIsClear
  <2> QED
    BY <2>1, <2>2, <2>3, <2>4, <2>5 DEF Table!Next, Table!Map!MapNext
<1> QED
  BY <1>1, <1>2

\* The chains, filtered for one key, are that key's stack, whatever keys share a
\* bucket with it: HashTable implements LifoMap.
THEOREM TableIsLifoMap == Table!Spec => ImplementsLifoMap
<1>1. Table!Init => Table!Map!MapInit
  <2> SUFFICES ASSUME Table!Init PROVE Table!Map!MapInit
    OBVIOUS
  <2>1. /\ storage = [b \in Bucket |-> << >>] /\ amountElements = 0
        /\ memory = [g \in Address |-> NoEntry] /\ answer = Absent
    BY DEF Table!Init
  <2>2. \A b \in Bucket : Len(storage[b]) = 0 /\ storage[b] = << >>
    BY <2>1
  <2>3. storage \in [Bucket -> Seq(Table!Elem)]
    <3>1. << >> \in Seq(Table!Elem)
      OBVIOUS
    <3> QED
      BY <2>1, <3>1
  <2>4. (\A k \in TableKey : Table!Cells(k) = {}) /\ Table!Above = {}
    BY <2>2, <2>3, EmptyStacks
  <2> QED
    BY <2>1, <2>4 DEF Table!Map!MapInit
<1>2. TableInv /\ [Table!Next]_(Table!vars) => [Table!Map!MapNext]_(Table!Map!mapVars)
  <2>1. UNCHANGED Table!vars => UNCHANGED Table!Map!mapVars
    BY DEF Table!vars, Table!Map!mapVars, Table!Cells, Table!Above, Table!Matches, Table!Chain
  <2> QED
    BY <2>1, TableIsMapped
<1> QED
  BY <1>1, <1>2, TableInvariant, PTL DEF Table!Spec, ImplementsLifoMap, Table!ImplementsLifoMap, Table!Map!MapSpec

=============================================================================
