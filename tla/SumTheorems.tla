---------------------------- MODULE SumTheorems ----------------------------
(***************************************************************************)
(* Sums over finite sets.  MapThenSumSet of FiniteSetsExt takes the weight *)
(* as an operator, about which no lemma can be stated; Total takes it as a *)
(* function, and what adds up the same weights is the same sum.  Induction *)
(* goes through OneByOne, whose induction hypothesis is a set.             *)
(***************************************************************************)
EXTENDS Integers, FiniteSets, FiniteSetTheorems, WellFoundedInduction, TLAPS

\* A set of subsets of a finite set that has the empty one, and every one
\* that has an element more than one it has, has them all.
LEMMA OneByOne ==
  ASSUME NEW S, IsFiniteSet(S), NEW T, {} \in T,
         \A s \in SUBSET S : \A x \in S \ s : s \in T => s \cup {x} \in T
  PROVE  \A s \in SUBSET S : s \in T
<1> DEFINE bad == (SUBSET S) \ T
<1>1. SUFFICES ASSUME bad # {} PROVE FALSE
  OBVIOUS
<1>2. bad \subseteq FiniteSubsetsOf(S)
  BY FS_Subset DEF FiniteSubsetsOf
<1>3. IsWellFoundedOn(StrictSubsetOrdering(S), FiniteSubsetsOf(S))
  BY FS_StrictSubsetOrderingWellFounded
<1>4. PICK s \in bad : \A r \in bad : <<r, s>> \notin StrictSubsetOrdering(S)
  <2> HIDE DEF bad
  <2> QED BY <1>1, <1>2, <1>3, WFMin
<1>5. PICK x : x \in s
  BY <1>4
<1>6. s \ {x} \in T
  <2>1. <<s \ {x}, s>> \in StrictSubsetOrdering(S)
    BY <1>4, <1>5 DEF StrictSubsetOrdering
  <2> QED
    BY <1>4, <2>1
<1>7. (s \ {x}) \cup {x} = s
  BY <1>5
<1> QED
  BY <1>4, <1>5, <1>6, <1>7

One(s) == CHOOSE x \in s : TRUE

\* g has the sum of every subset of S.
Adds(S, w, g) ==
  g = [s \in SUBSET S |-> IF s = {} THEN 0 ELSE w[One(s)] + g[s \ {One(s)}]]

LEMMA SumsExist ==
  ASSUME NEW S, IsFiniteSet(S), NEW w, \A x \in S : w[x] \in Int
  PROVE  \E g \in [SUBSET S -> Int] : Adds(S, w, g)
<1> DEFINE step(g, s) == IF s = {} THEN 0 ELSE w[One(s)] + g[s \ {One(s)}]
           good == {s \in SUBSET S : \E g \in [SUBSET S -> Int] :
                      \A r \in SUBSET S : Cardinality(r) <= Cardinality(s) => g[r] = step(g, r)}
<1>1. \A s \in SUBSET S : s # {} => One(s) \in s
  BY DEF One
<1>2. \A s \in SUBSET S : IsFiniteSet(s) /\ Cardinality(s) \in Nat
  BY FS_Subset, FS_CardinalityType
<1>3. {} \in good
  <2>1. [s \in SUBSET S |-> 0] \in [SUBSET S -> Int]
    OBVIOUS
  <2>2. ASSUME NEW r \in SUBSET S, Cardinality(r) <= Cardinality({}) PROVE r = {}
    BY <1>2, <2>2, FS_EmptySet
  <2> QED
    BY <2>1, <2>2
<1>4. ASSUME NEW s \in SUBSET S, NEW x \in S \ s, s \in good PROVE s \cup {x} \in good
  <2>1. PICK g \in [SUBSET S -> Int] :
          \A r \in SUBSET S : Cardinality(r) <= Cardinality(s) => g[r] = step(g, r)
    BY <1>4
  <2> DEFINE h == [r \in SUBSET S |-> step(g, r)]
  <2>2. h \in [SUBSET S -> Int]
    BY <1>1, <2>1
  <2>3. ASSUME NEW r \in SUBSET S, Cardinality(r) <= Cardinality(s \cup {x}) PROVE h[r] = step(h, r)
    <3>1. CASE r = {}
      BY <3>1
    <3>2. CASE r # {}
      <4>1. /\ One(r) \in r /\ r \ {One(r)} \in SUBSET S
            /\ Cardinality(r \ {One(r)}) = Cardinality(r) - 1
        BY <1>1, <1>2, <3>2, FS_RemoveElement
      <4>2. Cardinality(r \ {One(r)}) <= Cardinality(s)
        BY <1>2, <2>3, <4>1, FS_AddElement
      <4>3. g[r \ {One(r)}] = h[r \ {One(r)}]
        BY <2>1, <4>1, <4>2
      <4> QED
        BY <3>2, <4>3
    <3> QED
      BY <3>1, <3>2
  <2>4. s \cup {x} \in SUBSET S
    OBVIOUS
  <2> HIDE DEF h
  <2> QED
    BY <2>2, <2>3, <2>4
<1>5. S \in good
  <2> HIDE DEF good
  <2> QED BY <1>3, <1>4, OneByOne
<1>6. PICK g \in [SUBSET S -> Int] :
        \A r \in SUBSET S : Cardinality(r) <= Cardinality(S) => g[r] = step(g, r)
  BY <1>5
<1>7. \A r \in SUBSET S : g[r] = step(g, r)
  BY <1>6, FS_Subset
<1>8. Adds(S, w, g)
  BY <1>6, <1>7 DEF Adds
<1> QED
  BY <1>8

LEMMA SumsAgree ==
  ASSUME NEW S, IsFiniteSet(S), NEW w, NEW g, NEW h, Adds(S, w, g),
         NEW R \in SUBSET S, Adds(R, w, h)
  PROVE  \A s \in SUBSET R : g[s] = h[s]
<1> DEFINE good == {s \in SUBSET R : \A r \in SUBSET R : Cardinality(r) <= Cardinality(s) => g[r] = h[r]}
<1>1. \A s \in SUBSET R : s # {} => One(s) \in s
  BY DEF One
<1>2. \A s \in SUBSET R : IsFiniteSet(s) /\ Cardinality(s) \in Nat
  BY FS_Subset, FS_CardinalityType
<1>3. \A s \in SUBSET R : /\ g[s] = IF s = {} THEN 0 ELSE w[One(s)] + g[s \ {One(s)}]
                          /\ h[s] = IF s = {} THEN 0 ELSE w[One(s)] + h[s \ {One(s)}]
  BY DEF Adds
<1>4. {} \in good
  <2>2. ASSUME NEW r \in SUBSET R, Cardinality(r) <= Cardinality({}) PROVE r = {}
    BY <1>2, <2>2, FS_EmptySet
  <2> QED
    BY <1>3, <2>2
<1>5. ASSUME NEW s \in SUBSET R, NEW x \in R \ s, s \in good PROVE s \cup {x} \in good
  <2>1. ASSUME NEW r \in SUBSET R, Cardinality(r) <= Cardinality(s \cup {x}) PROVE g[r] = h[r]
    <3>1. CASE r = {}
      BY <1>3, <3>1
    <3>2. CASE r # {}
      <4>1. /\ One(r) \in r /\ r \ {One(r)} \in SUBSET R
            /\ Cardinality(r \ {One(r)}) = Cardinality(r) - 1
        BY <1>1, <1>2, <3>2, FS_RemoveElement
      <4>2. Cardinality(r \ {One(r)}) <= Cardinality(s)
        BY <1>2, <2>1, <4>1, FS_AddElement
      <4>3. g[r \ {One(r)}] = h[r \ {One(r)}]
        BY <1>5, <4>1, <4>2
      <4> QED
        BY <1>3, <3>2, <4>3
    <3> QED
      BY <3>1, <3>2
  <2> QED
    BY <2>1
<1>6. IsFiniteSet(R)
  BY FS_Subset
<1>7. R \in good
  <2> HIDE DEF good
  <2> QED BY <1>4, <1>5, <1>6, OneByOne
<1> QED
  BY <1>6, <1>7, FS_Subset

\* The sum of S.
Total(S, w) == (CHOOSE g : Adds(S, w, g))[S]

LEMMA TotalIs ==
  ASSUME NEW S, IsFiniteSet(S), NEW w, \A x \in S : w[x] \in Int
  PROVE  \E g \in [SUBSET S -> Int] : Adds(S, w, g) /\ \A s \in SUBSET S : g[s] = Total(s, w)
<1>1. PICK g \in [SUBSET S -> Int] : Adds(S, w, g)
  BY SumsExist
<1>2. ASSUME NEW s \in SUBSET S PROVE g[s] = Total(s, w)
  <2>1. IsFiniteSet(s) /\ \A x \in s : w[x] \in Int
    BY FS_Subset
  <2>2. \E h : Adds(s, w, h)
    BY <2>1, SumsExist
  <2>3. Adds(s, w, CHOOSE h : Adds(s, w, h))
    BY <2>2
  <2> QED
    BY <1>1, <2>3, SumsAgree DEF Total
<1> QED
  BY <1>1, <1>2

\* Whatever adds up the same weights has the sum.
LEMMA AddsToTotal ==
  ASSUME NEW S, IsFiniteSet(S), NEW w, \A x \in S : w[x] \in Int, NEW g, Adds(S, w, g)
  PROVE  g[S] = Total(S, w)
<1>1. PICK h \in [SUBSET S -> Int] : Adds(S, w, h) /\ \A s \in SUBSET S : h[s] = Total(s, w)
  BY TotalIs
<1>2. g[S] = h[S]
  BY <1>1, SumsAgree
<1> QED
  BY <1>1, <1>2

LEMMA TotalStep ==
  ASSUME NEW S, IsFiniteSet(S), NEW w, \A x \in S : w[x] \in Int
  PROVE  /\ Total(S, w) \in Int
         /\ S = {} => Total(S, w) = 0
         /\ S # {} => Total(S, w) = w[One(S)] + Total(S \ {One(S)}, w)
<1>1. PICK g \in [SUBSET S -> Int] : Adds(S, w, g) /\ \A s \in SUBSET S : g[s] = Total(s, w)
  BY TotalIs
<1>2. \A s \in SUBSET S : g[s] = IF s = {} THEN 0 ELSE w[One(s)] + g[s \ {One(s)}]
  BY <1>1 DEF Adds
<1> QED
  BY <1>1, <1>2

\* Elements may be taken out in any order.
LEMMA TotalWithout ==
  ASSUME NEW S, IsFiniteSet(S), NEW w, \A x \in S : w[x] \in Int
  PROVE  \A x \in S : Total(S, w) = w[x] + Total(S \ {x}, w)
<1> DEFINE good == {s \in SUBSET S : \A r \in SUBSET S : Cardinality(r) <= Cardinality(s) =>
                      \A x \in r : Total(r, w) = w[x] + Total(r \ {x}, w)}
<1>1. \A s \in SUBSET S : IsFiniteSet(s) /\ Cardinality(s) \in Nat /\ (s # {} => One(s) \in s)
  BY FS_Subset, FS_CardinalityType DEF One
<1>2. {} \in good
  <2>1. ASSUME NEW r \in SUBSET S, Cardinality(r) <= Cardinality({}) PROVE r = {}
    BY <1>1, <2>1, FS_EmptySet
  <2> QED
    BY <2>1
<1>3. ASSUME NEW s \in SUBSET S, NEW y \in S \ s, s \in good PROVE s \cup {y} \in good
  <2>1. ASSUME NEW r \in SUBSET S, Cardinality(r) <= Cardinality(s \cup {y}), NEW x \in r
        PROVE  Total(r, w) = w[x] + Total(r \ {x}, w)
    <3> PICK z : z = One(r)
      OBVIOUS
    <3>1. z \in r
      BY <1>1
    <3>2. Total(r, w) = w[z] + Total(r \ {z}, w)
      BY <1>1, <2>1, TotalStep
    <3>3. CASE x = z
      BY <3>2, <3>3
    <3>4. CASE x # z
      <4>1. /\ Cardinality(r \ {x}) = Cardinality(r) - 1
            /\ Cardinality(r \ {z}) = Cardinality(r) - 1
            /\ Cardinality(s \cup {y}) = Cardinality(s) + 1
        BY <1>1, <3>1, FS_AddElement, FS_RemoveElement
      <4>2. /\ r \ {x} \in SUBSET S /\ r \ {z} \in SUBSET S
            /\ Cardinality(r \ {x}) <= Cardinality(s) /\ Cardinality(r \ {z}) <= Cardinality(s)
        BY <1>1, <2>1, <4>1
      <4>3. Total(r \ {z}, w) = w[x] + Total((r \ {z}) \ {x}, w)
        BY <1>3, <3>4, <4>2
      <4>4. Total(r \ {x}, w) = w[z] + Total((r \ {x}) \ {z}, w)
        BY <1>3, <3>1, <3>4, <4>2
      <4>5. (r \ {z}) \ {x} = (r \ {x}) \ {z}
        OBVIOUS
      <4>6. Total((r \ {x}) \ {z}, w) \in Int
        <5>1. (r \ {x}) \ {z} \in SUBSET S
          OBVIOUS
        <5> QED
          BY <1>1, <5>1, TotalStep
      <4>7. w[x] \in Int /\ w[z] \in Int
        BY <3>1
      <4>8. Total(r \ {x}, w) = w[z] + Total((r \ {z}) \ {x}, w)
        BY <4>4, <4>5
      <4>9. Total((r \ {z}) \ {x}, w) \in Int
        BY <4>5, <4>6
      <4> QED
        BY <3>2, <4>3, <4>7, <4>8, <4>9
    <3> QED
      BY <3>3, <3>4
  <2>2. s \cup {y} \in SUBSET S
    OBVIOUS
  <2> QED
    BY <2>1, <2>2
<1>4. S \in good
  <2> HIDE DEF good
  <2> QED BY <1>2, <1>3, OneByOne
<1> QED
  BY <1>1, <1>4

\* An element more adds its weight.
LEMMA TotalWith ==
  ASSUME NEW S, IsFiniteSet(S), NEW w, \A x \in S : w[x] \in Int
  PROVE  /\ Total({}, w) = 0
         /\ \A s \in SUBSET S : Total(s, w) \in Int
         /\ \A s \in SUBSET S, x \in S : x \notin s => Total(s \cup {x}, w) = Total(s, w) + w[x]
<1>1. \A s \in SUBSET S : IsFiniteSet(s)
  BY FS_Subset
<1>2. \A s \in SUBSET S : Total(s, w) \in Int
  BY <1>1, TotalStep
<1>3. Total({}, w) = 0
  <2>1. {} \in SUBSET S
    OBVIOUS
  <2> QED
    BY <1>1, <2>1, TotalStep
<1>4. ASSUME NEW s \in SUBSET S, NEW x \in S, x \notin s
      PROVE  Total(s \cup {x}, w) = Total(s, w) + w[x]
  <2>1. s \cup {x} \in SUBSET S /\ x \in s \cup {x} /\ (s \cup {x}) \ {x} = s
    BY <1>4
  <2>2. Total(s \cup {x}, w) = w[x] + Total((s \cup {x}) \ {x}, w)
    BY <1>1, <2>1, TotalWithout
  <2>3. Total(s \cup {x}, w) = w[x] + Total(s, w)
    BY <2>1, <2>2
  <2> QED
    BY <1>2, <2>3
<1> QED
  BY <1>2, <1>3, <1>4

\* The sum depends on the weights of the elements only.
LEMMA TotalSame ==
  ASSUME NEW S, IsFiniteSet(S), NEW w, NEW v, \A x \in S : w[x] \in Int /\ v[x] = w[x]
  PROVE  Total(S, v) = Total(S, w)
<1> DEFINE good == {s \in SUBSET S : Total(s, v) = Total(s, w)}
<1>1. {} \in good
  BY TotalWith
<1>2. ASSUME NEW s \in SUBSET S, NEW x \in S \ s, s \in good PROVE s \cup {x} \in good
  BY <1>2, TotalWith
<1> HIDE DEF good
<1>3. S \in good
  BY <1>1, <1>2, OneByOne
<1> QED
  BY <1>3 DEF good

LEMMA TotalZero ==
  ASSUME NEW S, IsFiniteSet(S), NEW w, \A x \in S : w[x] = 0
  PROVE  Total(S, w) = 0
<1> DEFINE good == {s \in SUBSET S : Total(s, w) = 0}
<1>1. {} \in good
  BY TotalWith
<1>2. ASSUME NEW s \in SUBSET S, NEW x \in S \ s, s \in good PROVE s \cup {x} \in good
  BY <1>2, TotalWith
<1> HIDE DEF good
<1>3. S \in good
  BY <1>1, <1>2, OneByOne
<1> QED
  BY <1>3 DEF good

\* Sums of sums and differences.
LEMMA TotalPlus ==
  ASSUME NEW S, IsFiniteSet(S), NEW w, NEW v, NEW u,
         \A x \in S : w[x] \in Int /\ v[x] \in Int /\ u[x] = w[x] + v[x]
  PROVE  Total(S, u) = Total(S, w) + Total(S, v)
<1> DEFINE good == {s \in SUBSET S : Total(s, u) = Total(s, w) + Total(s, v)}
<1>1. {} \in good
  BY TotalWith
<1>2. ASSUME NEW s \in SUBSET S, NEW x \in S \ s, s \in good PROVE s \cup {x} \in good
  <2>1. Total(s, w) \in Int /\ Total(s, v) \in Int
    BY TotalWith
  <2>2. /\ Total(s \cup {x}, u) = Total(s, u) + u[x] /\ Total(s \cup {x}, w) = Total(s, w) + w[x]
        /\ Total(s \cup {x}, v) = Total(s, v) + v[x]
    BY TotalWith
  <2>3. w[x] \in Int /\ v[x] \in Int /\ u[x] = w[x] + v[x]
    OBVIOUS
  <2>4. Total(s, u) = Total(s, w) + Total(s, v)
    BY <1>2
  <2>5. Total(s \cup {x}, u) = Total(s \cup {x}, w) + Total(s \cup {x}, v)
    BY <2>1, <2>2, <2>3, <2>4
  <2> QED
    BY <2>5
<1> HIDE DEF good
<1>3. S \in good
  BY <1>1, <1>2, OneByOne
<1> QED
  BY <1>3 DEF good

\* Two sets apart.
LEMMA TotalUnion ==
  ASSUME NEW R, IsFiniteSet(R), NEW S, IsFiniteSet(S), R \cap S = {},
         NEW w, \A x \in R \cup S : w[x] \in Int
  PROVE  Total(R \cup S, w) = Total(R, w) + Total(S, w)
<1> DEFINE good == {s \in SUBSET S : Total(R \cup s, w) = Total(R, w) + Total(s, w)}
<1>0. IsFiniteSet(R \cup S)
  BY FS_Union
<1>1. Total(R, w) \in Int
  BY TotalWith
<1>2. {} \in good
  <2>1. R \cup {} = R
    OBVIOUS
  <2> QED
    BY <1>1, <2>1, TotalWith
<1>3. ASSUME NEW s \in SUBSET S, NEW x \in S \ s, s \in good PROVE s \cup {x} \in good
  <2>1. /\ R \cup s \in SUBSET (R \cup S) /\ x \in R \cup S /\ x \notin R \cup s
        /\ (R \cup s) \cup {x} = R \cup (s \cup {x})
    OBVIOUS
  <2>2. Total((R \cup s) \cup {x}, w) = Total(R \cup s, w) + w[x]
    BY <1>0, <2>1, TotalWith
  <2>3. Total(s \cup {x}, w) = Total(s, w) + w[x] /\ Total(s, w) \in Int /\ w[x] \in Int
    BY TotalWith
  <2>4. Total(R \cup s, w) = Total(R, w) + Total(s, w)
    BY <1>3
  <2>5. Total(R \cup (s \cup {x}), w) = Total(R \cup s, w) + w[x]
    BY <2>1, <2>2
  <2>6. Total(R \cup (s \cup {x}), w) = Total(R, w) + Total(s \cup {x}, w)
    BY <1>1, <2>3, <2>4, <2>5
  <2> QED
    BY <2>6
<1> HIDE DEF good
<1>4. S \in good
  BY <1>2, <1>3, OneByOne
<1> QED
  BY <1>4 DEF good

\* A one-to-one correspondence carries the sum over.
LEMMA TotalPaired ==
  ASSUME NEW R, IsFiniteSet(R), NEW S, IsFiniteSet(S), NEW f \in [R -> S],
         \A x, y \in R : f[x] = f[y] => x = y, \A y \in S : \E x \in R : f[x] = y,
         NEW w, NEW v, \A x \in R : w[x] \in Int /\ v[f[x]] = w[x]
  PROVE  Total(S, v) = Total(R, w)
<1> DEFINE image(r) == {f[x] : x \in r}
           good == {r \in SUBSET R : Total(image(r), v) = Total(r, w)}
<1>0. \A y \in S : v[y] \in Int
  OBVIOUS
<1>1. {} \in good
  <2>1. image({}) = {}
    OBVIOUS
  <2>2. Total({}, v) = 0 /\ Total({}, w) = 0
    BY <1>0, TotalWith
  <2> QED
    BY <2>1, <2>2
<1>2. ASSUME NEW r \in SUBSET R, NEW x \in R \ r, r \in good PROVE r \cup {x} \in good
  <2>1. /\ image(r \cup {x}) = image(r) \cup {f[x]}
        /\ image(r) \in SUBSET S /\ f[x] \in S /\ f[x] \notin image(r)
    OBVIOUS
  <2>2. Total(image(r), v) = Total(r, w)
    BY <1>2
  <2> HIDE DEF image
  <2>3. Total(image(r) \cup {f[x]}, v) = Total(image(r), v) + v[f[x]]
    BY <1>0, <2>1, TotalWith
  <2>4. Total(r \cup {x}, w) = Total(r, w) + w[x] /\ Total(r, w) \in Int
    BY TotalWith
  <2>5. Total(image(r \cup {x}), v) = Total(r \cup {x}, w)
    BY <2>1, <2>2, <2>3, <2>4
  <2> QED
    BY <2>5
<1>3. R \in good
  <2> HIDE DEF good
  <2> QED
    BY <1>1, <1>2, OneByOne
<1>4. image(R) = S
  OBVIOUS
<1> HIDE DEF image
<1> QED
  BY <1>3, <1>4

\* A sum taken part by part.
LEMMA TotalParts ==
  ASSUME NEW S, IsFiniteSet(S), NEW K, IsFiniteSet(K), NEW key \in [S -> K],
         NEW w, \A x \in S : w[x] \in Int
  PROVE  Total(S, w) = Total(K, [k \in K |-> Total({x \in S : key[x] = k}, w)])
<1> DEFINE v == [k \in K |-> Total({x \in S : key[x] = k}, w)]
           part(s) == {x \in S : key[x] \in s}
           good == {s \in SUBSET K : Total(part(s), w) = Total(s, v)}
<1>0. \A s \in SUBSET S : IsFiniteSet(s) /\ Total(s, w) \in Int
  BY FS_Subset, TotalWith
<1>1. \A k \in K : v[k] \in Int
  BY <1>0
<1>2. {} \in good
  <2>1. part({}) = {}
    OBVIOUS
  <2> QED
    BY <1>1, <2>1, TotalWith
<1>3. ASSUME NEW s \in SUBSET K, NEW k \in K \ s, s \in good PROVE s \cup {k} \in good
  <2> DEFINE alone == {x \in S : key[x] = k}
  <2>1. /\ part(s \cup {k}) = part(s) \cup alone /\ part(s) \cap alone = {}
        /\ part(s) \in SUBSET S /\ alone \in SUBSET S
    OBVIOUS
  <2>2. v[k] = Total(alone, w)
    OBVIOUS
  <2> HIDE DEF part, alone, v
  <2>3. Total(part(s) \cup alone, w) = Total(part(s), w) + Total(alone, w)
    BY <1>0, <2>1, TotalUnion
  <2>4. Total(s \cup {k}, v) = Total(s, v) + v[k]
    BY <1>1, TotalWith
  <2> QED
    BY <1>3, <2>1, <2>2, <2>3, <2>4
<1> HIDE DEF good, v
<1>4. K \in good
  BY <1>2, <1>3, OneByOne
<1>5. part(K) = S
  OBVIOUS
<1> QED
  BY <1>4, <1>5 DEF good, v

\* So many weights within d of zero come to so many times d at most.
LEMMA TotalBound ==
  ASSUME NEW S, IsFiniteSet(S), NEW d \in Nat, NEW w, \A x \in S : w[x] \in (-d)..d
  PROVE  Total(S, w) \in (-(d * Cardinality(S)))..(d * Cardinality(S))
<1> DEFINE good == {s \in SUBSET S : Total(s, w) \in (-(d * Cardinality(s)))..(d * Cardinality(s))}
<1>0. \A s \in SUBSET S : IsFiniteSet(s) /\ Cardinality(s) \in Nat
  BY FS_Subset, FS_CardinalityType
<1>1. {} \in good
  <2>1. Cardinality({}) = 0
    BY FS_EmptySet
  <2>2. Total({}, w) = 0
    BY TotalWith
  <2> QED
    BY <2>1, <2>2
<1>2. ASSUME NEW s \in SUBSET S, NEW x \in S \ s, s \in good PROVE s \cup {x} \in good
  <2>1. Cardinality(s \cup {x}) = Cardinality(s) + 1
    BY <1>0, FS_AddElement
  <2>2. d * Cardinality(s \cup {x}) = d * Cardinality(s) + d
    BY <1>0, <2>1
  <2>3. Total(s \cup {x}, w) = Total(s, w) + w[x] /\ Total(s, w) \in Int
    BY TotalWith
  <2>4. d * Cardinality(s) \in Nat
    BY <1>0
  <2> QED
    BY <1>2, <2>2, <2>3, <2>4
<1> HIDE DEF good
<1>3. S \in good
  BY <1>1, <1>2, OneByOne
<1> QED
  BY <1>3 DEF good

\* A sum of naturals is one.
LEMMA TotalNat ==
  ASSUME NEW S, IsFiniteSet(S), NEW w, \A x \in S : w[x] \in Nat
  PROVE  Total(S, w) \in Nat
<1> DEFINE good == {s \in SUBSET S : Total(s, w) \in Nat}
<1>0. \A x \in S : w[x] \in Int
  OBVIOUS
<1>1. {} \in good
  BY <1>0, TotalWith
<1>2. ASSUME NEW s \in SUBSET S, NEW x \in S \ s, s \in good PROVE s \cup {x} \in good
  <2>1. Total(s \cup {x}, w) = Total(s, w) + w[x]
    BY <1>0, TotalWith
  <2> QED
    BY <1>2, <2>1
<1> HIDE DEF good
<1>3. S \in good
  BY <1>1, <1>2, OneByOne
<1> QED
  BY <1>3 DEF good

\* A sum with one term that is not zero.
LEMMA TotalOne ==
  ASSUME NEW S, IsFiniteSet(S), NEW x \in S, NEW w, w[x] \in Int, \A y \in S \ {x} : w[y] = 0
  PROVE  Total(S, w) = w[x]
<1>1. \A y \in S : w[y] \in Int
  OBVIOUS
<1>2. IsFiniteSet(S \ {x})
  BY FS_Subset
<1>3. Total(S \ {x}, w) = 0
  BY <1>2, TotalZero
<1>4. Total(S, w) = w[x] + Total(S \ {x}, w)
  BY <1>1, TotalWithout
<1> QED
  BY <1>3, <1>4

\* What a finite set is mapped onto is finite.
LEMMA ImageFinite ==
  ASSUME NEW S, IsFiniteSet(S), NEW T, NEW f \in [S -> T], \A y \in T : \E x \in S : f[x] = y
  PROVE  IsFiniteSet(T)
<1>1. f \in Surjection(S, T)
  BY DEF Surjection
<1> QED
  BY <1>1, FS_Surjection
=============================================================================
