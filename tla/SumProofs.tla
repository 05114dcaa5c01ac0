------------------------------ MODULE SumProofs ------------------------------
(***************************************************************************)
(* Sums over finite sets: SumFunctionOnSet(w, S) adds up w[x] for the      *)
(* elements x of S.  The community module defines it by a recursion that   *)
(* takes the elements in an order of its own choice; here is that the      *)
(* order does not matter, so that a sum follows the steps of what it       *)
(* counts.                                                                 *)
(***************************************************************************)
EXTENDS Functions, FiniteSets, FiniteSetTheorems, WellFoundedInduction, TLAPS

\* The element that the recursion takes first.
Pick(s) == CHOOSE x \in s : TRUE

\* H is the recursive function of the definition, for the subsets of S.
SumsUp(w, S, H) ==
    H = [s \in SUBSET S |-> IF s = {} THEN 0 ELSE w[Pick(s)] + H[s \ {Pick(s)}]]

-----------------------------------------------------------------------------
(* Induction over the subsets of a finite set *)

\* A set of subsets that has each subset from which any element can be removed
\* has the whole of the finite set.
LEMMA SubsetInduction ==
    ASSUME NEW S, IsFiniteSet(S), NEW C,
           \A s \in SUBSET S : (\A x \in s : s \ {x} \in C) => s \in C
    PROVE  \A s \in SUBSET S : s \in C
<1> DEFINE T == {n \in Nat : \E s \in SUBSET S : Cardinality(s) = n /\ s \notin C}
<1>1. \A s \in SUBSET S : IsFiniteSet(s) /\ Cardinality(s) \in Nat
  BY FS_Subset, FS_CardinalityType
<1>2. T = {}
  <2> SUFFICES ASSUME T # {} PROVE FALSE
    OBVIOUS
  <2>1. T \subseteq Nat
    OBVIOUS
  <2> HIDE DEF T
  <2>2. PICK n \in T : \A m \in T : ~ (<<m, n>> \in OpToRel(<, Nat))
    BY <2>1, NatLessThanWellFounded, WFMin
  <2>3. \A m \in T : ~ (m < n)
    BY <2>1, <2>2 DEF OpToRel
  <2>4. PICK s \in SUBSET S : Cardinality(s) = n /\ s \notin C
    BY DEF T
  <2>5. PICK x \in s : s \ {x} \notin C
    BY <2>4
  <2>6. Cardinality(s \ {x}) = n - 1 /\ n - 1 \in Nat
    BY <1>1, <2>4, FS_RemoveElement
  <2>7. s \ {x} \in SUBSET S
    OBVIOUS
  <2>8. n - 1 \in T
    BY <2>5, <2>6, <2>7 DEF T
  <2> QED
    BY <2>1, <2>3, <2>6, <2>8
<1> QED
  BY <1>1, <1>2

-----------------------------------------------------------------------------
(* The recursion *)

\* If the recursion has a solution, the sum is the value of one.
LEMMA SumUnfold ==
    ASSUME NEW w, NEW S, NEW G, SumsUp(w, S, G)
    PROVE  \E H : SumsUp(w, S, H) /\ SumFunctionOnSet(w, S) = H[S]
<1> DEFINE K == CHOOSE H : SumsUp(w, S, H)
<1>1. SumsUp(w, S, K)
  OBVIOUS
<1>2. SumFunctionOnSet(w, S) = K[S]
  BY DEF SumFunctionOnSet, FoldFunctionOnSet, MapThenFoldSet, SumsUp, Pick
<1> HIDE DEF K
<1> QED
  BY <1>1, <1>2

\* Solutions for two sets agree on what both sets have.
LEMMA SumUnique ==
    ASSUME NEW w, NEW S, NEW R, IsFiniteSet(S),
           NEW G, SumsUp(w, S, G), NEW H, SumsUp(w, R, H)
    PROVE  \A s \in SUBSET (S \cap R) : G[s] = H[s]
<1> DEFINE C == {s \in SUBSET (S \cap R) : G[s] = H[s]}
<1>1. ASSUME NEW s \in SUBSET (S \cap R), \A x \in s : s \ {x} \in C
      PROVE  s \in C
  <2>1. G[s] = IF s = {} THEN 0 ELSE w[Pick(s)] + G[s \ {Pick(s)}]
    BY DEF SumsUp
  <2>2. H[s] = IF s = {} THEN 0 ELSE w[Pick(s)] + H[s \ {Pick(s)}]
    BY DEF SumsUp
  <2>3. s # {} => Pick(s) \in s
    BY DEF Pick
  <2>4. s # {} => G[s \ {Pick(s)}] = H[s \ {Pick(s)}]
    BY <1>1, <2>3
  <2> QED
    BY <2>1, <2>2, <2>4
<1>2. IsFiniteSet(S \cap R)
  BY FS_Subset
<1> HIDE DEF C
<1>3. \A s \in SUBSET (S \cap R) : s \in C
  BY <1>1, <1>2, SubsetInduction
<1> QED
  BY <1>3 DEF C

\* The recursion has a solution.
LEMMA SumExists ==
    ASSUME NEW w, NEW S, IsFiniteSet(S)
    PROVE  \E H : SumsUp(w, S, H)
<1> DEFINE C == {s \in SUBSET S : \A t \in SUBSET s : \E H : SumsUp(w, t, H)}
<1>1. ASSUME NEW s \in SUBSET S, \A x \in s : s \ {x} \in C
      PROVE  s \in C
  <2> DEFINE V(t) == SumFunctionOnSet(w, t)
             G == [t \in SUBSET s |-> IF t = {} THEN 0 ELSE w[Pick(t)] + V(t \ {Pick(t)})]
  <2>1. ASSUME NEW t \in SUBSET s, t # s
        PROVE  \E H : SumsUp(w, t, H) /\ V(t) = H[t]
    <3>1. PICK x \in s : t \in SUBSET (s \ {x})
      BY <2>1
    <3>2. \E H : SumsUp(w, t, H)
      BY <1>1, <3>1
    <3> QED
      BY <3>2, SumUnfold
  <2>2. ASSUME NEW t \in SUBSET s, t # {}
        PROVE  V(t \ {Pick(t)}) = G[t \ {Pick(t)}]
    <3> DEFINE r == t \ {Pick(t)}
    <3>1. Pick(t) \in t
      BY <2>2 DEF Pick
    <3>2. r \in SUBSET s /\ r # s
      BY <3>1
    <3> HIDE DEF r, V
    <3>3. PICK H : SumsUp(w, r, H) /\ V(r) = H[r]
      BY <2>1, <3>2
    <3>4. V(r) = IF r = {} THEN 0 ELSE w[Pick(r)] + H[r \ {Pick(r)}]
      BY <3>3 DEF SumsUp
    <3>5. CASE r = {}
      BY <3>2, <3>4, <3>5 DEF r
    <3>6. CASE r # {}
      <4> DEFINE q == r \ {Pick(r)}
      <4>1. Pick(r) \in r
        BY <3>6 DEF Pick
      <4>2. q \in SUBSET s /\ q # s /\ q \in SUBSET (r \cap q)
        BY <3>2, <4>1
      <4>3. IsFiniteSet(r)
        BY <3>2, FS_Subset
      <4> HIDE DEF q
      <4>4. PICK J : SumsUp(w, q, J) /\ V(q) = J[q]
        BY <2>1, <4>2
      <4>5. H[q] = J[q]
        BY <3>3, <4>2, <4>3, <4>4, SumUnique
      <4>6. V(r) = w[Pick(r)] + V(q)
        BY <3>4, <3>6, <4>4, <4>5 DEF q
      <4>7. G[r] = w[Pick(r)] + V(q)
        BY <3>2, <3>6 DEF q
      <4> QED
        BY <4>6, <4>7 DEF r
    <3> QED
      BY <3>5, <3>6
  <2>3. SumsUp(w, s, G)
    <3>1. \A t \in SUBSET s : G[t] = IF t = {} THEN 0 ELSE w[Pick(t)] + G[t \ {Pick(t)}]
      BY <2>2
    <3>2. G = [t \in SUBSET s |-> G[t]]
      OBVIOUS
    <3> HIDE DEF G
    <3> QED
      BY <3>1, <3>2 DEF SumsUp
  <2>4. \A t \in SUBSET s : \E H : SumsUp(w, t, H)
    BY <2>1, <2>3
  <2> QED
    BY <2>4
<1> HIDE DEF C
<1>2. \A s \in SUBSET S : s \in C
  BY <1>1, SubsetInduction
<1> QED
  BY <1>2 DEF C

-----------------------------------------------------------------------------
(* What a sum is *)

\* The sum of nothing.
LEMMA SumEmpty == \A w : SumFunctionOnSet(w, {}) = 0
<1> SUFFICES ASSUME NEW w PROVE SumFunctionOnSet(w, {}) = 0
  OBVIOUS
<1>1. PICK G : SumsUp(w, {}, G)
  BY SumExists, FS_EmptySet
<1>2. PICK H : SumsUp(w, {}, H) /\ SumFunctionOnSet(w, {}) = H[{}]
  BY <1>1, SumUnfold
<1> QED
  BY <1>2 DEF SumsUp

\* The element that the recursion takes first, and the sum of the others.
LEMMA SumChosen ==
    ASSUME NEW w, NEW S, IsFiniteSet(S), S # {}
    PROVE  /\ Pick(S) \in S
           /\ SumFunctionOnSet(w, S) = w[Pick(S)] + SumFunctionOnSet(w, S \ {Pick(S)})
<1> DEFINE r == S \ {Pick(S)}
<1>1. Pick(S) \in S
  BY DEF Pick
<1>2. IsFiniteSet(r) /\ r \in SUBSET (S \cap r)
  BY FS_Subset
<1>3. PICK H : SumsUp(w, S, H) /\ SumFunctionOnSet(w, S) = H[S]
  <2>1. PICK G : SumsUp(w, S, G)
    BY SumExists
  <2> QED
    BY <2>1, SumUnfold
<1>4. PICK J : SumsUp(w, r, J) /\ SumFunctionOnSet(w, r) = J[r]
  <2> HIDE DEF r
  <2>1. PICK G : SumsUp(w, r, G)
    BY <1>2, SumExists
  <2> QED
    BY <2>1, SumUnfold
<1>5. H[r] = J[r]
  <2> HIDE DEF r
  <2> QED
    BY <1>2, <1>3, <1>4, SumUnique
<1>6. H[S] = w[Pick(S)] + H[r]
  BY <1>3 DEF SumsUp
<1> HIDE DEF r
<1>7. SumFunctionOnSet(w, S) = w[Pick(S)] + SumFunctionOnSet(w, r)
  BY <1>3, <1>4, <1>5, <1>6
<1> QED
  BY <1>1, <1>7 DEF r

\* A sum of natural numbers is one.
LEMMA SumNat ==
    ASSUME NEW w, NEW S, IsFiniteSet(S), \A x \in S : w[x] \in Nat
    PROVE  \A s \in SUBSET S : SumFunctionOnSet(w, s) \in Nat
<1> DEFINE C == {s \in SUBSET S : SumFunctionOnSet(w, s) \in Nat}
<1>1. ASSUME NEW s \in SUBSET S, \A x \in s : s \ {x} \in C
      PROVE  s \in C
  <2>1. CASE s = {}
    BY <2>1, SumEmpty
  <2>2. CASE s # {}
    <3>1. IsFiniteSet(s)
      BY FS_Subset
    <3>2. /\ Pick(s) \in s
          /\ SumFunctionOnSet(w, s) = w[Pick(s)] + SumFunctionOnSet(w, s \ {Pick(s)})
      BY <2>2, <3>1, SumChosen
    <3>3. SumFunctionOnSet(w, s \ {Pick(s)}) \in Nat /\ w[Pick(s)] \in Nat
      BY <1>1, <3>2
    <3> QED
      BY <3>2, <3>3
  <2> QED
    BY <2>1, <2>2
<1> HIDE DEF C
<1>2. \A s \in SUBSET S : s \in C
  BY <1>1, SubsetInduction
<1> QED
  BY <1>2 DEF C

\* Any element can be taken first.
LEMMA SumRemove ==
    ASSUME NEW w, NEW S, IsFiniteSet(S), \A x \in S : w[x] \in Nat
    PROVE  \A s \in SUBSET S : \A x \in s :
              SumFunctionOnSet(w, s) = w[x] + SumFunctionOnSet(w, s \ {x})
<1> DEFINE W(s) == SumFunctionOnSet(w, s)
           C == {s \in SUBSET S : \A x \in s : W(s) = w[x] + W(s \ {x})}
<1>1. \A s \in SUBSET S : IsFiniteSet(s) /\ W(s) \in Nat
  BY FS_Subset, SumNat
<1>2. ASSUME NEW s \in SUBSET S, \A x \in s : s \ {x} \in C, NEW x \in s
      PROVE  W(s) = w[x] + W(s \ {x})
  <2> DEFINE y == Pick(s)
  <2>1. y \in s /\ W(s) = w[y] + W(s \ {y})
    BY <1>1, SumChosen
  <2> HIDE DEF y, W
  <2>2. CASE x # y
    <3>1. (s \ {x}) \ {y} = (s \ {y}) \ {x} /\ x \in s \ {y} /\ y \in s \ {x}
      BY <2>1, <2>2
    <3>2. W(s \ {y}) = w[x] + W((s \ {y}) \ {x})
      BY <1>2, <2>1, <3>1
    <3>3. W(s \ {x}) = w[y] + W((s \ {x}) \ {y})
      BY <1>2, <2>1, <3>1
    <3>4. W((s \ {y}) \ {x}) \in Nat /\ w[x] \in Nat /\ w[y] \in Nat
      BY <1>1, <2>1
    <3> QED
      BY <2>1, <3>1, <3>2, <3>3, <3>4
  <2> QED
    BY <2>1, <2>2
<1>3. \A s \in SUBSET S : (\A x \in s : s \ {x} \in C) => s \in C
  <2> HIDE DEF W
  <2> QED
    BY <1>2
<1> HIDE DEF C
<1>4. \A s \in SUBSET S : s \in C
  BY <1>3, SubsetInduction
<1> QED
  BY <1>4 DEF C

\* The sum depends on what is added up only.
LEMMA SumSame ==
    ASSUME NEW w, NEW v, NEW S, IsFiniteSet(S), \A x \in S : v[x] = w[x]
    PROVE  SumFunctionOnSet(v, S) = SumFunctionOnSet(w, S)
<1> DEFINE C == {s \in SUBSET S : SumFunctionOnSet(v, s) = SumFunctionOnSet(w, s)}
<1>1. ASSUME NEW s \in SUBSET S, \A x \in s : s \ {x} \in C
      PROVE  s \in C
  <2>1. CASE s = {}
    BY <2>1, SumEmpty
  <2>2. CASE s # {}
    <3>1. IsFiniteSet(s)
      BY FS_Subset
    <3>2. /\ Pick(s) \in s
          /\ SumFunctionOnSet(w, s) = w[Pick(s)] + SumFunctionOnSet(w, s \ {Pick(s)})
          /\ SumFunctionOnSet(v, s) = v[Pick(s)] + SumFunctionOnSet(v, s \ {Pick(s)})
      BY <2>2, <3>1, SumChosen
    <3>3. SumFunctionOnSet(v, s \ {Pick(s)}) = SumFunctionOnSet(w, s \ {Pick(s)})
      BY <1>1, <3>2
    <3> QED
      BY <3>2, <3>3
  <2> QED
    BY <2>1, <2>2
<1> HIDE DEF C
<1>2. \A s \in SUBSET S : s \in C
  BY <1>1, SubsetInduction
<1> QED
  BY <1>2 DEF C

\* One more element adds its value.
LEMMA SumAdd ==
    ASSUME NEW w, NEW S, IsFiniteSet(S), NEW x, x \notin S, \A y \in S \cup {x} : w[y] \in Nat
    PROVE  /\ SumFunctionOnSet(w, S \cup {x}) = w[x] + SumFunctionOnSet(w, S)
           /\ SumFunctionOnSet(w, S) \in Nat
<1>1. IsFiniteSet(S \cup {x}) /\ (S \cup {x}) \ {x} = S
  BY FS_AddElement
<1>2. SumFunctionOnSet(w, S \cup {x}) = w[x] + SumFunctionOnSet(w, (S \cup {x}) \ {x})
  BY <1>1, SumRemove
<1> QED
  BY <1>1, <1>2, SumNat

\* A value that grows makes the sum grow by as much.
LEMMA SumGain ==
    ASSUME NEW w, NEW v, NEW S, IsFiniteSet(S), NEW x \in S, NEW d \in Nat,
           \A y \in S : w[y] \in Nat,
           \A y \in S : v[y] = IF y = x THEN w[y] + d ELSE w[y]
    PROVE  SumFunctionOnSet(v, S) = SumFunctionOnSet(w, S) + d
<1> DEFINE r == S \ {x}
<1>1. IsFiniteSet(r) /\ r \in SUBSET S
  BY FS_Subset
<1>2. SumFunctionOnSet(w, S) = w[x] + SumFunctionOnSet(w, r)
  BY SumRemove
<1>3. \A y \in S : v[y] \in Nat
  OBVIOUS
<1>4. SumFunctionOnSet(v, S) = v[x] + SumFunctionOnSet(v, r)
  BY <1>3, SumRemove
<1>5. SumFunctionOnSet(w, r) \in Nat
  BY <1>1, SumNat
<1>6. SumFunctionOnSet(v, r) = SumFunctionOnSet(w, r)
  <2>1. \A y \in r : v[y] = w[y]
    OBVIOUS
  <2> HIDE DEF r
  <2> QED
    BY <1>1, <2>1, SumSame
<1>7. v[x] = w[x] + d /\ w[x] \in Nat
  OBVIOUS
<1> HIDE DEF r
<1> QED
  BY <1>2, <1>4, <1>5, <1>6, <1>7
=============================================================================
