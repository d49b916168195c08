----------------------------- MODULE VoteLemmas -----------------------------
(***************************************************************************)
(* What the votes of Votes select, for answers from any finite set of      *)
(* servers U, each without liars.                                          *)
(***************************************************************************)
EXTENDS Votes, Minimum, FiniteSetTheorems

(* First picks a member of a non-empty set of server indices.              *)
LEMMA FirstIn ==
  ASSUME NEW S \in SUBSET Nat, S # {}
  PROVE  First(S) \in S
<1>1. \E i \in S : \A j \in S : i <= j
  BY NatMin, Zenon
<1> QED BY <1>1 DEF First

(* Subsets of a finite set are finite and no larger.                       *)
LEMMA Sizes ==
  ASSUME NEW U, IsFiniteSet(U)
  PROVE  /\ Cardinality(U) \in Nat
         /\ \A S \in SUBSET U : /\ IsFiniteSet(S) /\ Cardinality(S) \in Nat
                                /\ Cardinality(S) <= Cardinality(U)
<1>1. Cardinality(U) \in Nat
  BY FS_CardinalityType
<1>2. ASSUME NEW S \in SUBSET U
      PROVE  IsFiniteSet(S) /\ Cardinality(S) \in Nat /\ Cardinality(S) <= Cardinality(U)
  BY FS_Subset, FS_CardinalityType
<1> QED BY <1>1, <1>2

(* Two subsets of U overlap in what their sizes exceed that of U by.       *)
LEMMA Overlap ==
  ASSUME NEW U, IsFiniteSet(U)
  PROVE  \A S, T \in SUBSET U :
           /\ Cardinality(S \cap T) >= Cardinality(S) + Cardinality(T) - Cardinality(U)
           /\ Cardinality(S \ T) = Cardinality(S) - Cardinality(S \cap T)
<1> SUFFICES ASSUME NEW S \in SUBSET U, NEW T \in SUBSET U
             PROVE  /\ Cardinality(S \cap T) >= Cardinality(S) + Cardinality(T) - Cardinality(U)
                    /\ Cardinality(S \ T) = Cardinality(S) - Cardinality(S \cap T)
  OBVIOUS
<1>1. IsFiniteSet(S) /\ IsFiniteSet(T) /\ S \cup T \in SUBSET U
  BY Sizes
<1>2. Cardinality(S \cup T) = Cardinality(S) + Cardinality(T) - Cardinality(S \cap T)
  BY <1>1, FS_Union
<1>3. Cardinality(S \ T) = Cardinality(S) - Cardinality(S \cap T)
  BY <1>1, FS_Difference
<1>4. /\ Cardinality(S \cup T) <= Cardinality(U) /\ Cardinality(S \cup T) \in Nat
      /\ Cardinality(S) \in Nat /\ Cardinality(T) \in Nat
      /\ Cardinality(S \cap T) \in Nat /\ Cardinality(U) \in Nat
  <2>1. S \cap T \in SUBSET U
    OBVIOUS
  <2> QED BY <1>1, <2>1, Sizes
<1> QED BY <1>2, <1>3, <1>4

(* Among the members of a non-empty set, some has the largest of the       *)
(* groups that f assigns.                                                  *)
LEMMA LargestExists ==
  ASSUME NEW U, IsFiniteSet(U), NEW S, S # {}, NEW f \in [S -> SUBSET U]
  PROVE  \E i \in S : \A j \in S : Cardinality(f[j]) <= Cardinality(f[i])
<1> DEFINE C == {Cardinality(f[i]) : i \in S}
<1>1. Cardinality(U) \in Nat
  BY Sizes
<1>2. \A i \in S : Cardinality(f[i]) \in Nat /\ Cardinality(f[i]) <= Cardinality(U)
  BY Sizes
<1>3. C # {} /\ C \in SUBSET Nat /\ \A n \in C : n <= Cardinality(U)
  BY <1>2
<1>4. PICK m \in C : \A n \in C : n <= m
  <2> HIDE DEF C
  <2> QED BY <1>1, <1>3, NatMax, Zenon
<1>5. PICK i \in S : m = Cardinality(f[i])
  BY <1>4
<1> QED BY <1>4, <1>5

(* The votes V on a PUT are won by the version that the servers T have, if *)
(* both are write quorums and no voter outside T has that version: T's     *)
(* members among V are more than all others (Client.c:101-151).            *)
LEMMA VotedByTop ==
  ASSUME NEW U \in SUBSET Nat, IsFiniteSet(U), NEW Q \in Nat,
         3 * Q > 2 * Cardinality(U),
         NEW V \in SUBSET U, NEW T \in SUBSET U,
         Cardinality(V) >= Q, Cardinality(T) >= Q,
         NEW a, DOMAIN a = V,
         \A i \in V, j \in V \cap T : a[i].vno = a[j].vno <=> i \in T
  PROVE  SelectPut(a) \in V \cap T
<1>1. /\ Cardinality(U) \in Nat /\ Cardinality(V) \in Nat /\ Cardinality(T) \in Nat
      /\ Cardinality(V \cap T) \in Nat /\ Cardinality(V \ T) \in Nat
  <2>1. V \cap T \in SUBSET U /\ V \ T \in SUBSET U
    OBVIOUS
  <2> QED BY <2>1, Sizes
<1>2. Cardinality(V \ T) < Cardinality(V \cap T)
  <2>1. /\ Cardinality(V \cap T) >= Cardinality(V) + Cardinality(T) - Cardinality(U)
        /\ Cardinality(V \ T) = Cardinality(V) - Cardinality(V \cap T)
    <3>1. \A A, B \in SUBSET U :
            /\ Cardinality(A \cap B) >= Cardinality(A) + Cardinality(B) - Cardinality(U)
            /\ Cardinality(A \ B) = Cardinality(A) - Cardinality(A \cap B)
      BY Overlap, Zenon
    <3> QED BY <3>1, Zenon
  <2>2. Cardinality(V \ T) <= Cardinality(U) - Q
    BY <1>1, <2>1
  <2>3. Cardinality(V \cap T) >= 2 * Q - Cardinality(U)
    BY <1>1, <2>1
  <2> QED BY <1>1, <2>2, <2>3
<1>3. \A i \in V \cap T : SameVno(a, i) = V \cap T
  BY DEF SameVno
<1>4. \A i \in V \ T : SameVno(a, i) \subseteq V \ T
  BY DEF SameVno
<1>5. \A i \in V \ T : /\ Cardinality(SameVno(a, i)) \in Nat
                       /\ Cardinality(SameVno(a, i)) <= Cardinality(V \ T)
  <2>1. IsFiniteSet(V \ T)
    <3>1. V \ T \in SUBSET U
      OBVIOUS
    <3> QED BY <3>1, Sizes
  <2> QED BY <1>4, <2>1, Sizes
<1>6. V \cap T # {}
  <2>1. Cardinality({}) = 0
    BY FS_EmptySet
  <2>2. ASSUME V \cap T = {} PROVE FALSE
    <3>1. Cardinality(V \cap T) = 0
      BY <2>1, <2>2, Zenon
    <3> DEFINE k == Cardinality(V \cap T)
               l == Cardinality(V \ T)
    <3>2. k = 0 /\ l \in Nat /\ l < k
      BY <1>1, <1>2, <3>1, Zenon
    <3> HIDE DEF k, l
    <3> QED BY <3>2
  <2> QED BY <2>2
<1>7. ASSUME NEW i \in V \ T, NEW j \in V \cap T
      PROVE  /\ Cardinality(SameVno(a, i)) < Cardinality(SameVno(a, j))
             /\ Cardinality(SameVno(a, i)) <= Cardinality(SameVno(a, j))
  <2> DEFINE k == Cardinality(SameVno(a, i))
             l == Cardinality(SameVno(a, j))
             m == Cardinality(V \ T)
  <2>1. k \in Nat /\ k <= m /\ m \in Nat
    BY <1>1, <1>5
  <2>2. l \in Nat /\ m < l
    <3>1. SameVno(a, j) = V \cap T
      BY <1>3
    <3> QED BY <1>1, <1>2, <3>1
  <2>3. k < l /\ k <= l
    <3> HIDE DEF k, l, m
    <3> QED BY <2>1, <2>2
  <2> QED BY <2>3
<1>8. LargestVno(a) = V \cap T
  <2>1. ASSUME NEW i \in V \cap T, NEW j \in V
        PROVE  Cardinality(SameVno(a, j)) <= Cardinality(SameVno(a, i))
    <3>1. CASE j \in T
      <4>1. SameVno(a, i) = V \cap T /\ SameVno(a, j) = V \cap T
        BY <1>3, <3>1
      <4> QED BY <1>1, <4>1
    <3>2. CASE j \notin T
      BY <1>7, <3>2
    <3> QED BY <3>1, <3>2
  <2>2. ASSUME NEW i \in V \ T
        PROVE  \E j \in V : ~ (Cardinality(SameVno(a, j)) <= Cardinality(SameVno(a, i)))
    <3>1. PICK j \in V \cap T : TRUE
      BY <1>6
    <3>2. Cardinality(SameVno(a, i)) < Cardinality(SameVno(a, j))
      BY <1>7
    <3> DEFINE k == Cardinality(SameVno(a, i))
               l == Cardinality(SameVno(a, j))
    <3>3. k \in Nat /\ l \in Nat /\ k < l
      BY <1>1, <1>3, <1>5, <3>2
    <3>4. ~ (l <= k)
      <4> HIDE DEF k, l
      <4> QED BY <3>3
    <3> QED BY <3>4
  <2> QED BY <2>1, <2>2 DEF LargestVno
<1>9. First(V \cap T) \in V \cap T
  BY <1>6, FirstIn
<1> QED BY <1>8, <1>9 DEF SelectPut

(* A GET takes one of the latest answers (Client.c:60-100).                *)
LEMMA GetTakesLatest ==
  ASSUME NEW U \in SUBSET Nat, IsFiniteSet(U), NEW R \in SUBSET U, R # {},
         NEW a, DOMAIN a = R, NEW b \in Nat,
         \A i \in R : a[i].vno \in Nat /\ a[i].vno <= b
  PROVE  /\ SelectGet(a) \in R
         /\ \A j \in R : a[j].vno <= a[SelectGet(a)].vno
<1> DEFINE M == {a[i].vno : i \in R}
           f == [i \in Latest(a) |-> SameValue(a, i)]
<1>1. M # {} /\ M \in SUBSET Nat /\ \A n \in M : n <= b
  OBVIOUS
<1>2. PICK m \in M : \A n \in M : n <= m
  <2> HIDE DEF M
  <2> QED BY <1>1, NatMax, Zenon
<1>3. Latest(a) # {} /\ Latest(a) \subseteq R
  BY <1>2 DEF Latest
<1>4. f \in [Latest(a) -> SUBSET U]
  BY <1>3 DEF SameValue
<1>5. PICK i \in Latest(a) : \A j \in Latest(a) : Cardinality(f[j]) <= Cardinality(f[i])
  <2> HIDE DEF f
  <2> QED BY <1>3, <1>4, LargestExists, Zenon
<1>6. LargestValue(a) # {} /\ LargestValue(a) \subseteq Latest(a)
  BY <1>5 DEF LargestValue
<1>7. SelectGet(a) \in Latest(a)
  BY <1>3, <1>6, FirstIn DEF SelectGet
<1> QED BY <1>3, <1>7 DEF Latest
=============================================================================
