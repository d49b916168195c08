-------------------------- MODULE VotedStoreProofs --------------------------
(***************************************************************************)
(* The voted store is a register, for every number of servers, every sound *)
(* choice of quorums and any liars that these outnumber.                   *)
(*                                                                         *)
(* The inductive invariant is LatestIsReplicated: the highest version is   *)
(* at a write quorum, with one value.  Counting then shows that the votes  *)
(* on a PUT are won by that version and the answers to a GET by its value. *)
(***************************************************************************)
EXTENDS VotedStore, VoteLemmas

(* Sets of servers are finite, and there are N servers.                    *)
LEMMA ServersFinite ==
  /\ Servers \in SUBSET Nat /\ IsFiniteSet(Servers) /\ Cardinality(Servers) = N
  /\ \A S \in SUBSET Servers : IsFiniteSet(S) /\ Cardinality(S) \in 0 .. N
<1>1. IsFiniteSet(0 .. N - 1) /\ Cardinality(0 .. N - 1) = N
  BY FS_Interval, SizesAssumption
<1>2. IsFiniteSet(Servers) /\ Cardinality(Servers) = N
  BY <1>1 DEF Servers
<1>3. ASSUME NEW S \in SUBSET Servers
      PROVE  IsFiniteSet(S) /\ Cardinality(S) \in 0 .. N
  BY <1>2, FS_Subset, FS_CardinalityType, SizesAssumption
<1>4. Servers \in SUBSET Nat
  BY SizesAssumption DEF Servers
<1> QED BY <1>2, <1>3, <1>4

(* Two sets of servers overlap in what their sizes exceed N by, less the   *)
(* members of a third one.                                                 *)
LEMMA OverlapWithout ==
  ASSUME NEW S \in SUBSET Servers, NEW T \in SUBSET Servers, NEW L \in SUBSET Servers
  PROVE  Cardinality((S \cap T) \ L)
           >= Cardinality(S) + Cardinality(T) - N - Cardinality(L)
<1>1. /\ Cardinality(S \cup T) = Cardinality(S) + Cardinality(T) - Cardinality(S \cap T)
      /\ Cardinality(S \cup T) <= N
  BY ServersFinite, FS_Union
<1>2. Cardinality((S \cap T) \ L) = Cardinality(S \cap T) - Cardinality((S \cap T) \cap L)
  BY ServersFinite, FS_Difference
<1>3. Cardinality((S \cap T) \cap L) <= Cardinality(L)
  BY ServersFinite, FS_Intersection
<1>4. /\ Cardinality(S) \in Nat /\ Cardinality(T) \in Nat /\ Cardinality(L) \in Nat
      /\ Cardinality(S \cap T) \in Nat /\ Cardinality((S \cap T) \cap L) \in Nat
  BY ServersFinite
<1> QED BY <1>1, <1>2, <1>3, <1>4, SizesAssumption

-----------------------------------------------------------------------------
Inv == TypeOK /\ LatestIsReplicated

(* The votes on a PUT are won by the highest version there is              *)
(* (Client.c:104-151, 176).                                                *)
LEMMA PutPicksTop ==
  ASSUME Sound, Inv, NEW V \in SUBSET Servers, Cardinality(V) >= Nw
  PROVE  /\ SelectPut(PutVotes(V)) \in V
         /\ \A s \in Top : PutVotes(V)[SelectPut(PutVotes(V))].vno = vno[s]
<1> DEFINE a == PutVotes(V)
           G == (V \cap Top) \ Liars
<1> USE DEF Inv, TypeOK, LatestIsReplicated
<1>1. Top \in SUBSET Servers /\ Liars \in SUBSET Servers /\ G \in SUBSET Servers
  BY LiarsAssumption DEF Top
<1>2. /\ Cardinality(V) \in Nat /\ Cardinality(Top) \in Nat
      /\ Cardinality(Liars) \in Nat /\ Cardinality(G) \in Nat
      /\ Nr \in Nat /\ Nw \in Nat /\ N \in Nat
  BY <1>1, ServersFinite, SizesAssumption
<1>3. /\ Cardinality(G) >= 2 * Nw - N - Cardinality(Liars)
      /\ Cardinality(G) > N - Nw + Cardinality(Liars)
  <2>1. Cardinality(G) >= Cardinality(V) + Cardinality(Top) - N - Cardinality(Liars)
    BY <1>1, OverlapWithout
  <2>2. Cardinality(Top) >= Nw /\ 3 * Nw > 2 * N + 2 * Cardinality(Liars)
    BY DEF Sound
  <2> HIDE DEF G
  <2> QED BY <1>2, <2>1, <2>2
<1>4. DOMAIN a = V /\ \A s \in V : a[s].vno \in Nat
  BY DEF PutVotes, LIER_VNO_INCR
<1>5. ASSUME NEW t \in Top, NEW s \in V, a[s].vno # vno[t]
      PROVE  /\ SameVno(a, s) \subseteq (Servers \ Top) \cup Liars
             /\ Cardinality(SameVno(a, s)) <= N - Nw + Cardinality(Liars)
  <2>1. \A u \in V : u \in Top /\ u \notin Liars => a[u].vno = vno[t]
    BY DEF PutVotes, Top
  <2>2. SameVno(a, s) \subseteq (Servers \ Top) \cup Liars
    BY <1>4, <1>5, <2>1 DEF SameVno
  <2>3. Cardinality(Servers \ Top) = N - Cardinality(Top)
    <3>1. Servers \cap Top = Top
      BY <1>1
    <3> QED BY <3>1, ServersFinite, FS_Difference
  <2>4. Cardinality((Servers \ Top) \cup Liars) <= Cardinality(Servers \ Top) + Cardinality(Liars)
    <3>1. Cardinality((Servers \ Top) \cap Liars) \in Nat
      BY ServersFinite
    <3>2. Cardinality(Servers \ Top) \in Nat
      BY ServersFinite
    <3>3. Cardinality((Servers \ Top) \cup Liars) =
            Cardinality(Servers \ Top) + Cardinality(Liars) - Cardinality((Servers \ Top) \cap Liars)
      BY <1>1, ServersFinite, FS_Union
    <3> QED BY <1>2, <3>1, <3>2, <3>3
  <2>5. Cardinality(SameVno(a, s)) <= Cardinality((Servers \ Top) \cup Liars)
    <3>1. (Servers \ Top) \cup Liars \in SUBSET Servers
      BY <1>1
    <3> QED BY <2>2, <3>1, ServersFinite, FS_Subset
  <2>6. Cardinality(SameVno(a, s)) \in Nat /\ Cardinality((Servers \ Top) \cup Liars) \in Nat
    <3>1. SameVno(a, s) \in SUBSET Servers /\ (Servers \ Top) \cup Liars \in SUBSET Servers
      BY <1>1, <2>2
    <3> QED BY <3>1, ServersFinite
  <2> QED BY <1>2, <2>2, <2>3, <2>4, <2>5, <2>6
<1>6. ASSUME NEW g \in G
      PROVE  Cardinality(SameVno(a, g)) >= Cardinality(G)
  <2>1. G \subseteq SameVno(a, g)
    BY <1>4 DEF SameVno, PutVotes, Top
  <2>2. SameVno(a, g) \in SUBSET Servers
    BY <1>4 DEF SameVno
  <2> QED BY <2>1, <2>2, ServersFinite, FS_Subset
<1>7. PICK g \in G : TRUE
  <2>1. Nw <= N
    BY <1>2 DEF Sound
  <2> HIDE DEF G
  <2>2. Cardinality(G) > 0
    BY <1>2, <1>3, <2>1
  <2> HIDE DEF Inv
  <2>3. Cardinality({}) = 0
    BY FS_EmptySet
  <2>4. G # {}
    BY <2>2, <2>3
  <2> QED BY <2>4
<1>8. \A s \in LargestVno(a) : a[s].vno = vno[g]
  <2> SUFFICES ASSUME NEW s \in LargestVno(a), a[s].vno # vno[g] PROVE FALSE
    OBVIOUS
  <2>1. s \in V /\ Cardinality(SameVno(a, g)) <= Cardinality(SameVno(a, s))
    BY <1>4, <1>7 DEF LargestVno
  <2>2. Cardinality(SameVno(a, s)) <= N - Nw + Cardinality(Liars)
    BY <1>5, <1>7, <2>1
  <2>3. Cardinality(SameVno(a, g)) \in Nat /\ Cardinality(SameVno(a, s)) \in Nat
    <3>1. SameVno(a, g) \in SUBSET Servers /\ SameVno(a, s) \in SUBSET Servers
      BY <1>4 DEF SameVno
    <3> QED BY <3>1, ServersFinite
  <2>4. Cardinality(SameVno(a, g)) >= Cardinality(G)
    BY <1>6, <1>7
  <2> HIDE DEF G, a
  <2> QED BY <1>2, <1>3, <2>1, <2>2, <2>3, <2>4
<1>9. LargestVno(a) # {} /\ LargestVno(a) \in SUBSET V
  <2> DEFINE f == [s \in V |-> SameVno(a, s)]
  <2>1. f \in [V -> SUBSET Servers] /\ V # {}
    BY <1>4, <1>7 DEF SameVno
  <2>2. PICK s \in V : \A u \in V : Cardinality(f[u]) <= Cardinality(f[s])
    <3> HIDE DEF f
    <3> QED BY <2>1, ServersFinite, LargestExists
  <2> QED BY <1>4, <2>2 DEF LargestVno
<1>10. SelectPut(a) \in LargestVno(a)
  BY <1>9, ServersFinite, FirstIn DEF SelectPut
<1>11. \A s \in Top : vno[s] = vno[g]
  BY <1>7 DEF Top
<1> QED BY <1>8, <1>9, <1>10, <1>11

(* The answers to a GET: the latest ones come from servers with the        *)
(* highest version there is, and the most frequent value among them is the *)
(* one that the honest ones give (Client.c:60-100, 141-151).               *)
LEMMA GetWonByHonest ==
  ASSUME Sound, Inv, NEW R \in SUBSET Servers, Cardinality(R) >= Nr
  PROVE  /\ Latest(GetAnswers(R)) = R \cap Top
         /\ LargestValue(GetAnswers(R)) = (R \cap Top) \ Liars
         /\ (R \cap Top) \ Liars # {}
<1> DEFINE a == GetAnswers(R)
           G == (R \cap Top) \ Liars
<1> USE DEF Inv, TypeOK, LatestIsReplicated
<1>1. Top \in SUBSET Servers /\ Liars \in SUBSET Servers /\ G \in SUBSET Servers
  BY LiarsAssumption DEF Top
<1>2. /\ Cardinality(R) \in Nat /\ Cardinality(Top) \in Nat
      /\ Cardinality(Liars) \in Nat /\ Cardinality(G) \in Nat
      /\ Nr \in Nat /\ Nw \in Nat /\ N \in Nat
  BY <1>1, ServersFinite, SizesAssumption
<1>3. Cardinality(G) > Cardinality(Liars)
  <2>1. Cardinality(G) >= Cardinality(R) + Cardinality(Top) - N - Cardinality(Liars)
    BY <1>1, OverlapWithout
  <2>2. Cardinality(Top) >= Nw /\ Nr + Nw > N + 2 * Cardinality(Liars)
    BY DEF Sound
  <2> HIDE DEF G
  <2> QED BY <1>2, <2>1, <2>2
<1>4. G # {}
  <2> HIDE DEF G
  <2> QED BY <1>2, <1>3, FS_EmptySet
<1>5. DOMAIN a = R /\ \A s \in R : a[s].vno = vno[s]
  BY DEF GetAnswers
<1>6. Latest(a) = R \cap Top
  <2>1. PICK g \in G : TRUE
    BY <1>4
  <2>2. g \in R /\ \A u \in Servers : vno[u] <= vno[g]
    BY <2>1 DEF Top
  <2>3. ASSUME NEW s \in Latest(a) PROVE s \in R \cap Top
    <3>1. s \in R /\ vno[g] <= vno[s]
      BY <1>5, <2>2 DEF Latest
    <3> QED BY <2>2, <3>1 DEF Top
  <2>4. ASSUME NEW s \in R \cap Top PROVE s \in Latest(a)
    BY <1>5 DEF Latest, Top
  <2> QED BY <2>3, <2>4
<1>7. ASSUME NEW s \in G PROVE SameValue(a, s) = G
  <2>1. \A u \in R \cap Top : a[u].value.value = value[s] /\ (a[u].value.lie <=> u \in Liars)
    BY <1>7 DEF GetAnswers
  <2>2. ASSUME NEW u \in R \cap Top, u \in Liars PROVE a[u].value # a[s].value
    BY <1>7, <2>1, <2>2
  <2>3. ASSUME NEW u \in R \cap Top, u \notin Liars PROVE a[u].value = a[s].value
    <3>1. (u \in Liars) = FALSE /\ (s \in Liars) = FALSE /\ value[u] = value[s]
      BY <1>7, <2>3
    <3> QED BY <1>7, <3>1 DEF GetAnswers
  <2> QED BY <1>6, <2>2, <2>3 DEF SameValue
<1>8. ASSUME NEW s \in (R \cap Top) \cap Liars
      PROVE  Cardinality(SameValue(a, s)) \in Nat /\ Cardinality(SameValue(a, s)) < Cardinality(G)
  <2>1. \A u \in R \cap Top : a[u].value = a[s].value => u \in Liars
    BY <1>8 DEF GetAnswers
  <2>2. SameValue(a, s) \in SUBSET Liars /\ SameValue(a, s) \in SUBSET Servers
    BY <1>1, <1>6, <2>1 DEF SameValue
  <2>3. Cardinality(SameValue(a, s)) <= Cardinality(Liars) /\ Cardinality(SameValue(a, s)) \in Nat
    BY <1>1, <2>2, ServersFinite, FS_Subset
  <2> HIDE DEF G, a
  <2> QED BY <1>2, <1>3, <2>3
<1>9. LargestValue(a) = G
  <2>1. PICK g \in G : TRUE
    BY <1>4
  <2>2. \A s \in R \cap Top : Cardinality(SameValue(a, s)) <= Cardinality(G)
    <3> SUFFICES ASSUME NEW s \in R \cap Top
                 PROVE  Cardinality(SameValue(a, s)) <= Cardinality(G)
      OBVIOUS
    <3>1. CASE s \in Liars
      <4>1. Cardinality(SameValue(a, s)) \in Nat /\ Cardinality(SameValue(a, s)) < Cardinality(G)
        BY <1>8, <3>1
      <4> HIDE DEF a, G
      <4> QED BY <1>2, <4>1
    <3>2. CASE s \notin Liars
      BY <1>2, <1>7, <3>2
    <3> QED BY <3>1, <3>2
  <2>3. ASSUME NEW s \in G PROVE s \in LargestValue(a)
    BY <1>6, <1>7, <2>2, <2>3 DEF LargestValue
  <2>4. ASSUME NEW s \in LargestValue(a) PROVE s \in G
    <3>1. s \in R \cap Top /\ Cardinality(SameValue(a, g)) <= Cardinality(SameValue(a, s))
      BY <1>6, <2>1 DEF LargestValue
    <3>2. Cardinality(SameValue(a, g)) = Cardinality(G)
      BY <1>7, <2>1
    <3>3. s \notin Liars
      <4> SUFFICES ASSUME s \in Liars PROVE FALSE
        OBVIOUS
      <4>1. Cardinality(SameValue(a, s)) \in Nat
            /\ Cardinality(SameValue(a, s)) < Cardinality(G)
        BY <1>8, <3>1
      <4> HIDE DEF a, G, Inv
      <4> QED BY <1>2, <3>1, <3>2, <4>1
    <3> QED BY <3>1, <3>3
  <2> QED BY <2>3, <2>4
<1> QED BY <1>4, <1>6, <1>9

(* What a GET prints is the value of the highest version, and no lie.      *)
LEMMA GetPrintsTop ==
  ASSUME Sound, Inv, NEW R \in SUBSET Servers, Get(R)
  PROVE  \A s \in Top : output' = Output("GET", value[s], FALSE)
<1> DEFINE c == SelectGet(GetAnswers(R))
<1>1. c \in (R \cap Top) \ Liars
  BY GetWonByHonest, ServersFinite, FirstIn DEF SelectGet, Get
<1>2. output' = Output("GET", value[c], FALSE)
  <2>1. output' = Output("GET", GetAnswers(R)[c].value.value,
                                GetAnswers(R)[c].value.lie)
    BY DEF Get
  <2> HIDE DEF c
  <2>2. (c \in Liars) = FALSE
    BY <1>1
  <2> QED BY <1>1, <2>1, <2>2 DEF GetAnswers
<1> QED BY <1>1, <1>2 DEF Inv, LatestIsReplicated

(* After a PUT the servers that voted are the ones with the highest        *)
(* version.                                                                *)
LEMMA PutMakesTop ==
  ASSUME Sound, Inv, NEW V \in SUBSET Servers, NEW v \in Vals, Put(V, v)
  PROVE  /\ Inv'
         /\ Top' = V /\ V # {}
         /\ \A s \in V : value'[s] = v
<1> DEFINE n == PutVotes(V)[SelectPut(PutVotes(V))].vno + 1
<1> USE DEF Inv, TypeOK, LatestIsReplicated
<1>1. /\ Cardinality(V) >= Nw
      /\ vno' = [s \in Servers |-> IF s \in V THEN n ELSE vno[s]]
      /\ value' = [s \in Servers |-> IF s \in V THEN v ELSE value[s]]
      /\ output' = Output("PUT", v, FALSE)
  BY DEF Put
<1>2. \A s \in Top : n = vno[s] + 1
  BY <1>1, PutPicksTop
<1>3. V # {} /\ Top # {}
  <2>1. Nw \in Nat /\ Nw > 0
    BY SizesAssumption DEF Sound
  <2>2. Cardinality({}) = 0
    BY FS_EmptySet
  <2> QED BY <1>1, <2>1, <2>2
<1>4. PICK t \in Top : TRUE
  BY <1>3
<1>5. n \in Nat \ {0} /\ \A s \in Servers : vno[s] < n
  <2>1. t \in Servers /\ n = vno[t] + 1 /\ \A s \in Servers : vno[s] <= vno[t]
    BY <1>2, <1>4 DEF Top
  <2> HIDE DEF n
  <2> QED BY <2>1
<1> HIDE DEF n
<1>6. TypeOK'
  BY <1>1, <1>5, ValsAssumption DEF Output, Outputs
<1>7. Top' = V
  BY <1>1, <1>3, <1>5 DEF Top
<1> QED BY <1>1, <1>3, <1>6, <1>7

(* At the start every server has the highest version.                        *)
LEMMA InitInv == Sound /\ Init => Inv
<1> SUFFICES ASSUME Sound, Init PROVE Inv
  OBVIOUS
<1>1. Top = Servers
  BY DEF Init, Top
<1>2. Cardinality(Top) >= Nw
  BY <1>1, ServersFinite, SizesAssumption DEF Sound
<1>3. TypeOK
  <2>1. ASSUME NEW v \in Vals, vno = [s \in Servers |-> 1],
               value = [s \in Servers |-> v], output = NoOutput
        PROVE  TypeOK
    BY <2>1, ValsAssumption DEF TypeOK, NoOutput, Output, Outputs
  <2>2. ASSUME vno = [s \in Servers |-> 0],
               value = [s \in Servers |-> NoVal], output = NoOutput
        PROVE  TypeOK
    BY <2>2 DEF TypeOK, NoOutput, Output, Outputs
  <2> QED BY <2>1, <2>2 DEF Init
<1> QED BY <1>1, <1>2, <1>3 DEF Inv, LatestIsReplicated, Init

(* The invariant is inductive.                                               *)
LEMMA InvStep == Sound /\ Inv /\ [Next]_vars => Inv'
<1> SUFFICES ASSUME Sound, Inv, [Next]_vars PROVE Inv'
  OBVIOUS
<1>1. ASSUME UNCHANGED <<vno, value>>, output' \in Outputs
      PROVE  Inv'
  BY <1>1 DEF Inv, TypeOK, LatestIsReplicated, Top
<1>2. CASE LesserQuorum
  BY <1>1, <1>2 DEF LesserQuorum, NoOutput, Output, Outputs
<1>3. ASSUME NEW R \in SUBSET Servers, Get(R) PROVE Inv'
  <2>1. PICK s \in Top : TRUE
    BY GetWonByHonest, <1>3 DEF Get
  <2>2. output' = Output("GET", value[s], FALSE)
    BY <1>3, <2>1, GetPrintsTop
  <2>3. value[s] \in Vals \cup {NoVal}
    BY <2>1 DEF Inv, TypeOK, Top
  <2>4. output' \in Outputs
    BY <2>2, <2>3 DEF Output, Outputs
  <2>5. UNCHANGED <<vno, value>>
    BY <1>3 DEF Get
  <2> QED BY <1>1, <2>4, <2>5
<1>4. ASSUME NEW V \in SUBSET Servers, NEW v \in Vals, Put(V, v) PROVE Inv'
  BY <1>4, PutMakesTop
<1>5. CASE UNCHANGED vars
  BY <1>1, <1>5 DEF vars, Inv, TypeOK
<1> QED BY <1>2, <1>3, <1>4, <1>5 DEF Next

(* So it holds in every state.                                               *)
LEMMA StoreInvariant == ASSUME Sound PROVE Spec => []Inv
<1>1. Init => Inv
  BY InitInv
<1>2. Inv /\ [Next]_vars => Inv'
  BY InvStep
<1> QED BY <1>1, <1>2, PTL DEF Spec

(* Versions, values and outputs have their types, and a server has a value *)
(* exactly if it has a version (Server.h, struct keyInfo).                 *)
THEOREM TypeCorrect == ASSUME Sound PROVE Spec => []TypeOK
<1>1. Inv => TypeOK
  BY DEF Inv
<1> QED BY <1>1, StoreInvariant, PTL

(* The highest version of a key is always at a write quorum of servers and *)
(* stands for one value, whichever servers each client reaches.            *)
THEOREM LatestReplicated == ASSUME Sound PROVE Spec => []LatestIsReplicated
<1>1. Inv => LatestIsReplicated
  BY DEF Inv
<1> QED BY <1>1, StoreInvariant, PTL

(* With sound quorums the client never reports an honest server as a liar  *)
(* (Client.c:152-175).                                                     *)
THEOREM JustAccusations == ASSUME Sound PROVE Spec => []AccusationsJust
<1>1. ASSUME Inv PROVE AccusationsJust
  <2>1. ASSUME NEW S \in SUBSET Servers, Cardinality(S) >= Nw
        PROVE  LiedPut(PutVotes(S)) \subseteq Liars
    <3> SUFFICES ASSUME NEW i \in LiedPut(PutVotes(S)), i \notin Liars PROVE FALSE
      OBVIOUS
    <3>1. PICK t \in Top : TRUE
      <4>1. Cardinality({}) = 0 /\ Nw > 0 /\ Nw \in Nat
        BY FS_EmptySet, SizesAssumption DEF Sound
      <4> QED BY <1>1, <4>1 DEF Inv, LatestIsReplicated
    <3>2. PutVotes(S)[SelectPut(PutVotes(S))].vno = vno[t]
      BY <1>1, <2>1, <3>1, PutPicksTop
    <3>3. i \in S /\ PutVotes(S)[i].vno > vno[t]
      BY <3>2 DEF LiedPut, PutVotes
    <3>4. PutVotes(S)[i].vno = vno[i] /\ vno[i] \in Nat
      BY <1>1, <3>3 DEF PutVotes, Inv, TypeOK
    <3> QED BY <1>1, <3>1, <3>3, <3>4 DEF Top, Inv, TypeOK
  <2>2. ASSUME NEW S \in SUBSET Servers, Cardinality(S) >= Nr
        PROVE  LiedGet(GetAnswers(S)) \subseteq Liars
    BY <1>1, <2>2, GetWonByHonest DEF LiedGet
  <2> QED BY <2>1, <2>2 DEF AccusationsJust
<1> QED BY <1>1, StoreInvariant, PTL

-----------------------------------------------------------------------------
(* The value that the register has: that of any server with the highest    *)
(* version.                                                                *)
LEMMA LatestValueIs ==
  ASSUME Sound, Inv
  PROVE  Top # {} /\ \A s \in Top : LatestValue = value[s]
<1>1. Cardinality({}) = 0 /\ Nw > 0 /\ Nw \in Nat
  BY FS_EmptySet, SizesAssumption DEF Sound
<1>2. Top # {}
  BY <1>1 DEF Inv, LatestIsReplicated
<1>3. (CHOOSE s \in Top : TRUE) \in Top
  BY <1>2
<1> QED BY <1>2, <1>3 DEF LatestValue, Inv, LatestIsReplicated

(* Every step of the store is a step of the register or none.              *)
LEMMA StepSimulation ==
  ASSUME Sound, Inv, [Next]_vars
  PROVE  [Abstract!Next]_<<LatestValue, Printed>>
<1> USE DEF Abstract!Next, Abstract!Read, Abstract!GiveUp, Abstract!Write,
            Abstract!Did, Output
<1>1. ASSUME UNCHANGED <<vno, value>> PROVE LatestValue' = LatestValue
  BY <1>1 DEF LatestValue, Top
<1>2. CASE LesserQuorum
  BY <1>1, <1>2 DEF LesserQuorum, Printed, NoOutput
<1>3. ASSUME NEW R \in SUBSET Servers, Get(R) PROVE Abstract!Read
  <2>1. PICK s \in Top : TRUE
    BY LatestValueIs
  <2>2. Printed' = [op |-> "GET", value |-> LatestValue]
    BY <1>3, <2>1, GetPrintsTop, LatestValueIs DEF Printed
  <2>3. LatestValue # NoVal
    <3>1. PICK g \in R \cap Top : TRUE
      BY <1>3, GetWonByHonest DEF Get
    <3>2. vno[g] # 0
      BY <1>3, <3>1 DEF Get
    <3> QED BY <3>1, <3>2, LatestValueIs DEF Inv, TypeOK, Top
  <2> QED BY <1>1, <1>3, <2>2, <2>3 DEF Get
<1>4. ASSUME NEW V \in SUBSET Servers, NEW v \in Vals, Put(V, v)
      PROVE  Abstract!Write(v)
  <2>1. Top' = V /\ V # {} /\ \A s \in V : value'[s] = v
    BY <1>4, PutMakesTop
  <2>2. LatestValue' = v
    BY <2>1 DEF LatestValue
  <2>3. Printed' = [op |-> "PUT", value |-> v]
    BY <1>4 DEF Put, Printed
  <2> QED BY <2>2, <2>3
<1>5. CASE UNCHANGED vars
  BY <1>1, <1>5 DEF vars, Printed
<1> QED BY <1>2, <1>3, <1>4, <1>5 DEF Next

(* The replicated store with its votes and its liars implements the        *)
(* register: a GET prints the value of the last PUT.                       *)
THEOREM StoreIsRegister == ASSUME Sound PROVE Spec => ActsAsRegister
<1>1. Init => Abstract!Init
  <2> SUFFICES ASSUME Init PROVE Abstract!Init
    OBVIOUS
  <2>1. Inv
    BY InitInv
  <2>2. LatestValue \in Vals \cup {NoVal}
    BY <2>1, LatestValueIs DEF Inv, TypeOK, Top
  <2> QED BY <2>2 DEF Abstract!Init, Abstract!Did, Init, Printed,
               NoOutput, Output
<1>2. Inv /\ [Next]_vars => [Abstract!Next]_<<LatestValue, Printed>>
  BY StepSimulation
<1> QED BY <1>1, <1>2, StoreInvariant, PTL DEF Spec, ActsAsRegister, Abstract!Spec

=============================================================================
