--------------------------- MODULE LruCacheProofs ---------------------------
(***************************************************************************)
(* Theorems about the cache, for every size and any set of files.          *)
(*                                                                         *)
(* CountersAreRanks is inductive together with the types: the counter of a *)
(* free block is the number of blocks in use, so two free blocks leave     *)
(* room for the increment and the modulo never acts.                       *)
(***************************************************************************)
EXTENDS LruCache, Minimum, FiniteSetTheorems, SequenceTheorems

Inv == TypeOK /\ CountersAreRanks /\ OneBlockPerFile

(* Sets of blocks are finite, and there are num_blocks blocks.             *)
LEMMA BlocksFinite ==
  /\ IsFiniteSet(Blocks) /\ Cardinality(Blocks) = num_blocks
  /\ \A S \in SUBSET Blocks : IsFiniteSet(S) /\ Cardinality(S) \in 0 .. num_blocks
<1>1. IsFiniteSet(0 .. num_blocks - 1) /\ Cardinality(0 .. num_blocks - 1) = num_blocks
  BY FS_Interval, SizeAssumption
<1>2. IsFiniteSet(Blocks) /\ Cardinality(Blocks) = num_blocks
  BY <1>1 DEF Blocks
<1>3. ASSUME NEW S \in SUBSET Blocks
      PROVE  IsFiniteSet(S) /\ Cardinality(S) \in 0 .. num_blocks
  BY <1>2, FS_Subset, FS_CardinalityType, SizeAssumption
<1> QED BY <1>2, <1>3

(* First is a member of a non-empty set of blocks.                         *)
LEMMA FirstIn ==
  ASSUME NEW S \in SUBSET Blocks, S # {}
  PROVE  First(S) \in S
<1>1. S \in SUBSET Nat
  BY SizeAssumption DEF Blocks
<1>2. \E i \in S : \A j \in S : i <= j
  BY <1>1, NatMin, Zenon
<1> QED BY <1>2 DEF First

(* What the search for a file's block finds (Cache.c:156-172).             *)
LEMMA FindBlock ==
  ASSUME NEW f
  PROVE  \/ /\ find_meta_data_block(f) = NULL
            /\ \A b \in Used : file_name[b] # f
         \/ /\ find_meta_data_block(f) \in Used
            /\ file_name[find_meta_data_block(f)] = f
<1> DEFINE found == {b \in Blocks : ~ free_flag[b] /\ file_name[b] = f}
<1>1. found \in SUBSET Blocks
  OBVIOUS
<1>2. CASE found = {}
  BY <1>2 DEF find_meta_data_block, Used
<1>3. CASE found # {}
  <2>1. First(found) \in found
    BY <1>1, <1>3, FirstIn, Zenon
  <2>2. find_meta_data_block(f) = First(found)
    BY <1>3 DEF find_meta_data_block
  <2> QED BY <2>1, <2>2 DEF Used
<1> QED BY <1>2, <1>3

(* get_free_cache_block returns a block with the largest counter           *)
(* (Cache.c:108-118).                                                      *)
LEMMA OldestBlock ==
  ASSUME TypeOK
  PROVE  get_free_cache_block \in Oldest
<1> DEFINE C == {lru_counter[b] : b \in Blocks}
<1>1. 0 \in Blocks /\ Blocks \subseteq Nat /\ \A b \in Blocks : b <= num_blocks
  BY SizeAssumption DEF Blocks
<1>2. \A b \in Blocks : lru_counter[b] \in C /\ lru_counter[b] \in Blocks
  BY DEF TypeOK
<1>3. C # {} /\ C \in SUBSET Nat /\ \A n \in C : n <= num_blocks
  BY <1>1, <1>2
<1>4. PICK m \in C : \A n \in C : n <= m
  <2> HIDE DEF C
  <2> QED BY <1>3, NatMax, SizeAssumption, Zenon
<1>5. PICK b \in Blocks : m = lru_counter[b]
  BY <1>4
<1>6. b \in Oldest
  BY <1>2, <1>4, <1>5 DEF Oldest
<1>7. Oldest \in SUBSET Blocks
  BY DEF Oldest
<1> QED BY <1>6, <1>7, FirstIn DEF get_free_cache_block

-----------------------------------------------------------------------------
(* update_lru of a block in use: the blocks used since move back by one,   *)
(* none of them past the rank it leaves (Cache.c:174-185).                 *)
LEMMA TouchUsed ==
  ASSUME Inv, NEW b \in Used, update_lru(b)
  PROVE  /\ lru_counter' \in [Blocks -> Blocks]
         /\ lru_counter'[b] = 0
         /\ \A c \in Used \ {b} :
              lru_counter'[c] = IF lru_counter[c] < lru_counter[b] THEN lru_counter[c] + 1
                                ELSE lru_counter[c]
         /\ \A c, d \in Used : lru_counter'[c] = lru_counter'[d] => c = d
         /\ \A c \in Used : lru_counter'[c] < Cardinality(Used)
         /\ \A c \in Blocks \ Used : lru_counter'[c] = Cardinality(Used)
<1> USE DEF Inv, TypeOK, CountersAreRanks
<1>1. Used \subseteq Blocks
  BY DEF Used
<1>2. lru_counter' = [c \in Blocks |->
         IF c = b THEN 0
         ELSE IF lru_counter[c] <= lru_counter[b] THEN (lru_counter[c] + 1) % num_blocks
         ELSE lru_counter[c]]
  BY DEF update_lru
<1>3. Cardinality(Used) \in 0 .. num_blocks /\ num_blocks \in Nat
  BY <1>1, BlocksFinite, SizeAssumption
<1>4. \A c \in Blocks : lru_counter[c] \in Nat /\ lru_counter[c] < num_blocks
  BY SizeAssumption DEF Blocks
<1>5. \A c \in Used : c # b =>
         lru_counter'[c] = IF lru_counter[c] < lru_counter[b] THEN lru_counter[c] + 1
                           ELSE lru_counter[c]
  <2> SUFFICES ASSUME NEW c \in Used, c # b
               PROVE  lru_counter'[c] =
                        IF lru_counter[c] < lru_counter[b] THEN lru_counter[c] + 1
                        ELSE lru_counter[c]
    OBVIOUS
  <2>1. lru_counter[c] # lru_counter[b] /\ c \in Blocks /\ b \in Blocks
    BY <1>1
  <2>2. CASE lru_counter[c] < lru_counter[b]
    <3>1. (lru_counter[c] + 1) % num_blocks = lru_counter[c] + 1
      BY <1>3, <1>4, <2>1, <2>2
    <3> QED BY <1>2, <1>4, <2>1, <2>2, <3>1
  <2>3. CASE lru_counter[c] > lru_counter[b]
    BY <1>2, <1>4, <2>1, <2>3
  <2> QED BY <1>4, <2>1, <2>2, <2>3
<1>6. lru_counter'[b] = 0
  BY <1>1, <1>2
<1>7. \A c \in Blocks \ Used : lru_counter'[c] = lru_counter[c]
  BY <1>1, <1>2, <1>3, <1>4
<1>8. \A c \in Used : lru_counter'[c] \in Nat /\ lru_counter'[c] < Cardinality(Used)
  BY <1>1, <1>3, <1>4, <1>5, <1>6
<1>9. \A c, d \in Used : lru_counter'[c] = lru_counter'[d] => c = d
  BY <1>1, <1>4, <1>5, <1>6
<1>10. lru_counter' \in [Blocks -> Blocks]
  <2>1. \A c \in Blocks : lru_counter'[c] \in Blocks
    BY <1>1, <1>3, <1>7, <1>8 DEF Blocks
  <2> QED BY <1>2, <2>1
<1> QED BY <1>5, <1>6, <1>7, <1>8, <1>9, <1>10

(* update_lru of a free block: every block moves back by one, and the last *)
(* rank still fits because the free block takes the first one.             *)
LEMMA TouchFree ==
  ASSUME Inv, NEW b \in Blocks \ Used, update_lru(b)
  PROVE  /\ Cardinality(Used \cup {b}) = Cardinality(Used) + 1
         /\ lru_counter' \in [Blocks -> Blocks]
         /\ lru_counter'[b] = 0
         /\ \A c \in Used : lru_counter'[c] = lru_counter[c] + 1
         /\ \A c \in Blocks \ (Used \cup {b}) : lru_counter'[c] = Cardinality(Used) + 1
<1> USE DEF Inv, TypeOK, CountersAreRanks
<1>1. Used \in SUBSET Blocks /\ Used \cup {b} \in SUBSET Blocks
  BY DEF Used
<1>2. lru_counter' = [c \in Blocks |->
         IF c = b THEN 0
         ELSE IF lru_counter[c] <= lru_counter[b] THEN (lru_counter[c] + 1) % num_blocks
         ELSE lru_counter[c]]
  BY DEF update_lru
<1>3. IsFiniteSet(Used) /\ IsFiniteSet(Used \cup {b})
  BY <1>1, BlocksFinite
<1>4. Cardinality(Used \cup {b}) = Cardinality(Used) + 1
  BY <1>3, FS_AddElement
<1>5. Cardinality(Used) \in Nat /\ Cardinality(Used) + 1 <= num_blocks /\ num_blocks \in Nat
  BY <1>1, <1>4, BlocksFinite, SizeAssumption
<1>6. \A c \in Blocks : lru_counter[c] \in Nat
  BY SizeAssumption DEF Blocks
<1>7. \A c \in Used : lru_counter'[c] = lru_counter[c] + 1
  <2> SUFFICES ASSUME NEW c \in Used PROVE lru_counter'[c] = lru_counter[c] + 1
    OBVIOUS
  <2>1. c \in Blocks /\ c # b /\ lru_counter[c] < Cardinality(Used) /\ lru_counter[b] = Cardinality(Used)
    BY <1>1
  <2>2. (lru_counter[c] + 1) % num_blocks = lru_counter[c] + 1
    BY <1>5, <1>6, <2>1
  <2> QED BY <1>2, <1>5, <1>6, <2>1, <2>2
<1>8. ASSUME NEW c \in Blocks \ (Used \cup {b})
      PROVE  /\ lru_counter'[c] = Cardinality(Used) + 1
             /\ Cardinality(Used) + 1 < num_blocks
  <2>1. Cardinality((Used \cup {b}) \cup {c}) = Cardinality(Used) + 2
    <3> DEFINE T == Used \cup {b}
    <3>1. IsFiniteSet(T) /\ c \notin T /\ Cardinality(T) = Cardinality(Used) + 1
      BY <1>3, <1>4, <1>8
    <3> HIDE DEF T
    <3>2. Cardinality(T \cup {c}) = Cardinality(T) + 1
      BY <3>1, FS_AddElement, Zenon
    <3>3. Cardinality(T \cup {c}) = Cardinality(Used) + 2
      BY <1>5, <3>1, <3>2
    <3> QED BY <3>3 DEF T
  <2>2. (Used \cup {b}) \cup {c} \in SUBSET Blocks
    BY <1>1
  <2>3. Cardinality((Used \cup {b}) \cup {c}) <= num_blocks
    BY <2>2, BlocksFinite, <1>5
  <2>4. Cardinality(Used) + 2 <= num_blocks
    BY <2>1, <2>3
  <2>5. lru_counter[c] = Cardinality(Used) /\ lru_counter[b] = Cardinality(Used)
    OBVIOUS
  <2>6. (Cardinality(Used) + 1) % num_blocks = Cardinality(Used) + 1
    BY <1>5, <2>4
  <2> QED BY <1>2, <1>5, <2>4, <2>5, <2>6
<1>9. lru_counter'[b] = 0
  BY <1>2
<1>10. lru_counter' \in [Blocks -> Blocks]
  <2>1. ASSUME NEW c \in Blocks PROVE lru_counter'[c] \in 0 .. num_blocks - 1
    <3>1. CASE c \in Used
      BY <1>5, <1>6, <1>7, <3>1
    <3>2. CASE c \in Blocks \ (Used \cup {b})
      BY <1>5, <1>8, <3>2
    <3> QED BY <1>5, <1>9, <3>1, <3>2
  <2> QED BY <1>2, <2>1 DEF Blocks
<1> QED BY <1>4, <1>7, <1>8, <1>9, <1>10

(* Using any block, taken or not, keeps the counters ranks once it counts  *)
(* as used.                                                                *)
LEMMA UseBlock ==
  ASSUME Inv, NEW b \in Blocks, update_lru(b), Used' = Used \cup {b}
  PROVE  lru_counter' \in [Blocks -> Blocks] /\ CountersAreRanks'
<1> USE DEF Inv
<1>1. CASE b \in Used
  <2>1. Used' = Used
    BY <1>1
  <2> QED BY <1>1, <2>1, TouchUsed DEF CountersAreRanks
<1>2. CASE b \in Blocks \ Used
  <2>1. /\ Cardinality(Used') = Cardinality(Used) + 1
        /\ lru_counter' \in [Blocks -> Blocks]
        /\ lru_counter'[b] = 0
        /\ \A c \in Used : lru_counter'[c] = lru_counter[c] + 1
        /\ \A c \in Blocks \ Used' : lru_counter'[c] = Cardinality(Used) + 1
    BY <1>2, TouchFree
  <2>2. \A c \in Used : lru_counter[c] \in Nat /\ lru_counter[c] < Cardinality(Used)
    BY SizeAssumption DEF TypeOK, CountersAreRanks, Used, Blocks
  <2>3. Cardinality(Used) \in Nat
    <3>1. Used \in SUBSET Blocks
      BY DEF Used
    <3> QED BY <3>1, BlocksFinite, SizeAssumption
  <2>4. \A c, d \in Used : lru_counter[c] = lru_counter[d] => c = d
    BY DEF CountersAreRanks
  <2>5. \A c \in Used' : lru_counter'[c] < Cardinality(Used')
    BY <2>1, <2>2, <2>3
  <2>6. \A c, d \in Used' : lru_counter'[c] = lru_counter'[d] => c = d
    BY <2>1, <2>2, <2>4
  <2> QED BY <2>1, <2>5, <2>6 DEF CountersAreRanks
<1> QED BY <1>1, <1>2

(* A hit keeps the invariant.                                                *)
LEMMA HitStep ==
  ASSUME Inv, NEW f \in Files, Hit(f)
  PROVE  Inv'
<1> DEFINE b == find_meta_data_block(f)
<1>1. b \in Used /\ Used' = Used /\ update_lru(b)
  BY FindBlock DEF Hit, Used
<1> HIDE DEF b
<1> QED BY <1>1, TouchUsed DEF Hit, Inv, TypeOK, CountersAreRanks, OneBlockPerFile

(* A miss keeps it, whether the block was free or in use.                    *)
LEMMA AllocateStep ==
  ASSUME Inv, NEW f \in Files, Allocate(f)
  PROVE  Inv'
<1> DEFINE b == get_free_cache_block
<1>1. b \in Blocks /\ \A c \in Blocks : lru_counter[c] <= lru_counter[b]
  BY OldestBlock DEF Oldest, Inv
<1>2. /\ update_lru(b)
      /\ asked' = f
      /\ evicted' = IF free_flag[b] THEN NoFile ELSE file_name[b]
      /\ free_flag' = [free_flag EXCEPT ![b] = FALSE]
      /\ file_name' = [file_name EXCEPT ![b] = f]
      /\ \A c \in Used : file_name[c] # f
  BY FindBlock DEF Allocate, NULL, Used, Blocks
<1> HIDE DEF b
<1> USE DEF Inv
<1>3. Used' = Used \cup {b}
  BY <1>1, <1>2 DEF Used, TypeOK
<1>4. OneBlockPerFile'
  BY <1>1, <1>2, <1>3 DEF OneBlockPerFile, TypeOK, Used
<1>5. lru_counter' \in [Blocks -> Blocks] /\ CountersAreRanks'
  BY <1>1, <1>2, <1>3, UseBlock
<1> QED BY <1>1, <1>2, <1>4, <1>5 DEF TypeOK

(* The invariant holds in every state.                                       *)
LEMMA InvInductive == Spec => []Inv
<1>1. Init => Inv
  <2> SUFFICES ASSUME Init PROVE Inv
    OBVIOUS
  <2>1. Used = {} /\ Cardinality(Used) = 0
    BY FS_EmptySet DEF Init, Used
  <2>2. 0 \in Blocks
    BY SizeAssumption DEF Blocks
  <2> QED BY <2>1, <2>2 DEF Init, Inv, TypeOK, CountersAreRanks, OneBlockPerFile
<1>2. Inv /\ [Next]_vars => Inv'
  <2>1. ASSUME Inv, Next PROVE Inv'
    BY <2>1, HitStep, AllocateStep DEF Next
  <2>2. ASSUME Inv, UNCHANGED vars PROVE Inv'
    BY <2>2 DEF vars, Inv, TypeOK, CountersAreRanks, OneBlockPerFile, Used
  <2> QED BY <2>1, <2>2
<1> QED BY <1>1, <1>2, PTL DEF Spec

(* The counters stay below num_blocks, as indices of blocks, whatever is   *)
(* asked for (Cache.c:174-185).                                            *)
THEOREM TypeCorrect == Spec => []TypeOK
<1>1. Inv => TypeOK
  BY DEF Inv
<1> QED BY <1>1, InvInductive, PTL

(* For every size of the cache the counters stay distinct ranks of the     *)
(* blocks in use, with every free block behind them: the modulo of         *)
(* update_lru never makes an old block look just used.                     *)
THEOREM RanksStay == Spec => []CountersAreRanks
<1>1. Inv => CountersAreRanks
  BY DEF Inv
<1> QED BY <1>1, InvInductive, PTL

(* No file ever gets two blocks (Cache.c:156-172).                         *)
THEOREM NoSecondBlock == Spec => []OneBlockPerFile
<1>1. Inv => OneBlockPerFile
  BY DEF Inv
<1> QED BY <1>1, InvInductive, PTL

-----------------------------------------------------------------------------
(* The blocks in use have the ranks 1 to their number, each once.          *)
LEMMA Ranks ==
  ASSUME Inv
  PROVE  /\ Cardinality(Used) \in 0 .. num_blocks
         /\ \A j \in 1 .. Cardinality(Used) :
              Rank(j) \in Used /\ lru_counter[Rank(j)] = j - 1
         /\ \A b \in Used : /\ lru_counter[b] + 1 \in 1 .. Cardinality(Used)
                            /\ Rank(lru_counter[b] + 1) = b
<1> DEFINE n == Cardinality(Used)
           f == [b \in Used |-> lru_counter[b]]
<1>1. Used \in SUBSET Blocks /\ IsFiniteSet(Used) /\ n \in 0 .. num_blocks /\ n \in Nat
  <2>1. Used \in SUBSET Blocks
    BY DEF Used
  <2> QED BY <2>1, BlocksFinite, SizeAssumption
<1>2. /\ \A b \in Used : lru_counter[b] \in Nat /\ lru_counter[b] < n
      /\ \A b, c \in Used : lru_counter[b] = lru_counter[c] => b = c
  BY <1>1, SizeAssumption DEF Inv, TypeOK, CountersAreRanks, Blocks
<1>3. IsFiniteSet(0 .. n - 1) /\ Cardinality(0 .. n - 1) = n
  <2> HIDE DEF n
  <2>1. 0 \in Int /\ n - 1 \in Int
    BY <1>1
  <2> QED BY <1>1, <2>1, FS_Interval
<1>4. f \in Injection(Used, 0 .. n - 1)
  <2>1. f \in [Used -> 0 .. n - 1]
    <3> HIDE DEF n
    <3> QED BY <1>1, <1>2
  <2>2. IsInjective(f)
    BY <1>2 DEF IsInjective
  <2> QED BY <2>1, <2>2 DEF Injection
<1>5. f \in Surjection(Used, 0 .. n - 1)
  BY <1>3, <1>4, FS_Injection
<1>6. \A j \in 1 .. n : \E b \in Used : lru_counter[b] = j - 1
  <2> SUFFICES ASSUME NEW j \in 1 .. n PROVE \E b \in Used : lru_counter[b] = j - 1
    OBVIOUS
  <2>1. j - 1 \in 0 .. n - 1
    <3> HIDE DEF n
    <3> QED BY <1>1
  <2> QED BY <1>5, <2>1 DEF Surjection
<1>7. \A j \in 1 .. n : Rank(j) \in Used /\ lru_counter[Rank(j)] = j - 1
  BY <1>6 DEF Rank
<1>8. ASSUME NEW b \in Used
      PROVE  lru_counter[b] + 1 \in 1 .. n /\ Rank(lru_counter[b] + 1) = b
  <2>1. lru_counter[b] + 1 \in 1 .. n /\ (lru_counter[b] + 1) - 1 = lru_counter[b]
    <3> HIDE DEF n
    <3> QED BY <1>1, <1>2
  <2> QED BY <1>2, <1>7, <2>1
<1> QED BY <1>1, <1>7, <1>8

Ranked ==
  \A j \in 1 .. Cardinality(Used) : Rank(j) \in Used /\ lru_counter[Rank(j)] = j - 1

LEMMA RankedNext == Inv' => Ranked'
<1>1. Inv => Ranked
  BY Ranks DEF Ranked
<1> QED BY <1>1, PTL

(* A function on 1 .. n is a sequence of length n.                         *)
LEMMA SequenceOf ==
  ASSUME NEW n \in Nat, NEW S, NEW r \in [1 .. n -> S]
  PROVE  r \in Seq(S) /\ Len(r) = n
<1>1. r \in Seq(S)
  BY SeqDef
<1>2. Len(r) \in Nat /\ 1 .. Len(r) = 1 .. n
  BY <1>1, LenProperties
<1> QED BY <1>1, <1>2

(* What follows of the list of files that the counters stand for.          *)
LEMMA RecentList ==
  ASSUME Inv
  PROVE  /\ Len(Recent) = Cardinality(Used)
         /\ Abstract!Held = {file_name[b] : b \in Used}
         /\ \A b \in Used : /\ lru_counter[b] + 1 \in 1 .. Cardinality(Used)
                            /\ Recent[lru_counter[b] + 1] = file_name[b]
<1>1. /\ Cardinality(Used) \in Nat
      /\ \A j \in 1 .. Cardinality(Used) : Rank(j) \in Used
  BY Ranks, SizeAssumption
<1>2. Len(Recent) = Cardinality(Used)
  <2> DEFINE n == Cardinality(Used)
             R == [j \in 1 .. n |-> file_name[Rank(j)]]
  <2>1. \A j \in 1 .. n : file_name[Rank(j)] \in Files \cup {NoFile}
    BY <1>1 DEF Inv, TypeOK, Used
  <2>2. R \in [1 .. n -> Files \cup {NoFile}]
    BY <2>1
  <2>3. n \in Nat
    BY <1>1
  <2>4. Len(R) = n
    <3> HIDE DEF n, R
    <3> QED BY <2>2, <2>3, SequenceOf
  <2> QED BY <2>4 DEF Recent
<1>3. \A b \in Used : /\ lru_counter[b] + 1 \in 1 .. Cardinality(Used)
                      /\ Recent[lru_counter[b] + 1] = file_name[b]
  BY Ranks DEF Recent
<1>4. Abstract!Held = {file_name[b] : b \in Used}
  <2>1. ASSUME NEW j \in 1 .. Cardinality(Used) PROVE \E b \in Used : Recent[j] = file_name[b]
    BY <1>1 DEF Recent
  <2> QED BY <1>2, <1>3, <2>1 DEF Abstract!Held
<1> QED BY <1>2, <1>3, <1>4

(* The files as they stand after a step in which block b was used, whose   *)
(* rank was k: b has the first rank and those before k moved back by one.  *)
LEMMA MovedToFront ==
  ASSUME Inv, Inv', NEW n \in Nat, Cardinality(Used)' = n, NEW k \in 1 .. n,
         NEW b \in Used', lru_counter'[b] = 0,
         \A c \in Used' \ {b} :
           /\ c \in Used /\ file_name'[c] = file_name[c] /\ lru_counter[c] # k - 1
           /\ lru_counter'[c] = IF lru_counter[c] < k - 1 THEN lru_counter[c] + 1
                                ELSE lru_counter[c]
  PROVE  Recent' = Abstract!Front(file_name'[b], k, n)
<1>1. /\ \A j \in 1 .. n : Rank(j)' \in Used' /\ lru_counter'[Rank(j)'] = j - 1
      /\ \A c \in Used : Recent[lru_counter[c] + 1] = file_name[c]
      /\ \A c \in Used : lru_counter[c] \in Nat
      /\ \A c, d \in Used' : lru_counter'[c] = lru_counter'[d] => c = d
  <2>1. \A j \in 1 .. n : Rank(j)' \in Used' /\ lru_counter'[Rank(j)'] = j - 1
    BY RankedNext DEF Ranked
  <2>2. \A c \in Used : lru_counter[c] \in Nat
    BY SizeAssumption DEF Inv, TypeOK, Used, Blocks
  <2>3. \A c, d \in Used' : lru_counter'[c] = lru_counter'[d] => c = d
    BY DEF Inv, CountersAreRanks
  <2> QED BY <2>1, <2>2, <2>3, RecentList
<1>2. Recent' = [j \in 1 .. n |-> file_name'[Rank(j)']]
  BY DEF Recent
<1>3. ASSUME NEW j \in 1 .. n
      PROVE  file_name'[Rank(j)'] =
               IF j = 1 THEN file_name'[b]
               ELSE IF j <= k THEN Recent[j - 1] ELSE Recent[j]
  <2>1. CASE j = 1
    BY <1>1, <2>1
  <2>2. CASE j # 1
    <3>1. PICK c \in Used' \ {b} : c = Rank(j)' /\ lru_counter'[c] = j - 1
      BY <1>1, <2>2
    <3>2. /\ c \in Used /\ file_name'[c] = file_name[c] /\ lru_counter[c] # k - 1
          /\ lru_counter'[c] = IF lru_counter[c] < k - 1 THEN lru_counter[c] + 1
                               ELSE lru_counter[c]
          /\ lru_counter[c] \in Nat /\ Recent[lru_counter[c] + 1] = file_name[c]
      BY <1>1, <3>1
    <3>3. CASE j <= k
      <4>1. lru_counter[c] + 1 = j - 1
        BY <3>1, <3>2, <3>3
      <4> QED BY <2>2, <3>1, <3>2, <3>3, <4>1
    <3>4. CASE j > k
      <4>1. lru_counter[c] + 1 = j
        BY <3>1, <3>2, <3>4
      <4> QED BY <2>2, <3>1, <3>2, <3>4, <4>1
    <3> QED BY <3>3, <3>4
  <2> QED BY <2>1, <2>2
<1> QED BY <1>2, <1>3 DEF Abstract!Front

(* A hit moves its file to the front.                                      *)
LEMMA HitRefines ==
  ASSUME Inv, NEW f \in Files, Hit(f)
  PROVE  Abstract!Hit(f)
<1> DEFINE b == find_meta_data_block(f)
           k == lru_counter[b] + 1
<1>1. /\ b \in Used /\ file_name[b] = f /\ Used' = Used /\ update_lru(b)
      /\ asked' = f /\ evicted' = NoFile /\ file_name' = file_name
  BY FindBlock DEF Hit, Used
<1>2. /\ k \in 1 .. Cardinality(Used) /\ Recent[k] = f
      /\ Len(Recent) = Cardinality(Used) /\ Cardinality(Used) \in Nat
  BY <1>1, RecentList, Ranks, SizeAssumption
<1>3. /\ lru_counter'[b] = 0
      /\ \A c \in Used \ {b} :
           /\ lru_counter[c] # k - 1 /\ lru_counter[c] \in Nat
           /\ lru_counter'[c] = IF lru_counter[c] < k - 1 THEN lru_counter[c] + 1
                                ELSE lru_counter[c]
  <2>1. /\ lru_counter'[b] = 0
        /\ \A c \in Used \ {b} :
             lru_counter'[c] = IF lru_counter[c] < lru_counter[b] THEN lru_counter[c] + 1
                               ELSE lru_counter[c]
    <3> HIDE DEF b
    <3> QED BY <1>1, TouchUsed
  <2>2. \A c \in Used : lru_counter[c] \in Nat
    BY SizeAssumption DEF Inv, TypeOK, Used, Blocks
  <2>3. \A c \in Used \ {b} : lru_counter[c] # lru_counter[b]
    BY <1>1 DEF Inv, CountersAreRanks
  <2>4. k - 1 = lru_counter[b]
    BY <1>1, <2>2
  <2> QED BY <2>1, <2>2, <2>3, <2>4
<1>4. Inv'
  BY HitStep
<1>5. Recent' = Abstract!Front(f, k, Cardinality(Used))
  <2> DEFINE n == Cardinality(Used)
  <2>1. n \in Nat /\ Cardinality(Used)' = n /\ k \in 1 .. n
    BY <1>1, <1>2
  <2> HIDE DEF b, k, n
  <2>2. Recent' = Abstract!Front(file_name'[b], k, n)
    BY <1>1, <1>3, <1>4, <2>1, MovedToFront
  <2> QED BY <1>1, <2>2 DEF n
<1> QED BY <1>1, <1>2, <1>5 DEF Abstract!Hit

(* A miss takes a free block as long as there is one; then the one whose   *)
(* file is the last of the list.                                           *)
LEMMA AllocateRefines ==
  ASSUME Inv, NEW f \in Files, Allocate(f)
  PROVE  Abstract!Add(f) \/ Abstract!Replace(f)
<1> DEFINE b == get_free_cache_block
           n == Cardinality(Used)
<1>1. b \in Blocks /\ \A c \in Blocks : lru_counter[c] <= lru_counter[b]
  BY OldestBlock DEF Oldest, Inv
<1>2. /\ update_lru(b)
      /\ asked' = f
      /\ evicted' = IF free_flag[b] THEN NoFile ELSE file_name[b]
      /\ free_flag' = [free_flag EXCEPT ![b] = FALSE]
      /\ file_name' = [file_name EXCEPT ![b] = f]
      /\ \A c \in Used : file_name[c] # f
  BY FindBlock DEF Allocate, NULL, Used, Blocks
<1>3. /\ Used' = Used \cup {b} /\ (b \in Used <=> ~ free_flag[b])
      /\ file_name'[b] = f /\ \A c \in Blocks \ {b} : file_name'[c] = file_name[c]
  BY <1>1, <1>2 DEF Inv, Used, TypeOK
<1>4. /\ Inv' /\ n \in Nat /\ n <= num_blocks /\ Len(Recent) = n
      /\ f \notin Abstract!Held
      /\ \A c \in Used : lru_counter[c] \in Nat /\ lru_counter[c] < n
      /\ \A c \in Blocks \ Used : lru_counter[c] = n
      /\ \A c, d \in Used : lru_counter[c] = lru_counter[d] => c = d
      /\ Used \in SUBSET Blocks /\ num_blocks \in Nat
  <2>1. Inv'
    BY AllocateStep
  <2>2. n \in Nat /\ n <= num_blocks /\ Len(Recent) = n /\ f \notin Abstract!Held
    BY <1>2, Ranks, RecentList, SizeAssumption
  <2>3. /\ \A c \in Used : lru_counter[c] < n
        /\ \A c \in Blocks \ Used : lru_counter[c] = n
        /\ \A c, d \in Used : lru_counter[c] = lru_counter[d] => c = d
    BY DEF Inv, CountersAreRanks
  <2>4. /\ \A c \in Used : lru_counter[c] \in Nat
        /\ Used \in SUBSET Blocks /\ num_blocks \in Nat
    BY SizeAssumption DEF Inv, TypeOK, Used, Blocks
  <2> QED BY <2>1, <2>2, <2>3, <2>4
<1>5. CASE free_flag[b]
  <2>1. b \in Blocks \ Used
    BY <1>1, <1>3, <1>5
  <2>2. /\ Cardinality(Used') = n + 1 /\ lru_counter'[b] = 0
        /\ \A c \in Used : lru_counter'[c] = lru_counter[c] + 1
    <3> HIDE DEF b
    <3>1. /\ Cardinality(Used \cup {b}) = n + 1 /\ lru_counter'[b] = 0
          /\ \A c \in Used : lru_counter'[c] = lru_counter[c] + 1
      BY <1>2, <2>1, TouchFree
    <3>2. Cardinality(Used') = Cardinality(Used \cup {b})
      BY <1>3
    <3> QED BY <3>1, <3>2
  <2>3. n + 1 <= num_blocks
    <3>1. Used' \in SUBSET Blocks
      BY <1>1, <1>3, <1>4
    <3>2. Cardinality(Used') <= num_blocks
      BY <3>1, BlocksFinite, <1>4
    <3> QED BY <2>2, <3>2
  <2>4. Recent' = Abstract!Front(f, n + 1, n + 1)
    <3>1. \A c \in Used' \ {b} :
            /\ c \in Used /\ file_name'[c] = file_name[c] /\ lru_counter[c] # (n + 1) - 1
            /\ lru_counter'[c] = IF lru_counter[c] < (n + 1) - 1 THEN lru_counter[c] + 1
                                 ELSE lru_counter[c]
      BY <1>3, <1>4, <2>2
    <3>2. b \in Used' /\ n + 1 \in Nat /\ n + 1 \in 1 .. n + 1
      BY <1>3, <1>4
    <3> DEFINE m == n + 1
    <3>3. m \in Nat /\ m \in 1 .. m /\ Cardinality(Used)' = m
      BY <2>2, <3>2
    <3>4. \A c \in Used' \ {b} :
            /\ c \in Used /\ file_name'[c] = file_name[c] /\ lru_counter[c] # m - 1
            /\ lru_counter'[c] = IF lru_counter[c] < m - 1 THEN lru_counter[c] + 1
                                 ELSE lru_counter[c]
      BY <3>1
    <3> HIDE DEF b, m
    <3>5. Recent' = Abstract!Front(file_name'[b], m, m)
      BY <1>4, <2>2, <3>2, <3>3, <3>4, MovedToFront
    <3> QED BY <1>3, <3>5 DEF m
  <2> QED BY <1>2, <1>4, <1>5, <2>3, <2>4 DEF Abstract!Add
<1>6. CASE ~ free_flag[b]
  <2>1. b \in Used /\ Used' = Used
    BY <1>3, <1>6
  <2>2. Used = Blocks /\ n = num_blocks
    <3>1. ASSUME NEW c \in Blocks \ Used PROVE FALSE
      BY <1>1, <1>4, <2>1
    <3>2. Used = Blocks
      BY <1>4, <3>1
    <3> QED BY <3>2, BlocksFinite
  <2>3. lru_counter[b] = n - 1
    <3>1. n \in 1 .. n
      BY <1>4, <2>1
    <3>2. Rank(n) \in Used /\ lru_counter[Rank(n)] = n - 1
      BY <3>1, Ranks
    <3> QED BY <1>1, <1>4, <2>1, <3>2
  <2>4. Recent[num_blocks] = file_name[b]
    BY <1>4, <2>1, <2>2, <2>3, RecentList
  <2>5. /\ lru_counter'[b] = 0
        /\ \A c \in Used \ {b} :
             lru_counter'[c] = IF lru_counter[c] < lru_counter[b] THEN lru_counter[c] + 1
                               ELSE lru_counter[c]
    <3> HIDE DEF b
    <3> QED BY <1>2, <2>1, TouchUsed
  <2>6. Recent' = Abstract!Front(f, n, n)
    <3>1. n \in 1 .. n /\ Cardinality(Used)' = n
      BY <1>4, <2>1
    <3>2. \A c \in Used' \ {b} :
            /\ c \in Used /\ file_name'[c] = file_name[c] /\ lru_counter[c] # n - 1
            /\ lru_counter'[c] = IF lru_counter[c] < n - 1 THEN lru_counter[c] + 1
                                 ELSE lru_counter[c]
      BY <1>3, <1>4, <2>1, <2>3, <2>5
    <3>3. b \in Used' /\ n \in Nat
      BY <1>4, <2>1
    <3> HIDE DEF b, n
    <3>4. Recent' = Abstract!Front(file_name'[b], n, n)
      BY <1>4, <2>5, <3>1, <3>2, <3>3, MovedToFront
    <3> QED BY <1>3, <3>4
  <2> QED BY <1>2, <1>4, <1>6, <2>2, <2>4, <2>6 DEF Abstract!Replace
<1> QED BY <1>5, <1>6

(* For every size and any set of files, the counters alone implement the   *)
(* list: what is evicted is the file that was not asked for the longest    *)
(* (Cache.c:108-135, 174-185).                                             *)
THEOREM CacheIsLru == Spec => ReplacesLeastRecent
<1>1. Init => Abstract!Init
  <2> SUFFICES ASSUME Init PROVE Abstract!Init
    OBVIOUS
  <2>1. Cardinality(Used) = 0
    BY FS_EmptySet DEF Init, Used
  <2>2. Recent = <<>>
    BY <2>1 DEF Recent
  <2> QED BY <2>2 DEF Init, Abstract!Init
<1>2. Inv /\ [Next]_vars => [Abstract!Next]_<<Recent, asked, evicted>>
  <2>1. ASSUME Inv, Next PROVE Abstract!Next
    BY <2>1, HitRefines, AllocateRefines DEF Next, Abstract!Next
  <2>2. ASSUME UNCHANGED vars PROVE UNCHANGED <<Recent, asked, evicted>>
    BY <2>2 DEF vars, Recent, Rank, Used
  <2> QED BY <2>1, <2>2
<1> QED BY <1>1, <1>2, InvInductive, PTL
        DEF Spec, ReplacesLeastRecent, Abstract!Spec
=============================================================================
