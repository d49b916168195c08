------------------------------ MODULE LruCache ------------------------------
(***************************************************************************)
(* The cache of file metadata of the log-structured file system: the       *)
(* blocks of Cache.c the way lfs_fuse.c uses them, one file operation at a *)
(* time.  Look the file up; on a miss take the block that                  *)
(* get_free_cache_block gives, evicting its file if it has one; in both    *)
(* cases tell update_lru.                                                  *)
(*                                                                         *)
(* Replacement is by a counter per block.  No list is kept: that the       *)
(* counters alone come to least-recently-used order is what this module    *)
(* checks, against RecencyList.                                            *)
(***************************************************************************)
EXTENDS Integers, FiniteSets, Sequences

CONSTANTS
  num_blocks,   \* size of the cache
  Files,        \* file names
  NoFile        \* no file

ASSUME SizeAssumption == num_blocks \in Nat \ {0}
ASSUME FilesAssumption == NoFile \notin Files

Blocks == 0 .. num_blocks - 1
NULL == -1

VARIABLES
  file_name,    \* cblocks[i].mdata->file_name
  free_flag,    \* cblocks[i].free_flag
  lru_counter,  \* cblocks[i].lru_counter
  asked,        \* the file of the last request, or NoFile
  evicted       \* the file that this request wrote back, or NoFile

vars == <<file_name, free_flag, lru_counter, asked, evicted>>

(* create_cache and init_cache_block.                                      *)
Init ==
  /\ file_name = [b \in Blocks |-> NoFile]
  /\ free_flag = [b \in Blocks |-> TRUE]
  /\ lru_counter = [b \in Blocks |-> 0]
  /\ asked = NoFile
  /\ evicted = NoFile

First(S) == CHOOSE b \in S : \A c \in S : b <= c

(* Mutant: the search stops one block early.                               *)
find_meta_data_block_Short(f) ==
  LET found == {b \in 0 .. num_blocks - 2 : ~ free_flag[b] /\ file_name[b] = f}
  IN  IF found = {} THEN NULL ELSE First(found)

find_meta_data_block(f) ==
  LET found == {b \in Blocks : ~ free_flag[b] /\ file_name[b] = f}
  IN  IF found = {} THEN NULL ELSE First(found)

(* The first block with the largest counter, free or not.                  *)
Oldest == {b \in Blocks : \A c \in Blocks : lru_counter[c] <= lru_counter[b]}
get_free_cache_block == First(Oldest)

(* Mutants: every other block is incremented; the comparison is strict.    *)
update_lru_All(blk) ==
  lru_counter' = [b \in Blocks |-> IF b = blk THEN 0 ELSE lru_counter[b] + 1]
update_lru_Strict(blk) ==
  lru_counter' = [b \in Blocks |->
    IF b = blk THEN 0
    ELSE IF lru_counter[b] < lru_counter[blk] THEN (lru_counter[b] + 1) % num_blocks
    ELSE lru_counter[b]]

update_lru(blk) ==
  lru_counter' = [b \in Blocks |->
    IF b = blk THEN 0
    ELSE IF lru_counter[b] <= lru_counter[blk] THEN (lru_counter[b] + 1) % num_blocks
    ELSE lru_counter[b]]

(* Mutant: a hit does not count as a use.                                  *)
Hit_NoTouch(f) ==
  /\ find_meta_data_block(f) # NULL
  /\ asked' = f
  /\ evicted' = NoFile
  /\ UNCHANGED <<file_name, free_flag, lru_counter>>

(* lfs_getattr, lfs_read, lfs_write: the file has a block.                 *)
Hit(f) ==
  /\ find_meta_data_block(f) # NULL
  /\ update_lru(find_meta_data_block(f))
  /\ asked' = f
  /\ evicted' = NoFile
  /\ UNCHANGED <<file_name, free_flag>>

(* The file has none: lfs_mknod makes it (the kernel asked lfs_getattr     *)
(* first, so it does not exist), mdata_from_disk_to_memory reads it back.  *)
Allocate(f) ==
  LET b == get_free_cache_block
  IN  /\ find_meta_data_block(f) = NULL
      /\ asked' = f
      /\ evicted' = IF free_flag[b] THEN NoFile ELSE file_name[b]
      /\ free_flag' = [free_flag EXCEPT ![b] = FALSE]
      /\ file_name' = [file_name EXCEPT ![b] = f]
      /\ update_lru(b)

Next == \E f \in Files : Hit(f) \/ Allocate(f)

Spec == Init /\ [][Next]_vars

-----------------------------------------------------------------------------
(* The types of the blocks' fields.                                        *)
TypeOK ==
  /\ file_name \in [Blocks -> Files \cup {NoFile}]
  /\ free_flag \in [Blocks -> BOOLEAN]
  /\ lru_counter \in [Blocks -> Blocks]
  /\ asked \in Files \cup {NoFile}
  /\ evicted \in Files \cup {NoFile}

Used == {b \in Blocks : ~ free_flag[b]}

(* The counters of the blocks in use are their ranks by last use, each     *)
(* rank once, and every free block counts as older than all of them.  So   *)
(* the increment modulo num_blocks never wraps a block round to "just      *)
(* used", and a free block is taken before one is evicted                  *)
(* (Cache.c:108-135, 174-185).                                             *)
CountersAreRanks ==
  /\ \A b, c \in Used : lru_counter[b] = lru_counter[c] => b = c
  /\ \A b \in Used : lru_counter[b] < Cardinality(Used)
  /\ \A b \in Blocks \ Used : lru_counter[b] = Cardinality(Used)

(* A file never has two blocks: two copies of its metadata would diverge   *)
(* (Cache.c:156-172).                                                      *)
OneBlockPerFile == \A b, c \in Used : file_name[b] = file_name[c] => b = c

(* The cache holds the files asked for last, and what it evicts is the one *)
(* that was not asked for the longest: get_free_cache_block and update_lru *)
(* implement the list of RecencyList with nothing but counters             *)
(* (Cache.c:108-135, 174-185).                                             *)
Rank(j) == CHOOSE b \in Used : lru_counter[b] = j - 1
Recent == [j \in 1 .. Cardinality(Used) |-> file_name[Rank(j)]]
Abstract == INSTANCE RecencyList WITH recent <- Recent, Size <- num_blocks
ReplacesLeastRecent == Abstract!Spec
=============================================================================
