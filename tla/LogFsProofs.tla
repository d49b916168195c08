----------------------------- MODULE LogFsProofs -----------------------------
(***************************************************************************)
(* Theorems about the log file system, for any number of files, blocks and *)
(* writes.                                                                 *)
(*                                                                         *)
(* Between requests a metadata block equals its file, and every buffer in  *)
(* use points to a block of its own.  Inside lfs_write there is at most    *)
(* one block ahead of its file, that of the buffer being written to disk,  *)
(* and at most one buffer that update_lru has not seen yet.                *)
(*                                                                         *)
(* A second invariant, at the end, follows the records: until a crash each *)
(* complete one is in a chunk, ends a line of a buffer, or belongs to the  *)
(* write in progress, and every chunk is listed by a file or by metadata   *)
(* that is about to be saved.                                              *)
(*                                                                         *)
(* A third counts the bytes: until a crash the chunks that a file lists    *)
(* are its own, none is listed twice, and the size of the file, as it is   *)
(* or as it is about to be saved, is the sum of their lengths.             *)
(***************************************************************************)
EXTENDS LogFs, Minimum, FiniteSetTheorems, SequenceTheorems

(* What is known of the two caches as instances of LruCache.               *)
MetaCache == INSTANCE LruCacheProofs WITH
  num_blocks <- MetaBlocks, file_name <- mname, free_flag <- mfree,
  lru_counter <- mlru, asked <- NoFile, evicted <- NoFile
BufCache == INSTANCE LruCacheProofs WITH
  num_blocks <- BufBlocks, file_name <- BufferName, free_flag <- bfree,
  lru_counter <- blru, asked <- NoFile, evicted <- NoFile
(* The same without the buffer that was taken for the write in progress.   *)
FreshCache == INSTANCE LruCacheProofs WITH
  num_blocks <- BufBlocks, file_name <- BufferName,
  free_flag <- [bfree EXCEPT ![op.b] = TRUE],
  lru_counter <- blru, asked <- NoFile, evicted <- NoFile

Labels ==
  {"idle", "buffer", "evict", "evict_meta", "full", "full_meta", "append",
   "aborted", "overflow"}

(* The metadata: its paths lead to chunks.                                 *)
Data == [paths : Seq(DOMAIN chunks), size : Nat \cup {-1}]
Tokenized == (Files \X Records) \cup {NL}

Typed ==
  /\ mfile \in [Files -> Data] /\ mdata \in [Metas -> Data]
  /\ mname \in [Metas -> Files \cup {NoFile}] /\ mfree \in [Metas -> BOOLEAN]
  /\ mlru \in [Metas -> Metas]
  /\ bmdata \in [Bufs -> Metas \cup {NULL}] /\ bfree \in [Bufs -> BOOLEAN]
  /\ blru \in [Bufs -> Bufs]
  /\ buf \in [Bufs -> Seq(Tokenized)] /\ offset \in [Bufs -> Nat]
  /\ \A b \in Bufs : offset[b] = Len(buf[b]) /\ offset[b] <= BlockSize
  /\ op \in [pc : Labels, file : Files \cup {NoFile}, text : Texts \cup {<<>>},
             m : Metas \cup {NULL}, b : Bufs \cup {NULL}, start : Nat]

(* The metadata cache: a block in use holds a file that exists.            *)
MetaInv ==
  /\ MetaCache!CountersAreRanks /\ MetaCache!OneBlockPerFile
  /\ \A m \in UsedMetas : mname[m] \in Files /\ mfile[mname[m]] # NoData

(* Where lfs_write is.                                                     *)
Writing == {"buffer", "evict", "evict_meta", "full", "full_meta", "append"}
Saving == {"evict", "evict_meta", "full", "full_meta"}

OpInv ==
  /\ op.pc = "idle" => op = Idle
  /\ op.pc \in Writing =>
       /\ op.file \in Files /\ op.text \in Texts
       /\ op.m \in UsedMetas /\ mname[op.m] = op.file
  /\ op.pc \in Writing \ {"buffer"} => op.b \in UsedBufs
  /\ op.pc \in {"full", "full_meta", "append"} => bmdata[op.b] = op.m
  /\ op.pc \in {"evict", "evict_meta"} => \A b \in UsedBufs : bmdata[b] # op.m

(* The buffers: each in use has a metadata block of its own.               *)
BufInv ==
  /\ \A b \in UsedBufs : bmdata[b] \in UsedMetas
  /\ \A b, c \in UsedBufs : bmdata[b] = bmdata[c] => b = c
  /\ \A b \in Bufs \ UsedBufs : offset[b] = 0

(* The counters of the buffers are ranks, but for one just taken.          *)
RanksOf(U) ==
  /\ \A b, c \in U : blru[b] = blru[c] => b = c
  /\ \A b \in U : blru[b] < Cardinality(U)
  /\ \A b \in Bufs \ U : blru[b] = Cardinality(U)

BufRanks ==
  op.pc # "overflow" =>
    RanksOf(UsedBufs) \/ (op.pc = "append" /\ RanksOf(UsedBufs \ {op.b}))

(* The block of the buffer that is being written to disk is ahead of its   *)
(* file; all others equal theirs.                                          *)
GrownFrom(d, e) ==
  /\ e.size <= d.size /\ Len(e.paths) <= Len(d.paths)
  /\ \A j \in 1 .. Len(e.paths) : e.paths[j] = d.paths[j]

DiskInv ==
  \A m \in UsedMetas :
    IF op.pc \in Saving /\ bmdata[op.b] = m
    THEN GrownFrom(mdata[m], mfile[mname[m]])
    ELSE mdata[m] = mfile[mname[m]]

Inv == Typed /\ MetaInv /\ OpInv /\ BufInv /\ BufRanks /\ DiskInv

-----------------------------------------------------------------------------
(* The caches as the proofs about them see them.                           *)
LEMMA CacheSets ==
  /\ MetaCache!Blocks = Metas /\ MetaCache!Used = UsedMetas
  /\ BufCache!Blocks = Bufs /\ BufCache!Used = UsedBufs
  /\ UsedMetas \subseteq Metas /\ UsedBufs \subseteq Bufs
BY DEF MetaCache!Blocks, MetaCache!Used, BufCache!Blocks, BufCache!Used,
       Metas, Bufs, UsedMetas, UsedBufs

LEMMA CacheOperators ==
  /\ \A m : Meta!update_lru(m) <=> MetaCache!update_lru(m)
  /\ \A b : Buf!update_lru(b) <=> BufCache!update_lru(b)
  /\ \A f : Meta!find_meta_data_block(f) = MetaCache!find_meta_data_block(f)
  /\ \A f : Buf!find_meta_data_block(f) = BufCache!find_meta_data_block(f)
  /\ Meta!get_free_cache_block = MetaCache!get_free_cache_block
  /\ Buf!get_free_cache_block = BufCache!get_free_cache_block
BY DEF Meta!update_lru, MetaCache!update_lru, Meta!Blocks, MetaCache!Blocks,
       Buf!update_lru, BufCache!update_lru, Buf!Blocks, BufCache!Blocks,
       Meta!find_meta_data_block, MetaCache!find_meta_data_block,
       Buf!find_meta_data_block, BufCache!find_meta_data_block,
       Meta!First, MetaCache!First, Buf!First, BufCache!First,
       Meta!NULL, MetaCache!NULL, Buf!NULL, BufCache!NULL,
       Meta!get_free_cache_block, MetaCache!get_free_cache_block,
       Buf!get_free_cache_block, BufCache!get_free_cache_block,
       Meta!Oldest, MetaCache!Oldest, Buf!Oldest, BufCache!Oldest

LEMMA CacheCounts ==
  \A S : /\ Meta!Cardinality(S) = Cardinality(S)
         /\ MetaCache!Cardinality(S) = Cardinality(S)
         /\ Buf!Cardinality(S) = Cardinality(S)
         /\ BufCache!Cardinality(S) = Cardinality(S)
BY Zenon DEF Cardinality, Meta!Cardinality, MetaCache!Cardinality,
       Buf!Cardinality, BufCache!Cardinality

(* What a search finds, in any state.                                      *)
FoundMeta ==
  \A f : \/ /\ Meta!find_meta_data_block(f) = NULL
            /\ \A m \in UsedMetas : mname[m] # f
         \/ /\ Meta!find_meta_data_block(f) \in UsedMetas
            /\ mname[Meta!find_meta_data_block(f)] = f

LEMMA FindMeta == FoundMeta
<1> SUFFICES ASSUME NEW f
             PROVE  \/ /\ Meta!find_meta_data_block(f) = NULL
                       /\ \A m \in UsedMetas : mname[m] # f
                    \/ /\ Meta!find_meta_data_block(f) \in UsedMetas
                       /\ mname[Meta!find_meta_data_block(f)] = f
  BY DEF FoundMeta
<1>1. \/ /\ MetaCache!find_meta_data_block(f) = MetaCache!NULL
         /\ \A m \in MetaCache!Used : mname[m] # f
      \/ /\ MetaCache!find_meta_data_block(f) \in MetaCache!Used
         /\ mname[MetaCache!find_meta_data_block(f)] = f
  BY MetaCache!FindBlock, BlocksAssumption, FilesAssumption
<1>2. MetaCache!NULL = NULL
  BY DEF MetaCache!NULL, NULL
<1> QED BY <1>1, <1>2, CacheSets, CacheOperators

FoundBuf ==
  \A f : \/ /\ Buf!find_meta_data_block(f) = NULL
            /\ \A b \in UsedBufs : BufferName[b] # f
         \/ /\ Buf!find_meta_data_block(f) \in UsedBufs
            /\ BufferName[Buf!find_meta_data_block(f)] = f

LEMMA FindBuf == FoundBuf
<1> SUFFICES ASSUME NEW f
             PROVE  \/ /\ Buf!find_meta_data_block(f) = NULL
                       /\ \A b \in UsedBufs : BufferName[b] # f
                    \/ /\ Buf!find_meta_data_block(f) \in UsedBufs
                       /\ BufferName[Buf!find_meta_data_block(f)] = f
  BY DEF FoundBuf
<1>1. \/ /\ BufCache!find_meta_data_block(f) = BufCache!NULL
         /\ \A b \in BufCache!Used : BufferName[b] # f
      \/ /\ BufCache!find_meta_data_block(f) \in BufCache!Used
         /\ BufferName[BufCache!find_meta_data_block(f)] = f
  BY BufCache!FindBlock, BlocksAssumption, FilesAssumption
<1>2. BufCache!NULL = NULL
  BY DEF BufCache!NULL, NULL
<1> QED BY <1>1, <1>2, CacheSets, CacheOperators

LEMMA FoundNext == FoundMeta' /\ FoundBuf'
BY FindMeta, FindBuf, PTL

(* The caches satisfy the invariant of LruCacheProofs.                     *)
LEMMA MetaSound ==
  ASSUME Typed, MetaInv
  PROVE  MetaCache!Inv
BY CacheSets DEF Typed, MetaInv, MetaCache!Inv, MetaCache!TypeOK

LEMMA BufferNames ==
  ASSUME Typed
  PROVE  /\ BufferName \in [Bufs -> Files \cup {NoFile}]
         /\ \A b \in UsedBufs : bmdata[b] \in Metas => BufferName[b] = mname[bmdata[b]]
<1>1. \A b \in Bufs : bmdata[b] # NULL => bmdata[b] \in Metas
  BY DEF Typed
<1>2. \A m \in Metas : mname[m] \in Files \cup {NoFile} /\ m # NULL
  BY BlocksAssumption DEF Typed, Metas, NULL
<1> QED BY <1>1, <1>2, CacheSets DEF BufferName

LEMMA BufSound ==
  ASSUME Typed, MetaInv, BufInv, RanksOf(UsedBufs)
  PROVE  BufCache!Inv
<1>1. BufCache!TypeOK
  BY BufferNames, CacheSets DEF Typed, BufCache!TypeOK
<1>2. BufCache!CountersAreRanks
  BY CacheSets, CacheCounts DEF RanksOf, BufCache!CountersAreRanks
<1>3. BufCache!OneBlockPerFile
  <2> SUFFICES ASSUME NEW b \in UsedBufs, NEW c \in UsedBufs, BufferName[b] = BufferName[c]
               PROVE  b = c
    BY CacheSets DEF BufCache!OneBlockPerFile
  <2>1. bmdata[b] \in UsedMetas /\ bmdata[c] \in UsedMetas
    BY DEF BufInv
  <2>2. mname[bmdata[b]] = mname[bmdata[c]]
    BY <2>1, BufferNames, CacheSets
  <2>3. bmdata[b] = bmdata[c]
    BY <2>1, <2>2, CacheSets DEF MetaInv, MetaCache!OneBlockPerFile
  <2> QED BY <2>3 DEF BufInv
<1> QED BY <1>1, <1>2, <1>3 DEF BufCache!Inv

(* get_free_cache_block gives a block.                                     *)
LEMMA FreeBlocks ==
  ASSUME Typed, MetaInv
  PROVE  /\ Meta!get_free_cache_block \in Metas
         /\ Buf!get_free_cache_block \in Bufs
<1>1. MetaCache!TypeOK
  BY CacheSets DEF Typed, MetaCache!TypeOK
<1>2. BufCache!TypeOK
  BY BufferNames, CacheSets DEF Typed, BufCache!TypeOK
<1>3. MetaCache!get_free_cache_block \in MetaCache!Oldest
  BY <1>1, MetaCache!OldestBlock, BlocksAssumption, FilesAssumption
<1>4. BufCache!get_free_cache_block \in BufCache!Oldest
  BY <1>2, BufCache!OldestBlock, BlocksAssumption, FilesAssumption
<1> QED BY <1>3, <1>4, CacheSets, CacheOperators DEF MetaCache!Oldest, BufCache!Oldest

(* The use of a block of either cache.                                     *)
LEMMA UseMeta ==
  ASSUME Typed, MetaInv, NEW m \in Metas, Meta!update_lru(m), UsedMetas' = UsedMetas \cup {m}
  PROVE  mlru' \in [Metas -> Metas] /\ MetaCache!CountersAreRanks'
<1>1. MetaCache!Inv
  BY MetaSound
<1>2. m \in MetaCache!Blocks /\ MetaCache!update_lru(m)
  BY CacheSets, CacheOperators
<1>3. MetaCache!Used' = MetaCache!Used \cup {m}
  BY CacheSets DEF MetaCache!Used, UsedMetas, MetaCache!Blocks, Metas
<1>4. mlru' \in [MetaCache!Blocks -> MetaCache!Blocks] /\ MetaCache!CountersAreRanks'
  BY <1>1, <1>2, <1>3, MetaCache!UseBlock, BlocksAssumption, FilesAssumption
<1> QED BY <1>4, CacheSets

(* How a file's metadata is reached, between requests: no metadata file    *)
(* changes, because a block that is written back equals its file.          *)
LEMMA GetsMetadata ==
  ASSUME Inv, NEW f \in Files, GetMetadata(f)
  PROVE  /\ op = Idle /\ mfile' = mfile /\ mfile[f] # NoData
         /\ mname' \in [Metas -> Files \cup {NoFile}]
         /\ mdata' \in [Metas -> Data] /\ mfree' \in [Metas -> BOOLEAN]
         /\ mlru' \in [Metas -> Metas]
         /\ MetaInv'
         /\ UsedMetas \subseteq UsedMetas'
         /\ Meta!find_meta_data_block(f)' \in UsedMetas'
         /\ mname'[Meta!find_meta_data_block(f)'] = f
         /\ \A m \in UsedMetas' : mdata'[m] = mfile'[mname'[m]]
<1> USE DEF Inv
<1>1. op = Idle /\ mfile[f] # NoData
  BY DEF GetMetadata
<1>2. \A m \in UsedMetas : mdata[m] = mfile[mname[m]]
  BY <1>1 DEF DiskInv, Idle, Saving
<1>3. PICK b \in Metas :
        /\ Meta!update_lru(b)
        /\ mfree' = [mfree EXCEPT ![b] = FALSE]
        /\ mname' = [mname EXCEPT ![b] = f]
        /\ mdata' = [mdata EXCEPT ![b] = mfile[f]]
        /\ mfile' = mfile
        /\ \A m \in UsedMetas : mname[m] = f => m = b
  <2>1. CASE Meta!find_meta_data_block(f) # NULL
    <3> DEFINE b == Meta!find_meta_data_block(f)
    <3>1. b \in UsedMetas /\ mname[b] = f /\ b \in Metas
      BY <2>1, FindMeta, CacheSets DEF FoundMeta
    <3>2. Meta!update_lru(b) /\ UNCHANGED <<mfile, mname, mdata, mfree>>
      BY <2>1 DEF GetMetadata
    <3>3. mfree[b] = FALSE /\ mdata[b] = mfile[f]
      BY <1>2, <3>1 DEF UsedMetas, Typed
    <3>4. \A m \in UsedMetas : mname[m] = f => m = b
      BY <3>1, CacheSets DEF MetaInv, MetaCache!OneBlockPerFile
    <3>5. /\ mfree' = [mfree EXCEPT ![b] = FALSE]
          /\ mname' = [mname EXCEPT ![b] = f]
          /\ mdata' = [mdata EXCEPT ![b] = mfile[f]]
      BY <3>1, <3>2, <3>3 DEF Typed
    <3> QED BY <3>1, <3>2, <3>4, <3>5
  <2>2. CASE Meta!find_meta_data_block(f) = NULL
    <3> DEFINE b == Meta!get_free_cache_block
    <3>1. b \in Metas
      BY FreeBlocks
    <3>2. mdata_from_disk_to_memory(f)
      BY <2>2 DEF GetMetadata
    <3>3. /\ IF mfree[b] THEN UNCHANGED mfile ELSE write_metadata_to_disk(b)
          /\ mname' = [mname EXCEPT ![b] = f]
          /\ mdata' = [mdata EXCEPT ![b] = mfile[f]]
          /\ mfree' = [mfree EXCEPT ![b] = FALSE]
          /\ Meta!update_lru(b)
      BY <3>2 DEF mdata_from_disk_to_memory
    <3>4. mfile' = mfile
      <4>1. CASE mfree[b]
        BY <3>3, <4>1
      <4>2. CASE ~ mfree[b]
        <5>1. b \in UsedMetas
          BY <3>1, <4>2 DEF UsedMetas
        <5>2. mfile' = [mfile EXCEPT ![mname[b]] = mfile[mname[b]]]
          BY <1>2, <3>3, <4>2, <5>1 DEF write_metadata_to_disk
        <5> QED BY <5>2 DEF Typed
      <4> QED BY <4>1, <4>2
    <3>5. \A m \in UsedMetas : mname[m] # f
      <4>1. \A m \in UsedMetas : m # NULL
        BY BlocksAssumption DEF UsedMetas, Metas, NULL
      <4> QED BY <2>2, <4>1, FindMeta DEF FoundMeta
    <3> QED BY <3>1, <3>3, <3>4, <3>5
  <2> QED BY <2>1, <2>2
<1>4. UsedMetas' = UsedMetas \cup {b}
  BY <1>3 DEF UsedMetas, Typed
<1>5. /\ mname' \in [Metas -> Files \cup {NoFile}]
      /\ mdata' \in [Metas -> Data] /\ mfree' \in [Metas -> BOOLEAN]
  BY <1>3 DEF Typed
<1>6. mlru' \in [Metas -> Metas] /\ MetaCache!CountersAreRanks'
  BY <1>3, <1>4, UseMeta
<1>7. /\ mname'[b] = f /\ mdata'[b] = mfile[f]
      /\ \A m \in Metas \ {b} : mname'[m] = mname[m] /\ mdata'[m] = mdata[m]
  BY <1>3 DEF Typed
<1>8. \A m \in UsedMetas' : mdata'[m] = mfile'[mname'[m]] /\ mname'[m] \in Files
                            /\ mfile'[mname'[m]] # NoData
  BY <1>1, <1>2, <1>3, <1>4, <1>7, CacheSets DEF MetaInv
<1>9. \A m, n \in UsedMetas' : mname'[m] = mname'[n] => m = n
  BY <1>3, <1>4, <1>7, CacheSets DEF MetaInv, MetaCache!OneBlockPerFile
<1>10. MetaCache!OneBlockPerFile'
  <2>1. MetaCache!Used' = UsedMetas'
    BY DEF MetaCache!Used, MetaCache!Blocks, UsedMetas, Metas
  <2> QED BY <1>9, <2>1 DEF MetaCache!OneBlockPerFile
<1>11. MetaInv'
  BY <1>6, <1>8, <1>10 DEF MetaInv
<1>12. /\ Meta!find_meta_data_block(f)' \in UsedMetas'
       /\ mname'[Meta!find_meta_data_block(f)'] = f
  <2>1. b \in UsedMetas'
    BY <1>4
  <2> QED BY <1>7, <2>1, FoundNext DEF FoundMeta
<1> QED BY <1>1, <1>3, <1>4, <1>5, <1>6, <1>8, <1>11, <1>12

-----------------------------------------------------------------------------
(* Each step keeps Inv.                                                    *)
Ops == [pc : Labels, file : Files \cup {NoFile}, text : Texts \cup {<<>>},
        m : Metas \cup {NULL}, b : Bufs \cup {NULL}, start : Nat]

LEMMA IdleIsOp == Idle \in Ops /\ Ops = Ops'
BY DEF Ops, Idle, Labels

LEMMA IdleRanks ==
  ASSUME Inv, op = Idle
  PROVE  RanksOf(UsedBufs) /\ \A m \in UsedMetas : mdata[m] = mfile[mname[m]]
BY DEF Inv, BufRanks, DiskInv, Idle, Saving

(* The metadata of a file was reached; the buffers are still the same.     *)
LEMMA Reached ==
  ASSUME Inv, NEW f \in Files, GetMetadata(f),
         UNCHANGED <<chunks, bmdata, bfree, buf, offset>>,
         blru' \in [Bufs -> Bufs], RanksOf(UsedBufs)',
         op' \in Ops, op'.pc \in {"idle", "buffer"}, OpInv'
  PROVE  Inv'
<1> USE DEF Inv
<1>1. Typed'
  BY GetsMetadata DEF Typed, Data, Ops
<1>2. MetaInv'
  BY GetsMetadata
<1>3. BufInv'
  BY GetsMetadata DEF BufInv, UsedBufs
<1>4. BufRanks'
  BY DEF BufRanks
<1>5. DiskInv'
  <2>1. \A m \in UsedMetas' : mdata'[m] = mfile'[mname'[m]]
    BY GetsMetadata
  <2> QED BY <2>1 DEF DiskInv, Saving
<1> QED BY <1>1, <1>2, <1>3, <1>4, <1>5

LEMMA ReadStep ==
  ASSUME Inv, NEW f \in Files, lfs_read(f)
  PROVE  Inv'
<1>1. GetMetadata(f) /\ UNCHANGED <<chunks, buffers, op>>
  BY DEF lfs_read
<1>2. op = Idle /\ op' = Idle
  BY <1>1, GetsMetadata
<1>3. blru' \in [Bufs -> Bufs] /\ RanksOf(UsedBufs)'
  BY <1>1, <1>2, IdleRanks DEF buffers, Inv, Typed, RanksOf, UsedBufs
<1>4. op' \in Ops /\ op'.pc = "idle" /\ OpInv'
  BY <1>2, IdleIsOp DEF Idle, OpInv, Writing
<1> QED BY <1>1, <1>3, <1>4, Reached DEF buffers

LEMMA GetattrStep ==
  ASSUME Inv, NEW f \in Files, lfs_getattr(f)
  PROVE  Inv'
<1> DEFINE b == Buf!find_meta_data_block(f)'
<1>1. /\ GetMetadata(f) /\ UNCHANGED <<chunks, bmdata, bfree, buf, offset, op>>
      /\ IF b = NULL THEN UNCHANGED blru ELSE Buf!update_lru(b)
  BY DEF lfs_getattr
<1>2. op = Idle /\ op' = Idle
  BY <1>1, GetsMetadata
<1>3. UsedBufs' = UsedBufs /\ RanksOf(UsedBufs)
  BY <1>1, <1>2, IdleRanks DEF UsedBufs
<1>4. blru' \in [Bufs -> Bufs] /\ RanksOf(UsedBufs)'
  <2>1. CASE b = NULL
    <3>1. blru' = blru
      BY <1>1, <2>1
    <3> QED BY <1>3, <3>1 DEF Inv, Typed, RanksOf
  <2>2. CASE b # NULL
    <3>1. b \in UsedBufs /\ Buf!update_lru(b)
      BY <1>1, <1>3, <2>2, FoundNext DEF FoundBuf
    <3> HIDE DEF b
    <3>2. BufCache!Inv /\ b \in BufCache!Used /\ BufCache!update_lru(b)
      BY <1>3, <3>1, BufSound, CacheSets, CacheOperators DEF Inv
    <3>3. /\ blru' \in [Bufs -> Bufs]
          /\ \A c, d \in UsedBufs : blru'[c] = blru'[d] => c = d
          /\ \A c \in UsedBufs : blru'[c] < Cardinality(UsedBufs)
          /\ \A c \in Bufs \ UsedBufs : blru'[c] = Cardinality(UsedBufs)
      BY <3>2, BufCache!TouchUsed, BlocksAssumption, FilesAssumption, CacheSets, CacheCounts
    <3> QED BY <1>3, <3>3 DEF RanksOf
  <2> QED BY <2>1, <2>2
<1>5. op' \in Ops /\ op'.pc = "idle" /\ OpInv'
  BY <1>2, IdleIsOp DEF Idle, OpInv, Writing
<1> QED BY <1>1, <1>4, <1>5, Reached

LEMMA WriteStep ==
  ASSUME Inv, NEW f \in Files, NEW text \in Texts, lfs_write(f, text)
  PROVE  Inv'
<1>1. /\ GetMetadata(f) /\ UNCHANGED <<chunks, buffers>>
      /\ op' = [Idle EXCEPT !.pc = "buffer", !.file = f, !.text = text,
                            !.m = Meta!find_meta_data_block(f)']
  BY DEF lfs_write
<1>2. op = Idle
  BY <1>1, GetsMetadata
<1>3. blru' \in [Bufs -> Bufs] /\ RanksOf(UsedBufs)'
  BY <1>1, <1>2, IdleRanks DEF buffers, Inv, Typed, RanksOf, UsedBufs
<1>4. PICK m \in UsedMetas' :
        m \in Metas /\ mname'[m] = f /\ m = Meta!find_meta_data_block(f)'
  <2>1. UsedMetas' \subseteq Metas
    BY DEF UsedMetas, Metas
  <2> QED BY <1>1, <2>1, GetsMetadata
<1>5. /\ op'.pc = "buffer" /\ op'.file = f /\ op'.text = text /\ op'.m = m
      /\ op' = [pc |-> "buffer", file |-> f, text |-> text, m |-> m, b |-> NULL,
                start |-> 0]
  BY <1>1, <1>4 DEF Idle
<1>6. op' \in Ops
  <2>1. "buffer" \in Labels /\ m \in Metas \cup {NULL} /\ NULL \in Bufs \cup {NULL}
    BY <1>4 DEF Labels
  <2> QED BY <1>5, <2>1 DEF Ops
<1>7. OpInv'
  BY <1>4, <1>5 DEF OpInv, Writing
<1> QED BY <1>1, <1>3, <1>5, <1>6, <1>7, Reached DEF buffers

LEMMA MknodStep ==
  ASSUME Inv, NEW f \in Files, lfs_mknod(f)
  PROVE  Inv'
<1> USE DEF Inv
<1> DEFINE b == Meta!get_free_cache_block
<1>1. /\ op = Idle /\ mfile[f] = NoData
      /\ mname' = [mname EXCEPT ![b] = f]
      /\ mdata' = [mdata EXCEPT ![b] = NewData]
      /\ mfree' = [mfree EXCEPT ![b] = FALSE]
      /\ Meta!update_lru(b)
      /\ mfile' = [mfile EXCEPT ![f] = NewData]
      /\ UNCHANGED <<chunks, buffers, op>>
  BY DEF lfs_mknod
<1>2. b \in Metas
  BY FreeBlocks
<1> HIDE DEF b
<1>3. UsedMetas' = UsedMetas \cup {b}
  BY <1>1, <1>2 DEF UsedMetas, Typed
<1>4. /\ \A m \in UsedMetas : mname[m] # f /\ mname[m] \in Files
      /\ \A m \in UsedMetas : mdata[m] = mfile[mname[m]]
  BY <1>1, IdleRanks DEF MetaInv
<1>5. NewData \in Data /\ NewData # NoData
  BY EmptySeq DEF NewData, NoData, Data
<1>6. Typed'
  <2>1. mlru' \in [Metas -> Metas]
    BY <1>1, <1>2, <1>3, UseMeta
  <2>2. /\ mfile' \in [Files -> Data] /\ mdata' \in [Metas -> Data]
        /\ mname' \in [Metas -> Files \cup {NoFile}] /\ mfree' \in [Metas -> BOOLEAN]
    BY <1>1, <1>2, <1>5 DEF Typed
  <2> QED BY <1>1, <2>1, <2>2 DEF Typed, Data, buffers
<1>7. /\ mname'[b] = f /\ mdata'[b] = NewData /\ mfile'[f] = NewData
      /\ \A m \in Metas \ {b} : mname'[m] = mname[m] /\ mdata'[m] = mdata[m]
      /\ \A g \in Files \ {f} : mfile'[g] = mfile[g]
  BY <1>1, <1>2 DEF Typed
<1>8. \A m \in UsedMetas' : /\ mdata'[m] = mfile'[mname'[m]]
                            /\ mname'[m] \in Files /\ mfile'[mname'[m]] # NoData
  BY <1>3, <1>4, <1>5, <1>7, CacheSets DEF MetaInv
<1>9. MetaInv'
  <2>1. \A m, n \in UsedMetas' : mname'[m] = mname'[n] => m = n
    BY <1>3, <1>4, <1>7, CacheSets DEF MetaInv, MetaCache!OneBlockPerFile
  <2>2. MetaCache!Used' = UsedMetas'
    BY DEF MetaCache!Used, MetaCache!Blocks, UsedMetas, Metas
  <2>3. MetaCache!CountersAreRanks'
    BY <1>1, <1>2, <1>3, UseMeta
  <2> QED BY <1>8, <2>1, <2>2, <2>3 DEF MetaInv, MetaCache!OneBlockPerFile
<1>10. BufInv'
  BY <1>1, <1>3 DEF BufInv, buffers, UsedBufs
<1>11. OpInv' /\ BufRanks'
  BY <1>1, IdleRanks DEF OpInv, BufRanks, RanksOf, UsedBufs, buffers, Writing, Idle
<1>12. DiskInv'
  BY <1>1, <1>8 DEF DiskInv, Idle, Saving
<1> QED BY <1>6, <1>9, <1>10, <1>11, <1>12

(* A start finds the metadata files and the chunks and nothing else.       *)
LEMMA Started ==
  ASSUME mfile' \in [Files -> Data], UNCHANGED chunks, LoseMemory,
         op' \in Ops, op'.pc \in {"idle", "aborted"}, op'.pc = "idle" => op' = Idle
  PROVE  Inv'
<1>1. UsedMetas' = {} /\ UsedBufs' = {}
  BY DEF LoseMemory, UsedMetas, UsedBufs
<1>2. 0 \in Metas /\ 0 \in Bufs
  BY BlocksAssumption DEF Metas, Bufs
<1>3. Typed'
  <2>1. NoData \in Data /\ <<>> \in Seq(Tokenized) /\ Len(<<>>) = 0 /\ 0 <= BlockSize
    BY BlocksAssumption, EmptySeq DEF NoData, Data
  <2> QED BY <1>2, <2>1 DEF LoseMemory, Typed, Data, Ops
<1>4. MetaInv'
  <2>1. MetaCache!Used' = {}
    BY <1>1 DEF MetaCache!Used, MetaCache!Blocks, UsedMetas, Metas
  <2>2. MetaCache!Cardinality(MetaCache!Used)' = 0
    <3>1. Cardinality({}) = 0
      BY FS_EmptySet
    <3>2. MetaCache!Cardinality({}) = 0
      BY <3>1, CacheCounts
    <3> QED BY <2>1, <3>2
  <2>3. \A m \in Metas : mlru'[m] = 0
    BY DEF LoseMemory
  <2>4. MetaCache!CountersAreRanks'
    BY <2>1, <2>2, <2>3 DEF MetaCache!CountersAreRanks, MetaCache!Blocks, Metas
  <2> QED BY <1>1, <2>1, <2>4 DEF MetaInv, MetaCache!OneBlockPerFile
<1>5. BufInv'
  BY <1>1 DEF BufInv, LoseMemory
<1>6. BufRanks'
  <2>1. Cardinality(UsedBufs)' = 0
    BY <1>1, FS_EmptySet
  <2>2. \A b \in Bufs : blru'[b] = 0
    BY DEF LoseMemory
  <2>3. RanksOf(UsedBufs)'
    BY <1>1, <2>1, <2>2 DEF RanksOf
  <2> QED BY <2>3 DEF BufRanks
<1>7. OpInv' /\ DiskInv'
  BY <1>1 DEF OpInv, DiskInv, Writing
<1> QED BY <1>3, <1>4, <1>5, <1>6, <1>7 DEF Inv

(* What a failed assert leaves: the write back wrote what was there.       *)
LEMMA ParseFailsKeeps ==
  ASSUME Inv, NEW f \in Files, ParseFails(f)
  PROVE  mfile' = mfile
<1> DEFINE b == Meta!get_free_cache_block
<1>1. /\ op = Idle
      /\ IF mfree[b] THEN UNCHANGED mfile ELSE write_metadata_to_disk(b)
  BY DEF ParseFails
<1>2. CASE ~ mfree[b]
  <2>1. b \in UsedMetas
    BY <1>2, FreeBlocks DEF UsedMetas, Inv
  <2>2. mdata[b] = mfile[mname[b]]
    BY <1>1, <2>1, IdleRanks
  <2>3. mfile' = [mfile EXCEPT ![mname[b]] = mfile[mname[b]]]
    BY <1>1, <1>2, <2>2 DEF write_metadata_to_disk
  <2> QED BY <2>3 DEF Inv, Typed
<1> QED BY <1>1, <1>2

LEMMA ParseFailsStep ==
  ASSUME Inv, NEW f \in Files, ParseFails(f)
  PROVE  Inv'
<1>1. /\ LoseMemory /\ UNCHANGED chunks
      /\ op' = [Idle EXCEPT !.pc = "aborted"]
  BY DEF ParseFails
<1>2. op'.pc = "aborted" /\ op' \in Ops
  BY <1>1, IdleIsOp DEF Ops, Labels
<1>3. mfile' \in [Files -> Data]
  BY ParseFailsKeeps DEF Inv, Typed
<1> QED BY <1>1, <1>2, <1>3, Started

LEMMA RestartStep ==
  ASSUME Inv, Restart
  PROVE  Inv'
<1>1. op' \in Ops /\ op'.pc = "idle"
  BY IdleIsOp DEF Restart, Idle
<1> QED BY <1>1, Started DEF Restart, disk, Inv, Typed

(* What GrownFrom orders: it only adds.                                    *)
LEMMA Grown ==
  ASSUME NEW d \in Data
  PROVE  /\ GrownFrom(d, d)
         /\ \A e \in Data : GrownFrom(d, e) /\ e # NoData => d # NoData
<1>1. d.size \in Int /\ d.paths \in Seq(DOMAIN chunks) /\ Len(d.paths) \in Nat
  BY LenProperties DEF Data
<1>2. GrownFrom(d, d)
  BY <1>1 DEF GrownFrom
<1>3. ASSUME NEW e \in Data, GrownFrom(d, e), d = NoData
      PROVE  e = NoData
  <2>1. e.size <= -1 /\ Len(e.paths) <= 0
    BY <1>3, EmptySeq DEF GrownFrom, NoData
  <2>2. e.size = -1 /\ e.paths = <<>>
    <3>1. e.size \in Nat \cup {-1} /\ e.paths \in Seq(DOMAIN chunks)
      BY DEF Data
    <3>2. Len(e.paths) = 0
      BY <2>1, <3>1, LenProperties
    <3> QED BY <2>1, <3>1, <3>2, EmptySeq
  <2> QED BY <2>2 DEF Data, NoData
<1> QED BY <1>2, <1>3

(* write_metadata_to_disk makes the file of the buffer equal its block.    *)
LEMMA Saved ==
  ASSUME Inv, op.pc \in Saving, write_metadata_to_disk(bmdata[op.b])
  PROVE  /\ mfile' \in [Files -> Data]
         /\ \A m \in UsedMetas : mdata[m] = mfile'[mname[m]] /\ mfile'[mname[m]] # NoData
         /\ \A f \in Files : GrownFrom(mfile'[f], mfile[f])
<1> USE DEF Inv
<1> DEFINE k == bmdata[op.b]
<1>1. k \in UsedMetas /\ k \in Metas
  <2>1. op.b \in UsedBufs
    BY DEF OpInv, Saving, Writing
  <2> QED BY <2>1, CacheSets DEF BufInv
<1>2. mfile' = [mfile EXCEPT ![mname[k]] = mdata[k]]
  BY DEF write_metadata_to_disk
<1>3. mname[k] \in Files /\ mdata[k] \in Data /\ mfile[mname[k]] \in Data
      /\ mfile[mname[k]] # NoData
  BY <1>1 DEF MetaInv, Typed
<1>4. GrownFrom(mdata[k], mfile[mname[k]])
  BY <1>1 DEF DiskInv
<1>5. mdata[k] # NoData
  BY <1>3, <1>4, Grown
<1> HIDE DEF k
<1>6. \A m \in UsedMetas : m # k => mname[m] # mname[k] /\ mdata[m] = mfile[mname[m]]
                                    /\ mname[m] \in Files /\ mfile[mname[m]] # NoData
  <2> SUFFICES ASSUME NEW m \in UsedMetas, m # k
               PROVE  mname[m] # mname[k] /\ mdata[m] = mfile[mname[m]]
                      /\ mname[m] \in Files /\ mfile[mname[m]] # NoData
    OBVIOUS
  <2>1. mname[m] # mname[k] /\ mname[m] \in Files /\ mfile[mname[m]] # NoData
    BY <1>1, CacheSets DEF MetaInv, MetaCache!OneBlockPerFile
  <2>2. mdata[m] = mfile[mname[m]]
    BY DEF DiskInv, k
  <2> QED BY <2>1, <2>2
<1>7. /\ mfile' \in [Files -> Data]
      /\ mfile'[mname[k]] = mdata[k]
      /\ \A f \in Files \ {mname[k]} : mfile'[f] = mfile[f]
  BY <1>2, <1>3 DEF Typed
<1>8. \A f \in Files : GrownFrom(mfile'[f], mfile[f])
  <2> SUFFICES ASSUME NEW f \in Files PROVE GrownFrom(mfile'[f], mfile[f])
    OBVIOUS
  <2>1. CASE f = mname[k]
    BY <1>4, <1>7, <2>1
  <2>2. CASE f # mname[k]
    <3>1. mfile'[f] = mfile[f] /\ mfile[f] \in Data
      BY <1>7, <2>2 DEF Typed
    <3> QED BY <3>1, Grown
  <2> QED BY <2>1, <2>2
<1>9. \A m \in UsedMetas : mdata[m] = mfile'[mname[m]] /\ mfile'[mname[m]] # NoData
  BY <1>5, <1>6, <1>7
<1> QED BY <1>7, <1>8, <1>9

(* Where lfs_write goes once it has its buffer.                            *)
LEMMA HasRoom ==
  ASSUME Inv, op.pc \in Writing, NEW b \in Bufs, op' = Room(b)
  PROVE  /\ op' \in Ops /\ op'.b = b /\ op'.pc \in {"full", "append"}
         /\ op'.file = op.file /\ op'.text = op.text /\ op'.m = op.m
         /\ offset[b] = 0 => op'.pc = "append"
<1>1. op \in Ops
  BY DEF Inv, Typed, Ops
<1>2. op.text \in Texts /\ Len(op.text) \in Nat /\ Len(op.text) <= BlockSize
  BY TextsAssumption, BlocksAssumption DEF Inv, OpInv
<1>3. op'.pc = IF offset[b] + Len(op.text) > BlockSize THEN "full" ELSE "append"
  BY <1>1 DEF Room, Ops
<1>4. /\ op'.b = b /\ op'.file = op.file /\ op'.text = op.text /\ op'.m = op.m
      /\ op' = [op EXCEPT !.b = b, !.pc = op'.pc]
  BY <1>1, <1>3 DEF Room, Ops
<1>5. op' \in Ops
  BY <1>1, <1>3, <1>4 DEF Ops, Labels
<1>6. offset[b] = 0 => op'.pc = "append"
  BY <1>2, <1>3, BlocksAssumption
<1> QED BY <1>3, <1>4, <1>5, <1>6

(* The metadata cache is as it was.                                        *)
LEMMA MetaKept ==
  ASSUME Inv, UNCHANGED <<mname, mfree, mlru>>,
         \A m \in UsedMetas : mfile'[mname[m]] # NoData
  PROVE  MetaInv' /\ UsedMetas' = UsedMetas
<1>1. UsedMetas' = UsedMetas
  BY DEF UsedMetas
<1>2. MetaCache!Used' = MetaCache!Used
  BY DEF MetaCache!Used
<1>3. MetaCache!CountersAreRanks' /\ MetaCache!OneBlockPerFile'
  BY <1>2 DEF Inv, MetaInv, MetaCache!CountersAreRanks, MetaCache!OneBlockPerFile
<1> QED BY <1>1, <1>3 DEF MetaInv, Inv

LEMMA FindBufferStep ==
  ASSUME Inv, FindBuffer
  PROVE  Inv'
<1> USE DEF Inv
<1> DEFINE b == Buf!find_meta_data_block(op.file)
<1>1. /\ op.pc = "buffer" /\ b # NULL /\ op' = Room(b)
      /\ UNCHANGED <<disk, meta, buffers>>
  BY DEF FindBuffer
<1>2. b \in UsedBufs /\ b \in Bufs /\ BufferName[b] = op.file
  BY <1>1, FindBuf, CacheSets DEF FoundBuf
<1> HIDE DEF b
<1>3. /\ op.file \in Files /\ op.text \in Texts
      /\ op.m \in UsedMetas /\ mname[op.m] = op.file
  BY <1>1 DEF OpInv, Writing
<1>4. bmdata[b] \in UsedMetas /\ bmdata[b] \in Metas
  BY <1>2, CacheSets DEF BufInv
<1>5. bmdata[b] = op.m
  <2>1. mname[bmdata[b]] = op.file
    BY <1>2, <1>4, BufferNames
  <2> QED BY <1>3, <1>4, <2>1, CacheSets DEF MetaInv, MetaCache!OneBlockPerFile
<1>6. /\ op' \in Ops /\ op'.b = b /\ op'.pc \in {"full", "append"}
      /\ op'.file = op.file /\ op'.text = op.text /\ op'.m = op.m
  BY <1>1, <1>2, HasRoom DEF Writing
<1>7. Typed'
  BY <1>1, <1>6 DEF Typed, Ops, Data, disk, meta, buffers
<1>8. MetaInv' /\ UsedMetas' = UsedMetas /\ UsedBufs' = UsedBufs
  <2>1. UNCHANGED <<mname, mfree, mlru, mfile, bfree>>
    BY <1>1 DEF meta, disk, buffers
  <2>2. MetaInv' /\ UsedMetas' = UsedMetas
    BY <2>1, MetaKept DEF MetaInv
  <2> QED BY <2>1, <2>2 DEF UsedBufs
<1>9. OpInv'
  BY <1>1, <1>2, <1>3, <1>5, <1>6, <1>8 DEF OpInv, Writing, meta, buffers
<1>10. BufInv'
  BY <1>1, <1>8 DEF BufInv, buffers
<1>11. BufRanks'
  BY <1>1, <1>8 DEF BufRanks, RanksOf, buffers
<1>12. DiskInv'
  <2>1. \A m \in UsedMetas : mdata[m] = mfile[mname[m]] /\ mdata[m] \in Data
    BY <1>1, CacheSets DEF DiskInv, Saving, Typed
  <2>2. \A m \in UsedMetas : GrownFrom(mdata[m], mfile[mname[m]])
    BY <2>1, Grown
  <2> QED BY <1>1, <1>8, <2>1, <2>2 DEF DiskInv, meta, disk
<1> QED BY <1>7, <1>8, <1>9, <1>10, <1>11, <1>12

LEMMA TakeBufferStep ==
  ASSUME Inv, TakeBuffer
  PROVE  Inv'
<1> USE DEF Inv
<1> DEFINE b == Buf!get_free_cache_block
<1>1. /\ op.pc = "buffer" /\ Buf!find_meta_data_block(op.file) = NULL
      /\ bfree' = [bfree EXCEPT ![b] = FALSE]
      /\ \/ bfree[b] /\ bmdata' = [bmdata EXCEPT ![b] = op.m] /\ op' = Room(b)
         \/ ~ bfree[b] /\ op' = [op EXCEPT !.b = b, !.pc = "evict"] /\ bmdata' = bmdata
      /\ UNCHANGED <<disk, meta, blru, buf, offset>>
  BY DEF TakeBuffer
<1>2. b \in Bufs
  BY FreeBlocks
<1> HIDE DEF b
<1>3. UsedBufs' = UsedBufs \cup {b} /\ (b \in UsedBufs <=> ~ bfree[b])
  BY <1>1, <1>2 DEF UsedBufs, Typed
<1>4. /\ op.file \in Files /\ op.text \in Texts /\ op \in Ops
      /\ op.m \in UsedMetas /\ op.m \in Metas /\ mname[op.m] = op.file
  BY <1>1, CacheSets DEF OpInv, Writing, Typed, Ops
<1>5. \A c \in UsedBufs : bmdata[c] # op.m /\ bmdata[c] \in UsedMetas
  <2> SUFFICES ASSUME NEW c \in UsedBufs
               PROVE  bmdata[c] # op.m /\ bmdata[c] \in UsedMetas
    OBVIOUS
  <2>1. bmdata[c] \in UsedMetas /\ bmdata[c] \in Metas
    BY CacheSets DEF BufInv
  <2>2. BufferName[c] # op.file
    <3>1. \A d \in UsedBufs : d # NULL
      BY BlocksAssumption DEF UsedBufs, Bufs, NULL
    <3> QED BY <1>1, <3>1, FindBuf DEF FoundBuf
  <2> QED BY <1>4, <2>1, <2>2, BufferNames
<1>6. MetaInv' /\ UsedMetas' = UsedMetas
  BY <1>1, MetaKept DEF meta, disk, MetaInv
<1>7. RanksOf(UsedBufs) /\ \A m \in UsedMetas : mdata[m] = mfile[mname[m]] /\ mdata[m] \in Data
  BY <1>1, CacheSets DEF BufRanks, DiskInv, Saving, Typed
<1>8. CASE bfree[b]
  <2>1. /\ bmdata' = [bmdata EXCEPT ![b] = op.m] /\ op' = Room(b)
        /\ offset[b] = 0 /\ b \notin UsedBufs
    BY <1>1, <1>2, <1>3, <1>8 DEF BufInv
  <2>2. /\ op' \in Ops /\ op'.b = b /\ op'.pc = "append"
        /\ op'.file = op.file /\ op'.text = op.text /\ op'.m = op.m
    BY <1>1, <1>2, <2>1, HasRoom DEF Writing
  <2>3. bmdata' \in [Bufs -> Metas \cup {NULL}] /\ bfree' \in [Bufs -> BOOLEAN]
    BY <1>1, <1>4, <2>1 DEF Typed
  <2>4. Typed'
    BY <1>1, <2>2, <2>3 DEF Typed, Ops, Data, disk, meta
  <2>5. bmdata'[b] = op.m /\ \A c \in UsedBufs : bmdata'[c] = bmdata[c]
    BY <1>2, <1>3, <2>1, CacheSets DEF Typed
  <2>6. OpInv'
    BY <1>1, <1>3, <1>4, <1>6, <2>2, <2>5 DEF OpInv, Writing, meta
  <2>7. BufInv'
    <3>1. \A c \in UsedBufs' : bmdata'[c] \in UsedMetas'
      BY <1>3, <1>4, <1>5, <1>6, <2>5
    <3>2. \A c, d \in UsedBufs' : bmdata'[c] = bmdata'[d] => c = d
      BY <1>3, <1>5, <2>5 DEF BufInv
    <3> QED BY <1>1, <1>3, <3>1, <3>2 DEF BufInv
  <2>8. BufRanks'
    <3>1. (UsedBufs \ {op.b})' = UsedBufs
      BY <1>3, <2>1, <2>2
    <3>2. RanksOf(UsedBufs \ {op.b})'
      BY <1>1, <1>7, <3>1 DEF RanksOf
    <3> QED BY <2>2, <3>2 DEF BufRanks
  <2>9. DiskInv'
    BY <1>1, <1>6, <1>7, <2>2 DEF DiskInv, meta, disk, Saving
  <2> QED BY <1>6, <2>4, <2>6, <2>7, <2>8, <2>9
<1>9. CASE ~ bfree[b]
  <2>1. op' = [op EXCEPT !.b = b, !.pc = "evict"] /\ bmdata' = bmdata
    BY <1>1, <1>9
  <2>2. /\ op' \in Ops /\ op'.b = b /\ op'.pc = "evict"
        /\ op'.file = op.file /\ op'.text = op.text /\ op'.m = op.m
    BY <1>2, <1>4, <2>1 DEF Ops, Labels
  <2>3. UsedBufs' = UsedBufs /\ b \in UsedBufs
    BY <1>3, <1>9
  <2>4. Typed'
    BY <1>1, <2>1, <2>2 DEF Typed, Ops, Data, disk, meta
  <2>5. OpInv'
    BY <1>1, <1>4, <1>5, <1>6, <2>1, <2>2, <2>3 DEF OpInv, Writing, meta
  <2>6. BufInv'
    BY <1>1, <1>6, <2>1, <2>3 DEF BufInv
  <2>7. BufRanks'
    BY <1>1, <1>7, <2>3 DEF BufRanks, RanksOf
  <2>8. DiskInv'
    <3>1. \A m \in UsedMetas : GrownFrom(mdata[m], mfile[mname[m]])
      BY <1>7, Grown
    <3> QED BY <1>1, <1>6, <1>7, <3>1 DEF DiskInv, meta, disk
  <2> QED BY <1>6, <2>4, <2>5, <2>6, <2>7, <2>8
<1> QED BY <1>8, <1>9

LEMMA EndEvictStep ==
  ASSUME Inv, EndEvict
  PROVE  Inv'
<1> USE DEF Inv
<1>1. /\ op.pc = "evict_meta" /\ write_metadata_to_disk(bmdata[op.b])
      /\ bmdata' = [bmdata EXCEPT ![op.b] = op.m] /\ op' = Room(op.b)
      /\ UNCHANGED <<chunks, meta, bfree, blru, buf, offset>>
  BY DEF EndEvict
<1>2. /\ op.file \in Files /\ op.text \in Texts
      /\ op.m \in UsedMetas /\ op.m \in Metas /\ mname[op.m] = op.file
      /\ op.b \in UsedBufs /\ op.b \in Bufs
      /\ \A c \in UsedBufs : bmdata[c] # op.m
  BY <1>1, CacheSets DEF OpInv, Writing
<1>3. /\ mfile' \in [Files -> Data]
      /\ \A m \in UsedMetas : mdata[m] = mfile'[mname[m]] /\ mfile'[mname[m]] # NoData
  BY <1>1, Saved DEF Saving
<1>4. /\ op' \in Ops /\ op'.b = op.b /\ op'.pc \in {"full", "append"}
      /\ op'.file = op.file /\ op'.text = op.text /\ op'.m = op.m
  BY <1>1, <1>2, HasRoom DEF Writing
<1>5. bmdata' \in [Bufs -> Metas \cup {NULL}]
  BY <1>1, <1>2 DEF Typed
<1>6. Typed'
  BY <1>1, <1>3, <1>4, <1>5 DEF Typed, Ops, Data, meta
<1>7. MetaInv' /\ UsedMetas' = UsedMetas /\ UsedBufs' = UsedBufs
  BY <1>1, <1>3, MetaKept DEF meta, UsedBufs
<1>8. bmdata'[op.b] = op.m /\ \A c \in UsedBufs \ {op.b} : bmdata'[c] = bmdata[c]
  BY <1>1, <1>2, CacheSets DEF Typed
<1>9. OpInv'
  BY <1>1, <1>2, <1>4, <1>7, <1>8 DEF OpInv, Writing, meta
<1>10. BufInv'
  <2>1. \A c \in UsedBufs : bmdata'[c] \in UsedMetas
    BY <1>2, <1>8 DEF BufInv
  <2>2. \A c, d \in UsedBufs : bmdata'[c] = bmdata'[d] => c = d
    BY <1>2, <1>8 DEF BufInv
  <2> QED BY <1>1, <1>7, <2>1, <2>2 DEF BufInv
<1>11. BufRanks'
  BY <1>1, <1>7 DEF BufRanks, RanksOf
<1>12. DiskInv'
  <2>1. \A m \in UsedMetas : mdata[m] \in Data
    BY CacheSets DEF Typed
  <2>2. \A m \in UsedMetas : GrownFrom(mdata[m], mfile'[mname[m]])
    BY <1>3, <2>1, Grown
  <2> QED BY <1>1, <1>3, <1>7, <2>2 DEF DiskInv, meta
<1> QED BY <1>6, <1>7, <1>9, <1>10, <1>11, <1>12

LEMMA EndFullStep ==
  ASSUME Inv, EndFull
  PROVE  Inv'
<1> USE DEF Inv
<1>1. /\ op.pc = "full_meta" /\ write_metadata_to_disk(bmdata[op.b])
      /\ op' = [op EXCEPT !.pc = "append"]
      /\ UNCHANGED <<chunks, meta, buffers>>
  BY DEF EndFull
<1>2. /\ mfile' \in [Files -> Data]
      /\ \A m \in UsedMetas : mdata[m] = mfile'[mname[m]] /\ mfile'[mname[m]] # NoData
  BY <1>1, Saved DEF Saving
<1>3. /\ op' \in Ops /\ op'.pc = "append" /\ op'.b = op.b
      /\ op'.file = op.file /\ op'.text = op.text /\ op'.m = op.m
  BY <1>1 DEF Typed, Ops, Labels
<1>4. Typed'
  BY <1>1, <1>2, <1>3 DEF Typed, Ops, Data, meta, buffers
<1>5. MetaInv' /\ UsedMetas' = UsedMetas /\ UsedBufs' = UsedBufs
  BY <1>1, <1>2, MetaKept DEF meta, buffers, UsedBufs
<1>6. OpInv'
  BY <1>1, <1>3, <1>5 DEF OpInv, Writing, meta, buffers
<1>7. BufInv' /\ BufRanks'
  BY <1>1, <1>5 DEF BufInv, BufRanks, RanksOf, buffers
<1>8. DiskInv'
  BY <1>1, <1>2, <1>3, <1>5 DEF DiskInv, Saving, meta
<1> QED BY <1>4, <1>5, <1>6, <1>7, <1>8

LEMMA OverflowStep ==
  ASSUME Inv, Overflow
  PROVE  Inv'
<1> USE DEF Inv
<1>1. /\ op.pc = "append" /\ op' = [Idle EXCEPT !.pc = "overflow"]
      /\ UNCHANGED <<disk, meta, buffers>>
  BY DEF Overflow
<1>2. op' \in Ops /\ op'.pc = "overflow"
  BY <1>1, IdleIsOp DEF Ops, Labels
<1>3. Typed'
  BY <1>1, <1>2 DEF Typed, Ops, Data, disk, meta, buffers
<1>4. MetaInv' /\ UsedMetas' = UsedMetas /\ UsedBufs' = UsedBufs
  BY <1>1, MetaKept DEF meta, disk, buffers, UsedBufs, MetaInv
<1>5. OpInv' /\ BufInv' /\ BufRanks'
  BY <1>1, <1>2, <1>4 DEF OpInv, Writing, BufInv, BufRanks, buffers
<1>6. DiskInv'
  BY <1>1, <1>2, <1>4 DEF DiskInv, Saving, meta, disk
<1> QED BY <1>3, <1>4, <1>5, <1>6

(* The counters once the buffer that was written to is the last used,      *)
(* whether update_lru had seen it before or not.                           *)
LEMMA UsedBuffer ==
  ASSUME Inv, op.pc = "append", Buf!update_lru(op.b)
  PROVE  /\ blru' \in [Bufs -> Bufs]
         /\ \A c, d \in UsedBufs : blru'[c] = blru'[d] => c = d
         /\ \A c \in UsedBufs : blru'[c] < Cardinality(UsedBufs)
         /\ \A c \in Bufs \ UsedBufs : blru'[c] = Cardinality(UsedBufs)
<1> USE DEF Inv
<1>1. op.b \in UsedBufs /\ op.b \in Bufs /\ BufCache!update_lru(op.b)
  BY CacheSets, CacheOperators DEF OpInv, Writing
<1>2. CASE RanksOf(UsedBufs)
  <2> DEFINE b == op.b
  <2>1. BufCache!Inv /\ b \in BufCache!Used /\ BufCache!update_lru(b)
    BY <1>1, <1>2, BufSound, CacheSets
  <2> HIDE DEF b
  <2> QED BY <2>1, BufCache!TouchUsed, BlocksAssumption, FilesAssumption, CacheSets, CacheCounts
<1>3. CASE RanksOf(UsedBufs \ {op.b})
  <2> DEFINE b == op.b
             U == UsedBufs \ {b}
  <2>1. FreshCache!Blocks = Bufs /\ FreshCache!Used = U
    BY <1>1 DEF FreshCache!Blocks, FreshCache!Used, Bufs, UsedBufs, Typed
  <2>2. \A S : FreshCache!Cardinality(S) = Cardinality(S)
    BY Zenon DEF FreshCache!Cardinality, Cardinality
  <2>3. FreshCache!Inv
    <3>1. FreshCache!TypeOK
      BY <1>1, <2>1, BufferNames DEF FreshCache!TypeOK, Typed
    <3>2. FreshCache!CountersAreRanks
      BY <1>3, <2>1, <2>2 DEF FreshCache!CountersAreRanks, RanksOf
    <3>3. FreshCache!OneBlockPerFile
      <4>1. \A c \in UsedBufs : bmdata[c] \in UsedMetas /\ bmdata[c] \in Metas
        BY CacheSets DEF BufInv
      <4>2. \A c, d \in UsedBufs : BufferName[c] = BufferName[d] => bmdata[c] = bmdata[d]
        BY <4>1, BufferNames, CacheSets DEF MetaInv, MetaCache!OneBlockPerFile
      <4> QED BY <2>1, <4>2 DEF FreshCache!OneBlockPerFile, BufInv
    <3> QED BY <3>1, <3>2, <3>3 DEF FreshCache!Inv
  <2>4. FreshCache!update_lru(b)
    BY <1>1 DEF BufCache!update_lru, FreshCache!update_lru, BufCache!Blocks, FreshCache!Blocks
  <2>5. b \in FreshCache!Blocks \ FreshCache!Used /\ U \cup {b} = UsedBufs
    BY <1>1, <2>1
  <2>6. /\ Cardinality(U \cup {b}) = Cardinality(U) + 1
        /\ blru' \in [Bufs -> Bufs]
        /\ blru'[b] = 0
        /\ \A c \in U : blru'[c] = blru[c] + 1
        /\ \A c \in Bufs \ (U \cup {b}) : blru'[c] = Cardinality(U) + 1
    <3> HIDE DEF b, U
    <3> QED BY <2>1, <2>2, <2>3, <2>4, <2>5, FreshCache!TouchFree,
               BlocksAssumption, FilesAssumption
  <2>7. /\ \A c \in U : blru[c] \in Nat /\ blru[c] < Cardinality(U)
        /\ \A c, d \in U : blru[c] = blru[d] => c = d
    <3>1. /\ \A c \in U : blru[c] < Cardinality(U)
          /\ \A c, d \in U : blru[c] = blru[d] => c = d
      BY <1>3 DEF RanksOf
    <3>2. \A c \in Bufs : blru[c] \in Nat
      <4>1. blru \in [Bufs -> Bufs]
        BY DEF Typed
      <4>2. \A n \in Bufs : n \in Nat
        BY BlocksAssumption DEF Bufs
      <4> QED BY <4>1, <4>2
    <3>3. \A c \in U : c \in Bufs
      BY CacheSets
    <3> HIDE DEF U
    <3> QED BY <3>1, <3>2, <3>3
  <2>8. Cardinality(U) \in Nat
    <3>1. IsFiniteSet(Bufs)
      <4>1. IsFiniteSet(0 .. BufBlocks - 1)
        BY FS_Interval, BlocksAssumption
      <4> QED BY <4>1 DEF Bufs
    <3>2. U \subseteq Bufs
      BY CacheSets
    <3> QED BY <3>1, <3>2, FS_Subset, FS_CardinalityType
  <2> HIDE DEF U, b
  <2>9. \A c \in UsedBufs : c = b \/ c \in U
    BY <2>5
  <2>10. \A c \in UsedBufs : blru'[c] < Cardinality(U) + 1
    BY <2>6, <2>7, <2>8, <2>9
  <2>11. \A c, d \in UsedBufs : blru'[c] = blru'[d] => c = d
    BY <2>6, <2>7, <2>9
  <2> QED BY <2>5, <2>6, <2>10, <2>11
<1> QED BY <1>2, <1>3 DEF BufRanks

LEMMA AppendTextStep ==
  ASSUME Inv, AppendText
  PROVE  Inv'
<1> USE DEF Inv
<1> DEFINE b == op.b
           added == Tokens(op.file, op.text)
<1>1. /\ op.pc = "append" /\ offset[b] + Len(op.text) <= BlockSize
      /\ Buf!update_lru(b)
      /\ buf' = [buf EXCEPT ![b] = @ \o added]
      /\ offset' = [offset EXCEPT ![b] = @ + Len(op.text)]
      /\ op' = Idle
      /\ UNCHANGED <<disk, meta, bmdata, bfree>>
  BY DEF AppendText
<1>2. op.file \in Files /\ op.text \in Texts /\ b \in UsedBufs /\ b \in Bufs
  BY <1>1, CacheSets DEF OpInv, Writing
<1>3. added \in Seq(Tokenized) /\ Len(added) = Len(op.text)
  <2>1. op.text \in Seq(Records \cup {NL}) /\ Len(op.text) \in Nat
    BY <1>2, TextsAssumption, LenProperties
  <2>2. /\ DOMAIN op.text = 1 .. Len(op.text)
        /\ \A i \in 1 .. Len(op.text) : op.text[i] \in Records \cup {NL}
    BY <2>1, LenProperties, ElementOfSeq
  <2>3. added \in [1 .. Len(op.text) -> Tokenized]
    BY <1>2, <2>2 DEF Tokens, Tokenized
  <2> DEFINE n == Len(op.text)
  <2>4. n \in Nat /\ added \in [1 .. n -> Tokenized]
    BY <2>1, <2>3
  <2> HIDE DEF n, added
  <2>5. added \in Seq(Tokenized) /\ Len(added) = n
    BY <2>4, MetaCache!SequenceOf, BlocksAssumption, FilesAssumption
  <2> QED BY <2>5 DEF n
<1> HIDE DEF b, added
<1>4. /\ buf[b] \o added \in Seq(Tokenized)
      /\ Len(buf[b] \o added) = offset[b] + Len(op.text)
  <2>1. buf[b] \in Seq(Tokenized) /\ Len(buf[b]) = offset[b]
    BY <1>2 DEF Typed
  <2> QED BY <1>3, <2>1, ConcatProperties
<1>5. UsedBufs' = UsedBufs
  BY <1>1 DEF UsedBufs
<1>6. blru' \in [Bufs -> Bufs] /\ RanksOf(UsedBufs)'
  BY <1>1, <1>5, UsedBuffer DEF RanksOf, b
<1>7. /\ buf' \in [Bufs -> Seq(Tokenized)] /\ offset' \in [Bufs -> Nat]
      /\ \A c \in Bufs : offset'[c] = Len(buf'[c]) /\ offset'[c] <= BlockSize
      /\ \A c \in Bufs \ UsedBufs : offset'[c] = 0
  <2>1. Len(buf[b] \o added) \in Nat
    BY <1>4, LenProperties
  <2>2. buf' \in [Bufs -> Seq(Tokenized)] /\ offset' \in [Bufs -> Nat]
    BY <1>1, <1>2, <1>4, <2>1 DEF Typed
  <2>3. /\ offset'[b] = offset[b] + Len(op.text) /\ buf'[b] = buf[b] \o added
        /\ \A c \in Bufs \ {b} : offset'[c] = offset[c] /\ buf'[c] = buf[c]
    BY <1>1, <1>2 DEF Typed
  <2>4. \A c \in Bufs \ {b} : offset'[c] = Len(buf'[c]) /\ offset'[c] <= BlockSize
    BY <2>3 DEF Typed
  <2>5. \A c \in Bufs \ UsedBufs : offset'[c] = 0
    BY <1>2, <2>3 DEF BufInv
  <2> QED BY <1>1, <1>4, <2>2, <2>3, <2>4, <2>5
<1>8. op' \in Ops /\ op'.pc = "idle"
  BY <1>1, IdleIsOp DEF Idle
<1>9. Typed'
  BY <1>1, <1>6, <1>7, <1>8 DEF Typed, Ops, Data, disk, meta
<1>10. MetaInv' /\ UsedMetas' = UsedMetas
  BY <1>1, MetaKept DEF meta, disk, MetaInv
<1>11. OpInv'
  BY <1>1, <1>8 DEF OpInv, Writing
<1>12. BufInv' /\ BufRanks'
  BY <1>1, <1>5, <1>6, <1>7, <1>10 DEF BufInv, BufRanks
<1>13. DiskInv'
  BY <1>1, <1>8, <1>10 DEF DiskInv, Saving, meta, disk
<1> QED BY <1>9, <1>10, <1>11, <1>12, <1>13

-----------------------------------------------------------------------------
(* write_buffer_to_disk.                                                   *)
LEMMA MinMaxIn ==
  ASSUME NEW S \in SUBSET Nat, S # {}
  PROVE  /\ Min(S) \in S /\ \A i \in S : Min(S) <= i
         /\ \A n \in Nat : (\A i \in S : i <= n) => /\ Max(S) \in S
                                                  /\ \A i \in S : i <= Max(S)
<1>1. Min(S) \in S /\ \A i \in S : Min(S) <= i
  <2>1. \E m \in S : \A n \in S : m <= n
    BY NatMin, Zenon
  <2> QED BY <2>1 DEF Min
<1>2. ASSUME NEW n \in Nat, \A i \in S : i <= n
      PROVE  Max(S) \in S /\ \A i \in S : i <= Max(S)
  <2>1. \E m \in S : \A i \in S : i <= m
    BY <1>2, NatMax, Zenon
  <2>2. \E m \in S : \A i \in S : m >= i
    BY <2>1
  <2>3. Max(S) \in S /\ \A i \in S : Max(S) >= i
    BY <2>2 DEF Max
  <2> QED BY <2>3
<1> QED BY <1>1, <1>2

(* Where the scan of a buffer stops, and its groups: no line that begins   *)
(* inside a group has another date than its first.                         *)
LEMMA ScanEnds ==
  ASSUME NEW s \in Seq(Tokenized)
  PROVE  /\ Scanned(s) \in Nat /\ Scanned(s) <= Len(s) + 1
         /\ Newlines(s) = {} \/ Scanned(s) <= Len(s)
         /\ \A i \in Newlines(s) : i <= Scanned(s)
         /\ \A start \in Nat :
              /\ GroupEnd(s, start) \in Nat /\ GroupEnd(s, start) <= Scanned(s)
              /\ GroupEnd(s, start) \in Newlines(s) \cup {Scanned(s)}
              /\ \A i \in Newlines(s) : i > start /\ i < GroupEnd(s, start) =>
                   Date(s, i + 1) = Date(s, start + 1)
<1>1. Len(s) \in Nat
  BY LenProperties
<1>2. Newlines(s) \in SUBSET Nat /\ \A i \in Newlines(s) : i <= Len(s)
  BY <1>1 DEF Newlines
<1>3. /\ Scanned(s) \in Nat /\ Scanned(s) <= Len(s) + 1
      /\ Newlines(s) = {} \/ Scanned(s) <= Len(s)
      /\ \A i \in Newlines(s) : i <= Scanned(s)
  <2>1. CASE Newlines(s) = {}
    BY <1>1, <2>1 DEF Scanned
  <2>2. CASE Newlines(s) # {}
    <3>1. Max(Newlines(s)) \in Newlines(s) /\ \A i \in Newlines(s) : i <= Max(Newlines(s))
      BY <1>1, <1>2, <2>2, MinMaxIn
    <3> QED BY <1>1, <1>2, <2>2, <3>1 DEF Scanned
  <2> QED BY <2>1, <2>2
<1>4. ASSUME NEW start \in Nat
      PROVE  /\ GroupEnd(s, start) \in Nat /\ GroupEnd(s, start) <= Scanned(s)
             /\ GroupEnd(s, start) \in Newlines(s) \cup {Scanned(s)}
             /\ \A i \in Newlines(s) : i > start /\ i < GroupEnd(s, start) =>
                  Date(s, i + 1) = Date(s, start + 1)
  <2> DEFINE G == {i \in Newlines(s) : /\ i > start /\ i < Scanned(s)
                                       /\ Date(s, i + 1) # Date(s, start + 1)}
                  \cup {Scanned(s)}
  <2>1. G \in SUBSET Nat /\ G # {} /\ GroupEnd(s, start) = Min(G) /\ Scanned(s) \in G
    BY <1>2, <1>3 DEF GroupEnd
  <2>2. Min(G) \in G /\ \A i \in G : Min(G) <= i
    <3> HIDE DEF G
    <3> QED BY <2>1, MinMaxIn
  <2>3. /\ GroupEnd(s, start) \in Nat /\ GroupEnd(s, start) <= Scanned(s)
        /\ GroupEnd(s, start) \in Newlines(s) \cup {Scanned(s)}
    BY <2>1, <2>2
  <2>4. ASSUME NEW i \in Newlines(s), i > start, i < GroupEnd(s, start),
               Date(s, i + 1) # Date(s, start + 1)
        PROVE  FALSE
    <3>1. i \in Nat /\ i < Scanned(s)
      BY <1>2, <1>3, <2>3, <2>4
    <3>2. i \in G
      BY <2>4, <3>1
    <3> HIDE DEF G
    <3> QED BY <2>1, <2>2, <2>3, <2>4, <3>1, <3>2
  <2> QED BY <2>3, <2>4
<1> QED BY <1>3, <1>4

(* What stays in a buffer is no longer than it was.                        *)
LEMMA RemainingShorter ==
  ASSUME NEW s \in Seq(Tokenized), NEW rest \in Remaining(s)
  PROVE  rest \in Seq(Tokenized) /\ Len(rest) \in Nat /\ Len(rest) <= Len(s)
<1>1. Len(s) \in Nat /\ \A i \in 1 .. Len(s) : s[i] \in Tokenized
  BY LenProperties, ElementOfSeq
<1>2. CASE rest = <<>>
  BY <1>1, <1>2, EmptySeq
<1>3. CASE rest = LastLine(s)
  <2> DEFINE end == IF s[Len(s)] = NL THEN Len(s) - 1 ELSE Len(s)
             S == {i \in Newlines(s) : i <= end} \cup {0}
             first == Max(S) + 1
  <2>1. end \in Int /\ end <= Len(s)
    BY <1>1
  <2>2. S \in SUBSET Nat /\ S # {} /\ \A i \in S : i <= Len(s)
    BY <1>1 DEF Newlines
  <2>3. LastLine(s) = SubSeq(s, first, end)
    BY DEF LastLine
  <2> HIDE DEF end, S
  <2>4. Max(S) \in Nat
    BY <1>1, <2>2, MinMaxIn
  <2>5. first \in Nat /\ first >= 1
    BY <2>4
  <2> HIDE DEF first
  <2>6. \A i \in first .. end : s[i] \in Tokenized
    BY <1>1, <2>1, <2>5
  <2>7. /\ SubSeq(s, first, end) \in Seq(Tokenized)
        /\ Len(SubSeq(s, first, end)) = IF first <= end THEN end - first + 1 ELSE 0
    BY <2>1, <2>5, <2>6, SubSeqProperties
  <2> QED BY <1>1, <1>3, <2>1, <2>3, <2>5, <2>7
<1> QED BY <1>2, <1>3 DEF Remaining

(* One chunk more, or more lines in one: the metadata of the block that    *)
(* the buffer points to grows, and its paths still lead to chunks.         *)
LEMMA ChunkAdded ==
  ASSUME Inv, NEW m \in Metas, NEW name, NEW data, Len(data) \in Nat,
         AddChunk(name, data, m)
  PROVE  /\ DOMAIN chunks \subseteq DOMAIN chunks' /\ Data \subseteq Data'
         /\ mdata' \in [Metas -> Data']
         /\ \A n \in Metas \ {m} : mdata'[n] = mdata[n]
         /\ \A e \in Data : GrownFrom(mdata[m], e) => GrownFrom(mdata'[m], e)
<1> USE DEF Inv
<1>1. mdata[m] \in Data /\ mdata \in [Metas -> Data]
  BY DEF Typed
<1>2. /\ mdata[m].size \in Int /\ mdata[m].size >= -1
      /\ mdata[m].paths \in Seq(DOMAIN chunks) /\ Len(mdata[m].paths) \in Nat
  BY <1>1, LenProperties DEF Data
<1>3. /\ mdata[m].size + Len(data) \in Nat \cup {-1}
      /\ mdata[m].size <= mdata[m].size + Len(data)
  BY <1>2
<1>4. CASE name \in DOMAIN chunks
  <2>1. /\ chunks' = [chunks EXCEPT ![name] = @ \o data]
        /\ mdata' = [mdata EXCEPT ![m].size = @ + Len(data)]
    BY <1>4 DEF AddChunk
  <2>2. DOMAIN chunks' = DOMAIN chunks /\ Data' = Data
    BY <2>1 DEF Data
  <2>3. /\ mdata'[m] = [mdata[m] EXCEPT !.size = @ + Len(data)]
        /\ \A n \in Metas \ {m} : mdata'[n] = mdata[n]
        /\ mdata' = [n \in Metas |-> mdata'[n]]
    BY <1>1, <2>1
  <2>4. /\ mdata'[m].size = mdata[m].size + Len(data) /\ mdata'[m].paths = mdata[m].paths
        /\ mdata'[m] \in Data
    BY <1>1, <1>2, <1>3, <2>3 DEF Data
  <2>5. mdata' \in [Metas -> Data]
    BY <1>1, <2>3, <2>4
  <2>6. ASSUME NEW e \in Data, GrownFrom(mdata[m], e) PROVE GrownFrom(mdata'[m], e)
    <3>1. e.size \in Int
      BY DEF Data
    <3> QED BY <1>2, <1>3, <2>4, <2>6, <3>1 DEF GrownFrom
  <2> QED BY <2>2, <2>3, <2>5, <2>6
<1>5. CASE name \notin DOMAIN chunks
  <2>1. /\ chunks' = [n \in DOMAIN chunks \cup {name} |->
                       IF n = name THEN data ELSE chunks[n]]
        /\ mdata' = [mdata EXCEPT ![m] = [paths |-> Append(@.paths, name),
                                          size |-> @.size + Len(data)]]
    BY <1>5 DEF AddChunk
  <2>2. DOMAIN chunks' = DOMAIN chunks \cup {name}
    BY <2>1
  <2>3. Seq(DOMAIN chunks) \subseteq Seq(DOMAIN chunks')
    BY <2>2, SeqMonotonic
  <2>4. Data \subseteq Data'
    BY <2>3 DEF Data
  <2>5. /\ mdata'[m].paths = Append(mdata[m].paths, name)
        /\ mdata'[m].size = mdata[m].size + Len(data)
        /\ mdata'[m] = [paths |-> Append(mdata[m].paths, name),
                        size |-> mdata[m].size + Len(data)]
        /\ \A n \in Metas \ {m} : mdata'[n] = mdata[n]
        /\ mdata' = [n \in Metas |-> mdata'[n]]
    BY <1>1, <2>1
  <2>6. /\ Append(mdata[m].paths, name) \in Seq(DOMAIN chunks')
        /\ Len(Append(mdata[m].paths, name)) = Len(mdata[m].paths) + 1
        /\ \A i \in 1 .. Len(mdata[m].paths) :
             Append(mdata[m].paths, name)[i] = mdata[m].paths[i]
    <3>1. mdata[m].paths \in Seq(DOMAIN chunks') /\ name \in DOMAIN chunks'
      BY <1>2, <2>2, <2>3
    <3> QED BY <3>1, AppendProperties
  <2>7. mdata'[m] \in Data'
    BY <1>3, <2>5, <2>6 DEF Data
  <2>8. mdata' \in [Metas -> Data']
    BY <1>1, <2>4, <2>5, <2>7
  <2>9. ASSUME NEW e \in Data, GrownFrom(mdata[m], e) PROVE GrownFrom(mdata'[m], e)
    <3>1. e.size \in Int /\ Len(e.paths) \in Nat
      BY LenProperties DEF Data
    <3>2. /\ e.size <= mdata[m].size /\ Len(e.paths) <= Len(mdata[m].paths)
          /\ \A j \in 1 .. Len(e.paths) : e.paths[j] = mdata[m].paths[j]
      BY <2>9 DEF GrownFrom
    <3>3. e.size <= mdata'[m].size /\ Len(e.paths) <= Len(mdata'[m].paths)
      BY <1>2, <1>3, <2>5, <2>6, <3>1, <3>2
    <3>4. \A j \in 1 .. Len(e.paths) : e.paths[j] = mdata'[m].paths[j]
      BY <1>2, <2>5, <2>6, <3>1, <3>2
    <3> QED BY <3>3, <3>4 DEF GrownFrom
  <2> QED BY <2>2, <2>4, <2>5, <2>8, <2>9
<1> QED BY <1>4, <1>5

LEMMA WriteBufferStep ==
  ASSUME Inv, write_buffer_to_disk
  PROVE  Inv'
<1> USE DEF Inv
<1> DEFINE b == op.b
           s == buf[b]
           m == bmdata[b]
           end == GroupEnd(s, op.start)
           data == SubSeq(s \o <<NUL>>, op.start + 1, end)
<1>1. /\ op.pc \in {"evict", "full"}
      /\ AddChunk(ChunkName(s, op.start, m), data, m)
      /\ \/ /\ op' = [op EXCEPT !.start = end]
            /\ UNCHANGED <<buf, offset>>
         \/ /\ op' = [op EXCEPT !.start = 0,
                                !.pc = IF op.pc = "evict" THEN "evict_meta" ELSE "full_meta"]
            /\ \E rest \in Remaining(s) :
                 /\ buf' = [buf EXCEPT ![b] = rest]
                 /\ offset' = [offset EXCEPT ![b] = Len(rest)]
      /\ UNCHANGED <<mfile, mname, mfree, mlru, bmdata, bfree, blru>>
  BY DEF write_buffer_to_disk
<1>2. /\ b \in UsedBufs /\ b \in Bufs /\ m \in UsedMetas /\ m \in Metas
      /\ s \in Seq(Tokenized) /\ op.start \in Nat /\ op \in Ops
  <2>1. b \in UsedBufs /\ b \in Bufs
    BY <1>1, CacheSets DEF OpInv, Writing
  <2> QED BY <2>1, CacheSets DEF BufInv, Typed, Ops
<1>3. end \in Nat
  BY <1>2, ScanEnds
<1>4. Len(data) \in Nat
  <2> DEFINE t == s \o <<NUL>>
             k == op.start + 1
             S == {t[i] : i \in k .. end}
  <2>1. k \in Int /\ end \in Int
    BY <1>2, <1>3
  <2> HIDE DEF t, k, end
  <2>2. SubSeq(t, k, end) \in Seq(S)
    <3>1. \A i \in k .. end : t[i] \in S
      OBVIOUS
    <3> HIDE DEF S
    <3> QED BY <2>1, <3>1, SubSeqProperties
  <2>3. Len(SubSeq(t, k, end)) \in Nat
    BY <2>2, LenProperties
  <2> QED BY <2>3 DEF t, k
<1>5. /\ DOMAIN chunks \subseteq DOMAIN chunks' /\ Data \subseteq Data'
      /\ mdata' \in [Metas -> Data']
      /\ \A n \in Metas \ {m} : mdata'[n] = mdata[n]
      /\ \A e \in Data : GrownFrom(mdata[m], e) => GrownFrom(mdata'[m], e)
  <2> HIDE DEF m, data
  <2> QED BY <1>1, <1>2, <1>4, ChunkAdded
<1> HIDE DEF data, end, s, m
<1>6. /\ op' \in Ops /\ op'.pc \in Saving /\ op'.b = op.b /\ op'.m = op.m
      /\ op'.file = op.file /\ op'.text = op.text
      /\ op.pc = "evict" => op'.pc \in {"evict", "evict_meta"}
      /\ op.pc = "full" => op'.pc \in {"full", "full_meta"}
  <2>1. CASE op' = [op EXCEPT !.start = end]
    BY <1>1, <1>2, <1>3, <2>1 DEF Ops, Saving
  <2>2. CASE op' = [op EXCEPT !.start = 0,
                              !.pc = IF op.pc = "evict" THEN "evict_meta" ELSE "full_meta"]
    BY <1>1, <1>2, <2>2 DEF Ops, Saving, Labels
  <2> QED BY <1>1, <2>1, <2>2
<1>7. /\ buf' \in [Bufs -> Seq(Tokenized)] /\ offset' \in [Bufs -> Nat]
      /\ \A c \in Bufs : offset'[c] = Len(buf'[c]) /\ offset'[c] <= BlockSize
      /\ \A c \in Bufs \ UsedBufs : offset'[c] = 0
  <2>1. CASE UNCHANGED <<buf, offset>>
    BY <2>1 DEF Typed, BufInv
  <2>2. CASE \E rest \in Remaining(s) :
               /\ buf' = [buf EXCEPT ![b] = rest]
               /\ offset' = [offset EXCEPT ![b] = Len(rest)]
    <3>1. PICK rest \in Remaining(s) :
            /\ buf' = [buf EXCEPT ![b] = rest]
            /\ offset' = [offset EXCEPT ![b] = Len(rest)]
      BY <2>2
    <3>2. rest \in Seq(Tokenized) /\ Len(rest) \in Nat /\ Len(rest) <= Len(s)
      BY <1>2, RemainingShorter
    <3>3. Len(s) = offset[b] /\ offset[b] <= BlockSize /\ offset[b] \in Nat
      BY <1>2 DEF Typed, s
    <3>4. buf' \in [Bufs -> Seq(Tokenized)] /\ offset' \in [Bufs -> Nat]
      BY <3>1, <3>2 DEF Typed
    <3>5. /\ buf'[b] = rest /\ offset'[b] = Len(rest)
          /\ \A c \in Bufs \ {b} : buf'[c] = buf[c] /\ offset'[c] = offset[c]
      BY <1>2, <3>1 DEF Typed
    <3>6. offset'[b] = Len(buf'[b]) /\ offset'[b] <= BlockSize
      BY <3>2, <3>3, <3>5, BlocksAssumption
    <3>7. \A c \in Bufs \ {b} : offset'[c] = Len(buf'[c]) /\ offset'[c] <= BlockSize
      BY <3>5 DEF Typed
    <3>8. \A c \in Bufs \ UsedBufs : offset'[c] = 0
      BY <1>2, <3>5 DEF BufInv
    <3> QED BY <3>4, <3>6, <3>7, <3>8
  <2> QED BY <1>1, <2>1, <2>2
<1>8. Typed'
  <2>1. mfile' \in [Files -> Data']
    BY <1>1, <1>5 DEF Typed
  <2> QED BY <1>1, <1>5, <1>6, <1>7, <2>1 DEF Typed, Ops
<1>9. MetaInv' /\ UsedMetas' = UsedMetas /\ UsedBufs' = UsedBufs
  BY <1>1, MetaKept DEF MetaInv, UsedBufs
<1>10. OpInv'
  BY <1>1, <1>6, <1>9 DEF OpInv, Writing, Saving
<1>11. BufInv'
  BY <1>1, <1>7, <1>9 DEF BufInv
<1>12. BufRanks'
  <2>1. RanksOf(UsedBufs)
    BY <1>1 DEF BufRanks
  <2>2. RanksOf(UsedBufs)'
    BY <1>1, <1>9, <2>1 DEF RanksOf
  <2> QED BY <2>2 DEF BufRanks
<1>13. DiskInv'
  <2>1. GrownFrom(mdata[m], mfile[mname[m]]) /\ mfile[mname[m]] \in Data
    BY <1>1, <1>2 DEF DiskInv, Saving, MetaInv, Typed, m
  <2>2. GrownFrom(mdata'[m], mfile[mname[m]])
    BY <1>5, <2>1
  <2>3. ASSUME NEW n \in UsedMetas, n # m PROVE mdata'[n] = mfile[mname[n]]
    <3>1. mdata[n] = mfile[mname[n]]
      BY <2>3 DEF DiskInv, m
    <3> QED BY <1>5, <2>3, <3>1, CacheSets
  <2>4. bmdata'[op'.b] = m
    BY <1>1, <1>6 DEF m
  <2> QED BY <1>1, <1>6, <1>9, <2>2, <2>3, <2>4 DEF DiskInv
<1> QED BY <1>8, <1>9, <1>10, <1>11, <1>12, <1>13

-----------------------------------------------------------------------------
(* What Inv says holds in every state.                                     *)
LEMMA Invariant == Spec => []Inv
<1>1. Init => Inv
  <2> SUFFICES ASSUME Init PROVE Inv
    OBVIOUS
  <2>1. UsedMetas = {} /\ UsedBufs = {}
    BY DEF Init, UsedMetas, UsedBufs
  <2>2. 0 \in Metas /\ 0 \in Bufs /\ 0 <= BlockSize
    BY BlocksAssumption DEF Metas, Bufs
  <2>3. Cardinality(UsedMetas) = 0 /\ Cardinality(UsedBufs) = 0
    BY <2>1, FS_EmptySet
  <2>4. Typed
    <3>1. NoData \in Data /\ <<>> \in Seq(Tokenized) /\ Len(<<>>) = 0
      BY EmptySeq DEF NoData, Data
    <3>2. op \in Ops
      BY IdleIsOp DEF Init
    <3> QED BY <2>2, <3>1, <3>2 DEF Init, Typed, Ops
  <2>5. MetaInv
    <3>1. MetaCache!Used = {} /\ MetaCache!Cardinality(MetaCache!Used) = 0
      BY <2>1, <2>3, CacheSets, CacheCounts
    <3>2. \A m \in Metas : mlru[m] = 0
      BY DEF Init
    <3>3. MetaCache!CountersAreRanks
      BY <3>1, <3>2, CacheSets DEF MetaCache!CountersAreRanks
    <3> QED BY <2>1, <3>1, <3>3 DEF MetaInv, MetaCache!OneBlockPerFile
  <2>6. OpInv /\ BufInv /\ DiskInv
    BY <2>1 DEF Init, OpInv, BufInv, DiskInv, Idle, Writing
  <2>7. BufRanks
    BY <2>1, <2>3 DEF Init, BufRanks, RanksOf
  <2> QED BY <2>4, <2>5, <2>6, <2>7 DEF Inv
<1>2. Inv /\ [Next]_vars => Inv'
  <2>1. ASSUME Inv, NEW f \in Files,
               \/ lfs_mknod(f) \/ lfs_getattr(f) \/ lfs_read(f) \/ ParseFails(f)
               \/ \E text \in Texts : lfs_write(f, text)
        PROVE  Inv'
    BY <2>1, MknodStep, GetattrStep, ReadStep, ParseFailsStep, WriteStep
  <2>2. ASSUME Inv, \/ FindBuffer \/ TakeBuffer \/ write_buffer_to_disk \/ EndEvict
                    \/ EndFull \/ AppendText \/ Overflow \/ Restart
        PROVE  Inv'
    BY <2>2, FindBufferStep, TakeBufferStep, WriteBufferStep, EndEvictStep,
       EndFullStep, AppendTextStep, OverflowStep, RestartStep
  <2>3. ASSUME Inv, UNCHANGED vars PROVE Inv'
    <3>1. UNCHANGED <<disk, meta, buffers, op>>
      BY <2>3 DEF vars
    <3>2. Typed'
      BY <2>3, <3>1 DEF Inv, Typed, Data, disk, meta, buffers
    <3>3. MetaInv' /\ UsedMetas' = UsedMetas /\ UsedBufs' = UsedBufs
      BY <2>3, <3>1, MetaKept DEF meta, disk, buffers, UsedBufs, Inv, MetaInv
    <3>4. OpInv' /\ BufInv'
      BY <2>3, <3>1, <3>3 DEF Inv, OpInv, BufInv, meta, buffers
    <3>5. BufRanks'
      <4>1. UNCHANGED <<blru, op, UsedBufs>>
        BY <3>1, <3>3 DEF buffers
      <4>2. RanksOf(UsedBufs) => RanksOf(UsedBufs)'
        BY <4>1 DEF RanksOf
      <4>3. RanksOf(UsedBufs \ {op.b}) => RanksOf(UsedBufs \ {op.b})'
        BY <4>1 DEF RanksOf
      <4> QED BY <2>3, <4>1, <4>2, <4>3 DEF Inv, BufRanks
    <3>6. DiskInv'
      BY <2>3, <3>1, <3>3 DEF Inv, DiskInv, disk, meta, buffers
    <3> QED BY <3>2, <3>3, <3>4, <3>5, <3>6 DEF Inv
  <2> QED BY <2>1, <2>2, <2>3 DEF Next
<1> QED BY <1>1, <1>2, PTL DEF Spec

(* The counters and pointers of both caches stay indices of blocks, offset *)
(* is the length of what is in the buffer and within the page, and a       *)
(* buffer in use points to metadata (Cache.c:108-185, lfs_fuse.c:515-560). *)
THEOREM TypeCorrect == Spec => []TypeOK
<1>1. Inv => TypeOK
  <2> SUFFICES ASSUME Inv PROVE TypeOK
    OBVIOUS
  <2>1. \A b \in UsedBufs : bmdata[b] # NULL
    <3>1. \A m \in UsedMetas : m # NULL
      BY BlocksAssumption DEF UsedMetas, Metas, NULL
    <3> QED BY <3>1 DEF Inv, BufInv
  <2> QED BY <2>1 DEF Inv, Typed, TypeOK
<1> QED BY <1>1, Invariant, PTL

(* For any number of files and blocks both caches keep their order of use, *)
(* and no file gets two blocks or two buffers, although a buffer's name is *)
(* that of a block which changes hands (Cache.c:108-185).                  *)
THEOREM BothCachesSound == Spec => []CachesSound
<1>1. Inv => CachesSound
  <2> SUFFICES ASSUME Inv, op = Idle
               PROVE  /\ Meta!CountersAreRanks /\ Meta!OneBlockPerFile
                      /\ Buf!CountersAreRanks /\ Buf!OneBlockPerFile
    BY DEF CachesSound
  <2>1. RanksOf(UsedBufs)
    BY IdleRanks
  <2>2. BufCache!Inv /\ MetaCache!Inv
    BY <2>1, BufSound, MetaSound DEF Inv
  <2>3. /\ Meta!Used = UsedMetas /\ Meta!Blocks = Metas
        /\ Buf!Used = UsedBufs /\ Buf!Blocks = Bufs
    BY DEF Meta!Used, Meta!Blocks, Buf!Used, Buf!Blocks, Metas, Bufs, UsedMetas, UsedBufs
  <2>4. Meta!CountersAreRanks /\ Meta!OneBlockPerFile
    BY <2>2, <2>3, CacheSets, CacheCounts
       DEF MetaCache!Inv, MetaCache!CountersAreRanks, MetaCache!OneBlockPerFile,
           Meta!CountersAreRanks, Meta!OneBlockPerFile
  <2>5. Buf!CountersAreRanks /\ Buf!OneBlockPerFile
    BY <2>2, <2>3, CacheSets, CacheCounts
       DEF BufCache!Inv, BufCache!CountersAreRanks, BufCache!OneBlockPerFile,
           Buf!CountersAreRanks, Buf!OneBlockPerFile
  <2> QED BY <2>4, <2>5
<1> QED BY <1>1, Invariant, PTL

(* Whatever is written and whenever the process is stopped, every path of  *)
(* a metadata file or block is that of a chunk (lfs_fuse.c:441-442).       *)
THEOREM NoDanglingPath == Spec => []PathsExist
<1>1. Inv => PathsExist
  <2> SUFFICES ASSUME Inv PROVE PathsExist
    OBVIOUS
  <2>1. \A d \in Data : Range(d.paths) \subseteq DOMAIN chunks
    <3> SUFFICES ASSUME NEW d \in Data, NEW i \in DOMAIN d.paths
                 PROVE  d.paths[i] \in DOMAIN chunks
      BY DEF Range
    <3>1. d.paths \in Seq(DOMAIN chunks)
      BY DEF Data
    <3> QED BY <3>1, LenProperties, ElementOfSeq
  <2>2. /\ \A f \in Files : mfile[f] \in Data
        /\ \A m \in UsedMetas : mdata[m] \in Data
    BY CacheSets DEF Inv, Typed
  <2> QED BY <2>1, <2>2 DEF PathsExist
<1> QED BY <1>1, Invariant, PTL

(* Between requests every metadata block equals its file, so a block that  *)
(* lfs_mknod takes and forgets loses nothing (lfs_fuse.c:247-250, 586-589).*)
THEOREM NothingToWriteBack == Spec => []WriteThrough
<1>1. Inv => WriteThrough
  BY IdleRanks DEF WriteThrough
<1> QED BY <1>1, Invariant, PTL

(* No step takes anything from a metadata file, or a chunk away.           *)
LEMMA FilesGrow ==
  ASSUME Inv, [Next]_vars
  PROVE  /\ \A f \in Files : GrownFrom(mfile'[f], mfile[f])
         /\ DOMAIN chunks \subseteq DOMAIN chunks'
<1>1. ASSUME mfile' = mfile PROVE \A f \in Files : GrownFrom(mfile'[f], mfile[f])
  BY <1>1, Grown DEF Inv, Typed
<1>2. CASE \E f \in Files : lfs_mknod(f)
  <2>1. PICK f \in Files : lfs_mknod(f)
    BY <1>2
  <2>2. /\ mfile[f] = NoData /\ mfile' = [mfile EXCEPT ![f] = NewData] /\ chunks' = chunks
    BY <2>1 DEF lfs_mknod
  <2>3. GrownFrom(NewData, NoData)
    BY EmptySeq DEF GrownFrom, NewData, NoData
  <2>4. ASSUME NEW g \in Files PROVE GrownFrom(mfile'[g], mfile[g])
    <3>1. CASE g = f
      BY <2>2, <2>3, <3>1 DEF Inv, Typed
    <3>2. CASE g # f
      <4>1. mfile'[g] = mfile[g] /\ mfile[g] \in Data
        BY <2>2, <3>2 DEF Inv, Typed
      <4> QED BY <4>1, Grown
    <3> QED BY <3>1, <3>2
  <2> QED BY <2>2, <2>4
<1>3. CASE \E f \in Files : GetMetadata(f) /\ chunks' = chunks
  BY <1>1, <1>3, GetsMetadata
<1>4. CASE \E f \in Files : ParseFails(f)
  BY <1>1, <1>4, ParseFailsKeeps DEF ParseFails
<1>5. CASE FindBuffer \/ TakeBuffer \/ AppendText \/ Overflow \/ Restart \/ UNCHANGED vars
  <2>1. mfile' = mfile /\ chunks' = chunks
    BY <1>5 DEF FindBuffer, TakeBuffer, AppendText, Overflow, Restart, vars, disk
  <2> QED BY <1>1, <2>1
<1>6. CASE write_buffer_to_disk
  <2>1. mfile' = mfile
    BY <1>6 DEF write_buffer_to_disk
  <2>2. PICK name, data : AddChunk(name, data, bmdata[op.b])
    BY <1>6, Zenon DEF write_buffer_to_disk
  <2>3. DOMAIN chunks \subseteq DOMAIN chunks'
    BY <2>2 DEF AddChunk
  <2> QED BY <1>1, <2>1, <2>3
<1>7. CASE EndEvict \/ EndFull
  <2>1. /\ op.pc \in Saving /\ write_metadata_to_disk(bmdata[op.b])
        /\ chunks' = chunks
    BY <1>7 DEF EndEvict, EndFull, Saving
  <2> QED BY <2>1, Saved
<1> QED BY <1>2, <1>3, <1>4, <1>5, <1>6, <1>7
        DEF Next, lfs_getattr, lfs_read, lfs_write

(* No step, a failed assert or a restart included, makes a metadata file   *)
(* shorter or changes a path in it: writing it without O_TRUNC leaves      *)
(* nothing of the old text (lfs_fuse.c:45, 63).                            *)
THEOREM MetadataOnlyGrows == Spec => MetadataGrows
<1> DEFINE Grows == \A f \in Files : /\ IsPrefix(mfile[f].paths, mfile'[f].paths)
                                     /\ mfile[f].size <= mfile'[f].size
<1>1. ASSUME NEW d, NEW e, NEW S, d.paths \in Seq(S), e.paths \in Seq(S), GrownFrom(d, e)
      PROVE  IsPrefix(e.paths, d.paths) /\ e.size <= d.size
  <2> DEFINE p == e.paths
             q == d.paths
             n == Len(p)
  <2>1. /\ p \in Seq(S) /\ q \in Seq(S) /\ n \in Nat /\ n <= Len(q) /\ Len(q) \in Nat
        /\ \A j \in 1 .. n : p[j] = q[j] /\ p[j] \in S /\ q[j] \in S
    BY <1>1, LenProperties, ElementOfSeq DEF GrownFrom
  <2> HIDE DEF p, q
  <2>2. /\ SubSeq(p, 1, n) \in Seq(S) /\ SubSeq(q, 1, n) \in Seq(S)
        /\ Len(SubSeq(p, 1, n)) = n /\ Len(SubSeq(q, 1, n)) = n
        /\ \A j \in 1 .. n : SubSeq(p, 1, n)[j] = p[j] /\ SubSeq(q, 1, n)[j] = q[j]
    <3> HIDE DEF n
    <3>1. 1 \in Int /\ n \in Int /\ n - 1 + 1 = n /\ (1 <= n \/ n = 0)
      BY <2>1
    <3> QED BY <2>1, <3>1, SubSeqProperties
  <2>3. SubSeq(p, 1, n) = SubSeq(q, 1, n)
    BY <2>1, <2>2, SeqEqual
  <2>4. IsPrefix(p, q)
    BY <2>1, <2>3 DEF IsPrefix
  <2> QED BY <1>1, <2>4 DEF GrownFrom, p, q
<1>2. ASSUME Inv, Inv', \A f \in Files : GrownFrom(mfile'[f], mfile[f]),
             DOMAIN chunks \subseteq DOMAIN chunks'
      PROVE  Grows
  <2> SUFFICES ASSUME NEW f \in Files
               PROVE  /\ IsPrefix(mfile[f].paths, mfile'[f].paths)
                      /\ mfile[f].size <= mfile'[f].size
    OBVIOUS
  <2>1. mfile[f] \in Data /\ mfile'[f] \in Data'
    BY <1>2 DEF Inv, Typed
  <2>2. mfile[f].paths \in Seq(DOMAIN chunks') /\ mfile'[f].paths \in Seq(DOMAIN chunks')
    BY <1>2, <2>1, SeqMonotonic DEF Data
  <2> QED BY <1>1, <1>2, <2>2
<1>3. Inv /\ Inv' /\ [Next]_vars => [Grows]_vars
  BY <1>2, FilesGrow
<1> QED BY <1>3, Invariant, PTL DEF Spec, MetadataGrows
-----------------------------------------------------------------------------
(* The log.  What a buffer in use holds is written out from the start of a *)
(* line, and there is something to write.                                  *)
ChunkTokens == Tokenized \cup {NUL}
Draining ==
  /\ \A b \in UsedBufs :
       offset[b] = 0 => op.b = b /\ op.pc \in {"evict_meta", "full_meta", "append"}
  /\ op.start = 0 \/ (op.pc \in {"evict", "full"} /\ op.start \in Newlines(buf[op.b]))
ChunksTyped == \A n \in DOMAIN chunks : chunks[n] \in Seq(ChunkTokens)

(* Where the complete records are: those of the write in progress are      *)
(* still to come, the others end a line of a buffer or are in a chunk, and *)
(* so is what has been drained.  Every chunk is listed, in a file or in    *)
(* the metadata that is about to be saved.                                 *)
CompleteIn(f, text) ==
  {<<f, text[i]>> : i \in {j \in 1 .. Len(text) - 1 : text[j + 1] = NL}}
InChunk(t) == \E n \in DOMAIN chunks : t \in Range(chunks[n])
EndsLine(t) ==
  \E b \in Bufs : \E i \in 1 .. Len(buf[b]) - 1 : buf[b][i] = t /\ buf[b][i + 1] = NL
ListedNow ==
  Listed \cup (IF op.pc \in Saving THEN Range(mdata[bmdata[op.b]].paths) ELSE {})
Lost == crashed \/ op.pc \in {"aborted", "overflow"}

KeptInv ==
  ~ Lost =>
    /\ DOMAIN chunks \subseteq ListedNow
    /\ \A t \in Complete :
         \/ InChunk(t) \/ EndsLine(t)
         \/ op.pc \in Writing /\ t \in CompleteIn(op.file, op.text)
    /\ op.pc \in {"evict", "full"} => \A i \in 1 .. op.start : InChunk(buf[op.b][i])

LogInv == Draining /\ ChunksTyped /\ ChunksByDate /\ written \subseteq Files \X Texts /\ KeptInv

(* The lines that one round of write_buffer_to_disk puts into a chunk.     *)
Group(s, start) == SubSeq(s \o <<NUL>>, start + 1, GroupEnd(s, start))

LEMMA GroupTokens ==
  ASSUME NEW s \in Seq(Tokenized), NEW start \in Nat
  PROVE  /\ Group(s, start) \in Seq(ChunkTokens) /\ Len(Group(s, start)) \in Nat
         /\ \A i \in 1 .. Len(Group(s, start)) :
              /\ start + i <= GroupEnd(s, start)
              /\ start + i <= Len(s) => Group(s, start)[i] = s[start + i]
              /\ start + i > Len(s) => Group(s, start)[i] = NUL
         /\ \A j \in 1 .. Len(s) : start < j /\ j <= GroupEnd(s, start) =>
              /\ j - start \in 1 .. Len(Group(s, start))
              /\ Group(s, start)[j - start] = s[j]
<1> DEFINE t == s \o <<NUL>>
           first == start + 1
           end == GroupEnd(s, start)
           g == Group(s, start)
<1>1. /\ Len(s) \in Nat /\ t \in Seq(ChunkTokens) /\ Len(t) = Len(s) + 1
      /\ \A i \in 1 .. Len(s) : t[i] = s[i]
      /\ t[Len(s) + 1] = NUL
  <2>1. s \in Seq(ChunkTokens) /\ <<NUL>> \in Seq(ChunkTokens)
        /\ Len(<<NUL>>) = 1 /\ <<NUL>>[1] = NUL
    BY SeqMonotonic DEF ChunkTokens
  <2>2. Len(s) \in Nat
    BY LenProperties
  <2> QED BY <2>1, <2>2, ConcatProperties
<1>2. end \in Nat /\ end <= Len(s) + 1
  <2>1. Scanned(s) \in Nat /\ Scanned(s) <= Len(s) + 1
    BY ScanEnds
  <2>2. end \in Nat /\ end <= Scanned(s)
    BY ScanEnds
  <2> HIDE DEF end
  <2> QED BY <1>1, <2>1, <2>2
<1>3. \A i \in first .. end : t[i] \in ChunkTokens
  <2>1. \A i \in first .. end : i \in 1 .. Len(t)
    BY <1>1, <1>2
  <2> HIDE DEF t, first, end
  <2> QED BY <1>1, <2>1, ElementOfSeq
<1>4. /\ g \in Seq(ChunkTokens)
      /\ Len(g) = IF first <= end THEN end - first + 1 ELSE 0
      /\ \A i \in 1 .. end - first + 1 : g[i] = t[first + i - 1]
  <2>1. g = SubSeq(t, first, end) /\ first \in Int /\ end \in Int
    BY <1>2 DEF Group
  <2> HIDE DEF g, t, first, end
  <2> QED BY <1>3, <2>1, SubSeqProperties
<1>5. Len(g) = IF start < end THEN end - start ELSE 0
  <2> HIDE DEF g, end
  <2> QED BY <1>2, <1>4
<1>6. \A i \in 1 .. Len(g) : start + i <= end /\ g[i] = t[start + i]
  <2> HIDE DEF g, t, end
  <2> QED BY <1>2, <1>4, <1>5
<1>7. \A j \in 1 .. Len(s) : start < j /\ j <= end => j - start \in 1 .. Len(g) /\ start + (j - start) = j
  <2> HIDE DEF g, end
  <2> QED BY <1>1, <1>2, <1>5
<1> HIDE DEF g, t, end
<1>8. ASSUME NEW i \in 1 .. Len(g)
      PROVE  /\ start + i <= Len(s) => g[i] = s[start + i]
             /\ start + i > Len(s) => g[i] = NUL
  <2>1. CASE start + i <= Len(s)
    BY <1>1, <1>6, <2>1
  <2>2. CASE start + i > Len(s)
    <3>1. start + i = Len(s) + 1
      BY <1>1, <1>2, <1>6, <2>2
    <3> QED BY <1>1, <1>6, <2>2, <3>1
  <2> QED BY <2>1, <2>2
<1>9. /\ g \in Seq(ChunkTokens) /\ Len(g) \in Nat
  BY <1>2, <1>4, <1>5
<1>10. \A j \in 1 .. Len(s) : start < j /\ j <= end => j - start \in 1 .. Len(g) /\ g[j - start] = s[j]
  BY <1>7, <1>8
<1> QED BY <1>6, <1>8, <1>9, <1>10 DEF g, end

(* Every line of a group, also the first, begins with a record of the      *)
(* group's date.                                                           *)
LEMMA GroupDated ==
  ASSUME NEW s \in Seq(Tokenized), Len(s) > 0, NEW start \in Newlines(s) \cup {0},
         NEW i \in 1 .. Len(Group(s, start)),
         i = 1 \/ Group(s, start)[i - 1] = NL
  PROVE  Date(Group(s, start), i) = Date(s, start + 1)
<1> DEFINE g == Group(s, start)
           end == GroupEnd(s, start)
<1>1. Len(s) \in Nat /\ start \in Nat /\ start <= Len(s)
  BY LenProperties DEF Newlines
<1>2. /\ Scanned(s) \in Nat /\ Scanned(s) <= Len(s) + 1
      /\ Newlines(s) = {} \/ Scanned(s) <= Len(s)
      /\ end \in Nat /\ end <= Scanned(s)
      /\ \A j \in Newlines(s) : j > start /\ j < end => Date(s, j + 1) = Date(s, start + 1)
  BY <1>1, ScanEnds
<1>3. /\ Len(g) \in Nat
      /\ \A k \in 1 .. Len(g) : /\ start + k <= end
                                /\ start + k <= Len(s) => g[k] = s[start + k]
                                /\ start + k > Len(s) => g[k] = NUL
  BY <1>1, GroupTokens
<1> HIDE DEF g, end
<1>4. i \in 1 .. Len(g) /\ (i = 1 \/ g[i - 1] = NL)
  BY DEF g
<1>5. CASE i = 1
  <2>1. start + 1 <= Len(s)
    BY <1>1, <1>2, <1>3, <1>4, <1>5
  <2> QED BY <1>3, <1>4, <1>5, <2>1 DEF Date, g
<1>6. CASE i # 1
  <2> DEFINE j == start + i - 1
             k == i - 1
  <2>1. k \in 1 .. Len(g) /\ g[k] = NL /\ j = start + k /\ j \in Nat /\ j > start
    BY <1>1, <1>3, <1>4, <1>6
  <2>2. j <= Len(s) /\ s[j] = NL
    <3> HIDE DEF j, k
    <3> QED BY <1>1, <1>3, <2>1, TokensAssumption
  <2>3. j \in Newlines(s)
    BY <2>1, <2>2 DEF Newlines
  <2>4. j + 1 = start + i /\ j < end /\ start + i <= Len(s)
    BY <1>1, <1>2, <1>3, <1>4, <2>1, <2>3
  <2>5. Date(s, j + 1) = Date(s, start + 1)
    BY <1>2, <2>1, <2>3, <2>4
  <2> HIDE DEF j
  <2> QED BY <1>3, <1>4, <2>4, <2>5 DEF Date, g
<1> QED BY <1>5, <1>6

(* What a round does to the chunks.                                        *)
LEMMA ChunkWritten ==
  ASSUME Inv, write_buffer_to_disk
  PROVE  /\ op.b \in UsedBufs /\ buf[op.b] \in Seq(Tokenized) /\ op.start \in Nat
         /\ offset[op.b] = Len(buf[op.b])
         /\ \E name, data :
              /\ name[1] = Date(buf[op.b], op.start + 1) /\ data = Group(buf[op.b], op.start)
              /\ AddChunk(name, data, bmdata[op.b])
              /\ DOMAIN chunks' = DOMAIN chunks \cup {name}
              /\ \A n \in DOMAIN chunks : n # name => chunks'[n] = chunks[n]
              /\ name \in DOMAIN chunks => chunks'[name] = chunks[name] \o data
              /\ name \notin DOMAIN chunks => chunks'[name] = data
<1>1. op.b \in UsedBufs /\ buf[op.b] \in Seq(Tokenized) /\ op.start \in Nat
      /\ offset[op.b] = Len(buf[op.b])
  <2>1. op.b \in UsedBufs /\ op.b \in Bufs
    BY CacheSets DEF write_buffer_to_disk, Inv, OpInv, Writing
  <2> QED BY <2>1 DEF Inv, Typed
<1> DEFINE name == ChunkName(buf[op.b], op.start, bmdata[op.b])
           data == Group(buf[op.b], op.start)
<1>2. AddChunk(name, data, bmdata[op.b])
  BY DEF write_buffer_to_disk, Group
<1>3. name[1] = Date(buf[op.b], op.start + 1)
  BY DEF ChunkName
<1> HIDE DEF name, data
<1>4. /\ DOMAIN chunks' = DOMAIN chunks \cup {name}
      /\ \A n \in DOMAIN chunks : n # name => chunks'[n] = chunks[n]
      /\ name \in DOMAIN chunks => chunks'[name] = chunks[name] \o data
      /\ name \notin DOMAIN chunks => chunks'[name] = data
  <2>1. CASE name \in DOMAIN chunks
    <3>1. chunks' = [chunks EXCEPT ![name] = @ \o data]
      BY <1>2, <2>1 DEF AddChunk
    <3> QED BY <2>1, <3>1
  <2>2. CASE name \notin DOMAIN chunks
    <3>1. chunks' = [n \in DOMAIN chunks \cup {name} |->
                       IF n = name THEN data ELSE chunks[n]]
      BY <1>2, <2>2 DEF AddChunk
    <3> QED BY <2>2, <3>1
  <2> QED BY <2>1, <2>2
<1> QED BY <1>1, <1>2, <1>3, <1>4 DEF data

(* A chunk stays a sequence of lines of its date: what is added begins a   *)
(* line, and so does every record of it that follows a newline.            *)
LEMMA ChunksStep ==
  ASSUME Inv, Draining, ChunksTyped, ChunksByDate, write_buffer_to_disk
  PROVE  ChunksTyped' /\ ChunksByDate'
<1> DEFINE s == buf[op.b]
<1>1. op.b \in UsedBufs /\ s \in Seq(Tokenized) /\ op.start \in Nat /\ offset[op.b] = Len(s)
  BY ChunkWritten
<1>2. PICK name, data :
        /\ name[1] = Date(s, op.start + 1) /\ data = Group(s, op.start)
        /\ DOMAIN chunks' = DOMAIN chunks \cup {name}
        /\ \A n \in DOMAIN chunks : n # name => chunks'[n] = chunks[n]
        /\ name \in DOMAIN chunks => chunks'[name] = chunks[name] \o data
        /\ name \notin DOMAIN chunks => chunks'[name] = data
  BY ChunkWritten
<1>3. Len(s) > 0 /\ op.start \in Newlines(s) \cup {0}
  <2>1. op.pc \in {"evict", "full"}
    BY DEF write_buffer_to_disk
  <2>2. offset[op.b] # 0
    BY <1>1, <2>1 DEF Draining
  <2>3. op.start \in Newlines(s) \cup {0}
    BY <2>1 DEF Draining
  <2>4. Len(s) \in Nat
    BY <1>1, LenProperties
  <2> QED BY <1>1, <2>2, <2>3, <2>4
<1> HIDE DEF s
<1>4. data \in Seq(ChunkTokens) /\ Len(data) \in Nat
  BY <1>1, <1>2, GroupTokens
<1>5. \A i \in 1 .. Len(data) : i = 1 \/ data[i - 1] = NL => Date(data, i) = name[1]
  BY <1>1, <1>2, <1>3, GroupDated
<1>6. ASSUME NEW n \in DOMAIN chunks'
      PROVE  /\ chunks'[n] \in Seq(ChunkTokens)
             /\ \A i \in 1 .. Len(chunks'[n]) :
                  i = 1 \/ chunks'[n][i - 1] = NL => Date(chunks'[n], i) = n[1]
  <2>1. CASE n # name
    BY <1>2, <2>1 DEF ChunksTyped, ChunksByDate
  <2>2. CASE n = name /\ name \notin DOMAIN chunks
    BY <1>2, <1>4, <1>5, <2>2
  <2>3. CASE n = name /\ name \in DOMAIN chunks
    <3> DEFINE old == chunks[name]
               new == chunks'[name]
    <3>1. /\ old \in Seq(ChunkTokens) /\ Len(old) \in Nat /\ new = old \o data
          /\ \A i \in 1 .. Len(old) : i = 1 \/ old[i - 1] = NL => Date(old, i) = name[1]
      BY <1>2, <2>3, LenProperties DEF ChunksTyped, ChunksByDate
    <3> HIDE DEF old, new
    <3>2. /\ new \in Seq(ChunkTokens) /\ Len(new) = Len(old) + Len(data)
          /\ \A i \in 1 .. Len(old) : new[i] = old[i]
          /\ \A i \in 1 .. Len(data) : new[Len(old) + i] = data[i]
      <4>1. /\ old \o data \in Seq(ChunkTokens)
            /\ Len(old \o data) = Len(old) + Len(data)
            /\ \A i \in 1 .. Len(old) + Len(data) : (old \o data)[i] =
                 IF i <= Len(old) THEN old[i] ELSE data[i - Len(old)]
        BY <1>4, <3>1, ConcatProperties
      <4> QED BY <1>4, <3>1, <4>1
    <3>3. ASSUME NEW i \in 1 .. Len(new), i = 1 \/ new[i - 1] = NL
          PROVE  Date(new, i) = name[1]
      <4>1. CASE i <= Len(old)
        <5>1. i \in 1 .. Len(old) /\ new[i] = old[i]
          BY <1>4, <3>1, <3>2, <4>1
        <5>2. i = 1 \/ old[i - 1] = NL
          BY <3>1, <3>2, <3>3, <4>1
        <5> QED BY <3>1, <5>1, <5>2 DEF Date
      <4>2. CASE i > Len(old)
        <5> DEFINE k == i - Len(old)
        <5>1. k \in 1 .. Len(data) /\ i = Len(old) + k
          BY <1>4, <3>1, <3>2, <4>2
        <5>2. k = 1 \/ (k - 1 \in 1 .. Len(data) /\ i - 1 = Len(old) + (k - 1) /\ i # 1)
          BY <1>4, <3>1, <5>1
        <5> HIDE DEF k
        <5>3. k = 1 \/ data[k - 1] = NL
          BY <3>2, <3>3, <5>2
        <5> QED BY <1>5, <3>2, <5>1, <5>3 DEF Date
      <4> QED BY <3>1, <4>1, <4>2
    <3> QED BY <2>3, <3>2, <3>3 DEF new
  <2> QED BY <1>2, <2>1, <2>2, <2>3
<1> QED BY <1>6 DEF ChunksTyped, ChunksByDate

(* A buffer in use is empty only while a write is about to fill it.        *)
LEMMA DrainingStep ==
  ASSUME Inv, Draining, [Next]_vars
  PROVE  Draining'
<1> USE DEF Inv
<1>1. ASSUME UNCHANGED <<bfree, offset>>, op.pc \in {"idle", "buffer"},
             op'.start = 0
      PROVE  Draining'
  <2>1. UsedBufs' = UsedBufs /\ \A b \in UsedBufs : offset'[b] # 0
    BY <1>1 DEF UsedBufs, Draining
  <2> QED BY <1>1, <2>1 DEF Draining
<1>2. op \in Ops
  BY DEF Typed, Ops
<1>3. CASE \E f \in Files : lfs_mknod(f) \/ lfs_getattr(f) \/ lfs_read(f)
  <2>1. op = Idle /\ op' = op /\ UNCHANGED <<bfree, offset>>
    BY <1>3 DEF lfs_mknod, lfs_getattr, lfs_read, GetMetadata, buffers
  <2> QED BY <1>1, <2>1 DEF Idle
<1>4. CASE \E f \in Files, text \in Texts : lfs_write(f, text)
  <2>1. op = Idle /\ op'.start = 0 /\ UNCHANGED <<bfree, offset>>
    BY <1>4 DEF lfs_write, GetMetadata, buffers, Idle
  <2> QED BY <1>1, <2>1 DEF Idle
<1>5. CASE FindBuffer
  <2>1. op'.start = op.start /\ UNCHANGED <<bfree, offset>> /\ op.pc = "buffer"
    BY <1>2, <1>5 DEF FindBuffer, Room, Ops, buffers
  <2> QED BY <1>1, <2>1 DEF Draining
<1>6. CASE TakeBuffer
  <2> DEFINE b == Buf!get_free_cache_block
  <2>1. /\ op.pc = "buffer" /\ bfree' = [bfree EXCEPT ![b] = FALSE] /\ offset' = offset
        /\ \/ op' = Room(b)
           \/ ~ bfree[b] /\ op' = [op EXCEPT !.b = b, !.pc = "evict"]
    BY <1>6 DEF TakeBuffer
  <2>2. b \in Bufs
    BY FreeBlocks
  <2> HIDE DEF b
  <2>3. UsedBufs' = UsedBufs \cup {b} /\ (~ bfree[b] => b \in UsedBufs)
    BY <2>1, <2>2 DEF UsedBufs, Typed
  <2>4. op.start = 0 /\ \A c \in UsedBufs : offset[c] # 0
    BY <2>1 DEF Draining
  <2>5. CASE op' = Room(b)
    <3>1. /\ op'.b = b /\ op'.start = 0
          /\ offset[b] = 0 => op'.pc = "append"
      BY <1>2, <2>1, <2>2, <2>4, <2>5, HasRoom DEF Writing, Room, Ops
    <3> QED BY <2>1, <2>3, <2>4, <3>1 DEF Draining
  <2>6. CASE ~ bfree[b] /\ op' = [op EXCEPT !.b = b, !.pc = "evict"]
    <3>1. op'.start = 0
      BY <1>2, <2>4, <2>6 DEF Ops
    <3>2. UsedBufs' = UsedBufs
      BY <2>3, <2>6
    <3> QED BY <2>1, <2>4, <3>1, <3>2 DEF Draining
  <2> QED BY <2>1, <2>5, <2>6
<1>7. CASE write_buffer_to_disk
  <2> DEFINE s == buf[op.b]
             end == GroupEnd(s, op.start)
  <2>1. /\ op.pc \in {"evict", "full"} /\ bfree' = bfree
        /\ \/ /\ end < Scanned(s) /\ op' = [op EXCEPT !.start = end]
              /\ UNCHANGED <<buf, offset>>
           \/ /\ op' = [op EXCEPT !.start = 0,
                                  !.pc = IF op.pc = "evict" THEN "evict_meta" ELSE "full_meta"]
              /\ \E rest \in Remaining(s) : offset' = [offset EXCEPT ![op.b] = Len(rest)]
    BY <1>7 DEF write_buffer_to_disk
  <2>2. op.b \in UsedBufs /\ s \in Seq(Tokenized) /\ op.start \in Nat
    BY <1>7, ChunkWritten
  <2>3. end \in Newlines(s) \cup {Scanned(s)} /\ end \in Nat /\ Scanned(s) \in Nat
    BY <2>2, ScanEnds
  <2>4. UsedBufs' = UsedBufs /\ \A c \in UsedBufs : offset[c] # 0
    BY <2>1 DEF UsedBufs, Draining
  <2> HIDE DEF end
  <2>5. CASE end < Scanned(s) /\ op' = [op EXCEPT !.start = end] /\ UNCHANGED <<buf, offset>>
    <3>1. op'.start = end /\ op'.pc = op.pc /\ op'.b = op.b /\ end \in Newlines(s)
      BY <1>2, <2>3, <2>5 DEF Ops
    <3> QED BY <2>1, <2>4, <2>5, <3>1 DEF Draining
  <2>6. CASE /\ op' = [op EXCEPT !.start = 0,
                                  !.pc = IF op.pc = "evict" THEN "evict_meta" ELSE "full_meta"]
             /\ \E rest \in Remaining(s) : offset' = [offset EXCEPT ![op.b] = Len(rest)]
    <3>1. op'.start = 0 /\ op'.pc \in {"evict_meta", "full_meta"} /\ op'.b = op.b
      BY <1>2, <2>6 DEF Ops
    <3>2. \A c \in UsedBufs : c # op.b => offset'[c] = offset[c]
      BY <2>6, CacheSets DEF Typed
    <3> QED BY <2>4, <3>1, <3>2 DEF Draining
  <2> QED BY <2>1, <2>5, <2>6
<1>8. CASE EndEvict
  <2>1. /\ op.pc = "evict_meta" /\ op' = Room(op.b) /\ UNCHANGED <<bfree, offset>>
        /\ op.b \in Bufs
    BY <1>8, CacheSets DEF EndEvict, OpInv, Writing
  <2>2. /\ op'.b = op.b /\ op'.start = op.start /\ op.start = 0
        /\ offset[op.b] = 0 => op'.pc = "append"
    <3>1. op'.b = op.b /\ (offset[op.b] = 0 => op'.pc = "append")
      BY <2>1, HasRoom DEF Writing
    <3>2. op'.start = op.start
      BY <1>2, <2>1 DEF Room, Ops
    <3> QED BY <2>1, <3>1, <3>2 DEF Draining
  <2>3. UsedBufs' = UsedBufs /\ \A c \in UsedBufs : offset[c] = 0 => c = op.b
    BY <2>1 DEF UsedBufs, Draining
  <2> QED BY <2>1, <2>2, <2>3 DEF Draining
<1>9. CASE EndFull
  <2>1. /\ op.pc = "full_meta" /\ op' = [op EXCEPT !.pc = "append"] /\ UNCHANGED <<bfree, offset>>
    BY <1>9 DEF EndFull, buffers
  <2>2. op'.b = op.b /\ op'.start = 0 /\ op'.pc = "append"
    BY <1>2, <2>1 DEF Ops, Draining
  <2> QED BY <2>1, <2>2 DEF Draining, UsedBufs
<1>10. CASE AppendText
  <2>1. /\ op.pc = "append" /\ op' = Idle /\ bfree' = bfree
        /\ offset' = [offset EXCEPT ![op.b] = @ + Len(op.text)]
    BY <1>10 DEF AppendText
  <2>2. op.text \in Texts /\ op.b \in Bufs
    BY <2>1, CacheSets DEF OpInv, Writing
  <2>3. Len(op.text) \in Nat /\ Len(op.text) > 0
    BY <2>2, TextsAssumption, BlocksAssumption
  <2>4. offset \in [Bufs -> Nat]
    BY DEF Typed
  <2>5. offset'[op.b] # 0 /\ \A c \in Bufs \ {op.b} : offset'[c] = offset[c]
    BY <2>1, <2>2, <2>3, <2>4
  <2>6. \A c \in UsedBufs : offset'[c] # 0
    BY <2>1, <2>5, CacheSets DEF Draining
  <2> QED BY <2>1, <2>6 DEF Draining, UsedBufs, Idle
<1>11. CASE Overflow
  <2>1. /\ op.pc = "append" /\ offset[op.b] + Len(op.text) > BlockSize
        /\ op' = [Idle EXCEPT !.pc = "overflow"] /\ UNCHANGED <<bfree, offset>>
    BY <1>11 DEF Overflow, buffers
  <2>2. op.text \in Texts
    BY <2>1 DEF OpInv, Writing
  <2>3. offset[op.b] # 0
    BY <2>1, <2>2, TextsAssumption, BlocksAssumption
  <2>4. op'.start = 0 /\ \A c \in UsedBufs : offset[c] # 0
    BY <2>1, <2>3 DEF Draining, Idle
  <2> QED BY <2>1, <2>4 DEF Draining, UsedBufs
<1>12. CASE Restart \/ \E f \in Files : ParseFails(f)
  <2>1. LoseMemory /\ op'.start = 0
    BY <1>12 DEF Restart, ParseFails, Idle
  <2>2. UsedBufs' = {}
    BY <2>1 DEF LoseMemory, UsedBufs
  <2> QED BY <2>1, <2>2 DEF Draining
<1>13. CASE UNCHANGED vars
  BY <1>13 DEF vars, buffers, Draining, UsedBufs
<1> QED BY <1>3, <1>4, <1>5, <1>6, <1>7, <1>8, <1>9, <1>10, <1>11, <1>12, <1>13 DEF Next

(* What is listed stays listed.                                            *)
LEMMA GrownRange ==
  ASSUME NEW S, NEW d, NEW e, e.paths \in Seq(S), Len(d.paths) \in Nat,
         DOMAIN d.paths = 1 .. Len(d.paths), GrownFrom(d, e)
  PROVE  Range(e.paths) \subseteq Range(d.paths)
<1>1. Len(e.paths) \in Nat /\ DOMAIN e.paths = 1 .. Len(e.paths)
  BY LenProperties
<1>2. \A i \in DOMAIN e.paths : i \in DOMAIN d.paths /\ d.paths[i] = e.paths[i]
  BY <1>1 DEF GrownFrom
<1> QED BY <1>2 DEF Range

PathsAre ==
  \A d \in Data : /\ d.paths \in Seq(DOMAIN chunks) /\ Len(d.paths) \in Nat
                 /\ DOMAIN d.paths = 1 .. Len(d.paths)

LEMMA PathsOfData == PathsAre
BY LenProperties DEF Data, PathsAre

LEMMA PathsNext == PathsAre'
BY PathsOfData, PTL

LEMMA ListedGrows ==
  ASSUME Inv, Inv', [Next]_vars
  PROVE  Listed \subseteq Listed'
<1>1. ASSUME NEW f \in Files PROVE Range(mfile[f].paths) \subseteq Range(mfile'[f].paths)
  <2>1. mfile[f] \in Data /\ mfile'[f] \in Data'
    BY DEF Inv, Typed
  <2>2. GrownFrom(mfile'[f], mfile[f])
    BY FilesGrow
  <2> QED BY <2>1, <2>2, PathsOfData, PathsNext, GrownRange DEF PathsAre
<1> QED BY <1>1 DEF Listed

(* Where a round of write_buffer_to_disk leads.                            *)
LEMMA RoundEnds ==
  ASSUME Inv, write_buffer_to_disk
  PROVE  /\ op'.b = op.b /\ op'.file = op.file /\ op'.text = op.text
         /\ op'.pc \in Saving /\ crashed' = crashed
         /\ \/ /\ op'.pc = op.pc /\ op'.start = GroupEnd(buf[op.b], op.start) /\ buf' = buf
               /\ GroupEnd(buf[op.b], op.start) < Scanned(buf[op.b])
            \/ /\ op'.pc \in {"evict_meta", "full_meta"}
               /\ GroupEnd(buf[op.b], op.start) = Scanned(buf[op.b])
               /\ \A b \in Bufs : b # op.b => buf'[b] = buf[b]
<1> DEFINE end == GroupEnd(buf[op.b], op.start)
<1>1. op \in Ops /\ op.pc \in {"evict", "full"} /\ crashed' = crashed
  BY DEF write_buffer_to_disk, Inv, Typed, Ops
<1>2. \/ op' = [op EXCEPT !.start = end] /\ buf' = buf /\ end < Scanned(buf[op.b])
      \/ /\ op' = [op EXCEPT !.start = 0,
                             !.pc = IF op.pc = "evict" THEN "evict_meta" ELSE "full_meta"]
         /\ end = Scanned(buf[op.b])
         /\ \E rest : buf' = [buf EXCEPT ![op.b] = rest]
  BY DEF write_buffer_to_disk
<1> HIDE DEF end
<1>3. CASE op' = [op EXCEPT !.start = end] /\ buf' = buf /\ end < Scanned(buf[op.b])
  BY <1>1, <1>3 DEF Ops, Saving, end
<1>4. CASE /\ op' = [op EXCEPT !.start = 0,
                               !.pc = IF op.pc = "evict" THEN "evict_meta" ELSE "full_meta"]
           /\ end = Scanned(buf[op.b])
           /\ \E rest : buf' = [buf EXCEPT ![op.b] = rest]
  <2>1. /\ op'.b = op.b /\ op'.file = op.file /\ op'.text = op.text
        /\ op'.pc \in {"evict_meta", "full_meta"}
    BY <1>1, <1>4 DEF Ops
  <2>2. \A b \in Bufs : b # op.b => buf'[b] = buf[b]
    BY <1>4 DEF Inv, Typed
  <2> QED BY <1>1, <1>4, <2>1, <2>2 DEF Saving, end
<1> QED BY <1>2, <1>3, <1>4

(* A round lists its chunk, in the metadata of the block that is to be     *)
(* saved if it is new.                                                     *)
LEMMA RoundLists ==
  ASSUME Inv, Inv', write_buffer_to_disk, DOMAIN chunks \subseteq ListedNow
  PROVE  DOMAIN chunks' \subseteq ListedNow'
<1> DEFINE m == bmdata[op.b]
<1>1. PICK name, data :
        /\ data = Group(buf[op.b], op.start)
        /\ AddChunk(name, data, m)
        /\ DOMAIN chunks' = DOMAIN chunks \cup {name}
  BY ChunkWritten
<1>2. m \in Metas /\ m \in UsedMetas /\ op.pc \in Saving
  <2>1. op.b \in UsedBufs /\ op.pc \in Saving
    BY ChunkWritten DEF write_buffer_to_disk, Saving
  <2> QED BY <2>1, CacheSets DEF Inv, BufInv
<1>3. Len(data) \in Nat
  BY <1>1, ChunkWritten, GroupTokens
<1>4. mdata[m] \in Data /\ mdata'[m] \in Data'
  BY <1>2 DEF Inv, Typed
<1>5. /\ op'.pc \in Saving /\ bmdata'[op'.b] = m /\ Listed' = Listed
  BY RoundEnds DEF write_buffer_to_disk, Listed
<1> HIDE DEF m
<1>6. GrownFrom(mdata'[m], mdata[m])
  BY <1>1, <1>2, <1>3, <1>4, ChunkAdded, Grown
<1>7. Range(mdata[m].paths) \subseteq Range(mdata'[m].paths)
  BY <1>4, <1>6, PathsOfData, PathsNext, GrownRange DEF PathsAre
<1>8. ListedNow = Listed \cup Range(mdata[m].paths)
  BY <1>2 DEF ListedNow, m
<1>9. ListedNow' = Listed' \cup Range(mdata'[m].paths)
  BY <1>5 DEF ListedNow
<1>10. CASE name \in DOMAIN chunks
  BY <1>1, <1>5, <1>7, <1>8, <1>9, <1>10
<1>11. CASE name \notin DOMAIN chunks
  <2>1. mdata'[m].paths = Append(mdata[m].paths, name)
    BY <1>1, <1>2, <1>11 DEF AddChunk, Inv, Typed
  <2>2. /\ Len(mdata'[m].paths) = Len(mdata[m].paths) + 1
        /\ mdata'[m].paths[Len(mdata[m].paths) + 1] = name
    <3>1. mdata[m].paths \in Seq(DOMAIN chunks \cup {name})
      BY <1>4, PathsOfData, SeqMonotonic DEF PathsAre
    <3> QED BY <2>1, <3>1, AppendProperties
  <2>3. name \in Range(mdata'[m].paths)
    <3>1. Len(mdata[m].paths) + 1 \in DOMAIN mdata'[m].paths
      BY <1>4, <2>2, PathsOfData, PathsNext DEF PathsAre
    <3> QED BY <2>2, <3>1 DEF Range
  <2> QED BY <1>1, <1>5, <1>7, <1>8, <1>9, <2>3
<1> QED BY <1>10, <1>11

(* Chunks keep what they have and get what the round drains.               *)
LEMMA RoundFills ==
  ASSUME Inv, ChunksTyped, write_buffer_to_disk, NEW t,
         \/ InChunk(t)
         \/ \E j \in 1 .. Len(buf[op.b]) :
              op.start < j /\ j <= GroupEnd(buf[op.b], op.start) /\ t = buf[op.b][j]
  PROVE  InChunk(t)'
<1> DEFINE s == buf[op.b]
<1>1. s \in Seq(Tokenized) /\ op.start \in Nat
  BY ChunkWritten
<1>2. PICK name, data :
        /\ data = Group(s, op.start)
        /\ DOMAIN chunks' = DOMAIN chunks \cup {name}
        /\ \A n \in DOMAIN chunks : n # name => chunks'[n] = chunks[n]
        /\ name \in DOMAIN chunks => chunks'[name] = chunks[name] \o data
        /\ name \notin DOMAIN chunks => chunks'[name] = data
  BY ChunkWritten
<1> HIDE DEF s
<1>3. data \in Seq(ChunkTokens) /\ Len(data) \in Nat /\ DOMAIN data = 1 .. Len(data)
  BY <1>1, <1>2, GroupTokens, LenProperties
<1>4. /\ Range(data) \subseteq Range(chunks'[name])
      /\ name \in DOMAIN chunks => Range(chunks[name]) \subseteq Range(chunks'[name])
  <2>1. CASE name \notin DOMAIN chunks
    BY <1>2, <2>1
  <2>2. CASE name \in DOMAIN chunks
    <3> DEFINE old == chunks[name]
               new == chunks'[name]
    <3>1. /\ old \in Seq(ChunkTokens) /\ Len(old) \in Nat /\ DOMAIN old = 1 .. Len(old)
          /\ new = old \o data
      BY <1>2, <2>2, LenProperties DEF ChunksTyped
    <3> HIDE DEF old, new
    <3>2. /\ new \in Seq(ChunkTokens) /\ DOMAIN new = 1 .. Len(old) + Len(data)
          /\ \A i \in 1 .. Len(old) : new[i] = old[i]
          /\ \A i \in 1 .. Len(data) : new[Len(old) + i] = data[i]
      <4>1. /\ old \o data \in Seq(ChunkTokens)
            /\ Len(old \o data) = Len(old) + Len(data)
            /\ \A i \in 1 .. Len(old) + Len(data) : (old \o data)[i] =
                 IF i <= Len(old) THEN old[i] ELSE data[i - Len(old)]
        BY <1>3, <3>1, ConcatProperties
      <4>2. DOMAIN (old \o data) = 1 .. Len(old) + Len(data)
        BY <4>1, LenProperties
      <4> QED BY <1>3, <3>1, <4>1, <4>2
    <3>3. Range(old) \subseteq Range(new)
      <4>1. \A i \in DOMAIN old : i \in DOMAIN new /\ new[i] = old[i]
        BY <1>3, <3>1, <3>2
      <4> QED BY <4>1 DEF Range
    <3>4. Range(data) \subseteq Range(new)
      <4>1. \A i \in DOMAIN data : Len(old) + i \in DOMAIN new /\ new[Len(old) + i] = data[i]
        BY <1>3, <3>1, <3>2
      <4> QED BY <4>1 DEF Range
    <3> QED BY <3>3, <3>4 DEF old, new
  <2> QED BY <2>1, <2>2
<1>5. CASE InChunk(t)
  <2>1. PICK n \in DOMAIN chunks : t \in Range(chunks[n])
    BY <1>5 DEF InChunk
  <2>2. n \in DOMAIN chunks' /\ t \in Range(chunks'[n])
    BY <1>2, <1>4, <2>1
  <2> QED BY <2>2 DEF InChunk
<1>6. CASE \E j \in 1 .. Len(s) :
             op.start < j /\ j <= GroupEnd(s, op.start) /\ t = s[j]
  <2>1. PICK j \in 1 .. Len(s) :
          op.start < j /\ j <= GroupEnd(s, op.start) /\ t = s[j]
    BY <1>6
  <2>2. j - op.start \in 1 .. Len(data) /\ data[j - op.start] = t
    BY <1>1, <1>2, <2>1, GroupTokens
  <2>3. t \in Range(data)
    BY <1>3, <2>2 DEF Range
  <2>4. name \in DOMAIN chunks' /\ t \in Range(chunks'[name])
    BY <1>2, <1>4, <2>3
  <2> QED BY <2>4 DEF InChunk
<1> QED BY <1>5, <1>6 DEF s

(* A round loses no record: what the buffer gives up, all that ends a line *)
(* of it, is in a chunk by then.                                           *)
LEMMA RoundKeeps ==
  ASSUME Inv, Inv', ChunksTyped, KeptInv, write_buffer_to_disk
  PROVE  KeptInv'
<1> DEFINE s == buf[op.b]
           end == GroupEnd(s, op.start)
<1> SUFFICES ASSUME ~ Lost'
             PROVE  /\ (DOMAIN chunks \subseteq ListedNow)'
                    /\ (\A t \in Complete :
                          \/ InChunk(t) \/ EndsLine(t)
                          \/ op.pc \in Writing /\ t \in CompleteIn(op.file, op.text))'
                    /\ (op.pc \in {"evict", "full"} =>
                          \A i \in 1 .. op.start : InChunk(buf[op.b][i]))'
  BY DEF KeptInv
<1>1. /\ op.pc \in {"evict", "full"} /\ written' = written
      /\ crashed' = crashed /\ op.b \in Bufs
      /\ s \in Seq(Tokenized) /\ op.start \in Nat
  <2>1. op.b \in UsedBufs /\ s \in Seq(Tokenized) /\ op.start \in Nat
    BY ChunkWritten
  <2> QED BY <2>1, CacheSets DEF write_buffer_to_disk
<1>2. /\ DOMAIN chunks \subseteq ListedNow
      /\ \A t \in Complete : \/ InChunk(t) \/ EndsLine(t)
                             \/ t \in CompleteIn(op.file, op.text)
      /\ \A i \in 1 .. op.start : InChunk(s[i])
  BY <1>1 DEF KeptInv, Lost
<1>3. end \in Nat /\ \A i \in Newlines(s) : i <= Scanned(s)
  BY <1>1, ScanEnds
<1>4. /\ op'.b = op.b /\ op'.file = op.file /\ op'.text = op.text /\ op'.pc \in Saving
      /\ \/ /\ op'.pc = op.pc /\ op'.start = end /\ buf' = buf
            /\ end <= Len(s)
         \/ /\ op'.pc \in {"evict_meta", "full_meta"} /\ end = Scanned(s)
            /\ \A b \in Bufs : b # op.b => buf'[b] = buf[b]
  <2>1. Len(s) \in Nat /\ Scanned(s) \in Nat /\ Scanned(s) <= Len(s) + 1
    BY <1>1, LenProperties, ScanEnds
  <2>2. end < Scanned(s) => end <= Len(s)
    BY <1>3, <2>1
  <2> QED BY <2>2, RoundEnds
<1>5. ASSUME NEW i \in 1 .. Len(s), i <= end, NEW t, t = s[i] PROVE InChunk(t)'
  <2>1. CASE i <= op.start
    <3>1. InChunk(t)
      BY <1>1, <1>2, <1>5, <2>1
    <3> QED BY <3>1, RoundFills
  <2>2. CASE op.start < i
    BY <1>5, <2>2, RoundFills
  <2> QED BY <1>1, <2>1, <2>2
<1>6. (DOMAIN chunks \subseteq ListedNow)'
  BY <1>2, RoundLists
<1>7. Len(s) \in Nat
  BY <1>1, LenProperties
<1> HIDE DEF end
<1>8. (op.pc \in {"evict", "full"} => \A i \in 1 .. op.start : InChunk(buf[op.b][i]))'
  <2> SUFFICES ASSUME op'.pc \in {"evict", "full"}, NEW i \in 1 .. op'.start,
                      NEW t, t = buf'[op'.b][i]
               PROVE  InChunk(t)'
    BY DEF InChunk
  <2>1. op'.start = end /\ t = s[i] /\ end <= Len(s)
    BY <1>4, Zenon DEF Saving
  <2>2. i \in 1 .. Len(s) /\ i <= end
    BY <1>3, <1>7, <2>1
  <2> QED BY <1>5, <2>1, <2>2
<1>9. (\A t \in Complete :
         \/ InChunk(t) \/ EndsLine(t)
         \/ op.pc \in Writing /\ t \in CompleteIn(op.file, op.text))'
  <2> SUFFICES ASSUME NEW t \in Complete'
               PROVE  \/ InChunk(t)' \/ EndsLine(t)'
                      \/ op'.pc \in Writing /\ t \in CompleteIn(op'.file, op'.text)
    BY DEF CompleteIn
  <2>1. t \in Complete
    BY <1>1 DEF Complete
  <2>2. CASE InChunk(t)
    BY <2>2, RoundFills
  <2>3. CASE t \in CompleteIn(op.file, op.text)
    BY <1>4, <2>3 DEF Saving, Writing
  <2>4. CASE EndsLine(t)
    <3>1. PICK b \in Bufs :
            \E i \in 1 .. Len(buf[b]) - 1 : buf[b][i] = t /\ buf[b][i + 1] = NL
      BY <2>4 DEF EndsLine
    <3>2. CASE buf'[b] = buf[b]
      BY <3>1, <3>2 DEF EndsLine
    <3>3. CASE buf'[b] # buf[b]
      <4>1. b = op.b /\ end = Scanned(s)
        BY <1>4, <3>3
      <4>2. PICK i \in 1 .. Len(s) : i + 1 \in 1 .. Len(s) /\ s[i] = t /\ s[i + 1] = NL
        BY <1>7, <3>1, <4>1
      <4>3. i + 1 \in Newlines(s)
        BY <4>2 DEF Newlines
      <4>4. i <= end
        BY <1>3, <4>1, <4>2, <4>3
      <4> QED BY <1>5, <4>2, <4>4
    <3> QED BY <3>2, <3>3
  <2> QED BY <1>2, <2>1, <2>2, <2>3, <2>4
<1> QED BY <1>6, <1>8, <1>9

(* Steps that touch neither buffers nor chunks.                            *)
LEMMA KeptStays ==
  ASSUME KeptInv, UNCHANGED <<chunks, buf, written>>,
         ~ Lost' => ~ Lost /\ ListedNow \subseteq ListedNow',
         op.pc \in Writing => op'.pc \in Writing /\ op'.file = op.file /\ op'.text = op.text,
         op'.pc \in {"evict", "full"} => op'.start = 0
  PROVE  KeptInv'
<1> SUFFICES ASSUME ~ Lost' PROVE
      /\ (DOMAIN chunks \subseteq ListedNow)'
      /\ (\A t \in Complete :
            \/ InChunk(t) \/ EndsLine(t)
            \/ op.pc \in Writing /\ t \in CompleteIn(op.file, op.text))'
      /\ (op.pc \in {"evict", "full"} => \A i \in 1 .. op.start : InChunk(buf[op.b][i]))'
  BY DEF KeptInv
<1>1. (DOMAIN chunks \subseteq ListedNow)'
  BY DEF KeptInv
<1>2. Complete' = Complete /\ \A t : InChunk(t)' = InChunk(t) /\ EndsLine(t)' = EndsLine(t)
  BY DEF Complete, InChunk, EndsLine
<1>3. ASSUME NEW t \in Complete'
      PROVE  \/ InChunk(t)' \/ EndsLine(t)'
             \/ op'.pc \in Writing /\ t \in CompleteIn(op'.file, op'.text)
  BY <1>2 DEF KeptInv
<1>4. op'.pc \in {"evict", "full"} => 1 .. op'.start = {}
  OBVIOUS
<1> QED BY <1>1, <1>3, <1>4 DEF CompleteIn

(* A step of a write loses no record, and saving lists what was added.     *)
LEMMA SavesListed ==
  ASSUME Inv, Inv', EndEvict \/ EndFull
  PROVE  ListedNow \subseteq ListedNow'
<1> DEFINE m == bmdata[op.b]
<1>1. op.pc \in Saving /\ write_metadata_to_disk(m)
  BY DEF EndEvict, EndFull, Saving
<1>2. m \in UsedMetas /\ mname[m] \in Files
  <2>1. op.b \in UsedBufs
    BY <1>1 DEF Inv, OpInv, Saving, Writing
  <2> QED BY <2>1 DEF Inv, BufInv, MetaInv
<1>3. mfile'[mname[m]] = mdata[m]
  BY <1>1, <1>2, Saved
<1>4. Listed \subseteq Listed'
  BY ListedGrows DEF Next
<1>5. Range(mdata[m].paths) \subseteq Listed'
  BY <1>2, <1>3 DEF Listed
<1> QED BY <1>1, <1>4, <1>5 DEF ListedNow

LEMMA WriteKeeps ==
  ASSUME Inv, Inv', KeptInv, NEW f \in Files, NEW text \in Texts, lfs_write(f, text)
  PROVE  KeptInv'
<1>1. /\ op = Idle /\ written' = written \cup {<<f, text>>}
      /\ op'.pc = "buffer" /\ op'.file = f /\ op'.text = text
      /\ UNCHANGED <<chunks, buf, crashed>>
  BY DEF lfs_write, GetMetadata, buffers, Idle
<1>2. ListedNow \subseteq ListedNow'
  <2>1. Listed \subseteq Listed'
    BY ListedGrows DEF Next
  <2> QED BY <1>1, <2>1 DEF ListedNow, Idle, Saving
<1>3. Complete' = Complete \cup CompleteIn(f, text)
  <2>1. \A t : t \in Complete <=> \E w \in written : t \in CompleteIn(w[1], w[2])
    BY DEF Complete, CompleteIn
  <2>2. \A t : t \in Complete' <=> \E w \in written' : t \in CompleteIn(w[1], w[2])
    BY DEF Complete, CompleteIn
  <2>3. <<f, text>>[1] = f /\ <<f, text>>[2] = text
    OBVIOUS
  <2>4. \A t : t \in Complete' <=> t \in Complete \/ t \in CompleteIn(f, text)
    BY <1>1, <2>1, <2>2, <2>3
  <2> QED BY <2>4
<1>4. \A t : InChunk(t)' = InChunk(t) /\ EndsLine(t)' = EndsLine(t)
  BY <1>1 DEF InChunk, EndsLine
<1> SUFFICES ASSUME ~ Lost' PROVE
      /\ (DOMAIN chunks \subseteq ListedNow)'
      /\ (\A t \in Complete :
            \/ InChunk(t) \/ EndsLine(t)
            \/ op.pc \in Writing /\ t \in CompleteIn(op.file, op.text))'
  BY <1>1 DEF KeptInv
<1>5. ~ Lost
  BY <1>1 DEF Lost, Idle
<1>6. (DOMAIN chunks \subseteq ListedNow)'
  BY <1>1, <1>2, <1>5 DEF KeptInv
<1>7. ASSUME NEW t \in Complete'
      PROVE  \/ InChunk(t)' \/ EndsLine(t)'
             \/ op'.pc \in Writing /\ t \in CompleteIn(op'.file, op'.text)
  <2>1. CASE t \in CompleteIn(f, text)
    BY <1>1, <2>1 DEF Writing
  <2>2. CASE t \in Complete
    BY <1>1, <1>4, <1>5, <2>2 DEF KeptInv, Idle, Writing
  <2> QED BY <1>3, <2>1, <2>2
<1> QED BY <1>6, <1>7 DEF CompleteIn

(* The text comes to the end of the buffer, newlines included.             *)
LEMMA AppendKeeps ==
  ASSUME Inv, Inv', KeptInv, AppendText
  PROVE  KeptInv'
<1> DEFINE b == op.b
           old == buf[b]
           new == buf'[b]
           text == op.text
           added == Tokens(op.file, text)
<1>1. /\ op.pc = "append" /\ op' = Idle
      /\ buf' = [buf EXCEPT ![b] = old \o added]
      /\ UNCHANGED <<chunks, written, mfile, crashed>>
  BY DEF AppendText, disk
<1>2. /\ op.file \in Files /\ text \in Texts /\ b \in Bufs
      /\ old \in Seq(Tokenized)
  <2>1. op.file \in Files /\ text \in Texts /\ b \in Bufs
    BY <1>1, CacheSets DEF Inv, OpInv, Writing
  <2> QED BY <2>1 DEF Inv, Typed
<1>3. /\ text \in Seq(Records \cup {NL}) /\ Len(text) \in Nat
      /\ DOMAIN text = 1 .. Len(text)
      /\ \A i \in 1 .. Len(text) - 1 : text[i + 1] = NL => text[i] # NL
  BY <1>2, TextsAssumption, LenProperties
<1>4. /\ added \in Seq(Tokenized) /\ Len(added) = Len(text)
      /\ \A i \in 1 .. Len(text) :
           added[i] = IF text[i] = NL THEN NL ELSE <<op.file, text[i]>>
  <2>1. \A i \in 1 .. Len(text) : text[i] \in Records \cup {NL}
    BY <1>3, ElementOfSeq
  <2>2. added = [i \in 1 .. Len(text) |-> IF text[i] = NL THEN NL ELSE <<op.file, text[i]>>]
    BY <1>3 DEF Tokens
  <2> DEFINE n == Len(text)
  <2>3. n \in Nat /\ added \in [1 .. n -> Tokenized]
    BY <1>2, <1>3, <2>1, <2>2 DEF Tokenized
  <2>4. added \in Seq(Tokenized) /\ Len(added) = n
    <3> HIDE DEF added, n
    <3> QED BY <2>3, MetaCache!SequenceOf, BlocksAssumption, FilesAssumption
  <2> QED BY <2>2, <2>4
<1>5. new = old \o added /\ \A c \in Bufs \ {b} : buf'[c] = buf[c]
  BY <1>1, <1>2 DEF Inv, Typed
<1> HIDE DEF old, new, added, text, b
<1>6. /\ Len(old) \in Nat /\ Len(new) = Len(old) + Len(text)
      /\ \A i \in 1 .. Len(old) : new[i] = old[i]
      /\ \A i \in 1 .. Len(text) : new[Len(old) + i] = added[i]
  <2>1. /\ Len(old \o added) = Len(old) + Len(added)
        /\ \A i \in 1 .. Len(old) + Len(added) : (old \o added)[i] =
             IF i <= Len(old) THEN old[i] ELSE added[i - Len(old)]
    <3>1. old \in Seq(Tokenized) /\ added \in Seq(Tokenized)
      BY <1>2, <1>4
    <3> QED BY <3>1, ConcatProperties
  <2>2. Len(old) \in Nat
    BY <1>2, LenProperties
  <2> QED BY <1>3, <1>4, <1>5, <2>1, <2>2
<1>7. ASSUME NEW t, EndsLine(t) PROVE EndsLine(t)'
  <2>1. PICK c \in Bufs : \E i \in 1 .. Len(buf[c]) - 1 : buf[c][i] = t /\ buf[c][i + 1] = NL
    BY <1>7 DEF EndsLine
  <2>2. CASE c # b
    BY <1>5, <2>1, <2>2 DEF EndsLine
  <2>3. CASE c = b
    <3>1. PICK i \in 1 .. Len(old) - 1 : old[i] = t /\ old[i + 1] = NL
      BY <2>1, <2>3 DEF old
    <3>2. i \in 1 .. Len(new) - 1 /\ new[i] = t /\ new[i + 1] = NL
      BY <1>3, <1>6, <3>1
    <3> QED BY <1>2, <3>2 DEF EndsLine, new
  <2> QED BY <2>2, <2>3
<1>8. ASSUME NEW t, t \in CompleteIn(op.file, text) PROVE EndsLine(t)'
  <2>1. PICK i \in 1 .. Len(text) - 1 : t = <<op.file, text[i]>> /\ text[i + 1] = NL
    BY <1>8 DEF CompleteIn
  <2>2. i \in 1 .. Len(text) /\ i + 1 \in 1 .. Len(text) /\ text[i] # NL
    BY <1>3, <2>1
  <2>3. added[i] = t /\ added[i + 1] = NL
    BY <1>4, <2>1, <2>2
  <2> DEFINE j == Len(old) + i
  <2>4. j \in 1 .. Len(new) - 1 /\ new[j] = t /\ new[j + 1] = NL
    <3>1. new[Len(old) + i] = t /\ new[Len(old) + (i + 1)] = NL
      BY <1>6, <2>2, <2>3
    <3>2. j \in 1 .. Len(new) - 1 /\ j + 1 = Len(old) + (i + 1)
      BY <1>3, <1>6, <2>2
    <3> QED BY <3>1, <3>2
  <2> HIDE DEF j
  <2> QED BY <1>2, <2>4 DEF EndsLine, new
<1> SUFFICES ASSUME ~ Lost' PROVE
      /\ (DOMAIN chunks \subseteq ListedNow)'
      /\ (\A t \in Complete : InChunk(t) \/ EndsLine(t))'
  BY <1>1 DEF KeptInv, Idle
<1>9. ~ Lost
  BY <1>1 DEF Lost, Idle
<1>10. (DOMAIN chunks \subseteq ListedNow)'
  BY <1>1, <1>9 DEF KeptInv, ListedNow, Listed, Saving
<1>11. ASSUME NEW t \in Complete' PROVE InChunk(t)' \/ EndsLine(t)'
  <2>1. t \in Complete /\ InChunk(t)' = InChunk(t)
    BY <1>1 DEF Complete, InChunk
  <2>2. InChunk(t) \/ EndsLine(t) \/ t \in CompleteIn(op.file, text)
    BY <1>9, <2>1 DEF KeptInv, text
  <2> QED BY <1>7, <1>8, <2>1, <2>2
<1> QED BY <1>10, <1>11

LEMMA KeptStep ==
  ASSUME Inv, Inv', LogInv, Next
  PROVE  KeptInv'
<1> USE DEF LogInv
<1>1. Listed \subseteq Listed'
  BY ListedGrows
<1>2. op \in Ops
  BY DEF Inv, Typed, Ops
<1>3. CASE \E f \in Files : lfs_mknod(f) \/ lfs_getattr(f) \/ lfs_read(f)
  <2>1. op = Idle /\ op' = Idle /\ UNCHANGED <<chunks, buf, written, crashed>>
    BY <1>3 DEF lfs_mknod, lfs_getattr, lfs_read, GetMetadata, buffers
  <2>2. ListedNow \subseteq ListedNow'
    BY <1>1, <2>1 DEF ListedNow, Idle, Saving
  <2> QED BY <2>1, <2>2, KeptStays DEF Lost, Idle, Writing
<1>4. CASE \E f \in Files, text \in Texts : lfs_write(f, text)
  BY <1>4, WriteKeeps
<1>5. CASE FindBuffer \/ TakeBuffer
  <2>1. /\ op.pc = "buffer" /\ UNCHANGED <<chunks, buf, written, crashed>>
        /\ \/ \E b : op' = Room(b)
           \/ \E b : op' = [op EXCEPT !.b = b, !.pc = "evict"]
    BY <1>5 DEF FindBuffer, TakeBuffer, disk, buffers
  <2>2. /\ op'.pc \in {"full", "append", "evict"} /\ op'.file = op.file
        /\ op'.text = op.text /\ op'.start = op.start
    BY <1>2, <2>1 DEF Room, Ops
  <2>3. op.start = 0
    BY <2>1 DEF Draining
  <2>4. ListedNow \subseteq ListedNow'
    BY <1>1, <2>1 DEF ListedNow, Saving
  <2>5. Lost => Lost'
    BY <2>1 DEF Lost
  <2> QED BY <2>1, <2>2, <2>3, <2>4, <2>5, KeptStays DEF Writing
<1>6. CASE write_buffer_to_disk
  BY <1>6, RoundKeeps
<1>7. CASE EndEvict \/ EndFull
  <2>1. /\ op.pc \in {"evict_meta", "full_meta"} /\ UNCHANGED <<chunks, buf, written, crashed>>
        /\ op' = Room(op.b) \/ op' = [op EXCEPT !.pc = "append"]
    BY <1>7 DEF EndEvict, EndFull, buffers
  <2>2. /\ op'.pc \in {"full", "append"} /\ op'.file = op.file
        /\ op'.text = op.text /\ op'.start = op.start
    BY <1>2, <2>1 DEF Room, Ops
  <2>3. op.start = 0
    BY <2>1 DEF Draining
  <2>4. ListedNow \subseteq ListedNow'
    BY <1>7, SavesListed
  <2>5. Lost => Lost'
    BY <2>1 DEF Lost
  <2> QED BY <2>1, <2>2, <2>3, <2>4, <2>5, KeptStays DEF Writing
<1>8. CASE AppendText
  BY <1>8, AppendKeeps
<1>9. CASE Overflow \/ Restart \/ \E f \in Files : ParseFails(f)
  <2>1. op'.pc \in {"overflow", "aborted"} \/ crashed'
    BY <1>9 DEF Overflow, Restart, ParseFails, Idle
  <2> QED BY <2>1 DEF KeptInv, Lost
<1> QED BY <1>3, <1>4, <1>5, <1>6, <1>7, <1>8, <1>9 DEF Next

LEMMA LogInvariant == Spec => []LogInv
<1>1. Init => LogInv
  <2> SUFFICES ASSUME Init PROVE LogInv
    OBVIOUS
  <2>1. DOMAIN chunks = {}
    BY DEF Init
  <2>2. Draining /\ ChunksTyped /\ ChunksByDate
    BY <2>1 DEF Init, Draining, ChunksTyped, ChunksByDate, UsedBufs, Idle
  <2>3. KeptInv
    BY <2>1 DEF Init, KeptInv, Complete, Idle
  <2> QED BY <2>2, <2>3 DEF LogInv, Init
<1>2. Inv /\ Inv' /\ LogInv /\ [Next]_vars => LogInv'
  <2> SUFFICES ASSUME Inv, Inv', LogInv, [Next]_vars PROVE LogInv'
    OBVIOUS
  <2>1. Draining'
    BY DrainingStep DEF LogInv
  <2>2. ChunksTyped' /\ ChunksByDate'
    <3>1. CASE write_buffer_to_disk
      BY <3>1, ChunksStep DEF LogInv
    <3>2. CASE UNCHANGED chunks
      BY <3>2 DEF LogInv, ChunksTyped, ChunksByDate
    <3>3. write_buffer_to_disk \/ UNCHANGED chunks
      BY DEF Next, vars, disk, lfs_mknod, lfs_getattr, lfs_read, ParseFails, lfs_write,
             FindBuffer, TakeBuffer, EndEvict, EndFull, AppendText, Overflow, Restart
    <3> QED BY <3>1, <3>2, <3>3
  <2>3. written' \subseteq Files \X Texts
    <3>1. CASE \E f \in Files, text \in Texts : lfs_write(f, text)
      BY <3>1 DEF lfs_write, LogInv
    <3>2. CASE UNCHANGED written
      BY <3>2 DEF LogInv
    <3>3. (\E f \in Files, text \in Texts : lfs_write(f, text)) \/ UNCHANGED written
      BY DEF Next, vars, lfs_mknod, lfs_getattr, lfs_read, ParseFails, FindBuffer, TakeBuffer,
             write_buffer_to_disk, EndEvict, EndFull, AppendText, Overflow, Restart
    <3> QED BY <3>1, <3>2, <3>3
  <2>4. KeptInv'
    <3>1. CASE UNCHANGED vars
      BY <3>1 DEF LogInv, vars, disk, meta, buffers, KeptInv, Lost, ListedNow, Listed,
                  Complete, InChunk, EndsLine, CompleteIn
    <3> QED BY <3>1, KeptStep
  <2> QED BY <2>1, <2>2, <2>3, <2>4 DEF LogInv
<1> QED BY <1>1, <1>2, Invariant, PTL DEF Spec

(* For any number of files, buffers and writes, no complete record is lost *)
(* until a crash: it is in a buffer or in a chunk that a metadata file     *)
(* lists, although buffers change hands with what remains in them          *)
(* (Cache.c:336-417).                                                      *)
THEOREM NoRecordLost == Spec => []NothingLost
<1>1. Inv /\ LogInv => NothingLost
  <2> SUFFICES ASSUME Inv, LogInv, op = Idle, ~ crashed, NEW t \in Complete
               PROVE  t \in Kept
    BY DEF NothingLost
  <2>1. DOMAIN chunks \subseteq Listed /\ (InChunk(t) \/ EndsLine(t))
    BY DEF LogInv, KeptInv, Lost, Idle, ListedNow, Saving, Writing
  <2>2. CASE InChunk(t)
    <3>1. PICK n \in DOMAIN chunks : t \in Range(chunks[n])
      BY <2>2 DEF InChunk
    <3>2. n \in Listed
      BY <2>1, <3>1
    <3> QED BY <3>1, <3>2 DEF Kept
  <2>3. CASE EndsLine(t)
    <3>1. PICK b \in Bufs : \E i \in 1 .. Len(buf[b]) - 1 : buf[b][i] = t
      BY <2>3 DEF EndsLine
    <3>2. DOMAIN buf[b] = 1 .. Len(buf[b]) /\ Len(buf[b]) \in Nat
      BY LenProperties DEF Inv, Typed
    <3>3. t \in Range(buf[b])
      BY <3>1, <3>2 DEF Range
    <3> QED BY <3>3 DEF Kept
  <2> QED BY <2>1, <2>2, <2>3
<1> QED BY <1>1, Invariant, LogInvariant, PTL

(* Every line of every chunk begins with a record of the chunk's date: the *)
(* groups of write_buffer_to_disk break where the date changes, and the    *)
(* first line of what is added has the date of the chunk's name            *)
(* (Cache.c:343-378).                                                      *)
THEOREM ChunksOfOneDate == Spec => []ChunksByDate
<1>1. LogInv => ChunksByDate
  BY DEF LogInv
<1> QED BY <1>1, LogInvariant, PTL

(* What is saved stays.                                                    *)
LEMMA PrefixOfConcat ==
  ASSUME NEW S, NEW s \in Seq(S), NEW t \in Seq(S)
  PROVE  IsPrefix(s, s) /\ IsPrefix(s, s \o t)
<1> DEFINE n == Len(s)
           u == s \o t
<1>1. /\ n \in Nat /\ u \in Seq(S) /\ Len(u) = n + Len(t) /\ Len(t) \in Nat
      /\ \A i \in 1 .. n : u[i] = s[i] /\ s[i] \in S
  BY LenProperties, ConcatProperties, ElementOfSeq
<1> HIDE DEF u
<1>2. /\ SubSeq(s, 1, n) \in Seq(S) /\ SubSeq(u, 1, n) \in Seq(S)
      /\ Len(SubSeq(s, 1, n)) = n /\ Len(SubSeq(u, 1, n)) = n
      /\ \A j \in 1 .. n : SubSeq(s, 1, n)[j] = s[j] /\ SubSeq(u, 1, n)[j] = u[j]
  <2> HIDE DEF n
  <2>1. 1 \in Int /\ n \in Int /\ n - 1 + 1 = n /\ (1 <= n \/ n = 0)
    BY <1>1
  <2> QED BY <1>1, <2>1, SubSeqProperties
<1>3. SubSeq(s, 1, n) = SubSeq(u, 1, n)
  <2> HIDE DEF n
  <2> QED BY <1>1, <1>2, SeqEqual
<1>4. n <= n /\ n <= Len(u)
  <2> HIDE DEF n
  <2> QED BY <1>1
<1> QED BY <1>3, <1>4 DEF IsPrefix, u

LEMMA ChunksGrow ==
  ASSUME Inv, ChunksTyped, [Next]_vars, NEW n \in DOMAIN chunks
  PROVE  IsPrefix(chunks[n], chunks'[n])
<1>1. chunks[n] \in Seq(ChunkTokens)
  BY DEF ChunksTyped
<1>2. CASE write_buffer_to_disk
  <2>1. PICK name, data :
          /\ data = Group(buf[op.b], op.start)
          /\ \A k \in DOMAIN chunks : k # name => chunks'[k] = chunks[k]
          /\ name \in DOMAIN chunks => chunks'[name] = chunks[name] \o data
    BY <1>2, ChunkWritten
  <2>2. data \in Seq(ChunkTokens)
    BY <1>2, <2>1, ChunkWritten, GroupTokens
  <2>3. IsPrefix(chunks[n], chunks[n]) /\ IsPrefix(chunks[n], chunks[n] \o data)
    BY <1>1, <2>2, PrefixOfConcat
  <2> QED BY <2>1, <2>3
<1>3. CASE UNCHANGED chunks
  BY <1>1, <1>3, PrefixOfConcat
<1>4. write_buffer_to_disk \/ UNCHANGED chunks
  BY DEF Next, vars, disk, lfs_mknod, lfs_getattr, lfs_read, ParseFails, lfs_write,
         FindBuffer, TakeBuffer, EndEvict, EndFull, AppendText, Overflow, Restart
<1> QED BY <1>2, <1>3, <1>4

(* Whatever is written and wherever the process stops and starts again, a  *)
(* chunk that a metadata file lists stays listed and keeps its lines       *)
(* (Cache.c:360, 397, lfs_fuse.c:45).                                      *)
THEOREM SavedStaysEver == Spec => SavedStays
<1>1. ASSUME Inv, Inv', LogInv, [Next]_vars
      PROVE  \A n \in Listed : n \in Listed' /\ IsPrefix(chunks[n], chunks'[n])
  <2>1. Listed \subseteq DOMAIN chunks
    <3> SUFFICES ASSUME NEW f \in Files PROVE Range(mfile[f].paths) \subseteq DOMAIN chunks
      BY DEF Listed
    <3>1. mfile[f].paths \in Seq(DOMAIN chunks)
      <4>1. mfile[f] \in Data
        BY <1>1 DEF Inv, Typed
      <4> QED BY <4>1 DEF Data
    <3>2. \A i \in DOMAIN mfile[f].paths : mfile[f].paths[i] \in DOMAIN chunks
      BY <3>1, LenProperties, ElementOfSeq
    <3> QED BY <3>2 DEF Range
  <2>2. Listed \subseteq Listed'
    BY <1>1, ListedGrows
  <2>3. \A n \in DOMAIN chunks : IsPrefix(chunks[n], chunks'[n])
    BY <1>1, ChunksGrow DEF LogInv
  <2> QED BY <2>1, <2>2, <2>3
<1>2. Inv /\ Inv' /\ LogInv /\ [Next]_vars =>
        [\A n \in Listed : n \in Listed' /\ IsPrefix(chunks[n], chunks'[n])]_vars
  BY <1>1
<1> QED BY <1>2, Invariant, LogInvariant, PTL DEF Spec, SavedStays

-----------------------------------------------------------------------------
(* The sums of lfs_read: what bufOffset comes to, one chunk after another. *)
Offsets(s, k, g) ==
  /\ g \in [0 .. k -> Nat] /\ g[0] = 0
  /\ \A i \in 1 .. k : g[i] = g[i - 1] + s[i] + 1

LEMMA OffsetNext ==
  ASSUME NEW s, NEW k \in Nat \ {0}, s[k] \in Nat, NEW g, Offsets(s, k - 1, g)
  PROVE  \E h : Offsets(s, k, h) /\ h[k] = g[k - 1] + s[k] + 1
<1> DEFINE h == [i \in 0 .. k |-> IF i = k THEN g[k - 1] + s[k] + 1 ELSE g[i]]
<1>1. k - 1 \in 0 .. k - 1 /\ k \in 0 .. k /\ 0 \in 0 .. k - 1
  OBVIOUS
<1>2. /\ g \in [0 .. k - 1 -> Nat] /\ g[0] = 0 /\ g[k - 1] \in Nat
      /\ \A i \in 1 .. k - 1 : g[i] = g[i - 1] + s[i] + 1
  BY <1>1 DEF Offsets
<1>3. /\ DOMAIN h = 0 .. k /\ h[k] = g[k - 1] + s[k] + 1
      /\ \A i \in 0 .. k - 1 : h[i] = g[i]
  OBVIOUS
<1>4. h \in [0 .. k -> Nat]
  <2>1. \A i \in 0 .. k : (IF i = k THEN g[k - 1] + s[k] + 1 ELSE g[i]) \in Nat
    BY <1>2
  <2> QED BY <2>1
<1> HIDE DEF h
<1>5. ASSUME NEW i \in 1 .. k PROVE h[i] = h[i - 1] + s[i] + 1
  <2>1. i - 1 \in 0 .. k - 1 /\ (i = k \/ i \in 1 .. k - 1)
    OBVIOUS
  <2>2. CASE i = k
    BY <1>3, <2>1, <2>2
  <2>3. CASE i \in 1 .. k - 1
    BY <1>2, <1>3, <2>1, <2>3
  <2> QED BY <2>1, <2>2, <2>3
<1>6. Offsets(s, k, h)
  BY <1>1, <1>2, <1>3, <1>4, <1>5 DEF Offsets
<1> QED BY <1>3, <1>6

LEMMA OffsetsExist ==
  ASSUME NEW s \in Seq(Nat)
  PROVE  \E g : Offsets(s, Len(s), g)
<1> DEFINE S == {k \in 0 .. Len(s) : \E g : Offsets(s, k, g)}
<1>1. Len(s) \in Nat /\ \A i \in 1 .. Len(s) : s[i] \in Nat
  BY LenProperties, ElementOfSeq
<1>2. 0 \in S
  <2>1. Offsets(s, 0, [i \in 0 .. 0 |-> 0])
    BY DEF Offsets
  <2> QED BY <1>1, <2>1
<1>3. ASSUME NEW k \in 1 .. Len(s), k - 1 \in S PROVE k \in S
  <2>1. PICK g : Offsets(s, k - 1, g)
    BY <1>3
  <2>2. k \in Nat \ {0} /\ s[k] \in Nat
    BY <1>1
  <2>3. \E h : Offsets(s, k, h)
    BY <2>1, <2>2, OffsetNext
  <2> QED BY <1>1, <2>3
<1>4. \A k \in 0 .. Len(s) : k \in S
  <2> HIDE DEF S
  <2> QED BY <1>1, <1>2, <1>3, UpTo
<1>5. Len(s) \in 0 .. Len(s)
  BY <1>1
<1> QED BY <1>4, <1>5

(* A function with these sums is the one that the loop computes.           *)
LEMMA OffsetIs ==
  ASSUME NEW s \in Seq(Nat), NEW g, Offsets(s, Len(s), g)
  PROVE  bufOffset(s) = g[Len(s)]
<1> DEFINE n == Len(s)
           Loop(h) == h = [i \in 0 .. n |-> IF i = 0 THEN 0 ELSE h[i - 1] + s[i] + 1]
           after == CHOOSE h : Loop(h)
<1>1. n \in Nat /\ \A i \in 1 .. n : s[i] \in Nat
  BY LenProperties, ElementOfSeq
<1>2. Loop(g)
  <2>1. \A i \in 0 .. n : g[i] = IF i = 0 THEN 0 ELSE g[i - 1] + s[i] + 1
    BY <1>1 DEF Offsets
  <2>2. g = [i \in 0 .. n |-> g[i]]
    BY DEF Offsets
  <2> HIDE DEF n
  <2> QED BY <2>1, <2>2
<1>3. bufOffset(s) = after[n]
  BY DEF bufOffset
<1>4. Loop(after)
  <2> HIDE DEF Loop
  <2> QED BY <1>2, Zenon
<1> HIDE DEF after
<1>5. after[0] = 0 /\ \A i \in 1 .. n : after[i] = after[i - 1] + s[i] + 1
  <2>1. \A i \in 0 .. n : after[i] = IF i = 0 THEN 0 ELSE after[i - 1] + s[i] + 1
    BY <1>4
  <2> HIDE DEF n
  <2> QED BY <1>1, <2>1
<1> DEFINE S == {i \in 0 .. n : after[i] = g[i]}
<1>6. 0 \in S
  BY <1>1, <1>5 DEF Offsets
<1>7. ASSUME NEW i \in 1 .. n, i - 1 \in S PROVE i \in S
  BY <1>1, <1>5, <1>7 DEF Offsets
<1>8. \A i \in 0 .. n : i \in S
  <2> HIDE DEF S, n
  <2> QED BY <1>1, <1>6, <1>7, UpTo
<1>9. n \in 0 .. n
  BY <1>1
<1> QED BY <1>3, <1>8, <1>9

LEMMA OffsetNat ==
  ASSUME NEW s \in Seq(Nat)
  PROVE  bufOffset(s) \in Nat
<1>1. PICK g : Offsets(s, Len(s), g)
  BY OffsetsExist
<1>2. Len(s) \in 0 .. Len(s)
  BY LenProperties
<1> QED BY <1>1, <1>2, OffsetIs DEF Offsets

LEMMA OffsetEmpty == bufOffset(<<>>) = 0
<1>1. PICK g : Offsets(<<>>, Len(<<>>), g)
  BY OffsetsExist, EmptySeq
<1> QED BY <1>1, OffsetIs, EmptySeq DEF Offsets

LEMMA OffsetAppend ==
  ASSUME NEW s \in Seq(Nat), NEW n \in Nat
  PROVE  bufOffset(Append(s, n)) = bufOffset(s) + n + 1
<1> DEFINE t == Append(s, n)
           k == Len(s) + 1
<1>1. /\ t \in Seq(Nat) /\ Len(t) = k /\ t[k] = n
      /\ Len(s) \in Nat /\ k \in Nat \ {0} /\ k - 1 = Len(s)
      /\ \A i \in 1 .. Len(s) : t[i] = s[i]
  BY AppendProperties, LenProperties
<1>2. PICK g : Offsets(s, Len(s), g)
  BY OffsetsExist
<1> HIDE DEF t, k
<1>3. Offsets(t, k - 1, g)
  BY <1>1, <1>2 DEF Offsets
<1>4. PICK h : Offsets(t, k, h) /\ h[k] = g[k - 1] + t[k] + 1
  BY <1>1, <1>3, OffsetNext
<1>5. bufOffset(s) = g[k - 1]
  BY <1>1, <1>2, OffsetIs
<1>6. bufOffset(t) = h[k]
  BY <1>1, <1>4, OffsetIs
<1> QED BY <1>1, <1>4, <1>5, <1>6 DEF t

LEMMA PlusBound ==
  ASSUME NEW a \in Nat, NEW b \in Nat, NEW c \in Nat, NEW e \in Nat, NEW j \in Int,
         a = b + c + 1, b >= e + (j - 1)
  PROVE  a >= e + j
OBVIOUS

LEMMA OffsetAdd ==
  ASSUME NEW s \in Seq(Nat), NEW t \in Seq(Nat), Len(t) = Len(s),
         NEW k \in 1 .. Len(s), NEW d \in Nat, t[k] = s[k] + d,
         \A i \in 1 .. Len(s) : i # k => t[i] = s[i]
  PROVE  bufOffset(t) = bufOffset(s) + d
<1> DEFINE n == Len(s)
<1>1. n \in Nat /\ \A i \in 1 .. n : s[i] \in Nat
  BY LenProperties, ElementOfSeq
<1>2. PICK g : Offsets(s, n, g)
  BY OffsetsExist
<1> DEFINE h == [i \in 0 .. n |-> IF i < k THEN g[i] ELSE g[i] + d]
<1> HIDE DEF n
<1>3. g \in [0 .. n -> Nat] /\ g[0] = 0 /\ \A i \in 1 .. n : g[i] = g[i - 1] + s[i] + 1
  BY <1>2 DEF Offsets
<1>4. /\ h \in [0 .. n -> Nat]
      /\ \A i \in 0 .. n : h[i] = IF i < k THEN g[i] ELSE g[i] + d
  <2>1. ASSUME NEW i \in 0 .. n PROVE (IF i < k THEN g[i] ELSE g[i] + d) \in Nat
    <3> DEFINE x == g[i]
    <3>1. x \in Nat
      BY <1>3
    <3> HIDE DEF x
    <3>2. x + d \in Nat
      BY <3>1
    <3> QED BY <3>1, <3>2 DEF x
  <2> QED BY <2>1
<1> HIDE DEF h
<1>5. k \in 1 .. n /\ 0 \in 0 .. n /\ n \in 0 .. n
  BY <1>1 DEF n
<1>6. ASSUME NEW i \in 1 .. n PROVE h[i] = h[i - 1] + t[i] + 1
  <2>1. i - 1 \in 0 .. n /\ i \in 0 .. n /\ i \in Int /\ k \in Int
    BY <1>1, <1>5
  <2>2. g[i] = g[i - 1] + s[i] + 1 /\ g[i] \in Nat /\ g[i - 1] \in Nat /\ s[i] \in Nat
    BY <1>1, <1>3, <2>1
  <2>3. t[i] = IF i = k THEN s[i] + d ELSE s[i]
    BY DEF n
  <2>4. /\ h[i] = IF i < k THEN g[i] ELSE g[i] + d
        /\ h[i - 1] = IF i - 1 < k THEN g[i - 1] ELSE g[i - 1] + d
    BY <1>4, <2>1
  <2>5. /\ g[i] + d = g[i - 1] + (s[i] + d) + 1
        /\ g[i] + d = (g[i - 1] + d) + s[i] + 1
    <3> DEFINE x == g[i]
               y == g[i - 1]
               z == s[i]
    <3>1. x = y + z + 1 /\ x \in Nat /\ y \in Nat /\ z \in Nat
      BY <2>2
    <3> HIDE DEF x, y, z
    <3>2. x + d = y + (z + d) + 1 /\ x + d = (y + d) + z + 1
      BY <3>1
    <3> QED BY <3>2 DEF x, y, z
  <2>6. CASE i < k
    <3>1. i - 1 < k /\ i # k
      BY <2>1, <2>6
    <3> QED BY <2>2, <2>3, <2>4, <2>6, <3>1
  <2>7. CASE i = k
    <3>1. i - 1 < k /\ ~ (i < k)
      BY <2>1, <2>7
    <3>2. h[i] = g[i] + d /\ h[i - 1] = g[i - 1] /\ t[i] = s[i] + d
      BY <2>3, <2>4, <2>7, <3>1
    <3> QED BY <2>5, <3>2
  <2>8. CASE k < i
    <3>1. ~ (i - 1 < k) /\ ~ (i < k) /\ i # k
      BY <2>1, <2>8
    <3>2. h[i] = g[i] + d /\ h[i - 1] = g[i - 1] + d /\ t[i] = s[i]
      BY <2>3, <2>4, <3>1
    <3> QED BY <2>5, <3>2
  <2> QED BY <2>1, <2>6, <2>7, <2>8
<1>7. Offsets(t, n, h)
  BY <1>3, <1>4, <1>5, <1>6 DEF Offsets
<1>8. h[n] = g[n] + d
  BY <1>1, <1>4, <1>5
<1>9. bufOffset(s) = g[n] /\ bufOffset(t) = h[n]
  BY <1>2, <1>7, OffsetIs DEF n
<1> QED BY <1>8, <1>9

(* No chunk is longer than the others leave room for.                      *)
LEMMA OffsetBounds ==
  ASSUME NEW s \in Seq(Nat), NEW i \in 1 .. Len(s)
  PROVE  s[i] + Len(s) <= bufOffset(s)
<1> DEFINE n == Len(s)
<1>1. n \in Nat /\ \A j \in 1 .. n : s[j] \in Nat
  BY LenProperties, ElementOfSeq
<1>2. PICK g : Offsets(s, n, g)
  BY OffsetsExist
<1> DEFINE S == {j \in 0 .. n : g[j] >= j /\ (i <= j => g[j] >= s[i] + j)}
<1>3. 0 \in S
  BY <1>1, <1>2 DEF Offsets
<1>4. ASSUME NEW j \in 1 .. n, j - 1 \in S PROVE j \in S
  <2>1. /\ j - 1 \in 0 .. n /\ j \in 0 .. n /\ j \in Int /\ i \in Int
        /\ s[i] \in Nat /\ s[j] \in Nat
    BY <1>1
  <2>2. g[j] = g[j - 1] + s[j] + 1 /\ g[j - 1] \in Nat /\ g[j] \in Nat
    BY <1>2, <2>1 DEF Offsets
  <2>3. g[j - 1] >= j - 1 /\ (i <= j - 1 => g[j - 1] >= s[i] + (j - 1))
    BY <1>4
  <2>4. CASE i = j
    BY <2>1, <2>2, <2>3, <2>4
  <2>5. CASE i # j
    <3>1. i <= j => i <= j - 1
      BY <2>1, <2>5
    <3>2. g[j] >= j
      BY <2>1, <2>2, <2>3
    <3>3. i <= j => g[j] >= s[i] + j
      <4>1. ASSUME i <= j PROVE g[j - 1] >= s[i] + (j - 1)
        BY <2>3, <3>1, <4>1
      <4> QED BY <2>1, <2>2, <4>1, PlusBound
    <3> QED BY <2>1, <3>2, <3>3
  <2> QED BY <2>4, <2>5
<1>5. \A j \in 0 .. n : j \in S
  <2> HIDE DEF S, n
  <2> QED BY <1>1, <1>3, <1>4, UpTo
<1>6. n \in 0 .. n /\ i <= n
  BY <1>1
<1>7. g[n] >= s[i] + n
  BY <1>5, <1>6
<1> QED BY <1>2, <1>7, OffsetIs

(* The metadata of a file as it is, or will be when the write in progress  *)
(* has saved it.                                                           *)
Newest(f) ==
  IF op.pc \in Saving /\ mname[bmdata[op.b]] = f THEN mdata[bmdata[op.b]] ELSE mfile[f]

(* The chunks that metadata d of file f lists are all its own, none twice, *)
(* and its size counts them all.                                           *)
Lengths(d, files) == [i \in DOMAIN d.paths |-> Len(files[d.paths[i]])]
Counted(f, d, files) ==
  /\ \A i \in DOMAIN d.paths : d.paths[i][2] = f
  /\ \A i, j \in DOMAIN d.paths : d.paths[i] = d.paths[j] => i = j
  /\ d # NoData => d.size + Len(d.paths) = bufOffset(Lengths(d, files))

SizeInv == ~ Lost => \A f \in Files : Counted(f, Newest(f), chunks)

LEMMA LengthsAre ==
  ASSUME NEW files, \A n \in DOMAIN files : Len(files[n]) \in Nat,
         NEW d, d.paths \in Seq(DOMAIN files)
  PROVE  /\ Lengths(d, files) \in Seq(Nat)
         /\ Len(Lengths(d, files)) = Len(d.paths) /\ Len(d.paths) \in Nat
         /\ DOMAIN d.paths = 1 .. Len(d.paths)
         /\ \A i \in 1 .. Len(d.paths) :
              d.paths[i] \in DOMAIN files /\ Lengths(d, files)[i] = Len(files[d.paths[i]])
<1> DEFINE n == Len(d.paths)
<1>1. /\ n \in Nat /\ DOMAIN d.paths = 1 .. n
      /\ \A i \in 1 .. n : d.paths[i] \in DOMAIN files
  BY LenProperties, ElementOfSeq
<1> HIDE DEF n
<1>2. /\ Lengths(d, files) \in [1 .. n -> Nat]
      /\ \A i \in 1 .. n : Lengths(d, files)[i] = Len(files[d.paths[i]])
  BY <1>1 DEF Lengths
<1>3. Lengths(d, files) \in Seq(Nat) /\ Len(Lengths(d, files)) = n
  BY <1>1, <1>2, IsASeq, LenProperties
<1> QED BY <1>1, <1>2, <1>3 DEF n

LEMMA SizesAgreeAtRest ==
  ASSUME Inv, ChunksTyped, SizeInv
  PROVE  SizesAgree
<1> SUFFICES ASSUME op = Idle, ~ crashed, NEW f \in Files, mfile[f] # NoData
             PROVE  st_size(f) = ReadLength(f)
  BY DEF SizesAgree
<1> DEFINE d == mfile[f]
           s == Lengths(d, chunks)
<1>1. Metadata(f) = d
  <2>1. \A m \in UsedMetas : mdata[m] = mfile[mname[m]]
    BY IdleRanks
  <2> QED BY <2>1, FindMeta DEF FoundMeta, Metadata
<1>2. d \in Data /\ d.paths \in Seq(DOMAIN chunks) /\ d.size \in Int
  BY DEF Inv, Typed, Data
<1>3. \A n \in DOMAIN chunks : Len(chunks[n]) \in Nat
  BY LenProperties DEF ChunksTyped
<1>4. d.size + Len(d.paths) = bufOffset(s)
  <2>1. ~ Lost /\ Newest(f) = d
    BY DEF Lost, Idle, Newest, Saving
  <2> QED BY <2>1 DEF SizeInv, Counted
<1>5. /\ s \in Seq(Nat) /\ Len(s) = Len(d.paths) /\ Len(s) \in Nat
      /\ DOMAIN d.paths = 1 .. Len(s)
      /\ \A i \in 1 .. Len(s) : s[i] = Len(chunks[d.paths[i]]) /\ s[i] \in Nat
  <2> HIDE DEF d
  <2>1. /\ s \in Seq(Nat) /\ Len(s) = Len(d.paths) /\ Len(d.paths) \in Nat
        /\ DOMAIN d.paths = 1 .. Len(d.paths)
        /\ \A i \in 1 .. Len(d.paths) :
             d.paths[i] \in DOMAIN chunks /\ s[i] = Len(chunks[d.paths[i]])
    BY <1>2, <1>3, LengthsAre
  <2> QED BY <1>3, <2>1
<1> HIDE DEF s, d
<1>6. ASSUME NEW i \in 1 .. Len(s) PROVE Min({s[i], d.size}) = s[i]
  <2>1. s[i] <= d.size
    <3>1. s[i] + Len(s) <= bufOffset(s)
      BY <1>5, OffsetBounds
    <3> QED BY <1>2, <1>4, <1>5, <3>1
  <2>2. s[i] \in Int
    BY <1>5
  <2> DEFINE x == s[i]
             y == d.size
  <2>3. x <= y /\ x \in Int /\ y \in Int
    BY <1>2, <2>1, <2>2
  <2> HIDE DEF x, y
  <2>4. \A z \in {x, y} : (\A w \in {x, y} : z <= w) => z = x
    BY <2>3
  <2>5. x \in {x, y} /\ \A w \in {x, y} : x <= w
    BY <2>3
  <2>6. Min({x, y}) = x
    BY <2>4, <2>5, Zenon DEF Min
  <2> QED BY <2>6 DEF x, y
<1>7. [i \in DOMAIN d.paths |-> Min({Len(chunks[d.paths[i]]), d.size})] = s
  <2>1. s = [i \in 1 .. Len(s) |-> s[i]]
    BY <1>5 DEF s, Lengths
  <2> QED BY <1>5, <1>6, <2>1
<1>8. ReadLength(f) = bufOffset(s) + Buffered(f, [b \in Bufs |-> Len(buf[b])])
  BY <1>1, <1>7 DEF ReadLength
<1>9. Buffered(f, [b \in Bufs |-> Len(buf[b])]) = Buffered(f, offset) /\ Buffered(f, offset) \in Nat
  <2> DEFINE b == Buf!find_meta_data_block(f)
  <2>1. b = NULL \/ b \in Bufs
    BY FindBuf, CacheSets DEF FoundBuf
  <2> HIDE DEF b
  <2>2. Buffered(f, offset) = (IF b = NULL THEN 0 ELSE offset[b])
    BY DEF Buffered, b
  <2>3. Buffered(f, [c \in Bufs |-> Len(buf[c])])
          = (IF b = NULL THEN 0 ELSE [c \in Bufs |-> Len(buf[c])][b])
    BY DEF Buffered, b
  <2> QED BY <2>1, <2>2, <2>3 DEF Inv, Typed
<1>10. st_size(f) = d.size + Buffered(f, offset) + Len(d.paths)
  BY <1>1 DEF st_size
<1> DEFINE x == Buffered(f, offset)
           y == bufOffset(s)
           z == d.size
           k == Len(d.paths)
<1>11. x \in Nat /\ z \in Int /\ k \in Nat /\ y = z + k
  BY <1>2, <1>4, <1>5, <1>9
<1>12. st_size(f) = z + x + k /\ ReadLength(f) = y + x
  BY <1>8, <1>9, <1>10
<1> HIDE DEF x, y, z, k
<1>13. z + x + k = y + x
  BY <1>11
<1> QED BY <1>12, <1>13

(* A round that adds to another file's chunk changes nothing here.         *)
LEMMA CountedSame ==
  ASSUME NEW files, NEW more, NEW f, NEW d, d.paths \in Seq(DOMAIN files),
         Counted(f, d, files), NEW name, name[2] # f,
         \A n \in DOMAIN files : n # name => more[n] = files[n]
  PROVE  Counted(f, d, more)
<1>1. \A i \in DOMAIN d.paths : d.paths[i] \in DOMAIN files /\ d.paths[i] # name
  BY LenProperties, ElementOfSeq DEF Counted
<1>2. Lengths(d, more) = Lengths(d, files)
  BY <1>1 DEF Lengths
<1> QED BY <1>2 DEF Counted

(* One that adds to a chunk that is listed adds to its term of the sum.    *)
LEMMA CountedMore ==
  ASSUME NEW files, NEW more, NEW f, NEW d, NEW e, NEW name, NEW k \in Nat,
         \A n \in DOMAIN files : Len(files[n]) \in Nat,
         d.paths \in Seq(DOMAIN files), d.size \in Int, d # NoData, Counted(f, d, files),
         name \in Range(d.paths), DOMAIN more = DOMAIN files,
         \A n \in DOMAIN files : n # name => more[n] = files[n],
         Len(more[name]) = Len(files[name]) + k,
         e.paths = d.paths, e.size = d.size + k
  PROVE  Counted(f, e, more)
<1> DEFINE s == Lengths(d, files)
           t == Lengths(e, more)
           n == Len(d.paths)
<1>1. /\ s \in Seq(Nat) /\ Len(s) = n /\ n \in Nat /\ DOMAIN d.paths = 1 .. n
      /\ \A i \in 1 .. n : d.paths[i] \in DOMAIN files /\ s[i] = Len(files[d.paths[i]])
  BY LengthsAre
<1>2. PICK j \in 1 .. n : d.paths[j] = name
  BY <1>1 DEF Range
<1>3. \A i \in 1 .. n : i # j => d.paths[i] # name
  BY <1>1, <1>2 DEF Counted
<1>4. \A i \in DOMAIN files : Len(more[i]) \in Nat
  <2> SUFFICES ASSUME NEW i \in DOMAIN files PROVE Len(more[i]) \in Nat
    OBVIOUS
  <2>1. CASE i = name
    <3> DEFINE x == Len(files[name])
    <3>1. x \in Nat
      BY <2>1
    <3> HIDE DEF x
    <3>2. x + k \in Nat
      BY <3>1
    <3> QED BY <2>1, <3>2 DEF x
  <2> QED BY <2>1
<1>5. /\ t \in Seq(Nat) /\ Len(t) = n
      /\ \A i \in 1 .. n : t[i] = Len(more[d.paths[i]])
  <2>1. e.paths \in Seq(DOMAIN more) /\ \A i \in DOMAIN more : Len(more[i]) \in Nat
    BY <1>4
  <2>2. /\ Lengths(e, more) \in Seq(Nat) /\ Len(Lengths(e, more)) = Len(e.paths)
        /\ \A i \in 1 .. Len(e.paths) : Lengths(e, more)[i] = Len(more[e.paths[i]])
    BY ONLY <2>1, LengthsAre
  <2> QED BY <2>2
<1> HIDE DEF s, t
<1>6. t[j] = s[j] + k /\ \A i \in 1 .. n : i # j => t[i] = s[i]
  BY <1>1, <1>2, <1>3, <1>5
<1>7. bufOffset(t) = bufOffset(s) + k
  <2>1. /\ j \in 1 .. Len(s) /\ Len(t) = Len(s)
        /\ \A i \in 1 .. Len(s) : i # j => t[i] = s[i]
    BY <1>1, <1>2, <1>5, <1>6
  <2> QED BY <1>1, <1>5, <1>6, <2>1, OffsetAdd
<1>8. d.size + n = bufOffset(s)
  BY DEF Counted, s
<1>9. e.size + n = bufOffset(t)
  <2> DEFINE x == d.size
             y == bufOffset(s)
  <2>1. x \in Int /\ n \in Int /\ x + n = y
    BY <1>1, <1>8
  <2> HIDE DEF x, y, n
  <2>2. (x + k) + n = y + k
    BY <2>1
  <2> QED BY <1>7, <2>2 DEF x, y
<1> QED BY <1>9 DEF Counted, t

(* One that begins a chunk adds a term.                                    *)
LEMMA CountedNew ==
  ASSUME NEW files, NEW more, NEW f, NEW d, NEW e, NEW name, NEW k \in Nat,
         \A n \in DOMAIN files : Len(files[n]) \in Nat,
         d.paths \in Seq(DOMAIN files), d.size \in Int, d # NoData, Counted(f, d, files),
         name \notin DOMAIN files, name[2] = f, DOMAIN more = DOMAIN files \cup {name},
         \A n \in DOMAIN files : more[n] = files[n], Len(more[name]) = k,
         e.paths = Append(d.paths, name), e.size = d.size + k
  PROVE  Counted(f, e, more)
<1> DEFINE s == Lengths(d, files)
           t == Lengths(e, more)
           n == Len(d.paths)
<1>1. /\ s \in Seq(Nat) /\ Len(s) = n /\ n \in Nat /\ DOMAIN d.paths = 1 .. n
      /\ \A i \in 1 .. n : d.paths[i] \in DOMAIN files /\ s[i] = Len(files[d.paths[i]])
  BY LengthsAre
<1>2. /\ e.paths \in Seq(DOMAIN more) /\ Len(e.paths) = n + 1
      /\ DOMAIN e.paths = 1 .. n + 1 /\ e.paths[n + 1] = name
      /\ \A i \in 1 .. n : e.paths[i] = d.paths[i]
  <2>1. d.paths \in Seq(DOMAIN more) /\ name \in DOMAIN more
    BY SeqMonotonic
  <2>2. /\ Append(d.paths, name) \in Seq(DOMAIN more)
        /\ Len(Append(d.paths, name)) = Len(d.paths) + 1
        /\ Append(d.paths, name)[Len(d.paths) + 1] = name
        /\ \A i \in 1 .. Len(d.paths) : Append(d.paths, name)[i] = d.paths[i]
    BY <2>1, AppendProperties
  <2>3. DOMAIN e.paths = 1 .. Len(e.paths)
    BY <2>2, LenProperties
  <2> QED BY <2>2, <2>3
<1>3. \A i \in DOMAIN more : Len(more[i]) \in Nat
  OBVIOUS
<1>4. /\ t \in Seq(Nat) /\ Len(t) = n + 1
      /\ \A i \in 1 .. n + 1 : t[i] = Len(more[e.paths[i]])
  <2>1. /\ Lengths(e, more) \in Seq(Nat) /\ Len(Lengths(e, more)) = Len(e.paths)
        /\ \A i \in 1 .. Len(e.paths) : Lengths(e, more)[i] = Len(more[e.paths[i]])
    <3>1. e.paths \in Seq(DOMAIN more)
      BY <1>2
    <3> QED BY ONLY <1>3, <3>1, LengthsAre
  <2> QED BY <1>2, <2>1
<1> HIDE DEF s, t
<1>5. t[n + 1] = k /\ \A i \in 1 .. n : t[i] = s[i]
  <2>1. n + 1 \in 1 .. n + 1 /\ \A i \in 1 .. n : i \in 1 .. n + 1
    BY <1>1
  <2>2. t[n + 1] = k
    <3> HIDE DEF n
    <3> QED BY <1>2, <1>4, <2>1
  <2>3. ASSUME NEW i \in 1 .. n PROVE t[i] = s[i]
    <3>1. e.paths[i] = d.paths[i] /\ d.paths[i] \in DOMAIN files
      BY <1>1, <1>2
    <3> QED BY <1>1, <1>4, <2>1, <3>1
  <2> QED BY <2>2, <2>3
<1>6. t = Append(s, k)
  <2> DEFINE u == Append(s, k)
  <2>1. u \in Seq(Nat) /\ Len(u) = n + 1 /\ u[n + 1] = k /\ \A i \in 1 .. n : u[i] = s[i]
    BY <1>1, AppendProperties
  <2> HIDE DEF n, u
  <2>2. \A i \in 1 .. n + 1 : t[i] = u[i]
    <3>1. \A i \in 1 .. n + 1 : i = n + 1 \/ i \in 1 .. n
      BY <1>1
    <3> QED BY <1>5, <2>1, <3>1
  <2>3. Len(t) = Len(u) /\ \A i \in 1 .. Len(t) : t[i] = u[i]
    BY <1>4, <2>1, <2>2
  <2>4. t = u
    BY ONLY <1>4, <2>1, <2>3, SeqEqual
  <2> QED BY <2>4 DEF u
<1>7. bufOffset(t) = bufOffset(s) + k + 1
  BY <1>1, <1>6, OffsetAppend
<1>8. d.size + n = bufOffset(s)
  BY DEF Counted, s
<1>9. e.size + Len(e.paths) = bufOffset(t)
  <2> DEFINE x == d.size
             y == bufOffset(s)
  <2>1. x \in Int /\ n \in Int /\ x + n = y
    BY <1>1, <1>8
  <2> HIDE DEF x, y, n
  <2>2. (x + k) + (n + 1) = y + k + 1
    BY <2>1
  <2> QED BY <1>2, <1>7, <2>2 DEF x, y
<1>10. \A i \in DOMAIN e.paths : e.paths[i][2] = f
  <2>1. \A i \in 1 .. n + 1 : i = n + 1 \/ i \in 1 .. n
    BY <1>1
  <2> HIDE DEF n
  <2> QED BY <1>1, <1>2, <2>1 DEF Counted
<1>11. \A i, j \in DOMAIN e.paths : e.paths[i] = e.paths[j] => i = j
  <2>1. \A i \in 1 .. n + 1 : i = n + 1 \/ i \in 1 .. n
    BY <1>1
  <2>2. \A i, j \in 1 .. n : d.paths[i] = d.paths[j] => i = j
    BY <1>1 DEF Counted
  <2> HIDE DEF n
  <2>3. \A i \in 1 .. n : e.paths[i] # name
    BY <1>1, <1>2
  <2> QED BY <1>2, <2>1, <2>2, <2>3
<1> QED BY <1>9, <1>10, <1>11 DEF Counted, t

(* Where no write is being saved, the newest metadata is the file's.       *)
AllSaved == \A m \in UsedMetas : mdata[m] = mfile[mname[m]]
NewestSaved == \A f \in Files : Newest(f) = mfile[f]

LEMMA SavedIsNewest == Inv /\ AllSaved => NewestSaved
<1> SUFFICES ASSUME Inv, AllSaved, NEW f \in Files, op.pc \in Saving, mname[bmdata[op.b]] = f
             PROVE  mdata[bmdata[op.b]] = mfile[f]
  BY DEF NewestSaved, Newest
<1>1. op.b \in UsedBufs
  BY DEF Inv, OpInv, Saving, Writing
<1> QED BY <1>1 DEF Inv, BufInv, AllSaved

LEMMA SavedIsNewestNext == Inv' /\ AllSaved' => NewestSaved'
BY SavedIsNewest, PTL

LEMMA IdleIsNewest == op.pc \notin Saving => NewestSaved
BY DEF NewestSaved, Newest

LEMMA IdleIsNewestNext == op'.pc \notin Saving => NewestSaved'
BY DEF NewestSaved, Newest

(* A file just made lists nothing and counts nothing.                      *)
LEMMA CountedEmpty ==
  ASSUME NEW f, NEW files
  PROVE  Counted(f, NewData, files) /\ Counted(f, NoData, files)
<1>1. /\ NewData.paths = <<>> /\ NoData.paths = <<>> /\ NewData.size = 0
      /\ DOMAIN <<>> = {} /\ Len(<<>>) = 0
  BY EmptySeq DEF NewData, NoData
<1>2. Lengths(NewData, files) = <<>>
  <2>1. Lengths(NewData, files) = [i \in {} |-> Len(files[NewData.paths[i]])]
    BY <1>1 DEF Lengths
  <2> QED BY <2>1
<1> QED BY <1>1, <1>2, OffsetEmpty DEF Counted

(* Steps that only save, or that leave chunks and metadata as they are.    *)
LEMMA CountedStays ==
  ASSUME SizeInv, ~ Lost' => ~ Lost, chunks' = chunks, NewestSaved',
         \A f \in Files : mfile'[f] = Newest(f) \/ mfile'[f] = NewData
  PROVE  SizeInv'
<1> SUFFICES ASSUME ~ Lost', NEW f \in Files PROVE Counted(f, Newest(f)', chunks')
  BY DEF SizeInv
<1>1. Newest(f)' = mfile'[f]
  BY DEF NewestSaved
<1>2. Counted(f, Newest(f), chunks)
  BY DEF SizeInv
<1> QED BY <1>1, <1>2, CountedEmpty

(* The chunk of a round is one of the file whose metadata is added to, and *)
(* if it is there that file lists it.                                      *)
LEMMA RoundOwns ==
  ASSUME Inv, KeptInv, SizeInv, ~ Lost, write_buffer_to_disk,
         NEW name \in DOMAIN chunks, name[2] = mname[bmdata[op.b]]
  PROVE  name \in Range(mdata[bmdata[op.b]].paths)
<1> DEFINE m == bmdata[op.b]
<1>1. op.pc \in Saving /\ m \in UsedMetas /\ mname[m] \in Files
  <2>1. op.b \in UsedBufs /\ op.pc \in Saving
    BY DEF write_buffer_to_disk, Inv, OpInv, Writing, Saving
  <2> QED BY <2>1 DEF Inv, BufInv, MetaInv
<1>2. name \in Listed \cup Range(mdata[m].paths)
  BY <1>1 DEF KeptInv, ListedNow
<1>3. CASE name \in Listed
  <2>1. PICK g \in Files : name \in Range(mfile[g].paths)
    BY <1>3 DEF Listed
  <2>2. CASE g = mname[m]
    <3>1. GrownFrom(mdata[m], mfile[g]) /\ mdata[m] \in Data /\ mfile[g] \in Data
      BY <1>1, <2>2, CacheSets DEF Inv, DiskInv, Typed
    <3>2. Range(mfile[g].paths) \subseteq Range(mdata[m].paths)
      BY <3>1, PathsOfData, GrownRange DEF PathsAre
    <3> QED BY <2>1, <3>2
  <2>3. CASE g # mname[m]
    <3>1. Newest(g) = mfile[g]
      BY <2>3 DEF Newest
    <3>2. Counted(g, mfile[g], chunks)
      BY <3>1 DEF SizeInv
    <3>3. name[2] = g
      BY <2>1, <3>2 DEF Counted, Range
    <3> QED BY <2>3, <3>3
  <2> QED BY <2>2, <2>3
<1> QED BY <1>2, <1>3

LEMMA RoundCounts ==
  ASSUME Inv, LogInv, SizeInv, write_buffer_to_disk
  PROVE  SizeInv'
<1> DEFINE m == bmdata[op.b]
           name == ChunkName(buf[op.b], op.start, m)
           data == Group(buf[op.b], op.start)
<1>1. /\ op.pc \in Saving /\ m \in UsedMetas /\ m \in Metas /\ mname[m] \in Files
      /\ mdata[m] \in Data /\ mfile[mname[m]] # NoData /\ GrownFrom(mdata[m], mfile[mname[m]])
  <2>1. op.b \in UsedBufs /\ op.pc \in Saving
    BY DEF write_buffer_to_disk, Inv, OpInv, Writing, Saving
  <2> QED BY <2>1, CacheSets DEF Inv, BufInv, MetaInv, DiskInv, Typed
<1>2. /\ AddChunk(name, data, m)
      /\ UNCHANGED <<mfile, mname, bmdata, crashed>> /\ op'.b = op.b /\ op'.pc \in Saving
  BY RoundEnds DEF write_buffer_to_disk, Group
<1>3. /\ mdata[m].paths \in Seq(DOMAIN chunks) /\ mdata[m].size \in Int /\ mdata[m] # NoData
      /\ mdata \in [Metas -> Data]
  <2>1. mfile[mname[m]] \in Data
    BY <1>1 DEF Inv, Typed
  <2> QED BY <1>1, <2>1, Grown DEF Inv, Typed, Data
<1>4. name[2] = mname[m]
  BY DEF ChunkName
<1>5. data \in Seq(ChunkTokens) /\ Len(data) \in Nat
  BY ChunkWritten, GroupTokens
<1>6. \A n \in DOMAIN chunks : chunks[n] \in Seq(ChunkTokens) /\ Len(chunks[n]) \in Nat
  BY LenProperties DEF LogInv, ChunksTyped
<1> HIDE DEF m, name, data
<1> SUFFICES ASSUME ~ Lost', NEW f \in Files PROVE Counted(f, Newest(f)', chunks')
  BY DEF SizeInv
<1>7. ~ Lost
  BY <1>1, <1>2 DEF Lost, Saving
<1>8. /\ Newest(f) = IF mname[m] = f THEN mdata[m] ELSE mfile[f]
      /\ Newest(f)' = IF mname[m] = f THEN mdata'[m] ELSE mfile[f]
      /\ Counted(f, Newest(f), chunks)
  BY <1>1, <1>2, <1>7 DEF Newest, SizeInv, m
<1>9. \A n \in DOMAIN chunks : n # name => chunks'[n] = chunks[n]
  BY <1>2 DEF AddChunk
<1>10. CASE mname[m] # f
  <2>1. mfile[f].paths \in Seq(DOMAIN chunks)
    BY DEF Inv, Typed, Data
  <2> QED BY <1>4, <1>8, <1>9, <1>10, <2>1, CountedSame
<1>11. CASE mname[m] = f /\ name \in DOMAIN chunks
  <2>1. chunks' = [chunks EXCEPT ![name] = @ \o data]
        /\ mdata' = [mdata EXCEPT ![m].size = @ + Len(data)]
    BY <1>2, <1>11 DEF AddChunk
  <2>2. name \in Range(mdata[m].paths)
    BY <1>4, <1>7, <1>11, RoundOwns DEF LogInv, m
  <2>3. DOMAIN chunks' = DOMAIN chunks /\ chunks'[name] = chunks[name] \o data
    BY <1>11, <2>1
  <2>4. Len(chunks'[name]) = Len(chunks[name]) + Len(data)
    BY <1>5, <1>6, <1>11, <2>3, ConcatProperties
  <2>5. mdata'[m].paths = mdata[m].paths /\ mdata'[m].size = mdata[m].size + Len(data)
    BY <1>1, <1>3, <2>1 DEF Data
  <2>6. Counted(f, mdata[m], chunks)
    BY <1>8, <1>11
  <2>7. Counted(f, mdata'[m], chunks')
    BY <1>3, <1>5, <1>6, <1>9, <2>2, <2>3, <2>4, <2>5, <2>6, CountedMore
  <2> QED BY <1>8, <1>11, <2>7
<1>12. CASE mname[m] = f /\ name \notin DOMAIN chunks
  <2>1. /\ chunks' = [n \in DOMAIN chunks \cup {name} |->
                       IF n = name THEN data ELSE chunks[n]]
        /\ mdata' = [mdata EXCEPT ![m] = [paths |-> Append(@.paths, name),
                                          size |-> @.size + Len(data)]]
    BY <1>2, <1>12 DEF AddChunk
  <2>2. /\ DOMAIN chunks' = DOMAIN chunks \cup {name} /\ chunks'[name] = data
        /\ \A n \in DOMAIN chunks : chunks'[n] = chunks[n]
    BY <1>12, <2>1
  <2>3. /\ mdata'[m].paths = Append(mdata[m].paths, name)
        /\ mdata'[m].size = mdata[m].size + Len(data)
    BY <1>1, <1>3, <2>1
  <2>4. Counted(f, mdata[m], chunks)
    BY <1>8, <1>12
  <2>5. Counted(f, mdata'[m], chunks')
    BY <1>3, <1>4, <1>5, <1>6, <1>12, <2>2, <2>3, <2>4, CountedNew
  <2> QED BY <1>8, <1>12, <2>5
<1> QED BY <1>10, <1>11, <1>12

(* Saving makes the newest metadata the file's.                            *)
LEMMA SavingCounts ==
  ASSUME Inv, Inv', SizeInv, EndEvict \/ EndFull
  PROVE  SizeInv'
<1> DEFINE m == bmdata[op.b]
<1>1. /\ op.pc \in {"evict_meta", "full_meta"} /\ write_metadata_to_disk(m)
      /\ UNCHANGED <<chunks, mname, mdata, mfree, crashed>>
  BY DEF EndEvict, EndFull, meta
<1>2. op.pc \in Saving
  BY <1>1 DEF Saving
<1>3. AllSaved'
  <2>1. \A k \in UsedMetas : mdata[k] = mfile'[mname[k]]
    BY <1>1, <1>2, Saved
  <2> QED BY <1>1, <2>1 DEF AllSaved, UsedMetas
<1>4. NewestSaved'
  BY <1>3, SavedIsNewestNext
<1>5. mfile' = [mfile EXCEPT ![mname[m]] = mdata[m]]
  BY <1>1 DEF write_metadata_to_disk
<1>6. \A f \in Files : mfile'[f] = Newest(f)
  BY <1>2, <1>5 DEF Newest, Inv, Typed
<1>7. ~ Lost' => ~ Lost
  BY <1>1 DEF Lost
<1> QED BY <1>1, <1>4, <1>6, <1>7, CountedStays

LEMMA SizeStep ==
  ASSUME Inv, Inv', LogInv, SizeInv, [Next]_vars
  PROVE  SizeInv'
<1>1. op \in Ops /\ DOMAIN mfile = Files
  BY DEF Inv, Typed, Ops
<1>2. CASE \E f \in Files : lfs_mknod(f)
  <2>1. PICK f \in Files : lfs_mknod(f)
    BY <1>2
  <2>2. /\ op = Idle /\ mfile' = [mfile EXCEPT ![f] = NewData]
        /\ UNCHANGED <<chunks, op, crashed>>
    BY <2>1 DEF lfs_mknod
  <2>3. NewestSaved /\ NewestSaved'
    BY <2>2, IdleIsNewest, IdleIsNewestNext DEF Idle, Saving
  <2>4. \A g \in Files : mfile'[g] = Newest(g) \/ mfile'[g] = NewData
    BY <1>1, <2>2, <2>3 DEF NewestSaved
  <2> QED BY <2>2, <2>3, <2>4, CountedStays DEF Lost
<1>3. CASE \E f \in Files : GetMetadata(f) /\ UNCHANGED <<chunks, crashed>>
                            /\ op'.pc \in {"idle", "buffer"}
  <2>1. op = Idle /\ mfile' = mfile
    BY <1>3, GetsMetadata
  <2>2. NewestSaved /\ NewestSaved'
    BY <1>3, <2>1, IdleIsNewest, IdleIsNewestNext DEF Idle, Saving
  <2>3. ~ Lost' => ~ Lost
    BY <1>3, <2>1 DEF Lost, Idle
  <2> QED BY <1>3, <2>1, <2>2, <2>3, CountedStays DEF NewestSaved
<1>4. CASE FindBuffer \/ TakeBuffer
  <2>1. op.pc = "buffer" /\ UNCHANGED <<disk, meta, crashed>>
    BY <1>4 DEF FindBuffer, TakeBuffer
  <2>2. AllSaved /\ NewestSaved
    BY <2>1, IdleIsNewest DEF AllSaved, Inv, DiskInv, Saving
  <2>3. AllSaved'
    BY <2>1, <2>2 DEF AllSaved, UsedMetas, disk, meta
  <2>4. NewestSaved'
    BY <2>3, SavedIsNewestNext
  <2>5. ~ Lost' => ~ Lost
    BY <2>1 DEF Lost
  <2> QED BY <2>1, <2>2, <2>4, <2>5, CountedStays DEF NewestSaved, disk
<1>5. CASE write_buffer_to_disk
  BY <1>5, RoundCounts
<1>6. CASE EndEvict \/ EndFull
  BY <1>6, SavingCounts
<1>7. CASE AppendText
  <2>1. op.pc = "append" /\ op' = Idle /\ UNCHANGED <<mfile, chunks, crashed>>
    BY <1>7 DEF AppendText, disk
  <2>2. NewestSaved /\ NewestSaved'
    BY <2>1, IdleIsNewest, IdleIsNewestNext DEF Idle, Saving
  <2>3. ~ Lost' => ~ Lost
    BY <2>1 DEF Lost
  <2> QED BY <2>1, <2>2, <2>3, CountedStays DEF NewestSaved
<1>8. CASE Overflow \/ Restart \/ \E f \in Files : ParseFails(f)
  <2>1. op'.pc \in {"overflow", "aborted"} \/ crashed'
    BY <1>8 DEF Overflow, Restart, ParseFails, Idle
  <2> QED BY <2>1 DEF SizeInv, Lost
<1>9. CASE UNCHANGED vars
  BY <1>9 DEF vars, disk, meta, buffers, SizeInv, Lost, Newest
<1>10. ASSUME NEW f \in Files, lfs_getattr(f) \/ lfs_read(f) \/ \E text \in Texts : lfs_write(f, text)
       PROVE  GetMetadata(f) /\ UNCHANGED <<chunks, crashed>> /\ op'.pc \in {"idle", "buffer"}
  <2>1. op = Idle
    BY <1>10 DEF lfs_getattr, lfs_read, lfs_write, GetMetadata
  <2>2. CASE lfs_getattr(f) \/ lfs_read(f)
    BY <2>1, <2>2 DEF lfs_getattr, lfs_read, Idle
  <2>3. ASSUME NEW text \in Texts, lfs_write(f, text)
        PROVE  GetMetadata(f) /\ UNCHANGED <<chunks, crashed>> /\ op'.pc = "buffer"
    BY <2>3 DEF lfs_write, Idle
  <2> QED BY <1>10, <2>2, <2>3
<1> QED BY <1>2, <1>3, <1>4, <1>5, <1>6, <1>7, <1>8, <1>9, <1>10 DEF Next

LEMMA SizeInvariant == Spec => []SizeInv
<1>1. Init => SizeInv
  <2> SUFFICES ASSUME Init, NEW f \in Files PROVE Counted(f, Newest(f), chunks)
    BY DEF SizeInv
  <2>1. Newest(f) = NoData
    BY DEF Init, Newest, Idle, Saving
  <2> QED BY <2>1, CountedEmpty
<1>2. Inv /\ Inv' /\ LogInv /\ SizeInv /\ [Next]_vars => SizeInv'
  BY SizeStep
<1> QED BY <1>1, <1>2, Invariant, LogInvariant, PTL DEF Spec

(* For any number of files, buffers and writes, until a crash: what        *)
(* lfs_getattr says of the size of a log is what lfs_read returns, because *)
(* every chunk is listed once, by one file, and every byte of it counted   *)
(* once (lfs_fuse.c:162-173, 439-462).                                     *)
THEOREM SizeIsReadLength == Spec => []SizesAgree
<1>1. Inv /\ LogInv /\ SizeInv => SizesAgree
  BY SizesAgreeAtRest DEF LogInv
<1> QED BY <1>1, Invariant, LogInvariant, SizeInvariant, PTL
=============================================================================
