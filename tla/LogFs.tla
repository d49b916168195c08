------------------------------- MODULE LogFs --------------------------------
(***************************************************************************)
(* The log file system: the operations of lfs_fuse.c over the two caches   *)
(* of Cache.c, the metadata files and the chunks, for one request at a     *)
(* time (a mount with -s) and with crashes or unmounts at any point.       *)
(*                                                                         *)
(* A write goes to the buffer of its file.  When the buffer is full, or    *)
(* when it is given to another file, write_buffer_to_disk splits its       *)
(* lines by date into chunks, adds the new chunks to the MDATA the buffer  *)
(* points to, and write_metadata_to_disk saves that MDATA.  The buffer     *)
(* does not own its MDATA: it points into a block of the metadata cache,   *)
(* which may by then hold another file.                                    *)
(*                                                                         *)
(* Text is a sequence of tokens: log records, newlines and NULs, each      *)
(* taken to be one byte long.                                              *)
(***************************************************************************)
EXTENDS Integers, FiniteSets, Sequences, FiniteSetsExt, SequencesExt, Functions

CONSTANTS
  Files, NoFile,
  MetaBlocks,   \* blocks of meta_data_cache
  BufBlocks,    \* blocks of buffer_cache
  BlockSize,    \* cache_block_size of buffer_cache
  Records,      \* log records: [date, time] of their time stamp
  Texts,        \* what a program writes at once
  MaxWrites,    \* bound on the number of writes
  NL, NUL       \* the newline and the byte that ends a string

ASSUME BlocksAssumption ==
  MetaBlocks \in Nat \ {0} /\ BufBlocks \in Nat \ {0} /\ BlockSize \in Nat
ASSUME FilesAssumption == NoFile \notin Files

(* Whole records, no empty line, never more than a page.  The last line    *)
(* may lack its newline.                                                   *)
ASSUME TextsAssumption ==
  \A text \in Texts :
    /\ text \in Seq(Records \cup {NL})
    /\ Len(text) \in 1 .. BlockSize
    /\ text[1] # NL
    /\ \A i \in 1 .. Len(text) - 1 : ~ (text[i] = NL /\ text[i + 1] = NL)
ASSUME TokensAssumption == NL # NUL /\ NL \notin Records /\ NUL \notin Records

Metas == 0 .. MetaBlocks - 1
Bufs == 0 .. BufBlocks - 1
NULL == -1

VARIABLES
  mfile,      \* the files of MDATA_PATH: [paths, size], or NoData
  chunks,     \* the files of CHUNK_PATH: name -> tokens
  mname, mdata, mfree, mlru,          \* meta_data_cache: file_name, the rest of
                                      \* MDATA, free_flag, lru_counter
  bmdata, bfree, blru, buf, offset,   \* buffer_cache: mdata (a metadata block),
                                      \* free_flag, lru_counter, buf, offset
  op,         \* the lfs_write in progress
  crashed,    \* the process has been stopped and restarted
  written     \* the texts written: <<file, text>>

disk == <<mfile, chunks>>
meta == <<mname, mdata, mfree, mlru>>
buffers == <<bmdata, bfree, blru, buf, offset>>
vars == <<disk, meta, buffers, op, crashed, written>>

NoData == [paths |-> <<>>, size |-> -1]
NewData == [paths |-> <<>>, size |-> 0]

(* pc: idle; buffer, the file's MDATA is block m and its buffer is looked  *)
(* for; evict or full, buffer b is being written to disk up to start, to   *)
(* be given to the file or to make room; evict_meta or full_meta, its      *)
(* metadata is to be saved; append; aborted, by a failed assert; overflow, *)
(* a buffer was written past its end.                                      *)
Idle == [pc |-> "idle", file |-> NoFile, text |-> <<>>,
         m |-> NULL, b |-> NULL, start |-> 0]

(* The two caches.  A buffer is found by the name in the MDATA it points   *)
(* to.                                                                     *)
BufferName == [b \in Bufs |-> IF bmdata[b] = NULL THEN NoFile ELSE mname[bmdata[b]]]
Meta == INSTANCE LruCache WITH
  num_blocks <- MetaBlocks, file_name <- mname, free_flag <- mfree,
  lru_counter <- mlru, asked <- NoFile, evicted <- NoFile
Buf == INSTANCE LruCache WITH
  num_blocks <- BufBlocks, file_name <- BufferName, free_flag <- bfree,
  lru_counter <- blru, asked <- NoFile, evicted <- NoFile

(* main, create_cache and init_cache_block; the pages of posix_memalign    *)
(* are zero.                                                               *)
Init ==
  /\ mfile = [f \in Files |-> NoData]
  /\ chunks = <<>>
  /\ mname = [b \in Metas |-> NoFile]
  /\ mdata = [b \in Metas |-> NoData]
  /\ mfree = [b \in Metas |-> TRUE]
  /\ mlru = [b \in Metas |-> 0]
  /\ bmdata = [b \in Bufs |-> NULL]
  /\ bfree = [b \in Bufs |-> TRUE]
  /\ blru = [b \in Bufs |-> 0]
  /\ buf = [b \in Bufs |-> <<>>]
  /\ offset = [b \in Bufs |-> 0]
  /\ op = Idle
  /\ crashed = FALSE
  /\ written = {}

(* The process is gone.                                                    *)
LoseMemory ==
  /\ mname' = [b \in Metas |-> NoFile]
  /\ mdata' = [b \in Metas |-> NoData]
  /\ mfree' = [b \in Metas |-> TRUE]
  /\ mlru' = [b \in Metas |-> 0]
  /\ bmdata' = [b \in Bufs |-> NULL]
  /\ bfree' = [b \in Bufs |-> TRUE]
  /\ blru' = [b \in Bufs |-> 0]
  /\ buf' = [b \in Bufs |-> <<>>]
  /\ offset' = [b \in Bufs |-> 0]

-----------------------------------------------------------------------------
(* The metadata cache.                                                     *)

(* No O_TRUNC: the new text covers the old one because it is never shorter *)
(* (MetadataGrows).                                                        *)
write_metadata_to_disk(b) == mfile' = [mfile EXCEPT ![mname[b]] = mdata[b]]

(* Mutant: size is not read back.                                          *)
mdata_from_disk_to_memory_NoSize(f) ==
  LET b == Meta!get_free_cache_block
  IN  /\ IF mfree[b] THEN UNCHANGED mfile ELSE write_metadata_to_disk(b)
      /\ mname' = [mname EXCEPT ![b] = f]
      /\ mdata' = [mdata EXCEPT ![b] = [mfile[f] EXCEPT !.size = 0]]
      /\ mfree' = [mfree EXCEPT ![b] = FALSE]
      /\ Meta!update_lru(b)

mdata_from_disk_to_memory(f) ==
  LET b == Meta!get_free_cache_block
  IN  /\ IF mfree[b] THEN UNCHANGED mfile ELSE write_metadata_to_disk(b)
      /\ mname' = [mname EXCEPT ![b] = f]
      /\ mdata' = [mdata EXCEPT ![b] = mfile[f]]
      /\ mfree' = [mfree EXCEPT ![b] = FALSE]
      /\ Meta!update_lru(b)

(* How lfs_getattr, lfs_read and lfs_write come to the MDATA of a file     *)
(* that exists.                                                            *)
GetMetadata(f) ==
  /\ op = Idle
  /\ mfile[f] # NoData
  /\ \/ /\ Meta!find_meta_data_block(f) # NULL
        /\ Meta!update_lru(Meta!find_meta_data_block(f))
        /\ UNCHANGED <<mfile, mname, mdata, mfree>>
     \/ /\ Meta!find_meta_data_block(f) = NULL
        /\ mdata_from_disk_to_memory(f)

(* Nothing follows "Paths:" in the file of a log without chunks.  sscanf   *)
(* then goes on into what the stack holds after the text: it may find a    *)
(* word there, as in GetMetadata, or the end of the string, and the caller *)
(* gets NULL and fails its assert.                                         *)
ParseFails(f) ==
  LET b == Meta!get_free_cache_block
  IN  /\ op = Idle
      /\ mfile[f] # NoData /\ mfile[f].paths = <<>>
      /\ Meta!find_meta_data_block(f) = NULL
      /\ IF mfree[b] THEN UNCHANGED mfile ELSE write_metadata_to_disk(b)
      /\ LoseMemory
      /\ op' = [Idle EXCEPT !.pc = "aborted"]
      /\ UNCHANGED <<chunks, crashed, written>>

(* A regular file that lfs_getattr did not find.  The block may be in use: *)
(* its file is not written back.                                           *)
lfs_mknod(f) ==
  LET b == Meta!get_free_cache_block
  IN  /\ op = Idle
      /\ mfile[f] = NoData
      /\ mname' = [mname EXCEPT ![b] = f]
      /\ mdata' = [mdata EXCEPT ![b] = NewData]
      /\ mfree' = [mfree EXCEPT ![b] = FALSE]
      /\ Meta!update_lru(b)
      /\ mfile' = [mfile EXCEPT ![f] = NewData]
      /\ UNCHANGED <<chunks, buffers, op, crashed, written>>

lfs_getattr(f) ==
  /\ GetMetadata(f)
  /\ UNCHANGED <<bmdata, bfree, buf, offset>>
  /\ LET b == Buf!find_meta_data_block(f)'
     IN  IF b = NULL THEN UNCHANGED blru ELSE Buf!update_lru(b)
  /\ UNCHANGED <<chunks, op, crashed, written>>

lfs_read(f) ==
  /\ GetMetadata(f)
  /\ UNCHANGED <<chunks, buffers, op, crashed, written>>

-----------------------------------------------------------------------------
(* write_buffer_to_disk.                                                   *)

Newlines(s) == {i \in 1 .. Len(s) : s[i] = NL}

(* Mutant: the lines after the first are not scanned.                      *)
Scanned_FirstLine(s) == IF Newlines(s) = {} THEN Len(s) + 1 ELSE Min(Newlines(s))

(* offset at the end: past the last complete line, but always past the     *)
(* first line, whose newline is taken for granted (Cache.c:323).           *)
Scanned(s) == IF Newlines(s) = {} THEN Len(s) + 1 ELSE Max(Newlines(s))

Date(s, i) == s[i][2].date
Time(s, i) == s[i][2].time

(* Mutant: the dates are not compared.                                     *)
GroupEnd_OneGroup(s, start) == Scanned(s)

(* The end of the lines after start that have the date of the first one.   *)
GroupEnd(s, start) ==
  Min({i \in Newlines(s) : /\ i > start /\ i < Scanned(s)
                           /\ Date(s, i + 1) # Date(s, start + 1)}
      \cup {Scanned(s)})

(* The line that the loop scanned last, without its newline.               *)
LastLine(s) ==
  LET end == IF s[Len(s)] = NL THEN Len(s) - 1 ELSE Len(s)
  IN  SubSeq(s, Max({i \in Newlines(s) : i <= end} \cup {0}) + 1, end)

(* What stays in the buffer.  The test for an incomplete line looks at the *)
(* buffer after it is cleared, so the last line stays, complete or not;    *)
(* past the end of the block the byte it looks at may be anything.         *)
Remaining(s) ==
  {LastLine(s)} \cup
  (IF Scanned(s) + Len(LastLine(s)) >= BlockSize THEN {<<>>} ELSE {})

ChunkName(s, start, m) == <<Date(s, start + 1), mname[m], Time(s, start + 1)>>

(* Mutants: the path is that of the next lines; a chunk that is there is   *)
(* opened with O_TRUNC; a chunk that grows is not counted.                 *)
AddChunk_NextTime(name, data, m) ==
  /\ chunks' = [n \in DOMAIN chunks \cup {name} |->
                  IF n = name THEN data ELSE chunks[n]]
  /\ mdata' = [mdata EXCEPT ![m].paths = Append(@, [name EXCEPT ![3] = data[Len(data)]])]
AddChunk_Truncate(name, data, m) ==
  /\ chunks' = [n \in DOMAIN chunks \cup {name} |->
                  IF n = name THEN data ELSE chunks[n]]
  /\ mdata' = IF name \in DOMAIN chunks
              THEN [mdata EXCEPT ![m].size = @ - Len(chunks[name]) + Len(data)]
              ELSE [mdata EXCEPT ![m] = [paths |-> Append(@.paths, name),
                                         size |-> @.size + Len(data)]]
AddChunk_NewOnly(name, data, m) ==
  IF name \in DOMAIN chunks
  THEN /\ chunks' = [chunks EXCEPT ![name] = @ \o data]
       /\ UNCHANGED mdata
  ELSE /\ chunks' = [n \in DOMAIN chunks \cup {name} |->
                       IF n = name THEN data ELSE chunks[n]]
       /\ mdata' = [mdata EXCEPT ![m] = [paths |-> Append(@.paths, name),
                                         size |-> @.size + Len(data)]]

(* One chunk: a new file whose path is noted, or more lines for an old one.*)
AddChunk(name, data, m) ==
  IF name \in DOMAIN chunks
  THEN /\ chunks' = [chunks EXCEPT ![name] = @ \o data]
       /\ mdata' = [mdata EXCEPT ![m].size = @ + Len(data)]
  ELSE /\ chunks' = [n \in DOMAIN chunks \cup {name} |->
                       IF n = name THEN data ELSE chunks[n]]
       /\ mdata' = [mdata EXCEPT ![m] = [paths |-> Append(@.paths, name),
                                         size |-> @.size + Len(data)]]

(* One round of the loop, up to the next change of date.                   *)
write_buffer_to_disk ==
  LET b == op.b
      s == buf[b]
      m == bmdata[b]
      end == GroupEnd(s, op.start)
  IN  /\ op.pc \in {"evict", "full"}
      /\ AddChunk(ChunkName(s, op.start, m), SubSeq(s \o <<NUL>>, op.start + 1, end), m)
      /\ \/ /\ end < Scanned(s)
            /\ op' = [op EXCEPT !.start = end]
            /\ UNCHANGED <<buf, offset>>
         \/ /\ end = Scanned(s)
            /\ op' = [op EXCEPT !.start = 0,
                                !.pc = IF op.pc = "evict" THEN "evict_meta" ELSE "full_meta"]
            /\ \E rest \in Remaining(s) :
                 /\ buf' = [buf EXCEPT ![b] = rest]
                 /\ offset' = [offset EXCEPT ![b] = Len(rest)]
      /\ UNCHANGED <<mfile, mname, mfree, mlru, bmdata, bfree, blru, crashed, written>>

-----------------------------------------------------------------------------
(* lfs_write.                                                              *)

lfs_write(f, text) ==
  /\ GetMetadata(f)
  /\ <<f, text>> \notin written /\ Cardinality(written) < MaxWrites
  /\ written' = written \cup {<<f, text>>}
  /\ op' = [Idle EXCEPT !.pc = "buffer", !.file = f, !.text = text,
                        !.m = Meta!find_meta_data_block(f)']
  /\ UNCHANGED <<chunks, buffers, crashed>>

(* Where lfs_write goes once it has buffer b.                              *)
Room(b) ==
  [op EXCEPT !.b = b,
             !.pc = IF offset[b] + Len(op.text) > BlockSize THEN "full" ELSE "append"]

FindBuffer ==
  /\ op.pc = "buffer"
  /\ Buf!find_meta_data_block(op.file) # NULL
  /\ op' = Room(Buf!find_meta_data_block(op.file))
  /\ UNCHANGED <<disk, meta, buffers, crashed, written>>

TakeBuffer ==
  LET b == Buf!get_free_cache_block
  IN  /\ op.pc = "buffer"
      /\ Buf!find_meta_data_block(op.file) = NULL
      /\ bfree' = [bfree EXCEPT ![b] = FALSE]
      /\ \/ /\ bfree[b]
            /\ bmdata' = [bmdata EXCEPT ![b] = op.m]
            /\ op' = Room(b)
         \/ /\ ~ bfree[b]
            /\ op' = [op EXCEPT !.b = b, !.pc = "evict"]
            /\ UNCHANGED bmdata
      /\ UNCHANGED <<disk, meta, blru, buf, offset, crashed, written>>

(* The buffer passes to the file, with what remains in it.                 *)
EndEvict ==
  /\ op.pc = "evict_meta"
  /\ write_metadata_to_disk(bmdata[op.b])
  /\ bmdata' = [bmdata EXCEPT ![op.b] = op.m]
  /\ op' = Room(op.b)
  /\ UNCHANGED <<chunks, meta, bfree, blru, buf, offset, crashed, written>>

(* Mutant: MDATA_CBLK_WRITE_THROUGH is not defined.                        *)
EndFull_NoSave ==
  /\ op.pc = "full_meta"
  /\ op' = [op EXCEPT !.pc = "append"]
  /\ UNCHANGED <<disk, meta, buffers, crashed, written>>

EndFull ==
  /\ op.pc = "full_meta"
  /\ write_metadata_to_disk(bmdata[op.b])
  /\ op' = [op EXCEPT !.pc = "append"]
  /\ UNCHANGED <<chunks, meta, buffers, crashed, written>>

(* The text as it stands in a buffer or a chunk: records know their file.  *)
Tokens(f, text) ==
  [i \in DOMAIN text |-> IF text[i] = NL THEN NL ELSE <<f, text[i]>>]

AppendText ==
  LET b == op.b
  IN  /\ op.pc = "append"
      /\ offset[b] + Len(op.text) <= BlockSize
      /\ Buf!update_lru(b)
      /\ buf' = [buf EXCEPT ![b] = @ \o Tokens(op.file, op.text)]
      /\ offset' = [offset EXCEPT ![b] = @ + Len(op.text)]
      /\ op' = Idle
      /\ UNCHANGED <<disk, meta, bmdata, bfree, crashed, written>>

(* What remained and the text do not fit into the block: strcat writes     *)
(* past its end, and what follows is not modelled.                         *)
Overflow ==
  /\ op.pc = "append"
  /\ offset[op.b] + Len(op.text) > BlockSize
  /\ op' = [Idle EXCEPT !.pc = "overflow"]
  /\ UNCHANGED <<disk, meta, buffers, crashed, written>>

(* The process ends, in the middle of a write or not, and is started       *)
(* again.  Nothing saves the buffers.                                      *)
Restart ==
  /\ LoseMemory
  /\ op' = Idle
  /\ crashed' = TRUE
  /\ UNCHANGED <<disk, written>>

Next ==
  \/ \E f \in Files :
       \/ lfs_mknod(f) \/ lfs_getattr(f) \/ lfs_read(f) \/ ParseFails(f)
       \/ \E text \in Texts : lfs_write(f, text)
  \/ FindBuffer \/ TakeBuffer \/ write_buffer_to_disk \/ EndEvict \/ EndFull
  \/ AppendText \/ Overflow \/ Restart

Spec == Init /\ [][Next]_vars

-----------------------------------------------------------------------------
UsedMetas == {b \in Metas : ~ mfree[b]}
UsedBufs == {b \in Bufs : ~ bfree[b]}

(* The types of the caches, and that a buffer in use points to metadata.   *)
TypeOK ==
  /\ mname \in [Metas -> Files \cup {NoFile}]
  /\ mfree \in [Metas -> BOOLEAN]
  /\ mlru \in [Metas -> Metas]
  /\ bmdata \in [Bufs -> Metas \cup {NULL}]
  /\ bfree \in [Bufs -> BOOLEAN]
  /\ blru \in [Bufs -> Bufs]
  /\ \A b \in Bufs : offset[b] = Len(buf[b]) /\ offset[b] <= BlockSize
  /\ op.pc # "evict" => \A b \in UsedBufs : bmdata[b] # NULL

(* Both caches stay sound, although a buffer's name is that of a metadata  *)
(* block which may be given to another file: counters are ranks by last    *)
(* use and no file has two blocks, or two buffers (lfs_fuse.c:518-531,     *)
(* Cache.c:108-185).                                                       *)
CachesSound ==
  op = Idle => /\ Meta!CountersAreRanks /\ Meta!OneBlockPerFile
               /\ Buf!CountersAreRanks /\ Buf!OneBlockPerFile

(* Every path in a metadata file or block leads to a chunk, whenever the   *)
(* process is stopped: lfs_read does not test what fopen returns           *)
(* (lfs_fuse.c:441-442).                                                   *)
PathsExist ==
  /\ \A f \in Files : Range(mfile[f].paths) \subseteq DOMAIN chunks
  /\ \A b \in UsedMetas : Range(mdata[b].paths) \subseteq DOMAIN chunks

(* Between requests a metadata block equals its file.  So lfs_mknod may    *)
(* take a block in use and forget it (lfs_fuse.c:247-250).                 *)
WriteThrough ==
  op = Idle => \A b \in UsedMetas : mfile[mname[b]] = mdata[b]

(* What lfs_getattr says of the size is what lfs_read returns: every byte  *)
(* of every chunk is counted once and every chunk is listed once, until a  *)
(* crash (lfs_fuse.c:162-173, 439-462).                                    *)
Metadata(f) ==
  LET b == Meta!find_meta_data_block(f) IN IF b = NULL THEN mfile[f] ELSE mdata[b]
Buffered(f, field) ==
  LET b == Buf!find_meta_data_block(f) IN IF b = NULL THEN 0 ELSE field[b]
st_size(f) == Metadata(f).size + Buffered(f, offset) + Len(Metadata(f).paths)
(* bufOffset after the loop of lfs_read: what fread got of each chunk and  *)
(* a newline.                                                              *)
bufOffset(numBytes) ==
  LET after[i \in 0 .. Len(numBytes)] ==
        IF i = 0 THEN 0 ELSE after[i - 1] + numBytes[i] + 1
  IN  after[Len(numBytes)]
ReadLength(f) ==
  LET md == Metadata(f)
      fread == [i \in DOMAIN md.paths |-> Min({Len(chunks[md.paths[i]]), md.size})]
  IN  bufOffset(fread) + Buffered(f, [b \in Bufs |-> Len(buf[b])])
SizesAgree ==
  op = Idle /\ ~ crashed =>
    \A f \in Files : mfile[f] # NoData => st_size(f) = ReadLength(f)

(* Until a crash no complete record is lost: it is in a buffer or in a     *)
(* chunk that a metadata file lists, although buffers are given to other   *)
(* files with what remains in them and write into the chunks of the file   *)
(* that took over their metadata block (Cache.c:336-417).                  *)
Complete ==
  UNION {{<<w[1], w[2][i]>> : i \in {j \in 1 .. Len(w[2]) - 1 : w[2][j + 1] = NL}} :
           w \in written}
Listed == UNION {Range(mfile[f].paths) : f \in Files}
Kept ==
  (UNION {Range(buf[b]) : b \in Bufs}) \cup (UNION {Range(chunks[n]) : n \in Listed})
NothingLost == op = Idle /\ ~ crashed => Complete \subseteq Kept

(* A line is in a chunk of its date: every line of a chunk begins with a   *)
(* record of the date in the chunk's name, however lines were glued        *)
(* together before (Cache.c:343-378).                                      *)
ChunksByDate ==
  \A n \in DOMAIN chunks :
    \A i \in 1 .. Len(chunks[n]) :
      i = 1 \/ chunks[n][i - 1] = NL => Date(chunks[n], i) = n[1]

(* A metadata file only grows: what write_metadata_to_disk writes without  *)
(* O_TRUNC covers all that was there (lfs_fuse.c:45, 63).                  *)
MetadataGrows ==
  [][\A f \in Files :
       /\ IsPrefix(mfile[f].paths, mfile'[f].paths)
       /\ mfile[f].size <= mfile'[f].size]_vars

(* What is saved stays: a chunk that a metadata file lists is never taken  *)
(* off the list or out of, by no write, failed assert or restart; chunks   *)
(* are opened for O_APPEND and lists are only extended (Cache.c:360, 397,  *)
(* lfs_fuse.c:45).                                                         *)
SavedStays ==
  [][\A n \in Listed : n \in Listed' /\ IsPrefix(chunks[n], chunks'[n])]_vars

(* The buffer that find_meta_data_block returns for a file corresponds to  *)
(* the file: what it holds was written to it (Cache.h:66, lfs_fuse.c:516). *)
BuffersBelong ==
  op = Idle => \A f \in Files :
    LET b == Buf!find_meta_data_block(f)
    IN  b # NULL => \A i \in 1 .. Len(buf[b]) : buf[b][i] # NL => buf[b][i][1] = f
=============================================================================
