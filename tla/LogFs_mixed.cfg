\* More files than buffers.
CONSTANTS
  file1 = file1  file2 = file2
  Files = {file1, file2}
  NoFile = NoFile
  MetaBlocks = 2  BufBlocks = 1  BlockSize = 4
  Records <- MCRecords
  Texts <- MCTexts
  MaxWrites = 3
  NL = NL  NUL = NUL
SPECIFICATION Spec
INVARIANT BuffersBelong
