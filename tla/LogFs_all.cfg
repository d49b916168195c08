\* Two metadata blocks and one buffer for three files.
CONSTANTS
  file1 = file1  file2 = file2  file3 = file3
  Files = {file1, file2, file3}
  NoFile = NoFile
  MetaBlocks = 2  BufBlocks = 1  BlockSize = 5
  Records <- MCRecords
  Texts <- MCTexts
  MaxWrites = 4
  NL = NL  NUL = NUL
SPECIFICATION Spec
SYMMETRY FileSymmetry
INVARIANTS TypeOK  PathsExist WriteThrough SizesAgree NothingLost ChunksByDate
PROPERTIES MetadataGrows SavedStays
