\* Four blocks and six files: evictions, and a file that comes back.
CONSTANTS
  num_blocks = 4
  f1 = f1  f2 = f2  f3 = f3  f4 = f4  f5 = f5  f6 = f6
  Files = {f1, f2, f3, f4, f5, f6}
  NoFile = NoFile
SPECIFICATION Spec
INVARIANTS TypeOK CountersAreRanks OneBlockPerFile
PROPERTY ReplacesLeastRecent
