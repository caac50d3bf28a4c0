CONSTANTS
  Names = {n1, n2, n3}
  Users = {u1, u2}
  Refused = {}
  Offsets = {1, 4}
  UWMax = 4
  Data = {0, 1}
  FileCnt = 2
  FileLen = 2
  None = None
  Sizes = {1, 2}
  Counts = {1, 2}
SYMMETRY Symmetric
SPECIFICATION MCSpec
INVARIANTS TypeOK OwnFiles
PROPERTIES ListingExact IsFileStore
