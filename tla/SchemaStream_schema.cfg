SPECIFICATION Spec
SYMMETRY Symmetry
CHECK_DEADLOCK FALSE
CONSTANTS
  Relids = {t1}
  Names = {a, b}
  Cols = {c1, c2}
  Attrs = {n1, n2}
  Keys = {k1}
  Null = Null
  allow_unkeyed = TRUE
  MaxDDL = 2
  MaxChanges = 2
  MaxRows = 1
  MaxChan = 2
  MaxExits = 1
INVARIANTS
  CacheCoherent
  RowsDecodable
  Published
  RightTopic
  MapperAgrees
PROPERTY
  ReUpdateIdempotent
