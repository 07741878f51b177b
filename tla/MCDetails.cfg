\* Three days, two references.  Nobody edits what has more rows than RowCap.
CONSTANTS
  Horizon = 2
  Targets = {a, b}
  Empty = Empty
  Clients = {c1, c2}
  Contested <- MCContested
  RowCap = 3
  NoRequest = NoRequest
SPECIFICATION Spec
INVARIANTS TypeOK OneReference FiltersAgree CollectionsAgree
PROPERTIES EditsAreLocal EditsComplete
SYMMETRY Interchangeable
CHECK_DEADLOCK FALSE
