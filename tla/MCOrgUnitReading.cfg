\* One request at a time changes the tree, changes take effect at once and
\* last; another client reads pages of one unit or of any number.
CONSTANTS
  Units <- MCUnits
  Root = Root
  NoParent = NoParent
  Clients = {c1}
  NoPayload = NoPayload
  Horizon = 0
  Starts <- Now
  Recreate = FALSE
  Rank <- MCRank
  Limits = {1, 2}
  Start = Start
  End = End
SPECIFICATION ReadingSpec
INVARIANTS NoCycles PagesComplete ReadingsAgree
CHECK_DEADLOCK TRUE
