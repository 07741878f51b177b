\* Two requests at a time, changes that take effect at once and last.
CONSTANTS
  Units = {u1, u2}
  Root = Root
  NoParent = NoParent
  Clients = {c1, c2}
  NoPayload = NoPayload
  Horizon = 0
  Starts <- Today
  Recreate = FALSE
SPECIFICATION Spec
INVARIANTS NoCycles
SYMMETRY Interchangeable
CHECK_DEADLOCK TRUE
