\* One request at a time, changes on either of two days.
CONSTANTS
  Units = {u1, u2}
  Root = Root
  NoParent = NoParent
  Clients = {c1}
  NoPayload = NoPayload
  Horizon = 1
  Starts <- AnyDay
  Recreate = FALSE
SPECIFICATION Spec
INVARIANTS NoCycles
SYMMETRY Interchangeable
CHECK_DEADLOCK TRUE
