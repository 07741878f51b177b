\* Two sub-mutations, with the access log off, as it is by default.
CONSTANTS
  Mutations = {m1, m2}
  AccessLog = FALSE
SPECIFICATION Spec
INVARIANTS SuccessIsKept
SYMMETRY Interchangeable
CHECK_DEADLOCK TRUE
