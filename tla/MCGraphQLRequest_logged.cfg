\* Three sub-mutations, with the access log enabled, for clients it leaves out and others.
CONSTANTS
  Mutations = {m1, m2, m3}
  AccessLog = TRUE
SPECIFICATION Spec
INVARIANTS TypeOK Atomic ErrorsKeepNothing LoggedSuccessIsKept
SYMMETRY Interchangeable
CHECK_DEADLOCK TRUE
