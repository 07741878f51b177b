\* Two workers race for the rows of two subjects while one emitter announces them.
CONSTANTS
  Subjects = {s1, s2}
  Emitters = {e1}
  Workers = {w1, w2}
  Ids = {1, 2, 3, 4}
  NoEvent = NoEvent
  Unwritten = Unwritten
  NoToken = NoToken
  Nobody = Nobody
SPECIFICATION Spec
INVARIANTS TypeOK NoDoubleFetch NothingLost DeletesAreSettled
PROPERTIES ImplementsAtLeastOnce
SYMMETRY Interchangeable
CHECK_DEADLOCK TRUE
