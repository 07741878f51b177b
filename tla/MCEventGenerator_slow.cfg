\* One writer and one object, four instants.
CONSTANTS
  Objects = {o1}
  Writers = {w1}
  MaxTime = 3
  PromptWriters = FALSE
  Idle = Idle
SPECIFICATION FairSpec
PROPERTIES EveryChangeIsQueued
CHECK_DEADLOCK TRUE
