\* Two writers, one object and its integration, three instants.
CONSTANTS
  Objects = {o1}
  Writers = {w1, w2}
  MaxTime = 2
  PromptWriters = TRUE
  Idle = Idle
SPECIFICATION PipelineSpec
INVARIANTS TypeOK NothingMissed WindowsMeet OutdatedIsPending
PROPERTIES EveryChangeIsQueued EveryChangeIsPublished Converges
CHECK_DEADLOCK TRUE
