\* Two subjects, one of which always fails; three sends, silences or lost answers.
CONSTANTS
  Owners = {alice}
  MoOwner = nobody
  Namespaces = {mo}
  MoNamespace = mo
  UserKeys = {uk}
  RoutingKeys = {person}
  Bad = s1
  Subjects = {s1, s2}
  Priorities <- MCPriorities
  Ids <- MCIds
  NoNamespace = NoNamespace
  NoEvent = NoEvent
  MinDelay = 1
  MaxDelay = 2
  FetchedCap = 2
  TokenCap = 1
  Poison <- MCPoison
  Budget = 4
SPECIFICATION LiveSpec
PROPERTIES PoisonDoesNotBlock QueueDrains PoisonIsRetried
