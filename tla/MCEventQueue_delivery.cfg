\* One listener, one subject sent with two priorities, two tokens in flight;
\* or two owners who declare and delete namespaces and listeners.
CONSTANTS
  alice = alice
  person = person
  Owners = {alice, bob}
  MoOwner = nobody
  Namespaces = {mo}
  MoNamespace = mo
  UserKeys = {uk}
  RoutingKeys = {person, class}
  Subjects = {s1}
  Priorities <- MCPriorities
  Ids <- MCIds
  NoNamespace = NoNamespace
  NoEvent = NoEvent
  MinDelay = 1
  MaxDelay = 2
  FetchedCap = 2
  TokenCap = 2
SPECIFICATION Spec
CONSTRAINT Shapes
INVARIANTS TypeOK NothingLost HandledTokensAreCurrent  RowsHaveListener
PROPERTIES NewsIsReady UrgencyKept ImplementsAtLeastOnce
