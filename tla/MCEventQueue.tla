---------------------------- MODULE MCEventQueue -----------------------------
\* An instance of EventQueue for TLC: two shapes of behaviour in one run.
EXTENDS EventQueue, TLC

CONSTANTS alice, person

MCPriorities == {1, 2}

\* Enough identifiers for one row, two tokens and a fresh one.
MCIds == 1 .. 4

\* One listener of one owner consumes what is sent with any priority.
Delivering ==
  /\ declaring \cup overtaken = {}
  /\ \A n \in Namespaces :
       namespaces[n] # NoNamespace => namespaces[n].owner \in {MoOwner, alice}
  /\ \A l \in listeners \cup {t.slot[1] : t \in tokens} :
       l.owner = alice /\ l.routing_key = person

\* Several owners declare, send and delete; nobody fetches or silences, no time
\* passes, and everything is sent with one priority.
Registering ==
  /\ tokens = {}
  /\ Cardinality(declaring) =< 2
  /\ \A sl \in Rows :
       /\ events[sl].age = Epoch /\ events[sl].fetched_count = 0
       /\ events[sl].priority = 1 /\ events[sl].pk \in 1 .. 2 /\ ~events[sl].silenced

Shapes == Delivering \/ Registering
==============================================================================
