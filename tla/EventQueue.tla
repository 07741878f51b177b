----------------------------- MODULE EventQueue ------------------------------
(***************************************************************************)
(* The GraphQL event queue: mora/db/events.py (the tables and add_event),  *)
(* mora/graphapi/events.py (event_fetch) and the event_* mutators of       *)
(* mora/graphapi/mutators.py.                                              *)
(*                                                                         *)
(* One action is one GraphQL request, which is one database transaction    *)
(* (mora/db/__init__.py); EventQueueTxn opens the transactions up, and the *)
(* two statements of event_listener_declare are two actions.  A request    *)
(* that the code answers with an error is rolled back, so it is not an     *)
(* action here.  The integration that fetches and acknowledges is          *)
(* external: it processes an event after it fetched it and before it       *)
(* acknowledges it, and can lose a token or a response at any point.       *)
(***************************************************************************)
EXTENDS Integers, FiniteSets

CONSTANTS
  Owners,        \* authenticated users, from their access tokens
  MoOwner,       \* the random owner the migration gives the "mo" namespace
  Namespaces,    \* namespace names
  MoNamespace,   \* "mo", the namespace of MO's own events
  UserKeys,      \* listener user keys
  RoutingKeys,   \* routing keys (topics)
  Subjects,      \* event subjects
  Priorities,    \* priorities that are sent; 1 is the most urgent
  Ids,           \* pool standing for uuid_generate_v4(), see Fresh
  NoNamespace,   \* the namespace row does not exist
  NoEvent,       \* the event row does not exist
  MinDelay,      \* the shortest back-off (3 minutes in the code)
  MaxDelay,      \* the longest back-off (17 hours in the code)
  FetchedCap,    \* bound: fetched_count saturates here
  TokenCap       \* bound: tokens held by integrations at the same time

ASSUME MoAssumption == MoNamespace \in Namespaces /\ MoOwner \notin Owners
ASSUME PrioritiesAssumption == Priorities \subseteq Nat \ {0}
ASSUME DelayAssumption ==
  /\ MinDelay \in Nat \ {0}
  /\ MaxDelay \in Nat
  /\ MinDelay =< MaxDelay
ASSUME CapAssumption ==
  /\ FetchedCap \in Nat \ {0}
  /\ TokenCap \in Nat

Listener == [user_key: UserKeys, owner: Owners, namespace: Namespaces,
             routing_key: RoutingKeys]

\* The unique constraint (listener_fk, subject) makes a row a function of its
\* slot.
Slot == Listener \X Subjects

\* time.now() - last_tried, saturated where it exceeds every back-off.
AgeCap == MaxDelay + 1
Age == 0 .. AgeCap

Event == [pk: Ids, generation: Ids, priority: Priorities, age: Age,
          fetched_count: 0 .. FetchedCap, silenced: BOOLEAN]

ASSUME NoEventAssumption == NoEvent \notin Event

\* An EventToken with the integration's knowledge of whether it has processed
\* the event it was issued for.
Token == [slot: Slot, pk: Ids, generation: Ids, handled: BOOLEAN]

NamespaceRow == [owner: Owners \cup {MoOwner}, public: BOOLEAN]

ASSUME NoNamespaceAssumption == NoNamespace \notin NamespaceRow

VARIABLES
  namespaces,  \* table event_namespace: name -> row
  listeners,   \* table event_listener
  declaring,   \* declarations of listeners between their check and their insert
  overtaken,   \* history: declarations whose namespace was deleted in between
  events,      \* table event: slot -> row
  tokens,      \* tokens in the hands of integrations
  unseen       \* history: slots announced since they were last processed

vars == <<namespaces, listeners, declaring, overtaken, events, tokens, unseen>>

Rows == {sl \in Slot : events[sl] # NoEvent}

RowsOf(l) == {sl \in Rows : sl[1] = l}

TypeOK ==
  /\ namespaces \in [Namespaces -> NamespaceRow \cup {NoNamespace}]
  /\ listeners \subseteq Listener
  /\ declaring \subseteq Listener
  /\ overtaken \subseteq declaring \cup listeners
  /\ events \in [Slot -> Event \cup {NoEvent}]
  /\ tokens \subseteq Token
  /\ unseen \subseteq Slot
----------------------------------------------------------------------------
\* The migrations leave one namespace behind: "mo", public, with an owner
\* nobody is.
MigratedNamespaces ==
  [n \in Namespaces |-> IF n = MoNamespace THEN [owner |-> MoOwner, public |-> TRUE]
                                           ELSE NoNamespace]

Init ==
  /\ namespaces = MigratedNamespaces
  /\ listeners = {}
  /\ declaring = {}
  /\ overtaken = {}
  /\ events = [sl \in Slot |-> NoEvent]
  /\ tokens = {}
  /\ unseen = {}

NamespaceDeclare(o, n, public) ==
  /\ namespaces[n] = NoNamespace
  /\ namespaces' = [namespaces EXCEPT ![n] = [owner |-> o, public |-> public]]
  /\ UNCHANGED <<listeners, declaring, overtaken, events, tokens, unseen>>

\* Faulty variant of NamespaceDelete: listeners do not protect their namespace.
NamespaceDeleteInUse(n) ==
  /\ namespaces[n] # NoNamespace
  /\ namespaces' = [namespaces EXCEPT ![n] = NoNamespace]
  /\ overtaken' = overtaken \cup {l \in declaring : l.namespace = n}
  /\ UNCHANGED <<listeners, declaring, events, tokens, unseen>>

\* The foreign key of event_listener refuses the delete while it is used; the
\* caller need not be the owner.
NamespaceDelete(n) ==
  /\ namespaces[n] # NoNamespace
  /\ \A l \in listeners : l.namespace # n
  /\ namespaces' = [namespaces EXCEPT ![n] = NoNamespace]
  /\ overtaken' = overtaken \cup {l \in declaring : l.namespace = n}
  /\ UNCHANGED <<listeners, declaring, events, tokens, unseen>>

Open(l) ==
  /\ namespaces[l.namespace] # NoNamespace
  /\ namespaces[l.namespace].public \/ namespaces[l.namespace].owner = l.owner

\* event_listener_declare, first statement: SELECT the namespace and see that
\* it is there and open to the caller.  READ COMMITTED takes no lock for it.
\* Bound: no two requests declare the very same listener at the same time.
ListenerCheck(l) ==
  /\ l \notin declaring
  /\ Open(l)
  /\ declaring' = declaring \cup {l}
  /\ UNCHANGED <<namespaces, listeners, overtaken, events, tokens, unseen>>

\* (user_key, owner, namespace) is unique.
Taken(l) ==
  \E k \in listeners :
    <<k.user_key, k.owner, k.namespace>> = <<l.user_key, l.owner, l.namespace>>

\* Second statement: INSERT ... ON CONFLICT DO NOTHING.  Where the key is taken
\* it changes nothing (and is an error if the routing key differs); where the
\* namespace is gone the foreign key refuses it.  A namespace that was deleted
\* and declared anew satisfies the foreign key, whoever owns it now.
ListenerInsert(l) ==
  /\ l \in declaring
  /\ declaring' = declaring \ {l}
  /\ listeners' = IF Taken(l) \/ namespaces[l.namespace] = NoNamespace
                  THEN listeners ELSE listeners \cup {l}
  /\ overtaken' = overtaken \cap (declaring' \cup listeners')
  /\ UNCHANGED <<namespaces, events, tokens, unseen>>

\* Faulty variant of ListenerDelete: pending rows are left behind.
ListenerDeleteLeavesRows(l, delete_pending_events) ==
  /\ l \in listeners
  /\ listeners' = listeners \ {l}
  /\ overtaken' = overtaken \ {l}
  /\ UNCHANGED <<namespaces, declaring, events, tokens, unseen>>

\* Any authenticated caller; without delete_pending_events the foreign key of
\* event refuses the delete while rows are pending.
ListenerDelete(l, delete_pending_events) ==
  /\ l \in listeners
  /\ delete_pending_events \/ RowsOf(l) = {}
  /\ listeners' = listeners \ {l}
  /\ overtaken' = overtaken \ {l}
  /\ events' = [sl \in Slot |-> IF sl[1] = l THEN NoEvent ELSE events[sl]]
  /\ unseen' = {sl \in unseen : sl[1] # l}
  /\ UNCHANGED <<namespaces, declaring, tokens>>
----------------------------------------------------------------------------
\* uuid_generate_v4(): an identifier nobody holds for this slot.  Identifiers
\* are only compared for equality, so one that no row and no token mentions
\* any more may be drawn again; the slot is part of the identity of a row.
TokenIds(sl) == UNION {{t.pk, t.generation} : t \in {u \in tokens : u.slot = sl}}
RowIds(sl) ==
  IF events[sl] = NoEvent THEN {} ELSE {events[sl].pk, events[sl].generation}
Fresh(sl) == CHOOSE i \in Ids : i \notin TokenIds(sl) \cup RowIds(sl)
CanDraw(S) == \A sl \in S : \E i \in Ids : i \notin TokenIds(sl) \cup RowIds(sl)

Least(a, b) == IF a =< b THEN a ELSE b
Greatest(a, b) == IF a >= b THEN a ELSE b

\* last_tried = 1970-01-01: older than every back-off.
Epoch == AgeCap

NewRow(sl, p) ==
  [pk |-> Fresh(sl), generation |-> Fresh(sl), priority |-> p, age |-> Epoch,
   fetched_count |-> 0, silenced |-> FALSE]

\* Faulty variant of Deduplicated: the generation survives.
DeduplicatedSameGeneration(sl, p) ==
  [events[sl] EXCEPT !.age = Epoch, !.fetched_count = 0, !.priority = Least(p, @)]

\* Faulty variant of Deduplicated: the back-off survives.
DeduplicatedInBackoff(sl, p) ==
  [events[sl] EXCEPT !.generation = Fresh(sl), !.priority = Least(p, @)]

\* Faulty variant of Deduplicated: the last priority wins.
DeduplicatedLastPriority(sl, p) ==
  [events[sl] EXCEPT !.generation = Fresh(sl), !.age = Epoch, !.fetched_count = 0,
                     !.priority = p]

\* Faulty variant of Deduplicated: priorities add up.
DeduplicatedSum(sl, p) ==
  [events[sl] EXCEPT !.generation = Fresh(sl), !.age = Epoch, !.fetched_count = 0,
                     !.priority = @ + p]

\* ON CONFLICT (listener_fk, subject) DO UPDATE
Deduplicated(sl, p) ==
  [events[sl] EXCEPT !.generation = Fresh(sl), !.age = Epoch, !.fetched_count = 0,
                     !.priority = Least(p, @)]

Matching(n, rk, filter) ==
  {l \in listeners \cap filter : l.namespace = n /\ l.routing_key = rk}

\* add_event: one row for each matching listener of the filter.
AddEvent(n, rk, s, p, filter) ==
  LET hit == Matching(n, rk, filter) \X {s}
  IN  /\ CanDraw(hit)
      /\ events' = [sl \in Slot |->
                      IF sl \notin hit THEN events[sl]
                      ELSE IF events[sl] = NoEvent THEN NewRow(sl, p)
                      ELSE Deduplicated(sl, p)]
      /\ unseen' = unseen \cup hit

\* event_send: only the owner of the namespace.
Send(o, n, rk, s, p) ==
  /\ namespaces[n] # NoNamespace
  /\ namespaces[n].owner = o
  /\ AddEvent(n, rk, s, p, Listener)
  /\ UNCHANGED <<namespaces, listeners, declaring, overtaken, tokens>>

\* The refresh mutators and the event generator call add_event on the "mo"
\* namespace themselves; refresh may narrow it to one listener or one owner.
Refresh(rk, s, p, filter) ==
  /\ AddEvent(MoNamespace, rk, s, p, filter)
  /\ UNCHANGED <<namespaces, listeners, declaring, overtaken, tokens>>
----------------------------------------------------------------------------
\* Faulty variant of Backoff: there is none.
BackoffNone(fetched_count) == 0

\* The clamped power of two between the two limits; fetched_count never
\* reaches the code's clamp of 32 before MaxDelay does.
Backoff(fetched_count) ==
  Greatest(MinDelay, Least(2 ^ Least(fetched_count, 32), MaxDelay))

\* Faulty variant of Ready: an event is given up after some attempts.
ReadyGivesUp(sl) ==
  /\ events[sl].age > Backoff(events[sl].fetched_count)
  /\ events[sl].fetched_count < FetchedCap

\* last_tried < now() - back-off
Ready(sl) == events[sl].age > Backoff(events[sl].fetched_count)

\* ORDER BY silenced, priority, fetched_count
Precedes(a, b) ==
  \/ ~a.silenced /\ b.silenced
  \/ /\ a.silenced = b.silenced
     /\ \/ a.priority < b.priority
        \/ a.priority = b.priority /\ a.fetched_count < b.fetched_count

ReadyOf(l) == {sl \in RowsOf(l) : Ready(sl)}

Fetched(row) ==
  [row EXCEPT !.age = 0, !.fetched_count = Least(@ + 1, FetchedCap)]

TokenFor(sl) ==
  [slot |-> sl, pk |-> events[sl].pk, generation |-> events[sl].generation,
   handled |-> FALSE]

\* event_fetch by the owner of the listener: the first ready row is stamped.
FetchRow(l, sl) ==
  /\ sl \in ReadyOf(l)
  /\ \A other \in ReadyOf(l) : ~Precedes(events[other], events[sl])
  /\ events' = [events EXCEPT ![sl] = Fetched(@)]
  /\ UNCHANGED <<namespaces, listeners, declaring, overtaken, unseen>>

\* The token reaches the integration, or the response is lost.
Fetch(l) ==
  \E sl \in Slot :
    /\ FetchRow(l, sl)
    /\ \/ Cardinality(tokens) < TokenCap /\ tokens' = tokens \cup {TokenFor(sl)}
       \/ tokens' = tokens

\* External: the integration reads the subject's present state and acts on it.
Handle(t) ==
  /\ t \in tokens /\ ~t.handled
  /\ tokens' = (tokens \ {t}) \cup {[t EXCEPT !.handled = TRUE]}
  /\ unseen' = unseen \ {t.slot}
  /\ UNCHANGED <<namespaces, listeners, declaring, overtaken, events>>

\* External: the integration gives up on an event, or crashes.
Forget(t) ==
  /\ t \in tokens
  /\ tokens' = tokens \ {t}
  /\ UNCHANGED <<namespaces, listeners, declaring, overtaken, events, unseen>>

\* Faulty variant of Acknowledges: the generation is not compared.
AcknowledgesAnyGeneration(t) ==
  events[t.slot] # NoEvent /\ events[t.slot].pk = t.pk

\* Faulty variant of Acknowledges: nothing is ever deleted.
AcknowledgesNothing(t) == FALSE

\* DELETE ... WHERE pk = token.uuid AND generation = token.generation
Acknowledges(t) ==
  /\ events[t.slot] # NoEvent
  /\ events[t.slot].pk = t.pk
  /\ events[t.slot].generation = t.generation

\* event_acknowledge by the owner of the listener.  It answers True whether
\* or not it deleted anything; if the answer is lost the integration retries.
Acknowledge(t) ==
  /\ t \in tokens /\ t.handled
  /\ events' = IF Acknowledges(t) THEN [events EXCEPT ![t.slot] = NoEvent]
                                  ELSE events
  /\ tokens' \in {tokens, tokens \ {t}}
  /\ UNCHANGED <<namespaces, listeners, declaring, overtaken, unseen>>
----------------------------------------------------------------------------
\* The maintenance mutators update every row their filters match, here the
\* rows of a set of listeners and subjects; any caller may use them.
Selected(L, S) == Rows \cap (L \X S)

Update(rows, Change(_)) ==
  /\ events' = [sl \in Slot |-> IF sl \in rows THEN Change(events[sl]) ELSE events[sl]]
  /\ UNCHANGED <<namespaces, listeners, declaring, overtaken, tokens, unseen>>

Silenced(row) == [row EXCEPT !.silenced = TRUE]
Unsilenced(row) == [row EXCEPT !.silenced = FALSE, !.age = Epoch]
Rerun(row) == [row EXCEPT !.age = Epoch]

Silence(L, S) == Update(Selected(L, S), Silenced)

Unsilence(L, S) ==
  Update({sl \in Selected(L, S) : events[sl].silenced}, Unsilenced)

RerunAll(L, S) == Update(Selected(L, S), Rerun)

\* The database clock.
Aged(row) == [row EXCEPT !.age = Least(@ + 1, AgeCap)]

Tick ==
  /\ events' = [sl \in Slot |->
                  IF events[sl] = NoEvent THEN NoEvent ELSE Aged(events[sl])]
  /\ UNCHANGED <<namespaces, listeners, declaring, overtaken, tokens, unseen>>
----------------------------------------------------------------------------
Registry ==
  \/ \E o \in Owners, n \in Namespaces, public \in BOOLEAN :
       NamespaceDeclare(o, n, public)
  \/ \E n \in Namespaces : NamespaceDelete(n)
  \/ \E l \in Listener : ListenerCheck(l) \/ ListenerInsert(l)
  \/ \E l \in Listener, delete_pending_events \in BOOLEAN :
       ListenerDelete(l, delete_pending_events)

OwnedBy(o) == {l \in Listener : l.owner = o}

Sending ==
  \E rk \in RoutingKeys, s \in Subjects, p \in Priorities :
    \/ \E o \in Owners, n \in Namespaces : Send(o, n, rk, s, p)
    \/ Refresh(rk, s, p, Listener)
    \/ \E o \in Owners : Refresh(rk, s, p, OwnedBy(o))
    \/ \E l \in listeners : Refresh(rk, s, p, {l})

Consuming ==
  \/ \E l \in listeners : Fetch(l)
  \/ \E t \in tokens : Handle(t) \/ Forget(t) \/ Acknowledge(t)

Maintenance ==
  \E L \in SUBSET listeners, S \in SUBSET Subjects :
    Silence(L, S) \/ Unsilence(L, S) \/ RerunAll(L, S)

Next == Registry \/ Sending \/ Consuming \/ Maintenance \/ Tick

Spec == Init /\ [][Next]_vars
----------------------------------------------------------------------------
\* "The event system guarantees at-least-once delivery": what was announced
\* since the integration last looked at the subject is still in the table, for
\* every interleaving of sends, fetches, processing, retried and late
\* acknowledgements (Event.generation, mora/db/events.py).
NothingLost == unseen \subseteq Rows

\* What makes NothingLost inductive: a token that can still delete its row was
\* issued after the last announcement, so once its holder has processed the
\* event nothing is unseen.
HandledTokensAreCurrent ==
  \A t \in tokens : t.handled /\ Acknowledges(t) => t.slot \notin unseen

\* The namespace of a listener exists, and is open to its owner, whatever was
\* deleted and declared again by others in the meantime; it is another owner's
\* private one only if a delete fell between the two statements of that very
\* declaration (event_listener_declare checks before it inserts, never later).
PrivateNamespaces ==
  \A l \in listeners :
    namespaces[l.namespace] # NoNamespace /\ (Open(l) \/ l \in overtaken)

\* What makes PrivateNamespaces inductive: until a delete overtakes it, what a
\* declaration in flight has checked still holds.
ChecksHold == \A l \in declaring : Open(l) \/ l \in overtaken \ listeners

\* Rows never outlive their listener, so a listener declared again does not
\* inherit the events of its predecessor.
RowsHaveListener == \A sl \in Rows : sl[1] \in listeners

\* Deduplication keeps the most urgent of the priorities it merges.
UrgencyKept ==
  [][\A sl \in Rows \cap Rows' :
       events'[sl].pk = events[sl].pk => events'[sl].priority =< events[sl].priority]_vars

\* News is not held back by the back-off of an earlier, still unacknowledged
\* delivery of the same subject: the row is ready at once.
NewsIsReady ==
  [][\A sl \in unseen' \ unseen : sl \in Rows' /\ Ready(sl)']_vars

ALO == INSTANCE AtLeastOnce WITH
         Slots <- Slot, owed <- unseen, retained <- Rows

\* The queue implements the at-least-once promise.
ImplementsAtLeastOnce == ALO!ALOSpec
==============================================================================
