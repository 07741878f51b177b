--------------------------- MODULE EventQueueProofs --------------------------
(***************************************************************************)
(* Theorems about EventQueue for every set of owners, namespaces, keys,    *)
(* subjects, priorities and identifiers and every back-off.                *)
(***************************************************************************)
EXTENDS EventQueue, TLAPS

ConstantAssumptions ==
  /\ MoNamespace \in Namespaces /\ MoOwner \notin Owners
  /\ Priorities \subseteq Nat \ {0}
  /\ MinDelay \in Nat \ {0} /\ MaxDelay \in Nat /\ MinDelay =< MaxDelay
  /\ FetchedCap \in Nat \ {0} /\ TokenCap \in Nat
  /\ NoEvent \notin Event
  /\ NoNamespace \notin NamespaceRow

\* The named assumptions of EventQueue together.
LEMMA Constants == ConstantAssumptions
BY MoAssumption, PrioritiesAssumption, DelayAssumption, CapAssumption,
   NoEventAssumption, NoNamespaceAssumption DEF ConstantAssumptions

\* A drawn identifier is one that neither the row nor a token of the slot
\* mentions, whenever there is such an identifier.
LEMMA FreshIsFresh ==
  ASSUME NEW S, NEW sl \in S, CanDraw(S)
  PROVE  /\ Fresh(sl) \in Ids
         /\ Fresh(sl) \notin TokenIds(sl)
         /\ Fresh(sl) \notin RowIds(sl)
BY DEF CanDraw, Fresh

\* The rows add_event writes are well typed.
LEMMA NewRowType ==
  ASSUME NEW S, NEW sl \in S, CanDraw(S), NEW p \in Priorities
  PROVE  NewRow(sl, p) \in Event
<1>1. Fresh(sl) \in Ids
  BY FreshIsFresh
<1>2. Epoch \in Age /\ 0 \in 0 .. FetchedCap
  BY Constants DEF ConstantAssumptions, Epoch, AgeCap, Age
<1> QED
  BY <1>1, <1>2 DEF NewRow, Event

LEMMA DeduplicatedType ==
  ASSUME NEW S, NEW sl \in S, CanDraw(S), NEW p \in Priorities,
         events[sl] \in Event
  PROVE  Deduplicated(sl, p) \in Event
<1>1. Fresh(sl) \in Ids
  BY FreshIsFresh
<1>2. Epoch \in Age /\ 0 \in 0 .. FetchedCap
  BY Constants DEF ConstantAssumptions, Epoch, AgeCap, Age
<1>3. Least(p, events[sl].priority) \in Priorities
  BY DEF Least, Event
<1> QED
  BY <1>1, <1>2, <1>3 DEF Deduplicated, Event

LEMMA FetchedType ==
  ASSUME NEW row \in Event
  PROVE  Fetched(row) \in Event
<1>1. 0 \in Age
  BY Constants DEF ConstantAssumptions, Age, AgeCap
<1>2. Least(row.fetched_count + 1, FetchedCap) \in 0 .. FetchedCap
  <2>1. row.fetched_count \in 0 .. FetchedCap
    BY DEF Event
  <2> QED
    BY <2>1, Constants DEF ConstantAssumptions, Least
<1> QED
  BY <1>1, <1>2 DEF Fetched, Event

LEMMA MaintenanceType ==
  ASSUME NEW row \in Event
  PROVE  Silenced(row) \in Event /\ Unsilenced(row) \in Event /\ Rerun(row) \in Event
<1>1. Epoch \in Age
  BY Constants DEF ConstantAssumptions, Epoch, AgeCap, Age
<1> QED
  BY <1>1 DEF Silenced, Unsilenced, Rerun, Event

\* What the requests that only touch rows do to them.
LEMMA AddEventType ==
  ASSUME TypeOK, NEW n, NEW rk, NEW s, NEW p \in Priorities, NEW filter,
         AddEvent(n, rk, s, p, filter)
  PROVE  /\ events' \in [Slot -> Event \cup {NoEvent}]
         /\ unseen' = unseen \cup (Matching(n, rk, filter) \X {s})
<1> DEFINE hit == Matching(n, rk, filter) \X {s}
<1>1. CanDraw(hit)
  BY DEF AddEvent
<1>2. ASSUME NEW sl \in Slot, sl \in hit, events[sl] # NoEvent
      PROVE  Deduplicated(sl, p) \in Event
  <2>1. events[sl] \in Event
    BY <1>2 DEF TypeOK
  <2> QED
    BY <1>1, <1>2, <2>1, DeduplicatedType
<1>3. ASSUME NEW sl \in hit
      PROVE  NewRow(sl, p) \in Event
  BY <1>1, NewRowType
<1>4. \A sl \in Slot :
        (IF sl \notin hit THEN events[sl]
         ELSE IF events[sl] = NoEvent THEN NewRow(sl, p)
         ELSE Deduplicated(sl, p)) \in Event \cup {NoEvent}
  BY <1>2, <1>3 DEF TypeOK
<1> QED
  BY <1>4 DEF AddEvent

LEMMA UpdateType ==
  ASSUME TypeOK, NEW L, NEW S,
         Silence(L, S) \/ Unsilence(L, S) \/ RerunAll(L, S)
  PROVE  TypeOK'
<1>1. ASSUME NEW sl \in Slot, events[sl] # NoEvent
      PROVE  events[sl] \in Event
  BY <1>1 DEF TypeOK
<1>2. CASE Silence(L, S)
  BY <1>1, <1>2, MaintenanceType DEF TypeOK, Silence, Update, Selected, Rows
<1>3. CASE Unsilence(L, S)
  BY <1>1, <1>3, MaintenanceType DEF TypeOK, Unsilence, Update, Selected, Rows
<1>4. CASE RerunAll(L, S)
  BY <1>1, <1>4, MaintenanceType DEF TypeOK, RerunAll, Update, Selected, Rows
<1> QED
  BY <1>2, <1>3, <1>4

LEMMA AgedType ==
  ASSUME NEW row \in Event
  PROVE  /\ Aged(row) \in Event
         /\ Aged(row).pk = row.pk /\ Aged(row).generation = row.generation
<1>1. row.age \in Age
  BY DEF Event
<1>2. Least(row.age + 1, AgeCap) \in Age
  BY <1>1, Constants DEF ConstantAssumptions, Age, AgeCap, Least
<1> QED
  BY <1>2 DEF Aged, Event

LEMMA InitTypeOK == Init => TypeOK
<1> SUFFICES ASSUME Init PROVE TypeOK
  OBVIOUS
<1>1. MigratedNamespaces \in [Namespaces -> NamespaceRow \cup {NoNamespace}]
  BY DEF MigratedNamespaces, NamespaceRow
<1> QED
  BY <1>1 DEF Init, TypeOK

LEMMA NextTypeOK == TypeOK /\ [Next]_vars => TypeOK'
<1> SUFFICES ASSUME TypeOK, [Next]_vars
             PROVE  TypeOK'
  OBVIOUS
<1>1. ASSUME NEW o \in Owners, NEW n \in Namespaces, NEW public \in BOOLEAN,
             NamespaceDeclare(o, n, public)
      PROVE  TypeOK'
  BY <1>1 DEF NamespaceDeclare, TypeOK, NamespaceRow
<1>2. ASSUME NEW n \in Namespaces, NamespaceDelete(n)
      PROVE  TypeOK'
  BY <1>2 DEF NamespaceDelete, TypeOK
<1>3. ASSUME NEW l \in Listener, ListenerCheck(l) \/ ListenerInsert(l)
      PROVE  TypeOK'
  BY <1>3 DEF ListenerCheck, ListenerInsert, TypeOK
<1>4. ASSUME NEW l \in Listener, NEW d \in BOOLEAN, ListenerDelete(l, d)
      PROVE  TypeOK'
  BY <1>4 DEF ListenerDelete, TypeOK
<1>5. ASSUME NEW o \in Owners, NEW n \in Namespaces, NEW rk \in RoutingKeys,
             NEW s \in Subjects, NEW p \in Priorities, Send(o, n, rk, s, p)
      PROVE  TypeOK'
  <2>1. Matching(n, rk, Listener) \X {s} \subseteq Slot
    BY DEF Matching, Slot, TypeOK
  <2> QED
    BY <1>5, <2>1, AddEventType DEF Send, TypeOK
<1>6. ASSUME NEW rk \in RoutingKeys, NEW s \in Subjects, NEW p \in Priorities,
             NEW filter, Refresh(rk, s, p, filter)
      PROVE  TypeOK'
  <2>1. Matching(MoNamespace, rk, filter) \X {s} \subseteq Slot
    BY DEF Matching, Slot, TypeOK
  <2> QED
    BY <1>6, <2>1, AddEventType DEF Refresh, TypeOK
<1>7. ASSUME NEW l \in listeners, Fetch(l)
      PROVE  TypeOK'
  <2>1. PICK sl \in Slot :
          /\ FetchRow(l, sl)
          /\ tokens' = tokens \cup {TokenFor(sl)} \/ tokens' = tokens
    BY <1>7 DEF Fetch
  <2>2. events[sl] \in Event
    BY <2>1 DEF FetchRow, ReadyOf, RowsOf, Rows, TypeOK
  <2>3. events' \in [Slot -> Event \cup {NoEvent}]
    BY <2>1, <2>2, FetchedType DEF FetchRow, TypeOK
  <2>4. TokenFor(sl) \in Token
    BY <2>2 DEF TokenFor, Token, Event
  <2> QED
    BY <2>1, <2>3, <2>4 DEF FetchRow, TypeOK
<1>8. ASSUME NEW t \in tokens, Handle(t)
      PROVE  TypeOK'
  BY <1>8 DEF Handle, TypeOK, Token
<1>9. ASSUME NEW t \in tokens, Forget(t)
      PROVE  TypeOK'
  BY <1>9 DEF Forget, TypeOK
<1>10. ASSUME NEW t \in tokens, Acknowledge(t)
       PROVE  TypeOK'
  BY <1>10 DEF Acknowledge, TypeOK
<1>11. CASE Tick
  BY <1>11, AgedType DEF Tick, TypeOK
<1>12. CASE UNCHANGED vars
  BY <1>12 DEF vars, TypeOK
<1> QED
  BY <1>1, <1>2, <1>3, <1>4, <1>5, <1>6, <1>7, <1>8, <1>9, <1>10, <1>11, <1>12,
     UpdateType
     DEF Next, Registry, Sending, Consuming, Maintenance

\* The tables, the tokens in flight and the history keep their types.
THEOREM TypeCorrect == Spec => []TypeOK
BY InitTypeOK, NextTypeOK, PTL DEF Spec
-----------------------------------------------------------------------------
(***************************************************************************)
(* At-least-once delivery.  NothingLost is not inductive: an acknowledge   *)
(* step preserves it only because a token that still matches its row was   *)
(* issued after the last announcement, which is HandledTokensAreCurrent.   *)
(***************************************************************************)
DeliveryInv == TypeOK /\ NothingLost /\ HandledTokensAreCurrent

LEMMA InitDelivery == Init => DeliveryInv
<1> SUFFICES ASSUME Init PROVE DeliveryInv
  OBVIOUS
<1>1. TypeOK
  BY InitTypeOK
<1> QED
  BY <1>1 DEF DeliveryInv, NothingLost, HandledTokensAreCurrent, Init

\* An announcement leaves a row in every slot it announces, and no token in
\* flight can delete that row.
LEMMA AddEventDelivery ==
  ASSUME DeliveryInv, NEW n, NEW rk, NEW s \in Subjects, NEW p \in Priorities,
         NEW filter, AddEvent(n, rk, s, p, filter), UNCHANGED tokens
  PROVE  NothingLost' /\ HandledTokensAreCurrent'
<1> DEFINE hit == Matching(n, rk, filter) \X {s}
<1>1. CanDraw(hit) /\ unseen' = unseen \cup hit /\ hit \subseteq Slot
  BY DEF AddEvent, Matching, DeliveryInv, TypeOK, Slot
<1>2. \A sl \in Slot \ hit : events'[sl] = events[sl]
  BY DEF AddEvent
<1>3. ASSUME NEW sl \in hit
      PROVE  /\ events'[sl] \in Event
             /\ events'[sl].generation = Fresh(sl)
  <2>1. events[sl] = NoEvent => NewRow(sl, p) \in Event
    BY <1>1, NewRowType
  <2>2. events[sl] # NoEvent => Deduplicated(sl, p) \in Event
    <3>1. events[sl] \in Event \cup {NoEvent}
      BY <1>1 DEF DeliveryInv, TypeOK
    <3> QED
      BY <1>1, <3>1, DeduplicatedType
  <2>3. NewRow(sl, p).generation = Fresh(sl)
    BY DEF NewRow
  <2>4. events[sl] # NoEvent => Deduplicated(sl, p).generation = Fresh(sl)
    <3>1. events[sl] \in Event \cup {NoEvent}
      BY <1>1 DEF DeliveryInv, TypeOK
    <3> QED
      BY <3>1 DEF Deduplicated, Event
  <2>5. events'[sl] = IF events[sl] = NoEvent THEN NewRow(sl, p) ELSE Deduplicated(sl, p)
    BY <1>1 DEF AddEvent
  <2> QED
    BY <2>1, <2>2, <2>3, <2>4, <2>5
<1>4. NothingLost'
  BY <1>1, <1>2, <1>3, Constants DEF DeliveryInv, NothingLost, Rows, ConstantAssumptions,
     TypeOK
<1>5. ASSUME NEW t \in tokens, t.slot \in hit
      PROVE  events'[t.slot].generation # t.generation
  <2>1. t.generation \in TokenIds(t.slot)
    BY <1>5 DEF TokenIds
  <2>2. Fresh(t.slot) \notin TokenIds(t.slot)
    BY <1>1, <1>5, FreshIsFresh
  <2> QED
    BY <1>3, <1>5, <2>1, <2>2
<1>6. HandledTokensAreCurrent'
  <2> SUFFICES ASSUME NEW t \in tokens, t.handled, Acknowledges(t)'
               PROVE  t.slot \notin unseen'
    BY DEF HandledTokensAreCurrent
  <2>1. t.slot \in Slot /\ t.slot \notin hit
    BY <1>5 DEF Acknowledges, DeliveryInv, TypeOK, Token
  <2>2. Acknowledges(t)
    BY <1>2, <2>1 DEF Acknowledges
  <2> QED
    BY <1>1, <2>1, <2>2 DEF DeliveryInv, HandledTokensAreCurrent
<1> QED
  BY <1>4, <1>6

\* A request that keeps every row's identity, and neither adds tokens nor
\* announces anything, preserves both.
LEMMA SameIdentities ==
  ASSUME DeliveryInv,
         \A sl \in Slot : events[sl] = NoEvent <=> events'[sl] = NoEvent,
         \A sl \in Slot : events[sl] # NoEvent =>
            events'[sl].pk = events[sl].pk /\ events'[sl].generation = events[sl].generation,
         \A t \in tokens' : t \in tokens \/ (t \in Token /\ ~t.handled),
         unseen' = unseen
  PROVE  NothingLost' /\ HandledTokensAreCurrent'
<1>1. NothingLost'
  BY DEF DeliveryInv, NothingLost, Rows
<1>2. HandledTokensAreCurrent'
  <2> SUFFICES ASSUME NEW t \in tokens', t.handled, Acknowledges(t)'
               PROVE  t.slot \notin unseen
    BY DEF HandledTokensAreCurrent
  <2>1. t \in tokens /\ t.slot \in Slot
    BY DEF DeliveryInv, TypeOK, Token
  <2>2. Acknowledges(t)
    BY <2>1 DEF Acknowledges
  <2> QED
    BY <2>1, <2>2 DEF DeliveryInv, HandledTokensAreCurrent
<1> QED
  BY <1>1, <1>2

LEMMA NextDelivery == DeliveryInv /\ [Next]_vars => DeliveryInv'
<1> SUFFICES ASSUME DeliveryInv, [Next]_vars
             PROVE  NothingLost' /\ HandledTokensAreCurrent'
  BY NextTypeOK DEF DeliveryInv
<1>0. ASSUME NEW sl \in Slot, events[sl] # NoEvent
      PROVE  events[sl] \in Event
  BY <1>0 DEF DeliveryInv, TypeOK
<1>1. ASSUME NEW o \in Owners, NEW n \in Namespaces, NEW public \in BOOLEAN,
             NamespaceDeclare(o, n, public)
      PROVE  NothingLost' /\ HandledTokensAreCurrent'
  BY <1>1, SameIdentities DEF NamespaceDeclare
<1>2. ASSUME NEW n \in Namespaces, NamespaceDelete(n)
      PROVE  NothingLost' /\ HandledTokensAreCurrent'
  BY <1>2, SameIdentities DEF NamespaceDelete
<1>3. ASSUME NEW l \in Listener, ListenerCheck(l) \/ ListenerInsert(l)
      PROVE  NothingLost' /\ HandledTokensAreCurrent'
  BY <1>3, SameIdentities DEF ListenerCheck, ListenerInsert
<1>4. ASSUME NEW l \in Listener, NEW d \in BOOLEAN, ListenerDelete(l, d)
      PROVE  NothingLost' /\ HandledTokensAreCurrent'
  <2>1. \A sl \in Slot : events'[sl] = IF sl[1] = l THEN NoEvent ELSE events[sl]
    BY <1>4 DEF ListenerDelete
  <2>2. unseen' = {sl \in unseen : sl[1] # l} /\ tokens' = tokens
    BY <1>4 DEF ListenerDelete
  <2>3. NothingLost'
    BY <2>1, <2>2 DEF DeliveryInv, NothingLost, Rows
  <2>4. HandledTokensAreCurrent'
    BY <2>1, <2>2 DEF DeliveryInv, HandledTokensAreCurrent, Acknowledges, TypeOK, Token
  <2> QED
    BY <2>3, <2>4
<1>5. ASSUME NEW o \in Owners, NEW n \in Namespaces, NEW rk \in RoutingKeys,
             NEW s \in Subjects, NEW p \in Priorities, Send(o, n, rk, s, p)
      PROVE  NothingLost' /\ HandledTokensAreCurrent'
  BY <1>5, AddEventDelivery DEF Send
<1>6. ASSUME NEW rk \in RoutingKeys, NEW s \in Subjects, NEW p \in Priorities,
             NEW filter, Refresh(rk, s, p, filter)
      PROVE  NothingLost' /\ HandledTokensAreCurrent'
  BY <1>6, AddEventDelivery DEF Refresh
<1>7. ASSUME NEW l \in listeners, Fetch(l)
      PROVE  NothingLost' /\ HandledTokensAreCurrent'
  <2>1. PICK sl \in Slot :
          /\ FetchRow(l, sl)
          /\ tokens' = tokens \cup {TokenFor(sl)} \/ tokens' = tokens
    BY <1>7 DEF Fetch
  <2>2. events[sl] \in Event
    BY <1>0, <2>1 DEF FetchRow, ReadyOf, RowsOf, Rows
  <2>3. /\ Fetched(events[sl]) \in Event
        /\ Fetched(events[sl]).pk = events[sl].pk
        /\ Fetched(events[sl]).generation = events[sl].generation
    BY <2>2, FetchedType DEF Fetched, Event
  <2>4. TokenFor(sl) \in Token /\ ~TokenFor(sl).handled
    BY <2>2 DEF TokenFor, Token, Event
  <2>5. events' = [events EXCEPT ![sl] = Fetched(events[sl])] /\ unseen' = unseen
    BY <2>1 DEF FetchRow
  <2>6. NoEvent \notin Event
    BY Constants DEF ConstantAssumptions
  <2>7. \A x \in Slot : events[x] = NoEvent <=> events'[x] = NoEvent
    BY <2>2, <2>3, <2>5, <2>6 DEF DeliveryInv, TypeOK
  <2>8. \A x \in Slot : events[x] # NoEvent =>
          events'[x].pk = events[x].pk /\ events'[x].generation = events[x].generation
    BY <2>3, <2>5 DEF DeliveryInv, TypeOK
  <2> QED
    BY <2>1, <2>4, <2>5, <2>7, <2>8, SameIdentities
<1>8. ASSUME NEW t \in tokens, Handle(t)
      PROVE  NothingLost' /\ HandledTokensAreCurrent'
  <2>1. events' = events /\ unseen' = unseen \ {t.slot}
    BY <1>8 DEF Handle
  <2>2. \A u \in tokens' : u \in tokens \/ u.slot = t.slot
    BY <1>8 DEF Handle, DeliveryInv, TypeOK, Token
  <2>3. NothingLost'
    BY <2>1 DEF DeliveryInv, NothingLost, Rows
  <2>4. HandledTokensAreCurrent'
    BY <2>1, <2>2 DEF DeliveryInv, HandledTokensAreCurrent, Acknowledges
  <2> QED
    BY <2>3, <2>4
<1>9. ASSUME NEW t \in tokens, Forget(t)
      PROVE  NothingLost' /\ HandledTokensAreCurrent'
  BY <1>9, SameIdentities DEF Forget
<1>10. ASSUME NEW t \in tokens, Acknowledge(t)
       PROVE  NothingLost' /\ HandledTokensAreCurrent'
  <2>1. /\ t.handled /\ t.slot \in Slot
        /\ unseen' = unseen /\ tokens' \subseteq tokens
    BY <1>10 DEF Acknowledge, DeliveryInv, TypeOK, Token
  <2>2. CASE ~Acknowledges(t)
    BY <1>10, <2>1, <2>2, SameIdentities DEF Acknowledge
  <2>3. CASE Acknowledges(t)
    <3>1. events' = [events EXCEPT ![t.slot] = NoEvent]
      BY <1>10, <2>3 DEF Acknowledge
    <3>2. t.slot \notin unseen
      BY <2>1, <2>3 DEF DeliveryInv, HandledTokensAreCurrent
    <3>3. NothingLost'
      BY <2>1, <3>1, <3>2 DEF DeliveryInv, NothingLost, Rows, TypeOK
    <3>4. HandledTokensAreCurrent'
      BY <2>1, <3>1 DEF DeliveryInv, HandledTokensAreCurrent, Acknowledges, TypeOK, Token
    <3> QED
      BY <3>3, <3>4
  <2> QED
    BY <2>2, <2>3
<1>11. ASSUME NEW L, NEW S, Silence(L, S) \/ Unsilence(L, S) \/ RerunAll(L, S)
       PROVE  NothingLost' /\ HandledTokensAreCurrent'
  <2>1. ASSUME NEW row \in Event
        PROVE  /\ Silenced(row).pk = row.pk /\ Silenced(row).generation = row.generation
               /\ Unsilenced(row).pk = row.pk /\ Unsilenced(row).generation = row.generation
               /\ Rerun(row).pk = row.pk /\ Rerun(row).generation = row.generation
    BY DEF Silenced, Unsilenced, Rerun, Event
  <2>2. NoEvent \notin Event
    BY Constants DEF ConstantAssumptions
  <2>3. UNCHANGED <<tokens, unseen>>
    BY <1>11 DEF Silence, Unsilence, RerunAll, Update
  <2>4. \A sl \in Slot : \/ events'[sl] = events[sl]
                         \/ /\ events[sl] # NoEvent
                            /\ events'[sl] \in {Silenced(events[sl]),
                                               Unsilenced(events[sl]), Rerun(events[sl])}
    BY <1>11 DEF Silence, Unsilence, RerunAll, Update, Selected, Rows
  <2>5. \A sl \in Slot : events[sl] = NoEvent <=> events'[sl] = NoEvent
    BY <1>0, <2>2, <2>4, MaintenanceType
  <2>6. \A sl \in Slot : events[sl] # NoEvent =>
          events'[sl].pk = events[sl].pk /\ events'[sl].generation = events[sl].generation
    BY <1>0, <2>1, <2>4
  <2> QED
    BY <2>3, <2>5, <2>6, SameIdentities
<1>12. CASE Tick
  <2>1. NoEvent \notin Event
    BY Constants DEF ConstantAssumptions
  <2>2. UNCHANGED <<tokens, unseen>>
    BY <1>12 DEF Tick
  <2>3. \A sl \in Slot :
          events'[sl] = IF events[sl] = NoEvent THEN NoEvent ELSE Aged(events[sl])
    BY <1>12 DEF Tick
  <2> QED
    BY <1>0, <2>1, <2>2, <2>3, AgedType, SameIdentities
<1>13. CASE UNCHANGED vars
  BY <1>13, SameIdentities DEF vars
<1> QED
  BY <1>1, <1>2, <1>3, <1>4, <1>5, <1>6, <1>7, <1>8, <1>9, <1>10, <1>11, <1>12, <1>13
     DEF Next, Registry, Sending, Consuming, Maintenance

\* What was announced and not yet processed is still in the table, for every
\* interleaving of any number of requests (mora/db/events.py add_event and
\* mora/graphapi/mutators.py event_acknowledge).
THEOREM DeliveryCorrect == Spec => []NothingLost
<1>1. DeliveryInv => NothingLost
  BY DEF DeliveryInv
<1> QED
  BY <1>1, InitDelivery, NextDelivery, PTL DEF Spec

\* The strengthening TLC checks beside it.
THEOREM TokensCurrent == Spec => []HandledTokensAreCurrent
<1>1. DeliveryInv => HandledTokensAreCurrent
  BY DEF DeliveryInv
<1> QED
  BY <1>1, InitDelivery, NextDelivery, PTL DEF Spec
-----------------------------------------------------------------------------
(***************************************************************************)
(* The tables refer to each other consistently.                            *)
(***************************************************************************)
RegistryInv == TypeOK /\ RowsHaveListener /\ PrivateNamespaces /\ ChecksHold

registry == <<namespaces, listeners, declaring, overtaken>>

LEMMA InitRegistry == Init => RegistryInv
<1> SUFFICES ASSUME Init PROVE RegistryInv
  OBVIOUS
<1>1. TypeOK
  BY InitTypeOK
<1> QED
  BY <1>1 DEF RegistryInv, RowsHaveListener, PrivateNamespaces, ChecksHold, Init, Rows

\* Requests that do not touch the registry.
LEMMA RegistryKept ==
  ASSUME RegistryInv, UNCHANGED registry
  PROVE  PrivateNamespaces' /\ ChecksHold'
BY DEF RegistryInv, PrivateNamespaces, ChecksHold, Open, registry

\* Those of them that create no rows either.
LEMMA SameRegistry ==
  ASSUME RegistryInv, UNCHANGED registry,
         \A sl \in Slot : events[sl] = NoEvent => events'[sl] = NoEvent
  PROVE  RowsHaveListener' /\ PrivateNamespaces' /\ ChecksHold'
BY RegistryKept DEF RegistryInv, RowsHaveListener, Rows, registry

LEMMA AddEventRegistry ==
  ASSUME RegistryInv, NEW n, NEW rk, NEW s, NEW p, NEW filter,
         AddEvent(n, rk, s, p, filter), UNCHANGED registry
  PROVE  RowsHaveListener' /\ PrivateNamespaces' /\ ChecksHold'
<1>1. \A sl \in Slot : events'[sl] = events[sl] \/ sl[1] \in listeners
  BY DEF AddEvent, Matching
<1>2. RowsHaveListener'
  BY <1>1 DEF RegistryInv, RowsHaveListener, Rows, registry
<1> QED
  BY <1>2, RegistryKept

LEMMA NextRegistry == RegistryInv /\ [Next]_vars => RegistryInv'
<1> SUFFICES ASSUME RegistryInv, [Next]_vars
             PROVE  RowsHaveListener' /\ PrivateNamespaces' /\ ChecksHold'
  BY NextTypeOK DEF RegistryInv
<1>0. /\ listeners \subseteq Listener /\ declaring \subseteq Listener
      /\ \A l \in Listener : l.namespace \in Namespaces
  BY DEF RegistryInv, TypeOK, Listener
<1>1. ASSUME NEW o \in Owners, NEW n \in Namespaces, NEW public \in BOOLEAN,
             NamespaceDeclare(o, n, public)
      PROVE  RowsHaveListener' /\ PrivateNamespaces' /\ ChecksHold'
  <2>1. namespaces[n] = NoNamespace /\ UNCHANGED <<listeners, declaring, overtaken, events>>
    BY <1>1 DEF NamespaceDeclare
  <2>2. \A m \in Namespaces : m # n => namespaces'[m] = namespaces[m]
    BY <1>1 DEF NamespaceDeclare, RegistryInv, TypeOK
  <2>3. \A l \in listeners : l.namespace # n
    BY <2>1 DEF RegistryInv, PrivateNamespaces
  <2>4. \A l \in declaring : l.namespace = n => l \in overtaken \ listeners
    BY <2>1 DEF RegistryInv, ChecksHold, Open
  <2> QED
    BY <1>0, <2>1, <2>2, <2>3, <2>4
       DEF RegistryInv, RowsHaveListener, PrivateNamespaces, ChecksHold, Open, Rows
<1>2. ASSUME NEW n \in Namespaces, NamespaceDelete(n)
      PROVE  RowsHaveListener' /\ PrivateNamespaces' /\ ChecksHold'
  <2>1. /\ \A l \in listeners : l.namespace # n
        /\ overtaken' = overtaken \cup {l \in declaring : l.namespace = n}
        /\ UNCHANGED <<listeners, declaring, events>>
    BY <1>2 DEF NamespaceDelete
  <2>2. \A m \in Namespaces : m # n => namespaces'[m] = namespaces[m]
    BY <1>2 DEF NamespaceDelete, RegistryInv, TypeOK
  <2> QED
    BY <1>0, <2>1, <2>2
       DEF RegistryInv, RowsHaveListener, PrivateNamespaces, ChecksHold, Open, Rows
<1>3. ASSUME NEW l \in Listener, ListenerCheck(l)
      PROVE  RowsHaveListener' /\ PrivateNamespaces' /\ ChecksHold'
  BY <1>3
     DEF ListenerCheck, RegistryInv, RowsHaveListener, PrivateNamespaces, ChecksHold, Open, Rows
<1>4. ASSUME NEW l \in Listener, ListenerInsert(l)
      PROVE  RowsHaveListener' /\ PrivateNamespaces' /\ ChecksHold'
  <2>1. /\ l \in declaring /\ declaring' = declaring \ {l}
        /\ overtaken' = overtaken \cap (declaring' \cup listeners')
        /\ UNCHANGED <<namespaces, events>>
        /\ listeners \subseteq listeners' /\ listeners' \subseteq listeners \cup {l}
        /\ l \in listeners' \ listeners => namespaces[l.namespace] # NoNamespace
    BY <1>4 DEF ListenerInsert
  <2>2. RowsHaveListener'
    BY <2>1 DEF RegistryInv, RowsHaveListener, Rows
  <2>3. \A k : Open(k)' <=> Open(k)
    BY <2>1 DEF Open
  <2>4. PrivateNamespaces'
    BY <2>1, <2>3 DEF RegistryInv, PrivateNamespaces, ChecksHold
  <2>5. ChecksHold'
    BY <2>1, <2>3 DEF RegistryInv, ChecksHold
  <2> QED
    BY <2>2, <2>4, <2>5
<1>5. ASSUME NEW l \in Listener, NEW d \in BOOLEAN, ListenerDelete(l, d)
      PROVE  RowsHaveListener' /\ PrivateNamespaces' /\ ChecksHold'
  BY <1>5
     DEF ListenerDelete, RegistryInv, RowsHaveListener, PrivateNamespaces, ChecksHold, Open, Rows
<1>6. ASSUME NEW o \in Owners, NEW n \in Namespaces, NEW rk \in RoutingKeys,
             NEW s \in Subjects, NEW p \in Priorities, Send(o, n, rk, s, p)
      PROVE  RowsHaveListener' /\ PrivateNamespaces' /\ ChecksHold'
  BY <1>6, AddEventRegistry DEF Send, registry
<1>7. ASSUME NEW rk \in RoutingKeys, NEW s \in Subjects, NEW p \in Priorities,
             NEW filter, Refresh(rk, s, p, filter)
      PROVE  RowsHaveListener' /\ PrivateNamespaces' /\ ChecksHold'
  BY <1>7, AddEventRegistry DEF Refresh, registry
<1>8. ASSUME NEW l \in listeners, Fetch(l)
      PROVE  RowsHaveListener' /\ PrivateNamespaces' /\ ChecksHold'
  BY <1>8, SameRegistry
     DEF Fetch, FetchRow, ReadyOf, RowsOf, Rows, RegistryInv, TypeOK, registry
<1>9. ASSUME NEW t \in tokens, Handle(t) \/ Forget(t) \/ Acknowledge(t)
      PROVE  RowsHaveListener' /\ PrivateNamespaces' /\ ChecksHold'
  BY <1>9, SameRegistry DEF Handle, Forget, Acknowledge, RegistryInv, TypeOK, registry
<1>10. ASSUME NEW L, NEW S, Silence(L, S) \/ Unsilence(L, S) \/ RerunAll(L, S)
       PROVE  RowsHaveListener' /\ PrivateNamespaces' /\ ChecksHold'
  BY <1>10, SameRegistry DEF Silence, Unsilence, RerunAll, Update, Selected, Rows, registry
<1>11. CASE Tick
  BY <1>11, SameRegistry DEF Tick, registry
<1>12. CASE UNCHANGED vars
  BY <1>12, SameRegistry DEF vars, registry
<1> QED
  BY <1>1, <1>2, <1>3, <1>4, <1>5, <1>6, <1>7, <1>8, <1>9, <1>10, <1>11, <1>12
     DEF Next, Registry, Sending, Consuming, Maintenance

\* No delete leaves a row behind that a later listener would inherit.
THEOREM RowsCorrect == Spec => []RowsHaveListener
<1>1. RegistryInv => RowsHaveListener
  BY DEF RegistryInv
<1> QED
  BY <1>1, InitRegistry, NextRegistry, PTL DEF Spec

\* A namespace cannot be deleted and declared again under the listeners it has:
\* whatever other requests do, only a delete between the check and the insert
\* of one declaration leaves its listener in a namespace not open to it.
THEOREM PrivateCorrect == Spec => []PrivateNamespaces
<1>1. RegistryInv => PrivateNamespaces
  BY DEF RegistryInv
<1> QED
  BY <1>1, InitRegistry, NextRegistry, PTL DEF Spec
-----------------------------------------------------------------------------
(***************************************************************************)
(* The queue implements AtLeastOnce: owed is unseen, retained is the rows. *)
(***************************************************************************)
LEMMA InitRefines == Init => ALO!ALOInit
BY DEF Init, ALO!ALOInit, Rows

\* Requests that only change rows in place are stuttering steps.
LEMMA SameRows ==
  ASSUME unseen' = unseen,
         \A sl \in Slot : events[sl] = NoEvent <=> events'[sl] = NoEvent
  PROVE  UNCHANGED ALO!aloVars
<1>1. Rows' = Rows
  BY DEF Rows
<1> QED
  BY <1>1 DEF ALO!aloVars

LEMMA AddEventAnnounces ==
  ASSUME DeliveryInv, NEW n, NEW rk, NEW s \in Subjects, NEW p \in Priorities,
         NEW filter, AddEvent(n, rk, s, p, filter)
  PROVE  \E S \in SUBSET Slot : ALO!Announce(S)
<1> DEFINE hit == Matching(n, rk, filter) \X {s}
<1>1. CanDraw(hit) /\ unseen' = unseen \cup hit /\ hit \in SUBSET Slot
  BY DEF AddEvent, Matching, DeliveryInv, TypeOK, Slot
<1>2. \A sl \in Slot : sl \notin hit => events'[sl] = events[sl]
  BY DEF AddEvent
<1>3. ASSUME NEW sl \in hit
      PROVE  events'[sl] # NoEvent
  <2>1. events[sl] \in Event \cup {NoEvent}
    BY <1>1 DEF DeliveryInv, TypeOK
  <2>2. events'[sl] = IF events[sl] = NoEvent THEN NewRow(sl, p) ELSE Deduplicated(sl, p)
    BY <1>1 DEF AddEvent
  <2>3. events'[sl] \in Event
    BY <1>1, <2>1, <2>2, NewRowType, DeduplicatedType
  <2> QED
    BY <2>3, Constants DEF ConstantAssumptions
<1>4. Rows' = Rows \cup hit
  BY <1>1, <1>2, <1>3 DEF Rows
<1> QED
  BY <1>1, <1>4 DEF ALO!Announce

LEMMA NextRefines == DeliveryInv /\ [Next]_vars => [ALO!ALONext]_ALO!aloVars
<1> SUFFICES ASSUME DeliveryInv, [Next]_vars
             PROVE  ALO!ALONext \/ UNCHANGED ALO!aloVars
  OBVIOUS
<1>0. /\ NoEvent \notin Event
      /\ \A sl \in Slot : events[sl] # NoEvent => events[sl] \in Event
  BY Constants DEF ConstantAssumptions, DeliveryInv, TypeOK
<1>1. ASSUME NEW o \in Owners, NEW n \in Namespaces, NEW public \in BOOLEAN,
             NamespaceDeclare(o, n, public)
      PROVE  UNCHANGED ALO!aloVars
  BY <1>1, SameRows DEF NamespaceDeclare
<1>2. ASSUME NEW n \in Namespaces, NamespaceDelete(n)
      PROVE  UNCHANGED ALO!aloVars
  BY <1>2, SameRows DEF NamespaceDelete
<1>3. ASSUME NEW l \in Listener, ListenerCheck(l) \/ ListenerInsert(l)
      PROVE  UNCHANGED ALO!aloVars
  BY <1>3, SameRows DEF ListenerCheck, ListenerInsert
<1>4. ASSUME NEW l \in Listener, NEW d \in BOOLEAN, ListenerDelete(l, d)
      PROVE  ALO!ALONext
  <2> DEFINE S == {sl \in Slot : sl[1] = l}
  <2>1. unseen' = unseen \ S
    BY <1>4 DEF ListenerDelete, DeliveryInv, TypeOK
  <2>2. Rows' = Rows \ S
    BY <1>4 DEF ListenerDelete, Rows
  <2>3. ALO!Cancel(S)
    BY <2>1, <2>2 DEF ALO!Cancel
  <2> QED
    BY <2>3 DEF ALO!ALONext
<1>5. ASSUME NEW o \in Owners, NEW n \in Namespaces, NEW rk \in RoutingKeys,
             NEW s \in Subjects, NEW p \in Priorities, Send(o, n, rk, s, p)
      PROVE  ALO!ALONext
  BY <1>5, AddEventAnnounces DEF Send, ALO!ALONext
<1>6. ASSUME NEW rk \in RoutingKeys, NEW s \in Subjects, NEW p \in Priorities,
             NEW filter, Refresh(rk, s, p, filter)
      PROVE  ALO!ALONext
  BY <1>6, AddEventAnnounces DEF Refresh, ALO!ALONext
<1>7. ASSUME NEW l \in listeners, Fetch(l)
      PROVE  UNCHANGED ALO!aloVars
  <2>1. PICK sl \in Slot : FetchRow(l, sl)
    BY <1>7 DEF Fetch
  <2>2. events[sl] \in Event
    BY <1>0, <2>1 DEF FetchRow, ReadyOf, RowsOf, Rows
  <2>3. Fetched(events[sl]) \in Event
    BY <2>2, FetchedType
  <2>4. events' = [events EXCEPT ![sl] = Fetched(events[sl])] /\ unseen' = unseen
    BY <2>1 DEF FetchRow
  <2>5. \A x \in Slot : events[x] = NoEvent <=> events'[x] = NoEvent
    BY <1>0, <2>2, <2>3, <2>4 DEF DeliveryInv, TypeOK
  <2> QED
    BY <2>4, <2>5, SameRows
<1>8. ASSUME NEW t \in tokens, Handle(t)
      PROVE  ALO!ALONext
  <2>1. t.slot \in Slot
    BY DEF DeliveryInv, TypeOK, Token
  <2>2. ALO!Consume(t.slot)
    BY <1>8 DEF Handle, ALO!Consume, Rows
  <2> QED
    BY <2>1, <2>2 DEF ALO!ALONext
<1>9. ASSUME NEW t \in tokens, Forget(t)
      PROVE  UNCHANGED ALO!aloVars
  BY <1>9, SameRows DEF Forget
<1>10. ASSUME NEW t \in tokens, Acknowledge(t)
       PROVE  ALO!ALONext \/ UNCHANGED ALO!aloVars
  <2>1. t.slot \in Slot /\ t.handled /\ unseen' = unseen
    BY <1>10 DEF Acknowledge, DeliveryInv, TypeOK, Token
  <2>2. CASE ~Acknowledges(t)
    BY <1>10, <2>1, <2>2, SameRows DEF Acknowledge
  <2>3. CASE Acknowledges(t)
    <3>1. events' = [events EXCEPT ![t.slot] = NoEvent]
      BY <1>10, <2>3 DEF Acknowledge
    <3>2. t.slot \in Rows /\ Rows' = Rows \ {t.slot}
      BY <2>1, <2>3, <3>1 DEF Rows, Acknowledges, DeliveryInv, TypeOK
    <3>3. t.slot \notin unseen
      BY <2>1, <2>3 DEF DeliveryInv, HandledTokensAreCurrent
    <3>4. ALO!Retire(t.slot)
      BY <2>1, <3>2, <3>3 DEF ALO!Retire
    <3> QED
      BY <2>1, <3>4 DEF ALO!ALONext
  <2> QED
    BY <2>2, <2>3
<1>11. ASSUME NEW L, NEW S, Silence(L, S) \/ Unsilence(L, S) \/ RerunAll(L, S)
       PROVE  UNCHANGED ALO!aloVars
  <2>1. unseen' = unseen
    BY <1>11 DEF Silence, Unsilence, RerunAll, Update
  <2>2. \A sl \in Slot : \/ events'[sl] = events[sl]
                         \/ /\ events[sl] # NoEvent
                            /\ events'[sl] \in {Silenced(events[sl]),
                                               Unsilenced(events[sl]), Rerun(events[sl])}
    BY <1>11 DEF Silence, Unsilence, RerunAll, Update, Selected, Rows
  <2> QED
    BY <1>0, <2>1, <2>2, MaintenanceType, SameRows
<1>12. CASE Tick
  <2>1. unseen' = unseen
    BY <1>12 DEF Tick
  <2>2. \A sl \in Slot :
          events'[sl] = IF events[sl] = NoEvent THEN NoEvent ELSE Aged(events[sl])
    BY <1>12 DEF Tick
  <2> QED
    BY <1>0, <2>1, <2>2, AgedType, SameRows
<1>13. CASE UNCHANGED vars
  BY <1>13, SameRows DEF vars
<1> QED
  BY <1>1, <1>2, <1>3, <1>4, <1>5, <1>6, <1>7, <1>8, <1>9, <1>10, <1>11, <1>12, <1>13
     DEF Next, Registry, Sending, Consuming, Maintenance

\* Every behaviour of the queue is one of AtLeastOnce.
THEOREM QueueImplementsAtLeastOnce == Spec => ImplementsAtLeastOnce
BY InitRefines, NextRefines, InitDelivery, NextDelivery, PTL
   DEF Spec, ImplementsAtLeastOnce, ALO!ALOSpec
-----------------------------------------------------------------------------
\* The longest back-off is shorter than the age of a row that is due at once.
(***************************************************************************)
(* A fresh announcement is not held back by an earlier back-off.           *)
(***************************************************************************)
LEMMA BackoffIsShort ==
  ASSUME NEW n \in Nat
  PROVE  Epoch > Backoff(n)
<1>1. Least(n, 32) \in Nat
  BY DEF Least
<1>2. 2 ^ Least(n, 32) \in Int
  BY <1>1
<1> QED
  BY <1>2, Constants DEF ConstantAssumptions, Epoch, AgeCap, Backoff, Greatest, Least

LEMMA AddEventIsReady ==
  ASSUME TypeOK, NEW n, NEW rk, NEW s \in Subjects, NEW p \in Priorities,
         NEW filter, AddEvent(n, rk, s, p, filter)
  PROVE  \A sl \in unseen' \ unseen : sl \in Rows' /\ Ready(sl)'
<1> DEFINE hit == Matching(n, rk, filter) \X {s}
<1>1. CanDraw(hit) /\ unseen' = unseen \cup hit /\ hit \in SUBSET Slot
  BY DEF AddEvent, Matching, TypeOK, Slot
<1> SUFFICES ASSUME NEW sl \in hit
             PROVE  sl \in Rows' /\ Ready(sl)'
  BY <1>1
<1>2. events[sl] \in Event \cup {NoEvent}
  BY <1>1 DEF TypeOK
<1>3. events'[sl] = IF events[sl] = NoEvent THEN NewRow(sl, p) ELSE Deduplicated(sl, p)
  BY <1>1 DEF AddEvent
<1>4. events'[sl] \in Event
  BY <1>1, <1>2, <1>3, NewRowType, DeduplicatedType
<1>5. events'[sl].age = Epoch /\ events'[sl].fetched_count = 0
  <2>1. CASE events[sl] = NoEvent
    BY <1>3, <2>1 DEF NewRow
  <2>2. CASE events[sl] # NoEvent
    BY <1>2, <1>3, <2>2 DEF Deduplicated, Event
  <2> QED
    BY <2>1, <2>2
<1>6. Epoch > Backoff(0)
  BY BackoffIsShort
<1> QED
  BY <1>1, <1>4, <1>5, <1>6, Constants DEF Ready, Rows, ConstantAssumptions

\* Whatever was announced to a listener that had already processed the
\* subject's earlier events can be fetched at once.
THEOREM NewsCorrect == Spec => NewsIsReady
<1> DEFINE News == \A sl \in unseen' \ unseen : sl \in Rows' /\ Ready(sl)'
<1>1. TypeOK /\ [Next]_vars => [News]_vars
  <2> SUFFICES ASSUME TypeOK, Next
               PROVE  News
    OBVIOUS
  <2>1. CASE unseen' \subseteq unseen
    BY <2>1
  <2>2. CASE Registry
    BY <2>1, <2>2 DEF Registry, NamespaceDeclare, NamespaceDelete, ListenerCheck, ListenerInsert,
       ListenerDelete
  <2>3. CASE Sending
    BY <2>3, AddEventIsReady DEF Sending, Send, Refresh
  <2>4. CASE Consuming
    BY <2>1, <2>4 DEF Consuming, Fetch, FetchRow, Handle, Forget, Acknowledge
  <2>5. CASE Maintenance \/ Tick
    BY <2>1, <2>5 DEF Maintenance, Silence, Unsilence, RerunAll, Update, Tick
  <2> QED
    BY <2>2, <2>3, <2>4, <2>5 DEF Next
<1> QED
  BY <1>1, TypeCorrect, PTL DEF Spec, NewsIsReady

LEMMA PrioritiesAreNumbers == \A p \in Priorities : p \in Int
<1>1. \A p \in Priorities : p \in Nat
  BY PrioritiesAssumption
<1>. QED
  BY <1>1

\* add_event merges a row with the more urgent of the two priorities.
LEMMA AddEventKeepsUrgency ==
  ASSUME TypeOK, NEW n, NEW rk, NEW s, NEW p \in Priorities, NEW filter,
         AddEvent(n, rk, s, p, filter), NEW sl \in Rows
  PROVE  events'[sl].priority =< events[sl].priority
<1>. DEFINE hit == Matching(n, rk, filter) \X {s}
<1>1. sl \in Slot /\ events[sl] \in Event /\ events[sl] # NoEvent
  BY DEF Rows, TypeOK
<1>2. events[sl].priority \in Int /\ p \in Int
  <2>1. events[sl].priority \in Priorities
    BY <1>1 DEF Event
  <2> QED
    BY <2>1, PrioritiesAreNumbers
<1>3. events'[sl] = IF sl \in hit THEN Deduplicated(sl, p) ELSE events[sl]
  BY <1>1 DEF AddEvent
<1>4. Deduplicated(sl, p).priority = Least(p, events[sl].priority)
  BY <1>1 DEF Deduplicated, Event
<1>. QED
  BY <1>2, <1>3, <1>4 DEF Least

\* Deduplication keeps the most urgent of the priorities it merges, and nothing else
\* that is done to a row changes its priority.
THEOREM UrgencyCorrect == Spec => UrgencyKept
<1> DEFINE Kept == \A sl \in Rows \cap Rows' :
                     events'[sl].pk = events[sl].pk =>
                       events'[sl].priority =< events[sl].priority
<1>1. TypeOK /\ [Next]_vars => [Kept]_vars
  <2> SUFFICES ASSUME TypeOK, Next, NEW sl \in Rows \cap Rows'
               PROVE  events'[sl].priority =< events[sl].priority
    OBVIOUS
  <2>1. /\ sl \in Slot /\ events[sl] \in Event /\ events[sl] # NoEvent
        /\ events'[sl] # NoEvent /\ events[sl].priority \in Int
    <3>1. /\ sl \in Slot /\ events[sl] \in Event /\ events[sl] # NoEvent
          /\ events'[sl] # NoEvent
      BY DEF Rows, TypeOK
    <3>2. events[sl].priority \in Priorities
      BY <3>1 DEF Event
    <3> QED
      BY <3>1, <3>2, PrioritiesAreNumbers
  <2>2. ASSUME events'[sl] = events[sl] \/ events'[sl].priority = events[sl].priority
        PROVE  events'[sl].priority =< events[sl].priority
    BY <2>1, <2>2
  <2>3. CASE Registry
    BY <2>1, <2>2, <2>3
    DEF Registry, NamespaceDeclare, NamespaceDelete, ListenerCheck,
        ListenerInsert, ListenerDelete
  <2>4. CASE Sending
    BY <2>4, AddEventKeepsUrgency DEF Sending, Send, Refresh
  <2>5. CASE Consuming
    <3>1. ASSUME NEW l \in listeners, Fetch(l)
          PROVE  events'[sl] \in {events[sl], Fetched(events[sl])}
      BY <2>1, <3>1 DEF Fetch, FetchRow, TypeOK
    <3>2. Fetched(events[sl]).priority = events[sl].priority
      BY <2>1 DEF Fetched, Event
    <3>3. ASSUME NEW t \in tokens, Handle(t) \/ Forget(t) \/ Acknowledge(t)
          PROVE  events'[sl] = events[sl]
      BY <2>1, <3>3 DEF Handle, Forget, Acknowledge, TypeOK
    <3> QED
      BY <2>2, <2>5, <3>1, <3>2, <3>3 DEF Consuming
  <2>6. CASE Maintenance
    BY <2>1, <2>2, <2>6
    DEF Maintenance, Silence, Unsilence, RerunAll, Update, Silenced, Unsilenced, Rerun, Event
  <2>7. CASE Tick
    BY <2>1, <2>2, <2>7 DEF Tick, Aged, Event
  <2> QED
    BY <2>3, <2>4, <2>5, <2>6, <2>7 DEF Next
<1> QED
  BY <1>1, TypeCorrect, PTL DEF Spec, UrgencyKept
==============================================================================
