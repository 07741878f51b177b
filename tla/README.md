# OS2mo in TLA+

OS2mo is the organisation register of Danish municipalities: a GraphQL API in front of a
bitemporal object store in PostgreSQL ("LoRa"), with an event system that tells integrations
what has changed. This directory models the parts of it whose correctness depends on the order
in which things happen, model-checks them with TLC, and proves the most important results with
TLAPS for every size of the instance.

## 1. The system

| component | source | state | operations |
|---|---|---|---|
| GraphQL event queue | `mora/db/events.py`, `mora/graphapi/events.py`, `event_*` and `refresh` in `mora/graphapi/mutators.py` | tables `event_namespace`, `event_listener`, `event` | declare and delete namespaces and listeners; send, fetch, acknowledge; silence, unsilence, rerun; refresh |
| Event generator | `mora/amqp.py`, `mora/db/_amqp.py` | `amqp_subsystem.last_run` | a run every 5 to 90 seconds: query what was registered or went into or out of effect since the last run, publish on AMQP, add to the queue, move `last_run` |
| Request transactions | `mora/db/__init__.py`, `RollbackOnError` in `mora/graphapi/schema.py`, `mora/access_log.py`, `lora_to_mo_exception` in `mora/lora.py` | the PostgreSQL transaction and the session of a request | begin, statements of sub-mutations, roll back on errors, commit |
| Organisation units | `mora/service/orgunit.py`, `mora/graphapi/org_unit.py`, `mora/service/validation/validator.py`, `mora/service/tree_helper.py` | validity and parent of every unit over time | create, edit, move, terminate; ancestors, descendants, roots, inherited managers, the tree |
| Relation handlers | `mora/service/*.py`, `mora/mapping.py`, `mora/handler/` | none; the objects are in the store | create, edit, terminate, vacate, delete, for fifteen kinds of objects; reading them back |
| Virkning algorithms | `mora/common.py`, `get_effects` in `mora/lora.py` | none | `update_payload`, `ensure_bounds`, `_merge_obj_effects`, `get_effects`, `is_range_relevant` |
| Bitemporal object store | `alembic/versions/initial_schema.sql` (`as_create_or_import_*`, `as_update_*`), `oio_rest/` | registrations, each with attributes, states and relations over *virkning* periods | create, update (merge by period), delete, import, passivate; list and search for a period |
| GraphQL reading | `mora/graphapi/resolvers.py`, `filters.py`, `collections/` | none | filters, links from object to object, lists of an object |
| Data models | `mora/graphapi/models.py`, `inputs.py` | none | which fields a mutation offers, requires, sends as null |
| Data loaders | `mora/lora.py` (`Scope`), `mora/graphapi/readers.py` | batches and caches of one request | load |
| Pagination | `mora/graphapi/paged.py` | the client's cursor | next page |
| Legacy service API | `mora/service/` | none | lists of details, past, present and future; lists of requests; the tree |
| Authorisation | `mora/graphapi/schema.py`, `mora/auth/keycloak/` | none of its own | role and owner policies |
| File store, triggers, application shell, migrations | see `PROJECT.json` | | |

How they interact. A GraphQL request opens one transaction (`transaction_per_request`). Its
mutators run handlers, which read the store, validate, compute a payload and send it to the
store in the same transaction. A registration in the store carries the time of its statement.
The event generator, another process, looks for registrations and validity bounds in the window
since its last run and calls `add_event`, which upserts one row for each listener of the "mo"
namespace that listens to the type. Integrations call `event_fetch`, read the object they are
told of, and call `event_acknowledge`.

What is hard. Requests run concurrently under READ COMMITTED; rows are locked, waited for or
skipped; times of registration and of commit differ; answers and acknowledgements are lost and
repeated; an event that cannot be processed must not hold up others; several sub-mutations of a
request, possibly interleaved by `asyncio.gather`, must be atomic; validators check a state that
is gone when their payload is stored, and check one day of a change that lasts for ever. Six
places - mutation inputs, handlers that create, handlers that edit, handlers that read, filters,
links - say independently in which relation a field is kept, with which object type, and whether
it holds one reference or several; an edit computes rows for periods from rows for other periods,
by different rules for three kinds of relation; and whoever reads is given only the rows that
overlap the period that was asked for, and cuts them anew.
`PROJECT.json` lists these hazards at their lines with the properties that watch them.

What makes each part correct, in a sentence:

* *queue*: what was announced to a listener and not processed since is in the table, whatever
  interleaves; poison neither blocks nor is given up; listeners are where they may listen;
* *generator*: nothing registered or taking effect falls between two windows, over failing runs;
* *pipeline*: an integration that does as the documentation says converges to the state of MO;
* *requests*: all or nothing, and the answer tells which;
* *organisation units*: the units form a tree, edits move nobody who is not named, and no change
  takes units out of the tree; those who look up and those who look down see the same tree;
* *details*: a field that holds one reference never holds two; an edit changes what it names, on
  its own days, and nothing else; an object that is active has what such objects need;
* *reading*: an object is found by what it is returned with, in every period; and the lists of
  the past, the present and the future are together what there is;
* *pages*: an iteration returns each object that is there throughout, once.

## 2. The modules

| module | models | extends or composes |
|---|---|---|
| `AtLeastOnce` | the abstract promise of the event system: what is owed is retained | |
| `EventQueue` | the tables, with one action for each mutator and for `event_fetch`; one action is one request | implements `AtLeastOnce` |
| `EventDelivery` | the queue with an integration that polls, for liveness | extends `EventQueue` |
| `EventQueueTxn` | the statements of `add_event`, `event_fetch` and `event_acknowledge` as interleaving transactions with row locks | implements `AtLeastOnce` |
| `EventGenerator` | the generator's runs beside writers | |
| `EventPipeline` | generator, queue (through `AtLeastOnce`) and integration | extends `EventGenerator`, instantiates `AtLeastOnce` |
| `GraphQLRequest` | one request: sub-mutations, transaction, answer | |
| `OrgUnitTree` | the tree of units over days, with concurrent clients | |
| `OrgUnitReading` | pages of a unit's children while the tree changes, and the ways to look up and down | extends `OrgUnitTree` |
| `DetailFields` | the field tuples of `mora/mapping.py` | |
| `DetailInputs` | what the inputs of the mutations offer, require and send as null | |
| `DetailHandlers` | for each kind of object: what the handlers create, edit, extend and read | extends `DetailFields`, `DetailInputs` |
| `DetailLinks` | the filters' arguments, the links of the GraphQL types, the lists of objects | |
| `Details` | one object over time: created, edited, terminated, vacated, deleted, by several clients | extends `DetailHandlers`, `DetailLinks` |
| `DetailLists` | what is found and read for a period | extends `Details` |
| `EventQueueProofs`, `EventQueueTxnProofs`, `EventPipelineProofs`, `GraphQLRequestProofs`, `OrgUnitTreeProofs`, `OrgUnitReadingProofs`, `DetailsProofs`, `DetailReadingProofs` (on `DetailLists`) | theorems | extend their modules |
| `MC...` | instances for TLC: small constants and symmetry | extend their modules |

An operator whose comment begins with "Faulty variant of" is not part of the model. It is the
mutated form of the operator that follows it, which the property it is paired with in
`PROJECT.json` must reject: every checked property is known to notice a plausible bug.

### EventQueue

`namespaces`, `listeners` and `events` are the tables; `events` is a function of (listener,
subject), which the table's unique constraint makes unique. `tokens` are the `EventToken`s in
the hands of integrations, each with whether its holder has processed the event. `unseen` is
history: what was announced to a listener since it last processed the subject. A row's age
stands for `now() - last_tried`, saturated beyond the longest back-off; identifiers
come from a small pool, which is sound because they are only compared for equality and one that
nobody holds may be drawn again. Requests that the code answers with an error change nothing
and are no actions. `Acknowledges` compares primary key and generation, as the `DELETE` does;
`Deduplicated` is the `ON CONFLICT DO UPDATE` clause; `Precedes` the `ORDER BY`.

One request is one action, but for the declaration of a listener: it selects and checks the
namespace (`ListenerCheck`) and inserts the listener (`ListenerInsert`) in statements between
which no lock is held. `declaring` holds the declarations in between, and `overtaken` is history:
those of them whose namespace was deleted meanwhile. It may have been declared again by then, as
somebody else's private one, and the foreign key accepts the listener. No document says that it
cannot, so this is no finding; `PrivateNamespaces` excepts just these. The other checks of
owners (`Send`, the deletion of listeners) are one action with what they guard: deleting
and declaring a namespace again changes no listener's owner.

### EventQueueTxn

Opens the requests up. `table` holds committed rows, `written` what each transaction has
written, `locked` the row locks, `share` and `exclusive` the locks on the listener's row, which
the foreign key check of an insert and the `FOR UPDATE` of the fetch take. An upsert or a delete
waits for a row's lock and then acts on the row as it is; a fetch takes a snapshot, skips locked
rows and checks the others again once it has locked them. Any transaction may be rolled back at
any point, which covers errors, lost connections and PostgreSQL's deadlock detection.

### EventGenerator and EventPipeline

A writer takes its registration's time when its statement runs (`Register`) and is seen when it
commits (`Commit`). A run reads `now` and `last_run` (`Begin`), queries (`Scan`), and stores
`last_run` together with its events (`Finish`), or fails (`Fail`) with any part of its AMQP
messages sent. `dirty` and `unheard` are history: what changed since it was last announced in
the queue, and on AMQP. `PromptWriters` assumes that who registered before a run began has
committed when it queries; without it the promise fails (section 4). The pipeline adds the
queue through its abstract promise and an integration that reads an object when told of it.

### GraphQLRequest

Sub-mutations are fields, which take turns, or elements of a list, which interleave between
their statements. Each meets one outcome: a change, no change (PostgreSQL raises, the code
swallows it, the transaction is aborted), a rejection by a validator, or a database error. The
operation ends when all fields are over or the first element of a list fails.
`RollsBack` is `RollbackOnError`; `Commit` knows that the `COMMIT` of an aborted transaction is a
roll-back without an error, and that the access log, if there is any, is flushed first. The
log leaves some clients out (`access_log_no_log_uuids`): `Arrive` chooses whether the request's is
one of them (`exempt`).

### OrgUnitTree

Time is a few days, the last of which lasts for ever; `active` and `parent` give each unit's
days of activity and its parent each day. A client's request validates against what is
committed and computes a payload (`Prepare...`), and stores it in a later step (`Store`), so
that clients interleave between the two. `Walk` states what the loop of
`is_candidate_parent_valid` establishes without recursion: a place is reached from the root
when every set that holds the root and is closed under children holds it. `Merged` is the
store's update: periods of the payload overwrite, others stay.

### OrgUnitReading

The steps of `OrgUnitTree` (`Write`) beside a client who iterates over the children of a unit.
`Begin` asks for the first page; `Paginate` is the statement that selects the UUIDs beyond the
cursor, one more than the limit; `Load` the statement that loads the objects of the page, which
leaves out those that have gone since. The cursor lasts from request to request. `steady` is
history: the units that have been children ever since the iteration began. Each page may ask for
another limit; limits are positive.

The rest are pure readings of one state of the tree. `WithDescendant` and `WithAncestor` are
the recursive queries of the filters, `Ancestors` and `RootsOf` the fields of the GraphQL type,
`InheritsFrom` the manager resolver's walk, `UnitTree` the loop in rounds of `tree_helper.py`.
`Closure` stands for all of their recursions, with steps that differ: the filters pass through
units that are not active, a unit's ancestors stop there. It makes as many rounds as there are
units, which is proved to be enough.

### Details and its tables

A field of an object is kept in a *relation* of its registration, as rows: a first and a last
day, an object type (`of`) and a target. What is written of a relation does not depend on the rows of
another, so a behaviour follows one relation of one kind of object (`role` and `relation` are chosen by `Init`), and the
state (`gyldighed`, or `publiceret`) is one more. `DetailHandlers` is six tables with an entry
for each of the fifteen kinds of objects, each entry translated from its own place in the code,
so that disagreement between places can be found: in which relation `prepare_create` writes a
field (`Create`), which field tuple `prepare_edit` writes (`Edit`) and which it extends when the
edit does not name them (`Bounds`), which field tuple the reading handler reads (`Reads`), and at
which relations' changes it cuts an object into periods (`Relevant`). Objects of a kind are stored
under one function (`StoredAs`). `DetailLinks` holds, in the same way, each query's filter with the
objects it selects from and the relation each of its arguments searches (`Resolvers`), and
each list of objects with the query and the argument it is made of.

`Prepare` is `prepare_edit`: the object is read (`Consolidated`), and the payload computed by
`update_payload` for what is named and by `ensure_bounds` for the rest (`Payload`,
`EnsureBounds`; ends of rows that sort equal are taken in any order). `Completed` is the
manager's handler, which writes responsibilities and level together. `Terminate`, `Vacate` and
`Delete` are the other requests. `Store` merges a payload into the registration in force as
`as_update_*` does: a zero-to-one relation keeps what the payload does not cover, a list is
replaced. Requests of several clients, or the entries of one list of requests, which are all
prepared before the first is stored, interleave between `Prepare` and `Store`; a request whose
object has changed since it was prepared is no longer `fresh`. An object that was deleted while a
request was under way comes back with what that request stores.

### DetailLists

Reading for a period. Time is finer than a day, since validities are asked for at moments of a
day: an instant is a midnight, a later time of the day, or just after one of them. `Fetched` is
what `_trim_virkninger` leaves of an object for a period, `Listed` the periods that `get_effects`
makes of it and `is_range_relevant` keeps, without those in which the object is not active,
`Found` what a filter finds it by, `Answered` whether
a loader's batch hands it to one of its calls. `GraphQLWindows` are the periods of a query,
`Window` those of the past, the present and the future in the service API.

Whether an object is active is said by rows of its own (`gyldighed`, or `publiceret`), at whose
changes periods are cut as well. Since a behaviour follows one relation, the properties are stated
for every set of days on which the object might be active (`Activities`); a behaviour that follows
the state itself has the days that its rows say.

## 3. The runs

| run | instance | states | what it shows |
|---|---|---|---|
| `queue_delivery` | `MCEventQueue_delivery.cfg`: one listener, one subject, two priorities, two tokens; or two owners who declare and delete | 263,072 | nothing announced and unprocessed is lost, tokens that match their row are current, news can be fetched at once, urgency only rises, rows belong to declared listeners, nobody listens in another's private namespace whose declaration no deletion overtook, and the queue implements `AtLeastOnce` |
| `queue_poison` | `MCEventDelivery.cfg`: two subjects, one of them poison, fair polling | 8,925 | poison does not block the other subject and is retried for ever; what is not poison is delivered |
| `queue_transactions` | `MCEventQueueTxn.cfg`: two workers, one emitter, two subjects | 605,297 | statement by statement: nothing is lost, no row is handed out twice, deletes hit only what was processed, and the transactions implement `AtLeastOnce` |
| `generator_slow_writer` | `MCEventGenerator_slow.cfg`: a transaction may outlive a run's query | violation | a change that is never announced (section 4) |
| `pipeline` | `MCEventPipeline.cfg`: two writers, one object, time to 2 | 33,245 | over failing runs nothing is missed, every change reaches queue and AMQP, and the integration's copy converges |
| `request_logged` | `MCGraphQLRequest_logged.cfg`: three sub-mutations, access log on | 21,945 | all or nothing, errors keep nothing, success was stored unless the client is left out of the log |
| `request_silent` | `MCGraphQLRequest_silent.cfg`: two sub-mutations, access log off | violation | success is answered and nothing stored (section 4) |
| `tree_days` | `MCOrgUnitTree_days.cfg`: one client, three days, recreation of units | 859,202 | a move ends under the root, an edit moves nobody, and who hangs in the tree below active units stays in it, on the days that are validated |
| `tree_reading` | `MCOrgUnitReading.cfg`: one client, three units, one day, a reader | 126,844 | the units stay a tree, an iteration over pages is complete and returns nothing twice, and those who look up and down the tree agree |
| `tree_scheduled` | `MCOrgUnitTree_scheduled.cfg`: one client, later days | violation | a scheduled move closes a cycle (section 4) |
| `tree_concurrent` | `MCOrgUnitTree_concurrent.cfg`: two clients, one day | violation | two moves close a cycle (section 4) |
| `details` | `MCDetails.cfg`: every relation of fifteen kinds of objects, three days, two targets, two clients for four of the relations | 398,265 | one reference stays one, edits are local and complete, an object is found by what it is returned with, whatever days it is active on, and the lists agree with it |

Why the bounds are enough. In the queue one subject with two tokens and two priorities covers
every race of a row with its tokens: rows of different subjects meet only in the order of a
fetch (`queue_poison` has two) and in the locks (`queue_transactions` has two, and a second
worker to race with; what more emitters could do is covered by the theorems). `MaxDelay`
of two units distinguishes ready, first back-off and longest back-off. The generator's windows
meet at an instant, so three instants give windows that touch, that overlap and that
follow a failed run. Three sub-mutations give a change before and one after whatever fails. Two
units close a cycle, and three give chains and siblings, and pages that end before, at and after
a unit that moves; three days give a first, a middle and a last period, which is all
`ensure_bounds` tells apart. In `details` two targets tell a reference from another, and lists of
two from lists of one; edits of three days leave up to three rows, gaps and rows that touch, and
the relations with two clients are two that keep one row at a time (one of them a state) and
two lists. `queue_delivery` follows two shapes of
behaviour, which the constraint `Shapes` names: one listener whose events are sent, fetched and
acknowledged, and owners who declare and delete with one event sent, with two declarations at
a time between their check and their insert. What the instances leave
open for the safety properties is what the theorems are for.

The bounds by name: `TokenCap`, `FetchedCap`, `Ids`, `Budget`, `MaxTime`, `Horizon`, `Limits`,
`RowCap`, `Contested`; each is a constant with a comment in its module. Deadlock is checked in
every run but `details`, where the system stops: an object that was deleted cannot be edited, and
one with more than `RowCap` rows is not edited further.

Fairness. `EventDelivery`: the integration polls, processes and acknowledges for ever
(`docs/src/tech-docs/events.md` tells it to) and time passes; nobody is obliged to send, and
sends are finite, because a queue ordered by priority owes nothing to a row that is overtaken
for ever. `EventGenerator` and `EventPipeline`: the generator is an endless loop (weak
fairness of `Begin`), a run that can fail again and again is not doomed to (strong fairness of
`Scan` and `Finish`: transient failures), and transactions end. Nothing is assumed of writers.

### What the properties of details leave out, and why

Much of what a reader would expect of every edit holds only of some, and the premises say which.
They are facts about the code that no document contradicts, so they are named here and in
`PROJECT.json` and not reported as errors.

* `EditsAreLocal` is stated of `Regular` requests: creations, terminations, and edits that were
  prepared for what is still stored, or, for relations that keep one row at a time, whenever. A
  payload for a *list* is the whole list as it was read; stored after another, it undoes the
  other. Left out as well are fields that a handler ignores (the person of an engagement),
  zero-to-many relations that are used as such (a trade union, a unit's hierarchy, a class's IT
  system), which `update_payload` replaces on all days, one of two fields that share a relation
  (a manager's level and responsibilities, the engagement and IT user of an address), several
  references that are not named when an end moves, and vacating a detail that somebody else had
  before, who is lost from the list.
* `EditsComplete` is stated of days that are not in a gap between two periods of activity, of
  objects that were not vacated or deleted, and where edits do not compete with deletions
  (section 5, `DeletedAlone`). In a gap an edit makes an object active, but extends
  no other field there: `ensure_bounds` moves the outer ends only.
* `FiltersAgree` and `CollectionsAgree` are looked at when no request is under way (`Quiet`). What
  is stored beside a request that has not been stored yet could have been stored without it, so
  that no stored state is missed; it saves evaluating them for every request under way.
* A filter asks for an active row and for a row of the relation, each somewhere in the period. An
  engagement with unit A on the first day and B from the second, which is terminated from the
  second, is found by B in a query for both days, and returned with A alone. So `FiltersAgree` says
  that whatever an object is returned with finds it, in every period; that nothing else does, it
  says of periods throughout which the object is active, and of moments.
* Days and values are compared, not the ends of periods. For a period of time an object is cut
  without the rows outside the period, so a period may be told as longer than it is.
* Lists of the past and the future may hold objects for a person who had them on other days of
  what was read; the values say whose a period is. The present list has none of these. The past
  addresses of the service API include those that end today.
* The filters may find more units above a unit than its list of ancestors: an edit may make a
  unit active again whose parent is not. `ReadingsAgree` states the inclusion.

## 4. Where code and documentation disagree

Four runs look for a counterexample and find one; `PROJECT.json` quotes the lines.

* `generator_slow_writer`: a registration's time is its statement's, so a transaction that
  commits after a run has queried, with a time before the run's `now`, is never announced,
  although "whenever an object is registered ... an event is emitted".
* `request_silent`: with the access log off, which is the default, a request whose last update
  changes nothing answers success after all its changes were rolled back; the documentation
  says it fails.
* `tree_scheduled`: moves are validated on their first day only; a move scheduled for later and
  one from today close a cycle, although the tests are there to "verify that we cannot create
  cycles".
* `tree_concurrent`: two moves that are validated at the same time close a cycle.

One more has no run of its own. A unit without managers inherits "the result from calling
`managers` with `inherit=True` on the parent" (`mora/graphapi/resolvers.py:1650`), and the walk's
`get_parent` says it selects the "active parent unit" (1600), but it asks for an active relation
only and walks through units that are not active. Let u3 be a root with a manager, u1 below u3 and
u2 below u1; terminate u2, then u1, then rename u2, which makes it active again below u1, which is
not: u2 inherits the managers of u3, while those of u1 are an empty list. `Nearest` models the code,
and `ReadingsAgree` says that the documented sentence holds of units whose parent is active.

## 5. The theorems

All for arbitrary sets of owners, subjects, objects, units, targets and clients and any bounds,
under the modules' named assumptions on constants.

**`EventQueueProofs`.** `TypeCorrect` is the type invariant. `NothingLost` alone is not
inductive: an acknowledgement could delete the row of an unseen subject. What rules it out is
`HandledTokensAreCurrent`: a token that was processed and still matches its row was issued after
the last announcement, because every announcement draws a generation that no token holds. The
two together with the type invariant are inductive, which gives `DeliveryCorrect` and
`TokensCurrent`; each step then maps to a step of `AtLeastOnce` or a stutter
(`QueueImplementsAtLeastOnce`). `NewsCorrect`, `RowsCorrect` and `PrivateCorrect` follow from
inductive invariants of their own; that of `PrivateCorrect` says in addition that what a
declaration has checked still holds until a deletion overtakes it (`ChecksHold`). `UrgencyCorrect` proves the action property `UrgencyKept`:
while a row lives its priority only becomes more urgent, for any priorities.

**`EventQueueTxnProofs`.** The same promise one level down, for any number of emitters and
workers. The invariant is what row locks are good for: `WritersHoldLocks` (who has written a row
holds its lock, so no two transactions have), `WritesFitSteps`, `WorkersWriteRows` (a fetch's
uncommitted stamp and the committed row have one generation, and the row is still ready),
`GenerationsAreNew` (no token has the generation of an uncommitted announcement),
`HandledTokensAreCurrent` and `ReadyIsNotHanded`. Each step keeps it (one lemma for each action
that writes, one for all roll-backs, one for the quiet steps); from it come `DeliveryCorrect`,
`DeletesCorrect`, `FetchedOnce` and the refinement `TxnImplementsAtLeastOnce`.

**`EventPipelineProofs`.** Of the generator, `NothingIsMissed` proves `NothingMissed` under `PromptWriters`. The
strengthening is `WindowsMeet`: times never run ahead of the clock, nobody who registered
before `last_run` is uncommitted, and what a run under way did not select is pending for
the run after it. `WindowsAlwaysMeet` states that by itself.

Of the pipeline, `OutdatedIsAlwaysPending`: an integration whose copy differs from what
it would read is still to be told. It needs that registrations carry times of the past, so that
the passing of time changes the view of an object only when the object goes into or out of
effect (`ViewLater`), and it needs no `PromptWriters`: an overlooked change stays owed.

**`GraphQLRequestProofs`.** `RequestsAreAtomic`, `ErrorsAreRolledBack` and `LoggedIsKept`, for
any number of sub-mutations. The strengthening says that an open transaction holds exactly the
changes of what was written (`OpenHoldsChanges`), that nobody is under way when something is
stored or success is told (`AnsweredLast`), and that a transaction which was aborted has read,
and so logged, where the client is logged at all (`ReadersLog`). The premise of `LoggedIsKept`, that
the access log is on and does not leave the client out, is sharp: see `request_silent`.

**`OrgUnitTreeProofs`.** `TypeCorrect` holds whatever interleaves; it rests on `PendingOK`, what
keeps a unit in existence when a payload is stored late. The others are for requests that come
one at a time (`Serial`): `SerialInv` says that what was validated still holds when it is stored.
From it follow `MovesAreSound`, `EditsMoveNobody` (with lemma `EnsureBoundsKeeps` about
`ensure_bounds` and `Ends` about the least and greatest day of a set) and `UnitsStayInTree`: a
unit that hangs in the tree below active units hangs in it after any change is stored, if it is
still active, on every day but the later days of a move or a termination; creates that reuse a UUID
are left out. It rests on what termination validates of the children, a move of the new
place, and an edit of the days it extends (`HangsStill`: a set closed under the new children is, with
the unit that was terminated, closed under the old ones).
`TreeStaysATree` proves `NoCycles` when changes take effect at once and last and no create
reuses a UUID: a set closed under parents after a move, taken away from the places, is closed
under children, so that the walk could not have ended at the root. The three premises are
sharp: without the first there is `tree_concurrent`, without the second `tree_scheduled`.

**`OrgUnitReadingProofs`.** `IterationIsComplete`: for any units, any limits, one for each page, and
any changes of the tree between the pages and between the two statements of a page, a client that
follows the cursors to the end has been returned each child that was there throughout, and none
twice. The strengthening, `Reached`, is what a cursor means: what lies at or before it, if it was
there throughout, was returned or is about to be, and nothing beyond it was. It needs no property
of the tree.

`ReadingsAlwaysAgree` proves `ReadingsAgree` for any units, from the premises of
`TreeStaysATree`. All of the readings are closures, and `ClosureIsLeast` says what a closure is: the
least set that holds its base and that no step leaves. That is not by definition: `Closure` makes
as many rounds as there are units. `RoundsExist` and `ClosureIsRounds` find the rounds, by the
least number of them for which there are none, and `RoundsClose` counts: a round that is not the
last adds a place, so that after n of them more than n places are found, and `FewPlaces` has
one place more than units. From there on the numbers are gone. `Above` is what the parents lead
to from a place: a chain (`AboveLinear`), because a unit has one parent, and in a tree no two
places are above each other (`AboveOnce`), because what lies between them would be closed under
parents. Then `UpAndDown` (the filters for ancestors and descendants are inverse, which needs no
tree), `OneRoot`, `AncestorsAgree`, `ManagersAgree` and `TreesAgree` follow, each by a set that
holds the base and is closed. The last also needs what is climbed through to have a parent
(`ClimbedHasParent`), from `ParentsExist` of `OrgUnitTreeProofs`: a unit without one would be a top
beside the organisation, and `get_unit_tree` leaves the tops out.

**`DetailsProofs`.** `TypeCorrect`: whatever is edited by any number of clients, in whichever order
payloads are stored, over any number of days, each row begins before it ends and refers to an
object of its kind. A period that ends before it begins is what off-by-one errors of
`update_payload`, `ensure_bounds` and the store's merge lead to. `WellFormed` is kept by each
operator on rows (`OutsideWellFormed`, `ConsolidatedWellFormed`, `MergedWellFormed`, ...), and the
inductive invariant `IInv` says it of the rows and of every payload under way (`PendingOK`). That
`ensure_bounds` finds a first and a last row needs a set of days to have a least element, by
induction; the tables' object types are checked entry by entry (`EditTypes`, `CreateTypes`).

`OneReferenceHolds`: on no day has a field that holds one reference two of them, for every kind
and relation. `OneReference` alone is not inductive: it says nothing of the payloads that others
have prepared from rows that have changed since. There are two strengthenings.

`AllApart` is about relations that one field has to itself. No two rows hold on one day, neither
in the store nor in a payload (`Apart`); and where the store keeps one row at a time a payload has
at most a first and a last row (`Few`), because the merge clears just the days of these two:
with three, what lies between them could overlap with the rows it keeps (`MergedApart`).
`ConsolidatedApart` is about reading, where consecutive rows of one value become one, and
`EnsureBoundsApart` about an edit that moves the first row back or the last one on. That such a
relation has one field, which the tables write, bound and read alike (`Sole`), is checked for
every entry (`OwnRelations`).

`SharedApart` is about the nine others, `Shared`, which are lists or serve several fields:
`opgaver` of units, managers, addresses and KLE, `opmaerkning` of units, `tilknyttedefunktioner`
of IT users and addresses, `tilknyttedeklasser` of associations, and `mapninger` of classes. There,
rows of several fields or several values of one hold on one day, and the rows that a field's
reader takes are apart (`FieldRows`). The tables must tell them from the rest of their list
by the object type (`SharedRelations`, entry by entry): another field of the list writes rows of
another type, cuts off rows of another type or all of them, and extends rows of another type.
Consolidating, cutting off and extending keep types (`OfConsolidated`, `OfOutside`,
`OfEnsureBounds`). A manager's responsibilities and level are two fields that an edit may extend
at once, from one pair of ends; that the level is safe rests on its being written by every
edit (`CompletedIsSingle`).

**`DetailReadingProofs`.** The other four properties of details, for every kind and relation of the
tables, any days, targets and clients.

They have in common that the tables must fit together, which is stated once for each pair of
places and checked entry by entry for the fifteen kinds: what is created is read by its own
reader and by no other, and cuts the object into periods (`ReadsFit`); edits write rows of the
object type that creations write (`EditFits`); what is extended is what is read (`BoundsFit`); the
arguments of filters, the links and the lists look into the relation where the field is kept
(`FilterFits`, `ListFits`); what is sent as null when it is left out can be null (`NullsFit`); and
what a creation must name, no edit can clear (`NeedsFit`). A table that disagrees with another
makes one of these lemmas unprovable, and names the entry.

The invariant is `MInv`. Its rows are `Sound`: each is of the object type of some field, and is empty
only in relations where something can be cleared. And each request under way was `Made` from rows
that were sound: from those of the object, as long as it is fresh.

`FiltersAlwaysAgree` and `CollectionsAlwaysAgree` then say of sound rows that all ways to read them
agree. What rows say on a day is a set of pairs (`Said`); a period reads on each of its days
what the rows say on that day, because nothing changes between two cuts (`EffectIsOn`),
consolidation does not change it (`ConsolidatedSays`), nor does leaving out what does not overlap
the period that was asked for (`KeptSays`, `FetchedSays`). The days on which the object is active are any that
its activities allow (`Activities`): a reader drops the days on which it is not, whereas a filter
only asks for one such day somewhere in the window, and the search behind the lists of the service
API for none. A filter therefore finds all that is returned, and no more unless the object is active
on some days of the window and not on others. For the lists of the service API a
case for each of the past, the present and the future shows on which days a value is told.

`EditsAlwaysLocal` is about what a request makes of the rows, also if they have changed since it
was prepared. Where the edit sends all fields of the relation (`Replaces`), the rows of the payload
say what was asked on its days, and on other days the old ones are left by `Outside` in lists and by
the store's merge otherwise (`ReplacesReads`). Where it sends none, the outer rows are moved
(`MovedOn`), and the merge of one or both of them changes no day that had a row (`BoundsSay`). That
a request which disappears was stored, and no other action took it away, needs `NoRequest` to
differ from all requests (`RequestAssumption`).

`EditsAlwaysComplete`: a day of the edit that is in no gap is covered by a row, which the first or
the last one was moved to (`MovedCovers`, `BoundsCover`), or the edit names the field
(`NamedCovers`). It needs more than `MInv`: there must be a row to move, and for a manager a level to
keep. `NInv` says so of every object that was created and not deleted. An edit that was prepared
before a deletion and stored after it breaks it: the object comes back with what that edit
changes and without what it needs. `DeletedAlone` excludes this, for the kinds that can be deleted
and the fields they need; `MCDetails` evaluates it for the run's `Contested`, and it is a
limit of the code that the theorem makes visible.

Only model-checked: everything under fairness, which is out of the prover's reach
(`PoisonDoesNotBlock`, `QueueDrains`, `PoisonIsRetried`, `EveryChangeIsQueued`,
`EveryChangeIsPublished`, `Converges`).

## 6. What is not modelled

Each component and the reason is in `PROJECT.json`. In short:

* authorisation decides from a token and the owners of objects, without state; triggers are
  deprecated; start-up, configuration and metrics are input and output; files are one insert on a
  unique key, whose failure is one of the errors of `GraphQLRequest`;
* of details: texts, names, user keys, dates of other meaning and all other attributes; the
  validators (uniqueness of persons and user keys, being within the period of a unit or a person),
  so that the modelled requests are more than the accepted ones; creating with the UUID of an
  existing object; `related.py`; several relations of one object at once. What is written of one
  depends on another in one place: an edit in the service API that names an association type which
  allows no substitute clears the substitute, or the job function of an IT association, on its days
  (`association.py:270`). The rows it writes are those of an edit that names no substitute, which is
  modelled; that it was not named is not. GraphQL always sends the substitute;
* of reading: filters by texts, UUIDs and registration times, filters within filters and those that
  look for objects which refer to another, the listing of registrations, the path of a unit, and
  the shims of the service API that only rearrange answers of GraphQL;
* of loaders: the caches of a request, which writes of the same request do not clear;
* of the store: registrations that are no longer in force (but for the generator's windows),
  passivation, and the lock of a registration, under which an update is taken for atomic;
* metrics, logging and payloads everywhere, and the `original`, `clamp` and `force` options of the
  legacy service.

## 7. Plan

Done: the event system from registration to integration, requests, the tree of units; details
from the mutation's input over the handler and the store to filters, lists and links; pages.

Next, in this order:

1. The validators of employees, associations and IT users under concurrent requests, as for
   `tree_concurrent`: each is a search for a duplicate before a write.
2. Registrations in the store: the lock of a registration, times that do not overlap, and the
   updates that give rise to none; `Merged` of `Details` and `OrgUnitTree`, and `InForce` of
   `EventGenerator`, as what it implements.
3. The caches of a request beside its writes.
4. `related.py`, and creating with the UUID of an existing object.
