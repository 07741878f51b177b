--------------------------- MODULE EventGenerator ----------------------------
(***************************************************************************)
(* The event generator (mora/amqp.py): a loop that looks for everything    *)
(* registered, or gone into or out of effect, since its last run and       *)
(* announces it, concurrently with the transactions that register.         *)
(*                                                                         *)
(* A registration takes its time from clock_timestamp() when its statement *)
(* executes (initial_schema.sql), and others see it when its transaction   *)
(* commits.  The generator takes "now" from its own transaction's start.   *)
(* Objects stands for the objects of all eight types of the query.         *)
(***************************************************************************)
EXTENDS Integers, FiniteSets

CONSTANTS
  Objects,        \* MO objects
  Writers,        \* concurrent requests that register something
  MaxTime,        \* bound: the clock stops and nothing registers any more
  PromptWriters,  \* TRUE: who registers before a run starts commits before it scans
  Idle            \* the state of a writer with no open transaction

ASSUME MaxTimeAssumption == MaxTime \in Nat
ASSUME PromptAssumption == PromptWriters \in BOOLEAN

Time == 0 .. MaxTime

\* A registration: when it was registered, the bounds of the virkning periods
\* of its rows (one is enough to be selected), whether it is a deletion.
Registration == [from: Time, edges: SUBSET Time, deleted: BOOLEAN]
OpenRegistration == [object: Objects, row: Registration]

ASSUME IdleAssumption == Idle \notin OpenRegistration

VARIABLES
  clock,     \* clock_timestamp()
  regs,      \* committed registrations of each object
  open,      \* the uncommitted registration of each writer
  last_run,  \* amqp_subsystem.last_run
  run,       \* the generator's transaction: its phase, now and last_run
  emitting,  \* objects it has announced in its transaction
  dirty,     \* history: objects that changed since the queue last announced them
  unheard    \* history: objects that changed since AMQP last announced them

vars == <<clock, regs, open, last_run, run, emitting, dirty, unheard>>

Run == [phase: {"sleep", "begun", "sent"}, now: Time, last: Time]

TypeOK ==
  /\ clock \in Time
  /\ regs \in [Objects -> SUBSET Registration]
  /\ open \in [Writers -> OpenRegistration \cup {Idle}]
  /\ last_run \in Time
  /\ run \in Run
  /\ emitting \subseteq Objects
  /\ dirty \subseteq Objects
  /\ unheard \subseteq Objects

\* The registration in force at t: registrering_period @> t.
InForce(o, t) ==
  {r \in regs[o] : r.from =< t /\ \A q \in regs[o] : q.from =< t => q.from =< r.from}

Init ==
  /\ clock = 0
  /\ regs = [o \in Objects |-> {}]
  /\ open = [w \in Writers |-> Idle]
  /\ last_run = 0
  /\ run = [phase |-> "sleep", now |-> 0, last |-> 0]
  /\ emitting = {}
  /\ dirty = {}
  /\ unheard = {}
----------------------------------------------------------------------------
\* A request creates, updates or deletes o.  The row of the object is locked
\* until its transaction ends, and only then is the time taken.
Register(w, o, edges, deleted) ==
  /\ open[w] = Idle /\ clock < MaxTime
  /\ \A v \in Writers : open[v] # Idle => open[v].object # o
  /\ \A r \in regs[o] : r.from < clock
  /\ deleted => regs[o] # {}
  /\ open' = [open EXCEPT ![w] =
       [object |-> o, row |-> [from |-> clock, edges |-> edges, deleted |-> deleted]]]
  /\ UNCHANGED <<clock, regs, last_run, run, emitting, dirty, unheard>>

Commit(w) ==
  /\ open[w] # Idle
  /\ LET o == open[w].object
     IN  /\ regs' = [regs EXCEPT ![o] = @ \cup {open[w].row}]
         /\ dirty' = dirty \cup {o}
         /\ unheard' = unheard \cup {o}
  /\ open' = [open EXCEPT ![w] = Idle]
  /\ UNCHANGED <<clock, last_run, run, emitting>>

Rollback(w) ==
  /\ open[w] # Idle
  /\ open' = [open EXCEPT ![w] = Idle]
  /\ UNCHANGED <<clock, regs, last_run, run, emitting, dirty, unheard>>

\* Time passes; what has an edge now goes into or out of effect.
Effective(t) ==
  {o \in Objects : \E r \in InForce(o, t) : ~r.deleted /\ t \in r.edges}

Tick ==
  /\ clock < MaxTime
  /\ clock' = clock + 1
  /\ dirty' = dirty \cup Effective(clock + 1)
  /\ unheard' = unheard \cup Effective(clock + 1)
  /\ UNCHANGED <<regs, open, last_run, run, emitting>>
----------------------------------------------------------------------------
\* The run's transaction starts: "We need to fetch now before our queries".
Begin ==
  /\ run.phase = "sleep"
  /\ run' = [phase |-> "begun", now |-> clock, last |-> last_run]
  /\ UNCHANGED <<clock, regs, open, last_run, emitting, dirty, unheard>>

\* Faulty variant of Between: a bound belongs to one window only.
BetweenHalfOpen(t, low, high) == low < t /\ t =< high

\* SQL's BETWEEN: both bounds belong to the window.
Between(t, low, high) == low =< t /\ t =< high

\* Faulty variant of Due: only registrations count.
DueOnRegistration(o, low, high) ==
  \E r \in regs[o] : Between(r.from, low, high)

\* registration_condition, or validity_condition on the registration in force.
Due(o, low, high) ==
  \/ \E r \in regs[o] : Between(r.from, low, high)
  \/ \E r \in InForce(o, high) : ~r.deleted /\ \E e \in r.edges : Between(e, low, high)

\* The query runs on a snapshot of what is committed now, later than run.now.
\* Every row is published on AMQP at once and added to the event queue within
\* the transaction.
Scan ==
  /\ run.phase = "begun"
  /\ PromptWriters => \A w \in Writers : open[w] # Idle => open[w].row.from > run.now
  /\ emitting' = {o \in Objects : Due(o, run.last, run.now)}
  /\ unheard' = unheard \ emitting'
  /\ run' = [run EXCEPT !.phase = "sent"]
  /\ UNCHANGED <<clock, regs, open, last_run, dirty>>

\* Faulty variant of NextLastRun: the time at the end of the run.
NextLastRunAtEnd == clock

\* Faulty variant of NextLastRun: the window after this one does not overlap it.
NextLastRunAfterNow == run.now + 1

NextLastRun == run.now

\* UPDATE amqp_subsystem SET last_run = now, and commit.
Finish ==
  /\ run.phase = "sent"
  /\ last_run' = NextLastRun
  /\ dirty' = dirty \ emitting
  /\ emitting' = {}
  /\ run' = [run EXCEPT !.phase = "sleep"]
  /\ UNCHANGED <<clock, regs, open, unheard>>

\* A failure rolls the run back: logged, and tried again after a sleep; or
\* the process is stopped and started again.  What the query had already
\* yielded stays published.
Fail ==
  /\ run.phase # "sleep"
  /\ \E published \in SUBSET Objects :
       /\ published # {} => run.phase = "begun"
       /\ \A o \in published : Due(o, run.last, run.now)
       /\ unheard' = unheard \ published
  /\ emitting' = {}
  /\ run' = [run EXCEPT !.phase = "sleep"]
  /\ UNCHANGED <<clock, regs, open, last_run, dirty>>
----------------------------------------------------------------------------
\* Bound: a registration has at most one edge of its own.
Edges == {{}} \cup {{t} : t \in Time}

Writing ==
  \E w \in Writers :
    \/ \E o \in Objects, edges \in Edges, deleted \in BOOLEAN :
         Register(w, o, edges, deleted)
    \/ Commit(w)
    \/ Rollback(w)

Generating == Begin \/ Scan \/ Finish

Next == Writing \/ Generating \/ Fail \/ Tick

Spec == Init /\ [][Next]_vars

\* The loop never ends, a run that keeps failing is repaired, open
\* transactions end and time passes; nobody is obliged to write.
Fairness ==
  /\ WF_vars(Tick) /\ WF_vars(Begin) /\ SF_vars(Scan) /\ SF_vars(Finish)
  /\ \A w \in Writers : WF_vars(Commit(w) \/ Rollback(w))

FairSpec == Spec /\ Fairness
----------------------------------------------------------------------------
\* A window that begins at t or before and ends now would select o.
PendingSince(o, t) ==
  \/ \E r \in regs[o] : r.from >= t
  \/ \E r \in InForce(o, clock) : ~r.deleted /\ \E e \in r.edges : t =< e /\ e =< clock

\* "Whenever an OS2mo object is registered or goes into or out of effect, an
\* event is emitted": what has not been announced is still ahead of last_run,
\* over failed and repeated runs, edges on the boundary of two windows, and
\* registrations made while a run is under way.
NothingMissed == \A o \in dirty : PendingSince(o, last_run)

\* What makes it inductive.  Times never run ahead of the clock; nobody who
\* registered before last_run is still uncommitted; and once a run has
\* scanned, that holds for its own now, and what it did not select is pending
\* for the run after it.
WindowsMeet ==
  /\ last_run =< clock
  /\ \A o \in Objects : \A r \in regs[o] : r.from =< clock
  /\ \A w \in Writers : open[w] # Idle =>
       last_run =< open[w].row.from /\ open[w].row.from =< clock
  /\ run.phase # "sleep" =>
       run.last = last_run /\ last_run =< run.now /\ run.now =< clock
  /\ run.phase = "sent" =>
       /\ \A w \in Writers : open[w] # Idle => run.now =< open[w].row.from
       /\ \A o \in dirty \ emitting : PendingSince(o, run.now)

\* The same as a promise: what changed is eventually announced in the queue,
\* and on AMQP.
EveryChangeIsQueued == \A o \in Objects : o \in dirty ~> o \notin dirty
EveryChangeIsPublished == \A o \in Objects : o \in unheard ~> o \notin unheard
==============================================================================
