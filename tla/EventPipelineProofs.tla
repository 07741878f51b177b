------------------------- MODULE EventPipelineProofs -------------------------
(***************************************************************************)
(* Theorems about EventGenerator and EventPipeline, for any objects,       *)
(* writers and clock: that nothing is missed and that the windows meet     *)
(* when transactions are shorter than the overlap; and, without any such   *)
(* assumption, that what the generator overlooks it still owes.            *)
(***************************************************************************)
EXTENDS EventPipeline, TLAPS

LEMMA InitTypeOK == Init => TypeOK
BY MaxTimeAssumption DEF Init, TypeOK, Time, Run

LEMMA NextTypeOK == TypeOK /\ [Next]_vars => TypeOK'
<1> SUFFICES ASSUME TypeOK, [Next]_vars
             PROVE  TypeOK'
  OBVIOUS
<1>1. ASSUME NEW w \in Writers, NEW o \in Objects, NEW edges \in Edges,
             NEW deleted \in BOOLEAN, Register(w, o, edges, deleted)
      PROVE  TypeOK'
  <2>1. edges \in SUBSET Time
    BY DEF Edges
  <2>2. [from |-> clock, edges |-> edges, deleted |-> deleted] \in Registration
    BY <2>1 DEF TypeOK, Registration
  <2>3. [object |-> o, row |-> [from |-> clock, edges |-> edges, deleted |-> deleted]]
          \in OpenRegistration
    BY <2>2 DEF OpenRegistration
  <2> QED
    BY <1>1, <2>3 DEF Register, TypeOK
<1>2. ASSUME NEW w \in Writers, Commit(w)
      PROVE  TypeOK'
  <2>1. open[w] \in OpenRegistration
    BY <1>2 DEF Commit, TypeOK
  <2>2. open[w].object \in Objects /\ open[w].row \in Registration
    BY <2>1 DEF OpenRegistration
  <2> QED
    BY <1>2, <2>2 DEF Commit, TypeOK
<1>3. ASSUME NEW w \in Writers, Rollback(w)
      PROVE  TypeOK'
  BY <1>3 DEF Rollback, TypeOK
<1>4. CASE Begin
  BY <1>4 DEF Begin, TypeOK, Run
<1>5. CASE Scan
  BY <1>5 DEF Scan, TypeOK, Run
<1>6. CASE Finish
  BY <1>6 DEF Finish, NextLastRun, TypeOK, Run
<1>7. CASE Fail
  BY <1>7 DEF Fail, TypeOK, Run
<1>8. CASE Tick
  BY <1>8, MaxTimeAssumption DEF Tick, TypeOK, Time, Effective
<1>9. CASE UNCHANGED vars
  BY <1>9 DEF vars, TypeOK
<1> QED
  BY <1>1, <1>2, <1>3, <1>4, <1>5, <1>6, <1>7, <1>8, <1>9 DEF Next, Writing, Generating

\* The tables, the clock and the run keep their types.
THEOREM TypeCorrect == Spec => []TypeOK
BY InitTypeOK, NextTypeOK, PTL DEF Spec
-----------------------------------------------------------------------------
Inv == TypeOK /\ NothingMissed /\ WindowsMeet

LEMMA InitInv == Init => Inv
BY InitTypeOK DEF Init, Inv, NothingMissed, WindowsMeet

\* What is registered is in the past, so the passing of time does not change
\* which registration is in force.
LEMMA InForceNow ==
  ASSUME NEW o \in Objects, NEW t \in Time, NEW u \in Time,
         \A r \in regs[o] : r.from \in Time /\ r.from =< t, t =< u
  PROVE  InForce(o, u) = InForce(o, t)
BY MaxTimeAssumption DEF InForce, Time

\* A pending object stays pending while time passes.
LEMMA PendingLater ==
  ASSUME Inv, NEW o \in Objects, NEW t \in Time, PendingSince(o, t),
         regs'[o] = regs[o], clock' \in Time, clock =< clock'
  PROVE  PendingSince(o, t)'
<1>1. \A r \in regs[o] : r.from \in Time /\ r.from =< clock
  BY DEF Inv, WindowsMeet, TypeOK, Registration
<1>2. clock \in Time
  BY DEF Inv, TypeOK
<1>3. InForce(o, clock') = InForce(o, clock)
  BY <1>1, <1>2, InForceNow
<1>4. InForce(o, clock)' = InForce(o, clock)
  BY <1>3 DEF InForce
<1>5. \A r \in InForce(o, clock) : r.edges \subseteq Time
  BY DEF Inv, TypeOK, InForce, Registration
<1> QED
  BY <1>1, <1>2, <1>4, <1>5, MaxTimeAssumption DEF PendingSince, Time

\* What a scan leaves out is pending for the window that begins at its now.
LEMMA LeftOut ==
  ASSUME Inv, NEW o \in Objects, PendingSince(o, last_run), run.phase # "sleep",
         ~Due(o, run.last, run.now)
  PROVE  PendingSince(o, run.now)
<1>1. /\ last_run \in Time /\ run.now \in Time /\ clock \in Time
      /\ run.last = last_run /\ last_run =< run.now /\ run.now =< clock
  BY DEF Inv, TypeOK, WindowsMeet, Run
<1>2. \A r \in regs[o] : r.from \in Time /\ r.edges \subseteq Time
  BY DEF Inv, TypeOK, Registration
<1>3. \A r \in regs[o] : r.from < last_run \/ r.from > run.now
  BY <1>1, <1>2, MaxTimeAssumption DEF Due, Between, Time
<1>4. CASE \E r \in regs[o] : r.from >= last_run
  BY <1>1, <1>2, <1>3, <1>4, MaxTimeAssumption DEF PendingSince, Time
<1>5. CASE ~ \E r \in regs[o] : r.from >= last_run
  <2>1. \A r \in regs[o] : r.from \in Time /\ r.from =< run.now
    BY <1>1, <1>2, <1>5, MaxTimeAssumption DEF Time
  <2>2. InForce(o, clock) = InForce(o, run.now)
    BY <1>1, <2>1, InForceNow
  <2>3. PICK r \in InForce(o, clock) :
          ~r.deleted /\ \E e \in r.edges : last_run =< e /\ e =< clock
    BY <1>5 DEF PendingSince
  <2>4. r \in regs[o]
    BY <2>3 DEF InForce
  <2>5. PICK e \in r.edges : last_run =< e /\ e =< clock
    BY <2>3
  <2>6. ~Between(e, last_run, run.now)
    BY <1>1, <2>2, <2>3, <2>5 DEF Due
  <2>7. run.now =< e
    BY <1>1, <1>2, <2>4, <2>5, <2>6, MaxTimeAssumption DEF Between, Time
  <2> QED
    BY <2>3, <2>5, <2>7 DEF PendingSince
<1> QED
  BY <1>4, <1>5

LEMMA NextInv == PromptWriters /\ Inv /\ [Next]_vars => Inv'
<1> SUFFICES ASSUME PromptWriters, Inv, [Next]_vars
             PROVE  NothingMissed' /\ WindowsMeet'
  BY NextTypeOK DEF Inv
<1> USE MaxTimeAssumption DEF Time
<1>0. TypeOK /\ TypeOK'
  BY NextTypeOK DEF Inv
<1>1. ASSUME NEW w \in Writers, NEW o \in Objects, NEW edges \in Edges,
             NEW deleted \in BOOLEAN, Register(w, o, edges, deleted)
      PROVE  NothingMissed' /\ WindowsMeet'
  <2>1. open'[w].row.from = clock /\ \A v \in Writers \ {w} : open'[v] = open[v]
    BY <1>1 DEF Register, Inv, TypeOK
  <2>2. UNCHANGED <<clock, regs, last_run, run, emitting, dirty>>
    BY <1>1 DEF Register
  <2>3. \A x \in Objects, t \in Time : PendingSince(x, t)' <=> PendingSince(x, t)
    BY <2>2 DEF PendingSince, InForce
  <2>4. NothingMissed'
    BY <2>2, <2>3 DEF Inv, NothingMissed, TypeOK
  <2>5. run.now \in Time
    BY DEF Inv, TypeOK, Run
  <2>6. WindowsMeet'
    BY <2>1, <2>2, <2>3, <2>5 DEF Inv, WindowsMeet, TypeOK
  <2> QED
    BY <2>4, <2>6
<1>2. ASSUME NEW w \in Writers, Commit(w)
      PROVE  NothingMissed' /\ WindowsMeet'
  <2>1. open[w] \in OpenRegistration
    BY <1>2 DEF Commit, Inv, TypeOK
  <2>2. PICK o \in Objects, r \in Registration : o = open[w].object /\ r = open[w].row
    BY <2>1 DEF OpenRegistration
  <2>3. /\ regs' = [regs EXCEPT ![o] = regs[o] \cup {r}]
        /\ dirty' = dirty \cup {o}
        /\ UNCHANGED <<clock, last_run, run, emitting>>
        /\ open' = [open EXCEPT ![w] = Idle]
    BY <1>2, <2>2 DEF Commit
  <2>4. r \in regs'[o] /\ \A x \in Objects \ {o} : regs'[x] = regs[x]
    BY <2>2, <2>3 DEF Inv, TypeOK
  <2>5. last_run =< r.from /\ r.from =< clock /\ (run.phase = "sent" => run.now =< r.from)
    BY <1>2, <2>2 DEF Commit, Inv, WindowsMeet
  <2>6. last_run \in Time /\ run.now \in Time /\ r.from \in Time
    BY <2>2 DEF Inv, TypeOK, Run, Registration
  <2>7. ASSUME NEW t \in Time, NEW x \in Objects, x # o, PendingSince(x, t)
        PROVE  PendingSince(x, t)'
    BY <2>3, <2>4, <2>7 DEF PendingSince, InForce
  <2>8. PendingSince(o, last_run)' /\ (run.phase = "sent" => PendingSince(o, run.now)')
    BY <2>3, <2>4, <2>5, <2>6 DEF PendingSince
  <2>9. NothingMissed'
    BY <2>3, <2>6, <2>7, <2>8 DEF Inv, NothingMissed, TypeOK
  <2>10. WindowsMeet'
    <3>1. \A x \in Objects : \A q \in regs'[x] : q.from =< clock
      BY <2>3, <2>5 DEF Inv, WindowsMeet, TypeOK
    <3>2. \A v \in Writers : open'[v] # Idle => open'[v] = open[v]
      BY <2>3 DEF Inv, TypeOK
    <3>3. run.phase = "sent" => \A x \in dirty' \ emitting' : PendingSince(x, run.now)'
      BY <2>3, <2>6, <2>7, <2>8 DEF Inv, WindowsMeet, TypeOK
    <3> QED
      BY <2>3, <3>1, <3>2, <3>3 DEF Inv, WindowsMeet
  <2> QED
    BY <2>9, <2>10
<1>3. ASSUME NEW w \in Writers, Rollback(w)
      PROVE  NothingMissed' /\ WindowsMeet'
  <2>1. UNCHANGED <<clock, regs, last_run, run, emitting, dirty>>
    BY <1>3 DEF Rollback
  <2>2. \A v \in Writers : open'[v] # Idle => open'[v] = open[v]
    BY <1>3 DEF Rollback, Inv, TypeOK
  <2>3. \A x, t : PendingSince(x, t)' <=> PendingSince(x, t)
    BY <2>1 DEF PendingSince, InForce
  <2> QED
    BY <2>1, <2>2, <2>3 DEF Inv, NothingMissed, WindowsMeet
<1>4. CASE Begin
  <2>1. UNCHANGED <<clock, regs, open, last_run, emitting, dirty>>
    BY <1>4 DEF Begin
  <2>2. run' = [phase |-> "begun", now |-> clock, last |-> last_run]
    BY <1>4 DEF Begin
  <2>3. \A x, t : PendingSince(x, t)' <=> PendingSince(x, t)
    BY <2>1 DEF PendingSince, InForce
  <2> QED
    BY <2>1, <2>2, <2>3 DEF Inv, NothingMissed, WindowsMeet, TypeOK
<1>5. CASE Scan
  <2>1. UNCHANGED <<clock, regs, open, last_run, dirty>>
    BY <1>5 DEF Scan
  <2>2. /\ run.phase = "begun" /\ run'.phase = "sent"
        /\ run'.now = run.now /\ run'.last = run.last
    BY <1>5 DEF Scan, Inv, TypeOK, Run
  <2>3. \A x, t : PendingSince(x, t)' <=> PendingSince(x, t)
    BY <2>1 DEF PendingSince, InForce
  <2>4. \A x \in dirty \ emitting' : PendingSince(x, run.now)
    <3> SUFFICES ASSUME NEW x \in dirty, x \notin emitting'
                 PROVE  PendingSince(x, run.now)
      OBVIOUS
    <3>1. x \in Objects /\ ~Due(x, run.last, run.now)
      BY <1>5 DEF Scan, Inv, TypeOK
    <3>2. PendingSince(x, last_run)
      BY DEF Inv, NothingMissed
    <3> QED
      BY <2>2, <3>1, <3>2, LeftOut
  <2>5. \A w \in Writers : open[w] # Idle => run.now =< open[w].row.from
    <3> SUFFICES ASSUME NEW w \in Writers, open[w] # Idle
                 PROVE  run.now =< open[w].row.from
      OBVIOUS
    <3>1. open[w] \in OpenRegistration
      BY DEF Inv, TypeOK
    <3>2. open[w].row.from \in Time /\ run.now \in Time
      BY <3>1 DEF OpenRegistration, Registration, Inv, TypeOK, Run
    <3>3. open[w].row.from > run.now
      BY <1>5 DEF Scan
    <3> QED
      BY <3>2, <3>3
  <2> QED
    BY <2>1, <2>2, <2>3, <2>4, <2>5 DEF Inv, NothingMissed, WindowsMeet
<1>6. CASE Finish
  <2>1. UNCHANGED <<clock, regs, open>> /\ last_run' = run.now /\ run.phase = "sent"
    BY <1>6 DEF Finish, NextLastRun
  <2>2. dirty' = dirty \ emitting /\ run'.phase = "sleep"
    BY <1>6 DEF Finish, Inv, TypeOK, Run
  <2>3. \A x, t : PendingSince(x, t)' <=> PendingSince(x, t')
    BY <2>1 DEF PendingSince, InForce
  <2>4. NothingMissed'
    BY <2>1, <2>2 DEF Inv, NothingMissed, WindowsMeet, PendingSince, InForce
  <2> QED
    BY <2>1, <2>2, <2>4 DEF Inv, WindowsMeet
<1>7. CASE Fail
  <2>1. UNCHANGED <<clock, regs, open, last_run, dirty>>
    BY <1>7 DEF Fail
  <2>2. run'.phase = "sleep"
    BY <1>7 DEF Fail, Inv, TypeOK, Run
  <2>3. \A x, t : PendingSince(x, t)' <=> PendingSince(x, t)
    BY <2>1 DEF PendingSince, InForce
  <2> QED
    BY <2>1, <2>2, <2>3 DEF Inv, NothingMissed, WindowsMeet
<1>8. CASE Tick
  <2>1. /\ UNCHANGED <<regs, open, last_run, run, emitting>>
        /\ clock' = clock + 1 /\ clock' \in Time /\ clock =< clock'
        /\ dirty' = dirty \cup Effective(clock + 1)
    BY <1>0, <1>8 DEF Tick, TypeOK
  <2>2. ASSUME NEW x \in Effective(clock + 1), NEW t \in Time, t =< clock
        PROVE  PendingSince(x, t)'
    <3>1. PICK r \in InForce(x, clock + 1) : ~r.deleted /\ clock + 1 \in r.edges
      BY DEF Effective
    <3>2. r \in InForce(x, clock)'
      BY <2>1, <3>1 DEF InForce
    <3>3. t =< clock + 1 /\ clock + 1 =< clock'
      BY <1>0, <2>1, <2>2 DEF TypeOK
    <3> QED
      BY <3>1, <3>2, <3>3 DEF PendingSince
  <2>3. ASSUME NEW x \in Objects, NEW t \in Time, PendingSince(x, t)
        PROVE  PendingSince(x, t)'
    BY <2>1, <2>3, PendingLater
  <2>4. last_run \in Time /\ run.now \in Time /\ last_run =< clock
    BY DEF Inv, TypeOK, Run, WindowsMeet
  <2>5. NothingMissed'
    BY <2>1, <2>2, <2>3, <2>4 DEF Inv, NothingMissed, TypeOK
  <2>6. run.phase = "sent" => \A x \in dirty' \ emitting' : PendingSince(x, run.now)'
    BY <2>1, <2>2, <2>3, <2>4 DEF Inv, WindowsMeet, TypeOK
  <2>7. \A x \in Objects : \A q \in regs[x] : q.from \in Time
    BY DEF Inv, TypeOK, Registration
  <2>8. \A w \in Writers : open[w] # Idle => open[w].row.from \in Time
    BY DEF Inv, TypeOK, Registration, OpenRegistration
  <2>9. WindowsMeet'
    BY <1>0, <2>1, <2>4, <2>6, <2>7, <2>8 DEF Inv, WindowsMeet, TypeOK
  <2> QED
    BY <2>5, <2>9
<1>9. CASE UNCHANGED vars
  <2>1. \A x, t : PendingSince(x, t)' <=> PendingSince(x, t)
    BY <1>9 DEF vars, PendingSince, InForce
  <2> QED
    BY <1>9, <2>1 DEF vars, Inv, NothingMissed, WindowsMeet
<1> QED
  BY <1>1, <1>2, <1>3, <1>4, <1>5, <1>6, <1>7, <1>8, <1>9 DEF Next, Writing, Generating

\* As long as whoever registered before a run began commits before it scans,
\* last_run never passes a change that was not announced.
THEOREM NothingIsMissed == PromptWriters => (Spec => []NothingMissed)
<1> SUFFICES ASSUME PromptWriters
             PROVE  Spec => []NothingMissed
  OBVIOUS
<1>1. Inv => NothingMissed
  BY DEF Inv
<1>2. Inv /\ [Next]_vars => Inv'
  BY NextInv
<1> QED
  BY <1>1, <1>2, InitInv, PTL DEF Spec

\* Under the same assumption the windows of the runs meet without a gap: what a
\* run under way did not select lies in the window of the run after it.
THEOREM WindowsAlwaysMeet == PromptWriters => (Spec => []WindowsMeet)
<1> SUFFICES ASSUME PromptWriters
             PROVE  Spec => []WindowsMeet
  OBVIOUS
<1>1. Inv => WindowsMeet
  BY DEF Inv
<1>2. Inv /\ [Next]_vars => Inv'
  BY NextInv
<1> QED
  BY <1>1, <1>2, InitInv, PTL DEF Spec
------------------------------------------------------------------------------
\* Registrations, committed or not, carry times of the past.
RegistrationsArePast ==
  /\ \A o \in Objects : \A r \in regs[o] : r.from =< clock
  /\ \A w \in Writers : open[w] # Idle => open[w].row.from =< clock

PipelineInv ==
  /\ TypeOK /\ RegistrationsArePast
  /\ known = [o \in Objects |-> known[o]]
  /\ OutdatedIsPending

LEMMA InitPipelineInv == PipelineInit => PipelineInv
PROOF
<1> SUFFICES ASSUME PipelineInit PROVE PipelineInv
  OBVIOUS
<1>1. TypeOK
  BY InitTypeOK DEF PipelineInit
<1>2. RegistrationsArePast
  BY DEF PipelineInit, Init, RegistrationsArePast
<1>3. \A o \in Objects : View(o, clock) = {}
  BY DEF PipelineInit, Init, View, InForce
<1> QED BY <1>1, <1>2, <1>3 DEF PipelineInit, PipelineInv, OutdatedIsPending

\* A step of the pipeline is a step of the generator or invisible to it.
LEMMA GeneratorSteps == [PipelineNext]_pipelineVars => [Next]_vars
BY DEF PipelineNext, pipelineVars, FinishRun, Consume, Retire, Next, Generating

\* While time passes, reading an object yields the same unless it goes into or
\* out of effect.
LEMMA ViewLater ==
  ASSUME TypeOK, RegistrationsArePast, clock < MaxTime,
         NEW o \in Objects, o \notin Effective(clock + 1)
  PROVE  View(o, clock + 1) = View(o, clock)
PROOF
<1>1. clock \in Time /\ clock + 1 \in Time /\ clock =< clock + 1
  BY MaxTimeAssumption DEF TypeOK, Time
<1>2. \A r \in regs[o] : r.from \in Time /\ r.from =< clock /\ r.edges \subseteq Time
  BY DEF TypeOK, Registration, RegistrationsArePast
<1>3. InForce(o, clock + 1) = InForce(o, clock)
  BY <1>1, <1>2, InForceNow
<1>4. ASSUME NEW r \in InForce(o, clock), ~r.deleted
      PROVE  {e \in r.edges : e =< clock + 1} = {e \in r.edges : e =< clock}
  <2>1. clock + 1 \notin r.edges
    BY <1>3, <1>4 DEF Effective
  <2>2. r.edges \subseteq Time
    BY <1>2 DEF InForce
  <2> QED BY <1>1, <2>1, <2>2, MaxTimeAssumption DEF Time
<1> QED BY <1>3, <1>4 DEF View

\* Registrations stay in the past.
LEMMA PastStep ==
  ASSUME TypeOK, RegistrationsArePast, TypeOK', [Next]_vars
  PROVE  RegistrationsArePast'
PROOF
<1> USE DEF TypeOK, RegistrationsArePast
<1>1. ASSUME NEW w \in Writers, NEW o \in Objects, NEW edges \in Edges,
             NEW deleted \in BOOLEAN, Register(w, o, edges, deleted)
      PROVE  RegistrationsArePast'
  <2>1. /\ \A v \in Writers \ {w} : open'[v] = open[v]
        /\ open'[w].row.from = clock /\ regs' = regs /\ clock' = clock
    BY <1>1 DEF Register
  <2>2. clock =< clock
    BY DEF Time
  <2> QED BY <2>1, <2>2
<1>2. ASSUME NEW w \in Writers, Commit(w) PROVE RegistrationsArePast'
  BY <1>2 DEF Commit, OpenRegistration
<1>3. ASSUME NEW w \in Writers, Rollback(w) PROVE RegistrationsArePast'
  BY <1>3 DEF Rollback
<1>4. CASE Generating \/ Fail
  BY <1>4 DEF Generating, Begin, Scan, Finish, Fail
<1>5. CASE Tick
  <2>1. \A o \in Objects : \A r \in regs[o] : r.from \in Time
    BY DEF Registration
  <2>2. \A w \in Writers : open[w] # Idle => open[w].row.from \in Time
    BY DEF OpenRegistration, Registration
  <2> QED BY <1>5, <2>1, <2>2, MaxTimeAssumption DEF Tick, Time
<1>6. CASE UNCHANGED vars
  BY <1>6 DEF vars
<1> QED BY <1>1, <1>2, <1>3, <1>4, <1>5, <1>6 DEF Next, Writing

LEMMA NextPipelineInv == PipelineInv /\ [PipelineNext]_pipelineVars => PipelineInv'
PROOF
<1> SUFFICES ASSUME PipelineInv, [PipelineNext]_pipelineVars PROVE PipelineInv'
  OBVIOUS
<1>1. TypeOK' /\ RegistrationsArePast'
  BY GeneratorSteps, NextTypeOK, PastStep DEF PipelineInv
<1>2. ASSUME NEW o \in Objects, regs'[o] = regs[o], clock' = clock
      PROVE  View(o, clock)' = View(o, clock)
  BY <1>2 DEF View, InForce
<1>3. known' = [o \in Objects |-> known'[o]]
  BY DEF PipelineInv, PipelineNext, pipelineVars, FinishRun, Consume, Retire
<1>4. OutdatedIsPending'
  <2>1. ASSUME NEW w \in Writers, Commit(w), UNCHANGED <<owed, retained, known>>
        PROVE  OutdatedIsPending'
    <3>1. \A o \in Objects : regs'[o] = regs[o] \/ o \in dirty'
      BY <2>1 DEF Commit, PipelineInv, TypeOK
    <3> QED BY <1>2, <2>1, <3>1 DEF Commit, PipelineInv, OutdatedIsPending
  <2>2. CASE Tick /\ UNCHANGED <<owed, retained, known>>
    <3>1. ASSUME NEW o \in Objects, o \notin Effective(clock + 1)
          PROVE  View(o, clock)' = View(o, clock)
      <4>1. View(o, clock + 1) = View(o, clock)
        BY <2>2, <3>1, ViewLater DEF Tick, PipelineInv
      <4> QED BY <2>2, <4>1 DEF Tick, View, InForce
    <3> QED BY <2>2, <3>1 DEF Tick, PipelineInv, OutdatedIsPending
  <2>3. CASE FinishRun
    BY <1>2, <2>3 DEF FinishRun, Finish, Announced, Queue!Announce, PipelineInv, OutdatedIsPending
  <2>4. ASSUME NEW o \in Objects, Consume(o)
        PROVE  OutdatedIsPending'
    <3>1. regs' = regs /\ clock' = clock /\ dirty' = dirty
      BY <2>4 DEF Consume, vars
    <3>2. \A x \in Objects : View(x, clock)' = View(x, clock)
      BY <1>2, <3>1
    <3>3. known'[o] = View(o, clock) /\ \A x \in Objects \ {o} : known'[x] = known[x]
      BY <2>4 DEF Consume, Read, PipelineInv
    <3>4. owed' = owed \ {o}
      BY <2>4 DEF Consume, Queue!Consume
    <3> QED BY <3>1, <3>2, <3>3, <3>4 DEF PipelineInv, OutdatedIsPending
  <2>5. ASSUME UNCHANGED <<clock, regs, dirty, owed, known>>
        PROVE  OutdatedIsPending'
    BY <1>2, <2>5 DEF PipelineInv, OutdatedIsPending
  <2>6. ASSUME NEW w \in Writers,
               Rollback(w) \/ \E o \in Objects, edges \in Edges, deleted \in BOOLEAN :
                                Register(w, o, edges, deleted),
               UNCHANGED <<owed, retained, known>>
        PROVE  OutdatedIsPending'
    BY <2>5, <2>6 DEF Rollback, Register
  <2>7. CASE (Begin \/ Scan \/ Fail) /\ UNCHANGED <<owed, retained, known>>
    BY <2>5, <2>7 DEF Begin, Scan, Fail
  <2>8. ASSUME NEW o \in Objects, Retire(o)
        PROVE  OutdatedIsPending'
    BY <2>5, <2>8 DEF Retire, vars, Queue!Retire
  <2>9. CASE UNCHANGED pipelineVars
    BY <2>5, <2>9 DEF pipelineVars, vars
  <2> QED BY <2>1, <2>2, <2>3, <2>4, <2>6, <2>7, <2>8, <2>9 DEF PipelineNext, Writing
<1> QED BY <1>1, <1>3, <1>4 DEF PipelineInv
----------------------------------------------------------------------------
\* Whatever fails, is repeated, merged or read late: an integration whose copy
\* is out of date is going to be told, by the generator or by the queue.
THEOREM OutdatedIsAlwaysPending == PipelineSpec => []OutdatedIsPending
PROOF
<1>1. PipelineSpec => PipelineInit /\ [][PipelineNext]_pipelineVars
  BY PTL DEF PipelineSpec
<1>2. PipelineInv => OutdatedIsPending
  BY DEF PipelineInv
<1> QED BY <1>1, <1>2, InitPipelineInv, NextPipelineInv, PTL
==============================================================================
