---------------------------- MODULE EventPipeline ----------------------------
(***************************************************************************)
(* The generator, the event queue and an integration together: what docs/  *)
(* src/tech-docs/events.md tells integrations to rely on.  The queue is    *)
(* used through its promise, AtLeastOnce, which EventQueue implements: one *)
(* listener sees one slot for each object.  The integration is external:   *)
(* when it is handed an object it reads the object's present state from    *)
(* MO, brings its own copy up to date and acknowledges.                    *)
(***************************************************************************)
EXTENDS EventGenerator

VARIABLES
  owed,      \* AtLeastOnce: announced and not looked at since
  retained,  \* AtLeastOnce: still handed out
  known      \* the integration's copy of each object

pipelineVars == <<vars, owed, retained, known>>

Queue == INSTANCE AtLeastOnce WITH Slots <- Objects

\* What reading o at t yields: the registration in force and which of its
\* virkning bounds have passed.
View(o, t) ==
  {[row |-> r, passed |-> IF r.deleted THEN {} ELSE {e \in r.edges : e =< t}] :
     r \in InForce(o, t)}

PipelineInit ==
  /\ Init
  /\ Queue!ALOInit
  /\ known = [o \in Objects |-> {}]

\* Faulty variant of Announced: the events are not part of the run.
AnnouncedNone == {}

\* The run's add_event calls, which its commit makes visible.
Announced == emitting

FinishRun ==
  /\ Finish
  /\ Queue!Announce(Announced)
  /\ UNCHANGED known

Read(o) == View(o, clock)

\* External: the integration processes o, for the first time or again.
Consume(o) ==
  /\ o \in retained
  /\ Queue!Consume(o)
  /\ known' = [known EXCEPT ![o] = Read(o)]
  /\ UNCHANGED vars

\* The acknowledgement takes effect.
Retire(o) ==
  /\ Queue!Retire(o)
  /\ UNCHANGED <<vars, known>>

PipelineNext ==
  \/ (Writing \/ Begin \/ Scan \/ Fail \/ Tick) /\ UNCHANGED <<owed, retained, known>>
  \/ FinishRun
  \/ \E o \in Objects : Consume(o) \/ Retire(o)

\* The queue hands out what is owed (EventDelivery) and the generator keeps
\* running (EventGenerator).
PipelineSpec ==
  /\ PipelineInit /\ [][PipelineNext]_pipelineVars
  /\ WF_pipelineVars(Tick /\ UNCHANGED <<owed, retained, known>>)
  /\ WF_pipelineVars(Begin /\ UNCHANGED <<owed, retained, known>>)
  /\ SF_pipelineVars(Scan /\ UNCHANGED <<owed, retained, known>>)
  /\ SF_pipelineVars(FinishRun)
  /\ \A w \in Writers :
       WF_pipelineVars((Commit(w) \/ Rollback(w)) /\ UNCHANGED <<owed, retained, known>>)
  /\ \A o \in Objects : WF_pipelineVars(o \in owed /\ Consume(o))

----------------------------------------------------------------------------
\* An integration whose copy of an object is out of date will be told: the
\* change is still ahead of the generator or on its way through the queue.
OutdatedIsPending ==
  \A o \in Objects : known[o] # View(o, clock) => o \in dirty \cup owed

\* Once nothing changes any more, the copies are right and stay right, over
\* failed runs, coalesced changes, duplicates and rolled-back requests.
Converges == <>[](\A o \in Objects : known[o] = View(o, clock))
==============================================================================
