---------------------------- MODULE EventQueueTxn ----------------------------
(***************************************************************************)
(* The transactions behind EventQueue: the statements of add_event,        *)
(* event_fetch and event_acknowledge interleave under READ COMMITTED, hold *)
(* row locks until their transaction ends, wait for the locks of others or *)
(* skip them, and can be rolled back at any point (an error, a lost        *)
(* connection, PostgreSQL's deadlock detection).                           *)
(*                                                                         *)
(* There is one listener.  Emitters are transactions that call add_event   *)
(* for several subjects in an order of their own: the event generator, the *)
(* refresh mutators.  Workers fetch and acknowledge for the listener, each *)
(* one event at a time.  Order and back-off are EventQueue's: here a row   *)
(* is ready or in back-off, and a fetch may take any ready row.            *)
(***************************************************************************)
EXTENDS Integers, FiniteSets, Sequences, SequencesExt

CONSTANTS
  Subjects,   \* event subjects
  Emitters,   \* transactions that announce
  Workers,    \* fetchers of the listener
  Ids,        \* pool standing for uuid_generate_v4()
  NoEvent,    \* there is no row
  Unwritten,  \* the transaction has not written the row
  NoToken,    \* the worker holds no token
  Nobody      \* the lock is free

Txns == Emitters \cup Workers

\* generation stands for the pair (pk, generation) of a row; ready is
\* last_tried < now() - back-off.
Row == [generation: Ids, ready: BOOLEAN]
Token == [subject: Subjects, generation: Ids, handled: BOOLEAN]

ASSUME SubjectsAssumption == IsFiniteSet(Subjects)
ASSUME ActorsAssumption == Emitters \cap Workers = {} /\ Nobody \notin Txns
ASSUME MarkersAssumption ==
  /\ {NoEvent, Unwritten} \cap Row = {} /\ NoEvent # Unwritten
  /\ NoToken \notin Token

VARIABLES
  table,      \* committed rows
  written,    \* the uncommitted writes of each transaction
  locked,     \* which transaction holds the lock of each subject's row
  share,      \* emitters with FOR KEY SHARE on the listener (foreign key check)
  exclusive,  \* the fetch with FOR UPDATE on the listener
  todo,       \* the subjects each emitter has still to announce
  step,       \* where each transaction is
  snapshot,   \* the candidate rows of each fetch
  token,      \* the token each worker holds
  unseen,     \* history: announced since the subject was last processed
  handed      \* history: times a row was handed out since it was last ready

vars == <<table, written, locked, share, exclusive, todo, step, snapshot, token,
          unseen, handed>>

Rows == {s \in Subjects : table[s] # NoEvent}

TypeOK ==
  /\ table \in [Subjects -> Row \cup {NoEvent}]
  /\ written \in [Txns -> [Subjects -> Row \cup {NoEvent, Unwritten}]]
  /\ locked \in [Subjects -> Txns \cup {Nobody}]
  /\ share \subseteq Emitters
  /\ exclusive \in Workers \cup {Nobody}
  /\ todo \in [Emitters -> Seq(Subjects)]
  /\ step \in [Txns -> {"idle", "open", "chosen", "deleted"}]
  /\ snapshot \in [Workers -> SUBSET Subjects]
  /\ token \in [Workers -> Token \cup {NoToken}]
  /\ unseen \subseteq Subjects
  /\ handed \in [Subjects -> Nat]

Nothing == [s \in Subjects |-> Unwritten]

Init ==
  /\ table = [s \in Subjects |-> NoEvent]
  /\ written = [t \in Txns |-> Nothing]
  /\ locked = [s \in Subjects |-> Nobody]
  /\ share = {}
  /\ exclusive = Nobody
  /\ todo = [e \in Emitters |-> <<>>]
  /\ step = [t \in Txns |-> "idle"]
  /\ snapshot = [w \in Workers |-> {}]
  /\ token = [w \in Workers |-> NoToken]
  /\ unseen = {}
  /\ handed = [s \in Subjects |-> 0]
----------------------------------------------------------------------------
WrittenBy(t) == {s \in Subjects : written[t][s] # Unwritten}

\* The end of a transaction frees what it locked.
Release(t) ==
  /\ locked' = [s \in Subjects |-> IF locked[s] = t THEN Nobody ELSE locked[s]]
  /\ written' = [written EXCEPT ![t] = Nothing]
  /\ share' = share \ {t}
  /\ exclusive' = IF exclusive = t THEN Nobody ELSE exclusive
  /\ step' = [step EXCEPT ![t] = "idle"]

Publish(t) ==
  table' = [s \in Subjects |-> IF s \in WrittenBy(t) THEN written[t][s] ELSE table[s]]

\* An emitter's request begins.
Begin(e) ==
  /\ step[e] = "idle"
  /\ \E S \in SUBSET Subjects \ {{}} : \E order \in SetToSeqs(S) :
       todo' = [todo EXCEPT ![e] = order]
  /\ step' = [step EXCEPT ![e] = "open"]
  /\ UNCHANGED <<table, written, locked, share, exclusive, snapshot, token, unseen, handed>>

\* A statement sees its own transaction's writes.
Seen(t, s) == IF written[t][s] = Unwritten THEN table[s] ELSE written[t][s]

InUse(s) ==
  {t.generation : t \in {token[w] : w \in {v \in Workers :
                           token[v] # NoToken /\ token[v].subject = s}}}
  \cup {written[t][s].generation : t \in {u \in Txns : written[u][s] \in Row}}
  \cup (IF table[s] = NoEvent THEN {} ELSE {table[s].generation})

\* Faulty variant of Announced: an existing row keeps its generation.
AnnouncedSameGeneration(t, s) ==
  IF Seen(t, s) = NoEvent
  THEN [generation |-> CHOOSE i \in Ids : i \notin InUse(s), ready |-> TRUE]
  ELSE [Seen(t, s) EXCEPT !.ready = TRUE]

\* Faulty variant of Announced: the generation is not a new identifier.
AnnouncedNil(t, s) == [generation |-> Nobody, ready |-> TRUE]

\* INSERT ... ON CONFLICT DO UPDATE: a new generation, ready at once.
Announced(t, s) == [generation |-> CHOOSE i \in Ids : i \notin InUse(s), ready |-> TRUE]

\* add_event waits for the row's lock, then acts on what is there.  A new row
\* needs the listener's key, which a fetch in progress keeps.
Upsert(e) ==
  /\ step[e] = "open" /\ todo[e] # <<>>
  /\ LET s == Head(todo[e])
     IN  /\ locked[s] \in {Nobody, e}
         /\ \E i \in Ids : i \notin InUse(s)
         /\ Seen(e, s) = NoEvent => exclusive = Nobody
         /\ share' = IF Seen(e, s) = NoEvent THEN share \cup {e} ELSE share
         /\ locked' = [locked EXCEPT ![s] = e]
         /\ written' = [written EXCEPT ![e][s] = Announced(e, s)]
  /\ todo' = [todo EXCEPT ![e] = Tail(@)]
  /\ UNCHANGED <<table, exclusive, step, snapshot, token, unseen, handed>>

\* What an emitter announces happens when it commits.
CommitEmitter(e) ==
  /\ step[e] = "open" /\ todo[e] = <<>>
  /\ Publish(e)
  /\ unseen' = unseen \cup WrittenBy(e)
  /\ handed' = [s \in Subjects |-> IF s \in WrittenBy(e) THEN 0 ELSE handed[s]]
  /\ Release(e)
  /\ UNCHANGED <<todo, snapshot, token>>

RollbackEmitter(e) ==
  /\ step[e] = "open"
  /\ todo' = [todo EXCEPT ![e] = <<>>]
  /\ Release(e)
  /\ UNCHANGED <<table, snapshot, token, unseen, handed>>
----------------------------------------------------------------------------
IsReady(s) == table[s] # NoEvent /\ table[s].ready

\* event_fetch takes its snapshot ...
FetchSnapshot(w) ==
  /\ step[w] = "idle" /\ token[w] = NoToken
  /\ snapshot' = [snapshot EXCEPT ![w] = {s \in Subjects : IsReady(s)}]
  /\ step' = [step EXCEPT ![w] = "open"]
  /\ UNCHANGED <<table, written, locked, share, exclusive, todo, token, unseen, handed>>

\* FOR UPDATE SKIP LOCKED
Free(w) == {s \in snapshot[w] : locked[s] = Nobody}
ListenerFree == share = {} /\ exclusive = Nobody

\* Faulty variant of Eligible: the row is as the snapshot says.
EligibleBySnapshot(w) == {s \in Free(w) : table[s] # NoEvent}

\* A row that changed since the snapshot is checked again once it is locked.
Eligible(w) == {s \in Free(w) : IsReady(s)}

\* ... and takes the first row that it can lock together with the listener
\* and that is still ready, and stamps it.  Rows it locked in vain stay locked.
FetchChoose(w) ==
  /\ step[w] = "open"
  /\ IF ListenerFree /\ Eligible(w) # {}
     THEN \E s \in Eligible(w), vain \in SUBSET (Free(w) \ Eligible(w)) :
            /\ locked' = [x \in Subjects |-> IF x \in vain \cup {s} THEN w ELSE locked[x]]
            /\ written' = [written EXCEPT ![w][s] = [table[s] EXCEPT !.ready = FALSE]]
     ELSE /\ locked' = [x \in Subjects |-> IF x \in Free(w) THEN w ELSE locked[x]]
          /\ UNCHANGED written
  /\ exclusive' = IF ListenerFree /\ Free(w) # {} THEN w ELSE exclusive
  /\ snapshot' = [snapshot EXCEPT ![w] = {}]
  /\ step' = [step EXCEPT ![w] = "chosen"]
  /\ UNCHANGED <<table, share, todo, token, unseen, handed>>

\* The answer with the token reaches the worker or is lost.
FetchCommit(w) ==
  /\ step[w] = "chosen"
  /\ Publish(w)
  /\ handed' = [s \in Subjects |-> IF s \in WrittenBy(w) THEN handed[s] + 1 ELSE handed[s]]
  /\ \/ UNCHANGED token
     \/ \E s \in WrittenBy(w) :
          token' = [token EXCEPT ![w] =
            [subject |-> s, generation |-> written[w][s].generation, handled |-> FALSE]]
  /\ Release(w)
  /\ UNCHANGED <<todo, snapshot, unseen>>

\* External: the worker processes the subject as it is now.
Handle(w) ==
  /\ step[w] = "idle" /\ token[w] # NoToken /\ ~token[w].handled
  /\ token' = [token EXCEPT ![w].handled = TRUE]
  /\ unseen' = unseen \ {token[w].subject}
  /\ UNCHANGED <<table, written, locked, share, exclusive, todo, step, snapshot, handed>>

\* External: the worker gives up, or has had its answer.
Forget(w) ==
  /\ step[w] = "idle" /\ token[w] # NoToken
  /\ token' = [token EXCEPT ![w] = NoToken]
  /\ UNCHANGED <<table, written, locked, share, exclusive, todo, step, snapshot, unseen, handed>>

\* Faulty variant of Matches: whatever row the subject has now.
MatchesAnyGeneration(w) == table[token[w].subject] # NoEvent

Matches(w) ==
  /\ table[token[w].subject] # NoEvent
  /\ table[token[w].subject].generation = token[w].generation

\* The DELETE of event_acknowledge waits for the row's lock and compares the
\* generation with the row as it is then.
AckDelete(w) ==
  /\ step[w] = "idle" /\ token[w] # NoToken /\ token[w].handled
  /\ IF Matches(w)
     THEN /\ locked[token[w].subject] = Nobody
          /\ locked' = [locked EXCEPT ![token[w].subject] = w]
          /\ written' = [written EXCEPT ![w][token[w].subject] = NoEvent]
     ELSE UNCHANGED <<locked, written>>
  /\ step' = [step EXCEPT ![w] = "deleted"]
  /\ UNCHANGED <<table, share, exclusive, todo, snapshot, token, unseen, handed>>

AckCommit(w) ==
  /\ step[w] = "deleted"
  /\ Publish(w)
  /\ handed' = [s \in Subjects |-> IF s \in WrittenBy(w) THEN 0 ELSE handed[s]]
  /\ Release(w)
  /\ UNCHANGED <<todo, snapshot, token, unseen>>

RollbackWorker(w) ==
  /\ step[w] # "idle"
  /\ snapshot' = [snapshot EXCEPT ![w] = {}]
  /\ Release(w)
  /\ UNCHANGED <<table, todo, token, unseen, handed>>

\* The back-off of a row passes.
Ripen(s) ==
  /\ table[s] # NoEvent /\ ~table[s].ready
  /\ table' = [table EXCEPT ![s].ready = TRUE]
  /\ handed' = [handed EXCEPT ![s] = 0]
  /\ UNCHANGED <<written, locked, share, exclusive, todo, step, snapshot, token, unseen>>
----------------------------------------------------------------------------
Emit(e) == Begin(e) \/ Upsert(e) \/ CommitEmitter(e)

Work(w) ==
  \/ FetchSnapshot(w) \/ FetchChoose(w) \/ FetchCommit(w)
  \/ Handle(w) \/ Forget(w)
  \/ AckDelete(w) \/ AckCommit(w)

Rollback == (\E e \in Emitters : RollbackEmitter(e)) \/ (\E w \in Workers : RollbackWorker(w))

Next ==
  \/ \E e \in Emitters : Emit(e)
  \/ \E w \in Workers : Work(w)
  \/ Rollback
  \/ \E s \in Subjects : Ripen(s)

Spec == Init /\ [][Next]_vars
----------------------------------------------------------------------------
\* "Ensure two concurrent event fetches don't read the same event; one should
\* be backed-off" (event_resolver): between two moments at which a row is
\* ready it is handed out at most once, however the fetches overlap.
NoDoubleFetch == \A s \in Subjects : handed[s] =< 1

\* At-least-once delivery survives the interleaving of the statements: what
\* was announced by a committed transaction and not processed since has a
\* committed row.
NothingLost == unseen \subseteq Rows

\* Whoever is about to delete a row deletes only what was processed: nobody
\* can announce the subject again between the comparison and the commit.
DeletesAreSettled ==
  \A w \in Workers, s \in Subjects : written[w][s] = NoEvent => s \notin unseen

ALO == INSTANCE AtLeastOnce WITH Slots <- Subjects, owed <- unseen, retained <- Rows

\* The transactions implement the at-least-once promise.
ImplementsAtLeastOnce == ALO!ALOSpec
==============================================================================
