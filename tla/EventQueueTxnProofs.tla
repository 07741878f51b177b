------------------------- MODULE EventQueueTxnProofs -------------------------
(***************************************************************************)
(* Theorems about EventQueueTxn for any number of emitters, workers and    *)
(* subjects, whatever order each emitter announces in and whoever is       *)
(* rolled back.                                                            *)
(***************************************************************************)
EXTENDS EventQueueTxn, FiniteSetTheorems, TLAPS

\* A transaction holds the locks of the rows it has written.
WritersHoldLocks ==
  \A t \in Txns, s \in Subjects : written[t][s] # Unwritten => locked[s] = t

\* What a transaction can have written at each step.
WritesFitSteps ==
  /\ \A e \in Emitters, s \in Subjects : written[e][s] # NoEvent
  /\ \A w \in Workers, s \in Subjects :
       /\ step[w] \in {"idle", "open"} => written[w][s] = Unwritten
       /\ step[w] = "chosen" => written[w][s] # NoEvent
       /\ step[w] = "deleted" /\ written[w][s] # Unwritten =>
            written[w][s] = NoEvent /\ token[w] # NoToken /\ token[w].subject = s

\* A worker writes rows that are there: it stamps one that is still ready, or
\* deletes it.
WorkersWriteRows ==
  \A w \in Workers, s \in Subjects : written[w][s] # Unwritten =>
    /\ table[s] # NoEvent
    /\ written[w][s] # NoEvent =>
         /\ table[s].ready /\ ~written[w][s].ready
         /\ written[w][s].generation = table[s].generation

\* No token has the generation of an announcement that is not yet committed.
GenerationsAreNew ==
  \A e \in Emitters, w \in Workers, s \in Subjects :
    /\ written[e][s] # Unwritten
    /\ token[w] # NoToken /\ token[w].subject = s
    => token[w].generation # written[e][s].generation

\* Whoever processed a subject and still matches its row has seen the last
\* announcement.
HandledTokensAreCurrent ==
  \A w \in Workers :
    token[w] # NoToken /\ token[w].handled /\ Matches(w) => token[w].subject \notin unseen

\* Handed out once at most, and not at all since it was last ready.
ReadyIsNotHanded ==
  \A s \in Subjects : handed[s] =< 1 /\ (IsReady(s) => handed[s] = 0)

Inv ==
  /\ TypeOK /\ WritersHoldLocks /\ WritesFitSteps /\ WorkersWriteRows
  /\ GenerationsAreNew /\ HandledTokensAreCurrent /\ ReadyIsNotHanded
  /\ DeletesAreSettled /\ NothingLost
----------------------------------------------------------------------------
\* The order of an emitter is a sequence of subjects.
LEMMA OrdersAreSequences ==
  ASSUME NEW S \in SUBSET Subjects, NEW order \in SetToSeqs(S)
  PROVE  order \in Seq(Subjects)
PROOF
<1>1. IsFiniteSet(S)
  BY SubjectsAssumption, FS_Subset
<1>2. Cardinality(S) \in Nat
  BY <1>1, FS_CardinalityType
<1>3. order \in [1 .. Cardinality(S) -> S]
  BY DEF SetToSeqs
<1> QED BY <1>2, <1>3

\* What the end of a transaction does to the others: nothing.
LEMMA Released ==
  ASSUME TypeOK, NEW t \in Txns, Release(t)
  PROVE  /\ \A s \in Subjects : written'[t][s] = Unwritten
         /\ \A u \in Txns \ {t} : written'[u] = written[u] /\ step'[u] = step[u]
         /\ \A s \in Subjects : locked[s] # t => locked'[s] = locked[s]
         /\ step'[t] = "idle"
BY DEF TypeOK, Release, Nothing

LEMMA ReleasedTypes ==
  ASSUME TypeOK, NEW t \in Txns, Release(t)
  PROVE  /\ locked' \in [Subjects -> Txns \cup {Nobody}]
         /\ written' \in [Txns -> [Subjects -> Row \cup {NoEvent, Unwritten}]]
         /\ share' \subseteq Emitters
         /\ exclusive' \in Workers \cup {Nobody}
         /\ step' \in [Txns -> {"idle", "open", "chosen", "deleted"}]
PROOF
<1>1. Nothing \in [Subjects -> Row \cup {NoEvent, Unwritten}]
  BY DEF Nothing
<1> QED BY <1>1 DEF TypeOK, Release

\* The rows of a transaction that commits.
LEMMA Published ==
  ASSUME TypeOK, NEW t \in Txns, Publish(t)
  PROVE  /\ table' \in [Subjects -> Row \cup {NoEvent}]
         /\ \A s \in Subjects :
              table'[s] = IF written[t][s] # Unwritten THEN written[t][s] ELSE table[s]
PROOF
<1>1. \A s \in Subjects : table'[s] = IF written[t][s] # Unwritten THEN written[t][s] ELSE table[s]
  BY DEF Publish, WrittenBy
<1>2. ASSUME NEW s \in Subjects PROVE table'[s] \in Row \cup {NoEvent}
  <2>1. table[s] \in Row \cup {NoEvent} /\ written[t][s] \in Row \cup {NoEvent, Unwritten}
    BY DEF TypeOK
  <2> QED BY <1>1, <2>1
<1>3. DOMAIN table' = Subjects /\ table' = [s \in Subjects |-> table'[s]]
  BY DEF Publish
<1> QED BY <1>1, <1>2, <1>3

\* The row that an announcement leaves has a generation nobody has.
LEMMA AnnouncedIsNew ==
  ASSUME NEW t \in Txns, NEW s \in Subjects, \E i \in Ids : i \notin InUse(s)
  PROVE  /\ Announced(t, s) \in Row
         /\ \A w \in Workers : token[w] # NoToken /\ token[w].subject = s =>
              token[w].generation # Announced(t, s).generation
PROOF
<1> DEFINE g == CHOOSE i \in Ids : i \notin InUse(s)
<1>1. g \in Ids /\ g \notin InUse(s)
  OBVIOUS
<1>2. Announced(t, s) = [generation |-> g, ready |-> TRUE]
  BY DEF Announced
<1>3. ASSUME NEW w \in Workers, token[w] # NoToken, token[w].subject = s
      PROVE  token[w].generation \in InUse(s)
  BY <1>3 DEF InUse
<1> HIDE DEF g
<1> QED BY <1>1, <1>2, <1>3 DEF Row
----------------------------------------------------------------------------
\* Every step keeps the types.
LEMMA TypeStep == TypeOK /\ WritesFitSteps /\ [Next]_vars => TypeOK'
PROOF
<1> SUFFICES ASSUME TypeOK, WritesFitSteps, [Next]_vars PROVE TypeOK'
  OBVIOUS
<1> USE DEF TypeOK
<1>1. CASE UNCHANGED vars
  BY <1>1 DEF vars
<1>2. ASSUME NEW e \in Emitters, Begin(e) PROVE TypeOK'
  <2>1. \E order \in Seq(Subjects) : todo' = [todo EXCEPT ![e] = order]
    BY <1>2, OrdersAreSequences DEF Begin
  <2> QED BY <1>2, <2>1 DEF Begin, Txns
<1>3. ASSUME NEW e \in Emitters, Upsert(e) PROVE TypeOK'
  <2> DEFINE s == Head(todo[e])
  <2>1. todo[e] \in Seq(Subjects) /\ todo[e] # <<>>
    BY <1>3 DEF Upsert
  <2>2. s \in Subjects /\ Tail(todo[e]) \in Seq(Subjects)
    BY <2>1
  <2>3. Announced(e, s) \in Row
    BY <1>3, <2>2, AnnouncedIsNew DEF Upsert, Txns
  <2>4. /\ locked' = [locked EXCEPT ![s] = e]
        /\ written' = [written EXCEPT ![e][s] = Announced(e, s)]
        /\ todo' = [todo EXCEPT ![e] = Tail(@)]
        /\ share' = share \/ share' = share \cup {e}
        /\ UNCHANGED <<table, exclusive, step, snapshot, token, unseen, handed>>
    BY <1>3 DEF Upsert
  <2> HIDE DEF s
  <2> QED BY <2>2, <2>3, <2>4 DEF Txns
<1>4. ASSUME NEW e \in Emitters, CommitEmitter(e) PROVE TypeOK'
  BY <1>4, Published, ReleasedTypes DEF CommitEmitter, Txns, WrittenBy
<1>5. ASSUME NEW e \in Emitters, RollbackEmitter(e) PROVE TypeOK'
  BY <1>5, ReleasedTypes DEF RollbackEmitter, Txns
<1>6. ASSUME NEW w \in Workers, FetchSnapshot(w) PROVE TypeOK'
  BY <1>6 DEF FetchSnapshot, Txns
<1>7. ASSUME NEW w \in Workers, FetchChoose(w) PROVE TypeOK'
  <2>1. w \in Txns
    BY DEF Txns
  <2>2. locked' \in [Subjects -> Txns \cup {Nobody}]
    BY <1>7, <2>1 DEF FetchChoose
  <2>3. written' \in [Txns -> [Subjects -> Row \cup {NoEvent, Unwritten}]]
    <3>1. CASE UNCHANGED written
      BY <3>1
    <3>2. ASSUME NEW s \in Eligible(w), written' = [written EXCEPT ![w][s] = [table[s] EXCEPT !.ready = FALSE]]
          PROVE  written' \in [Txns -> [Subjects -> Row \cup {NoEvent, Unwritten}]]
      <4>1. s \in Subjects /\ table[s] \in Row
        BY DEF Eligible, Free, IsReady
      <4>2. [table[s] EXCEPT !.ready = FALSE] \in Row
        BY <4>1 DEF Row
      <4> QED BY <2>1, <3>2, <4>1, <4>2
    <3> QED BY <1>7, <3>1, <3>2 DEF FetchChoose
  <2> QED BY <1>7, <2>1, <2>2, <2>3 DEF FetchChoose
<1>8. ASSUME NEW w \in Workers, FetchCommit(w) PROVE TypeOK'
  <2>1. w \in Txns
    BY DEF Txns
  <2>2. handed' \in [Subjects -> Nat]
    BY <1>8 DEF FetchCommit
  <2>3. token' \in [Workers -> Token \cup {NoToken}]
    <3>1. ASSUME NEW s \in WrittenBy(w),
                 token' = [token EXCEPT ![w] =
                   [subject |-> s, generation |-> written[w][s].generation, handled |-> FALSE]]
          PROVE  token' \in [Workers -> Token \cup {NoToken}]
      <4>1. s \in Subjects /\ written[w][s] \in Row
        BY <1>8, <2>1 DEF FetchCommit, WrittenBy, WritesFitSteps
      <4> QED BY <3>1, <4>1 DEF Token, Row
    <3> QED BY <1>8, <3>1 DEF FetchCommit
  <2> QED BY <1>8, <2>1, <2>2, <2>3, Published, ReleasedTypes DEF FetchCommit
<1>9. ASSUME NEW w \in Workers, Handle(w) PROVE TypeOK'
  <2>1. token[w] \in Token
    BY <1>9 DEF Handle
  <2>2. [token[w] EXCEPT !.handled = TRUE] \in Token
    BY <2>1 DEF Token
  <2>3. token' \in [Workers -> Token \cup {NoToken}]
    BY <1>9, <2>2 DEF Handle
  <2> QED BY <1>9, <2>3 DEF Handle
<1>10. ASSUME NEW w \in Workers, Forget(w) PROVE TypeOK'
  BY <1>10 DEF Forget
<1>11. ASSUME NEW w \in Workers, AckDelete(w) PROVE TypeOK'
  <2>1. w \in Txns /\ token[w] \in Token
    BY <1>11 DEF AckDelete, Txns
  <2>2. token[w].subject \in Subjects
    BY <2>1 DEF Token
  <2>3. /\ locked' \in [Subjects -> Txns \cup {Nobody}]
        /\ written' \in [Txns -> [Subjects -> Row \cup {NoEvent, Unwritten}]]
    <3>1. CASE Matches(w)
      <4>1. /\ locked' = [locked EXCEPT ![token[w].subject] = w]
            /\ written' = [written EXCEPT ![w][token[w].subject] = NoEvent]
        BY <1>11, <3>1 DEF AckDelete
      <4> QED BY <2>1, <2>2, <4>1
    <3>2. CASE ~Matches(w)
      BY <1>11, <3>2 DEF AckDelete
    <3> QED BY <3>1, <3>2
  <2> QED BY <1>11, <2>1, <2>3 DEF AckDelete
<1>12. ASSUME NEW w \in Workers, AckCommit(w) PROVE TypeOK'
  BY <1>12, Published, ReleasedTypes DEF AckCommit, Txns
<1>13. ASSUME NEW w \in Workers, RollbackWorker(w) PROVE TypeOK'
  BY <1>13, ReleasedTypes DEF RollbackWorker, Txns
<1>14. ASSUME NEW s \in Subjects, Ripen(s) PROVE TypeOK'
  <2>1. table[s] \in Row
    BY <1>14 DEF Ripen
  <2>2. [table[s] EXCEPT !.ready = TRUE] \in Row
    BY <2>1 DEF Row
  <2> QED BY <1>14, <2>2 DEF Ripen
<1> QED BY <1>1, <1>2, <1>3, <1>4, <1>5, <1>6, <1>7, <1>8, <1>9, <1>10, <1>11, <1>12,
           <1>13, <1>14 DEF Next, Emit, Work, Rollback
----------------------------------------------------------------------------
\* Inv is inductive.
LEMMA InitInv == Init => Inv
BY MarkersAssumption
   DEF Init, Inv, TypeOK, WritersHoldLocks, WritesFitSteps, WorkersWriteRows,
       GenerationsAreNew, HandledTokensAreCurrent, ReadyIsNotHanded, IsReady,
       DeletesAreSettled, NothingLost, Rows, Nothing, Txns

\* An emitter writes: only rows, with new generations, under their locks.
LEMMA UpsertStep ==
  ASSUME Inv, TypeOK', NEW e \in Emitters, Upsert(e)
  PROVE  Inv'
PROOF
<1> DEFINE s == Head(todo[e])
<1>1. e \in Txns /\ e \notin Workers /\ \A w \in Workers : w \in Txns
  BY ActorsAssumption DEF Txns
<1>2. s \in Subjects
  <2>1. todo[e] \in Seq(Subjects) /\ todo[e] # <<>>
    BY DEF Upsert, Inv, TypeOK
  <2> QED BY <2>1
<1>3. /\ Announced(e, s) \in Row
      /\ \A w \in Workers : token[w] # NoToken /\ token[w].subject = s =>
           token[w].generation # Announced(e, s).generation
  BY <1>1, <1>2, AnnouncedIsNew DEF Upsert
<1>4. /\ locked[s] \in {Nobody, e}
      /\ locked' = [locked EXCEPT ![s] = e]
      /\ written' = [written EXCEPT ![e][s] = Announced(e, s)]
      /\ UNCHANGED <<table, exclusive, step, snapshot, token, unseen, handed>>
  BY DEF Upsert
<1> HIDE DEF s
<1>5. Announced(e, s) # NoEvent /\ Announced(e, s) # Unwritten
  BY <1>3, MarkersAssumption
<1>6. \A x \in Subjects : written'[e][x] = IF x = s THEN Announced(e, s) ELSE written[e][x]
  BY <1>1, <1>2, <1>4 DEF Inv, TypeOK
<1>7. \A t \in Txns \ {e} : written'[t] = written[t]
  BY <1>4 DEF Inv, TypeOK
<1>8. \A t \in Txns \ {e} : written[t][s] = Unwritten
  BY <1>2, <1>4, ActorsAssumption DEF Inv, WritersHoldLocks
<1>9. WritersHoldLocks'
  BY <1>2, <1>4, <1>6, <1>7, <1>8 DEF Inv, TypeOK, WritersHoldLocks
<1>10. WritesFitSteps'
  BY <1>1, <1>4, <1>5, <1>6, <1>7 DEF Inv, WritesFitSteps, Txns
<1>11. GenerationsAreNew'
  BY <1>1, <1>3, <1>4, <1>6, <1>7 DEF Inv, GenerationsAreNew, Txns
<1>12. WorkersWriteRows' /\ DeletesAreSettled'
  BY <1>1, <1>4, <1>7 DEF Inv, WorkersWriteRows, DeletesAreSettled
<1>13. HandledTokensAreCurrent' /\ ReadyIsNotHanded' /\ NothingLost'
  BY <1>4 DEF Inv, HandledTokensAreCurrent, Matches, ReadyIsNotHanded, IsReady, NothingLost, Rows
<1> QED BY <1>9, <1>10, <1>11, <1>12, <1>13 DEF Inv

\* The rows of an emitter become visible: their subjects are unseen and no
\* token matches them.
LEMMA CommitEmitterStep ==
  ASSUME Inv, TypeOK', NEW e \in Emitters, CommitEmitter(e)
  PROVE  Inv'
PROOF
<1>1. e \in Txns /\ e \notin Workers /\ \A w \in Workers : w \in Txns
  BY ActorsAssumption DEF Txns
<1>2. /\ \A s \in Subjects : written'[e][s] = Unwritten
      /\ \A u \in Txns \ {e} : written'[u] = written[u] /\ step'[u] = step[u]
      /\ \A s \in Subjects : locked[s] # e => locked'[s] = locked[s]
  BY <1>1, Released DEF CommitEmitter, Inv
<1>3. \A s \in Subjects :
        table'[s] = IF written[e][s] # Unwritten THEN written[e][s] ELSE table[s]
  BY <1>1, Published DEF CommitEmitter, Inv
<1>4. /\ unseen' = unseen \cup {s \in Subjects : written[e][s] # Unwritten}
      /\ handed' = [s \in Subjects |-> IF written[e][s] # Unwritten THEN 0 ELSE handed[s]]
      /\ UNCHANGED <<todo, snapshot, token>>
  BY DEF CommitEmitter, WrittenBy
<1>5. \A w \in Workers, s \in Subjects :
        written[w][s] # Unwritten => written[e][s] = Unwritten /\ table'[s] = table[s]
  BY <1>1, <1>3 DEF Inv, WritersHoldLocks
<1>6. \A s \in Subjects : written[e][s] # NoEvent
  BY DEF Inv, WritesFitSteps
<1>7. WritersHoldLocks'
  BY <1>2 DEF Inv, WritersHoldLocks
<1>8. WritesFitSteps'
  BY <1>1, <1>2, <1>4, MarkersAssumption DEF Inv, WritesFitSteps, Txns
<1>9. WorkersWriteRows'
  BY <1>1, <1>2, <1>5 DEF Inv, WorkersWriteRows
<1>10. GenerationsAreNew'
  BY <1>2, <1>4 DEF Inv, GenerationsAreNew, Txns
<1>11. HandledTokensAreCurrent'
  <2> SUFFICES ASSUME NEW w \in Workers, token[w] # NoToken, token[w].handled,
                      table'[token[w].subject] # NoEvent,
                      table'[token[w].subject].generation = token[w].generation
               PROVE  token[w].subject \notin unseen'
    BY <1>4 DEF HandledTokensAreCurrent, Matches
  <2>1. token[w].subject \in Subjects
    BY DEF Inv, TypeOK, Token
  <2>2. written[e][token[w].subject] = Unwritten
    BY <1>3, <2>1 DEF Inv, GenerationsAreNew
  <2> QED BY <1>3, <1>4, <2>1, <2>2 DEF Inv, HandledTokensAreCurrent, Matches
<1>12. ReadyIsNotHanded'
  BY <1>3, <1>4 DEF Inv, ReadyIsNotHanded, IsReady
<1>13. DeletesAreSettled'
  BY <1>1, <1>2, <1>4, <1>5, MarkersAssumption DEF Inv, DeletesAreSettled
<1>14. NothingLost'
  BY <1>3, <1>4, <1>6 DEF Inv, NothingLost, Rows, TypeOK
<1> QED BY <1>7, <1>8, <1>9, <1>10, <1>11, <1>12, <1>13, <1>14 DEF Inv

\* What a roll-back leaves: the transaction has written nothing.
LEMMA RollbackStep ==
  ASSUME Inv, TypeOK', NEW t \in Txns, Release(t), UNCHANGED <<table, token, unseen, handed>>
  PROVE  Inv'
PROOF
<1>1. /\ \A s \in Subjects : written'[t][s] = Unwritten
      /\ \A u \in Txns \ {t} : written'[u] = written[u] /\ step'[u] = step[u]
      /\ \A s \in Subjects : locked[s] # t => locked'[s] = locked[s]
      /\ step'[t] = "idle"
  BY Released DEF Inv
<1>2. WritersHoldLocks'
  BY <1>1 DEF Inv, WritersHoldLocks
<1>3. WritesFitSteps'
  BY <1>1, MarkersAssumption DEF Inv, WritesFitSteps, Txns
<1>4. WorkersWriteRows'
  BY <1>1 DEF Inv, WorkersWriteRows, Txns
<1>5. GenerationsAreNew'
  BY <1>1 DEF Inv, GenerationsAreNew, Txns
<1>6. DeletesAreSettled'
  BY <1>1, MarkersAssumption DEF Inv, DeletesAreSettled, Txns
<1>7. HandledTokensAreCurrent' /\ ReadyIsNotHanded' /\ NothingLost'
  BY DEF Inv, HandledTokensAreCurrent, Matches, ReadyIsNotHanded, IsReady, NothingLost, Rows
<1> QED BY <1>2, <1>3, <1>4, <1>5, <1>6, <1>7 DEF Inv

\* A request begins, a fetch takes its snapshot, a worker forgets its token:
\* no row and no write changes.
LEMMA QuietStep ==
  ASSUME Inv, TypeOK', NEW t \in Txns, step[t] = "idle",
         \/ step' = [step EXCEPT ![t] = "open"] /\ UNCHANGED token
         \/ t \in Workers /\ step' = step /\ token' = [token EXCEPT ![t] = NoToken],
         UNCHANGED <<table, written, locked, unseen, handed>>
  PROVE  Inv'
PROOF
<1>1. \A w \in Workers : w \in Txns
  BY DEF Txns
<1>2. \A w \in Workers : token'[w] = token[w] \/ (w = t /\ token'[w] = NoToken)
  BY DEF Inv, TypeOK
<1>3. \A w \in Workers : step'[w] = step[w] \/ (w = t /\ step'[w] = "open")
  BY <1>1 DEF Inv, TypeOK
<1>4. WritesFitSteps'
  BY <1>1, <1>2, <1>3 DEF Inv, WritesFitSteps
<1>5. GenerationsAreNew' /\ HandledTokensAreCurrent'
  BY <1>2 DEF Inv, GenerationsAreNew, HandledTokensAreCurrent, Matches
<1>6. WritersHoldLocks' /\ WorkersWriteRows' /\ ReadyIsNotHanded' /\ DeletesAreSettled' /\ NothingLost'
  BY DEF Inv, WritersHoldLocks, WorkersWriteRows, ReadyIsNotHanded, IsReady,
         DeletesAreSettled, NothingLost, Rows
<1> QED BY <1>4, <1>5, <1>6 DEF Inv

\* A fetch stamps a row that nobody else writes and that is ready now.
LEMMA FetchChooseStep ==
  ASSUME Inv, TypeOK', NEW w \in Workers, FetchChoose(w)
  PROVE  Inv'
PROOF
<1>1. w \in Txns /\ w \notin Emitters /\ \A v \in Workers : v \in Txns
  BY ActorsAssumption DEF Txns
<1>2. /\ \A s \in Subjects : written[w][s] = Unwritten
      /\ step' = [step EXCEPT ![w] = "chosen"]
      /\ UNCHANGED <<table, token, unseen, handed>>
  BY DEF FetchChoose, Inv, WritesFitSteps
<1>3. \A s \in Subjects : locked'[s] = locked[s] \/ (locked[s] = Nobody /\ locked'[s] = w)
  BY DEF FetchChoose, Eligible, Free
<1>4. \A v \in Workers : step'[v] = IF v = w THEN "chosen" ELSE step[v]
  BY <1>1, <1>2 DEF Inv, TypeOK
<1>5. \/ written' = written
      \/ \E s \in Subjects :
           /\ IsReady(s) /\ locked'[s] = w
           /\ written' = [written EXCEPT ![w][s] = [table[s] EXCEPT !.ready = FALSE]]
  <2>1. ASSUME NEW s \in Eligible(w), NEW vain \in SUBSET (Free(w) \ Eligible(w)),
               locked' = [x \in Subjects |-> IF x \in vain \cup {s} THEN w ELSE locked[x]]
        PROVE  s \in Subjects /\ IsReady(s) /\ locked'[s] = w
    <3>1. s \in Subjects /\ IsReady(s)
      BY DEF Eligible, Free, Inv, TypeOK
    <3> QED BY <2>1, <3>1
  <2> QED BY <2>1 DEF FetchChoose
<1>6. \A t \in Txns, s \in Subjects : written[t][s] # Unwritten => locked'[s] = t
  BY <1>3, ActorsAssumption DEF Inv, WritersHoldLocks
<1>7. HandledTokensAreCurrent' /\ ReadyIsNotHanded' /\ NothingLost'
  BY <1>2 DEF Inv, HandledTokensAreCurrent, Matches, ReadyIsNotHanded, IsReady, NothingLost, Rows
<1>8. CASE written' = written
  <2>1. WritersHoldLocks'
    BY <1>6, <1>8 DEF WritersHoldLocks
  <2>2. WritesFitSteps'
    BY <1>2, <1>4, <1>8, MarkersAssumption DEF Inv, WritesFitSteps
  <2>3. WorkersWriteRows' /\ GenerationsAreNew' /\ DeletesAreSettled'
    BY <1>2, <1>8 DEF Inv, WorkersWriteRows, GenerationsAreNew, DeletesAreSettled
  <2> QED BY <1>7, <2>1, <2>2, <2>3 DEF Inv
<1>9. ASSUME NEW s \in Subjects, IsReady(s), locked'[s] = w,
             written' = [written EXCEPT ![w][s] = [table[s] EXCEPT !.ready = FALSE]]
      PROVE  Inv'
  <2> DEFINE row == [table[s] EXCEPT !.ready = FALSE]
  <2>1. table[s] \in Row
    BY <1>9 DEF Inv, TypeOK, IsReady
  <2>2. row \in Row /\ row.generation = table[s].generation /\ row.ready = FALSE
    BY <2>1 DEF Row
  <2>3. row # NoEvent /\ row # Unwritten
    BY <2>2, MarkersAssumption
  <2>4. /\ \A x \in Subjects : written'[w][x] = IF x = s THEN row ELSE Unwritten
        /\ \A t \in Txns \ {w} : written'[t] = written[t]
    BY <1>1, <1>2, <1>9 DEF Inv, TypeOK
  <2> HIDE DEF row
  <2>5. WritersHoldLocks'
    BY <1>6, <1>9, <2>4 DEF WritersHoldLocks
  <2>6. WritesFitSteps'
    BY <1>1, <1>2, <1>4, <2>3, <2>4, MarkersAssumption DEF Inv, WritesFitSteps, Txns
  <2>7. WorkersWriteRows'
    BY <1>1, <1>2, <1>9, <2>2, <2>4 DEF Inv, WorkersWriteRows, IsReady
  <2>8. GenerationsAreNew'
    BY <1>1, <1>2, <2>4 DEF Inv, GenerationsAreNew, Txns
  <2>9. DeletesAreSettled'
    BY <1>1, <1>2, <2>3, <2>4, MarkersAssumption DEF Inv, DeletesAreSettled
  <2> QED BY <1>7, <2>5, <2>6, <2>7, <2>8, <2>9 DEF Inv
<1> QED BY <1>5, <1>8, <1>9
\* The stamp becomes visible: the row is handed out, once, with the generation
\* it had.
LEMMA FetchCommitStep ==
  ASSUME Inv, TypeOK', NEW w \in Workers, FetchCommit(w)
  PROVE  Inv' /\ Rows' = Rows
PROOF
<1>1. w \in Txns /\ w \notin Emitters /\ \A v \in Workers : v \in Txns
  BY ActorsAssumption DEF Txns
<1>2. /\ \A s \in Subjects : written'[w][s] = Unwritten
      /\ \A u \in Txns \ {w} : written'[u] = written[u] /\ step'[u] = step[u]
      /\ \A s \in Subjects : locked[s] # w => locked'[s] = locked[s]
      /\ step'[w] = "idle"
  BY <1>1, Released DEF FetchCommit, Inv
<1>3. \A s \in Subjects :
        table'[s] = IF written[w][s] # Unwritten THEN written[w][s] ELSE table[s]
  BY <1>1, Published DEF FetchCommit, Inv
<1>4. \A s \in Subjects : written[w][s] # Unwritten =>
        /\ table[s] # NoEvent /\ table[s].ready
        /\ written[w][s] # NoEvent /\ ~written[w][s].ready
        /\ written[w][s].generation = table[s].generation
  BY DEF FetchCommit, Inv, WritesFitSteps, WorkersWriteRows
<1>5. \A s \in Subjects :
        /\ table'[s] = NoEvent <=> table[s] = NoEvent
        /\ table[s] # NoEvent => table'[s].generation = table[s].generation
  BY <1>3, <1>4
<1>6. /\ handed' = [s \in Subjects |->
                     IF written[w][s] # Unwritten THEN handed[s] + 1 ELSE handed[s]]
      /\ unseen' = unseen
  BY DEF FetchCommit, WrittenBy
<1>7. \/ token' = token
      \/ \E s \in Subjects :
           /\ written[w][s] # Unwritten
           /\ token' = [token EXCEPT ![w] =
                [subject |-> s, generation |-> written[w][s].generation, handled |-> FALSE]]
  BY DEF FetchCommit, WrittenBy
<1>8. \A v \in Workers :
        \/ token'[v] = token[v]
        \/ \E s \in Subjects :
             /\ written[w][s] # Unwritten
             /\ v = w /\ token'[v].subject = s /\ ~token'[v].handled
  <2>1. CASE token' = token
    BY <2>1
  <2>2. ASSUME NEW s \in Subjects, written[w][s] # Unwritten,
               token' = [token EXCEPT ![w] =
                 [subject |-> s, generation |-> written[w][s].generation, handled |-> FALSE]]
        PROVE  /\ \A v \in Workers \ {w} : token'[v] = token[v]
               /\ token'[w].subject = s /\ ~token'[w].handled
    BY <2>2 DEF Inv, TypeOK
  <2> QED BY <1>7, <2>1, <2>2
<1>9. \A u \in Txns \ {w}, s \in Subjects :
        written[u][s] # Unwritten => written[w][s] = Unwritten /\ table'[s] = table[s]
  BY <1>1, <1>3 DEF Inv, WritersHoldLocks
<1>10. WritersHoldLocks'
  BY <1>2 DEF Inv, WritersHoldLocks
<1>11. WritesFitSteps'
  <2>1. \A e \in Emitters, s \in Subjects : written'[e][s] # NoEvent
    BY <1>1, <1>2 DEF Inv, WritesFitSteps, Txns
  <2>2. ASSUME NEW v \in Workers, v # w, NEW s \in Subjects
        PROVE  token'[v] = token[v] /\ step'[v] = step[v] /\ written'[v] = written[v]
    BY <1>1, <1>2, <1>8, <2>2
  <2> QED BY <1>2, <2>1, <2>2, MarkersAssumption DEF Inv, WritesFitSteps
<1>12. WorkersWriteRows'
  BY <1>1, <1>2, <1>9 DEF Inv, WorkersWriteRows
<1>13. GenerationsAreNew'
  <2> SUFFICES ASSUME NEW e \in Emitters, NEW v \in Workers, NEW s \in Subjects,
                      written'[e][s] # Unwritten, token'[v] # NoToken, token'[v].subject = s
               PROVE  token'[v].generation # written'[e][s].generation
    BY DEF GenerationsAreNew
  <2>1. written'[e] = written[e] /\ written[w][s] = Unwritten
    BY <1>1, <1>2, <1>9 DEF Txns
  <2>2. token'[v] = token[v]
    BY <1>8, <2>1
  <2> QED BY <2>1, <2>2 DEF Inv, GenerationsAreNew
<1>14. HandledTokensAreCurrent'
  <2> SUFFICES ASSUME NEW v \in Workers, token'[v] # NoToken, token'[v].handled,
                      table'[token'[v].subject] # NoEvent,
                      table'[token'[v].subject].generation = token'[v].generation
               PROVE  token'[v].subject \notin unseen'
    BY DEF HandledTokensAreCurrent, Matches
  <2>1. token'[v] = token[v]
    BY <1>8
  <2>2. token[v].subject \in Subjects
    BY <2>1 DEF Inv, TypeOK, Token
  <2> QED BY <1>5, <1>6, <2>1, <2>2 DEF Inv, HandledTokensAreCurrent, Matches
<1>15. ReadyIsNotHanded'
  <2> SUFFICES ASSUME NEW s \in Subjects
               PROVE  handed'[s] =< 1 /\ (table'[s] # NoEvent /\ table'[s].ready => handed'[s] = 0)
    BY DEF ReadyIsNotHanded, IsReady
  <2>1. CASE written[w][s] = Unwritten
    BY <1>3, <1>6, <2>1 DEF Inv, ReadyIsNotHanded, IsReady
  <2>2. CASE written[w][s] # Unwritten
    BY <1>3, <1>4, <1>6, <2>2 DEF Inv, ReadyIsNotHanded, IsReady
  <2> QED BY <2>1, <2>2
<1>16. DeletesAreSettled'
  BY <1>1, <1>2, <1>6, MarkersAssumption DEF Inv, DeletesAreSettled
<1>17. Rows' = Rows
  BY <1>5 DEF Rows
<1>18. NothingLost'
  BY <1>6, <1>17 DEF Inv, NothingLost
<1> QED BY <1>10, <1>11, <1>12, <1>13, <1>14, <1>15, <1>16, <1>17, <1>18 DEF Inv

\* The worker has now seen whatever was announced of its subject.
LEMMA HandleStep ==
  ASSUME Inv, TypeOK', NEW w \in Workers, Handle(w)
  PROVE  Inv'
PROOF
<1>1. token[w] \in Token
  BY DEF Handle, Inv, TypeOK
<1>2. /\ \A v \in Workers \ {w} : token'[v] = token[v]
      /\ token'[w] # NoToken /\ token[w] # NoToken
      /\ token'[w].subject = token[w].subject /\ token'[w].generation = token[w].generation
  <2>1. [token[w] EXCEPT !.handled = TRUE] \in Token
    BY <1>1 DEF Token
  <2>2. token'[w] = [token[w] EXCEPT !.handled = TRUE]
    BY DEF Handle, Inv, TypeOK
  <2>3. \A v \in Workers \ {w} : token'[v] = token[v]
    BY DEF Handle, Inv, TypeOK
  <2> QED BY <1>1, <2>1, <2>2, <2>3, MarkersAssumption DEF Token
<1>3. /\ unseen' = unseen \ {token[w].subject}
      /\ UNCHANGED <<table, written, locked, step, handed>>
  BY DEF Handle
<1>4. WritesFitSteps'
  BY <1>2, <1>3 DEF Inv, WritesFitSteps
<1>5. GenerationsAreNew'
  BY <1>2, <1>3 DEF Inv, GenerationsAreNew
<1>6. HandledTokensAreCurrent'
  BY <1>2, <1>3 DEF Inv, HandledTokensAreCurrent, Matches
<1>7. WritersHoldLocks' /\ WorkersWriteRows' /\ ReadyIsNotHanded' /\ DeletesAreSettled' /\ NothingLost'
  BY <1>3 DEF Inv, WritersHoldLocks, WorkersWriteRows, ReadyIsNotHanded, IsReady,
              DeletesAreSettled, NothingLost, Rows
<1> QED BY <1>4, <1>5, <1>6, <1>7 DEF Inv

\* The DELETE takes the lock of the row it compared.
LEMMA AckDeleteStep ==
  ASSUME Inv, TypeOK', NEW w \in Workers, AckDelete(w)
  PROVE  Inv'
PROOF
<1> DEFINE s == token[w].subject
<1>1. w \in Txns /\ w \notin Emitters /\ \A v \in Workers : v \in Txns
  BY ActorsAssumption DEF Txns
<1>2. s \in Subjects /\ token[w] # NoToken
  BY DEF AckDelete, Inv, TypeOK, Token
<1>3. /\ \A x \in Subjects : written[w][x] = Unwritten
      /\ step' = [step EXCEPT ![w] = "deleted"]
      /\ UNCHANGED <<table, token, unseen, handed>>
  BY DEF AckDelete, Inv, WritesFitSteps
<1>4. \A v \in Workers : step'[v] = IF v = w THEN "deleted" ELSE step[v]
  BY <1>1, <1>3 DEF Inv, TypeOK
<1>5. HandledTokensAreCurrent' /\ ReadyIsNotHanded' /\ NothingLost'
  BY <1>3 DEF Inv, HandledTokensAreCurrent, Matches, ReadyIsNotHanded, IsReady, NothingLost, Rows
<1>6. CASE ~Matches(w)
  <2>1. written' = written /\ locked' = locked
    BY <1>6 DEF AckDelete
  <2>2. WritesFitSteps'
    BY <1>1, <1>3, <1>4, <2>1 DEF Inv, WritesFitSteps
  <2>3. /\ WritersHoldLocks' /\ WorkersWriteRows' /\ GenerationsAreNew'
        /\ DeletesAreSettled'
    BY <1>3, <2>1 DEF Inv, WritersHoldLocks, WorkersWriteRows, GenerationsAreNew, DeletesAreSettled
  <2> QED BY <1>5, <2>2, <2>3 DEF Inv
<1>7. CASE Matches(w)
  <2>1. /\ locked[s] = Nobody /\ locked' = [locked EXCEPT ![s] = w]
        /\ written' = [written EXCEPT ![w][s] = NoEvent]
    BY <1>7 DEF AckDelete
  <2>2. table[s] # NoEvent /\ s \notin unseen
    BY <1>2, <1>7 DEF AckDelete, Inv, HandledTokensAreCurrent, Matches
  <2>3. /\ \A x \in Subjects : written'[w][x] = IF x = s THEN NoEvent ELSE Unwritten
        /\ \A t \in Txns \ {w} : written'[t] = written[t]
    BY <1>1, <1>2, <1>3, <2>1 DEF Inv, TypeOK
  <2> HIDE DEF s
  <2>4. \A t \in Txns : written[t][s] = Unwritten
    BY <1>2, <2>1, ActorsAssumption DEF Inv, WritersHoldLocks
  <2>5. WritersHoldLocks'
    BY <1>2, <2>1, <2>3, <2>4 DEF Inv, TypeOK, WritersHoldLocks
  <2>6. WritesFitSteps'
    BY <1>1, <1>2, <1>3, <1>4, <2>3, MarkersAssumption DEF Inv, WritesFitSteps, Txns, s
  <2>7. WorkersWriteRows'
    BY <1>1, <1>3, <2>2, <2>3 DEF Inv, WorkersWriteRows
  <2>8. GenerationsAreNew'
    BY <1>1, <1>3, <2>3 DEF Inv, GenerationsAreNew, Txns
  <2>9. DeletesAreSettled'
    BY <1>1, <1>3, <2>2, <2>3, MarkersAssumption DEF Inv, DeletesAreSettled
  <2> QED BY <1>5, <2>5, <2>6, <2>7, <2>8, <2>9 DEF Inv
<1> QED BY <1>6, <1>7
\* The delete becomes visible: the row of a subject that was processed is gone,
\* and no other row.
LEMMA AckCommitStep ==
  ASSUME Inv, TypeOK', NEW w \in Workers, AckCommit(w)
  PROVE  /\ Inv'
         /\ \/ Rows' = Rows
            \/ \E s \in Rows \ unseen : Rows' = Rows \ {s}
PROOF
<1>1. w \in Txns /\ w \notin Emitters /\ \A v \in Workers : v \in Txns
  BY ActorsAssumption DEF Txns
<1>2. /\ \A s \in Subjects : written'[w][s] = Unwritten
      /\ \A u \in Txns \ {w} : written'[u] = written[u] /\ step'[u] = step[u]
      /\ \A s \in Subjects : locked[s] # w => locked'[s] = locked[s]
      /\ step'[w] = "idle"
  BY <1>1, Released DEF AckCommit, Inv
<1>3. \A s \in Subjects : written[w][s] # Unwritten =>
        /\ written[w][s] = NoEvent /\ token[w].subject = s
        /\ table[s] # NoEvent /\ s \notin unseen
  BY DEF AckCommit, Inv, WritesFitSteps, WorkersWriteRows, DeletesAreSettled
<1>4. \A s \in Subjects :
        table'[s] = IF written[w][s] # Unwritten THEN NoEvent ELSE table[s]
  BY <1>1, <1>3, Published DEF AckCommit, Inv
<1>5. /\ handed' = [s \in Subjects |-> IF written[w][s] # Unwritten THEN 0 ELSE handed[s]]
      /\ UNCHANGED <<token, unseen>>
  BY DEF AckCommit, WrittenBy
<1>6. \A u \in Txns \ {w}, s \in Subjects :
        written[u][s] # Unwritten => table'[s] = table[s]
  BY <1>1, <1>4 DEF Inv, WritersHoldLocks
<1>7. WritersHoldLocks'
  BY <1>2 DEF Inv, WritersHoldLocks
<1>8. WritesFitSteps'
  BY <1>1, <1>2, <1>5, MarkersAssumption DEF Inv, WritesFitSteps, Txns
<1>9. WorkersWriteRows'
  BY <1>1, <1>2, <1>6 DEF Inv, WorkersWriteRows
<1>10. GenerationsAreNew'
  BY <1>1, <1>2, <1>5 DEF Inv, GenerationsAreNew, Txns
<1>11. HandledTokensAreCurrent'
  <2> SUFFICES ASSUME NEW v \in Workers, token[v] # NoToken, token[v].handled,
                      table'[token[v].subject] # NoEvent,
                      table'[token[v].subject].generation = token[v].generation
               PROVE  token[v].subject \notin unseen
    BY <1>5 DEF HandledTokensAreCurrent, Matches
  <2>1. token[v].subject \in Subjects
    BY DEF Inv, TypeOK, Token
  <2> QED BY <1>4, <2>1 DEF Inv, HandledTokensAreCurrent, Matches
<1>12. ReadyIsNotHanded'
  BY <1>4, <1>5 DEF Inv, ReadyIsNotHanded, IsReady
<1>13. DeletesAreSettled'
  BY <1>1, <1>2, <1>5, MarkersAssumption DEF Inv, DeletesAreSettled
<1>14. Rows' = {s \in Rows : written[w][s] = Unwritten}
  BY <1>4 DEF Rows
<1>15. NothingLost'
  <2>1. \A s \in unseen : s \in Subjects /\ s \in Rows
    BY DEF Inv, TypeOK, NothingLost
  <2>2. \A s \in unseen : written[w][s] = Unwritten
    BY <1>3, <2>1
  <2> QED BY <1>5, <1>14, <2>1, <2>2 DEF NothingLost
<1>16. Rows' = Rows \/ \E s \in Rows \ unseen : Rows' = Rows \ {s}
  <2>1. CASE \A s \in Subjects : written[w][s] = Unwritten
    BY <1>14, <2>1 DEF Rows
  <2>2. ASSUME NEW s \in Subjects, written[w][s] # Unwritten
        PROVE  s \in Rows \ unseen /\ Rows' = Rows \ {s}
    <3>1. s \in Rows \ unseen
      BY <1>3, <2>2 DEF Rows
    <3>2. \A x \in Subjects : written[w][x] # Unwritten <=> x = s
      BY <1>3, <2>2
    <3> QED BY <1>14, <3>1, <3>2 DEF Rows
  <2> QED BY <2>1, <2>2
<1> QED BY <1>7, <1>8, <1>9, <1>10, <1>11, <1>12, <1>13, <1>15, <1>16 DEF Inv

\* A row that is ready again keeps its generation and has not been handed out.
LEMMA RipenStep ==
  ASSUME Inv, TypeOK', NEW s \in Subjects, Ripen(s)
  PROVE  Inv' /\ Rows' = Rows
PROOF
<1>1. table[s] \in Row
  BY DEF Ripen, Inv, TypeOK
<1>2. /\ \A x \in Subjects \ {s} : table'[x] = table[x]
      /\ table'[s] # NoEvent /\ table'[s].ready /\ table'[s].generation = table[s].generation
  <2>1. [table[s] EXCEPT !.ready = TRUE] \in Row
    BY <1>1 DEF Row
  <2>2. table'[s] = [table[s] EXCEPT !.ready = TRUE]
    BY DEF Ripen, Inv, TypeOK
  <2>3. \A x \in Subjects \ {s} : table'[x] = table[x]
    BY DEF Ripen, Inv, TypeOK
  <2> QED BY <1>1, <2>1, <2>2, <2>3, MarkersAssumption DEF Row
<1>3. /\ \A x \in Subjects : handed'[x] = IF x = s THEN 0 ELSE handed[x]
      /\ UNCHANGED <<written, locked, step, token, unseen>>
  BY DEF Ripen, Inv, TypeOK
<1>4. table[s] # NoEvent
  BY DEF Ripen
<1>5. WorkersWriteRows'
  BY <1>2, <1>3, <1>4 DEF Inv, WorkersWriteRows
<1>6. HandledTokensAreCurrent'
  <2> SUFFICES ASSUME NEW w \in Workers, token[w] # NoToken, token[w].handled,
                      table'[token[w].subject] # NoEvent,
                      table'[token[w].subject].generation = token[w].generation
               PROVE  token[w].subject \notin unseen
    BY <1>3 DEF HandledTokensAreCurrent, Matches
  <2>1. token[w].subject \in Subjects
    BY DEF Inv, TypeOK, Token
  <2> QED BY <1>2, <1>4, <2>1 DEF Inv, HandledTokensAreCurrent, Matches
<1>7. ReadyIsNotHanded'
  BY <1>2, <1>3 DEF Inv, ReadyIsNotHanded, IsReady
<1>8. Rows' = Rows
  BY <1>2, <1>4 DEF Rows
<1>9. NothingLost'
  BY <1>3, <1>8 DEF Inv, NothingLost
<1>10. WritersHoldLocks' /\ WritesFitSteps' /\ GenerationsAreNew' /\ DeletesAreSettled'
  BY <1>3 DEF Inv, WritersHoldLocks, WritesFitSteps, GenerationsAreNew, DeletesAreSettled
<1> QED BY <1>5, <1>6, <1>7, <1>8, <1>9, <1>10 DEF Inv

\* Every action keeps Inv.
LEMMA NextInv == Inv /\ [Next]_vars => Inv'
PROOF
<1> SUFFICES ASSUME Inv, [Next]_vars PROVE Inv'
  OBVIOUS
<1>1. TypeOK'
  BY TypeStep DEF Inv
<1>2. \A e \in Emitters : e \in Txns
  BY DEF Txns
<1>3. \A w \in Workers : w \in Txns
  BY DEF Txns
<1>4. ASSUME NEW e \in Emitters, Begin(e) PROVE Inv'
  BY <1>1, <1>2, <1>4, QuietStep DEF Begin
<1>5. ASSUME NEW e \in Emitters, Upsert(e) \/ CommitEmitter(e) PROVE Inv'
  BY <1>1, <1>5, UpsertStep, CommitEmitterStep
<1>6. ASSUME NEW e \in Emitters, RollbackEmitter(e) PROVE Inv'
  BY <1>1, <1>2, <1>6, RollbackStep DEF RollbackEmitter
<1>7. ASSUME NEW w \in Workers, FetchSnapshot(w) \/ Forget(w) PROVE Inv'
  BY <1>1, <1>3, <1>7, QuietStep DEF FetchSnapshot, Forget
<1>8. ASSUME NEW w \in Workers, FetchChoose(w) \/ FetchCommit(w) \/ Handle(w) PROVE Inv'
  BY <1>1, <1>8, FetchChooseStep, FetchCommitStep, HandleStep
<1>9. ASSUME NEW w \in Workers, AckDelete(w) \/ AckCommit(w) PROVE Inv'
  BY <1>1, <1>9, AckDeleteStep, AckCommitStep
<1>10. ASSUME NEW w \in Workers, RollbackWorker(w) PROVE Inv'
  BY <1>1, <1>3, <1>10, RollbackStep DEF RollbackWorker
<1>11. ASSUME NEW s \in Subjects, Ripen(s) PROVE Inv'
  BY <1>1, <1>11, RipenStep
<1>12. CASE UNCHANGED vars
  BY <1>12 DEF vars, Inv, TypeOK, WritersHoldLocks, WritesFitSteps, WorkersWriteRows,
     GenerationsAreNew, HandledTokensAreCurrent, Matches, ReadyIsNotHanded, IsReady,
     DeletesAreSettled, NothingLost, Rows
<1> QED BY <1>4, <1>5, <1>6, <1>7, <1>8, <1>9, <1>10, <1>11, <1>12
           DEF Next, Emit, Work, Rollback

\* Inv holds in every reachable state.
LEMMA InvHolds == Spec => []Inv
BY InitInv, NextInv, PTL DEF Spec
----------------------------------------------------------------------------
\* The variables keep their types in every interleaving of the transactions.
THEOREM TypeCorrect == Spec => []TypeOK
BY InvHolds, PTL DEF Inv

\* What a committed transaction announced and nobody has processed since has a
\* committed row, whatever the fetches and acknowledgements in between.
THEOREM DeliveryCorrect == Spec => []NothingLost
BY InvHolds, PTL DEF Inv

\* No acknowledgement in progress is about to delete news: the lock it holds
\* keeps add_event out between the comparison of the generation and the commit.
THEOREM DeletesCorrect == Spec => []DeletesAreSettled
BY InvHolds, PTL DEF Inv

\* Two overlapping fetches never hand out the same event before its back-off
\* has passed, however many workers there are.
THEOREM FetchedOnce == Spec => []NoDoubleFetch
PROOF
<1>1. Inv => NoDoubleFetch
  BY DEF Inv, ReadyIsNotHanded, NoDoubleFetch
<1> QED BY <1>1, InvHolds, PTL
----------------------------------------------------------------------------
\* A step of a transaction is a step of AtLeastOnce or invisible to it.
LEMMA NextRefines == Inv /\ [Next]_vars => [ALO!ALONext]_ALO!aloVars
PROOF
<1> SUFFICES ASSUME Inv, [Next]_vars
             PROVE  ALO!ALONext \/ UNCHANGED <<unseen, Rows>>
  BY DEF ALO!aloVars
<1>1. TypeOK'
  BY TypeStep DEF Inv
<1>2. ASSUME table' = table PROVE Rows' = Rows
  BY <1>2 DEF Rows
<1>3. ASSUME NEW e \in Emitters, Begin(e) \/ Upsert(e) \/ RollbackEmitter(e)
      PROVE  UNCHANGED <<unseen, Rows>>
  BY <1>2, <1>3 DEF Begin, Upsert, RollbackEmitter
<1>4. ASSUME NEW e \in Emitters, CommitEmitter(e)
      PROVE  ALO!ALONext
  <2>1. e \in Txns
    BY DEF Txns
  <2>2. \A s \in Subjects :
          table'[s] = IF written[e][s] # Unwritten THEN written[e][s] ELSE table[s]
    BY <1>4, <2>1, Published DEF CommitEmitter, Inv
  <2>3. \A s \in Subjects : written[e][s] # NoEvent
    BY DEF Inv, WritesFitSteps
  <2>4. Rows' = Rows \cup WrittenBy(e)
    BY <2>2, <2>3 DEF Rows, WrittenBy
  <2>5. ALO!Announce(WrittenBy(e)) /\ WrittenBy(e) \in SUBSET Subjects
    BY <1>4, <2>4 DEF CommitEmitter, ALO!Announce, WrittenBy
  <2> QED BY <2>5 DEF ALO!ALONext
<1>5. ASSUME NEW w \in Workers,
             FetchSnapshot(w) \/ FetchChoose(w) \/ Forget(w) \/ AckDelete(w) \/ RollbackWorker(w)
      PROVE  UNCHANGED <<unseen, Rows>>
  BY <1>2, <1>5 DEF FetchSnapshot, FetchChoose, Forget, AckDelete, RollbackWorker
<1>6. ASSUME NEW w \in Workers, FetchCommit(w) PROVE UNCHANGED <<unseen, Rows>>
  BY <1>1, <1>6, FetchCommitStep DEF FetchCommit
<1>7. ASSUME NEW w \in Workers, Handle(w) PROVE ALO!ALONext
  <2>1. token[w].subject \in Subjects
    BY <1>7 DEF Handle, Inv, TypeOK, Token
  <2>2. ALO!Consume(token[w].subject)
    BY <1>2, <1>7 DEF Handle, ALO!Consume
  <2> QED BY <2>1, <2>2 DEF ALO!ALONext
<1>8. ASSUME NEW w \in Workers, AckCommit(w)
      PROVE  ALO!ALONext \/ UNCHANGED <<unseen, Rows>>
  <2>1. unseen' = unseen
    BY <1>8 DEF AckCommit
  <2>2. ASSUME NEW s \in Rows \ unseen, Rows' = Rows \ {s} PROVE ALO!ALONext
    BY <2>1, <2>2 DEF ALO!ALONext, ALO!Retire, Rows
  <2> QED BY <1>1, <1>8, <2>1, <2>2, AckCommitStep
<1>9. ASSUME NEW s \in Subjects, Ripen(s) PROVE UNCHANGED <<unseen, Rows>>
  BY <1>1, <1>9, RipenStep DEF Ripen
<1>10. CASE UNCHANGED vars
  BY <1>2, <1>10 DEF vars
<1> QED BY <1>3, <1>4, <1>5, <1>6, <1>7, <1>8, <1>9, <1>10 DEF Next, Emit, Work, Rollback

\* The transactions, interleaved and rolled back at will, implement the
\* at-least-once promise.
THEOREM TxnImplementsAtLeastOnce == Spec => ImplementsAtLeastOnce
PROOF
<1>1. Init => ALO!ALOInit
  BY DEF Init, ALO!ALOInit, Rows
<1> QED BY <1>1, NextRefines, InvHolds, PTL DEF Spec, ImplementsAtLeastOnce, ALO!ALOSpec
==============================================================================
