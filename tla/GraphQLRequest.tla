--------------------------- MODULE GraphQLRequest ----------------------------
(***************************************************************************)
(* One database transaction for each GraphQL request: transaction_per_     *)
(* request (mora/db/__init__.py), RollbackOnError (mora/graphapi/          *)
(* schema.py), and what an update does when it changes nothing: PostgreSQL *)
(* raises, which aborts the transaction, and update_object (oio_rest/db/   *)
(* __init__.py) or lora_to_mo_exception (mora/lora.py) answers as if it    *)
(* had succeeded.                                                          *)
(*                                                                         *)
(* A request holds several sub-mutations: as fields of one mutation, which *)
(* GraphQL executes one after the other, or as the elements of a list      *)
(* mutator like engagements_update, which asyncio.gather interleaves.      *)
(* Each reads, may be rejected by a validator, writes, and its selection   *)
(* set may read again.  AsyncSessionWithLock makes a statement atomic.     *)
(***************************************************************************)
EXTENDS Naturals, FiniteSets, Sequences, SequencesExt

CONSTANTS
  Mutations,  \* the sub-mutations of a request
  AccessLog   \* settings.access_log_enable: reads are logged in the transaction

ASSUME MutationsAssumption == IsFiniteSet(Mutations)
ASSUME AccessLogAssumption == AccessLog \in BOOLEAN

\* What a sub-mutation meets: it changes something, changes nothing, is
\* rejected by a validator, or is refused by the database.
Outcome == {"change", "noop", "reject", "dberror"}
Step == {"absent", "waiting", "read", "written", "done", "failed"}

VARIABLES
  phase,     \* idle, running, or closing once the operation is answered
  listed,    \* whether the sub-mutations are elements of a list
  exempt,    \* whether the client is one of access_log_no_log_uuids
  selects,   \* whether their selection sets read the database
  order,     \* the order of the fields
  outcome,   \* of each sub-mutation
  step,      \* of each sub-mutation
  tx,        \* the transaction: open, aborted (by an error) or closed
  changes,   \* sub-mutations whose change is in the transaction
  logged,    \* the session holds access log entries not yet flushed
  answer,    \* what the client was told of the last request
  stored     \* sub-mutations of the last request whose change was committed

vars == <<phase, listed, exempt, selects, order, outcome, step, tx, changes,
          logged, answer, stored>>

TypeOK ==
  /\ phase \in {"idle", "running", "closing"}
  /\ listed \in BOOLEAN /\ exempt \in BOOLEAN /\ selects \in BOOLEAN
  /\ order \in Seq(Mutations)
  /\ outcome \in [Mutations -> Outcome]
  /\ step \in [Mutations -> Step]
  /\ tx \in {"open", "aborted", "closed"} /\ (tx = "closed" <=> phase # "running")
  /\ changes \subseteq Mutations /\ stored \subseteq Mutations
  /\ logged \in BOOLEAN
  /\ answer \in {"none", "success", "errors", "internal error"}

Init ==
  /\ phase = "idle"
  /\ listed = FALSE /\ exempt = FALSE /\ selects = FALSE
  /\ order = <<>>
  /\ outcome = [m \in Mutations |-> "noop"]
  /\ step = [m \in Mutations |-> "absent"]
  /\ tx = "closed"
  /\ changes = {} /\ stored = {}
  /\ logged = FALSE
  /\ answer = "none"

Requested == {m \in Mutations : step[m] # "absent"}
Failed == {m \in Mutations : step[m] = "failed"}

\* A request arrives: session.begin().
Arrive(S) ==
  /\ phase = "idle"
  /\ phase' = "running"
  /\ listed' \in BOOLEAN /\ exempt' \in BOOLEAN /\ selects' \in BOOLEAN
  /\ order' \in SetToSeqs(S)
  /\ outcome' \in [Mutations -> Outcome]
  /\ step' = [m \in Mutations |-> IF m \in S THEN "waiting" ELSE "absent"]
  /\ tx' = "open"
  /\ changes' = {} /\ stored' = {}
  /\ logged' = FALSE
  /\ answer' = "none"
----------------------------------------------------------------------------
Over(m) == step[m] \in {"done", "failed"}

\* Fields take turns; the elements of a list interleave.
Turn(m) ==
  listed \/ \A i, j \in DOMAIN order : i < j /\ order[j] = m => Over(order[i])

\* object_exists and the reads of the handler and its validators, which leave
\* entries in the session for the access log, if there is one for this client.
Read(m) ==
  /\ step[m] = "waiting" /\ Turn(m)
  /\ logged' = (logged \/ (AccessLog /\ ~exempt))
  /\ step' = [step EXCEPT ![m] =
       IF tx = "open" /\ outcome[m] # "reject" THEN "read" ELSE "failed"]
  /\ UNCHANGED <<phase, listed, exempt, selects, order, outcome, tx, changes, answer, stored>>

\* The error that says that nothing changed is caught; the others are raised,
\* also "current transaction is aborted".
Tolerated(m) == tx = "open" /\ outcome[m] = "noop"

\* as_update_* and as_create_or_import_*.
Write(m) ==
  /\ step[m] = "read"
  /\ LET changed == tx = "open" /\ outcome[m] = "change"
     IN  /\ changes' = IF changed THEN changes \cup {m} ELSE changes
         /\ tx' = IF tx = "open" /\ ~changed THEN "aborted" ELSE tx
         /\ step' = [step EXCEPT ![m] =
              IF changed \/ Tolerated(m) THEN "written" ELSE "failed"]
  /\ UNCHANGED <<phase, listed, exempt, selects, order, outcome, logged, answer, stored>>

\* The selection set: the answer to a list is resolved when all are written.
Select(m) ==
  /\ step[m] = "written"
  /\ listed => \A n \in Requested : step[n] \in {"written", "done"}
  /\ step' = [step EXCEPT ![m] = IF selects /\ tx # "open" THEN "failed" ELSE "done"]
  /\ UNCHANGED <<phase, listed, exempt, selects, order, outcome, tx, changes, logged, answer, stored>>

\* The operation ends when every field is over, or, since gather passes on
\* the first exception at once, when one element of a list has failed.
Ended == IF listed /\ Failed # {} THEN TRUE ELSE \A m \in Requested : Over(m)

\* Faulty variant of RollsBack: errors are only reported.
RollsBackNever == FALSE

\* RollbackOnError
RollsBack == Failed # {}

\* Faulty variant of Commit: the access log is written after the transaction.
CommitUnflushed ==
  /\ stored' = IF tx = "open" THEN changes ELSE {}
  /\ answer' = IF Failed = {} THEN "success" ELSE "errors"

\* COMMIT: the pending access log is flushed first, which fails in an aborted
\* transaction; PostgreSQL turns the COMMIT of an aborted transaction into a
\* ROLLBACK without an error.
Commit ==
  /\ stored' = IF tx = "open" THEN changes ELSE {}
  /\ answer' = IF tx = "aborted" /\ logged THEN "internal error"
               ELSE IF Failed = {} THEN "success" ELSE "errors"

Rollback == stored' = {} /\ answer' = "errors"

\* Faulty variant of Answer: an operation with errors leaves its transaction.
AnswerLeavesOpen ==
  /\ phase = "running" /\ Ended
  /\ IF RollsBack THEN Rollback /\ UNCHANGED tx ELSE Commit /\ tx' = "closed"
  /\ changes' = {}
  /\ phase' = "closing"
  /\ UNCHANGED <<listed, exempt, selects, order, outcome, step, logged>>

\* The answer is computed, the transaction ends, and the answer is sent.
Answer ==
  /\ phase = "running" /\ Ended
  /\ IF RollsBack THEN Rollback ELSE Commit
  /\ tx' = "closed"
  /\ changes' = {}
  /\ phase' = "closing"
  /\ UNCHANGED <<listed, exempt, selects, order, outcome, step, logged>>

\* Elements of a list that are still running find the transaction closed, or
\* their session begins one that nobody commits: nothing of theirs is kept.
Close ==
  /\ phase = "closing"
  /\ \A m \in Requested : step[m] \notin {"waiting", "read"}
  /\ phase' = "idle"
  /\ UNCHANGED <<listed, exempt, selects, order, outcome, step, tx, changes, logged, answer, stored>>

\* The process or its connection dies before the transaction ends.
Crash ==
  /\ phase = "running"
  /\ step' = [m \in Mutations |-> "absent"]
  /\ tx' = "closed"
  /\ changes' = {}
  /\ phase' = "idle"
  /\ UNCHANGED <<listed, exempt, selects, order, outcome, logged, answer, stored>>
----------------------------------------------------------------------------
Next ==
  \/ \E S \in SUBSET Mutations \ {{}} : Arrive(S)
  \/ \E m \in Mutations : Read(m) \/ Write(m) \/ Select(m)
  \/ Answer \/ Close \/ Crash

Spec == Init /\ [][Next]_vars
----------------------------------------------------------------------------
\* "... allows us to call multiple mutators in a single GraphQL mutation and
\* have them be atomic" (mora/db/__init__.py): of the sub-mutations that
\* change something either all are committed or none, for fields and for
\* interleaved lists, whatever fails and whatever still runs when it does.
Atomic ==
  stored # {} => stored = {m \in Requested : outcome[m] = "change"} /\ Failed = {}

\* A client that is told of an error can send the request again: nothing of it
\* was kept.
ErrorsKeepNothing == answer \in {"errors", "internal error"} => stored = {}

\* A client that is told of success has what it asked for in the database.
SuccessIsKept ==
  answer = "success" => \A m \in Requested : outcome[m] = "change" => m \in stored

\* A client whose reads are logged is told when its changes were rolled back
\* because a later update changed nothing: the pending log entries make the
\* COMMIT of the aborted transaction fail (mora/access_log.py).
LoggedSuccessIsKept == AccessLog /\ ~exempt => SuccessIsKept
==============================================================================
