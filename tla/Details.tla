------------------------------- MODULE Details -------------------------------
(***************************************************************************)
(* The life of one object: created, edited, terminated for periods of time *)
(* and deleted.  What update_payload, ensure_bounds and _merge_obj_effects *)
(* (mora/common.py) compute from the object as it was read, what the       *)
(* database makes of it when it is stored later, and how the object is cut *)
(* into periods and read back.                                             *)
(*                                                                         *)
(* What is written of a relation does not depend on the rows of another,   *)
(* so a behaviour follows one of them; the state is one more.  A row of it *)
(* holds from its first to its last day; the last day of the calendar      *)
(* stands for ever.  A request that is refused has no effect.              *)
(***************************************************************************)
EXTENDS DetailHandlers, DetailLinks, Integers, FiniteSets

CONSTANTS
  Horizon,   \* the last day, which lasts for ever
  Targets,   \* objects that a field may refer to
  Empty,     \* the reference of a row that was cleared, or to the organisation
  Clients,   \* concurrent requests, or the entries of one list of requests
  Contested, \* roles and relations that several clients edit at once: a bound
  RowCap,    \* rows of a detail that is edited further: a bound
  NoRequest  \* the client has nothing to store

Days == 0 .. Horizon

\* What the rows of the state say.
Gyldighed == {"Aktiv", "Inaktiv"}

Types ==
  {Plain, "engagement", "it", "lederansvar", "lederniveau", "synlighed", "tidsregistrering"}
Row == [from: Days, to: Days, of: Types, target: Targets \cup Gyldighed \cup {Empty}]

ASSUME DetailAssumption ==
  Horizon \in Nat /\ Empty \notin Targets \cup Gyldighed /\ IsFiniteSet(Targets)

Relations(kind) == {Create[kind][f].relation : f \in DOMAIN Create[kind]}

VARIABLES
  role,      \* the kind of object
  relation,  \* the relation that is followed
  rows,      \* its rows in the registration in force
  deleted,   \* the registration in force is a deletion
  pending    \* the request that each client has prepared and not yet stored

vars == <<role, relation, rows, deleted, pending>>

Fields == {f \in DOMAIN Create[role] : Create[role][f].relation = relation}

\* What a request asks for: the references for some of the fields.  Creations
\* and edits make the object active on their days.
Wish ==
  IF relation = "gyldighed" THEN {[state |-> {"Aktiv"}]}
  ELSE UNION {[S -> SUBSET Targets] : S \in SUBSET Fields}

Kinds == {"create", "update", "terminate", "vacate"}

\* No request looks like none.
Wishes ==
  UNION {[S -> SUBSET (Targets \cup Gyldighed)] : S \in UNION {SUBSET DOMAIN Create[k] : k \in Roles}}
ASSUME RequestAssumption ==
  NoRequest \notin
    [kind: Kinds, wish: Wishes, from: Days, to: Days, payload: SUBSET Row, fresh: BOOLEAN]

TypeOK ==
  /\ role \in Roles /\ relation \in Relations(role)
  /\ rows \subseteq Row /\ \A r \in rows : r.from =< r.to
  /\ deleted \in BOOLEAN
  /\ \A c \in Clients : pending[c] # NoRequest =>
       /\ pending[c].kind \in Kinds /\ DOMAIN pending[c].wish \subseteq Fields
       /\ pending[c].payload \subseteq Row /\ \A r \in pending[c].payload : r.from =< r.to
----------------------------------------------------------------------------
Least(a, b) == IF a =< b THEN a ELSE b
Greatest(a, b) == IF a >= b THEN a ELSE b

\* The rows of a field tuple.
Of(R, tuple) == {r \in R : tuple.of \in {AnyType, r.of}}

On(R, d) == {r \in R : r.from =< d /\ d =< r.to}

\* get_effects: the days on which a new period begins.
Cuts(R) ==
  IF relation \in Relevant[role] THEN {r.from : r \in R} \cup {r.to + 1 : r \in R} ELSE {}

\* The days without a cut between them and a day.
Period(R, d) == LET cuts == Cuts(R) IN {e \in Days : \A x \in cuts : x =< d <=> x =< e}

\* The rows that overlap the period of a day.
Effect(R, d) == LET period == Period(R, d) IN {r \in R : \E e \in period : r.from =< e /\ e =< r.to}

\* What the reading handlers return for a field on a day.
Reading(R, f, d) == {r.target : r \in Of(Effect(R, d), Reads[role][f])} \ {Empty}

Alike(r, s) == r.of = s.of /\ r.target = s.target

\* _consolidate_virkninger: rows of one value that follow on each other are read
\* as one.
Consolidated(R) ==
  LET Follows(r, s) == Alike(r, s) /\ s.from = r.to + 1
      Run(r, s) ==
        /\ Alike(r, s) /\ r.from =< s.from
        /\ \A d \in r.from .. s.to : \E x \in On(R, d) : Alike(r, x)
        /\ \A x \in R : ~Follows(x, r) /\ ~Follows(s, x)
  IN  {[p[1] EXCEPT !.to = p[2].to] : p \in {q \in R \X R : Run(q[1], q[2])}}
----------------------------------------------------------------------------
\* Faulty variant of Outside: nothing is kept of what continues afterwards.
OutsideBefore(R, from, to) ==
  {[r EXCEPT !.to = Least(@, from - 1)] : r \in {x \in R : x.from < from}}

\* Faulty variant of Outside: what begins before is not cut off.
OutsideUncut(R, from, to) ==
  {r \in R : r.from < from}
    \cup {[r EXCEPT !.from = Greatest(@, to + 1)] : r \in {x \in R : to < x.to}}

\* Faulty variant of Outside: a row that begins with the period begins before it.
OutsideClosed(R, from, to) ==
  {[r EXCEPT !.to = Least(@, from - 1)] : r \in {x \in R : x.from =< from}}
    \cup {[r EXCEPT !.from = Greatest(@, to + 1)] : r \in {x \in R : to < x.to}}

\* What of the rows lies before or after a period.
Outside(R, from, to) ==
  {[r EXCEPT !.to = Least(@, from - 1)] : r \in {x \in R : x.from < from}}
    \cup {[r EXCEPT !.from = Greatest(@, to + 1)] : r \in {x \in R : to < x.to}}

\* The rows that sort first and last by their first day, in some order of equals.
Ends(R) ==
  IF R = {} THEN {<<>>}
  ELSE {e \in R \X R : /\ \A x \in R : e[1].from =< x.from /\ x.from =< e[2].from
                       /\ e[1] = e[2] => R = {e[1]}}

Moved(r, e, from, to) ==
  [r EXCEPT !.from = IF r = e[1] THEN Least(@, from) ELSE @,
            !.to = IF r = e[2] THEN Greatest(@, to) ELSE @]

\* ensure_bounds: a field that is not named lasts as long as the edit.  The
\* list of an adapted field is sent as a whole if one of its ends moved.
EnsureBounds(R, type, e, from, to) ==
  LET moving == {r \in R : Moved(r, e, from, to) # r}
  IN  CASE type = "many" -> R
        [] type = "one" -> {Moved(r, e, from, to) : r \in moving}
        [] type = "adapted" ->
             IF moving = {} THEN {} ELSE {Moved(r, e, from, to) : r \in R}
----------------------------------------------------------------------------
NewRow(from, to, of, target) == [from |-> from, to |-> to, of |-> of, target |-> target]

\* The rows for a named field; null clears it.
NewRows(f, targets, from, to) ==
  IF targets = {} THEN {NewRow(from, to, IF f = "manager_level" THEN Edit[role][f].of ELSE Plain,
                               Empty)}
  ELSE {NewRow(from, to, Edit[role][f].of, t) : t \in targets}

\* Units and classes without a parent are given an empty one, or the organisation.
CreateRows(w, from, to) ==
  UNION {{NewRow(from, to, Create[role][f].of, t) :
            t \in IF f = "parent" /\ w[f] = {} THEN {Empty} ELSE w[f]} : f \in DOMAIN w}

\* to_handler_dict: some fields are sent as null when they are left out.
Sent(w) ==
  [f \in DOMAIN w \cup (Fields \cap Update[role].always) |-> IF f \in DOMAIN w THEN w[f] ELSE {}]

\* Of the fields that are sent, those that the handler looks at.
Edited(w) == [f \in DOMAIN Sent(w) \cap DOMAIN Edit[role] |-> Sent(w)[f]]

\* The manager's level and responsibilities are always written: for the one
\* that is not named, what the object has at any time, as if it was named.
ManagerTasks == role = "manager" /\ relation = "opgaver"

TargetsOf(R, tuple) == {r.target : r \in Of(R, tuple)} \ {Empty}

Completed(R, w) ==
  IF ~ManagerTasks THEN {Edited(w)}
  ELSE LET kept == TargetsOf(R, RESPONSIBILITY_FIELD)
           responsibility == IF "responsibility" \in DOMAIN w THEN w["responsibility"] ELSE kept
           levels == IF "manager_level" \in DOMAIN w THEN {w["manager_level"]}
                     ELSE IF TargetsOf(R, MANAGER_LEVEL_FIELD) = {} THEN {{}}
                     ELSE {{t} : t \in TargetsOf(R, MANAGER_LEVEL_FIELD)}
       IN  {[f \in {"manager_level"} \cup (IF responsibility = {} THEN {} ELSE {"responsibility"}) |->
               IF f = "manager_level" THEN level ELSE responsibility] : level \in levels}

\* is_distinct_responsibility
Distinct(R, w) ==
  ManagerTasks /\ "responsibility" \notin DOMAIN w =>
    \A r, s \in Of(R, RESPONSIBILITY_FIELD) : r.target = s.target => r = s

Written(w) == {Edit[role][f].tuple : f \in DOMAIN w}
Unwritten(w) == {t \in Bounds[role] \ Written(w) : t.relation = relation}

\* update_payload for the fields that are written, ensure_bounds for the rest.
Payload(R, w, e, from, to) ==
  LET New(t) == UNION {NewRows(f, w[f], from, to) : f \in {g \in DOMAIN w : Edit[role][g].tuple = t}}
  IN  (UNION {IF t.type = "adapted" THEN New(t) \cup Outside(Of(R, t), from, to) ELSE New(t) :
               t \in Written(w)})
        \cup (UNION {EnsureBounds(Of(R, t), t.type, e, from, to) : t \in Unwritten(w)})

\* as_update_organisationfunktion: of a zero-to-one relation the rows that the
\* payload does not cover are kept; a list is replaced if the payload has one.
Merged(R, payload) ==
  IF payload = {} THEN R
  ELSE IF relation \notin NulTilEn THEN payload
  ELSE LET e == CHOOSE x \in Ends(payload) : TRUE
       IN  payload \cup Outside(Outside(R, e[1].from, e[1].to), e[2].from, e[2].to)
----------------------------------------------------------------------------
\* References that a field can be given: one, or several, or, where null is
\* understood, none.
Allowed(w, nullable) ==
  \A f \in DOMAIN w :
    /\ w[f] = {} => f \in nullable
    /\ <<role, f>> \notin Multiple => Cardinality(w[f]) =< 1

Request(kind, w, from, to, payload) ==
  [kind |-> kind, wish |-> w, from |-> from, to |-> to, payload |-> payload, fresh |-> TRUE]

\* prepare_create: nobody can edit the object before it is stored.
Init ==
  \E kind \in Roles : \E n \in Relations(kind), c \in Clients :
    /\ role = kind /\ relation = n /\ rows = {} /\ deleted = FALSE
    /\ \E from \in Days : \E to \in from .. Horizon, w \in Wish :
         /\ DOMAIN w = Fields /\ Allowed(w, Fields \ Needs[role])
         /\ pending = [x \in Clients |->
              IF x = c THEN Request("create", w, from, to, CreateRows(w, from, to))
              ELSE NoRequest]

\* One client at a time, except for what is contested.  An object that was deleted
\* is not found, but classes, facets and IT systems are edited without being read.
MayPrepare(c) ==
  /\ pending[c] = NoRequest
  /\ deleted => role \in {"class", "facet", "itsystem"}
  /\ Cardinality(rows) =< RowCap
  /\ \A x \in Clients :
       pending[x] # NoRequest => <<role, relation>> \in Contested /\ pending[x].kind # "create"

\* prepare_edit: the object is read and the payload computed.
Prepare(c) ==
  /\ MayPrepare(c) /\ "update" \in Mutations[role]
  /\ \E read \in {Consolidated(rows)}, w \in Wish :
       /\ DOMAIN w \subseteq Update[role].offers \cup {"state"}
       /\ Update[role].required \cap Fields \subseteq DOMAIN w
       /\ Allowed(w, Update[role].nullable)
       /\ Distinct(read, w)
       /\ \E done \in Completed(read, w) :
          \E e \in Ends(UNION {Of(read, t) : t \in Unwritten(done)}) :
          \E from \in Days : \E to \in from .. Horizon :
            pending' = [pending EXCEPT ![c] =
              Request("update", w, from, to, Payload(read, done, e, from, to))]
  /\ UNCHANGED <<role, relation, rows, deleted>>

\* prepare_terminate: the object is inactive for a period, or from a day on.
Terminate(c) ==
  /\ MayPrepare(c) /\ "terminate" \in Mutations[role] /\ relation = "gyldighed"
  /\ \E from \in Days : \E to \in from .. Horizon :
       pending' = [pending EXCEPT ![c] =
         Request("terminate", [state |-> {"Inaktiv"}], from, to,
                 {NewRow(from, to, Plain, "Inaktiv")})]
  /\ UNCHANGED <<role, relation, rows, deleted>>

\* prepare_terminate with vacate, when an employee is terminated: its managers
\* and associations lose the person instead.  Only what holds on the first day
\* is read, and the list is sent.
Vacate(c) ==
  /\ MayPrepare(c) /\ role \in {"manager", "association"} /\ relation = "tilknyttedebrugere"
  /\ \E from \in Days :
       /\ TargetsOf(On(rows, from), USER_FIELD) # {}
       /\ pending' = [pending EXCEPT ![c] =
            Request("vacate", [person |-> {}], from, Horizon,
                    {NewRow(from, Horizon, Plain, Empty)}
                      \cup Outside(On(Consolidated(rows), from), from, Horizon))]
  /\ UNCHANGED <<role, relation, rows, deleted>>

\* What the others have prepared is stale.
Stale(c) ==
  [x \in Clients |->
     IF x = c \/ pending[x] = NoRequest THEN NoRequest ELSE [pending[x] EXCEPT !.fresh = FALSE]]

\* submit: the payload is stored.  A list of requests is prepared before the first
\* of it is stored (generate_requests, submit_requests).  An object that has been
\* deleted since comes back with what was changed.
Store(c) ==
  /\ pending[c] # NoRequest
  /\ rows' = Merged(rows, pending[c].payload)
  /\ deleted' = FALSE
  /\ pending' = Stale(c)
  /\ UNCHANGED <<role, relation>>

\* delete: the registration in force has no rows.
Delete(c) ==
  /\ MayPrepare(c) /\ "delete" \in Mutations[role] /\ ~deleted
  /\ rows' = {} /\ deleted' = TRUE
  /\ pending' = Stale(c)
  /\ UNCHANGED <<role, relation>>

Next ==
  \E c \in Clients : Prepare(c) \/ Terminate(c) \/ Vacate(c) \/ Store(c) \/ Delete(c)

Spec == Init /\ [][Next]_vars
----------------------------------------------------------------------------
\* The readers take the first reference they find, and some refuse several: a
\* field that holds one reference holds no second one on any day, whatever
\* overlapping edits the clients have stored, and in which order.
OneReference ==
  \A f \in Fields, d \in Days :
    <<role, f>> \notin Multiple => Cardinality(Reading(rows, f, d)) =< 1

Stored(c) == pending[c] # NoRequest /\ pending'[c] = NoRequest

\* Requests whose effect is what was asked.  The others: a payload that was
\* computed before another was stored, for a relation that is a list; a field
\* that the handler ignores (a person of an engagement); a real zero-to-many
\* field (a trade union, a unit's hierarchy, the IT system of a class); one of
\* two fields that share a relation (an engagement or an IT user of an address,
\* a level or responsibilities of a manager); several references that are not
\* named when an end moves; and vacating a detail that had somebody else before.
Regular(q) ==
  \/ q.kind \in {"create", "terminate"}
  \/ q.kind = "vacate" /\ q.fresh /\ \A r \in Consolidated(rows) : r.to >= q.from
  \/ /\ q.kind = "update"
     /\ q.fresh \/ (relation \in NulTilEn /\ q.wish # <<>>)
     /\ DOMAIN q.wish \subseteq DOMAIN Edit[role]
     /\ \A f \in DOMAIN q.wish : Edit[role][f].tuple.type # "many"
     /\ DOMAIN q.wish \in {{}, Fields}
     /\ DOMAIN Sent(q.wish) = {} =>
          ~ManagerTasks /\ \A d \in Days : Cardinality(On(rows, d)) =< 1

\* A request changes what it names, on its own days, to what it names, and
\* nothing else: other fields and other days read as before, wherever they had
\* a value, also when the request was prepared before another was stored.
EditsAreLocal ==
  [][\A c \in Clients : Stored(c) /\ Regular(pending[c]) =>
       LET q == pending[c]
           sent == IF q.kind = "update" THEN Sent(q.wish) ELSE q.wish
       IN  \A f \in Fields, d \in Days :
             IF f \in DOMAIN sent /\ d \in q.from .. q.to
             THEN Reading(rows', f, d) = sent[f]
             ELSE On(rows, d) # {} => Reading(rows', f, d) = Reading(rows, f, d)]_vars

\* The day lies in a gap between two rows.
InGap(d) == \E r, s \in rows : r.to < d /\ d < s.from

\* An edit makes an object active on days that are new to it, and there too it
\* has what no such object can be without: the fields that a creation must name
\* have a value on each day of the edit, except where it was vacated and in a gap
\* that edits for earlier and later days have left, or when it was deleted.
EditsComplete ==
  [][\A c \in Clients :
       /\ Stored(c) /\ pending[c].kind \in {"create", "update"} /\ pending[c].fresh
       /\ ~deleted /\ \A r \in rows : r.target # Empty
       => \A f \in Fields \cap Needs[role], d \in pending[c].from .. pending[c].to :
            Reading(rows', f, d) # {} \/ InGap(d)]_vars

\* An edit that was prepared before a deletion brings back what it changes, and no
\* more.  Where an object can be deleted, what it needs is not contested: a bound.
DeletedAlone ==
  \A k \in Roles : "delete" \in Mutations[k] =>
    \A f \in Needs[k] \cap DOMAIN Create[k] : <<k, Create[k][f].relation>> \notin Contested
==============================================================================
