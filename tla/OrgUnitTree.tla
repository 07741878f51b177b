---------------------------- MODULE OrgUnitTree ------------------------------
(***************************************************************************)
(* The tree of organisation units: OrgUnitRequestHandler (mora/service/    *)
(* orgunit.py), the validators of moves and terminations (mora/service/    *)
(* validation/validator.py, mora/graphapi/org_unit.py) and what the store  *)
(* does with the payloads they compute.                                    *)
(*                                                                         *)
(* Validity is a set of days, the last of which lasts for ever.  A handler *)
(* validates against what is committed and computes a payload from it,     *)
(* and the payload is stored later: requests of different clients          *)
(* interleave between the two.  Names, types, levels and roles are left    *)
(* out; so is the query parameter that skips the validators.               *)
(***************************************************************************)
EXTENDS Naturals, FiniteSets

CONSTANTS
  Units,      \* organisation units
  Root,       \* the organisation, at the root
  NoParent,   \* the unit has no parent that day
  Clients,    \* concurrent requests
  NoPayload,  \* the client's request has not been validated
  Horizon,    \* the last day, which lasts for ever
  Starts,     \* the days at which changes may start
  Recreate    \* whether a create may carry the UUID of an existing unit

Days == 0 .. Horizon
Places == Units \cup {Root}

Payload == [kind: {"create", "move", "rename", "terminate"}, unit: Units,
            start: Days, on: SUBSET Days, off: SUBSET Days,
            parent: [Days -> Places \cup {NoParent}]]

ASSUME TreeAssumption ==
  /\ Horizon \in Nat /\ Starts \subseteq Days /\ Recreate \in BOOLEAN
  /\ Root \notin Units /\ NoParent \notin Places /\ NoPayload \notin Payload

VARIABLES
  active,  \* the days on which each unit is active (organisationenhedgyldighed)
  parent,  \* its parent each day (overordnet)
  pending  \* the payload that each client has computed and not yet stored

vars == <<active, parent, pending>>

Nowhere == [d \in Days |-> NoParent]
Exists(u) == parent[u] # Nowhere

TypeOK ==
  /\ active \in [Units -> SUBSET Days]
  /\ parent \in [Units -> [Days -> Places \cup {NoParent}]]
  /\ pending \in [Clients -> Payload \cup {NoPayload}]
  /\ \A u \in Units : active[u] # {} => Exists(u)

Init ==
  /\ active = [u \in Units |-> {}]
  /\ parent = [u \in Units |-> Nowhere]
  /\ pending = [c \in Clients |-> NoPayload]

----------------------------------------------------------------------------
\* is_date_range_in_org_unit_range
CoveredBy(p, days) == days \subseteq IF p = Root THEN Days ELSE active[p]

\* Whether the walk from p up the tree on day d, with the parents par, meets
\* units that are active, by act, and not u, and ends at the root.  What it can
\* start from is the least set with the root that is closed under such children.
Walk(act, par, u, p, d) ==
  \A R \in SUBSET Places :
    (/\ Root \in R
     /\ \A x \in Units \ {u} : d \in act[x] /\ par[x][d] \in R => x \in R) => p \in R

\* Faulty variant of ReachesRoot: the moved unit is not among those seen.
ReachesRootUnseen(u, p, d) == Walk(active, parent, Root, p, d)

\* is_candidate_parent_valid
ReachesRoot(u, p, d) == Walk(active, parent, u, p, d)

Place(p, days) == [d \in Days |-> IF d \in days THEN p ELSE NoParent]

Submit(c, payload) ==
  /\ pending[c] = NoPayload
  /\ pending' = [pending EXCEPT ![c] = payload]
  /\ UNCHANGED <<active, parent>>

\* prepare_create.  A request may bring the UUID of a unit that exists.
PrepareCreate(c, u, p, from, to) ==
  /\ Exists(u) => Recreate
  /\ CoveredBy(p, from .. to)
  /\ Submit(c, [kind |-> "create", unit |-> u, start |-> from, on |-> from .. to,
                off |-> Days, parent |-> Place(p, from .. to)])

\* prepare_edit with a parent.
PrepareMove(c, u, p, from, to) ==
  /\ Exists(u)
  /\ CoveredBy(p, from .. to)
  /\ ReachesRoot(u, p, from)
  /\ Submit(c, [kind |-> "move", unit |-> u, start |-> from, on |-> from .. to,
                off |-> {}, parent |-> Place(p, from .. to)])

Placed(u) == {d \in Days : parent[u][d] # NoParent}

\* The first and the last period of u's parent relation.
First(u) == CHOOSE d \in Placed(u) : \A e \in Placed(u) : d =< e
Final(u) == CHOOSE d \in Placed(u) : \A e \in Placed(u) : e =< d
FirstRow(u) == {d \in First(u) .. Horizon : \A e \in First(u) .. d : parent[u][e] = parent[u][First(u)]}
LastRow(u) == {d \in 0 .. Final(u) : \A e \in d .. Final(u) : parent[u][e] = parent[u][Final(u)]}

\* Faulty variant of EnsureBounds: all that the edit covers gets the first parent.
EnsureBoundsFirst(u, from, to) ==
  [d \in Days |-> IF d \in from .. to THEN parent[u][First(u)] ELSE NoParent]

\* ensure_bounds: the first period begins, and the last one ends, where the
\* edit does, if that is wider.  The payload holds the periods that it moves.
EnsureBounds(u, from, to) ==
  [d \in Days |->
     IF from < First(u) /\ d \in (from .. First(u)) \cup FirstRow(u) THEN parent[u][First(u)]
     ELSE IF Final(u) < to /\ d \in LastRow(u) \cup (Final(u) .. to) THEN parent[u][Final(u)]
     ELSE NoParent]

\* prepare_edit without a parent.
PrepareRename(c, u, from, to) ==
  /\ Exists(u)
  /\ Submit(c, [kind |-> "rename", unit |-> u, start |-> from, on |-> from .. to,
                off |-> {}, parent |-> EnsureBounds(u, from, to)])

\* Faulty variant of Children: those that are active for ever.
ChildrenForEver(u, d) == {x \in Units : Days \subseteq active[x] /\ parent[x][d] = u}

Children(u, d) == {x \in Units : d \in active[x] /\ parent[x][d] = u}

\* terminate_org_unit_validation, for the first day only, and prepare_terminate.
PrepareTerminate(c, u, from, to) ==
  /\ from \in active[u]
  /\ Children(u, from) = {}
  /\ Submit(c, [kind |-> "terminate", unit |-> u, start |-> from, on |-> {},
                off |-> from .. to, parent |-> Nowhere])

\* Faulty variant of Merged: what the payload leaves out is cleared.
MergedPayloadOnly(payload) == payload.parent

\* as_create_or_import_* replaces the whole unit; as_update_* reads it again
\* under its lock and overwrites what the payload covers.
Merged(payload) ==
  IF payload.kind = "create" THEN payload.parent
  ELSE [d \in Days |->
          IF payload.parent[d] = NoParent THEN parent[payload.unit][d] ELSE payload.parent[d]]

Store(c) ==
  /\ pending[c] # NoPayload
  /\ LET p == pending[c]
     IN  /\ active' = [active EXCEPT ![p.unit] = (@ \ p.off) \cup p.on]
         /\ parent' = [parent EXCEPT ![p.unit] = Merged(p)]
  /\ pending' = [pending EXCEPT ![c] = NoPayload]

\* The request is refused or fails after all: another validator, a role that
\* is still active, a trigger, another part of the request.
Abandon(c) ==
  /\ pending[c] # NoPayload
  /\ pending' = [pending EXCEPT ![c] = NoPayload]
  /\ UNCHANGED <<active, parent>>

Prepare(c, u, from, to) ==
  \/ \E p \in Places : PrepareCreate(c, u, p, from, to) \/ PrepareMove(c, u, p, from, to)
  \/ PrepareRename(c, u, from, to)
  \/ PrepareTerminate(c, u, from, to)

Next ==
  \E c \in Clients :
    \/ \E u \in Units, from \in Starts : \E to \in from .. Horizon : Prepare(c, u, from, to)
    \/ Store(c) \/ Abandon(c)

Spec == Init /\ [][Next]_vars
----------------------------------------------------------------------------
\* "Verify that we cannot create cycles when moving organisational units"
\* (tests/test_integration_org_unit.py): on no day is a set of units closed
\* under parents.
Cyclic(S, d) == S # {} /\ \A x \in S : parent[x][d] \in S
NoCycles == \A d \in Days, S \in SUBSET Units : ~Cyclic(S, d)

\* Whose payload a step stores.
Stores(c, kinds) ==
  /\ pending[c] # NoPayload /\ pending[c].kind \in kinds
  /\ pending' = [pending EXCEPT ![c] = NoPayload]
  /\ <<active, parent>>' # <<active, parent>>

\* An edit that does not name a parent moves nobody, on any day.
ParentKept ==
  [][\A c \in Clients : Stores(c, {"rename", "terminate"}) =>
       \A u \in Units : \A d \in Placed(u) : parent'[u][d] = parent[u][d]]_vars

\* A move that is stored leaves the unit under the root on its first day,
\* below active units only.
MovesReachRoot ==
  [][\A c \in Clients : Stores(c, {"move"}) =>
       Walk(active', parent', Root, pending[c].unit, pending[c].start)]_vars

\* What the checks of a request promise, on the days they look at: a unit that
\* hangs in the tree, under the root and below active units only, hangs in it
\* when the change is stored, wherever in the tree the change was, if it is
\* still active.  Terminations and moves look at their first day only (mora/
\* graphapi/org_unit.py), and a create that brings the UUID of an existing unit
\* does not ask for the units below.
StaysInTree ==
  [][\A c \in Clients : Stores(c, {"create", "move", "rename", "terminate"}) =>
       LET p == pending[c]
       IN  \A x \in Units, d \in Days :
             /\ Walk(active, parent, Root, x, d) /\ d \in active'[x]
             /\ p.kind \in {"move", "terminate"} => d =< p.start
             /\ p.kind = "create" => ~Exists(p.unit)
             => Walk(active', parent', Root, x, d)]_vars
==============================================================================
