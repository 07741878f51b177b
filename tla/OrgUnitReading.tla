---------------------------- MODULE OrgUnitReading ---------------------------
(***************************************************************************)
(* Reading the tree of organisation units while it changes: the children   *)
(* of a unit page by page (paginate, mora/graphapi/paged.py), the          *)
(* ancestors and the root of a unit, and the managers that it inherits     *)
(* (mora/graphapi/resolvers.py, collections/organisation_unit.py).         *)
(*                                                                         *)
(* A page is a request of its own.  It first selects the UUIDs of the page *)
(* and then loads these objects, in statements that see what has been      *)
(* committed in between.  What is read is what holds today, the first day. *)
(***************************************************************************)
EXTENDS OrgUnitTree

CONSTANTS
  Rank,    \* the order of the units' UUIDs
  Limits,  \* the limits that a client may ask for
  Start,   \* the cursor of the first page: null
  End      \* the cursor after the last page: null

ASSUME ReadingAssumption ==
  /\ Rank \in [Units -> Nat] /\ \A u, v \in Units : Rank[u] = Rank[v] => u = v
  /\ IsFiniteSet(Units) /\ Limits \subseteq Nat \ {0}
  /\ Start \notin Units /\ End \notin Units /\ Start # End

VARIABLES
  of,        \* the unit whose children are read
  cursor,    \* the cursor that the last page came with
  page,      \* UUIDs that were selected and whose objects are not yet loaded
  returned,  \* the units that the pages so far have returned
  steady     \* those that have been children ever since the first page

readVars == <<of, cursor, page, returned, steady>>

Today == 0

ReadingTypeOK ==
  /\ of \in Places /\ cursor \in Units \cup {Start, End}
  /\ page \subseteq Units /\ returned \subseteq Units /\ steady \subseteq Units

ReadingInit ==
  /\ of = Root /\ cursor = End
  /\ page = {} /\ returned = {} /\ steady = {}
----------------------------------------------------------------------------
\* A client asks for the first page.
Begin(p) ==
  /\ cursor = End /\ page = {}
  /\ of' = p /\ cursor' = Start
  /\ returned' = {} /\ steady' = Children(p, Today)
  /\ UNCHANGED <<page, vars>>

\* Faulty variant of Beyond: the next page begins with the cursor's unit.
BeyondWithCursor(M) == IF cursor = Start THEN M ELSE {u \in M : Rank[u] >= Rank[cursor]}

Beyond(M) == IF cursor = Start THEN M ELSE {u \in M : Rank[u] > Rank[cursor]}

\* The first n of a set of units, or all of them.
IsPage(P, M, n) ==
  /\ \A u \in P, v \in M \ P : Rank[u] < Rank[v]
  /\ Cardinality(P) = IF Cardinality(M) =< n THEN Cardinality(M) ELSE n

\* paginate: one more row than the limit tells whether there is a next page.
Paginate(n) ==
  /\ cursor # End /\ page = {}
  /\ \E P \in SUBSET Beyond(Children(of, Today)) :
       /\ IsPage(P, Beyond(Children(of, Today)), n)
       /\ page' = P
       /\ IF P # {} /\ P # Beyond(Children(of, Today))
          THEN \E last \in P : (\A u \in P : Rank[u] =< Rank[last]) /\ cursor' = last
          ELSE cursor' = End
  /\ UNCHANGED <<of, returned, steady, vars>>

\* generic_resolver: objects that are no longer there are left out.
Load ==
  /\ page # {}
  /\ returned' = returned \cup {u \in page : Today \in active[u]}
  /\ page' = {}
  /\ UNCHANGED <<of, cursor, steady, vars>>

\* A step of a request that changes the tree.
Write ==
  /\ Next
  /\ steady' = {u \in steady : Today \in active'[u] /\ parent'[u][Today] = of}
  /\ UNCHANGED <<of, cursor, page, returned>>

ReadingNext == (\E p \in Places : Begin(p)) \/ (\E n \in Limits : Paginate(n)) \/ Load \/ Write

ReadingSpec == Init /\ ReadingInit /\ [][ReadingNext]_<<vars, readVars>>
----------------------------------------------------------------------------
\* "All the expected elements will eventually be returned, as long as the
\* iteration is continued until the next_cursor is null" (paged.py), and none
\* twice: units that appear, vanish or move away between two pages, or between
\* the two statements of one, do not shift the others.
PagesComplete ==
  /\ page \cap returned = {}
  /\ cursor = End => steady \subseteq returned \cup page

ActiveUnits == {u \in Units : Today \in active[u]}

\* WITH RECURSIVE ... UNION: what the steps from each place lead to from base.
Closure(base, steps) ==
  LET found[n \in 0 .. Cardinality(Units)] ==
        IF n = 0 THEN base
        ELSE LET before == found[n - 1] IN before \cup UNION {steps[x] : x \in before}
  IN  found[Cardinality(Units)]

Parents == [x \in Places |-> {y \in Places : x \in Units /\ parent[x][Today] = y}]
ChildUnits == [x \in Places |-> {u \in Units : parent[u][Today] = x}]

\* OrganisationUnit.ancestors: the parent, if it is there, and its ancestors.
Ancestors(u) ==
  LET visible == [x \in Places |-> Parents[x] \cap ActiveUnits]
  IN  Closure(visible[u], visible)

\* Faulty variant of WithDescendant: one step only.
WithDescendantOnce(u) == ({u} \cup {parent[u][Today]}) \cap ActiveUnits

\* The units that the filter for a descendant finds: the recursive query goes
\* through units that are not active.
WithDescendant(u) == Closure({u} \cap ActiveUnits, Parents) \cap ActiveUnits

\* The units that the filter for an ancestor finds.
WithAncestor(p) == Closure({p} \cap ActiveUnits, ChildUnits) \cap ActiveUnits

\* OrganisationUnit.root: those above the unit that have the root as parent.
RootsOf(u) == {x \in WithDescendant(u) : parent[x][Today] = Root}

\* Units whose managers a unit has, with inherit, when those in M have some: the
\* recursive query starts at the unit, if it is active, and goes on to the parent
\* of what it has reached, active or not, until it meets a unit of M.
InheritsFrom(u, M) ==
  Closure({u} \cap ActiveUnits, [x \in Places |-> IF x \in M THEN {} ELSE Parents[x]]) \cap M

\* The unit of M that is nearest to u, or u, however many units lie in between
\* and whether or not they are active.
Nearest(u, M) ==
  LET above == M \cap WithDescendant(u)
  IN  {x \in above : \A y \in above : x \in WithDescendant(y) => x = y}

\* prepare_ancestor_tree: the units and all that is above them, up to the
\* organisation; of each of these the siblings belong to the tree, too.
Climbed(M) == Closure(M, Parents)

TreeTops(climbed) == {x \in climbed : Parents[x] = {}}

TreeChildren(climbed, x) ==
  LET below == {v \in climbed : x \in Parents[v]}
  IN  IF below = {} THEN {} ELSE below \cup Children(x, Today)

\* get_unit_tree: the units shown below the tops, which are left out themselves.
UnitTree(M) ==
  LET climbed == Climbed(M)
      shown == [x \in Places |-> TreeChildren(climbed, x)]
  IN  Closure(UNION {shown[x] : x \in TreeTops(climbed)}, shown)

\* "Every ancestor of each unit; every sibling of every ancestor"
\* (get_unit_ancestor_tree).
AncestorTree(M) ==
  LET above == Climbed(M) \cap Units
  IN  above \cup {v \in ActiveUnits : \E u \in above : parent[v][Today] = parent[u][Today]}

\* The ways to look up and down the tree agree.  What a unit lists as ancestors
\* the filters find above it; they may find more than the list, because an edit
\* may make a unit active again whose parent is not.  A unit is below no two
\* roots.  It inherits the managers of the nearest unit that has some, and if
\* its parent is active those that the parent has or inherits; a parent that is
\* not active has none to show, but its children inherit through it.  The tree
\* that the service API draws of some units has what it says, and therefore the
\* units themselves and what the filters find above them.
ReadingsAgree ==
  /\ \A u \in ActiveUnits :
       /\ Ancestors(u) \subseteq WithDescendant(u) \ {u}
       /\ \A p \in ActiveUnits : p \in WithDescendant(u) <=> u \in WithAncestor(p)
       /\ Cardinality(RootsOf(u)) =< 1
       /\ \A M \in SUBSET ActiveUnits :
            /\ InheritsFrom(u, M) = Nearest(u, M)
            /\ u \notin M /\ parent[u][Today] \in ActiveUnits =>
                 InheritsFrom(u, M) = InheritsFrom(parent[u][Today], M)
  /\ \A M \in SUBSET ActiveUnits : UnitTree(M) = AncestorTree(M)
==============================================================================
