---------------------------- MODULE DetailsProofs -----------------------------
(***************************************************************************)
(* The rows of an object stay well-formed, and a field that holds one      *)
(* reference holds one on a day, whether it has a relation to itself or    *)
(* shares it with others (Details).                                        *)
(***************************************************************************)
EXTENDS Details, FiniteSetTheorems, NaturalsInduction, WellFoundedInduction, TLAPS

WellFormed(R) == R \subseteq Row /\ \A r \in R : r.from =< r.to

Values == Targets \cup Gyldighed

PendingOK ==
  \A c \in Clients : pending[c] # NoRequest =>
    /\ pending[c].kind \in Kinds /\ DOMAIN pending[c].wish \subseteq Fields
    /\ WellFormed(pending[c].payload)

IInv ==
  /\ role \in Roles /\ relation \in Relations(role)
  /\ WellFormed(rows) /\ deleted \in BOOLEAN
  /\ pending = [c \in Clients |-> pending[c]]
  /\ PendingOK
----------------------------------------------------------------------------
\* The tables write rows of known objekttypes only.
LEMMA EditTypes == \A kind \in Roles : \A f \in DOMAIN Edit[kind] : Edit[kind][f].of \in Types
<1>. USE DEF Types, To, ToAs, Plain
<1>1. \A f \in DOMAIN EngagementEdit : EngagementEdit[f].of \in Types
  BY DEF EngagementEdit
<1>2. \A f \in DOMAIN AssociationEdit : AssociationEdit[f].of \in Types
  BY DEF AssociationEdit
<1>3. \A f \in DOMAIN ITAssociationEdit : ITAssociationEdit[f].of \in Types
  BY DEF ITAssociationEdit
<1>4. \A f \in DOMAIN ManagerEdit : ManagerEdit[f].of \in Types
  BY DEF ManagerEdit
<1>5. \A f \in DOMAIN LeaveEdit : LeaveEdit[f].of \in Types
  BY DEF LeaveEdit
<1>6. \A f \in DOMAIN AddressEdit : AddressEdit[f].of \in Types
  BY DEF AddressEdit
<1>7. \A f \in DOMAIN ITUserEdit : ITUserEdit[f].of \in Types
  BY DEF ITUserEdit
<1>8. \A f \in DOMAIN KLEEdit : KLEEdit[f].of \in Types
  BY DEF KLEEdit
<1>9. \A f \in DOMAIN OwnerEdit : OwnerEdit[f].of \in Types
  BY DEF OwnerEdit
<1>10. \A f \in DOMAIN RoleBindingEdit : RoleBindingEdit[f].of \in Types
  BY DEF RoleBindingEdit
<1>11. \A f \in DOMAIN OrganisationUnitEdit : OrganisationUnitEdit[f].of \in Types
  BY DEF OrganisationUnitEdit
<1>12. \A f \in DOMAIN ClassEdit : ClassEdit[f].of \in Types
  BY DEF ClassEdit
<1>13. /\ \A f \in DOMAIN FacetEdit : FacetEdit[f].of \in Types
       /\ \A f \in DOMAIN ITSystemEdit : ITSystemEdit[f].of \in Types
       /\ \A f \in DOMAIN EmployeeEdit : EmployeeEdit[f].of \in Types
  BY DEF FacetEdit, ITSystemEdit, EmployeeEdit
<1>. QED
  BY <1>1, <1>2, <1>3, <1>4, <1>5, <1>6, <1>7, <1>8, <1>9, <1>10, <1>11, <1>12, <1>13
  DEF Roles, Create, Edit

LEMMA CreateTypes ==
  \A kind \in Roles : \A f \in DOMAIN Create[kind] : Create[kind][f].of \in Types
<1>. USE DEF Types, In, InAs, Plain
<1>1. \A f \in DOMAIN EngagementCreate : EngagementCreate[f].of \in Types
  BY DEF EngagementCreate
<1>2. \A f \in DOMAIN AssociationCreate : AssociationCreate[f].of \in Types
  BY DEF AssociationCreate
<1>3. \A f \in DOMAIN ITAssociationCreate : ITAssociationCreate[f].of \in Types
  BY DEF ITAssociationCreate
<1>4. \A f \in DOMAIN ManagerCreate : ManagerCreate[f].of \in Types
  BY DEF ManagerCreate
<1>5. \A f \in DOMAIN LeaveCreate : LeaveCreate[f].of \in Types
  BY DEF LeaveCreate
<1>6. \A f \in DOMAIN AddressCreate : AddressCreate[f].of \in Types
  BY DEF AddressCreate
<1>7. \A f \in DOMAIN ITUserCreate : ITUserCreate[f].of \in Types
  BY DEF ITUserCreate
<1>8. \A f \in DOMAIN KLECreate : KLECreate[f].of \in Types
  BY DEF KLECreate
<1>9. \A f \in DOMAIN OwnerCreate : OwnerCreate[f].of \in Types
  BY DEF OwnerCreate
<1>10. \A f \in DOMAIN RoleBindingCreate : RoleBindingCreate[f].of \in Types
  BY DEF RoleBindingCreate
<1>11. \A f \in DOMAIN OrganisationUnitCreate : OrganisationUnitCreate[f].of \in Types
  BY DEF OrganisationUnitCreate
<1>12. \A f \in DOMAIN ClassCreate : ClassCreate[f].of \in Types
  BY DEF ClassCreate
<1>13. /\ \A f \in DOMAIN FacetCreate : FacetCreate[f].of \in Types
       /\ \A f \in DOMAIN ITSystemCreate : ITSystemCreate[f].of \in Types
       /\ \A f \in DOMAIN EmployeeCreate : EmployeeCreate[f].of \in Types
  BY DEF FacetCreate, ITSystemCreate, EmployeeCreate
<1>. QED
  BY <1>1, <1>2, <1>3, <1>4, <1>5, <1>6, <1>7, <1>8, <1>9, <1>10, <1>11, <1>12, <1>13
  DEF Roles, Create

\* Every kind of object has a state, and the details that are vacated a person.
LEMMA StateIsAField ==
  /\ \A kind \in Roles : "state" \in DOMAIN Create[kind] /\ Create[kind]["state"].relation = "gyldighed"
  /\ \A kind \in {"manager", "association"} :
       "person" \in DOMAIN Create[kind] /\ Create[kind]["person"].relation = "tilknyttedebrugere"
<1>1. /\ "state" \in DOMAIN EngagementCreate /\ EngagementCreate["state"].relation = "gyldighed"
      /\ "state" \in DOMAIN ITAssociationCreate /\ ITAssociationCreate["state"].relation = "gyldighed"
      /\ "state" \in DOMAIN LeaveCreate /\ LeaveCreate["state"].relation = "gyldighed"
      /\ "state" \in DOMAIN AddressCreate /\ AddressCreate["state"].relation = "gyldighed"
  BY DEF In, EngagementCreate, ITAssociationCreate, LeaveCreate, AddressCreate
<1>2. /\ "state" \in DOMAIN ITUserCreate /\ ITUserCreate["state"].relation = "gyldighed"
      /\ "state" \in DOMAIN KLECreate /\ KLECreate["state"].relation = "gyldighed"
      /\ "state" \in DOMAIN OwnerCreate /\ OwnerCreate["state"].relation = "gyldighed"
      /\ "state" \in DOMAIN RoleBindingCreate /\ RoleBindingCreate["state"].relation = "gyldighed"
  BY DEF In, ITUserCreate, KLECreate, OwnerCreate, RoleBindingCreate
<1>3. /\ "state" \in DOMAIN OrganisationUnitCreate
      /\ OrganisationUnitCreate["state"].relation = "gyldighed"
      /\ "state" \in DOMAIN ClassCreate /\ ClassCreate["state"].relation = "gyldighed"
      /\ "state" \in DOMAIN FacetCreate /\ FacetCreate["state"].relation = "gyldighed"
      /\ "state" \in DOMAIN ITSystemCreate /\ ITSystemCreate["state"].relation = "gyldighed"
      /\ "state" \in DOMAIN EmployeeCreate /\ EmployeeCreate["state"].relation = "gyldighed"
  BY DEF In, OrganisationUnitCreate, ClassCreate, FacetCreate, ITSystemCreate, EmployeeCreate
<1>4. /\ "state" \in DOMAIN ManagerCreate /\ ManagerCreate["state"].relation = "gyldighed"
      /\ "person" \in DOMAIN ManagerCreate
      /\ ManagerCreate["person"].relation = "tilknyttedebrugere"
      /\ "state" \in DOMAIN AssociationCreate /\ AssociationCreate["state"].relation = "gyldighed"
      /\ "person" \in DOMAIN AssociationCreate
      /\ AssociationCreate["person"].relation = "tilknyttedebrugere"
  BY DEF In, ManagerCreate, AssociationCreate
<1>. QED
  BY <1>1, <1>2, <1>3, <1>4 DEF Roles, Create
----------------------------------------------------------------------------
LEMMA DaysAreNumbers == Horizon \in Nat /\ Days \subseteq Nat /\ Days \subseteq Int
BY DetailAssumption DEF Days

LEMMA LeastGreatest ==
  \A a, b \in Int : /\ Least(a, b) \in {a, b} /\ Least(a, b) =< a /\ Least(a, b) =< b
                    /\ Greatest(a, b) \in {a, b} /\ a =< Greatest(a, b) /\ b =< Greatest(a, b)
BY DEF Least, Greatest

\* A part of the rows, and rows together, are well-formed.
LEMMA Parts ==
  ASSUME NEW R, WellFormed(R), NEW T, T \subseteq R
  PROVE  WellFormed(T)
BY DEF WellFormed

LEMMA Unions ==
  ASSUME NEW R, WellFormed(R), NEW T, WellFormed(T)
  PROVE  WellFormed(R \cup T)
BY DEF WellFormed

LEMMA NewRowWellFormed ==
  ASSUME NEW from \in Days, NEW to \in Days, from =< to,
         NEW of \in Types, NEW target \in Values \cup {Empty}
  PROVE  WellFormed({NewRow(from, to, of, target)})
BY DaysAreNumbers DEF WellFormed, NewRow, Row, Values

\* A row whose days are changed to others of the calendar.
LEMMA ChangedRow ==
  ASSUME NEW r \in Row, NEW a \in Days, NEW b \in Days, a =< b
  PROVE  WellFormed({[r EXCEPT !.from = a, !.to = b]})
BY DaysAreNumbers DEF WellFormed, Row

LEMMA OutsideWellFormed ==
  ASSUME NEW R, WellFormed(R), NEW from \in Days, NEW to \in Days
  PROVE  WellFormed(Outside(R, from, to))
<1>1. ASSUME NEW r \in R, r.from < from
      PROVE  LET x == [r EXCEPT !.to = Least(@, from - 1)] IN x \in Row /\ x.from =< x.to
  BY <1>1, DaysAreNumbers, LeastGreatest DEF WellFormed, Row, Days
<1>2. ASSUME NEW r \in R, to < r.to
      PROVE  LET x == [r EXCEPT !.from = Greatest(@, to + 1)] IN x \in Row /\ x.from =< x.to
  BY <1>2, DaysAreNumbers, LeastGreatest DEF WellFormed, Row, Days
<1>. QED
  BY <1>1, <1>2 DEF WellFormed, Outside

LEMMA ConsolidatedWellFormed ==
  ASSUME NEW R, WellFormed(R)
  PROVE  WellFormed(Consolidated(R))
<1>1. ASSUME NEW r \in R, NEW s \in R, r.from =< s.from
      PROVE  LET x == [r EXCEPT !.to = s.to] IN x \in Row /\ x.from =< x.to
  BY <1>1, DaysAreNumbers DEF WellFormed, Row, Days
<1>2. ASSUME NEW x \in Consolidated(R)
      PROVE  x \in Row /\ x.from =< x.to
  <2>1. PICK p \in R \X R : p[1].from =< p[2].from /\ x = [p[1] EXCEPT !.to = p[2].to]
    BY DEF Consolidated
  <2>. QED
    BY <2>1, <1>1
<1>. QED
  BY <1>2 DEF WellFormed

LEMMA EnsureBoundsWellFormed ==
  ASSUME NEW R, WellFormed(R), NEW type, NEW e, NEW from \in Days, NEW to \in Days, from =< to,
         type \in {"many", "one", "adapted"}
  PROVE  WellFormed(EnsureBounds(R, type, e, from, to))
<1>1. ASSUME NEW r \in R
      PROVE  Moved(r, e, from, to) \in Row
             /\ Moved(r, e, from, to).from =< Moved(r, e, from, to).to
  <2>1. r \in Row /\ r.from \in Days /\ r.to \in Days /\ r.from =< r.to
    BY DEF WellFormed, Row
  <2>2. /\ Least(r.from, from) \in Days /\ Least(r.from, from) =< r.from
        /\ Greatest(r.to, to) \in Days /\ r.to =< Greatest(r.to, to)
    BY <2>1, DaysAreNumbers, LeastGreatest DEF Days
  <2>. DEFINE a == IF r = e[1] THEN Least(r.from, from) ELSE r.from
              b == IF r = e[2] THEN Greatest(r.to, to) ELSE r.to
  <2>3. a \in {r.from, Least(r.from, from)} /\ b \in {r.to, Greatest(r.to, to)}
    OBVIOUS
  <2>4. Moved(r, e, from, to) = [r EXCEPT !.from = a, !.to = b]
    BY <2>1 DEF Moved, Row
  <2>. HIDE DEF a, b
  <2>5. r.from \in Int /\ r.to \in Int /\ Least(r.from, from) \in Int /\ Greatest(r.to, to) \in Int
    BY <2>1, <2>2, DaysAreNumbers
  <2>6. a \in Days /\ a \in Int /\ a =< r.from
    BY <2>1, <2>2, <2>3, <2>5
  <2>7. b \in Days /\ b \in Int /\ r.to =< b
    BY <2>1, <2>2, <2>3, <2>5
  <2>8. a =< b
    BY <2>1, <2>5, <2>6, <2>7
  <2>. QED
    BY <2>1, <2>4, <2>6, <2>7, <2>8 DEF Row
<1>. QED
  BY <1>1 DEF WellFormed, EnsureBounds

\* A set of numbers has a least one.
LEMMA LeastExists ==
  ASSUME NEW S \in SUBSET Nat, S # {}
  PROVE  \E m \in S : \A k \in S : m =< k
<1>. DEFINE Lt == OpToRel(<, Nat)
<1>1. IsWellFoundedOn(Lt, Nat)
  BY NatLessThanWellFounded
<1>2. \A x, y \in Nat : y < x => <<y, x>> \in Lt
  BY DEF OpToRel
<1>. HIDE DEF Lt
<1>3. PICK m \in S : \A y \in S : ~(<<y, m>> \in Lt)
  BY <1>1, WFMin
<1>4. \A y \in S : ~(y < m)
  BY <1>2, <1>3, Zenon
<1>. QED
  BY <1>4

\* There is a first and a last row.
LEMMA EndsExist ==
  ASSUME NEW R, WellFormed(R), R # {}
  PROVE  Ends(R) # {}
<1>. DEFINE F == {x.from : x \in R}
            G == {Horizon - x.from : x \in R}
<1>1. \A x \in R : x.from \in Nat /\ Horizon - x.from \in Nat /\ Horizon \in Nat
  BY DaysAreNumbers DEF WellFormed, Row, Days
<1>2. F \in SUBSET Nat /\ F # {} /\ G \in SUBSET Nat /\ G # {}
  BY <1>1
<1>3. PICK m \in F : \A n \in F : m =< n
  BY <1>2, LeastExists
<1>4. PICK k \in G : \A n \in G : k =< n
  BY <1>2, LeastExists
<1>5. PICK first \in R : m = first.from
  BY <1>3
<1>6. \A x \in R : first.from =< x.from
  BY <1>3, <1>5
<1>7. PICK last \in R : k = Horizon - last.from
  BY <1>4
<1>7a. \A x \in R : x.from =< last.from
  <2>. TAKE x \in R
  <2>1. Horizon - last.from =< Horizon - x.from
    BY <1>4, <1>7
  <2>. QED
    BY <2>1, <1>1
<1>8. CASE first # last
  <2>. <<first, last>> \in Ends(R)
    BY <1>6, <1>7a, <1>8 DEF Ends
  <2>. QED
    OBVIOUS
<1>9. CASE first = last /\ R = {first}
  <2>. <<first, last>> \in Ends(R)
    BY <1>6, <1>7a, <1>9 DEF Ends
  <2>. QED
    OBVIOUS
<1>10. CASE first = last /\ R # {first}
  <2>1. PICK y \in R : y # first
    BY <1>10
  <2>2. y.from = first.from
    BY <1>1, <1>6, <1>7a, <1>10, DaysAreNumbers
  <2>3. <<first, y>> \in Ends(R)
    BY <1>6, <1>7a, <1>10, <2>1, <2>2 DEF Ends
  <2>. QED
    BY <2>3
<1>. QED
  BY <1>8, <1>9, <1>10

LEMMA MergedWellFormed ==
  ASSUME NEW R, WellFormed(R), NEW payload, WellFormed(payload)
  PROVE  WellFormed(Merged(R, payload))
<1>1. CASE payload = {} \/ relation \notin NulTilEn
  BY <1>1 DEF Merged
<1>2. CASE payload # {} /\ relation \in NulTilEn
  <2>. DEFINE e == CHOOSE x \in Ends(payload) : TRUE
  <2>1. e \in payload \X payload
    BY <1>2, EndsExist DEF Ends
  <2>2. /\ e[1].from \in Days /\ e[1].to \in Days
        /\ e[2].from \in Days /\ e[2].to \in Days
    BY <2>1 DEF WellFormed, Row
  <2>. HIDE DEF e
  <2>3. WellFormed(Outside(R, e[1].from, e[1].to))
    BY <2>2, OutsideWellFormed
  <2>4. WellFormed(Outside(Outside(R, e[1].from, e[1].to), e[2].from, e[2].to))
    BY <2>2, <2>3, OutsideWellFormed
  <2>5. WellFormed(payload \cup Outside(Outside(R, e[1].from, e[1].to), e[2].from, e[2].to))
    BY <2>4, Unions
  <2>. QED
    BY <1>2, <2>5 DEF Merged, e
<1>. QED
  BY <1>1, <1>2
----------------------------------------------------------------------------
\* References that are written for fields of which the handler knows the tuple.
Writes(w) == DOMAIN w \subseteq DOMAIN Edit[role] /\ \A f \in DOMAIN w : w[f] \subseteq Values

LEMMA WishesAreReferences ==
  ASSUME role \in Roles, NEW w \in Wish
  PROVE  DOMAIN w \subseteq Fields /\ \A f \in DOMAIN w : w[f] \subseteq Values
<1>1. CASE relation = "gyldighed"
  <2>1. w = [state |-> {"Aktiv"}]
    BY <1>1 DEF Wish
  <2>2. "state" \in Fields
    BY <1>1, StateIsAField DEF Fields
  <2>. QED
    BY <2>1, <2>2 DEF Values, Gyldighed
<1>2. CASE relation # "gyldighed"
  <2>1. PICK S \in SUBSET Fields : w \in [S -> SUBSET Targets]
    BY <1>2 DEF Wish
  <2>. QED
    BY <2>1 DEF Values
<1>. QED
  BY <1>1, <1>2

LEMMA TargetsAreReferences ==
  ASSUME NEW R, WellFormed(R), NEW tuple
  PROVE  TargetsOf(R, tuple) \subseteq Values
BY DEF TargetsOf, Of, WellFormed, Row, Values

LEMMA CompletedWrites ==
  ASSUME role \in Roles, NEW R, WellFormed(R), NEW w \in Wish, NEW done \in Completed(R, w)
  PROVE  Writes(done)
<1>1. CASE ~ManagerTasks
  <2>1. done = Edited(w)
    BY <1>1 DEF Completed
  <2>2. \A f \in DOMAIN Sent(w) : Sent(w)[f] \subseteq Values
    BY WishesAreReferences DEF Sent
  <2>. QED
    BY <2>1, <2>2 DEF Edited, Writes
<1>2. CASE ManagerTasks
  <2>. DEFINE kept == TargetsOf(R, RESPONSIBILITY_FIELD)
              responsibility == IF "responsibility" \in DOMAIN w THEN w["responsibility"] ELSE kept
              levels == IF "manager_level" \in DOMAIN w THEN {w["manager_level"]}
                        ELSE IF TargetsOf(R, MANAGER_LEVEL_FIELD) = {} THEN {{}}
                        ELSE {{t} : t \in TargetsOf(R, MANAGER_LEVEL_FIELD)}
  <2>1. responsibility \subseteq Values
    BY WishesAreReferences, TargetsAreReferences
  <2>2. \A level \in levels : level \subseteq Values
    BY WishesAreReferences, TargetsAreReferences
  <2>3. {"manager_level", "responsibility"} \subseteq DOMAIN Edit[role]
    BY <1>2 DEF ManagerTasks, Edit, ManagerEdit
  <2>4. PICK level \in levels :
          done = [f \in {"manager_level"}
                          \cup (IF responsibility = {} THEN {} ELSE {"responsibility"}) |->
                    IF f = "manager_level" THEN level ELSE responsibility]
    BY <1>2 DEF Completed
  <2>. HIDE DEF kept, responsibility, levels
  <2>. QED
    BY <2>1, <2>2, <2>3, <2>4 DEF Writes
<1>. QED
  BY <1>1, <1>2

LEMMA NewRowsWellFormed ==
  ASSUME role \in Roles, NEW f \in DOMAIN Edit[role], NEW targets \in SUBSET Values,
         NEW from \in Days, NEW to \in Days, from =< to
  PROVE  WellFormed(NewRows(f, targets, from, to))
<1>1. Edit[role][f].of \in Types /\ Plain \in Types
  BY EditTypes DEF Types
<1>2. CASE targets = {}
  BY <1>1, <1>2, NewRowWellFormed DEF NewRows
<1>3. CASE targets # {}
  <2>1. \A t \in targets : WellFormed({NewRow(from, to, Edit[role][f].of, t)})
    BY <1>1, NewRowWellFormed
  <2>. QED
    BY <1>3, <2>1 DEF NewRows, WellFormed
<1>. QED
  BY <1>2, <1>3

\* The field tuples of the tables are of the known types.
LEMMA TupleTypes ==
  \A t \in Bounds[role] : role \in Roles => t.type \in {"many", "one", "adapted"}
<1>. USE DEF ZeroToOne, ZeroToMany, Adapted, JOB_FUNCTION_FIELD, ORG_FUNK_TYPE_FIELD,
     ORG_FUNK_CLASSES_FIELD, ASSOCIATED_ORG_UNIT_FIELD, ASSOCIATED_FUNCTION_FIELD,
     USER_FIELD, ADDRESS_TYPE_FIELD, KLE_ASPECT_FIELD, RESPONSIBILITY_FIELD,
     MANAGER_LEVEL_FIELD, VISIBILITY_FIELD, SINGLE_ITSYSTEM_FIELD, PRIMARY_FIELD,
     ORG_UNIT_TYPE_FIELD, ORG_UNIT_LEVEL_FIELD, ORG_UNIT_HIERARCHY_FIELD,
     ORG_UNIT_TIME_PLANNING_FIELD, PARENT_FIELD
<1>. DEFINE Known(S) == \A t \in S : t.type \in {"many", "one", "adapted"}
<1>1. Known(ENGAGEMENT_FIELDS) /\ Known(ASSOCIATION_FIELDS) /\ Known(ROLE_FIELDS)
  BY DEF ENGAGEMENT_FIELDS, ASSOCIATION_FIELDS, ROLE_FIELDS
<1>2. Known(LEAVE_FIELDS) /\ Known(MANAGER_FIELDS) /\ Known(ORG_UNIT_FIELDS)
  BY DEF LEAVE_FIELDS, MANAGER_FIELDS, ORG_UNIT_FIELDS
<1>3. Known(OWNER_FIELDS) /\ Known(ITSYSTEM_FIELDS) /\ Known(ADDRESS_FIELDS) /\ Known(KLE_FIELDS)
  BY DEF OWNER_FIELDS, ITSYSTEM_FIELDS, ADDRESS_FIELDS, KLE_FIELDS
<1>. QED
  BY <1>1, <1>2, <1>3 DEF Roles, Create, Bounds

LEMMA PayloadWellFormed ==
  ASSUME role \in Roles, NEW R, WellFormed(R), NEW w, Writes(w), NEW e,
         NEW from \in Days, NEW to \in Days, from =< to
  PROVE  WellFormed(Payload(R, w, e, from, to))
<1>. DEFINE New(t) ==
       UNION {NewRows(f, w[f], from, to) : f \in {g \in DOMAIN w : Edit[role][g].tuple = t}}
     Part(t) == IF t.type = "adapted" THEN New(t) \cup Outside(Of(R, t), from, to) ELSE New(t)
     Rest(t) == EnsureBounds(Of(R, t), t.type, e, from, to)
<1>1. ASSUME NEW t PROVE WellFormed(Of(R, t))
  BY Parts DEF Of
<1>2. ASSUME NEW t PROVE WellFormed(New(t))
  <2>1. \A f \in DOMAIN w : WellFormed(NewRows(f, w[f], from, to))
    BY NewRowsWellFormed DEF Writes
  <2>. QED
    BY <2>1 DEF WellFormed
<1>3. ASSUME NEW t PROVE WellFormed(Part(t))
  <2>. HIDE DEF New
  <2>1. WellFormed(Outside(Of(R, t), from, to))
    BY <1>1, OutsideWellFormed
  <2>. QED
    BY <1>2, <2>1, Unions
<1>4. ASSUME NEW t \in Unwritten(w) PROVE WellFormed(Rest(t))
  <2>1. t.type \in {"many", "one", "adapted"}
    BY TupleTypes DEF Unwritten
  <2>. QED
    BY <1>1, <2>1, EnsureBoundsWellFormed
<1>5. Payload(R, w, e, from, to) =
        (UNION {Part(t) : t \in Written(w)}) \cup (UNION {Rest(t) : t \in Unwritten(w)})
  BY DEF Payload
<1>. HIDE DEF New, Part, Rest
<1>6. /\ WellFormed(UNION {Part(t) : t \in Written(w)})
      /\ WellFormed(UNION {Rest(t) : t \in Unwritten(w)})
  BY <1>3, <1>4 DEF WellFormed
<1>. QED
  BY <1>5, <1>6, Unions
----------------------------------------------------------------------------
LEMMA CreateRowsWellFormed ==
  ASSUME role \in Roles, NEW w \in Wish, DOMAIN w = Fields,
         NEW from \in Days, NEW to \in Days, from =< to
  PROVE  WellFormed(CreateRows(w, from, to))
<1>1. \A f \in DOMAIN w : w[f] \subseteq Values /\ Create[role][f].of \in Types
  BY WishesAreReferences, CreateTypes DEF Fields
<1>2. ASSUME NEW f \in DOMAIN w, NEW t \in w[f] \cup {Empty}
      PROVE  WellFormed({NewRow(from, to, Create[role][f].of, t)})
  BY <1>1, NewRowWellFormed
<1>. QED
  BY <1>2 DEF CreateRows, WellFormed

LEMMA InitIInv == Init => IInv
<1>. SUFFICES ASSUME Init PROVE IInv
  OBVIOUS
<1>. DEFINE Creation(c) ==
       \E from \in Days : \E to \in from .. Horizon, w \in Wish :
         /\ DOMAIN w = Fields /\ Allowed(w, Fields \ Needs[role])
         /\ pending = [x \in Clients |->
              IF x = c THEN Request("create", w, from, to, CreateRows(w, from, to))
              ELSE NoRequest]
<1>0. PICK c \in Clients :
        /\ role \in Roles /\ relation \in Relations(role) /\ rows = {} /\ deleted = FALSE
        /\ Creation(c)
  BY DEF Init
<1>0a. PICK from \in Days : \E to \in from .. Horizon, w \in Wish :
         /\ DOMAIN w = Fields
         /\ pending = [x \in Clients |->
              IF x = c THEN Request("create", w, from, to, CreateRows(w, from, to))
              ELSE NoRequest]
  BY <1>0
<1>0b. PICK to \in from .. Horizon, w \in Wish :
         /\ DOMAIN w = Fields
         /\ pending = [x \in Clients |->
              IF x = c THEN Request("create", w, from, to, CreateRows(w, from, to))
              ELSE NoRequest]
  BY <1>0a
<1>1. WellFormed(rows)
  BY <1>0 DEF WellFormed
<1>2. to \in Days /\ from =< to
  BY <1>0a, <1>0b, DaysAreNumbers DEF Days
<1>3. WellFormed(CreateRows(w, from, to))
  BY <1>0, <1>0b, <1>2, CreateRowsWellFormed
<1>5. ASSUME NEW x \in Clients, pending[x] # NoRequest
      PROVE  /\ pending[x].kind \in Kinds /\ DOMAIN pending[x].wish \subseteq Fields
             /\ WellFormed(pending[x].payload)
  <2>1. pending[x] = Request("create", w, from, to, CreateRows(w, from, to))
    BY <1>0b, <1>5
  <2>. QED
    BY <1>0b, <1>3, <2>1 DEF Request, Kinds
<1>. QED
  BY <1>0, <1>0b, <1>1, <1>5 DEF IInv, PendingOK

\* Another request is prepared; the object is as before.
LEMMA PreparedIInv ==
  ASSUME IInv, UNCHANGED <<role, relation, rows, deleted>>, NEW c \in Clients, NEW q,
         pending' = [pending EXCEPT ![c] = q],
         q.kind \in Kinds, DOMAIN q.wish \subseteq Fields, WellFormed(q.payload)
  PROVE  IInv'
<1>1. Fields' = Fields
  BY DEF Fields
<1>2. pending' = [x \in Clients |-> pending'[x]]
  BY DEF IInv
<1>3. \A x \in Clients : pending'[x] = q \/ pending'[x] = pending[x]
  BY DEF IInv
<1>4. PendingOK'
  BY <1>1, <1>3 DEF IInv, PendingOK, WellFormed
<1>. QED
  BY <1>2, <1>4 DEF IInv, Relations, WellFormed

\* Something is stored; what the others have prepared is as before, but stale.
LEMMA StaleIInv ==
  ASSUME IInv, UNCHANGED <<role, relation>>, NEW c \in Clients,
         WellFormed(rows'), deleted' \in BOOLEAN, pending' = Stale(c)
  PROVE  IInv'
<1>1. Fields' = Fields
  BY DEF Fields
<1>2. ASSUME NEW x \in Clients, pending'[x] # NoRequest
      PROVE  /\ pending'[x].kind \in Kinds /\ DOMAIN pending'[x].wish \subseteq Fields
             /\ WellFormed(pending'[x].payload)
  <2>1. pending[x] # NoRequest /\ pending'[x] = [pending[x] EXCEPT !.fresh = FALSE]
    BY <1>2 DEF Stale
  <2>. QED
    BY <2>1 DEF IInv, PendingOK
<1>3. pending' = [x \in Clients |-> pending'[x]]
  BY DEF Stale
<1>4. PendingOK'
  BY <1>1, <1>2 DEF PendingOK, WellFormed
<1>. QED
  BY <1>3, <1>4 DEF IInv, WellFormed, Relations

LEMMA StepIInv == IInv /\ [Next]_vars => IInv'
<1>. SUFFICES ASSUME IInv, [Next]_vars PROVE IInv'
  OBVIOUS
<1>1. CASE UNCHANGED vars
  BY <1>1 DEF vars, IInv, PendingOK, WellFormed, Relations, Fields
<1>2. ASSUME NEW c \in Clients, Prepare(c) PROVE IInv'
  <2>0. PICK read \in {Consolidated(rows)}, w \in Wish :
          \E done \in Completed(read, w) :
          \E e \in Ends(UNION {Of(read, t) : t \in Unwritten(done)}) :
          \E from \in Days : \E to \in from .. Horizon :
            pending' = [pending EXCEPT ![c] =
              Request("update", w, from, to, Payload(read, done, e, from, to))]
    BY <1>2, Zenon DEF Prepare
  <2>1. PICK done \in Completed(read, w) :
          \E e \in Ends(UNION {Of(read, t) : t \in Unwritten(done)}) :
          \E from \in Days : \E to \in from .. Horizon :
            pending' = [pending EXCEPT ![c] =
              Request("update", w, from, to, Payload(read, done, e, from, to))]
    BY <2>0, Zenon
  <2>1a. PICK e, from, to :
          /\ from \in Days /\ to \in from .. Horizon
          /\ pending' = [pending EXCEPT ![c] =
               Request("update", w, from, to, Payload(read, done, e, from, to))]
    BY <2>1, Zenon
  <2>2. from \in Days /\ to \in Days /\ from =< to
    BY <2>1a, DaysAreNumbers DEF Days
  <2>3. WellFormed(read)
    BY ConsolidatedWellFormed DEF IInv
  <2>4. DOMAIN w \subseteq Fields
    BY WishesAreReferences DEF IInv
  <2>5. WellFormed(Payload(read, done, e, from, to))
    BY <2>2, <2>3, CompletedWrites, PayloadWellFormed DEF IInv
  <2>6. UNCHANGED <<role, relation, rows, deleted>>
    BY <1>2 DEF Prepare
  <2>. QED
    <3>. DEFINE q == Request("update", w, from, to, Payload(read, done, e, from, to))
    <3>1. q.kind \in Kinds /\ DOMAIN q.wish \subseteq Fields /\ WellFormed(q.payload)
      BY <2>4, <2>5 DEF Request, Kinds
    <3>2. pending' = [pending EXCEPT ![c] = q]
      BY <2>1a
    <3>. HIDE DEF q
    <3>. QED
      BY <3>1, <3>2, <2>6, PreparedIInv
<1>3. ASSUME NEW c \in Clients, Terminate(c) PROVE IInv'
  <2>1. PICK from, to :
          /\ from \in Days /\ to \in from .. Horizon
          /\ pending' = [pending EXCEPT ![c] =
               Request("terminate", [state |-> {"Inaktiv"}], from, to,
                       {NewRow(from, to, Plain, "Inaktiv")})]
    BY <1>3 DEF Terminate
  <2>2. from \in Days /\ to \in Days /\ from =< to
    BY <2>1, DaysAreNumbers DEF Days
  <2>3. WellFormed({NewRow(from, to, Plain, "Inaktiv")})
    BY <2>2, NewRowWellFormed DEF Types, Values, Gyldighed
  <2>4. "state" \in Fields /\ UNCHANGED <<role, relation, rows, deleted>>
    BY <1>3, StateIsAField DEF Terminate, IInv, Fields
  <2>. QED
    <3>. DEFINE q == Request("terminate", [state |-> {"Inaktiv"}], from, to,
                             {NewRow(from, to, Plain, "Inaktiv")})
    <3>1. q.kind \in Kinds /\ DOMAIN q.wish \subseteq Fields /\ WellFormed(q.payload)
      BY <2>3, <2>4 DEF Request, Kinds
    <3>2. pending' = [pending EXCEPT ![c] = q]
      BY <2>1
    <3>. HIDE DEF q
    <3>. QED
      BY <3>1, <3>2, <2>4, PreparedIInv
<1>4. ASSUME NEW c \in Clients, Vacate(c) PROVE IInv'
  <2>. DEFINE payload(from) ==
         {NewRow(from, Horizon, Plain, Empty)}
           \cup Outside(On(Consolidated(rows), from), from, Horizon)
  <2>1. PICK from \in Days :
          pending' = [pending EXCEPT ![c] =
            Request("vacate", [person |-> {}], from, Horizon, payload(from))]
    BY <1>4 DEF Vacate
  <2>2. Horizon \in Days /\ from =< Horizon
    BY DaysAreNumbers DEF Days
  <2>3. WellFormed(On(Consolidated(rows), from))
    BY ConsolidatedWellFormed, Parts DEF IInv, On
  <2>4. WellFormed(payload(from))
    <3>1. WellFormed({NewRow(from, Horizon, Plain, Empty)})
      BY <2>2, NewRowWellFormed DEF Types
    <3>2. WellFormed(Outside(On(Consolidated(rows), from), from, Horizon))
      BY <2>2, <2>3, OutsideWellFormed
    <3>. QED
      BY <3>1, <3>2, Unions
  <2>5. "person" \in Fields /\ UNCHANGED <<role, relation, rows, deleted>>
    BY <1>4, StateIsAField DEF Vacate, Fields
  <2>. HIDE DEF payload
  <2>. QED
    <3>. DEFINE q == Request("vacate", [person |-> {}], from, Horizon, payload(from))
    <3>1. q.kind \in Kinds /\ DOMAIN q.wish \subseteq Fields /\ WellFormed(q.payload)
      BY <2>4, <2>5 DEF Request, Kinds
    <3>2. pending' = [pending EXCEPT ![c] = q]
      BY <2>1
    <3>. HIDE DEF q
    <3>. QED
      BY <3>1, <3>2, <2>5, PreparedIInv
<1>5. ASSUME NEW c \in Clients, Store(c) PROVE IInv'
  <2>1. WellFormed(pending[c].payload)
    BY <1>5 DEF Store, IInv, PendingOK
  <2>2. WellFormed(rows')
    BY <1>5, <2>1, MergedWellFormed DEF Store, IInv
  <2>3. UNCHANGED <<role, relation>> /\ Fields' = Fields
    BY <1>5 DEF Store, Fields
  <2>4. pending' = Stale(c) /\ deleted' = FALSE
    BY <1>5 DEF Store
  <2>. QED
    BY <2>2, <2>3, <2>4, StaleIInv
<1>6. ASSUME NEW c \in Clients, Delete(c) PROVE IInv'
  <2>1. rows' = {} /\ deleted' = TRUE /\ pending' = Stale(c) /\ UNCHANGED <<role, relation>>
    BY <1>6 DEF Delete
  <2>2. WellFormed(rows')
    BY <2>1 DEF WellFormed
  <2>. QED
    BY <2>1, <2>2, StaleIInv
<1>. QED
  BY <1>1, <1>2, <1>3, <1>4, <1>5, <1>6 DEF Next

\* The object's rows, and what clients have prepared, are periods of the calendar
\* that refer to known objects, whatever is edited and in which order it is
\* stored: no edit makes a row that ends before it begins (update_payload,
\* ensure_bounds, as_update_organisationfunktion).
THEOREM TypeCorrect == Spec => []TypeOK
<1>1. IInv => TypeOK
  BY DEF IInv, PendingOK, TypeOK, WellFormed
<1>. QED
  BY <1>1, InitIInv, StepIInv, PTL DEF Spec
----------------------------------------------------------------------------
\* Rows that follow one another: no two of them hold on the same day.
Apart(R) == \A r, s \in R : r # s => r.to < s.from \/ s.to < r.from

\* A first and a last row, or one, or none.
Few(R) == R # {} => \E r, s \in R : R = {r, s} /\ (r = s \/ r.to < s.from)

\* The tuple of the one field that a relation has, and that nothing else
\* of an object is kept in it.
Tuple ==
  [relation |-> relation, of |-> AnyType,
   type |-> IF relation \in NulTilEn THEN "one" ELSE "adapted"]

SoleField(f) ==
  /\ Fields = {f} /\ <<role, f>> \notin Multiple /\ relation \in Relevant[role]
  /\ f \in DOMAIN Edit[role] => Edit[role][f].tuple = Tuple
  /\ \A t \in Bounds[role] : t.relation = relation => t = Tuple

Sole == \E f : SoleField(f)

LEMMA RowDays ==
  ASSUME NEW R, WellFormed(R)
  PROVE  \A r \in R : r.from \in Int /\ r.to \in Int /\ r.from =< r.to /\ r \in Row
BY DaysAreNumbers DEF WellFormed, Row

\* What lies outside a period is part of the rows, and no part of the period.
LEMMA OutsideParts ==
  ASSUME NEW R, WellFormed(R), NEW from \in Days, NEW to \in Days
  PROVE  \A x \in Outside(R, from, to) : \E r \in R :
           \/ r.from < from /\ x = [r EXCEPT !.to = Least(@, from - 1)]
              /\ x.from = r.from /\ x.to =< r.to /\ x.to < from
           \/ to < r.to /\ x = [r EXCEPT !.from = Greatest(@, to + 1)]
              /\ x.to = r.to /\ r.from =< x.from /\ to < x.from
<1>. SUFFICES ASSUME NEW x \in Outside(R, from, to)
              PROVE  \E r \in R :
           \/ r.from < from /\ x = [r EXCEPT !.to = Least(@, from - 1)]
              /\ x.from = r.from /\ x.to =< r.to /\ x.to < from
           \/ to < r.to /\ x = [r EXCEPT !.from = Greatest(@, to + 1)]
              /\ x.to = r.to /\ r.from =< x.from /\ to < x.from
  OBVIOUS
<1>1. from \in Int /\ to \in Int
  BY DaysAreNumbers
<1>2. ASSUME NEW r \in R, r.from < from, x = [r EXCEPT !.to = Least(@, from - 1)]
      PROVE  x.from = r.from /\ x.to =< r.to /\ x.to < from
  BY <1>1, <1>2, RowDays DEF Least, Row
<1>3. ASSUME NEW r \in R, to < r.to, x = [r EXCEPT !.from = Greatest(@, to + 1)]
      PROVE  x.to = r.to /\ r.from =< x.from /\ to < x.from
  BY <1>1, <1>3, RowDays DEF Greatest, Row
<1>. QED
  BY <1>2, <1>3 DEF Outside

LEMMA OutsideApart ==
  ASSUME NEW R, WellFormed(R), Apart(R), NEW from \in Days, NEW to \in Days, from =< to
  PROVE  Apart(Outside(R, from, to))
<1>. SUFFICES ASSUME NEW x \in Outside(R, from, to), NEW y \in Outside(R, from, to), x # y
              PROVE  x.to < y.from \/ y.to < x.from
  BY DEF Apart
<1>1. /\ from \in Int /\ to \in Int /\ x.from \in Int /\ x.to \in Int
      /\ y.from \in Int /\ y.to \in Int
  BY OutsideWellFormed, RowDays, DaysAreNumbers
<1>2. PICK r \in R :
        \/ r.from < from /\ x = [r EXCEPT !.to = Least(@, from - 1)]
           /\ x.from = r.from /\ x.to =< r.to /\ x.to < from
        \/ to < r.to /\ x = [r EXCEPT !.from = Greatest(@, to + 1)]
           /\ x.to = r.to /\ r.from =< x.from /\ to < x.from
  BY OutsideParts
<1>3. PICK s \in R :
        \/ s.from < from /\ y = [s EXCEPT !.to = Least(@, from - 1)]
           /\ y.from = s.from /\ y.to =< s.to /\ y.to < from
        \/ to < s.to /\ y = [s EXCEPT !.from = Greatest(@, to + 1)]
           /\ y.to = s.to /\ s.from =< y.from /\ to < y.from
  BY OutsideParts
<1>4. /\ r.from \in Int /\ r.to \in Int /\ s.from \in Int /\ s.to \in Int
      /\ r.from =< x.from /\ x.to =< r.to /\ s.from =< y.from /\ y.to =< s.to
  BY <1>1, <1>2, <1>3, RowDays
<1>5. CASE r # s
  <2>1. r.to < s.from \/ s.to < r.from
    BY <1>5 DEF Apart
  <2>. QED
    BY <1>1, <1>4, <2>1
<1>6. CASE r = s
  BY <1>1, <1>2, <1>3, <1>4, <1>6
<1>. QED
  BY <1>5, <1>6

\* What no row holds on, nothing outside a period does.
LEMMA OutsideClear ==
  ASSUME NEW R, WellFormed(R), NEW from \in Days, NEW to \in Days,
         NEW a \in Int, NEW b \in Int, \A r \in R : r.to < a \/ b < r.from
  PROVE  \A x \in Outside(R, from, to) : x.to < a \/ b < x.from
<1>. SUFFICES ASSUME NEW x \in Outside(R, from, to)
              PROVE  x.to < a \/ b < x.from
  OBVIOUS
<1>1. PICK r \in R : r.from =< x.from /\ x.to =< r.to
  <2>1. \A r \in R : r.from =< r.from /\ r.to =< r.to
    BY RowDays
  <2>. QED
    BY <2>1, OutsideParts
<1>2. /\ r.from \in Int /\ r.to \in Int /\ x.from \in Int /\ x.to \in Int
  BY OutsideWellFormed, RowDays
<1>. QED
  BY <1>1, <1>2

\* The period itself is clear.
LEMMA OutsidePeriod ==
  ASSUME NEW R, WellFormed(R), NEW from \in Days, NEW to \in Days
  PROVE  \A x \in Outside(R, from, to) : x.to < from \/ to < x.from
BY OutsideParts

\* A union of rows that are apart, and of rows that the others leave clear.
LEMMA UnionApart ==
  ASSUME NEW R, Apart(R), NEW T, Apart(T), \A r \in R, x \in T : x.to < r.from \/ r.to < x.from
  PROVE  Apart(R \cup T)
BY DEF Apart

\* What is stored covers the rows that the payload begins and ends with, so that
\* a payload of more than two rows could overlap what is kept.
LEMMA MergedApart ==
  ASSUME NEW R, WellFormed(R), Apart(R), NEW payload, WellFormed(payload), Apart(payload),
         relation \in NulTilEn => Few(payload)
  PROVE  Apart(Merged(R, payload))
<1>1. CASE payload = {} \/ relation \notin NulTilEn
  BY <1>1 DEF Merged
<1>2. CASE payload # {} /\ relation \in NulTilEn
  <2>. DEFINE e == CHOOSE x \in Ends(payload) : TRUE
              kept == Outside(Outside(R, e[1].from, e[1].to), e[2].from, e[2].to)
  <2>1. e \in Ends(payload)
    BY <1>2, EndsExist
  <2>2. Merged(R, payload) = payload \cup kept
    BY <1>2 DEF Merged
  <2>. HIDE DEF e
  <2>3. e[1] \in payload /\ e[2] \in payload /\ (e[1] = e[2] => payload = {e[1]})
    BY <1>2, <2>1 DEF Ends
  <2>4. payload = {e[1], e[2]}
    BY <1>2, <2>3 DEF Few
  <2>5. /\ e[1].from \in Days /\ e[1].to \in Days /\ e[1].from =< e[1].to
        /\ e[2].from \in Days /\ e[2].to \in Days /\ e[2].from =< e[2].to
    BY <2>3 DEF WellFormed, Row
  <2>6. /\ e[1].from \in Int /\ e[1].to \in Int
    BY <2>5, DaysAreNumbers
  <2>. DEFINE first == Outside(R, e[1].from, e[1].to)
  <2>7. WellFormed(first) /\ Apart(first)
    BY <2>5, OutsideWellFormed, OutsideApart
  <2>8. \A x \in first : x.to < e[1].from \/ e[1].to < x.from
    BY <2>5, OutsidePeriod
  <2>9. kept = Outside(first, e[2].from, e[2].to)
    OBVIOUS
  <2>. HIDE DEF first, kept
  <2>10. Apart(kept)
    BY <2>5, <2>7, <2>9, OutsideApart
  <2>11. \A x \in kept : x.to < e[1].from \/ e[1].to < x.from
    BY <2>5, <2>6, <2>7, <2>8, <2>9, OutsideClear
  <2>12. \A x \in kept : x.to < e[2].from \/ e[2].to < x.from
    BY <2>5, <2>7, <2>9, OutsidePeriod
  <2>13. \A r \in payload, x \in kept : x.to < r.from \/ r.to < x.from
    BY <2>4, <2>11, <2>12
  <2>. QED
    BY <2>2, <2>10, <2>13, UnionApart
<1>. QED
  BY <1>1, <1>2

\* On a day there is at most one of the rows.
LEMMA OneADay ==
  ASSUME NEW R, WellFormed(R), Apart(R), NEW d \in Int, NEW r \in R, NEW s \in R,
         r.from =< d, d =< r.to, s.from =< d, d =< s.to
  PROVE  r = s
<1>1. r.from \in Int /\ r.to \in Int /\ s.from \in Int /\ s.to \in Int
  BY RowDays
<1>2. ~(r.to < s.from) /\ ~(s.to < r.from)
  BY <1>1
<1>. QED
  BY <1>2 DEF Apart

\* Rows of one value that follow on each other are read as one, from the first
\* to the last of them.
Follows(r, s) == Alike(r, s) /\ s.from = r.to + 1
Run(R, r, s) ==
  /\ Alike(r, s) /\ r.from =< s.from
  /\ \A d \in r.from .. s.to : \E x \in On(R, d) : Alike(r, x)
  /\ \A x \in R : ~Follows(x, r) /\ ~Follows(s, x)

LEMMA Runs ==
  ASSUME NEW R
  PROVE  \A x \in Consolidated(R) : \E r, s \in R : Run(R, r, s) /\ x = [r EXCEPT !.to = s.to]
<1>1. Consolidated(R) =
        {[p[1] EXCEPT !.to = p[2].to] : p \in {q \in R \X R : Run(R, q[1], q[2])}}
  BY DEF Consolidated, Run, Follows
<1>. QED
  BY <1>1

\* Two runs that share a day are of one value and begin and end together.
LEMMA RunBegins ==
  ASSUME NEW R, WellFormed(R), Apart(R), NEW r \in R, NEW s \in R, NEW p \in R, NEW q \in R,
         Run(R, r, s), Run(R, p, q), Alike(r, p),
         r.from < p.from, p.from =< s.to
  PROVE  FALSE
<1>1. /\ r.from \in Int /\ s.to \in Int /\ p.from \in Int /\ p.to \in Int
      /\ p.from =< p.to
  BY RowDays
<1>2. p.from - 1 \in r.from .. s.to
  BY <1>1
<1>3. PICK x \in On(R, p.from - 1) : Alike(r, x)
  BY <1>2 DEF Run
<1>4. /\ x \in R /\ x.from \in Int /\ x.to \in Int
      /\ x.from =< p.from - 1 /\ p.from - 1 =< x.to
  BY <1>3, RowDays DEF On
<1>5. x # p
  BY <1>1, <1>4
<1>6. x.to < p.from \/ p.to < x.from
  BY <1>4, <1>5 DEF Apart
<1>7. p.from = x.to + 1
  BY <1>1, <1>4, <1>6
<1>8. Alike(x, p)
  BY <1>3 DEF Alike
<1>9. ~Follows(x, p)
  BY <1>4 DEF Run
<1>. QED
  BY <1>7, <1>8, <1>9 DEF Follows

LEMMA RunEnds ==
  ASSUME NEW R, WellFormed(R), Apart(R), NEW r \in R, NEW s \in R, NEW p \in R, NEW q \in R,
         Run(R, r, s), Run(R, p, q), Alike(r, p),
         q.to < s.to, r.from =< q.to
  PROVE  FALSE
<1>1. /\ r.from \in Int /\ s.to \in Int /\ q.from \in Int /\ q.to \in Int
      /\ q.from =< q.to
  BY RowDays
<1>2. q.to + 1 \in r.from .. s.to
  BY <1>1
<1>3. PICK x \in On(R, q.to + 1) : Alike(r, x)
  BY <1>2 DEF Run
<1>4. /\ x \in R /\ x.from \in Int /\ x.to \in Int
      /\ x.from =< q.to + 1 /\ q.to + 1 =< x.to
  BY <1>3, RowDays DEF On
<1>5. x # q
  BY <1>1, <1>4
<1>6. x.to < q.from \/ q.to < x.from
  BY <1>4, <1>5 DEF Apart
<1>7. x.from = q.to + 1
  BY <1>1, <1>4, <1>6
<1>8. Alike(q, x)
  BY <1>3 DEF Alike, Run
<1>9. ~Follows(q, x)
  BY <1>4 DEF Run
<1>. QED
  BY <1>7, <1>8, <1>9 DEF Follows

LEMMA ConsolidatedApart ==
  ASSUME NEW R, WellFormed(R), Apart(R)
  PROVE  Apart(Consolidated(R))
<1>. SUFFICES ASSUME NEW x \in Consolidated(R), NEW y \in Consolidated(R),
                     ~(x.to < y.from), ~(y.to < x.from)
              PROVE  x = y
  BY DEF Apart
<1>1. PICK r \in R, s \in R : Run(R, r, s) /\ x = [r EXCEPT !.to = s.to]
  BY Runs
<1>2. PICK p \in R, q \in R : Run(R, p, q) /\ y = [p EXCEPT !.to = q.to]
  BY Runs
<1>3. /\ r \in Row /\ p \in Row
      /\ r.from \in Int /\ r.to \in Int /\ s.from \in Int /\ s.to \in Int /\ s.from =< s.to
      /\ p.from \in Int /\ p.to \in Int /\ q.from \in Int /\ q.to \in Int /\ q.from =< q.to
      /\ r.from =< r.to /\ p.from =< p.to
  BY RowDays
<1>4. /\ x.from = r.from /\ x.to = s.to /\ y.from = p.from /\ y.to = q.to
      /\ r.from =< s.from /\ p.from =< q.from
  BY <1>1, <1>2, <1>3 DEF Row, Run
<1>5. r.from =< q.to /\ p.from =< s.to
  BY <1>3, <1>4
\* A day of both, the later of the first days.
<1>6. Alike(r, p)
  <2>. DEFINE d == IF r.from =< p.from THEN p.from ELSE r.from
  <2>1. d \in Int /\ d \in r.from .. s.to /\ d \in p.from .. q.to
    BY <1>3, <1>4, <1>5
  <2>. HIDE DEF d
  <2>2. PICK z \in On(R, d) : Alike(r, z)
    BY <1>1, <2>1 DEF Run
  <2>3. PICK w \in On(R, d) : Alike(p, w)
    BY <1>2, <2>1 DEF Run
  <2>4. z = w
    BY <2>1, <2>2, <2>3, OneADay DEF On
  <2>. QED
    BY <2>2, <2>3, <2>4 DEF Alike
<1>7. Alike(p, r)
  BY <1>6 DEF Alike
<1>8. r.from = p.from
  BY <1>1, <1>2, <1>3, <1>5, <1>6, <1>7, RunBegins
<1>9. s.to = q.to
  BY <1>1, <1>2, <1>3, <1>5, <1>6, <1>7, RunEnds
<1>10. r = p
  BY <1>3, <1>8, OneADay
<1>. QED
  BY <1>1, <1>2, <1>9, <1>10
----------------------------------------------------------------------------
LEMMA AtMostOne ==
  ASSUME NEW S, IsFiniteSet(S)
  PROVE  Cardinality(S) =< 1 <=> \A x, y \in S : x = y
<1>1. Cardinality(S) \in Nat
  BY FS_CardinalityType
<1>2. Cardinality(S) =< 1 <=> Cardinality(S) = 0 \/ Cardinality(S) = 1
  BY <1>1
<1>3. Cardinality(S) = 0 <=> S = {}
  BY FS_EmptySet
<1>4. Cardinality(S) = 1 <=> \E x : S = {x}
  BY FS_Singleton
<1>. QED
  BY <1>2, <1>3, <1>4

LEMMA OneRow ==
  ASSUME NEW R, \A r, s \in R : r = s
  PROVE  Apart(R) /\ Few(R)
BY DEF Apart, Few

\* ensure_bounds makes the first row begin earlier and the last one end later.
LEMMA EnsureBoundsApart ==
  ASSUME NEW R, WellFormed(R), Apart(R), NEW e \in Ends(R), R # {},
         NEW from \in Days, NEW to \in Days, from =< to
  PROVE  /\ Apart(EnsureBounds(R, "one", e, from, to)) /\ Few(EnsureBounds(R, "one", e, from, to))
         /\ Apart(EnsureBounds(R, "adapted", e, from, to))
<1>. DEFINE M(r) == Moved(r, e, from, to)
<1>1. /\ e[1] \in R /\ e[2] \in R /\ \A x \in R : e[1].from =< x.from /\ x.from =< e[2].from
      /\ e[1] = e[2] => R = {e[1]}
  BY DEF Ends
<1>2. from \in Int /\ to \in Int
  BY DaysAreNumbers
<1>3. ASSUME NEW r \in R
      PROVE  /\ M(r).from = IF r = e[1] THEN Least(r.from, from) ELSE r.from
             /\ M(r).to = IF r = e[2] THEN Greatest(r.to, to) ELSE r.to
  <2>1. r \in Row
    BY RowDays
  <2>. QED
    BY <2>1 DEF Moved, Row
<1>4. ASSUME NEW r \in R, NEW s \in R, r # s, r.to < s.from
      PROVE  M(r).to < M(s).from
  <2>1. /\ r.from \in Int /\ r.to \in Int /\ s.from \in Int /\ s.to \in Int /\ r.from =< r.to
    BY RowDays
  <2>2. r # e[2]
    <3>1. s.from =< e[2].from
      BY <1>1
    <3>. QED
      BY <1>4, <2>1, <3>1
  <2>3. s # e[1]
    <3>1. e[1].from =< r.from
      BY <1>1
    <3>. QED
      BY <1>4, <2>1, <3>1
  <2>. QED
    BY <1>3, <1>4, <2>2, <2>3
<1>. HIDE DEF M
<1>5. ASSUME NEW T \in SUBSET R
      PROVE  Apart({M(r) : r \in T})
  <2>. SUFFICES ASSUME NEW r \in T, NEW s \in T, M(r) # M(s)
                PROVE  M(r).to < M(s).from \/ M(s).to < M(r).from
    BY DEF Apart
  <2>1. r.to < s.from \/ s.to < r.from
    BY DEF Apart
  <2>. QED
    BY <1>4, <2>1
<1>. DEFINE moving == {r \in R : M(r) # r}
<1>6. /\ EnsureBounds(R, "one", e, from, to) = {M(r) : r \in moving}
      /\ EnsureBounds(R, "adapted", e, from, to) = IF moving = {} THEN {} ELSE {M(r) : r \in R}
  BY DEF EnsureBounds, M
<1>7. moving \subseteq {e[1], e[2]}
  <2>. SUFFICES ASSUME NEW r \in R, r # e[1], r # e[2]
                PROVE  M(r) = r
    OBVIOUS
  <2>1. r = [from |-> r.from, to |-> r.to, of |-> r.of, target |-> r.target]
    BY RowDays DEF Row
  <2>2. M(r) = [r EXCEPT !.from = r.from, !.to = r.to]
    BY DEF M, Moved
  <2>. QED
    BY <2>1, <2>2
<1>8. Few({M(r) : r \in moving})
  <2>1. CASE \A r, s \in moving : r = s
    BY <2>1, OneRow
  <2>2. CASE \E r, s \in moving : r # s
    <3>1. moving = {e[1], e[2]} /\ e[1] # e[2]
      BY <1>7, <2>2
    <3>2. {M(r) : r \in moving} = {M(e[1]), M(e[2])}
      BY <3>1
    <3>3. e[1].to < e[2].from
      <4>1. /\ e[1].from \in Int /\ e[1].to \in Int /\ e[2].from \in Int /\ e[2].to \in Int
            /\ e[1].from =< e[2].from /\ e[2].from =< e[2].to
        BY <1>1, RowDays
      <4>2. e[1].to < e[2].from \/ e[2].to < e[1].from
        BY <1>1, <3>1 DEF Apart
      <4>. QED
        BY <4>1, <4>2
    <3>4. M(e[1]).to < M(e[2]).from
      BY <1>1, <1>4, <3>1, <3>3
    <3>. QED
      BY <3>2, <3>4 DEF Few
  <2>. QED
    BY <2>1, <2>2
<1>9. Apart({}) /\ Apart({M(r) : r \in R}) /\ Apart({M(r) : r \in moving})
  <2>1. Apart({})
    BY DEF Apart
  <2>. QED
    BY <1>5, <2>1
<1>. QED
  BY <1>6, <1>8, <1>9

\* The wish for a field of which there is one.
LEMMA NewRowsOne ==
  ASSUME NEW f, NEW targets, \A x, y \in targets : x = y, NEW from, NEW to
  PROVE  \A r, s \in NewRows(f, targets, from, to) : r = s
BY DEF NewRows

LEMMA NewRowsDays ==
  ASSUME NEW f, NEW targets, NEW from, NEW to
  PROVE  \A r \in NewRows(f, targets, from, to) : r.from = from /\ r.to = to
BY DEF NewRows, NewRow

LEMMA PayloadApart ==
  ASSUME role \in Roles, NEW R, WellFormed(R), Apart(R), NEW f, SoleField(f),
         NEW w, Writes(w), DOMAIN w \subseteq {f},
         \A g \in DOMAIN w : \A x, y \in w[g] : x = y,
         NEW e \in Ends(UNION {Of(R, t) : t \in Unwritten(w)}),
         NEW from \in Days, NEW to \in Days, from =< to
  PROVE  /\ Apart(Payload(R, w, e, from, to))
         /\ relation \in NulTilEn => Few(Payload(R, w, e, from, to))
<1>. DEFINE New(t) ==
       UNION {NewRows(g, w[g], from, to) : g \in {x \in DOMAIN w : Edit[role][x].tuple = t}}
     Part(t) == IF t.type = "adapted" THEN New(t) \cup Outside(Of(R, t), from, to) ELSE New(t)
     Rest(t) == EnsureBounds(Of(R, t), t.type, e, from, to)
<1>1. Payload(R, w, e, from, to) =
        (UNION {Part(t) : t \in Written(w)}) \cup (UNION {Rest(t) : t \in Unwritten(w)})
  BY DEF Payload
<1>2. Of(R, Tuple) = R /\ Tuple.type = (IF relation \in NulTilEn THEN "one" ELSE "adapted")
  BY DEF Of, Tuple
<1>3. Unwritten(w) \subseteq {Tuple}
  BY DEF Unwritten, SoleField
<1>4. from \in Int /\ to \in Int
  BY DaysAreNumbers
<1>5. CASE f \in DOMAIN w
  <2>1. DOMAIN w = {f} /\ f \in DOMAIN Edit[role] /\ Edit[role][f].tuple = Tuple
    <3>1. DOMAIN w = {f}
      BY <1>5
    <3>2. f \in DOMAIN Edit[role]
      BY <1>5 DEF Writes
    <3>. QED
      BY <3>1, <3>2 DEF SoleField
  <2>2. Written(w) = {Tuple}
    BY <2>1 DEF Written
  <2>3. Unwritten(w) = {}
    BY <1>3, <2>2 DEF Unwritten
  <2>4. New(Tuple) = NewRows(f, w[f], from, to)
    BY <2>1
  <2>5. \A r, s \in New(Tuple) : r = s
    BY <2>1, <2>4, NewRowsOne
  <2>6. Apart(New(Tuple)) /\ Few(New(Tuple))
    BY <2>5, OneRow
  <2>7. \A r \in New(Tuple) : r.from = from /\ r.to = to
    BY <2>4, NewRowsDays
  <2>. HIDE DEF New
  <2>8. Payload(R, w, e, from, to) = Part(Tuple)
    BY <1>1, <2>2, <2>3
  <2>9. /\ Apart(Outside(R, from, to))
        /\ \A x \in Outside(R, from, to) : x.to < from \/ to < x.from
    BY OutsideApart, OutsidePeriod
  <2>10. Apart(New(Tuple) \cup Outside(R, from, to))
    BY <2>6, <2>7, <2>9, UnionApart
  <2>. QED
    BY <1>2, <2>6, <2>8, <2>10
<1>6. CASE f \notin DOMAIN w
  <2>1. DOMAIN w = {} /\ Written(w) = {}
    BY <1>6 DEF Written
  <2>2. Unwritten(w) = {} \/ Unwritten(w) = {Tuple}
    BY <1>3
  <2>3. CASE Unwritten(w) = {}
    <3>1. Payload(R, w, e, from, to) = {}
      BY <1>1, <2>1, <2>3
    <3>. QED
      BY <3>1, OneRow
  <2>4. CASE Unwritten(w) = {Tuple}
    <3>1. Payload(R, w, e, from, to) = EnsureBounds(R, Tuple.type, e, from, to)
      BY <1>1, <1>2, <2>1, <2>4
    <3>2. e \in Ends(R)
      BY <1>2, <2>4
    <3>3. CASE R # {}
      BY <1>2, <3>1, <3>2, <3>3, EnsureBoundsApart
    <3>4. CASE R = {}
      <4>1. EnsureBounds(R, Tuple.type, e, from, to) = {}
        BY <1>2, <3>4 DEF EnsureBounds
      <4>. QED
        BY <3>1, <4>1, OneRow
    <3>. QED
      BY <3>3, <3>4
  <2>. QED
    BY <2>2, <2>3, <2>4
<1>. QED
  BY <1>5, <1>6
----------------------------------------------------------------------------
AllApart ==
  Sole =>
    /\ Apart(rows)
    /\ \A c \in Clients : pending[c] # NoRequest =>
         /\ Apart(pending[c].payload)
         /\ relation \in NulTilEn => Few(pending[c].payload)

\* The manager's level and responsibilities share a relation.
LEMMA TasksAreTwo == ASSUME NEW f, SoleField(f) PROVE ~ManagerTasks
<1>. SUFFICES ASSUME ManagerTasks PROVE FALSE
  OBVIOUS
<1>1. /\ {"manager_level", "responsibility"} \subseteq DOMAIN ManagerCreate
      /\ ManagerCreate["manager_level"].relation = "opgaver"
      /\ ManagerCreate["responsibility"].relation = "opgaver"
  BY DEF ManagerCreate, InAs
<1>2. role = "manager" /\ relation = "opgaver" /\ Create["manager"] = ManagerCreate
  BY DEF ManagerTasks, Create
<1>3. {"manager_level", "responsibility"} \subseteq Fields
  BY <1>1, <1>2 DEF Fields
<1>. QED
  BY <1>3 DEF SoleField

\* For its one field, a wish names one reference, or none.
LEMMA WishesAreSingle ==
  ASSUME NEW f, SoleField(f), NEW w \in Wish, NEW nullable, Allowed(w, nullable), role \in Roles
  PROVE  DOMAIN w \subseteq {f} /\ \A g \in DOMAIN w : \A x, y \in w[g] : x = y
<1>1. DOMAIN w \subseteq {f}
  BY WishesAreReferences DEF SoleField
<1>2. ASSUME NEW g \in DOMAIN w PROVE \A x, y \in w[g] : x = y
  <2>1. g = f /\ Cardinality(w[g]) =< 1
    BY <1>1 DEF Allowed, SoleField
  <2>2. CASE relation = "gyldighed"
    <3>1. w = [state |-> {"Aktiv"}]
      BY <2>2 DEF Wish
    <3>. QED
      BY <3>1
  <2>3. CASE relation # "gyldighed"
    <3>1. w[g] \subseteq Targets
      <4>1. PICK S \in SUBSET Fields : w \in [S -> SUBSET Targets]
        BY <2>3 DEF Wish
      <4>. QED
        BY <4>1
    <3>2. IsFiniteSet(w[g])
      BY <3>1, DetailAssumption, FS_Subset
    <3>. QED
      BY <2>1, <3>2, AtMostOne
  <2>. QED
    BY <2>2, <2>3
<1>. QED
  BY <1>1, <1>2

LEMMA InitApart == Init => AllApart
<1>. SUFFICES ASSUME Init, NEW f, SoleField(f)
              PROVE  /\ Apart(rows)
                     /\ \A c \in Clients : pending[c] # NoRequest =>
                          /\ Apart(pending[c].payload)
                          /\ relation \in NulTilEn => Few(pending[c].payload)
  BY DEF AllApart, Sole
<1>. DEFINE Creation(c) ==
       \E from \in Days : \E to \in from .. Horizon, w \in Wish :
         /\ DOMAIN w = Fields /\ Allowed(w, Fields \ Needs[role])
         /\ pending = [x \in Clients |->
              IF x = c THEN Request("create", w, from, to, CreateRows(w, from, to))
              ELSE NoRequest]
<1>1. PICK c \in Clients : role \in Roles /\ rows = {} /\ Creation(c)
  BY DEF Init
<1>2. PICK from \in Days : \E to \in from .. Horizon, w \in Wish :
        /\ DOMAIN w = Fields /\ Allowed(w, Fields \ Needs[role])
        /\ pending = [x \in Clients |->
             IF x = c THEN Request("create", w, from, to, CreateRows(w, from, to))
             ELSE NoRequest]
  BY <1>1
<1>3. PICK to \in from .. Horizon, w \in Wish :
        /\ DOMAIN w = Fields /\ Allowed(w, Fields \ Needs[role])
        /\ pending = [x \in Clients |->
             IF x = c THEN Request("create", w, from, to, CreateRows(w, from, to))
             ELSE NoRequest]
  BY <1>2
<1>4. DOMAIN w = {f} /\ \A g \in DOMAIN w : \A x, y \in w[g] : x = y
  BY <1>1, <1>3, WishesAreSingle DEF SoleField
<1>5. \A r, s \in CreateRows(w, from, to) : r = s
  <2>. DEFINE given == IF f = "parent" /\ w[f] = {} THEN {Empty} ELSE w[f]
  <2>1. CreateRows(w, from, to) = {NewRow(from, to, Create[role][f].of, t) : t \in given}
    BY <1>4 DEF CreateRows
  <2>2. \A x, y \in given : x = y
    BY <1>4
  <2>. HIDE DEF given
  <2>. QED
    BY <2>1, <2>2
<1>6. Apart(CreateRows(w, from, to)) /\ Few(CreateRows(w, from, to))
  BY <1>5, OneRow
<1>7. ASSUME NEW x \in Clients, pending[x] # NoRequest
      PROVE  pending[x].payload = CreateRows(w, from, to)
  BY <1>3, <1>7 DEF Request
<1>8. Apart(rows)
  BY <1>1 DEF Apart
<1>. QED
  BY <1>6, <1>7, <1>8

\* Another request is prepared.
LEMMA PreparedApart ==
  ASSUME IInv, AllApart, UNCHANGED <<role, relation, rows>>, NEW c \in Clients, NEW q,
         pending' = [pending EXCEPT ![c] = q],
         Sole => Apart(q.payload) /\ (relation \in NulTilEn => Few(q.payload))
  PROVE  AllApart'
<1>1. Sole' <=> Sole
  BY DEF Sole, SoleField, Fields, Tuple
<1>2. \A x \in Clients : pending'[x] = q \/ pending'[x] = pending[x]
  BY DEF IInv
<1>. QED
  BY <1>1, <1>2 DEF AllApart, Apart, Few

\* Something is stored.
LEMMA StoredApart ==
  ASSUME AllApart, UNCHANGED <<role, relation>>, NEW c \in Clients, pending' = Stale(c),
         Sole => Apart(rows')
  PROVE  AllApart'
<1>1. Sole' <=> Sole
  BY DEF Sole, SoleField, Fields, Tuple
<1>2. ASSUME NEW x \in Clients, pending'[x] # NoRequest
      PROVE  pending[x] # NoRequest /\ pending'[x] = [pending[x] EXCEPT !.fresh = FALSE]
  BY <1>2 DEF Stale
<1>3. ASSUME NEW x \in Clients, pending'[x] # NoRequest, Sole
      PROVE  /\ Apart(pending'[x].payload)
             /\ relation \in NulTilEn => Few(pending'[x].payload)
  <2>1. pending[x] # NoRequest /\ pending'[x] = [pending[x] EXCEPT !.fresh = FALSE]
    BY <1>2, <1>3
  <2>. QED
    BY <1>3, <2>1 DEF AllApart
<1>. QED
  BY <1>1, <1>3 DEF AllApart, Apart, Few

LEMMA StepApart == IInv /\ AllApart /\ [Next]_vars => AllApart'
<1>. SUFFICES ASSUME IInv, AllApart, [Next]_vars PROVE AllApart'
  OBVIOUS
<1>1. CASE UNCHANGED vars
  BY <1>1 DEF vars, AllApart, Apart, Few, Sole, SoleField, Fields, Tuple
<1>2. ASSUME NEW c \in Clients, Prepare(c) PROVE AllApart'
  <2>1. PICK read \in {Consolidated(rows)}, w \in Wish :
          /\ Allowed(w, Update[role].nullable)
          /\ \E done \in Completed(read, w) :
             \E e \in Ends(UNION {Of(read, t) : t \in Unwritten(done)}) :
             \E from \in Days : \E to \in from .. Horizon :
               pending' = [pending EXCEPT ![c] =
                 Request("update", w, from, to, Payload(read, done, e, from, to))]
    BY <1>2, Zenon DEF Prepare
  <2>2. PICK done \in Completed(read, w) :
          \E e \in Ends(UNION {Of(read, t) : t \in Unwritten(done)}) :
          \E from \in Days : \E to \in from .. Horizon :
            pending' = [pending EXCEPT ![c] =
              Request("update", w, from, to, Payload(read, done, e, from, to))]
    BY <2>1, Zenon
  <2>3. PICK e \in Ends(UNION {Of(read, t) : t \in Unwritten(done)}), from \in Days :
          \E to \in from .. Horizon :
            pending' = [pending EXCEPT ![c] =
              Request("update", w, from, to, Payload(read, done, e, from, to))]
    BY <2>2, Zenon
  <2>4. PICK to \in from .. Horizon :
          pending' = [pending EXCEPT ![c] =
            Request("update", w, from, to, Payload(read, done, e, from, to))]
    BY <2>3, Zenon
  <2>5. to \in Days /\ from =< to
    BY <2>4, DaysAreNumbers DEF Days
  <2>. DEFINE payload == Payload(read, done, e, from, to)
              q == Request("update", w, from, to, payload)
  <2>6. ASSUME NEW f, SoleField(f)
        PROVE  Apart(payload) /\ (relation \in NulTilEn => Few(payload))
    <3>1. role \in Roles /\ WellFormed(rows) /\ Apart(rows)
      BY <2>6 DEF IInv, AllApart, Sole
    <3>2. WellFormed(read) /\ Apart(read)
      BY <3>1, ConsolidatedWellFormed, ConsolidatedApart
    <3>3. done = Edited(w)
      BY <2>6, TasksAreTwo DEF Completed
    <3>4. DOMAIN w \subseteq {f} /\ \A g \in DOMAIN w : \A x, y \in w[g] : x = y
      BY <2>1, <2>6, <3>1, WishesAreSingle
    <3>5. DOMAIN done \subseteq DOMAIN Sent(w) /\ \A g \in DOMAIN done : done[g] = Sent(w)[g]
      BY <3>3 DEF Edited
    <3>6. DOMAIN Sent(w) \subseteq {f} /\ \A g \in DOMAIN Sent(w) : \A x, y \in Sent(w)[g] : x = y
      <4>1. Fields = {f}
        BY <2>6 DEF SoleField
      <4>. QED
        BY <3>4, <4>1 DEF Sent
    <3>7. DOMAIN done \subseteq {f} /\ \A g \in DOMAIN done : \A x, y \in done[g] : x = y
      BY <3>5, <3>6
    <3>8. Writes(done)
      BY <3>1, <3>2, CompletedWrites
    <3>. QED
      BY <2>5, <2>6, <3>1, <3>2, <3>7, <3>8, PayloadApart
  <2>7. q.payload = payload
    BY DEF Request
  <2>8. UNCHANGED <<role, relation, rows>>
    BY <1>2 DEF Prepare
  <2>9. pending' = [pending EXCEPT ![c] = q]
    BY <2>4
  <2>. HIDE DEF payload, q
  <2>. QED
    BY <2>6, <2>7, <2>8, <2>9, PreparedApart DEF Sole
<1>3. ASSUME NEW c \in Clients, Terminate(c) PROVE AllApart'
  <2>1. PICK from, to :
          pending' = [pending EXCEPT ![c] =
            Request("terminate", [state |-> {"Inaktiv"}], from, to,
                    {NewRow(from, to, Plain, "Inaktiv")})]
    BY <1>3 DEF Terminate
  <2>. DEFINE payload == {NewRow(from, to, Plain, "Inaktiv")}
              q == Request("terminate", [state |-> {"Inaktiv"}], from, to, payload)
  <2>2. Apart(payload) /\ Few(payload)
    BY OneRow
  <2>3. q.payload = payload
    BY DEF Request
  <2>4. UNCHANGED <<role, relation, rows>>
    BY <1>3 DEF Terminate
  <2>5. pending' = [pending EXCEPT ![c] = q]
    BY <2>1
  <2>. HIDE DEF payload, q
  <2>. QED
    BY <2>2, <2>3, <2>4, <2>5, PreparedApart
<1>4. ASSUME NEW c \in Clients, Vacate(c) PROVE AllApart'
  <2>1. PICK from \in Days :
          pending' = [pending EXCEPT ![c] =
            Request("vacate", [person |-> {}], from, Horizon,
                    {NewRow(from, Horizon, Plain, Empty)}
                      \cup Outside(On(Consolidated(rows), from), from, Horizon))]
    BY <1>4 DEF Vacate
  <2>. DEFINE new == {NewRow(from, Horizon, Plain, Empty)}
              held == On(Consolidated(rows), from)
              payload == new \cup Outside(held, from, Horizon)
              q == Request("vacate", [person |-> {}], from, Horizon, payload)
  <2>2. relation = "tilknyttedebrugere" /\ relation \notin NulTilEn
        /\ UNCHANGED <<role, relation, rows>>
    BY <1>4 DEF Vacate, NulTilEn
  <2>3. ASSUME Sole PROVE Apart(payload)
    <3>1. Horizon \in Days /\ from =< Horizon
      BY DaysAreNumbers DEF Days
    <3>2. WellFormed(rows) /\ Apart(rows)
      BY <2>3 DEF IInv, AllApart
    <3>3. WellFormed(held) /\ Apart(held)
      <4>1. WellFormed(Consolidated(rows)) /\ Apart(Consolidated(rows))
        BY <3>2, ConsolidatedWellFormed, ConsolidatedApart
      <4>. QED
        BY <4>1, Parts DEF On, Apart
    <3>4. /\ Apart(Outside(held, from, Horizon))
          /\ \A x \in Outside(held, from, Horizon) : x.to < from \/ Horizon < x.from
      BY <3>1, <3>3, OutsideApart, OutsidePeriod
    <3>5. Apart(new) /\ \A r \in new : r.from = from /\ r.to = Horizon
      BY OneRow DEF NewRow
    <3>. HIDE DEF new, held
    <3>. QED
      BY <3>4, <3>5, UnionApart
  <2>4. q.payload = payload
    BY DEF Request
  <2>5. pending' = [pending EXCEPT ![c] = q]
    BY <2>1
  <2>. HIDE DEF payload, q
  <2>. QED
    BY <2>2, <2>3, <2>4, <2>5, PreparedApart
<1>5. ASSUME NEW c \in Clients, Store(c) PROVE AllApart'
  <2>1. /\ pending[c] # NoRequest /\ rows' = Merged(rows, pending[c].payload)
        /\ pending' = Stale(c) /\ UNCHANGED <<role, relation>>
    BY <1>5 DEF Store
  <2>2. WellFormed(rows) /\ WellFormed(pending[c].payload)
    BY <2>1 DEF IInv, PendingOK
  <2>3. ASSUME Sole PROVE Apart(rows')
    BY <2>1, <2>2, <2>3, MergedApart DEF AllApart
  <2>. QED
    BY <2>1, <2>3, StoredApart
<1>6. ASSUME NEW c \in Clients, Delete(c) PROVE AllApart'
  <2>1. rows' = {} /\ pending' = Stale(c) /\ UNCHANGED <<role, relation>>
    BY <1>6 DEF Delete
  <2>2. Apart(rows')
    BY <2>1 DEF Apart
  <2>. QED
    BY <2>1, <2>2, StoredApart
<1>. QED
  BY <1>1, <1>2, <1>3, <1>4, <1>5, <1>6 DEF Next

----------------------------------------------------------------------------
\* An object is cut into periods wherever one of its rows begins or ends, so that
\* a row that overlaps the period of a day holds on that day.
LEMMA EffectHolds ==
  ASSUME WellFormed(rows), relation \in Relevant[role], NEW d \in Days, NEW r \in Effect(rows, d)
  PROVE  r \in rows /\ r.from =< d /\ d =< r.to
<1>1. d \in Int /\ Days \subseteq Int
  BY DaysAreNumbers
<1>2. Cuts(rows) = {x.from : x \in rows} \cup {x.to + 1 : x \in rows}
  BY DEF Cuts
<1>3. PICK x \in Period(rows, d) : r \in rows /\ r.from =< x /\ x =< r.to
  BY DEF Effect
<1>4. x \in Int /\ \A k \in Cuts(rows) : k =< d <=> k =< x
  BY <1>1 DEF Period
<1>5. r.from \in Cuts(rows) /\ r.to + 1 \in Cuts(rows)
  BY <1>2, <1>3
<1>6. r.from \in Int /\ r.to \in Int
  BY <1>3, RowDays
<1>. QED
  BY <1>1, <1>3, <1>4, <1>5, <1>6

\* Rows that are apart are read one at a time.
LEMMA ApartReadsOne ==
  ASSUME IInv, NEW f, SoleField(f), Apart(rows)
  PROVE  OneReference
<1>. SUFFICES ASSUME NEW g \in Fields, NEW d \in Days
              PROVE  Cardinality(Reading(rows, g, d)) =< 1
  BY DEF OneReference
<1>1. d \in Int /\ Days \subseteq Int /\ WellFormed(rows)
  BY DaysAreNumbers DEF IInv
<1>3. ASSUME NEW r \in Effect(rows, d)
      PROVE  r \in rows /\ r.from =< d /\ d =< r.to
  BY <1>1, EffectHolds DEF SoleField
<1>4. \A r, s \in Effect(rows, d) : r = s
  BY <1>1, <1>3, OneADay
<1>5. \A x, y \in Reading(rows, g, d) : x = y
  BY <1>4 DEF Reading, Of
<1>6. IsFiniteSet(Reading(rows, g, d))
  <2>1. Reading(rows, g, d) = {} \/ \E x : Reading(rows, g, d) = {x}
    BY <1>5
  <2>. QED
    BY <2>1, FS_EmptySet, FS_Singleton
<1>. QED
  BY <1>5, <1>6, AtMostOne
----------------------------------------------------------------------------
\* The relations that hold several references at once, as real lists or for
\* several fields, or rows of one object type among others.
Shared ==
  {<<"org_unit", "opgaver">>, <<"org_unit", "opmaerkning">>, <<"ituser", "tilknyttedefunktioner">>,
   <<"association", "tilknyttedeklasser">>, <<"manager", "opgaver">>, <<"address", "opgaver">>,
   <<"address", "tilknyttedefunktioner">>, <<"kle", "opgaver">>, <<"class", "mapninger">>}

TupleOf(name) ==
  [relation |-> name, of |-> AnyType, type |-> IF name \in NulTilEn THEN "one" ELSE "adapted"]

\* The entries of the tables of a kind of object: every other relation has one
\* field, which is written, extended, cut and read as such.
Own(kind, create, edit, bounds, relevant) ==
  \A f \in DOMAIN create :
    LET name == create[f].relation
    IN  <<kind, name>> \notin Shared =>
          /\ \A g \in DOMAIN create : create[g].relation = name => g = f
          /\ <<kind, f>> \notin Multiple /\ name \in relevant
          /\ f \in DOMAIN edit => edit[f].tuple = TupleOf(name)
          /\ \A t \in bounds : t.relation = name => t = TupleOf(name)

LEMMA OwnRelations ==
  \A kind \in Roles : Own(kind, Create[kind], Edit[kind], Bounds[kind], Relevant[kind])
<1>. USE DEF Own, Shared, TupleOf, NulTilEn, Multiple, ZeroToOne, ZeroToMany, Adapted, In, InAs,
     To, ToAs, AnyType, OrgFunkRelevant, JOB_FUNCTION_FIELD, ORG_FUNK_TYPE_FIELD,
     ORG_FUNK_CLASSES_FIELD, ASSOCIATED_ORG_UNIT_FIELD, ASSOCIATED_FUNCTION_FIELD,
     ENGAGEMENT_FIELD, IT_USER_FIELD, USER_FIELD, ADDRESS_TYPE_FIELD, KLE_ASPECT_FIELD,
     RESPONSIBILITY_FIELD, MANAGER_LEVEL_FIELD, VISIBILITY_FIELD, SINGLE_ITSYSTEM_FIELD,
     EMPLOYEE_PERSON_FIELD, PRIMARY_FIELD, ORG_UNIT_TYPE_FIELD, ORG_UNIT_LEVEL_FIELD,
     ORG_UNIT_HIERARCHY_FIELD, ORG_UNIT_TIME_PLANNING_FIELD, PARENT_FIELD,
     PARENT_CLASS_FIELD, GYLDIGHED_FIELD
<1>1. Own("engagement", EngagementCreate, EngagementEdit, ENGAGEMENT_FIELDS, OrgFunkRelevant)
  BY DEF EngagementCreate, EngagementEdit, ENGAGEMENT_FIELDS
<1>2. Own("association", AssociationCreate, AssociationEdit, ASSOCIATION_FIELDS, OrgFunkRelevant)
  BY DEF AssociationCreate, AssociationEdit, ASSOCIATION_FIELDS
<1>3. Own("itassociation", ITAssociationCreate, ITAssociationEdit, ASSOCIATION_FIELDS, OrgFunkRelevant)
  BY DEF ITAssociationCreate, ITAssociationEdit, ASSOCIATION_FIELDS
<1>4. Own("manager", ManagerCreate, ManagerEdit, MANAGER_FIELDS, OrgFunkRelevant)
  BY DEF ManagerCreate, ManagerEdit, MANAGER_FIELDS
<1>5. Own("leave", LeaveCreate, LeaveEdit, LEAVE_FIELDS, OrgFunkRelevant)
  BY DEF LeaveCreate, LeaveEdit, LEAVE_FIELDS
<1>6. Own("address", AddressCreate, AddressEdit, ADDRESS_FIELDS, OrgFunkRelevant)
  BY DEF AddressCreate, AddressEdit, ADDRESS_FIELDS
<1>7. Own("ituser", ITUserCreate, ITUserEdit, ITSYSTEM_FIELDS, OrgFunkRelevant)
  BY DEF ITUserCreate, ITUserEdit, ITSYSTEM_FIELDS
<1>8. Own("kle", KLECreate, KLEEdit, KLE_FIELDS, OrgFunkRelevant)
  BY DEF KLECreate, KLEEdit, KLE_FIELDS
<1>9. Own("owner", OwnerCreate, OwnerEdit, OWNER_FIELDS, OrgFunkRelevant)
  BY DEF OwnerCreate, OwnerEdit, OWNER_FIELDS
<1>10. Own("rolebinding", RoleBindingCreate, RoleBindingEdit, ROLE_FIELDS, OrgFunkRelevant)
  BY DEF RoleBindingCreate, RoleBindingEdit, ROLE_FIELDS
<1>11. Own("org_unit", OrganisationUnitCreate, OrganisationUnitEdit, ORG_UNIT_FIELDS, OrganisationUnitRelevant)
  BY DEF OrganisationUnitCreate, OrganisationUnitEdit, ORG_UNIT_FIELDS, OrganisationUnitRelevant
<1>12. Own("class", ClassCreate, ClassEdit, {}, ClassRelevant)
  BY DEF ClassCreate, ClassEdit, ClassRelevant
<1>13. Own("facet", FacetCreate, FacetEdit, {}, {"gyldighed"})
  BY DEF FacetCreate, FacetEdit
<1>14. Own("itsystem", ITSystemCreate, ITSystemEdit, {}, {"gyldighed"})
  BY DEF ITSystemCreate, ITSystemEdit
<1>15. Own("employee", EmployeeCreate, EmployeeEdit, {}, {"gyldighed"})
  BY DEF EmployeeCreate, EmployeeEdit
<1>. QED
  BY <1>1, <1>2, <1>3, <1>4, <1>5, <1>6, <1>7, <1>8, <1>9, <1>10, <1>11, <1>12, <1>13, <1>14, <1>15
  DEF Roles, Create, Edit, Bounds, Relevant

LEMMA OwnRelationsAreSole ==
  ASSUME role \in Roles, relation \in Relations(role), <<role, relation>> \notin Shared
  PROVE  Sole
<1>1. PICK f \in DOMAIN Create[role] : relation = Create[role][f].relation
  BY DEF Relations
<1>2. /\ \A g \in DOMAIN Create[role] : Create[role][g].relation = relation => g = f
      /\ <<role, f>> \notin Multiple /\ relation \in Relevant[role]
      /\ f \in DOMAIN Edit[role] => Edit[role][f].tuple = TupleOf(relation)
      /\ \A t \in Bounds[role] : t.relation = relation => t = TupleOf(relation)
  BY <1>1, OwnRelations DEF Own
<1>3. Fields = {f}
  BY <1>1, <1>2 DEF Fields
<1>4. Tuple = TupleOf(relation)
  BY DEF Tuple, TupleOf
<1>. QED
  BY <1>2, <1>3, <1>4 DEF Sole, SoleField
----------------------------------------------------------------------------
\* The entries of the tables of a kind of object: a field that shares a relation
\* with others, and is not itself a list, is told from them by the object type.
Among(kind, create, edit, bounds, reads, relevant) ==
  \A f \in DOMAIN create :
    LET name == create[f].relation
        of == reads[f].of
        tuple == edit[f].tuple
    IN  <<kind, name>> \in Shared /\ <<kind, f>> \notin Multiple =>
          /\ name \in relevant /\ name \notin NulTilEn /\ f # "parent" /\ f \in DOMAIN edit
          /\ tuple.relation = name /\ tuple.of \in {AnyType, of}
          /\ \A g \in DOMAIN create : create[g].relation = name /\ g # f =>
               /\ of \notin {AnyType, Plain, create[g].of}
               /\ g \in DOMAIN edit =>
                    /\ edit[g].of # of
                    /\ edit[g].tuple = tuple \/ edit[g].tuple.of \notin {AnyType, of}
          /\ \A t \in bounds : t.relation = name =>
               IF t = tuple THEN t = reads[f] /\ t.type \in {"many", "adapted"}
               ELSE kind = "manager" /\ f = "manager_level" /\ of # AnyType /\ t.of \notin {AnyType, of}

LEMMA SharedRelations ==
  \A kind \in Roles :
    Among(kind, Create[kind], Edit[kind], Bounds[kind], Reads[kind], Relevant[kind])
<1>. USE DEF Among, Shared, NulTilEn, Multiple, ZeroToOne, ZeroToMany, Adapted, In, InAs,
     To, ToAs, AnyType, Plain, OrgFunkRelevant, JOB_FUNCTION_FIELD, ORG_FUNK_TYPE_FIELD,
     ORG_FUNK_CLASSES_FIELD, ASSOCIATED_ORG_UNIT_FIELD, ASSOCIATED_FUNCTION_FIELD,
     ENGAGEMENT_FIELD, IT_USER_FIELD, USER_FIELD, ADDRESS_TYPE_FIELD, KLE_ASPECT_FIELD,
     RESPONSIBILITY_FIELD, MANAGER_LEVEL_FIELD, VISIBILITY_FIELD, SINGLE_ITSYSTEM_FIELD,
     EMPLOYEE_PERSON_FIELD, PRIMARY_FIELD, ORG_UNIT_TYPE_FIELD, ORG_UNIT_LEVEL_FIELD,
     ORG_UNIT_HIERARCHY_FIELD, ORG_UNIT_TIME_PLANNING_FIELD, PARENT_FIELD,
     PARENT_CLASS_FIELD, GYLDIGHED_FIELD
<1>1. Among("association", AssociationCreate, AssociationEdit, ASSOCIATION_FIELDS, AssociationReads,
            OrgFunkRelevant)
  BY DEF AssociationCreate, AssociationEdit, ASSOCIATION_FIELDS, AssociationReads
<1>2. Among("manager", ManagerCreate, ManagerEdit, MANAGER_FIELDS, ManagerReads, OrgFunkRelevant)
  BY DEF ManagerCreate, ManagerEdit, MANAGER_FIELDS, ManagerReads
<1>3. Among("address", AddressCreate, AddressEdit, ADDRESS_FIELDS, AddressReads, OrgFunkRelevant)
  BY DEF AddressCreate, AddressEdit, ADDRESS_FIELDS, AddressReads
<1>4. Among("ituser", ITUserCreate, ITUserEdit, ITSYSTEM_FIELDS, ITUserReads, OrgFunkRelevant)
  BY DEF ITUserCreate, ITUserEdit, ITSYSTEM_FIELDS, ITUserReads
<1>5. Among("kle", KLECreate, KLEEdit, KLE_FIELDS, KLEReads, OrgFunkRelevant)
  BY DEF KLECreate, KLEEdit, KLE_FIELDS, KLEReads
<1>6. Among("org_unit", OrganisationUnitCreate, OrganisationUnitEdit, ORG_UNIT_FIELDS,
            OrganisationUnitReads, OrganisationUnitRelevant)
  BY DEF OrganisationUnitCreate, OrganisationUnitEdit, ORG_UNIT_FIELDS, OrganisationUnitReads,
     OrganisationUnitRelevant
<1>7. Among("class", ClassCreate, ClassEdit, {}, ClassReads, ClassRelevant)
  BY DEF ClassCreate, ClassEdit, ClassReads, ClassRelevant
<1>. HIDE DEF Among
<1>. SUFFICES ASSUME NEW kind \in Roles
              PROVE  Among(kind, Create[kind], Edit[kind], Bounds[kind], Reads[kind], Relevant[kind])
  OBVIOUS
<1>8. CASE kind \notin {"association", "manager", "address", "ituser", "kle", "org_unit", "class"}
  BY <1>8 DEF Among, Shared
<1>9. CASE kind \in {"association", "manager", "address"}
  BY <1>1, <1>2, <1>3, <1>9 DEF Roles, Create, Edit, Bounds, Reads, Relevant
<1>10. CASE kind \in {"ituser", "kle", "org_unit", "class"}
  BY <1>4, <1>5, <1>6, <1>7, <1>10 DEF Roles, Create, Edit, Bounds, Reads, Relevant
<1>. QED
  BY <1>8, <1>9, <1>10

\* A field among others, or of a list, that holds one reference.
OneAmong(f) ==
  f \in Fields /\ <<role, relation>> \in Shared /\ <<role, f>> \notin Multiple

LEMMA OneAmongOthers ==
  ASSUME role \in Roles, NEW f, OneAmong(f)
  PROVE  LET of == Reads[role][f].of
             tuple == Edit[role][f].tuple
         IN  /\ relation \in Relevant[role] /\ relation \notin NulTilEn /\ f # "parent"
             /\ f \in DOMAIN Edit[role] /\ tuple.of \in {AnyType, of}
             /\ \A g \in Fields : g # f =>
                  /\ of \notin {AnyType, Plain, Create[role][g].of}
                  /\ g \in DOMAIN Edit[role] =>
                       /\ Edit[role][g].of # of
                       /\ Edit[role][g].tuple = tuple \/ Edit[role][g].tuple.of \notin {AnyType, of}
             /\ \A t \in Bounds[role] : t.relation = relation =>
                  IF t = tuple THEN t = Reads[role][f] /\ t.type \in {"many", "adapted"}
                  ELSE role = "manager" /\ f = "manager_level" /\ of # AnyType
                       /\ t.of \notin {AnyType, of}
<1>1. f \in DOMAIN Create[role] /\ Create[role][f].relation = relation
  BY DEF OneAmong, Fields
<1>2. Among(role, Create[role], Edit[role], Bounds[role], Reads[role], Relevant[role])
  BY SharedRelations
<1>. QED
  BY <1>1, <1>2 DEF Among, OneAmong, Fields

\* The rows that the reading handler takes for a field.
FieldRows(R, f) == Of(R, Reads[role][f])

LEMMA SubsetApart == ASSUME NEW R, Apart(R), NEW T \in SUBSET R PROVE Apart(T)
BY DEF Apart

\* Consolidating, and cutting off, leave the rows of a type to themselves.
LEMMA OfConsolidated ==
  ASSUME NEW R, WellFormed(R), NEW t
  PROVE  Of(Consolidated(R), t) \subseteq Consolidated(Of(R, t))
<1>1. SUFFICES ASSUME NEW x \in Consolidated(R), t.of \in {AnyType, x.of}
               PROVE  x \in Consolidated(Of(R, t))
  BY DEF Of
<1>2. PICK r \in R, s \in R : Run(R, r, s) /\ x = [r EXCEPT !.to = s.to]
  BY Runs
<1>3. x.of = r.of
  BY <1>2, RowDays DEF Row
<1>4. r \in Of(R, t) /\ \A y \in R : Alike(r, y) => y \in Of(R, t)
  BY <1>1, <1>3 DEF Of, Alike
<1>5. Run(Of(R, t), r, s)
  BY <1>2, <1>4 DEF Run, Of, On
<1>6. Consolidated(Of(R, t)) =
        {[p[1] EXCEPT !.to = p[2].to] :
           p \in {q \in Of(R, t) \X Of(R, t) : Run(Of(R, t), q[1], q[2])}}
  BY DEF Consolidated, Run, Follows
<1>7. <<r, s>> \in {q \in Of(R, t) \X Of(R, t) : Run(Of(R, t), q[1], q[2])}
  BY <1>2, <1>4, <1>5 DEF Run
<1>8. <<r, s>>[1] = r /\ <<r, s>>[2] = s
  OBVIOUS
<1>. QED
  BY <1>2, <1>6, <1>7, <1>8

LEMMA OfOutside ==
  ASSUME NEW R, WellFormed(R), NEW t, NEW from \in Days, NEW to \in Days,
         NEW x \in Outside(R, from, to)
  PROVE  /\ \E r \in R : x.of = r.of
         /\ t.of \in {AnyType, x.of} => x \in Outside(Of(R, t), from, to)
<1>1. CASE \E r \in R : r.from < from /\ x = [r EXCEPT !.to = Least(@, from - 1)]
  <2>1. PICK r \in R : r.from < from /\ x = [r EXCEPT !.to = Least(@, from - 1)]
    BY <1>1
  <2>2. x.of = r.of
    BY <2>1, RowDays DEF Row
  <2>. QED
    BY <2>1, <2>2 DEF Outside, Of
<1>2. CASE \E r \in R : to < r.to /\ x = [r EXCEPT !.from = Greatest(@, to + 1)]
  <2>1. PICK r \in R : to < r.to /\ x = [r EXCEPT !.from = Greatest(@, to + 1)]
    BY <1>2
  <2>2. x.of = r.of
    BY <2>1, RowDays DEF Row
  <2>. QED
    BY <2>1, <2>2 DEF Outside, Of
<1>. QED
  BY <1>1, <1>2 DEF Outside

LEMMA OfEnsureBounds ==
  ASSUME NEW R, WellFormed(R), NEW type \in {"many", "adapted", "one"}, NEW e, NEW from, NEW to,
         NEW x \in EnsureBounds(R, type, e, from, to)
  PROVE  \E r \in R : x.of = r.of
<1>1. x \in R \/ \E r \in R : x = Moved(r, e, from, to)
  BY DEF EnsureBounds
<1>2. \A r \in R : Moved(r, e, from, to).of = r.of
  BY RowDays DEF Moved, Row
<1>. QED
  BY <1>1, <1>2

\* What an edit sends for a field that holds one reference, whichever other
\* fields of the relation it names.
LEMMA PayloadOneAmong ==
  ASSUME role \in Roles, NEW R, WellFormed(R), NEW f, OneAmong(f), Apart(FieldRows(R, f)),
         NEW w, Writes(w), DOMAIN w \subseteq Fields,
         f \in DOMAIN w => \A x, y \in w[f] : x = y,
         role = "manager" /\ f = "manager_level" => f \in DOMAIN w,
         NEW e \in Ends(UNION {Of(R, t) : t \in Unwritten(w)}),
         NEW from \in Days, NEW to \in Days, from =< to
  PROVE  Apart(FieldRows(Payload(R, w, e, from, to), f))
<1>. DEFINE of == Reads[role][f].of
            tuple == Edit[role][f].tuple
            New(t) ==
              UNION {NewRows(g, w[g], from, to) : g \in {x \in DOMAIN w : Edit[role][x].tuple = t}}
            Part(t) == IF t.type = "adapted" THEN New(t) \cup Outside(Of(R, t), from, to) ELSE New(t)
            Rest(t) == EnsureBounds(Of(R, t), t.type, e, from, to)
            new == IF f \in DOMAIN w THEN NewRows(f, w[f], from, to) ELSE {}
<1>1. Payload(R, w, e, from, to) =
        (UNION {Part(t) : t \in Written(w)}) \cup (UNION {Rest(t) : t \in Unwritten(w)})
  BY DEF Payload
<1>2. DOMAIN w \subseteq DOMAIN Edit[role]
  BY DEF Writes
<1>3. \A t : WellFormed(Of(R, t))
  BY Parts DEF Of
<1>4. ASSUME NEW g \in DOMAIN w, NEW x \in NewRows(g, w[g], from, to), of \in {AnyType, x.of}
      PROVE  g = f
  <2>1. g \in Fields /\ g \in DOMAIN Edit[role] /\ x.of \in {Plain, Edit[role][g].of}
    BY <1>2 DEF NewRows, NewRow
  <2>. QED
    BY <1>4, <2>1, OneAmongOthers
<1>5. ASSUME NEW t \in Written(w), NEW x \in Outside(Of(R, t), from, to), of \in {AnyType, x.of}
      PROVE  t = tuple /\ x \in Outside(FieldRows(R, f), from, to)
  <2>1. PICK g \in DOMAIN w : t = Edit[role][g].tuple
    BY DEF Written
  <2>2. (\E r \in Of(R, t) : x.of = r.of) /\ x \in Outside(Of(Of(R, t), Reads[role][f]), from, to)
    BY <1>3, <1>5, OfOutside
  <2>3. t.of \in {AnyType, x.of}
    BY <2>2 DEF Of
  <2>4. t = tuple
    <3>1. CASE g = f
      BY <2>1, <3>1
    <3>2. CASE g # f
      <4>1. g \in Fields /\ g \in DOMAIN Edit[role]
        BY <1>2
      <4>2. of # AnyType /\ (t = tuple \/ t.of \notin {AnyType, of})
        BY <2>1, <3>2, <4>1, OneAmongOthers
      <4>. QED
        BY <1>5, <2>3, <4>2
    <3>. QED
      BY <3>1, <3>2
  <2>5. Of(Of(R, t), Reads[role][f]) = FieldRows(R, f)
    <3>1. t.of \in {AnyType, of}
      BY <2>4, OneAmongOthers
    <3>. QED
      BY <3>1 DEF Of, FieldRows
  <2>. QED
    BY <2>2, <2>4, <2>5
<1>6. ASSUME NEW t \in Unwritten(w), NEW x \in Rest(t), of \in {AnyType, x.of}
      PROVE  /\ t = tuple /\ t = Reads[role][f] /\ t.type \in {"many", "adapted"}
             /\ \A s \in Unwritten(w) : s = t
  <2>1. t \in Bounds[role] /\ t.relation = relation /\ t.type \in {"many", "one", "adapted"}
    BY TupleTypes DEF Unwritten
  <2>2. PICK r \in Of(R, t) : x.of = r.of
    BY <1>3, <2>1, OfEnsureBounds
  <2>3. t.of \in {AnyType, x.of}
    BY <2>2 DEF Of
  <2>4. t = tuple
    <3>1. SUFFICES ASSUME t # tuple PROVE FALSE
      OBVIOUS
    <3>2. of # AnyType /\ t.of \notin {AnyType, of}
      BY <2>1, <3>1, OneAmongOthers
    <3>. QED
      BY <1>6, <2>3, <3>2
  <2>5. t = Reads[role][f] /\ t.type \in {"many", "adapted"}
    BY <2>1, <2>4, OneAmongOthers
  <2>6. ASSUME NEW s \in Unwritten(w), s # t PROVE FALSE
    <3>1. s \in Bounds[role] /\ s.relation = relation /\ s # tuple
      BY <2>4, <2>6 DEF Unwritten
    <3>2. f \in DOMAIN w
      BY <3>1, OneAmongOthers
    <3>3. tuple \in Written(w)
      BY <3>2 DEF Written
    <3>. QED
      BY <2>4, <3>3 DEF Unwritten
  <2>. QED
    BY <2>4, <2>5, <2>6
<1>7. Apart(new) /\ \A r \in new : r.from = from /\ r.to = to
  <2>1. CASE f \in DOMAIN w
    BY <2>1, NewRowsOne, NewRowsDays, OneRow
  <2>2. CASE f \notin DOMAIN w
    BY <2>2 DEF Apart
  <2>. QED
    BY <2>1, <2>2
<1>8. WellFormed(FieldRows(R, f))
  BY <1>3 DEF FieldRows
<1>9. Apart(new \cup Outside(FieldRows(R, f), from, to))
  <2>1. /\ Apart(Outside(FieldRows(R, f), from, to))
        /\ \A x \in Outside(FieldRows(R, f), from, to) : x.to < from \/ to < x.from
    BY <1>8, OutsideApart, OutsidePeriod
  <2>. HIDE DEF new
  <2>. QED
    BY <1>7, <2>1, UnionApart
<1>10. CASE tuple \in Unwritten(w)
  <2>1. f \notin DOMAIN w
    <3>1. f \in DOMAIN w => tuple \in Written(w)
      BY DEF Written
    <3>. QED
      BY <1>10, <3>1 DEF Unwritten
  <2>2. ASSUME NEW x \in FieldRows(Payload(R, w, e, from, to), f) PROVE x \in Rest(tuple)
    <3>1. of \in {AnyType, x.of} /\ x \in Payload(R, w, e, from, to)
      BY DEF FieldRows, Of
    <3>2. ASSUME NEW t \in Written(w), x \in New(t) PROVE FALSE
      BY <1>4, <2>1, <3>1, <3>2
    <3>3. ASSUME NEW t \in Written(w), x \in Outside(Of(R, t), from, to) PROVE FALSE
      <4>1. t = tuple
        BY <1>5, <3>1, <3>3
      <4>. QED
        BY <1>10, <4>1 DEF Unwritten
    <3>4. PICK t \in Unwritten(w) : x \in Rest(t)
      <4>. HIDE DEF New, Rest
      <4>. QED
        BY <1>1, <3>1, <3>2, <3>3
    <3>. QED
      BY <1>6, <3>1, <3>4
  <2>3. CASE FieldRows(Payload(R, w, e, from, to), f) = {}
    BY <2>3 DEF Apart
  <2>4. CASE FieldRows(Payload(R, w, e, from, to), f) # {}
    <3>1. PICK x \in FieldRows(Payload(R, w, e, from, to), f) : TRUE
      BY <2>4
    <3>2. x \in Rest(tuple) /\ of \in {AnyType, x.of}
      BY <2>2, <3>1 DEF FieldRows, Of
    <3>3. /\ tuple = Reads[role][f] /\ tuple.type \in {"many", "adapted"}
          /\ Unwritten(w) = {tuple}
      BY <1>6, <1>10, <3>2
    <3>4. Rest(tuple) = EnsureBounds(FieldRows(R, f), tuple.type, e, from, to) /\ e \in Ends(FieldRows(R, f))
      <4>1. UNION {Of(R, t) : t \in Unwritten(w)} = FieldRows(R, f)
        BY <3>3 DEF FieldRows
      <4>. QED
        BY <3>3, <4>1 DEF FieldRows
    <3>5. FieldRows(R, f) # {}
      <4>1. PICK r \in Of(R, tuple) : x.of = r.of
        BY <1>3, <3>2, <3>3, OfEnsureBounds
      <4>. QED
        BY <3>3, <4>1 DEF FieldRows
    <3>6. Apart(Rest(tuple))
      <4>1. CASE tuple.type = "adapted"
        BY <1>8, <3>4, <3>5, <4>1, EnsureBoundsApart
      <4>2. CASE tuple.type = "many"
        BY <3>4, <4>2 DEF EnsureBounds
      <4>. QED
        BY <3>3, <4>1, <4>2
    <3>. HIDE DEF Rest
    <3>. QED
      BY <2>2, <3>6, SubsetApart
  <2>. QED
    BY <2>3, <2>4
<1>11. CASE tuple \notin Unwritten(w)
  <2>1. ASSUME NEW x \in FieldRows(Payload(R, w, e, from, to), f)
        PROVE  x \in new \cup Outside(FieldRows(R, f), from, to)
    <3>1. of \in {AnyType, x.of} /\ x \in Payload(R, w, e, from, to)
      BY DEF FieldRows, Of
    <3>2. ASSUME NEW t \in Written(w), x \in New(t) PROVE x \in new
      BY <1>4, <3>1, <3>2
    <3>3. ASSUME NEW t \in Written(w), x \in Outside(Of(R, t), from, to)
          PROVE  x \in Outside(FieldRows(R, f), from, to)
      BY <1>5, <3>1, <3>3
    <3>4. ASSUME NEW t \in Unwritten(w), x \in Rest(t) PROVE FALSE
      BY <1>6, <1>11, <3>1, <3>4
    <3>. HIDE DEF New, Rest, new
    <3>. QED
      BY <1>1, <3>1, <3>2, <3>3, <3>4
  <2>. HIDE DEF new
  <2>. QED
    BY <1>9, <2>1, SubsetApart
<1>. QED
  BY <1>10, <1>11
----------------------------------------------------------------------------
SharedApart ==
  \A f : OneAmong(f) =>
    /\ Apart(FieldRows(rows, f))
    /\ \A c \in Clients : pending[c] # NoRequest => Apart(FieldRows(pending[c].payload, f))

LEMMA WishIsSingle ==
  ASSUME role \in Roles, NEW f, OneAmong(f), NEW w \in Wish, NEW nullable, Allowed(w, nullable),
         f \in DOMAIN w
  PROVE  \A x, y \in w[f] : x = y
<1>1. relation # "gyldighed"
  BY OneAmongOthers DEF NulTilEn
<1>2. PICK S \in SUBSET Fields : w \in [S -> SUBSET Targets]
  BY <1>1 DEF Wish
<1>3. IsFiniteSet(w[f])
  BY <1>2, DetailAssumption, FS_Subset
<1>4. Cardinality(w[f]) =< 1
  BY DEF Allowed, OneAmong
<1>. QED
  BY <1>3, <1>4, AtMostOne

\* A field that is written is written one reference, the manager's level always.
LEMMA CompletedIsSingle ==
  ASSUME role \in Roles, NEW f, OneAmong(f), NEW w \in Wish, NEW nullable, Allowed(w, nullable),
         NEW R, NEW done \in Completed(R, w)
  PROVE  /\ DOMAIN done \subseteq Fields
         /\ f \in DOMAIN done => \A x, y \in done[f] : x = y
         /\ role = "manager" /\ f = "manager_level" => f \in DOMAIN done
<1>1. DOMAIN w \subseteq Fields
  BY WishesAreReferences
<1>2. ManagerCreate["manager_level"].relation = "opgaver"
      /\ ManagerCreate["responsibility"].relation = "opgaver"
      /\ {"manager_level", "responsibility"} \subseteq DOMAIN ManagerCreate
  BY DEF ManagerCreate, InAs
<1>3. CASE ~ManagerTasks
  <2>1. done = Edited(w)
    BY <1>3 DEF Completed
  <2>2. DOMAIN done \subseteq DOMAIN Sent(w) /\ \A g \in DOMAIN done : done[g] = Sent(w)[g]
    BY <2>1 DEF Edited
  <2>3. DOMAIN Sent(w) \subseteq Fields
    BY <1>1 DEF Sent
  <2>4. f \in DOMAIN Sent(w) => \A x, y \in Sent(w)[f] : x = y
    BY WishIsSingle DEF Sent
  <2>5. ~(role = "manager" /\ f = "manager_level")
    <3>1. f \in Fields
      BY DEF OneAmong
    <3>. QED
      BY <1>2, <1>3, <3>1 DEF Fields, ManagerTasks, Create
  <2>. QED
    BY <2>2, <2>3, <2>4, <2>5
<1>4. CASE ManagerTasks
  <2>. DEFINE responsibility ==
                IF "responsibility" \in DOMAIN w THEN w["responsibility"]
                ELSE TargetsOf(R, RESPONSIBILITY_FIELD)
              levels == IF "manager_level" \in DOMAIN w THEN {w["manager_level"]}
                        ELSE IF TargetsOf(R, MANAGER_LEVEL_FIELD) = {} THEN {{}}
                        ELSE {{t} : t \in TargetsOf(R, MANAGER_LEVEL_FIELD)}
  <2>1. f = "manager_level"
    <3>1. f \in DOMAIN ManagerCreate /\ ManagerCreate[f].relation = "opgaver"
      BY <1>4 DEF OneAmong, Fields, ManagerTasks, Create
    <3>2. f \in {"manager_level", "responsibility"}
      BY <3>1 DEF ManagerCreate, In, InAs
    <3>. QED
      BY <1>4, <3>2 DEF OneAmong, Multiple, ManagerTasks
  <2>2. \A level \in levels : \A x, y \in level : x = y
    BY <2>1, WishIsSingle
  <2>3. {"manager_level", "responsibility"} \subseteq Fields
    BY <1>2, <1>4 DEF ManagerTasks, Fields, Create
  <2>4. PICK level \in levels :
          done = [g \in {"manager_level"}
                          \cup (IF responsibility = {} THEN {} ELSE {"responsibility"}) |->
                    IF g = "manager_level" THEN level ELSE responsibility]
    BY <1>4 DEF Completed
  <2>. HIDE DEF responsibility, levels
  <2>. QED
    BY <2>1, <2>2, <2>3, <2>4
<1>. QED
  BY <1>3, <1>4

LEMMA InitShared == Init => SharedApart
<1>. SUFFICES ASSUME Init, NEW f, OneAmong(f)
              PROVE  /\ Apart(FieldRows(rows, f))
                     /\ \A c \in Clients : pending[c] # NoRequest =>
                          Apart(FieldRows(pending[c].payload, f))
  BY DEF SharedApart
<1>. DEFINE Created(c, from, to, w) ==
       /\ DOMAIN w = Fields /\ Allowed(w, Fields \ Needs[role])
       /\ pending = [x \in Clients |->
            IF x = c THEN Request("create", w, from, to, CreateRows(w, from, to))
            ELSE NoRequest]
<1>1. PICK c \in Clients : role \in Roles /\ rows = {} /\
        \E from \in Days : \E to \in from .. Horizon, w \in Wish : Created(c, from, to, w)
  BY DEF Init
<1>2. PICK from \in Days : \E to \in from .. Horizon, w \in Wish : Created(c, from, to, w)
  BY <1>1
<1>3. PICK to \in from .. Horizon, w \in Wish : Created(c, from, to, w)
  BY <1>2
<1>4. f \in DOMAIN w /\ \A x, y \in w[f] : x = y
  BY <1>1, <1>3, WishIsSingle DEF OneAmong
<1>5. ASSUME NEW r \in FieldRows(CreateRows(w, from, to), f)
      PROVE  \E t \in w[f] : r = NewRow(from, to, Create[role][f].of, t)
  <2>1. PICK g \in DOMAIN w, t \in Targets \cup Gyldighed \cup {Empty} :
          /\ r = NewRow(from, to, Create[role][g].of, t)
          /\ t \in IF g = "parent" /\ w[g] = {} THEN {Empty} ELSE w[g]
    BY <1>1, WishesAreReferences DEF FieldRows, Of, CreateRows, Values
  <2>2. r.of = Create[role][g].of /\ Reads[role][f].of \in {AnyType, r.of}
    BY <2>1 DEF FieldRows, Of, NewRow
  <2>3. g = f /\ f # "parent"
    BY <1>1, <1>3, <2>2, OneAmongOthers
  <2>. QED
    BY <2>1, <2>3
<1>6. Apart(FieldRows(CreateRows(w, from, to), f))
  BY <1>4, <1>5, OneRow
<1>7. ASSUME NEW x \in Clients, pending[x] # NoRequest
      PROVE  pending[x].payload = CreateRows(w, from, to)
  BY <1>3, <1>7 DEF Request
<1>8. Apart(FieldRows(rows, f))
  BY <1>1 DEF Apart, FieldRows, Of
<1>. QED
  BY <1>6, <1>7, <1>8

LEMMA SharedUnmoved ==
  ASSUME UNCHANGED <<role, relation>>
  PROVE  \A f : /\ OneAmong(f)' <=> OneAmong(f)
                /\ \A R : FieldRows(R, f)' = FieldRows(R', f)
BY DEF OneAmong, Fields, FieldRows, Of

LEMMA StepShared == IInv /\ SharedApart /\ [Next]_vars => SharedApart'
<1>. SUFFICES ASSUME IInv, SharedApart, [Next]_vars, NEW f, OneAmong(f)'
              PROVE  /\ Apart(FieldRows(rows, f))'
                     /\ \A c \in Clients : (pending[c] # NoRequest)' =>
                          Apart(FieldRows(pending[c].payload, f))'
  BY DEF SharedApart
<1>1. UNCHANGED <<role, relation>>
  BY DEF Next, Prepare, Terminate, Vacate, Store, Delete, vars
<1>2. OneAmong(f) /\ role \in Roles /\ WellFormed(rows)
  BY <1>1 DEF OneAmong, Fields, IInv
<1>3. /\ Apart(FieldRows(rows, f))
      /\ \A c \in Clients : pending[c] # NoRequest => Apart(FieldRows(pending[c].payload, f))
  BY <1>2 DEF SharedApart
<1>4. SUFFICES /\ Apart(FieldRows(rows', f))
               /\ \A c \in Clients : pending'[c] # NoRequest =>
                    Apart(FieldRows(pending'[c].payload, f))
  BY <1>1 DEF Apart, FieldRows, Of
<1>5. relation \notin NulTilEn /\ relation # "gyldighed"
  BY <1>2, OneAmongOthers DEF NulTilEn
<1>6. CASE UNCHANGED vars
  BY <1>3, <1>6 DEF vars
<1>7. ASSUME NEW c \in Clients, Prepare(c)
      PROVE  /\ Apart(FieldRows(rows', f))
             /\ \A x \in Clients : pending'[x] # NoRequest =>
                  Apart(FieldRows(pending'[x].payload, f))
  <2>1. PICK read \in {Consolidated(rows)}, w \in Wish :
          /\ Allowed(w, Update[role].nullable)
          /\ \E done \in Completed(read, w) :
             \E e \in Ends(UNION {Of(read, t) : t \in Unwritten(done)}) :
             \E from \in Days : \E to \in from .. Horizon :
               pending' = [pending EXCEPT ![c] =
                 Request("update", w, from, to, Payload(read, done, e, from, to))]
    BY <1>7, Zenon DEF Prepare
  <2>2. PICK done \in Completed(read, w) :
          \E e \in Ends(UNION {Of(read, t) : t \in Unwritten(done)}) :
          \E from \in Days : \E to \in from .. Horizon :
            pending' = [pending EXCEPT ![c] =
              Request("update", w, from, to, Payload(read, done, e, from, to))]
    BY <2>1, Zenon
  <2>3. PICK e \in Ends(UNION {Of(read, t) : t \in Unwritten(done)}), from \in Days :
          \E to \in from .. Horizon :
            pending' = [pending EXCEPT ![c] =
              Request("update", w, from, to, Payload(read, done, e, from, to))]
    BY <2>2, Zenon
  <2>4. PICK to \in from .. Horizon :
          pending' = [pending EXCEPT ![c] =
            Request("update", w, from, to, Payload(read, done, e, from, to))]
    BY <2>3, Zenon
  <2>5. to \in Days /\ from =< to
    BY <2>4, DaysAreNumbers DEF Days
  <2>. DEFINE payload == Payload(read, done, e, from, to)
  <2>6. WellFormed(read) /\ Apart(FieldRows(read, f))
    <3>1. WellFormed(FieldRows(rows, f))
      BY <1>2, Parts DEF FieldRows, Of
    <3>2. Apart(Consolidated(FieldRows(rows, f)))
      BY <1>3, <3>1, ConsolidatedApart
    <3>3. FieldRows(Consolidated(rows), f) \subseteq Consolidated(FieldRows(rows, f))
      BY <1>2, OfConsolidated DEF FieldRows
    <3>. QED
      BY <1>2, <3>2, <3>3, ConsolidatedWellFormed, SubsetApart
  <2>7. /\ DOMAIN done \subseteq Fields
        /\ f \in DOMAIN done => \A x, y \in done[f] : x = y
        /\ role = "manager" /\ f = "manager_level" => f \in DOMAIN done
    BY <1>2, <2>1, CompletedIsSingle
  <2>8. Writes(done)
    BY <1>2, <2>6, CompletedWrites
  <2>9. Apart(FieldRows(payload, f))
    BY <1>2, <2>5, <2>6, <2>7, <2>8, PayloadOneAmong
  <2>10. Request("update", w, from, to, payload).payload = payload
    BY DEF Request
  <2>11. rows' = rows
    BY <1>7 DEF Prepare
  <2>. DEFINE q == Request("update", w, from, to, payload)
  <2>12. pending' = [pending EXCEPT ![c] = q]
    BY <2>4
  <2>. HIDE DEF payload, q
  <2>13. q.payload = payload
    BY <2>10 DEF q
  <2>14. \A x \in Clients : pending'[x] = q \/ pending'[x] = pending[x]
    BY <2>12 DEF IInv
  <2>. QED
    BY <1>3, <2>9, <2>11, <2>13, <2>14
<1>8. ASSUME NEW c \in Clients, Terminate(c) PROVE FALSE
  BY <1>5, <1>8 DEF Terminate
<1>9. ASSUME NEW c \in Clients, Vacate(c) PROVE FALSE
  BY <1>2, <1>9 DEF Vacate, OneAmong, Shared
<1>10. ASSUME NEW c \in Clients, pending' = Stale(c), Apart(FieldRows(rows', f))
       PROVE  /\ Apart(FieldRows(rows', f))
              /\ \A x \in Clients : pending'[x] # NoRequest =>
                   Apart(FieldRows(pending'[x].payload, f))
  <2>1. ASSUME NEW x \in Clients, pending'[x] # NoRequest
        PROVE  pending[x] # NoRequest /\ pending'[x].payload = pending[x].payload
    <3>1. pending[x] # NoRequest /\ pending'[x] = [pending[x] EXCEPT !.fresh = FALSE]
      BY <1>10, <2>1 DEF Stale
    <3>2. [pending[x] EXCEPT !.fresh = FALSE].payload = pending[x].payload
      BY <1>3, <3>1
    <3>. QED
      BY <3>1, <3>2
  <2>2. ASSUME NEW x \in Clients, pending'[x] # NoRequest
        PROVE  Apart(FieldRows(pending'[x].payload, f))
    BY <1>3, <2>1, <2>2
  <2>. QED
    BY <1>10, <2>2
<1>11. ASSUME NEW c \in Clients, Store(c)
       PROVE  pending' = Stale(c) /\ Apart(FieldRows(rows', f))
  <2>1. pending[c] # NoRequest /\ pending' = Stale(c) /\ rows' \in {rows, pending[c].payload}
    BY <1>5, <1>11 DEF Store, Merged
  <2>. QED
    BY <1>3, <2>1
<1>12. ASSUME NEW c \in Clients, Delete(c)
       PROVE  pending' = Stale(c) /\ Apart(FieldRows(rows', f))
  BY <1>12 DEF Delete, Apart, FieldRows, Of
<1>. QED
  BY <1>6, <1>7, <1>8, <1>9, <1>10, <1>11, <1>12 DEF Next
----------------------------------------------------------------------------
LEMMA SharedReadsOne ==
  ASSUME IInv, NEW f, OneAmong(f), Apart(FieldRows(rows, f)), NEW d \in Days
  PROVE  Cardinality(Reading(rows, f, d)) =< 1
<1>1. d \in Int /\ WellFormed(rows) /\ role \in Roles
  BY DaysAreNumbers DEF IInv
<1>2. ASSUME NEW r \in Effect(rows, d) PROVE r \in rows /\ r.from =< d /\ d =< r.to
  BY <1>1, OneAmongOthers, EffectHolds
<1>3. WellFormed(FieldRows(rows, f))
  BY <1>1, Parts DEF FieldRows, Of
<1>4. ASSUME NEW r \in Of(Effect(rows, d), Reads[role][f])
      PROVE  r \in FieldRows(rows, f) /\ r.from =< d /\ d =< r.to
  BY <1>2 DEF FieldRows, Of
<1>5. \A r, s \in Of(Effect(rows, d), Reads[role][f]) : r = s
  BY <1>1, <1>3, <1>4, OneADay
<1>6. \A x, y \in Reading(rows, f, d) : x = y
  BY <1>5 DEF Reading
<1>7. Reading(rows, f, d) = {} \/ \E x : Reading(rows, f, d) = {x}
  BY <1>6
<1>8. IsFiniteSet(Reading(rows, f, d))
  BY <1>7, FS_EmptySet, FS_Singleton
<1>. QED
  BY <1>6, <1>8, AtMostOne

\* A field that holds one reference holds at most one on a day, for any days and
\* targets and however many clients create, edit, terminate, vacate and delete,
\* in whichever order what they have prepared is stored (update_payload,
\* ensure_bounds, merge_obj and the as_update_* of the database together).
THEOREM OneReferenceHolds == Spec => []OneReference
<1>1. IInv /\ AllApart /\ SharedApart => OneReference
  <2>. SUFFICES ASSUME IInv, AllApart, SharedApart PROVE OneReference
    OBVIOUS
  <2>1. role \in Roles /\ relation \in Relations(role)
    BY DEF IInv
  <2>2. CASE <<role, relation>> \notin Shared
    BY <2>1, <2>2, ApartReadsOne, OwnRelationsAreSole DEF Sole, AllApart
  <2>3. CASE <<role, relation>> \in Shared
    BY <2>3, SharedReadsOne DEF OneReference, SharedApart, OneAmong
  <2>. QED
    BY <2>2, <2>3
<1>. QED
  BY <1>1, InitIInv, StepIInv, InitApart, StepApart, InitShared, StepShared, PTL DEF Spec
==============================================================================
