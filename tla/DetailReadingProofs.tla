------------------------- MODULE DetailReadingProofs --------------------------
(***************************************************************************)
(* What requests and readers make of the rows of an object: the tables of  *)
(* the handlers, the readers and the filters fit together (Details,        *)
(* DetailLists), for any calendar, any targets and any number of clients.  *)
(***************************************************************************)
EXTENDS DetailLists, DetailsProofs

\* The entries of a kind of object: the reader cuts at every relation, reads a
\* field by the objekttype that is written for it and finds no other field's there.
ReadsFit(create, reads, relevant) ==
  /\ DOMAIN reads = DOMAIN create
  /\ \A f \in DOMAIN create :
       /\ create[f].relation \in relevant
       /\ reads[f].of \in {AnyType, create[f].of}
       /\ \A g \in DOMAIN create \ {f} :
            create[g].relation = create[f].relation => reads[f].of \notin {AnyType, create[g].of}

\* An edit writes what a creation writes, and replaces all that the reader reads.
EditFits(create, edit, reads) ==
  \A f \in DOMAIN edit :
    /\ f \in DOMAIN create /\ edit[f].of = create[f].of
    /\ edit[f].tuple.of \in {AnyType, reads[f].of}
    /\ edit[f].tuple.relation = create[f].relation
    /\ edit[f].tuple.type = "one" <=> create[f].relation \in NulTilEn
    /\ edit[f].tuple.type \in {"many", "one", "adapted"}

LEMMA ReadsFitCreate == \A kind \in Roles : ReadsFit(Create[kind], Reads[kind], Relevant[kind])
<1>. USE DEF ReadsFit, ZeroToOne, ZeroToMany, Adapted, In, InAs, Plain,
     AnyType, OrgFunkRelevant, JOB_FUNCTION_FIELD, ORG_FUNK_TYPE_FIELD,
     ORG_FUNK_CLASSES_FIELD, ASSOCIATED_ORG_UNIT_FIELD, ASSOCIATED_FUNCTION_FIELD,
     ENGAGEMENT_FIELD, IT_USER_FIELD, USER_FIELD, ADDRESS_TYPE_FIELD, KLE_ASPECT_FIELD,
     RESPONSIBILITY_FIELD, MANAGER_LEVEL_FIELD, VISIBILITY_FIELD, SINGLE_ITSYSTEM_FIELD,
     EMPLOYEE_PERSON_FIELD, PRIMARY_FIELD, ORG_UNIT_TYPE_FIELD, ORG_UNIT_LEVEL_FIELD,
     ORG_UNIT_HIERARCHY_FIELD, ORG_UNIT_TIME_PLANNING_FIELD, PARENT_FIELD,
     PARENT_CLASS_FIELD, GYLDIGHED_FIELD
<1>1. ReadsFit(EngagementCreate, EngagementReads, OrgFunkRelevant)
  BY DEF EngagementCreate, EngagementReads
<1>2. ReadsFit(AssociationCreate, AssociationReads, OrgFunkRelevant)
  BY DEF AssociationCreate, AssociationReads
<1>3. ReadsFit(ITAssociationCreate, ITAssociationReads, OrgFunkRelevant)
  BY DEF ITAssociationCreate, ITAssociationReads
<1>4. ReadsFit(ManagerCreate, ManagerReads, OrgFunkRelevant)
  BY DEF ManagerCreate, ManagerReads
<1>5. ReadsFit(LeaveCreate, LeaveReads, OrgFunkRelevant)
  BY DEF LeaveCreate, LeaveReads
<1>6. ReadsFit(AddressCreate, AddressReads, OrgFunkRelevant)
  BY DEF AddressCreate, AddressReads
<1>7. ReadsFit(ITUserCreate, ITUserReads, OrgFunkRelevant)
  BY DEF ITUserCreate, ITUserReads
<1>8. ReadsFit(KLECreate, KLEReads, OrgFunkRelevant)
  BY DEF KLECreate, KLEReads
<1>9. ReadsFit(OwnerCreate, OwnerReads, OrgFunkRelevant)
  BY DEF OwnerCreate, OwnerReads
<1>10. ReadsFit(RoleBindingCreate, RoleBindingReads, OrgFunkRelevant)
  BY DEF RoleBindingCreate, RoleBindingReads
<1>11. ReadsFit(OrganisationUnitCreate, OrganisationUnitReads, OrganisationUnitRelevant)
  BY DEF OrganisationUnitCreate, OrganisationUnitReads, OrganisationUnitRelevant
<1>12. ReadsFit(ClassCreate, ClassReads, ClassRelevant)
  BY DEF ClassCreate, ClassReads, ClassRelevant
<1>13. ReadsFit(FacetCreate, FacetReads, {"gyldighed"})
  BY DEF FacetCreate, FacetReads
<1>14. ReadsFit(ITSystemCreate, ITSystemReads, {"gyldighed"})
  BY DEF ITSystemCreate, ITSystemReads
<1>15. ReadsFit(EmployeeCreate, EmployeeReads, {"gyldighed"})
  BY DEF EmployeeCreate, EmployeeReads
<1>. HIDE DEF ReadsFit
<1>. QED
  BY <1>1, <1>2, <1>3, <1>4, <1>5, <1>6, <1>7, <1>8, <1>9, <1>10, <1>11, <1>12, <1>13, <1>14, <1>15
  DEF Roles, Create, Reads, Relevant

LEMMA EditsFitCreate == \A kind \in Roles : EditFits(Create[kind], Edit[kind], Reads[kind])
<1>. USE DEF EditFits, NulTilEn, ZeroToOne, ZeroToMany, Adapted, In, InAs, To, ToAs, Plain,
     AnyType, JOB_FUNCTION_FIELD, ORG_FUNK_TYPE_FIELD,
     ORG_FUNK_CLASSES_FIELD, ASSOCIATED_ORG_UNIT_FIELD, ASSOCIATED_FUNCTION_FIELD,
     ENGAGEMENT_FIELD, IT_USER_FIELD, USER_FIELD, ADDRESS_TYPE_FIELD, KLE_ASPECT_FIELD,
     RESPONSIBILITY_FIELD, MANAGER_LEVEL_FIELD, VISIBILITY_FIELD, SINGLE_ITSYSTEM_FIELD,
     EMPLOYEE_PERSON_FIELD, PRIMARY_FIELD, ORG_UNIT_TYPE_FIELD, ORG_UNIT_LEVEL_FIELD,
     ORG_UNIT_HIERARCHY_FIELD, ORG_UNIT_TIME_PLANNING_FIELD, PARENT_FIELD,
     PARENT_CLASS_FIELD, GYLDIGHED_FIELD
<1>1. EditFits(EngagementCreate, EngagementEdit, EngagementReads)
  BY DEF EngagementCreate, EngagementEdit, EngagementReads
<1>2. EditFits(AssociationCreate, AssociationEdit, AssociationReads)
  BY DEF AssociationCreate, AssociationEdit, AssociationReads
<1>3. EditFits(ITAssociationCreate, ITAssociationEdit, ITAssociationReads)
  BY DEF ITAssociationCreate, ITAssociationEdit, ITAssociationReads
<1>4. EditFits(ManagerCreate, ManagerEdit, ManagerReads)
  BY DEF ManagerCreate, ManagerEdit, ManagerReads
<1>5. EditFits(LeaveCreate, LeaveEdit, LeaveReads)
  BY DEF LeaveCreate, LeaveEdit, LeaveReads
<1>6. EditFits(AddressCreate, AddressEdit, AddressReads)
  BY DEF AddressCreate, AddressEdit, AddressReads
<1>7. EditFits(ITUserCreate, ITUserEdit, ITUserReads)
  BY DEF ITUserCreate, ITUserEdit, ITUserReads
<1>8. EditFits(KLECreate, KLEEdit, KLEReads)
  BY DEF KLECreate, KLEEdit, KLEReads
<1>9. EditFits(OwnerCreate, OwnerEdit, OwnerReads)
  BY DEF OwnerCreate, OwnerEdit, OwnerReads
<1>10. EditFits(RoleBindingCreate, RoleBindingEdit, RoleBindingReads)
  BY DEF RoleBindingCreate, RoleBindingEdit, RoleBindingReads
<1>11. EditFits(OrganisationUnitCreate, OrganisationUnitEdit, OrganisationUnitReads)
  BY DEF OrganisationUnitCreate, OrganisationUnitEdit, OrganisationUnitReads
<1>12. EditFits(ClassCreate, ClassEdit, ClassReads)
  BY DEF ClassCreate, ClassEdit, ClassReads
<1>13. EditFits(FacetCreate, FacetEdit, FacetReads)
  BY DEF FacetCreate, FacetEdit, FacetReads
<1>14. EditFits(ITSystemCreate, ITSystemEdit, ITSystemReads)
  BY DEF ITSystemCreate, ITSystemEdit, ITSystemReads
<1>15. EditFits(EmployeeCreate, EmployeeEdit, EmployeeReads)
  BY DEF EmployeeCreate, EmployeeEdit, EmployeeReads
<1>. HIDE DEF EditFits
<1>. QED
  BY <1>1, <1>2, <1>3, <1>4, <1>5, <1>6, <1>7, <1>8, <1>9, <1>10, <1>11, <1>12, <1>13, <1>14, <1>15
  DEF Roles, Create, Edit, Reads

\* A filter searches the relation that the field of its argument is written to.
FilterFits(create, arguments, filter) ==
  \A a \in DOMAIN arguments :
    arguments[a] \in DOMAIN create => filter[a] = create[arguments[a]].relation

LEMMA FiltersFitCreate ==
  \A kind \in Roles, resolver \in Resolvers :
    resolver.objects = StoredAs[kind] =>
      FilterFits(Create[kind], resolver.arguments, resolver.filter)
<1>. USE DEF FilterFits, In, InAs
<1>1. FilterFits(EngagementCreate, EngagementArguments, EngagementFilter)
  BY DEF EngagementCreate, EngagementArguments, EngagementFilter
<1>2. FilterFits(AssociationCreate, AssociationArguments, AssociationFilter)
  BY DEF AssociationCreate, AssociationArguments, AssociationFilter
<1>3. FilterFits(ITAssociationCreate, AssociationArguments, AssociationFilter)
  BY DEF ITAssociationCreate, AssociationArguments, AssociationFilter
<1>4. FilterFits(ManagerCreate, ManagerArguments, ManagerFilter)
  BY DEF ManagerCreate, ManagerArguments, ManagerFilter
<1>5. FilterFits(LeaveCreate, LeaveArguments, LeaveFilter)
  BY DEF LeaveCreate, LeaveArguments, LeaveFilter
<1>6. FilterFits(AddressCreate, AddressArguments, AddressFilter)
  BY DEF AddressCreate, AddressArguments, AddressFilter
<1>7. FilterFits(ITUserCreate, ITUserArguments, ITUserFilter)
  BY DEF ITUserCreate, ITUserArguments, ITUserFilter
<1>8. FilterFits(KLECreate, KLEArguments, KLEFilter)
  BY DEF KLECreate, KLEArguments, KLEFilter
<1>9. FilterFits(OwnerCreate, OwnerArguments, OwnerFilter)
  BY DEF OwnerCreate, OwnerArguments, OwnerFilter
<1>10. FilterFits(RoleBindingCreate, RoleBindingArguments, RoleBindingFilter)
  BY DEF RoleBindingCreate, RoleBindingArguments, RoleBindingFilter
<1>11. FilterFits(OrganisationUnitCreate, OrganisationUnitArguments, OrganisationUnitFilter)
  BY DEF OrganisationUnitCreate, OrganisationUnitArguments, OrganisationUnitFilter
<1>12. FilterFits(ClassCreate, ClassArguments, ClassFilter)
  BY DEF ClassCreate, ClassArguments, ClassFilter
<1>13. \A create : FilterFits(create, <<>>, <<>>)
  OBVIOUS
<1>. HIDE DEF FilterFits
<1>14. \A resolver \in Resolvers :
         \/ resolver = EngagementResolver \/ resolver = AssociationResolver
         \/ resolver = ManagerResolver \/ resolver = LeaveResolver \/ resolver = AddressResolver
         \/ resolver = ITUserResolver \/ resolver = KLEResolver \/ resolver = OwnerResolver
         \/ resolver = RoleBindingResolver \/ resolver = OrganisationUnitResolver
         \/ resolver = ClassResolver \/ resolver = FacetResolver
         \/ resolver = ITSystemResolver \/ resolver = EmployeeResolver
  BY DEF Resolvers
<1>15. \A kind \in Roles :
         \/ kind = "engagement" \/ kind = "association" \/ kind = "itassociation"
         \/ kind = "manager" \/ kind = "leave" \/ kind = "address" \/ kind = "ituser"
         \/ kind = "kle" \/ kind = "owner" \/ kind = "rolebinding" \/ kind = "org_unit"
         \/ kind = "class" \/ kind = "facet" \/ kind = "itsystem" \/ kind = "employee"
  BY DEF Roles, Create
<1>. QED
  BY <1>1, <1>2, <1>3, <1>4, <1>5, <1>6, <1>7, <1>8, <1>9, <1>10, <1>11, <1>12, <1>13, <1>14, <1>15
  DEF Create, StoredAs, Resolver, EngagementResolver, AssociationResolver, ManagerResolver,
      LeaveResolver, AddressResolver, ITUserResolver, KLEResolver, OwnerResolver,
      RoleBindingResolver, OrganisationUnitResolver, ClassResolver, FacetResolver,
      ITSystemResolver, EmployeeResolver

\* The object that lists others is what their field is resolved to.
ListFits(create, links, list) ==
  LET f == list.resolver.arguments[list.argument]
  IN  f \in DOMAIN create => <<f, list.of>> \in links

LEMMA CollectionsFitLinks ==
  \A kind \in Roles, list \in Collections :
    list.resolver.objects = StoredAs[kind] => ListFits(Create[kind], Links[kind], list)
<1>. DEFINE Fits(create, links, objects) ==
       \A list \in Collections : list.resolver.objects = objects => ListFits(create, links, list)
<1>. USE DEF ListFits, ClassesOf, In, InAs, Collections, Seeded, Resolver,
     EmployeeEngagements, EmployeeManagerRoles, EmployeeAddresses, EmployeeLeaves,
     EmployeeAssociations, EmployeeITUsers,
     OrganisationUnitChildren, OrganisationUnitEngagements, OrganisationUnitManagers,
     OrganisationUnitOwners, OrganisationUnitAddresses, OrganisationUnitLeaves,
     OrganisationUnitAssociations, OrganisationUnitITUsers, OrganisationUnitKLEs,
     EngagementAddresses, EngagementITUsers, ITUserAddresses, ITUserRoleBindings,
     ClassChildren, FacetClasses, ITSystemRoles, EngagementResolver, AssociationResolver,
     ManagerResolver, LeaveResolver, AddressResolver, ITUserResolver, KLEResolver,
     OwnerResolver, RoleBindingResolver, OrganisationUnitResolver, ClassResolver
<1>1. Fits(EngagementCreate, EngagementLinks, "Engagement")
  BY DEF EngagementCreate, EngagementLinks, EngagementClasses, EngagementArguments
<1>2. Fits(AssociationCreate, AssociationLinks, "Tilknytning")
  BY DEF AssociationCreate, AssociationLinks, AssociationClasses, AssociationArguments
<1>3. Fits(ITAssociationCreate, ITAssociationLinks, "Tilknytning")
  BY DEF ITAssociationCreate, ITAssociationLinks, AssociationArguments
<1>4. Fits(ManagerCreate, ManagerLinks, "Leder")
  BY DEF ManagerCreate, ManagerLinks, ManagerClasses, ManagerArguments
<1>5. Fits(LeaveCreate, LeaveLinks, "Orlov")
  BY DEF LeaveCreate, LeaveLinks, LeaveArguments
<1>6. Fits(AddressCreate, AddressLinks, "Adresse")
  BY DEF AddressCreate, AddressLinks, AddressClasses, AddressArguments
<1>7. Fits(ITUserCreate, ITUserLinks, "IT-system")
  BY DEF ITUserCreate, ITUserLinks, ITUserClasses, ITUserSystem, ITUserArguments
<1>8. Fits(KLECreate, KLELinks, "KLE")
  BY DEF KLECreate, KLELinks, KLEArguments
<1>9. Fits(OwnerCreate, OwnerLinks, "owner")
  BY DEF OwnerCreate, OwnerLinks, OwnerArguments
<1>10. Fits(RoleBindingCreate, RoleBindingLinks, "Rollebinding")
  BY DEF RoleBindingCreate, RoleBindingLinks, RoleBindingArguments
<1>11. Fits(OrganisationUnitCreate, OrganisationUnitLinks, "organisationenhed")
  BY DEF OrganisationUnitCreate, OrganisationUnitLinks, OrganisationUnitClasses, OrganisationUnitArguments
<1>12. Fits(ClassCreate, ClassLinks, "klasse")
  BY DEF ClassCreate, ClassLinks, ClassArguments
<1>13. \A links : Fits(FacetCreate, links, "facet") /\ Fits(ITSystemCreate, links, "itsystem")
         /\ Fits(EmployeeCreate, links, "bruger")
  OBVIOUS
<1>14. \A kind \in Roles :
         \/ kind = "engagement" \/ kind = "association" \/ kind = "itassociation"
         \/ kind = "manager" \/ kind = "leave" \/ kind = "address" \/ kind = "ituser"
         \/ kind = "kle" \/ kind = "owner" \/ kind = "rolebinding" \/ kind = "org_unit"
         \/ kind = "class" \/ kind = "facet" \/ kind = "itsystem" \/ kind = "employee"
  BY DEF Roles, Create
<1>. HIDE DEF ListFits, ClassesOf, In, InAs, Collections, Seeded, Resolver,
     EmployeeEngagements, EmployeeManagerRoles, EmployeeAddresses, EmployeeLeaves,
     EmployeeAssociations, EmployeeITUsers,
     OrganisationUnitChildren, OrganisationUnitEngagements, OrganisationUnitManagers,
     OrganisationUnitOwners, OrganisationUnitAddresses, OrganisationUnitLeaves,
     OrganisationUnitAssociations, OrganisationUnitITUsers, OrganisationUnitKLEs,
     EngagementAddresses, EngagementITUsers, ITUserAddresses, ITUserRoleBindings,
     ClassChildren, FacetClasses, ITSystemRoles, EngagementResolver, AssociationResolver,
     ManagerResolver, LeaveResolver, AddressResolver, ITUserResolver, KLEResolver,
     OwnerResolver, RoleBindingResolver, OrganisationUnitResolver, ClassResolver
<1>15. ASSUME NEW kind \in Roles PROVE Fits(Create[kind], Links[kind], StoredAs[kind])
  <2>. HIDE DEF Fits
  <2>. QED
    BY <1>1, <1>2, <1>3, <1>4, <1>5, <1>6, <1>7, <1>8, <1>9, <1>10, <1>11, <1>12, <1>13, <1>14
    DEF Create, StoredAs, Links
<1>. QED
  BY <1>15

LEMMA DetailsFitSearch ==
  \A list \in ServiceDetails \cup AddressDetails : \A kind \in list.kinds :
    LET f == ListedField[list.type]
    IN  kind \in Roles /\ f \in DOMAIN Create[kind] =>
          Create[kind][f].relation = SEARCH_FIELDS[list.type] /\ Reads[kind][f].of = AnyType
<1>. DEFINE Fits(create, reads) ==
       /\ "person" \in DOMAIN create =>
            create["person"].relation = "tilknyttedebrugere" /\ reads["person"].of = AnyType
       /\ "org_unit" \in DOMAIN create =>
            create["org_unit"].relation = "tilknyttedeenheder" /\ reads["org_unit"].of = AnyType
<1>1. \A kind \in Roles \ {"org_unit", "class"} : Fits(Create[kind], Reads[kind])
  <2>. USE DEF In, InAs, Adapted, USER_FIELD, ASSOCIATED_ORG_UNIT_FIELD
  <2>1. Fits(EngagementCreate, EngagementReads)
    BY DEF EngagementCreate, EngagementReads
  <2>2. Fits(AssociationCreate, AssociationReads)
    BY DEF AssociationCreate, AssociationReads
  <2>3. Fits(ITAssociationCreate, ITAssociationReads)
    BY DEF ITAssociationCreate, ITAssociationReads
  <2>4. Fits(ManagerCreate, ManagerReads)
    BY DEF ManagerCreate, ManagerReads
  <2>5. Fits(LeaveCreate, LeaveReads)
    BY DEF LeaveCreate, LeaveReads
  <2>6. Fits(AddressCreate, AddressReads)
    BY DEF AddressCreate, AddressReads
  <2>7. Fits(ITUserCreate, ITUserReads)
    BY DEF ITUserCreate, ITUserReads
  <2>8. Fits(KLECreate, KLEReads)
    BY DEF KLECreate, KLEReads
  <2>9. Fits(OwnerCreate, OwnerReads)
    BY DEF OwnerCreate, OwnerReads
  <2>10. Fits(RoleBindingCreate, RoleBindingReads)
    BY DEF RoleBindingCreate, RoleBindingReads
  <2>11. \A reads : Fits(FacetCreate, reads) /\ Fits(ITSystemCreate, reads)
          /\ Fits(EmployeeCreate, reads)
    BY DEF FacetCreate, ITSystemCreate, EmployeeCreate
  <2>. HIDE DEF Fits
  <2>. QED
    BY <2>1, <2>2, <2>3, <2>4, <2>5, <2>6, <2>7, <2>8, <2>9, <2>10, <2>11
    DEF Roles, Create, Reads
<1>2. \A list \in ServiceDetails \cup AddressDetails :
        /\ list.type = "e" \/ list.type = "ou"
        /\ "org_unit" \notin list.kinds /\ "class" \notin list.kinds
  BY DEF ServiceDetails, AddressDetails, Detail, Associations, AssociationsOfEmployee,
     AssociationsOfUnit, EngagementsOfEmployee, EngagementsOfUnit, ITUsersOfEmployee,
     ITUsersOfUnit, KLEsOfUnit, LeavesOfEmployee, ManagersOfEmployee, ManagersOfUnit,
     OwnersOfEmployee, OwnersOfUnit, AddressesOfEmployee, AddressesOfUnit
<1>. QED
  BY <1>1, <1>2 DEF ListedField, SEARCH_FIELDS
-----------------------------------------------------------------------------
LEMMA FieldsFit ==
  ASSUME role \in Roles, NEW f \in Fields
  PROVE  /\ f \in DOMAIN Create[role] /\ relation \in Relevant[role]
         /\ Reads[role][f].of \in {AnyType, Create[role][f].of}
         /\ \A g \in Fields \ {f} : Reads[role][f].of \notin {AnyType, Create[role][g].of}
BY ReadsFitCreate DEF ReadsFit, Fields

\* What the rows say on a day, and what a field reads of it.
Said(R, d) == {<<r.of, r.target>> : r \in On(R, d)}
Read(S, f) == {v[2] : v \in {x \in S : Reads[role][f].of \in {AnyType, x[1]}}} \ {Empty}

\* An object is cut wherever one of its rows begins or ends, so that a row that
\* overlaps the period of a day holds on that day.
LEMMA EffectIsOn ==
  ASSUME relation \in Relevant[role], NEW R, WellFormed(R), NEW d \in Days
  PROVE  Effect(R, d) = On(R, d)
<1>1. d \in Int /\ Days \subseteq Int
  BY DaysAreNumbers
<1>2. ASSUME NEW r \in Effect(R, d) PROVE r \in On(R, d)
  <2>1. PICK e \in Period(R, d) : r \in R /\ r.from =< e /\ e =< r.to
    BY DEF Effect
  <2>2. e \in Int /\ (r.from =< d <=> r.from =< e) /\ (r.to + 1 =< d <=> r.to + 1 =< e)
    BY <1>1, <2>1 DEF Period, Cuts
  <2>3. r.from \in Int /\ r.to \in Int
    BY <2>1, RowDays
  <2>. QED
    BY <1>1, <2>1, <2>2, <2>3 DEF On
<1>3. ASSUME NEW r \in On(R, d) PROVE r \in Effect(R, d)
  <2>1. d \in Period(R, d)
    BY DEF Period
  <2>. QED
    BY <2>1 DEF On, Effect
<1>. QED
  BY <1>2, <1>3

LEMMA ReadingIsRead ==
  ASSUME relation \in Relevant[role], NEW R, WellFormed(R), NEW d \in Days, NEW f
  PROVE  Reading(R, f, d) = Read(Said(R, d), f)
<1>. DEFINE T == Reads[role][f].of
            S == Said(R, d)
            A == {r.target : r \in {x \in On(R, d) : T \in {AnyType, x.of}}}
            B == {v[2] : v \in {x \in S : T \in {AnyType, x[1]}}}
<1>1. Reading(R, f, d) = A \ {Empty}
  BY EffectIsOn DEF Reading, Of
<1>2. Read(S, f) = B \ {Empty}
  BY DEF Read
<1>3. ASSUME NEW r \in On(R, d), T \in {AnyType, r.of} PROVE r.target \in B
  <2>. DEFINE v == <<r.of, r.target>>
  <2>1. v \in S /\ v[1] = r.of /\ v[2] = r.target
    BY DEF Said
  <2>. QED
    BY <1>3, <2>1
<1>4. ASSUME NEW v \in S, T \in {AnyType, v[1]} PROVE v[2] \in A
  <2>1. PICK r \in On(R, d) : v = <<r.of, r.target>>
    BY DEF Said
  <2>. QED
    BY <1>4, <2>1
<1>5. A \subseteq B
  BY <1>3
<1>6. B \subseteq A
  BY <1>4
<1>. QED
  BY <1>1, <1>2, <1>5, <1>6

\* On the days of one period the rows say the same.
LEMMA PeriodSays ==
  ASSUME relation \in Relevant[role], NEW R, WellFormed(R), NEW d \in Days,
         NEW e \in Period(R, d)
  PROVE  e \in Days /\ On(R, e) = On(R, d)
<1>1. d \in Int /\ Days \subseteq Int /\ e \in Days
  BY DaysAreNumbers DEF Period
<1>2. ASSUME NEW r \in R PROVE (r.from =< e /\ e =< r.to) <=> (r.from =< d /\ d =< r.to)
  <2>1. (r.from =< d <=> r.from =< e) /\ (r.to + 1 =< d <=> r.to + 1 =< e)
    BY DEF Period, Cuts
  <2>2. r.from \in Int /\ r.to \in Int
    BY RowDays
  <2>. QED
    BY <1>1, <2>1, <2>2
<1>. QED
  BY <1>1, <1>2 DEF On

\* Rows that follow on each other are read as one, but say the same.
LEMMA ConsolidatedSays ==
  ASSUME NEW R, WellFormed(R), NEW d \in Days
  PROVE  Said(Consolidated(R), d) = Said(R, d)
<1>0. d \in Int /\ d \in Nat /\ Horizon \in Nat /\ d =< Horizon
  BY DaysAreNumbers DEF Days
<1>1. ASSUME NEW x \in On(Consolidated(R), d)
      PROVE  \E r \in On(R, d) : Alike(r, x)
  <2>1. PICK r \in R, s \in R : Run(R, r, s) /\ x = [r EXCEPT !.to = s.to]
    BY Runs DEF On
  <2>2. r \in Row
    BY RowDays
  <2>3. x.from = r.from /\ x.to = s.to /\ x.of = r.of /\ x.target = r.target
    BY <2>1, <2>2 DEF Row
  <2>4. r.from \in Int /\ s.to \in Int /\ x.from =< d /\ d =< x.to
    BY RowDays DEF On
  <2>5. d \in r.from .. s.to
    BY <1>0, <2>3, <2>4
  <2>6. PICK y \in On(R, d) : Alike(r, y)
    BY <2>1, <2>5 DEF Run
  <2>. QED
    BY <2>3, <2>6 DEF Alike
<1>2. ASSUME NEW z \in On(R, d)
      PROVE  \E x \in On(Consolidated(R), d) : Alike(z, x)
  <2>. DEFINE Held(e) == \E x \in On(R, e) : Alike(z, x)
              F == {x.from : x \in {y \in R : Alike(z, y) /\ y.from =< d
                                             /\ \A e \in y.from .. d : Held(e)}}
              G == {Horizon - x.to : x \in {y \in R : Alike(z, y) /\ d =< y.to
                                             /\ \A e \in d .. y.to : Held(e)}}
  <2>1. \A x \in R : /\ x.from \in Nat /\ x.to \in Nat /\ x.to =< Horizon
                     /\ x.from =< x.to /\ Horizon - x.to \in Nat /\ x \in Row
    BY DaysAreNumbers DEF WellFormed, Row, Days
  <2>2. z \in R /\ z.from =< d /\ d =< z.to /\ Alike(z, z)
    BY DEF On, Alike
  <2>3. \A e \in z.from .. z.to : Held(e)
    BY <2>2 DEF On
  <2>4. F \in SUBSET Nat /\ z.from \in F
    <3>1. \A e \in z.from .. d : Held(e)
      BY <1>0, <2>1, <2>2, <2>3
    <3>. QED
      BY <2>1, <2>2, <3>1
  <2>5. G \in SUBSET Nat /\ Horizon - z.to \in G
    <3>1. \A e \in d .. z.to : Held(e)
      BY <1>0, <2>1, <2>2, <2>3
    <3>. QED
      BY <2>1, <2>2, <3>1
  <2>6. PICK m \in F : \A k \in F : m =< k
    BY <2>4, LeastExists
  <2>7. PICK n \in G : \A k \in G : n =< k
    BY <2>5, LeastExists
  <2>8. PICK r \in R : /\ m = r.from /\ Alike(z, r) /\ r.from =< d
                       /\ \A e \in r.from .. d : Held(e)
    BY <2>6
  <2>9. PICK s \in R : /\ n = Horizon - s.to /\ Alike(z, s) /\ d =< s.to
                       /\ \A e \in d .. s.to : Held(e)
    BY <2>7
  <2>10. \A y \in R : Alike(z, y) /\ y.from =< d /\ (\A e \in y.from .. d : Held(e))
                      => r.from =< y.from
    BY <2>6, <2>8
  <2>11. \A y \in R : Alike(z, y) /\ d =< y.to /\ (\A e \in d .. y.to : Held(e))
                      => y.to =< s.to
    <3>1. \A y \in R : Alike(z, y) /\ d =< y.to /\ (\A e \in d .. y.to : Held(e))
                      => Horizon - s.to =< Horizon - y.to
      BY <2>7, <2>9
    <3>. QED
      BY <2>1, <3>1, <1>0
  <2>. HIDE DEF F, G
  <2>12. r.from =< s.from
    <3>1. SUFFICES ASSUME s.from < r.from PROVE FALSE
      BY <2>1
    <3>2. \A e \in s.from .. d : Held(e)
      BY <1>0, <2>1, <2>9 DEF On
    <3>3. r.from =< s.from
      BY <1>0, <2>1, <2>8, <2>9, <2>10, <3>1, <3>2
    <3>. QED
      BY <2>1, <3>1, <3>3
  <2>13. \A e \in r.from .. s.to : Held(e)
    <3>1. \A e \in r.from .. s.to : e \in r.from .. d \/ e \in d .. s.to
      BY <1>0, <2>1
    <3>. QED
      BY <2>8, <2>9, <3>1
  <2>14. ASSUME NEW x \in R, Follows(x, r) PROVE FALSE
    <3>1. Alike(z, x) /\ r.from = x.to + 1
      BY <2>8, <2>14 DEF Follows, Alike
    <3>2. \A e \in x.from .. d : Held(e)
      <4>1. \A e \in x.from .. d : e \in x.from .. x.to \/ e \in r.from .. d
        BY <1>0, <2>1, <3>1
      <4>2. \A e \in x.from .. x.to : Held(e)
        BY <3>1 DEF On
      <4>. QED
        BY <2>8, <4>1, <4>2
    <3>3. x.from =< d /\ x.from < r.from
      BY <1>0, <2>1, <2>8, <3>1
    <3>4. r.from =< x.from
      BY <2>10, <3>1, <3>2, <3>3
    <3>. QED
      BY <2>1, <3>3, <3>4
  <2>15. ASSUME NEW x \in R, Follows(s, x) PROVE FALSE
    <3>1. Alike(z, x) /\ x.from = s.to + 1
      BY <2>9, <2>15 DEF Follows, Alike
    <3>2. \A e \in d .. x.to : Held(e)
      <4>1. \A e \in d .. x.to : e \in d .. s.to \/ e \in x.from .. x.to
        BY <1>0, <2>1, <3>1
      <4>2. \A e \in x.from .. x.to : Held(e)
        BY <3>1 DEF On
      <4>. QED
        BY <2>9, <4>1, <4>2
    <3>3. d =< x.to /\ s.to < x.to
      BY <1>0, <2>1, <2>9, <3>1
    <3>4. x.to =< s.to
      BY <2>11, <3>1, <3>2, <3>3
    <3>. QED
      BY <2>1, <3>3, <3>4
  <2>16. Alike(r, s) /\ \A x : Alike(z, x) => Alike(r, x)
    BY <2>8, <2>9 DEF Alike
  <2>17. Run(R, r, s)
    BY <2>12, <2>13, <2>14, <2>15, <2>16 DEF Run
  <2>18. [r EXCEPT !.to = s.to] \in Consolidated(R)
    <3>1. Consolidated(R) =
            {[p[1] EXCEPT !.to = p[2].to] : p \in {q \in R \X R : Run(R, q[1], q[2])}}
      BY DEF Consolidated, Run, Follows
    <3>2. <<r, s>> \in {q \in R \X R : Run(R, q[1], q[2])}
      BY <2>17
    <3>3. \E p \in {q \in R \X R : Run(R, q[1], q[2])} : p[1] = r /\ p[2] = s
      BY <3>2
    <3>. QED
      BY <3>1, <3>3
  <2>. DEFINE x == [r EXCEPT !.to = s.to]
  <2>19. x.from = r.from /\ x.to = s.to /\ x.of = r.of /\ x.target = r.target
    BY <2>1 DEF Row
  <2>. QED
    BY <2>8, <2>9, <2>18, <2>19 DEF On, Alike
<1>. QED
  BY <1>1, <1>2 DEF Said, Alike
-----------------------------------------------------------------------------
IsWindow(w) == w.from \in Int /\ w.to \in Int /\ w.from < w.to

LEMMA DayOfInstant ==
  ASSUME NEW i \in Int
  PROVE  Day(i) \in Int /\ 3 * Day(i) =< i /\ i < 3 * Day(i) + 3
BY DEF Day

LEMMA OverlapsADay ==
  ASSUME NEW R, WellFormed(R), NEW w, IsWindow(w), NEW r \in R
  PROVE  Overlaps(r, w) <=> \E d \in Touched(w) : r.from =< d /\ d =< r.to
<1>1. /\ r.from \in Int /\ r.to \in Int /\ r.from =< r.to /\ Days \subseteq Int
      /\ \A d \in Int : r.from =< d /\ d =< r.to => d \in Days
  BY RowDays, DaysAreNumbers DEF WellFormed, Row, Days
<1>2. CASE Overlaps(r, w)
  <2>. DEFINE q == Day(w.from)
              d == Greatest(r.from, q)
  <2>1. q \in Int /\ 3 * q =< w.from /\ w.from < 3 * q + 3
    BY DayOfInstant DEF IsWindow
  <2>2. 3 * r.from < w.to /\ w.from < 3 * (r.to + 1) /\ w.from < w.to
    BY <1>2 DEF Overlaps, Midnight, IsWindow
  <2>. HIDE DEF q
  <2>3. d \in Int /\ r.from =< d /\ d =< r.to /\ 3 * d < w.to /\ w.from < 3 * (d + 1)
    BY <1>1, <2>1, <2>2 DEF Greatest, IsWindow
  <2>4. d \in Touched(w)
    BY <1>1, <2>3 DEF Touched, Midnight
  <2>. QED
    BY <1>2, <2>3, <2>4
<1>3. ASSUME NEW d \in Touched(w), r.from =< d, d =< r.to PROVE Overlaps(r, w)
  BY <1>1, <1>3 DEF Touched, Overlaps, Midnight, IsWindow
<1>. QED
  BY <1>2, <1>3

\* What is trimmed away does not hold on the days that are asked for.
LEMMA KeptSays ==
  ASSUME NEW R, WellFormed(R), NEW w, IsWindow(w), NEW d \in Days,
         Midnight(d) =< w.to, w.from < Midnight(d + 1)
  PROVE  WellFormed(Kept(R, w)) /\ On(Kept(R, w), d) = On(R, d)
<1>1. d \in Int
  BY DaysAreNumbers
<1>2. ASSUME NEW r \in On(R, d) PROVE r \in Kept(R, w)
  <2>1. r \in R /\ r.from \in Int /\ r.to \in Int /\ r.from =< d /\ d =< r.to
    BY RowDays DEF On
  <2>. QED
    BY <1>1, <2>1 DEF Kept, Midnight, IsWindow
<1>. QED
  BY <1>2 DEF On, Kept, WellFormed

LEMMA FetchedSays ==
  ASSUME role \in Roles, relation \in Relevant[role], WellFormed(rows), NEW w, IsWindow(w),
         NEW d \in Days, Midnight(d) =< w.to, w.from < Midnight(d + 1), NEW f
  PROVE  /\ WellFormed(Fetched(w)) /\ Said(Fetched(w), d) = Said(rows, d)
         /\ Reading(Fetched(w), f, d) = Reading(rows, f, d)
<1>1. WellFormed(Consolidated(rows)) /\ Said(Consolidated(rows), d) = Said(rows, d)
  BY ConsolidatedWellFormed, ConsolidatedSays
<1>2. /\ WellFormed(Fetched(w))
      /\ On(Fetched(w), d) = On(Consolidated(rows), d)
  BY <1>1, KeptSays DEF Fetched
<1>3. Said(Fetched(w), d) = Said(rows, d)
  BY <1>1, <1>2 DEF Said
<1>. QED
  BY <1>2, <1>3, ReadingIsRead

\* Rows that refer to something are those of one of the fields.
Typed(R) == \A r \in R : r.target # Empty => \E g \in Fields : r.of = Create[role][g].of

\* An argument of a filter finds the object by what it reads on the days asked for,
\* if it is active on one of them.
LEMMA FoundIsRead ==
  ASSUME role \in Roles, WellFormed(rows), Typed(rows), NEW w, IsWindow(w),
         NEW resolver \in Asked, NEW a \in Searched(resolver), NEW active
  PROVE  /\ active \cap Touched(w) = {} => Found(resolver, a, w, active) = {}
         /\ active \cap Touched(w) # {} =>
              Found(resolver, a, w, active) =
                UNION {Reading(rows, resolver.arguments[a], d) : d \in Touched(w)}
<1>. DEFINE f == resolver.arguments[a]
            T == Reads[role][f].of
<1>1. f \in Fields /\ resolver.objects = StoredAs[role] /\ resolver \in Resolvers
      /\ a \in DOMAIN resolver.arguments
  BY DEF Asked, Searched
<1>2. resolver.filter[a] = relation
  BY <1>1, FiltersFitCreate DEF FilterFits, Fields
<1>. HIDE DEF f
<1>3. /\ relation \in Relevant[role] /\ T \in {AnyType, Create[role][f].of}
      /\ \A g \in Fields \ {f} : T \notin {AnyType, Create[role][g].of}
  BY <1>1, FieldsFit
<1>4. ASSUME NEW r \in rows, r.target # Empty
      PROVE  r.of = Create[role][f].of <=> T \in {AnyType, r.of}
  BY <1>3, <1>4 DEF Typed
<1>5. ASSUME NEW d \in Days
      PROVE  Reading(rows, f, d) = {r.target : r \in {x \in On(rows, d) : T \in {AnyType, x.of}}} \ {Empty}
  BY <1>3, EffectIsOn DEF Reading, Of
<1>. DEFINE F == {r.target : r \in {x \in rows : Overlaps(x, w) /\ x.of = Create[role][f].of}} \ {Empty}
<1>6. Found(resolver, a, w, active) = IF active \cap Touched(w) = {} THEN {} ELSE F
  BY <1>1, <1>2 DEF Found, f
<1>. HIDE DEF T
<1>7. ASSUME NEW t \in F
      PROVE  \E d \in Touched(w) : t \in Reading(rows, f, d)
  <2>1. PICK r \in rows : Overlaps(r, w) /\ r.of = Create[role][f].of /\ r.target = t /\ t # Empty
    OBVIOUS
  <2>2. PICK d \in Touched(w) : r.from =< d /\ d =< r.to
    BY <2>1, OverlapsADay
  <2>3. d \in Days /\ r \in On(rows, d) /\ T \in {AnyType, r.of}
    BY <1>4, <2>1, <2>2 DEF Touched, On
  <2>. QED
    BY <1>5, <2>1, <2>2, <2>3
<1>8. ASSUME NEW d \in Touched(w), NEW t \in Reading(rows, f, d)
      PROVE  t \in F
  <2>1. d \in Days
    BY DEF Touched
  <2>2. PICK r \in On(rows, d) : T \in {AnyType, r.of} /\ r.target = t /\ t # Empty
    BY <1>5, <2>1
  <2>3. r \in rows /\ r.from =< d /\ d =< r.to
    BY <2>2 DEF On
  <2>4. Overlaps(r, w)
    BY <2>3, OverlapsADay
  <2>. QED
    BY <1>4, <2>2, <2>3, <2>4
<1>9. F = UNION {Reading(rows, f, d) : d \in Touched(w)}
  BY <1>7, <1>8
<1>. QED
  BY <1>6, <1>9 DEF f

LEMMA Followed ==
  ASSUME role \in Roles, relation \in Relations(role)
  PROVE  relation \in Relevant[role] /\ Fields # {}
<1>1. PICK f \in Fields : TRUE
  BY DEF Relations, Fields
<1>. QED
  BY <1>1, FieldsFit

\* The active days of a period are read as any one of them.
LEMMA PeriodValue ==
  ASSUME relation \in Relevant[role], NEW R, WellFormed(R), NEW active, NEW d \in Days, d \in active,
         NEW f
  PROVE  /\ d \in ActivePeriod(R, active, d)
         /\ ActivePeriod(R, active, d) \subseteq Period(R, d) \cap active
         /\ \A e \in ActivePeriod(R, active, d) : e \in Days /\ Reading(R, f, e) = Reading(R, f, d)
         /\ Value(R, f, ActivePeriod(R, active, d)) = Reading(R, f, d)
<1>. DEFINE p == ActivePeriod(R, active, d)
<1>1. d \in Int /\ d \in Period(R, d) /\ Period(R, d) \subseteq Days /\ Days \subseteq Int
  BY DaysAreNumbers DEF Period
<1>2. d \in p
  BY <1>1 DEF ActivePeriod, Least, Greatest
<1>3. p \subseteq Period(R, d)
  BY DEF ActivePeriod
<1>4. ASSUME NEW e \in p PROVE e \in active
  <2>1. e \in Int /\ Least(d, e) .. Greatest(d, e) \subseteq active
    BY <1>1, <1>3 DEF ActivePeriod
  <2>. QED
    BY <1>1, <2>1 DEF Least, Greatest
<1>5. ASSUME NEW e \in p PROVE e \in Days /\ Reading(R, f, e) = Reading(R, f, d)
  <2>1. e \in Days /\ Said(R, e) = Said(R, d)
    BY <1>1, <1>3, PeriodSays DEF Said
  <2>. QED
    BY <2>1, ReadingIsRead
<1>. HIDE DEF p
<1>6. Value(R, f, p) = Reading(R, f, d)
  <2>. DEFINE e == CHOOSE x \in p : TRUE
  <2>1. e \in p
    BY <1>2
  <2>2. Value(R, f, p) = Reading(R, f, e)
    BY DEF Value
  <2>. HIDE DEF e
  <2>. QED
    BY <1>5, <2>1, <2>2
<1>. QED
  BY <1>2, <1>3, <1>4, <1>5, <1>6 DEF p

LEMMA ActivitiesAreDays ==
  ASSUME NEW active \in Activities
  PROVE  active \subseteq Days
BY DEF Activities

LEMMA WindowsAreWindows ==
  /\ \A w \in GraphQLWindows : IsWindow(w)
  /\ \A now \in Times, validity \in Validities : IsWindow(Window(validity, now))
<1>1. \A now \in Times : now \in Nat /\ now < 3 * (Horizon + 1)
  BY DaysAreNumbers DEF Times
<1>2. \A now \in Times, validity \in Validities : IsWindow(Window(validity, now))
  BY <1>1, DaysAreNumbers DEF IsWindow, Window, Validities, Beginning, Forever, Midnight
<1>3. ASSUME NEW w \in GraphQLWindows PROVE IsWindow(w)
  <2>1. CASE w \in Moments
    BY <1>2, <2>1 DEF Moments, Validities
  <2>2. ASSUME NEW d \in Days, NEW e \in d .. Horizon, w = [from |-> Midnight(d), to |-> Midnight(e + 1)]
        PROVE  IsWindow(w)
    BY <2>2, DaysAreNumbers DEF IsWindow, Midnight, Days
  <2>. QED
    BY <2>1, <2>2 DEF GraphQLWindows
<1>. QED
  BY <1>2, <1>3

LEMMA FiltersHold ==
  ASSUME role \in Roles, relation \in Relations(role), WellFormed(rows), Typed(rows)
  PROVE  FiltersAgree
<1>. SUFFICES ASSUME NEW w \in GraphQLWindows, NEW active \in Activities
              PROVE  LET listed == Listed(Fetched(w), active, "present", w)
                         shown == active \cap Touched(w)
                     IN  /\ \A f \in Fields, d \in shown :
                              \E p \in listed : d \in p /\ Value(Fetched(w), f, p) = Reading(rows, f, d)
                         /\ \A resolver \in Asked : \A a \in Searched(resolver) :
                              LET found == Found(resolver, a, w, active)
                                  returned == UNION {Value(Fetched(w), resolver.arguments[a], p) : p \in listed}
                              IN  /\ returned \subseteq found
                                  /\ shown \in {{}, Touched(w)} => found = returned
  BY DEF FiltersAgree
<1>. DEFINE K == Fetched(w)
            listed == Listed(K, active, "present", w)
            shown == active \cap Touched(w)
<1>1. relation \in Relevant[role] /\ IsWindow(w) /\ active \subseteq Days
  BY Followed, WindowsAreWindows, ActivitiesAreDays
<1>2. ASSUME NEW d \in Touched(w), NEW f
      PROVE  /\ d \in Days /\ WellFormed(K)
             /\ Reading(K, f, d) = Reading(rows, f, d)
  <2>1. d \in Days /\ Midnight(d) < w.to /\ w.from < Midnight(d + 1)
    BY DEF Touched
  <2>2. Midnight(d) =< w.to
    BY <1>1, <2>1, DaysAreNumbers DEF Midnight, IsWindow
  <2>. QED
    BY <1>1, <2>1, <2>2, FetchedSays
<1>. HIDE DEF K
\* Each active day is in a period that is returned.
<1>3. ASSUME NEW d \in shown, NEW f
      PROVE  \E p \in listed : d \in p /\ Value(K, f, p) = Reading(rows, f, d)
  <2>. DEFINE p == ActivePeriod(K, active, d)
  <2>1. d \in Days /\ d \in active /\ WellFormed(K) /\ Reading(K, f, d) = Reading(rows, f, d)
    BY <1>2
  <2>2. d \in p /\ Value(K, f, p) = Reading(K, f, d)
    BY <1>1, <2>1, PeriodValue
  <2>. HIDE DEF p
  <2>3. IsRangeRelevant("present", w, p)
    BY <2>2 DEF IsRangeRelevant, Touched
  <2>4. p \in listed
    BY <2>1, <2>3 DEF Listed, p
  <2>. QED
    BY <2>1, <2>2, <2>4
\* Each period that is returned has an active day that was asked for.
<1>4. ASSUME NEW p \in listed, NEW f
      PROVE  \E d \in shown : Value(K, f, p) = Reading(rows, f, d)
  <2>1. PICK e \in active : p = ActivePeriod(K, active, e) /\ IsRangeRelevant("present", w, p)
    BY DEF Listed
  <2>2. PICK d \in p : Midnight(d) < w.to /\ w.from < Midnight(d + 1)
    BY <2>1 DEF IsRangeRelevant
  <2>3. p \subseteq Days
    BY <2>1 DEF ActivePeriod, Period
  <2>4. d \in Touched(w)
    BY <2>2, <2>3 DEF Touched
  <2>5. e \in Days /\ WellFormed(K) /\ Reading(K, f, d) = Reading(rows, f, d)
    BY <1>1, <1>2, <2>4
  <2>6. d \in active /\ Reading(K, f, d) = Reading(K, f, e) /\ Value(K, f, p) = Reading(K, f, e)
    BY <1>1, <2>1, <2>2, <2>5, PeriodValue
  <2>. QED
    BY <2>4, <2>5, <2>6
<1>5. ASSUME NEW resolver \in Asked, NEW a \in Searched(resolver)
      PROVE  LET found == Found(resolver, a, w, active)
                 returned == UNION {Value(K, resolver.arguments[a], p) : p \in listed}
             IN  /\ returned \subseteq found
                 /\ shown \in {{}, Touched(w)} => found = returned
  <2>. DEFINE f == resolver.arguments[a]
              returned == UNION {Value(K, f, p) : p \in listed}
              read == UNION {Reading(rows, f, d) : d \in shown}
  <2>1. Found(resolver, a, w, active) =
          IF shown = {} THEN {} ELSE UNION {Reading(rows, f, d) : d \in Touched(w)}
    BY <1>1, FoundIsRead
  <2>. HIDE DEF f, listed, shown
  <2>2. returned = read
    <3>1. ASSUME NEW t \in returned PROVE t \in read
      <4>1. PICK p \in listed : t \in Value(K, f, p)
        OBVIOUS
      <4>2. PICK d \in shown : Value(K, f, p) = Reading(rows, f, d)
        BY <1>4
      <4>. QED
        BY <4>1, <4>2
    <3>2. ASSUME NEW t \in read PROVE t \in returned
      <4>1. PICK d \in shown : t \in Reading(rows, f, d)
        OBVIOUS
      <4>2. PICK p \in listed : Value(K, f, p) = Reading(rows, f, d)
        BY <1>3
      <4>. QED
        BY <4>1, <4>2
    <3>. QED
      BY <3>1, <3>2
  <2>3. shown \subseteq Touched(w)
    BY DEF shown
  <2>. QED
    BY <2>1, <2>2, <2>3 DEF f
<1>. QED
  BY <1>3, <1>5 DEF K
-----------------------------------------------------------------------------
LEMMA Today ==
  ASSUME NEW now \in Times
  PROVE  /\ now \in Nat /\ Day(now) \in Days /\ 3 * Day(now) =< now /\ now < 3 * Day(now) + 3
         /\ Touched(Window("present", now)) = {Day(now)}
<1>1. now \in Nat /\ now < 3 * (Horizon + 1) /\ Horizon \in Nat
  BY DaysAreNumbers DEF Times
<1>2. Day(now) \in Int /\ 3 * Day(now) =< now /\ now < 3 * Day(now) + 3
  BY <1>1, DayOfInstant
<1>3. Day(now) \in Days
  BY <1>1, <1>2 DEF Days
<1>4. ASSUME NEW d \in Days
      PROVE  (Midnight(d) < now + 1 /\ now < Midnight(d + 1)) <=> d = Day(now)
  <2>1. d \in Int
    BY DaysAreNumbers
  <2>. QED
    BY <1>1, <1>2, <2>1 DEF Midnight
<1>. QED
  BY <1>1, <1>2, <1>3, <1>4 DEF Touched, Window

LEMMA GraphQLListsHold ==
  ASSUME role \in Roles, relation \in Relations(role), WellFormed(rows), Typed(rows)
  PROVE  GraphQLListsAgree
<1>. SUFFICES ASSUME NEW now \in Times, NEW active \in Activities, NEW list \in Collections,
                     list.resolver \in Asked, list.argument \in Searched(list.resolver)
              PROVE  LET f == list.resolver.arguments[list.argument]
                     IN  Found(list.resolver, list.argument, Window("present", now), active) =
                           IF <<f, list.of>> \in Links[role] /\ Day(now) \in active
                           THEN Reading(rows, f, Day(now)) ELSE {}
  BY DEF GraphQLListsAgree
<1>. DEFINE f == list.resolver.arguments[list.argument]
            w == Window("present", now)
<1>1. IsWindow(w)
  BY WindowsAreWindows DEF Validities
<1>. HIDE DEF w
<1>2. /\ active \cap Touched(w) = {} => Found(list.resolver, list.argument, w, active) = {}
      /\ active \cap Touched(w) # {} =>
           Found(list.resolver, list.argument, w, active) = UNION {Reading(rows, f, d) : d \in Touched(w)}
  BY <1>1, FoundIsRead
<1>3. Touched(w) = {Day(now)}
  BY Today DEF w
<1>4. <<f, list.of>> \in Links[role]
  <2>1. list.resolver.objects = StoredAs[role] /\ f \in DOMAIN Create[role]
    BY DEF Asked, Searched, Fields
  <2>. QED
    BY <2>1, CollectionsFitLinks DEF ListFits
<1>. HIDE DEF f
<1>5. Found(list.resolver, list.argument, w, active) =
        IF Day(now) \in active THEN Reading(rows, f, Day(now)) ELSE {}
  BY <1>2, <1>3
<1>. QED
  BY <1>4, <1>5 DEF f, w

\* Each active day of the object is told of by one of the three lists: the present,
\* if nothing changes between that day and today, or else the past or the future.
Told(d, now, active, validity, f) ==
  LET w == Window(validity, now)
      K == Fetched(w)
  IN  /\ \E e \in active \cap Touched(w) : Said(rows, e) = Said(rows, d)
      /\ \E p \in Listed(K, active, validity, w) \cap Listed(K, active, "present", w) :
           d \in p /\ Value(K, f, p) = Reading(rows, f, d) /\ FilterByValidity(validity, now, p)

LEMMA ToldInPresent ==
  ASSUME role \in Roles, relation \in Relevant[role], WellFormed(rows), NEW now \in Times,
         NEW active, NEW d \in Days, d \in active, NEW f,
         Day(now) \in ActivePeriod(Consolidated(rows), active, d)
  PROVE  Told(d, now, active, "present", f)
<1>. DEFINE w == Window("present", now)
            K == Fetched(w)
            C == Consolidated(rows)
            D == Day(now)
<1>1. /\ IsWindow(w) /\ Touched(w) = {D} /\ D \in Days /\ Midnight(D) < w.to /\ w.from < Midnight(D + 1)
      /\ now \in Nat /\ w.to = now + 1 /\ w.from = now
  BY WindowsAreWindows, Today DEF Validities, Touched, Window
<1>2. D \in Int /\ d \in Int /\ Days \subseteq Int
  BY <1>1, DaysAreNumbers
<1>3. WellFormed(C) /\ Said(C, D) = Said(rows, D) /\ Said(C, d) = Said(rows, d)
  BY <1>1, ConsolidatedWellFormed, ConsolidatedSays
<1>4. Said(C, D) = Said(C, d)
  <2>1. D \in Period(C, d)
    BY DEF ActivePeriod
  <2>. QED
    BY <1>3, <2>1, PeriodSays DEF Said
<1>5. Midnight(D) =< w.to
  BY <1>1, <1>2 DEF Midnight
<1>6. WellFormed(K) /\ Said(K, D) = Said(rows, D)
  BY <1>1, <1>5, FetchedSays
<1>. HIDE DEF D
<1>. DEFINE p == ActivePeriod(K, active, D)
<1>7. d \in p /\ D \in active
  <2>1. K \subseteq C
    BY DEF Fetched, Kept
  <2>2. Cuts(K) \subseteq Cuts(C)
    BY <2>1 DEF Cuts
  <2>3. D \in Period(C, d) /\ Least(d, D) .. Greatest(d, D) \subseteq active
    BY DEF ActivePeriod, D
  <2>4. d \in Period(K, D)
    BY <1>1, <2>2, <2>3 DEF Period
  <2>5. Least(D, d) = Least(d, D) /\ Greatest(D, d) = Greatest(d, D) /\ D \in Least(d, D) .. Greatest(d, D)
    BY <1>2 DEF Least, Greatest
  <2>. QED
    BY <2>3, <2>4, <2>5 DEF ActivePeriod
<1>8. D \in p /\ Value(K, f, p) = Reading(K, f, D)
  BY <1>1, <1>6, <1>7, PeriodValue
<1>. HIDE DEF p
<1>9. p \in Listed(K, active, "present", w)
  <2>1. IsRangeRelevant("present", w, p)
    BY <1>1, <1>8 DEF IsRangeRelevant
  <2>. QED
    BY <1>7, <2>1 DEF Listed, p
<1>10. Value(K, f, p) = Reading(rows, f, d)
  <2>1. Reading(K, f, D) = Reading(rows, f, d)
    BY <1>1, <1>3, <1>4, <1>6, ReadingIsRead
  <2>. QED
    BY <1>8, <2>1
<1>11. FilterByValidity("present", now, p)
  BY DEF FilterByValidity
<1>12. Said(rows, D) = Said(rows, d) /\ D \in active \cap Touched(w)
  BY <1>1, <1>3, <1>4, <1>7
<1>. HIDE DEF w, K, C
<1>13. \E q \in Listed(K, active, "present", w) :
         d \in q /\ Value(K, f, q) = Reading(rows, f, d) /\ FilterByValidity("present", now, q)
  BY <1>7, <1>9, <1>10, <1>11
<1>. QED
  BY <1>12, <1>13 DEF Told, w, K

\* What begins or ends by today is kept for the past.
LEMMA ToldInPast ==
  ASSUME role \in Roles, relation \in Relevant[role], WellFormed(rows), NEW now \in Times,
         NEW active, active \subseteq Days, NEW d \in active, NEW f, NEW x \in Int,
         \/ x \in Cuts(Consolidated(rows)) /\ d < x /\ x =< Day(now)
         \/ x \notin active /\ d < x /\ x =< Day(now)
  PROVE  Told(d, now, active, "past", f)
<1>. DEFINE w == Window("past", now)
            K == Fetched(w)
            C == Consolidated(rows)
            D == Day(now)
<1>1. /\ IsWindow(w) /\ D \in Days /\ now \in Nat /\ w.from = -1 /\ w.to = now
      /\ 3 * D =< now /\ now < 3 * D + 3
  BY WindowsAreWindows, Today DEF Validities, Window, Beginning
<1>2. D \in Int /\ d \in Days /\ d \in Nat /\ Days \subseteq Nat /\ Horizon \in Nat /\ D =< Horizon
  <2>1. Days \subseteq Nat /\ Horizon \in Nat /\ \A e \in Days : e =< Horizon
    BY DaysAreNumbers DEF Days
  <2>2. D \in Days /\ d \in Days
    BY <1>1
  <2>. HIDE DEF D
  <2>. QED
    BY <2>1, <2>2
<1>3. WellFormed(C)
  BY ConsolidatedWellFormed
<1>. HIDE DEF D, C
<1>. DEFINE p == ActivePeriod(K, active, d)
<1>4. d < x /\ x =< D
  BY DEF D
<1>5. \A e \in p : e \in Nat /\ e < x
  <2>1. CASE x \in Cuts(C)
    <3>1. PICK r \in C : x = r.from \/ x = r.to + 1
      BY <2>1 DEF Cuts
    <3>2. r.from \in Nat /\ r.to \in Nat /\ r.from =< r.to
      BY <1>2, <1>3 DEF WellFormed, Row
    <3>3. Midnight(r.from) =< w.to /\ w.from < Midnight(r.to + 1)
      BY <1>1, <1>2, <1>4, <3>1, <3>2 DEF Midnight
    <3>4. r \in K
      BY <3>3 DEF Fetched, Kept, C
    <3>5. x \in Cuts(K)
      BY <2>1, <3>1, <3>4 DEF Cuts
    <3>6. \A e \in p : e \in Nat /\ (x =< d <=> x =< e)
      BY <1>2, <3>5 DEF ActivePeriod, Period
    <3>. QED
      BY <1>2, <1>4, <3>6
  <2>2. CASE x \notin active
    BY <1>2, <1>4, <2>2 DEF ActivePeriod, Period, Least, Greatest
  <2>. QED
    BY <2>1, <2>2 DEF C
<1>6. \A e \in p : Midnight(e + 1) =< w.to /\ e < Horizon
  BY <1>1, <1>2, <1>4, <1>5 DEF Midnight
<1>9. d \in Touched(w) /\ Midnight(d) =< w.to /\ w.from < Midnight(d + 1)
  BY <1>1, <1>2, <1>4 DEF Touched, Midnight
<1>10. WellFormed(K) /\ Reading(K, f, d) = Reading(rows, f, d)
  BY <1>1, <1>2, <1>9, FetchedSays
<1>11. d \in p /\ Value(K, f, p) = Reading(rows, f, d)
  BY <1>2, <1>10, PeriodValue
<1>. HIDE DEF p
<1>12. IsRangeRelevant("past", w, p) /\ IsRangeRelevant("present", w, p)
  <2>1. \A e \in p : w.from < Midnight(e) /\ Midnight(e + 1) =< w.to
    BY <1>1, <1>5, <1>6 DEF Midnight
  <2>2. Midnight(d) < w.to /\ w.from < Midnight(d + 1)
    BY <1>9 DEF Touched
  <2>. QED
    BY <1>11, <2>1, <2>2 DEF IsRangeRelevant
<1>13. FilterByValidity("past", now, p)
  <2>1. \A e \in p : Midnight(e) < now /\ e # Horizon
    BY <1>1, <1>2, <1>5, <1>6 DEF Midnight
  <2>. QED
    BY <2>1 DEF FilterByValidity
<1>. HIDE DEF w, K
<1>14. p \in Listed(K, active, "past", w) \cap Listed(K, active, "present", w)
  BY <1>12 DEF Listed, p
<1>15. \E q \in Listed(K, active, "past", w) \cap Listed(K, active, "present", w) :
         d \in q /\ Value(K, f, q) = Reading(rows, f, d) /\ FilterByValidity("past", now, q)
  BY <1>11, <1>13, <1>14
<1>. QED
  BY <1>9, <1>15 DEF Told, w, K

LEMMA ToldInFuture ==
  ASSUME role \in Roles, relation \in Relevant[role], WellFormed(rows), NEW now \in Times,
         NEW active, active \subseteq Days, NEW d \in active, NEW f, NEW x \in Int,
         \/ x \in Cuts(Consolidated(rows)) /\ Day(now) < x /\ x =< d
         \/ x \notin active /\ Day(now) =< x /\ x < d
  PROVE  Told(d, now, active, "future", f)
<1>. DEFINE w == Window("future", now)
            K == Fetched(w)
            C == Consolidated(rows)
            D == Day(now)
<1>1. /\ IsWindow(w) /\ D \in Days /\ now \in Nat /\ w.from = now /\ w.to = 3 * (Horizon + 1)
      /\ 3 * D =< now /\ now < 3 * D + 3
  BY WindowsAreWindows, Today DEF Validities, Window, Forever, Midnight
<1>2. /\ D \in Int /\ d \in Days /\ d \in Nat /\ Days \subseteq Nat /\ Horizon \in Nat /\ D =< Horizon
      /\ \A e \in Days : e =< Horizon
  BY <1>1, DaysAreNumbers DEF Days
<1>3. WellFormed(C)
  BY ConsolidatedWellFormed
<1>. HIDE DEF D, C
<1>. DEFINE p == ActivePeriod(K, active, d)
<1>4. D =< x /\ x =< d /\ D < d
  BY <1>2 DEF D
<1>5. \A e \in p : e \in Nat /\ D < e /\ e =< Horizon
  <2>1. CASE x \in Cuts(C) /\ D < x
    <3>1. PICK r \in C : x = r.from \/ x = r.to + 1
      BY <2>1 DEF Cuts
    <3>2. r.from \in Nat /\ r.to \in Nat /\ r.from =< r.to /\ r.from =< Horizon
      BY <1>2, <1>3 DEF WellFormed, Row
    <3>3. Midnight(r.from) =< w.to /\ w.from < Midnight(r.to + 1)
      BY <1>1, <1>2, <2>1, <3>1, <3>2 DEF Midnight
    <3>4. r \in K
      BY <3>3 DEF Fetched, Kept, C
    <3>5. x \in Cuts(K)
      BY <2>1, <3>1, <3>4 DEF Cuts
    <3>6. \A e \in p : e \in Days /\ (x =< d <=> x =< e)
      BY <3>5 DEF ActivePeriod, Period
    <3>7. ASSUME NEW e \in p PROVE e \in Nat /\ D < e /\ e =< Horizon
      <4>1. e \in Days /\ x =< e
        BY <1>4, <3>6
      <4>. HIDE DEF p
      <4>. QED
        BY <1>2, <2>1, <4>1
    <3>. QED
      BY <3>7
  <2>2. CASE x \notin active /\ x < d
    <3>1. ASSUME NEW e \in p PROVE e \in Nat /\ x < e /\ e =< Horizon
      <4>1. e \in Days /\ Least(d, e) .. Greatest(d, e) \subseteq active
        BY DEF ActivePeriod, Period
      <4>2. x \notin Least(d, e) .. Greatest(d, e) /\ e \in Nat /\ e =< Horizon
        BY <1>2, <2>2, <4>1
      <4>. QED
        BY <1>2, <2>2, <4>2 DEF Least, Greatest
    <3>. QED
      BY <1>2, <1>4, <3>1
  <2>. QED
    BY <2>1, <2>2 DEF C, D
<1>6. \A e \in p : w.from < Midnight(e) /\ Midnight(e + 1) =< w.to
  BY <1>1, <1>2, <1>5 DEF Midnight
<1>9. d \in Touched(w) /\ Midnight(d) =< w.to /\ w.from < Midnight(d + 1)
  <2>1. d =< Horizon
    BY <1>2
  <2>. QED
    BY <1>1, <1>2, <1>4, <2>1 DEF Touched, Midnight
<1>10. WellFormed(K) /\ Reading(K, f, d) = Reading(rows, f, d)
  BY <1>1, <1>2, <1>9, FetchedSays
<1>11. d \in p /\ Value(K, f, p) = Reading(rows, f, d)
  BY <1>2, <1>10, PeriodValue
<1>. HIDE DEF p
<1>12. IsRangeRelevant("future", w, p) /\ IsRangeRelevant("present", w, p)
  <2>1. \A e \in p : w.from < Midnight(e) /\ Midnight(e + 1) =< w.to
    BY <1>6
  <2>2. Midnight(d) < w.to /\ w.from < Midnight(d + 1)
    BY <1>9 DEF Touched
  <2>. QED
    BY <1>11, <2>1, <2>2 DEF IsRangeRelevant
<1>13. FilterByValidity("future", now, p)
  <2>1. \A e \in p : Midnight(e) > now
    BY <1>1, <1>2, <1>5 DEF Midnight
  <2>. QED
    BY <2>1 DEF FilterByValidity
<1>. HIDE DEF w, K
<1>14. p \in Listed(K, active, "future", w) \cap Listed(K, active, "present", w)
  BY <1>12 DEF Listed, p
<1>15. \E q \in Listed(K, active, "future", w) \cap Listed(K, active, "present", w) :
         d \in q /\ Value(K, f, q) = Reading(rows, f, d) /\ FilterByValidity("future", now, q)
  BY <1>11, <1>13, <1>14
<1>. QED
  BY <1>9, <1>15 DEF Told, w, K

LEMMA DaysAreTold ==
  ASSUME role \in Roles, relation \in Relevant[role], WellFormed(rows), NEW now \in Times,
         NEW active, active \subseteq Days, NEW d \in active, NEW f
  PROVE  \E validity \in Validities : Told(d, now, active, validity, f)
<1>. DEFINE D == Day(now)
            C == Consolidated(rows)
<1>1. D \in Days /\ d \in Days /\ Days \subseteq Int
  BY Today, DaysAreNumbers
<1>2. CASE D \in ActivePeriod(C, active, d)
  BY <1>1, <1>2, ToldInPresent DEF Validities
<1>3. CASE D \notin Period(C, d)
  <2>1. PICK x \in Cuts(C) : ~(x =< d <=> x =< D)
    BY <1>1, <1>3 DEF Period
  <2>2. x \in Int
    BY <2>1, ConsolidatedWellFormed, RowDays DEF Cuts
  <2>3. d \in Int /\ D \in Int
    BY <1>1
  <2>4. \A i, j, k \in Int : ~(k =< i <=> k =< j) => (i < k /\ k =< j) \/ (j < k /\ k =< i)
    OBVIOUS
  <2>5. (d < x /\ x =< D) \/ (D < x /\ x =< d)
    BY <2>1, <2>2, <2>3, <2>4
  <2>. QED
    BY <2>1, <2>2, <2>5, ToldInPast, ToldInFuture DEF Validities
<1>4. CASE ~(Least(d, D) .. Greatest(d, D) \subseteq active)
  <2>1. PICK x \in Least(d, D) .. Greatest(d, D) : x \notin active
    BY <1>4
  <2>2. x \in Int /\ x # d /\ d \in Int /\ D \in Int
    BY <1>1, <2>1 DEF Least, Greatest
  <2>3. (d < x /\ x =< D) \/ (D =< x /\ x < d)
    <3>. HIDE DEF D
    <3>. QED
      BY <2>1, <2>2 DEF Least, Greatest
  <2>. QED
    BY <2>1, <2>2, <2>3, ToldInPast, ToldInFuture DEF Validities
<1>. QED
  BY <1>1, <1>2, <1>3, <1>4 DEF ActivePeriod

\* The search for the references of all calls finds what one call asks for.
LEMMA AnsweredIfRead ==
  ASSUME role \in Roles, relation \in Relevant[role], WellFormed(rows),
         NEW type, SEARCH_FIELDS[type] = relation, NEW calls, NEW t \in calls,
         NEW w, IsWindow(w), NEW e \in Touched(w), NEW f, t \in Reading(rows, f, e)
  PROVE  Answered(type, calls, t, w)
<1>1. e \in Days /\ Midnight(e) < w.to /\ w.from < Midnight(e + 1) /\ e \in Int
  BY DaysAreNumbers DEF Touched
<1>2. Midnight(e) =< w.to
  BY <1>1 DEF Midnight, IsWindow
<1>3. PICK r \in On(rows, e) : r.target = t
  BY <1>1, EffectIsOn DEF Reading, Of
<1>4. r \in rows /\ r.from =< e /\ e =< r.to
  BY <1>3 DEF On
<1>5. Overlaps(r, w)
  BY <1>4, OverlapsADay
<1>6. Said(Fetched(w), e) = Said(rows, e)
  BY <1>1, <1>2, FetchedSays
<1>7. PICK s \in On(Fetched(w), e) : <<s.of, s.target>> = <<r.of, r.target>>
  <2>1. <<r.of, r.target>> \in Said(Fetched(w), e)
    BY <1>3, <1>6 DEF Said
  <2>. QED
    BY <2>1 DEF Said
<1>8. s \in Fetched(w) /\ s.target = t
  BY <1>3, <1>7 DEF On
<1>. QED
  BY <1>3, <1>4, <1>5, <1>8 DEF Answered, Matches, Refers, ValuesIn

\* In the present a call is given only what refers to its own object: no row
\* begins a moment after the time of the call.
LEMMA AnsweredIsRead ==
  ASSUME role \in Roles, relation \in Relevant[role], WellFormed(rows), NEW now \in Times,
         NEW type, NEW calls, NEW t, t # Empty, NEW f, Reads[role][f].of = AnyType,
         Answered(type, calls, t, Window("present", now))
  PROVE  t \in Reading(rows, f, Day(now))
<1>. DEFINE w == Window("present", now)
            D == Day(now)
            C == Consolidated(rows)
<1>1. /\ D \in Days /\ now \in Nat /\ 3 * D =< now /\ now < 3 * D + 3
      /\ w.from = now /\ w.to = now + 1 /\ now % 3 # 2
  BY Today DEF Window, Times
<1>2. WellFormed(C) /\ Said(C, D) = Said(rows, D) /\ D \in Int
  BY <1>1, ConsolidatedWellFormed, ConsolidatedSays, DaysAreNumbers
<1>3. PICK r \in C : r.target = t /\ Midnight(r.from) =< w.to /\ w.from < Midnight(r.to + 1)
  BY DEF Answered, ValuesIn, Fetched, Kept
<1>. HIDE DEF D, C
<1>4. r.from \in Int /\ r.to \in Int
  BY <1>2, RowDays
<1>5. 3 * r.from =< now + 1 /\ now < 3 * (r.to + 1)
  BY <1>1, <1>3 DEF Midnight
<1>6. 3 * r.from # now + 1
  <2>1. SUFFICES ASSUME 3 * r.from = now + 1 PROVE FALSE
    OBVIOUS
  <2>2. now = 3 * (r.from - 1) + 2
    BY <1>1, <1>4, <2>1
  <2>3. now % 3 = 2
    BY <1>1, <1>4, <2>2
  <2>. QED
    BY <1>1, <2>3
<1>7. r.from =< D /\ D =< r.to
  BY <1>1, <1>2, <1>4, <1>5, <1>6
<1>8. r \in On(C, D)
  BY <1>7 DEF On
<1>9. PICK s \in On(rows, D) : <<s.of, s.target>> = <<r.of, r.target>>
  <2>1. <<r.of, r.target>> \in Said(rows, D)
    BY <1>2, <1>8 DEF Said
  <2>. QED
    BY <2>1 DEF Said
<1>10. t \in Reading(rows, f, D)
  BY <1>1, <1>3, <1>9, EffectIsOn DEF Reading, Of
<1>. QED
  BY <1>10 DEF D

LEMMA ServiceListsHold ==
  ASSUME role \in Roles, relation \in Relations(role), WellFormed(rows)
  PROVE  ServiceListsAgree
<1>. SUFFICES ASSUME NEW list \in ServiceDetails, NEW now \in Times, NEW calls \in Batches,
                     NEW active \in Activities,
                     role \in list.kinds, ListedField[list.type] \in Fields, NEW t \in calls
              PROVE  LET f == ListedField[list.type]
                     IN  /\ \A d \in active : t \in Reading(rows, f, d) =>
                              \E validity \in Validities :
                                \E p \in Returned(list.type, calls, t, validity, now, active) :
                                  /\ d \in p
                                  /\ Value(Fetched(Window(validity, now)), f, p) = Reading(rows, f, d)
                         /\ Returned(list.type, calls, t, "present", now, active) # {} <=>
                              Day(now) \in active /\ t \in Reading(rows, f, Day(now))
  BY DEF ServiceListsAgree
<1>. DEFINE f == ListedField[list.type]
<1>1. /\ relation \in Relevant[role] /\ t # Empty /\ Day(now) \in Days
      /\ active \subseteq Days
  BY Followed, Today, DetailAssumption, ActivitiesAreDays DEF Batches
<1>2. SEARCH_FIELDS[list.type] = relation /\ Reads[role][f].of = AnyType
  BY DetailsFitSearch DEF Fields
<1>. HIDE DEF f
<1>3. ASSUME NEW d \in active, t \in Reading(rows, f, d)
      PROVE  \E validity \in Validities :
               \E p \in Returned(list.type, calls, t, validity, now, active) :
                 d \in p /\ Value(Fetched(Window(validity, now)), f, p) = Reading(rows, f, d)
  <2>1. PICK validity \in Validities : Told(d, now, active, validity, f)
    BY <1>1, DaysAreTold
  <2>. DEFINE w == Window(validity, now)
  <2>2. IsWindow(w)
    BY WindowsAreWindows
  <2>3. Returned(list.type, calls, t, validity, now, active) =
          IF Answered(list.type, calls, t, w) THEN Listed(Fetched(w), active, validity, w) ELSE {}
    BY DEF Returned
  <2>. HIDE DEF w
  <2>4. PICK e \in active \cap Touched(w) : Said(rows, e) = Said(rows, d)
    BY <2>1 DEF Told, w
  <2>5. e \in Days /\ d \in Days
    BY <1>1
  <2>6. t \in Reading(rows, f, e)
    BY <1>1, <1>3, <2>4, <2>5, ReadingIsRead
  <2>7. Answered(list.type, calls, t, w)
    BY <1>1, <1>2, <2>2, <2>6, AnsweredIfRead
  <2>8. PICK p \in Listed(Fetched(w), active, validity, w) :
          d \in p /\ Value(Fetched(w), f, p) = Reading(rows, f, d)
    BY <2>1 DEF Told, w
  <2>. QED
    BY <2>3, <2>7, <2>8 DEF w
<1>4. Returned(list.type, calls, t, "present", now, active) # {} <=>
        Day(now) \in active /\ t \in Reading(rows, f, Day(now))
  <2>. DEFINE w == Window("present", now)
              D == Day(now)
  <2>1. IsWindow(w) /\ Touched(w) = {D}
    BY WindowsAreWindows, Today DEF Validities
  <2>2. Returned(list.type, calls, t, "present", now, active) =
          IF Answered(list.type, calls, t, w) THEN Listed(Fetched(w), active, "present", w) ELSE {}
    BY DEF Returned
  <2>3. Answered(list.type, calls, t, w) <=> t \in Reading(rows, f, D)
    BY <1>1, <1>2, <2>1, AnsweredIfRead, AnsweredIsRead
  <2>4. D \in Days /\ D \in active => Listed(Fetched(w), active, "present", w) # {}
    <3>1. SUFFICES ASSUME D \in Days, D \in active
                   PROVE  \E p : p \in Listed(Fetched(w), active, "present", w)
      OBVIOUS
    <3>2. /\ D \in ActivePeriod(Fetched(w), active, D)
          /\ Midnight(D) < w.to /\ w.from < Midnight(D + 1)
      <4>1. /\ D \in Int /\ D \in Touched(w)
        BY <2>1, <3>1, DaysAreNumbers
      <4>. HIDE DEF w, D
      <4>. QED
        BY <3>1, <4>1 DEF ActivePeriod, Period, Touched, Least, Greatest
    <3>. HIDE DEF w, D
    <3>3. IsRangeRelevant("present", w, ActivePeriod(Fetched(w), active, D))
      BY <3>2 DEF IsRangeRelevant
    <3>. QED
      BY <3>1, <3>3 DEF Listed
  <2>5. ASSUME NEW p \in Listed(Fetched(w), active, "present", w) PROVE D \in active
    <3>. HIDE DEF w, D
    <3>1. PICK e \in active : p = ActivePeriod(Fetched(w), active, e) /\ IsRangeRelevant("present", w, p)
      BY DEF Listed
    <3>2. PICK d \in p : d \in Touched(w)
      BY <3>1 DEF IsRangeRelevant, Touched, ActivePeriod, Period
    <3>3. e \in Int /\ d \in Int /\ Least(e, d) .. Greatest(e, d) \subseteq active
      BY <1>1, <3>1, DaysAreNumbers DEF ActivePeriod, Period
    <3>. QED
      BY <2>1, <3>2, <3>3 DEF Least, Greatest
  <2>. HIDE DEF w, D
  <2>6. Returned(list.type, calls, t, "present", now, active) # {} <=>
          D \in active /\ t \in Reading(rows, f, D)
    BY <1>1, <2>2, <2>3, <2>4, <2>5
  <2>. QED
    BY <2>6 DEF D
<1>. QED
  BY <1>3, <1>4 DEF f

LEMMA AddressListsHold ==
  ASSUME role \in Roles, relation \in Relations(role), WellFormed(rows), Typed(rows)
  PROVE  AddressListsAgree
<1>. SUFFICES ASSUME NEW list \in AddressDetails, NEW now \in Times,
                     role \in list.kinds, ListedField[list.type] \in Fields,
                     NEW active \in Activities, NEW d \in active,
                     NEW t \in Reading(rows, ListedField[list.type], d)
              PROVE  LET f == ListedField[list.type]
                     IN  \E validity \in Validities :
                           LET w == Window(validity, now)
                               kept == Fetched(w)
                           IN  /\ t \in Found(AddressResolver, AddressArgument[list.type], w, active)
                               /\ \E p \in Listed(kept, active, "present", w) :
                                    /\ FilterByValidity(validity, now, p)
                                    /\ d \in p /\ Value(kept, f, p) = Reading(rows, f, d)
  BY DEF AddressListsAgree
<1>. DEFINE f == ListedField[list.type]
            a == AddressArgument[list.type]
<1>1. relation \in Relevant[role] /\ active \subseteq Days
  BY Followed, ActivitiesAreDays
<1>2. /\ AddressResolver \in Asked /\ a \in Searched(AddressResolver)
      /\ AddressResolver.arguments[a] = f
  <2>1. role = "address" /\ list.type \in {"e", "ou"}
    BY DEF AddressDetails, AddressesOfEmployee, AddressesOfUnit, Detail
  <2>2. AddressResolver \in Asked
    BY <2>1 DEF Asked, Resolvers, StoredAs, AddressResolver, Resolver
  <2>3. a \in DOMAIN AddressResolver.arguments /\ AddressResolver.arguments[a] = f
    BY <2>1 DEF AddressArgument, AddressResolver, Resolver, AddressArguments, ListedField
  <2>. QED
    BY <2>2, <2>3 DEF Searched
<1>. HIDE DEF f, a
<1>3. PICK validity \in Validities : Told(d, now, active, validity, f)
  BY <1>1, DaysAreTold
<1>. DEFINE w == Window(validity, now)
<1>4. IsWindow(w)
  BY WindowsAreWindows
<1>. HIDE DEF w
<1>5. PICK e \in active \cap Touched(w) : Said(rows, e) = Said(rows, d)
  BY <1>3 DEF Told, w
<1>6. t \in Reading(rows, f, e)
  <2>1. e \in Days /\ d \in Days
    BY <1>1
  <2>. QED
    BY <1>1, <1>5, <2>1, ReadingIsRead DEF f
<1>7. t \in Found(AddressResolver, a, w, active)
  BY <1>2, <1>4, <1>5, <1>6, FoundIsRead
<1>. QED
  BY <1>3, <1>7 DEF Told, w, f, a

LEMMA CollectionsHold ==
  ASSUME role \in Roles, relation \in Relations(role), WellFormed(rows), Typed(rows)
  PROVE  CollectionsAgree
BY GraphQLListsHold, ServiceListsHold, AddressListsHold DEF CollectionsAgree
-----------------------------------------------------------------------------
\* Fields that a request can clear: null is understood, or there need not be a
\* parent, a person or a level.
Clearable ==
  \E f \in Fields : f \in Update[role].nullable \cup {"parent", "person", "manager_level"}

\* Rows of the fields, and empty ones only where one can be cleared.
Sound(R) == Typed(R) /\ (~Clearable => \A r \in R : r.target # Empty)

\* Rows that differ from others in their days only.
From(T, R) == \A x \in T : \E r \in R : Alike(r, x)

LEMMA FromSound ==
  ASSUME NEW R, Sound(R), NEW T, From(T, R)
  PROVE  Sound(T)
BY DEF Sound, Typed, From, Alike

LEMMA OutsideFrom ==
  ASSUME NEW R, WellFormed(R), NEW from \in Days, NEW to \in Days
  PROVE  From(Outside(R, from, to), R)
<1>. SUFFICES ASSUME NEW x \in Outside(R, from, to) PROVE \E r \in R : Alike(r, x)
  BY DEF From
<1>1. PICK r \in R : \/ x = [r EXCEPT !.to = Least(@, from - 1)]
                     \/ x = [r EXCEPT !.from = Greatest(@, to + 1)]
  BY OutsideParts
<1>2. r \in Row
  BY RowDays
<1>3. x.of = r.of /\ x.target = r.target
  BY <1>1, <1>2 DEF Row
<1>. QED
  BY <1>3 DEF Alike

LEMMA ConsolidatedFrom ==
  ASSUME NEW R, WellFormed(R)
  PROVE  From(Consolidated(R), R)
<1>. SUFFICES ASSUME NEW x \in Consolidated(R) PROVE \E r \in R : Alike(r, x)
  BY DEF From
<1>1. PICK r \in R, s \in R : x = [r EXCEPT !.to = s.to]
  BY Runs
<1>2. r \in Row
  BY RowDays
<1>3. x.of = r.of /\ x.target = r.target
  BY <1>1, <1>2 DEF Row
<1>. QED
  BY <1>3 DEF Alike

LEMMA MovedFields ==
  ASSUME NEW R, WellFormed(R), NEW e, NEW from, NEW to, NEW r \in R
  PROVE  LET m == Moved(r, e, from, to)
         IN  /\ m.of = r.of /\ m.target = r.target
             /\ m.from = IF r = e[1] THEN Least(r.from, from) ELSE r.from
             /\ m.to = IF r = e[2] THEN Greatest(r.to, to) ELSE r.to
<1>1. r \in Row
  BY RowDays
<1>. QED
  BY <1>1 DEF Moved, Row

LEMMA EnsureBoundsFrom ==
  ASSUME NEW R, WellFormed(R), NEW type, NEW e, NEW from, NEW to,
         type \in {"many", "one", "adapted"}
  PROVE  From(EnsureBounds(R, type, e, from, to), R)
<1>1. \A r \in R : Alike(r, r) /\ Alike(r, Moved(r, e, from, to))
  BY MovedFields DEF Alike
<1>. QED
  BY <1>1 DEF EnsureBounds, From

LEMMA PartsFrom ==
  ASSUME NEW R, NEW T \in SUBSET R
  PROVE  From(T, R)
BY DEF From, Alike

LEMMA FromFrom ==
  ASSUME NEW R, NEW S, NEW T, From(S, R), From(T, S)
  PROVE  From(T, R)
BY DEF From, Alike

LEMMA SoundUnion ==
  ASSUME NEW R, Sound(R), NEW T, Sound(T)
  PROVE  Sound(R \cup T)
BY DEF Sound, Typed

LEMMA MergedSound ==
  ASSUME NEW R, WellFormed(R), Sound(R), NEW payload, WellFormed(payload), Sound(payload)
  PROVE  Sound(Merged(R, payload))
<1>1. CASE payload = {} \/ relation \notin NulTilEn
  BY <1>1 DEF Merged
<1>2. CASE payload # {} /\ relation \in NulTilEn
  <2>. DEFINE e == CHOOSE x \in Ends(payload) : TRUE
              first == Outside(R, e[1].from, e[1].to)
              kept == Outside(first, e[2].from, e[2].to)
  <2>1. Merged(R, payload) = payload \cup kept
    BY <1>2 DEF Merged
  <2>2. e[1] \in payload /\ e[2] \in payload
    BY <1>2, EndsExist DEF Ends
  <2>. HIDE DEF e
  <2>3. /\ e[1].from \in Days /\ e[1].to \in Days /\ e[2].from \in Days /\ e[2].to \in Days
    BY <2>2 DEF WellFormed, Row
  <2>4. WellFormed(first) /\ Sound(first)
    BY <2>3, OutsideWellFormed, OutsideFrom, FromSound
  <2>. HIDE DEF first
  <2>5. Sound(kept)
    BY <2>3, <2>4, OutsideFrom, FromSound
  <2>. QED
    BY <2>1, <2>5, SoundUnion
<1>. QED
  BY <1>1, <1>2
-----------------------------------------------------------------------------
\* What is sent as null can be null, and is written as the one field of its relation.
NullsFit(create, edit, update) ==
  \A f \in update.always :
    /\ f \in update.nullable /\ f \in DOMAIN create /\ f \in DOMAIN edit
    /\ edit[f].tuple.type # "many" /\ create[f].relation # "opgaver"
    /\ \A g \in DOMAIN create : create[g].relation = create[f].relation => g = f

\* Bounds are those of the readers, and of what an edit of all the fields replaces;
\* but for the manager's level and responsibilities, which are always written.  Where
\* they are of one objekttype, nothing can be cleared.
BoundsFit(kind, create, edit, bounds, reads, update) ==
  \A f \in DOMAIN create, t \in bounds :
    t.relation = create[f].relation =>
      /\ (\A g \in DOMAIN create : create[g].relation = t.relation => g \in DOMAIN edit)
           => \E g \in DOMAIN edit : edit[g].tuple = t
      /\ <<kind, t.relation>> # <<"manager", "opgaver">> =>
           /\ t.of \in {AnyType, reads[f].of}
           /\ t.type = "one" <=> t.relation \in NulTilEn
           /\ \A u \in bounds : u.relation = t.relation => u = t
           /\ t.of # AnyType =>
                f \notin update.nullable \cup {"parent", "person", "manager_level"}

LEMMA NullsFitCreate == \A kind \in Roles : NullsFit(Create[kind], Edit[kind], Update[kind])
<1>. USE DEF NullsFit, Input, ZeroToOne, ZeroToMany, Adapted, In, InAs, To, ToAs,
     ASSOCIATED_FUNCTION_FIELD, USER_FIELD, EMPLOYEE_PERSON_FIELD, PARENT_CLASS_FIELD
<1>1. NullsFit(EngagementCreate, EngagementEdit, EngagementUpdate)
  BY DEF EngagementCreate, EngagementEdit, EngagementUpdate
<1>2. NullsFit(AssociationCreate, AssociationEdit, AssociationUpdate)
  BY DEF AssociationCreate, AssociationEdit, AssociationUpdate
<1>3. NullsFit(ITAssociationCreate, ITAssociationEdit, ITAssociationUpdate)
  BY DEF ITAssociationCreate, ITAssociationEdit, ITAssociationUpdate
<1>4. NullsFit(ManagerCreate, ManagerEdit, ManagerUpdate)
  BY DEF ManagerCreate, ManagerEdit, ManagerUpdate
<1>5. NullsFit(LeaveCreate, LeaveEdit, LeaveUpdate)
  BY DEF LeaveCreate, LeaveEdit, LeaveUpdate
<1>6. NullsFit(AddressCreate, AddressEdit, AddressUpdate)
  BY DEF AddressCreate, AddressEdit, AddressUpdate
<1>7. NullsFit(ITUserCreate, ITUserEdit, ITUserUpdate)
  BY DEF ITUserCreate, ITUserEdit, ITUserUpdate
<1>8. NullsFit(KLECreate, KLEEdit, KLEUpdate)
  BY DEF KLECreate, KLEEdit, KLEUpdate
<1>9. NullsFit(OwnerCreate, OwnerEdit, OwnerUpdate)
  BY DEF OwnerCreate, OwnerEdit, OwnerUpdate
<1>10. NullsFit(RoleBindingCreate, RoleBindingEdit, RoleBindingUpdate)
  BY DEF RoleBindingCreate, RoleBindingEdit, RoleBindingUpdate
<1>11. NullsFit(OrganisationUnitCreate, OrganisationUnitEdit, OrganisationUnitUpdate)
  BY DEF OrganisationUnitCreate, OrganisationUnitEdit, OrganisationUnitUpdate
<1>12. NullsFit(ClassCreate, ClassEdit, ClassUpdate)
  BY DEF ClassCreate, ClassEdit, ClassUpdate
<1>13. NullsFit(FacetCreate, FacetEdit, FacetUpdate)
  BY DEF FacetCreate, FacetEdit, FacetUpdate
<1>14. NullsFit(ITSystemCreate, ITSystemEdit, ITSystemUpdate)
  BY DEF ITSystemCreate, ITSystemEdit, ITSystemUpdate
<1>15. NullsFit(EmployeeCreate, EmployeeEdit, EmployeeUpdate)
  BY DEF EmployeeCreate, EmployeeEdit, EmployeeUpdate
<1>. HIDE DEF NullsFit
<1>. QED
  BY <1>1, <1>2, <1>3, <1>4, <1>5, <1>6, <1>7, <1>8, <1>9, <1>10, <1>11, <1>12, <1>13, <1>14, <1>15
  DEF Roles, Create, Edit, Update

LEMMA BoundsFitCreate ==
  \A kind \in Roles :
    BoundsFit(kind, Create[kind], Edit[kind], Bounds[kind], Reads[kind], Update[kind])
<1>. USE DEF BoundsFit, Input, NulTilEn, ZeroToOne, ZeroToMany, Adapted, In, InAs, To, ToAs, AnyType,
     JOB_FUNCTION_FIELD, ORG_FUNK_TYPE_FIELD,
     ORG_FUNK_CLASSES_FIELD, ASSOCIATED_ORG_UNIT_FIELD, ASSOCIATED_FUNCTION_FIELD,
     ENGAGEMENT_FIELD, IT_USER_FIELD, USER_FIELD, ADDRESS_TYPE_FIELD, KLE_ASPECT_FIELD,
     RESPONSIBILITY_FIELD, MANAGER_LEVEL_FIELD, VISIBILITY_FIELD, SINGLE_ITSYSTEM_FIELD,
     EMPLOYEE_PERSON_FIELD, PRIMARY_FIELD, ORG_UNIT_TYPE_FIELD, ORG_UNIT_LEVEL_FIELD,
     ORG_UNIT_HIERARCHY_FIELD, ORG_UNIT_TIME_PLANNING_FIELD, PARENT_FIELD,
     PARENT_CLASS_FIELD, GYLDIGHED_FIELD
<1>1. BoundsFit("engagement", EngagementCreate, EngagementEdit, ENGAGEMENT_FIELDS, EngagementReads, EngagementUpdate)
  BY SMTT(30) DEF EngagementCreate, EngagementEdit, EngagementReads, EngagementUpdate, ENGAGEMENT_FIELDS
<1>2. BoundsFit("association", AssociationCreate, AssociationEdit, ASSOCIATION_FIELDS, AssociationReads, AssociationUpdate)
  BY SMTT(30) DEF AssociationCreate, AssociationEdit, AssociationReads, AssociationUpdate, ASSOCIATION_FIELDS
<1>3. BoundsFit("itassociation", ITAssociationCreate, ITAssociationEdit, ASSOCIATION_FIELDS, ITAssociationReads, ITAssociationUpdate)
  BY SMTT(30) DEF ITAssociationCreate, ITAssociationEdit, ITAssociationReads, ITAssociationUpdate, ASSOCIATION_FIELDS
<1>4. BoundsFit("manager", ManagerCreate, ManagerEdit, MANAGER_FIELDS, ManagerReads, ManagerUpdate)
  BY SMTT(30) DEF ManagerCreate, ManagerEdit, ManagerReads, ManagerUpdate, MANAGER_FIELDS
<1>5. BoundsFit("leave", LeaveCreate, LeaveEdit, LEAVE_FIELDS, LeaveReads, LeaveUpdate)
  BY SMTT(30) DEF LeaveCreate, LeaveEdit, LeaveReads, LeaveUpdate, LEAVE_FIELDS
<1>6. BoundsFit("address", AddressCreate, AddressEdit, ADDRESS_FIELDS, AddressReads, AddressUpdate)
  BY SMTT(30) DEF AddressCreate, AddressEdit, AddressReads, AddressUpdate, ADDRESS_FIELDS
<1>7. BoundsFit("ituser", ITUserCreate, ITUserEdit, ITSYSTEM_FIELDS, ITUserReads, ITUserUpdate)
  BY SMTT(30) DEF ITUserCreate, ITUserEdit, ITUserReads, ITUserUpdate, ITSYSTEM_FIELDS
<1>8. BoundsFit("kle", KLECreate, KLEEdit, KLE_FIELDS, KLEReads, KLEUpdate)
  BY SMTT(30) DEF KLECreate, KLEEdit, KLEReads, KLEUpdate, KLE_FIELDS
<1>9. BoundsFit("owner", OwnerCreate, OwnerEdit, OWNER_FIELDS, OwnerReads, OwnerUpdate)
  BY SMTT(30) DEF OwnerCreate, OwnerEdit, OwnerReads, OwnerUpdate, OWNER_FIELDS
<1>10. BoundsFit("rolebinding", RoleBindingCreate, RoleBindingEdit, ROLE_FIELDS, RoleBindingReads, RoleBindingUpdate)
  BY SMTT(30) DEF RoleBindingCreate, RoleBindingEdit, RoleBindingReads, RoleBindingUpdate, ROLE_FIELDS
<1>11. BoundsFit("org_unit", OrganisationUnitCreate, OrganisationUnitEdit, ORG_UNIT_FIELDS, OrganisationUnitReads, OrganisationUnitUpdate)
  BY SMTT(30) DEF OrganisationUnitCreate, OrganisationUnitEdit, OrganisationUnitReads, OrganisationUnitUpdate, ORG_UNIT_FIELDS
<1>12. BoundsFit("class", ClassCreate, ClassEdit, {}, ClassReads, ClassUpdate)
  BY SMTT(30) DEF ClassCreate, ClassEdit, ClassReads, ClassUpdate
<1>13. BoundsFit("facet", FacetCreate, FacetEdit, {}, FacetReads, FacetUpdate)
  BY SMTT(30) DEF FacetCreate, FacetEdit, FacetReads, FacetUpdate
<1>14. BoundsFit("itsystem", ITSystemCreate, ITSystemEdit, {}, ITSystemReads, ITSystemUpdate)
  BY SMTT(30) DEF ITSystemCreate, ITSystemEdit, ITSystemReads, ITSystemUpdate
<1>15. BoundsFit("employee", EmployeeCreate, EmployeeEdit, {}, EmployeeReads, EmployeeUpdate)
  BY SMTT(30) DEF EmployeeCreate, EmployeeEdit, EmployeeReads, EmployeeUpdate
<1>. HIDE DEF BoundsFit
<1>. QED
  BY <1>1, <1>2, <1>3, <1>4, <1>5, <1>6, <1>7, <1>8, <1>9, <1>10, <1>11, <1>12, <1>13, <1>14, <1>15
  DEF Roles, Create, Edit, Bounds, Reads, Update
-----------------------------------------------------------------------------
\* How a request was prepared, an edit from the rows that it read.
Creation(q) ==
  /\ q.kind = "create" /\ q.wish \in Wish /\ DOMAIN q.wish = Fields
  /\ Allowed(q.wish, Fields \ Needs[role])
  /\ q.payload = CreateRows(q.wish, q.from, q.to)
Edition(q, R) ==
  /\ q.kind = "update" /\ q.wish \in Wish /\ Allowed(q.wish, Update[role].nullable)
  /\ Update[role].required \cap Fields \subseteq DOMAIN q.wish
  /\ \E done \in Completed(Consolidated(R), q.wish) :
     \E e \in Ends(UNION {Of(Consolidated(R), t) : t \in Unwritten(done)}) :
       q.payload = Payload(Consolidated(R), done, e, q.from, q.to)
Termination(q) ==
  /\ q.kind = "terminate" /\ relation = "gyldighed" /\ q.wish = [state |-> {"Inaktiv"}]
  /\ q.payload = {NewRow(q.from, q.to, Plain, "Inaktiv")}
Vacation(q, R) ==
  /\ q.kind = "vacate" /\ role \in {"manager", "association"}
  /\ relation = "tilknyttedebrugere" /\ q.wish = [person |-> {}] /\ q.to = Horizon
  /\ q.payload = {NewRow(q.from, Horizon, Plain, Empty)}
                   \cup Outside(On(Consolidated(R), q.from), q.from, Horizon)

\* The rows that were read are those of the object until another request is stored.
Made(q) ==
  /\ DOMAIN q = {"kind", "wish", "from", "to", "payload", "fresh"}
  /\ q.from \in Days /\ q.to \in Days /\ q.from =< q.to
  /\ \E R : /\ WellFormed(R) /\ Sound(R) /\ (q.fresh => R = rows)
            /\ Creation(q) \/ Edition(q, R) \/ Termination(q) \/ Vacation(q, R)

MInv ==
  /\ Sound(rows)
  /\ \A c \in Clients : pending[c] # NoRequest =>
       /\ Made(pending[c])
       /\ pending[c].kind = "create" =>
            rows = {} /\ \A x \in Clients \ {c} : pending[x] = NoRequest

\* Requests are prepared for a kind of object and a relation, which stay.
LEMMA WritingStays ==
  ASSUME UNCHANGED <<role, relation>>
  PROVE  /\ \A w : Edited(w)' = Edited(w)
         /\ \A w : Written(w)' = Written(w) /\ Unwritten(w)' = Unwritten(w)
         /\ \A f, targets, from, to : NewRows(f, targets, from, to)' = NewRows(f, targets, from, to)
<1>1. \A w : Sent(w)' = Sent(w)
  BY DEF Sent, Fields
<1>2. \A w : Edited(w)' = Edited(w)
  BY <1>1 DEF Edited
<1>3. \A w : Written(w)' = Written(w) /\ Unwritten(w)' = Unwritten(w)
  BY DEF Written, Unwritten
<1>4. \A f, targets, from, to : NewRows(f, targets, from, to)' = NewRows(f, targets, from, to)
  BY DEF NewRows
<1>. QED
  BY <1>2, <1>3, <1>4

LEMMA PayloadStays ==
  ASSUME UNCHANGED <<role, relation>>
  PROVE  /\ \A R, w, e, from, to : Payload(R, w, e, from, to)' = Payload(R, w, e, from, to)
         /\ \A R, w : Completed(R, w)' = Completed(R, w)
         /\ \A w, from, to : CreateRows(w, from, to)' = CreateRows(w, from, to)
<1>1. \A R, w, e, from, to : Payload(R, w, e, from, to)' = Payload(R, w, e, from, to)
  <2>. TAKE R, w, e, from, to
  <2>. DEFINE New(t) ==
         UNION {NewRows(f, w[f], from, to) : f \in {g \in DOMAIN w : Edit[role][g].tuple = t}}
       Part(t) == IF t.type = "adapted" THEN New(t) \cup Outside(Of(R, t), from, to) ELSE New(t)
  <2>1. \A t : New(t)' = New(t)
    BY WritingStays
  <2>. HIDE DEF New
  <2>2. \A t : Part(t)' = Part(t)
    BY <2>1
  <2>. HIDE DEF Part
  <2>3. Payload(R, w, e, from, to) =
          (UNION {Part(t) : t \in Written(w)})
            \cup (UNION {EnsureBounds(Of(R, t), t.type, e, from, to) : t \in Unwritten(w)})
    BY DEF Payload, Part, New
  <2>4. Payload(R, w, e, from, to)' =
          (UNION {Part(t)' : t \in Written(w)'})
            \cup (UNION {EnsureBounds(Of(R, t), t.type, e, from, to) : t \in Unwritten(w)'})
    BY DEF Payload, Part, New
  <2>. QED
    BY <2>2, <2>3, <2>4, WritingStays
<1>2. \A R, w : Completed(R, w)' = Completed(R, w)
  <2>1. ManagerTasks' <=> ManagerTasks
    BY DEF ManagerTasks
  <2>. QED
    BY <2>1, WritingStays DEF Completed
<1>3. \A w, from, to : CreateRows(w, from, to)' = CreateRows(w, from, to)
  BY DEF CreateRows
<1>. QED
  BY <1>1, <1>2, <1>3

LEMMA SoundStays ==
  ASSUME UNCHANGED <<role, relation>>
  PROVE  \A R : Sound(R)' <=> Sound(R)
<1>1. Fields' = Fields
  BY DEF Fields
<1>2. Clearable' <=> Clearable
  BY <1>1 DEF Clearable
<1>. QED
  BY <1>1, <1>2 DEF Sound, Typed

LEMMA MadeStays ==
  ASSUME UNCHANGED <<role, relation>>, NEW q, Made(q), NEW p, p \in {q, [q EXCEPT !.fresh = FALSE]},
         p.fresh => rows' = rows
  PROVE  Made(p)'
<1>1. PICK R : /\ WellFormed(R) /\ Sound(R) /\ (q.fresh => R = rows)
               /\ Creation(q) \/ Edition(q, R) \/ Termination(q) \/ Vacation(q, R)
  BY DEF Made
<1>2. /\ p.kind = q.kind /\ p.wish = q.wish /\ p.from = q.from /\ p.to = q.to
      /\ p.payload = q.payload /\ (p.fresh => q.fresh) /\ DOMAIN p = DOMAIN q
  BY DEF Made
<1>3. Fields' = Fields /\ Wish' = Wish /\ \A w, n : Allowed(w, n)' <=> Allowed(w, n)
  BY DEF Fields, Wish, Allowed
<1>4. ASSUME Creation(q) PROVE Creation(p)'
  BY <1>2, <1>3, <1>4, PayloadStays DEF Creation
<1>5. ASSUME Edition(q, R) PROVE Edition(p, R)'
  <2>1. PICK done \in Completed(Consolidated(R), q.wish) :
          \E e \in Ends(UNION {Of(Consolidated(R), t) : t \in Unwritten(done)}) :
            q.payload = Payload(Consolidated(R), done, e, q.from, q.to)
    BY <1>5 DEF Edition
  <2>2. PICK e \in Ends(UNION {Of(Consolidated(R), t) : t \in Unwritten(done)}) :
          q.payload = Payload(Consolidated(R), done, e, q.from, q.to)
    BY <2>1
  <2>3. done \in Completed(Consolidated(R), p.wish)'
    BY <1>2, PayloadStays
  <2>4. e \in Ends(UNION {Of(Consolidated(R), t) : t \in Unwritten(done)})'
    BY WritingStays
  <2>5. p.payload = Payload(Consolidated(R), done, e, p.from, p.to)'
    BY <1>2, <2>2, PayloadStays
  <2>6. /\ p.kind = "update" /\ p.wish \in Wish' /\ Allowed(p.wish, Update[role].nullable)'
        /\ (Update[role].required \cap Fields)' \subseteq DOMAIN p.wish
    BY <1>2, <1>3, <1>5 DEF Edition
  <2>. QED
    BY <2>3, <2>4, <2>5, <2>6 DEF Edition
<1>6. ASSUME Termination(q) PROVE Termination(p)'
  BY <1>2, <1>6 DEF Termination
<1>7. ASSUME Vacation(q, R) PROVE Vacation(p, R)'
  BY <1>2, <1>7 DEF Vacation
<1>8. WellFormed(R)' /\ Sound(R)' /\ (p.fresh => R = rows')
  BY <1>1, <1>2, SoundStays DEF WellFormed
<1>9. /\ p.from \in Days /\ p.to \in Days /\ p.from =< p.to
      /\ DOMAIN p = {"kind", "wish", "from", "to", "payload", "fresh"}
  BY <1>2 DEF Made
<1>. QED
  BY <1>1, <1>4, <1>5, <1>6, <1>7, <1>8, <1>9 DEF Made

\* What is read and written for a field that is sent.
LEMMA NewRowsSound ==
  ASSUME role \in Roles, NEW f \in Fields, f \in DOMAIN Edit[role], NEW targets, NEW from, NEW to,
         targets = {} => Clearable, Empty \notin targets
  PROVE  Sound(NewRows(f, targets, from, to))
<1>1. Edit[role][f].of = Create[role][f].of
  BY EditsFitCreate DEF EditFits
<1>2. CASE targets = {}
  BY <1>2 DEF NewRows, NewRow, Sound, Typed
<1>3. CASE targets # {}
  <2>1. \A x \in NewRows(f, targets, from, to) : x.of = Create[role][f].of /\ x.target \in targets
    BY <1>1, <1>3 DEF NewRows, NewRow
  <2>. QED
    BY <2>1 DEF Sound, Typed
<1>. QED
  BY <1>2, <1>3

\* A field that is written is one of the relation, and is cleared only where it can be.
LEMMA CompletedFields ==
  ASSUME role \in Roles, NEW R, WellFormed(R), NEW w \in Wish, Allowed(w, Update[role].nullable),
         NEW done \in Completed(R, w)
  PROVE  /\ DOMAIN done \subseteq Fields
         /\ \A f \in DOMAIN done : done[f] = {} => Clearable
<1>1. DOMAIN w \subseteq Fields
  BY WishesAreReferences
<1>2. CASE ~ManagerTasks
  <2>1. done = Edited(w)
    BY <1>2 DEF Completed
  <2>2. DOMAIN done \subseteq DOMAIN Sent(w) /\ \A f \in DOMAIN done : done[f] = Sent(w)[f]
    BY <2>1 DEF Edited
  <2>3. DOMAIN Sent(w) \subseteq Fields
    BY <1>1 DEF Sent
  <2>4. ASSUME NEW f \in DOMAIN Sent(w), Sent(w)[f] = {} PROVE f \in Update[role].nullable
    <3>1. CASE f \in DOMAIN w
      BY <2>4, <3>1 DEF Sent, Allowed
    <3>2. CASE f \notin DOMAIN w
      BY <2>4, <3>2, NullsFitCreate DEF Sent, NullsFit
    <3>. QED
      BY <3>1, <3>2
  <2>. QED
    BY <2>2, <2>3, <2>4 DEF Clearable
<1>3. CASE ManagerTasks
  <2>1. {"manager_level", "responsibility"} \subseteq Fields
    BY <1>3 DEF ManagerTasks, Fields, Create, ManagerCreate, InAs
  <2>. DEFINE Domain(t) == {"manager_level"} \cup (IF t = {} THEN {} ELSE {"responsibility"})
              kept == IF "responsibility" \in DOMAIN w THEN w["responsibility"]
                      ELSE TargetsOf(R, RESPONSIBILITY_FIELD)
  <2>2. DOMAIN done \subseteq {"manager_level", "responsibility"}
    <3>1. \E level : done = [f \in Domain(kept) |-> IF f = "manager_level" THEN level ELSE kept]
      BY <1>3, Zenon DEF Completed
    <3>. QED
      BY <3>1
  <2>. QED
    BY <2>1, <2>2 DEF Clearable
<1>. QED
  BY <1>2, <1>3

LEMMA PayloadSound ==
  ASSUME role \in Roles, NEW R, WellFormed(R), Sound(R), NEW w, Writes(w), DOMAIN w \subseteq Fields,
         \A f \in DOMAIN w : w[f] = {} => Clearable,
         NEW e, NEW from \in Days, NEW to \in Days
  PROVE  Sound(Payload(R, w, e, from, to))
<1>. DEFINE New(t) ==
       UNION {NewRows(f, w[f], from, to) : f \in {g \in DOMAIN w : Edit[role][g].tuple = t}}
     Part(t) == IF t.type = "adapted" THEN New(t) \cup Outside(Of(R, t), from, to) ELSE New(t)
     Rest(t) == EnsureBounds(Of(R, t), t.type, e, from, to)
<1>1. ASSUME NEW t PROVE WellFormed(Of(R, t)) /\ Sound(Of(R, t))
  BY Parts, PartsFrom, FromSound DEF Of
<1>2. ASSUME NEW t PROVE Sound(New(t))
  <2>1. \A f \in DOMAIN w : Sound(NewRows(f, w[f], from, to))
    BY NewRowsSound, DetailAssumption DEF Writes, Values
  <2>. QED
    BY <2>1 DEF Sound, Typed
<1>3. ASSUME NEW t PROVE Sound(Part(t))
  <2>. HIDE DEF New
  <2>1. Sound(Outside(Of(R, t), from, to))
    BY <1>1, OutsideFrom, FromSound
  <2>. QED
    BY <1>2, <2>1, SoundUnion
<1>4. ASSUME NEW t \in Unwritten(w) PROVE Sound(Rest(t))
  <2>1. t.type \in {"many", "one", "adapted"}
    BY TupleTypes DEF Unwritten
  <2>2. From(Rest(t), Of(R, t))
    BY <1>1, <2>1, EnsureBoundsFrom
  <2>. QED
    BY <1>1, <2>2, FromSound
<1>5. Payload(R, w, e, from, to) =
        (UNION {Part(t) : t \in Written(w)}) \cup (UNION {Rest(t) : t \in Unwritten(w)})
  BY DEF Payload
<1>. HIDE DEF New, Part, Rest
<1>6. /\ Sound(UNION {Part(t) : t \in Written(w)})
      /\ Sound(UNION {Rest(t) : t \in Unwritten(w)})
  BY <1>3, <1>4 DEF Sound, Typed
<1>. QED
  BY <1>5, <1>6, SoundUnion

\* The state is written without an objekttype.
LEMMA StateIsPlain == \A kind \in Roles : Create[kind]["state"].of = Plain
<1>. USE DEF In
<1>1. /\ EngagementCreate["state"].of = Plain /\ AssociationCreate["state"].of = Plain
      /\ ITAssociationCreate["state"].of = Plain /\ ManagerCreate["state"].of = Plain
      /\ LeaveCreate["state"].of = Plain /\ AddressCreate["state"].of = Plain
      /\ ITUserCreate["state"].of = Plain /\ KLECreate["state"].of = Plain
  BY DEF EngagementCreate, AssociationCreate, ITAssociationCreate, ManagerCreate, LeaveCreate,
     AddressCreate, ITUserCreate, KLECreate
<1>2. /\ OwnerCreate["state"].of = Plain /\ RoleBindingCreate["state"].of = Plain
      /\ OrganisationUnitCreate["state"].of = Plain /\ ClassCreate["state"].of = Plain
      /\ FacetCreate["state"].of = Plain /\ ITSystemCreate["state"].of = Plain
      /\ EmployeeCreate["state"].of = Plain
  BY DEF OwnerCreate, RoleBindingCreate, OrganisationUnitCreate, ClassCreate, FacetCreate,
     ITSystemCreate, EmployeeCreate
<1>. QED
  BY <1>1, <1>2 DEF Roles, Create

LEMMA MadeSound ==
  ASSUME role \in Roles, NEW q, Made(q)
  PROVE  Sound(q.payload)
<1>1. PICK R : /\ WellFormed(R) /\ Sound(R)
               /\ Creation(q) \/ Edition(q, R) \/ Termination(q) \/ Vacation(q, R)
  BY DEF Made
<1>2. q.from \in Days /\ q.to \in Days /\ q.from =< q.to
  BY DEF Made
<1>3. CASE Creation(q)
  <2>1. \A f \in DOMAIN q.wish : f \in Fields /\ Empty \notin q.wish[f]
    BY <1>3, WishesAreReferences, DetailAssumption DEF Creation, Values
  <2>2. ASSUME NEW x \in CreateRows(q.wish, q.from, q.to)
        PROVE  \E f \in Fields : /\ x.of = Create[role][f].of
                                 /\ x.target = Empty => f = "parent"
    BY <2>1 DEF CreateRows, NewRow
  <2>. QED
    BY <1>3, <2>2 DEF Creation, Sound, Typed, Clearable
<1>4. CASE Edition(q, R)
  <2>. DEFINE K == Consolidated(R)
  <2>1. PICK done \in Completed(K, q.wish) :
          \E e : q.payload = Payload(K, done, e, q.from, q.to)
    BY <1>4 DEF Edition
  <2>2. WellFormed(K) /\ Sound(K)
    BY <1>1, ConsolidatedWellFormed, ConsolidatedFrom, FromSound
  <2>. HIDE DEF K
  <2>3. Writes(done) /\ DOMAIN done \subseteq Fields /\ \A f \in DOMAIN done : done[f] = {} => Clearable
    BY <1>4, <2>1, <2>2, CompletedWrites, CompletedFields DEF Edition
  <2>. QED
    BY <1>2, <2>1, <2>2, <2>3, PayloadSound
<1>5. CASE Termination(q)
  <2>1. "state" \in Fields /\ Create[role]["state"].of = Plain
    BY <1>5, StateIsAField, StateIsPlain DEF Termination, Fields
  <2>2. "Inaktiv" # Empty
    BY DetailAssumption DEF Gyldighed
  <2>. QED
    BY <1>5, <2>1, <2>2 DEF Termination, Sound, Typed, NewRow
<1>6. CASE Vacation(q, R)
  <2>. DEFINE held == On(Consolidated(R), q.from)
              left == Outside(held, q.from, Horizon)
  <2>1. WellFormed(held) /\ Sound(held)
    <3>1. WellFormed(Consolidated(R)) /\ Sound(Consolidated(R))
      BY <1>1, ConsolidatedWellFormed, ConsolidatedFrom, FromSound
    <3>. QED
      BY <3>1, Parts, PartsFrom, FromSound DEF On
  <2>. HIDE DEF held
  <2>2. Sound(left)
    BY <1>2, <1>6, <2>1, OutsideFrom, FromSound DEF Vacation
  <2>3. Clearable
    BY <1>6, StateIsAField DEF Vacation, Clearable, Fields
  <2>4. Sound({NewRow(q.from, Horizon, Plain, Empty)})
    BY <2>3 DEF Sound, Typed, NewRow
  <2>. HIDE DEF left
  <2>. QED
    BY <1>6, <2>2, <2>4, SoundUnion DEF Vacation, held, left
<1>. QED
  BY <1>1, <1>3, <1>4, <1>5, <1>6

\* As it was prepared, a request is made from the rows that it read.
LEMMA RequestMade ==
  ASSUME IInv, Sound(rows), NEW kind, NEW w, NEW from \in Days, NEW to \in Days, from =< to,
         NEW payload, NEW q, q = Request(kind, w, from, to, payload),
         Creation(q) \/ Edition(q, rows) \/ Termination(q) \/ Vacation(q, rows)
  PROVE  Made(q)
<1>1. /\ DOMAIN q = {"kind", "wish", "from", "to", "payload", "fresh"}
      /\ q.from = from /\ q.to = to
  BY DEF Request
<1>. QED
  BY <1>1 DEF Made, IInv

LEMMA InitMade == Init => MInv
<1>. SUFFICES ASSUME Init PROVE MInv
  OBVIOUS
<1>. DEFINE Preparing(c) ==
       \E from \in Days : \E to \in from .. Horizon, w \in Wish :
         /\ DOMAIN w = Fields /\ Allowed(w, Fields \ Needs[role])
         /\ pending = [x \in Clients |->
              IF x = c THEN Request("create", w, from, to, CreateRows(w, from, to))
              ELSE NoRequest]
<1>1. PICK c \in Clients : role \in Roles /\ rows = {} /\ Preparing(c)
  BY DEF Init
<1>2. PICK from \in Days : \E to \in from .. Horizon, w \in Wish :
        /\ DOMAIN w = Fields /\ Allowed(w, Fields \ Needs[role])
        /\ pending = [x \in Clients |->
             IF x = c THEN Request("create", w, from, to, CreateRows(w, from, to))
             ELSE NoRequest]
  BY <1>1
<1>3. PICK to \in from .. Horizon, w \in Wish :
        /\ DOMAIN w = Fields /\ Allowed(w, Fields \ Needs[role])
        /\ pending = [x \in Clients |->
             IF x = c THEN Request("create", w, from, to, CreateRows(w, from, to))
             ELSE NoRequest]
  BY <1>2
<1>. DEFINE q == Request("create", w, from, to, CreateRows(w, from, to))
<1>4. to \in Days /\ from =< to
  BY <1>3, DaysAreNumbers DEF Days
<1>5. Sound(rows)
  BY <1>1 DEF Sound, Typed
<1>6. /\ q.kind = "create" /\ q.wish = w /\ q.from = from /\ q.to = to
      /\ q.payload = CreateRows(w, from, to)
  BY DEF Request
<1>7. Creation(q)
  <2>. HIDE DEF q
  <2>. QED
    BY <1>3, <1>6 DEF Creation
<1>8. Made(q)
  BY <1>4, <1>5, <1>7, InitIInv, RequestMade
<1>9. \A x \in Clients : pending[x] = IF x = c THEN q ELSE NoRequest
  BY <1>3
<1>. HIDE DEF q
<1>. QED
  BY <1>1, <1>5, <1>8, <1>9 DEF MInv

\* Another request is prepared.
LEMMA PreparedMade ==
  ASSUME IInv, MInv, UNCHANGED <<role, relation, rows>>, NEW c \in Clients, MayPrepare(c), NEW q,
         pending' = [pending EXCEPT ![c] = q], Made(q), q.kind # "create"
  PROVE  MInv'
<1>1. \A x \in Clients : pending'[x] = IF x = c THEN q ELSE pending[x]
  BY DEF IInv
<1>2. Sound(rows)'
  BY SoundStays DEF MInv
<1>3. ASSUME NEW x \in Clients, NEW p, p = pending'[x], p # NoRequest
      PROVE  Made(p)' /\ p.kind # "create"
  <2>1. CASE x = c
    BY <1>1, <1>3, <2>1, MadeStays
  <2>2. CASE x # c
    <3>1. p = pending[x] /\ Made(p)
      BY <1>1, <1>3, <2>2 DEF MInv
    <3>2. p.kind # "create"
      BY <1>3, <3>1 DEF MayPrepare
    <3>. QED
      BY <3>1, <3>2, MadeStays
  <2>. QED
    BY <2>1, <2>2
<1>. QED
  BY <1>2, <1>3 DEF MInv

\* Something is stored; what the others have prepared is stale.
LEMMA StoredMade ==
  ASSUME IInv, MInv, UNCHANGED <<role, relation>>, NEW c \in Clients, pending' = Stale(c),
         Sound(rows'), \A x \in Clients \ {c} : pending[x] # NoRequest => pending[x].kind # "create"
  PROVE  MInv'
<1>1. Sound(rows)'
  BY SoundStays DEF Sound, Typed, Clearable
<1>2. ASSUME NEW x \in Clients, NEW p, p = pending'[x], p # NoRequest
      PROVE  Made(p)' /\ p.kind # "create"
  <2>1. PICK q : q = pending[x]
    OBVIOUS
  <2>2. x # c /\ q # NoRequest /\ p = [q EXCEPT !.fresh = FALSE]
    BY <1>2, <2>1 DEF Stale
  <2>3. Made(q)
    BY <2>1, <2>2 DEF MInv
  <2>4. p.kind = q.kind /\ ~p.fresh
    BY <2>2, <2>3 DEF Made
  <2>5. Made(p)'
    BY <2>2, <2>3, <2>4, MadeStays
  <2>. QED
    BY <2>1, <2>2, <2>4, <2>5
<1>. QED
  BY <1>1, <1>2 DEF MInv

LEMMA StepMade == IInv /\ MInv /\ [Next]_vars => MInv'
<1>. SUFFICES ASSUME IInv, MInv, [Next]_vars PROVE MInv'
  OBVIOUS
<1>0. role \in Roles /\ WellFormed(rows) /\ Sound(rows)
  BY DEF IInv, MInv
<1>1. CASE UNCHANGED vars
  <2>1. Sound(rows)'
    BY <1>0, <1>1, SoundStays DEF vars
  <2>2. ASSUME NEW x \in Clients, NEW p, p = pending'[x], p # NoRequest
        PROVE  /\ Made(p)'
               /\ p.kind = "create" => rows' = {} /\ \A y \in Clients \ {x} : pending'[y] = NoRequest
    <3>1. /\ Made(p)
          /\ p.kind = "create" => rows = {} /\ \A y \in Clients \ {x} : pending[y] = NoRequest
      BY <1>1, <2>2 DEF MInv, vars
    <3>. QED
      BY <1>1, <3>1, MadeStays DEF vars
  <2>. QED
    BY <2>1, <2>2 DEF MInv
<1>2. ASSUME NEW c \in Clients, Prepare(c) PROVE MInv'
  <2>1. PICK read \in {Consolidated(rows)}, w \in Wish :
          /\ Update[role].required \cap Fields \subseteq DOMAIN w
          /\ Allowed(w, Update[role].nullable)
          /\ \E done \in Completed(read, w) :
             \E e \in Ends(UNION {Of(read, t) : t \in Unwritten(done)}) :
             \E from \in Days : \E to \in from .. Horizon :
               pending' = [pending EXCEPT ![c] =
                 Request("update", w, from, to, Payload(read, done, e, from, to))]
    BY <1>2, Zenon DEF Prepare
  <2>2. PICK done \in Completed(read, w) :
          \E e \in Ends(UNION {Of(read, t) : t \in Unwritten(done)}) :
          \E from \in Days : \E to \in from .. Horizon :
            pending' = [pending EXCEPT ![c] =
              Request("update", w, from, to, Payload(read, done, e, from, to))]
    BY <2>1, Zenon
  <2>3. PICK e \in Ends(UNION {Of(read, t) : t \in Unwritten(done)}), from \in Days :
          \E to \in from .. Horizon :
            pending' = [pending EXCEPT ![c] =
              Request("update", w, from, to, Payload(read, done, e, from, to))]
    BY <2>2, Zenon
  <2>4. PICK to \in from .. Horizon :
          pending' = [pending EXCEPT ![c] =
            Request("update", w, from, to, Payload(read, done, e, from, to))]
    BY <2>3, Zenon
  <2>5. to \in Days /\ from =< to
    BY <2>4, DaysAreNumbers DEF Days
  <2>. DEFINE payload == Payload(read, done, e, from, to)
              q == Request("update", w, from, to, payload)
  <2>6. /\ q.kind = "update" /\ q.wish = w /\ q.from = from /\ q.to = to /\ q.payload = payload
    BY DEF Request
  <2>7. pending' = [pending EXCEPT ![c] = q] /\ read = Consolidated(rows)
    BY <2>4
  <2>8. UNCHANGED <<role, relation, rows>> /\ MayPrepare(c)
    BY <1>2 DEF Prepare
  <2>9. Edition(q, rows)
    <3>. HIDE DEF q
    <3>1. q.payload = Payload(read, done, e, q.from, q.to)
      BY <2>6
    <3>. HIDE DEF payload
    <3>2. /\ done \in Completed(Consolidated(rows), q.wish)
          /\ e \in Ends(UNION {Of(Consolidated(rows), t) : t \in Unwritten(done)})
          /\ q.payload = Payload(Consolidated(rows), done, e, q.from, q.to)
      BY <2>6, <2>7, <3>1
    <3>. QED
      BY <2>1, <2>6, <3>2, Zenon DEF Edition
  <2>10. Made(q)
    BY <1>0, <2>5, <2>9, RequestMade
  <2>. HIDE DEF payload, q
  <2>. QED
    BY <2>6, <2>7, <2>8, <2>10, PreparedMade
<1>3. ASSUME NEW c \in Clients, Terminate(c) PROVE MInv'
  <2>1. PICK from \in Days : \E to \in from .. Horizon :
          pending' = [pending EXCEPT ![c] =
            Request("terminate", [state |-> {"Inaktiv"}], from, to,
                    {NewRow(from, to, Plain, "Inaktiv")})]
    BY <1>3 DEF Terminate
  <2>2. PICK to \in from .. Horizon :
          pending' = [pending EXCEPT ![c] =
            Request("terminate", [state |-> {"Inaktiv"}], from, to,
                    {NewRow(from, to, Plain, "Inaktiv")})]
    BY <2>1
  <2>. DEFINE payload == {NewRow(from, to, Plain, "Inaktiv")}
              q == Request("terminate", [state |-> {"Inaktiv"}], from, to, payload)
  <2>3. to \in Days /\ from =< to
    BY <2>2, DaysAreNumbers DEF Days
  <2>4. /\ relation = "gyldighed" /\ UNCHANGED <<role, relation, rows>> /\ MayPrepare(c)
        /\ pending' = [pending EXCEPT ![c] = q]
    BY <1>3, <2>2 DEF Terminate
  <2>5. q.kind = "terminate" /\ Termination(q)
    BY <2>4 DEF Termination, Request
  <2>6. Made(q)
    BY <1>0, <2>3, <2>5, RequestMade
  <2>. HIDE DEF payload, q
  <2>. QED
    BY <2>4, <2>5, <2>6, PreparedMade
<1>4. ASSUME NEW c \in Clients, Vacate(c) PROVE MInv'
  <2>1. PICK from \in Days :
          pending' = [pending EXCEPT ![c] =
            Request("vacate", [person |-> {}], from, Horizon,
                    {NewRow(from, Horizon, Plain, Empty)}
                      \cup Outside(On(Consolidated(rows), from), from, Horizon))]
    BY <1>4 DEF Vacate
  <2>. DEFINE payload == {NewRow(from, Horizon, Plain, Empty)}
                           \cup Outside(On(Consolidated(rows), from), from, Horizon)
              q == Request("vacate", [person |-> {}], from, Horizon, payload)
  <2>2. Horizon \in Days /\ from =< Horizon
    BY DaysAreNumbers DEF Days
  <2>3. /\ relation = "tilknyttedebrugere" /\ role \in {"manager", "association"}
        /\ UNCHANGED <<role, relation, rows>> /\ MayPrepare(c)
        /\ pending' = [pending EXCEPT ![c] = q]
    BY <1>4, <2>1 DEF Vacate
  <2>4. q.kind = "vacate" /\ q.wish = [person |-> {}] /\ q.from = from /\ q.to = Horizon
        /\ q.payload = payload
    BY DEF Request
  <2>5. Vacation(q, rows)
    <3>. HIDE DEF q
    <3>. QED
      BY <2>3, <2>4 DEF Vacation
  <2>6. Made(q)
    BY <1>0, <2>2, <2>5, RequestMade
  <2>. HIDE DEF payload, q
  <2>. QED
    BY <2>3, <2>4, <2>6, PreparedMade
<1>5. ASSUME NEW c \in Clients, Store(c) PROVE MInv'
  <2>1. /\ pending[c] # NoRequest /\ rows' = Merged(rows, pending[c].payload)
        /\ pending' = Stale(c) /\ UNCHANGED <<role, relation>>
    BY <1>5 DEF Store
  <2>2. Made(pending[c]) /\ WellFormed(pending[c].payload)
    BY <2>1 DEF MInv, IInv, PendingOK
  <2>3. Sound(Merged(rows, pending[c].payload))
    BY <1>0, <2>2, MadeSound, MergedSound
  <2>4. \A x \in Clients \ {c} : pending[x] # NoRequest => pending[x].kind # "create"
    BY <2>1 DEF MInv
  <2>. QED
    BY <2>1, <2>3, <2>4, StoredMade
<1>6. ASSUME NEW c \in Clients, Delete(c) PROVE MInv'
  <2>1. rows' = {} /\ pending' = Stale(c) /\ UNCHANGED <<role, relation>> /\ MayPrepare(c)
    BY <1>6 DEF Delete
  <2>2. Sound({})
    BY DEF Sound, Typed
  <2>3. \A x \in Clients \ {c} : pending[x] # NoRequest => pending[x].kind # "create"
    BY <2>1 DEF MayPrepare
  <2>. QED
    BY <2>1, <2>2, <2>3, StoredMade
<1>. QED
  BY <1>1, <1>2, <1>3, <1>4, <1>5, <1>6 DEF Next

\* Whatever requests were stored, in which order, and on whatever days the object is
\* active: a query for a period returns each of these days as a query for all time
\* does, and the arguments of the filters find an object by all the references that it
\* is returned with, and by no others unless it is active on some days of the period
\* and not on others (get_objects_direct, _trim_virkninger and get_effects;
\* _get_gyldighed_clause and the predicates of mora/graphapi/resolvers.py).
THEOREM FiltersAlwaysAgree == Spec => []FiltersAgree
<1>1. IInv /\ MInv => FiltersAgree
  BY FiltersHold DEF IInv, MInv, Sound
<1>. QED
  BY <1>1, InitIInv, StepIInv, InitMade, StepMade, PTL DEF Spec

\* And the lists of persons, units and other objects, in GraphQL and in the service
\* API, agree with what the listed objects, while they are active, say of
\* themselves (mora/graphapi/collections, mora/service/detail_reading.py and address.py).
THEOREM CollectionsAlwaysAgree == Spec => []CollectionsAgree
<1>1. IInv /\ MInv => CollectionsAgree
  BY CollectionsHold DEF IInv, MInv, Sound
<1>. QED
  BY <1>1, InitIInv, StepIInv, InitMade, StepMade, PTL DEF Spec
-----------------------------------------------------------------------------
LEMMA ReadingHas ==
  ASSUME relation \in Relevant[role], NEW R, WellFormed(R), NEW d \in Days, NEW f, NEW x
  PROVE  x \in Reading(R, f, d) <=>
           x # Empty /\ \E r \in On(R, d) : Reads[role][f].of \in {AnyType, r.of} /\ r.target = x
BY EffectIsOn DEF Reading, Of

LEMMA SaidUnion ==
  ASSUME NEW R, NEW T, NEW d
  PROVE  Said(R \cup T, d) = Said(R, d) \cup Said(T, d)
BY DEF Said, On

\* What lies outside of a period says nothing on its days and the same on others.
LEMMA OutsideSays ==
  ASSUME NEW R, WellFormed(R), NEW from \in Days, NEW to \in Days, from =< to, NEW d \in Days
  PROVE  Said(Outside(R, from, to), d) = IF d \in from .. to THEN {} ELSE Said(R, d)
<1>. DEFINE L == Outside(R, from, to)
<1>1. from \in Int /\ to \in Int /\ d \in Int
  BY DaysAreNumbers
<1>2. ASSUME NEW x \in On(L, d)
      PROVE  d \notin from .. to /\ \E r \in On(R, d) : r.of = x.of /\ r.target = x.target
  <2>1. x \in L /\ x.from =< d /\ d =< x.to
    BY DEF On
  <2>2. PICK r \in R :
          \/ r.from < from /\ x = [r EXCEPT !.to = Least(@, from - 1)]
             /\ x.from = r.from /\ x.to =< r.to /\ x.to < from
          \/ to < r.to /\ x = [r EXCEPT !.from = Greatest(@, to + 1)]
             /\ x.to = r.to /\ r.from =< x.from /\ to < x.from
    BY <2>1, OutsideParts
  <2>3. r \in Row /\ r.from \in Int /\ r.to \in Int /\ x.from \in Int /\ x.to \in Int
    BY <2>1, RowDays, OutsideWellFormed
  <2>4. r.of = x.of /\ r.target = x.target
    BY <2>2, <2>3 DEF Row
  <2>5. r.from =< d /\ d =< r.to /\ d \notin from .. to
    BY <1>1, <2>1, <2>2, <2>3
  <2>. QED
    BY <2>4, <2>5 DEF On
<1>3. ASSUME NEW r \in On(R, d), d \notin from .. to
      PROVE  \E x \in On(L, d) : r.of = x.of /\ r.target = x.target
  <2>1. r \in R /\ r.from =< d /\ d =< r.to
    BY DEF On
  <2>2. r \in Row /\ r.from \in Int /\ r.to \in Int
    BY <2>1, RowDays
  <2>3. CASE d < from
    <3>. DEFINE x == [r EXCEPT !.to = Least(@, from - 1)]
    <3>0. r.from < from
      BY <1>1, <2>1, <2>2, <2>3
    <3>1. x \in L
      BY <2>1, <3>0, Zenon DEF Outside
    <3>2. x.from = r.from /\ x.to = Least(r.to, from - 1) /\ x.of = r.of /\ x.target = r.target
      BY <2>2 DEF Row
    <3>3. x.from =< d /\ d =< x.to
      BY <1>1, <2>1, <2>2, <2>3, <3>2 DEF Least
    <3>. QED
      BY <3>1, <3>2, <3>3 DEF On
  <2>4. CASE to < d
    <3>. DEFINE x == [r EXCEPT !.from = Greatest(@, to + 1)]
    <3>0. to < r.to
      BY <1>1, <2>1, <2>2, <2>4
    <3>1. x \in L
      BY <2>1, <3>0, Zenon DEF Outside
    <3>2. x.to = r.to /\ x.from = Greatest(r.from, to + 1) /\ x.of = r.of /\ x.target = r.target
      BY <2>2 DEF Row
    <3>3. x.from =< d /\ d =< x.to
      BY <1>1, <2>1, <2>2, <2>4, <3>2 DEF Greatest
    <3>. QED
      BY <3>1, <3>2, <3>3 DEF On
  <2>. QED
    BY <1>1, <1>3, <2>3, <2>4
<1>. QED
  BY <1>2, <1>3 DEF Said

\* A payload for one period replaces what a zero-to-one relation said in it.
LEMMA MergedSays ==
  ASSUME relation \in NulTilEn, NEW R, WellFormed(R), NEW payload, payload # {}, WellFormed(payload),
         NEW from \in Days, NEW to \in Days, from =< to,
         \A r \in payload : r.from = from /\ r.to = to, NEW d \in Days
  PROVE  Said(Merged(R, payload), d) = IF d \in from .. to THEN Said(payload, d) ELSE Said(R, d)
<1>. DEFINE e == CHOOSE x \in Ends(payload) : TRUE
            first == Outside(R, e[1].from, e[1].to)
            kept == Outside(first, e[2].from, e[2].to)
<1>1. Merged(R, payload) = payload \cup kept
  BY DEF Merged
<1>2. e[1] \in payload /\ e[2] \in payload
  BY EndsExist DEF Ends
<1>. HIDE DEF e
<1>3. e[1].from = from /\ e[1].to = to /\ e[2].from = from /\ e[2].to = to
  BY <1>2
<1>4. WellFormed(first) /\ Said(first, d) = IF d \in from .. to THEN {} ELSE Said(R, d)
  BY <1>3, OutsideWellFormed, OutsideSays
<1>. HIDE DEF first
<1>5. Said(kept, d) = IF d \in from .. to THEN {} ELSE Said(R, d)
  BY <1>3, <1>4, OutsideSays
<1>. HIDE DEF kept
<1>6. d \notin from .. to => Said(payload, d) = {}
  BY DaysAreNumbers DEF Said, On
<1>7. Said(Merged(R, payload), d) = Said(payload, d) \cup Said(kept, d)
  BY <1>1, SaidUnion
<1>. QED
  BY <1>5, <1>6, <1>7, Zenon

\* What a request writes for a field is read for it, and for no other.
LEMMA NewRowsRead ==
  ASSUME role \in Roles, NEW f \in Fields, f \in DOMAIN Edit[role], NEW targets, Empty \notin targets,
         NEW from, NEW to, NEW g \in Fields
  PROVE  \A x : x \in (IF g = f THEN targets ELSE {}) <=>
                x # Empty /\ \E r \in NewRows(f, targets, from, to) :
                               Reads[role][g].of \in {AnyType, r.of} /\ r.target = x
<1>1. Edit[role][f].of = Create[role][f].of
  BY EditsFitCreate DEF EditFits
<1>2. /\ Reads[role][f].of \in {AnyType, Create[role][f].of}
      /\ g # f => Reads[role][g].of \notin {AnyType, Create[role][f].of}
  BY FieldsFit
<1>3. CASE targets = {}
  BY <1>3 DEF NewRows, NewRow
<1>4. CASE targets # {}
  <2>1. NewRows(f, targets, from, to) = {NewRow(from, to, Create[role][f].of, t) : t \in targets}
    BY <1>1, <1>4 DEF NewRows
  <2>2. \A t : NewRow(from, to, Create[role][f].of, t).of = Create[role][f].of
               /\ NewRow(from, to, Create[role][f].of, t).target = t
    BY DEF NewRow
  <2>. QED
    BY <1>2, <2>1, <2>2
<1>. QED
  BY <1>3, <1>4

\* A relation of which the database keeps one row has one field.
LEMMA OneRowOneField ==
  ASSUME role \in Roles, relation \in Relations(role), relation \in NulTilEn
  PROVE  \E f : SoleField(f)
BY OwnRelationsAreSole DEF Sole, NulTilEn, Shared

\* An edit that writes every field of the relation: each reads what was written on the
\* days of the edit, and on other days what the edit was made from.
Replaces(R, K, w, from, to) ==
  /\ DOMAIN w = Fields /\ Writes(w)
  /\ \A f \in DOMAIN w : Edit[role][f].tuple.type # "many"
  /\ relation \in NulTilEn \/ \A d \in Days : Said(K, d) = Said(R, d)

LEMMA ReplacesOneRow ==
  ASSUME role \in Roles, relation \in Relations(role), NEW R, WellFormed(R), NEW payload,
         WellFormed(payload), relation \in NulTilEn, NEW f \in Fields, f \in DOMAIN Edit[role],
         NEW targets, Empty \notin targets, NEW from \in Days, NEW to \in Days, from =< to,
         payload = NewRows(f, targets, from, to), NEW d \in Days
  PROVE  Reading(Merged(R, payload), f, d) =
           IF d \in from .. to THEN targets ELSE Reading(R, f, d)
<1>1. \A r \in payload : r.from = from /\ r.to = to
  BY NewRowsDays
<1>2. payload # {}
  BY DEF NewRows
<1>3. Said(Merged(R, payload), d) = IF d \in from .. to THEN Said(payload, d) ELSE Said(R, d)
  BY <1>1, <1>2, MergedSays
<1>4. WellFormed(Merged(R, payload)) /\ relation \in Relevant[role]
  BY MergedWellFormed, Followed
<1>5. CASE d \in from .. to
  <2>1. Reading(Merged(R, payload), f, d) = Reading(payload, f, d)
    BY <1>3, <1>4, <1>5, ReadingIsRead
  <2>2. On(payload, d) = payload
    BY <1>1, <1>5 DEF On
  <2>3. \A x : x \in Reading(payload, f, d) <=> x \in targets
    BY <1>4, <2>2, NewRowsRead, ReadingHas
  <2>. QED
    BY <1>5, <2>1, <2>3
<1>6. CASE d \notin from .. to
  BY <1>3, <1>4, <1>6, ReadingIsRead
<1>. QED
  BY <1>5, <1>6

LEMMA ReplacesReads ==
  ASSUME role \in Roles, relation \in Relations(role), NEW R, WellFormed(R), NEW K, WellFormed(K),
         NEW w, NEW e, NEW from \in Days, NEW to \in Days, from =< to, Replaces(R, K, w, from, to),
         NEW f \in Fields, NEW d \in Days
  PROVE  Reading(Merged(R, Payload(K, w, e, from, to)), f, d) =
           IF d \in from .. to THEN w[f] ELSE Reading(R, f, d)
<1>. DEFINE New(t) ==
       UNION {NewRows(g, w[g], from, to) : g \in {x \in DOMAIN w : Edit[role][x].tuple = t}}
     Part(t) == IF t.type = "adapted" THEN New(t) \cup Outside(Of(K, t), from, to) ELSE New(t)
     payload == Payload(K, w, e, from, to)
<1>1. /\ relation \in Relevant[role] /\ from \in Int /\ to \in Int /\ d \in Int
      /\ DOMAIN w = Fields /\ Fields \subseteq DOMAIN Edit[role]
  BY Followed, DaysAreNumbers DEF Replaces, Writes
<1>2. Unwritten(w) = {}
  <2>1. SUFFICES ASSUME NEW t \in Bounds[role], t.relation = relation PROVE t \in Written(w)
    BY DEF Unwritten
  <2>2. \A g \in DOMAIN Create[role] : Create[role][g].relation = relation => g \in DOMAIN Edit[role]
    BY <1>1 DEF Fields
  <2>3. f \in DOMAIN Create[role] /\ Create[role][f].relation = t.relation
    BY <2>1 DEF Fields
  <2>4. PICK g \in DOMAIN Edit[role] : Edit[role][g].tuple = t
    BY <2>1, <2>2, <2>3, BoundsFitCreate DEF BoundsFit
  <2>5. g \in DOMAIN Create[role] /\ Create[role][g].relation = relation
    BY <2>1, <2>4, EditsFitCreate DEF EditFits
  <2>. QED
    BY <1>1, <2>4, <2>5 DEF Fields, Written
<1>3. payload = UNION {Part(t) : t \in Written(w)}
  BY <1>2 DEF Payload
<1>4. WellFormed(payload)
  BY PayloadWellFormed DEF Replaces
<1>5. \A g \in Fields : w[g] \subseteq Values /\ Empty \notin w[g]
  BY <1>1, DetailAssumption DEF Replaces, Writes, Values
<1>. HIDE DEF payload
<1>6. CASE relation \in NulTilEn
  <2>1. Fields = {f}
    BY <1>6, OneRowOneField DEF SoleField
  <2>2. Written(w) = {Edit[role][f].tuple}
    BY <1>1, <2>1 DEF Written
  <2>3. Edit[role][f].tuple.type = "one"
    BY <1>1, <1>6, EditsFitCreate DEF EditFits, Fields
  <2>4. New(Edit[role][f].tuple) = NewRows(f, w[f], from, to)
    BY <1>1, <2>1
  <2>5. payload = NewRows(f, w[f], from, to)
    <3>. HIDE DEF New
    <3>. QED
      BY <1>3, <2>2, <2>3, <2>4
  <2>. QED
    BY <1>1, <1>4, <1>5, <1>6, <2>5, ReplacesOneRow DEF payload
<1>7. CASE relation \notin NulTilEn
  <2>1. \A g \in Fields : Edit[role][g].tuple.type = "adapted"
                          /\ Edit[role][g].tuple.of \in {AnyType, Reads[role][g].of}
    BY <1>1, <1>7, EditsFitCreate DEF Replaces, EditFits, Fields
  <2>. DEFINE left(g) == Outside(Of(K, Edit[role][g].tuple), from, to)
  <2>2. \A r : r \in payload <=>
          \E g \in Fields : r \in NewRows(g, w[g], from, to) \/ r \in left(g)
    <3>1. \A t \in Written(w) : t.type = "adapted"
      BY <1>1, <2>1 DEF Written
    <3>2. \A t \in Written(w) : Part(t) = New(t) \cup Outside(Of(K, t), from, to)
      BY <3>1
    <3>3. \A t, r : r \in New(t) <=> \E g \in Fields : Edit[role][g].tuple = t
                                                     /\ r \in NewRows(g, w[g], from, to)
      BY <1>1
    <3>4. \A t : t \in Written(w) <=> \E g \in Fields : Edit[role][g].tuple = t
      BY <1>1 DEF Written
    <3>. HIDE DEF Part, New
    <3>5. \A r : r \in payload <=> \E t \in Written(w) : r \in New(t) \/ r \in Outside(Of(K, t), from, to)
      BY <1>3, <3>2
    <3>6. ASSUME NEW r \in payload
          PROVE  \E g \in Fields : r \in NewRows(g, w[g], from, to) \/ r \in left(g)
      <4>1. PICK t \in Written(w) : r \in New(t) \/ r \in Outside(Of(K, t), from, to)
        BY <3>5
      <4>. QED
        BY <3>3, <3>4, <4>1
    <3>7. ASSUME NEW r, NEW g \in Fields, r \in NewRows(g, w[g], from, to) \/ r \in left(g)
          PROVE  r \in payload
      <4>. DEFINE t == Edit[role][g].tuple
      <4>1. t \in Written(w) /\ (r \in New(t) \/ r \in Outside(Of(K, t), from, to))
        BY <3>3, <3>4, <3>7
      <4>. HIDE DEF t
      <4>. QED
        BY <3>5, <4>1
    <3>. QED
      BY <3>6, <3>7
  <2>3. \A g \in Fields : \A r \in NewRows(g, w[g], from, to) : r.from = from /\ r.to = to
    BY NewRowsDays
  <2>4. ASSUME NEW g \in Fields
        PROVE  Said(left(g), d) = IF d \in from .. to THEN {} ELSE Said(Of(K, Edit[role][g].tuple), d)
    <3>1. WellFormed(Of(K, Edit[role][g].tuple))
      BY Parts DEF Of
    <3>. QED
      BY <3>1, OutsideSays
  <2>5. Merged(R, payload) = payload
    <3>1. NewRows(f, w[f], from, to) # {}
      BY DEF NewRows
    <3>. QED
      BY <1>7, <2>2, <3>1 DEF Merged
  <2>. HIDE DEF left
  <2>6. CASE d \in from .. to
    <3>1. \A g \in Fields : On(left(g), d) = {}
      BY <2>4, <2>6 DEF Said
    <3>2. \A r : r \in On(payload, d) <=> \E g \in Fields : r \in NewRows(g, w[g], from, to)
      BY <2>2, <2>3, <2>6, <3>1 DEF On
    <3>3. ASSUME NEW x PROVE x \in Reading(payload, f, d) <=> x \in w[f]
      <4>1. x \in Reading(payload, f, d) <=>
              x # Empty /\ \E g \in Fields : \E r \in NewRows(g, w[g], from, to) :
                 Reads[role][f].of \in {AnyType, r.of} /\ r.target = x
        BY <1>1, <1>4, <3>2, ReadingHas
      <4>2. ASSUME NEW g \in Fields
            PROVE  x \in (IF f = g THEN w[g] ELSE {}) <=>
                     x # Empty /\ \E r \in NewRows(g, w[g], from, to) :
                       Reads[role][f].of \in {AnyType, r.of} /\ r.target = x
        BY <1>1, <1>5, NewRowsRead
      <4>3. x \in Reading(payload, f, d) <=> \E g \in Fields : x \in (IF f = g THEN w[g] ELSE {})
        BY <4>1, <4>2, Zenon
      <4>. QED
        BY <4>3
    <3>4. Reading(payload, f, d) = w[f]
      BY <3>3
    <3>. QED
      BY <2>5, <2>6, <3>4, Zenon DEF payload
  <2>7. CASE d \notin from .. to
    <3>1. \A g \in Fields : On(NewRows(g, w[g], from, to), d) = {}
      BY <1>1, <2>3, <2>7 DEF On
    <3>2. ASSUME NEW x \in Reading(payload, f, d) PROVE x \in Reading(K, f, d)
      <4>1. PICK r \in On(payload, d) :
              x # Empty /\ Reads[role][f].of \in {AnyType, r.of} /\ r.target = x
        BY <1>1, <1>4, ReadingHas
      <4>2. PICK g \in Fields : r \in On(left(g), d)
        BY <2>2, <3>1, <4>1 DEF On
      <4>3. <<r.of, r.target>> \in Said(Of(K, Edit[role][g].tuple), d)
        BY <2>4, <2>7, <4>2 DEF Said
      <4>4. PICK s \in On(K, d) : s.of = r.of /\ s.target = r.target
        BY <4>3 DEF Said, On, Of
      <4>. QED
        BY <1>1, <4>1, <4>4, ReadingHas
    <3>3. ASSUME NEW x \in Reading(K, f, d) PROVE x \in Reading(payload, f, d)
      <4>1. PICK s \in On(K, d) :
              x # Empty /\ Reads[role][f].of \in {AnyType, s.of} /\ s.target = x
        BY <1>1, ReadingHas
      <4>2. s \in On(Of(K, Edit[role][f].tuple), d)
        BY <2>1, <4>1 DEF On, Of
      <4>3. <<s.of, s.target>> \in Said(left(f), d)
        BY <2>4, <2>7, <4>2 DEF Said
      <4>4. PICK r \in On(left(f), d) : r.of = s.of /\ r.target = s.target
        BY <4>3 DEF Said
      <4>5. r \in On(payload, d)
        BY <2>2, <4>4 DEF On
      <4>. QED
        BY <1>1, <1>4, <4>1, <4>4, <4>5, ReadingHas
    <3>4. Reading(K, f, d) = Reading(R, f, d)
      BY <1>1, <1>7, ReadingIsRead DEF Replaces
    <3>5. Reading(payload, f, d) = Reading(R, f, d)
      BY <3>2, <3>3, <3>4
    <3>. QED
      BY <2>5, <2>7, <3>5, Zenon DEF payload
  <2>. QED
    BY <2>6, <2>7
<1>. QED
  BY <1>6, <1>7
-----------------------------------------------------------------------------
\* There are finitely many rows, so that those of a day can be counted.
LEMMA RowsAreFinite == \A R \in SUBSET Row : IsFiniteSet(R)
<1>. DEFINE T == Targets \cup Gyldighed \cup {Empty}
            S == (Days \X Days) \X (Types \X T)
            F == [p \in S |-> NewRow(p[1][1], p[1][2], p[2][1], p[2][2])]
<1>1. IsFiniteSet(Days)
  BY DaysAreNumbers, FS_Interval DEF Days
<1>2. IsFiniteSet(T)
  <2>1. IsFiniteSet({"Aktiv"}) /\ IsFiniteSet({"Aktiv"} \cup {"Inaktiv"}) /\ IsFiniteSet({Empty})
    BY FS_Singleton, FS_AddElement
  <2>2. Gyldighed = {"Aktiv"} \cup {"Inaktiv"}
    BY DEF Gyldighed
  <2>3. IsFiniteSet(Targets \cup Gyldighed)
    BY <2>1, <2>2, DetailAssumption, FS_Union
  <2>. QED
    BY <2>1, <2>3, FS_Union
<1>3. IsFiniteSet(Types)
  <2>1. IsFiniteSet({Plain}) /\ IsFiniteSet({Plain} \cup {"engagement"})
    BY FS_Singleton, FS_AddElement
  <2>2. IsFiniteSet({Plain} \cup {"engagement"} \cup {"it"} \cup {"lederansvar"})
    BY <2>1, FS_AddElement
  <2>3. IsFiniteSet({Plain} \cup {"engagement"} \cup {"it"} \cup {"lederansvar"}
                      \cup {"lederniveau"} \cup {"synlighed"})
    BY <2>2, FS_AddElement
  <2>4. IsFiniteSet({Plain} \cup {"engagement"} \cup {"it"} \cup {"lederansvar"}
                      \cup {"lederniveau"} \cup {"synlighed"} \cup {"tidsregistrering"})
    BY <2>3, FS_AddElement
  <2>5. Types = {Plain} \cup {"engagement"} \cup {"it"} \cup {"lederansvar"}
                  \cup {"lederniveau"} \cup {"synlighed"} \cup {"tidsregistrering"}
    BY DEF Types
  <2>. QED
    BY <2>4, <2>5
<1>4. Row = [from: Days, to: Days, of: Types, target: T]
  BY DEF Row
<1>. HIDE DEF T
<1>5. IsFiniteSet(Days \X Days) /\ IsFiniteSet(Types \X T)
  BY <1>1, <1>2, <1>3, FS_Product
<1>6. IsFiniteSet(S)
  BY <1>5, FS_Product
<1>7. F \in [S -> Row]
  BY <1>4 DEF NewRow
<1>8. \A r \in Row : \E p \in S : F[p] = r
  <2>. TAKE r \in Row
  <2>. DEFINE p == <<<<r.from, r.to>>, <<r.of, r.target>>>>
  <2>1. p \in S
    BY <1>4
  <2>2. F[p] = NewRow(r.from, r.to, r.of, r.target)
    BY <2>1
  <2>3. NewRow(r.from, r.to, r.of, r.target) = r
    BY <1>4 DEF NewRow
  <2>. QED
    BY <2>1, <2>2, <2>3
<1>. HIDE DEF F, S
<1>9. F \in Surjection(S, Row)
  BY <1>7, <1>8 DEF Surjection
<1>10. IsFiniteSet(Row)
  BY <1>6, <1>9, FS_Surjection
<1>. QED
  BY <1>10, FS_Subset

LEMMA OneRowADay ==
  ASSUME NEW R, WellFormed(R), \A d \in Days : Cardinality(On(R, d)) =< 1
  PROVE  Apart(R)
<1>1. ASSUME NEW d \in Days PROVE \A x, y \in On(R, d) : x = y
  <2>1. IsFiniteSet(On(R, d))
    BY RowsAreFinite DEF On, WellFormed
  <2>. QED
    BY <2>1, AtMostOne
<1>2. ASSUME NEW r \in R, NEW s \in R, ~(r.to < s.from), ~(s.to < r.from) PROVE r = s
  <2>1. /\ r.from \in Days /\ s.from \in Days /\ r.from \in Int /\ r.to \in Int
        /\ s.from \in Int /\ s.to \in Int /\ r.from =< r.to /\ s.from =< s.to
    BY RowDays DEF WellFormed, Row
  <2>2. CASE r.from =< s.from
    <3>1. r \in On(R, s.from) /\ s \in On(R, s.from)
      BY <1>2, <2>1, <2>2 DEF On
    <3>. QED
      BY <1>1, <2>1, <3>1
  <2>3. CASE s.from =< r.from
    <3>1. r \in On(R, r.from) /\ s \in On(R, r.from)
      BY <1>2, <2>1, <2>3 DEF On
    <3>. QED
      BY <1>1, <2>1, <3>1
  <2>. QED
    BY <2>1, <2>2, <2>3
<1>. QED
  BY <1>2 DEF Apart

\* Where a row holds, moving the ends of the first and the last row changes nothing.
LEMMA MovedOn ==
  ASSUME NEW S, WellFormed(S), Apart(S), NEW e \in Ends(S), S # {}, NEW from \in Days, NEW to \in Days,
         NEW d \in Days, NEW x \in On(S, d), NEW r \in S
  PROVE  Moved(r, e, from, to).from =< d /\ d =< Moved(r, e, from, to).to <=> r = x
<1>. DEFINE m == Moved(r, e, from, to)
<1>1. /\ x \in S /\ x.from =< d /\ d =< x.to /\ d \in Int /\ from \in Int /\ to \in Int
      /\ \A y \in S : e[1].from =< y.from /\ y.from =< e[2].from
  BY DaysAreNumbers DEF On, Ends
<1>2. /\ r.from \in Int /\ r.to \in Int /\ x.from \in Int /\ x.to \in Int /\ r.from =< r.to
  BY <1>1, RowDays
<1>3. /\ m.from = IF r = e[1] THEN Least(r.from, from) ELSE r.from
      /\ m.to = IF r = e[2] THEN Greatest(r.to, to) ELSE r.to
  BY MovedFields
<1>. HIDE DEF m
<1>4. m.from =< r.from /\ r.to =< m.to
  BY <1>1, <1>2, <1>3 DEF Least, Greatest
<1>5. /\ m.from \in Int /\ m.to \in Int
  BY <1>1, <1>2, <1>3 DEF Least, Greatest
<1>6. CASE r = x
  BY <1>1, <1>2, <1>4, <1>5, <1>6 DEF m
<1>7. CASE r # x
  <2>1. r.to < x.from \/ x.to < r.from
    BY <1>1, <1>7 DEF Apart
  <2>2. CASE r.to < x.from
    <3>1. x.from =< e[2].from
      BY <1>1
    <3>2. r # e[2]
      BY <1>2, <2>2, <3>1
    <3>3. m.to = r.to
      BY <1>3, <3>2
    <3>. QED
      BY <1>1, <1>2, <1>7, <2>2, <3>3 DEF m
  <2>3. CASE x.to < r.from
    <3>1. e[1].from =< x.from
      BY <1>1
    <3>2. r # e[1]
      BY <1>1, <1>2, <2>3, <3>1
    <3>3. m.from = r.from
      BY <1>3, <3>2
    <3>. QED
      BY <1>1, <1>2, <1>7, <2>3, <3>3 DEF m
  <2>. QED
    BY <2>1, <2>2, <2>3
<1>. QED
  BY <1>6, <1>7

LEMMA TwiceOutsideSays ==
  ASSUME NEW R, WellFormed(R), NEW d \in Days
  PROVE  \A a, b, i, j \in Days : a =< b /\ i =< j =>
           Said(Outside(Outside(R, a, b), i, j), d) =
             IF d \in a .. b \/ d \in i .. j THEN {} ELSE Said(R, d)
<1>. SUFFICES ASSUME NEW a \in Days, NEW b \in Days, NEW i \in Days, NEW j \in Days, a =< b, i =< j
              PROVE  Said(Outside(Outside(R, a, b), i, j), d) =
                       IF d \in a .. b \/ d \in i .. j THEN {} ELSE Said(R, d)
  OBVIOUS
<1>0. Said(Outside(R, a, b), d) = IF d \in a .. b THEN {} ELSE Said(R, d)
  BY OutsideSays
<1>. DEFINE first == Outside(R, a, b)
<1>1. WellFormed(first)
  BY OutsideWellFormed
<1>. HIDE DEF first
<1>2. Said(Outside(first, i, j), d) = IF d \in i .. j THEN {} ELSE Said(first, d)
  BY <1>1, OutsideSays
<1>. QED
  BY <1>0, <1>2, Zenon DEF first

\* What a zero-to-one relation said is kept on the days that the payload does not cover.
LEMMA MergedKeeps ==
  ASSUME relation \in NulTilEn, NEW R, WellFormed(R), NEW payload, payload # {}, WellFormed(payload),
         NEW d \in Days
  PROVE  /\ Said(payload, d) \subseteq Said(Merged(R, payload), d)
         /\ Said(Merged(R, payload), d) \subseteq Said(payload, d) \cup Said(R, d)
         /\ On(payload, d) = {} => Said(Merged(R, payload), d) = Said(R, d)
<1>. DEFINE e == CHOOSE x \in Ends(payload) : TRUE
            first == Outside(R, e[1].from, e[1].to)
            kept == Outside(first, e[2].from, e[2].to)
<1>1. Merged(R, payload) = payload \cup kept
  BY DEF Merged
<1>2. e[1] \in payload /\ e[2] \in payload
  BY EndsExist DEF Ends
<1>. HIDE DEF e
<1>3. /\ e[1].from \in Days /\ e[1].to \in Days /\ e[1].from =< e[1].to
      /\ e[2].from \in Days /\ e[2].to \in Days /\ e[2].from =< e[2].to
  BY <1>2 DEF WellFormed, Row
<1>4. \A a, b, i, j \in Days : a =< b /\ i =< j =>
        Said(Outside(Outside(R, a, b), i, j), d) =
          IF d \in a .. b \/ d \in i .. j THEN {} ELSE Said(R, d)
  BY TwiceOutsideSays
<1>5. Said(kept, d) = IF d \in e[1].from .. e[1].to \/ d \in e[2].from .. e[2].to THEN {} ELSE Said(R, d)
  BY <1>3, <1>4, Zenon
<1>. HIDE DEF kept
<1>6. Said(Merged(R, payload), d) = Said(payload, d) \cup Said(kept, d)
  BY <1>1, SaidUnion
<1>7. Said(kept, d) \subseteq Said(R, d)
  BY <1>5
<1>8. ASSUME On(payload, d) = {} PROVE Said(payload, d) = {} /\ Said(kept, d) = Said(R, d)
  <2>1. ASSUME NEW r \in payload PROVE d \notin r.from .. r.to
    BY <1>8 DEF On
  <2>2. d \notin e[1].from .. e[1].to /\ d \notin e[2].from .. e[2].to
    BY <1>2, <2>1
  <2>. QED
    BY <1>5, <1>8, <2>2 DEF Said
<1>. QED
  BY <1>6, <1>7, <1>8

\* Extending what is not named says the same as before on every day that had a row, if
\* it had one.
LEMMA BoundsSay ==
  ASSUME role \in Roles, relation \in Relations(role), ~ManagerTasks,
         NEW R, WellFormed(R), Sound(R), Apart(R), NEW w, DOMAIN w = {},
         NEW e \in Ends(UNION {Of(Consolidated(R), t) : t \in Unwritten(w)}),
         NEW from \in Days, NEW to \in Days, from =< to, NEW d \in Days, On(R, d) # {}
  PROVE  Said(Merged(R, Payload(Consolidated(R), w, e, from, to)), d) = Said(R, d)
<1>. DEFINE K == Consolidated(R)
            payload == Payload(K, w, e, from, to)
<1>1. WellFormed(K) /\ Apart(K) /\ Sound(K) /\ Said(K, d) = Said(R, d)
  BY ConsolidatedWellFormed, ConsolidatedApart, ConsolidatedFrom, FromSound, ConsolidatedSays
<1>. HIDE DEF K
<1>2. PICK x \in On(K, d) : TRUE
  <2>1. Said(K, d) # {}
    BY <1>1 DEF Said
  <2>. QED
    BY <2>1 DEF Said
<1>3. x \in K /\ x.from =< d /\ d =< x.to /\ d \in Int
  BY <1>2, DaysAreNumbers DEF On
<1>4. On(K, d) = {x}
  BY <1>1, <1>3, OneADay DEF On
<1>5. Said(R, d) = {<<x.of, x.target>>}
  BY <1>1, <1>4 DEF Said
<1>6. Written(w) = {} /\ payload = UNION {EnsureBounds(Of(K, t), t.type, e, from, to) : t \in Unwritten(w)}
  BY DEF Written, Payload
<1>. HIDE DEF payload
<1>7. CASE Unwritten(w) = {}
  BY <1>6, <1>7 DEF Merged, payload, K
<1>8. ASSUME NEW t \in Unwritten(w)
      PROVE  Said(Merged(R, payload), d) = Said(R, d)
  <2>1. t \in Bounds[role] /\ t.relation = relation
    BY DEF Unwritten
  <2>2. /\ t.type \in {"many", "one", "adapted"} /\ (t.type = "one" <=> relation \in NulTilEn)
        /\ \A g \in Fields : /\ t.of \in {AnyType, Reads[role][g].of}
                             /\ t.of # AnyType =>
                                  g \notin Update[role].nullable \cup {"parent", "person", "manager_level"}
        /\ \A u \in Unwritten(w) : u = t
    <3>1. <<role, relation>> # <<"manager", "opgaver">>
      BY DEF ManagerTasks
    <3>2. PICK f \in Fields : f \in DOMAIN Create[role] /\ Create[role][f].relation = relation
      BY Followed DEF Fields
    <3>. QED
      BY <2>1, <3>1, <3>2, BoundsFitCreate, TupleTypes DEF BoundsFit, Unwritten, Fields
  <2>. DEFINE S == Of(K, t)
              M(r) == Moved(r, e, from, to)
              moving == {r \in S : M(r) # r}
  <2>3. x \in S
    <3>1. SUFFICES ASSUME t.of # AnyType, x.of # t.of PROVE FALSE
      BY <1>3 DEF Of
    <3>2. CASE x.target = Empty
      <4>1. Clearable
        BY <1>1, <1>3, <3>2 DEF Sound
      <4>. QED
        BY <2>2, <3>1, <4>1 DEF Clearable
    <3>3. CASE x.target # Empty
      <4>1. PICK g \in Fields : x.of = Create[role][g].of
        BY <1>1, <1>3, <3>3 DEF Sound, Typed
      <4>2. Reads[role][g].of \in {AnyType, Create[role][g].of}
        BY FieldsFit
      <4>. QED
        BY <2>2, <3>1, <4>1, <4>2
    <3>. QED
      BY <3>2, <3>3
  <2>4. Unwritten(w) = {t}
    BY <2>2
  <2>5. payload = EnsureBounds(S, t.type, e, from, to) /\ e \in Ends(S)
    BY <1>6, <2>4 DEF K
  <2>6. WellFormed(S) /\ Apart(S) /\ S # {} /\ S \subseteq K
    BY <1>1, <2>3, Parts DEF Of, Apart
  <2>7. x \in On(S, d)
    BY <1>3, <2>3 DEF On
  <2>. HIDE DEF S
  <2>8. \A r \in S : /\ M(r).from =< d /\ d =< M(r).to <=> r = x
                     /\ M(r).of = r.of /\ M(r).target = r.target
    BY <2>5, <2>6, <2>7, MovedOn, MovedFields
  <2>9. WellFormed(payload)
    BY <2>2, <2>5, <2>6, EnsureBoundsWellFormed
  <2>. HIDE DEF M
  <2>10. /\ t.type = "many" => payload = S
         /\ t.type = "one" => payload = {M(r) : r \in moving}
         /\ t.type = "adapted" => payload = IF moving = {} THEN {} ELSE {M(r) : r \in S}
    BY <2>5 DEF EnsureBounds, M
  <2>11. CASE payload = {}
    BY <2>11 DEF Merged
  <2>12. CASE payload # {} /\ t.type = "many"
    <3>1. Merged(R, payload) = S
      BY <2>2, <2>10, <2>12 DEF Merged
    <3>2. On(S, d) = {x}
      BY <1>4, <2>6, <2>7 DEF On
    <3>. QED
      BY <1>5, <3>1, <3>2 DEF Said
  <2>13. CASE payload # {} /\ t.type = "adapted"
    <3>1. Merged(R, payload) = {M(r) : r \in S}
      BY <2>2, <2>10, <2>13 DEF Merged
    <3>2. On({M(r) : r \in S}, d) = {M(x)}
      BY <2>3, <2>8 DEF On
    <3>. QED
      BY <1>5, <2>3, <2>8, <3>1, <3>2 DEF Said
  <2>14. CASE payload # {} /\ t.type = "one"
    <3>6. /\ Said(payload, d) \subseteq Said(Merged(R, payload), d)
          /\ Said(Merged(R, payload), d) \subseteq Said(payload, d) \cup Said(R, d)
          /\ On(payload, d) = {} => Said(Merged(R, payload), d) = Said(R, d)
      BY <2>2, <2>9, <2>14, MergedKeeps
    <3>7. CASE x \in moving
      <4>1. On(payload, d) = {M(x)}
        BY <2>8, <2>10, <2>14, <3>7 DEF On
      <4>2. Said(payload, d) = Said(R, d)
        BY <1>5, <2>3, <2>8, <4>1 DEF Said
      <4>. QED
        BY <3>6, <4>2
    <3>8. CASE x \notin moving
      <4>1. On(payload, d) = {}
        BY <2>8, <2>10, <2>14, <3>8 DEF On
      <4>. QED
        BY <3>6, <4>1
    <3>. QED
      BY <3>7, <3>8
  <2>. QED
    BY <2>2, <2>11, <2>12, <2>13, <2>14
<1>. QED
  BY <1>7, <1>8 DEF payload, K
-----------------------------------------------------------------------------
\* EditsAreLocal, of a request and of the rows after it is stored.
Local(q, T) ==
  LET sent == IF q.kind = "update" THEN Sent(q.wish) ELSE q.wish
  IN  \A f \in Fields, d \in Days :
        IF f \in DOMAIN sent /\ d \in q.from .. q.to
        THEN Reading(T, f, d) = sent[f]
        ELSE On(rows, d) # {} => Reading(T, f, d) = Reading(rows, f, d)

LEMMA CreationLocal ==
  ASSUME IInv, NEW q, Made(q), Creation(q), rows = {}, WellFormed(q.payload)
  PROVE  Local(q, Merged(rows, q.payload))
<1>. DEFINE w == q.wish
            Parents(g) == IF g = "parent" /\ w[g] = {} THEN {Empty} ELSE w[g]
            New(g) == {NewRow(q.from, q.to, Create[role][g].of, t) : t \in Parents(g)}
<1>0. role \in Roles /\ relation \in Relevant[role]
  BY Followed DEF IInv
<1>1. q.kind = "create" /\ DOMAIN w = Fields /\ \A g \in Fields : Empty \notin w[g]
  BY <1>0, WishesAreReferences, DetailAssumption DEF Creation, Values
<1>2. Merged(rows, q.payload) = q.payload
  <2>1. \A a, b : Outside({}, a, b) = {}
    BY DEF Outside
  <2>. QED
    BY <2>1 DEF Merged, Creation
<1>3. q.payload = UNION {New(g) : g \in DOMAIN w}
  BY DEF CreateRows, Creation
<1>4. ASSUME NEW f \in Fields, NEW d \in Days, d \in q.from .. q.to
      PROVE  Reading(q.payload, f, d) = w[f]
  <2>1. \A g : \A r \in New(g) : r.from = q.from /\ r.to = q.to
                                 /\ r.of = Create[role][g].of /\ r.target \in Parents(g)
    BY DEF NewRow
  <2>2. ASSUME NEW t \in Parents(f) PROVE \E r \in New(f) : r.target = t
    <3>. HIDE DEF Parents
    <3>1. NewRow(q.from, q.to, Create[role][f].of, t) \in New(f)
      OBVIOUS
    <3>2. NewRow(q.from, q.to, Create[role][f].of, t).target = t
      BY DEF NewRow
    <3>. QED
      BY <3>1, <3>2
  <2>3. /\ Reads[role][f].of \in {AnyType, Create[role][f].of}
        /\ \A g \in Fields \ {f} : Reads[role][f].of \notin {AnyType, Create[role][g].of}
    BY <1>0, FieldsFit
  <2>4. \A x : x # Empty => (x \in Parents(f) <=> x \in w[f])
    BY <1>1
  <2>. HIDE DEF New, Parents
  <2>5. q.from =< d /\ d =< q.to
    BY <1>4, DaysAreNumbers DEF Made
  <2>6. \A r : r \in On(q.payload, d) <=> \E g \in Fields : r \in New(g)
    BY <1>1, <1>3, <2>1, <2>5 DEF On
  <2>7. ASSUME NEW x PROVE x \in Reading(q.payload, f, d) <=> x \in w[f]
    <3>1. x \in Reading(q.payload, f, d) <=>
            x # Empty /\ \E r \in On(q.payload, d) : Reads[role][f].of \in {AnyType, r.of} /\ r.target = x
      BY <1>0, ReadingHas
    <3>2. x \in Reading(q.payload, f, d) <=>
            x # Empty /\ \E g \in Fields : \E r \in New(g) :
               Reads[role][f].of \in {AnyType, r.of} /\ r.target = x
      BY <2>6, <3>1, Zenon
    <3>3. x \in Reading(q.payload, f, d) <=> x # Empty /\ \E r \in New(f) : r.target = x
      BY <2>1, <2>3, <3>2
    <3>. QED
      BY <1>1, <2>1, <2>2, <2>4, <3>3
  <2>. QED
    BY <2>7
<1>5. \A d : On(rows, d) = {}
  BY DEF On
<1>. QED
  BY <1>1, <1>2, <1>4, <1>5, Zenon DEF Local

LEMMA TerminationLocal ==
  ASSUME IInv, NEW q, Made(q), Termination(q), WellFormed(q.payload)
  PROVE  Local(q, Merged(rows, q.payload))
<1>. DEFINE T == Merged(rows, q.payload)
<1>0. /\ role \in Roles /\ relation \in Relevant[role] /\ WellFormed(rows)
      /\ q.from \in Days /\ q.to \in Days /\ q.from =< q.to
  BY Followed DEF IInv, Made
<1>1. /\ q.kind = "terminate" /\ q.wish = [state |-> {"Inaktiv"}] /\ relation = "gyldighed"
      /\ q.payload = {NewRow(q.from, q.to, Plain, "Inaktiv")}
  BY DEF Termination
<1>2. relation \in NulTilEn /\ Fields = {"state"} /\ Create[role]["state"].of = Plain
  <2>1. relation \in NulTilEn
    BY <1>1 DEF NulTilEn
  <2>2. "state" \in Fields /\ Create[role]["state"].of = Plain
    BY <1>0, <1>1, StateIsAField, StateIsPlain DEF Fields
  <2>. QED
    BY <1>0, <2>1, <2>2, OneRowOneField DEF SoleField, IInv
<1>3. WellFormed(T)
  BY <1>0, MergedWellFormed
<1>. HIDE DEF T
<1>4. ASSUME NEW d \in Days
      PROVE  Said(T, d) = IF d \in q.from .. q.to THEN Said(q.payload, d) ELSE Said(rows, d)
  <2>1. q.payload # {} /\ \A r \in q.payload : r.from = q.from /\ r.to = q.to
    BY <1>1 DEF NewRow
  <2>. QED
    BY <1>0, <1>2, <2>1, MergedSays DEF T
<1>5. ASSUME NEW d \in Days, d \in q.from .. q.to
      PROVE  Reading(T, "state", d) = {"Inaktiv"}
  <2>1. Reading(T, "state", d) = Reading(q.payload, "state", d)
    BY <1>0, <1>3, <1>4, <1>5, ReadingIsRead
  <2>2. On(q.payload, d) = q.payload
    BY <1>0, <1>1, <1>5, DaysAreNumbers DEF On, NewRow
  <2>3. Reads[role]["state"].of \in {AnyType, Plain} /\ "Inaktiv" # Empty
    BY <1>0, <1>2, FieldsFit, DetailAssumption DEF Gyldighed
  <2>4. \A r : r \in On(q.payload, d) <=> r = NewRow(q.from, q.to, Plain, "Inaktiv")
    BY <1>1, <2>2
  <2>5. /\ NewRow(q.from, q.to, Plain, "Inaktiv").of = Plain
        /\ NewRow(q.from, q.to, Plain, "Inaktiv").target = "Inaktiv"
    BY DEF NewRow
  <2>6. \A x : x \in Reading(q.payload, "state", d) <=> x = "Inaktiv"
    BY <1>0, <2>3, <2>4, <2>5, ReadingHas
  <2>. QED
    BY <2>1, <2>6
<1>6. ASSUME NEW d \in Days, d \notin q.from .. q.to, NEW f
      PROVE  Reading(T, f, d) = Reading(rows, f, d)
  BY <1>0, <1>3, <1>4, <1>6, ReadingIsRead
<1>. QED
  BY <1>1, <1>2, <1>5, <1>6 DEF Local, T

LEMMA VacationLocal ==
  ASSUME IInv, NEW q, Made(q), Vacation(q, rows), WellFormed(q.payload),
         \A r \in Consolidated(rows) : r.to >= q.from
  PROVE  Local(q, Merged(rows, q.payload))
<1>a. PICK first \in Days : first = q.from
  BY DEF Made
<1>. DEFINE K == Consolidated(rows)
            held == On(K, first)
            left == Outside(held, first, Horizon)
            cleared == NewRow(first, Horizon, Plain, Empty)
<1>0. /\ role \in Roles /\ relation \in Relevant[role] /\ WellFormed(rows) /\ WellFormed(K)
      /\ q.to = Horizon /\ Horizon \in Days /\ first =< Horizon
  BY <1>a, Followed, ConsolidatedWellFormed, DaysAreNumbers DEF IInv, Made, Vacation
<1>1. q.kind = "vacate" /\ q.wish = [person |-> {}] /\ q.payload = {cleared} \cup left
  BY <1>a DEF Vacation
<1>2. Fields = {"person"}
  BY DEF Vacation, Fields, Create, ManagerCreate, AssociationCreate, In, InAs
<1>3. Merged(rows, q.payload) = q.payload
  BY <1>1 DEF Vacation, Merged, NulTilEn
<1>. HIDE DEF K
<1>4. WellFormed(held)
  BY <1>0, Parts DEF On
<1>. HIDE DEF held
<1>5. ASSUME NEW d \in Days
      PROVE  Said(left, d) = IF d \in first .. Horizon THEN {} ELSE Said(held, d)
  BY <1>0, <1>4, OutsideSays
<1>6. cleared.from = first /\ cleared.to = Horizon /\ cleared.target = Empty
  BY DEF NewRow
<1>. HIDE DEF left, cleared
<1>7. ASSUME NEW d \in Days, d \in first .. Horizon, NEW f
      PROVE  Reading(q.payload, f, d) = {}
  <2>1. Said(left, d) = {}
    BY <1>5, <1>7
  <2>2. On(left, d) = {}
    BY <2>1 DEF Said
  <2>3. \A r \in On(q.payload, d) : r.target = Empty
    BY <1>1, <1>6, <2>2 DEF On
  <2>. QED
    BY <1>0, <2>3, ReadingHas
<1>8. ASSUME NEW d \in Days, d \notin first .. Horizon, NEW f
      PROVE  Reading(q.payload, f, d) = Reading(rows, f, d)
  <2>1. d \in Int /\ first \in Int /\ d < first
    BY <1>0, <1>8, DaysAreNumbers DEF Days
  <2>2. \A r \in K : r.from \in Int /\ r.to \in Int /\ r.to >= first
    BY <1>a, <1>0, RowDays DEF K
  <2>3. On(held, d) = On(K, d)
    BY <1>0, <2>1, <2>2 DEF On, held
  <2>4. Said(held, d) = Said(rows, d)
    BY <1>0, <2>3, ConsolidatedSays DEF Said, K
  <2>5. Said({cleared}, d) = {}
    BY <1>6, <2>1 DEF Said, On
  <2>6. Said(left, d) = Said(rows, d)
    BY <1>5, <1>8, <2>4
  <2>7. Said(q.payload, d) = Said({cleared}, d) \cup Said(left, d)
    BY <1>1, SaidUnion
  <2>8. Said(q.payload, d) = Said(rows, d)
    BY <2>5, <2>6, <2>7
  <2>. QED
    BY <1>0, <2>8, ReadingIsRead
<1>9. q.from .. q.to = first .. Horizon /\ q.kind # "update"
      /\ DOMAIN q.wish = {"person"} /\ q.wish["person"] = {}
  BY <1>a, <1>0, <1>1
<1>. QED
  BY <1>2, <1>3, <1>7, <1>8, <1>9, Zenon DEF Local

\* A wish for no field is the empty one.
LEMMA NothingWished ==
  ASSUME NEW w \in Wish, DOMAIN w = {}
  PROVE  w = <<>>
<1>1. relation # "gyldighed"
  BY DEF Wish
<1>2. PICK S \in SUBSET Fields : w \in [S -> SUBSET Targets]
  BY <1>1 DEF Wish
<1>. QED
  BY <1>2

\* An edit of a regular kind sends all of the relation's fields, or none.
LEMMA SentAll ==
  ASSUME role \in Roles, NEW w \in Wish, DOMAIN w \in {{}, Fields}, DOMAIN w \subseteq DOMAIN Edit[role],
         \A f \in DOMAIN w : Edit[role][f].tuple.type # "many", DOMAIN Sent(w) # {}
  PROVE  /\ DOMAIN Sent(w) = Fields /\ Fields \subseteq DOMAIN Edit[role]
         /\ \A f \in Fields : Edit[role][f].tuple.type # "many"
         /\ ManagerTasks => DOMAIN w = Fields
<1>1. DOMAIN Sent(w) = DOMAIN w \cup (Fields \cap Update[role].always)
  BY DEF Sent
<1>2. CASE DOMAIN w = Fields
  BY <1>1, <1>2
<1>3. CASE DOMAIN w = {}
  <2>1. PICK f \in Fields : f \in Update[role].always
    BY <1>1, <1>3
  <2>2. /\ f \in DOMAIN Edit[role] /\ Edit[role][f].tuple.type # "many"
        /\ Create[role][f].relation # "opgaver"
        /\ \A g \in DOMAIN Create[role] : Create[role][g].relation = Create[role][f].relation => g = f
    BY <2>1, NullsFitCreate DEF NullsFit
  <2>3. Fields = {f} /\ ~ManagerTasks
    BY <2>2 DEF Fields, ManagerTasks
  <2>. QED
    BY <1>1, <1>3, <2>1, <2>2, <2>3
<1>. QED
  BY <1>2, <1>3

\* What is sent is what is written.
LEMMA CompletedIsSent ==
  ASSUME role \in Roles, NEW R, NEW w \in Wish, Allowed(w, Update[role].nullable),
         DOMAIN Sent(w) = Fields, Fields \subseteq DOMAIN Edit[role],
         ManagerTasks => DOMAIN w = Fields, NEW done \in Completed(R, w)
  PROVE  DOMAIN done = Fields /\ \A f \in Fields : done[f] = Sent(w)[f]
<1>1. CASE ~ManagerTasks
  <2>1. done = Edited(w)
    BY <1>1 DEF Completed
  <2>. QED
    BY <2>1 DEF Edited
<1>2. CASE ManagerTasks
  <2>1. Fields = {"manager_level", "responsibility"}
    BY <1>2 DEF ManagerTasks, Fields, Create, ManagerCreate, In, InAs
  <2>2. w["responsibility"] # {}
    <3>1. "responsibility" \notin Update[role].nullable
      BY <1>2 DEF ManagerTasks, Update, ManagerUpdate, Input
    <3>. QED
      BY <1>2, <2>1, <3>1 DEF Allowed
  <2>3. done = [f \in {"manager_level"} \cup {"responsibility"} |->
                  IF f = "manager_level" THEN w["manager_level"] ELSE w["responsibility"]]
    BY <1>2, <2>1, <2>2 DEF Completed
  <2>4. \A f \in Fields : Sent(w)[f] = w[f]
    BY <1>2 DEF Sent
  <2>. QED
    BY <2>1, <2>3, <2>4
<1>. QED
  BY <1>1, <1>2

LEMMA EditionLocal ==
  ASSUME IInv, MInv, NEW q, Made(q), NEW R, WellFormed(R), q.fresh => R = rows, Edition(q, R),
         Regular(q)
  PROVE  Local(q, Merged(rows, q.payload))
<1>. DEFINE w == q.wish
            K == Consolidated(R)
<1>0. /\ role \in Roles /\ relation \in Relations(role) /\ relation \in Relevant[role]
      /\ WellFormed(rows) /\ Sound(rows) /\ WellFormed(K)
  BY Followed, ConsolidatedWellFormed DEF IInv, MInv
<1>1. PICK from \in Days, to \in Days : from = q.from /\ to = q.to /\ from =< to
  BY DEF Made
<1>2. q.kind = "update" /\ w \in Wish /\ Allowed(w, Update[role].nullable)
  BY DEF Edition
<1>p. PICK done \in Completed(K, w) :
        \E e \in Ends(UNION {Of(K, t) : t \in Unwritten(done)}) :
          q.payload = Payload(K, done, e, from, to)
  BY <1>1 DEF Edition
<1>3. PICK e \in Ends(UNION {Of(K, t) : t \in Unwritten(done)}) :
        q.payload = Payload(K, done, e, from, to)
  BY <1>p
<1>4. /\ q.fresh \/ (relation \in NulTilEn /\ w # <<>>)
      /\ DOMAIN w \subseteq DOMAIN Edit[role]
      /\ \A f \in DOMAIN w : Edit[role][f].tuple.type # "many"
      /\ DOMAIN w \in {{}, Fields}
      /\ DOMAIN Sent(w) = {} => ~ManagerTasks /\ \A d \in Days : Cardinality(On(rows, d)) =< 1
  BY <1>2 DEF Regular
<1>. HIDE DEF w
<1>5. Writes(done)
  BY <1>0, <1>2, <1>3, CompletedWrites
<1>6. CASE DOMAIN Sent(w) = {}
  <2>1. DOMAIN w = {}
    BY <1>6 DEF Sent
  <2>2. R = rows
    BY <1>2, <1>4, <2>1, NothingWished
  <2>3. DOMAIN done = {}
    BY <1>3, <1>4, <1>6 DEF Completed, Edited
  <2>4. Apart(rows)
    BY <1>0, <1>4, <1>6, OneRowADay
  <2>5. ASSUME NEW f, NEW d \in Days, On(rows, d) # {}
        PROVE  Reading(Merged(rows, q.payload), f, d) = Reading(rows, f, d)
    <3>1. Said(Merged(rows, q.payload), d) = Said(rows, d)
      BY <1>0, <1>1, <1>3, <1>4, <1>6, <2>2, <2>3, <2>4, <2>5, BoundsSay DEF K
    <3>2. WellFormed(Merged(rows, q.payload))
      BY <1>0, <1>1, <1>3, <1>5, PayloadWellFormed, MergedWellFormed
    <3>. QED
      BY <1>0, <3>1, <3>2, ReadingIsRead
  <2>. QED
    BY <1>2, <1>6, <2>5 DEF Local, w
<1>7. CASE DOMAIN Sent(w) # {}
  <2>1. /\ DOMAIN Sent(w) = Fields /\ Fields \subseteq DOMAIN Edit[role]
        /\ \A f \in Fields : Edit[role][f].tuple.type # "many"
        /\ ManagerTasks => DOMAIN w = Fields
    BY <1>0, <1>2, <1>4, <1>7, SentAll
  <2>2. DOMAIN done = Fields /\ \A f \in Fields : done[f] = Sent(w)[f]
    BY <1>0, <1>2, <1>3, <2>1, CompletedIsSent
  <2>3. relation \in NulTilEn \/ \A d \in Days : Said(K, d) = Said(rows, d)
    BY <1>0, <1>4, ConsolidatedSays DEF K
  <2>4. Replaces(rows, K, done, from, to)
    BY <1>5, <2>1, <2>2, <2>3 DEF Replaces
  <2>5. ASSUME NEW f \in Fields, NEW d \in Days
        PROVE  Reading(Merged(rows, q.payload), f, d) =
                 IF d \in from .. to THEN done[f] ELSE Reading(rows, f, d)
    <3>. HIDE DEF K
    <3>. QED
      BY <1>0, <1>1, <1>3, <2>4, ReplacesReads
  <2>. QED
    BY <1>1, <1>2, <2>1, <2>2, <2>5, Zenon DEF Local, w
<1>. QED
  BY <1>6, <1>7

\* Only storing it settles a request.
LEMMA StoredIsStored ==
  ASSUME IInv, MInv, Next, NEW c \in Clients, Stored(c)
  PROVE  Store(c)
<1>0. \A x \in Clients : pending[x] = pending[x] /\ DOMAIN pending = Clients
  BY DEF IInv
<1>1. pending[c] # NoRequest /\ pending'[c] = NoRequest
  BY DEF Stored
<1>2. ASSUME NEW x \in Clients, NEW q, MayPrepare(x), pending' = [pending EXCEPT ![x] = q] PROVE FALSE
  <2>1. x # c
    BY <1>1, <1>2 DEF MayPrepare
  <2>. QED
    BY <1>1, <1>2, <2>1
<1>3. ASSUME NEW x \in Clients, pending' = Stale(x), x # c PROVE FALSE
  <2>1. PICK q : q = pending[c]
    OBVIOUS
  <2>2. [q EXCEPT !.fresh = FALSE] = NoRequest
    BY <1>1, <1>3, <2>1 DEF Stale
  <2>3. Made(q) /\ WellFormed(q.payload) /\ q.kind \in Kinds /\ DOMAIN q.wish \subseteq Fields
    BY <1>1, <2>1 DEF MInv, IInv, PendingOK
  <2>4. q.wish \in Wishes
    <3>1. Fields \subseteq DOMAIN Create[role] /\ role \in Roles
      BY DEF Fields, IInv
    <3>2. PICK R : Creation(q) \/ Edition(q, R) \/ Termination(q) \/ Vacation(q, R)
      BY <2>3 DEF Made
    <3>3. q.wish \in [DOMAIN q.wish -> SUBSET (Targets \cup Gyldighed)]
      <4>1. CASE q.wish \in Wish
        BY <4>1 DEF Wish, Gyldighed
      <4>2. CASE q.wish = [state |-> {"Inaktiv"}] \/ q.wish = [person |-> {}]
        BY <4>2 DEF Gyldighed
      <4>. QED
        BY <3>2, <4>1, <4>2 DEF Creation, Edition, Termination, Vacation
    <3>. QED
      BY <2>3, <3>1, <3>3 DEF Wishes
  <2>5. [q EXCEPT !.fresh = FALSE] \in
          [kind: Kinds, wish: Wishes, from: Days, to: Days, payload: SUBSET Row, fresh: BOOLEAN]
    BY <2>3, <2>4 DEF Made, WellFormed
  <2>. QED
    BY <2>2, <2>5, RequestAssumption
<1>4. ASSUME NEW x \in Clients, Prepare(x) PROVE FALSE
  BY <1>2, <1>4 DEF Prepare
<1>5. ASSUME NEW x \in Clients, Terminate(x) PROVE FALSE
  BY <1>2, <1>5 DEF Terminate
<1>6. ASSUME NEW x \in Clients, Vacate(x) PROVE FALSE
  BY <1>2, <1>6 DEF Vacate
<1>7. ASSUME NEW x \in Clients, Delete(x) PROVE FALSE
  <2>1. MayPrepare(x) /\ pending' = Stale(x)
    BY <1>7 DEF Delete
  <2>. QED
    BY <1>1, <1>3, <2>1 DEF MayPrepare
<1>8. ASSUME NEW x \in Clients, Store(x) PROVE x = c
  BY <1>3, <1>8 DEF Store
<1>. QED
  BY <1>4, <1>5, <1>6, <1>7, <1>8 DEF Next

LEMMA StoredLocal ==
  ASSUME IInv, MInv, NEW c \in Clients, Store(c), Regular(pending[c])
  PROVE  Local(pending[c], Merged(rows, pending[c].payload))
<1>. DEFINE q == pending[c]
<1>1. q # NoRequest
  BY DEF Store
<1>2. Made(q) /\ WellFormed(q.payload) /\ (q.kind = "create" => rows = {})
  BY <1>1 DEF MInv, IInv, PendingOK
<1>. HIDE DEF q
<1>3. PICK R : /\ WellFormed(R) /\ (q.fresh => R = rows)
               /\ Creation(q) \/ Edition(q, R) \/ Termination(q) \/ Vacation(q, R)
  BY <1>2 DEF Made
<1>4. Regular(q)
  BY DEF q
<1>5. CASE Creation(q)
  BY <1>2, <1>5, CreationLocal DEF Creation, q
<1>6. CASE Edition(q, R)
  BY <1>2, <1>3, <1>4, <1>6, EditionLocal DEF q
<1>7. CASE Termination(q)
  BY <1>2, <1>7, TerminationLocal DEF q
<1>8. CASE Vacation(q, R)
  <2>1. q.fresh /\ \A r \in Consolidated(rows) : r.to >= q.from
    BY <1>4, <1>8 DEF Regular, Vacation
  <2>. QED
    BY <1>2, <1>3, <1>8, <2>1, VacationLocal DEF q
<1>. QED
  BY <1>3, <1>5, <1>6, <1>7, <1>8

\* A request changes what it names, on its own days, to what it names, and nothing
\* else: a creation, a termination, and an edit or a vacation of a regular kind, also
\* one that was prepared before another was stored (update_payload, ensure_bounds and
\* _merge_obj_effects of mora/common.py; as_update_organisationfunktion).
THEOREM EditsAlwaysLocal == Spec => EditsAreLocal
<1>. DEFINE Step ==
       \A c \in Clients : Stored(c) /\ Regular(pending[c]) =>
         LET q == pending[c]
             sent == IF q.kind = "update" THEN Sent(q.wish) ELSE q.wish
         IN  \A f \in Fields, d \in Days :
               IF f \in DOMAIN sent /\ d \in q.from .. q.to
               THEN Reading(rows', f, d) = sent[f]
               ELSE On(rows, d) # {} => Reading(rows', f, d) = Reading(rows, f, d)
<1>1. ASSUME IInv, MInv, [Next]_vars PROVE [Step]_vars
  <2>1. SUFFICES ASSUME Next, NEW c \in Clients, Stored(c), Regular(pending[c])
                 PROVE  Local(pending[c], rows')
    BY <1>1, Zenon DEF Local
  <2>2. Store(c)
    BY <1>1, <2>1, StoredIsStored
  <2>3. rows' = Merged(rows, pending[c].payload)
    BY <2>2 DEF Store
  <2>. QED
    BY <1>1, <2>1, <2>2, <2>3, StoredLocal
<1>2. Spec => []IInv /\ []MInv
  BY InitIInv, StepIInv, InitMade, StepMade, PTL DEF Spec
<1>3. IInv /\ MInv /\ [Next]_vars => [Step]_vars
  BY <1>1
<1>. HIDE DEF Step
<1>4. Spec => [][Step]_vars
  BY <1>2, <1>3, PTL DEF Spec
<1>. QED
  BY <1>4 DEF EditsAreLocal, Step
-----------------------------------------------------------------------------
\* What an object cannot be without: an update cannot clear it, and either has to name
\* it, or extends it as the one field of its relation.  A manager's level is always
\* written.
NeedsFit(kind, create, edit, bounds, needs, update) ==
  \A f \in needs :
    /\ f \in DOMAIN create /\ f \notin update.nullable
    /\ f \in update.required => f \in DOMAIN edit
    /\ f \notin update.required =>
         /\ kind \notin {"class", "facet", "itsystem"}
         /\ <<kind, f>> # <<"manager", "manager_level">> =>
              /\ \A g \in DOMAIN create : create[g].relation = create[f].relation => g = f
              /\ \E t \in bounds : t.relation = create[f].relation /\ t.type \in {"one", "adapted"}

LEMMA NeedsFitCreate ==
  \A kind \in Roles :
    NeedsFit(kind, Create[kind], Edit[kind], Bounds[kind], Needs[kind], Update[kind])
<1>. USE DEF NeedsFit, Input, ZeroToOne, ZeroToMany, Adapted, In, InAs, To, ToAs,
     JOB_FUNCTION_FIELD, ORG_FUNK_TYPE_FIELD,
     ORG_FUNK_CLASSES_FIELD, ASSOCIATED_ORG_UNIT_FIELD, ASSOCIATED_FUNCTION_FIELD,
     ENGAGEMENT_FIELD, IT_USER_FIELD, USER_FIELD, ADDRESS_TYPE_FIELD, KLE_ASPECT_FIELD,
     RESPONSIBILITY_FIELD, MANAGER_LEVEL_FIELD, VISIBILITY_FIELD, SINGLE_ITSYSTEM_FIELD,
     EMPLOYEE_PERSON_FIELD, PRIMARY_FIELD, ORG_UNIT_TYPE_FIELD, ORG_UNIT_LEVEL_FIELD,
     ORG_UNIT_HIERARCHY_FIELD, ORG_UNIT_TIME_PLANNING_FIELD, PARENT_FIELD,
     PARENT_CLASS_FIELD, GYLDIGHED_FIELD
<1>1. NeedsFit("engagement", EngagementCreate, EngagementEdit, ENGAGEMENT_FIELDS, EngagementNeeds, EngagementUpdate)
  BY SMTT(30) DEF EngagementCreate, EngagementEdit, EngagementNeeds, EngagementUpdate, ENGAGEMENT_FIELDS
<1>2. NeedsFit("association", AssociationCreate, AssociationEdit, ASSOCIATION_FIELDS, AssociationNeeds, AssociationUpdate)
  BY SMTT(30) DEF AssociationCreate, AssociationEdit, AssociationNeeds, AssociationUpdate, ASSOCIATION_FIELDS
<1>3. NeedsFit("itassociation", ITAssociationCreate, ITAssociationEdit, ASSOCIATION_FIELDS, ITAssociationNeeds, ITAssociationUpdate)
  BY SMTT(30) DEF ITAssociationCreate, ITAssociationEdit, ITAssociationNeeds, ITAssociationUpdate, ASSOCIATION_FIELDS
<1>4. NeedsFit("manager", ManagerCreate, ManagerEdit, MANAGER_FIELDS, ManagerNeeds, ManagerUpdate)
  BY SMTT(30) DEF ManagerCreate, ManagerEdit, ManagerNeeds, ManagerUpdate, MANAGER_FIELDS
<1>5. NeedsFit("leave", LeaveCreate, LeaveEdit, LEAVE_FIELDS, LeaveNeeds, LeaveUpdate)
  BY SMTT(30) DEF LeaveCreate, LeaveEdit, LeaveNeeds, LeaveUpdate, LEAVE_FIELDS
<1>6. NeedsFit("address", AddressCreate, AddressEdit, ADDRESS_FIELDS, AddressNeeds, AddressUpdate)
  BY SMTT(30) DEF AddressCreate, AddressEdit, AddressNeeds, AddressUpdate, ADDRESS_FIELDS
<1>7. NeedsFit("ituser", ITUserCreate, ITUserEdit, ITSYSTEM_FIELDS, ITUserNeeds, ITUserUpdate)
  BY SMTT(30) DEF ITUserCreate, ITUserEdit, ITUserNeeds, ITUserUpdate, ITSYSTEM_FIELDS
<1>8. NeedsFit("kle", KLECreate, KLEEdit, KLE_FIELDS, KLENeeds, KLEUpdate)
  BY SMTT(30) DEF KLECreate, KLEEdit, KLENeeds, KLEUpdate, KLE_FIELDS
<1>9. NeedsFit("owner", OwnerCreate, OwnerEdit, OWNER_FIELDS, OwnerNeeds, OwnerUpdate)
  BY SMTT(30) DEF OwnerCreate, OwnerEdit, OwnerNeeds, OwnerUpdate, OWNER_FIELDS
<1>10. NeedsFit("rolebinding", RoleBindingCreate, RoleBindingEdit, ROLE_FIELDS, RoleBindingNeeds, RoleBindingUpdate)
  BY SMTT(30) DEF RoleBindingCreate, RoleBindingEdit, RoleBindingNeeds, RoleBindingUpdate, ROLE_FIELDS
<1>11. NeedsFit("org_unit", OrganisationUnitCreate, OrganisationUnitEdit, ORG_UNIT_FIELDS, OrganisationUnitNeeds, OrganisationUnitUpdate)
  BY SMTT(30) DEF OrganisationUnitCreate, OrganisationUnitEdit, OrganisationUnitNeeds, OrganisationUnitUpdate, ORG_UNIT_FIELDS
<1>12. NeedsFit("class", ClassCreate, ClassEdit, {}, ClassNeeds, ClassUpdate)
  BY SMTT(30) DEF ClassCreate, ClassEdit, ClassNeeds, ClassUpdate
<1>13. NeedsFit("facet", FacetCreate, FacetEdit, {}, FacetNeeds, FacetUpdate)
  BY SMTT(30) DEF FacetCreate, FacetEdit, FacetNeeds, FacetUpdate
<1>14. NeedsFit("itsystem", ITSystemCreate, ITSystemEdit, {}, ITSystemNeeds, ITSystemUpdate)
  BY SMTT(30) DEF ITSystemCreate, ITSystemEdit, ITSystemNeeds, ITSystemUpdate
<1>15. NeedsFit("employee", EmployeeCreate, EmployeeEdit, {}, EmployeeNeeds, EmployeeUpdate)
  BY SMTT(30) DEF EmployeeCreate, EmployeeEdit, EmployeeNeeds, EmployeeUpdate
<1>. HIDE DEF NeedsFit
<1>. QED
  BY <1>1, <1>2, <1>3, <1>4, <1>5, <1>6, <1>7, <1>8, <1>9, <1>10, <1>11, <1>12, <1>13, <1>14, <1>15
  DEF Roles, Create, Edit, Bounds, Needs, Update
LEMMA SaidIfOn ==
  ASSUME NEW R, NEW d
  PROVE  Said(R, d) = {} <=> On(R, d) = {}
BY DEF Said

\* A day without a row that is in no gap lies before or after all of them.
LEMMA BeforeOrAfter ==
  ASSUME WellFormed(rows), NEW d \in Days, ~InGap(d), Said(rows, d) = {}
  PROVE  \/ \A x \in Consolidated(rows) : d < x.from
         \/ \A x \in Consolidated(rows) : x.to < d
<1>. DEFINE K == Consolidated(rows)
<1>1. SUFFICES ASSUME NEW x \in K, NEW y \in K, ~(d < x.from), ~(y.to < d) PROVE FALSE
  OBVIOUS
<1>2. WellFormed(K) /\ \A a \in Days : Said(K, a) = Said(rows, a)
  BY ConsolidatedWellFormed, ConsolidatedSays
<1>. HIDE DEF K
<1>3. /\ x.from \in Int /\ x.to \in Int /\ y.from \in Int /\ y.to \in Int /\ d \in Int
      /\ x.to \in Days /\ y.from \in Days /\ x.from =< x.to /\ y.from =< y.to
  BY <1>2, RowDays, DaysAreNumbers DEF WellFormed, Row
<1>4. x.to < d /\ d < y.from
  <2>1. On(K, d) = {}
    BY <1>2, SaidIfOn
  <2>. QED
    BY <1>1, <1>3, <2>1 DEF On
<1>5. PICK r \in rows : r.from =< x.to /\ x.to =< r.to
  <2>1. x \in On(K, x.to)
    BY <1>3 DEF On
  <2>2. Said(rows, x.to) # {}
    BY <1>2, <1>3, <2>1, SaidIfOn
  <2>3. On(rows, x.to) # {}
    BY <2>2, SaidIfOn
  <2>. QED
    BY <2>3 DEF On
<1>6. PICK s \in rows : s.from =< y.from /\ y.from =< s.to
  <2>1. y \in On(K, y.from)
    BY <1>3 DEF On
  <2>2. Said(rows, y.from) # {}
    BY <1>2, <1>3, <2>1, SaidIfOn
  <2>3. On(rows, y.from) # {}
    BY <2>2, SaidIfOn
  <2>. QED
    BY <2>3 DEF On
<1>7. r.from \in Int /\ r.to \in Int /\ s.from \in Int /\ s.to \in Int
  BY RowDays
<1>8. On(rows, d) = {}
  BY SaidIfOn
<1>9. r.to < d /\ d < s.from
  BY <1>3, <1>4, <1>5, <1>6, <1>7, <1>8 DEF On
<1>. QED
  BY <1>9 DEF InGap

\* Extending the first and the last row, something holds on each day of the edit that
\* is in no gap.
LEMMA MovedCovers ==
  ASSUME WellFormed(rows), rows # {}, NEW e \in Ends(Consolidated(rows)), NEW from \in Days, NEW to \in Days,
         NEW d \in Days, from =< d, d =< to, ~InGap(d)
  PROVE  \E x \in Consolidated(rows) :
           /\ Moved(x, e, from, to).from =< d /\ d =< Moved(x, e, from, to).to
           /\ x \in On(Consolidated(rows), d) \/ Moved(x, e, from, to) # x
<1>. DEFINE K == Consolidated(rows)
            M(x) == Moved(x, e, from, to)
<1>1. WellFormed(K) /\ \A a \in Days : Said(K, a) = Said(rows, a)
  BY ConsolidatedWellFormed, ConsolidatedSays
<1>2. K # {}
  <2>1. PICK r \in rows : TRUE
    OBVIOUS
  <2>2. r \in On(rows, r.from) /\ r.from \in Days
    BY RowDays DEF On, WellFormed, Row
  <2>3. Said(K, r.from) # {}
    BY <1>1, <2>2, SaidIfOn
  <2>. QED
    BY <2>3, SaidIfOn DEF On
<1>3. (Said(rows, d) = {}) => (\A x \in K : d < x.from) \/ (\A x \in K : x.to < d)
  BY BeforeOrAfter
<1>. HIDE DEF K
<1>4. e[1] \in K /\ e[2] \in K
  BY <1>2 DEF Ends, K
<1>5. \A x \in K : /\ M(x).from = IF x = e[1] THEN Least(x.from, from) ELSE x.from
                   /\ M(x).to = IF x = e[2] THEN Greatest(x.to, to) ELSE x.to
                   /\ x.from \in Int /\ x.to \in Int /\ x.from =< x.to
  BY <1>1, MovedFields, RowDays
<1>6. d \in Int /\ from \in Int /\ to \in Int
  BY DaysAreNumbers
<1>. HIDE DEF M
<1>7. CASE Said(rows, d) # {}
  <2>1. PICK x \in On(K, d) : TRUE
    BY <1>1, <1>7 DEF Said
  <2>2. x \in K /\ x.from =< d /\ d =< x.to
    BY <2>1 DEF On
  <2>3. M(x).from =< d /\ d =< M(x).to
    BY <1>5, <1>6, <2>2 DEF Least, Greatest
  <2>. QED
    BY <2>1, <2>2, <2>3 DEF M, K
<1>8. CASE \A x \in K : d < x.from
  <2>1. M(e[1]).from =< d /\ d =< M(e[1]).to /\ M(e[1]).from # e[1].from
    BY <1>4, <1>5, <1>6, <1>8 DEF Least, Greatest
  <2>. QED
    BY <1>4, <2>1 DEF M, K
<1>9. CASE \A x \in K : x.to < d
  <2>1. M(e[2]).from =< d /\ d =< M(e[2]).to /\ M(e[2]).to # e[2].to
    BY <1>4, <1>5, <1>6, <1>9 DEF Least, Greatest
  <2>. QED
    BY <1>4, <2>1 DEF M, K
<1>. QED
  BY <1>3, <1>7, <1>8, <1>9
\* A field that is not named has a value on each day of the edit that is in no gap.
LEMMA BoundsCover ==
  ASSUME role \in Roles, relation \in Relations(role), ~ManagerTasks, WellFormed(rows), Sound(rows),
         rows # {}, \A r \in rows : r.target # Empty, NEW f, Fields = {f}, NEW t \in Bounds[role],
         t.relation = relation, t.type \in {"one", "adapted"}, NEW w, DOMAIN w = {},
         NEW e \in Ends(UNION {Of(Consolidated(rows), u) : u \in Unwritten(w)}),
         NEW from \in Days, NEW to \in Days, from =< to, NEW d \in Days, from =< d, d =< to, ~InGap(d)
  PROVE  Reading(Merged(rows, Payload(Consolidated(rows), w, e, from, to)), f, d) # {}
<1>. DEFINE K == Consolidated(rows)
            payload == Payload(K, w, e, from, to)
            M(r) == Moved(r, e, from, to)
            moving == {r \in K : M(r) # r}
            Holds(r) == r.target # Empty /\ r.of = Create[role][f].of
<1>1. /\ relation \in Relevant[role] /\ WellFormed(K)
      /\ \A r \in rows \cup K : Holds(r)
  <2>1. \A r \in rows : Holds(r)
    BY DEF Sound, Typed
  <2>2. \A r \in K : Holds(r)
    BY <2>1, ConsolidatedFrom DEF From, Alike
  <2>. QED
    BY <2>1, <2>2, Followed, ConsolidatedWellFormed
<1>2. /\ t.of \in {AnyType, Reads[role][f].of} /\ Reads[role][f].of \in {AnyType, Create[role][f].of}
      /\ t.type = "one" <=> relation \in NulTilEn
      /\ \A u \in Bounds[role] : u.relation = relation => u = t
  <2>1. f \in DOMAIN Create[role] /\ Create[role][f].relation = relation
    BY DEF Fields
  <2>2. <<role, relation>> # <<"manager", "opgaver">>
    BY DEF ManagerTasks
  <2>. QED
    BY <2>1, <2>2, BoundsFitCreate, FieldsFit DEF BoundsFit
<1>3. Of(K, t) = K
  BY <1>1, <1>2 DEF Of
<1>4. Unwritten(w) = {t} /\ Written(w) = {}
  BY <1>2 DEF Unwritten, Written
<1>. HIDE DEF K
<1>5. e \in Ends(K) /\ payload = EnsureBounds(K, t.type, e, from, to)
  BY <1>3, <1>4 DEF Payload, K
<1>6. WellFormed(payload) /\ WellFormed(Merged(rows, payload))
  BY <1>1, <1>5, EnsureBoundsWellFormed, MergedWellFormed
<1>7. PICK x \in K : M(x).from =< d /\ d =< M(x).to /\ (x \in On(K, d) \/ M(x) # x)
  BY <1>5, MovedCovers DEF K
<1>8. \A r \in K : Holds(M(r))
  BY <1>1, MovedFields
<1>. HIDE DEF M, payload
<1>9. ASSUME NEW R, \A r \in R : Holds(r) PROVE \A v \in Said(R, d) : v[2] # Empty /\ v[1] = Create[role][f].of
  BY <1>9 DEF Said, On
<1>10. x \in moving \/ Said(rows, d) # {}
  BY <1>7, ConsolidatedSays, SaidIfOn DEF K
<1>11. /\ t.type = "one" => payload = {M(r) : r \in moving}
       /\ t.type = "adapted" => payload = IF moving = {} THEN {} ELSE {M(r) : r \in K}
  BY <1>5 DEF EnsureBounds, M
<1>12. \A r \in payload : Holds(r)
  BY <1>8, <1>11
<1>13. x \in moving => Said(payload, d) # {}
  <2>1. ASSUME x \in moving PROVE M(x) \in On(payload, d)
    BY <1>7, <1>11, <2>1 DEF On
  <2>. QED
    BY <2>1, SaidIfOn
<1>14. Said(Merged(rows, payload), d) # {} /\ \A v \in Said(Merged(rows, payload), d) :
                                                v[2] # Empty /\ v[1] = Create[role][f].of
  <2>1. CASE payload = {}
    <3>1. Merged(rows, payload) = rows /\ x \notin moving
      BY <1>11, <2>1 DEF Merged
    <3>. QED
      BY <1>1, <1>9, <1>10, <3>1
  <2>2. CASE payload # {} /\ t.type = "adapted"
    <3>1. Merged(rows, payload) = payload /\ payload = {M(r) : r \in K}
      BY <1>2, <1>11, <2>2 DEF Merged
    <3>2. M(x) \in On(payload, d)
      BY <1>7, <3>1 DEF On
    <3>. QED
      BY <1>9, <1>12, <3>1, <3>2, SaidIfOn
  <2>3. CASE payload # {} /\ t.type = "one"
    <3>1. /\ Said(payload, d) \subseteq Said(Merged(rows, payload), d)
          /\ Said(Merged(rows, payload), d) \subseteq Said(payload, d) \cup Said(rows, d)
          /\ On(payload, d) = {} => Said(Merged(rows, payload), d) = Said(rows, d)
      BY <1>2, <1>6, <2>3, MergedKeeps
    <3>2. /\ \A v \in Said(payload, d) : v[2] # Empty /\ v[1] = Create[role][f].of
          /\ \A v \in Said(rows, d) : v[2] # Empty /\ v[1] = Create[role][f].of
      BY <1>1, <1>9, <1>12
    <3>3. Said(Merged(rows, payload), d) # {}
      BY <1>10, <1>13, <3>1, SaidIfOn
    <3>. QED
      BY <3>1, <3>2, <3>3
  <2>. QED
    BY <2>1, <2>2, <2>3
<1>15. PICK r \in On(Merged(rows, payload), d) : r.target # Empty /\ r.of = Create[role][f].of
  <2>1. PICK r \in On(Merged(rows, payload), d) : TRUE
    BY <1>14, SaidIfOn
  <2>2. <<r.of, r.target>> \in Said(Merged(rows, payload), d)
    BY DEF Said
  <2>. QED
    BY <1>14, <2>2
<1>16. r.target \in Reading(Merged(rows, payload), f, d)
  BY <1>1, <1>2, <1>6, <1>15, ReadingHas
<1>. QED
  BY <1>16 DEF payload, K

\* A field that is named has a value on each day of the edit.
LEMMA NamedCovers ==
  ASSUME role \in Roles, relation \in Relations(role), WellFormed(rows), NEW K, WellFormed(K),
         NEW w, Writes(w), DOMAIN w \subseteq Fields, NEW e, NEW from \in Days, NEW to \in Days, from =< to,
         NEW f \in DOMAIN w, w[f] # {}, NEW d \in Days, from =< d, d =< to
  PROVE  Reading(Merged(rows, Payload(K, w, e, from, to)), f, d) # {}
<1>. DEFINE payload == Payload(K, w, e, from, to)
<1>1. NewRows(f, w[f], from, to) \subseteq payload
  <2>. DEFINE New(t) ==
         UNION {NewRows(g, w[g], from, to) : g \in {x \in DOMAIN w : Edit[role][x].tuple = t}}
       Part(t) == IF t.type = "adapted" THEN New(t) \cup Outside(Of(K, t), from, to) ELSE New(t)
       tuple == Edit[role][f].tuple
  <2>1. NewRows(f, w[f], from, to) \subseteq New(tuple) /\ tuple \in Written(w)
    BY DEF Written
  <2>. HIDE DEF New, tuple
  <2>2. NewRows(f, w[f], from, to) \subseteq Part(tuple)
    BY <2>1
  <2>. HIDE DEF Part
  <2>3. payload = (UNION {Part(t) : t \in Written(w)})
                    \cup (UNION {EnsureBounds(Of(K, t), t.type, e, from, to) : t \in Unwritten(w)})
    BY DEF Payload, Part, New
  <2>. QED
    BY <2>1, <2>2, <2>3
<1>2. PICK x : x \in w[f] /\ x # Empty
  BY DetailAssumption DEF Writes, Values
<1>3. f \in Fields /\ f \in DOMAIN Edit[role] /\ Empty \notin w[f]
  BY DetailAssumption DEF Writes, Values
<1>4. PICK r \in NewRows(f, w[f], from, to) : Reads[role][f].of \in {AnyType, r.of} /\ r.target = x
  BY <1>2, <1>3, NewRowsRead
<1>5. WellFormed(payload)
  BY PayloadWellFormed
<1>6. r \in payload
  BY <1>1
<1>. HIDE DEF payload
<1>7. r \in On(Merged(rows, payload), d)
  <2>1. r.from = from /\ r.to = to
    BY NewRowsDays
  <2>2. payload \subseteq Merged(rows, payload)
    BY DEF Merged
  <2>. QED
    BY <1>6, <2>1, <2>2 DEF On
<1>8. WellFormed(Merged(rows, payload)) /\ relation \in Relevant[role]
  BY <1>5, MergedWellFormed, Followed
<1>9. x \in Reading(Merged(rows, payload), f, d)
  BY <1>2, <1>4, <1>7, <1>8, ReadingHas
<1>. QED
  BY <1>9 DEF payload
\* What a creation must name it names, and what an edit writes of it is no null.
LEMMA NeededWritten ==
  ASSUME role \in Roles, NEW R, NEW w \in Wish, Allowed(w, Update[role].nullable),
         ManagerTasks => TargetsOf(R, MANAGER_LEVEL_FIELD) # {},
         NEW done \in Completed(R, w), NEW f \in Fields \cap Needs[role], f \in DOMAIN done
  PROVE  done[f] # {}
<1>1. f \notin Update[role].nullable
  BY NeedsFitCreate DEF NeedsFit
<1>2. CASE ~ManagerTasks
  <2>1. f \in DOMAIN Sent(w) /\ done[f] = Sent(w)[f]
    BY <1>2 DEF Completed, Edited
  <2>2. f \in DOMAIN w
    BY <1>1, <2>1, NullsFitCreate DEF Sent, NullsFit
  <2>. QED
    BY <1>1, <2>1, <2>2 DEF Sent, Allowed
<1>3. CASE ManagerTasks
  <2>1. f = "manager_level"
    BY <1>3 DEF ManagerTasks, Needs, ManagerNeeds, Fields, Create, ManagerCreate, In, InAs
  <2>. DEFINE kept == TargetsOf(R, MANAGER_LEVEL_FIELD)
              levels == IF "manager_level" \in DOMAIN w THEN {w["manager_level"]}
                        ELSE IF kept = {} THEN {{}} ELSE {{t} : t \in kept}
  <2>2. done["manager_level"] \in levels
    BY <1>3 DEF Completed
  <2>3. CASE "manager_level" \in DOMAIN w
    BY <1>1, <2>1, <2>2, <2>3 DEF Allowed
  <2>4. CASE "manager_level" \notin DOMAIN w
    BY <1>3, <2>1, <2>2, <2>4
  <2>. QED
    BY <2>3, <2>4
<1>. QED
  BY <1>2, <1>3

\* Consolidating keeps a manager's levels.
LEMMA ConsolidatedTargets ==
  ASSUME NEW R, WellFormed(R), NEW tuple, TargetsOf(R, tuple) # {}
  PROVE  TargetsOf(Consolidated(R), tuple) # {}
<1>1. PICK r \in R : tuple.of \in {AnyType, r.of} /\ r.target # Empty
  BY DEF TargetsOf, Of
<1>2. r.from \in Days /\ r \in On(R, r.from)
  BY RowDays DEF On, WellFormed, Row
<1>3. <<r.of, r.target>> \in Said(Consolidated(R), r.from)
  <2>1. Said(Consolidated(R), r.from) = Said(R, r.from)
    BY <1>2, ConsolidatedSays
  <2>2. <<r.of, r.target>> \in Said(R, r.from)
    BY <1>2 DEF Said
  <2>. QED
    BY <2>1, <2>2
<1>4. PICK x \in Consolidated(R) : x.of = r.of /\ x.target = r.target
  BY <1>3 DEF Said, On
<1>. QED
  BY <1>1, <1>4 DEF TargetsOf, Of

LEMMA ReadingTargets ==
  ASSUME ManagerTasks, NEW R, NEW d, Reading(R, "manager_level", d) # {}
  PROVE  TargetsOf(R, MANAGER_LEVEL_FIELD) # {}
<1>1. Reads[role]["manager_level"] = MANAGER_LEVEL_FIELD
  BY DEF ManagerTasks, Reads, ManagerReads
<1>2. PICK r \in Effect(R, d) : MANAGER_LEVEL_FIELD.of \in {AnyType, r.of} /\ r.target # Empty
  BY <1>1 DEF Reading, Of
<1>. QED
  BY <1>2 DEF Effect, TargetsOf, Of

LEMMA CreationComplete ==
  ASSUME IInv, NEW q, Made(q), Creation(q), rows = {}, WellFormed(q.payload),
         NEW f \in Fields \cap Needs[role], NEW d \in q.from .. q.to
  PROVE  Reading(Merged(rows, q.payload), f, d) # {}
<1>1. f \in DOMAIN q.wish /\ q.wish[f] # {} /\ q.kind = "create"
  BY DEF Creation, Allowed
<1>2. d \in Days
  BY DaysAreNumbers DEF Made, Days
<1>3. Reading(Merged(rows, q.payload), f, d) = q.wish[f]
  BY <1>1, <1>2, CreationLocal DEF Local
<1>. QED
  BY <1>1, <1>3

LEMMA EditionComplete ==
  ASSUME IInv, MInv, NEW q, Made(q), Edition(q, rows), NEW f \in Fields \cap Needs[role],
         NEW d \in q.from .. q.to,
         f \notin Update[role].required => rows # {},
         ManagerTasks => TargetsOf(rows, MANAGER_LEVEL_FIELD) # {},
         ~ManagerTasks => \A r \in rows : r.target # Empty
  PROVE  Reading(Merged(rows, q.payload), f, d) # {} \/ (~ManagerTasks /\ InGap(d))
<1>. DEFINE w == q.wish
            K == Consolidated(rows)
<1>0. /\ role \in Roles /\ relation \in Relations(role)
      /\ WellFormed(rows) /\ Sound(rows) /\ WellFormed(K)
  BY ConsolidatedWellFormed DEF IInv, MInv
<1>1. PICK from \in Days, to \in Days : from = q.from /\ to = q.to /\ from =< to
  BY DEF Made
<1>2. d \in Days /\ from =< d /\ d =< to
  BY <1>1, DaysAreNumbers DEF Days
<1>3. w \in Wish /\ Allowed(w, Update[role].nullable) /\ Update[role].required \cap Fields \subseteq DOMAIN w
  BY DEF Edition
<1>p. PICK done \in Completed(K, w) :
        \E e \in Ends(UNION {Of(K, t) : t \in Unwritten(done)}) :
          q.payload = Payload(K, done, e, from, to)
  BY <1>1 DEF Edition
<1>4. PICK e \in Ends(UNION {Of(K, t) : t \in Unwritten(done)}) :
        q.payload = Payload(K, done, e, from, to)
  BY <1>p
<1>. HIDE DEF w
<1>5. Writes(done) /\ DOMAIN done \subseteq Fields
  BY <1>0, <1>3, <1>4, CompletedWrites, CompletedFields
<1>6. ManagerTasks => TargetsOf(K, MANAGER_LEVEL_FIELD) # {}
  BY <1>0, ConsolidatedTargets
<1>7. CASE f \in DOMAIN done
  <2>1. done[f] # {}
    BY <1>0, <1>3, <1>4, <1>6, <1>7, NeededWritten
  <2>. HIDE DEF K
  <2>. QED
    BY <1>0, <1>1, <1>2, <1>4, <1>5, <1>7, <2>1, NamedCovers
<1>8. CASE f \notin DOMAIN done
  <2>1. ~ManagerTasks
    <3>1. ASSUME ManagerTasks PROVE "manager_level" \in DOMAIN done
      <4>. DEFINE Domain(t) == {"manager_level"} \cup (IF t = {} THEN {} ELSE {"responsibility"})
                  kept == IF "responsibility" \in DOMAIN w THEN w["responsibility"]
                          ELSE TargetsOf(K, RESPONSIBILITY_FIELD)
      <4>1. \E level : done = [g \in Domain(kept) |-> IF g = "manager_level" THEN level ELSE kept]
        BY <1>4, <3>1, Zenon DEF Completed
      <4>. QED
        BY <4>1
    <3>2. ManagerTasks => f = "manager_level"
      BY DEF ManagerTasks, Needs, ManagerNeeds, Fields, Create, ManagerCreate, In, InAs
    <3>. QED
      BY <1>8, <3>1, <3>2
  <2>2. DOMAIN done = (DOMAIN w \cup (Fields \cap Update[role].always)) \cap DOMAIN Edit[role]
    BY <1>4, <2>1 DEF Completed, Edited, Sent
  <2>3. /\ f \notin Update[role].required
        /\ \A g \in DOMAIN Create[role] : Create[role][g].relation = Create[role][f].relation => g = f
        /\ \E t \in Bounds[role] : t.relation = Create[role][f].relation /\ t.type \in {"one", "adapted"}
    <3>1. f \notin Update[role].required
      BY <1>0, <1>3, <1>8, <2>2, NeedsFitCreate DEF NeedsFit
    <3>2. <<role, f>> # <<"manager", "manager_level">>
      BY <2>1 DEF ManagerTasks, Fields, Create, ManagerCreate, InAs
    <3>. QED
      BY <1>0, <3>1, <3>2, NeedsFitCreate DEF NeedsFit
  <2>4. Fields = {f}
    BY <2>3 DEF Fields
  <2>5. PICK t \in Bounds[role] : t.relation = relation /\ t.type \in {"one", "adapted"}
    BY <2>3 DEF Fields
  <2>6. DOMAIN done = {}
    BY <1>5, <1>8, <2>4
  <2>. QED
    BY <1>0, <1>1, <1>2, <1>4, <2>1, <2>3, <2>4, <2>5, <2>6, BoundsCover
<1>. QED
  BY <1>7, <1>8
-----------------------------------------------------------------------------
\* Without a contest, one request is made from the rows as they are.
Alone ==
  <<role, relation>> \notin Contested =>
    \A c \in Clients : pending[c] # NoRequest =>
      pending[c].fresh /\ \A x \in Clients \ {c} : pending[x] = NoRequest

Creating == \E c \in Clients : pending[c] # NoRequest /\ pending[c].kind = "create"

\* What an edit does not have to name.
Extended == (Fields \cap Needs[role]) \ Update[role].required

\* An object that was created and not deleted has rows to extend, and a manager has a
\* level.
NInv ==
  /\ Alone
  /\ Extended # {} =>
       /\ deleted => \A c \in Clients : pending[c] = NoRequest
       /\ rows # {} \/ deleted \/ Creating
       /\ ManagerTasks => TargetsOf(rows, MANAGER_LEVEL_FIELD) # {} \/ deleted \/ Creating

\* Those are not the fields of classes, facets and IT systems, which are edited unread.
LEMMA ExtendedIsRead ==
  ASSUME role \in Roles, Extended # {}
  PROVE  role \notin {"class", "facet", "itsystem"}
BY NeedsFitCreate DEF NeedsFit, Extended

LEMMA ManagerLevelIsExtended ==
  ASSUME ManagerTasks
  PROVE  "manager_level" \in Extended /\ "manager_level" \in Fields \cap Needs[role]
BY DEF ManagerTasks, Extended, Fields, Create, ManagerCreate, InAs, Needs, ManagerNeeds,
       Update, ManagerUpdate, Input

LEMMA DeletedIsAlone ==
  ASSUME DeletedAlone, role \in Roles, "delete" \in Mutations[role], Extended # {}
  PROVE  <<role, relation>> \notin Contested
<1>1. PICK f : f \in Fields /\ f \in Needs[role]
  BY DEF Extended
<1>2. f \in DOMAIN Create[role] /\ Create[role][f].relation = relation
  BY <1>1 DEF Fields
<1>. QED
  BY <1>1, <1>2 DEF DeletedAlone

LEMMA NInvStays ==
  ASSUME UNCHANGED <<role, relation>>
  PROVE  Extended' = Extended /\ (ManagerTasks' <=> ManagerTasks)
BY DEF Extended, Fields, ManagerTasks

\* A request to create the object is one, whatever stands for none.
LEMMA CreationIsARequest ==
  ASSUME role \in Roles, NEW w \in Wish, DOMAIN w = Fields, NEW from \in Days, NEW to \in Days, from =< to
  PROVE  Request("create", w, from, to, CreateRows(w, from, to)) # NoRequest
<1>. DEFINE payload == CreateRows(w, from, to)
<1>1. payload \in SUBSET Row
  BY CreateRowsWellFormed DEF WellFormed
<1>2. w \in [Fields -> SUBSET (Targets \cup Gyldighed)]
  BY DEF Wish, Gyldighed
<1>3. w \in Wishes
  BY <1>2 DEF Wishes, Fields
<1>. HIDE DEF payload
<1>4. Request("create", w, from, to, payload) \in
        [kind: Kinds, wish: Wishes, from: Days, to: Days, payload: SUBSET Row, fresh: BOOLEAN]
  BY <1>1, <1>3 DEF Request, Kinds
<1>. QED
  BY <1>4, RequestAssumption DEF payload

LEMMA InitNInv == Init => NInv
<1>. SUFFICES ASSUME Init PROVE NInv
  OBVIOUS
<1>. DEFINE q(w, from, to) == Request("create", w, from, to, CreateRows(w, from, to))
<1>1. PICK c \in Clients :
        /\ role \in Roles /\ deleted = FALSE
        /\ \E from \in Days : \E to \in from .. Horizon, w \in Wish :
             DOMAIN w = Fields /\ pending = [x \in Clients |-> IF x = c THEN q(w, from, to) ELSE NoRequest]
  BY Zenon DEF Init
<1>2. PICK from \in Days : \E to \in from .. Horizon, w \in Wish :
        DOMAIN w = Fields /\ pending = [x \in Clients |-> IF x = c THEN q(w, from, to) ELSE NoRequest]
  BY <1>1
<1>3. PICK to \in from .. Horizon, w \in Wish :
        DOMAIN w = Fields /\ pending = [x \in Clients |-> IF x = c THEN q(w, from, to) ELSE NoRequest]
  BY <1>2
<1>4. to \in Days /\ from =< to
  BY DaysAreNumbers DEF Days
<1>5. q(w, from, to) # NoRequest
  BY <1>1, <1>3, <1>4, CreationIsARequest
<1>6. q(w, from, to).kind = "create" /\ q(w, from, to).fresh
  BY DEF Request
<1>7. \A x \in Clients : pending[x] = IF x = c THEN q(w, from, to) ELSE NoRequest
  BY <1>3
<1>. HIDE DEF q
<1>8. Alone
  BY <1>6, <1>7 DEF Alone
<1>9. Creating
  BY <1>5, <1>6, <1>7 DEF Creating
<1>. QED
  BY <1>1, <1>8, <1>9 DEF NInv

\* Another request is prepared, alone unless it is contested.
LEMMA PreparedNInv ==
  ASSUME IInv, NInv, UNCHANGED <<role, relation, rows, deleted>>, NEW c \in Clients, MayPrepare(c), NEW q,
         pending' = [pending EXCEPT ![c] = q], q.fresh
  PROVE  NInv'
<1>1. \A x \in Clients : pending'[x] = IF x = c THEN q ELSE pending[x]
  BY DEF IInv
<1>2. Alone'
  BY <1>1 DEF Alone, MayPrepare
<1>3. ~Creating
  BY DEF Creating, MayPrepare
<1>4. ASSUME Extended # {} PROVE ~deleted
  BY <1>4, ExtendedIsRead DEF MayPrepare, IInv
<1>5. Extended' = Extended /\ (ManagerTasks' <=> ManagerTasks)
  BY NInvStays
<1>6. TargetsOf(rows, MANAGER_LEVEL_FIELD)' = TargetsOf(rows, MANAGER_LEVEL_FIELD)
  BY DEF TargetsOf, Of
<1>. QED
  BY <1>2, <1>3, <1>4, <1>5, <1>6 DEF NInv

\* What a request leaves of an object has what is extended.
LEMMA StoredHas ==
  ASSUME DeletedAlone, IInv, MInv, NInv, NEW c \in Clients, Store(c), Extended # {}
  PROVE  /\ rows' # {}
         /\ ManagerTasks => TargetsOf(rows', MANAGER_LEVEL_FIELD) # {}
<1>. DEFINE q == pending[c]
<1>1. /\ q # NoRequest /\ ~deleted /\ role \in Roles
      /\ rows' = Merged(rows, q.payload)
  BY DEF Store, NInv, IInv
<1>2. Made(q) /\ WellFormed(q.payload) /\ (q.kind = "create" => rows = {})
  BY <1>1 DEF MInv, IInv, PendingOK
<1>3. q.kind # "create" => ~Creating
  BY <1>1 DEF MInv, Creating
<1>4. ManagerTasks => q.fresh
  <2>1. ManagerTasks => "delete" \in Mutations[role]
    BY DEF ManagerTasks, Mutations, ManagerMutations
  <2>. QED
    BY <1>1, <2>1, DeletedIsAlone DEF NInv, Alone
<1>. HIDE DEF q
<1>5. PICK R : /\ WellFormed(R) /\ (q.fresh => R = rows)
               /\ Creation(q) \/ Edition(q, R) \/ Termination(q) \/ Vacation(q, R)
  BY <1>2 DEF Made
<1>6. PICK f : f \in Fields \cap Needs[role]
  BY DEF Extended
<1>7. q.from \in q.from .. q.to
  <2>1. q.from \in Days /\ q.to \in Days /\ q.from =< q.to
    BY <1>2 DEF Made
  <2>2. q.from \in Int /\ q.to \in Int
    BY <2>1, DaysAreNumbers
  <2>. QED
    BY <2>1, <2>2
<1>8. rows' # {}
  <2>1. CASE Creation(q)
    <3>1. Reading(Merged(rows, q.payload), f, q.from) # {}
      BY <1>2, <1>6, <1>7, <2>1, CreationComplete DEF Creation
    <3>. QED
      BY <1>1, <3>1 DEF Reading, Effect, Of
  <2>2. CASE ~Creation(q)
    <3>1. rows # {}
      BY <1>1, <1>3, <1>5, <2>2 DEF NInv, Edition, Termination, Vacation
    <3>2. q.payload # {} => q.payload \subseteq Merged(rows, q.payload)
      BY DEF Merged
    <3>3. q.payload = {} => Merged(rows, q.payload) = rows
      BY DEF Merged
    <3>. QED
      BY <1>1, <3>1, <3>2, <3>3
  <2>. QED
    BY <2>1, <2>2
<1>9. ASSUME ManagerTasks PROVE TargetsOf(rows', MANAGER_LEVEL_FIELD) # {}
  <2>1. "manager_level" \in Fields \cap Needs[role]
    BY <1>9, ManagerLevelIsExtended
  <2>2. CASE Creation(q)
    <3>1. Reading(Merged(rows, q.payload), "manager_level", q.from) # {}
      BY <1>2, <1>7, <2>1, <2>2, CreationComplete DEF Creation
    <3>. QED
      BY <1>1, <1>9, <3>1, ReadingTargets
  <2>3. CASE Edition(q, R)
    <3>1. R = rows /\ rows # {} /\ TargetsOf(rows, MANAGER_LEVEL_FIELD) # {}
      BY <1>1, <1>3, <1>4, <1>5, <1>9, <2>3 DEF NInv, Edition
    <3>2. Reading(Merged(rows, q.payload), "manager_level", q.from) # {}
      BY <1>2, <1>7, <1>9, <2>1, <2>3, <3>1, EditionComplete
    <3>. QED
      BY <1>1, <1>9, <3>2, ReadingTargets
  <2>4. ~Termination(q) /\ ~Vacation(q, R)
    BY <1>9 DEF ManagerTasks, Termination, Vacation
  <2>. QED
    BY <1>5, <2>2, <2>3, <2>4
<1>. QED
  BY <1>8, <1>9

LEMMA StepNInv == DeletedAlone => (IInv /\ MInv /\ NInv /\ [Next]_vars => NInv')
<1>. SUFFICES ASSUME DeletedAlone, IInv, MInv, NInv, [Next]_vars PROVE NInv'
  OBVIOUS
<1>1. CASE UNCHANGED vars
  <2>1. /\ Extended' = Extended /\ (ManagerTasks' <=> ManagerTasks)
        /\ (Alone' <=> Alone) /\ (Creating' <=> Creating)
    BY <1>1, NInvStays DEF vars, Alone, Creating
  <2>2. TargetsOf(rows, MANAGER_LEVEL_FIELD)' = TargetsOf(rows, MANAGER_LEVEL_FIELD)
    BY <1>1 DEF vars, TargetsOf, Of
  <2>. QED
    BY <1>1, <2>1, <2>2 DEF NInv, vars
<1>2. ASSUME NEW c \in Clients, Prepare(c) PROVE NInv'
  <2>1. /\ UNCHANGED <<role, relation, rows, deleted>> /\ MayPrepare(c)
        /\ \E w, from, to, payload :
             pending' = [pending EXCEPT ![c] = Request("update", w, from, to, payload)]
    BY <1>2, ZenonT(60) DEF Prepare
  <2>2. PICK w, from, to, payload :
          pending' = [pending EXCEPT ![c] = Request("update", w, from, to, payload)]
    BY <2>1
  <2>3. Request("update", w, from, to, payload).fresh
    BY DEF Request
  <2>. QED
    BY <2>1, <2>2, <2>3, PreparedNInv
<1>3. ASSUME NEW c \in Clients, Terminate(c) PROVE NInv'
  <2>1. /\ UNCHANGED <<role, relation, rows, deleted>> /\ MayPrepare(c)
        /\ \E from \in Days : \E to \in from .. Horizon :
             pending' = [pending EXCEPT ![c] =
               Request("terminate", [state |-> {"Inaktiv"}], from, to,
                       {NewRow(from, to, Plain, "Inaktiv")})]
    BY <1>3 DEF Terminate
  <2>2. PICK w, from, to, payload :
          pending' = [pending EXCEPT ![c] = Request("terminate", w, from, to, payload)]
    <3>. DEFINE w == [state |-> {"Inaktiv"}]
    <3>. HIDE DEF w
    <3>1. \E from \in Days : \E to \in from .. Horizon :
            pending' = [pending EXCEPT ![c] =
              Request("terminate", w, from, to, {NewRow(from, to, Plain, "Inaktiv")})]
      BY <2>1 DEF w
    <3>. QED
      BY <3>1
  <2>3. Request("terminate", w, from, to, payload).fresh
    BY DEF Request
  <2>. QED
    BY <2>1, <2>2, <2>3, PreparedNInv
<1>4. ASSUME NEW c \in Clients, Vacate(c) PROVE NInv'
  <2>. DEFINE left(from) == {NewRow(from, Horizon, Plain, Empty)}
                              \cup Outside(On(Consolidated(rows), from), from, Horizon)
              none == [person |-> {}]
  <2>1. /\ UNCHANGED <<role, relation, rows, deleted>> /\ MayPrepare(c)
        /\ \E from \in Days : pending' =
             [pending EXCEPT ![c] = Request("vacate", none, from, Horizon, left(from))]
    BY <1>4 DEF Vacate
  <2>. HIDE DEF left, none
  <2>2. PICK w, from, to, payload :
          pending' = [pending EXCEPT ![c] = Request("vacate", w, from, to, payload)]
    BY <2>1
  <2>3. Request("vacate", w, from, to, payload).fresh
    BY DEF Request
  <2>. QED
    BY <2>1, <2>2, <2>3, PreparedNInv
<1>5. ASSUME NEW c \in Clients, Store(c) PROVE NInv'
  <2>1. /\ UNCHANGED <<role, relation>> /\ deleted' = FALSE
        /\ pending[c] # NoRequest /\ pending' = Stale(c)
    BY <1>5 DEF Store
  <2>2. /\ Extended' = Extended /\ (ManagerTasks' <=> ManagerTasks)
        /\ TargetsOf(rows, MANAGER_LEVEL_FIELD)' = TargetsOf(rows', MANAGER_LEVEL_FIELD)
    BY <2>1, NInvStays DEF TargetsOf, Of
  <2>3. Alone'
    BY <2>1 DEF NInv, Alone, Stale
  <2>. QED
    BY <1>5, <2>1, <2>2, <2>3, StoredHas DEF NInv
<1>6. ASSUME NEW c \in Clients, Delete(c) PROVE NInv'
  <2>1. /\ UNCHANGED <<role, relation>> /\ deleted' = TRUE /\ MayPrepare(c)
        /\ pending' = Stale(c) /\ "delete" \in Mutations[role] /\ role \in Roles
    BY <1>6 DEF Delete, IInv
  <2>2. Extended' = Extended
    BY <2>1, NInvStays
  <2>3. ASSUME <<role, relation>> \notin Contested PROVE \A x \in Clients : pending'[x] = NoRequest
    BY <2>1, <2>3 DEF MayPrepare, Stale
  <2>4. Alone'
    BY <2>1, <2>3 DEF Alone
  <2>. QED
    BY <2>1, <2>2, <2>3, <2>4, DeletedIsAlone DEF NInv
<1>. QED
  BY <1>1, <1>2, <1>3, <1>4, <1>5, <1>6 DEF Next
\* EditsComplete, of a request and of the rows after it is stored.
LEMMA StoredComplete ==
  ASSUME IInv, MInv, NInv, NEW c \in Clients, Store(c),
         pending[c].kind \in {"create", "update"}, pending[c].fresh,
         ~deleted, \A r \in rows : r.target # Empty,
         NEW f \in Fields \cap Needs[role], NEW d \in pending[c].from .. pending[c].to
  PROVE  Reading(rows', f, d) # {} \/ InGap(d)
<1>. DEFINE q == pending[c]
<1>1. /\ q # NoRequest /\ q.kind \in {"create", "update"} /\ q.fresh /\ role \in Roles
      /\ rows' = Merged(rows, q.payload) /\ d \in q.from .. q.to
  BY DEF Store, IInv
<1>2. Made(q) /\ WellFormed(q.payload) /\ (q.kind = "create" => rows = {})
  BY <1>1 DEF MInv, IInv, PendingOK
<1>3. q.kind # "create" => ~Creating
  BY <1>1 DEF MInv, Creating
<1>. HIDE DEF q
<1>4. Creation(q) \/ Edition(q, rows)
  BY <1>1, <1>2 DEF Made, Termination, Vacation
<1>5. CASE Creation(q)
  BY <1>1, <1>2, <1>5, CreationComplete DEF Creation
<1>6. CASE Edition(q, rows)
  <2>1. ~Creating
    BY <1>3, <1>6 DEF Edition
  <2>2. f \notin Update[role].required => rows # {}
    BY <2>1 DEF NInv, Extended
  <2>3. ManagerTasks => TargetsOf(rows, MANAGER_LEVEL_FIELD) # {}
    BY <2>1, ManagerLevelIsExtended DEF NInv
  <2>. QED
    BY <1>1, <1>2, <1>6, <2>2, <2>3, EditionComplete
<1>. QED
  BY <1>4, <1>5, <1>6

\* What a creation must name has a value on each day of an edit, those included that
\* are new to the object: because the edit names it, because the handler writes it in
\* any case, or because ensure_bounds extends the first or the last row to the edit
\* (mora/common.py; the create and update inputs of mora/graphapi/models.py).  An edit
\* that competes with a deletion can lose it.
THEOREM EditsAlwaysComplete == DeletedAlone => (Spec => EditsComplete)
<1>. DEFINE Step ==
       \A c \in Clients :
         /\ Stored(c) /\ pending[c].kind \in {"create", "update"} /\ pending[c].fresh
         /\ ~deleted /\ \A r \in rows : r.target # Empty
         => \A f \in Fields \cap Needs[role], d \in pending[c].from .. pending[c].to :
              Reading(rows', f, d) # {} \/ InGap(d)
<1>. SUFFICES ASSUME DeletedAlone PROVE Spec => EditsComplete
  OBVIOUS
<1>1. IInv /\ MInv /\ NInv /\ [Next]_vars => [Step]_vars
  BY StoredIsStored, StoredComplete
<1>2. Spec => []IInv /\ []MInv /\ []NInv
  <2>1. IInv /\ MInv /\ NInv /\ [Next]_vars => NInv'
    BY StepNInv
  <2>. QED
    BY <2>1, InitIInv, StepIInv, InitMade, StepMade, InitNInv, PTL DEF Spec
<1>. HIDE DEF Step
<1>3. Spec => [][Step]_vars
  BY <1>1, <1>2, PTL DEF Spec
<1>. QED
  BY <1>3 DEF EditsComplete, Step
==============================================================================
