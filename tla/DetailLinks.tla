----------------------------- MODULE DetailLinks -----------------------------
(***************************************************************************)
(* How GraphQL finds objects and follows their references: the filters of  *)
(* mora/graphapi/filters.py and resolvers.py and the fields of the types   *)
(* in mora/graphapi/collections.                                           *)
(*                                                                         *)
(*   Arguments    of a filter: the field that each is about; those that    *)
(*                look for the objects that refer to this one are left out *)
(*   Filter       the relation that the predicate searches for the         *)
(*                argument, whatever the objekttype of the row             *)
(*   Resolver     a query: the objects it selects from, and its filter     *)
(*   Links        the kind of object that a field is resolved to           *)
(*   Collections  of another object: the kinds it lists, with the argument *)
(*                that the list is seeded with                             *)
(* GraphQL has one type and one filter for the two kinds of associations.   *)
(***************************************************************************)

EngagementArguments ==
  [employee |-> "person", org_unit |-> "org_unit", job_function |-> "job_function",
   engagement_type |-> "engagement_type"]
EngagementFilter ==
  [employee |-> "tilknyttedebrugere", org_unit |-> "tilknyttedeenheder",
   job_function |-> "opgaver", engagement_type |-> "organisatoriskfunktionstype"]
AssociationArguments ==
  [employee |-> "person", org_unit |-> "org_unit", association_type |-> "association_type"]
AssociationFilter ==
  [employee |-> "tilknyttedebrugere", org_unit |-> "tilknyttedeenheder",
   association_type |-> "organisatoriskfunktionstype"]
ManagerArguments ==
  [employee |-> "person", org_unit |-> "org_unit", responsibility |-> "responsibility",
   manager_type |-> "manager_type", engagement |-> "engagement"]
\* Faulty variant of ManagerFilter: responsibilities are looked for with the types.
ManagerFilterTypes ==
  [employee |-> "tilknyttedebrugere", org_unit |-> "tilknyttedeenheder",
   responsibility |-> "organisatoriskfunktionstype",
   manager_type |-> "organisatoriskfunktionstype", engagement |-> "tilknyttedefunktioner"]
ManagerFilter ==
  [employee |-> "tilknyttedebrugere", org_unit |-> "tilknyttedeenheder",
   responsibility |-> "opgaver", manager_type |-> "organisatoriskfunktionstype",
   engagement |-> "tilknyttedefunktioner"]
\* No leave has a unit: the handler writes none.
LeaveArguments == [employee |-> "person", org_unit |-> "org_unit"]
LeaveFilter == [employee |-> "tilknyttedebrugere", org_unit |-> "tilknyttedeenheder"]
AddressArguments ==
  [employee |-> "person", org_unit |-> "org_unit", address_type |-> "address_type",
   visibility |-> "visibility", engagement |-> "engagement", ituser |-> "ituser"]
AddressFilter ==
  [employee |-> "tilknyttedebrugere", org_unit |-> "tilknyttedeenheder",
   address_type |-> "organisatoriskfunktionstype", visibility |-> "opgaver",
   engagement |-> "tilknyttedefunktioner", ituser |-> "tilknyttedefunktioner"]
ITUserArguments ==
  [employee |-> "person", org_unit |-> "org_unit", itsystem |-> "itsystem",
   engagement |-> "engagements"]
ITUserFilter ==
  [employee |-> "tilknyttedebrugere", org_unit |-> "tilknyttedeenheder",
   itsystem |-> "tilknyttedeitsystemer", engagement |-> "tilknyttedefunktioner"]
KLEArguments == [org_unit |-> "org_unit"]
KLEFilter == [org_unit |-> "tilknyttedeenheder"]
OwnerArguments == [employee |-> "person", org_unit |-> "org_unit", owner |-> "owner"]
OwnerFilter ==
  [employee |-> "tilknyttedebrugere", org_unit |-> "tilknyttedeenheder",
   owner |-> "tilknyttedepersoner"]
RoleBindingArguments == [org_unit |-> "org_unit", ituser |-> "ituser", role |-> "role"]
RoleBindingFilter ==
  [org_unit |-> "tilknyttedeenheder", ituser |-> "tilknyttedefunktioner",
   role |-> "organisatoriskfunktionstype"]
OrganisationUnitArguments == [parent |-> "parent", hierarchy |-> "org_unit_hierarchy"]
OrganisationUnitFilter == [parent |-> "overordnet", hierarchy |-> "opmaerkning"]
ClassArguments ==
  [facet |-> "facet", parent |-> "parent", it_system |-> "it_system", owner |-> "owner"]
ClassFilter ==
  [facet |-> "facet", parent |-> "overordnetklasse", it_system |-> "mapninger", owner |-> "ejer"]

\* A resolver selects the objects stored under one name that the predicate of its
\* filter holds of, a page at a time, and loads them for the filter's dates.
Resolver(objects, arguments, filter) ==
  [objects |-> objects, arguments |-> arguments, filter |-> filter]

EngagementResolver == Resolver("Engagement", EngagementArguments, EngagementFilter)
AssociationResolver == Resolver("Tilknytning", AssociationArguments, AssociationFilter)
ManagerResolver == Resolver("Leder", ManagerArguments, ManagerFilter)
LeaveResolver == Resolver("Orlov", LeaveArguments, LeaveFilter)
AddressResolver == Resolver("Adresse", AddressArguments, AddressFilter)
ITUserResolver == Resolver("IT-system", ITUserArguments, ITUserFilter)
KLEResolver == Resolver("KLE", KLEArguments, KLEFilter)
OwnerResolver == Resolver("owner", OwnerArguments, OwnerFilter)
RoleBindingResolver == Resolver("Rollebinding", RoleBindingArguments, RoleBindingFilter)
OrganisationUnitResolver ==
  Resolver("organisationenhed", OrganisationUnitArguments, OrganisationUnitFilter)
ClassResolver == Resolver("klasse", ClassArguments, ClassFilter)
\* These have no relations to other objects.
FacetResolver == Resolver("facet", <<>>, <<>>)
ITSystemResolver == Resolver("itsystem", <<>>, <<>>)
EmployeeResolver == Resolver("bruger", <<>>, <<>>)

Resolvers ==
  {EngagementResolver, AssociationResolver, ManagerResolver, LeaveResolver, AddressResolver,
   ITUserResolver, KLEResolver, OwnerResolver, RoleBindingResolver, OrganisationUnitResolver,
   ClassResolver, FacetResolver, ITSystemResolver, EmployeeResolver}
----------------------------------------------------------------------------
\* The fields that are classes, and the other fields.
ClassesOf(fields) == fields \X {"class"}

EngagementClasses == ClassesOf({"job_function", "engagement_type", "primary"})
EngagementLinks == EngagementClasses \cup {<<"person", "employee">>, <<"org_unit", "org_unit">>}
AssociationClasses == ClassesOf({"association_type", "trade_union", "primary"})
AssociationLinks ==
  AssociationClasses
    \cup {<<"person", "employee">>, <<"org_unit", "org_unit">>, <<"substitute", "employee">>}
ITAssociationLinks ==
  ClassesOf({"job_function", "primary"})
    \cup {<<"person", "employee">>, <<"org_unit", "org_unit">>, <<"it_user", "ituser">>}
ManagerClasses == ClassesOf({"manager_type", "manager_level", "responsibility"})
ManagerLinks ==
  ManagerClasses
    \cup {<<"person", "employee">>, <<"org_unit", "org_unit">>, <<"engagement", "engagement">>}
LeaveLinks ==
  ClassesOf({"leave_type"}) \cup {<<"person", "employee">>, <<"engagement", "engagement">>}
AddressClasses == ClassesOf({"address_type", "visibility"})
AddressLinks ==
  AddressClasses
    \cup {<<"person", "employee">>, <<"org_unit", "org_unit">>, <<"engagement", "engagement">>,
          <<"ituser", "ituser">>}
ITUserClasses == ClassesOf({"primary"})
ITUserSystem == {<<"itsystem", "itsystem">>}
ITUserLinks ==
  ITUserClasses \cup ITUserSystem
    \cup {<<"person", "employee">>, <<"org_unit", "org_unit">>, <<"engagements", "engagement">>}
KLELinks == ClassesOf({"kle_number", "kle_aspects"}) \cup {<<"org_unit", "org_unit">>}
OwnerLinks == {<<"person", "employee">>, <<"org_unit", "org_unit">>, <<"owner", "employee">>}
RoleBindingLinks ==
  ClassesOf({"role"}) \cup {<<"org_unit", "org_unit">>, <<"ituser", "ituser">>}
OrganisationUnitClasses ==
  ClassesOf({"org_unit_type", "org_unit_level", "org_unit_hierarchy", "time_planning"})
OrganisationUnitLinks == OrganisationUnitClasses \cup {<<"parent", "org_unit">>}
\* The owner of a class is returned as it is.
ClassLinks ==
  ClassesOf({"parent"})
    \cup {<<"facet", "facet">>, <<"it_system", "itsystem">>, <<"owner", "uuid">>}

Links ==
  [engagement |-> EngagementLinks, association |-> AssociationLinks,
   itassociation |-> ITAssociationLinks,
   manager |-> ManagerLinks, leave |-> LeaveLinks, address |-> AddressLinks,
   ituser |-> ITUserLinks, kle |-> KLELinks, owner |-> OwnerLinks,
   rolebinding |-> RoleBindingLinks, org_unit |-> OrganisationUnitLinks,
   class |-> ClassLinks]
----------------------------------------------------------------------------
\* A list of an object: the resolver that it asks, and the argument that it is
\* seeded with.
Seeded(of, resolver, argument) == [of |-> of, resolver |-> resolver, argument |-> argument]

EmployeeEngagements == Seeded("employee", EngagementResolver, "employee")
EmployeeManagerRoles == Seeded("employee", ManagerResolver, "employee")
EmployeeAddresses == Seeded("employee", AddressResolver, "employee")
EmployeeLeaves == Seeded("employee", LeaveResolver, "employee")
EmployeeAssociations == Seeded("employee", AssociationResolver, "employee")
EmployeeITUsers == Seeded("employee", ITUserResolver, "employee")

OrganisationUnitChildren == Seeded("org_unit", OrganisationUnitResolver, "parent")
OrganisationUnitEngagements == Seeded("org_unit", EngagementResolver, "org_unit")
OrganisationUnitManagers == Seeded("org_unit", ManagerResolver, "org_unit")
OrganisationUnitOwners == Seeded("org_unit", OwnerResolver, "org_unit")
OrganisationUnitAddresses == Seeded("org_unit", AddressResolver, "org_unit")
OrganisationUnitLeaves == Seeded("org_unit", LeaveResolver, "org_unit")
OrganisationUnitAssociations == Seeded("org_unit", AssociationResolver, "org_unit")
OrganisationUnitITUsers == Seeded("org_unit", ITUserResolver, "org_unit")
OrganisationUnitKLEs == Seeded("org_unit", KLEResolver, "org_unit")

EngagementAddresses == Seeded("engagement", AddressResolver, "engagement")
EngagementITUsers == Seeded("engagement", ITUserResolver, "engagement")
ITUserAddresses == Seeded("ituser", AddressResolver, "ituser")
ITUserRoleBindings == Seeded("ituser", RoleBindingResolver, "ituser")
ClassChildren == Seeded("class", ClassResolver, "parent")
FacetClasses == Seeded("facet", ClassResolver, "facet")
ITSystemRoles == Seeded("itsystem", ClassResolver, "it_system")

Collections ==
  {EmployeeEngagements, EmployeeManagerRoles, EmployeeAddresses, EmployeeLeaves,
   EmployeeAssociations, EmployeeITUsers,
   OrganisationUnitChildren, OrganisationUnitEngagements, OrganisationUnitManagers,
   OrganisationUnitOwners, OrganisationUnitAddresses, OrganisationUnitLeaves,
   OrganisationUnitAssociations, OrganisationUnitITUsers, OrganisationUnitKLEs,
   EngagementAddresses, EngagementITUsers, ITUserAddresses, ITUserRoleBindings,
   ClassChildren, FacetClasses, ITSystemRoles}
----------------------------------------------------------------------------
\* The service API's lists of details of a person (e) and of a unit (ou): the
\* relation that is searched, and the field that the list is about.
SEARCH_FIELDS == [e |-> "tilknyttedebrugere", ou |-> "tilknyttedeenheder"]
ListedField == [e |-> "person", ou |-> "org_unit"]

\* The lists, and the kinds of objects in them; those of addresses are GraphQL's.
Detail(type, kinds) == [type |-> type, kinds |-> kinds]
Associations == {"association", "itassociation"}

AssociationsOfEmployee == Detail("e", Associations)
AssociationsOfUnit == Detail("ou", Associations)
EngagementsOfEmployee == Detail("e", {"engagement"})
EngagementsOfUnit == Detail("ou", {"engagement"})
ITUsersOfEmployee == Detail("e", {"ituser"})
ITUsersOfUnit == Detail("ou", {"ituser"})
KLEsOfUnit == Detail("ou", {"kle"})
LeavesOfEmployee == Detail("e", {"leave"})
ManagersOfEmployee == Detail("e", {"manager"})
ManagersOfUnit == Detail("ou", {"manager"})
OwnersOfEmployee == Detail("e", {"owner"})
OwnersOfUnit == Detail("ou", {"owner"})
AddressesOfEmployee == Detail("e", {"address"})
AddressesOfUnit == Detail("ou", {"address"})

ServiceDetails ==
  {AssociationsOfEmployee, AssociationsOfUnit, EngagementsOfEmployee, EngagementsOfUnit,
   ITUsersOfEmployee, ITUsersOfUnit, KLEsOfUnit, LeavesOfEmployee, ManagersOfEmployee,
   ManagersOfUnit, OwnersOfEmployee, OwnersOfUnit}
AddressDetails == {AddressesOfEmployee, AddressesOfUnit}
==============================================================================
