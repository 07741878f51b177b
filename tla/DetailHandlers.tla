--------------------------- MODULE DetailHandlers ----------------------------
(***************************************************************************)
(* The handlers of the kinds of objects (mora/service/*.py; of classes,    *)
(* facets and IT systems, mora/graphapi/models.py), and what reads them    *)
(* back (mora/handler/impl/*.py), each as a table from fields to relations.*)
(* The state, gyldighed (or publiceret), is one more field.                *)
(*                                                                         *)
(*   Create    the relation, and the objekttype, prepare_create writes     *)
(*   Edit      the field tuple, and the objekttype, prepare_edit writes    *)
(*   Bounds    the fields that an edit extends when it does not name them  *)
(*   Reads     the field tuple that the reading handler reads              *)
(*   Relevant  the relations at whose changes the reading handler cuts an  *)
(*             object into periods                                         *)
(*   StoredAs  the function_key of its handler, or the object type of a    *)
(*             kind that has one of its own                                *)
(***************************************************************************)
EXTENDS DetailFields, DetailInputs

In(name) == [relation |-> name, of |-> Plain]
InAs(name, of) == [relation |-> name, of |-> of]
To(tuple) == [tuple |-> tuple, of |-> Plain]
ToAs(tuple, of) == [tuple |-> tuple, of |-> of]
----------------------------------------------------------------------------
EngagementCreate ==
  [state |-> In("gyldighed"),
   person |-> In("tilknyttedebrugere"), org_unit |-> In("tilknyttedeenheder"),
   job_function |-> In("opgaver"), engagement_type |-> In("organisatoriskfunktionstype"),
   primary |-> In("primaer")]
EngagementEdit ==
  [state |-> To(GYLDIGHED_FIELD),
   org_unit |-> To(ASSOCIATED_ORG_UNIT_FIELD), job_function |-> To(JOB_FUNCTION_FIELD),
   engagement_type |-> To(ORG_FUNK_TYPE_FIELD), primary |-> To(PRIMARY_FIELD)]
EngagementReads ==
  [state |-> GYLDIGHED_FIELD,
   person |-> USER_FIELD, org_unit |-> ASSOCIATED_ORG_UNIT_FIELD,
   job_function |-> JOB_FUNCTION_FIELD, engagement_type |-> ORG_FUNK_TYPE_FIELD,
   primary |-> PRIMARY_FIELD]

AssociationCreate ==
  [state |-> In("gyldighed"),
   person |-> In("tilknyttedebrugere"), org_unit |-> In("tilknyttedeenheder"),
   association_type |-> In("organisatoriskfunktionstype"), primary |-> In("primaer"),
   substitute |-> In("tilknyttedefunktioner"), trade_union |-> In("tilknyttedeklasser")]
\* In the service API a type that allows no substitute clears the substitute when it
\* is named: on those rows, an edit that names no substitute.  GraphQL always sends
\* the substitute.
AssociationEdit ==
  [state |-> To(GYLDIGHED_FIELD),
   person |-> To(USER_FIELD), org_unit |-> To(ASSOCIATED_ORG_UNIT_FIELD),
   association_type |-> To(ORG_FUNK_TYPE_FIELD), primary |-> To(PRIMARY_FIELD),
   substitute |-> To(ASSOCIATED_FUNCTION_FIELD), trade_union |-> To(ORG_FUNK_CLASSES_FIELD)]
\* Of an association whose type allows substitutes.
AssociationReads ==
  [state |-> GYLDIGHED_FIELD,
   person |-> USER_FIELD, org_unit |-> ASSOCIATED_ORG_UNIT_FIELD,
   association_type |-> ORG_FUNK_TYPE_FIELD, primary |-> PRIMARY_FIELD,
   substitute |-> ASSOCIATED_FUNCTION_FIELD, trade_union |-> ORG_FUNK_CLASSES_FIELD]

\* The handler is that of the associations.
ITAssociationCreate ==
  [state |-> In("gyldighed"),
   person |-> In("tilknyttedebrugere"), org_unit |-> In("tilknyttedeenheder"),
   it_user |-> In("tilknyttedeitsystemer"), job_function |-> In("tilknyttedefunktioner"),
   primary |-> In("primaer")]
ITAssociationEdit ==
  [state |-> To(GYLDIGHED_FIELD),
   org_unit |-> To(ASSOCIATED_ORG_UNIT_FIELD), it_user |-> To(SINGLE_ITSYSTEM_FIELD),
   job_function |-> To(ASSOCIATED_FUNCTION_FIELD), primary |-> To(PRIMARY_FIELD)]
ITAssociationReads ==
  [state |-> GYLDIGHED_FIELD,
   person |-> USER_FIELD, org_unit |-> ASSOCIATED_ORG_UNIT_FIELD,
   it_user |-> SINGLE_ITSYSTEM_FIELD, job_function |-> ASSOCIATED_FUNCTION_FIELD,
   primary |-> PRIMARY_FIELD]

ManagerCreate ==
  [state |-> In("gyldighed"),
   person |-> In("tilknyttedebrugere"), org_unit |-> In("tilknyttedeenheder"),
   manager_type |-> In("organisatoriskfunktionstype"),
   manager_level |-> InAs("opgaver", "lederniveau"),
   responsibility |-> InAs("opgaver", "lederansvar"),
   engagement |-> InAs("tilknyttedefunktioner", "engagement")]
ManagerEdit ==
  [state |-> To(GYLDIGHED_FIELD),
   person |-> To(USER_FIELD), org_unit |-> To(ASSOCIATED_ORG_UNIT_FIELD),
   manager_type |-> To(ORG_FUNK_TYPE_FIELD),
   manager_level |-> ToAs(MANAGER_LEVEL_FIELD, "lederniveau"),
   responsibility |-> ToAs(RESPONSIBILITY_FIELD, "lederansvar"),
   engagement |-> ToAs(ASSOCIATED_FUNCTION_FIELD, "engagement")]
ManagerReads ==
  [state |-> GYLDIGHED_FIELD,
   person |-> USER_FIELD, org_unit |-> ASSOCIATED_ORG_UNIT_FIELD,
   manager_type |-> ORG_FUNK_TYPE_FIELD, manager_level |-> MANAGER_LEVEL_FIELD,
   responsibility |-> RESPONSIBILITY_FIELD, engagement |-> ASSOCIATED_FUNCTION_FIELD]

LeaveCreate ==
  [state |-> In("gyldighed"),
   person |-> In("tilknyttedebrugere"), leave_type |-> In("organisatoriskfunktionstype"),
   engagement |-> In("tilknyttedefunktioner")]
LeaveEdit ==
  [state |-> To(GYLDIGHED_FIELD),
   person |-> To(USER_FIELD), leave_type |-> To(ORG_FUNK_TYPE_FIELD),
   engagement |-> To(ASSOCIATED_FUNCTION_FIELD)]
LeaveReads ==
  [state |-> GYLDIGHED_FIELD,
   person |-> USER_FIELD, leave_type |-> ORG_FUNK_TYPE_FIELD,
   engagement |-> ASSOCIATED_FUNCTION_FIELD]

AddressCreate ==
  [state |-> In("gyldighed"),
   person |-> In("tilknyttedebrugere"), org_unit |-> In("tilknyttedeenheder"),
   address_type |-> In("organisatoriskfunktionstype"),
   visibility |-> InAs("opgaver", "synlighed"),
   engagement |-> InAs("tilknyttedefunktioner", "engagement"),
   ituser |-> InAs("tilknyttedefunktioner", "it")]
\* The type and the visibility of an update that brings a value; without one
\* both are ignored.
AddressEdit ==
  [state |-> To(GYLDIGHED_FIELD),
   person |-> To(USER_FIELD), org_unit |-> To(ASSOCIATED_ORG_UNIT_FIELD),
   address_type |-> To(ADDRESS_TYPE_FIELD),
   visibility |-> ToAs(VISIBILITY_FIELD, "synlighed"),
   engagement |-> ToAs(ASSOCIATED_FUNCTION_FIELD, "engagement"),
   ituser |-> ToAs(ASSOCIATED_FUNCTION_FIELD, "it")]
AddressReads ==
  [state |-> GYLDIGHED_FIELD,
   person |-> USER_FIELD, org_unit |-> ASSOCIATED_ORG_UNIT_FIELD,
   address_type |-> ADDRESS_TYPE_FIELD, visibility |-> VISIBILITY_FIELD,
   engagement |-> ENGAGEMENT_FIELD, ituser |-> IT_USER_FIELD]

ITUserCreate ==
  [state |-> In("gyldighed"),
   person |-> In("tilknyttedebrugere"), org_unit |-> In("tilknyttedeenheder"),
   itsystem |-> In("tilknyttedeitsystemer"),
   engagements |-> InAs("tilknyttedefunktioner", "engagement"), primary |-> In("primaer")]
ITUserEdit ==
  [state |-> To(GYLDIGHED_FIELD),
   person |-> To(USER_FIELD), org_unit |-> To(ASSOCIATED_ORG_UNIT_FIELD),
   itsystem |-> To(SINGLE_ITSYSTEM_FIELD),
   engagements |-> ToAs(ASSOCIATED_FUNCTION_FIELD, "engagement"), primary |-> To(PRIMARY_FIELD)]
ITUserReads ==
  [state |-> GYLDIGHED_FIELD,
   person |-> USER_FIELD, org_unit |-> ASSOCIATED_ORG_UNIT_FIELD,
   itsystem |-> SINGLE_ITSYSTEM_FIELD, engagements |-> ASSOCIATED_FUNCTION_FIELD,
   primary |-> PRIMARY_FIELD]

KLECreate ==
  [state |-> In("gyldighed"),
   org_unit |-> In("tilknyttedeenheder"), kle_aspects |-> In("opgaver"),
   kle_number |-> In("organisatoriskfunktionstype")]
KLEEdit ==
  [state |-> To(GYLDIGHED_FIELD),
   org_unit |-> To(ASSOCIATED_ORG_UNIT_FIELD), kle_aspects |-> To(KLE_ASPECT_FIELD),
   kle_number |-> To(ORG_FUNK_TYPE_FIELD)]
KLEReads ==
  [state |-> GYLDIGHED_FIELD,
   org_unit |-> ASSOCIATED_ORG_UNIT_FIELD, kle_aspects |-> KLE_ASPECT_FIELD,
   kle_number |-> ORG_FUNK_TYPE_FIELD]

OwnerCreate ==
  [state |-> In("gyldighed"),
   person |-> In("tilknyttedebrugere"), org_unit |-> In("tilknyttedeenheder"),
   owner |-> In("tilknyttedepersoner")]
OwnerEdit ==
  [state |-> To(GYLDIGHED_FIELD),
   person |-> To(USER_FIELD), org_unit |-> To(ASSOCIATED_ORG_UNIT_FIELD),
   owner |-> To(EMPLOYEE_PERSON_FIELD)]
OwnerReads ==
  [state |-> GYLDIGHED_FIELD,
   person |-> USER_FIELD, org_unit |-> ASSOCIATED_ORG_UNIT_FIELD,
   owner |-> EMPLOYEE_PERSON_FIELD]

RoleBindingCreate ==
  [state |-> In("gyldighed"),
   org_unit |-> In("tilknyttedeenheder"), ituser |-> In("tilknyttedefunktioner"),
   role |-> In("organisatoriskfunktionstype")]
RoleBindingEdit ==
  [state |-> To(GYLDIGHED_FIELD),
   org_unit |-> To(ASSOCIATED_ORG_UNIT_FIELD), ituser |-> To(ASSOCIATED_FUNCTION_FIELD),
   role |-> To(ORG_FUNK_TYPE_FIELD)]
RoleBindingReads ==
  [state |-> GYLDIGHED_FIELD,
   org_unit |-> ASSOCIATED_ORG_UNIT_FIELD, ituser |-> ASSOCIATED_FUNCTION_FIELD,
   role |-> ORG_FUNK_TYPE_FIELD]

OrganisationUnitCreate ==
  [state |-> In("gyldighed"), parent |-> In("overordnet"), org_unit_type |-> In("enhedstype"),
   org_unit_level |-> In("niveau"), org_unit_hierarchy |-> In("opmaerkning"),
   time_planning |-> InAs("opgaver", "tidsregistrering")]
OrganisationUnitEdit ==
  [state |-> To(GYLDIGHED_FIELD), parent |-> To(PARENT_FIELD),
   org_unit_type |-> To(ORG_UNIT_TYPE_FIELD), org_unit_level |-> To(ORG_UNIT_LEVEL_FIELD),
   org_unit_hierarchy |-> To(ORG_UNIT_HIERARCHY_FIELD),
   time_planning |-> ToAs(ORG_UNIT_TIME_PLANNING_FIELD, "tidsregistrering")]
OrganisationUnitReads ==
  [state |-> GYLDIGHED_FIELD, parent |-> PARENT_FIELD, org_unit_type |-> ORG_UNIT_TYPE_FIELD,
   org_unit_level |-> ORG_UNIT_LEVEL_FIELD, org_unit_hierarchy |-> ORG_UNIT_HIERARCHY_FIELD,
   time_planning |-> ORG_UNIT_TIME_PLANNING_FIELD]

\* to_registration of the inputs: an update writes what a creation writes.
ClassCreate ==
  [state |-> In("gyldighed"), facet |-> In("facet"), parent |-> In("overordnetklasse"),
   owner |-> In("ejer"), it_system |-> In("mapninger")]
ClassEdit ==
  [state |-> To(GYLDIGHED_FIELD), facet |-> To(ZeroToOne("facet")),
   parent |-> To(PARENT_CLASS_FIELD), owner |-> To(ZeroToOne("ejer")),
   it_system |-> To(ZeroToMany("mapninger"))]
ClassReads ==
  [state |-> GYLDIGHED_FIELD, facet |-> ZeroToOne("facet"), parent |-> PARENT_CLASS_FIELD,
   owner |-> ZeroToOne("ejer"), it_system |-> ZeroToMany("mapninger")]

FacetCreate == [state |-> In("gyldighed")]
FacetEdit == [state |-> To(GYLDIGHED_FIELD)]
FacetReads == [state |-> GYLDIGHED_FIELD]

ITSystemCreate == [state |-> In("gyldighed")]
ITSystemEdit == [state |-> To(GYLDIGHED_FIELD)]
ITSystemReads == [state |-> GYLDIGHED_FIELD]

EmployeeCreate == [state |-> In("gyldighed")]
EmployeeEdit == [state |-> To(GYLDIGHED_FIELD)]
EmployeeReads == [state |-> GYLDIGHED_FIELD]
----------------------------------------------------------------------------
\* HANDLERS_BY_ROLE_TYPE and the reading handlers' registry.
Create ==
  [engagement |-> EngagementCreate, association |-> AssociationCreate,
   itassociation |-> ITAssociationCreate, manager |-> ManagerCreate, leave |-> LeaveCreate,
   address |-> AddressCreate, ituser |-> ITUserCreate, kle |-> KLECreate,
   owner |-> OwnerCreate, rolebinding |-> RoleBindingCreate,
   org_unit |-> OrganisationUnitCreate, class |-> ClassCreate, facet |-> FacetCreate,
   itsystem |-> ITSystemCreate, employee |-> EmployeeCreate]
Edit ==
  [engagement |-> EngagementEdit, association |-> AssociationEdit,
   itassociation |-> ITAssociationEdit, manager |-> ManagerEdit, leave |-> LeaveEdit,
   address |-> AddressEdit, ituser |-> ITUserEdit, kle |-> KLEEdit, owner |-> OwnerEdit,
   rolebinding |-> RoleBindingEdit, org_unit |-> OrganisationUnitEdit, class |-> ClassEdit,
   facet |-> FacetEdit, itsystem |-> ITSystemEdit, employee |-> EmployeeEdit]
Bounds ==
  [engagement |-> ENGAGEMENT_FIELDS, association |-> ASSOCIATION_FIELDS,
   itassociation |-> ASSOCIATION_FIELDS, manager |-> MANAGER_FIELDS, leave |-> LEAVE_FIELDS,
   address |-> ADDRESS_FIELDS, ituser |-> ITSYSTEM_FIELDS, kle |-> KLE_FIELDS,
   owner |-> OWNER_FIELDS, rolebinding |-> ROLE_FIELDS, org_unit |-> ORG_UNIT_FIELDS,
   class |-> {}, facet |-> {}, itsystem |-> {}, employee |-> {}]
Reads ==
  [engagement |-> EngagementReads, association |-> AssociationReads,
   itassociation |-> ITAssociationReads, manager |-> ManagerReads, leave |-> LeaveReads,
   address |-> AddressReads, ituser |-> ITUserReads, kle |-> KLEReads, owner |-> OwnerReads,
   rolebinding |-> RoleBindingReads, org_unit |-> OrganisationUnitReads,
   class |-> ClassReads, facet |-> FacetReads, itsystem |-> ITSystemReads,
   employee |-> EmployeeReads]

Roles == DOMAIN Create

StoredAs ==
  [engagement |-> "Engagement", association |-> "Tilknytning", itassociation |-> "Tilknytning",
   manager |-> "Leder", leave |-> "Orlov", address |-> "Adresse", ituser |-> "IT-system",
   kle |-> "KLE", owner |-> "owner", rolebinding |-> "Rollebinding",
   org_unit |-> "organisationenhed", class |-> "klasse", facet |-> "facet",
   itsystem |-> "itsystem", employee |-> "bruger"]

\* Of the relations that are followed here.
OrgFunkRelevant ==
  {"gyldighed", "opgaver", "organisatoriskfunktionstype", "tilknyttedeenheder",
   "tilknyttedeklasser", "tilknyttedebrugere", "tilknyttedefunktioner",
   "tilknyttedeitsystemer", "tilknyttedepersoner", "primaer"}
OrganisationUnitRelevant ==
  {"gyldighed", "enhedstype", "opgaver", "overordnet", "niveau", "opmaerkning"}
ClassRelevant == {"gyldighed", "ejer", "facet", "mapninger", "overordnetklasse"}

Relevant ==
  [kind \in Roles |->
     CASE kind = "org_unit" -> OrganisationUnitRelevant
       [] kind = "class" -> ClassRelevant
       [] kind \in {"facet", "itsystem", "employee"} -> {"gyldighed"}
       [] OTHER -> OrgFunkRelevant]

\* Fields that hold several references at once.
Multiple ==
  {<<"manager", "responsibility">>, <<"kle", "kle_aspects">>, <<"ituser", "engagements">>}

\* The relations of which the database keeps one row at a time, and the state;
\* it keeps lists of the others.
NulTilEn ==
  {"gyldighed", "organisatoriskfunktionstype", "primaer", "enhedstype", "overordnet", "niveau",
   "facet", "overordnetklasse", "ejer"}
==============================================================================
