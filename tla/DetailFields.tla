---------------------------- MODULE DetailFields -----------------------------
(***************************************************************************)
(* What each kind of detail (an engagement, a manager, an address, ...)    *)
(* keeps in which relation of its organisationfunktion object, as the six  *)
(* places that must agree on it say: the field tuples and field sets of    *)
(* mora/mapping.py, the handlers that create and edit (mora/service), the  *)
(* input models (mora/graphapi/models.py), the reading handlers (mora/     *)
(* handler/impl), the filters (mora/graphapi/resolvers.py) and the links   *)
(* and collections of the GraphQL types (mora/graphapi/collections).       *)
(* Fields that hold references to other objects, and the state; texts such *)
(* as names and user keys are left out.                                    *)
(***************************************************************************)

\* The objekttype of a row; many rows have none.
Plain == "plain"
AnyType == "any"

\* A FieldTuple: its relation, the objekttype it is filtered by, its type.
\* "adapted": a zero-to-many relation that is used as a zero-to-one.
ZeroToOne(name) == [relation |-> name, of |-> AnyType, type |-> "one"]
ZeroToMany(name) == [relation |-> name, of |-> AnyType, type |-> "many"]
Adapted(name, of) == [relation |-> name, of |-> of, type |-> "adapted"]

JOB_FUNCTION_FIELD == Adapted("opgaver", AnyType)
ORG_FUNK_TYPE_FIELD == ZeroToOne("organisatoriskfunktionstype")
ORG_FUNK_CLASSES_FIELD == ZeroToMany("tilknyttedeklasser")
ASSOCIATED_ORG_UNIT_FIELD == Adapted("tilknyttedeenheder", AnyType)
ASSOCIATED_FUNCTION_FIELD == Adapted("tilknyttedefunktioner", AnyType)
ENGAGEMENT_FIELD == Adapted("tilknyttedefunktioner", "engagement")
IT_USER_FIELD == Adapted("tilknyttedefunktioner", "it")
USER_FIELD == Adapted("tilknyttedebrugere", AnyType)
ADDRESS_TYPE_FIELD == ZeroToOne("organisatoriskfunktionstype")
KLE_ASPECT_FIELD == Adapted("opgaver", AnyType)
RESPONSIBILITY_FIELD == Adapted("opgaver", "lederansvar")
MANAGER_LEVEL_FIELD == Adapted("opgaver", "lederniveau")
VISIBILITY_FIELD == Adapted("opgaver", "synlighed")
SINGLE_ITSYSTEM_FIELD == Adapted("tilknyttedeitsystemer", AnyType)
EMPLOYEE_PERSON_FIELD == Adapted("tilknyttedepersoner", AnyType)
PRIMARY_FIELD == ZeroToOne("primaer")
ORG_UNIT_TYPE_FIELD == ZeroToOne("enhedstype")
ORG_UNIT_LEVEL_FIELD == ZeroToOne("niveau")
ORG_UNIT_HIERARCHY_FIELD == ZeroToMany("opmaerkning")
ORG_UNIT_TIME_PLANNING_FIELD == Adapted("opgaver", "tidsregistrering")
PARENT_FIELD == ZeroToOne("overordnet")
PARENT_CLASS_FIELD == ZeroToOne("overordnetklasse")
GYLDIGHED_FIELD == ZeroToOne("gyldighed")

\* The fields that an edit extends to its own period when it does not name
\* them.  The state is always written.
ENGAGEMENT_FIELDS ==
  {JOB_FUNCTION_FIELD, ORG_FUNK_TYPE_FIELD, ASSOCIATED_ORG_UNIT_FIELD, USER_FIELD,
   PRIMARY_FIELD}
ASSOCIATION_FIELDS ==
  {JOB_FUNCTION_FIELD, ORG_FUNK_TYPE_FIELD, ORG_FUNK_CLASSES_FIELD, ASSOCIATED_ORG_UNIT_FIELD,
   ASSOCIATED_FUNCTION_FIELD, USER_FIELD, PRIMARY_FIELD, SINGLE_ITSYSTEM_FIELD}
ROLE_FIELDS ==
  {ORG_FUNK_TYPE_FIELD, ASSOCIATED_ORG_UNIT_FIELD, ORG_FUNK_CLASSES_FIELD, USER_FIELD,
   ASSOCIATED_FUNCTION_FIELD}
\* Faulty variant of LEAVE_FIELDS: the person does not last as long as the edit.
LEAVE_FIELDS_PERSONLESS == {ORG_FUNK_TYPE_FIELD, ASSOCIATED_FUNCTION_FIELD}
LEAVE_FIELDS == {ORG_FUNK_TYPE_FIELD, ASSOCIATED_FUNCTION_FIELD, USER_FIELD}
MANAGER_FIELDS ==
  {ORG_FUNK_TYPE_FIELD, ASSOCIATED_ORG_UNIT_FIELD, USER_FIELD, RESPONSIBILITY_FIELD,
   MANAGER_LEVEL_FIELD, ASSOCIATED_FUNCTION_FIELD}
ORG_UNIT_FIELDS ==
  {ORG_UNIT_TYPE_FIELD, ORG_UNIT_TIME_PLANNING_FIELD, PARENT_FIELD, ORG_UNIT_LEVEL_FIELD,
   ORG_UNIT_HIERARCHY_FIELD}
OWNER_FIELDS == {ORG_FUNK_TYPE_FIELD, ASSOCIATED_ORG_UNIT_FIELD, USER_FIELD}
ITSYSTEM_FIELDS ==
  {ASSOCIATED_ORG_UNIT_FIELD, ASSOCIATED_FUNCTION_FIELD, USER_FIELD, SINGLE_ITSYSTEM_FIELD}
ADDRESS_FIELDS ==
  {ASSOCIATED_ORG_UNIT_FIELD, USER_FIELD, ADDRESS_TYPE_FIELD, VISIBILITY_FIELD}
KLE_FIELDS == {ORG_FUNK_TYPE_FIELD, KLE_ASPECT_FIELD, ASSOCIATED_ORG_UNIT_FIELD}
==============================================================================
