---------------------------- MODULE DetailInputs -----------------------------
(***************************************************************************)
(* What clients may ask for, per kind of object: the mutations there are   *)
(* (mora/graphapi/mutators.py) and their inputs (mora/graphapi/models.py,  *)
(* inputs.py).  Fields that hold references to other objects only.         *)
(*                                                                         *)
(*   Needs      the fields that a creation must name                       *)
(*   Update     the fields an update's input offers; those it requires;    *)
(*              those whose null reaches the handler; those that are sent  *)
(*              as null when they are left out                             *)
(*   Mutations  the mutations of the kind                                  *)
(***************************************************************************)

Input(offers, required, nullable, always) ==
  [offers |-> offers, required |-> required, nullable |-> nullable, always |-> always]

EngagementNeeds == {"person", "org_unit", "engagement_type", "job_function"}
EngagementUpdate ==
  Input({"person", "org_unit", "job_function", "engagement_type", "primary"}, {}, {}, {})
EngagementMutations == {"create", "update", "terminate", "delete"}

AssociationNeeds == {"person", "org_unit", "association_type"}
AssociationUpdate ==
  Input({"person", "org_unit", "association_type", "primary", "substitute", "trade_union"},
        {}, {"substitute"}, {"substitute"})
AssociationMutations == {"create", "update", "terminate"}

ITAssociationNeeds == {"person", "org_unit", "it_user", "job_function"}
ITAssociationUpdate == Input({"org_unit", "it_user", "job_function", "primary"}, {}, {}, {})
ITAssociationMutations == {"create", "update", "terminate"}

\* A manager's responsibilities may be an empty list, and the person missing.
ManagerNeeds == {"org_unit", "manager_type", "manager_level"}
ManagerUpdate ==
  Input({"person", "org_unit", "manager_type", "manager_level", "responsibility", "engagement"},
        {}, {"person", "engagement"}, {"person"})
ManagerMutations == {"create", "update", "terminate", "delete"}

LeaveNeeds == {"person", "engagement", "leave_type"}
LeaveUpdate == Input({"person", "leave_type", "engagement"}, {}, {}, {})
LeaveMutations == {"create", "update", "terminate"}

\* An address and an IT user have a person or a unit.
AddressNeeds == {"address_type"}
AddressUpdate ==
  Input({"person", "org_unit", "address_type", "visibility", "engagement", "ituser"}, {}, {}, {})
AddressMutations == {"create", "update", "terminate", "delete"}

ITUserNeeds == {"itsystem"}
ITUserUpdate ==
  Input({"person", "org_unit", "itsystem", "engagements", "primary"}, {}, {"engagements"}, {})
ITUserMutations == {"create", "update", "terminate", "delete"}

\* The list of aspects may be empty.
KLENeeds == {"org_unit", "kle_number"}
KLEUpdate == Input({"org_unit", "kle_aspects", "kle_number"}, {}, {}, {})
KLEMutations == {"create", "update", "terminate"}

OwnerNeeds == {}
OwnerUpdate == Input({"person", "org_unit", "owner"}, {}, {"owner"}, {"owner"})
OwnerMutations == {"create", "update", "terminate"}

RoleBindingNeeds == {"ituser", "role"}
RoleBindingUpdate == Input({"org_unit", "ituser", "role"}, {"ituser"}, {}, {})
RoleBindingMutations == {"create", "update", "terminate", "delete"}

\* A null level, hierarchy or time planning is ignored.
OrganisationUnitNeeds == {"org_unit_type"}
OrganisationUnitUpdate ==
  Input({"parent", "org_unit_type", "org_unit_level", "org_unit_hierarchy", "time_planning"},
        {}, {"parent"}, {})
OrganisationUnitMutations == {"create", "update", "terminate", "delete"}

\* A class is updated with the input of a creation.
ClassNeeds == {"facet"}
ClassUpdate == Input({"facet", "parent", "owner", "it_system"}, {"facet"}, {"parent"}, {"parent"})
ClassMutations == {"create", "update", "terminate", "delete"}

\* Facets and IT systems refer to nothing but the organisation, employees too.
FacetNeeds == {}
FacetUpdate == Input({}, {}, {}, {})
FacetMutations == {"create", "update", "terminate", "delete"}

ITSystemNeeds == {}
ITSystemUpdate == Input({}, {}, {}, {})
ITSystemMutations == {"create", "update", "terminate", "delete"}

\* The termination of an employee is that of its details.
EmployeeNeeds == {}
EmployeeUpdate == Input({}, {}, {}, {})
EmployeeMutations == {"create", "update", "delete"}
----------------------------------------------------------------------------
Needs ==
  [engagement |-> EngagementNeeds, association |-> AssociationNeeds,
   itassociation |-> ITAssociationNeeds, manager |-> ManagerNeeds, leave |-> LeaveNeeds,
   address |-> AddressNeeds, ituser |-> ITUserNeeds, kle |-> KLENeeds, owner |-> OwnerNeeds,
   rolebinding |-> RoleBindingNeeds, org_unit |-> OrganisationUnitNeeds,
   class |-> ClassNeeds, facet |-> FacetNeeds, itsystem |-> ITSystemNeeds,
   employee |-> EmployeeNeeds]
Update ==
  [engagement |-> EngagementUpdate, association |-> AssociationUpdate,
   itassociation |-> ITAssociationUpdate, manager |-> ManagerUpdate, leave |-> LeaveUpdate,
   address |-> AddressUpdate, ituser |-> ITUserUpdate, kle |-> KLEUpdate,
   owner |-> OwnerUpdate, rolebinding |-> RoleBindingUpdate,
   org_unit |-> OrganisationUnitUpdate, class |-> ClassUpdate, facet |-> FacetUpdate,
   itsystem |-> ITSystemUpdate, employee |-> EmployeeUpdate]
Mutations ==
  [engagement |-> EngagementMutations, association |-> AssociationMutations,
   itassociation |-> ITAssociationMutations, manager |-> ManagerMutations,
   leave |-> LeaveMutations, address |-> AddressMutations, ituser |-> ITUserMutations,
   kle |-> KLEMutations, owner |-> OwnerMutations, rolebinding |-> RoleBindingMutations,
   org_unit |-> OrganisationUnitMutations, class |-> ClassMutations,
   facet |-> FacetMutations, itsystem |-> ITSystemMutations, employee |-> EmployeeMutations]
==============================================================================
