----------------------------- MODULE DetailLists -----------------------------
(***************************************************************************)
(* How an object is found and read for a period of time.  GraphQL asks for *)
(* any period; the service API for what is past, present or future, of a   *)
(* person or a unit.  The rows outside the period are left out before the  *)
(* object is cut, so it is cut with less than all of its rows.             *)
(*                                                                         *)
(* An object is read only while it is active, and that is said by rows of  *)
(* its own: a filter asks for an active row and for a row of the relation, *)
(* each somewhere in the period.                                           *)
(*                                                                         *)
(* Time is finer than a day: an instant is midnight, a later time of the   *)
(* day, or a moment after one of them.                                     *)
(***************************************************************************)
EXTENDS Details

Midnight(d) == 3 * d
Day(instant) == instant \div 3
Times == {i \in 0 .. 3 * (Horizon + 1) - 1 : i % 3 # 2}

Beginning == -1
Forever == Midnight(Horizon + 1)

Validities == {"past", "present", "future"}

\* validity_tuple: the period from an instant up to another.
Window(validity, now) ==
  CASE validity = "past" -> [from |-> Beginning, to |-> now]
    [] validity = "present" -> [from |-> now, to |-> now + 1]
    [] validity = "future" -> [from |-> now, to |-> Forever]

\* A query without dates is about a moment.
Moments == {Window("present", now) : now \in Times}

\* get_date_interval: a period without an end is a moment, too.
GraphQLWindows ==
  Moments
    \cup UNION {{[from |-> Midnight(d), to |-> Midnight(e + 1)] : e \in d .. Horizon} : d \in Days}

\* The days of a period.
Touched(w) == {d \in Days : Midnight(d) < w.to /\ w.from < Midnight(d + 1)}

\* The days on which the object can be active: what is followed says so, or else
\* they come and go with other rows.
Activities ==
  CASE relation = "gyldighed" -> {{d \in Days : "Aktiv" \in Reading(rows, "state", d)}}
    [] relation # "gyldighed" -> IF deleted THEN {{}} ELSE SUBSET Days

\* The filters ask for rows that overlap the period.
Overlaps(r, w) == Midnight(r.from) < w.to /\ w.from < Midnight(r.to + 1)

\* _trim_virkninger: a row that begins when the period ends is kept.
Kept(R, w) == {r \in R : Midnight(r.from) =< w.to /\ w.from < Midnight(r.to + 1)}

\* get_objects_direct: what of the object is read for a period.
Fetched(w) == Kept(Consolidated(rows), w)

\* Faulty variant of IsRangeRelevant: what ends with the past has not ended.
IsRangeRelevantOpen(validity, w, period) ==
  IF validity = "present"
  THEN \E d \in period : Midnight(d) < w.to /\ w.from < Midnight(d + 1)
  ELSE \A d \in period : w.from < Midnight(d) /\ Midnight(d + 1) < w.to

\* is_range_relevant: the present is what overlaps, the past what has ended and
\* the future what has not begun.
IsRangeRelevant(validity, w, period) ==
  IF validity = "present"
  THEN \E d \in period : Midnight(d) < w.to /\ w.from < Midnight(d + 1)
  ELSE \A d \in period : w.from < Midnight(d) /\ Midnight(d + 1) =< w.to

\* The days of a period around a day on which the object is active without a break.
ActivePeriod(kept, active, d) ==
  {e \in Period(kept, d) : Least(d, e) .. Greatest(d, e) \subseteq active}

\* get_effects of what was kept: the periods that are returned.
\* __async_get_mo_object_from_effect: those that are not active are left out.
Listed(kept, active, validity, w) ==
  {period \in {ActivePeriod(kept, active, d) : d \in active} :
     IsRangeRelevant(validity, w, period)}

\* What the object has in a period.
Value(kept, f, period) == Reading(kept, f, CHOOSE d \in period : TRUE)
----------------------------------------------------------------------------
\* What an argument of the filter finds the object by: references of the field's
\* objekttype, since targets of different objekttypes are different objects.
\* _get_gyldighed_clause: on some day of the period the object is active.
Found(resolver, a, w, active) ==
  IF \/ resolver.objects # StoredAs[role] \/ resolver.filter[a] # relation
     \/ active \cap Touched(w) = {}
  THEN {}
  ELSE {r.target : r \in {x \in rows :
          Overlaps(x, w) /\ x.of = Create[role][resolver.arguments[a]].of}} \ {Empty}

\* The resolver of the object, and its arguments that are about the fields of the
\* relation.
Asked == {resolver \in Resolvers : resolver.objects = StoredAs[role]}
Searched(resolver) == {a \in DOMAIN resolver.arguments : resolver.arguments[a] \in Fields}

\* Readers do not see the requests under way, and what was stored beside one that is
\* still under way could have been stored without it: what readers are told is
\* looked at when there is none.
Quiet == \A c \in Clients : pending[c] = NoRequest

\* A query for a period returns each of its days on which the object is active as
\* a query for all time does, though less of the object was at hand.  A filter
\* finds the object by every reference that it is returned with, and by no other
\* unless the object is active on some days of the period and not on others.
FiltersAgree ==
  Quiet =>
    \A w \in GraphQLWindows :
      LET kept == Fetched(w)
      IN  \A active \in Activities :
            LET listed == Listed(kept, active, "present", w)
                shown == active \cap Touched(w)
            IN  /\ \A f \in Fields, d \in shown :
                     \E p \in listed : d \in p /\ Value(kept, f, p) = Reading(rows, f, d)
                /\ \A resolver \in Asked : \A a \in Searched(resolver) :
                     LET found == Found(resolver, a, w, active)
                         returned == UNION {Value(kept, resolver.arguments[a], p) : p \in listed}
                     IN  /\ returned \subseteq found
                         /\ shown \in {{}, Touched(w)} => found = returned

\* The objects that another object lists now are those that are active and lead
\* back to it.
GraphQLListsAgree ==
  \A now \in Times, active \in Activities :
  \A list \in {x \in Collections : x.resolver \in Asked /\ x.argument \in Searched(x.resolver)} :
     LET f == list.resolver.arguments[list.argument]
     IN  Found(list.resolver, list.argument, Window("present", now), active) =
           IF <<f, list.of>> \in Links[role] /\ Day(now) \in active
           THEN Reading(rows, f, Day(now)) ELSE {}
----------------------------------------------------------------------------
\* The condition on a relation: a row of it overlaps the period and refers to one
\* of the targets.
Refers(targets, w) == \E r \in rows : r.target \in targets /\ Overlaps(r, w)

\* quick_search by what the list is of.
Matches(type, targets, w) == SEARCH_FIELDS[type] = relation /\ Refers(targets, w)

\* Scope.load: the calls of a request for lists of one kind are collected.
Batches == SUBSET Targets

\* ParameterValuesExtractor: the values of the relation in what was read, those
\* of other days of the period included.
ValuesIn(kept) == {r.target : r \in kept}

\* _load_loads: one search for the references of all calls, and each call is given
\* the objects that have its own among their values.
Answered(type, calls, t, w) == Matches(type, calls, w) /\ t \in ValuesIn(Fetched(w))

\* The periods of the object that a call is given.
Returned(type, calls, t, validity, now, active) ==
  LET w == Window(validity, now)
  IN  IF Answered(type, calls, t, w) THEN Listed(Fetched(w), active, validity, w) ELSE {}

\* What is past, present and future is together all there is: whenever an object
\* is active and has a person or a unit, one of the lists of that person or unit
\* tells so, in whatever batch it was asked for; and the present list has what is
\* active and has them now.
ServiceListsAgree ==
  \A list \in ServiceDetails, now \in Times :
    role \in list.kinds /\ ListedField[list.type] \in Fields =>
      LET f == ListedField[list.type]
      IN  \A calls \in Batches, active \in Activities : \A t \in calls :
            /\ \A d \in active : t \in Reading(rows, f, d) =>
                 \E validity \in Validities :
                   \E p \in Returned(list.type, calls, t, validity, now, active) :
                     d \in p /\ Value(Fetched(Window(validity, now)), f, p) = Reading(rows, f, d)
            /\ Returned(list.type, calls, t, "present", now, active) # {} <=>
                 Day(now) \in active /\ t \in Reading(rows, f, Day(now))

\* The argument that the addresses of a person or a unit are found by.
AddressArgument == [e |-> "employee", ou |-> "org_unit"]

\* filter_by_validity: the last day of a period counts from its midnight.
FilterByValidity(validity, now, period) ==
  CASE validity = "past" -> \A d \in period : Midnight(d) < now /\ d # Horizon
    [] validity = "present" -> TRUE
    [] validity = "future" -> \A d \in period : Midnight(d) > now

\* So it is for addresses, which are read with GraphQL and then filtered.
AddressListsAgree ==
  \A list \in AddressDetails, now \in Times :
    role \in list.kinds /\ ListedField[list.type] \in Fields =>
      LET f == ListedField[list.type]
      IN  \A active \in Activities : \A d \in active : \A t \in Reading(rows, f, d) :
            \E validity \in Validities :
              LET w == Window(validity, now)
                  kept == Fetched(w)
              IN  /\ t \in Found(AddressResolver, AddressArgument[list.type], w, active)
                  /\ \E p \in Listed(kept, active, "present", w) :
                       /\ FilterByValidity(validity, now, p)
                       /\ d \in p /\ Value(kept, f, p) = Reading(rows, f, d)

\* The lists of persons, units and other objects, in GraphQL and in the service
\* API, agree with what the listed objects, while they are active, say of themselves.
CollectionsAgree == Quiet => GraphQLListsAgree /\ ServiceListsAgree /\ AddressListsAgree
==============================================================================
