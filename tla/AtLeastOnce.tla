----------------------------- MODULE AtLeastOnce -----------------------------
(***************************************************************************)
(* What the event system promises an integration: "The event system       *)
(* guarantees at-least-once delivery" (docs/src/tech-docs/events.md).      *)
(*                                                                         *)
(* A slot is one subject as one listener sees it.  A slot is owed while    *)
(* something has happened to the subject that the integration has not yet  *)
(* looked at, and retained while the system still intends to hand it out.  *)
(* The promise is that what is owed is retained; the integration may be    *)
(* shown a slot any number of times.                                       *)
(***************************************************************************)
CONSTANT Slots

VARIABLES
  owed,      \* slots with a change the integration has not handled
  retained   \* slots the system will still hand out

aloVars == <<owed, retained>>

ALOTypeOK == owed \subseteq Slots /\ retained \subseteq Slots

ALOInit == owed = {} /\ retained = {}

\* Something happened to all the slots of S at once.
Announce(S) ==
  /\ owed' = owed \cup S
  /\ retained' = retained \cup S

\* The integration looks at the subject, perhaps not for the first time.
Consume(slot) ==
  /\ owed' = owed \ {slot}
  /\ UNCHANGED retained

\* The system stops handing out a slot for which nothing is owed.
Retire(slot) ==
  /\ slot \in retained \ owed
  /\ retained' = retained \ {slot}
  /\ UNCHANGED owed

\* The subscription of the slots of S is cancelled on request.
Cancel(S) ==
  /\ owed' = owed \ S
  /\ retained' = retained \ S

ALONext ==
  \/ \E S \in SUBSET Slots : Announce(S) \/ Cancel(S)
  \/ \E slot \in Slots : Consume(slot) \/ Retire(slot)

ALOSpec == ALOInit /\ [][ALONext]_aloVars

\* At-least-once: the system never forgets a slot that is owed.
NothingForgotten == owed \subseteq retained
==============================================================================
