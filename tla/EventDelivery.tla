---------------------------- MODULE EventDelivery ----------------------------
(***************************************************************************)
(* The event queue with the integrations it is meant for, which docs/src/  *)
(* tech-docs/events.md tells to fetch "repeatedly, forever, for all your   *)
(* listeners", to process what they get and then to acknowledge it.        *)
(* Processing some events fails every time: the slots of Poison.           *)
(*                                                                         *)
(* This is the setting of the liveness properties.  Sends and maintenance  *)
(* are finite (Budget), because a queue ordered by priority owes nothing   *)
(* to a row that is overtaken forever.  The integration polls each         *)
(* listener at least once in every unit of time, and one unit is the       *)
(* shortest back-off: 3 minutes.                                           *)
(***************************************************************************)
EXTENDS EventQueue

CONSTANTS
  Poison,   \* slots whose processing always fails
  Budget    \* bound: sends and maintenance requests in a behaviour

ASSUME PoisonAssumption == Poison \subseteq Slot
ASSUME BudgetAssumption == Budget \in Nat

VARIABLES
  polled,   \* listeners polled since the clock last moved
  budget    \* sends and maintenance requests left

liveVars == <<vars, polled, budget>>

\* The listeners have been declared on the integration's start-up.
LiveInit ==
  /\ namespaces = MigratedNamespaces
  /\ listeners = {l \in Listener : namespaces[l.namespace] # NoNamespace}
  /\ declaring = {}
  /\ overtaken = {}
  /\ events = [sl \in Slot |-> NoEvent]
  /\ tokens = {}
  /\ unseen = {}
  /\ polled = {}
  /\ budget = Budget

\* One event_fetch; its answer reaches the integration.
Poll(l) ==
  /\ l \in listeners
  /\ tokens = {}
  /\ IF ReadyOf(l) = {}
     THEN l \notin polled /\ UNCHANGED vars
     ELSE \E sl \in Slot : FetchRow(l, sl) /\ tokens' = {TokenFor(sl)}
  /\ polled' = polled \cup {l}
  /\ UNCHANGED budget

\* The answer is lost on the way, which costs the row a back-off.
PollLost(l) ==
  /\ l \in listeners
  /\ tokens = {} /\ ReadyOf(l) # {} /\ budget > 0
  /\ \E sl \in Slot : FetchRow(l, sl) /\ tokens' = tokens
  /\ polled' = polled \cup {l}
  /\ budget' = budget - 1

Process(t) ==
  /\ t.slot \notin Poison
  /\ Handle(t)
  /\ UNCHANGED <<polled, budget>>

Fail(t) ==
  /\ t.slot \in Poison
  /\ Forget(t)
  /\ UNCHANGED <<polled, budget>>

\* The acknowledgement is repeated until it is answered.
Finish(t) ==
  /\ Acknowledge(t) /\ tokens' = tokens \ {t}
  /\ UNCHANGED <<polled, budget>>

Work == \E t \in tokens : Process(t) \/ Fail(t) \/ Finish(t)

Request ==
  /\ budget > 0
  /\ Sending \/ Maintenance
  /\ budget' = budget - 1
  /\ UNCHANGED polled

\* Time passes once every listener was polled and the event in hand is done.
Pass ==
  /\ tokens = {}
  /\ listeners \subseteq polled
  /\ Tick
  /\ polled' = {}
  /\ UNCHANGED budget

LiveNext ==
  \/ \E l \in Listener : Poll(l) \/ PollLost(l)
  \/ Work
  \/ Request
  \/ Pass

\* The integration keeps polling and working, and the clock keeps running;
\* nobody is obliged to send.
LiveSpec ==
  /\ LiveInit /\ [][LiveNext]_liveVars
  /\ \A l \in Listener : WF_liveVars(Poll(l))
  /\ WF_liveVars(Work)
  /\ WF_liveVars(Pass)

\* Every announcement is eventually processed, although an event that can
\* never be processed is ahead of it in the order of event_fetch: the back-off
\* of the failing event lets the others through.
PoisonDoesNotBlock ==
  \A sl \in Slot \ Poison : sl \in unseen ~> sl \notin unseen

\* What is processed leaves the table: at the end only failing events remain.
QueueDrains == <>[](Rows \subseteq Poison)

\* A failing event keeps being retried: the back-off never gives it up.
PoisonIsRetried ==
  \A sl \in Slot : (sl \in Rows) ~> (sl \notin Rows \/ (\E t \in tokens : t.slot = sl))
==============================================================================
