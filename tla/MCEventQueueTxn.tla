--------------------------- MODULE MCEventQueueTxn ---------------------------
(***************************************************************************)
(* The instance of EventQueueTxn for TLC: two workers race for the rows of *)
(* one listener while an emitter announces their subjects.                 *)
(***************************************************************************)
EXTENDS EventQueueTxn, TLC

\* Workers, emitters and subjects are interchangeable; identifiers are not,
\* because they are chosen.
Interchangeable == Permutations(Workers) \cup Permutations(Emitters) \cup Permutations(Subjects)
==============================================================================
