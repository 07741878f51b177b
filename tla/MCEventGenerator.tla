-------------------------- MODULE MCEventGenerator ---------------------------
\* The instance of EventGenerator for TLC whose writers may be slow.
EXTENDS EventGenerator
==============================================================================
