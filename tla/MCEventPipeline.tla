--------------------------- MODULE MCEventPipeline ---------------------------
\* The instance of EventPipeline for TLC.
EXTENDS EventPipeline
==============================================================================
