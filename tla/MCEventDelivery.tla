--------------------------- MODULE MCEventDelivery ---------------------------
\* One listener whose most urgent subject can never be processed.
EXTENDS EventDelivery

CONSTANTS Bad   \* the subject that always fails

MCPriorities == {1, 2}
MCIds == 1 .. 3
MCPoison == {sl \in Slot : sl[2] = Bad}
==============================================================================
