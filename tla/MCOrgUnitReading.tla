--------------------------- MODULE MCOrgUnitReading --------------------------
\* An instance of OrgUnitReading for TLC.  The units are their UUIDs' ranks.
EXTENDS OrgUnitReading

MCUnits == 1 .. 3
MCRank == [u \in Units |-> u]
Now == {0}
==============================================================================
