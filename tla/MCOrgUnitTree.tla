--------------------------- MODULE MCOrgUnitTree -----------------------------
(***************************************************************************)
(* Instances of OrgUnitTree for TLC.  Units and clients are                *)
(* interchangeable; days are not.                                          *)
(***************************************************************************)
EXTENDS OrgUnitTree, TLC

Interchangeable == Permutations(Units) \cup Permutations(Clients)
Today == {0}
AnyDay == Days
FirstAndLast == {0, Horizon}
==============================================================================
