----------------------------- MODULE MCDetails -------------------------------
\* Instances of DetailLists for TLC.  References are interchangeable.
EXTENDS DetailLists, TLC

Interchangeable == Permutations(Targets) \cup Permutations(Clients)

\* Relations of which the database keeps one row at a time, and lists.
MCContested ==
  {<<"engagement", "primaer">>, <<"engagement", "gyldighed">>,
   <<"leave", "tilknyttedebrugere">>, <<"association", "tilknyttedefunktioner">>}

ASSUME MCDeletedAlone == DeletedAlone
==============================================================================
