--------------------------- MODULE MCThreadEvents ---------------------------
(* The custodians of MCCustodian, with one thread that is watched.         *)
EXTENDS MCCustodian, ThreadEvents

CONSTANTS t, u

\* The ordinary thread's end and suspension, the other one's resumption.
Watched == {<<t, "dead">>, <<t, "suspend">>, <<u, "resume">>}

\* Only the ordinary thread's end.
EndWatched == {<<t, "dead">>}
=============================================================================
