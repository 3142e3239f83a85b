-------------------------------- MODULE MCGeoIP --------------------------------
(* An instance of GeoIP for TLC.                                           *)
EXTENDS GeoIP, TLC

CONSTANTS s1, j1, j2, f1, f2, f3, f4

OneSource == {s1}
TwoJobs == {j1, j2}
FourFiles == {f1, f2, f3, f4}
MCSymmetry == Permutations(Files)

\* Where the instance is smaller than its constants say: one lookup's mark is on
\* its way at a time, only j1 comes to its second try, and once downloads have
\* overlapped no Configure begins and nothing else fails.
Focus ==
    /\ Cardinality(marks) <= 1
    /\ ~At(j2, "retry")
    /\ overlapped # {} => faults = 0 /\ ~configuring
FocusSpec == Init /\ [][Next /\ Focus']_vars
=============================================================================
