------------------------------ MODULE MCSpeedTest ------------------------------
(* An instance of SpeedTest for TLC.                                       *)
EXTENDS SpeedTest, TLC

CONSTANTS s1, s2, c1, c2, e1

TwoSessions == {s1, s2}
TwoCustomers == {c1, c2}
OneEndpoint == {e1}
MCSymmetry == Permutations(Sessions) \cup Permutations(Customers)
=============================================================================
