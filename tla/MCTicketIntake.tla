---------------------------- MODULE MCTicketIntake ----------------------------
(* Instances of TicketIntake for TLC.                                      *)
EXTENDS TicketIntake, TLC

CONSTANTS r1, r2, r3, c1, c2, f1

ThreeRequests == {r1, r2, r3}
TwoRequests == {r1, r2}
OneCustomer == {c1}
TwoCustomers == {c1, c2}
OneField == {f1}

RequestSymmetry == Permutations(Requests)
=============================================================================
