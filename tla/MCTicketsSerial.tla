--------------------------- MODULE MCTicketsSerial ---------------------------
(* Instances of TicketsSerial for TLC.                                     *)
EXTENDS TicketsSerial, TLC

CONSTANTS t1, t2, r1, r2, r3, r4, a1

OneTicket  == {t1}
TwoTickets == {t1, t2}
ThreeRequests == {r1, r2, r3}
FourRequests == {r1, r2, r3, r4}
OneAdmin == {a1}

RequestSymmetry == Permutations(Requests)
=============================================================================
