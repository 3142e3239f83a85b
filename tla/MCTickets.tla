------------------------------ MODULE MCTickets ------------------------------
(* Instances of Tickets for TLC.                                           *)
EXTENDS Tickets, TLC

CONSTANTS t1, t2, r1, r2, r3, a1

OneTicket  == {t1}
TwoTickets == {t1, t2}
OneRequest == {r1}
TwoRequests == {r1, r2}
ThreeRequests == {r1, r2, r3}
OneAdmin == {a1}

\* Requests differ by name only.
RequestSymmetry == Permutations(Requests)

\* Where the instance is smaller than its constants say: t2 starts as
\* resolved and is touched by cron runs alone, t1 by any request, and requests arrive
\* in the order of their names.
Focus ==
    /\ \A r \in Requests : req[r].t = t2 => req[r].kind = "cron"
    /\ req[r2].kind # NULL => req[r1].kind # NULL

FocusSpec ==
    /\ Init /\ ticket[t2].status = "resolved"
    /\ [][Next /\ Focus']_vars
    /\ \A r \in Requests : WF_vars(Step(r))
=============================================================================
