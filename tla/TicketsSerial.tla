---------------------------- MODULE TicketsSerial ----------------------------
(***************************************************************************)
(* Tickets under the assumption the handlers are written for: one request  *)
(* at a time, each shorter than a unit of the clock.  Statements still     *)
(* fail and the process still dies between any two of them.  Under this    *)
(* assumption, and only under it (see MovesAllowed), the handlers          *)
(* implement TicketContract.                                               *)
(***************************************************************************)
EXTENDS Tickets

Quiet == \A r \in Requests : ~InFlight(r)

SerialNext ==
    \/ Quiet /\ (Tick \/ \E r \in Requests : Arrive(r))
    \/ \E r \in Requests : Step(r) \/ StatementFails(r)
    \/ Crash

SerialSpec == Init /\ [][SerialNext]_vars

Abstract == INSTANCE TicketContract WITH
    row <- [t \in Tickets |-> [status        |-> ticket[t].status,
                               waiting_since |-> ticket[t].waiting_since,
                               resolved_at   |-> ticket[t].resolved_at]]

\* ImplementsContract: with requests one at a time, every step of a handler or
\* of the cron is a step of TicketContract or leaves the lifecycle alone, faults
\* included.
ImplementsContract == Abstract!Contract

=============================================================================
