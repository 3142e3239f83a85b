---------------------------- MODULE TicketContract ----------------------------
(***************************************************************************)
(* What the tickets module promises its users: the "Lifecycle reference"   *)
(* that internal/tickets/lifecycle.go is the source of, with the reopen    *)
(* window and the two auto-close periods, each move one indivisible step.  *)
(* Nothing here knows of requests, entries, events or failures.            *)
(***************************************************************************)
EXTENDS TicketLifecycle

CONSTANTS Tickets, AutoCloseEnabled, ResolvedAfterDays, WaitingAfterDays, ReopenWindow

VARIABLES now, row     \* row[t] : [status, waiting_since, resolved_at]

contractVars == <<now, row>>

ContractRows == [status : Statuses, waiting_since : Instants, resolved_at : Instants]

ContractInit ==
    /\ now = 0
    /\ row \in [Tickets -> {x \in ContractRows :
                             /\ StampsMatch(x)
                             /\ x.waiting_since \in {NULL, 0}
                             /\ x.resolved_at \in {NULL, 0}}]

\* t goes to status `to`; a stamp is set when its status is entered, and
\* forgotten when work on the ticket goes on.
Move(t, to, trigger) ==
    /\ AllowTransition(row[t].status, to, trigger)
    /\ row' = [row EXCEPT ![t] =
         [status |-> to,
          waiting_since |-> IF to = "waiting_customer" THEN now
                            ELSE IF to = "in_progress" THEN NULL
                            ELSE row[t].waiting_since,
          resolved_at   |-> IF to = "resolved" THEN now
                            ELSE IF to = "in_progress" THEN NULL
                            ELSE row[t].resolved_at]]
    /\ UNCHANGED now

AdminAnswers(t)    == Move(t, "in_progress", "AdminReply")
AdminMoves(t)      == \E to \in Statuses : Move(t, to, "AdminStatus")
CustomerAnswers(t) == Move(t, "in_progress", "CustomerReply")
CustomerReopens(t) ==
    /\ row[t].status = "resolved" /\ AllowReopen(row[t].resolved_at, now, ReopenWindow)
    /\ Move(t, "in_progress", "CustomerReopen")
AutoCloses(t) ==
    /\ AutoCloseEnabled
    /\ \/ ResolvedAtIdle(row[t], now, ResolvedAfterDays)
       \/ WaitingIdle(row[t], now, WaitingAfterDays)
    /\ Move(t, "closed", "CronIdle")

Later == now' = now + 1 /\ UNCHANGED row

ContractNext ==
    \/ Later
    \/ \E t \in Tickets : \/ AdminAnswers(t) \/ AdminMoves(t) \/ CustomerAnswers(t)
                          \/ CustomerReopens(t) \/ AutoCloses(t)

Contract == ContractInit /\ [][ContractNext]_contractVars
=============================================================================
