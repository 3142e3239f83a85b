--------------------------- MODULE TicketLifecycle ---------------------------
(***************************************************************************)
(* The pure part of the tickets module: the transition map of              *)
(* internal/tickets/lifecycle.go and the row arithmetic of the three SQL   *)
(* statements of internal/store/tk_tickets.go that depend on a status.     *)
(*                                                                         *)
(* Instants are natural numbers of one unit (a day, for the constants the  *)
(* plugin ships with) and NULL is SQL's NULL.                              *)
(***************************************************************************)
EXTENDS Integers

CONSTANT NULL      \* the SQL NULL of a timestamp or of an assignee

ASSUME NullAssumption == NULL \notin Int

Statuses == {"open", "in_progress", "waiting_customer", "resolved", "closed"}

Triggers == {"AdminReply", "AdminStatus", "CustomerReply", "CustomerReopen", "CronIdle"}

\* The map `allowed`, as the set of its (from, to, trigger) entries.  "closed"
\* is no key of the map: it is terminal.
Allowed ==
    {<<"open",             "in_progress",      "AdminReply">>,
     <<"open",             "closed",           "AdminStatus">>,
     <<"in_progress",      "waiting_customer", "AdminStatus">>,
     <<"in_progress",      "resolved",         "AdminStatus">>,
     <<"in_progress",      "closed",           "AdminStatus">>,
     <<"waiting_customer", "in_progress",      "CustomerReply">>,
     <<"waiting_customer", "resolved",         "AdminStatus">>,
     <<"waiting_customer", "closed",           "AdminStatus">>,
     <<"waiting_customer", "closed",           "CronIdle">>,
     <<"resolved",         "in_progress",      "CustomerReopen">>,
     <<"resolved",         "closed",           "AdminStatus">>,
     <<"resolved",         "closed",           "CronIdle">>}

AllowTransition(from, to, trigger) ==
    /\ from # to
    /\ <<from, to, trigger>> \in Allowed

\* A customer may reopen while no more than `window` has passed.
AllowReopen(resolvedAt, at, window) ==
    /\ resolvedAt # NULL
    /\ at - resolvedAt <= window

-----------------------------------------------------------------------------
(* Rows of tk_tickets, without the columns no property looks at.           *)

Instants == Nat \cup {NULL}

Rows(Admins) ==
    [status : Statuses, waiting_since : Instants, resolved_at : Instants,
     updated_at : Nat, assignee : Admins \cup {NULL}]

\* Mutant: the CASE expression of waiting_since is forgotten.
UpdateTicketStatusUnstamped(row, to, at) ==
    [row EXCEPT !.status = to, !.updated_at = at,
                !.resolved_at = CASE to = "resolved"    -> at
                                  [] to = "in_progress" -> NULL
                                  [] OTHER              -> @]

\* The single UPDATE of TKUpdateTicketStatus: it looks at the new status only,
\* never at the one it overwrites.
UpdateTicketStatus(row, to, at) ==
    [row EXCEPT
       !.status        = to,
       !.waiting_since = CASE to = "waiting_customer"          -> at
                           [] to \in {"in_progress", "open"}   -> NULL
                           [] OTHER                            -> @,
       !.resolved_at   = CASE to = "resolved"                  -> at
                           [] to = "in_progress"               -> NULL
                           [] OTHER                            -> @,
       !.updated_at    = at]

\* WHERE clauses of the two selections of the auto-close cron; days = 0 means
\* the pass is skipped.
ResolvedAtIdle(row, at, days) ==
    /\ days > 0
    /\ row.status = "resolved"
    /\ row.resolved_at # NULL
    /\ row.resolved_at < at - days

WaitingIdle(row, at, days) ==
    /\ days > 0
    /\ row.status = "waiting_customer"
    /\ row.waiting_since # NULL
    /\ row.waiting_since < at - days

\* What the timestamps of a row say about its status.
StampsMatch(row) ==
    /\ row.status = "waiting_customer" => row.waiting_since # NULL
    /\ row.status = "resolved" => row.resolved_at # NULL
    /\ row.status \in {"open", "in_progress"} =>
           row.waiting_since = NULL /\ row.resolved_at = NULL
=============================================================================
