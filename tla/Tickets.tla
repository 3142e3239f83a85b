------------------------------- MODULE Tickets -------------------------------
(***************************************************************************)
(* The conversation on existing tickets: every handler of                  *)
(* internal/server/handlers_tk_{customer,admin}.go that changes a ticket,  *)
(* and the auto-close cron, as concurrent requests on one PostgreSQL       *)
(* table.                                                                  *)
(*                                                                         *)
(* Every request runs in a goroutine of its own and every statement it     *)
(* sends is its own transaction, so other requests run between any two of  *)
(* them.  A handler is a read with its checks followed by a straight list  *)
(* of writes and publications: req[r].rest is what is left of that list,   *)
(* and req[r].from what the read saw.  A request whose checks fail returns *)
(* an error and changes nothing: it takes no step here.                    *)
(*                                                                         *)
(* Each member of Requests is one HTTP request and is served once.         *)
(***************************************************************************)
EXTENDS TicketLifecycle, FiniteSets, Sequences

CONSTANTS
    Tickets,             \* tickets that exist when the plugin starts
    Requests,            \* the requests it will serve
    Admins,              \* admins a ticket can be assigned to
    AutoCloseEnabled,    \* Deps.TKAutoCloseEnabled
    ResolvedAfterDays,   \* Deps.TKResolvedCloseAfterDays, 0 skips the pass
    WaitingAfterDays,    \* Deps.TKWaitingCloseAfterDays, 0 skips the pass
    ReopenWindow,        \* lifecycle.go's ReopenWindow
    CronBatch,           \* how many tickets one pass selects at most
    MaxNow,              \* bound: the clock stops here
    MaxFaults            \* bound: failed statements and crashes of a behavior

ASSUME TicketsAssumption ==
    /\ Tickets # {} /\ NULL \notin Tickets
    /\ (Admins \cup {NULL}) \cap Statuses = {}
    /\ AutoCloseEnabled \in BOOLEAN
    /\ ResolvedAfterDays \in Nat /\ WaitingAfterDays \in Nat
    /\ ReopenWindow \in Nat /\ CronBatch \in Nat
    /\ MaxNow \in Nat /\ MaxFaults \in Nat

VARIABLES
    now,      \* the clock (NOW() in SQL, time.Now in Go)
    ticket,   \* table tk_tickets
    entries,  \* table tk_ticket_entries
    audit,    \* table tk_audit_log
    events,   \* what was handed to the host's event bus
    req,      \* local state of every request
    moves,    \* history: the status UPDATEs that were committed
    faults    \* statements that failed and crashes so far

vars == <<now, ticket, entries, audit, events, req, moves, faults>>
tables == <<ticket, entries, audit, events, moves>>

-----------------------------------------------------------------------------
(* Requests                                                                *)

Kinds == {"customer_reply", "customer_reopen", "admin_reply", "admin_note",
          "admin_status", "admin_assign", "cron"}

\* NULL is told apart from every kind: a request is received once.
ASSUME KindsAssumption == NULL \notin Kinds

Announcements == {"ticket_replied", "ticket_status_changed", "ticket_assigned",
                  "ticket_resolved", "ticket_reopened", "ticket_closed"}

Statements == {"select", "update", "assign", "entry", "audit"} \cup Announcements

Values == Statuses \cup Admins \cup {NULL}

RequestStates ==
    [kind  : Kinds \cup {NULL},        \* NULL: not yet received
     t     : Tickets \cup {NULL},      \* the ticket it is about
     from  : Values,                   \* status (or assignee) its read saw
     to    : Values,                   \* status (or assignee) it will write
     blank : BOOLEAN,                  \* the row it holds is Go's zero value
     todo  : SUBSET Tickets,           \* cron: selected and not yet closed
     pass  : {"resolved_idle", "waiting_idle"},
     rest  : Seq(Statements)]          \* statements it has still to execute

NewRequest == [kind |-> NULL, t |-> NULL, from |-> NULL, to |-> NULL, blank |-> FALSE,
               todo |-> {}, pass |-> "resolved_idle", rest |-> <<>>]

InFlight(r) == req[r].rest # <<>>

\* The statements of each handler after its read, in the order of the code.
Script(kind, from, to) ==
    CASE kind = "customer_reply" ->
           IF from = "waiting_customer"
           THEN <<"entry", "update", "ticket_status_changed", "ticket_replied">>
           ELSE <<"entry", "ticket_replied">>
      [] kind = "customer_reopen" ->
           <<"update", "entry", "ticket_reopened", "ticket_status_changed">>
      [] kind = "admin_reply" ->
           IF from = "open"
           THEN <<"entry", "audit", "update", "ticket_status_changed", "ticket_replied">>
           ELSE <<"entry", "audit", "ticket_replied">>
      [] kind = "admin_note" -> <<"entry", "audit">>
      [] kind = "admin_status" ->
           CASE to = "resolved" ->
                  <<"update", "entry", "audit", "ticket_status_changed", "ticket_resolved">>
             [] to = "closed" ->
                  <<"update", "entry", "audit", "ticket_status_changed", "ticket_closed">>
             [] OTHER ->
                  <<"update", "entry", "audit", "ticket_status_changed">>
      [] kind = "admin_assign" -> <<"assign", "audit", "ticket_assigned">>

\* Mutant: the system entry of an auto-closed ticket is forgotten.
CloseOneWithoutEntry == <<"update", "ticket_closed">>

\* closeOne of the cron.
CloseOne == <<"update", "entry", "ticket_closed">>

\* Mutant: a kind the CHECK constraint of tk_ticket_entries does not know.
EntryKindMisnamed(kind) ==
    CASE kind \in {"customer_reply", "admin_reply"} -> "reply"
      [] kind = "admin_note"                        -> "note"
      [] OTHER                                      -> "system"

EntryKind(kind) ==
    CASE kind \in {"customer_reply", "admin_reply"} -> "reply"
      [] kind = "admin_note"                        -> "internal_note"
      [] kind = "admin_status"                      -> "status_change"
      [] OTHER                                      -> "system"

AuditAction(kind) ==
    CASE kind = "admin_reply"  -> "reply"
      [] kind = "admin_note"   -> "note"
      [] kind = "admin_status" -> "status_change"
      [] OTHER                 -> "assign"

EntryRecords == [req : Requests, ticket : Tickets,
                 kind : {"reply", "internal_note", "status_change", "system"}]
AuditRecords == [req : Requests, ticket : Tickets, from : Values, to : Values,
                 action : {"reply", "note", "status_change", "assign"}]
EventRecords == [req : Requests, ticket : Tickets \cup {NULL}, name : Announcements,
                 from : Values, to : Values]
MoveRecords == [req : Requests, ticket : Tickets, from : Statuses, to : Statuses]
TypeOK ==
    /\ now \in 0..MaxNow
    /\ ticket \in [Tickets -> Rows(Admins)]
    /\ entries \subseteq EntryRecords
    /\ audit \subseteq AuditRecords
    /\ events \subseteq EventRecords
    /\ req \in [Requests -> RequestStates]
    /\ moves \subseteq MoveRecords
    /\ faults \in 0..MaxFaults

-----------------------------------------------------------------------------
(* The plugin starts on the rows an earlier life of it left: any status,   *)
(* with the timestamps that status can have, all of them of instant 0.     *)

InitialRows ==
    {row \in [status : Statuses, waiting_since : {NULL, 0}, resolved_at : {NULL, 0},
              updated_at : {0}, assignee : {NULL}] :
       /\ StampsMatch(row)
       /\ row.status = "waiting_customer" => row.resolved_at = NULL}

Init ==
    /\ now = 0
    /\ ticket \in [Tickets -> InitialRows]
    /\ entries = {} /\ audit = {} /\ events = {} /\ moves = {}
    /\ req = [r \in Requests |-> NewRequest]
    /\ faults = 0

-----------------------------------------------------------------------------
(* Reads: a SELECT of the row, the checks on what it returned, and the     *)
(* list of statements the handler goes on with.                            *)

Receive(r, kind, t, from, to) ==
    /\ req[r].kind = NULL
    /\ req' = [req EXCEPT ![r] = [NewRequest EXCEPT
                  !.kind = kind, !.t = t, !.from = from, !.to = to,
                  !.rest = Script(kind, from, to)]]
    /\ UNCHANGED <<now, tables, faults>>

\* Mutants of the checks after the read: a reopen without its window, replies that
\* do not look for "closed", a status change without the lifecycle map.
CustomerReopenAnytime(r, t) ==
    /\ AllowTransition(ticket[t].status, "in_progress", "CustomerReopen")
    /\ Receive(r, "customer_reopen", t, ticket[t].status, "in_progress")
AdminReplyOnClosed(r, t) ==
    Receive(r, "admin_reply", t, ticket[t].status, "in_progress")
AdminStatusUnchecked(r, t, to) ==
    Receive(r, "admin_status", t, ticket[t].status, to)

\* hTKCustomerReply, up to its first write.  The rate limit may refuse the
\* reply too: its 20 seconds are below the resolution of the clock here, so it
\* is the choice not to take the step (TicketIntake models it).
CustomerReply(r, t) ==
    /\ ticket[t].status # "closed"
    /\ Receive(r, "customer_reply", t, ticket[t].status, "in_progress")

\* hTKCustomerReopen, up to its first write.
CustomerReopen(r, t) ==
    /\ AllowTransition(ticket[t].status, "in_progress", "CustomerReopen")
    /\ AllowReopen(ticket[t].resolved_at, now, ReopenWindow)
    /\ Receive(r, "customer_reopen", t, ticket[t].status, "in_progress")

\* hTKAdminReply, up to its first write.
AdminReply(r, t) ==
    /\ ticket[t].status # "closed"
    /\ Receive(r, "admin_reply", t, ticket[t].status, "in_progress")

\* hTKAdminNote: notes are taken on closed tickets as well.
AdminNote(r, t) ==
    Receive(r, "admin_note", t, ticket[t].status, NULL)

\* hTKAdminStatus, up to its first write.
AdminStatus(r, t, to) ==
    /\ AllowTransition(ticket[t].status, to, "AdminStatus")
    /\ Receive(r, "admin_status", t, ticket[t].status, to)

\* hTKAdminAssign, up to its first write; NULL unassigns.
AdminAssign(r, t, to) ==
    Receive(r, "admin_assign", t, ticket[t].assignee, to)

\* hTKAdminRunCron, up to the first selection of CloseIdle.
AdminRunCron(r) ==
    /\ AutoCloseEnabled
    /\ req[r].kind = NULL
    /\ req' = [req EXCEPT ![r] = [NewRequest EXCEPT !.kind = "cron", !.rest = <<"select">>]]
    /\ UNCHANGED <<now, tables, faults>>

-----------------------------------------------------------------------------
(* Control after a statement                                               *)

\* Mutant: the cron returns after its first pass.
CronContinuesOnePass(q) ==
    IF q.todo # {}
    THEN {[q EXCEPT !.t = t, !.todo = @ \ {t}, !.to = "closed", !.rest = CloseOne] : t \in q.todo}
    ELSE {[q EXCEPT !.rest = <<>>]}

\* The cron after a pass's selection or a closed ticket: the next selected
\* ticket, else the next pass, else the end.
CronContinues(q) ==
    IF q.todo # {}
    THEN {[q EXCEPT !.t = t, !.todo = @ \ {t}, !.to = "closed", !.rest = CloseOne] : t \in q.todo}
    ELSE IF q.pass = "resolved_idle"
         THEN {[q EXCEPT !.pass = "waiting_idle", !.rest = <<"select">>]}
         ELSE {[q EXCEPT !.rest = <<>>]}

\* The states a request can continue in when its current statement is done.
Continues(q) ==
    IF q.kind = "cron" /\ Tail(q.rest) = <<>>
    THEN CronContinues(q)
    ELSE {[q EXCEPT !.rest = Tail(@)]}

Proceed(r, q) == \E next \in Continues(q) : req' = [req EXCEPT ![r] = next]

At(r, statement) == InFlight(r) /\ Head(req[r].rest) = statement

-----------------------------------------------------------------------------
(* Statements                                                              *)

\* TKResolvedAtIdleSince and TKWaitingIdleSince: the oldest CronBatch of the
\* idle tickets of the pass.
Idle(pass) ==
    {t \in Tickets :
       IF pass = "resolved_idle" THEN ResolvedAtIdle(ticket[t], now, ResolvedAfterDays)
                                 ELSE WaitingIdle(ticket[t], now, WaitingAfterDays)}

Since(pass, t) == IF pass = "resolved_idle" THEN ticket[t].resolved_at
                                            ELSE ticket[t].waiting_since

Selections(pass) ==
    {S \in SUBSET Idle(pass) :
       /\ Cardinality(S) <= CronBatch
       /\ Cardinality(S) < CronBatch => S = Idle(pass)
       /\ \A s \in S, t \in Idle(pass) \ S : Since(pass, s) <= Since(pass, t)}

CronSelect(r) ==
    /\ At(r, "select")
    /\ \E S \in Selections(req[r].pass) : Proceed(r, [req[r] EXCEPT !.todo = S])
    /\ UNCHANGED <<now, tables, faults>>

\* TKUpdateTicketStatus.
WriteStatus(r) ==
    LET q == req[r] IN
    /\ At(r, "update")
    /\ ticket' = [ticket EXCEPT ![q.t] = UpdateTicketStatus(@, q.to, now)]
    /\ moves' = moves \cup
         {[req |-> r, ticket |-> q.t, from |-> ticket[q.t].status, to |-> q.to]}
    /\ Proceed(r, q)
    /\ UNCHANGED <<now, entries, audit, events, faults>>

\* TKAssignTicket.
WriteAssignee(r) ==
    LET q == req[r] IN
    /\ At(r, "assign")
    /\ ticket' = [ticket EXCEPT ![q.t].assignee = q.to, ![q.t].updated_at = now]
    /\ Proceed(r, q)
    /\ UNCHANGED <<now, entries, audit, events, moves, faults>>

\* TKInsertEntryNoTx: the entry and the touch of the ticket, in one transaction.
WriteEntry(r) ==
    LET q == req[r] IN
    /\ At(r, "entry")
    /\ entries' = entries \cup {[req |-> r, ticket |-> q.t, kind |-> EntryKind(q.kind)]}
    /\ ticket' = [ticket EXCEPT ![q.t].updated_at = now]
    /\ Proceed(r, q)
    /\ UNCHANGED <<now, audit, events, moves, faults>>

\* tkAudit; only a change of status or assignee carries from and to.
WriteAudit(r) ==
    LET q == req[r]
        change == q.kind \in {"admin_status", "admin_assign"}
    IN
    /\ At(r, "audit")
    /\ audit' = audit \cup
         {[req |-> r, ticket |-> q.t, action |-> AuditAction(q.kind),
           from |-> IF change THEN q.from ELSE NULL, to |-> IF change THEN q.to ELSE NULL]}
    /\ Proceed(r, q)
    /\ UNCHANGED <<now, ticket, entries, events, moves, faults>>

\* tkPublishEvent: the payload is the row the handler holds, and the zero row
\* has no ticket.
Publish(r) ==
    LET q == req[r]
        name == Head(q.rest)
        change == name \in {"ticket_status_changed", "ticket_assigned"}
    IN
    /\ InFlight(r) /\ name \in Announcements
    /\ events' = events \cup
         {[req |-> r, ticket |-> IF q.blank THEN NULL ELSE q.t, name |-> name,
           from |-> IF change THEN q.from ELSE NULL, to |-> IF change THEN q.to ELSE NULL]}
    /\ Proceed(r, q)
    /\ UNCHANGED <<now, ticket, entries, audit, moves, faults>>

-----------------------------------------------------------------------------
(* Faults: a statement fails (the connection, a cancelled request context, *)
(* the event bus) and each handler treats the error in its own way; or the *)
(* plugin process dies with all its requests.                              *)

\* Errors the handler drops (`_, _ =`, a logged warning) and goes on.
Dropped(q) ==
    \/ Head(q.rest) \in Announcements \cup {"audit"}
    \/ Head(q.rest) = "entry" /\ q.kind \in {"admin_status", "customer_reopen", "cron"}

\* The replies drop the error of their update too, and go on with a zero row.
GoesBlank(q) == Head(q.rest) = "update" /\ q.kind \in {"customer_reply", "admin_reply"}

\* closeOne returns and the cron takes the next ticket.
SkipsTicket(q) == Head(q.rest) = "update" /\ q.kind = "cron"

StatementFails(r) ==
    LET q == req[r] IN
    /\ InFlight(r)
    /\ faults < MaxFaults
    /\ faults' = faults + 1
    /\ \/ Dropped(q)     /\ Proceed(r, q)
       \/ GoesBlank(q)   /\ Proceed(r, [q EXCEPT !.blank = TRUE])
       \/ SkipsTicket(q) /\ \E next \in CronContinues(q) : req' = [req EXCEPT ![r] = next]
       \/ /\ ~(Dropped(q) \/ GoesBlank(q) \/ SkipsTicket(q))
          /\ req' = [req EXCEPT ![r].rest = <<>>]
    /\ UNCHANGED <<now, tables>>

Crash ==
    /\ faults < MaxFaults
    /\ \E r \in Requests : InFlight(r)
    /\ req' = [r \in Requests |-> [req[r] EXCEPT !.todo = {}, !.rest = <<>>]]
    /\ faults' = faults + 1
    /\ UNCHANGED <<now, tables>>

-----------------------------------------------------------------------------
Tick ==
    /\ now < MaxNow
    /\ now' = now + 1
    /\ UNCHANGED <<tables, req, faults>>

Arrive(r) ==
    \/ \E t \in Tickets :
         \/ CustomerReply(r, t) \/ CustomerReopen(r, t)
         \/ AdminReply(r, t)    \/ AdminNote(r, t)
         \/ \E to \in Statuses : AdminStatus(r, t, to)
         \/ \E to \in Admins \cup {NULL} : AdminAssign(r, t, to)
    \/ AdminRunCron(r)

Step(r) ==
    \/ CronSelect(r) \/ WriteStatus(r) \/ WriteAssignee(r)
    \/ WriteEntry(r) \/ WriteAudit(r)  \/ Publish(r)

Next ==
    \/ \E r \in Requests : Arrive(r) \/ Step(r) \/ StatementFails(r)
    \/ Crash
    \/ Tick

Spec == Init /\ [][Next]_vars

\* A request that was received goes on: its goroutine is scheduled and
\* PostgreSQL answers every statement.
FairSpec == Spec /\ \A r \in Requests : WF_vars(Step(r))

-----------------------------------------------------------------------------
(* Properties                                                              *)

\* StampsMatchStatus: whatever requests interleave, a waiting ticket has a
\* waiting_since, a resolved one a resolved_at, and an open or in_progress one
\* neither (the CASE expressions of TKUpdateTicketStatus): no ticket is out of
\* the auto-close cron's reach for want of a timestamp.
StampsMatchStatus == \A t \in Tickets : StampsMatch(ticket[t])

\* A request that may still write the status of t, or a reply on it.
Armed(r, t) ==
    \/ t \in req[r].todo
    \/ /\ req[r].t = t
       /\ \E i \in DOMAIN req[r].rest :
            \/ req[r].rest[i] = "update"
            \/ req[r].rest[i] = "entry" /\ EntryKind(req[r].kind) = "reply"

Settled(t) == ticket[t].status = "closed" /\ \A r \in Requests : ~Armed(r, t)

Replies(t) == {e \in entries : e.ticket = t /\ e.kind = "reply"}

\* ClosedSettles: "closed" is terminal once the requests that read the ticket
\* before it was closed have ended: from then on no request changes its status
\* or adds a reply to it.
ClosedSettles ==
    [][\A t \in Tickets : Settled(t) => Settled(t)' /\ Replies(t)' = Replies(t)]_vars

Trigger(kind) ==
    CASE kind = "customer_reply"  -> "CustomerReply"
      [] kind = "customer_reopen" -> "CustomerReopen"
      [] kind = "admin_reply"     -> "AdminReply"
      [] kind = "admin_status"    -> "AdminStatus"
      [] OTHER                    -> "CronIdle"

\* The status a request believes the ticket to have.
Believed(q) ==
    IF q.kind # "cron" THEN q.from
    ELSE IF q.pass = "resolved_idle" THEN "resolved" ELSE "waiting_customer"

\* CurrentMovesAllowed: a handler or the cron writes a status the lifecycle map
\* forbids only when the status it read has been overwritten in between.
CurrentMovesAllowed ==
    [][\A m \in moves' \ moves :
         LET q == req[m.req] IN
         m.from = Believed(q) => AllowTransition(m.from, m.to, Trigger(q.kind))]_vars

\* The status an announcement says the ticket has reached.
Outcome(e) ==
    CASE e.name = "ticket_resolved" -> "resolved"
      [] e.name = "ticket_closed"   -> "closed"
      [] e.name = "ticket_reopened" -> "in_progress"
      [] OTHER                      -> e.to

\* RecordsFollowCommits: with statements failing and the process dying at any
\* point, the audit log and the event bus never tell of a reply, a note or a
\* change of status that the same request has not committed.
RecordsFollowCommits ==
    /\ \A a \in audit :
         /\ a.action = "reply" =>
              [req |-> a.req, ticket |-> a.ticket, kind |-> "reply"] \in entries
         /\ a.action = "note" =>
              [req |-> a.req, ticket |-> a.ticket, kind |-> "internal_note"] \in entries
         /\ a.action = "status_change" =>
              \E m \in moves : m.req = a.req /\ m.ticket = a.ticket /\ m.to = a.to
    /\ \A e \in events :
         /\ e.ticket # NULL
         /\ e.name \in {"ticket_status_changed", "ticket_resolved", "ticket_closed",
                        "ticket_reopened"}
         => \E m \in moves : m.req = e.req /\ m.ticket = e.ticket /\ m.to = Outcome(e)

\* TrailComplete: when nothing fails, a request that has ended left for each
\* status it wrote an entry in the thread, the announcement named after the
\* status, an audit record if an admin asked for it, and, the cron excepted, a
\* ticket_status_changed.
TrailComplete ==
    faults = 0 => \A m \in moves :
        LET r == m.req
            announced == {e \in events : e.req = r /\ e.ticket = m.ticket}
        IN
        ~InFlight(r) =>
          /\ \E e \in entries : e.req = r /\ e.ticket = m.ticket
          /\ m.to = "closed"   => \E e \in announced : e.name = "ticket_closed"
          /\ m.to = "resolved" => \E e \in announced : e.name = "ticket_resolved"
          /\ req[r].kind # "cron" =>
               \E e \in announced : e.name = "ticket_status_changed" /\ e.to = m.to
          /\ req[r].kind \in {"admin_status", "admin_reply"} =>
               \E a \in audit : a.req = r /\ a.ticket = m.ticket

\* TrailMatches: the two directions together.
TrailMatches == RecordsFollowCommits /\ TrailComplete

\* IdleIsClosed: a ticket that is idle when a cron run begins does not stay
\* idle, unless statements fail or the process dies: the run goes through both
\* passes and closes every ticket it selects.
IdleIsClosed ==
    LET AnyIdle == Idle("resolved_idle") \cup Idle("waiting_idle") IN
    \A t \in Tickets :
      (\E r \in Requests :
          At(r, "select") /\ req[r].pass = "resolved_idle" /\ t \in AnyIdle)
      ~> (t \notin AnyIdle \/ faults > 0)

-----------------------------------------------------------------------------
(* What the documentation and the comments say, and the code does not keep *)

\* MovesAllowed: every committed change of status is an entry of the lifecycle
\* map ("Anything not here is forbidden", lifecycle.go).
MovesAllowed ==
    \A m \in moves : \E trigger \in Triggers : AllowTransition(m.from, m.to, trigger)

\* EveryMoveAnnounced: "Every transition fires ticket_status_changed"
\* (docs/modules/tickets.md), here when nothing fails and the request has ended.
EveryMoveAnnounced ==
    faults = 0 => \A m \in moves : ~InFlight(m.req) =>
        \E e \in events : /\ e.req = m.req /\ e.ticket = m.ticket
                          /\ e.name = "ticket_status_changed" /\ e.to = m.to

\* ReportedFromIsOld: ticket_status_changed carries "the old + new status"
\* (docs/modules/tickets.md): the old one is the one the UPDATE replaced.
ReportedFromIsOld ==
    \A e \in events, m \in moves :
        e.name = "ticket_status_changed" /\ e.req = m.req /\ e.ticket = m.ticket
            => e.from = m.from

\* RepliesResetTheClock: "Auto-close idle is updated_at ... Replies and status
\* changes both reset the clock" (docs/modules/tickets.md): the cron closes no
\* ticket that was touched within the shorter of its two periods.
RepliesResetTheClock ==
    [][\A m \in moves' \ moves :
         req[m.req].kind = "cron" =>
           \/ ticket[m.ticket].updated_at < now - ResolvedAfterDays
           \/ ticket[m.ticket].updated_at < now - WaitingAfterDays]_vars

=============================================================================
