---------------------------- MODULE TicketsProofs ----------------------------
(***************************************************************************)
(* Theorems about Tickets, for every set of tickets, requests and admins   *)
(* and every setting of the auto-close cron.                               *)
(*                                                                         *)
(* The inductive invariant says of each request what the statements it has *)
(* still to execute rely on: a request that will write a status checked    *)
(* the move against the lifecycle map, from the status it believes in.     *)
(*                                                                         *)
(* Four more parts follow, each on top of it: a closed ticket settles; the *)
(* auto-close loses none of its list; the trail, entries, audit log and    *)
(* events, matches the moves; and, one request at a time (TicketsSerial),  *)
(* the handlers and the cron implement TicketContract.                     *)
(***************************************************************************)
EXTENDS TicketsSerial, TLAPS, SequenceTheorems

Pending(q, statement) == \E i \in DOMAIN q.rest : q.rest[i] = statement

RequestInv(q) ==
    /\ (q.rest # <<>> /\ ~Pending(q, "select")) => q.t \in Tickets
    /\ Pending(q, "select") => q.kind = "cron" /\ q.todo = {} /\ q.rest = <<"select">>
    /\ q.kind # "cron" => q.todo = {}
    /\ Pending(q, "assign") => q.to \in Admins \cup {NULL}
    /\ Pending(q, "update") =>
         /\ q.to \in Statuses
         /\ AllowTransition(Believed(q), q.to, Trigger(q.kind))

IInv ==
    /\ TypeOK
    /\ StampsMatchStatus
    /\ \A r \in Requests : RequestInv(req[r])

-----------------------------------------------------------------------------
(* Control: what a request is left with after a statement                  *)

\* What is pending after the current statement was pending before it.
LEMMA TailPending ==
    ASSUME NEW q \in RequestStates, q.rest # <<>>,
           NEW p, p.rest = Tail(q.rest), NEW statement, Pending(p, statement)
    PROVE  Pending(q, statement)
<1> DEFINE s == q.rest
<1>1. s \in Seq(Statements) /\ s # <<>>
  BY DEF RequestStates
<1>2. PICK i \in DOMAIN Tail(s) : Tail(s)[i] = statement
  BY DEF Pending
<1>3. /\ Tail(s) \in Seq(Statements) /\ Len(Tail(s)) = Len(s) - 1
      /\ \A j \in 1..Len(Tail(s)) : Tail(s)[j] = s[j + 1]
  BY <1>1, HeadTailProperties
<1>4. i \in 1..Len(Tail(s)) /\ i + 1 \in DOMAIN s /\ s[i + 1] = statement
  BY <1>1, <1>2, <1>3
<1> QED BY <1>4 DEF Pending

\* The head of a request's list is pending.
LEMMA HeadPending ==
    ASSUME NEW q \in RequestStates, q.rest # <<>>
    PROVE  Pending(q, Head(q.rest)) /\ Head(q.rest) \in Statements
<1>1. q.rest \in Seq(Statements)
  BY DEF RequestStates
<1> QED BY <1>1 DEF Pending

\* The cron goes on in a good state, whatever it selected.
LEMMA CronContinuesInv ==
    ASSUME NEW q \in RequestStates, q.kind = "cron", NEW n \in CronContinues(q)
    PROVE  n \in RequestStates /\ RequestInv(n)
<1>1. CASE q.todo # {}
  <2>1. PICK t \in q.todo : n = [q EXCEPT !.t = t, !.todo = @ \ {t}, !.to = "closed",
                                         !.rest = CloseOne]
    BY <1>1 DEF CronContinues
  <2>2. t \in Tickets /\ CloseOne \in Seq(Statements) /\ "closed" \in Values
    BY DEF RequestStates, CloseOne, Statements, Announcements, Values, Statuses
  <2>3. n \in RequestStates
    BY <2>1, <2>2 DEF RequestStates
  <2>4. n.kind = "cron" /\ n.t = t /\ n.to = "closed" /\ n.rest = CloseOne
    BY <2>1 DEF RequestStates
  <2>5. ~Pending(n, "select") /\ ~Pending(n, "assign")
    BY <2>4 DEF Pending, CloseOne
  <2>6. AllowTransition(Believed(n), n.to, Trigger(n.kind))
    BY <2>3, <2>4 DEF Believed, Trigger, AllowTransition, Allowed
  <2> QED BY <2>2, <2>3, <2>4, <2>5, <2>6 DEF RequestInv, Statuses
<1>2. CASE q.todo = {} /\ q.pass = "resolved_idle"
  <2>1. n = [q EXCEPT !.pass = "waiting_idle", !.rest = <<"select">>]
    BY <1>2 DEF CronContinues
  <2>2. <<"select">> \in Seq(Statements)
    BY DEF Statements
  <2>3. n \in RequestStates /\ n.kind = "cron" /\ n.rest = <<"select">> /\ n.todo = {}
    BY <1>2, <2>1, <2>2 DEF RequestStates
  <2>4. Pending(n, "select") /\ ~Pending(n, "assign") /\ ~Pending(n, "update")
    BY <2>3 DEF Pending
  <2> QED BY <2>3, <2>4 DEF RequestInv
<1>3. CASE q.todo = {} /\ q.pass # "resolved_idle"
  <2>1. n = [q EXCEPT !.rest = <<>>]
    BY <1>3 DEF CronContinues
  <2> DEFINE none == <<>>
  <2>a. none \in Seq(Statements)
    OBVIOUS
  <2>b. n = [q EXCEPT !.rest = none]
    BY <2>1
  <2> HIDE DEF none
  <2>c. n \in RequestStates /\ n.kind = "cron" /\ n.rest = none /\ n.todo = {}
    BY <1>3, <2>a, <2>b DEF RequestStates
  <2>2. n \in RequestStates /\ n.kind = "cron" /\ n.rest = <<>> /\ n.todo = {}
    BY <2>c DEF none
  <2>3. \A x : ~Pending(n, x)
    BY <2>2 DEF Pending
  <2> QED BY <2>2, <2>3 DEF RequestInv
<1> QED BY <1>1, <1>2, <1>3

\* So does every request after a statement other than the cron's selection.
LEMMA ContinuesInv ==
    ASSUME NEW q \in RequestStates, RequestInv(q), q.rest # <<>>,
           q.rest # <<"select">>, NEW n \in Continues(q)
    PROVE  n \in RequestStates /\ RequestInv(n)
<1>1. CASE q.kind = "cron" /\ Tail(q.rest) = <<>>
  BY <1>1, CronContinuesInv DEF Continues
<1>2. CASE ~(q.kind = "cron" /\ Tail(q.rest) = <<>>)
  <2>1. n = [q EXCEPT !.rest = Tail(@)]
    BY <1>2 DEF Continues
  <2>2. q.rest \in Seq(Statements) /\ Tail(q.rest) \in Seq(Statements)
    BY HeadTailProperties DEF RequestStates
  <2>3. /\ n \in RequestStates /\ n.rest = Tail(q.rest) /\ n.kind = q.kind /\ n.t = q.t
        /\ n.to = q.to /\ n.from = q.from /\ n.pass = q.pass /\ n.todo = q.todo
    BY <2>1, <2>2 DEF RequestStates
  <2>4. \A x : Pending(n, x) => Pending(q, x)
    BY <2>3, TailPending
  <2>5. ~Pending(q, "select") /\ ~Pending(n, "select") /\ q.t \in Tickets
    BY <2>4 DEF RequestInv
  <2>6. Believed(n) = Believed(q)
    BY <2>3 DEF Believed
  <2> QED BY <2>3, <2>4, <2>5, <2>6 DEF RequestInv
<1> QED BY <1>1, <1>2

-----------------------------------------------------------------------------
(* The initial states, and what each step does to the requests             *)

USE NullAssumption, TicketsAssumption

\* The plugin starts in a good state.
LEMMA InitIInv == Init => IInv
<1> SUFFICES ASSUME Init PROVE IInv
  OBVIOUS
<1>1. NewRequest \in RequestStates
  BY DEF NewRequest, RequestStates, Values
<1>2. RequestInv(NewRequest)
  BY DEF RequestInv, NewRequest, Pending
<1>3. ticket \in [Tickets -> Rows(Admins)]
  BY DEF Init, InitialRows, Rows, Instants
<1>4. TypeOK
  BY <1>1, <1>3 DEF Init, TypeOK
<1>5. StampsMatchStatus
  BY DEF Init, InitialRows, StampsMatchStatus
<1> QED BY <1>1, <1>2, <1>4, <1>5 DEF IInv, Init

\* A received request goes on in a good state.
LEMMA ScriptInv ==
    ASSUME NEW kind \in Kinds \ {"cron"}, NEW t \in Tickets, NEW from \in Values,
           NEW to \in Values,
           kind = "admin_assign" => to \in Admins \cup {NULL},
           kind = "admin_status" => from \in Statuses /\ to \in Statuses
                                      /\ AllowTransition(from, to, "AdminStatus"),
           kind = "customer_reopen" => AllowTransition(from, to, "CustomerReopen"),
           kind \in {"customer_reply", "customer_reopen", "admin_reply"} => to = "in_progress",
           NEW q, q = [NewRequest EXCEPT !.kind = kind, !.t = t, !.from = from, !.to = to,
                                         !.rest = Script(kind, from, to)]
    PROVE  q \in RequestStates /\ RequestInv(q)
<1> DEFINE script == Script(kind, from, to)
<1>1. script \in Seq(Statements)
  <2>1. <<"entry", "update", "ticket_status_changed", "ticket_replied">> \in Seq(Statements)
    BY DEF Statements, Announcements
  <2>2. <<"entry", "ticket_replied">> \in Seq(Statements)
    BY DEF Statements, Announcements
  <2>3. <<"update", "entry", "ticket_reopened", "ticket_status_changed">> \in Seq(Statements)
    BY DEF Statements, Announcements
  <2>4. <<"entry", "audit", "update", "ticket_status_changed", "ticket_replied">> \in Seq(Statements)
    BY DEF Statements, Announcements
  <2>5. <<"entry", "audit", "ticket_replied">> \in Seq(Statements)
    BY DEF Statements, Announcements
  <2>6. <<"entry", "audit">> \in Seq(Statements)
    BY DEF Statements, Announcements
  <2>7. <<"update", "entry", "audit", "ticket_status_changed", "ticket_resolved">> \in Seq(Statements)
    BY DEF Statements, Announcements
  <2>8. <<"update", "entry", "audit", "ticket_status_changed", "ticket_closed">> \in Seq(Statements)
    BY DEF Statements, Announcements
  <2>9. <<"update", "entry", "audit", "ticket_status_changed">> \in Seq(Statements)
    BY DEF Statements, Announcements
  <2>10. <<"assign", "audit", "ticket_assigned">> \in Seq(Statements)
    BY DEF Statements, Announcements
  <2>11. script \in {<<"entry", "update", "ticket_status_changed", "ticket_replied">>,
                   <<"entry", "ticket_replied">>,
                   <<"update", "entry", "ticket_reopened", "ticket_status_changed">>,
                   <<"entry", "audit", "update", "ticket_status_changed", "ticket_replied">>,
                   <<"entry", "audit", "ticket_replied">>,
                   <<"entry", "audit">>,
                   <<"update", "entry", "audit", "ticket_status_changed", "ticket_resolved">>,
                   <<"update", "entry", "audit", "ticket_status_changed", "ticket_closed">>,
                   <<"update", "entry", "audit", "ticket_status_changed">>,
                   <<"assign", "audit", "ticket_assigned">>}
    <3>1. CASE kind = "customer_reply"
      BY <3>1 DEF Script
    <3>2. CASE kind = "customer_reopen"
      BY <3>2 DEF Script
    <3>3. CASE kind = "admin_reply"
      BY <3>3 DEF Script
    <3>4. CASE kind = "admin_note"
      BY <3>4 DEF Script
    <3>5. CASE kind = "admin_status"
      BY <3>5 DEF Script
    <3>6. CASE kind = "admin_assign"
      BY <3>6 DEF Script
    <3> QED BY <3>1, <3>2, <3>3, <3>4, <3>5, <3>6 DEF Kinds
  <2> QED BY <2>1, <2>2, <2>3, <2>4, <2>5, <2>6, <2>7, <2>8, <2>9, <2>10, <2>11
<1>2. NewRequest \in RequestStates
  BY DEF NewRequest, RequestStates, Values
<1> HIDE DEF script
<1>3. q = [NewRequest EXCEPT !.kind = kind, !.t = t, !.from = from, !.to = to, !.rest = script]
  BY DEF script
<1>4. q \in RequestStates
  BY <1>1, <1>2, <1>3 DEF RequestStates
<1>5. /\ q.kind = kind /\ q.t = t /\ q.from = from /\ q.to = to /\ q.rest = script
      /\ q.todo = {}
  BY <1>2, <1>3 DEF RequestStates, NewRequest
<1>6. ~Pending(q, "select")
  BY <1>5 DEF Pending, script, Script, Kinds
<1>7. Pending(q, "assign") => kind = "admin_assign"
  BY <1>5 DEF Pending, script, Script, Kinds
<1>8. Pending(q, "update") =>
        \/ kind \in {"customer_reopen", "admin_status"}
        \/ kind = "customer_reply" /\ from = "waiting_customer"
        \/ kind = "admin_reply" /\ from = "open"
  BY <1>5 DEF Pending, script, Script, Kinds
<1>9. ASSUME Pending(q, "update")
      PROVE  q.to \in Statuses /\ AllowTransition(Believed(q), q.to, Trigger(q.kind))
  <2>1. Believed(q) = from
    BY <1>5 DEF Believed
  <2>2. CASE kind = "customer_reopen"
    <3>1. to = "in_progress" /\ AllowTransition(from, to, "CustomerReopen")
      BY <2>2
    <3>2. Trigger(kind) = "CustomerReopen"
      BY <2>2 DEF Trigger
    <3> QED BY <2>1, <3>1, <3>2, <1>5 DEF Statuses
  <2>3. CASE kind = "admin_status"
    <3>1. to \in Statuses /\ AllowTransition(from, to, "AdminStatus")
      BY <2>3
    <3>2. Trigger(kind) = "AdminStatus"
      BY <2>3 DEF Trigger
    <3> QED BY <2>1, <3>1, <3>2, <1>5
  <2>4. CASE kind = "customer_reply" /\ from = "waiting_customer"
    BY <2>1, <2>4, <1>5 DEF Trigger, Statuses, AllowTransition, Allowed
  <2>5. CASE kind = "admin_reply" /\ from = "open"
    BY <2>1, <2>5, <1>5 DEF Trigger, Statuses, AllowTransition, Allowed
  <2> QED BY <2>2, <2>3, <2>4, <2>5, <1>8, <1>9
<1> QED BY <1>4, <1>5, <1>6, <1>7, <1>9 DEF RequestInv

\* A step that puts one request in a good state leaves all of them in one.
LEMMA RequestsInv ==
    ASSUME IInv, NEW r \in Requests, NEW q \in RequestStates, RequestInv(q),
           req' = [req EXCEPT ![r] = q]
    PROVE  /\ req' \in [Requests -> RequestStates]
           /\ \A s \in Requests : RequestInv(req'[s])
<1>1. req \in [Requests -> RequestStates] /\ \A s \in Requests : RequestInv(req[s])
  BY DEF IInv, TypeOK
<1>2. \A s \in Requests : req'[s] = IF s = r THEN q ELSE req[s]
  BY <1>1
<1>3. \A s \in Requests : RequestInv(req'[s])
  BY <1>1, <1>2
<1> QED BY <1>1, <1>3

\* The same for a request that proceeds.
LEMMA ProceedInv ==
    ASSUME IInv, NEW r \in Requests, NEW q \in RequestStates, RequestInv(q),
           q.rest # <<>>, q.rest # <<"select">>, Proceed(r, q)
    PROVE  /\ req' \in [Requests -> RequestStates]
           /\ \A s \in Requests : RequestInv(req'[s])
<1>1. PICK n \in Continues(q) : req' = [req EXCEPT ![r] = n]
  BY DEF Proceed
<1>2. n \in RequestStates /\ RequestInv(n)
  BY ContinuesInv
<1> QED BY <1>1, <1>2, RequestsInv

\* What the invariant says of a request that is about to execute a statement.
LEMMA AtStatement ==
    ASSUME IInv, NEW r \in Requests, InFlight(r)
    PROVE  LET q == req[r] IN
           /\ q \in RequestStates /\ RequestInv(q) /\ q.rest # <<>>
           /\ Pending(q, Head(q.rest))
           /\ Head(q.rest) # "select" => q.rest # <<"select">> /\ q.t \in Tickets
<1> DEFINE q == req[r]
<1>1. q \in RequestStates /\ RequestInv(q) /\ q.rest # <<>>
  BY DEF IInv, TypeOK, InFlight
<1>2. Pending(q, Head(q.rest))
  BY <1>1, HeadPending
<1>3. ASSUME Head(q.rest) # "select" PROVE q.rest # <<"select">> /\ q.t \in Tickets
  <2>1. q.rest # <<"select">>
    BY <1>3
  <2> QED BY <2>1, <1>1 DEF RequestInv
<1> QED BY <1>1, <1>2, <1>3

\* A step that leaves the tables alone.
LEMMA TablesUnchanged ==
    ASSUME IInv, UNCHANGED tables, now' \in 0..MaxNow, faults' \in 0..MaxFaults,
           req' \in [Requests -> RequestStates],
           \A s \in Requests : RequestInv(req'[s])
    PROVE  IInv'
<1>1. TypeOK'
  BY DEF IInv, TypeOK, tables
<1>2. StampsMatchStatus'
  BY DEF IInv, StampsMatchStatus, tables
<1>3. (\A r \in Requests : RequestInv(req[r]))'
  OBVIOUS
<1> QED BY <1>1, <1>2, <1>3 DEF IInv

\* A status is overwritten by one the lifecycle map leads to: the stamps match.
LEMMA UpdateStamps ==
    ASSUME NEW row \in Rows(Admins), NEW to \in Statuses \ {"open"}, NEW at \in Nat
    PROVE  /\ UpdateTicketStatus(row, to, at) \in Rows(Admins)
           /\ StampsMatch(UpdateTicketStatus(row, to, at))
           /\ UpdateTicketStatus(row, to, at).status = to
<1> DEFINE ws == CASE to = "waiting_customer"        -> at
                   [] to \in {"in_progress", "open"} -> NULL
                   [] OTHER                          -> row.waiting_since
           ra == CASE to = "resolved"                -> at
                   [] to = "in_progress"             -> NULL
                   [] OTHER                          -> row.resolved_at
           new == UpdateTicketStatus(row, to, at)
<1>1. ws \in Instants /\ ra \in Instants
  BY DEF Rows, Instants
<1>2. /\ to = "waiting_customer" => ws # NULL
      /\ to = "resolved" => ra # NULL
      /\ to = "in_progress" => ws = NULL /\ ra = NULL
  OBVIOUS
<1>3. new = [row EXCEPT !.status = to, !.waiting_since = ws, !.resolved_at = ra,
                        !.updated_at = at]
  BY DEF UpdateTicketStatus, Rows
<1> HIDE DEF ws, ra, new
<1>4. /\ new \in Rows(Admins) /\ new.status = to
      /\ new.waiting_since = ws /\ new.resolved_at = ra
  BY <1>1, <1>3 DEF Rows
<1>5. StampsMatch(new)
  BY <1>2, <1>4 DEF StampsMatch
<1> QED BY <1>4, <1>5 DEF new

-----------------------------------------------------------------------------
(* Every step preserves the invariant                                      *)

\* Receiving a request preserves the invariant: its checks are what its
\* statements rely on.
LEMMA ArriveInv ==
    ASSUME IInv, NEW r \in Requests, Arrive(r) PROVE IInv'
<1> USE DEF Receive
<1>1. \A t \in Tickets : /\ ticket[t].status \in Values /\ ticket[t].status \in Statuses
                          /\ ticket[t].assignee \in Values
  BY DEF IInv, TypeOK, Rows, Values
<1>2. "in_progress" \in Values /\ NULL \in Values /\ Admins \cup {NULL} \subseteq Values
      /\ Statuses \subseteq Values
  BY DEF Values, Statuses
<1>3. ASSUME NEW q \in RequestStates, RequestInv(q), req' = [req EXCEPT ![r] = q],
             UNCHANGED <<now, tables, faults>>
      PROVE  IInv'
  BY <1>3, RequestsInv, TablesUnchanged DEF IInv, TypeOK
<1>4. ASSUME NEW t \in Tickets, CustomerReply(r, t) PROVE IInv'
  BY <1>1, <1>2, <1>3, <1>4, ScriptInv DEF CustomerReply, Kinds
<1>5. ASSUME NEW t \in Tickets, CustomerReopen(r, t) PROVE IInv'
  BY <1>1, <1>2, <1>3, <1>5, ScriptInv DEF CustomerReopen, Kinds
<1>6. ASSUME NEW t \in Tickets, AdminReply(r, t) PROVE IInv'
  BY <1>1, <1>2, <1>3, <1>6, ScriptInv DEF AdminReply, Kinds
<1>7. ASSUME NEW t \in Tickets, AdminNote(r, t) PROVE IInv'
  BY <1>1, <1>2, <1>3, <1>7, ScriptInv DEF AdminNote, Kinds
<1>8. ASSUME NEW t \in Tickets, NEW to \in Statuses, AdminStatus(r, t, to) PROVE IInv'
  BY <1>1, <1>2, <1>3, <1>8, ScriptInv DEF AdminStatus, Kinds
<1>9. ASSUME NEW t \in Tickets, NEW to \in Admins \cup {NULL}, AdminAssign(r, t, to)
      PROVE  IInv'
  BY <1>1, <1>2, <1>3, <1>9, ScriptInv DEF AdminAssign, Kinds
<1>10. ASSUME AdminRunCron(r) PROVE IInv'
  <2> DEFINE q == [NewRequest EXCEPT !.kind = "cron", !.rest = <<"select">>]
  <2>1. <<"select">> \in Seq(Statements)
    BY DEF Statements
  <2>2. /\ q \in RequestStates /\ q.kind = "cron" /\ q.rest = <<"select">> /\ q.todo = {}
    BY <2>1 DEF NewRequest, RequestStates, Values, Kinds
  <2>3. RequestInv(q)
    BY <2>2 DEF RequestInv, Pending
  <2> QED BY <1>3, <1>10, <2>2, <2>3 DEF AdminRunCron
<1> QED BY <1>4, <1>5, <1>6, <1>7, <1>8, <1>9, <1>10 DEF Arrive

\* The selection of the cron preserves the invariant.
LEMMA CronSelectInv ==
    ASSUME IInv, NEW r \in Requests, CronSelect(r) PROVE IInv'
<1> DEFINE q == req[r]
<1>1. PICK S \in Selections(q.pass) : Proceed(r, [q EXCEPT !.todo = S])
  BY DEF CronSelect
<1>2. q \in RequestStates /\ RequestInv(q) /\ Pending(q, "select")
  BY AtStatement DEF CronSelect, At
<1>3. q.kind = "cron" /\ q.rest = <<"select">>
  BY <1>2 DEF RequestInv
<1>4. S \subseteq Tickets
  BY DEF Selections, Idle
<1> DEFINE p == [q EXCEPT !.todo = S]
<1>5. p \in RequestStates /\ p.kind = "cron" /\ p.rest = <<"select">>
  BY <1>2, <1>3, <1>4 DEF RequestStates
<1>6. Tail(p.rest) = <<>>
  <2>1. <<"select">> \in Seq(Statements) /\ Len(<<"select">>) = 1
    BY DEF Statements
  <2>2. Tail(<<"select">>) \in Seq(Statements) /\ Len(Tail(<<"select">>)) = 0
    BY <2>1, HeadTailProperties
  <2>3. Tail(<<"select">>) = <<>>
    BY <2>2, EmptySeq
  <2> QED BY <1>5, <2>3
<1>7. Continues(p) = CronContinues(p)
  BY <1>5, <1>6 DEF Continues
<1>8. PICK n \in CronContinues(p) : req' = [req EXCEPT ![r] = n]
  BY <1>1, <1>7 DEF Proceed
<1>9. n \in RequestStates /\ RequestInv(n)
  BY <1>5, <1>8, CronContinuesInv
<1> QED BY <1>8, <1>9, RequestsInv, TablesUnchanged DEF CronSelect, IInv, TypeOK

\* So does the UPDATE of a status, with the stamps it sets.
LEMMA WriteStatusInv ==
    ASSUME IInv, NEW r \in Requests, WriteStatus(r) PROVE IInv'
<1> DEFINE q == req[r]
<1>1. /\ q \in RequestStates /\ RequestInv(q) /\ q.t \in Tickets /\ Pending(q, "update")
      /\ q.rest # <<>> /\ q.rest # <<"select">>
  BY AtStatement DEF WriteStatus, At
<1>2. q.to \in Statuses /\ AllowTransition(Believed(q), q.to, Trigger(q.kind))
  BY <1>1 DEF RequestInv
<1>3. q.to \in Statuses \ {"open"}
  BY <1>2 DEF AllowTransition, Allowed
<1>4. ticket \in [Tickets -> Rows(Admins)] /\ now \in Nat
  BY DEF IInv, TypeOK
<1> DEFINE row == UpdateTicketStatus(ticket[q.t], q.to, now)
<1>5. row \in Rows(Admins) /\ StampsMatch(row)
  BY <1>1, <1>3, <1>4, UpdateStamps
<1>6. ticket' = [ticket EXCEPT ![q.t] = row]
  BY <1>1, <1>4 DEF WriteStatus
<1> HIDE DEF row
<1>7. ticket' \in [Tickets -> Rows(Admins)]
  BY <1>4, <1>5, <1>6
<1>8. moves' \subseteq MoveRecords
  BY <1>1, <1>2, <1>4 DEF WriteStatus, IInv, TypeOK, MoveRecords, Rows
<1>9. /\ req' \in [Requests -> RequestStates]
      /\ (\A s \in Requests : RequestInv(req[s]))'
  BY <1>1, ProceedInv DEF WriteStatus
<1>10. TypeOK'
  BY <1>7, <1>8, <1>9 DEF WriteStatus, IInv, TypeOK
<1>11. StampsMatchStatus'
  BY <1>4, <1>5, <1>6 DEF IInv, StampsMatchStatus
<1> QED BY <1>9, <1>10, <1>11 DEF IInv

\* A step that changes at most the assignee and updated_at of rows.
LEMMA StampsKept ==
    ASSUME IInv, ticket' \in [Tickets -> Rows(Admins)],
           \A t \in Tickets : /\ ticket'[t].status = ticket[t].status
                             /\ ticket'[t].waiting_since = ticket[t].waiting_since
                             /\ ticket'[t].resolved_at = ticket[t].resolved_at
    PROVE  StampsMatchStatus'
  BY DEF IInv, StampsMatchStatus, StampsMatch

\* So does the UPDATE of an assignee.
LEMMA WriteAssigneeInv ==
    ASSUME IInv, NEW r \in Requests, WriteAssignee(r) PROVE IInv'
<1> DEFINE q == req[r]
<1>1. /\ q \in RequestStates /\ RequestInv(q) /\ q.t \in Tickets /\ Pending(q, "assign")
      /\ q.rest # <<>> /\ q.rest # <<"select">>
  BY AtStatement DEF WriteAssignee, At
<1>2. q.to \in Admins \cup {NULL}
  BY <1>1 DEF RequestInv
<1>3. ticket \in [Tickets -> Rows(Admins)] /\ now \in Nat
  BY DEF IInv, TypeOK
<1>4. ticket' = [ticket EXCEPT ![q.t] = [ticket[q.t] EXCEPT !.assignee = q.to, !.updated_at = now]]
  BY <1>1, <1>3 DEF WriteAssignee, Rows
<1>5. ticket' \in [Tickets -> Rows(Admins)]
  BY <1>1, <1>2, <1>3, <1>4 DEF Rows
<1>6. StampsMatchStatus'
  BY <1>1, <1>3, <1>4, <1>5, StampsKept DEF Rows
<1>7. /\ req' \in [Requests -> RequestStates]
      /\ (\A s \in Requests : RequestInv(req[s]))'
  BY <1>1, ProceedInv DEF WriteAssignee
<1>8. TypeOK'
  BY <1>5, <1>7 DEF WriteAssignee, IInv, TypeOK
<1> QED BY <1>6, <1>7, <1>8 DEF IInv

\* So does an entry of the thread with its touch of the ticket.
LEMMA WriteEntryInv ==
    ASSUME IInv, NEW r \in Requests, WriteEntry(r) PROVE IInv'
<1> DEFINE q == req[r]
<1>1. /\ q \in RequestStates /\ RequestInv(q) /\ q.t \in Tickets
      /\ q.rest # <<>> /\ q.rest # <<"select">>
  BY AtStatement DEF WriteEntry, At
<1>2. ticket \in [Tickets -> Rows(Admins)] /\ now \in Nat
  BY DEF IInv, TypeOK
<1>3. ticket' = [ticket EXCEPT ![q.t] = [ticket[q.t] EXCEPT !.updated_at = now]]
  BY <1>1, <1>2 DEF WriteEntry, Rows
<1>4. ticket' \in [Tickets -> Rows(Admins)]
  BY <1>1, <1>2, <1>3 DEF Rows
<1>5. StampsMatchStatus'
  BY <1>1, <1>2, <1>3, <1>4, StampsKept DEF Rows
<1>6. EntryKind(q.kind) \in {"reply", "internal_note", "status_change", "system"}
  BY DEF EntryKind
<1>7. entries' \subseteq EntryRecords
  BY <1>1, <1>6 DEF WriteEntry, IInv, TypeOK, EntryRecords
<1>8. /\ req' \in [Requests -> RequestStates]
      /\ (\A s \in Requests : RequestInv(req[s]))'
  BY <1>1, ProceedInv DEF WriteEntry
<1>9. TypeOK'
  BY <1>4, <1>7, <1>8 DEF WriteEntry, IInv, TypeOK
<1> QED BY <1>5, <1>8, <1>9 DEF IInv

\* So does an audit record.
LEMMA WriteAuditInv ==
    ASSUME IInv, NEW r \in Requests, WriteAudit(r) PROVE IInv'
<1> DEFINE q == req[r]
<1>1. /\ q \in RequestStates /\ RequestInv(q) /\ q.t \in Tickets
      /\ q.rest # <<>> /\ q.rest # <<"select">>
  BY AtStatement DEF WriteAudit, At
<1>2. AuditAction(q.kind) \in {"reply", "note", "status_change", "assign"}
  BY DEF AuditAction
<1>3. q.from \in Values /\ q.to \in Values /\ NULL \in Values
  BY <1>1 DEF RequestStates, Values
<1>4. audit' \subseteq AuditRecords
  BY <1>1, <1>2, <1>3 DEF WriteAudit, IInv, TypeOK, AuditRecords
<1>5. /\ req' \in [Requests -> RequestStates]
      /\ (\A s \in Requests : RequestInv(req[s]))'
  BY <1>1, ProceedInv DEF WriteAudit
<1>6. TypeOK' /\ StampsMatchStatus'
  BY <1>4, <1>5 DEF WriteAudit, IInv, TypeOK, StampsMatchStatus
<1> QED BY <1>5, <1>6 DEF IInv

\* So does an announcement.
LEMMA PublishInv ==
    ASSUME IInv, NEW r \in Requests, Publish(r) PROVE IInv'
<1> DEFINE q == req[r]
<1>1. /\ q \in RequestStates /\ RequestInv(q) /\ q.t \in Tickets
      /\ q.rest # <<>> /\ q.rest # <<"select">>
  BY AtStatement DEF Publish, Announcements
<1>2. q.from \in Values /\ q.to \in Values /\ NULL \in Values
  BY <1>1 DEF RequestStates, Values
<1>3. events' \subseteq EventRecords
  BY <1>1, <1>2 DEF Publish, IInv, TypeOK, EventRecords
<1>4. /\ req' \in [Requests -> RequestStates]
      /\ (\A s \in Requests : RequestInv(req[s]))'
  BY <1>1, ProceedInv DEF Publish
<1>5. TypeOK' /\ StampsMatchStatus'
  BY <1>3, <1>4 DEF Publish, IInv, TypeOK, StampsMatchStatus
<1> QED BY <1>4, <1>5 DEF IInv

\* So does a failed statement, in each of the ways handlers go on after one.
LEMMA StatementFailsInv ==
    ASSUME IInv, NEW r \in Requests, StatementFails(r) PROVE IInv'
<1> DEFINE q == req[r]
<1>1. q \in RequestStates /\ RequestInv(q) /\ q.rest # <<>>
  BY AtStatement DEF StatementFails
<1>2. InFlight(r) /\ faults' \in 0..MaxFaults /\ now' \in 0..MaxNow /\ UNCHANGED tables
  BY DEF StatementFails, IInv, TypeOK
<1>3. Head(q.rest) # "select" => q.rest # <<"select">> /\ q.t \in Tickets
  BY <1>2, AtStatement
<1> SUFFICES /\ req' \in [Requests -> RequestStates]
             /\ \A s \in Requests : RequestInv(req'[s])
  BY <1>2, TablesUnchanged
<1>4. CASE Dropped(q) /\ Proceed(r, q)
  <2>1. Head(q.rest) # "select"
    BY <1>4 DEF Dropped, Announcements
  <2> QED BY <1>1, <1>3, <1>4, <2>1, ProceedInv
<1>5. CASE GoesBlank(q) /\ Proceed(r, [q EXCEPT !.blank = TRUE])
  <2> DEFINE p == [q EXCEPT !.blank = TRUE]
  <2>1. Head(q.rest) # "select"
    BY <1>5 DEF GoesBlank
  <2>2. /\ p \in RequestStates /\ p.rest = q.rest /\ p.kind = q.kind /\ p.t = q.t
        /\ p.from = q.from /\ p.to = q.to /\ p.todo = q.todo /\ p.pass = q.pass
    BY <1>1 DEF RequestStates
  <2>3. RequestInv(p)
    BY <1>1, <2>2 DEF RequestInv, Pending, Believed
  <2> HIDE DEF p
  <2> QED BY <1>1, <1>3, <1>5, <2>1, <2>2, <2>3, ProceedInv DEF p
<1>6. CASE SkipsTicket(q) /\ \E next \in CronContinues(q) : req' = [req EXCEPT ![r] = next]
  BY <1>1, <1>6, CronContinuesInv, RequestsInv DEF SkipsTicket
<1>7. CASE /\ ~(Dropped(q) \/ GoesBlank(q) \/ SkipsTicket(q))
           /\ req' = [req EXCEPT ![r].rest = <<>>]
  <2> DEFINE none == <<>>
             p == [q EXCEPT !.rest = none]
  <2>1. none \in Seq(Statements)
    OBVIOUS
  <2>2. req' = [req EXCEPT ![r] = p]
    BY <1>7 DEF IInv, TypeOK
  <2> HIDE DEF none
  <2>3. p \in RequestStates /\ p.rest = none /\ p.kind = q.kind /\ p.todo = q.todo
    BY <1>1, <2>1 DEF RequestStates
  <2>4. \A x : ~Pending(p, x)
    BY <2>3 DEF Pending, none
  <2>5. RequestInv(p)
    BY <1>1, <2>3, <2>4 DEF RequestInv, none
  <2> HIDE DEF p
  <2> QED BY <2>2, <2>3, <2>5, RequestsInv
<1> QED BY <1>2, <1>4, <1>5, <1>6, <1>7 DEF StatementFails

\* So does the death of the process.
LEMMA CrashInv ==
    ASSUME IInv, Crash PROVE IInv'
<1> DEFINE none == <<>>
           p(r) == [req[r] EXCEPT !.todo = {}, !.rest = none]
<1>1. none \in Seq(Statements) /\ req \in [Requests -> RequestStates]
  BY DEF IInv, TypeOK
<1>2. req' = [r \in Requests |-> p(r)]
  BY DEF Crash
<1> HIDE DEF none
<1>3. ASSUME NEW r \in Requests PROVE p(r) \in RequestStates /\ RequestInv(p(r))
  <2> DEFINE q == p(r)
  <2>1. q \in RequestStates /\ q.rest = none /\ q.todo = {}
    BY <1>1 DEF RequestStates
  <2>2. \A x : ~Pending(q, x)
    BY <2>1 DEF Pending, none
  <2> HIDE DEF q
  <2>3. RequestInv(q)
    BY <2>1, <2>2 DEF RequestInv, none
  <2> QED BY <2>1, <2>3 DEF q
<1> HIDE DEF p
<1>4. req' \in [Requests -> RequestStates] /\ \A r \in Requests : RequestInv(req'[r])
  BY <1>2, <1>3
<1>5. UNCHANGED tables /\ now' \in 0..MaxNow /\ faults' \in 0..MaxFaults
  <2>1. faults < MaxFaults /\ faults' = faults + 1 /\ UNCHANGED <<now, tables>>
    BY DEF Crash
  <2>2. now \in 0..MaxNow /\ faults \in 0..MaxFaults
    BY DEF IInv, TypeOK
  <2> QED BY <2>1, <2>2
<1> QED BY <1>4, <1>5, TablesUnchanged

\* The invariant is inductive.
LEMMA StepInv ==
    ASSUME IInv, [Next]_vars PROVE IInv'
<1>1. ASSUME NEW r \in Requests, Arrive(r) PROVE IInv'
  BY <1>1, ArriveInv
<1>2. ASSUME NEW r \in Requests, Step(r) PROVE IInv'
  BY <1>2, CronSelectInv, WriteStatusInv, WriteAssigneeInv, WriteEntryInv, WriteAuditInv,
     PublishInv DEF Step
<1>3. ASSUME NEW r \in Requests, StatementFails(r) PROVE IInv'
  BY <1>3, StatementFailsInv
<1>4. CASE Crash
  BY <1>4, CrashInv
<1>5. CASE Tick \/ UNCHANGED vars
  BY <1>5, TablesUnchanged DEF Tick, vars, tables, IInv, TypeOK
<1> QED BY <1>1, <1>2, <1>3, <1>4, <1>5 DEF Next

\* The inductive invariant holds in every reachable state.
THEOREM Invariance == Spec => []IInv
<1>1. Init => IInv
  BY InitIInv
<1>2. IInv /\ [Next]_vars => IInv'
  BY StepInv
<1> QED BY <1>1, <1>2, PTL DEF Spec

\* TypeCorrect: in every behavior of the handlers, the cron and the faults, the
\* rows, the thread, the audit log and the requests have their types.
THEOREM TypeCorrect == Spec => []TypeOK
<1>1. IInv => TypeOK
  BY DEF IInv
<1> QED BY <1>1, Invariance, PTL

\* StampsCorrect: for any number of tickets and of concurrent requests, the
\* timestamps of a row are those its status requires.
THEOREM StampsCorrect == Spec => []StampsMatchStatus
<1>1. IInv => StampsMatchStatus
  BY DEF IInv
<1> QED BY <1>1, Invariance, PTL

-----------------------------------------------------------------------------
(* A handler breaks the lifecycle map only on a row that was overwritten   *)

\* What one step adds to the history of status writes.
LEMMA OneMove ==
    ASSUME IInv, [Next]_vars, NEW m \in moves' \ moves
    PROVE  \E r \in Requests :
             /\ WriteStatus(r)
             /\ m = [req |-> r, ticket |-> req[r].t, from |-> ticket[req[r].t].status,
                     to |-> req[r].to]
<1>1. CASE \E r \in Requests : WriteStatus(r)
  BY <1>1 DEF WriteStatus
<1>2. ASSUME \A r \in Requests : ~WriteStatus(r) PROVE moves' = moves
  <2>1. ASSUME NEW r \in Requests, Arrive(r) PROVE moves' = moves
    BY <2>1 DEF Arrive, CustomerReply, CustomerReopen, AdminReply, AdminNote, AdminStatus,
                AdminAssign, AdminRunCron, Receive, tables
  <2>2. ASSUME NEW r \in Requests, Step(r) PROVE moves' = moves
    BY <1>2, <2>2 DEF Step, CronSelect, WriteAssignee, WriteEntry, WriteAudit, Publish, tables
  <2>3. ASSUME NEW r \in Requests, StatementFails(r) PROVE moves' = moves
    BY <2>3 DEF StatementFails, tables
  <2>4. CASE Crash
    BY <2>4 DEF Crash, tables
  <2>5. CASE Tick \/ UNCHANGED vars
    BY <2>5 DEF Tick, vars, tables
  <2> QED BY <2>1, <2>2, <2>3, <2>4, <2>5 DEF Next
<1> QED BY <1>1, <1>2

\* MovesCorrect: for any number of requests, statements failing and crashes
\* included, a status write the lifecycle map forbids overwrites a status other
\* than the one its handler had read.
THEOREM MovesCorrect == Spec => CurrentMovesAllowed
<1>1. ASSUME IInv, [Next]_vars, NEW m \in moves' \ moves,
             m.from = Believed(req[m.req])
      PROVE  AllowTransition(m.from, m.to, Trigger(req[m.req].kind))
  <2>1. PICK r \in Requests :
          /\ WriteStatus(r)
          /\ m = [req |-> r, ticket |-> req[r].t, from |-> ticket[req[r].t].status,
                  to |-> req[r].to]
    BY <1>1, OneMove
  <2>2. m.req = r /\ m.to = req[r].to
    BY <2>1
  <2>3. RequestInv(req[r]) /\ Pending(req[r], "update")
    BY <1>1, <2>1, AtStatement DEF WriteStatus, At
  <2>4. AllowTransition(Believed(req[r]), req[r].to, Trigger(req[r].kind))
    BY <2>3 DEF RequestInv
  <2> QED BY <1>1, <2>2, <2>4
<1>2. IInv /\ [Next]_vars =>
        [\A m \in moves' \ moves :
           LET q == req[m.req] IN
           m.from = Believed(q) => AllowTransition(m.from, m.to, Trigger(q.kind))]_vars
  BY <1>1
<1> QED BY <1>2, Invariance, PTL DEF Spec, CurrentMovesAllowed

-----------------------------------------------------------------------------
(* A closed ticket settles                                                 *)

ArmedReq(q, t) ==
    \/ t \in q.todo
    \/ /\ q.t = t
       /\ Pending(q, "update") \/ (Pending(q, "entry") /\ EntryKind(q.kind) = "reply")

\* Armed, as a predicate of the state of one request.
LEMMA ArmedIsArmedReq ==
    ASSUME NEW r \in Requests, NEW t \in Tickets
    PROVE  Armed(r, t) <=> ArmedReq(req[r], t)
  BY DEF Armed, ArmedReq, Pending

\* The cron takes only what it has selected.
LEMMA CronStaysUnarmed ==
    ASSUME NEW q \in RequestStates, NEW t \in Tickets, q.kind = "cron", t \notin q.todo,
           NEW n \in CronContinues(q)
    PROVE  ~ArmedReq(n, t)
<1>1. CASE q.todo # {}
  <2>1. PICK u \in q.todo : n = [q EXCEPT !.t = u, !.todo = @ \ {u}, !.to = "closed",
                                         !.rest = CloseOne]
    BY <1>1 DEF CronContinues
  <2>2. n.t = u /\ n.todo = q.todo \ {u}
    BY <2>1 DEF RequestStates
  <2> QED BY <2>2 DEF ArmedReq
<1>2. CASE q.todo = {} /\ q.pass = "resolved_idle"
  <2>1. n = [q EXCEPT !.pass = "waiting_idle", !.rest = <<"select">>]
    BY <1>2 DEF CronContinues
  <2>2. n.rest = <<"select">> /\ n.todo = {}
    BY <1>2, <2>1 DEF RequestStates
  <2> QED BY <2>2 DEF ArmedReq, Pending
<1>3. CASE q.todo = {} /\ q.pass # "resolved_idle"
  <2> DEFINE none == <<>>
  <2>1. n = [q EXCEPT !.rest = none]
    BY <1>3 DEF CronContinues
  <2> HIDE DEF none
  <2>2. n.rest = none /\ n.todo = {}
    BY <1>3, <2>1 DEF RequestStates
  <2> QED BY <2>2 DEF ArmedReq, Pending, none
<1> QED BY <1>1, <1>2, <1>3

\* No request arms itself against t while it executes its statements: the
\* others only shorten their list.
LEMMA StaysUnarmed ==
    ASSUME NEW q \in RequestStates, NEW t \in Tickets, q.rest # <<>>, ~ArmedReq(q, t),
           NEW n \in Continues(q)
    PROVE  ~ArmedReq(n, t)
<1>1. CASE q.kind = "cron" /\ Tail(q.rest) = <<>>
  BY <1>1, CronStaysUnarmed DEF Continues, ArmedReq
<1>2. CASE ~(q.kind = "cron" /\ Tail(q.rest) = <<>>)
  <2>1. n = [q EXCEPT !.rest = Tail(@)]
    BY <1>2 DEF Continues
  <2>2. n.rest = Tail(q.rest) /\ n.kind = q.kind /\ n.t = q.t /\ n.todo = q.todo
    BY <2>1 DEF RequestStates
  <2>3. \A x : Pending(n, x) => Pending(q, x)
    BY <2>2, TailPending
  <2> QED BY <2>2, <2>3 DEF ArmedReq
<1> QED BY <1>1, <1>2

\* The step of one request keeps t settled if it leaves it closed and unarmed.
LEMMA SettledByOne ==
    ASSUME IInv, NEW t \in Tickets, Settled(t), NEW r \in Requests, NEW q,
           req' = [req EXCEPT ![r] = q], ~ArmedReq(q, t), ticket'[t].status = "closed"
    PROVE  Settled(t)'
<1>1. req \in [Requests -> RequestStates]
  BY DEF IInv, TypeOK
<1>2. \A s \in Requests : req'[s] = IF s = r THEN q ELSE req[s]
  BY <1>1
<1>3. \A s \in Requests : ~ArmedReq(req[s], t)
  BY ArmedIsArmedReq DEF Settled
<1>4. \A s \in Requests : ~ArmedReq(req'[s], t)
  BY <1>2, <1>3
<1>5. \A s \in Requests : ~Armed(s, t)'
  BY <1>4 DEF Armed, ArmedReq, Pending
<1> QED BY <1>5 DEF Settled

\* Requests that arrive on a settled ticket: replies, reopens and status changes
\* are refused, notes and assignments do not arm.
LEMMA ArriveSettled ==
    ASSUME IInv, NEW t \in Tickets, Settled(t), NEW r \in Requests, Arrive(r)
    PROVE  Settled(t)' /\ Replies(t)' = Replies(t)
<1> USE DEF Receive
<1>1. UNCHANGED tables
  BY DEF Arrive, CustomerReply, CustomerReopen, AdminReply, AdminNote, AdminStatus,
         AdminAssign, AdminRunCron
<1>2. ticket'[t].status = "closed" /\ Replies(t)' = Replies(t)
  BY <1>1 DEF tables, Settled, Replies
<1>3. ASSUME NEW kind \in Kinds, NEW u \in Tickets, NEW from, NEW to,
             Receive(r, kind, u, from, to),
             u # t \/ kind \in {"admin_note", "admin_assign"},
             kind # "cron"
      PROVE  Settled(t)'
  <2> DEFINE script == Script(kind, from, to)
             q == [NewRequest EXCEPT !.kind = kind, !.t = u, !.from = from, !.to = to,
                                     !.rest = script]
  <2>1. req' = [req EXCEPT ![r] = q]
    BY <1>3
  <2>2. kind \in {"admin_note", "admin_assign"} =>
           script \in {<<"entry", "audit">>, <<"assign", "audit", "ticket_assigned">>}
    BY DEF Script
  <2> HIDE DEF script
  <2>3. q.t = u /\ q.todo = {} /\ q.rest = script /\ q.kind = kind
    BY DEF NewRequest
  <2> HIDE DEF q
  <2>4. kind \in {"admin_note", "admin_assign"} =>
           ~Pending(q, "update") /\ EntryKind(q.kind) # "reply"
    BY <2>2, <2>3 DEF Pending, EntryKind
  <2>5. ~ArmedReq(q, t)
    BY <1>3, <2>3, <2>4 DEF ArmedReq
  <2> QED BY <1>2, <2>1, <2>5, SettledByOne
<1>4. ticket[t].status = "closed" /\ \A to, trigger : ~AllowTransition("closed", to, trigger)
  BY DEF Settled, AllowTransition, Allowed
<1>5. CASE AdminRunCron(r)
  <2> DEFINE q == [NewRequest EXCEPT !.kind = "cron", !.rest = <<"select">>]
  <2>1. req' = [req EXCEPT ![r] = q]
    BY <1>5 DEF AdminRunCron
  <2>2. q.todo = {} /\ q.rest = <<"select">>
    BY DEF NewRequest
  <2>3. ~ArmedReq(q, t)
    BY <2>2 DEF ArmedReq, Pending
  <2> HIDE DEF q
  <2> QED BY <1>2, <2>1, <2>3, SettledByOne
<1>6. ASSUME NEW u \in Tickets, CustomerReply(r, u) PROVE Settled(t)'
  BY <1>3, <1>4, <1>6 DEF CustomerReply, Kinds
<1>7. ASSUME NEW u \in Tickets, CustomerReopen(r, u) PROVE Settled(t)'
  <2>1. Receive(r, "customer_reopen", u, ticket[u].status, "in_progress") /\ u # t
    BY <1>4, <1>7 DEF CustomerReopen
  <2> QED BY <1>3, <2>1 DEF Kinds
<1>8. ASSUME NEW u \in Tickets, AdminReply(r, u) PROVE Settled(t)'
  BY <1>3, <1>4, <1>8 DEF AdminReply, Kinds
<1>9. ASSUME NEW u \in Tickets, AdminNote(r, u) PROVE Settled(t)'
  BY <1>3, <1>9 DEF AdminNote, Kinds
<1>10. ASSUME NEW u \in Tickets, NEW to \in Statuses, AdminStatus(r, u, to) PROVE Settled(t)'
  <2>1. Receive(r, "admin_status", u, ticket[u].status, to) /\ u # t
    BY <1>4, <1>10 DEF AdminStatus
  <2> QED BY <1>3, <2>1 DEF Kinds
<1>11. ASSUME NEW u \in Tickets, NEW to \in Admins \cup {NULL}, AdminAssign(r, u, to)
       PROVE  Settled(t)'
  BY <1>3, <1>11 DEF AdminAssign, Kinds
<1> QED BY <1>2, <1>5, <1>6, <1>7, <1>8, <1>9, <1>10, <1>11 DEF Arrive

\* A request that proceeds without touching t leaves it settled.
LEMMA ProceedSettled ==
    ASSUME IInv, NEW t \in Tickets, Settled(t), NEW r \in Requests, NEW q \in RequestStates,
           q.rest # <<>>, ~ArmedReq(q, t), Proceed(r, q), ticket'[t].status = "closed"
    PROVE  Settled(t)'
<1>1. PICK n \in Continues(q) : req' = [req EXCEPT ![r] = n]
  BY DEF Proceed
<1>2. ~ArmedReq(n, t)
  BY StaysUnarmed
<1> QED BY <1>1, <1>2, SettledByOne

\* The statements of the requests in flight when a ticket is settled neither
\* change its status nor add a reply to it, and what the cron selects is not it.
LEMMA StepSettled ==
    ASSUME IInv, NEW t \in Tickets, Settled(t), NEW r \in Requests, Step(r)
    PROVE  Settled(t)' /\ Replies(t)' = Replies(t)
<1> DEFINE q == req[r]
<1>1. InFlight(r)
  BY DEF Step, CronSelect, WriteStatus, WriteAssignee, WriteEntry, WriteAudit, Publish, At
<1>2. /\ q \in RequestStates /\ RequestInv(q) /\ q.rest # <<>> /\ Pending(q, Head(q.rest))
      /\ Head(q.rest) # "select" => q.t \in Tickets
  BY <1>1, AtStatement
<1>3. ~ArmedReq(q, t) /\ ticket[t].status = "closed"
  BY ArmedIsArmedReq DEF Settled
<1>4. ticket \in [Tickets -> Rows(Admins)]
  BY DEF IInv, TypeOK
<1>5. CASE CronSelect(r)
  <2>1. PICK S \in Selections(q.pass) : Proceed(r, [q EXCEPT !.todo = S])
    BY <1>5 DEF CronSelect
  <2>2. t \notin S
    BY <1>3 DEF Selections, Idle, ResolvedAtIdle, WaitingIdle
  <2> DEFINE p == [q EXCEPT !.todo = S]
  <2>3. S \subseteq Tickets
    BY DEF Selections, Idle
  <2>4. p \in RequestStates /\ p.todo = S /\ p.rest = q.rest /\ p.kind = q.kind /\ p.t = q.t
    BY <1>2, <2>3 DEF RequestStates
  <2>5. ~ArmedReq(p, t)
    BY <1>3, <2>2, <2>4 DEF ArmedReq, Pending
  <2>6. UNCHANGED <<ticket, entries>>
    BY <1>5 DEF CronSelect, tables
  <2> HIDE DEF p
  <2>7. Proceed(r, p)
    BY <2>1 DEF p
  <2> QED BY <1>2, <1>3, <2>4, <2>5, <2>6, <2>7, ProceedSettled DEF Replies
<1>6. CASE WriteStatus(r)
  <2>1. Pending(q, "update")
    BY <1>2, <1>6 DEF WriteStatus, At
  <2>2. q.t # t
    BY <1>3, <2>1 DEF ArmedReq
  <2>3. ticket'[t] = ticket[t] /\ UNCHANGED entries /\ Proceed(r, q)
    BY <1>4, <1>6, <2>2 DEF WriteStatus
  <2> QED BY <1>2, <1>3, <2>3, ProceedSettled DEF Replies
<1>7. CASE WriteAssignee(r)
  <2>1. q.t \in Tickets
    BY <1>2, <1>7 DEF WriteAssignee, At
  <2>2. ticket'[t].status = ticket[t].status /\ UNCHANGED entries /\ Proceed(r, q)
    BY <1>4, <1>7, <2>1 DEF WriteAssignee, Rows
  <2> QED BY <1>2, <1>3, <2>2, ProceedSettled DEF Replies
<1>8. CASE WriteEntry(r)
  <2>1. Pending(q, "entry") /\ q.t \in Tickets
    BY <1>2, <1>8 DEF WriteEntry, At
  <2>2. ~(q.t = t /\ EntryKind(q.kind) = "reply")
    BY <1>3, <2>1 DEF ArmedReq
  <2>3. ticket'[t].status = ticket[t].status /\ Proceed(r, q)
    BY <1>4, <1>8, <2>1 DEF WriteEntry, Rows
  <2>4. entries' = entries \cup {[req |-> r, ticket |-> q.t, kind |-> EntryKind(q.kind)]}
    BY <1>8 DEF WriteEntry
  <2>5. Replies(t)' = Replies(t)
    BY <2>2, <2>4 DEF Replies
  <2> QED BY <1>2, <1>3, <2>3, <2>5, ProceedSettled
<1>9. CASE WriteAudit(r) \/ Publish(r)
  <2>1. UNCHANGED <<ticket, entries>> /\ Proceed(r, q)
    BY <1>9 DEF WriteAudit, Publish
  <2> QED BY <1>2, <1>3, <2>1, ProceedSettled DEF Replies
<1> QED BY <1>5, <1>6, <1>7, <1>8, <1>9 DEF Step

\* Whatever a handler does with a failed statement, a settled ticket stays so.
LEMMA StatementFailsSettled ==
    ASSUME IInv, NEW t \in Tickets, Settled(t), NEW r \in Requests, StatementFails(r)
    PROVE  Settled(t)' /\ Replies(t)' = Replies(t)
<1> DEFINE q == req[r]
<1>1. q \in RequestStates /\ q.rest # <<>> /\ ~ArmedReq(q, t)
  BY AtStatement, ArmedIsArmedReq DEF StatementFails, Settled
<1>2. UNCHANGED <<ticket, entries>> /\ ticket'[t].status = "closed"
  BY DEF StatementFails, tables, Settled
<1> SUFFICES Settled(t)'
  BY <1>2 DEF Replies
<1>3. CASE Dropped(q) /\ Proceed(r, q)
  BY <1>1, <1>2, <1>3, ProceedSettled
<1>4. CASE GoesBlank(q) /\ Proceed(r, [q EXCEPT !.blank = TRUE])
  <2> DEFINE p == [q EXCEPT !.blank = TRUE]
  <2>1. p \in RequestStates /\ p.todo = q.todo /\ p.rest = q.rest /\ p.kind = q.kind /\ p.t = q.t
    BY <1>1 DEF RequestStates
  <2>2. ~ArmedReq(p, t)
    BY <1>1, <2>1 DEF ArmedReq, Pending
  <2> HIDE DEF p
  <2>3. Proceed(r, p)
    BY <1>4 DEF p
  <2> QED BY <1>1, <1>2, <2>1, <2>2, <2>3, ProceedSettled
<1>5. CASE SkipsTicket(q) /\ \E next \in CronContinues(q) : req' = [req EXCEPT ![r] = next]
  <2>1. PICK n \in CronContinues(q) : req' = [req EXCEPT ![r] = n]
    BY <1>5
  <2>2. ~ArmedReq(n, t)
    BY <1>1, <1>5, <2>1, CronStaysUnarmed DEF SkipsTicket, ArmedReq
  <2> QED BY <1>2, <2>1, <2>2, SettledByOne
<1>6. CASE req' = [req EXCEPT ![r].rest = <<>>]
  <2> DEFINE none == <<>>
             p == [q EXCEPT !.rest = none]
  <2>1. req' = [req EXCEPT ![r] = p]
    BY <1>6 DEF IInv, TypeOK
  <2> HIDE DEF none
  <2>2. p.rest = none /\ p.todo = q.todo
    BY <1>1 DEF RequestStates
  <2>3. ~ArmedReq(p, t)
    BY <1>1, <2>2 DEF ArmedReq, Pending, none
  <2> HIDE DEF p
  <2> QED BY <1>2, <2>1, <2>3, SettledByOne
<1> QED BY <1>3, <1>4, <1>5, <1>6 DEF StatementFails

\* A crash disarms every request.
LEMMA CrashSettled ==
    ASSUME IInv, NEW t \in Tickets, Settled(t), Crash
    PROVE  Settled(t)' /\ Replies(t)' = Replies(t)
<1> DEFINE none == <<>>
<1>1. req' = [r \in Requests |-> [req[r] EXCEPT !.todo = {}, !.rest = none]]
  BY DEF Crash
<1>2. \A r \in Requests : req[r] \in RequestStates
  BY DEF IInv, TypeOK
<1> HIDE DEF none
<1>3. \A r \in Requests : req'[r].todo = {} /\ req'[r].rest = none
  BY <1>1, <1>2 DEF RequestStates
<1>4. \A r \in Requests : ~Armed(r, t)'
  BY <1>3 DEF Armed, none
<1> QED BY <1>4 DEF Crash, tables, Settled, Replies

\* ClosedSettlesCorrect: for any number of tickets, requests and faults, once a
\* ticket is closed and no request that had read it before is left, its status
\* and its replies never change again.
THEOREM ClosedSettlesCorrect == Spec => ClosedSettles
<1>1. ASSUME IInv, [Next]_vars, NEW t \in Tickets, Settled(t)
      PROVE  Settled(t)' /\ Replies(t)' = Replies(t)
  <2>1. ASSUME NEW r \in Requests, Arrive(r) PROVE Settled(t)' /\ Replies(t)' = Replies(t)
    BY <1>1, <2>1, ArriveSettled
  <2>2. ASSUME NEW r \in Requests, Step(r) PROVE Settled(t)' /\ Replies(t)' = Replies(t)
    BY <1>1, <2>2, StepSettled
  <2>3. ASSUME NEW r \in Requests, StatementFails(r)
        PROVE  Settled(t)' /\ Replies(t)' = Replies(t)
    BY <1>1, <2>3, StatementFailsSettled
  <2>4. CASE Crash
    BY <1>1, <2>4, CrashSettled
  <2>5. CASE Tick \/ UNCHANGED vars
    BY <1>1, <2>5 DEF Tick, vars, tables, Settled, Armed, Replies
  <2> QED BY <1>1, <2>1, <2>2, <2>3, <2>4, <2>5 DEF Next
<1>2. IInv /\ [Next]_vars =>
        [\A t \in Tickets : Settled(t) => Settled(t)' /\ Replies(t)' = Replies(t)]_vars
  BY <1>1
<1> QED BY <1>2, Invariance, PTL DEF Spec, ClosedSettles

-----------------------------------------------------------------------------
(* The auto-close loses no ticket it has selected                          *)

\* A cron run, in state q, has still to close t.
Owes(q, t) == /\ q.kind = "cron" /\ q.rest # <<>>
              /\ t \in q.todo \/ (q.t = t /\ Pending(q, "update"))

\* A run stops owing the closing of a ticket only by closing it.
EachIsClosed ==
    [][\A r \in Requests, t \in Tickets : Owes(req[r], t) /\ ~Owes(req'[r], t) =>
          ticket'[t].status = "closed" \/ faults' > faults]_vars

\* The first statement of the list is the current one; the others stay pending.
LEMMA OthersPend ==
    ASSUME NEW q \in RequestStates, q.rest # <<>>, NEW statement,
           Pending(q, statement), Head(q.rest) # statement
    PROVE  /\ Tail(q.rest) # <<>>
           /\ \E i \in DOMAIN Tail(q.rest) : Tail(q.rest)[i] = statement
<1> DEFINE s == q.rest
<1>1. s \in Seq(Statements) /\ s # <<>> /\ Head(s) = s[1]
  BY DEF RequestStates
<1>2. PICK i \in DOMAIN s : s[i] = statement
  BY DEF Pending
<1>3. /\ Tail(s) \in Seq(Statements) /\ Len(Tail(s)) = Len(s) - 1
      /\ \A j \in 1..Len(Tail(s)) : Tail(s)[j] = s[j + 1]
  BY <1>1, HeadTailProperties
<1>4. i \in 1..Len(s) /\ i # 1
  BY <1>1, <1>2
<1>5. i - 1 \in DOMAIN Tail(s) /\ (i - 1) + 1 = i
  BY <1>1, <1>3, <1>4
<1>6. Tail(s)[i - 1] = statement
  BY <1>1, <1>2, <1>3, <1>5
<1> QED BY <1>5, <1>6

\* What the run goes on with after a statement is still owed, unless the statement
\* was the UPDATE of that ticket.
LEMMA ContinuesOwes ==
    ASSUME NEW q \in RequestStates, NEW t \in Tickets, Owes(q, t), NEW n \in Continues(q),
           t \in q.todo \/ Head(q.rest) # "update"
    PROVE  Owes(n, t)
<1>1. q.kind = "cron" /\ q.rest # <<>>
  BY DEF Owes
<1>2. CASE t \in q.todo /\ Tail(q.rest) = <<>>
  <2>1. PICK u \in q.todo : n = [q EXCEPT !.t = u, !.todo = @ \ {u}, !.to = "closed",
                                         !.rest = CloseOne]
    <3>1. n \in CronContinues(q)
      BY <1>1, <1>2, Zenon DEF Continues
    <3>2. q.todo # {}
      BY <1>2
    <3> QED BY <3>1, <3>2, Zenon DEF CronContinues
  <2>2. n.kind = "cron" /\ n.t = u /\ n.todo = q.todo \ {u} /\ n.rest = CloseOne
    BY <1>1, <2>1 DEF RequestStates
  <2>3. Pending(n, "update") /\ n.rest # <<>>
    BY <2>2 DEF Pending, CloseOne
  <2> QED BY <1>2, <2>2, <2>3 DEF Owes
<1>3. CASE Tail(q.rest) # <<>>
  <2>1. n = [q EXCEPT !.rest = Tail(@)]
    BY <1>3 DEF Continues
  <2>2. n.kind = "cron" /\ n.t = q.t /\ n.todo = q.todo /\ n.rest = Tail(q.rest)
    BY <1>1, <2>1 DEF RequestStates
  <2>3. CASE t \in q.todo
    BY <1>3, <2>2, <2>3 DEF Owes
  <2>4. CASE t \notin q.todo
    <3>1. q.t = t /\ Pending(q, "update") /\ Head(q.rest) # "update"
      BY <2>4 DEF Owes
    <3>2. Pending(n, "update")
      <4>1. PICK i \in DOMAIN Tail(q.rest) : Tail(q.rest)[i] = "update"
        BY <1>1, <3>1, OthersPend
      <4> QED BY <2>2, <4>1 DEF Pending
    <3> QED BY <1>3, <2>2, <3>1, <3>2 DEF Owes
  <2> QED BY <2>3, <2>4
<1>4. CASE t \notin q.todo
  <2>1. Pending(q, "update") /\ Head(q.rest) # "update"
    BY <1>4 DEF Owes
  <2>2. Tail(q.rest) # <<>>
    BY <1>1, <2>1, OthersPend
  <2> QED BY <1>3, <2>2
<1> QED BY <1>2, <1>3, <1>4

\* One step of the run itself.
LEMMA StepOwes ==
    ASSUME IInv, NEW r \in Requests, Step(r), NEW t \in Tickets, Owes(req[r], t)
    PROVE  Owes(req'[r], t) \/ ticket'[t].status = "closed"
<1> DEFINE q == req[r]
<1>1. InFlight(r) /\ q \in RequestStates /\ RequestInv(q) /\ q.kind = "cron"
  BY AtStatement DEF Owes, InFlight
<1>2. ASSUME Proceed(r, q), t \in q.todo \/ Head(q.rest) # "update"
      PROVE  Owes(req'[r], t)
  <2>1. PICK n \in Continues(q) : req' = [req EXCEPT ![r] = n]
    BY <1>2 DEF Proceed
  <2>2. req'[r] = n
    BY <2>1 DEF IInv, TypeOK
  <2>3. PICK p : p = q
    OBVIOUS
  <2>4. Owes(n, t)
    BY <1>1, <1>2, <2>1, <2>3, ContinuesOwes
  <2> QED BY <2>2, <2>4
<1>3. CASE CronSelect(r)
  <2>1. Pending(q, "select")
    BY <1>1, <1>3, AtStatement DEF CronSelect, At
  <2>2. q.todo = {} /\ q.rest = <<"select">>
    BY <1>1, <2>1 DEF RequestInv
  <2>3. ~Pending(q, "update")
    BY <2>2 DEF Pending
  <2> QED BY <2>2, <2>3 DEF Owes
<1>4. CASE WriteStatus(r) /\ t \notin q.todo
  <2>1. q.t = t /\ Pending(q, "update")
    BY <1>4 DEF Owes
  <2>2. q.to = "closed"
    BY <1>1, <2>1 DEF RequestInv, AllowTransition, Allowed, Trigger
  <2>3. ticket' = [ticket EXCEPT ![q.t] = UpdateTicketStatus(@, q.to, now)]
    BY <1>4 DEF WriteStatus
  <2>4. ticket[t] \in Rows(Admins) /\ now \in Nat /\ ticket \in [Tickets -> Rows(Admins)]
    BY DEF IInv, TypeOK
  <2>5. ticket'[t] = UpdateTicketStatus(ticket[t], "closed", now)
    BY <2>1, <2>2, <2>3, <2>4
  <2>6. PICK row \in Rows(Admins), at \in Nat : row = ticket[t] /\ at = now
    BY <2>4
  <2>7. UpdateTicketStatus(row, "closed", at).status = "closed"
    BY <2>6, UpdateStamps DEF Statuses
  <2> QED BY <2>5, <2>6, <2>7
<1>5. CASE WriteStatus(r) /\ t \in q.todo
  BY <1>2, <1>5 DEF WriteStatus
<1>6. CASE WriteAssignee(r) \/ WriteEntry(r) \/ WriteAudit(r) \/ Publish(r)
  <2>1. Proceed(r, q)
    BY <1>6 DEF WriteAssignee, WriteEntry, WriteAudit, Publish
  <2>2. Head(q.rest) # "update"
    BY <1>6 DEF WriteAssignee, WriteEntry, WriteAudit, Publish, At, Announcements
  <2> QED BY <1>2, <2>1, <2>2
<1> QED BY <1>3, <1>4, <1>5, <1>6 DEF Step

\* ClosesWhatItSelects: every ticket that a run of the auto-close has selected stays
\* on its list until the run has closed it, through both passes and whatever other
\* requests do in between, unless a statement fails or the process dies.
THEOREM ClosesWhatItSelects == Spec => EachIsClosed
<1>1. ASSUME IInv, [Next]_vars, NEW r \in Requests, NEW t \in Tickets,
             Owes(req[r], t), ~Owes(req'[r], t)
      PROVE  ticket'[t].status = "closed" \/ faults' > faults
  <2>1. req'[r] # req[r]
    BY <1>1
  <2>2. faults \in Nat
    BY <1>1 DEF IInv, TypeOK
  <2>3. CASE Crash \/ \E s \in Requests : StatementFails(s)
    <3>1. faults' = faults + 1
      BY <2>3, Zenon DEF Crash, StatementFails
    <3> QED BY <2>2, <3>1
  <2>4. CASE Tick \/ UNCHANGED vars
    BY <2>1, <2>4 DEF Tick, vars
  <2>5. ASSUME NEW s \in Requests, Step(s)
        PROVE  ticket'[t].status = "closed" \/ faults' > faults
    <3>1. CASE s = r
      BY <1>1, <2>5, <3>1, StepOwes
    <3>2. CASE s # r
      <4>1. ASSUME NEW q, Proceed(s, q) PROVE req'[r] = req[r]
        BY <1>1, <3>2, <4>1 DEF Proceed, IInv, TypeOK
      <4>2. \E q : Proceed(s, q)
        BY <2>5, Zenon DEF Step, CronSelect, WriteStatus, WriteAssignee, WriteEntry, WriteAudit,
                           Publish
      <4> QED BY <2>1, <4>1, <4>2
    <3> QED BY <3>1, <3>2
  <2>6. ASSUME NEW s \in Requests, Arrive(s)
        PROVE  ticket'[t].status = "closed" \/ faults' > faults
    <3>1. req[s].kind = NULL
      BY <2>6, Zenon DEF Arrive, CustomerReply, CustomerReopen, AdminReply, AdminNote,
                         AdminStatus, AdminAssign, AdminRunCron, Receive
    <3>2. s # r
      BY <1>1, <3>1, KindsAssumption DEF Owes, Kinds
    <3>3. \E q : req' = [req EXCEPT ![s] = q]
      BY <2>6, Zenon DEF Arrive, CustomerReply, CustomerReopen, AdminReply, AdminNote,
                         AdminStatus, AdminAssign, AdminRunCron, Receive
    <3>4. req'[r] = req[r]
      BY <1>1, <3>2, <3>3 DEF IInv, TypeOK
    <3> QED BY <2>1, <3>4
  <2> QED BY <1>1, <2>3, <2>4, <2>5, <2>6 DEF Next
<1>2. IInv /\ [Next]_vars =>
        [\A r \in Requests, t \in Tickets : Owes(req[r], t) /\ ~Owes(req'[r], t) =>
            ticket'[t].status = "closed" \/ faults' > faults]_vars
  BY <1>1
<1> QED BY <1>2, Invariance, PTL DEF Spec, EachIsClosed

-----------------------------------------------------------------------------
(* The trail: what a request still tells of it has committed, and what it  *)
(* has committed it still tells of.                                        *)

\* The replies write their entry before the status, the other handlers after it.
Rank(kind, statement) ==
    CASE statement = "assign"                -> 0
      [] statement = "update" -> IF kind \in {"customer_reply", "admin_reply"} THEN 3 ELSE 0
      [] statement = "entry"                 -> 1
      [] statement = "audit"                 -> 2
      [] statement = "ticket_reopened"       -> 4
      [] statement = "ticket_status_changed" -> 5
      [] OTHER                               -> 6

\* What the statements left of a request look like.
Shape(q) ==
    /\ \A i, j \in DOMAIN q.rest :
         i < j => Rank(q.kind, q.rest[i]) < Rank(q.kind, q.rest[j])
    /\ q.kind = NULL => q.rest = <<>>
    /\ q.kind \in {"admin_note", "admin_assign"} => ~Pending(q, "update")
    /\ q.blank => q.kind \in {"customer_reply", "admin_reply"}
    /\ Pending(q, "ticket_resolved") => q.to = "resolved"
    /\ Pending(q, "ticket_closed")   => q.to = "closed"
    /\ Pending(q, "ticket_reopened") => q.to = "in_progress"

StatusAnnouncements ==
    {"ticket_status_changed", "ticket_resolved", "ticket_closed", "ticket_reopened"}

\* The statements that tell of a status.
Tells(kind) == StatusAnnouncements \cup (IF kind = "admin_status" THEN {"audit"} ELSE {})

\* What a request in state q has still to tell of is committed: es and ms are the
\* entries and the moves.
Backed(r, q, es, ms) ==
    /\ q.kind \in {"admin_reply", "admin_note"} /\ Pending(q, "audit") /\ ~Pending(q, "entry") =>
         [req |-> r, ticket |-> q.t, kind |-> EntryKind(q.kind)] \in es
    /\ \A x \in Tells(q.kind) : Pending(q, x) /\ ~Pending(q, "update") /\ ~q.blank =>
         \E m \in ms : m.req = r /\ m.ticket = q.t /\ m.to = q.to

\* The records a change of status leaves.
Records(kind, to) ==
    {"entry"} \cup (IF to = "closed"   THEN {"ticket_closed"} ELSE {})
              \cup (IF to = "resolved" THEN {"ticket_resolved"} ELSE {})
              \cup (IF kind # "cron"   THEN {"ticket_status_changed"} ELSE {})
              \cup (IF kind \in {"admin_status", "admin_reply"} THEN {"audit"} ELSE {})

\* The record is among the entries es, the audit records as or the events vs.
Recorded(r, t, to, record, es, as, vs) ==
    CASE record = "entry" -> \E e \in es : e.req = r /\ e.ticket = t
      [] record = "audit" -> \E a \in as : a.req = r /\ a.ticket = t
      [] OTHER -> \E e \in vs : /\ e.req = r /\ e.ticket = t /\ e.name = record
                                /\ record = "ticket_status_changed" => e.to = to

\* Every record of a status that the request has written or will write is there,
\* or the request will write it.
Trailed(r, q, es, as, vs, ms) ==
    /\ ~q.blank
    /\ Pending(q, "update") => \A x \in Records(q.kind, q.to) :
          Pending(q, x) \/ Recorded(r, q.t, q.to, x, es, as, vs)
    /\ \A m \in ms : m.req = r => \A x \in Records(q.kind, m.to) :
          \/ Recorded(r, m.ticket, m.to, x, es, as, vs)
          \/ Pending(q, x) /\ q.t = m.ticket /\ q.to = m.to

TrailInv ==
    /\ RecordsFollowCommits
    /\ \A m \in moves : req[m.req].kind # NULL
    /\ \A r \in Requests :
         /\ Shape(req[r])
         /\ Backed(r, req[r], entries, moves)
         /\ faults = 0 => Trailed(r, req[r], entries, audit, events, moves)

\* Ranks are numbers.
LEMMA RankNat == \A kind, x : Rank(kind, x) \in Nat
  BY DEF Rank

\* What is pending after the current statement is what was, without it, and is of
\* a higher rank.
LEMMA TailRank ==
    ASSUME NEW q \in RequestStates, q.rest # <<>>, Shape(q),
           NEW p, p.rest = Tail(q.rest)
    PROVE  /\ \A i, j \in DOMAIN p.rest :
                i < j => Rank(q.kind, p.rest[i]) < Rank(q.kind, p.rest[j])
           /\ \A x : Pending(p, x) <=> Pending(q, x) /\ x # Head(q.rest)
           /\ \A x : Pending(p, x) => Rank(q.kind, Head(q.rest)) < Rank(q.kind, x)
<1> DEFINE s == q.rest
           u == p.rest
           R(x) == Rank(q.kind, x)
<1>1. s \in Seq(Statements) /\ s # <<>>
  BY DEF RequestStates
<1>2. /\ u \in Seq(Statements) /\ Len(u) = Len(s) - 1 /\ Head(s) = s[1]
      /\ \A j \in 1..Len(u) : u[j] = s[j + 1]
  BY <1>1, HeadTailProperties
<1>3. Len(s) \in Nat /\ Len(u) \in Nat /\ DOMAIN s = 1..Len(s) /\ DOMAIN u = 1..Len(u) /\ Len(s) > 0
  BY <1>1, <1>2
<1>4. \A i, j \in DOMAIN s : i < j => R(s[i]) < R(s[j])
  BY DEF Shape
<1> HIDE DEF s, u, R
<1>5. ASSUME NEW i \in DOMAIN u, NEW j \in DOMAIN u, i < j PROVE R(u[i]) < R(u[j])
  <2>1. i + 1 \in DOMAIN s /\ j + 1 \in DOMAIN s /\ i + 1 < j + 1
    BY <1>2, <1>3, <1>5
  <2>2. u[i] = s[i + 1] /\ u[j] = s[j + 1]
    BY <1>2, <1>3, <1>5
  <2> QED BY <1>4, <2>1, <2>2
<1>6. \A x : R(x) \in Nat
  BY RankNat DEF R
<1>7. ASSUME NEW i \in DOMAIN u PROVE R(Head(s)) < R(u[i])
  <2>1. 1 \in DOMAIN s /\ i + 1 \in DOMAIN s /\ 1 < i + 1 /\ u[i] = s[i + 1]
    BY <1>2, <1>3, <1>7
  <2> QED BY <1>2, <1>4, <2>1
<1>8. ASSUME NEW x, Pending(q, x), x # Head(q.rest) PROVE Pending(p, x)
  <2>1. PICK i \in DOMAIN s : s[i] = x
    BY <1>8 DEF Pending, s
  <2>2. i # 1
    BY <1>2, <1>8, <2>1 DEF s
  <2>3. i - 1 \in DOMAIN u /\ u[i - 1] = s[(i - 1) + 1] /\ (i - 1) + 1 = i
    BY <1>2, <1>3, <2>1, <2>2
  <2> QED BY <2>1, <2>3 DEF Pending, u
<1>9. ASSUME NEW x, Pending(p, x)
      PROVE  Pending(q, x) /\ x # Head(q.rest) /\ Rank(q.kind, Head(q.rest)) < Rank(q.kind, x)
  <2>1. PICK i \in DOMAIN u : u[i] = x
    BY <1>9 DEF Pending, u
  <2>2. R(Head(s)) < R(x)
    BY <1>7, <2>1
  <2>3. x # Head(s)
    BY <1>6, <2>2
  <2>4. i + 1 \in DOMAIN s /\ s[i + 1] = x
    BY <1>2, <1>3, <2>1
  <2> QED BY <2>2, <2>3, <2>4 DEF Pending, s, R
<1>10. \A i, j \in DOMAIN p.rest : i < j => Rank(q.kind, p.rest[i]) < Rank(q.kind, p.rest[j])
  BY <1>5 DEF u, R
<1> QED BY <1>8, <1>9, <1>10

\* The cron goes on with a ticket it has selected, or with nothing that writes.
CronGoesOn(n) ==
    \/ /\ n.to = "closed"
       /\ \A x : Pending(n, x) <=> x \in {"update", "entry", "ticket_closed"}
    \/ \A x : Pending(n, x) => x = "select"

\* How the list of statements of n continues that of q.
Follows(q, n) ==
    /\ n.kind = q.kind /\ n.blank = q.blank
    /\ \/ /\ n.t = q.t /\ n.to = q.to
          /\ \A x : Pending(n, x) <=> Pending(q, x) /\ x # Head(q.rest)
       \/ /\ q.kind = "cron" /\ \A x : Pending(q, x) => x = Head(q.rest)
          /\ CronGoesOn(n)

\* The cron takes the next ticket in a good state.
LEMMA CronContinuesShape ==
    ASSUME NEW q \in RequestStates, q.kind = "cron", ~q.blank, NEW n \in CronContinues(q)
    PROVE  n.kind = "cron" /\ ~n.blank /\ CronGoesOn(n) /\ Shape(n)
<1>1. CASE q.todo # {}
  <2>1. PICK t \in q.todo : n = [q EXCEPT !.t = t, !.todo = @ \ {t}, !.to = "closed",
                                         !.rest = CloseOne]
    BY <1>1 DEF CronContinues
  <2>2. n.kind = "cron" /\ ~n.blank /\ n.to = "closed" /\ n.rest = CloseOne
    BY <2>1 DEF RequestStates
  <2>3. \A x : Pending(n, x) <=> x \in {"update", "entry", "ticket_closed"}
    BY <2>2 DEF Pending, CloseOne
  <2>4. \A i, j \in DOMAIN n.rest : i < j => Rank("cron", n.rest[i]) < Rank("cron", n.rest[j])
    BY <2>2 DEF CloseOne, Rank
  <2> QED BY <2>2, <2>3, <2>4, KindsAssumption DEF Kinds, CronGoesOn, Shape
<1>2. CASE q.todo = {} /\ q.pass = "resolved_idle"
  <2>1. n = [q EXCEPT !.pass = "waiting_idle", !.rest = <<"select">>]
    BY <1>2 DEF CronContinues
  <2>2. n.kind = "cron" /\ ~n.blank /\ n.rest = <<"select">>
    BY <2>1 DEF RequestStates
  <2>3. \A x : Pending(n, x) => x = "select"
    BY <2>2 DEF Pending
  <2>4. \A i, j \in DOMAIN n.rest : ~(i < j)
    BY <2>2
  <2> QED BY <2>2, <2>3, <2>4, KindsAssumption DEF Kinds, CronGoesOn, Shape
<1>3. CASE q.todo = {} /\ q.pass # "resolved_idle"
  <2> DEFINE none == <<>>
  <2>1. n = [q EXCEPT !.rest = none]
    BY <1>3 DEF CronContinues
  <2> HIDE DEF none
  <2>2. n.kind = "cron" /\ ~n.blank /\ n.rest = none
    BY <2>1 DEF RequestStates
  <2>3. \A x : ~Pending(n, x)
    BY <2>2 DEF Pending, none
  <2>4. DOMAIN n.rest = {}
    BY <2>2 DEF none
  <2> QED BY <2>2, <2>3, <2>4, KindsAssumption DEF Kinds, CronGoesOn, Shape
<1> QED BY <1>1, <1>2, <1>3

\* After a statement a request has the rest of its list, or is a cron run that goes on.
LEMMA ContinuesFollows ==
    ASSUME NEW q \in RequestStates, q.rest # <<>>, Shape(q), NEW n \in Continues(q)
    PROVE  Follows(q, n) /\ Shape(n)
<1>1. CASE q.kind = "cron" /\ Tail(q.rest) = <<>>
  <2>1. n \in CronContinues(q) /\ ~q.blank
    BY <1>1 DEF Continues, Shape
  <2>2. n.kind = "cron" /\ ~n.blank /\ CronGoesOn(n) /\ Shape(n)
    BY <1>1, <2>1, CronContinuesShape
  <2> DEFINE p == [rest |-> Tail(q.rest)]
  <2>3. p.rest = Tail(q.rest) /\ \A x : ~Pending(p, x)
    BY <1>1 DEF Pending
  <2> HIDE DEF p
  <2>4. \A x : Pending(q, x) => x = Head(q.rest)
    BY <2>3, TailRank
  <2>5. q.blank \in BOOLEAN /\ n.blank \in BOOLEAN
    <3>1. n \in RequestStates
      BY <1>1, <2>1, CronContinuesInv
    <3> QED BY <3>1 DEF RequestStates
  <2> QED BY <1>1, <2>1, <2>2, <2>4, <2>5 DEF Follows
<1>2. CASE ~(q.kind = "cron" /\ Tail(q.rest) = <<>>)
  <2>1. n = [q EXCEPT !.rest = Tail(@)]
    BY <1>2 DEF Continues
  <2>2. q.rest \in Seq(Statements) /\ Tail(q.rest) \in Seq(Statements)
    BY HeadTailProperties DEF RequestStates
  <2>3. /\ n.rest = Tail(q.rest) /\ n.kind = q.kind /\ n.t = q.t
        /\ n.to = q.to /\ n.blank = q.blank
    BY <2>1, <2>2 DEF RequestStates
  <2>4. /\ \A i, j \in DOMAIN n.rest :
              i < j => Rank(q.kind, n.rest[i]) < Rank(q.kind, n.rest[j])
        /\ \A x : Pending(n, x) <=> Pending(q, x) /\ x # Head(q.rest)
    BY <2>3, TailRank
  <2>5. q.kind # NULL
    BY DEF Shape
  <2> QED BY <2>3, <2>4, <2>5 DEF Follows, Shape
<1> QED BY <1>1, <1>2

\* A record stays where it is.
LEMMA RecordedGrows ==
    ASSUME NEW r, NEW t, NEW to, NEW x, NEW es, NEW as, NEW vs, NEW es2, NEW as2, NEW vs2,
           es \subseteq es2, as \subseteq as2, vs \subseteq vs2,
           Recorded(r, t, to, x, es, as, vs)
    PROVE  Recorded(r, t, to, x, es2, as2, vs2)
<1>1. CASE x = "entry"
  BY <1>1 DEF Recorded
<1>2. CASE x = "audit"
  BY <1>2 DEF Recorded
<1>3. CASE x # "entry" /\ x # "audit"
  BY <1>3 DEF Recorded
<1> QED BY <1>1, <1>2, <1>3

\* The records of others leave what is said of a request as it is.
LEMMA TrailGrows ==
    ASSUME NEW r, NEW q, NEW es, NEW as, NEW vs, NEW ms,
           NEW es2, NEW as2, NEW vs2, NEW ms2,
           es \subseteq es2, as \subseteq as2, vs \subseteq vs2, ms \subseteq ms2,
           \A m \in ms2 : m.req = r => m \in ms
    PROVE  /\ Backed(r, q, es, ms) => Backed(r, q, es2, ms2)
           /\ Trailed(r, q, es, as, vs, ms) => Trailed(r, q, es2, as2, vs2, ms2)
<1>1. ASSUME Backed(r, q, es, ms) PROVE Backed(r, q, es2, ms2)
  BY <1>1 DEF Backed
<1>2. ASSUME Trailed(r, q, es, as, vs, ms) PROVE Trailed(r, q, es2, as2, vs2, ms2)
  <2>1. \A t, to, x : Recorded(r, t, to, x, es, as, vs) => Recorded(r, t, to, x, es2, as2, vs2)
    BY RecordedGrows
  <2> QED BY <1>2, <2>1 DEF Trailed
<1> QED BY <1>1, <1>2

\* After a statement that neither wrote an entry nor a status, what is left to tell
\* of is committed as before.
LEMMA FollowsBacked ==
    ASSUME NEW r, NEW q, NEW n, NEW es, NEW ms, Follows(q, n), Backed(r, q, es, ms),
           Head(q.rest) \notin {"entry", "update"}
    PROVE  Backed(r, n, es, ms)
<1>1. CASE /\ n.t = q.t /\ n.to = q.to
           /\ \A x : Pending(n, x) <=> Pending(q, x) /\ x # Head(q.rest)
  BY <1>1 DEF Follows, Backed
<1>2. CASE q.kind = "cron" /\ CronGoesOn(n)
  BY <1>2 DEF Follows, Backed, CronGoesOn, Tells, StatusAnnouncements
<1> QED BY <1>1, <1>2 DEF Follows

\* After a statement that wrote its record, the trail is still kept: ms are the
\* request's moves before and after.
LEMMA FollowsTrailed ==
    ASSUME NEW r, NEW q, NEW n, NEW es, NEW as, NEW vs, NEW ms, Follows(q, n),
           Trailed(r, q, es, as, vs, ms),
           Head(q.rest) \in Records(q.kind, q.to) =>
              Recorded(r, q.t, q.to, Head(q.rest), es, as, vs)
    PROVE  Trailed(r, n, es, as, vs, ms)
<1> DEFINE Rec(t, to, x) == Recorded(r, t, to, x, es, as, vs)
<1>0. /\ ~q.blank
      /\ Pending(q, "update") => \A x \in Records(q.kind, q.to) :
            Pending(q, x) \/ Rec(q.t, q.to, x)
      /\ \A m \in ms : m.req = r => \A x \in Records(q.kind, m.to) :
            Rec(m.ticket, m.to, x) \/ (Pending(q, x) /\ q.t = m.ticket /\ q.to = m.to)
      /\ Head(q.rest) \in Records(q.kind, q.to) => Rec(q.t, q.to, Head(q.rest))
  BY DEF Trailed
<1> HIDE DEF Rec
<1>1. n.kind = q.kind /\ ~n.blank
  BY <1>0 DEF Follows
<1>2. CASE /\ n.t = q.t /\ n.to = q.to
           /\ \A x : Pending(n, x) <=> Pending(q, x) /\ x # Head(q.rest)
  <2>1. Pending(n, "update") => \A x \in Records(n.kind, n.to) :
            Pending(n, x) \/ Rec(n.t, n.to, x)
    BY <1>0, <1>1, <1>2
  <2>2. \A m \in ms : m.req = r => \A x \in Records(n.kind, m.to) :
            Rec(m.ticket, m.to, x) \/ (Pending(n, x) /\ n.t = m.ticket /\ n.to = m.to)
    BY <1>0, <1>1, <1>2
  <2> QED BY <1>1, <2>1, <2>2 DEF Trailed, Rec
<1>3. CASE /\ q.kind = "cron" /\ \A x : Pending(q, x) => x = Head(q.rest)
           /\ CronGoesOn(n)
  <2>1. Pending(n, "update") => \A x \in Records(n.kind, n.to) : Pending(n, x)
    BY <1>1, <1>3 DEF CronGoesOn, Records
  <2>2. \A m \in ms : m.req = r => \A x \in Records(n.kind, m.to) : Rec(m.ticket, m.to, x)
    BY <1>0, <1>1, <1>3
  <2> QED BY <1>1, <2>1, <2>2 DEF Trailed, Rec
<1> QED BY <1>2, <1>3 DEF Follows

-----------------------------------------------------------------------------
(* Every step keeps the trail                                              *)

TrailInductive == IInv /\ TrailInv

\* What the audit log and the event bus tell stays committed.
LEMMA RecordsStay ==
    ASSUME RecordsFollowCommits, entries \subseteq entries', moves \subseteq moves',
           UNCHANGED <<audit, events>>
    PROVE  RecordsFollowCommits'
  BY DEF RecordsFollowCommits

\* The step of one request is looked at for that request alone.
LEMMA TrailOfOne ==
    ASSUME TrailInductive, NEW r \in Requests, NEW n,
           req' = [req EXCEPT ![r] = n],
           entries \subseteq entries', audit \subseteq audit', events \subseteq events',
           moves \subseteq moves', \A m \in moves' \ moves : m.req = r,
           faults' = 0 => faults = 0,
           (\E m \in moves' : m.req = r) => n.kind # NULL,
           Shape(n), Backed(r, n, entries', moves'),
           faults' = 0 => Trailed(r, n, entries', audit', events', moves'),
           RecordsFollowCommits'
    PROVE  TrailInv'
<1>1. req \in [Requests -> RequestStates] /\ moves \subseteq MoveRecords
  BY DEF TrailInductive, IInv, TypeOK
<1>2. \A s \in Requests : req'[s] = IF s = r THEN n ELSE req[s]
  BY <1>1
<1>3. \A m \in moves' : req'[m.req].kind # NULL
  <2> SUFFICES ASSUME NEW m \in moves' PROVE req'[m.req].kind # NULL
    OBVIOUS
  <2>1. CASE m.req = r
    BY <1>2, <2>1
  <2>2. CASE m.req # r
    <3>1. m \in moves
      BY <2>2
    <3>2. m.req \in Requests
      BY <1>1, <3>1 DEF MoveRecords
    <3> QED BY <1>2, <2>2, <3>1, <3>2 DEF TrailInductive, TrailInv
  <2> QED BY <2>1, <2>2
<1>4. ASSUME NEW s \in Requests
      PROVE  /\ Shape(req'[s]) /\ Backed(s, req'[s], entries', moves')
             /\ faults' = 0 => Trailed(s, req'[s], entries', audit', events', moves')
  <2>1. CASE s = r
    BY <1>2, <2>1
  <2>2. CASE s # r
    <3>1. req'[s] = req[s]
      BY <1>2, <2>2
    <3>2. \A m \in moves' : m.req = s => m \in moves
      BY <2>2
    <3>3. /\ Shape(req[s]) /\ Backed(s, req[s], entries, moves)
          /\ faults = 0 => Trailed(s, req[s], entries, audit, events, moves)
      BY DEF TrailInductive, TrailInv
    <3>4. /\ Backed(s, req[s], entries, moves) => Backed(s, req[s], entries', moves')
          /\ Trailed(s, req[s], entries, audit, events, moves)
               => Trailed(s, req[s], entries', audit', events', moves')
      BY <3>2, TrailGrows
    <3> QED BY <3>1, <3>3, <3>4
  <2> QED BY <2>1, <2>2
<1> QED BY <1>3, <1>4 DEF TrailInv

\* A request that is received has everything still to write, and every handler
\* that writes a status has all the records of it on its list.
LEMMA ScriptTrail ==
    ASSUME NEW kind \in Kinds \ {"cron"}, NEW t, NEW from, NEW to,
           kind \in {"customer_reply", "customer_reopen", "admin_reply"} => to = "in_progress",
           NEW q, q = [NewRequest EXCEPT !.kind = kind, !.t = t, !.from = from, !.to = to,
                                         !.rest = Script(kind, from, to)],
           NEW r, NEW es, NEW as, NEW vs, NEW ms, \A m \in ms : m.req # r
    PROVE  /\ q.kind = kind /\ Shape(q) /\ Backed(r, q, es, ms)
           /\ Trailed(r, q, es, as, vs, ms)
<1> DEFINE script == Script(kind, from, to)
<1> HIDE DEF script
<1>1. q = [NewRequest EXCEPT !.kind = kind, !.t = t, !.from = from, !.to = to, !.rest = script]
  BY DEF script
<1>2. q.kind = kind /\ q.t = t /\ q.from = from /\ q.to = to /\ q.rest = script /\ ~q.blank
  BY <1>1 DEF NewRequest
<1>4. SUFFICES
        /\ \A i, j \in DOMAIN q.rest :
             i < j => Rank(q.kind, q.rest[i]) < Rank(q.kind, q.rest[j])
        /\ kind \in {"admin_note", "admin_assign"} => ~Pending(q, "update")
        /\ Pending(q, "ticket_resolved") => to = "resolved"
        /\ Pending(q, "ticket_closed")   => to = "closed"
        /\ Pending(q, "ticket_reopened") => to = "in_progress"
        /\ Pending(q, "audit") /\ kind \in {"admin_reply", "admin_note"} => Pending(q, "entry")
        /\ \A x \in Tells(kind) : Pending(q, x) => Pending(q, "update")
        /\ Pending(q, "update") => \A x \in Records(kind, to) : Pending(q, x)
  BY <1>2, KindsAssumption DEF Shape, Backed, Trailed
<1> USE DEF Tells, StatusAnnouncements, Records
<1>5. CASE kind = "customer_reply" /\ from = "waiting_customer"
  <2>1. script = <<"entry", "update", "ticket_status_changed", "ticket_replied">>
    BY <1>5 DEF script, Script
  <2>2. \A x : Pending(q, x) <=> x \in {"entry", "update", "ticket_status_changed", "ticket_replied"}
    BY <1>2, <2>1 DEF Pending
  <2>3. \A i, j \in DOMAIN q.rest : i < j => Rank(q.kind, q.rest[i]) < Rank(q.kind, q.rest[j])
    BY <1>2, <2>1, <1>5 DEF Rank
  <2> QED BY <1>5, <2>2, <2>3
<1>6. CASE kind = "customer_reply" /\ from # "waiting_customer"
  <2>1. script = <<"entry", "ticket_replied">>
    BY <1>6 DEF script, Script
  <2>2. \A x : Pending(q, x) <=> x \in {"entry", "ticket_replied"}
    BY <1>2, <2>1 DEF Pending
  <2>3. \A i, j \in DOMAIN q.rest : i < j => Rank(q.kind, q.rest[i]) < Rank(q.kind, q.rest[j])
    BY <1>2, <2>1, <1>6 DEF Rank
  <2> QED BY <1>6, <2>2, <2>3
<1>7. CASE kind = "customer_reopen"
  <2>1. script = <<"update", "entry", "ticket_reopened", "ticket_status_changed">>
    BY <1>7 DEF script, Script
  <2>2. \A x : Pending(q, x) <=>
               x \in {"update", "entry", "ticket_reopened", "ticket_status_changed"}
    BY <1>2, <2>1 DEF Pending
  <2>3. \A i, j \in DOMAIN q.rest : i < j => Rank(q.kind, q.rest[i]) < Rank(q.kind, q.rest[j])
    BY <1>2, <2>1, <1>7 DEF Rank
  <2> QED BY <1>7, <2>2, <2>3
<1>8. CASE kind = "admin_reply" /\ from = "open"
  <2>1. script = <<"entry", "audit", "update", "ticket_status_changed", "ticket_replied">>
    BY <1>8 DEF script, Script
  <2>2. \A x : Pending(q, x) <=>
               x \in {"entry", "audit", "update", "ticket_status_changed", "ticket_replied"}
    BY <1>2, <2>1 DEF Pending
  <2>3. \A i, j \in DOMAIN q.rest : i < j => Rank(q.kind, q.rest[i]) < Rank(q.kind, q.rest[j])
    BY <1>2, <2>1, <1>8 DEF Rank
  <2> QED BY <1>8, <2>2, <2>3
<1>9. CASE kind = "admin_reply" /\ from # "open"
  <2>1. script = <<"entry", "audit", "ticket_replied">>
    BY <1>9 DEF script, Script
  <2>2. \A x : Pending(q, x) <=> x \in {"entry", "audit", "ticket_replied"}
    BY <1>2, <2>1 DEF Pending
  <2>3. \A i, j \in DOMAIN q.rest : i < j => Rank(q.kind, q.rest[i]) < Rank(q.kind, q.rest[j])
    BY <1>2, <2>1, <1>9 DEF Rank
  <2> QED BY <1>9, <2>2, <2>3
<1>10. CASE kind = "admin_note"
  <2>1. script = <<"entry", "audit">>
    BY <1>10 DEF script, Script
  <2>2. \A x : Pending(q, x) <=> x \in {"entry", "audit"}
    BY <1>2, <2>1 DEF Pending
  <2>3. \A i, j \in DOMAIN q.rest : i < j => Rank(q.kind, q.rest[i]) < Rank(q.kind, q.rest[j])
    BY <1>2, <2>1, <1>10 DEF Rank
  <2> QED BY <1>10, <2>2, <2>3
<1>11. CASE kind = "admin_status" /\ to = "resolved"
  <2>1. script = <<"update", "entry", "audit", "ticket_status_changed", "ticket_resolved">>
    BY <1>11 DEF script, Script
  <2>2. \A x : Pending(q, x) <=>
               x \in {"update", "entry", "audit", "ticket_status_changed", "ticket_resolved"}
    BY <1>2, <2>1 DEF Pending
  <2>3. \A i, j \in DOMAIN q.rest : i < j => Rank(q.kind, q.rest[i]) < Rank(q.kind, q.rest[j])
    BY <1>2, <2>1, <1>11 DEF Rank
  <2> QED BY <1>11, <2>2, <2>3
<1>12. CASE kind = "admin_status" /\ to = "closed"
  <2>1. script = <<"update", "entry", "audit", "ticket_status_changed", "ticket_closed">>
    BY <1>12 DEF script, Script
  <2>2. \A x : Pending(q, x) <=>
               x \in {"update", "entry", "audit", "ticket_status_changed", "ticket_closed"}
    BY <1>2, <2>1 DEF Pending
  <2>3. \A i, j \in DOMAIN q.rest : i < j => Rank(q.kind, q.rest[i]) < Rank(q.kind, q.rest[j])
    BY <1>2, <2>1, <1>12 DEF Rank
  <2> QED BY <1>12, <2>2, <2>3
<1>13. CASE kind = "admin_status" /\ to \notin {"resolved", "closed"}
  <2>1. script = <<"update", "entry", "audit", "ticket_status_changed">>
    BY <1>13 DEF script, Script
  <2>2. \A x : Pending(q, x) <=> x \in {"update", "entry", "audit", "ticket_status_changed"}
    BY <1>2, <2>1 DEF Pending
  <2>3. \A i, j \in DOMAIN q.rest : i < j => Rank(q.kind, q.rest[i]) < Rank(q.kind, q.rest[j])
    BY <1>2, <2>1, <1>13 DEF Rank
  <2> QED BY <1>13, <2>2, <2>3
<1>14. CASE kind = "admin_assign"
  <2>1. script = <<"assign", "audit", "ticket_assigned">>
    BY <1>14 DEF script, Script
  <2>2. \A x : Pending(q, x) <=> x \in {"assign", "audit", "ticket_assigned"}
    BY <1>2, <2>1 DEF Pending
  <2>3. \A i, j \in DOMAIN q.rest : i < j => Rank(q.kind, q.rest[i]) < Rank(q.kind, q.rest[j])
    BY <1>2, <2>1, <1>14 DEF Rank
  <2> QED BY <1>14, <2>2, <2>3
<1> QED BY <1>5, <1>6, <1>7, <1>8, <1>9, <1>10, <1>11, <1>12, <1>13, <1>14 DEF Kinds

\* The plugin starts with nothing to tell.
LEMMA InitTrail == Init => TrailInv
<1> SUFFICES ASSUME Init PROVE TrailInv
  OBVIOUS
<1> DEFINE q == NewRequest
<1>1. q.kind = NULL /\ q.rest = <<>> /\ ~q.blank
  BY DEF NewRequest
<1>2. \A x : ~Pending(q, x)
  BY <1>1 DEF Pending
<1>3. Shape(q)
  BY <1>1, <1>2, KindsAssumption DEF Shape, Kinds
<1>4. \A r : Backed(r, q, {}, {}) /\ Trailed(r, q, {}, {}, {}, {})
  BY <1>1, <1>2 DEF Backed, Trailed
<1> HIDE DEF q
<1>5. \A r \in Requests : req[r] = q
  BY DEF Init, q
<1>6. entries = {} /\ audit = {} /\ events = {} /\ moves = {}
  BY DEF Init
<1>7. RecordsFollowCommits
  BY <1>6 DEF RecordsFollowCommits
<1> QED BY <1>3, <1>4, <1>5, <1>6, <1>7 DEF TrailInv

\* Receiving a request keeps the trail.
LEMMA ArriveTrail ==
    ASSUME TrailInductive, NEW r \in Requests, Arrive(r) PROVE TrailInv'
<1>1. UNCHANGED <<tables, faults>> /\ req[r].kind = NULL
  BY DEF Arrive, CustomerReply, CustomerReopen, AdminReply, AdminNote, AdminStatus,
         AdminAssign, AdminRunCron, Receive
<1>2. \A m \in moves : m.req # r
  BY <1>1 DEF TrailInductive, TrailInv
<1>3. RecordsFollowCommits'
  BY <1>1, RecordsStay DEF TrailInductive, TrailInv, tables
<1>4. ASSUME NEW kind \in Kinds \ {"cron"}, NEW t, NEW from, NEW to,
             kind \in {"customer_reply", "customer_reopen", "admin_reply"} => to = "in_progress",
             Receive(r, kind, t, from, to)
      PROVE  TrailInv'
  <2> DEFINE q == [NewRequest EXCEPT !.kind = kind, !.t = t, !.from = from, !.to = to,
                                     !.rest = Script(kind, from, to)]
  <2>1. req' = [req EXCEPT ![r] = q]
    BY <1>4 DEF Receive
  <2>2. /\ q.kind = kind /\ Shape(q) /\ Backed(r, q, entries, moves)
        /\ Trailed(r, q, entries, audit, events, moves)
    BY <1>2, <1>4, ScriptTrail
  <2> HIDE DEF q
  <2> QED BY <1>1, <1>3, <2>1, <2>2, KindsAssumption, TrailOfOne DEF tables
<1>5. ASSUME NEW t \in Tickets, CustomerReply(r, t) PROVE TrailInv'
  BY <1>4, <1>5 DEF CustomerReply, Kinds
<1>6. ASSUME NEW t \in Tickets, CustomerReopen(r, t) PROVE TrailInv'
  BY <1>4, <1>6 DEF CustomerReopen, Kinds
<1>7. ASSUME NEW t \in Tickets, AdminReply(r, t) PROVE TrailInv'
  BY <1>4, <1>7 DEF AdminReply, Kinds
<1>8. ASSUME NEW t \in Tickets, AdminNote(r, t) PROVE TrailInv'
  BY <1>4, <1>8 DEF AdminNote, Kinds
<1>9. ASSUME NEW t \in Tickets, NEW to \in Statuses, AdminStatus(r, t, to) PROVE TrailInv'
  BY <1>4, <1>9 DEF AdminStatus, Kinds
<1>10. ASSUME NEW t \in Tickets, NEW to \in Admins \cup {NULL}, AdminAssign(r, t, to)
       PROVE  TrailInv'
  BY <1>4, <1>10 DEF AdminAssign, Kinds
<1>11. CASE AdminRunCron(r)
  <2> DEFINE q == [NewRequest EXCEPT !.kind = "cron", !.rest = <<"select">>]
  <2>1. req' = [req EXCEPT ![r] = q]
    BY <1>11 DEF AdminRunCron
  <2>2. q.kind = "cron" /\ q.rest = <<"select">> /\ ~q.blank
    BY DEF NewRequest
  <2> HIDE DEF q
  <2>3. \A x : Pending(q, x) => x = "select"
    BY <2>2 DEF Pending
  <2>4. \A i, j \in DOMAIN q.rest : ~(i < j)
    BY <2>2
  <2>5. Shape(q)
    BY <2>2, <2>3, <2>4, KindsAssumption DEF Shape, Kinds
  <2>6. Backed(r, q, entries, moves) /\ Trailed(r, q, entries, audit, events, moves)
    BY <1>2, <2>2, <2>3 DEF Backed, Trailed, Tells, StatusAnnouncements
  <2> QED BY <1>1, <1>2, <1>3, <2>1, <2>5, <2>6, TrailOfOne DEF tables
<1> QED BY <1>5, <1>6, <1>7, <1>8, <1>9, <1>10, <1>11 DEF Arrive

\* What the trail says of a request in flight.
LEMMA TrailAtStatement ==
    ASSUME TrailInductive, NEW r \in Requests, InFlight(r)
    PROVE  LET q == req[r] IN
           /\ q \in RequestStates /\ q.rest # <<>> /\ Pending(q, Head(q.rest))
           /\ Shape(q) /\ q.kind # NULL
           /\ Backed(r, q, entries, moves)
           /\ faults = 0 => Trailed(r, q, entries, audit, events, moves)
  BY AtStatement DEF TrailInductive, TrailInv, Shape, InFlight

\* A pending statement is of no lower rank than the current one.
LEMMA Earlier ==
    ASSUME NEW q \in RequestStates, q.rest # <<>>, Shape(q), NEW x,
           Rank(q.kind, x) < Rank(q.kind, Head(q.rest))
    PROVE  ~Pending(q, x)
<1> DEFINE p == [rest |-> Tail(q.rest)]
<1>1. p.rest = Tail(q.rest)
  OBVIOUS
<1> HIDE DEF p
<1>2. /\ \A y : Pending(p, y) <=> Pending(q, y) /\ y # Head(q.rest)
      /\ \A y : Pending(p, y) => Rank(q.kind, Head(q.rest)) < Rank(q.kind, y)
  BY <1>1, TailRank
<1>3. Rank(q.kind, x) \in Nat /\ Rank(q.kind, Head(q.rest)) \in Nat
  BY RankNat
<1> QED BY <1>2, <1>3

\* The selection of the cron writes nothing.
LEMMA CronSelectTrail ==
    ASSUME TrailInductive, NEW r \in Requests, CronSelect(r) PROVE TrailInv'
<1> DEFINE q == req[r]
<1>1. /\ q \in RequestStates /\ q.rest # <<>> /\ Shape(q) /\ q.kind # NULL
      /\ Backed(r, q, entries, moves)
      /\ faults = 0 => Trailed(r, q, entries, audit, events, moves)
      /\ Head(q.rest) = "select"
  BY TrailAtStatement DEF CronSelect, At
<1>2. PICK S \in Selections(q.pass) : Proceed(r, [q EXCEPT !.todo = S])
  BY DEF CronSelect
<1> DEFINE p == [q EXCEPT !.todo = S]
<1>3. /\ p \in RequestStates /\ p.rest = q.rest /\ p.kind = q.kind /\ p.t = q.t
      /\ p.to = q.to /\ p.blank = q.blank
  BY <1>1 DEF RequestStates, Selections, Idle
<1> HIDE DEF p
<1>4. Proceed(r, p)
  BY <1>2 DEF p
<1>5. /\ Shape(p) /\ Backed(r, p, entries, moves)
      /\ faults = 0 => Trailed(r, p, entries, audit, events, moves)
  BY <1>1, <1>3 DEF Shape, Backed, Trailed, Pending
<1>6. PICK n \in Continues(p) : req' = [req EXCEPT ![r] = n]
  BY <1>4 DEF Proceed
<1>7. Follows(p, n) /\ Shape(n)
  BY <1>1, <1>3, <1>5, <1>6, ContinuesFollows
<1>8. Head(p.rest) \notin Records(p.kind, p.to)
  BY <1>1, <1>3 DEF Records
<1>9. /\ Backed(r, n, entries, moves)
      /\ faults = 0 => Trailed(r, n, entries, audit, events, moves)
  BY <1>1, <1>3, <1>5, <1>7, <1>8, FollowsBacked, FollowsTrailed
<1>10. UNCHANGED <<tables, faults>> /\ n.kind # NULL
  BY <1>1, <1>3, <1>7 DEF CronSelect, Follows
<1>11. RecordsFollowCommits'
  BY <1>10, RecordsStay DEF TrailInductive, TrailInv, tables
<1> QED BY <1>6, <1>7, <1>9, <1>10, <1>11, TrailOfOne DEF tables

\* The UPDATE of a status: the move is there for what tells of it, and the records
\* that it asks for are there or still to write.
LEMMA WriteStatusTrail ==
    ASSUME TrailInductive, NEW r \in Requests, WriteStatus(r) PROVE TrailInv'
<1> DEFINE q == req[r]
           m0 == [req |-> r, ticket |-> q.t, from |-> ticket[q.t].status, to |-> q.to]
<1>1. /\ q \in RequestStates /\ q.rest # <<>> /\ Shape(q) /\ q.kind # NULL
      /\ Backed(r, q, entries, moves)
      /\ faults = 0 => Trailed(r, q, entries, audit, events, moves)
      /\ Head(q.rest) = "update" /\ Pending(q, "update")
  BY TrailAtStatement DEF WriteStatus, At
<1>2. /\ moves' = moves \cup {m0} /\ m0.req = r /\ m0.ticket = q.t /\ m0.to = q.to
      /\ UNCHANGED <<entries, audit, events, faults>>
  BY DEF WriteStatus
<1>3. PICK n \in Continues(q) : req' = [req EXCEPT ![r] = n]
  BY DEF WriteStatus, Proceed
<1>4. Follows(q, n) /\ Shape(n)
  BY <1>1, <1>3, ContinuesFollows
<1> HIDE DEF q, m0
<1>5. Backed(r, n, entries, moves')
  <2>1. CASE /\ n.t = q.t /\ n.to = q.to
             /\ \A x : Pending(n, x) <=> Pending(q, x) /\ x # Head(q.rest)
    <3>1. n.kind = q.kind /\ n.blank = q.blank
      BY <1>4 DEF Follows
    <3>2. q.kind \in {"admin_reply", "admin_note"} /\ Pending(n, "audit") /\ ~Pending(n, "entry")
             => [req |-> r, ticket |-> n.t, kind |-> EntryKind(n.kind)] \in entries
      BY <1>1, <2>1, <3>1 DEF Backed
    <3>3. \E m \in moves' : m.req = r /\ m.ticket = n.t /\ m.to = n.to
      BY <1>2, <2>1
    <3> QED BY <3>1, <3>2, <3>3 DEF Backed
  <2>2. CASE q.kind = "cron" /\ CronGoesOn(n)
    BY <1>4, <2>2 DEF Follows, Backed, CronGoesOn, Tells, StatusAnnouncements
  <2> QED BY <1>4, <2>1, <2>2 DEF Follows
<1>6. ASSUME faults = 0 PROVE Trailed(r, n, entries, audit, events, moves')
  <2> DEFINE Rec(t, to, x) == Recorded(r, t, to, x, entries, audit, events)
  <2>1. Head(q.rest) \notin Records(q.kind, q.to)
    BY <1>1 DEF Records
  <2>2. Trailed(r, n, entries, audit, events, moves)
    BY <1>1, <1>4, <1>6, <2>1, FollowsTrailed
  <2>3. \A x \in Records(q.kind, q.to) : Pending(q, x) \/ Rec(q.t, q.to, x)
    BY <1>1, <1>6 DEF Trailed
  <2>4. n.kind = q.kind
    BY <1>4 DEF Follows
  <2> HIDE DEF Rec
  <2>5. \A x \in Records(n.kind, m0.to) :
           Rec(m0.ticket, m0.to, x) \/ (Pending(n, x) /\ n.t = m0.ticket /\ n.to = m0.to)
    <3>1. CASE /\ n.t = q.t /\ n.to = q.to
               /\ \A x : Pending(n, x) <=> Pending(q, x) /\ x # Head(q.rest)
      BY <1>2, <2>1, <2>3, <2>4, <3>1
    <3>2. CASE \A x : Pending(q, x) => x = Head(q.rest)
      BY <1>2, <2>1, <2>3, <2>4, <3>2
    <3> QED BY <1>4, <3>1, <3>2 DEF Follows
  <2> QED BY <1>2, <2>2, <2>5 DEF Trailed, Rec
<1>7. RecordsFollowCommits'
  BY <1>2, RecordsStay DEF TrailInductive, TrailInv
<1>8. n.kind # NULL
  BY <1>1, <1>4 DEF Follows
<1> QED BY <1>2, <1>3, <1>4, <1>5, <1>6, <1>7, <1>8, TrailOfOne

\* The UPDATE of an assignee has no part in the trail of a status.
LEMMA WriteAssigneeTrail ==
    ASSUME TrailInductive, NEW r \in Requests, WriteAssignee(r) PROVE TrailInv'
<1> DEFINE q == req[r]
<1>1. /\ q \in RequestStates /\ q.rest # <<>> /\ Shape(q) /\ q.kind # NULL
      /\ Backed(r, q, entries, moves)
      /\ faults = 0 => Trailed(r, q, entries, audit, events, moves)
      /\ Head(q.rest) = "assign"
  BY TrailAtStatement DEF WriteAssignee, At
<1>2. PICK n \in Continues(q) : req' = [req EXCEPT ![r] = n]
  BY DEF WriteAssignee, Proceed
<1>3. Follows(q, n) /\ Shape(n)
  BY <1>1, <1>2, ContinuesFollows
<1>4. Head(q.rest) \notin Records(q.kind, q.to)
  BY <1>1 DEF Records
<1>5. /\ Backed(r, n, entries, moves)
      /\ faults = 0 => Trailed(r, n, entries, audit, events, moves)
  BY <1>1, <1>3, <1>4, FollowsBacked, FollowsTrailed
<1>6. UNCHANGED <<entries, audit, events, moves, faults>> /\ n.kind # NULL
  BY <1>1, <1>3 DEF WriteAssignee, Follows
<1>7. RecordsFollowCommits'
  BY <1>6, RecordsStay DEF TrailInductive, TrailInv
<1> QED BY <1>2, <1>3, <1>5, <1>6, <1>7, TrailOfOne

\* The entry is the first thing a reply or a note commits.
LEMMA WriteEntryTrail ==
    ASSUME TrailInductive, NEW r \in Requests, WriteEntry(r) PROVE TrailInv'
<1> DEFINE q == req[r]
           e0 == [req |-> r, ticket |-> q.t, kind |-> EntryKind(q.kind)]
<1>1. /\ q \in RequestStates /\ q.rest # <<>> /\ Shape(q) /\ q.kind # NULL
      /\ Backed(r, q, entries, moves)
      /\ faults = 0 => Trailed(r, q, entries, audit, events, moves)
      /\ Head(q.rest) = "entry"
  BY TrailAtStatement DEF WriteEntry, At
<1>2. /\ entries' = entries \cup {e0} /\ e0.req = r /\ e0.ticket = q.t
      /\ UNCHANGED <<audit, events, moves, faults>>
  BY DEF WriteEntry
<1>3. PICK n \in Continues(q) : req' = [req EXCEPT ![r] = n]
  BY DEF WriteEntry, Proceed
<1>4. Follows(q, n) /\ Shape(n)
  BY <1>1, <1>3, ContinuesFollows
<1>5. Backed(r, n, entries', moves)
  <2>1. CASE /\ n.t = q.t /\ n.to = q.to
             /\ \A x : Pending(n, x) <=> Pending(q, x) /\ x # Head(q.rest)
    <3>1. n.kind = q.kind /\ n.blank = q.blank
      BY <1>4 DEF Follows
    <3>2. [req |-> r, ticket |-> n.t, kind |-> EntryKind(n.kind)] \in entries'
      BY <1>2, <2>1, <3>1
    <3>3. \A x \in Tells(n.kind) : Pending(n, x) /\ ~Pending(n, "update") /\ ~n.blank =>
             \E m \in moves : m.req = r /\ m.ticket = n.t /\ m.to = n.to
      BY <1>1, <2>1, <3>1 DEF Backed
    <3> QED BY <3>2, <3>3 DEF Backed
  <2>2. CASE q.kind = "cron" /\ CronGoesOn(n)
    BY <1>4, <2>2 DEF Follows, Backed, CronGoesOn, Tells, StatusAnnouncements
  <2> QED BY <1>4, <2>1, <2>2 DEF Follows
<1>6. ASSUME faults = 0 PROVE Trailed(r, n, entries', audit, events, moves)
  <2>1. Trailed(r, q, entries', audit, events, moves)
    BY <1>1, <1>2, <1>6, TrailGrows
  <2>2. Recorded(r, q.t, q.to, "entry", entries', audit, events)
    BY <1>2 DEF Recorded
  <2> QED BY <1>1, <1>4, <2>1, <2>2, FollowsTrailed
<1>7. RecordsFollowCommits'
  BY <1>2, RecordsStay DEF TrailInductive, TrailInv
<1>8. n.kind # NULL
  BY <1>1, <1>4 DEF Follows
<1> QED BY <1>2, <1>3, <1>4, <1>5, <1>6, <1>7, <1>8, TrailOfOne

\* An audit record tells of the entry or of the move before it.
LEMMA WriteAuditTrail ==
    ASSUME TrailInductive, NEW r \in Requests, WriteAudit(r) PROVE TrailInv'
<1> DEFINE q == req[r]
           change == q.kind \in {"admin_status", "admin_assign"}
           a0 == [req |-> r, ticket |-> q.t, action |-> AuditAction(q.kind),
                  from |-> IF change THEN q.from ELSE NULL,
                  to |-> IF change THEN q.to ELSE NULL]
<1>1. /\ q \in RequestStates /\ q.rest # <<>> /\ Shape(q) /\ q.kind # NULL
      /\ Backed(r, q, entries, moves)
      /\ faults = 0 => Trailed(r, q, entries, audit, events, moves)
      /\ Head(q.rest) = "audit" /\ Pending(q, "audit")
  BY TrailAtStatement DEF WriteAudit, At
<1>2. /\ audit' = audit \cup {a0} /\ a0.req = r /\ a0.ticket = q.t
      /\ a0.action = AuditAction(q.kind) /\ (q.kind = "admin_status" => a0.to = q.to)
      /\ UNCHANGED <<entries, events, moves, faults>>
  BY DEF WriteAudit
<1>3. PICK n \in Continues(q) : req' = [req EXCEPT ![r] = n]
  BY DEF WriteAudit, Proceed
<1>4. Follows(q, n) /\ Shape(n)
  BY <1>1, <1>3, ContinuesFollows
<1>5. Backed(r, n, entries, moves)
  BY <1>1, <1>4, FollowsBacked
<1>6. ASSUME faults = 0 PROVE Trailed(r, n, entries, audit', events, moves)
  <2>1. Trailed(r, q, entries, audit', events, moves)
    BY <1>1, <1>2, <1>6, TrailGrows
  <2>2. Recorded(r, q.t, q.to, "audit", entries, audit', events)
    BY <1>2 DEF Recorded
  <2> QED BY <1>1, <1>4, <2>1, <2>2, FollowsTrailed
<1> HIDE DEF a0
<1>7. /\ a0.action = "reply" =>
           [req |-> a0.req, ticket |-> a0.ticket, kind |-> "reply"] \in entries
      /\ a0.action = "note" =>
           [req |-> a0.req, ticket |-> a0.ticket, kind |-> "internal_note"] \in entries
  <2>1. ASSUME a0.action \in {"reply", "note"}
        PROVE  [req |-> r, ticket |-> q.t, kind |-> EntryKind(q.kind)] \in entries
    <3>1. q.kind \in {"admin_reply", "admin_note"}
      BY <1>2, <2>1 DEF AuditAction
    <3>2. ~Pending(q, "entry")
      <4>1. Rank(q.kind, "entry") < Rank(q.kind, Head(q.rest))
        BY <1>1 DEF Rank
      <4> QED BY <1>1, <4>1, Earlier
    <3> QED BY <1>1, <3>1, <3>2 DEF Backed
  <2>2. /\ a0.action = "reply" => EntryKind(q.kind) = "reply"
        /\ a0.action = "note" => EntryKind(q.kind) = "internal_note"
    BY <1>2 DEF AuditAction, EntryKind
  <2> QED BY <1>2, <2>1, <2>2
<1>8. ASSUME a0.action = "status_change"
      PROVE  \E m \in moves : m.req = a0.req /\ m.ticket = a0.ticket /\ m.to = a0.to
  <2>1. q.kind = "admin_status"
    BY <1>2, <1>8 DEF AuditAction
  <2>2. ~Pending(q, "update") /\ ~q.blank
    <3>1. Rank(q.kind, "update") < Rank(q.kind, Head(q.rest))
      BY <1>1, <2>1 DEF Rank
    <3> QED BY <1>1, <2>1, <3>1, Earlier DEF Shape
  <2>3. "audit" \in Tells(q.kind)
    BY <2>1 DEF Tells
  <2>4. \E m \in moves : m.req = r /\ m.ticket = q.t /\ m.to = q.to
    BY <1>1, <2>2, <2>3 DEF Backed
  <2> QED BY <1>2, <2>1, <2>4
<1>9. RecordsFollowCommits'
  BY <1>2, <1>7, <1>8 DEF TrailInductive, TrailInv, RecordsFollowCommits
<1>10. n.kind # NULL
  BY <1>1, <1>4 DEF Follows
<1> QED BY <1>2, <1>3, <1>4, <1>5, <1>6, <1>9, <1>10, TrailOfOne

\* An announcement of a status tells of the move before it, or of no ticket.
LEMMA PublishTrail ==
    ASSUME TrailInductive, NEW r \in Requests, Publish(r) PROVE TrailInv'
<1> DEFINE q == req[r]
           name == Head(q.rest)
           change == name \in {"ticket_status_changed", "ticket_assigned"}
           e0 == [req |-> r, ticket |-> IF q.blank THEN NULL ELSE q.t, name |-> name,
                  from |-> IF change THEN q.from ELSE NULL,
                  to |-> IF change THEN q.to ELSE NULL]
<1>1. /\ q \in RequestStates /\ q.rest # <<>> /\ Shape(q) /\ q.kind # NULL
      /\ Backed(r, q, entries, moves)
      /\ faults = 0 => Trailed(r, q, entries, audit, events, moves)
      /\ name \in Announcements /\ Pending(q, name)
  BY TrailAtStatement DEF Publish
<1>2. /\ events' = events \cup {e0} /\ e0.req = r /\ e0.name = name
      /\ e0.ticket = (IF q.blank THEN NULL ELSE q.t)
      /\ name = "ticket_status_changed" => e0.to = q.to
      /\ UNCHANGED <<entries, audit, moves, faults>>
  BY DEF Publish
<1>3. PICK n \in Continues(q) : req' = [req EXCEPT ![r] = n]
  BY DEF Publish, Proceed
<1>4. Follows(q, n) /\ Shape(n)
  BY <1>1, <1>3, ContinuesFollows
<1>5. Backed(r, n, entries, moves)
  BY <1>1, <1>4, FollowsBacked DEF Announcements
<1> HIDE DEF e0
<1>6. ASSUME faults = 0 PROVE Trailed(r, n, entries, audit, events', moves)
  <2>1. Trailed(r, q, entries, audit, events', moves)
    BY <1>1, <1>2, <1>6, TrailGrows
  <2>2. ~q.blank
    BY <1>1, <1>6 DEF Trailed
  <2>3. name # "entry" /\ name # "audit"
    BY <1>1 DEF Announcements
  <2>4. Recorded(r, q.t, q.to, name, entries, audit, events')
    BY <1>2, <2>2, <2>3 DEF Recorded
  <2> QED BY <1>1, <1>4, <2>1, <2>4, FollowsTrailed
<1>7. ASSUME e0.ticket # NULL, e0.name \in StatusAnnouncements
      PROVE  \E m \in moves : m.req = e0.req /\ m.ticket = e0.ticket /\ m.to = Outcome(e0)
  <2>1. ~q.blank /\ e0.ticket = q.t /\ name \in Tells(q.kind)
    BY <1>2, <1>7 DEF Tells
  <2>2. ~Pending(q, "update")
    <3>1. Rank(q.kind, "update") < Rank(q.kind, name)
      BY <1>2, <1>7 DEF Rank, StatusAnnouncements
    <3> QED BY <1>1, <3>1, Earlier
  <2>3. \E m \in moves : m.req = r /\ m.ticket = q.t /\ m.to = q.to
    BY <1>1, <2>1, <2>2 DEF Backed
  <2>4. Outcome(e0) = q.to
    BY <1>1, <1>2, <1>7 DEF Outcome, Shape, StatusAnnouncements
  <2> QED BY <1>2, <2>1, <2>3, <2>4
<1>8. RecordsFollowCommits'
  BY <1>2, <1>7 DEF TrailInductive, TrailInv, RecordsFollowCommits, StatusAnnouncements, Outcome
<1>9. n.kind # NULL
  BY <1>1, <1>4 DEF Follows
<1> QED BY <1>2, <1>3, <1>4, <1>5, <1>6, <1>8, <1>9, TrailOfOne

\* A failed statement leaves nothing to tell that is not committed.
LEMMA StatementFailsTrail ==
    ASSUME TrailInductive, NEW r \in Requests, StatementFails(r) PROVE TrailInv'
<1> DEFINE q == req[r]
<1>1. /\ q \in RequestStates /\ q.rest # <<>> /\ Shape(q) /\ q.kind # NULL
      /\ Backed(r, q, entries, moves)
  BY TrailAtStatement DEF StatementFails
<1>2. UNCHANGED tables /\ faults' # 0
  BY DEF StatementFails, TrailInductive, IInv, TypeOK
<1>3. RecordsFollowCommits'
  BY <1>2, RecordsStay DEF TrailInductive, TrailInv, tables
<1>4. ASSUME NEW n, req' = [req EXCEPT ![r] = n], n.kind # NULL, Shape(n),
             Backed(r, n, entries, moves)
      PROVE  TrailInv'
  BY <1>2, <1>3, <1>4, TrailOfOne DEF tables
<1>5. CASE Dropped(q) /\ Proceed(r, q)
  <2>1. PICK n \in Continues(q) : req' = [req EXCEPT ![r] = n]
    BY <1>5 DEF Proceed
  <2>2. Follows(q, n) /\ Shape(n)
    BY <1>1, <2>1, ContinuesFollows
  <2>3. CASE Head(q.rest) # "entry"
    <3>1. Head(q.rest) # "update"
      BY <1>5, <2>3 DEF Dropped, Announcements
    <3>2. Backed(r, n, entries, moves)
      BY <1>1, <2>2, <2>3, <3>1, FollowsBacked
    <3> QED BY <1>1, <1>4, <2>1, <2>2, <3>2 DEF Follows
  <2>4. CASE Head(q.rest) = "entry"
    <3>1. q.kind \notin {"admin_reply", "admin_note"}
      BY <1>5, <2>4 DEF Dropped, Announcements
    <3>2. n.kind = q.kind /\ n.blank = q.blank
      BY <2>2 DEF Follows
    <3>3. CASE /\ n.t = q.t /\ n.to = q.to
               /\ \A x : Pending(n, x) <=> Pending(q, x) /\ x # Head(q.rest)
      BY <1>1, <1>4, <2>1, <2>2, <2>4, <3>1, <3>2, <3>3 DEF Backed
    <3>4. CASE q.kind = "cron" /\ CronGoesOn(n)
      BY <1>1, <1>4, <2>1, <2>2, <3>2, <3>4
         DEF Backed, CronGoesOn, Tells, StatusAnnouncements
    <3> QED BY <2>2, <3>3, <3>4 DEF Follows
  <2> QED BY <2>3, <2>4
<1>6. CASE GoesBlank(q) /\ Proceed(r, [q EXCEPT !.blank = TRUE])
  <2> DEFINE p == [q EXCEPT !.blank = TRUE]
  <2>1. /\ p \in RequestStates /\ p.rest = q.rest /\ p.kind = q.kind /\ p.t = q.t
        /\ p.to = q.to /\ p.blank = TRUE
    BY <1>1 DEF RequestStates
  <2> HIDE DEF p
  <2>2. Proceed(r, p)
    BY <1>6 DEF p
  <2>3. Shape(p)
    BY <1>1, <1>6, <2>1 DEF Shape, Pending, GoesBlank
  <2>4. PICK n \in Continues(p) : req' = [req EXCEPT ![r] = n]
    BY <2>2 DEF Proceed
  <2>5. Follows(p, n) /\ Shape(n)
    BY <1>1, <2>1, <2>3, <2>4, ContinuesFollows
  <2>6. Head(p.rest) = "update" /\ p.kind \in {"customer_reply", "admin_reply"}
    BY <1>6, <2>1 DEF GoesBlank
  <2>7. ~Pending(p, "audit")
    <3>1. Rank(p.kind, "audit") < Rank(p.kind, Head(p.rest))
      BY <2>6 DEF Rank
    <3> QED BY <1>1, <2>1, <2>3, <3>1, Earlier
  <2>8. n.kind = p.kind /\ n.blank /\ (Pending(n, "audit") => Pending(p, "audit"))
    BY <2>1, <2>5, <2>6 DEF Follows
  <2>9. Backed(r, n, entries, moves)
    BY <2>7, <2>8 DEF Backed
  <2> QED BY <1>1, <1>4, <2>1, <2>4, <2>5, <2>8, <2>9
<1>7. CASE SkipsTicket(q) /\ \E next \in CronContinues(q) : req' = [req EXCEPT ![r] = next]
  <2>1. PICK n \in CronContinues(q) : req' = [req EXCEPT ![r] = n]
    BY <1>7
  <2>2. n.kind = "cron" /\ ~n.blank /\ CronGoesOn(n) /\ Shape(n)
    BY <1>1, <1>7, <2>1, CronContinuesShape DEF SkipsTicket, Shape
  <2>3. Backed(r, n, entries, moves)
    BY <2>2 DEF Backed, CronGoesOn, Tells, StatusAnnouncements
  <2> QED BY <1>4, <2>1, <2>2, <2>3, KindsAssumption DEF Kinds
<1>8. CASE req' = [req EXCEPT ![r].rest = <<>>]
  <2> DEFINE none == <<>>
             p == [q EXCEPT !.rest = none]
  <2>1. req' = [req EXCEPT ![r] = p]
    BY <1>8 DEF TrailInductive, IInv, TypeOK
  <2> HIDE DEF none
  <2>2. p.rest = none /\ p.kind = q.kind /\ p.blank = q.blank
    BY <1>1 DEF RequestStates
  <2>3. (\A x : ~Pending(p, x)) /\ DOMAIN p.rest = {}
    BY <2>2 DEF Pending, none
  <2> HIDE DEF p
  <2>4. Shape(p)
    BY <1>1, <2>2, <2>3 DEF Shape
  <2>5. Backed(r, p, entries, moves)
    BY <2>3 DEF Backed
  <2> QED BY <1>1, <1>4, <2>1, <2>2, <2>4, <2>5
<1> QED BY <1>5, <1>6, <1>7, <1>8 DEF StatementFails

\* After a crash no request has anything left to tell.
LEMMA CrashTrail ==
    ASSUME TrailInductive, Crash PROVE TrailInv'
<1> DEFINE none == <<>>
           p(r) == [req[r] EXCEPT !.todo = {}, !.rest = none]
<1>1. req' = [r \in Requests |-> p(r)] /\ UNCHANGED tables
  BY DEF Crash
<1>2. faults' # 0
  <2>1. faults' = faults + 1
    BY DEF Crash
  <2>2. faults \in 0..MaxFaults
    BY DEF TrailInductive, IInv, TypeOK
  <2>3. faults \in Nat
    BY <2>2
  <2> QED BY <2>1, <2>3
<1>3. req \in [Requests -> RequestStates] /\ moves \subseteq MoveRecords
  BY DEF TrailInductive, IInv, TypeOK
<1> HIDE DEF none
<1>4. ASSUME NEW r \in Requests
      PROVE  p(r).rest = none /\ p(r).kind = req[r].kind /\ p(r).blank = req[r].blank
  BY <1>3 DEF RequestStates
<1> HIDE DEF p
<1>5. ASSUME NEW r \in Requests PROVE Shape(req'[r]) /\ Backed(r, req'[r], entries, moves)
  <2> DEFINE q == p(r)
  <2>1. (\A x : ~Pending(q, x)) /\ DOMAIN q.rest = {} /\ q.rest = <<>>
    BY <1>4 DEF Pending, none
  <2>2. q.kind = req[r].kind /\ q.blank = req[r].blank /\ Shape(req[r])
    BY <1>4 DEF TrailInductive, TrailInv
  <2>3. req'[r] = q
    BY <1>1
  <2> HIDE DEF q
  <2>4. Shape(q)
    BY <2>1, <2>2 DEF Shape
  <2>5. Backed(r, q, entries, moves)
    BY <2>1 DEF Backed
  <2> QED BY <2>3, <2>4, <2>5
<1>6. RecordsFollowCommits'
  BY <1>1, RecordsStay DEF TrailInductive, TrailInv, tables
<1>7. \A m \in moves' : req'[m.req].kind # NULL
  <2> SUFFICES ASSUME NEW m \in moves PROVE req'[m.req].kind # NULL
    BY <1>1 DEF tables
  <2>1. m.req \in Requests /\ req[m.req].kind # NULL
    BY <1>3 DEF MoveRecords, TrailInductive, TrailInv
  <2> QED BY <1>1, <1>4, <2>1
<1> QED BY <1>1, <1>2, <1>5, <1>6, <1>7 DEF TrailInv, tables

\* The trail is inductive next to the invariant of the requests.
LEMMA StepTrail ==
    ASSUME TrailInductive, [Next]_vars PROVE TrailInv'
<1>1. ASSUME NEW r \in Requests, Arrive(r) PROVE TrailInv'
  BY <1>1, ArriveTrail
<1>2. ASSUME NEW r \in Requests, Step(r) PROVE TrailInv'
  BY <1>2, CronSelectTrail, WriteStatusTrail, WriteAssigneeTrail, WriteEntryTrail,
     WriteAuditTrail, PublishTrail DEF Step
<1>3. ASSUME NEW r \in Requests, StatementFails(r) PROVE TrailInv'
  BY <1>3, StatementFailsTrail
<1>4. CASE Crash
  BY <1>4, CrashTrail
<1>5. CASE Tick \/ UNCHANGED vars
  <2>1. UNCHANGED <<entries, audit, events, req, moves, faults>>
    BY <1>5 DEF Tick, vars, tables
  <2> QED BY <2>1 DEF TrailInductive, TrailInv, RecordsFollowCommits
<1> QED BY <1>1, <1>2, <1>3, <1>4, <1>5 DEF Next

\* A request that has ended has nothing left to write: its trail is complete.
LEMMA TrailIsComplete == TrailInductive => TrailMatches
<1> SUFFICES ASSUME TrailInductive PROVE TrailMatches
  OBVIOUS
<1>1. ASSUME faults = 0, NEW m \in moves, ~InFlight(m.req), NEW x,
             x \in Records(req[m.req].kind, m.to)
      PROVE  Recorded(m.req, m.ticket, m.to, x, entries, audit, events)
  <2>1. m.req \in Requests
    BY DEF TrailInductive, IInv, TypeOK, MoveRecords
  <2>2. Trailed(m.req, req[m.req], entries, audit, events, moves)
    BY <1>1, <2>1 DEF TrailInductive, TrailInv
  <2>3. ~Pending(req[m.req], x)
    BY <1>1 DEF InFlight, Pending
  <2> QED BY <1>1, <2>2, <2>3 DEF Trailed
<1>2. TrailComplete
  <2> SUFFICES ASSUME faults = 0, NEW m \in moves, ~InFlight(m.req)
               PROVE  LET r == m.req
                          announced == {e \in events : e.req = r /\ e.ticket = m.ticket}
                      IN /\ \E e \in entries : e.req = r /\ e.ticket = m.ticket
                         /\ m.to = "closed"   => \E e \in announced : e.name = "ticket_closed"
                         /\ m.to = "resolved" => \E e \in announced : e.name = "ticket_resolved"
                         /\ req[r].kind # "cron" =>
                              \E e \in announced :
                                 e.name = "ticket_status_changed" /\ e.to = m.to
                         /\ req[r].kind \in {"admin_status", "admin_reply"} =>
                              \E a \in audit : a.req = r /\ a.ticket = m.ticket
    BY DEF TrailComplete
  <2> DEFINE Rec(x) == Recorded(m.req, m.ticket, m.to, x, entries, audit, events)
  <2>1. \A x \in Records(req[m.req].kind, m.to) : Rec(x)
    BY <1>1
  <2> HIDE DEF Rec
  <2>2. /\ Rec("entry")
        /\ m.to = "closed" => Rec("ticket_closed")
        /\ m.to = "resolved" => Rec("ticket_resolved")
        /\ req[m.req].kind # "cron" => Rec("ticket_status_changed")
        /\ req[m.req].kind \in {"admin_status", "admin_reply"} => Rec("audit")
    BY <2>1 DEF Records
  <2> QED BY <2>2 DEF Rec, Recorded
<1> QED BY <1>2 DEF TrailMatches, TrailInductive, TrailInv

\* TrailCorrect: for any number of tickets, requests and faults, the audit log and
\* the event bus never tell of what is not committed, and, as long as nothing has
\* failed, a request that has ended told of every status it wrote.
THEOREM TrailCorrect == Spec => []TrailMatches
<1>1. Init => TrailInductive
  BY InitIInv, InitTrail DEF TrailInductive
<1>2. TrailInductive /\ [Next]_vars => TrailInductive'
  BY StepInv, StepTrail DEF TrailInductive
<1>3. TrailInductive => TrailMatches
  BY TrailIsComplete
<1> QED BY <1>1, <1>2, <1>3, PTL DEF Spec

-----------------------------------------------------------------------------
(* One request at a time, the handlers and the cron implement TicketContract *)

IdleAt(tk, at, pass) ==
    {t \in Tickets : IF pass = "resolved_idle"
                     THEN ResolvedAtIdle(tk[t], at, ResolvedAfterDays)
                     ELSE WaitingIdle(tk[t], at, WaitingAfterDays)}

\* What a request is about to do fits the rows tk at the instant `at`.
Fits(q, tk, at) ==
    /\ q.kind = "cron" => AutoCloseEnabled /\ ~Pending(q, "assign")
    /\ q.todo # {} => q.kind = "cron" /\ q.rest # <<>> /\ q.todo \subseteq IdleAt(tk, at, q.pass)
    /\ Pending(q, "update") =>
         /\ tk[q.t].status = Believed(q)
         /\ q.kind = "customer_reopen" => AllowReopen(tk[q.t].resolved_at, at, ReopenWindow)
         /\ q.kind = "cron" => q.t \in IdleAt(tk, at, q.pass) \ q.todo

SerialInv ==
    /\ \A r, s \in Requests : InFlight(r) /\ InFlight(s) => r = s
    /\ \A r \in Requests : Fits(req[r], ticket, now)

SerialInductive == TrailInductive /\ SerialInv

\* Serial steps are steps.
LEMMA SerialIsNext == [SerialNext]_vars => [Next]_vars
  BY DEF SerialNext, Next

\* What the cron selects from is what is idle.
LEMMA IdleIsIdleAt == \A pass : Idle(pass) = IdleAt(ticket, now, pass)
  BY DEF Idle, IdleAt

\* A request that is not in flight fits every table.
LEMMA EndedFits ==
    ASSUME NEW q, NEW tk, NEW at, NEW tk2, NEW at2, q.rest = <<>>, Fits(q, tk, at)
    PROVE  Fits(q, tk2, at2)
<1>1. \A x : ~Pending(q, x)
  BY DEF Pending
<1> QED BY <1>1 DEF Fits

\* A step of the one request in flight is looked at for that request alone.
LEMMA SerialOfOne ==
    ASSUME SerialInductive, NEW r \in Requests, NEW n, req' = [req EXCEPT ![r] = n],
           \A s \in Requests \ {r} : ~InFlight(s), Fits(n, ticket', now')
    PROVE  SerialInv'
<1>1. req \in [Requests -> RequestStates]
  BY DEF SerialInductive, TrailInductive, IInv, TypeOK
<1>2. \A s \in Requests : req'[s] = IF s = r THEN n ELSE req[s]
  BY <1>1
<1>3. \A s \in Requests \ {r} : req'[s].rest = <<>>
  BY <1>2 DEF InFlight
<1>4. ASSUME NEW s \in Requests PROVE Fits(req'[s], ticket', now')
  <2>1. CASE s = r
    BY <1>2, <2>1
  <2>2. CASE s # r
    <3>1. req'[s] = req[s] /\ req[s].rest = <<>> /\ Fits(req[s], ticket, now)
      BY <1>2, <1>3, <2>2 DEF SerialInductive, SerialInv
    <3> QED BY <3>1, EndedFits
  <2> QED BY <2>1, <2>2
<1>5. \A s, u \in Requests : req'[s].rest # <<>> /\ req'[u].rest # <<>> => s = u
  BY <1>3
<1> QED BY <1>4, <1>5 DEF SerialInv, InFlight

\* The cron takes a ticket that is idle.
LEMMA CronContinuesFits ==
    ASSUME NEW q \in RequestStates, q.kind = "cron", NEW tk, NEW at, AutoCloseEnabled,
           q.todo \subseteq IdleAt(tk, at, q.pass), NEW n \in CronContinues(q)
    PROVE  Fits(n, tk, at)
<1>1. CASE q.todo # {}
  <2>1. PICK t \in q.todo : n = [q EXCEPT !.t = t, !.todo = @ \ {t}, !.to = "closed",
                                         !.rest = CloseOne]
    BY <1>1 DEF CronContinues
  <2>2. /\ n.kind = "cron" /\ n.t = t /\ n.todo = q.todo \ {t} /\ n.pass = q.pass
        /\ n.rest = CloseOne
    BY <2>1 DEF RequestStates
  <2>3. n.rest # <<>> /\ ~Pending(n, "assign")
    BY <2>2 DEF CloseOne, Pending
  <2>4. t \in IdleAt(tk, at, q.pass)
    BY <2>1
  <2>5. tk[t].status = Believed(n)
    BY <2>2, <2>4 DEF IdleAt, Believed, ResolvedAtIdle, WaitingIdle, RequestStates
  <2> QED BY <2>2, <2>3, <2>4, <2>5 DEF Fits
<1>2. CASE q.todo = {} /\ q.pass = "resolved_idle"
  <2>1. n = [q EXCEPT !.pass = "waiting_idle", !.rest = <<"select">>]
    BY <1>2 DEF CronContinues
  <2>2. n.kind = "cron" /\ n.rest = <<"select">> /\ n.todo = {}
    BY <1>2, <2>1 DEF RequestStates
  <2>3. ~Pending(n, "update") /\ ~Pending(n, "assign")
    BY <2>2 DEF Pending
  <2> QED BY <2>2, <2>3 DEF Fits
<1>3. CASE q.todo = {} /\ q.pass # "resolved_idle"
  <2> DEFINE none == <<>>
  <2>1. n = [q EXCEPT !.rest = none]
    BY <1>3 DEF CronContinues
  <2> HIDE DEF none
  <2>2. n.kind = "cron" /\ n.rest = none /\ n.todo = {}
    BY <1>3, <2>1 DEF RequestStates
  <2>3. ~Pending(n, "update") /\ ~Pending(n, "assign")
    BY <2>2 DEF Pending, none
  <2> QED BY <2>2, <2>3 DEF Fits
<1> QED BY <1>1, <1>2, <1>3

\* A statement changes no row but the one of its request, and no idle one that the
\* cron has still to close: tk2 is the table after it.
LEMMA ContinuesFits ==
    ASSUME NEW q \in RequestStates, q.rest # <<>>, Shape(q), NEW tk, NEW at, NEW tk2,
           Fits(q, tk, at), NEW n \in Continues(q),
           q.todo \subseteq IdleAt(tk2, at, q.pass),
           Pending(q, "update") /\ Head(q.rest) # "update" =>
              /\ tk2[q.t].status = tk[q.t].status
              /\ tk2[q.t].resolved_at = tk[q.t].resolved_at
              /\ q.t \in IdleAt(tk, at, q.pass) => q.t \in IdleAt(tk2, at, q.pass)
    PROVE  Fits(n, tk2, at)
<1>1. CASE q.kind = "cron" /\ Tail(q.rest) = <<>>
  <2>1. n \in CronContinues(q) /\ AutoCloseEnabled
    BY <1>1 DEF Continues, Fits
  <2> QED BY <1>1, <2>1, CronContinuesFits
<1>2. CASE ~(q.kind = "cron" /\ Tail(q.rest) = <<>>)
  <2>1. n = [q EXCEPT !.rest = Tail(@)]
    BY <1>2 DEF Continues
  <2>2. q.rest \in Seq(Statements) /\ Tail(q.rest) \in Seq(Statements)
    BY HeadTailProperties DEF RequestStates
  <2>3. /\ n.rest = Tail(q.rest) /\ n.kind = q.kind /\ n.t = q.t /\ n.from = q.from
        /\ n.to = q.to /\ n.todo = q.todo /\ n.pass = q.pass
    BY <2>1, <2>2 DEF RequestStates
  <2>4. \A x : Pending(n, x) <=> Pending(q, x) /\ x # Head(q.rest)
    BY <2>3, TailRank
  <2>5. Believed(n) = Believed(q)
    BY <2>3 DEF Believed
  <2>6. q.todo # {} => n.kind = "cron" /\ n.rest # <<>>
    BY <1>2, <2>3 DEF Fits
  <2> QED BY <2>3, <2>4, <2>5, <2>6 DEF Fits
<1> QED BY <1>1, <1>2

\* What the invariant says of the one request in flight.
LEMMA SerialAtStatement ==
    ASSUME SerialInductive, NEW r \in Requests, InFlight(r)
    PROVE  LET q == req[r] IN
           /\ q \in RequestStates /\ q.rest # <<>> /\ RequestInv(q)
           /\ Shape(q) /\ q.kind # NULL /\ Fits(q, ticket, now)
           /\ Pending(q, Head(q.rest))
           /\ Head(q.rest) # "select" => q.t \in Tickets
           /\ \A s \in Requests \ {r} : ~InFlight(s)
  BY TrailAtStatement, AtStatement DEF SerialInductive, SerialInv, TrailInductive

\* A request that arrives when no other is in flight has read the row it will write.
LEMMA ArriveSerial ==
    ASSUME SerialInductive, Quiet, NEW r \in Requests, Arrive(r) PROVE SerialInv'
<1>1. (\A s \in Requests \ {r} : ~InFlight(s)) /\ UNCHANGED <<now, ticket>>
  BY DEF Quiet, Arrive, CustomerReply, CustomerReopen, AdminReply, AdminNote, AdminStatus,
         AdminAssign, AdminRunCron, Receive, tables
<1>2. ASSUME NEW kind \in Kinds \ {"cron"}, NEW t \in Tickets, NEW to,
             NEW from, kind # "admin_assign" => from = ticket[t].status,
             kind = "customer_reopen" =>
                AllowReopen(ticket[t].resolved_at, now, ReopenWindow),
             Receive(r, kind, t, from, to)
      PROVE  SerialInv'
  <2> DEFINE script == Script(kind, from, to)
             q == [NewRequest EXCEPT !.kind = kind, !.t = t, !.from = from, !.to = to,
                                     !.rest = script]
  <2>1. req' = [req EXCEPT ![r] = q]
    BY <1>2 DEF Receive
  <2>2. kind = "admin_assign" => script = <<"assign", "audit", "ticket_assigned">>
    BY DEF Script
  <2> HIDE DEF script
  <2>3. q.kind = kind /\ q.t = t /\ q.from = from /\ q.todo = {} /\ q.rest = script
    BY DEF NewRequest
  <2> HIDE DEF q
  <2>4. kind = "admin_assign" => ~Pending(q, "update")
    BY <2>2, <2>3 DEF Pending
  <2>5. Fits(q, ticket, now)
    BY <1>2, <2>3, <2>4 DEF Fits, Believed
  <2> QED BY <1>1, <2>1, <2>5, SerialOfOne
<1>3. ASSUME NEW t \in Tickets, CustomerReply(r, t) PROVE SerialInv'
  BY <1>2, <1>3 DEF CustomerReply, Kinds
<1>4. ASSUME NEW t \in Tickets, CustomerReopen(r, t) PROVE SerialInv'
  BY <1>2, <1>4 DEF CustomerReopen, Kinds
<1>5. ASSUME NEW t \in Tickets, AdminReply(r, t) PROVE SerialInv'
  BY <1>2, <1>5 DEF AdminReply, Kinds
<1>6. ASSUME NEW t \in Tickets, AdminNote(r, t) PROVE SerialInv'
  BY <1>2, <1>6 DEF AdminNote, Kinds
<1>7. ASSUME NEW t \in Tickets, NEW to \in Statuses, AdminStatus(r, t, to) PROVE SerialInv'
  BY <1>2, <1>7 DEF AdminStatus, Kinds
<1>8. ASSUME NEW t \in Tickets, NEW to \in Admins \cup {NULL}, AdminAssign(r, t, to)
      PROVE  SerialInv'
  BY <1>2, <1>8 DEF AdminAssign, Kinds
<1>9. CASE AdminRunCron(r)
  <2> DEFINE q == [NewRequest EXCEPT !.kind = "cron", !.rest = <<"select">>]
  <2>1. req' = [req EXCEPT ![r] = q] /\ AutoCloseEnabled
    BY <1>9 DEF AdminRunCron
  <2>2. q.kind = "cron" /\ q.rest = <<"select">> /\ q.todo = {}
    BY DEF NewRequest
  <2> HIDE DEF q
  <2>3. ~Pending(q, "update") /\ ~Pending(q, "assign")
    BY <2>2 DEF Pending
  <2>4. Fits(q, ticket, now)
    BY <2>1, <2>2, <2>3 DEF Fits
  <2> QED BY <1>1, <2>1, <2>4, SerialOfOne
<1> QED BY <1>3, <1>4, <1>5, <1>6, <1>7, <1>8, <1>9 DEF Arrive

\* Rows that keep their status and their stamps are as idle as before.
LEMMA SameIdle ==
    ASSUME NEW tk, NEW tk2, NEW at, NEW pass,
           \A t \in Tickets : /\ tk2[t].status = tk[t].status
                             /\ tk2[t].waiting_since = tk[t].waiting_since
                             /\ tk2[t].resolved_at = tk[t].resolved_at
    PROVE  IdleAt(tk2, at, pass) = IdleAt(tk, at, pass)
  BY DEF IdleAt, ResolvedAtIdle, WaitingIdle

\* A statement that keeps every status and every stamp.
LEMMA ProceedSerial ==
    ASSUME SerialInductive, NEW r \in Requests, InFlight(r), Head(req[r].rest) # "select",
           Proceed(r, req[r]), now' = now,
           \A t \in Tickets : /\ ticket'[t].status = ticket[t].status
                             /\ ticket'[t].waiting_since = ticket[t].waiting_since
                             /\ ticket'[t].resolved_at = ticket[t].resolved_at
    PROVE  SerialInv'
<1> DEFINE q == req[r]
<1>1. /\ q \in RequestStates /\ q.rest # <<>> /\ Shape(q) /\ Fits(q, ticket, now)
      /\ q.t \in Tickets
      /\ \A s \in Requests \ {r} : ~InFlight(s)
  BY SerialAtStatement
<1>2. PICK n \in Continues(q) : req' = [req EXCEPT ![r] = n]
  BY DEF Proceed
<1>3. \A pass : IdleAt(ticket', now, pass) = IdleAt(ticket, now, pass)
  BY SameIdle
<1>4. q.todo \subseteq IdleAt(ticket, now, q.pass)
  BY <1>1 DEF Fits
<1>5. Fits(n, ticket', now)
  BY <1>1, <1>2, <1>3, <1>4, ContinuesFits
<1> QED BY <1>1, <1>2, <1>5, SerialOfOne

\* The cron selects idle tickets.
LEMMA CronSelectSerial ==
    ASSUME SerialInductive, NEW r \in Requests, CronSelect(r) PROVE SerialInv'
<1> DEFINE q == req[r]
<1>1. /\ q \in RequestStates /\ q.rest # <<>> /\ Shape(q) /\ Fits(q, ticket, now)
      /\ RequestInv(q) /\ Pending(q, "select")
      /\ \A s \in Requests \ {r} : ~InFlight(s)
  BY SerialAtStatement DEF CronSelect, At
<1>2. q.kind = "cron" /\ q.rest = <<"select">>
  BY <1>1 DEF RequestInv
<1>3. PICK S \in Selections(q.pass) : Proceed(r, [q EXCEPT !.todo = S])
  BY DEF CronSelect
<1>4. S \subseteq IdleAt(ticket, now, q.pass) /\ S \subseteq Tickets
  BY <1>3, IdleIsIdleAt DEF Selections, Idle
<1> DEFINE p == [q EXCEPT !.todo = S]
<1>5. /\ p \in RequestStates /\ p.rest = q.rest /\ p.kind = q.kind /\ p.pass = q.pass
      /\ p.todo = S /\ p.blank = q.blank /\ p.to = q.to
  BY <1>1, <1>4 DEF RequestStates
<1> HIDE DEF p
<1>6. PICK n \in Continues(p) : req' = [req EXCEPT ![r] = n]
  BY <1>3 DEF Proceed, p
<1>7. ~Pending(p, "update") /\ ~Pending(p, "assign")
  BY <1>2, <1>5 DEF Pending
<1>8. Shape(p) /\ Fits(p, ticket, now)
  BY <1>1, <1>2, <1>4, <1>5, <1>7 DEF Shape, Fits, Pending
<1>9. UNCHANGED <<now, ticket>>
  BY DEF CronSelect, tables
<1>10. Fits(n, ticket, now)
  BY <1>1, <1>4, <1>5, <1>6, <1>7, <1>8, ContinuesFits
<1> QED BY <1>1, <1>6, <1>9, <1>10, SerialOfOne

\* The cron does not close a ticket twice.
LEMMA WriteStatusSerial ==
    ASSUME SerialInductive, NEW r \in Requests, WriteStatus(r) PROVE SerialInv'
<1> DEFINE q == req[r]
<1>1. /\ q \in RequestStates /\ q.rest # <<>> /\ Shape(q) /\ Fits(q, ticket, now)
      /\ Pending(q, "update") /\ Head(q.rest) = "update"
      /\ \A s \in Requests \ {r} : ~InFlight(s)
  BY SerialAtStatement DEF WriteStatus, At
<1>2. PICK n \in Continues(q) : req' = [req EXCEPT ![r] = n]
  BY DEF WriteStatus, Proceed
<1>3. \A t \in Tickets \ {q.t} : ticket'[t] = ticket[t]
  BY DEF WriteStatus, SerialInductive, TrailInductive, IInv, TypeOK
<1>4. q.todo \subseteq IdleAt(ticket, now, q.pass) /\ q.t \notin q.todo
  BY <1>1 DEF Fits
<1>5. q.todo \subseteq IdleAt(ticket', now, q.pass)
  BY <1>3, <1>4 DEF IdleAt
<1>6. Fits(n, ticket', now) /\ now' = now
  BY <1>1, <1>2, <1>5, ContinuesFits DEF WriteStatus
<1> QED BY <1>1, <1>2, <1>6, SerialOfOne

\* A failed statement changes no row; the request ends, or goes on.
LEMMA StatementFailsSerial ==
    ASSUME SerialInductive, NEW r \in Requests, StatementFails(r) PROVE SerialInv'
<1> DEFINE q == req[r]
<1>1. /\ q \in RequestStates /\ q.rest # <<>> /\ Shape(q) /\ Fits(q, ticket, now)
      /\ RequestInv(q) /\ Pending(q, Head(q.rest)) /\ Head(q.rest) \in Statements
      /\ \A s \in Requests \ {r} : ~InFlight(s)
  BY SerialAtStatement, HeadPending DEF StatementFails
<1>2. UNCHANGED <<now, ticket>> /\ InFlight(r)
  BY DEF StatementFails, tables
<1>3. q.todo \subseteq IdleAt(ticket, now, q.pass)
  BY <1>1 DEF Fits
<1>4. CASE Dropped(q) /\ Proceed(r, q)
  <2>1. Head(q.rest) # "select"
    BY <1>4 DEF Dropped, Announcements
  <2> QED BY <1>2, <1>4, <2>1, ProceedSerial
<1>5. CASE GoesBlank(q) /\ Proceed(r, [q EXCEPT !.blank = TRUE])
  <2> DEFINE p == [q EXCEPT !.blank = TRUE]
  <2>1. /\ p \in RequestStates /\ p.rest = q.rest /\ p.kind = q.kind /\ p.t = q.t
        /\ p.from = q.from /\ p.to = q.to /\ p.todo = q.todo /\ p.pass = q.pass
    BY <1>1 DEF RequestStates
  <2> HIDE DEF p
  <2>2. PICK n \in Continues(p) : req' = [req EXCEPT ![r] = n]
    BY <1>5 DEF Proceed, p
  <2>3. Shape(p) /\ Fits(p, ticket, now)
    BY <1>1, <1>5, <2>1 DEF Shape, Fits, Pending, Believed, GoesBlank
  <2>4. Fits(n, ticket, now)
    BY <1>1, <1>3, <2>1, <2>2, <2>3, ContinuesFits
  <2> QED BY <1>1, <1>2, <2>2, <2>4, SerialOfOne
<1>6. CASE SkipsTicket(q) /\ \E next \in CronContinues(q) : req' = [req EXCEPT ![r] = next]
  <2>1. PICK n \in CronContinues(q) : req' = [req EXCEPT ![r] = n]
    BY <1>6
  <2>2. q.kind = "cron" /\ AutoCloseEnabled
    BY <1>1, <1>6 DEF SkipsTicket, Fits
  <2>3. Fits(n, ticket, now)
    BY <1>1, <1>3, <2>1, <2>2, CronContinuesFits
  <2> QED BY <1>1, <1>2, <2>1, <2>3, SerialOfOne
<1>7. CASE /\ ~(Dropped(q) \/ GoesBlank(q) \/ SkipsTicket(q))
           /\ req' = [req EXCEPT ![r].rest = <<>>]
  <2> DEFINE none == <<>>
             p == [q EXCEPT !.rest = none]
  <2>1. req' = [req EXCEPT ![r] = p]
    BY <1>7 DEF SerialInductive, TrailInductive, IInv, TypeOK
  <2> HIDE DEF none
  <2>2. p.rest = none /\ p.kind = q.kind /\ p.todo = q.todo
    BY <1>1 DEF RequestStates
  <2>3. \A x : ~Pending(p, x)
    BY <2>2 DEF Pending, none
  <2>4. q.todo = {}
    <3> SUFFICES ASSUME q.kind = "cron" PROVE q.todo = {}
      BY <1>1 DEF RequestInv
    <3>1. Head(q.rest) \in {"select", "assign"}
      BY <1>1, <1>7 DEF Dropped, SkipsTicket, Statements
    <3>2. Head(q.rest) # "assign"
      BY <1>1 DEF Fits
    <3> QED BY <1>1, <3>1, <3>2 DEF RequestInv
  <2> HIDE DEF p
  <2>5. Fits(p, ticket, now)
    BY <1>1, <2>2, <2>3, <2>4 DEF Fits
  <2> QED BY <1>1, <1>2, <2>1, <2>5, SerialOfOne
<1> QED BY <1>4, <1>5, <1>6, <1>7 DEF StatementFails

\* After a crash nothing is in flight.
LEMMA CrashSerial ==
    ASSUME SerialInductive, Crash PROVE SerialInv'
<1> DEFINE none == <<>>
           p(r) == [req[r] EXCEPT !.todo = {}, !.rest = none]
<1>1. req' = [r \in Requests |-> p(r)]
  BY DEF Crash
<1>2. req \in [Requests -> RequestStates]
  BY DEF SerialInductive, TrailInductive, IInv, TypeOK
<1> HIDE DEF none
<1>3. ASSUME NEW r \in Requests
      PROVE  p(r).rest = none /\ p(r).kind = req[r].kind /\ p(r).todo = {}
  BY <1>2 DEF RequestStates
<1> HIDE DEF p
<1>4. ASSUME NEW r \in Requests PROVE Fits(req'[r], ticket', now') /\ req'[r].rest = <<>>
  <2> DEFINE q == p(r)
  <2>1. (\A x : ~Pending(q, x)) /\ q.rest = <<>> /\ q.todo = {}
    BY <1>3 DEF Pending, none
  <2>2. q.kind = req[r].kind /\ Fits(req[r], ticket, now)
    BY <1>3 DEF SerialInductive, SerialInv
  <2>3. req'[r] = q
    BY <1>1
  <2> HIDE DEF q
  <2>4. Fits(q, ticket', now')
    BY <2>1, <2>2 DEF Fits
  <2> QED BY <2>1, <2>3, <2>4
<1> QED BY <1>4 DEF SerialInv, InFlight

\* What a step does to the rows, but for the UPDATE of a status: nothing that the
\* contract knows of.
LEMMA RowsKept ==
    ASSUME SerialInductive, NEW r \in Requests, WriteAssignee(r) \/ WriteEntry(r)
    PROVE  /\ ticket' \in [Tickets -> Rows(Admins)]
           /\ \A t \in Tickets : /\ ticket'[t].status = ticket[t].status
                                /\ ticket'[t].waiting_since = ticket[t].waiting_since
                                /\ ticket'[t].resolved_at = ticket[t].resolved_at
<1>1. TypeOK /\ IInv
  BY DEF SerialInductive, TrailInductive, IInv
<1>2. ticket \in [Tickets -> Rows(Admins)]
  BY <1>1 DEF TypeOK
<1>3. ticket' \in [Tickets -> Rows(Admins)]
  BY <1>1, WriteAssigneeInv, WriteEntryInv DEF IInv, TypeOK
<1>4. CASE WriteAssignee(r)
  BY <1>2, <1>3, <1>4 DEF WriteAssignee, Rows
<1>5. CASE WriteEntry(r)
  BY <1>2, <1>3, <1>5 DEF WriteEntry, Rows
<1> QED BY <1>3, <1>4, <1>5

\* The serial invariant is inductive.
LEMMA StepSerial ==
    ASSUME SerialInductive, [SerialNext]_vars PROVE SerialInductive'
<1>1. TrailInductive'
  BY SerialIsNext, StepInv, StepTrail DEF SerialInductive, TrailInductive
<1> SUFFICES SerialInv'
  BY <1>1 DEF SerialInductive
<1>2. ASSUME Quiet, NEW r \in Requests, Arrive(r) PROVE SerialInv'
  BY <1>2, ArriveSerial
<1>3. CASE Quiet /\ Tick
  <2>1. UNCHANGED <<ticket, req>>
    BY <1>3 DEF Tick, tables
  <2>2. \A r \in Requests : Fits(req[r], ticket, now) /\ req[r].rest = <<>>
    BY <1>3 DEF Quiet, InFlight, SerialInductive, SerialInv
  <2>3. \A r \in Requests : Fits(req[r], ticket, now')
    BY <2>2, EndedFits
  <2> QED BY <2>1, <2>2, <2>3 DEF SerialInv, InFlight
<1>4. ASSUME NEW r \in Requests, Step(r) PROVE SerialInv'
  <2>1. CASE WriteAssignee(r) \/ WriteEntry(r)
    <3>1. InFlight(r) /\ Head(req[r].rest) # "select" /\ Proceed(r, req[r]) /\ now' = now
      BY <2>1 DEF WriteAssignee, WriteEntry, At
    <3> QED BY <2>1, <3>1, RowsKept, ProceedSerial
  <2>2. CASE WriteAudit(r) \/ Publish(r)
    <3>1. /\ InFlight(r) /\ Head(req[r].rest) # "select" /\ Proceed(r, req[r])
          /\ UNCHANGED <<now, ticket>>
      BY <2>2 DEF WriteAudit, Publish, At, Announcements
    <3> QED BY <3>1, ProceedSerial
  <2> QED BY <1>4, <2>1, <2>2, CronSelectSerial, WriteStatusSerial DEF Step
<1>5. ASSUME NEW r \in Requests, StatementFails(r) PROVE SerialInv'
  BY <1>5, StatementFailsSerial
<1>6. CASE Crash
  BY <1>6, CrashSerial
<1>7. CASE UNCHANGED vars
  BY <1>7 DEF vars, SerialInductive, SerialInv, InFlight
<1> QED BY <1>2, <1>3, <1>4, <1>5, <1>6, <1>7 DEF SerialNext

\* The rows as the contract sees them.
ContractRow(tk) ==
    [t \in Tickets |-> [status        |-> tk[t].status,
                        waiting_since |-> tk[t].waiting_since,
                        resolved_at   |-> tk[t].resolved_at]]

\* A step that keeps every status and every stamp is a stutter of the contract.
LEMMA ContractStutter ==
    ASSUME now' = now,
           \A t \in Tickets : /\ ticket'[t].status = ticket[t].status
                             /\ ticket'[t].waiting_since = ticket[t].waiting_since
                             /\ ticket'[t].resolved_at = ticket[t].resolved_at
    PROVE  UNCHANGED Abstract!contractVars
<1>1. ContractRow(ticket') = ContractRow(ticket)
  BY DEF ContractRow
<1> QED BY <1>1 DEF Abstract!contractVars, ContractRow

\* The plugin starts on rows the contract allows.
LEMMA ContractStarts == Init => Abstract!ContractInit
<1> SUFFICES ASSUME Init PROVE Abstract!ContractInit
  OBVIOUS
<1>1. ticket \in [Tickets -> InitialRows] /\ now = 0
  BY DEF Init
<1> DEFINE row == ContractRow(ticket)
           R == {x \in Abstract!ContractRows :
                    /\ Abstract!StampsMatch(x)
                    /\ x.waiting_since \in {NULL, 0}
                    /\ x.resolved_at \in {NULL, 0}}
<1>2. ASSUME NEW t \in Tickets
      PROVE  [status |-> ticket[t].status, waiting_since |-> ticket[t].waiting_since,
              resolved_at |-> ticket[t].resolved_at] \in R
  <2>1. ticket[t] \in InitialRows
    BY <1>1
  <2> QED BY <2>1 DEF InitialRows, StampsMatch, Abstract!StampsMatch, Abstract!ContractRows,
             Abstract!Statuses, Abstract!Instants, Statuses
<1>3. row \in [Tickets -> R]
  BY <1>2 DEF ContractRow
<1> QED BY <1>1, <1>3 DEF Abstract!ContractInit, ContractRow

\* The UPDATE of a status is a move of the contract.
LEMMA WriteStatusMoves ==
    ASSUME SerialInductive, NEW r \in Requests, WriteStatus(r)
    PROVE  Abstract!ContractNext
<1>0. PICK t \in Tickets : t = req[r].t
  BY SerialAtStatement DEF WriteStatus, At
<1> DEFINE q == req[r]
           old == ticket[t]
           new == UpdateTicketStatus(old, q.to, now)
<1>1. /\ q \in RequestStates /\ Shape(q) /\ q.kind # NULL /\ Fits(q, ticket, now)
      /\ Pending(q, "update") /\ RequestInv(q) /\ q.t = t
  BY <1>0, SerialAtStatement DEF WriteStatus, At
<1>2. /\ ticket \in [Tickets -> Rows(Admins)] /\ now \in Nat
      /\ ticket' = [ticket EXCEPT ![t] = new] /\ now' = now
  BY <1>0 DEF WriteStatus, SerialInductive, TrailInductive, IInv, TypeOK
<1>3. /\ q.to \in Statuses /\ AllowTransition(old.status, q.to, Trigger(q.kind))
      /\ old.status = Believed(q)
  BY <1>1 DEF RequestInv, Fits
<1>4. q.to # "open"
  BY <1>3 DEF AllowTransition, Allowed
<1>5. q.kind \in {"customer_reply", "customer_reopen", "admin_reply", "admin_status", "cron"}
  BY <1>1 DEF Shape, RequestStates, Kinds
<1>6. old \in Rows(Admins)
  BY <1>1, <1>2
<1> DEFINE seen == [status |-> q.to,
                    waiting_since |-> IF q.to = "waiting_customer" THEN now
                                      ELSE IF q.to = "in_progress" THEN NULL
                                      ELSE old.waiting_since,
                    resolved_at   |-> IF q.to = "resolved" THEN now
                                      ELSE IF q.to = "in_progress" THEN NULL
                                      ELSE old.resolved_at]
           row == ContractRow(ticket)
<1>7. /\ new.status = seen.status /\ new.waiting_since = seen.waiting_since
      /\ new.resolved_at = seen.resolved_at
  BY <1>4, <1>6 DEF UpdateTicketStatus, Rows
<1> HIDE DEF new
<1>8. ContractRow(ticket') = [row EXCEPT ![t] = seen]
  <2>1. \A u \in Tickets : ticket'[u] = IF u = t THEN new ELSE ticket[u]
    BY <1>2
  <2>2. ContractRow(ticket') = [u \in Tickets |-> IF u = t THEN seen ELSE row[u]]
    BY <1>7, <2>1 DEF ContractRow
  <2>3. row \in [Tickets -> [status : {ticket[u].status : u \in Tickets},
                             waiting_since : {ticket[u].waiting_since : u \in Tickets},
                             resolved_at : {ticket[u].resolved_at : u \in Tickets}]]
    BY DEF ContractRow
  <2> HIDE DEF row, seen
  <2> QED BY <2>2, <2>3
<1>9. /\ row[t].status = old.status /\ row[t].waiting_since = old.waiting_since
      /\ row[t].resolved_at = old.resolved_at
  BY <1>1 DEF ContractRow
<1>10. ASSUME NEW trigger, AllowTransition(old.status, q.to, trigger)
       PROVE  Abstract!Move(t, q.to, trigger)
  BY <1>2, <1>8, <1>9, <1>10
     DEF Abstract!Move, Abstract!AllowTransition, Abstract!Allowed, AllowTransition, Allowed,
         ContractRow
<1>11. CASE q.kind = "admin_reply"
  <2>1. AllowTransition(old.status, q.to, "AdminReply")
    BY <1>3, <1>11 DEF Trigger
  <2>2. q.to = "in_progress"
    BY <2>1 DEF AllowTransition, Allowed
  <2>3. Abstract!Move(t, "in_progress", "AdminReply")
    BY <1>10, <2>1, <2>2
  <2>4. Abstract!AdminAnswers(t)
    BY <2>3 DEF Abstract!AdminAnswers, ContractRow
  <2> QED BY <1>1, <2>4 DEF Abstract!ContractNext
<1>12. CASE q.kind = "admin_status"
  <2>1. AllowTransition(old.status, q.to, "AdminStatus")
    BY <1>3, <1>12 DEF Trigger
  <2> QED BY <1>1, <1>3, <1>10, <2>1
          DEF Abstract!ContractNext, Abstract!AdminMoves, Abstract!Statuses, Statuses
<1>13. CASE q.kind = "customer_reply"
  <2>1. AllowTransition(old.status, q.to, "CustomerReply")
    BY <1>3, <1>13 DEF Trigger
  <2>2. q.to = "in_progress"
    BY <2>1 DEF AllowTransition, Allowed
  <2>3. Abstract!Move(t, "in_progress", "CustomerReply")
    BY <1>10, <2>1, <2>2
  <2>4. Abstract!CustomerAnswers(t)
    BY <2>3 DEF Abstract!CustomerAnswers, ContractRow
  <2> QED BY <1>1, <2>4 DEF Abstract!ContractNext
<1>14. CASE q.kind = "customer_reopen"
  <2>1. AllowTransition(old.status, q.to, "CustomerReopen")
    BY <1>3, <1>14 DEF Trigger
  <2>2. q.to = "in_progress" /\ old.status = "resolved"
    BY <2>1 DEF AllowTransition, Allowed
  <2>3. AllowReopen(old.resolved_at, now, ReopenWindow)
    BY <1>1, <1>14 DEF Fits
  <2>4. Abstract!Move(t, "in_progress", "CustomerReopen")
    BY <1>10, <2>1, <2>2
  <2>5. row[t].status = "resolved" /\ Abstract!AllowReopen(row[t].resolved_at, now, ReopenWindow)
    BY <1>9, <2>2, <2>3 DEF AllowReopen, Abstract!AllowReopen
  <2>6. Abstract!CustomerReopens(t)
    BY <2>4, <2>5 DEF Abstract!CustomerReopens, ContractRow
  <2> QED BY <1>1, <2>6 DEF Abstract!ContractNext
<1>15. CASE q.kind = "cron"
  <2>1. AllowTransition(old.status, q.to, "CronIdle")
    BY <1>3, <1>15 DEF Trigger
  <2>2. q.to = "closed"
    BY <2>1 DEF AllowTransition, Allowed
  <2>3. AutoCloseEnabled /\ t \in IdleAt(ticket, now, q.pass)
    BY <1>1, <1>15 DEF Fits
  <2>4. \/ ResolvedAtIdle(old, now, ResolvedAfterDays)
        \/ WaitingIdle(old, now, WaitingAfterDays)
    BY <2>3 DEF IdleAt
  <2>5. \/ Abstract!ResolvedAtIdle(row[t], now, ResolvedAfterDays)
        \/ Abstract!WaitingIdle(row[t], now, WaitingAfterDays)
    BY <1>9, <2>4 DEF ResolvedAtIdle, WaitingIdle, Abstract!ResolvedAtIdle, Abstract!WaitingIdle
  <2>6. Abstract!Move(t, "closed", "CronIdle")
    BY <1>10, <2>1, <2>2
  <2>7. Abstract!AutoCloses(t)
    BY <2>3, <2>5, <2>6 DEF Abstract!AutoCloses, ContractRow
  <2> QED BY <1>1, <2>7 DEF Abstract!ContractNext
<1> QED BY <1>5, <1>11, <1>12, <1>13, <1>14, <1>15

\* Every serial step is a step of the contract, or leaves the lifecycle alone.
LEMMA StepContract ==
    ASSUME SerialInductive, [SerialNext]_vars
    PROVE  [Abstract!ContractNext]_(Abstract!contractVars)
<1>1. ASSUME UNCHANGED <<now, ticket>> PROVE UNCHANGED Abstract!contractVars
  BY <1>1, ContractStutter
<1>2. ASSUME NEW r \in Requests, Arrive(r) PROVE UNCHANGED <<now, ticket>>
  BY <1>2 DEF Arrive, CustomerReply, CustomerReopen, AdminReply, AdminNote, AdminStatus,
              AdminAssign, AdminRunCron, Receive, tables
<1>3. CASE Tick
  <2>1. now' = now + 1 /\ UNCHANGED ticket
    BY <1>3 DEF Tick, tables
  <2> QED BY <2>1 DEF Abstract!ContractNext, Abstract!Later
<1>4. ASSUME NEW r \in Requests, Step(r)
      PROVE  [Abstract!ContractNext]_(Abstract!contractVars)
  <2>1. CASE WriteStatus(r)
    BY <2>1, WriteStatusMoves
  <2>2. CASE WriteAssignee(r) \/ WriteEntry(r)
    <3>1. now' = now
      BY <2>2 DEF WriteAssignee, WriteEntry
    <3> QED BY <2>2, <3>1, RowsKept, ContractStutter
  <2>3. CASE CronSelect(r) \/ WriteAudit(r) \/ Publish(r)
    BY <1>1, <2>3 DEF CronSelect, WriteAudit, Publish, tables
  <2> QED BY <1>4, <2>1, <2>2, <2>3 DEF Step
<1>5. CASE \E r \in Requests : StatementFails(r)
  BY <1>1, <1>5 DEF StatementFails, tables
<1>6. CASE Crash \/ UNCHANGED vars
  BY <1>1, <1>6 DEF Crash, vars, tables
<1> QED BY <1>1, <1>2, <1>3, <1>4, <1>5, <1>6 DEF SerialNext

\* ContractImplemented: for any number of tickets, requests, statement failures and
\* crashes, handlers and cron runs that take place one at a time implement the
\* lifecycle of TicketContract.
THEOREM ContractImplemented == SerialSpec => ImplementsContract
<1>1. Init => SerialInductive
  <2> SUFFICES ASSUME Init PROVE SerialInductive
    OBVIOUS
  <2>1. TrailInductive
    BY InitIInv, InitTrail DEF TrailInductive
  <2> DEFINE q == NewRequest
  <2>2. q.kind = NULL /\ q.rest = <<>> /\ q.todo = {}
    BY DEF NewRequest
  <2>3. \A x : ~Pending(q, x)
    BY <2>2 DEF Pending
  <2>4. Fits(q, ticket, now)
    BY <2>2, <2>3, KindsAssumption DEF Fits, Kinds
  <2>5. \A r \in Requests : req[r] = q
    BY DEF Init
  <2> HIDE DEF q
  <2> QED BY <2>1, <2>2, <2>4, <2>5 DEF SerialInductive, SerialInv, InFlight
<1>2. SerialInductive /\ [SerialNext]_vars => SerialInductive'
  BY StepSerial
<1>3. Init => Abstract!ContractInit
  BY ContractStarts
<1>4. SerialInductive /\ [SerialNext]_vars => [Abstract!ContractNext]_(Abstract!contractVars)
  BY StepContract
<1> QED BY <1>1, <1>2, <1>3, <1>4, PTL DEF SerialSpec, ImplementsContract, Abstract!Contract

=============================================================================
