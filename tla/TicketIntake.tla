----------------------------- MODULE TicketIntake -----------------------------
(***************************************************************************)
(* Ticket creation (hTKCustomerCreate) and what limits it: the spacing of  *)
(* a customer's actions, the cap on open tickets, the form of the category *)
(* and the tracking numbers.  Customer replies appear with the spacing     *)
(* they are subject to and the entry that counts for it; the rest of them  *)
(* is in Tickets.                                                          *)
(*                                                                         *)
(* Each check is a SELECT of its own and nothing is locked between a check *)
(* and the INSERT it guards.  A request refused by a check ends without    *)
(* effect: that is the choice not to take the step.  A ticket is named by  *)
(* the request that created it.                                            *)
(***************************************************************************)
EXTENDS Integers, FiniteSets

CONSTANTS
    NULL,
    Requests,      \* create and reply requests, each served once
    Customers,
    Fields,        \* ids the fields of the category's form can have
    MinInterval,   \* tkCustomerActionMinInterval, in units of the clock
    MaxOpen,       \* Deps.TKMaxOpenPerCustomer; tkLimits: <= 0 means no cap
    MaxNow,        \* bound: the clock stops here
    MaxFaults      \* bound: failed statements and crashes of a behavior

ASSUME IntakeAssumption ==
    /\ NULL \notin Int /\ NULL \notin Customers
    /\ MinInterval \in Nat /\ MaxOpen \in Int
    /\ MaxNow \in Nat /\ MaxFaults \in Nat

VARIABLES
    now,
    nextN,      \* tk_ticket_sequence.next_n
    tickets,    \* tk_tickets, each with its initial entry and field values
    stage,      \* status of each ticket, as far as the cap can tell
    replies,    \* tk_ticket_entries of customers
    form,       \* tk_category_fields of the one category: [Fields -> ...]
    category,   \* does the category's row exist?
    req,        \* local state of every request
    submitted,  \* ticket_submitted events handed to the host
    faults

vars == <<now, nextN, tickets, stage, replies, form, category, req, submitted, faults>>

Stages == {"none", "active", "resolved", "closed"}
FieldStates == {"unborn", "optional", "required", "deleted"}   \* ids are never reused
Steps == {"new", "cap", "form", "number", "commit", "announce", "reply", "done"}

TicketRecords == [id : Requests, n : Nat, customer : Customers, at : Nat,
                  values : SUBSET Fields]

RequestStates ==
    [pc       : Steps,
     customer : Customers \cup {NULL},
     filled   : SUBSET Fields,          \* fields the request has a value for
     counted  : Nat,                    \* open tickets the cap check saw
     listed   : SUBSET Fields,          \* fields of the form it read
     required : SUBSET Fields,          \* those of them that were required
     n        : Nat,                    \* tracking number it holds, 0 for none
     earlier  : SUBSET Requests]        \* history: actions the rate limit could see

NewRequest == [pc |-> "new", customer |-> NULL, filled |-> {}, counted |-> 0,
               listed |-> {}, required |-> {}, n |-> 0, earlier |-> {}]

TypeOK ==
    /\ now \in 0..MaxNow
    /\ nextN \in Nat \ {0}
    /\ tickets \subseteq TicketRecords
    /\ stage \in [Requests -> Stages]
    /\ replies \subseteq [id : Requests, customer : Customers, at : Nat]
    /\ form \in [Fields -> FieldStates]
    /\ category \in BOOLEAN
    /\ req \in [Requests -> RequestStates]
    /\ submitted \subseteq Requests
    /\ faults \in 0..MaxFaults

\* Mutant: the sequence row of the migration starts at 0.
InitAtZero ==
    /\ now = 0 /\ nextN = 0 /\ tickets = {} /\ replies = {} /\ submitted = {}
    /\ stage = [r \in Requests |-> "none"]
    /\ form = [f \in Fields |-> "unborn"]
    /\ category = TRUE
    /\ req = [r \in Requests |-> NewRequest]
    /\ faults = 0

Init ==
    /\ now = 0 /\ nextN = 1 /\ tickets = {} /\ replies = {} /\ submitted = {}
    /\ stage = [r \in Requests |-> "none"]
    /\ form \in [Fields -> FieldStates \ {"deleted"}]
    /\ category = TRUE
    /\ req = [r \in Requests |-> NewRequest]
    /\ faults = 0

-----------------------------------------------------------------------------
(* Checks                                                                  *)

\* Mutant: only the second half of the UNION ALL.
ActionTimesOfReplies(c) == {e.at : e \in {f \in replies : f.customer = c}}

\* The UNION ALL of TKLastCustomerActionAt.
ActionTimes(c) == {t.at : t \in {u \in tickets : u.customer = c}}
                  \cup {e.at : e \in {f \in replies : f.customer = c}}

\* tkRateLimit: no action of the customer is younger than the interval.
SpacingPassed(c) == \A at \in ActionTimes(c) : now - at >= MinInterval

\* The committed actions of c, as far as a check that fails or not looks at them.
Earlier(c, failing) ==
    IF failing THEN {} ELSE {a.id : a \in {b \in tickets \cup replies : b.customer = c}}

Open(c) == {t \in tickets : t.customer = c /\ stage[t.id] = "active"}

Goto(r, pc) == req' = [req EXCEPT ![r].pc = pc]

Database == <<nextN, tickets, stage, replies, form, category, submitted>>

\* hTKCustomerCreate up to the rate limit, for customer c who fills in `filled`.
\* TKLastCustomerActionAt answers every error of its query with the zero time
\* ("never acted"), so that a failing SELECT lets the request pass.
CreateArrives(r, c, filled, failing) ==
    /\ req[r].pc = "new"
    /\ failing \/ SpacingPassed(c)
    /\ req' = [req EXCEPT ![r] = [NewRequest EXCEPT
                  !.pc = IF MaxOpen > 0 THEN "cap" ELSE "form",
                  !.customer = c, !.filled = filled, !.earlier = Earlier(c, failing)]]
    /\ UNCHANGED <<now, Database>>

\* hTKCustomerReply up to the rate limit, on a ticket of c that is not closed.
ReplyArrives(r, c, failing) ==
    /\ req[r].pc = "new"
    /\ \E t \in tickets : t.customer = c /\ stage[t.id] # "closed"
    /\ failing \/ SpacingPassed(c)
    /\ req' = [req EXCEPT ![r] = [NewRequest EXCEPT !.pc = "reply", !.customer = c,
                                                     !.earlier = Earlier(c, failing)]]
    /\ UNCHANGED <<now, Database>>

Arrive(r, failing) ==
    \E c \in Customers :
       \/ \E filled \in SUBSET Fields : CreateArrives(r, c, filled, failing)
       \/ ReplyArrives(r, c, failing)

\* Mutant: the cap compared with > instead of >=.
CheckCapLax(r) ==
    LET open == Cardinality(Open(req[r].customer)) IN
    /\ req[r].pc = "cap"
    /\ open <= MaxOpen
    /\ req' = [req EXCEPT ![r].pc = "form", ![r].counted = open]
    /\ UNCHANGED <<now, Database, faults>>

\* TKCountOpenTicketsForCustomer and the comparison with the cap.
CheckCap(r) ==
    LET open == Cardinality(Open(req[r].customer)) IN
    /\ req[r].pc = "cap"
    /\ open < MaxOpen
    /\ req' = [req EXCEPT ![r].pc = "form", ![r].counted = open]
    /\ UNCHANGED <<now, Database, faults>>

Present(f) == form[f] \in {"optional", "required"}

\* TKListCategoryFields and the loop over the required ones.
CheckForm(r) ==
    LET required == {f \in Fields : form[f] = "required"} IN
    /\ req[r].pc = "form"
    /\ required \subseteq req[r].filled
    /\ req' = [req EXCEPT ![r].pc = "number", ![r].required = required,
                          ![r].listed = {f \in Fields : Present(f)}]
    /\ UNCHANGED <<now, Database, faults>>

-----------------------------------------------------------------------------
(* Writes                                                                  *)

\* Mutant: the increment of the sequence is lost.
TakeNumberTwice(r) ==
    /\ req[r].pc = "number"
    /\ req' = [req EXCEPT ![r].pc = "commit", ![r].n = nextN]
    /\ UNCHANGED <<now, Database, faults>>

\* TKNextTrackingNumber: one UPDATE, committed before the ticket's transaction
\* begins.
TakeNumber(r) ==
    /\ req[r].pc = "number"
    /\ nextN' = nextN + 1
    /\ req' = [req EXCEPT ![r].pc = "commit", ![r].n = nextN]
    /\ UNCHANGED <<now, tickets, stage, replies, form, category, submitted, faults>>

\* TKBegin .. Commit: the ticket, its initial entry and its field values.  The
\* foreign keys want the category and the fields to be there still.
Commit(r) ==
    LET q == req[r]
        values == q.listed \cap q.filled
    IN
    /\ q.pc = "commit"
    /\ category
    /\ \A f \in values : Present(f)
    /\ tickets' = tickets \cup
         {[id |-> r, n |-> q.n, customer |-> q.customer, at |-> now, values |-> values]}
    /\ stage' = [stage EXCEPT ![r] = "active"]
    /\ Goto(r, "announce")
    /\ UNCHANGED <<now, nextN, replies, form, category, submitted, faults>>

\* Rollback: a foreign key is violated.
Rollback(r) ==
    /\ req[r].pc = "commit"
    /\ ~category \/ \E f \in req[r].listed \cap req[r].filled : ~Present(f)
    /\ Goto(r, "done")
    /\ UNCHANGED <<now, Database, faults>>

Announce(r) ==
    /\ req[r].pc = "announce"
    /\ submitted' = submitted \cup {r}
    /\ Goto(r, "done")
    /\ UNCHANGED <<now, nextN, tickets, stage, replies, form, category, faults>>

\* The TKInsertEntryNoTx of hTKCustomerReply.
WriteReply(r) ==
    /\ req[r].pc = "reply"
    /\ replies' = replies \cup {[id |-> r, customer |-> req[r].customer, at |-> now]}
    /\ Goto(r, "done")
    /\ UNCHANGED <<now, nextN, tickets, stage, form, category, submitted, faults>>

-----------------------------------------------------------------------------
(* The rest of the plugin                                                  *)

\* TKUpdateTicketStatus, as called by the requests of module Tickets.
StatusWritten(t) ==
    /\ stage[t.id] # "none"
    /\ \E to \in {"active", "resolved", "closed"} : stage' = [stage EXCEPT ![t.id] = to]
    /\ UNCHANGED <<now, nextN, tickets, replies, form, category, req, submitted, faults>>

\* hTKAdminCreateField.
CreateField(f) ==
    /\ form[f] = "unborn" /\ category
    /\ \E s \in {"optional", "required"} : form' = [form EXCEPT ![f] = s]
    /\ UNCHANGED <<now, nextN, tickets, stage, replies, category, req, submitted, faults>>

\* hTKAdminUpdateField: `required` can change at any time.
UpdateField(f) ==
    /\ Present(f)
    /\ \E s \in {"optional", "required"} : form' = [form EXCEPT ![f] = s]
    /\ UNCHANGED <<now, nextN, tickets, stage, replies, category, req, submitted, faults>>

\* Mutant: without ON DELETE RESTRICT.
DeleteFieldInUse(f) ==
    /\ Present(f)
    /\ form' = [form EXCEPT ![f] = "deleted"]
    /\ UNCHANGED <<now, nextN, tickets, stage, replies, category, req, submitted, faults>>

\* hTKAdminDeleteField: ON DELETE RESTRICT against field values.
DeleteField(f) ==
    /\ Present(f)
    /\ \A t \in tickets : f \notin t.values
    /\ form' = [form EXCEPT ![f] = "deleted"]
    /\ UNCHANGED <<now, nextN, tickets, stage, replies, category, req, submitted, faults>>

\* hTKAdminDeleteCategory: ON DELETE RESTRICT against tickets, its fields go
\* with it.
DeleteCategory ==
    /\ category /\ tickets = {}
    /\ category' = FALSE
    /\ form' = [f \in Fields |-> IF Present(f) THEN "deleted" ELSE form[f]]
    /\ UNCHANGED <<now, nextN, tickets, stage, replies, req, submitted, faults>>

Tick ==
    /\ now < MaxNow
    /\ now' = now + 1
    /\ UNCHANGED <<Database, req, faults>>

\* A failed statement ends the request with an error; a crash ends all of them.
Fail(r) ==
    /\ req[r].pc \notin {"new", "done"}
    /\ faults < MaxFaults /\ faults' = faults + 1
    /\ Goto(r, "done")
    /\ UNCHANGED <<now, Database>>

Crash ==
    /\ faults < MaxFaults /\ faults' = faults + 1
    /\ req' = [r \in Requests |-> IF req[r].pc = "new" THEN req[r]
                                  ELSE [req[r] EXCEPT !.pc = "done"]]
    /\ UNCHANGED <<now, Database>>

-----------------------------------------------------------------------------
Arrival(r) ==
    \/ Arrive(r, FALSE) /\ UNCHANGED faults
    \/ faults < MaxFaults /\ Arrive(r, TRUE) /\ faults' = faults + 1

Serve(r) ==
    \/ CheckCap(r) \/ CheckForm(r) \/ TakeNumber(r) \/ Commit(r) \/ Rollback(r)
    \/ Announce(r) \/ WriteReply(r)

Elsewhere ==
    \/ \E t \in tickets : StatusWritten(t)
    \/ \E f \in Fields : CreateField(f) \/ UpdateField(f) \/ DeleteField(f)
    \/ DeleteCategory
    \/ Tick

Next ==
    \/ \E r \in Requests : Arrival(r) \/ Serve(r) \/ Fail(r)
    \/ Crash
    \/ Elsewhere

Spec == Init /\ [][Next]_vars

-----------------------------------------------------------------------------
(* Properties                                                              *)

\* NumbersFollowCreation: a ticket that is committed before another request takes
\* its number has the smaller number.
NumbersFollowCreation ==
    [][\A r \in Requests : req'[r].n # req[r].n =>
          \A t \in tickets : t.n < req'[r].n]_vars

\* FormRespected: a committed ticket has a value for each field that was required
\* when its request read the form, and all its values are of fields that still
\* exist, whatever admins do to the form meanwhile.
FormRespected ==
    \A t \in tickets :
        /\ category
        /\ req[t.id].required \subseteq t.values
        /\ \A f \in t.values : Present(f)

\* CapKeptUnlessOvertaken: a create that puts its customer over the cap was
\* overtaken: tickets of that customer were opened between its count and its
\* commit.
CapKeptUnlessOvertaken ==
    [][\A t \in tickets' \ tickets :
         LET open == Cardinality(Open(t.customer)) IN
         MaxOpen > 0 /\ open <= req[t.id].counted => open + 1 <= MaxOpen]_vars

\* SpacingKept: the actions of a customer are at least MinInterval apart ("the
\* minimum spacing between customer-originated ticket actions (create / reply)",
\* handlers_tk_customer.go).
SpacingKept ==
    \A a, b \in tickets \cup replies :
        a # b /\ a.customer = b.customer /\ a.at <= b.at => b.at - a.at >= MinInterval

\* SpacingKeptUnlessOvertaken: when two actions of a customer are closer, each
\* passed the rate limit before the other was committed, or on an error of the
\* SELECT: two creates, two replies or one of each.
SpacingKeptUnlessOvertaken ==
    \A a, b \in tickets \cup replies :
        a.customer = b.customer /\ a.id \in req[b.id].earlier => b.at - a.at >= MinInterval

\* CapKept: no create is committed for a customer who has the configured number
\* of non-terminal tickets ("reject creating a new ticket when the customer
\* already has the configured number", handlers_tk_customer.go).
CapKept ==
    [][\A t \in tickets' \ tickets :
          MaxOpen > 0 => Cardinality(Open(t.customer)) < MaxOpen]_vars
=============================================================================
