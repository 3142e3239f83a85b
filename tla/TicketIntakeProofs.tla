-------------------------- MODULE TicketIntakeProofs --------------------------
(***************************************************************************)
(* Proofs about what limits a customer: TicketIntake (numbers, form,       *)
(* spacing and cap of the tickets they create) and TicketAttachments (the  *)
(* two limits of their uploads), for any number of customers, requests,    *)
(* fields and uploads under way, any limits and any faults.  The two       *)
(* modules share no state; the proofs about uploads follow those about     *)
(* intake.                                                                 *)
(*                                                                         *)
(* The inductive invariant of TicketIntake says of each request what its   *)
(* passed checks still mean: fields it found required are among the values *)
(* it will write, the open tickets it counted were below the cap, and the  *)
(* actions its rate check could see are old enough.                        *)
(***************************************************************************)
EXTENDS TicketIntake, TicketAttachments, FiniteSetTheorems, TLAPS

Working == {"cap", "form", "number", "commit", "reply"}
Through == {"announce", "done"}

Spaced(q) ==
    \A a \in tickets \cup replies :
        a.customer = q.customer /\ a.id \in q.earlier => now - a.at >= MinInterval

RequestInv(r) ==
    LET q == req[r] IN
    /\ q.n < nextN
    /\ q.pc = "new" => q.n = 0
    /\ q.pc \in Working => q.customer \in Customers /\ Spaced(q)
    /\ q.pc \in {"number", "commit"} => q.required \subseteq q.listed \cap q.filled
    /\ q.pc \in {"form", "number", "commit"} /\ MaxOpen > 0 => q.counted < MaxOpen
    /\ \A i \in q.earlier : req[i].pc \in Through

TicketInv(t) == t.n < nextN /\ req[t.id].pc \in Through

IInv ==
    /\ TypeOK /\ IsFiniteSet(tickets)
    /\ \A r \in Requests : RequestInv(r)
    /\ \A t \in tickets : TicketInv(t)
    /\ \A e \in replies : req[e.id].pc = "done"
    /\ FormRespected
    /\ SpacingKeptUnlessOvertaken

-----------------------------------------------------------------------------
(* Steps of one request that leave tickets, replies and form alone         *)

\* The rest of a request's invariant follows wherever it was and goes on.
LEMMA MoveStep ==
  ASSUME IInv, NEW r \in Requests,
         req' \in [Requests -> RequestStates],
         \A s \in Requests : s # r => req'[s] = req[s],
         UNCHANGED <<now, tickets, stage, replies, form, category>>,
         submitted' \subseteq Requests, faults' \in 0..MaxFaults,
         nextN' \in Nat \ {0}, nextN' >= nextN,
         req[r].pc \in Through => /\ req'[r].pc \in Through
                                  /\ req'[r].required = req[r].required
                                  /\ req'[r].earlier = req[r].earlier,
         req[r].pc = "done" => req'[r].pc = "done",
         RequestInv(r)'
  PROVE  IInv'
<1>1. TypeOK' /\ IsFiniteSet(tickets)'
  BY DEF IInv, TypeOK
<1>2. \A s \in Requests : RequestInv(s)'
  <2> SUFFICES ASSUME NEW s \in Requests, s # r PROVE RequestInv(s)'
    OBVIOUS
  <2>1. req'[s] = req[s] /\ req[s] \in RequestStates /\ RequestInv(s)
    BY DEF IInv, TypeOK
  <2>2. req[s].earlier \subseteq Requests /\ req[s].n \in Nat /\ nextN \in Nat
    BY <2>1 DEF RequestStates, IInv, TypeOK
  <2>3. \A i \in req[s].earlier : req'[i].pc \in Through
    BY <2>1, <2>2 DEF RequestInv
  <2> QED
    BY <2>1, <2>2, <2>3 DEF RequestInv, Spaced
<1>3. \A t \in tickets : t.id \in Requests /\ t.n \in Nat /\ TicketInv(t)
  BY DEF IInv, TypeOK, TicketRecords
<1>4. \A t \in tickets' : TicketInv(t)'
  BY <1>3 DEF TicketInv, IInv, TypeOK
<1>5. \A e \in replies : e.id \in Requests /\ req[e.id].pc = "done"
  BY DEF IInv, TypeOK
<1>6. \A e \in replies' : req'[e.id].pc = "done"
  BY <1>5
<1>7. FormRespected'
  <2>1. \A t \in tickets : req'[t.id].required = req[t.id].required
    BY <1>3 DEF TicketInv
  <2> QED
    BY <2>1 DEF FormRespected, Present, IInv
<1>8. SpacingKeptUnlessOvertaken'
  <2>1. \A b \in tickets \cup replies : req'[b.id].earlier = req[b.id].earlier
    BY <1>3, <1>5 DEF TicketInv, Through
  <2> QED
    BY <2>1 DEF SpacingKeptUnlessOvertaken, IInv
<1> QED
  BY <1>1, <1>2, <1>4, <1>6, <1>7, <1>8 DEF IInv

-----------------------------------------------------------------------------
(* Arrivals                                                                *)

\* What the rate limit could see is committed, by requests that are through, and
\* old enough unless the SELECT failed.
LEMMA EarlierSeen ==
  ASSUME IInv, NEW c \in Customers, NEW failing \in BOOLEAN,
         failing \/ SpacingPassed(c)
  PROVE  /\ Earlier(c, failing) \subseteq Requests
         /\ \A i \in Earlier(c, failing) : req[i].pc \in Through
         /\ \A a \in tickets \cup replies :
              a.customer = c /\ a.id \in Earlier(c, failing) => now - a.at >= MinInterval
<1>1. \A a \in tickets \cup replies : a.id \in Requests /\ req[a.id].pc \in Through
  BY DEF IInv, TypeOK, TicketRecords, TicketInv, Through
<1>2. CASE failing
  BY <1>2 DEF Earlier
<1>3. CASE ~failing
  <2>1. SpacingPassed(c)
    BY <1>3
  <2>2. \A a \in tickets \cup replies : a.customer = c => now - a.at >= MinInterval
    BY <2>1 DEF SpacingPassed, ActionTimes
  <2> QED
    BY <1>1, <1>3, <2>2 DEF Earlier
<1> QED
  BY <1>2, <1>3

\* A create or a reply that passed the rate limit.
LEMMA ArrivalStep ==
  ASSUME IInv, NEW r \in Requests, Arrival(r)
  PROVE  IInv'
<1>1. PICK failing \in BOOLEAN :
        Arrive(r, failing) /\ faults' \in 0..MaxFaults
  <2>1. CASE Arrive(r, FALSE) /\ UNCHANGED faults
    BY <2>1 DEF IInv, TypeOK
  <2>2. CASE faults < MaxFaults /\ Arrive(r, TRUE) /\ faults' = faults + 1
    <3>1. faults' \in 0..MaxFaults
      BY <2>2, IntakeAssumption DEF IInv, TypeOK
    <3> QED
      BY <2>2, <3>1
  <2> QED
    BY <2>1, <2>2 DEF Arrival
<1>2. PICK c \in Customers :
        \/ \E filled \in SUBSET Fields : CreateArrives(r, c, filled, failing)
        \/ ReplyArrives(r, c, failing)
  BY <1>1 DEF Arrive
<1>3. PICK q \in RequestStates :
        /\ req' = [req EXCEPT ![r] = q]
        /\ q.pc \in {"cap", "form", "reply"} /\ (q.pc = "form" => ~(MaxOpen > 0))
        /\ q.customer = c /\ q.n = 0 /\ q.earlier = Earlier(c, failing)
  <2>1. NewRequest \in RequestStates /\ NewRequest.n = 0
    BY DEF NewRequest, RequestStates, Steps
  <2>2. Earlier(c, failing) \in SUBSET Requests
    BY <1>2, EarlierSeen DEF CreateArrives, ReplyArrives
  <2>3. ASSUME NEW filled \in SUBSET Fields, CreateArrives(r, c, filled, failing)
        PROVE  \E q \in RequestStates :
                 /\ req' = [req EXCEPT ![r] = q]
                 /\ q.pc \in {"cap", "form", "reply"} /\ (q.pc = "form" => ~(MaxOpen > 0))
                 /\ q.customer = c /\ q.n = 0 /\ q.earlier = Earlier(c, failing)
    <3>1. PICK pc \in {"cap", "form"} :
            /\ pc = "form" => ~(MaxOpen > 0)
            /\ req' = [req EXCEPT ![r] = [NewRequest EXCEPT
                        !.pc = pc, !.customer = c, !.filled = filled,
                        !.earlier = Earlier(c, failing)]]
      BY <2>3 DEF CreateArrives
    <3> DEFINE q == [NewRequest EXCEPT !.pc = pc, !.customer = c, !.filled = filled,
                                       !.earlier = Earlier(c, failing)]
    <3>2. q \in RequestStates /\ q.pc = pc /\ q.customer = c /\ q.n = 0
          /\ q.earlier = Earlier(c, failing)
      BY <2>1, <2>2 DEF RequestStates, Steps
    <3> QED
      BY <3>1, <3>2
  <2>4. ASSUME ReplyArrives(r, c, failing)
        PROVE  \E q \in RequestStates :
                 /\ req' = [req EXCEPT ![r] = q]
                 /\ q.pc \in {"cap", "form", "reply"} /\ (q.pc = "form" => ~(MaxOpen > 0))
                 /\ q.customer = c /\ q.n = 0 /\ q.earlier = Earlier(c, failing)
    <3> DEFINE q == [NewRequest EXCEPT !.pc = "reply", !.customer = c,
                                       !.earlier = Earlier(c, failing)]
    <3>1. req' = [req EXCEPT ![r] = q]
      BY <2>4 DEF ReplyArrives
    <3>2. q \in RequestStates /\ q.pc = "reply" /\ q.customer = c /\ q.n = 0
          /\ q.earlier = Earlier(c, failing)
      BY <2>1, <2>2 DEF RequestStates, Steps
    <3> QED
      BY <3>1, <3>2
  <2> QED
    BY <1>2, <2>3, <2>4
<1>4. /\ req[r].pc = "new" /\ (failing \/ SpacingPassed(c))
      /\ UNCHANGED <<now, Database>>
  BY <1>2 DEF CreateArrives, ReplyArrives
<1>5. /\ req'[r] = q
      /\ req' \in [Requests -> RequestStates]
      /\ \A s \in Requests : s # r => req'[s] = req[s]
  BY <1>3 DEF IInv, TypeOK
<1>6. /\ \A i \in Earlier(c, failing) : i \in Requests /\ req[i].pc \in Through
      /\ \A a \in tickets \cup replies :
           a.customer = c /\ a.id \in Earlier(c, failing) => now - a.at >= MinInterval
  BY <1>4, EarlierSeen
<1>7. RequestInv(r)'
  <2>1. \A i \in Earlier(c, failing) : i \in Requests /\ i # r /\ req'[i].pc \in Through
    BY <1>4, <1>5, <1>6 DEF Through
  <2>2. Spaced(req[r])'
    BY <1>3, <1>4, <1>5, <1>6 DEF Spaced, Database
  <2>3. 0 < nextN'
    BY <1>4 DEF Database, IInv, TypeOK
  <2> QED
    BY <1>3, <1>5, <2>1, <2>2, <2>3 DEF RequestInv, Working
<1> QED
  BY <1>1, <1>4, <1>5, <1>7, MoveStep DEF Database, Through, IInv, TypeOK

-----------------------------------------------------------------------------
(* Steps of a request that is under way                                    *)

\* What Goto leaves of a request.
LEMMA GotoFields ==
  ASSUME IInv, NEW r \in Requests, NEW pc \in Steps, Goto(r, pc)
  PROVE  /\ req' \in [Requests -> RequestStates]
         /\ \A s \in Requests : s # r => req'[s] = req[s]
         /\ req'[r].pc = pc
         /\ req'[r].n = req[r].n
         /\ req'[r].customer = req[r].customer
         /\ req'[r].required = req[r].required
         /\ req'[r].earlier = req[r].earlier
<1> DEFINE p == req[r]
           q == [p EXCEPT !.pc = pc]
<1>1. p \in RequestStates /\ req \in [Requests -> RequestStates]
  BY DEF IInv, TypeOK
<1>2. /\ q \in RequestStates /\ q.pc = pc /\ q.n = p.n /\ q.customer = p.customer
      /\ q.required = p.required /\ q.earlier = p.earlier
  BY <1>1 DEF RequestStates
<1>3. req' = [req EXCEPT ![r] = q]
  BY DEF Goto
<1> HIDE DEF q
<1> QED
  BY <1>1, <1>2, <1>3

\* A request that ends keeps what little its invariant still says.
LEMMA EndStep ==
  ASSUME IInv, NEW r \in Requests, Goto(r, "done"), req[r].pc # "new",
         UNCHANGED <<now, nextN, tickets, stage, replies, form, category>>,
         submitted' \subseteq Requests, faults' \in 0..MaxFaults
  PROVE  IInv'
<1>1. "done" \in Steps
  BY DEF Steps
<1>2. /\ req' \in [Requests -> RequestStates]
      /\ \A s \in Requests : s # r => req'[s] = req[s]
      /\ req'[r].pc = "done" /\ req'[r].n = req[r].n
      /\ req'[r].required = req[r].required /\ req'[r].earlier = req[r].earlier
  BY <1>1, GotoFields
<1>3. RequestInv(r) /\ req[r] \in RequestStates
  BY DEF IInv, TypeOK
<1>4. RequestInv(r)'
  <2>1. \A i \in req[r].earlier : i \in Requests /\ req'[i].pc \in Through
    BY <1>2, <1>3 DEF RequestInv, RequestStates, Through
  <2> QED
    BY <1>2, <1>3, <2>1 DEF RequestInv, Working
<1>5. nextN' \in Nat \ {0} /\ nextN' >= nextN
  BY DEF IInv, TypeOK
<1> QED
  BY <1>2, <1>4, <1>5, MoveStep DEF Through

\* A check or the tracking number, which only adds to what the request knows.
LEMMA CheckStep ==
  ASSUME IInv, NEW r \in Requests,
         CheckCap(r) \/ CheckForm(r) \/ TakeNumber(r)
  PROVE  IInv'
<1> DEFINE p == req[r]
           q == req'[r]
<1>1. /\ p \in RequestStates /\ RequestInv(r) /\ nextN \in Nat \ {0}
      /\ IsFiniteSet(tickets)
  BY DEF IInv, TypeOK
<1>2. /\ p.pc \in {"cap", "form", "number"}
      /\ UNCHANGED <<now, tickets, stage, replies, form, category, submitted, faults>>
  BY DEF CheckCap, CheckForm, TakeNumber, Database
<1>3. /\ q.customer = p.customer /\ q.filled = p.filled /\ q.earlier = p.earlier
      /\ req' \in [Requests -> RequestStates]
      /\ \A s \in Requests : s # r => req'[s] = req[s]
      /\ nextN' \in Nat \ {0} /\ nextN' >= nextN
      /\ q.n < nextN'
      /\ q.pc \in {"form", "number", "commit"}
      /\ q.pc \in {"number", "commit"} => q.required \subseteq q.listed \cap q.filled
      /\ MaxOpen > 0 => q.counted < MaxOpen
  <2> SUFFICES
        \E x \in RequestStates :
          /\ req' = [req EXCEPT ![r] = x]
          /\ x.customer = p.customer /\ x.filled = p.filled /\ x.earlier = p.earlier
          /\ nextN' \in Nat \ {0} /\ nextN' >= nextN
          /\ x.n < nextN'
          /\ x.pc \in {"form", "number", "commit"}
          /\ x.pc \in {"number", "commit"} => x.required \subseteq x.listed \cap x.filled
          /\ MaxOpen > 0 => x.counted < MaxOpen
    BY DEF IInv, TypeOK
  <2>1. CASE CheckCap(r)
    <3> DEFINE open == Cardinality(Open(p.customer))
               x == [p EXCEPT !.pc = "form", !.counted = open]
    <3>1. open \in Nat
      <4>1. Open(p.customer) \in SUBSET tickets
        BY DEF Open
      <4>2. IsFiniteSet(Open(p.customer))
        BY <1>1, <4>1, FS_Subset
      <4> QED
        BY <4>2, FS_CardinalityType
    <3>2. open < MaxOpen /\ nextN' = nextN /\ req' = [req EXCEPT ![r] = x]
      BY <2>1 DEF CheckCap, Database
    <3>3. x \in RequestStates /\ x.pc = "form" /\ x.counted = open /\ x.n = p.n
          /\ x.customer = p.customer /\ x.filled = p.filled /\ x.earlier = p.earlier
      BY <1>1, <3>1 DEF RequestStates, Steps
    <3>4. p.n < nextN
      BY <1>1 DEF RequestInv
    <3> HIDE DEF open, x
    <3> x \in RequestStates
      BY <3>3
    <3> WITNESS x \in RequestStates
    <3> QED
      BY <1>1, <3>2, <3>3, <3>4
  <2>2. CASE CheckForm(r)
    <3> DEFINE required == {f \in Fields : form[f] = "required"}
               listed == {f \in Fields : Present(f)}
               x == [p EXCEPT !.pc = "number", !.required = required, !.listed = listed]
    <3>1. required \subseteq listed \cap p.filled /\ listed \subseteq Fields
      BY <2>2 DEF CheckForm, Present
    <3>2. p.pc = "form" /\ nextN' = nextN /\ req' = [req EXCEPT ![r] = x]
      BY <2>2 DEF CheckForm, Database
    <3> HIDE DEF required, listed
    <3>3. x \in RequestStates /\ x.pc = "number" /\ x.counted = p.counted /\ x.n = p.n
          /\ x.required = required /\ x.listed = listed
          /\ x.customer = p.customer /\ x.filled = p.filled /\ x.earlier = p.earlier
      BY <1>1, <3>1 DEF RequestStates, Steps
    <3>4. p.n < nextN /\ (MaxOpen > 0 => p.counted < MaxOpen)
      BY <1>1, <3>2 DEF RequestInv
    <3> HIDE DEF x
    <3> x \in RequestStates
      BY <3>3
    <3> WITNESS x \in RequestStates
    <3> QED
      BY <1>1, <3>1, <3>2, <3>3, <3>4
  <2>3. CASE TakeNumber(r)
    <3> DEFINE x == [p EXCEPT !.pc = "commit", !.n = nextN]
    <3>1. p.pc = "number" /\ nextN' = nextN + 1 /\ req' = [req EXCEPT ![r] = x]
      BY <2>3 DEF TakeNumber
    <3>2. x \in RequestStates /\ x.pc = "commit" /\ x.counted = p.counted /\ x.n = nextN
          /\ x.required = p.required /\ x.listed = p.listed
          /\ x.customer = p.customer /\ x.filled = p.filled /\ x.earlier = p.earlier
      BY <1>1 DEF RequestStates, Steps
    <3>3. p.required \subseteq p.listed \cap p.filled /\ (MaxOpen > 0 => p.counted < MaxOpen)
      BY <1>1, <3>1 DEF RequestInv
    <3> HIDE DEF x
    <3> x \in RequestStates
      BY <3>2
    <3> WITNESS x \in RequestStates
    <3> QED
      BY <1>1, <3>1, <3>2, <3>3
  <2> QED
    BY <1>2, <2>1, <2>2, <2>3
<1>4. RequestInv(r)'
  <2>1. p.customer \in Customers /\ Spaced(p)
    BY <1>1, <1>2 DEF RequestInv, Working
  <2>2. Spaced(req[r])'
    BY <1>2, <1>3, <2>1 DEF Spaced
  <2>3. \A i \in q.earlier : i \in Requests /\ i # r /\ req'[i].pc \in Through
    BY <1>1, <1>2, <1>3 DEF RequestInv, RequestStates, Through
  <2> QED
    BY <1>3, <2>1, <2>2, <2>3 DEF RequestInv
<1> QED
  BY <1>2, <1>3, <1>4, MoveStep DEF Through, IInv, TypeOK

-----------------------------------------------------------------------------
(* Steps that commit an action                                             *)

\* The new ticket or reply of r is in nobody's past, and its own past is spaced:
\* what holds of every committed action goes on holding.
LEMMA NewActionStep ==
  ASSUME IInv, NEW r \in Requests, NEW pc \in Through, Goto(r, pc),
         req[r].pc \in {"commit", "reply"},
         NEW b, b.id = r, b.customer = req[r].customer, b.at = now,
         tickets' \cup replies' = tickets \cup replies \cup {b},
         now' = now
  PROVE  /\ \A s \in Requests : s # r => (RequestInv(s) /\ nextN' = nextN => RequestInv(s)')
         /\ SpacingKeptUnlessOvertaken'
<1>1. pc \in Steps
  BY DEF Through, Steps
<1>2. /\ \A s \in Requests : s # r => req'[s] = req[s]
      /\ req'[r].pc = pc /\ req'[r].earlier = req[r].earlier
  BY <1>1, GotoFields
<1>3. ASSUME NEW s \in Requests
      PROVE  /\ req[s].earlier \subseteq Requests /\ r \notin req[s].earlier
             /\ req'[s].earlier = req[s].earlier
             /\ \A i \in req[s].earlier : i # r /\ req'[i].pc \in Through
  <2>1. req[s].earlier \subseteq Requests
        /\ \A i \in req[s].earlier : req[i].pc \in Through
    BY DEF IInv, TypeOK, RequestStates, RequestInv
  <2> QED
    BY <1>2, <2>1 DEF Through
<1>4. ASSUME NEW s \in Requests, s # r, RequestInv(s), nextN' = nextN
      PROVE  RequestInv(s)'
  <2>1. req'[s] = req[s]
    BY <1>2, <1>4
  <2>2. Spaced(req[s]) => Spaced(req[s])'
    BY <1>3, <2>1 DEF Spaced
  <2> QED
    BY <1>3, <1>4, <2>1, <2>2 DEF RequestInv
<1>5. Spaced(req[r])
  BY DEF IInv, RequestInv, Working
<1>6. \A a \in tickets \cup replies : a.id \in Requests
  BY DEF IInv, TypeOK, TicketRecords
<1>7. SpacingKeptUnlessOvertaken'
  <2> SUFFICES ASSUME NEW x \in tickets' \cup replies', NEW y \in tickets' \cup replies',
                      x.customer = y.customer, x.id \in req'[y.id].earlier
               PROVE  y.at - x.at >= MinInterval
    BY DEF SpacingKeptUnlessOvertaken
  <2>1. y.id \in Requests /\ x.id \in req[y.id].earlier /\ x.id # r
    BY <1>3, <1>6
  <2>2. x \in tickets \cup replies
    BY <2>1
  <2>3. CASE y = b
    BY <1>5, <2>1, <2>2, <2>3 DEF Spaced
  <2>4. CASE y \in tickets \cup replies
    BY <2>1, <2>2, <2>4 DEF IInv, SpacingKeptUnlessOvertaken
  <2> QED
    BY <2>3, <2>4
<1> QED
  BY <1>4, <1>7

\* The past of the committing request itself.
LEMMA CommittedSelf ==
  ASSUME IInv, NEW r \in Requests, NEW pc \in Through, Goto(r, pc),
         req[r].pc # "new", nextN' = nextN
  PROVE  RequestInv(r)'
<1>1. pc \in Steps
  BY DEF Through, Steps
<1>2. /\ \A s \in Requests : s # r => req'[s] = req[s]
      /\ req'[r].pc = pc /\ req'[r].n = req[r].n /\ req'[r].earlier = req[r].earlier
  BY <1>1, GotoFields
<1>3. req[r].earlier \subseteq Requests /\ RequestInv(r)
  BY DEF IInv, TypeOK, RequestStates
<1>4. \A i \in req'[r].earlier : req'[i].pc \in Through
  BY <1>2, <1>3 DEF RequestInv
<1> QED
  BY <1>2, <1>3, <1>4 DEF RequestInv, Through, Working

LEMMA CommitStep ==
  ASSUME IInv, NEW r \in Requests, Commit(r)
  PROVE  IInv'
<1> DEFINE q == req[r]
           values == q.listed \cap q.filled
           t == [id |-> r, n |-> q.n, customer |-> q.customer, at |-> now,
                 values |-> values]
<1>1. /\ q.pc = "commit" /\ category /\ \A f \in values : Present(f)
      /\ tickets' = tickets \cup {t} /\ stage' = [stage EXCEPT ![r] = "active"]
      /\ Goto(r, "announce")
      /\ UNCHANGED <<now, nextN, replies, form, category, submitted, faults>>
  BY DEF Commit
<1>2. q \in RequestStates /\ RequestInv(r) /\ "announce" \in Through /\ "announce" \in Steps
  BY DEF IInv, TypeOK, Through, Steps
<1>3. /\ req' \in [Requests -> RequestStates]
      /\ \A s \in Requests : s # r => req'[s] = req[s]
      /\ req'[r].pc = "announce" /\ req'[r].required = q.required
      /\ req'[r].earlier = q.earlier
  BY <1>1, <1>2, GotoFields
<1>4. q.customer \in Customers /\ q.required \subseteq values /\ q.n < nextN
  BY <1>1, <1>2 DEF RequestInv, Working
<1>5. t \in TicketRecords
  BY <1>2, <1>4 DEF TicketRecords, RequestStates, IInv, TypeOK
<1>6. TypeOK'
  BY <1>1, <1>3, <1>5 DEF IInv, TypeOK, Stages
<1>7. IsFiniteSet(tickets')
  BY <1>1, FS_AddElement DEF IInv
<1>8. (\A s \in Requests : RequestInv(s)') /\ SpacingKeptUnlessOvertaken'
  <2>1. tickets' \cup replies' = tickets \cup replies \cup {t}
    BY <1>1
  <2>2. t.id = r /\ t.customer = req[r].customer /\ t.at = now
    OBVIOUS
  <2> HIDE DEF t
  <2>3. RequestInv(r)'
    BY <1>1, <1>2, CommittedSelf
  <2>4. /\ \A s \in Requests : s # r => (RequestInv(s) /\ nextN' = nextN => RequestInv(s)')
        /\ SpacingKeptUnlessOvertaken'
    BY <1>1, <1>2, <2>1, <2>2, NewActionStep
  <2> QED
    BY <1>1, <2>3, <2>4 DEF IInv
<1>9. \A u \in tickets : u.id \in Requests /\ u.id # r /\ TicketInv(u)
  BY <1>1 DEF IInv, TypeOK, TicketRecords, TicketInv, Through
<1>10. \A u \in tickets' : TicketInv(u)'
  <2> SUFFICES ASSUME NEW u \in tickets'
               PROVE  u.n < nextN' /\ req'[u.id].pc \in Through
    BY DEF TicketInv
  <2>1. CASE u = t
    BY <1>1, <1>2, <1>3, <1>4, <2>1
  <2>2. CASE u \in tickets
    BY <1>1, <1>3, <1>9, <2>2 DEF TicketInv
  <2> QED
    BY <1>1, <2>1, <2>2
<1>11. \A e \in replies' : req'[e.id].pc = "done"
  BY <1>1, <1>3 DEF IInv, TypeOK
<1>12. FormRespected'
  <2> SUFFICES ASSUME NEW u \in tickets'
               PROVE  /\ category /\ req'[u.id].required \subseteq u.values
                      /\ \A f \in u.values : Present(f)
    BY <1>1 DEF FormRespected, Present
  <2>1. CASE u = t
    BY <1>1, <1>3, <1>4, <2>1
  <2>2. CASE u \in tickets
    BY <1>3, <1>9, <2>2 DEF IInv, FormRespected
  <2> QED
    BY <1>1, <2>1, <2>2
<1> QED
  BY <1>6, <1>7, <1>8, <1>10, <1>11, <1>12 DEF IInv

LEMMA WriteReplyStep ==
  ASSUME IInv, NEW r \in Requests, WriteReply(r)
  PROVE  IInv'
<1> DEFINE e == [id |-> r, customer |-> req[r].customer, at |-> now]
<1>1. /\ req[r].pc = "reply" /\ replies' = replies \cup {e} /\ Goto(r, "done")
      /\ UNCHANGED <<now, nextN, tickets, stage, form, category, submitted, faults>>
  BY DEF WriteReply
<1>2. "done" \in Through /\ "done" \in Steps /\ req[r].customer \in Customers
  BY <1>1 DEF Through, Steps, IInv, RequestInv, Working
<1>3. /\ req' \in [Requests -> RequestStates]
      /\ \A s \in Requests : s # r => req'[s] = req[s]
      /\ req'[r].pc = "done"
  BY <1>1, <1>2, GotoFields
<1>4. TypeOK' /\ IsFiniteSet(tickets')
  BY <1>1, <1>2, <1>3 DEF IInv, TypeOK
<1>5. (\A s \in Requests : RequestInv(s)') /\ SpacingKeptUnlessOvertaken'
  <2>1. tickets' \cup replies' = tickets \cup replies \cup {e}
    BY <1>1
  <2>2. e.id = r /\ e.customer = req[r].customer /\ e.at = now
    OBVIOUS
  <2> HIDE DEF e
  <2>3. RequestInv(r)'
    BY <1>1, <1>2, CommittedSelf
  <2>4. /\ \A s \in Requests : s # r => (RequestInv(s) /\ nextN' = nextN => RequestInv(s)')
        /\ SpacingKeptUnlessOvertaken'
    BY <1>1, <1>2, <2>1, <2>2, NewActionStep
  <2> QED
    BY <1>1, <2>3, <2>4 DEF IInv
<1>6. \A u \in tickets : u.id \in Requests /\ u.id # r /\ TicketInv(u)
  BY <1>1 DEF IInv, TypeOK, TicketRecords, TicketInv, Through
<1>7. \A u \in tickets' : TicketInv(u)'
  BY <1>1, <1>3, <1>6 DEF TicketInv
<1>8. \A x \in replies' : req'[x.id].pc = "done"
  BY <1>1, <1>3 DEF IInv, TypeOK
<1>9. FormRespected'
  BY <1>1, <1>3, <1>6 DEF IInv, FormRespected, Present
<1> QED
  BY <1>4, <1>5, <1>7, <1>8, <1>9 DEF IInv

-----------------------------------------------------------------------------
(* The invariant                                                           *)

\* What the administration, the clock and the other requests leave of the intake.
Quiet ==
    /\ UNCHANGED <<nextN, tickets, replies, req, submitted, faults>>
    /\ now' \in 0..MaxNow /\ now' >= now
    /\ stage' \in [Requests -> Stages] /\ form' \in [Fields -> FieldStates]
    /\ category' \in BOOLEAN
    /\ \A t \in tickets : category' = category
    /\ \A t \in tickets : \A f \in t.values : Present(f) => Present(f)'

LEMMA ElsewhereQuiet ==
  ASSUME IInv, Elsewhere
  PROVE  Quiet
<1>1. ASSUME NEW t \in tickets, StatusWritten(t) PROVE Quiet
  <2>1. now \in 0..MaxNow /\ now' = now /\ form' = form /\ category' = category
    BY <1>1 DEF StatusWritten, IInv, TypeOK
  <2>2. stage' \in [Requests -> Stages]
    BY <1>1 DEF StatusWritten, IInv, TypeOK, Stages
  <2> QED
    BY <1>1, <2>1, <2>2 DEF StatusWritten, IInv, TypeOK, Present, Quiet
<1>2. ASSUME NEW f \in Fields, CreateField(f) \/ UpdateField(f) PROVE Quiet
  <2>1. PICK s \in {"optional", "required"} : form' = [form EXCEPT ![f] = s]
    BY <1>2 DEF CreateField, UpdateField
  <2>2. form' \in [Fields -> FieldStates]
        /\ \A g \in Fields : form[g] \in {"optional", "required"} =>
                               form'[g] \in {"optional", "required"}
    BY <2>1 DEF IInv, TypeOK, FieldStates
  <2>3. \A t \in tickets : t.values \subseteq Fields
    BY DEF IInv, TypeOK, TicketRecords
  <2> QED
    BY <1>2, <2>2, <2>3 DEF CreateField, UpdateField, IInv, TypeOK, Present, Quiet
<1>3. ASSUME NEW f \in Fields, DeleteField(f) PROVE Quiet
  <2>1. form' \in [Fields -> FieldStates]
        /\ \A g \in Fields : g # f => form'[g] = form[g]
    BY <1>3 DEF DeleteField, IInv, TypeOK, FieldStates
  <2>2. \A t \in tickets : t.values \subseteq Fields /\ f \notin t.values
    BY <1>3 DEF DeleteField, IInv, TypeOK, TicketRecords
  <2> QED
    BY <1>3, <2>1, <2>2 DEF DeleteField, IInv, TypeOK, Present, Quiet
<1>4. ASSUME DeleteCategory PROVE Quiet
  <2>1. form' \in [Fields -> FieldStates] /\ tickets = {} /\ category' = FALSE
    BY <1>4 DEF DeleteCategory, IInv, TypeOK, FieldStates
  <2>2. /\ \A t \in tickets : category' = category
        /\ \A t \in tickets : \A f \in t.values : Present(f) => Present(f)'
    BY <2>1
  <2>3. now' \in 0..MaxNow /\ now' >= now /\ stage' \in [Requests -> Stages]
    BY <1>4 DEF DeleteCategory, IInv, TypeOK
  <2> QED
    BY <1>4, <2>1, <2>2, <2>3 DEF DeleteCategory, Quiet
<1>5. ASSUME Tick PROVE Quiet
  BY <1>5, IntakeAssumption DEF Tick, Database, IInv, TypeOK, Present, Quiet
<1> QED
  BY <1>1, <1>2, <1>3, <1>4, <1>5 DEF Elsewhere

\* Time only makes past actions older, and fields with values stay.
LEMMA ElsewhereStep ==
  ASSUME IInv, Elsewhere
  PROVE  IInv'
<1>1. Quiet
  BY ElsewhereQuiet
<1>2. TypeOK' /\ IsFiniteSet(tickets')
  BY <1>1 DEF Quiet, IInv, TypeOK
<1>3. \A a \in tickets \cup replies : a.at \in Nat
  BY DEF IInv, TypeOK, TicketRecords
<1>4. ASSUME NEW r \in Requests PROVE RequestInv(r)'
  <2>1. Spaced(req[r]) => Spaced(req[r])'
    <3> SUFFICES ASSUME Spaced(req[r]), NEW a \in tickets \cup replies,
                        a.customer = req[r].customer, a.id \in req[r].earlier
                 PROVE  now' - a.at >= MinInterval
      BY <1>1 DEF Quiet, Spaced
    <3>1. now - a.at >= MinInterval /\ now \in Int /\ now' \in Int
      BY <1>1 DEF Quiet, Spaced, IInv, TypeOK
    <3> QED
      BY <1>1, <1>3, <3>1, IntakeAssumption DEF Quiet
  <2> QED
    BY <1>1, <2>1 DEF Quiet, IInv, RequestInv
<1>5. (\A t \in tickets' : TicketInv(t)') /\ (\A e \in replies' : req'[e.id].pc = "done")
  BY <1>1 DEF Quiet, IInv, TicketInv
<1>6. FormRespected'
  BY <1>1 DEF Quiet, IInv, FormRespected
<1>7. SpacingKeptUnlessOvertaken'
  BY <1>1 DEF Quiet, IInv, SpacingKeptUnlessOvertaken
<1> QED
  BY <1>2, <1>4, <1>5, <1>6, <1>7 DEF IInv

\* A crash ends every request that has begun.
LEMMA CrashStep ==
  ASSUME IInv, Crash
  PROVE  IInv'
<1>1. faults' \in 0..MaxFaults /\ UNCHANGED <<now, Database>>
      /\ req' = [r \in Requests |-> IF req[r].pc = "new" THEN req[r]
                                    ELSE [req[r] EXCEPT !.pc = "done"]]
  BY IntakeAssumption DEF Crash, IInv, TypeOK
<1>2. ASSUME NEW r \in Requests
      PROVE  /\ req'[r] \in RequestStates
             /\ req[r].pc = "new" => req'[r] = req[r]
             /\ req[r].pc # "new" => req'[r].pc = "done"
             /\ req'[r].n = req[r].n /\ req'[r].required = req[r].required
             /\ req'[r].earlier = req[r].earlier /\ req[r].earlier \subseteq Requests
  BY <1>1 DEF IInv, TypeOK, RequestStates, Steps
<1>3. TypeOK' /\ IsFiniteSet(tickets')
  <2>1. req' \in [Requests -> RequestStates]
    BY <1>1, <1>2
  <2> QED
    BY <1>1, <2>1 DEF IInv, TypeOK, Database
<1>4. ASSUME NEW r \in Requests PROVE RequestInv(r)'
  <2>1. \A i \in req'[r].earlier : req'[i].pc \in Through
    BY <1>2 DEF IInv, RequestInv, Through
  <2>2. req[r].n < nextN' /\ (req[r].pc = "new" => req[r].n = 0)
    BY <1>1 DEF IInv, RequestInv, Database
  <2> QED
    BY <1>2, <2>1, <2>2 DEF RequestInv, Working
<1>5. \A t \in tickets : t.id \in Requests /\ TicketInv(t)
  BY DEF IInv, TypeOK, TicketRecords
<1>6. \A t \in tickets' : TicketInv(t)'
  BY <1>1, <1>2, <1>5 DEF TicketInv, Through, Database
<1>7. \A e \in replies' : req'[e.id].pc = "done"
  BY <1>1, <1>2 DEF IInv, TypeOK, Database
<1>8. FormRespected'
  BY <1>1, <1>2, <1>5 DEF IInv, FormRespected, Present, Database
<1>9. SpacingKeptUnlessOvertaken'
  <2>1. \A a \in tickets \cup replies : a.id \in Requests
    BY DEF IInv, TypeOK, TicketRecords
  <2> QED
    BY <1>1, <1>2, <2>1 DEF IInv, SpacingKeptUnlessOvertaken, Database
<1> QED
  BY <1>3, <1>4, <1>6, <1>7, <1>8, <1>9 DEF IInv

LEMMA InitInv == Init => IInv
<1> SUFFICES ASSUME Init PROVE IInv
  OBVIOUS
<1>1. NewRequest \in RequestStates
  BY DEF NewRequest, RequestStates, Steps
<1>2. \A r \in Requests : req[r] = NewRequest
  BY DEF Init
<1>3. TypeOK
  BY <1>1, IntakeAssumption DEF Init, TypeOK, Stages, FieldStates
<1>4. IsFiniteSet(tickets)
  BY FS_EmptySet DEF Init
<1>5. \A r \in Requests : RequestInv(r)
  BY <1>2 DEF RequestInv, NewRequest, Working, Init
<1>6. FormRespected /\ SpacingKeptUnlessOvertaken
  BY DEF Init, FormRespected, SpacingKeptUnlessOvertaken
<1> QED
  BY <1>3, <1>4, <1>5, <1>6 DEF IInv, Init

\* One step of the server, the admins, the clock or a fault.
LEMMA NextInv == IInv /\ [Next]_vars => IInv'
<1> SUFFICES ASSUME IInv, [Next]_vars PROVE IInv'
  OBVIOUS
<1>1. ASSUME NEW r \in Requests, Arrival(r) PROVE IInv'
  BY <1>1, ArrivalStep
<1>2. ASSUME NEW r \in Requests, Serve(r) PROVE IInv'
  <2>1. CASE CheckCap(r) \/ CheckForm(r) \/ TakeNumber(r)
    BY <2>1, CheckStep
  <2>2. CASE Commit(r)
    BY <2>2, CommitStep
  <2>3. CASE Rollback(r)
    BY <2>3, EndStep DEF Rollback, Database, IInv, TypeOK
  <2>4. CASE Announce(r)
    BY <2>4, EndStep DEF Announce, IInv, TypeOK
  <2>5. CASE WriteReply(r)
    BY <2>5, WriteReplyStep
  <2> QED
    BY <1>2, <2>1, <2>2, <2>3, <2>4, <2>5 DEF Serve
<1>3. ASSUME NEW r \in Requests, Fail(r) PROVE IInv'
  <2>1. faults' \in 0..MaxFaults
    BY <1>3, IntakeAssumption DEF Fail, IInv, TypeOK
  <2> QED
    BY <1>3, <2>1, EndStep DEF Fail, Database, IInv, TypeOK
<1>4. CASE Crash
  BY <1>4, CrashStep
<1>5. CASE Elsewhere
  BY <1>5, ElsewhereStep
<1>6. CASE UNCHANGED vars
  BY <1>6 DEF vars, IInv, TypeOK, RequestInv, Spaced, TicketInv, FormRespected, Present,
              SpacingKeptUnlessOvertaken
<1> QED
  BY <1>1, <1>2, <1>3, <1>4, <1>5, <1>6 DEF Next

-----------------------------------------------------------------------------
(* Theorems                                                                *)

\* Invariance: the inductive invariant holds in every behavior, whatever the order
\* of the requests' checks and writes and of the administration's.
THEOREM Invariance == Spec => []IInv
<1>1. Init => IInv
  BY InitInv
<1>2. IInv /\ [Next]_vars => IInv'
  BY NextInv
<1> QED
  BY <1>1, <1>2, PTL DEF Spec

\* TypeCorrect: every variable keeps its type.
THEOREM TypeCorrect == Spec => []TypeOK
<1>1. IInv => TypeOK
  BY DEF IInv
<1> QED
  BY <1>1, Invariance, PTL

\* FormCorrect: no ticket lacks a value its request was told is required, nor has
\* one of a field that is gone, though the form is read outside the transaction.
THEOREM FormCorrect == Spec => []FormRespected
<1>1. IInv => FormRespected
  BY DEF IInv
<1> QED
  BY <1>1, Invariance, PTL

\* SpacingCorrect: two actions of a customer are closer than the interval only when
\* the later one's rate check did not see the earlier one.
THEOREM SpacingCorrect == Spec => []SpacingKeptUnlessOvertaken
<1>1. IInv => SpacingKeptUnlessOvertaken
  BY DEF IInv
<1> QED
  BY <1>1, Invariance, PTL

\* A request's number changes once, to the sequence's next.
LEMMA NumberStep ==
  ASSUME IInv, Next, NEW r \in Requests, req'[r].n # req[r].n
  PROVE  req'[r].n = nextN
<1>1. req \in [Requests -> RequestStates]
  BY DEF IInv, TypeOK
<1>2. ASSUME NEW s \in Requests, NEW pc \in Steps, Goto(s, pc) PROVE FALSE
  <2>1. req'[s].n = req[s].n /\ \A x \in Requests : x # s => req'[x] = req[x]
    BY <1>2, GotoFields
  <2> QED
    BY <2>1
<1>3. ASSUME NEW s \in Requests, Arrival(s) PROVE FALSE
  <2>1. req[s].pc = "new" /\ \E q : q.n = 0 /\ req' = [req EXCEPT ![s] = q]
    <3>1. PICK c \in Customers, failing \in BOOLEAN :
            \/ \E filled \in SUBSET Fields : CreateArrives(s, c, filled, failing)
            \/ ReplyArrives(s, c, failing)
      BY <1>3 DEF Arrival, Arrive
    <3>2. CASE ReplyArrives(s, c, failing)
      <4> DEFINE q == [NewRequest EXCEPT !.pc = "reply", !.customer = c,
                                         !.earlier = Earlier(c, failing)]
      <4>1. q.n = 0
        BY DEF NewRequest
      <4>2. req[s].pc = "new" /\ req' = [req EXCEPT ![s] = q]
        BY <3>2 DEF ReplyArrives
      <4> QED
        BY <4>1, <4>2
    <3>3. CASE \E filled \in SUBSET Fields : CreateArrives(s, c, filled, failing)
      <4>1. PICK filled \in SUBSET Fields : CreateArrives(s, c, filled, failing)
        BY <3>3
      <4> DEFINE q == [NewRequest EXCEPT !.pc = IF MaxOpen > 0 THEN "cap" ELSE "form",
                         !.customer = c, !.filled = filled, !.earlier = Earlier(c, failing)]
      <4>2. q.n = 0
        BY DEF NewRequest
      <4>3. req[s].pc = "new" /\ req' = [req EXCEPT ![s] = q]
        BY <4>1 DEF CreateArrives
      <4> QED
        BY <4>2, <4>3
    <3> QED
      BY <3>1, <3>2, <3>3
  <2>2. req[s].n = 0
    BY <2>1 DEF IInv, RequestInv
  <2> QED
    BY <1>1, <2>1, <2>2
<1>4. ASSUME NEW s \in Requests, CheckCap(s) \/ CheckForm(s) PROVE FALSE
  <2>1. PICK q : q.n = req[s].n /\ req' = [req EXCEPT ![s] = q]
    <3>1. CASE CheckCap(s)
      <4> DEFINE open == Cardinality(Open(req[s].customer))
                 q == [req[s] EXCEPT !.pc = "form", !.counted = open]
      <4>1. q.n = req[s].n
        BY <1>1 DEF RequestStates
      <4>2. req' = [req EXCEPT ![s] = q]
        BY <3>1 DEF CheckCap
      <4> QED
        BY <4>1, <4>2
    <3>2. CASE CheckForm(s)
      <4> DEFINE q == [req[s] EXCEPT !.pc = "number",
                         !.required = {f \in Fields : form[f] = "required"},
                         !.listed = {f \in Fields : Present(f)}]
      <4>1. q.n = req[s].n
        BY <1>1 DEF RequestStates
      <4>2. req' = [req EXCEPT ![s] = q]
        BY <3>2 DEF CheckForm
      <4> QED
        BY <4>1, <4>2
    <3> QED
      BY <1>4, <3>1, <3>2
  <2> QED
    BY <1>1, <2>1
<1>5. ASSUME NEW s \in Requests, TakeNumber(s) PROVE req'[r].n = nextN
  <2> DEFINE q == [req[s] EXCEPT !.pc = "commit", !.n = nextN]
  <2>1. q.n = nextN
    BY <1>1 DEF RequestStates
  <2>2. req' = [req EXCEPT ![s] = q]
    BY <1>5 DEF TakeNumber
  <2> HIDE DEF q
  <2> QED
    BY <1>1, <2>1, <2>2
<1>6. ASSUME Crash PROVE FALSE
  <2>1. req'[r] = IF req[r].pc = "new" THEN req[r] ELSE [req[r] EXCEPT !.pc = "done"]
    BY <1>6 DEF Crash
  <2> QED
    BY <1>1, <2>1 DEF RequestStates
<1>7. ASSUME Elsewhere PROVE FALSE
  BY <1>7, ElsewhereQuiet DEF Quiet
<1>8. ASSUME NEW s \in Requests,
             Commit(s) \/ Rollback(s) \/ Announce(s) \/ WriteReply(s) \/ Fail(s)
      PROVE  FALSE
  BY <1>2, <1>8 DEF Commit, Rollback, Announce, WriteReply, Fail, Steps
<1> QED
  BY <1>3, <1>4, <1>5, <1>6, <1>7, <1>8 DEF Next, Serve

\* NumbersCorrect: numbers follow the order of creation, although the number is
\* committed before the ticket and the ticket may never be.
THEOREM NumbersCorrect == Spec => NumbersFollowCreation
<1> DEFINE Follows == \A r \in Requests : req'[r].n # req[r].n =>
                        \A t \in tickets : t.n < req'[r].n
<1>1. IInv /\ [Next]_vars => [Follows]_vars
  <2> SUFFICES ASSUME IInv, Next, NEW r \in Requests, req'[r].n # req[r].n,
                      NEW t \in tickets
               PROVE  t.n < req'[r].n
    OBVIOUS
  <2>1. req'[r].n = nextN
    BY NumberStep
  <2> QED
    BY <2>1 DEF IInv, TicketInv
<1> QED
  BY <1>1, Invariance, PTL DEF Spec, NumbersFollowCreation

\* CapCorrect: a customer is put over the cap only by a create that others overtook
\* between its count and its commit.
THEOREM CapCorrect == Spec => CapKeptUnlessOvertaken
<1> DEFINE Kept == \A t \in tickets' \ tickets :
                     LET open == Cardinality(Open(t.customer)) IN
                     MaxOpen > 0 /\ open <= req[t.id].counted => open + 1 <= MaxOpen
<1>1. IInv /\ [Next]_vars => [Kept]_vars
  <2> SUFFICES ASSUME IInv, Next, NEW t \in tickets' \ tickets, MaxOpen > 0,
                      Cardinality(Open(t.customer)) <= req[t.id].counted
               PROVE  Cardinality(Open(t.customer)) + 1 <= MaxOpen
    OBVIOUS
  <2>1. PICK r \in Requests : Commit(r)
    <3>1. tickets' # tickets
      OBVIOUS
    <3> QED
      BY <3>1, ElsewhereQuiet DEF Next, Arrival, Arrive, CreateArrives, ReplyArrives, Serve,
         CheckCap, CheckForm, TakeNumber, Rollback, Announce, WriteReply, Fail, Crash,
         Database, Quiet
  <2>2. t.id = r /\ req[r].pc = "commit"
    BY <2>1 DEF Commit
  <2>3. req[r].counted < MaxOpen /\ req[r].counted \in Nat
    BY <2>2 DEF IInv, RequestInv, TypeOK, RequestStates
  <2>4. Cardinality(Open(t.customer)) \in Nat
    <3>1. Open(t.customer) \in SUBSET tickets
      BY DEF Open
    <3> QED
      BY <3>1, FS_Subset, FS_CardinalityType DEF IInv
  <2> QED
    BY <2>2, <2>3, <2>4, IntakeAssumption
<1> QED
  BY <1>1, Invariance, PTL DEF Spec, CapKeptUnlessOvertaken

-----------------------------------------------------------------------------
(* Uploads                                                                 *)
(*                                                                         *)
(* A limit is overrun by uploads that passed its check and have not been   *)
(* inserted yet, so the inductive invariants count these along with what   *)
(* is stored.  An upload passes only while the limit is not reached; from  *)
(* then on the sum cannot grow.                                            *)

\* Uploads that may still add to the attachments of ticket t.
Passing(u, t) == u.pc \in {"body", "quota", "insert"} /\ TicketOf[u.entry] = t
Passed(t) == {s \in Slots : Passing(upload[s], t)}

CountInv ==
    MaxAttachments > 0 =>
      \A t \in Tickets :
        attached[t] + Cardinality(Passed(t)) <= MaxAttachments + Cardinality(Slots) - 1

\* Uploads that the quota of customer c has let through.
Clears(u, c) == u.pc = "insert" /\ Owner[TicketOf[u.entry]] = c
Cleared(c) == {s \in Slots : Clears(upload[s], c)}

\* What c stores when those are inserted, one of them w, the others of any size.
Load(w, c) == stored[c] + upload[w].bytes + MaxBytes * (Cardinality(Cleared(c)) - 1)
Limit == Quota + MaxBytes * (Cardinality(Slots) - 1)

QuotaInv ==
    Quota > 0 =>
      \A c \in CustomerIds :
        /\ Cleared(c) = {} => stored[c] <= Limit
        /\ Cleared(c) # {} => \E w \in Cleared(c) : Load(w, c) <= Limit

-----------------------------------------------------------------------------
(* Sets of uploads                                                         *)

LEMMA SlotSets ==
  ASSUME NEW P \in SUBSET Slots
  PROVE  IsFiniteSet(P) /\ Cardinality(P) \in Nat /\ Cardinality(P) <= Cardinality(Slots)
BY FS_Subset, FS_CardinalityType, AttachmentsAssumption

LEMMA SlotsCounted == Cardinality(Slots) \in Nat /\ Cardinality(Slots) >= 1
BY FS_CardinalityType, FS_EmptySet, AttachmentsAssumption

LEMMA Products ==
  ASSUME NEW m \in Nat, NEW j \in Nat, NEW k \in Nat
  PROVE  /\ m * (k - 1) \in Int
         /\ m * (1 - 1) = 0
         /\ m * ((k - 1) - 1) = m * (k - 1) - m
         /\ j <= k => m * (j - 1) <= m * (k - 1)
<1>1. m * (k - 1) \in Int /\ m * (1 - 1) = 0 /\ m * ((k - 1) - 1) = m * (k - 1) - m
  OBVIOUS
<1>2. ASSUME j <= k PROVE m * (j - 1) <= m * (k - 1)
  <2>1. k - j \in Nat
    BY <1>2
  <2>2. m * (k - j) >= 0 /\ m * (k - j) \in Int
    BY <2>1
  <2>3. m * (k - 1) = m * (j - 1) + m * (k - j) /\ m * (j - 1) \in Int /\ m * (k - 1) \in Int
    OBVIOUS
  <2> QED
    BY <2>2, <2>3
<1> QED
  BY <1>1, <1>2

\* One upload moves to state n: the sets change by that upload alone.
LEMMA Moves ==
  ASSUME UploadTypeOK, NEW s \in Slots, NEW n \in UploadStates, upload' = [upload EXCEPT ![s] = n]
  PROVE  /\ upload' \in [Slots -> UploadStates]
         /\ upload'[s] = n /\ \A x \in Slots \ {s} : upload'[x] = upload[x]
         /\ \A t : Passed(t)' = IF Passing(n, t) THEN Passed(t) \cup {s} ELSE Passed(t) \ {s}
         /\ \A c : Cleared(c)' = IF Clears(n, c) THEN Cleared(c) \cup {s} ELSE Cleared(c) \ {s}
<1>1. upload' \in [Slots -> UploadStates]
  BY DEF UploadTypeOK
<1>2. upload'[s] = n /\ \A x \in Slots \ {s} : upload'[x] = upload[x]
  BY DEF UploadTypeOK
<1>3. \A t : Passed(t)' = IF Passing(n, t) THEN Passed(t) \cup {s} ELSE Passed(t) \ {s}
  BY <1>2 DEF Passed, Passing
<1>4. \A c : Cleared(c)' = IF Clears(n, c) THEN Cleared(c) \cup {s} ELSE Cleared(c) \ {s}
  BY <1>2 DEF Cleared, Clears
<1> QED
  BY <1>1, <1>2, <1>3, <1>4

-----------------------------------------------------------------------------
(* Steps that let no further upload pass                                   *)

LEMMA CountKept ==
  ASSUME UploadTypeOK, CountInv, NEW s \in Slots, NEW n \in UploadStates,
         upload' = [upload EXCEPT ![s] = n], attached' = attached,
         MaxAttachments > 0 => \A t \in Tickets : Passing(n, t) => s \in Passed(t)
  PROVE  CountInv'
<1> SUFFICES ASSUME MaxAttachments > 0, NEW t \in Tickets
             PROVE  attached'[t] + Cardinality(Passed(t)') <= MaxAttachments + Cardinality(Slots) - 1
  BY DEF CountInv
<1>1. Passed(t)' \in SUBSET Passed(t) /\ Passed(t) \in SUBSET Slots
  BY Moves DEF Passed
<1>2. /\ Cardinality(Passed(t)') <= Cardinality(Passed(t))
      /\ Cardinality(Passed(t)') \in Nat /\ Cardinality(Passed(t)) \in Nat
  BY <1>1, SlotSets, FS_Subset
<1>3. attached[t] + Cardinality(Passed(t)) <= MaxAttachments + Cardinality(Slots) - 1
  BY DEF CountInv
<1> QED
  BY <1>2, <1>3, SlotsCounted, AttachmentsAssumption DEF UploadTypeOK

\* The upload leaves, or stays outside, the set of those let through; what it
\* stores in passing is what it was cleared for.
LEMMA QuotaKept ==
  ASSUME UploadTypeOK, QuotaInv, NEW s \in Slots, NEW n \in UploadStates,
         upload' = [upload EXCEPT ![s] = n], Quota > 0 => n.pc # "insert",
         stored' \in [CustomerIds -> Nat],
         \A c \in CustomerIds :
            stored'[c] <= stored[c] + (IF s \in Cleared(c) THEN upload[s].bytes ELSE 0)
  PROVE  QuotaInv'
<1> SUFFICES ASSUME Quota > 0, NEW c \in CustomerIds
             PROVE  /\ Cleared(c)' = {} => stored'[c] <= Limit
                    /\ Cleared(c)' # {} => \E w \in Cleared(c)' : Load(w, c)' <= Limit
  BY DEF QuotaInv, Limit
<1> DEFINE C == Cleared(c)
           D == Cleared(c)'
<1>1. D = C \ {s} /\ C \in SUBSET Slots
  BY Moves DEF Clears, Cleared
<1>2. \A x \in Slots : upload[x].bytes \in Nat /\ upload[x].bytes <= MaxBytes
  BY AttachmentsAssumption DEF UploadTypeOK, UploadStates
<1>3. \A x \in D : upload'[x].bytes = upload[x].bytes /\ x \in Slots
  BY <1>1, Moves
<1>4. stored[c] \in Nat /\ stored'[c] \in Nat
  BY DEF UploadTypeOK
<1>5. Limit \in Int /\ MaxBytes \in Nat
  BY SlotsCounted, Products, AttachmentsAssumption DEF Limit
<1>6. /\ IsFiniteSet(C) /\ Cardinality(C) \in Nat
      /\ Cardinality(D) = IF s \in C THEN Cardinality(C) - 1 ELSE Cardinality(C)
  BY <1>1, SlotSets, FS_RemoveElement
<1>7. CASE s \notin C
  <2>1. D = C /\ stored'[c] <= stored[c]
    BY <1>1, <1>7, <1>4
  <2>2. CASE C = {}
    BY <2>1, <2>2, <1>4, <1>5 DEF QuotaInv
  <2>3. CASE C # {}
    <3>1. PICK w \in C : Load(w, c) <= Limit
      BY <2>3 DEF QuotaInv
    <3>2. MaxBytes * (Cardinality(C) - 1) \in Int
      BY <1>5, <1>6, Products
    <3>3. Load(w, c)' = stored'[c] + upload[w].bytes + MaxBytes * (Cardinality(C) - 1)
      BY <2>1, <1>3 DEF Load
    <3>4. Load(w, c) = stored[c] + upload[w].bytes + MaxBytes * (Cardinality(C) - 1)
      BY DEF Load
    <3>5. w \in Slots
      BY <1>1
    <3> HIDE DEF C, D
    <3>6. Load(w, c)' <= Limit
      BY <3>1, <3>2, <3>3, <3>4, <3>5, <2>1, <1>2, <1>4, <1>5
    <3> QED
      BY <3>6, <2>1, <2>3 DEF C, D
  <2> QED
    BY <2>2, <2>3
<1>8. CASE s \in C
  <2>1. stored'[c] <= stored[c] + upload[s].bytes
    BY <1>8
  <2>2. PICK w \in C : Load(w, c) <= Limit
    BY <1>8 DEF QuotaInv
  <2>3. Load(w, c) = stored[c] + upload[w].bytes + MaxBytes * (Cardinality(C) - 1)
    BY DEF Load
  <2>4. w \in Slots /\ MaxBytes * (Cardinality(C) - 1) \in Int
    BY <1>1, <1>5, <1>6, Products
  <2>5. CASE D = {}
    <3>0. C \ {s} = {} /\ Cardinality(C) - 1 = Cardinality(D) /\ Cardinality(D) = 0
      BY <1>1, <1>6, <1>8, <2>5, FS_EmptySet
    <3>1. w = s /\ Cardinality(C) = 1
      BY <3>0, <1>6
    <3>2. MaxBytes * (Cardinality(C) - 1) = 0
      BY <3>1, <1>5, Products
    <3> HIDE DEF C, D
    <3>3. stored'[c] <= Limit
      BY <3>1, <3>2, <2>1, <2>2, <2>3, <1>2, <1>4, <1>5
    <3> QED
      BY <3>3, <2>5 DEF D
  <2>6. CASE D # {}
    <3>1. PICK y \in D : w # s => y = w
      BY <2>6, <1>1
    <3>2. y \in Slots /\ upload'[y].bytes = upload[y].bytes
      BY <1>3
    <3>3. Cardinality(D) = Cardinality(C) - 1
      BY <1>6, <1>8
    <3>4. MaxBytes * ((Cardinality(C) - 1) - 1) = MaxBytes * (Cardinality(C) - 1) - MaxBytes
      BY <1>5, <1>6, Products
    <3>5. Load(y, c)' = stored'[c] + upload'[y].bytes + MaxBytes * (Cardinality(D) - 1)
      BY DEF Load
    <3> HIDE DEF C, D
    <3>6. Load(y, c)' = stored'[c] + upload[y].bytes + (MaxBytes * (Cardinality(C) - 1) - MaxBytes)
      BY <3>2, <3>3, <3>4, <3>5
    <3>7. upload[y].bytes \in Nat /\ upload[s].bytes \in Nat /\ upload[w].bytes \in Nat
          /\ upload[y].bytes <= MaxBytes /\ upload[s].bytes <= MaxBytes
      BY <3>2, <2>4, <1>2
    <3>8. ASSUME w # s PROVE Load(y, c)' <= Limit
      BY <3>1, <3>6, <3>7, <3>8, <2>1, <2>2, <2>3, <2>4, <1>4, <1>5
    <3>9. ASSUME w = s PROVE Load(y, c)' <= Limit
      BY <3>6, <3>7, <3>9, <2>1, <2>2, <2>3, <2>4, <1>4, <1>5
    <3> QED
      BY <3>8, <3>9, <2>6, <3>1 DEF D
  <2> QED
    BY <2>5, <2>6
<1> QED
  BY <1>7, <1>8

-----------------------------------------------------------------------------
(* The steps                                                               *)

UploadInv == UploadTypeOK /\ CountInv /\ QuotaInv

LEMMA InitIInv == UploadInit => UploadInv
<1> SUFFICES ASSUME UploadInit PROVE UploadInv
  OBVIOUS
<1>1. UploadTypeOK
  BY AttachmentsAssumption DEF UploadInit, UploadTypeOK, UploadStates, UploadSteps
<1>2. \A s \in Slots : upload[s].pc = "idle"
  BY DEF UploadInit
<1>3. CountInv
  <2> SUFFICES ASSUME MaxAttachments > 0, NEW t \in Tickets
               PROVE  attached[t] + Cardinality(Passed(t)) <= MaxAttachments + Cardinality(Slots) - 1
    BY DEF CountInv
  <2>1. Passed(t) = {} /\ attached[t] = 0
    BY <1>2 DEF Passed, Passing, UploadInit
  <2> QED
    BY <2>1, FS_EmptySet, SlotsCounted, AttachmentsAssumption
<1>4. QuotaInv
  <2> SUFFICES ASSUME Quota > 0, NEW c \in CustomerIds
               PROVE  Cleared(c) = {} /\ stored[c] <= Limit
    BY DEF QuotaInv
  <2>1. Cleared(c) = {} /\ stored[c] = 0
    BY <1>2 DEF Cleared, Clears, UploadInit
  <2>2. MaxBytes * (Cardinality(Slots) - 1) >= 0 /\ MaxBytes * (Cardinality(Slots) - 1) \in Int
    BY Products, SlotsCounted, AttachmentsAssumption
  <2> QED
    BY <2>1, <2>2, AttachmentsAssumption DEF Limit
<1> QED
  BY <1>1, <1>3, <1>4 DEF UploadInv

\* The steps that change one upload and neither table.
LEMMA UploadsRest ==
  ASSUME UploadInv, NEW s \in Slots, NEW n \in UploadStates,
         upload' = [upload EXCEPT ![s] = n], UNCHANGED Tables,
         MaxAttachments > 0 => \A t \in Tickets : Passing(n, t) => s \in Passed(t),
         Quota > 0 => n.pc # "insert"
  PROVE  UploadInv'
<1>1. UploadTypeOK'
  BY DEF UploadInv, UploadTypeOK, Tables
<1>2. CountInv'
  BY CountKept DEF UploadInv, Tables
<1>3. stored' \in [CustomerIds -> Nat] /\ \A x \in Slots : upload[x].bytes \in Nat
  BY AttachmentsAssumption DEF UploadInv, UploadTypeOK, Tables, UploadStates
<1>4. \A c \in CustomerIds :
         stored'[c] <= stored[c] + (IF s \in Cleared(c) THEN upload[s].bytes ELSE 0)
  BY <1>3 DEF Tables, UploadInv, UploadTypeOK
<1>5. QuotaInv'
  BY <1>3, <1>4, QuotaKept DEF UploadInv
<1> QED
  BY <1>1, <1>2, <1>5 DEF UploadInv

\* What Becomes makes of an upload.
LEMMA BecomesMoves ==
  ASSUME UploadTypeOK, NEW s \in Slots, NEW pc \in UploadSteps, NEW b \in 0..MaxBytes, Becomes(s, pc, b)
  PROVE  \E n \in UploadStates : /\ n.pc = pc /\ n.entry = upload[s].entry /\ n.bytes = b
                                 /\ upload' = [upload EXCEPT ![s] = n]
<1> DEFINE n == [pc |-> pc, entry |-> upload[s].entry, bytes |-> b]
<1>1. n \in UploadStates /\ upload' = [upload EXCEPT ![s] = n]
  BY DEF UploadTypeOK, UploadStates, Becomes
<1> QED
  BY <1>1

LEMMA GotoMoves ==
  ASSUME UploadTypeOK, NEW s \in Slots, NEW pc \in UploadSteps, StepTo(s, pc)
  PROVE  \E n \in UploadStates : /\ n.pc = pc /\ n.entry = upload[s].entry /\ n.bytes = upload[s].bytes
                                 /\ upload' = [upload EXCEPT ![s] = n]
<1>1. upload[s].bytes \in 0..MaxBytes
  BY DEF UploadTypeOK, UploadStates
<1> QED
  BY <1>1, BecomesMoves DEF StepTo

LEMMA LeaveMoves ==
  ASSUME UploadTypeOK, NEW s \in Slots, Leave(s)
  PROVE  \E n \in UploadStates : /\ n.pc = "idle" /\ n.entry = upload[s].entry
                                 /\ upload' = [upload EXCEPT ![s] = n]
<1>1. 0 \in 0..MaxBytes /\ "idle" \in UploadSteps
  BY AttachmentsAssumption DEF UploadSteps
<1> QED
  BY <1>1, BecomesMoves DEF Leave

LEMMA Leaving ==
  ASSUME UploadInv, NEW s \in Slots, Leave(s), UNCHANGED Tables
  PROVE  UploadInv'
<1>1. PICK n \in UploadStates : n.pc = "idle" /\ upload' = [upload EXCEPT ![s] = n]
  BY LeaveMoves DEF UploadInv
<1>2. \A t \in Tickets : ~Passing(n, t)
  BY <1>1 DEF Passing
<1> QED
  BY <1>1, <1>2, UploadsRest

LEMMA CheckCountStep ==
  ASSUME UploadInv, NEW s \in Slots, CheckCount(s)
  PROVE  UploadInv'
<1>1. UNCHANGED Tables /\ upload[s].pc = "count" /\ UploadTypeOK
  BY DEF CheckCount, UploadInv
<1>2. CASE attached[Ticket(s)] >= MaxAttachments
  <2>1. StepTo(s, "idle")
    BY <1>2 DEF CheckCount
  <2>2. PICK n \in UploadStates : n.pc = "idle" /\ upload' = [upload EXCEPT ![s] = n]
    BY <1>1, <2>1, GotoMoves DEF UploadSteps
  <2>3. \A t \in Tickets : ~Passing(n, t)
    BY <2>2 DEF Passing
  <2> QED
    BY <1>1, <2>2, <2>3, UploadsRest
<1>3. CASE ~(attached[Ticket(s)] >= MaxAttachments)
  <2>1. StepTo(s, "body")
    BY <1>3 DEF CheckCount
  <2>2. PICK n \in UploadStates : /\ n.pc = "body" /\ n.entry = upload[s].entry
                                  /\ upload' = [upload EXCEPT ![s] = n]
    BY <1>1, <2>1, GotoMoves DEF UploadSteps
  <2>3. UploadTypeOK'
    BY <1>1, <2>2 DEF UploadTypeOK, Tables
  <2>4. CountInv'
    <3> SUFFICES ASSUME MaxAttachments > 0, NEW t \in Tickets
                 PROVE  attached'[t] + Cardinality(Passed(t)') <= MaxAttachments + Cardinality(Slots) - 1
      BY DEF CountInv
    <3>1. attached' = attached /\ attached[t] \in Nat
      BY <1>1 DEF UploadTypeOK, Tables
    <3>2. Passed(t)' \in SUBSET Slots
      BY DEF Passed
    <3>3. CASE t = Ticket(s)
      BY <3>1, <3>2, <3>3, <1>3, SlotSets, SlotsCounted, AttachmentsAssumption
    <3>4. CASE t # Ticket(s)
      <4>1. ~Passing(n, t) /\ s \notin Passed(t)
        BY <2>2, <3>4, <1>1 DEF Passing, Passed, Ticket
      <4>2. Passed(t)' = Passed(t) \ {s}
        BY <4>1, <1>1, <2>2, Moves
      <4>3. Passed(t)' = Passed(t)
        BY <4>1, <4>2
      <4> QED
        BY <4>3, <3>1 DEF UploadInv, CountInv
    <3> QED
      BY <3>3, <3>4
  <2>5. QuotaInv'
    <3>1. stored' = stored /\ stored \in [CustomerIds -> Nat]
          /\ \A x \in Slots : upload[x].bytes \in Nat
      BY <1>1, AttachmentsAssumption DEF UploadTypeOK, Tables, UploadStates
    <3>2. \A c \in CustomerIds :
            stored'[c] <= stored[c] + (IF s \in Cleared(c) THEN upload[s].bytes ELSE 0)
      BY <3>1
    <3> QED
      BY <3>1, <3>2, <1>1, <2>2, QuotaKept DEF UploadInv
  <2> QED
    BY <2>3, <2>4, <2>5 DEF UploadInv
<1> QED
  BY <1>2, <1>3

LEMMA CheckQuotaStep ==
  ASSUME UploadInv, NEW s \in Slots, CheckQuota(s)
  PROVE  UploadInv'
<1>1. UNCHANGED Tables /\ upload[s].pc = "quota" /\ UploadTypeOK
  BY DEF CheckQuota, UploadInv
<1>2. CASE stored[Customer(s)] + upload[s].bytes > Quota
  BY <1>1, <1>2, Leaving DEF CheckQuota
<1>3. CASE ~(stored[Customer(s)] + upload[s].bytes > Quota)
  <2>1. StepTo(s, "insert")
    BY <1>3 DEF CheckQuota
  <2>2. PICK n \in UploadStates : /\ n.pc = "insert" /\ n.entry = upload[s].entry
                                  /\ n.bytes = upload[s].bytes /\ upload' = [upload EXCEPT ![s] = n]
    BY <1>1, <2>1, GotoMoves DEF UploadSteps
  <2>3. UploadTypeOK'
    BY <1>1, <2>2 DEF UploadTypeOK, Tables
  <2>4. \A t \in Tickets : Passing(n, t) => s \in Passed(t)
    BY <1>1, <2>2 DEF Passing, Passed
  <2>5. CountInv'
    BY <1>1, <2>2, <2>4, CountKept DEF UploadInv, Tables
  <2>6. QuotaInv'
    <3> SUFFICES ASSUME Quota > 0, NEW c \in CustomerIds
                 PROVE  /\ Cleared(c)' = {} => stored'[c] <= Limit
                        /\ Cleared(c)' # {} => \E w \in Cleared(c)' : Load(w, c)' <= Limit
      BY DEF QuotaInv, Limit
    <3>1. stored' = stored /\ stored[c] \in Nat
      BY <1>1 DEF UploadTypeOK, Tables
    <3>2. \A x \in Slots : upload'[x].bytes = upload[x].bytes /\ upload[x].bytes \in Nat
      BY <1>1, <2>2, Moves, AttachmentsAssumption DEF UploadTypeOK, UploadStates
    <3>3. CASE c = Customer(s)
      <4>0. Clears(n, c)
        BY <3>3, <2>2 DEF Clears, Customer, Ticket
      <4>1. Cleared(c)' = Cleared(c) \cup {s}
        BY <4>0, <1>1, <2>2, Moves
      <4>2. Cleared(c)' \in SUBSET Slots
        BY DEF Cleared
      <4>3. MaxBytes * (Cardinality(Cleared(c)') - 1) <= MaxBytes * (Cardinality(Slots) - 1)
            /\ MaxBytes * (Cardinality(Cleared(c)') - 1) \in Int
            /\ MaxBytes * (Cardinality(Slots) - 1) \in Int
        BY <4>2, SlotSets, SlotsCounted, Products, AttachmentsAssumption
      <4>4. Load(s, c)' = stored[c] + upload[s].bytes + MaxBytes * (Cardinality(Cleared(c)') - 1)
        BY <3>1, <3>2 DEF Load
      <4>5. stored[c] + upload[s].bytes <= Quota
        BY <1>3, <3>1, <3>2, <3>3, AttachmentsAssumption
      <4>6. Load(s, c)' <= Limit
        BY <4>3, <4>4, <4>5, <3>1, <3>2, AttachmentsAssumption DEF Limit
      <4> QED
        BY <4>1, <4>6
    <3>4. CASE c # Customer(s)
      <4>1. ~Clears(n, c) /\ s \notin Cleared(c)
        BY <2>2, <3>4, <1>1 DEF Clears, Cleared, Customer, Ticket
      <4>2. Cleared(c)' = Cleared(c) \ {s}
        BY <4>1, <1>1, <2>2, Moves
      <4>4. Cleared(c)' = Cleared(c)
        BY <4>1, <4>2
      <4>3. \A w \in Cleared(c) : Load(w, c)' = Load(w, c)
        BY <4>4, <3>1, <3>2 DEF Load, Cleared
      <4> QED
        BY <4>4, <4>3, <3>1 DEF UploadInv, QuotaInv
    <3> QED
      BY <3>3, <3>4
  <2> QED
    BY <2>3, <2>5, <2>6 DEF UploadInv
<1> QED
  BY <1>2, <1>3

LEMMA ArriveStep ==
  ASSUME UploadInv, NEW s \in Slots, ArriveUpload(s)
  PROVE  UploadInv'
<1>1. PICK e \in Entries :
        upload' = [upload EXCEPT ![s] = [pc |-> IF MaxAttachments > 0 THEN "count" ELSE "body",
                                   entry |-> e, bytes |-> 0]]
  BY DEF ArriveUpload
<1> DEFINE n == [pc |-> IF MaxAttachments > 0 THEN "count" ELSE "body", entry |-> e, bytes |-> 0]
<1>2. n \in UploadStates /\ n.pc # "insert" /\ (MaxAttachments > 0 => n.pc = "count")
  BY AttachmentsAssumption DEF UploadStates, UploadSteps
<1>3. upload' = [upload EXCEPT ![s] = n] /\ UNCHANGED Tables
  BY <1>1 DEF ArriveUpload
<1> HIDE DEF n
<1>4. MaxAttachments > 0 => \A t \in Tickets : ~Passing(n, t)
  BY <1>2 DEF Passing
<1> QED
  BY <1>2, <1>3, <1>4, UploadsRest

LEMMA ReadBodyStep ==
  ASSUME UploadInv, NEW s \in Slots, ReadBody(s)
  PROVE  UploadInv'
<1>1. UNCHANGED Tables /\ upload[s].pc = "body" /\ UploadTypeOK
  BY DEF ReadBody, UploadInv
<1>2. CASE Leave(s)
  BY <1>1, <1>2, Leaving
<1>3. CASE \E b \in 0..MaxBytes : Becomes(s, IF Quota > 0 THEN "quota" ELSE "insert", b)
  <2>1. PICK b \in 0..MaxBytes : Becomes(s, IF Quota > 0 THEN "quota" ELSE "insert", b)
    BY <1>3
  <2>2. (IF Quota > 0 THEN "quota" ELSE "insert") \in UploadSteps
    BY DEF UploadSteps
  <2>3. PICK n \in UploadStates : /\ n.pc = IF Quota > 0 THEN "quota" ELSE "insert"
                                  /\ n.entry = upload[s].entry /\ upload' = [upload EXCEPT ![s] = n]
    BY <1>1, <2>1, <2>2, BecomesMoves
  <2>4. \A t \in Tickets : Passing(n, t) => s \in Passed(t)
    BY <1>1, <2>3 DEF Passing, Passed
  <2>5. Quota > 0 => n.pc # "insert"
    BY <2>3
  <2> QED
    BY <1>1, <2>3, <2>4, <2>5, UploadsRest
<1> QED
  BY <1>2, <1>3 DEF ReadBody

LEMMA InsertStep ==
  ASSUME UploadInv, NEW s \in Slots, Insert(s)
  PROVE  UploadInv'
<1> DEFINE k == Ticket(s)
           d == Customer(s)
<1>1. /\ upload[s].pc = "insert" /\ UploadTypeOK /\ Leave(s)
      /\ attached' = [attached EXCEPT ![k] = @ + 1]
      /\ stored' = [stored EXCEPT ![d] = @ + upload[s].bytes]
  BY DEF Insert, UploadInv
<1>2. k \in Tickets /\ d \in CustomerIds /\ upload[s].bytes \in Nat
  <2>1. upload[s] \in UploadStates
    BY <1>1 DEF UploadTypeOK
  <2>2. upload[s].entry \in Entries /\ upload[s].bytes \in 0..MaxBytes
    BY <2>1 DEF UploadStates
  <2>3. k \in Tickets
    BY <2>2, AttachmentsAssumption DEF Ticket
  <2>4. d \in CustomerIds
    BY <2>3, AttachmentsAssumption DEF Customer
  <2> QED
    BY <2>2, <2>3, <2>4, AttachmentsAssumption
<1>3. PICK n \in UploadStates : n.pc = "idle" /\ upload' = [upload EXCEPT ![s] = n]
  BY <1>1, LeaveMoves
<1> HIDE DEF k, d
<1>4. attached' \in [Tickets -> Nat] /\ stored' \in [CustomerIds -> Nat]
  BY <1>1, <1>2 DEF UploadTypeOK
<1>5. UploadTypeOK'
  BY <1>1, <1>3, <1>4 DEF UploadTypeOK
<1>6. CountInv'
  <2> SUFFICES ASSUME MaxAttachments > 0, NEW t \in Tickets
               PROVE  attached'[t] + Cardinality(Passed(t)') <= MaxAttachments + Cardinality(Slots) - 1
    BY DEF CountInv
  <2>1. Passed(t)' = Passed(t) \ {s}
    BY <1>1, <1>3, Moves DEF Passing
  <2>2. Passed(t) \in SUBSET Slots /\ attached[t] \in Nat
    BY <1>1 DEF Passed, UploadTypeOK
  <2>3. /\ Cardinality(Passed(t)) \in Nat
        /\ Cardinality(Passed(t)') = IF s \in Passed(t) THEN Cardinality(Passed(t)) - 1
                                                        ELSE Cardinality(Passed(t))
    BY <2>1, <2>2, SlotSets, FS_RemoveElement
  <2>4. attached[t] + Cardinality(Passed(t)) <= MaxAttachments + Cardinality(Slots) - 1
    BY DEF UploadInv, CountInv
  <2>5. (s \in Passed(t)) <=> (t = k)
    BY <1>1 DEF Passed, Passing, k, Ticket
  <2>6. attached'[t] = IF t = k THEN attached[t] + 1 ELSE attached[t]
    BY <1>1, <1>2 DEF UploadTypeOK
  <2> QED
    BY <2>2, <2>3, <2>4, <2>5, <2>6, SlotsCounted, AttachmentsAssumption
<1>7. QuotaInv'
  <2>1. \A c \in CustomerIds : s \in Cleared(c) <=> c = d
    BY <1>1 DEF Cleared, Clears, d, Customer, Ticket
  <2>2. \A c \in CustomerIds :
          stored'[c] <= stored[c] + (IF s \in Cleared(c) THEN upload[s].bytes ELSE 0)
    BY <2>1, <1>1, <1>2 DEF UploadTypeOK
  <2>3. n.pc # "insert"
    BY <1>3
  <2> QED
    BY <2>2, <2>3, <1>3, <1>4, QuotaKept DEF UploadInv
<1> QED
  BY <1>5, <1>6, <1>7 DEF UploadInv

LEMMA NextIInv == UploadInv /\ [UploadNext]_uploadVars => UploadInv'
<1> SUFFICES ASSUME UploadInv, [UploadNext]_uploadVars PROVE UploadInv'
  OBVIOUS
<1>1. CASE UNCHANGED uploadVars
  BY <1>1 DEF uploadVars, UploadInv, UploadTypeOK, CountInv, Passed, QuotaInv, Cleared, Load
<1>2. ASSUME NEW s \in Slots, Step(s) PROVE UploadInv'
  <2>1. CASE FailUpload(s)
    BY <2>1, Leaving DEF FailUpload
  <2> QED
    BY <1>2, <2>1, ArriveStep, CheckCountStep, ReadBodyStep, CheckQuotaStep, InsertStep DEF Step
<1> QED
  BY <1>1, <1>2 DEF UploadNext

\* Invariance: whatever uploads overlap and fail, the inductive invariant holds.
THEOREM UploadInvariance == UploadSpec => []UploadInv
<1> QED
  BY InitIInv, NextIInv, PTL DEF UploadSpec

-----------------------------------------------------------------------------
(* Results                                                                 *)

\* Every reachable state of the upload handler is well typed: what it adds up
\* never becomes negative.
THEOREM UploadTypeCorrect == UploadSpec => []UploadTypeOK
<1>1. UploadInv => UploadTypeOK
  BY DEF UploadInv
<1> QED
  BY <1>1, UploadInvariance, PTL

\* hTKUploadAttachment overruns the limit on a ticket's attachments by fewer
\* than the uploads under way at a time, however many there are in all.
THEOREM CountBounded == UploadSpec => []CountNearlyKept
<1>1. UploadInv => CountNearlyKept
  <2> SUFFICES ASSUME UploadInv, MaxAttachments > 0, NEW t \in Tickets
               PROVE  attached[t] <= MaxAttachments + Cardinality(Slots) - 1
    BY DEF CountNearlyKept
  <2>1. Passed(t) \in SUBSET Slots /\ attached[t] \in Nat
    BY DEF Passed, UploadInv, UploadTypeOK
  <2>2. attached[t] + Cardinality(Passed(t)) <= MaxAttachments + Cardinality(Slots) - 1
    BY DEF UploadInv, CountInv
  <2> QED
    BY <2>1, <2>2, SlotSets, SlotsCounted, AttachmentsAssumption
<1> QED
  BY <1>1, UploadInvariance, PTL

\* And the quota of a customer by at most one body of the largest size for each
\* of them but one.
THEOREM QuotaBounded == UploadSpec => []QuotaNearlyKept
<1>1. UploadInv => QuotaNearlyKept
  <2> SUFFICES ASSUME UploadInv, Quota > 0, NEW c \in CustomerIds
               PROVE  stored[c] <= Limit
    BY DEF QuotaNearlyKept, Limit
  <2>1. CASE Cleared(c) = {}
    BY <2>1 DEF UploadInv, QuotaInv
  <2>2. CASE Cleared(c) # {}
    <3>1. PICK w \in Cleared(c) : Load(w, c) <= Limit
      BY <2>2 DEF UploadInv, QuotaInv
    <3>2. Cleared(c) \in SUBSET Slots /\ w \in Slots
      BY DEF Cleared
    <3>3. upload[w].bytes \in Nat /\ stored[c] \in Nat
      BY <3>2, AttachmentsAssumption DEF UploadInv, UploadTypeOK, UploadStates
    <3>4. Cardinality(Cleared(c)) \in Nat /\ Cardinality(Cleared(c)) >= 1
      BY <2>2, <3>2, SlotSets, FS_EmptySet
    <3>5. /\ MaxBytes * (Cardinality(Cleared(c)) - 1) >= MaxBytes * (1 - 1)
          /\ MaxBytes * (1 - 1) = 0
          /\ MaxBytes * (Cardinality(Cleared(c)) - 1) \in Int
          /\ Limit \in Int
      BY <3>4, SlotsCounted, Products, AttachmentsAssumption DEF Limit
    <3> QED
      BY <3>1, <3>3, <3>5 DEF Load
  <2> QED
    BY <2>1, <2>2
<1> QED
  BY <1>1, UploadInvariance, PTL

\* LimitsBounded: neither limit of hTKUploadAttachment is overrun by more than the
\* uploads under way at once account for.
THEOREM LimitsBounded == UploadSpec => []LimitsNearlyKept
<1>1. CountNearlyKept /\ QuotaNearlyKept => LimitsNearlyKept
  BY DEF LimitsNearlyKept
<1> QED
  BY <1>1, CountBounded, QuotaBounded, PTL

=============================================================================
