------------------------------- MODULE SpeedTest -------------------------------
(***************************************************************************)
(* The speed test: the endpoints administrators maintain, the pages        *)
(* customers pick one from, and hSTCustomerSaveResult, which stores what a *)
(* browser measured.  A save is a SELECT for the rate limit, an INSERT and *)
(* up to two events; each is an action of its own.                         *)
(*                                                                         *)
(* Of an endpoint the model keeps whether its row exists and is active; of *)
(* the numbers measured whether the download is below the threshold; of    *)
(* the address whether a network is stored or NULL.  Which of the listed   *)
(* endpoints the resolver names (country, order) makes no difference here. *)
(***************************************************************************)
EXTENDS Integers, Sequences

CONSTANTS
    NULL,
    Sessions,      \* browsers with the page open, each at one save at a time
    Customers,
    Endpoints,     \* ids of endpoints, never reused
    Interval,      \* the rate limit (60 seconds in the code)
    MaxNow,        \* bound: the clock stops here
    MaxResults,    \* bound: rows of st_results
    MaxFaults      \* bound: answers lost, events lost and crashes of a behavior

Settings == [address : BOOLEAN,   \* STClientIPStorage is not "off"
             alerts  : BOOLEAN]   \* STSlowThresholdMbps > 0

ASSUME SpeedTestAssumption ==
    /\ NULL \notin Endpoints /\ NULL \notin Customers /\ NULL \notin Settings
    /\ Interval \in Nat \ {0}
    /\ MaxNow \in Nat /\ MaxResults \in Nat /\ MaxFaults \in Nat

VARIABLES
    now,
    endpoint,      \* st_endpoints
    results,       \* st_results, in the order of its ids
    offered,       \* endpoints some open page was given
    req,           \* local state of the save of every session
    ran,           \* speedtest_run events, by the id of the result
    slowed,        \* speedtest_slow events
    faults

tables == <<endpoint, results>>
events == <<ran, slowed>>
vars == <<now, tables, offered, req, events, faults>>

Instants == 0..MaxNow
EndpointRows == {"unborn", "active", "inactive", "deleted"}
ResultRows ==
    [customer : Customers,
     endpoint : Endpoints \cup {NULL},   \* endpoint_id
     at       : Instants,                \* ran_at
     address  : BOOLEAN,                 \* client_ip is not NULL
     slow     : BOOLEAN,                 \* download_mbps is below the threshold
     seen     : Nat]                     \* history: rows there were at the rate check

SaveStates ==
    [pc       : {"idle", "rate", "insert", "run", "slow"},
     customer : Customers \cup {NULL},
     endpoint : Endpoints \cup {NULL},
     set      : Settings \cup {NULL},    \* of the handler that serves it
     seen     : Nat,
     id       : Nat]                     \* of the row it has inserted

NoSave == [pc |-> "idle", customer |-> NULL, endpoint |-> NULL, set |-> NULL,
           seen |-> 0, id |-> 0]

TypeOK ==
    /\ now \in Instants
    /\ endpoint \in [Endpoints -> EndpointRows]
    /\ results \in Seq(ResultRows) /\ Len(results) <= MaxResults
    /\ offered \subseteq Endpoints
    /\ req \in [Sessions -> SaveStates]
    /\ ran \subseteq DOMAIN results
    /\ slowed \subseteq DOMAIN results
    /\ faults \in 0..MaxFaults

Init ==
    /\ now = 0
    /\ endpoint = [e \in Endpoints |-> "unborn"]
    /\ results = <<>>
    /\ offered = {}
    /\ req = [s \in Sessions |-> NoSave]
    /\ ran = {} /\ slowed = {}
    /\ faults = 0

At(s, pc) == req[s].pc = pc
Becomes(s, q) == req' = [req EXCEPT ![s] = q]
Goto(s, pc) == Becomes(s, [req[s] EXCEPT !.pc = pc])
Leave(s) == Becomes(s, NoSave)
Live(e) == endpoint[e] \in {"active", "inactive"}

-----------------------------------------------------------------------------
(* Endpoints                                                               *)

\* hSTAdminCreateEndpoint and hSTAdminUpdateEndpoint, which overwrites the row.
WriteEndpoint ==
    /\ \E e \in Endpoints, status \in {"active", "inactive"} :
         /\ endpoint[e] # "deleted"
         /\ endpoint' = [endpoint EXCEPT ![e] = status]
    /\ UNCHANGED <<now, results, offered, req, events, faults>>

\* Mutant: ON DELETE SET DEFAULT, and the default is no id at all.
DeleteZeroes ==
    /\ \E e \in Endpoints :
         /\ Live(e)
         /\ endpoint' = [endpoint EXCEPT ![e] = "deleted"]
         /\ results' = [i \in DOMAIN results |->
                          IF results[i].endpoint = e
                          THEN [results[i] EXCEPT !.endpoint = 0] ELSE results[i]]
    /\ UNCHANGED <<now, offered, req, events, faults>>

\* hSTAdminDeleteEndpoint; endpoint_id is ON DELETE SET NULL.
DeleteEndpoint ==
    /\ \E e \in Endpoints :
         /\ Live(e)
         /\ endpoint' = [endpoint EXCEPT ![e] = "deleted"]
         /\ results' = [i \in DOMAIN results |->
                          IF results[i].endpoint = e
                          THEN [results[i] EXCEPT !.endpoint = NULL] ELSE results[i]]
    /\ UNCHANGED <<now, offered, req, events, faults>>

\* hSTCustomerEndpoints and hSTCustomerAuto as the page loads: whatever the
\* strategy, the resolver names endpoints of one listing of the active rows.  A
\* page can be left open and goes on offering what it was given.
Load ==
    /\ offered' = offered \cup {e \in Endpoints : endpoint[e] = "active"}
    /\ UNCHANGED <<now, tables, req, events, faults>>

-----------------------------------------------------------------------------
(* Saving a result                                                         *)

\* A test has ended, on an endpoint its page offered.  The request is served to
\* its end by the handler mounted now; a Configure may have come since the last
\* one, so its settings may be any.
Post(s) ==
    /\ At(s, "idle")
    /\ \E c \in Customers, e \in offered, set \in Settings :
         Becomes(s, [pc |-> "rate", customer |-> c, endpoint |-> e,
                     set |-> set, seen |-> 0, id |-> 0])
    /\ UNCHANGED <<now, tables, offered, events, faults>>

ResultsOf(c) == {i \in DOMAIN results : results[i].customer = c}

\* Mutant: results whose save failed after the INSERT do not count.
RecentAnnounced(c) == \E i \in ResultsOf(c) \cap ran : now - results[i].at < Interval

\* STLastResultAt is less than Interval ago.
Recent(c) == \E i \in ResultsOf(c) : now - results[i].at < Interval

CheckRate(s) ==
    /\ At(s, "rate")
    /\ IF Recent(req[s].customer) THEN Leave(s)
       ELSE Becomes(s, [req[s] EXCEPT !.pc = "insert", !.seen = Len(results)])
    /\ UNCHANGED <<now, tables, offered, events, faults>>

NewRow(q, slow) ==
    [customer |-> q.customer, endpoint |-> q.endpoint, at |-> now,
     address |-> q.set.address, slow |-> slow, seen |-> q.seen]

\* The INSERT of STInsertResult commits.  It returns host(client_ip) into a
\* string: where that is NULL the Scan fails, and with it the request.
Insert(s) ==
    LET q == req[s] IN
    /\ At(s, "insert")
    /\ Live(q.endpoint) /\ Len(results) < MaxResults
    /\ \E slow \in BOOLEAN : results' = Append(results, NewRow(q, slow))
    /\ IF q.set.address
       THEN Becomes(s, [q EXCEPT !.pc = "run", !.id = Len(results) + 1])
       ELSE Leave(s)
    /\ UNCHANGED <<now, endpoint, offered, events, faults>>

\* The foreign key refuses an endpoint that has been deleted.
InsertRefused(s) ==
    /\ At(s, "insert")
    /\ ~Live(req[s].endpoint)
    /\ Leave(s)
    /\ UNCHANGED <<now, tables, offered, events, faults>>

\* The save ends before its INSERT commits: a body that does not parse, a number
\* the column cannot hold, an error of the database, a pool that a Configure has
\* closed.
Refuse(s) ==
    /\ At(s, "rate") \/ At(s, "insert")
    /\ Leave(s)
    /\ UNCHANGED <<now, tables, offered, events, faults>>

SlowAlert(s) == req[s].set.alerts /\ results[req[s].id].slow

\* Mutant: only slow results are announced at all.
PublishRunSlow(s) ==
    /\ At(s, "run")
    /\ ran' = IF results[req[s].id].slow THEN ran \cup {req[s].id} ELSE ran
    /\ IF SlowAlert(s) THEN Goto(s, "slow") ELSE Leave(s)
    /\ UNCHANGED <<now, tables, offered, slowed, faults>>

PublishRun(s) ==
    /\ At(s, "run")
    /\ ran' = ran \cup {req[s].id}
    /\ IF SlowAlert(s) THEN Goto(s, "slow") ELSE Leave(s)
    /\ UNCHANGED <<now, tables, offered, slowed, faults>>

PublishSlow(s) ==
    /\ At(s, "slow")
    /\ slowed' = slowed \cup {req[s].id}
    /\ Leave(s)
    /\ UNCHANGED <<now, tables, offered, ran, faults>>

-----------------------------------------------------------------------------
(* Faults and time                                                         *)

\* The INSERT commits and its answer is lost.
AnswerLost(s) ==
    /\ faults < MaxFaults /\ faults' = faults + 1
    /\ At(s, "insert") /\ Live(req[s].endpoint) /\ Len(results) < MaxResults
    /\ \E slow \in BOOLEAN : results' = Append(results, NewRow(req[s], slow))
    /\ Leave(s)
    /\ UNCHANGED <<now, endpoint, offered, events>>

\* stPublishEvent logs the error of the host and goes on.
EventLost(s) ==
    /\ faults < MaxFaults /\ faults' = faults + 1
    /\ \/ At(s, "run") /\ IF SlowAlert(s) THEN Goto(s, "slow") ELSE Leave(s)
       \/ At(s, "slow") /\ Leave(s)
    /\ UNCHANGED <<now, tables, offered, events>>

\* The process dies, and with it every save under way.
Crash ==
    /\ faults < MaxFaults /\ faults' = faults + 1
    /\ req' = [s \in Sessions |-> NoSave]
    /\ UNCHANGED <<now, tables, offered, events>>

Tick ==
    /\ now < MaxNow /\ now' = now + 1
    /\ UNCHANGED <<tables, offered, req, events, faults>>

-----------------------------------------------------------------------------
Save(s) ==
    \/ Post(s) \/ CheckRate(s) \/ Insert(s) \/ InsertRefused(s) \/ Refuse(s)
    \/ PublishRun(s) \/ PublishSlow(s)

Next ==
    \/ WriteEndpoint \/ DeleteEndpoint \/ Load \/ Crash \/ Tick
    \/ \E s \in Sessions : Save(s) \/ AnswerLost(s) \/ EventLost(s)

Spec == Init /\ [][Next]_vars

-----------------------------------------------------------------------------
(* Properties                                                              *)

\* SpacedUnlessOvertaken: two results of a customer that are closer than the
\* interval were both past the rate check before the first of them was stored;
\* no other order of saves, faults and Configures gets a result in early.
SpacedUnlessOvertaken ==
    \A i, j \in DOMAIN results :
        /\ i < j /\ results[i].customer = results[j].customer
        /\ results[j].at - results[i].at < Interval
        => results[j].seen < i

InHand(i) == \E s \in Sessions : At(s, "run") /\ req[s].id = i

\* SilentOnlyWithoutAddress: a stored result goes without its speedtest_run event
\* only where the address is not stored, or an answer, an event or the process is
\* lost: Configure and deletions of the endpoint do not silence it.
SilentOnlyWithoutAddress ==
    \A i \in DOMAIN results :
        i \in ran \/ InHand(i) \/ ~results[i].address \/ faults > 0

\* AlertsFollowRuns: speedtest_slow comes after the speedtest_run of the same
\* result, once at most, and only for a slow result of a handler with a
\* threshold, even when the settings change between the two events.
AlertsFollowRuns ==
    /\ faults = 0 => slowed \subseteq ran
    /\ \A i \in slowed : results[i].slow
    /\ \A s \in Sessions : At(s, "slow") =>
          req[s].set.alerts /\ req[s].id \notin slowed

\* EventsFitResults: both of the above, in one invariant of the events.
EventsFitResults == SilentOnlyWithoutAddress /\ AlertsFollowRuns

\* EveryTestAnnounced: `speedtest_run` is published for "Every successful save"
\* (speedtest.md), and with the storage "off" the "column is NULL".
EveryTestAnnounced ==
    \A i \in DOMAIN results : i \in ran \/ InHand(i) \/ faults > 0
=============================================================================
