---------------------------- MODULE SpeedTestProofs ----------------------------
(***************************************************************************)
(* Theorems about SpeedTest, for any browsers, customers and endpoints.    *)
(*                                                                         *)
(* What holds of the stored results is kept by what holds of each save     *)
(* under way: one past the rate check has seen every recent result of its  *)
(* customer, or it came after the check; one past its INSERT is the only   *)
(* one to announce its row.                                                *)
(***************************************************************************)
EXTENDS SpeedTest, TLAPS

Announcing(q) == q.pc \in {"run", "slow"}

SaveInv(q) ==
    /\ q.pc # "idle" => q.customer \in Customers /\ q.endpoint \in Endpoints /\ q.set \in Settings
    /\ q.seen <= Len(results)
    /\ q.pc = "insert" =>
         \A i \in DOMAIN results :
           results[i].customer = q.customer /\ now - results[i].at < Interval => q.seen < i
    /\ Announcing(q) => q.id \in DOMAIN results /\ q.id \notin slowed
    /\ q.pc = "slow" => q.set.alerts /\ results[q.id].slow

OwnRows ==
    \A s, u \in Sessions :
        s # u /\ Announcing(req[s]) /\ Announcing(req[u]) => req[s].id # req[u].id

RunFirst == faults = 0 => \A s \in Sessions : At(s, "slow") => req[s].id \in ran

IInv ==
    /\ TypeOK
    /\ \A s \in Sessions : SaveInv(req[s])
    /\ OwnRows
    /\ RunFirst
    /\ SpacedUnlessOvertaken
    /\ EventsFitResults

-----------------------------------------------------------------------------
(* Rows and saves                                                          *)

LEMMA RowTypes ==
  ASSUME TypeOK
  PROVE  /\ Len(results) \in Nat /\ DOMAIN results = 1..Len(results) /\ now \in Nat
         /\ \A i \in DOMAIN results :
              /\ results[i] \in ResultRows
              /\ results[i].at \in Nat /\ results[i].seen \in Nat /\ results[i].slow \in BOOLEAN
              /\ results[i].address \in BOOLEAN
<1>1. results \in Seq(ResultRows) /\ now \in Nat
  BY SpeedTestAssumption DEF TypeOK, Instants
<1>2. \A r \in ResultRows : /\ r.at \in Nat /\ r.seen \in Nat /\ r.slow \in BOOLEAN
                            /\ r.address \in BOOLEAN
  BY SpeedTestAssumption DEF ResultRows, Instants
<1>3. Len(results) \in Nat /\ DOMAIN results = 1..Len(results)
      /\ \A i \in DOMAIN results : results[i] \in ResultRows
  BY <1>1
<1> QED
  BY <1>1, <1>2, <1>3

LEMMA SaveTypes ==
  ASSUME TypeOK, NEW s \in Sessions
  PROVE  req[s] \in SaveStates /\ req[s].seen \in Nat /\ req[s].id \in Nat
BY DEF TypeOK, SaveStates

LEMMA NoSaveInv == NoSave \in SaveStates /\ (TypeOK => SaveInv(NoSave)) /\ ~Announcing(NoSave)
<1>1. NoSave \in SaveStates /\ ~Announcing(NoSave)
  BY DEF NoSave, SaveStates, Announcing
<1>2. TypeOK => SaveInv(NoSave)
  BY RowTypes DEF NoSave, SaveInv, Announcing
<1> QED
  BY <1>1, <1>2

\* One save moves to state q; rows and events stay, a fault may happen.
LEMMA Moves ==
  ASSUME IInv, NEW s \in Sessions, NEW q \in SaveStates, Becomes(s, q),
         UNCHANGED <<now, tables, offered, events>>,
         faults' \in 0..MaxFaults, faults' >= faults,
         SaveInv(q), Announcing(q) => Announcing(req[s]) /\ q.id = req[s].id,
         At(s, "run") => q.pc = "run" \/ faults' > 0,
         q.pc = "slow" => faults' > 0   \* with none, Published is the way there
  PROVE  IInv'
<1>1. req' \in [Sessions -> SaveStates] /\ req'[s] = q /\ \A u \in Sessions \ {s} : req'[u] = req[u]
  BY DEF Becomes, IInv, TypeOK
<1>2. faults \in Nat /\ faults' \in Nat /\ (faults' = 0 => faults = 0)
  BY SpeedTestAssumption DEF IInv, TypeOK
<1>3. TypeOK'
  BY <1>1 DEF IInv, TypeOK, tables, events, Instants
<1>4. \A u \in Sessions : SaveInv(req[u])'
  <2>1. \A u \in Sessions : SaveInv(req'[u])
    BY <1>1 DEF IInv
  <2> QED
    BY <2>1, <1>2 DEF SaveInv, Announcing, tables, events
<1>5. OwnRows' /\ RunFirst'
  <2>1. OwnRows'
    BY <1>1 DEF IInv, OwnRows, Announcing
  <2>2. \A u \in Sessions : req'[u].pc = "slow" /\ faults' = 0 => req'[u].id \in ran
    BY <1>1, <1>2 DEF IInv, RunFirst, At
  <2> QED
    BY <2>1, <2>2 DEF RunFirst, At, events
<1>6. SpacedUnlessOvertaken'
  BY DEF IInv, SpacedUnlessOvertaken, tables
<1>7. SilentOnlyWithoutAddress'
  <2> SUFFICES ASSUME NEW i \in DOMAIN results, i \notin ran, results[i].address, ~(faults' > 0)
               PROVE  InHand(i)'
    BY DEF SilentOnlyWithoutAddress, tables, events
  <2>1. InHand(i)
    BY <1>2 DEF IInv, EventsFitResults, SilentOnlyWithoutAddress
  <2>2. PICK u \in Sessions : At(u, "run") /\ req[u].id = i
    BY <2>1 DEF InHand
  <2>3. At(u, "run")' /\ req'[u].id = i
    BY <2>2, <1>1 DEF At, Announcing
  <2> QED
    BY <2>3 DEF InHand
<1>8. AlertsFollowRuns'
  <2>1. (faults' = 0 => slowed \subseteq ran) /\ \A i \in slowed : results[i].slow
    BY <1>2 DEF IInv, EventsFitResults, AlertsFollowRuns
  <2>2. \A u \in Sessions : At(u, "slow")' => req'[u].set.alerts /\ req'[u].id \notin slowed
    BY <1>4 DEF SaveInv, Announcing, At, events
  <2> QED
    BY <2>1, <2>2 DEF AlertsFollowRuns, tables, events
<1> QED
  BY <1>3, <1>4, <1>5, <1>6, <1>7, <1>8 DEF IInv, EventsFitResults

\* A save ends that has nothing left to announce, or by a fault.
LEMMA Leaving ==
  ASSUME IInv, NEW s \in Sessions, Leave(s), UNCHANGED <<now, tables, offered, events>>,
         faults' \in 0..MaxFaults, faults' >= faults, At(s, "run") => faults' > 0
  PROVE  IInv'
<1>1. NoSave \in SaveStates /\ SaveInv(NoSave) /\ ~Announcing(NoSave) /\ NoSave.pc # "slow"
  BY NoSaveInv DEF IInv, NoSave
<1> QED
  BY <1>1, Moves DEF Leave

-----------------------------------------------------------------------------
(* The steps                                                               *)

LEMMA InitIInv == Init => IInv
<1> SUFFICES ASSUME Init PROVE IInv
  OBVIOUS
<1>1. TypeOK
  BY NoSaveInv, SpeedTestAssumption DEF Init, TypeOK, Instants, EndpointRows
<1>2. \A s \in Sessions : SaveInv(req[s]) /\ ~Announcing(req[s])
  BY <1>1, NoSaveInv DEF Init
<1>3. DOMAIN results = {} /\ slowed = {} /\ \A s \in Sessions : ~At(s, "slow")
  BY DEF Init, At, NoSave
<1> QED
  BY <1>1, <1>2, <1>3 DEF IInv, OwnRows, RunFirst, SpacedUnlessOvertaken, EventsFitResults,
     SilentOnlyWithoutAddress, AlertsFollowRuns

\* Steps that leave saves, rows and events alone.
LEMMA PageSteps ==
  ASSUME IInv, UNCHANGED <<now, results, req, events, faults>>,
         endpoint' \in [Endpoints -> EndpointRows], offered' \subseteq Endpoints
  PROVE  IInv'
<1>1. TypeOK'
  BY DEF IInv, TypeOK, events, Instants
<1>2. \A s \in Sessions : SaveInv(req[s])'
  BY DEF IInv, SaveInv, Announcing, events
<1>3. OwnRows' /\ RunFirst' /\ SpacedUnlessOvertaken'
  BY DEF IInv, OwnRows, Announcing, RunFirst, At, SpacedUnlessOvertaken, events
<1>4. EventsFitResults'
  BY DEF IInv, EventsFitResults, SilentOnlyWithoutAddress, InHand, At, AlertsFollowRuns, events
<1> QED
  BY <1>1, <1>2, <1>3, <1>4 DEF IInv

LEMMA WriteEndpointStep ==
  ASSUME IInv, WriteEndpoint
  PROVE  IInv'
<1>1. endpoint' \in [Endpoints -> EndpointRows]
  BY DEF IInv, TypeOK, WriteEndpoint, EndpointRows
<1> QED
  BY <1>1, PageSteps DEF WriteEndpoint, IInv, TypeOK

LEMMA LoadStep ==
  ASSUME IInv, Load
  PROVE  IInv'
BY PageSteps DEF Load, IInv, TypeOK, tables

LEMMA TickStep ==
  ASSUME IInv, Tick
  PROVE  IInv'
<1>1. TypeOK'
  BY SpeedTestAssumption DEF IInv, TypeOK, Tick, tables, events, Instants
<1>2. \A s \in Sessions : SaveInv(req[s])'
  <2>1. \A i \in DOMAIN results :
           now' - results[i].at < Interval => now - results[i].at < Interval
    BY RowTypes, SpeedTestAssumption DEF IInv, Tick
  <2> QED
    BY <2>1 DEF IInv, SaveInv, Announcing, Tick, tables, events
<1>3. OwnRows' /\ RunFirst' /\ SpacedUnlessOvertaken'
  BY DEF IInv, OwnRows, Announcing, RunFirst, At, SpacedUnlessOvertaken, Tick, tables, events
<1>4. EventsFitResults'
  BY DEF IInv, EventsFitResults, SilentOnlyWithoutAddress, InHand, At, AlertsFollowRuns, Tick,
     tables, events
<1> QED
  BY <1>1, <1>2, <1>3, <1>4 DEF IInv

\* Nothing the invariant tells apart changes in a row.
LEMMA DeleteEndpointStep ==
  ASSUME IInv, DeleteEndpoint
  PROVE  IInv'
<1>1. PICK e \in Endpoints :
         /\ endpoint' = [endpoint EXCEPT ![e] = "deleted"]
         /\ results' = [i \in DOMAIN results |->
                          IF results[i].endpoint = e
                          THEN [results[i] EXCEPT !.endpoint = NULL] ELSE results[i]]
  BY DEF DeleteEndpoint
<1>2. UNCHANGED <<now, offered, req, ran, slowed, faults>>
  BY DEF DeleteEndpoint, events
<1>3. DOMAIN results' = DOMAIN results /\ DOMAIN results = 1..Len(results) /\ Len(results) \in Nat
  BY <1>1, RowTypes DEF IInv
<1>4. \A i \in DOMAIN results :
         /\ results'[i] \in ResultRows
         /\ results'[i].customer = results[i].customer /\ results'[i].at = results[i].at
         /\ results'[i].address = results[i].address /\ results'[i].slow = results[i].slow
         /\ results'[i].seen = results[i].seen
  <2> SUFFICES ASSUME NEW i \in DOMAIN results
               PROVE  /\ results'[i] \in ResultRows
                      /\ results'[i].customer = results[i].customer /\ results'[i].at = results[i].at
                      /\ results'[i].address = results[i].address /\ results'[i].slow = results[i].slow
                      /\ results'[i].seen = results[i].seen
    OBVIOUS
  <2>1. results[i] \in ResultRows
    BY RowTypes DEF IInv
  <2>2. results'[i] = results[i] \/ results'[i] = [results[i] EXCEPT !.endpoint = NULL]
    BY <1>1
  <2> QED
    BY <2>1, <2>2 DEF ResultRows
<1>5. results' \in Seq(ResultRows) /\ Len(results') = Len(results)
  <2>1. results' = [i \in 1..Len(results) |-> results'[i]]
    BY <1>1, <1>3
  <2>2. \A i \in 1..Len(results) : results'[i] \in ResultRows
    BY <1>3, <1>4
  <2> QED
    BY <2>1, <2>2, <1>3
<1>6. TypeOK'
  BY <1>1, <1>2, <1>3, <1>5 DEF IInv, TypeOK, EndpointRows, Instants
<1>7. \A s \in Sessions : SaveInv(req[s])'
  <2> SUFFICES ASSUME NEW s \in Sessions PROVE SaveInv(req[s])'
    OBVIOUS
  <2>1. SaveInv(req[s])
    BY DEF IInv
  <2> QED
    BY <2>1, <1>2, <1>3, <1>4, <1>5 DEF SaveInv, Announcing
<1>8. OwnRows' /\ RunFirst' /\ SpacedUnlessOvertaken'
  <2>1. OwnRows' /\ RunFirst'
    BY <1>2 DEF IInv, OwnRows, Announcing, RunFirst, At
  <2>2. SpacedUnlessOvertaken'
    BY <1>2, <1>3, <1>4 DEF IInv, SpacedUnlessOvertaken
  <2> QED
    BY <2>1, <2>2
<1>9. EventsFitResults'
  <2>1. SilentOnlyWithoutAddress'
    BY <1>2, <1>3, <1>4 DEF IInv, EventsFitResults, SilentOnlyWithoutAddress, InHand, At
  <2>2. AlertsFollowRuns'
    BY <1>2, <1>3, <1>4 DEF IInv, TypeOK, EventsFitResults, AlertsFollowRuns, At
  <2> QED
    BY <2>1, <2>2 DEF EventsFitResults
<1> QED
  BY <1>6, <1>7, <1>8, <1>9 DEF IInv

LEMMA CrashStep ==
  ASSUME IInv, Crash
  PROVE  IInv'
<1>1. faults' \in 0..MaxFaults /\ faults' > 0 /\ \A s \in Sessions : req'[s] = NoSave
  BY SpeedTestAssumption DEF Crash, IInv, TypeOK
<1>2. UNCHANGED <<now, endpoint, results, offered, ran, slowed>>
  BY DEF Crash, tables, events
<1>3. TypeOK'
  BY <1>1, <1>2, NoSaveInv DEF Crash, IInv, TypeOK, Instants
<1>4. \A s \in Sessions : SaveInv(req[s])' /\ ~Announcing(req[s])' /\ ~At(s, "slow")'
  BY <1>1, <1>2, RowTypes DEF IInv, NoSave, SaveInv, Announcing, At
<1>5. OwnRows' /\ RunFirst' /\ SpacedUnlessOvertaken'
  BY <1>2, <1>4 DEF IInv, OwnRows, RunFirst, SpacedUnlessOvertaken
<1>6. EventsFitResults'
  BY <1>1, <1>2, <1>4 DEF IInv, EventsFitResults, SilentOnlyWithoutAddress, AlertsFollowRuns
<1> QED
  BY <1>3, <1>4, <1>5, <1>6 DEF IInv

LEMMA PostStep ==
  ASSUME IInv, NEW s \in Sessions, Post(s)
  PROVE  IInv'
<1>1. PICK c \in Customers, e \in offered, set \in Settings :
         Becomes(s, [pc |-> "rate", customer |-> c, endpoint |-> e,
                     set |-> set, seen |-> 0, id |-> 0])
  BY DEF Post
<1> DEFINE q == [pc |-> "rate", customer |-> c, endpoint |-> e, set |-> set, seen |-> 0, id |-> 0]
<1>2. e \in Endpoints
  BY DEF IInv, TypeOK
<1>3. q \in SaveStates /\ SaveInv(q) /\ ~Announcing(q) /\ q.pc # "slow"
  BY <1>2, RowTypes DEF SaveStates, SaveInv, Announcing, IInv
<1>4. At(s, "idle") /\ UNCHANGED <<now, tables, offered, events, faults>>
  BY DEF Post
<1>5. faults' \in 0..MaxFaults /\ faults' >= faults
  BY <1>4, SpeedTestAssumption DEF IInv, TypeOK
<1> HIDE DEF q
<1>6. Becomes(s, q)
  BY <1>1 DEF q
<1> QED
  BY <1>3, <1>4, <1>5, <1>6, Moves DEF At

\* What it reads is what SpacedUnlessOvertaken needs to know of the row to come.
LEMMA CheckRateStep ==
  ASSUME IInv, NEW s \in Sessions, CheckRate(s)
  PROVE  IInv'
<1>1. At(s, "rate") /\ UNCHANGED <<now, tables, offered, events, faults>>
  BY DEF CheckRate
<1>2. faults' \in 0..MaxFaults /\ faults' >= faults
  BY <1>1, SpeedTestAssumption DEF IInv, TypeOK
<1>3. CASE Recent(req[s].customer)
  BY <1>1, <1>2, <1>3, Leaving DEF CheckRate, At
<1>4. CASE ~Recent(req[s].customer)
  <2> DEFINE q == [req[s] EXCEPT !.pc = "insert", !.seen = Len(results)]
  <2>1. req[s] \in SaveStates /\ SaveInv(req[s]) /\ Len(results) \in Nat
    BY SaveTypes, RowTypes DEF IInv
  <2>2. /\ q \in SaveStates /\ q.pc = "insert" /\ q.customer = req[s].customer
        /\ q.endpoint = req[s].endpoint /\ q.set = req[s].set /\ q.seen = Len(results)
    BY <2>1 DEF SaveStates
  <2>3. \A i \in DOMAIN results :
           ~(results[i].customer = q.customer /\ now - results[i].at < Interval)
    BY <1>4, <2>2 DEF Recent, ResultsOf
  <2>4. Becomes(s, q)
    BY <1>4 DEF CheckRate
  <2> HIDE DEF q
  <2>5. SaveInv(q) /\ ~Announcing(q)
    BY <2>1, <2>2, <2>3, <1>1 DEF SaveInv, Announcing, At
  <2> QED
    BY <1>1, <1>2, <2>2, <2>4, <2>5, Moves DEF At
<1> QED
  BY <1>3, <1>4

\* The two steps that store a row: the save goes on to announce it or is over.
LEMMA Stored ==
  ASSUME IInv, NEW s \in Sessions, At(s, "insert"), Len(results) < MaxResults,
         NEW slow \in BOOLEAN, results' = Append(results, NewRow(req[s], slow)),
         NEW q \in SaveStates, Becomes(s, q),
         UNCHANGED <<now, endpoint, offered, events>>,
         faults' \in 0..MaxFaults, faults' >= faults,
         q # NoSave =>
            /\ q.pc = "run" /\ q.id = Len(results) + 1 /\ q.seen = req[s].seen
            /\ q.customer \in Customers /\ q.endpoint \in Endpoints /\ q.set \in Settings,
         q = NoSave => ~req[s].set.address \/ faults' > 0
  PROVE  IInv'
<1> DEFINE n == Len(results) + 1
           r == NewRow(req[s], slow)
<1>1. /\ Len(results) \in Nat /\ DOMAIN results = 1..Len(results) /\ now \in Nat /\ now \in Instants
      /\ results \in Seq(ResultRows) /\ MaxResults \in Nat /\ Interval \in Nat
      /\ faults \in Nat /\ faults' \in Nat /\ (faults' = 0 => faults = 0)
  BY RowTypes, SpeedTestAssumption DEF IInv, TypeOK
<1>2. /\ req[s].pc = "insert" /\ req[s] \in SaveStates /\ SaveInv(req[s]) /\ req[s].seen \in Nat
      /\ req[s].customer \in Customers /\ req[s].endpoint \in Endpoints /\ req[s].set \in Settings
  BY SaveTypes DEF At, IInv, SaveInv
<1>3. /\ r \in ResultRows /\ r.customer = req[s].customer /\ r.at = now /\ r.slow = slow
      /\ r.address = req[s].set.address /\ r.seen = req[s].seen
  BY <1>1, <1>2 DEF NewRow, ResultRows, Settings
<1> HIDE DEF r
<1>4. /\ results' \in Seq(ResultRows) /\ Len(results') = n /\ DOMAIN results' = 1..n
      /\ results'[n] = r /\ \A i \in 1..Len(results) : results'[i] = results[i]
  BY <1>1, <1>3 DEF r
<1>5. /\ req' \in [Sessions -> SaveStates] /\ req'[s] = q
      /\ \A u \in Sessions \ {s} : req'[u] = req[u]
  BY DEF Becomes, IInv, TypeOK
<1>6. TypeOK'
  <2>1. ran \subseteq DOMAIN results' /\ slowed \subseteq DOMAIN results'
    BY <1>1, <1>4 DEF IInv, TypeOK
  <2>2. Len(results') <= MaxResults
    BY <1>1, <1>4
  <2> QED
    BY <2>1, <2>2, <1>1, <1>4, <1>5 DEF IInv, TypeOK, events, Instants
<1>7. \A u \in Sessions : SaveInv(req[u])'
  <2> SUFFICES ASSUME NEW u \in Sessions PROVE SaveInv(req[u])'
    OBVIOUS
  <2>1. CASE u # s
    <3>1. SaveInv(req[u]) /\ req'[u] = req[u] /\ req[u].seen \in Nat
      BY <2>1, <1>5, SaveTypes DEF IInv
    <3>2. req[u].seen <= Len(results')
      BY <3>1, <1>1, <1>4 DEF SaveInv
    <3>3. req[u].pc = "insert" =>
            \A i \in DOMAIN results' :
              results'[i].customer = req[u].customer /\ now - results'[i].at < Interval
                => req[u].seen < i
      <4> SUFFICES ASSUME req[u].pc = "insert", NEW i \in DOMAIN results',
                          results'[i].customer = req[u].customer, now - results'[i].at < Interval
                   PROVE  req[u].seen < i
        OBVIOUS
      <4>1. CASE i \in DOMAIN results
        BY <4>1, <3>1, <1>1, <1>4 DEF SaveInv
      <4>2. CASE i = n
        BY <4>2, <3>1, <1>1 DEF SaveInv
      <4> QED
        BY <4>1, <4>2, <1>1, <1>4
    <3>4. Announcing(req[u]) =>
            /\ req[u].id \in DOMAIN results' /\ req[u].id \notin slowed
            /\ results'[req[u].id] = results[req[u].id]
      BY <3>1, <1>1, <1>4 DEF SaveInv
    <3> QED
      BY <3>1, <3>2, <3>3, <3>4, <1>1 DEF SaveInv, Announcing, events
  <2>2. CASE u = s /\ q # NoSave
    <3>1. n \in DOMAIN results' /\ n \notin slowed
      BY <1>1, <1>4 DEF IInv, TypeOK
    <3>2. req[s].seen <= Len(results')
      BY <1>1, <1>2, <1>4 DEF SaveInv
    <3> QED
      BY <2>2, <3>1, <3>2, <1>5 DEF SaveInv, Announcing, events
  <2>3. CASE u = s /\ q = NoSave
    BY <2>3, <1>1, <1>4, <1>5 DEF SaveInv, NoSave, Announcing
  <2> QED
    BY <2>1, <2>2, <2>3
<1>8. OwnRows' /\ RunFirst'
  <2>0. \A u \in Sessions : At(u, "slow")' => At(u, "slow") /\ req'[u].id = req[u].id
    BY <1>5 DEF At, NoSave
  <2>1. \A u \in Sessions : Announcing(req[u]) => req[u].id # n
    BY <1>1 DEF IInv, SaveInv
  <2>2. Announcing(q) => q.id = n
    BY NoSaveInv
  <2> HIDE DEF n
  <2>3. \A u, v \in Sessions :
           u # v /\ Announcing(req'[u]) /\ Announcing(req'[v]) => req'[u].id # req'[v].id
    BY <2>1, <2>2, <1>5 DEF IInv, OwnRows
  <2> QED
    BY <2>0, <2>3, <1>1 DEF OwnRows, Announcing, IInv, RunFirst, events
<1>9. SpacedUnlessOvertaken'
  <2> SUFFICES ASSUME NEW i \in DOMAIN results', NEW j \in DOMAIN results', i < j,
                      results'[i].customer = results'[j].customer,
                      results'[j].at - results'[i].at < Interval
               PROVE  results'[j].seen < i
    BY DEF SpacedUnlessOvertaken
  <2>1. CASE j = n
    <3>1. i \in DOMAIN results /\ results'[i] = results[i]
      BY <2>1, <1>1, <1>4
    <3> QED
      BY <3>1, <2>1, <1>2, <1>3, <1>4 DEF SaveInv
  <2>2. CASE j # n
    <3>1. i \in DOMAIN results /\ j \in DOMAIN results
          /\ results'[i] = results[i] /\ results'[j] = results[j]
      BY <2>2, <1>1, <1>4
    <3> QED
      BY <3>1 DEF IInv, SpacedUnlessOvertaken
  <2> QED
    BY <2>1, <2>2
<1>10. SilentOnlyWithoutAddress'
  <2> SUFFICES ASSUME NEW i \in DOMAIN results', i \notin ran, results'[i].address, ~(faults' > 0)
               PROVE  InHand(i)'
    BY DEF SilentOnlyWithoutAddress, events
  <2>1. CASE i = n
    <3>1. q # NoSave
      BY <2>1, <1>3, <1>4
    <3>2. req'[s].pc = "run" /\ req'[s].id = i
      BY <3>1, <2>1, <1>5
    <3> QED
      BY <3>2 DEF InHand, At
  <2>2. CASE i # n
    <3>1. i \in DOMAIN results /\ results[i].address /\ ~(faults > 0)
      BY <2>2, <1>1, <1>4
    <3>2. InHand(i)
      BY <3>1 DEF IInv, EventsFitResults, SilentOnlyWithoutAddress
    <3>3. PICK u \in Sessions : req[u].pc = "run" /\ req[u].id = i
      BY <3>2 DEF InHand, At
    <3>4. req'[u].pc = "run" /\ req'[u].id = i
      BY <3>3, <1>2, <1>5
    <3> QED
      BY <3>4 DEF InHand, At
  <2> QED
    BY <2>1, <2>2
<1>11. AlertsFollowRuns'
  <2>1. \A i \in slowed : results'[i].slow
    BY <1>1, <1>4 DEF IInv, TypeOK, EventsFitResults, AlertsFollowRuns
  <2>2. faults' = 0 => slowed \subseteq ran
    BY <1>1 DEF IInv, EventsFitResults, AlertsFollowRuns
  <2>3. \A u \in Sessions : At(u, "slow")' => req'[u].set.alerts /\ req'[u].id \notin slowed
    BY <1>7 DEF SaveInv, Announcing, At, events
  <2> QED
    BY <2>1, <2>2, <2>3 DEF AlertsFollowRuns, events
<1> QED
  BY <1>6, <1>7, <1>8, <1>9, <1>10, <1>11 DEF IInv, EventsFitResults

LEMMA InsertStep ==
  ASSUME IInv, NEW s \in Sessions, Insert(s)
  PROVE  IInv'
<1>1. PICK slow \in BOOLEAN : results' = Append(results, NewRow(req[s], slow))
  BY DEF Insert
<1>2. /\ At(s, "insert") /\ Len(results) < MaxResults
      /\ UNCHANGED <<now, endpoint, offered, events, faults>>
  BY DEF Insert
<1>3. faults' \in 0..MaxFaults /\ faults' >= faults
  BY <1>2, SpeedTestAssumption DEF IInv, TypeOK
<1>4. CASE req[s].set.address
  <2> DEFINE q == [req[s] EXCEPT !.pc = "run", !.id = Len(results) + 1]
  <2>1. req[s] \in SaveStates /\ SaveInv(req[s]) /\ Len(results) + 1 \in Nat
    BY SaveTypes, RowTypes DEF IInv
  <2>2. /\ q \in SaveStates /\ q.pc = "run" /\ q.id = Len(results) + 1 /\ q.seen = req[s].seen
        /\ q.customer = req[s].customer /\ q.endpoint = req[s].endpoint /\ q.set = req[s].set
    BY <2>1 DEF SaveStates
  <2>3. q.customer \in Customers /\ q.endpoint \in Endpoints /\ q.set \in Settings
    BY <2>1, <2>2, <1>2 DEF SaveInv, At
  <2>4. Becomes(s, q)
    BY <1>4 DEF Insert
  <2> HIDE DEF q
  <2>5. q # NoSave
    BY <2>2 DEF NoSave
  <2> QED
    BY ONLY IInv, <1>1, <1>2, <1>3, <2>2, <2>3, <2>4, <2>5, Stored
<1>5. CASE ~req[s].set.address
  <2>1. Becomes(s, NoSave)
    BY <1>5 DEF Insert, Leave
  <2> QED
    BY <2>1, <1>1, <1>2, <1>3, <1>5, NoSaveInv, Stored
<1> QED
  BY <1>4, <1>5

LEMMA AnswerLostStep ==
  ASSUME IInv, NEW s \in Sessions, AnswerLost(s)
  PROVE  IInv'
<1>1. PICK slow \in BOOLEAN : results' = Append(results, NewRow(req[s], slow))
  BY DEF AnswerLost
<1>2. /\ At(s, "insert") /\ Len(results) < MaxResults /\ Becomes(s, NoSave)
      /\ UNCHANGED <<now, endpoint, offered, events>>
  BY DEF AnswerLost, Leave
<1>3. faults' \in 0..MaxFaults /\ faults' >= faults /\ faults' > 0
  BY SpeedTestAssumption DEF IInv, TypeOK, AnswerLost
<1> QED
  BY <1>1, <1>2, <1>3, NoSaveInv, Stored

LEMMA RefuseStep ==
  ASSUME IInv, NEW s \in Sessions, InsertRefused(s) \/ Refuse(s)
  PROVE  IInv'
<1>1. Leave(s) /\ UNCHANGED <<now, tables, offered, events, faults>> /\ ~At(s, "run")
  BY DEF InsertRefused, Refuse, At
<1>2. faults' \in 0..MaxFaults /\ faults' >= faults
  BY <1>1, SpeedTestAssumption DEF IInv, TypeOK
<1> QED
  BY <1>1, <1>2, Leaving

\* After the run event a save leaves or turns to the slow event of the same row.
LEMMA NextEvent ==
  ASSUME IInv, NEW s \in Sessions, At(s, "run"),
         IF SlowAlert(s) THEN Goto(s, "slow") ELSE Leave(s)
  PROVE  \E q \in SaveStates :
           /\ Becomes(s, q) /\ q.pc # "run" /\ q.pc # "insert" /\ q.seen <= Len(results)
           /\ q.pc # "idle" =>
                /\ q.pc = "slow" /\ q.id = req[s].id /\ q.set.alerts /\ results[q.id].slow
                /\ q.customer \in Customers /\ q.endpoint \in Endpoints /\ q.set \in Settings
<1>1. CASE SlowAlert(s)
  <2> DEFINE q == [req[s] EXCEPT !.pc = "slow"]
  <2>1. req[s] \in SaveStates /\ SaveInv(req[s])
    BY SaveTypes DEF IInv
  <2>2. /\ q \in SaveStates /\ q.pc = "slow" /\ q.id = req[s].id /\ q.seen = req[s].seen
        /\ q.customer = req[s].customer /\ q.endpoint = req[s].endpoint /\ q.set = req[s].set
    BY <2>1 DEF SaveStates
  <2>3. Becomes(s, q)
    BY <1>1 DEF Goto
  <2> HIDE DEF q
  <2>4. /\ q.set.alerts /\ results[q.id].slow /\ q.seen <= Len(results)
        /\ q.customer \in Customers /\ q.endpoint \in Endpoints /\ q.set \in Settings
    BY <1>1, <2>1, <2>2 DEF SlowAlert, SaveInv, At
  <2> QED
    BY <2>2, <2>3, <2>4
<1>2. CASE ~SlowAlert(s)
  BY <1>2, NoSaveInv DEF Leave, IInv, NoSave, SaveInv
<1> QED
  BY <1>1, <1>2

\* The two steps that publish: a set of events gains the row of save s, which
\* goes on to q.
LEMMA Published ==
  ASSUME IInv, NEW s \in Sessions, NEW q \in SaveStates, Becomes(s, q),
         UNCHANGED <<now, tables, offered, faults>>, Announcing(req[s]),
         ran' = ran \/ ran' = ran \cup {req[s].id},
         slowed' = slowed \/ slowed' = slowed \cup {req[s].id},
         At(s, "run") => ran' = ran \cup {req[s].id},
         slowed' # slowed => At(s, "slow"),
         Announcing(q) => q.id = req[s].id /\ slowed' = slowed,
         q.pc # "run" /\ q.pc # "insert", q.seen <= Len(results),
         q.pc # "idle" =>
            /\ q.pc = "slow" /\ q.set.alerts /\ results[q.id].slow
            /\ q.customer \in Customers /\ q.endpoint \in Endpoints /\ q.set \in Settings,
         q.pc = "slow" => req[s].id \in ran'
  PROVE  IInv'
<1>1. /\ req' \in [Sessions -> SaveStates] /\ req'[s] = q
      /\ \A u \in Sessions \ {s} : req'[u] = req[u]
  BY DEF Becomes, IInv, TypeOK
<1>2. /\ SaveInv(req[s]) /\ req[s].id \in DOMAIN results /\ req[s].id \notin slowed
      /\ (At(s, "slow") => results[req[s].id].slow /\ (faults = 0 => req[s].id \in ran))
  BY DEF IInv, SaveInv, At, RunFirst
<1>3. TypeOK'
  BY <1>1, <1>2 DEF IInv, TypeOK, tables, Instants
<1>4. \A u \in Sessions : SaveInv(req[u])'
  <2> SUFFICES ASSUME NEW u \in Sessions PROVE SaveInv(req[u])'
    OBVIOUS
  <2>1. CASE u # s
    <3>1. SaveInv(req[u]) /\ req'[u] = req[u]
      BY <2>1, <1>1 DEF IInv
    <3>2. Announcing(req[u]) => req[u].id # req[s].id
      BY <2>1 DEF IInv, OwnRows
    <3> QED
      BY <3>1, <3>2 DEF SaveInv, Announcing, tables
  <2>2. CASE u = s
    BY <2>2, <1>1, <1>2 DEF SaveInv, Announcing, tables
  <2> QED
    BY <2>1, <2>2
<1>5. OwnRows' /\ RunFirst'
  <2>1. \A u, v \in Sessions :
           u # v /\ Announcing(req'[u]) /\ Announcing(req'[v]) => req'[u].id # req'[v].id
    BY <1>1 DEF IInv, OwnRows
  <2>2. \A u \in Sessions : At(u, "slow")' /\ faults' = 0 => req'[u].id \in ran'
    BY <1>1 DEF IInv, RunFirst, At, Announcing
  <2> QED
    BY <2>1, <2>2 DEF OwnRows, Announcing, RunFirst
<1>6. SpacedUnlessOvertaken'
  BY DEF IInv, SpacedUnlessOvertaken, tables
<1>7. SilentOnlyWithoutAddress'
  <2> SUFFICES ASSUME NEW i \in DOMAIN results, i \notin ran', results[i].address, ~(faults > 0)
               PROVE  InHand(i)'
    BY DEF SilentOnlyWithoutAddress, tables
  <2>1. InHand(i)
    BY DEF IInv, EventsFitResults, SilentOnlyWithoutAddress
  <2>2. PICK u \in Sessions : req[u].pc = "run" /\ req[u].id = i
    BY <2>1 DEF InHand, At
  <2>3. u # s
    BY <2>2 DEF At
  <2>4. req'[u].pc = "run" /\ req'[u].id = i
    BY <2>2, <2>3, <1>1
  <2> QED
    BY <2>4 DEF InHand, At
<1>8. AlertsFollowRuns'
  <2>1. (faults' = 0 => slowed' \subseteq ran') /\ \A i \in slowed' : results'[i].slow
    BY <1>2 DEF IInv, EventsFitResults, AlertsFollowRuns, tables
  <2>2. \A u \in Sessions : At(u, "slow")' => req'[u].set.alerts /\ req'[u].id \notin slowed'
    BY <1>4 DEF SaveInv, Announcing, At
  <2> QED
    BY <2>1, <2>2 DEF AlertsFollowRuns
<1> QED
  BY <1>3, <1>4, <1>5, <1>6, <1>7, <1>8 DEF IInv, EventsFitResults

LEMMA PublishRunStep ==
  ASSUME IInv, NEW s \in Sessions, PublishRun(s)
  PROVE  IInv'
<1>1. /\ At(s, "run") /\ ran' = ran \cup {req[s].id}
      /\ UNCHANGED <<now, tables, offered, slowed, faults>>
  BY DEF PublishRun
<1>2. PICK q \in SaveStates :
         /\ Becomes(s, q) /\ q.pc # "run" /\ q.pc # "insert" /\ q.seen <= Len(results)
         /\ q.pc # "idle" =>
              /\ q.pc = "slow" /\ q.id = req[s].id /\ q.set.alerts /\ results[q.id].slow
              /\ q.customer \in Customers /\ q.endpoint \in Endpoints /\ q.set \in Settings
  BY <1>1, NextEvent DEF PublishRun
<1> QED
  BY <1>1, <1>2, Published DEF Announcing, At

LEMMA PublishSlowStep ==
  ASSUME IInv, NEW s \in Sessions, PublishSlow(s)
  PROVE  IInv'
<1>1. /\ At(s, "slow") /\ slowed' = slowed \cup {req[s].id} /\ Becomes(s, NoSave)
      /\ UNCHANGED <<now, tables, offered, ran, faults>>
  BY DEF PublishSlow, Leave
<1>2. NoSave \in SaveStates /\ NoSave.seen <= Len(results) /\ NoSave.pc = "idle"
  BY NoSaveInv, RowTypes DEF IInv, NoSave
<1>3. ~Announcing(NoSave) /\ Announcing(req[s])
  BY <1>1, NoSaveInv DEF Announcing, At
<1> QED
  BY <1>1, <1>2, <1>3, Published DEF At

LEMMA EventLostStep ==
  ASSUME IInv, NEW s \in Sessions, EventLost(s)
  PROVE  IInv'
<1>1. faults' \in 0..MaxFaults /\ faults' >= faults /\ faults' > 0
  BY SpeedTestAssumption DEF IInv, TypeOK, EventLost
<1>2. UNCHANGED <<now, tables, offered, events>>
  BY DEF EventLost
<1>3. CASE At(s, "slow") /\ Leave(s)
  BY <1>1, <1>2, <1>3, Leaving
<1>4. CASE At(s, "run") /\ IF SlowAlert(s) THEN Goto(s, "slow") ELSE Leave(s)
  <2>1. PICK q \in SaveStates :
         /\ Becomes(s, q) /\ q.pc # "run" /\ q.pc # "insert" /\ q.seen <= Len(results)
         /\ q.pc # "idle" =>
              /\ q.pc = "slow" /\ q.id = req[s].id /\ q.set.alerts /\ results[q.id].slow
              /\ q.customer \in Customers /\ q.endpoint \in Endpoints /\ q.set \in Settings
    BY <1>4, NextEvent
  <2>2. SaveInv(req[s]) /\ Announcing(req[s])
    BY <1>4 DEF IInv, Announcing, At
  <2>3. Announcing(q) => q.pc # "idle" /\ q.id = req[s].id
    BY <2>1 DEF Announcing
  <2>4. SaveInv(q) /\ (Announcing(q) => q.id = req[s].id)
    BY <2>1, <2>2, <2>3 DEF SaveInv, Announcing
  <2> QED
    BY <1>1, <1>2, <2>1, <2>2, <2>4, Moves
<1> QED
  BY <1>3, <1>4 DEF EventLost

-----------------------------------------------------------------------------
(* Results                                                                 *)

LEMMA NextIInv == IInv /\ [Next]_vars => IInv'
<1> SUFFICES ASSUME IInv, [Next]_vars PROVE IInv'
  OBVIOUS
<1>1. CASE WriteEndpoint
  BY <1>1, WriteEndpointStep
<1>2. CASE DeleteEndpoint
  BY <1>2, DeleteEndpointStep
<1>3. CASE Load
  BY <1>3, LoadStep
<1>4. CASE Crash
  BY <1>4, CrashStep
<1>5. CASE Tick
  BY <1>5, TickStep
<1>6. ASSUME NEW s \in Sessions, Save(s) PROVE IInv'
  <2>1. CASE Post(s)
    BY <2>1, PostStep
  <2>2. CASE CheckRate(s)
    BY <2>2, CheckRateStep
  <2>3. CASE Insert(s)
    BY <2>3, InsertStep
  <2>4. CASE InsertRefused(s) \/ Refuse(s)
    BY <2>4, RefuseStep
  <2>5. CASE PublishRun(s)
    BY <2>5, PublishRunStep
  <2>6. CASE PublishSlow(s)
    BY <2>6, PublishSlowStep
  <2> QED
    BY <1>6, <2>1, <2>2, <2>3, <2>4, <2>5, <2>6 DEF Save
<1>7. ASSUME NEW s \in Sessions, AnswerLost(s) PROVE IInv'
  BY <1>7, AnswerLostStep
<1>8. ASSUME NEW s \in Sessions, EventLost(s) PROVE IInv'
  BY <1>8, EventLostStep
<1>9. CASE UNCHANGED vars
  <2>1. endpoint' \in [Endpoints -> EndpointRows] /\ offered' \subseteq Endpoints
    BY <1>9 DEF vars, tables, IInv, TypeOK
  <2> QED
    BY <2>1, <1>9, PageSteps DEF vars, tables
<1> QED
  BY <1>1, <1>2, <1>3, <1>4, <1>5, <1>6, <1>7, <1>8, <1>9 DEF Next

\* Invariance: the inductive invariant holds in every state.
THEOREM Invariance == Spec => []IInv
<1>1. Init => IInv
  BY InitIInv
<1>2. IInv /\ [Next]_vars => IInv'
  BY NextIInv
<1> QED
  BY <1>1, <1>2, PTL DEF Spec

\* TypeCorrect: rows, saves and events keep their types; no event names a result
\* that is not stored.
THEOREM TypeCorrect == Spec => []TypeOK
<1>1. IInv => TypeOK
  BY DEF IInv
<1> QED
  BY <1>1, Invariance, PTL

\* SpacedCorrect: the rate limit holds between any two results of a customer,
\* unless both were past its check before the first of them was stored.
THEOREM SpacedCorrect == Spec => []SpacedUnlessOvertaken
<1>1. IInv => SpacedUnlessOvertaken
  BY DEF IInv
<1> QED
  BY <1>1, Invariance, PTL

\* EventsCorrect: no stored result is silent but for want of its address or by a
\* fault, and an alert follows its run event, for a slow result.
THEOREM EventsCorrect == Spec => []EventsFitResults
<1>1. IInv => EventsFitResults
  BY DEF IInv
<1> QED
  BY <1>1, Invariance, PTL
=============================================================================
