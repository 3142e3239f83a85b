------------------------------ MODULE GeoIPProofs ------------------------------
(***************************************************************************)
(* Theorems about GeoIP, for any sources, downloads at a time and files.   *)
(*                                                                         *)
(* As long as a source's downloads have not overlapped, the file of its    *)
(* temporary name is the business of one download, and neither its         *)
(* database nor a reader refers to it: so no download in progress touches  *)
(* what is served.  Sources never share a file, overlapped or not.         *)
(***************************************************************************)
EXTENDS GeoIP, TLAPS

Writing == {"write", "write again"}
Written == {"validate", "validate again", "rename", "rename again"}

\* What a download is at, beside its types.
JobOK(q) ==
    /\ q.pc = "idle" => q = NoJob
    /\ q.pc # "idle" => q.src \in Sources
    /\ q.file # NULL <=> q.pc \in Writing \cup Written
    /\ q.gen = "building" => configuring /\ q.src \notin unread
    /\ q.pc = "open" => dest[q.src] # NULL

JobsInv == \A j \in Jobs : JobOK(job[j])

Uses(s, f) ==
    \/ f = dest[s] \/ f = tmp[s]
    \/ \E g \in Gens : f = reader[g][s]
    \/ \E j \in Jobs : job[j].src = s /\ job[j].file = f

Apart == \A s, t \in Sources : \A f \in Files : Uses(s, f) /\ Uses(t, f) => s = t

Served(s, f) == f = dest[s] \/ \E g \in Gens : f = reader[g][s]

Clean(s) ==
    /\ \A f \in Files : Served(s, f) => f # tmp[s] /\ content[f] = "whole"
    /\ \A j \in Jobs : job[j].src = s /\ job[j].file # NULL =>
         /\ job[j].file = tmp[s]
         /\ job[j].pc \in Writing => owner[tmp[s]] = j
         /\ job[j].pc \in Written => content[tmp[s]] = "whole"
         /\ \A k \in Jobs : job[k].src = s /\ job[k].file # NULL => k = j

CleanInv == \A s \in Sources \ overlapped : Clean(s)

\* A reader is open only where there is a database, and the chain being built
\* has found the one there was.
FoundInv ==
    \A s \in Sources :
        /\ \A g \in Gens : reader[g][s] # NULL => dest[s] # NULL
        /\ s \in chain["building"] \ unread /\ dest[s] # NULL
             => reader["building"][s] # NULL \/ s \in overlapped \cup late

\* Download j is about to give chain g the database of s.
Gives(j, g, s) ==
    At(j, "open") /\ job[j].src = s /\ job[j].kind = "background" /\ job[j].gen = g

FreshInv ==
    \A s \in Sources :
        /\ installer[s] = "building" => configuring /\ s \notin unread
        /\ \A g \in Gens :
             s \in chain[g] /\ installer[s] = g /\ s \notin overlapped =>
               reader[g][s] = dest[s] \/ \E j \in Jobs : Gives(j, g, s)

IInv == TypeOK /\ JobsInv /\ Apart /\ CleanInv /\ FoundInv /\ FreshInv

-----------------------------------------------------------------------------
(* Downloads                                                               *)

LEMMA NoJobOK == NoJob \in JobStates /\ JobOK(NoJob) /\ NoJob.file = NULL /\ NoJob.pc = "idle"
BY GeoIPAssumption DEF NoJob, JobStates, Steps, JobOK, Writing, Written

LEMMA Marks ==
  ASSUME TypeOK, NEW s \in Sources, NEW to \in {"ok", "error"}, MarkStatus(s, to)
  PROVE  status' \in [Sources -> {"unmarked", "ok", "error"}] /\ faults' \in 0..MaxFaults
<1>1. status \in [Sources -> {"unmarked", "ok", "error"}] /\ faults \in 0..MaxFaults
  BY DEF TypeOK
<1>2. status' = status \/ status' = [status EXCEPT ![s] = to]
  BY DEF MarkStatus, Exists
<1>3. faults' = faults \/ (faults < MaxFaults /\ faults' = faults + 1)
  BY Zenon DEF MarkStatus
<1>4. status' \in [Sources -> {"unmarked", "ok", "error"}]
  BY <1>1, <1>2
<1> QED
  BY <1>1, <1>3, <1>4, GeoIPAssumption

\* One download moves to q.
LEMMA Moves ==
  ASSUME TypeOK, NEW j \in Jobs, NEW q \in JobStates, Becomes(j, q)
  PROVE  /\ job' \in [Jobs -> JobStates]
         /\ job'[j] = q /\ \A k \in Jobs \ {j} : job'[k] = job[k]
BY DEF TypeOK, Becomes

\* Where a try that fails leaves it.
LEMMA Failing ==
  ASSUME IInv, NEW j \in Jobs, TryFails(j), job[j].pc # "idle"
  PROVE  \E q \in JobStates : /\ Becomes(j, q) /\ q.file = NULL /\ q.src = job[j].src
                              /\ q.gen = job[j].gen /\ q.pc \in {"retry", "error"}
<1> DEFINE q == [job[j] EXCEPT !.pc = Then(@, "retry", "error"), !.file = NULL]
<1>1. job[j] \in JobStates
  BY DEF IInv, TypeOK
<1>2. q \in JobStates /\ q.file = NULL /\ q.src = job[j].src /\ q.gen = job[j].gen
      /\ q.pc \in {"retry", "error"}
  BY <1>1 DEF JobStates, Steps, Then
<1> QED
  BY <1>2 DEF TryFails

\* Steps that use no file that was not used by the same source.
LEMMA ApartKept ==
  ASSUME IInv, \A s \in Sources : \A f \in Files : Uses(s, f)' => Uses(s, f)
  PROVE  Apart'
BY DEF IInv, Apart

-----------------------------------------------------------------------------
(* The steps                                                               *)

LEMMA InitIInv == Init => IInv
<1> SUFFICES ASSUME Init PROVE IInv
  OBVIOUS
<1>1. TypeOK
  <2>1. Nothing \in [Sources -> Files \cup {NULL}]
    BY DEF Nothing
  <2>2. reader \in [Gens -> [Sources -> Files \cup {NULL}]] /\ chain \in [Gens -> SUBSET Sources]
    BY <2>1 DEF Init
  <2>3. job \in [Jobs -> JobStates] /\ faults \in 0..MaxFaults
    BY NoJobOK, GeoIPAssumption DEF Init
  <2> QED
    BY <2>1, <2>2, <2>3 DEF Init, TypeOK
<1>2. \A j \in Jobs : job[j] = NoJob
  BY DEF Init
<1>3. \A s \in Sources : \A f \in Files : ~Uses(s, f) /\ ~Served(s, f)
  BY <1>2, NoJobOK, GeoIPAssumption DEF Init, Uses, Served, Nothing
<1>4. JobsInv /\ Apart /\ CleanInv
  BY <1>2, <1>3, NoJobOK DEF JobsInv, Apart, CleanInv, Clean
<1>5. FoundInv /\ FreshInv
  BY DEF Init, FoundInv, FreshInv, Gens, Nothing
<1> QED
  BY <1>1, <1>4, <1>5 DEF IInv

\* The steps that leave chains, files and downloads alone.
LEMMA OtherSteps ==
  ASSUME IInv, UNCHANGED <<chains, disk, job, history>>,
         row' \in [Sources -> {"unborn", "active", "inactive", "deleted"}],
         status' \in [Sources -> {"unmarked", "ok", "error"}],
         marks' \subseteq Sources \X {"ok", "error"}, faults' \in 0..MaxFaults
  PROVE  IInv'
<1>1. TypeOK'
  BY DEF IInv, TypeOK, chains, disk, history
<1>2. JobsInv' /\ Apart'
  <2>1. JobsInv'
    BY DEF IInv, JobsInv, JobOK, chains, disk
  <2>2. \A s \in Sources : \A f \in Files : Uses(s, f)' => Uses(s, f)
    BY DEF Uses, chains, disk
  <2> QED
    BY <2>1, <2>2, ApartKept
<1>3. CleanInv'
  <2> SUFFICES ASSUME NEW s \in Sources \ overlapped PROVE Clean(s)'
    BY DEF CleanInv, history
  <2>1. Clean(s) /\ UNCHANGED <<dest, tmp, reader, content, owner, job>>
    BY DEF IInv, CleanInv, disk, chains
  <2> QED
    BY <2>1 DEF Clean, Served
<1>4. FoundInv' /\ FreshInv'
  <2>1. FoundInv'
    BY DEF IInv, FoundInv, chains, disk, history
  <2>2. FreshInv'
    BY DEF IInv, FreshInv, Gives, At, chains, disk, history
  <2> QED
    BY <2>1, <2>2
<1> QED
  BY <1>1, <1>2, <1>3, <1>4 DEF IInv

LEMMA RowSteps ==
  ASSUME IInv, WriteRow \/ Mark \/ \E s \in Sources : Consult(s)
  PROVE  IInv'
<1>1. CASE WriteRow
  <2>1. row' \in [Sources -> {"unborn", "active", "inactive", "deleted"}]
    BY <1>1 DEF WriteRow, IInv, TypeOK
  <2>2. UNCHANGED <<status, chains, disk, job, marks, history, faults>>
    BY <1>1 DEF WriteRow
  <2> QED
    BY <2>1, <2>2, OtherSteps DEF IInv, TypeOK
<1>2. CASE Mark
  <2>1. PICK m \in marks : MarkStatus(m[1], m[2]) /\ marks' = marks \ {m}
    BY <1>2 DEF Mark
  <2>2. m[1] \in Sources /\ m[2] \in {"ok", "error"}
    BY DEF IInv, TypeOK
  <2> QED
    BY <1>2, <2>1, <2>2, Marks, OtherSteps DEF Mark, IInv, TypeOK
<1>3. ASSUME NEW s \in Sources, Consult(s) PROVE IInv'
  <2>1. PICK outcome \in {"ok", "error"} : marks' = marks \cup {<<s, outcome>>}
    BY <1>3 DEF Consult
  <2>2. UNCHANGED <<rows, chains, disk, job, history, faults>>
    BY <1>3 DEF Consult
  <2>3. marks' \subseteq Sources \X {"ok", "error"}
    BY <2>1 DEF IInv, TypeOK
  <2> QED
    BY <2>2, <2>3, OtherSteps DEF rows, IInv, TypeOK
<1> QED
  BY <1>1, <1>2, <1>3

\* The steps of a download that has no file, before and after, and opens none.
LEMMA Quiet ==
  ASSUME IInv, NEW j \in Jobs, NEW q \in JobStates, Becomes(j, q), JobOK(q),
         q.file = NULL, job[j].file = NULL, ~At(j, "open"),
         UNCHANGED <<row, chains, disk, marks, history>>,
         status' \in [Sources -> {"unmarked", "ok", "error"}], faults' \in 0..MaxFaults
  PROVE  IInv'
<1>1. /\ job' \in [Jobs -> JobStates]
      /\ job'[j] = q /\ \A k \in Jobs \ {j} : job'[k] = job[k]
  BY Moves DEF IInv
<1>2. TypeOK'
  BY <1>1 DEF IInv, TypeOK, chains, disk, history
<1>3. JobsInv'
  <2>1. \A k \in Jobs : JobOK(job'[k])
    BY <1>1 DEF IInv, JobsInv
  <2> QED
    BY <2>1 DEF JobsInv, JobOK, chains, disk
<1>4. Apart'
  <2>1. \A s \in Sources : \A f \in Files : Uses(s, f)' => Uses(s, f)
    BY <1>1, GeoIPAssumption DEF Uses, chains, disk
  <2> QED
    BY <2>1, ApartKept
<1>5. CleanInv'
  <2> SUFFICES ASSUME NEW s \in Sources \ overlapped PROVE Clean(s)'
    BY DEF CleanInv, history
  <2>1. Clean(s) /\ UNCHANGED <<dest, tmp, reader, content, owner>>
    BY DEF IInv, CleanInv, disk, chains
  <2>2. \A k \in Jobs : job'[k].file # NULL => job'[k] = job[k]
    BY <1>1
  <2> QED
    BY <2>1, <2>2 DEF Clean, Served
<1>6. FoundInv'
  BY DEF IInv, FoundInv, chains, disk, history
<1>7. FreshInv'
  <2>1. \A k \in Jobs, g \in Gens, s \in Sources : Gives(k, g, s) => Gives(k, g, s)'
    BY <1>1 DEF Gives, At
  <2> QED
    BY <2>1 DEF IInv, FreshInv, chains, disk, history
<1> QED
  BY <1>2, <1>3, <1>4, <1>5, <1>6, <1>7 DEF IInv

LEMMA RefreshStep ==
  ASSUME IInv, NEW j \in Jobs, Refresh(j)
  PROVE  IInv'
<1>1. PICK s \in Sources :
         Becomes(j, [pc |-> "get", kind |-> "refresh", src |-> s,
                     gen |-> "mounted", file |-> NULL])
  BY DEF Refresh
<1> DEFINE q == [pc |-> "get", kind |-> "refresh", src |-> s, gen |-> "mounted", file |-> NULL]
<1>2. q \in JobStates /\ JobOK(q) /\ q.file = NULL
  BY GeoIPAssumption DEF JobStates, Steps, Gens, JobOK, Writing, Written
<1>3. /\ UNCHANGED <<rows, chains, disk, marks, history, faults>>
      /\ job[j].file = NULL /\ ~At(j, "open")
  BY NoJobOK DEF Refresh, At, IInv, JobsInv, JobOK
<1> HIDE DEF q
<1>4. Becomes(j, q)
  BY <1>1 DEF q
<1>5. status' \in [Sources -> {"unmarked", "ok", "error"}] /\ faults' \in 0..MaxFaults
  BY <1>3 DEF IInv, TypeOK, rows
<1> QED
  BY <1>2, <1>3, <1>4, <1>5, Quiet DEF rows

LEMMA GetFailsStep ==
  ASSUME IInv, NEW j \in Jobs, GetFails(j)
  PROVE  IInv'
<1>1. /\ UNCHANGED <<rows, chains, disk, marks, history, faults>>
      /\ job[j].pc \in {"get", "retry"} /\ JobOK(job[j])
  BY DEF GetFails, IInv, JobsInv
<1>2. PICK q \in JobStates : /\ Becomes(j, q) /\ q.file = NULL /\ q.src = job[j].src
                             /\ q.gen = job[j].gen /\ q.pc \in {"retry", "error"}
  BY <1>1, Failing DEF GetFails
<1>3. JobOK(q) /\ job[j].file = NULL /\ ~At(j, "open")
  BY <1>1, <1>2 DEF JobOK, Writing, Written, At
<1>4. status' \in [Sources -> {"unmarked", "ok", "error"}] /\ faults' \in 0..MaxFaults
  BY <1>1 DEF IInv, TypeOK, rows
<1> QED
  BY <1>1, <1>2, <1>3, <1>4, Quiet DEF rows

LEMMA FinishStep ==
  ASSUME IInv, NEW j \in Jobs, Finish(j)
  PROVE  IInv'
<1>1. /\ job[j].pc \in {"ok", "error"} /\ JobOK(job[j]) /\ Becomes(j, NoJob)
      /\ UNCHANGED <<row, chains, disk, marks, history>>
  BY DEF Finish, IInv, JobsInv
<1>2. job[j].src \in Sources /\ job[j].file = NULL /\ ~At(j, "open")
  BY <1>1 DEF JobOK, Writing, Written, At
<1>3. status' \in [Sources -> {"unmarked", "ok", "error"}] /\ faults' \in 0..MaxFaults
  <2>1. CASE job[j].gen = "gone"
    BY <2>1 DEF Finish, IInv, TypeOK
  <2>2. CASE job[j].gen # "gone"
    BY <2>2, <1>1, <1>2, Marks DEF Finish, IInv
  <2> QED
    BY <2>1, <2>2
<1> QED
  BY <1>1, <1>2, <1>3, NoJobOK, Quiet

LEMMA SelectStep ==
  ASSUME IInv, Select
  PROVE  IInv'
<1>1. /\ ~configuring /\ configuring' = TRUE /\ late' = {}
      /\ reader' = [reader EXCEPT !["building"] = Nothing]
      /\ UNCHANGED <<row, status, up, dest, tmp, content, owner, job, marks, installer, overlapped>>
  BY DEF Select, rows, disk
<1>2. \E S \in SUBSET Sources : chain' = [chain EXCEPT !["building"] = S] /\ unread' = S
  BY DEF Select
<1>3. faults' \in 0..MaxFaults
  <2>1. faults \in 0..MaxFaults
    BY DEF IInv, TypeOK
  <2>2. faults' = faults \/ (faults < MaxFaults /\ faults' = faults + 1)
    BY Zenon DEF Select
  <2> QED
    BY <2>1, <2>2, GeoIPAssumption
<1>4. /\ reader' \in [Gens -> [Sources -> Files \cup {NULL}]]
      /\ reader'["mounted"] = reader["mounted"]
      /\ \A s \in Sources : reader'["building"][s] = NULL
  BY <1>1 DEF IInv, TypeOK, Nothing, Gens
<1>5. /\ chain' \in [Gens -> SUBSET Sources] /\ chain'["mounted"] = chain["mounted"]
      /\ chain'["building"] = unread' /\ unread' \subseteq Sources
  BY <1>2 DEF IInv, TypeOK, Gens
<1>6. /\ \A j \in Jobs : job[j].gen # "building" /\ JobOK(job[j])
      /\ \A s \in Sources : installer[s] # "building"
  BY <1>1 DEF IInv, JobsInv, JobOK, FreshInv
<1>7. TypeOK'
  BY <1>1, <1>3, <1>4, <1>5 DEF IInv, TypeOK
<1>8. JobsInv'
  BY <1>1, <1>6 DEF JobsInv, JobOK
<1>9. \A s \in Sources : \A f \in Files :
         (Uses(s, f)' => Uses(s, f)) /\ (Served(s, f)' => Served(s, f))
  BY <1>1, <1>4, GeoIPAssumption DEF Uses, Served, Gens
<1>10. Apart'
  BY <1>9, ApartKept
<1>11. CleanInv'
  <2> SUFFICES ASSUME NEW s \in Sources \ overlapped PROVE Clean(s)'
    BY <1>1 DEF CleanInv
  <2>1. Clean(s)
    BY DEF IInv, CleanInv
  <2> QED
    BY <2>1, <1>1, <1>9 DEF Clean
<1>12. FoundInv'
  BY <1>1, <1>4, <1>5 DEF IInv, FoundInv, Gens
<1>13. FreshInv'
  <2> SUFFICES ASSUME NEW s \in Sources, NEW g \in Gens, s \in chain'[g], installer'[s] = g,
                      s \notin overlapped'
               PROVE  reader'[g][s] = dest'[s] \/ \E j \in Jobs : Gives(j, g, s)'
    BY <1>1, <1>6 DEF FreshInv
  <2>1. g = "mounted" /\ reader'[g][s] = reader[g][s] /\ s \in chain[g]
    BY <1>1, <1>4, <1>5, <1>6 DEF Gens
  <2>2. reader[g][s] = dest[s] \/ \E j \in Jobs : Gives(j, g, s)
    BY <2>1, <1>1 DEF IInv, FreshInv
  <2> QED
    BY <2>1, <2>2, <1>1 DEF Gives, At
<1> QED
  BY <1>7, <1>8, <1>10, <1>11, <1>12, <1>13 DEF IInv

\* LoadCached finds the database there is, and starts the download.
LEMMA BuildStep ==
  ASSUME IInv, NEW s \in Sources, Build(s)
  PROVE  IInv'
<1>1. /\ configuring /\ s \in unread /\ unread' = unread \ {s}
      /\ UNCHANGED <<row, status, chain, configuring, up, dest, tmp, content, owner,
                     marks, installer, overlapped, late, faults>>
  BY DEF Build, rows, disk, history
<1>2. PICK f \in Files \cup {NULL} :
         Opened(s, f) /\ reader' = [reader EXCEPT !["building"][s] = f]
  BY DEF Build
<1>3. PICK j \in Jobs :
         /\ At(j, "idle")
         /\ Becomes(j, [pc |-> "get", kind |-> "background", src |-> s,
                        gen |-> "building", file |-> NULL])
  BY DEF Build
<1> DEFINE q == [pc |-> "get", kind |-> "background", src |-> s, gen |-> "building", file |-> NULL]
<1>4. /\ q \in JobStates /\ q.file = NULL /\ q.src = s /\ q.pc = "get"
  BY GeoIPAssumption DEF JobStates, Steps, Gens
<1> HIDE DEF q
<1>5. /\ job' \in [Jobs -> JobStates]
      /\ job'[j] = q /\ \A k \in Jobs \ {j} : job'[k] = job[k]
  BY <1>3, <1>4, Moves DEF IInv, q
<1>6. job[j].pc = "idle" /\ job[j].file = NULL
  BY <1>3, NoJobOK DEF At, IInv, JobsInv, JobOK
<1>7. /\ reader' \in [Gens -> [Sources -> Files \cup {NULL}]]
      /\ reader'["mounted"] = reader["mounted"] /\ reader'["building"][s] = f
      /\ \A t \in Sources \ {s} : reader'["building"][t] = reader["building"][t]
  <2>1. reader["building"] \in [Sources -> Files \cup {NULL}]
    BY DEF IInv, TypeOK, Gens
  <2> QED
    BY <2>1, <1>2 DEF IInv, TypeOK, Gens
<1>8. f = dest[s] \/ f = NULL
  BY <1>2 DEF Opened
<1>9. TypeOK'
  BY <1>1, <1>5, <1>7 DEF IInv, TypeOK
<1>10. JobsInv'
  <2>1. \A k \in Jobs \ {j} : JobOK(job[k])'
    BY <1>1, <1>5 DEF IInv, JobsInv, JobOK
  <2>2. JobOK(job[j])'
    BY <1>1, <1>4, <1>5 DEF JobOK, Writing, Written, q
  <2> QED
    BY <2>1, <2>2 DEF JobsInv
<1>11. \A t \in Sources : \A x \in Files :
          (Uses(t, x)' => Uses(t, x)) /\ (Served(t, x)' => Served(t, x))
  <2>1. \A t \in Sources, g \in Gens : \/ reader'[g][t] = reader[g][t]
                                       \/ reader'[g][t] = NULL \/ reader'[g][t] = dest[t]
    BY <1>7, <1>8 DEF Gens
  <2> QED
    BY <2>1, <1>1, <1>4, <1>5, GeoIPAssumption DEF Uses, Served
<1>12. Apart'
  BY <1>11, ApartKept
<1>13. CleanInv'
  <2> SUFFICES ASSUME NEW t \in Sources \ overlapped PROVE Clean(t)'
    BY <1>1 DEF CleanInv
  <2>1. Clean(t)
    BY DEF IInv, CleanInv
  <2>2. \A k \in Jobs : job'[k].file # NULL => job'[k] = job[k]
    BY <1>4, <1>5
  <2> QED
    BY <2>1, <2>2, <1>1, <1>11 DEF Clean
<1>14. FoundInv'
  <2>1. dest[s] # NULL /\ s \notin overlapped => f # NULL
    <3>1. s \notin overlapped /\ dest[s] # NULL => content[dest[s]] = "whole"
      BY DEF IInv, TypeOK, CleanInv, Clean, Served
    <3> QED
      BY <3>1, <1>2 DEF Opened
  <2>2. \A t \in Sources, g \in Gens : reader'[g][t] # NULL => dest'[t] # NULL
    BY <1>1, <1>7, <1>8 DEF IInv, FoundInv, Gens
  <2>3. ASSUME NEW t \in Sources, t \in chain'["building"] \ unread', dest'[t] # NULL
        PROVE  reader'["building"][t] # NULL \/ t \in overlapped' \cup late'
    <3>1. CASE t = s
      BY <3>1, <2>1, <2>3, <1>1, <1>7
    <3>2. CASE t # s
      BY <3>2, <2>3, <1>1, <1>7 DEF IInv, FoundInv
    <3> QED
      BY <3>1, <3>2
  <2> QED
    BY <2>2, <2>3 DEF FoundInv
<1>15. FreshInv'
  <2>1. installer[s] # "building"
    BY <1>1 DEF IInv, FreshInv
  <2> SUFFICES ASSUME NEW t \in Sources, NEW g \in Gens, t \in chain'[g], installer'[t] = g,
                      t \notin overlapped'
               PROVE  reader'[g][t] = dest'[t] \/ \E k \in Jobs : Gives(k, g, t)'
    BY <1>1, <2>1 DEF IInv, FreshInv
  <2>2. reader[g][t] = dest[t] \/ \E k \in Jobs : Gives(k, g, t)
    BY <1>1 DEF IInv, FreshInv
  <2>3. reader'[g][t] = reader[g][t]
    BY <2>1, <1>1, <1>7 DEF Gens
  <2>4. \A k \in Jobs : Gives(k, g, t) => Gives(k, g, t)'
    BY <1>5, <1>6 DEF Gives, At
  <2> QED
    BY <2>2, <2>3, <2>4, <1>1
<1> QED
  BY <1>9, <1>10, <1>12, <1>13, <1>14, <1>15 DEF IInv

LEMMA MountStep ==
  ASSUME IInv, Mount
  PROVE  IInv'
<1>1. /\ configuring /\ unread = {} /\ configuring' = FALSE /\ up' = TRUE /\ late' = {}
      /\ chain' = [chain EXCEPT !["mounted"] = chain["building"], !["building"] = {}]
      /\ reader' = [reader EXCEPT !["mounted"] = reader["building"], !["building"] = Nothing]
      /\ job' = [j \in Jobs |-> [job[j] EXCEPT !.gen = Older(job[j].gen)]]
      /\ installer' = [s \in Sources |-> Older(installer[s])]
      /\ UNCHANGED <<row, status, unread, dest, tmp, content, owner, marks, overlapped, faults>>
  BY DEF Mount, rows, disk
<1>2. /\ reader' \in [Gens -> [Sources -> Files \cup {NULL}]]
      /\ reader'["mounted"] = reader["building"]
      /\ \A s \in Sources : reader'["building"][s] = NULL
  BY <1>1 DEF IInv, TypeOK, Nothing, Gens
<1>3. /\ chain' \in [Gens -> SUBSET Sources]
      /\ chain'["mounted"] = chain["building"] /\ chain'["building"] = {}
  BY <1>1 DEF IInv, TypeOK, Gens
<1>4. \A j \in Jobs :
         /\ job'[j] \in JobStates /\ job'[j].gen = Older(job[j].gen)
         /\ job'[j].pc = job[j].pc /\ job'[j].src = job[j].src /\ job'[j].file = job[j].file
         /\ job'[j].kind = job[j].kind /\ (job[j] = NoJob => job'[j] = NoJob)
  <2> SUFFICES ASSUME NEW j \in Jobs
               PROVE  /\ job'[j] \in JobStates /\ job'[j].gen = Older(job[j].gen)
                      /\ job'[j].pc = job[j].pc /\ job'[j].src = job[j].src
                      /\ job'[j].file = job[j].file /\ job'[j].kind = job[j].kind
                      /\ (job[j] = NoJob => job'[j] = NoJob)
    OBVIOUS
  <2>1. job[j] \in JobStates /\ job'[j] = [job[j] EXCEPT !.gen = Older(job[j].gen)]
    BY <1>1 DEF IInv, TypeOK
  <2>2. Older(job[j].gen) \in Gens \cup {"gone"}
    BY DEF Older, Gens
  <2> QED
    BY <2>1, <2>2, NoJobOK DEF JobStates, NoJob, Older
<1>5. TypeOK'
  <2>1. installer' \in [Sources -> Gens \cup {"gone"}]
    BY <1>1 DEF Older, Gens
  <2>2. job' \in [Jobs -> JobStates]
    BY <1>1, <1>4
  <2> QED
    BY <2>1, <2>2, <1>1, <1>2, <1>3 DEF IInv, TypeOK
<1>6. JobsInv'
  <2> SUFFICES ASSUME NEW j \in Jobs PROVE JobOK(job[j])'
    BY DEF JobsInv
  <2>1. JobOK(job[j]) /\ Older(job[j].gen) # "building"
    BY DEF IInv, JobsInv, Older
  <2> QED
    BY <2>1, <1>1, <1>4 DEF JobOK
<1>7. \A s \in Sources : \A f \in Files :
         (Uses(s, f)' => Uses(s, f)) /\ (Served(s, f)' => Served(s, f))
  BY <1>1, <1>2, <1>4, GeoIPAssumption DEF Uses, Served, Gens
<1>8. Apart'
  BY <1>7, ApartKept
<1>9. CleanInv'
  <2> SUFFICES ASSUME NEW s \in Sources \ overlapped PROVE Clean(s)'
    BY <1>1 DEF CleanInv
  <2>1. Clean(s)
    BY DEF IInv, CleanInv
  <2>2. UNCHANGED <<tmp, content, owner>>
    BY <1>1
  <2>3. \A j \in Jobs : /\ job'[j].pc = job[j].pc /\ job'[j].src = job[j].src
                        /\ job'[j].file = job[j].file
    BY <1>4
  <2>4. \A f \in Files : Served(s, f)' => f # tmp'[s] /\ content'[f] = "whole"
    BY <2>1, <2>2, <1>7 DEF Clean
  <2> QED
    BY <2>1, <2>2, <2>3, <2>4 DEF Clean
<1>10. FoundInv'
  BY <1>1, <1>2, <1>3 DEF IInv, FoundInv, Gens
<1>11. FreshInv'
  <2>1. \A s \in Sources : installer'[s] # "building"
    BY <1>1 DEF Older
  <2> SUFFICES ASSUME NEW s \in Sources, s \in chain["building"], installer'[s] = "mounted",
                      s \notin overlapped
               PROVE  reader["building"][s] = dest[s] \/ \E j \in Jobs : Gives(j, "mounted", s)'
    BY <2>1, <1>1, <1>2, <1>3 DEF FreshInv, Gens
  <2>2. installer[s] = "building"
    BY <1>1 DEF Older
  <2>3. reader["building"][s] = dest[s] \/ \E j \in Jobs : Gives(j, "building", s)
    BY <2>2 DEF IInv, FreshInv, Gens
  <2>4. \A j \in Jobs : Gives(j, "building", s) => Gives(j, "mounted", s)'
    BY <1>4 DEF Gives, At, Older
  <2> QED
    BY <2>3, <2>4
<1> QED
  BY <1>5, <1>6, <1>8, <1>9, <1>10, <1>11 DEF IInv

LEMMA CrashStep ==
  ASSUME IInv, Crash
  PROVE  IInv'
<1>1. /\ chain' = [g \in Gens |-> {}] /\ reader' = [g \in Gens |-> Nothing] /\ unread' = {}
      /\ configuring' = FALSE /\ up' = FALSE /\ owner' = [f \in Files |-> NULL]
      /\ job' = [j \in Jobs |-> NoJob] /\ marks' = {} /\ late' = {}
      /\ installer' = [s \in Sources |-> "gone"] /\ faults' \in 0..MaxFaults
      /\ UNCHANGED <<row, status, dest, tmp, content, overlapped>>
  BY GeoIPAssumption DEF Crash, rows, IInv, TypeOK
<1>2. /\ reader' \in [Gens -> [Sources -> Files \cup {NULL}]]
      /\ \A g \in Gens, s \in Sources : reader'[g][s] = NULL
  BY <1>1 DEF Nothing
<1>3. job' \in [Jobs -> JobStates] /\ \A j \in Jobs : job'[j] = NoJob
  BY <1>1, NoJobOK
<1>4. TypeOK'
  <2>1. chain' \in [Gens -> SUBSET Sources] /\ owner' \in [Files -> Jobs \cup {NULL}]
    BY <1>1
  <2>2. installer' \in [Sources -> Gens \cup {"gone"}] /\ late' \subseteq Sources
    BY <1>1
  <2>3. /\ marks' \subseteq Sources \X {"ok", "error"} /\ unread' \subseteq Sources
        /\ configuring' \in BOOLEAN /\ up' \in BOOLEAN
    BY <1>1
  <2>4. UNCHANGED <<row, status, dest, tmp, content, overlapped>>
    BY <1>1
  <2> QED
    BY <2>1, <2>2, <2>3, <2>4, <1>1, <1>2, <1>3 DEF IInv, TypeOK
<1>5. JobsInv'
  <2>1. NoJob.file = NULL /\ NoJob.pc = "idle" /\ NoJob.gen = "gone"
    BY DEF NoJob
  <2>2. "idle" \notin Writing \cup Written
    BY DEF Writing, Written
  <2> QED
    BY <1>3, <2>1, <2>2 DEF JobsInv, JobOK
<1>6. \A s \in Sources : \A f \in Files :
         (Uses(s, f)' => Uses(s, f)) /\ (Served(s, f)' => Served(s, f))
  BY <1>1, <1>2, <1>3, NoJobOK, GeoIPAssumption DEF Uses, Served
<1>7. Apart'
  BY <1>6, ApartKept
<1>8. CleanInv'
  BY <1>1, <1>3, <1>6, NoJobOK DEF IInv, CleanInv, Clean
<1>9. FoundInv' /\ FreshInv'
  BY <1>1, <1>2 DEF FoundInv, FreshInv, Gens
<1> QED
  BY <1>4, <1>5, <1>7, <1>8, <1>9 DEF IInv

\* A download gives up the temporary name.
LEMMA DropStep ==
  ASSUME IInv, NEW j \in Jobs, NEW q \in JobStates, Becomes(j, q),
         q.file = NULL, q.src = job[j].src, q.gen = job[j].gen, q.pc \in {"retry", "error"},
         job[j].pc \in Writing \cup Written,
         tmp' = tmp \/ tmp' = [tmp EXCEPT ![job[j].src] = NULL],
         owner' \in [Files -> Jobs \cup {NULL}],
         \A f \in Files : owner'[f] = owner[f] \/ owner[f] = j,
         UNCHANGED <<rows, chains, dest, content, marks, history, faults>>
  PROVE  IInv'
<1> DEFINE s == job[j].src
<1>1. /\ job' \in [Jobs -> JobStates]
      /\ job'[j] = q /\ \A k \in Jobs \ {j} : job'[k] = job[k]
  BY Moves DEF IInv
<1>2. JobOK(job[j]) /\ s \in Sources /\ job[j].file # NULL /\ job[j].pc # "open"
  BY DEF IInv, JobsInv, JobOK, Writing, Written
<1>3. UNCHANGED <<row, status, chain, reader, unread, configuring, up, dest, content, marks,
                  installer, overlapped, late, faults>>
  BY DEF rows, chains, history
<1>4. /\ tmp' \in [Sources -> Files \cup {NULL}]
      /\ \A t \in Sources : tmp'[t] = NULL \/ tmp'[t] = tmp[t]
      /\ \A t \in Sources \ {s} : tmp'[t] = tmp[t]
  BY <1>2 DEF IInv, TypeOK
<1>5. TypeOK'
  BY <1>1, <1>3, <1>4 DEF IInv, TypeOK
<1>6. JobsInv'
  <2>1. \A k \in Jobs \ {j} : JobOK(job[k])'
    BY <1>1, <1>3 DEF IInv, JobsInv, JobOK
  <2>2. JobOK(job[j])'
    BY <1>1, <1>2, <1>3 DEF JobOK, Writing, Written
  <2> QED
    BY <2>1, <2>2 DEF JobsInv
<1>7. \A t \in Sources : \A f \in Files :
         (Uses(t, f)' => Uses(t, f)) /\ (Served(t, f)' => Served(t, f))
  BY <1>1, <1>3, <1>4, GeoIPAssumption DEF Uses, Served
<1>8. Apart'
  BY <1>7, ApartKept
<1>9. CleanInv'
  <2> SUFFICES ASSUME NEW t \in Sources \ overlapped PROVE Clean(t)'
    BY <1>3 DEF CleanInv
  <2>1. Clean(t)
    BY DEF IInv, CleanInv
  <2>2. \A f \in Files : Served(t, f)' => f # tmp'[t] /\ content'[f] = "whole"
    BY <2>1, <1>3, <1>4, <1>7, GeoIPAssumption DEF Clean
  <2>3. ASSUME NEW k \in Jobs, job'[k].src = t, job'[k].file # NULL
        PROVE  /\ job'[k].file = tmp'[t]
               /\ job'[k].pc \in Writing => owner'[tmp'[t]] = k
               /\ job'[k].pc \in Written => content'[tmp'[t]] = "whole"
               /\ \A l \in Jobs : job'[l].src = t /\ job'[l].file # NULL => l = k
    <3>1. k # j /\ job'[k] = job[k]
      BY <2>3, <1>1
    <3>2. t # s
      BY <2>1, <2>3, <3>1, <1>2 DEF Clean
    <3>3. tmp'[t] = tmp[t]
      BY <3>2, <1>4
    <3>4. job[k].file = tmp[t] /\ tmp[t] \in Files
      BY <2>1, <2>3, <3>1 DEF Clean, IInv, TypeOK
    <3>5. job'[k].pc \in Writing => owner'[tmp'[t]] = k
      BY <2>1, <2>3, <3>1, <3>3, <3>4 DEF Clean
    <3>6. \A l \in Jobs : job'[l].src = t /\ job'[l].file # NULL => l = k
      BY <2>1, <2>3, <3>1, <1>1 DEF Clean
    <3> QED
      BY <2>1, <2>3, <3>1, <3>3, <3>4, <3>5, <3>6, <1>3 DEF Clean
  <2> QED
    BY <2>2, <2>3 DEF Clean
<1>10. FoundInv'
  BY <1>3 DEF IInv, FoundInv
<1>11. FreshInv'
  <2>1. \A k \in Jobs, g \in Gens, t \in Sources : Gives(k, g, t) => Gives(k, g, t)'
    BY <1>1, <1>2 DEF Gives, At
  <2> QED
    BY <2>1, <1>3 DEF IInv, FreshInv
<1> QED
  BY <1>5, <1>6, <1>8, <1>9, <1>10, <1>11 DEF IInv

LEMMA WriteFailsStep ==
  ASSUME IInv, NEW j \in Jobs, WriteFails(j)
  PROVE  IInv'
<1>1. /\ job[j].pc \in Writing
      /\ tmp' = [tmp EXCEPT ![job[j].src] = NULL]
      /\ owner' = [owner EXCEPT ![job[j].file] = Disown(job[j].file, j)]
      /\ TryFails(j)
      /\ UNCHANGED <<rows, chains, dest, content, marks, history, faults>>
  BY DEF WriteFails, Writing
<1>2. PICK q \in JobStates : /\ Becomes(j, q) /\ q.file = NULL /\ q.src = job[j].src
                             /\ q.gen = job[j].gen /\ q.pc \in {"retry", "error"}
  BY <1>1, Failing DEF Writing
<1>3. /\ owner' \in [Files -> Jobs \cup {NULL}]
      /\ \A f \in Files : owner'[f] = owner[f] \/ owner[f] = j
  BY <1>1 DEF IInv, TypeOK, Disown
<1> QED
  BY <1>1, <1>2, <1>3, DropStep

\* A download goes on with the file it has, one of its source's alone.
LEMMA HoldStep ==
  ASSUME IInv, NEW j \in Jobs, NEW pc \in Written, Goto(j, pc),
         job[j].pc \in Writing \cup Written,
         content' \in [Files -> {"torn", "whole"}], owner' \in [Files -> Jobs \cup {NULL}],
         \A f \in Files : /\ content[f] = "whole" => content'[f] = "whole"
                          /\ owner'[f] = owner[f] \/ owner[f] = j,
         job[j].pc \in Writing /\ owner[job[j].file] = j => content'[job[j].file] = "whole",
         UNCHANGED <<rows, chains, dest, tmp, marks, history, faults>>
  PROVE  IInv'
<1> DEFINE q == [job[j] EXCEPT !.pc = pc]
<1>1. JobOK(job[j]) /\ job[j].src \in Sources /\ job[j].file # NULL /\ job[j].pc # "open"
  BY DEF IInv, JobsInv, JobOK, Writing, Written
<1>2. /\ q \in JobStates /\ q.pc = pc /\ q.src = job[j].src /\ q.file = job[j].file
      /\ q.gen = job[j].gen
  <2>1. job[j] \in JobStates /\ pc \in Steps
    BY DEF IInv, TypeOK, Written, Steps
  <2> QED
    BY <2>1 DEF JobStates
<1> HIDE DEF q
<1>3. /\ job' \in [Jobs -> JobStates]
      /\ job'[j] = q /\ \A k \in Jobs \ {j} : job'[k] = job[k]
  BY <1>2, Moves DEF IInv, Goto, q
<1>4. UNCHANGED <<row, status, chain, reader, unread, configuring, up, dest, tmp, marks,
                  installer, overlapped, late, faults>>
  BY DEF rows, chains, history
<1>5. TypeOK'
  BY <1>3, <1>4 DEF IInv, TypeOK
<1>6. JobsInv'
  <2>1. \A k \in Jobs \ {j} : JobOK(job[k])'
    BY <1>3, <1>4 DEF IInv, JobsInv, JobOK
  <2>2. JobOK(job[j])'
    BY <1>1, <1>2, <1>3, <1>4 DEF JobOK, Writing, Written
  <2> QED
    BY <2>1, <2>2 DEF JobsInv
<1>7. \A k \in Jobs : job'[k].src = job[k].src /\ job'[k].file = job[k].file
  BY <1>2, <1>3
<1>8. Apart'
  <2>1. \A t \in Sources : \A f \in Files : Uses(t, f)' => Uses(t, f)
    BY <1>4, <1>7 DEF Uses
  <2> QED
    BY <2>1, ApartKept
<1>9. CleanInv'
  <2> SUFFICES ASSUME NEW t \in Sources \ overlapped PROVE Clean(t)'
    BY <1>4 DEF CleanInv
  <2>1. Clean(t)
    BY DEF IInv, CleanInv
  <2>2. \A f \in Files : Served(t, f)' => f # tmp'[t] /\ content'[f] = "whole"
    BY <2>1, <1>4 DEF Clean, Served
  <2>3. ASSUME NEW k \in Jobs, job'[k].src = t, job'[k].file # NULL
        PROVE  /\ job'[k].file = tmp'[t]
               /\ job'[k].pc \in Writing => owner'[tmp'[t]] = k
               /\ job'[k].pc \in Written => content'[tmp'[t]] = "whole"
               /\ \A l \in Jobs : job'[l].src = t /\ job'[l].file # NULL => l = k
    <3>1. job[k].src = t /\ job[k].file # NULL /\ job[k].file = tmp[t] /\ tmp[t] \in Files
      BY <2>1, <2>3, <1>7 DEF Clean, IInv, TypeOK
    <3>2. \A l \in Jobs : job'[l].src = t /\ job'[l].file # NULL => l = k
      BY <2>1, <3>1, <1>7 DEF Clean
    <3>3. CASE k = j
      <4>1. job'[k].pc \in Written /\ job'[k].pc \notin Writing
        BY <3>3, <1>2, <1>3 DEF Writing, Written
      <4>2. content'[tmp[t]] = "whole"
        BY <3>1, <3>3, <2>1 DEF Clean
      <4> QED
        BY <4>1, <4>2, <3>1, <3>2, <1>4, <1>7
    <3>4. CASE k # j
      BY <3>1, <3>2, <3>4, <2>1, <1>3, <1>4 DEF Clean
    <3> QED
      BY <3>3, <3>4
  <2> QED
    BY <2>2, <2>3 DEF Clean
<1>10. FoundInv'
  BY <1>4 DEF IInv, FoundInv
<1>11. FreshInv'
  <2>1. \A k \in Jobs, g \in Gens, t \in Sources : Gives(k, g, t) => Gives(k, g, t)'
    BY <1>1, <1>3 DEF Gives, At
  <2> QED
    BY <2>1, <1>4 DEF IInv, FreshInv
<1> QED
  BY <1>5, <1>6, <1>8, <1>9, <1>10, <1>11 DEF IInv

LEMMA WriteStep ==
  ASSUME IInv, NEW j \in Jobs, Write(j)
  PROVE  IInv'
<1> DEFINE f == job[j].file
<1>1. /\ job[j].pc \in Writing
      /\ content' = IF owner[f] = j THEN [content EXCEPT ![f] = "whole"] ELSE content
      /\ owner' = [owner EXCEPT ![f] = Disown(f, j)]
      /\ Goto(j, Then(job[j].pc, "validate", "validate again"))
      /\ UNCHANGED <<rows, chains, dest, tmp, marks, history, faults>>
  BY DEF Write, Writing
<1>2. Then(job[j].pc, "validate", "validate again") \in Written
  BY DEF Then, Written
<1>3. f \in Files
  BY <1>1 DEF IInv, TypeOK, JobStates, JobsInv, JobOK
<1>4. content \in [Files -> {"torn", "whole"}] /\ owner \in [Files -> Jobs \cup {NULL}]
  BY DEF IInv, TypeOK
<1>5. /\ content' \in [Files -> {"torn", "whole"}]
      /\ \A x \in Files : content[x] = "whole" => content'[x] = "whole"
      /\ owner[f] = j => content'[f] = "whole"
  BY <1>1, <1>3, <1>4
<1>6. /\ owner' \in [Files -> Jobs \cup {NULL}]
      /\ \A x \in Files : owner'[x] = owner[x] \/ owner[x] = j
  BY <1>1, <1>3, <1>4 DEF Disown
<1> QED
  BY <1>1, <1>2, <1>5, <1>6, HoldStep

LEMMA ValidateStep ==
  ASSUME IInv, NEW j \in Jobs, Validate(j)
  PROVE  IInv'
<1>1. /\ job[j].pc \in Written
      /\ UNCHANGED <<rows, chains, dest, content, owner, marks, history, faults>>
      /\ content \in [Files -> {"torn", "whole"}] /\ owner \in [Files -> Jobs \cup {NULL}]
  BY DEF Validate, Written, IInv, TypeOK
<1>2. CASE Goto(j, Then(job[j].pc, "rename", "rename again")) /\ UNCHANGED tmp
  <2>1. Then(job[j].pc, "rename", "rename again") \in Written /\ job[j].pc \notin Writing
    BY <1>1 DEF Then, Written, Writing
  <2> QED
    BY <2>1, <1>1, <1>2, HoldStep
<1>3. CASE tmp' = [tmp EXCEPT ![job[j].src] = NULL] /\ TryFails(j)
  <2>1. PICK q \in JobStates : /\ Becomes(j, q) /\ q.file = NULL /\ q.src = job[j].src
                               /\ q.gen = job[j].gen /\ q.pc \in {"retry", "error"}
    BY <1>1, <1>3, Failing DEF Written
  <2> QED
    BY <2>1, <1>1, <1>3, DropStep
<1> QED
  BY <1>2, <1>3 DEF Validate
\* The server answers: the temporary name is made anew, under the nose of another
\* download of the source at it.
LEMMA CreateStep ==
  ASSUME IInv, NEW j \in Jobs, Create(j)
  PROVE  IInv'
<1> DEFINE s == job[j].src
<1>1. PICK f \in Files :
         /\ f = tmp[s] \/ (tmp[s] = NULL /\ ~InUse(f))
         /\ tmp' = [tmp EXCEPT ![s] = f]
         /\ content' = [content EXCEPT ![f] = "torn"]
         /\ owner' = [owner EXCEPT ![f] = j]
         /\ Becomes(j, [job[j] EXCEPT !.pc = Then(@, "write", "write again"), !.file = f])
  BY DEF Create
<1> DEFINE q == [job[j] EXCEPT !.pc = Then(@, "write", "write again"), !.file = f]
<1>2. /\ job[j].pc \in {"get", "retry"} /\ JobOK(job[j])
      /\ s \in Sources /\ job[j].file = NULL /\ job[j].pc # "open"
  BY DEF Create, IInv, JobsInv, JobOK, Writing, Written
<1>3. /\ q \in JobStates /\ q.src = s /\ q.file = f /\ q.gen = job[j].gen /\ q.pc \in Writing
      /\ q.pc \notin Written
  <2>1. job[j] \in JobStates
    BY DEF IInv, TypeOK
  <2> QED
    BY <2>1 DEF JobStates, Steps, Then, Writing, Written
<1> HIDE DEF q
<1>4. /\ job' \in [Jobs -> JobStates]
      /\ job'[j] = q /\ \A k \in Jobs \ {j} : job'[k] = job[k]
  BY <1>1, <1>3, Moves DEF IInv, q
<1>5. /\ UNCHANGED <<row, status, chain, reader, unread, configuring, up, dest, marks,
                     installer, late, faults>>
      /\ overlapped' = IF AtTmp(s) # {} THEN overlapped \cup {s} ELSE overlapped
  BY DEF Create, rows, chains
<1>6. /\ tmp' \in [Sources -> Files \cup {NULL}] /\ tmp'[s] = f
      /\ content' \in [Files -> {"torn", "whole"}] /\ owner' \in [Files -> Jobs \cup {NULL}]
      /\ owner'[f] = j
      /\ \A t \in Sources \ {s} : tmp'[t] = tmp[t]
      /\ \A x \in Files \ {f} : content'[x] = content[x] /\ owner'[x] = owner[x]
  BY <1>1, <1>2 DEF IInv, TypeOK
<1>7. /\ \A t \in Sources \ {s} : ~Uses(t, f)
      /\ f = tmp[s] \/ \A t \in Sources : ~Uses(t, f)
  <2>1. CASE f = tmp[s]
    BY <2>1, <1>2 DEF Uses, IInv, Apart
  <2>2. CASE ~InUse(f)
    BY <2>2 DEF InUse, Uses
  <2> QED
    BY <1>1, <2>1, <2>2
<1>8. TypeOK'
  BY <1>2, <1>4, <1>5, <1>6 DEF IInv, TypeOK
<1>9. JobsInv'
  <2>1. \A k \in Jobs \ {j} : JobOK(job[k])'
    BY <1>4, <1>5 DEF IInv, JobsInv, JobOK
  <2>2. JobOK(job[j])'
    BY <1>2, <1>3, <1>4, <1>5, GeoIPAssumption DEF JobOK, Writing, Written
  <2> QED
    BY <2>1, <2>2 DEF JobsInv
<1>10. \A t \in Sources : \A x \in Files : Uses(t, x)' => Uses(t, x) \/ (t = s /\ x = f)
  BY <1>3, <1>4, <1>5, <1>6 DEF Uses
<1>11. Apart'
  BY <1>7, <1>10 DEF IInv, Apart
<1>12. CleanInv'
  <2> SUFFICES ASSUME NEW t \in Sources \ overlapped' PROVE Clean(t)'
    BY DEF CleanInv
  <2>1. Clean(t)
    BY <1>5 DEF IInv, CleanInv
  <2>2. CASE t = s
    <3>1. \A k \in Jobs : job[k].src = s => job[k].file = NULL
      BY <2>2, <1>2, <1>5 DEF AtTmp
    <3>2. \A k \in Jobs : job'[k].src = s /\ job'[k].file # NULL => k = j
      BY <3>1, <1>4
    <3>3. ~Served(s, f)
      <4>1. CASE f = tmp[s]
        BY <4>1, <2>1, <2>2 DEF Clean
      <4>2. CASE ~Uses(s, f)
        BY <4>2 DEF Uses, Served
      <4> QED
        BY <4>1, <4>2, <1>2, <1>7
    <3>4. \A x \in Files : Served(t, x)' => x # tmp'[s] /\ content'[x] = "whole"
      BY <3>3, <2>1, <2>2, <1>5, <1>6 DEF Clean, Served
    <3>5. job'[j].file = tmp'[s] /\ job'[j].pc \notin Written /\ owner'[tmp'[s]] = j
      BY <1>3, <1>4, <1>6
    <3> QED
      BY <2>2, <3>2, <3>4, <3>5 DEF Clean
  <2>3. CASE t # s
    <3>1. \A x \in Files : Served(t, x)' => Served(t, x) /\ x # f
      BY <2>3, <1>5, <1>7 DEF Served, Uses
    <3>2. \A x \in Files : Served(t, x)' => x # tmp'[t] /\ content'[x] = "whole"
      BY <2>1, <2>3, <3>1, <1>6 DEF Clean
    <3>3. ASSUME NEW k \in Jobs, job'[k].src = t, job'[k].file # NULL
          PROVE  /\ job'[k].file = tmp'[t]
                 /\ job'[k].pc \in Writing => owner'[tmp'[t]] = k
                 /\ job'[k].pc \in Written => content'[tmp'[t]] = "whole"
                 /\ \A l \in Jobs : job'[l].src = t /\ job'[l].file # NULL => l = k
      <4>1. k # j /\ job'[k] = job[k] /\ tmp'[t] = tmp[t]
        BY <2>3, <3>3, <1>3, <1>4, <1>6
      <4>2. tmp[t] \in Files /\ tmp[t] # f
        BY <2>1, <2>3, <3>3, <4>1, <1>7 DEF Clean, Uses, IInv, TypeOK
      <4>3. \A l \in Jobs : job'[l].src = t /\ job'[l].file # NULL => l = k
        BY <2>1, <2>3, <3>3, <4>1, <1>3, <1>4 DEF Clean
      <4> QED
        BY <2>1, <3>3, <4>1, <4>2, <4>3, <1>6 DEF Clean
    <3> QED
      BY <3>2, <3>3 DEF Clean
  <2> QED
    BY <2>2, <2>3
<1>13. FoundInv'
  BY <1>5 DEF IInv, FoundInv
<1>14. FreshInv'
  <2>1. \A k \in Jobs, g \in Gens, t \in Sources : Gives(k, g, t) => Gives(k, g, t)'
    BY <1>2, <1>4 DEF Gives, At
  <2> QED
    BY <2>1, <1>5 DEF IInv, FreshInv
<1> QED
  BY <1>8, <1>9, <1>11, <1>12, <1>13, <1>14 DEF IInv

\* What was the temporary file becomes the database.
LEMMA RenameStep ==
  ASSUME IInv, NEW j \in Jobs, Rename(j)
  PROVE  IInv'
<1> DEFINE s == job[j].src
<1>1. /\ job[j].pc \in Written /\ job[j].pc # "open" /\ JobOK(job[j])
      /\ s \in Sources /\ job[j].file # NULL
      /\ UNCHANGED <<rows, chains, content, owner, marks, overlapped, faults>>
  BY DEF Rename, Written, IInv, JobsInv, JobOK
<1>2. CASE tmp[s] = NULL
  <2>1. TryFails(j) /\ UNCHANGED <<dest, tmp, installer, late>>
    BY <1>2 DEF Rename
  <2>2. PICK q \in JobStates : /\ Becomes(j, q) /\ q.file = NULL /\ q.src = job[j].src
                               /\ q.gen = job[j].gen /\ q.pc \in {"retry", "error"}
    BY <1>1, <2>1, Failing DEF Written
  <2> QED
    BY <1>1, <2>1, <2>2, DropStep DEF IInv, TypeOK, history
<1>3. CASE tmp[s] # NULL
  <2> DEFINE q == [job[j] EXCEPT !.pc = "open", !.file = NULL]
             gen == IF job[j].kind = "background" THEN job[j].gen ELSE "gone"
  <2>1. /\ dest' = [dest EXCEPT ![s] = tmp[s]] /\ tmp' = [tmp EXCEPT ![s] = NULL]
        /\ installer' = [installer EXCEPT ![s] = gen]
        /\ late' = IF dest[s] = NULL /\ s \in chain["building"] \ unread
                   THEN late \cup {s} ELSE late
        /\ Becomes(j, q)
    BY <1>3 DEF Rename
  <2>2. /\ q \in JobStates /\ q.src = s /\ q.file = NULL /\ q.gen = job[j].gen
        /\ q.pc = "open" /\ q.kind = job[j].kind /\ gen \in Gens \cup {"gone"}
    <3>1. job[j] \in JobStates
      BY DEF IInv, TypeOK
    <3> QED
      BY <3>1 DEF JobStates, Steps
  <2> HIDE DEF q, gen
  <2>3. /\ job' \in [Jobs -> JobStates]
        /\ job'[j] = q /\ \A k \in Jobs \ {j} : job'[k] = job[k]
    BY <2>1, <2>2, Moves DEF IInv
  <2>4. UNCHANGED <<row, status, chain, reader, unread, configuring, up, content, owner, marks,
                    overlapped, faults>>
    BY <1>1 DEF rows, chains
  <2>5. /\ dest' \in [Sources -> Files \cup {NULL}] /\ tmp' \in [Sources -> Files \cup {NULL}]
        /\ dest'[s] = tmp[s] /\ tmp'[s] = NULL /\ tmp[s] \in Files
        /\ \A t \in Sources \ {s} : dest'[t] = dest[t] /\ tmp'[t] = tmp[t]
    BY <1>1, <1>3, <2>1 DEF IInv, TypeOK
  <2>6. /\ installer' \in [Sources -> Gens \cup {"gone"}] /\ installer'[s] = gen
        /\ \A t \in Sources \ {s} : installer'[t] = installer[t]
    BY <1>1, <2>1, <2>2 DEF IInv, TypeOK
  <2>7. late' \subseteq Sources /\ late \subseteq late'
    BY <1>1, <2>1 DEF IInv, TypeOK
  <2>8. TypeOK'
    BY <2>3, <2>4, <2>5, <2>6, <2>7 DEF IInv, TypeOK
  <2>9. JobsInv'
    <3>1. \A k \in Jobs \ {j} : JobOK(job[k])'
      BY <2>3, <2>4, <2>5, GeoIPAssumption DEF IInv, JobsInv, JobOK
    <3>2. JobOK(job[j])'
      BY <1>1, <2>2, <2>3, <2>4, <2>5, GeoIPAssumption DEF JobOK, Writing, Written
    <3> QED
      BY <3>1, <3>2 DEF JobsInv
  <2>10. Apart'
    <3>1. \A t \in Sources : \A x \in Files : Uses(t, x)' => Uses(t, x)
      BY <2>2, <2>3, <2>4, <2>5, GeoIPAssumption DEF Uses
    <3> QED
      BY <3>1, ApartKept
  <2>11. CleanInv'
    <3> SUFFICES ASSUME NEW t \in Sources \ overlapped PROVE Clean(t)'
      BY <2>4 DEF CleanInv
    <3>1. Clean(t)
      BY DEF IInv, CleanInv
    <3>2. \A k \in Jobs : job'[k].file # NULL => k # j /\ job'[k] = job[k]
      BY <2>2, <2>3
    <3>3. CASE t = s
      <4>1. content[tmp[s]] = "whole"
        BY <3>1, <3>3, <1>1 DEF Clean
      <4>2. \A k \in Jobs : ~(job'[k].src = s /\ job'[k].file # NULL)
        BY <3>1, <3>2, <3>3, <1>1 DEF Clean
      <4>3. \A x \in Files : Served(t, x)' => x # tmp'[s] /\ content'[x] = "whole"
        BY <4>1, <3>1, <3>3, <2>4, <2>5, GeoIPAssumption DEF Clean, Served
      <4> QED
        BY <3>3, <4>2, <4>3 DEF Clean
    <3>4. CASE t # s
      <4>1. UNCHANGED <<content, owner, reader>> /\ dest'[t] = dest[t] /\ tmp'[t] = tmp[t]
        BY <3>4, <2>4, <2>5
      <4>2. \A x \in Files : Served(t, x)' => x # tmp'[t] /\ content'[x] = "whole"
        BY <4>1, <3>1 DEF Clean, Served
      <4> QED
        BY <3>1, <3>2, <4>1, <4>2 DEF Clean
    <3> QED
      BY <3>3, <3>4
  <2>12. FoundInv'
    <3> SUFFICES ASSUME NEW t \in Sources
                 PROVE  /\ \A g \in Gens : reader[g][t] # NULL => dest'[t] # NULL
                        /\ t \in chain["building"] \ unread /\ dest'[t] # NULL
                             => reader["building"][t] # NULL \/ t \in overlapped \cup late'
      BY <2>4 DEF FoundInv
    <3>1. CASE t = s
      BY <3>1, <1>1, <1>3, <2>1, <2>5, <2>7 DEF IInv, FoundInv
    <3>2. CASE t # s
      BY <3>2, <2>5, <2>7 DEF IInv, FoundInv
    <3> QED
      BY <3>1, <3>2
  <2>13. FreshInv'
    <3> SUFFICES ASSUME NEW t \in Sources
                 PROVE  /\ installer'[t] = "building" => configuring /\ t \notin unread
                        /\ \A g \in Gens :
                             t \in chain[g] /\ installer'[t] = g /\ t \notin overlapped =>
                               reader[g][t] = dest'[t] \/ \E k \in Jobs : Gives(k, g, t)'
      BY <2>4 DEF FreshInv
    <3>1. CASE t = s
      <4>1. gen = "building" => configuring /\ s \notin unread
        BY <1>1 DEF JobOK, gen
      <4>2. \A g \in Gens : gen = g => Gives(j, g, t)'
        BY <3>1, <2>2, <2>3 DEF Gives, At, gen, Gens
      <4> QED
        BY <3>1, <4>1, <4>2, <2>6
    <3>2. CASE t # s
      <4>1. \A k \in Jobs, g \in Gens : Gives(k, g, t) => Gives(k, g, t)'
        BY <3>2, <2>3 DEF Gives, At
      <4> QED
        BY <3>2, <4>1, <2>5, <2>6 DEF IInv, FreshInv
    <3> QED
      BY <3>1, <3>2
  <2> QED
    BY <2>8, <2>9, <2>10, <2>11, <2>12, <2>13 DEF IInv
<1> QED
  BY <1>2, <1>3

\* The chain gets the database, which opens when it is whole.
LEMMA OpenStep ==
  ASSUME IInv, NEW j \in Jobs, Open(j)
  PROVE  IInv'
<1> DEFINE s == job[j].src
<1>1. PICK f \in Files \cup {NULL} :
         /\ Opened(s, f)
         /\ Goto(j, IF f = NULL THEN "error" ELSE "ok")
         /\ reader' = IF f = NULL \/ job[j].kind # "background" \/ job[j].gen = "gone" THEN reader
                      ELSE [reader EXCEPT ![job[j].gen][s] = f]
  BY DEF Open
<1> DEFINE q == [job[j] EXCEPT !.pc = IF f = NULL THEN "error" ELSE "ok"]
<1>2. /\ job[j].pc = "open" /\ JobOK(job[j]) /\ s \in Sources /\ dest[s] # NULL
      /\ job[j] \in JobStates
  BY DEF Open, At, IInv, TypeOK, JobsInv, JobOK
<1>3. job[j].file = NULL
  BY <1>2 DEF JobOK, Writing, Written
<1>4. /\ q \in JobStates /\ q.src = s /\ q.file = NULL /\ q.gen = job[j].gen
      /\ q.pc \in {"ok", "error"}
  BY <1>2, <1>3 DEF JobStates, Steps
<1> HIDE DEF q
<1>5. /\ job' \in [Jobs -> JobStates]
      /\ job'[j] = q /\ \A k \in Jobs \ {j} : job'[k] = job[k]
  BY <1>1, <1>4, Moves DEF IInv, Goto, q
<1>6. UNCHANGED <<row, status, chain, unread, configuring, up, dest, tmp, content, owner, marks,
                  installer, overlapped, late, faults>>
  BY DEF Open, rows, disk, history
<1>7. f = NULL \/ f = dest[s]
  BY <1>1 DEF Opened
<1>8. /\ reader' \in [Gens -> [Sources -> Files \cup {NULL}]]
      /\ \A g \in Gens, t \in Sources :
           reader'[g][t] = reader[g][t] \/ (t = s /\ reader'[g][t] = dest[s])
  <2>1. reader \in [Gens -> [Sources -> Files \cup {NULL}]]
    BY DEF IInv, TypeOK
  <2>2. CASE reader' = reader
    BY <2>1, <2>2
  <2>3. CASE f = dest[s] /\ job[j].gen \in Gens /\ reader' = [reader EXCEPT ![job[j].gen][s] = f]
    <3>1. reader[job[j].gen] \in [Sources -> Files \cup {NULL}]
      BY <2>1, <2>3
    <3> QED
      BY <2>1, <2>3, <3>1, <1>2
  <2>4. job[j].gen \in Gens \cup {"gone"}
    BY <1>2 DEF JobStates
  <2> QED
    BY <1>1, <1>7, <2>2, <2>3, <2>4
<1>9. TypeOK'
  BY <1>5, <1>6, <1>8 DEF IInv, TypeOK
<1>10. JobsInv'
  <2>1. \A k \in Jobs \ {j} : JobOK(job[k])'
    BY <1>5, <1>6 DEF IInv, JobsInv, JobOK
  <2>2. JobOK(job[j])'
    BY <1>2, <1>4, <1>5, <1>6 DEF JobOK, Writing, Written
  <2> QED
    BY <2>1, <2>2 DEF JobsInv
<1>11. \A t \in Sources : \A x \in Files :
          (Uses(t, x)' => Uses(t, x)) /\ (Served(t, x)' => Served(t, x))
  BY <1>4, <1>5, <1>6, <1>8, GeoIPAssumption DEF Uses, Served
<1>12. Apart'
  BY <1>11, ApartKept
<1>13. CleanInv'
  <2> SUFFICES ASSUME NEW t \in Sources \ overlapped PROVE Clean(t)'
    BY <1>6 DEF CleanInv
  <2>1. Clean(t)
    BY DEF IInv, CleanInv
  <2>2. \A k \in Jobs : job'[k].file # NULL => job'[k] = job[k]
    BY <1>4, <1>5
  <2> QED
    BY <2>1, <2>2, <1>6, <1>11 DEF Clean
<1>14. FoundInv'
  BY <1>2, <1>6, <1>8 DEF IInv, FoundInv, Gens
<1>15. FreshInv'
  <2> SUFFICES ASSUME NEW t \in Sources, NEW g \in Gens, t \in chain[g], installer[t] = g,
                      t \notin overlapped
               PROVE  reader'[g][t] = dest[t] \/ \E k \in Jobs : Gives(k, g, t)'
    BY <1>6 DEF IInv, FreshInv
  <2>1. reader[g][t] = dest[t] \/ \E k \in Jobs : Gives(k, g, t)
    BY DEF IInv, FreshInv
  <2>2. \A k \in Jobs \ {j} : Gives(k, g, t) => Gives(k, g, t)'
    BY <1>5 DEF Gives, At
  <2>3. ASSUME Gives(j, g, t) PROVE reader'[g][t] = dest[t]
    <3>1. t = s /\ job[j].kind = "background" /\ job[j].gen = g /\ g # "gone"
      BY <2>3 DEF Gives, Gens
    <3>2. content[dest[s]] = "whole"
      BY <3>1, <1>2 DEF IInv, TypeOK, CleanInv, Clean, Served
    <3>3. f = dest[s]
      BY <3>2, <1>1, <1>2 DEF Opened
    <3>4. reader' = [reader EXCEPT ![g][s] = f]
      BY <3>1, <3>3, <1>1, <1>2
    <3>5. reader \in [Gens -> [Sources -> Files \cup {NULL}]]
      BY DEF IInv, TypeOK
    <3> QED
      BY <3>1, <3>3, <3>4, <3>5
  <2> QED
    BY <2>1, <2>2, <2>3, <1>8
<1> QED
  BY <1>9, <1>10, <1>12, <1>13, <1>14, <1>15 DEF IInv
LEMMA NextIInv == IInv /\ [Next]_vars => IInv'
<1> SUFFICES ASSUME IInv, [Next]_vars PROVE IInv'
  OBVIOUS
<1>1. CASE WriteRow \/ Mark \/ \E s \in Sources : Consult(s)
  BY <1>1, RowSteps
<1>2. CASE Select
  BY <1>2, SelectStep
<1>3. CASE Mount
  BY <1>3, MountStep
<1>4. CASE Crash
  BY <1>4, CrashStep
<1>5. CASE \E s \in Sources : Build(s)
  BY <1>5, BuildStep
<1>6. ASSUME NEW j \in Jobs, Refresh(j) \/ Download(j)
      PROVE  IInv'
  BY <1>6, RefreshStep, CreateStep, GetFailsStep, WriteStep, WriteFailsStep, ValidateStep,
     RenameStep, OpenStep, FinishStep DEF Download
<1>7. CASE UNCHANGED vars
  <2>1. UNCHANGED <<row, status, marks, faults>> /\ UNCHANGED <<chains, disk, job, history>>
    BY <1>7 DEF vars, rows
  <2> QED
    BY <2>1, OtherSteps DEF IInv, TypeOK
<1> QED
  BY <1>1, <1>2, <1>3, <1>4, <1>5, <1>6, <1>7 DEF Next

-----------------------------------------------------------------------------
(* The theorems                                                            *)

\* The strengthened invariant holds in every reachable state.
THEOREM Invariance == Spec => []IInv
BY InitIInv, NextIInv, PTL DEF Spec

\* The states of GeoIP have the types its handlers and downloads give them.
THEOREM TypeCorrect == Spec => []TypeOK
<1>1. IInv => TypeOK
  BY DEF IInv
<1> QED
  BY <1>1, Invariance, PTL

\* No database that is in the cache, or that a chain answers from, is a part of a
\* download, unless two downloads of its source met at the temporary file.
THEOREM WholeCorrect == Spec => []WholeUnlessOverlapped
<1>1. IInv => WholeUnlessOverlapped
  <2> SUFFICES ASSUME IInv, NEW s \in Sources, s \notin overlapped
               PROVE  ~Torn(dest[s]) /\ \A g \in Gens : ~Torn(reader[g][s])
    BY DEF WholeUnlessOverlapped
  <2>1. \A f \in Files : Served(s, f) => content[f] = "whole"
    BY DEF IInv, CleanInv, Clean
  <2>2. dest[s] \in Files \cup {NULL} /\ \A g \in Gens : reader[g][s] \in Files \cup {NULL}
    BY DEF IInv, TypeOK
  <2> QED
    BY <2>1, <2>2 DEF Torn, Served
<1> QED
  BY <1>1, Invariance, PTL

\* Where the mounted chain answers from a file that is no longer the database, a
\* download that is not its own put the database there.
THEOREM StaleCorrect == Spec => []StaleOnlyByOthers
<1>1. IInv => StaleOnlyByOthers
  <2> SUFFICES ASSUME IInv, NEW s \in chain["mounted"], installer[s] = "mounted",
                      s \notin overlapped
               PROVE  \/ reader["mounted"][s] = dest[s]
                      \/ \E j \in Jobs : At(j, "open") /\ job[j].src = s
    BY DEF StaleOnlyByOthers
  <2>1. s \in Sources
    BY DEF IInv, TypeOK, Gens
  <2>2. reader["mounted"][s] = dest[s] \/ \E j \in Jobs : Gives(j, "mounted", s)
    BY <2>1 DEF IInv, FreshInv, Gens
  <2> QED
    BY <2>2 DEF Gives
<1> QED
  BY <1>1, Invariance, PTL

\* What answers goes on answering through refreshes, their failures and Configures.
THEOREM ServesOnCorrect == Spec => ServesOn
<1> DEFINE Serve == \A s \in chain["mounted"] \cap chain'["mounted"] :
                      reader["mounted"][s] # NULL
                      => reader'["mounted"][s] # NULL \/ s \in overlapped \cup late
<1>1. ASSUME IInv, [Next]_vars PROVE [Serve]_vars
  <2> SUFFICES ASSUME NEW s \in chain["mounted"], s \in chain'["mounted"],
                      reader["mounted"][s] # NULL, s \notin overlapped \cup late
               PROVE  reader'["mounted"][s] # NULL
    OBVIOUS
  <2>1. s \in Sources
    BY <1>1 DEF IInv, TypeOK, Gens
  <2>2. CASE Mount
    <3>1. dest[s] # NULL
      BY <1>1, <2>1 DEF IInv, FoundInv, Gens
    <3>2. chain'["mounted"] = chain["building"] /\ reader'["mounted"] = reader["building"]
      BY <1>1, <2>2 DEF Mount, IInv, TypeOK, Gens
    <3>3. s \in chain["building"] \ unread
      BY <2>2, <3>2 DEF Mount
    <3> QED
      BY <1>1, <2>1, <3>1, <3>2, <3>3 DEF IInv, FoundInv
  <2>3. CASE Crash
    BY <2>3 DEF Crash, Gens
  <2>4. CASE Select \/ \E t \in Sources : Build(t)
    <3>1. reader \in [Gens -> [Sources -> Files \cup {NULL}]]
      BY <1>1 DEF IInv, TypeOK
    <3>2. \E r : reader' = [reader EXCEPT !["building"] = r]
      BY <2>4 DEF Select, Build
    <3> QED
      BY <3>1, <3>2 DEF Gens
  <2>5. ASSUME NEW j \in Jobs, Open(j) PROVE reader'["mounted"][s] # NULL
    <3>1. PICK f \in Files \cup {NULL} :
             reader' = IF f = NULL \/ job[j].kind # "background" \/ job[j].gen = "gone" THEN reader
                       ELSE [reader EXCEPT ![job[j].gen][job[j].src] = f]
      BY <2>5 DEF Open
    <3>2. reader \in [Gens -> [Sources -> Files \cup {NULL}]]
      BY <1>1 DEF IInv, TypeOK
    <3>3. CASE reader' = reader
      BY <3>3
    <3>4. CASE f # NULL /\ reader' = [reader EXCEPT ![job[j].gen][job[j].src] = f]
      <4>1. reader["mounted"] \in [Sources -> Files \cup {NULL}]
        BY <3>2 DEF Gens
      <4> QED
        BY <2>1, <3>2, <3>4, <4>1 DEF Gens
    <3> QED
      BY <3>1, <3>3, <3>4
  <2>6. CASE UNCHANGED reader
    BY <2>6
  <2>7. \/ Mount \/ Crash \/ Select \/ UNCHANGED reader
        \/ (\E t \in Sources : Build(t)) \/ \E j \in Jobs : Open(j)
    <3>1. CASE UNCHANGED vars
      BY <3>1 DEF vars, chains
    <3>2. CASE WriteRow \/ Mark \/ \E t \in Sources : Consult(t)
      BY <3>2 DEF WriteRow, Mark, Consult, chains
    <3>3. ASSUME NEW j \in Jobs, Refresh(j) \/ Download(j)
          PROVE  UNCHANGED reader \/ Open(j)
      BY <3>3, Zenon DEF Refresh, Download, Create, GetFails, Write, WriteFails, Validate, Rename,
         Finish, chains
    <3> QED
      BY <1>1, <3>1, <3>2, <3>3 DEF Next
  <2> QED
    BY <2>2, <2>3, <2>4, <2>5, <2>6, <2>7
<1> QED
  BY <1>1, Invariance, PTL DEF Spec, ServesOn
=============================================================================
