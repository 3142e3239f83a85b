--------------------------------- MODULE GeoIP ---------------------------------
(***************************************************************************)
(* The mmdb_auto sources of the GeoIP chain: their rows, their databases   *)
(* in the cache directory, the downloads that replace these, and the chain *)
(* a Configure builds, which answers lookups from the files its readers    *)
(* have open.  Downloads run in the background of a Configure and in the   *)
(* administrator's refresh, each with a source object of its own, and meet *)
(* in two file names, <id>.mmdb and <id>.mmdb.new.                         *)
(*                                                                         *)
(* A file is what a name, a descriptor or a reader refers to (an inode).   *)
(* All downloads of a source bring the same bytes, so that a file is whole *)
(* once the last download to truncate it has written its last byte.        *)
(***************************************************************************)
EXTENDS Integers, FiniteSets

CONSTANTS
    NULL,
    Sources,       \* rows of kind mmdb_auto, their ids never reused
    Jobs,          \* downloads under way at a time
    Files,         \* bound: files in use at a time
    MaxFaults      \* bound: crashes and failed statements of a behavior

ASSUME GeoIPAssumption ==
    /\ NULL \notin Sources /\ NULL \notin Files
    /\ IsFiniteSet(Files)
    /\ MaxFaults \in Nat

VARIABLES
    row,           \* st_geoip_sources: whether there is a row, and active
    status,        \* its last_status
    chain,         \* sources of the mounted chain and of the one being built
    reader,        \* the file each source of a chain has open
    unread,        \* sources of the chain being built that are still to load
    configuring,   \* a Configure is at its chain
    up,            \* a handler is mounted
    dest, tmp,     \* the files of the two names
    content,       \* of every file
    owner,         \* the last download to truncate a file, if it still writes it
    job,           \* local state of every download
    marks,         \* status updates of lookups on their way
    installer,     \* history: the chain whose download last renamed a file to dest
    overlapped,    \* history: sources with two downloads at one temporary file
    late,          \* history: sources whose first database came after the chain
                   \* being built had looked for one
    faults

rows == <<row, status>>
chains == <<chain, reader, unread, configuring, up>>
disk == <<dest, tmp, content, owner>>
history == <<installer, overlapped, late>>
vars == <<rows, chains, disk, job, marks, history, faults>>

Gens == {"mounted", "building"}
Steps == {"idle", "get", "retry", "write", "write again", "validate",
          "validate again", "rename", "rename again", "open", "ok", "error"}
First == {"get", "write", "validate", "rename"}
JobStates ==
    [pc   : Steps,
     kind : {"background", "refresh", NULL},
     src  : Sources \cup {NULL},
     gen  : Gens \cup {"gone"},    \* the Configure whose handler and pool it has
     file : Files \cup {NULL}]     \* its descriptor
NoJob == [pc |-> "idle", kind |-> NULL, src |-> NULL, gen |-> "gone", file |-> NULL]

TypeOK ==
    /\ row \in [Sources -> {"unborn", "active", "inactive", "deleted"}]
    /\ status \in [Sources -> {"unmarked", "ok", "error"}]
    /\ chain \in [Gens -> SUBSET Sources]
    /\ reader \in [Gens -> [Sources -> Files \cup {NULL}]]
    /\ unread \subseteq Sources
    /\ configuring \in BOOLEAN /\ up \in BOOLEAN
    /\ dest \in [Sources -> Files \cup {NULL}]
    /\ tmp \in [Sources -> Files \cup {NULL}]
    /\ content \in [Files -> {"torn", "whole"}]
    /\ owner \in [Files -> Jobs \cup {NULL}]
    /\ job \in [Jobs -> JobStates]
    /\ marks \subseteq Sources \X {"ok", "error"}
    /\ installer \in [Sources -> Gens \cup {"gone"}]
    /\ overlapped \subseteq Sources
    /\ late \subseteq Sources
    /\ faults \in 0..MaxFaults

Nothing == [s \in Sources |-> NULL]

Init ==
    /\ row = [s \in Sources |-> "unborn"]
    /\ status = [s \in Sources |-> "unmarked"]
    /\ chain = [g \in Gens |-> {}]
    /\ reader = [g \in Gens |-> Nothing]
    /\ unread = {} /\ configuring = FALSE /\ up = FALSE
    /\ dest = Nothing /\ tmp = Nothing
    /\ content = [f \in Files |-> "torn"]
    /\ owner = [f \in Files |-> NULL]
    /\ job = [j \in Jobs |-> NoJob]
    /\ marks = {}
    /\ installer = [s \in Sources |-> "gone"]
    /\ overlapped = {}
    /\ late = {}
    /\ faults = 0

Exists(s) == row[s] \in {"active", "inactive"}
At(j, pc) == job[j].pc = pc
Becomes(j, q) == job' = [job EXCEPT ![j] = q]
Goto(j, pc) == Becomes(j, [job[j] EXCEPT !.pc = pc])

-----------------------------------------------------------------------------
(* Rows                                                                    *)

\* hSTAdminCreateGeoIPSource, hSTAdminUpdateGeoIPSource and
\* hSTAdminDeleteGeoIPSource.  None of them looks at the mounted chain.
WriteRow ==
    /\ \E s \in Sources, to \in {"active", "inactive", "deleted"} :
         /\ row[s] # "deleted" /\ to # row[s]
         /\ row[s] = "unborn" => to # "deleted"
         /\ row' = [row EXCEPT ![s] = to]
    /\ UNCHANGED <<status, chains, disk, job, marks, history, faults>>

\* STMarkGeoIPSourceRefreshed, STMarkGeoIPSourceStatus and STMarkGeoIPSourceUsed:
\* an UPDATE whose error every caller drops.
MarkStatus(s, to) ==
    \/ /\ status' = IF Exists(s) THEN [status EXCEPT ![s] = to] ELSE status
       /\ UNCHANGED faults
    \/ /\ faults < MaxFaults /\ faults' = faults + 1
       /\ UNCHANGED status

-----------------------------------------------------------------------------
(* Configure: the part of applyConfig that builds the chain                *)

\* STListGeoIPSources; its error is dropped, and the chain is empty then.
Select ==
    /\ ~configuring /\ configuring' = TRUE
    /\ \/ LET S == {s \in Sources : row[s] = "active"} IN
            /\ chain' = [chain EXCEPT !["building"] = S] /\ unread' = S
            /\ UNCHANGED faults
       \/ /\ faults < MaxFaults /\ faults' = faults + 1
          /\ chain' = [chain EXCEPT !["building"] = {}] /\ unread' = {}
    /\ reader' = [reader EXCEPT !["building"] = Nothing]
    /\ late' = {}
    /\ UNCHANGED <<rows, up, disk, job, marks, installer, overlapped>>

\* Opening what the name dest stands for: a torn file may look whole.
Opened(s, result) ==
    /\ result \in {dest[s], NULL}
    /\ dest[s] # NULL => content[dest[s]] = "torn" \/ result = dest[s]

\* LoadCached, and the start of the background download: a new object always
\* needs a refresh.
Build(s) ==
    /\ configuring /\ s \in unread /\ unread' = unread \ {s}
    /\ \E f \in Files \cup {NULL} :
         /\ Opened(s, f)
         /\ reader' = [reader EXCEPT !["building"][s] = f]
    /\ \E j \in Jobs :
         /\ At(j, "idle")
         /\ Becomes(j, [pc |-> "get", kind |-> "background", src |-> s,
                        gen |-> "building", file |-> NULL])
    /\ UNCHANGED <<rows, chain, configuring, up, disk, marks, history, faults>>

Older(gen) == IF gen = "building" THEN "mounted" ELSE "gone"

\* SetHandler, and Close of the old pool.
Mount ==
    /\ configuring /\ unread = {} /\ configuring' = FALSE /\ up' = TRUE
    /\ chain' = [chain EXCEPT !["mounted"] = chain["building"], !["building"] = {}]
    /\ reader' = [reader EXCEPT !["mounted"] = reader["building"], !["building"] = Nothing]
    /\ job' = [j \in Jobs |-> [job[j] EXCEPT !.gen = Older(job[j].gen)]]
    /\ installer' = [s \in Sources |-> Older(installer[s])]
    /\ late' = {}
    /\ UNCHANGED <<rows, unread, disk, marks, overlapped, faults>>

-----------------------------------------------------------------------------
(* Downloads: downloadMMDB and Refresh                                     *)

\* hSTAdminRefreshGeoIPSource, on the handler that is mounted.
Refresh(j) ==
    /\ up /\ At(j, "idle")
    /\ \E s \in Sources :
         /\ Exists(s)
         /\ Becomes(j, [pc |-> "get", kind |-> "refresh", src |-> s,
                        gen |-> "mounted", file |-> NULL])
    /\ UNCHANGED <<rows, chains, disk, marks, history, faults>>

\* The step after pc, of the first try or of the second.
Then(pc, first, again) == IF pc \in First THEN first ELSE again

\* A try fails: the URL of the month before, then the end of the refresh.
TryFails(j) == Becomes(j, [job[j] EXCEPT !.pc = Then(@, "retry", "error"), !.file = NULL])

InUse(f) ==
    \/ \E s \in Sources : f \in {dest[s], tmp[s]} \cup {reader[g][s] : g \in Gens}
    \/ \E j \in Jobs : job[j].file = f

AtTmp(s) == {j \in Jobs : job[j].src = s /\ job[j].file # NULL}

\* Mutant: the download goes to dest.
CreateInPlace(j) ==
    LET s == job[j].src IN
    /\ job[j].pc \in {"get", "retry"}
    /\ \E f \in Files :
         /\ f = dest[s] \/ (dest[s] = NULL /\ ~InUse(f))
         /\ dest' = [dest EXCEPT ![s] = f] /\ tmp' = [tmp EXCEPT ![s] = f]
         /\ content' = [content EXCEPT ![f] = "torn"]
         /\ owner' = [owner EXCEPT ![f] = j]
         /\ Becomes(j, [job[j] EXCEPT !.pc = Then(@, "write", "write again"), !.file = f])
    /\ overlapped' = IF AtTmp(s) # {} THEN overlapped \cup {s} ELSE overlapped
    /\ UNCHANGED <<rows, chains, marks, installer, late, faults>>

\* The server answers, and os.Create truncates <id>.mmdb.new or makes it.
Create(j) ==
    LET s == job[j].src IN
    /\ job[j].pc \in {"get", "retry"}
    /\ \E f \in Files :
         /\ f = tmp[s] \/ (tmp[s] = NULL /\ ~InUse(f))
         /\ tmp' = [tmp EXCEPT ![s] = f]
         /\ content' = [content EXCEPT ![f] = "torn"]
         /\ owner' = [owner EXCEPT ![f] = j]
         /\ Becomes(j, [job[j] EXCEPT !.pc = Then(@, "write", "write again"), !.file = f])
    /\ overlapped' = IF AtTmp(s) # {} THEN overlapped \cup {s} ELSE overlapped
    /\ UNCHANGED <<rows, chains, dest, marks, installer, late, faults>>

\* A refused URL, no answer, none with status 200, or no file to write it to.
GetFails(j) ==
    /\ job[j].pc \in {"get", "retry"}
    /\ TryFails(j)
    /\ UNCHANGED <<rows, chains, disk, marks, history, faults>>

Disown(f, j) == IF owner[f] = j THEN NULL ELSE owner[f]

\* Copy and Sync.
Write(j) ==
    LET f == job[j].file IN
    /\ job[j].pc \in {"write", "write again"}
    /\ content' = IF owner[f] = j THEN [content EXCEPT ![f] = "whole"] ELSE content
    /\ owner' = [owner EXCEPT ![f] = Disown(f, j)]
    /\ Goto(j, Then(job[j].pc, "validate", "validate again"))
    /\ UNCHANGED <<rows, chains, dest, tmp, marks, history, faults>>

\* Mutant: the clean-up takes the wrong name.
WriteFailsRemoveDest(j) ==
    LET f == job[j].file IN
    /\ job[j].pc \in {"write", "write again"}
    /\ dest' = [dest EXCEPT ![job[j].src] = NULL]
    /\ owner' = [owner EXCEPT ![f] = Disown(f, j)]
    /\ TryFails(j)
    /\ UNCHANGED <<rows, chains, tmp, content, marks, history, faults>>

\* The connection breaks, or what came is no database: os.Remove(tmp), whosever
\* file has that name.
WriteFails(j) ==
    LET f == job[j].file IN
    /\ job[j].pc \in {"write", "write again"}
    /\ tmp' = [tmp EXCEPT ![job[j].src] = NULL]
    /\ owner' = [owner EXCEPT ![f] = Disown(f, j)]
    /\ TryFails(j)
    /\ UNCHANGED <<rows, chains, dest, content, marks, history, faults>>

\* geoip2.Open(tmp): a torn file may pass, and is removed when it does not.
Validate(j) ==
    LET s == job[j].src IN
    /\ job[j].pc \in {"validate", "validate again"}
    /\ \/ /\ tmp[s] # NULL
          /\ Goto(j, Then(job[j].pc, "rename", "rename again"))
          /\ UNCHANGED tmp
       \/ /\ tmp[s] # NULL => content[tmp[s]] = "torn"
          /\ tmp' = [tmp EXCEPT ![s] = NULL]
          /\ TryFails(j)
    /\ UNCHANGED <<rows, chains, dest, content, owner, marks, history, faults>>

\* os.Rename(tmp, dest), which fails when another download has taken the name.
Rename(j) ==
    LET s == job[j].src IN
    /\ job[j].pc \in {"rename", "rename again"}
    /\ IF tmp[s] = NULL
       THEN TryFails(j) /\ UNCHANGED <<dest, tmp, installer, late>>
       ELSE /\ dest' = [dest EXCEPT ![s] = tmp[s]]
            /\ tmp' = [tmp EXCEPT ![s] = NULL]
            /\ installer' = [installer EXCEPT ![s] =
                 IF job[j].kind = "background" THEN job[j].gen ELSE "gone"]
            /\ late' = IF dest[s] = NULL /\ s \in chain["building"] \ unread
                       THEN late \cup {s} ELSE late
            /\ Becomes(j, [job[j] EXCEPT !.pc = "open", !.file = NULL])
    /\ UNCHANGED <<rows, chains, content, owner, marks, overlapped, faults>>

\* Mutant: a reader that is open is kept.
OpenOnce(j) ==
    LET q == job[j] IN
    /\ At(j, "open")
    /\ \E f \in Files \cup {NULL} :
         /\ Opened(q.src, f)
         /\ Goto(j, IF f = NULL THEN "error" ELSE "ok")
         /\ reader' = IF f = NULL \/ q.kind # "background" \/ q.gen = "gone" THEN reader
                      ELSE IF reader[q.gen][q.src] # NULL THEN reader
                      ELSE [reader EXCEPT ![q.gen][q.src] = f]
    /\ UNCHANGED <<rows, chain, unread, configuring, up, disk, marks, history, faults>>

\* mmdbReader.Open: the new reader takes the place of the old one; a file that
\* does not open leaves it.  The reader of a refresh belongs to nobody.
Open(j) ==
    LET q == job[j] IN
    /\ At(j, "open")
    /\ \E f \in Files \cup {NULL} :
         /\ Opened(q.src, f)
         /\ Goto(j, IF f = NULL THEN "error" ELSE "ok")
         /\ reader' = IF f = NULL \/ q.kind # "background" \/ q.gen = "gone" THEN reader
                      ELSE [reader EXCEPT ![q.gen][q.src] = f]
    /\ UNCHANGED <<rows, chain, unread, configuring, up, disk, marks, history, faults>>

\* Mutant: the job is reset before its outcome is read.
FinishReset(j) ==
    /\ job[j].pc \in {"ok", "error"}
    /\ IF job[j].gen = "gone" THEN UNCHANGED <<status, faults>>
       ELSE MarkStatus(job[j].src, NoJob.pc)
    /\ Becomes(j, NoJob)
    /\ UNCHANGED <<row, chains, disk, marks, history>>

\* The status of the row is marked, through the pool of the job's own Configure.
Finish(j) ==
    /\ job[j].pc \in {"ok", "error"}
    /\ IF job[j].gen = "gone" THEN UNCHANGED <<status, faults>>
       ELSE MarkStatus(job[j].src, job[j].pc)
    /\ Becomes(j, NoJob)
    /\ UNCHANGED <<row, chains, disk, marks, history>>

-----------------------------------------------------------------------------
(* Lookups                                                                 *)

\* Chain.Resolve comes to source s.  Without a reader, or a record for the
\* address, it goes on to the next one; a torn file may fail as well.
Consult(s) ==
    LET f == reader["mounted"][s] IN
    /\ s \in chain["mounted"] /\ f # NULL
    /\ \E outcome \in {"ok", "error"} :
         /\ outcome = "error" => content[f] = "torn"
         /\ marks' = marks \cup {<<s, outcome>>}
    /\ UNCHANGED <<rows, chains, disk, job, history, faults>>

\* MarkUsed and MarkStatus of the sink.
Mark ==
    /\ \E m \in marks : MarkStatus(m[1], m[2]) /\ marks' = marks \ {m}
    /\ UNCHANGED <<row, chains, disk, job, history>>

-----------------------------------------------------------------------------
\* The process dies: the files stay as they are.
Crash ==
    /\ faults < MaxFaults /\ faults' = faults + 1
    /\ chain' = [g \in Gens |-> {}]
    /\ reader' = [g \in Gens |-> Nothing]
    /\ unread' = {} /\ configuring' = FALSE /\ up' = FALSE
    /\ owner' = [f \in Files |-> NULL]
    /\ job' = [j \in Jobs |-> NoJob]
    /\ marks' = {}
    /\ installer' = [s \in Sources |-> "gone"] /\ late' = {}
    /\ UNCHANGED <<rows, dest, tmp, content, overlapped>>

Download(j) ==
    \/ Create(j) \/ GetFails(j) \/ Write(j) \/ WriteFails(j) \/ Validate(j)
    \/ Rename(j) \/ Open(j) \/ Finish(j)

Next ==
    \/ WriteRow \/ Select \/ Mount \/ Mark \/ Crash
    \/ \E s \in Sources : Build(s) \/ Consult(s)
    \/ \E j \in Jobs : Refresh(j) \/ Download(j)

Spec == Init /\ [][Next]_vars

-----------------------------------------------------------------------------
(* Properties                                                              *)

Torn(f) == f # NULL /\ content[f] = "torn"

\* WholeUnlessOverlapped: the database of a source, and the one a reader has
\* open, is a complete download, through failed downloads, crashes in the middle
\* of one and Configures, unless two downloads of the source were at the
\* temporary file together.
WholeUnlessOverlapped ==
    \A s \in Sources :
        Torn(dest[s]) \/ (\E g \in Gens : Torn(reader[g][s])) => s \in overlapped

\* ServesOn: a source that answers goes on answering: no failed refresh, no
\* Configure that keeps it in the chain and no deleted temporary file takes the
\* database from it, unless its downloads have overlapped or its very first
\* database came when a Configure had already looked for one.
ServesOn ==
    [][\A s \in chain["mounted"] \cap chain'["mounted"] :
          reader["mounted"][s] # NULL
          => reader'["mounted"][s] # NULL \/ s \in overlapped \cup late]_vars

\* StaleOnlyByOthers: the mounted chain answers from another file than the one in
\* the cache only if that one was put there by an administrator's refresh or by a
\* download of an earlier Configure, or is about to be opened.
StaleOnlyByOthers ==
    \A s \in chain["mounted"] :
        \/ reader["mounted"][s] = dest[s]
        \/ installer[s] # "mounted"
        \/ \E j \in Jobs : At(j, "open") /\ job[j].src = s
        \/ s \in overlapped

\* DisabledIsSilent: a source that has been disabled does not answer ("Admin
\* disables the geoip source; "Auto" falls through to the first enabled endpoint",
\* 2026-05-21-support-speedtest-design.md).
DisabledIsSilent ==
    [][\A s \in Sources : <<s, "ok">> \in marks' \ marks => row[s] = "active"]_vars

\* NeverTorn: the download "atomically renames into dest" a file it validated
\* (downloader.go).
NeverTorn == \A s \in Sources : ~Torn(dest[s])
=============================================================================
