# Verification of silo-plugin-support

TLA+ models of the support plugin (tickets, knowledge base, speed test, plugin
configuration), the TLC runs that check them on small instances, and the TLAPS
proofs of what matters most for every instance. Paths below are relative to the
repository.

## The system

One plugin process, started by a host, serves the HTTP requests the host
forwards. Every request runs in a goroutine of its own; the state is in one
PostgreSQL database. Almost every SQL statement is a transaction of its own at
READ COMMITTED: the code takes no lock, has no `SELECT ... FOR UPDATE`, and its
UPDATEs do not compare what an earlier SELECT read. So the typical handler is

    SELECT, checks in Go, UPDATE / INSERT, UPDATE / INSERT, ..., event, event

and anything can happen between two of these: other requests, a cron run that an
admin triggers, an error, the end of the process. Events (`ticket_replied`,
`kb_article_published`, ...) are handed to the host without waiting for it.

### Components, their state and what makes them correct

| Component | State | Operations | Correct if |
|---|---|---|---|
| Ticket lifecycle (`internal/tickets/lifecycle.go`, `TKUpdateTicketStatus`) | status, `waiting_since`, `resolved_at` of a ticket | the transition map, the reopen window, the UPDATE | stamps match the status after any sequence of moves |
| Ticket conversation (`handlers_tk_customer.go`, `handlers_tk_admin.go`, `tickets/cron.go`) | `tk_tickets`, `tk_ticket_entries`, `tk_audit_log`, events | reply, reopen, note, status, assign, auto-close | trail and events follow what was committed; closed tickets settle; idle tickets get closed |
| Ticket intake (`hTKCustomerCreate`) | the sequence row, tickets, entries, category fields | rate limit, cap, form, number, transaction, event | numbers are unique and ordered; forms respected; limits hold except when overtaken |
| Ticket attachments (`handlers_tk_attachments.go`) | `tk_attachments` | upload | limits overrun by a bounded amount only |
| KB articles (`kbWriteArticle`, `kb/slug.go`, `kb/cron.go`) | `kb_articles`, events | create, PUT, publish, unpublish, delete, PublishDue | published articles stamped; publications and events match; schedules fire once and when due |
| KB tags (`store/kb_tags.go`, tags in `kbWriteArticle`) | `kb_tags`, `kb_article_tags` | tags of a save, create, delete, merge | no dangling or double link; no half-done save; merges lose nothing they saw; deadlocks end |
| Plugin configuration (`main.go` applyConfig, `store/config.go`, `hPatchConfig`) | `app_config`, mounted handler, connection pool | Configure, Bootstrap, PATCH | the mounted handler has an open pool and a normalized row; no pool leaks |
| KB engagement (`hKBCustomerDetail`, `hKBCustomerVote`, `UnhelpfulSweep`) | votes, views, events | view, vote, sweep | one view a day counted, but for requests at once; the sweep reaches all of its list and announces published articles only |
| KB images (`handlers_kb_images.go`, `KBAdoptOrphanImages`) | `kb_images` | upload, adoption by a save | an image shown by an article has an owner |
| Speed test (`handlers_st_*.go`, `store/st_*.go`) | `st_results`, `st_endpoints`, events | save a result, edit endpoints | results are spaced, but for saves at once; results and events fit each other |
| GeoIP (`main.go` applyConfig, `speedtest/geoip/`) | `st_geoip_sources`, cached files, open readers, the chain | Configure, download and swap, refresh, lookup, edits of sources | lookups never meet a part of a file; a source that answers goes on answering |

Without state worth a model: HTTP routing, middleware and the single-page shell
(their gates are in the guards of the modelled handlers), migrations (the
constraints they declare are in the guards), full-text search (read-only), the
HTML sanitizer and URL guard (pure functions of text), the web client.
KB categories are single statements behind ON DELETE RESTRICT, a shape
TicketIntake has for ticket categories.

### Interactions

The handlers of a component meet in its tables only. Across components: intake
counts what the conversation's status writes make terminal (`StatusWritten` in
TicketIntake stands for all of them); an attachment hangs on an entry of a
ticket; a save of an article resolves its tags before its own transaction
begins (KBArticles has the article's side, KBTags the links' side); every
handler keeps the settings and the pool of the Configure that mounted it
(PluginConfig); the sweep walks articles that KBArticles' handlers publish, withdraw
and delete (`SetStatus` and `Delete` of KBReaders stand for them); the chain of
GeoIP sources belongs to one Configure, while the cached files belong to all.
Events leave the plugin and nothing comes back.

### What is hard

Stale reads followed by writes; checks (cap, limits, slug, tag, form) whose
answer is used statements later; a trail spread over several transactions;
errors that are dropped; the cron walking a list it selected earlier; lock waits
and deadlocks between transactions on link rows; the swap of handler and pool
in two steps under traffic; files downloaded through one temporary name while
readers hold the old ones open; a configuration row that is read and rewritten by
two writers. `PROJECT.json` lists each at its line with the properties aimed at
it.

## Modules

`TicketLifecycle` - the map `allowed`, `AllowTransition`, `AllowReopen`, the
idle predicates of the cron's SELECTs and the row that `TKUpdateTicketStatus`
leaves. Pure operators, shared by the next three.

`Tickets` - every handler that changes an existing ticket, and the cron. A
request's read and checks are one action (`CustomerReply`, `AdminStatus`, ...);
what follows is a fixed list of statements, `req[r].rest`, executed one action at
a time (`WriteStatus`, `WriteEntry`, `WriteAudit`, `Publish`, ...), in the order
of the code. `StatementFails` does what the code does with the error at that
place (return, drop it, skip the ticket); `Crash` ends all requests.

`TicketContract` - the abstract lifecycle: moves are indivisible, requests and
failures unknown. `TicketsSerial` maps Tickets onto it (`Abstract`) with requests
served one at a time.

`TicketIntake` - `hTKCustomerCreate` statement by statement and what its limits
look at. `earlier` and `counted` in a request are history variables that name
what its checks saw.

`TicketAttachments` - `hTKUploadAttachment` with unboundedly many uploads, at
most `Slots` of them under way at a time. Attachments are never deleted and the
limits look at two aggregates only, so these stand for the table. The limits are
constant: a Configure that changes them while an upload runs is left out.

`KBArticles` - create, PUT, publish, unpublish, delete, the slug search one SELECT
at a time, PublishDue, the events.

`KBTags` - the tag half of a save, deletion of articles, and the tags' own
handlers. The three transactions are modelled with what READ COMMITTED makes of
them: a statement works on the rows committed when it started, row by row in any
order (`target`), waits for rows another transaction has touched (`WaitsFor`),
and a cycle of waits is ended by aborting a member (`AbortDeadlocked`). A link
carries the request that inserted it, so that a row inserted anew is not
mistaken for the one a snapshot held.

`PluginConfig` - Configure (migrate, Bootstrap's read and write, SetHandler,
Swap, close of the old pool), PATCH, failures, crash and restart. Settings are
classified by what `NormalizeAppConfig` does with them (`rest`) and, for
`slow_threshold_mbps`, by whether it is 0 (`slow`): a legal value that the key's
`omitempty` keeps out of the row, so that it reads back as the default 5
(`Marshaled`). The other keys with `omitempty` lose nothing: their empty values are
their defaults, or become them in `NormalizeAppConfig`.

`KBReaders` - what readers do to articles: views (the INSERT ... WHERE NOT EXISTS in
two steps, snapshot and commit, because nothing is locked between them), votes,
the unhelpful sweep one article at a time, and images (upload, save, read back,
adopt). `seen` in a view is a history variable: the rows its INSERT looked at;
`steady` and `touched` say of each run which articles stayed published and low,
and which were written, since it selected them.

`SpeedTest` - endpoint edits, the page that offers endpoints, and
`hSTCustomerSaveResult`: rate check, INSERT with its foreign key, `speedtest_run`,
`speedtest_slow`. The settings a save works with are those of the handler that
serves it, so each request has its own.

`GeoIP` - sources of kind `mmdb_auto`. A Configure selects the rows (`Select`),
builds one source after the other (`Build`: open the cached file, start a
download) and mounts the chain (`Mount`). A download goes through `Create`,
`Write`, `Validate`, `Rename`, `Open`, `Finish`, and through a second try for last
month's file. `dest` and `tmp` name files, `content` says whether a file is whole;
a reader keeps the file it opened after another takes its name. `reader` has two
generations, the mounted chain and the one being built; downloads of earlier ones
go on writing files.

`TicketsProofs` (about Tickets and TicketsSerial), `TicketIntakeProofs` (about
TicketIntake and TicketAttachments, which is why the latter's definitions say
`Upload`), `KBArticlesProofs`, `KBTagsProofs`, `KBReadersProofs`, `SpeedTestProofs`,
`GeoIPProofs`, `PluginConfigProofs` - theorems. `MC*` - instances for TLC.

Definitions named `Mutant` in a comment are plausible bugs of the definition
they stand above; each property of a run is violated when one of them takes that
definition's place.

## Runs

| Run | Question | Instance | States |
|---|---|---|---|
| tickets_race | do trail, stamps, closed tickets and the auto-close survive interleaving and a fault? | 2 requests of any kind, cron runs among them, 2 tickets of which one is left to the cron, clock 0..2, 1 fault, fairness | 550 000 |
| tickets_serial | do the handlers implement TicketContract one at a time? | 1 ticket, 3 requests, clock 0..4, 1 fault | 780 000 |
| intake_race | numbers, form, and the limits when nobody overtakes | 2 requests, 1 customer, 1 field, cap 1, interval 1, 1 fault | 190 000 |
| attachments | by how much are the limits overrun? | 3 uploads at a time, any number in all, 2 tickets, limit 2, quota 3, bodies of 0..2 | 260 000 |
| kb_race | events, schedules and the cron's list under interleaving | 2 requests of any kind, cron runs among them, a draft or new article and a due draft left to the cron, 1 fault, fairness | 150 000 |
| kb_serial | slugs and schedules, one request at a time | 2 articles, 4 requests, suffixes up to 2 | 1 200 000 |
| kb_tags | links under all waits and aborts; does every request end? | 1 article, 3 tags, 2 slugs, 2 requests, 1 fault, fairness | 300 000 |
| kb_readers | views, sweep and images beside changes of articles | 3 requests, 2 articles, 2 customers, 1 image, 2 votes to count, 1 fault | 810 000 |
| config_race | pool, row and settings while Configures and a PATCH interleave | 3 Configures on 2 databases, 1 PATCH, 2 toggles, 1 fault | 5 600 000 |
| speedtest | spacing and events of results | 2 browsers, 2 customers, 1 endpoint, interval 2, clock 0..2, 2 results, 1 fault | 1 500 000 |
| geoip | whole files, service and staleness through downloads, Configures and crashes | 1 source, 2 downloads at a time, 4 files, 1 fault | 1 800 000 |
| tickets_forbidden_move | is the transition map kept? (no) | 1 ticket, 2 requests | violated |

What they show beyond the obvious:

- `CurrentMovesAllowed`, `ClosedSettles`: although the lifecycle map is not kept,
  it is only ever left by a request whose read was overtaken, and once no request
  from before the closing is left, a closed ticket is final.
- `TrailMatches`: entries, audit records and events are never ahead of the commit
  they tell of (except after an ignored error), and complete when nothing failed.
- `CapKeptUnlessOvertaken`, `SpacingKeptUnlessOvertaken`, `SpacedUnlessOvertaken`,
  `OneViewADayUnlessOvertaken`: these limits fail only against an action that was
  not committed when they looked, or on an error (`TKLastCustomerActionAt` answers
  an error with "never").
- `LimitsNearlyKept`: the bound is tight; TLC reaches it.
- `AnnouncementsMatch`, `EarlyOnlyIfOvertaken`: publish's conditional UPDATE makes
  races of the cron and of admins harmless; a schedule fires early only if it
  was changed after the run's SELECT.
- `MergeMovesWhatItSaw`: a merge keeps the links that were there when it began,
  unless the tag it moves them to is itself gone, as when two merges cross, or the
  link was put there by another merge and a save of its article has committed
  (`Overtaken`). The case meant by the latter: the save had listed the article's links
  before that merge, so it leaves the new link alone and deletes the one on account of
  which the later merge copies nothing. The state does not tell the order of the two,
  so `Overtaken` also excuses a link whose save was over earlier. The second exception takes two
  merges and a save. The attempt to prove the property without it found it; two
  requests, as in `kb_tags`, do not reach it. TLC was run once on three requests,
  merges and saves without labels (9.2 million states), and the theorem
  `MergesCorrect` covers any number.
- `MountedFitsRow`: the row of the mounted handler is normalized, and it reads as the
  handler's settings for as long as no Bootstrap was unable to read it, with one
  exception: a slow threshold of 0, which the handler has and the row does not. What
  the exception amounts to is under "Where code and documentation disagree".
- `SweepReachesAll`: an article that is not low, is deleted or fails does not keep
  the sweep from the others. `UnhelpfulIsPublished`: what the sweep announces was
  published, or was written after it had been listed.
- `ShownIsOwned`: the body read back after a save may be another save's, and the
  image still gets an owner.
- `EventsFitResults`: Configures and deleted endpoints silence no event; storing no
  address does (below).
- `WholeUnlessOverlapped`, `ServesOn`: the validation before the rename and the file
  an open reader keeps make failed downloads, crashes and Configures harmless;
  two downloads of one source at once do not stay apart (below).

### Bounds

Two requests show every race of one stale read with one write; three are taken
where a third changes the question (a vote between a view and a sweep, a reopen
after a close). A request has at most six statements, so one fault per behavior
meets each. The clock has just enough instants for a stamp, a cutoff after it,
and one more. `CronBatch` is above the number of tickets, equal to the number of
articles in kb_race, and 1 in kb_serial, where a run leaves drafts behind. Two
values of a key, of a slug or of a toggle are as many as a comparison can tell
apart. Slots = 3 lets two uploads overtake a third. Four files are a database, the
one a reader still holds, and one for each of two downloads.

Four runs check less than their constants say, by a predicate `Focus` of the MC
module: in `tickets_race` requests other than the cron leave t2 alone; in
`kb_race` they leave the second article alone, and rows begin as a due draft or
unborn; in `kb_readers` a behavior is about views, or votes and the sweep, or saves
and the sweep; in `geoip` one mark of a lookup is on its way at a time, one of the
two downloads goes to its second try, and once downloads have overlapped no
Configure begins and nothing else fails. Without these the instances have tens of
millions of states; the parts left out are covered by the theorems, which know no
`Focus`.

Symmetry is declared in
runs of safety properties only; the runs with fairness have none.

CHECK_DEADLOCK is off where a behavior ends with all requests served (or the
clock at its bound). It is on in `attachments`, where uploads go on for ever,
and in `kb_tags`, where `AllServed` is the only way to stop and a forgotten
deadlock of transactions would show.

### Fairness

Weak fairness of the steps of each request that has been received (`Step`,
`Serve`): the Go scheduler runs every goroutine, PostgreSQL answers or fails, and
its deadlock detector ends a cycle of waits. Nothing is assumed about the arrival
of requests, about faults (`Fail` and `Crash` are never forced), or about the
clock. In particular the cron runs only when an admin triggers it, and the
liveness properties start from a run that was received.

## Proofs

| Module | Theorems | Argument |
|---|---|---|
| `TicketsProofs` | `TypeCorrect`, `StampsCorrect`, `MovesCorrect`, `ClosedSettlesCorrect`, `ClosesWhatItSelects`, `TrailCorrect`, `ContractImplemented` | `IInv`: types, stamps, and for each request what its pending statements rely on. A pending UPDATE was checked against the map from the status the request believes in; so the UPDATE leaves the map only if the row has another status, and always leaves matching stamps. `ClosedSettles` follows because a request that arrives at a closed ticket never gets an UPDATE or a reply into its list. `ClosesWhatItSelects` is the safety half of `IdleIsClosed`: a ticket leaves a run's list only to be closed, whatever else happens, but for a fault. `TrailInductive` says of each request which of its records are written and which are still among its pending statements, so that a committed move is never without both. `SerialInv` says that with one request at a time what the request has read is still what is there; then each statement is a step of TicketContract or leaves `Abstract` alone, faults and crashes included. |
| `TicketIntakeProofs` | `TypeCorrect`, `FormCorrect`, `SpacingCorrect`, `NumbersCorrect`, `CapCorrect` | `RequestInv` says what the checks a request has passed still mean: the fields it found required are among those it will write, its count was below the cap, the actions its rate check could see are old enough (time only makes them older), and their requests are through, so a commit adds to nobody's past. Every number in use is below the sequence. |
| `TicketIntakeProofs`, of TicketAttachments | `UploadTypeCorrect`, `CountBounded`, `QuotaBounded`, `LimitsBounded` | `CountInv` adds to the stored attachments the uploads that have passed the check: while the limit is not reached, all slots but the passing one together cannot exceed the bound; afterwards the sum cannot grow. `QuotaInv` needs a witness: among the uploads let through, the last one to pass is charged with its own size, the others with MaxBytes. |
| `KBArticlesProofs` | `TypeCorrect`, `StampedCorrect`, `AnnouncementsCorrect`, `EarlyCorrect`, `SlugsCorrect`, `ScheduleCorrect`, `ListServed` | `IInv` ties each step of a request to its kind and its times; `Ledger` says of every publication who owes its event. With one request at a time, `SerialInv` says that what the request has read is still there (its slug is free, its list is of drafts with a time), and `Budget` that the cron's publications of an article and the time it may still have together are at most as many as the saves that gave it one. `ListServed` is the safety half of `CronServesItsList`: whatever drops off a run's list has stopped being a draft or is counted as missed, and no run ends over a list that is not empty unless a fault ends it. |
| `KBTagsProofs` | `TypeCorrect`, `SavesCorrect`, `MergesCorrect`, `LocksReleased` | `TInv` describes an open transaction by what it holds, has inserted and deleted (`Open`), keeps two of them from one article (`Apart`), and says what the commits of others leave standing of its work: a write of an article has deleted the links it still finds (`Clears`), a save has its links (`Relinks`), a merge its copies (`Copies`), with the exceptions the properties name. The waits are what keeps it: an insert does not pass an open insert or delete of its key, nor the delete of a parent row. `LocksReleased` is the safety half of `RequestsEnd`: nobody waits for a request that has ended. |
| `KBReadersProofs` | `TypeCorrect`, `ViewsCorrect`, `SweepComplete`, `ImagesCorrect`, `UnhelpfulCorrect` | `ViewInv`: rows closer than a day to a view under way were not there when it looked. `SweepInv`: what is steady and not announced is still to be visited. `ImageInv`: a shown image is owned, or some save that will adopt it has not ended. |
| `SpeedTestProofs` | `TypeCorrect`, `SpacedCorrect`, `EventsCorrect` | `SaveInv`: a save past the check finds no result of its customer within the interval among the first `seen` rows. `OwnRows`: no two saves announce the same row, so a row without its event is in the hands of one, had no address, or met a fault. |
| `GeoIPProofs` | `TypeCorrect`, `WholeCorrect`, `StaleCorrect`, `ServesOnCorrect` | `CleanInv`: while no two downloads of a source have met at the temporary file, it has one writer, is whole from the validation on, and is none of the files that lookups use; `Apart` keeps the files of two sources apart. `FoundInv` (for `ServesOn`) says that the chain being built has opened what there was, `FreshInv` (for `StaleOnlyByOthers`) who is about to open what was put there. |
| `PluginConfigProofs` | `TypeCorrect`, `NormalizedCorrect`, `PoolsCorrect`, `MountedCorrect`, `FitsRow` | `Owns` ties a Configure's program counter to its pool and row, `Accounted` gives every open pool an owner, and `Alone` (needed for `MountedCorrect` only) is what the host's serialization buys. `Sighted` (for `FitsRow`) says that, as long as no Bootstrap has failed to read its row, the settings a Configure or a PATCH has in hand would leave the same row (`Marshaled`) as a Bootstrap would now, whoever has written it since; and a row that the plugin wrote is `Stable`, it comes back as it was written. It needs no serialization. |

They hold for every value of the constants that satisfies the named ASSUMEs of
the modules. `MountedCorrect` has the explicit hypothesis `HostSerializes`;
`config_concurrent.cfg` shows that it fails without. Nothing else is assumed.

`NULL` is required to be no kind of request (`KindsAssumption`, `TagsAssumption`),
which a model value of its own always satisfies, and the links KBTags starts with to
be finitely many, as the rows of a table are.

Model-checked only: liveness (`IdleIsClosed`, `CronServesItsList`, `RequestsEnd`), as
fairness is out of the prover's reach; `ClosesWhatItSelects`, `ListServed` and
`LocksReleased` are what they need besides fairness. Every invariant and action property of the
passing runs is stated by a theorem.

## Where code and documentation disagree

One is a run of the project: `tickets_forbidden_move` (a closed ticket goes back to
work when an admin's UPDATE follows a read from before the closing). More
configurations beside the modules each produce a counterexample; they are not part
of the regular runs:

| Configuration | Module | Property | What the code does |
|---|---|---|---|
| `tickets_cron_silent` | MCTickets | EveryMoveAnnounced | the auto-close publishes no `ticket_status_changed` |
| `tickets_stale_from` | MCTickets | ReportedFromIsOld | the event's old status is the one read, not the one replaced |
| `tickets_idle_clock` | MCTickets | RepliesResetTheClock | replies do not reset the auto-close clock |
| `intake_cap_race` | MCTicketIntake | CapKept | two creates pass the cap together |
| `intake_spacing_race` | MCTicketIntake | SpacingKept | two actions pass the rate limit together |
| `kb_slug_race` | MCKBArticles | CollisionsGetSuffix | the later of two creates fails instead of getting a suffix |
| `kb_cron_stale` | MCKBArticles | CronPublishesDueOnly | a cleared schedule still fires from the run's list |
| `kb_tags_merge` | MCKBTags | MergeMovesAll | a merge loses links saved between its statements |
| `config_partial_patch` | MCPluginConfig | PatchIsPartial | a PATCH of one toggle turns the others off |
| `config_lost_patch` | MCPluginConfig | BootstrapRacesNobody | a PATCH during Bootstrap is lost |
| `config_round_trip` | MCPluginConfig | SettingsRoundTrip | a stored slow threshold of 0 ("disables the event") reaches the handler, but Bootstrap's write drops it (`omitempty`): the row reads 5 (no request stores a 0, an operator with SQL can), and the next Configure turns the event on again |
| `config_concurrent` | MCPluginConfig | MountedPoolOpen | two Configures at once close the mounted pool |
| `speedtest_off` | MCSpeedTest | EveryTestAnnounced | with `client_ip_storage = off` a result is stored and answered with 500, without events |
| `geoip_disabled` | MCGeoIP | DisabledIsSilent | a disabled source answers until the next Configure |
| `geoip_torn` | MCGeoIP | NeverTorn | two downloads of a source share the temporary file, and one renames what the other is writing |

In the models as what the code does, with nothing that refutes a run:

- `STInsertResult` (`st_results.go:28`) scans `host(client_ip)` into a string, which
  fails on NULL after the row is committed; so does a deleted endpoint, before.
- `hTKCustomerReply` and `hTKAdminReply` drop the error of their UPDATE and announce
  the change all the same.
- A publishing PUT emits `kb_article_updated`, not `kb_article_published`; publishing
  again and saving write another `published_at`; a PUT with another title changes
  the slug; a create may announce what the cron announced before it.
- A refresh by an administrator loads a source object of its own: the mounted chain
  keeps its reader until the next Configure (`StaleOnlyByOthers`). Downloads start
  at a Configure only, though the documentation says sources refresh themselves.
- A source whose very first download ends after the next Configure has looked for
  its file (`late`) answers nothing until a download of that Configure.
- `main.go:69` drops the error of the SELECT of sources: the chain comes up empty.
- `MarkUsed` overwrites the error a failed refresh has left in `last_status`.
- The sweep announces an article that was unpublished after its SELECT.

Seen while reading, outside the models: `clientIP` reads `RemoteAddr`, which is the
same for every forwarded request, so the database sources see one address;
`hSTAdminTestGeoIPSource` tests an `mmdb_auto` source without loading its file; with
no cache directory configured, an admin refresh and the mounted chain use different
directories; an `mmdb_file` source that fails to open stays failed; images are
never deleted.

## Not modelled

- The kinds of GeoIP source without a download (`mmdb_file`, `http_api` with its
  cache, `request_header`), the order of the chain, and the choice of an endpoint by
  country or latency: they read, and what they read is outside the plugin. Downloads
  of one source are taken to bring the same database, so last month's file and this
  month's are told apart by nothing.
- KB categories, labels, orders and full texts; full-text search; lists, counts,
  dashboards and history pages (read-only); serving of attachments and images.
- HTTP routing, middleware and the shell, migrations, the sanitizer and the URL
  guard, the web client: without state, or pure functions of text.
- Of lock waits on links: a row that is being inserted waits for its parents' rows
  before its key is there for others to meet (`LinkWaits`); PostgreSQL enters the
  key first. So one deadlock is missing: a merge that inserts a link while it waits
  for the article of a save with a new slug, and that save, which then inserts the
  same link. Here the save goes on and the merge after it; in PostgreSQL one of them
  is aborted, which for the tables and the locks is what a failed statement is, and
  those are modelled at every statement.
- A Configure that changes `geoip_cache_dir`: all Configures of GeoIP use one
  directory. With another one the sources start over without files, and answer
  nothing until a download of that Configure; files of the old directory stay.
- Of the configuration row, keys this version does not know: every write drops them.
- Of the ticket categories, subcategories and types of fields; of tags, the rename
  of a label, which nothing reads.

## What is left

A batch limit of 1 for the auto-close, with a failing oldest ticket.

## Running

    tlc -config tickets_race.cfg MCTickets
    tlapm TicketsProofs.tla

`PROJECT.json` names module and configuration of each run, maps each definition
to the lines it models, and lists hazards, mutants and theorems.
