------------------------------ MODULE KBArticles ------------------------------
(***************************************************************************)
(* Articles of the knowledge base: the admin handlers that write them      *)
(* (create, PUT, publish, unpublish, delete), the PublishDue pass of the   *)
(* cron and the events they emit.  A save is a search for a free slug, one *)
(* SELECT per candidate, then one transaction, then a SELECT of what was   *)
(* written; every such statement is an action of its own.                  *)
(*                                                                         *)
(* Of an article's columns the model keeps the slug, the status and the    *)
(* two times.  A slug is the slugified title (or slug field) with the      *)
(* number UniqueSlug appends to it, 1 standing for none.  A request        *)
(* refused before its first write ends without effect.                     *)
(***************************************************************************)
EXTENDS Integers, FiniteSets

CONSTANTS
    NULL,
    Articles,      \* ids of articles, never reused
    Requests,      \* requests of admins and runs of the cron, each served once
    Bases,         \* results of Slugify
    MaxSuffix,     \* UniqueSlug gives up beyond this number (99 in the code)
    CronBatch,     \* the limit of KBPendingPublishes (100 in the code)
    MaxNow,        \* bound: the clock stops here
    MaxFaults      \* bound: failed statements and crashes of a behavior

ASSUME ArticlesAssumption ==
    /\ NULL \notin Int /\ NULL \notin Articles
    /\ MaxSuffix \in Nat \ {0} /\ CronBatch \in Nat \ {0}
    /\ MaxNow \in Nat /\ MaxFaults \in Nat

VARIABLES
    now,
    article,       \* kb_articles
    req,           \* local state of every request
    publications,  \* history: who took which article from not published to published
    announced,     \* kb_article_published events
    updated,       \* kb_article_updated events
    faults

tables == <<article, publications, announced, updated>>
vars == <<now, tables, req, faults>>

Instants == 0..MaxNow
Kinds == {"create", "put", "publish", "unpublish", "delete", "cron"}
Steps == {"new", "probe", "save", "reload", "announce",
          "publish", "unpublish", "delete", "select", "due",
          "done", "conflict", "fault"}
Ended == {"done", "conflict", "fault"}

NoSlug == <<NULL, 0>>
Slugs == {NoSlug} \cup (Bases \X (1..MaxSuffix))

\* "unborn" and "deleted" stand for an id without a row.
Rows == [status       : {"unborn", "draft", "published", "deleted"},
         slug         : Slugs,
         publish_at   : Instants \cup {NULL},
         published_at : Instants \cup {NULL}]
NoRow(status) == [status |-> status, slug |-> NoSlug,
                  publish_at |-> NULL, published_at |-> NULL]

RequestStates ==
    [pc         : Steps,
     kind       : Kinds \cup {NULL},
     id         : Articles \cup {NULL},
     base       : Bases \cup {NULL},
     from       : {"title", "slug"},     \* what base was made of
     n          : 1..MaxSuffix,
     status     : {"draft", "published"},
     publish_at : Instants \cup {NULL},
     stamp      : Instants \cup {NULL},  \* in.PublishedAt
     was        : {"unborn", "draft", "published", "deleted"},   \* history: before the save
     due        : [Articles -> Instants \cup {NULL}],            \* the cron's list
     missed     : SUBSET Articles]       \* history: articles it failed on

Nothing == [a \in Articles |-> NULL]
NewRequest ==
    [pc |-> "new", kind |-> NULL, id |-> NULL, base |-> NULL, from |-> "title", n |-> 1,
     status |-> "draft", publish_at |-> NULL, stamp |-> NULL, was |-> "unborn",
     due |-> Nothing, missed |-> {}]

TypeOK ==
    /\ now \in Instants
    /\ article \in [Articles -> Rows]
    /\ req \in [Requests -> RequestStates]
    /\ publications \subseteq Requests \X Articles
    /\ announced \subseteq Requests \X Articles
    /\ updated \subseteq Requests \X Articles
    /\ faults \in 0..MaxFaults

Init ==
    /\ now = 0
    /\ article = [a \in Articles |-> NoRow("unborn")]
    /\ req = [r \in Requests |-> NewRequest]
    /\ publications = {} /\ announced = {} /\ updated = {}
    /\ faults = 0

Exists(a) == article[a].status \in {"draft", "published"}
At(r, pc) == req[r].pc = pc
Becomes(r, q) == req' = [req EXCEPT ![r] = q]
Goto(r, pc) == Becomes(r, [req[r] EXCEPT !.pc = pc])

-----------------------------------------------------------------------------
(* Saving an article                                                       *)

\* kbWriteArticle, up to the search for a slug.
Create(r) ==
    /\ At(r, "new")
    /\ \E b \in Bases, s \in {"draft", "published"}, at \in Instants \cup {NULL} :
         Becomes(r, [NewRequest EXCEPT !.pc = "probe", !.kind = "create",
                                       !.base = b, !.status = s, !.publish_at = at])
    /\ UNCHANGED <<now, tables, faults>>

Put(r) ==
    /\ At(r, "new")
    /\ \E a \in Articles, b \in Bases, from \in {"title", "slug"},
          s \in {"draft", "published"}, at \in Instants \cup {NULL} :
         /\ article[a].status # "unborn"
         /\ Becomes(r, [NewRequest EXCEPT !.pc = "probe", !.kind = "put", !.id = a,
                                          !.base = b, !.from = from, !.status = s,
                                          !.publish_at = at])
    /\ UNCHANGED <<now, tables, faults>>

\* Mutant: only published articles are looked at.
SlugExistsPublished(slug, excludeID) ==
    \E a \in Articles \ {excludeID} : article[a].status = "published" /\ article[a].slug = slug

\* KBArticleSlugExists.
SlugExists(slug, excludeID) == \E a \in Articles \ {excludeID} : article[a].slug = slug

\* One round of UniqueSlug.  With a free slug in hand the handler fills in the
\* article, PublishedAt included.
Probe(r) ==
    LET q == req[r]
        taken == SlugExists(<<q.base, q.n>>, q.id)
    IN
    /\ At(r, "probe")
    /\ \/ /\ ~taken
          /\ Becomes(r, [q EXCEPT !.pc = "save",
                                  !.stamp = IF q.status = "published" THEN now ELSE NULL])
       \/ /\ taken /\ q.n < MaxSuffix
          /\ Becomes(r, [q EXCEPT !.n = q.n + 1])
       \/ /\ taken /\ q.n = MaxSuffix
          /\ Goto(r, "fault")
    /\ UNCHANGED <<now, tables, faults>>

\* Mutant: the zero time for an article that is not published.
SavedZeroTime(q) == [status |-> q.status, slug |-> <<q.base, q.n>>,
                     publish_at |-> q.publish_at,
                     published_at |-> IF q.stamp = NULL THEN -1 ELSE q.stamp]

Saved(q) == [status |-> q.status, slug |-> <<q.base, q.n>>,
             publish_at |-> q.publish_at, published_at |-> q.stamp]

\* The transaction of KBSaveArticle for article a: UNIQUE (slug) refuses a slug
\* another article has got since it was probed.
SaveAs(r, a) ==
    LET q == req[r] IN
    IF \E b \in Articles \ {a} : article[b].slug = <<q.base, q.n>>
    THEN Goto(r, "conflict") /\ UNCHANGED <<article, publications>>
    ELSE /\ article' = [article EXCEPT ![a] = Saved(q)]
         /\ Becomes(r, [q EXCEPT !.pc = "reload", !.id = a, !.was = article[a].status])
         /\ publications' = IF q.status = "published" /\ article[a].status # "published"
                            THEN publications \cup {<<r, a>>} ELSE publications

Save(r) ==
    LET q == req[r] IN
    /\ At(r, "save")
    /\ \/ /\ q.kind = "create"
          /\ \E a \in Articles : article[a].status = "unborn" /\ SaveAs(r, a)
       \/ q.kind = "put" /\ Exists(q.id) /\ SaveAs(r, q.id)
       \/ /\ q.kind = "put" /\ ~Exists(q.id)      \* ErrNotFound
          /\ Goto(r, "done")
          /\ UNCHANGED <<article, publications>>
    /\ UNCHANGED <<now, announced, updated, faults>>

\* KBGetArticleByID: the handler goes by the status it reads now.
Reload(r) ==
    /\ At(r, "reload")
    /\ Goto(r, IF article[req[r].id].status = "published" THEN "announce" ELSE "done")
    /\ UNCHANGED <<now, tables, faults>>

-----------------------------------------------------------------------------
(* Publish, unpublish, delete                                              *)

Address(r, kind) ==
    /\ At(r, "new")
    /\ \E a \in Articles :
         /\ article[a].status # "unborn"
         /\ Becomes(r, [NewRequest EXCEPT !.pc = kind, !.kind = kind, !.id = a])
    /\ UNCHANGED <<now, tables, faults>>

\* Mutants of the UPDATE: it forgets AND status = 'draft'; it leaves publish_at alone.
PublishArticleAnyStatus(r, a) ==
    /\ Exists(a)
    /\ article' = [article EXCEPT ![a].status = "published",
                       ![a].published_at = now, ![a].publish_at = NULL]
    /\ publications' = IF article[a].status = "draft"
                       THEN publications \cup {<<r, a>>} ELSE publications
PublishArticleStillDue(r, a) ==
    /\ article[a].status = "draft"
    /\ article' = [article EXCEPT ![a].status = "published", ![a].published_at = now]
    /\ publications' = publications \cup {<<r, a>>}

\* The UPDATE of KBPublishArticle.
PublishArticle(r, a) ==
    /\ article[a].status = "draft"
    /\ article' = [article EXCEPT ![a].status = "published",
                       ![a].published_at = now, ![a].publish_at = NULL]
    /\ publications' = publications \cup {<<r, a>>}

Publish(r) ==
    /\ At(r, "publish")
    /\ \/ PublishArticle(r, req[r].id) /\ Goto(r, "announce")
       \/ /\ article[req[r].id].status # "draft"      \* 404 or 409
          /\ Goto(r, "done")
          /\ UNCHANGED <<article, publications>>
    /\ UNCHANGED <<now, announced, updated, faults>>

\* KBUnpublishArticle.
Unpublish(r) ==
    LET a == req[r].id IN
    /\ At(r, "unpublish")
    /\ article' = IF article[a].status = "published"
                  THEN [article EXCEPT ![a].status = "draft"] ELSE article
    /\ Goto(r, "done")
    /\ UNCHANGED <<now, publications, announced, updated, faults>>

\* KBDeleteArticle.
Delete(r) ==
    LET a == req[r].id IN
    /\ At(r, "delete")
    /\ article' = IF Exists(a) THEN [article EXCEPT ![a] = NoRow("deleted")] ELSE article
    /\ Goto(r, "done")
    /\ UNCHANGED <<now, publications, announced, updated, faults>>

-----------------------------------------------------------------------------
(* The cron                                                                *)

RunCron(r) ==
    /\ At(r, "new")
    /\ Becomes(r, [NewRequest EXCEPT !.pc = "select", !.kind = "cron"])
    /\ UNCHANGED <<now, tables, faults>>

\* Mutant: drafts with any publish_at.
DueScheduled == {a \in Articles : article[a].status = "draft" /\ article[a].publish_at # NULL}

Due == {a \in Articles : /\ article[a].status = "draft"
                         /\ article[a].publish_at # NULL
                         /\ article[a].publish_at <= now}

ListOf(S) == [a \in Articles |-> IF a \in S THEN article[a].publish_at ELSE NULL]

\* KBPendingPublishes: the first CronBatch of them by publish_at.
Select(r) ==
    /\ At(r, "select")
    /\ \E S \in SUBSET Due :
         /\ Cardinality(S) <= CronBatch
         /\ Cardinality(S) < CronBatch => S = Due
         /\ \A s \in S, d \in Due \ S : article[s].publish_at <= article[d].publish_at
         /\ Becomes(r, [req[r] EXCEPT !.pc = "due", !.due = ListOf(S)])
    /\ UNCHANGED <<now, tables, faults>>

Listed(r) == {a \in Articles : req[r].due[a] # NULL}
NextDue(r, a) == a \in Listed(r) /\ \A b \in Listed(r) : req[r].due[a] <= req[r].due[b]

\* Mutant: PublishDue returns on the first error.
SkipReturns(r, a) ==
    /\ article[a].status # "draft"
    /\ Becomes(r, [req[r] EXCEPT !.pc = "done", !.due = Nothing])
    /\ UNCHANGED <<article, publications>>

\* `continue`: the article is not a draft any more.
Skip(r, a) ==
    /\ article[a].status # "draft"
    /\ Becomes(r, [req[r] EXCEPT !.due[a] = NULL])
    /\ UNCHANGED <<article, publications>>

\* The loop of PublishDue.
PublishDue(r) ==
    /\ At(r, "due")
    /\ \/ \E a \in Articles :
            /\ NextDue(r, a)
            /\ \/ /\ PublishArticle(r, a)
                  /\ Becomes(r, [req[r] EXCEPT !.pc = "announce", !.id = a, !.due[a] = NULL])
               \/ Skip(r, a)
       \/ /\ Listed(r) = {}
          /\ Goto(r, "done")
          /\ UNCHANGED <<article, publications>>
    /\ UNCHANGED <<now, announced, updated, faults>>

\* kbPublishEvent, for all of them.  The row that publish and the cron announce is
\* what their UPDATE returned.
Announce(r) ==
    LET q == req[r] IN
    /\ At(r, "announce")
    /\ IF q.kind = "put"
       THEN updated' = updated \cup {<<r, q.id>>} /\ UNCHANGED announced
       ELSE announced' = announced \cup {<<r, q.id>>} /\ UNCHANGED updated
    /\ Goto(r, IF q.kind = "cron" THEN "due" ELSE "done")
    /\ UNCHANGED <<now, article, publications, faults>>

-----------------------------------------------------------------------------
(* Faults and time                                                         *)

\* A statement of r fails.  The handlers give up; the loop of the cron goes on,
\* whether the UPDATE of an article failed or the SELECT of its tags after it.
Fail(r) ==
    LET q == req[r] IN
    /\ faults < MaxFaults /\ faults' = faults + 1
    /\ \/ /\ q.pc \notin Ended \cup {"new", "due"}
          /\ ~(q.pc = "announce" /\ q.kind = "cron")
          /\ Becomes(r, [q EXCEPT !.pc = "fault", !.missed = @ \cup ({q.id} \cap Articles)])
       \/ /\ q.pc = "announce" /\ q.kind = "cron"
          /\ Becomes(r, [q EXCEPT !.pc = "due", !.missed = @ \cup {q.id}])
       \/ \E a \in Articles :
            /\ q.pc = "due" /\ NextDue(r, a)
            /\ Becomes(r, [q EXCEPT !.due[a] = NULL, !.missed = @ \cup {a}])
    /\ UNCHANGED <<now, tables>>

\* The process dies, and every request with it.
Crash ==
    /\ faults < MaxFaults /\ faults' = faults + 1
    /\ req' = [r \in Requests |->
                 IF req[r].pc \in Ended \cup {"new"} THEN req[r]
                 ELSE [req[r] EXCEPT !.pc = "fault", !.missed = Articles]]
    /\ UNCHANGED <<now, tables>>

Tick ==
    /\ now < MaxNow
    /\ now' = now + 1
    /\ UNCHANGED <<tables, req, faults>>

-----------------------------------------------------------------------------
Arrive(r) ==
    \/ Create(r) \/ Put(r) \/ RunCron(r)
    \/ \E kind \in {"publish", "unpublish", "delete"} : Address(r, kind)

Serve(r) ==
    \/ Probe(r) \/ Save(r) \/ Reload(r) \/ Announce(r)
    \/ Publish(r) \/ Unpublish(r) \/ Delete(r)
    \/ Select(r) \/ PublishDue(r)

Next ==
    \/ \E r \in Requests : Arrive(r) \/ Serve(r) \/ Fail(r)
    \/ Crash
    \/ Tick

Spec == Init /\ [][Next]_vars

\* A request that was received is served to its end, unless the process dies.
FairSpec == Spec /\ \A r \in Requests : WF_vars(Serve(r))

\* Requests come one at a time.
Quiet == \A r \in Requests : req[r].pc \in Ended \cup {"new"}

SerialNext ==
    \/ \E r \in Requests : (Quiet /\ Arrive(r)) \/ Serve(r) \/ Fail(r)
    \/ Crash
    \/ Tick

SerialSpec == Init /\ [][SerialNext]_vars
-----------------------------------------------------------------------------
(* Properties                                                              *)

\* PublishedIsStamped: whatever sequence of saves, publishes and unpublishes led
\* there, a published article has a published_at, and not one of the future (the
\* lists are ordered by it; PUT writes it from the handler, publish from the UPDATE).
PublishedIsStamped ==
    \A a \in Articles : article[a].status = "published" =>
        article[a].published_at # NULL /\ article[a].published_at <= now

Finished(r, a) ==
    \/ req[r].pc \in Ended
    \/ req[r].kind = "cron" /\ req[r].pc = "due" /\ a \notin Listed(r)

\* AnnouncementsMatch: two cron runs and manual publishes that race for one
\* article announce each publication once, by the request whose UPDATE flipped
\* it, and a create announces only an article that has been published; no
\* publication by publish or the cron goes unannounced unless a statement failed
\* or the process died.
AnnouncementsMatch ==
    /\ \A e \in announced :
         IF req[e[1]].kind = "create" THEN \E s \in Requests : <<s, e[2]>> \in publications
                                      ELSE e \in publications
    /\ \A p \in publications :
         /\ req[p[1]].kind \in {"publish", "cron"}
         /\ Finished(p[1], p[2]) /\ p[2] \notin req[p[1]].missed
         => p \in announced

CronPublishes(r, a) ==
    /\ req[r].kind = "cron"
    /\ <<r, a>> \in publications' \ publications

IsDue(a) == article[a].publish_at # NULL /\ article[a].publish_at <= now

\* EarlyOnlyIfOvertaken: the cron publishes an article that is not due only when
\* its schedule was changed after the run selected it.
EarlyOnlyIfOvertaken ==
    [][\A r \in Requests, a \in Articles : CronPublishes(r, a) =>
          IsDue(a) \/ article[a].publish_at # req[r].due[a]]_vars

\* CronServesItsList: an article a cron run has selected stops being a draft,
\* whatever other requests do to the rest of the list, unless a statement of the
\* run fails or the process dies.
CronServesItsList ==
    \A r \in Requests, a \in Articles :
        a \in Listed(r) ~> article[a].status # "draft" \/ a \in req[r].missed

Saves(a) == {r \in Requests : /\ req[r].id = a /\ req[r].publish_at # NULL
                              /\ \/ req[r].kind = "create"
                                 \/ req[r].kind = "put" /\ req[r].was # "unborn"}

\* ScheduleFiresOnce: with requests one at a time, a publish_at that was saved
\* makes the cron publish the article at most once: an article that is
\* unpublished afterwards stays a draft ("clears publish_at", kb_articles.go).
ScheduleFiresOnce ==
    \A a \in Articles :
        Cardinality({p \in publications : p[2] = a /\ req[p[1]].kind = "cron"})
          <= Cardinality(Saves(a))

\* CollisionsGetSuffix: no save fails because its slug is in use ("collisions get
\* a numeric suffix", kb.md).
CollisionsGetSuffix == \A r \in Requests : req[r].pc # "conflict"

\* CronPublishesDueOnly: the cron publishes articles whose publish_at has elapsed,
\* and no others ("flips every draft article whose publish_at has elapsed", cron.go).
CronPublishesDueOnly ==
    [][\A r \in Requests, a \in Articles : CronPublishes(r, a) => IsDue(a)]_vars

=============================================================================
