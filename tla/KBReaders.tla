------------------------------- MODULE KBReaders -------------------------------
(***************************************************************************)
(* What surrounds the articles of the knowledge base: the views and votes  *)
(* of customers, the UnhelpfulSweep pass of the cron, which reads them,    *)
(* and the images an article adopts after its save.  Each is a sequence of *)
(* statements that an administrator's change of the article, or another    *)
(* request, can come between.  How articles get their status is the        *)
(* business of KBArticles; here any change may come at any time.           *)
(***************************************************************************)
EXTENDS Integers, FiniteSets, Sequences

CONSTANTS
    NULL,
    Articles,      \* ids of articles, never reused
    Customers,
    Images,        \* ids of images
    Requests,      \* requests and runs of the cron, each served once
    Day,           \* the 24 hours of the views and of the vote window
    MinVotes,      \* UnhelpfulMinVotes (5 in the code)
    MaxNow,        \* bound: the clock stops here
    MaxViews,      \* bound: views of one customer on one article
    MaxFaults      \* bound: failed statements, lost events and crashes of a behavior

ASSUME ReadersAssumption ==
    /\ NULL \notin Articles /\ NULL \notin Customers /\ NULL \notin Int
    /\ "unborn" \notin Articles /\ NULL # "unborn"
    /\ IsFiniteSet(Customers)
    /\ Day \in Nat \ {0} /\ MinVotes \in Nat \ {0}
    /\ MaxNow \in Nat /\ MaxViews \in Nat /\ MaxFaults \in Nat

VARIABLES
    now,
    article,       \* kb_articles.status
    shown,         \* the images the body_html of an article refers to
    views,         \* kb_views, in the order of their ids
    votes,         \* kb_votes
    owner,         \* kb_images.article_id
    req,           \* local state of every request
    unhelpful,     \* kb_article_unhelpful events, by run and article
    touched,       \* history: articles written since a run listed them
    steady,        \* history: articles of a run's list, published and low ever since
    bereaved,      \* history: images whose article was deleted
    faults

readers == <<views, votes>>
images == <<shown, owner>>
history == <<touched, steady, bereaved>>
vars == <<now, article, readers, images, req, unhelpful, history, faults>>

Instants == 0..MaxNow
Statuses == {"unborn", "draft", "published", "deleted"}
Votes == [vote : {"up", "down"}, at : Instants]
Views == [at   : Instants,
          seen : Nat]      \* history: views there were when its INSERT began

RequestStates ==
    [pc       : {"new", "view", "insert", "vote", "list", "sweep", "announce",
                 "reload", "adopt", "done", "fault"},
     kind     : {"detail", "vote", "cron", "save", NULL},
     article  : Articles \cup {NULL},
     customer : Customers \cup {NULL},
     vote     : {"up", "down", NULL},
     at       : Instants,
     seen     : Nat,
     todo     : SUBSET Articles,   \* the ids the sweep has still to come to
     images   : SUBSET Images]     \* found by ExtractImageIDs
NewRequest ==
    [pc |-> "new", kind |-> NULL, article |-> NULL, customer |-> NULL, vote |-> NULL,
     at |-> 0, seen |-> 0, todo |-> {}, images |-> {}]

TypeOK ==
    /\ now \in Instants
    /\ article \in [Articles -> Statuses]
    /\ shown \in [Articles -> SUBSET Images]
    /\ views \in [Articles -> [Customers -> Seq(Views)]]
    /\ votes \in [Articles -> [Customers -> Votes \cup {NULL}]]
    /\ owner \in [Images -> Articles \cup {NULL, "unborn"}]
    /\ req \in [Requests -> RequestStates]
    /\ unhelpful \subseteq Requests \X Articles
    /\ touched \in [Requests -> SUBSET Articles]
    /\ steady \in [Requests -> SUBSET Articles]
    /\ bereaved \subseteq Images
    /\ faults \in 0..MaxFaults

NoViews == [c \in Customers |-> <<>>]
NoVotes == [c \in Customers |-> NULL]

Init ==
    /\ now = 0
    /\ article = [a \in Articles |-> "unborn"]
    /\ shown = [a \in Articles |-> {}]
    /\ views = [a \in Articles |-> NoViews]
    /\ votes = [a \in Articles |-> NoVotes]
    /\ owner = [i \in Images |-> "unborn"]
    /\ req = [r \in Requests |-> NewRequest]
    /\ unhelpful = {}
    /\ touched = [r \in Requests |-> {}] /\ steady = [r \in Requests |-> {}]
    /\ bereaved = {}
    /\ faults = 0

Exists(a) == article[a] \in {"draft", "published"}
At(r, pc) == req[r].pc = pc
Becomes(r, q) == req' = [req EXCEPT ![r] = q]
Goto(r, pc) == Becomes(r, [req[r] EXCEPT !.pc = pc])
Over(r, pc) == [NewRequest EXCEPT !.pc = pc, !.kind = req[r].kind]
Ends(r) == Becomes(r, Over(r, "done"))

-----------------------------------------------------------------------------
(* The vote window                                                         *)

Cast(vs, vote, t) ==
    {c \in Customers : vs[c] # NULL /\ vs[c].vote = vote /\ t - vs[c].at < Day}

\* KBVoteWindow24h and the tests of UnhelpfulSweep, with the threshold of 0.5.
Low(vs, t) ==
    LET up == Cardinality(Cast(vs, "up", t))
        total == up + Cardinality(Cast(vs, "down", t))
    IN total >= MinVotes /\ 2 * up < total

Sweeping(r) == At(r, "sweep") \/ At(r, "announce")

\* What the histories of the runs record of the state a step leads to.
Follow(rows, vs, t, changed) ==
    /\ touched' = [r \in Requests |-> IF Sweeping(r) THEN touched[r] \cup changed ELSE {}]
    /\ steady' = [r \in Requests |->
         {a \in steady[r] : Sweeping(r) /\ rows[a] = "published" /\ Low(vs[a], t)}]

-----------------------------------------------------------------------------
(* Articles                                                                *)

\* KBPublishArticle and KBUnpublishArticle, for an administrator or the cron.
SetStatus ==
    /\ \E a \in Articles :
         /\ Exists(a)
         /\ article' = [article EXCEPT ![a] = IF @ = "draft" THEN "published" ELSE "draft"]
         /\ Follow(article', votes, now, {a})
    /\ UNCHANGED <<now, readers, images, req, unhelpful, bereaved, faults>>

\* KBDeleteArticle: votes and views go with the article, its images stay.
Delete ==
    /\ \E a \in Articles :
         /\ Exists(a)
         /\ article' = [article EXCEPT ![a] = "deleted"]
         /\ shown' = [shown EXCEPT ![a] = {}]
         /\ views' = [views EXCEPT ![a] = NoViews]
         /\ votes' = [votes EXCEPT ![a] = NoVotes]
         /\ owner' = [i \in Images |-> IF owner[i] = a THEN NULL ELSE owner[i]]
         /\ bereaved' = bereaved \cup {i \in Images : owner[i] = a}
         /\ Follow(article', votes', now, {a})
    /\ UNCHANGED <<now, req, unhelpful, faults>>

-----------------------------------------------------------------------------
(* Views: hKBCustomerDetail                                                *)

Detail(r) ==
    /\ At(r, "new")
    /\ \E a \in Articles, c \in Customers :
         /\ article[a] = "published"
         /\ Becomes(r, [NewRequest EXCEPT !.pc = "view", !.kind = "detail",
                                          !.article = a, !.customer = c])
    /\ UNCHANGED <<now, article, readers, images, unhelpful, history, faults>>

\* Mutant: the window of the deduplication is too short.
ViewedLately(vs) == \E i \in DOMAIN vs : now - vs[i].at < Day - 1

\* NOT EXISTS of KBRecordView.
Viewed(vs) == \E i \in DOMAIN vs : now - vs[i].at < Day

\* The snapshot of the INSERT; NOW() stays that of its beginning.
ViewBegins(r) ==
    LET vs == views[req[r].article][req[r].customer] IN
    /\ At(r, "view")
    /\ IF Viewed(vs) THEN Ends(r)
       ELSE Becomes(r, [req[r] EXCEPT !.pc = "insert", !.at = now, !.seen = Len(vs)])
    /\ UNCHANGED <<now, article, readers, images, unhelpful, history, faults>>

\* It commits.  A foreign key refuses a view of a deleted article; the handler
\* drops the error.
ViewEnds(r) ==
    LET q == req[r] IN
    /\ At(r, "insert")
    /\ IF Exists(q.article)
       THEN /\ Len(views[q.article][q.customer]) < MaxViews
            /\ views' = [views EXCEPT ![q.article][q.customer] =
                           Append(@, [at |-> q.at, seen |-> q.seen])]
       ELSE UNCHANGED views
    /\ Ends(r)
    /\ UNCHANGED <<now, article, votes, images, unhelpful, history, faults>>

-----------------------------------------------------------------------------
(* Votes: hKBCustomerVote                                                  *)

Vote(r) ==
    /\ At(r, "new")
    /\ \E a \in Articles, c \in Customers, v \in {"up", "down"} :
         /\ article[a] = "published"
         /\ Becomes(r, [NewRequest EXCEPT !.pc = "vote", !.kind = "vote",
                                          !.article = a, !.customer = c, !.vote = v])
    /\ UNCHANGED <<now, article, readers, images, unhelpful, history, faults>>

\* Mutant: voted_at is left out.
UpsertUntimed(r) ==
    LET q == req[r] IN
    /\ At(r, "vote")
    /\ votes' = [votes EXCEPT ![q.article][q.customer] = [vote |-> q.vote, at |-> NULL]]
    /\ Ends(r)
    /\ UNCHANGED <<now, article, views, images, unhelpful, history, faults>>

\* KBUpsertVote: the article need not be published any more, but must exist.
Upsert(r) ==
    LET q == req[r] IN
    /\ At(r, "vote")
    /\ IF Exists(q.article)
       THEN votes' = [votes EXCEPT ![q.article][q.customer] = [vote |-> q.vote, at |-> now]]
       ELSE UNCHANGED votes
    /\ Follow(article, votes', now, {})
    /\ Ends(r)
    /\ UNCHANGED <<now, article, views, images, unhelpful, bereaved, faults>>

-----------------------------------------------------------------------------
(* UnhelpfulSweep                                                          *)

\* hKBAdminRunCron.  PublishDue comes first: its publications are SetStatus, and
\* its error ends the run.
RunCron(r) ==
    /\ At(r, "new")
    /\ Becomes(r, [NewRequest EXCEPT !.pc = "list", !.kind = "cron"])
    /\ UNCHANGED <<now, article, readers, images, unhelpful, history, faults>>

Lists(r, S) ==
    /\ At(r, "list")
    /\ IF S = {} THEN Ends(r) ELSE Becomes(r, [req[r] EXCEPT !.pc = "sweep", !.todo = S])
    /\ steady' = [steady EXCEPT ![r] =
                    {a \in S : article[a] = "published" /\ Low(votes[a], now)}]
    /\ touched' = [touched EXCEPT ![r] = {}]
    /\ UNCHANGED <<now, article, readers, images, unhelpful, bereaved, faults>>

\* Mutant: the WHERE is missing.
ListAll(r) == Lists(r, {a \in Articles : Exists(a)})

\* KBPublishedArticleIDs.
List(r) == Lists(r, {a \in Articles : article[a] = "published"})

\* The run leaves the article it is at.
Past(r, a) ==
    LET rest == req[r].todo \ {a} IN
    IF rest = {} THEN Ends(r)
    ELSE Becomes(r, [req[r] EXCEPT !.pc = "sweep", !.article = NULL, !.todo = rest])

\* Mutant: an article that is not low ends the run.
ReadWindowStops(r) ==
    /\ At(r, "sweep")
    /\ \E a \in req[r].todo :
         IF Low(votes[a], now)
         THEN Becomes(r, [req[r] EXCEPT !.pc = "announce", !.article = a])
         ELSE Ends(r)
    /\ UNCHANGED <<now, article, readers, images, unhelpful, history, faults>>

\* The rows come in no particular order.
ReadWindow(r) ==
    /\ At(r, "sweep")
    /\ \E a \in req[r].todo :
         IF Low(votes[a], now)
         THEN Becomes(r, [req[r] EXCEPT !.pc = "announce", !.article = a])
         ELSE Past(r, a)
    /\ UNCHANGED <<now, article, readers, images, unhelpful, history, faults>>

\* KBGetArticleByID, whatever its status, and the event.
Announce(r) ==
    LET a == req[r].article IN
    /\ At(r, "announce")
    /\ unhelpful' = IF Exists(a) THEN unhelpful \cup {<<r, a>>} ELSE unhelpful
    /\ Past(r, a)
    /\ UNCHANGED <<now, article, readers, images, history, faults>>

\* The window or the article cannot be read, or the event is lost: the run goes on
\* with the next article.
SkipOne(r) ==
    /\ faults < MaxFaults /\ faults' = faults + 1
    /\ \E a \in req[r].todo :
         /\ At(r, "sweep") \/ (At(r, "announce") /\ req[r].article = a)
         /\ Past(r, a)
         /\ steady' = [steady EXCEPT ![r] = @ \ {a}]
    /\ UNCHANGED <<now, article, readers, images, unhelpful, touched, bereaved>>

-----------------------------------------------------------------------------
(* Images                                                                  *)

\* hKBAdminUploadImage, for an article or for one that is not saved yet.
Upload ==
    /\ \E i \in Images, a \in {b \in Articles : Exists(b)} \cup {NULL} :
         /\ owner[i] = "unborn"
         /\ owner' = [owner EXCEPT ![i] = a]
    /\ UNCHANGED <<now, article, shown, readers, req, unhelpful, history, faults>>

\* kbWriteArticle commits an article that shows some of the images there are.
Save(r) ==
    /\ At(r, "new")
    /\ \E a \in Articles, status \in {"draft", "published"},
          S \in SUBSET {i \in Images : owner[i] # "unborn"} :
         /\ article[a] # "deleted"
         /\ article' = [article EXCEPT ![a] = status]
         /\ shown' = [shown EXCEPT ![a] = S]
         /\ Becomes(r, [NewRequest EXCEPT !.pc = "reload", !.kind = "save", !.article = a])
         /\ Follow(article', votes, now, {a})
    /\ UNCHANGED <<now, readers, owner, unhelpful, bereaved, faults>>

\* KBSaveArticle reads the article back, and ExtractImageIDs looks through what
\* it finds, which may be another save's body.
Reload(r) ==
    LET S == shown[req[r].article] IN
    /\ At(r, "reload")
    /\ IF S = {} THEN Ends(r) ELSE Becomes(r, [req[r] EXCEPT !.pc = "adopt", !.images = S])
    /\ UNCHANGED <<now, article, readers, images, unhelpful, history, faults>>

\* Mutant: only images uploaded for the article are looked at.
AdoptOwn(r) ==
    /\ At(r, "adopt")
    /\ Ends(r)
    /\ UNCHANGED <<now, article, readers, images, unhelpful, history, faults>>

\* KBAdoptOrphanImages; a foreign key refuses a deleted article, and the handler
\* drops the error.
Adopt(r) ==
    LET a == req[r].article IN
    /\ At(r, "adopt")
    /\ owner' = [i \in Images |->
                   IF i \in req[r].images /\ owner[i] = NULL /\ Exists(a) THEN a ELSE owner[i]]
    /\ Ends(r)
    /\ UNCHANGED <<now, article, shown, readers, unhelpful, history, faults>>

-----------------------------------------------------------------------------
(* Faults and time                                                         *)

\* A statement other than those of SkipOne fails, and the request ends there.
Fail(r) ==
    /\ faults < MaxFaults /\ faults' = faults + 1
    /\ req[r].pc \in {"view", "insert", "vote", "list", "reload", "adopt"}
    /\ Becomes(r, Over(r, "fault"))
    /\ UNCHANGED <<now, article, readers, images, unhelpful, history>>

\* The process dies, and with it every request under way.
Crash ==
    /\ faults < MaxFaults /\ faults' = faults + 1
    /\ req' = [r \in Requests |->
                 IF req[r].pc \in {"new", "done"} THEN req[r] ELSE Over(r, "fault")]
    /\ UNCHANGED <<now, article, readers, images, unhelpful, history>>

Tick ==
    /\ now < MaxNow /\ now' = now + 1
    /\ Follow(article, votes, now', {})
    /\ UNCHANGED <<article, readers, images, req, unhelpful, bereaved, faults>>

-----------------------------------------------------------------------------
Serve(r) ==
    \/ Detail(r) \/ ViewBegins(r) \/ ViewEnds(r)
    \/ Vote(r) \/ Upsert(r)
    \/ RunCron(r) \/ List(r) \/ ReadWindow(r) \/ Announce(r) \/ SkipOne(r)
    \/ Save(r) \/ Reload(r) \/ Adopt(r)
    \/ Fail(r)

Next ==
    \/ SetStatus \/ Delete \/ Upload \/ Crash \/ Tick
    \/ \E r \in Requests : Serve(r)

Spec == Init /\ [][Next]_vars

-----------------------------------------------------------------------------
(* Properties                                                              *)

\* OneViewADayUnlessOvertaken: two views of a customer on an article are a day
\* apart, unless the INSERT of the second began before the first was committed.
OneViewADayUnlessOvertaken ==
    \A a \in Articles, c \in Customers :
        LET vs == views[a][c] IN
        \A i, j \in DOMAIN vs :
            i < j /\ vs[j].at - vs[i].at < Day => vs[j].seen < i

\* SweepReachesAll: a run that ends has announced every article of its list that
\* was published and low all the time since, whatever became of the articles the
\* run came to before it.
SweepReachesAll ==
    \A r \in Requests : At(r, "done") => \A a \in steady[r] : <<r, a>> \in unhelpful

\* UnhelpfulIsPublished: an article announced as unhelpful is a published one, or
\* it was written after the run had listed it.
UnhelpfulIsPublished ==
    [][\A r \in Requests, a \in Articles :
          <<r, a>> \in unhelpful' \ unhelpful
          => article[a] = "published" \/ a \in touched[r]]_vars

\* ShownIsOwned: an image an article shows belongs to an article, once the saves
\* are through, unless a fault came between or its article was deleted, also
\* where two saves of the article read back each other's bodies.
Adopting(r, a, i) ==
    /\ req[r].article = a
    /\ At(r, "reload") \/ (At(r, "adopt") /\ i \in req[r].images)

ShownIsOwned ==
    \A a \in Articles : \A i \in shown[a] :
        owner[i] = NULL =>
            faults > 0 \/ i \in bereaved \/ \E r \in Requests : Adopting(r, a, i)

=============================================================================
