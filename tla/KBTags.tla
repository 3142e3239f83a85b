-------------------------------- MODULE KBTags --------------------------------
(***************************************************************************)
(* Tags of the knowledge base and the rows that link articles to them: the *)
(* part of saving an article that finds or creates its tags and rewrites   *)
(* kb_article_tags, the deletion of an article, and the creation, deletion *)
(* and merge of tags.                                                      *)
(*                                                                         *)
(* Three of these are transactions of several statements, or one statement *)
(* with cascades and foreign keys behind it, on the same rows.  What       *)
(* PostgreSQL does with two of them at READ COMMITTED is what can go wrong *)
(* here, so the model has it: a statement sees the rows committed when it  *)
(* starts, visits them one by one in any order, waits for a row another    *)
(* open transaction has written or locked, and a cycle of waits is broken  *)
(* by aborting one of its transactions.                                    *)
(***************************************************************************)
EXTENDS Integers, FiniteSets, Sequences

CONSTANTS
    NULL,
    Articles,      \* ids of articles, never reused
    Tags,          \* ids of tags, never reused
    Slugs,         \* results of Slugify for tag labels
    Requests,      \* requests of admins, each served once
    MaxLabels,     \* bound: labels of one save
    MaxFaults      \* bound: failed statements and crashes of a behavior

Kinds == {"save", "create_tag", "delete_tag", "merge", "delete_article"}

ASSUME TagsAssumption ==
    /\ NULL \notin Articles \cup Tags \cup Slugs \cup Requests \cup Kinds
    /\ MaxLabels \in Nat /\ MaxFaults \in Nat

VARIABLES
    tag,           \* kb_tags
    article,       \* which articles have a row in kb_articles
    links,         \* kb_article_tags, as committed
    req,           \* local state of every request, its open transaction included
    faults

tables == <<tag, article, links>>
vars == <<tables, req, faults>>

Life == {"unborn", "live", "gone"}
Steps == {"new", "lookup", "create", "row", "copy", "clear", "link",
          "drop", "check", "commit", "done", "fault"}
Ended == {"done", "fault"}

\* A row carries the request that inserted it (NULL: before the behavior), to
\* tell a row from one inserted again after a deletion.
Links == Articles \X Tags \X (Requests \cup {NULL})
Lists(S, n) == UNION {[1..k -> S] : k \in 0..n}

RequestStates ==
    [pc      : Steps,
     kind    : Kinds \cup {NULL},
     id      : Articles \cup {NULL},       \* the article addressed
     rekeys  : {"yes", "no"},              \* the write of its row changes the slug or deletes it
     labels  : Seq(Slugs),                 \* TagLabels still to be resolved, slugified
     ids     : Seq(Tags),                  \* tagIDs
     from    : Tags \cup {NULL},           \* the tag merged away or deleted
     into    : Tags \cup {NULL},
     target  : Seq(Links),                 \* rows the statement under way has still to visit
     held    : Articles \cup {NULL},       \* row lock on an article, until the end
     added   : SUBSET Links,               \* inserted, not committed
     removed : SUBSET Links,               \* deleted, not committed
     dead    : Tags \cup {NULL},           \* tag deleted, not committed
     seen    : SUBSET Links]               \* history: what the copy of a merge selected

NewRequest ==
    [pc |-> "new", kind |-> NULL, id |-> NULL, rekeys |-> "no",
     labels |-> <<>>, ids |-> <<>>, from |-> NULL, into |-> NULL, target |-> <<>>,
     held |-> NULL, added |-> {}, removed |-> {}, dead |-> NULL, seen |-> {}]

Live(t) == tag[t].life = "live"
LiveTags == {t \in Tags : Live(t)}
Of(a, rows) == {l \in rows : l[1] = a}
With(t, rows) == {l \in rows : l[2] = t}

\* Some tags, some articles and any links between them are there already.
Init ==
    \E ts \in SUBSET Tags, as \in SUBSET Articles :
       /\ tag \in [Tags -> [life : {"unborn", "live"}, slug : Slugs \cup {NULL}]]
       /\ \A t \in Tags : Live(t) <=> t \in ts
       /\ \A t \in Tags : (tag[t].slug = NULL) <=> t \notin ts
       /\ \A s, t \in ts : s # t => tag[s].slug # tag[t].slug
       /\ article = [a \in Articles |-> IF a \in as THEN "live" ELSE "unborn"]
       /\ links \in SUBSET (as \X ts \X {NULL}) /\ IsFiniteSet(links)
       /\ req = [r \in Requests |-> NewRequest]
       /\ faults = 0

At(r, pc) == req[r].pc = pc
Becomes(r, q) == req' = [req EXCEPT ![r] = q]
Others(r) == Requests \ {r}
Touched(p) == req[p].added \cup req[p].removed
Visible(r) == (links \ req[r].removed) \cup req[r].added

-----------------------------------------------------------------------------
(* What PostgreSQL does between transactions                               *)

Linked(a, t, rows) == \E l \in rows : l[1] = a /\ l[2] = t

\* Inserting the link of a and t waits for whoever has written that key and,
\* unless the link is there, for whoever deletes the tag or the key of the
\* article's row (the foreign keys take FOR KEY SHARE on both).
LinkWaits(r, a, t) ==
    {p \in Others(r) :
        \/ Linked(a, t, Touched(p))
        \/ /\ ~Linked(a, t, Visible(r))
           /\ \/ req[p].dead = t
              \/ req[p].held = a /\ req[p].rekeys = "yes"}

\* The transactions the next statement, or the next row of the statement under
\* way, has to wait for.
WaitsFor(r) ==
    LET q == req[r]
        next == Head(q.target)
    IN
    CASE q.pc = "create" ->
           {p \in Others(r) : req[p].dead # NULL /\ tag[req[p].dead].slug = Head(q.labels)}
      [] q.pc = "row" ->
           {p \in Others(r) : \/ req[p].held = q.id
                             \/ (q.rekeys = "yes" /\ Of(q.id, req[p].added) # {})}
      [] q.pc = "clear" /\ q.target # <<>> ->
           {p \in Others(r) : next \in req[p].removed}
      [] q.pc = "copy" /\ q.target # <<>> -> LinkWaits(r, next[1], q.into)
      [] q.pc = "link" /\ q.target # <<>> -> LinkWaits(r, next[1], next[2])
      [] q.pc = "drop" ->
           {p \in Others(r) : req[p].dead = q.from \/ With(q.from, req[p].added) # {}}
      [] q.pc = "check" ->
           {p \in Others(r) : With(q.from, req[p].removed) # {}}
      [] OTHER -> {}

Proceeds(r, pc) == At(r, pc) /\ WaitsFor(r) = {}

\* r lies on a cycle of waits: a set of transactions none of whose proper parts
\* waits for nobody in the rest.
Deadlocked(r) ==
    \E C \in SUBSET Requests :
       /\ r \in C /\ C # {r}
       /\ \A X \in SUBSET C \ {{}, C} : \E p \in X : WaitsFor(p) \cap (C \ X) # {}

\* Mutant: nobody rolls back, the transaction stays open.
LeftOpen(q) == [q EXCEPT !.pc = "fault"]

\* defer tx.Rollback, or the end of a statement that was a transaction itself.
RolledBack(q) == [q EXCEPT !.pc = "fault", !.target = <<>>, !.held = NULL,
                           !.added = {}, !.removed = {}, !.dead = NULL]

\* A snapshot and the order in which its rows are visited.
Orders(rows) == {s \in [1..Cardinality(rows) -> rows] :
                    \A l \in rows : \E i \in DOMAIN s : s[i] = l}

\* Mutant: the article's old links are deleted after the new ones are inserted,
\* and get in their way.
InsertBeforeClear(r, a, t, q) ==
    IF Linked(a, t, links) THEN Becomes(r, q)
    ELSE Becomes(r, [q EXCEPT !.added = @ \cup {<<a, t, r>>}])

\* Inserts the link of a and t ON CONFLICT DO NOTHING and goes on as q.
Insert(r, a, t, q) ==
    LET there == Linked(a, t, Visible(r))
        parents == Live(t) /\ (article[a] = "live" \/ req[r].held = a)
    IN
    \/ there /\ Becomes(r, q)
    \/ ~there /\ parents /\ Becomes(r, [q EXCEPT !.added = @ \cup {<<a, t, r>>}])
    \/ ~there /\ ~parents /\ Becomes(r, RolledBack(req[r]))   \* foreign key

-----------------------------------------------------------------------------
(* Requests                                                                *)

\* An article that is being created has an id nobody else knows.
Save(r) ==
    /\ At(r, "new")
    /\ \E a \in Articles, ls \in Lists(Slugs, MaxLabels), rekeys \in {"yes", "no"} :
         /\ article[a] = "unborn" => rekeys = "no" /\ \A p \in Others(r) : req[p].id # a
         /\ Becomes(r, [NewRequest EXCEPT !.pc = "lookup", !.kind = "save", !.id = a,
                                          !.labels = ls, !.rekeys = rekeys])
    /\ UNCHANGED <<tables, faults>>

DeleteArticle(r) ==
    /\ At(r, "new")
    /\ \E a \in Articles :
         /\ article[a] # "unborn"
         /\ Becomes(r, [NewRequest EXCEPT !.pc = "row", !.kind = "delete_article",
                                          !.id = a, !.rekeys = "yes"])
    /\ UNCHANGED <<tables, faults>>

NewTag(r) ==
    /\ At(r, "new")
    /\ \E s \in Slugs :
         Becomes(r, [NewRequest EXCEPT !.pc = "lookup", !.kind = "create_tag", !.labels = <<s>>])
    /\ UNCHANGED <<tables, faults>>

DeleteTag(r) ==
    /\ At(r, "new")
    /\ \E t \in Tags :
         /\ tag[t].life # "unborn"
         /\ Becomes(r, [NewRequest EXCEPT !.pc = "drop", !.kind = "delete_tag", !.from = t])
    /\ UNCHANGED <<tables, faults>>

\* Begins with the snapshot of INSERT ... SELECT.
Merge(r) ==
    /\ At(r, "new")
    /\ \E f, i \in Tags : \E order \in Orders(With(f, links)) :
         /\ f # i /\ tag[f].life # "unborn" /\ tag[i].life # "unborn"
         /\ Becomes(r, [NewRequest EXCEPT !.pc = "copy", !.kind = "merge", !.from = f, !.into = i,
                                          !.target = order, !.seen = With(f, links)])
    /\ UNCHANGED <<tables, faults>>

-----------------------------------------------------------------------------
(* Finding or creating the tags of the labels                              *)

\* KBGetTagBySlug of the next label.  With all of them at hand a save goes on,
\* unless publishAt does not parse: the tags it created stay.
Lookup(r) ==
    LET q == req[r]
        found == {t \in LiveTags : tag[t].slug = Head(q.labels)}
    IN
    /\ At(r, "lookup")
    /\ \/ q.labels = <<>> /\ \E pc \in {"row", "done"} : Becomes(r, [q EXCEPT !.pc = pc])
       \/ /\ q.labels # <<>> /\ found = {}
          /\ Becomes(r, [q EXCEPT !.pc = "create"])
       \/ /\ q.labels # <<>> /\ q.kind = "save"
          /\ \E t \in found :
               Becomes(r, [q EXCEPT !.labels = Tail(@), !.ids = Append(@, t)])
       \/ /\ q.labels # <<>> /\ q.kind = "create_tag" /\ found # {}
          /\ Becomes(r, [q EXCEPT !.pc = "done"])
    /\ UNCHANGED <<tables, faults>>

\* hKBAdminCreateTag ignores an error of its lookup and goes on to the INSERT.
LookupFails(r) ==
    /\ At(r, "lookup") /\ req[r].kind = "create_tag"
    /\ faults < MaxFaults /\ faults' = faults + 1
    /\ Becomes(r, [req[r] EXCEPT !.pc = "create"])
    /\ UNCHANGED tables

\* Mutant: the id of the new row is not read back.
CreateTagUnread(r) ==
    LET q == req[r]
        s == Head(q.labels)
    IN
    /\ Proceeds(r, "create")
    /\ \E t \in Tags :
         /\ tag[t].life = "unborn"
         /\ tag' = [tag EXCEPT ![t] = [life |-> "live", slug |-> s]]
         /\ Becomes(r, [q EXCEPT !.pc = "lookup", !.labels = Tail(@), !.ids = Append(@, NULL)])
    /\ UNCHANGED <<article, links, faults>>

\* KBCreateTag; UNIQUE (slug) refuses a label that has got its tag since.
CreateTag(r) ==
    LET q == req[r]
        s == Head(q.labels)
    IN
    /\ Proceeds(r, "create")
    /\ \/ /\ \E t \in LiveTags : tag[t].slug = s
          /\ Becomes(r, RolledBack(q))
          /\ UNCHANGED tag
       \/ /\ \A t \in LiveTags : tag[t].slug # s
          /\ \E t \in Tags :
               /\ tag[t].life = "unborn"
               /\ tag' = [tag EXCEPT ![t] = [life |-> "live", slug |-> s]]
               /\ Becomes(r, [q EXCEPT !.pc = IF q.kind = "save" THEN "lookup" ELSE "done",
                                       !.labels = Tail(@), !.ids = Append(@, t)])
    /\ UNCHANGED <<article, links, faults>>

-----------------------------------------------------------------------------
(* The statements of the transactions                                      *)

\* INSERT, UPDATE or DELETE of the article's row, which locks it, then the
\* snapshot of the DELETE of its links (of the cascade, for a deleted article).
WriteRow(r) ==
    LET q == req[r]
        there == article[q.id] = "live" \/ (q.kind = "save" /\ article[q.id] = "unborn")
    IN
    /\ Proceeds(r, "row")
    /\ \/ /\ there
          /\ \E order \in Orders(Of(q.id, links)) :
               Becomes(r, [q EXCEPT !.pc = "clear", !.held = q.id, !.target = order])
       \/ ~there /\ Becomes(r, [q EXCEPT !.pc = "done"])          \* ErrNotFound
    /\ UNCHANGED <<tables, faults>>

\* Mutant: the merge deletes the rows of its tag without copying them.
CopySkips(r) ==
    LET q == req[r] IN
    /\ Proceeds(r, "copy")
    /\ \E order \in Orders(With(q.from, Visible(r))) :
         Becomes(r, [q EXCEPT !.pc = "clear", !.target = order])
    /\ UNCHANGED <<tables, faults>>

\* One row of the merge's INSERT ... SELECT, then the snapshot of its DELETE.
Copy(r) ==
    LET q == req[r] IN
    /\ Proceeds(r, "copy")
    /\ \/ /\ q.target # <<>>
          /\ Insert(r, Head(q.target)[1], q.into, [q EXCEPT !.target = Tail(@)])
       \/ /\ q.target = <<>>
          /\ \E order \in Orders(With(q.from, Visible(r))) :
               Becomes(r, [q EXCEPT !.pc = "clear", !.target = order])
    /\ UNCHANGED <<tables, faults>>

\* One row of a DELETE FROM kb_article_tags: one deleted meanwhile is skipped.
Clear(r) ==
    LET q == req[r] IN
    /\ Proceeds(r, "clear")
    /\ \/ /\ q.target # <<>>
          /\ Becomes(r, [q EXCEPT !.removed = @ \cup ({Head(q.target)} \cap links),
                                  !.target = Tail(@)])
       \/ /\ q.target = <<>>
          /\ Becomes(r, CASE q.kind = "save" ->
                               [q EXCEPT !.pc = "link",
                                         !.target = [i \in DOMAIN q.ids |-> <<q.id, q.ids[i], r>>]]
                          [] q.kind = "merge" -> [q EXCEPT !.pc = "drop"]
                          [] q.kind = "delete_article" -> [q EXCEPT !.pc = "commit"])
    /\ UNCHANGED <<tables, faults>>

\* The INSERT of the next tag of a save.
Link(r) ==
    LET q == req[r] IN
    /\ Proceeds(r, "link")
    /\ \/ /\ q.target # <<>>
          /\ Insert(r, q.id, Head(q.target)[2], [q EXCEPT !.target = Tail(@)])
       \/ q.target = <<>> /\ Becomes(r, [q EXCEPT !.pc = "commit"])
    /\ UNCHANGED <<tables, faults>>

\* DELETE FROM kb_tags.  The merge does not look at the number of rows.
Drop(r) ==
    LET q == req[r] IN
    /\ Proceeds(r, "drop")
    /\ \/ Live(q.from) /\ Becomes(r, [q EXCEPT !.pc = "check", !.dead = q.from])
       \/ ~Live(q.from) /\ q.kind = "merge" /\ Becomes(r, [q EXCEPT !.pc = "commit"])
       \/ ~Live(q.from) /\ q.kind = "delete_tag" /\ Becomes(r, [q EXCEPT !.pc = "done"])
    /\ UNCHANGED <<tables, faults>>

\* ON DELETE RESTRICT, at the end of that statement.
Check(r) ==
    LET q == req[r] IN
    /\ Proceeds(r, "check")
    /\ Becomes(r, IF With(q.from, Visible(r)) = {} THEN [q EXCEPT !.pc = "commit"]
                                                   ELSE RolledBack(q))
    /\ UNCHANGED <<tables, faults>>

Commit(r) ==
    LET q == req[r] IN
    /\ At(r, "commit")
    /\ links' = Visible(r)
    /\ tag' = [t \in Tags |-> IF t = q.dead THEN [tag[t] EXCEPT !.life = "gone"] ELSE tag[t]]
    /\ article' = [a \in Articles |->
                     IF a = q.held THEN IF q.kind = "save" THEN "live" ELSE "gone"
                     ELSE article[a]]
    /\ Becomes(r, [RolledBack(q) EXCEPT !.pc = "done"])
    /\ UNCHANGED faults

\* A statement fails, or the process stops.
Fail(r) ==
    /\ req[r].pc \notin Ended \cup {"new"}
    /\ faults < MaxFaults /\ faults' = faults + 1
    /\ Becomes(r, RolledBack(req[r]))
    /\ UNCHANGED tables

\* The deadlock detector of PostgreSQL aborts a member of the cycle.
AbortDeadlocked(r) ==
    /\ Deadlocked(r)
    /\ Becomes(r, RolledBack(req[r]))
    /\ UNCHANGED <<tables, faults>>

Arrival(r) == Save(r) \/ DeleteArticle(r) \/ NewTag(r) \/ DeleteTag(r) \/ Merge(r)
Serve(r) == \/ Lookup(r) \/ CreateTag(r) \/ WriteRow(r) \/ Copy(r) \/ Clear(r)
            \/ Link(r) \/ Drop(r) \/ Check(r) \/ Commit(r) \/ AbortDeadlocked(r)

AllServed == (\A r \in Requests : req[r].pc \in Ended) /\ UNCHANGED vars

Next == \/ \E r \in Requests : Arrival(r) \/ Serve(r) \/ LookupFails(r) \/ Fail(r)
        \/ AllServed
Spec == Init /\ [][Next]_vars
FairSpec == Spec /\ \A r \in Requests : WF_vars(Serve(r))

-----------------------------------------------------------------------------
(* Properties                                                              *)

TypeOK ==
    /\ tag \in [Tags -> [life : Life, slug : Slugs \cup {NULL}]]
    /\ article \in [Articles -> Life]
    /\ links \subseteq Links
    /\ req \in [Requests -> RequestStates]
    /\ faults \in 0..MaxFaults

\* A save that commits has linked the article to every tag it resolved, unless
\* the tag has been merged away since.
SavesLinkTheirTags ==
    [][\A r \in Requests :
         At(r, "commit") /\ req[r].kind = "save" /\ req'[r].pc = "done" =>
           \A i \in DOMAIN req[r].ids :
             Linked(req[r].id, req[r].ids[i], links') \/ tag[req[r].ids[i]].life = "gone"]_vars

\* The comment of KBMergeTags: it moves every row of the one tag into the other.
MergeMovesAll ==
    [][\A r \in Requests :
         At(r, "commit") /\ req[r].kind = "merge" /\ req'[r].pc = "done" =>
           \A a \in Articles :
             Linked(a, req[r].from, links) => Linked(a, req[r].into, links')]_vars

\* The row was put there by another merge, and a save of its article, one that leaves
\* the slug alone, has committed (before or after that: the state does not tell).
Overtaken(l) ==
    /\ l[3] # NULL /\ req[l[3]].kind = "merge"
    /\ \E p \in Requests : /\ req[p].kind = "save" /\ req[p].rekeys = "no"
                           /\ req[p].id = l[1] /\ At(p, "done")

\* What the code ensures of it: the rows committed when the merge began are moved,
\* unless the tag merged into is gone by the end.  A link saved later goes with
\* its tag, and so do both links of an article when two merges cross: each finds
\* the other's tag there and copies nothing.  And a row that an earlier merge put
\* there under a save that had listed the article's rows before: that save leaves
\* the row alone but deletes the link on account of which this merge copies nothing.
MergeMovesWhatItSaw ==
    [][\A r \in Requests :
         At(r, "commit") /\ req[r].kind = "merge" /\ req'[r].pc = "done" =>
           \A l \in links \cap req[r].seen :
             \/ Linked(l[1], req[r].into, links')
             \/ ~Live(req[r].into)
             \/ Overtaken(l)]_vars

\* Every request is answered: transactions that wait for each other in a circle
\* do not stay there, and no failed one keeps its locks.
RequestsEnd == \A r \in Requests : ~At(r, "new") ~> req[r].pc \in Ended
=============================================================================
