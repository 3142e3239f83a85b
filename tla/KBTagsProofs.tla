--------------------------- MODULE KBTagsProofs ---------------------------
(***************************************************************************)
(* Proofs about KBTags, for any sets of tags, labels, articles and         *)
(* requests, and any number of faults.                                     *)
(*                                                                         *)
(* The inductive invariant TInv says of each open transaction what it has  *)
(* locked, inserted and deleted (Open), that no two of them hold the same  *)
(* article (Apart), and what the rows committed by the others have left    *)
(* standing of its work: a write of an article has deleted the links it    *)
(* still finds (Clears), a save has its links (Relinks) and a merge its    *)
(* copies (Copies), with the exceptions the properties name.               *)
(***************************************************************************)
EXTENDS KBTags, FiniteSetTheorems, SequenceTheorems, TLAPS

USE TagsAssumption

Writes == {"save", "delete_article"}     \* kinds that write an article's row

\* The statements each kind of request consists of.
StepsOf(kind) ==
    CASE kind = "save" -> {"lookup", "create", "row", "clear", "link", "commit"}
      [] kind = "create_tag" -> {"lookup", "create"}
      [] kind = "delete_article" -> {"row", "clear", "commit"}
      [] kind = "delete_tag" -> {"drop", "check", "commit"}
      [] kind = "merge" -> {"copy", "clear", "drop", "check", "commit"}

\* Where a request is and what it addresses.
Shape(q) ==
    /\ q.pc \in {"new", "done", "fault"} \/ (q.kind \in Kinds /\ q.pc \in StepsOf(q.kind))
    /\ q.kind \in Writes => q.id \in Articles
    /\ q.kind = "delete_article" => q.rekeys = "yes"
    /\ q.kind = "delete_tag" => q.from \in Tags
    /\ q.kind = "merge" => q.from \in Tags /\ q.into \in Tags /\ q.from # q.into
    /\ q.pc = "create" \/ (q.pc = "lookup" /\ q.kind = "create_tag") => q.labels # <<>>

\* What transaction r, in state q, has done so far: what it holds, and which rows
\* of kb_article_tags its statements can have touched.
Open(r, q) ==
    /\ q.held = IF q.kind \in Writes /\ q.pc \in {"clear", "link", "commit"} THEN q.id ELSE NULL
    /\ IsFiniteSet(q.added)
    /\ \A l \in q.added : l[3] = r /\ (q.kind = "merge" \/ (q.kind = "save" /\ l[1] = q.id))
    /\ q.added # {} => q.pc \notin {"new", "lookup", "create", "row", "done", "fault"}
    /\ \A l \in q.removed : \/ q.kind \in Writes /\ l[1] = q.id
                            \/ q.kind = "merge" /\ l[2] = q.from
    /\ q.pc \in {"clear", "link"} => \A i \in DOMAIN q.target :
         IF q.kind = "merge" THEN q.target[i][2] = q.from ELSE q.target[i][1] = q.id

\* The tags a request merges are there or have been, and a merge that comes to its
\* COMMIT has deleted the one, or found it deleted.
Dropped(q, tags) ==
    /\ q.kind = "merge" => tags[q.from].life # "unborn" /\ tags[q.into].life # "unborn"
    /\ q.kind = "merge" /\ q.pc = "check" => q.dead = q.from
    /\ q.kind = "merge" /\ q.pc = "commit" => q.dead = q.from \/ tags[q.from].life = "gone"

\* A committed row is of a request that is done, or older than all of them.
Settled(l, reqs) == l[3] # NULL => l[3] \in Requests /\ reqs[l[3]].pc = "done"
ByMerge(l, reqs) == l[3] # NULL /\ reqs[l[3]].kind = "merge"
Late(l, reqs) ==
    /\ ByMerge(l, reqs)
    /\ \E p \in Requests : /\ reqs[p].kind = "save" /\ reqs[p].rekeys = "no"
                           /\ reqs[p].id = l[1] /\ reqs[p].pc = "done"

\* What a write of an article still finds linked to it, it deletes, or a merge has
\* put there since.
Clears(q, rows, reqs) ==
    q.kind \in Writes /\ q.pc \in {"clear", "link", "commit"} =>
      \A l \in Of(q.id, rows) :
         \/ l \in q.removed
         \/ q.pc = "clear" /\ \E i \in DOMAIN q.target : q.target[i] = l
         \/ ByMerge(l, reqs) /\ q.kind = "save" /\ q.rekeys = "no"

Sees(q, rows) == (rows \ q.removed) \cup q.added

\* A save keeps the links it has inserted or found, unless the tag is gone.
Relinks(q, rows, tags) ==
    q.kind = "save" /\ q.pc \in {"link", "commit"} =>
      \A i \in DOMAIN q.ids :
         \/ q.pc = "link" /\ \E j \in DOMAIN q.target : q.target[j][2] = q.ids[i]
         \/ Linked(q.id, q.ids[i], Sees(q, rows))
         \/ tags[q.ids[i]].life = "gone"

\* A merge keeps the copies it has made or found, unless the tag is gone or a save
\* has overtaken it.
Copies(q, rows, tags, reqs) ==
    q.kind = "merge" /\ q.pc \in StepsOf("merge") =>
      \A l \in rows \cap q.seen :
         \/ q.pc = "copy" /\ \E j \in DOMAIN q.target : q.target[j] = l
         \/ Linked(l[1], q.into, Sees(q, rows))
         \/ tags[q.into].life = "gone"
         \/ Late(l, reqs)

\* Request r, in state q, is in order.
InOrder(r, q, rows, tags, reqs) ==
    /\ Shape(q) /\ Open(r, q) /\ Dropped(q, tags)
    /\ \A l \in q.seen : Settled(l, reqs)
    /\ Clears(q, rows, reqs) /\ Relinks(q, rows, tags) /\ Copies(q, rows, tags, reqs)

\* Transactions p, in state q, and r, in state n, do not hold the same article, and
\* while p holds its key r has no link of it to commit.
Apart(q, n) == q.held # NULL =>
    /\ n.held # q.held
    /\ q.rekeys = "yes" => Of(q.held, n.added) = {}

TInv ==
    /\ TypeOK
    /\ IsFiniteSet(links) /\ \A l \in links : Settled(l, req)
    /\ \A p, r \in Requests : p # r => Apart(req[p], req[r])
    /\ \A r \in Requests : InOrder(r, req[r], links, tag, req)

-----------------------------------------------------------------------------
(* Operators                                                               *)

\* A snapshot of finitely many rows is a sequence of them that misses none.
LEMMA OrdersSeq ==
    ASSUME NEW rows, IsFiniteSet(rows), NEW order \in Orders(rows)
    PROVE  /\ order \in Seq(rows)
           /\ \A l \in rows : \E i \in DOMAIN order : order[i] = l
           /\ \A i \in DOMAIN order : order[i] \in rows
<1>1. Cardinality(rows) \in Nat
  BY FS_CardinalityType
<1>2. order \in [1..Cardinality(rows) -> rows] /\ \A l \in rows : \E i \in DOMAIN order : order[i] = l
  BY DEF Orders
<1> QED BY <1>1, <1>2

\* What is left of a sequence after its head.
LEMMA TailKeeps ==
    ASSUME NEW S, NEW s \in Seq(S), s # <<>>
    PROVE  /\ Head(s) \in S /\ Tail(s) \in Seq(S)
           /\ \E i \in DOMAIN s : Head(s) = s[i]
           /\ \A i \in DOMAIN s : s[i] = Head(s) \/ \E j \in DOMAIN Tail(s) : Tail(s)[j] = s[i]
           /\ \A j \in DOMAIN Tail(s) : \E i \in DOMAIN s : Tail(s)[j] = s[i]
<1>1. Len(s) \in Nat \ {0} /\ DOMAIN s = 1..Len(s) /\ Head(s) = s[1]
  BY EmptySeq
<1>2. /\ Tail(s) \in Seq(S) /\ Len(Tail(s)) = Len(s) - 1
      /\ \A j \in 1..Len(s) - 1 : Tail(s)[j] = s[j + 1]
  BY HeadTailProperties
<1>3. DOMAIN Tail(s) = 1..Len(s) - 1
  BY <1>2
<1>4. ASSUME NEW i \in DOMAIN s, i # 1 PROVE \E j \in DOMAIN Tail(s) : Tail(s)[j] = s[i]
  <2>1. i - 1 \in 1..Len(s) - 1 /\ (i - 1) + 1 = i
    BY <1>1, <1>4
  <2> QED BY <1>2, <1>3, <2>1
<1>5. ASSUME NEW j \in DOMAIN Tail(s) PROVE \E i \in DOMAIN s : Tail(s)[j] = s[i]
  <2>1. j + 1 \in DOMAIN s
    BY <1>1, <1>3
  <2> QED BY <1>2, <1>3, <2>1
<1>6. 1 \in DOMAIN s
  BY <1>1
<1>7. \A i \in DOMAIN s : s[i] = Head(s) \/ \E j \in DOMAIN Tail(s) : Tail(s)[j] = s[i]
  BY <1>1, <1>4
<1>8. Head(s) \in S /\ \E i \in DOMAIN s : Head(s) = s[i]
  BY <1>1, <1>6
<1>9. Tail(s) \in Seq(S) /\ \A j \in DOMAIN Tail(s) : \E i \in DOMAIN s : Tail(s)[j] = s[i]
  BY <1>2, <1>5
<1> QED BY <1>7, <1>8, <1>9

\* The labels of a save are a sequence.
LEMMA ListsSeq == ASSUME NEW S, NEW ls \in Lists(S, MaxLabels) PROVE ls \in Seq(S)
<1>1. PICK k \in 0..MaxLabels : ls \in [1..k -> S]
  BY DEF Lists
<1> QED BY <1>1

\* Whoever waits for nobody ...
LEMMA RowWaits ==
    ASSUME NEW r \in Requests, At(r, "row"), WaitsFor(r) = {}
    PROVE  \A p \in Others(r) : /\ req[p].held # req[r].id
                                /\ req[r].rekeys = "yes" => Of(req[r].id, req[p].added) = {}
<1>1. WaitsFor(r) = {p \in Others(r) :
         \/ req[p].held = req[r].id
         \/ (req[r].rekeys = "yes" /\ Of(req[r].id, req[p].added) # {})}
  BY DEF WaitsFor, At
<1> QED BY <1>1

LEMMA CopyWaits ==
    ASSUME NEW r \in Requests, At(r, "copy"), req[r].target # <<>>, WaitsFor(r) = {}
    PROVE  LinkWaits(r, Head(req[r].target)[1], req[r].into) = {}
BY DEF WaitsFor, At

LEMMA LinkStepWaits ==
    ASSUME NEW r \in Requests, At(r, "link"), req[r].target # <<>>, WaitsFor(r) = {}
    PROVE  LinkWaits(r, Head(req[r].target)[1], Head(req[r].target)[2]) = {}
BY DEF WaitsFor, At

\* A request that has ended, or has not come, waits for nobody, and so is on no cycle.
LEMMA IdleRuns ==
    ASSUME NEW r \in Requests, Deadlocked(r)
    PROVE  req[r].pc \notin Ended \cup {"new"}
<1>1. PICK C \in SUBSET Requests :
        /\ r \in C /\ C # {r}
        /\ \A X \in SUBSET C \ {{}, C} : \E p \in X : WaitsFor(p) \cap (C \ X) # {}
  BY DEF Deadlocked
<1>2. {r} \in SUBSET C \ {{}, C}
  BY <1>1
<1>3. WaitsFor(r) # {}
  BY <1>1, <1>2
<1>4. ASSUME req[r].pc \in Ended \cup {"new"} PROVE WaitsFor(r) = {}
  BY <1>4 DEF WaitsFor, Ended
<1> QED BY <1>3, <1>4

-----------------------------------------------------------------------------
(* Steps                                                                   *)

\* Requests that are done stay so, and tags that were there stay or go.
Onward(tags, tagsNext, reqs, reqsNext) ==
    /\ \A p \in Requests : reqs[p].pc = "done" => reqsNext[p] = reqs[p]
    /\ \A t \in Tags : /\ tags[t].life # "unborn" => tagsNext[t].life # "unborn"
                       /\ tags[t].life = "gone" => tagsNext[t].life = "gone"

\* What is in order stays so while others move on, the links staying as they are.
LEMMA StaysInOrder ==
    ASSUME NEW r \in Requests, NEW q \in RequestStates,
           NEW rows, NEW tags, NEW tagsNext, NEW reqs, NEW reqsNext,
           \A l \in rows : Settled(l, reqs),
           Onward(tags, tagsNext, reqs, reqsNext),
           InOrder(r, q, rows, tags, reqs)
    PROVE  InOrder(r, q, rows, tagsNext, reqsNext)
<1>1. ASSUME NEW l, Settled(l, reqs)
      PROVE  /\ Settled(l, reqsNext)
             /\ ByMerge(l, reqs) => ByMerge(l, reqsNext)
             /\ Late(l, reqs) => Late(l, reqsNext)
  <2>1. Settled(l, reqsNext) /\ (ByMerge(l, reqs) => ByMerge(l, reqsNext))
    BY <1>1 DEF Settled, ByMerge, Onward
  <2>2. Late(l, reqs) => Late(l, reqsNext)
    BY <2>1 DEF Late, Onward
  <2> QED BY <2>1, <2>2
<1>2. Dropped(q, tagsNext)
  <2>1. q.kind = "merge" => q.from \in Tags /\ q.into \in Tags
    BY DEF InOrder, Shape
  <2> QED BY <2>1 DEF InOrder, Dropped, Onward
<1>3. \A l \in q.seen : Settled(l, reqsNext)
  BY <1>1 DEF InOrder
<1>4. Clears(q, rows, reqsNext)
  BY <1>1 DEF InOrder, Clears, Of
<1>5. Relinks(q, rows, tagsNext)
  <2>1. q.ids \in Seq(Tags)
    BY DEF RequestStates
  <2>2. \A i \in DOMAIN q.ids : q.ids[i] \in Tags
    BY <2>1
  <2> QED BY <2>2 DEF InOrder, Relinks, Onward
<1>6. Copies(q, rows, tagsNext, reqsNext)
  <2>1. q.kind = "merge" => q.into \in Tags
    BY DEF InOrder, Shape
  <2> QED BY <1>1, <2>1 DEF InOrder, Copies, Onward
<1> QED BY <1>2, <1>3, <1>4, <1>5, <1>6 DEF InOrder

\* A step of one request that commits nothing to articles and links keeps the
\* invariant, if it leaves that request in order and apart from the others.
LEMMA LocalStep ==
    ASSUME TInv, NEW r \in Requests, NEW n \in RequestStates, Becomes(r, n),
           UNCHANGED <<article, links>>,
           tag' \in [Tags -> [life : Life, slug : Slugs \cup {NULL}]],
           \A t \in Tags : tag[t].life # "unborn" => tag'[t].life = tag[t].life,
           faults' \in 0..MaxFaults,
           req[r].pc # "done",
           InOrder(r, n, links, tag', req),
           \A p \in Others(r) : Apart(n, req[p]) /\ Apart(req[p], n)
    PROVE  TInv'
<1>1. req'[r] = n /\ (\A p \in Requests \ {r} : req'[p] = req[p])
      /\ req \in [Requests -> RequestStates]
  BY DEF Becomes, TInv, TypeOK
<1>2. TypeOK'
  BY <1>1 DEF TInv, TypeOK, Becomes
<1>3. Onward(tag, tag', req, req') /\ Onward(tag', tag', req, req')
  BY <1>1 DEF Onward
<1>4. \A l \in links : Settled(l, req)
  BY DEF TInv
<1>5. IsFiniteSet(links') /\ \A l \in links' : Settled(l, req')
  BY <1>1, <1>4 DEF TInv, Settled
<1>6. ASSUME NEW p \in Requests PROVE InOrder(p, req'[p], links', tag', req')
  <2>1. CASE p = r
    BY <1>1, <1>3, <1>4, <2>1, StaysInOrder
  <2>2. CASE p # r
    <3>1. InOrder(p, req[p], links, tag, req) /\ req[p] \in RequestStates
      BY <1>1 DEF TInv
    <3> QED BY <1>1, <1>3, <1>4, <2>2, <3>1, StaysInOrder
  <2> QED BY <2>1, <2>2
<1>7. ASSUME NEW p \in Requests, NEW s \in Requests, p # s PROVE Apart(req'[p], req'[s])
  BY <1>1, <1>7 DEF TInv, Others
<1> QED BY <1>2, <1>5, <1>6, <1>7 DEF TInv

\* The same for a step that takes no lock and adds no link.
LEMMA QuietStep ==
    ASSUME TInv, NEW r \in Requests, NEW n \in RequestStates, Becomes(r, n),
           UNCHANGED <<article, links>>,
           tag' \in [Tags -> [life : Life, slug : Slugs \cup {NULL}]],
           \A t \in Tags : tag[t].life # "unborn" => tag'[t].life = tag[t].life,
           faults' \in 0..MaxFaults,
           req[r].pc # "done",
           InOrder(r, n, links, tag', req),
           n.held = NULL \/ (n.held = req[r].held /\ n.rekeys = req[r].rekeys),
           n.added \subseteq req[r].added
    PROVE  TInv'
<1>1. ASSUME NEW p \in Others(r) PROVE Apart(n, req[p]) /\ Apart(req[p], n)
  <2>1. Apart(req[r], req[p]) /\ Apart(req[p], req[r])
    BY DEF TInv, Others
  <2> QED BY <2>1 DEF Apart, Of
<1> QED BY <1>1, LocalStep

\* What a request that is done, or has failed, owes the invariant.
LEMMA ThroughInOrder ==
    ASSUME TInv, NEW r \in Requests, NEW n, n.pc \in {"done", "fault"},
           n.kind = req[r].kind, n.id = req[r].id, n.rekeys = req[r].rekeys,
           n.from = req[r].from, n.into = req[r].into, n.seen = req[r].seen,
           n.held = NULL, n.added = {}, n.removed = {}
    PROVE  InOrder(r, n, links, tag, req)
<1>1. InOrder(r, req[r], links, tag, req)
  BY DEF TInv
<1>2. IsFiniteSet({})
  BY FS_EmptySet
<1>3. Shape(n) /\ Dropped(n, tag) /\ \A l \in n.seen : Settled(l, req)
  BY <1>1 DEF InOrder, Shape, Dropped
<1>4. Open(r, n)
  BY <1>2 DEF Open
<1>5. Clears(n, links, req) /\ Relinks(n, links, tag)
  BY DEF Clears, Relinks
<1>6. Copies(n, links, tag, req)
  BY DEF Copies, StepsOf
<1> QED BY <1>3, <1>4, <1>5, <1>6 DEF InOrder

\* A transaction that is rolled back leaves nothing behind.
LEMMA RollBackInv ==
    ASSUME TInv, NEW r \in Requests, Becomes(r, RolledBack(req[r])), UNCHANGED tables,
           faults' \in 0..MaxFaults, req[r].pc # "done"
    PROVE  TInv'
<1> DEFINE q == req[r]
           n == RolledBack(q)
<1>1. q \in RequestStates
  BY DEF TInv, TypeOK
<1>2. /\ n.pc = "fault" /\ n.kind = q.kind /\ n.id = q.id /\ n.rekeys = q.rekeys
      /\ n.from = q.from /\ n.into = q.into /\ n.seen = q.seen
      /\ n.held = NULL /\ n.added = {} /\ n.removed = {}
  BY <1>1 DEF RolledBack, RequestStates
<1>3. n \in RequestStates
  <2>1. <<>> \in Seq(Links)
    OBVIOUS
  <2> QED BY <1>1, <2>1 DEF RolledBack, RequestStates, Steps
<1>4. Becomes(r, n)
  OBVIOUS
<1> HIDE DEF n
<1>5. InOrder(r, n, links, tag, req)
  BY <1>2, ThroughInOrder
<1>6. UNCHANGED <<tag, article, links>>
  BY DEF tables
<1>7. tag' \in [Tags -> [life : Life, slug : Slugs \cup {NULL}]]
  BY <1>6 DEF TInv, TypeOK
<1> QED BY <1>2, <1>3, <1>4, <1>5, <1>6, <1>7, QuietStep

-----------------------------------------------------------------------------
(* Every step of the program                                               *)

LEMMA InitTInv == Init => TInv
<1> SUFFICES ASSUME Init PROVE TInv
  OBVIOUS
<1>1. PICK ts \in SUBSET Tags, as \in SUBSET Articles :
        /\ tag \in [Tags -> [life : {"unborn", "live"}, slug : Slugs \cup {NULL}]]
        /\ article = [a \in Articles |-> IF a \in as THEN "live" ELSE "unborn"]
        /\ links \in SUBSET (as \X ts \X {NULL}) /\ IsFiniteSet(links)
        /\ req = [r \in Requests |-> NewRequest]
        /\ faults = 0
  BY DEF Init
<1>2. NewRequest \in RequestStates
  <2>1. <<>> \in Seq(Slugs) /\ <<>> \in Seq(Tags) /\ <<>> \in Seq(Links)
    OBVIOUS
  <2> QED BY <2>1 DEF NewRequest, RequestStates, Steps
<1>3. TypeOK
  <2>1. links \subseteq Links
    BY <1>1 DEF Links
  <2>2. tag \in [Tags -> [life : Life, slug : Slugs \cup {NULL}]]
    BY <1>1 DEF Life
  <2>3. article \in [Articles -> Life]
    BY <1>1 DEF Life
  <2>4. req \in [Requests -> RequestStates]
    <3> HIDE DEF NewRequest
    <3> QED BY <1>1, <1>2
  <2>5. faults \in 0..MaxFaults
    BY <1>1
  <2> QED BY <2>1, <2>2, <2>3, <2>4, <2>5 DEF TypeOK
<1>4. \A l \in links : Settled(l, req)
  BY <1>1 DEF Settled
<1>5. \A p, r \in Requests : p # r => Apart(req[p], req[r])
  BY <1>1 DEF Apart, NewRequest
<1>6. ASSUME NEW r \in Requests PROVE InOrder(r, req[r], links, tag, req)
  <2> DEFINE n == NewRequest
  <2>1. /\ n.pc = "new" /\ n.kind = NULL /\ n.held = NULL /\ n.added = {} /\ n.removed = {}
        /\ n.seen = {}
    BY DEF NewRequest
  <2>2. req[r] = n
    BY <1>1
  <2> HIDE DEF n
  <2>3. Shape(n) /\ Dropped(n, tag)
    BY <2>1, EmptySeq DEF Shape, Dropped, Kinds, Writes
  <2>4. Open(r, n)
    BY <2>1, FS_EmptySet DEF Open
  <2>5. Clears(n, links, req) /\ Relinks(n, links, tag) /\ Copies(n, links, tag, req)
    BY <2>1 DEF Clears, Relinks, Copies, StepsOf
  <2> QED BY <2>1, <2>2, <2>3, <2>4, <2>5 DEF InOrder
<1> QED BY <1>1, <1>3, <1>4, <1>5, <1>6 DEF TInv
\* A request that comes starts from nothing.
LEMMA Fresh ==
    ASSUME TInv, NEW r \in Requests, At(r, "new"), NEW n \in RequestStates, Becomes(r, n),
           UNCHANGED <<tables, faults>>,
           n.pc \in {"lookup", "row", "drop"}, n.kind # "merge", Shape(n),
           n.held = NULL, n.added = {}, n.removed = {}, n.seen = {}
    PROVE  TInv'
<1>1. Open(r, n) /\ Dropped(n, tag)
  BY FS_EmptySet DEF Open, Dropped
<1>2. Clears(n, links, req) /\ Relinks(n, links, tag) /\ Copies(n, links, tag, req)
  BY DEF Clears, Relinks, Copies
<1>3. InOrder(r, n, links, tag, req)
  BY <1>1, <1>2 DEF InOrder
<1>4. /\ UNCHANGED <<tag, article, links>> /\ faults' \in 0..MaxFaults
      /\ tag' \in [Tags -> [life : Life, slug : Slugs \cup {NULL}]]
  BY DEF tables, TInv, TypeOK
<1> QED BY <1>3, <1>4, QuietStep DEF At

LEMMA SaveInv == ASSUME TInv, NEW r \in Requests, Save(r) PROVE TInv'
<1>1. PICK a \in Articles, ls \in Lists(Slugs, MaxLabels), rekeys \in {"yes", "no"} :
        Becomes(r, [NewRequest EXCEPT !.pc = "lookup", !.kind = "save", !.id = a,
                                      !.labels = ls, !.rekeys = rekeys])
  BY DEF Save
<1> DEFINE n == [NewRequest EXCEPT !.pc = "lookup", !.kind = "save", !.id = a,
                                   !.labels = ls, !.rekeys = rekeys]
<1>2. /\ n.pc = "lookup" /\ n.kind = "save" /\ n.id = a
      /\ n.held = NULL /\ n.added = {} /\ n.removed = {} /\ n.seen = {}
  BY DEF NewRequest
<1>3. n \in RequestStates
  <2>1. ls \in Seq(Slugs) /\ <<>> \in Seq(Tags) /\ <<>> \in Seq(Links)
    BY ListsSeq
  <2> QED BY <2>1 DEF NewRequest, RequestStates, Steps, Kinds
<1>4. Becomes(r, n)
  BY <1>1
<1> HIDE DEF n
<1>5. Shape(n)
  BY <1>2 DEF Shape, StepsOf, Kinds, Writes
<1> QED BY <1>2, <1>3, <1>4, <1>5, Fresh DEF Save

LEMMA DeleteArticleInv == ASSUME TInv, NEW r \in Requests, DeleteArticle(r) PROVE TInv'
<1>1. PICK a \in Articles :
        Becomes(r, [NewRequest EXCEPT !.pc = "row", !.kind = "delete_article",
                                      !.id = a, !.rekeys = "yes"])
  BY DEF DeleteArticle
<1> DEFINE n == [NewRequest EXCEPT !.pc = "row", !.kind = "delete_article",
                                   !.id = a, !.rekeys = "yes"]
<1>2. /\ n.pc = "row" /\ n.kind = "delete_article" /\ n.id = a /\ n.rekeys = "yes"
      /\ n.held = NULL /\ n.added = {} /\ n.removed = {} /\ n.seen = {}
  BY DEF NewRequest
<1>3. n \in RequestStates
  <2>1. <<>> \in Seq(Slugs) /\ <<>> \in Seq(Tags) /\ <<>> \in Seq(Links)
    OBVIOUS
  <2> QED BY <2>1 DEF NewRequest, RequestStates, Steps, Kinds
<1>4. Becomes(r, n)
  BY <1>1
<1> HIDE DEF n
<1>5. Shape(n)
  BY <1>2 DEF Shape, StepsOf, Kinds, Writes
<1> QED BY <1>2, <1>3, <1>4, <1>5, Fresh DEF DeleteArticle

LEMMA NewTagInv == ASSUME TInv, NEW r \in Requests, NewTag(r) PROVE TInv'
<1>1. PICK s \in Slugs :
        Becomes(r, [NewRequest EXCEPT !.pc = "lookup", !.kind = "create_tag", !.labels = <<s>>])
  BY DEF NewTag
<1> DEFINE n == [NewRequest EXCEPT !.pc = "lookup", !.kind = "create_tag", !.labels = <<s>>]
<1>2. /\ n.pc = "lookup" /\ n.kind = "create_tag" /\ n.labels # <<>>
      /\ n.held = NULL /\ n.added = {} /\ n.removed = {} /\ n.seen = {}
  <2>1. <<s>> # <<>>
    OBVIOUS
  <2> QED BY <2>1 DEF NewRequest
<1>3. n \in RequestStates
  <2>1. <<s>> \in Seq(Slugs) /\ <<>> \in Seq(Tags) /\ <<>> \in Seq(Links)
    OBVIOUS
  <2> QED BY <2>1 DEF NewRequest, RequestStates, Steps, Kinds
<1>4. Becomes(r, n)
  BY <1>1
<1> HIDE DEF n
<1>5. Shape(n)
  BY <1>2 DEF Shape, StepsOf, Kinds, Writes
<1> QED BY <1>2, <1>3, <1>4, <1>5, Fresh DEF NewTag

LEMMA DeleteTagInv == ASSUME TInv, NEW r \in Requests, DeleteTag(r) PROVE TInv'
<1>1. PICK t \in Tags :
        Becomes(r, [NewRequest EXCEPT !.pc = "drop", !.kind = "delete_tag", !.from = t])
  BY DEF DeleteTag
<1> DEFINE n == [NewRequest EXCEPT !.pc = "drop", !.kind = "delete_tag", !.from = t]
<1>2. /\ n.pc = "drop" /\ n.kind = "delete_tag" /\ n.from = t
      /\ n.held = NULL /\ n.added = {} /\ n.removed = {} /\ n.seen = {}
  BY DEF NewRequest
<1>3. n \in RequestStates
  <2>1. <<>> \in Seq(Slugs) /\ <<>> \in Seq(Tags) /\ <<>> \in Seq(Links)
    OBVIOUS
  <2> QED BY <2>1 DEF NewRequest, RequestStates, Steps, Kinds
<1>4. Becomes(r, n)
  BY <1>1
<1> HIDE DEF n
<1>5. Shape(n)
  BY <1>2 DEF Shape, StepsOf, Kinds, Writes
<1> QED BY <1>2, <1>3, <1>4, <1>5, Fresh DEF DeleteTag

LEMMA MergeInv == ASSUME TInv, NEW r \in Requests, Merge(r) PROVE TInv'
<1>1. PICK f \in Tags, i \in Tags : \E order \in Orders(With(f, links)) :
        /\ f # i /\ tag[f].life # "unborn" /\ tag[i].life # "unborn"
        /\ Becomes(r, [NewRequest EXCEPT !.pc = "copy", !.kind = "merge", !.from = f, !.into = i,
                                         !.target = order, !.seen = With(f, links)])
  BY DEF Merge
<1> DEFINE rows == With(f, links)
<1>2. PICK order \in Orders(rows) :
        Becomes(r, [NewRequest EXCEPT !.pc = "copy", !.kind = "merge", !.from = f, !.into = i,
                                      !.target = order, !.seen = rows])
  BY <1>1
<1> DEFINE n == [NewRequest EXCEPT !.pc = "copy", !.kind = "merge", !.from = f, !.into = i,
                                   !.target = order, !.seen = rows]
<1>3. /\ n.pc = "copy" /\ n.kind = "merge" /\ n.from = f /\ n.into = i
      /\ n.target = order /\ n.seen = rows
      /\ n.held = NULL /\ n.added = {} /\ n.removed = {}
  BY DEF NewRequest
<1>4. /\ rows \subseteq links /\ links \subseteq Links /\ IsFiniteSet(rows)
  <2>1. rows \subseteq links
    BY DEF With
  <2> QED BY <2>1, FS_Subset DEF TInv, TypeOK
<1>5. order \in Seq(rows) /\ \A l \in rows : \E j \in DOMAIN order : order[j] = l
  BY <1>2, <1>4, OrdersSeq
<1>6. n \in RequestStates
  <2>1. <<>> \in Seq(Slugs) /\ <<>> \in Seq(Tags) /\ order \in Seq(Links)
    BY <1>4, <1>5
  <2>2. rows \subseteq Links
    BY <1>4
  <2> QED BY <2>1, <2>2 DEF NewRequest, RequestStates, Steps, Kinds
<1>7. Becomes(r, n)
  BY <1>2
<1> HIDE DEF n
<1>8. Shape(n) /\ Dropped(n, tag) /\ Open(r, n)
  BY <1>1, <1>3, FS_EmptySet DEF Shape, StepsOf, Kinds, Writes, Dropped, Open
<1>9. Copies(n, links, tag, req)
  BY <1>3, <1>5 DEF Copies
<1>10. Clears(n, links, req) /\ Relinks(n, links, tag)
  BY <1>3 DEF Clears, Relinks, Writes
<1>11. \A l \in n.seen : Settled(l, req)
  BY <1>3, <1>4 DEF TInv
<1>12. InOrder(r, n, links, tag, req)
  BY <1>8, <1>9, <1>10, <1>11 DEF InOrder
<1>13. /\ UNCHANGED <<tag, article, links>> /\ faults' \in 0..MaxFaults /\ req[r].pc # "done"
       /\ tag' \in [Tags -> [life : Life, slug : Slugs \cup {NULL}]]
  BY DEF Merge, tables, TInv, TypeOK, At
<1> QED BY <1>3, <1>6, <1>7, <1>12, <1>13, QuietStep
-----------------------------------------------------------------------------
(* Steps: finding and creating tags                                        *)

LEMMA Facts ==
    ASSUME TInv, NEW r \in Requests
    PROVE  /\ req[r] \in RequestStates
           /\ Shape(req[r]) /\ Open(r, req[r]) /\ Dropped(req[r], tag)
           /\ \A l \in req[r].seen : Settled(l, req)
           /\ Clears(req[r], links, req) /\ Relinks(req[r], links, tag)
           /\ Copies(req[r], links, tag, req)
           /\ links \subseteq Links /\ IsFiniteSet(links)
           /\ tag \in [Tags -> [life : Life, slug : Slugs \cup {NULL}]]
           /\ faults \in 0..MaxFaults
BY DEF TInv, TypeOK, InOrder

\* Steps before the first statement of a transaction.
LEMMA EarlyInv ==
    ASSUME TInv, NEW r \in Requests, NEW n \in RequestStates, Becomes(r, n),
           UNCHANGED <<article, links>>,
           tag' \in [Tags -> [life : Life, slug : Slugs \cup {NULL}]],
           \A t \in Tags : tag[t].life # "unborn" => tag'[t].life = tag[t].life,
           faults' \in 0..MaxFaults,
           req[r].pc \in {"lookup", "create"},
           n.pc \in {"lookup", "create", "row", "done"}, Shape(n),
           n.kind = req[r].kind, n.seen = req[r].seen,
           n.held = req[r].held, n.added = req[r].added, n.removed = req[r].removed,
           n.id = req[r].id
    PROVE  TInv'
<1> DEFINE q == req[r]
<1>1. q.kind \in {"save", "create_tag"}
  BY Facts DEF Shape, StepsOf, Kinds
<1>2. q.held = NULL /\ q.added = {}
  BY Facts DEF Open
<1>3. Open(r, n)
  <2>1. \A l \in q.removed : \/ q.kind \in Writes /\ l[1] = q.id
                             \/ q.kind = "merge" /\ l[2] = q.from
    BY Facts DEF Open
  <2>2. \A l \in n.removed : n.kind \in Writes /\ l[1] = n.id
    BY <1>1, <2>1
  <2> QED BY <1>2, <2>2, FS_EmptySet DEF Open
<1>4. Dropped(n, tag') /\ Copies(n, links, tag', req)
  BY <1>1 DEF Dropped, Copies
<1>5. Clears(n, links, req) /\ Relinks(n, links, tag')
  BY DEF Clears, Relinks
<1>6. InOrder(r, n, links, tag', req)
  BY <1>3, <1>4, <1>5, Facts DEF InOrder
<1> QED BY <1>2, <1>6, QuietStep

LEMMA LookupInv == ASSUME TInv, NEW r \in Requests, Lookup(r) PROVE TInv'
<1> DEFINE q == req[r]
<1>1. /\ UNCHANGED <<tag, article, links>> /\ faults' \in 0..MaxFaults
      /\ tag' \in [Tags -> [life : Life, slug : Slugs \cup {NULL}]]
  BY Facts DEF Lookup, tables
<1>2. q.pc = "lookup" /\ q \in RequestStates /\ Shape(q)
  BY Facts DEF Lookup, At
<1>3. CASE q.labels = <<>> /\ \E pc \in {"row", "done"} : Becomes(r, [q EXCEPT !.pc = pc])
  <2>1. PICK pc \in {"row", "done"} : Becomes(r, [q EXCEPT !.pc = pc])
    BY <1>3
  <2> DEFINE n == [q EXCEPT !.pc = pc]
  <2>2. n \in RequestStates
    BY <1>2 DEF RequestStates, Steps
  <2>3. n.pc = pc
    BY <1>2 DEF RequestStates
  <2>4. /\ n.kind = q.kind /\ n.id = q.id /\ n.rekeys = q.rekeys /\ n.from = q.from
        /\ n.into = q.into /\ n.seen = q.seen /\ n.held = q.held /\ n.added = q.added
        /\ n.removed = q.removed
    BY <1>2 DEF RequestStates
  <2>5. Becomes(r, n)
    BY <2>1
  <2> HIDE DEF n
  <2>6. Shape(n)
    BY <1>2, <1>3, <2>3, <2>4 DEF Shape, StepsOf, Kinds
  <2> QED BY <1>1, <1>2, <2>2, <2>3, <2>4, <2>5, <2>6, EarlyInv
<1>4. CASE q.labels # <<>> /\ \E pc \in {"create", "done"} : Becomes(r, [q EXCEPT !.pc = pc])
  <2>1. PICK pc \in {"create", "done"} : Becomes(r, [q EXCEPT !.pc = pc])
    BY <1>4
  <2> DEFINE n == [q EXCEPT !.pc = pc]
  <2>2. n \in RequestStates
    BY <1>2 DEF RequestStates, Steps
  <2>4. /\ n.kind = q.kind /\ n.id = q.id /\ n.rekeys = q.rekeys /\ n.from = q.from
        /\ n.into = q.into /\ n.seen = q.seen /\ n.held = q.held /\ n.added = q.added
        /\ n.removed = q.removed /\ n.labels = q.labels /\ n.pc = pc
    BY <1>2 DEF RequestStates
  <2>5. Becomes(r, n)
    BY <2>1
  <2> HIDE DEF n
  <2>6. Shape(n)
    BY <1>2, <1>4, <2>4 DEF Shape, StepsOf, Kinds
  <2> QED BY <1>1, <1>2, <2>2, <2>4, <2>5, <2>6, EarlyInv
<1>5. CASE /\ q.labels # <<>> /\ q.kind = "save"
           /\ \E t \in Tags : Becomes(r, [q EXCEPT !.labels = Tail(@), !.ids = Append(@, t)])
  <2>1. PICK t \in Tags : Becomes(r, [q EXCEPT !.labels = Tail(@), !.ids = Append(@, t)])
    BY <1>5
  <2> DEFINE n == [q EXCEPT !.labels = Tail(@), !.ids = Append(@, t)]
  <2>2. n \in RequestStates
    <3>1. Tail(q.labels) \in Seq(Slugs) /\ Append(q.ids, t) \in Seq(Tags)
      BY <1>2, <1>5, TailKeeps DEF RequestStates
    <3> QED BY <1>2, <3>1 DEF RequestStates
  <2>4. /\ n.kind = q.kind /\ n.id = q.id /\ n.rekeys = q.rekeys /\ n.from = q.from
        /\ n.into = q.into /\ n.seen = q.seen /\ n.held = q.held /\ n.added = q.added
        /\ n.removed = q.removed /\ n.pc = "lookup"
    BY <1>2 DEF RequestStates
  <2>5. Becomes(r, n)
    BY <2>1
  <2> HIDE DEF n
  <2>6. Shape(n)
    BY <1>2, <1>5, <2>4 DEF Shape, StepsOf, Kinds
  <2> QED BY <1>1, <1>2, <2>2, <2>4, <2>5, <2>6, EarlyInv
<1> QED BY <1>3, <1>4, <1>5 DEF Lookup, LiveTags

LEMMA LookupFailsInv == ASSUME TInv, NEW r \in Requests, LookupFails(r) PROVE TInv'
<1> DEFINE q == req[r]
           n == [q EXCEPT !.pc = "create"]
<1>1. /\ UNCHANGED <<tag, article, links>>
      /\ tag' \in [Tags -> [life : Life, slug : Slugs \cup {NULL}]]
  BY Facts DEF LookupFails, tables
<1>2. faults' \in 0..MaxFaults
  BY Facts DEF LookupFails
<1>3. q.pc = "lookup" /\ q.kind = "create_tag" /\ q \in RequestStates /\ Shape(q)
  BY Facts DEF LookupFails, At
<1>4. n \in RequestStates
  BY <1>3 DEF RequestStates, Steps
<1>5. /\ n.kind = q.kind /\ n.id = q.id /\ n.rekeys = q.rekeys /\ n.from = q.from
      /\ n.into = q.into /\ n.seen = q.seen /\ n.held = q.held /\ n.added = q.added
      /\ n.removed = q.removed /\ n.labels = q.labels /\ n.pc = "create"
  BY <1>3 DEF RequestStates
<1>6. Becomes(r, n)
  BY DEF LookupFails
<1> HIDE DEF n
<1>7. Shape(n)
  BY <1>3, <1>5 DEF Shape, StepsOf, Kinds
<1> QED BY <1>1, <1>2, <1>3, <1>4, <1>5, <1>6, <1>7, EarlyInv

\* A request goes on to the next of its labels.
LEMMA NextLabelTyped ==
    ASSUME NEW q \in RequestStates, NEW p \in Steps,
           NEW ls \in Seq(Slugs), NEW ts \in Seq(Tags)
    PROVE  [q EXCEPT !.pc = p, !.labels = ls, !.ids = ts] \in RequestStates
BY DEF RequestStates

LEMMA CreateTagInv == ASSUME TInv, NEW r \in Requests, CreateTag(r) PROVE TInv'
<1> DEFINE q == req[r]
           s == Head(q.labels)
<1>1. UNCHANGED <<article, links>> /\ faults' \in 0..MaxFaults
  BY Facts DEF CreateTag
<1>2. q.pc = "create" /\ q \in RequestStates /\ Shape(q)
  BY Facts DEF CreateTag, Proceeds, At
<1>3. /\ s \in Slugs /\ Tail(q.labels) \in Seq(Slugs)
  BY <1>2, TailKeeps DEF Shape, RequestStates
<1>4. CASE Becomes(r, RolledBack(q)) /\ UNCHANGED tag
  BY <1>1, <1>2, <1>4, RollBackInv DEF tables
<1>5. CASE \E t \in Tags :
             /\ tag[t].life = "unborn"
             /\ tag' = [tag EXCEPT ![t] = [life |-> "live", slug |-> s]]
             /\ Becomes(r, [q EXCEPT !.pc = IF q.kind = "save" THEN "lookup" ELSE "done",
                                     !.labels = Tail(@), !.ids = Append(@, t)])
  <2>1. PICK t \in Tags :
          /\ tag[t].life = "unborn"
          /\ tag' = [tag EXCEPT ![t] = [life |-> "live", slug |-> s]]
          /\ Becomes(r, [q EXCEPT !.pc = IF q.kind = "save" THEN "lookup" ELSE "done",
                                  !.labels = Tail(@), !.ids = Append(@, t)])
    BY <1>5
  <2> DEFINE n == [q EXCEPT !.pc = IF q.kind = "save" THEN "lookup" ELSE "done",
                            !.labels = Tail(@), !.ids = Append(@, t)]
  <2>2. n \in RequestStates
    <3>1. q.ids \in Seq(Tags)
      BY <1>2 DEF RequestStates
    <3>2. Append(q.ids, t) \in Seq(Tags)
      BY <3>1
    <3>3. PICK p \in {"lookup", "done"} : p = IF q.kind = "save" THEN "lookup" ELSE "done"
      OBVIOUS
    <3>4. n = [q EXCEPT !.pc = p, !.labels = Tail(q.labels), !.ids = Append(q.ids, t)]
      BY <1>2, <3>3 DEF RequestStates
    <3>5. p \in Steps
      BY DEF Steps
    <3> QED BY <1>2, <1>3, <3>2, <3>4, <3>5, NextLabelTyped
  <2>4. /\ n.kind = q.kind /\ n.id = q.id /\ n.rekeys = q.rekeys /\ n.from = q.from
        /\ n.into = q.into /\ n.seen = q.seen /\ n.held = q.held /\ n.added = q.added
        /\ n.removed = q.removed /\ n.pc = IF q.kind = "save" THEN "lookup" ELSE "done"
    BY <1>2 DEF RequestStates
  <2>5. Becomes(r, n)
    BY <2>1
  <2> HIDE DEF n
  <2>6. Shape(n)
    BY <1>2, <2>4 DEF Shape, StepsOf, Kinds
  <2>7. /\ tag' \in [Tags -> [life : Life, slug : Slugs \cup {NULL}]]
        /\ \A u \in Tags : tag[u].life # "unborn" => tag'[u].life = tag[u].life
    BY <1>3, <2>1, Facts DEF Life
  <2> QED BY <1>1, <1>2, <2>2, <2>4, <2>5, <2>6, <2>7, EarlyInv
<1> QED BY <1>4, <1>5 DEF CreateTag
-----------------------------------------------------------------------------
(* Steps: the statements of a transaction                                  *)

LEMMA WriteRowInv == ASSUME TInv, NEW r \in Requests, WriteRow(r) PROVE TInv'
<1> DEFINE q == req[r]
           rows == Of(q.id, links)
<1>1. /\ UNCHANGED <<tag, article, links>> /\ faults' \in 0..MaxFaults
      /\ tag' \in [Tags -> [life : Life, slug : Slugs \cup {NULL}]]
  BY Facts DEF WriteRow, tables
<1>2. q.pc = "row" /\ q \in RequestStates /\ q.kind \in Writes /\ q.id \in Articles
  BY Facts DEF WriteRow, Proceeds, At, Shape, StepsOf, Kinds, Writes
<1>3. q.added = {} /\ q.held = NULL
  BY <1>2, Facts DEF Open
<1>4. CASE Becomes(r, [q EXCEPT !.pc = "done"])
  <2> DEFINE n == [q EXCEPT !.pc = "done"]
  <2>1. n \in RequestStates
    BY <1>2 DEF RequestStates, Steps
  <2>2. /\ n.kind = q.kind /\ n.id = q.id /\ n.rekeys = q.rekeys /\ n.from = q.from
        /\ n.into = q.into /\ n.seen = q.seen /\ n.held = NULL /\ n.added = {}
        /\ n.removed = q.removed /\ n.pc = "done"
    BY <1>2, <1>3 DEF RequestStates
  <2>3. Becomes(r, n)
    BY <1>4
  <2> HIDE DEF n
  <2>4. Shape(n) /\ Dropped(n, tag)
    BY <1>2, <2>2, Facts DEF Shape, Dropped
  <2>5. Open(r, n)
    BY <1>2, <2>2, Facts, FS_EmptySet DEF Open
  <2>6. Clears(n, links, req) /\ Relinks(n, links, tag) /\ Copies(n, links, tag, req)
    BY <2>2 DEF Clears, Relinks, Copies, StepsOf
  <2>7. InOrder(r, n, links, tag', req)
    BY <1>1, <2>2, <2>4, <2>5, <2>6, Facts DEF InOrder
  <2> QED BY <1>1, <1>2, <2>1, <2>2, <2>3, <2>7, QuietStep
<1>5. CASE \E order \in Orders(rows) :
             Becomes(r, [q EXCEPT !.pc = "clear", !.held = q.id, !.target = order])
  <2>1. PICK order \in Orders(rows) :
          Becomes(r, [q EXCEPT !.pc = "clear", !.held = q.id, !.target = order])
    BY <1>5
  <2> DEFINE n == [q EXCEPT !.pc = "clear", !.held = q.id, !.target = order]
  <2>2. rows \subseteq links /\ IsFiniteSet(rows)
    <3>1. rows \subseteq links
      BY DEF Of
    <3> QED BY <3>1, FS_Subset, Facts
  <2>3. /\ order \in Seq(rows)
        /\ \A l \in rows : \E i \in DOMAIN order : order[i] = l
        /\ \A i \in DOMAIN order : order[i] \in rows
    BY <2>1, <2>2, OrdersSeq
  <2>4. n \in RequestStates
    <3>1. order \in Seq(Links)
      BY <2>2, <2>3, Facts
    <3> HIDE DEF rows
    <3> QED BY <1>2, <3>1 DEF RequestStates, Steps
  <2>5. /\ n.kind = q.kind /\ n.id = q.id /\ n.rekeys = q.rekeys /\ n.from = q.from
        /\ n.into = q.into /\ n.seen = q.seen /\ n.held = q.id /\ n.added = {}
        /\ n.removed = q.removed /\ n.pc = "clear" /\ n.target = order
    BY <1>2, <1>3 DEF RequestStates
  <2>6. Becomes(r, n)
    BY <2>1
  <2> HIDE DEF n
  <2>7. Shape(n) /\ Dropped(n, tag)
    BY <1>2, <2>5, Facts DEF Shape, Dropped, StepsOf, Writes, Kinds
  <2>8. Open(r, n)
    <3>1. \A i \in DOMAIN n.target : n.target[i][1] = n.id
      BY <2>3, <2>5 DEF Of
    <3> QED BY <1>2, <2>5, <3>1, Facts, FS_EmptySet DEF Open, Writes
  <2>9. Clears(n, links, req)
    BY <2>3, <2>5 DEF Clears
  <2>10. Relinks(n, links, tag) /\ Copies(n, links, tag, req)
    BY <1>2, <2>5 DEF Relinks, Copies, Writes
  <2>11. InOrder(r, n, links, tag', req)
    BY <1>1, <2>5, <2>7, <2>8, <2>9, <2>10, Facts DEF InOrder
  <2>12. WaitsFor(r) = {} /\ At(r, "row")
    BY DEF WriteRow, Proceeds
  <2>13. ASSUME NEW p \in Others(r) PROVE Apart(n, req[p]) /\ Apart(req[p], n)
    <3>1. req[p].held # q.id /\ (q.rekeys = "yes" => Of(q.id, req[p].added) = {})
      BY <2>12, RowWaits
    <3>2. Of(req[p].held, {}) = {}
      BY DEF Of
    <3> QED BY <2>5, <3>1, <3>2 DEF Apart
  <2> QED BY <1>1, <1>2, <2>4, <2>6, <2>11, <2>13, LocalStep
<1> QED BY <1>4, <1>5 DEF WriteRow

\* The insertion of one row, which finds the link there, adds it or fails.
LEMMA InsertInv ==
    ASSUME TInv, NEW r \in Requests, NEW a \in Articles, NEW t \in Tags,
           Insert(r, a, t, [req[r] EXCEPT !.target = Tail(@)]), LinkWaits(r, a, t) = {},
           UNCHANGED <<tables, faults>>, req[r].target # <<>>,
           \/ /\ req[r].kind = "merge" /\ req[r].pc = "copy"
              /\ a = Head(req[r].target)[1] /\ t = req[r].into
           \/ /\ req[r].kind = "save" /\ req[r].pc = "link"
              /\ a = req[r].id /\ t = Head(req[r].target)[2]
    PROVE  TInv'
<1> DEFINE q == req[r]
           tail == Tail(q.target)
<1>1. /\ UNCHANGED <<tag, article, links>> /\ faults' \in 0..MaxFaults
      /\ tag' \in [Tags -> [life : Life, slug : Slugs \cup {NULL}]]
  BY Facts DEF tables
<1>2. q \in RequestStates
  BY Facts
<1>3. /\ tail \in Seq(Links)
      /\ \E i \in DOMAIN q.target : Head(q.target) = q.target[i]
      /\ \A i \in DOMAIN q.target : \/ q.target[i] = Head(q.target)
                                    \/ \E j \in DOMAIN tail : tail[j] = q.target[i]
      /\ \A j \in DOMAIN tail : \E i \in DOMAIN q.target : tail[j] = q.target[i]
  <2>1. q.target \in Seq(Links)
    BY <1>2 DEF RequestStates
  <2> QED BY <2>1, TailKeeps
<1>4. CASE Becomes(r, RolledBack(q))
  BY <1>1, <1>4, RollBackInv
<1>5. CASE \E A \in SUBSET Links :
             /\ Becomes(r, [q EXCEPT !.target = tail, !.added = A])
             /\ \/ A = q.added
                \/ A = q.added \cup {<<a, t, r>>} /\ ~Linked(a, t, Visible(r))
             /\ Linked(a, t, (links \ q.removed) \cup A)
  <2>1. PICK A \in SUBSET Links :
          /\ Becomes(r, [q EXCEPT !.target = tail, !.added = A])
          /\ \/ A = q.added
             \/ A = q.added \cup {<<a, t, r>>} /\ ~Linked(a, t, Visible(r))
          /\ Linked(a, t, (links \ q.removed) \cup A)
    BY <1>5
  <2> DEFINE n == [q EXCEPT !.target = tail, !.added = A]
  <2>2. n \in RequestStates
    BY <1>2, <1>3 DEF RequestStates
  <2>3. /\ n.kind = q.kind /\ n.id = q.id /\ n.rekeys = q.rekeys /\ n.from = q.from
        /\ n.into = q.into /\ n.seen = q.seen /\ n.held = q.held /\ n.added = A
        /\ n.removed = q.removed /\ n.pc = q.pc /\ n.target = tail /\ n.ids = q.ids
        /\ n.dead = q.dead /\ n.labels = q.labels
    BY <1>2 DEF RequestStates
  <2>4. Becomes(r, n)
    BY <2>1
  <2> HIDE DEF n, tail
  <2>5. Shape(n) /\ Dropped(n, tag)
    BY <2>3, Facts DEF Shape, Dropped
  <2>6. \A l \in A : l \in q.added \/ l = <<a, t, r>>
    BY <2>1
  <2>7. Open(r, n)
    <3>1. IsFiniteSet(A)
      <4>1. IsFiniteSet(q.added)
        BY Facts DEF Open
      <4>2. IsFiniteSet(q.added \cup {<<a, t, r>>})
        BY <4>1, FS_AddElement
      <4> QED BY <2>1, <4>1, <4>2
    <3>2. \A l \in A : l[3] = r /\ (q.kind = "merge" \/ (q.kind = "save" /\ l[1] = q.id))
      BY <2>6, Facts DEF Open
    <3>3. n.pc = "link" => \A j \in DOMAIN tail :
            IF q.kind = "merge" THEN tail[j][2] = q.from ELSE tail[j][1] = q.id
      <4> SUFFICES ASSUME q.pc = "link", NEW j \in DOMAIN tail
                   PROVE  IF q.kind = "merge" THEN tail[j][2] = q.from ELSE tail[j][1] = q.id
        BY <2>3
      <4>1. PICK i \in DOMAIN q.target : tail[j] = q.target[i]
        BY <1>3
      <4> QED BY <4>1, Facts DEF Open
    <3> QED BY <2>3, <3>1, <3>2, <3>3, Facts DEF Open
  <2>8. Clears(n, links, req)
    BY <2>3, Facts DEF Clears
  <2>9. ASSUME NEW b, NEW u, Linked(b, u, Sees(q, links)) PROVE Linked(b, u, Sees(n, links))
    BY <2>1, <2>3, <2>9 DEF Linked, Sees
  <2>10. Linked(a, t, Sees(n, links))
    BY <2>1, <2>3 DEF Sees
  <2>11. Relinks(n, links, tag)
    <3> SUFFICES ASSUME q.kind = "save", q.pc = "link", NEW i \in DOMAIN q.ids
                 PROVE  \/ \E j \in DOMAIN tail : tail[j][2] = q.ids[i]
                        \/ Linked(q.id, q.ids[i], Sees(n, links))
                        \/ tag[q.ids[i]].life = "gone"
      BY <2>3 DEF Relinks
    <3>1. CASE \E j \in DOMAIN q.target : q.target[j][2] = q.ids[i]
      BY <1>3, <2>10, <3>1
    <3>2. CASE Linked(q.id, q.ids[i], Sees(q, links)) \/ tag[q.ids[i]].life = "gone"
      BY <2>9, <3>2
    <3> QED BY <3>1, <3>2, Facts DEF Relinks
  <2>12. Copies(n, links, tag, req)
    <3> SUFFICES ASSUME q.kind = "merge", q.pc = "copy", NEW l \in links \cap q.seen
                 PROVE  \/ \E j \in DOMAIN tail : tail[j] = l
                        \/ Linked(l[1], q.into, Sees(n, links))
                        \/ tag[q.into].life = "gone"
                        \/ Late(l, req)
      BY <2>3 DEF Copies
    <3>1. CASE \E j \in DOMAIN q.target : q.target[j] = l
      BY <1>3, <2>10, <3>1
    <3>2. CASE \/ Linked(l[1], q.into, Sees(q, links))
               \/ tag[q.into].life = "gone"
               \/ Late(l, req)
      BY <2>9, <3>2
    <3> QED BY <3>1, <3>2, Facts DEF Copies, StepsOf
  <2>13. InOrder(r, n, links, tag', req)
    BY <1>1, <2>3, <2>5, <2>7, <2>8, <2>11, <2>12, Facts DEF InOrder
  <2>14. ASSUME NEW p \in Others(r) PROVE Apart(n, req[p]) /\ Apart(req[p], n)
    <3>1. Apart(q, req[p]) /\ Apart(req[p], q)
      BY DEF TInv, Others
    <3>2. CASE A = q.added
      BY <2>3, <3>1, <3>2 DEF Apart
    <3>3. CASE A = q.added \cup {<<a, t, r>>} /\ ~Linked(a, t, Visible(r))
      <4>1. ~(req[p].held = a /\ req[p].rekeys = "yes")
        BY <3>3 DEF LinkWaits
      <4>2. req[p].held # a => Of(req[p].held, A) = Of(req[p].held, q.added)
        BY <3>3 DEF Of
      <4> QED BY <2>3, <3>1, <4>1, <4>2 DEF Apart
    <3> QED BY <2>1, <3>2, <3>3
  <2>15. q.pc # "done"
    OBVIOUS
  <2> QED BY <1>1, <2>2, <2>4, <2>13, <2>14, <2>15, LocalStep
<1>6. CASE Linked(a, t, Visible(r)) /\ Becomes(r, [q EXCEPT !.target = Tail(@)])
  <2>1. [q EXCEPT !.target = Tail(@)] = [q EXCEPT !.target = tail, !.added = q.added]
    BY <1>2 DEF RequestStates
  <2>2. q.added \in SUBSET Links
    BY <1>2 DEF RequestStates
  <2>3. Linked(a, t, (links \ q.removed) \cup q.added)
    BY <1>6 DEF Visible
  <2> HIDE DEF tail
  <2> QED BY <1>5, <1>6, <2>1, <2>2, <2>3
<1>7. CASE /\ ~Linked(a, t, Visible(r))
           /\ Becomes(r, [[q EXCEPT !.target = Tail(@)] EXCEPT !.added = @ \cup {<<a, t, r>>}])
  <2> DEFINE A == q.added \cup {<<a, t, r>>}
  <2>1. [[q EXCEPT !.target = Tail(@)] EXCEPT !.added = @ \cup {<<a, t, r>>}]
          = [q EXCEPT !.target = tail, !.added = A]
    BY <1>2 DEF RequestStates
  <2>2. A \in SUBSET Links
    <3>1. <<a, t, r>> \in Links
      BY DEF Links
    <3> QED BY <1>2, <3>1 DEF RequestStates
  <2>3. Linked(a, t, (links \ q.removed) \cup A)
    <3>1. /\ <<a, t, r>> \in (links \ q.removed) \cup A
          /\ <<a, t, r>>[1] = a /\ <<a, t, r>>[2] = t
      OBVIOUS
    <3> QED BY <3>1, Zenon DEF Linked
  <2> HIDE DEF tail
  <2> QED BY <1>5, <1>7, <2>1, <2>2, <2>3
<1> QED BY <1>4, <1>6, <1>7 DEF Insert

LEMMA LinkInv == ASSUME TInv, NEW r \in Requests, Link(r) PROVE TInv'
<1> DEFINE q == req[r]
<1>1. /\ UNCHANGED <<tag, article, links>> /\ faults' \in 0..MaxFaults
      /\ tag' \in [Tags -> [life : Life, slug : Slugs \cup {NULL}]]
  BY Facts DEF Link, tables
<1>2. q.pc = "link" /\ WaitsFor(r) = {} /\ q \in RequestStates /\ q.kind = "save" /\ q.id \in Articles
  BY Facts DEF Link, Proceeds, At, Shape, StepsOf, Kinds, Writes
<1>3. CASE q.target # <<>> /\ Insert(r, q.id, Head(q.target)[2], [q EXCEPT !.target = Tail(@)])
  <2>1. Head(q.target) \in Links
    <3>1. q.target \in Seq(Links)
      BY <1>2 DEF RequestStates
    <3> QED BY <1>3, <3>1, TailKeeps
  <2>2. Head(q.target)[2] \in Tags /\ Head(q.target)[1] = q.id
    <3>1. q.target \in Seq(Links)
      BY <1>2 DEF RequestStates
    <3>2. PICK i \in DOMAIN q.target : Head(q.target) = q.target[i]
      BY <1>3, <3>1, TailKeeps
    <3> QED BY <1>2, <2>1, <3>2, Facts DEF Links, Open
  <2>3. LinkWaits(r, q.id, Head(q.target)[2]) = {}
    BY <1>2, <1>3, <2>2, LinkStepWaits DEF At
  <2>4. UNCHANGED <<tables, faults>>
    BY DEF Link
  <2> QED BY <1>2, <1>3, <2>2, <2>3, <2>4, InsertInv
<1>4. CASE q.target = <<>> /\ Becomes(r, [q EXCEPT !.pc = "commit"])
  <2> DEFINE n == [q EXCEPT !.pc = "commit"]
  <2>1. n \in RequestStates
    BY <1>2 DEF RequestStates, Steps
  <2>2. /\ n.kind = q.kind /\ n.id = q.id /\ n.rekeys = q.rekeys /\ n.from = q.from
        /\ n.into = q.into /\ n.seen = q.seen /\ n.held = q.held /\ n.added = q.added
        /\ n.removed = q.removed /\ n.pc = "commit" /\ n.ids = q.ids
    BY <1>2 DEF RequestStates
  <2>3. Becomes(r, n)
    BY <1>4
  <2> HIDE DEF n
  <2>4. Shape(n) /\ Dropped(n, tag)
    BY <1>2, <2>2, Facts DEF Shape, Dropped, StepsOf, Kinds
  <2>5. Open(r, n)
    BY <1>2, <2>2, Facts DEF Open, Writes
  <2>6. Clears(n, links, req) /\ Copies(n, links, tag, req)
    BY <1>2, <2>2, Facts DEF Clears, Copies
  <2>7. DOMAIN q.target = {}
    BY <1>4
  <2>8. Relinks(n, links, tag)
    <3>1. Relinks(q, links, tag)
      BY Facts
    <3> QED BY <1>2, <2>2, <2>7, <3>1 DEF Relinks, Sees
  <2>9. InOrder(r, n, links, tag', req)
    BY <1>1, <2>2, <2>4, <2>5, <2>6, <2>8, Facts DEF InOrder
  <2> QED BY <1>1, <1>2, <2>1, <2>2, <2>3, <2>9, QuietStep
<1> QED BY <1>3, <1>4 DEF Link
LEMMA CopyInv == ASSUME TInv, NEW r \in Requests, Copy(r) PROVE TInv'
<1> DEFINE q == req[r]
           rows == With(q.from, Visible(r))
<1>1. /\ UNCHANGED <<tag, article, links>> /\ faults' \in 0..MaxFaults
      /\ tag' \in [Tags -> [life : Life, slug : Slugs \cup {NULL}]]
  BY Facts DEF Copy, tables
<1>2. /\ q.pc = "copy" /\ WaitsFor(r) = {} /\ q \in RequestStates
      /\ q.kind = "merge" /\ q.into \in Tags
  BY Facts DEF Copy, Proceeds, At, Shape, StepsOf, Kinds
<1>3. CASE q.target # <<>> /\ Insert(r, Head(q.target)[1], q.into, [q EXCEPT !.target = Tail(@)])
  <2>1. Head(q.target) \in Links
    <3>1. q.target \in Seq(Links)
      BY <1>2 DEF RequestStates
    <3> QED BY <1>3, <3>1, TailKeeps
  <2>2. Head(q.target)[1] \in Articles
    BY <2>1 DEF Links
  <2>3. LinkWaits(r, Head(q.target)[1], q.into) = {}
    BY <1>2, <1>3, CopyWaits DEF At
  <2>4. UNCHANGED <<tables, faults>>
    BY DEF Copy
  <2> QED BY <1>2, <1>3, <2>2, <2>3, <2>4, InsertInv
<1>4. CASE q.target = <<>> /\ \E order \in Orders(rows) :
                                Becomes(r, [q EXCEPT !.pc = "clear", !.target = order])
  <2>1. PICK order \in Orders(rows) : Becomes(r, [q EXCEPT !.pc = "clear", !.target = order])
    BY <1>4
  <2>2. rows \subseteq Links /\ IsFiniteSet(rows)
    <3>1. Visible(r) \subseteq Links
      BY <1>2, Facts DEF Visible, RequestStates
    <3>2. IsFiniteSet(links \ q.removed) /\ IsFiniteSet(q.added)
      BY Facts, FS_Subset DEF Open
    <3>3. IsFiniteSet(Visible(r))
      BY <3>2, FS_Union DEF Visible
    <3>4. rows \subseteq Visible(r)
      BY DEF With
    <3> QED BY <3>1, <3>3, <3>4, FS_Subset
  <2>3. order \in Seq(rows) /\ \A i \in DOMAIN order : order[i] \in rows
    BY <2>1, <2>2, OrdersSeq
  <2> DEFINE n == [q EXCEPT !.pc = "clear", !.target = order]
  <2>4. n \in RequestStates
    <3>1. order \in Seq(Links)
      BY <2>2, <2>3
    <3> QED BY <1>2, <3>1 DEF RequestStates, Steps
  <2>5. /\ n.kind = q.kind /\ n.id = q.id /\ n.rekeys = q.rekeys /\ n.from = q.from
        /\ n.into = q.into /\ n.seen = q.seen /\ n.held = q.held /\ n.added = q.added
        /\ n.removed = q.removed /\ n.pc = "clear" /\ n.target = order
    BY <1>2 DEF RequestStates
  <2>6. Becomes(r, n)
    BY <2>1
  <2>7. \A i \in DOMAIN order : order[i][2] = q.from
    BY <2>3 DEF With
  <2> HIDE DEF n
  <2>8. Shape(n) /\ Dropped(n, tag)
    BY <1>2, <2>5, Facts DEF Shape, Dropped, StepsOf, Kinds
  <2>9. Open(r, n)
    BY <1>2, <2>5, <2>7, Facts DEF Open, Writes
  <2>10. Clears(n, links, req) /\ Relinks(n, links, tag)
    BY <1>2, <2>5 DEF Clears, Relinks, Writes
  <2>11. DOMAIN q.target = {}
    BY <1>4
  <2>12. Copies(n, links, tag, req)
    BY <1>2, <2>5, <2>11, Facts DEF Copies, Sees, StepsOf
  <2>13. InOrder(r, n, links, tag', req)
    BY <1>1, <2>5, <2>8, <2>9, <2>10, <2>12, Facts DEF InOrder
  <2>14. n.held = NULL \/ (n.held = req[r].held /\ n.rekeys = req[r].rekeys)
    BY <2>5
  <2> QED BY <1>1, <1>2, <2>4, <2>5, <2>6, <2>13, <2>14, QuietStep
<1> QED BY <1>3, <1>4 DEF Copy

LEMMA ClearInv == ASSUME TInv, NEW r \in Requests, Clear(r) PROVE TInv'
<1> DEFINE q == req[r]
<1>1. /\ UNCHANGED <<tag, article, links>> /\ faults' \in 0..MaxFaults
      /\ tag' \in [Tags -> [life : Life, slug : Slugs \cup {NULL}]]
  BY Facts DEF Clear, tables
<1>2. /\ q.pc = "clear" /\ q \in RequestStates
      /\ q.kind \in {"save", "merge", "delete_article"}
      /\ q.kind = "merge" => q.from # q.into
      /\ q.kind # "merge" => q.id \in Articles
  BY Facts DEF Clear, Proceeds, At, Shape, StepsOf, Kinds, Writes
<1>3. CASE /\ q.target # <<>>
           /\ Becomes(r, [q EXCEPT !.removed = @ \cup ({Head(q.target)} \cap links),
                                   !.target = Tail(@)])
  <2> DEFINE head == Head(q.target)
             tail == Tail(q.target)
             n == [q EXCEPT !.removed = @ \cup ({head} \cap links), !.target = tail]
  <2>1. /\ head \in Links /\ tail \in Seq(Links)
        /\ \E i \in DOMAIN q.target : head = q.target[i]
        /\ \A i \in DOMAIN q.target : \/ q.target[i] = head
                                      \/ \E j \in DOMAIN tail : tail[j] = q.target[i]
        /\ \A j \in DOMAIN tail : \E i \in DOMAIN q.target : tail[j] = q.target[i]
    <3>1. q.target \in Seq(Links)
      BY <1>2 DEF RequestStates
    <3> QED BY <1>3, <3>1, TailKeeps
  <2>2. Becomes(r, n)
    BY <1>3
  <2> HIDE DEF head, tail
  <2>3. n \in RequestStates
    BY <1>2, <2>1 DEF RequestStates
  <2>4. /\ n.kind = q.kind /\ n.id = q.id /\ n.rekeys = q.rekeys /\ n.from = q.from
        /\ n.into = q.into /\ n.seen = q.seen /\ n.held = q.held /\ n.added = q.added
        /\ n.removed = q.removed \cup ({head} \cap links) /\ n.pc = "clear" /\ n.target = tail
    BY <1>2 DEF RequestStates
  <2> HIDE DEF n
  <2>5. Shape(n) /\ Dropped(n, tag)
    BY <1>2, <2>4, Facts DEF Shape, Dropped
  <2>6. IF q.kind = "merge" THEN head[2] = q.from ELSE head[1] = q.id
    BY <1>2, <2>1, Facts DEF Open
  <2>7. Open(r, n)
    <3>1. \A l \in n.removed : \/ q.kind \in Writes /\ l[1] = q.id
                               \/ q.kind = "merge" /\ l[2] = q.from
      <4>1. \A l \in n.removed : l \in q.removed \/ l = head
        BY <2>4
      <4> QED BY <1>2, <2>6, <4>1, Facts DEF Open, Writes
    <3>2. ASSUME NEW j \in DOMAIN tail
          PROVE  IF q.kind = "merge" THEN tail[j][2] = q.from ELSE tail[j][1] = q.id
      <4>1. PICK i \in DOMAIN q.target : tail[j] = q.target[i]
        BY <2>1
      <4> QED BY <1>2, <4>1, Facts DEF Open
    <3> QED BY <1>2, <2>4, <3>1, <3>2, Facts DEF Open
  <2>8. Clears(n, links, req)
    <3> SUFFICES ASSUME q.kind \in Writes, NEW l \in Of(q.id, links)
                 PROVE  \/ l \in n.removed
                        \/ \E i \in DOMAIN tail : tail[i] = l
                        \/ ByMerge(l, req) /\ q.kind = "save" /\ q.rekeys = "no"
      BY <2>4 DEF Clears
    <3>1. l \in links
      BY DEF Of
    <3>2. CASE \E i \in DOMAIN q.target : q.target[i] = l
      BY <2>1, <2>4, <3>1, <3>2
    <3> QED BY <1>2, <2>4, <3>2, Facts DEF Clears
  <2>9. Relinks(n, links, tag)
    BY <2>4 DEF Relinks
  <2>10. Copies(n, links, tag, req)
    <3> SUFFICES ASSUME q.kind = "merge", NEW l \in links \cap q.seen
                 PROVE  \/ Linked(l[1], q.into, Sees(n, links))
                        \/ tag[q.into].life = "gone"
                        \/ Late(l, req)
      BY <2>4 DEF Copies
    <3>1. Linked(l[1], q.into, Sees(q, links)) => Linked(l[1], q.into, Sees(n, links))
      BY <1>2, <2>4, <2>6 DEF Linked, Sees
    <3> QED BY <1>2, <3>1, Facts DEF Copies, StepsOf
  <2>11. InOrder(r, n, links, tag', req)
    BY <1>1, <2>4, <2>5, <2>7, <2>8, <2>9, <2>10, Facts DEF InOrder
  <2>12. n.held = NULL \/ (n.held = req[r].held /\ n.rekeys = req[r].rekeys)
    BY <2>4
  <2> QED BY <1>1, <1>2, <2>2, <2>3, <2>4, <2>11, <2>12, QuietStep
<1>4. CASE q.target = <<>>
  <2> DEFINE rows == [i \in DOMAIN q.ids |-> <<q.id, q.ids[i], r>>]
             n == CASE q.kind = "save" -> [q EXCEPT !.pc = "link", !.target = rows]
                    [] q.kind = "merge" -> [q EXCEPT !.pc = "drop"]
                    [] q.kind = "delete_article" -> [q EXCEPT !.pc = "commit"]
  <2>1. Becomes(r, n)
    BY <1>4 DEF Clear
  <2>2. q.kind = "save" => rows \in Seq(Links)
    <3>1. q.ids \in Seq(Tags) /\ DOMAIN q.ids = 1..Len(q.ids) /\ Len(q.ids) \in Nat
      BY <1>2 DEF RequestStates
    <3>2. q.kind = "save" => \A i \in DOMAIN q.ids : <<q.id, q.ids[i], r>> \in Links
      BY <1>2, <3>1 DEF Links
    <3> QED BY <3>1, <3>2
  <2>3. n \in RequestStates
    <3> HIDE DEF rows
    <3>1. CASE q.kind = "save"
      BY <1>2, <2>2, <3>1 DEF RequestStates, Steps
    <3>2. CASE q.kind = "merge"
      BY <1>2, <3>2 DEF RequestStates, Steps
    <3>3. CASE q.kind = "delete_article"
      BY <1>2, <3>3 DEF RequestStates, Steps
    <3> QED BY <1>2, <3>1, <3>2, <3>3
  <2>4. /\ n.kind = q.kind /\ n.id = q.id /\ n.rekeys = q.rekeys /\ n.from = q.from
        /\ n.into = q.into /\ n.seen = q.seen /\ n.held = q.held /\ n.added = q.added
        /\ n.removed = q.removed /\ n.ids = q.ids
        /\ q.kind = "save" => n.pc = "link" /\ n.target = rows
        /\ q.kind = "merge" => n.pc = "drop"
        /\ q.kind = "delete_article" => n.pc = "commit"
    <3> HIDE DEF rows
    <3>1. CASE q.kind = "save"
      BY <1>2, <3>1 DEF RequestStates
    <3>2. CASE q.kind = "merge"
      BY <1>2, <3>2 DEF RequestStates
    <3>3. CASE q.kind = "delete_article"
      BY <1>2, <3>3 DEF RequestStates
    <3> QED BY <1>2, <3>1, <3>2, <3>3
  <2> HIDE DEF n
  <2>5. Shape(n) /\ Dropped(n, tag)
    BY <1>2, <2>4, Facts DEF Shape, Dropped, StepsOf, Kinds, Writes
  <2>6. \A i \in DOMAIN rows : rows[i][1] = q.id
    OBVIOUS
  <2>7. \A i \in DOMAIN q.ids : i \in DOMAIN rows /\ rows[i][2] = q.ids[i]
    OBVIOUS
  <2> HIDE DEF rows
  <2>8. Open(r, n)
    BY <1>2, <2>4, <2>6, Facts DEF Open, Writes
  <2>9. DOMAIN q.target = {}
    BY <1>4
  <2>10. Clears(n, links, req)
    BY <1>2, <2>4, <2>9, Facts DEF Clears, Writes
  <2>11. Relinks(n, links, tag)
    BY <1>2, <2>4, <2>7 DEF Relinks
  <2>12. Copies(n, links, tag, req)
    BY <1>2, <2>4, Facts DEF Copies, Sees, StepsOf
  <2>13. InOrder(r, n, links, tag', req)
    BY <1>1, <2>4, <2>5, <2>8, <2>10, <2>11, <2>12, Facts DEF InOrder
  <2>14. n.held = NULL \/ (n.held = req[r].held /\ n.rekeys = req[r].rekeys)
    BY <2>4
  <2> QED BY <1>1, <1>2, <2>1, <2>3, <2>4, <2>13, <2>14, QuietStep
<1> QED BY <1>3, <1>4 DEF Clear

LEMMA DropInv == ASSUME TInv, NEW r \in Requests, Drop(r) PROVE TInv'
<1> DEFINE q == req[r]
<1>1. /\ UNCHANGED <<tag, article, links>> /\ faults' \in 0..MaxFaults
      /\ tag' \in [Tags -> [life : Life, slug : Slugs \cup {NULL}]]
  BY Facts DEF Drop, tables
<1>2. /\ q.pc = "drop" /\ q \in RequestStates /\ q.kind \in {"merge", "delete_tag"}
      /\ q.from \in Tags
  BY Facts DEF Drop, Proceeds, At, Shape, StepsOf, Kinds, Writes
<1>3. PICK pc \in {"check", "commit", "done"}, dead \in {q.dead, q.from} :
        /\ Becomes(r, [q EXCEPT !.pc = pc, !.dead = dead])
        /\ pc = "check" => dead = q.from
        /\ pc = "commit" => q.kind = "merge" /\ ~Live(q.from)
        /\ pc = "done" => q.kind = "delete_tag"
  <2>1. CASE Becomes(r, [q EXCEPT !.pc = "check", !.dead = q.from])
    BY <2>1
  <2>2. CASE ~Live(q.from) /\ q.kind = "merge" /\ Becomes(r, [q EXCEPT !.pc = "commit"])
    <3>1. [q EXCEPT !.pc = "commit"] = [q EXCEPT !.pc = "commit", !.dead = q.dead]
      BY <1>2 DEF RequestStates
    <3> QED BY <2>2, <3>1
  <2>3. CASE q.kind = "delete_tag" /\ Becomes(r, [q EXCEPT !.pc = "done"])
    <3>1. [q EXCEPT !.pc = "done"] = [q EXCEPT !.pc = "done", !.dead = q.dead]
      BY <1>2 DEF RequestStates
    <3> QED BY <2>3, <3>1
  <2> QED BY <2>1, <2>2, <2>3 DEF Drop
<1> DEFINE n == [q EXCEPT !.pc = pc, !.dead = dead]
<1>4. n \in RequestStates
  BY <1>2 DEF RequestStates, Steps
<1>5. /\ n.kind = q.kind /\ n.id = q.id /\ n.rekeys = q.rekeys /\ n.from = q.from
      /\ n.into = q.into /\ n.seen = q.seen /\ n.held = q.held /\ n.added = q.added
      /\ n.removed = q.removed /\ n.pc = pc /\ n.dead = dead
  BY <1>2 DEF RequestStates
<1>6. Becomes(r, n)
  BY <1>3
<1> HIDE DEF n
<1>7. Shape(n)
  BY <1>2, <1>3, <1>5, Facts DEF Shape, StepsOf, Kinds
<1>8. Dropped(n, tag)
  <2>1. tag[q.from].life \in Life
    BY <1>2, Facts
  <2> QED BY <1>2, <1>3, <1>5, <2>1, Facts DEF Dropped, Live, Life
<1>9. Open(r, n)
  <2>1. q.kind = "delete_tag" => q.added = {}
    BY Facts DEF Open
  <2> QED BY <1>2, <1>3, <1>5, <2>1, Facts DEF Open, Writes
<1>10. Clears(n, links, req) /\ Relinks(n, links, tag)
  BY <1>2, <1>5 DEF Clears, Relinks, Writes
<1>11. Copies(n, links, tag, req)
  BY <1>2, <1>3, <1>5, Facts DEF Copies, Sees, StepsOf
<1>12. InOrder(r, n, links, tag', req)
  BY <1>1, <1>5, <1>7, <1>8, <1>9, <1>10, <1>11, Facts DEF InOrder
<1>13. n.held = NULL \/ (n.held = req[r].held /\ n.rekeys = req[r].rekeys)
  BY <1>5
<1> QED BY <1>1, <1>2, <1>4, <1>5, <1>6, <1>12, <1>13, QuietStep

LEMMA CheckInv == ASSUME TInv, NEW r \in Requests, Check(r) PROVE TInv'
<1> DEFINE q == req[r]
           n == [q EXCEPT !.pc = "commit"]
<1>1. /\ UNCHANGED <<tag, article, links>> /\ faults' \in 0..MaxFaults
      /\ tag' \in [Tags -> [life : Life, slug : Slugs \cup {NULL}]]
  BY Facts DEF Check, tables
<1>2. q.pc = "check" /\ q \in RequestStates /\ q.kind \in {"merge", "delete_tag"}
  BY Facts DEF Check, Proceeds, At, Shape, StepsOf, Kinds
<1>3. CASE Becomes(r, RolledBack(q))
  BY <1>1, <1>2, <1>3, RollBackInv DEF tables
<1>4. CASE Becomes(r, n)
  <2>1. n \in RequestStates
    BY <1>2 DEF RequestStates, Steps
  <2>2. /\ n.kind = q.kind /\ n.id = q.id /\ n.rekeys = q.rekeys /\ n.from = q.from
        /\ n.into = q.into /\ n.seen = q.seen /\ n.held = q.held /\ n.added = q.added
        /\ n.removed = q.removed /\ n.pc = "commit" /\ n.dead = q.dead
    BY <1>2 DEF RequestStates
  <2> HIDE DEF n
  <2>3. Shape(n) /\ Dropped(n, tag)
    BY <1>2, <2>2, Facts DEF Shape, Dropped, StepsOf, Kinds
  <2>4. Open(r, n)
    BY <1>2, <2>2, Facts DEF Open, Writes
  <2>5. Clears(n, links, req) /\ Relinks(n, links, tag)
    BY <1>2, <2>2 DEF Clears, Relinks, Writes
  <2>6. Copies(n, links, tag, req)
    BY <1>2, <2>2, Facts DEF Copies, Sees, StepsOf
  <2>7. InOrder(r, n, links, tag', req)
    BY <1>1, <2>2, <2>3, <2>4, <2>5, <2>6, Facts DEF InOrder
  <2>8. n.held = NULL \/ (n.held = req[r].held /\ n.rekeys = req[r].rekeys)
    BY <2>2
  <2> QED BY <1>1, <1>2, <1>4, <2>1, <2>2, <2>7, <2>8, QuietStep
<1> QED BY <1>3, <1>4 DEF Check

LEMMA FailInv == ASSUME TInv, NEW r \in Requests, Fail(r) PROVE TInv'
<1>1. faults' \in 0..MaxFaults
  BY Facts DEF Fail
<1> QED BY <1>1, RollBackInv DEF Fail, Ended

LEMMA AbortDeadlockedInv == ASSUME TInv, NEW r \in Requests, AbortDeadlocked(r) PROVE TInv'
<1>1. faults' \in 0..MaxFaults
  BY Facts DEF AbortDeadlocked
<1>2. Deadlocked(r)
  BY DEF AbortDeadlocked
<1>3. req[r].pc # "done"
  BY <1>2, IdleRuns DEF Ended
<1> QED BY <1>1, <1>3, RollBackInv DEF AbortDeadlocked
-----------------------------------------------------------------------------
(* Steps: COMMIT                                                           *)

\* What transaction r, about to commit, deletes of what another one relies on.
LEMMA TakesAway ==
    ASSUME TInv, NEW r \in Requests, At(r, "commit"), NEW m \in req[r].removed
    PROVE  \/ req[r].held = m[1] /\ req[r].id = m[1] /\ req[r].kind \in Writes
           \/ /\ req[r].kind = "merge" /\ m[2] = req[r].from
              /\ req[r].dead = m[2] \/ tag[m[2]].life = "gone"
BY Facts DEF At, Open, Dropped

LEMMA CommitInv == ASSUME TInv, NEW r \in Requests, Commit(r) PROVE TInv'
<1> DEFINE q == req[r]
           n == [RolledBack(q) EXCEPT !.pc = "done"]
<1>1. q.pc = "commit" /\ q \in RequestStates /\ At(r, "commit")
  BY Facts DEF Commit, At
<1>2. Becomes(r, n) /\ links' = (links \ q.removed) \cup q.added /\ faults' = faults
  BY DEF Commit, Visible
<1>3. n \in RequestStates
  <2>1. <<>> \in Seq(Links)
    OBVIOUS
  <2> QED BY <1>1, <2>1 DEF RolledBack, RequestStates, Steps
<1>4. /\ n.kind = q.kind /\ n.id = q.id /\ n.rekeys = q.rekeys /\ n.from = q.from
      /\ n.into = q.into /\ n.seen = q.seen /\ n.held = NULL /\ n.added = {}
      /\ n.removed = {} /\ n.pc = "done"
  BY <1>1 DEF RolledBack, RequestStates
<1> HIDE DEF n
<1>5. /\ req'[r] = n /\ \A p \in Requests \ {r} : req'[p] = req[p]
      /\ req \in [Requests -> RequestStates] /\ req' \in [Requests -> RequestStates]
  BY <1>2, <1>3 DEF Becomes, TInv, TypeOK
<1>6. /\ tag' \in [Tags -> [life : Life, slug : Slugs \cup {NULL}]]
      /\ \A t \in Tags : tag'[t].life = IF t = q.dead THEN "gone" ELSE tag[t].life
  <2>1. tag' = [t \in Tags |-> IF t = q.dead THEN [tag[t] EXCEPT !.life = "gone"] ELSE tag[t]]
    BY DEF Commit
  <2>2. \A t \in Tags : /\ [tag[t] EXCEPT !.life = "gone"] \in [life : Life, slug : Slugs \cup {NULL}]
                        /\ [tag[t] EXCEPT !.life = "gone"].life = "gone"
    BY Facts DEF Life
  <2>3. \A t \in Tags : tag[t] \in [life : Life, slug : Slugs \cup {NULL}]
    BY Facts
  <2> QED BY <2>1, <2>2, <2>3
<1>7. TypeOK'
  <2>1. article' \in [Articles -> Life]
    <3>1. article \in [Articles -> Life]
      BY DEF TInv, TypeOK
    <3> QED BY <3>1 DEF Commit, Life
  <2>2. links' \subseteq Links
    BY <1>1, <1>2, Facts DEF RequestStates
  <2>3. faults' \in 0..MaxFaults
    BY <1>2, Facts
  <2> QED BY <1>5, <1>6, <2>1, <2>2, <2>3 DEF TypeOK
<1>8. Onward(tag, tag', req, req')
  BY <1>1, <1>5, <1>6 DEF Onward
<1>9. ASSUME NEW l \in links' PROVE l \in links \/ (l \in q.added /\ l[3] = r)
  BY <1>2, Facts DEF Open
<1>10. IsFiniteSet(links')
  <2>1. IsFiniteSet(links \ q.removed) /\ IsFiniteSet(q.added)
    BY Facts, FS_Subset DEF Open
  <2> QED BY <1>2, <2>1, FS_Union
<1>11. \A l \in links : Settled(l, req)
  BY DEF TInv
<1>12. \A l \in links' : Settled(l, req')
  BY <1>4, <1>5, <1>8, <1>9, <1>11 DEF Settled, Onward
<1>13. ASSUME NEW p \in Requests, NEW s \in Requests, p # s PROVE Apart(req'[p], req'[s])
  <2>1. \A a : Of(a, {}) = {}
    BY DEF Of
  <2>2. CASE p = r
    BY <1>4, <1>5, <2>2 DEF Apart
  <2>3. CASE s = r
    BY <1>4, <1>5, <1>13, <2>1, <2>3 DEF Apart
  <2>4. CASE p # r /\ s # r
    BY <1>5, <1>13, <2>4 DEF TInv
  <2> QED BY <2>2, <2>3, <2>4
<1>14. ASSUME NEW p \in Requests PROVE InOrder(p, req'[p], links', tag', req')
  <2>1. CASE p = r
    <3>1. InOrder(r, n, links, tag, req)
      BY <1>4, ThroughInOrder
    <3>2. InOrder(r, n, links, tag', req')
      BY <1>3, <1>8, <1>11, <3>1, StaysInOrder
    <3>3. /\ Clears(n, links', req') /\ Relinks(n, links', tag')
          /\ Copies(n, links', tag', req')
      BY <1>4 DEF Clears, Relinks, Copies, StepsOf
    <3> QED BY <1>5, <2>1, <3>2, <3>3 DEF InOrder
  <2>2. CASE p # r
    <3> DEFINE w == req[p]
    <3>1. w \in RequestStates /\ req'[p] = w
      BY <1>5, <2>2
    <3>2. InOrder(p, w, links, tag, req)
      BY DEF TInv
    <3>3. InOrder(p, w, links, tag', req')
      BY <1>8, <1>11, <3>1, <3>2, StaysInOrder
    <3>4. Apart(w, q)
      BY <2>2 DEF TInv
    <3>5. ASSUME NEW m \in q.removed PROVE \/ q.held = m[1] /\ q.id = m[1] /\ q.kind \in Writes
                                           \/ m[2] \in Tags /\ tag'[m[2]].life = "gone"
      <4>1. CASE /\ q.kind = "merge" /\ m[2] = q.from
                 /\ q.dead = m[2] \/ tag[m[2]].life = "gone"
        BY <1>6, <4>1, Facts DEF Shape
      <4> QED BY <1>1, <4>1, TakesAway
    <3>6. w.kind \in Writes /\ w.pc \in {"clear", "link", "commit"} =>
            w.held = w.id /\ w.id \in Articles /\ w.held # NULL
      BY <3>2 DEF InOrder, Shape, Open
    <3>7. Clears(w, links', req')
      <4> SUFFICES ASSUME w.kind \in Writes, w.pc \in {"clear", "link", "commit"},
                          NEW l \in Of(w.id, links')
                   PROVE  \/ l \in w.removed
                          \/ w.pc = "clear" /\ \E i \in DOMAIN w.target : w.target[i] = l
                          \/ ByMerge(l, req') /\ w.kind = "save" /\ w.rekeys = "no"
        BY DEF Clears
      <4>1. l \in links' /\ l[1] = w.id
        BY DEF Of
      <4>2. CASE l \in links
        <5>1. l \in Of(w.id, links)
          BY <4>1, <4>2 DEF Of
        <5> QED BY <3>3, <5>1 DEF InOrder, Clears
      <4>3. CASE l \in q.added /\ l[3] = r
        <5>1. l \in Of(w.id, q.added)
          BY <4>1, <4>3 DEF Of
        <5>2. w.rekeys = "no"
          BY <3>1, <3>4, <3>6, <5>1 DEF Apart, RequestStates
        <5>3. w.kind = "save"
          BY <3>2, <5>2 DEF InOrder, Shape, Writes
        <5>4. q.kind = "merge"
          <6>1. q.kind = "save" /\ l[1] = q.id => q.held = w.held
            BY <1>1, <3>6, <4>1, Facts DEF Open, Writes
          <6> QED BY <3>4, <3>6, <4>3, <6>1, Facts DEF Apart, Open
        <5> QED BY <1>4, <1>5, <4>3, <5>2, <5>3, <5>4 DEF ByMerge
      <4> QED BY <1>9, <4>1, <4>2, <4>3
    <3>8. Relinks(w, links', tag')
      <4> SUFFICES ASSUME w.kind = "save", w.pc \in {"link", "commit"}, NEW i \in DOMAIN w.ids,
                          Linked(w.id, w.ids[i], Sees(w, links)), tag'[w.ids[i]].life # "gone"
                   PROVE  Linked(w.id, w.ids[i], Sees(w, links'))
        BY <3>3 DEF InOrder, Relinks
      <4>1. PICK m \in Sees(w, links) : m[1] = w.id /\ m[2] = w.ids[i]
        BY DEF Linked
      <4>2. m \notin q.removed
        BY <3>4, <3>5, <3>6, <4>1 DEF Apart, Writes
      <4> QED BY <1>2, <4>1, <4>2 DEF Sees, Linked
    <3>9. Copies(w, links', tag', req')
      <4> SUFFICES ASSUME w.kind = "merge", w.pc \in StepsOf("merge"), NEW l \in links' \cap w.seen
                   PROVE  \/ w.pc = "copy" /\ \E j \in DOMAIN w.target : w.target[j] = l
                          \/ Linked(l[1], w.into, Sees(w, links'))
                          \/ tag'[w.into].life = "gone"
                          \/ Late(l, req')
        BY DEF Copies
      <4>1. l \in links
        BY <1>1, <1>9, <3>2 DEF InOrder, Settled
      <4>2. l \notin q.removed
        <5>1. l \notin q.added
          BY <1>1, <3>2, Facts DEF InOrder, Settled, Open
        <5> QED BY <1>2, <5>1
      <4>3. CASE Linked(l[1], w.into, Sees(w, links))
        <5>1. PICK m \in Sees(w, links) : m[1] = l[1] /\ m[2] = w.into
          BY <4>3 DEF Linked
        <5>2. CASE m \notin q.removed
          BY <1>2, <5>1, <5>2 DEF Sees, Linked
        <5>3. CASE m \in q.removed /\ q.kind \in Writes /\ q.id = m[1]
          <6>1. ByMerge(l, req) /\ q.kind = "save" /\ q.rekeys = "no"
            BY <1>1, <4>1, <4>2, <5>1, <5>3, Facts DEF Clears, Of
          <6>2. ByMerge(l, req')
            BY <1>4, <1>5, <1>8, <1>11, <4>1, <6>1 DEF ByMerge, Settled, Onward
          <6> QED BY <1>4, <1>5, <5>1, <5>3, <6>1, <6>2 DEF Late
        <5> QED BY <3>5, <5>1, <5>2, <5>3
      <4> QED BY <3>3, <4>1, <4>3 DEF InOrder, Copies
    <3> QED BY <3>1, <3>3, <3>7, <3>8, <3>9 DEF InOrder
  <2> QED BY <2>1, <2>2
<1> QED BY <1>7, <1>10, <1>12, <1>13, <1>14 DEF TInv
-----------------------------------------------------------------------------
(* The theorems                                                            *)

LEMMA NextTInv == TInv /\ [Next]_vars => TInv'
<1> SUFFICES ASSUME TInv, [Next]_vars PROVE TInv'
  OBVIOUS
<1>1. ASSUME NEW r \in Requests, Arrival(r) \/ Serve(r) \/ LookupFails(r) \/ Fail(r)
      PROVE  TInv'
  BY <1>1, SaveInv, DeleteArticleInv, NewTagInv, DeleteTagInv, MergeInv, LookupInv,
     LookupFailsInv, CreateTagInv, WriteRowInv, CopyInv, ClearInv, LinkInv, DropInv, CheckInv,
     CommitInv, FailInv, AbortDeadlockedInv
  DEF Arrival, Serve
<1>2. ASSUME UNCHANGED vars PROVE TInv'
  BY <1>2 DEF vars, tables, TInv, TypeOK
<1> QED BY <1>1, <1>2 DEF Next, AllServed

LEMMA SpecTInv == Spec => []TInv
BY InitTInv, NextTInv, PTL DEF Spec

\* TypeCorrect: every behavior keeps the types of the tables and the requests; in
\* particular a save never carries the id of a tag that was not read back.
THEOREM TypeCorrect == Spec => []TypeOK
<1>1. TInv => TypeOK
  BY DEF TInv
<1> QED BY <1>1, SpecTInv, PTL

\* A request that comes to its COMMIT ends there, whoever else moves.
LEMMA OnlyCommits ==
    ASSUME TInv, [Next]_vars, NEW r \in Requests, At(r, "commit"), req'[r].pc = "done"
    PROVE  Commit(r)
<1>1. req \in [Requests -> RequestStates]
  BY DEF TInv, TypeOK
<1>2. PICK p \in Requests : Arrival(p) \/ Serve(p) \/ LookupFails(p) \/ Fail(p)
  BY DEF Next, AllServed, vars, At
<1>3. \E n : Becomes(p, n)
  BY <1>2 DEF Arrival, Serve, Save, DeleteArticle, NewTag, DeleteTag, Merge, Lookup, LookupFails,
     CreateTag, WriteRow, Copy, Insert, Clear, Link, Drop, Check, Commit, Fail, AbortDeadlocked
<1>4. p = r
  BY <1>1, <1>3 DEF Becomes, At
<1>5. ~(Becomes(r, RolledBack(req[r])))
  <2>1. RolledBack(req[r]).pc = "fault"
    BY <1>1 DEF RolledBack, RequestStates
  <2> QED BY <1>1, <2>1 DEF Becomes
<1> QED BY <1>2, <1>4, <1>5 DEF Arrival, Serve, Save, DeleteArticle, NewTag, DeleteTag, Merge,
     Lookup, LookupFails, CreateTag, WriteRow, Copy, Clear, Link, Drop, Check, Fail,
     AbortDeadlocked, At, Proceeds

\* SavesCorrect: whatever other saves, merges and deletions do in between, a save
\* that commits has linked its article to every tag it resolved that was not merged
\* away or deleted since.
THEOREM SavesCorrect == Spec => SavesLinkTheirTags
<1>1. ASSUME TInv, [Next]_vars,
             NEW r \in Requests, At(r, "commit"), req[r].kind = "save", req'[r].pc = "done",
             NEW i \in DOMAIN req[r].ids
      PROVE  Linked(req[r].id, req[r].ids[i], links') \/ tag[req[r].ids[i]].life = "gone"
  <2>1. links' = Sees(req[r], links)
    BY <1>1, OnlyCommits DEF Commit, Visible, Sees
  <2> QED BY <1>1, <2>1, Facts DEF Relinks, At
<1>2. TInv /\ [Next]_vars =>
        [\A r \in Requests :
           At(r, "commit") /\ req[r].kind = "save" /\ req'[r].pc = "done" =>
             \A i \in DOMAIN req[r].ids :
               Linked(req[r].id, req[r].ids[i], links') \/ tag[req[r].ids[i]].life = "gone"]_vars
  BY <1>1
<1> QED BY <1>2, SpecTInv, PTL DEF Spec, SavesLinkTheirTags

\* MergesCorrect: a merge that commits has moved every row that was there when it
\* began and is there still, with the exceptions MergeMovesWhatItSaw names and no
\* other, for any number of requests.
THEOREM MergesCorrect == Spec => MergeMovesWhatItSaw
<1>1. ASSUME TInv, [Next]_vars,
             NEW r \in Requests, At(r, "commit"), req[r].kind = "merge", req'[r].pc = "done",
             NEW l \in links \cap req[r].seen
      PROVE  Linked(l[1], req[r].into, links') \/ ~Live(req[r].into) \/ Overtaken(l)
  <2>1. links' = Sees(req[r], links)
    BY <1>1, OnlyCommits DEF Commit, Visible, Sees
  <2>2. Late(l, req) => Overtaken(l)
    BY DEF Late, ByMerge, Overtaken, At
  <2> QED BY <1>1, <2>1, <2>2, Facts DEF Copies, StepsOf, At, Live
<1>2. TInv /\ [Next]_vars =>
        [\A r \in Requests :
           At(r, "commit") /\ req[r].kind = "merge" /\ req'[r].pc = "done" =>
             \A l \in links \cap req[r].seen :
               \/ Linked(l[1], req[r].into, links')
               \/ ~Live(req[r].into)
               \/ Overtaken(l)]_vars
  BY <1>1
<1> QED BY <1>2, SpecTInv, PTL DEF Spec, MergeMovesWhatItSaw

-----------------------------------------------------------------------------
(* Locks                                                                   *)

Idle(q) == q.held = NULL /\ q.added = {} /\ q.removed = {} /\ q.dead = NULL

\* A request that is not in a transaction has no lock and nothing uncommitted.
Released(q) ==
    \/ q.pc \in Ended \cup {"new", "lookup", "create", "row"}
    \/ q.kind = "delete_tag" /\ q.pc = "drop"
    => Idle(q)

AllReleased == \A r \in Requests : Released(req[r])

\* Nobody waits for a request that has ended.
EndedHoldNobodyUp == \A p, r \in Requests : req[p].pc \in Ended => p \notin WaitsFor(r)

LEMMA ReleasedStep ==
    ASSUME AllReleased, NEW r \in Requests,
           \A p \in Others(r) : req'[p] = req[p], Released(req'[r])
    PROVE  AllReleased'
BY DEF AllReleased, Others

LEMMA BecomesIs ==
    ASSUME TypeOK, NEW r \in Requests, NEW n, Becomes(r, n)
    PROVE  req'[r] = n /\ \A p \in Others(r) : req'[p] = req[p]
BY DEF Becomes, TypeOK, Others

\* A step of r is a step of nobody else.
LEMMA OthersRest ==
    ASSUME TypeOK, NEW r \in Requests,
           Arrival(r) \/ Serve(r) \/ LookupFails(r) \/ Fail(r)
    PROVE  \A p \in Others(r) : req'[p] = req[p]
<1>1. ASSUME NEW n, Becomes(r, n) PROVE \A p \in Others(r) : req'[p] = req[p]
  BY <1>1, BecomesIs
<1>2. CASE Arrival(r)
  BY <1>1, <1>2, Zenon DEF Arrival, Save, DeleteArticle, NewTag, DeleteTag, Merge
<1>3. ASSUME NEW a, NEW t, NEW n, Insert(r, a, t, n)
      PROVE  \A p \in Others(r) : req'[p] = req[p]
  BY <1>1, <1>3, Zenon DEF Insert
<1>4. CASE Copy(r) \/ Link(r)
  BY <1>1, <1>3, <1>4, Zenon DEF Copy, Link
<1>5. CASE Lookup(r) \/ CreateTag(r) \/ WriteRow(r) \/ LookupFails(r) \/ Drop(r)
  BY <1>1, <1>5, Zenon DEF Lookup, CreateTag, WriteRow, LookupFails, Drop
<1>6. CASE Clear(r) \/ Check(r) \/ Commit(r) \/ Fail(r) \/ AbortDeadlocked(r)
  BY <1>1, <1>6, Zenon DEF Clear, Check, Commit, Fail, AbortDeadlocked
<1> QED BY <1>2, <1>4, <1>5, <1>6 DEF Serve

\* A request that has rolled back or committed.
LEMMA RolledBackReleased ==
    ASSUME TypeOK, NEW r \in Requests,
           \/ Becomes(r, RolledBack(req[r]))
           \/ Becomes(r, [RolledBack(req[r]) EXCEPT !.pc = "done"])
    PROVE  Released(req'[r])
<1>1. ASSUME NEW q \in RequestStates
      PROVE  Idle(RolledBack(q)) /\ Idle([RolledBack(q) EXCEPT !.pc = "done"])
  BY DEF RolledBack, Idle, RequestStates
<1>2. req[r] \in RequestStates
  BY DEF TypeOK
<1>3. req'[r] = RolledBack(req[r]) \/ req'[r] = [RolledBack(req[r]) EXCEPT !.pc = "done"]
  BY BecomesIs, Zenon
<1>4. Idle(req'[r])
  BY <1>1, <1>2, <1>3, Zenon
<1> QED BY <1>4 DEF Released

LEMMA ArrivalReleased ==
    ASSUME TypeOK, NEW r \in Requests, Arrival(r)
    PROVE  Released(req'[r])
<1> SUFFICES Idle(req'[r])
  BY DEF Released
<1>1. CASE Save(r)
  <2>1. PICK a \in Articles, ls \in Lists(Slugs, MaxLabels), k \in {"yes", "no"} :
          Becomes(r, [NewRequest EXCEPT !.pc = "lookup", !.kind = "save", !.id = a,
                                        !.labels = ls, !.rekeys = k])
    BY <1>1 DEF Save
  <2> DEFINE n == [NewRequest EXCEPT !.pc = "lookup", !.kind = "save", !.id = a,
                                  !.labels = ls, !.rekeys = k]
  <2>2. Idle(n)
    BY DEF NewRequest, Idle
  <2>3. Becomes(r, n)
    BY <2>1
  <2> HIDE DEF n
  <2> QED BY <2>2, <2>3, BecomesIs
<1>2. CASE DeleteArticle(r)
  <2>1. PICK a \in Articles :
          Becomes(r, [NewRequest EXCEPT !.pc = "row", !.kind = "delete_article",
                                        !.id = a, !.rekeys = "yes"])
    BY <1>2 DEF DeleteArticle
  <2> DEFINE n == [NewRequest EXCEPT !.pc = "row", !.kind = "delete_article",
                                  !.id = a, !.rekeys = "yes"]
  <2>2. Idle(n)
    BY DEF NewRequest, Idle
  <2>3. Becomes(r, n)
    BY <2>1
  <2> HIDE DEF n
  <2> QED BY <2>2, <2>3, BecomesIs
<1>3. CASE NewTag(r)
  <2>1. PICK s \in Slugs :
          Becomes(r, [NewRequest EXCEPT !.pc = "lookup", !.kind = "create_tag",
                                        !.labels = <<s>>])
    BY <1>3 DEF NewTag
  <2> DEFINE n == [NewRequest EXCEPT !.pc = "lookup", !.kind = "create_tag",
                                  !.labels = <<s>>]
  <2>2. Idle(n)
    BY DEF NewRequest, Idle
  <2>3. Becomes(r, n)
    BY <2>1
  <2> HIDE DEF n
  <2> QED BY <2>2, <2>3, BecomesIs
<1>4. CASE DeleteTag(r)
  <2>1. PICK t \in Tags :
          Becomes(r, [NewRequest EXCEPT !.pc = "drop", !.kind = "delete_tag", !.from = t])
    BY <1>4 DEF DeleteTag
  <2> DEFINE n == [NewRequest EXCEPT !.pc = "drop", !.kind = "delete_tag", !.from = t]
  <2>2. Idle(n)
    BY DEF NewRequest, Idle
  <2>3. Becomes(r, n)
    BY <2>1
  <2> HIDE DEF n
  <2> QED BY <2>2, <2>3, BecomesIs
<1>5. CASE Merge(r)
  <2>1. PICK f, i, order :
          Becomes(r, [NewRequest EXCEPT !.pc = "copy", !.kind = "merge", !.from = f,
                                        !.into = i, !.target = order,
                                        !.seen = With(f, links)])
    BY <1>5 DEF Merge
  <2> DEFINE n == [NewRequest EXCEPT !.pc = "copy", !.kind = "merge", !.from = f,
                                  !.into = i, !.target = order,
                                  !.seen = With(f, links)]
  <2>2. Idle(n)
    BY DEF NewRequest, Idle
  <2>3. Becomes(r, n)
    BY <2>1
  <2> HIDE DEF n
  <2> QED BY <2>2, <2>3, BecomesIs
<1> QED BY <1>1, <1>2, <1>3, <1>4, <1>5 DEF Arrival

LEMMA InsertReleased ==
    ASSUME TypeOK, NEW r \in Requests, NEW a, NEW t, NEW m, NEW pc \in {"copy", "link"},
           m.pc = pc, [m EXCEPT !.added = @ \cup {<<a, t, r>>}].pc = pc,
           Insert(r, a, t, m)
    PROVE  Released(req'[r])
<1>1. CASE Becomes(r, RolledBack(req[r]))
  BY <1>1, RolledBackReleased
<1>2. CASE Becomes(r, m)
  BY <1>2, BecomesIs DEF Released, Ended
<1>3. CASE Becomes(r, [m EXCEPT !.added = @ \cup {<<a, t, r>>}])
  <2>1. PICK n : n = [m EXCEPT !.added = @ \cup {<<a, t, r>>}]
    OBVIOUS
  <2>2. n.pc = pc
    BY <2>1, Zenon
  <2>3. Becomes(r, n)
    BY <1>3, <2>1, Zenon
  <2> QED BY <2>2, <2>3, BecomesIs DEF Released, Ended
<1> QED BY <1>1, <1>2, <1>3, Zenon DEF Insert

\* The requests that are in no transaction yet, or in one that has found nothing.
LEMMA FirstReleased ==
    ASSUME TInv, AllReleased, NEW r \in Requests,
           \/ req[r].pc \in {"lookup", "create", "row"}
           \/ req[r].kind = "delete_tag" /\ req[r].pc = "drop",
           Lookup(r) \/ LookupFails(r) \/ CreateTag(r) \/ WriteRow(r) \/ Drop(r)
    PROVE  Released(req'[r])
<1> DEFINE q == req[r]
           n == req'[r]
<1>1. TypeOK /\ q \in RequestStates /\ Idle(q) /\ r \in DOMAIN req
  BY Facts DEF TInv, AllReleased, Released, TypeOK
<1>2. CASE Becomes(r, RolledBack(q))
  BY <1>1, <1>2, RolledBackReleased
<1>3. CASE Lookup(r) \/ LookupFails(r)
  <2>1. PICK pc, ls, ts : Becomes(r, [q EXCEPT !.pc = pc, !.labels = ls, !.ids = ts])
    <3>1. \/ \E pc : Becomes(r, [q EXCEPT !.pc = pc])
          \/ \E t : Becomes(r, [q EXCEPT !.labels = Tail(@), !.ids = Append(@, t)])
      BY <1>3, Zenon DEF Lookup, LookupFails
    <3>2. ASSUME NEW pc PROVE [q EXCEPT !.pc = pc]
                            = [q EXCEPT !.pc = pc, !.labels = q.labels, !.ids = q.ids]
      BY <1>1 DEF RequestStates
    <3>3. ASSUME NEW t PROVE [q EXCEPT !.labels = Tail(@), !.ids = Append(@, t)]
                           = [q EXCEPT !.pc = q.pc, !.labels = Tail(q.labels),
                                       !.ids = Append(q.ids, t)]
      BY <1>1 DEF RequestStates
    <3>4. CASE \E pc : Becomes(r, [q EXCEPT !.pc = pc])
      <4>1. PICK pc : Becomes(r, [q EXCEPT !.pc = pc])
        BY <3>4
      <4>2. Becomes(r, [q EXCEPT !.pc = pc, !.labels = q.labels, !.ids = q.ids])
        BY <3>2, <4>1, Zenon
      <4> QED BY <4>2
    <3>5. CASE \E t : Becomes(r, [q EXCEPT !.labels = Tail(@), !.ids = Append(@, t)])
      <4>1. PICK t : Becomes(r, [q EXCEPT !.labels = Tail(@), !.ids = Append(@, t)])
        BY <3>5
      <4>2. Becomes(r, [q EXCEPT !.pc = q.pc, !.labels = Tail(q.labels),
                                 !.ids = Append(q.ids, t)])
        BY <3>3, <4>1, Zenon
      <4> QED BY <4>2
    <3> QED BY <3>1, <3>4, <3>5
  <2>2. n = [q EXCEPT !.pc = pc, !.labels = ls, !.ids = ts]
    BY <1>1, <2>1, BecomesIs
  <2>3. Idle(n)
    BY <1>1, <2>2 DEF Idle, RequestStates
  <2> QED BY <2>3 DEF Released
<1>4. CASE CreateTag(r) /\ ~Becomes(r, RolledBack(q))
  <2>1. PICK t : Becomes(r, [q EXCEPT !.pc = IF q.kind = "save" THEN "lookup" ELSE "done",
                                      !.labels = Tail(@), !.ids = Append(@, t)])
    BY <1>4, Zenon DEF CreateTag
  <2>2. n = [q EXCEPT !.pc = IF q.kind = "save" THEN "lookup" ELSE "done",
                      !.labels = Tail(@), !.ids = Append(@, t)]
    BY <1>1, <2>1, BecomesIs
  <2>3. Idle(n)
    BY <1>1, <2>2 DEF Idle, RequestStates
  <2> QED BY <2>3 DEF Released
<1>5. CASE WriteRow(r)
  <2>1. \/ \E order : n = [q EXCEPT !.pc = "clear", !.held = q.id, !.target = order]
        \/ n = [q EXCEPT !.pc = "done"]
    <3>1. \/ \E order : Becomes(r, [q EXCEPT !.pc = "clear", !.held = q.id, !.target = order])
          \/ Becomes(r, [q EXCEPT !.pc = "done"])
      BY <1>5, Zenon DEF WriteRow
    <3>2. ASSUME NEW m, Becomes(r, m) PROVE n = m
      BY <1>1, <3>2, BecomesIs
    <3> QED BY <3>1, <3>2, Zenon
  <2>2. Idle(n) \/ n.pc = "clear"
    BY <1>1, <2>1 DEF Idle, RequestStates
  <2> QED BY <2>2 DEF Released, Ended
<1>6. CASE Drop(r)
  <2>1. \/ n = [q EXCEPT !.pc = "check", !.dead = q.from]
        \/ \E pc : n = [q EXCEPT !.pc = pc]
    BY <1>1, <1>6, BecomesIs, Zenon DEF Drop
  <2>2. Idle(n) \/ n.pc \in {"check", "commit"}
    BY <1>1, <2>1 DEF Idle, RequestStates
  <2> QED BY <2>2 DEF Released, Ended
<1> QED BY <1>2, <1>3, <1>4, <1>5, <1>6

LEMMA ServeReleased ==
    ASSUME TInv, AllReleased, NEW r \in Requests,
           Serve(r) \/ LookupFails(r) \/ Fail(r)
    PROVE  Released(req'[r])
<1> DEFINE q == req[r]
           n == req'[r]
<1>1. TypeOK /\ q \in RequestStates /\ Shape(q) /\ r \in DOMAIN req
  BY Facts DEF TInv, TypeOK
<1>2. ASSUME n.pc \in {"clear", "link", "check", "commit"} PROVE Released(n)
  BY <1>2 DEF Released, Ended
<1>3. CASE Copy(r)
  <2>1. CASE Insert(r, Head(q.target)[1], q.into, [q EXCEPT !.target = Tail(@)])
    <3>1. q.pc \in {"copy", "link"}
      BY <1>3 DEF Copy, Proceeds, At
    <3>2. PICK a, t, m : a = Head(q.target)[1] /\ t = q.into /\ m = [q EXCEPT !.target = Tail(@)]
      OBVIOUS
    <3>3. Insert(r, a, t, m)
      BY <2>1, <3>2, Zenon
    <3>4. m.pc = q.pc /\ [m EXCEPT !.added = @ \cup {<<a, t, r>>}].pc = q.pc
      BY <1>1, <3>2 DEF RequestStates
    <3>5. PICK pc \in {"copy", "link"} : pc = q.pc
      BY <3>1
    <3>6. m.pc = pc /\ [m EXCEPT !.added = @ \cup {<<a, t, r>>}].pc = pc
      BY <3>4, <3>5, Zenon
    <3> QED BY <1>1, <3>3, <3>6, InsertReleased
  <2>2. CASE \E order \in Orders(With(q.from, Visible(r))) :
                Becomes(r, [q EXCEPT !.pc = "clear", !.target = order])
    <3>1. PICK order : n = [q EXCEPT !.pc = "clear", !.target = order]
      BY <1>1, <2>2, BecomesIs, Zenon
    <3> QED BY <1>1, <1>2, <3>1 DEF RequestStates
  <2> QED BY <1>3, <2>1, <2>2 DEF Copy
<1>4. CASE Link(r)
  <2>1. CASE Insert(r, q.id, Head(q.target)[2], [q EXCEPT !.target = Tail(@)])
    <3>1. q.pc \in {"copy", "link"}
      BY <1>4 DEF Link, Proceeds, At
    <3>2. PICK a, t, m : a = q.id /\ t = Head(q.target)[2] /\ m = [q EXCEPT !.target = Tail(@)]
      OBVIOUS
    <3>3. Insert(r, a, t, m)
      BY <2>1, <3>2, Zenon
    <3>4. m.pc = q.pc /\ [m EXCEPT !.added = @ \cup {<<a, t, r>>}].pc = q.pc
      BY <1>1, <3>2 DEF RequestStates
    <3>5. PICK pc \in {"copy", "link"} : pc = q.pc
      BY <3>1
    <3>6. m.pc = pc /\ [m EXCEPT !.added = @ \cup {<<a, t, r>>}].pc = pc
      BY <3>4, <3>5, Zenon
    <3> QED BY <1>1, <3>3, <3>6, InsertReleased
  <2>2. CASE Becomes(r, [q EXCEPT !.pc = "commit"])
    <3>1. n = [q EXCEPT !.pc = "commit"]
      BY <1>1, <2>2, BecomesIs
    <3>2. n.pc = "commit"
      BY <1>1, <3>1 DEF RequestStates
    <3> QED BY <1>2, <3>2
  <2> QED BY <1>4, <2>1, <2>2 DEF Link
<1>5. CASE Clear(r)
  <2>1. q.kind \in {"save", "delete_article", "merge"} /\ q.pc = "clear"
    BY <1>1, <1>5 DEF Clear, Proceeds, At, Shape, Kinds, StepsOf
  <2>2. n.kind = q.kind /\ (n.pc \in {"clear", "link", "commit"} \/ (n.pc = "drop" /\ q.kind = "merge"))
    <3>1. CASE q.target # <<>>
      <4> DEFINE m == [q EXCEPT !.removed = @ \cup ({Head(q.target)} \cap links),
                                !.target = Tail(@)]
      <4>1. Becomes(r, m)
        BY <1>5, <3>1 DEF Clear
      <4>2. m.kind = q.kind /\ m.pc = q.pc
        BY <1>1 DEF RequestStates
      <4> HIDE DEF m
      <4> QED BY <1>1, <2>1, <4>1, <4>2, BecomesIs
    <3>2. CASE q.target = <<>> /\ q.kind = "save"
      <4> DEFINE m == [q EXCEPT !.pc = "link",
                                !.target = [i \in DOMAIN q.ids |-> <<q.id, q.ids[i], r>>]]
      <4>1. Becomes(r, m)
        BY <1>5, <3>2 DEF Clear
      <4>2. m.kind = q.kind /\ m.pc = "link"
        BY <1>1 DEF RequestStates
      <4> HIDE DEF m
      <4> QED BY <1>1, <4>1, <4>2, BecomesIs
    <3>3. CASE q.target = <<>> /\ q.kind # "save"
      <4>1. PICK pc \in {"drop", "commit"} :
              Becomes(r, [q EXCEPT !.pc = pc]) /\ (pc = "drop" => q.kind = "merge")
        BY <1>5, <2>1, <3>3 DEF Clear
      <4> DEFINE m == [q EXCEPT !.pc = pc]
      <4>2. m.kind = q.kind /\ m.pc = pc
        BY <1>1 DEF RequestStates
      <4>3. Becomes(r, m)
        BY <4>1
      <4> HIDE DEF m
      <4> QED BY <1>1, <4>1, <4>2, <4>3, BecomesIs
    <3> QED BY <3>1, <3>2, <3>3
  <2> QED BY <2>2 DEF Released, Ended
<1>6. CASE Drop(r) /\ q.kind # "delete_tag"
  <2>1. \/ n = [q EXCEPT !.pc = "check", !.dead = q.from]
        \/ n = [q EXCEPT !.pc = "commit"]
    BY <1>1, <1>6, BecomesIs DEF Drop
  <2>2. n.pc \in {"check", "commit"}
    BY <1>1, <2>1 DEF RequestStates
  <2> QED BY <1>2, <2>2
<1>7. CASE Check(r)
  <2>1. CASE With(q.from, Visible(r)) = {}
    <3>1. Becomes(r, [q EXCEPT !.pc = "commit"])
      BY <1>7, <2>1 DEF Check
    <3>2. n = [q EXCEPT !.pc = "commit"]
      BY <1>1, <3>1, BecomesIs
    <3> QED BY <1>1, <1>2, <3>2 DEF RequestStates
  <2>2. CASE With(q.from, Visible(r)) # {}
    BY <1>1, <1>7, <2>2, RolledBackReleased DEF Check
  <2> QED BY <2>1, <2>2
<1>8. CASE Commit(r) \/ Fail(r) \/ AbortDeadlocked(r)
  BY <1>1, <1>8, RolledBackReleased DEF Commit, Fail, AbortDeadlocked
<1>9. CASE Lookup(r) \/ CreateTag(r) \/ WriteRow(r) \/ LookupFails(r)
           \/ (Drop(r) /\ q.kind = "delete_tag")
  <2>1. q.pc \in {"lookup", "create", "row"} \/ (q.kind = "delete_tag" /\ q.pc = "drop")
    BY <1>9 DEF Lookup, CreateTag, WriteRow, LookupFails, Drop, Proceeds, At
  <2> QED BY <1>9, <2>1, FirstReleased
<1> QED BY <1>3, <1>4, <1>5, <1>6, <1>7, <1>8, <1>9 DEF Serve

LEMMA ReleasedAlways == Spec => [](TInv /\ AllReleased)
<1>1. Init => TInv /\ AllReleased
  <2>1. Idle(NewRequest)
    BY DEF Idle, NewRequest
  <2>2. Init => \A r \in Requests : req[r] = NewRequest
    BY DEF Init
  <2> QED BY <2>1, <2>2, InitTInv DEF AllReleased, Released
<1>2. TInv /\ AllReleased /\ [Next]_vars => (TInv /\ AllReleased)'
  <2> SUFFICES ASSUME TInv, AllReleased, [Next]_vars PROVE AllReleased'
    BY NextTInv
  <2>1. ASSUME NEW r \in Requests, Arrival(r) \/ Serve(r) \/ LookupFails(r) \/ Fail(r)
        PROVE  AllReleased'
    BY <2>1, ArrivalReleased, ServeReleased, OthersRest, ReleasedStep DEF TInv
  <2>2. CASE UNCHANGED vars
    BY <2>2 DEF vars, AllReleased
  <2> QED BY <2>1, <2>2 DEF Next, AllServed
<1> QED BY <1>1, <1>2, PTL DEF Spec

\* LocksReleased: a request that has ended, committed, rolled back, failed or
\* aborted by the deadlock detector, has no lock and nothing uncommitted that
\* another request would have to wait for.
THEOREM LocksReleased == Spec => []EndedHoldNobodyUp
<1>1. TInv /\ AllReleased => EndedHoldNobodyUp
  <2> SUFFICES ASSUME TInv, AllReleased, NEW p \in Requests, NEW r \in Requests,
                      req[p].pc \in Ended, p \in WaitsFor(r)
               PROVE  FALSE
    BY DEF EndedHoldNobodyUp
  <2> DEFINE q == req[r]
  <2>1. Idle(req[p])
    BY DEF AllReleased, Released
  <2>2. q \in RequestStates /\ Shape(q) /\ NULL \notin Articles \cup Tags
    BY Facts
  <2>3. ASSUME NEW a, NEW t \in Tags, p \in LinkWaits(r, a, t), a \in Articles PROVE FALSE
    BY <2>1, <2>2, <2>3 DEF LinkWaits, Linked, Touched, Idle
  <2>4. CASE q.pc = "row"
    BY <2>1, <2>2, <2>4 DEF WaitsFor, Idle, Of, Shape, StepsOf, Kinds, Writes
  <2>5. CASE q.pc = "drop"
    BY <2>1, <2>2, <2>5 DEF WaitsFor, Idle, With, Shape, StepsOf, Kinds
  <2>6. CASE q.pc \in {"copy", "link"} /\ q.target # <<>>
    <3>1. Head(q.target) \in Links
      <4>1. q.target \in Seq(Links)
        BY <2>2 DEF RequestStates
      <4> QED BY <2>6, <4>1, TailKeeps
    <3>2. Head(q.target)[1] \in Articles /\ Head(q.target)[2] \in Tags
      BY <3>1 DEF Links
    <3>3. q.pc = "copy" => q.into \in Tags
      BY <2>2 DEF Shape, StepsOf, Kinds
    <3> QED BY <2>3, <2>6, <3>2, <3>3 DEF WaitsFor
  <2>7. CASE q.pc \in {"create", "clear", "check"}
    BY <2>1, <2>7 DEF WaitsFor, Idle, With
  <2> QED BY <2>4, <2>5, <2>6, <2>7 DEF WaitsFor
<1> QED BY <1>1, ReleasedAlways, PTL
=============================================================================
