---------------------------- MODULE KBReadersProofs ----------------------------
(***************************************************************************)
(* Theorems about KBReaders, for any articles, customers, images, requests *)
(* and threshold.                                                          *)
(*                                                                         *)
(* The invariant has a part for each of the three sequences: what a view   *)
(* about to commit has not seen is still to come after what it has seen; a *)
(* run of the sweep still has before it, or has announced, each article of *)
(* its list that stayed low; and an image an article shows is owned or     *)
(* some save is about to look at it.                                       *)
(***************************************************************************)
EXTENDS KBReaders, TLAPS

\* What the step a request is at says about its arguments.
Arguments(q) ==
    /\ q.pc \in {"view", "insert", "vote"} => q.article \in Articles /\ q.customer \in Customers
    /\ q.pc = "vote" => q.vote \in {"up", "down"}
    /\ q.pc \in {"reload", "adopt"} => q.article \in Articles
    /\ q.pc = "announce" => q.article \in q.todo

ViewOf(q) ==
    q.pc = "insert" =>
      LET vs == views[q.article][q.customer] IN
      /\ article[q.article] # "deleted" => q.seen <= Len(vs)
      /\ \A i \in DOMAIN vs : q.at - vs[i].at < Day => q.seen < i

SweepOf(r) ==
    /\ Sweeping(r) =>
         /\ \A a \in req[r].todo : article[a] = "published" \/ a \in touched[r]
         /\ \A a \in steady[r] :
              /\ article[a] = "published" /\ Low(votes[a], now)
              /\ a \in req[r].todo \/ <<r, a>> \in unhelpful
    /\ At(r, "done") => \A a \in steady[r] : <<r, a>> \in unhelpful
    /\ req[r].pc \notin {"sweep", "announce", "done", "fault"} => steady[r] = {}

ShownThere ==
    \A a \in Articles :
        /\ shown[a] # {} => Exists(a)
        /\ \A i \in shown[a] : owner[i] # "unborn"

ViewInv == (\A r \in Requests : ViewOf(req[r])) /\ OneViewADayUnlessOvertaken
SweepInv == \A r \in Requests : SweepOf(r)
ImageInv == ShownThere /\ ShownIsOwned

IInv == TypeOK /\ (\A r \in Requests : Arguments(req[r])) /\ ViewInv /\ SweepInv /\ ImageInv

-----------------------------------------------------------------------------
(* Requests                                                                *)

LEMMA Numbers == Day \in Nat /\ MaxNow \in Nat /\ MaxFaults \in Nat /\ MaxViews \in Nat
                 /\ \A t \in Instants : t \in Nat
BY ReadersAssumption DEF Instants

LEMMA NewRequestType ==
  /\ NewRequest \in RequestStates /\ NewRequest.pc = "new" /\ Arguments(NewRequest)
  /\ NewRequest.todo = {} /\ NewRequest.kind = NULL
BY ReadersAssumption DEF NewRequest, RequestStates, Instants, Arguments

\* Where a request is when it is over.
LEMMA OverType ==
  ASSUME TypeOK, NEW r \in Requests, NEW pc \in {"done", "fault"}
  PROVE  /\ Over(r, pc) \in RequestStates /\ Over(r, pc).pc = pc /\ Arguments(Over(r, pc))
<1>1. req[r].kind \in {"detail", "vote", "cron", "save", NULL}
  BY DEF TypeOK, RequestStates
<1>2. Over(r, pc) \in RequestStates /\ Over(r, pc).pc = pc
  BY <1>1, NewRequestType DEF Over, RequestStates, NewRequest
<1> QED
  BY <1>2 DEF Arguments

\* One request moves to q.
LEMMA Moves ==
  ASSUME TypeOK, NEW r \in Requests, NEW q \in RequestStates, Becomes(r, q)
  PROVE  /\ req' \in [Requests -> RequestStates]
         /\ req'[r] = q /\ \A s \in Requests \ {r} : req'[s] = req[s]
BY DEF TypeOK, Becomes

LEMMA MovesArguments ==
  ASSUME IInv, NEW r \in Requests, NEW q \in RequestStates, Becomes(r, q), Arguments(q)
  PROVE  \A s \in Requests : Arguments(req[s])'
<1>1. \A s \in Requests : Arguments(req'[s])
  BY Moves DEF IInv
<1> QED
  BY <1>1 DEF Arguments

-----------------------------------------------------------------------------
(* Views                                                                   *)

\* Steps that store no view: none is at its INSERT that was not there before.
LEMMA ViewsKept ==
  ASSUME IInv, UNCHANGED views,
         \A a \in Articles : article[a] = "deleted" => article'[a] = "deleted",
         \A r \in Requests : req'[r].pc = "insert" => req'[r] = req[r]
  PROVE  ViewInv'
<1>1. OneViewADayUnlessOvertaken'
  BY DEF IInv, ViewInv, OneViewADayUnlessOvertaken
<1>2. ASSUME NEW r \in Requests PROVE ViewOf(req[r])'
  <2> SUFFICES ASSUME req'[r].pc = "insert" PROVE ViewOf(req[r])'
    BY DEF ViewOf
  <2>1. req'[r] = req[r] /\ ViewOf(req[r]) /\ req[r].article \in Articles
    BY DEF IInv, ViewInv, Arguments
  <2> QED
    BY <2>1 DEF ViewOf
<1> QED
  BY <1>1, <1>2 DEF ViewInv

-----------------------------------------------------------------------------
(* The sweep                                                               *)

\* Steps the histories do not follow: they neither list nor sweep.
LEMMA SweepKept ==
  ASSUME IInv, UNCHANGED <<now, article, votes, unhelpful, touched, steady>>,
         \A r \in Requests :
            \/ req'[r] = req[r]
            \/ req'[r].pc = "fault"
            \/ /\ req[r].pc \notin {"sweep", "announce", "done", "fault"}
               /\ req'[r].pc \notin {"sweep", "announce"}
  PROVE  SweepInv'
<1> SUFFICES ASSUME NEW r \in Requests PROVE SweepOf(r)'
  BY DEF SweepInv
<1>1. SweepOf(r)
  BY DEF IInv, SweepInv
<1> QED
  BY <1>1 DEF SweepOf, Sweeping, At

\* Steps they follow.
LEMMA SweepFollowed ==
  ASSUME IInv, NEW C \in SUBSET Articles, Follow(article', votes', now', C), UNCHANGED unhelpful,
         \A a \in Articles \ C : article'[a] = article[a],
         \A r \in Requests : \/ req'[r] = req[r]
                             \/ ~Sweeping(r) /\ req'[r].pc \notin {"sweep", "announce"}
  PROVE  SweepInv'
<1> SUFFICES ASSUME NEW r \in Requests PROVE SweepOf(r)'
  BY DEF SweepInv
<1>1. /\ SweepOf(r) /\ req[r].todo \in SUBSET Articles
  BY DEF IInv, SweepInv, TypeOK, RequestStates
<1>2. /\ touched'[r] = IF Sweeping(r) THEN touched[r] \cup C ELSE {}
      /\ steady'[r] = {a \in steady[r] : /\ Sweeping(r) /\ article'[a] = "published"
                                         /\ Low(votes'[a], now')}
  BY DEF Follow
<1>3. CASE Sweeping(r)
  <2>1. req'[r] = req[r]
    BY <1>3
  <2>2. \A a \in req'[r].todo : article'[a] = "published" \/ a \in touched'[r]
    BY <1>1, <1>2, <1>3, <2>1 DEF SweepOf
  <2>3. \A a \in steady'[r] :
          /\ article'[a] = "published" /\ Low(votes'[a], now')
          /\ a \in req'[r].todo \/ <<r, a>> \in unhelpful'
    BY <1>1, <1>2, <1>3, <2>1 DEF SweepOf
  <2>4. Sweeping(r)' /\ ~At(r, "done")' /\ req'[r].pc \in {"sweep", "announce"}
    BY <1>3, <2>1 DEF Sweeping, At
  <2>5. SweepOf(r)' = ((\A a \in req'[r].todo : article'[a] = "published" \/ a \in touched'[r])
                       /\ (\A a \in steady'[r] :
                             /\ article'[a] = "published" /\ Low(votes'[a], now')
                             /\ a \in req'[r].todo \/ <<r, a>> \in unhelpful'))
    BY <2>4 DEF SweepOf
  <2> QED
    BY <2>2, <2>3, <2>5
<1>4. CASE ~Sweeping(r)
  <2>1. steady'[r] = {} /\ ~Sweeping(r)'
    BY <1>2, <1>4 DEF Sweeping, At
  <2> QED
    BY <2>1 DEF SweepOf
<1> QED
  BY <1>3, <1>4

-----------------------------------------------------------------------------
(* Images                                                                  *)

\* Steps that change no article's images and no image's article, and end no
\* save's adoption but by a fault.
LEMMA ImagesKept ==
  ASSUME IInv, UNCHANGED <<images, bereaved>>, faults' >= faults, faults' \in Nat,
         \A a \in Articles : Exists(a) => Exists(a)',
         \A r \in Requests : req[r].pc \in {"reload", "adopt"} => req'[r] = req[r] \/ faults' > 0
  PROVE  ImageInv'
<1>0. faults \in Nat
  BY Numbers DEF IInv, TypeOK
<1>1. ShownThere'
  BY DEF IInv, ImageInv, ShownThere, images
<1>2. ShownIsOwned'
  <2> SUFFICES ASSUME NEW a \in Articles, NEW i \in shown'[a], owner'[i] = NULL, ~(faults' > 0),
                      i \notin bereaved'
               PROVE  \E r \in Requests : Adopting(r, a, i)'
    BY DEF ShownIsOwned
  <2>1. PICK r \in Requests : Adopting(r, a, i)
    BY <1>0 DEF IInv, ImageInv, ShownIsOwned, images
  <2>2. req'[r] = req[r]
    BY <2>1 DEF Adopting, At
  <2> QED
    BY <2>1, <2>2 DEF Adopting, At
<1> QED
  BY <1>1, <1>2 DEF ImageInv

-----------------------------------------------------------------------------
(* The steps                                                               *)

LEMMA InitIInv == Init => IInv
<1> SUFFICES ASSUME Init PROVE IInv
  OBVIOUS
<1>1. TypeOK
  BY NewRequestType, Numbers, ReadersAssumption
  DEF Init, TypeOK, Instants, Statuses, NoViews, NoVotes, Views, Votes
<1>2. \A r \in Requests : req[r].pc = "new" /\ steady[r] = {}
  BY NewRequestType DEF Init
<1>3. \A a \in Articles, c \in Customers : views[a][c] = <<>>
  BY DEF Init, NoViews
<1>4. ViewInv /\ SweepInv
  BY <1>2, <1>3 DEF ViewInv, ViewOf, OneViewADayUnlessOvertaken, SweepInv, SweepOf, Sweeping, At
<1>5. ImageInv
  BY DEF Init, ImageInv, ShownThere, ShownIsOwned
<1> QED
  BY <1>1, <1>2, <1>4, <1>5 DEF IInv, Arguments

\* The steps that start or end a request, or take it on, and change no table.
LEMMA Quiet ==
  ASSUME IInv, NEW r \in Requests, NEW q \in RequestStates, Becomes(r, q),
         UNCHANGED <<now, article, readers, images, unhelpful, history>>,
         faults' \in 0..MaxFaults, faults' >= faults, Arguments(q),
         q.pc = "insert" => ViewOf(q),
         \/ q.pc = "fault"
         \/ /\ req[r].pc \notin {"sweep", "announce", "done", "fault"}
            /\ q.pc \notin {"sweep", "announce"},
         req[r].pc \in {"reload", "adopt"} => faults' > 0
  PROVE  IInv'
<1>1. /\ req' \in [Requests -> RequestStates]
      /\ req'[r] = q /\ \A x \in Requests \ {r} : req'[x] = req[x]
  BY Moves DEF IInv
<1>2. TypeOK'
  BY <1>1 DEF IInv, TypeOK, readers, images, history, Instants, Views, Votes
<1>3. \A x \in Requests : Arguments(req[x])'
  BY MovesArguments
<1>4. ViewInv'
  <2>1. OneViewADayUnlessOvertaken'
    BY DEF IInv, ViewInv, OneViewADayUnlessOvertaken, readers
  <2>2. \A x \in Requests : ViewOf(req'[x])
    BY <1>1 DEF IInv, ViewInv, ViewOf
  <2>3. \A x \in Requests : ViewOf(req[x])'
    BY <2>2 DEF ViewOf, readers
  <2> QED
    BY <2>1, <2>3 DEF ViewInv
<1>5. SweepInv'
  BY <1>1, SweepKept DEF readers, history
<1>6. ImageInv'
  <2>1. faults' \in Nat
    BY Numbers
  <2>2. \A x \in Requests : req[x].pc \in {"reload", "adopt"} => req'[x] = req[x] \/ faults' > 0
    BY <1>1
  <2> QED
    BY <2>1, <2>2, ImagesKept DEF history, Exists
<1> QED
  BY <1>2, <1>3, <1>4, <1>5, <1>6 DEF IInv

\* A request of no consequence ends.
LEMMA QuietEnd ==
  ASSUME IInv, NEW r \in Requests, Ends(r),
         UNCHANGED <<now, article, readers, images, unhelpful, history, faults>>,
         req[r].pc \notin {"sweep", "announce", "done", "fault", "reload", "adopt"}
  PROVE  IInv'
<1>1. Over(r, "done") \in RequestStates /\ Over(r, "done").pc = "done" /\ Arguments(Over(r, "done"))
  BY OverType DEF IInv
<1>2. faults' \in 0..MaxFaults /\ faults' >= faults
  BY Numbers DEF IInv, TypeOK
<1> QED
  BY <1>1, <1>2, Quiet DEF Ends

LEMMA ArriveStep ==
  ASSUME IInv, NEW r \in Requests, Detail(r) \/ Vote(r) \/ RunCron(r)
  PROVE  IInv'
<1>1. /\ UNCHANGED <<now, article, readers, images, unhelpful, history, faults>>
      /\ req[r].pc = "new"
  BY DEF Detail, Vote, RunCron, At
<1>2. faults' \in 0..MaxFaults /\ faults' >= faults
  BY <1>1, Numbers DEF IInv, TypeOK
<1>3. \E q \in RequestStates : Becomes(r, q) /\ Arguments(q) /\ q.pc \in {"view", "vote", "list"}
  <2>1. CASE Detail(r)
    <3>1. PICK a \in Articles, c \in Customers :
             Becomes(r, [NewRequest EXCEPT !.pc = "view", !.kind = "detail",
                                           !.article = a, !.customer = c])
      BY <2>1 DEF Detail
    <3> DEFINE q == [NewRequest EXCEPT !.pc = "view", !.kind = "detail",
                                       !.article = a, !.customer = c]
    <3>2. q \in RequestStates /\ q.pc = "view" /\ q.article = a /\ q.customer = c
      BY NewRequestType DEF NewRequest, RequestStates
    <3> QED
      BY <3>1, <3>2 DEF Arguments
  <2>2. CASE Vote(r)
    <3>1. PICK a \in Articles, c \in Customers, v \in {"up", "down"} :
             Becomes(r, [NewRequest EXCEPT !.pc = "vote", !.kind = "vote",
                                           !.article = a, !.customer = c, !.vote = v])
      BY <2>2 DEF Vote
    <3> DEFINE q == [NewRequest EXCEPT !.pc = "vote", !.kind = "vote",
                                       !.article = a, !.customer = c, !.vote = v]
    <3>2. /\ q \in RequestStates /\ q.pc = "vote" /\ q.article = a /\ q.customer = c
          /\ q.vote \in {"up", "down"}
      BY NewRequestType DEF NewRequest, RequestStates
    <3> QED
      BY <3>1, <3>2 DEF Arguments
  <2>3. CASE RunCron(r)
    <3> DEFINE q == [NewRequest EXCEPT !.pc = "list", !.kind = "cron"]
    <3>1. q \in RequestStates /\ q.pc = "list"
      BY NewRequestType DEF NewRequest, RequestStates
    <3>2. Becomes(r, q)
      BY <2>3 DEF RunCron
    <3> QED
      BY <3>1, <3>2 DEF Arguments
  <2> QED
    BY <2>1, <2>2, <2>3
<1> QED
  BY <1>1, <1>2, <1>3, Quiet

LEMMA ViewBeginsStep ==
  ASSUME IInv, NEW r \in Requests, ViewBegins(r)
  PROVE  IInv'
<1> DEFINE vs == views[req[r].article][req[r].customer]
<1>1. /\ UNCHANGED <<now, article, readers, images, unhelpful, history, faults>>
      /\ req[r].pc = "view"
  BY DEF ViewBegins, At
<1>2. CASE Viewed(vs)
  BY <1>1, <1>2, QuietEnd DEF ViewBegins
<1>3. CASE ~Viewed(vs)
  <2> DEFINE q == [req[r] EXCEPT !.pc = "insert", !.at = now, !.seen = Len(vs)]
  <2>1. /\ req[r] \in RequestStates /\ req[r].article \in Articles /\ req[r].customer \in Customers
        /\ now \in Instants
    BY <1>1 DEF IInv, TypeOK, Arguments
  <2>2. vs \in Seq(Views) /\ Len(vs) \in Nat
    BY <2>1 DEF IInv, TypeOK
  <2>3. /\ q \in RequestStates /\ q.pc = "insert" /\ q.at = now /\ q.seen = Len(vs)
        /\ q.article = req[r].article /\ q.customer = req[r].customer
    BY <2>1, <2>2 DEF RequestStates
  <2>4. Becomes(r, q)
    BY <1>3 DEF ViewBegins
  <2>5. \A i \in DOMAIN vs : ~(now - vs[i].at < Day)
    BY <1>3 DEF Viewed
  <2> HIDE DEF q
  <2>6. ViewOf(q) /\ Arguments(q)
    BY <2>1, <2>2, <2>3, <2>5 DEF ViewOf, Arguments
  <2>7. faults' \in 0..MaxFaults /\ faults' >= faults
    BY <1>1, Numbers DEF IInv, TypeOK
  <2> QED
    BY <1>1, <2>3, <2>4, <2>6, <2>7, Quiet
<1> QED
  BY <1>2, <1>3

LEMMA FailStep ==
  ASSUME IInv, NEW r \in Requests, Fail(r)
  PROVE  IInv'
<1>1. Over(r, "fault") \in RequestStates /\ Over(r, "fault").pc = "fault"
      /\ Arguments(Over(r, "fault"))
  BY OverType DEF IInv
<1>2. faults' \in 0..MaxFaults /\ faults' >= faults /\ faults' > 0
  BY Numbers DEF IInv, TypeOK, Fail
<1> QED
  BY <1>1, <1>2, Quiet DEF Fail

LEMMA SetStatusStep ==
  ASSUME IInv, SetStatus
  PROVE  IInv'
<1>1. PICK a \in Articles :
         /\ Exists(a)
         /\ article' = [article EXCEPT ![a] = IF @ = "draft" THEN "published" ELSE "draft"]
         /\ Follow(article', votes, now, {a})
  BY DEF SetStatus
<1>2. UNCHANGED <<now, readers, images, req, unhelpful, bereaved, faults>>
  BY DEF SetStatus
<1>3. /\ article' \in [Articles -> Statuses] /\ article'[a] \in {"draft", "published"}
      /\ \A b \in Articles \ {a} : article'[b] = article[b]
  BY <1>1 DEF IInv, TypeOK, Statuses
<1>4. TypeOK'
  <2>1. touched' \in [Requests -> SUBSET Articles] /\ steady' \in [Requests -> SUBSET Articles]
    BY <1>1 DEF Follow, IInv, TypeOK
  <2> QED
    BY <2>1, <1>2, <1>3 DEF IInv, TypeOK, readers, images, Instants
<1>5. \A r \in Requests : Arguments(req[r])'
  BY <1>2 DEF IInv, Arguments
<1>6. ViewInv'
  BY <1>1, <1>2, <1>3, ViewsKept DEF readers, Exists
<1>7. SweepInv'
  <2>1. Follow(article', votes', now', {a})
    BY <1>1, <1>2 DEF readers
  <2> QED
    BY <2>1, <1>2, <1>3, SweepFollowed
<1>8. ImageInv'
  <2>1. faults' \in Nat /\ faults' >= faults
    BY <1>2, Numbers DEF IInv, TypeOK
  <2> QED
    BY <2>1, <1>2, <1>3, ImagesKept DEF Exists
<1> QED
  BY <1>4, <1>5, <1>6, <1>7, <1>8 DEF IInv

LEMMA DeleteStep ==
  ASSUME IInv, Delete
  PROVE  IInv'
<1>1. PICK a \in Articles :
         /\ Exists(a)
         /\ article' = [article EXCEPT ![a] = "deleted"]
         /\ shown' = [shown EXCEPT ![a] = {}]
         /\ views' = [views EXCEPT ![a] = NoViews]
         /\ votes' = [votes EXCEPT ![a] = NoVotes]
         /\ owner' = [i \in Images |-> IF owner[i] = a THEN NULL ELSE owner[i]]
         /\ bereaved' = bereaved \cup {i \in Images : owner[i] = a}
         /\ Follow(article', votes', now, {a})
  BY DEF Delete
<1>2. UNCHANGED <<now, req, unhelpful, faults>>
  BY DEF Delete
<1>3. /\ article' \in [Articles -> Statuses] /\ article'[a] = "deleted"
      /\ \A b \in Articles \ {a} : article'[b] = article[b]
  BY <1>1 DEF IInv, TypeOK, Statuses
<1>4. TypeOK'
  <2>1. touched' \in [Requests -> SUBSET Articles] /\ steady' \in [Requests -> SUBSET Articles]
    BY <1>1 DEF Follow, IInv, TypeOK
  <2>2. views' \in [Articles -> [Customers -> Seq(Views)]]
    BY <1>1 DEF IInv, TypeOK, NoViews
  <2>3. votes' \in [Articles -> [Customers -> Votes \cup {NULL}]]
    BY <1>1 DEF IInv, TypeOK, NoVotes
  <2>4. owner' \in [Images -> Articles \cup {NULL, "unborn"}]
        /\ shown' \in [Articles -> SUBSET Images] /\ bereaved' \subseteq Images
    BY <1>1 DEF IInv, TypeOK
  <2> QED
    BY <2>1, <2>2, <2>3, <2>4, <1>2, <1>3 DEF IInv, TypeOK, Instants
<1>5. \A r \in Requests : Arguments(req[r])'
  BY <1>2 DEF IInv, Arguments
<1>6. ViewInv'
  <2>1. /\ \A c \in Customers : views'[a][c] = <<>>
        /\ \A b \in Articles \ {a} : views'[b] = views[b]
    BY <1>1 DEF IInv, TypeOK, NoViews
  <2>2. OneViewADayUnlessOvertaken'
    BY <2>1 DEF IInv, ViewInv, OneViewADayUnlessOvertaken
  <2>3. ASSUME NEW r \in Requests PROVE ViewOf(req[r])'
    <3> SUFFICES ASSUME req[r].pc = "insert" PROVE ViewOf(req[r])'
      BY <1>2 DEF ViewOf
    <3>1. ViewOf(req[r]) /\ req[r].article \in Articles /\ req[r].customer \in Customers
      BY DEF IInv, ViewInv, Arguments
    <3>2. CASE req[r].article = a
      BY <3>1, <3>2, <2>1, <1>2, <1>3 DEF ViewOf
    <3>3. CASE req[r].article # a
      BY <3>1, <3>3, <2>1, <1>2, <1>3 DEF ViewOf
    <3> QED
      BY <3>2, <3>3
  <2> QED
    BY <2>2, <2>3 DEF ViewInv
<1>7. SweepInv'
  <2>1. Follow(article', votes', now', {a})
    BY <1>1, <1>2
  <2> QED
    BY <2>1, <1>2, <1>3, SweepFollowed
<1>8. ImageInv'
  <2>1. ShownThere'
    <3> SUFFICES ASSUME NEW b \in Articles, NEW i \in shown'[b]
                 PROVE  Exists(b)' /\ owner'[i] # "unborn"
      BY DEF ShownThere
    <3>1. b # a /\ i \in shown[b] /\ i \in Images
      BY <1>1 DEF IInv, TypeOK
    <3>2. Exists(b) /\ owner[i] # "unborn"
      BY <3>1 DEF IInv, ImageInv, ShownThere
    <3> QED
      BY <3>1, <3>2, <1>1, <1>3, ReadersAssumption DEF Exists
  <2>2. ShownIsOwned'
    <3> SUFFICES ASSUME NEW b \in Articles, NEW i \in shown'[b], owner'[i] = NULL,
                        ~(faults' > 0), i \notin bereaved'
                 PROVE  \E r \in Requests : Adopting(r, b, i)'
      BY DEF ShownIsOwned
    <3>1. i \in shown[b] /\ i \in Images /\ owner[i] = NULL /\ i \notin bereaved
      BY <1>1 DEF IInv, TypeOK
    <3>2. \E r \in Requests : Adopting(r, b, i)
      BY <3>1, <1>2 DEF IInv, ImageInv, ShownIsOwned
    <3> QED
      BY <3>2, <1>2 DEF Adopting, At
  <2> QED
    BY <2>1, <2>2 DEF ImageInv
<1> QED
  BY <1>4, <1>5, <1>6, <1>7, <1>8 DEF IInv

LEMMA UploadStep ==
  ASSUME IInv, Upload
  PROVE  IInv'
<1>1. PICK i \in Images, a \in {b \in Articles : Exists(b)} \cup {NULL} :
         owner[i] = "unborn" /\ owner' = [owner EXCEPT ![i] = a]
  BY DEF Upload
<1>2. UNCHANGED <<now, article, shown, readers, req, unhelpful, history, faults>>
  BY DEF Upload
<1>3. TypeOK'
  BY <1>1, <1>2 DEF IInv, TypeOK, readers, history, Instants
<1>4. \A r \in Requests : Arguments(req[r])'
  BY <1>2 DEF IInv, Arguments
<1>5. ViewInv' /\ SweepInv'
  BY <1>2, ViewsKept, SweepKept DEF readers, history
<1>6. ImageInv'
  <2>1. \A b \in Articles : \A k \in shown[b] : k \in Images /\ k # i
    BY <1>1 DEF IInv, TypeOK, ImageInv, ShownThere
  <2>2. \A b \in Articles : \A k \in shown[b] : owner'[k] = owner[k]
    BY <2>1, <1>1 DEF IInv, TypeOK
  <2> QED
    BY <2>2, <1>2 DEF IInv, ImageInv, ShownThere, ShownIsOwned, Exists, Adopting, At, history
<1> QED
  BY <1>3, <1>4, <1>5, <1>6 DEF IInv

LEMMA CrashStep ==
  ASSUME IInv, Crash
  PROVE  IInv'
<1>1. /\ UNCHANGED <<now, article, readers, images, unhelpful, history>>
      /\ faults' \in 0..MaxFaults /\ faults' \in Nat /\ faults' > 0 /\ faults' >= faults
  BY Numbers DEF Crash, IInv, TypeOK
<1>2. \A r \in Requests :
         /\ \/ req'[r] = req[r] /\ req[r].pc \in {"new", "done"}
            \/ req'[r] = Over(r, "fault")
         /\ Over(r, "fault") \in RequestStates /\ Over(r, "fault").pc = "fault"
  BY OverType DEF Crash, IInv
<1>3. TypeOK'
  <2>1. req' \in [Requests -> RequestStates]
    BY <1>2 DEF Crash, IInv, TypeOK
  <2> QED
    BY <2>1, <1>1 DEF IInv, TypeOK, readers, images, history, Instants
<1>4. \A r \in Requests : Arguments(req[r])'
  BY <1>2 DEF IInv, Arguments
<1>5. \A r \in Requests : req'[r] = req[r] \/ req'[r].pc = "fault"
  BY <1>2
<1>6. ViewInv'
  BY <1>1, <1>2, ViewsKept DEF readers
<1>7. SweepInv'
  BY <1>1, <1>5, SweepKept DEF readers, history
<1>8. ImageInv'
  BY <1>1, ImagesKept DEF history, Exists
<1> QED
  BY <1>3, <1>4, <1>6, <1>7, <1>8 DEF IInv

LEMMA TickStep ==
  ASSUME IInv, Tick
  PROVE  IInv'
<1>1. /\ UNCHANGED <<article, readers, images, req, unhelpful, bereaved, faults>>
      /\ Follow(article, votes, now', {}) /\ now' \in Instants
  BY Numbers DEF Tick, IInv, TypeOK, Instants
<1>2. TypeOK'
  <2>1. touched' \in [Requests -> SUBSET Articles] /\ steady' \in [Requests -> SUBSET Articles]
    BY <1>1 DEF Follow, IInv, TypeOK
  <2> QED
    BY <2>1, <1>1 DEF IInv, TypeOK, readers, images
<1>3. \A r \in Requests : Arguments(req[r])'
  BY <1>1 DEF IInv, Arguments
<1>4. ViewInv'
  BY <1>1, ViewsKept DEF readers
<1>5. SweepInv'
  <2>1. Follow(article', votes', now', {})
    BY <1>1 DEF readers
  <2> QED
    BY <2>1, <1>1, SweepFollowed
<1>6. ImageInv'
  <2>1. faults' \in Nat /\ faults' >= faults
    BY <1>1, Numbers DEF IInv, TypeOK
  <2> QED
    BY <2>1, <1>1, ImagesKept DEF Exists
<1> QED
  BY <1>2, <1>3, <1>4, <1>5, <1>6 DEF IInv

LEMMA Appended ==
  ASSUME NEW S, NEW t \in Seq(S), NEW e \in S, NEW u, u = Append(t, e)
  PROVE  /\ u \in Seq(S) /\ Len(t) \in Nat /\ DOMAIN t = 1..Len(t)
         /\ Len(u) = Len(t) + 1 /\ DOMAIN u = 1..(Len(t) + 1)
         /\ u[Len(t) + 1] = e /\ \A i \in 1..Len(t) : u[i] = t[i]
OBVIOUS

\* The view it stores has seen all that a later one may be too close to.
LEMMA ViewEndsStep ==
  ASSUME IInv, NEW r \in Requests, ViewEnds(r)
  PROVE  IInv'
<1> DEFINE q == req[r]
           a == req[r].article
           c == req[r].customer
           v == [at |-> req[r].at, seen |-> req[r].seen]
           vs == views[a][c]
<1>1. CASE ~Exists(a)
  <2>1. UNCHANGED <<now, article, readers, images, unhelpful, history, faults>>
    BY <1>1 DEF ViewEnds, readers
  <2> QED
    BY <2>1, QuietEnd DEF ViewEnds, At
<1>2. CASE Exists(a)
  <2>1. /\ q.pc = "insert" /\ a \in Articles /\ c \in Customers /\ Ends(r)
        /\ views' = [views EXCEPT ![a][c] = Append(@, v)]
        /\ UNCHANGED <<now, article, votes, images, unhelpful, history, faults>>
        /\ Len(vs) < MaxViews
    BY <1>2 DEF ViewEnds, At, IInv, Arguments
  <2>2. /\ req[r] \in RequestStates /\ v \in Views /\ v.at = req[r].at /\ v.seen = req[r].seen
        /\ vs \in Seq(Views) /\ Len(vs) \in Nat /\ DOMAIN vs = 1..Len(vs)
    <3>1. req[r] \in RequestStates
      BY DEF IInv, TypeOK
    <3>2. v \in Views /\ v.at = req[r].at /\ v.seen = req[r].seen
      BY <3>1 DEF RequestStates, Views
    <3>3. vs \in Seq(Views)
      BY <2>1 DEF IInv, TypeOK
    <3> QED
      BY <3>1, <3>2, <3>3
  <2>3. /\ views'[a][c] = Append(vs, v)
        /\ \A b \in Articles, d \in Customers :
              b # a \/ d # c => views'[b][d] = views[b][d]
        /\ views' \in [Articles -> [Customers -> Seq(Views)]]
    BY <2>1, <2>2 DEF IInv, TypeOK
  <2> HIDE DEF v, vs
  <2>4. /\ Len(views'[a][c]) = Len(vs) + 1 /\ DOMAIN views'[a][c] = 1..(Len(vs) + 1)
        /\ views'[a][c][Len(vs) + 1] = v
        /\ \A i \in 1..Len(vs) : views'[a][c][i] = vs[i]
    BY <2>2, <2>3, Appended
  <2>5. /\ req' \in [Requests -> RequestStates] /\ req'[r].pc = "done"
        /\ Arguments(req'[r]) /\ \A x \in Requests \ {r} : req'[x] = req[x]
    BY <2>1, OverType, Moves DEF IInv, Ends
  <2>6. TypeOK'
    BY <2>1, <2>3, <2>5 DEF IInv, TypeOK, images, history, Instants
  <2>7. \A x \in Requests : Arguments(req[x])'
    <3>1. \A x \in Requests : Arguments(req'[x])
      BY <2>5 DEF IInv
    <3> QED
      BY <3>1 DEF Arguments
  <2>8. OneViewADayUnlessOvertaken'
    <3> SUFFICES ASSUME NEW b \in Articles, NEW d \in Customers,
                        NEW i \in DOMAIN views'[b][d], NEW j \in DOMAIN views'[b][d],
                        i < j, views'[b][d][j].at - views'[b][d][i].at < Day
                 PROVE  views'[b][d][j].seen < i
      BY DEF OneViewADayUnlessOvertaken
    <3>1. CASE b # a \/ d # c
      BY <3>1, <2>3 DEF IInv, ViewInv, OneViewADayUnlessOvertaken
    <3>2. CASE b = a /\ d = c /\ j = Len(vs) + 1
      <4>1. \A k \in DOMAIN vs : req[r].at - vs[k].at < Day => req[r].seen < k
        BY <2>1 DEF IInv, ViewInv, ViewOf, vs
      <4>2. i \in 1..(Len(vs) + 1)
        BY <3>2, <2>4
      <4>3. i \in DOMAIN vs /\ views'[a][c][i] = vs[i]
        BY <4>2, <3>2, <2>2, <2>4
      <4> QED
        BY <4>1, <4>3, <3>2, <2>2, <2>4
    <3>3. CASE b = a /\ d = c /\ j # Len(vs) + 1
      <4>1. /\ i \in DOMAIN vs /\ j \in DOMAIN vs
            /\ views'[a][c][i] = vs[i] /\ views'[a][c][j] = vs[j]
        <5>1. i \in 1..(Len(vs) + 1) /\ j \in 1..(Len(vs) + 1)
          BY <3>3, <2>4
        <5> QED
          BY <5>1, <3>3, <2>2, <2>4
      <4>2. \A k, l \in DOMAIN vs : k < l /\ vs[l].at - vs[k].at < Day => vs[l].seen < k
        BY <2>1 DEF IInv, ViewInv, OneViewADayUnlessOvertaken, vs
      <4> QED
        BY <4>1, <4>2, <3>3
    <3> QED
      BY <3>1, <3>2, <3>3
  <2>9. ASSUME NEW x \in Requests PROVE ViewOf(req[x])'
    <3> SUFFICES ASSUME req'[x].pc = "insert" PROVE ViewOf(req[x])'
      BY DEF ViewOf
    <3>1. /\ x # r /\ req'[x] = req[x] /\ req[x].pc = "insert" /\ ViewOf(req[x])
          /\ req[x].article \in Articles /\ req[x].customer \in Customers /\ req[x].seen \in Nat
      <4>1. x # r /\ req'[x] = req[x]
        BY <2>5
      <4>2. Arguments(req[x]) /\ ViewOf(req[x]) /\ req[x] \in RequestStates
        BY DEF IInv, ViewInv, TypeOK
      <4> QED
        BY <4>1, <4>2 DEF Arguments, RequestStates
    <3>2. CASE req[x].article # a \/ req[x].customer # c
      <4>1. views'[req[x].article][req[x].customer] = views[req[x].article][req[x].customer]
        BY <3>1, <3>2, <2>3
      <4>2. article' = article
        BY <2>1
      <4> QED
        BY <3>1, <4>1, <4>2 DEF ViewOf
    <3>3. CASE req[x].article = a /\ req[x].customer = c
      <4>1. req[x].seen <= Len(vs)
        BY <1>2, <3>1, <3>3 DEF ViewOf, Exists, vs
      <4>2. \A i \in 1..(Len(vs) + 1) : req[x].at - views'[a][c][i].at < Day => req[x].seen < i
        <5> SUFFICES ASSUME NEW i \in 1..(Len(vs) + 1), req[x].at - views'[a][c][i].at < Day
                     PROVE  req[x].seen < i
          OBVIOUS
        <5>1. CASE i = Len(vs) + 1
          BY <5>1, <4>1, <3>1, <2>2
        <5>2. CASE i # Len(vs) + 1
          <6>1. i \in DOMAIN vs /\ views'[a][c][i] = vs[i]
            BY <5>2, <2>2, <2>4
          <6> QED
            BY <6>1, <5>2, <3>1, <3>3 DEF ViewOf, vs
        <5> QED
          BY <5>1, <5>2
      <4>3. req[x].seen <= Len(views'[a][c])
        BY <4>1, <3>1, <2>2, <2>4
      <4> QED
        BY <4>2, <4>3, <3>1, <3>3, <2>4 DEF ViewOf
    <3> QED
      BY <3>2, <3>3
  <2>10. SweepInv'
    <3>1. \A x \in Requests : \/ req'[x] = req[x]
                              \/ /\ req[x].pc \notin {"sweep", "announce", "done", "fault"}
                                 /\ req'[x].pc \notin {"sweep", "announce"}
      BY <2>1, <2>5
    <3> QED
      BY <3>1, <2>1, SweepKept DEF history
  <2>11. ImageInv'
    <3>1. faults' \in Nat /\ faults' >= faults
      BY <2>1, Numbers DEF IInv, TypeOK
    <3>2. \A x \in Requests : req[x].pc \in {"reload", "adopt"} => req'[x] = req[x]
      BY <2>1, <2>5
    <3> QED
      BY <2>1, <3>1, <3>2, ImagesKept DEF history, Exists
  <2> QED
    BY <2>6, <2>7, <2>8, <2>9, <2>10, <2>11 DEF IInv, ViewInv
<1> QED
  BY <1>1, <1>2

LEMMA UpsertStep ==
  ASSUME IInv, NEW r \in Requests, Upsert(r)
  PROVE  IInv'
<1> DEFINE q == req[r]
<1>1. /\ q.pc = "vote" /\ q.article \in Articles /\ q.customer \in Customers
      /\ q.vote \in {"up", "down"} /\ Ends(r) /\ Follow(article, votes', now, {})
      /\ UNCHANGED <<now, article, views, images, unhelpful, bereaved, faults>>
  BY DEF Upsert, At, IInv, Arguments
<1>2. votes' \in [Articles -> [Customers -> Votes \cup {NULL}]]
  <2>1. [vote |-> q.vote, at |-> now] \in Votes
    BY <1>1 DEF Votes, IInv, TypeOK
  <2>2. \/ votes' = votes
        \/ votes' = [votes EXCEPT ![q.article][q.customer] = [vote |-> q.vote, at |-> now]]
    BY DEF Upsert
  <2>3. [votes[q.article] EXCEPT ![q.customer] = [vote |-> q.vote, at |-> now]]
          \in [Customers -> Votes \cup {NULL}]
    BY <1>1, <2>1 DEF IInv, TypeOK
  <2>4. votes \in [Articles -> [Customers -> Votes \cup {NULL}]]
    BY DEF IInv, TypeOK
  <2> QED
    BY <1>1, <2>2, <2>3, <2>4
<1>3. /\ req' \in [Requests -> RequestStates] /\ req'[r].pc = "done"
      /\ Arguments(req'[r]) /\ \A x \in Requests \ {r} : req'[x] = req[x]
  BY <1>1, OverType, Moves DEF IInv, Ends
<1>4. TypeOK'
  <2>1. touched' \in [Requests -> SUBSET Articles] /\ steady' \in [Requests -> SUBSET Articles]
    BY <1>1 DEF Follow, IInv, TypeOK
  <2> QED
    BY <2>1, <1>1, <1>2, <1>3 DEF IInv, TypeOK, images, Instants
<1>5. \A x \in Requests : Arguments(req[x])'
  <2>1. \A x \in Requests : Arguments(req'[x])
    BY <1>3 DEF IInv
  <2> QED
    BY <2>1 DEF Arguments
<1>6. ViewInv'
  BY <1>1, <1>3, ViewsKept
<1>7. SweepInv'
  <2>1. Follow(article', votes', now', {})
    BY <1>1
  <2>2. ~Sweeping(r)
    BY <1>1 DEF Sweeping, At
  <2> QED
    BY <2>1, <2>2, <1>1, <1>3, SweepFollowed
<1>8. ImageInv'
  <2>1. faults' \in Nat /\ faults' >= faults
    BY <1>1, Numbers DEF IInv, TypeOK
  <2>2. \A x \in Requests : req[x].pc \in {"reload", "adopt"} => req'[x] = req[x]
    BY <1>1, <1>3
  <2> QED
    BY <2>1, <2>2, <1>1, ImagesKept DEF Exists
<1> QED
  BY <1>4, <1>5, <1>6, <1>7, <1>8 DEF IInv

\* A step of the sweep by run r, from one of its steps to another or to the end.
LEMMA Swept ==
  ASSUME IInv, NEW r \in Requests, NEW q \in RequestStates, Becomes(r, q), Arguments(q),
         req[r].pc \in {"list", "sweep", "announce"}, q.pc \in {"sweep", "announce", "done"},
         UNCHANGED <<now, article, readers, images, bereaved>>,
         faults' \in 0..MaxFaults, faults' >= faults,
         touched' \in [Requests -> SUBSET Articles], steady' \in [Requests -> SUBSET Articles],
         \A x \in Requests \ {r} : touched'[x] = touched[x] /\ steady'[x] = steady[x],
         unhelpful \subseteq unhelpful', unhelpful' \subseteq Requests \X Articles,
         q.pc \in {"sweep", "announce"} =>
            /\ \A a \in q.todo : article[a] = "published" \/ a \in touched'[r]
            /\ \A a \in steady'[r] : /\ article[a] = "published" /\ Low(votes[a], now)
                                     /\ a \in q.todo \/ <<r, a>> \in unhelpful',
         q.pc = "done" => \A a \in steady'[r] : <<r, a>> \in unhelpful'
  PROVE  IInv'
<1>1. /\ req' \in [Requests -> RequestStates]
      /\ req'[r] = q /\ \A x \in Requests \ {r} : req'[x] = req[x]
  BY Moves DEF IInv
<1>2. TypeOK'
  BY <1>1 DEF IInv, TypeOK, readers, images, Instants
<1>3. \A x \in Requests : Arguments(req[x])'
  BY MovesArguments
<1>4. ViewInv'
  BY <1>1, ViewsKept DEF readers
<1>5. SweepInv'
  <2> SUFFICES ASSUME NEW x \in Requests PROVE SweepOf(x)'
    BY DEF SweepInv
  <2>1. CASE x = r
    BY <2>1, <1>1 DEF SweepOf, Sweeping, At, readers
  <2>2. CASE x # r
    <3>1. SweepOf(x) /\ req'[x] = req[x] /\ touched'[x] = touched[x] /\ steady'[x] = steady[x]
      BY <2>2, <1>1 DEF IInv, SweepInv
    <3> QED
      BY <3>1 DEF SweepOf, Sweeping, At, readers
  <2> QED
    BY <2>1, <2>2
<1>6. ImageInv'
  <2>1. faults' \in Nat
    BY Numbers
  <2>2. \A x \in Requests : req[x].pc \in {"reload", "adopt"} => req'[x] = req[x]
    BY <1>1
  <2> QED
    BY <2>1, <2>2, ImagesKept DEF Exists
<1> QED
  BY <1>2, <1>3, <1>4, <1>5, <1>6 DEF IInv

LEMMA ListStep ==
  ASSUME IInv, NEW r \in Requests, List(r)
  PROVE  IInv'
<1> DEFINE S == {a \in Articles : article[a] = "published"}
<1>1. /\ req[r].pc = "list"
      /\ IF S = {} THEN Ends(r) ELSE Becomes(r, [req[r] EXCEPT !.pc = "sweep", !.todo = S])
      /\ steady' = [steady EXCEPT ![r] =
                      {a \in S : article[a] = "published" /\ Low(votes[a], now)}]
      /\ touched' = [touched EXCEPT ![r] = {}]
      /\ UNCHANGED <<now, article, readers, images, unhelpful, bereaved, faults>>
  BY DEF List, Lists, At
<1>2. /\ faults' \in 0..MaxFaults /\ faults' >= faults
      /\ unhelpful \subseteq unhelpful' /\ unhelpful' \subseteq Requests \X Articles
  BY <1>1, Numbers DEF IInv, TypeOK
<1>3. /\ touched' \in [Requests -> SUBSET Articles] /\ steady' \in [Requests -> SUBSET Articles]
      /\ \A x \in Requests \ {r} : touched'[x] = touched[x] /\ steady'[x] = steady[x]
      /\ steady'[r] = {a \in S : Low(votes[a], now)}
  BY <1>1 DEF IInv, TypeOK
<1>4. CASE S = {}
  <2>1. Over(r, "done") \in RequestStates /\ Over(r, "done").pc = "done"
        /\ Arguments(Over(r, "done"))
    BY OverType DEF IInv
  <2>2. steady'[r] = {}
    BY <1>3, <1>4
  <2> QED
    BY <1>1, <1>2, <1>3, <1>4, <2>1, <2>2, Swept DEF Ends
<1>5. CASE S # {}
  <2> DEFINE q == [req[r] EXCEPT !.pc = "sweep", !.todo = S]
  <2>1. req[r] \in RequestStates
    BY DEF IInv, TypeOK
  <2>2. q \in RequestStates /\ q.pc = "sweep" /\ q.todo = S
    BY <2>1 DEF RequestStates
  <2>3. Becomes(r, q)
    BY <1>1, <1>5
  <2>4. Arguments(q)
    BY <2>2 DEF Arguments
  <2>5. /\ \A a \in q.todo : article[a] = "published"
        /\ \A a \in steady'[r] : article[a] = "published" /\ Low(votes[a], now) /\ a \in q.todo
    BY <1>3, <2>2
  <2> HIDE DEF q
  <2> QED
    BY <1>1, <1>2, <1>3, <2>2, <2>3, <2>4, <2>5, Swept
<1> QED
  BY <1>4, <1>5

\* The run leaves article a, which it has announced or need not announce.
LEMMA Passed ==
  ASSUME IInv, NEW r \in Requests, NEW a \in req[r].todo, Sweeping(r), Past(r, a),
         UNCHANGED <<now, article, readers, images, touched, bereaved>>,
         faults' \in 0..MaxFaults, faults' >= faults,
         steady' \in [Requests -> SUBSET Articles],
         \A x \in Requests \ {r} : steady'[x] = steady[x],
         steady'[r] \subseteq steady[r],
         unhelpful \subseteq unhelpful', unhelpful' \subseteq Requests \X Articles,
         a \in steady'[r] => <<r, a>> \in unhelpful'
  PROVE  IInv'
<1> DEFINE rest == req[r].todo \ {a}
<1>1. /\ SweepOf(r) /\ req[r] \in RequestStates /\ rest \in SUBSET Articles
      /\ req[r].pc \in {"list", "sweep", "announce"}
  BY DEF IInv, SweepInv, TypeOK, RequestStates, Sweeping, At
<1>2. \A b \in steady'[r] : b \in rest \/ <<r, b>> \in unhelpful'
  BY <1>1 DEF SweepOf
<1>3. touched' \in [Requests -> SUBSET Articles]
  BY DEF IInv, TypeOK
<1>4. CASE rest = {}
  <2>1. Over(r, "done") \in RequestStates /\ Over(r, "done").pc = "done"
        /\ Arguments(Over(r, "done"))
    BY OverType DEF IInv
  <2>2. Becomes(r, Over(r, "done"))
    BY <1>4 DEF Past, Ends
  <2> QED
    BY <1>1, <1>2, <1>3, <1>4, <2>1, <2>2, Swept
<1>5. CASE rest # {}
  <2> DEFINE q == [req[r] EXCEPT !.pc = "sweep", !.article = NULL, !.todo = rest]
  <2>1. q \in RequestStates /\ q.pc = "sweep" /\ q.todo = rest
    BY <1>1 DEF RequestStates
  <2>2. Becomes(r, q)
    BY <1>5 DEF Past
  <2>3. Arguments(q)
    BY <2>1 DEF Arguments
  <2> HIDE DEF q
  <2>4. /\ \A b \in q.todo : article[b] = "published" \/ b \in touched'[r]
        /\ \A b \in steady'[r] : /\ article[b] = "published" /\ Low(votes[b], now)
                                 /\ b \in q.todo \/ <<r, b>> \in unhelpful'
    BY <1>1, <1>2, <2>1 DEF SweepOf
  <2> QED
    BY <1>1, <1>3, <2>1, <2>2, <2>3, <2>4, Swept
<1> QED
  BY <1>4, <1>5

LEMMA ReadWindowStep ==
  ASSUME IInv, NEW r \in Requests, ReadWindow(r)
  PROVE  IInv'
<1>1. PICK a \in req[r].todo :
         IF Low(votes[a], now)
         THEN Becomes(r, [req[r] EXCEPT !.pc = "announce", !.article = a])
         ELSE Past(r, a)
  BY DEF ReadWindow
<1>2. /\ req[r].pc = "sweep" /\ Sweeping(r) /\ SweepOf(r) /\ req[r] \in RequestStates
      /\ UNCHANGED <<now, article, readers, images, unhelpful, history, faults>>
  BY DEF ReadWindow, At, Sweeping, IInv, SweepInv, TypeOK
<1>3. /\ faults' \in 0..MaxFaults /\ faults' >= faults
      /\ unhelpful \subseteq unhelpful' /\ unhelpful' \subseteq Requests \X Articles
      /\ touched' \in [Requests -> SUBSET Articles] /\ steady' \in [Requests -> SUBSET Articles]
      /\ a \in Articles
  BY <1>2, Numbers DEF IInv, TypeOK, history, RequestStates
<1>4. CASE Low(votes[a], now)
  <2> DEFINE q == [req[r] EXCEPT !.pc = "announce", !.article = a]
  <2>1. q \in RequestStates /\ q.pc = "announce" /\ q.todo = req[r].todo /\ q.article = a
    BY <1>2, <1>3 DEF RequestStates
  <2>2. Becomes(r, q)
    BY <1>1, <1>4
  <2>3. Arguments(q)
    BY <2>1 DEF Arguments
  <2> HIDE DEF q
  <2>4. /\ \A b \in q.todo : article[b] = "published" \/ b \in touched'[r]
        /\ \A b \in steady'[r] : /\ article[b] = "published" /\ Low(votes[b], now)
                                 /\ b \in q.todo \/ <<r, b>> \in unhelpful'
    BY <1>2, <2>1 DEF SweepOf, history
  <2> QED
    BY <1>2, <1>3, <2>1, <2>2, <2>3, <2>4, Swept DEF history
<1>5. CASE ~Low(votes[a], now)
  <2>1. a \notin steady[r]
    BY <1>2, <1>5 DEF SweepOf
  <2> QED
    BY <1>1, <1>2, <1>3, <1>5, <2>1, Passed DEF history
<1> QED
  BY <1>4, <1>5

LEMMA AnnounceStep ==
  ASSUME IInv, NEW r \in Requests, Announce(r)
  PROVE  IInv'
<1> DEFINE a == req[r].article
<1>1. /\ req[r].pc = "announce" /\ Sweeping(r) /\ SweepOf(r) /\ a \in req[r].todo /\ Past(r, a)
      /\ unhelpful' = IF Exists(a) THEN unhelpful \cup {<<r, a>>} ELSE unhelpful
      /\ UNCHANGED <<now, article, readers, images, history, faults>>
  BY DEF Announce, At, Sweeping, IInv, SweepInv, Arguments
<1>2. /\ faults' \in 0..MaxFaults /\ faults' >= faults /\ a \in Articles
      /\ steady' \in [Requests -> SUBSET Articles] /\ steady' = steady /\ touched' = touched
      /\ bereaved' = bereaved
  BY <1>1, Numbers DEF IInv, TypeOK, history, RequestStates
<1>3. unhelpful \subseteq unhelpful' /\ unhelpful' \subseteq Requests \X Articles
  BY <1>1, <1>2 DEF IInv, TypeOK
<1>4. a \in steady'[r] => <<r, a>> \in unhelpful'
  BY <1>1, <1>2 DEF SweepOf, Exists
<1> QED
  BY <1>1, <1>2, <1>3, <1>4, Passed

LEMMA SkipOneStep ==
  ASSUME IInv, NEW r \in Requests, SkipOne(r)
  PROVE  IInv'
<1>1. PICK a \in req[r].todo :
         /\ At(r, "sweep") \/ (At(r, "announce") /\ req[r].article = a)
         /\ Past(r, a)
         /\ steady' = [steady EXCEPT ![r] = @ \ {a}]
  BY DEF SkipOne
<1>2. /\ UNCHANGED <<now, article, readers, images, unhelpful, touched, bereaved>>
      /\ faults' \in 0..MaxFaults /\ faults' >= faults /\ Sweeping(r)
  BY <1>1, Numbers DEF SkipOne, IInv, TypeOK, Sweeping
<1>3. /\ steady' \in [Requests -> SUBSET Articles] /\ steady'[r] = steady[r] \ {a}
      /\ \A x \in Requests \ {r} : steady'[x] = steady[x]
      /\ unhelpful' \subseteq Requests \X Articles
  BY <1>1, <1>2 DEF IInv, TypeOK
<1> QED
  BY <1>1, <1>2, <1>3, Passed

LEMMA SaveStep ==
  ASSUME IInv, NEW r \in Requests, Save(r)
  PROVE  IInv'
<1>1. PICK a \in Articles, status \in {"draft", "published"},
           S \in SUBSET {i \in Images : owner[i] # "unborn"} :
         /\ article[a] # "deleted"
         /\ article' = [article EXCEPT ![a] = status]
         /\ shown' = [shown EXCEPT ![a] = S]
         /\ Becomes(r, [NewRequest EXCEPT !.pc = "reload", !.kind = "save", !.article = a])
         /\ Follow(article', votes, now, {a})
  BY DEF Save
<1>2. /\ req[r].pc = "new"
      /\ UNCHANGED <<now, readers, owner, unhelpful, bereaved, faults>>
  BY DEF Save, At
<1> DEFINE q == [NewRequest EXCEPT !.pc = "reload", !.kind = "save", !.article = a]
<1>3. q \in RequestStates /\ q.pc = "reload" /\ q.article = a /\ Becomes(r, q)
  BY <1>1, NewRequestType DEF NewRequest, RequestStates
<1> HIDE DEF q
<1>4. /\ req' \in [Requests -> RequestStates]
      /\ req'[r] = q /\ \A x \in Requests \ {r} : req'[x] = req[x]
  BY <1>3, Moves DEF IInv
<1>5. /\ article' \in [Articles -> Statuses] /\ article'[a] \in {"draft", "published"}
      /\ \A b \in Articles \ {a} : article'[b] = article[b]
      /\ shown' \in [Articles -> SUBSET Images] /\ shown'[a] = S
      /\ \A b \in Articles \ {a} : shown'[b] = shown[b]
  BY <1>1 DEF IInv, TypeOK, Statuses
<1>6. TypeOK'
  <2>1. touched' \in [Requests -> SUBSET Articles] /\ steady' \in [Requests -> SUBSET Articles]
    BY <1>1 DEF Follow, IInv, TypeOK
  <2> QED
    BY <2>1, <1>2, <1>4, <1>5 DEF IInv, TypeOK, readers, Instants
<1>7. \A x \in Requests : Arguments(req[x])'
  BY <1>3, MovesArguments DEF Arguments
<1>8. ViewInv'
  BY <1>1, <1>2, <1>3, <1>4, <1>5, ViewsKept DEF readers
<1>9. SweepInv'
  <2>1. Follow(article', votes', now', {a})
    BY <1>1, <1>2 DEF readers
  <2>2. ~Sweeping(r)
    BY <1>2 DEF Sweeping, At
  <2> QED
    BY <2>1, <2>2, <1>2, <1>3, <1>4, <1>5, SweepFollowed
<1>10. ShownThere'
  <2> SUFFICES ASSUME NEW b \in Articles, NEW i \in shown'[b]
               PROVE  Exists(b)' /\ owner'[i] # "unborn"
    BY DEF ShownThere
  <2>1. CASE b = a
    BY <2>1, <1>2, <1>5 DEF Exists
  <2>2. CASE b # a
    BY <2>2, <1>2, <1>5 DEF IInv, ImageInv, ShownThere, Exists
  <2> QED
    BY <2>1, <2>2
<1>11. ShownIsOwned'
  <2> SUFFICES ASSUME NEW b \in Articles, NEW i \in shown'[b], owner'[i] = NULL, ~(faults' > 0),
                      i \notin bereaved'
               PROVE  \E x \in Requests : Adopting(x, b, i)'
    BY DEF ShownIsOwned
  <2>1. CASE b = a
    <3>1. Adopting(r, b, i)'
      BY <2>1, <1>3, <1>4 DEF Adopting, At
    <3> QED
      BY <3>1
  <2>2. CASE b # a
    <3>1. PICK x \in Requests : Adopting(x, b, i)
      BY <2>2, <1>2, <1>5 DEF IInv, ImageInv, ShownIsOwned
    <3>2. x # r
      BY <3>1, <1>2 DEF Adopting, At
    <3> QED
      BY <3>1, <3>2, <1>4 DEF Adopting, At
  <2> QED
    BY <2>1, <2>2
<1> QED
  BY <1>6, <1>7, <1>8, <1>9, <1>10, <1>11 DEF IInv, ImageInv

\* A save goes from its reload to q, and need only see to the images.
LEMMA SaveGoesOn ==
  ASSUME IInv, NEW r \in Requests, NEW q \in RequestStates, Becomes(r, q), Arguments(q),
         req[r].pc \in {"reload", "adopt"}, q.pc \in {"adopt", "done"},
         UNCHANGED <<now, article, shown, readers, unhelpful, history, faults>>,
         owner' \in [Images -> Articles \cup {NULL, "unborn"}], ImageInv'
  PROVE  IInv'
<1>1. /\ req' \in [Requests -> RequestStates]
      /\ req'[r] = q /\ \A x \in Requests \ {r} : req'[x] = req[x]
  BY Moves DEF IInv
<1>2. TypeOK'
  BY <1>1 DEF IInv, TypeOK, readers, history, Instants
<1>3. \A x \in Requests : Arguments(req[x])'
  BY MovesArguments
<1>4. ViewInv'
  BY <1>1, ViewsKept DEF readers
<1>5. SweepInv'
  BY <1>1, SweepKept DEF readers, history
<1> QED
  BY <1>2, <1>3, <1>4, <1>5 DEF IInv

LEMMA ReloadStep ==
  ASSUME IInv, NEW r \in Requests, Reload(r)
  PROVE  IInv'
<1> DEFINE a == req[r].article
           S == shown[a]
<1>1. /\ req[r].pc = "reload" /\ a \in Articles /\ req[r] \in RequestStates
      /\ IF S = {} THEN Ends(r) ELSE Becomes(r, [req[r] EXCEPT !.pc = "adopt", !.images = S])
      /\ UNCHANGED <<now, article, readers, images, unhelpful, history, faults>>
  BY DEF Reload, At, IInv, Arguments, TypeOK
<1>2. PICK q \in RequestStates :
         /\ Becomes(r, q) /\ Arguments(q)
         /\ \/ q.pc = "done" /\ S = {}
            \/ q.pc = "adopt" /\ q.article = a /\ q.images = S
  <2>1. CASE S = {}
    BY <1>1, <2>1, OverType DEF IInv, Ends
  <2>2. CASE S # {}
    <3> DEFINE q == [req[r] EXCEPT !.pc = "adopt", !.images = S]
    <3>1. S \in SUBSET Images
      BY <1>1 DEF IInv, TypeOK
    <3>2. q \in RequestStates /\ q.pc = "adopt" /\ q.article = a /\ q.images = S
      BY <1>1, <3>1 DEF RequestStates
    <3>3. Arguments(q)
      BY <1>1, <3>2 DEF Arguments
    <3> QED
      BY <1>1, <2>2, <3>2, <3>3
  <2> QED
    BY <2>1, <2>2
<1>3. req'[r] = q /\ \A x \in Requests \ {r} : req'[x] = req[x]
  BY <1>2, Moves DEF IInv
<1>4. ShownThere'
  BY <1>1 DEF IInv, ImageInv, ShownThere, Exists, images
<1>5. ShownIsOwned'
  <2> SUFFICES ASSUME NEW b \in Articles, NEW i \in shown[b], owner[i] = NULL, ~(faults > 0),
                      i \notin bereaved
               PROVE  \E x \in Requests : Adopting(x, b, i)'
    BY <1>1 DEF ShownIsOwned, images, history
  <2>1. PICK x \in Requests : Adopting(x, b, i)
    BY DEF IInv, ImageInv, ShownIsOwned
  <2>2. CASE x = r
    <3>1. b = a
      BY <2>1, <2>2 DEF Adopting
    <3> QED
      BY <3>1, <1>2, <1>3 DEF Adopting, At
  <2>3. CASE x # r
    BY <2>1, <2>3, <1>3 DEF Adopting, At
  <2> QED
    BY <2>2, <2>3
<1>6. owner' \in [Images -> Articles \cup {NULL, "unborn"}]
  BY <1>1 DEF IInv, TypeOK, images
<1> QED
  BY <1>1, <1>2, <1>4, <1>5, <1>6, SaveGoesOn DEF ImageInv, images

LEMMA AdoptStep ==
  ASSUME IInv, NEW r \in Requests, Adopt(r)
  PROVE  IInv'
<1> DEFINE a == req[r].article
<1>1. /\ req[r].pc = "adopt" /\ a \in Articles /\ Ends(r)
      /\ owner' = [i \in Images |->
           IF i \in req[r].images /\ owner[i] = NULL /\ Exists(a) THEN a ELSE owner[i]]
      /\ UNCHANGED <<now, article, shown, readers, unhelpful, history, faults>>
  BY DEF Adopt, At, IInv, Arguments
<1>2. /\ Over(r, "done") \in RequestStates /\ Over(r, "done").pc = "done"
      /\ Arguments(Over(r, "done")) /\ Becomes(r, Over(r, "done"))
  BY <1>1, OverType DEF IInv, Ends
<1>3. \A x \in Requests \ {r} : req'[x] = req[x]
  BY <1>2, Moves DEF IInv
<1>4. owner' \in [Images -> Articles \cup {NULL, "unborn"}]
  BY <1>1 DEF IInv, TypeOK
<1>5. \A b \in Articles : \A i \in shown[b] : i \in Images /\ Exists(b) /\ owner[i] # "unborn"
  BY DEF IInv, TypeOK, ImageInv, ShownThere
<1>6. ShownThere'
  BY <1>1, <1>5, ReadersAssumption DEF ShownThere, Exists
<1>7. ShownIsOwned'
  <2> SUFFICES ASSUME NEW b \in Articles, NEW i \in shown[b], owner'[i] = NULL, ~(faults > 0),
                      i \notin bereaved
               PROVE  \E x \in Requests : Adopting(x, b, i)'
    BY <1>1 DEF ShownIsOwned, history
  <2>1. owner[i] = NULL
    BY <1>1, <1>5, ReadersAssumption
  <2>2. PICK x \in Requests : Adopting(x, b, i)
    BY <2>1 DEF IInv, ImageInv, ShownIsOwned
  <2>3. x # r
    <3> SUFFICES ASSUME x = r PROVE FALSE
      OBVIOUS
    <3>1. b = a /\ i \in req[r].images
      BY <2>2, <1>1 DEF Adopting, At
    <3> QED
      BY <3>1, <2>1, <1>1, <1>5, ReadersAssumption
  <2> QED
    BY <2>2, <2>3, <1>3 DEF Adopting, At
<1> QED
  BY <1>1, <1>2, <1>4, <1>6, <1>7, SaveGoesOn DEF ImageInv

-----------------------------------------------------------------------------
(* Results                                                                 *)

LEMMA StutterStep == IInv /\ UNCHANGED vars => IInv'
<1> SUFFICES ASSUME IInv, UNCHANGED vars PROVE IInv'
  OBVIOUS
<1>1. TypeOK' /\ \A r \in Requests : Arguments(req[r])'
  BY DEF IInv, TypeOK, Arguments, vars, readers, images, history, Instants
<1>2. ViewInv' /\ SweepInv'
  BY ViewsKept, SweepKept DEF vars, readers, history
<1>3. ImageInv'
  BY DEF IInv, ImageInv, ShownThere, ShownIsOwned, Exists, Adopting, At, vars, images, history
<1> QED
  BY <1>1, <1>2, <1>3 DEF IInv

LEMMA NextIInv == IInv /\ [Next]_vars => IInv'
<1> SUFFICES ASSUME IInv, [Next]_vars PROVE IInv'
  OBVIOUS
<1>1. CASE SetStatus
  BY <1>1, SetStatusStep
<1>2. CASE Delete
  BY <1>2, DeleteStep
<1>3. CASE Upload
  BY <1>3, UploadStep
<1>4. CASE Crash
  BY <1>4, CrashStep
<1>5. CASE Tick
  BY <1>5, TickStep
<1>6. ASSUME NEW r \in Requests, Serve(r) PROVE IInv'
  <2>1. CASE Detail(r) \/ Vote(r) \/ RunCron(r)
    BY <2>1, ArriveStep
  <2>2. CASE ViewBegins(r)
    BY <2>2, ViewBeginsStep
  <2>3. CASE ViewEnds(r)
    BY <2>3, ViewEndsStep
  <2>4. CASE Upsert(r)
    BY <2>4, UpsertStep
  <2>5. CASE List(r)
    BY <2>5, ListStep
  <2>6. CASE ReadWindow(r)
    BY <2>6, ReadWindowStep
  <2>7. CASE Announce(r)
    BY <2>7, AnnounceStep
  <2>8. CASE SkipOne(r)
    BY <2>8, SkipOneStep
  <2>9. CASE Save(r)
    BY <2>9, SaveStep
  <2>10. CASE Reload(r)
    BY <2>10, ReloadStep
  <2>11. CASE Adopt(r)
    BY <2>11, AdoptStep
  <2>12. CASE Fail(r)
    BY <2>12, FailStep
  <2> QED
    BY <1>6, <2>1, <2>2, <2>3, <2>4, <2>5, <2>6, <2>7, <2>8, <2>9, <2>10, <2>11, <2>12 DEF Serve
<1> QED
  BY <1>1, <1>2, <1>3, <1>4, <1>5, <1>6, StutterStep DEF Next

\* Invariance: the inductive invariant holds in every state.
THEOREM Invariance == Spec => []IInv
<1>1. Init => IInv
  BY InitIInv
<1>2. IInv /\ [Next]_vars => IInv'
  BY NextIInv
<1> QED
  BY <1>1, <1>2, PTL DEF Spec

\* TypeCorrect: tables and requests keep their types.
THEOREM TypeCorrect == Spec => []TypeOK
<1>1. IInv => TypeOK
  BY DEF IInv
<1> QED
  BY <1>1, Invariance, PTL

\* ViewsCorrect: two views of a customer on an article are a day apart, unless
\* the second was under way before the first was there.
THEOREM ViewsCorrect == Spec => []OneViewADayUnlessOvertaken
<1>1. IInv => OneViewADayUnlessOvertaken
  BY DEF IInv, ViewInv
<1> QED
  BY <1>1, Invariance, PTL

\* SweepComplete: a run of the sweep announces all of its list that is published
\* and low throughout, however many articles there are and whatever fails.
THEOREM SweepComplete == Spec => []SweepReachesAll
<1>1. IInv => SweepReachesAll
  BY DEF IInv, SweepInv, SweepOf, SweepReachesAll
<1> QED
  BY <1>1, Invariance, PTL

\* ImagesCorrect: what an article shows is owned, once the saves are through.
THEOREM ImagesCorrect == Spec => []ShownIsOwned
<1>1. IInv => ShownIsOwned
  BY DEF IInv, ImageInv
<1> QED
  BY <1>1, Invariance, PTL

\* UnhelpfulCorrect: an article announced as unhelpful is a published one, or was
\* written since the run listed it.
THEOREM UnhelpfulCorrect == Spec => UnhelpfulIsPublished
<1> DEFINE Fits == \A r \in Requests, a \in Articles :
                      <<r, a>> \in unhelpful' \ unhelpful
                      => article[a] = "published" \/ a \in touched[r]
<1>1. IInv /\ [Next]_vars => [Fits]_vars
  <2> SUFFICES ASSUME IInv, [Next]_vars, NEW r \in Requests, NEW a \in Articles,
                      <<r, a>> \in unhelpful' \ unhelpful
               PROVE  article[a] = "published" \/ a \in touched[r]
    OBVIOUS
  <2>1. unhelpful' # unhelpful
    OBVIOUS
  <2>2. PICK s \in Requests : Announce(s)
    BY <2>1 DEF Next, Serve, vars, SetStatus, Delete, Upload, Crash, Tick, Detail, ViewBegins,
       ViewEnds, Vote, Upsert, RunCron, List, Lists, ReadWindow, SkipOne, Save, Reload, Adopt, Fail
  <2>3. r = s /\ a = req[s].article
    BY <2>2 DEF Announce
  <2>4. Sweeping(r) /\ SweepOf(r) /\ a \in req[r].todo
    BY <2>2, <2>3 DEF Announce, At, Sweeping, IInv, SweepInv, Arguments
  <2> QED
    BY <2>4 DEF SweepOf
<1> QED
  BY <1>1, Invariance, PTL DEF Spec, UnhelpfulIsPublished
=============================================================================
