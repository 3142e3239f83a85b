--------------------------- MODULE KBArticlesProofs ---------------------------
(***************************************************************************)
(* Proofs about KBArticles, for any sets of articles, requests and slugs,  *)
(* any limit of the cron and any number of faults.                         *)
(*                                                                         *)
(* The inductive invariant says of each request what its next statements   *)
(* rely on: which kinds of request reach which step, that the stamp a save *)
(* carries is one of the past, and that the cron lists only articles whose *)
(* time had come when it selected them.  With one request at a time        *)
(* SerialInv adds that what the request under way has read is what is      *)
(* there, and Budget counts the times a schedule may still fire.  The last *)
(* part says how an article gets off the list of a cron run.               *)
(***************************************************************************)
EXTENDS KBArticles, FiniteSetTheorems, TLAPS

RequestInv(q, t) ==
    /\ q.pc \in {"probe", "save"} => /\ q.kind \in {"create", "put"}
                                     /\ q.base \in Bases
                                     /\ q.kind = "put" => q.id \in Articles
    /\ q.pc = "reload" => q.kind \in {"create", "put"} /\ q.id \in Articles
    /\ q.pc = "announce" => /\ q.kind \in {"create", "put", "publish", "cron"}
                            /\ q.id \in Articles
    /\ q.pc \in {"publish", "unpublish", "delete"} => q.kind = q.pc /\ q.id \in Articles
    /\ q.pc \in {"select", "due"} => q.kind = "cron"
    /\ q.pc = "save" /\ q.status = "published" => q.stamp # NULL /\ q.stamp <= t
    /\ \A a \in Articles : q.due[a] # NULL => q.due[a] <= t

IInv ==
    /\ TypeOK
    /\ PublishedIsStamped
    /\ \A r \in Requests : RequestInv(req[r], now)

USE ArticlesAssumption

-----------------------------------------------------------------------------
(* Requests                                                                *)

\* A request that has not arrived is in a good state.
LEMMA NewRequestInv == NewRequest \in RequestStates /\ \A t : RequestInv(NewRequest, t)
<1>1. NewRequest \in RequestStates
  BY DEF NewRequest, RequestStates, Nothing, Instants, Steps, Kinds
<1>2. \A t : RequestInv(NewRequest, t)
  BY DEF NewRequest, RequestInv, Nothing
<1> QED BY <1>1, <1>2

\* A received request starts in a good state.
LEMMA ArriveInv ==
    ASSUME IInv, NEW r \in Requests, Arrive(r)
    PROVE  \E n \in RequestStates : RequestInv(n, now) /\ Becomes(r, n)
<1> USE NewRequestInv
<1>1. CASE Create(r)
  <2>1. PICK b \in Bases, s \in {"draft", "published"}, at \in Instants \cup {NULL} :
          Becomes(r, [NewRequest EXCEPT !.pc = "probe", !.kind = "create",
                                        !.base = b, !.status = s, !.publish_at = at])
    BY <1>1 DEF Create
  <2> DEFINE n == [NewRequest EXCEPT !.pc = "probe", !.kind = "create",
                                     !.base = b, !.status = s, !.publish_at = at]
  <2>2. n \in RequestStates
    BY DEF RequestStates, Steps, Kinds
  <2>3. RequestInv(n, now)
    BY DEF RequestInv, NewRequest, Nothing
  <2> QED BY <2>1, <2>2, <2>3
<1>2. CASE Put(r)
  <2>1. PICK a \in Articles, b \in Bases, from \in {"title", "slug"},
             s \in {"draft", "published"}, at \in Instants \cup {NULL} :
          Becomes(r, [NewRequest EXCEPT !.pc = "probe", !.kind = "put", !.id = a,
                                        !.base = b, !.from = from, !.status = s,
                                        !.publish_at = at])
    BY <1>2 DEF Put
  <2> DEFINE n == [NewRequest EXCEPT !.pc = "probe", !.kind = "put", !.id = a,
                                     !.base = b, !.from = from, !.status = s,
                                     !.publish_at = at]
  <2>2. n \in RequestStates
    BY DEF RequestStates, Steps, Kinds
  <2>3. RequestInv(n, now)
    BY DEF RequestInv, NewRequest, Nothing
  <2> QED BY <2>1, <2>2, <2>3
<1>3. CASE RunCron(r)
  <2> DEFINE n == [NewRequest EXCEPT !.pc = "select", !.kind = "cron"]
  <2>1. n \in RequestStates
    BY DEF RequestStates, Steps, Kinds
  <2>2. RequestInv(n, now)
    BY DEF RequestInv, NewRequest, Nothing
  <2> QED BY <1>3, <2>1, <2>2 DEF RunCron
<1>4. ASSUME NEW kind \in {"publish", "unpublish", "delete"}, Address(r, kind)
      PROVE  \E n \in RequestStates : RequestInv(n, now) /\ Becomes(r, n)
  <2>1. PICK a \in Articles :
          Becomes(r, [NewRequest EXCEPT !.pc = kind, !.kind = kind, !.id = a])
    BY <1>4 DEF Address
  <2> DEFINE n == [NewRequest EXCEPT !.pc = kind, !.kind = kind, !.id = a]
  <2>2. n \in RequestStates
    BY DEF RequestStates, Steps, Kinds
  <2>3. RequestInv(n, now)
    BY DEF RequestInv, NewRequest, Nothing
  <2> QED BY <2>1, <2>2, <2>3
<1> QED BY <1>1, <1>2, <1>3, <1>4 DEF Arrive

\* A request that ends, or goes on to a step that asks nothing of it.
LEMMA EndsInv ==
    ASSUME NEW q \in RequestStates, RequestInv(q, now), NEW pc \in Ended
    PROVE  [q EXCEPT !.pc = pc] \in RequestStates /\ RequestInv([q EXCEPT !.pc = pc], now)
BY DEF RequestStates, RequestInv, Steps, Ended

\* The cron drops an article from its list and goes on.
LEMMA DropInv ==
    ASSUME NEW q \in RequestStates, RequestInv(q, now), q.pc = "due", NEW a \in Articles
    PROVE  [q EXCEPT !.due[a] = NULL] \in RequestStates
           /\ RequestInv([q EXCEPT !.due[a] = NULL], now)
<1> DEFINE n == [q EXCEPT !.due[a] = NULL]
<1>1. n \in RequestStates
  BY DEF RequestStates
<1>2. n.pc = "due" /\ n.kind = q.kind /\ n.due = [q.due EXCEPT ![a] = NULL]
  BY DEF RequestStates
<1>3. \A b \in Articles : n.due[b] = IF b = a THEN NULL ELSE q.due[b]
  BY <1>2 DEF RequestStates
<1> QED BY <1>1, <1>2, <1>3 DEF RequestInv

\* A request that is served goes on in a good state.
LEMMA ServeInv ==
    ASSUME IInv, NEW r \in Requests, Serve(r)
    PROVE  \E n \in RequestStates : RequestInv(n, now) /\ Becomes(r, n)
<1> DEFINE q == req[r]
<1>0. q \in RequestStates /\ RequestInv(q, now) /\ now \in Instants
  BY DEF IInv, TypeOK
<1>a. ASSUME NEW pc \in Ended, Goto(r, pc)
      PROVE  \E n \in RequestStates : RequestInv(n, now) /\ Becomes(r, n)
  BY <1>0, <1>a, EndsInv DEF Goto
<1>1. CASE Probe(r)
  <2>1. q.pc = "probe"
    BY <1>1 DEF Probe, At
  <2>2. CASE Becomes(r, [q EXCEPT !.pc = "save",
                                  !.stamp = IF q.status = "published" THEN now ELSE NULL])
    <3> DEFINE stamp == IF q.status = "published" THEN now ELSE NULL
               n == [q EXCEPT !.pc = "save", !.stamp = stamp]
    <3>1. stamp \in Instants \cup {NULL} /\ (q.status = "published" => stamp # NULL /\ stamp <= now)
      BY <1>0 DEF Instants
    <3> HIDE DEF stamp
    <3>2. n \in RequestStates
      BY <1>0, <3>1 DEF RequestStates, Steps
    <3>3. RequestInv(n, now)
      BY <1>0, <2>1, <3>1 DEF RequestStates, RequestInv
    <3> QED BY <2>2, <3>2, <3>3 DEF stamp
  <2>3. CASE q.n < MaxSuffix /\ Becomes(r, [q EXCEPT !.n = q.n + 1])
    <3>1. [q EXCEPT !.n = q.n + 1] \in RequestStates
      BY <1>0, <2>3 DEF RequestStates
    <3>2. RequestInv([q EXCEPT !.n = q.n + 1], now)
      BY <1>0 DEF RequestStates, RequestInv
    <3> QED BY <2>3, <3>1, <3>2
  <2>4. CASE Goto(r, "fault")
    BY <1>a, <2>4 DEF Ended
  <2> QED BY <1>1, <2>2, <2>3, <2>4 DEF Probe
<1>2. CASE Save(r)
  <2>1. q.pc = "save" /\ q.kind \in {"create", "put"} /\ (q.kind = "put" => q.id \in Articles)
    BY <1>0, <1>2 DEF Save, At, RequestInv
  <2>2. ASSUME NEW a \in Articles, SaveAs(r, a)
        PROVE  \E n \in RequestStates : RequestInv(n, now) /\ Becomes(r, n)
    <3>1. CASE Goto(r, "conflict")
      BY <1>a, <3>1 DEF Ended
    <3>2. CASE Becomes(r, [q EXCEPT !.pc = "reload", !.id = a, !.was = article[a].status])
      <4> DEFINE n == [q EXCEPT !.pc = "reload", !.id = a, !.was = article[a].status]
      <4>1. article[a].status \in {"unborn", "draft", "published", "deleted"}
        BY DEF IInv, TypeOK, Rows
      <4>2. n \in RequestStates
        BY <1>0, <4>1 DEF RequestStates, Steps
      <4>3. RequestInv(n, now)
        BY <1>0, <2>1 DEF RequestStates, RequestInv
      <4> QED BY <3>2, <4>2, <4>3
    <3> QED BY <2>2, <3>1, <3>2 DEF SaveAs
  <2>3. CASE Goto(r, "done")
    BY <1>a, <2>3 DEF Ended
  <2> QED BY <1>2, <2>1, <2>2, <2>3 DEF Save
<1>3. CASE Reload(r)
  <2>1. q.pc = "reload" /\ q.kind \in {"create", "put"} /\ q.id \in Articles
    BY <1>0, <1>3 DEF Reload, At, RequestInv
  <2>2. CASE Goto(r, "announce")
    <3>1. [q EXCEPT !.pc = "announce"] \in RequestStates
      BY <1>0 DEF RequestStates, Steps
    <3>2. RequestInv([q EXCEPT !.pc = "announce"], now)
      BY <1>0, <2>1 DEF RequestStates, RequestInv
    <3> QED BY <2>2, <3>1, <3>2 DEF Goto
  <2>3. CASE Goto(r, "done")
    BY <1>a, <2>3 DEF Ended
  <2> QED BY <1>3, <2>2, <2>3 DEF Reload
<1>4. CASE Announce(r)
  <2>1. q.pc = "announce"
    BY <1>4 DEF Announce, At
  <2>2. CASE q.kind = "cron" /\ Goto(r, "due")
    <3>1. [q EXCEPT !.pc = "due"] \in RequestStates
      BY <1>0 DEF RequestStates, Steps
    <3>2. RequestInv([q EXCEPT !.pc = "due"], now)
      BY <1>0, <2>2 DEF RequestStates, RequestInv
    <3> QED BY <2>2, <3>1, <3>2 DEF Goto
  <2>3. CASE Goto(r, "done")
    BY <1>a, <2>3 DEF Ended
  <2> QED BY <1>4, <2>2, <2>3 DEF Announce
<1>5. CASE Publish(r)
  <2>1. q.pc = "publish" /\ q.kind = "publish" /\ q.id \in Articles
    BY <1>0, <1>5 DEF Publish, At, RequestInv
  <2>2. CASE Goto(r, "announce")
    <3>1. [q EXCEPT !.pc = "announce"] \in RequestStates
      BY <1>0 DEF RequestStates, Steps
    <3>2. RequestInv([q EXCEPT !.pc = "announce"], now)
      BY <1>0, <2>1 DEF RequestStates, RequestInv
    <3> QED BY <2>2, <3>1, <3>2 DEF Goto
  <2>3. CASE Goto(r, "done")
    BY <1>a, <2>3 DEF Ended
  <2> QED BY <1>5, <2>2, <2>3 DEF Publish
<1>6. CASE Unpublish(r)
  BY <1>a, <1>6 DEF Unpublish, Ended
<1>7. CASE Delete(r)
  BY <1>a, <1>7 DEF Delete, Ended
<1>8. CASE Select(r)
  <2>1. q.pc = "select" /\ q.kind = "cron"
    BY <1>0, <1>8 DEF Select, At, RequestInv
  <2>2. PICK S \in SUBSET Due : Becomes(r, [q EXCEPT !.pc = "due", !.due = ListOf(S)])
    BY <1>8 DEF Select
  <2> DEFINE list == ListOf(S)
             n == [q EXCEPT !.pc = "due", !.due = list]
  <2>3. list \in [Articles -> Instants \cup {NULL}]
    BY DEF ListOf, IInv, TypeOK, Rows
  <2>4. \A a \in Articles : list[a] # NULL => list[a] <= now
    BY DEF ListOf, Due
  <2> HIDE DEF list
  <2>5. n \in RequestStates
    BY <1>0, <2>3 DEF RequestStates, Steps
  <2>6. n.pc = "due" /\ n.kind = "cron" /\ n.due = list
    BY <1>0, <2>1 DEF RequestStates
  <2>7. RequestInv(n, now)
    BY <2>4, <2>6 DEF RequestInv
  <2> QED BY <2>2, <2>5, <2>7 DEF list
<1>9. CASE PublishDue(r)
  <2>1. q.pc = "due" /\ q.kind = "cron"
    BY <1>0, <1>9 DEF PublishDue, At, RequestInv
  <2>2. ASSUME NEW a \in Articles,
               Becomes(r, [q EXCEPT !.pc = "announce", !.id = a, !.due[a] = NULL])
        PROVE  \E n \in RequestStates : RequestInv(n, now) /\ Becomes(r, n)
    <3> DEFINE m == [q EXCEPT !.due[a] = NULL]
               n == [m EXCEPT !.pc = "announce", !.id = a]
    <3>1. m \in RequestStates /\ RequestInv(m, now) /\ m.kind = "cron"
      BY <1>0, <2>1, DropInv DEF RequestStates
    <3>2. n = [q EXCEPT !.pc = "announce", !.id = a, !.due[a] = NULL]
      BY <1>0 DEF RequestStates
    <3> HIDE DEF m
    <3>3. n \in RequestStates /\ RequestInv(n, now)
      BY <3>1 DEF RequestStates, RequestInv, Steps
    <3> QED BY <2>2, <3>2, <3>3
  <2>3. ASSUME NEW a \in Articles, Skip(r, a)
        PROVE  \E n \in RequestStates : RequestInv(n, now) /\ Becomes(r, n)
    BY <1>0, <2>1, <2>3, DropInv DEF Skip
  <2>4. CASE Goto(r, "done")
    BY <1>a, <2>4 DEF Ended
  <2> QED BY <1>9, <2>2, <2>3, <2>4 DEF PublishDue
<1> QED BY <1>1, <1>2, <1>3, <1>4, <1>5, <1>6, <1>7, <1>8, <1>9 DEF Serve

\* A statement that fails ends its request, or is skipped by the cron.
LEMMA FailInv ==
    ASSUME IInv, NEW r \in Requests, Fail(r)
    PROVE  \E n \in RequestStates : RequestInv(n, now) /\ Becomes(r, n)
<1> DEFINE q == req[r]
<1>0. q \in RequestStates /\ RequestInv(q, now)
  BY DEF IInv, TypeOK
<1>1. CASE Becomes(r, [q EXCEPT !.pc = "fault", !.missed = @ \cup ({q.id} \cap Articles)])
  <2> DEFINE n == [q EXCEPT !.pc = "fault", !.missed = @ \cup ({q.id} \cap Articles)]
  <2>1. n \in RequestStates
    BY <1>0 DEF RequestStates, Steps
  <2>2. RequestInv(n, now)
    BY <1>0 DEF RequestStates, RequestInv
  <2> QED BY <1>1, <2>1, <2>2
<1>2. CASE q.pc = "announce" /\ q.kind = "cron"
           /\ Becomes(r, [q EXCEPT !.pc = "due", !.missed = @ \cup {q.id}])
  <2> DEFINE n == [q EXCEPT !.pc = "due", !.missed = @ \cup {q.id}]
  <2>1. q.id \in Articles
    BY <1>0, <1>2 DEF RequestInv
  <2>2. n \in RequestStates
    BY <1>0, <2>1 DEF RequestStates, Steps
  <2>3. RequestInv(n, now)
    BY <1>0, <1>2 DEF RequestStates, RequestInv
  <2> QED BY <1>2, <2>2, <2>3
<1>3. ASSUME NEW a \in Articles, q.pc = "due",
             Becomes(r, [q EXCEPT !.due[a] = NULL, !.missed = @ \cup {a}])
      PROVE  \E n \in RequestStates : RequestInv(n, now) /\ Becomes(r, n)
  <2> DEFINE m == [q EXCEPT !.due[a] = NULL]
             n == [m EXCEPT !.missed = @ \cup {a}]
  <2>1. m \in RequestStates /\ RequestInv(m, now)
    BY <1>0, <1>3, DropInv
  <2>2. n = [q EXCEPT !.due[a] = NULL, !.missed = @ \cup {a}]
    BY <1>0 DEF RequestStates
  <2> HIDE DEF m
  <2>3. n \in RequestStates /\ RequestInv(n, now)
    BY <2>1 DEF RequestStates, RequestInv
  <2> QED BY <1>3, <2>2, <2>3
<1> QED BY <1>1, <1>2, <1>3 DEF Fail

-----------------------------------------------------------------------------
(* Tables                                                                  *)

\* The UPDATE of KBPublishArticle leaves good tables.
LEMMA PublishArticleTables ==
    ASSUME IInv, NEW r \in Requests, NEW a \in Articles, PublishArticle(r, a), now' = now
    PROVE  /\ article' \in [Articles -> Rows]
           /\ publications' \subseteq Requests \X Articles
           /\ PublishedIsStamped'
<1> DEFINE row == [article[a] EXCEPT !.status = "published", !.published_at = now,
                                     !.publish_at = NULL]
<1>0. article \in [Articles -> Rows] /\ publications \subseteq Requests \X Articles
  BY DEF IInv, TypeOK
<1>2. now \in Instants /\ now # NULL
  BY DEF IInv, TypeOK, Instants
<1>4. row \in Rows
  BY <1>0, <1>2 DEF Rows
<1>5. article' = [article EXCEPT ![a] = row]
  BY <1>0 DEF PublishArticle, Rows
<1>1. article' \in [Articles -> Rows] /\ publications' \subseteq Requests \X Articles
  BY <1>0, <1>4, <1>5 DEF PublishArticle
<1>3. PublishedIsStamped'
  BY <1>2 DEF PublishArticle, IInv, TypeOK, PublishedIsStamped, Rows, Instants
<1> QED BY <1>1, <1>3

\* The transaction of KBSaveArticle leaves good tables.
LEMMA SaveTables ==
    ASSUME IInv, NEW r \in Requests, Save(r)
    PROVE  /\ article' \in [Articles -> Rows]
           /\ publications' \subseteq Requests \X Articles
           /\ PublishedIsStamped'
<1> DEFINE q == req[r]
<1>1. /\ q \in RequestStates /\ q.pc = "save" /\ q.base \in Bases
      /\ q.kind = "put" => q.id \in Articles
      /\ q.status = "published" => q.stamp # NULL /\ q.stamp <= now
  BY DEF Save, At, IInv, TypeOK, RequestInv
<1>2. Saved(q) \in Rows
  BY <1>1 DEF Saved, Rows, RequestStates, Slugs
<1>3. Saved(q).status = "published" =>
        Saved(q).published_at # NULL /\ Saved(q).published_at <= now
  BY <1>1 DEF Saved
<1>4. now' = now /\ article \in [Articles -> Rows] /\ PublishedIsStamped
      /\ publications \subseteq Requests \X Articles
  BY DEF Save, IInv, TypeOK
<1>5. ASSUME NEW a \in Articles, SaveAs(r, a)
      PROVE  /\ article' \in [Articles -> Rows]
             /\ publications' \subseteq Requests \X Articles
             /\ PublishedIsStamped'
  <2>1. CASE UNCHANGED <<article, publications>>
    BY <1>4, <2>1 DEF PublishedIsStamped
  <2>2. CASE /\ article' = [article EXCEPT ![a] = Saved(q)]
             /\ publications' \in {publications, publications \cup {<<r, a>>}}
    <3>1. article' \in [Articles -> Rows]
      BY <1>2, <1>4, <2>2
    <3>2. PublishedIsStamped'
      BY <1>3, <1>4, <2>2 DEF PublishedIsStamped
    <3> QED BY <1>4, <2>2, <3>1, <3>2
  <2> QED BY <1>5, <2>1, <2>2 DEF SaveAs
<1>6. CASE UNCHANGED <<article, publications>>
  BY <1>4, <1>6 DEF PublishedIsStamped
<1> QED BY <1>1, <1>5, <1>6 DEF Save

\* So does every step.
LEMMA TablesInv ==
    ASSUME IInv, NEW r \in Requests, Arrive(r) \/ Serve(r) \/ Fail(r)
    PROVE  /\ article' \in [Articles -> Rows]
           /\ publications' \subseteq Requests \X Articles
           /\ announced' \subseteq Requests \X Articles
           /\ updated' \subseteq Requests \X Articles
           /\ faults' \in 0..MaxFaults
           /\ now' = now
           /\ PublishedIsStamped'
<1>0. TypeOK /\ PublishedIsStamped
  BY DEF IInv
<1>1. CASE UNCHANGED <<now, tables>>
  <2>1. faults' \in 0..MaxFaults
    <3>1. CASE Arrive(r)
      BY <1>0, <3>1 DEF Arrive, Create, Put, Address, RunCron, TypeOK
    <3>2. CASE Serve(r)
      <4>1. UNCHANGED faults
        BY <3>2 DEF Serve, Probe, Save, Reload, Announce, Publish, Unpublish, Delete,
                    Select, PublishDue
      <4> QED BY <1>0, <4>1 DEF TypeOK
    <3>3. CASE Fail(r)
      <4>1. faults < MaxFaults /\ faults' = faults + 1
        BY <3>3 DEF Fail
      <4> QED BY <1>0, <4>1 DEF TypeOK
    <3> QED BY <3>1, <3>2, <3>3
  <2> QED BY <1>0, <1>1, <2>1 DEF tables, TypeOK, PublishedIsStamped
<1>2. CASE Save(r)
  BY <1>0, <1>2, SaveTables DEF Save, TypeOK
<1>3. CASE Announce(r)
  <2>1. req[r].id \in Articles
    BY <1>3 DEF Announce, At, IInv, RequestInv
  <2> QED BY <1>0, <1>3, <2>1 DEF Announce, TypeOK, PublishedIsStamped
<1>4. CASE Publish(r)
  <2>1. req[r].id \in Articles
    BY <1>4 DEF Publish, At, IInv, RequestInv
  <2>2. CASE PublishArticle(r, req[r].id)
    BY <1>0, <1>4, <2>1, <2>2, PublishArticleTables DEF Publish, TypeOK
  <2>3. CASE UNCHANGED <<article, publications>>
    BY <1>0, <1>4, <2>3 DEF Publish, TypeOK, PublishedIsStamped
  <2> QED BY <1>4, <2>2, <2>3 DEF Publish
<1>5. CASE Unpublish(r)
  BY <1>0, <1>5 DEF Unpublish, TypeOK, PublishedIsStamped, Rows
<1>6. CASE Delete(r)
  <2>1. NoRow("deleted") \in Rows /\ NoRow("deleted").status = "deleted"
    BY DEF NoRow, Rows, Slugs
  <2> QED BY <1>0, <1>6, <2>1 DEF Delete, TypeOK, PublishedIsStamped
<1>7. CASE PublishDue(r)
  <2>1. CASE \E a \in Articles : PublishArticle(r, a)
    BY <1>0, <1>7, <2>1, PublishArticleTables DEF PublishDue, TypeOK
  <2>2. CASE UNCHANGED <<article, publications>>
    BY <1>0, <1>7, <2>2 DEF PublishDue, TypeOK, PublishedIsStamped
  <2> QED BY <1>7, <2>1, <2>2 DEF PublishDue, Skip
<1> QED BY <1>1, <1>2, <1>3, <1>4, <1>5, <1>6, <1>7
        DEF Arrive, Create, Put, Address, RunCron, Serve, Probe, Reload, Select, Fail

-----------------------------------------------------------------------------
(* The invariant                                                           *)

\* The empty tables and the requests not yet received are in a good state.
LEMMA InitIInv == Init => IInv
<1> SUFFICES ASSUME Init PROVE IInv
  OBVIOUS
<1>1. NoRow("unborn") \in Rows
  BY DEF NoRow, Rows, Slugs
<1> QED BY <1>1, NewRequestInv DEF Init, IInv, TypeOK, PublishedIsStamped, NoRow, Instants

\* Every step keeps the invariant.
LEMMA NextIInv == IInv /\ [Next]_vars => IInv'
<1> SUFFICES ASSUME IInv, [Next]_vars PROVE IInv'
  OBVIOUS
<1>0. TypeOK /\ PublishedIsStamped /\ \A r \in Requests : RequestInv(req[r], now)
  BY DEF IInv
<1>1. ASSUME NEW r \in Requests, Arrive(r) \/ Serve(r) \/ Fail(r)
      PROVE  IInv'
  <2>1. PICK n \in RequestStates : RequestInv(n, now) /\ Becomes(r, n)
    BY <1>1, ArriveInv, ServeInv, FailInv
  <2>2. /\ req' \in [Requests -> RequestStates]
        /\ \A s \in Requests : RequestInv(req'[s], now)
    BY <1>0, <2>1 DEF Becomes, TypeOK
  <2>3. now' = now
    BY <1>1, TablesInv
  <2>4. TypeOK' /\ PublishedIsStamped'
    BY <1>0, <1>1, <2>2, TablesInv DEF TypeOK
  <2> QED BY <2>2, <2>3, <2>4 DEF IInv
<1>2. CASE Crash
  <2>1. ASSUME NEW r \in Requests
        PROVE  req'[r] \in RequestStates /\ RequestInv(req'[r], now)
    <3>1. req[r] \in RequestStates /\ RequestInv(req[r], now)
      BY <1>0 DEF TypeOK
    <3> DEFINE n == [req[r] EXCEPT !.pc = "fault", !.missed = Articles]
    <3>2. n \in RequestStates
      BY <3>1 DEF RequestStates, Steps
    <3>3. RequestInv(n, now)
      BY <3>1 DEF RequestStates, RequestInv
    <3>4. req'[r] = req[r] \/ req'[r] = n
      BY <1>2 DEF Crash
    <3> QED BY <3>1, <3>2, <3>3, <3>4
  <2>2. req' \in [Requests -> RequestStates]
    <3> DEFINE after(r) == IF req[r].pc \in Ended \cup {"new"} THEN req[r]
                           ELSE [req[r] EXCEPT !.pc = "fault", !.missed = Articles]
    <3>1. req' = [r \in Requests |-> after(r)]
      BY <1>2 DEF Crash
    <3> HIDE DEF after
    <3>2. \A r \in Requests : after(r) \in RequestStates
      BY <2>1, <3>1
    <3> QED BY <3>1, <3>2
  <2>3. /\ UNCHANGED <<now, article, publications, announced, updated>>
        /\ faults < MaxFaults /\ faults' = faults + 1
    BY <1>2 DEF Crash, tables
  <2>4. TypeOK' /\ PublishedIsStamped'
    BY <1>0, <2>2, <2>3 DEF TypeOK, PublishedIsStamped
  <2>5. \A r \in Requests : RequestInv(req'[r], now')
    BY <2>1, <2>3
  <2> QED BY <2>4, <2>5 DEF IInv
<1>3. CASE Tick
  <2>1. now \in Nat /\ now' = now + 1 /\ now' \in Instants /\ UNCHANGED <<tables, req, faults>>
    BY <1>0, <1>3 DEF Tick, TypeOK, Instants
  <2>2. PublishedIsStamped'
    BY <1>0, <2>1 DEF tables, TypeOK, PublishedIsStamped, Rows, Instants
  <2>3. ASSUME NEW r \in Requests
        PROVE  RequestInv(req[r], now + 1)
    BY <1>0, <2>1 DEF RequestInv, TypeOK, RequestStates, Instants
  <2>4. TypeOK'
    BY <1>0, <2>1 DEF TypeOK, tables
  <2> QED BY <2>1, <2>2, <2>3, <2>4 DEF IInv
<1>4. CASE UNCHANGED vars
  BY <1>0, <1>4 DEF vars, tables, IInv, TypeOK, PublishedIsStamped
<1> QED BY <1>1, <1>2, <1>3, <1>4 DEF Next

\* The tables and the requests keep their types, and published articles their
\* stamps, whatever requests, faults and crashes interleave.
LEMMA IInvAlways == Spec => []IInv
<1> QED BY InitIInv, NextIInv, PTL DEF Spec

\* TypeCorrect: every behavior keeps the types of the tables and the requests.
THEOREM TypeCorrect == Spec => []TypeOK
<1>1. IInv => TypeOK
  BY DEF IInv
<1> QED BY <1>1, IInvAlways, PTL

\* StampedCorrect: a published article has a published_at that is not one of the
\* future, whichever of save, publish and cron published it.
THEOREM StampedCorrect == Spec => []PublishedIsStamped
<1>1. IInv => PublishedIsStamped
  BY DEF IInv
<1> QED BY <1>1, IInvAlways, PTL

-----------------------------------------------------------------------------
(* Events                                                                  *)

\* What the events of request q, named r, rest on.
Pending(r, q) ==
    /\ q.pc = "new" => \A a \in Articles : <<r, a>> \notin publications \cup announced
    /\ q.pc = "announce" /\ q.kind \in {"publish", "cron"} => <<r, q.id>> \in publications
    /\ q.pc = "announce" /\ q.kind = "create" =>
         \E s \in Requests : <<s, q.id>> \in publications
    /\ \A a \in Articles : <<r, a>> \in announced => q.kind # "put"

\* Every published article has a publication on record, every announcement its
\* publication, and every publication by publish or the cron is announced, about
\* to be, or lost to a fault.
Ledger ==
    /\ \A a \in Articles : article[a].status = "published" =>
         \E s \in Requests : <<s, a>> \in publications
    /\ \A r \in Requests : Pending(r, req[r])
    /\ \A r \in Requests, a \in Articles : <<r, a>> \in announced =>
         IF req[r].kind = "create" THEN \E s \in Requests : <<s, a>> \in publications
                                   ELSE <<r, a>> \in publications
    /\ \A r \in Requests, a \in Articles :
         <<r, a>> \in publications /\ req[r].kind \in {"publish", "cron"} =>
           \/ <<r, a>> \in announced
           \/ a \in req[r].missed
           \/ req[r].pc = "announce" /\ req[r].id = a

\* The ledger implies the property: a request that is through with an article
\* is not about to announce it.
LEMMA LedgerImplies == TypeOK /\ Ledger => AnnouncementsMatch
<1> SUFFICES ASSUME TypeOK, Ledger PROVE AnnouncementsMatch
  OBVIOUS
<1>1. ASSUME NEW e \in announced
      PROVE  IF req[e[1]].kind = "create" THEN \E s \in Requests : <<s, e[2]>> \in publications
                                          ELSE e \in publications
  <2>1. PICK r \in Requests, a \in Articles : e = <<r, a>>
    BY DEF TypeOK
  <2> QED BY <2>1 DEF Ledger
<1>2. ASSUME NEW p \in publications, req[p[1]].kind \in {"publish", "cron"},
             Finished(p[1], p[2]), p[2] \notin req[p[1]].missed
      PROVE  p \in announced
  <2>1. PICK r \in Requests, a \in Articles : p = <<r, a>>
    BY DEF TypeOK
  <2>2. req[r].pc # "announce"
    BY <1>2, <2>1 DEF Finished, Ended
  <2> QED BY <1>2, <2>1, <2>2 DEF Ledger
<1> QED BY <1>1, <1>2 DEF AnnouncementsMatch

\* What a step of one request has to respect for the ledger to stay right.
LEMMA LedgerStep ==
    ASSUME TypeOK, Ledger, NEW r \in Requests, NEW n, Becomes(r, n),
           publications \subseteq publications', announced \subseteq announced',
           publications' \subseteq Requests \X Articles,
           announced' \subseteq Requests \X Articles,
           \A a \in Articles : article'[a].status = "published" =>
              article[a].status = "published" \/ <<r, a>> \in publications',
           \A s \in Requests, a \in Articles : <<s, a>> \in publications' \ publications =>
              /\ s = r
              /\ n.kind \in {"publish", "cron"} => n.pc = "announce" /\ n.id = a,
           \A s \in Requests, a \in Articles : <<s, a>> \in announced' \ announced =>
              /\ s = r /\ a = req[r].id /\ req[r].pc = "announce"
              /\ n.kind \in {"create", "publish", "cron"},
           req[r].pc = "new" \/ (n.kind = req[r].kind /\ req[r].missed \subseteq n.missed),
           n.pc # "new",
           n.pc = "announce" =>
              /\ n.kind \in {"publish", "cron"} => <<r, n.id>> \in publications'
              /\ n.kind = "create" => \E s \in Requests : <<s, n.id>> \in publications',
           req[r].pc = "announce" => \/ <<r, req[r].id>> \in announced'
                                     \/ n.kind \in {"create", "put"}
                                     \/ req[r].id \in n.missed
    PROVE  Ledger'
<1>0. /\ req'[r] = n
      /\ \A s \in Requests \ {r} : req'[s] = req[s]
  BY DEF Becomes, TypeOK
<1>1. \A a \in Articles : article'[a].status = "published" =>
        \E s \in Requests : <<s, a>> \in publications'
  BY DEF Ledger
<1>2. ASSUME NEW s \in Requests
      PROVE  Pending(s, req[s])'
  <2>1. CASE s = r
    BY <1>0, <2>1 DEF Ledger, Pending
  <2>2. CASE s # r
    <3>1. /\ req'[s] = req[s]
          /\ \A a \in Articles : /\ <<s, a>> \in publications' <=> <<s, a>> \in publications
                                 /\ <<s, a>> \in announced' <=> <<s, a>> \in announced
      BY <1>0, <2>2
    <3>2. Pending(s, req[s])
      BY DEF Ledger
    <3>3. req[s].pc = "new" => \A a \in Articles : <<s, a>> \notin publications' \cup announced'
      BY <3>1, <3>2 DEF Pending
    <3>4. /\ req[s].pc = "announce" /\ req[s].kind \in {"publish", "cron"} =>
               <<s, req[s].id>> \in publications'
          /\ req[s].pc = "announce" /\ req[s].kind = "create" =>
               \E t \in Requests : <<t, req[s].id>> \in publications'
      BY <3>2 DEF Pending
    <3>5. \A a \in Articles : <<s, a>> \in announced' => req[s].kind # "put"
      BY <3>1, <3>2 DEF Pending
    <3> QED BY <3>1, <3>3, <3>4, <3>5 DEF Pending
  <2> QED BY <2>1, <2>2
<1>3. ASSUME NEW s \in Requests, NEW a \in Articles, <<s, a>> \in announced'
      PROVE  IF req'[s].kind = "create" THEN \E t \in Requests : <<t, a>> \in publications'
                                        ELSE <<s, a>> \in publications'
  <2>1. CASE <<s, a>> \in announced /\ s # r
    BY <1>0, <2>1 DEF Ledger
  <2>2. CASE <<s, a>> \in announced /\ s = r
    <3>1. req[r].pc # "new"
      BY <2>2 DEF Ledger, Pending
    <3> QED BY <1>0, <2>2, <3>1 DEF Ledger
  <2>3. CASE <<s, a>> \notin announced
    <3>1. s = r /\ a = req[r].id /\ req[r].pc = "announce" /\ n.kind = req[r].kind
      BY <1>3, <2>3
    <3>2. n.kind \in {"create", "publish", "cron"}
      BY <1>3, <2>3
    <3> QED BY <1>0, <3>1, <3>2 DEF Ledger, Pending
  <2> QED BY <2>1, <2>2, <2>3
<1>4. ASSUME NEW s \in Requests, NEW a \in Articles, <<s, a>> \in publications',
             req'[s].kind \in {"publish", "cron"}
      PROVE  \/ <<s, a>> \in announced'
             \/ a \in req'[s].missed
             \/ req'[s].pc = "announce" /\ req'[s].id = a
  <2>1. CASE s # r
    BY <1>0, <1>4, <2>1 DEF Ledger
  <2>2. CASE s = r /\ <<s, a>> \in publications
    <3>1. req[r].pc # "new"
      BY <2>2 DEF Ledger, Pending
    <3> QED BY <1>0, <1>4, <2>2, <3>1 DEF Ledger
  <2>3. CASE s = r /\ <<s, a>> \notin publications
    BY <1>0, <1>4, <2>3
  <2> QED BY <2>1, <2>2, <2>3
<1> QED BY <1>1, <1>2, <1>3, <1>4 DEF Ledger

\* A step that writes neither events nor publications, publishes no article and
\* takes its request neither to nor from an announcement.
LEMMA QuietLedger ==
    ASSUME TypeOK, Ledger, NEW r \in Requests, NEW n, Becomes(r, n),
           UNCHANGED <<publications, announced>>,
           \A a \in Articles : article'[a].status = "published" =>
              article[a].status = "published",
           req[r].pc = "new" \/ (n.kind = req[r].kind /\ req[r].missed \subseteq n.missed),
           n.pc \notin {"new", "announce"}, req[r].pc # "announce"
    PROVE  Ledger'
<1>1. publications' \subseteq Requests \X Articles /\ announced' \subseteq Requests \X Articles
  BY DEF TypeOK
<1> QED BY <1>1, LedgerStep

\* Arriving requests keep the ledger.
LEMMA ArriveLedger ==
    ASSUME IInv, Ledger, NEW r \in Requests, Arrive(r)
    PROVE  Ledger'
<1>1. PICK n : Becomes(r, n) /\ n.pc \notin {"new", "announce"}
  <2>1. CASE Create(r)
    <3>1. PICK b \in Bases, s \in {"draft", "published"}, at \in Instants \cup {NULL} :
            Becomes(r, [NewRequest EXCEPT !.pc = "probe", !.kind = "create",
                                          !.base = b, !.status = s, !.publish_at = at])
      BY <2>1 DEF Create
    <3> DEFINE n == [NewRequest EXCEPT !.pc = "probe", !.kind = "create",
                                       !.base = b, !.status = s, !.publish_at = at]
    <3>2. n.pc = "probe"
      BY DEF NewRequest
    <3>3. Becomes(r, n)
      BY <3>1
    <3> HIDE DEF n
    <3> QED BY <3>2, <3>3
  <2>2. CASE Put(r)
    <3>1. PICK a \in Articles, b \in Bases, from \in {"title", "slug"},
               s \in {"draft", "published"}, at \in Instants \cup {NULL} :
            Becomes(r, [NewRequest EXCEPT !.pc = "probe", !.kind = "put", !.id = a,
                                          !.base = b, !.from = from, !.status = s,
                                          !.publish_at = at])
      BY <2>2 DEF Put
    <3> DEFINE n == [NewRequest EXCEPT !.pc = "probe", !.kind = "put", !.id = a,
                                       !.base = b, !.from = from, !.status = s,
                                       !.publish_at = at]
    <3>2. n.pc = "probe"
      BY DEF NewRequest
    <3>3. Becomes(r, n)
      BY <3>1
    <3> HIDE DEF n
    <3> QED BY <3>2, <3>3
  <2>3. CASE RunCron(r)
    <3> DEFINE n == [NewRequest EXCEPT !.pc = "select", !.kind = "cron"]
    <3>1. n.pc = "select"
      BY DEF NewRequest
    <3>2. Becomes(r, n)
      BY <2>3 DEF RunCron
    <3> HIDE DEF n
    <3> QED BY <3>1, <3>2
  <2>4. ASSUME NEW kind \in {"publish", "unpublish", "delete"}, Address(r, kind)
        PROVE  \E n : Becomes(r, n) /\ n.pc \notin {"new", "announce"}
    <3>1. PICK a \in Articles :
            Becomes(r, [NewRequest EXCEPT !.pc = kind, !.kind = kind, !.id = a])
      BY <2>4 DEF Address
    <3> DEFINE n == [NewRequest EXCEPT !.pc = kind, !.kind = kind, !.id = a]
    <3>2. n.pc = kind
      BY DEF NewRequest
    <3>3. Becomes(r, n)
      BY <3>1
    <3> HIDE DEF n
    <3> QED BY <3>2, <3>3
  <2> QED BY <2>1, <2>2, <2>3, <2>4 DEF Arrive
<1>2. req[r].pc = "new" /\ UNCHANGED <<article, publications, announced>>
  BY DEF Arrive, Create, Put, RunCron, Address, At, tables
<1> QED BY <1>1, <1>2, QuietLedger DEF IInv

\* The steps of a save keep the ledger.
LEMMA SaveLedger ==
    ASSUME IInv, Ledger, NEW r \in Requests, Probe(r) \/ Save(r) \/ Reload(r)
    PROVE  Ledger'
<1> DEFINE q == req[r]
<1>0. /\ q \in RequestStates /\ RequestInv(q, now) /\ TypeOK
      /\ article \in [Articles -> Rows] /\ publications \subseteq Requests \X Articles
      /\ announced \subseteq Requests \X Articles
  BY DEF IInv, TypeOK
<1>a. ASSUME NEW pc \in Ended, Goto(r, pc), UNCHANGED <<article, publications, announced>>,
             q.pc \notin {"new", "announce"}
      PROVE  Ledger'
  <2> DEFINE n == [q EXCEPT !.pc = pc]
  <2>1. n.kind = q.kind /\ n.missed = q.missed /\ n.pc = pc
    BY <1>0 DEF RequestStates
  <2>2. Becomes(r, n)
    BY <1>a DEF Goto
  <2> HIDE DEF n
  <2> QED BY <1>0, <1>a, <2>1, <2>2, QuietLedger DEF Ended
<1>1. CASE Probe(r)
  <2>1. q.pc = "probe" /\ UNCHANGED <<article, publications, announced>>
    BY <1>1 DEF Probe, At, tables
  <2>2. CASE Becomes(r, [q EXCEPT !.pc = "save",
                                  !.stamp = IF q.status = "published" THEN now ELSE NULL])
    <3> DEFINE n == [q EXCEPT !.pc = "save",
                              !.stamp = IF q.status = "published" THEN now ELSE NULL]
    <3>1. n.kind = q.kind /\ n.missed = q.missed /\ n.pc = "save"
      BY <1>0 DEF RequestStates
    <3> HIDE DEF n
    <3> QED BY <1>0, <2>1, <2>2, <3>1, QuietLedger DEF n
  <2>3. CASE Becomes(r, [q EXCEPT !.n = q.n + 1])
    <3> DEFINE n == [q EXCEPT !.n = q.n + 1]
    <3>1. n.kind = q.kind /\ n.missed = q.missed /\ n.pc = "probe"
      BY <1>0, <2>1 DEF RequestStates
    <3> HIDE DEF n
    <3> QED BY <1>0, <2>1, <2>3, <3>1, QuietLedger DEF n
  <2>4. CASE Goto(r, "fault")
    BY <1>a, <2>1, <2>4 DEF Ended
  <2> QED BY <1>1, <2>2, <2>3, <2>4 DEF Probe
<1>2. CASE Save(r)
  <2>1. /\ q.pc = "save" /\ q.kind \in {"create", "put"}
        /\ q.kind = "put" => q.id \in Articles
        /\ announced' = announced
    BY <1>0, <1>2 DEF Save, At, RequestInv
  <2>2. ASSUME NEW a \in Articles, SaveAs(r, a)
        PROVE  Ledger'
    <3>1. CASE Goto(r, "conflict") /\ UNCHANGED <<article, publications>>
      BY <1>a, <2>1, <3>1 DEF Ended
    <3>2. CASE /\ article' = [article EXCEPT ![a] = Saved(q)]
               /\ Becomes(r, [q EXCEPT !.pc = "reload", !.id = a, !.was = article[a].status])
               /\ publications' = IF q.status = "published" /\ article[a].status # "published"
                                  THEN publications \cup {<<r, a>>} ELSE publications
      <4> DEFINE n == [q EXCEPT !.pc = "reload", !.id = a, !.was = article[a].status]
      <4>1. n.kind = q.kind /\ n.missed = q.missed /\ n.pc = "reload"
        BY <1>0 DEF RequestStates
      <4>2. Becomes(r, n)
        BY <3>2
      <4> HIDE DEF n
      <4>3. Saved(q).status = q.status
        BY DEF Saved
      <4>4. \A b \in Articles : article'[b].status = "published" =>
              article[b].status = "published" \/ <<r, b>> \in publications'
        BY <1>0, <3>2, <4>3
      <4>5. /\ publications \subseteq publications'
            /\ publications' \subseteq Requests \X Articles
            /\ \A s \in Requests, b \in Articles :
                 <<s, b>> \in publications' \ publications => s = r
        BY <1>0, <3>2
      <4>6. \A s \in Requests, b \in Articles :
              <<s, b>> \in publications' \ publications =>
              /\ s = r
              /\ n.kind \in {"publish", "cron"} => n.pc = "announce" /\ n.id = b
        BY <2>1, <4>1, <4>5
      <4> QED BY <1>0, <2>1, <4>1, <4>2, <4>4, <4>5, <4>6, LedgerStep
    <3> QED BY <2>2, <3>1, <3>2 DEF SaveAs
  <2>3. CASE Goto(r, "done") /\ UNCHANGED <<article, publications>>
    BY <1>a, <2>1, <2>3 DEF Ended
  <2> QED BY <1>2, <2>1, <2>2, <2>3 DEF Save
<1>3. CASE Reload(r)
  <2>1. q.pc = "reload" /\ q.kind \in {"create", "put"} /\ q.id \in Articles
        /\ UNCHANGED <<article, publications, announced>>
    BY <1>0, <1>3 DEF Reload, At, tables, RequestInv
  <2>2. CASE article[q.id].status = "published" /\ Goto(r, "announce")
    <3> DEFINE n == [q EXCEPT !.pc = "announce"]
    <3>1. n.kind = q.kind /\ n.missed = q.missed /\ n.pc = "announce" /\ n.id = q.id
      BY <1>0 DEF RequestStates
    <3>2. Becomes(r, n)
      BY <2>2 DEF Goto
    <3>3. \E s \in Requests : <<s, q.id>> \in publications
      BY <2>1, <2>2 DEF Ledger
    <3> HIDE DEF n
    <3> QED BY <1>0, <2>1, <3>1, <3>2, <3>3, LedgerStep
  <2>3. CASE Goto(r, "done")
    BY <1>a, <2>1, <2>3 DEF Ended
  <2> QED BY <1>3, <2>2, <2>3 DEF Reload
<1> QED BY <1>1, <1>2, <1>3

\* Publish, unpublish, delete, the cron and the announcements keep the ledger.
LEMMA PublishLedger ==
    ASSUME IInv, Ledger, NEW r \in Requests,
           \/ Announce(r) \/ Publish(r) \/ Unpublish(r) \/ Delete(r)
           \/ Select(r) \/ PublishDue(r)
    PROVE  Ledger'
<1> DEFINE q == req[r]
<1>0. /\ q \in RequestStates /\ RequestInv(q, now) /\ TypeOK
      /\ article \in [Articles -> Rows] /\ publications \subseteq Requests \X Articles
      /\ announced \subseteq Requests \X Articles
  BY DEF IInv, TypeOK
<1>a. ASSUME NEW pc \in Ended, Goto(r, pc), UNCHANGED <<publications, announced>>,
             \A a \in Articles : article'[a].status = "published" =>
                article[a].status = "published",
             q.pc \notin {"new", "announce"}
      PROVE  Ledger'
  <2> DEFINE n == [q EXCEPT !.pc = pc]
  <2>1. n.kind = q.kind /\ n.missed = q.missed /\ n.pc = pc
    BY <1>0 DEF RequestStates
  <2>2. Becomes(r, n)
    BY <1>a DEF Goto
  <2> HIDE DEF n
  <2> QED BY <1>0, <1>a, <2>1, <2>2, QuietLedger DEF Ended
<1>b. ASSUME NEW a \in Articles, PublishArticle(r, a), NEW n, Becomes(r, n),
             announced' = announced, q.pc \notin {"new", "announce"},
             n.pc = "announce", n.id = a, n.kind = q.kind, n.missed = q.missed,
             n.kind \in {"publish", "cron"}
      PROVE  Ledger'
  <2>1. /\ article' = [article EXCEPT ![a].status = "published",
                          ![a].published_at = now, ![a].publish_at = NULL]
        /\ publications' = publications \cup {<<r, a>>}
    BY <1>b DEF PublishArticle
  <2>2. \A b \in Articles : article'[b].status = "published" =>
          article[b].status = "published" \/ <<r, b>> \in publications'
    BY <1>0, <2>1
  <2>3. /\ publications \subseteq publications'
        /\ publications' \subseteq Requests \X Articles
        /\ \A s \in Requests, b \in Articles :
             <<s, b>> \in publications' \ publications => s = r /\ b = a
    BY <1>0, <2>1
  <2> QED BY <1>0, <1>b, <2>1, <2>2, <2>3, LedgerStep
<1>1. CASE Announce(r)
  <2>1. /\ q.pc = "announce" /\ q.kind \in {"create", "put", "publish", "cron"}
        /\ q.id \in Articles
        /\ UNCHANGED <<article, publications>>
    BY <1>0, <1>1 DEF Announce, At, RequestInv
  <2>2. announced' = IF q.kind = "put" THEN announced ELSE announced \cup {<<r, q.id>>}
    BY <1>1 DEF Announce
  <2> DEFINE pc == IF q.kind = "cron" THEN "due" ELSE "done"
             n == [q EXCEPT !.pc = pc]
  <2>3. Becomes(r, n)
    BY <1>1 DEF Announce, Goto
  <2>4. n.kind = q.kind /\ n.missed = q.missed /\ n.pc \notin {"new", "announce"}
    BY <1>0 DEF RequestStates
  <2> HIDE DEF n
  <2>5. /\ announced \subseteq announced'
        /\ announced' \subseteq Requests \X Articles
        /\ \A s \in Requests, b \in Articles :
             <<s, b>> \in announced' \ announced => s = r /\ b = q.id /\ q.kind # "put"
    BY <1>0, <2>1, <2>2
  <2>6. <<r, q.id>> \in announced' \/ n.kind \in {"create", "put"}
    BY <2>2, <2>4
  <2>7. \A s \in Requests, b \in Articles : <<s, b>> \in announced' \ announced =>
          /\ s = r /\ b = q.id /\ q.pc = "announce"
          /\ n.kind \in {"create", "publish", "cron"}
    BY <2>1, <2>4, <2>5
  <2>8. /\ publications' = publications
        /\ \A a \in Articles : article'[a].status = "published" =>
             article[a].status = "published" \/ <<r, a>> \in publications'
    BY <2>1
  <2> QED BY <1>0, <2>1, <2>3, <2>4, <2>5, <2>6, <2>7, <2>8, LedgerStep
<1>2. CASE Publish(r)
  <2>1. q.pc = "publish" /\ q.kind = "publish" /\ q.id \in Articles /\ announced' = announced
    BY <1>0, <1>2 DEF Publish, At, RequestInv
  <2>2. CASE PublishArticle(r, q.id) /\ Goto(r, "announce")
    <3> DEFINE n == [q EXCEPT !.pc = "announce"]
    <3>1. n.kind = q.kind /\ n.missed = q.missed /\ n.pc = "announce" /\ n.id = q.id
      BY <1>0 DEF RequestStates
    <3>2. Becomes(r, n)
      BY <2>2 DEF Goto
    <3> HIDE DEF n
    <3> QED BY <1>b, <2>1, <2>2, <3>1, <3>2
  <2>3. CASE Goto(r, "done") /\ UNCHANGED <<article, publications>>
    BY <1>a, <2>1, <2>3 DEF Ended
  <2> QED BY <1>2, <2>2, <2>3 DEF Publish
<1>3. CASE Unpublish(r)
  <2>1. q.pc = "unpublish" /\ UNCHANGED <<publications, announced>> /\ Goto(r, "done")
    BY <1>3 DEF Unpublish, At
  <2>2. \A a \in Articles : article'[a].status = "published" =>
          article[a].status = "published"
    BY <1>0, <1>3 DEF Unpublish
  <2> QED BY <1>a, <2>1, <2>2 DEF Ended
<1>4. CASE Delete(r)
  <2>1. q.pc = "delete" /\ UNCHANGED <<publications, announced>> /\ Goto(r, "done")
    BY <1>4 DEF Delete, At
  <2>2. \A a \in Articles : article'[a].status = "published" =>
          article[a].status = "published"
    BY <1>0, <1>4 DEF Delete, NoRow
  <2> QED BY <1>a, <2>1, <2>2 DEF Ended
<1>5. CASE Select(r)
  <2>1. q.pc = "select" /\ UNCHANGED <<article, publications, announced>>
    BY <1>5 DEF Select, At, tables
  <2>2. PICK S \in SUBSET Due : Becomes(r, [q EXCEPT !.pc = "due", !.due = ListOf(S)])
    BY <1>5 DEF Select
  <2> DEFINE n == [q EXCEPT !.pc = "due", !.due = ListOf(S)]
  <2>3. n.kind = q.kind /\ n.missed = q.missed /\ n.pc = "due"
    BY <1>0 DEF RequestStates
  <2>4. Becomes(r, n)
    BY <2>2
  <2> HIDE DEF n
  <2> QED BY <1>0, <2>1, <2>3, <2>4, QuietLedger
<1>6. CASE PublishDue(r)
  <2>1. q.pc = "due" /\ q.kind = "cron" /\ announced' = announced
    BY <1>0, <1>6 DEF PublishDue, At, RequestInv
  <2>2. ASSUME NEW a \in Articles, PublishArticle(r, a),
               Becomes(r, [q EXCEPT !.pc = "announce", !.id = a, !.due[a] = NULL])
        PROVE  Ledger'
    <3> DEFINE n == [q EXCEPT !.pc = "announce", !.id = a, !.due[a] = NULL]
    <3>1. n.kind = q.kind /\ n.missed = q.missed /\ n.pc = "announce" /\ n.id = a
      BY <1>0 DEF RequestStates
    <3>2. Becomes(r, n)
      BY <2>2
    <3> HIDE DEF n
    <3> QED BY <1>b, <2>1, <2>2, <3>1, <3>2
  <2>3. ASSUME NEW a \in Articles, Skip(r, a)
        PROVE  Ledger'
    <3> DEFINE n == [q EXCEPT !.due[a] = NULL]
    <3>1. n.kind = q.kind /\ n.missed = q.missed /\ n.pc = q.pc
      BY <1>0 DEF RequestStates
    <3>2. Becomes(r, n) /\ UNCHANGED <<article, publications>>
      BY <2>3 DEF Skip
    <3> HIDE DEF n
    <3> QED BY <1>0, <2>1, <3>1, <3>2, QuietLedger
  <2>4. CASE Goto(r, "done") /\ UNCHANGED <<article, publications>>
    BY <1>a, <2>1, <2>4 DEF Ended
  <2> QED BY <1>6, <2>2, <2>3, <2>4 DEF PublishDue
<1> QED BY <1>1, <1>2, <1>3, <1>4, <1>5, <1>6

\* A failed statement keeps the ledger: an announcement it prevents is missed.
LEMMA FailLedger ==
    ASSUME IInv, Ledger, NEW r \in Requests, Fail(r)
    PROVE  Ledger'
<1> DEFINE q == req[r]
<1>0. /\ q \in RequestStates /\ RequestInv(q, now) /\ TypeOK
      /\ publications \subseteq Requests \X Articles
      /\ announced \subseteq Requests \X Articles
      /\ UNCHANGED <<article, publications, announced>>
  BY DEF IInv, TypeOK, Fail, tables
<1>1. CASE q.pc # "new" /\ ~(q.pc = "announce" /\ q.kind = "cron")
           /\ Becomes(r, [q EXCEPT !.pc = "fault", !.missed = @ \cup ({q.id} \cap Articles)])
  <2> DEFINE n == [q EXCEPT !.pc = "fault", !.missed = @ \cup ({q.id} \cap Articles)]
  <2>1. n.kind = q.kind /\ n.missed = q.missed \cup ({q.id} \cap Articles) /\ n.pc = "fault"
    BY <1>0 DEF RequestStates
  <2>2. Becomes(r, n)
    BY <1>1
  <2> HIDE DEF n
  <2> QED BY <1>0, <1>1, <2>1, <2>2, LedgerStep DEF RequestInv
<1>2. CASE q.pc = "announce" /\ q.kind = "cron"
           /\ Becomes(r, [q EXCEPT !.pc = "due", !.missed = @ \cup {q.id}])
  <2> DEFINE n == [q EXCEPT !.pc = "due", !.missed = @ \cup {q.id}]
  <2>1. n.kind = q.kind /\ n.missed = q.missed \cup {q.id} /\ n.pc = "due"
    BY <1>0 DEF RequestStates
  <2>2. Becomes(r, n)
    BY <1>2
  <2> HIDE DEF n
  <2> QED BY <1>0, <1>2, <2>1, <2>2, LedgerStep DEF RequestInv
<1>3. ASSUME NEW a \in Articles, q.pc = "due",
             Becomes(r, [q EXCEPT !.due[a] = NULL, !.missed = @ \cup {a}])
      PROVE  Ledger'
  <2> DEFINE n == [q EXCEPT !.due[a] = NULL, !.missed = @ \cup {a}]
  <2>1. n.kind = q.kind /\ n.missed = q.missed \cup {a} /\ n.pc = "due"
    BY <1>0, <1>3 DEF RequestStates
  <2>2. Becomes(r, n)
    BY <1>3
  <2> HIDE DEF n
  <2> QED BY <1>0, <1>3, <2>1, <2>2, QuietLedger
<1> QED BY <1>1, <1>2, <1>3 DEF Fail

\* A crash keeps the ledger: whatever was about to be announced is missed.
LEMMA CrashLedger ==
    ASSUME IInv, Ledger, Crash
    PROVE  Ledger'
<1>0. UNCHANGED <<article, publications, announced>>
  BY DEF Crash, tables
<1>1. ASSUME NEW r \in Requests
      PROVE  \/ req'[r] = req[r] /\ req[r].pc # "announce"
             \/ /\ req[r].pc # "new" /\ req'[r].pc = "fault"
                /\ req'[r].kind = req[r].kind /\ req'[r].missed = Articles
  <2>1. req[r] \in RequestStates
    BY DEF IInv, TypeOK
  <2>2. CASE req[r].pc \in Ended \cup {"new"}
    BY <2>2 DEF Crash, Ended
  <2>3. CASE req[r].pc \notin Ended \cup {"new"}
    <3>1. req'[r] = [req[r] EXCEPT !.pc = "fault", !.missed = Articles]
      BY <2>3 DEF Crash
    <3> QED BY <2>1, <2>3, <3>1 DEF RequestStates
  <2> QED BY <2>2, <2>3
<1>2. ASSUME NEW r \in Requests
      PROVE  Pending(r, req[r])'
  BY <1>0, <1>1 DEF Ledger, Pending
<1>3. ASSUME NEW r \in Requests, NEW a \in Articles, <<r, a>> \in announced
      PROVE  IF req'[r].kind = "create" THEN \E s \in Requests : <<s, a>> \in publications
                                        ELSE <<r, a>> \in publications
  <2>1. req'[r].kind = req[r].kind
    BY <1>1
  <2> QED BY <1>3, <2>1 DEF Ledger
<1>4. ASSUME NEW r \in Requests, NEW a \in Articles, <<r, a>> \in publications,
             req'[r].kind \in {"publish", "cron"}
      PROVE  <<r, a>> \in announced \/ a \in req'[r].missed
  BY <1>1, <1>4 DEF Ledger
<1> QED BY <1>0, <1>2, <1>3, <1>4 DEF Ledger

\* The ledger is right in every reachable state.
LEMMA LedgerAlways == Spec => [](IInv /\ Ledger)
<1>1. Init => Ledger
  BY DEF Init, Ledger, Pending, NewRequest, NoRow
<1>2. IInv /\ Ledger /\ [Next]_vars => Ledger'
  <2> SUFFICES ASSUME IInv, Ledger, [Next]_vars PROVE Ledger'
    OBVIOUS
  <2>1. CASE UNCHANGED <<article, req, publications, announced>>
    BY <2>1 DEF Ledger, Pending
  <2> QED BY <2>1, ArriveLedger, SaveLedger, PublishLedger, FailLedger, CrashLedger
          DEF Next, Serve, Tick, vars, tables
<1> QED BY <1>1, <1>2, InitIInv, NextIInv, PTL DEF Spec

\* AnnouncementsCorrect: whatever publishes, cron runs, saves and faults
\* interleave, an announcement has its publication, made by the same request
\* unless a create announces it, and a publication by publish or the cron is
\* announced unless a fault of that request prevents it.
THEOREM AnnouncementsCorrect == Spec => []AnnouncementsMatch
<1>1. IInv /\ Ledger => AnnouncementsMatch
  BY LedgerImplies DEF IInv
<1> QED BY <1>1, LedgerAlways, PTL

\* EarlyCorrect: when the cron publishes an article that is not due, its
\* schedule has been changed since the run selected it.
THEOREM EarlyCorrect == Spec => EarlyOnlyIfOvertaken
<1> DEFINE Early == \A r \in Requests, a \in Articles : CronPublishes(r, a) =>
                       IsDue(a) \/ article[a].publish_at # req[r].due[a]
<1>1. IInv /\ [Next]_vars => Early \/ UNCHANGED vars
  <2> SUFFICES ASSUME IInv, [Next]_vars, NEW r \in Requests, NEW a \in Articles,
                      CronPublishes(r, a)
               PROVE  IsDue(a) \/ article[a].publish_at # req[r].due[a]
    OBVIOUS
  <2>1. req[r].kind = "cron" /\ <<r, a>> \in publications' /\ <<r, a>> \notin publications
    BY DEF CronPublishes
  <2>2. PICK s \in Requests : Save(s) \/ Publish(s) \/ PublishDue(s)
    BY <2>1 DEF Next, Arrive, Create, Put, RunCron, Address, Serve, Probe, Reload, Announce,
                Unpublish, Delete, Select, Fail, Crash, Tick, tables, vars
  <2>3. CASE Save(s)
    <3>1. req[s].kind \in {"create", "put"} /\ (req[s].kind = "put" => req[s].id \in Articles)
      BY <2>3 DEF Save, At, IInv, RequestInv
    <3>2. publications' = publications \/ \E b \in Articles : SaveAs(s, b)
      BY <2>3, <3>1 DEF Save
    <3>3. ASSUME NEW b \in Articles, SaveAs(s, b)
          PROVE  publications' \subseteq publications \cup {<<s, b>>}
      BY <3>3 DEF SaveAs
    <3> QED BY <2>1, <3>1, <3>2, <3>3
  <2>4. CASE Publish(s)
    <3>1. req[s].kind = "publish" /\ publications' \subseteq publications \cup {<<s, req[s].id>>}
      BY <2>4 DEF Publish, PublishArticle, At, IInv, RequestInv
    <3> QED BY <2>1, <3>1
  <2>5. CASE PublishDue(s)
    <3>1. PICK b \in Articles : NextDue(s, b) /\ PublishArticle(s, b)
      BY <2>1, <2>5 DEF PublishDue, Skip
    <3>2. s = r /\ b = a
      BY <2>1, <3>1 DEF PublishArticle
    <3>3. req[r].due[a] # NULL
      BY <3>1, <3>2 DEF NextDue, Listed
    <3>4. req[r].due[a] <= now
      BY <3>3 DEF IInv, RequestInv
    <3> QED BY <3>3, <3>4 DEF IsDue
  <2> QED BY <2>2, <2>3, <2>4, <2>5
<1> QED BY <1>1, IInvAlways, PTL DEF Spec, EarlyOnlyIfOvertaken

-----------------------------------------------------------------------------
(* One request at a time                                                   *)
(*                                                                         *)
(* A request that is served alone keeps what it found: the slug it probed  *)
(* stays free until it saves, and the drafts the cron has listed keep      *)
(* their publish_at until it publishes them.  So no save conflicts, and a  *)
(* publication by the cron uses up a schedule that a save had to set.      *)

Busy(r) == req[r].pc \notin Ended \cup {"new"}

\* What a request served alone can count on, the articles being t: the slug it
\* found is still free, and what it has listed still has its schedule.
Ready(q, t) ==
    /\ q.pc = "new" => q.id = NULL
    /\ q.pc \in {"probe", "save"} => /\ q.kind = "create" => q.id = NULL
                                     /\ q.kind = "put" => q.was = "unborn"
    /\ q.pc = "save" => \A a \in Articles \ {q.id} : t[a].slug # <<q.base, q.n>>
    /\ q.kind = "cron" /\ q.pc \in {"due", "announce"} => \A a \in Articles :
         q.due[a] # NULL /\ t[a].status = "draft" => t[a].publish_at # NULL
    /\ q.pc # "conflict"

SerialInv ==
    /\ \A r, s \in Requests : Busy(r) /\ Busy(s) => r = s
    /\ \A r \in Requests : Ready(req[r], article)

\* The publications of an article by the cron, and whether it will have another.
Fired(a) == {p \in publications : p[2] = a /\ req[p[1]].kind = "cron"}
Pends(a) == IF article[a].publish_at # NULL THEN 1 ELSE 0

Budget ==
    \A a \in Articles :
        /\ IsFiniteSet(Fired(a)) /\ IsFiniteSet(Saves(a))
        /\ Cardinality(Fired(a)) + Pends(a) <= Cardinality(Saves(a))

\* Does request q count among the saves of a schedule for a?
Schedules(q, a) ==
    /\ q.id = a /\ q.publish_at # NULL
    /\ q.kind = "create" \/ (q.kind = "put" /\ q.was # "unborn")

\* What a step that makes n of request r does to the schedule of a: nothing, or
\* it is set by a save, or used up by the cron.
Unscheduled(r, n, a) ==
    /\ Schedules(n, a) <=> Schedules(req[r], a)
    /\ article'[a].publish_at # NULL => article[a].publish_at # NULL
    /\ \A p \in publications' \ publications : p[2] = a => p[1] = r /\ n.kind # "cron"
Schedule(r, n, a) ==
    /\ Schedules(n, a) /\ ~Schedules(req[r], a)
    /\ \A p \in publications' \ publications : p[2] = a => p[1] = r /\ n.kind # "cron"
Fire(r, n, a) ==
    /\ Schedules(n, a) <=> Schedules(req[r], a)
    /\ article[a].publish_at # NULL /\ article'[a].publish_at = NULL
    /\ publications' \subseteq publications \cup {<<r, a>>}

\* A step of a request that is served alone.
SerialMove(r, n) ==
    /\ Becomes(r, n) /\ Ready(n, article')
    /\ req[r].pc = "new" \/ n.kind = req[r].kind
    /\ publications \subseteq publications'
    /\ \A a \in Articles : Unscheduled(r, n, a) \/ Schedule(r, n, a) \/ Fire(r, n, a)

\* A request that has ended, or has not come, counts on nothing.
LEMMA IdleReady ==
    ASSUME NEW q, NEW t, NEW u, Ready(q, t), q.pc \in Ended \cup {"new"}
    PROVE  Ready(q, u)
BY DEF Ready, Ended

\* While one request is served, the others count on nothing.
LEMMA MoveSerial ==
    ASSUME TypeOK, SerialInv, NEW r \in Requests, NEW n, SerialMove(r, n), Busy(r) \/ Quiet
    PROVE  SerialInv'
<1>1. req'[r] = n /\ \A s \in Requests \ {r} : req'[s] = req[s]
  BY DEF SerialMove, Becomes, TypeOK
<1>2. \A s \in Requests \ {r} : req[s].pc \in Ended \cup {"new"}
  BY DEF SerialInv, Quiet, Busy
<1>3. \A p, s \in Requests : Busy(p)' /\ Busy(s)' => p = s
  BY <1>1, <1>2 DEF Busy
<1>4. ASSUME NEW s \in Requests PROVE Ready(req'[s], article')
  <2>1. CASE s = r
    BY <1>1, <2>1 DEF SerialMove
  <2>2. CASE s # r
    <3>1. Ready(req[s], article) /\ req[s].pc \in Ended \cup {"new"} /\ req'[s] = req[s]
      BY <1>1, <1>2, <2>2 DEF SerialInv
    <3> QED BY <3>1, IdleReady
  <2> QED BY <2>1, <2>2
<1> QED BY <1>3, <1>4 DEF SerialInv

\* No step lets the cron publish an article more often than a schedule was saved.
LEMMA MoveBudget ==
    ASSUME IInv, Ledger, Budget, NEW r \in Requests, NEW n, SerialMove(r, n)
    PROVE  Budget'
<1> SUFFICES ASSUME NEW a \in Articles
             PROVE  /\ IsFiniteSet(Fired(a)') /\ IsFiniteSet(Saves(a)')
                    /\ Cardinality(Fired(a)') + Pends(a)' <= Cardinality(Saves(a)')
  BY DEF Budget
<1> DEFINE F == Fired(a)
           G == Fired(a)'
           S == Saves(a)
           T == Saves(a)'
<1>1. req'[r] = n /\ (\A s \in Requests \ {r} : req'[s] = req[s])
      /\ publications \subseteq Requests \X Articles
  BY DEF SerialMove, Becomes, IInv, TypeOK
<1>2. IsFiniteSet(F) /\ IsFiniteSet(S) /\ Cardinality(F) + Pends(a) <= Cardinality(S)
  BY DEF Budget
<1>3. \A p \in publications : req'[p[1]].kind = req[p[1]].kind
  <2>1. ASSUME NEW p \in publications PROVE req'[p[1]].kind = req[p[1]].kind
    <3>1. PICK s \in Requests, b \in Articles : p = <<s, b>>
      BY <1>1
    <3>2. req[s].pc # "new"
      BY <3>1 DEF Ledger, Pending
    <3> QED BY <1>1, <3>1, <3>2 DEF SerialMove
  <2> QED BY <2>1
<1>4. S = {s \in Requests : Schedules(req[s], a)} /\ T = {s \in Requests : Schedules(req'[s], a)}
  BY DEF Saves, Schedules
<1>5. F \subseteq G /\ publications \subseteq publications'
  BY <1>3 DEF Fired, SerialMove
<1>6. ASSUME \A p \in publications' \ publications : p[2] = a => p[1] = r /\ n.kind # "cron"
      PROVE  G = F
  BY <1>1, <1>3, <1>5, <1>6 DEF Fired
<1>7. ASSUME Schedules(n, a) <=> Schedules(req[r], a) PROVE T = S
  BY <1>1, <1>4, <1>7
<1>8. Pends(a) \in {0, 1} /\ Pends(a)' \in {0, 1}
  BY DEF Pends
<1>9. Cardinality(F) \in Nat /\ Cardinality(S) \in Nat
  BY <1>2, FS_CardinalityType
<1>10. CASE Unscheduled(r, n, a)
  <2>1. G = F /\ T = S
    BY <1>6, <1>7, <1>10 DEF Unscheduled
  <2>2. Pends(a)' <= Pends(a)
    BY <1>10 DEF Unscheduled, Pends
  <2> HIDE DEF F, G, S, T
  <2>3. Cardinality(F) + Pends(a)' <= Cardinality(S)
    BY <1>2, <1>8, <1>9, <2>2
  <2> QED BY <1>2, <2>1, <2>3 DEF F, G, S, T
<1>11. CASE Schedule(r, n, a)
  <2>1. G = F
    BY <1>6, <1>11 DEF Schedule
  <2>2. T = S \cup {r} /\ r \notin S
    BY <1>1, <1>4, <1>11 DEF Schedule
  <2> HIDE DEF F, G, S, T
  <2>3. IsFiniteSet(T) /\ Cardinality(T) = Cardinality(S) + 1
    BY <1>2, <2>2, FS_AddElement
  <2>4. Cardinality(F) + Pends(a)' <= Cardinality(T)
    BY <1>2, <1>8, <1>9, <2>3
  <2> QED BY <1>2, <2>1, <2>3, <2>4 DEF F, G, S, T
<1>12. CASE Fire(r, n, a)
  <2>1. T = S
    BY <1>7, <1>12 DEF Fire
  <2>2. G = F \/ G = F \cup {<<r, a>>}
    BY <1>3, <1>5, <1>12 DEF Fired, Fire
  <2>3. Pends(a) = 1 /\ Pends(a)' = 0
    BY <1>12 DEF Fire, Pends
  <2> HIDE DEF F, G, S, T
  <2>4. IsFiniteSet(G) /\ Cardinality(G) <= Cardinality(F) + 1
    <3>1. Cardinality(F \cup {<<r, a>>}) <= Cardinality(F) + 1 /\ IsFiniteSet(F \cup {<<r, a>>})
      <4>1. Cardinality(F \cup {<<r, a>>}) \in {Cardinality(F), Cardinality(F) + 1}
        BY <1>2, FS_AddElement, Zenon
      <4>2. IsFiniteSet(F \cup {<<r, a>>})
        BY <1>2, FS_AddElement
      <4> QED BY <1>9, <4>1, <4>2
    <3>2. CASE G = F
      <4>1. Cardinality(F) <= Cardinality(F) + 1
        BY <1>9
      <4> QED BY <1>2, <3>2, <4>1
    <3>3. CASE G = F \cup {<<r, a>>}
      BY <3>1, <3>3
    <3> QED BY <2>2, <3>2, <3>3
  <2>5. Cardinality(G) \in Nat
    BY <2>4, FS_CardinalityType
  <2>6. Cardinality(G) + Pends(a)' <= Cardinality(S)
    BY <1>2, <1>9, <2>3, <2>4, <2>5
  <2> QED BY <1>2, <2>1, <2>4, <2>6 DEF F, G, S, T
<1> QED BY <1>10, <1>11, <1>12 DEF SerialMove

-----------------------------------------------------------------------------
(* Its steps                                                               *)

\* A step that leaves articles and publications alone, and its request's schedule.
LEMMA StillMove ==
    ASSUME NEW r \in Requests, NEW n, Becomes(r, n), Ready(n, article),
           UNCHANGED <<article, publications>>,
           req[r].pc = "new" \/ n.kind = req[r].kind,
           \A a \in Articles : Schedules(n, a) <=> Schedules(req[r], a)
    PROVE  SerialMove(r, n)
BY DEF SerialMove, Unscheduled

\* A request that goes to another step of its own.
LEMMA GotoMove ==
    ASSUME IInv, SerialInv, NEW r \in Requests,
           NEW pc \in {"announce", "due", "done", "fault"}, Goto(r, pc),
           req[r].kind = "cron" /\ pc \in {"announce", "due"} => \A a \in Articles :
              req[r].due[a] # NULL /\ article[a].status = "draft" => article[a].publish_at # NULL,
           UNCHANGED <<article, publications>>
    PROVE  \E n : SerialMove(r, n)
<1> DEFINE n == [req[r] EXCEPT !.pc = pc]
<1>1. /\ n.pc = pc /\ n.kind = req[r].kind /\ n.id = req[r].id
      /\ n.publish_at = req[r].publish_at /\ n.was = req[r].was /\ n.due = req[r].due
  BY DEF IInv, TypeOK, RequestStates
<1>2. Becomes(r, n)
  BY DEF Goto
<1> HIDE DEF n
<1>3. Ready(n, article)
  BY <1>1 DEF Ready
<1>4. \A a \in Articles : Schedules(n, a) <=> Schedules(req[r], a)
  BY <1>1 DEF Schedules
<1> QED BY <1>1, <1>2, <1>3, <1>4, StillMove

LEMMA ArriveMove ==
    ASSUME IInv, SerialInv, NEW r \in Requests, Arrive(r)
    PROVE  \E n : SerialMove(r, n)
<1>1. req[r].pc = "new" /\ UNCHANGED <<article, publications>>
      /\ req[r].id = NULL
  <2>1. req[r].pc = "new" /\ UNCHANGED <<article, publications>>
    BY DEF Arrive, Create, Put, RunCron, Address, At, tables
  <2> QED BY <2>1 DEF SerialInv, Ready
<1>2. \A a \in Articles : ~Schedules(req[r], a)
  BY <1>1 DEF Schedules
<1>3. ASSUME NEW n, Becomes(r, n), n.pc \in {"probe", "publish", "unpublish", "delete", "select"},
             n.kind = "create" => n.id = NULL, n.was = "unborn"
      PROVE  SerialMove(r, n)
  <2>1. Ready(n, article) /\ \A a \in Articles : ~Schedules(n, a)
    BY <1>3 DEF Ready, Schedules
  <2> QED BY <1>1, <1>2, <1>3, <2>1, StillMove
<1>4. CASE Create(r)
  <2>1. PICK b \in Bases, s \in {"draft", "published"}, at \in Instants \cup {NULL} :
          Becomes(r, [NewRequest EXCEPT !.pc = "probe", !.kind = "create",
                                        !.base = b, !.status = s, !.publish_at = at])
    BY <1>4 DEF Create
  <2> DEFINE n == [NewRequest EXCEPT !.pc = "probe", !.kind = "create",
                                     !.base = b, !.status = s, !.publish_at = at]
  <2>2. n.pc = "probe" /\ n.id = NULL /\ n.was = "unborn"
    BY DEF NewRequest
  <2>3. Becomes(r, n)
    BY <2>1
  <2> HIDE DEF n
  <2> QED BY <1>3, <2>2, <2>3
<1>5. CASE Put(r)
  <2>1. PICK a \in Articles, b \in Bases, from \in {"title", "slug"},
             s \in {"draft", "published"}, at \in Instants \cup {NULL} :
          Becomes(r, [NewRequest EXCEPT !.pc = "probe", !.kind = "put", !.id = a,
                                        !.base = b, !.from = from, !.status = s,
                                        !.publish_at = at])
    BY <1>5 DEF Put
  <2> DEFINE n == [NewRequest EXCEPT !.pc = "probe", !.kind = "put", !.id = a,
                                     !.base = b, !.from = from, !.status = s,
                                     !.publish_at = at]
  <2>2. n.pc = "probe" /\ n.kind = "put" /\ n.was = "unborn"
    BY DEF NewRequest
  <2>3. Becomes(r, n)
    BY <2>1
  <2> HIDE DEF n
  <2> QED BY <1>3, <2>2, <2>3
<1>6. CASE RunCron(r)
  <2> DEFINE n == [NewRequest EXCEPT !.pc = "select", !.kind = "cron"]
  <2>1. n.pc = "select" /\ n.kind = "cron" /\ n.was = "unborn"
    BY DEF NewRequest
  <2>2. Becomes(r, n)
    BY <1>6 DEF RunCron
  <2> HIDE DEF n
  <2> QED BY <1>3, <2>1, <2>2
<1>7. ASSUME NEW kind \in {"publish", "unpublish", "delete"}, Address(r, kind)
      PROVE  \E n : SerialMove(r, n)
  <2>1. PICK a \in Articles :
          Becomes(r, [NewRequest EXCEPT !.pc = kind, !.kind = kind, !.id = a])
    BY <1>7 DEF Address
  <2> DEFINE n == [NewRequest EXCEPT !.pc = kind, !.kind = kind, !.id = a]
  <2>2. n.pc = kind /\ n.kind = kind /\ n.was = "unborn"
    BY DEF NewRequest
  <2>3. Becomes(r, n)
    BY <2>1
  <2> HIDE DEF n
  <2> QED BY <1>3, <2>2, <2>3
<1> QED BY <1>4, <1>5, <1>6, <1>7 DEF Arrive

\* The search stops at a slug that is free.
LEMMA ProbeMove ==
    ASSUME IInv, SerialInv, NEW r \in Requests, Probe(r)
    PROVE  \E n : SerialMove(r, n)
<1> DEFINE q == req[r]
<1>0. q \in RequestStates /\ q.pc = "probe" /\ Ready(q, article)
      /\ UNCHANGED <<article, publications>>
  BY DEF IInv, TypeOK, SerialInv, Probe, At, tables
<1>1. CASE /\ ~SlugExists(<<q.base, q.n>>, q.id)
           /\ Becomes(r, [q EXCEPT !.pc = "save",
                                   !.stamp = IF q.status = "published" THEN now ELSE NULL])
  <2> DEFINE n == [q EXCEPT !.pc = "save",
                            !.stamp = IF q.status = "published" THEN now ELSE NULL]
  <2>1. /\ n.pc = "save" /\ n.kind = q.kind /\ n.id = q.id /\ n.base = q.base /\ n.n = q.n
        /\ n.publish_at = q.publish_at /\ n.was = q.was
    BY <1>0 DEF RequestStates
  <2>2. Becomes(r, n)
    BY <1>1
  <2> HIDE DEF n
  <2>3. Ready(n, article)
    BY <1>0, <1>1, <2>1 DEF Ready, SlugExists
  <2>4. \A a \in Articles : Schedules(n, a) <=> Schedules(q, a)
    BY <2>1 DEF Schedules
  <2> QED BY <1>0, <2>1, <2>2, <2>3, <2>4, StillMove
<1>2. CASE Becomes(r, [q EXCEPT !.n = q.n + 1])
  <2> DEFINE n == [q EXCEPT !.n = q.n + 1]
  <2>1. /\ n.pc = "probe" /\ n.kind = q.kind /\ n.id = q.id
        /\ n.publish_at = q.publish_at /\ n.was = q.was
    BY <1>0 DEF RequestStates
  <2>2. Becomes(r, n)
    BY <1>2
  <2> HIDE DEF n
  <2>3. Ready(n, article)
    BY <1>0, <2>1 DEF Ready
  <2>4. \A a \in Articles : Schedules(n, a) <=> Schedules(q, a)
    BY <2>1 DEF Schedules
  <2> QED BY <1>0, <2>1, <2>2, <2>3, <2>4, StillMove
<1>3. CASE Goto(r, "fault")
  BY <1>0, <1>3, GotoMove
<1> QED BY <1>1, <1>2, <1>3 DEF Probe

\* The transaction of a request served alone does not conflict; it sets a schedule
\* or takes one away.
LEMMA SaveMove ==
    ASSUME IInv, SerialInv, NEW r \in Requests, Save(r)
    PROVE  \E n : SerialMove(r, n)
<1> DEFINE q == req[r]
<1>0. /\ q \in RequestStates /\ q.pc = "save" /\ Ready(q, article)
      /\ article \in [Articles -> Rows]
      /\ q.kind \in {"create", "put"} /\ (q.kind = "put" => q.id \in Articles)
  BY DEF IInv, TypeOK, SerialInv, Save, At, RequestInv
<1>1. ASSUME NEW a \in Articles, SaveAs(r, a),
             \/ q.kind = "create" /\ q.id = NULL
             \/ q.kind = "put" /\ q.id = a /\ q.was = "unborn" /\ article[a].status # "unborn"
      PROVE  \E n : SerialMove(r, n)
  <2> DEFINE n == [q EXCEPT !.pc = "reload", !.id = a, !.was = article[a].status]
  <2>1. \A b \in Articles \ {a} : article[b].slug # <<q.base, q.n>>
    BY <1>0, <1>1 DEF Ready
  <2>2. /\ article' = [article EXCEPT ![a] = Saved(q)] /\ Becomes(r, n)
        /\ publications' = IF q.status = "published" /\ article[a].status # "published"
                           THEN publications \cup {<<r, a>>} ELSE publications
    BY <1>1, <2>1 DEF SaveAs
  <2>3. /\ n.pc = "reload" /\ n.kind = q.kind /\ n.id = a
        /\ n.publish_at = q.publish_at /\ n.was = article[a].status
    BY <1>0 DEF RequestStates
  <2> HIDE DEF n
  <2>4. Ready(n, article')
    BY <2>3 DEF Ready
  <2>5. \A p \in publications' \ publications : p[1] = r /\ p[2] = a
    BY <2>2
  <2>6. ASSUME NEW b \in Articles
        PROVE  Unscheduled(r, n, b) \/ Schedule(r, n, b)
    <3>1. ~Schedules(q, b)
      BY <1>1 DEF Schedules
    <3>2. \A p \in publications' \ publications : p[2] = b => p[1] = r /\ n.kind # "cron"
      BY <1>0, <2>3, <2>5
    <3>3. CASE b # a
      <4>1. article'[b] = article[b] /\ ~Schedules(n, b)
        BY <1>0, <2>2, <2>3, <3>3 DEF Schedules
      <4> QED BY <3>1, <3>2, <4>1 DEF Unscheduled
    <3>4. CASE b = a
      <4>1. article'[a].publish_at = q.publish_at
        BY <1>0, <2>2 DEF Saved
      <4>2. CASE q.publish_at = NULL
        <5>1. ~Schedules(n, a)
          BY <2>3, <4>2 DEF Schedules
        <5> QED BY <3>1, <3>2, <3>4, <4>1, <4>2, <5>1 DEF Unscheduled
      <4>3. CASE q.publish_at # NULL
        <5>1. Schedules(n, a)
          BY <1>1, <2>3, <4>3 DEF Schedules
        <5> QED BY <3>1, <3>2, <3>4, <5>1 DEF Schedule
      <4> QED BY <4>2, <4>3
    <3> QED BY <3>3, <3>4
  <2> QED BY <2>2, <2>3, <2>4, <2>6 DEF SerialMove
<1>2. CASE q.kind = "create" /\ \E a \in Articles : SaveAs(r, a)
  BY <1>0, <1>1, <1>2 DEF Ready
<1>3. CASE q.kind = "put" /\ Exists(q.id) /\ SaveAs(r, q.id)
  BY <1>0, <1>1, <1>3 DEF Ready, Exists
<1>4. CASE Goto(r, "done") /\ UNCHANGED <<article, publications>>
  BY <1>0, <1>4, GotoMove
<1> QED BY <1>2, <1>3, <1>4 DEF Save


LEMMA ReloadMove ==
    ASSUME IInv, SerialInv, NEW r \in Requests, Reload(r) \/ Announce(r)
    PROVE  \E n : SerialMove(r, n)
<1> DEFINE q == req[r]
<1>0. RequestInv(q, now) /\ Ready(q, article) /\ UNCHANGED <<article, publications>>
  BY DEF IInv, SerialInv, Reload, Announce, tables
<1>1. CASE Reload(r)
  <2>1. q.kind # "cron" /\ (Goto(r, "announce") \/ Goto(r, "done"))
    BY <1>0, <1>1 DEF Reload, At, RequestInv
  <2> QED BY <1>0, <2>1, GotoMove
<1>2. CASE Announce(r)
  <2>1. q.pc = "announce" /\ (Goto(r, "due") \/ Goto(r, "done"))
    BY <1>2 DEF Announce, At
  <2>2. q.kind = "cron" => \A a \in Articles :
          q.due[a] # NULL /\ article[a].status = "draft" => article[a].publish_at # NULL
    BY <1>0, <2>1 DEF Ready
  <2> QED BY <1>0, <2>1, <2>2, GotoMove
<1> QED BY <1>1, <1>2

\* The cron lists drafts with a schedule, and publishing one takes the schedule away.
LEMMA CronMove ==
    ASSUME IInv, SerialInv, NEW r \in Requests, Select(r) \/ PublishDue(r)
    PROVE  \E n : SerialMove(r, n)
<1> DEFINE q == req[r]
<1>0. /\ q \in RequestStates /\ q.kind = "cron" /\ Ready(q, article)
      /\ article \in [Articles -> Rows]
  BY DEF IInv, TypeOK, SerialInv, Select, PublishDue, At, RequestInv
<1>1. \A n : n.kind = "cron" => \A a \in Articles : ~Schedules(n, a)
  BY DEF Schedules
<1>2. CASE Select(r)
  <2>1. PICK S \in SUBSET Due : Becomes(r, [q EXCEPT !.pc = "due", !.due = ListOf(S)])
    BY <1>2 DEF Select
  <2> DEFINE n == [q EXCEPT !.pc = "due", !.due = ListOf(S)]
  <2>2. n.pc = "due" /\ n.kind = "cron" /\ n.due = ListOf(S)
    BY <1>0 DEF RequestStates
  <2>3. Becomes(r, n) /\ UNCHANGED <<article, publications>>
    BY <1>2, <2>1 DEF Select, tables
  <2> HIDE DEF n
  <2>4. Ready(n, article)
    BY <2>2 DEF Ready, ListOf, Due
  <2> QED BY <1>0, <1>1, <2>2, <2>3, <2>4, StillMove
<1>3. ASSUME q.pc = "due", NEW a \in Articles, NextDue(r, a), PublishArticle(r, a),
             Becomes(r, [q EXCEPT !.pc = "announce", !.id = a, !.due[a] = NULL])
      PROVE  \E n : SerialMove(r, n)
  <2> DEFINE n == [q EXCEPT !.pc = "announce", !.id = a, !.due[a] = NULL]
  <2>1. /\ n.pc = "announce" /\ n.kind = "cron"
        /\ \A b \in Articles : n.due[b] = IF b = a THEN NULL ELSE q.due[b]
    BY <1>0 DEF RequestStates
  <2>2. Becomes(r, n)
    BY <1>3
  <2> HIDE DEF n
  <2>3. /\ \A b \in Articles \ {a} : article'[b] = article[b]
        /\ article'[a].publish_at = NULL /\ publications' = publications \cup {<<r, a>>}
    BY <1>0, <1>3 DEF PublishArticle, Rows
  <2>4. article[a].publish_at # NULL
    BY <1>0, <1>3 DEF NextDue, Listed, PublishArticle, Ready
  <2>5. Ready(n, article')
    BY <1>0, <1>3, <2>1, <2>3 DEF Ready
  <2>6. ASSUME NEW b \in Articles PROVE Unscheduled(r, n, b) \/ Fire(r, n, b)
    <3>1. CASE b = a
      BY <1>0, <1>1, <2>1, <2>3, <2>4, <3>1 DEF Fire
    <3>2. CASE b # a
      BY <1>0, <1>1, <2>1, <2>3, <3>2 DEF Unscheduled
    <3> QED BY <3>1, <3>2
  <2> QED BY <1>0, <2>1, <2>2, <2>3, <2>5, <2>6 DEF SerialMove
<1>4. ASSUME q.pc = "due", NEW a \in Articles, Skip(r, a)
      PROVE  \E n : SerialMove(r, n)
  <2> DEFINE n == [q EXCEPT !.due[a] = NULL]
  <2>1. /\ n.pc = "due" /\ n.kind = "cron"
        /\ \A b \in Articles : n.due[b] = IF b = a THEN NULL ELSE q.due[b]
    BY <1>0, <1>4 DEF RequestStates
  <2>2. Becomes(r, n) /\ UNCHANGED <<article, publications>>
    BY <1>4 DEF Skip
  <2> HIDE DEF n
  <2>3. Ready(n, article)
    BY <1>0, <1>4, <2>1 DEF Ready
  <2> QED BY <1>0, <1>1, <2>1, <2>2, <2>3, StillMove
<1>5. CASE PublishDue(r) /\ Goto(r, "done") /\ UNCHANGED <<article, publications>>
  BY <1>5, GotoMove
<1> QED BY <1>2, <1>3, <1>4, <1>5 DEF PublishDue, At

\* A step that may change articles and publish, of a request that saves nothing.
LEMMA AdminMove ==
    ASSUME IInv, SerialInv, NEW r \in Requests, Publish(r) \/ Unpublish(r) \/ Delete(r)
    PROVE  \E n : SerialMove(r, n)
<1> DEFINE q == req[r]
<1>0. /\ q \in RequestStates /\ q.kind \in {"publish", "unpublish", "delete"} /\ q.id \in Articles
      /\ article \in [Articles -> Rows]
  BY DEF IInv, TypeOK, Publish, Unpublish, Delete, At, RequestInv
<1>1. ASSUME NEW pc \in {"announce", "done"}, Goto(r, pc),
             publications' \in {publications, publications \cup {<<r, q.id>>}},
             \A a \in Articles : article'[a].publish_at # NULL => article[a].publish_at # NULL
      PROVE  \E n : SerialMove(r, n)
  <2> DEFINE n == [q EXCEPT !.pc = pc]
  <2>1. n.pc = pc /\ n.kind = q.kind
    BY <1>0 DEF RequestStates
  <2>2. Becomes(r, n)
    BY <1>1 DEF Goto
  <2> HIDE DEF n
  <2>3. Ready(n, article')
    BY <1>0, <1>1, <2>1 DEF Ready
  <2>4. \A a \in Articles : Unscheduled(r, n, a)
    BY <1>0, <1>1, <2>1 DEF Unscheduled, Schedules
  <2> QED BY <1>1, <2>1, <2>2, <2>3, <2>4 DEF SerialMove
<1>2. CASE Publish(r)
  <2>1. CASE PublishArticle(r, q.id) /\ Goto(r, "announce")
    <3>1. \A a \in Articles : article'[a].publish_at # NULL => article[a].publish_at # NULL
      BY <1>0, <2>1 DEF PublishArticle, Rows
    <3>2. publications' = publications \cup {<<r, q.id>>}
      BY <2>1 DEF PublishArticle
    <3> QED BY <1>1, <2>1, <3>1, <3>2
  <2>2. CASE Goto(r, "done") /\ UNCHANGED <<article, publications>>
    BY <1>1, <2>2
  <2> QED BY <1>2, <2>1, <2>2 DEF Publish
<1>3. CASE Unpublish(r)
  <2>1. \A a \in Articles : article'[a].publish_at = article[a].publish_at
    BY <1>0, <1>3 DEF Unpublish, Rows
  <2> QED BY <1>1, <1>3, <2>1 DEF Unpublish
<1>4. CASE Delete(r)
  <2>1. \A a \in Articles : article'[a].publish_at # NULL => article[a].publish_at # NULL
    BY <1>0, <1>4 DEF Delete, NoRow
  <2> QED BY <1>1, <1>4, <2>1 DEF Delete
<1> QED BY <1>2, <1>3, <1>4

LEMMA FailMove ==
    ASSUME IInv, SerialInv, NEW r \in Requests, Fail(r)
    PROVE  \E n : SerialMove(r, n)
<1> DEFINE q == req[r]
<1>0. q \in RequestStates /\ RequestInv(q, now) /\ Ready(q, article)
      /\ UNCHANGED <<article, publications>>
  BY DEF IInv, TypeOK, SerialInv, Fail, tables
<1>a. ASSUME NEW n, Becomes(r, n), Ready(n, article), n.kind = q.kind, n.id = q.id,
             n.publish_at = q.publish_at, n.was = q.was
      PROVE  \E m : SerialMove(r, m)
  <2>1. \A a \in Articles : Schedules(n, a) <=> Schedules(q, a)
    BY <1>a DEF Schedules
  <2> QED BY <1>0, <1>a, <2>1, StillMove
<1>1. CASE Becomes(r, [q EXCEPT !.pc = "fault", !.missed = @ \cup ({q.id} \cap Articles)])
  <2> DEFINE n == [q EXCEPT !.pc = "fault", !.missed = @ \cup ({q.id} \cap Articles)]
  <2>1. /\ n.pc = "fault" /\ n.kind = q.kind /\ n.id = q.id
        /\ n.publish_at = q.publish_at /\ n.was = q.was
    BY <1>0 DEF RequestStates
  <2>2. Becomes(r, n)
    BY <1>1
  <2> HIDE DEF n
  <2>3. Ready(n, article)
    BY <2>1 DEF Ready
  <2> QED BY <1>a, <2>1, <2>2, <2>3
<1>2. CASE q.pc = "announce" /\ q.kind = "cron"
           /\ Becomes(r, [q EXCEPT !.pc = "due", !.missed = @ \cup {q.id}])
  <2> DEFINE n == [q EXCEPT !.pc = "due", !.missed = @ \cup {q.id}]
  <2>1. /\ n.pc = "due" /\ n.kind = q.kind /\ n.id = q.id /\ n.due = q.due
        /\ n.publish_at = q.publish_at /\ n.was = q.was
    BY <1>0 DEF RequestStates
  <2>2. Becomes(r, n)
    BY <1>2
  <2> HIDE DEF n
  <2>3. Ready(n, article)
    BY <1>0, <1>2, <2>1 DEF Ready
  <2> QED BY <1>a, <2>1, <2>2, <2>3
<1>3. ASSUME NEW a \in Articles, q.pc = "due",
             Becomes(r, [q EXCEPT !.due[a] = NULL, !.missed = @ \cup {a}])
      PROVE  \E n : SerialMove(r, n)
  <2> DEFINE n == [q EXCEPT !.due[a] = NULL, !.missed = @ \cup {a}]
  <2>1. /\ n.pc = "due" /\ n.kind = q.kind /\ n.id = q.id
        /\ n.publish_at = q.publish_at /\ n.was = q.was
        /\ \A b \in Articles : n.due[b] = IF b = a THEN NULL ELSE q.due[b]
    BY <1>0, <1>3 DEF RequestStates
  <2>2. Becomes(r, n)
    BY <1>3
  <2> HIDE DEF n
  <2>3. Ready(n, article)
    BY <1>0, <1>3, <2>1 DEF Ready
  <2> QED BY <1>a, <2>1, <2>2, <2>3
<1> QED BY <1>1, <1>2, <1>3 DEF Fail

LEMMA CrashSerial ==
    ASSUME IInv, SerialInv, Budget, Crash
    PROVE  SerialInv' /\ Budget'
<1>1. UNCHANGED <<article, publications>>
  BY DEF Crash, tables
<1>2. ASSUME NEW r \in Requests
      PROVE  /\ req'[r].kind = req[r].kind /\ req'[r].id = req[r].id
             /\ req'[r].publish_at = req[r].publish_at /\ req'[r].was = req[r].was
             /\ req'[r].pc \in Ended \cup {"new"} /\ Ready(req'[r], article)
  <2>1. req[r] \in RequestStates /\ Ready(req[r], article)
    BY DEF IInv, TypeOK, SerialInv
  <2>2. CASE req[r].pc \in Ended \cup {"new"}
    BY <2>1, <2>2 DEF Crash
  <2>3. CASE req[r].pc \notin Ended \cup {"new"}
    <3>1. req'[r] = [req[r] EXCEPT !.pc = "fault", !.missed = Articles]
      BY <2>3 DEF Crash
    <3>2. /\ req'[r].kind = req[r].kind /\ req'[r].id = req[r].id
          /\ req'[r].publish_at = req[r].publish_at /\ req'[r].was = req[r].was
          /\ req'[r].pc = "fault"
      BY <2>1, <3>1 DEF RequestStates
    <3> QED BY <3>2 DEF Ready, Ended
  <2> QED BY <2>2, <2>3
<1>3. SerialInv'
  BY <1>1, <1>2 DEF SerialInv, Busy
<1>4. ASSUME NEW a \in Articles
      PROVE  Fired(a)' = Fired(a) /\ Saves(a)' = Saves(a) /\ Pends(a)' = Pends(a)
  <2>1. \A p \in publications : p[1] \in Requests
    BY DEF IInv, TypeOK
  <2> QED BY <1>1, <1>2, <2>1 DEF Fired, Saves, Pends
<1> QED BY <1>3, <1>4 DEF Budget

\* Every step of SerialSpec keeps both.
LEMMA SerialNextInv ==
    IInv /\ Ledger /\ SerialInv /\ Budget /\ [SerialNext]_vars => SerialInv' /\ Budget'
<1> SUFFICES ASSUME IInv, Ledger, SerialInv, Budget, [SerialNext]_vars
             PROVE  SerialInv' /\ Budget'
  OBVIOUS
<1>0. TypeOK
  BY DEF IInv
<1>1. ASSUME NEW r \in Requests, Quiet, Arrive(r) PROVE SerialInv' /\ Budget'
  BY <1>0, <1>1, ArriveMove, MoveSerial, MoveBudget
<1>2. ASSUME NEW r \in Requests, Serve(r) PROVE SerialInv' /\ Budget'
  <2>1. Busy(r)
    BY <1>2 DEF Serve, Probe, Save, Reload, Announce, Publish, Unpublish, Delete, Select,
                PublishDue, At, Busy, Ended
  <2>2. \E n : SerialMove(r, n)
    BY <1>2, ProbeMove, SaveMove, ReloadMove, AdminMove, CronMove DEF Serve
  <2> QED BY <1>0, <2>1, <2>2, MoveSerial, MoveBudget
<1>3. ASSUME NEW r \in Requests, Fail(r) PROVE SerialInv' /\ Budget'
  <2>1. Busy(r)
    BY <1>3 DEF Fail, Busy, Ended
  <2> QED BY <1>0, <1>3, <2>1, FailMove, MoveSerial, MoveBudget
<1>4. CASE Tick \/ UNCHANGED vars
  <2>1. UNCHANGED <<article, req, publications>>
    BY <1>4 DEF Tick, vars, tables
  <2>2. SerialInv'
    BY <2>1 DEF SerialInv, Busy
  <2>3. \A a \in Articles : Fired(a)' = Fired(a) /\ Saves(a)' = Saves(a) /\ Pends(a)' = Pends(a)
    BY <2>1 DEF Fired, Saves, Pends
  <2> QED BY <2>2, <2>3 DEF Budget
<1> QED BY <1>1, <1>2, <1>3, <1>4, CrashSerial DEF SerialNext

\* Serving one request at a time is a way to serve requests.
LEMMA SerialIsSpec == SerialSpec => Spec
<1>1. [SerialNext]_vars => [Next]_vars
  BY DEF SerialNext, Next
<1> QED BY <1>1, PTL DEF SerialSpec, Spec

LEMMA SerialAlways == SerialSpec => [](IInv /\ Ledger /\ SerialInv /\ Budget)
<1>1. Init => SerialInv /\ Budget
  <2> SUFFICES ASSUME Init PROVE SerialInv /\ Budget
    OBVIOUS
  <2>1. \A r \in Requests : req[r] = NewRequest
    BY DEF Init
  <2>2. NewRequest.pc = "new" /\ NewRequest.id = NULL
    BY DEF NewRequest
  <2>3. SerialInv
    BY <2>1, <2>2 DEF SerialInv, Busy, Ready
  <2>4. \A a \in Articles : Fired(a) = {} /\ Saves(a) = {} /\ Pends(a) = 0
    BY <2>1, <2>2 DEF Init, Fired, Saves, Pends, NoRow
  <2>5. IsFiniteSet({}) /\ Cardinality({}) = 0
    BY FS_EmptySet
  <2>6. \A a \in Articles :
          /\ IsFiniteSet(Fired(a)) /\ IsFiniteSet(Saves(a))
          /\ Cardinality(Fired(a)) = 0 /\ Cardinality(Saves(a)) = 0 /\ Pends(a) = 0
    BY <2>4, <2>5, Zenon
  <2> QED BY <2>3, <2>6 DEF Budget
<1> QED BY <1>1, SerialIsSpec, SerialNextInv, LedgerAlways, PTL DEF SerialSpec

\* SlugsCorrect: a request served alone is never refused for its slug: UniqueSlug
\* finds a free one before the save, or gives up.
THEOREM SlugsCorrect == SerialSpec => []CollisionsGetSuffix
<1>1. SerialInv => CollisionsGetSuffix
  BY DEF SerialInv, Ready, CollisionsGetSuffix
<1> QED BY <1>1, SerialAlways, PTL

\* ScheduleCorrect: with requests one at a time, faults and crashes among them, the
\* cron publishes an article at most as often as a save gave it a publish_at.
THEOREM ScheduleCorrect == SerialSpec => []ScheduleFiresOnce
<1>1. ASSUME Budget PROVE ScheduleFiresOnce
  <2>1. ASSUME NEW a \in Articles PROVE Cardinality(Fired(a)) <= Cardinality(Saves(a))
    <3>1. /\ IsFiniteSet(Fired(a)) /\ IsFiniteSet(Saves(a))
          /\ Cardinality(Fired(a)) + Pends(a) <= Cardinality(Saves(a))
      BY <1>1 DEF Budget
    <3>2. Cardinality(Fired(a)) \in Nat /\ Cardinality(Saves(a)) \in Nat /\ Pends(a) \in {0, 1}
      BY <3>1, FS_CardinalityType DEF Pends
    <3> QED BY <3>1, <3>2
  <2> QED BY <2>1 DEF ScheduleFiresOnce, Fired
<1> QED BY <1>1, SerialAlways, PTL

-----------------------------------------------------------------------------
(* The list of a cron run                                                  *)

\* Only a cron run has a list, from its SELECT on.
ListOfCron(q) == \A a \in Articles : q.due[a] # NULL =>
                    q.kind = "cron" /\ q.pc \in {"due", "announce"} \cup Ended

ListsOfCron == \A r \in Requests : ListOfCron(req[r])

\* a is off the list of q, or q is over.
Off(q, a) == q.due[a] = NULL \/ q.pc \in Ended

\* A request that goes from q to n leaves an article that it drops from its list
\* published, or not a draft any more, or says that it has missed it.
Serves(q, n, articles) ==
    \A a \in Articles : ~Off(q, a) /\ Off(n, a) => articles[a].status # "draft" \/ a \in n.missed

\* What leaves the list of a run, and why.
EachIsServed ==
    [][\A r \in Requests, a \in Articles : ~Off(req[r], a) /\ Off(req'[r], a) =>
          article'[a].status # "draft" \/ a \in req'[r].missed]_vars

LEMMA BecomesIs ==
    ASSUME TypeOK, NEW r \in Requests, NEW n, Becomes(r, n)
    PROVE  req'[r] = n /\ \A p \in Requests \ {r} : req'[p] = req[p]
BY DEF Becomes, TypeOK

\* A request without a list goes to another step.
LEMMA NoListMove ==
    ASSUME NEW q, NEW n, NEW rows, ListOfCron(q),
           q.kind # "cron" \/ q.pc \notin {"due", "announce"} \cup Ended, n.due = q.due
    PROVE  ListOfCron(n) /\ Serves(q, n, rows)
BY DEF ListOfCron, Serves, Off

LEMMA ArriveList ==
    ASSUME IInv, NEW r \in Requests, Arrive(r), ListOfCron(req[r])
    PROVE  /\ ListOfCron(req'[r]) /\ Serves(req[r], req'[r], article')
           /\ \A p \in Requests \ {r} : req'[p] = req[p]
<1>1. \A n : n.due = Nothing => ListOfCron(n) /\ Serves(req[r], n, article')
  <2>1. req[r].pc = "new"
    BY Zenon DEF Arrive, Create, Put, RunCron, Address, At
  <2>2. \A a \in Articles : req[r].due[a] = NULL
    BY <2>1 DEF ListOfCron, Ended
  <2> QED BY <2>2 DEF Nothing, ListOfCron, Serves, Off
<1>2. ASSUME NEW n, n.due = Nothing, Becomes(r, n)
      PROVE  /\ ListOfCron(req'[r]) /\ Serves(req[r], req'[r], article')
             /\ \A p \in Requests \ {r} : req'[p] = req[p]
  BY <1>1, <1>2, BecomesIs DEF IInv
<1>3. CASE Create(r)
  <2>1. PICK b \in Bases, s \in {"draft", "published"}, at \in Instants \cup {NULL} :
          Becomes(r, [NewRequest EXCEPT !.pc = "probe", !.kind = "create",
                                        !.base = b, !.status = s, !.publish_at = at])
    BY <1>3, Zenon DEF Create
  <2> DEFINE n == [NewRequest EXCEPT !.pc = "probe", !.kind = "create",
                                     !.base = b, !.status = s, !.publish_at = at]
  <2>2. n.due = Nothing
    BY DEF NewRequest
  <2> HIDE DEF n
  <2> QED BY <1>2, <2>1, <2>2 DEF n
<1>4. CASE Put(r)
  <2>1. PICK a \in Articles, b \in Bases, from \in {"title", "slug"},
               s \in {"draft", "published"}, at \in Instants \cup {NULL} :
          Becomes(r, [NewRequest EXCEPT !.pc = "probe", !.kind = "put", !.id = a,
                                        !.base = b, !.from = from, !.status = s,
                                        !.publish_at = at])
    BY <1>4, Zenon DEF Put
  <2> DEFINE n == [NewRequest EXCEPT !.pc = "probe", !.kind = "put", !.id = a,
                                     !.base = b, !.from = from, !.status = s,
                                     !.publish_at = at]
  <2>2. n.due = Nothing
    BY DEF NewRequest
  <2> HIDE DEF n
  <2> QED BY <1>2, <2>1, <2>2 DEF n
<1>5. CASE RunCron(r)
  <2> DEFINE n == [NewRequest EXCEPT !.pc = "select", !.kind = "cron"]
  <2>1. n.due = Nothing
    BY DEF NewRequest
  <2>2. Becomes(r, n)
    BY <1>5 DEF RunCron
  <2> HIDE DEF n
  <2> QED BY <1>2, <2>1, <2>2
<1>6. ASSUME NEW kind, Address(r, kind)
      PROVE  /\ ListOfCron(req'[r]) /\ Serves(req[r], req'[r], article')
             /\ \A p \in Requests \ {r} : req'[p] = req[p]
  <2>1. PICK a \in Articles : Becomes(r, [NewRequest EXCEPT !.pc = kind, !.kind = kind, !.id = a])
    BY <1>6, Zenon DEF Address
  <2> DEFINE n == [NewRequest EXCEPT !.pc = kind, !.kind = kind, !.id = a]
  <2>2. n.due = Nothing
    BY DEF NewRequest
  <2> HIDE DEF n
  <2> QED BY <1>2, <2>1, <2>2 DEF n
<1> QED BY <1>3, <1>4, <1>5, <1>6 DEF Arrive

\* The steps of requests that have no list.
LEMMA SaveList ==
    ASSUME IInv, NEW r \in Requests, ListOfCron(req[r]),
           \/ Probe(r) \/ Save(r) \/ Reload(r) \/ Publish(r) \/ Unpublish(r) \/ Delete(r)
           \/ (Announce(r) /\ req[r].kind # "cron")
    PROVE  /\ ListOfCron(req'[r]) /\ Serves(req[r], req'[r], article')
           /\ \A p \in Requests \ {r} : req'[p] = req[p]
<1> DEFINE q == req[r]
<1>0. TypeOK /\ q \in RequestStates
  BY DEF IInv, TypeOK
<1>1. q.kind # "cron" \/ q.pc \notin {"due", "announce"} \cup Ended
  BY DEF Probe, Save, Reload, Publish, Unpublish, Delete, At, Ended
<1>2. ASSUME NEW n, n.due = q.due, Becomes(r, n)
      PROVE  /\ ListOfCron(req'[r]) /\ Serves(req[r], req'[r], article')
             /\ \A p \in Requests \ {r} : req'[p] = req[p]
  <2>1. req'[r] = n /\ \A p \in Requests \ {r} : req'[p] = req[p]
    BY <1>0, <1>2, BecomesIs
  <2> QED BY <1>1, <1>2, <2>1, NoListMove
<1>3. ASSUME NEW pc, Goto(r, pc)
      PROVE  \E n : n.due = q.due /\ Becomes(r, n)
  <2> DEFINE n == [q EXCEPT !.pc = pc]
  <2>1. n.due = q.due
    BY <1>0 DEF RequestStates
  <2>2. Becomes(r, n)
    BY <1>3 DEF Goto
  <2> HIDE DEF n
  <2> QED BY <2>1, <2>2
<1>4. CASE Probe(r)
  <2>1. CASE Becomes(r, [q EXCEPT !.pc = "save",
                                  !.stamp = IF q.status = "published" THEN now ELSE NULL])
    <3> DEFINE n == [q EXCEPT !.pc = "save",
                              !.stamp = IF q.status = "published" THEN now ELSE NULL]
    <3>1. n.due = q.due
      BY <1>0 DEF RequestStates
    <3>2. Becomes(r, n)
      BY <2>1
    <3>3. PICK m : m = n
      OBVIOUS
    <3> HIDE DEF n
    <3> QED BY <1>2, <3>1, <3>2, <3>3
  <2>2. CASE Becomes(r, [q EXCEPT !.n = q.n + 1])
    <3> DEFINE n == [q EXCEPT !.n = q.n + 1]
    <3>1. n.due = q.due
      BY <1>0 DEF RequestStates
    <3>2. Becomes(r, n)
      BY <2>2
    <3>3. PICK m : m = n
      OBVIOUS
    <3> HIDE DEF n
    <3> QED BY <1>2, <3>1, <3>2, <3>3
  <2>3. CASE Goto(r, "fault")
    BY <1>2, <1>3, <2>3
  <2> QED BY <1>4, <2>1, <2>2, <2>3, Zenon DEF Probe
<1>5. ASSUME NEW a, SaveAs(r, a)
      PROVE  \E n : n.due = q.due /\ Becomes(r, n)
  <2>1. CASE Goto(r, "conflict")
    BY <1>3, <2>1
  <2>2. CASE Becomes(r, [q EXCEPT !.pc = "reload", !.id = a, !.was = article[a].status])
    <3> DEFINE n == [q EXCEPT !.pc = "reload", !.id = a, !.was = article[a].status]
    <3>1. n.due = q.due
      BY <1>0 DEF RequestStates
    <3>2. Becomes(r, n)
      BY <2>2
    <3> HIDE DEF n
    <3> QED BY <3>1, <3>2
  <2> QED BY <1>5, <2>1, <2>2, Zenon DEF SaveAs
<1>6. CASE Save(r)
  <2>1. (\E a : SaveAs(r, a)) \/ Goto(r, "done")
    BY <1>6, Zenon DEF Save
  <2> QED BY <1>2, <1>3, <1>5, <2>1
<1>7. CASE Reload(r) \/ Publish(r) \/ Unpublish(r) \/ Delete(r) \/ Announce(r)
  <2>1. \E pc : Goto(r, pc)
    BY <1>7, Zenon DEF Reload, Publish, Unpublish, Delete, Announce
  <2> QED BY <1>2, <1>3, <2>1
<1> QED BY <1>4, <1>6, <1>7

\* A cron run selects and goes through its list.
LEMMA CronList ==
    ASSUME IInv, NEW r \in Requests, ListOfCron(req[r]),
           Select(r) \/ PublishDue(r) \/ (Announce(r) /\ req[r].kind = "cron")
    PROVE  /\ ListOfCron(req'[r]) /\ Serves(req[r], req'[r], article')
           /\ \A p \in Requests \ {r} : req'[p] = req[p]
<1> DEFINE q == req[r]
<1>0. TypeOK /\ q \in RequestStates /\ q.kind = "cron" /\ article \in [Articles -> Rows]
  <2>1. TypeOK /\ q \in RequestStates /\ article \in [Articles -> Rows] /\ RequestInv(q, now)
    BY DEF IInv, TypeOK
  <2>2. q.pc \in {"select", "due"} \/ q.kind = "cron"
    BY Zenon DEF Select, PublishDue, At
  <2> QED BY <2>1, <2>2 DEF RequestInv
<1>1. CASE Select(r)
  <2>1. PICK S \in SUBSET Due : Becomes(r, [q EXCEPT !.pc = "due", !.due = ListOf(S)])
    BY <1>1, Zenon DEF Select
  <2>2. req'[r] = [q EXCEPT !.pc = "due", !.due = ListOf(S)]
    BY <1>0, <2>1, BecomesIs
  <2>3. req'[r].pc = "due" /\ req'[r].kind = "cron"
    BY <1>0, <2>2 DEF RequestStates
  <2>4. ASSUME NEW a \in Articles PROVE Off(q, a)
    <3>1. q.pc = "select"
      BY <1>1, Zenon DEF Select, At
    <3> QED BY <2>4, <3>1 DEF Off, ListOfCron, Ended
  <2> QED BY <1>0, <2>1, <2>3, <2>4, BecomesIs DEF ListOfCron, Serves
<1>2. ASSUME NEW n, Becomes(r, n), NEW a \in Articles,
             n.pc \in {"due", "announce"}, n.kind = "cron",
             \A b \in Articles \ {a} : n.due[b] = q.due[b],
             article'[a].status # "draft"
      PROVE  /\ ListOfCron(req'[r]) /\ Serves(req[r], req'[r], article')
             /\ \A p \in Requests \ {r} : req'[p] = req[p]
  BY <1>0, <1>2, BecomesIs DEF ListOfCron, Serves, Off, Ended
<1>3. ASSUME NEW a \in Articles, PublishArticle(r, a),
             Becomes(r, [q EXCEPT !.pc = "announce", !.id = a, !.due[a] = NULL])
      PROVE  /\ ListOfCron(req'[r]) /\ Serves(req[r], req'[r], article')
             /\ \A p \in Requests \ {r} : req'[p] = req[p]
  <2> DEFINE n == [q EXCEPT !.pc = "announce", !.id = a, !.due[a] = NULL]
  <2>1. n.pc = "announce" /\ n.kind = "cron" /\ \A b \in Articles \ {a} : n.due[b] = q.due[b]
    BY <1>0 DEF RequestStates
  <2>2. Becomes(r, n)
    BY <1>3
  <2> HIDE DEF n
  <2>3. article'[a].status = "published"
    BY <1>0, <1>3 DEF PublishArticle, Rows
  <2> QED BY <1>2, <2>1, <2>2, <2>3
<1>4. ASSUME NEW a \in Articles, Skip(r, a), q.pc = "due"
      PROVE  /\ ListOfCron(req'[r]) /\ Serves(req[r], req'[r], article')
             /\ \A p \in Requests \ {r} : req'[p] = req[p]
  <2> DEFINE n == [q EXCEPT !.due[a] = NULL]
  <2>1. n.pc = "due" /\ n.kind = "cron" /\ \A b \in Articles \ {a} : n.due[b] = q.due[b]
    BY <1>0, <1>4 DEF RequestStates
  <2>2. Becomes(r, n) /\ article'[a].status # "draft"
    BY <1>4 DEF Skip
  <2> HIDE DEF n
  <2> QED BY <1>2, <2>1, <2>2
<1>5. CASE Listed(r) = {} /\ Goto(r, "done") /\ q.pc = "due"
  <2> DEFINE n == [q EXCEPT !.pc = "done"]
  <2>1. n.due = q.due
    BY <1>0 DEF RequestStates
  <2>2. Becomes(r, n)
    BY <1>5 DEF Goto
  <2> HIDE DEF n
  <2>3. \A a \in Articles : q.due[a] = NULL
    BY <1>5 DEF Listed
  <2> QED BY <1>0, <2>1, <2>2, <2>3, BecomesIs DEF ListOfCron, Serves, Off
<1>6. CASE Announce(r)
  <2> DEFINE n == [q EXCEPT !.pc = "due"]
  <2>1. n.due = q.due /\ n.pc = "due" /\ n.kind = "cron"
    BY <1>0 DEF RequestStates
  <2>2. Becomes(r, n) /\ q.pc = "announce"
    BY <1>0, <1>6 DEF Announce, Goto, At
  <2> HIDE DEF n
  <2> QED BY <1>0, <2>1, <2>2, BecomesIs DEF ListOfCron, Serves, Off, Ended
<1>7. CASE PublishDue(r)
  <2>1. q.pc = "due"
    BY <1>7, Zenon DEF PublishDue, At
  <2>2. CASE \E a \in Articles :
               /\ PublishArticle(r, a)
               /\ Becomes(r, [q EXCEPT !.pc = "announce", !.id = a, !.due[a] = NULL])
    BY <1>3, <2>2, Zenon
  <2>3. CASE \E a \in Articles : Skip(r, a)
    BY <1>4, <2>1, <2>3, Zenon
  <2> QED BY <1>5, <1>7, <2>1, <2>2, <2>3, Zenon DEF PublishDue
<1> QED BY <1>1, <1>6, <1>7

LEMMA FailList ==
    ASSUME IInv, NEW r \in Requests, ListOfCron(req[r]), Fail(r)
    PROVE  /\ ListOfCron(req'[r]) /\ Serves(req[r], req'[r], article')
           /\ \A p \in Requests \ {r} : req'[p] = req[p]
<1> DEFINE q == req[r]
<1>0. TypeOK /\ q \in RequestStates /\ (q.pc = "due" => q.kind = "cron")
  BY DEF IInv, TypeOK, RequestInv
<1>1. CASE /\ q.pc \notin Ended \cup {"new", "due"}
           /\ ~(q.pc = "announce" /\ q.kind = "cron")
           /\ Becomes(r, [q EXCEPT !.pc = "fault", !.missed = @ \cup ({q.id} \cap Articles)])
  <2> DEFINE n == [q EXCEPT !.pc = "fault", !.missed = @ \cup ({q.id} \cap Articles)]
  <2>1. n.due = q.due
    BY <1>0 DEF RequestStates
  <2>2. Becomes(r, n)
    BY <1>1
  <2> HIDE DEF n
  <2>3. q.kind # "cron" \/ q.pc \notin {"due", "announce"} \cup Ended
    BY <1>1
  <2>4. PICK m : m = n
    OBVIOUS
  <2>5. ListOfCron(m) /\ Serves(q, m, article')
    <3>1. PICK p, rows : p = q /\ rows = article'
      OBVIOUS
    <3> QED BY <2>1, <2>3, <2>4, <3>1, NoListMove
  <2> QED BY <1>0, <2>2, <2>4, <2>5, BecomesIs
<1>2. CASE /\ q.pc = "announce" /\ q.kind = "cron"
           /\ Becomes(r, [q EXCEPT !.pc = "due", !.missed = @ \cup {q.id}])
  <2> DEFINE n == [q EXCEPT !.pc = "due", !.missed = @ \cup {q.id}]
  <2>1. n.due = q.due /\ n.pc = "due" /\ n.kind = "cron"
    BY <1>0, <1>2 DEF RequestStates
  <2>2. Becomes(r, n)
    BY <1>2
  <2> HIDE DEF n
  <2> QED BY <1>0, <1>2, <2>1, <2>2, BecomesIs DEF ListOfCron, Serves, Off, Ended
<1>3. ASSUME NEW a \in Articles, q.pc = "due",
             Becomes(r, [q EXCEPT !.due[a] = NULL, !.missed = @ \cup {a}])
      PROVE  /\ ListOfCron(req'[r]) /\ Serves(req[r], req'[r], article')
             /\ \A p \in Requests \ {r} : req'[p] = req[p]
  <2> DEFINE n == [q EXCEPT !.due[a] = NULL, !.missed = @ \cup {a}]
  <2>1. /\ n.pc = "due" /\ n.kind = "cron" /\ a \in n.missed
        /\ \A b \in Articles \ {a} : n.due[b] = q.due[b]
    BY <1>0, <1>3 DEF RequestStates
  <2>2. Becomes(r, n)
    BY <1>3
  <2> HIDE DEF n
  <2> QED BY <1>0, <1>3, <2>1, <2>2, BecomesIs DEF ListOfCron, Serves, Off, Ended
<1> QED BY <1>1, <1>2, <1>3, Zenon DEF Fail

LEMMA CrashList ==
    ASSUME IInv, ListsOfCron, Crash, NEW r \in Requests
    PROVE  ListOfCron(req'[r]) /\ Serves(req[r], req'[r], article')
<1> DEFINE q == req[r]
<1>0. q \in RequestStates
  BY DEF IInv, TypeOK
<1>1. CASE req'[r] = q
  BY <1>1 DEF ListsOfCron, Serves
<1>2. CASE q.pc \notin Ended \cup {"new"} /\ req'[r] = [q EXCEPT !.pc = "fault", !.missed = Articles]
  <2>1. /\ req'[r].pc = "fault" /\ req'[r].missed = Articles
        /\ req'[r].kind = q.kind /\ req'[r].due = q.due
    BY <1>0, <1>2 DEF RequestStates
  <2> QED BY <2>1 DEF ListsOfCron, ListOfCron, Serves, Ended
<1>3. req'[r] = IF q.pc \in Ended \cup {"new"} THEN q
                ELSE [q EXCEPT !.pc = "fault", !.missed = Articles]
  BY Zenon DEF Crash
<1> QED BY <1>1, <1>2, <1>3

LEMMA NextList ==
    ASSUME IInv, ListsOfCron, [Next]_vars
    PROVE  ListsOfCron' /\ \A r \in Requests : Serves(req[r], req'[r], article')
<1>1. ASSUME NEW r \in Requests, ListOfCron(req'[r]), Serves(req[r], req'[r], article'),
             \A p \in Requests \ {r} : req'[p] = req[p]
      PROVE  ListsOfCron' /\ \A p \in Requests : Serves(req[p], req'[p], article')
  BY <1>1 DEF ListsOfCron, ListOfCron, Serves
<1>2. ASSUME NEW r \in Requests, Arrive(r) \/ Serve(r) \/ Fail(r)
      PROVE  ListsOfCron' /\ \A p \in Requests : Serves(req[p], req'[p], article')
  <2>1. ListOfCron(req[r])
    BY DEF ListsOfCron
  <2>2. /\ ListOfCron(req'[r]) /\ Serves(req[r], req'[r], article')
        /\ \A p \in Requests \ {r} : req'[p] = req[p]
    <3>1. CASE Arrive(r)
      BY <2>1, <3>1, ArriveList
    <3>2. CASE Fail(r)
      BY <2>1, <3>2, FailList
    <3>3. CASE Serve(r)
      BY <2>1, <3>3, SaveList, CronList DEF Serve
    <3> QED BY <1>2, <3>1, <3>2, <3>3
  <2> QED BY <1>1, <2>2
<1>3. CASE Crash
  BY <1>3, CrashList DEF ListsOfCron, ListOfCron
<1>4. CASE req' = req
  BY <1>4 DEF ListsOfCron, ListOfCron, Serves
<1> QED BY <1>2, <1>3, <1>4 DEF Next, Tick, vars

\* ListServed: a cron run drops an article from its list only when the article is no
\* draft any more, by its own UPDATE or another request's, or when a statement of it
\* has failed.
THEOREM ListServed == Spec => EachIsServed
<1> DEFINE Each == \A r \in Requests, a \in Articles : ~Off(req[r], a) /\ Off(req'[r], a) =>
                      article'[a].status # "draft" \/ a \in req'[r].missed
<1>1. IInv /\ ListsOfCron /\ [Next]_vars => Each
  BY NextList DEF Serves
<1>2. IInv /\ ListsOfCron /\ [Next]_vars => ListsOfCron'
  BY NextList
<1>3. Init => ListsOfCron
  BY DEF Init, ListsOfCron, ListOfCron, NewRequest, Nothing
<1>4. IInv /\ ListsOfCron /\ [Next]_vars => [Each]_vars
  BY <1>1
<1> QED BY <1>2, <1>3, <1>4, IInvAlways, PTL DEF Spec, EachIsServed
=============================================================================
