----------------------------- MODULE MCKBArticles -----------------------------
(* Instances of KBArticles for TLC.                                        *)
EXTENDS KBArticles, TLC

CONSTANTS r1, r2, r3, r4, a1, a2, b1, b2

TwoRequests == {r1, r2}
ThreeRequests == {r1, r2, r3}
FourRequests == {r1, r2, r3, r4}
OneArticle == {a1}
TwoArticles == {a1, a2}
OneBase == {b1}
TwoBases == {b1, b2}

RequestSymmetry == Permutations(Requests)
AllSymmetry == Permutations(Requests) \cup Permutations(Articles) \cup Permutations(Bases)

\* Races beside the cron: a2 is a due draft that requests other than the cron leave
\* alone, as is its base b2; a1 is a due draft or still to be created; requests
\* arrive in the order of their names.
Draft(b) == [status |-> "draft", slug |-> <<b, 1>>, publish_at |-> 0, published_at |-> NULL]
StartRows ==
    /\ now = 0 /\ faults = 0
    /\ article \in {[a \in Articles |-> IF a = a2 THEN Draft(b2) ELSE row] :
                       row \in {NoRow("unborn"), Draft(b1)}}
    /\ req = [r \in Requests |-> NewRequest]
    /\ publications = {} /\ announced = {} /\ updated = {}
Focus ==
    /\ req[r2].kind # NULL => req[r1].kind # NULL
    /\ \A r \in Requests :
         /\ req[r].kind \notin {"cron", NULL} => req[r].id # a2
         /\ req[r].base # b2
MixedNext ==
    \/ \E r \in Requests : (Arrive(r) /\ Focus') \/ Serve(r) \/ Fail(r)
    \/ Crash
    \/ Tick
MixedSpec ==
    StartRows /\ [][MixedNext]_vars /\ \A r \in Requests : WF_vars(Serve(r))
=============================================================================
