------------------------------ MODULE MCKBReaders ------------------------------
(* An instance of KBReaders for TLC.                                       *)
EXTENDS KBReaders, TLC

CONSTANTS a1, a2, c1, c2, i1, r1, r2, r3

TwoArticles == {a1, a2}
TwoCustomers == {c1, c2}
OneImage == {i1}
ThreeRequests == {r1, r2, r3}
MCSymmetry == Permutations(Articles) \cup Permutations(Customers)

\* The instance begins where articles have been saved and voted down.
Down == [vote |-> "down", at |-> 0]
Start ==
    /\ Init!1 /\ Init!3 /\ Init!4 /\ Init!6 /\ Init!7 /\ Init!8 /\ Init!9 /\ Init!10 /\ Init!11
    /\ article \in [Articles -> {"unborn", "published"}]
    /\ votes \in [Articles -> {NoVotes, [c \in Customers |-> Down]}]
    /\ \A a \in Articles : article[a] = "unborn" => votes[a] = NoVotes

\* Requests arrive in the order of their names.  A behavior is about one of three
\* things: views of one article; votes and the sweep; saves beside a run of the sweep, at
\* one instant.
OnlyKinds(S) == \A r \in Requests : req[r].kind \in S \cup {NULL}
Focus ==
    /\ req[r2].kind # NULL => req[r1].kind # NULL
    /\ req[r3].kind # NULL => req[r2].kind # NULL
    /\ \/ /\ OnlyKinds({"detail"})
          /\ \E a \in Articles : article[a] = "unborn"
          /\ \A i \in Images : owner[i] = "unborn"
       \/ /\ OnlyKinds({"vote", "cron"}) /\ \A i \in Images : owner[i] = "unborn"
          /\ Cardinality({r \in Requests : req[r].kind = "cron"}) <= 1
       \/ /\ OnlyKinds({"save", "cron"}) /\ req[r3].kind = NULL /\ now = 0
StartSpec == Start /\ [][Next /\ Focus']_vars
=============================================================================
