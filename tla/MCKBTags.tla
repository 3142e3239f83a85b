------------------------------- MODULE MCKBTags -------------------------------
(* Instances of KBTags for TLC.                                            *)
EXTENDS KBTags, TLC

CONSTANTS r1, r2, a1, a2, t1, t2, t3, s1, s2

TwoRequests == {r1, r2}
OneArticle == {a1}
TwoArticles == {a1, a2}
ThreeTags == {t1, t2, t3}
TwoSlugs == {s1, s2}

AllSymmetry == Permutations(Requests) \cup Permutations(Articles)
               \cup Permutations(Tags) \cup Permutations(Slugs)
=============================================================================
