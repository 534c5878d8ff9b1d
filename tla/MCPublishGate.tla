---------------------------- MODULE MCPublishGate ----------------------------
(* Instances for TLC: articles of one novel or two, of the same or of      *)
(* different locales; a rebind needs a novel of the article's locale.      *)
EXTENDS PublishGate, TLC

CONSTANTS a1, a2, n1, n2, p1, p2

TwoProcs == {p1, p2}
ProcSymmetry == Permutations(Proc)
OneArticle == {a1}
TwoArticles == {a1, a2}
SecondArticle == {a2}
OneNovel == {n1}
TwoNovels == {n1, n2}
Locales == [a \in Article |-> IF a = a1 THEN "en" ELSE "fr"]
English == [n \in Novel |-> "en"]
=============================================================================
