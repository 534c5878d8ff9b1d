------------------------- MODULE MCContentPipeline -------------------------
(* Instances for TLC: source items of two channel apps, three of a title;  *)
(* two batches over them, two batches of articles, inline requests, a      *)
(* rebind, source items that change.                                       *)
EXTENDS ContentPipeline, TLC

CONSTANTS s1, s2, s3, s4, m1, m2, g1, g2

Titles == (s1 :> "x") @@ (s2 :> "x") @@ (s3 :> "x") @@ (s4 :> "z")
Apps == (s1 :> 1) @@ (s2 :> 2) @@ (s3 :> 1) @@ (s4 :> 2)
Kinds == (m1 :> "materialize") @@ (m2 :> "materialize")
         @@ (g1 :> "generate_all") @@ (g2 :> "generate")
\* The second selects a linked source item, too.
Selections == (m1 :> {s1, s2}) @@ (m2 :> {s1, s2, s3})
              @@ (g1 :> {s1, s3}) @@ (g2 :> {s3})
Job(kind, source, to) == [kind |-> kind, source |-> source, to |-> to]
MakeNovel == Job("materialize", s1, NoSource)
MakeArticle == Job("generate", s3, NoSource)
MoveArticle == Job("move", s4, s3)
Requests == {MakeNovel, MakeArticle, MoveArticle}
Asking(batches, inline, changes) ==
  [batches |-> batches, inline |-> inline, changes |-> changes, slugs |-> 4]
\* A novel of the start has the first of the slugs of its title.
Slugs(number, asked) == [asked EXCEPT !.slugs = number]
Together == {Asking({m1, m2}, {MakeNovel}, {}),
             Asking({m1, m2}, {}, {s2}),
             Slugs(1, Asking({m1}, {MakeNovel}, {})),
             Slugs(2, Asking({m1}, {MakeNovel}, {})),
             Asking({m1}, {MakeNovel}, {s1, s2}),
             Asking({m2}, {MakeNovel}, {s2, s3}),
             Asking({g1, g2}, {MakeArticle, MoveArticle}, {}),
             Asking({m1, g1}, {MoveArticle}, {})}
=============================================================================
