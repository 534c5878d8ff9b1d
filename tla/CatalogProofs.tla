---------------------------- MODULE CatalogProofs ----------------------------
(***************************************************************************)
(* A catalog scan of any length, with any page size, budget of attempts,   *)
(* handlers, mishaps and generations: theorems about CatalogScan.          *)
(***************************************************************************)
EXTENDS CatalogScan, FiniteSetTheorems, WellFoundedInduction, TLAPS

ItemState == {"none", "success", "failed"} \cup Open
ItemRow == [st : ItemState, att : Nat, ep : Nat, exp : BOOLEAN]
ResultRow == [how : {"none", "fetched", "passed", "error"}, n : 0..PageSize,
              why : {"none"} \cup StopReasons, partial : BOOLEAN]
TaskRow == [st : Open \cup {"completed", "completed_with_errors", "failed"},
            terminal : {0} \cup Page, why : {"none"} \cup StopReasons, want : Nat,
            fin : {"none", "pending", "processing", "completed", "failed"},
            fgen : {0} \cup Gen,
            verdict : {"none", "processing", "completed", "partial_failed"}]
PreviewRow == [st : {"none", "building", "ready", "done", "failed", "superseded"},
               items : SUBSET Source, scope : SUBSET Source]
ManualRow == [st : {"none", "active", "done"}, scope : SUBSET Source]
Gathered == {"plan", "shell", "batch", "activate", "supersede", "complete"}
Planning == {"mark", "gather"} \cup Gathered
RunRow == [at : {"idle", "begin", "end", "caught"} \cup Planning,
           job : Item, ep : Nat,
           out : {"none", "failed", "passed", "upstream", "fetched", "success", "retry"},
           n : 0..PageSize, total : Nat, want : Nat,
           why : {"none"} \cup StopReasons, touched : SUBSET Source, actual : Nat,
           bad : BOOLEAN, plan : SUBSET Source, left : SUBSET Page]

Types ==
  /\ item \in [Item -> ItemRow] /\ res \in [Page -> ResultRow]
  /\ gen \in Gen /\ task \in TaskRow
  /\ preview \in [Gen -> PreviewRow] /\ manual \in ManualRow
  /\ fresh \subseteq Source /\ skipped \subseteq Source /\ flags \in BOOLEAN
  /\ run \in [Handler -> RunRow] /\ scene \in Scenes
  /\ hangs \in Nat /\ throws \in Nat /\ unbound \in Nat /\ deploys \in Nat
-----------------------------------------------------------------------------
\* Pages are settled in order, the finalization is claimed behind them, and a
\* task that is over has nothing open.
PagesSettled == \A p \in Page : item[p].st \notin Open
Order ==
  /\ \A p \in Page : item[p].st # "none"
  /\ \A p \in Page : item[p].st = "success" => res[p].how \in {"fetched", "passed"}
  /\ \A i \in Item : item[i].st = "processing" => item[i].ep > 0
  /\ \A p, q \in Page : q < p /\ item[q].st \in Open => item[p].st # "processing"
  /\ item[Fin].st \notin {"none", "pending"} => PagesSettled
  /\ task.st \notin Open => \A i \in Item : item[i].st \notin Open
  /\ item[Fin].st = "none" =>
       /\ item[Fin].ep = 0
       /\ \/ item[Scheduled].st \in Open
          \/ item[Scheduled].st = "failed" /\ res[Scheduled].why = "none"

\* A lease has one handler, and what a handler does fits its item.
Works(h) == run[h].at # "idle"
Leases ==
  /\ \A h \in Handler : Works(h) => run[h].ep \in 1..item[run[h].job].ep
  /\ \A g, h \in Handler :
       Works(g) /\ Works(h) /\ run[g].job = run[h].job /\ run[g].ep = run[h].ep => g = h
  /\ \A h \in Handler :
       /\ Works(h) /\ run[h].job \in Page => run[h].at \in {"begin", "end"}
       /\ run[h].at = "end" =>
            run[h].out \in IF run[h].job = Fin THEN {"failed", "success", "retry"}
                           ELSE {"failed", "passed", "upstream", "fetched"}

\* Where the recorded end of the catalogue comes from.
Witness(q) ==
  item[q].st = "success" /\ res[q].how = "fetched" /\ res[q].why \in Reasons
Evidence ==
  /\ ~flags => deploys > 0 /\ FALSE \in scene.flags
  /\ Steady /\ flags /\ task.terminal # 0 =>
       \/ Witness(task.terminal)
       \/ item[task.terminal].st \in Open
       \/ /\ item[task.terminal].st = "failed"
          /\ \A q \in Page : q > task.terminal => item[q].st \notin Open
  /\ \A h \in Handler :
       run[h].at = "end" /\ run[h].job \in Page =>
         /\ run[h].out = "failed" /\ Steady => ~flags
         /\ run[h].out = "passed" =>
              flags /\ (Owns(h) => task.terminal # 0 /\ run[h].job > task.terminal)
  /\ StopHasWitness
-----------------------------------------------------------------------------
\* The books the pages returned, and those that BooksCovered asks for.
Returns == Touched(Pages(item, {"success"}))
Away == {s \in Source : TurnedAway(s)}
Covered ==
  fresh \cup skipped \cup Away
        \cup (IF manual.st \in {"active", "done"} THEN manual.scope ELSE {})
        \cup UNION {preview[g].items : g \in {k \in Gen : preview[k].st \in {"ready", "done"}}}
AllReturned == Pages(item, {"success"}) = Page /\ Returned(res, Page) >= task.want

\* What the handler that owns the finalization knows of the rows.
Knows(h) ==
  LET r == run[h]
      shell == preview[gen]
  IN  /\ r.at \in Planning => r.want = task.want
      /\ r.at \in {"gather"} \cup Gathered => task.fin = "processing"
      /\ r.at \in Gathered => r.touched = Returns /\ (~r.bad => AllReturned)
      /\ r.at \in {"shell", "batch", "activate"} =>
           r.plan \subseteq Returns /\ Returns \subseteq fresh \cup skipped \cup r.plan
      /\ r.at = "shell" =>
           shell.st = "none" /\ r.left # {} /\ \A s \in r.plan : s[1] \in r.left
      /\ r.at = "batch" =>
           /\ shell.st = "building" /\ r.left # {}
           /\ \A s \in r.plan : s[1] \in r.left \/ s \in shell.items
      /\ r.at = "activate" => shell.st = "building" /\ r.plan \subseteq shell.items
      /\ r.at \in {"supersede", "complete"} => Returns \subseteq Covered
      /\ r.at = "end" /\ r.out = "success" => task.fin = "completed" /\ task.fgen = gen
Finalizes(h) == Works(h) /\ run[h].job = Fin /\ Owns(h)
Knowledge == \A h \in Handler : Finalizes(h) => Knows(h)

\* What the verdict of this generation says.
Verdict ==
  /\ task.fin = "completed" /\ task.fgen = gen =>
       /\ PagesSettled
       /\ task.verdict \in {"partial_failed", "completed"}
       /\ task.verdict = "completed" => AllReturned
       /\ Returns \subseteq Covered
  /\ CompletedMeansAll

\* What the preview task of a generation stands for.
Previews ==
  /\ \A k \in Gen : k > gen => preview[k].st = "none"
  /\ preview[gen].st # "none" => PagesSettled
  /\ preview[gen].st = "building" => preview[gen].scope \subseteq Returns
  /\ preview[gen].st \in {"ready", "done", "superseded"} => Returns \subseteq Covered
  /\ preview[gen].st = "failed" =>
       \/ item[Fin].st = "failed"
       \/ /\ item[Fin].st = "processing" /\ item[Fin].att >= MaxAttempts
          /\ \A h \in Handler : Finalizes(h) => run[h].at = "end" /\ run[h].out = "retry"

CatalogInv ==
  Types /\ Order /\ Leases /\ Evidence /\ Knowledge /\ Verdict /\ Previews
-----------------------------------------------------------------------------
(* The operators of the model.                                             *)

LEMMA PagesAre == 0 \notin Page /\ Page \subseteq Nat /\ Scheduled \in Page /\ Item = Page \cup {0}
BY CatalogAssumption DEF Page, Item, Fin

LEMMA BooksAre ==
  ASSUME NEW rs \in [Page -> ResultRow], NEW ps \in SUBSET Page
  PROVE  Books(rs, ps) \subseteq Source /\ Returned(rs, ps) \in Nat
<1>1. Books(rs, ps) \subseteq Source
  <2> SUFFICES ASSUME NEW p \in ps, NEW k \in 1..rs[p].n PROVE <<p, k>> \in Source
    BY DEF Books
  <2>1. rs[p].n \in 0..PageSize
    BY DEF ResultRow
  <2> QED BY <2>1, CatalogAssumption DEF Source
<1>2. IsFiniteSet(Source)
  <2>1. IsFiniteSet(1..Scheduled) /\ IsFiniteSet(1..PageSize)
    BY CatalogAssumption, FS_Interval
  <2> QED BY <2>1, FS_Product DEF Source, Page
<1>3. IsFiniteSet(Books(rs, ps))
  BY <1>1, <1>2, FS_Subset
<1> QED BY <1>1, <1>3, FS_CardinalityType DEF Returned

LEMMA ExpectedIs == ASSUME NEW total \in Nat PROVE Expected(total) \in Nat
<1> DEFINE a == Requested * PageSize
<1>1. a \in Nat
  BY CatalogAssumption
<1>2. \E x \in {a, total} : \A y \in {a, total} : x <= y
  BY <1>1
<1> QED BY <1>1, <1>2 DEF Expected, Min

LEMMA NextGenIs ==
  ASSUME gen \in Gen, task.fgen \in {0} \cup Gen, NextGen <= MaxGen
  PROVE  NextGen \in Gen /\ NextGen > gen
<1> DEFINE S == {gen, task.fgen}
<1>1. gen \in Nat /\ gen > 0 /\ task.fgen \in Nat
  BY CatalogAssumption DEF Gen
<1>2. \E x \in S : \A y \in S : x >= y
  BY <1>1
<1>3. Max(S) \in S /\ Max(S) >= gen
  BY <1>2 DEF Max
<1> QED BY <1>1, <1>3, CatalogAssumption DEF NextGen, Gen

LEMMA StopReasonIs ==
  ASSUME NEW n, NEW f, NEW e, NEW p
  PROVE  StopReason(n, f, e, p) \in Reasons \cup {"none"}
BY DEF StopReason, Reasons

\* The last page stops the scan, however much it fetched.
LEMMA LastStops ==
  ASSUME NEW n, NEW f, NEW e PROVE StopReason(n, f, e, Scheduled) # "none"
BY CatalogAssumption DEF StopReason

LEMMA RowTypes ==
  ASSUME NEW it \in [Item -> ItemRow], NEW p \in Page, NEW st \in ItemState,
         NEW r \in ResultRow, res \in [Page -> ResultRow]
  PROVE  /\ Cascade(it, p, st) \in [Item -> ItemRow]
         /\ WithFinalize(it) \in [Item -> ItemRow]
         /\ CascadeResult(it, p, r) \in [Page -> ResultRow]
<1>1. NewItem \in ItemRow
  BY DEF NewItem, ItemRow, ItemState, Open
<1>2. Fin \in Item
  BY DEF Item, Fin
<1>3. Cascade(it, p, st) \in [Item -> ItemRow]
  BY DEF Cascade, ItemRow
<1>4. WithFinalize(it) \in [Item -> ItemRow]
  BY <1>1, <1>2 DEF WithFinalize
<1>5. CascadeResult(it, p, r) \in [Page -> ResultRow]
  BY DEF CascadeResult
<1> QED BY <1>3, <1>4, <1>5

LEMMA ResultIs ==
  ASSUME NEW how \in {"none", "fetched", "passed", "error"}, NEW n \in 0..PageSize,
         NEW why \in {"none"} \cup StopReasons, NEW b \in BOOLEAN
  PROVE  Result(how, n, why, b) \in ResultRow
BY DEF Result, ResultRow

LEMMA NoBooks == 0 \in 0..PageSize /\ None \in ResultRow
<1>1. 0 \in 0..PageSize
  BY CatalogAssumption
<1> QED BY <1>1 DEF ResultRow, None

\* What recomputing the parent changes and leaves.
LEMMA RecomputedIs ==
  ASSUME NEW it \in [Item -> ItemRow], NEW rs, NEW t \in TaskRow,
         NEW u, u = Recomputed(it, rs, t)
  PROVE  /\ u \in TaskRow
         /\ u.terminal = t.terminal /\ u.want = t.want /\ u.fin = t.fin
         /\ u.fgen = t.fgen /\ u.verdict = t.verdict
         /\ (u.st \in Open) <=> (\E i \in Item : it[i].st \in Open)
         /\ u.st = "completed" => \A i \in Item : it[i].st \notin Open \cup {"failed"}
         /\ u.st = "completed" => t.verdict # "partial_failed"
<1> DEFINE d == Derived(it, rs, t.verdict = "partial_failed")
<1>1. u = [t EXCEPT !.st = d]
  BY DEF Recomputed
<1>2. /\ d \in {"processing", "completed", "completed_with_errors", "failed"}
      /\ (d = "processing") <=> (\E i \in Item : it[i].st \in Open)
      /\ d = "completed" => \A i \in Item : it[i].st \notin Open \cup {"failed"}
      /\ d = "completed" => t.verdict # "partial_failed"
  BY DEF Derived
<1> HIDE DEF d
<1>3. u \in TaskRow /\ u.st = d
  BY <1>1, <1>2 DEF TaskRow, Open
<1>4. /\ u.terminal = t.terminal /\ u.want = t.want /\ u.fin = t.fin
      /\ u.fgen = t.fgen /\ u.verdict = t.verdict
  BY <1>1 DEF TaskRow
<1> QED BY <1>2, <1>3, <1>4 DEF Open
-----------------------------------------------------------------------------
(* Types.                                                                  *)

TaskTypes == /\ item \in [Item -> ItemRow] /\ res \in [Page -> ResultRow]
             /\ gen \in Gen /\ task \in TaskRow
OtherTypes == /\ preview \in [Gen -> PreviewRow] /\ manual \in ManualRow
              /\ fresh \subseteq Source /\ skipped \subseteq Source /\ flags \in BOOLEAN
              /\ scene \in Scenes /\ run \in [Handler -> RunRow]
              /\ hangs \in Nat /\ throws \in Nat /\ unbound \in Nat /\ deploys \in Nat

LEMMA SceneIs ==
  ASSUME scene \in Scenes
  PROVE  /\ scene.totals \subseteq Nat /\ scene.flags \subseteq BOOLEAN
         /\ scene.scopes \subseteq SUBSET Source
         /\ scene.misfits \subseteq SUBSET Source
BY CatalogAssumption

LEMMA IdleIs == Idle \in RunRow
BY CatalogAssumption DEF Idle, RunRow, Item, Fin

LEMMA SettledIs ==
  ASSUME NEW it \in [Item -> ItemRow], NEW rs \in [Page -> ResultRow],
         NEW t \in TaskRow
  PROVE  Recomputed(it, rs, t) \in TaskRow
BY RecomputedIs

LEMMA ScanIs ==
  ASSUME NEW t \in TaskRow, NEW terminal \in {0} \cup Page,
         NEW why \in {"none"} \cup StopReasons, NEW want \in Nat,
         NEW fin \in {"none", "pending"}, NEW fgen \in {0} \cup Gen
  PROVE  [t EXCEPT !.terminal = terminal, !.why = why, !.want = want,
                   !.verdict = "processing", !.fin = fin, !.fgen = fgen] \in TaskRow
BY DEF TaskRow

LEMMA PageTypes ==
  ASSUME Types, NEW h \in Handler, FinishPage(h)
  PROVE  TaskTypes'
<1> DEFINE p == run[h].job
<1> USE DEF Types, TaskTypes
<1>1. p \in Page /\ p \in Item /\ run[h] \in RunRow
  BY DEF FinishPage, RunRow, Item, Fin
<1>2. UNCHANGED gen
  BY DEF FinishPage
<1>3. CASE PersistPage(h)
  <2> DEFINE n == run[h].n
             before == Returned(res, Pages(item, {"success"}))
             why == StopReason(n, before + n, Expected(run[h].total), p)
             short == StopReason(n, (p - 1) * PageSize + n, run[h].total, p) = "safety_limit"
             done == [item EXCEPT ![p].st = "success"]
             rows1 == IF why # "none" THEN CascadeResult(item, p, Result("passed", 0, why, FALSE))
                      ELSE res
             t == [task EXCEPT !.terminal = IF why # "none" THEN p ELSE 0, !.why = why,
                    !.want = Expected(run[h].total), !.verdict = "processing",
                    !.fin = IF why # "none" THEN "pending" ELSE "none",
                    !.fgen = IF why # "none" THEN gen ELSE 0]
  <2>1. why \in {"none"} \cup StopReasons /\ why \in {"none"} \cup Reasons
    BY StopReasonIs DEF StopReasons
  <2>2. Expected(run[h].total) \in Nat
    BY <1>1, ExpectedIs DEF RunRow
  <2>3. done \in [Item -> ItemRow]
    BY <1>1 DEF ItemRow, ItemState
  <2> HIDE DEF done, why
  <2>4. item' \in [Item -> ItemRow]
    <3>1. Cascade(done, p, "success") \in [Item -> ItemRow]
      BY <1>1, <2>3, RowTypes DEF ItemState
    <3>2. WithFinalize(Cascade(done, p, "success")) \in [Item -> ItemRow]
      BY <1>1, <3>1, RowTypes DEF ItemState, ResultRow
    <3> QED BY <1>3, <2>3, <3>2 DEF PersistPage, done, why
  <2>5. Result("passed", 0, why, FALSE) \in ResultRow
    BY <2>1, ResultIs, NoBooks
  <2>6. rows1 \in [Page -> ResultRow]
    BY <1>1, <2>5 DEF CascadeResult
  <2>7. Result("fetched", n, why, short) \in ResultRow
    BY <1>1, <2>1, ResultIs DEF RunRow
  <2>8. res' \in [Page -> ResultRow]
    <3>1. res' = [rows1 EXCEPT ![p] = Result("fetched", n, why, short)]
      BY <1>3 DEF PersistPage, why
    <3> HIDE DEF rows1, short
    <3> QED BY <2>6, <2>7, <3>1
  <2>9. t \in TaskRow
    <3>1. /\ task \in TaskRow /\ gen \in Gen
          /\ (IF why # "none" THEN p ELSE 0) \in {0} \cup Page
          /\ (IF why # "none" THEN "pending" ELSE "none") \in {"none", "pending"}
          /\ (IF why # "none" THEN gen ELSE 0) \in {0} \cup Gen
      BY <1>1
    <3> HIDE DEF Types
    <3> QED BY <2>1, <2>2, <3>1, ScanIs
  <2>10. task' = Recomputed(item', res', t)
    BY <1>3 DEF PersistPage, why
  <2> HIDE DEF t
  <2> QED BY <1>2, <2>4, <2>8, <2>9, <2>10, SettledIs
<1>4. CASE PersistUpstreamFailure(h)
  <2> DEFINE done == [item EXCEPT ![p].st = "failed"]
             t == [task EXCEPT !.terminal = p, !.why = "upstream_error", !.fin = "pending",
                    !.fgen = gen, !.verdict = "processing"]
  <2>3. done \in [Item -> ItemRow]
    BY <1>1 DEF ItemRow, ItemState
  <2> HIDE DEF done
  <2>4. item' \in [Item -> ItemRow]
    <3>1. Cascade(done, p, "failed") \in [Item -> ItemRow]
      BY <1>1, <2>3, RowTypes DEF ItemState
    <3>2. WithFinalize(Cascade(done, p, "failed")) \in [Item -> ItemRow]
      BY <1>1, <3>1, RowTypes DEF ItemState, ResultRow
    <3> QED BY <1>4, <3>2 DEF PersistUpstreamFailure, done
  <2>5. \A b \in BOOLEAN : Result("error", 0, "upstream_error", b) \in ResultRow
    BY ResultIs, NoBooks DEF StopReasons
  <2>6. CascadeResult(item, p, Result("error", 0, "upstream_error", FALSE)) \in [Page -> ResultRow]
    BY <1>1, <2>5 DEF CascadeResult
  <2>8. res' \in [Page -> ResultRow]
    BY <1>4, <2>5, <2>6 DEF PersistUpstreamFailure
  <2>9. t \in TaskRow
    BY <1>1 DEF TaskRow, StopReasons
  <2>10. task' = Recomputed(item', res', t)
    BY <1>4 DEF PersistUpstreamFailure
  <2> HIDE DEF t
  <2> QED BY <1>2, <2>4, <2>8, <2>9, <2>10, SettledIs
<1>5. CASE PassPage(h)
  <2> DEFINE done == [item EXCEPT ![p].st = "success"]
             passed == Result("passed", 0, "expected_total_reached", FALSE)
  <2>3. done \in [Item -> ItemRow]
    BY <1>1 DEF ItemRow, ItemState
  <2> HIDE DEF done
  <2>4. item' \in [Item -> ItemRow]
    <3>1. Cascade(done, p, "success") \in [Item -> ItemRow]
      BY <1>1, <2>3, RowTypes DEF ItemState
    <3>2. WithFinalize(Cascade(done, p, "success")) \in [Item -> ItemRow]
      BY <1>1, <3>1, RowTypes DEF ItemState, ResultRow
    <3> QED BY <1>5, <3>2 DEF PassPage, done
  <2>5. passed \in ResultRow
    BY ResultIs, NoBooks DEF StopReasons, Reasons
  <2>6. CascadeResult(item, p, passed) \in [Page -> ResultRow]
    BY <1>1, <2>5 DEF CascadeResult
  <2> HIDE DEF passed
  <2>8. res' \in [Page -> ResultRow]
    BY <1>5, <2>5, <2>6 DEF PassPage, passed
  <2>10. task' = Recomputed(item', res', task)
    BY <1>5 DEF PassPage
  <2> QED BY <1>2, <2>4, <2>8, <2>10, SettledIs
<1>6. CASE FailPage(h)
  <2>1. item' \in [Item -> ItemRow]
    BY <1>1, <1>6 DEF FailPage, ItemRow, ItemState
  <2>2. res' \in [Page -> ResultRow]
    <3>1. Result("error", 0, "none", FALSE) \in ResultRow
      BY ResultIs, NoBooks
    <3> QED BY <1>1, <1>6, <3>1 DEF FailPage
  <2>3. task' = Recomputed(item', res', task)
    BY <1>6 DEF FailPage
  <2> QED BY <1>2, <2>1, <2>2, <2>3, SettledIs
<1> QED BY <1>3, <1>4, <1>5, <1>6 DEF FinishPage

LEMMA StopTypes ==
  ASSUME Types, NEW p \in Page, NEW it \in [Item -> ItemRow], NEW b \in BOOLEAN
  PROVE  /\ WithFinalize(Cascade(it, p, "failed")) \in [Item -> ItemRow]
         /\ CascadeResult(item, p, Result("error", 0, "upstream_error", FALSE))
              \in [Page -> ResultRow]
         /\ Result("error", 0, "upstream_error", b) \in ResultRow
<1>1. \A c \in BOOLEAN : Result("error", 0, "upstream_error", c) \in ResultRow
  BY ResultIs, NoBooks DEF StopReasons
<1>2. "failed" \in ItemState
  BY DEF ItemState
<1>3. Cascade(it, p, "failed") \in [Item -> ItemRow]
  BY <1>1, <1>2, RowTypes DEF Types
<1>4. WithFinalize(Cascade(it, p, "failed")) \in [Item -> ItemRow]
  BY <1>1, <1>2, <1>3, RowTypes DEF Types
<1>5. CascadeResult(item, p, Result("error", 0, "upstream_error", FALSE))
        \in [Page -> ResultRow]
  BY <1>1, <1>2, RowTypes DEF Types
<1> QED BY <1>1, <1>4, <1>5

LEMMA RecoverTypes ==
  ASSUME Types, NEW i \in Item, recoverExpiredItem(i)
  PROVE  TaskTypes' /\ preview' \in [Gen -> PreviewRow]
<1> USE DEF Types, TaskTypes
<1> DEFINE last == item[i].att >= MaxAttempts
           down == [item EXCEPT ![i].st = IF last THEN "failed" ELSE "pending", ![i].exp = FALSE]
           t == IF last /\ i = Fin THEN FailedTask(task, gen) ELSE task
<1>1. down \in [Item -> ItemRow]
  <2>1. item \in [Item -> ItemRow]
    OBVIOUS
  <2> DEFINE st == IF last THEN "failed" ELSE "pending"
  <2>2. st \in ItemState
    BY DEF ItemState, Open
  <2> HIDE DEF Types, st
  <2>3. [item EXCEPT ![i].st = st, ![i].exp = FALSE] \in [Item -> ItemRow]
    BY <2>1, <2>2 DEF ItemRow
  <2> QED BY <2>3 DEF st
<1>2. t \in TaskRow
  <2>1. task \in TaskRow /\ gen \in Gen
    OBVIOUS
  <2>2. FailedTask(task, gen) \in TaskRow
    BY <2>1 DEF FailedTask, TaskRow
  <2> QED BY <2>1, <2>2
<1>3. item' = (IF last /\ i # Fin THEN WithFinalize(Cascade(down, i, "failed")) ELSE down)
  BY DEF recoverExpiredItem
<1> HIDE DEF down
<1>4. item' \in [Item -> ItemRow]
  BY <1>1, <1>3, StopTypes DEF Item, Fin
<1>5. res' \in [Page -> ResultRow]
  BY StopTypes DEF recoverExpiredItem, Item, Fin
<1>6. task' = Recomputed(item', res', t)
  BY DEF recoverExpiredItem
<1>7. FailedShell(preview, gen) \in [Gen -> PreviewRow]
  BY DEF FailedShell, PreviewRow
<1>8. preview' \in [Gen -> PreviewRow] /\ UNCHANGED gen
  BY <1>7 DEF recoverExpiredItem
<1> HIDE DEF t
<1> QED BY <1>2, <1>4, <1>5, <1>6, <1>8, SettledIs

LEMMA ThrowTypes ==
  ASSUME Types, NEW h \in Handler, FinishThrows(h)
  PROVE  TaskTypes'
<1> USE DEF Types, TaskTypes
<1> DEFINE i == run[h].job
           last == item[i].att >= MaxAttempts
           down == [item EXCEPT ![i].st = IF last THEN "failed" ELSE "pending"]
           stop == last /\ i # Fin
<1>0. i \in Item
  BY DEF RunRow
<1>1. down \in [Item -> ItemRow]
  BY <1>0 DEF ItemRow, ItemState, Open
<1>3. item' = (IF stop THEN WithFinalize(Cascade(down, i, "failed")) ELSE down)
  BY DEF FinishThrows
<1> HIDE DEF down
<1>4. item' \in [Item -> ItemRow]
  BY <1>0, <1>1, <1>3, StopTypes DEF Item, Fin
<1>5. res' \in [Page -> ResultRow]
  <2>1. CASE stop
    <3>1. i \in Page
      BY <1>0, <2>1 DEF Item
    <3> DEFINE rs == CascadeResult(item, i, Result("error", 0, "upstream_error", FALSE))
               r == Result("error", 0, "upstream_error", TRUE)
    <3>2. rs \in [Page -> ResultRow] /\ r \in ResultRow
      BY <1>1, <3>1, StopTypes
    <3>3. res' = [rs EXCEPT ![i] = r]
      BY <2>1 DEF FinishThrows
    <3> HIDE DEF rs, r
    <3> QED BY <3>1, <3>2, <3>3
  <2>2. CASE ~stop
    BY <2>2 DEF FinishThrows
  <2> QED BY <2>1, <2>2
<1>6. task' = Recomputed(item', res', task) /\ UNCHANGED gen
  BY DEF FinishThrows
<1> QED BY <1>4, <1>5, <1>6, SettledIs

LEMMA ClaimTypes ==
  ASSUME Types, NEW h \in Handler, NEW i \in Item, claimPendingItem(h, i)
  PROVE  TaskTypes' /\ run' \in [Handler -> RunRow]
<1> USE DEF Types, TaskTypes
<1>1. item' \in [Item -> ItemRow]
  BY DEF claimPendingItem, ItemRow, ItemState, Open
<1>2. UNCHANGED <<res, gen>> /\ task' = Recomputed(item', res, task)
  BY DEF claimPendingItem
<1>3. run' = [run EXCEPT ![h] = [Idle EXCEPT !.at = "begin", !.job = i, !.ep = item'[i].ep]]
  BY DEF claimPendingItem
<1>4. item'[i].ep \in Nat
  BY <1>1 DEF ItemRow
<1>5. [Idle EXCEPT !.at = "begin", !.job = i, !.ep = item'[i].ep] \in RunRow
  BY <1>4, IdleIs DEF RunRow
<1> QED BY <1>1, <1>2, <1>3, <1>5, SettledIs

LEMMA GatherIs ==
  ASSUME Types
  PROVE  /\ \A ps \in SUBSET Page : Touched(ps) \subseteq Source /\ Returned(res, ps) \in Nat
         /\ \A st : Pages(item, st) \subseteq Page
BY BooksAre DEF Types, Touched, Pages

\* What a step of a handler may do to its own record.
LEMMA RunTypes ==
  ASSUME Types, NEW h \in Handler,
         \/ FetchPage(h) \/ BeginFinalize(h) \/ MarkProcessing(h) \/ GatherPages(h)
         \/ PlanPreview(h) \/ CreateShell(h) \/ StageBatch(h) \/ ActivatePreview(h)
         \/ SupersedeShell(h) \/ CompleteFinalize(h) \/ FinalizeThrows(h)
         \/ CatchFinalize(h) \/ LoseLease(h) \/ FinishPage(h) \/ FinishThrows(h)
         \/ FinishFinalize(h)
  PROVE  run' \in [Handler -> RunRow]
<1> USE DEF Types
<1>0. run[h] \in RunRow /\ Idle \in RunRow /\ run \in [Handler -> RunRow]
  BY IdleIs
<1>1. CASE LoseLease(h) \/ FinishPage(h) \/ FinishThrows(h) \/ FinishFinalize(h)
  BY <1>0, <1>1 DEF LoseLease, FinishPage, FinishThrows, FinishFinalize
<1>2. CASE FetchPage(h)
  <2>1. ASSUME NEW out \in {"failed", "passed", "upstream"},
               run' = [run EXCEPT ![h].at = "end", ![h].out = out]
        PROVE  run' \in [Handler -> RunRow]
    BY <1>0, <2>1 DEF RunRow
  <2>2. ASSUME NEW n \in 0..PageSize, NEW total \in scene.totals,
               run' = [run EXCEPT ![h].at = "end", ![h].out = "fetched",
                                  ![h].n = n, ![h].total = total]
        PROVE  run' \in [Handler -> RunRow]
    <3>1. total \in Nat
      BY SceneIs
    <3> QED BY <1>0, <2>2, <3>1 DEF RunRow
  <2> QED BY <1>2, <2>1, <2>2 DEF FetchPage
<1>3. CASE BeginFinalize(h)
  BY <1>0, <1>3 DEF BeginFinalize, RunRow, TaskRow, Planning
<1>4. CASE GatherPages(h)
  <2>1. /\ Touched(Pages(item, {"success"})) \in SUBSET Source
        /\ Returned(res, Pages(item, {"success"})) \in Nat
    BY GatherIs
  <2> DEFINE ok == Pages(item, {"success"})
             at == IF Touched(ok) = {} THEN "complete" ELSE "plan"
             bad == \/ Pages(item, {"failed"}) # {}
                    \/ run[h].why \in {"safety_limit", "upstream_error"}
                    \/ Returned(res, ok) < run[h].want
             touched == Touched(ok)
             actual == Returned(res, ok)
  <2>2. run' = [run EXCEPT ![h].at = at, ![h].touched = touched, ![h].actual = actual,
                           ![h].bad = bad]
    BY <1>4 DEF GatherPages
  <2>3. at \in {"complete", "plan"} /\ bad \in BOOLEAN
    OBVIOUS
  <2> HIDE DEF at, bad, touched, actual
  <2>4. touched \in SUBSET Source /\ actual \in Nat
    BY <2>1 DEF touched, actual
  <2> HIDE DEF Types
  <2>5. [run[h] EXCEPT !.at = at, !.touched = touched, !.actual = actual, !.bad = bad] \in RunRow
    BY <1>0, <2>3, <2>4 DEF RunRow, Planning, Gathered
  <2>6. run' = [run EXCEPT ![h] =
          [run[h] EXCEPT !.at = at, !.touched = touched, !.actual = actual, !.bad = bad]]
    BY <2>2, Zenon
  <2> QED BY <1>0, <2>5, <2>6
<1>5. CASE PlanPreview(h)
  <2>1. CASE run' = [run EXCEPT ![h] = [@ EXCEPT !.at = "complete"]]
    BY <1>0, <2>1 DEF RunRow, Planning, Gathered
  <2>2. ASSUME NEW misfit \in scene.misfits,
               run' = [run EXCEPT ![h] =
                 [@ EXCEPT !.at = IF preview[gen].st = "none" THEN "shell" ELSE "batch",
                           !.plan = run[h].touched \ (fresh \cup misfit),
                           !.left = {s[1] : s \in run[h].touched \ (fresh \cup misfit)}]]
        PROVE  run' \in [Handler -> RunRow]
    <3> DEFINE plan == run[h].touched \ (fresh \cup misfit)
               left == {s[1] : s \in plan}
    <3>1. plan \in SUBSET Source /\ left \in SUBSET Page
      BY <1>0 DEF RunRow, Source
    <3>3. run' = [run EXCEPT ![h] =
            [run[h] EXCEPT !.at = IF preview[gen].st = "none" THEN "shell" ELSE "batch",
                           !.plan = plan, !.left = left]]
      BY <2>2
    <3> HIDE DEF plan, left, Types
    <3>2. [run[h] EXCEPT !.at = IF preview[gen].st = "none" THEN "shell" ELSE "batch",
                         !.plan = plan, !.left = left] \in RunRow
      BY <1>0, <3>1 DEF RunRow, Planning, Gathered
    <3> QED BY <1>0, <3>2, <3>3
  <2>3. CASE preview[gen].st \notin {"none", "building"}
    <3>1. run' = [run EXCEPT ![h].at = "complete"]
      BY <1>5, <2>3 DEF PlanPreview, Step
    <3> QED BY <2>1, <3>1
  <2>4. CASE preview[gen].st \in {"none", "building"}
    <3>1. PICK misfit \in scene.misfits :
            run' = [run EXCEPT ![h] =
              IF \/ run[h].touched \ (fresh \cup misfit) = {}
                 \/ ActiveScope(run[h].touched \ (fresh \cup misfit), gen)
              THEN [@ EXCEPT !.at = "complete"]
              ELSE [@ EXCEPT !.at = IF preview[gen].st = "none" THEN "shell" ELSE "batch",
                             !.plan = run[h].touched \ (fresh \cup misfit),
                             !.left = {s[1] : s \in run[h].touched \ (fresh \cup misfit)}]]
      BY <1>5, <2>4 DEF PlanPreview
    <3> QED BY <2>1, <2>2, <3>1, Zenon
  <2> QED BY <2>3, <2>4
<1>6. CASE StageBatch(h)
  <2> DEFINE p == Min(run[h].left)
             at == IF run[h].left = {p} THEN "activate" ELSE "batch"
             left == run[h].left \ {p}
  <2>1. run' = [run EXCEPT ![h].left = left, ![h].at = at]
    BY <1>0, <1>6 DEF StageBatch
  <2>2. left \in SUBSET Page /\ at \in {"activate", "batch"}
    BY <1>0 DEF RunRow
  <2> HIDE DEF left, at
  <2> HIDE DEF Types
  <2>3. [run[h] EXCEPT !.left = left, !.at = at] \in RunRow
    BY <1>0, <2>2 DEF RunRow, Planning, Gathered
  <2> QED BY <1>0, <2>1, <2>3
<1>7. CASE \/ MarkProcessing(h) \/ CreateShell(h) \/ ActivatePreview(h)
           \/ SupersedeShell(h) \/ CompleteFinalize(h) \/ FinalizeThrows(h)
           \/ CatchFinalize(h)
  <2> HIDE DEF Types
  <2>1. \/ \E at \in Planning \cup {"caught"} : run' = [run EXCEPT ![h].at = at]
        \/ \E out \in {"success", "retry"} :
             run' = [run EXCEPT ![h].at = "end", ![h].out = out]
    BY <1>7 DEF MarkProcessing, CreateShell, ActivatePreview, SupersedeShell,
       CompleteFinalize, FinalizeThrows, CatchFinalize, Step, Planning, Gathered
  <2>2. ASSUME NEW at \in Planning \cup {"caught"}, run' = [run EXCEPT ![h].at = at]
        PROVE  run' \in [Handler -> RunRow]
    BY <1>0, <2>2 DEF RunRow
  <2>3. ASSUME NEW out \in {"success", "retry"},
               run' = [run EXCEPT ![h].at = "end", ![h].out = out]
        PROVE  run' \in [Handler -> RunRow]
    BY <1>0, <2>3 DEF RunRow
  <2> QED BY <2>1, <2>2, <2>3
<1> QED BY <1>1, <1>2, <1>3, <1>4, <1>5, <1>6, <1>7

LEMMA FinalizeTypes ==
  ASSUME Types, NEW h \in Handler,
         \/ MarkProcessing(h) \/ CreateShell(h) \/ StageBatch(h) \/ ActivatePreview(h)
         \/ SupersedeShell(h) \/ CompleteFinalize(h) \/ CatchFinalize(h)
         \/ FinishFinalize(h)
  PROVE  TaskTypes' /\ preview' \in [Gen -> PreviewRow]
<1> USE DEF Types, TaskTypes
<1>0. run[h] \in RunRow /\ Fin \in Item
  BY DEF Item, Fin
<1>1. CASE MarkProcessing(h) \/ CompleteFinalize(h)
  <2>1. UNCHANGED <<item, res, gen, preview>>
    BY <1>1 DEF MarkProcessing, CompleteFinalize
  <2>2. task' \in TaskRow
    BY <1>0, <1>1 DEF MarkProcessing, CompleteFinalize, TaskRow
  <2> QED BY <2>1, <2>2
<1>2. CASE CreateShell(h)
  <2>1. UNCHANGED <<item, res, gen, task>>
    BY <1>2 DEF CreateShell, rows
  <2>2. preview' \in [Gen -> PreviewRow]
    BY <1>0, <1>2 DEF CreateShell, PreviewRow, RunRow
  <2> QED BY <2>1, <2>2
<1>3. CASE StageBatch(h)
  <2> DEFINE b == {s \in run[h].plan : s[1] = Min(run[h].left)}
  <2>1. b \subseteq Source
    BY <1>0 DEF RunRow
  <2>2. preview' = [preview EXCEPT ![gen].items = @ \cup b]
    BY <1>3 DEF StageBatch
  <2> HIDE DEF b
  <2>3. preview' \in [Gen -> PreviewRow]
    BY <2>1, <2>2 DEF PreviewRow
  <2>4. UNCHANGED <<item, res, gen, task>>
    BY <1>3 DEF StageBatch, rows
  <2> QED BY <2>3, <2>4
<1>4. CASE ActivatePreview(h) \/ SupersedeShell(h)
  <2>1. UNCHANGED <<item, res, gen, task>>
    BY <1>4 DEF ActivatePreview, SupersedeShell, rows
  <2>2. preview' \in [Gen -> PreviewRow]
    BY <1>0, <1>4 DEF ActivatePreview, SupersedeShell, PreviewRow
  <2> QED BY <2>1, <2>2
<1>5. CASE CatchFinalize(h)
  <2>1. FailedShell(preview, gen) \in [Gen -> PreviewRow]
    BY DEF FailedShell, PreviewRow
  <2>2. FailedTask(task, gen) \in TaskRow
    BY DEF FailedTask, TaskRow
  <2>3. /\ UNCHANGED <<item, res, gen>>
        /\ \/ preview' = FailedShell(preview, gen) /\ task' = FailedTask(task, gen)
           \/ UNCHANGED <<preview, task>>
    BY <1>5 DEF CatchFinalize
  <2> QED BY <2>1, <2>2, <2>3
<1>6. CASE FinishFinalize(h)
  <2>1. item' \in [Item -> ItemRow]
    BY <1>0, <1>6 DEF FinishFinalize, ItemRow, ItemState, Open
  <2>2. UNCHANGED <<res, gen, preview>> /\ task' = Recomputed(item', res, task)
    BY <1>6 DEF FinishFinalize
  <2> QED BY <2>1, <2>2, SettledIs
<1> QED BY <1>1, <1>2, <1>3, <1>4, <1>5, <1>6

LEMMA RetryTypes ==
  ASSUME Types, retryFailedTask \/ retryCatalogFinalizeTask
  PROVE  TaskTypes'
<1> USE DEF Types, TaskTypes
<1>0. NextGen \in Gen /\ Fin \in Item /\ NewItem \in ItemRow /\ None \in ResultRow
  BY NextGenIs, NoBooks
  DEF retryFailedTask, retryCatalogFinalizeTask, TaskRow, Item, Fin, NewItem, ItemRow,
      ItemState, Open
<1>1. ASSUME NEW it \in [Item -> ItemRow], NEW rs \in [Page -> ResultRow],
             Rearm(it, rs, task, NextGen)
      PROVE  TaskTypes'
  <2>1. item' \in [Item -> ItemRow]
    BY <1>0, <1>1 DEF Rearm, ItemRow
  <2>2. task' \in TaskRow
    BY <1>0, <1>1 DEF Rearm, TaskRow, Open
  <2> QED BY <1>0, <1>1, <2>1, <2>2 DEF Rearm
<1>2. CASE retryFailedTask
  <2> DEFINE failed == Pages(item, {"failed"})
             it == [i \in Item |-> IF i \in failed THEN [item[i] EXCEPT !.st = "pending"] ELSE item[i]]
             rs == [p \in Page |-> IF p \in failed THEN None ELSE res[p]]
  <2>1. it \in [Item -> ItemRow] /\ rs \in [Page -> ResultRow]
    BY <1>0 DEF ItemRow, ItemState, Open
  <2>2. Rearm(it, rs, task, NextGen)
    BY <1>2 DEF retryFailedTask
  <2> HIDE DEF it, rs
  <2> QED BY <1>1, <2>1, <2>2
<1>3. CASE retryCatalogFinalizeTask
  BY <1>1, <1>3 DEF retryCatalogFinalizeTask
<1> QED BY <1>2, <1>3

LEMMA TypesStep ==
  ASSUME Types, [Next]_vars
  PROVE  Types'
<1> SUFFICES TaskTypes' /\ OtherTypes'
  BY DEF Types, TaskTypes, OtherTypes
<1> USE DEF Types, TaskTypes, OtherTypes, rows, budgets
<1>1. ASSUME NEW h \in Handler, NEW i \in Item, claimPendingItem(h, i)
      PROVE  TaskTypes' /\ OtherTypes'
  <2>1. TaskTypes' /\ run' \in [Handler -> RunRow]
    BY <1>1, ClaimTypes
  <2> QED BY <1>1, <2>1 DEF claimPendingItem
<1>2. ASSUME NEW i \in Item, Expire(i)
      PROVE  TaskTypes' /\ OtherTypes'
  <2>1. item' \in [Item -> ItemRow]
    BY <1>2 DEF Expire, ItemRow
  <2>3. hangs' \in {hangs, hangs + 1}
    BY <1>2 DEF Expire
  <2>2. UNCHANGED <<res, gen, task, preview, manual, fresh, skipped, flags, run, scene, throws,
                    unbound, deploys>>
    BY <1>2 DEF Expire
  <2> QED BY <2>1, <2>2, <2>3
<1>3. ASSUME NEW i \in Item, recoverExpiredItem(i)
      PROVE  TaskTypes' /\ OtherTypes'
  <2>1. TaskTypes' /\ preview' \in [Gen -> PreviewRow]
    BY <1>3, RecoverTypes
  <2> QED BY <1>3, <2>1 DEF recoverExpiredItem
<1>4. ASSUME NEW h \in Handler, LoseLease(h) \/ FetchPage(h)
      PROVE  TaskTypes' /\ OtherTypes'
  <2>1. run' \in [Handler -> RunRow]
    BY <1>4, RunTypes
  <2>2. UNCHANGED <<rows, preview, manual, fresh, skipped, flags, scene, hangs, throws, deploys>>
    BY <1>4 DEF LoseLease, FetchPage
  <2>3. unbound' \in {unbound, unbound + 1}
    <3>1. CASE LoseLease(h)
      BY <3>1 DEF LoseLease
    <3>2. CASE FetchPage(h)
      BY <3>2 DEF FetchPage
    <3> QED BY <1>4, <3>1, <3>2
  <2> QED BY <2>1, <2>2, <2>3
<1>5. ASSUME Redeploy PROVE TaskTypes' /\ OtherTypes'
  BY <1>5, IdleIs, SceneIs DEF Redeploy
<1>6. ASSUME NEW h \in Handler, FinishPage(h) PROVE TaskTypes' /\ OtherTypes'
  <2>1. TaskTypes' /\ run' \in [Handler -> RunRow]
    BY <1>6, RunTypes, PageTypes
  <2> QED BY <1>6, <2>1 DEF FinishPage
<1>7. ASSUME NEW h \in Handler, FinishThrows(h) PROVE TaskTypes' /\ OtherTypes'
  <2>1. TaskTypes' /\ run' \in [Handler -> RunRow]
    BY <1>7, RunTypes, ThrowTypes
  <2>2. /\ UNCHANGED <<preview, manual, fresh, skipped, flags, scene, hangs, unbound, deploys>>
        /\ throws' = throws + 1
    BY <1>7 DEF FinishThrows
  <2> QED BY <2>1, <2>2
<1>8. ASSUME NEW h \in Handler,
             \/ BeginFinalize(h) \/ GatherPages(h) \/ PlanPreview(h) \/ FinalizeThrows(h)
      PROVE  TaskTypes' /\ OtherTypes'
  <2>1. run' \in [Handler -> RunRow]
    BY <1>8, RunTypes
  <2>2. /\ UNCHANGED <<rows, preview, manual, fresh, flags, scene, hangs, unbound, deploys>>
        /\ throws' \in {throws, throws + 1}
        /\ skipped' \subseteq skipped \cup run[h].touched
    BY <1>8 DEF BeginFinalize, GatherPages, PlanPreview, FinalizeThrows
  <2>3. run[h] \in RunRow
    OBVIOUS
  <2>4. skipped' \subseteq Source
    BY <2>2, <2>3 DEF RunRow
  <2> QED BY <2>1, <2>2, <2>4
<1>9. ASSUME NEW h \in Handler,
             \/ MarkProcessing(h) \/ CreateShell(h) \/ StageBatch(h) \/ ActivatePreview(h)
             \/ SupersedeShell(h) \/ CompleteFinalize(h) \/ CatchFinalize(h)
             \/ FinishFinalize(h)
      PROVE  TaskTypes' /\ OtherTypes'
  <2>1. run' \in [Handler -> RunRow] /\ TaskTypes' /\ preview' \in [Gen -> PreviewRow]
    BY <1>9, RunTypes, FinalizeTypes
  <2> QED BY <1>9, <2>1 DEF MarkProcessing, CreateShell, StageBatch, ActivatePreview,
       SupersedeShell, CompleteFinalize, CatchFinalize, FinishFinalize
<1>10. ASSUME retryFailedTask \/ retryCatalogFinalizeTask
       PROVE  TaskTypes' /\ OtherTypes'
  <2>1. TaskTypes'
    BY <1>10, RetryTypes
  <2> QED BY <1>10, <2>1 DEF retryFailedTask, retryCatalogFinalizeTask, Rearm
<1>11. ASSUME NEW scope \in scene.scopes, RequestPreview(scope)
       PROVE  TaskTypes' /\ OtherTypes'
  BY <1>11, SceneIs DEF RequestPreview, ManualRow
<1>12. ASSUME ManualDone \/ \E g \in Gen : PreviewDone(g)
       PROVE  TaskTypes' /\ OtherTypes'
  BY <1>12 DEF ManualDone, PreviewDone, ManualRow, PreviewRow
<1>13. CASE UNCHANGED vars
  BY <1>13 DEF vars
<1> QED BY <1>1, <1>2, <1>3, <1>4, <1>5, <1>6, <1>7, <1>8, <1>9, <1>10, <1>11, <1>12,
        <1>13 DEF Next, Work
-----------------------------------------------------------------------------
(* A page ends: what its transaction, its recovery or its failure has in   *)
(* common.  "along" is what becomes of the pages behind it.                *)

RowsEnd(p, along) ==
  /\ item[p].st = "processing"
  /\ item'[p].st \in {"pending", "success", "failed"} /\ item'[p].ep = item[p].ep
  /\ \A q \in Page \ {p} :
       IF along # "none" /\ q \in Behind(item, p)
       THEN item'[q].st = along /\ item'[q].ep = item[q].ep
       ELSE item'[q] = item[q]
  /\ item'[Fin].ep = item[Fin].ep
  /\ IF along = "none" THEN item'[Fin].st = item[Fin].st ELSE item'[Fin].st = "pending"

ResultsEnd(p, along) ==
  /\ item'[p].st = "success" => res'[p].how \in {"fetched", "passed"}
  /\ \A q \in Page \ {p} :
       IF along # "none" /\ q \in Behind(item, p)
       THEN along = "success" => res'[q].how = "passed"
       ELSE res'[q] = res[q]
  /\ along = "none" /\ p = Scheduled =>
       \/ item'[p].st = "pending"
       \/ item'[p].st = "failed" /\ res'[p].why = "none"
  /\ along = "none" => item'[p].st \in {"pending", "failed"} \/ p # Scheduled

\* What the end of the catalogue rests on after the step.
EvidenceEnds(p, along) ==
  /\ \/ task'.terminal = 0
     \/ /\ task'.terminal = p
        /\ Witness(p)' \/ (item'[p].st = "failed" /\ along = "failed")
     \/ /\ task'.terminal = task.terminal
        /\ \/ item'[p].st = "pending" /\ along = "none"
           \/ item'[p].st = "failed" /\ along = "failed"
           \/ item'[p].st = "failed" /\ along = "none" /\ (Steady => ~flags)
           \/ item'[p].st = "success" /\ res'[p].how = "passed" /\ task.terminal < p
  /\ along = "success" \/ (item'[p].st = "success" /\ res'[p].how = "passed") =>
       \/ Witness(p)'
       \/ Steady => \E w \in Page : w < p /\ Witness(w)
  /\ along = "success" => item'[p].st = "success"

PageEnds(p, along) ==
  /\ RowsEnd(p, along) /\ ResultsEnd(p, along) /\ EvidenceEnds(p, along)
  /\ (task'.st \in Open) <=> (\E i \in Item : item'[i].st \in Open)
  /\ task'.st = "completed" => \A i \in Item : item'[i].st \notin Open \cup {"failed"}
  /\ \/ task'.fin \in {"none", "pending"}
     \/ task'.fin = task.fin /\ task'.fgen = task.fgen
  /\ UNCHANGED <<gen, preview, manual, fresh, skipped, flags, scene, unbound, deploys>>

\* The handlers go on as they were, or end.
Drops == \A k \in Handler : run'[k] = run[k] \/ run'[k] = Idle

LEMMA PageIsProcessing ==
  ASSUME Types, Order, NEW p \in Page, item[p].st = "processing"
  PROVE  /\ item[Fin].st \in {"none", "pending"}
         /\ \A q \in Page : q # p => item[q].st # "processing"
         /\ \A q \in Page : q < p => item[q].st \notin Open
         /\ ~PagesSettled
<1>1. p \in Nat /\ Page \subseteq Nat
  BY PagesAre
<1>2. ~PagesSettled
  BY DEF PagesSettled, Open
<1>3. item[Fin].st \in {"none", "pending"}
  BY <1>2 DEF Order
<1>4. ASSUME NEW q \in Page, q # p PROVE item[q].st # "processing"
  <2>1. q < p \/ p < q
    BY <1>1, <1>4
  <2> QED BY <2>1 DEF Order, Open
<1>5. ASSUME NEW q \in Page, q < p PROVE item[q].st \notin Open
  BY <1>5 DEF Order
<1> QED BY <1>2, <1>3, <1>4, <1>5

\* The cascade of a stop, and the finalize item with it.
LEMMA StopRows ==
  ASSUME Types, Order, NEW p \in Page, item[p].st = "processing",
         NEW done \in [Item -> ItemRow], NEW along \in {"success", "failed"},
         done[p].st = along, done[p].ep = item[p].ep,
         \A i \in Item : i # p => done[i] = item[i],
         item' = WithFinalize(Cascade(done, p, along))
  PROVE  RowsEnd(p, along)
<1> DEFINE c == Cascade(done, p, along)
<1>1. Behind(done, p) = Behind(item, p)
  BY PagesAre DEF Behind, Item
<1>2. p \notin Behind(item, p) /\ Fin \notin Behind(item, p) /\ Fin \in Item /\ p \in Item /\ p # Fin
  BY PagesAre DEF Behind, Fin, Item
<1>3. \A i \in Item : c[i] = IF i \in Behind(item, p) THEN [item[i] EXCEPT !.st = along]
                            ELSE IF i = p THEN done[p] ELSE item[i]
  <2>1. \A i \in Behind(item, p) : i # p /\ done[i] = item[i]
    BY <1>2 DEF Behind, Item
  <2> QED BY <1>1, <2>1 DEF Cascade
<1>4. c \in [Item -> ItemRow]
  BY <1>1, RowTypes DEF Types, ItemState, ResultRow, Cascade, ItemRow
<1>5. item[Fin].st \in {"none", "pending"}
  BY PageIsProcessing
<1>6. c[Fin] = item[Fin]
  BY <1>2, <1>3
<1> HIDE DEF c
<1>7. item' = IF c[Fin].st = "none" THEN [c EXCEPT ![Fin] = NewItem] ELSE c
  BY DEF WithFinalize, c
<1>8. \A q \in Page : item'[q] = c[q]
  BY <1>2, <1>4, <1>7 DEF Item, Fin, Page
<1>9. item'[Fin].st = "pending" /\ item'[Fin].ep = item[Fin].ep
  BY <1>2, <1>4, <1>5, <1>6, <1>7 DEF Order, NewItem
<1>10. item'[p] = done[p]
  BY <1>2, <1>3, <1>8
<1>11. ASSUME NEW q \in Page \ {p}
       PROVE  IF q \in Behind(item, p) THEN item'[q].st = along /\ item'[q].ep = item[q].ep
              ELSE item'[q] = item[q]
  <2>1. q \in Item /\ q # p /\ item'[q] = c[q]
    BY <1>8 DEF Item
  <2>2. item[q] \in ItemRow
    BY <2>1 DEF Types
  <2>3. CASE q \in Behind(item, p)
    <3>1. item'[q] = [item[q] EXCEPT !.st = along]
      BY <1>3, <2>1, <2>3
    <3> QED BY <2>2, <2>3, <3>1 DEF ItemRow
  <2>4. CASE q \notin Behind(item, p)
    BY <1>3, <2>1, <2>4
  <2> QED BY <2>3, <2>4
<1> QED BY <1>9, <1>10, <1>11 DEF RowsEnd

LEMMA ParentIs ==
  ASSUME item' \in [Item -> ItemRow], NEW t \in TaskRow, NEW rs,
         task' = Recomputed(item', rs, t)
  PROVE  /\ task' \in TaskRow
         /\ task'.terminal = t.terminal /\ task'.want = t.want /\ task'.fin = t.fin
         /\ task'.fgen = t.fgen /\ task'.verdict = t.verdict
         /\ (task'.st \in Open) <=> (\E i \in Item : item'[i].st \in Open)
         /\ task'.st = "completed" => \A i \in Item : item'[i].st \notin Open \cup {"failed"}
         /\ task'.st = "completed" => t.verdict # "partial_failed"
BY RecomputedIs

LEMMA Finishes ==
  ASSUME CatalogInv, NEW h \in Handler, NEW p \in Item, p = run[h].job, FinishPage(h)
  PROVE  p \in Page /\ \E along \in {"none", "success", "failed"} : PageEnds(p, along)
<1> USE DEF CatalogInv, Types
<1>1. /\ p \in Page /\ p \in Item /\ p # Fin /\ Fin \in Item /\ run[h] \in RunRow
      /\ item[p].st = "processing" /\ Works(h) /\ run[h].at = "end" /\ Owns(h)
  BY DEF FinishPage, RunRow, Item, Fin, Works, Owns
<1>2. UNCHANGED <<gen, preview, manual, fresh, skipped, flags, scene, unbound, deploys>>
  BY DEF FinishPage, budgets
<1>3. item[Fin].st \in {"none", "pending"}
  BY <1>1, PageIsProcessing
<1>4. \A q \in Page : q \in Behind(item, p) => q # p
  BY PagesAre DEF Behind
<1>6. \A st \in {"success", "failed"} :
        LET done == [item EXCEPT ![p].st = st]
        IN  /\ done \in [Item -> ItemRow] /\ done[p].st = st /\ done[p].ep = item[p].ep
            /\ \A i \in Item : i # p => done[i] = item[i]
  BY <1>1 DEF ItemRow, ItemState
<1>7. item' \in [Item -> ItemRow] /\ res' \in [Page -> ResultRow] /\ task' \in TaskRow
  BY PageTypes DEF TaskTypes
<1>8. CASE FailPage(h)
  <2>1. /\ item' = [item EXCEPT ![p].st = "failed"]
        /\ res' = [res EXCEPT ![p] = Result("error", 0, "none", FALSE)]
        /\ task' = Recomputed(item', res', task) /\ run[h].out = "failed"
    BY <1>8 DEF FailPage
  <2>2. RowsEnd(p, "none")
    BY <1>1, <1>6, <2>1 DEF RowsEnd, Item
  <2>3. res'[p].why = "none"
    BY <1>1, <2>1 DEF Result
  <2>4. ResultsEnd(p, "none")
    BY <1>1, <1>6, <2>1, <2>3 DEF ResultsEnd
  <2>5. Steady => ~flags
    BY <1>1, <2>1 DEF Evidence
  <2>6. /\ task'.terminal = task.terminal /\ task'.fin = task.fin /\ task'.fgen = task.fgen
        /\ (task'.st \in Open) <=> (\E i \in Item : item'[i].st \in Open)
        /\ task'.st = "completed" => \A i \in Item : item'[i].st \notin Open \cup {"failed"}
    BY <1>7, <2>1, ParentIs
  <2>7. item'[p].st = "failed"
    BY <1>6, <2>1
  <2>8. PageEnds(p, "none")
    BY <1>2, <2>2, <2>4, <2>5, <2>6, <2>7 DEF PageEnds, EvidenceEnds
  <2> QED BY <1>1, <2>8
<1>9. CASE PersistUpstreamFailure(h)
  <2> DEFINE done == [item EXCEPT ![p].st = "failed"]
             t == [task EXCEPT !.terminal = p, !.why = "upstream_error", !.fin = "pending",
                    !.fgen = gen, !.verdict = "processing"]
             rs == CascadeResult(item, p, Result("error", 0, "upstream_error", FALSE))
  <2>1. /\ item' = WithFinalize(Cascade(done, p, "failed"))
        /\ res' = [rs EXCEPT ![p] = Result("error", 0, "upstream_error", TRUE)]
        /\ task' = Recomputed(item', res', t)
    BY <1>9 DEF PersistUpstreamFailure
  <2>2. RowsEnd(p, "failed")
    <3> HIDE DEF done
    <3>1. /\ done \in [Item -> ItemRow] /\ done[p].st = "failed" /\ done[p].ep = item[p].ep
          /\ \A i \in Item : i # p => done[i] = item[i]
      BY <1>6 DEF done
    <3> QED BY <1>1, <2>1, <3>1, StopRows
  <2>3. item'[p].st = "failed"
    <3> HIDE DEF done
    <3>1. /\ item' = WithFinalize(Cascade(done, p, "failed"))
          /\ done \in [Item -> ItemRow] /\ done[p].st = "failed"
      BY <1>6, <2>1 DEF done
    <3>2. p \notin Behind(done, p)
      BY <1>1, PagesAre DEF Behind
    <3> QED BY <1>1, <3>1, <3>2 DEF WithFinalize, Cascade
  <2>4. \A q \in Page \ {p} : q \notin Behind(item, p) => res'[q] = res[q]
    BY <2>1 DEF CascadeResult
  <2>5. ResultsEnd(p, "failed")
    BY <2>3, <2>4 DEF ResultsEnd
  <2>6. t \in TaskRow /\ t.terminal = p /\ t.fin = "pending"
    BY <1>1 DEF TaskRow, StopReasons
  <2> HIDE DEF t
  <2>7. /\ task'.terminal = p /\ task'.fin = "pending"
        /\ (task'.st \in Open) <=> (\E i \in Item : item'[i].st \in Open)
        /\ task'.st = "completed" => \A i \in Item : item'[i].st \notin Open \cup {"failed"}
    BY <1>7, <2>1, <2>6, ParentIs
  <2>8. PageEnds(p, "failed")
    BY <1>2, <2>2, <2>3, <2>5, <2>7 DEF PageEnds, EvidenceEnds
  <2> QED BY <1>1, <2>8
<1>10. CASE PassPage(h)
  <2> DEFINE done == [item EXCEPT ![p].st = "success"]
             passed == Result("passed", 0, "expected_total_reached", FALSE)
             rs == CascadeResult(item, p, passed)
  <2>1. /\ item' = WithFinalize(Cascade(done, p, "success"))
        /\ res' = [rs EXCEPT ![p] = passed]
        /\ task' = Recomputed(item', res', task) /\ run[h].out = "passed"
    BY <1>10 DEF PassPage
  <2>2. RowsEnd(p, "success") /\ item'[p].st = "success"
    <3> HIDE DEF done
    <3>1. /\ done \in [Item -> ItemRow] /\ done[p].st = "success" /\ done[p].ep = item[p].ep
          /\ \A i \in Item : i # p => done[i] = item[i]
      BY <1>6 DEF done
    <3>2. p \notin Behind(done, p)
      BY <1>1, PagesAre DEF Behind
    <3> QED BY <1>1, <2>1, <3>1, <3>2, StopRows DEF WithFinalize, Cascade
  <2>3. passed.how = "passed"
    BY DEF Result
  <2> HIDE DEF passed
  <2>4. res'[p].how = "passed" /\ \A q \in Behind(item, p) : res'[q].how = "passed"
    BY <1>1, <1>4, <2>1, <2>3 DEF CascadeResult, Behind
  <2>5. ResultsEnd(p, "success")
    BY <2>1, <2>4 DEF ResultsEnd, CascadeResult
  <2>9. task.terminal < p
    BY <1>1, <2>1, PagesAre DEF Evidence, TaskRow
  <2>6. ASSUME Steady PROVE \E w \in Page : w < p /\ Witness(w)
    <3>1. flags /\ task.terminal # 0 /\ p > task.terminal
      BY <1>1, <2>1 DEF Evidence
    <3>2. task.terminal \in Page /\ task.terminal < p
      BY <1>1, <3>1, PagesAre DEF TaskRow
    <3>3. item[task.terminal].st \notin Open
      BY <1>1, <3>2, PageIsProcessing
    <3>4. item[p].st \in Open
      BY <1>1 DEF Open
    <3> QED BY <1>1, <2>6, <3>1, <3>2, <3>3, <3>4 DEF Evidence
  <2>7. /\ task'.terminal = task.terminal /\ task'.fin = task.fin /\ task'.fgen = task.fgen
        /\ (task'.st \in Open) <=> (\E i \in Item : item'[i].st \in Open)
        /\ task'.st = "completed" => \A i \in Item : item'[i].st \notin Open \cup {"failed"}
    BY <1>7, <2>1, ParentIs
  <2>8. PageEnds(p, "success")
    BY <1>2, <2>2, <2>4, <2>5, <2>6, <2>7, <2>9 DEF PageEnds, EvidenceEnds
  <2> QED BY <1>1, <2>8
<1>11. CASE PersistPage(h)
  <2> DEFINE n == run[h].n
             before == Returned(res, Pages(item, {"success"}))
             why == StopReason(n, before + n, Expected(run[h].total), p)
             stop == why # "none"
             short == StopReason(n, (p - 1) * PageSize + n, run[h].total, p) = "safety_limit"
             done == [item EXCEPT ![p].st = "success"]
             rs == IF stop THEN CascadeResult(item, p, Result("passed", 0, why, FALSE)) ELSE res
             t == [task EXCEPT !.terminal = IF stop THEN p ELSE 0, !.why = why,
                    !.want = Expected(run[h].total), !.verdict = "processing",
                    !.fin = IF stop THEN "pending" ELSE "none",
                    !.fgen = IF stop THEN gen ELSE 0]
             along == IF stop THEN "success" ELSE "none"
             final == Result("fetched", n, why, short)
  <2>1. /\ item' = (IF stop THEN WithFinalize(Cascade(done, p, "success")) ELSE done)
        /\ res' = [rs EXCEPT ![p] = final]
        /\ task' = Recomputed(item', res', t)
    BY <1>11 DEF PersistPage
  <2>2. why \in {"none"} \cup Reasons
    BY StopReasonIs
  <2>3. p = Scheduled => stop
    BY LastStops
  <2> HIDE DEF why
  <2>4. Expected(run[h].total) \in Nat
    BY <1>1, ExpectedIs DEF RunRow
  <2>5. t \in TaskRow /\ t.terminal = (IF stop THEN p ELSE 0) /\ t.fin \in {"none", "pending"}
    <3>1. task \in TaskRow /\ gen \in Gen
      OBVIOUS
    <3>2. t.terminal = (IF stop THEN p ELSE 0) /\ t.fin \in {"none", "pending"}
      BY <3>1 DEF TaskRow
    <3>3. t \in TaskRow
      <4>1. /\ (IF stop THEN p ELSE 0) \in {0} \cup Page
            /\ (IF stop THEN "pending" ELSE "none") \in {"none", "pending"}
            /\ (IF stop THEN gen ELSE 0) \in {0} \cup Gen
            /\ why \in {"none"} \cup StopReasons
        BY <1>1, <2>2, <3>1 DEF StopReasons
      <4> HIDE DEF stop
      <4> QED BY <2>4, <3>1, <4>1, ScanIs
    <3> QED BY <3>2, <3>3
  <2>6. final.how = "fetched" /\ final.why = why
    BY DEF Result
  <2>7. Result("passed", 0, why, FALSE).how = "passed"
    BY DEF Result
  <2> HIDE DEF t, final, short
  <2>8. RowsEnd(p, along) /\ item'[p].st = "success"
    <3>1. /\ done \in [Item -> ItemRow] /\ done[p].st = "success" /\ done[p].ep = item[p].ep
          /\ \A i \in Item : i # p => done[i] = item[i]
      BY <1>6
    <3>2. p \notin Behind(done, p)
      BY <1>1, PagesAre DEF Behind
    <3> HIDE DEF done
    <3>3. CASE stop
      BY <1>1, <2>1, <3>1, <3>2, <3>3, StopRows DEF WithFinalize, Cascade
    <3>4. CASE ~stop
      BY <1>1, <2>1, <3>1, <3>4 DEF RowsEnd, Item
    <3> QED BY <3>3, <3>4
  <2>9. res'[p] = final /\ \A q \in Page \ {p} : res'[q] = rs[q]
    BY <1>1, <2>1 DEF CascadeResult
  <2>10. ResultsEnd(p, along)
    BY <2>3, <2>6, <2>7, <2>8, <2>9 DEF ResultsEnd, CascadeResult
  <2>11. stop => Witness(p)'
    BY <2>2, <2>6, <2>8, <2>9 DEF Witness
  <2>12. /\ task'.terminal = t.terminal /\ task'.fin = t.fin
         /\ (task'.st \in Open) <=> (\E i \in Item : item'[i].st \in Open)
         /\ task'.st = "completed" => \A i \in Item : item'[i].st \notin Open \cup {"failed"}
    BY <1>7, <2>1, <2>5, ParentIs
  <2>13. EvidenceEnds(p, along)
    BY <2>5, <2>6, <2>8, <2>9, <2>11, <2>12 DEF EvidenceEnds
  <2>14. PageEnds(p, along)
    BY <1>2, <2>5, <2>8, <2>10, <2>12, <2>13 DEF PageEnds
  <2>15. along \in {"none", "success", "failed"}
    OBVIOUS
  <2> QED BY <1>1, <2>14, <2>15
<1> QED BY <1>8, <1>9, <1>10, <1>11 DEF FinishPage

\* A lease that is recovered, or a transaction that throws: the page is tried
\* again, or fails like an upstream error.
LEMMA FailsOrRetries ==
  ASSUME CatalogInv, NEW p \in Page, Types',
         \/ recoverExpiredItem(p)
         \/ \E h \in Handler : run[h].job = p /\ FinishThrows(h)
  PROVE  \E along \in {"none", "success", "failed"} : PageEnds(p, along)
<1> USE DEF CatalogInv, Types
<1> DEFINE last == item[p].att >= MaxAttempts
           st == IF last THEN "failed" ELSE "pending"
           a == [item EXCEPT ![p].st = st, ![p].exp = FALSE]
           b == [item EXCEPT ![p].st = st]
<1>1. p \in Item /\ p # Fin /\ Fin \in Item
  BY PagesAre DEF Item, Fin
<1>2. item[p].st = "processing"
  BY DEF recoverExpiredItem, FinishThrows, Owns
<1>3. UNCHANGED <<gen, preview, manual, fresh, skipped, flags, scene, unbound, deploys>>
  <2>1. CASE recoverExpiredItem(p)
    BY <1>1, <2>1 DEF recoverExpiredItem, budgets
  <2>2. CASE \E h \in Handler : run[h].job = p /\ FinishThrows(h)
    BY <2>2 DEF FinishThrows
  <2> QED BY <2>1, <2>2
<1>4. task' = Recomputed(item', res', task)
  BY <1>1 DEF recoverExpiredItem, FinishThrows
<1>5. PICK done \in {a, b} :
        item' = IF last THEN WithFinalize(Cascade(done, p, "failed")) ELSE done
  BY <1>1 DEF recoverExpiredItem, FinishThrows
<1>6. /\ done \in [Item -> ItemRow] /\ done[p].st = st /\ done[p].ep = item[p].ep
      /\ \A i \in Item : i # p => done[i] = item[i]
  <2>1. st \in ItemState
    BY DEF ItemState, Open
  <2> HIDE DEF st
  <2>2. CASE done = a
    <3>1. item[p] \in ItemRow
      BY <1>1
    <3> QED BY <1>1, <2>1, <2>2, <3>1 DEF ItemRow, a
  <2>3. CASE done = b
    BY <1>1, <2>1, <2>3 DEF ItemRow
  <2> QED BY <1>5, <2>2, <2>3
<1>7. /\ task'.terminal = task.terminal /\ task'.fin = task.fin /\ task'.fgen = task.fgen
      /\ (task'.st \in Open) <=> (\E i \in Item : item'[i].st \in Open)
      /\ task'.st = "completed" => \A i \in Item : item'[i].st \notin Open \cup {"failed"}
  BY <1>4, ParentIs
<1> HIDE DEF a, b
<1>8. CASE last
  <2>1. RowsEnd(p, "failed")
    BY <1>2, <1>5, <1>6, <1>8, StopRows
  <2>2. item'[p].st = "failed"
    <3>1. p \notin Behind(done, p)
      BY PagesAre DEF Behind
    <3> QED BY <1>1, <1>5, <1>6, <1>8, <3>1 DEF WithFinalize, Cascade
  <2>3. \A q \in Page \ {p} : q \notin Behind(item, p) => res'[q] = res[q]
    BY <1>1, <1>8 DEF recoverExpiredItem, FinishThrows, CascadeResult
  <2>4. ResultsEnd(p, "failed")
    BY <2>2, <2>3 DEF ResultsEnd
  <2>5. PageEnds(p, "failed")
    BY <1>3, <1>7, <2>1, <2>2, <2>4 DEF PageEnds, EvidenceEnds
  <2> QED BY <2>5
<1>9. CASE ~last
  <2>1. item' = done /\ item'[p].st = "pending"
    BY <1>5, <1>6, <1>9
  <2>2. RowsEnd(p, "none")
    BY <1>1, <1>2, <1>6, <2>1 DEF RowsEnd, Item
  <2>3. res' = res
    BY <1>1, <1>9 DEF recoverExpiredItem, FinishThrows
  <2>4. ResultsEnd(p, "none")
    BY <2>1, <2>3 DEF ResultsEnd
  <2>5. PageEnds(p, "none")
    BY <1>3, <1>7, <2>1, <2>2, <2>4 DEF PageEnds, EvidenceEnds
  <2> QED BY <2>5
<1> QED BY <1>8, <1>9

\* The invariant when a page ends.
LEMMA PageEndOrder ==
  ASSUME CatalogInv, Types', NEW p \in Page, NEW along \in {"none", "success", "failed"},
         PageEnds(p, along)
  PROVE  Order' /\ ~PagesSettled /\ item'[Fin].st \in {"none", "pending"}
<1> USE DEF CatalogInv, PageEnds
<1>1. /\ item[Fin].st \in {"none", "pending"}
      /\ \A q \in Page : q # p => item[q].st # "processing"
      /\ ~PagesSettled
  BY PageIsProcessing DEF RowsEnd
<1>2. item'[Fin].st \in {"none", "pending"}
  BY <1>1 DEF RowsEnd
<1>3. \A i \in Item : item'[i].st # "processing"
  <2>1. ASSUME NEW q \in Page PROVE item'[q].st # "processing"
    <3>1. CASE q = p
      BY <3>1 DEF RowsEnd
    <3>2. CASE q # p
      BY <1>1, <3>2 DEF RowsEnd
    <3> QED BY <3>1, <3>2
  <2> QED BY <1>2, <2>1 DEF Item
<1>4. \A q \in Page : item'[q].st # "none"
  BY DEF RowsEnd, Order
<1>5. ASSUME NEW q \in Page, item'[q].st = "success" PROVE res'[q].how \in {"fetched", "passed"}
  BY <1>5 DEF RowsEnd, ResultsEnd, Order
<1>6. task'.st \notin Open => \A i \in Item : item'[i].st \notin Open
  OBVIOUS
<1>7. item'[Fin].st = "none" =>
        /\ item'[Fin].ep = 0
        /\ \/ item'[Scheduled].st \in Open
           \/ item'[Scheduled].st = "failed" /\ res'[Scheduled].why = "none"
  <2> SUFFICES ASSUME item'[Fin].st = "none"
               PROVE  /\ item'[Fin].ep = 0
                      /\ \/ item'[Scheduled].st \in Open
                         \/ item'[Scheduled].st = "failed" /\ res'[Scheduled].why = "none"
    OBVIOUS
  <2>1. along = "none" /\ item[Fin].st = "none" /\ item'[Fin].ep = 0
    BY DEF RowsEnd, Order
  <2>2. CASE p = Scheduled
    BY <2>1, <2>2 DEF ResultsEnd, Open
  <2>3. CASE p # Scheduled
    <3>1. item'[Scheduled] = item[Scheduled] /\ res'[Scheduled] = res[Scheduled]
      BY <2>1, <2>3, PagesAre DEF RowsEnd, ResultsEnd
    <3> QED BY <2>1, <3>1 DEF Order
  <2> QED BY <2>1, <2>2, <2>3
<1>8. \A a, b \in Page : b < a /\ item'[b].st \in Open => item'[a].st # "processing"
  BY <1>3 DEF Item
<1>9. Order'
  BY <1>2, <1>3, <1>4, <1>5, <1>6, <1>7, <1>8 DEF Order
<1> QED BY <1>1, <1>2, <1>9

LEMMA PageEndLeases ==
  ASSUME CatalogInv, Types, NEW p \in Page, NEW along \in {"none", "success", "failed"},
         PageEnds(p, along), Drops
  PROVE  Leases'
<1> USE DEF CatalogInv, PageEnds
<1>1. \A i \in Item : item'[i].ep = item[i].ep
  <2>1. ASSUME NEW q \in Page PROVE item'[q].ep = item[q].ep
    <3>1. CASE q = p
      BY <3>1 DEF RowsEnd
    <3>2. CASE q # p
      BY <3>2 DEF RowsEnd
    <3> QED BY <3>1, <3>2
  <2> QED BY <2>1 DEF RowsEnd, Item
<1>2. Idle.at = "idle"
  BY DEF Idle
<1>3. \A k \in Handler : Works(k)' => Works(k) /\ run'[k] = run[k]
  BY <1>2 DEF Drops, Works
<1>4. \A k \in Handler : run'[k].at = "end" => run'[k] = run[k]
  BY <1>2 DEF Drops
<1>5. \A k \in Handler : run[k].job \in Item
  BY DEF Types, RunRow
<1> QED BY <1>1, <1>3, <1>4, <1>5 DEF Leases, Works

LEMMA PageEndEvidence ==
  ASSUME CatalogInv, Types, Types', NEW p \in Page,
         NEW along \in {"none", "success", "failed"}, PageEnds(p, along), Drops
  PROVE  Evidence'
<1> USE DEF CatalogInv, PageEnds
<1>1. /\ \A q \in Page : q # p => item[q].st # "processing"
      /\ \A q \in Page : q < p => item[q].st \notin Open
      /\ item[p].st = "processing"
  BY PageIsProcessing DEF RowsEnd
<1>2. p \in Nat /\ Page \subseteq Nat
  BY PagesAre
<1>3. Steady' <=> Steady
  BY DEF Steady
<1>4. \A q \in Behind(item, p) : q \in Page /\ q > p /\ item[q].st = "pending"
  BY DEF Behind
\* A success that was there stays.
<1>5. ASSUME NEW q \in Page, Witness(q) PROVE Witness(q)'
  <2>1. q # p /\ q \notin Behind(item, p)
    BY <1>1, <1>4, <1>5 DEF Witness
  <2>2. item'[q] = item[q] /\ res'[q] = res[q]
    BY <2>1 DEF RowsEnd, ResultsEnd
  <2> QED BY <1>5, <2>2 DEF Witness
<1>6. (~flags => deploys > 0 /\ FALSE \in scene.flags)'
  BY DEF Evidence
<1>7. ASSUME Steady, flags, NEW t \in Page, task'.terminal = t
      PROVE  \/ Witness(t)'
             \/ item'[t].st \in Open
             \/ item'[t].st = "failed" /\ \A q \in Page : q > t => item'[q].st \notin Open
  \* Behind a page that failed nothing is open.
  <2>1. ASSUME along = "failed", item'[p].st = "failed", NEW q \in Page, q >= p
        PROVE  item'[q].st \notin Open
    <3>1. CASE q = p
      BY <2>1, <3>1 DEF Open
    <3>2. CASE q \in Behind(item, p)
      BY <1>4, <2>1, <3>2, <1>2 DEF RowsEnd, Open
    <3>3. CASE q # p /\ q \notin Behind(item, p)
      <4>1. q > p
        BY <1>2, <2>1, <3>3
      <4>2. item[q].st \notin Open
        BY <1>1, <3>3, <4>1 DEF Behind, Open
      <4>3. item'[q] = item[q]
        BY <3>3 DEF RowsEnd
      <4> QED BY <4>2, <4>3
    <3> QED BY <3>1, <3>2, <3>3
  <2>0. t # 0 /\ t \in Nat
    BY PagesAre
  <2>2. CASE t = p
    <3>1. CASE Witness(p)'
      BY <2>2, <3>1
    <3>2. CASE item'[p].st = "failed" /\ along = "failed"
      BY <1>2, <2>1, <2>2, <3>2
    <3>3. CASE task.terminal = p /\ item'[p].st = "pending"
      BY <2>2, <3>3 DEF Open
    <3> QED BY <1>2, <1>7, <2>0, <2>2, <3>1, <3>2, <3>3 DEF EvidenceEnds
  <2>3. CASE task.terminal = t /\ t # p
    <3>0. t \in Page /\ t \in Nat
      BY <2>0
    <3>1. CASE Witness(t)
      BY <1>5, <2>3, <3>0, <3>1
    <3>2. CASE item[t].st \in Open /\ t \notin Behind(item, p)
      <4>1. item'[t] = item[t]
        BY <2>3, <3>0, <3>2 DEF RowsEnd
      <4> QED BY <2>3, <3>2, <4>1
    <3>3. CASE t \in Behind(item, p)
      <4>1. CASE along = "none"
        BY <1>4, <2>3, <3>0, <3>3, <4>1 DEF RowsEnd, Open
      <4>2. CASE along = "failed"
        <5>1. item'[p].st = "failed"
          BY <1>2, <1>4, <1>7, <2>3, <3>0, <3>3, <4>2 DEF EvidenceEnds
        <5>2. item'[t].st = "failed"
          BY <2>3, <3>0, <3>3, <4>2 DEF RowsEnd
        <5>3. \A q \in Page : q > t => item'[q].st \notin Open
          BY <1>2, <1>4, <2>1, <3>0, <3>3, <4>2, <5>1
        <5> QED BY <2>3, <5>2, <5>3
      <4>3. CASE along = "success"
        \* A page that is passed over lies behind the terminal page.
        BY <1>2, <1>4, <1>7, <2>3, <3>0, <3>3, <4>3 DEF EvidenceEnds
      <4> QED BY <4>1, <4>2, <4>3
    <3>4. CASE item[t].st = "failed" /\ \A q \in Page : q > t => item[q].st \notin Open
      <4>1. t \notin Behind(item, p) /\ item'[t] = item[t]
        BY <1>4, <2>3, <3>0, <3>4 DEF RowsEnd
      <4>2. t > p
        BY <1>1, <1>2, <2>3, <3>0, <3>4 DEF Open
      <4>3. ASSUME NEW q \in Page, q > t PROVE item'[q].st \notin Open
        <5>1. q # p /\ item[q].st \notin Open
          BY <1>2, <3>0, <3>4, <4>2, <4>3
        <5>2. q \notin Behind(item, p)
          BY <1>4, <5>1 DEF Open
        <5> QED BY <5>1, <5>2 DEF RowsEnd
      <4> QED BY <2>3, <3>4, <4>1, <4>3
    <3> QED BY <1>7, <2>0, <2>3, <3>1, <3>2, <3>3, <3>4 DEF Evidence
  <2> QED BY <1>7, <2>0, <2>2, <2>3 DEF EvidenceEnds
<1>8. ASSUME NEW h \in Handler, run'[h].at = "end", run'[h].job \in Page
      PROVE  /\ run'[h].out = "failed" /\ Steady => ~flags
             /\ run'[h].out = "passed" =>
                  flags /\ (Owns(h)' => task'.terminal # 0 /\ run'[h].job > task'.terminal)
  <2>1. run'[h] = run[h]
    BY <1>8 DEF Drops, Idle
  <2>2. item'[run[h].job].st # "processing"
    BY <1>1, <1>8, <2>1 DEF RowsEnd
  <2>3. ~Owns(h)'
    BY <2>1, <2>2 DEF Owns
  <2> QED BY <1>8, <2>1, <2>3 DEF Evidence
<1>9. ASSUME Steady, NEW q \in Page, item'[q].st = "success", res'[q].how = "passed"
      PROVE  \E w \in Page : w < q /\ Witness(w)'
  <2>1. CASE q = p
    <3>1. ~Witness(p)'
      BY <1>9, <2>1 DEF Witness
    <3>2. \E w \in Page : w < p /\ Witness(w)
      BY <1>9, <2>1, <3>1 DEF EvidenceEnds
    <3> QED BY <1>5, <2>1, <3>2
  <2>2. CASE q # p /\ along # "none" /\ q \in Behind(item, p)
    <3>1. along = "success" /\ q > p
      BY <1>4, <1>9, <2>2 DEF RowsEnd
    <3>2. CASE Witness(p)'
      BY <1>2, <3>1, <3>2
    <3>3. CASE ~Witness(p)'
      <4>1. PICK w \in Page : w < p /\ Witness(w)
        BY <1>9, <3>1, <3>3 DEF EvidenceEnds
      <4>2. w < q
        BY <1>2, <3>1, <4>1
      <4> QED BY <1>5, <4>1, <4>2
    <3> QED BY <3>2, <3>3
  <2>3. CASE q # p /\ ~(along # "none" /\ q \in Behind(item, p))
    <3>1. item'[q] = item[q] /\ res'[q] = res[q]
      BY <2>3 DEF RowsEnd, ResultsEnd
    <3>2. \E w \in Page : w < q /\ Witness(w)
      BY <1>9, <3>1 DEF Evidence, StopHasWitness, Witness
    <3> QED BY <1>5, <3>2
  <2> QED BY <2>1, <2>2, <2>3
<1>10. StopHasWitness'
  BY <1>3, <1>9 DEF StopHasWitness, Witness
<1>11. (Steady /\ flags /\ task.terminal # 0 =>
         \/ Witness(task.terminal)
         \/ item[task.terminal].st \in Open
         \/ /\ item[task.terminal].st = "failed"
            /\ \A q \in Page : q > task.terminal => item[q].st \notin Open)'
  <2>1. task'.terminal # 0 => task'.terminal \in Page
    BY DEF Types, TaskRow
  <2>2. flags' = flags
    OBVIOUS
  <2> QED BY <1>3, <1>7, <2>1, <2>2 DEF Witness
<1>12. (\A h \in Handler :
         run[h].at = "end" /\ run[h].job \in Page =>
           /\ run[h].out = "failed" /\ Steady => ~flags
           /\ run[h].out = "passed" =>
                flags /\ (Owns(h) => task.terminal # 0 /\ run[h].job > task.terminal))'
  BY <1>3, <1>8
<1> QED BY <1>6, <1>10, <1>11, <1>12 DEF Evidence

LEMMA PageEndStep ==
  ASSUME CatalogInv, Types', NEW p \in Page, NEW along \in {"none", "success", "failed"},
         PageEnds(p, along), Drops
  PROVE  CatalogInv'
<1>1. Order' /\ ~PagesSettled /\ item'[Fin].st \in {"none", "pending"}
  BY PageEndOrder
<1>2. Leases' /\ Evidence'
  BY PageEndLeases, PageEndEvidence DEF CatalogInv
<1>3. Knowledge'
  BY <1>1 DEF Knowledge, Finalizes, Owns
<1>4. ~(task'.fin = "completed" /\ task'.fgen = gen)
  BY <1>1 DEF CatalogInv, Verdict, PageEnds
<1>5. task'.st # "completed"
  <2> SUFFICES ASSUME task'.st = "completed" PROVE FALSE
    OBVIOUS
  <2>1. \A i \in Item : item'[i].st \notin Open \cup {"failed"}
    BY DEF PageEnds
  <2>2. Fin \in Item /\ Scheduled \in Item
    BY PagesAre DEF Item, Fin
  <2>3. item'[Fin].st = "none"
    BY <1>1, <2>1, <2>2 DEF Open
  <2> QED BY <1>1, <2>1, <2>2, <2>3 DEF Order
<1>6. gen' = gen /\ preview' = preview /\ fresh' = fresh /\ manual' = manual
  BY DEF PageEnds
<1>7. Verdict'
  BY <1>4, <1>5, <1>6 DEF Verdict, CompletedMeansAll
<1>8. preview[gen].st = "none"
  BY <1>1 DEF CatalogInv, Previews
<1>9. Previews'
  BY <1>6, <1>8 DEF CatalogInv, Previews
<1> QED BY <1>1, <1>2, <1>3, <1>7, <1>9 DEF CatalogInv
-----------------------------------------------------------------------------
(* Steps that leave the pages as they are.                                 *)

SamePages == (\A p \in Page : item'[p].st = item[p].st) /\ res' = res

LEMMA SameFacts ==
  ASSUME SamePages
  PROVE  /\ Returns' = Returns /\ (PagesSettled' <=> PagesSettled)
         /\ task'.want = task.want => (AllReturned' <=> AllReturned)
         /\ \A q \in Page : Witness(q)' <=> Witness(q)
<1>1. Pages(item, {"success"})' = Pages(item, {"success"})
  BY DEF SamePages, Pages
<1>2. Returns' = Returns
  BY <1>1 DEF SamePages, Returns, Touched
<1>3. PagesSettled' <=> PagesSettled
  BY DEF SamePages, PagesSettled
<1>4. task'.want = task.want => (AllReturned' <=> AllReturned)
  BY <1>1 DEF SamePages, AllReturned
<1>5. \A q \in Page : Witness(q)' <=> Witness(q)
  BY DEF SamePages, Witness
<1> QED BY <1>2, <1>3, <1>4, <1>5

LEMMA EvidenceFrame ==
  ASSUME Evidence, Types, SamePages, UNCHANGED <<flags, scene, unbound, deploys>>,
         task'.terminal = task.terminal,
         \A k \in Handler : run'[k].at = "end" /\ run'[k].job \in Page =>
           run'[k] = run[k] /\ (Owns(k)' => Owns(k))
  PROVE  Evidence'
<1>1. \A q \in Page : (Witness(q)' <=> Witness(q)) /\ item'[q].st = item[q].st
  BY SameFacts DEF SamePages
<1>2. Steady' <=> Steady
  BY DEF Steady
<1>3. task.terminal # 0 => task.terminal \in Page
  BY DEF Types, TaskRow
<1>4. StopHasWitness'
  BY <1>1, <1>2 DEF Evidence, StopHasWitness, SamePages
<1>5. (~flags => deploys > 0 /\ FALSE \in scene.flags)'
  BY DEF Evidence
<1>6. (Steady /\ flags /\ task.terminal # 0 =>
         \/ Witness(task.terminal)
         \/ item[task.terminal].st \in Open
         \/ /\ item[task.terminal].st = "failed"
            /\ \A q \in Page : q > task.terminal => item[q].st \notin Open)'
  <2> DEFINE t == task.terminal
  <2> SUFFICES ASSUME Steady, flags, t # 0
               PROVE  \/ Witness(t)'
                      \/ item'[t].st \in Open
                      \/ /\ item'[t].st = "failed"
                         /\ \A q \in Page : q > t => item'[q].st \notin Open
    BY <1>2 DEF Witness
  <2>1. t \in Page
    BY <1>3
  <2>2. \/ Witness(t)
        \/ item[t].st \in Open
        \/ item[t].st = "failed" /\ \A q \in Page : q > t => item[q].st \notin Open
    BY DEF Evidence
  <2>3. Witness(t) => Witness(t)'
    BY <2>1 DEF Witness, SamePages
  <2> QED BY <1>1, <2>1, <2>2, <2>3
<1>7. (\A h \in Handler :
         run[h].at = "end" /\ run[h].job \in Page =>
           /\ run[h].out = "failed" /\ Steady => ~flags
           /\ run[h].out = "passed" =>
                flags /\ (Owns(h) => task.terminal # 0 /\ run[h].job > task.terminal))'
  BY <1>2 DEF Evidence
<1> QED BY <1>4, <1>5, <1>6, <1>7 DEF Evidence

\* What is covered stays so.
LEMMA CoveredGrows ==
  ASSUME fresh \subseteq fresh', skipped' = skipped, gen' = gen,
         manual.st \in {"active", "done"} =>
           manual'.st \in {"active", "done"} /\ manual'.scope = manual.scope,
         \A g \in Gen : preview[g].st \in {"ready", "done"} =>
           /\ preview'[g].st \in {"ready", "done"}
           /\ preview'[g].items = preview[g].items /\ preview'[g].scope = preview[g].scope,
         preview'[gen].st \in {"ready", "done"} => preview[gen].st \in {"ready", "done"}
  PROVE  Covered \subseteq Covered'
<1> SUFFICES ASSUME NEW s \in Covered PROVE s \in Covered'
  OBVIOUS
<1>1. CASE s \in fresh \cup skipped
  BY <1>1 DEF Covered
<1>2. CASE manual.st \in {"active", "done"} /\ s \in manual.scope
  BY <1>2 DEF Covered
<1>3. CASE \E g \in Gen : preview[g].st \in {"ready", "done"} /\ s \in preview[g].items
  BY <1>3 DEF Covered
<1>4. CASE s \in Away
  <2>1. s \in Away'
    BY <1>4 DEF Away, TurnedAway
  <2> QED BY <2>1 DEF Covered
<1> QED BY <1>1, <1>2, <1>3, <1>4 DEF Covered

\* The lease of an item is one handler's.
LEMMA OneOwner ==
  ASSUME Leases, NEW g \in Handler, NEW h \in Handler, Works(g), Works(h),
         Owns(g), Owns(h), run[g].job = run[h].job
  PROVE  g = h
BY DEF Leases, Owns

\* A lease expires or is lost, the worker comes back, or nothing happens.
LEMMA FrameStep ==
  ASSUME CatalogInv, Types', Drops, UNCHANGED <<res, gen, task, preview, manual, fresh, skipped, scene, unbound>>,
         \A i \in Item : /\ item'[i].st = item[i].st /\ item'[i].ep = item[i].ep
                          /\ item'[i].att = item[i].att /\ (item'[i].exp \/ ~item[i].exp),
         \/ UNCHANGED <<flags, deploys>>
         \/ /\ deploys' = deploys + 1 /\ flags' \in scene.flags
            /\ \A k \in Handler : run'[k] = Idle
  PROVE  CatalogInv'
<1> USE DEF CatalogInv
<1>0. SamePages /\ Fin \in Item /\ Page \subseteq Item /\ Scheduled \in Page
  BY PagesAre DEF SamePages, Item, Fin
<1>1. /\ Returns' = Returns /\ (PagesSettled' <=> PagesSettled)
      /\ (AllReturned' <=> AllReturned)
      /\ \A q \in Page : Witness(q)' <=> Witness(q)
  BY <1>0, SameFacts
<1>2. Covered' = Covered
  BY DEF Covered, Away, TurnedAway
<1>3. \A k \in Handler : run'[k].at # "idle" => run'[k] = run[k]
  BY DEF Drops, Idle
<1>4. ASSUME NEW k \in Handler, Works(k)'
      PROVE  Works(k) /\ run'[k] = run[k] /\ (Owns(k)' => Owns(k))
  <2>1. run'[k] = run[k] /\ run[k].job \in Item
    BY <1>3, <1>4 DEF Works, Types, RunRow
  <2>2. run[k].at # "idle"
    BY <1>4, <2>1 DEF Works
  <2>3. Owns(k)' => Owns(k)
    BY <2>1 DEF Owns, Types, ItemRow
  <2> QED BY <2>1, <2>2, <2>3 DEF Works
<1>5. Order'
  BY <1>0, <1>1 DEF Order
<1>6. Leases'
  <2>1. \A k \in Handler : Works(k)' => run[k].job \in Item
    BY <1>4 DEF Types, RunRow
  <2>2. \A k \in Handler : run'[k].at = "end" => Works(k)'
    BY DEF Works
  <2> QED BY <1>4, <2>1, <2>2 DEF Leases, Works
<1>7. Evidence'
  <2>1. CASE UNCHANGED <<flags, deploys>>
    BY <1>0, <1>4, <2>1, EvidenceFrame DEF Works
  <2>2. CASE /\ deploys' = deploys + 1 /\ flags' \in scene.flags
             /\ \A k \in Handler : run'[k] = Idle
    <3>1. deploys \in Nat /\ scene' = scene /\ scene.flags \subseteq BOOLEAN
      BY SceneIs DEF Types
    <3>a. /\ deploys' <= 1 => deploys <= 1
          /\ deploys > 0 => ~(deploys' <= 1)
          /\ deploys' > 0
      BY <2>2, <3>1
    <3>2. Steady' => Steady
      BY <3>1, <3>a DEF Steady
    <3>3. Steady' /\ flags' => flags
      <4>1. ~flags => deploys > 0 /\ FALSE \in scene.flags
        BY DEF Evidence
      <4> QED BY <3>1, <3>a, <4>1 DEF Steady
    <3>4. (~flags => deploys > 0 /\ FALSE \in scene.flags)'
      <4>1. flags' \in {TRUE, FALSE} /\ flags' \in scene'.flags
        BY <2>2, <3>1
      <4>2. ~flags' => FALSE \in scene'.flags
        BY <4>1
      <4> QED BY <3>a, <4>2
    <3>5. StopHasWitness'
      BY <1>0, <1>1, <3>2 DEF StopHasWitness, Evidence, SamePages, Witness
    <3>6. (Steady /\ flags /\ task.terminal # 0 =>
             \/ Witness(task.terminal)
             \/ item[task.terminal].st \in Open
             \/ /\ item[task.terminal].st = "failed"
                /\ \A q \in Page : q > task.terminal => item[q].st \notin Open)'
      <4> DEFINE t == task.terminal
      <4> SUFFICES ASSUME Steady, flags, t # 0
                   PROVE  \/ Witness(t)'
                          \/ item'[t].st \in Open
                          \/ /\ item'[t].st = "failed"
                             /\ \A q \in Page : q > t => item'[q].st \notin Open
        BY <3>2, <3>3 DEF Witness
      <4>1. t \in Page
        BY DEF Types, TaskRow
      <4>2. \/ Witness(t)
            \/ item[t].st \in Open
            \/ item[t].st = "failed" /\ \A q \in Page : q > t => item[q].st \notin Open
        BY DEF Evidence
      <4>3. Witness(t) => Witness(t)'
        BY <1>0, <4>1 DEF Witness, SamePages
      <4> QED BY <1>0, <4>1, <4>2, <4>3 DEF SamePages
    <3>7. \A h \in Handler : run'[h].at # "end"
      BY <2>2 DEF Idle
    <3> QED BY <3>4, <3>5, <3>6, <3>7 DEF Evidence
  <2> QED BY <2>1, <2>2
<1>8. \A k \in Handler : Finalizes(k)' => Finalizes(k) /\ run'[k] = run[k]
  BY <1>4 DEF Finalizes
<1>9. Knowledge'
  <2> SUFFICES ASSUME NEW k \in Handler, Finalizes(k)' PROVE Knows(k)'
    BY DEF Knowledge
  <2>1. Knows(k) /\ run'[k] = run[k]
    BY <1>8 DEF Knowledge
  <2> QED BY <1>1, <1>2, <2>1 DEF Knows
<1>10. Verdict'
  <2>1. Pages(item, {"success"})' = Pages(item, {"success"})
    BY <1>0 DEF SamePages, Pages
  <2> QED BY <1>1, <1>2, <2>1 DEF Verdict, CompletedMeansAll
<1>11. Previews'
  BY <1>0, <1>1, <1>2, <1>8 DEF Previews
<1> QED BY <1>5, <1>6, <1>7, <1>9, <1>10, <1>11

LEMMA ClaimStep ==
  ASSUME CatalogInv, Types', NEW h \in Handler, NEW i \in Item, claimPendingItem(h, i)
  PROVE  CatalogInv'
<1> USE DEF CatalogInv
<1> DEFINE row == [st |-> "processing", att |-> item[i].att + 1,
                   ep |-> item[i].ep + 1, exp |-> FALSE]
           new == [Idle EXCEPT !.at = "begin", !.job = i, !.ep = item'[i].ep]
<1>0. /\ Fin \in Item /\ Page \subseteq Item /\ Scheduled \in Page /\ Page \subseteq Nat
      /\ Fin \notin Page /\ item \in [Item -> ItemRow] /\ run \in [Handler -> RunRow]
  BY PagesAre DEF Item, Fin, Types
<1>1. /\ item[i].st = "pending" /\ run[h].at = "idle" /\ task.st \in Open
      /\ IF i = Fin THEN PagesSettled ELSE \A q \in Page : q < i => item[q].st \notin Open
  BY DEF claimPendingItem, Claimable, Pages, PagesSettled
<1>2. item' = [item EXCEPT ![i] = row] /\ run' = [run EXCEPT ![h] = new]
  BY DEF claimPendingItem
<1>3. UNCHANGED <<res, gen, preview, manual, fresh, skipped, flags, scene, unbound, deploys>>
  BY DEF claimPendingItem, budgets
<1>4. task' = Recomputed(item', res, task) /\ task \in TaskRow
  BY DEF claimPendingItem, Types
<1>5. /\ item'[i].st = "processing" /\ item'[i].ep = item[i].ep + 1
      /\ \A j \in Item : j # i => item'[j] = item[j]
  BY <1>0, <1>2
<1>6. /\ run'[h].at = "begin" /\ run'[h].job = i /\ run'[h].ep = item[i].ep + 1
      /\ \A k \in Handler : k # h => run'[k] = run[k]
  BY <1>0, <1>2, <1>5 DEF Idle
<1>7. item[i].ep \in Nat
  BY <1>0 DEF ItemRow
<1>8. task'.st \in Open /\ task'.terminal = task.terminal /\ task'.want = task.want
      /\ task'.fin = task.fin /\ task'.fgen = task.fgen /\ task'.verdict = task.verdict
  <2>1. item' \in [Item -> ItemRow]
    BY DEF Types
  <2>2. item'[i].st \in Open
    BY <1>5 DEF Open
  <2> QED BY <1>4, <2>1, <2>2, ParentIs
<1> HIDE DEF row, new
<1>9. \A q \in Page : \/ item'[q].st = item[q].st
                      \/ q = i /\ item[q].st = "pending" /\ item'[q].st = "processing"
  BY <1>0, <1>1, <1>5
<1>10. PagesSettled' <=> PagesSettled
  BY <1>9 DEF PagesSettled, Open
<1>11. \A q \in Page : Witness(q)' <=> Witness(q)
  BY <1>3, <1>9 DEF Witness
<1>12. Pages(item, {"success"})' = Pages(item, {"success"})
  BY <1>9 DEF Pages
<1>13. Returns' = Returns /\ (AllReturned' <=> AllReturned) /\ Covered' = Covered
  BY <1>3, <1>8, <1>12 DEF Returns, AllReturned, Covered, Away, TurnedAway, Touched
<1>14. Order'
  <2>1. \A p \in Page : /\ item'[p].st # "none"
                        /\ item'[p].st = "success" => res'[p].how \in {"fetched", "passed"}
    BY <1>3, <1>9 DEF Order
  <2>2. \A j \in Item : item'[j].st = "processing" => item'[j].ep > 0
    BY <1>5, <1>7 DEF Order
  <2>3. ASSUME NEW p \in Page, NEW q \in Page, q < p, item'[q].st \in Open
        PROVE  item'[p].st # "processing"
    <3>1. item[q].st \in Open
      BY <1>9, <2>3 DEF Open
    <3>2. CASE p = i
      BY <1>0, <1>1, <2>3, <3>1, <3>2
    <3>3. CASE p # i
      BY <1>0, <1>5, <2>3, <3>1, <3>3 DEF Order
    <3> QED BY <3>2, <3>3
  <2>4. item'[Fin].st \notin {"none", "pending"} => PagesSettled'
    <3>1. CASE i = Fin
      BY <1>1, <1>10, <3>1
    <3>2. CASE i # Fin
      BY <1>0, <1>5, <1>10, <3>2 DEF Order
    <3> QED BY <3>1, <3>2
  <2>5. item'[Fin].st = "none" =>
          /\ item'[Fin].ep = 0
          /\ \/ item'[Scheduled].st \in Open
             \/ item'[Scheduled].st = "failed" /\ res'[Scheduled].why = "none"
    BY <1>0, <1>3, <1>5, <1>9 DEF Order, Open
  <2> QED BY <1>8, <2>1, <2>2, <2>3, <2>4, <2>5 DEF Order
<1>15. \A k \in Handler : Works(k)' => k = h \/ (k # h /\ Works(k) /\ run'[k] = run[k])
  BY <1>6 DEF Works
<1>16. \A k \in Handler : k # h /\ Works(k) =>
         /\ run[k].job \in Item /\ run[k].ep \in 1..item[run[k].job].ep
         /\ run[k].ep \in Nat
  BY <1>0 DEF Leases, RunRow
<1>17. \A k \in Handler : k # h /\ Works(k) => (Owns(k)' => Owns(k) /\ run[k].job # i)
  <2> SUFFICES ASSUME NEW k \in Handler, k # h, Works(k), Owns(k)'
               PROVE  Owns(k) /\ run[k].job # i
    OBVIOUS
  <2>1. run'[k] = run[k]
    BY <1>6
  <2>2. item'[run[k].job].ep = run[k].ep
    BY <2>1 DEF Owns
  <2>3. run[k].job # i
    BY <1>5, <1>7, <1>16, <2>2
  <2> QED BY <1>5, <1>16, <2>1, <2>3 DEF Owns
<1>18. Leases'
  <2>1. \A k \in Handler : Works(k)' => run'[k].ep \in 1..item'[run'[k].job].ep
    <3> SUFFICES ASSUME NEW k \in Handler, Works(k)'
                 PROVE  run'[k].ep \in 1..item'[run'[k].job].ep
      OBVIOUS
    <3>1. CASE k = h
      BY <1>5, <1>6, <1>7, <3>1
    <3>2. CASE k # h
      <4>1. Works(k) /\ run'[k] = run[k]
        BY <1>15, <3>2
      <4>2. item[run[k].job].ep \in Nat
        BY <1>0, <1>16, <3>2, <4>1 DEF ItemRow
      <4> QED BY <1>5, <1>7, <1>16, <3>2, <4>1, <4>2
    <3> QED BY <3>1, <3>2
  <2>2. ASSUME NEW k \in Handler, k # h, Works(k)', run'[k].job = i
        PROVE  run'[k].ep # run'[h].ep
    BY <1>6, <1>7, <1>15, <1>16, <2>2
  <2>3. \A k, l \in Handler :
          Works(k)' /\ Works(l)' /\ run'[k].job = run'[l].job /\ run'[k].ep = run'[l].ep
            => k = l
    BY <1>6, <1>15, <2>2 DEF Leases
  <2>4. \A k \in Handler :
          /\ Works(k)' /\ run'[k].job \in Page => run'[k].at \in {"begin", "end"}
          /\ run'[k].at = "end" =>
               run'[k].out \in IF run'[k].job = Fin THEN {"failed", "success", "retry"}
                               ELSE {"failed", "passed", "upstream", "fetched"}
    <3> TAKE k \in Handler
    <3>1. CASE k = h
      BY <1>6, <3>1
    <3>2. CASE k # h
      BY <1>6, <3>2 DEF Leases, Works
    <3> QED BY <3>1, <3>2
  <2> QED BY <2>1, <2>3, <2>4 DEF Leases
<1>19. Evidence'
  <2>1. Steady' <=> Steady
    BY <1>3 DEF Steady
  <2>2. (Steady /\ flags /\ task.terminal # 0 =>
           \/ Witness(task.terminal)
           \/ item[task.terminal].st \in Open
           \/ /\ item[task.terminal].st = "failed"
              /\ \A q \in Page : q > task.terminal => item[q].st \notin Open)'
    <3> DEFINE t == task.terminal
    <3> SUFFICES ASSUME Steady, flags, t # 0
                 PROVE  \/ Witness(t)'
                        \/ item'[t].st \in Open
                        \/ /\ item'[t].st = "failed"
                           /\ \A q \in Page : q > t => item'[q].st \notin Open
      BY <1>3, <1>8, <2>1 DEF Witness
    <3>1. t \in Page
      BY DEF Types, TaskRow
    <3>2. \/ Witness(t)
          \/ item[t].st \in Open
          \/ item[t].st = "failed" /\ \A q \in Page : q > t => item[q].st \notin Open
      BY DEF Evidence
    <3>3. Witness(t) => Witness(t)'
      BY <1>3, <1>8, <1>9, <3>1 DEF Witness
    <3> QED BY <1>9, <3>1, <3>2, <3>3 DEF Open
  <2>3. StopHasWitness'
    BY <1>3, <1>9, <1>11, <2>1 DEF Evidence, StopHasWitness, Witness
  <2>4. (\A k \in Handler :
          run[k].at = "end" /\ run[k].job \in Page =>
            /\ run[k].out = "failed" /\ Steady => ~flags
            /\ run[k].out = "passed" =>
                 flags /\ (Owns(k) => task.terminal # 0 /\ run[k].job > task.terminal))'
    <3> SUFFICES ASSUME NEW k \in Handler, run'[k].at = "end", run'[k].job \in Page
                 PROVE  /\ run'[k].out = "failed" /\ Steady => ~flags
                        /\ run'[k].out = "passed" =>
                             flags /\ (Owns(k)' => task.terminal # 0 /\ run'[k].job > task.terminal)
      BY <1>3, <1>8, <2>1
    <3>1. k # h /\ Works(k) /\ run'[k] = run[k]
      BY <1>6 DEF Works
    <3> QED BY <1>17, <3>1 DEF Evidence
  <2>5. (~flags => deploys > 0 /\ FALSE \in scene.flags)'
    BY <1>3 DEF Evidence
  <2> QED BY <2>2, <2>3, <2>4, <2>5 DEF Evidence
<1>20. \A k \in Handler : Finalizes(k)' => \/ k = h
                                           \/ Finalizes(k) /\ run'[k] = run[k]
  BY <1>15, <1>17 DEF Finalizes
<1>21. Knowledge'
  <2> SUFFICES ASSUME NEW k \in Handler, Finalizes(k)' PROVE Knows(k)'
    BY DEF Knowledge
  <2>1. CASE k = h
    BY <1>6, <2>1 DEF Knows, Planning, Gathered
  <2>2. CASE k # h
    <3>1. Knows(k) /\ run'[k] = run[k]
      BY <1>20, <2>2 DEF Knowledge
    <3> QED BY <1>3, <1>8, <1>13, <3>1 DEF Knows
  <2> QED BY <2>1, <2>2
<1>22. Verdict'
  <2>1. task'.st # "completed"
    BY <1>8 DEF Open
  <2> QED BY <1>3, <1>8, <1>10, <1>13, <2>1 DEF Verdict, CompletedMeansAll
<1>23. Previews'
  <2>1. preview[gen].st # "failed"
    <3>1. CASE i = Fin
      BY <1>1, <3>1 DEF Previews
    <3>2. CASE i # Fin
      <4>1. i \in Page
        BY <3>2 DEF Item
      <4>2. ~PagesSettled
        BY <1>1, <4>1 DEF PagesSettled, Open
      <4> QED BY <4>2 DEF Previews
    <3> QED BY <3>1, <3>2
  <2> QED BY <1>3, <1>10, <1>13, <2>1 DEF Previews
<1> QED BY <1>14, <1>18, <1>19, <1>21, <1>22, <1>23

LEMMA FetchStep ==
  ASSUME CatalogInv, Types', NEW h \in Handler, FetchPage(h)
  PROVE  CatalogInv'
<1> USE DEF CatalogInv
<1>0. /\ run[h].at = "begin" /\ run[h].job # Fin /\ run \in [Handler -> RunRow]
      /\ UNCHANGED <<item, res, gen, task, preview, manual, fresh, skipped, flags, scene, deploys>>
  BY DEF FetchPage, rows, Types
<1>1. /\ \A k \in Handler : k # h => run'[k] = run[k]
      /\ run'[h].at = "end" /\ run'[h].job = run[h].job /\ run'[h].ep = run[h].ep
      /\ \/ run'[h].out = "failed" /\ (~flags \/ unbound' = unbound + 1)
         \/ /\ run'[h].out = "passed" /\ flags
            /\ task.terminal # 0 /\ run[h].job > task.terminal
         \/ run'[h].out \in {"upstream", "fetched"}
      /\ unbound' \in {unbound, unbound + 1}
  <2>1. ASSUME NEW out \in {"failed", "passed", "upstream"},
               run' = [run EXCEPT ![h].at = "end", ![h].out = out]
        PROVE  /\ \A k \in Handler : k # h => run'[k] = run[k]
               /\ run'[h].at = "end" /\ run'[h].job = run[h].job /\ run'[h].ep = run[h].ep
               /\ run'[h].out = out
    BY <1>0, <2>1 DEF RunRow
  <2>2. ASSUME NEW n, NEW total,
               run' = [run EXCEPT ![h].at = "end", ![h].out = "fetched",
                                  ![h].n = n, ![h].total = total]
        PROVE  /\ \A k \in Handler : k # h => run'[k] = run[k]
               /\ run'[h].at = "end" /\ run'[h].job = run[h].job /\ run'[h].ep = run[h].ep
               /\ run'[h].out = "fetched"
    BY <1>0, <2>2 DEF RunRow
  <2>3. CASE \E n \in 0..PageSize, total \in scene.totals :
               /\ run' = [run EXCEPT ![h].at = "end", ![h].out = "fetched",
                                     ![h].n = n, ![h].total = total]
               /\ UNCHANGED unbound
    BY <2>2, <2>3
  <2>4. CASE /\ ~flags /\ UNCHANGED unbound
             /\ run' = [run EXCEPT ![h].at = "end", ![h].out = "failed"]
    BY <2>1, <2>4
  <2>5. CASE /\ flags /\ task.terminal # 0 /\ run[h].job > task.terminal /\ UNCHANGED unbound
             /\ run' = [run EXCEPT ![h].at = "end", ![h].out = "passed"]
    BY <2>1, <2>5
  <2>6. CASE /\ unbound' = unbound + 1
             /\ run' = [run EXCEPT ![h].at = "end", ![h].out = "failed"]
    BY <2>1, <2>6
  <2>7. CASE /\ UNCHANGED unbound
             /\ run' = [run EXCEPT ![h].at = "end", ![h].out = "upstream"]
    BY <2>1, <2>7
  <2> QED BY <2>3, <2>4, <2>5, <2>6, <2>7 DEF FetchPage
<1>2. unbound \in Nat /\ (Steady' => Steady /\ unbound' # unbound + 1)
  <2>1. unbound \in Nat
    BY DEF Types
  <2>2. unbound' = 0 => unbound = 0 /\ unbound' # unbound + 1
    BY <1>1, <2>1
  <2> QED BY <1>0, <2>1, <2>2 DEF Steady
<1>3. \A k \in Handler : /\ run'[k].job = run[k].job /\ run'[k].ep = run[k].ep
                         /\ Works(k)' <=> Works(k)
                         /\ Owns(k)' <=> Owns(k)
  BY <1>0, <1>1 DEF Works, Owns
<1>4. Order' /\ Previews'
  <2>1. \A k \in Handler : Finalizes(k)' => Finalizes(k) /\ run'[k] = run[k]
    BY <1>0, <1>1, <1>3 DEF Finalizes
  <2>2. Returns' = Returns /\ Covered' = Covered /\ (PagesSettled' <=> PagesSettled)
    BY <1>0 DEF Returns, Touched, Covered, Away, TurnedAway, PagesSettled
  <2> QED BY <1>0, <2>1, <2>2 DEF Order, PagesSettled, Previews
<1>5. Leases'
  <2>1. \A k \in Handler :
          /\ Works(k)' /\ run'[k].job \in Page => run'[k].at \in {"begin", "end"}
          /\ run'[k].at = "end" =>
               run'[k].out \in IF run'[k].job = Fin THEN {"failed", "success", "retry"}
                               ELSE {"failed", "passed", "upstream", "fetched"}
    <3> TAKE k \in Handler
    <3>1. CASE k = h
      BY <1>0, <1>1, <3>1
    <3>2. CASE k # h
      BY <1>1, <1>3, <3>2 DEF Leases
    <3> QED BY <3>1, <3>2
  <2> QED BY <1>0, <1>3, <2>1 DEF Leases
<1>6. Evidence'
  <2>1. StopHasWitness'
    BY <1>0, <1>2 DEF Evidence, StopHasWitness
  <2>2. (Steady /\ flags /\ task.terminal # 0 =>
           \/ Witness(task.terminal)
           \/ item[task.terminal].st \in Open
           \/ /\ item[task.terminal].st = "failed"
              /\ \A q \in Page : q > task.terminal => item[q].st \notin Open)'
    BY <1>0, <1>2 DEF Evidence, Witness
  <2>3. (\A k \in Handler :
          run[k].at = "end" /\ run[k].job \in Page =>
            /\ run[k].out = "failed" /\ Steady => ~flags
            /\ run[k].out = "passed" =>
                 flags /\ (Owns(k) => task.terminal # 0 /\ run[k].job > task.terminal))'
    <3> SUFFICES ASSUME NEW k \in Handler, run'[k].at = "end", run'[k].job \in Page
                 PROVE  /\ run'[k].out = "failed" /\ Steady' => ~flags
                        /\ run'[k].out = "passed" =>
                             flags /\ (Owns(k)' => task.terminal # 0 /\ run'[k].job > task.terminal)
      BY <1>0
    <3>1. CASE k = h
      BY <1>1, <1>2, <3>1
    <3>2. CASE k # h
      BY <1>1, <1>2, <1>3, <3>2 DEF Evidence
    <3> QED BY <3>1, <3>2
  <2> QED BY <1>0, <2>1, <2>2, <2>3 DEF Evidence
<1>7. Knowledge'
  <2> SUFFICES ASSUME NEW k \in Handler, Finalizes(k)' PROVE Knows(k)'
    BY DEF Knowledge
  <2>1. Knows(k) /\ run'[k] = run[k]
    BY <1>0, <1>1, <1>3 DEF Knowledge, Finalizes
  <2>2. Returns' = Returns /\ Covered' = Covered /\ (AllReturned' <=> AllReturned)
    BY <1>0 DEF Returns, Touched, Covered, Away, TurnedAway, AllReturned
  <2> QED BY <1>0, <2>1, <2>2 DEF Knows
<1>8. Verdict'
  BY <1>0 DEF Verdict, PagesSettled, AllReturned, Returns, Touched, Covered, Away, TurnedAway,
     CompletedMeansAll
<1> QED BY <1>4, <1>5, <1>6, <1>7, <1>8

\* Workers refresh previews, or an administrator asks for one.
LEMMA OutsideStep ==
  ASSUME CatalogInv, Types', UNCHANGED <<rows, flags, run, budgets>>,
         \/ ManualDone \/ (\E g \in Gen : PreviewDone(g))
         \/ \E scope \in scene.scopes : RequestPreview(scope)
  PROVE  CatalogInv'
<1> USE DEF CatalogInv
<1>0. /\ UNCHANGED <<item, res, gen, task, flags, run, scene, hangs, throws, unbound, deploys>>
      /\ preview \in [Gen -> PreviewRow] /\ manual \in ManualRow
  BY DEF rows, budgets, Types
<1>1. /\ fresh \subseteq fresh' /\ skipped' = skipped
      /\ manual.st \in {"active", "done"} =>
           manual'.st \in {"active", "done"} /\ manual'.scope = manual.scope
      /\ \A g \in Gen : \/ preview'[g] = preview[g]
                        \/ /\ preview[g].st = "ready" /\ preview'[g].st = "done"
                           /\ preview'[g].items = preview[g].items
                           /\ preview'[g].scope = preview[g].scope
  <2>1. CASE ManualDone
    BY <1>0, <2>1 DEF ManualDone, ManualRow
  <2>2. ASSUME NEW g \in Gen, PreviewDone(g)
        PROVE  /\ preview'[g].st = "done" /\ preview[g].st = "ready"
               /\ preview'[g].items = preview[g].items /\ preview'[g].scope = preview[g].scope
               /\ fresh \subseteq fresh' /\ skipped' = skipped
               /\ manual' = manual
               /\ \A k \in Gen : k # g => preview'[k] = preview[k]
    BY <1>0, <2>2 DEF PreviewDone, PreviewRow
  <2>3. CASE \E scope \in scene.scopes : RequestPreview(scope)
    BY <1>0, <2>3 DEF RequestPreview
  <2> QED BY <2>1, <2>2, <2>3
<1>2. Covered \subseteq Covered'
  <2>1. gen \in Gen
    BY DEF Types
  <2> QED BY <1>0, <1>1, <2>1, CoveredGrows
<1>3. Returns' = Returns /\ (PagesSettled' <=> PagesSettled) /\ (AllReturned' <=> AllReturned)
  BY <1>0 DEF Returns, Touched, PagesSettled, AllReturned
<1>4. Order' /\ Leases'
  BY <1>0 DEF Order, PagesSettled, Leases, Works
<1>5. Evidence'
  <2>1. SamePages /\ \A k \in Handler : Owns(k)' => Owns(k)
    BY <1>0 DEF SamePages, Owns
  <2> QED BY <1>0, <2>1, EvidenceFrame
<1>6. \A k \in Handler : Finalizes(k)' <=> Finalizes(k)
  BY <1>0 DEF Finalizes, Works, Owns
<1>7. gen \in Gen
  BY DEF Types
<1>8. Knowledge'
  <2> SUFFICES ASSUME NEW k \in Handler, Finalizes(k) PROVE Knows(k)'
    BY <1>6 DEF Knowledge
  <2>1. Knows(k)
    BY DEF Knowledge
  <2>2. preview[gen].st \in {"none", "building"} => preview'[gen] = preview[gen]
    BY <1>1, <1>7
  <2> QED BY <1>0, <1>1, <1>2, <1>3, <2>1, <2>2 DEF Knows
<1>9. Verdict'
  BY <1>0, <1>2, <1>3 DEF Verdict, CompletedMeansAll
<1>10. Previews'
  <2>1. \A k \in Gen : preview[k].st # "ready" => preview'[k] = preview[k]
    BY <1>1
  <2>3. \A k \in Gen : k > gen => preview'[k].st = "none"
    BY <1>1 DEF Previews
  <2>4. preview'[gen].st # "none" => PagesSettled
    BY <1>1, <1>7 DEF Previews
  <2>5. preview'[gen].st = "building" => preview'[gen].scope \subseteq Returns
    BY <1>1, <1>7 DEF Previews
  <2>6. preview'[gen].st \in {"ready", "done", "superseded"} => Returns \subseteq Covered'
    BY <1>1, <1>2, <1>7 DEF Previews
  <2>7. preview'[gen].st = "failed" =>
          \/ item[Fin].st = "failed"
          \/ /\ item[Fin].st = "processing" /\ item[Fin].att >= MaxAttempts
             /\ \A h \in Handler : Finalizes(h) => run[h].at = "end" /\ run[h].out = "retry"
    BY <1>1, <1>7 DEF Previews
  <2> QED BY <1>0, <1>3, <1>6, <2>3, <2>4, <2>5, <2>6, <2>7 DEF Previews
<1> QED BY <1>4, <1>5, <1>8, <1>9, <1>10

LEMMA RetryStep ==
  ASSUME CatalogInv, Types', retryFailedTask \/ retryCatalogFinalizeTask
  PROVE  CatalogInv'
<1> USE DEF CatalogInv
<1>0. /\ Fin \in Item /\ Page \subseteq Item /\ Fin \notin Page /\ Scheduled \in Page
      /\ item \in [Item -> ItemRow] /\ res \in [Page -> ResultRow] /\ task \in TaskRow
  BY PagesAre DEF Item, Fin, Types
<1>1. /\ UNCHANGED <<preview, manual, fresh, flags, run, scene, unbound, deploys>>
      /\ \A i \in Item : item[i].st \notin Open
      /\ NextGen <= MaxGen /\ gen' = NextGen
  BY DEF retryFailedTask, retryCatalogFinalizeTask, Rearm, budgets, Order, Open
<1>2. gen' > gen /\ gen' \in Gen /\ gen \in Nat /\ gen' \in Nat /\ Gen \subseteq Nat
  BY <1>0, <1>1, NextGenIs, CatalogAssumption DEF Types, TaskRow, Gen
<1>3. /\ task'.st = "pending" /\ task'.fin = "pending" /\ task'.terminal = task.terminal
      /\ task'.want = task.want
  BY <1>0 DEF retryFailedTask, retryCatalogFinalizeTask, Rearm, TaskRow
<1>4. PICK again \in BOOLEAN :
        /\ \A p \in Page : item'[p].ep = item[p].ep
        /\ \A p \in Page : IF again /\ item[p].st = "failed" THEN item'[p].st = "pending"
                           ELSE item'[p].st = item[p].st /\ res'[p] = res[p]
        /\ item'[Fin].st = "pending" /\ item'[Fin].ep = item[Fin].ep
  <2>1. CASE retryCatalogFinalizeTask
    <3>1. item' = [item EXCEPT ![Fin] = [NewItem EXCEPT !.ep = item[Fin].ep]] /\ res' = res
      BY <2>1 DEF retryCatalogFinalizeTask, Rearm
    <3>2. item'[Fin].st = "pending" /\ item'[Fin].ep = item[Fin].ep
      BY <1>0, <3>1 DEF NewItem
    <3>3. \A p \in Page : item'[p] = item[p]
      BY <1>0, <3>1
    <3>4. /\ \A p \in Page : item'[p].ep = item[p].ep
          /\ \A p \in Page : IF FALSE /\ item[p].st = "failed" THEN item'[p].st = "pending"
                             ELSE item'[p].st = item[p].st /\ res'[p] = res[p]
      BY <3>1, <3>3
    <3> QED BY <3>2, <3>4
  <2>2. CASE retryFailedTask
    <3> DEFINE failed == Pages(item, {"failed"})
               it == [i \in Item |-> IF i \in failed THEN [item[i] EXCEPT !.st = "pending"]
                                     ELSE item[i]]
    <3>1. /\ item' = [it EXCEPT ![Fin] = [NewItem EXCEPT !.ep = it[Fin].ep]]
          /\ res' = [p \in Page |-> IF p \in failed THEN None ELSE res[p]]
      BY <2>2 DEF retryFailedTask, Rearm
    <3>2. Fin \notin failed /\ \A p \in Page : p \in failed <=> item[p].st = "failed"
      BY <1>0 DEF Pages
    <3> HIDE DEF failed
    <3>3. it[Fin] = item[Fin] /\ it \in [Item -> ItemRow]
      BY <1>0, <3>2 DEF ItemRow, ItemState, Open
    <3>4. \A p \in Page : it[p].ep = item[p].ep /\ it[p].st = IF p \in failed THEN "pending" ELSE item[p].st
      BY <1>0 DEF ItemRow
    <3> HIDE DEF it
    <3>5. item'[Fin].st = "pending" /\ item'[Fin].ep = item[Fin].ep
      BY <1>0, <3>1, <3>3 DEF NewItem
    <3>6. \A p \in Page : item'[p] = it[p]
      BY <1>0, <3>1, <3>3
    <3>7. \A p \in Page : IF TRUE /\ item[p].st = "failed" THEN item'[p].st = "pending"
                          ELSE item'[p].st = item[p].st /\ res'[p] = res[p]
      BY <3>1, <3>2, <3>4, <3>6
    <3> QED BY <3>4, <3>5, <3>6, <3>7
  <2> QED BY <2>1, <2>2
<1>5. \A i \in Item : item'[i].st # "processing" /\ item'[i].ep = item[i].ep
  <2>1. \A p \in Page : item'[p].st # "processing"
    BY <1>0, <1>1, <1>4 DEF Open
  <2> QED BY <1>4, <2>1 DEF Item
<1>6. \A k \in Handler : ~Owns(k)'
  <2>1. \A k \in Handler : run'[k].job \in Item
    BY DEF Types, RunRow
  <2> QED BY <1>5, <2>1 DEF Owns
<1>7. Order'
  <2>1. \A p \in Page : item'[p].st # "none"
    BY <1>4 DEF Order
  <2>2. \A p \in Page : item'[p].st = "success" => res'[p].how \in {"fetched", "passed"}
    BY <1>4 DEF Order
  <2> QED BY <1>0, <1>3, <1>4, <1>5, <2>1, <2>2 DEF Order, Open
<1>8. Leases'
  <2>1. \A k \in Handler : run[k].job \in Item
    BY DEF Types, RunRow
  <2> QED BY <1>1, <1>5, <2>1 DEF Leases, Works
<1>9. Evidence'
  <2>1. Steady' <=> Steady
    BY <1>1 DEF Steady
  <2>2. \A q \in Page : Witness(q)' <=> Witness(q)
    BY <1>4 DEF Witness
  <2>3. StopHasWitness'
    <3> SUFFICES ASSUME Steady, NEW p \in Page, item'[p].st = "success", res'[p].how = "passed"
                 PROVE  \E q \in Page : q < p /\ Witness(q)'
      BY <2>1 DEF StopHasWitness, Witness
    <3>1. item[p].st = "success" /\ res[p].how = "passed"
      BY <1>4
    <3>2. \E q \in Page : q < p /\ Witness(q)
      BY <3>1 DEF Evidence, StopHasWitness, Witness
    <3> QED BY <2>2, <3>2
  <2>4. (Steady /\ flags /\ task.terminal # 0 =>
           \/ Witness(task.terminal)
           \/ item[task.terminal].st \in Open
           \/ /\ item[task.terminal].st = "failed"
              /\ \A q \in Page : q > task.terminal => item[q].st \notin Open)'
    <3> DEFINE t == task.terminal
    <3> SUFFICES ASSUME Steady, flags, t # 0
                 PROVE  \/ Witness(t)'
                        \/ item'[t].st \in Open
                        \/ /\ item'[t].st = "failed"
                           /\ \A q \in Page : q > t => item'[q].st \notin Open
      BY <1>1, <1>3, <2>1 DEF Witness
    <3>1. t \in Page
      BY <1>0 DEF TaskRow
    <3>2. \/ Witness(t)
          \/ item[t].st = "failed" /\ \A q \in Page : q > t => item[q].st \notin Open
      BY <1>0, <1>1, <3>1 DEF Evidence
    <3>3. Witness(t) => Witness(t)'
      BY <1>3, <1>4, <3>1 DEF Witness
    <3>4. CASE again
      BY <1>4, <3>1, <3>2, <3>3, <3>4 DEF Open
    <3>5. CASE ~again
      BY <1>4, <3>1, <3>2, <3>3, <3>5
    <3> QED BY <3>4, <3>5
  <2>5. (\A k \in Handler :
          run[k].at = "end" /\ run[k].job \in Page =>
            /\ run[k].out = "failed" /\ Steady => ~flags
            /\ run[k].out = "passed" =>
                 flags /\ (Owns(k) => task.terminal # 0 /\ run[k].job > task.terminal))'
    BY <1>1, <1>6, <2>1 DEF Evidence
  <2>6. (~flags => deploys > 0 /\ FALSE \in scene.flags)'
    BY <1>1 DEF Evidence
  <2> QED BY <2>3, <2>4, <2>5, <2>6 DEF Evidence
<1>10. Knowledge'
  BY <1>6 DEF Knowledge, Finalizes
<1>11. Verdict'
  BY <1>3 DEF Verdict, CompletedMeansAll
<1>12. Previews'
  <2>1. preview[gen'].st = "none"
    BY <1>2 DEF Previews
  <2>2. \A k \in Gen : k > gen' => preview[k].st = "none"
    BY <1>2 DEF Previews
  <2> QED BY <1>1, <2>1, <2>2 DEF Previews
<1> QED BY <1>7, <1>8, <1>9, <1>10, <1>11, <1>12
-----------------------------------------------------------------------------
(* Steps of the finalization.                                              *)

\* What the shell of this generation has to stand for.
ShellFits ==
  /\ preview[gen].st = "building" => preview[gen].scope \subseteq Returns
  /\ preview[gen].st \in {"ready", "done", "superseded"} => Returns \subseteq Covered
VerdictFits ==
  task.fin = "completed" /\ task.fgen = gen =>
    /\ task.verdict \in {"partial_failed", "completed"}
    /\ task.verdict = "completed" => AllReturned
    /\ Returns \subseteq Covered
Quiet == UNCHANGED <<res, gen, manual, fresh, flags, scene, unbound, deploys>>

LEMMA Finalizing ==
  ASSUME CatalogInv, NEW h \in Handler, Finalizes(h)
  PROVE  /\ item[Fin].st = "processing" /\ PagesSettled /\ task.st \in Open
         /\ Knows(h) /\ VerdictFits /\ ShellFits
         /\ preview[gen].st = "failed" =>
              /\ item[Fin].att >= MaxAttempts
              /\ run[h].at = "end" /\ run[h].out = "retry"
         /\ \A k \in Handler : Finalizes(k) => k = h
<1> USE DEF CatalogInv
<1>0. Fin \in Item
  BY DEF Item, Fin
<1>1. item[Fin].st = "processing"
  BY DEF Finalizes, Owns
<1>2. PagesSettled
  BY <1>1 DEF Order
<1>3. task.st \in Open
  BY <1>0, <1>1 DEF Order, Open
<1>4. Knows(h)
  BY DEF Knowledge
<1>5. VerdictFits
  BY DEF VerdictFits, Verdict
<1>6. ShellFits
  BY DEF ShellFits, Previews, Types
<1>7. \A k \in Handler : Finalizes(k) => k = h
  BY OneOwner DEF Finalizes
<1> QED BY <1>1, <1>2, <1>3, <1>4, <1>5, <1>6, <1>7 DEF Previews

LEMMA FinalizeStep ==
  ASSUME CatalogInv, Types', NEW h \in Handler, Finalizes(h), item' = item, Quiet,
         \A k \in Handler : k # h => run'[k] = run[k],
         run'[h].job = Fin, run'[h].ep = run[h].ep, run'[h].at # "idle",
         run'[h].at = "end" => run'[h].out \in {"failed", "success", "retry"},
         task'.st = task.st, task'.terminal = task.terminal,
         VerdictFits', Knows(h)', ShellFits',
         preview'[gen].st = "failed" =>
           item[Fin].att >= MaxAttempts /\ run'[h].at = "end" /\ run'[h].out = "retry",
         \A k \in Gen : k # gen => preview'[k] = preview[k]
  PROVE  CatalogInv'
<1> USE DEF CatalogInv, Quiet
<1>1. /\ item[Fin].st = "processing" /\ PagesSettled /\ task.st \in Open
      /\ \A k \in Handler : Finalizes(k) => k = h
  BY Finalizing
<1>2. SamePages /\ run[h].job = Fin /\ Works(h) /\ Fin \notin Page /\ gen \in Gen /\ Gen \subseteq Nat
  BY PagesAre, CatalogAssumption DEF SamePages, Finalizes, Fin, Types, Gen
<1>3. PagesSettled'
  BY <1>1, <1>2, SameFacts
<1>4. \A k \in Handler : /\ run'[k].job = run[k].job /\ run'[k].ep = run[k].ep
                         /\ Works(k)' <=> Works(k)
                         /\ Owns(k)' <=> Owns(k)
                         /\ Finalizes(k)' <=> Finalizes(k)
  BY <1>2 DEF Works, Owns, Finalizes
<1>5. Order'
  BY <1>1, <1>3 DEF Order
<1>6. Leases'
  <2>1. \A k \in Handler :
          /\ Works(k)' /\ run'[k].job \in Page => run'[k].at \in {"begin", "end"}
          /\ run'[k].at = "end" =>
               run'[k].out \in IF run'[k].job = Fin THEN {"failed", "success", "retry"}
                               ELSE {"failed", "passed", "upstream", "fetched"}
    <3> TAKE k \in Handler
    <3>1. CASE k = h
      BY <1>2, <3>1
    <3>2. CASE k # h
      BY <1>4, <3>2 DEF Leases
    <3> QED BY <3>1, <3>2
  <2> QED BY <1>4, <2>1 DEF Leases
<1>7. Evidence'
  BY <1>2, <1>4, EvidenceFrame
<1>8. Knowledge'
  BY <1>1, <1>4 DEF Knowledge
<1>9. Verdict'
  <2>1. task'.st # "completed"
    BY <1>1 DEF Open
  <2> QED BY <1>3, <2>1 DEF Verdict, CompletedMeansAll, VerdictFits
<1>10. Previews'
  <2>1. \A k \in Gen : k > gen => preview'[k].st = "none"
    BY <1>2 DEF Previews
  <2>3. \A k \in Handler : Finalizes(k)' => k = h
    BY <1>1, <1>4
  <2>4. preview'[gen].st = "failed" =>
          /\ item'[Fin].st = "processing" /\ item'[Fin].att >= MaxAttempts
          /\ \A k \in Handler : Finalizes(k)' => run'[k].at = "end" /\ run'[k].out = "retry"
    BY <1>1, <2>3
  <2>5. /\ preview'[gen].st = "building" => preview'[gen].scope \subseteq Returns'
        /\ preview'[gen].st \in {"ready", "done", "superseded"} => Returns' \subseteq Covered'
    BY DEF ShellFits
  <2> QED BY <1>3, <2>1, <2>4, <2>5 DEF Previews
<1> QED BY <1>5, <1>6, <1>7, <1>8, <1>9, <1>10

LEMMA FinalizeEnds ==
  ASSUME CatalogInv, Types', Quiet, skipped' = skipped, Drops, SamePages,
         item[Fin].st = "processing",
         item'[Fin].st \in {"pending", "success", "failed"},
         \A i \in Item : item'[i].ep = item[i].ep,
         \A p \in Page : item'[p] = item[p],
         NEW t \in TaskRow, task' = Recomputed(item', res', t),
         t.terminal = task.terminal, t.want = task.want,
         \/ t = task
         \/ t.fin = "failed" /\ item'[Fin].st = "failed",
         item'[Fin].st = "success" => task.fin = "completed" /\ task.fgen = gen,
         \/ preview' = preview
         \/ preview' = FailedShell(preview, gen) /\ item'[Fin].st = "failed",
         preview[gen].st = "failed" => item'[Fin].st = "failed"
  PROVE  CatalogInv'
<1> USE DEF CatalogInv, Quiet
<1>0. /\ Fin \in Item /\ Page \subseteq Item /\ Scheduled \in Page /\ item' \in [Item -> ItemRow]
      /\ gen \in Gen /\ preview \in [Gen -> PreviewRow]
  BY PagesAre DEF Item, Fin, Types
<1>1. PagesSettled /\ PagesSettled' /\ Returns' = Returns
  BY SameFacts DEF Order
<1>2. /\ task'.terminal = task.terminal /\ task'.want = task.want
      /\ task'.fin = t.fin /\ task'.fgen = t.fgen /\ task'.verdict = t.verdict
      /\ (task'.st \in Open) <=> (\E i \in Item : item'[i].st \in Open)
      /\ task'.st = "completed" => \A i \in Item : item'[i].st \notin Open \cup {"failed"}
      /\ task'.st = "completed" => t.verdict # "partial_failed"
  BY <1>0, ParentIs
<1>3. \A k \in Handler : run'[k].at # "idle" => run'[k] = run[k]
  BY DEF Drops, Idle
<1>4. Order'
  <2>1. \A i \in Item : item'[i].st # "processing"
    <3>1. \A p \in Page : item'[p].st # "processing"
      BY <1>1 DEF PagesSettled, Open
    <3> QED BY <3>1 DEF Item
  <2>2. \A p \in Page : /\ item'[p].st # "none"
                       /\ item'[p].st = "success" => res'[p].how \in {"fetched", "passed"}
    BY DEF Order
  <2> QED BY <1>0, <1>1, <1>2, <2>1, <2>2 DEF Order
<1>5. Leases'
  <2>1. \A k \in Handler : Works(k)' => run'[k] = run[k] /\ Works(k) /\ run[k].job \in Item
    BY <1>3 DEF Works, Types, RunRow
  <2>2. \A k \in Handler : run'[k].at = "end" => run'[k] = run[k]
    BY <1>3
  <2> QED BY <2>1, <2>2 DEF Leases
<1>6. Evidence'
  <2>1. \A k \in Handler : run'[k].at = "end" /\ run'[k].job \in Page =>
          run'[k] = run[k] /\ (Owns(k)' => Owns(k))
    BY <1>3 DEF Owns
  <2> QED BY <1>2, <2>1, EvidenceFrame
<1>7. Knowledge'
  BY DEF Knowledge, Finalizes, Owns
<1>8. Covered \subseteq Covered'
  <2>1. /\ \A g \in Gen : preview[g].st \in {"ready", "done"} => preview'[g] = preview[g]
        /\ preview'[gen].st \in {"ready", "done"} => preview[gen].st \in {"ready", "done"}
    BY <1>0 DEF FailedShell, PreviewRow
  <2> QED BY <2>1, CoveredGrows
<1>9. AllReturned' <=> AllReturned
  BY <1>2, SameFacts
<1>10. CompletedMeansAll'
  <2> SUFFICES ASSUME task'.st = "completed"
               PROVE  /\ task'.fin = "completed" /\ task'.fgen = gen' /\ task'.verdict = "completed"
                      /\ AllReturned'
    BY DEF CompletedMeansAll, AllReturned
  <2>1. item'[Fin].st = "success"
    BY <1>0, <1>2 DEF Open
  <2>2. t = task /\ task.fin = "completed" /\ task.fgen = gen
    BY <2>1
  <2>3. task.verdict = "completed" /\ AllReturned
    BY <1>2, <2>2 DEF Verdict
  <2> QED BY <1>2, <1>9, <2>2, <2>3
<1>11. Verdict'
  <2>1. CASE t.fin = "failed"
    BY <1>2, <1>10, <2>1 DEF Verdict
  <2>2. CASE t = task
    <3> SUFFICES ASSUME task'.fin = "completed" /\ task'.fgen = gen'
                 PROVE  /\ task'.verdict \in {"partial_failed", "completed"}
                        /\ task'.verdict = "completed" => AllReturned'
                        /\ Returns' \subseteq Covered'
      BY <1>1, <1>10 DEF Verdict
    <3> QED BY <1>1, <1>2, <1>8, <1>9, <2>2 DEF Verdict
  <2> QED BY <2>1, <2>2
<1>12. Previews'
  <2>1. \A k \in Gen : \/ preview'[k] = preview[k]
                      \/ /\ k = gen /\ preview'[k].st = "failed" /\ item'[Fin].st = "failed"
    BY <1>0 DEF FailedShell, PreviewRow
  <2>2. \A k \in Gen : k > gen => preview'[k].st = "none"
    BY <2>1, CatalogAssumption DEF Previews, Gen
  <2>4. /\ preview'[gen].st = "building" => preview'[gen].scope \subseteq Returns
        /\ preview'[gen].st \in {"ready", "done", "superseded"} => Returns \subseteq Covered'
        /\ preview'[gen].st = "failed" => item'[Fin].st = "failed"
    BY <1>0, <1>8, <2>1 DEF Previews
  <2> QED BY <1>1, <2>2, <2>4 DEF Previews
<1> QED BY <1>4, <1>5, <1>6, <1>7, <1>11, <1>12

\* A step that leaves the rows, the previews and the books as they are.
Still == /\ UNCHANGED <<item, preview, skipped>> /\ Quiet
         /\ task'.st = task.st /\ task'.terminal = task.terminal /\ task'.want = task.want

LEMMA StillIs ==
  ASSUME Still
  PROVE  Returns' = Returns /\ Covered' = Covered /\ (AllReturned' <=> AllReturned)
<1>1. SamePages
  BY DEF Still, Quiet, SamePages
<1>2. Returns' = Returns /\ (AllReturned' <=> AllReturned)
  BY <1>1, SameFacts DEF Still
<1>3. Covered' = Covered
  BY DEF Still, Quiet, Covered, Away, TurnedAway
<1> QED BY <1>2, <1>3

LEMMA StillStep ==
  ASSUME CatalogInv, Types', NEW h \in Handler, Finalizes(h), Still,
         run[h].at # "end",
         \A k \in Handler : k # h => run'[k] = run[k],
         run'[h].job = Fin, run'[h].ep = run[h].ep, run'[h].at # "idle",
         run'[h].at = "end" => run'[h].out \in {"failed", "success", "retry"},
         \/ task' = task
         \/ VerdictFits',
         Knows(h)'
  PROVE  CatalogInv'
<1>1. /\ VerdictFits /\ ShellFits /\ preview[gen].st # "failed"
  BY Finalizing
<1>2. Returns' = Returns /\ Covered' = Covered /\ (AllReturned' <=> AllReturned)
  BY StillIs
<1>3. VerdictFits'
  BY <1>1, <1>2 DEF VerdictFits, Still, Quiet
<1>4. ShellFits'
  BY <1>1, <1>2 DEF ShellFits, Still, Quiet
<1> QED BY <1>1, <1>3, <1>4, FinalizeStep DEF Still, Quiet

\* The handler that a step of the finalization belongs to.
LEMMA AtIs ==
  ASSUME CatalogInv, NEW h \in Handler, run[h].at # "idle", run[h].job = Fin, Owns(h)
  PROVE  /\ Finalizes(h) /\ Knows(h) /\ run[h] \in RunRow /\ run \in [Handler -> RunRow]
         /\ run[h].at # "end" => preview[gen].st # "failed"
         /\ gen \in Gen /\ preview \in [Gen -> PreviewRow] /\ task \in TaskRow
<1>1. Finalizes(h)
  BY DEF Finalizes, Works
<1> QED BY <1>1, Finalizing DEF CatalogInv, Types

LEMMA StepIs ==
  ASSUME run \in [Handler -> RunRow], NEW h \in Handler, NEW at, Step(h, at)
  PROVE  /\ \A k \in Handler : k # h => run'[k] = run[k]
         /\ run'[h] = [run[h] EXCEPT !.at = at]
         /\ run'[h].at = at /\ run'[h].job = run[h].job /\ run'[h].ep = run[h].ep
         /\ run'[h].out = run[h].out /\ run'[h].want = run[h].want
         /\ run'[h].touched = run[h].touched /\ run'[h].bad = run[h].bad
         /\ run'[h].plan = run[h].plan /\ run'[h].left = run[h].left
BY DEF Step, RunRow

LEMMA BeginStep ==
  ASSUME CatalogInv, Types', NEW h \in Handler, BeginFinalize(h)
  PROVE  CatalogInv'
<1>1. /\ run[h].at = "begin" /\ run[h].job = Fin /\ Owns(h)
      /\ UNCHANGED <<rows, preview, manual, fresh, skipped, flags, budgets>>
  BY DEF BeginFinalize, At
<1>2. Finalizes(h) /\ run[h] \in RunRow /\ run \in [Handler -> RunRow]
  BY <1>1, AtIs
<1>3. /\ \A k \in Handler : k # h => run'[k] = run[k]
      /\ run'[h].job = Fin /\ run'[h].ep = run[h].ep
      /\ \/ run'[h].at = "end" /\ run'[h].out = "failed"
         \/ /\ run'[h].at = "end" /\ run'[h].out = "success"
            /\ task.fin = "completed" /\ task.fgen = gen
         \/ run'[h].at = "mark" /\ run'[h].want = task.want
  BY <1>1, <1>2 DEF BeginFinalize, RunRow
<1>4. Still /\ task' = task
  BY <1>1 DEF Still, Quiet, rows, budgets
<1>5. Knows(h)'
  BY <1>3, <1>4 DEF Knows, Still, Quiet, Planning, Gathered
<1> QED BY <1>1, <1>2, <1>3, <1>4, <1>5, StillStep

LEMMA MarkStep ==
  ASSUME CatalogInv, Types', NEW h \in Handler, MarkProcessing(h)
  PROVE  CatalogInv'
<1>1. /\ run[h].at = "mark" /\ run[h].job = Fin /\ Owns(h) /\ Step(h, "gather")
      /\ task' = [task EXCEPT !.fin = "processing", !.fgen = gen]
      /\ UNCHANGED <<item, res, gen, preview, manual, fresh, skipped, flags, budgets>>
  BY DEF MarkProcessing, At
<1>2. Finalizes(h) /\ Knows(h) /\ run[h] \in RunRow /\ run \in [Handler -> RunRow] /\ task \in TaskRow
  BY <1>1, AtIs
<1>3. /\ \A k \in Handler : k # h => run'[k] = run[k]
      /\ run'[h].job = Fin /\ run'[h].ep = run[h].ep /\ run'[h].at = "gather"
      /\ run'[h].want = run[h].want
  BY <1>1, <1>2, StepIs
<1>4. Still /\ task'.fin = "processing"
  BY <1>1, <1>2 DEF Still, Quiet, budgets, TaskRow
<1>5. Knows(h)'
  BY <1>1, <1>2, <1>3, <1>4 DEF Knows, Still, Quiet, Planning, Gathered
<1>6. VerdictFits'
  BY <1>4 DEF VerdictFits
<1> QED BY <1>1, <1>2, <1>3, <1>4, <1>5, <1>6, StillStep

LEMMA GatherStep ==
  ASSUME CatalogInv, Types', NEW h \in Handler, GatherPages(h)
  PROVE  CatalogInv'
<1> DEFINE ok == Pages(item, {"success"})
<1>1. /\ run[h].at = "gather" /\ run[h].job = Fin /\ Owns(h)
      /\ UNCHANGED <<rows, preview, manual, fresh, skipped, flags, budgets>>
  BY DEF GatherPages, At
<1>2. Finalizes(h) /\ Knows(h) /\ run[h] \in RunRow /\ run \in [Handler -> RunRow]
  BY <1>1, AtIs
<1>3. PagesSettled /\ Types /\ Order
  BY <1>2, Finalizing DEF CatalogInv
<1> DEFINE touched == Touched(ok)
           actual == Returned(res, ok)
           at == IF touched = {} THEN "complete" ELSE "plan"
           bad == \/ Pages(item, {"failed"}) # {}
                  \/ run[h].why \in {"safety_limit", "upstream_error"}
                  \/ actual < run[h].want
<1>4. run' = [run EXCEPT ![h].at = at, ![h].touched = touched, ![h].actual = actual,
                         ![h].bad = bad]
  BY DEF GatherPages
<1>5. touched = Returns /\ at \in {"complete", "plan"} /\ (at = "complete" => Returns = {})
  BY DEF Returns
<1>6. ASSUME ~bad PROVE AllReturned
  <2>1. actual \in Nat /\ run[h].want \in Nat /\ run[h].want = task.want
    BY <1>1, <1>2, <1>3, GatherIs DEF RunRow, Knows, Planning
  <2>2. actual >= task.want
    BY <1>6, <2>1
  <2>3. \A p \in Page : item[p].st = "success"
    <3> TAKE p \in Page
    <3>1. item[p].st # "failed" /\ item[p].st # "none" /\ item[p].st \notin Open
      BY <1>3, <1>6 DEF Pages, Order, PagesSettled
    <3>2. item[p].st \in ItemState
      BY <1>3 DEF Types, ItemRow, Item
    <3> QED BY <3>1, <3>2 DEF ItemState
  <2>4. ok = Page
    BY <2>3 DEF Pages
  <2> QED BY <2>2, <2>4 DEF AllReturned
<1> HIDE DEF touched, actual, at, bad
<1>7. /\ \A k \in Handler : k # h => run'[k] = run[k]
      /\ run'[h].job = Fin /\ run'[h].ep = run[h].ep
      /\ run'[h].at = at /\ run'[h].touched = touched /\ run'[h].bad = bad
      /\ run'[h].want = run[h].want
  BY <1>1, <1>2, <1>4 DEF RunRow
<1>8. Still /\ task' = task
  BY <1>1 DEF Still, Quiet, rows, budgets
<1>9. Returns' = Returns /\ (AllReturned' <=> AllReturned)
  BY <1>8, StillIs
<1>10. run[h].want = task.want /\ task.fin = "processing"
  BY <1>1, <1>2 DEF Knows, Planning
<1>11. Knows(h)'
  BY <1>5, <1>6, <1>7, <1>8, <1>9, <1>10 DEF Knows
<1>12. run'[h].at # "idle" /\ run'[h].at # "end" /\ run[h].at # "end"
  BY <1>1, <1>5, <1>7
<1> QED BY <1>2, <1>7, <1>8, <1>11, <1>12, StillStep

\* A task that is already active over a scope covers it, while this
\* generation has activated none.
LEMMA ActiveCovers ==
  ASSUME NEW scope \in SUBSET Source, ActiveScope(scope, gen),
         preview[gen].st \notin {"ready", "done"}
  PROVE  scope \subseteq Covered
<1>1. CASE manual.st = "active" /\ manual.scope = scope
  BY <1>1 DEF Covered
<1>2. CASE \E k \in Gen \ {gen} : preview[k].st = "ready" /\ preview[k].scope = scope
  <2>1. scope \subseteq Away
    BY <1>2 DEF Away, TurnedAway
  <2> QED BY <2>1 DEF Covered
<1> QED BY <1>1, <1>2 DEF ActiveScope

LEMMA PlanStep ==
  ASSUME CatalogInv, Types', NEW h \in Handler, PlanPreview(h)
  PROVE  CatalogInv'
<1>1. /\ run[h].at = "plan" /\ run[h].job = Fin /\ Owns(h)
      /\ UNCHANGED <<rows, preview, manual, fresh, flags, budgets>>
  BY DEF PlanPreview, At
<1>2. /\ Finalizes(h) /\ Knows(h) /\ run[h] \in RunRow /\ run \in [Handler -> RunRow]
      /\ preview[gen].st # "failed" /\ preview[gen] \in PreviewRow
  BY <1>1, AtIs
<1>3. ShellFits
  BY <1>2, Finalizing
<1>4. /\ run[h].touched = Returns /\ (~run[h].bad => AllReturned)
      /\ run[h].want = task.want /\ task.fin = "processing"
  BY <1>1, <1>2 DEF Knows, Gathered, Planning
<1>5. CASE preview[gen].st \notin {"none", "building"}
  <2>1. Step(h, "complete") /\ Still /\ task' = task
    BY <1>1, <1>5 DEF PlanPreview, Still, Quiet, rows, budgets
  <2>2. Returns \subseteq Covered
    BY <1>2, <1>3, <1>5 DEF ShellFits, PreviewRow
  <2>3. Returns' = Returns /\ Covered' = Covered /\ (AllReturned' <=> AllReturned)
    BY <2>1, StillIs
  <2>4. /\ \A k \in Handler : k # h => run'[k] = run[k]
        /\ run'[h].at = "complete" /\ run'[h].job = Fin /\ run'[h].ep = run[h].ep
        /\ run'[h].want = run[h].want /\ run'[h].touched = run[h].touched
        /\ run'[h].bad = run[h].bad
    BY <1>1, <1>2, <2>1, StepIs
  <2>5. Knows(h)'
    BY <1>4, <2>1, <2>2, <2>3, <2>4 DEF Knows, Still, Quiet
  <2>6. run'[h].at # "idle" /\ run'[h].at # "end" /\ run[h].at # "end"
    BY <1>1, <2>4
  <2> QED BY <1>2, <2>1, <2>4, <2>5, <2>6, StillStep
<1>6. CASE preview[gen].st \in {"none", "building"}
  <2>1. PICK misfit \in scene.misfits :
          /\ skipped' = run[h].touched \cap misfit
          /\ run' = [run EXCEPT ![h] =
               IF \/ run[h].touched \ (fresh \cup misfit) = {}
                  \/ ActiveScope(run[h].touched \ (fresh \cup misfit), gen)
               THEN [@ EXCEPT !.at = "complete"]
               ELSE [@ EXCEPT !.at = IF preview[gen].st = "none" THEN "shell" ELSE "batch",
                              !.plan = run[h].touched \ (fresh \cup misfit),
                              !.left = {s[1] : s \in run[h].touched \ (fresh \cup misfit)}]]
    BY <1>6 DEF PlanPreview
  <2> DEFINE plan == run[h].touched \ (fresh \cup misfit)
             left == {s[1] : s \in plan}
             done == plan = {} \/ ActiveScope(plan, gen)
  <2>2. run' = [run EXCEPT ![h] =
         IF done THEN [@ EXCEPT !.at = "complete"]
         ELSE [@ EXCEPT !.at = IF preview[gen].st = "none" THEN "shell" ELSE "batch",
                        !.plan = plan, !.left = left]]
    BY <2>1
  <2>3. /\ plan \subseteq Returns /\ Returns \subseteq fresh \cup skipped' \cup plan
        /\ (plan # {} => left # {}) /\ \A s \in plan : s[1] \in left
        /\ plan \in SUBSET Source
    BY <1>2, <1>4, <2>1 DEF RunRow
  <2>4. /\ UNCHANGED <<item, preview, task>> /\ Quiet /\ SamePages
    BY <1>1 DEF Quiet, SamePages, rows, budgets
  <2>5. Returns' = Returns /\ (AllReturned' <=> AllReturned)
    BY <2>4, SameFacts
  <2>6. ASSUME done PROVE Returns \subseteq Covered'
    <3>1. plan \subseteq Covered'
      <4>1. CASE plan = {}
        BY <4>1
      <4>2. CASE ActiveScope(plan, gen)
        <5>1. CASE manual.st = "active" /\ manual.scope = plan
          <6>1. manual' = manual
            BY <2>4 DEF Quiet
          <6> QED BY <5>1, <6>1 DEF Covered
        <5>2. CASE \E k \in Gen \ {gen} : preview[k].st = "ready" /\ preview[k].scope = plan
          <6>1. preview' = preview /\ gen' = gen
            BY <2>4 DEF Quiet
          <6>2. \A s \in plan : s \in Source /\ TurnedAway(s)'
            BY <1>6, <2>3, <5>2, <6>1 DEF TurnedAway
          <6>3. plan \subseteq Away'
            BY <6>1, <6>2 DEF Away, TurnedAway
          <6> QED BY <6>3 DEF Covered
        <5> QED BY <4>2, <5>1, <5>2 DEF ActiveScope
      <4> QED BY <2>6, <4>1, <4>2
    <3>2. fresh' = fresh
      BY <2>4 DEF Quiet
    <3> QED BY <2>3, <3>1, <3>2 DEF Covered
  <2>7. ~done => plan # {}
    OBVIOUS
  <2> HIDE DEF plan, left, done
  <2>8. /\ \A k \in Handler : k # h => run'[k] = run[k]
        /\ run'[h].job = Fin /\ run'[h].ep = run[h].ep
        /\ run'[h].want = run[h].want /\ run'[h].touched = run[h].touched
        /\ run'[h].bad = run[h].bad
        /\ \/ done /\ run'[h].at = "complete"
           \/ /\ ~done /\ run'[h].plan = plan /\ run'[h].left = left
              /\ run'[h].at = IF preview[gen].st = "none" THEN "shell" ELSE "batch"
    <3>1. CASE done
      <4>1. run' = [run EXCEPT ![h] = [@ EXCEPT !.at = "complete"]]
        BY <2>2, <3>1
      <4> QED BY <1>1, <1>2, <3>1, <4>1 DEF RunRow
    <3>2. CASE ~done
      <4>1. run' = [run EXCEPT ![h] =
              [@ EXCEPT !.at = IF preview[gen].st = "none" THEN "shell" ELSE "batch",
                        !.plan = plan, !.left = left]]
        BY <2>2, <3>2
      <4> QED BY <1>1, <1>2, <3>2, <4>1 DEF RunRow
    <3> QED BY <3>1, <3>2
  <2>9. Knows(h)'
    <3>1. preview' = preview /\ gen' = gen /\ fresh' = fresh /\ task' = task
      BY <2>4 DEF Quiet
    <3>2. CASE done
      BY <1>4, <2>5, <2>6, <2>8, <3>1, <3>2 DEF Knows
    <3>3. CASE ~done
      BY <1>4, <1>6, <2>3, <2>5, <2>7, <2>8, <3>1, <3>3 DEF Knows
    <3> QED BY <3>2, <3>3
  <2>10. VerdictFits' /\ ShellFits'
    <3>1. VerdictFits'
      BY <1>4, <2>4 DEF VerdictFits
    <3>2. ShellFits'
      BY <1>3, <1>6, <2>4, <2>5 DEF ShellFits, Quiet
    <3> QED BY <3>1, <3>2
  <2>11. /\ run'[h].at # "idle" /\ run'[h].at # "end"
         /\ preview'[gen].st # "failed" /\ \A k \in Gen : preview'[k] = preview[k]
    BY <1>2, <2>4, <2>8
  <2> QED BY <1>2, <2>4, <2>8, <2>9, <2>10, <2>11, FinalizeStep
<1> QED BY <1>5, <1>6

\* A step on the shell of this generation.
ShellMoves == /\ UNCHANGED <<item, task, skipped>> /\ Quiet
              /\ \A k \in Gen : k # gen => preview'[k] = preview[k]

LEMMA ShellStep ==
  ASSUME CatalogInv, Types', NEW h \in Handler, Finalizes(h), ShellMoves,
         preview'[gen].st # "failed",
         run[h].at \in Gathered,
         \A k \in Handler : k # h => run'[k] = run[k],
         run'[h].job = Fin, run'[h].ep = run[h].ep, run'[h].at # "idle",
         run'[h].at # "end",
         Returns' = Returns /\ (AllReturned' <=> AllReturned) => Knows(h)' /\ ShellFits'
  PROVE  CatalogInv'
<1>1. SamePages
  BY DEF ShellMoves, Quiet, SamePages
<1>2. Returns' = Returns /\ (AllReturned' <=> AllReturned)
  BY <1>1, SameFacts DEF ShellMoves
<1>3. task.fin = "processing"
  BY DEF CatalogInv, Knowledge, Knows
<1>4. VerdictFits'
  BY <1>3 DEF VerdictFits, ShellMoves
<1> QED BY <1>2, <1>4, FinalizeStep DEF ShellMoves

LEMMA ShellCreated ==
  ASSUME CatalogInv, Types', NEW h \in Handler, CreateShell(h)
  PROVE  CatalogInv'
<1>1. /\ run[h].at = "shell" /\ run[h].job = Fin /\ Owns(h) /\ Step(h, "batch")
      /\ preview' = [preview EXCEPT ![gen] =
           [st |-> "building", items |-> {}, scope |-> run[h].plan]]
      /\ UNCHANGED <<rows, manual, fresh, skipped, flags, budgets>>
  BY DEF CreateShell, At
<1>2. /\ Finalizes(h) /\ Knows(h) /\ run[h] \in RunRow /\ run \in [Handler -> RunRow]
      /\ gen \in Gen /\ preview \in [Gen -> PreviewRow]
  BY <1>1, AtIs
<1>3. /\ \A k \in Handler : k # h => run'[k] = run[k]
      /\ run'[h].job = Fin /\ run'[h].ep = run[h].ep /\ run'[h].at = "batch"
      /\ run'[h].want = run[h].want /\ run'[h].touched = run[h].touched
      /\ run'[h].bad = run[h].bad
      /\ run'[h].plan = run[h].plan /\ run'[h].left = run[h].left
  BY <1>1, <1>2, StepIs
<1>4. ShellMoves /\ fresh' = fresh /\ skipped' = skipped /\ gen' = gen /\ task' = task
  BY <1>1, <1>2 DEF ShellMoves, Quiet, rows, budgets
<1>5. /\ preview'[gen].st = "building" /\ preview'[gen].items = {}
      /\ preview'[gen].scope = run[h].plan /\ preview[gen].st = "none"
  BY <1>1, <1>2 DEF Knows
<1>6. /\ run[h].want = task.want /\ run[h].touched = Returns /\ (~run[h].bad => AllReturned)
      /\ task.fin = "processing" /\ run[h].at \in Gathered
      /\ run[h].plan \subseteq Returns /\ Returns \subseteq fresh \cup skipped \cup run[h].plan
      /\ run[h].left # {} /\ \A s \in run[h].plan : s[1] \in run[h].left
  BY <1>1, <1>2 DEF Knows, Gathered, Planning
<1>7. ASSUME Returns' = Returns, AllReturned' <=> AllReturned
      PROVE  Knows(h)' /\ ShellFits'
  BY <1>3, <1>4, <1>5, <1>6, <1>7 DEF Knows, ShellFits
<1> QED BY <1>2, <1>3, <1>4, <1>5, <1>6, <1>7, ShellStep

\* Every set of page numbers has a least one: the batch that is next.
LEMMA Least ==
  ASSUME NEW T \in SUBSET Nat, T # {}
  PROVE  Min(T) \in T
<1> DEFINE R == {p \in Nat \X Nat : p[1] < p[2]}
<1>1. IsWellFoundedOn(R, Nat)
  BY Zenon, NatLessThanWellFounded DEF OpToRel
<1>2. \A x, y \in Nat : <<y, x>> \in R <=> y < x
  OBVIOUS
<1> HIDE DEF R
<1>3. PICK x \in T : \A y \in T : <<y, x>> \notin R
  BY <1>1, WFMin
<1>4. ASSUME NEW y \in T PROVE x <= y
  <2>1. x \in Nat /\ y \in Nat /\ ~(y < x)
    BY <1>2, <1>3
  <2> QED BY <2>1
<1> QED BY <1>4 DEF Min

LEMMA BatchStep ==
  ASSUME CatalogInv, Types', NEW h \in Handler, StageBatch(h)
  PROVE  CatalogInv'
<1> DEFINE p == Min(run[h].left)
           b == {s \in run[h].plan : s[1] = p}
           left == run[h].left \ {p}
           at == IF run[h].left = {p} THEN "activate" ELSE "batch"
<1>1. /\ run[h].at = "batch" /\ run[h].job = Fin /\ Owns(h)
      /\ preview' = [preview EXCEPT ![gen].items = @ \cup b]
      /\ run' = [run EXCEPT ![h].left = left, ![h].at = at]
      /\ UNCHANGED <<rows, manual, fresh, skipped, flags, budgets>>
  BY DEF StageBatch, At
<1>2. /\ Finalizes(h) /\ Knows(h) /\ run[h] \in RunRow /\ run \in [Handler -> RunRow]
      /\ gen \in Gen /\ preview \in [Gen -> PreviewRow]
  BY <1>1, AtIs
<1>3. /\ run[h].want = task.want /\ run[h].touched = Returns /\ (~run[h].bad => AllReturned)
      /\ task.fin = "processing" /\ run[h].at \in Gathered
      /\ run[h].plan \subseteq Returns /\ Returns \subseteq fresh \cup skipped \cup run[h].plan
      /\ preview[gen].st = "building" /\ run[h].left # {}
      /\ \A s \in run[h].plan : s[1] \in run[h].left \/ s \in preview[gen].items
  BY <1>1, <1>2 DEF Knows, Gathered, Planning
<1>4. p \in run[h].left
  <2>1. run[h].left \subseteq Nat
    BY <1>2, PagesAre DEF RunRow
  <2> QED BY <1>3, <2>1, Least
<1>5. /\ at \in {"activate", "batch"}
      /\ at = "batch" => left # {}
      /\ at = "activate" => left = {}
  BY <1>4
<1>6. \A s \in run[h].plan : s[1] \in left \/ s \in preview[gen].items \cup b
  BY <1>3
<1> HIDE DEF p, b, left, at
<1>7. /\ \A k \in Handler : k # h => run'[k] = run[k]
      /\ run'[h].job = Fin /\ run'[h].ep = run[h].ep /\ run'[h].at = at
      /\ run'[h].want = run[h].want /\ run'[h].touched = run[h].touched
      /\ run'[h].bad = run[h].bad
      /\ run'[h].plan = run[h].plan /\ run'[h].left = left
  BY <1>1, <1>2 DEF RunRow
<1>8. ShellMoves /\ fresh' = fresh /\ skipped' = skipped /\ gen' = gen /\ task' = task
  BY <1>1, <1>2 DEF ShellMoves, Quiet, rows, budgets
<1>9. /\ preview'[gen].st = "building" /\ preview'[gen].items = preview[gen].items \cup b
      /\ preview'[gen].scope = preview[gen].scope
  BY <1>1, <1>2, <1>3 DEF PreviewRow
<1>10. preview[gen].scope \subseteq Returns
  BY <1>2, <1>3, Finalizing DEF ShellFits
<1>11. ASSUME Returns' = Returns, AllReturned' <=> AllReturned
       PROVE  Knows(h)' /\ ShellFits'
  <2>1. Knows(h)'
    BY <1>3, <1>5, <1>6, <1>7, <1>8, <1>9, <1>11 DEF Knows
  <2>2. ShellFits'
    BY <1>8, <1>9, <1>10, <1>11 DEF ShellFits
  <2> QED BY <2>1, <2>2
<1>12. run'[h].at # "idle" /\ run'[h].at # "end"
  BY <1>5, <1>7
<1> QED BY <1>2, <1>3, <1>7, <1>8, <1>9, <1>11, <1>12, ShellStep

LEMMA ActivateStep ==
  ASSUME CatalogInv, Types', NEW h \in Handler, ActivatePreview(h)
  PROVE  CatalogInv'
<1> DEFINE lost == ActiveScope(preview[gen].scope, gen)
           taken == ActiveScope(run[h].plan, gen)
           at == IF ~lost THEN "complete" ELSE IF taken THEN "supersede" ELSE "caught"
<1>1. /\ run[h].at = "activate" /\ run[h].job = Fin /\ Owns(h)
      /\ preview' = IF lost THEN preview ELSE [preview EXCEPT ![gen].st = "ready"]
      /\ Step(h, at)
      /\ UNCHANGED <<rows, manual, fresh, skipped, flags, budgets>>
  BY DEF ActivatePreview, At
<1>2. /\ Finalizes(h) /\ Knows(h) /\ run[h] \in RunRow /\ run \in [Handler -> RunRow]
      /\ gen \in Gen /\ preview \in [Gen -> PreviewRow]
  BY <1>1, AtIs
<1>3. /\ run[h].want = task.want /\ run[h].touched = Returns /\ (~run[h].bad => AllReturned)
      /\ task.fin = "processing" /\ run[h].at \in Gathered
      /\ Returns \subseteq fresh \cup skipped \cup run[h].plan
      /\ preview[gen].st = "building" /\ run[h].plan \subseteq preview[gen].items
  BY <1>1, <1>2 DEF Knows, Gathered, Planning
<1>4. preview[gen].scope \subseteq Returns /\ Previews
  BY <1>2, <1>3, Finalizing DEF ShellFits, CatalogInv
<1>5. taken => Returns \subseteq Covered
  <2> SUFFICES ASSUME taken PROVE Returns \subseteq Covered
    OBVIOUS
  <2>1. run[h].plan \subseteq Covered
    BY <1>2, <1>3, ActiveCovers DEF RunRow
  <2> QED BY <1>3, <2>1 DEF Covered
<1> HIDE DEF lost, taken
<1>7. /\ \A k \in Handler : k # h => run'[k] = run[k]
      /\ run'[h].job = Fin /\ run'[h].ep = run[h].ep /\ run'[h].at = at
      /\ run'[h].want = run[h].want /\ run'[h].touched = run[h].touched
      /\ run'[h].bad = run[h].bad
  BY <1>1, <1>2, StepIs
<1>8. ShellMoves /\ fresh' = fresh /\ skipped' = skipped /\ gen' = gen /\ task' = task /\ manual' = manual
  BY <1>1, <1>2 DEF ShellMoves, Quiet, rows, budgets
<1>9. /\ preview'[gen].items = preview[gen].items
      /\ preview'[gen].scope = preview[gen].scope
      /\ preview'[gen].st = IF lost THEN "building" ELSE "ready"
  BY <1>1, <1>2, <1>3 DEF PreviewRow
<1>10. ~lost => Returns \subseteq Covered'
  BY <1>2, <1>3, <1>8, <1>9 DEF Covered
<1>6. lost => Covered' = Covered
  BY <1>1, <1>8 DEF Covered, Away, TurnedAway
<1>11. ASSUME Returns' = Returns, AllReturned' <=> AllReturned
       PROVE  Knows(h)' /\ ShellFits'
  <2>1. Knows(h)'
    BY <1>3, <1>5, <1>6, <1>7, <1>8, <1>10, <1>11 DEF Knows, Planning, Gathered
  <2>2. ShellFits'
    BY <1>3, <1>4, <1>8, <1>9, <1>10, <1>11 DEF ShellFits
  <2> QED BY <2>1, <2>2
<1>12. run'[h].at # "idle" /\ run'[h].at # "end" /\ preview'[gen].st # "failed"
  BY <1>7, <1>9
<1> QED BY <1>2, <1>3, <1>7, <1>8, <1>11, <1>12, ShellStep

LEMMA SupersedeStep ==
  ASSUME CatalogInv, Types', NEW h \in Handler, SupersedeShell(h)
  PROVE  CatalogInv'
<1>1. /\ run[h].at = "supersede" /\ run[h].job = Fin /\ Owns(h) /\ Step(h, "complete")
      /\ preview' = [preview EXCEPT ![gen].st = IF @ = "building" THEN "superseded" ELSE @]
      /\ UNCHANGED <<rows, manual, fresh, skipped, flags, budgets>>
  BY DEF SupersedeShell, At
<1>2. /\ Finalizes(h) /\ Knows(h) /\ run[h] \in RunRow /\ run \in [Handler -> RunRow]
      /\ gen \in Gen /\ preview \in [Gen -> PreviewRow] /\ preview[gen].st # "failed"
  BY <1>1, AtIs
<1>3. /\ run[h].want = task.want /\ run[h].touched = Returns /\ (~run[h].bad => AllReturned)
      /\ task.fin = "processing" /\ run[h].at \in Gathered
      /\ Returns \subseteq Covered
  BY <1>1, <1>2 DEF Knows, Gathered, Planning
<1>7. /\ \A k \in Handler : k # h => run'[k] = run[k]
      /\ run'[h].job = Fin /\ run'[h].ep = run[h].ep /\ run'[h].at = "complete"
      /\ run'[h].want = run[h].want /\ run'[h].touched = run[h].touched
      /\ run'[h].bad = run[h].bad
  BY <1>1, <1>2, StepIs
<1>8. ShellMoves /\ fresh' = fresh /\ skipped' = skipped /\ gen' = gen /\ task' = task
  BY <1>1, <1>2 DEF ShellMoves, Quiet, rows, budgets
<1>4. CASE preview[gen].st = "building"
  <2>1. preview'[gen].st = "superseded"
    BY <1>1, <1>2, <1>4 DEF PreviewRow
  <2>3. Covered \subseteq Covered'
    <3>1. \A g \in Gen : preview[g].st \in {"ready", "done"} => preview'[g] = preview[g]
      BY <1>4, <1>8 DEF ShellMoves
    <3>2. preview'[gen].st \notin {"ready", "done"} /\ manual' = manual
      BY <1>8, <2>1 DEF ShellMoves, Quiet
    <3> QED BY <1>8, <3>1, <3>2, CoveredGrows
  <2>2. ASSUME Returns' = Returns, AllReturned' <=> AllReturned
        PROVE  Knows(h)' /\ ShellFits'
    BY <1>3, <1>7, <1>8, <2>1, <2>2, <2>3 DEF Knows, ShellFits
  <2> QED BY <1>2, <1>3, <1>4, <1>7, <1>8, <2>1, <2>2, ShellStep
<1>5. CASE preview[gen].st # "building"
  <2>1. preview' = preview
    BY <1>1, <1>2, <1>5 DEF PreviewRow
  <2>2. Still /\ task' = task
    BY <1>1, <2>1 DEF Still, Quiet, rows, budgets
  <2>3. Returns' = Returns /\ Covered' = Covered /\ (AllReturned' <=> AllReturned)
    BY <2>2, StillIs
  <2>4. Knows(h)'
    BY <1>3, <1>7, <2>2, <2>3 DEF Knows
  <2> QED BY <1>1, <1>2, <1>7, <2>2, <2>4, StillStep
<1> QED BY <1>4, <1>5

LEMMA CompleteStep ==
  ASSUME CatalogInv, Types', NEW h \in Handler, CompleteFinalize(h)
  PROVE  CatalogInv'
<1>1. /\ run[h].at = "complete" /\ run[h].job = Fin /\ Owns(h)
      /\ task' = [task EXCEPT !.fin = "completed", !.fgen = gen,
                   !.verdict = IF run[h].bad THEN "partial_failed" ELSE "completed"]
      /\ run' = [run EXCEPT ![h].at = "end", ![h].out = "success"]
      /\ UNCHANGED <<item, res, gen, preview, manual, fresh, skipped, flags, budgets>>
  BY DEF CompleteFinalize, At
<1>2. /\ Finalizes(h) /\ Knows(h) /\ run[h] \in RunRow /\ run \in [Handler -> RunRow]
      /\ task \in TaskRow
  BY <1>1, AtIs
<1>3. (~run[h].bad => AllReturned) /\ Returns \subseteq Covered
  BY <1>1, <1>2 DEF Knows, Gathered
<1>4. /\ task'.fin = "completed" /\ task'.fgen = gen
      /\ task'.verdict = IF run[h].bad THEN "partial_failed" ELSE "completed"
  BY <1>1, <1>2 DEF TaskRow
<1>5. Still
  BY <1>1, <1>2 DEF Still, Quiet, budgets, TaskRow
<1>6. Returns' = Returns /\ Covered' = Covered /\ (AllReturned' <=> AllReturned)
  BY <1>5, StillIs
<1>7. VerdictFits'
  BY <1>3, <1>4, <1>6 DEF VerdictFits
<1>8. /\ \A k \in Handler : k # h => run'[k] = run[k]
      /\ run'[h].job = Fin /\ run'[h].ep = run[h].ep
      /\ run'[h].at = "end" /\ run'[h].out = "success"
  BY <1>1, <1>2 DEF RunRow
<1>9. Knows(h)'
  BY <1>1, <1>4, <1>8 DEF Knows, Planning, Gathered
<1> QED BY <1>1, <1>2, <1>5, <1>7, <1>8, <1>9, StillStep

LEMMA ThrowStep ==
  ASSUME CatalogInv, Types', NEW h \in Handler, FinalizeThrows(h)
  PROVE  CatalogInv'
<1>1. /\ run[h].at \in {"mark", "gather", "plan", "shell", "batch", "activate",
                        "supersede", "complete"}
      /\ Owns(h) /\ Step(h, "caught")
      /\ UNCHANGED <<rows, preview, manual, fresh, skipped, flags, scene, hangs, unbound, deploys>>
  BY DEF FinalizeThrows
<1>2. run[h].job = Fin
  <2>1. run[h].job \in Item
    BY DEF CatalogInv, Types, RunRow
  <2>2. run[h].job \notin Page
    BY <1>1 DEF CatalogInv, Leases, Works
  <2> QED BY <2>1, <2>2 DEF Item
<1>3. Finalizes(h) /\ run \in [Handler -> RunRow]
  BY <1>1, <1>2, AtIs
<1>4. /\ \A k \in Handler : k # h => run'[k] = run[k]
      /\ run'[h].job = Fin /\ run'[h].ep = run[h].ep /\ run'[h].at = "caught"
  BY <1>1, <1>2, <1>3, StepIs
<1>5. Still /\ task' = task
  BY <1>1 DEF Still, Quiet, rows
<1>6. Knows(h)'
  BY <1>4 DEF Knows, Planning, Gathered
<1> QED BY <1>1, <1>3, <1>4, <1>5, <1>6, StillStep

LEMMA CatchStep ==
  ASSUME CatalogInv, Types', NEW h \in Handler, CatchFinalize(h)
  PROVE  CatalogInv'
<1>1. /\ run[h].at = "caught" /\ run[h].job = Fin /\ Owns(h)
      /\ run' = [run EXCEPT ![h].at = "end", ![h].out = "retry"]
      /\ UNCHANGED <<item, res, gen, manual, fresh, skipped, flags, scene, hangs, unbound, deploys>>
      /\ \/ /\ item[Fin].att >= MaxAttempts
            /\ preview' = FailedShell(preview, gen) /\ task' = FailedTask(task, gen)
         \/ UNCHANGED <<preview, task>>
  BY DEF CatchFinalize, At
<1>2. /\ Finalizes(h) /\ run \in [Handler -> RunRow] /\ task \in TaskRow /\ gen \in Gen
      /\ preview \in [Gen -> PreviewRow]
  BY <1>1, AtIs
<1>3. /\ \A k \in Handler : k # h => run'[k] = run[k]
      /\ run'[h].job = Fin /\ run'[h].ep = run[h].ep
      /\ run'[h].at = "end" /\ run'[h].out = "retry"
  BY <1>1, <1>2 DEF RunRow
<1>4. Knows(h)'
  BY <1>3 DEF Knows, Planning, Gathered
<1>5. CASE UNCHANGED <<preview, task>>
  <2>1. Still /\ task' = task
    BY <1>1, <1>5 DEF Still, Quiet
  <2> QED BY <1>1, <1>2, <1>3, <1>4, <2>1, StillStep
<1>6. CASE /\ item[Fin].att >= MaxAttempts
           /\ preview' = FailedShell(preview, gen) /\ task' = FailedTask(task, gen)
  <2>1. /\ task'.st = task.st /\ task'.terminal = task.terminal /\ task'.want = task.want
        /\ task'.fin = "failed"
    BY <1>2, <1>6 DEF FailedTask, TaskRow
  <2>2. \A k \in Gen : \/ preview'[k] = preview[k]
                       \/ k = gen /\ preview[k].st = "building" /\ preview'[k].st = "failed"
    <3>0. preview' = FailedShell(preview, gen)
      BY <1>6
    <3>1. CASE preview[gen].st = "building"
      <4>1. preview' = [preview EXCEPT ![gen].st = "failed"]
        BY <3>0, <3>1 DEF FailedShell
      <4>2. preview'[gen].st = "failed"
        BY <1>2, <4>1 DEF PreviewRow
      <4>3. \A k \in Gen : k # gen => preview'[k] = preview[k]
        BY <1>2, <4>1
      <4> QED BY <3>1, <4>2, <4>3
    <3>2. CASE preview[gen].st # "building"
      <4>1. preview' = preview
        BY <3>0, <3>2 DEF FailedShell
      <4> QED BY <4>1
    <3> QED BY <3>1, <3>2
  <2>3. VerdictFits'
    BY <2>1 DEF VerdictFits
  <2>4. SamePages /\ Quiet
    BY <1>1 DEF SamePages, Quiet
  <2>5. Returns' = Returns
    BY <2>4, SameFacts
  <2>6. Covered \subseteq Covered'
    <3>1. \A g \in Gen : preview[g].st \in {"ready", "done"} => preview'[g] = preview[g]
      BY <2>2
    <3>2. preview'[gen].st \in {"ready", "done"} => preview[gen].st \in {"ready", "done"}
      BY <1>2, <2>2
    <3> QED BY <1>1, <3>1, <3>2, CoveredGrows
  <2>7. ShellFits
    BY <1>2, Finalizing
  <2>8. ShellFits'
    BY <1>1, <1>2, <2>2, <2>5, <2>6, <2>7 DEF ShellFits
  <2>9. \A k \in Gen : k # gen => preview'[k] = preview[k]
    BY <2>2
  <2> QED BY <1>1, <1>2, <1>3, <1>4, <1>6, <2>1, <2>3, <2>4, <2>8, <2>9, FinalizeStep
<1> QED BY <1>1, <1>5, <1>6

\* The finalize item leaves the state "processing".
LEMMA Ends ==
  ASSUME CatalogInv, NEW st \in {"pending", "success", "failed"}, item[Fin].st = "processing",
         \/ item' = [item EXCEPT ![Fin].st = st]
         \/ item' = [item EXCEPT ![Fin].st = st, ![Fin].exp = FALSE],
         res' = res
  PROVE  /\ SamePages /\ item'[Fin].st = st
         /\ \A i \in Item : item'[i].ep = item[i].ep
         /\ \A p \in Page : item'[p] = item[p]
<1>1. item \in [Item -> ItemRow] /\ Fin \in Item /\ Fin \notin Page /\ Page \subseteq Item
  BY PagesAre DEF CatalogInv, Types, Item, Fin
<1>2. /\ item'[Fin].st = st /\ item'[Fin].ep = item[Fin].ep
      /\ \A i \in Item : i # Fin => item'[i] = item[i]
  BY <1>1 DEF ItemRow
<1> QED BY <1>1, <1>2 DEF SamePages

LEMMA FinishStep ==
  ASSUME CatalogInv, Types', NEW h \in Handler, FinishFinalize(h)
  PROVE  CatalogInv'
<1> DEFINE out == run[h].out
           st == IF out = "success" THEN "success"
                 ELSE IF out = "retry" /\ item[Fin].att < MaxAttempts THEN "pending"
                 ELSE "failed"
<1>1. /\ run[h].at = "end" /\ run[h].job = Fin /\ Owns(h)
      /\ item' = [item EXCEPT ![Fin].st = st]
      /\ task' = Recomputed(item', res', task)
      /\ run' = [run EXCEPT ![h] = Idle]
      /\ UNCHANGED <<res, gen, preview, manual, fresh, skipped, flags, budgets>>
  BY DEF FinishFinalize, At
<1>2. Finalizes(h) /\ Knows(h) /\ run \in [Handler -> RunRow] /\ task \in TaskRow
  BY <1>1, AtIs
<1>3. st = "success" => task.fin = "completed" /\ task.fgen = gen
  BY <1>1, <1>2 DEF Knows
<1>4. preview[gen].st = "failed" => st = "failed"
  <2>1. preview[gen].st = "failed" => item[Fin].att >= MaxAttempts /\ out = "retry"
    BY <1>2, Finalizing
  <2>2. item[Fin].att \in Nat
    BY DEF CatalogInv, Types, ItemRow, Item, Fin
  <2> QED BY <2>1, <2>2, CatalogAssumption
<1>5. st \in {"pending", "success", "failed"}
  OBVIOUS
<1> HIDE DEF st, out
<1>6. item[Fin].st = "processing"
  BY <1>2, Finalizing
<1>7. /\ SamePages /\ item'[Fin].st = st
      /\ \A i \in Item : item'[i].ep = item[i].ep
      /\ \A p \in Page : item'[p] = item[p]
  BY <1>1, <1>5, <1>6, Ends
<1>8. Quiet /\ Drops /\ preview' = preview
  BY <1>1, <1>2 DEF Quiet, Drops, budgets
<1> QED BY <1>1, <1>2, <1>3, <1>4, <1>5, <1>6, <1>7, <1>8, FinalizeEnds

LEMMA FinishFails ==
  ASSUME CatalogInv, Types', NEW h \in Handler, run[h].job = Fin, FinishThrows(h)
  PROVE  CatalogInv'
<1> DEFINE st == IF item[Fin].att >= MaxAttempts THEN "failed" ELSE "pending"
<1>1. /\ run[h].at = "end" /\ run[h].job = Fin /\ Owns(h)
      /\ item' = [item EXCEPT ![Fin].st = st] /\ res' = res
      /\ task' = Recomputed(item', res', task)
      /\ run' = [run EXCEPT ![h] = Idle]
      /\ UNCHANGED <<gen, preview, manual, fresh, skipped, flags, scene, hangs, unbound, deploys>>
  BY DEF FinishThrows
<1>2. Finalizes(h) /\ run \in [Handler -> RunRow] /\ task \in TaskRow
  BY <1>1, AtIs
<1>4. preview[gen].st = "failed" => st = "failed"
  BY <1>2, Finalizing
<1>5. st \in {"pending", "failed"}
  OBVIOUS
<1> HIDE DEF st
<1>6. item[Fin].st = "processing"
  BY <1>2, Finalizing
<1>7. /\ SamePages /\ item'[Fin].st = st
      /\ \A i \in Item : item'[i].ep = item[i].ep
      /\ \A p \in Page : item'[p] = item[p]
  BY <1>1, <1>5, <1>6, Ends
<1>8. Quiet /\ Drops /\ preview' = preview
  BY <1>1, <1>2 DEF Quiet, Drops
<1> QED BY <1>1, <1>2, <1>4, <1>5, <1>6, <1>7, <1>8, FinalizeEnds

LEMMA FinRecovers ==
  ASSUME CatalogInv, Types', recoverExpiredItem(Fin)
  PROVE  CatalogInv'
<1> DEFINE last == item[Fin].att >= MaxAttempts
           st == IF last THEN "failed" ELSE "pending"
<1>1. /\ item[Fin].st = "processing"
      /\ item' = [item EXCEPT ![Fin].st = st, ![Fin].exp = FALSE] /\ res' = res
      /\ preview' = (IF last THEN FailedShell(preview, gen) ELSE preview)
      /\ task' = Recomputed(item', res', IF last THEN FailedTask(task, gen) ELSE task)
      /\ UNCHANGED <<gen, manual, fresh, skipped, flags, run, budgets>>
  BY DEF recoverExpiredItem
<1>2. task \in TaskRow /\ gen \in Gen
  BY DEF CatalogInv, Types
<1>3. PICK t \in TaskRow :
        /\ task' = Recomputed(item', res', t)
        /\ t.terminal = task.terminal /\ t.want = task.want
        /\ (t = task) \/ (t.fin = "failed" /\ last)
  <2>1. /\ FailedTask(task, gen) \in TaskRow /\ FailedTask(task, gen).terminal = task.terminal
        /\ FailedTask(task, gen).want = task.want /\ FailedTask(task, gen).fin = "failed"
    BY <1>2 DEF FailedTask, TaskRow
  <2>2. CASE last
    <3>1. task' = Recomputed(item', res', FailedTask(task, gen))
      BY <1>1, <2>2
    <3> QED BY <2>1, <2>2, <3>1
  <2>3. CASE ~last
    <3>1. task' = Recomputed(item', res', task)
      BY <1>1, <2>3
    <3> QED BY <1>2, <3>1
  <2> HIDE DEF last
  <2> QED BY <2>2, <2>3
<1>4. preview[gen].st = "failed" => last
  BY <1>1 DEF CatalogInv, Previews
<1>5. st \in {"pending", "failed"} /\ (last => st = "failed")
  OBVIOUS
<1> HIDE DEF st
<1>7. /\ SamePages /\ item'[Fin].st = st
      /\ \A i \in Item : item'[i].ep = item[i].ep
      /\ \A p \in Page : item'[p] = item[p]
  BY <1>1, <1>5, Ends
<1>8. Quiet /\ Drops
  BY <1>1 DEF Quiet, Drops, budgets
<1>9. \/ preview' = preview
      \/ preview' = FailedShell(preview, gen) /\ item'[Fin].st = "failed"
  BY <1>1, <1>5, <1>7
<1> QED BY <1>1, <1>3, <1>4, <1>5, <1>7, <1>8, <1>9, FinalizeEnds
-----------------------------------------------------------------------------
(* The invariant.                                                          *)

LEMMA InitCatalog == Init => CatalogInv
<1> SUFFICES ASSUME Init PROVE CatalogInv
  OBVIOUS
<1>1. /\ Fin \in Item /\ Fin \notin Page /\ Page \subseteq Item /\ Scheduled \in Page /\ 1 \in Gen
  BY PagesAre, CatalogAssumption DEF Item, Fin, Gen
<1>2. /\ item[Fin].st = "none" /\ item[Fin].ep = 0
      /\ \A p \in Page : item[p].st = "pending"
      /\ item \in [Item -> ItemRow]
  <2>1. [NewItem EXCEPT !.st = "none"] \in ItemRow /\ NewItem \in ItemRow
    BY DEF NewItem, ItemRow, ItemState, Open
  <2>2. item = [i \in Item |-> IF i = Fin THEN [NewItem EXCEPT !.st = "none"] ELSE NewItem]
    BY DEF Init
  <2> QED BY <1>1, <2>1, <2>2 DEF NewItem
<1>3. /\ task = [st |-> "pending", terminal |-> 0, why |-> "none", want |-> 0,
                fin |-> "none", fgen |-> 0, verdict |-> "none"]
      /\ gen = 1 /\ flags = TRUE /\ \A h \in Handler : run[h].at = "idle"
      /\ \A k \in Gen : preview[k].st = "none"
  BY DEF Init, Idle
<1>4. Types
  <2>1. res \in [Page -> ResultRow] /\ run \in [Handler -> RunRow]
    BY NoBooks, IdleIs DEF Init
  <2>2. task \in TaskRow
    BY <1>3 DEF TaskRow, Open
  <2>3. preview \in [Gen -> PreviewRow] /\ manual \in ManualRow
    BY DEF Init, PreviewRow, ManualRow
  <2> QED BY <1>1, <1>2, <2>1, <2>2, <2>3 DEF Init, Types
<1>5. Order
  BY <1>1, <1>2, <1>3 DEF Order, Open, Item, Fin
<1>6. Leases
  BY <1>3 DEF Leases, Works
<1>7. Evidence
  BY <1>2, <1>3 DEF Evidence, StopHasWitness
<1>8. Knowledge
  BY <1>3 DEF Knowledge, Finalizes, Works
<1>9. Verdict
  BY <1>3 DEF Verdict, CompletedMeansAll
<1>10. Previews
  BY <1>1, <1>3 DEF Previews
<1> QED BY <1>4, <1>5, <1>6, <1>7, <1>8, <1>9, <1>10 DEF CatalogInv

LEMMA WorkStep ==
  ASSUME CatalogInv, Types', NEW h \in Handler, Work(h) \/ FinishThrows(h) \/ FinalizeThrows(h)
  PROVE  CatalogInv'
<1>1. ASSUME NEW i \in Item, claimPendingItem(h, i) PROVE CatalogInv'
  BY <1>1, ClaimStep
<1>2. CASE FetchPage(h)
  BY <1>2, FetchStep
<1>3. CASE FinishPage(h)
  <2>1. run[h].job \in Item
    BY DEF CatalogInv, Types, RunRow
  <2>2. PICK p \in Item : p = run[h].job
    BY <2>1
  <2>3. p \in Page /\ \E along \in {"none", "success", "failed"} : PageEnds(p, along)
    BY <1>3, <2>2, Finishes
  <2>4. Drops
    BY <1>3 DEF FinishPage, Drops, CatalogInv, Types
  <2> QED BY <2>3, <2>4, PageEndStep
<1>4. CASE FinishThrows(h)
  <2>1. run[h].job \in Item
    BY DEF CatalogInv, Types, RunRow
  <2>2. CASE run[h].job = Fin
    BY <1>4, <2>2, FinishFails
  <2>3. CASE run[h].job # Fin
    <3>1. PICK p \in Page : run[h].job = p
      BY <2>1, <2>3 DEF Item
    <3>2. \E along \in {"none", "success", "failed"} : PageEnds(p, along)
      BY <1>4, <3>1, FailsOrRetries
    <3>3. Drops
      BY <1>4 DEF FinishThrows, Drops, CatalogInv, Types
    <3> QED BY <3>2, <3>3, PageEndStep
  <2> QED BY <2>2, <2>3
<1>5. CASE BeginFinalize(h)
  BY <1>5, BeginStep
<1>6. CASE MarkProcessing(h)
  BY <1>6, MarkStep
<1>7. CASE GatherPages(h)
  BY <1>7, GatherStep
<1>8. CASE PlanPreview(h)
  BY <1>8, PlanStep
<1>9. CASE CreateShell(h)
  BY <1>9, ShellCreated
<1>10. CASE StageBatch(h)
  BY <1>10, BatchStep
<1>11. CASE ActivatePreview(h)
  BY <1>11, ActivateStep
<1>12. CASE SupersedeShell(h)
  BY <1>12, SupersedeStep
<1>13. CASE CompleteFinalize(h)
  BY <1>13, CompleteStep
<1>14. CASE CatchFinalize(h)
  BY <1>14, CatchStep
<1>15. CASE FinishFinalize(h)
  BY <1>15, FinishStep
<1>16. CASE FinalizeThrows(h)
  BY <1>16, ThrowStep
<1>17. CASE LoseLease(h)
  <2>1. UNCHANGED <<item, res, gen, task, preview, manual, fresh, skipped, flags, scene, unbound, deploys>>
    BY <1>17 DEF LoseLease, rows, budgets
  <2>2. Drops
    BY <1>17 DEF LoseLease, Drops, CatalogInv, Types
  <2>3. \A i \in Item : item'[i].exp \/ ~item[i].exp
    BY <2>1 DEF CatalogInv, Types, ItemRow
  <2> QED BY <2>1, <2>2, <2>3, FrameStep
<1> QED BY <1>1, <1>2, <1>3, <1>4, <1>5, <1>6, <1>7, <1>8, <1>9, <1>10, <1>11, <1>12,
           <1>13, <1>14, <1>15, <1>16, <1>17 DEF Work

LEMMA CatalogStep == CatalogInv /\ [Next]_vars => CatalogInv'
<1> SUFFICES ASSUME CatalogInv, [Next]_vars PROVE CatalogInv'
  OBVIOUS
<1>1. Types'
  BY TypesStep DEF CatalogInv
<1>2. ASSUME NEW h \in Handler, Work(h) \/ FinishThrows(h) \/ FinalizeThrows(h)
      PROVE  CatalogInv'
  BY <1>1, <1>2, WorkStep
<1>3. ASSUME NEW i \in Item, Expire(i) PROVE CatalogInv'
  <2>1. /\ item' = [item EXCEPT ![i].exp = TRUE]
        /\ UNCHANGED <<res, gen, task, preview, manual, fresh, skipped, flags, run, scene, unbound, deploys>>
    BY <1>3 DEF Expire
  <2>2. \A j \in Item : /\ item'[j].st = item[j].st /\ item'[j].ep = item[j].ep
                        /\ item'[j].att = item[j].att /\ (item'[j].exp \/ ~item[j].exp)
    <3>1. item \in [Item -> ItemRow]
      BY DEF CatalogInv, Types
    <3> TAKE j \in Item
    <3>2. CASE j = i
      BY <2>1, <3>1, <3>2 DEF ItemRow
    <3>3. CASE j # i
      BY <2>1, <3>1, <3>3 DEF ItemRow
    <3> QED BY <3>2, <3>3
  <2>3. Drops
    BY <2>1 DEF Drops
  <2> QED BY <1>1, <2>1, <2>2, <2>3, FrameStep
<1>4. ASSUME NEW i \in Item, recoverExpiredItem(i) PROVE CatalogInv'
  <2>1. CASE i = Fin
    BY <1>1, <1>4, <2>1, FinRecovers
  <2>2. CASE i # Fin
    <3>1. i \in Page
      BY <2>2 DEF Item
    <3>2. \E along \in {"none", "success", "failed"} : PageEnds(i, along)
      BY <1>1, <1>4, <3>1, FailsOrRetries
    <3>3. Drops
      BY <1>4 DEF recoverExpiredItem, Drops
    <3> QED BY <1>1, <3>1, <3>2, <3>3, PageEndStep
  <2> QED BY <2>1, <2>2
<1>5. CASE Redeploy
  <2>1. /\ deploys' = deploys + 1 /\ flags' \in scene.flags
        /\ \A k \in Handler : run'[k] = Idle
        /\ UNCHANGED <<item, res, gen, task, preview, manual, fresh, skipped, scene, unbound>>
    BY <1>5 DEF Redeploy, rows
  <2>2. Drops /\ \A i \in Item : item'[i].exp \/ ~item[i].exp
    BY <2>1 DEF Drops, CatalogInv, Types, ItemRow
  <2> QED BY <1>1, <2>1, <2>2, FrameStep
<1>6. CASE retryFailedTask \/ retryCatalogFinalizeTask
  BY <1>1, <1>6, RetryStep
<1>7. CASE \/ ManualDone \/ (\E g \in Gen : PreviewDone(g))
           \/ \E scope \in scene.scopes : RequestPreview(scope)
  <2>1. UNCHANGED <<rows, flags, run, budgets>>
    BY <1>7 DEF ManualDone, PreviewDone, RequestPreview
  <2> QED BY <1>1, <1>7, <2>1, OutsideStep
<1>8. CASE UNCHANGED vars
  <2>1. UNCHANGED <<item, res, gen, task, preview, manual, fresh, skipped, flags, run, scene, unbound, deploys>>
    BY <1>8 DEF vars, rows, budgets
  <2>2. Drops /\ \A i \in Item : item'[i].exp \/ ~item[i].exp
    BY <2>1 DEF Drops, CatalogInv, Types, ItemRow
  <2> QED BY <1>1, <2>1, <2>2, FrameStep
<1> QED BY <1>2, <1>3, <1>4, <1>5, <1>6, <1>7, <1>8 DEF Next

\* The pages are settled in order, a finalization runs behind them under one
\* lease, what its handler knows of the rows stays true until its lease is
\* lost, and its verdict and its preview task say what the pages returned
\* (handlers/moboreader.ts, lib/tasks/store.ts).
THEOREM CatalogInvariant == Spec => []CatalogInv
<1> QED BY InitCatalog, CatalogStep, PTL DEF Spec

\* What a scan says of itself is true: "completed" follows only from the
\* verdict of the current generation, given after every page had succeeded
\* and returned what was expected; a scan that is over has been judged; and a
\* page is passed over only behind one that saw the end of the catalogue.
THEOREM VerdictsAreTrue == Spec => []VerdictTrue
<1>1. CatalogInv => VerdictTrue
  <2> SUFFICES ASSUME CatalogInv PROVE VerdictTrue
    OBVIOUS
  <2>1. TypeOK
    BY DEF CatalogInv, Types, Order, TypeOK, ItemRow, ItemState, ResultRow, TaskRow, PreviewRow
  <2>2. CompletedMeansAll /\ StopHasWitness
    BY DEF CatalogInv, Verdict, Evidence
  <2>3. EndedIsJudged
    <3> SUFFICES ASSUME task.st \notin Open
                 PROVE  \/ item[Fin].st \in {"success", "failed"}
                        \/ item[Scheduled].st = "failed" /\ res[Scheduled].why = "none"
      BY DEF EndedIsJudged
    <3>1. Fin \in Item /\ Scheduled \in Item
      BY PagesAre DEF Item, Fin
    <3>2. item[Fin].st \notin Open /\ item[Scheduled].st \notin Open /\ item[Fin].st \in ItemState
      BY <3>1 DEF CatalogInv, Order, Types, ItemRow
    <3>3. CASE item[Fin].st = "none"
      BY <3>2, <3>3 DEF CatalogInv, Order
    <3>4. CASE item[Fin].st # "none"
      BY <3>2, <3>4 DEF ItemState
    <3> QED BY <3>3, <3>4
  <2> QED BY <2>1, <2>2, <2>3 DEF VerdictTrue
<1> QED BY <1>1, CatalogInvariant, PTL

\* Once the finalization of a generation is complete, every book its pages
\* returned has a fresh preview or is in a preview task workers may claim.
THEOREM BooksAreCovered == Spec => []BooksCovered
<1>1. CatalogInv => BooksCovered
  <2> SUFFICES ASSUME CatalogInv, task.fin = "completed", task.fgen = gen
               PROVE  \A s \in Touched(Pages(item, {"success"})) :
                        \/ s \in fresh \cup skipped
                        \/ manual.st \in {"active", "done"} /\ s \in manual.scope
                        \/ \E g \in Gen : /\ preview[g].st \in {"ready", "done"}
                                          /\ s \in preview[g].items
                        \/ TurnedAway(s)
    BY DEF BooksCovered
  <2>1. Returns \subseteq Covered
    BY DEF CatalogInv, Verdict
  <2> QED BY <2>1 DEF Returns, Covered, Away
<1> QED BY <1>1, CatalogInvariant, PTL
-----------------------------------------------------------------------------
(* What no step does to a preview task and to the generations.             *)

\* A step leaves a preview task alone, finishes its refresh, or is the
\* finalization of this generation building its own.
Tended ==
  \A g \in Gen :
    \/ preview'[g] = preview[g]
    \/ /\ preview'[g].items = preview[g].items
       /\ preview[g].st = "ready" /\ preview'[g].st = "done"
    \/ g = gen /\ preview[g].st \in {"none", "building"}
Reopens == item[Fin].st \in {"success", "failed"} /\ item'[Fin].st = "pending"

LEMMA ShellTended ==
  ASSUME CatalogInv, NEW h \in Handler,
         CreateShell(h) \/ StageBatch(h) \/ ActivatePreview(h) \/ SupersedeShell(h)
           \/ CatchFinalize(h)
  PROVE  Tended
<1>1. /\ run[h].at \in {"shell", "batch", "activate", "supersede", "caught"}
      /\ run[h].job = Fin /\ Owns(h)
  BY DEF CreateShell, StageBatch, ActivatePreview, SupersedeShell, CatchFinalize, At
<1>2. Knows(h) /\ gen \in Gen /\ preview \in [Gen -> PreviewRow]
  BY <1>1, AtIs
<1>3. CASE CreateShell(h)
  <2>1. preview[gen].st = "none"
    BY <1>2, <1>3 DEF CreateShell, At, Knows
  <2>2. \A g \in Gen : g # gen => preview'[g] = preview[g]
    BY <1>2, <1>3 DEF CreateShell
  <2> QED BY <2>1, <2>2 DEF Tended
<1>4. CASE StageBatch(h)
  <2>1. preview[gen].st = "building"
    BY <1>2, <1>4 DEF StageBatch, At, Knows
  <2> DEFINE b == {s \in run[h].plan : s[1] = Min(run[h].left)}
  <2>2. preview' = [preview EXCEPT ![gen].items = @ \cup b]
    BY <1>4 DEF StageBatch
  <2> HIDE DEF b
  <2>3. \A g \in Gen : g # gen => preview'[g] = preview[g]
    BY <1>2, <2>2
  <2> QED BY <2>1, <2>3 DEF Tended
<1>5. CASE ActivatePreview(h)
  <2>1. preview[gen].st = "building"
    BY <1>2, <1>5 DEF ActivatePreview, At, Knows
  <2>2. \/ preview' = preview
        \/ preview' = [preview EXCEPT ![gen].st = "ready"]
    BY <1>5 DEF ActivatePreview
  <2>3. \A g \in Gen : g # gen => preview'[g] = preview[g]
    BY <1>2, <2>2
  <2> QED BY <2>1, <2>3 DEF Tended
<1>6. CASE SupersedeShell(h)
  <2>1. preview' = [preview EXCEPT ![gen].st = IF @ = "building" THEN "superseded" ELSE @]
    BY <1>6 DEF SupersedeShell
  <2>2. \A g \in Gen : g # gen => preview'[g] = preview[g]
    BY <1>2, <2>1
  <2>3. preview[gen].st # "building" => preview'[gen] = preview[gen]
    BY <1>2, <2>1 DEF PreviewRow
  <2> QED BY <2>2, <2>3 DEF Tended
<1>7. CASE CatchFinalize(h)
  <2>1. preview' = FailedShell(preview, gen) \/ preview' = preview
    BY <1>7 DEF CatchFinalize
  <2>2. \A g \in Gen : g # gen \/ preview[gen].st # "building" => preview'[g] = preview[g]
    BY <1>2, <2>1 DEF FailedShell
  <2> QED BY <2>2 DEF Tended
<1> QED BY <1>3, <1>4, <1>5, <1>6, <1>7

LEMMA PageKept ==
  ASSUME CatalogInv, NEW p \in Page, item[p].st = "processing" PROVE ~Reopens
<1>1. item[Fin].st \in {"none", "pending"}
  BY PageIsProcessing DEF CatalogInv
<1> QED BY <1>1 DEF Reopens

LEMMA WorkTends ==
  ASSUME CatalogInv, NEW h \in Handler, Work(h) \/ FinishThrows(h) \/ FinalizeThrows(h)
  PROVE  Tended /\ gen' = gen /\ ~Reopens
<1>0. run[h].job \in Item /\ item \in [Item -> ItemRow] /\ Fin \in Item
  BY DEF CatalogInv, Types, RunRow, Item, Fin
<1>1. ASSUME NEW i \in Item, claimPendingItem(h, i) PROVE Tended /\ gen' = gen /\ ~Reopens
  <2>1. gen' = gen /\ preview' = preview
    BY <1>1 DEF claimPendingItem
  <2>2. \/ item'[Fin].st = "processing"
        \/ item'[Fin] = item[Fin]
    BY <1>0, <1>1 DEF claimPendingItem
  <2> QED BY <2>1, <2>2 DEF Tended, Reopens
<1>2. CASE FinishPage(h) \/ FinishThrows(h)
  <2>1. gen' = gen /\ preview' = preview /\ item[run[h].job].st = "processing"
    BY <1>2 DEF FinishPage, FinishThrows, Owns
  <2>2. ~Reopens
    <3>1. CASE run[h].job = Fin
      BY <2>1, <3>1 DEF Reopens
    <3>2. CASE run[h].job # Fin
      BY <1>0, <2>1, <3>2, PageKept DEF Item
    <3> QED BY <3>1, <3>2
  <2> QED BY <2>1, <2>2 DEF Tended
<1>3. CASE FinishFinalize(h)
  <2>1. gen' = gen /\ preview' = preview /\ item[Fin].st = "processing"
    BY <1>3 DEF FinishFinalize, At, Owns
  <2> QED BY <2>1 DEF Tended, Reopens
<1>4. CASE CreateShell(h) \/ StageBatch(h) \/ ActivatePreview(h) \/ SupersedeShell(h)
           \/ CatchFinalize(h)
  <2>1. gen' = gen /\ item' = item
    BY <1>4 DEF CreateShell, StageBatch, ActivatePreview, SupersedeShell, CatchFinalize, rows
  <2> QED BY <1>4, <2>1, ShellTended DEF Reopens
<1>5. CASE FetchPage(h) \/ BeginFinalize(h) \/ MarkProcessing(h) \/ GatherPages(h)
           \/ PlanPreview(h) \/ CompleteFinalize(h) \/ LoseLease(h) \/ FinalizeThrows(h)
  <2>1. UNCHANGED <<item, gen, preview>>
    BY <1>5 DEF FetchPage, BeginFinalize, MarkProcessing, GatherPages, PlanPreview,
       CompleteFinalize, LoseLease, FinalizeThrows, rows
  <2> QED BY <2>1 DEF Tended, Reopens
<1> QED BY <1>1, <1>2, <1>3, <1>4, <1>5 DEF Work

LEMMA StepTends ==
  ASSUME CatalogInv, [Next]_vars
  PROVE  Tended /\ ((gen' = gen /\ ~Reopens) \/ gen' > gen)
<1>0. /\ item \in [Item -> ItemRow] /\ Fin \in Item /\ gen \in Gen
      /\ preview \in [Gen -> PreviewRow] /\ task.fgen \in {0} \cup Gen
  BY DEF CatalogInv, Types, TaskRow, Item, Fin
<1>1. ASSUME NEW h \in Handler, Work(h) \/ FinishThrows(h) \/ FinalizeThrows(h)
      PROVE  Tended /\ gen' = gen /\ ~Reopens
  BY <1>1, WorkTends
<1>2. ASSUME NEW i \in Item, Expire(i) PROVE Tended /\ gen' = gen /\ ~Reopens
  <2>1. gen' = gen /\ preview' = preview /\ item' = [item EXCEPT ![i].exp = TRUE]
    BY <1>2 DEF Expire
  <2>2. item'[Fin].st = item[Fin].st
    BY <1>0, <2>1 DEF ItemRow
  <2> QED BY <2>1, <2>2 DEF Tended, Reopens
<1>3. ASSUME NEW i \in Item, recoverExpiredItem(i) PROVE Tended /\ gen' = gen /\ ~Reopens
  <2>1. gen' = gen /\ item[i].st = "processing"
        /\ (preview' = preview \/ preview' = FailedShell(preview, gen))
    BY <1>3 DEF recoverExpiredItem
  <2>2. Tended
    <3>1. \A g \in Gen : g # gen \/ preview[gen].st # "building" => preview'[g] = preview[g]
      BY <1>0, <2>1 DEF FailedShell
    <3> QED BY <3>1 DEF Tended
  <2>3. ~Reopens
    <3>1. CASE i = Fin
      BY <2>1, <3>1 DEF Reopens
    <3>2. CASE i # Fin
      BY <2>1, <3>2, PageKept DEF Item
    <3> QED BY <3>1, <3>2
  <2> QED BY <2>1, <2>2, <2>3
<1>4. CASE retryFailedTask \/ retryCatalogFinalizeTask
  <2>1. preview' = preview /\ gen' = NextGen /\ NextGen <= MaxGen
    BY <1>4 DEF retryFailedTask, retryCatalogFinalizeTask, Rearm
  <2>2. gen' > gen
    BY <1>0, <2>1, NextGenIs
  <2> QED BY <2>1, <2>2 DEF Tended
<1>5. CASE Redeploy \/ ManualDone \/ (\E scope \in scene.scopes : RequestPreview(scope))
           \/ UNCHANGED vars
  <2>1. UNCHANGED <<item, gen, preview>>
    BY <1>5 DEF Redeploy, ManualDone, RequestPreview, vars, rows
  <2> QED BY <2>1 DEF Tended, Reopens
<1>6. ASSUME NEW g \in Gen, PreviewDone(g) PROVE Tended /\ gen' = gen /\ ~Reopens
  <2>1. /\ preview[g].st = "ready" /\ UNCHANGED <<item, gen>>
        /\ preview' = [preview EXCEPT ![g].st = "done"]
    BY <1>6 DEF PreviewDone, rows
  <2>2. /\ preview'[g].items = preview[g].items /\ preview'[g].st = "done"
        /\ \A k \in Gen : k # g => preview'[k] = preview[k]
    BY <1>0, <2>1 DEF PreviewRow
  <2> QED BY <2>1, <2>2 DEF Tended, Reopens
<1> QED BY <1>1, <1>2, <1>3, <1>4, <1>5, <1>6 DEF Next

\* A preview task that workers may claim is changed by nobody but them, one is
\* opened only for the current generation, and a finalization that ended is
\* opened again only under a new one (stageMoboreaderPreviewRefreshTask,
\* rearmCatalogFinalize).
THEOREM StagedAreKept == Spec => StagedOnce
<1> DEFINE Kept ==
      /\ \A g \in Gen : preview[g].st \in {"ready", "done"} =>
           /\ preview'[g].items = preview[g].items
           /\ preview'[g].st \in {"ready", "done"}
      /\ \A g \in Gen : preview'[g].st = "building" /\ preview[g].st = "none" =>
           g = gen /\ \A k \in Gen : k > g => preview[k].st = "none"
      /\ gen' >= gen
      /\ item[Fin].st \in {"success", "failed"} /\ item'[Fin].st = "pending" => gen' > gen
<1>1. CatalogInv /\ [Next]_vars => [Kept]_vars
  <2> SUFFICES ASSUME CatalogInv, [Next]_vars PROVE Kept
    OBVIOUS
  <2>1. Tended /\ ((gen' = gen /\ ~Reopens) \/ gen' > gen)
    BY StepTends
  <2>2. gen \in Nat /\ gen' \in Nat
    <3>1. gen \in Gen /\ gen' \in Gen
      BY TypesStep DEF CatalogInv, Types
    <3> QED BY <3>1, CatalogAssumption DEF Gen
  <2>3. gen' >= gen /\ (Reopens => gen' > gen)
    BY <2>1, <2>2
  <2>4. \A g \in Gen : preview[g].st \in {"ready", "done"} =>
          /\ preview'[g].items = preview[g].items
          /\ preview'[g].st \in {"ready", "done"}
    BY <2>1 DEF Tended
  <2>5. \A g \in Gen : preview'[g].st = "building" /\ preview[g].st = "none" => g = gen
    BY <2>1 DEF Tended
  <2>6. \A k \in Gen : k > gen => preview[k].st = "none"
    BY DEF CatalogInv, Previews
  <2> QED BY <2>3, <2>4, <2>5, <2>6 DEF Reopens
<1> QED BY <1>1, CatalogInvariant, PTL DEF Spec, StagedOnce
=============================================================================
