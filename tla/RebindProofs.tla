----------------------------- MODULE RebindProofs -----------------------------
(***************************************************************************)
(* Rebind batches for any batches, articles, novels, executions, editors   *)
(* and any number of mishaps: theorems about RebindBatch.                  *)
(*                                                                         *)
(* Every step is first summarized as what it does to the rows (Moved); the *)
(* records are then proved of these moves.  What an execution may rely on  *)
(* between its claim and its commit is Writing: nobody else can take the   *)
(* batch, because acquisition waits for the row its transaction holds.     *)
(***************************************************************************)
EXTENDS RebindBatch, FiniteSetTheorems, TLAPS

AuditRow == [before : Novel, after : Novel, action : {"rebind", "rollback"},
             batch : Batch \cup {NoBatch}]
BatchRow == [status : Terminal \cup {"none", "ready", "processing"},
             holder : Exec \cup {NoExec}, live : BOOLEAN,
             counts : [applied : Nat, skipped : Nat, failed : Nat]]
ItemRow == [status : ItemStatus, token : Exec \cup {NoExec},
            old : Novel \cup {NoNovel}]
Request == [at : ExecAt, batch : Batch \cup {NoBatch}, todo : SUBSET Article,
            cur : Article \cup {NoArticle}, locked : SUBSET Article,
            fresh : BOOLEAN]
Switch == [at : {"idle", "current", "guards", "write", "done"},
           article : Article \cup {NoArticle}, old : Novel \cup {NoNovel},
           to : Novel \cup {NoNovel}, action : {"rebind", "rollback"}]

RowTypes ==
  /\ novel \in [Article -> Novel]
  /\ audits \in [Article -> Seq(AuditRow)]
  /\ batch \in [Batch -> BatchRow]
  /\ item \in [Batch -> [Article -> ItemRow]]
  /\ \A t \in Batch :
       /\ batch[t].live => batch[t].holder # NoExec
       /\ batch[t].holder # NoExec => batch[t].status = "processing"

RequestTypes ==
  /\ preview \in [Batch -> [Article -> Novel \cup {NoNovel}]]
  /\ exec \in [Exec -> Request]
  /\ edit \in [Editor -> Switch]
  /\ asked \in Demands /\ mishaps \in 0..asked.mishaps

(* A request is about a batch and the articles its payload selects.        *)
Placed(e) ==
  /\ exec[e].at # "idle" =>
       exec[e].batch \in Batch /\ exec[e].todo \subseteq Selected(exec[e].batch)
  /\ exec[e].at \in {"process", "write", "mark"} =>
       exec[e].cur \in Selected(exec[e].batch)
  /\ exec[e].at \in {"locks", "create", "relock", "recreate"} =>
       \A a \in Selected(exec[e].batch) : preview[exec[e].batch][a] # NoNovel

\* From its fences to its commit, the batch and the item are its own.
Writing(e) ==
  LET t == exec[e].batch
  IN  exec[e].at = "write" =>
        /\ batch[t].status = "processing" /\ batch[t].holder = e
        /\ item[t][exec[e].cur].status = "processing"
        /\ item[t][exec[e].cur].token = e

Editing(x) ==
  /\ edit[x].at \in {"current", "guards", "write"} =>
       edit[x].article \in Article /\ edit[x].to \in Novel
  /\ edit[x].at \in {"guards", "write"} => edit[x].old \in Novel

Requests == /\ RequestTypes
            /\ \A e \in Exec : Placed(e) /\ Writing(e)
            /\ \A x \in Editor : Editing(x)

(* A batch has items for the articles it selects, from its creation on.    *)
ItemsPlaced ==
  \A t \in Batch, a \in Article :
    (item[t][a].status = "none") <=> (batch[t].status = "none"
                                        \/ a \notin Selected(t))

Mine(t, a) == {k \in DOMAIN audits[a] : audits[a][k].batch = t}
AuditedOnce ==
  \A t \in Batch, a \in Article :
    IF item[t][a].status = "applied" THEN \E k : Mine(t, a) = {k}
                                     ELSE Mine(t, a) = {}

Records == RowTypes /\ ItemsPlaced /\ AuditChain /\ AuditedOnce /\ TerminalAgrees

RebindInv == Requests /\ Records
-----------------------------------------------------------------------------
(* What a step may do to the rows.                                         *)
MovedCreate(t) ==
  /\ batch[t].status = "none"
  /\ batch' = [batch EXCEPT ![t].status = "ready"]
  /\ item' \in [Batch -> [Article -> ItemRow]]
  /\ \A u \in Batch \ {t} : item'[u] = item[u]
  /\ \A a \in Article :
       item'[t][a].status \in (IF a \in Selected(t) THEN {"pending", "skipped"}
                               ELSE {"none"})
  /\ UNCHANGED <<novel, audits>>

MovedHolder(t, h, live) ==
  /\ batch[t].status \in {"ready", "processing"}
  /\ batch' \in [Batch -> BatchRow]
  /\ batch'[t].status = "processing"
  /\ batch'[t].holder = h /\ batch'[t].live = live
  /\ \A u \in Batch \ {t} : batch'[u] = batch[u]
  /\ UNCHANGED <<novel, audits, item>>

MovedCounts(t) ==
  /\ batch[t].status = "processing"
  /\ batch' = [batch EXCEPT ![t].counts = Tally(t)]
  /\ UNCHANGED <<novel, audits, item>>

MovedClosed(t) ==
  /\ batch[t].status = "processing" /\ OpenItems(t) = {}
  /\ batch' = [batch EXCEPT ![t] = [NoRow EXCEPT !.status = Verdict(Tally(t)),
                                                 !.counts = Tally(t)]]
  /\ UNCHANGED <<novel, audits, item>>

ItemSet(t, a, s, e) ==
  /\ item' \in [Batch -> [Article -> ItemRow]]
  /\ item'[t][a] = [status |-> s, token |-> e, old |-> item[t][a].old]
  /\ \A b \in Article \ {a} : item'[t][b] = item[t][b]
  /\ \A u \in Batch \ {t} : item'[u] = item[u]

MovedItem(t, a, s, e) ==
  /\ batch[t].status = "processing" /\ batch[t].holder = e
  /\ item[t][a].status \in Open
  /\ s = "failed" => item[t][a].token = e
  /\ ItemSet(t, a, s, e)
  /\ UNCHANGED <<novel, audits, batch>>

MovedApplied(t, a, e) ==
  /\ batch[t].status = "processing" /\ batch[t].holder = e
  /\ item[t][a].status = "processing" /\ item[t][a].token = e
  /\ Swap(a, item[t][a].old, Target[t][a], "rebind", t)
  /\ ItemSet(t, a, "applied", e)
  /\ UNCHANGED batch

MovedEdit(a, old, to, action) ==
  /\ Swap(a, old, to, action, NoBatch)
  /\ UNCHANGED <<batch, item>>

Moved ==
  \/ UNCHANGED <<novel, audits, batch, item>>
  \/ \E t \in Batch : MovedCreate(t) \/ MovedCounts(t) \/ MovedClosed(t)
  \/ \E t \in Batch, h \in Exec \cup {NoExec}, live \in BOOLEAN :
       (live => h # NoExec) /\ MovedHolder(t, h, live)
  \/ \E t \in Batch, e \in Exec : \E a \in Selected(t) :
       \/ \E s \in {"processing", "failed"} : MovedItem(t, a, s, e)
       \/ MovedApplied(t, a, e)
  \/ \E a \in Article, old \in Novel, to \in Novel,
        action \in {"rebind", "rollback"} : MovedEdit(a, old, to, action)
-----------------------------------------------------------------------------
LEMMA SelectedArticles ==
  \A t \in Batch : /\ Selected(t) \subseteq Article /\ Selected(t) # {}
                   /\ \A a \in Selected(t) : Target[t][a] \in Novel
BY RebindAssumption DEF Selected

LEMMA TallyType ==
  ASSUME NEW t \in Batch
  PROVE  Tally(t) \in [applied : Nat, skipped : Nat, failed : Nat]
<1>1. \A s : Cardinality(HasStatus(t, s)) \in Nat
  <2> TAKE s
  <2>1. HasStatus(t, s) \subseteq Article
    BY DEF HasStatus
  <2> QED BY <2>1, RebindAssumption, FS_Subset, FS_CardinalityType
<1> QED BY <1>1 DEF Tally

LEMMA ItemIsSet ==
  ASSUME RowTypes, NEW t \in Batch, NEW a \in Article, NEW s \in ItemStatus,
         NEW e \in Exec,
         \/ item' = [item EXCEPT ![t][a] =
                       [status |-> s, token |-> e, old |-> item[t][a].old]]
         \/ item[t][a].token = e /\ item' = [item EXCEPT ![t][a].status = s]
  PROVE  ItemSet(t, a, s, e)
<1> DEFINE row == [status |-> s, token |-> e, old |-> item[t][a].old]
<1>1. item[t][a] \in ItemRow /\ item[t] \in [Article -> ItemRow]
  BY DEF RowTypes
<1>2. row \in ItemRow
  BY <1>1 DEF ItemRow
<1>3. CASE item' = [item EXCEPT ![t][a] = row]
  <2> HIDE DEF row
  <2>1. /\ item' \in [Batch -> [Article -> ItemRow]] /\ item'[t][a] = row
        /\ \A b \in Article \ {a} : item'[t][b] = item[t][b]
        /\ \A u \in Batch \ {t} : item'[u] = item[u]
    BY <1>2, <1>3 DEF RowTypes
  <2> QED BY <2>1 DEF ItemSet, row
<1>4. CASE item[t][a].token = e /\ item' = [item EXCEPT ![t][a].status = s]
  <2>1. item' = [item EXCEPT ![t][a].status = s]
    BY <1>4
  <2>2. /\ \A b \in Article \ {a} : item'[t][b] = item[t][b]
        /\ \A u \in Batch \ {t} : item'[u] = item[u]
    BY <2>1 DEF RowTypes
  <2>3. item'[t][a].status = s /\ item'[t][a].token = item[t][a].token
        /\ item'[t][a].old = item[t][a].old /\ item'[t][a] \in ItemRow
    BY <2>1, <1>1 DEF RowTypes, ItemRow
  <2>4. item' \in [Batch -> [Article -> ItemRow]]
    BY <2>1, <1>1 DEF RowTypes, ItemRow
  <2>5. item'[t][a] = row
    BY <1>4, <2>3 DEF ItemRow
  <2> QED BY <2>2, <2>4, <2>5 DEF ItemSet
<1> QED BY <1>3, <1>4

(* The batch and the items of an execution's own steps.                    *)
LEMMA StepMoves ==
  ASSUME Requests, Records, Next
  PROVE  Moved
<1> USE DEF Requests, Records
<1>1. ASSUME NEW e \in Exec, exec[e].at # "idle"
      PROVE  exec[e].batch \in Batch
  BY <1>1 DEF Placed
<1>2. ASSUME NEW e \in Exec, createBatchOnce(e) PROVE Moved
  <2> DEFINE t == exec[e].batch
  <2>1. t \in Batch /\ \A a \in Selected(t) : preview[t][a] # NoNovel
    BY <1>2 DEF createBatchOnce, Placed
  <2>2. CASE batch[t].status = "none"
    <3> DEFINE new == [a \in Article |->
         IF a \notin Selected(t) THEN NoItem
         ELSE [status |-> IF a \in exec[e].locked THEN "skipped" ELSE "pending",
               token |-> NoExec, old |-> preview[t][a]]]
    <3>1. item' = [item EXCEPT ![t] = new]
          /\ batch' = [batch EXCEPT ![t].status = "ready"]
      BY <1>2, <2>2 DEF createBatchOnce, Created
    <3>2. new \in [Article -> ItemRow]
      BY <2>1 DEF RequestTypes, ItemRow, NoItem, ItemStatus, Open
    <3>3. \A a \in Article : new[a].status \in
            (IF a \in Selected(t) THEN {"pending", "skipped"} ELSE {"none"})
      BY DEF NoItem
    <3> HIDE DEF new
    <3>4. /\ item' \in [Batch -> [Article -> ItemRow]] /\ item'[t] = new
          /\ \A u \in Batch \ {t} : item'[u] = item[u]
      BY <2>1, <3>1, <3>2 DEF RowTypes
    <3>5. UNCHANGED <<novel, audits>>
      BY <1>2 DEF createBatchOnce
    <3>6. MovedCreate(t)
      BY <2>2, <3>1, <3>3, <3>4, <3>5 DEF MovedCreate
    <3> QED BY <2>1, <3>6 DEF Moved
  <2>3. CASE batch[t].status # "none"
    BY <1>2, <2>3 DEF createBatchOnce, Moved
  <2> QED BY <2>2, <2>3
<1>3. ASSUME NEW e \in Exec, acquireRebindBatchLease(e) PROVE Moved
  <2> DEFINE t == exec[e].batch
  <2>1. t \in Batch
    BY <1>1, <1>3 DEF acquireRebindBatchLease
  <2>2. CASE Acquirable(t)
    <3>1. /\ batch' = [batch EXCEPT ![t] =
               [status |-> "processing", holder |-> e, live |-> TRUE,
                counts |-> batch[t].counts]]
          /\ UNCHANGED <<novel, audits, item>>
      BY <1>3, <2>2 DEF acquireRebindBatchLease
    <3>2. MovedHolder(t, e, TRUE)
      BY <2>1, <2>2, <3>1 DEF Acquirable, MovedHolder, RowTypes, BatchRow
    <3>3. e # NoExec
      BY RebindAssumption
    <3> QED BY <2>1, <3>2, <3>3 DEF Moved
  <2>3. CASE ~Acquirable(t)
    BY <1>3, <2>3 DEF acquireRebindBatchLease, Moved
  <2> QED BY <2>2, <2>3
<1>4. ASSUME NEW e \in Exec, claimRebindBatchItem(e) PROVE Moved
  <2> DEFINE t == exec[e].batch
  <2>1. t \in Batch /\ exec[e].todo \subseteq Selected(t)
    BY <1>4 DEF claimRebindBatchItem, Placed
  <2>2. PICK a \in exec[e].todo :
           IF ~FenceHolds(e)
           THEN UNCHANGED item
           ELSE IF item[t][a].status \in Open
           THEN item' = [item EXCEPT ![t][a] =
                  [status |-> "processing", token |-> e,
                   old |-> item[t][a].old]]
           ELSE UNCHANGED item
    BY <1>4 DEF claimRebindBatchItem
  <2>3. UNCHANGED <<novel, audits, batch>>
    BY <1>4 DEF claimRebindBatchItem
  <2>4. CASE item' = item
    BY <2>3, <2>4 DEF Moved
  <2>5. CASE item' # item
    <3>1. /\ FenceHolds(e) /\ item[t][a].status \in Open
          /\ item' = [item EXCEPT ![t][a] =
               [status |-> "processing", token |-> e, old |-> item[t][a].old]]
      BY <2>2, <2>5
    <3>2. a \in Article /\ "processing" \in ItemStatus
      BY <2>1, SelectedArticles DEF ItemStatus, Open
    <3>3. ItemSet(t, a, "processing", e)
      BY <2>1, <3>1, <3>2, ItemIsSet
    <3>4. MovedItem(t, a, "processing", e)
      BY <2>3, <3>1, <3>3 DEF MovedItem, FenceHolds
    <3> QED BY <2>1, <3>4 DEF Moved
  <2> QED BY <2>4, <2>5
<1>5. ASSUME NEW e \in Exec, CommitItem(e) PROVE Moved
  <2> DEFINE t == exec[e].batch
             a == exec[e].cur
  <2>1. t \in Batch /\ a \in Selected(t) /\ a \in Article
    BY <1>5, SelectedArticles DEF CommitItem, Placed
  <2>2. /\ batch[t].status = "processing" /\ batch[t].holder = e
        /\ item[t][a].status = "processing" /\ item[t][a].token = e
    BY <1>5 DEF CommitItem, Writing
  <2>3. /\ Swap(a, item[t][a].old, Target[t][a], "rebind", t)
        /\ UNCHANGED batch
    BY <1>5 DEF CommitItem
  <2>4. item' = [item EXCEPT ![t][a].status = "applied"]
    BY <1>5 DEF CommitItem
  <2>5. ItemSet(t, a, "applied", e)
    BY <2>1, <2>2, <2>4, ItemIsSet DEF ItemStatus
  <2>6. MovedApplied(t, a, e)
    BY <2>2, <2>3, <2>5 DEF MovedApplied
  <2> QED BY <2>1, <2>6 DEF Moved
<1>6. ASSUME NEW e \in Exec, markItemError(e) PROVE Moved
  <2> DEFINE t == exec[e].batch
             a == exec[e].cur
  <2>1. t \in Batch /\ a \in Selected(t) /\ a \in Article
    BY <1>6, SelectedArticles DEF markItemError, Placed
  <2>2. CASE FenceHolds(e) /\ ItemFenceHolds(e)
    <3>1. /\ item' = [item EXCEPT ![t][a].status = "failed"]
          /\ UNCHANGED <<novel, audits, batch>>
          /\ item[t][a].token = e /\ item[t][a].status = "processing"
      BY <1>6, <2>2 DEF markItemError, ItemFenceHolds
    <3>2. ItemSet(t, a, "failed", e)
      BY <2>1, <3>1, ItemIsSet DEF ItemStatus
    <3>3. MovedItem(t, a, "failed", e)
      BY <2>2, <3>1, <3>2 DEF MovedItem, FenceHolds, Open
    <3> QED BY <2>1, <3>3 DEF Moved
  <2>3. CASE ~(FenceHolds(e) /\ ItemFenceHolds(e))
    BY <1>6, <2>3 DEF markItemError, Moved
  <2> QED BY <2>2, <2>3
<1>7. ASSUME NEW e \in Exec, finalizeRebindBatch(e) PROVE Moved
  <2> DEFINE t == exec[e].batch
  <2>1. t \in Batch /\ UNCHANGED <<novel, audits, item>>
    BY <1>1, <1>7 DEF finalizeRebindBatch
  <2>2. CASE ~FenceHolds(e)
    BY <1>7, <2>1, <2>2 DEF finalizeRebindBatch, Moved
  <2>3. CASE FenceHolds(e) /\ OpenItems(t) # {}
    <3>1. MovedCounts(t)
      BY <1>7, <2>1, <2>3 DEF finalizeRebindBatch, FenceHolds, MovedCounts
    <3> QED BY <2>1, <3>1 DEF Moved
  <2>4. CASE FenceHolds(e) /\ OpenItems(t) = {}
    <3>1. MovedClosed(t)
      BY <1>7, <2>1, <2>4 DEF finalizeRebindBatch, FenceHolds, MovedClosed
    <3> QED BY <2>1, <3>1 DEF Moved
  <2> QED BY <2>2, <2>3, <2>4
<1>8. ASSUME NEW e \in Exec, releaseRebindBatchLease(e) PROVE Moved
  <2> DEFINE t == exec[e].batch
  <2>1. t \in Batch /\ UNCHANGED <<novel, audits, item>>
    BY <1>1, <1>8 DEF releaseRebindBatchLease
  <2>2. CASE batch[t].status = "processing" /\ batch[t].holder = e
    <3>1. batch' = [batch EXCEPT ![t] =
               [status |-> "processing", holder |-> NoExec, live |-> FALSE,
                counts |-> batch[t].counts]]
      BY <1>8, <2>2 DEF releaseRebindBatchLease
    <3>2. /\ batch' \in [Batch -> BatchRow] /\ batch'[t].holder = NoExec
          /\ batch'[t].live = FALSE /\ batch'[t].status = "processing"
          /\ \A u \in Batch \ {t} : batch'[u] = batch[u]
      BY <2>1, <3>1 DEF RowTypes, BatchRow
    <3>3. MovedHolder(t, NoExec, FALSE)
      BY <2>1, <2>2, <3>2 DEF MovedHolder
    <3> QED BY <2>1, <3>3 DEF Moved
  <2>3. CASE ~(batch[t].status = "processing" /\ batch[t].holder = e)
    BY <1>8, <2>1, <2>3 DEF releaseRebindBatchLease, Moved
  <2> QED BY <2>2, <2>3
<1>9. ASSUME NEW t \in Batch, LeaseExpires(t) PROVE Moved
  <2>1. batch' = [batch EXCEPT ![t].live = FALSE]
    BY <1>9 DEF LeaseExpires
  <2>2. /\ batch' \in [Batch -> BatchRow] /\ batch'[t].holder = batch[t].holder
        /\ batch'[t].live = FALSE /\ batch'[t].status = batch[t].status
        /\ \A u \in Batch \ {t} : batch'[u] = batch[u]
    BY <2>1 DEF RowTypes, BatchRow
  <2>3. /\ UNCHANGED <<novel, audits, item>>
        /\ batch[t].status = "processing"
        /\ batch[t].holder \in Exec \cup {NoExec}
    BY <1>9 DEF LeaseExpires, RowTypes, BatchRow
  <2>4. MovedHolder(t, batch[t].holder, FALSE)
    BY <2>2, <2>3 DEF MovedHolder
  <2> QED BY <2>3, <2>4 DEF Moved
<1>10. ASSUME NEW x \in Editor, EndSwitch(x) PROVE Moved
  <2> DEFINE s == edit[x]
  <2>1. /\ s.article \in Article /\ s.old \in Novel /\ s.to \in Novel
        /\ s.action \in {"rebind", "rollback"}
        /\ UNCHANGED <<batch, item>>
    BY <1>10 DEF EndSwitch, Editing, RequestTypes, Switch
  <2>2. CASE UNCHANGED <<novel, audits>>
    BY <2>1, <2>2 DEF Moved
  <2>3. CASE Swap(s.article, s.old, s.to, s.action, NoBatch)
    <3>1. MovedEdit(s.article, s.old, s.to, s.action)
      BY <2>1, <2>3 DEF MovedEdit
    <3> QED BY <2>1, <3>1 DEF Moved
  <2> QED BY <1>10, <2>2, <2>3 DEF EndSwitch
<1>11. asked.editors \subseteq Editor
  BY RebindAssumption DEF RequestTypes
<1>12. CASE UNCHANGED <<novel, audits, batch, item>>
  BY <1>12 DEF Moved
<1> QED
  BY <1>2, <1>3, <1>4, <1>5, <1>6, <1>7, <1>8, <1>9, <1>10, <1>11, <1>12
     DEF Next, Run, Edit, rows, buildRebindBatchPreview, Submit, Resume,
         activeArticleLocks, LoadItems, LoopEnds, BeginItem, AbortItem,
         CreateFails, Interrupt, BeginSwitch, ReadLastRebind, ReadCurrent,
         RollbackGuards
-----------------------------------------------------------------------------
(* What a move does to the records of one batch.                           *)
LEMMA SwapMoves ==
  ASSUME RowTypes, NEW a \in Article, NEW old \in Novel, NEW to \in Novel,
         NEW action \in {"rebind", "rollback"}, NEW t \in Batch \cup {NoBatch},
         Swap(a, old, to, action, t)
  PROVE  LET r == [before |-> old, after |-> to, action |-> action, batch |-> t]
         IN  /\ novel' \in [Article -> Novel] /\ novel[a] = old /\ novel'[a] = to
             /\ \A b \in Article \ {a} : novel'[b] = novel[b]
             /\ audits' \in [Article -> Seq(AuditRow)]
             /\ audits'[a] = Append(audits[a], r)
             /\ \A b \in Article \ {a} : audits'[b] = audits[b]
<1> DEFINE r == [before |-> old, after |-> to, action |-> action, batch |-> t]
<1>1. r \in AuditRow
  BY DEF AuditRow
<1>2. /\ novel[a] = old /\ novel' = [novel EXCEPT ![a] = to]
      /\ audits' = [audits EXCEPT ![a] = Append(audits[a], r)]
  BY DEF Swap
<1> HIDE DEF r
<1>3. Append(audits[a], r) \in Seq(AuditRow)
  BY <1>1 DEF RowTypes
<1>4. audits' \in [Article -> Seq(AuditRow)] /\ audits'[a] = Append(audits[a], r)
      /\ \A b \in Article \ {a} : audits'[b] = audits[b]
  BY <1>2, <1>3 DEF RowTypes
<1>5. novel' \in [Article -> Novel] /\ novel'[a] = to
      /\ \A b \in Article \ {a} : novel'[b] = novel[b]
  BY <1>2 DEF RowTypes
<1> QED BY <1>2, <1>4, <1>5 DEF r

LEMMA RowTypesKept ==
  ASSUME RowTypes, Moved
  PROVE  RowTypes'
<1>1. CASE UNCHANGED <<novel, audits, batch, item>>
  BY <1>1 DEF RowTypes
<1>2. ASSUME NEW t \in Batch, MovedCreate(t) PROVE RowTypes'
  <2>1. batch' = [batch EXCEPT ![t].status = "ready"] /\ batch[t].status = "none"
    BY <1>2 DEF MovedCreate
  <2>2. /\ batch' \in [Batch -> BatchRow] /\ batch'[t].holder = batch[t].holder
        /\ batch'[t].live = batch[t].live
        /\ \A u \in Batch \ {t} : batch'[u] = batch[u]
    BY <2>1 DEF RowTypes, BatchRow
  <2>3. item' \in [Batch -> [Article -> ItemRow]] /\ UNCHANGED <<novel, audits>>
    BY <1>2 DEF MovedCreate
  <2>4. batch[t].status = "none"
    BY <2>1
  <2> QED BY <2>2, <2>3, <2>4 DEF RowTypes
<1>3. ASSUME NEW t \in Batch, MovedCounts(t) PROVE RowTypes'
  <2> DEFINE n == Tally(t)
  <2>1. n \in [applied : Nat, skipped : Nat, failed : Nat]
    BY TallyType
  <2>2. batch' = [batch EXCEPT ![t].counts = n]
    BY <1>3 DEF MovedCounts
  <2> HIDE DEF n
  <2>3. /\ batch' \in [Batch -> BatchRow] /\ batch'[t].holder = batch[t].holder
        /\ batch'[t].live = batch[t].live /\ batch'[t].status = batch[t].status
        /\ \A u \in Batch \ {t} : batch'[u] = batch[u]
    BY <2>1, <2>2 DEF RowTypes, BatchRow
  <2>4. UNCHANGED <<novel, audits, item>>
    BY <1>3 DEF MovedCounts
  <2> QED BY <2>3, <2>4 DEF RowTypes
<1>4. ASSUME NEW t \in Batch, MovedClosed(t) PROVE RowTypes'
  <2> DEFINE n == Tally(t)
             row == [NoRow EXCEPT !.status = Verdict(n), !.counts = n]
  <2>1. n \in [applied : Nat, skipped : Nat, failed : Nat]
    BY TallyType
  <2>2. Verdict(n) \in Terminal
    BY DEF Verdict, Terminal
  <2> HIDE DEF n
  <2>3. row \in BatchRow /\ row.holder = NoExec /\ row.live = FALSE
    BY <2>1, <2>2 DEF NoRow, BatchRow
  <2>4. batch' = [batch EXCEPT ![t] = row] /\ UNCHANGED <<novel, audits, item>>
    BY <1>4 DEF MovedClosed, n
  <2> HIDE DEF row
  <2> QED BY <2>3, <2>4 DEF RowTypes
<1>5. ASSUME NEW t \in Batch, NEW h \in Exec \cup {NoExec}, NEW live \in BOOLEAN,
             live => h # NoExec, MovedHolder(t, h, live)
      PROVE  RowTypes'
  BY <1>5 DEF MovedHolder, RowTypes
<1>6. ASSUME NEW t \in Batch, NEW e \in Exec, NEW a \in Selected(t),
             NEW st \in {"processing", "failed"}, MovedItem(t, a, st, e)
      PROVE  RowTypes'
  BY <1>6 DEF MovedItem, ItemSet, RowTypes
<1>7. ASSUME NEW t \in Batch, NEW e \in Exec, NEW a \in Selected(t),
             MovedApplied(t, a, e)
      PROVE  RowTypes'
  <2>1. a \in Article /\ Target[t][a] \in Novel
    BY SelectedArticles
  <2>2. item' \in [Batch -> [Article -> ItemRow]]
    BY <1>7 DEF MovedApplied, ItemSet
  <2>3. item[t][a].old = novel[a] /\ novel[a] \in Novel
    BY <1>7, <2>1 DEF MovedApplied, Swap, RowTypes
  <2>4. novel' \in [Article -> Novel] /\ audits' \in [Article -> Seq(AuditRow)]
    BY <1>7, <2>1, <2>3, SwapMoves DEF MovedApplied
  <2> QED BY <1>7, <2>2, <2>4 DEF MovedApplied, RowTypes
<1>8. ASSUME NEW a \in Article, NEW old \in Novel, NEW to \in Novel,
             NEW action \in {"rebind", "rollback"}, MovedEdit(a, old, to, action)
      PROVE  RowTypes'
  <2>1. novel' \in [Article -> Novel] /\ audits' \in [Article -> Seq(AuditRow)]
    BY <1>8, SwapMoves DEF MovedEdit
  <2> QED BY <1>8, <2>1 DEF MovedEdit, RowTypes
<1> QED BY <1>1, <1>2, <1>3, <1>4, <1>5, <1>6, <1>7, <1>8 DEF Moved

(* The items of a batch change while it is being processed; the batch is   *)
(* finished only when none is open.                                        *)
LEMMA BatchMoves ==
  ASSUME Records, Moved, NEW t \in Batch
  PROVE  \/ batch'[t] = batch[t] /\ item'[t] = item[t]
         \/ MovedCreate(t)
         \/ /\ batch[t].status \in {"ready", "processing"}
            /\ batch'[t].status = "processing" /\ item'[t] = item[t]
         \/ /\ MovedClosed(t) /\ item'[t] = item[t]
            /\ batch'[t].status \in Terminal
            /\ batch'[t].status = Verdict(Tally(t))
            /\ batch'[t].counts = Tally(t) /\ batch'[t].holder = NoExec
         \/ /\ batch[t].status = "processing" /\ batch'[t] = batch[t]
            /\ \E a \in Selected(t), st \in {"processing", "failed", "applied"} :
                 /\ a \in Article /\ item[t][a].status \in Open
                 /\ item'[t][a].status = st
                 /\ \A b \in Article \ {a} : item'[t][b] = item[t][b]
                 /\ st = "applied" =>
                      \E e \in Exec : MovedApplied(t, a, e)
                 /\ st # "applied" => UNCHANGED <<novel, audits>>
<1> USE DEF Records
<1>1. CASE UNCHANGED <<novel, audits, batch, item>>
  BY <1>1
<1>2. ASSUME NEW u \in Batch, MovedCreate(u)
      PROVE  (batch'[t] = batch[t] /\ item'[t] = item[t]) \/ MovedCreate(t)
  BY <1>2 DEF MovedCreate, RowTypes
<1>3. ASSUME NEW u \in Batch, MovedCounts(u)
      PROVE  \/ batch'[t] = batch[t] /\ item'[t] = item[t]
             \/ /\ batch[t].status \in {"ready", "processing"}
                /\ batch'[t].status = "processing" /\ item'[t] = item[t]
  BY <1>3 DEF MovedCounts, RowTypes, BatchRow
<1>4. ASSUME NEW u \in Batch, MovedClosed(u)
      PROVE  \/ batch'[t] = batch[t] /\ item'[t] = item[t]
             \/ /\ MovedClosed(t) /\ item'[t] = item[t]
                /\ batch'[t].status \in Terminal
                /\ batch'[t].status = Verdict(Tally(t))
                /\ batch'[t].counts = Tally(t) /\ batch'[t].holder = NoExec
  <2>1. CASE u # t
    BY <1>4, <2>1 DEF MovedClosed, RowTypes
  <2>2. CASE u = t
    <3> DEFINE n == Tally(t)
               row == [NoRow EXCEPT !.status = Verdict(n), !.counts = n]
    <3>1. batch' = [batch EXCEPT ![t] = row] /\ item' = item
      BY <1>4, <2>2 DEF MovedClosed
    <3>2. Verdict(n) \in Terminal
      BY DEF Verdict, Terminal
    <3> HIDE DEF n
    <3>3. row.status = Verdict(n) /\ row.counts = n /\ row.holder = NoExec
      BY DEF NoRow
    <3> HIDE DEF row
    <3>4. batch'[t] = row
      BY <3>1 DEF RowTypes
    <3> QED BY <1>4, <2>2, <3>1, <3>2, <3>3, <3>4 DEF n
  <2> QED BY <2>1, <2>2
<1>5. ASSUME NEW u \in Batch, NEW h \in Exec \cup {NoExec}, NEW live \in BOOLEAN,
             MovedHolder(u, h, live)
      PROVE  \/ batch'[t] = batch[t] /\ item'[t] = item[t]
             \/ /\ batch[t].status \in {"ready", "processing"}
                /\ batch'[t].status = "processing" /\ item'[t] = item[t]
  BY <1>5 DEF MovedHolder, RowTypes, BatchRow
<1>6. ASSUME NEW u \in Batch, NEW e \in Exec, NEW a \in Selected(u),
             NEW st \in {"processing", "failed"}, MovedItem(u, a, st, e)
      PROVE  \/ batch'[t] = batch[t] /\ item'[t] = item[t]
             \/ /\ batch[t].status = "processing" /\ batch'[t] = batch[t]
                /\ a \in Selected(t) /\ a \in Article
                /\ item[t][a].status \in Open
                /\ item'[t][a].status = st /\ UNCHANGED <<novel, audits>>
                /\ \A b \in Article \ {a} : item'[t][b] = item[t][b]
  <2>1. a \in Article
    BY SelectedArticles
  <2> QED BY <1>6, <2>1 DEF MovedItem, ItemSet
<1>7. ASSUME NEW u \in Batch, NEW e \in Exec, NEW a \in Selected(u),
             MovedApplied(u, a, e)
      PROVE  \/ batch'[t] = batch[t] /\ item'[t] = item[t]
             \/ /\ batch[t].status = "processing" /\ batch'[t] = batch[t]
                /\ a \in Selected(t) /\ a \in Article
                /\ item[t][a].status \in Open /\ MovedApplied(t, a, e)
                /\ item'[t][a].status = "applied"
                /\ \A b \in Article \ {a} : item'[t][b] = item[t][b]
  <2>1. a \in Article
    BY SelectedArticles
  <2>2. CASE u = t
    <3>1. /\ batch' = batch /\ item'[t][a].status = "applied"
          /\ batch[t].status = "processing" /\ item[t][a].status \in Open
          /\ \A b \in Article \ {a} : item'[t][b] = item[t][b]
      BY <1>7, <2>2 DEF MovedApplied, ItemSet, Open
    <3> QED BY <1>7, <2>1, <2>2, <3>1
  <2>3. CASE u # t
    BY <1>7, <2>3 DEF MovedApplied, ItemSet
  <2> QED BY <2>2, <2>3
<1>8. ASSUME NEW a \in Article, NEW old, NEW to, NEW action,
             MovedEdit(a, old, to, action)
      PROVE  batch'[t] = batch[t] /\ item'[t] = item[t]
  BY <1>8 DEF MovedEdit
<1> QED BY <1>1, <1>2, <1>3, <1>4, <1>5, <1>6, <1>7, <1>8 DEF Moved

(* The audit rows of an article after one more.                            *)
LEMMA MineGrows ==
  ASSUME RowTypes, NEW a \in Article, NEW r \in AuditRow,
         audits'[a] = Append(audits[a], r), NEW t \in Batch
  PROVE  Mine(t, a)' = IF r.batch = t THEN Mine(t, a) \cup {Len(audits[a]) + 1}
                                      ELSE Mine(t, a)
<1> DEFINE h == audits[a]
<1>1. h \in Seq(AuditRow) /\ Len(h) \in Nat
  BY DEF RowTypes
<1>2. /\ DOMAIN audits'[a] = 1..(Len(h) + 1) /\ DOMAIN h = 1..Len(h)
      /\ audits'[a][Len(h) + 1] = r
      /\ \A k \in 1..Len(h) : audits'[a][k] = h[k]
  BY <1>1
<1>3. \A k \in 1..(Len(h) + 1) : k \in 1..Len(h) \/ k = Len(h) + 1
  BY <1>1
<1>4. 1..Len(h) \subseteq 1..(Len(h) + 1) /\ Len(h) + 1 \in 1..(Len(h) + 1)
      /\ Len(h) + 1 \notin 1..Len(h)
  BY <1>1
<1>5. Mine(t, a)' = {k \in 1..(Len(h) + 1) : audits'[a][k].batch = t}
      /\ Mine(t, a) = {k \in 1..Len(h) : h[k].batch = t}
  BY <1>2 DEF Mine
<1>6. \A k : k \in Mine(t, a)' <=>
        k \in Mine(t, a) \/ (k = Len(h) + 1 /\ r.batch = t)
  BY <1>2, <1>3, <1>4, <1>5
<1> QED BY <1>6

LEMMA ChainGrows ==
  ASSUME RowTypes, AuditChain, NEW a \in Article, NEW old \in Novel,
         NEW to \in Novel, NEW action \in {"rebind", "rollback"},
         NEW t \in Batch \cup {NoBatch}, Swap(a, old, to, action, t)
  PROVE  AuditChain'
<1> DEFINE r == [before |-> old, after |-> to, action |-> action, batch |-> t]
           h == audits[a]
<1>1. /\ novel[a] = old /\ novel'[a] = to
      /\ \A b \in Article \ {a} : novel'[b] = novel[b]
      /\ audits'[a] = Append(h, r)
      /\ \A b \in Article \ {a} : audits'[b] = audits[b]
  BY SwapMoves
<1>2. h \in Seq(AuditRow) /\ Len(h) \in Nat /\ r.before = old /\ r.after = to
  BY DEF RowTypes
<1> HIDE DEF r
<1>3. /\ audits'[a] # <<>> /\ Len(audits'[a]) = Len(h) + 1
      /\ audits'[a][Len(h) + 1] = r
      /\ \A k \in 1..Len(h) : audits'[a][k] = h[k]
  BY <1>1, <1>2
<1> DEFINE Chained(g, b, n) ==
             IF g = <<>> THEN n = Bound0[b]
             ELSE /\ g[1].before = Bound0[b]
                  /\ g[Len(g)].after = n
                  /\ \A k \in 2..Len(g) : g[k].before = g[k - 1].after
<1>4. \A b \in Article : Chained(audits[b], b, novel[b])
  BY DEF AuditChain
<1>5. ASSUME Chained(audits'[a], a, novel'[a])
      PROVE  \A b \in Article : Chained(audits'[b], b, novel'[b])
  <2> HIDE DEF Chained
  <2> QED BY <1>1, <1>4, <1>5
<1>6. Chained(audits'[a], a, novel'[a]) => AuditChain'
  <2> SUFFICES ASSUME Chained(audits'[a], a, novel'[a]) PROVE AuditChain'
    OBVIOUS
  <2>1. \A b \in Article : Chained(audits'[b], b, novel'[b])
    BY <1>5
  <2> QED BY <2>1 DEF AuditChain
<1>7. CASE h = <<>>
  <2>1. Len(h) = 0 /\ novel[a] = Bound0[a]
    BY <1>7 DEF AuditChain
  <2>2. audits'[a][1].before = Bound0[a] /\ audits'[a][1].after = to
        /\ Len(audits'[a]) = 1
    BY <1>1, <1>2, <1>3, <2>1
  <2>3. 2..1 = {}
    OBVIOUS
  <2>4. Chained(audits'[a], a, novel'[a])
    BY <1>1, <1>3, <2>2, <2>3
  <2> QED BY <1>6, <2>4
<1>8. CASE h # <<>>
  <2>1. /\ h[1].before = Bound0[a] /\ h[Len(h)].after = old
        /\ \A k \in 2..Len(h) : h[k].before = h[k - 1].after
        /\ Len(h) >= 1
    BY <1>1, <1>2, <1>8 DEF AuditChain
  <2>2. audits'[a][1].before = Bound0[a]
        /\ audits'[a][Len(audits'[a])].after = novel'[a]
    BY <1>1, <1>2, <1>3, <2>1
  <2>3. ASSUME NEW k \in 2..Len(audits'[a])
        PROVE  audits'[a][k].before = audits'[a][k - 1].after
    <3>1. CASE k \in 2..Len(h)
      <4>1. k \in 1..Len(h) /\ k - 1 \in 1..Len(h)
        BY <1>2, <3>1
      <4> QED BY <1>3, <2>1, <3>1, <4>1
    <3>2. CASE k = Len(h) + 1
      <4>1. Len(h) \in 1..Len(h) /\ k - 1 = Len(h)
        BY <1>2, <2>1, <3>2
      <4> QED BY <1>2, <1>3, <2>1, <3>2, <4>1
    <3> QED BY <1>2, <1>3, <3>1, <3>2
  <2>4. Chained(audits'[a], a, novel'[a])
    BY <1>3, <2>2, <2>3
  <2> QED BY <1>6, <2>4
<1> QED BY <1>7, <1>8

LEMMA HistoryKept ==
  ASSUME Records, Moved
  PROVE  AuditChain'
<1> USE DEF Records
<1>1. CASE UNCHANGED <<novel, audits>>
  BY <1>1 DEF AuditChain
<1>2. ASSUME NEW t \in Batch, NEW e \in Exec, NEW a \in Selected(t),
             MovedApplied(t, a, e)
      PROVE  AuditChain'
  <2>1. a \in Article /\ Target[t][a] \in Novel
    BY SelectedArticles
  <2>2. item[t][a].old \in Novel
    BY <1>2, <2>1 DEF MovedApplied, Swap, RowTypes
  <2> QED BY <1>2, <2>1, <2>2, ChainGrows DEF MovedApplied
<1>3. ASSUME NEW a \in Article, NEW old \in Novel, NEW to \in Novel,
             NEW action \in {"rebind", "rollback"}, MovedEdit(a, old, to, action)
      PROVE  AuditChain'
  BY <1>3, ChainGrows DEF MovedEdit
<1> QED BY <1>1, <1>2, <1>3 DEF Moved, MovedCreate, MovedCounts, MovedClosed,
                                MovedHolder, MovedItem

LEMMA ItemsPlacedKept ==
  ASSUME Records, Moved
  PROVE  ItemsPlaced'
<1> SUFFICES ASSUME NEW t \in Batch, NEW a \in Article
             PROVE  (item'[t][a].status = "none") <=>
                      (batch'[t].status = "none" \/ a \notin Selected(t))
  BY DEF ItemsPlaced, Selected
<1>1. (item[t][a].status = "none") <=>
        (batch[t].status = "none" \/ a \notin Selected(t))
  BY DEF Records, ItemsPlaced
<1>2. CASE MovedCreate(t)
  <2>1. batch'[t].status = "ready"
    <3>1. batch' = [batch EXCEPT ![t].status = "ready"]
      BY <1>2 DEF MovedCreate
    <3> QED BY <3>1 DEF Records, RowTypes, BatchRow
  <2>2. item'[t][a].status \in (IF a \in Selected(t) THEN {"pending", "skipped"}
                                ELSE {"none"})
    BY <1>2 DEF MovedCreate
  <2> QED BY <2>1, <2>2
<1>3. CASE ~MovedCreate(t)
  <2>1. \/ batch'[t].status = batch[t].status
        \/ batch[t].status # "none" /\ batch'[t].status # "none"
    BY <1>3, BatchMoves DEF Terminal, MovedClosed
  <2>2. \/ item'[t][a].status = item[t][a].status
        \/ item[t][a].status # "none" /\ item'[t][a].status # "none"
    BY <1>3, BatchMoves DEF Open
  <2> QED BY <1>1, <2>1, <2>2
<1> QED BY <1>2, <1>3

LEMMA AuditedOnceKept ==
  ASSUME Records, Moved
  PROVE  AuditedOnce'
<1> USE DEF Records
<1>1. SUFFICES ASSUME NEW t \in Batch, NEW a \in Article
               PROVE  IF item'[t][a].status = "applied"
                      THEN \E k : Mine(t, a)' = {k} ELSE Mine(t, a)' = {}
  BY DEF AuditedOnce
<1>2. IF item[t][a].status = "applied" THEN \E k : Mine(t, a) = {k}
                                       ELSE Mine(t, a) = {}
  BY DEF AuditedOnce
<1>3. ASSUME audits'[a] = audits[a],
             (item'[t][a].status = "applied") <=> (item[t][a].status = "applied")
      PROVE  IF item'[t][a].status = "applied"
             THEN \E k : Mine(t, a)' = {k} ELSE Mine(t, a)' = {}
  BY <1>2, <1>3 DEF Mine
<1>4. CASE UNCHANGED <<audits, item>>
  BY <1>3, <1>4
<1>5. ASSUME NEW u \in Batch, MovedCreate(u)
      PROVE  /\ audits' = audits
             /\ (item'[t][a].status = "applied") <=> (item[t][a].status = "applied")
  <2>1. CASE u = t
    BY <1>5, <2>1 DEF MovedCreate, ItemsPlaced
  <2>2. CASE u # t
    BY <1>5, <2>2 DEF MovedCreate
  <2> QED BY <1>5, <2>1, <2>2 DEF MovedCreate
<1>6. ASSUME NEW u \in Batch, NEW e \in Exec, NEW b \in Selected(u),
             NEW st \in {"processing", "failed"}, MovedItem(u, b, st, e)
      PROVE  /\ audits' = audits
             /\ (item'[t][a].status = "applied") <=> (item[t][a].status = "applied")
  <2>1. CASE u = t /\ b = a
    BY <1>6, <2>1 DEF MovedItem, ItemSet, Open
  <2>2. CASE ~(u = t /\ b = a)
    BY <1>6, <2>2 DEF MovedItem, ItemSet
  <2> QED BY <1>6, <2>1, <2>2 DEF MovedItem
<1>7. ASSUME NEW u \in Batch, NEW e \in Exec, NEW b \in Selected(u),
             MovedApplied(u, b, e)
      PROVE  IF item'[t][a].status = "applied"
             THEN \E k : Mine(t, a)' = {k} ELSE Mine(t, a)' = {}
  <2> DEFINE old == item[u][b].old
             to == Target[u][b]
             r == [before |-> old, after |-> to, action |-> "rebind", batch |-> u]
  <2>1. b \in Article /\ to \in Novel
    BY SelectedArticles
  <2>2. Swap(b, old, to, "rebind", u) /\ ItemSet(u, b, "applied", e)
        /\ item[u][b].status = "processing"
    BY <1>7 DEF MovedApplied
  <2>3. old \in Novel
    BY <2>1, <2>2 DEF Swap, RowTypes
  <2>4. /\ r \in AuditRow /\ r.batch = u
        /\ audits'[b] = Append(audits[b], r)
        /\ \A c \in Article \ {b} : audits'[c] = audits[c]
    BY <2>1, <2>2, <2>3, SwapMoves DEF AuditRow
  <2> HIDE DEF r
  <2>5. CASE u = t /\ b = a
    <3>1. Mine(t, a)' = Mine(t, a) \cup {Len(audits[a]) + 1}
      BY <2>4, <2>5, MineGrows
    <3>2. Mine(t, a) = {} /\ item'[t][a].status = "applied"
      BY <1>2, <2>2, <2>5 DEF ItemSet
    <3> QED BY <3>1, <3>2
  <2>6. CASE u # t /\ b = a
    <3>1. Mine(t, a)' = Mine(t, a)
      BY <2>4, <2>6, MineGrows
    <3>2. item'[t] = item[t]
      BY <2>2, <2>6 DEF ItemSet
    <3> QED BY <1>2, <3>1, <3>2
  <2>7. CASE b # a
    <3>1. audits'[a] = audits[a]
      BY <2>4, <2>7
    <3>2. item'[t][a] = item[t][a]
      BY <2>2, <2>7 DEF ItemSet
    <3> QED BY <1>3, <3>1, <3>2
  <2> QED BY <2>5, <2>6, <2>7
<1>8. ASSUME NEW b \in Article, NEW old \in Novel, NEW to \in Novel,
             NEW action \in {"rebind", "rollback"}, MovedEdit(b, old, to, action)
      PROVE  IF item'[t][a].status = "applied"
             THEN \E k : Mine(t, a)' = {k} ELSE Mine(t, a)' = {}
  <2> DEFINE r == [before |-> old, after |-> to, action |-> action,
                   batch |-> NoBatch]
  <2>1. /\ r \in AuditRow /\ r.batch # t
        /\ audits'[b] = Append(audits[b], r)
        /\ \A c \in Article \ {b} : audits'[c] = audits[c]
    BY <1>8, SwapMoves, RebindAssumption DEF MovedEdit, AuditRow
  <2> HIDE DEF r
  <2>2. item' = item
    BY <1>8 DEF MovedEdit
  <2>3. CASE b = a
    <3>1. Mine(t, a)' = Mine(t, a)
      BY <2>1, <2>3, MineGrows
    <3> QED BY <1>2, <2>2, <3>1
  <2>4. CASE b # a
    BY <1>3, <2>1, <2>2, <2>4
  <2> QED BY <2>3, <2>4
<1> QED BY <1>3, <1>4, <1>5, <1>6, <1>7, <1>8
        DEF Moved, MovedCounts, MovedClosed, MovedHolder

LEMMA TerminalKept ==
  ASSUME Records, Moved
  PROVE  TerminalAgrees'
<1> USE DEF Records
<1>1. SUFFICES ASSUME NEW t \in Batch, batch'[t].status \in Terminal
               PROVE  /\ OpenItems(t)' = {}
                      /\ batch'[t].counts = Tally(t)'
                      /\ batch'[t].status = Verdict(Tally(t)')
                      /\ batch'[t].holder = NoExec
  BY DEF TerminalAgrees, Verdict
<1>2. ASSUME item'[t] = item[t]
      PROVE  OpenItems(t)' = OpenItems(t) /\ Tally(t)' = Tally(t)
  BY <1>2 DEF OpenItems, Tally, HasStatus
<1>3. ~MovedCreate(t)
  <2>1. ASSUME MovedCreate(t) PROVE batch'[t].status = "ready"
    <3>1. batch' = [batch EXCEPT ![t].status = "ready"]
      BY <2>1 DEF MovedCreate
    <3> QED BY <3>1 DEF RowTypes, BatchRow
  <2> QED BY <1>1, <2>1 DEF Terminal
<1>4. CASE batch'[t] = batch[t] /\ item'[t] = item[t]
  BY <1>1, <1>2, <1>4 DEF TerminalAgrees
<1>5. CASE /\ MovedClosed(t) /\ item'[t] = item[t]
           /\ batch'[t].status = Verdict(Tally(t))
           /\ batch'[t].counts = Tally(t) /\ batch'[t].holder = NoExec
  BY <1>2, <1>5 DEF MovedClosed
<1> QED BY <1>1, <1>3, <1>4, <1>5, BatchMoves DEF Terminal

(* Moves keep the records.                                                 *)
LEMMA RecordsKept ==
  ASSUME Records, Moved
  PROVE  Records'
<1>1. RowTypes'
  BY RowTypesKept DEF Records
<1> QED BY <1>1, ItemsPlacedKept, HistoryKept, AuditedOnceKept, TerminalKept
        DEF Records
-----------------------------------------------------------------------------
(* What a step does to the request that takes it.                          *)
Others(e) == \A f \in Exec \ {e} : exec'[f] = exec[f]

LEMMA GoStep ==
  ASSUME exec \in [Exec -> Request], NEW e \in Exec, NEW step \in ExecAt,
         Go(e, step)
  PROVE  /\ exec' \in [Exec -> Request] /\ Others(e)
         /\ exec'[e].at = step /\ exec'[e].batch = exec[e].batch
         /\ exec'[e].todo = exec[e].todo /\ exec'[e].cur = exec[e].cur
<1>1. exec' = [exec EXCEPT ![e].at = step]
  BY DEF Go
<1> QED BY <1>1 DEF Request, Others

LEMMA EndStep ==
  ASSUME exec \in [Exec -> Request], NEW e \in Exec, End(e)
  PROVE  /\ exec' \in [Exec -> Request] /\ Others(e) /\ exec'[e].at = "idle"
<1>1. Idle \in Request /\ Idle.at = "idle"
  BY DEF Idle, Request, ExecAt
<1>2. exec' = [exec EXCEPT ![e] = Idle]
  BY DEF End
<1> QED BY <1>1, <1>2 DEF Others

LEMMA LocksStep ==
  ASSUME exec \in [Exec -> Request], NEW e \in Exec, exec[e].batch \in Batch,
         activeArticleLocks(e)
  PROVE  /\ exec' \in [Exec -> Request] /\ Others(e)
         /\ exec'[e].at = (IF exec[e].at = "locks" THEN "create" ELSE "recreate")
         /\ exec'[e].batch = exec[e].batch
         /\ exec'[e].todo = exec[e].todo
<1> DEFINE L == {a \in Selected(exec[e].batch) :
                        \E u \in Batch : item[u][a].status \in Open}
           q == exec[e]
           r == [q EXCEPT !.at = IF q.at = "locks" THEN "create" ELSE "recreate",
                          !.locked = L]
<1>1. L \in SUBSET Article /\ q \in Request
  BY SelectedArticles
<1>2. exec' = [exec EXCEPT ![e] = r]
  BY DEF activeArticleLocks
<1> HIDE DEF L, q
<1>3. r \in Request
  BY <1>1 DEF Request, ExecAt
<1>4. r.at = (IF q.at = "locks" THEN "create" ELSE "recreate")
      /\ r.batch = q.batch /\ r.todo = q.todo
  BY <1>1 DEF Request
<1> HIDE DEF r
<1>5. exec' \in [Exec -> Request] /\ Others(e) /\ exec'[e] = r
  BY <1>2, <1>3 DEF Others
<1> QED BY <1>4, <1>5 DEF q

LEMMA LoadStep ==
  ASSUME exec \in [Exec -> Request], NEW e \in Exec, LoadItems(e)
  PROVE  /\ exec' \in [Exec -> Request] /\ Others(e)
         /\ exec'[e].at = "loop" /\ exec'[e].batch = exec[e].batch
         /\ exec'[e].todo = OpenItems(exec[e].batch)
<1> DEFINE S == OpenItems(exec[e].batch)
           q == exec[e]
           r == [q EXCEPT !.at = "loop", !.fresh = TRUE, !.todo = S]
<1>1. S \in SUBSET Article /\ q \in Request
  BY DEF OpenItems
<1>2. exec' = [exec EXCEPT ![e] = r]
  BY DEF LoadItems
<1> HIDE DEF S, q
<1>3. r \in Request
  BY <1>1 DEF Request, ExecAt
<1>4. r.at = "loop" /\ r.batch = q.batch /\ r.todo = S
  BY <1>1 DEF Request
<1> HIDE DEF r
<1>5. exec' \in [Exec -> Request] /\ Others(e) /\ exec'[e] = r
  BY <1>2, <1>3 DEF Others
<1> QED BY <1>4, <1>5 DEF q, S

LEMMA ClaimStep ==
  ASSUME exec \in [Exec -> Request], NEW e \in Exec, NEW a \in Article,
         exec' = [exec EXCEPT ![e] = [exec[e] EXCEPT
                     !.at = "process", !.cur = a, !.fresh = FALSE,
                     !.todo = exec[e].todo \ {a}]]
  PROVE  /\ exec' \in [Exec -> Request] /\ Others(e)
         /\ exec'[e].at = "process" /\ exec'[e].batch = exec[e].batch
         /\ exec'[e].todo = exec[e].todo \ {a} /\ exec'[e].cur = a
<1> DEFINE q == exec[e]
           S == q.todo \ {a}
           r == [q EXCEPT !.at = "process", !.cur = a, !.fresh = FALSE,
                          !.todo = S]
<1>1. q \in Request /\ S \in SUBSET Article
  BY DEF Request
<1>2. exec' = [exec EXCEPT ![e] = r]
  OBVIOUS
<1> HIDE DEF S, q
<1>3. r \in Request
  BY <1>1 DEF Request, ExecAt
<1>4. r.at = "process" /\ r.batch = q.batch /\ r.todo = S /\ r.cur = a
  BY <1>1 DEF Request
<1> HIDE DEF r
<1>5. exec' \in [Exec -> Request] /\ Others(e) /\ exec'[e] = r
  BY <1>2, <1>3 DEF Others
<1> QED BY <1>4, <1>5 DEF q, S

LEMMA SkipStep ==
  ASSUME exec \in [Exec -> Request], NEW e \in Exec, NEW a,
         exec' = [exec EXCEPT ![e].todo = @ \ {a}]
  PROVE  /\ exec' \in [Exec -> Request] /\ Others(e)
         /\ exec'[e].at = exec[e].at /\ exec'[e].batch = exec[e].batch
         /\ exec'[e].todo = exec[e].todo \ {a} /\ exec'[e].cur = exec[e].cur
<1> DEFINE S == exec[e].todo \ {a}
<1>1. S \in SUBSET Article
  BY DEF Request
<1>2. exec' = [exec EXCEPT ![e].todo = S]
  OBVIOUS
<1> HIDE DEF S
<1>3. /\ exec' \in [Exec -> Request] /\ Others(e)
      /\ exec'[e].at = exec[e].at /\ exec'[e].batch = exec[e].batch
      /\ exec'[e].todo = S /\ exec'[e].cur = exec[e].cur
  BY <1>1, <1>2 DEF Request, Others
<1> QED BY <1>3 DEF S

LEMMA SubmitStep ==
  ASSUME exec \in [Exec -> Request], NEW e \in Exec, NEW t \in Batch,
         NEW step \in ExecAt,
         exec' = [exec EXCEPT ![e] = [Idle EXCEPT !.at = step, !.batch = t]]
  PROVE  /\ exec' \in [Exec -> Request] /\ Others(e)
         /\ exec'[e].at = step /\ exec'[e].batch = t /\ exec'[e].todo = {}
<1> DEFINE r == [Idle EXCEPT !.at = step, !.batch = t]
<1>1. r \in Request /\ r.at = step /\ r.batch = t /\ r.todo = {}
  BY DEF Idle, Request
<1> HIDE DEF r
<1> QED BY <1>1 DEF Others, r

Creating == {"locks", "create", "relock", "recreate"}
OnItem == {"process", "write", "mark"}

LEMMA PlacedKept ==
  ASSUME Requests, Records, Next
  PROVE  exec' \in [Exec -> Request] /\ \A e \in Exec : Placed(e)'
<1> DEFINE Goal == exec' \in [Exec -> Request] /\ \A e \in Exec : Placed(e)'
<1>0. /\ exec \in [Exec -> Request] /\ \A e \in Exec : Placed(e)
      /\ asked.editors \subseteq Editor
  BY RebindAssumption DEF Requests, RequestTypes
<1>1. ASSUME NEW f \in Exec, UNCHANGED preview, exec' \in [Exec -> Request],
             Others(f), Placed(f)'
      PROVE  Goal
  <2> SUFFICES ASSUME NEW e \in Exec, e # f PROVE Placed(e)'
    BY <1>1
  <2>1. exec'[e] = exec[e] /\ preview' = preview
    BY <1>1 DEF Others
  <2> QED BY <1>0, <2>1 DEF Placed, Selected
<1>2. ASSUME UNCHANGED <<exec, preview>> PROVE Goal
  BY <1>0, <1>2 DEF Placed, Selected
<1>3. ASSUME NEW f \in Exec, End(f), UNCHANGED preview PROVE Goal
  <2>1. exec' \in [Exec -> Request] /\ Others(f) /\ exec'[f].at = "idle"
    BY <1>0, <1>3, EndStep
  <2> QED BY <1>1, <1>3, <2>1 DEF Placed
<1>4. ASSUME NEW f \in Exec, NEW step \in ExecAt, Go(f, step), UNCHANGED preview,
             exec[f].at # "idle",
             step \in Creating => exec[f].at \in Creating,
             step \in OnItem => exec[f].at \in OnItem
      PROVE  Goal
  <2>1. /\ exec' \in [Exec -> Request] /\ Others(f)
        /\ exec'[f].at = step /\ exec'[f].batch = exec[f].batch
        /\ exec'[f].todo = exec[f].todo /\ exec'[f].cur = exec[f].cur
    BY <1>0, <1>4, GoStep
  <2>2. Placed(f)'
    BY <1>0, <1>4, <2>1 DEF Placed, Selected, Creating, OnItem
  <2> QED BY <1>1, <1>4, <2>1, <2>2
<1>5. ASSUME NEW f \in Exec, activeArticleLocks(f) PROVE Goal
  <2>1. exec[f].batch \in Batch /\ exec[f].at \in {"locks", "relock"}
        /\ UNCHANGED preview
    BY <1>0, <1>5 DEF activeArticleLocks, Placed
  <2>2. /\ exec' \in [Exec -> Request] /\ Others(f)
        /\ exec'[f].at = (IF exec[f].at = "locks" THEN "create" ELSE "recreate")
        /\ exec'[f].batch = exec[f].batch /\ exec'[f].todo = exec[f].todo
    BY <1>0, <1>5, <2>1, LocksStep
  <2>3. Placed(f)'
    BY <1>0, <2>1, <2>2 DEF Placed, Selected
  <2> QED BY <1>1, <2>1, <2>2, <2>3
<1>6. ASSUME NEW f \in Exec, LoadItems(f) PROVE Goal
  <2>1. exec[f].batch \in Batch /\ UNCHANGED preview
    BY <1>0, <1>6 DEF LoadItems, Placed
  <2>2. OpenItems(exec[f].batch) \subseteq Selected(exec[f].batch)
    BY <2>1 DEF OpenItems, Records, ItemsPlaced, Open
  <2>3. /\ exec' \in [Exec -> Request] /\ Others(f)
        /\ exec'[f].at = "loop" /\ exec'[f].batch = exec[f].batch
        /\ exec'[f].todo = OpenItems(exec[f].batch)
    BY <1>0, <1>6, LoadStep
  <2>4. Placed(f)'
    BY <2>1, <2>2, <2>3 DEF Placed, Selected
  <2> QED BY <1>1, <2>1, <2>3, <2>4
<1>7. ASSUME NEW f \in Exec, claimRebindBatchItem(f) PROVE Goal
  <2>1. PICK a \in exec[f].todo :
          \/ Go(f, "finalize")
          \/ exec' = [exec EXCEPT ![f] = [exec[f] EXCEPT
                     !.at = "process", !.cur = a, !.fresh = FALSE,
                     !.todo = exec[f].todo \ {a}]]
          \/ exec' = [exec EXCEPT ![f].todo = @ \ {a}]
    BY <1>7 DEF claimRebindBatchItem
  <2>2. /\ exec[f].at = "loop" /\ UNCHANGED preview
        /\ exec[f].batch \in Batch
        /\ exec[f].todo \subseteq Selected(exec[f].batch) /\ a \in Article
    BY <1>0, <1>7, SelectedArticles DEF claimRebindBatchItem, Placed
  <2>3. CASE Go(f, "finalize")
    BY <1>4, <2>2, <2>3 DEF ExecAt, Creating, OnItem
  <2>4. CASE exec' = [exec EXCEPT ![f] = [exec[f] EXCEPT
                     !.at = "process", !.cur = a, !.fresh = FALSE,
                     !.todo = exec[f].todo \ {a}]]
    <3>1. /\ exec' \in [Exec -> Request] /\ Others(f)
          /\ exec'[f].at = "process" /\ exec'[f].batch = exec[f].batch
          /\ exec'[f].todo = exec[f].todo \ {a} /\ exec'[f].cur = a
      BY <1>0, <2>2, <2>4, ClaimStep
    <3>2. Placed(f)'
      BY <2>2, <3>1 DEF Placed, Selected
    <3> QED BY <1>1, <2>2, <3>1, <3>2
  <2>5. CASE exec' = [exec EXCEPT ![f].todo = @ \ {a}]
    <3>1. /\ exec' \in [Exec -> Request] /\ Others(f)
          /\ exec'[f].at = exec[f].at /\ exec'[f].batch = exec[f].batch
          /\ exec'[f].todo = exec[f].todo \ {a}
      BY <1>0, <2>5, SkipStep
    <3>2. Placed(f)'
      BY <2>2, <3>1 DEF Placed, Selected
    <3> QED BY <1>1, <2>2, <3>1, <3>2
  <2> QED BY <2>1, <2>3, <2>4, <2>5
<1>8. ASSUME NEW f \in Exec, NEW t \in Batch, Submit(f, t) \/ Resume(f, t)
      PROVE  Goal
  <2>1. UNCHANGED preview
    BY <1>8 DEF Submit, Resume
  <2>2. CASE Submit(f, t)
    <3>1. /\ exec' \in [Exec -> Request] /\ Others(f) /\ exec'[f].at = "locks"
          /\ exec'[f].batch = t /\ exec'[f].todo = {}
      BY <1>0, <2>2, SubmitStep DEF Submit, ExecAt
    <3>2. Placed(f)'
      BY <2>1, <2>2, <3>1 DEF Placed, Submit, Selected
    <3> QED BY <1>1, <2>1, <3>1, <3>2
  <2>3. CASE Resume(f, t)
    <3>1. /\ exec' \in [Exec -> Request] /\ Others(f) /\ exec'[f].at = "acquire"
          /\ exec'[f].batch = t /\ exec'[f].todo = {}
      BY <1>0, <2>3, SubmitStep DEF Resume, ExecAt
    <3>2. Placed(f)'
      BY <3>1 DEF Placed
    <3> QED BY <1>1, <2>1, <3>1, <3>2
  <2> QED BY <1>8, <2>2, <2>3
<1>9. ASSUME NEW t \in Batch, buildRebindBatchPreview(t) PROVE Goal
  <2> DEFINE p == [a \in Article |-> IF a \in Selected(t) THEN novel[a]
                                     ELSE NoNovel]
  <2>1. preview' = [preview EXCEPT ![t] = p] /\ exec' = exec
    BY <1>9 DEF buildRebindBatchPreview
  <2>2. \A a \in Selected(t) : p[a] # NoNovel
    BY SelectedArticles, RebindAssumption DEF Records, RowTypes
  <2>3. \A u \in Batch : \A a \in Selected(u) :
          preview[u][a] # NoNovel => preview'[u][a] # NoNovel
    BY <2>1, <2>2 DEF Requests, RequestTypes
  <2> QED BY <1>0, <2>1, <2>3 DEF Placed, Selected
<1>10. ASSUME NEW f \in Exec, createBatchOnce(f) \/ CreateFails(f) PROVE Goal
  <2>1. /\ exec[f].at \in {"create", "recreate"} /\ UNCHANGED preview
        /\ Go(f, "acquire") \/ Go(f, "relock") \/ End(f)
    BY <1>10 DEF createBatchOnce, CreateFails
  <2> QED BY <1>3, <1>4, <2>1 DEF ExecAt, Creating, OnItem
<1>11. ASSUME NEW f \in Exec, acquireRebindBatchLease(f) PROVE Goal
  <2>1. /\ exec[f].at = "acquire" /\ UNCHANGED preview
        /\ Go(f, "load") \/ End(f)
    BY <1>11 DEF acquireRebindBatchLease
  <2> QED BY <1>3, <1>4, <2>1 DEF ExecAt, Creating, OnItem
<1>12. ASSUME NEW f \in Exec, BeginItem(f) \/ CommitItem(f) \/ AbortItem(f)
                              \/ markItemError(f)
       PROVE  Goal
  <2>1. /\ exec[f].at \in OnItem /\ UNCHANGED preview
        /\ \E step \in {"mark", "write", "finalize", "loop"} : Go(f, step)
    BY <1>12 DEF BeginItem, CommitItem, AbortItem, markItemError, OnItem, rows
  <2> QED BY <1>4, <2>1 DEF ExecAt, Creating, OnItem
<1>13. ASSUME NEW f \in Exec, LoopEnds(f) \/ finalizeRebindBatch(f) PROVE Goal
  <2>1. /\ exec[f].at \in {"loop", "finalize"} /\ UNCHANGED preview
        /\ Go(f, "finalize") \/ Go(f, "release")
    BY <1>13 DEF LoopEnds, finalizeRebindBatch
  <2> QED BY <1>4, <2>1 DEF ExecAt, Creating, OnItem
<1>14. ASSUME NEW f \in Exec, releaseRebindBatchLease(f) \/ Interrupt(f)
       PROVE  Goal
  <2>1. /\ exec[f].at # "idle" /\ UNCHANGED preview
        /\ Go(f, "release") \/ End(f)
    BY <1>14 DEF releaseRebindBatchLease, Interrupt
  <2> QED BY <1>3, <1>4, <2>1 DEF ExecAt, Creating, OnItem
<1>15. ASSUME (\E t \in Batch : LeaseExpires(t)) \/ (\E x \in Editor : Edit(x))
       PROVE  Goal
  BY <1>2, <1>15 DEF LeaseExpires, Edit, BeginSwitch, ReadLastRebind,
                     ReadCurrent, RollbackGuards, EndSwitch
<1> HIDE DEF Goal
<1>16. Goal
  BY <1>0, <1>5, <1>6, <1>7, <1>8, <1>9, <1>10, <1>11, <1>12, <1>13, <1>14,
     <1>15 DEF Next, Run
<1> QED BY <1>16 DEF Goal

(* An execution gets to its write by BeginItem alone.                      *)
LEMMA EntersWrite ==
  ASSUME Requests, Records, Next, NEW e \in Exec, exec'[e].at = "write"
  PROVE  exec'[e] = exec[e] \/ BeginItem(e)
<1>0. exec \in [Exec -> Request]
  BY DEF Requests, RequestTypes
<1>1. ASSUME NEW f \in Exec, Others(f), exec'[f].at # "write"
      PROVE  exec'[e] = exec[e]
  BY <1>1 DEF Others
<1>2. ASSUME NEW f \in Exec, End(f) PROVE exec'[e] = exec[e]
  <2>1. Others(f) /\ exec'[f].at = "idle"
    BY <1>0, <1>2, EndStep
  <2> QED BY <1>1, <2>1
<1>3. ASSUME NEW f \in Exec, NEW step \in ExecAt, step # "write", Go(f, step)
      PROVE  exec'[e] = exec[e]
  <2>1. Others(f) /\ exec'[f].at = step
    BY <1>0, <1>3, GoStep
  <2> QED BY <1>1, <1>3, <2>1
<1>4. ASSUME NEW f \in Exec, activeArticleLocks(f) PROVE exec'[e] = exec[e]
  <2>1. exec[f].batch \in Batch
    BY <1>4 DEF activeArticleLocks, Requests, Placed
  <2>2. Others(f)
        /\ exec'[f].at = (IF exec[f].at = "locks" THEN "create" ELSE "recreate")
    BY <1>0, <1>4, <2>1, LocksStep
  <2> QED BY <1>1, <2>2
<1>5. ASSUME NEW f \in Exec, LoadItems(f) PROVE exec'[e] = exec[e]
  <2>1. Others(f) /\ exec'[f].at = "loop"
    BY <1>0, <1>5, LoadStep
  <2> QED BY <1>1, <2>1
<1>6. ASSUME NEW f \in Exec, claimRebindBatchItem(f) PROVE exec'[e] = exec[e]
  <2>1. PICK a \in exec[f].todo :
          \/ Go(f, "finalize")
          \/ exec' = [exec EXCEPT ![f] = [exec[f] EXCEPT
                     !.at = "process", !.cur = a, !.fresh = FALSE,
                     !.todo = exec[f].todo \ {a}]]
          \/ exec' = [exec EXCEPT ![f].todo = @ \ {a}]
    BY <1>6 DEF claimRebindBatchItem
  <2>2. exec[f].at = "loop" /\ a \in Article
    BY <1>0, <1>6 DEF claimRebindBatchItem, Request
  <2>3. CASE Go(f, "finalize")
    BY <1>3, <2>3 DEF ExecAt
  <2>4. CASE exec' = [exec EXCEPT ![f] = [exec[f] EXCEPT
                     !.at = "process", !.cur = a, !.fresh = FALSE,
                     !.todo = exec[f].todo \ {a}]]
    <3>1. Others(f) /\ exec'[f].at = "process"
      BY <1>0, <2>2, <2>4, ClaimStep
    <3> QED BY <1>1, <3>1
  <2>5. CASE exec' = [exec EXCEPT ![f].todo = @ \ {a}]
    <3>1. Others(f) /\ exec'[f].at = exec[f].at
      BY <1>0, <2>5, SkipStep
    <3> QED BY <1>1, <2>2, <3>1
  <2> QED BY <2>1, <2>3, <2>4, <2>5
<1>7. ASSUME NEW f \in Exec, NEW t \in Batch, Submit(f, t) \/ Resume(f, t)
      PROVE  exec'[e] = exec[e]
  <2>1. \E step \in {"locks", "acquire"} :
          exec' = [exec EXCEPT ![f] = [Idle EXCEPT !.at = step, !.batch = t]]
    BY <1>7 DEF Submit, Resume
  <2>2. PICK step \in {"locks", "acquire"} :
          exec' = [exec EXCEPT ![f] = [Idle EXCEPT !.at = step, !.batch = t]]
    BY <2>1
  <2>3. Others(f) /\ exec'[f].at = step
    BY <1>0, <2>2, SubmitStep DEF ExecAt
  <2> QED BY <1>1, <2>3
<1>8. ASSUME NEW f \in Exec, BeginItem(f) PROVE exec'[e] = exec[e] \/ BeginItem(e)
  <2>1. \E step \in {"mark", "write", "finalize"} : Go(f, step)
    BY <1>8 DEF BeginItem
  <2>2. Others(f)
    BY <1>0, <2>1, GoStep DEF ExecAt
  <2> QED BY <1>8, <2>2 DEF Others
<1>9. ASSUME NEW f \in Exec,
             createBatchOnce(f) \/ CreateFails(f) \/ acquireRebindBatchLease(f)
             \/ LoopEnds(f) \/ CommitItem(f) \/ AbortItem(f) \/ markItemError(f)
             \/ finalizeRebindBatch(f) \/ releaseRebindBatchLease(f)
             \/ Interrupt(f)
      PROVE  exec'[e] = exec[e]
  <2>1. End(f) \/ \E step \in ExecAt \ {"write"} : Go(f, step)
    BY <1>9 DEF createBatchOnce, CreateFails, acquireRebindBatchLease, LoopEnds,
         CommitItem, AbortItem, markItemError, finalizeRebindBatch,
         releaseRebindBatchLease, Interrupt, ExecAt
  <2> QED BY <1>2, <1>3, <2>1
<1>10. ASSUME UNCHANGED exec PROVE exec'[e] = exec[e]
  BY <1>10
<1> QED
  BY <1>4, <1>5, <1>6, <1>7, <1>8, <1>9, <1>10
     DEF Next, Run, LeaseExpires, buildRebindBatchPreview, Edit, BeginSwitch,
         ReadLastRebind, ReadCurrent, RollbackGuards, EndSwitch

LEMMA WritingKept ==
  ASSUME Requests, Records, Next, NEW e \in Exec
  PROVE  Writing(e)'
<1> SUFFICES ASSUME exec'[e].at = "write" PROVE Writing(e)'
  BY DEF Writing
<1>0. /\ exec \in [Exec -> Request] /\ batch \in [Batch -> BatchRow]
      /\ item \in [Batch -> [Article -> ItemRow]]
      /\ \A f \in Exec : Placed(f) /\ Writing(f)
      /\ asked.editors \subseteq Editor
  BY RebindAssumption DEF Requests, RequestTypes, Records, RowTypes
<1>1. CASE BeginItem(e)
  <2>1. Go(e, "write") /\ FenceHolds(e) /\ ItemFenceHolds(e)
        /\ UNCHANGED <<batch, item>>
    <3>1. \/ Go(e, "write") /\ FenceHolds(e) /\ ItemFenceHolds(e)
          \/ Go(e, "mark") \/ Go(e, "finalize")
      BY <1>1 DEF BeginItem
    <3>2. ~Go(e, "mark") /\ ~Go(e, "finalize")
      BY <1>0, GoStep DEF ExecAt
    <3> QED BY <1>1, <3>1, <3>2 DEF BeginItem, rows
  <2>2. exec'[e].batch = exec[e].batch /\ exec'[e].cur = exec[e].cur
    BY <1>0, <2>1, GoStep DEF ExecAt
  <2> QED BY <2>1, <2>2 DEF Writing, FenceHolds, ItemFenceHolds
<1>2. CASE exec'[e] = exec[e] /\ ~BeginItem(e)
  <2> DEFINE t == exec[e].batch
             a == exec[e].cur
  <2>1. /\ exec[e].at = "write" /\ t \in Batch /\ a \in Article
        /\ batch[t].status = "processing" /\ batch[t].holder = e
        /\ item[t][a].status = "processing" /\ item[t][a].token = e
    BY <1>0, <1>2, SelectedArticles DEF Placed, Writing
  <2>2. ASSUME batch'[t].status = batch[t].status,
               batch'[t].holder = batch[t].holder, item'[t] = item[t]
        PROVE  Writing(e)'
    BY <1>2, <2>1, <2>2 DEF Writing
  <2>3. ASSUME NEW u \in Batch, u # t, \A v \in Batch \ {u} :
                 batch'[v] = batch[v] /\ item'[v] = item[v]
        PROVE  Writing(e)'
    BY <2>1, <2>2, <2>3
  <2>4. ASSUME UNCHANGED <<batch, item>> PROVE Writing(e)'
    BY <2>2, <2>4
  <2>5. ASSUME NEW f \in Exec, createBatchOnce(f) PROVE Writing(e)'
    <3>1. exec[f].batch \in Batch
      BY <1>0, <2>5 DEF createBatchOnce, Placed
    <3>2. CASE batch[exec[f].batch].status = "none"
      <4>1. \A v \in Batch \ {exec[f].batch} :
              batch'[v] = batch[v] /\ item'[v] = item[v]
        BY <1>0, <2>5, <3>1, <3>2 DEF createBatchOnce, Created
      <4> QED BY <2>1, <2>3, <3>1, <3>2, <4>1
    <3>3. CASE batch[exec[f].batch].status # "none"
      BY <2>4, <2>5, <3>3 DEF createBatchOnce
    <3> QED BY <3>2, <3>3
  <2>6. ASSUME NEW f \in Exec, acquireRebindBatchLease(f) PROVE Writing(e)'
    <3>1. exec[f].batch \in Batch /\ exec[f].batch # t
      BY <1>0, <2>1, <2>6 DEF acquireRebindBatchLease, Placed, Locked
    <3>2. \A v \in Batch \ {exec[f].batch} :
            batch'[v] = batch[v] /\ item'[v] = item[v]
      BY <1>0, <2>6, <3>1 DEF acquireRebindBatchLease
    <3> QED BY <2>3, <3>1, <3>2
  <2>7. ASSUME NEW f \in Exec, f # e, NEW u \in Batch, batch[u].holder = f,
               \A v \in Batch \ {u} : batch'[v] = batch[v] /\ item'[v] = item[v]
        PROVE  Writing(e)'
    BY <2>1, <2>3, <2>7
  <2>8. ASSUME NEW f \in Exec, claimRebindBatchItem(f) PROVE Writing(e)'
    <3>1. f # e /\ exec[f].batch \in Batch /\ batch' = batch
      BY <1>0, <2>1, <2>8 DEF claimRebindBatchItem, Placed
    <3>2. CASE FenceHolds(f)
      <4>1. \A v \in Batch \ {exec[f].batch} : item'[v] = item[v]
        BY <1>0, <2>8, <3>1, <3>2 DEF claimRebindBatchItem
      <4> QED BY <2>7, <3>1, <3>2, <4>1 DEF FenceHolds
    <3>3. CASE ~FenceHolds(f)
      BY <2>4, <2>8, <3>1, <3>3 DEF claimRebindBatchItem
    <3> QED BY <3>2, <3>3
  <2>9. ASSUME NEW f \in Exec, CommitItem(f) PROVE Writing(e)'
    <3>1. exec[f].at = "write" /\ exec[f].batch \in Batch /\ batch' = batch
          /\ batch[exec[f].batch].holder = f
      BY <1>0, <2>9 DEF CommitItem, Placed, Writing
    <3>2. f # e
      BY <1>0, <1>2, <2>1, <2>9, GoStep DEF CommitItem, ExecAt
    <3>3. \A v \in Batch \ {exec[f].batch} : item'[v] = item[v]
      BY <1>0, <2>9, <3>1 DEF CommitItem
    <3> QED BY <2>7, <3>1, <3>2, <3>3
  <2>10. ASSUME NEW f \in Exec, markItemError(f) PROVE Writing(e)'
    <3>1. f # e /\ exec[f].batch \in Batch /\ batch' = batch
      BY <1>0, <2>1, <2>10 DEF markItemError, Placed
    <3>2. CASE FenceHolds(f) /\ ItemFenceHolds(f)
      <4>1. \A v \in Batch \ {exec[f].batch} : item'[v] = item[v]
        BY <1>0, <2>10, <3>1, <3>2 DEF markItemError
      <4> QED BY <2>7, <3>1, <3>2, <4>1 DEF FenceHolds
    <3>3. CASE ~(FenceHolds(f) /\ ItemFenceHolds(f))
      BY <2>4, <2>10, <3>1, <3>3 DEF markItemError
    <3> QED BY <3>2, <3>3
  <2>11. ASSUME NEW f \in Exec, finalizeRebindBatch(f) PROVE Writing(e)'
    <3>1. f # e /\ exec[f].batch \in Batch /\ item' = item
      BY <1>0, <2>1, <2>11 DEF finalizeRebindBatch, Placed
    <3>2. CASE FenceHolds(f)
      <4>1. \A v \in Batch \ {exec[f].batch} : batch'[v] = batch[v]
        BY <1>0, <2>11, <3>1, <3>2 DEF finalizeRebindBatch
      <4> QED BY <2>7, <3>1, <3>2, <4>1 DEF FenceHolds
    <3>3. CASE ~FenceHolds(f)
      BY <2>4, <2>11, <3>1, <3>3 DEF finalizeRebindBatch
    <3> QED BY <3>2, <3>3
  <2>12. ASSUME NEW f \in Exec, releaseRebindBatchLease(f) PROVE Writing(e)'
    <3>1. f # e /\ exec[f].batch \in Batch /\ item' = item
      BY <1>0, <2>1, <2>12 DEF releaseRebindBatchLease, Placed
    <3>2. CASE batch[exec[f].batch].holder = f
      <4>1. \A v \in Batch \ {exec[f].batch} : batch'[v] = batch[v]
        BY <1>0, <2>12, <3>1 DEF releaseRebindBatchLease
      <4> QED BY <2>7, <3>1, <3>2, <4>1
    <3>3. CASE batch[exec[f].batch].holder # f
      BY <2>4, <2>12, <3>1, <3>3 DEF releaseRebindBatchLease
    <3> QED BY <3>2, <3>3
  <2>13. ASSUME NEW u \in Batch, LeaseExpires(u) PROVE Writing(e)'
    <3>1. batch' = [batch EXCEPT ![u].live = FALSE] /\ item' = item
      BY <2>13 DEF LeaseExpires
    <3>2. batch'[t].status = batch[t].status /\ batch'[t].holder = batch[t].holder
      BY <1>0, <2>1, <3>1 DEF BatchRow
    <3> QED BY <2>2, <3>1, <3>2
  <2> QED
    BY <1>0, <2>4, <2>5, <2>6, <2>8, <2>9, <2>10, <2>11, <2>12, <2>13, <1>2
       DEF Next, Run, Edit, rows, buildRebindBatchPreview, Submit, Resume,
           activeArticleLocks, LoadItems, LoopEnds, BeginItem, AbortItem,
           CreateFails, Interrupt, BeginSwitch, ReadLastRebind, ReadCurrent,
           RollbackGuards, EndSwitch
<1> QED BY <1>1, <1>2, EntersWrite

LEMMA EditingKept ==
  ASSUME Requests, Records, Next
  PROVE  edit' \in [Editor -> Switch] /\ \A x \in Editor : Editing(x)'
<1> DEFINE Goal == edit' \in [Editor -> Switch] /\ \A x \in Editor : Editing(x)'
<1>0. /\ edit \in [Editor -> Switch] /\ \A x \in Editor : Editing(x)
      /\ asked.editors \subseteq Editor
      /\ novel \in [Article -> Novel] /\ audits \in [Article -> Seq(AuditRow)]
  BY RebindAssumption DEF Requests, RequestTypes, Records, RowTypes
<1>1. ASSUME NEW x \in Editor, NEW s \in Switch, edit' = [edit EXCEPT ![x] = s],
             s.at \in {"current", "guards", "write"} =>
               s.article \in Article /\ s.to \in Novel,
             s.at \in {"guards", "write"} => s.old \in Novel
      PROVE  Goal
  <2>1. edit' \in [Editor -> Switch] /\ edit'[x] = s
        /\ \A y \in Editor \ {x} : edit'[y] = edit[y]
    BY <1>0, <1>1
  <2> QED BY <1>0, <1>1, <2>1 DEF Editing
<1>2. ASSUME NEW x \in Editor, NEW at \in {"write", "done"},
             at = "write" => edit[x].at = "guards",
             edit' = [edit EXCEPT ![x].at = at]
      PROVE  Goal
  <2>1. /\ edit' \in [Editor -> Switch] /\ edit'[x].at = at
        /\ edit'[x].article = edit[x].article /\ edit'[x].to = edit[x].to
        /\ edit'[x].old = edit[x].old
        /\ \A y \in Editor \ {x} : edit'[y] = edit[y]
    BY <1>0, <1>2 DEF Switch
  <2> QED BY <1>0, <1>2, <2>1 DEF Editing
<1>3. ASSUME NEW x \in Editor, NEW a \in Article, NEW n \in Novel,
             BeginSwitch(x, a, n)
      PROVE  Goal
  <2> DEFINE s == [at |-> "write", article |-> a, old |-> novel[a], to |-> n,
                   action |-> "rebind"]
  <2>1. s \in Switch /\ s.article \in Article /\ s.to \in Novel /\ s.old \in Novel
    BY <1>0 DEF Switch
  <2>2. edit' = [edit EXCEPT ![x] = s]
    BY <1>3 DEF BeginSwitch
  <2> HIDE DEF s
  <2> QED BY <1>1, <2>1, <2>2
<1>4. ASSUME NEW x \in Editor, NEW a \in Article, ReadLastRebind(x, a)
      PROVE  Goal
  <2>1. PICK k \in DOMAIN audits[a] :
          edit' = [edit EXCEPT ![x] = [at |-> "current", article |-> a,
                     old |-> NoNovel, to |-> audits[a][k].before,
                     action |-> "rollback"]]
    BY <1>4 DEF ReadLastRebind
  <2> DEFINE s == [at |-> "current", article |-> a, old |-> NoNovel,
                   to |-> audits[a][k].before, action |-> "rollback"]
  <2>2. audits[a][k] \in AuditRow
    BY <1>0, <2>1
  <2>3. s \in Switch /\ s.at = "current" /\ s.article \in Article /\ s.to \in Novel
    BY <2>2 DEF Switch, AuditRow
  <2>4. edit' = [edit EXCEPT ![x] = s]
    BY <2>1
  <2> HIDE DEF s
  <2> QED BY <1>1, <2>3, <2>4
<1>5. ASSUME NEW x \in Editor, ReadCurrent(x) PROVE Goal
  <2> DEFINE q == edit[x]
             n == novel[q.article]
             s == [q EXCEPT !.at = "guards", !.old = n]
  <2>1. q \in Switch /\ q.article \in Article /\ q.to \in Novel /\ n \in Novel
    BY <1>0, <1>5 DEF ReadCurrent, Editing
  <2>2. edit' = [edit EXCEPT ![x] = s]
    BY <1>5 DEF ReadCurrent
  <2> HIDE DEF q, n
  <2>3. s \in Switch /\ s.article = q.article /\ s.to = q.to /\ s.old = n
    BY <2>1 DEF Switch
  <2> HIDE DEF s
  <2> QED BY <1>1, <2>1, <2>2, <2>3
<1>6. ASSUME NEW x \in Editor, RollbackGuards(x) PROVE Goal
  <2>1. edit[x].at = "guards"
        /\ \E at \in {"write", "done"} : edit' = [edit EXCEPT ![x].at = at]
    BY <1>6 DEF RollbackGuards
  <2> QED BY <1>2, <2>1
<1>7. ASSUME NEW x \in Editor, EndSwitch(x) PROVE Goal
  <2>1. edit' = [edit EXCEPT ![x].at = "done"]
    BY <1>7 DEF EndSwitch
  <2> QED BY <1>2, <2>1
<1>8. ASSUME UNCHANGED edit PROVE Goal
  BY <1>0, <1>8 DEF Editing
<1> HIDE DEF Goal
<1>9. Goal
  BY <1>0, <1>3, <1>4, <1>5, <1>6, <1>7, <1>8
     DEF Next, Run, Edit, buildRebindBatchPreview, LeaseExpires, Submit, Resume,
         activeArticleLocks, createBatchOnce, acquireRebindBatchLease, LoadItems,
         LoopEnds, claimRebindBatchItem, BeginItem, CommitItem, AbortItem,
         markItemError, finalizeRebindBatch, releaseRebindBatchLease,
         CreateFails, Interrupt
<1> QED BY <1>9 DEF Goal

LEMMA RestKept ==
  ASSUME Requests, Records, Next
  PROVE  /\ preview' \in [Batch -> [Article -> Novel \cup {NoNovel}]]
         /\ asked' \in Demands /\ mishaps' \in 0..asked'.mishaps
<1>0. /\ preview \in [Batch -> [Article -> Novel \cup {NoNovel}]]
      /\ asked \in Demands /\ mishaps \in 0..asked.mishaps
      /\ asked.mishaps \in Nat /\ asked.editors \subseteq Editor
      /\ novel \in [Article -> Novel]
  BY RebindAssumption DEF Requests, RequestTypes, Records, RowTypes
<1>1. asked' = asked
  BY DEF Next, Run, Edit, buildRebindBatchPreview, LeaseExpires, Submit, Resume,
         activeArticleLocks, createBatchOnce, acquireRebindBatchLease, LoadItems,
         LoopEnds, claimRebindBatchItem, BeginItem, CommitItem, AbortItem,
         markItemError, finalizeRebindBatch, releaseRebindBatchLease,
         CreateFails, Interrupt, BeginSwitch, ReadLastRebind, ReadCurrent,
         RollbackGuards, EndSwitch
<1>2. mishaps' = mishaps \/ (mishaps > 0 /\ mishaps' = mishaps - 1)
  <2>1. ASSUME NEW t \in Batch, LeaseExpires(t)
        PROVE  mishaps' = mishaps \/ (mishaps > 0 /\ mishaps' = mishaps - 1)
    BY <2>1 DEF LeaseExpires
  <2>2. ASSUME NEW e \in Exec, CommitItem(e)
        PROVE  mishaps' = mishaps \/ (mishaps > 0 /\ mishaps' = mishaps - 1)
    BY <2>2 DEF CommitItem
  <2> QED
    BY <2>1, <2>2
       DEF Next, Run, Edit, buildRebindBatchPreview, Submit, Resume,
         activeArticleLocks, createBatchOnce, acquireRebindBatchLease, LoadItems,
         LoopEnds, claimRebindBatchItem, BeginItem, AbortItem,
         markItemError, finalizeRebindBatch, releaseRebindBatchLease,
         CreateFails, Interrupt, BeginSwitch, ReadLastRebind, ReadCurrent,
         RollbackGuards, EndSwitch
<1>3. mishaps' \in 0..asked.mishaps
  BY <1>0, <1>2
<1>4. ASSUME NEW t \in Batch, buildRebindBatchPreview(t)
      PROVE  preview' \in [Batch -> [Article -> Novel \cup {NoNovel}]]
  BY <1>0, <1>4 DEF buildRebindBatchPreview
<1>5. preview' = preview \/ \E t \in Batch : buildRebindBatchPreview(t)
  BY DEF Next, Run, Edit, LeaseExpires, Submit, Resume,
         activeArticleLocks, createBatchOnce, acquireRebindBatchLease, LoadItems,
         LoopEnds, claimRebindBatchItem, BeginItem, CommitItem, AbortItem,
         markItemError, finalizeRebindBatch, releaseRebindBatchLease,
         CreateFails, Interrupt, BeginSwitch, ReadLastRebind, ReadCurrent,
         RollbackGuards, EndSwitch
<1> QED BY <1>0, <1>1, <1>3, <1>4, <1>5

LEMMA RequestsKept ==
  ASSUME Requests, Records, Next
  PROVE  Requests'
<1>1. RequestTypes'
  BY RestKept, PlacedKept, EditingKept DEF RequestTypes
<1> QED BY <1>1, PlacedKept, WritingKept, EditingKept DEF Requests
-----------------------------------------------------------------------------
LEMMA InitRecords == Init => RebindInv
<1> SUFFICES ASSUME Init PROVE RebindInv
  OBVIOUS
<1>1. \A t \in Batch : batch[t] = NoRow /\ \A a \in Article : item[t][a] = NoItem
  BY DEF Init
<1>2. NoRow \in BatchRow /\ NoItem \in ItemRow /\ NoRow.status = "none"
      /\ NoItem.status = "none" /\ NoRow.live = FALSE /\ NoRow.holder = NoExec
  BY DEF NoRow, NoItem, BatchRow, ItemRow, ItemStatus
<1>3. RowTypes
  <2>1. audits \in [Article -> Seq(AuditRow)]
    BY DEF Init
  <2>2. batch \in [Batch -> BatchRow] /\ item \in [Batch -> [Article -> ItemRow]]
    BY <1>2 DEF Init
  <2> QED BY <1>1, <1>2, <2>1, <2>2, RebindAssumption DEF Init, RowTypes
<1>4. ItemsPlaced
  BY <1>1, <1>2 DEF ItemsPlaced
<1>5. AuditChain
  BY DEF Init, AuditChain
<1>6. AuditedOnce
  <2>1. \A t \in Batch, a \in Article : Mine(t, a) = {}
    BY DEF Init, Mine
  <2> QED BY <1>1, <1>2, <2>1 DEF AuditedOnce
<1>7. TerminalAgrees
  BY <1>1, <1>2 DEF TerminalAgrees, Terminal
<1>8. Requests
  <2>1. Idle \in Request /\ Idle.at = "idle" /\ NoEdit \in Switch
        /\ NoEdit.at = "idle"
    BY DEF Idle, NoEdit, Request, Switch, ExecAt
  <2>2. /\ \A e \in Exec : exec[e].at = "idle"
        /\ \A x \in Editor : edit[x].at = "idle"
    BY <2>1 DEF Init
  <2>3. RequestTypes
    BY <2>1, RebindAssumption DEF Init, RequestTypes
  <2>4. \A e \in Exec : Placed(e) /\ Writing(e)
    BY <2>2 DEF Placed, Writing
  <2>5. \A x \in Editor : Editing(x)
    BY <2>2 DEF Editing
  <2> QED BY <2>3, <2>4, <2>5 DEF Requests
<1> QED BY <1>3, <1>4, <1>5, <1>6, <1>7, <1>8 DEF RebindInv, Records

LEMMA StutterKeeps == RebindInv /\ UNCHANGED vars => RebindInv'
<1> SUFFICES ASSUME RebindInv, UNCHANGED vars PROVE RebindInv'
  OBVIOUS
<1>1. Moved
  BY DEF vars, Moved
<1>2. Records'
  BY <1>1, RecordsKept DEF RebindInv
<1>3. RequestTypes' /\ \A x \in Editor : Editing(x)'
  BY DEF RebindInv, Requests, vars, RequestTypes, Editing
<1>4. \A e \in Exec : Placed(e)' /\ Writing(e)'
  BY DEF RebindInv, Requests, vars, Placed, Writing, Selected
<1> QED BY <1>2, <1>3, <1>4 DEF RebindInv, Requests

LEMMA StepKeeps == RebindInv /\ [Next]_vars => RebindInv'
BY StutterKeeps, StepMoves, RecordsKept, RequestsKept DEF RebindInv

(* The inductive invariant: what the requests rely on between their steps, *)
(* and what the rows record of each other, after every committed           *)
(* transaction (createBatchAtomically, processRebindBatchItem,             *)
(* finalizeRebindBatch, runRebindTransactionalWrite).                      *)
THEOREM RebindInvariant == Spec => []RebindInv
<1> QED BY InitRecords, StepKeeps, PTL DEF Spec

LEMMA InvGivesRecords == RebindInv => RecordsTrue
<1> SUFFICES ASSUME RebindInv PROVE RecordsTrue
  OBVIOUS
<1>1. TypeOK
  <2>1. \A a \in Article : \A k \in DOMAIN audits[a] : audits[a][k] \in AuditRow
    BY DEF RebindInv, Records, RowTypes
  <2> QED BY <2>1 DEF RebindInv, Records, Requests, RowTypes, RequestTypes, TypeOK,
                   AuditRow, BatchRow, ItemRow, Request, Switch
<1>2. ItemAudited
  <2> SUFFICES ASSUME NEW t \in Batch, NEW a \in Article
               PROVE  Cardinality(Mine(t, a)) =
                        IF item[t][a].status = "applied" THEN 1 ELSE 0
    BY DEF ItemAudited, Mine
  <2>1. IF item[t][a].status = "applied" THEN \E k : Mine(t, a) = {k}
                                         ELSE Mine(t, a) = {}
    BY DEF RebindInv, Records, AuditedOnce
  <2> QED BY <2>1, FS_Singleton, FS_EmptySet
<1> QED BY <1>1, <1>2 DEF RebindInv, Records, RecordsTrue

(* The audit rows of every article are its history, an item says applied   *)
(* exactly when its article was rebound under its batch, once, and a       *)
(* finished batch's counts and verdict are those of its items, for any     *)
(* number of batches, executions, editors and mishaps (executeRebindBatch, *)
(* runRebindTransactionalWrite).                                           *)
THEOREM RecordsAlwaysTrue == Spec => []RecordsTrue
<1> QED BY RebindInvariant, InvGivesRecords, PTL

LEMMA StepSettles ==
  RebindInv /\ [Next]_vars =>
    \A t \in Batch, a \in Article :
       (item[t][a].status = "processing" /\
        item'[t][a].status \in {"applied", "failed"})
         => item[t][a].token = batch[t].holder
<1> SUFFICES ASSUME RebindInv, [Next]_vars, NEW t \in Batch, NEW a \in Article,
                    item[t][a].status = "processing",
                    item'[t][a].status \in {"applied", "failed"}
             PROVE  item[t][a].token = batch[t].holder
  OBVIOUS
<1>1. item' # item
  OBVIOUS
<1>2. Moved
  BY <1>1, StepMoves DEF RebindInv, vars
<1>3. ~MovedCreate(t)
  BY DEF MovedCreate, RebindInv, Records, ItemsPlaced
<1>4. ASSUME NEW u \in Batch, MovedCreate(u) PROVE FALSE
  BY <1>3, <1>4 DEF MovedCreate
<1>5. ASSUME NEW u \in Batch, NEW e \in Exec, NEW b \in Selected(u),
             NEW s \in {"processing", "failed"}, MovedItem(u, b, s, e)
      PROVE  item[t][a].token = batch[t].holder
  BY <1>5 DEF MovedItem, ItemSet
<1>6. ASSUME NEW u \in Batch, NEW e \in Exec, NEW b \in Selected(u),
             MovedApplied(u, b, e)
      PROVE  item[t][a].token = batch[t].holder
  BY <1>6 DEF MovedApplied, ItemSet
<1> QED BY <1>1, <1>2, <1>4, <1>5, <1>6
        DEF Moved, MovedCounts, MovedClosed, MovedHolder, MovedEdit

(* An item is settled only in the name of the execution that holds the     *)
(* batch, whatever leases expired and were taken over since it was claimed *)
(* (guardBatchFence, markItemErrorWithFence).                              *)
THEOREM HolderSettles == Spec => OnlyHolderSettles
<1> QED BY RebindInvariant, StepSettles, PTL DEF Spec, OnlyHolderSettles
-----------------------------------------------------------------------------
(* The refinement mapping.                                                 *)
Progress(s) == IF s \in Open THEN "open"
               ELSE IF s = "none" THEN "absent" ELSE s
Plan(i) == [t \in Batch |-> [a \in Article |->
             [is |-> Progress(i[t][a].status), seen |-> i[t][a].old]]]
Closed(b) == {t \in Batch : b[t].status \in Terminal}

LEMMA PlanSet ==
  ASSUME RowTypes, NEW t \in Batch, NEW a \in Article, NEW s, NEW e,
         ItemSet(t, a, s, e)
  PROVE  Plan(item') = [Plan(item) EXCEPT ![t][a].is = Progress(s)]
<1> DEFINE P == Plan(item)
           Q == Plan(item')
<1>1. /\ \A b \in Article \ {a} : Q[t][b] = P[t][b]
      /\ \A u \in Batch \ {t} : Q[u] = P[u]
  BY DEF Plan, ItemSet
<1>2. Q[t][a] = [P[t][a] EXCEPT !.is = Progress(s)]
  <2>1. P[t][a] = [is |-> Progress(item[t][a].status), seen |-> item[t][a].old]
    BY DEF Plan
  <2>2. Q[t][a] = [is |-> Progress(s), seen |-> item[t][a].old]
    BY DEF Plan, ItemSet
  <2> QED BY <2>1, <2>2
<1>3. Q[t] = [P[t] EXCEPT ![a] = Q[t][a]]
  <2>1. P[t] = [b \in Article |-> P[t][b]] /\ Q[t] = [b \in Article |-> Q[t][b]]
    BY DEF Plan
  <2> HIDE DEF P, Q
  <2> QED BY <1>1, <2>1
<1>4. Q = [P EXCEPT ![t] = Q[t]]
  <2>1. P = [u \in Batch |-> P[u]] /\ Q = [u \in Batch |-> Q[u]]
    BY DEF Plan
  <2> HIDE DEF P, Q
  <2> QED BY <1>1, <2>1
<1>5. Q = [P EXCEPT ![t] = [P[t] EXCEPT ![a] = [P[t][a] EXCEPT !.is = Progress(s)]]]
  <2> HIDE DEF P, Q
  <2> QED BY <1>2, <1>3, <1>4
<1> QED BY <1>5

LEMMA LedgerInit == Init => Ledger!Init
<1> SUFFICES ASSUME Init PROVE Ledger!Init
  OBVIOUS
<1>1. novel \in [Article -> Novel]
  BY RebindAssumption DEF Init
<1>2. \A t \in Batch, a \in Article : item[t][a].status = "none"
  BY DEF Init, NoItem
<1>3. \A t \in Batch : batch[t].status = "none"
  BY DEF Init, NoRow
<1> QED BY <1>1, <1>2, <1>3 DEF Ledger!Init, Ledger!Absent, Open, Terminal

(* Each move of the rows is a step of the ledger or invisible in it.       *)
LEMMA CreateRefines ==
  ASSUME Records, NEW t \in Batch, MovedCreate(t)
  PROVE  Ledger!OpenBatch(t) /\ Closed(batch') = Closed(batch)
<1>1. /\ \A a \in Article : item[t][a].status = "none"
      /\ \A a \in Article : item'[t][a].status \in
           (IF a \in Selected(t) THEN {"pending", "skipped"} ELSE {"none"})
      /\ \A u \in Batch \ {t} : item'[u] = item[u]
      /\ novel' = novel
  BY DEF MovedCreate, Records, ItemsPlaced
<1>2. Closed(batch') = Closed(batch)
  <2>1. batch' = [batch EXCEPT ![t].status = "ready"] /\ batch[t].status = "none"
    BY DEF MovedCreate
  <2>2. \A u \in Batch : (batch'[u].status \in Terminal) <=>
                            (batch[u].status \in Terminal)
    BY <2>1 DEF Records, RowTypes, BatchRow, Terminal
  <2> QED BY <2>2 DEF Closed
<1>3. \A a \in Article : Plan(item)[t][a].is = "absent"
  BY <1>1 DEF Plan, Progress, Open
<1>4. \A a \in Article : Plan(item')[t][a].is \in
        (IF a \in DOMAIN Target[t] THEN {"open", "skipped"} ELSE {"absent"})
  BY <1>1 DEF Plan, Progress, Open, Selected
<1>5. \A u \in Batch \ {t} : Plan(item')[u] = Plan(item)[u]
  BY <1>1 DEF Plan
<1> QED BY <1>1, <1>2, <1>3, <1>4, <1>5
        DEF Ledger!OpenBatch, Ledger!Absent, Plan, Progress, Closed

LEMMA ClosedKept ==
  ASSUME \A u \in Batch : (batch'[u].status \in Terminal) <=>
                            (batch[u].status \in Terminal)
  PROVE  Closed(batch') = Closed(batch)
BY DEF Closed

LEMMA CloseRefines ==
  ASSUME Records, NEW t \in Batch, MovedClosed(t)
  PROVE  Ledger!Close(t)
<1>1. /\ batch[t].status = "processing" /\ OpenItems(t) = {}
      /\ UNCHANGED <<novel, item>>
  BY DEF MovedClosed
<1>2. /\ ~MovedCreate(t) /\ batch'[t].status \in Terminal
      /\ \A u \in Batch \ {t} : batch'[u] = batch[u]
  <2> DEFINE n == Tally(t)
             row == [NoRow EXCEPT !.status = Verdict(n), !.counts = n]
  <2>1. batch' = [batch EXCEPT ![t] = row]
    BY DEF MovedClosed
  <2>2. row.status = Verdict(n) /\ Verdict(n) \in Terminal
    BY DEF NoRow, Verdict, Terminal
  <2> HIDE DEF n, row
  <2> QED BY <1>1, <2>1, <2>2 DEF Records, RowTypes, MovedCreate
<1>3. Closed(batch') = Closed(batch) \cup {t} /\ t \notin Closed(batch)
  BY <1>1, <1>2 DEF Closed, Terminal
<1>4. \E a \in Article : item[t][a].status # "none"
  BY <1>1, SelectedArticles DEF Records, ItemsPlaced
<1>5. PICK a \in Article : item[t][a].status # "none"
  BY <1>4
<1>6. Plan(item)[t][a].is # "absent"
  BY <1>5 DEF Plan, Progress, Records, RowTypes, ItemRow, ItemStatus, Open
<1>7. \A b \in Article : Plan(item)[t][b].is # "open"
  BY <1>1 DEF Plan, Progress, OpenItems, Records, RowTypes, ItemRow, ItemStatus
<1>8. Plan(item') = Plan(item) /\ novel' = novel
  BY <1>1 DEF Plan
<1> QED BY <1>3, <1>6, <1>7, <1>8
        DEF Ledger!Close, Ledger!Absent, Plan, Progress, Closed

LEMMA ItemRefines ==
  ASSUME Records, NEW t \in Batch, NEW a \in Selected(t), NEW e \in Exec,
         NEW s \in {"processing", "failed"}, MovedItem(t, a, s, e)
  PROVE  Ledger!Fail(t, a) \/ UNCHANGED Ledger!ledger
<1>1. /\ item[t][a].status \in Open /\ ItemSet(t, a, s, e)
      /\ UNCHANGED <<novel, batch>> /\ a \in Article
  BY SelectedArticles DEF MovedItem
<1>2. Plan(item') = [Plan(item) EXCEPT ![t][a].is = Progress(s)]
  BY <1>1, PlanSet DEF Records
<1>3. Closed(batch') = Closed(batch)
  BY <1>1
<1>4. Plan(item)[t][a].is = "open"
  BY <1>1 DEF Plan, Progress
<1>5. CASE s = "failed"
  <2>1. Progress(s) = "failed"
    BY <1>5 DEF Progress, Open
  <2>2. Plan(item') = [Plan(item) EXCEPT ![t][a].is = "failed"]
    BY <1>2, <2>1
  <2> QED BY <1>1, <1>3, <1>4, <2>2
          DEF Ledger!Fail, Ledger!Set, Plan, Progress, Closed
<1>6. CASE s = "processing"
  <2>1. \A b \in Article : /\ Progress(item'[t][b].status) = Progress(item[t][b].status)
                            /\ item'[t][b].old = item[t][b].old
    <3> TAKE b \in Article
    <3>1. CASE b = a
      BY <1>1, <1>6, <3>1 DEF ItemSet, Progress, Open
    <3>2. CASE b # a
      BY <1>1, <3>2 DEF ItemSet
    <3> QED BY <3>1, <3>2
  <2>2. \A u \in Batch \ {t} : item'[u] = item[u]
    BY <1>1 DEF ItemSet
  <2>3. \A u \in Batch, b \in Article :
          /\ Progress(item'[u][b].status) = Progress(item[u][b].status)
          /\ item'[u][b].old = item[u][b].old
    BY <2>1, <2>2
  <2>4. Plan(item') = Plan(item)
    BY <2>3 DEF Plan
  <2> QED BY <1>1, <1>3, <2>4 DEF Ledger!ledger, Plan, Progress, Closed
<1> QED BY <1>5, <1>6

LEMMA AppliedRefines ==
  ASSUME Records, NEW t \in Batch, NEW a \in Selected(t), NEW e \in Exec,
         MovedApplied(t, a, e)
  PROVE  Ledger!Apply(t, a)
<1>1. /\ item[t][a].status = "processing" /\ ItemSet(t, a, "applied", e)
      /\ novel[a] = item[t][a].old /\ novel' = [novel EXCEPT ![a] = Target[t][a]]
      /\ batch' = batch /\ a \in Article
  BY SelectedArticles DEF MovedApplied, Swap
<1>2. Plan(item') = [Plan(item) EXCEPT ![t][a].is = Progress("applied")]
  BY <1>1, PlanSet DEF Records
<1>3. Closed(batch') = Closed(batch)
  BY <1>1
<1>4. Plan(item)[t][a].is = "open" /\ Plan(item)[t][a].seen = item[t][a].old
  BY <1>1 DEF Plan, Progress, Open
<1>5. Progress("applied") = "applied"
  BY DEF Progress, Open
<1>6. Plan(item') = [Plan(item) EXCEPT ![t][a].is = "applied"]
  BY <1>2, <1>5
<1> QED BY <1>1, <1>3, <1>4, <1>6
        DEF Ledger!Apply, Ledger!Set, Plan, Progress, Closed

LEMMA StepRefines ==
  RebindInv /\ [Next]_vars => [Ledger!LedgerNext]_(Ledger!ledger)
<1> SUFFICES ASSUME RebindInv, [Next]_vars
             PROVE  Ledger!LedgerNext \/ UNCHANGED Ledger!ledger
  OBVIOUS
<1> USE DEF RebindInv
<1>1. Moved
  BY StepMoves DEF vars, Moved
<1>2. ASSUME UNCHANGED <<novel, item>>, Closed(batch') = Closed(batch)
      PROVE  UNCHANGED Ledger!ledger
  BY <1>2 DEF Ledger!ledger, Closed
<1>3. CASE UNCHANGED <<novel, audits, batch, item>>
  BY <1>2, <1>3
<1>4. ASSUME NEW t \in Batch, MovedCreate(t) PROVE Ledger!LedgerNext
  BY <1>4, CreateRefines DEF Ledger!LedgerNext
<1>5. ASSUME NEW t \in Batch, MovedClosed(t) PROVE Ledger!LedgerNext
  BY <1>5, CloseRefines DEF Ledger!LedgerNext
<1>6. ASSUME NEW t \in Batch, MovedCounts(t) PROVE UNCHANGED Ledger!ledger
  <2> DEFINE n == Tally(t)
  <2>1. batch' = [batch EXCEPT ![t].counts = n] /\ UNCHANGED <<novel, item>>
    BY <1>6 DEF MovedCounts
  <2> HIDE DEF n
  <2>2. \A u \in Batch : batch'[u].status = batch[u].status
    BY <2>1 DEF Records, RowTypes, BatchRow
  <2> QED BY <1>2, <2>1, <2>2, ClosedKept
<1>7. ASSUME NEW t \in Batch, NEW h \in Exec \cup {NoExec}, NEW live \in BOOLEAN,
             MovedHolder(t, h, live)
      PROVE  UNCHANGED Ledger!ledger
  <2>1. \A u \in Batch : (batch'[u].status \in Terminal) <=>
                            (batch[u].status \in Terminal)
    BY <1>7 DEF MovedHolder, Terminal
  <2> QED BY <1>2, <1>7, <2>1, ClosedKept DEF MovedHolder
<1>8. ASSUME NEW t \in Batch, NEW e \in Exec, NEW a \in Selected(t),
             (\E s \in {"processing", "failed"} : MovedItem(t, a, s, e))
               \/ MovedApplied(t, a, e)
      PROVE  Ledger!LedgerNext \/ UNCHANGED Ledger!ledger
  <2>1. a \in Article
    BY SelectedArticles
  <2> QED BY <1>8, <2>1, ItemRefines, AppliedRefines DEF Ledger!LedgerNext
<1>9. ASSUME NEW a \in Article, NEW old \in Novel, NEW to \in Novel,
             NEW action \in {"rebind", "rollback"}, MovedEdit(a, old, to, action)
      PROVE  Ledger!LedgerNext
  <2>1. novel' = [novel EXCEPT ![a] = to] /\ UNCHANGED <<batch, item>>
    BY <1>9 DEF MovedEdit, Swap
  <2>2. Ledger!Edit(a)
    BY <2>1 DEF Ledger!Edit
  <2> QED BY <2>2 DEF Ledger!LedgerNext
<1> QED BY <1>1, <1>3, <1>4, <1>5, <1>6, <1>7, <1>8, <1>9 DEF Moved

(* The batches do what RebindLedger promises and nothing else, whatever    *)
(* leases, takeovers, crashes and repeated submissions they go through     *)
(* (executeRebindBatch).                                                   *)
THEOREM RebindImplementsLedger == Spec => ImplementsLedger
<1> QED BY LedgerInit, StepRefines, RebindInvariant, PTL
        DEF Spec, ImplementsLedger, Ledger!LedgerSpec
=============================================================================
