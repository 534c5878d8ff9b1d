----------------------------- MODULE RebindBatch -----------------------------
(***************************************************************************)
(* Rebinding articles to another novel: server/article-rebind.  A batch is *)
(* submitted from a preview, executed item by item by the request that     *)
(* submitted it, and resumed by further requests when that one ran out of  *)
(* its time budget, lost its lease or died.  Editors rebind and roll back  *)
(* single articles meanwhile.                                              *)
(*                                                                         *)
(* One action is one database statement or transaction between two awaits, *)
(* but the transaction that writes an article is two: what it reads, and   *)
(* its compare-and-swap at commit, for nothing locks the article between   *)
(* them under READ COMMITTED.  It does hold the batch row from its fence   *)
(* on (Locked).  A batch is named by its request_token, which is unique.   *)
(* Time is free: live says the lease has not expired.  All articles share  *)
(* one locale, so article_novel_locale_key makes novel an injection.       *)
(***************************************************************************)
EXTENDS Naturals, Sequences, FiniteSets

CONSTANTS
  Batch,       \* request tokens, each with its fixed payload
  Article,
  Novel,
  Bound0,      \* the novel each article is bound to at the start
  Target,      \* per batch: the novel its preview matches each article to
  Exec,        \* requests in flight at once; a finished one is reused
  Editor,      \* single-article requests, one rebind or rollback each
  Demands,     \* bound: what happens together: batches asked for, editors,
               \* and how many requests may die or throw, or leases expire
               \* under a running request, meanwhile
  NoExec, NoBatch, NoArticle, NoNovel

ASSUME RebindAssumption ==
  /\ Bound0 \in [Article -> Novel]
  /\ \A a, b \in Article : Bound0[a] = Bound0[b] => a = b
  /\ DOMAIN Target = Batch
  /\ IsFiniteSet(Article)
  /\ \A t \in Batch : DOMAIN Target[t] \subseteq Article /\ DOMAIN Target[t] # {}
  /\ \A t \in Batch : \A a \in DOMAIN Target[t] : Target[t][a] \in Novel
  /\ Demands \subseteq [batches : SUBSET Batch, editors : SUBSET Editor,
                     mishaps : Nat]
  /\ NoExec \notin Exec /\ NoBatch \notin Batch
  /\ NoArticle \notin Article /\ NoNovel \notin Novel

VARIABLES
  novel,    \* article.novel_id
  audits,   \* per article, its operation_audit rows in commit order
  preview,  \* per batch, the old novel its preview saw for each article
  batch,    \* article_novel_rebind_batch rows
  item,     \* article_novel_rebind_batch_item rows
  exec,     \* the requests executing a batch
  edit,     \* the single-article requests
  asked,    \* the demand of this behaviour
  mishaps   \* that may still happen

rows == <<novel, audits, batch, item>>
vars == <<novel, audits, preview, batch, item, exec, edit, asked, mishaps>>

Selected(t) == DOMAIN Target[t]
Open == {"pending", "processing"}
Terminal == {"completed", "partial", "failed"}
ItemStatus == Open \cup {"none", "applied", "skipped", "failed"}
ExecAt == {"idle", "locks", "create", "relock", "recreate", "acquire",
           "load", "loop", "process", "write", "mark", "finalize", "release"}

NoItem == [status |-> "none", token |-> NoExec, old |-> NoNovel]
NoRow == [status |-> "none", holder |-> NoExec, live |-> FALSE,
          counts |-> [applied |-> 0, skipped |-> 0, failed |-> 0]]
Idle == [at |-> "idle", batch |-> NoBatch, todo |-> {}, cur |-> NoArticle,
         locked |-> {}, fresh |-> FALSE]
NoEdit == [at |-> "idle", article |-> NoArticle, old |-> NoNovel,
           to |-> NoNovel, action |-> "rebind"]

HasStatus(t, s) == {a \in Article : item[t][a].status = s}
OpenItems(t) == {a \in Article : item[t][a].status \in Open}
Tally(t) == [applied |-> Cardinality(HasStatus(t, "applied")),
             skipped |-> Cardinality(HasStatus(t, "skipped")),
             failed |-> Cardinality(HasStatus(t, "failed"))]

(* The transaction that writes an item holds its batch row to its commit.  *)
Locked(t) == \E e \in Exec : exec[e].at = "write" /\ exec[e].batch = t

Go(e, step) == exec' = [exec EXCEPT ![e].at = step]
End(e) == exec' = [exec EXCEPT ![e] = Idle]

(* guardBatchFence: the lease is mine and has not expired.                 *)
FenceHolds(e) ==
  LET b == batch[exec[e].batch]
  IN  b.status = "processing" /\ b.holder = e /\ b.live

(* Claimed by this execution and by none since.                            *)
ItemFenceHolds(e) ==
  LET i == item[exec[e].batch][exec[e].cur]
  IN  i.status = "processing" /\ i.token = e

(* The guards this model decides: drift, target already bound, and target  *)
(* occupied.  The others depend on the novel and its promo link alone and  *)
(* may block at any time.                                                  *)
Clear(a, old, to) ==
  /\ novel[a] = old
  /\ novel[a] # to
  /\ \A b \in Article \ {a} : novel[b] # to
-----------------------------------------------------------------------------
Init ==
  /\ novel = Bound0
  /\ audits = [a \in Article |-> <<>>]
  /\ preview = [t \in Batch |-> [a \in Article |-> NoNovel]]
  /\ batch = [t \in Batch |-> NoRow]
  /\ item = [t \in Batch |-> [a \in Article |-> NoItem]]
  /\ exec = [e \in Exec |-> Idle]
  /\ edit = [x \in Editor |-> NoEdit]
  /\ asked \in Demands
  /\ mishaps = asked.mishaps

(* The executable rows of a preview: the article is bound to another novel *)
(* than the one it is matched to.                                          *)
buildRebindBatchPreview(t) ==
  /\ t \in asked.batches
  /\ \A a \in Selected(t) :
       preview[t][a] = NoNovel /\ Clear(a, novel[a], Target[t][a])
  /\ preview' = [preview EXCEPT ![t] =
                   [a \in Article |-> IF a \in Selected(t) THEN novel[a]
                                      ELSE NoNovel]]
  /\ UNCHANGED <<rows, exec, edit, asked, mishaps>>

(* submitRebindBatch, up to its first read: a token that has its batch is  *)
(* answered with that batch, which is not executed again.                  *)
Submit(e, t) ==
  /\ exec[e].at = "idle"
  /\ \A a \in Selected(t) : preview[t][a] # NoNovel
  /\ batch[t].status = "none"
  /\ exec' = [exec EXCEPT ![e] = [Idle EXCEPT !.at = "locks", !.batch = t]]
  /\ UNCHANGED <<rows, preview, edit, asked, mishaps>>

(* Read outside the transaction that creates the batch, and again before   *)
(* the second try.                                                         *)
activeArticleLocks(e) ==
  /\ exec[e].at \in {"locks", "relock"}
  /\ exec' = [exec EXCEPT ![e] = [@ EXCEPT
       !.at = IF exec[e].at = "locks" THEN "create" ELSE "recreate",
       !.locked = {a \in Selected(exec[e].batch) :
                     \E u \in Batch : item[u][a].status \in Open}]]
  /\ UNCHANGED <<rows, preview, edit, asked, mishaps>>

Created(e, t) ==
  /\ batch' = [batch EXCEPT ![t].status = "ready"]
  /\ item' = [item EXCEPT ![t] = [a \in Article |->
       IF a \notin Selected(t) THEN NoItem
       ELSE [status |-> IF a \in exec[e].locked THEN "skipped" ELSE "pending",
             token |-> NoExec, old |-> preview[t][a]]]]

\* No duplicate check.
createBatchOnceMutant(e) ==
  /\ exec[e].at \in {"create", "recreate"}
  /\ Created(e, exec[e].batch)
  /\ Go(e, "acquire")
  /\ UNCHANGED <<novel, audits, preview, edit, asked, mishaps>>

(* createBatchAtomically: the batch with its items, or, when a concurrent  *)
(* submission of the token won, that one's batch as a replay.              *)
createBatchOnce(e) ==
  /\ exec[e].at \in {"create", "recreate"}
  /\ IF batch[exec[e].batch].status = "none"
     THEN Created(e, exec[e].batch) /\ Go(e, "acquire")
     ELSE End(e) /\ UNCHANGED <<batch, item>>
  /\ UNCHANGED <<novel, audits, preview, edit, asked, mishaps>>

(* The transaction fails for another reason and the batch is not there:    *)
(* one more try.                                                           *)
CreateFails(e) ==
  /\ exec[e].at \in {"create", "recreate"}
  /\ mishaps > 0
  /\ batch[exec[e].batch].status = "none"
  /\ IF exec[e].at = "create" THEN Go(e, "relock") ELSE End(e)
  /\ mishaps' = mishaps - 1
  /\ UNCHANGED <<rows, preview, edit, asked>>

(* resumeRebindBatch: at any time, on any batch that is not terminal.      *)
Resume(e, t) ==
  /\ exec[e].at = "idle"
  /\ batch[t].status \in {"ready", "processing"}
  /\ exec' = [exec EXCEPT ![e] = [Idle EXCEPT !.at = "acquire", !.batch = t]]
  /\ UNCHANGED <<rows, preview, edit, asked, mishaps>>

\* An expired lease is not taken over.
AcquirableMutant(t) ==
  batch[t].status \in {"ready", "processing"} /\ batch[t].holder = NoExec

\* No lease is held, or the one held has expired.
Acquirable(t) ==
  /\ batch[t].status \in {"ready", "processing"}
  /\ batch[t].holder = NoExec \/ ~batch[t].live

acquireRebindBatchLease(e) ==
  LET t == exec[e].batch
  IN  /\ exec[e].at = "acquire"
      /\ ~Locked(t)
      /\ IF Acquirable(t)
         THEN /\ batch' = [batch EXCEPT ![t] =
                   [status |-> "processing", holder |-> e, live |-> TRUE,
                    counts |-> @.counts]]
              /\ Go(e, "load")
         ELSE End(e) /\ UNCHANGED batch
      /\ UNCHANGED <<novel, audits, preview, item, edit, asked, mishaps>>

LoadItems(e) ==
  /\ exec[e].at = "load"
  /\ exec' = [exec EXCEPT ![e] = [@ EXCEPT
       !.at = "loop", !.fresh = TRUE, !.todo = OpenItems(exec[e].batch)]]
  /\ UNCHANGED <<rows, preview, edit, asked, mishaps>>

(* The request budget is spent, looked at between two items only, or no    *)
(* item is left.                                                           *)
LoopEnds(e) ==
  /\ exec[e].at = "loop"
  /\ exec[e].todo = {} \/ ~exec[e].fresh
  /\ Go(e, "finalize")
  /\ UNCHANGED <<rows, preview, edit, asked, mishaps>>

(* An open item becomes this execution's, whoever held it before; a        *)
(* terminal one is passed over; a lost fence (or a lease that could not be *)
(* renewed) ends the loop.                                                 *)
claimRebindBatchItem(e) ==
  LET t == exec[e].batch
  IN  /\ exec[e].at = "loop"
      /\ \E a \in exec[e].todo :
           IF ~FenceHolds(e)
           THEN Go(e, "finalize") /\ UNCHANGED item
           ELSE IF item[t][a].status \in Open
           THEN /\ item' = [item EXCEPT ![t][a] =
                     [status |-> "processing", token |-> e, old |-> @.old]]
                /\ exec' = [exec EXCEPT ![e] = [@ EXCEPT
                     !.at = "process", !.cur = a, !.fresh = FALSE,
                     !.todo = exec[e].todo \ {a}]]
           ELSE /\ exec' = [exec EXCEPT ![e].todo = @ \ {a}]
                /\ UNCHANGED item
      /\ UNCHANGED <<novel, audits, preview, batch, edit, asked, mishaps>>

\* Trusts the claim: no fence is asserted.
BeginItemMutant(e) ==
  LET t == exec[e].batch
      a == exec[e].cur
  IN  /\ exec[e].at = "process"
      /\ Go(e, IF Clear(a, item[t][a].old, Target[t][a]) THEN "write"
               ELSE "mark")
      /\ UNCHANGED <<rows, preview, edit, asked, mishaps>>

(* processRebindBatchItem up to its write: the two fences, then the guards *)
(* evaluated afresh.                                                       *)
BeginItem(e) ==
  LET t == exec[e].batch
      a == exec[e].cur
  IN  /\ exec[e].at = "process"
      /\ IF FenceHolds(e) /\ ItemFenceHolds(e)
         THEN \/ Go(e, "mark")
              \/ Clear(a, item[t][a].old, Target[t][a]) /\ Go(e, "write")
         ELSE Go(e, "finalize")
      /\ UNCHANGED <<rows, preview, edit, asked, mishaps>>

\* The update is keyed by the article alone.
SwapMutant(a, old, to, action, t) ==
  /\ \A b \in Article \ {a} : novel[b] # to
  /\ novel' = [novel EXCEPT ![a] = to]
  /\ audits' = [audits EXCEPT ![a] =
       Append(@, [before |-> old, after |-> to, action |-> action,
                  batch |-> t])]

(* runRebindTransactionalWrite from its update on: the article where it is *)
(* still bound to old, and the audit row.  The snapshot's before was read  *)
(* with the guards.                                                        *)
Swap(a, old, to, action, t) ==
  /\ novel[a] = old
  /\ \A b \in Article \ {a} : novel[b] # to
  /\ novel' = [novel EXCEPT ![a] = to]
  /\ audits' = [audits EXCEPT ![a] =
       Append(@, [before |-> old, after |-> to, action |-> action,
                  batch |-> t])]

(* The rest of the transaction and its commit.  When the answer to the     *)
(* commit is lost, the executor treats it as an item error.                *)
CommitItem(e) ==
  LET t == exec[e].batch
      a == exec[e].cur
  IN  /\ exec[e].at = "write"
      /\ Swap(a, item[t][a].old, Target[t][a], "rebind", t)
      /\ item' = [item EXCEPT ![t][a].status = "applied"]
      /\ \/ Go(e, "loop") /\ UNCHANGED mishaps
         \/ mishaps > 0 /\ mishaps' = mishaps - 1 /\ Go(e, "mark")
      /\ UNCHANGED <<preview, batch, edit, asked>>

(* The compare-and-swap finds another novel, or the unique index another   *)
(* article: the transaction is undone.                                     *)
AbortItem(e) ==
  LET t == exec[e].batch
      a == exec[e].cur
  IN  /\ exec[e].at = "write"
      /\ ~Clear(a, item[t][a].old, Target[t][a])
      /\ Go(e, "mark")
      /\ UNCHANGED <<rows, preview, edit, asked, mishaps>>

\* The item is marked by its id.
markItemErrorMutant(e) ==
  LET t == exec[e].batch
      a == exec[e].cur
  IN  /\ exec[e].at = "mark"
      /\ IF FenceHolds(e)
         THEN item' = [item EXCEPT ![t][a].status = "failed"] /\ Go(e, "loop")
         ELSE Go(e, "finalize") /\ UNCHANGED item
      /\ UNCHANGED <<novel, audits, preview, batch, edit, asked, mishaps>>

(* markItemErrorWithFence: only while the batch and the item are mine.     *)
markItemError(e) ==
  LET t == exec[e].batch
      a == exec[e].cur
  IN  /\ exec[e].at = "mark"
      /\ IF FenceHolds(e) /\ ItemFenceHolds(e)
         THEN item' = [item EXCEPT ![t][a].status = "failed"] /\ Go(e, "loop")
         ELSE Go(e, "finalize") /\ UNCHANGED item
      /\ UNCHANGED <<novel, audits, preview, batch, edit, asked, mishaps>>

Verdict(n) ==
  IF n.applied = 0 THEN "failed"
  ELSE IF n.skipped > 0 \/ n.failed > 0 THEN "partial" ELSE "completed"

finalizeRebindBatch(e) ==
  LET t == exec[e].batch
  IN  /\ exec[e].at = "finalize"
      /\ batch' =
           IF ~FenceHolds(e) THEN batch
           ELSE IF OpenItems(t) # {}
                THEN [batch EXCEPT ![t].counts = Tally(t)]
                ELSE [batch EXCEPT ![t] =
                        [NoRow EXCEPT !.status = Verdict(Tally(t)),
                                      !.counts = Tally(t)]]
      /\ Go(e, "release")
      /\ UNCHANGED <<novel, audits, preview, item, edit, asked, mishaps>>

\* Only the token is cleared.
releaseRebindBatchLease(e) ==
  LET t == exec[e].batch
  IN  /\ exec[e].at = "release"
      /\ batch' = IF batch[t].status = "processing" /\ batch[t].holder = e
                  THEN [batch EXCEPT ![t] =
                          [status |-> "processing", holder |-> NoExec,
                           live |-> FALSE, counts |-> @.counts]]
                  ELSE batch
      /\ End(e)
      /\ UNCHANGED <<novel, audits, preview, item, edit, asked, mishaps>>

(* An exception leaves the loop by the finally block; a process that dies  *)
(* leaves everything as it was, and its open transaction is undone.        *)
Interrupt(e) ==
  /\ exec[e].at # "idle"
  /\ mishaps > 0
  /\ mishaps' = mishaps - 1
  /\ \/ exec[e].at \in {"load", "loop", "mark", "finalize"}
        /\ Go(e, "release")
     \/ End(e)
  /\ UNCHANGED <<rows, preview, edit, asked>>

(* Ninety seconds pass without a renewal, because the holder is gone or,   *)
(* rarely, because it stalls.                                              *)
LeaseExpires(t) ==
  LET running == \E e \in Exec : /\ exec[e].batch = t
                                  /\ exec[e].at # "acquire"
                                  /\ batch[t].holder = e
  IN  /\ batch[t].live
      /\ running => mishaps > 0
      /\ mishaps' = IF running THEN mishaps - 1 ELSE mishaps
      /\ batch' = [batch EXCEPT ![t].live = FALSE]
      /\ UNCHANGED <<novel, audits, preview, item, exec, edit, asked>>
-----------------------------------------------------------------------------
(* switchArticleNovel up to its write.  The novel the editor saw is the    *)
(* novel the transaction reads, or the guards refuse.                      *)
BeginSwitch(x, a, to) ==
  /\ edit[x].at = "idle"
  /\ Clear(a, novel[a], to)
  /\ edit' = [edit EXCEPT ![x] = [at |-> "write", article |-> a,
                old |-> novel[a], to |-> to, action |-> "rebind"]]
  /\ UNCHANGED <<rows, preview, exec, asked, mishaps>>

LastRebind(a, k) ==
  /\ k \in DOMAIN audits[a]
  /\ audits[a][k].action = "rebind"
  /\ \A j \in DOMAIN audits[a] : j > k => audits[a][j].action # "rebind"

(* rollbackArticleNovel: the latest rebind's before, not a rollback's,     *)
(* then the current novel, then switchArticleNovel from the one to the     *)
(* other: three reads in no transaction.                                   *)
ReadLastRebind(x, a) ==
  /\ edit[x].at = "idle"
  /\ \E k \in DOMAIN audits[a] :
       /\ LastRebind(a, k)
       /\ edit' = [edit EXCEPT ![x] = [at |-> "current", article |-> a,
                     old |-> NoNovel, to |-> audits[a][k].before,
                     action |-> "rollback"]]
  /\ UNCHANGED <<rows, preview, exec, asked, mishaps>>

ReadCurrent(x) ==
  /\ edit[x].at = "current"
  /\ edit' = [edit EXCEPT ![x] = [@ EXCEPT
                !.at = "guards", !.old = novel[edit[x].article]]]
  /\ UNCHANGED <<rows, preview, exec, asked, mishaps>>

RollbackGuards(x) ==
  /\ edit[x].at = "guards"
  /\ edit' = [edit EXCEPT ![x].at =
                IF Clear(edit[x].article, edit[x].old, edit[x].to)
                THEN "write" ELSE "done"]
  /\ UNCHANGED <<rows, preview, exec, asked, mishaps>>

(* The write and its commit, or the error the editor is shown.             *)
EndSwitch(x) ==
  LET s == edit[x]
  IN  /\ s.at = "write"
      /\ \/ Swap(s.article, s.old, s.to, s.action, NoBatch)
         \/ ~Clear(s.article, s.old, s.to) /\ UNCHANGED <<novel, audits>>
      /\ edit' = [edit EXCEPT ![x].at = "done"]
      /\ UNCHANGED <<preview, batch, item, exec, asked, mishaps>>
-----------------------------------------------------------------------------
Run(e) ==
  \/ activeArticleLocks(e) \/ createBatchOnce(e)
  \/ acquireRebindBatchLease(e) \/ LoadItems(e)
  \/ LoopEnds(e) \/ claimRebindBatchItem(e)
  \/ BeginItem(e) \/ CommitItem(e) \/ AbortItem(e) \/ markItemError(e)
  \/ finalizeRebindBatch(e) \/ releaseRebindBatchLease(e)

Edit(x) ==
  \/ \E a \in Article : ReadLastRebind(x, a)
  \/ \E a \in Article, n \in Novel : BeginSwitch(x, a, n)
  \/ ReadCurrent(x) \/ RollbackGuards(x) \/ EndSwitch(x)

Next ==
  \/ \E t \in Batch : buildRebindBatchPreview(t) \/ LeaseExpires(t)
  \/ \E e \in Exec, t \in Batch : Submit(e, t) \/ Resume(e, t)
  \/ \E e \in Exec : Run(e) \/ CreateFails(e) \/ Interrupt(e)
  \/ \E x \in asked.editors : Edit(x)

Spec == Init /\ [][Next]_vars

(* A request in flight goes on (Run), the lease of a dead holder runs out, *)
(* and the operator goes on clicking resume on an unfinished batch.        *)
Fairness ==
  /\ \A e \in Exec : WF_vars(Run(e))
  /\ \A t \in Batch : /\ WF_vars(LeaseExpires(t))
                      /\ SF_vars(\E e \in Exec : Resume(e, t))

FairSpec == Spec /\ Fairness
-----------------------------------------------------------------------------
TypeOK ==
  /\ novel \in [Article -> Novel]
  /\ \A a \in Article : \A k \in DOMAIN audits[a] :
       audits[a][k] \in [before : Novel, after : Novel,
                         action : {"rebind", "rollback"},
                         batch : Batch \cup {NoBatch}]
  /\ preview \in [Batch -> [Article -> Novel \cup {NoNovel}]]
  /\ batch \in [Batch ->
       [status : Terminal \cup {"none", "ready", "processing"},
        holder : Exec \cup {NoExec}, live : BOOLEAN,
        counts : [applied : Nat, skipped : Nat, failed : Nat]]]
  /\ item \in [Batch -> [Article ->
       [status : ItemStatus, token : Exec \cup {NoExec},
        old : Novel \cup {NoNovel}]]]
  /\ exec \in [Exec ->
       [at : ExecAt, batch : Batch \cup {NoBatch}, todo : SUBSET Article,
        cur : Article \cup {NoArticle}, locked : SUBSET Article,
        fresh : BOOLEAN]]
  /\ edit \in [Editor ->
       [at : {"idle", "current", "guards", "write", "done"},
        article : Article \cup {NoArticle}, old : Novel \cup {NoNovel},
        to : Novel \cup {NoNovel}, action : {"rebind", "rollback"}]]
  /\ asked \in Demands /\ mishaps \in 0..asked.mishaps
  /\ \A t \in Batch :
       /\ batch[t].live => batch[t].holder # NoExec
       /\ batch[t].holder # NoExec => batch[t].status = "processing"

AuditChain ==
  \A a \in Article :
    LET h == audits[a]
    IN  IF h = <<>> THEN novel[a] = Bound0[a]
        ELSE /\ h[1].before = Bound0[a]
             /\ h[Len(h)].after = novel[a]
             /\ \A k \in 2..Len(h) : h[k].before = h[k - 1].after

ItemAudited ==
  \A t \in Batch, a \in Article :
    LET mine == {k \in DOMAIN audits[a] : audits[a][k].batch = t}
    IN  Cardinality(mine) = IF item[t][a].status = "applied" THEN 1 ELSE 0

TerminalAgrees ==
  \A t \in Batch : batch[t].status \in Terminal =>
    /\ OpenItems(t) = {}
    /\ batch[t].counts = Tally(t)
    /\ batch[t].status = Verdict(Tally(t))
    /\ batch[t].holder = NoExec

(* The rows that batches leave behind are true.  The audit rows of an      *)
(* article are its history: each starts where the one before it ended,     *)
(* though batches, editors and rollbacks write the article and read it     *)
(* with nothing locked in between, and rollback relies on the history      *)
(* (runRebindTransactionalWrite).  An item says applied exactly when its   *)
(* article was rebound under its request id, once: resumes, takeovers of a *)
(* lease and lost answers neither repeat nor misreport a rebind            *)
(* (processRebindBatchItem, markItemErrorWithFence).  A finished batch has *)
(* no open item, and its counts and verdict are those of its items, in     *)
(* however many executions (finalizeRebindBatch).                          *)
RecordsTrue == TypeOK /\ AuditChain /\ ItemAudited /\ TerminalAgrees

(* An item is settled only in the name of the execution that holds the     *)
(* batch: one whose lease was taken over between two items, or between a   *)
(* claim and its transaction, settles nothing more (guardBatchFence).      *)
OnlyHolderSettles ==
  [][\A t \in Batch, a \in Article :
       (item[t][a].status = "processing" /\
        item'[t][a].status \in {"applied", "failed"})
         => item[t][a].token = batch[t].holder]_vars

(* A batch once created ends, if the operator goes on resuming it: no      *)
(* crash, lost lease or spent budget leaves it unfinished for good         *)
(* (executeRebindBatch).                                                   *)
BatchEnds ==
  \A t \in Batch : (batch[t].status # "none") ~> (batch[t].status \in Terminal)

(* The batches implement RebindLedger.                                     *)
Ledger == INSTANCE RebindLedger WITH
  bound <- novel,
  plan <- [t \in Batch |-> [a \in Article |->
             [is |-> IF item[t][a].status \in Open THEN "open"
                     ELSE IF item[t][a].status = "none" THEN "absent"
                     ELSE item[t][a].status,
              seen |-> item[t][a].old]]],
  closed <- {t \in Batch : batch[t].status \in Terminal}

(* Seen through its articles, plans and finished batches alone, a batch    *)
(* with its leases, takeovers, crashes and repeated submissions does what  *)
(* RebindLedger says and nothing else: no plan is made twice, no item that *)
(* is settled and no batch that is finished opens again, and an article    *)
(* moves only from where the plan saw it (executeRebindBatch).             *)
ImplementsLedger == Ledger!LedgerSpec
=============================================================================
