---------------------------- MODULE ContentPipeline ----------------------------
(***************************************************************************)
(* From source items to novels to articles, in bulk: a batch is a request  *)
(* whose one parent item enumerates its selection into child tasks, and    *)
(* each child item makes one novel of a source item, or one article of a   *)
(* novel.  Administrators make single ones inline at the same time, and    *)
(* rebinds move articles between novels.                                   *)
(*                                                                         *)
(* Each transaction is followed statement by statement, with the unique    *)
(* index entries and row locks the others wait for.  Items run under the   *)
(* queue of TaskQueue, reduced to claim, crash and recovery; nobody pauses *)
(* or cancels them here.  A source item and the novel made of it go by one *)
(* name.  Source items are unfit for a novel at times: ignored, stale,     *)
(* deleted, or of a locale that has no site.                               *)
(*                                                                         *)
(* Sources: src/lib/tasks/catalog-batch.ts, article-generate.ts,           *)
(* worker/handlers/catalog-batch.ts, article-generate-batch.ts,            *)
(* novel-materialize.ts, article-generate.ts, server/content-creation.     *)
(***************************************************************************)
EXTENDS Integers, FiniteSets, FiniteSetsExt

CONSTANTS
  Source,
  Title,        \* of each source; one locale
  Group,        \* its channel app, and the page its novel is listed on
  Linked0,      \* sources that have a novel at the start
  Article0,     \* and those of them that have an article
  Ready,        \* novels with a ready promo link
  Batch, Kind,  \* "materialize", "generate" (one leaf task) or "generate_all"
  Selection,    \* per batch, the ids, or what a generate_all's filter matches
  Handler, Editor,
  Inline,       \* requests of administrators: kind, source, target of a move
  Demands,      \* bound: the batches and requests that are made together,
                \* the source items that change meanwhile, and the slugs a
                \* title can have: SLUG_SUFFIX_MAX_ATTEMPTS
  MaxMishaps,   \* bound: workers that die, and batches that expire
  NoBatch, NoSource

Generating == {"generate", "generate_all"}

ASSUME PipelineAssumption ==
  /\ IsFiniteSet(Source)
  /\ Linked0 \subseteq Source /\ Article0 \subseteq Linked0
  /\ Ready \subseteq Source
  /\ Kind \in [Batch -> Generating \cup {"materialize"}]
  /\ Selection \in [Batch -> SUBSET Source]
  /\ Group \in [Source -> Nat]
  /\ Inline \subseteq [kind : {"materialize", "generate", "move"},
                       source : Source, to : Source \cup {NoSource}]
  /\ Demands \subseteq [batches : SUBSET Batch, inline : SUBSET Inline,
                        changes : SUBSET Source, slugs : Nat \ {0}]
  /\ MaxMishaps \in Nat
  /\ NoBatch \notin Batch /\ NoSource \notin Source

VARIABLES
  novels,    \* per source, the slug numbers of the novel rows made of it
  linked,    \* sources with a novel_id
  fitness,   \* per source, "again" if it is fit but has been unfit
  articles,  \* novels with an article
  batchTask, \* per batch, its enumerating item and its task's result
  item,      \* per batch and source, the child item
  expired,   \* batches whose expiresAt has passed
  demand,    \* batches, inline requests and changes still to be made; slugs
  tx,        \* per process, the transaction it is in
  mishaps

content == <<novels, linked, fitness, articles>>
pipeVars == <<content, batchTask, item, expired, demand, tx, mishaps>>

Proc == Handler \cup Editor
Groups == {Group[s] : s \in Source}
Open == {"pending", "processing"}
ItemStatus == Open \cup {"none", "success", "skipped", "failed"}
Zero == [linked |-> 0, submitted |-> 0, blocked |-> 0, ineligible |-> 0]
SlugNo == Nat \ {0}
Phase0 == {"idle", "snapshot", "children", "read", "slug", "create", "link",
           "lock", "article", "insert", "move", "check", "commit", "fallback"}

NoTxn == [at |-> "idle", kind |-> "none", batch |-> NoBatch,
         source |-> NoSource, to |-> NoSource, slug |-> 0,
         plan |-> {}, todo |-> {}, active |-> {}, made |-> {}, counts |-> Zero]

PipeInit ==
  /\ novels = [s \in Source |-> {}]
  /\ linked = Linked0
  /\ articles = Article0
  /\ batchTask = [b \in Batch |->
                 [status |-> "none", enum |-> "none", counts |-> Zero]]
  /\ item = [b \in Batch |-> [s \in Source |-> "none"]]
  /\ expired = {}
  /\ demand \in Demands
  /\ fitness \in [Source -> {"fit", "unfit"}]
  /\ \A s \in Source \ demand.changes : fitness[s] = "fit"
  /\ tx = [p \in Proc |-> NoTxn]
  /\ mishaps = 0

At(p, at) == tx[p].at = at
Go(p, at) == tx' = [tx EXCEPT ![p].at = at]
End(p) == tx' = [tx EXCEPT ![p] = NoTxn]
(* The transaction is undone.  A worker has the item to fail, in another   *)
(* transaction (handleFinalizeFailure).                                    *)
Throw(p) == IF tx[p].batch = NoBatch THEN End(p) ELSE Go(p, "fallback")
-----------------------------------------------------------------------------
(* A child task is seen through its items: the sources it has items of,    *)
(* which is what its operationScopeHash is the hash of.                    *)
Members(b, g) ==
  {s \in Source : /\ item[b][s] # "none"
                  /\ Kind[b] = "generate" \/ Group[s] = g}
Children(b) == {Members(b, g) : g \in Groups} \ {{}}
Runs(b, members) == \E s \in members : item[b][s] \in Open

SameType(b, c) == (Kind[b] \in Generating) = (Kind[c] \in Generating)

(* generic_task_active_scope_uidx.                                         *)
ScopeActive(b, members) ==
  \E c \in Batch : /\ SameType(b, c)
                   /\ members \in Children(c)
                   /\ Runs(c, members)

InGroup(S, g) == {s \in S : Group[s] = g}
Drafts(p) == {InGroup(tx[p].plan, g) : g \in tx[p].made}

\* In whatever order the groups come.
NextGroupsMutant(groups) == groups

(* In the order of the ids.                                                *)
NextGroups(groups) == {g \in groups : \A h \in groups : g <= h}

Failed(b, members) == {s \in members : item[b][s] = "failed"}

Troubled(b) ==
  (\E m \in Children(b) : Failed(b, m) # {}) \/ batchTask[b].counts.blocked > 0

(* deriveCatalogBatchPhase, of a parent, its result and its children as    *)
(* recomputeParentTask leaves them.                                        *)
Phase(b) ==
  LET tasks == Children(b)
      unenumerated == CASE batchTask[b].status = "failed" -> "failed"
                        [] batchTask[b].status = "processing" -> "materializing"
                        [] OTHER -> "queued"
  IN IF batchTask[b].enum = "expired" THEN "expired"
     ELSE IF batchTask[b].enum = "none" THEN unenumerated
     ELSE IF \E m \in tasks : Runs(b, m) THEN "executing"
     ELSE IF tasks # {} /\ \A m \in tasks : Failed(b, m) = m THEN "failed"
     ELSE IF Troubled(b) THEN "completed_with_errors"
     ELSE "completed"

(* Another enumeration has made a child of this scope, not committed yet.  *)
DraftedBy(p, g, q) ==
  /\ p # q /\ tx[q].kind = "enumerate"
  /\ SameType(tx[p].batch, tx[q].batch)
  /\ InGroup(tx[p].plan, g) \in Drafts(q)

(* What the statement a process is at waits for another transaction to     *)
(* give up: an index entry or a row lock.                                  *)
Waits(p, q) ==
  LET me == tx[p]
      other == tx[q]
      same == me.source = other.source IN
  /\ p # q
  /\ CASE me.at = "children" ->
            \E g \in NextGroups(me.todo) \ me.active : DraftedBy(p, g, q)
       [] me.at = "create" -> \* novel_locale_slug_active_uidx
            /\ other.kind = "materialize" /\ other.at \in {"link", "commit"}
            /\ Title[me.source] = Title[other.source] /\ me.slug = other.slug
       [] me.at = "link" -> \* the source item's row
            other.kind = "materialize" /\ other.at = "commit" /\ same
       [] me.at = "lock" -> \* the novel's row
            \/ other.kind = "generate" /\ same
                 /\ other.at \in {"article", "insert", "commit"}
            \/ other.kind = "move" /\ other.at = "commit" /\ other.to = me.source
       [] me.at = "insert" -> \* article_novel_locale_key
            /\ other.kind = "move" /\ other.at \in {"check", "commit"}
            /\ other.to = me.source
       [] me.at = "move" -> \* the article's row, and that key
            \/ other.kind = "generate" /\ other.at = "commit"
                 /\ other.source = me.to
            \/ other.kind = "move" /\ other.at \in {"check", "commit"}
                 /\ (same \/ other.to = me.to)
       [] me.at = "check" -> \* the foreign key's lock on the novel
            /\ other.kind = "generate" /\ other.source = me.to
            /\ other.at \in {"article", "insert", "commit"}
       [] OTHER -> FALSE

Clear(p) == \A q \in Proc : ~Waits(p, q)
-----------------------------------------------------------------------------
(* enqueueCatalogBatch, enqueueArticleGenerateParentBatch: the parent task *)
(* with its one item.  The token's unique index makes the loser of two     *)
(* equal requests answer with the winner's task; the scope's refuses a     *)
(* selection that an unfinished parent has.                                *)
enqueueParent(b) ==
  /\ Kind[b] # "generate"
  /\ \A c \in Batch : Kind[c] = Kind[b] /\ Selection[c] = Selection[b] =>
       batchTask[c].status \notin Open
  /\ b \in demand.batches
  /\ demand' = [demand EXCEPT !.batches = @ \ {b}]
  /\ batchTask' = [batchTask EXCEPT ![b].status = "pending"]
  /\ UNCHANGED <<content, item, expired, tx, mishaps>>

(* resolveArticleGenerateAdmissions.                                       *)
Admitted(S) == {s \in S : s \in linked \cap Ready /\ s \notin articles}

(* The request that selects novels by id creates its leaf task itself,     *)
(* with the ones admitted now; none at all is a task that has ended.       *)
enqueueArticleGenerateBatch(b) ==
  LET ready == Admitted(Selection[b]) IN
  /\ Kind[b] = "generate"
  /\ b \in demand.batches
  /\ demand' = [demand EXCEPT !.batches = @ \ {b}]
  /\ ~ScopeActive(b, ready)
  /\ \A q \in Proc : tx[q].kind = "enumerate" =>
       ~(SameType(b, tx[q].batch) /\ ready \in Drafts(q))
  /\ batchTask' = [batchTask EXCEPT ![b] =
       [status |-> "success", enum |-> "completed",
        counts |-> [linked |-> 0, submitted |-> Cardinality(ready),
                    blocked |-> Cardinality(Selection[b]) - Cardinality(ready),
                    ineligible |-> 0]]]
  /\ item' = [item EXCEPT ![b] =
       [s \in Source |-> IF s \in ready THEN "pending" ELSE "none"]]
  /\ UNCHANGED <<content, expired, tx, mishaps>>

(* Six hours after the submission.                                         *)
Expire(b) ==
  /\ batchTask[b].status # "none" /\ b \notin expired
  /\ mishaps < MaxMishaps
  /\ mishaps' = mishaps + 1
  /\ expired' = expired \cup {b}
  /\ UNCHANGED <<content, batchTask, item, demand, tx>>
-----------------------------------------------------------------------------
(* The enumeration, one REPEATABLE READ transaction.                       *)
ClaimParent(p, b) ==
  /\ p \in Handler /\ At(p, "idle")
  /\ batchTask[b].status = "pending"
  /\ batchTask' = [batchTask EXCEPT ![b].status = "processing"]
  /\ tx' = [tx EXCEPT ![p] = [NoTxn EXCEPT !.at = "snapshot",
                                            !.kind = "enumerate", !.batch = b]]
  /\ UNCHANGED <<content, item, expired, demand, mishaps>>

Unfit(s) == fitness[s] = "unfit"

(* Source items whose novel is to be made: none that have one, and none    *)
(* that are unfit.                                                         *)
Plan(b) ==
  IF Kind[b] = "materialize"
  THEN {s \in Selection[b] \ linked : ~Unfit(s)}
  ELSE Admitted(Selection[b])

Foreign(b) == IF Kind[b] = "materialize" THEN {s \in Selection[b] : Unfit(s)} ELSE {}

(* The unfit are counted, too: one whose locale has no site as blocked, if *)
(* it has no novel, one that is ignored, stale or deleted as ineligible.   *)
(* The listing of novels to generate for matches the admissible ones only. *)
Counts(b, foreign) ==
  LET out == {s \in Selection[b] : Unfit(s)} \ foreign IN
  IF Kind[b] = "materialize"
  THEN [linked |-> Cardinality((Selection[b] \cap linked) \ out),
        submitted |-> Cardinality(Plan(b)),
        blocked |-> Cardinality(foreign \ linked),
        ineligible |-> Cardinality(out)]
  ELSE [Zero EXCEPT !.submitted = Cardinality(Plan(b))]

Snapshot(p) ==
  LET b == tx[p].batch
      plan == Plan(b)
      groups == {Group[s] : s \in plan} IN
  /\ At(p, "snapshot")
  /\ IF b \in expired
     THEN /\ batchTask' = [batchTask EXCEPT ![b].status = "skipped",
                                            ![b].enum = "expired"]
          /\ End(p)
     ELSE /\ \E foreign \in SUBSET Foreign(b) : tx' = [tx EXCEPT ![p] = [@ EXCEPT
               !.at = IF plan = {} THEN "commit" ELSE "children",
               !.plan = plan,
               !.todo = groups,
               !.active = {g \in groups : /\ Kind[b] = "materialize"
                                          /\ ScopeActive(b, InGroup(plan, g))},
               !.counts = Counts(b, foreign)]]
          /\ UNCHANGED batchTask
  /\ UNCHANGED <<content, item, expired, demand, mishaps>>

Counted(counts, group, isActive) ==
  IF isActive
  THEN [counts EXCEPT !.blocked = @ + Cardinality(group),
                      !.submitted = @ - Cardinality(group)]
  ELSE counts

(* One group: passed over if the snapshot has a runnable task of its       *)
(* scope, created otherwise, which the index refuses if there is one now.  *)
CreateChild(p) ==
  \E g \in NextGroups(tx[p].todo) :
    LET t == tx[p]
        group == InGroup(t.plan, g)
        isActive == g \in t.active IN
    /\ At(p, "children")
    /\ isActive \/ \A q \in Proc : ~DraftedBy(p, g, q)
    /\ IF ~isActive /\ ScopeActive(t.batch, group)
       THEN Throw(p)
       ELSE tx' = [tx EXCEPT ![p] = [t EXCEPT
              !.at = IF t.todo = {g} THEN "commit" ELSE "children",
              !.todo = @ \ {g},
              !.made = IF isActive THEN @ ELSE @ \cup {g},
              !.counts = Counted(@, group, isActive)]]
    /\ UNCHANGED <<content, batchTask, item, expired, demand, mishaps>>

CommitParent(p) ==
  LET t == tx[p]
      submitted == {s \in t.plan : Group[s] \in t.made} IN
  /\ At(p, "commit") /\ t.kind = "enumerate"
  /\ batchTask' = [batchTask EXCEPT ![t.batch] =
       [status |-> "success", enum |-> "completed", counts |-> t.counts]]
  /\ item' = [item EXCEPT ![t.batch] =
       [s \in Source |-> IF s \in submitted THEN "pending" ELSE @[s]]]
  /\ End(p)
  /\ UNCHANGED <<content, expired, demand, mishaps>>
-----------------------------------------------------------------------------
ClaimItem(p, b, s) ==
  /\ p \in Handler /\ At(p, "idle")
  /\ item[b][s] = "pending" /\ b \notin expired
  /\ item' = [item EXCEPT ![b][s] = "processing"]
  /\ tx' = [tx EXCEPT ![p] = [NoTxn EXCEPT
       !.at = IF Kind[b] = "materialize" THEN "read" ELSE "lock",
       !.kind = IF Kind[b] = "materialize" THEN "materialize" ELSE "generate",
       !.batch = b, !.source = s]]
  /\ UNCHANGED <<content, batchTask, expired, demand, mishaps>>

SkipExpired(b, s) ==
  /\ item[b][s] = "pending" /\ b \in expired
  /\ item' = [item EXCEPT ![b][s] = "skipped"]
  /\ UNCHANGED <<content, batchTask, expired, demand, tx, mishaps>>

(* materializeNovelFromSourceItem, generateArticleFromNovel and the write  *)
(* of a rebind, called by an administrator.                                *)
Request(p, r) ==
  /\ p \in Editor /\ At(p, "idle")
  /\ r \in demand.inline
  /\ demand' = [demand EXCEPT !.inline = @ \ {r}]
  /\ tx' = [tx EXCEPT ![p] = [NoTxn EXCEPT
       !.at = CASE r.kind = "materialize" -> "read"
                [] r.kind = "generate" -> "lock"
                [] r.kind = "move" -> "move",
       !.kind = r.kind, !.source = r.source, !.to = r.to]]
  /\ UNCHANGED <<content, batchTask, item, expired, mishaps>>

\* The item's outcome, if it is an item's transaction, in its commit.
Outcome(p, status) ==
  item' = IF tx[p].batch = NoBatch THEN item
          ELSE [item EXCEPT ![tx[p].batch][tx[p].source] = status]
-----------------------------------------------------------------------------
(* A scan, a backfill or an operator makes a source item unfit, or fit     *)
(* again; not while its row is locked.                                     *)
Change(s) ==
  /\ s \in demand.changes
  /\ \A p \in Proc :
       ~(At(p, "commit") /\ tx[p].kind = "materialize" /\ tx[p].source = s)
  /\ demand' = [demand EXCEPT !.changes = @ \ {s}]
  /\ fitness' = [fitness EXCEPT ![s] = IF Unfit(s) THEN "again" ELSE "unfit"]
  /\ UNCHANGED <<novels, linked, articles, batchTask, item, expired, tx, mishaps>>

(* runMaterializeTransaction: loadPlan in two statements, the row, the     *)
(* compare-and-set on the source item.  An unfit item is blocked, a linked *)
(* one for being deleted or for its locale only.                           *)
ReadSource(p) ==
  LET s == tx[p].source IN
  /\ At(p, "read")
  /\ \/ s \in linked /\ Outcome(p, "skipped") /\ End(p)
     \/ Unfit(s) /\ Outcome(p, "failed") /\ End(p)
     \/ s \notin linked /\ ~Unfit(s) /\ Go(p, "slug") /\ UNCHANGED item
  /\ UNCHANGED <<content, batchTask, expired, demand, mishaps>>

(* Slugs of the novels with this title.  A novel of the start has the      *)
(* first.                                                                  *)
Taken(title) ==
  UNION {novels[s] \cup (IF s \in Linked0 THEN {1} ELSE {}) :
           s \in {t \in Source : Title[t] = title}}

\* No suffix is tried.
resolveUniqueSlugMutant(title) == 1

(* The title's own, then the suffixes from 2.                              *)
FreeSlugs(title) == 1..demand.slugs \ Taken(title)

resolveUniqueSlug(title) == Min(FreeSlugs(title))

PickSlug(p) ==
  LET title == Title[tx[p].source] IN
  /\ At(p, "slug")
  /\ IF FreeSlugs(title) = {}
     THEN Outcome(p, "failed") /\ End(p)
     ELSE /\ tx' = [tx EXCEPT ![p].at = "create",
                                ![p].slug = resolveUniqueSlug(title)]
          /\ UNCHANGED item
  /\ UNCHANGED <<content, batchTask, expired, demand, mishaps>>

CreateNovel(p) ==
  /\ At(p, "create")
  /\ Clear(p)
  /\ IF tx[p].slug \in Taken(Title[tx[p].source]) THEN Throw(p) ELSE Go(p, "link")
  /\ UNCHANGED <<content, batchTask, item, expired, demand, mishaps>>

\* The update is by id alone.
LinkableMutant(s) == TRUE

Linkable(s) == s \notin linked

LinkSource(p) ==
  LET s == tx[p].source IN
  /\ At(p, "link")
  /\ Clear(p)
  /\ \/ Linkable(s) /\ Go(p, "commit")
     \/ ~Linkable(s) /\ Throw(p)
     \/ Unfit(s) /\ Throw(p) \* deleted since the read
  /\ UNCHANGED <<content, batchTask, item, expired, demand, mishaps>>

(* Linking makes an ignored or stale item fit.                             *)
CommitNovel(p) ==
  /\ At(p, "commit") /\ tx[p].kind = "materialize"
  /\ novels' = [novels EXCEPT ![tx[p].source] = @ \cup {tx[p].slug}]
  /\ linked' = linked \cup {tx[p].source}
  /\ \/ UNCHANGED fitness
     \/ /\ Unfit(tx[p].source)
        /\ fitness' = [fitness EXCEPT ![tx[p].source] = "again"]
  /\ Outcome(p, "success")
  /\ End(p)
  /\ UNCHANGED <<articles, batchTask, expired, demand, mishaps>>
-----------------------------------------------------------------------------
\* The novel is read without its lock.
LockNovelMutant(p) ==
  /\ At(p, "lock")
  /\ IF tx[p].source \in linked
     THEN Go(p, "article") /\ UNCHANGED item
     ELSE Outcome(p, "failed") /\ End(p)
  /\ UNCHANGED <<content, batchTask, expired, demand, mishaps>>

(* runGenerate: the novel FOR UPDATE, then the article and the promo link, *)
(* then the row.                                                           *)
LockNovel(p) ==
  /\ At(p, "lock")
  /\ Clear(p)
  /\ IF tx[p].source \in linked
     THEN Go(p, "article") /\ UNCHANGED item
     ELSE Outcome(p, "failed") /\ End(p)
  /\ UNCHANGED <<content, batchTask, expired, demand, mishaps>>

(* No promo link, no template or no slug to be had: failed.                *)
ReadArticle(p) ==
  /\ At(p, "article")
  /\ IF tx[p].source \in articles
     THEN Outcome(p, "skipped") /\ End(p)
     ELSE \/ tx[p].source \in Ready /\ Go(p, "insert") /\ UNCHANGED item
          \/ Outcome(p, "failed") /\ End(p)
  /\ UNCHANGED <<content, batchTask, expired, demand, mishaps>>

InsertArticle(p) ==
  /\ At(p, "insert")
  /\ Clear(p)
  /\ IF tx[p].source \in articles THEN Throw(p) ELSE Go(p, "commit")
  /\ UNCHANGED <<content, batchTask, item, expired, demand, mishaps>>

CommitArticle(p) ==
  /\ At(p, "commit") /\ tx[p].kind = "generate"
  /\ articles' = articles \cup {tx[p].source}
  /\ Outcome(p, "success")
  /\ End(p)
  /\ UNCHANGED <<novels, linked, fitness, batchTask, expired, demand, mishaps>>
-----------------------------------------------------------------------------
(* runRebindTransactionalWrite, the statement that moves the article: its  *)
(* index entry, then the foreign key's share of the new novel.             *)
MoveEntry(p) ==
  /\ At(p, "move")
  /\ Clear(p)
  /\ IF tx[p].source \in articles /\ tx[p].to \in linked \ articles
     THEN Go(p, "check") ELSE End(p)
  /\ UNCHANGED <<content, batchTask, item, expired, demand, mishaps>>

MoveCheck(p) ==
  /\ At(p, "check")
  /\ Clear(p)
  /\ Go(p, "commit")
  /\ UNCHANGED <<content, batchTask, item, expired, demand, mishaps>>

CommitMove(p) ==
  /\ At(p, "commit") /\ tx[p].kind = "move"
  /\ articles' = (articles \ {tx[p].source}) \cup {tx[p].to}
  /\ End(p)
  /\ UNCHANGED <<novels, linked, fitness, batchTask, item, expired, demand, mishaps>>
-----------------------------------------------------------------------------
(* handleFinalizeFailure: the item, or the batchTask's item, is failed; tasks *)
(* of these types are not retried.                                         *)
Fallback(p) ==
  LET t == tx[p] IN
  /\ At(p, "fallback")
  /\ IF t.kind = "enumerate"
     THEN /\ batchTask' = [batchTask EXCEPT ![t.batch].status = "failed"]
          /\ UNCHANGED item
     ELSE Outcome(p, "failed") /\ UNCHANGED batchTask
  /\ End(p)
  /\ UNCHANGED <<content, expired, demand, mishaps>>

(* A cycle of waits; db-retry.ts does not retry a deadlock's victim.       *)
Stuck(S) == S # {} /\ \A p \in S : \E q \in S : Waits(p, q)
DeadlockVictim(p) ==
  /\ \E S \in SUBSET Proc : p \in S /\ Stuck(S)
  /\ Throw(p)
  /\ UNCHANGED <<content, batchTask, item, expired, demand, mishaps>>

Die(p) ==
  /\ p \in Handler /\ ~At(p, "idle")
  /\ mishaps < MaxMishaps
  /\ mishaps' = mishaps + 1
  /\ End(p)
  /\ UNCHANGED <<content, batchTask, item, expired, demand>>

Lost(b, s) == /\ item[b][s] = "processing"
              /\ \A p \in Proc : tx[p].batch # b \/ tx[p].source # s

\* An enumeration is not looked for.
RecoverMutant(b) ==
  /\ \E s \in Source : Lost(b, s) /\ item' = [item EXCEPT ![b][s] = "pending"]
  /\ UNCHANGED <<content, batchTask, expired, demand, tx, mishaps>>

(* The lease of a worker that died expires.                                *)
Recover(b) ==
  /\ \/ /\ \E s \in Source : Lost(b, s) /\ item' = [item EXCEPT ![b][s] = "pending"]
        /\ UNCHANGED batchTask
     \/ /\ batchTask[b].status = "processing"
        /\ \A p \in Proc : tx[p].kind = "enumerate" => tx[p].batch # b
        /\ batchTask' = [batchTask EXCEPT ![b].status = "pending"]
        /\ UNCHANGED item
  /\ UNCHANGED <<content, expired, demand, tx, mishaps>>
-----------------------------------------------------------------------------
Enumerate(p) == Snapshot(p) \/ CreateChild(p) \/ CommitParent(p)
Materialize(p) ==
  ReadSource(p) \/ PickSlug(p) \/ CreateNovel(p) \/ LinkSource(p) \/ CommitNovel(p)
Generate(p) == LockNovel(p) \/ ReadArticle(p) \/ InsertArticle(p) \/ CommitArticle(p)
Move(p) == MoveEntry(p) \/ MoveCheck(p) \/ CommitMove(p)
Work(p) ==
  \/ Enumerate(p) \/ Materialize(p) \/ Generate(p) \/ Move(p)
  \/ Fallback(p) \/ DeadlockVictim(p)
Claim(p) ==
  \E b \in Batch : ClaimParent(p, b) \/ \E s \in Source : ClaimItem(p, b, s)
Sweep(b) == Recover(b) \/ \E s \in Source : SkipExpired(b, s)

PipeNext ==
  \/ \E b \in Batch : \/ enqueueParent(b) \/ enqueueArticleGenerateBatch(b)
                      \/ Expire(b) \/ Sweep(b)
  \/ \E s \in Source : Change(s)
  \/ \E p \in Proc : Work(p) \/ Claim(p) \/ Die(p) \/ \E r \in Inline : Request(p, r)

PipeSpec == PipeInit /\ [][PipeNext]_pipeVars

(* Workers poll for ever, transactions go on or are chosen as victims, and *)
(* leases expire.  Nothing repeats for ever here, so it is enough that one *)
(* of the steps that can be taken is.                                      *)
System ==
  (\E p \in Proc : Work(p) \/ Claim(p)) \/ \E b \in Batch : Sweep(b)
FairSpec == PipeSpec /\ WF_pipeVars(System)
-----------------------------------------------------------------------------
Tallies ==
  LET number == 0..Cardinality(Source) IN
  [linked : number, submitted : number, blocked : number, ineligible : number]

PipeTypeOK ==
  /\ novels \in [Source -> SUBSET SlugNo]
  /\ linked \subseteq Source
  /\ fitness \in [Source -> {"fit", "unfit", "again"}]
  /\ articles \subseteq linked
  /\ batchTask \in [Batch ->
       [status : ItemStatus, enum : {"none", "completed", "expired"},
        counts : Tallies]]
  /\ item \in [Batch -> [Source -> ItemStatus]]
  /\ expired \subseteq Batch
  /\ demand \in [batches : SUBSET Batch, inline : SUBSET Inline,
                 changes : SUBSET Source, slugs : SlugNo]
  /\ \A p \in Proc : /\ tx[p].at \in Phase0
                     /\ tx[p].slug \in SlugNo \cup {0}
                     /\ tx[p].todo \cap tx[p].made = {}
  /\ mishaps \in 0..MaxMishaps

(* One novel per source item, and none that no source item points to:      *)
(* batches, their retries after a crash and inline requests read the       *)
(* source item long before they write it (runMaterializeTransaction).      *)
OneNovelPerSource ==
  \A s \in Source : Cardinality(novels[s]) = IF s \in linked \ Linked0 THEN 1 ELSE 0

CountsAddUp ==
  \A b \in Batch : batchTask[b].enum = "completed" =>
    LET c == batchTask[b].counts IN
    /\ c.submitted = Cardinality({s \in Source : item[b][s] # "none"})
    /\ Kind[b] # "generate_all" =>
         c.linked + c.submitted + c.blocked + c.ineligible = Cardinality(Selection[b])

(* Selected, but never asked for: the batch counts such items.             *)
LeftOut(b) ==
  {s \in Source : /\ item[b][s] = "none" /\ fitness[s] # "fit"
                  /\ batchTask[b].counts.ineligible > 0}

CompletedMeansLinked ==
  \A b \in Batch : Kind[b] = "materialize" /\ Phase(b) = "completed" =>
    Selection[b] \ linked \subseteq
      LeftOut(b) \cup {s \in Source : b \in expired /\ item[b][s] = "skipped"}

FailureHasCause ==
  \A b \in Batch, s \in Source :
    Kind[b] = "materialize" /\ item[b][s] = "failed" =>
      \/ s \in linked
      \/ fitness[s] # "fit"
      \/ FreeSlugs(Title[s]) = {}
      \/ \E t \in linked \ Linked0 : t # s /\ Title[t] = Title[s]

(* What a batch shows is true.  The result of a parent task accounts for   *)
(* its selection, and the number submitted is the number of items its      *)
(* children have (createCatalogBatchHandler).  A batch that its page calls *)
(* completed has a novel for every source item it selected, whoever made   *)
(* it; the exceptions are items that were skipped because the batch        *)
(* expired, and items that were unfit when the batch looked, which the     *)
(* page shows as ineligible (deriveCatalogBatchPhase passes over them).    *)
(* An item that failed to make its novel has a cause: the source item has  *)
(* been linked by another, or has been unfit, or its title has no slug     *)
(* left, or a novel of the same title took the slug in between (loadPlan,  *)
(* runMaterializeTransaction, handleFinalizeFailure).                      *)
ResultsTrue == PipeTypeOK /\ CountsAddUp /\ CompletedMeansLinked /\ FailureHasCause

(* Transactions wait for each other in a circle only around a rebind that  *)
(* moves an article to a novel whose article is being generated: it has    *)
(* the index entry and wants the novel (lockNovelForUpdate).  Enumerations *)
(* whose groups collide, and materializations, never do.                   *)
OnlyMovesDeadlock ==
  \A S \in SUBSET Proc : Stuck(S) =>
    \E p, q \in S : At(p, "check") /\ At(q, "insert") /\ tx[p].to = tx[q].source

(* A generation finds its novel's article taken at the insert only if a    *)
(* rebind put one there; another generation is waited for before the read  *)
(* (lockNovelForUpdate).                                                   *)
GenerationsSerial ==
  [][\A p \in Proc :
       At(p, "commit") /\ tx[p].kind = "generate" /\ tx'[p] = NoTxn =>
         \A q \in Proc \ {p} : At(q, "insert") => tx[q].source # tx[p].source]_pipeVars

(* A submitted batch comes to an end, whatever dies, deadlocks or fails    *)
(* (FairSpec): time and again all of them have, and a batch that has been  *)
(* submitted stays so.                                                     *)
Ended(b) == /\ batchTask[b].status \in {"success", "skipped", "failed"}
            /\ \A s \in Source : item[b][s] \notin Open

BatchesEnd == []<>(\A b \in Batch : batchTask[b].status # "none" => Ended(b))
=============================================================================
