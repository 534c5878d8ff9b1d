# A TLA+ model of cps-novel

cps-novel is a TypeScript system (Next.js admin and public site, PostgreSQL
through Prisma, background workers) that synchronises a catalog of novels from
an upstream distributor, claims promotion links for them, makes novels and
articles of them, publishes the articles and tells search engines.  Most of
this runs as items of durable tasks, claimed by workers under a fenced lease;
the rest runs in administrators' requests.  This directory models both, checks
the models with TLC and proves part of what they say with TLAPS.

Paths below are relative to the repository root.  `PROJECT.json` maps every
definition to the lines it models, lists the hazards of the code with the
properties that are about them, and keeps one faulty variant (a mutant) per
property that TLC finds violated.

## 1. Inventory

| Component | State | Operations | Hard behaviour |
|---|---|---|---|
| Task queue rows (`src/lib/tasks/store.ts`, `types.ts`) | parent rows (status, counters), item rows (status, attempt_count, lease columns, lease_epoch) | claim, recover, heartbeat, fenced write phase, finalize, requeue | lost leases, unanswered commits, late writers, parent derivation under concurrency |
| Worker runtime (`worker/runtime/worker.ts`, `worker/index.ts`) | the lease in hand, the handler's promise, heartbeat loop | `processOneWorkerCycle`, drain, finalize fallback | crash, shutdown, handlers that outlive their cycle |
| Task control (`src/server/task-admin/service.ts`, `src/lib/tasks/task-termination.ts`, `worker/handlers/promo-link-claim-system-hold.ts`) | parent status, audit rows | pause, resume, abort, retry failed, retry finalization, system hold, manual-review resolution | races with items in flight, lock order, replayed requests |
| Promo-link claim (`worker/handlers/promo-link-claim.ts`, `src/lib/tasks/promo-link-claim.ts`) | `promo_link`, claim tasks | submission, the handler's decision tree, protected writes | one non-idempotent upstream mutation, crashes around it, overlapping tasks |
| Side-effect intents (`src/lib/tasks/side-effect-intent.ts`) | `side_effect_intent` | prepare, transition, confirm by readback, adjudicate | unknown outcomes |
| Catalog scan (`worker/handlers/moboreader.ts`, `src/lib/tasks/moboreader.ts`) | page items, stop reasons, finalize item and its generations, the staged preview task | page fetch and persist, stop cascade, finalize, staging, re-arm | cascades inside finalize, ordering of pages, a staging in several transactions |
| Article rebind (`src/server/article-rebind`) | batch row with its own lease, item rows, the articles' history | preview, submit, execute, resume, single rebind and rollback | an executor driven by requests, which can die or be overtaken |
| IndexNow (`src/lib/indexnow`, `worker/handlers/indexnow-delivery.ts`) | outbox and attempt rows | enqueue, deliver, defer, recover, sweep | crash between two writes, unfenced handlers |
| Catalog and article-generate batches (`worker/handlers/catalog-batch.ts`, `article-generate-batch.ts`, `src/lib/tasks/catalog-batch.ts`, `article-generate.ts`) | parent item, child tasks, result counts | submit, enumerate, expire, the phase shown | enumeration in a snapshot, rival children, resumption after a crash |
| Content creation (`src/server/content-creation`, `worker/handlers/novel-materialize.ts`, `article-generate.ts`) | novels, slugs, articles | materialize, generate, by workers and inline | unique-index races, lock order against rebinds |
| Publish gate and publication (`src/server/publish-gate`, `src/server/publication`) | status of articles and novels, chapters' content, announcements | evaluate, publish, withdraw, takedown, restore | facts read before they are used, writes by id, replayed requests |
| Sitemap refresh (`src/lib/seo`, `worker/handlers/sitemap-refresh.ts`) | release directories, two symlinks, lock and status files, a process-wide list | enqueue, lock, generate, switch, report | file operations interleaved by several processes, crashes between them, a cache that never ages |
| Tagging (`src/server/tagging`, `worker/handlers/novel-tag-backfill.ts`) | the tag state of a novel, its runs, mapping edges, the taxonomy, audit rows | look, replace, exit, approve, deactivate, edit the taxonomy, submit and run classifications | edits from an old page, repeated requests, a classification under a manual takeover |
| Scheduler, upstream rate gate, credentials, authentication, site settings, home carousel | their rows, one pacing clock | single-transaction edits | mostly optimistic checks |
| SEO templates, locale, slugs, public pages, admin reads, operator scripts | derived | formatting, queries, one-off repairs | little |

How they interact: the admin service, the schedulers and the batch handlers
insert tasks and change parent rows; workers claim items; handlers call upstream
and write business rows, either in fenced phase writes or in the finalize
transaction itself (`protectedWrite`).  A catalog scan stages a preview task; a
materialization makes the novel a generation writes an article for; a fetched
promo link is what the publish gate asks for; a rebind moves the article to
another novel; a first publication enqueues an IndexNow row and a sitemap
refresh.  All of it is shared state in PostgreSQL at READ COMMITTED (one
enumeration is REPEATABLE READ) and, for the sitemap, in files; there is no
message passing.

What makes each correct: an item is never worked on by two holders of the same
term, has at most one effective result, a bounded number of attempts, and comes
to an end; a parent row agrees with its items, except that an administrator's
or the system's status is never undone by them; an upstream mutation of unknown
outcome is never repeated and never forgotten; what a scan, a batch or a
delivery says about itself has evidence in the rows; an article's bindings are
a chain without gaps; an accepted edit replaces what its author saw; what is
public has a body, and nothing is published over a takedown; what the site
serves as its sitemap is whole and keeps what was announced.

## 2. Modules

| Module | Models | Kind |
|---|---|---|
| `TaskLease` | what the queue promises about one unit of work | abstract specification |
| `TaskQueue` | queue, worker cycle and task control; one action per committed transaction | specification, instantiates `TaskLease` |
| `TaskQueueProofs` | theorems about `TaskQueue` | proofs |
| `TaskRowLocks` | the same transactions, one action per statement, over row locks | specification |
| `PromoClaim` | promo-link scopes: submissions, handler runs, intents, link, upstream | specification |
| `HandlerProofs` | theorems about `PromoClaim` and `Tagging` | proofs |
| `CatalogScan` | one `catalog_scan` task: pages, finalization, staging, administrator | specification |
| `CatalogProofs` | theorems about `CatalogScan` | proofs |
| `RebindLedger` | what a rebind batch promises | abstract specification |
| `RebindBatch` | batches, executors and editors; one action per statement or transaction | specification, instantiates `RebindLedger` |
| `RebindProofs` | theorems about `RebindBatch` | proofs |
| `IndexNowOutbox` | outbox row, attempts, delivery items, handlers, recovery, sweep | specification |
| `IndexNowProofs` | theorems about `IndexNowOutbox` | proofs |
| `ContentPipeline` | batches, child items and inline requests that make novels and articles | specification |
| `LockProofs` | theorems about `TaskRowLocks` and `ContentPipeline` | proofs |
| `PublishGate` | publication and rights transitions, one action per statement | specification |
| `PublishGateProofs` | theorems about `PublishGate` | proofs |
| `SitemapRefresh` | enqueueing, lock, generation and switch, one action per file operation | specification |
| `SitemapProofs` | theorems about `SitemapRefresh` | proofs |
| `Tagging` | administrators' edits of tags, edges and taxonomy, and classification items | specification |
| `MC...` | the small instances of the module they name | model checking |

`...Mutant` operators are faulty variants of the definition after them.  No
specification uses them.

**TaskQueue.**  `item[i]` is an item row, `task[t]` a parent row, `pc[w]` and
`lease[w]` the position and the lease of a worker in `processOneWorkerCycle`,
`zombies` the leases of handlers left behind at the drain deadline, `audited`
the committed administrator requests.  `effects`, `lastWrite` and `rearmed` are
history variables that only properties read.  Actions carry the names of the
functions (`Claim`, `Recover`, `Heartbeat`, `PhaseWrite`, `FinalizeTerminal`,
`FinalizeRetry`, `pauseTask`, ...); each includes the parent recompute that the
code runs in the same transaction.  Tasks are channel syncs and generic tasks of
every type but `catalog_scan`, whose branches of the recompute (page counters,
`partial_failed`) are `CatalogScan`'s.  A parent's `blocked` says that an
`article.generate` task was admitted with novels it had to leave out: it then
ends `completed_with_errors` without a failed item, until a retry writes new
counts without them.  Time is one Boolean per item: `live` says
that `locked_until` lies in the future.  The code compares it with
`transaction_timestamp()`, so a fenced write that began in time may commit
late: the guard of a fenced write is `Owns`, and it may be refused when the
lease is lost or has expired.

**TaskRowLocks** opens the transactions up.  `row` and `parent` are committed
rows, `txn[c]` the open transaction of a client with its uncommitted rows
(`draft`, `mark`), `itemLock` and `parentLock` the row locks.  `FOR UPDATE SKIP
LOCKED` takes up to 128 candidate rows, of which a claim rewrites one and keeps
the others locked to its end; `UPDATE` and `FOR UPDATE` wait, then look at the
row again.  Deadlocks are states in which a set of transactions wait for each
other; `Victim` is PostgreSQL's way out.

**PromoClaim** follows one scope (one `idempotencyKey`).  `run[k]` is the
handler run of effect key `k`, the pair of item and attempt; its side-effect
intent, what happened to its getcode request, whether upstream has a code and
the status of the PromoLink row are kept beside it.  A process that dies ends a
run at any step; a handler that outlives its lease simply goes on.  The queue
is reduced to claim, recover, fence and retry, with free time: a lease may be
recovered at any moment, which covers every timing of heartbeats.  Submission is
two steps, because the overlap precheck is read outside the inserting
transaction.  `selection[i]` tells which submissions select the same, and
`task[i]` whether the task is open, paused, halted or ended: only an open one is
seen by the precheck and by the active-scope index (`Active`), but a pause or an
abort leaves the item in flight at work.  Two histories record what may come of
that: `together`, the pairs of items that were being processed at once, and
`detached`, the items whose task was paused or aborted under them.

**CatalogScan** is one scan in apply mode.  A page handler is two steps, what it
reads and its finalize transaction with all that this cascades to; the finalize
handler is one step per transaction.  Upstream answers with any count and any
total.  A plan passes over the books that are not eligible when it is made: no
account, an app that is not allowed, a source item unlinked or deleted
(`misfits`, drawn with the scene; `skipped` remembers them), and without an
eligible book there is no shell to stage.  Items of a preview fail one by one.
The code can also stage a preview that is disabled by the feature flags; the
finalization checks the same flags first (`worker/handlers/moboreader.ts:1324`),
so it does not come to that.  `TurnedAway` names the books of a plan that was
answered by an active preview of the same scope that does not hold them.  A scene is drawn in the initial state: it says together how many
handlers, lease losses, failing transactions, unresolved accounts, redeploys and
competing previews there are, so that each rivalry is searched in full without
the product of all of them.

**RebindBatch** and **RebindLedger.**  A batch is named by its request token; an
executor is a request in flight with its own position in `executeBatch`.  The
transaction that writes an article is two actions, what it reads and its
compare-and-swap, since nothing locks the article in between.  `RebindLedger`
has no requests, leases or locks: each article of the plan is settled once, is
applied in the one step that moves it from the novel the plan saw to the novel
it was matched to, and the batch closes when all are settled.  The refinement
mapping reads the ledger off the committed rows.

**IndexNowOutbox.**  The handler's writes are not fenced and commit one by one,
so each is an action, of the handler, of the recovery of abandoned deliveries
and of the sweep.  Time is free: a waiting row is due at any moment.

**ContentPipeline** follows transactions statement by statement with the unique
index entries and row locks that the others wait for.  A batch enumerates its
selection in one snapshot; children run under a reduced queue; administrators
make single novels and articles, and move articles, at the same time.  Source
items become unfit and fit again (`fitness`, `Change`): an enumeration counts
the unfit ones as ineligible and makes no child for them, a materialization
that meets one ends its item failed, as it does when the title has used up the
suffixes a slug may get.  The phase a batch shows is computed as the admin page
computes it, which passes over ineligible items.

**PublishGate** has one action per statement.  An open transaction is what it
has read and the rows it has locked; its writes appear when it commits.  A
publication's writes are conditional on the status it read, the rights
transitions write by id what they listed before.  One article is generated in
the meantime (`Generate`), under the novel's row lock and whatever its status:
`drafted` are those inserted under a takedown.  Committed publications are
dispatched after the commit; a dispatch that fails is logged and forgotten
(`DispatchFails`), and `lost` are the articles whose announcement was lost so or
with the process.

**SitemapRefresh** has one action per file operation or query.  A release is
named by the task that makes it, so that the attempts of a task share a
directory; the lock file tells tasks apart, not attempts.  `cache` is the list a
worker process keeps per locale from its first generation on, `late` the
articles announced when some process had its list without them, `ousted` that a
stale lock was taken over.  Of time the model knows that thirty-five minutes may
pass (`Age`).

**Tagging.**  An administrator looks (`Look`), sends a request with the version
he saw (`Send`), and may send it again.  A request is a transaction in up to
three actions, cut at the locks it may wait for and at the reads another may
overtake; `txn[p].at` says where it is, and the locks that are held follow from
that.  `request` and `conflicted` record what was asked and answered, `seen` the
manual rows that were on the administrator's page; nothing but properties reads
`conflicted` and `seen`.  A classification looks, is fenced, looks again in its
transaction and then locks the novel (`Classify` to
`replaceAutoTagSnapshotInTransaction`).  Rivalries are drawn as scenes, as in
`CatalogScan`.

## 3. Runs

| Run | Properties | Bounds | States |
|---|---|---|---|
| `lease` | `TermsUnique EffectOnce WritesInOrder LiveLeaseKept TasksFinish` | 2 workers, 1 item, 2 attempts, all four requests, 1 crash; `FairSpec` | 0.15 million |
| `control` | `ParentAgrees ControlSticks ImplementsTaskLease` | 2 workers, 2 items of one task, 1 attempt, all four requests | 0.5 million |
| `locks` | `ParentDerived OnlySweepsDeadlock RowsSerial SweepIsComplete` | 2 workers, 2 items of one task, pause, resume, abort and hold, 2 attempts | 0.4 million |
| `promo` | `GetcodeOnce IntentsTrue ReviewIsAdmins` | 2 items with the same selection or two that overlap; handler runs, pauses and aborts: 3 together | 2.0 million |
| `catalog` | `VerdictTrue BooksCovered StagedOnce ScanEnds` | 3 pages of a longer catalogue; a failing transaction, a redeploy and a retry; or a hung handler, a second generation and a competing preview; or books that are eligible in one plan and not in the next; `FairSpec` | 0.65 million |
| `rebind` | `RecordsTrue OnlyHolderSettles ImplementsLedger BatchEnds` | 2 articles, 2 executors; one batch, an editor and a mishap, or two overlapping batches; `FairSpec` | 0.3 million |
| `indexnow` | `RequestsCounted OutcomeEvidenced RowsSettle` | 1 row, 2 attempts (numbers to 4), 2 tries of an item, 2 handlers, 1 mishap; `FairSpec` | 0.2 million |
| `content` | `OneNovelPerSource ResultsTrue OnlyMovesDeadlock GenerationsSerial BatchesEnd` | 4 source items, 2 batches of novels or 2 of articles, 2 workers, 1 administrator with up to 2 requests, source items that become unfit, 1 mishap; `FairSpec` | 0.33 million |
| `publish` | `PublicHasBody AnnouncedOnce TakedownCovers NothingPublishedOverTakedown` | 2 articles, one of them generated meanwhile, 2 novels, 2 processes, 3 requests, 1 mishap (a lost answer, a crash, a failing dispatch, a request sent again) | 2.9 million |
| `sitemap` | `ServedIsComplete GenerationsApart AnnouncedStaysListed` | 2 articles in 2 locales, 2 tasks, 2 attempts, 2 processes, 2 handlers, 1 mishap, 1 ageing; `FairSpec` | 0.4 million |
| `tagging` | `RecordsAgree NoBlindWrite` | 1 novel, 1 edge, 2 tasks, 2 attempts, 2 workers, 2 administrators with up to 3 requests, up to 2 mishaps | 1.5 million |
| `publish_returned` | `PublicAlwaysHasBody`, violated | 1 article, 1 novel | counterexample |

Each module has one type invariant.  Where it is not listed by itself it is the
first conjunct of `ParentDerived`, `IntentsTrue`, `VerdictTrue`, `RecordsTrue`,
`OutcomeEvidenced`, `ResultsTrue`, `PublicHasBody`, `ServedIsComplete` or
`RecordsAgree`.  That of `TaskQueue`, and the bound on attempts
(`AttemptsBounded`), are proved for all instances (section 4) and not run.

**Why the bounds are enough.**  The queue's hazards are between an old and a new
holder of one item (two workers, one item, two attempts), and between the items
of one parent (two items): a third holder meets the second as the second met the
first.  For the promo claim three runs are a first one that is overtaken, its
retry, and a fresh submission; or a run, the pause of its task, and the run of
the same selection submitted again.  Three pages are one before, at and behind the
page that sees the end of the catalogue, and misfit books are none, one or all of them.  A rebind needs two articles (one is
settled, one is still open when the executor loses the batch) and two executors.
An IndexNow row needs a second attempt and a late handler of the first; with one
mishap no attempt number passes 4, so that bound cuts nothing off.  Four
source items are two of one title without a novel, one of that title with a
novel, and one that has an article already; a title has one, two or four slugs,
so that they run out before the batch, in it, or never.  The publish gate's races are between two transactions, and
the third request is the one that brings a status back.  For the sitemap two
tasks are a refresh and the one that overtakes it, two locales a release that is
written in part.  Tags need two edits of one object, the third being the one
that meets the result of the other two, and two classifications of one novel.
Mishaps are counted together: one is enough for every two-step
window the code leaves, two at once are only met where their number says so.
Crashes, expiries, retries and requests are bounded by the constants named in
each module; nothing else is.  Deadlock checking is off where the system may
come to rest: all items settled, all requests answered.

**Fairness.**
- `TaskQueue`: weak fairness of each worker's claim, recovery, handler return
  and finalization, of restart, and of the expiry of a lease that no worker
  renews.  The worker polls for ever (`runDrainLoop`), docker restarts it
  (`docker-compose.yml:18`), upstream calls have timeouts, and an unrenewed
  `locked_until` passes.  Nothing is assumed of heartbeats, phase writes,
  crashes or administrators.  `TasksFinish` speaks of tasks that may run and
  have an open item: it says nothing of an item an abort has stranded, nor of a
  parent that was resumed too late (see below).
- `CatalogScan`, `ContentPipeline`, `SitemapRefresh`: workers poll for items to
  claim and to recover, and a handler's awaits return; nothing is assumed of
  administrators, publications, mishaps or time.
- `IndexNowOutbox`: as above, and the sweep is run again and again.  Nothing in
  the repository schedules it, so `RowsSettle` holds for an operator who does.
- `RebindBatch`: a request in flight goes on, and an open batch is resumed again
  and again; nothing but requests drives a batch.

### What the violation shows

`publish_returned`: a takedown and a restore between a publication's read and its
conditional write bring the status back; the article is published and its
chapters are gone.  `publish-gate/service.ts:64` calls this structurally
impossible.

### What else the code does

The properties of the passing runs are stated so that they hold of the code;
their exceptions are where it falls short of what one might expect.

- *Queue.*  Abort, then the item in flight returns as a retry (or its lease
  expires with attempts left): it is pending under a cancelled parent and no
  claim selects it.  Pause, the last items finish, resume: the parent is
  `pending` with nothing that would ever recompute it.  An abort or a hold that
  holds the parent waits for a row a claim has locked while the claim waits for
  the parent: `OnlySweepsDeadlock` admits this deadlock and no other.
  `task-termination.ts:49` says that with `SKIP LOCKED` the two never deadlock.
  PostgreSQL aborts one of them and `withDbRetry` tries it again.
- *Promo claim.*  Two overlapping selections submitted at once, or a selection
  submitted again after a pause or an abort with its item in flight, may send
  getcode twice: both handlers look for a prior intent before either has
  prepared one.  The contract
  (`docs/operations/MOBOREADER_PROMO_CLAIM_CONTRACT_2026-08-31.md:11`) says at
  most once; `GetcodeOnce` says who may send twice.  A link that is already
  `fetched` may then be overwritten by the late run.
- *Catalog.*  A retry keeps the `terminalPage` of a page that failed upstream.
  If the page then fails for another reason, pages past it are passed over as a
  success that nobody fetched.  The reason may be a binding that does not
  resolve; that it may also be the feature flags, off in one deployment and on
  again in the next, came out of the proof, the run has one redeploy (`Steady`
  names both).  A finalization that dies in its staging may leave a preview task
  `building`; if a book is no longer eligible when it is resumed, the preview is
  activated under the scope of the first plan, and a later plan of that scope is
  turned away by a task that lacks the book (`moboreader.ts:845`; `TurnedAway`).
  Books that are not eligible when the finalization plans are in no preview, and
  the scan completes all the same.
- *Rebind.*  Two batches submitted at once may claim one article; the second
  item then fails.  A rollback that another rebind overtakes between its two
  reads undoes the wrong one.
- *IndexNow.*  A crash between the attempt row and the outbox row leaves a row
  whose next attempt number is taken: it never settles.
- *Content.*  Of two materializations of one source item the worker's may end
  failed although the novel is there: the branch for the conflict cannot be
  reached in a transaction that the conflict has aborted.  A batch shows
  completed although selected items were not eligible; an item can fail with no
  rival, because its source item is unfit by then or the slugs of its title have
  run out.  Items whose batch has
  expired are skipped and the batch shows completed.  The victim of a deadlock
  between a generation and a rebind is not retried.
- *Publication.*  The announcement of a first publication is lost if its process
  dies after the commit, and if the dispatch fails: `dispatcher.ts:74` swallows
  the error and nothing tries again.  An article generated under a taken-down
  novel is a draft, not a takedown.  Two calls of one request at once do not
  announce twice, as `publish-gate/service.ts:347` fears: the second one's
  conditional update conflicts.  A withdrawal may overwrite a takedown; an article that
  is moved under a taken-down novel stays as it is; a publication that has read
  its novel as published does not notice its withdrawal.  Two interleavings that
  are longer than the run came out of the proofs: a withdrawal that overwrites a
  takedown brings a status back as a restore does, and a publication that read it
  before publishes without chapters; of two restores under way the second makes
  an article draft again that a publication has dated, and a publication that
  read it before announces it a second time.
- *Sitemap.*  A worker process lists, in all its later refreshes, what its first
  one read, and a query that was refused fails them all, until it is restarted.
  Takedowns and withdrawals enqueue no refresh.  A second attempt coalesces on
  the lock its own first attempt left; an empty lock file is never removed.  A
  rerun rewrites the release that is being served, file by file.  When the
  manifest or the status file cannot be written after the symlink was switched,
  the refresh is reported failed with "the old sitemap has been kept"
  (`sitemap-refresh-state.ts:308`), and the new one is served.
- *Tagging.*  An approval reads its edge without the row lock and updates it by
  id: a deactivation committed in between is undone, and its author never told
  (`docs/p2/P2-06-5-ADMIN-CPS-PARITY-AUDIT.md:88` has no silent overwrites).
  Under the novel's lock a classification asks for the mode again and for
  nothing else: an `initialize_missing` item, which is for novels without a run
  (`docs/adr/ADR-P2-06-5-TAGGING-V3.md:316`), may replace one that was committed
  after it looked, and a classification by an older lexicon one by a newer.  The
  page of a novel reads the run's name and
  then its rows, and shows no automatic tags if a classification commits in
  between.  While one canonical tag is inactive every classification fails.

## 4. Proofs

`TaskQueueProofs` proves, for every set of workers, tasks and items, every
assignment of requests and every bound, from `QueueAssumption` alone
(finitely many items, a positive attempt limit, requests with a known operation
and target, `NoOne` not a worker):

- `TypeCorrect`: `Spec => []TypeOK`.  `TypeOK` is inductive as it stands; its
  parts are the rows with the lease-shape check, the worker processes and the
  history.
- `LeaseInvariant`: `Spec => []LeaseInv`.  None of the lease invariants is
  inductive alone.  `TermsUnique` needs that no lease in anybody's hand is ahead
  of its row (`EpochsBehind`): then a claim, which advances the epoch, differs
  from all of them.  `EffectOnce` needs the fence, which only lets a processing
  row succeed.  `AttemptsBounded` needs that a pending row has an attempt left
  and that a worker about to requeue knows the attempt it is (`AttemptsLeft`):
  the limit is checked by the worker against its own lease, not by the requeue
  against the row.
- `TermsAreUnique`, `EffectIsOnce`, `AttemptsAreBounded`: corollaries.
- `WritesAreInOrder`: `Spec => WritesInOrder`, from `WritesBehind` and the fence.

The proofs go action by action: a lemma gives the shape every step leaves the
rows in (`StepShapes`: what a step may do to a row), a lemma per conjunct uses
that shape, and the theorems combine them.

Of what control requests may do it proves, for any number of items, workers and
requests:

- `LiveLeasesAreKept`: `Spec => LiveLeaseKept`.  The lease shape in `TypeOK`
  says that only a processing item has a live lease; recovery needs an expired
  one and an abort skips pending items, so what is left is the owner's own
  finalization.
- `ControlHolds`: `Spec => ControlSticks`.  `ParentStep` lists what a step may do
  to a parent; the recompute passes over paused, held and cancelled parents.
- `ParentsAgree`: `Spec => []ParentAgrees`, inductive with `TypeOK`, the blocked
  novels of a task included.  A
  transaction that changes items recomputes their parent, except under a
  cancelled one, whose skipped items an abort may only add to: that the count
  did not fall is an argument about cardinalities (`AbortAgrees`).

`QueueImplementsTaskLease` is `Spec => ImplementsTaskLease`: under the mapping of
statuses to phases and of epochs to terms, each kind of step (claim, recovery,
phase write, outcome, retry, abort, re-arm) is a step of `TaskLease` or leaves
it alone, one lemma each; `TypeOK` is all the invariant this needs, because the
fence and the row are in the guards.

`LockProofs` proves what the order of locks is worth, for any clients,
tasks and items, from `LocksAssumption` (a worker is no administrator, requests
have a known operation and target, outcomes are the four a finalize has, `NoOne`
is none of the other values).  The invariant is one of each client (`Good`):
where its transaction is, what it holds, what it has drafted, what it is about
to make of the parent.  `Frame` says what a step leaves to the other clients:
their locks, the rows they have locked, and the items of a parent they have
locked.  Each action is proved once for its own client, and `GoodKept` carries
the invariant of the others over any framed step.

- `RowsAreSerial`: `Spec => RowsSerial`.  A draft is a legal successor of the
  committed row (`Drafted`), and stays one because the row is locked.
- `ParentIsDerived`: `Spec => []ParentDerived`.  From the recount to the commit
  the parent is locked, so nobody commits an item of that task in between.
- `SweepsAreComplete`: `Spec => SweepIsComplete`.  During a sweep every item is
  either still to do or not pending in the transaction's eyes (`Marked`).
- `SweepsAloneDeadlock`: `Spec => []OnlySweepsDeadlock`.  Without a sweep, who
  waits for a parent has none, and who waits for an item has nothing at all.

Of `ContentPipeline` it proves, from `PipelineAssumption` (finitely many source
items, well-formed selections and demands, groups in an order, values that mean
"none" apart from the others):

- `PipelineInvariant`: `PipeSpec => []PipeInv`.  `TxTrue` says of a transaction
  where it is (`Staged`), that what it enumerates is what its batch selected and
  what it will count (`Planned`), that it has its item (`ItemHeld`), and what it
  knows of the rows it is about to write (`WriterTrue`); `TxApart` keeps two
  transactions off one item, one source item and one novel; `NovelsTrue`,
  `BatchTrue` and `ItemSettled` speak of committed rows.  Actions are few kinds
  of step, and each kind is proved once to keep the invariant: within a
  transaction (`InsideKeeps`, `GoKeeps`), an outcome (`OutcomeKeeps`), rows that
  gain a link (`RowsKeep`), with `OthersKeep` for everyone else.
- `EachSourceHasOneNovel`: `PipeSpec => []OneNovelPerSource`.  Nobody writes a
  source item that is linked (`WriterTrue`), and no two link one (`TxApart`).
- `ResultsAlwaysTrue`: `PipeSpec => []ResultsTrue`.  The counts are sums of
  cardinalities of a partition (`PartsAddUp`).  A failed item has a
  cause that does not go away (`Caused`, `CausesKept`): its source item was
  linked by another or was unfit once, its title is out of slugs (a slug stays
  taken, `SlugsStayTaken`), or the slug that was free when it was picked
  (`SlugIsFree`) went to another novel of the title.  And a materialization is
  never the victim of a deadlock (`MaterializingGoesOn`): it would fail of its
  retries.
- `GenerationsAreSerial`: `PipeSpec => GenerationsSerial`, from `TxApart`.
- `MovesAloneDeadlock`: `PipeSpec => []OnlyMovesDeadlock`.  In a circle without
  such a move everyone would wait with his enumeration, each for a group beyond
  those he has made (`LaterGroup`), and a finite set of groups has a last one
  (`LastGroup`).

`HandlerProofs` proves of `PromoClaim`, for any number of items and attempts, from
`ClaimAssumption`:

- `GetcodeGoesOnce`: `Spec => []GetcodeOnce`.  The heart is `OneLive`: a run that
  may still send, or has sent on an intent that did not fail, excludes any other
  such run and any owner that is past its look at prior intents, but for runs
  whose items were being processed at once (`Noticed` records every such pair).
  Why two items could be is `AllExplained`: the index keeps open tasks of one
  selection apart (`Indexed`), and an item at work has an open task or lost it
  while it was at work (`Attached`).
- `IntentsTellTheTruth`: `Spec => []IntentsTrue`, which needs `NoneUnsent` and
  `SendingRecorded` (nothing is sent before its intent says so) and
  `ConfirmedStays`.
- `ReviewIsKept`: `Spec => ReviewIsAdmins`, an action property from the moves.
- `ClaimInvariant`: the conjunction of these parts.  Each action is first
  summarized as what it does to runs, intents, items and the link (`Moves`);
  the parts are then proved of moves, not of actions.

It proves of `Tagging`, for any novels, administrators, requests, items and
workers and for every scene, from `TaggingAssumption`:

- `TagInvariant`: `TagSpec => []TagInv`.  `AdminsTrue` says what an administrator
  and the transaction of a request may rely on where they are: a view is no newer
  than the rows, what was read under a lock is still so, a request that was
  answered with a conflict would be one again (`Outdated` never comes undone,
  because versions only grow), and two transactions never hold the lock of the
  same request, edge or row (`Apart`).  `WorkersTrue` does the same for handlers:
  none has a newer attempt than its item, no two have the same one, and from the
  fence to the commit it is the item's (`HandlerTrue`).  `NovelTrue` and
  `RunsTrue` relate the rows to the audit and the runs.  A step of one process
  leaves the parts of the others alone: `MoveKeeps` for a step inside a
  transaction, `EditKeeps` for the commit of an edit, `HandlerKeeps` and
  `ItemsKeep` for classifications.
- `RecordsAlwaysAgree`: `TagSpec => []RecordsAgree`.  It is not inductive: an
  edit is counted once because its transaction has not been audited since it
  locked its request (`TxnTrue`), several statements before.
- `NothingWrittenBlind`: `TagSpec => NoBlindWrite`, an action property: what the
  commit writes over is what the request named, by what its transaction read
  under the lock it still has.

`CatalogProofs` proves, for any number of pages, any page size, budget of
attempts, handlers, mishaps and generations, and for every scene, from
`CatalogAssumption` alone (there is a page, a place on it, an attempt and a
generation; no page is scheduled that was not requested):

- `CatalogInvariant`: `Spec => []CatalogInv`, seven parts.  `Order`: behind the
  first open page nothing is processed, and a finalize item that has been claimed
  has all pages settled behind it.  `Leases`: no two handlers have the same lease
  of an item.  `Evidence`: the page a `terminalPage` names saw the end, is open
  again, or failed with nothing open behind it, and a handler that is about to
  pass its page over has such a page before it.  `Knowledge` is what the handler
  that owns the finalization may rely on at each of its steps: the pages it has
  added up are as they were (nobody retries one while the task is open), its plan,
  what is fresh and what it found not eligible make up the books, what it has left to stage and what it has
  staged make up the plan.  `Verdict` and `Previews` are what the rows say when it
  is gone; an `ActiveScope` seen without a lock is safe to rely on because what
  an active task covers is covered ever after (`CoveredGrows`).  Everything that
  ends a page (four finalizations, the recovery, the fallback) is first summarized
  as one relation (`PageEnds`), every step of the finalization by what it may
  touch (`StillStep`, `ShellStep`, `FinalizeEnds`).
- `VerdictsAreTrue`: `Spec => []VerdictTrue`, and `BooksAreCovered`:
  `Spec => []BooksCovered`.  Neither is inductive: "completed" is written several
  transactions after the pages were read, and the books are covered by steps of
  handlers that are gone.  `BooksCovered` asks for the books the generation's own
  plans found eligible, and excepts those that were turned away.
- `StagedAreKept`: `Spec => StagedOnce`, an action property: what a finalization
  does to a preview task it does to the `building` one of its own generation
  (`Tended`).

`RebindProofs` proves, for any articles, novels, batches, executors, editors and
mishaps, from `RebindAssumption` alone (finitely many articles, a selection is
not empty, the `No...` values are no members of the sets they stand out from):

- `RebindInvariant`: `Spec => []RebindInv`.  Its two parts are `Requests` (where
  an executor or editor is and what it may rely on there) and `Records` (what
  items, audit rows, articles, counts and verdicts say of each other).  Each
  action is first summarized as what it does to the rows (`Moved`), and the
  records are proved of these moves.  The heart is `Writing`: acquiring a batch
  waits for the row its executor's transaction holds, so from the fences to the
  commit the batch and the item are the executor's own.
- `RecordsAlwaysTrue`: `Spec => []RecordsTrue`.  `AuditedOnce` says which audit
  row is an item's; that there is exactly one follows.
- `HolderSettles`: `Spec => OnlyHolderSettles`, an action property of the moves.
- `RebindImplementsLedger`: `Spec => ImplementsLedger`.  Each move is a step of
  `RebindLedger` or leaves the mapped state alone; that an applied item meets
  its article where the plan saw it is the swap's own condition.

`PublishGateProofs` proves, for any articles, novels, processes, requests and
mishaps, from `PublishGateAssumption` alone (articles are no novels, `Home` is
one, `NoOne` is neither a status nor a row):

- `GateInvariant`: `Spec => []GateInv`.  `Good` is what one open transaction may
  rely on at each of its statements: a row it holds is as it was read (`Writes`),
  the chapters its gate saw stay, or a takedown has come in between (`Passed`),
  what it lists belongs to its novel or was moved or inserted since (`Lists`),
  and a publication of a draft under a taken-down novel gets no further than the
  gate (`Stalled`).  Four parts relate rows: a public article is dated (`Dates`),
  a public novel has chapters (`Bodies`), a dated article is announced, about to
  be, or recorded as lost (`Announcing`; the process died, the answer or the
  dispatch failed), and `TakedownCovers`, whose exceptions are `crossed` and
  `drafted`.  Most steps change the transaction of one
  process only (`Frame`); the commit, the move, the generation and the arrival of chapters are
  proved against the transactions of all others.
- `PublicAlwaysCovered`, `FirstIsAnnouncedOnce`, `TakedownsCover`:
  `Spec => []PublicHasBody`, `[]AnnouncedOnce`, `[]TakedownCovers`.  None is
  inductive: a commit relies on what its transaction read several statements
  before.  `returned` is what makes the first two true: it says which kind of
  transition had committed since a published row was read.
- `TakedownsStand`: `Spec => NothingPublishedOverTakedown`, an action property:
  what a publication holds at its commit is as it read it, and it read no
  takedown.

`IndexNowProofs` proves, for any rows, handlers, budgets and mishaps, from
`IndexNowAssumption` alone (both budgets are positive, `NoRow` is no row):

- `OutboxInvariant`: `Spec => []OutboxInv`.  Each action is first summarized as
  one of a few moves of a row, a handler or the sweep (`NextMoves`), and the
  parts are proved of moves.  `Requests`: whoever has got past the unique index
  owns its attempt number until the request is out.  `Answered`: what a handler
  brings, an attempt records or the sweep has read was an answer at the time, and
  answers are never taken back, so reads that are old do no harm.  `Items`: the
  fence leaves a row one handler among those that still have their lease.
  `Accounts` holds while no handler has outlived its lease: a row has no attempt
  beyond the one it is about to count (`Tried`), its handler works on that one
  (`Delivers`), and nobody works on what the sweep recovers (`Left`), between its
  two statements either.
- `RequestsAreCounted`: `Spec => []RequestsCounted`, from `Requests` and `Tried`.
  That the last attempt of a row is one it has needs the greatest member of a
  set, which the least-number principle of the library yields (`Least`,
  `Greatest`).
- `OutcomesAreEvidenced`: `Spec => []OutcomeEvidenced`.  It is inductive only
  with `Answered`: a dead letter rests on the attempt its writer owns, or that
  the sweep read.

`SitemapProofs` proves, for any articles, locales, tasks, processes and handlers
and any number of mishaps, from `SitemapAssumption`:

- `ServedComplete`: `Spec => []ServedIsComplete`.  It is not inductive: the
  switch goes through the shared name `current.tmp`, which another generation
  may have set.  `Whole` adds that both symlinks, and every handler between its
  index and its rename, point to whole releases, and that a whole release stays
  so, because a release only ever gains files.
- `KeptApart`: `Spec => []GenerationsApart`.  `Held` says that until a stale
  lock is taken over, a handler from the creation of the lock file to its
  removal is the one whose file it is.  It needs that a handler on its way to
  take over a stale lock has no answer yet (`NoAnswer`): the removal of a lock
  by a handler without an answer is exactly what `ousted` records.
- `SitemapInvariant`: the conjunction, with the type invariant and `Working` (a
  handler at work has a task and a process; a task that waits has an attempt
  left), which is what types the claims.

Only model-checked: liveness under fairness, which is out of the prover's reach
(`TasksFinish`, `ScanEnds`, `BatchEnds`, `RowsSettle`, `BatchesEnd`,
`AnnouncedStaysListed`).  Every safety property of the runs is a theorem.

## 5. Plan

1. The heartbeat loop of `worker.ts` against the row lock of its own protected
   finalize, in `TaskRowLocks`.
2. The home carousel's refresh task.
3. Article binding inside the promo claim's finalize transaction, composed with
   the publish gate's facts.

## 6. Not modelled, and why

Formatting, validation of inputs, authorisation, audit contents, logging and
telemetry are left out: they do not feed back into the modelled state.  Reads
for the admin pages have no effect.  `withDbRetry` is seen through its outcome:
tries that roll back leave nothing behind.  Isolation below READ COMMITTED
statements (index races inside one statement) is PostgreSQL's.

Left out of modelled components: in `TaskQueue` the choice among candidates,
which is free and so covers every claim order, and the `catalog_scan` branches of
the recompute, which are `CatalogScan`'s; in `PromoClaim` article binding,
audit rows and the public redirect code; in `CatalogScan` dry runs, recovery
pages and what a page writes per book (the run has one book to a page, so
`short_page` is not reached there), a preview an administrator stages while the
feature is off, the retry of a preview, and that a fresh preview grows old; in `ContentPipeline` the `promo_claim`
operation, whose children are `PromoClaim`'s, template choices, the preview enqueued after a
materialization, the version 1 filter, children that are paused, cancelled or
switched off, and novels that are deleted; in `Tagging`
dry runs, feature flags, the join behind mapped tags, the classifier and the
operators' scripts; in `PublishGate` blog articles without a novel, links that
come or go, soft deletion and cache invalidation; in `SitemapRefresh` feature
flags, withdrawn articles, the administrator's retry or pause of a refresh, blog
and category families.

Not modelled at all: the scheduler (a run and its task are one `INSERT ... ON
CONFLICT DO NOTHING` transaction), the upstream rate gate (one pacing clock in
one process), credentials, authentication, site settings and the home carousel
(each request one transaction with an optimistic check). About half of the
repository's lines are React pages, one-off operator scripts, fixtures and
generated reports, which have no state of their own to model.
