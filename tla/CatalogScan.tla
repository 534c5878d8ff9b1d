----------------------------- MODULE CatalogScan -----------------------------
(***************************************************************************)
(* One catalog_scan task in apply mode: worker/handlers/moboreader.ts over *)
(* the queue of lib/tasks/store.ts.  Its pages are claimed strictly in     *)
(* order; the page that sees the end of the catalogue settles the pages    *)
(* behind it and enqueues one catalog_finalize item; that one adds up the  *)
(* pages, stages a preview-refresh task in short fenced transactions, and  *)
(* writes the task's verdict.  An administrator retries failed pages or a  *)
(* failed finalization, which opens a new generation of it.                *)
(*                                                                         *)
(* A page handler is two steps: what it reads (the task, the binding, the  *)
(* upstream page) and its finalize transaction.  The finalize handler is   *)
(* one step per transaction or read between two awaits.  The upstream is   *)
(* free: any count, any total.  A book is named by its page and place.     *)
(* Feature flags come from the process environment: they change with a     *)
(* redeploy, which ends every handler.  TaskQueue models the lease in      *)
(* full; here an item has an epoch and an expired flag.                    *)
(***************************************************************************)
EXTENDS Naturals, FiniteSets, FiniteSetsExt

CONSTANTS
  Scheduled,    \* last page that has an item: scheduledPageEnd
  Requested,    \* last page asked for: requestedPageEnd
  PageSize,
  MaxAttempts,  \* MOBOREADER_CATALOG_MAX_ATTEMPTS
  Handler,      \* handler runs in flight at once; a finished one is reused
  MaxGen,       \* bound: generations of the finalization
  Scenes        \* bounds, chosen together: handlers at work, what the
                \* upstream may say its totalCount is (totals), leases that
                \* expire under a running handler (hangs), transactions
                \* that fail (throws), pages whose account or credential
                \* does not resolve (unbound), crashes or redeploys of the
                \* worker (deploys) and what they may set the flags to,
                \* source sets an administrator asks a preview for, once
                \* (scopes), and those that may at one time be unlinked,
                \* deleted, not allowlisted or without a binding, an account
                \* or a credential, or fail their refresh (misfits)

Page == 1..Scheduled
Fin == 0
Item == Page \cup {Fin}
Source == Page \X (1..PageSize)
Gen == 1..MaxGen

ASSUME CatalogAssumption ==
  /\ Scheduled \in Nat \ {0} /\ Requested \in Nat /\ Scheduled <= Requested
  /\ PageSize \in Nat \ {0}
  /\ MaxAttempts \in Nat \ {0} /\ MaxGen \in Nat \ {0}
  /\ Scenes \subseteq [handlers : SUBSET Handler, totals : SUBSET Nat,
                       hangs : Nat, throws : Nat, unbound : Nat,
                       deploys : Nat, flags : SUBSET BOOLEAN,
                       scopes : SUBSET SUBSET Source, misfits : SUBSET SUBSET Source]

VARIABLES
  item,     \* generic_task_item rows: status, attempts, lease
  res,      \* per page, its result: how it was settled and what it returned
  gen,      \* the generation in the finalize item's payload
  task,     \* the generic_task row: status and the fields of its result
  preview,  \* per generation, the channel_sync_task with its request token
  manual,   \* the preview task an administrator asked for
  fresh,    \* sources whose preview was refreshed within freshnessMs
  skipped,  \* history: what this generation's last plan found not eligible
  flags,    \* the feature flag and the write gate of the worker's process
  run,      \* the handlers
  scene,    \* the bounds of this behaviour
  hangs, throws, unbound, deploys

rows == <<item, res, gen, task>>
budgets == <<scene, hangs, throws, unbound, deploys>>
vars == <<rows, preview, manual, fresh, skipped, flags, run, budgets>>

Reasons == {"expected_total_reached", "expected_pages_reached", "empty_page",
            "short_page", "safety_limit"}
StopReasons == Reasons \cup {"upstream_error"}
Open == {"pending", "processing"}
None == [how |-> "none", n |-> 0, why |-> "none", partial |-> FALSE]
Result(how, n, why, partial) ==
  [how |-> how, n |-> n, why |-> why, partial |-> partial]
\* A handler: where it is, its lease, and what it has read so far.
Idle == [at |-> "idle", job |-> Fin, ep |-> 0, out |-> "none", n |-> 0,
         total |-> 0, want |-> 0, why |-> "none", touched |-> {}, actual |-> 0,
         bad |-> FALSE, plan |-> {}, left |-> {}]

TypeOK ==
  /\ item \in [Item -> [st : {"none", "success", "failed"} \cup Open,
                        att : Nat, ep : Nat, exp : BOOLEAN]]
  /\ res \in [Page -> [how : {"none", "fetched", "passed", "error"},
                       n : 0..PageSize, why : {"none"} \cup StopReasons,
                       partial : BOOLEAN]]
  /\ gen \in Gen
  /\ task.st \in Open \cup {"completed", "completed_with_errors", "failed"}
  /\ task.terminal \in {0} \cup Page
  /\ task.fin \in {"none", "pending", "processing", "completed", "failed"}
  /\ preview \in [Gen -> [st : {"none", "building", "ready", "done", "failed",
                                "superseded"},
                          items : SUBSET Source, scope : SUBSET Source]]
  /\ fresh \subseteq Source /\ skipped \subseteq Source
  /\ \A p \in Page : item[p].st = "success" => res[p].how \in {"fetched", "passed"}
  /\ \A i \in Item : item[i].st = "processing" => item[i].ep > 0

-----------------------------------------------------------------------------
(* Rows.                                                                   *)

Pages(it, st) == {p \in Page : it[p].st \in st}
\* Books are named by page and place, so that the sum of the pages' counts is
\* the number of books.
Books(rs, ps) == UNION {{<<p, k>> : k \in 1..rs[p].n} : p \in ps}
Returned(rs, ps) == Cardinality(Books(rs, ps))

\* recomputeParentTask: item and task results may veto a plain completion.
Derived(it, rs, partial) ==
  IF \E i \in Item : it[i].st \in Open THEN "processing"
  ELSE IF partial \/ \E p \in Page : rs[p].partial THEN "completed_with_errors"
  ELSE IF /\ \E i \in Item : it[i].st = "failed"
          /\ \A i \in Item : it[i].st # "success" THEN "failed"
  ELSE IF \E i \in Item : it[i].st = "failed" THEN "completed_with_errors"
  ELSE "completed"
Recomputed(it, rs, t) ==
  [t EXCEPT !.st = Derived(it, rs, t.verdict = "partial_failed")]

Expected(total) == Min({Requested * PageSize, total})

\* determineMoboreaderCatalogStopReason.
StopReason(n, fetched, expected, p) ==
  IF n = 0 THEN "empty_page"
  ELSE IF fetched >= expected THEN "expected_total_reached"
  ELSE IF Scheduled < Requested /\ p >= Scheduled THEN "safety_limit"
  ELSE IF p >= Requested THEN "expected_pages_reached"
  ELSE IF n < PageSize THEN "short_page"
  ELSE "none"

\* The pages behind p that are still pending, settled with p's stop reason.
Behind(it, p) == {q \in Page : q > p /\ it[q].st = "pending"}
Cascade(it, p, st) ==
  [i \in Item |-> IF i \in Behind(it, p) THEN [it[i] EXCEPT !.st = st] ELSE it[i]]
CascadeResult(it, p, r) ==
  [q \in Page |-> IF q \in Behind(it, p) THEN r ELSE res[q]]
NewItem == [st |-> "pending", att |-> 0, ep |-> 0, exp |-> FALSE]
\* The upsert of catalog_finalize v1, whose update is empty.
WithFinalizeMutant(it) ==
  IF it[Fin].st = "none" /\ Pages(it, {"failed"}) = {}
  THEN [it EXCEPT ![Fin] = NewItem] ELSE it
WithFinalize(it) == IF it[Fin].st = "none" THEN [it EXCEPT ![Fin] = NewItem] ELSE it

Owns(h) ==
  LET i == run[h].job IN
  item[i].st = "processing" /\ item[i].ep = run[h].ep /\ ~item[i].exp

Init ==
  /\ item = [i \in Item |-> IF i = Fin THEN [NewItem EXCEPT !.st = "none"] ELSE NewItem]
  /\ res = [p \in Page |-> None]
  /\ gen = 1
  /\ task = [st |-> "pending", terminal |-> 0, why |-> "none", want |-> 0,
             fin |-> "none", fgen |-> 0, verdict |-> "none"]
  /\ preview = [g \in Gen |-> [st |-> "none", items |-> {}, scope |-> {}]]
  /\ manual = [st |-> "none", scope |-> {}]
  /\ fresh = {} /\ skipped = {} /\ flags = TRUE
  /\ run = [h \in Handler |-> Idle]
  /\ scene \in Scenes
  /\ hangs = 0 /\ throws = 0 /\ unbound = 0 /\ deploys = 0

-----------------------------------------------------------------------------
(* The queue: claim order, expiry and recovery.                            *)

\* selectPending: pages strictly in order, the finalize item after them all.
ClaimableMutant(i) ==
  /\ item[i].st = "pending"
  /\ IF i = Fin THEN Pages(item, {"success"}) = Page
     ELSE \A q \in Page : q < i => item[q].st \notin Open
Claimable(i) ==
  /\ item[i].st = "pending"
  /\ IF i = Fin THEN Pages(item, Open) = {}
     ELSE \A q \in Page : q < i => item[q].st \notin Open
claimPendingItem(h, i) ==
  /\ h \in scene.handlers
  /\ run[h].at = "idle" /\ task.st \in Open /\ Claimable(i)
  /\ item' = [item EXCEPT ![i] = [st |-> "processing", att |-> @.att + 1,
                                  ep |-> @.ep + 1, exp |-> FALSE]]
  /\ task' = Recomputed(item', res, task)
  /\ run' = [run EXCEPT ![h] = [Idle EXCEPT !.at = "begin", !.job = i,
                                            !.ep = item'[i].ep]]
  /\ UNCHANGED <<res, gen, preview, manual, fresh, skipped, flags, budgets>>

\* A lease runs out: its handler is gone, or hangs without heartbeats.
Expire(i) ==
  LET held == \E h \in Handler : run[h].at # "idle" /\ run[h].job = i /\ Owns(h) IN
  /\ item[i].st = "processing" /\ ~item[i].exp
  /\ held => hangs < scene.hangs
  /\ hangs' = IF held THEN hangs + 1 ELSE hangs
  /\ item' = [item EXCEPT ![i].exp = TRUE]
  /\ UNCHANGED <<res, gen, task, preview, manual, fresh, skipped, flags, run, scene, throws, unbound, deploys>>

\* failMoboreaderCatalogFinalize: the verdict, and the shell if there is one.
FailedShellMutant(pv, g) == [pv EXCEPT ![g].st = IF @ = "none" THEN @ ELSE "failed"]
FailedShell(pv, g) ==
  IF pv[g].st = "building" THEN [pv EXCEPT ![g].st = "failed"] ELSE pv
FailedTask(t, g) ==
  [t EXCEPT !.fin = "failed", !.fgen = g, !.verdict = "partial_failed"]

recoverExpiredItem(i) ==
  LET last == item[i].att >= MaxAttempts
      down == [item EXCEPT ![i].st = IF last THEN "failed" ELSE "pending", ![i].exp = FALSE]
      stop == last /\ i # Fin
      end == last /\ i = Fin
  IN
  /\ item[i].st = "processing" /\ item[i].exp
  /\ item' = IF stop THEN WithFinalize(Cascade(down, i, "failed")) ELSE down
  /\ res' = IF stop THEN CascadeResult(item, i, Result("error", 0, "upstream_error", FALSE))
            ELSE res
  /\ preview' = IF end THEN FailedShell(preview, gen) ELSE preview
  /\ task' = Recomputed(item', res', IF end THEN FailedTask(task, gen) ELSE task)
  /\ UNCHANGED <<gen, manual, fresh, skipped, flags, run, budgets>>

\* LeaseLostError: whatever the handler does next is refused and it ends.
LoseLease(h) ==
  /\ run[h].at # "idle" /\ ~Owns(h)
  /\ run' = [run EXCEPT ![h] = Idle]
  /\ UNCHANGED <<rows, preview, manual, fresh, skipped, flags, budgets>>

\* The worker process ends and comes back, perhaps with other flags.
Redeploy ==
  /\ deploys < scene.deploys /\ deploys' = deploys + 1
  /\ flags' \in scene.flags
  /\ run' = [h \in Handler |-> Idle]
  /\ UNCHANGED <<rows, preview, manual, fresh, skipped, scene, hangs, throws, unbound>>

-----------------------------------------------------------------------------
(* Pages: createMoboreaderCatalogHandler.                                  *)

\* The reads: flags, the task's terminalPage, the binding, the upstream page.
FetchPage(h) ==
  LET p == run[h].job
      past == task.terminal # 0 /\ p > task.terminal
      Answers(out) == run' = [run EXCEPT ![h].at = "end", ![h].out = out]
  IN
  /\ run[h].at = "begin" /\ p # Fin /\ Owns(h)
  /\ \/ ~flags /\ Answers("failed") /\ UNCHANGED unbound
     \/ flags /\ past /\ Answers("passed") /\ UNCHANGED unbound
     \/ /\ flags /\ ~past
        /\ \/ /\ unbound < scene.unbound /\ unbound' = unbound + 1
              /\ Answers("failed")
           \/ Answers("upstream") /\ UNCHANGED unbound
           \/ \E n \in 0..PageSize, total \in scene.totals :
                /\ run' = [run EXCEPT ![h].at = "end", ![h].out = "fetched",
                                      ![h].n = n, ![h].total = total]
                /\ UNCHANGED unbound
  /\ UNCHANGED <<rows, preview, manual, fresh, skipped, flags, scene, hangs, throws, deploys>>

\* persistCatalogPage and the finalize transaction around it.
PersistPage(h) ==
  LET p == run[h].job
      n == run[h].n
      before == Returned(res, Pages(item, {"success"}))
      why == StopReason(n, before + n, Expected(run[h].total), p)
      stop == why # "none"
      short == StopReason(n, (p - 1) * PageSize + n, run[h].total, p) = "safety_limit"
      done == [item EXCEPT ![p].st = "success"]
  IN
  /\ run[h].out = "fetched"
  /\ item' = IF stop THEN WithFinalize(Cascade(done, p, "success")) ELSE done
  /\ res' = [(IF stop THEN CascadeResult(item, p, Result("passed", 0, why, FALSE)) ELSE res)
             EXCEPT ![p] = Result("fetched", n, why, short)]
  /\ task' = Recomputed(item', res',
       [task EXCEPT !.terminal = IF stop THEN p ELSE 0, !.why = why,
                    !.want = Expected(run[h].total), !.verdict = "processing",
                    !.fin = IF stop THEN "pending" ELSE "none",
                    !.fgen = IF stop THEN gen ELSE 0])

\* persistCatalogUpstreamFailure: the pages behind fail with this one.
PersistUpstreamFailureMutant(h) ==
  LET p == run[h].job
      done == [item EXCEPT ![p].st = "failed"]
  IN
  /\ run[h].out = "upstream"
  /\ item' = WithFinalize(Cascade(done, p, "success"))
  /\ res' = [CascadeResult(item, p, Result("passed", 0, "upstream_error", FALSE))
             EXCEPT ![p] = Result("error", 0, "upstream_error", TRUE)]
  /\ task' = Recomputed(item', res',
       [task EXCEPT !.terminal = p, !.why = "upstream_error", !.fin = "pending",
                    !.fgen = gen, !.verdict = "processing"])
PersistUpstreamFailure(h) ==
  LET p == run[h].job
      done == [item EXCEPT ![p].st = "failed"]
  IN
  /\ run[h].out = "upstream"
  /\ item' = WithFinalize(Cascade(done, p, "failed"))
  /\ res' = [CascadeResult(item, p, Result("error", 0, "upstream_error", FALSE))
             EXCEPT ![p] = Result("error", 0, "upstream_error", TRUE)]
  /\ task' = Recomputed(item', res',
       [task EXCEPT !.terminal = p, !.why = "upstream_error", !.fin = "pending",
                    !.fgen = gen, !.verdict = "processing"])

\* A page past the terminal page is a success without a request, and the
\* finalize transaction settles the pages behind it the same way.
PassPage(h) ==
  LET p == run[h].job
      passed == Result("passed", 0, "expected_total_reached", FALSE)
      done == [item EXCEPT ![p].st = "success"]
  IN
  /\ run[h].out = "passed"
  /\ item' = WithFinalize(Cascade(done, p, "success"))
  /\ res' = [CascadeResult(item, p, passed) EXCEPT ![p] = passed]
  /\ task' = Recomputed(item', res', task)

\* Any other failure carries no stop reason: the next page is claimed.
FailPage(h) ==
  LET p == run[h].job IN
  /\ run[h].out = "failed"
  /\ item' = [item EXCEPT ![p].st = "failed"]
  /\ res' = [res EXCEPT ![p] = Result("error", 0, "none", FALSE)]
  /\ task' = Recomputed(item', res', task)

FinishPage(h) ==
  /\ run[h].at = "end" /\ run[h].job # Fin /\ Owns(h)
  /\ PersistPage(h) \/ PersistUpstreamFailure(h) \/ PassPage(h) \/ FailPage(h)
  /\ run' = [run EXCEPT ![h] = Idle]
  /\ UNCHANGED <<gen, preview, manual, fresh, skipped, flags, budgets>>

\* finalizeTaskItem throws: handleFinalizeFailure retries a catalog item, and
\* fails a page whose attempts are spent like an upstream error, without
\* the protected write.
FinishThrows(h) ==
  LET i == run[h].job
      last == item[i].att >= MaxAttempts
      down == [item EXCEPT ![i].st = IF last THEN "failed" ELSE "pending"]
      stop == last /\ i # Fin
  IN
  /\ run[h].at = "end" /\ Owns(h) /\ throws < scene.throws
  /\ throws' = throws + 1
  /\ item' = IF stop THEN WithFinalize(Cascade(down, i, "failed")) ELSE down
  /\ res' = IF stop
            THEN [CascadeResult(item, i, Result("error", 0, "upstream_error", FALSE))
                  EXCEPT ![i] = Result("error", 0, "upstream_error", TRUE)]
            ELSE res
  /\ task' = Recomputed(item', res', task)
  /\ run' = [run EXCEPT ![h] = Idle]
  /\ UNCHANGED <<gen, preview, manual, fresh, skipped, flags, scene, hangs, unbound, deploys>>

-----------------------------------------------------------------------------
(* The finalize item: runCatalogFinalize.                                  *)

At(h, at) == run[h].at = at /\ run[h].job = Fin /\ Owns(h)
Step(h, at) == run' = [run EXCEPT ![h].at = at]

BeginFinalize(h) ==
  /\ At(h, "begin")
  /\ run' = [run EXCEPT ![h] =
       IF ~flags THEN [@ EXCEPT !.at = "end", !.out = "failed"]
       ELSE IF task.fin = "completed" /\ task.fgen = gen
            THEN [@ EXCEPT !.at = "end", !.out = "success"]
       ELSE [@ EXCEPT !.at = "mark", !.want = task.want, !.why = task.why]]
  /\ UNCHANGED <<rows, preview, manual, fresh, skipped, flags, budgets>>

MarkProcessing(h) ==
  /\ At(h, "mark") /\ Step(h, "gather")
  /\ task' = [task EXCEPT !.fin = "processing", !.fgen = gen]
  /\ UNCHANGED <<item, res, gen, preview, manual, fresh, skipped, flags, budgets>>

Touched(ps) == Books(res, ps)

\* The pages' results and the count of failed pages.
GatherPages(h) ==
  LET ok == Pages(item, {"success"})
      actual == Returned(res, ok)
  IN
  /\ At(h, "gather")
  /\ run' = [run EXCEPT ![h].at = IF Touched(ok) = {} THEN "complete" ELSE "plan",
                        ![h].touched = Touched(ok), ![h].actual = actual,
                        ![h].bad = \/ Pages(item, {"failed"}) # {}
                                   \/ run[h].why \in {"safety_limit", "upstream_error"}
                                   \/ actual < run[h].want]
  /\ UNCHANGED <<rows, preview, manual, fresh, skipped, flags, budgets>>

\* Another pending preview task over the same sources (its unique index).
ActiveScope(scope, g) ==
  \/ manual.st = "active" /\ manual.scope = scope
  \/ \E k \in Gen \ {g} : preview[k].st = "ready" /\ preview[k].scope = scope

\* stageMoboreaderPreviewRefreshTask: a task of this token past its building
\* is left alone.  Otherwise the eligible sources (buildPreviewPlan), where
\* misfit ones are left out like the fresh, and the active task, read
\* without a transaction.  Nothing eligible, or an active task of the same
\* scope, is an answer too, and a shell begun before stays as it is.  The
\* flags the plan reads are those of BeginFinalize: it never stages a
\* disabled task.
PlanPreviewMutant(h) ==
  /\ At(h, "plan")
  /\ \E misfit \in scene.misfits :
       LET plan == run[h].touched \ (fresh \cup misfit) IN
       /\ skipped' = IF preview[gen].st = "none" THEN run[h].touched \cap misfit ELSE skipped
       /\ run' = [run EXCEPT ![h] =
            IF preview[gen].st # "none" \/ plan = {} \/ ActiveScope(plan, gen)
            THEN [@ EXCEPT !.at = IF preview[gen].st = "building" THEN "activate" ELSE "complete",
                           !.plan = plan]
            ELSE [@ EXCEPT !.at = "shell", !.plan = plan, !.left = {s[1] : s \in plan}]]
  /\ UNCHANGED <<rows, preview, manual, fresh, flags, budgets>>
PlanPreview(h) ==
  /\ At(h, "plan")
  /\ \/ /\ preview[gen].st \notin {"none", "building"}
        /\ Step(h, "complete") /\ UNCHANGED skipped
     \/ /\ preview[gen].st \in {"none", "building"}
        /\ \E misfit \in scene.misfits :
             LET plan == run[h].touched \ (fresh \cup misfit) IN
             /\ skipped' = run[h].touched \cap misfit
             /\ run' = [run EXCEPT ![h] =
                  IF plan = {} \/ ActiveScope(plan, gen)
                  THEN [@ EXCEPT !.at = "complete"]
                  ELSE [@ EXCEPT !.at = IF preview[gen].st = "none" THEN "shell" ELSE "batch",
                                 !.plan = plan, !.left = {s[1] : s \in plan}]]
  /\ UNCHANGED <<rows, preview, manual, fresh, flags, budgets>>
CreateShell(h) ==
  /\ At(h, "shell") /\ Step(h, "batch")
  /\ preview' = [preview EXCEPT ![gen] =
       [st |-> "building", items |-> {}, scope |-> run[h].plan]]
  /\ UNCHANGED <<rows, manual, fresh, skipped, flags, budgets>>

\* One batch, here one page's sources, inserted with skipDuplicates.
StageBatch(h) ==
  LET p == Min(run[h].left) IN
  /\ At(h, "batch")
  /\ preview' = [preview EXCEPT ![gen].items = @ \cup {s \in run[h].plan : s[1] = p}]
  /\ run' = [run EXCEPT ![h].left = @ \ {p},
                        ![h].at = IF run[h].left = {p} THEN "activate" ELSE "batch"]
  /\ UNCHANGED <<rows, manual, fresh, skipped, flags, budgets>>

\* The shell becomes claimable, unless another task took its scope meanwhile:
\* then it is superseded, if the winner has the scope planned now.
ActivatePreview(h) ==
  LET lost == ActiveScope(preview[gen].scope, gen) IN
  /\ At(h, "activate")
  /\ preview' = IF lost THEN preview ELSE [preview EXCEPT ![gen].st = "ready"]
  /\ Step(h, IF ~lost THEN "complete"
             ELSE IF ActiveScope(run[h].plan, gen) THEN "supersede" ELSE "caught")
  /\ UNCHANGED <<rows, manual, fresh, skipped, flags, budgets>>

SupersedeShell(h) ==
  /\ At(h, "supersede") /\ Step(h, "complete")
  /\ preview' = [preview EXCEPT ![gen].st = IF @ = "building" THEN "superseded" ELSE @]
  /\ UNCHANGED <<rows, manual, fresh, skipped, flags, budgets>>

CompleteFinalize(h) ==
  /\ At(h, "complete")
  /\ task' = [task EXCEPT !.fin = "completed", !.fgen = gen,
                          !.verdict = IF run[h].bad THEN "partial_failed" ELSE "completed"]
  /\ run' = [run EXCEPT ![h].at = "end", ![h].out = "success"]
  /\ UNCHANGED <<item, res, gen, preview, manual, fresh, skipped, flags, budgets>>

\* Any of these transactions or reads fails: the handler's catch.
FinalizeThrows(h) ==
  /\ run[h].at \in {"mark", "gather", "plan", "shell", "batch", "activate",
                    "supersede", "complete"}
  /\ Owns(h) /\ throws < scene.throws /\ throws' = throws + 1
  /\ Step(h, "caught")
  /\ UNCHANGED <<rows, preview, manual, fresh, skipped, flags, scene, hangs, unbound, deploys>>

\* On the last attempt the catch ends the finalization and its shell; its
\* own failure is swallowed.
CatchFinalize(h) ==
  LET last == item[Fin].att >= MaxAttempts IN
  /\ At(h, "caught")
  /\ run' = [run EXCEPT ![h].at = "end", ![h].out = "retry"]
  /\ \/ /\ last
        /\ preview' = FailedShell(preview, gen) /\ task' = FailedTask(task, gen)
        /\ UNCHANGED throws
     \/ /\ last => throws < scene.throws
        /\ throws' = IF last THEN throws + 1 ELSE throws
        /\ UNCHANGED <<preview, task>>
  /\ UNCHANGED <<item, res, gen, manual, fresh, skipped, flags, scene, hangs, unbound, deploys>>

FinishFinalize(h) ==
  LET out == run[h].out IN
  /\ At(h, "end")
  /\ item' = [item EXCEPT ![Fin].st =
       IF out = "success" THEN "success"
       ELSE IF out = "retry" /\ item[Fin].att < MaxAttempts THEN "pending" ELSE "failed"]
  /\ task' = Recomputed(item', res, task)
  /\ run' = [run EXCEPT ![h] = Idle]
  /\ UNCHANGED <<res, gen, preview, manual, fresh, skipped, flags, budgets>>

-----------------------------------------------------------------------------
(* Administrators, and the preview tasks themselves.                       *)

\* rearmCatalogFinalize: a new generation with a full budget of attempts.
Rearm(it, rs, t, g) ==
  /\ item' = [it EXCEPT ![Fin] = [NewItem EXCEPT !.ep = it[Fin].ep]]
  /\ res' = rs
  /\ gen' = g /\ skipped' = {}
  /\ task' = [t EXCEPT !.st = "pending", !.fin = "pending", !.fgen = g,
                       !.verdict = "processing"]
NextGen == Max({gen, task.fgen}) + 1

retryFailedTask ==
  LET failed == Pages(item, {"failed"}) IN
  /\ task.st \in {"failed", "completed_with_errors"} /\ failed # {}
  /\ NextGen <= MaxGen
  /\ Rearm([i \in Item |-> IF i \in failed THEN [item[i] EXCEPT !.st = "pending"] ELSE item[i]],
           [p \in Page |-> IF p \in failed THEN None ELSE res[p]], task, NextGen)
  /\ UNCHANGED <<preview, manual, fresh, flags, run, budgets>>

retryCatalogFinalizeTask ==
  /\ task.st \in {"failed", "completed_with_errors"}
  /\ item[Fin].st = "failed" /\ \A i \in Item : item[i].st # "processing"
  /\ NextGen <= MaxGen
  /\ Rearm(item, res, task, NextGen)
  /\ UNCHANGED <<preview, manual, fresh, flags, run, budgets>>

\* createMoboreaderPreviewRefreshTask: shell and items in one transaction.
RequestPreview(scope) ==
  \E misfit \in scene.misfits :
    LET plan == scope \ (fresh \cup misfit) IN
    /\ manual.st = "none" /\ plan # {} /\ ~ActiveScope(plan, 0)
    /\ manual' = [st |-> "active", scope |-> plan]
    /\ UNCHANGED <<rows, preview, fresh, skipped, flags, run, budgets>>

\* The workers end an activated task: they tried each of its sources, and
\* the misfit ones failed.
PreviewDone(g) ==
  /\ preview[g].st = "ready"
  /\ preview' = [preview EXCEPT ![g].st = "done"]
  /\ \E misfit \in scene.misfits : fresh' = fresh \cup (preview[g].items \ misfit)
  /\ UNCHANGED <<rows, manual, skipped, flags, run, budgets>>

ManualDone ==
  /\ manual.st = "active" /\ manual' = [manual EXCEPT !.st = "done"]
  /\ \E misfit \in scene.misfits : fresh' = fresh \cup (manual.scope \ misfit)
  /\ UNCHANGED <<rows, preview, skipped, flags, run, budgets>>

Work(h) ==
  \/ \E i \in Item : claimPendingItem(h, i)
  \/ FetchPage(h) \/ FinishPage(h)
  \/ BeginFinalize(h) \/ MarkProcessing(h) \/ GatherPages(h) \/ PlanPreview(h)
  \/ CreateShell(h) \/ StageBatch(h) \/ ActivatePreview(h) \/ SupersedeShell(h)
  \/ CompleteFinalize(h) \/ CatchFinalize(h) \/ FinishFinalize(h)
  \/ LoseLease(h)

Next ==
  \/ \E h \in Handler : Work(h) \/ FinishThrows(h) \/ FinalizeThrows(h)
  \/ \E i \in Item : Expire(i) \/ recoverExpiredItem(i)
  \/ Redeploy \/ retryFailedTask \/ retryCatalogFinalizeTask
  \/ \E scope \in scene.scopes : RequestPreview(scope)
  \/ \E g \in Gen : PreviewDone(g)
  \/ ManualDone

Spec == Init /\ [][Next]_vars

\* Workers keep cycling; a lease nobody renews expires and is recovered.
FairSpec ==
  /\ Spec
  /\ \A h \in Handler : WF_vars(Work(h))
  /\ \A i \in Item : WF_vars(Expire(i) /\ UNCHANGED hangs) /\ WF_vars(recoverExpiredItem(i))

-----------------------------------------------------------------------------
(* Properties.                                                             *)

CompletedMeansAll ==
  task.st = "completed" =>
    /\ task.fin = "completed" /\ task.fgen = gen /\ task.verdict = "completed"
    /\ Pages(item, {"success"}) = Page
    /\ Returned(res, Page) >= task.want

EndedIsJudged ==
  task.st \notin Open =>
    \/ item[Fin].st \in {"success", "failed"}
    \/ item[Scheduled].st = "failed" /\ res[Scheduled].why = "none"

\* No page lost its binding, and the flags were not off and on again.
Steady == unbound = 0 /\ (deploys <= 1 \/ FALSE \notin scene.flags)

StopHasWitness ==
  Steady => \A p \in Page : item[p].st = "success" /\ res[p].how = "passed" =>
    \E q \in Page : /\ q < p /\ item[q].st = "success"
                    /\ res[q].how = "fetched" /\ res[q].why \in Reasons

\* What a scan says of itself is true.  One that is called completed is: the
\* finalization of the current generation said so after every page had
\* succeeded and the pages returned at least what the last fetched page
\* expected; a finalize item claimed before its pages, or a parent that counts
\* items only, breaks it.  One that is over has been judged, unless its last
\* page failed without a stop reason and nothing was left to enqueue the
\* finalize item (finishItem, recomputeParentTask).  A page is passed over as
\* a success only behind a page that was fetched and saw the end: the stop
\* reason is evidence, not a guess (determineMoboreaderCatalogStopReason and
\* the two cascades).  The exception is a page that failed upstream and whose
\* retry finds no usable binding, or the flags off: the retry keeps its
\* terminalPage, and later pages, claimed when the flags are on again, are
\* passed over behind it (handlers/moboreader.ts:1369).
VerdictTrue == TypeOK /\ CompletedMeansAll /\ EndedIsJudged /\ StopHasWitness

\* A shell keeps the scope it began with when a second plan stages less.  Once
\* active it turns away every plan of that scope, though it holds less.
TurnedAway(s) ==
  /\ preview[gen].st \notin {"ready", "done"}
  /\ \E g \in Gen \ {gen} : preview[g].st \in {"ready", "done"} /\ s \in preview[g].scope

\* When the finalization of a generation is complete, every book its pages
\* returned is refreshed, or was found not eligible by the plan of this very
\* generation, or is in a preview task that workers may claim or have ended;
\* a crash between two staging batches, or a plan that differs from the one
\* the shell began with, leaves no eligible book behind.  The exception is
\* what the code does: operationScopeHash is written with the shell and not
\* again (moboreader.ts:845), so a later generation can be turned away by a
\* task that does not hold its book.
BooksCovered ==
  task.fin = "completed" /\ task.fgen = gen =>
    \A s \in Touched(Pages(item, {"success"})) :
      \/ s \in fresh \cup skipped
      \/ manual.st \in {"active", "done"} /\ s \in manual.scope
      \/ \E g \in Gen : preview[g].st \in {"ready", "done"} /\ s \in preview[g].items
      \/ TurnedAway(s)

\* No step touches a preview task once it is claimable but the workers that
\* refresh it, and no generation is opened twice: a rerun of a finalization
\* finds its own task by its token and leaves it alone.
StagedOnce ==
  [][/\ \A g \in Gen : preview[g].st \in {"ready", "done"} =>
          /\ preview'[g].items = preview[g].items
          /\ preview'[g].st \in {"ready", "done"}
     /\ \A g \in Gen : preview'[g].st = "building" /\ preview[g].st = "none" =>
          g = gen /\ \A k \in Gen : k > g => preview[k].st = "none"
     /\ gen' >= gen
     /\ item[Fin].st \in {"success", "failed"} /\ item'[Fin].st = "pending" => gen' > gen]_vars

\* Under the workers' fairness a scan that can run comes to an end.
ScanEnds == task.st \in Open ~> task.st \notin Open
=============================================================================
