------------------------------ MODULE TaskQueue ------------------------------
(***************************************************************************)
(* The PostgreSQL task queue: parent task rows and their item rows, the    *)
(* workers that claim, heartbeat and finalize items under a fenced lease,  *)
(* and the administrator's pause, resume, abort and retry.                 *)
(*                                                                         *)
(* One action is one committed transaction of src/lib/tasks/store.ts or of *)
(* src/server/task-admin/service.ts, or one step of the worker's cycle     *)
(* between two transactions (worker/runtime/worker.ts).  A transaction     *)
(* that rolls back leaves no trace, so withDbRetry's attempts before the   *)
(* last one are not steps.  TaskRowLocks models what happens inside a      *)
(* transaction.                                                            *)
(*                                                                         *)
(* Time is reduced to one Boolean per item, live: locked_until is still in *)
(* the future.  Every fence of the code compares locked_until with         *)
(* transaction_timestamp(), the time the transaction BEGAN.  A heartbeat,  *)
(* a phase write or a finalize that began before the expiry therefore      *)
(* commits after it, as long as the row is still the holder's; one that    *)
(* began after the expiry is refused.  Hence the guards: a fenced write    *)
(* needs Owns, and it may be refused when ~Owns or when ~live.             *)
(*                                                                         *)
(* The tasks are those of channel_sync and of every generic task type but  *)
(* catalog_scan, whose own branches of claim, finalize, recover, recompute *)
(* (terminalState, the counts of pages only), retry and of the fallback    *)
(* after a failed finalize are CatalogScan's.  Left out: which candidate   *)
(* selectPending and selectExpired take.                                   *)
(*                                                                         *)
(* execution_token and lease_epoch are assigned together by assignLease;   *)
(* the model keeps lease_epoch and compares it with the owner.             *)
(***************************************************************************)
EXTENDS Naturals, FiniteSets

CONSTANTS
  Worker,       \* worker processes (WORKER_ID)
  Task,         \* parent rows: generic_task or channel_sync_task
  Item,         \* item rows
  TaskOf,       \* the parent of each item
  MaxAttempts,  \* maxAttempts of the handler registration (default 3)
  Request,      \* request ids of administrator calls
  OpOf,         \* the operation each request asks for
  TargetOf,     \* the task each request names
  MaxCrashes,   \* bound: process deaths explored
  NoOne         \* locked_by IS NULL

Ops == {"pause", "resume", "abort", "retry"}

ASSUME QueueAssumption ==
  /\ TaskOf \in [Item -> Task]
  /\ IsFiniteSet(Item)
  /\ MaxAttempts \in Nat \ {0}
  /\ OpOf \in [Request -> Ops]
  /\ TargetOf \in [Request -> Task]
  /\ MaxCrashes \in Nat
  /\ NoOne \notin Worker

VARIABLES
  item,       \* the item rows
  task,       \* the parent rows
  pc,         \* where each worker is in processOneWorkerCycle
  lease,      \* the lease each worker last received from claimPendingItem
  outcome,    \* what the worker is about to finalize the item with
  zombies,    \* leases whose handler outlived its cycle (drain deadline)
  audited,    \* request ids with a committed operation_audit row
  crashes,    \* process deaths so far
  \* history, read by the properties only
  effects,    \* successful finalizations of each item
  lastWrite,  \* lease_epoch of the last fenced write that landed on an item
  rearmed     \* times a task's failed items were put back to pending

rows == <<item, task>>
process == <<pc, lease, outcome, zombies, crashes>>
history == <<effects, lastWrite, rearmed>>
vars == <<item, task, pc, lease, outcome, zombies, audited, crashes,
          effects, lastWrite, rearmed>>

ItemStatus == {"pending", "processing", "success", "failed", "skipped"}
Open == {"pending", "processing"}
TaskStatus == {"pending", "processing", "paused", "cancelled", "disabled",
               "completed", "completed_with_errors", "failed"}
Runnable == {"pending", "processing"}
Controlled == {"paused", "cancelled", "disabled"}
Retryable == {"failed", "completed_with_errors"}

Lease == [worker : Worker, item : Item, epoch : Nat, attempts : Nat]

(* A handler's TaskOutcome.  "hold" is a failure whose protectedWrite calls *)
(* maybeHaltTaskOnGlobalFailure; the other protected writes change no row  *)
(* of the queue.                                                           *)
Outcome == {"success", "skipped", "failed", "hold", "retry"}
FinalStatus(o) == IF o = "hold" THEN "failed" ELSE o

\* The definitions named ...Mutant are faulty variants of the definition that
\* follows them; nothing uses them but the runs that show each property can
\* fail.
ItemsOf(t) == {i \in Item : TaskOf[i] = t}
With(t, status, r) == {i \in ItemsOf(t) : r[i].status = status}
-----------------------------------------------------------------------------
AllFailed(t, r) ==
  With(t, "failed", r) # {} /\ With(t, "failed", r) = ItemsOf(t)

DerivedStatusGuardMutant(t, s, r) ==    \* recomputes controlled tasks too
  IF \E i \in ItemsOf(t) : r[i].status \in Open THEN "processing"
  ELSE IF AllFailed(t, r) THEN "failed"
  ELSE IF task[t].blocked \/ With(t, "failed", r) # {}
         THEN "completed_with_errors"
  ELSE "completed"

DerivedStatusWaitMutant(t, s, r) ==     \* failed items keep the task open
  IF s \in Controlled THEN s
  ELSE IF \E i \in ItemsOf(t) : r[i].status \in Open \cup {"failed"}
         THEN "processing" ELSE "completed"

(* recomputeParentTask: the parent row derived from the item rows r,       *)
(* unless an administrator or a system hold owns the status s.  An         *)
(* article.generate task that was admitted with novels blocked is not      *)
(* completed without errors, though no item of it failed.                  *)
DerivedStatus(t, s, r) ==
  IF s \in Controlled THEN s
  ELSE IF \E i \in ItemsOf(t) : r[i].status \in Open THEN "processing"
  ELSE IF AllFailed(t, r) THEN "failed"
  ELSE IF task[t].blocked \/ With(t, "failed", r) # {}
         THEN "completed_with_errors"
  ELSE "completed"

Counted(t, s, r) ==
  [status |-> s, blocked |-> task[t].blocked,
   success |-> Cardinality(With(t, "success", r)),
   failed |-> Cardinality(With(t, "failed", r)),
   skipped |-> Cardinality(With(t, "skipped", r))]

recomputeParentTask(t, s, r) ==
  task' = [task EXCEPT ![t] = Counted(t, DerivedStatus(t, s, r), r)]

(* The lease columns cleared together whenever an item leaves processing.  *)
Released(row, status) ==
  [row EXCEPT !.status = status, !.owner = NoOne, !.live = FALSE]

(* assignLease: the row as w's next claim leaves it.                       *)
assignLease(row, w) ==
  [status |-> "processing", attempts |-> row.attempts + 1,
   epoch |-> row.epoch + 1, owner |-> w, live |-> TRUE]

(* terminatePendingTaskItems: every item still pending ends as skipped.    *)
terminatePendingTaskItems(t, r) ==
  [i \in Item |->
     IF i \in With(t, "pending", r) THEN [r[i] EXCEPT !.status = "skipped"]
     ELSE r[i]]

OwnsByIdMutant(l) == l.item \in Item    \* WHERE id = ... and nothing else

OwnsNoEpochMutant(l) ==                 \* without lease_epoch and token
  item[l.item].status = "processing" /\ item[l.item].owner = l.worker

(* The fence shared by heartbeat, phase write, finalize and requeue, less  *)
(* its time (see the module comment).                                      *)
Owns(l) ==
  /\ item[l.item].status = "processing"
  /\ item[l.item].owner = l.worker
  /\ item[l.item].epoch = l.epoch

ActiveLease(w) == pc[w] \in {"running", "returned", "fallback"}

FenceRefuses(l) == ~Owns(l) \/ ~item[l.item].live
-----------------------------------------------------------------------------
Init ==
  /\ item = [i \in Item |-> [status |-> "pending", attempts |-> 0,
                             epoch |-> 0, owner |-> NoOne, live |-> FALSE]]
  /\ task \in [Task -> [status : {"pending"}, blocked : BOOLEAN,
                        success : {0}, failed : {0}, skipped : {0}]]
  /\ pc = [w \in Worker |-> "idle"]
  /\ lease = [w \in Worker |-> NoOne]
  /\ outcome = [w \in Worker |-> "none"]
  /\ zombies = {}
  /\ audited = {}
  /\ crashes = 0
  /\ effects = [i \in Item |-> 0]
  /\ lastWrite = [i \in Item |-> 0]
  /\ rearmed = [t \in Task |-> 0]

(* Time passes: locked_until of i is no longer in the future.              *)
Expire(i) ==
  /\ item[i].live
  /\ item' = [item EXCEPT ![i].live = FALSE]
  /\ UNCHANGED <<task, process, audited, history>>

ClaimRowMutant(w, i) ==                 \* lease_epoch is not advanced
  LET next == [item EXCEPT ![i] = [assignLease(@, w) EXCEPT !.epoch = @ - 1]]
  IN /\ pc[w] = "idle"
     /\ item[i].status = "pending"
     /\ task[TaskOf[i]].status \in Runnable
     /\ item' = next
     /\ recomputeParentTask(TaskOf[i], task[TaskOf[i]].status, next)

(* claimPendingItem: selectPending, assignLease and the parent's recompute *)
(* in one transaction.  (A claim that selected its item before a pause can *)
(* commit after it; the rows are those of the claim that came first, and   *)
(* TaskRowLocks has the two orders.)                                       *)
ClaimRow(w, i) ==
  LET next == [item EXCEPT ![i] = assignLease(@, w)]
  IN /\ pc[w] = "idle"
     /\ item[i].status = "pending"
     /\ task[TaskOf[i]].status \in Runnable
     /\ item' = next
     /\ recomputeParentTask(TaskOf[i], task[TaskOf[i]].status, next)

Claim(w, i) ==
  /\ ClaimRow(w, i)
  /\ pc' = [pc EXCEPT ![w] = "running"]
  /\ lease' = [lease EXCEPT ![w] =
                 [worker |-> w, item |-> i, epoch |-> item'[i].epoch,
                  attempts |-> item'[i].attempts]]
  /\ UNCHANGED <<outcome, zombies, audited, crashes, history>>

(* The claim commits but its acknowledgement is lost; withDbRetry looks    *)
(* for another candidate, and this worker never learns it holds i.         *)
ClaimUnanswered(w, i) ==
  /\ ClaimRow(w, i)
  /\ UNCHANGED <<process, audited, history>>

RecoverMutant(w, i) ==                  \* does not look at locked_until
  LET next == [item EXCEPT ![i] = Released(@, "pending")]
  IN /\ pc[w] = "idle"
     /\ item[i].status = "processing"
     /\ item[i].attempts < MaxAttempts
     /\ item' = next
     /\ recomputeParentTask(TaskOf[i], task[TaskOf[i]].status, next)
     /\ UNCHANGED <<process, audited, history>>

(* recoverExpiredItem: any idle worker takes back an expired lease.        *)
Recover(w, i) ==
  LET exhausted == item[i].attempts >= MaxAttempts
      next == [item EXCEPT ![i] =
                 Released(@, IF exhausted THEN "failed" ELSE "pending")]
  IN /\ pc[w] = "idle"
     /\ item[i].status = "processing"
     /\ ~item[i].live
     /\ item' = next
     /\ recomputeParentTask(TaskOf[i], task[TaskOf[i]].status, next)
     /\ UNCHANGED <<process, audited, history>>

(* heartbeatTaskItem succeeds.  (A worker about to finalize a protected    *)
(* write has stopped its heartbeats; one more only prolongs a lease that   *)
(* might as well have been longer.)                                        *)
Heartbeat(w) ==
  /\ ActiveLease(w)
  /\ Owns(lease[w])
  /\ item' = [item EXCEPT ![lease[w].item].live = TRUE]
  /\ UNCHANGED <<task, process, audited, history>>

(* withTaskLeaseTransaction: a fenced write phase of a running handler or  *)
(* of one whose worker has moved on.                                       *)
HandlerLeases == {lease[w] : w \in {v \in Worker : pc[v] = "running"}}
                   \cup zombies

PhaseWrite(l) ==
  /\ l \in HandlerLeases
  /\ Owns(l)
  /\ lastWrite' = [lastWrite EXCEPT ![l.item] = l.epoch]
  /\ UNCHANGED <<rows, process, audited, effects, rearmed>>

(* The handler settles; a retry past the last attempt becomes a failure.   *)
HandlerReturns(w, o) ==
  /\ pc[w] = "running"
  /\ pc' = [pc EXCEPT ![w] = "returned"]
  /\ outcome' = [outcome EXCEPT ![w] =
       IF o = "retry" /\ lease[w].attempts >= MaxAttempts THEN "failed" ELSE o]
  /\ UNCHANGED <<rows, lease, zombies, audited, crashes, history>>

(* The cycle ends, and with it the locals of processOneWorkerCycle.        *)
Leave(w, where) ==
  /\ pc' = [pc EXCEPT ![w] = where]
  /\ lease' = [lease EXCEPT ![w] = NoOne]
  /\ outcome' = [outcome EXCEPT ![w] = "none"]

(* Shutdown, a lost lease or a failed heartbeat aborts the lease signal,   *)
(* the drain deadline passes, and the cycle leaves without finalizing; the *)
(* handler's promise is still pending in this process.                     *)
Abandon(w) ==
  /\ pc[w] = "running"
  /\ Leave(w, "idle")
  /\ zombies' = zombies \cup {lease[w]}
  /\ UNCHANGED <<rows, audited, crashes, history>>

ZombieEnds(l) ==
  /\ l \in zombies
  /\ zombies' = zombies \ {l}
  /\ UNCHANGED <<rows, pc, lease, outcome, audited, crashes, history>>

ToIdle(w) ==
  /\ Leave(w, "idle")
  /\ UNCHANGED <<zombies, audited, crashes>>

Finalizing(w) == pc[w] \in {"returned", "fallback"}

(* finalizeTaskItem commits a terminal outcome: the protected write (with  *)
(* its system hold, if any), guardedFinalize, and the parent's recompute.  *)
FinalizeTerminal(w) ==
  LET i == lease[w].item
      t == TaskOf[i]
      o == outcome[w]
      held == o = "hold" /\ task[t].status \in Runnable
      left == IF held THEN terminatePendingTaskItems(t, item) ELSE item
      next == [left EXCEPT ![i] = Released(@, FinalStatus(o))]
  IN /\ Finalizing(w)
     /\ o # "retry"
     /\ Owns(lease[w])
     /\ item' = next
     /\ recomputeParentTask(t, IF held THEN "disabled" ELSE task[t].status,
                            next)
     /\ effects' = [effects EXCEPT ![i] =
                      IF o = "success" THEN @ + 1 ELSE @]
     /\ lastWrite' = [lastWrite EXCEPT ![i] = lease[w].epoch]
     /\ ToIdle(w)
     /\ UNCHANGED rearmed

(* finalizeTaskItem commits a retry outcome through guardedRequeue.        *)
FinalizeRetry(w) ==
  LET i == lease[w].item
      next == [item EXCEPT ![i] = Released(@, "pending")]
  IN /\ Finalizing(w)
     /\ outcome[w] = "retry"
     /\ Owns(lease[w])
     /\ item' = next
     /\ recomputeParentTask(TaskOf[i], task[TaskOf[i]].status, next)
     /\ lastWrite' = [lastWrite EXCEPT ![i] = lease[w].epoch]
     /\ ToIdle(w)
     /\ UNCHANGED <<effects, rearmed>>

(* LeaseLostError: the result is dropped and the loop goes on.             *)
FinalizeRefused(w) ==
  /\ Finalizing(w)
  /\ FenceRefuses(lease[w])
  /\ ToIdle(w)
  /\ UNCHANGED <<rows, history>>

(* finalizeTaskItem throws anything else and rolls back: once, for which   *)
(* handleFinalizeFailure finalizes again as failed, or twice, which leaves *)
(* the item to the lease-expiry recovery.                                  *)
FinalizeThrows(w) ==
  /\ pc[w] = "returned"
  /\ pc' = [pc EXCEPT ![w] = "fallback"]
  /\ outcome' = [outcome EXCEPT ![w] = "failed"]
  /\ UNCHANGED <<rows, lease, zombies, audited, crashes, history>>

FinalizeThrowsAgain(w) ==
  /\ pc[w] = "fallback"
  /\ ToIdle(w)
  /\ UNCHANGED <<rows, history>>

(* The process dies, between any two transactions; so does an error of     *)
(* claim or recover, which main() turns into an exit.                      *)
Crash(w) ==
  /\ pc[w] # "down"
  /\ crashes < MaxCrashes
  /\ Leave(w, "down")
  /\ zombies' = {l \in zombies : l.worker # w}
  /\ crashes' = crashes + 1
  /\ UNCHANGED <<rows, audited, history>>

(* docker-compose: restart unless-stopped.                                 *)
Restart(w) ==
  /\ pc[w] = "down"
  /\ pc' = [pc EXCEPT ![w] = "idle"]
  /\ UNCHANGED <<rows, lease, outcome, zombies, audited, crashes, history>>
-----------------------------------------------------------------------------
(* Administrator operations.  A request id with a committed audit row is   *)
(* answered from it and changes nothing; a refused one leaves no audit and *)
(* may be sent again.                                                      *)
Admitted(r, op) ==
  /\ OpOf[r] = op
  /\ r \notin audited
  /\ audited' = audited \cup {r}

pauseTask(r) ==
  /\ Admitted(r, "pause")
  /\ task[TargetOf[r]].status \in Runnable
  /\ task' = [task EXCEPT ![TargetOf[r]].status = "paused"]
  /\ UNCHANGED <<item, process, history>>

resumeTask(r) ==
  /\ Admitted(r, "resume")
  /\ task[TargetOf[r]].status = "paused"
  /\ task' = [task EXCEPT ![TargetOf[r]].status = "pending"]
  /\ UNCHANGED <<item, process, history>>

abortTask(r) ==
  /\ Admitted(r, "abort")
  /\ task[TargetOf[r]].status \in Runnable \cup {"paused"}
  /\ item' = terminatePendingTaskItems(TargetOf[r], item)
  /\ task' = [task EXCEPT ![TargetOf[r]].status = "cancelled"]
  /\ UNCHANGED <<process, history>>

(* retryItems: every failed item is pending again; attempt_count stays.    *)
retryItems(t, r) ==
  [i \in Item |-> IF i \in With(t, "failed", r) THEN Released(r[i], "pending")
                  ELSE r[i]]

retryFailedTaskMutant(r) ==             \* the parent is not recounted
  LET t == TargetOf[r]
      next == retryItems(t, item)
  IN /\ Admitted(r, "retry")
     /\ task[t].status \in Retryable
     /\ With(t, "failed", item) # {}
     /\ item' = next
     /\ task' = [task EXCEPT ![t].status = "pending"]
     /\ rearmed' = [rearmed EXCEPT ![t] = @ + 1]
     /\ UNCHANGED <<process, effects, lastWrite>>

(* retryItems, then recountAndResetParent: the parent is pending again,    *)
(* with new counts and without its result, the blocked novels included.    *)
(* (The task is one whose failed items have no unresolved side-effect      *)
(* intent; PromoClaim models those that have.)                             *)
retryFailedTask(r) ==
  LET t == TargetOf[r]
      next == retryItems(t, item)
  IN /\ Admitted(r, "retry")
     /\ task[t].status \in Retryable
     /\ With(t, "failed", item) # {}
     /\ item' = next
     /\ task' = [task EXCEPT ![t] =
                   [Counted(t, "pending", next) EXCEPT !.blocked = FALSE]]
     /\ rearmed' = [rearmed EXCEPT ![t] = @ + 1]
     /\ UNCHANGED <<process, effects, lastWrite>>
-----------------------------------------------------------------------------
WorkerStep(w) ==
  \/ \E i \in Item : Claim(w, i) \/ ClaimUnanswered(w, i) \/ Recover(w, i)
  \/ Heartbeat(w)
  \/ \E o \in Outcome : HandlerReturns(w, o)
  \/ Abandon(w)
  \/ FinalizeTerminal(w)
  \/ FinalizeRetry(w)
  \/ FinalizeRefused(w)
  \/ FinalizeThrows(w)
  \/ FinalizeThrowsAgain(w)
  \/ Crash(w)
  \/ Restart(w)

AdminStep(r) ==
  pauseTask(r) \/ resumeTask(r) \/ abortTask(r) \/ retryFailedTask(r)

Next ==
  \/ \E w \in Worker : WorkerStep(w)
  \/ \E i \in Item : Expire(i)
  \/ \E l \in HandlerLeases : PhaseWrite(l)
  \/ \E l \in zombies : ZombieEnds(l)
  \/ \E r \in Request : AdminStep(r)

Spec == Init /\ [][Next]_vars
-----------------------------------------------------------------------------
(* Fairness.  A live worker process polls for ever (runDrainLoop), docker  *)
(* restarts a dead one, handlers terminate (their network calls have       *)
(* timeouts), and a lease nobody renews runs out.  Nothing is assumed of   *)
(* heartbeats, phase writes or administrators.                             *)
Unattended(i) ==
  ~\E w \in Worker : /\ ActiveLease(w)
                     /\ lease[w].item = i
                     /\ Owns(lease[w])

Finalize(w) ==
  \/ FinalizeTerminal(w)
  \/ FinalizeRetry(w)
  \/ FinalizeRefused(w)
  \/ FinalizeThrows(w)
  \/ FinalizeThrowsAgain(w)

Fairness ==
  /\ \A w \in Worker :
       /\ WF_vars(\E i \in Item : Claim(w, i))
       /\ WF_vars(\E i \in Item : Recover(w, i))
       /\ WF_vars(\E o \in Outcome : HandlerReturns(w, o))
       /\ WF_vars(Finalize(w))
       /\ WF_vars(Restart(w))
  /\ \A i \in Item : WF_vars(Unattended(i) /\ Expire(i))

FairSpec == Spec /\ Fairness
-----------------------------------------------------------------------------
(* Type invariant.  LeaseShape is the database's own check constraint      *)
(* generic_task_item_lease_shape_check: the lease columns are set exactly  *)
(* while the item is processing.                                           *)
Row == [status : ItemStatus, attempts : Nat, epoch : Nat,
        owner : Worker \cup {NoOne}, live : BOOLEAN]

ParentRow == [status : TaskStatus, blocked : BOOLEAN,
              success : Nat, failed : Nat, skipped : Nat]

LeaseShape(row) ==
  /\ row.status = "processing" <=> row.owner # NoOne
  /\ row.live => row.status = "processing"

RowsOK(r) == r \in [Item -> Row] /\ \A i \in Item : LeaseShape(r[i])

ProcessOK ==
  /\ pc \in [Worker -> {"idle", "running", "returned", "fallback", "down"}]
  /\ lease \in [Worker -> Lease \cup {NoOne}]
  /\ outcome \in [Worker -> Outcome \cup {"none"}]
  /\ zombies \subseteq Lease
  /\ audited \subseteq Request
  /\ crashes \in Nat
  /\ \A w \in Worker :
       /\ ActiveLease(w) => lease[w] \in Lease /\ lease[w].worker = w
       /\ Finalizing(w) => outcome[w] \in Outcome

HistoryOK ==
  /\ effects \in [Item -> Nat]
  /\ lastWrite \in [Item -> Nat]
  /\ rearmed \in [Task -> Nat]

TypeOK ==
  /\ RowsOK(item)
  /\ task \in [Task -> ParentRow]
  /\ ProcessOK
  /\ HistoryOK

(* No two handlers ever hold the same term of an item: a lease epoch is    *)
(* issued once, whoever crashed, expired or was abandoned in between.      *)
(* (src/lib/tasks/README.md: every assignment makes lease_epoch + 1.)      *)
TermsUnique ==
  /\ \A v, w \in Worker :
       /\ ActiveLease(v) /\ ActiveLease(w)
       /\ lease[v].item = lease[w].item
       /\ lease[v].epoch = lease[w].epoch
       => v = w
  /\ \A w \in Worker, l \in zombies :
       ActiveLease(w) /\ lease[w].item = l.item => lease[w].epoch # l.epoch
  /\ \A k, l \in zombies : k.item = l.item /\ k.epoch = l.epoch => k = l

(* An item succeeds at most once, and its successful finalization is       *)
(* committed exactly when its row says so: at-least-once execution is      *)
(* reduced to one effective result by the fence.                           *)
EffectOnce ==
  \A i \in Item : effects[i] = (IF item[i].status = "success" THEN 1 ELSE 0)

StatusAgrees(t) ==
  LET open == \E i \in ItemsOf(t) : item[i].status \in Open
      failed == With(t, "failed", item)
  IN /\ task[t].status = "processing" => open
     /\ task[t].status = "completed" =>
          ~open /\ failed = {} /\ ~task[t].blocked
     /\ task[t].status = "failed" => ~open /\ AllFailed(t, item)
     /\ task[t].status = "completed_with_errors" =>
          ~open /\ ~AllFailed(t, item) /\ (failed # {} \/ task[t].blocked)

CountersAgree(t) ==
  /\ task[t].success = Cardinality(With(t, "success", item))
  /\ task[t].failed = Cardinality(With(t, "failed", item))
  /\ \/ task[t].skipped = Cardinality(With(t, "skipped", item))
     \/ /\ task[t].status = "cancelled"
        /\ task[t].skipped < Cardinality(With(t, "skipped", item))

(* The parent row tells the truth about its items: its counters always,    *)
(* its status whenever no administrator or system hold owns it.  "pending" *)
(* is left out: it is what resumeTask writes without looking (see          *)
(* TasksFinish).  abortTask does not recount, so a cancelled task may      *)
(* understate what it skipped; nothing else ever drifts.                   *)
ParentAgrees == \A t \in Task : StatusAgrees(t) /\ CountersAgree(t)

(* Work is bounded: an item is attempted at most MaxAttempts times, plus   *)
(* once for every time an administrator retried its task.                  *)
AttemptsBounded ==
  \A i \in Item : item[i].attempts <= MaxAttempts + rearmed[TaskOf[i]]

(* The inductive strengthening of the four invariants above: no handler    *)
(* holds an epoch its item has not reached, and the holder of the current  *)
(* one knows the attempt it is; no write is ahead of the epoch; a pending  *)
(* item has an attempt left, and only a worker with one left requeues.     *)
EpochsBehind ==
  /\ \A w \in Worker :
       ActiveLease(w) => lease[w].epoch <= item[lease[w].item].epoch
  /\ \A l \in zombies : l.epoch <= item[l.item].epoch

WritesBehind == \A i \in Item : lastWrite[i] <= item[i].epoch

AttemptsLeft ==
  /\ \A i \in Item :
       item[i].status = "pending" =>
         item[i].attempts < MaxAttempts + rearmed[TaskOf[i]]
  /\ \A w \in Worker :
       /\ ActiveLease(w) /\ lease[w].epoch = item[lease[w].item].epoch =>
            lease[w].attempts = item[lease[w].item].attempts
       /\ Finalizing(w) /\ outcome[w] = "retry" =>
            lease[w].attempts < MaxAttempts

LeaseInv ==
  /\ EpochsBehind /\ TermsUnique
  /\ WritesBehind
  /\ AttemptsLeft /\ AttemptsBounded
  /\ EffectOnce

(* A fenced write never lands after a later holder's: the epochs of the    *)
(* writes that land on an item never go back (worker/README.md: the old    *)
(* lease holder's writes must be refused).                                 *)
WritesInOrder ==
  [][\A i \in Item : lastWrite'[i] >= lastWrite[i]]_vars

(* Recovery, abort and hold never take an item from under a live lease:    *)
(* only the worker that holds it ends it.                                  *)
LiveLeaseKept ==
  [][\A i \in Item :
       item[i].live /\ item'[i].status # "processing" =>
         \E w \in Worker : /\ Finalizing(w)
                           /\ lease[w].item = i
                           /\ Owns(lease[w])]_vars

(* A cancelled or held task is never resurrected by an item that finishes  *)
(* late, and a paused one moves only by a newly audited request            *)
(* (recomputeParentTask's guard).                                          *)
ControlSticks ==
  [][\A t \in Task :
       /\ task[t].status \in {"cancelled", "disabled"} =>
            task'[t].status = task[t].status
       /\ task[t].status = "paused" /\ task'[t].status # "paused" =>
            audited' # audited]_vars

(* The queue implements TaskLease: pending is open, processing is held,    *)
(* success and skipped are settled; the term is lease_epoch.               *)
PhaseOf(status) ==
  CASE status = "pending" -> "open"
    [] status = "processing" -> "held"
    [] status = "failed" -> "failed"
    [] OTHER -> "settled"

Abstract == INSTANCE TaskLease WITH
  phase <- [i \in Item |-> PhaseOf(item[i].status)],
  term <- [i \in Item |-> item[i].epoch],
  writer <- lastWrite

(* Every behaviour of the workers, the recovery and the administrators is  *)
(* one that TaskLease allows.                                              *)
ImplementsTaskLease == Abstract!Spec

(* What is to be worked on comes to an end: a task that has an open item   *)
(* and may run does not stay runnable for ever, whatever crashes, lost     *)
(* leases, abandoned handlers and failing finalizations happen on the way  *)
(* (recomputeParentTask in every finalization and recovery).  With         *)
(* ParentAgrees, its items have then ended or somebody stopped the task.   *)
(* A task resumed after its last item ended under the pause has no open    *)
(* item: it stays pending, as nothing is left to recompute it              *)
(* (resumeTask).                                                           *)
TasksFinish ==
  \A t \in Task :
    (/\ task[t].status \in Runnable
     /\ \E i \in ItemsOf(t) : item[i].status \in Open)
      ~> task[t].status \notin Runnable
=============================================================================
