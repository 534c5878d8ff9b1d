---------------------------- MODULE IndexNowOutbox ----------------------------
(***************************************************************************)
(* IndexNow delivery: the outbox row of a published page, the task item    *)
(* that gets it delivered, the handler that does it, and the sweep, which  *)
(* recovers abandoned deliveries and makes items for rows that are due.    *)
(*                                                                         *)
(* The handler's writes are not fenced and each commits on its own, so one *)
(* action is one statement between two awaits.  An item is reduced to what *)
(* TaskQueue says of it: a worker takes it, its lease may be lost with the *)
(* handler still running (late), it is recovered, it is finalized under    *)
(* its fence.  It is the one item of its task, and                         *)
(* generic_task_active_scope_uidx admits one open task per outbox row.     *)
(* Time is free: a waiting row is due at any moment, and a row is stale    *)
(* once no handler that holds its lease is at work on it.                  *)
(***************************************************************************)
EXTENDS Naturals, FiniteSets, FiniteSetsExt

CONSTANTS
  Row,          \* outbox rows, one per page and revision
  MaxAttempts,  \* indexnow_outbox.max_attempts
  ItemTries,    \* the handler's maxAttempts: claims of one item
  Handler,      \* handlers at work at once; a finished one is reused
  MaxMishaps,   \* bound: processes that die and handlers that outlive their
                \* lease, together
  MaxNo,        \* bound: attempt numbers; a late handler may start the
                \* attempt after the last (WithinBudget)
  NoRow

ASSUME IndexNowAssumption ==
  /\ MaxAttempts \in Nat \ {0} /\ ItemTries \in Nat \ {0}
  /\ MaxMishaps \in Nat /\ MaxNo \in Nat
  /\ NoRow \notin Row

VARIABLES
  out,        \* indexnow_outbox rows
  att,        \* indexnow_outbox_attempt rows, by row and attemptNo
  item,       \* the latest generic_task_item of each row
  enqueuing,  \* rows whose first item is about to be created
  live,       \* pages that are still eligible under the row's url
  enabled,    \* the delivery flags are on and the host and key are set
  run,        \* the handlers
  late,       \* handlers whose lease is no longer theirs
  sweep,      \* the sweep
  sent,       \* requests sent, by row and attemptNo
  answers,    \* the outcomes each row's requests were answered with
  crashes, hangs

queue == <<item, run, late>>
wire == <<sent, answers>>
vars == <<out, att, item, enqueuing, live, enabled, run, late, sweep, wire,
          crashes, hangs>>

Attempt == 1..MaxNo
Outcome == {"accepted", "permanent_failed", "retryable_failed"}
AttemptState == Outcome \cup {"none", "started", "unknown_outcome"}
Settled == {"accepted", "permanent_failed", "dead_letter", "cancelled"}
RowStatus == Settled \cup {"none", "pending", "processing", "retry_wait"}
RunAt == {"idle", "read", "eligible", "start", "mark", "http", "answer",
          "record", "settle", "done", "fail"}

IdleRun == [at |-> "idle", row |-> NoRow, no |-> 0,
            outcome |-> "retryable_failed"]
IdleSweep == [at |-> "idle", todo |-> {}, row |-> NoRow, no |-> 0,
              seen |-> [r \in Row |-> [no |-> 0, state |-> "none"]]]

\* A row that waits for a retry is not due.
DueMutant(r) == out[r].status = "pending" /\ ~out[r].deferred

Due(r) ==
  out[r].status = "retry_wait" \/ (out[r].status = "pending" /\ ~out[r].deferred)
Open(r) == item[r].status \in {"pending", "processing"}

(* Handlers at work on the row with their lease still held.                *)
Holders(r) == {h \in Handler \ late : run[h].row = r}
Stale(r) == out[r].status = "processing" /\ Holders(r) = {}

LatestNo(r) == Max({0} \cup {n \in Attempt : att[r][n] # "none"})
Latest(r) == IF LatestNo(r) = 0 THEN [no |-> 0, state |-> "none"]
             ELSE [no |-> LatestNo(r), state |-> att[r][LatestNo(r)]]

Go(h, step) == run' = [run EXCEPT ![h].at = step]
SetStatus(r, s) == out' = [out EXCEPT ![r].status = s]

\* One attempt too many is waited for.
resolveOutboxDeliveryStatusMutant(outcome, no) ==
  IF outcome # "retryable_failed" THEN outcome
  ELSE IF no > MaxAttempts THEN "dead_letter" ELSE "retry_wait"

\* The attempt's outcome is written as the row's status.
resolveOutboxDeliveryStatus(outcome, no) ==
  IF outcome # "retryable_failed" THEN outcome
  ELSE IF no >= MaxAttempts THEN "dead_letter" ELSE "retry_wait"

\* createIndexNowDeliveryTaskItem, where the unique index admits it.
NewItem(r) == item' = [item EXCEPT ![r] = [status |-> "pending", tries |-> 0]]
-----------------------------------------------------------------------------
Init ==
  /\ out = [r \in Row |-> [status |-> "none", count |-> 0, deferred |-> FALSE]]
  /\ att = [r \in Row |-> [n \in Attempt |-> "none"]]
  /\ item = [r \in Row |-> [status |-> "none", tries |-> 0]]
  /\ enqueuing = {}
  /\ live = Row
  /\ enabled \in BOOLEAN
  /\ run = [h \in Handler |-> IdleRun]
  /\ late = {}
  /\ sweep = IdleSweep
  /\ sent = [r \in Row |-> [n \in Attempt |-> 0]]
  /\ answers = [r \in Row |-> {}]
  /\ crashes = 0
  /\ hangs = 0

(* enqueueIndexNowFirstPublish: the row, deferred or not; a second call    *)
(* for the same page and revision is a duplicate and does nothing.         *)
Enqueue(r) ==
  /\ out[r].status = "none"
  /\ r \in live
  /\ \/ /\ out' = [out EXCEPT ![r].status = "pending"]
        /\ enqueuing' = enqueuing \cup {r}
     \/ /\ out' = [out EXCEPT ![r] = [@ EXCEPT !.status = "pending",
                                               !.deferred = TRUE]]
        /\ UNCHANGED enqueuing
  /\ UNCHANGED <<att, queue, live, enabled, sweep, wire, crashes, hangs>>

(* Then its item.  A sweep may have been faster: the unique index refuses. *)
FirstItem(r) ==
  /\ r \in enqueuing
  /\ enqueuing' = enqueuing \ {r}
  /\ IF Open(r) THEN UNCHANGED item ELSE NewItem(r)
  /\ UNCHANGED <<out, att, live, enabled, run, late, sweep, wire, crashes,
                 hangs>>

(* releaseDeferredIndexNowOutbox makes the row available, then its item.   *)
Release(r) ==
  /\ out[r].status = "pending" /\ out[r].deferred
  /\ out' = [out EXCEPT ![r].deferred = FALSE]
  /\ enqueuing' = enqueuing \cup {r}
  /\ UNCHANGED <<att, queue, live, enabled, sweep, wire, crashes, hangs>>

(* availableAt passes by itself.                                           *)
BecomeAvailable(r) ==
  /\ out[r].status = "pending" /\ out[r].deferred
  /\ out' = [out EXCEPT ![r].deferred = FALSE]
  /\ UNCHANGED <<att, queue, enqueuing, live, enabled, sweep, wire, crashes,
                 hangs>>

(* The page is unpublished, deleted, or moves to another url.              *)
Drift(r) ==
  /\ r \in live
  /\ out[r].status # "none"
  /\ live' = live \ {r}
  /\ UNCHANGED <<out, att, queue, enqueuing, enabled, sweep, wire, crashes,
                 hangs>>

Configure ==
  /\ ~enabled
  /\ enabled' = TRUE
  /\ UNCHANGED <<out, att, queue, enqueuing, live, sweep, wire, crashes, hangs>>
-----------------------------------------------------------------------------
(* The queue, as far as the handler can tell.                              *)
Take(h, r) ==
  /\ run[h].at = "idle"
  /\ item[r].status = "pending"
  /\ item' = [item EXCEPT ![r] = [status |-> "processing", tries |-> @.tries + 1]]
  /\ run' = [run EXCEPT ![h] = [IdleRun EXCEPT !.at = "read", !.row = r]]
  /\ UNCHANGED <<out, att, enqueuing, live, enabled, late, sweep, wire,
                 crashes, hangs>>

Hang(h) ==
  /\ run[h].at \notin {"idle", "done", "fail"}
  /\ h \notin late
  /\ crashes + hangs < MaxMishaps
  /\ late' = late \cup {h}
  /\ hangs' = hangs + 1
  /\ UNCHANGED <<out, att, item, enqueuing, live, enabled, run, sweep, wire,
                 crashes>>

(* recoverExpiredItem.                                                     *)
Recover(r) ==
  /\ item[r].status = "processing"
  /\ Holders(r) = {}
  /\ item' = [item EXCEPT ![r].status =
                IF item[r].tries < ItemTries THEN "pending" ELSE "done"]
  /\ UNCHANGED <<out, att, enqueuing, live, enabled, run, late, sweep, wire,
                 crashes, hangs>>

(* The result, or the failure of an exception, is written under the fence. *)
Return(h) ==
  /\ run[h].at \in {"done", "fail"}
  /\ item' = IF h \in late THEN item
             ELSE [item EXCEPT ![run[h].row].status = "done"]
  /\ run' = [run EXCEPT ![h] = IdleRun]
  /\ late' = late \ {h}
  /\ UNCHANGED <<out, att, enqueuing, live, enabled, sweep, wire, crashes,
                 hangs>>

(* The worker dies, or the request that enqueues.                          *)
Crash ==
  /\ crashes + hangs < MaxMishaps
  /\ crashes' = crashes + 1
  /\ \/ \E h \in Handler :
          /\ run[h].at # "idle"
          /\ run' = [run EXCEPT ![h] = IdleRun]
          /\ late' = late \ {h}
          /\ UNCHANGED <<enqueuing, sweep>>
     \/ \E r \in enqueuing :
          enqueuing' = enqueuing \ {r} /\ UNCHANGED <<run, late, sweep>>
     \/ sweep.at # "idle" /\ sweep' = IdleSweep
                          /\ UNCHANGED <<run, late, enqueuing>>
  /\ UNCHANGED <<out, att, item, live, enabled, wire, hangs>>
-----------------------------------------------------------------------------
(* createIndexNowDeliveryHandler: the flags, the row, the configuration.   *)
ReadRow(h) ==
  LET r == run[h].row
  IN  /\ run[h].at = "read"
      /\ out[r].count < MaxNo
      /\ IF enabled /\ Due(r)
         THEN run' = [run EXCEPT ![h] = [@ EXCEPT !.at = "eligible",
                                                  !.no = out[r].count + 1]]
         ELSE Go(h, "done")
      /\ UNCHANGED <<out, att, item, enqueuing, live, enabled, late, sweep,
                     wire, crashes, hangs>>

(* The page is looked at again, then the row is cancelled or tried.        *)
CheckEligible(h) ==
  LET r == run[h].row
  IN  /\ run[h].at = "eligible"
      /\ IF r \in live
         THEN Go(h, "start") /\ UNCHANGED out
         ELSE SetStatus(r, "cancelled") /\ Go(h, "done")
      /\ UNCHANGED <<att, item, enqueuing, live, enabled, late, sweep, wire,
                     crashes, hangs>>

\* There is no unique index on (outboxId, attemptNo).
StartAttemptMutant(h) ==
  /\ run[h].at = "start"
  /\ att' = [att EXCEPT ![run[h].row][run[h].no] = "started"]
  /\ Go(h, "mark")
  /\ UNCHANGED <<out, item, enqueuing, live, enabled, late, sweep, wire,
                 crashes, hangs>>

(* The attempt row is written ahead of the request; its number came from a *)
(* plain read, and the unique index turns the second of a pair away.       *)
StartAttempt(h) ==
  LET r == run[h].row
      n == run[h].no
  IN  /\ run[h].at = "start"
      /\ IF att[r][n] = "none"
         THEN att' = [att EXCEPT ![r][n] = "started"] /\ Go(h, "mark")
         ELSE Go(h, "fail") /\ UNCHANGED att
      /\ UNCHANGED <<out, item, enqueuing, live, enabled, late, sweep, wire,
                     crashes, hangs>>

MarkProcessing(h) ==
  /\ run[h].at = "mark"
  /\ out' = [out EXCEPT ![run[h].row] = [@ EXCEPT !.status = "processing",
                                                  !.count = run[h].no]]
  /\ Go(h, "http")
  /\ UNCHANGED <<att, item, enqueuing, live, enabled, late, sweep, wire,
                 crashes, hangs>>

Send(h) ==
  /\ run[h].at = "http"
  /\ sent' = [sent EXCEPT ![run[h].row][run[h].no] = @ + 1]
  /\ Go(h, "answer")
  /\ UNCHANGED <<out, att, item, enqueuing, live, enabled, late, sweep,
                 answers, crashes, hangs>>

(* An answer, no answer in ten seconds, or a network error.                *)
classifyIndexNowResult(h) ==
  /\ run[h].at = "answer"
  /\ \E o \in Outcome :
       /\ run' = [run EXCEPT ![h] = [@ EXCEPT !.at = "record", !.outcome = o]]
       /\ answers' = [answers EXCEPT ![run[h].row] = @ \cup {o}]
  /\ UNCHANGED <<out, att, item, enqueuing, live, enabled, late, sweep, sent,
                 crashes, hangs>>

RecordAttempt(h) ==
  /\ run[h].at = "record"
  /\ att' = [att EXCEPT ![run[h].row][run[h].no] = run[h].outcome]
  /\ Go(h, "settle")
  /\ UNCHANGED <<out, item, enqueuing, live, enabled, late, sweep, wire,
                 crashes, hangs>>

SettleRow(h) ==
  /\ run[h].at = "settle"
  /\ SetStatus(run[h].row,
               resolveOutboxDeliveryStatus(run[h].outcome, run[h].no))
  /\ Go(h, "done")
  /\ UNCHANGED <<att, item, enqueuing, live, enabled, late, sweep, wire,
                 crashes, hangs>>
-----------------------------------------------------------------------------
(* sweepDueIndexNowDeliveries: the stale rows, each with the attempt it    *)
(* was read with.                                                          *)
BeginSweep ==
  /\ sweep.at = "idle"
  /\ enabled
  /\ LET stale == {r \in Row : Stale(r)}
     IN  sweep' = [IdleSweep EXCEPT !.at = "recover", !.todo = stale,
                     !.seen = [r \in Row |-> IF r \in stale THEN Latest(r)
                                             ELSE [no |-> 0, state |-> "none"]]]
  /\ UNCHANGED <<out, att, queue, enqueuing, live, enabled, wire, crashes,
                 hangs>>

\* The row is taken for delivered.
ReapplyMutant(r, seen) == SetStatus(r, "accepted")

\* A recorded answer is applied again.
Reapply(r, seen) ==
  SetStatus(r, resolveOutboxDeliveryStatus(seen.state, seen.no))

(* recoverStaleIndexNowDeliveries, one row: a request without an answer    *)
(* becomes an unknown outcome, a recorded answer is applied again, and     *)
(* anything else is left alone.                                            *)
RecoverRow ==
  /\ sweep.at = "recover"
  /\ \E r \in sweep.todo :
       LET seen == sweep.seen[r]
       IN  IF seen.state = "started"
           THEN /\ att' = [att EXCEPT ![r][seen.no] = "unknown_outcome"]
                /\ sweep' = [sweep EXCEPT !.at = "requeue", !.row = r,
                               !.no = seen.no, !.todo = @ \ {r}]
                /\ UNCHANGED out
           ELSE /\ IF seen.state \in Outcome THEN Reapply(r, seen)
                   ELSE UNCHANGED out
                /\ sweep' = [sweep EXCEPT !.todo = @ \ {r}]
                /\ UNCHANGED att
  /\ UNCHANGED <<queue, enqueuing, live, enabled, wire, crashes, hangs>>

(* Its second statement: the row is retried, or its budget is spent.       *)
RequeueRow ==
  /\ sweep.at = "requeue"
  /\ SetStatus(sweep.row,
               resolveOutboxDeliveryStatus("retryable_failed", sweep.no))
  /\ sweep' = [sweep EXCEPT !.at = "recover", !.row = NoRow, !.no = 0]
  /\ UNCHANGED <<att, queue, enqueuing, live, enabled, wire, crashes, hangs>>

(* The due rows, then those of them that have an open item.                *)
ReadDue ==
  /\ sweep.at = "recover" /\ sweep.todo = {}
  /\ sweep' = [IdleSweep EXCEPT !.at = "live", !.todo = {r \in Row : Due(r)}]
  /\ UNCHANGED <<out, att, queue, enqueuing, live, enabled, wire, crashes,
                 hangs>>

ReadLive ==
  /\ sweep.at = "live"
  /\ sweep' = [sweep EXCEPT !.at = "create",
                            !.todo = {r \in @ : ~Open(r)}]
  /\ UNCHANGED <<out, att, queue, enqueuing, live, enabled, wire, crashes,
                 hangs>>

(* One item per remaining row; when the unique index refuses one, the      *)
(* whole sweep ends there.                                                 *)
SweepItem ==
  /\ sweep.at = "create"
  /\ IF sweep.todo = {} THEN sweep' = IdleSweep /\ UNCHANGED item
     ELSE \E r \in sweep.todo :
            IF Open(r) THEN sweep' = IdleSweep /\ UNCHANGED item
            ELSE NewItem(r) /\ sweep' = [sweep EXCEPT !.todo = @ \ {r}]
  /\ UNCHANGED <<out, att, enqueuing, live, enabled, run, late, wire, crashes,
                 hangs>>
-----------------------------------------------------------------------------
Deliver(h) ==
  \/ ReadRow(h) \/ CheckEligible(h) \/ StartAttempt(h) \/ MarkProcessing(h)
  \/ Send(h) \/ classifyIndexNowResult(h) \/ RecordAttempt(h) \/ SettleRow(h)
  \/ Return(h)

Sweep == BeginSweep \/ RecoverRow \/ RequeueRow \/ ReadDue \/ ReadLive \/ SweepItem

Next ==
  \/ \E r \in Row : \/ Enqueue(r) \/ FirstItem(r) \/ Release(r)
                    \/ BecomeAvailable(r) \/ Drift(r) \/ Recover(r)
  \/ \E h \in Handler : (\E r \in Row : Take(h, r)) \/ Hang(h) \/ Deliver(h)
  \/ Configure \/ Crash \/ Sweep

Spec == Init /\ [][Next]_vars

(* The workers run, an expired item is recovered, and somebody runs the    *)
(* sweep again and again, as nothing in the code does (sweep.ts).          *)
Fairness ==
  /\ WF_vars(Configure)
  /\ \A h \in Handler : WF_vars(Deliver(h))
  /\ \A r \in Row : /\ WF_vars(\E h \in Handler : Take(h, r))
                    /\ WF_vars(Recover(r)) /\ WF_vars(FirstItem(r))
                    /\ WF_vars(BecomeAvailable(r))
  /\ WF_vars(Sweep)

FairSpec == Spec /\ Fairness
-----------------------------------------------------------------------------
TypeOK ==
  /\ out \in [Row -> [status : RowStatus, count : {0} \cup Attempt,
                      deferred : BOOLEAN]]
  /\ att \in [Row -> [Attempt -> AttemptState]]
  /\ item \in [Row -> [status : {"none", "pending", "processing", "done"},
                       tries : 0..ItemTries]]
  /\ enqueuing \subseteq Row /\ live \subseteq Row /\ enabled \in BOOLEAN
  /\ run \in [Handler -> [at : RunAt, row : Row \cup {NoRow},
                          no : {0} \cup Attempt, outcome : Outcome]]
  /\ late \subseteq Handler
  /\ sweep \in [at : {"idle", "recover", "requeue", "live", "create"},
                todo : SUBSET Row, row : Row \cup {NoRow},
                no : {0} \cup Attempt,
                seen : [Row -> [no : {0} \cup Attempt, state : AttemptState]]]
  /\ sent \in [Row -> [Attempt -> Nat]]
  /\ answers \in [Row -> SUBSET Outcome]
  /\ crashes \in Nat /\ hangs \in Nat /\ crashes + hangs <= MaxMishaps

(* A row says accepted or permanent_failed only if some request was        *)
(* answered so, and dead_letter only if its last attempt was started: not  *)
(* even a late handler or a recovery that read old rows makes an outcome   *)
(* up (resolveOutboxDeliveryStatus, recoverStaleIndexNowDeliveries).       *)
OutcomeEvidenced ==
  /\ TypeOK
  /\ \A r \in Row :
       /\ out[r].status \in {"accepted", "permanent_failed"} =>
            out[r].status \in answers[r]
       /\ out[r].status = "dead_letter" =>
            \E n \in Attempt : n >= MaxAttempts /\ att[r][n] # "none"

OneRequestPerAttempt ==
  \A r \in Row, n \in Attempt :
    sent[r][n] <= 1 /\ (sent[r][n] = 1 => att[r][n] # "none")

WithinBudget == hangs = 0 => \A r \in Row : LatestNo(r) <= MaxAttempts

(* Every request that goes out has an attempt number of its own, with its  *)
(* row: two handlers that got the same number from an outbox row, because  *)
(* one of them had lost its lease, send one request between them           *)
(* (indexnow-delivery.ts, the comment at attemptNo).  And while no handler *)
(* outlives its lease, a row is never attempted more than maxAttempts      *)
(* times, whatever crashes and is recovered in between                     *)
(* (resolveOutboxDeliveryStatus).                                          *)
RequestsCounted == OneRequestPerAttempt /\ WithinBudget

(* The two places where one crash leaves a row that nothing will settle:   *)
(* its next attempt number is taken while the row still counts the one     *)
(* before (indexnow-delivery.ts:162, between StartAttempt and              *)
(* MarkProcessing), or recovery marked the attempt unknown and did not     *)
(* come to requeue the row (recovery.ts:56).                               *)
NumberTaken(r) ==
  /\ out[r].status \in {"pending", "retry_wait"}
  /\ out[r].count + 1 \in Attempt /\ att[r][out[r].count + 1] # "none"

HalfRecovered(r) ==
  out[r].status = "processing" /\ Latest(r).state = "unknown_outcome"

(* Every row is settled - delivered, refused, given up or cancelled -      *)
(* through hung handlers, crashes, deferral and drift, unless a crash left *)
(* it for good in one of these two places and in no other.                 *)
RowsSettle ==
  \A r \in Row :
    []<>(~NumberTaken(r) /\ ~HalfRecovered(r)) =>
      ((out[r].status # "none") ~> (out[r].status \in Settled))
=============================================================================
