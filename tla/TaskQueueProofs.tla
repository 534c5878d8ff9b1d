--------------------------- MODULE TaskQueueProofs ---------------------------
(***************************************************************************)
(* What the task queue guarantees for any workers, tasks, items, attempt   *)
(* limit and administrator requests: theorems about TaskQueue.             *)
(***************************************************************************)
EXTENDS TaskQueue, TLAPS, FiniteSetTheorems

(* What counting a task's rows yields: natural numbers.                    *)
LEMMA CountedType ==
  ASSUME task \in [Task -> ParentRow], NEW t \in Task,
         NEW s \in TaskStatus, NEW r
  PROVE  Counted(t, s, r) \in ParentRow
<1>1. \A status : Cardinality(With(t, status, r)) \in Nat
  <2>1. \A status : With(t, status, r) \subseteq Item
    BY DEF With, ItemsOf
  <2> QED BY <2>1, QueueAssumption, FS_Subset, FS_CardinalityType
<1> QED BY <1>1 DEF Counted, ParentRow

LEMMA DerivedType ==
  ASSUME NEW t \in Task, NEW s \in TaskStatus, NEW r
  PROVE  DerivedStatus(t, s, r) \in TaskStatus
BY DEF DerivedStatus, TaskStatus

LEMMA RecomputeType ==
  ASSUME task \in [Task -> ParentRow], NEW t \in Task,
         NEW s \in TaskStatus, NEW r, recomputeParentTask(t, s, r)
  PROVE  task' \in [Task -> ParentRow]
<1>1. Counted(t, DerivedStatus(t, s, r), r) \in ParentRow
  BY DerivedType, CountedType
<1> QED BY <1>1 DEF recomputeParentTask

(* What each way of changing item rows preserves.                           *)
LEMMA ReleasedOK ==
  ASSUME NEW r, RowsOK(r), NEW i \in Item,
         NEW status \in ItemStatus \ {"processing"}
  PROVE  RowsOK([r EXCEPT ![i] = Released(@, status)])
BY DEF RowsOK, Released, LeaseShape, Row, ItemStatus

LEMMA TerminateOK ==
  ASSUME NEW r, RowsOK(r), NEW t \in Task
  PROVE  RowsOK(terminatePendingTaskItems(t, r))
BY DEF RowsOK, terminatePendingTaskItems, With, ItemsOf, LeaseShape, Row,
       ItemStatus

LEMMA ClaimedOK ==
  ASSUME NEW r, RowsOK(r), NEW i \in Item, NEW w \in Worker
  PROVE  RowsOK([r EXCEPT ![i] = assignLease(@, w)])
<1>1. assignLease(r[i], w) \in Row /\ LeaseShape(assignLease(r[i], w))
  BY QueueAssumption DEF RowsOK, assignLease, LeaseShape, Row, ItemStatus
<1> QED BY <1>1 DEF RowsOK

LEMMA RetriedOK ==
  ASSUME NEW r, RowsOK(r), NEW t \in Task
  PROVE  RowsOK(retryItems(t, r))
BY DEF RowsOK, retryItems, Released, LeaseShape, Row, ItemStatus

(* Init satisfies the type invariant.                                      *)
LEMMA TypeInit == Init => TypeOK
<1> SUFFICES ASSUME Init PROVE TypeOK OBVIOUS
<1>1. RowsOK(item)
  BY DEF Init, RowsOK, Row, LeaseShape, ItemStatus
<1>2. task \in [Task -> ParentRow]
  BY DEF Init, ParentRow, TaskStatus
<1>3. ProcessOK
  BY DEF Init, ProcessOK, ActiveLease, Finalizing
<1>4. HistoryOK
  BY DEF Init, HistoryOK
<1> QED BY <1>1, <1>2, <1>3, <1>4 DEF TypeOK

(* Every step preserves it: one case per action.                           *)
LEMMA TypeStep == TypeOK /\ [Next]_vars => TypeOK'
<1> SUFFICES ASSUME TypeOK, [Next]_vars PROVE TypeOK'
  OBVIOUS
<1> USE QueueAssumption DEF TypeOK, HistoryOK
<1>1. ASSUME NEW w \in Worker, NEW i \in Item, ClaimRow(w, i)
      PROVE  RowsOK(item') /\ task' \in [Task -> ParentRow]
  <2>1. RowsOK(item')
    BY <1>1, ClaimedOK DEF ClaimRow
  <2>2. task[TaskOf[i]].status \in TaskStatus
    BY DEF ParentRow
  <2>3. task' \in [Task -> ParentRow]
    BY <1>1, <2>2, RecomputeType DEF ClaimRow
  <2> QED BY <2>1, <2>3
<1>2. ASSUME NEW w \in Worker, NEW i \in Item, Claim(w, i)
      PROVE  TypeOK'
  <2>1. RowsOK(item') /\ task' \in [Task -> ParentRow]
    BY <1>1, <1>2 DEF Claim
  <2>2. lease'[w] \in Lease /\ lease'[w].worker = w
    BY <1>2, <2>1 DEF Claim, Lease, ProcessOK, RowsOK, Row
  <2>3. ProcessOK'
    BY <1>2, <2>2 DEF Claim, ProcessOK, ActiveLease, Finalizing
  <2> QED BY <1>2, <2>1, <2>3 DEF Claim, history
<1>3. ASSUME NEW w \in Worker, NEW i \in Item, ClaimUnanswered(w, i)
      PROVE  TypeOK'
  BY <1>1, <1>3 DEF ClaimUnanswered, process, history, ProcessOK,
     ActiveLease, Finalizing
<1>4. ASSUME NEW w \in Worker, NEW i \in Item, Recover(w, i)
      PROVE  TypeOK'
  <2>1. RowsOK(item')
    BY <1>4, ReleasedOK DEF Recover, ItemStatus
  <2>2. task[TaskOf[i]].status \in TaskStatus
    BY DEF ParentRow
  <2>3. task' \in [Task -> ParentRow]
    BY <1>4, <2>2, RecomputeType DEF Recover
  <2> QED BY <1>4, <2>1, <2>3 DEF Recover, process, history, ProcessOK,
             ActiveLease, Finalizing
<1>5. ASSUME NEW i \in Item, Expire(i)
      PROVE  TypeOK'
  <2>1. RowsOK(item')
    BY <1>5 DEF Expire, RowsOK, Row, LeaseShape
  <2> QED BY <1>5, <2>1 DEF Expire, process, history, ProcessOK,
             ActiveLease, Finalizing
<1>6. ASSUME NEW w \in Worker, Heartbeat(w)
      PROVE  TypeOK'
  <2> DEFINE i == lease[w].item
  <2>1. /\ i \in Item /\ item[i].status = "processing"
        /\ item' = [item EXCEPT ![i].live = TRUE]
    BY <1>6 DEF Heartbeat, ProcessOK, Owns, Lease
  <2> HIDE DEF i
  <2>2. RowsOK(item')
    BY <2>1 DEF RowsOK, Row, LeaseShape
  <2> QED BY <1>6, <2>2 DEF Heartbeat, process, history, ProcessOK,
             ActiveLease, Finalizing
<1>7. ASSUME NEW l \in HandlerLeases, PhaseWrite(l)
      PROVE  TypeOK'
  <2>1. l \in Lease
    BY DEF HandlerLeases, ProcessOK, ActiveLease
  <2>2. lastWrite' \in [Item -> Nat]
    BY <1>7, <2>1 DEF PhaseWrite, Lease
  <2> QED BY <1>7, <2>2 DEF PhaseWrite, rows, process, ProcessOK,
             ActiveLease, Finalizing
<1>8. ASSUME NEW w \in Worker, NEW o \in Outcome, HandlerReturns(w, o)
      PROVE  TypeOK'
  <2>1. ProcessOK'
    BY <1>8 DEF HandlerReturns, ProcessOK, ActiveLease, Finalizing, Outcome
  <2> QED BY <1>8, <2>1 DEF HandlerReturns, rows, history
<1>9. ASSUME NEW w \in Worker, NEW where \in {"idle", "down"},
             Leave(w, where), audited' = audited, crashes' \in Nat,
             zombies' \subseteq Lease
      PROVE  ProcessOK'
  BY <1>9 DEF Leave, ProcessOK, ActiveLease, Finalizing
<1>10. ASSUME NEW w \in Worker, Abandon(w)
       PROVE  TypeOK'
  <2>1. lease[w] \in Lease
    BY <1>10 DEF Abandon, ProcessOK, ActiveLease
  <2>2. ProcessOK'
    BY <1>10, <2>1, <1>9 DEF Abandon, ProcessOK
  <2> QED BY <1>10, <2>2 DEF Abandon, rows, history
<1>11. ASSUME NEW l \in zombies, ZombieEnds(l)
       PROVE  TypeOK'
  <2>1. ProcessOK'
    BY <1>11 DEF ZombieEnds, ProcessOK, ActiveLease, Finalizing
  <2> QED BY <1>11, <2>1 DEF ZombieEnds, rows, history
<1>12. ASSUME NEW w \in Worker, ToIdle(w)
       PROVE  ProcessOK'
  BY <1>12, <1>9 DEF ToIdle, ProcessOK
<1>13. ASSUME NEW w \in Worker, Finalizing(w)
       PROVE  /\ lease[w].item \in Item
              /\ lease[w].epoch \in Nat
              /\ outcome[w] \in Outcome
              /\ TaskOf[lease[w].item] \in Task
              /\ task[TaskOf[lease[w].item]].status \in TaskStatus
  <2>1. lease[w] \in Lease /\ outcome[w] \in Outcome
    BY <1>13 DEF ProcessOK, Finalizing, ActiveLease
  <2> QED BY <2>1 DEF Lease, ParentRow
<1>14. ASSUME NEW w \in Worker, FinalizeTerminal(w)
       PROVE  TypeOK'
  <2> DEFINE i == lease[w].item
             t == TaskOf[i]
             held == outcome[w] = "hold" /\ task[t].status \in Runnable
             left == IF held THEN terminatePendingTaskItems(t, item)
                     ELSE item
             s == IF held THEN "disabled" ELSE task[t].status
             next == [left EXCEPT ![i] =
                        Released(@, FinalStatus(outcome[w]))]
  <2>1. /\ Finalizing(w) /\ outcome[w] # "retry"
        /\ item' = next /\ recomputeParentTask(t, s, next)
        /\ effects' = [effects EXCEPT ![i] =
                          IF outcome[w] = "success" THEN @ + 1 ELSE @]
        /\ lastWrite' = [lastWrite EXCEPT ![i] = lease[w].epoch]
        /\ ToIdle(w) /\ UNCHANGED rearmed
    BY <1>14 DEF FinalizeTerminal
  <2>2. i \in Item /\ t \in Task /\ s \in TaskStatus
    BY <2>1, <1>13 DEF TaskStatus
  <2>3. FinalStatus(outcome[w]) \in ItemStatus \ {"processing"}
    BY <2>1, <1>13 DEF FinalStatus, Outcome, ItemStatus
  <2>4. RowsOK(left)
    BY <2>2, TerminateOK
  <2>5. RowsOK(item')
    <3> HIDE DEF left, s, i, t
    <3> QED BY <2>1, <2>2, <2>3, <2>4, ReleasedOK
  <2>6. task' \in [Task -> ParentRow]
    <3> HIDE DEF next, s, i, t
    <3> QED BY <2>1, <2>2, RecomputeType
  <2>7. ProcessOK'
    BY <2>1, <1>12
  <2>8. HistoryOK'
    <3> HIDE DEF next, t, s, held, left
    <3>1. effects[i] \in Nat /\ lease[w].epoch \in Nat
      BY <2>1, <2>2, <1>13
    <3>2. (IF outcome[w] = "success" THEN effects[i] + 1 ELSE effects[i])
            \in Nat
      BY <3>1
    <3> HIDE DEF i
    <3> QED BY <2>1, <2>2, <3>1, <3>2
  <2> QED BY <2>5, <2>6, <2>7, <2>8
<1>15. ASSUME NEW w \in Worker, FinalizeRetry(w)
       PROVE  TypeOK'
  <2>1. RowsOK(item')
    BY <1>15, <1>13, ReleasedOK DEF FinalizeRetry, ItemStatus
  <2>2. task' \in [Task -> ParentRow]
    BY <1>15, <1>13, RecomputeType DEF FinalizeRetry
  <2> QED BY <1>15, <1>12, <1>13, <2>1, <2>2 DEF FinalizeRetry
<1>16. ASSUME NEW w \in Worker, FinalizeRefused(w) \/ FinalizeThrowsAgain(w)
       PROVE  TypeOK'
  BY <1>16, <1>12 DEF FinalizeRefused, FinalizeThrowsAgain, rows, history
<1>17. ASSUME NEW w \in Worker, FinalizeThrows(w)
       PROVE  TypeOK'
  <2>1. ProcessOK'
    BY <1>17 DEF FinalizeThrows, ProcessOK, ActiveLease, Finalizing, Outcome
  <2> QED BY <1>17, <2>1 DEF FinalizeThrows, rows, history
<1>18. ASSUME NEW w \in Worker, Crash(w)
       PROVE  TypeOK'
  <2>1. ProcessOK'
    BY <1>18, <1>9 DEF Crash, ProcessOK
  <2> QED BY <1>18, <2>1 DEF Crash, rows, history
<1>19. ASSUME NEW w \in Worker, Restart(w)
       PROVE  TypeOK'
  <2>1. ProcessOK'
    BY <1>19 DEF Restart, ProcessOK, ActiveLease, Finalizing
  <2> QED BY <1>19, <2>1 DEF Restart, rows, history
<1>20. ASSUME NEW r \in Request, pauseTask(r) \/ resumeTask(r)
       PROVE  TypeOK'
  <2>1. ProcessOK'
    BY <1>20 DEF pauseTask, resumeTask, Admitted, process, ProcessOK,
       ActiveLease, Finalizing
  <2>2. PICK s \in TaskStatus :
          task' = [task EXCEPT ![TargetOf[r]].status = s]
    BY <1>20 DEF pauseTask, resumeTask, TaskStatus
  <2>3. task' \in [Task -> ParentRow]
    BY <2>2 DEF ParentRow
  <2> QED BY <1>20, <2>1, <2>3 DEF pauseTask, resumeTask, history
<1>21. ASSUME NEW r \in Request, abortTask(r)
       PROVE  TypeOK'
  <2>1. ProcessOK'
    BY <1>21 DEF abortTask, Admitted, process, ProcessOK, ActiveLease,
       Finalizing
  <2>2. task' \in [Task -> ParentRow]
    BY <1>21 DEF abortTask, ParentRow, TaskStatus
  <2>3. RowsOK(item')
    BY <1>21, TerminateOK DEF abortTask
  <2> QED BY <1>21, <2>1, <2>2, <2>3 DEF abortTask, history
<1>22. ASSUME NEW r \in Request, retryFailedTask(r)
       PROVE  TypeOK'
  <2>1. ProcessOK'
    BY <1>22 DEF retryFailedTask, Admitted, process, ProcessOK, ActiveLease,
       Finalizing
  <2>2. RowsOK(item')
    BY <1>22, RetriedOK DEF retryFailedTask
  <2>3. Counted(TargetOf[r], "pending", retryItems(TargetOf[r], item))
          \in ParentRow
    BY QueueAssumption, CountedType DEF TaskStatus
  <2>4. task' \in [Task -> ParentRow]
    <3>1. [Counted(TargetOf[r], "pending", retryItems(TargetOf[r], item))
             EXCEPT !.blocked = FALSE] \in ParentRow
      BY <2>3 DEF ParentRow
    <3> QED BY <1>22, <3>1 DEF retryFailedTask
  <2> QED BY <1>22, <2>1, <2>2, <2>4 DEF retryFailedTask
<1>23. CASE UNCHANGED vars
  BY <1>23 DEF vars, ProcessOK, ActiveLease, Finalizing
<1> QED
  BY <1>2, <1>3, <1>4, <1>5, <1>6, <1>7, <1>8, <1>10, <1>11, <1>14, <1>15,
     <1>16, <1>17, <1>18, <1>19, <1>20, <1>21, <1>22, <1>23
     DEF Next, WorkerStep, AdminStep

(* The type invariant, with the database's lease shape: the lease columns  *)
(* of a row are set exactly while it is processing, through every claim,   *)
(* recovery, finalization, abort and retry.                                *)
THEOREM TypeCorrect == Spec => []TypeOK
BY TypeInit, TypeStep, PTL DEF Spec
-----------------------------------------------------------------------------
(* Leases are handed out by Claim, kept by Abandon in zombies, and          *)
(* otherwise only returned; epochs and attempts move by claims only.        *)
KeepsTerms ==
  \A i \in Item : /\ item'[i].epoch = item[i].epoch
                  /\ item'[i].attempts = item[i].attempts

NoNewLease ==
  /\ \A w \in Worker :
       ActiveLease(w)' => ActiveLease(w) /\ lease'[w] = lease[w]
  /\ zombies' \subseteq zombies

(* Changing status, owner and live alone keeps epochs and attempts.        *)
LEMMA ReleasedKeeps ==
  ASSUME NEW r, RowsOK(r), NEW i \in Item, NEW status, NEW j \in Item
  PROVE  /\ [r EXCEPT ![i] = Released(@, status)][j].epoch = r[j].epoch
         /\ [r EXCEPT ![i] = Released(@, status)][j].attempts = r[j].attempts
BY DEF RowsOK, Row, Released

LEMMA TerminateKeeps ==
  ASSUME NEW r, RowsOK(r), NEW t \in Task, NEW j \in Item
  PROVE  /\ terminatePendingTaskItems(t, r)[j].epoch = r[j].epoch
         /\ terminatePendingTaskItems(t, r)[j].attempts = r[j].attempts
BY DEF RowsOK, Row, terminatePendingTaskItems

LEMMA RetriedKeeps ==
  ASSUME NEW r, RowsOK(r), NEW t \in Task, NEW j \in Item
  PROVE  /\ retryItems(t, r)[j].epoch = r[j].epoch
         /\ retryItems(t, r)[j].attempts = r[j].attempts
BY DEF RowsOK, Row, retryItems, Released

LEMMA StepShapes ==
  TypeOK /\ [Next]_vars =>
    \/ \E w \in Worker, i \in Item : Claim(w, i) \/ ClaimUnanswered(w, i)
    \/ \E w \in Worker : Abandon(w)
    \/ KeepsTerms /\ NoNewLease
<1> SUFFICES ASSUME TypeOK, [Next]_vars,
                    ~\E w \in Worker, i \in Item :
                       Claim(w, i) \/ ClaimUnanswered(w, i),
                    ~\E w \in Worker : Abandon(w)
             PROVE  KeepsTerms /\ NoNewLease
  OBVIOUS
<1> USE QueueAssumption DEF TypeOK
<1>1. item' = item => KeepsTerms
  BY DEF KeepsTerms
<1>2. UNCHANGED process => NoNewLease
  BY DEF process, NoNewLease, ActiveLease
<1>3. ASSUME NEW w \in Worker, NEW where \in {"idle", "down"},
             Leave(w, where), zombies' \subseteq zombies
      PROVE  NoNewLease
  BY <1>3 DEF Leave, ProcessOK, NoNewLease, ActiveLease
<1>4. ASSUME NEW w \in Worker, NEW i \in Item, Recover(w, i)
      PROVE  KeepsTerms /\ NoNewLease
  BY <1>2, <1>4, ReleasedKeeps DEF Recover, KeepsTerms
<1>5. ASSUME NEW i \in Item, Expire(i)
      PROVE  KeepsTerms /\ NoNewLease
  BY <1>2, <1>5 DEF Expire, KeepsTerms, RowsOK, Row
<1>6. ASSUME NEW w \in Worker, Heartbeat(w)
      PROVE  KeepsTerms /\ NoNewLease
  BY <1>2, <1>6 DEF Heartbeat, KeepsTerms, RowsOK, Row
<1>7. ASSUME NEW l, PhaseWrite(l)
      PROVE  KeepsTerms /\ NoNewLease
  BY <1>1, <1>2, <1>7 DEF PhaseWrite, rows
<1>8. ASSUME NEW w \in Worker, NEW o, HandlerReturns(w, o)
      PROVE  KeepsTerms /\ NoNewLease
  BY <1>1, <1>8 DEF HandlerReturns, rows, ProcessOK, NoNewLease, ActiveLease
<1>9. ASSUME NEW l, ZombieEnds(l)
      PROVE  KeepsTerms /\ NoNewLease
  BY <1>1, <1>9 DEF ZombieEnds, rows, NoNewLease, ActiveLease
<1>10. ASSUME NEW w \in Worker, FinalizeTerminal(w)
       PROVE  KeepsTerms /\ NoNewLease
  <2> DEFINE i == lease[w].item
             t == TaskOf[i]
             o == outcome[w]
             left == IF o = "hold" /\ task[t].status \in Runnable
                       THEN terminatePendingTaskItems(t, item) ELSE item
             status == FinalStatus(o)
  <2>1. item' = [left EXCEPT ![i] = Released(@, status)]
    BY <1>10 DEF FinalizeTerminal
  <2>2. i \in Item /\ t \in Task
    BY <1>10 DEF FinalizeTerminal, Finalizing, ActiveLease, ProcessOK, Lease
  <2>3. RowsOK(left)
    BY <2>2, TerminateOK
  <2>4. \A j \in Item : /\ left[j].epoch = item[j].epoch
                        /\ left[j].attempts = item[j].attempts
    BY <2>2, TerminateKeeps
  <2>5. KeepsTerms
    <3> HIDE DEF left, i, status
    <3>1. \A j \in Item : /\ item'[j].epoch = left[j].epoch
                          /\ item'[j].attempts = left[j].attempts
      BY <2>1, <2>2, <2>3 DEF RowsOK, Row, Released
    <3> QED BY <2>4, <3>1 DEF KeepsTerms
  <2> QED BY <1>3, <1>10, <2>5 DEF FinalizeTerminal, ToIdle
<1>11. ASSUME NEW w \in Worker, FinalizeRetry(w)
       PROVE  KeepsTerms /\ NoNewLease
  <2>1. lease[w].item \in Item
    BY <1>11 DEF FinalizeRetry, Finalizing, ActiveLease, ProcessOK, Lease
  <2>2. KeepsTerms
    <3> DEFINE i == lease[w].item
    <3>1. i \in Item /\ item' = [item EXCEPT ![i] = Released(@, "pending")]
      BY <1>11, <2>1 DEF FinalizeRetry
    <3> HIDE DEF i
    <3> QED BY <3>1 DEF KeepsTerms, RowsOK, Row, Released
  <2> QED BY <1>3, <1>11, <2>2 DEF FinalizeRetry, ToIdle
<1>12. ASSUME NEW w \in Worker, FinalizeRefused(w) \/ FinalizeThrowsAgain(w)
       PROVE  KeepsTerms /\ NoNewLease
  BY <1>1, <1>3, <1>12 DEF FinalizeRefused, FinalizeThrowsAgain, ToIdle, rows
<1>13. ASSUME NEW w \in Worker, FinalizeThrows(w)
       PROVE  KeepsTerms /\ NoNewLease
  BY <1>1, <1>13
     DEF FinalizeThrows, rows, ProcessOK, NoNewLease, ActiveLease
<1>14. ASSUME NEW w \in Worker, Crash(w)
       PROVE  KeepsTerms /\ NoNewLease
  BY <1>1, <1>3, <1>14 DEF Crash, rows
<1>15. ASSUME NEW w \in Worker, Restart(w)
       PROVE  KeepsTerms /\ NoNewLease
  BY <1>1, <1>15 DEF Restart, rows, ProcessOK, NoNewLease, ActiveLease
<1>16. ASSUME NEW r \in Request, AdminStep(r)
       PROVE  KeepsTerms /\ NoNewLease
  BY <1>1, <1>2, <1>16, TerminateKeeps, RetriedKeeps
     DEF AdminStep, pauseTask, resumeTask, abortTask, retryFailedTask,
         KeepsTerms
<1>17. CASE UNCHANGED vars
  BY <1>1, <1>17 DEF vars, NoNewLease, ActiveLease
<1> QED
  BY <1>4, <1>5, <1>6, <1>7, <1>8, <1>9, <1>10, <1>11, <1>12, <1>13, <1>14,
     <1>15, <1>16, <1>17 DEF Next, WorkerStep

LEMMA TermsStep ==
  TypeOK /\ EpochsBehind /\ TermsUnique /\ [Next]_vars
    => EpochsBehind' /\ TermsUnique'
<1> SUFFICES ASSUME TypeOK, EpochsBehind, TermsUnique, [Next]_vars
             PROVE  EpochsBehind' /\ TermsUnique'
  OBVIOUS
<1> USE QueueAssumption DEF TypeOK
<1>0. /\ \A w \in Worker : ActiveLease(w) =>
            lease[w].item \in Item /\ lease[w].epoch \in Nat
      /\ \A l \in zombies : l.item \in Item /\ l.epoch \in Nat
      /\ \A i \in Item : item[i].epoch \in Nat
  BY DEF ProcessOK, Lease, RowsOK, Row
<1>1. ASSUME NEW w \in Worker, NEW i \in Item,
             Claim(w, i) \/ ClaimUnanswered(w, i)
      PROVE  /\ item'[i].epoch = item[i].epoch + 1
             /\ \A j \in Item \ {i} : item'[j].epoch = item[j].epoch
  BY <1>1 DEF Claim, ClaimUnanswered, ClaimRow, assignLease, RowsOK, Row
<1>2. ASSUME NEW w \in Worker, NEW i \in Item, Claim(w, i)
      PROVE  EpochsBehind' /\ TermsUnique'
  <2>1. lease'[w].item = i /\ lease'[w].epoch = item[i].epoch + 1
    BY <1>1, <1>2 DEF Claim, ProcessOK
  <2>2. \A v \in Worker \ {w} : /\ ActiveLease(v)' <=> ActiveLease(v)
                                /\ lease'[v] = lease[v]
    BY <1>2 DEF Claim, ProcessOK, ActiveLease
  <2>3. zombies' = zombies
    BY <1>2 DEF Claim
  <2>4. EpochsBehind'
    BY <1>0, <1>1, <1>2, <2>1, <2>2, <2>3 DEF EpochsBehind
  <2>5. \A v \in Worker \ {w} :
          ActiveLease(v) /\ lease[v].item = i => lease[v].epoch # item[i].epoch + 1
    BY <1>0 DEF EpochsBehind
  <2>6. \A l \in zombies : l.item = i => l.epoch # item[i].epoch + 1
    BY <1>0 DEF EpochsBehind
  <2>7. TermsUnique'
    BY <2>1, <2>2, <2>3, <2>5, <2>6 DEF TermsUnique
  <2> QED BY <2>4, <2>7
<1>3. ASSUME NEW w \in Worker, NEW i \in Item, ClaimUnanswered(w, i)
      PROVE  EpochsBehind' /\ TermsUnique'
  <2>1. UNCHANGED <<pc, lease, zombies>>
    BY <1>3 DEF ClaimUnanswered, process
  <2> QED BY <1>0, <1>1, <1>3, <2>1 DEF EpochsBehind, TermsUnique, ActiveLease
<1>4. ASSUME NEW w \in Worker, Abandon(w)
      PROVE  EpochsBehind' /\ TermsUnique'
  <2>1. /\ ActiveLease(w) /\ ~ActiveLease(w)'
        /\ \A v \in Worker \ {w} : /\ ActiveLease(v)' <=> ActiveLease(v)
                                    /\ lease'[v] = lease[v]
    BY <1>4 DEF Abandon, Leave, ProcessOK, ActiveLease
  <2>2. item' = item /\ zombies' = zombies \cup {lease[w]}
    BY <1>4 DEF Abandon, rows
  <2>3. EpochsBehind'
    BY <2>1, <2>2 DEF EpochsBehind
  <2>4. \A v \in Worker, l \in zombies' :
          ActiveLease(v)' /\ lease'[v].item = l.item => lease'[v].epoch # l.epoch
    BY <2>1, <2>2 DEF TermsUnique
  <2>5. \A k, l \in zombies' : k.item = l.item /\ k.epoch = l.epoch => k = l
    BY <2>1, <2>2 DEF TermsUnique
  <2> QED BY <2>1, <2>3, <2>4, <2>5 DEF TermsUnique
<1>5. CASE KeepsTerms /\ NoNewLease
  BY <1>0, <1>5 DEF KeepsTerms, NoNewLease, EpochsBehind, TermsUnique
<1> QED
  BY <1>2, <1>3, <1>4, <1>5, StepShapes

-----------------------------------------------------------------------------
LEMMA EffectStep == TypeOK /\ EffectOnce /\ [Next]_vars => EffectOnce'
<1> SUFFICES ASSUME TypeOK, EffectOnce, [Next]_vars
             PROVE  EffectOnce'
  OBVIOUS
<1> USE QueueAssumption DEF TypeOK
<1> DEFINE Kept == /\ effects' = effects
                   /\ \A i \in Item : item'[i].status = "success"
                                       <=> item[i].status = "success"
<1>1. Kept => EffectOnce'
  BY DEF EffectOnce
<1>2. item' = item /\ effects' = effects => Kept
  OBVIOUS
<1>3. ASSUME NEW w \in Worker, NEW i \in Item,
             Claim(w, i) \/ ClaimUnanswered(w, i)
      PROVE  Kept
  BY <1>3 DEF Claim, ClaimUnanswered, ClaimRow, assignLease, history, RowsOK,
     Row
<1>4. ASSUME NEW w \in Worker, NEW i \in Item, Recover(w, i)
      PROVE  Kept
  BY <1>4 DEF Recover, Released, history, RowsOK, Row
<1>5. ASSUME NEW i \in Item, Expire(i)
      PROVE  Kept
  BY <1>5 DEF Expire, history, RowsOK, Row
<1>6. ASSUME NEW w \in Worker, Heartbeat(w)
      PROVE  Kept
  BY <1>6 DEF Heartbeat, history, RowsOK, Row
<1>7. ASSUME NEW l, PhaseWrite(l) \/ ZombieEnds(l)
      PROVE  Kept
  BY <1>2, <1>7 DEF PhaseWrite, ZombieEnds, rows, history
<1>8. ASSUME NEW w \in Worker, NEW o, HandlerReturns(w, o)
      PROVE  Kept
  BY <1>2, <1>8 DEF HandlerReturns, rows, history
<1>9. ASSUME NEW w \in Worker,
             \/ Abandon(w) \/ FinalizeRefused(w) \/ FinalizeThrowsAgain(w)
             \/ Crash(w) \/ Restart(w)
             \/ FinalizeThrows(w)
      PROVE  Kept
  BY <1>2, <1>9 DEF Abandon, FinalizeRefused, FinalizeThrowsAgain, Crash,
     Restart, FinalizeThrows, rows, history
<1>10. ASSUME NEW w \in Worker, Finalizing(w), Owns(lease[w])
       PROVE  /\ lease[w].item \in Item /\ outcome[w] \in Outcome
              /\ item[lease[w].item].status = "processing"
  BY <1>10 DEF Owns, ProcessOK, Finalizing, ActiveLease, Lease
<1>11. ASSUME NEW w \in Worker, FinalizeRetry(w)
       PROVE  Kept
  BY <1>10, <1>11 DEF FinalizeRetry, Released, RowsOK, Row
<1>12. ASSUME NEW w \in Worker, FinalizeTerminal(w)
       PROVE  EffectOnce'
  <2> DEFINE i == lease[w].item
             t == TaskOf[i]
             o == outcome[w]
             held == o = "hold" /\ task[t].status \in Runnable
             left == IF held THEN terminatePendingTaskItems(t, item)
                     ELSE item
  <2>1. /\ item' = [left EXCEPT ![i] = Released(@, FinalStatus(o))]
        /\ effects' = [effects EXCEPT ![i] =
                          IF o = "success" THEN @ + 1 ELSE @]
        /\ i \in Item /\ o \in Outcome /\ item[i].status = "processing"
    BY <1>10, <1>12 DEF FinalizeTerminal
  <2>2. left \in [Item -> Row]
    BY <2>1, TerminateOK DEF RowsOK
  <2>3. \A j \in Item :
          left[j].status = "success" <=> item[j].status = "success"
    <3>1. \A j \in Item : terminatePendingTaskItems(t, item)[j].status
                             = "success" <=> item[j].status = "success"
      BY DEF terminatePendingTaskItems, With, RowsOK, Row
    <3> QED BY <3>1
  <2>4. FinalStatus(o) = "success" <=> o = "success"
    BY DEF FinalStatus
  <2>5. /\ item'[i].status = "success" <=> o = "success"
        /\ \A j \in Item \ {i} : item'[j] = left[j]
    <3> HIDE DEF left, i, t, o
    <3> QED BY <2>1, <2>2, <2>4 DEF Released, Row
  <2>6. effects[i] = 0
    BY <2>1 DEF EffectOnce
  <2>7. /\ effects'[i] = IF o = "success" THEN 1 ELSE 0
        /\ \A j \in Item \ {i} : effects'[j] = effects[j]
    <3> HIDE DEF left, i, t, o
    <3> QED BY <2>1, <2>6 DEF HistoryOK
  <2> QED BY <2>3, <2>5, <2>7 DEF EffectOnce
<1>13. ASSUME NEW r \in Request, AdminStep(r)
       PROVE  Kept
  <2>1. CASE pauseTask(r) \/ resumeTask(r)
    BY <1>2, <2>1 DEF pauseTask, resumeTask, history
  <2>2. CASE abortTask(r)
    BY <2>2 DEF abortTask, history, terminatePendingTaskItems, With, RowsOK,
       Row
  <2>3. CASE retryFailedTask(r)
    BY <2>3 DEF retryFailedTask, retryItems, Released, With, RowsOK, Row
  <2> QED BY <1>13, <2>1, <2>2, <2>3 DEF AdminStep
<1>14. CASE UNCHANGED vars
  BY <1>1, <1>2, <1>14 DEF vars
<1> QED
  BY <1>1, <1>3, <1>4, <1>5, <1>6, <1>7, <1>8, <1>9, <1>11, <1>12, <1>13,
     <1>14 DEF Next, WorkerStep

-----------------------------------------------------------------------------
(* A step's writes carry the item's current epoch.                         *)
LEMMA WriteStep ==
  TypeOK /\ [Next]_vars =>
    \A i \in Item : lastWrite'[i] \in {lastWrite[i], item[i].epoch}
<1> SUFFICES ASSUME TypeOK, [Next]_vars
             PROVE  \A i \in Item :
                      lastWrite'[i] \in {lastWrite[i], item[i].epoch}
  OBVIOUS
<1> USE DEF TypeOK, HistoryOK
<1>1. CASE UNCHANGED lastWrite
  BY <1>1
<1>2. ASSUME NEW l, PhaseWrite(l)
      PROVE  \A i \in Item : lastWrite'[i] \in {lastWrite[i], item[i].epoch}
  BY <1>2 DEF PhaseWrite, Owns
<1>3. ASSUME NEW w \in Worker, FinalizeTerminal(w) \/ FinalizeRetry(w)
      PROVE  \A i \in Item : lastWrite'[i] \in {lastWrite[i], item[i].epoch}
  <2>1. /\ lastWrite' = [lastWrite EXCEPT ![lease[w].item] = lease[w].epoch]
        /\ Owns(lease[w])
    BY <1>3 DEF FinalizeTerminal, FinalizeRetry
  <2> QED BY <2>1 DEF Owns
<1> QED
  BY <1>1, <1>2, <1>3
     DEF Next, WorkerStep, AdminStep, vars, history, Claim, ClaimUnanswered,
         Recover, Expire, Heartbeat, HandlerReturns, Abandon, ZombieEnds,
         FinalizeRefused, FinalizeThrows, FinalizeThrowsAgain, Crash, Restart,
         pauseTask, resumeTask, abortTask, retryFailedTask

LEMMA EpochsGrow ==
  TypeOK /\ [Next]_vars => \A i \in Item : item'[i].epoch >= item[i].epoch
<1> SUFFICES ASSUME TypeOK, [Next]_vars, NEW i \in Item
             PROVE  item'[i].epoch >= item[i].epoch
  OBVIOUS
<1>1. item[i].epoch \in Nat
  BY DEF TypeOK, RowsOK, Row
<1>2. ASSUME NEW w \in Worker, NEW j \in Item,
             Claim(w, j) \/ ClaimUnanswered(w, j)
      PROVE  item'[i].epoch >= item[i].epoch
  BY <1>1, <1>2
     DEF Claim, ClaimUnanswered, ClaimRow, assignLease, TypeOK, RowsOK, Row
<1>3. ASSUME NEW w \in Worker, Abandon(w)
      PROVE  item'[i].epoch >= item[i].epoch
  BY <1>1, <1>3 DEF Abandon, rows
<1>4. CASE KeepsTerms
  BY <1>1, <1>4 DEF KeepsTerms
<1> QED BY <1>2, <1>3, <1>4, StepShapes

-----------------------------------------------------------------------------
(* The attempts of each item against its budget: the two conjuncts about   *)
(* rows, and the two about workers.                                        *)
RowsInBudget ==
  \A i \in Item :
    /\ item[i].attempts <= MaxAttempts + rearmed[TaskOf[i]]
    /\ item[i].status = "pending" =>
         item[i].attempts < MaxAttempts + rearmed[TaskOf[i]]

WorkersKnow ==
  \A w \in Worker :
    /\ ActiveLease(w) /\ lease[w].epoch = item[lease[w].item].epoch =>
         lease[w].attempts = item[lease[w].item].attempts
    /\ Finalizing(w) /\ outcome[w] = "retry" =>
         lease[w].attempts < MaxAttempts

LEMMA BudgetParts ==
  AttemptsLeft /\ AttemptsBounded <=> RowsInBudget /\ WorkersKnow
BY DEF AttemptsLeft, AttemptsBounded, RowsInBudget, WorkersKnow

LEMMA WorkersKnowStep ==
  TypeOK /\ EpochsBehind /\ WorkersKnow /\ [Next]_vars => WorkersKnow'
<1> SUFFICES ASSUME TypeOK, EpochsBehind, WorkersKnow, [Next]_vars
             PROVE  WorkersKnow'
  OBVIOUS
<1> USE QueueAssumption DEF TypeOK
<1>0. \A w \in Worker : ActiveLease(w) =>
        /\ lease[w].item \in Item /\ lease[w].epoch \in Nat
        /\ item[lease[w].item].epoch \in Nat
        /\ lease[w].epoch <= item[lease[w].item].epoch
  BY DEF ProcessOK, Lease, RowsOK, Row, EpochsBehind
<1> DEFINE Retries(w) == Finalizing(w) /\ outcome[w] = "retry" =>
                           lease[w].attempts < MaxAttempts
           Knows(w) ==
             ActiveLease(w) /\ lease[w].epoch = item[lease[w].item].epoch =>
               lease[w].attempts = item[lease[w].item].attempts
<1>1. ASSUME NEW w \in Worker, NEW i \in Item,
             Claim(w, i) \/ ClaimUnanswered(w, i)
      PROVE  /\ item'[i].epoch = item[i].epoch + 1
             /\ \A j \in Item \ {i} : item'[j] = item[j]
  BY <1>1 DEF Claim, ClaimUnanswered, ClaimRow, assignLease, RowsOK, Row
<1>2. ASSUME NEW w \in Worker, NEW i \in Item,
             Claim(w, i) \/ ClaimUnanswered(w, i), NEW v \in Worker,
             ActiveLease(v)' <=> ActiveLease(v), lease'[v] = lease[v]
      PROVE  Knows(v)'
  <2>1. Knows(v)
    BY DEF WorkersKnow
  <2>2. CASE ActiveLease(v) /\ lease[v].item = i
    BY <1>0, <1>1, <1>2, <2>2
  <2>3. CASE ActiveLease(v) /\ lease[v].item # i
    BY <1>0, <1>1, <1>2, <2>1, <2>3
  <2> QED BY <1>2, <2>2, <2>3
<1>3. ASSUME NEW w \in Worker, NEW i \in Item, Claim(w, i)
      PROVE  WorkersKnow'
  <2>1. Knows(w)'
    BY <1>3 DEF Claim, ProcessOK
  <2>2. \A v \in Worker \ {w} : Knows(v)'
    BY <1>2, <1>3 DEF Claim, ProcessOK, ActiveLease
  <2>3. \A v \in Worker : Retries(v)'
    BY <1>3 DEF Claim, ProcessOK, Finalizing, WorkersKnow
  <2> QED BY <2>1, <2>2, <2>3 DEF WorkersKnow
<1>4. ASSUME NEW w \in Worker, NEW i \in Item, ClaimUnanswered(w, i)
      PROVE  WorkersKnow'
  <2>1. UNCHANGED <<pc, lease, outcome>>
    BY <1>4 DEF ClaimUnanswered, process
  <2>2. \A v \in Worker : Knows(v)'
    BY <1>2, <1>4, <2>1 DEF ActiveLease
  <2>3. \A v \in Worker : Retries(v)'
    BY <2>1 DEF Finalizing, WorkersKnow
  <2> QED BY <2>2, <2>3 DEF WorkersKnow
<1>5. CASE KeepsTerms /\ NoNewLease
  <2>1. \A v \in Worker : Knows(v)'
    BY <1>0, <1>5 DEF KeepsTerms, NoNewLease, WorkersKnow
  <2>2. ASSUME NEW w \in Worker, NEW o \in Outcome, HandlerReturns(w, o),
               NEW v \in Worker
        PROVE  Retries(v)'
    <3>1. lease[w].attempts \in Nat
      BY <2>2 DEF HandlerReturns, ProcessOK, ActiveLease, Lease
    <3>2. CASE v = w
      BY <2>2, <3>1, <3>2 DEF HandlerReturns, ProcessOK
    <3>3. CASE v # w
      BY <2>2, <3>3 DEF HandlerReturns, ProcessOK, Finalizing, WorkersKnow
    <3> QED BY <3>2, <3>3
  <2>3. ASSUME NEW w \in Worker, FinalizeThrows(w), NEW v \in Worker
        PROVE  Retries(v)'
    BY <2>3 DEF FinalizeThrows, ProcessOK, Finalizing, WorkersKnow
  <2>4. ASSUME NEW w \in Worker, NEW where \in {"idle", "down"},
               Leave(w, where), NEW v \in Worker
        PROVE  Retries(v)'
    BY <2>4 DEF Leave, ProcessOK, Finalizing, WorkersKnow
  <2>5. ASSUME UNCHANGED <<pc, lease, outcome>>, NEW v \in Worker
        PROVE  Retries(v)'
    BY <2>5 DEF Finalizing, WorkersKnow
  <2>6. ASSUME NEW w \in Worker, Restart(w), NEW v \in Worker
        PROVE  Retries(v)'
    BY <2>6 DEF Restart, ProcessOK, Finalizing, WorkersKnow
  <2>7. \A v \in Worker : Retries(v)'
    <3>1. ASSUME NEW w \in Worker, NEW i \in Item,
                 Claim(w, i) \/ ClaimUnanswered(w, i)
          PROVE  \A v \in Worker : Retries(v)'
      BY <1>3, <1>4, <3>1 DEF WorkersKnow
    <3> HIDE DEF Retries
    <3>2. ASSUME NEW w \in Worker,
                 \/ Abandon(w) \/ FinalizeTerminal(w) \/ FinalizeRetry(w)
                 \/ FinalizeRefused(w) \/ FinalizeThrowsAgain(w) \/ Crash(w)
          PROVE  \A v \in Worker : Retries(v)'
      BY <2>4, <3>2 DEF Abandon, FinalizeTerminal, FinalizeRetry,
         FinalizeRefused, FinalizeThrowsAgain, ToIdle, Crash
    <3>3. ASSUME NEW w \in Worker,
                 Heartbeat(w) \/ (\E i \in Item : Recover(w, i))
          PROVE  \A v \in Worker : Retries(v)'
      BY <2>5, <3>3 DEF Heartbeat, Recover, process
    <3>4. ASSUME NEW i, Expire(i) \/ PhaseWrite(i) \/ ZombieEnds(i)
          PROVE  \A v \in Worker : Retries(v)'
      BY <2>5, <3>4 DEF Expire, PhaseWrite, ZombieEnds, process
    <3>5. ASSUME NEW r \in Request, AdminStep(r)
          PROVE  \A v \in Worker : Retries(v)'
      BY <2>5, <3>5 DEF AdminStep, pauseTask, resumeTask, abortTask,
         retryFailedTask, process
    <3>6. CASE UNCHANGED vars
      BY <2>5, <3>6 DEF vars
    <3> QED
      BY <2>2, <2>3, <2>6, <3>1, <3>2, <3>3, <3>4, <3>5, <3>6
         DEF Next, WorkerStep
  <2> QED BY <2>1, <2>7 DEF WorkersKnow
<1>6. ASSUME NEW w \in Worker, Abandon(w)
      PROVE  WorkersKnow'
  BY <1>6 DEF Abandon, Leave, rows, ProcessOK, ActiveLease, Finalizing,
     WorkersKnow
<1> QED BY <1>3, <1>4, <1>5, <1>6, StepShapes

LEMMA RowsInBudgetStep ==
  TypeOK /\ RowsInBudget /\ WorkersKnow /\ [Next]_vars => RowsInBudget'
<1> SUFFICES ASSUME TypeOK, RowsInBudget, WorkersKnow, [Next]_vars
             PROVE  RowsInBudget'
  OBVIOUS
<1> USE QueueAssumption DEF TypeOK, HistoryOK
<1>0. /\ \A i \in Item : /\ item[i].attempts \in Nat
                        /\ TaskOf[i] \in Task /\ rearmed[TaskOf[i]] \in Nat
      /\ MaxAttempts \in Nat
  BY DEF RowsOK, Row
<1> DEFINE Budget(i) == MaxAttempts + rearmed[TaskOf[i]]
           Fits(i) == /\ item[i].attempts <= Budget(i)
                      /\ item[i].status = "pending" =>
                           item[i].attempts < Budget(i)
           Kept == /\ rearmed' = rearmed
                   /\ \A i \in Item :
                        /\ item'[i].attempts = item[i].attempts
                        /\ item'[i].status = "pending" =>
                             item[i].status = "pending"
<1>1. Kept => RowsInBudget'
  BY <1>0 DEF RowsInBudget
<1>2. item' = item /\ rearmed' = rearmed => Kept
  OBVIOUS
<1>3. ASSUME NEW w \in Worker, NEW i \in Item,
             Claim(w, i) \/ ClaimUnanswered(w, i)
      PROVE  RowsInBudget'
  <2>1. /\ item[i].status = "pending" /\ rearmed' = rearmed
        /\ item'[i].attempts = item[i].attempts + 1
        /\ item'[i].status = "processing"
        /\ \A j \in Item \ {i} : item'[j] = item[j]
    BY <1>3 DEF Claim, ClaimUnanswered, ClaimRow, assignLease, history,
       RowsOK, Row
  <2> QED BY <1>0, <2>1 DEF RowsInBudget
<1>4. ASSUME NEW w \in Worker, NEW i \in Item, Recover(w, i)
      PROVE  RowsInBudget'
  <2>1. /\ rearmed' = rearmed
        /\ item'[i].attempts = item[i].attempts
        /\ item'[i].status = "pending" => item[i].attempts < MaxAttempts
        /\ \A j \in Item \ {i} : item'[j] = item[j]
    BY <1>0, <1>4 DEF Recover, Released, history, RowsOK, Row
  <2> QED BY <1>0, <2>1 DEF RowsInBudget
<1>5. ASSUME NEW i \in Item, Expire(i)
      PROVE  Kept
  BY <1>5 DEF Expire, history, RowsOK, Row
<1>6. ASSUME NEW w \in Worker, Heartbeat(w)
      PROVE  Kept
  BY <1>6 DEF Heartbeat, history, RowsOK, Row
<1>7. ASSUME NEW w \in Worker, Finalizing(w), Owns(lease[w])
      PROVE  /\ lease[w].item \in Item /\ outcome[w] \in Outcome
             /\ outcome[w] = "retry" =>
                  item[lease[w].item].attempts < MaxAttempts
  BY <1>7 DEF Owns, ProcessOK, Finalizing, ActiveLease, Lease, WorkersKnow
<1>8. ASSUME NEW w \in Worker, FinalizeRetry(w)
      PROVE  RowsInBudget'
  <2> DEFINE i == lease[w].item
  <2>1. /\ i \in Item /\ rearmed' = rearmed
        /\ item' = [item EXCEPT ![i] = Released(@, "pending")]
        /\ item[i].attempts < MaxAttempts
    BY <1>7, <1>8 DEF FinalizeRetry
  <2> HIDE DEF i
  <2>2. /\ item'[i].attempts = item[i].attempts
        /\ \A j \in Item \ {i} : item'[j] = item[j]
    BY <2>1 DEF Released, RowsOK, Row
  <2> QED BY <1>0, <2>1, <2>2 DEF RowsInBudget
<1>9. ASSUME NEW w \in Worker, FinalizeTerminal(w)
      PROVE  Kept
  <2> DEFINE i == lease[w].item
             t == TaskOf[i]
             o == outcome[w]
             held == o = "hold" /\ task[t].status \in Runnable
             left == IF held THEN terminatePendingTaskItems(t, item)
                     ELSE item
  <2>1. /\ item' = [left EXCEPT ![i] = Released(@, FinalStatus(o))]
        /\ i \in Item /\ FinalStatus(o) # "pending" /\ rearmed' = rearmed
    BY <1>7, <1>9 DEF FinalizeTerminal, FinalStatus, Outcome
  <2>2. left \in [Item -> Row]
    BY <2>1, TerminateOK DEF RowsOK
  <2>3. \A j \in Item :
          /\ terminatePendingTaskItems(t, item)[j].attempts = item[j].attempts
          /\ terminatePendingTaskItems(t, item)[j].status = "pending" =>
               item[j].status = "pending"
    BY DEF terminatePendingTaskItems, With, RowsOK, Row
  <2>4. \A j \in Item :
          /\ left[j].attempts = item[j].attempts
          /\ left[j].status = "pending" => item[j].status = "pending"
    BY <2>3
  <2>5. /\ item'[i].attempts = left[i].attempts
        /\ item'[i].status # "pending"
        /\ \A j \in Item \ {i} : item'[j] = left[j]
    <3> HIDE DEF left, i, t, o
    <3> QED BY <2>1, <2>2 DEF Released, Row
  <2> HIDE DEF left, i, t, o
  <2>6. \A j \in Item : /\ item'[j].attempts = item[j].attempts
                        /\ item'[j].status = "pending" =>
                             item[j].status = "pending"
    BY <2>4, <2>5
  <2> QED BY <2>1, <2>6
<1>10. ASSUME NEW r \in Request, AdminStep(r)
       PROVE  RowsInBudget'
  <2>1. CASE pauseTask(r) \/ resumeTask(r)
    BY <1>1, <1>2, <2>1 DEF pauseTask, resumeTask, history
  <2>2. CASE abortTask(r)
    <3>1. Kept
      BY <2>2 DEF abortTask, history, terminatePendingTaskItems, With, RowsOK,
         Row
    <3> QED BY <1>1, <3>1
  <2>3. CASE retryFailedTask(r)
    <3> DEFINE t == TargetOf[r]
    <3>1. /\ t \in Task
          /\ rearmed'[t] = rearmed[t] + 1
          /\ \A u \in Task \ {t} : rearmed'[u] = rearmed[u]
          /\ \A i \in Item : item'[i].attempts = item[i].attempts
          /\ \A i \in Item :
               item'[i].status = "pending" =>
                 item[i].status = "pending" \/ TaskOf[i] = t
      BY <2>3 DEF retryFailedTask, retryItems, Released, With, ItemsOf,
         RowsOK, Row
    <3> HIDE DEF t
    <3> QED BY <1>0, <3>1 DEF RowsInBudget
  <2> QED BY <1>10, <2>1, <2>2, <2>3 DEF AdminStep
<1>11. CASE item' = item /\ rearmed' = rearmed
  BY <1>1, <1>2, <1>11
<1> QED
  BY <1>1, <1>3, <1>4, <1>5, <1>6, <1>8, <1>9, <1>10, <1>11
     DEF Next, WorkerStep, vars, rows, history, HandlerReturns, PhaseWrite,
         Abandon, ZombieEnds, FinalizeRefused, FinalizeThrows,
         FinalizeThrowsAgain, Crash, Restart

-----------------------------------------------------------------------------
(* The inductive invariant of leases, for every value of the constants:    *)
(* terms are issued once, writes stay behind them, attempts stay           *)
(* within their budget, and successes are counted once.                    *)
THEOREM LeaseInvariant == Spec => []LeaseInv
<1>1. Init => LeaseInv
  <2>1. Init => EpochsBehind /\ TermsUnique /\ WritesBehind /\ EffectOnce
    BY DEF Init, EpochsBehind, TermsUnique, WritesBehind, EffectOnce,
       ActiveLease
  <2>2. Init => AttemptsLeft /\ AttemptsBounded
    BY QueueAssumption DEF Init, AttemptsLeft, AttemptsBounded, ActiveLease,
       Finalizing
  <2> QED BY <2>1, <2>2 DEF LeaseInv
<1>2. TypeOK /\ LeaseInv /\ [Next]_vars => LeaseInv'
  <2> SUFFICES ASSUME TypeOK, LeaseInv, [Next]_vars PROVE LeaseInv'
    OBVIOUS
  <2>1. TypeOK'
    BY TypeStep
  <2>2. EpochsBehind' /\ TermsUnique' /\ EffectOnce'
    BY TermsStep, EffectStep DEF LeaseInv
  <2>3. WritesBehind'
    <3> SUFFICES ASSUME NEW i \in Item
                 PROVE  lastWrite'[i] <= item'[i].epoch
      BY DEF WritesBehind
    <3>1. /\ lastWrite[i] \in Nat /\ item[i].epoch \in Nat
          /\ item'[i].epoch \in Nat
      BY <2>1 DEF TypeOK, HistoryOK, RowsOK, Row
    <3>2. /\ lastWrite[i] <= item[i].epoch
          /\ lastWrite'[i] \in {lastWrite[i], item[i].epoch}
          /\ item'[i].epoch >= item[i].epoch
      BY WriteStep, EpochsGrow DEF LeaseInv, WritesBehind
    <3> QED BY <3>1, <3>2
  <2>4. RowsInBudget /\ WorkersKnow
    BY BudgetParts DEF LeaseInv
  <2>5. RowsInBudget' /\ WorkersKnow'
    BY <2>4, RowsInBudgetStep, WorkersKnowStep DEF LeaseInv
  <2>6. AttemptsLeft' /\ AttemptsBounded'
    BY <2>5 DEF RowsInBudget, WorkersKnow, AttemptsLeft, AttemptsBounded
  <2> QED BY <2>2, <2>3, <2>6 DEF LeaseInv
<1> QED BY <1>1, <1>2, TypeCorrect, PTL DEF Spec

(* No two handlers ever hold the same term of an item (TermsUnique):       *)
(* however many workers crash, expire, are abandoned or never hear of      *)
(* their claim, each lease_epoch is issued once.                           *)
THEOREM TermsAreUnique == Spec => []TermsUnique
<1>1. LeaseInv => TermsUnique
  BY DEF LeaseInv
<1> QED BY <1>1, LeaseInvariant, PTL

(* An item succeeds at most once (EffectOnce): whatever handlers run twice *)
(* under expired leases, the fence lets one successful finalization in,    *)
(* and nothing ever takes it back.                                         *)
THEOREM EffectIsOnce == Spec => []EffectOnce
<1>1. LeaseInv => EffectOnce
  BY DEF LeaseInv
<1> QED BY <1>1, LeaseInvariant, PTL

(* Work is bounded (AttemptsBounded): no interleaving of retries, lost     *)
(* leases and fallback finalizations gives an item more than MaxAttempts   *)
(* attempts for each time it was armed.                                    *)
THEOREM AttemptsAreBounded == Spec => []AttemptsBounded
<1>1. LeaseInv => AttemptsBounded
  BY DEF LeaseInv
<1> QED BY <1>1, LeaseInvariant, PTL

(* Fenced writes land in the order of the leases (WritesInOrder): a late   *)
(* writer never overwrites what a later holder of the item wrote.          *)
THEOREM WritesAreInOrder == Spec => WritesInOrder
<1>1. TypeOK /\ LeaseInv /\ [Next]_vars
        => [\A i \in Item : lastWrite'[i] >= lastWrite[i]]_vars
  <2> SUFFICES ASSUME TypeOK, LeaseInv, [Next]_vars, NEW i \in Item
               PROVE  lastWrite'[i] >= lastWrite[i]
    OBVIOUS
  <2>1. lastWrite[i] \in Nat /\ item[i].epoch \in Nat
    BY DEF TypeOK, HistoryOK, RowsOK, Row
  <2>2. /\ lastWrite[i] <= item[i].epoch
        /\ lastWrite'[i] \in {lastWrite[i], item[i].epoch}
    BY WriteStep DEF LeaseInv, WritesBehind
  <2> QED BY <2>1, <2>2
<1> QED BY <1>1, TypeCorrect, LeaseInvariant, PTL DEF Spec, WritesInOrder
-----------------------------------------------------------------------------
(* Pause, resume, abort, retry and the system hold.                        *)

(* The lease a finalization goes by.                                       *)
LEMMA FinalizedItem ==
  ASSUME TypeOK, NEW w \in Worker, Finalizing(w)
  PROVE  lease[w].item \in Item /\ TaskOf[lease[w].item] \in Task
BY QueueAssumption DEF TypeOK, ProcessOK, Finalizing, ActiveLease, Lease

(* What the operators on rows do to an item's status.                      *)
LEMMA ReleasedStatus ==
  ASSUME NEW r, RowsOK(r), NEW i \in Item, NEW status
  PROVE  /\ [r EXCEPT ![i] = Released(@, status)][i].status = status
         /\ \A j \in Item \ {i} :
              [r EXCEPT ![i] = Released(@, status)][j] = r[j]
BY DEF RowsOK, Row, Released

LEMMA TerminatedStatus ==
  ASSUME NEW r, RowsOK(r), NEW t \in Task, NEW j \in Item
  PROVE  /\ r[j].status # "pending" \/ TaskOf[j] # t =>
              terminatePendingTaskItems(t, r)[j] = r[j]
         /\ r[j].status = "pending" /\ TaskOf[j] = t =>
              terminatePendingTaskItems(t, r)[j].status = "skipped"
BY DEF RowsOK, Row, terminatePendingTaskItems, With, ItemsOf

LEMMA RetriedStatus ==
  ASSUME NEW r, RowsOK(r), NEW t \in Task, NEW j \in Item
  PROVE  /\ r[j].status # "failed" \/ TaskOf[j] # t => retryItems(t, r)[j] = r[j]
         /\ r[j].status = "failed" /\ TaskOf[j] = t =>
              retryItems(t, r)[j].status = "pending"
BY DEF RowsOK, Row, retryItems, Released, With, ItemsOf
-----------------------------------------------------------------------------
(* The four kinds of steps a row sees: a claim, the end of a lease by its  *)
(* own worker, the recovery of an expired one, or none that ends a lease.  *)
LEMMA LeaseStep ==
  ASSUME TypeOK, [Next]_vars, NEW i \in Item, item[i].live,
         item'[i].status # "processing"
  PROVE  \E w \in Worker : Finalizing(w) /\ lease[w].item = i /\ Owns(lease[w])
<1> USE QueueAssumption
<1>0. RowsOK(item) /\ item[i].status = "processing"
  BY DEF TypeOK, RowsOK, LeaseShape
<1>1. item'[i] # item[i]
  BY <1>0
<1>2. ASSUME NEW w \in Worker, NEW j \in Item,
             Claim(w, j) \/ ClaimUnanswered(w, j)
      PROVE  FALSE
  BY <1>0, <1>2 DEF Claim, ClaimUnanswered, ClaimRow, assignLease, RowsOK, Row
<1>3. ASSUME NEW w \in Worker, NEW j \in Item, Recover(w, j) PROVE FALSE
  BY <1>0, <1>1, <1>3, ReleasedStatus DEF Recover
<1>4. ASSUME NEW w \in Worker, FinalizeTerminal(w) \/ FinalizeRetry(w)
      PROVE  lease[w].item = i /\ Finalizing(w) /\ Owns(lease[w])
  <2> DEFINE k == lease[w].item
             t == TaskOf[k]
  <2>1. Finalizing(w) /\ Owns(lease[w]) /\ k \in Item /\ t \in Task
    BY <1>4, FinalizedItem DEF FinalizeTerminal, FinalizeRetry
  <2>2. CASE FinalizeRetry(w)
    <3>1. item' = [item EXCEPT ![k] = Released(@, "pending")]
      BY <2>2 DEF FinalizeRetry
    <3> HIDE DEF k
    <3>2. \A j \in Item \ {k} : item'[j] = item[j]
      BY <1>0, <2>1, <3>1, ReleasedStatus
    <3> QED BY <1>1, <2>1, <3>2 DEF k
  <2>3. CASE FinalizeTerminal(w)
    <3>1. PICK left : /\ left \in {item, terminatePendingTaskItems(t, item)}
                      /\ item' = [left EXCEPT ![k] =
                                    Released(@, FinalStatus(outcome[w]))]
      BY <2>3 DEF FinalizeTerminal
    <3>2. RowsOK(left) /\ left[i] = item[i]
      BY <1>0, <2>1, <3>1, TerminateOK, TerminatedStatus
    <3> HIDE DEF k
    <3>3. \A j \in Item \ {k} : item'[j] = left[j]
      BY <2>1, <3>1, <3>2, ReleasedStatus
    <3> QED BY <1>1, <2>1, <3>2, <3>3 DEF k
  <2> QED BY <1>4, <2>1, <2>2, <2>3
<1>5. ASSUME NEW r \in Request, AdminStep(r) PROVE FALSE
  <2>1. TargetOf[r] \in Task
    OBVIOUS
  <2> QED BY <1>0, <1>1, <1>5, <2>1, TerminatedStatus, RetriedStatus
          DEF AdminStep, pauseTask, resumeTask, abortTask, retryFailedTask
<1>6. ASSUME NEW j \in Item, Expire(j) PROVE FALSE
  BY <1>0, <1>6 DEF Expire, RowsOK, Row
<1>7. ASSUME NEW w \in Worker, Heartbeat(w) PROVE FALSE
  BY <1>0, <1>7 DEF Heartbeat, RowsOK, Row
<1>8. item' # item
  BY <1>1
<1> QED
  BY <1>2, <1>3, <1>4, <1>5, <1>6, <1>7, <1>8
     DEF Next, WorkerStep, PhaseWrite, ZombieEnds, HandlerReturns, Abandon,
         FinalizeRefused, FinalizeThrows, FinalizeThrowsAgain, Crash, Restart,
         rows, vars

(* Recovery, abort, retry and hold never take an item from under a live    *)
(* lease: only the worker that holds it ends it.                           *)
THEOREM LiveLeasesAreKept == Spec => LiveLeaseKept
<1>1. TypeOK /\ [Next]_vars =>
        [\A i \in Item :
           item[i].live /\ item'[i].status # "processing" =>
             \E w \in Worker : /\ Finalizing(w)
                               /\ lease[w].item = i
                               /\ Owns(lease[w])]_vars
  BY LeaseStep
<1> QED BY <1>1, TypeCorrect, PTL DEF Spec, LiveLeaseKept
-----------------------------------------------------------------------------
(* The parent of a step: recomputed from the rows under a status that is   *)
(* its own, or "disabled" where it may run; or set by a request.           *)
LEMMA ParentStep ==
  ASSUME TypeOK, [Next]_vars
  PROVE  \/ task' = task
         \/ \E t \in Task : \E s : /\ recomputeParentTask(t, s, item')
                              /\ \/ s = task[t].status
                                 \/ s = "disabled" /\ task[t].status \in Runnable
         \/ \E r \in Request : AdminStep(r)
<1> USE QueueAssumption
<1>1. ASSUME NEW w \in Worker, NEW i \in Item,
             \/ Claim(w, i) \/ ClaimUnanswered(w, i) \/ Recover(w, i)
      PROVE  recomputeParentTask(TaskOf[i], task[TaskOf[i]].status, item')
             /\ TaskOf[i] \in Task
  BY <1>1 DEF Claim, ClaimUnanswered, ClaimRow, Recover
<1>2. ASSUME NEW w \in Worker, FinalizeTerminal(w) \/ FinalizeRetry(w)
      PROVE  \E t \in Task : \E s :
               /\ recomputeParentTask(t, s, item')
               /\ \/ s = task[t].status
                  \/ s = "disabled" /\ task[t].status \in Runnable
  <2> DEFINE t == TaskOf[lease[w].item]
  <2>1. t \in Task
    BY <1>2, FinalizedItem DEF FinalizeTerminal, FinalizeRetry
  <2>2. \E s : /\ recomputeParentTask(t, s, item')
               /\ \/ s = task[t].status
                  \/ s = "disabled" /\ task[t].status \in Runnable
    BY <1>2 DEF FinalizeTerminal, FinalizeRetry
  <2> QED BY <2>1, <2>2
<1> QED
  BY <1>1, <1>2
     DEF Next, WorkerStep, Expire, Heartbeat, PhaseWrite, ZombieEnds,
         HandlerReturns, Abandon, FinalizeRefused, FinalizeThrows,
         FinalizeThrowsAgain, Crash, Restart, rows, vars

LEMMA ControlStep ==
  ASSUME TypeOK, [Next]_vars, NEW t \in Task
  PROVE  /\ task[t].status \in {"cancelled", "disabled"} =>
              task'[t].status = task[t].status
         /\ task[t].status = "paused" /\ task'[t].status # "paused" =>
              audited' # audited
<1>1. task \in [Task -> ParentRow]
  BY DEF TypeOK
<1>2. ASSUME NEW u \in Task, NEW s, recomputeParentTask(u, s, item'),
             \/ s = task[u].status
             \/ s = "disabled" /\ task[u].status \in Runnable,
             task[t].status \in Controlled
      PROVE  task'[t].status = task[t].status
  <2>1. task' = [task EXCEPT ![u] = Counted(u, DerivedStatus(u, s, item'), item')]
    BY <1>2 DEF recomputeParentTask
  <2>2. CASE u = t
    <3>1. s = task[t].status
      BY <1>2, <2>2 DEF Controlled, Runnable
    <3>2. DerivedStatus(u, s, item') = task[t].status
      BY <1>2, <3>1 DEF DerivedStatus
    <3> QED BY <1>1, <2>1, <2>2, <3>2 DEF Counted
  <2>3. CASE u # t
    BY <1>1, <2>1, <2>3
  <2> QED BY <2>2, <2>3
<1>3. ASSUME NEW r \in Request, AdminStep(r)
      PROVE  /\ audited' # audited
             /\ task[t].status \in {"cancelled", "disabled"} => task'[t] = task[t]
  <2>1. r \notin audited /\ audited' = audited \cup {r}
    BY <1>3 DEF AdminStep, pauseTask, resumeTask, abortTask, retryFailedTask,
       Admitted
  <2>2. \/ task[TargetOf[r]].status \in Runnable \cup {"paused"} \cup Retryable
    BY <1>3 DEF AdminStep, pauseTask, resumeTask, abortTask, retryFailedTask
  <2>3. \E row : task' = [task EXCEPT ![TargetOf[r]] = row]
    BY <1>3 DEF AdminStep, pauseTask, resumeTask, abortTask, retryFailedTask
  <2> QED BY <1>1, <2>1, <2>2, <2>3, QueueAssumption DEF Runnable, Retryable
<1> QED BY <1>2, <1>3, ParentStep DEF Controlled

(* A cancelled or held task is never resurrected by an item that finishes  *)
(* late, and a paused one moves only by a newly audited request.           *)
THEOREM ControlHolds == Spec => ControlSticks
<1>1. TypeOK /\ [Next]_vars =>
        [\A t \in Task :
           /\ task[t].status \in {"cancelled", "disabled"} =>
                task'[t].status = task[t].status
           /\ task[t].status = "paused" /\ task'[t].status # "paused" =>
                audited' # audited]_vars
  BY ControlStep
<1> QED BY <1>1, TypeCorrect, PTL DEF Spec, ControlSticks
-----------------------------------------------------------------------------
(* The parent row against its items.  A recomputed parent agrees by what   *)
(* recomputeParentTask counts; so does one whose row and whose items'      *)
(* statuses a step leaves alone.  What is left are the requests, which     *)
(* write a parent without counting or with a status of their own.          *)
Agrees(t) == StatusAgrees(t) /\ CountersAgree(t)

LEMMA CountedAgrees ==
  ASSUME NEW t \in Task, StatusAgrees(t)',
         task'[t].success = Cardinality(With(t, "success", item')),
         task'[t].failed = Cardinality(With(t, "failed", item')),
         task'[t].skipped = Cardinality(With(t, "skipped", item'))
  PROVE  Agrees(t)'
BY DEF CountersAgree, Agrees

LEMMA RecomputedAgrees ==
  ASSUME task \in [Task -> ParentRow], NEW t \in Task, NEW s,
         recomputeParentTask(t, s, item')
  PROVE  Agrees(t)'
<1> DEFINE d == DerivedStatus(t, s, item')
<1>1. task' = [task EXCEPT ![t] = Counted(t, d, item')]
  BY DEF recomputeParentTask
<1>2. /\ task'[t].status = d /\ task'[t].blocked = task[t].blocked
      /\ task'[t].success = Cardinality(With(t, "success", item'))
      /\ task'[t].failed = Cardinality(With(t, "failed", item'))
      /\ task'[t].skipped = Cardinality(With(t, "skipped", item'))
  BY <1>1 DEF Counted
<1>3. StatusAgrees(t)'
  <2>1. AllFailed(t, item)' <=> AllFailed(t, item')
    BY DEF AllFailed, With, ItemsOf
  <2> QED BY <1>2, <2>1 DEF DerivedStatus, StatusAgrees, Controlled, AllFailed,
                            With, ItemsOf
<1> QED BY <1>2, <1>3, CountedAgrees

LEMMA UntouchedAgrees ==
  ASSUME NEW t \in Task, Agrees(t), task'[t] = task[t],
         \A i \in ItemsOf(t) : item'[i].status = item[i].status
  PROVE  Agrees(t)'
<1>1. \A s : With(t, s, item') = With(t, s, item)
  BY DEF With
<1>2. (\E i \in ItemsOf(t) : item'[i].status \in Open)
        <=> (\E i \in ItemsOf(t) : item[i].status \in Open)
  OBVIOUS
<1>3. StatusAgrees(t)'
  BY <1>1, <1>2 DEF Agrees, StatusAgrees, AllFailed, ItemsOf
<1>4. CountersAgree(t)'
  BY <1>1 DEF Agrees, CountersAgree
<1> QED BY <1>3, <1>4 DEF Agrees

(* Of a task a step does not write, the items keep their statuses.         *)
LEMMA ItemsStep ==
  ASSUME TypeOK, [Next]_vars
  PROVE  \/ \A i \in Item : item'[i].status = item[i].status
         \/ \E t \in Task : \E s :
              /\ recomputeParentTask(t, s, item')
              /\ \A i \in Item \ ItemsOf(t) : item'[i].status = item[i].status
         \/ \E r \in Request : abortTask(r) \/ retryFailedTask(r)
<1> USE QueueAssumption
<1>0. RowsOK(item)
  BY DEF TypeOK
<1>1. ASSUME NEW w \in Worker, NEW i \in Item,
             Claim(w, i) \/ ClaimUnanswered(w, i) \/ Recover(w, i)
      PROVE  \E t \in Task : \E s :
              /\ recomputeParentTask(t, s, item')
              /\ \A j \in Item \ ItemsOf(t) : item'[j].status = item[j].status
  <2>1. recomputeParentTask(TaskOf[i], task[TaskOf[i]].status, item')
    BY <1>1 DEF Claim, ClaimUnanswered, ClaimRow, Recover
  <2>2. \E row : item' = [item EXCEPT ![i] = row]
    BY <1>1 DEF Claim, ClaimUnanswered, ClaimRow, Recover
  <2>3. \A j \in Item \ ItemsOf(TaskOf[i]) : item'[j] = item[j]
    BY <1>0, <2>2 DEF RowsOK, ItemsOf
  <2>4. TaskOf[i] \in Task
    OBVIOUS
  <2> QED BY <2>1, <2>3, <2>4
<1>2. ASSUME NEW w \in Worker, FinalizeTerminal(w) \/ FinalizeRetry(w)
      PROVE  \E t \in Task : \E s :
              /\ recomputeParentTask(t, s, item')
              /\ \A j \in Item \ ItemsOf(t) : item'[j].status = item[j].status
  <2> DEFINE k == lease[w].item
             t == TaskOf[k]
  <2>1. k \in Item /\ t \in Task
    BY <1>2, FinalizedItem DEF FinalizeTerminal, FinalizeRetry
  <2>2. PICK left \in {item, terminatePendingTaskItems(t, item)} :
          \E row : item' = [left EXCEPT ![k] = row]
    <3>1. CASE FinalizeRetry(w)
      <4>1. item' = [item EXCEPT ![k] = Released(item[k], "pending")]
        BY <3>1 DEF FinalizeRetry
      <4> QED BY <4>1
    <3>2. CASE FinalizeTerminal(w)
      <4> DEFINE held == outcome[w] = "hold" /\ task[t].status \in Runnable
                 now == IF held THEN terminatePendingTaskItems(t, item) ELSE item
      <4>1. item' = [now EXCEPT ![k] = Released(now[k], FinalStatus(outcome[w]))]
        BY <3>2 DEF FinalizeTerminal
      <4>2. now \in {item, terminatePendingTaskItems(t, item)}
        OBVIOUS
      <4> HIDE DEF now
      <4> QED BY <4>1, <4>2
    <3> QED BY <1>2, <3>1, <3>2
  <2>3. \E s : recomputeParentTask(t, s, item')
    <3>1. CASE FinalizeRetry(w)
      BY <3>1 DEF FinalizeRetry
    <3>2. CASE FinalizeTerminal(w)
      BY <3>2 DEF FinalizeTerminal
    <3> QED BY <1>2, <3>1, <3>2
  <2>4. /\ left \in [Item -> Row]
        /\ \A j \in Item : TaskOf[j] # t => left[j] = item[j]
    BY <1>0, <2>1, <2>2, TerminateOK, TerminatedStatus DEF RowsOK
  <2>5. k \in ItemsOf(t)
    BY <2>1 DEF ItemsOf
  <2> HIDE DEF k, t
  <2>6. \A j \in Item \ ItemsOf(t) : item'[j] = item[j]
    BY <2>2, <2>4, <2>5 DEF ItemsOf
  <2> QED BY <2>1, <2>3, <2>6
<1>3. ASSUME NEW i \in Item, Expire(i)
      PROVE  \A j \in Item : item'[j].status = item[j].status
  BY <1>0, <1>3 DEF Expire, RowsOK, Row
<1>4. ASSUME NEW w \in Worker, Heartbeat(w)
      PROVE  \A j \in Item : item'[j].status = item[j].status
  BY <1>0, <1>4 DEF Heartbeat, RowsOK, Row
<1> QED
  BY <1>1, <1>2, <1>3, <1>4
     DEF Next, WorkerStep, PhaseWrite, ZombieEnds, HandlerReturns, Abandon,
         FinalizeRefused, FinalizeThrows, FinalizeThrowsAgain, Crash, Restart,
         AdminStep, pauseTask, resumeTask, rows, vars

(* An abort ends pending items as skipped and does not count them.         *)
LEMMA AbortAgrees ==
  ASSUME TypeOK, NEW r \in Request, abortTask(r), NEW t \in Task, Agrees(t)
  PROVE  Agrees(t)'
<1> USE QueueAssumption
<1>0. RowsOK(item) /\ task \in [Task -> ParentRow]
  BY DEF TypeOK
<1> DEFINE u == TargetOf[r]
<1>1. /\ u \in Task
      /\ item' = terminatePendingTaskItems(u, item)
      /\ task' = [task EXCEPT ![u].status = "cancelled"]
      /\ task[u].status \in Runnable \cup {"paused"}
  BY DEF abortTask
<1> HIDE DEF u
<1>2. CASE t # u
  <2>1. \A i \in ItemsOf(t) : item'[i] = item[i]
    BY <1>0, <1>1, <1>2, TerminatedStatus DEF ItemsOf
  <2>2. task'[t] = task[t]
    BY <1>0, <1>1, <1>2
  <2> QED BY <2>1, <2>2, UntouchedAgrees
<1>3. CASE t = u
  <2>1. task'[t] = [task[t] EXCEPT !.status = "cancelled"]
    BY <1>0, <1>1, <1>3
  <2>2. /\ task'[t].status = "cancelled" /\ task'[t].success = task[t].success
        /\ task'[t].failed = task[t].failed /\ task'[t].skipped = task[t].skipped
    BY <1>0, <2>1 DEF ParentRow
  <2>3. \A i \in Item : \/ item'[i].status = item[i].status
                        \/ /\ item[i].status = "pending"
                           /\ item'[i].status = "skipped"
    BY <1>0, <1>1, TerminatedStatus
  <2>4. /\ With(t, "success", item') = With(t, "success", item)
        /\ With(t, "failed", item') = With(t, "failed", item)
        /\ With(t, "skipped", item) \subseteq With(t, "skipped", item')
    BY <2>3 DEF With, ItemsOf
  <2>5. task[t].skipped = Cardinality(With(t, "skipped", item))
    BY <1>1, <1>3 DEF Agrees, CountersAgree, Runnable
  <2>6. \/ With(t, "skipped", item') = With(t, "skipped", item)
        \/ Cardinality(With(t, "skipped", item))
              < Cardinality(With(t, "skipped", item'))
    <3>1. IsFiniteSet(With(t, "skipped", item'))
      BY FS_Subset DEF With, ItemsOf
    <3>2. IsFiniteSet(With(t, "skipped", item))
      BY <2>4, <3>1, FS_Subset
    <3>3. /\ Cardinality(With(t, "skipped", item)) \in Nat
          /\ Cardinality(With(t, "skipped", item')) \in Nat
      BY <3>1, <3>2, FS_CardinalityType
    <3> QED BY <2>4, <3>1, <3>3, FS_Subset
  <2>7. CountersAgree(t)'
    BY <2>2, <2>4, <2>5, <2>6 DEF Agrees, CountersAgree
  <2> QED BY <2>2, <2>7 DEF Agrees, StatusAgrees
<1> QED BY <1>2, <1>3

LEMMA ParentAgreesStep == TypeOK /\ ParentAgrees /\ [Next]_vars => ParentAgrees'
<1> SUFFICES ASSUME TypeOK, ParentAgrees, [Next]_vars, NEW t \in Task
             PROVE  Agrees(t)'
  BY DEF ParentAgrees, Agrees
<1> USE QueueAssumption
<1>0. /\ RowsOK(item) /\ task \in [Task -> ParentRow]
      /\ Agrees(t)
  BY DEF TypeOK, ParentAgrees, Agrees
<1>1. ASSUME NEW u \in Task, NEW s, recomputeParentTask(u, s, item'),
             \A i \in Item \ ItemsOf(u) : item'[i].status = item[i].status
      PROVE  Agrees(t)'
  <2>1. CASE t = u
    BY <1>0, <1>1, <2>1, RecomputedAgrees
  <2>2. CASE t # u
    <3>1. task'[t] = task[t]
      BY <1>0, <1>1, <2>2 DEF recomputeParentTask
    <3>2. \A i \in ItemsOf(t) : item'[i].status = item[i].status
      BY <1>1, <2>2 DEF ItemsOf
    <3> QED BY <1>0, <3>1, <3>2, UntouchedAgrees
  <2> QED BY <2>1, <2>2
<1>2. ASSUME NEW r \in Request, pauseTask(r) \/ resumeTask(r)
      PROVE  Agrees(t)'
  <2> DEFINE u == TargetOf[r]
  <2>1. PICK s \in {"paused", "pending"} : task' = [task EXCEPT ![u].status = s]
    BY <1>2 DEF pauseTask, resumeTask
  <2>2. u \in Task /\ task[u].status \in Runnable \cup {"paused"}
    BY <1>2 DEF pauseTask, resumeTask
  <2>3. item' = item
    BY <1>2 DEF pauseTask, resumeTask
  <2> HIDE DEF u
  <2>4. CASE t # u
    BY <1>0, <2>1, <2>3, <2>4, UntouchedAgrees
  <2>5. CASE t = u
    <3>1. /\ task'[t].status = s /\ task'[t].success = task[t].success
          /\ task'[t].failed = task[t].failed /\ task'[t].skipped = task[t].skipped
      BY <1>0, <2>1, <2>5 DEF ParentRow
    <3>2. CountersAgree(t)'
      BY <1>0, <2>2, <2>3, <2>5, <3>1 DEF Agrees, CountersAgree, Runnable
    <3> QED BY <3>1, <3>2 DEF Agrees, StatusAgrees
  <2> QED BY <2>4, <2>5
<1>3. ASSUME NEW r \in Request, retryFailedTask(r) PROVE Agrees(t)'
  <2> DEFINE u == TargetOf[r]
  <2>1. /\ u \in Task /\ item' = retryItems(u, item)
        /\ task' = [task EXCEPT ![u] = [Counted(u, "pending", item')
                                           EXCEPT !.blocked = FALSE]]
    BY <1>3 DEF retryFailedTask
  <2> HIDE DEF u
  <2>2. CASE t # u
    <3>1. \A i \in ItemsOf(t) : item'[i] = item[i]
      BY <1>0, <2>1, <2>2, RetriedStatus DEF ItemsOf
    <3> QED BY <1>0, <2>1, <2>2, <3>1, UntouchedAgrees
  <2>3. CASE t = u
    <3>1. /\ task'[t].status = "pending"
          /\ task'[t].success = Cardinality(With(t, "success", item'))
          /\ task'[t].failed = Cardinality(With(t, "failed", item'))
          /\ task'[t].skipped = Cardinality(With(t, "skipped", item'))
      BY <1>0, <2>1, <2>3 DEF Counted
    <3>2. StatusAgrees(t)'
      BY <3>1 DEF StatusAgrees
    <3> QED BY <3>1, <3>2, CountedAgrees
  <2> QED BY <2>2, <2>3
<1>4. CASE \E u \in Task : \E s :
             /\ recomputeParentTask(u, s, item')
             /\ \A i \in Item \ ItemsOf(u) : item'[i].status = item[i].status
  BY <1>1, <1>4
<1>5. CASE \E r \in Request : AdminStep(r)
  BY <1>0, <1>2, <1>3, <1>5, AbortAgrees DEF AdminStep
<1>6. CASE /\ task' = task
           /\ \A i \in Item : item'[i].status = item[i].status
  BY <1>0, <1>6, UntouchedAgrees DEF ItemsOf
<1>7. CASE /\ \E u \in Task : \E s : recomputeParentTask(u, s, item')
           /\ \A i \in Item : item'[i].status = item[i].status
  BY <1>4, <1>7
<1> QED
  BY <1>4, <1>5, <1>6, <1>7, ItemsStep, ParentStep DEF AdminStep

(* The parent row tells the truth about its items: its counters always,    *)
(* its status whenever no administrator or system hold owns it.            *)
THEOREM ParentsAgree == Spec => []ParentAgrees
<1>1. Init => ParentAgrees
  <2> SUFFICES ASSUME Init, NEW t \in Task PROVE Agrees(t)
    BY DEF ParentAgrees, Agrees
  <2>1. /\ With(t, "success", item) = {} /\ With(t, "failed", item) = {}
        /\ With(t, "skipped", item) = {}
    BY DEF Init, With, ItemsOf
  <2>2. Cardinality({}) = 0
    BY FS_EmptySet
  <2> QED BY <2>1, <2>2 DEF Init, Agrees, StatusAgrees, CountersAgree
<1> QED BY <1>1, ParentAgreesStep, TypeCorrect, PTL DEF Spec
-----------------------------------------------------------------------------
(* TaskQueue implements TaskLease: each step of a worker, of recovery or   *)
(* of an administrator is a step of TaskLease, or changes nothing that     *)
(* TaskLease speaks of.                                                    *)

(* The refinement mapping at item rows r.                                  *)
Phase(r) == [i \in Item |-> PhaseOf(r[i].status)]
Term(r) == [i \in Item |-> r[i].epoch]

LEMMA Phases ==
  /\ PhaseOf("pending") = "open" /\ PhaseOf("processing") = "held"
  /\ PhaseOf("failed") = "failed"
  /\ PhaseOf("success") = "settled" /\ PhaseOf("skipped") = "settled"
BY DEF PhaseOf

(* A step that rewrites row i alone changes i's phase alone.               *)
LEMMA PhaseAt ==
  ASSUME NEW q, NEW r, NEW i \in Item,
         \A j \in Item \ {i} : q[j].status = r[j].status
  PROVE  Phase(q) = [Phase(r) EXCEPT ![i] = PhaseOf(q[i].status)]
BY DEF Phase

LEMMA PhaseKept ==
  ASSUME NEW q, NEW r, \A i \in Item : q[i].status = r[i].status
  PROVE  Phase(q) = Phase(r)
BY DEF Phase

LEMMA TermKept ==
  ASSUME NEW q, NEW r, \A i \in Item : q[i].epoch = r[i].epoch
  PROVE  Term(q) = Term(r)
BY DEF Term

LEMMA InitRefines == Init => Abstract!Init
BY DEF Init, Abstract!Init, PhaseOf

(* claimPendingItem acquires, whether or not its worker hears of it.       *)
LEMMA ClaimRefines ==
  ASSUME TypeOK, NEW w \in Worker, NEW i \in Item,
         Claim(w, i) \/ ClaimUnanswered(w, i)
  PROVE  Abstract!Acquire(i)
<1>1. /\ item[i].status = "pending" /\ item'[i].status = "processing"
      /\ item'[i].epoch = item[i].epoch + 1
      /\ \A j \in Item \ {i} : item'[j] = item[j]
      /\ UNCHANGED <<lastWrite, effects>>
  BY DEF Claim, ClaimUnanswered, ClaimRow, assignLease, history, TypeOK,
     RowsOK, Row
<1>2. Phase(item') = [Phase(item) EXCEPT ![i] = "held"]
  BY <1>1, PhaseAt DEF PhaseOf
<1>3. Term(item') = [Term(item) EXCEPT ![i] = @ + 1]
  BY <1>1 DEF Term
<1> QED BY <1>1, <1>2, <1>3 DEF Abstract!Acquire, Phase, Term, PhaseOf

(* Recovery releases an expired item, or ends one without attempts left.   *)
LEMMA RecoverRefines ==
  ASSUME TypeOK, NEW w \in Worker, NEW i \in Item, Recover(w, i)
  PROVE  Abstract!Release(i) \/ Abstract!Die(i)
<1>1. /\ item[i].status = "processing"
      /\ item'[i].status \in {"pending", "failed"}
      /\ item'[i].epoch = item[i].epoch
      /\ \A j \in Item \ {i} : item'[j] = item[j]
      /\ UNCHANGED <<lastWrite, effects>>
  BY DEF Recover, Released, history, TypeOK, RowsOK, Row
<1>2. Phase(item') = [Phase(item) EXCEPT ![i] = PhaseOf(item'[i].status)]
  BY <1>1, PhaseAt
<1>3. Term(item') = Term(item)
  BY <1>1, TermKept
<1>4. CASE item'[i].status = "pending"
  BY <1>1, <1>2, <1>3, <1>4 DEF Abstract!Release, Phase, Term, PhaseOf
<1>5. CASE item'[i].status = "failed"
  BY <1>1, <1>2, <1>3, <1>5 DEF Abstract!Die, Phase, Term, PhaseOf
<1> QED BY <1>1, <1>4, <1>5

(* A fenced write is a write of the current term: the fence compares the   *)
(* lease's epoch with the row's.                                           *)
LEMMA WriteRefines ==
  ASSUME TypeOK, NEW l \in HandlerLeases, PhaseWrite(l)
  PROVE  Abstract!Write(l.item)
<1>1. l.item \in Item
  BY DEF HandlerLeases, TypeOK, ProcessOK, ActiveLease, Lease
<1>2. /\ item[l.item].status = "processing"
      /\ lastWrite' = [lastWrite EXCEPT ![l.item] = item[l.item].epoch]
      /\ UNCHANGED <<item, effects>>
  BY DEF PhaseWrite, Owns, rows
<1> QED BY <1>1, <1>2 DEF Abstract!Write, PhaseOf

(* What a worker that finalizes under its fence has in hand.               *)
LEMMA Held ==
  ASSUME TypeOK, NEW w \in Worker, Finalizing(w), Owns(lease[w])
  PROVE  /\ lease[w].item \in Item
         /\ item[lease[w].item].status = "processing"
         /\ lease[w].epoch = item[lease[w].item].epoch
         /\ outcome[w] \in Outcome
BY DEF TypeOK, ProcessOK, Finalizing, ActiveLease, Lease, Owns

LEMMA RequeueRefines ==
  ASSUME TypeOK, NEW w \in Worker, NEW i \in Item, i = lease[w].item,
         FinalizeRetry(w)
  PROVE  Abstract!Release(i)
<1>1. /\ item[i].status = "processing"
      /\ item' = [item EXCEPT ![i] = Released(@, "pending")]
      /\ lastWrite' = [lastWrite EXCEPT ![i] = item[i].epoch]
      /\ UNCHANGED effects
  BY Held DEF FinalizeRetry
<1>2. /\ item'[i].status = "pending" /\ item'[i].epoch = item[i].epoch
      /\ \A j \in Item \ {i} : item'[j] = item[j]
  BY <1>1 DEF Released, TypeOK, RowsOK, Row
<1>3. Phase(item') = [Phase(item) EXCEPT ![i] = "open"]
  <2>1. PhaseOf(item'[i].status) = "open"
    BY <1>2, Phases
  <2>2. \A j \in Item : j # i =>
          PhaseOf(item'[j].status) = PhaseOf(item[j].status)
    BY <1>2
  <2> QED BY <2>1, <2>2 DEF Phase
<1>4. Term(item') = Term(item)
  BY <1>2, TermKept
<1> QED BY <1>1, <1>3, <1>4 DEF Abstract!Release, Phase, Term, PhaseOf

(* What a terminal finalization of item i with outcome o finds: the rows   *)
(* left are item's, less the pending items S that a hold takes down.       *)
Finds(i, o, S, left) ==
  /\ o \in Outcome \ {"retry"}
  /\ o # "hold" => S = {}
  /\ item[i].status = "processing"
  /\ S \subseteq Item
  /\ left \in [Item -> Row]
  /\ \A j \in S : item[j].status = "pending" /\ left[j].status = "skipped"
  /\ \A j \in Item : left[j].epoch = item[j].epoch
  /\ \A j \in Item \ S : left[j] = item[j]

(* ... and what it leaves.                                                 *)
Leaves(i, o, left) ==
  /\ item' = [left EXCEPT ![i] = Released(@, FinalStatus(o))]
  /\ effects' = [effects EXCEPT ![i] = IF o = "success" THEN @ + 1 ELSE @]
  /\ lastWrite' = [lastWrite EXCEPT ![i] = item[i].epoch]

(* It takes effect, skips, or fails the item together with S.              *)
LEMMA FinalizeRows ==
  ASSUME TypeOK, NEW i \in Item, NEW o, NEW S, NEW left,
         Finds(i, o, S, left), Leaves(i, o, left)
  PROVE  Abstract!Effect(i) \/ Abstract!Skip(i) \/ Abstract!Fail(i, S)
<1> USE DEF Finds, Leaves
<1>1. item'[i].status = FinalStatus(o) /\ item'[i].epoch = item[i].epoch
  BY DEF Released, Row
<1>2. \A j \in Item : j # i => item'[j] = left[j]
  OBVIOUS
<1>3. Term(item') = Term(item)
  <2>1. \A j \in Item : item'[j].epoch = item[j].epoch
    BY <1>1, <1>2
  <2> QED BY <2>1, TermKept
<1>4. i \notin S
  OBVIOUS
<1>5. CASE o \in {"success", "skipped"}
  <2>1. \A j \in Item \ {i} : item'[j].status = item[j].status
    BY <1>2, <1>5
  <2>2. PhaseOf(item'[i].status) = "settled"
    BY <1>1, <1>5, Phases DEF FinalStatus
  <2>3. Phase(item') = [Phase(item) EXCEPT ![i] = "settled"]
    <3>1. \A j \in Item : j # i =>
            PhaseOf(item'[j].status) = PhaseOf(item[j].status)
      BY <2>1
    <3> QED BY <2>2, <3>1 DEF Phase
  <2>4. o = "success" => Abstract!Effect(i)
    BY <1>3, <2>3 DEF Abstract!Effect, Phase, Term, PhaseOf
  <2>5. o = "skipped" => Abstract!Skip(i)
    <3>1. o = "skipped" => effects' = effects
      BY DEF TypeOK, HistoryOK
    <3> QED BY <1>3, <2>3, <3>1 DEF Abstract!Skip, Phase, Term, PhaseOf
  <2> QED BY <1>5, <2>4, <2>5
<1>6. CASE o \in {"failed", "hold"}
  <2>1. PhaseOf(item'[i].status) = "failed"
    BY <1>1, <1>6, Phases DEF FinalStatus
  <2>2. \A j \in S : item'[j].status = "skipped"
    BY <1>2, <1>4
  <2>3. \A j \in S : PhaseOf(item'[j].status) = "settled"
    BY <2>2, Phases
  <2>4. \A j \in Item : j # i /\ j \notin S => item'[j] = item[j]
    BY <1>2
  <2>5. Phase(item') = [j \in Item |-> IF j = i THEN "failed"
                                      ELSE IF j \in S THEN "settled"
                                      ELSE Phase(item)[j]]
    BY <2>1, <2>3, <2>4 DEF Phase
  <2>6. effects' = effects
    BY <1>6 DEF TypeOK, HistoryOK
  <2> QED BY <1>3, <2>5, <2>6 DEF Abstract!Fail, Phase, Term, PhaseOf
<1> QED BY <1>5, <1>6 DEF Outcome

LEMMA FinalizeRefines ==
  ASSUME TypeOK, NEW w \in Worker, NEW i \in Item, i = lease[w].item,
         FinalizeTerminal(w)
  PROVE  \/ Abstract!Effect(i) \/ Abstract!Skip(i)
         \/ \E S \in SUBSET Item : Abstract!Fail(i, S)
<1> DEFINE t == TaskOf[i]
           held == outcome[w] = "hold" /\ task[t].status \in Runnable
<1>1. PICK o : o = outcome[w]
  OBVIOUS
<1>2. PICK S : S = IF held THEN With(t, "pending", item) ELSE {}
  OBVIOUS
<1>3. PICK left : left = IF held THEN terminatePendingTaskItems(t, item)
                         ELSE item
  OBVIOUS
<1>4. item[i].status = "processing" /\ o \in Outcome \ {"retry"}
  BY <1>1, Held DEF FinalizeTerminal
<1>5. Leaves(i, o, left)
  BY <1>1, <1>3, Held DEF FinalizeTerminal, Leaves
<1>6. t \in Task
  BY QueueAssumption
<1>7. left \in [Item -> Row]
  BY <1>3, <1>6, TerminateOK DEF TypeOK, RowsOK
<1>8. \A j \in Item : left[j].epoch = item[j].epoch
  BY <1>3, <1>6, TerminateKeeps DEF TypeOK
<1>9. S \subseteq Item /\ (o # "hold" => S = {})
  BY <1>1, <1>2 DEF With, ItemsOf
<1>10. \A j \in S : item[j].status = "pending" /\ left[j].status = "skipped"
  <2>1. CASE held
    BY <1>2, <1>3, <2>1
       DEF terminatePendingTaskItems, With, ItemsOf, TypeOK, RowsOK, Row
  <2> QED BY <1>2, <2>1
<1>11. \A j \in Item \ S : left[j] = item[j]
  <2>1. CASE held
    BY <1>2, <1>3, <2>1 DEF terminatePendingTaskItems
  <2> QED BY <1>3, <2>1
<1>12. Finds(i, o, S, left)
  BY <1>4, <1>7, <1>8, <1>9, <1>10, <1>11 DEF Finds
<1> QED BY <1>5, <1>9, <1>12, FinalizeRows

(* abortTask cancels what is pending; a retry reopens what failed; pausing *)
(* and resuming touch no item.                                             *)
LEMMA AdminRefines ==
  ASSUME TypeOK, NEW r \in Request, AdminStep(r)
  PROVE  \/ \E S \in SUBSET Item : Abstract!Cancel(S) \/ Abstract!Reopen(S)
         \/ UNCHANGED <<item, lastWrite, effects>>
<1> DEFINE t == TargetOf[r]
<1>1. t \in Task
  BY QueueAssumption
<1>2. CASE pauseTask(r) \/ resumeTask(r)
  BY <1>2 DEF pauseTask, resumeTask, history
<1>3. CASE abortTask(r)
  <2> DEFINE S == With(t, "pending", item)
  <2>1. /\ S \subseteq Item /\ \A j \in S : item[j].status = "pending"
        /\ item' = terminatePendingTaskItems(t, item)
        /\ UNCHANGED <<lastWrite, effects>>
    BY <1>3 DEF abortTask, history, With, ItemsOf
  <2>2. \A j \in Item : /\ j \in S => item'[j].status = "skipped"
                        /\ j \notin S => item'[j] = item[j]
    BY <2>1 DEF terminatePendingTaskItems, TypeOK, RowsOK, Row
  <2>3. Term(item') = Term(item)
    BY <1>1, <2>1, TerminateKeeps, TermKept DEF TypeOK
  <2> HIDE DEF S
  <2>4. Phase(item') = [j \in Item |-> IF j \in S THEN "settled"
                                      ELSE Phase(item)[j]]
    BY <2>2 DEF Phase, PhaseOf
  <2>5. Abstract!Cancel(S)
    BY <2>1, <2>3, <2>4 DEF Abstract!Cancel, Phase, Term, PhaseOf
  <2> QED BY <2>1, <2>5
<1>4. CASE retryFailedTask(r)
  <2> DEFINE S == With(t, "failed", item)
  <2>1. /\ S \subseteq Item /\ \A j \in S : item[j].status = "failed"
        /\ item' = retryItems(t, item)
        /\ UNCHANGED <<lastWrite, effects>>
    BY <1>4 DEF retryFailedTask, With, ItemsOf
  <2>2. \A j \in Item : /\ j \in S => item'[j].status = "pending"
                        /\ j \notin S => item'[j] = item[j]
    BY <2>1 DEF retryItems, Released, TypeOK, RowsOK, Row
  <2>3. Term(item') = Term(item)
    BY <1>1, <2>1, RetriedKeeps, TermKept DEF TypeOK
  <2> HIDE DEF S
  <2>4. Phase(item') = [j \in Item |-> IF j \in S THEN "open"
                                      ELSE Phase(item)[j]]
    BY <2>2 DEF Phase, PhaseOf
  <2>5. Abstract!Reopen(S)
    BY <2>1, <2>3, <2>4 DEF Abstract!Reopen, Phase, Term, PhaseOf
  <2> QED BY <2>1, <2>5
<1> QED BY <1>2, <1>3, <1>4 DEF AdminStep

(* The steps TaskLease does not see.                                       *)
LEMMA StutterRefines ==
  ASSUME TypeOK, \A i \in Item : /\ item'[i].status = item[i].status
                                 /\ item'[i].epoch = item[i].epoch,
         UNCHANGED <<lastWrite, effects>>
  PROVE  UNCHANGED Abstract!vars
<1>1. Phase(item') = Phase(item) /\ Term(item') = Term(item)
  BY PhaseKept, TermKept
<1> QED BY <1>1 DEF Abstract!vars, Phase, Term

(* The clock and heartbeats move nothing but locked_until.                 *)
LEMMA LiveRefines ==
  ASSUME TypeOK, NEW i \in Item, NEW b \in BOOLEAN,
         item' = [item EXCEPT ![i].live = b],
         UNCHANGED <<lastWrite, effects>>
  PROVE  UNCHANGED Abstract!vars
<1>1. \A j \in Item : /\ item'[j].status = item[j].status
                       /\ item'[j].epoch = item[j].epoch
  BY DEF TypeOK, RowsOK, Row
<1> QED BY <1>1, StutterRefines

LEMMA TimeRefines ==
  ASSUME TypeOK, \/ \E i \in Item : Expire(i)
                 \/ \E w \in Worker : Heartbeat(w)
  PROVE  UNCHANGED Abstract!vars
<1>1. ASSUME NEW i \in Item, Expire(i)
      PROVE  UNCHANGED Abstract!vars
  BY <1>1, LiveRefines DEF Expire, history
<1>2. ASSUME NEW w \in Worker, Heartbeat(w)
      PROVE  UNCHANGED Abstract!vars
  <2>1. lease[w].item \in Item
    BY <1>2 DEF Heartbeat, TypeOK, ProcessOK, Lease
  <2>2. PICK i \in Item : i = lease[w].item
    BY <2>1
  <2> QED BY <1>2, <2>2, LiveRefines DEF Heartbeat, history
<1> QED BY <1>1, <1>2

LEMMA StepRefines == TypeOK /\ [Next]_vars => [Abstract!Next]_(Abstract!vars)
<1> SUFFICES ASSUME TypeOK, [Next]_vars
             PROVE  Abstract!Next \/ UNCHANGED Abstract!vars
  OBVIOUS
<1>1. ASSUME NEW w \in Worker, NEW i \in Item,
             Claim(w, i) \/ ClaimUnanswered(w, i) \/ Recover(w, i)
      PROVE  Abstract!Next
  BY <1>1, ClaimRefines, RecoverRefines DEF Abstract!Next
<1>2. ASSUME NEW w \in Worker, FinalizeTerminal(w)
      PROVE  Abstract!Next
  <2>1. PICK i \in Item : i = lease[w].item
    BY <1>2, Held DEF FinalizeTerminal
  <2> QED BY <1>2, <2>1, FinalizeRefines DEF Abstract!Next
<1>3. ASSUME NEW w \in Worker, FinalizeRetry(w)
      PROVE  Abstract!Next
  <2>1. PICK i \in Item : i = lease[w].item
    BY <1>3, Held DEF FinalizeRetry
  <2> QED BY <1>3, <2>1, RequeueRefines DEF Abstract!Next
<1>4. ASSUME NEW l \in HandlerLeases, PhaseWrite(l)
      PROVE  Abstract!Next
  <2>1. l.item \in Item
    BY DEF HandlerLeases, TypeOK, ProcessOK, ActiveLease, Lease
  <2> QED BY <1>4, <2>1, WriteRefines DEF Abstract!Next
<1>5. ASSUME UNCHANGED <<item, lastWrite, effects>>
      PROVE  UNCHANGED Abstract!vars
  BY <1>5, StutterRefines
<1>6. ASSUME NEW r \in Request, AdminStep(r)
      PROVE  Abstract!Next \/ UNCHANGED Abstract!vars
  BY <1>5, <1>6, AdminRefines DEF Abstract!Next
<1>7. ASSUME NEW w \in Worker,
             \/ \E o \in Outcome : HandlerReturns(w, o)
             \/ Abandon(w) \/ FinalizeRefused(w) \/ FinalizeThrowsAgain(w)
             \/ FinalizeThrows(w)
             \/ Crash(w) \/ Restart(w)
      PROVE  UNCHANGED Abstract!vars
  BY <1>5, <1>7 DEF HandlerReturns, Abandon, FinalizeRefused,
     FinalizeThrowsAgain, FinalizeThrows, Crash, Restart, rows, history
<1>8. ASSUME NEW l \in zombies, ZombieEnds(l)
      PROVE  UNCHANGED Abstract!vars
  BY <1>5, <1>8 DEF ZombieEnds, rows, history
<1>9. CASE UNCHANGED vars
  BY <1>5, <1>9 DEF vars
<1> QED
  BY <1>1, <1>2, <1>3, <1>4, <1>6, <1>7, <1>8, <1>9, TimeRefines
     DEF Next, WorkerStep

(* The queue keeps the promise of TaskLease (ImplementsTaskLease): terms   *)
(* are never reused, only the current holder's writes land, an item has    *)
(* one effect, and nothing but a retry of failed items undoes an end, for  *)
(* any number of workers, tasks and items (src/lib/tasks/store.ts).        *)
THEOREM QueueImplementsTaskLease == Spec => ImplementsTaskLease
<1> QED BY InitRefines, StepRefines, TypeCorrect, PTL
        DEF Spec, ImplementsTaskLease, Abstract!Spec
=============================================================================
