----------------------------- MODULE TaskRowLocks -----------------------------
(***************************************************************************)
(* The transactions of TaskQueue, statement by statement, over PostgreSQL  *)
(* row locks at READ COMMITTED: a statement sees what was committed when   *)
(* it began and its own transaction's writes; an UPDATE or SELECT ... FOR  *)
(* UPDATE waits for a row another transaction has locked and then looks at *)
(* the row again; SKIP LOCKED passes it over; locks are kept to the end.   *)
(*                                                                         *)
(* Workers lock item rows first and their parent last; abortTask and the   *)
(* system hold lock the parent first and then every pending item.          *)
(*                                                                         *)
(* Time is left out: any lease may have expired when recovery looks, and   *)
(* nothing renews it.  lease_epoch stands for the whole fence, and for     *)
(* attempt_count, with which it moves in step.  The retry of failed items  *)
(* and the handlers' phase writes take no locks in an order of their own   *)
(* and are left to TaskQueue.                                              *)
(***************************************************************************)
EXTENDS Naturals, FiniteSets

CONSTANTS
  Worker,       \* worker processes, each with one connection in use
  Admin,        \* administrator requests
  Task, Item,
  TaskOf,       \* the parent of each item
  OpOf,         \* the operation of each administrator request
  TargetOf,     \* and its task
  Outcomes,     \* what handlers return
  MaxAttempts,  \* attempts before a failure is final
  NoOne         \* no lock holder, no item, no task, no status

Client == Worker \cup Admin
Rows == [status : {"pending", "processing", "success", "failed", "skipped"},
         epoch : Nat]
Lease == [item : Item, epoch : Nat]
Runnable == {"pending", "processing"}
Controlled == {"paused", "cancelled", "disabled"}
Statuses == Runnable \cup Controlled
              \cup {"completed", "completed_with_errors", "failed"}

ASSUME LocksAssumption ==
  /\ TaskOf \in [Item -> Task]
  /\ OpOf \in [Admin -> {"pause", "resume", "abort"}]
  /\ TargetOf \in [Admin -> Task]
  /\ Outcomes \subseteq {"success", "failed", "hold", "retry"}
  /\ MaxAttempts \in Nat \ {0}
  /\ Worker \cap Admin = {}
  /\ NoOne \notin Client \cup Task \cup Item \cup Statuses
  /\ NoOne \notin Rows /\ NoOne \notin Lease

VARIABLES
  row,         \* committed item rows
  parent,      \* committed parent statuses
  txn,         \* the open transaction of each client
  itemLock,    \* the client that has locked each item row
  parentLock,  \* and each parent row
  held,        \* the lease each worker believes it holds
  done         \* administrator requests answered

vars == <<row, parent, txn, itemLock, parentLock, held, done>>

ItemsOf(t) == {i \in Item : TaskOf[i] = t}

(* Between transactions; and a transaction about to run its statement at,  *)
(* for the item or task it is about.                                       *)
NoDraft == [i \in Item |-> NoOne]
Fresh(op, at, i, t) ==
  [op |-> op, at |-> at, item |-> i, task |-> t,
   todo |-> {}, draft |-> NoDraft, mark |-> NoOne]

Idle == Fresh("none", "idle", NoOne, NoOne)

\* What c's statements see.
Seen(c, i) == IF txn[c].draft[i] # NoOne THEN txn[c].draft[i] ELSE row[i]
SeenStatus(c, t) == IF txn[c].mark # NoOne THEN txn[c].mark ELSE parent[t]

Free(lock, c) == lock \in {NoOne, c}
-----------------------------------------------------------------------------
Init ==
  /\ row = [i \in Item |-> [status |-> "pending", epoch |-> 0]]
  /\ parent = [t \in Task |-> "pending"]
  /\ txn = [c \in Client |-> Idle]
  /\ itemLock = [i \in Item |-> NoOne]
  /\ parentLock = [t \in Task |-> NoOne]
  /\ held = [w \in Worker |-> NoOne]
  /\ done = {}

(* The transaction ends: its locks fall, and if it commits, its rows show. *)
Release(c) ==
  /\ txn' = [txn EXCEPT ![c] = Idle]
  /\ itemLock' = [i \in Item |-> IF itemLock[i] = c THEN NoOne
                                 ELSE itemLock[i]]
  /\ parentLock' = [t \in Task |-> IF parentLock[t] = c THEN NoOne
                                   ELSE parentLock[t]]

Rollback(c) == Release(c) /\ UNCHANGED <<row, parent>>

(* selectPending or selectExpired: FOR UPDATE SKIP LOCKED locks up to 128  *)
(* candidate rows and takes one of them; assignLease, or recovery's        *)
(* UPDATE, rewrites that one.  new maps each candidate to its new row.     *)
TakeMutant(w, op, new) ==               \* a plain SELECT
  \E i \in DOMAIN new :
    /\ txn' = [txn EXCEPT ![w] =
                 [Fresh(op, "parent", i, TaskOf[i]) EXCEPT
                    !.draft[i] = new[i]]]
    /\ UNCHANGED itemLock

Take(w, op, new) ==
  LET unlocked == {i \in DOMAIN new : itemLock[i] = NoOne}
  IN \E i \in unlocked :
       /\ itemLock' = [j \in Item |-> IF j \in unlocked THEN w
                                      ELSE itemLock[j]]
       /\ txn' = [txn EXCEPT ![w] =
                    [Fresh(op, "parent", i, TaskOf[i]) EXCEPT
                       !.draft[i] = new[i]]]

Unoccupied(w) == txn[w] = Idle /\ held[w] = NoOne

BeginClaim(w) ==
  LET candidates == {i \in Item : /\ row[i].status = "pending"
                                  /\ parent[TaskOf[i]] \in Runnable}
  IN /\ Unoccupied(w)
     /\ Take(w, "claim",
             [i \in candidates |-> [status |-> "processing",
                                    epoch |-> row[i].epoch + 1]])
     /\ UNCHANGED <<row, parent, parentLock, held, done>>

BeginRecover(w) ==
  LET expired == {i \in Item : row[i].status = "processing"}
      status(i) == IF row[i].epoch >= MaxAttempts THEN "failed" ELSE "pending"
  IN /\ Unoccupied(w)
     /\ Take(w, "recover",
             [i \in expired |-> [row[i] EXCEPT !.status = status(i)]])
     /\ UNCHANGED <<row, parent, parentLock, held, done>>

(* finalizeTaskItem.  A retry is allowed only with attempts left.  After a *)
(* transaction that failed, handleFinalizeFailure tries again.             *)
BeginFinalize(w, o) ==
  /\ txn[w] = Idle /\ held[w] # NoOne
  /\ o = "retry" => held[w].epoch < MaxAttempts
  /\ txn' = [txn EXCEPT ![w] = Fresh(o, "item", held[w].item,
                                     TaskOf[held[w].item])]
  /\ UNCHANGED <<row, parent, itemLock, parentLock, held, done>>

(* lockMutationRequest comes first and is free: one request, one client.   *)
BeginAdmin(a) ==
  /\ txn[a] = Idle /\ a \notin done
  /\ txn' = [txn EXCEPT ![a] = Fresh(OpOf[a], "parent", NoOne, TargetOf[a])]
  /\ UNCHANGED <<row, parent, itemLock, parentLock, held, done>>

(* A finalize's first statement (assertProtectedWriteLease for a hold,     *)
(* guardedFinalize or guardedRequeue otherwise): the row if the fence      *)
(* matches it, waiting for whoever has it locked; LeaseLostError if not.   *)
Settled(o) == CASE o = "hold" -> "failed" [] o = "retry" -> "pending"
                [] OTHER -> o

FenceHolds(w) ==
  /\ row[txn[w].item].status = "processing"
  /\ row[txn[w].item].epoch = held[w].epoch

LockItem(w) ==
  LET i == txn[w].item
      o == txn[w].op
  IN /\ txn[w].at = "item"
     /\ FenceHolds(w)
     /\ Free(itemLock[i], w)
     /\ itemLock' = [itemLock EXCEPT ![i] = w]
     /\ txn' = [txn EXCEPT ![w].at = "parent",
                           ![w].draft[i] = [row[i] EXCEPT
                                              !.status = Settled(o)]]
     /\ UNCHANGED <<row, parent, parentLock, held, done>>

LoseLease(w) ==
  /\ txn[w].at = "item"
  /\ ~FenceHolds(w)
  /\ Rollback(w)
  /\ held' = [held EXCEPT ![w] = NoOne]
  /\ UNCHANGED done

(* SELECT ... FOR UPDATE of the parent row: recomputeParentTask for        *)
(* workers, lockParent for administrators, maybeHaltTaskOnGlobalFailure    *)
(* for a hold.  Abort and hold then run terminatePendingTaskItems, whose   *)
(* UPDATE visits the rows pending now; pause and resume only set a status. *)
Eligible(op, s) ==
  CASE op = "pause" -> s \in Runnable
    [] op = "resume" -> s = "paused"
    [] op = "abort" -> s \in Runnable \cup {"paused"}
    [] op = "hold" -> s \in Runnable

SweepsMutant(c) ==                      \* pause sweeps too
  /\ txn[c].op \in {"pause", "abort", "hold"}
  /\ Eligible(txn[c].op, parent[txn[c].task])

Sweeps(c) == /\ txn[c].op \in {"abort", "hold"}
             /\ Eligible(txn[c].op, parent[txn[c].task])

NextAt(c) ==
  IF Sweeps(c) THEN "sweep" ELSE IF c \in Worker THEN "recount" ELSE "set"

LockParentMutant(c) ==                  \* no FOR UPDATE before the recount
  LET t == txn[c].task
  IN /\ txn[c].at = "parent"
     /\ parentLock' = IF c \in Worker THEN parentLock
                      ELSE [parentLock EXCEPT ![t] = c]
     /\ c \in Worker \/ Free(parentLock[t], c)
     /\ txn' = [txn EXCEPT ![c].at = NextAt(c),
                           ![c].todo = {i \in ItemsOf(t) :
                              Sweeps(c) /\ Seen(c, i).status = "pending"}]
     /\ UNCHANGED <<row, parent, itemLock, held, done>>

LockParent(c) ==
  LET t == txn[c].task
  IN /\ txn[c].at = "parent"
     /\ Free(parentLock[t], c)
     /\ parentLock' = [parentLock EXCEPT ![t] = c]
     /\ txn' = [txn EXCEPT ![c].at = NextAt(c),
                           ![c].todo = {i \in ItemsOf(t) :
                              Sweeps(c) /\ Seen(c, i).status = "pending"}]
     /\ UNCHANGED <<row, parent, itemLock, held, done>>

SweepRowMutant(c, i) ==                 \* passes over locked rows
  /\ txn[c].at = "sweep" /\ i \in txn[c].todo
  /\ IF Free(itemLock[i], c) /\ row[i].status = "pending"
       THEN /\ itemLock' = [itemLock EXCEPT ![i] = c]
            /\ txn' = [txn EXCEPT ![c].todo = @ \ {i},
                                  ![c].draft[i] = [row[i] EXCEPT
                                                     !.status = "skipped"]]
       ELSE /\ txn' = [txn EXCEPT ![c].todo = @ \ {i}]
            /\ UNCHANGED itemLock
  /\ UNCHANGED <<row, parent, parentLock, held, done>>

(* terminatePendingTaskItems reaches row i: it waits for the row's lock,   *)
(* then looks again whether the row is pending.                            *)
SweepRow(c, i) ==
  /\ txn[c].at = "sweep" /\ i \in txn[c].todo
  /\ Free(itemLock[i], c)
  /\ IF row[i].status = "pending"
       THEN /\ itemLock' = [itemLock EXCEPT ![i] = c]
            /\ txn' = [txn EXCEPT ![c].todo = @ \ {i},
                                  ![c].draft[i] = [row[i] EXCEPT
                                                     !.status = "skipped"]]
       ELSE /\ txn' = [txn EXCEPT ![c].todo = @ \ {i}]
            /\ UNCHANGED itemLock
  /\ UNCHANGED <<row, parent, parentLock, held, done>>

SweepEnds(c) ==
  /\ txn[c].at = "sweep" /\ txn[c].todo = {}
  /\ txn' = [txn EXCEPT
       ![c].mark = IF txn[c].op = "abort" THEN "cancelled" ELSE "disabled",
       ![c].at = IF txn[c].op = "abort" THEN "commit" ELSE "recount"]
  /\ UNCHANGED <<row, parent, itemLock, parentLock, held, done>>

(* recomputeParentTask's second statement counts the rows r it sees now.   *)
Derived(t, s, r) ==
  LET some(st) == \E i \in ItemsOf(t) : r[i].status = st
  IN IF s \in Controlled THEN s
     ELSE IF some("pending") \/ some("processing") THEN "processing"
     ELSE IF ~some("failed") THEN "completed"
     ELSE IF some("success") \/ some("skipped") THEN "completed_with_errors"
     ELSE "failed"

Recount(w) ==
  LET t == txn[w].task
      rows == [i \in Item |-> Seen(w, i)]
  IN /\ txn[w].at = "recount"
     /\ txn' = [txn EXCEPT ![w].at = "commit",
                           ![w].mark = Derived(t, SeenStatus(w, t), rows)]
     /\ UNCHANGED <<row, parent, itemLock, parentLock, held, done>>

(* pauseTask and resumeTask; an ineligible request is refused.             *)
SetStatus(a) ==
  /\ txn[a].at = "set"
  /\ Eligible(txn[a].op, parent[txn[a].task])
  /\ txn' = [txn EXCEPT ![a].at = "commit",
       ![a].mark = IF txn[a].op = "pause" THEN "paused" ELSE "pending"]
  /\ UNCHANGED <<row, parent, itemLock, parentLock, held, done>>

Refuse(a) ==
  /\ txn[a].at = "set"
  /\ ~Eligible(txn[a].op, parent[txn[a].task])
  /\ Rollback(a)
  /\ done' = done \cup {a}
  /\ UNCHANGED held

Commit(c) ==
  /\ txn[c].at = "commit"
  /\ row' = [i \in Item |-> Seen(c, i)]
  /\ parent' = [parent EXCEPT ![txn[c].task] = txn[c].mark]
  /\ Release(c)
  /\ IF c \in Admin
       THEN done' = done \cup {c} /\ UNCHANGED held
       ELSE /\ held' = [held EXCEPT ![c] =
                 IF txn[c].op = "claim"
                   THEN [item |-> txn[c].item, epoch |-> row'[txn[c].item].epoch]
                   ELSE NoOne]
            /\ UNCHANGED done

(* The process dies, or leaves a handler behind, or gives up a finalize    *)
(* that failed twice: its transaction rolls back and its lease is left to  *)
(* expire.                                                                 *)
Drop(w) ==
  /\ held[w] # NoOne \/ txn[w] # Idle
  /\ Rollback(w)
  /\ held' = [held EXCEPT ![w] = NoOne]
  /\ UNCHANGED done
-----------------------------------------------------------------------------
(* The transactions c is waiting for: all of those in its way.             *)
Blockers(c) ==
  LET tx == txn[c]
      wanted == CASE tx.at = "item" /\ FenceHolds(c) -> {itemLock[tx.item]}
                  [] tx.at = "parent" -> {parentLock[tx.task]}
                  [] tx.at = "sweep" -> {itemLock[i] : i \in tx.todo}
                  [] OTHER -> {}
  IN IF wanted = {} \/ NoOne \in wanted \/ c \in wanted THEN {} ELSE wanted

Deadlocked(c) ==
  \E S \in SUBSET Client :
    c \in S /\ \A d \in S : Blockers(d) # {} /\ Blockers(d) \subseteq S

(* PostgreSQL's deadlock detector (or lock_timeout) ends one of them.  A   *)
(* worker whose claim or recovery fails this way exits; a finalize is      *)
(* tried again by handleFinalizeFailure; an administrator may try again.   *)
Victim(c) ==
  /\ Deadlocked(c)
  /\ Rollback(c)
  /\ UNCHANGED <<held, done>>

WorkerStep(w) ==
  \/ BeginClaim(w) \/ BeginRecover(w)
  \/ \E o \in Outcomes : BeginFinalize(w, o)
  \/ LockItem(w) \/ LoseLease(w) \/ Recount(w) \/ Drop(w)

AdminStep(a) == BeginAdmin(a) \/ SetStatus(a) \/ Refuse(a)

Advance(c) ==
  \/ LockParent(c) \/ (\E i \in Item : SweepRow(c, i)) \/ SweepEnds(c)
  \/ Commit(c) \/ Victim(c)

Next ==
  \/ \E w \in Worker : WorkerStep(w)
  \/ \E a \in Admin : AdminStep(a)
  \/ \E c \in Client : Advance(c)

Spec == Init /\ [][Next]_vars
-----------------------------------------------------------------------------
(* Type invariant: what the variables may hold, and that a transaction's   *)
(* uncommitted rows are rows it has locked.                                *)
TypeOK ==
  /\ row \in [Item -> Rows]
  /\ \A c \in Client :
       /\ txn[c].at \in {"idle", "item", "parent", "sweep", "recount", "set",
                         "commit"}
       /\ txn[c].at = "idle" <=> txn[c] = Idle
       /\ \A i \in Item : txn[c].draft[i] # NoOne =>
            txn[c].draft[i] \in Rows /\ itemLock[i] = c
       /\ txn[c].mark # NoOne => parentLock[txn[c].task] = c
  /\ held \in [Worker -> Lease \cup {NoOne}]

(* Whatever transactions overlap, a committed parent row is derived from   *)
(* the committed item rows: a recount never misses another transaction's   *)
(* item, because it locks the parent before it counts.  Uncommitted rows   *)
(* are only ever rows their writer has locked (TypeOK).                    *)
ParentDerived ==
  /\ TypeOK
  /\ \A t \in Task :
       parent[t] \notin Controlled \cup {"pending"} =>
         parent[t] = Derived(t, "processing", row)

(* No lost update: committed rows change only along the item's lifecycle,  *)
(* one lease at a time (two claims never take the same row).               *)
Legal(old, new) ==
  \/ new = old
  \/ /\ old.status = "pending" /\ new.status = "processing"
     /\ new.epoch = old.epoch + 1
  \/ /\ old.status = "pending" /\ new.status = "skipped"
     /\ new.epoch = old.epoch
  \/ /\ old.status = "processing" /\ new.epoch = old.epoch
     /\ new.status \in {"pending", "success", "failed"}

RowsSerial == [][\A i \in Item : Legal(row[i], row'[i])]_vars

(* abortTask and the hold leave no item of their task pending, although    *)
(* other transactions hold rows of it locked (a claim locks up to 128 rows *)
(* and takes one): the rows a claim passes on are waited for, not skipped. *)
SweepIsComplete ==
  [][\A t \in Task :
       parent'[t] \in {"cancelled", "disabled"} /\ parent'[t] # parent[t] =>
         \A i \in ItemsOf(t) : row'[i].status # "pending"]_vars

(* Whenever transactions wait on each other in a circle, one of them is in *)
(* the sweep of an abort or a hold, parent locked: workers lock items      *)
(* before parents, and pause and resume lock no items at all.  This is     *)
(* less than task-termination.ts:49 claims, that SKIP LOCKED keeps a claim *)
(* and a sweep from deadlocking: the sweep's update waits for rows a claim *)
(* holds, and that claim waits for the parent the sweep has locked.        *)
OnlySweepsDeadlock ==
  \A S \in (SUBSET Client) \ {{}} :
    (\A c \in S : Blockers(c) # {} /\ Blockers(c) \subseteq S) =>
      \E c \in S : txn[c].at = "sweep" /\ txn[c].op \in {"abort", "hold"}
=============================================================================
