------------------------------ MODULE LockProofs ------------------------------
(***************************************************************************)
(* What row locks and unique index entries guarantee: theorems about       *)
(* TaskRowLocks, for any workers, administrators, tasks and items and any  *)
(* attempt limit, and about ContentPipeline, for any sources, batches,     *)
(* workers and inline requests.                                            *)
(*                                                                         *)
(* Both invariants are one of each client or transaction: where it is,     *)
(* what it holds, what it is about to write.  A step of another leaves it  *)
(* alone, because rows that are locked do not change.  Of the task rows    *)
(* that is Good and Frame, in the first part; of the pipeline TxTrue,      *)
(* TxApart and what says that others keep it, in the second.               *)
(***************************************************************************)
EXTENDS TaskRowLocks, ContentPipeline, FiniteSetTheorems, WellFoundedInduction,
        TLAPS

Ops == {"none", "claim", "recover", "pause", "resume", "abort"} \cup Outcomes
Steps == {"idle", "item", "parent", "sweep", "recount", "set", "commit"}
Txn == [op : Ops, at : Steps, item : Item \cup {NoOne},
        task : Task \cup {NoOne}, todo : SUBSET Item,
        draft : [Item -> Rows \cup {NoOne}], mark : Statuses \cup {NoOne}]

Types ==
  /\ row \in [Item -> Rows]
  /\ parent \in [Task -> Statuses]
  /\ txn \in [Client -> Txn]
  /\ itemLock \in [Item -> Client \cup {NoOne}]
  /\ parentLock \in [Task -> Client \cup {NoOne}]
  /\ held \in [Worker -> Lease \cup {NoOne}]

(* Where a client is: the task and item it is about, and the locks it has. *)
AtParent == {"sweep", "recount", "set", "commit"}

Placed(c) ==
  /\ txn[c].at = "idle" => txn[c] = Idle
  /\ txn[c].at # "idle" => txn[c].task \in Task
  /\ txn[c].at = "item" => /\ c \in Worker /\ txn[c].op \in Outcomes
                           /\ txn[c].item \in Item
                           /\ TaskOf[txn[c].item] = txn[c].task
                           /\ txn[c].draft = NoDraft
  /\ txn[c].at = "sweep" => txn[c].op \in {"abort", "hold"}
  /\ txn[c].op = "claim" => txn[c].item \in Item
  /\ txn[c].at \in AtParent => parentLock[txn[c].task] = c

Holds(c) ==
  /\ \A i \in Item : itemLock[i] = c => txn[c].at \notin {"idle", "item"}
  /\ \A t \in Task : parentLock[t] = c =>
       txn[c].at \in AtParent /\ txn[c].task = t

(* What it has drafted: legal successors of rows it has locked.            *)
Drafted(c) ==
  /\ \A i \in Item : txn[c].draft[i] # NoOne =>
       /\ itemLock[i] = c /\ TaskOf[i] = txn[c].task
       /\ Legal(row[i], txn[c].draft[i])
  /\ txn[c].at \in {"parent", "sweep"} /\ txn[c].op \in {"abort", "hold"} =>
       \A i \in Item : txn[c].draft[i] # NoOne =>
         txn[c].draft[i].status # "pending"

(* What it is about to make of the parent.                                 *)
Swept(c) == \A i \in ItemsOf(txn[c].task) : Seen(c, i).status # "pending"

Marked(c) ==
  /\ txn[c].at \notin {"recount", "commit"} => txn[c].mark = NoOne
  /\ txn[c].at = "sweep" =>
       /\ txn[c].todo \subseteq ItemsOf(txn[c].task)
       /\ \A i \in ItemsOf(txn[c].task) :
            i \in txn[c].todo \/ Seen(c, i).status # "pending"
  /\ txn[c].at = "recount" /\ txn[c].mark # NoOne =>
       txn[c].mark = "disabled" /\ Swept(c)
  /\ txn[c].at = "commit" =>
       /\ txn[c].mark # NoOne
       /\ txn[c].mark \notin Controlled \cup {"pending"} =>
            txn[c].mark = Derived(txn[c].task, "processing",
                                  [i \in Item |-> Seen(c, i)])
       /\ txn[c].mark \in {"cancelled", "disabled"} =>
            txn[c].mark = parent[txn[c].task] \/ Swept(c)

Good(c) == Placed(c) /\ Holds(c) /\ Drafted(c) /\ Marked(c)

LocksInv == Types /\ (\A c \in Client : Good(c)) /\ ParentDerived

(* A step of c as the other clients see it.                                *)
Frame(c) ==
  \A d \in Client \ {c} :
    /\ txn'[d] = txn[d]
    /\ \A i \in Item : /\ (itemLock'[i] = d) <=> (itemLock[i] = d)
                       /\ itemLock[i] = d => row'[i] = row[i]
    /\ \A t \in Task : /\ (parentLock'[t] = d) <=> (parentLock[t] = d)
                       /\ parentLock[t] = d =>
                            /\ parent'[t] = parent[t]
                            /\ \A i \in ItemsOf(t) : row'[i] = row[i]
-----------------------------------------------------------------------------
(* What a recount computes depends on the rows of its task, and on the     *)
(* parent's status only as far as that is an administrator's.              *)
LEMMA DerivedOf ==
  ASSUME NEW t \in Task, NEW r, NEW q,
         \A i \in ItemsOf(t) : r[i] = q[i]
  PROVE  \A s : Derived(t, s, r) = Derived(t, s, q)
<1> TAKE s
<1>1. \A x : (\E i \in ItemsOf(t) : r[i].status = x)
               <=> (\E i \in ItemsOf(t) : q[i].status = x)
  OBVIOUS
<1> QED BY <1>1 DEF Derived

LEMMA DerivedStatus ==
  ASSUME NEW t \in Task, NEW r, NEW s \in Statuses
  PROVE  /\ Derived(t, s, r) \in Statuses
         /\ s \in Controlled => Derived(t, s, r) = s
         /\ s \notin Controlled => /\ Derived(t, s, r) = Derived(t, "processing", r)
                                   /\ Derived(t, s, r) \notin Controlled
BY DEF Derived, Statuses, Runnable, Controlled

(* The invariant of one client survives the steps of the others.           *)
LEMMA GoodKept ==
  ASSUME Types, Types', NEW c \in Client, NEW d \in Client \ {c},
         Frame(c), Good(d)
  PROVE  Good(d)'
<1>1. /\ txn'[d] = txn[d]
      /\ \A i \in Item : /\ (itemLock'[i] = d) <=> (itemLock[i] = d)
                         /\ itemLock[i] = d => row'[i] = row[i]
      /\ \A t \in Task : /\ (parentLock'[t] = d) <=> (parentLock[t] = d)
                         /\ parentLock[t] = d =>
                              /\ parent'[t] = parent[t]
                              /\ \A i \in ItemsOf(t) : row'[i] = row[i]
  BY DEF Frame
<1>2. Placed(d)'
  BY <1>1 DEF Good, Placed, AtParent
<1>3. Holds(d)'
  BY <1>1 DEF Good, Holds
<1>4. Drafted(d)'
  BY <1>1 DEF Good, Drafted
<1>5. ASSUME txn[d].at \in AtParent
      PROVE  /\ txn[d].task \in Task
             /\ parent'[txn[d].task] = parent[txn[d].task]
             /\ \A i \in ItemsOf(txn[d].task) : Seen(d, i)' = Seen(d, i)
             /\ Swept(d)' <=> Swept(d)
  <2>1. txn[d].task \in Task /\ parentLock[txn[d].task] = d
    BY <1>5 DEF Good, Placed, AtParent
  <2>2. \A i \in ItemsOf(txn[d].task) : Seen(d, i)' = Seen(d, i)
    BY <1>1, <2>1 DEF Seen
  <2>3. Swept(d)' <=> Swept(d)
    BY <1>1, <2>2 DEF Swept, ItemsOf
  <2> QED BY <1>1, <2>1, <2>2, <2>3
<1>6. Marked(d)'
  <2>1. CASE txn[d].at \notin AtParent
    BY <1>1, <2>1 DEF Good, Marked, AtParent
  <2>2. CASE txn[d].at \in {"sweep", "recount", "set"}
    BY <1>1, <1>5, <2>2 DEF Good, Marked, AtParent, ItemsOf
  <2>3. CASE txn[d].at = "commit"
    <3> DEFINE t == txn[d].task
               r == [j \in Item |-> Seen(d, j)]
               q == [j \in Item |-> Seen(d, j)']
    <3>1. t \in Task /\ parent'[t] = parent[t] /\ (Swept(d)' <=> Swept(d))
      BY <1>5, <2>3 DEF AtParent
    <3>2. \A i \in ItemsOf(t) : q[i] = r[i]
      BY <1>5, <2>3 DEF AtParent, ItemsOf
    <3>4. Derived(t, "processing", r)' = Derived(t, "processing", q)
      BY <1>1 DEF Derived, ItemsOf
    <3>3. Derived(t, "processing", q) = Derived(t, "processing", r)
      <4> HIDE DEF t, r, q
      <4> QED BY <3>1, <3>2, DerivedOf
    <3> QED BY <1>1, <2>3, <3>1, <3>3, <3>4 DEF Good, Marked
  <2> QED BY <2>1, <2>2, <2>3 DEF AtParent
<1> QED BY <1>2, <1>3, <1>4, <1>6 DEF Good
-----------------------------------------------------------------------------
(* What Fresh makes.                                                       *)
LEMMA FreshTxn ==
  ASSUME NEW op \in Ops, NEW at \in Steps, NEW i \in Item \cup {NoOne},
         NEW t \in Task \cup {NoOne}
  PROVE  Fresh(op, at, i, t) \in Txn
<1>1. NoDraft \in [Item -> Rows \cup {NoOne}]
  BY DEF NoDraft
<1>2. {} \in SUBSET Item
  OBVIOUS
<1> QED BY <1>1, <1>2 DEF Fresh, Txn

LEMMA IdleTxn == Idle \in Txn
BY FreshTxn DEF Idle, Ops, Steps

LEMMA Rooted ==
  /\ Init => Types
  /\ Init => \A c \in Client : Good(c)
<1>1. ASSUME Init PROVE Types
  BY <1>1, IdleTxn DEF Init, Types, Rows, Statuses, Runnable
<1>2. ASSUME Init, NEW c \in Client PROVE Good(c)
  <2>1. txn[c] = Idle
    BY <1>2 DEF Init
  <2>2. \A i \in Item : Idle.draft[i] = NoOne
    BY DEF Idle, Fresh, NoDraft
  <2>3. \A i \in Item : itemLock[i] # c
    BY <1>2, LocksAssumption DEF Init
  <2>4. \A t \in Task : parentLock[t] # c
    BY <1>2, LocksAssumption DEF Init
  <2> QED BY <2>1, <2>2, <2>3, <2>4
          DEF Good, Placed, Holds, Drafted, Marked, Idle, Fresh, AtParent
<1> QED BY <1>1, <1>2

(* A transaction that ends without a commit.                               *)
LEMMA RollbackGood ==
  ASSUME Types, NEW c \in Client, Good(c), Rollback(c),
         held' \in [Worker -> Lease \cup {NoOne}]
  PROVE  Types' /\ Frame(c) /\ Good(c)'
<1> USE DEF Rollback, Release
<1>1. \A d \in Client : d # NoOne
  BY LocksAssumption
<1>2. Types'
  BY IdleTxn DEF Types
<1>3. Frame(c)
  BY <1>1 DEF Types, Frame
<1>4. txn'[c] = Idle /\ (\A i \in Item : itemLock'[i] # c)
        /\ (\A t \in Task : parentLock'[t] # c)
  BY <1>1 DEF Types
<1>5. \A i \in Item : Idle.draft[i] = NoOne
  BY DEF Idle, Fresh, NoDraft
<1>6. Good(c)'
  BY <1>4, <1>5
     DEF Good, Placed, Holds, Drafted, Marked, Idle, Fresh, AtParent
<1> QED BY <1>2, <1>3, <1>6

(* A claim or a recovery has taken a row.                                  *)
LEMMA TakeGood ==
  ASSUME Types, NEW w \in Worker, Good(w), txn[w] = Idle,
         NEW op \in {"claim", "recover"}, NEW new, DOMAIN new \subseteq Item,
         \A i \in DOMAIN new : new[i] \in Rows /\ Legal(row[i], new[i]),
         Take(w, op, new), UNCHANGED <<row, parent, parentLock, held, done>>
  PROVE  Types' /\ Frame(w) /\ Good(w)'
<1>1. w \in Client /\ w # NoOne
  BY LocksAssumption DEF Client
<1> DEFINE unlocked == {i \in DOMAIN new : itemLock[i] = NoOne}
<1>2. PICK i \in unlocked :
        /\ itemLock' = [j \in Item |-> IF j \in unlocked THEN w ELSE itemLock[j]]
        /\ txn' = [txn EXCEPT ![w] = [Fresh(op, "parent", i, TaskOf[i]) EXCEPT
                                        !.draft[i] = new[i]]]
  BY DEF Take
<1>3. i \in Item /\ TaskOf[i] \in Task /\ new[i] \in Rows
  BY LocksAssumption
<1>4. [Fresh(op, "parent", i, TaskOf[i]) EXCEPT !.draft[i] = new[i]] =
        [op |-> op, at |-> "parent", item |-> i, task |-> TaskOf[i],
         todo |-> {}, draft |-> [NoDraft EXCEPT ![i] = new[i]], mark |-> NoOne]
  BY <1>3 DEF Fresh
<1>5. [NoDraft EXCEPT ![i] = new[i]] \in [Item -> Rows \cup {NoOne}]
  BY <1>3 DEF NoDraft
<1>6. txn'[w] = [op |-> op, at |-> "parent", item |-> i, task |-> TaskOf[i],
                 todo |-> {}, draft |-> [NoDraft EXCEPT ![i] = new[i]],
                 mark |-> NoOne]
      /\ txn'[w] \in Txn
  <2>1. txn'[w] = [Fresh(op, "parent", i, TaskOf[i]) EXCEPT !.draft[i] = new[i]]
    BY <1>1, <1>2 DEF Types
  <2>2. [op |-> op, at |-> "parent", item |-> i, task |-> TaskOf[i],
         todo |-> {}, draft |-> [NoDraft EXCEPT ![i] = new[i]],
         mark |-> NoOne] \in Txn
    BY <1>3, <1>5 DEF Txn, Ops, Steps
  <2> QED BY <1>4, <2>1, <2>2
<1>7. Types'
  BY <1>1, <1>2, <1>4, <1>6 DEF Types
<1>8. Frame(w)
  BY <1>1, <1>2, LocksAssumption DEF Types, Frame
<1>9. \A t \in Task : parentLock'[t] # w
  BY DEF Good, Holds, Idle, Fresh, AtParent
<1>10. Placed(w)' /\ Holds(w)'
  BY <1>3, <1>6, <1>9 DEF Placed, Holds, AtParent
<1>11. itemLock'[i] = w
  BY <1>2, <1>3
<1>12. Drafted(w)' /\ Marked(w)'
  BY <1>3, <1>6, <1>11 DEF Drafted, Marked, NoDraft
<1> QED BY <1>7, <1>8, <1>10, <1>12 DEF Good

LEMMA ClaimGood ==
  ASSUME Types, NEW w \in Worker, Good(w), BeginClaim(w) \/ BeginRecover(w)
  PROVE  Types' /\ Frame(w) /\ Good(w)'
<1>1. txn[w] = Idle
  BY DEF BeginClaim, BeginRecover, Unoccupied
<1>2. CASE BeginClaim(w)
  <2> DEFINE candidates == {i \in Item : /\ row[i].status = "pending"
                                         /\ parent[TaskOf[i]] \in Runnable}
             new == [i \in candidates |-> [status |-> "processing",
                                           epoch |-> row[i].epoch + 1]]
  <2>1. /\ DOMAIN new \subseteq Item
        /\ \A i \in DOMAIN new : new[i] \in Rows /\ Legal(row[i], new[i])
    BY DEF Types, Rows, Legal
  <2>2. Take(w, "claim", new) /\ UNCHANGED <<row, parent, parentLock, held, done>>
    BY <1>2 DEF BeginClaim
  <2> HIDE DEF new
  <2> QED BY <1>1, <2>1, <2>2, TakeGood
<1>3. CASE BeginRecover(w)
  <2> DEFINE ended == {i \in Item : row[i].status = "processing"}
             status(i) == IF row[i].epoch >= MaxAttempts THEN "failed"
                          ELSE "pending"
             new == [i \in ended |-> [row[i] EXCEPT !.status = status(i)]]
  <2>1. /\ DOMAIN new \subseteq Item
        /\ \A i \in DOMAIN new : new[i] \in Rows /\ Legal(row[i], new[i])
    BY DEF Types, Rows, Legal
  <2>2. Take(w, "recover", new) /\ UNCHANGED <<row, parent, parentLock, held, done>>
    BY <1>3 DEF BeginRecover
  <2> HIDE DEF new
  <2> QED BY <1>1, <2>1, <2>2, TakeGood
<1> QED BY <1>2, <1>3

(* A step of c that writes no row: its own transaction and its own locks.  *)
LEMMA OwnStep ==
  ASSUME Types, NEW c \in Client,
         txn' \in [Client -> Txn],
         \A d \in Client \ {c} : txn'[d] = txn[d],
         itemLock' \in [Item -> Client \cup {NoOne}],
         parentLock' \in [Task -> Client \cup {NoOne}],
         \A i \in Item : itemLock'[i] # itemLock[i] =>
                            itemLock[i] = NoOne /\ itemLock'[i] = c,
         \A t \in Task : parentLock'[t] # parentLock[t] =>
                            parentLock[t] = NoOne /\ parentLock'[t] = c,
         UNCHANGED <<row, parent, held>>
  PROVE  Types' /\ Frame(c)
<1>1. \A d \in Client : d # NoOne
  BY LocksAssumption
<1>2. Types'
  BY DEF Types
<1>3. Frame(c)
  BY <1>1 DEF Types, Frame
<1> QED BY <1>2, <1>3

(* A worker sets out to finalize its item; an administrator to change a    *)
(* task.                                                                   *)
LEMMA BeginGood ==
  ASSUME Types, NEW c \in Client, Good(c),
         \/ c \in Worker /\ \E o \in Outcomes : BeginFinalize(c, o)
         \/ c \in Admin /\ BeginAdmin(c)
  PROVE  Types' /\ Frame(c) /\ Good(c)'
<1>1. txn[c] = Idle /\ UNCHANGED <<row, parent, itemLock, parentLock, held>>
  BY DEF BeginFinalize, BeginAdmin
<1>2. (\A i \in Item : itemLock[i] # c) /\ (\A t \in Task : parentLock[t] # c)
  BY <1>1 DEF Good, Holds, Idle, Fresh, AtParent
<1>3. ASSUME NEW op \in Ops \ {"claim"}, NEW at \in {"item", "parent"},
             NEW i \in Item \cup {NoOne}, NEW t \in Task,
             at = "item" => /\ c \in Worker /\ op \in Outcomes
                            /\ i \in Item /\ TaskOf[i] = t,
             txn' = [txn EXCEPT ![c] = Fresh(op, at, i, t)]
      PROVE  Types' /\ Frame(c) /\ Good(c)'
  <2> DEFINE x == Fresh(op, at, i, t)
  <2>1. x \in Txn
    BY <1>3, FreshTxn DEF Steps
  <2>2. Types' /\ Frame(c) /\ txn'[c] = x
    <3> HIDE DEF x
    <3>1. /\ txn' \in [Client -> Txn] /\ txn'[c] = x
          /\ \A d \in Client \ {c} : txn'[d] = txn[d]
      BY <1>3, <2>1 DEF x, Types
    <3>2. /\ itemLock' \in [Item -> Client \cup {NoOne}]
          /\ parentLock' \in [Task -> Client \cup {NoOne}]
          /\ \A j \in Item : itemLock'[j] = itemLock[j]
          /\ \A u \in Task : parentLock'[u] = parentLock[u]
      BY <1>1 DEF Types
    <3>3. Types' /\ Frame(c)
      BY <1>1, <3>1, <3>2, OwnStep
    <3> QED BY <3>1, <3>3
  <2>3. \A j \in Item : NoDraft[j] = NoOne
    BY DEF NoDraft
  <2>4. Placed(c)' /\ Holds(c)'
    BY <1>1, <1>2, <1>3, <2>2 DEF Fresh, Placed, Holds, AtParent
  <2>5. Drafted(c)' /\ Marked(c)'
    BY <1>3, <2>2, <2>3 DEF Fresh, Drafted, Marked
  <2> QED BY <2>2, <2>4, <2>5 DEF Good
<1>4. CASE c \in Worker /\ \E o \in Outcomes : BeginFinalize(c, o)
  <2>1. PICK o \in Outcomes : BeginFinalize(c, o)
    BY <1>4
  <2>2. held[c].item \in Item /\ TaskOf[held[c].item] \in Task
    BY <1>4, <2>1, LocksAssumption DEF BeginFinalize, Types, Lease
  <2>3. txn' = [txn EXCEPT ![c] = Fresh(o, "item", held[c].item,
                                        TaskOf[held[c].item])]
    BY <2>1 DEF BeginFinalize
  <2>4. o \in Ops \ {"claim"}
    BY LocksAssumption DEF Ops
  <2> QED BY <1>3, <1>4, <2>2, <2>3, <2>4
<1>5. CASE c \in Admin /\ BeginAdmin(c)
  <2>1. OpOf[c] \in Ops \ {"claim"} /\ TargetOf[c] \in Task
    BY <1>5, LocksAssumption DEF Ops
  <2> QED BY <1>3, <1>5, <2>1 DEF BeginAdmin
<1> QED BY <1>4, <1>5

(* A finalize has its item row.                                            *)
LEMMA ItemGood ==
  ASSUME Types, NEW w \in Worker, Good(w), LockItem(w)
  PROVE  Types' /\ Frame(w) /\ Good(w)'
<1> DEFINE i == txn[w].item
           o == txn[w].op
           new == [row[i] EXCEPT !.status = Settled(o)]
<1>1. /\ w \in Client /\ txn[w] \in Txn /\ txn[w].at = "item"
      /\ o \in Outcomes /\ i \in Item /\ TaskOf[i] = txn[w].task
      /\ txn[w].draft = NoDraft /\ txn[w].mark = NoOne
      /\ txn[w].task \in Task
  BY DEF Client, Types, LockItem, Good, Placed, Marked
<1>2. Settled(o) \in {"failed", "pending", "success"}
      /\ (o = "hold" => Settled(o) = "failed") /\ o # "abort"
  <2>1. o \in {"success", "failed", "hold", "retry"}
    BY <1>1, LocksAssumption
  <2> HIDE DEF o
  <2> QED BY <2>1 DEF Settled
<1>3. new \in Rows /\ Legal(row[i], new) /\ new.status = Settled(o)
  BY <1>1, <1>2 DEF LockItem, FenceHolds, Types, Rows, Legal
<1>4. /\ Free(itemLock[i], w) /\ itemLock' = [itemLock EXCEPT ![i] = w]
      /\ UNCHANGED <<row, parent, parentLock, held>>
  BY DEF LockItem
<1>11. txn' = [txn EXCEPT ![w].at = "parent", ![w].draft[i] = new]
  BY DEF LockItem
<1> HIDE DEF new
<1>5. /\ txn' \in [Client -> Txn]
      /\ \A d \in Client \ {w} : txn'[d] = txn[d]
      /\ txn'[w].op = o /\ txn'[w].at = "parent" /\ txn'[w].mark = NoOne
      /\ txn'[w].task = txn[w].task
      /\ txn'[w].draft = [NoDraft EXCEPT ![i] = new]
  BY <1>1, <1>3, <1>11 DEF Types, Txn, Steps
<1>12. txn'[w].item = txn[w].item
  BY <1>1, <1>11 DEF Types, Txn
<1>6. /\ itemLock' \in [Item -> Client \cup {NoOne}] /\ itemLock'[i] = w
      /\ \A j \in Item : itemLock'[j] # itemLock[j] =>
                           itemLock[j] = NoOne /\ itemLock'[j] = w
  BY <1>1, <1>4 DEF Types, Free
<1>7. Types' /\ Frame(w)
  BY <1>1, <1>4, <1>5, <1>6, OwnStep DEF Types
<1>8. Placed(w)' /\ Holds(w)'
  BY <1>1, <1>4, <1>5, <1>12 DEF Good, Placed, Holds, AtParent
<1>9. \A j \in Item : txn'[w].draft[j] # NoOne => j = i /\ txn'[w].draft[j] = new
  BY <1>1, <1>5 DEF NoDraft
<1>10. Drafted(w)' /\ Marked(w)'
  BY <1>1, <1>2, <1>3, <1>4, <1>5, <1>6, <1>9 DEF Drafted, Marked
<1> QED BY <1>7, <1>8, <1>10 DEF Good

(* A transaction has its parent row.                                       *)
LEMMA ParentGood ==
  ASSUME Types, NEW c \in Client, Good(c), LockParent(c)
  PROVE  Types' /\ Frame(c) /\ Good(c)'
<1> DEFINE t == txn[c].task
           at == NextAt(c)
           todo == {i \in ItemsOf(t) : Sweeps(c) /\ Seen(c, i).status = "pending"}
<1>1. /\ txn[c] \in Txn /\ t \in Task /\ txn[c].at = "parent"
      /\ txn[c].mark = NoOne
      /\ \A u \in Task : parentLock[u] # c
  BY DEF Types, LockParent, Good, Placed, Holds, Marked, AtParent
<1>2. /\ Free(parentLock[t], c) /\ parentLock' = [parentLock EXCEPT ![t] = c]
      /\ UNCHANGED <<row, parent, itemLock, held>>
  BY DEF LockParent
<1>3. txn' = [txn EXCEPT ![c].at = at, ![c].todo = todo]
  BY DEF LockParent
<1>4. at \in {"sweep", "recount", "set"} /\ todo \subseteq Item
      /\ (at = "sweep" <=> Sweeps(c))
  BY DEF NextAt, ItemsOf
<1>5. todo \subseteq ItemsOf(t)
      /\ \A i \in ItemsOf(t) : Sweeps(c) =>
            i \in todo \/ Seen(c, i).status # "pending"
  OBVIOUS
<1> HIDE DEF at, todo
<1>6. /\ txn' \in [Client -> Txn]
      /\ \A d \in Client \ {c} : txn'[d] = txn[d]
      /\ txn'[c].op = txn[c].op /\ txn'[c].at = at
      /\ txn'[c].item = txn[c].item /\ txn'[c].task = t
      /\ txn'[c].todo = todo /\ txn'[c].draft = txn[c].draft
      /\ txn'[c].mark = NoOne
  BY <1>1, <1>3, <1>4 DEF Types, Txn, Steps
<1>7. /\ parentLock' \in [Task -> Client \cup {NoOne}] /\ parentLock'[t] = c
      /\ \A u \in Task : parentLock'[u] # parentLock[u] =>
                           parentLock[u] = NoOne /\ parentLock'[u] = c
      /\ \A u \in Task : parentLock'[u] = c => u = t
  BY <1>1, <1>2 DEF Types, Free
<1>8. Types' /\ Frame(c)
  BY <1>1, <1>2, <1>6, <1>7, OwnStep DEF Types
<1>9. Placed(c)' /\ Holds(c)'
  BY <1>1, <1>2, <1>4, <1>6, <1>7 DEF Good, Placed, Holds, AtParent, Sweeps
<1>10. Drafted(c)'
  BY <1>1, <1>2, <1>6 DEF Good, Drafted
<1>11. \A i \in Item : Seen(c, i)' = Seen(c, i)
  BY <1>2, <1>6 DEF Seen
<1>12. Marked(c)'
  BY <1>4, <1>5, <1>6, <1>11 DEF Marked, ItemsOf
<1> QED BY <1>8, <1>9, <1>10, <1>12 DEF Good

(* A sweep reaches a row.                                                  *)
LEMMA SweepGood ==
  ASSUME Types, NEW c \in Client, Good(c), NEW i \in Item, SweepRow(c, i)
  PROVE  Types' /\ Frame(c) /\ Good(c)'
<1> DEFINE t == txn[c].task
           new == [row[i] EXCEPT !.status = "skipped"]
<1>1. /\ txn[c] \in Txn /\ t \in Task /\ txn[c].at = "sweep"
      /\ txn[c].op \in {"abort", "hold"} /\ txn[c].mark = NoOne
      /\ i \in txn[c].todo /\ txn[c].todo \subseteq ItemsOf(t)
      /\ parentLock[t] = c
      /\ \A j \in ItemsOf(t) :
            j \in txn[c].todo \/ Seen(c, j).status # "pending"
  BY DEF Types, SweepRow, Good, Placed, Marked, AtParent
<1>2. TaskOf[i] = t
  BY <1>1 DEF ItemsOf
<1>3. Free(itemLock[i], c) /\ UNCHANGED <<row, parent, parentLock, held>>
  BY DEF SweepRow
<1>4. CASE row[i].status = "pending"
  <2>1. new \in Rows /\ Legal(row[i], new) /\ new.status = "skipped"
    BY <1>4 DEF Types, Rows, Legal
  <2>2. itemLock' = [itemLock EXCEPT ![i] = c]
    BY <1>4 DEF SweepRow
  <2>3. txn' = [txn EXCEPT ![c].todo = @ \ {i}, ![c].draft[i] = new]
    BY <1>4 DEF SweepRow
  <2> HIDE DEF new
  <2>4. /\ txn' \in [Client -> Txn]
        /\ \A d \in Client \ {c} : txn'[d] = txn[d]
        /\ txn'[c].op = txn[c].op /\ txn'[c].at = "sweep"
        /\ txn'[c].item = txn[c].item /\ txn'[c].task = t
        /\ txn'[c].todo = txn[c].todo \ {i}
        /\ txn'[c].draft = [txn[c].draft EXCEPT ![i] = new]
        /\ txn'[c].mark = NoOne
    BY <1>1, <2>1, <2>3 DEF Types, Txn, Steps
  <2>5. /\ itemLock' \in [Item -> Client \cup {NoOne}] /\ itemLock'[i] = c
        /\ \A j \in Item : j # i => itemLock'[j] = itemLock[j]
        /\ \A j \in Item : itemLock'[j] # itemLock[j] =>
                             itemLock[j] = NoOne /\ itemLock'[j] = c
    BY <1>3, <2>2 DEF Types, Free
  <2>6. Types' /\ Frame(c)
    BY <1>3, <2>4, <2>5, OwnStep DEF Types
  <2>7. Placed(c)' /\ Holds(c)'
    BY <1>1, <1>3, <2>4 DEF Good, Placed, Holds, AtParent
  <2>8. /\ txn'[c].draft[i] = new
        /\ \A j \in Item \ {i} : txn'[c].draft[j] = txn[c].draft[j]
    BY <1>1, <2>4 DEF Txn
  <2>9. Drafted(c)'
    BY <1>1, <1>2, <1>3, <2>1, <2>4, <2>5, <2>8 DEF Good, Drafted
  <2>10. \A j \in Item \ {i} : Seen(c, j)' = Seen(c, j)
    BY <1>3, <2>8 DEF Seen
  <2>11. Seen(c, i)'.status # "pending"
    BY <2>1, <2>8, LocksAssumption DEF Seen
  <2>12. Marked(c)'
    BY <1>1, <2>4, <2>10, <2>11 DEF Marked, ItemsOf
  <2> QED BY <2>6, <2>7, <2>9, <2>12 DEF Good
<1>5. CASE row[i].status # "pending"
  <2>1. itemLock' = itemLock
    BY <1>5 DEF SweepRow
  <2>2. txn' = [txn EXCEPT ![c].todo = @ \ {i}]
    BY <1>5 DEF SweepRow
  <2>3. /\ txn' \in [Client -> Txn]
        /\ \A d \in Client \ {c} : txn'[d] = txn[d]
        /\ txn'[c].op = txn[c].op /\ txn'[c].at = "sweep"
        /\ txn'[c].item = txn[c].item /\ txn'[c].task = t
        /\ txn'[c].todo = txn[c].todo \ {i}
        /\ txn'[c].draft = txn[c].draft /\ txn'[c].mark = NoOne
    BY <1>1, <2>2 DEF Types, Txn
  <2>4. Types' /\ Frame(c)
    BY <1>3, <2>1, <2>3, OwnStep DEF Types
  <2>5. Placed(c)' /\ Holds(c)'
    BY <1>1, <1>3, <2>1, <2>3 DEF Good, Placed, Holds, AtParent
  <2>6. Drafted(c)'
    BY <1>1, <1>3, <2>1, <2>3 DEF Good, Drafted
  <2>7. \A j \in Item : Seen(c, j)' = Seen(c, j)
    BY <1>3, <2>3 DEF Seen
  <2>8. Seen(c, i).status # "pending"
    BY <1>1, <1>5 DEF Seen, Good, Drafted
  <2>9. Marked(c)'
    BY <1>1, <2>3, <2>7, <2>8 DEF Marked, ItemsOf
  <2> QED BY <2>4, <2>5, <2>6, <2>9 DEF Good
<1> QED BY <1>4, <1>5

(* What the transaction is to make of the parent is settled: the end of a  *)
(* sweep, the recount, pause and resume.                                   *)
LEMMA MarkGood ==
  ASSUME Types, NEW c \in Client, Good(c), txn[c].at \in AtParent,
         NEW mark \in Statuses, NEW at \in {"recount", "commit"},
         txn' = [txn EXCEPT ![c].at = at, ![c].mark = mark],
         UNCHANGED <<row, parent, itemLock, parentLock, held>>,
         at = "recount" => mark = "disabled" /\ Swept(c),
         mark \notin Controlled \cup {"pending"} =>
           mark = Derived(txn[c].task, "processing", [i \in Item |-> Seen(c, i)]),
         mark \in {"cancelled", "disabled"} =>
           mark = parent[txn[c].task] \/ Swept(c)
  PROVE  Types' /\ Frame(c) /\ Good(c)'
<1> DEFINE t == txn[c].task
           r == [i \in Item |-> Seen(c, i)]
<1>1. txn[c] \in Txn /\ mark # NoOne
  BY LocksAssumption DEF Types
<1>2. /\ txn' \in [Client -> Txn]
      /\ \A d \in Client \ {c} : txn'[d] = txn[d]
      /\ txn'[c].op = txn[c].op /\ txn'[c].at = at
      /\ txn'[c].item = txn[c].item /\ txn'[c].task = t
      /\ txn'[c].todo = txn[c].todo /\ txn'[c].draft = txn[c].draft
      /\ txn'[c].mark = mark
  BY <1>1 DEF Types, Txn, Steps
<1>3. Types' /\ Frame(c)
  <2>1. /\ itemLock' \in [Item -> Client \cup {NoOne}]
        /\ parentLock' \in [Task -> Client \cup {NoOne}]
    BY DEF Types
  <2> QED BY <1>2, <2>1, OwnStep
<1>4. Placed(c)' /\ Holds(c)'
  BY <1>2 DEF Good, Placed, Holds, AtParent
<1>5. Drafted(c)'
  BY <1>2 DEF Good, Drafted
<1>6. \A i \in Item : Seen(c, i)' = Seen(c, i)
  BY <1>2 DEF Seen
<1>7. Swept(c)' <=> Swept(c)
  BY <1>2, <1>6 DEF Swept, ItemsOf
<1>8. Derived(t, "processing", r)' = Derived(t, "processing", r)
  BY <1>2, <1>6 DEF Derived, ItemsOf
<1>9. Marked(c)'
  BY <1>1, <1>2, <1>7, <1>8 DEF Marked
<1> QED BY <1>3, <1>4, <1>5, <1>9 DEF Good

LEMMA SettleGood ==
  ASSUME Types, NEW c \in Client, Good(c),
         SweepEnds(c) \/ Recount(c) \/ SetStatus(c)
  PROVE  Types' /\ Frame(c) /\ Good(c)'
<1> DEFINE t == txn[c].task
           r == [i \in Item |-> Seen(c, i)]
<1>1. CASE SweepEnds(c)
  <2> DEFINE mark == IF txn[c].op = "abort" THEN "cancelled" ELSE "disabled"
             at == IF txn[c].op = "abort" THEN "commit" ELSE "recount"
  <2>1. /\ txn[c].at \in AtParent /\ mark \in Statuses
        /\ at \in {"recount", "commit"}
        /\ UNCHANGED <<row, parent, itemLock, parentLock, held>>
    BY <1>1 DEF SweepEnds, AtParent, Statuses, Controlled
  <2>2. txn' = [txn EXCEPT ![c].at = at, ![c].mark = mark]
    BY <1>1 DEF SweepEnds
  <2>3. Swept(c)
    BY <1>1 DEF SweepEnds, Good, Marked, Swept
  <2>4. (at = "recount" => mark = "disabled") /\ mark \in Controlled
    BY DEF Controlled
  <2> HIDE DEF mark, at
  <2> QED BY <2>1, <2>2, <2>3, <2>4, MarkGood
<1>2. CASE Recount(c)
  <2> DEFINE s == SeenStatus(c, t)
             mark == Derived(t, s, r)
  <2>1. /\ txn[c].at = "recount" /\ "recount" \in AtParent /\ t \in Task
        /\ UNCHANGED <<row, parent, itemLock, parentLock, held>>
    BY <1>2 DEF Recount, AtParent, Good, Placed
  <2>2. s \in Statuses
    BY <2>1 DEF SeenStatus, Types, Txn
  <2>3. /\ mark \in Statuses
        /\ s \in Controlled => mark = s
        /\ s \notin Controlled => /\ mark = Derived(t, "processing", r)
                                  /\ mark \notin Controlled
    <3> HIDE DEF s, r
    <3> QED BY <2>1, <2>2, DerivedStatus
  <2>4. txn' = [txn EXCEPT ![c].at = "commit", ![c].mark = mark]
    BY <1>2 DEF Recount
  <2>5. s = parent[t] \/ (s = "disabled" /\ Swept(c))
    BY <2>1 DEF SeenStatus, Good, Marked
  <2>6. mark \in {"cancelled", "disabled"} => mark = parent[t] \/ Swept(c)
    <3>1. {"cancelled", "disabled"} \subseteq Controlled
      BY DEF Controlled
    <3> HIDE DEF mark, s
    <3> QED BY <2>3, <2>5, <3>1
  <2> HIDE DEF mark, s
  <2> QED BY <2>1, <2>3, <2>4, <2>6, MarkGood
<1>3. CASE SetStatus(c)
  <2> DEFINE mark == IF txn[c].op = "pause" THEN "paused" ELSE "pending"
  <2>1. /\ txn[c].at \in AtParent /\ mark \in Statuses
        /\ mark \in Controlled \cup {"pending"}
        /\ mark \notin {"cancelled", "disabled"}
        /\ UNCHANGED <<row, parent, itemLock, parentLock, held>>
    BY <1>3 DEF SetStatus, AtParent, Statuses, Controlled, Runnable
  <2>2. txn' = [txn EXCEPT ![c].at = "commit", ![c].mark = mark]
    BY <1>3 DEF SetStatus
  <2> HIDE DEF mark
  <2> QED BY <2>1, <2>2, MarkGood
<1> QED BY <1>1, <1>2, <1>3

(* A commit writes what its transaction sees of the items it has locked,   *)
(* all of one task, and that task's status.                                *)
LEMMA CommitWrites ==
  ASSUME Types, NEW c \in Client, Good(c), Commit(c)
  PROVE  /\ txn[c] \in Txn /\ txn[c].task \in Task /\ txn[c].mark \in Statuses
         /\ parentLock[txn[c].task] = c
         /\ row' = [i \in Item |-> Seen(c, i)] /\ row' \in [Item -> Rows]
         /\ \A i \in Item : Legal(row[i], row'[i])
         /\ \A i \in Item : (itemLock[i] # c \/ TaskOf[i] # txn[c].task) =>
                               row'[i] = row[i]
         /\ parent' = [parent EXCEPT ![txn[c].task] = txn[c].mark]
<1>1. /\ txn[c] \in Txn /\ txn[c].task \in Task /\ txn[c].mark \in Statuses
      /\ parentLock[txn[c].task] = c
  BY DEF Types, Txn, Commit, Good, Placed, Marked, AtParent
<1>2. row' = [i \in Item |-> Seen(c, i)]
  BY DEF Commit
<1>8. parent' = [parent EXCEPT ![txn[c].task] = txn[c].mark]
  BY DEF Commit
<1>3. \A i \in Item : /\ Seen(c, i) \in Rows
                      /\ Legal(row[i], Seen(c, i))
                      /\ (itemLock[i] # c \/ TaskOf[i] # txn[c].task) =>
                            Seen(c, i) = row[i]
  BY <1>1 DEF Seen, Types, Txn, Good, Drafted, Legal
<1>4. \A i \in Item : row'[i] = Seen(c, i)
  BY <1>2
<1>5. row' \in [Item -> Rows]
  BY <1>2, <1>3
<1>6. \A i \in Item : Legal(row[i], row'[i])
  BY <1>3, <1>4
<1>7. \A i \in Item : (itemLock[i] # c \/ TaskOf[i] # txn[c].task) =>
                        row'[i] = row[i]
  BY <1>3, <1>4
<1> QED BY <1>1, <1>2, <1>5, <1>6, <1>7, <1>8

LEMMA CommitGood ==
  ASSUME Types, NEW c \in Client, Good(c), Commit(c)
  PROVE  Types' /\ Frame(c) /\ Good(c)'
<1> USE DEF Release
<1>1. \A d \in Client : d # NoOne
  BY LocksAssumption
<1>2. Release(c)
  BY DEF Commit
<1>3. /\ txn[c].task \in Task /\ txn[c].mark \in Statuses
      /\ parentLock[txn[c].task] = c
      /\ row' \in [Item -> Rows]
      /\ \A i \in Item : (itemLock[i] # c \/ TaskOf[i] # txn[c].task) =>
                            row'[i] = row[i]
      /\ parent' = [parent EXCEPT ![txn[c].task] = txn[c].mark]
  BY CommitWrites
<1>4. held' \in [Worker -> Lease \cup {NoOne}]
  <2>1. CASE c \in Admin
    BY <2>1 DEF Commit, Types
  <2>2. CASE c \notin Admin /\ txn[c].op = "claim"
    <3>1. txn[c].item \in Item /\ row'[txn[c].item].epoch \in Nat
      BY <1>3, <2>2 DEF Good, Placed, Rows
    <3>2. held' = [held EXCEPT ![c] = [item |-> txn[c].item,
                                       epoch |-> row'[txn[c].item].epoch]]
      BY <2>2 DEF Commit
    <3>3. [item |-> txn[c].item, epoch |-> row'[txn[c].item].epoch] \in Lease
      BY <3>1 DEF Lease
    <3> QED BY <3>2, <3>3 DEF Types
  <2>3. CASE c \notin Admin /\ txn[c].op # "claim"
    BY <2>3 DEF Commit, Types
  <2> QED BY <2>1, <2>2, <2>3
<1>5. Types'
  <2>1. /\ parent' \in [Task -> Statuses] /\ txn' \in [Client -> Txn]
        /\ itemLock' \in [Item -> Client \cup {NoOne}]
        /\ parentLock' \in [Task -> Client \cup {NoOne}]
    BY <1>2, <1>3, IdleTxn DEF Types
  <2> QED BY <1>3, <1>4, <2>1 DEF Types
<1>6. Frame(c)
  <2> SUFFICES ASSUME NEW d \in Client \ {c}
               PROVE  /\ txn'[d] = txn[d]
                      /\ \A i \in Item :
                           /\ (itemLock'[i] = d) <=> (itemLock[i] = d)
                           /\ itemLock[i] = d => row'[i] = row[i]
                      /\ \A t \in Task :
                           /\ (parentLock'[t] = d) <=> (parentLock[t] = d)
                           /\ parentLock[t] = d =>
                                /\ parent'[t] = parent[t]
                                /\ \A i \in ItemsOf(t) : row'[i] = row[i]
    BY DEF Frame
  <2>1. txn'[d] = txn[d]
    BY <1>2 DEF Types
  <2>2. \A i \in Item : /\ (itemLock'[i] = d) <=> (itemLock[i] = d)
                        /\ itemLock[i] = d => row'[i] = row[i]
    <3>1. \A i \in Item : /\ (itemLock'[i] = d) <=> (itemLock[i] = d)
                          /\ itemLock[i] = d => itemLock[i] # c
      BY <1>1, <1>2
    <3> QED BY <1>3, <3>1
  <2>3. ASSUME NEW t \in Task
        PROVE  /\ (parentLock'[t] = d) <=> (parentLock[t] = d)
               /\ parentLock[t] = d =>
                    /\ parent'[t] = parent[t]
                    /\ \A i \in ItemsOf(t) : row'[i] = row[i]
    <3>1. (parentLock'[t] = d) <=> (parentLock[t] = d)
      BY <1>1, <1>2
    <3>2. ASSUME parentLock[t] = d
          PROVE  /\ parent'[t] = parent[t]
                 /\ \A i \in ItemsOf(t) : row'[i] = row[i]
      <4>1. t # txn[c].task
        BY <1>3, <3>2
      <4> QED BY <1>3, <4>1 DEF Types, ItemsOf
    <3> QED BY <3>1, <3>2
  <2> QED BY <2>1, <2>2, <2>3
<1>7. txn'[c] = Idle /\ (\A i \in Item : itemLock'[i] # c)
        /\ (\A t \in Task : parentLock'[t] # c)
  BY <1>1, <1>2 DEF Types
<1>8. \A i \in Item : Idle.draft[i] = NoOne
  BY DEF Idle, Fresh, NoDraft
<1>9. Good(c)'
  BY <1>7, <1>8
     DEF Good, Placed, Holds, Drafted, Marked, Idle, Fresh, AtParent
<1> QED BY <1>5, <1>6, <1>9
-----------------------------------------------------------------------------
StepOf(c) == \/ c \in Worker /\ WorkerStep(c)
             \/ c \in Admin /\ AdminStep(c)
             \/ Advance(c)

LEMMA StepsOfClients ==
  ASSUME Next
  PROVE  \E c \in Client : StepOf(c)
BY DEF Next, StepOf, Client

LEMMA StepGood ==
  ASSUME Types, NEW c \in Client, Good(c), StepOf(c)
  PROVE  Types' /\ Frame(c) /\ Good(c)'
<1>1. ASSUME Rollback(c), held' \in [Worker -> Lease \cup {NoOne}]
      PROVE  Types' /\ Frame(c) /\ Good(c)'
  BY <1>1, RollbackGood
<1>2. held \in [Worker -> Lease \cup {NoOne}]
  BY DEF Types
<1>3. CASE c \in Worker /\ (LoseLease(c) \/ Drop(c))
  <2>1. Rollback(c) /\ held' = [held EXCEPT ![c] = NoOne]
    BY <1>3 DEF LoseLease, Drop
  <2>2. held' \in [Worker -> Lease \cup {NoOne}]
    BY <1>2, <2>1
  <2> QED BY <1>1, <2>1, <2>2
<1>4. CASE Refuse(c) \/ Victim(c)
  BY <1>1, <1>2, <1>4 DEF Refuse, Victim
<1>5. CASE c \in Worker /\ (BeginClaim(c) \/ BeginRecover(c))
  BY <1>5, ClaimGood
<1>6. CASE c \in Worker /\ \E o \in Outcomes : BeginFinalize(c, o)
  BY <1>6, BeginGood
<1>7. CASE c \in Worker /\ LockItem(c)
  BY <1>7, ItemGood
<1>8. CASE c \in Admin /\ BeginAdmin(c)
  BY <1>8, BeginGood
<1>9. CASE LockParent(c)
  BY <1>9, ParentGood
<1>10. CASE \E i \in Item : SweepRow(c, i)
  BY <1>10, SweepGood
<1>11. CASE SweepEnds(c) \/ Recount(c) \/ SetStatus(c)
  BY <1>11, SettleGood
<1>12. CASE Commit(c)
  BY <1>12, CommitGood
<1> QED BY <1>3, <1>4, <1>5, <1>6, <1>7, <1>8, <1>9, <1>10, <1>11, <1>12
        DEF StepOf, WorkerStep, AdminStep, Advance

(* Only a commit writes rows.                                              *)
LEMMA StepWrites ==
  ASSUME NEW c \in Client, StepOf(c)
  PROVE  Commit(c) \/ UNCHANGED <<row, parent>>
BY DEF StepOf, WorkerStep, AdminStep, Advance, BeginClaim, BeginRecover,
       BeginFinalize, LockItem, LoseLease, Recount, Drop, BeginAdmin,
       SetStatus, Refuse, LockParent, SweepRow, SweepEnds, Victim, Rollback

LEMMA AllGood ==
  ASSUME Types, \A c \in Client : Good(c), [Next]_vars
  PROVE  Types' /\ \A c \in Client : Good(c)'
<1>1. CASE UNCHANGED vars
  <2>1. Types'
    BY <1>1 DEF vars, Types
  <2>2. ASSUME NEW c \in Client PROVE Good(c)'
    <3>1. CASE \E d \in Client : d # c
      <4>1. PICK d \in Client : d # c
        BY <3>1
      <4>2. Frame(d)
        BY <1>1 DEF vars, Frame
      <4> QED BY <2>1, <4>1, <4>2, GoodKept
    <3>2. Good(c)
      OBVIOUS
    <3> QED BY <1>1, <3>2
         DEF vars, Good, Placed, Holds, Drafted, Marked, Swept, Seen
  <2> QED BY <2>1, <2>2
<1>2. CASE Next
  <2>1. PICK c \in Client : StepOf(c)
    BY <1>2, StepsOfClients
  <2>2. Types' /\ Frame(c) /\ Good(c)'
    BY <2>1, StepGood
  <2>3. ASSUME NEW d \in Client, d # c PROVE Good(d)'
    BY <2>2, <2>3, GoodKept
  <2> QED BY <2>2, <2>3
<1> QED BY <1>1, <1>2

(* TypeOK, the invariant of the runs, is part of what the clients keep.    *)
LEMMA TypesSuffice == Types /\ (\A c \in Client : Good(c)) => TypeOK
<1> SUFFICES ASSUME Types, \A c \in Client : Good(c)
             PROVE  TypeOK
  OBVIOUS
<1>1. ASSUME NEW c \in Client
      PROVE  /\ txn[c].at \in Steps
             /\ txn[c].at = "idle" <=> txn[c] = Idle
             /\ \A i \in Item : txn[c].draft[i] # NoOne =>
                  txn[c].draft[i] \in Rows /\ itemLock[i] = c
             /\ txn[c].mark # NoOne => parentLock[txn[c].task] = c
  <2>1. txn[c] \in Txn /\ Good(c)
    BY DEF Types
  <2>2. txn[c].at \in Steps
    BY <2>1 DEF Txn
  <2>3. txn[c].at = "idle" <=> txn[c] = Idle
    BY <2>1 DEF Good, Placed, Idle, Fresh
  <2>4. \A i \in Item : txn[c].draft[i] # NoOne =>
          txn[c].draft[i] \in Rows /\ itemLock[i] = c
    BY <2>1 DEF Txn, Good, Drafted
  <2>5. txn[c].mark # NoOne => parentLock[txn[c].task] = c
    BY <2>1 DEF Good, Placed, Marked, AtParent
  <2> QED BY <2>2, <2>3, <2>4, <2>5
<1> QED BY <1>1 DEF TypeOK, Types, Steps

(* A commit leaves its task's status derived from its items, and the other *)
(* tasks' alone.                                                           *)
LEMMA CommitDerives ==
  ASSUME Types, NEW c \in Client, Good(c), Commit(c), ParentDerived,
         NEW t \in Task
  PROVE  parent'[t] \notin Controlled \cup {"pending"} =>
           parent'[t] = Derived(t, "processing", row')
<1>1. CASE t = txn[c].task
  <2> DEFINE r == [i \in Item |-> Seen(c, i)]
  <2>1. parent'[t] = txn[c].mark /\ row' = r
    BY <1>1, CommitWrites DEF Types
  <2>2. txn[c].mark \notin Controlled \cup {"pending"} =>
          txn[c].mark = Derived(t, "processing", r)
    BY <1>1 DEF Good, Marked, Commit
  <2> HIDE DEF r
  <2> QED BY <2>1, <2>2
<1>2. CASE t # txn[c].task
  <2>1. parent'[t] = parent[t] /\ \A i \in ItemsOf(t) : row'[i] = row[i]
    BY <1>2, CommitWrites DEF Types, ItemsOf
  <2>2. Derived(t, "processing", row') = Derived(t, "processing", row)
    BY <2>1, DerivedOf
  <2> QED BY <2>1, <2>2 DEF ParentDerived
<1> QED BY <1>1, <1>2

LEMMA ParentKept ==
  ASSUME LocksInv, [Next]_vars
  PROVE  ParentDerived'
<1>1. TypeOK'
  <2>1. (Types /\ \A c \in Client : Good(c))'
    BY AllGood DEF LocksInv
  <2> QED BY <2>1, TypesSuffice, PTL
<1>2. CASE UNCHANGED <<row, parent>>
  BY <1>1, <1>2 DEF LocksInv, ParentDerived, Derived
<1>3. CASE Next /\ ~UNCHANGED <<row, parent>>
  <2>1. PICK c \in Client : Commit(c)
    BY <1>3, StepsOfClients, StepWrites
  <2> QED BY <1>1, <2>1, CommitDerives DEF LocksInv, ParentDerived, Derived
<1> QED BY <1>2, <1>3 DEF vars
-----------------------------------------------------------------------------
(* The invariant holds in every state.                                     *)
THEOREM LocksInvariant == Spec => []LocksInv
<1>1. Init => LocksInv
  <2> SUFFICES ASSUME Init PROVE LocksInv
    OBVIOUS
  <2>1. Types /\ \A c \in Client : Good(c)
    BY Rooted
  <2>2. ParentDerived
    BY <2>1, TypesSuffice DEF Init, ParentDerived
  <2> QED BY <2>1, <2>2 DEF LocksInv
<1>2. LocksInv /\ [Next]_vars => LocksInv'
  BY AllGood, ParentKept DEF LocksInv
<1> QED BY <1>1, <1>2, PTL DEF Spec

(* Whatever transactions overlap, a committed parent is derived from its   *)
(* committed items (recomputeParentTask), and uncommitted rows are locked. *)
THEOREM ParentIsDerived == Spec => []ParentDerived
<1>1. LocksInv => ParentDerived
  BY DEF LocksInv
<1> QED BY <1>1, LocksInvariant, PTL

(* No update is lost: a committed row moves along its lifecycle, one lease *)
(* at a time, however the statements of its writers interleave.            *)
THEOREM RowsAreSerial == Spec => RowsSerial
<1>1. LocksInv /\ [Next]_vars =>
        [\A i \in Item : Legal(row[i], row'[i])]_vars
  <2> SUFFICES ASSUME LocksInv, Next PROVE \A i \in Item : Legal(row[i], row'[i])
    OBVIOUS
  <2>1. CASE UNCHANGED <<row, parent>>
    BY <2>1 DEF Legal
  <2>2. CASE ~UNCHANGED <<row, parent>>
    <3>1. PICK c \in Client : Commit(c)
      BY <2>2, StepsOfClients, StepWrites
    <3> QED BY <3>1, CommitWrites DEF LocksInv
  <2> QED BY <2>1, <2>2
<1> QED BY <1>1, LocksInvariant, PTL DEF Spec, RowsSerial

(* An abort or a hold leaves no item of its task pending, whatever rows    *)
(* other transactions had locked when its sweep began.                     *)
THEOREM SweepsAreComplete == Spec => SweepIsComplete
<1>1. LocksInv /\ [Next]_vars =>
        [\A t \in Task :
           parent'[t] \in {"cancelled", "disabled"} /\ parent'[t] # parent[t] =>
             \A i \in ItemsOf(t) : row'[i].status # "pending"]_vars
  <2> SUFFICES ASSUME LocksInv, Next, NEW t \in Task,
                      parent'[t] \in {"cancelled", "disabled"},
                      parent'[t] # parent[t]
               PROVE  \A i \in ItemsOf(t) : row'[i].status # "pending"
    OBVIOUS
  <2>1. PICK c \in Client : Commit(c)
    BY StepsOfClients, StepWrites
  <2>2. /\ row' = [i \in Item |-> Seen(c, i)]
        /\ parent' = [parent EXCEPT ![txn[c].task] = txn[c].mark]
    BY <2>1, CommitWrites DEF LocksInv
  <2>3. txn[c].task = t /\ txn[c].mark = parent'[t]
    BY <2>2 DEF LocksInv, Types
  <2>4. Swept(c)
    BY <2>1, <2>3 DEF LocksInv, Good, Marked, Commit
  <2> QED BY <2>2, <2>3, <2>4 DEF Swept, ItemsOf
<1> QED BY <1>1, LocksInvariant, PTL DEF Spec, SweepIsComplete

(* Transactions that wait on each other in a circle include the sweep of   *)
(* an abort or a hold: without one, someone holds a parent and waits for   *)
(* nothing, or everyone waits for parents that nobody holds.               *)
LEMMA WaitsForHolders ==
  ASSUME LocksInv, NEW c \in Client, txn[c].at # "sweep",
         Blockers(c) # {}, Blockers(c) \subseteq Client
  PROVE  /\ txn[c].at \in {"item", "parent"}
         /\ \A i \in Item : txn[c].at = "item" => itemLock[i] # c
         /\ \A t \in Task : parentLock[t] # c
         /\ \A d \in Blockers(c) :
              \/ txn[c].at = "item" /\ \E i \in Item : itemLock[i] = d
              \/ txn[c].at = "parent" /\ \E t \in Task : parentLock[t] = d
<1>1. txn[c].at \in {"item", "parent"}
  BY DEF Blockers
<1>2. Good(c)
  BY DEF LocksInv
<1>3. /\ \A i \in Item : txn[c].at = "item" => itemLock[i] # c
      /\ \A t \in Task : parentLock[t] # c
  BY <1>1, <1>2 DEF Good, Holds, AtParent
<1>4. CASE txn[c].at = "item"
  <2>1. Blockers(c) \subseteq {itemLock[txn[c].item]} /\ txn[c].item \in Item
    BY <1>2, <1>4 DEF Blockers, Good, Placed
  <2> QED BY <1>3, <1>4, <2>1
<1>5. CASE txn[c].at = "parent"
  <2>1. Blockers(c) \subseteq {parentLock[txn[c].task]} /\ txn[c].task \in Task
    BY <1>2, <1>5 DEF Blockers, Good, Placed
  <2> QED BY <1>3, <1>5, <2>1
<1> QED BY <1>1, <1>4, <1>5

THEOREM SweepsAloneDeadlock == Spec => []OnlySweepsDeadlock
<1>1. LocksInv => OnlySweepsDeadlock
  <2> SUFFICES ASSUME LocksInv, NEW S \in SUBSET Client, S # {},
                      \A c \in S : Blockers(c) # {} /\ Blockers(c) \subseteq S
               PROVE  \E c \in S : txn[c].at = "sweep"
                                    /\ txn[c].op \in {"abort", "hold"}
    BY DEF OnlySweepsDeadlock
  <2> SUFFICES ASSUME \A c \in S : txn[c].at # "sweep"
               PROVE  FALSE
    <3>1. \A c \in Client : txn[c].at = "sweep" => txn[c].op \in {"abort", "hold"}
      BY DEF LocksInv, Good, Placed
    <3> QED BY <3>1
  <2>1. \A c \in S : c \in Client /\ Blockers(c) \subseteq Client
    OBVIOUS
  <2>2. \A c \in S : txn[c].at \in {"item", "parent"}
                     /\ \A t \in Task : parentLock[t] # c
    BY <2>1, WaitsForHolders
  <2>3. \A c \in S : txn[c].at # "parent"
    BY <2>1, <2>2, WaitsForHolders
  <2>4. \A c \in S : \A i \in Item : itemLock[i] # c
    BY <2>1, <2>2, <2>3, WaitsForHolders
  <2>5. \E c : c \in S
    OBVIOUS
  <2> QED BY <2>1, <2>2, <2>3, <2>4, <2>5, WaitsForHolders
<1> QED BY <1>1, LocksInvariant, PTL
-----------------------------------------------------------------------------
(* ContentPipeline: what a transaction knows from the statement it is at,  *)
(* and what the rows of novels and batches say of each other.              *)

(* Where the transaction of each kind can be.                              *)
Staged(p) ==
  /\ tx[p].kind = "none" => tx[p] = NoTxn
  /\ tx[p].kind = "enumerate" =>
       tx[p].at \in {"snapshot", "children", "commit", "fallback"}
  /\ tx[p].kind = "materialize" =>
       tx[p].at \in {"read", "slug", "create", "link", "commit", "fallback"}
  /\ tx[p].kind = "generate" =>
       tx[p].at \in {"lock", "article", "insert", "commit", "fallback"}
  /\ tx[p].kind = "move" => tx[p].at \in {"move", "check", "commit"}
  /\ tx[p].at = "fallback" => tx[p].batch \in Batch

(* Counted of what is planned: what is still to do or has been made.       *)
Submitted(p) ==
  {s \in tx[p].plan : Group[s] \in tx[p].todo \cup tx[p].made}

Planned(p) ==
  LET t == tx[p] IN
  /\ t.todo \cup t.made \subseteq {Group[s] : s \in t.plan}
  /\ \A g \in t.made, h \in t.todo : g < h
  /\ t.at = "commit" => t.todo = {}
  /\ t.counts.submitted = Cardinality(Submitted(p))
  /\ t.counts.blocked = 0 => t.counts.submitted = Cardinality(t.plan)
  /\ t.counts.linked + t.counts.submitted + t.counts.blocked + t.counts.ineligible =
       IF Kind[t.batch] = "materialize" THEN Cardinality(Selection[t.batch])
       ELSE Cardinality(t.plan)
  /\ Kind[t.batch] = "materialize" /\ t.counts.blocked = 0 =>
       \A s \in Selection[t.batch] \ linked :
         s \in t.plan \/ (fitness[s] # "fit" /\ t.counts.ineligible > 0)

EnumerationTrue(p) ==
  tx[p].kind = "enumerate" =>
    /\ tx[p].batch \in Batch /\ tx[p].source = NoSource
    /\ Kind[tx[p].batch] # "generate"
    /\ batchTask[tx[p].batch].status = "processing"
    /\ tx[p].at = "snapshot" => tx[p].made = {}
    /\ tx[p].at \in {"children", "commit"} => Planned(p)

(* An item's transaction has its item; an inline one has no batch.         *)
ItemHeld(p) ==
  /\ tx[p].kind \in {"materialize", "generate", "move"} =>
       tx[p].source \in Source
  /\ tx[p].kind = "move" => tx[p].batch = NoBatch
  /\ tx[p].kind \in {"materialize", "generate"} /\ tx[p].batch # NoBatch =>
       /\ tx[p].batch \in Batch
       /\ item[tx[p].batch][tx[p].source] = "processing"
       /\ Kind[tx[p].batch] = "materialize" <=> tx[p].kind = "materialize"

Exhausted(s) == FreeSlugs(Title[s]) = {}

(* It has a novel, or has been unfit, or its title is out of slugs, or     *)
(* another source item of the title has a novel of its own now.            *)
Caused(s) ==
  \/ s \in linked
  \/ fitness[s] # "fit"
  \/ Exhausted(s)
  \/ \E t \in linked \ Linked0 : t # s /\ Title[t] = Title[s]

WriterTrue(p) ==
  /\ tx[p].kind = "materialize" =>
       /\ tx[p].at \in {"create", "link", "commit"} => tx[p].slug \in SlugNo
       /\ tx[p].at = "create" =>
            ~ \E t \in Linked0 : Title[t] = Title[tx[p].source] /\ tx[p].slug = 1
       /\ tx[p].at = "commit" => tx[p].source \notin linked
       /\ tx[p].at = "fallback" => Caused(tx[p].source)
  /\ tx[p].kind = "generate" /\ tx[p].at \in {"article", "insert", "commit"} =>
       tx[p].source \in linked
  /\ tx[p].kind = "move" /\ tx[p].at \in {"check", "commit"} =>
       tx[p].to \in linked

Sorted(p) == tx[p].todo \cap tx[p].made = {}

TxTrue(p) ==
  Staged(p) /\ Sorted(p) /\ EnumerationTrue(p) /\ ItemHeld(p) /\ WriterTrue(p)

(* No two transactions are for one item or enumeration, no two have linked *)
(* one source item, and no two are generating for one novel.               *)
AtNovel == {"article", "insert", "commit"}

TxApart(p, q) ==
  /\ tx[p].batch # NoBatch /\ tx[p].batch = tx[q].batch =>
       tx[p].source # tx[q].source
  /\ tx[p].kind = "materialize" /\ tx[p].at = "commit"
     /\ tx[q].kind = "materialize" /\ tx[q].at = "commit" =>
       tx[p].source # tx[q].source
  /\ tx[p].kind = "generate" /\ tx[p].at \in AtNovel
     /\ tx[q].kind = "generate" /\ tx[q].at \in AtNovel =>
       tx[p].source # tx[q].source

NovelsTrue ==
  /\ Linked0 \subseteq linked
  /\ \A s \in Source :
       /\ s \notin linked \ Linked0 => novels[s] = {}
       /\ s \in linked \ Linked0 => \E n \in SlugNo : novels[s] = {n}

ItemSettled(b, s) ==
  /\ item[b][s] = "success" => s \in linked
  /\ item[b][s] = "skipped" => s \in linked \/ b \in expired
  /\ item[b][s] = "failed" => Caused(s)

(* A batch has items from the commit of its enumeration on.                *)
BatchTrue(b) ==
  /\ Kind[b] = "generate" => batchTask[b].status \notin Open
  /\ b \in demand.batches => batchTask[b].status = "none"
  /\ batchTask[b].status \in {"none", "pending", "processing"} =>
       batchTask[b].enum = "none"
  /\ batchTask[b].enum # "completed" => \A s \in Source : item[b][s] = "none"
  /\ batchTask[b].enum = "completed" =>
       LET c == batchTask[b].counts IN
       /\ c.submitted = Cardinality({s \in Source : item[b][s] # "none"})
       /\ Kind[b] # "generate_all" =>
            c.linked + c.submitted + c.blocked + c.ineligible =
              Cardinality(Selection[b])
       /\ Kind[b] = "materialize" /\ c.blocked = 0 =>
            \A s \in Selection[b] \ linked :
              item[b][s] # "none" \/ (fitness[s] # "fit" /\ c.ineligible > 0)
  /\ Kind[b] = "materialize" => \A s \in Source : ItemSettled(b, s)

Enumerations == [status : ItemStatus, enum : {"none", "completed", "expired"},
                 counts : Tallies]
Transactions ==
  [at : Phase0, kind : {"none", "enumerate", "materialize", "generate", "move"},
   batch : Batch \cup {NoBatch}, source : Source \cup {NoSource},
   to : Source \cup {NoSource}, slug : SlugNo \cup {0}, plan : SUBSET Source,
   todo : SUBSET Groups, active : SUBSET Groups, made : SUBSET Groups,
   counts : Tallies]

Asked == [batches : SUBSET Batch, inline : SUBSET Inline,
          changes : SUBSET Source, slugs : SlugNo]
Fitness == {"fit", "unfit", "again"}

PipeTypes ==
  /\ novels \in [Source -> SUBSET SlugNo]
  /\ linked \subseteq Source /\ articles \subseteq linked
  /\ batchTask \in [Batch -> Enumerations]
  /\ item \in [Batch -> [Source -> ItemStatus]]
  /\ expired \subseteq Batch
  /\ demand \in Asked
  /\ fitness \in [Source -> Fitness]
  /\ tx \in [Proc -> Transactions]
  /\ mishaps \in 0..MaxMishaps

PipeInv ==
  /\ PipeTypes /\ NovelsTrue
  /\ \A b \in Batch : BatchTrue(b)
  /\ \A p \in Proc : TxTrue(p)
  /\ \A p, q \in Proc : p # q => TxApart(p, q)
-----------------------------------------------------------------------------
(* Numbers and sets.                                                       *)
LEMMA SourcesCount ==
  /\ Cardinality(Source) \in Nat
  /\ \A S \in SUBSET Source :
       IsFiniteSet(S) /\ Cardinality(S) \in 0..Cardinality(Source)
<1>1. IsFiniteSet(Source) /\ Cardinality(Source) \in Nat
  BY FS_CardinalityType, PipelineAssumption
<1>2. ASSUME NEW S \in SUBSET Source
      PROVE  IsFiniteSet(S) /\ Cardinality(S) \in 0..Cardinality(Source)
  <2>1. IsFiniteSet(S) /\ Cardinality(S) <= Cardinality(Source)
    BY <1>1, FS_Subset
  <2>2. Cardinality(S) \in Nat
    BY <2>1, FS_CardinalityType
  <2> QED BY <1>1, <2>1, <2>2
<1> QED BY <1>1, <1>2

LEMMA PartsAddUp ==
  ASSUME NEW S \in SUBSET Source, NEW T \in SUBSET Source, S \cap T = {}
  PROVE  Cardinality(S \cup T) = Cardinality(S) + Cardinality(T)
<1>1. IsFiniteSet(S) /\ IsFiniteSet(T)
  BY SourcesCount
<1>2. Cardinality(S \cup T) = Cardinality(S) + Cardinality(T) - Cardinality({})
  BY <1>1, FS_Union
<1>3. Cardinality(S) \in Nat /\ Cardinality(T) \in Nat
  BY <1>1, FS_CardinalityType
<1> QED BY <1>2, <1>3, FS_EmptySet

LEMMA LeastOf ==
  ASSUME NEW T \in SUBSET Nat, T # {}
  PROVE  \E x \in T : \A y \in T : x <= y
<1> DEFINE R == {p \in Nat \X Nat : p[1] < p[2]}
<1>1. IsWellFoundedOn(R, Nat)
  BY Zenon, NatLessThanWellFounded DEF OpToRel
<1>2. \A x, y \in Nat : <<y, x>> \in R <=> y < x
  OBVIOUS
<1> HIDE DEF R
<1>3. PICK x \in T : \A y \in T : <<y, x>> \notin R
  BY <1>1, WFMin
<1>4. ASSUME NEW y \in T PROVE x <= y
  <2>1. x \in Nat /\ y \in Nat /\ ~(y < x)
    BY <1>2, <1>3
  <2> QED BY <2>1
<1> QED BY <1>4

SlugsOf(s) == novels[s] \cup (IF s \in Linked0 THEN {1} ELSE {})

LEMMA TakenIs ==
  ASSUME NEW title, NEW n
  PROVE  n \in Taken(title) <=>
           \E s \in Source : Title[s] = title /\ n \in SlugsOf(s)
BY DEF Taken, SlugsOf

(* A slug that is picked is to be had.                                     *)
LEMMA SlugIsFree ==
  ASSUME demand.slugs \in Nat, NEW title, FreeSlugs(title) # {}
  PROVE  resolveUniqueSlug(title) \in SlugNo \ Taken(title)
<1>1. FreeSlugs(title) \subseteq SlugNo \ Taken(title) /\ SlugNo \subseteq Nat
  BY DEF FreeSlugs, SlugNo
<1> DEFINE S == FreeSlugs(title)
<1> HIDE DEF S
<1>2. \E x \in S : \A y \in S : x <= y
  BY <1>1, LeastOf DEF S
<1>3. Min(S) \in S
  BY <1>2 DEF Min
<1> QED BY <1>1, <1>3 DEF S, resolveUniqueSlug
-----------------------------------------------------------------------------
(* What a step leaves alone.                                               *)
LEMMA TxTypes ==
  ASSUME PipeTypes, NEW p \in Proc
  PROVE  /\ tx[p].at \in Phase0
         /\ tx[p].kind \in {"none", "enumerate", "materialize", "generate", "move"}
         /\ tx[p].batch \in Batch \cup {NoBatch}
         /\ tx[p].source \in Source \cup {NoSource}
         /\ tx[p].to \in Source \cup {NoSource}
         /\ tx[p].slug \in SlugNo \cup {0}
         /\ tx[p].plan \subseteq Source
         /\ tx[p].todo \subseteq Groups /\ tx[p].made \subseteq Groups
         /\ tx[p].active \subseteq Groups
         /\ tx[p].counts \in Tallies
BY DEF PipeTypes, Transactions

LEMMA ZeroTyped == Zero \in Tallies
BY SourcesCount DEF Zero, Tallies

LEMMA NoTxnTyped == NoTxn \in Transactions
BY ZeroTyped DEF NoTxn, Transactions, Phase0

LEMMA GoTypes ==
  ASSUME PipeTypes, NEW p \in Proc, NEW at \in Phase0, Go(p, at)
  PROVE  /\ tx' = [tx EXCEPT ![p] = [tx[p] EXCEPT !.at = at]]
         /\ [tx[p] EXCEPT !.at = at] \in Transactions
<1>1. tx[p] \in Transactions /\ tx \in [Proc -> Transactions]
  BY DEF PipeTypes
<1>2. [tx[p] EXCEPT !.at = at] \in Transactions
  BY <1>1 DEF Transactions
<1> QED BY <1>1, <1>2 DEF Go

\* What has been unfit is never again as it was, and slugs are not given back.
CausesKept == /\ fitness' \in [Source -> Fitness]
              /\ \A s \in Source : fitness[s] # "fit" => fitness'[s] # "fit"
              /\ \A s \in Source : Exhausted(s) => Exhausted(s)'

LEMMA SlugsStayTaken ==
  ASSUME \A u \in Source : novels[u] \subseteq novels'[u],
         demand'.slugs = demand.slugs
  PROVE  \A s \in Source : Exhausted(s) => Exhausted(s)'
<1>1. \A title : Taken(title) \subseteq Taken(title)'
  BY DEF Taken
<1> QED BY <1>1 DEF Exhausted, FreeSlugs

(* What a transaction knows while another takes a step.                    *)
LEMMA OthersKeep ==
  ASSUME NEW q \in Proc, TxTrue(q), tx'[q] = tx[q], linked \subseteq linked',
         CausesKept,
         tx[q].kind = "materialize" /\ tx[q].at = "commit"
           => tx[q].source \notin linked',
         tx[q].kind \in {"materialize", "generate"} /\ tx[q].batch \in Batch
           => item'[tx[q].batch][tx[q].source] = item[tx[q].batch][tx[q].source],
         tx[q].kind = "enumerate" => 
           batchTask'[tx[q].batch].status = batchTask[tx[q].batch].status
  PROVE  TxTrue(q)'
<1>1. Staged(q)' /\ Sorted(q)'
  BY DEF TxTrue, Staged, Sorted
<1>2. EnumerationTrue(q)'
  <2>1. Submitted(q)' = Submitted(q)
    BY DEF Submitted
  <2>2. ASSUME Planned(q), tx[q].batch \in Batch PROVE Planned(q)'
    <3>1. \A s \in Selection[tx[q].batch] \ linked' :
            s \in Source /\ s \in Selection[tx[q].batch] \ linked
      BY <2>2, PipelineAssumption
    <3>2. \A s \in Source : fitness[s] # "fit" => fitness'[s] # "fit"
      BY DEF CausesKept
    <3> QED BY <2>1, <2>2, <3>1, <3>2 DEF Planned
  <2> QED BY <2>2 DEF TxTrue, EnumerationTrue
<1>3. ItemHeld(q)'
  BY DEF TxTrue, ItemHeld
<1>4. WriterTrue(q)'
  BY DEF TxTrue, WriterTrue, ItemHeld, Caused, CausesKept
<1> QED BY <1>1, <1>2, <1>3, <1>4 DEF TxTrue

LEMMA ApartIsMutual ==
  ASSUME NEW p \in Proc, NEW q \in Proc
  PROVE  TxApart(p, q) <=> TxApart(q, p)
BY DEF TxApart

LEMMA ApartKept ==
  ASSUME NEW p \in Proc, NEW q \in Proc, TxApart(p, q),
         tx'[p] = tx[p], tx'[q] = tx[q]
  PROVE  TxApart(p, q)'
BY DEF TxApart

LEMMA BatchKept ==
  ASSUME NEW b \in Batch, BatchTrue(b), linked \subseteq linked', CausesKept,
         expired \subseteq expired', demand'.batches \subseteq demand.batches,
         batchTask'[b] = batchTask[b],
         \A s \in Source :
           /\ item'[b][s] = "none" <=> item[b][s] = "none"
           /\ Kind[b] = "materialize" => ItemSettled(b, s)'
  PROVE  BatchTrue(b)'
<1>1. {s \in Source : item'[b][s] # "none"} = {s \in Source : item[b][s] # "none"}
  OBVIOUS
<1>2. Kind[b] = "materialize" =>
        \A s \in Selection[b] \ linked' :
          item[b][s] # "none" => item'[b][s] # "none"
  BY PipelineAssumption
<1>3. \A s \in Selection[b] \ linked' : s \in Source /\ s \in Selection[b] \ linked
  BY PipelineAssumption
<1> QED BY <1>1, <1>2, <1>3 DEF BatchTrue, CausesKept

LEMMA SettledKept ==
  ASSUME NEW b \in Batch, NEW s \in Source, ItemSettled(b, s),
         linked \subseteq linked', CausesKept, expired \subseteq expired',
         item'[b][s] = item[b][s] \/ item'[b][s] \in Open
  PROVE  ItemSettled(b, s)'
BY DEF ItemSettled, Caused, Open, CausesKept

LEMMA SameContent ==
  ASSUME PipeInv, UNCHANGED content, demand'.slugs = demand.slugs
  PROVE  /\ linked' = linked /\ articles' \subseteq linked'
         /\ novels' \in [Source -> SUBSET SlugNo] /\ NovelsTrue'
         /\ CausesKept
         /\ \A s \in Source : Caused(s) => Caused(s)'
<1>1. /\ linked' = linked /\ articles' \subseteq linked'
      /\ novels' \in [Source -> SUBSET SlugNo] /\ NovelsTrue'
      /\ fitness' = fitness /\ fitness \in [Source -> Fitness]
  BY DEF PipeInv, PipeTypes, NovelsTrue, content
<1>2. CausesKept
  <2>1. \A s \in Source : Exhausted(s) => Exhausted(s)'
    BY SlugsStayTaken DEF content
  <2> QED BY <1>1, <2>1 DEF CausesKept
<1>3. \A s \in Source : Caused(s) => Caused(s)'
  BY <1>1, <1>2 DEF Caused, CausesKept
<1> QED BY <1>1, <1>2, <1>3

(* A step inside a transaction.                                            *)
LEMMA InsideKeeps ==
  ASSUME PipeInv, NEW p \in Proc, NEW t \in Transactions,
         tx' = [tx EXCEPT ![p] = t],
         UNCHANGED <<content, batchTask, item, expired, demand>>,
         mishaps' \in 0..MaxMishaps,
         TxTrue(p)', \A q \in Proc \ {p} : TxApart(p, q)'
  PROVE  PipeInv'
<1>1. tx'[p] = t /\ \A q \in Proc \ {p} : tx'[q] = tx[q]
  BY DEF PipeInv, PipeTypes
<1>2. PipeTypes'
  BY DEF PipeInv, PipeTypes, content
<1>3. NovelsTrue'
  BY DEF PipeInv, NovelsTrue, content
<1>4. ASSUME NEW b \in Batch PROVE BatchTrue(b)'
  <2>1. BatchTrue(b)
    BY DEF PipeInv
  <2> QED BY <2>1, SameContent DEF BatchTrue, ItemSettled, content
<1>5. ASSUME NEW q \in Proc PROVE TxTrue(q)'
  <2>1. CASE q # p
    <3>1. tx'[q] = tx[q] /\ TxTrue(q)
      BY <1>1, <2>1 DEF PipeInv
    <3>2. linked' = linked /\ item' = item /\ batchTask' = batchTask /\ CausesKept
      BY SameContent DEF content
    <3>3. tx[q].kind = "materialize" /\ tx[q].at = "commit"
            => tx[q].source \notin linked'
      BY <3>1, <3>2 DEF TxTrue, WriterTrue
    <3> QED BY <3>1, <3>2, <3>3, OthersKeep
  <2> QED BY <2>1
<1>6. ASSUME NEW q \in Proc, NEW r \in Proc, q # r PROVE TxApart(q, r)'
  <2>1. CASE q = p
    BY <2>1, <1>6
  <2>2. CASE r = p
    <3>1. TxApart(r, q)'
      BY <2>2, <1>6
    <3> QED BY <3>1 DEF TxApart
  <2>3. CASE q # p /\ r # p
    <3>1. TxApart(q, r)
      BY <1>6 DEF PipeInv
    <3> QED BY <1>1, <2>3, <3>1, ApartKept
  <2> QED BY <2>1, <2>2, <2>3
<1> QED BY <1>2, <1>3, <1>4, <1>5, <1>6 DEF PipeInv

LEMMA NothingIsTrue ==
  ASSUME NEW p \in Proc, tx'[p] = NoTxn
  PROVE  TxTrue(p)' /\ \A q \in Proc : TxApart(p, q)'
<1>1. /\ tx'[p].kind = "none" /\ tx'[p].at = "idle" /\ tx'[p].batch = NoBatch
      /\ tx'[p].todo = {}
  BY DEF NoTxn
<1>2. TxTrue(p)'
  BY <1>1 DEF TxTrue, Staged, Sorted, EnumerationTrue, ItemHeld, WriterTrue
<1>3. ASSUME NEW q \in Proc PROVE TxApart(p, q)'
  BY <1>1 DEF TxApart
<1> QED BY <1>2, <1>3

LEMMA EndKeeps ==
  ASSUME PipeInv, NEW p \in Proc, End(p),
         UNCHANGED <<content, batchTask, item, expired, demand>>,
         mishaps' \in 0..MaxMishaps
  PROVE  PipeInv'
<1>1. tx' = [tx EXCEPT ![p] = NoTxn] /\ tx'[p] = NoTxn
  BY DEF End, PipeInv, PipeTypes
<1>2. TxTrue(p)' /\ \A q \in Proc \ {p} : TxApart(p, q)'
  BY <1>1, NothingIsTrue
<1> QED BY <1>1, <1>2, NoTxnTyped, InsideKeeps
-----------------------------------------------------------------------------
(* The steps of materializations, generations and moves.                   *)
LEMMA ThrowKeeps ==
  ASSUME PipeInv, NEW p \in Proc, Throw(p),
         UNCHANGED <<content, batchTask, item, expired, demand, mishaps>>,
         tx[p].kind = "materialize" => Caused(tx[p].source)
  PROVE  PipeInv'
<1>1. PipeTypes /\ TxTrue(p) /\ mishaps' \in 0..MaxMishaps
  BY DEF PipeInv, PipeTypes
<1>2. CASE tx[p].batch = NoBatch
  BY <1>1, <1>2, EndKeeps DEF Throw
<1>3. CASE tx[p].batch # NoBatch
  <2> DEFINE t == [tx[p] EXCEPT !.at = "fallback"]
  <2>1. tx' = [tx EXCEPT ![p] = t] /\ t \in Transactions
    BY <1>1, <1>3, GoTypes DEF Throw, Phase0
  <2>2. tx'[p] = t
    BY <1>1, <2>1 DEF PipeTypes
  <2>3. tx[p] \in Transactions
    BY <1>1 DEF PipeTypes
  <2>4. /\ t.at = "fallback" /\ t.kind = tx[p].kind /\ t.batch = tx[p].batch
        /\ t.source = tx[p].source /\ t.todo = tx[p].todo /\ t.made = tx[p].made
    BY <2>3 DEF Transactions
  <2>5. tx[p].kind \notin {"none", "move"} /\ tx[p].batch \in Batch
    BY <1>1, <1>3, TxTypes DEF TxTrue, Staged, ItemHeld, NoTxn
  <2>6. linked' = linked /\ item' = item /\ batchTask' = batchTask
    BY DEF content
  <2> HIDE DEF t
  <2>7. TxTrue(p)'
    <3>1. Staged(p)' /\ Sorted(p)'
      BY <1>1, <2>2, <2>4, <2>5 DEF Staged, Sorted, TxTrue
    <3>2. EnumerationTrue(p)'
      BY <1>1, <2>2, <2>4, <2>5, <2>6 DEF TxTrue, EnumerationTrue
    <3>3. ItemHeld(p)'
      BY <1>1, <2>2, <2>4, <2>5, <2>6 DEF TxTrue, ItemHeld
    <3>4. WriterTrue(p)'
      <4>1. tx[p].kind = "materialize" => tx[p].source \in Source
        BY <1>1 DEF TxTrue, ItemHeld
      <4>2. linked' = linked /\ CausesKept
        BY SameContent
      <4> QED BY <2>2, <2>4, <2>5, <4>1, <4>2 DEF WriterTrue, Caused, CausesKept
    <3> QED BY <3>1, <3>2, <3>3, <3>4 DEF TxTrue
  <2>8. ASSUME NEW q \in Proc \ {p} PROVE TxApart(p, q)'
    <3>1. tx'[q] = tx[q] /\ TxApart(p, q)
      BY <1>1, <2>1 DEF PipeTypes, PipeInv
    <3> QED BY <2>2, <2>4, <3>1 DEF TxApart, AtNovel
  <2> QED BY <1>1, <2>1, <2>7, <2>8, InsideKeeps
<1> QED BY <1>2, <1>3

(* From one statement of a kind to another.                                *)
LEMMA GoKeeps ==
  ASSUME PipeInv, NEW p \in Proc, NEW at \in Phase0, Go(p, at),
         UNCHANGED <<content, batchTask, item, expired, demand, mishaps>>,
         tx[p].kind \in {"materialize", "generate", "move"},
         Staged(p)', WriterTrue(p)',
         at = "commit" /\ tx[p].kind = "materialize" =>
           \A q \in Proc \ {p} :
             tx[q].kind = "materialize" /\ tx[q].at = "commit" =>
               tx[q].source # tx[p].source,
         at \in AtNovel /\ tx[p].kind = "generate" =>
           \/ tx[p].at \in AtNovel
           \/ \A q \in Proc \ {p} :
                tx[q].kind = "generate" /\ tx[q].at \in AtNovel =>
                  tx[q].source # tx[p].source
  PROVE  PipeInv'
<1>1. PipeTypes /\ TxTrue(p) /\ mishaps' \in 0..MaxMishaps
  BY DEF PipeInv, PipeTypes
<1> DEFINE t == [tx[p] EXCEPT !.at = at]
<1>2. tx' = [tx EXCEPT ![p] = t] /\ t \in Transactions
  BY <1>1, GoTypes
<1>3. tx'[p] = t /\ tx[p] \in Transactions
  BY <1>1, <1>2 DEF PipeTypes
<1>4. /\ t.at = at /\ t.kind = tx[p].kind /\ t.batch = tx[p].batch
      /\ t.source = tx[p].source /\ t.todo = tx[p].todo /\ t.made = tx[p].made
  BY <1>3 DEF Transactions
<1>5. linked' = linked /\ item' = item /\ batchTask' = batchTask
  BY DEF content
<1> HIDE DEF t
<1>6. EnumerationTrue(p)' /\ Sorted(p)'
  BY <1>1, <1>3, <1>4 DEF EnumerationTrue, Sorted, TxTrue
<1>7. ItemHeld(p)'
  BY <1>1, <1>3, <1>4, <1>5 DEF TxTrue, ItemHeld
<1>8. ASSUME NEW q \in Proc \ {p} PROVE TxApart(p, q)'
  <2>1. tx'[q] = tx[q] /\ TxApart(p, q)
    BY <1>1, <1>2 DEF PipeTypes, PipeInv
  <2> QED BY <1>3, <1>4, <2>1 DEF TxApart
<1>9. TxTrue(p)'
  BY <1>6, <1>7 DEF TxTrue
<1> QED BY <1>1, <1>2, <1>8, <1>9, InsideKeeps

(* Where a process is tells what it is doing.                              *)
LEMMA KindOf ==
  ASSUME PipeInv, NEW p \in Proc
  PROVE  /\ At(p, "idle") <=> tx[p].kind = "none"
         /\ At(p, "snapshot") \/ At(p, "children") => tx[p].kind = "enumerate"
         /\ tx[p].at \in {"read", "slug", "create", "link"} =>
              tx[p].kind = "materialize"
         /\ tx[p].at \in {"lock", "article", "insert"} => tx[p].kind = "generate"
         /\ tx[p].at \in {"move", "check"} => tx[p].kind = "move"
         /\ At(p, "fallback") =>
              tx[p].kind \in {"enumerate", "materialize", "generate"}
BY TxTypes DEF PipeInv, TxTrue, Staged, NoTxn, At

LEMMA CreateNovelKeeps ==
  ASSUME PipeInv, NEW p \in Proc, CreateNovel(p)
  PROVE  PipeInv'
<1> DEFINE s == tx[p].source
<1>1. PipeTypes /\ TxTrue(p) /\ NovelsTrue
  BY DEF PipeInv
<1>2. tx[p].kind = "materialize" /\ tx[p].at = "create"
  BY KindOf DEF CreateNovel, At
<1>3. CASE tx[p].slug \in Taken(Title[s])
  <2>1. PICK u \in Source : Title[u] = Title[s] /\ tx[p].slug \in SlugsOf(u)
    BY <1>3, TakenIs
  <2>2. tx[p].slug \in novels[u]
    BY <1>1, <1>2, <2>1 DEF SlugsOf, TxTrue, WriterTrue
  <2>3. u \in linked \ Linked0
    BY <1>1, <2>2 DEF NovelsTrue
  <2>4. Caused(s)
    BY <2>1, <2>3 DEF Caused
  <2> QED BY <1>3, <2>4, ThrowKeeps DEF CreateNovel
<1>4. CASE tx[p].slug \notin Taken(Title[s])
  <2>1. Go(p, "link") /\ "link" \in Phase0
    BY <1>4 DEF CreateNovel, Phase0
  <2>2. /\ tx'[p].at = "link" /\ tx'[p].kind = "materialize"
        /\ tx'[p].slug = tx[p].slug
    BY <1>1, <1>2, <2>1 DEF Go, PipeTypes, Transactions
  <2>3. Staged(p)' /\ WriterTrue(p)'
    BY <1>1, <1>2, <2>2 DEF Staged, WriterTrue, TxTrue
  <2> QED BY <1>2, <2>1, <2>3, GoKeeps DEF CreateNovel, AtNovel
<1> QED BY <1>3, <1>4

LEMMA LinkSourceKeeps ==
  ASSUME PipeInv, NEW p \in Proc, LinkSource(p)
  PROVE  PipeInv'
<1>1. PipeTypes /\ TxTrue(p)
  BY DEF PipeInv
<1>2. tx[p].kind = "materialize" /\ tx[p].at = "link"
  BY KindOf DEF LinkSource, At
<1>3. CASE Throw(p) /\ (tx[p].source \in linked \/ Unfit(tx[p].source))
  <2>1. Caused(tx[p].source)
    BY <1>3 DEF Caused, Unfit
  <2> QED BY <1>3, <2>1, ThrowKeeps DEF LinkSource
<1>4. CASE tx[p].source \notin linked /\ Go(p, "commit")
  <2>1. Go(p, "commit") /\ "commit" \in Phase0
    BY <1>4 DEF Phase0
  <2>2. /\ tx'[p].at = "commit" /\ tx'[p].kind = "materialize"
        /\ tx'[p].slug = tx[p].slug /\ tx'[p].source = tx[p].source
    BY <1>1, <1>2, <2>1 DEF Go, PipeTypes, Transactions
  <2>3. Staged(p)' /\ WriterTrue(p)'
    BY <1>1, <1>2, <1>4, <2>2 DEF Staged, WriterTrue, TxTrue, LinkSource, content
  <2>4. ASSUME NEW q \in Proc \ {p},
               tx[q].kind = "materialize", tx[q].at = "commit"
        PROVE  tx[q].source # tx[p].source
    <3>1. ~Waits(p, q)
      BY DEF LinkSource, Clear
    <3> QED BY <1>2, <2>4, <3>1 DEF Waits
  <2> QED BY <1>2, <2>1, <2>3, <2>4, GoKeeps DEF LinkSource
<1> QED BY <1>3, <1>4 DEF LinkSource, Linkable

(* The end of a transaction, with the outcome of its item.                 *)
LEMMA OutcomeKeeps ==
  ASSUME PipeInv, NEW p \in Proc, NEW status \in {"success", "skipped", "failed"},
         tx[p].kind \in {"materialize", "generate", "move"},
         Outcome(p, status), End(p),
         UNCHANGED <<batchTask, expired, demand, mishaps>>,
         linked \subseteq linked', linked' \subseteq linked \cup {tx[p].source},
         CausesKept,
         articles' \subseteq linked',
         novels' \in [Source -> SUBSET SlugNo], NovelsTrue',
         tx[p].source \in linked' =>
           \/ tx[p].source \in linked
           \/ tx[p].kind = "materialize" /\ tx[p].at = "commit",
         tx[p].kind = "materialize" =>
           /\ status \in {"success", "skipped"} => tx[p].source \in linked'
           /\ status = "failed" => Caused(tx[p].source)
  PROVE  PipeInv'
<1> DEFINE s == tx[p].source
           c == tx[p].batch
<1>1. PipeTypes /\ TxTrue(p)
  BY DEF PipeInv
<1>2. s \in Source /\ (c # NoBatch => c \in Batch /\ item[c][s] = "processing")
  BY <1>1 DEF TxTrue, ItemHeld
<1>3. /\ tx'[p] = NoTxn /\ \A q \in Proc \ {p} : tx'[q] = tx[q]
      /\ tx' \in [Proc -> Transactions]
  BY <1>1, NoTxnTyped DEF End, PipeTypes
<1>4. \A b \in Batch, u \in Source :
        item'[b][u] = IF b = c /\ u = s THEN status ELSE item[b][u]
  BY <1>1, <1>2, PipelineAssumption DEF Outcome, PipeTypes
<1>5. item' \in [Batch -> [Source -> ItemStatus]]
  BY <1>1, <1>2 DEF Outcome, PipeTypes, ItemStatus, Open
<1>6. PipeTypes'
  BY <1>1, <1>2, <1>3, <1>5 DEF PipeTypes, CausesKept
<1>7. ASSUME NEW b \in Batch PROVE BatchTrue(b)'
  <2>1. BatchTrue(b)
    BY DEF PipeInv
  <2>2. ASSUME NEW u \in Source PROVE item'[b][u] = "none" <=> item[b][u] = "none"
    BY <1>2, <1>4, PipelineAssumption
  <2>3. ASSUME NEW u \in Source, Kind[b] = "materialize"
        PROVE  ItemSettled(b, u)'
    <3>1. ItemSettled(b, u)
      BY <2>1, <2>3 DEF BatchTrue
    <3>2. CASE b = c /\ u = s
      <4>1. tx[p].kind = "materialize"
        BY <1>1, <2>3, <3>2, PipelineAssumption DEF TxTrue, ItemHeld
      <4>2. status = "failed" => Caused(u)'
        BY <3>2, <4>1 DEF Caused, CausesKept
      <4>3. item'[b][u] = status
        BY <1>4, <3>2
      <4> QED BY <3>2, <4>1, <4>2, <4>3 DEF ItemSettled
    <3>3. CASE ~(b = c /\ u = s)
      BY <1>4, <3>1, <3>3, SettledKept
    <3> QED BY <3>2, <3>3
  <2> QED BY <2>1, <2>2, <2>3, BatchKept
<1>8. ASSUME NEW q \in Proc PROVE TxTrue(q)'
  <2>1. CASE q = p
    BY <1>3, <2>1, NothingIsTrue
  <2>2. CASE q # p
    <3>1. TxTrue(q) /\ TxApart(p, q) /\ tx'[q] = tx[q]
      BY <1>3, <2>2 DEF PipeInv
    <3>2. tx[q].kind = "materialize" /\ tx[q].at = "commit" =>
            tx[q].source \notin linked'
      BY <3>1 DEF TxApart, TxTrue, WriterTrue
    <3>3. ASSUME tx[q].kind \in {"materialize", "generate"}, tx[q].batch \in Batch
          PROVE  item'[tx[q].batch][tx[q].source] = item[tx[q].batch][tx[q].source]
      <4>1. tx[q].source \in Source
        BY <3>1, <3>3 DEF TxTrue, ItemHeld
      <4>2. ~(tx[q].batch = c /\ tx[q].source = s)
        BY <3>1, <3>3, PipelineAssumption DEF TxApart
      <4> QED BY <1>4, <3>3, <4>1, <4>2
    <3> QED BY <3>1, <3>2, <3>3, OthersKeep
  <2> QED BY <2>1, <2>2
<1>9. ASSUME NEW q \in Proc, NEW r \in Proc, q # r PROVE TxApart(q, r)'
  <2>1. CASE q = p
    BY <1>3, <2>1, NothingIsTrue
  <2>2. CASE r = p
    <3>1. TxApart(r, q)'
      BY <1>3, <2>2, NothingIsTrue
    <3> QED BY <3>1 DEF TxApart
  <2>3. CASE q # p /\ r # p
    <3>1. TxApart(q, r)
      BY <1>9 DEF PipeInv
    <3> QED BY <1>3, <2>3, <3>1, ApartKept
  <2> QED BY <2>1, <2>2, <2>3
<1> QED BY <1>6, <1>7, <1>8, <1>9 DEF PipeInv

LEMMA PickSlugKeeps ==
  ASSUME PipeInv, NEW p \in Proc, PickSlug(p)
  PROVE  PipeInv'
<1> DEFINE title == Title[tx[p].source]
           n == resolveUniqueSlug(title)
           t == [tx[p] EXCEPT !.at = "create", !.slug = n]
<1>1. PipeTypes /\ TxTrue(p) /\ mishaps' \in 0..MaxMishaps
  BY DEF PipeInv, PipeTypes, PickSlug
<1>2. tx[p].kind = "materialize" /\ tx[p].at = "slug"
  BY KindOf DEF PickSlug, At
<1>3. CASE FreeSlugs(title) = {}
  <2>1. /\ Outcome(p, "failed") /\ End(p)
        /\ UNCHANGED <<content, batchTask, expired, demand, mishaps>>
    BY <1>3 DEF PickSlug
  <2>2. Caused(tx[p].source)
    BY <1>3 DEF Caused, Exhausted
  <2> QED BY <1>2, <2>1, <2>2, SameContent, OutcomeKeeps
<1>4. CASE FreeSlugs(title) # {}
  <2>1. /\ tx' = [tx EXCEPT ![p].at = "create", ![p].slug = n]
        /\ UNCHANGED <<content, batchTask, item, expired, demand, mishaps>>
    BY <1>4 DEF PickSlug
  <2>2. n \in SlugNo \ Taken(title)
    <3>1. demand.slugs \in Nat
      BY <1>1 DEF PipeTypes, Asked, SlugNo
    <3> QED BY <1>4, <3>1, SlugIsFree
  <2>3. tx[p] \in Transactions
    BY <1>1 DEF PipeTypes
  <2> HIDE DEF n
  <2>4. t \in Transactions
    BY <2>2, <2>3 DEF Transactions, Phase0
  <2>5. tx' = [tx EXCEPT ![p] = t] /\ tx'[p] = t
    BY <1>1, <2>1 DEF PipeTypes
  <2>6. /\ t.at = "create" /\ t.kind = "materialize" /\ t.batch = tx[p].batch
        /\ t.source = tx[p].source /\ t.slug = n
        /\ t.todo = tx[p].todo /\ t.made = tx[p].made
    BY <1>2, <2>3 DEF Transactions
  <2>7. linked' = linked /\ item' = item
    BY <2>1 DEF content
  <2> HIDE DEF t
  <2>8. TxTrue(p)'
    <3>1. Staged(p)' /\ Sorted(p)' /\ EnumerationTrue(p)'
      BY <1>1, <2>5, <2>6 DEF Staged, Sorted, EnumerationTrue, TxTrue
    <3>2. ItemHeld(p)'
      BY <1>1, <1>2, <2>5, <2>6, <2>7 DEF TxTrue, ItemHeld
    <3>3. ASSUME NEW s \in Linked0, Title[s] = title, n = 1
          PROVE  FALSE
      <4>1. s \in Source /\ n \in SlugsOf(s)
        BY <3>3, PipelineAssumption DEF SlugsOf
      <4>2. n \in Taken(title)
        BY <3>3, <4>1, TakenIs
      <4> QED BY <2>2, <4>2
    <3>4. WriterTrue(p)'
      BY <2>2, <2>5, <2>6, <3>3 DEF WriterTrue
    <3> QED BY <3>1, <3>2, <3>4 DEF TxTrue
  <2>9. ASSUME NEW q \in Proc \ {p} PROVE TxApart(p, q)'
    <3>1. tx'[q] = tx[q] /\ TxApart(p, q)
      BY <1>1, <2>5 DEF PipeTypes, PipeInv
    <3> QED BY <2>5, <2>6, <3>1 DEF TxApart
  <2> QED BY <1>1, <2>1, <2>4, <2>5, <2>8, <2>9, InsideKeeps
<1> QED BY <1>3, <1>4

LEMMA ReadSourceKeeps ==
  ASSUME PipeInv, NEW p \in Proc, ReadSource(p)
  PROVE  PipeInv'
<1>1. PipeTypes /\ TxTrue(p)
  BY DEF PipeInv
<1>2. tx[p].kind = "materialize" /\ tx[p].at = "read"
  BY KindOf DEF ReadSource, At
<1>3. CASE tx[p].source \in linked /\ Outcome(p, "skipped") /\ End(p)
  BY <1>2, <1>3, SameContent, OutcomeKeeps DEF ReadSource
<1>4. CASE Unfit(tx[p].source) /\ Outcome(p, "failed") /\ End(p)
  <2>1. Caused(tx[p].source)
    BY <1>4 DEF Caused, Unfit
  <2> QED BY <1>2, <1>4, <2>1, SameContent, OutcomeKeeps DEF ReadSource
<1>5. CASE tx[p].source \notin linked /\ Go(p, "slug") /\ UNCHANGED item
  <2>1. "slug" \in Phase0
    BY DEF Phase0
  <2>2. tx'[p].at = "slug" /\ tx'[p].kind = "materialize"
    BY <1>1, <1>2, <1>5 DEF Go, PipeTypes, Transactions
  <2>3. Staged(p)' /\ WriterTrue(p)'
    BY <2>2 DEF Staged, WriterTrue
  <2> QED BY <1>2, <1>5, <2>1, <2>3, GoKeeps DEF ReadSource, AtNovel
<1> QED BY <1>3, <1>4, <1>5 DEF ReadSource

LEMMA CommitNovelKeeps ==
  ASSUME PipeInv, NEW p \in Proc, CommitNovel(p)
  PROVE  PipeInv'
<1> DEFINE s == tx[p].source
<1>1. PipeTypes /\ TxTrue(p) /\ NovelsTrue
  BY DEF PipeInv
<1>2. tx[p].kind = "materialize" /\ tx[p].at = "commit"
  BY DEF CommitNovel, At
<1>3. s \in Source /\ s \notin linked /\ tx[p].slug \in SlugNo
  BY <1>1, <1>2 DEF TxTrue, ItemHeld, WriterTrue
<1>4. novels[s] = {}
  BY <1>1, <1>3 DEF NovelsTrue
<1>5. /\ novels' \in [Source -> SUBSET SlugNo]
      /\ \A u \in Source : novels'[u] = IF u = s THEN {tx[p].slug} ELSE novels[u]
  BY <1>1, <1>3, <1>4 DEF CommitNovel, PipeTypes
<1>6. linked' = linked \cup {s} /\ articles' = articles
  BY DEF CommitNovel
<1>7. NovelsTrue'
  BY <1>1, <1>3, <1>5, <1>6 DEF NovelsTrue
<1>8. articles' \subseteq linked'
  BY <1>1, <1>6 DEF PipeTypes
<1>9. CausesKept
  <2>1. /\ fitness' \in [Source -> Fitness]
        /\ \A u \in Source : fitness[u] # "fit" => fitness'[u] # "fit"
    BY <1>1 DEF CommitNovel, PipeTypes, Fitness
  <2>2. \A u \in Source : Exhausted(u) => Exhausted(u)'
    BY <1>4, <1>5, SlugsStayTaken DEF CommitNovel
  <2> QED BY <2>1, <2>2 DEF CausesKept
<1> QED BY <1>2, <1>5, <1>6, <1>7, <1>8, <1>9, OutcomeKeeps DEF CommitNovel

LEMMA LockNovelKeeps ==
  ASSUME PipeInv, NEW p \in Proc, LockNovel(p)
  PROVE  PipeInv'
<1>1. PipeTypes /\ TxTrue(p)
  BY DEF PipeInv
<1>2. tx[p].kind = "generate" /\ tx[p].at = "lock"
  BY KindOf DEF LockNovel, At
<1>3. CASE tx[p].source \notin linked
  BY <1>2, <1>3, SameContent, OutcomeKeeps DEF LockNovel
<1>4. CASE tx[p].source \in linked
  <2>1. Go(p, "article") /\ "article" \in Phase0
    BY <1>4 DEF LockNovel, Phase0
  <2>2. /\ tx'[p].at = "article" /\ tx'[p].kind = "generate"
        /\ tx'[p].source = tx[p].source
    BY <1>1, <1>2, <2>1 DEF Go, PipeTypes, Transactions
  <2>3. Staged(p)' /\ WriterTrue(p)'
    BY <1>4, <2>2 DEF Staged, WriterTrue, LockNovel, content
  <2>4. ASSUME NEW q \in Proc \ {p}, tx[q].kind = "generate", tx[q].at \in AtNovel
        PROVE  tx[q].source # tx[p].source
    <3>1. ~Waits(p, q)
      BY DEF LockNovel, Clear
    <3> QED BY <1>2, <2>4, <3>1 DEF Waits, AtNovel
  <2> QED BY <1>2, <1>4, <2>1, <2>3, <2>4, GoKeeps DEF LockNovel
<1> QED BY <1>3, <1>4

LEMMA ReadArticleKeeps ==
  ASSUME PipeInv, NEW p \in Proc, ReadArticle(p)
  PROVE  PipeInv'
<1>1. PipeTypes /\ TxTrue(p)
  BY DEF PipeInv
<1>2. tx[p].kind = "generate" /\ tx[p].at = "article"
  BY KindOf DEF ReadArticle, At
<1>3. CASE tx[p].source \in articles
  BY <1>2, <1>3, SameContent, OutcomeKeeps DEF ReadArticle
<1>4. CASE Outcome(p, "failed") /\ End(p)
  BY <1>2, <1>4, SameContent, OutcomeKeeps DEF ReadArticle
<1>5. CASE Go(p, "insert") /\ UNCHANGED item
  <2>1. "insert" \in Phase0
    BY DEF Phase0
  <2>2. /\ tx'[p].at = "insert" /\ tx'[p].kind = "generate"
        /\ tx'[p].source = tx[p].source
    BY <1>1, <1>2, <1>5 DEF Go, PipeTypes, Transactions
  <2>3. Staged(p)' /\ WriterTrue(p)'
    BY <1>1, <1>2, <2>2 DEF TxTrue, Staged, WriterTrue, ReadArticle, content
  <2> QED BY <1>2, <1>5, <2>1, <2>3, GoKeeps DEF ReadArticle, AtNovel
<1> QED BY <1>3, <1>4, <1>5 DEF ReadArticle

LEMMA InsertArticleKeeps ==
  ASSUME PipeInv, NEW p \in Proc, InsertArticle(p)
  PROVE  PipeInv'
<1>1. PipeTypes /\ TxTrue(p)
  BY DEF PipeInv
<1>2. tx[p].kind = "generate" /\ tx[p].at = "insert"
  BY KindOf DEF InsertArticle, At
<1>3. CASE tx[p].source \in articles
  BY <1>2, <1>3, ThrowKeeps DEF InsertArticle
<1>4. CASE tx[p].source \notin articles
  <2>1. Go(p, "commit") /\ "commit" \in Phase0
    BY <1>4 DEF InsertArticle, Phase0
  <2>2. /\ tx'[p].at = "commit" /\ tx'[p].kind = "generate"
        /\ tx'[p].source = tx[p].source
    BY <1>1, <1>2, <2>1 DEF Go, PipeTypes, Transactions
  <2>3. Staged(p)' /\ WriterTrue(p)'
    BY <1>1, <1>2, <2>2 DEF TxTrue, Staged, WriterTrue, InsertArticle, content
  <2> QED BY <1>2, <2>1, <2>3, GoKeeps DEF InsertArticle, AtNovel
<1> QED BY <1>3, <1>4

LEMMA CommitArticleKeeps ==
  ASSUME PipeInv, NEW p \in Proc, CommitArticle(p)
  PROVE  PipeInv'
<1>1. PipeTypes /\ TxTrue(p) /\ NovelsTrue
  BY DEF PipeInv
<1>2. tx[p].kind = "generate" /\ tx[p].at = "commit"
  BY DEF CommitArticle, At
<1>3. tx[p].source \in linked
  BY <1>1, <1>2 DEF TxTrue, WriterTrue
<1>4. linked' = linked /\ novels' = novels /\ articles' \subseteq linked'
  BY <1>1, <1>3 DEF CommitArticle, PipeTypes
<1>5. NovelsTrue' /\ novels' \in [Source -> SUBSET SlugNo] /\ CausesKept
  <2>1. \A u \in Source : Exhausted(u) => Exhausted(u)'
    BY <1>4, SlugsStayTaken DEF CommitArticle
  <2> QED BY <1>1, <1>4, <2>1 DEF NovelsTrue, PipeTypes, CausesKept, CommitArticle
<1> QED BY <1>2, <1>3, <1>4, <1>5, OutcomeKeeps DEF CommitArticle

LEMMA MovingKeeps ==
  ASSUME PipeInv, NEW p \in Proc, Move(p)
  PROVE  PipeInv'
<1>1. PipeTypes /\ TxTrue(p) /\ NovelsTrue
  BY DEF PipeInv
<1>2. CASE MoveEntry(p)
  <2>1. tx[p].kind = "move" /\ tx[p].at = "move" /\ mishaps' \in 0..MaxMishaps
    BY <1>1, <1>2, KindOf DEF MoveEntry, At, PipeTypes
  <2>2. CASE End(p)
    BY <1>2, <2>1, <2>2, EndKeeps DEF MoveEntry
  <2>3. CASE Go(p, "check") /\ tx[p].to \in linked \ articles
    <3>1. "check" \in Phase0
      BY DEF Phase0
    <3>2. tx'[p].at = "check" /\ tx'[p].kind = "move" /\ tx'[p].to = tx[p].to
      BY <1>1, <2>1, <2>3 DEF Go, PipeTypes, Transactions
    <3>3. Staged(p)' /\ WriterTrue(p)'
      BY <1>2, <2>3, <3>2 DEF Staged, WriterTrue, MoveEntry, content
    <3> QED BY <1>2, <2>1, <2>3, <3>1, <3>3, GoKeeps DEF MoveEntry, AtNovel
  <2> QED BY <1>2, <2>2, <2>3 DEF MoveEntry
<1>3. CASE MoveCheck(p)
  <2>1. tx[p].kind = "move" /\ tx[p].at = "check"
    BY <1>3, KindOf DEF MoveCheck, At
  <2>2. Go(p, "commit") /\ "commit" \in Phase0
    BY <1>3 DEF MoveCheck, Phase0
  <2>3. tx'[p].at = "commit" /\ tx'[p].kind = "move" /\ tx'[p].to = tx[p].to
    BY <1>1, <2>1, <2>2 DEF Go, PipeTypes, Transactions
  <2>4. Staged(p)' /\ WriterTrue(p)'
    BY <1>1, <1>3, <2>1, <2>3 DEF TxTrue, Staged, WriterTrue, MoveCheck, content
  <2> QED BY <1>3, <2>1, <2>2, <2>4, GoKeeps DEF MoveCheck
<1>4. CASE CommitMove(p)
  <2>1. tx[p].kind = "move" /\ tx[p].at = "commit" /\ tx[p].batch = NoBatch
    BY <1>1, <1>4 DEF CommitMove, At, TxTrue, ItemHeld
  <2>2. tx[p].to \in linked
    BY <1>1, <2>1 DEF TxTrue, WriterTrue
  <2>3. linked' = linked /\ novels' = novels /\ articles' \subseteq linked'
    BY <1>1, <1>4, <2>2 DEF CommitMove, PipeTypes
  <2>4. NovelsTrue' /\ novels' \in [Source -> SUBSET SlugNo] /\ CausesKept
    <3>1. \A u \in Source : Exhausted(u) => Exhausted(u)'
      BY <1>4, <2>3, SlugsStayTaken DEF CommitMove
    <3> QED BY <1>1, <1>4, <2>3, <3>1 DEF NovelsTrue, PipeTypes, CausesKept, CommitMove
  <2>5. Outcome(p, "skipped") /\ End(p)
    BY <1>4, <2>1 DEF CommitMove, Outcome
  <2>6. UNCHANGED <<batchTask, expired, demand, mishaps>>
    BY <1>4 DEF CommitMove
  <2> QED BY <2>1, <2>3, <2>4, <2>5, <2>6, OutcomeKeeps
<1> QED BY <1>2, <1>3, <1>4 DEF Move
-----------------------------------------------------------------------------
(* The steps that change the rows of batches and their items.              *)
LEMMA RowsKeep ==
  ASSUME PipeInv, PipeTypes', UNCHANGED content, demand'.slugs = demand.slugs,
         \A b \in Batch : BatchTrue(b)',
         NEW P \in SUBSET Proc,
         \A p \in P : TxTrue(p)' /\ \A q \in Proc \ {p} : TxApart(p, q)',
         \A q \in Proc \ P :
           /\ tx'[q] = tx[q]
           /\ tx[q].kind \in {"materialize", "generate"} /\ tx[q].batch \in Batch =>
                item'[tx[q].batch][tx[q].source] = item[tx[q].batch][tx[q].source]
           /\ tx[q].kind = "enumerate" =>
                batchTask'[tx[q].batch].status = batchTask[tx[q].batch].status
  PROVE  PipeInv'
<1>1. linked' = linked /\ NovelsTrue' /\ CausesKept
  BY SameContent
<1>2. ASSUME NEW q \in Proc PROVE TxTrue(q)'
  <2>1. CASE q \notin P
    <3>1. TxTrue(q) /\ tx'[q] = tx[q]
      BY <2>1 DEF PipeInv
    <3>2. tx[q].kind = "materialize" /\ tx[q].at = "commit" =>
            tx[q].source \notin linked'
      BY <1>1, <3>1 DEF TxTrue, WriterTrue
    <3> QED BY <1>1, <2>1, <3>1, <3>2, OthersKeep
  <2> QED BY <2>1
<1>3. ASSUME NEW q \in Proc, NEW r \in Proc, q # r PROVE TxApart(q, r)'
  <2>1. CASE q \in P
    BY <2>1, <1>3
  <2>2. CASE r \in P
    <3>1. TxApart(r, q)'
      BY <2>2, <1>3
    <3> QED BY <3>1 DEF TxApart
  <2>3. CASE q \notin P /\ r \notin P
    <3>1. TxApart(q, r)
      BY <1>3 DEF PipeInv
    <3> QED BY <2>3, <3>1, ApartKept
  <2> QED BY <2>1, <2>2, <2>3
<1> QED BY <1>1, <1>2, <1>3 DEF PipeInv

(* A batch that a step does not touch.                                     *)
LEMMA OtherBatchKept ==
  ASSUME PipeInv, NEW b \in Batch, UNCHANGED content, expired \subseteq expired',
         demand'.batches \subseteq demand.batches, demand'.slugs = demand.slugs,
         batchTask'[b] = batchTask[b],
         \A s \in Source : \/ item'[b][s] = item[b][s]
                           \/ item[b][s] \in Open /\ item'[b][s] \in Open
  PROVE  BatchTrue(b)'
<1>1. BatchTrue(b) /\ linked' = linked /\ CausesKept
  BY SameContent DEF PipeInv
<1>2. \A s \in Source : item'[b][s] = "none" <=> item[b][s] = "none"
  BY DEF Open
<1>3. ASSUME NEW s \in Source, Kind[b] = "materialize" PROVE ItemSettled(b, s)'
  <2>1. ItemSettled(b, s)
    BY <1>1, <1>3 DEF BatchTrue
  <2> QED BY <1>1, <2>1, SettledKept
<1> QED BY <1>1, <1>2, <1>3, BatchKept

LEMMA EnumerationTypes ==
  ASSUME PipeTypes, NEW b \in Batch
  PROVE  /\ batchTask[b].status \in ItemStatus
         /\ batchTask[b].enum \in {"none", "completed", "expired"}
         /\ batchTask[b].counts \in Tallies
         /\ \A s \in Source : item[b][s] \in ItemStatus
BY DEF PipeTypes, Enumerations

LEMMA BatchRow ==
  ASSUME PipeTypes, NEW b \in Batch, NEW st \in ItemStatus,
         batchTask' = [batchTask EXCEPT ![b].status = st]
  PROVE  /\ batchTask' \in [Batch -> Enumerations]
         /\ batchTask'[b].status = st /\ batchTask'[b].enum = batchTask[b].enum
         /\ batchTask'[b].counts = batchTask[b].counts
         /\ \A c \in Batch \ {b} : batchTask'[c] = batchTask[c]
BY DEF PipeTypes, Enumerations

LEMMA EnqueueParentKeeps ==
  ASSUME PipeInv, NEW b \in Batch, enqueueParent(b)
  PROVE  PipeInv'
<1>1. PipeTypes /\ BatchTrue(b)
  BY DEF PipeInv
<1>2. /\ batchTask[b].status = "none" /\ batchTask[b].enum = "none"
      /\ Kind[b] # "generate"
  BY <1>1 DEF BatchTrue, enqueueParent
<1>3. /\ batchTask' \in [Batch -> Enumerations]
      /\ batchTask'[b].status = "pending" /\ batchTask'[b].enum = "none"
      /\ \A c \in Batch \ {b} : batchTask'[c] = batchTask[c]
  BY <1>1, <1>2, BatchRow DEF enqueueParent, ItemStatus, Open
<1>4. demand' \in Asked /\ demand'.slugs = demand.slugs
      /\ demand'.batches = demand.batches \ {b}
  BY <1>1 DEF enqueueParent, PipeTypes, Asked
<1>5. UNCHANGED <<content, item, expired, tx, mishaps>>
  BY DEF enqueueParent
<1>6. PipeTypes'
  BY <1>1, <1>3, <1>4, <1>5 DEF PipeTypes, content
<1>7. ASSUME NEW c \in Batch PROVE BatchTrue(c)'
  <2>1. CASE c = b
    BY <1>1, <1>2, <1>3, <1>4, <1>5, <2>1, SameContent
    DEF BatchTrue, ItemSettled, content
  <2>2. CASE c # b
    BY <1>3, <1>4, <1>5, <2>2, OtherBatchKept
  <2> QED BY <2>1, <2>2
<1>8. ASSUME NEW q \in Proc, tx[q].kind = "enumerate"
      PROVE  batchTask'[tx[q].batch].status = batchTask[tx[q].batch].status
  <2>1. tx[q].batch \in Batch /\ batchTask[tx[q].batch].status = "processing"
    BY <1>8 DEF PipeInv, TxTrue, EnumerationTrue
  <2> QED BY <1>2, <1>3, <2>1
<1> QED BY <1>4, <1>5, <1>6, <1>7, <1>8, RowsKeep, {} \in SUBSET Proc

LEMMA EnqueueGenerateKeeps ==
  ASSUME PipeInv, NEW b \in Batch, enqueueArticleGenerateBatch(b)
  PROVE  PipeInv'
<1> DEFINE ready == Admitted(Selection[b])
           n == Cardinality(ready)
           m == Cardinality(Selection[b])
           t == [linked |-> 0, submitted |-> n, blocked |-> m - n, ineligible |-> 0]
           r == [status |-> "success", enum |-> "completed", counts |-> t]
<1>1. PipeTypes /\ BatchTrue(b)
  BY DEF PipeInv
<1>2. /\ batchTask[b].status = "none" /\ batchTask[b].enum = "none"
      /\ Kind[b] = "generate" /\ \A s \in Source : item[b][s] = "none"
  BY <1>1 DEF BatchTrue, enqueueArticleGenerateBatch
<1>3. Selection[b] \subseteq Source /\ ready \subseteq Selection[b]
  BY PipelineAssumption DEF Admitted
<1>4. n \in Nat /\ m \in Nat /\ n <= m /\ m <= Cardinality(Source)
      /\ Cardinality(Source) \in Nat
  <2>1. IsFiniteSet(Selection[b])
    BY <1>3, SourcesCount
  <2>2. n <= m
    BY <1>3, <2>1, FS_Subset
  <2>3. n \in 0..Cardinality(Source) /\ m \in 0..Cardinality(Source)
    BY <1>3, SourcesCount
  <2> QED BY <2>2, <2>3, SourcesCount
<1> HIDE DEF n, m
<1>5. t \in Tallies
  BY <1>4 DEF Tallies
<1>6. r \in Enumerations
  BY <1>5 DEF Enumerations, ItemStatus
<1>7. batchTask' = [batchTask EXCEPT ![b] = r]
  BY DEF enqueueArticleGenerateBatch, n, m
<1>8. /\ batchTask' \in [Batch -> Enumerations] /\ batchTask'[b] = r
      /\ \A c \in Batch \ {b} : batchTask'[c] = batchTask[c]
  BY <1>1, <1>6, <1>7 DEF PipeTypes
<1>9. /\ item' \in [Batch -> [Source -> ItemStatus]]
      /\ \A s \in Source : item'[b][s] = IF s \in ready THEN "pending" ELSE "none"
      /\ \A c \in Batch \ {b} : item'[c] = item[c]
  BY <1>1 DEF enqueueArticleGenerateBatch, PipeTypes, ItemStatus, Open
<1>10. /\ demand' \in Asked /\ demand'.slugs = demand.slugs
       /\ demand'.batches = demand.batches \ {b}
  BY <1>1 DEF enqueueArticleGenerateBatch, PipeTypes, Asked
<1>11. UNCHANGED <<content, expired, tx, mishaps>>
  BY DEF enqueueArticleGenerateBatch
<1>12. PipeTypes'
  BY <1>1, <1>8, <1>9, <1>10, <1>11 DEF PipeTypes, content
<1>13. ASSUME NEW c \in Batch PROVE BatchTrue(c)'
  <2>1. CASE c = b
    <3>1. {s \in Source : item'[b][s] # "none"} = ready
      BY <1>3, <1>9
    <3>2. t.linked + t.submitted + t.blocked + t.ineligible = m
      BY <1>4
    <3>3. r.counts = t /\ r.status = "success" /\ r.enum = "completed"
          /\ t.submitted = n
      OBVIOUS
    <3> HIDE DEF t, r
    <3> QED BY <1>2, <1>8, <1>10, <2>1, <3>1, <3>2, <3>3 DEF BatchTrue, n, m, Open
  <2>2. CASE c # b
    BY <1>8, <1>9, <1>10, <1>11, <2>2, OtherBatchKept
  <2> QED BY <2>1, <2>2
<1>14. ASSUME NEW q \in Proc
       PROVE  /\ tx[q].kind \in {"materialize", "generate"} /\ tx[q].batch \in Batch =>
                   item'[tx[q].batch][tx[q].source] =
                     item[tx[q].batch][tx[q].source]
              /\ tx[q].kind = "enumerate" =>
                   batchTask'[tx[q].batch].status = batchTask[tx[q].batch].status
  <2>1. TxTrue(q)
    BY DEF PipeInv
  <2>2. CASE tx[q].kind = "enumerate"
    BY <1>2, <1>8, <2>1, <2>2 DEF TxTrue, EnumerationTrue
  <2>3. CASE tx[q].kind \in {"materialize", "generate"} /\ tx[q].batch \in Batch
    BY <1>2, <1>9, <2>1, <2>3, PipelineAssumption DEF TxTrue, ItemHeld
  <2> QED BY <2>2, <2>3
<1> QED BY <1>10, <1>11, <1>12, <1>13, <1>14, RowsKeep, {} \in SUBSET Proc

LEMMA ExpireKeeps ==
  ASSUME PipeInv, NEW b \in Batch, Expire(b)
  PROVE  PipeInv'
<1>1. PipeTypes'
  BY PipelineAssumption DEF PipeInv, PipeTypes, Expire, content
<1>2. ASSUME NEW c \in Batch PROVE BatchTrue(c)'
  BY OtherBatchKept DEF Expire
<1> QED BY <1>1, <1>2, RowsKeep, {} \in SUBSET Proc DEF Expire
LEMMA ClaimParentKeeps ==
  ASSUME PipeInv, NEW p \in Proc, NEW b \in Batch, ClaimParent(p, b)
  PROVE  PipeInv'
<1> DEFINE t == [NoTxn EXCEPT !.at = "snapshot", !.kind = "enumerate", !.batch = b]
<1>1. PipeTypes /\ BatchTrue(b)
  BY DEF PipeInv
<1>2. /\ batchTask[b].status = "pending" /\ batchTask[b].enum = "none"
      /\ Kind[b] # "generate"
  BY <1>1 DEF BatchTrue, ClaimParent, Open
<1>3. /\ batchTask' \in [Batch -> Enumerations]
      /\ batchTask'[b].status = "processing" /\ batchTask'[b].enum = "none"
      /\ \A c \in Batch \ {b} : batchTask'[c] = batchTask[c]
  BY <1>1, <1>2, BatchRow DEF ClaimParent, ItemStatus, Open
<1>4. t \in Transactions
  BY NoTxnTyped DEF Transactions, Phase0
<1>5. /\ t.at = "snapshot" /\ t.kind = "enumerate" /\ t.batch = b
      /\ t.source = NoSource /\ t.made = {}
  BY DEF NoTxn
<1>6. tx' = [tx EXCEPT ![p] = t]
  BY DEF ClaimParent
<1> HIDE DEF t
<1>7. /\ tx' \in [Proc -> Transactions] /\ tx'[p] = t
      /\ \A q \in Proc \ {p} : tx'[q] = tx[q]
  BY <1>1, <1>4, <1>6 DEF PipeTypes
<1>8. UNCHANGED <<content, item, expired, demand, mishaps>>
  BY DEF ClaimParent
<1>9. PipeTypes'
  BY <1>1, <1>3, <1>7, <1>8 DEF PipeTypes, content
<1>10. ASSUME NEW c \in Batch PROVE BatchTrue(c)'
  <2>1. CASE c = b
    BY <1>1, <1>2, <1>3, <1>8, <2>1, SameContent
    DEF BatchTrue, ItemSettled, content
  <2>2. CASE c # b
    BY <1>3, <1>8, <2>2, OtherBatchKept
  <2> QED BY <2>1, <2>2
<1>11. ASSUME NEW q \in Proc, tx[q].kind = "enumerate"
       PROVE  tx[q].batch \in Batch /\ tx[q].batch # b
  <2>1. tx[q].batch \in Batch /\ batchTask[tx[q].batch].status = "processing"
    BY <1>11 DEF PipeInv, TxTrue, EnumerationTrue
  <2> QED BY <1>2, <2>1
<1>12. TxTrue(p)'
  <2>1. Staged(p)' /\ Sorted(p)'
    BY <1>5, <1>7 DEF Staged, Sorted
  <2>2. EnumerationTrue(p)'
    BY <1>2, <1>3, <1>5, <1>7 DEF EnumerationTrue
  <2>3. ItemHeld(p)' /\ WriterTrue(p)'
    BY <1>5, <1>7 DEF ItemHeld, WriterTrue
  <2> QED BY <2>1, <2>2, <2>3 DEF TxTrue
<1>13. ASSUME NEW q \in Proc \ {p} PROVE TxApart(p, q)'
  <2>1. TxTrue(q) /\ tx'[q] = tx[q]
    BY <1>7 DEF PipeInv
  <2>2. tx[q].batch = b => tx[q].source # NoSource
    <3>1. CASE tx[q].kind = "none"
      BY <2>1, <3>1, PipelineAssumption DEF TxTrue, Staged, NoTxn
    <3>2. CASE tx[q].kind = "enumerate"
      BY <1>11, <3>2
    <3>3. CASE tx[q].kind \in {"materialize", "generate", "move"}
      BY <2>1, <3>3, PipelineAssumption DEF TxTrue, ItemHeld
    <3> QED BY <1>1, <3>1, <3>2, <3>3, TxTypes
  <2> QED BY <1>5, <1>7, <2>1, <2>2 DEF TxApart
<1> QED
  <2>1. \A q \in Proc \ {p} :
          /\ tx'[q] = tx[q]
          /\ item'[tx[q].batch][tx[q].source] = item[tx[q].batch][tx[q].source]
          /\ tx[q].kind = "enumerate" =>
               batchTask'[tx[q].batch].status = batchTask[tx[q].batch].status
    BY <1>3, <1>7, <1>8, <1>11
  <2> QED BY <1>8, <1>9, <1>10, <1>12, <1>13, <2>1, RowsKeep, {p} \in SUBSET Proc

(* A selection is the linked, the planned, the blocked and the ineligible. *)
LEMMA CountsOfSelection ==
  ASSUME NEW b \in Batch, NEW foreign \in SUBSET Foreign(b), Kind[b] # "generate"
  PROVE  LET c == Counts(b, foreign) IN
         /\ c \in Tallies /\ c.submitted = Cardinality(Plan(b))
         /\ c.linked + c.submitted + c.blocked + c.ineligible =
              IF Kind[b] = "materialize" THEN Cardinality(Selection[b])
              ELSE Cardinality(Plan(b))
         /\ Kind[b] = "materialize" /\ c.blocked = 0 =>
              \A s \in Selection[b] \ linked :
                s \in Plan(b) \/ (fitness[s] # "fit" /\ c.ineligible > 0)
<1>1. Selection[b] \subseteq Source /\ Plan(b) \subseteq Selection[b]
  BY PipelineAssumption DEF Plan, Admitted
<1>2. CASE Kind[b] # "materialize"
  <2>1. Cardinality(Plan(b)) \in 0..Cardinality(Source) /\ Cardinality(Source) \in Nat
    BY <1>1, SourcesCount
  <2> QED BY <1>2, <2>1 DEF Counts, Zero, Tallies
<1>3. CASE Kind[b] = "materialize"
  <2> DEFINE unfit == {s \in Selection[b] : Unfit(s)}
             out == unfit \ foreign
             had == (Selection[b] \cap linked) \ out
             plan == Plan(b)
             blocked == foreign \ linked
  <2>1. plan = {s \in Selection[b] \ linked : ~Unfit(s)} /\ foreign \subseteq unfit
    BY <1>3 DEF Plan, Foreign
  <2>2. /\ had \in SUBSET Source /\ plan \in SUBSET Source
        /\ blocked \in SUBSET Source /\ out \in SUBSET Source
    BY <1>1, <2>1
  <2>3. /\ Selection[b] = ((had \cup plan) \cup blocked) \cup out
        /\ had \cap plan = {} /\ (had \cup plan) \cap blocked = {}
        /\ ((had \cup plan) \cup blocked) \cap out = {}
    BY <2>1
  <2>4. Counts(b, foreign) =
          [linked |-> Cardinality(had), submitted |-> Cardinality(plan),
           blocked |-> Cardinality(blocked), ineligible |-> Cardinality(out)]
    BY <1>3 DEF Counts
  <2>5. blocked = {} =>
          \A s \in Selection[b] \ linked : s \in plan \/ (fitness[s] # "fit" /\ s \in out)
    BY <2>1 DEF Unfit
  <2> HIDE DEF had, plan, blocked, out
  <2>6. Cardinality(Selection[b]) = Cardinality(had) + Cardinality(plan)
                                      + Cardinality(blocked) + Cardinality(out)
    <3>1. Cardinality(had \cup plan) = Cardinality(had) + Cardinality(plan)
      BY <2>2, <2>3, PartsAddUp
    <3>2. Cardinality((had \cup plan) \cup blocked) =
            Cardinality(had \cup plan) + Cardinality(blocked)
      BY <2>2, <2>3, PartsAddUp
    <3>3. Cardinality(((had \cup plan) \cup blocked) \cup out) =
            Cardinality((had \cup plan) \cup blocked) + Cardinality(out)
      BY <2>2, <2>3, PartsAddUp
    <3> QED BY <2>3, <3>1, <3>2, <3>3
  <2>7. /\ Cardinality(Source) \in Nat
        /\ Cardinality(had) \in 0..Cardinality(Source)
        /\ Cardinality(plan) \in 0..Cardinality(Source)
        /\ Cardinality(blocked) \in 0..Cardinality(Source)
        /\ Cardinality(out) \in 0..Cardinality(Source)
    BY <2>2, SourcesCount
  <2>8. /\ Cardinality(blocked) = 0 => blocked = {}
        /\ Cardinality(out) = 0 => out = {}
    BY <2>2, SourcesCount, FS_EmptySet
  <2>9. ASSUME Cardinality(blocked) = 0, NEW s \in Selection[b] \ linked
        PROVE  s \in plan \/ (fitness[s] # "fit" /\ Cardinality(out) > 0)
    BY <2>5, <2>7, <2>8, <2>9
  <2> QED BY <1>3, <2>4, <2>6, <2>7, <2>9 DEF Tallies, plan
<1> QED BY <1>2, <1>3

LEMMA SnapshotKeeps ==
  ASSUME PipeInv, NEW p \in Proc, Snapshot(p)
  PROVE  PipeInv'
<1> DEFINE b == tx[p].batch
<1>1. PipeTypes /\ TxTrue(p) /\ mishaps' \in 0..MaxMishaps
  BY DEF PipeInv, PipeTypes, Snapshot
<1>2. tx[p].kind = "enumerate" /\ tx[p].at = "snapshot"
  BY KindOf DEF Snapshot, At
<1>3. /\ b \in Batch /\ tx[p].source = NoSource /\ tx[p].made = {}
      /\ Kind[b] # "generate" /\ batchTask[b].status = "processing"
  BY <1>1, <1>2 DEF TxTrue, EnumerationTrue
<1>4. BatchTrue(b) /\ batchTask[b].enum = "none"
  BY <1>3 DEF PipeInv, BatchTrue
<1>5. CASE b \in expired
  <2>1. batchTask' = [batchTask EXCEPT ![b].status = "skipped", ![b].enum = "expired"]
    BY <1>5 DEF Snapshot
  <2>2. /\ batchTask' \in [Batch -> Enumerations]
        /\ batchTask'[b].status = "skipped" /\ batchTask'[b].enum = "expired"
        /\ \A c \in Batch \ {b} : batchTask'[c] = batchTask[c]
    <3> DEFINE r == [batchTask[b] EXCEPT !.status = "skipped", !.enum = "expired"]
    <3>1. batchTask[b] \in Enumerations
      BY <1>1, <1>3 DEF PipeTypes
    <3>2. r \in Enumerations /\ r.status = "skipped" /\ r.enum = "expired"
      BY <3>1 DEF Enumerations, ItemStatus
    <3>3. batchTask' = [batchTask EXCEPT ![b] = r]
      BY <1>1, <1>3, <2>1 DEF PipeTypes
    <3> HIDE DEF r
    <3> QED BY <1>1, <1>3, <3>2, <3>3 DEF PipeTypes
  <2>3. /\ tx'[p] = NoTxn /\ \A q \in Proc \ {p} : tx'[q] = tx[q]
        /\ tx' \in [Proc -> Transactions]
    BY <1>1, <1>5, NoTxnTyped DEF Snapshot, End, PipeTypes
  <2>4. UNCHANGED <<content, item, expired, demand, mishaps>>
    BY DEF Snapshot
  <2>5. PipeTypes'
    BY <1>1, <2>2, <2>3, <2>4 DEF PipeTypes, content
  <2>6. ASSUME NEW c \in Batch PROVE BatchTrue(c)'
    <3>1. CASE c = b
      BY <1>3, <1>4, <2>2, <2>4, <3>1, SameContent
      DEF BatchTrue, ItemSettled, content, Open
    <3>2. CASE c # b
      BY <2>2, <2>4, <3>2, OtherBatchKept
    <3> QED BY <3>1, <3>2
  <2>7. ASSUME NEW q \in Proc \ {p}
        PROVE  /\ tx'[q] = tx[q]
               /\ item'[tx[q].batch][tx[q].source] = item[tx[q].batch][tx[q].source]
               /\ tx[q].kind = "enumerate" =>
                    batchTask'[tx[q].batch].status = batchTask[tx[q].batch].status
    <3>1. CASE tx[q].kind = "enumerate"
      <4>1. tx[q].batch \in Batch /\ tx[q].source = NoSource /\ TxApart(p, q)
        BY <3>1 DEF PipeInv, TxTrue, EnumerationTrue
      <4>2. tx[q].batch # b
        BY <1>3, <4>1, PipelineAssumption DEF TxApart
      <4> QED BY <2>2, <2>3, <2>4, <4>1, <4>2
    <3>2. CASE tx[q].kind # "enumerate"
      BY <2>3, <2>4, <3>2
    <3> QED BY <3>1, <3>2
  <2>8. TxTrue(p)' /\ \A q \in Proc \ {p} : TxApart(p, q)'
    BY <2>3, NothingIsTrue
  <2> QED BY <2>4, <2>5, <2>6, <2>7, <2>8, RowsKeep, {p} \in SUBSET Proc
<1>6. CASE b \notin expired
  <2> DEFINE plan == Plan(b)
             groups == {Group[s] : s \in plan}
             active == {g \in groups : /\ Kind[b] = "materialize"
                                       /\ ScopeActive(b, InGroup(plan, g))}
             at == IF plan = {} THEN "commit" ELSE "children"
             With(c) == [tx[p] EXCEPT !.at = at, !.plan = plan, !.todo = groups,
                                      !.active = active, !.counts = c]
  <2>1. PICK foreign \in SUBSET Foreign(b) :
          tx' = [tx EXCEPT ![p] = With(Counts(b, foreign))]
    BY <1>6 DEF Snapshot
  <2> DEFINE counts == Counts(b, foreign)
             t == With(counts)
             sum == IF Kind[b] = "materialize" THEN Cardinality(Selection[b])
                    ELSE Cardinality(plan)
  <2>2. /\ Selection[b] \subseteq Source /\ plan \subseteq Selection[b]
        /\ Cardinality(plan) \in Nat
    <3>1. Selection[b] \subseteq Source /\ plan \subseteq Selection[b]
      BY <1>3, PipelineAssumption DEF Plan, Admitted
    <3> QED BY <3>1, SourcesCount
  <2>3. /\ counts \in Tallies /\ counts.submitted = Cardinality(plan)
        /\ counts.linked + counts.submitted + counts.blocked + counts.ineligible = sum
        /\ Kind[b] = "materialize" /\ counts.blocked = 0 =>
             \A s \in Selection[b] \ linked :
               s \in plan \/ (fitness[s] # "fit" /\ counts.ineligible > 0)
    BY <1>3, CountsOfSelection
  <2>5. groups \subseteq Groups /\ active \subseteq Groups
    BY <2>2 DEF Groups
  <2>7. at \in {"children", "commit"} /\ at \in Phase0 /\ (plan = {} => groups = {})
        /\ (at = "commit" => plan = {})
    BY DEF Phase0
  <2>8. {s \in plan : Group[s] \in groups \cup {}} = plan
    OBVIOUS
  <2>9. tx[p] \in Transactions
    BY <1>1 DEF PipeTypes
  <2> HIDE DEF plan, groups, active, at, counts
  <2>11. t \in Transactions
    BY <2>2, <2>3, <2>5, <2>7, <2>9 DEF Transactions
  <2>12. /\ t.at = at /\ t.kind = "enumerate" /\ t.batch = b
         /\ t.source = NoSource /\ t.made = {} /\ t.plan = plan
         /\ t.todo = groups /\ t.counts = counts
    BY <1>2, <1>3, <2>9 DEF Transactions
  <2>10. tx' = [tx EXCEPT ![p] = t]
    BY <2>1 DEF counts
  <2> HIDE DEF t
  <2>13. tx'[p] = t /\ \A q \in Proc \ {p} : tx'[q] = tx[q]
    BY <1>1, <2>10 DEF PipeTypes
  <2>14. linked' = linked /\ fitness' = fitness /\ batchTask' = batchTask
    BY <1>6 DEF Snapshot, content
  <2>15. Submitted(p)' = plan
    BY <2>8, <2>12, <2>13 DEF Submitted
  <2>16. Planned(p)'
    BY <2>2, <2>3, <2>7, <2>12, <2>13, <2>14, <2>15 DEF Planned, groups
  <2>17. TxTrue(p)'
    <3>1. Staged(p)' /\ Sorted(p)'
      BY <2>7, <2>12, <2>13 DEF Staged, Sorted
    <3>2. EnumerationTrue(p)'
      BY <1>3, <2>7, <2>12, <2>13, <2>14, <2>16 DEF EnumerationTrue
    <3>3. ItemHeld(p)' /\ WriterTrue(p)'
      BY <2>12, <2>13 DEF ItemHeld, WriterTrue
    <3> QED BY <3>1, <3>2, <3>3 DEF TxTrue
  <2>18. ASSUME NEW q \in Proc \ {p} PROVE TxApart(p, q)'
    <3>1. TxApart(p, q) /\ tx'[q] = tx[q]
      BY <2>13 DEF PipeInv
    <3> QED BY <1>3, <2>12, <2>13, <3>1 DEF TxApart
  <2> QED BY <1>1, <1>6, <2>10, <2>11, <2>17, <2>18, InsideKeeps DEF Snapshot
<1> QED BY <1>5, <1>6

(* What the child of one group adds to the sources that are submitted.     *)
LEMMA GroupApart ==
  ASSUME NEW P \in SUBSET Source, NEW T \in SUBSET Groups, NEW g \in T
  PROVE  Cardinality({s \in P : Group[s] \in T}) =
           Cardinality({s \in P : Group[s] \in T \ {g}}) + Cardinality(InGroup(P, g))
<1> DEFINE A == {s \in P : Group[s] \in T \ {g}}
           B == InGroup(P, g)
<1>1. /\ A \in SUBSET Source /\ B \in SUBSET Source /\ A \cap B = {}
      /\ {s \in P : Group[s] \in T} = A \cup B
  BY DEF InGroup
<1> HIDE DEF A, B
<1>2. Cardinality(A \cup B) = Cardinality(A) + Cardinality(B)
  BY <1>1, PartsAddUp
<1> QED BY <1>1, <1>2 DEF A, B

LEMMA NextGroup ==
  ASSUME PipeTypes, NEW p \in Proc, NEW g \in NextGroups(tx[p].todo)
  PROVE  /\ g \in tx[p].todo /\ g \in Nat
         /\ \A h \in tx[p].todo \ {g} : g < h
<1>1. Groups \subseteq Nat
  BY PipelineAssumption DEF Groups
<1>2. tx[p].todo \subseteq Nat
  BY <1>1, TxTypes
<1> QED BY <1>2 DEF NextGroups

LEMMA CreateChildKeeps ==
  ASSUME PipeInv, NEW p \in Proc, CreateChild(p)
  PROVE  PipeInv'
<1>1. PipeTypes /\ TxTrue(p) /\ mishaps' \in 0..MaxMishaps
  BY DEF PipeInv, PipeTypes, CreateChild
<1>2. tx[p].kind = "enumerate" /\ tx[p].at = "children"
  BY KindOf DEF CreateChild, At
<1>3. Planned(p) /\ tx[p].batch \in Batch /\ tx[p].source = NoSource
  BY <1>1, <1>2 DEF TxTrue, EnumerationTrue
<1>4. UNCHANGED <<content, batchTask, item, expired, demand, mishaps>>
  BY DEF CreateChild
<1>5. PICK g \in NextGroups(tx[p].todo) :
        LET group == InGroup(tx[p].plan, g)
            isActive == g \in tx[p].active IN
        IF ~isActive /\ ScopeActive(tx[p].batch, group)
        THEN Throw(p)
        ELSE tx' = [tx EXCEPT ![p] = [tx[p] EXCEPT
               !.at = IF tx[p].todo = {g} THEN "commit" ELSE "children",
               !.todo = @ \ {g},
               !.made = IF isActive THEN @ ELSE @ \cup {g},
               !.counts = Counted(@, group, isActive)]]
  BY DEF CreateChild
<1> DEFINE group == InGroup(tx[p].plan, g)
           n == Cardinality(group)
           counts == Counted(tx[p].counts, group, g \in tx[p].active)
           at == IF tx[p].todo = {g} THEN "commit" ELSE "children"
           made == IF g \in tx[p].active THEN tx[p].made ELSE tx[p].made \cup {g}
           t == [tx[p] EXCEPT !.at = at, !.todo = tx[p].todo \ {g},
                              !.made = made, !.counts = counts]
<1>6. CASE Throw(p)
  BY <1>2, <1>4, <1>6, ThrowKeeps
<1>7. CASE tx' = [tx EXCEPT ![p] = t]
  <2>1. tx' = [tx EXCEPT ![p] = t]
    BY <1>7
  <2>2. /\ g \in tx[p].todo /\ g \in Nat /\ \A h \in tx[p].todo \ {g} : g < h
        /\ tx[p].plan \subseteq Source
        /\ tx[p].todo \subseteq Groups /\ tx[p].made \subseteq Groups
        /\ tx[p].counts \in Tallies
    BY <1>1, <1>5, NextGroup, TxTypes
  <2>3. g \notin tx[p].made
    BY <1>3, <2>2 DEF Planned
  <2>4. group \in SUBSET Source /\ n \in 0..Cardinality(Source)
        /\ Cardinality(tx[p].plan) \in 0..Cardinality(Source)
        /\ Cardinality(Source) \in Nat
    <3>1. group \in SUBSET Source
      BY <2>2 DEF InGroup
    <3> QED BY <2>2, <3>1, SourcesCount
  <2> DEFINE sum == IF Kind[tx[p].batch] = "materialize"
                    THEN Cardinality(Selection[tx[p].batch])
                    ELSE Cardinality(tx[p].plan)
  <2>5. LET c == tx[p].counts IN
        /\ c.linked \in 0..Cardinality(Source)
        /\ c.submitted \in 0..Cardinality(Source)
        /\ c.blocked \in 0..Cardinality(Source)
        /\ c.ineligible \in 0..Cardinality(Source)
        /\ c.linked + c.submitted + c.blocked + c.ineligible = sum
        /\ c.blocked = 0 => c.submitted = Cardinality(tx[p].plan)
        /\ c.submitted = Cardinality(Submitted(p))
    BY <1>3, <2>2 DEF Tallies, Planned
  <2>20. sum \in 0..Cardinality(Source)
    <3>1. Selection[tx[p].batch] \in SUBSET Source
      BY <1>3, PipelineAssumption
    <3> QED BY <2>4, <3>1, SourcesCount
  <2> HIDE DEF sum
  <2> DEFINE rest == {s \in tx[p].plan : Group[s] \in (tx[p].todo \ {g}) \cup made}
  <2>6. rest \in SUBSET Source
    BY <2>2
  <2>7. Cardinality(rest) \in Nat
    BY <2>4, <2>6, SourcesCount
  <2>8. /\ counts \in Tallies /\ counts.submitted = Cardinality(rest)
        /\ counts.linked + counts.submitted + counts.blocked + counts.ineligible = sum
        /\ counts.blocked = 0 => counts.submitted = Cardinality(tx[p].plan)
        /\ counts.blocked = 0 => tx[p].counts.blocked = 0
        /\ counts.ineligible = tx[p].counts.ineligible
    <3>1. CASE g \in tx[p].active
      <4>1. rest = {s \in tx[p].plan :
                      Group[s] \in (tx[p].todo \cup tx[p].made) \ {g}}
        BY <2>3, <3>1
      <4>2. Cardinality(Submitted(p)) = Cardinality(rest) + n
        <5> DEFINE T == tx[p].todo \cup tx[p].made
        <5>1. T \in SUBSET Groups /\ g \in T /\ tx[p].plan \in SUBSET Source
          BY <2>2
        <5> HIDE DEF T
        <5>2. Cardinality({s \in tx[p].plan : Group[s] \in T}) =
                Cardinality({s \in tx[p].plan : Group[s] \in T \ {g}})
                  + Cardinality(InGroup(tx[p].plan, g))
          BY <5>1, GroupApart
        <5> QED BY <4>1, <5>2 DEF Submitted, T
      <4>3. counts = [tx[p].counts EXCEPT !.blocked = @ + n, !.submitted = @ - n]
        BY <3>1 DEF Counted
      <4> HIDE DEF rest, n
      <4>4. /\ counts.blocked = tx[p].counts.blocked + n
            /\ counts.submitted = tx[p].counts.submitted - n
            /\ counts.linked = tx[p].counts.linked
            /\ counts.ineligible = tx[p].counts.ineligible
        BY <2>2, <4>3 DEF Tallies
      <4>5. tx[p].counts.submitted - n = Cardinality(rest)
        BY <2>4, <2>5, <2>7, <4>2
      <4>6. tx[p].counts.blocked + n \in 0..Cardinality(Source)
            /\ tx[p].counts.submitted - n \in 0..Cardinality(Source)
        BY <2>4, <2>5, <2>7, <2>20, <4>5
      <4>7. counts \in Tallies
        BY <2>2, <4>3, <4>6 DEF Tallies
      <4>8. counts.blocked = 0 => n = 0 /\ tx[p].counts.blocked = 0
        BY <2>4, <2>5, <4>4
      <4> QED BY <2>4, <2>5, <4>4, <4>5, <4>7, <4>8
    <3>2. CASE g \notin tx[p].active
      <4>1. rest = Submitted(p)
        BY <2>2, <3>2 DEF Submitted
      <4>2. counts = tx[p].counts
        BY <3>2 DEF Counted
      <4> HIDE DEF rest, counts
      <4> QED BY <2>2, <2>5, <4>1, <4>2
    <3> QED BY <3>1, <3>2
  <2>9. tx[p] \in Transactions
    BY <1>1 DEF PipeTypes
  <2>10. /\ at \in {"children", "commit"} /\ at \in Phase0
         /\ at = "commit" => tx[p].todo \ {g} = {}
    BY DEF Phase0
  <2>11. /\ made \subseteq Groups
         /\ (tx[p].todo \ {g}) \cup made \subseteq tx[p].todo \cup tx[p].made
         /\ \A h \in made : h \in tx[p].made \/ h = g
    BY <2>2
  <2> HIDE DEF counts, at, made
  <2>12. t \in Transactions
    BY <2>2, <2>8, <2>9, <2>10, <2>11 DEF Transactions
  <2>13. /\ t.at = at /\ t.kind = "enumerate" /\ t.batch = tx[p].batch
         /\ t.source = NoSource /\ t.made = made /\ t.plan = tx[p].plan
         /\ t.todo = tx[p].todo \ {g} /\ t.counts = counts
    BY <1>2, <1>3, <2>9 DEF Transactions
  <2> HIDE DEF t
  <2>14. tx'[p] = t /\ \A q \in Proc \ {p} : tx'[q] = tx[q]
    BY <1>1, <2>1 DEF PipeTypes
  <2>15. linked' = linked /\ batchTask' = batchTask
    BY <1>4 DEF content
  <2>16. Submitted(p)' = rest
    BY <2>13, <2>14 DEF Submitted
  <2> HIDE DEF rest
  <2>17. Planned(p)'
    <3>1. /\ t.todo \cup t.made \subseteq {Group[s] : s \in t.plan}
          /\ \A x \in t.made, h \in t.todo : x < h
      BY <1>3, <2>2, <2>11, <2>13 DEF Planned
    <3>2. Kind[t.batch] = "materialize" /\ t.counts.blocked = 0 =>
            \A s \in Selection[t.batch] \ linked :
              s \in t.plan \/ (fitness[s] # "fit" /\ t.counts.ineligible > 0)
      BY <1>3, <2>8, <2>13 DEF Planned
    <3>3. fitness' = fitness
      BY <1>4 DEF content
    <3>4. t.counts.linked + t.counts.submitted + t.counts.blocked
            + t.counts.ineligible =
            IF Kind[t.batch] = "materialize" THEN Cardinality(Selection[t.batch])
            ELSE Cardinality(t.plan)
      BY <2>8, <2>13 DEF sum
    <3> QED BY <3>3, <3>4, <2>8, <2>10, <2>13, <2>14, <2>15, <2>16, <3>1, <3>2 DEF Planned
  <2>18. TxTrue(p)'
    <3>1. Staged(p)'
      BY <2>10, <2>13, <2>14 DEF Staged
    <3>2. Sorted(p)'
      BY <1>1, <2>2, <2>11, <2>13, <2>14 DEF TxTrue, Sorted
    <3>3. EnumerationTrue(p)'
      BY <1>1, <1>2, <2>10, <2>13, <2>14, <2>15, <2>17 DEF EnumerationTrue, TxTrue
    <3>4. ItemHeld(p)' /\ WriterTrue(p)'
      BY <2>13, <2>14 DEF ItemHeld, WriterTrue
    <3> QED BY <3>1, <3>2, <3>3, <3>4 DEF TxTrue
  <2>19. ASSUME NEW q \in Proc \ {p} PROVE TxApart(p, q)'
    <3>1. TxApart(p, q) /\ tx'[q] = tx[q]
      BY <2>14 DEF PipeInv
    <3> QED BY <1>3, <2>13, <2>14, <3>1 DEF TxApart
  <2> QED BY <1>1, <1>4, <2>1, <2>12, <2>18, <2>19, InsideKeeps
<1>8. tx[p] \in Transactions
  BY <1>1 DEF PipeTypes
<1>9. t = [tx[p] EXCEPT
             !.at = IF tx[p].todo = {g} THEN "commit" ELSE "children",
             !.todo = @ \ {g},
             !.made = IF g \in tx[p].active THEN @ ELSE @ \cup {g},
             !.counts = Counted(@, group, g \in tx[p].active)]
  BY <1>8 DEF Transactions
<1> HIDE DEF t
<1> QED BY <1>5, <1>6, <1>7, <1>9

LEMMA CommitParentKeeps ==
  ASSUME PipeInv, NEW p \in Proc, CommitParent(p)
  PROVE  PipeInv'
<1> DEFINE c == tx[p].counts
           made == {s \in tx[p].plan : Group[s] \in tx[p].made}
           r == [status |-> "success", enum |-> "completed", counts |-> c]
<1>1. PipeTypes /\ TxTrue(p)
  BY DEF PipeInv
<1>2. tx[p].kind = "enumerate" /\ tx[p].at = "commit"
  BY DEF CommitParent, At
<1>3. PICK b \in Batch :
        /\ b = tx[p].batch /\ tx[p].source = NoSource /\ Planned(p)
        /\ Kind[b] # "generate" /\ batchTask[b].status = "processing"
  BY <1>1, <1>2 DEF TxTrue, EnumerationTrue
<1>4. BatchTrue(b) /\ batchTask[b].enum = "none" /\ \A s \in Source : item[b][s] = "none"
  BY <1>3 DEF PipeInv, BatchTrue
<1>5. /\ tx[p].plan \subseteq Source /\ c \in Tallies /\ tx[p].todo = {}
      /\ made = Submitted(p)
  BY <1>1, <1>2, <1>3, TxTypes DEF Planned, Submitted
<1>6. r \in Enumerations /\ r.status = "success" /\ r.enum = "completed"
      /\ r.counts = c
  BY <1>5 DEF Enumerations, ItemStatus
<1>7. /\ batchTask' \in [Batch -> Enumerations] /\ batchTask'[b] = r
      /\ \A d \in Batch \ {b} : batchTask'[d] = batchTask[d]
  BY <1>1, <1>3, <1>6 DEF CommitParent, PipeTypes
<1>8. /\ item' \in [Batch -> [Source -> ItemStatus]]
      /\ \A s \in Source : item'[b][s] = IF s \in made THEN "pending" ELSE "none"
      /\ \A d \in Batch \ {b} : item'[d] = item[d]
  <2> DEFINE childRow == [s \in Source |-> IF s \in made THEN "pending" ELSE item[b][s]]
  <2>1. item' = [item EXCEPT ![b] = childRow]
    BY <1>3 DEF CommitParent
  <2>2. childRow \in [Source -> ItemStatus]
    BY <1>1, <1>3, EnumerationTypes DEF ItemStatus, Open
  <2>3. \A s \in Source : childRow[s] = IF s \in made THEN "pending" ELSE "none"
    BY <1>4
  <2> HIDE DEF childRow, made
  <2> QED BY <1>1, <1>3, <2>1, <2>2, <2>3 DEF PipeTypes
<1>9. /\ tx'[p] = NoTxn /\ \A q \in Proc \ {p} : tx'[q] = tx[q]
      /\ tx' \in [Proc -> Transactions]
  BY <1>1, NoTxnTyped DEF CommitParent, End, PipeTypes
<1>10. UNCHANGED <<content, expired, demand, mishaps>>
  BY DEF CommitParent
<1>11. PipeTypes'
  BY <1>1, <1>7, <1>8, <1>9, <1>10 DEF PipeTypes, content
<1>12. {s \in Source : item'[b][s] # "none"} = Submitted(p)
  BY <1>5, <1>8
<1>13. c.blocked = 0 => Submitted(p) = tx[p].plan
  <2>1. SUFFICES ASSUME c.blocked = 0 PROVE Submitted(p) = tx[p].plan
    OBVIOUS
  <2>2. Cardinality(Submitted(p)) = Cardinality(tx[p].plan)
    BY <1>3, <1>5, <2>1 DEF Planned, Tallies
  <2>3. IsFiniteSet(tx[p].plan) /\ Submitted(p) \in SUBSET tx[p].plan
    BY <1>5, SourcesCount DEF Submitted
  <2> QED BY <2>2, <2>3, FS_Subset
<1>14. ASSUME NEW d \in Batch PROVE BatchTrue(d)'
  <2>1. CASE d = b
    <3>1. Kind[b] = "materialize" \/ Kind[b] = "generate_all"
      BY <1>3, PipelineAssumption DEF Generating
    <3>2. Kind[b] # "generate_all" =>
            c.linked + c.submitted + c.blocked + c.ineligible =
              Cardinality(Selection[b])
      BY <1>3, <3>1 DEF Planned
    <3>3. Kind[b] = "materialize" /\ c.blocked = 0 =>
            \A s \in Selection[b] \ linked :
              item'[b][s] # "none" \/ (fitness[s] # "fit" /\ c.ineligible > 0)
      BY <1>3, <1>5, <1>8, <1>13 DEF Planned
    <3>4. c.submitted = Cardinality({s \in Source : item'[b][s] # "none"})
      BY <1>3, <1>12 DEF Planned
    <3>5. ASSUME NEW s \in Source PROVE ItemSettled(b, s)'
      <4>1. item'[b][s] = "pending" \/ item'[b][s] = "none"
        BY <1>8
      <4> QED BY <4>1 DEF ItemSettled
    <3>6. b \notin demand'.batches /\ linked' = linked /\ fitness' = fitness
      BY <1>3, <1>4, <1>10 DEF BatchTrue, content
    <3>7. /\ batchTask'[d].status = "success" /\ batchTask'[d].enum = "completed"
          /\ batchTask'[d].counts = c
      BY <1>6, <1>7, <2>1
    <3> HIDE DEF r, c, made
    <3> QED BY <1>3, <2>1, <3>2, <3>3, <3>4, <3>5, <3>6, <3>7 DEF BatchTrue, Open
  <2>2. CASE d # b
    BY <1>7, <1>8, <1>10, <2>2, OtherBatchKept
  <2> QED BY <2>1, <2>2
<1>15. ASSUME NEW q \in Proc \ {p}
       PROVE  /\ tx'[q] = tx[q]
              /\ tx[q].kind \in {"materialize", "generate"} /\ tx[q].batch \in Batch =>
                   item'[tx[q].batch][tx[q].source] =
                     item[tx[q].batch][tx[q].source]
              /\ tx[q].kind = "enumerate" =>
                   batchTask'[tx[q].batch].status = batchTask[tx[q].batch].status
  <2>1. TxTrue(q) /\ tx'[q] = tx[q] /\ TxApart(p, q)
    BY <1>9 DEF PipeInv
  <2>2. CASE tx[q].kind = "enumerate"
    <3>1. tx[q].batch \in Batch /\ tx[q].source = NoSource
      BY <2>1, <2>2 DEF TxTrue, EnumerationTrue
    <3>2. tx[q].batch # b
      BY <1>3, <2>1, <3>1, PipelineAssumption DEF TxApart
    <3> QED BY <1>7, <2>1, <2>2, <3>1, <3>2
  <2>3. CASE tx[q].kind \in {"materialize", "generate"} /\ tx[q].batch \in Batch
    <3>1. /\ tx[q].source \in Source
          /\ item[tx[q].batch][tx[q].source] = "processing"
      BY <2>1, <2>3, PipelineAssumption DEF TxTrue, ItemHeld
    <3>2. tx[q].batch # b
      BY <1>4, <3>1
    <3> QED BY <1>8, <2>1, <2>3, <3>1, <3>2
  <2> QED BY <2>1, <2>2, <2>3
<1>16. TxTrue(p)' /\ \A q \in Proc \ {p} : TxApart(p, q)'
  BY <1>9, NothingIsTrue
<1> QED BY <1>10, <1>11, <1>14, <1>15, <1>16, RowsKeep, {p} \in SUBSET Proc

LEMMA ClaimItemKeeps ==
  ASSUME PipeInv, NEW p \in Proc, NEW b \in Batch, NEW s \in Source,
         ClaimItem(p, b, s)
  PROVE  PipeInv'
<1> DEFINE kind == IF Kind[b] = "materialize" THEN "materialize" ELSE "generate"
           at == IF Kind[b] = "materialize" THEN "read" ELSE "lock"
           t == [NoTxn EXCEPT !.at = at, !.kind = kind, !.batch = b, !.source = s]
<1>1. PipeTypes /\ item[b][s] = "pending"
  BY DEF PipeInv, ClaimItem
<1>2. /\ item' \in [Batch -> [Source -> ItemStatus]]
      /\ \A c \in Batch, u \in Source :
           item'[c][u] = IF c = b /\ u = s THEN "processing" ELSE item[c][u]
  <2>1. PICK st \in ItemStatus :
          st = "processing" /\ item' = [item EXCEPT ![b][s] = st]
    BY DEF ClaimItem, ItemStatus, Open
  <2> QED BY <1>1, <2>1 DEF PipeTypes
<1>3. /\ kind \in {"materialize", "generate"} /\ at \in Phase0
      /\ Kind[b] = "materialize" <=> kind = "materialize"
      /\ kind = "materialize" => at = "read"
      /\ kind = "generate" => at = "lock"
  BY DEF Phase0
<1>4. tx' = [tx EXCEPT ![p] = t]
  BY DEF ClaimItem
<1> HIDE DEF kind, at
<1>5. t \in Transactions
  BY <1>3, NoTxnTyped DEF Transactions
<1>6. t.at = at /\ t.kind = kind /\ t.batch = b /\ t.source = s /\ t.made = {}
  BY DEF NoTxn
<1> HIDE DEF t
<1>7. /\ tx' \in [Proc -> Transactions] /\ tx'[p] = t
      /\ \A q \in Proc \ {p} : tx'[q] = tx[q]
  BY <1>1, <1>4, <1>5 DEF PipeTypes
<1>8. UNCHANGED <<content, batchTask, expired, demand, mishaps>>
  BY DEF ClaimItem
<1>9. PipeTypes'
  BY <1>1, <1>2, <1>7, <1>8 DEF PipeTypes, content
<1>10. ASSUME NEW c \in Batch PROVE BatchTrue(c)'
  BY <1>1, <1>2, <1>8, OtherBatchKept DEF Open
<1>11. TxTrue(p)'
  <2>1. Staged(p)' /\ Sorted(p)' /\ EnumerationTrue(p)' /\ WriterTrue(p)'
    BY <1>3, <1>6, <1>7 DEF Staged, Sorted, EnumerationTrue, WriterTrue
  <2>2. ItemHeld(p)'
    BY <1>2, <1>3, <1>6, <1>7 DEF ItemHeld
  <2> QED BY <2>1, <2>2 DEF TxTrue
<1>12. ASSUME NEW q \in Proc \ {p}
       PROVE  /\ ~(tx[q].batch = b /\ tx[q].source = s)
              /\ TxTrue(q)
  <2>1. TxTrue(q)
    BY DEF PipeInv
  <2>2. CASE tx[q].kind = "none"
    BY <2>1, <2>2, PipelineAssumption DEF TxTrue, Staged, NoTxn
  <2>3. CASE tx[q].kind = "enumerate"
    BY <2>1, <2>3, PipelineAssumption DEF TxTrue, EnumerationTrue
  <2>4. CASE tx[q].kind \in {"materialize", "generate", "move"}
    BY <1>1, <2>1, <2>4, PipelineAssumption DEF TxTrue, ItemHeld
  <2> QED BY <1>1, <2>1, <2>2, <2>3, <2>4, TxTypes
<1>13. ASSUME NEW q \in Proc \ {p} PROVE TxApart(p, q)'
  BY <1>3, <1>6, <1>7, <1>12 DEF TxApart, AtNovel
<1>14. ASSUME NEW q \in Proc \ {p},
              tx[q].kind \in {"materialize", "generate"}, tx[q].batch \in Batch
       PROVE  item'[tx[q].batch][tx[q].source] = item[tx[q].batch][tx[q].source]
  BY <1>2, <1>12, <1>14 DEF TxTrue, ItemHeld
<1> QED BY <1>7, <1>8, <1>9, <1>10, <1>11, <1>13, <1>14, RowsKeep, {p} \in SUBSET Proc

(* An item changes that no transaction has.                                *)
LEMMA FreeItemKeeps ==
  ASSUME PipeInv, NEW b \in Batch, NEW s \in Source, NEW st \in ItemStatus,
         item' = [item EXCEPT ![b][s] = st],
         UNCHANGED <<content, batchTask, expired, demand, tx, mishaps>>,
         item[b][s] \in Open,
         st \in Open \/ (st = "skipped" /\ b \in expired),
         \A q \in Proc : tx[q].batch # b \/ tx[q].source # s \/ item[b][s] = "pending"
  PROVE  PipeInv'
<1>1. PipeTypes
  BY DEF PipeInv
<1>2. /\ item' \in [Batch -> [Source -> ItemStatus]]
      /\ \A c \in Batch, u \in Source :
           item'[c][u] = IF c = b /\ u = s THEN st ELSE item[c][u]
  BY <1>1 DEF PipeTypes
<1>3. PipeTypes'
  BY <1>1, <1>2 DEF PipeTypes, content
<1>4. ASSUME NEW c \in Batch PROVE BatchTrue(c)'
  <2>1. BatchTrue(c) /\ linked' = linked /\ CausesKept
    BY SameContent DEF PipeInv
  <2>2. \A u \in Source : item'[c][u] = "none" <=> item[c][u] = "none"
    BY <1>2 DEF Open
  <2>3. ASSUME NEW u \in Source, Kind[c] = "materialize" PROVE ItemSettled(c, u)'
    <3>1. ItemSettled(c, u)
      BY <2>1, <2>3 DEF BatchTrue
    <3>2. CASE c = b /\ u = s
      BY <1>2, <3>2 DEF ItemSettled, Open
    <3>3. CASE ~(c = b /\ u = s)
      BY <1>2, <2>1, <3>1, <3>3, SettledKept
    <3> QED BY <3>2, <3>3
  <2> QED BY <2>1, <2>2, <2>3, BatchKept
<1>5. ASSUME NEW q \in Proc,
             tx[q].kind \in {"materialize", "generate"}, tx[q].batch \in Batch
      PROVE  item'[tx[q].batch][tx[q].source] = item[tx[q].batch][tx[q].source]
  <2>1. /\ tx[q].source \in Source
        /\ item[tx[q].batch][tx[q].source] = "processing"
    BY <1>5, PipelineAssumption DEF PipeInv, TxTrue, ItemHeld
  <2> QED BY <1>2, <1>5, <2>1
<1> QED BY <1>3, <1>4, <1>5, RowsKeep, {} \in SUBSET Proc

LEMMA SkipExpiredKeeps ==
  ASSUME PipeInv, NEW b \in Batch, NEW s \in Source, SkipExpired(b, s)
  PROVE  PipeInv'
BY FreeItemKeeps DEF SkipExpired, ItemStatus, Open

LEMMA RecoverKeeps ==
  ASSUME PipeInv, NEW b \in Batch, Recover(b)
  PROVE  PipeInv'
<1>1. ASSUME NEW s \in Source, Lost(b, s),
             item' = [item EXCEPT ![b][s] = "pending"], UNCHANGED batchTask
      PROVE  PipeInv'
  <2>1. UNCHANGED <<content, batchTask, expired, demand, tx, mishaps>>
    BY <1>1 DEF Recover
  <2>2. /\ item[b][s] \in Open /\ "pending" \in Open /\ "pending" \in ItemStatus
        /\ \A q \in Proc :
             tx[q].batch # b \/ tx[q].source # s \/ item[b][s] = "pending"
    BY <1>1 DEF Lost, ItemStatus, Open
  <2>3. PICK st \in ItemStatus :
          item' = [item EXCEPT ![b][s] = st] /\ st \in Open
    BY <1>1, <2>2
  <2> QED BY <2>1, <2>2, <2>3, FreeItemKeeps
<1>2. ASSUME batchTask[b].status = "processing",
             \A p \in Proc : tx[p].kind = "enumerate" => tx[p].batch # b,
             batchTask' = [batchTask EXCEPT ![b].status = "pending"],
             UNCHANGED item
      PROVE  PipeInv'
  <2>1. PipeTypes /\ BatchTrue(b)
    BY DEF PipeInv
  <2>2. /\ batchTask' \in [Batch -> Enumerations]
        /\ batchTask'[b].status = "pending"
        /\ batchTask'[b].enum = batchTask[b].enum
        /\ batchTask'[b].counts = batchTask[b].counts
        /\ \A c \in Batch \ {b} : batchTask'[c] = batchTask[c]
    BY <1>2, <2>1, BatchRow DEF ItemStatus, Open
  <2>3. UNCHANGED <<content, item, expired, demand, tx, mishaps>>
    BY <1>2 DEF Recover
  <2>4. PipeTypes'
    BY <2>1, <2>2, <2>3 DEF PipeTypes, content
  <2>5. ASSUME NEW c \in Batch PROVE BatchTrue(c)'
    <3>1. CASE c = b
      BY <1>2, <2>1, <2>2, <2>3, <3>1, SameContent
      DEF BatchTrue, ItemSettled, content, Open
    <3>2. CASE c # b
      BY <2>2, <2>3, <3>2, OtherBatchKept
    <3> QED BY <3>1, <3>2
  <2>6. ASSUME NEW q \in Proc, tx[q].kind = "enumerate"
        PROVE  batchTask'[tx[q].batch].status = batchTask[tx[q].batch].status
    <3>1. tx[q].batch \in Batch /\ tx[q].batch # b
      BY <1>2, <2>6 DEF PipeInv, TxTrue, EnumerationTrue
    <3> QED BY <2>2, <3>1
  <2> QED BY <2>3, <2>4, <2>5, <2>6, RowsKeep, {} \in SUBSET Proc
<1> QED BY <1>1, <1>2 DEF Recover

LEMMA RequestKeeps ==
  ASSUME PipeInv, NEW p \in Proc, NEW r \in Inline, Request(p, r)
  PROVE  PipeInv'
<1> DEFINE at == CASE r.kind = "materialize" -> "read"
                   [] r.kind = "generate" -> "lock"
                   [] r.kind = "move" -> "move"
           t == [NoTxn EXCEPT !.at = at, !.kind = r.kind, !.source = r.source,
                              !.to = r.to]
<1>1. PipeTypes
  BY DEF PipeInv
<1>2. /\ r.kind \in {"materialize", "generate", "move"} /\ r.source \in Source
      /\ r.to \in Source \cup {NoSource}
  BY PipelineAssumption
<1>3. /\ at \in Phase0
      /\ r.kind = "materialize" => at = "read"
      /\ r.kind = "generate" => at = "lock"
      /\ r.kind = "move" => at = "move"
  BY <1>2 DEF Phase0
<1>4. tx' = [tx EXCEPT ![p] = t]
  BY DEF Request
<1> HIDE DEF at
<1>5. t \in Transactions
  BY <1>2, <1>3, NoTxnTyped DEF Transactions
<1>6. /\ t.at = at /\ t.kind = r.kind /\ t.batch = NoBatch
      /\ t.source = r.source /\ t.made = {}
  BY DEF NoTxn
<1> HIDE DEF t
<1>7. /\ tx' \in [Proc -> Transactions] /\ tx'[p] = t
      /\ \A q \in Proc \ {p} : tx'[q] = tx[q]
  BY <1>1, <1>4, <1>5 DEF PipeTypes
<1>8. UNCHANGED <<content, batchTask, item, expired, mishaps>>
  BY DEF Request
<1>9. /\ demand' \in Asked /\ demand'.slugs = demand.slugs
      /\ demand'.batches = demand.batches
  BY <1>1 DEF Request, PipeTypes, Asked
<1>10. PipeTypes'
  BY <1>1, <1>7, <1>8, <1>9 DEF PipeTypes, content
<1>11. ASSUME NEW c \in Batch PROVE BatchTrue(c)'
  BY <1>8, <1>9, OtherBatchKept
<1>12. TxTrue(p)'
  <2>1. Staged(p)' /\ Sorted(p)' /\ EnumerationTrue(p)' /\ WriterTrue(p)'
    BY <1>2, <1>3, <1>6, <1>7 DEF Staged, Sorted, EnumerationTrue, WriterTrue
  <2>2. ItemHeld(p)'
    BY <1>2, <1>6, <1>7 DEF ItemHeld
  <2> QED BY <2>1, <2>2 DEF TxTrue
<1>13. ASSUME NEW q \in Proc \ {p} PROVE TxApart(p, q)'
  BY <1>2, <1>3, <1>6, <1>7 DEF TxApart, AtNovel
<1> QED
  BY <1>7, <1>8, <1>9, <1>10, <1>11, <1>12, <1>13, RowsKeep, {p} \in SUBSET Proc

LEMMA FallbackKeeps ==
  ASSUME PipeInv, NEW p \in Proc, Fallback(p)
  PROVE  PipeInv'
<1>1. PipeTypes /\ TxTrue(p) /\ tx[p].at = "fallback"
  BY DEF PipeInv, Fallback, At
<1>2. CASE tx[p].kind = "enumerate"
  <2>1. PICK b \in Batch :
          /\ b = tx[p].batch /\ tx[p].source = NoSource
          /\ batchTask[b].status = "processing"
    BY <1>1, <1>2 DEF TxTrue, EnumerationTrue
  <2>2. BatchTrue(b) /\ batchTask[b].enum = "none"
    BY <2>1 DEF PipeInv, BatchTrue
  <2>3. /\ batchTask' \in [Batch -> Enumerations]
        /\ batchTask'[b].status = "failed"
        /\ batchTask'[b].enum = batchTask[b].enum
        /\ batchTask'[b].counts = batchTask[b].counts
        /\ \A c \in Batch \ {b} : batchTask'[c] = batchTask[c]
    BY <1>1, <1>2, <2>1, BatchRow DEF Fallback, ItemStatus
  <2>4. UNCHANGED <<content, item, expired, demand, mishaps>>
    BY <1>2 DEF Fallback
  <2>5. /\ tx'[p] = NoTxn /\ \A q \in Proc \ {p} : tx'[q] = tx[q]
        /\ tx' \in [Proc -> Transactions]
    BY <1>1, NoTxnTyped DEF Fallback, End, PipeTypes
  <2>6. PipeTypes'
    BY <1>1, <2>3, <2>4, <2>5 DEF PipeTypes, content
  <2>7. ASSUME NEW c \in Batch PROVE BatchTrue(c)'
    <3>1. CASE c = b
      BY <2>1, <2>2, <2>3, <2>4, <3>1, SameContent
      DEF BatchTrue, ItemSettled, content, Open
    <3>2. CASE c # b
      BY <2>3, <2>4, <3>2, OtherBatchKept
    <3> QED BY <3>1, <3>2
  <2>8. ASSUME NEW q \in Proc \ {p}, tx[q].kind = "enumerate"
        PROVE  batchTask'[tx[q].batch].status = batchTask[tx[q].batch].status
    <3>1. tx[q].batch \in Batch /\ tx[q].source = NoSource /\ TxApart(p, q)
      BY <2>8 DEF PipeInv, TxTrue, EnumerationTrue
    <3>2. tx[q].batch # b
      BY <2>1, <3>1, PipelineAssumption DEF TxApart
    <3> QED BY <2>3, <3>1, <3>2
  <2>9. TxTrue(p)' /\ \A q \in Proc \ {p} : TxApart(p, q)'
    BY <2>5, NothingIsTrue
  <2> QED BY <2>4, <2>5, <2>6, <2>7, <2>8, <2>9, RowsKeep, {p} \in SUBSET Proc
<1>3. CASE tx[p].kind \in {"materialize", "generate"}
  <2>1. Outcome(p, "failed") /\ End(p)
        /\ UNCHANGED <<content, batchTask, expired, demand, mishaps>>
    BY <1>3 DEF Fallback
  <2>2. tx[p].kind = "materialize" => Caused(tx[p].source)
    BY <1>1 DEF TxTrue, WriterTrue
  <2> QED BY <1>3, <2>1, <2>2, SameContent, OutcomeKeeps
<1> QED BY <1>1, <1>2, <1>3, KindOf DEF At

(* Who waits, and for whom, when all of them wait.                         *)
LEMMA WhoWaits ==
  ASSUME PipeInv, NEW p \in Proc, NEW q \in Proc, NEW r \in Proc,
         Waits(p, q), Waits(q, r)
  PROVE  \/ /\ At(p, "children") /\ At(q, "children")
            /\ \E g \in NextGroups(tx[p].todo) \ tx[p].active : DraftedBy(p, g, q)
         \/ At(p, "create") /\ At(q, "link")
         \/ At(p, "lock") /\ At(q, "insert")
         \/ At(p, "insert") /\ At(q, "check") /\ tx[q].to = tx[p].source
         \/ At(p, "move") /\ At(q, "check")
         \/ At(p, "check") /\ At(q, "insert") /\ tx[p].to = tx[q].source
<1>1. TxTrue(q)
  BY DEF PipeInv
<1>2. tx[q].at \in {"children", "create", "link", "lock", "insert", "move", "check"}
  BY DEF Waits
<1>3. tx[p].at \in {"children", "create", "link", "lock", "insert", "move", "check"}
  BY DEF Waits
<1>4. CASE tx[p].at = "children"
  BY <1>1, <1>2, <1>4 DEF Waits, DraftedBy, TxTrue, Staged, At
<1>5. CASE tx[p].at = "create"
  BY <1>1, <1>2, <1>5 DEF Waits, TxTrue, Staged, At
<1>6. CASE tx[p].at = "link"
  BY <1>1, <1>2, <1>6 DEF Waits
<1>7. CASE tx[p].at = "lock"
  BY <1>1, <1>2, <1>7 DEF Waits, At
<1>8. CASE tx[p].at = "insert"
  BY <1>1, <1>2, <1>8 DEF Waits, At
<1>9. CASE tx[p].at = "move"
  BY <1>1, <1>2, <1>9 DEF Waits, At
<1>10. CASE tx[p].at = "check"
  BY <1>1, <1>2, <1>10 DEF Waits, At
<1> QED BY <1>3, <1>4, <1>5, <1>6, <1>7, <1>8, <1>9, <1>10

\* A materialization is never a deadlock's victim.
LEMMA MaterializingGoesOn ==
  ASSUME PipeInv, NEW S \in SUBSET Proc, Stuck(S), NEW p \in S
  PROVE  tx[p].kind # "materialize"
<1>1. SUFFICES ASSUME tx[p].kind = "materialize" PROVE FALSE
  OBVIOUS
<1>2. PICK q \in S : Waits(p, q)
  BY DEF Stuck
<1>3. PICK r \in S : Waits(q, r)
  BY DEF Stuck
<1>4. PICK u \in S : Waits(r, u)
  BY DEF Stuck
<1>5. TxTrue(p)
  BY DEF PipeInv
<1>6. At(p, "create") /\ At(q, "link")
  BY <1>1, <1>2, <1>3, <1>5, WhoWaits DEF At, TxTrue, Staged
<1> QED BY <1>3, <1>4, <1>6, WhoWaits DEF At

LEMMA VictimKeeps ==
  ASSUME PipeInv, NEW p \in Proc, DeadlockVictim(p)
  PROVE  PipeInv'
BY MaterializingGoesOn, ThrowKeeps DEF DeadlockVictim

LEMMA DieKeeps ==
  ASSUME PipeInv, NEW p \in Proc, Die(p)
  PROVE  PipeInv'
<1>1. mishaps' \in 0..MaxMishaps
  BY PipelineAssumption DEF PipeInv, PipeTypes, Die
<1> QED BY <1>1, EndKeeps DEF Die

LEMMA ChangeKeeps ==
  ASSUME PipeInv, NEW s \in Source, Change(s)
  PROVE  PipeInv'
<1>1. PipeTypes /\ UNCHANGED <<novels, linked, articles, batchTask, item, expired, tx,
                              mishaps>>
  BY DEF PipeInv, Change
<1>2. CausesKept
  <2>1. demand'.slugs = demand.slugs
    BY <1>1 DEF Change, PipeTypes, Asked
  <2>2. \A u \in Source : Exhausted(u) => Exhausted(u)'
    BY <1>1, <2>1, SlugsStayTaken
  <2> QED BY <1>1, <2>2 DEF Change, Unfit, CausesKept, PipeTypes, Fitness
<1>3. demand' \in Asked /\ demand'.batches = demand.batches
  BY <1>1 DEF Change, PipeTypes, Asked
<1>4. PipeTypes' /\ NovelsTrue'
  BY <1>1, <1>2, <1>3 DEF PipeInv, PipeTypes, NovelsTrue, CausesKept
<1>5. ASSUME NEW b \in Batch PROVE BatchTrue(b)'
  <2>1. BatchTrue(b)
    BY DEF PipeInv
  <2>2. ASSUME NEW u \in Source, Kind[b] = "materialize" PROVE ItemSettled(b, u)'
    <3>1. ItemSettled(b, u)
      BY <2>1, <2>2 DEF BatchTrue
    <3> QED BY <1>1, <1>2, <3>1, SettledKept
  <2> QED BY <1>1, <1>2, <1>3, <2>1, <2>2, BatchKept
<1>6. ASSUME NEW q \in Proc PROVE TxTrue(q)'
  <2>1. TxTrue(q)
    BY DEF PipeInv
  <2>2. tx[q].kind = "materialize" /\ tx[q].at = "commit" => tx[q].source \notin linked'
    BY <1>1, <2>1 DEF TxTrue, WriterTrue
  <2> QED BY <1>1, <1>2, <2>1, <2>2, OthersKeep
<1>7. ASSUME NEW q \in Proc, NEW u \in Proc, q # u PROVE TxApart(q, u)'
  BY <1>1, <1>7, ApartKept DEF PipeInv
<1> QED BY <1>4, <1>5, <1>6, <1>7 DEF PipeInv

LEMMA PipeInitially == PipeInit => PipeInv
<1>1. SUFFICES ASSUME PipeInit PROVE PipeInv
  OBVIOUS
<1>2. \A b \in Batch :
        batchTask[b] = [status |-> "none", enum |-> "none", counts |-> Zero]
  BY <1>1 DEF PipeInit
<1>3. batchTask \in [Batch -> Enumerations]
  BY <1>1, ZeroTyped DEF PipeInit, Enumerations, ItemStatus
<1>4. item \in [Batch -> [Source -> ItemStatus]]
      /\ \A b \in Batch, s \in Source : item[b][s] = "none"
  BY <1>1 DEF PipeInit, ItemStatus
<1>5. tx \in [Proc -> Transactions] /\ \A p \in Proc : tx[p] = NoTxn
  BY <1>1, NoTxnTyped DEF PipeInit
<1>6. PipeTypes /\ NovelsTrue
  BY <1>1, <1>3, <1>4, <1>5, PipelineAssumption
  DEF PipeInit, PipeTypes, NovelsTrue, Asked, Fitness, SlugNo
<1>7. ASSUME NEW b \in Batch PROVE BatchTrue(b)
  BY <1>2, <1>4 DEF BatchTrue, ItemSettled, Open
<1>8. ASSUME NEW p \in Proc PROVE TxTrue(p) /\ \A q \in Proc : TxApart(p, q)
  <2>1. /\ tx[p].kind = "none" /\ tx[p].at = "idle" /\ tx[p].batch = NoBatch
        /\ tx[p] = NoTxn
    BY <1>5 DEF NoTxn
  <2>2. tx[p].made = {}
    BY <1>5 DEF NoTxn
  <2> QED BY <2>1, <2>2
      DEF TxTrue, Staged, Sorted, EnumerationTrue, ItemHeld, WriterTrue, TxApart
<1> QED BY <1>6, <1>7, <1>8 DEF PipeInv

LEMMA PipeStep ==
  ASSUME PipeInv, PipeNext
  PROVE  PipeInv'
<1>1. ASSUME NEW b \in Batch,
             enqueueParent(b) \/ enqueueArticleGenerateBatch(b)
               \/ Expire(b) \/ Sweep(b)
      PROVE  PipeInv'
  BY <1>1, EnqueueParentKeeps, EnqueueGenerateKeeps, ExpireKeeps, RecoverKeeps,
     SkipExpiredKeeps DEF Sweep
<1>2. ASSUME NEW p \in Proc, Work(p) PROVE PipeInv'
  <2>1. CASE Enumerate(p)
    BY <2>1, SnapshotKeeps, CreateChildKeeps, CommitParentKeeps DEF Enumerate
  <2>2. CASE Materialize(p)
    BY <2>2, ReadSourceKeeps, PickSlugKeeps, CreateNovelKeeps, LinkSourceKeeps,
       CommitNovelKeeps DEF Materialize
  <2>3. CASE Generate(p)
    BY <2>3, LockNovelKeeps, ReadArticleKeeps, InsertArticleKeeps,
       CommitArticleKeeps DEF Generate
  <2>4. CASE Move(p)
    BY <2>4, MovingKeeps
  <2>5. CASE Fallback(p)
    BY <2>5, FallbackKeeps
  <2>6. CASE DeadlockVictim(p)
    BY <2>6, VictimKeeps
  <2> QED BY <1>2, <2>1, <2>2, <2>3, <2>4, <2>5, <2>6 DEF Work
<1>3. ASSUME NEW p \in Proc, Claim(p) PROVE PipeInv'
  BY <1>3, ClaimParentKeeps, ClaimItemKeeps DEF Claim
<1>4. ASSUME NEW p \in Proc, Die(p) PROVE PipeInv'
  BY <1>4, DieKeeps
<1>5. ASSUME NEW p \in Proc, NEW r \in Inline, Request(p, r) PROVE PipeInv'
  BY <1>5, RequestKeeps
<1>6. ASSUME NEW s \in Source, Change(s) PROVE PipeInv'
  BY <1>6, ChangeKeeps
<1> QED BY <1>1, <1>2, <1>3, <1>4, <1>5, <1>6 DEF PipeNext

LEMMA PipeStutters == PipeInv /\ UNCHANGED pipeVars => PipeInv'
<1>1. SUFFICES ASSUME PipeInv, UNCHANGED pipeVars PROVE PipeInv'
  OBVIOUS
<1>2. UNCHANGED <<content, batchTask, item, expired, demand, tx, mishaps>>
  BY <1>1 DEF pipeVars
<1>3. PipeTypes'
  BY <1>1, <1>2 DEF PipeInv, PipeTypes, content
<1>4. ASSUME NEW b \in Batch PROVE BatchTrue(b)'
  BY <1>1, <1>2, OtherBatchKept
<1> QED BY <1>1, <1>2, <1>3, <1>4, RowsKeep, {} \in SUBSET Proc

(* At each of its statements a transaction can rely on what TxTrue says,   *)
(* no two are for one item, and the rows of novels and batches agree:      *)
(* submissions, enumerations, items, inline requests, rebinds, deadlocks,  *)
(* deaths and recoveries keep it (runMaterializeTransaction, runGenerate,  *)
(* createCatalogBatchHandler, handleFinalizeFailure).                      *)
THEOREM PipelineInvariant == PipeSpec => []PipeInv
<1>1. PipeInv /\ [PipeNext]_pipeVars => PipeInv'
  BY PipeStep, PipeStutters
<1> QED BY <1>1, PipeInitially, PTL DEF PipeSpec
-----------------------------------------------------------------------------
(* What follows.                                                           *)
LEMMA NovelsCount == PipeInv => OneNovelPerSource
<1>1. SUFFICES ASSUME PipeInv, NEW s \in Source
               PROVE  Cardinality(novels[s]) = IF s \in linked \ Linked0 THEN 1 ELSE 0
  BY DEF OneNovelPerSource
<1>2. CASE s \in linked \ Linked0
  <2>1. PICK n \in SlugNo : novels[s] = {n}
    BY <1>1, <1>2 DEF PipeInv, NovelsTrue
  <2>2. Cardinality({n}) = 1
    BY FS_Singleton
  <2> QED BY <1>2, <2>1, <2>2
<1>3. CASE s \notin linked \ Linked0
  BY <1>1, <1>3, FS_EmptySet DEF PipeInv, NovelsTrue
<1> QED BY <1>2, <1>3

(* A source item never gets two novels, and a novel is never left without  *)
(* its source item: the compare-and-set in the transaction that has        *)
(* created the novel (runMaterializeTransaction) is enough, whatever       *)
(* batches, retries and administrators run together.                       *)
THEOREM EachSourceHasOneNovel == PipeSpec => []OneNovelPerSource
BY NovelsCount, PipelineInvariant, PTL

LEMMA PipeTypesAre == PipeInv => PipeTypeOK
<1>1. SUFFICES ASSUME PipeInv PROVE PipeTypeOK
  OBVIOUS
<1>2. ASSUME NEW p \in Proc PROVE tx[p].todo \cap tx[p].made = {}
  BY <1>1 DEF PipeInv, TxTrue, Sorted
<1>3. \A p \in Proc : tx[p].at \in Phase0 /\ tx[p].slug \in SlugNo \cup {0}
  BY <1>1, TxTypes DEF PipeInv
<1> QED BY <1>1, <1>2, <1>3 
    DEF PipeInv, PipeTypes, PipeTypeOK, Enumerations, Asked, Fitness

LEMMA CountsAreRight == PipeInv => CountsAddUp
BY DEF PipeInv, BatchTrue, CountsAddUp

(* What a page that says "completed" has seen.                             *)
LEMMA CompletedSees ==
  ASSUME PipeInv, NEW b \in Batch, Phase(b) = "completed"
  PROVE  /\ batchTask[b].enum = "completed" /\ batchTask[b].counts.blocked = 0
         /\ \A m \in Children(b) : ~Runs(b, m) /\ Failed(b, m) = {}
<1>1. PipeTypes
  BY DEF PipeInv
<1>2. batchTask[b].enum \in {"none", "completed", "expired"}
  BY <1>1, EnumerationTypes
<1>3. batchTask[b].enum = "completed"
  BY <1>2 DEF Phase
<1>4. ~Troubled(b) /\ \A m \in Children(b) : ~Runs(b, m)
  BY <1>3 DEF Phase
<1>5. batchTask[b].counts.blocked \in 0..Cardinality(Source)
  BY <1>1, EnumerationTypes DEF Tallies
<1>6. batchTask[b].counts.blocked = 0
  BY <1>4, <1>5, SourcesCount DEF Troubled
<1> QED BY <1>3, <1>4, <1>6 DEF Troubled

LEMMA CompletedIsLinked == PipeInv => CompletedMeansLinked
<1>1. SUFFICES ASSUME PipeInv, NEW b \in Batch, Kind[b] = "materialize",
                      Phase(b) = "completed", NEW s \in Selection[b] \ linked
               PROVE  /\ s \in Source
                      /\ s \in LeftOut(b) \/ (b \in expired /\ item[b][s] = "skipped")
  BY DEF CompletedMeansLinked
<1>2. BatchTrue(b) /\ s \in Source /\ PipeTypes
  BY <1>1, PipelineAssumption DEF PipeInv
<1>3. /\ batchTask[b].enum = "completed" /\ batchTask[b].counts.blocked = 0
      /\ \A m \in Children(b) : ~Runs(b, m) /\ Failed(b, m) = {}
  BY <1>1, CompletedSees
<1>4. CASE item[b][s] = "none"
  BY <1>1, <1>2, <1>3, <1>4 DEF BatchTrue, LeftOut
<1>5. CASE item[b][s] # "none"
  <2>1. s \in Members(b, Group[s]) /\ Members(b, Group[s]) \in Children(b)
    BY <1>2, <1>5 DEF Members, Children, Groups
  <2>2. item[b][s] \notin Open /\ item[b][s] # "failed"
    BY <1>3, <2>1 DEF Runs, Failed
  <2>3. item[b][s] \in {"success", "skipped"}
    BY <1>2, <1>5, <2>2, EnumerationTypes DEF ItemStatus
  <2> QED BY <1>1, <1>2, <2>3 DEF BatchTrue, ItemSettled
<1> QED BY <1>4, <1>5

LEMMA FailuresHaveCause == PipeInv => FailureHasCause
BY DEF PipeInv, BatchTrue, ItemSettled, Caused, Exhausted, FailureHasCause

(* What a batch shows is true: its counts add up to its selection, a       *)
(* completed one has a novel for each source item that did not expire or   *)
(* was counted as ineligible, and an item that failed has lost to somebody *)
(* or has been unfit (createCatalogBatchHandler, deriveCatalogBatchPhase,  *)
(* loadPlan, handleFinalizeFailure).                                       *)
THEOREM ResultsAlwaysTrue == PipeSpec => []ResultsTrue
<1>1. PipeInv => ResultsTrue
  BY PipeTypesAre, CountsAreRight, CompletedIsLinked, FailuresHaveCause DEF ResultsTrue
<1> QED BY <1>1, PipelineInvariant, PTL

(* Two generations for one novel are never both past its lock              *)
(* (lockNovelForUpdate), so that a generation which finds the article's    *)
(* index entry taken has lost to a rebind.                                 *)
THEOREM GenerationsAreSerial == PipeSpec => GenerationsSerial
<1>1. ASSUME PipeInv, NEW p \in Proc, At(p, "commit"), tx[p].kind = "generate",
             NEW q \in Proc \ {p}, At(q, "insert")
      PROVE  tx[q].source # tx[p].source
  <2>1. TxApart(p, q) /\ tx[q].kind = "generate"
    BY <1>1, KindOf DEF PipeInv, At
  <2> QED BY <1>1, <2>1 DEF TxApart, AtNovel, At
<1>2. PipeInv =>
        \A p \in Proc :
          At(p, "commit") /\ tx[p].kind = "generate" /\ tx'[p] = NoTxn =>
            \A q \in Proc \ {p} : At(q, "insert") => tx[q].source # tx[p].source
  BY <1>1
<1> QED BY <1>2, PipelineInvariant, PTL DEF GenerationsSerial
-----------------------------------------------------------------------------
(* Enumerations create the children of their groups in one order, so a     *)
(* wait for a group is for one that waits for a later group.               *)
LEMMA LaterGroup ==
  ASSUME PipeInv, NEW p \in Proc, NEW q \in Proc, NEW r \in Proc,
         At(p, "children"), At(q, "children"),
         NEW g \in NextGroups(tx[p].todo), DraftedBy(p, g, q),
         NEW h \in NextGroups(tx[q].todo), DraftedBy(q, h, r)
  PROVE  g < h
<1>1. PipeTypes
  BY DEF PipeInv
<1>2. tx[p].kind = "enumerate" /\ tx[q].kind = "enumerate"
  BY KindOf
<1>3. Planned(p) /\ Planned(q)
  BY <1>2 DEF PipeInv, TxTrue, EnumerationTrue, At
<1>4. g \in tx[p].todo /\ h \in tx[q].todo
  BY <1>1, NextGroup
<1>5. PICK s \in tx[p].plan : Group[s] = g
  BY <1>3, <1>4 DEF Planned
<1>6. PICK x \in tx[q].made : InGroup(tx[p].plan, g) = InGroup(tx[q].plan, x)
  BY DEF DraftedBy, Drafts
<1>7. x = g
  BY <1>5, <1>6 DEF InGroup
<1> QED BY <1>3, <1>4, <1>6, <1>7 DEF Planned

(* A set of groups has one with no later one in it.                        *)
LEMMA LastGroup ==
  ASSUME NEW W \in SUBSET Groups, W # {}
  PROVE  \E g \in W : \A h \in W : ~(g < h)
<1> DEFINE Beyond(g) == {s \in Source : Group[s] > g}
           N == {Cardinality(Beyond(g)) : g \in W}
<1>1. \A g \in W : Beyond(g) \in SUBSET Source
  OBVIOUS
<1>2. \A g \in W : IsFiniteSet(Beyond(g)) /\ Cardinality(Beyond(g)) \in Nat
  BY <1>1, SourcesCount
<1>3. N \in SUBSET Nat /\ N # {}
  BY <1>2
<1>4. PICK n \in N : \A m \in N : n <= m
  <2> HIDE DEF N
  <2> QED BY <1>3, LeastOf
<1>5. PICK g \in W : n = Cardinality(Beyond(g))
  OBVIOUS
<1>6. ASSUME NEW h \in W, g < h PROVE FALSE
  <2>1. g \in Nat /\ h \in Nat /\ \A s \in Source : Group[s] \in Nat
    BY PipelineAssumption DEF Groups
  <2>2. PICK s \in Source : Group[s] = h
    BY DEF Groups
  <2>3. Beyond(h) \in SUBSET Beyond(g) /\ s \in Beyond(g) /\ s \notin Beyond(h)
    BY <1>6, <2>1, <2>2
  <2>4. n <= Cardinality(Beyond(h))
    BY <1>4
  <2> HIDE DEF Beyond, N
  <2>5. Cardinality(Beyond(h)) = Cardinality(Beyond(g))
    BY <1>2, <1>5, <2>3, <2>4, FS_Subset
  <2> QED BY <1>2, <2>3, <2>5, FS_Subset
<1> QED BY <1>6

LEMMA MovesAlone == PipeInv => OnlyMovesDeadlock
<1>1. SUFFICES ASSUME PipeInv, NEW S \in SUBSET Proc, Stuck(S),
                      ~ \E p, q \in S : /\ At(p, "check") /\ At(q, "insert")
                                        /\ tx[p].to = tx[q].source
               PROVE  FALSE
  BY DEF OnlyMovesDeadlock
<1>2. ASSUME NEW p \in S PROVE \E q \in S : Waits(p, q)
  BY <1>1 DEF Stuck
<1>3. ASSUME NEW p \in S PROVE ~At(p, "insert") /\ ~At(p, "check")
  <2>1. PICK q \in S : Waits(p, q)
    BY <1>2
  <2>2. PICK r \in S : Waits(q, r)
    BY <1>2
  <2> QED BY <1>1, <2>1, <2>2, WhoWaits DEF At
<1>4. ASSUME NEW p \in S
      PROVE  \E q \in S, g \in NextGroups(tx[p].todo) :
               At(p, "children") /\ At(q, "children") /\ DraftedBy(p, g, q)
  <2>1. PICK q \in S : Waits(p, q)
    BY <1>2
  <2>2. PICK r \in S : Waits(q, r)
    BY <1>2
  <2>3. PICK u \in S : Waits(r, u)
    BY <1>2
  <2>4. ~At(q, "link")
    BY <1>1, <2>2, <2>3, WhoWaits DEF At
  <2> QED BY <1>1, <1>3, <2>1, <2>2, <2>4, WhoWaits
<1> DEFINE Wanted(p) == {g \in NextGroups(tx[p].todo) :
                           \E q \in S : DraftedBy(p, g, q) /\ At(q, "children")}
           W == UNION {Wanted(p) : p \in S}
<1>5. W \in SUBSET Groups /\ W # {}
  <2>1. \A p \in S : tx[p].todo \subseteq Groups
    BY <1>1, TxTypes DEF PipeInv
  <2>2. W \subseteq Groups
    BY <2>1 DEF NextGroups
  <2>3. PICK p \in S : TRUE
    BY <1>1 DEF Stuck
  <2> QED BY <1>4, <2>2, <2>3
<1>6. PICK g \in W : \A h \in W : ~(g < h)
  <2> HIDE DEF W
  <2> QED BY <1>5, LastGroup
<1>7. PICK p \in S, q \in S :
        g \in NextGroups(tx[p].todo) /\ DraftedBy(p, g, q) /\ At(q, "children")
  OBVIOUS
<1>8. PICK h \in NextGroups(tx[q].todo), r \in S :
        DraftedBy(q, h, r) /\ At(r, "children")
  BY <1>4
<1>9. h \in W
  BY <1>8
<1>10. At(p, "children")
  BY <1>4
<1> HIDE DEF W, Wanted
<1> QED BY <1>1, <1>6, <1>7, <1>8, <1>9, <1>10, LaterGroup

(* In a circle of waits a rebind's move, with the index entry, waits for   *)
(* the novel of a generation that waits for the entry: enumerations create *)
(* their children in one order of groups (createCatalogBatchHandler), and  *)
(* a materialization waits for none that waits.                            *)
THEOREM MovesAloneDeadlock == PipeSpec => []OnlyMovesDeadlock
BY MovesAlone, PipelineInvariant, PTL
===============================================================================
