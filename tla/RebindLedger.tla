----------------------------- MODULE RebindLedger -----------------------------
(***************************************************************************)
(* What a rebind batch promises, without requests, leases and locks: each  *)
(* article of its plan is settled once, applied in the one step that moves *)
(* the article from the novel the plan saw to the novel it was matched to, *)
(* and the batch closes when all of them are settled.                      *)
(***************************************************************************)
CONSTANTS Batch, Article, Novel, Target

VARIABLES
  bound,    \* the novel of each article
  plan,     \* per batch and article: how far it is, and the novel seen
  closed    \* batches that are finished

ledger == <<bound, plan, closed>>

Absent(t) == \A a \in Article : plan[t][a].is = "absent"
Set(t, a, s) == plan' = [plan EXCEPT ![t][a].is = s]

Init ==
  /\ bound \in [Article -> Novel]
  /\ \A t \in Batch : Absent(t)
  /\ closed = {}

(* The batch appears with its whole plan, some of it skipped from the      *)
(* start.                                                                  *)
OpenBatch(t) ==
  /\ Absent(t)
  /\ \A a \in Article : plan'[t][a].is \in
       (IF a \in DOMAIN Target[t] THEN {"open", "skipped"} ELSE {"absent"})
  /\ \A u \in Batch \ {t} : plan'[u] = plan[u]
  /\ UNCHANGED <<bound, closed>>

Apply(t, a) ==
  /\ plan[t][a].is = "open"
  /\ bound[a] = plan[t][a].seen
  /\ bound' = [bound EXCEPT ![a] = Target[t][a]]
  /\ Set(t, a, "applied")
  /\ UNCHANGED closed

Fail(t, a) ==
  /\ plan[t][a].is = "open"
  /\ Set(t, a, "failed")
  /\ UNCHANGED <<bound, closed>>

Close(t) ==
  /\ ~Absent(t)
  /\ t \notin closed
  /\ \A a \in Article : plan[t][a].is # "open"
  /\ closed' = closed \cup {t}
  /\ UNCHANGED <<bound, plan>>

(* Somebody rebinds one article outside any batch.                         *)
Edit(a) ==
  /\ \E n \in Novel : bound' = [bound EXCEPT ![a] = n]
  /\ UNCHANGED <<plan, closed>>

LedgerNext ==
  \/ \E t \in Batch : OpenBatch(t) \/ Close(t)
  \/ \E t \in Batch, a \in Article : Apply(t, a) \/ Fail(t, a)
  \/ \E a \in Article : Edit(a)

LedgerSpec == Init /\ [][LedgerNext]_ledger
=============================================================================
