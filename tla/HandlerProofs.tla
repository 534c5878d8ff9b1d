----------------------------- MODULE HandlerProofs -----------------------------
(***************************************************************************)
(* Theorems about two handlers of items that run under a lease and write   *)
(* what administrators write too.  PromoClaim: getcode goes out at most    *)
(* once per scope, and intents tell the truth about it.  Tagging: rows,    *)
(* runs, audit and answers agree, and nobody writes over what he has not   *)
(* seen.  For any items, workers, administrators and number of attempts.   *)
(***************************************************************************)
EXTENDS PromoClaim, Tagging, FiniteSetTheorems, TLAPS

Early == {"none", "scope", "prior_intent", "pre_read", "prepare"}
Sending == {"ownership", "claim", "answer"}

(* The runs of an item are its attempts; none of them has an intent before *)
(* it prepares one, nor a request before it has an intent.                 *)
RunsAreAttempts ==
  \A k \in Key : run[k].at = "none" <=> item[k.item].attempts < k.attempt

NothingEarly ==
  \A k \in Key : run[k].at \in Early => intent[k] = "none" /\ k \notin sent

(* The intent k still has what may become of its request, or was settled   *)
(* by an administrator.                                                    *)
Recorded(k) ==
  intent[k] \in Unresolved \cup {"confirmed"} \/ k \in adjudicated

SendingRecorded ==
  \A k \in Key : /\ run[k].at \in Sending => Recorded(k)
                 /\ run[k].at = "fail" => k \in refused

NoneUnsent ==
  /\ \A k \in Key : /\ run[k].at \in Sending \/ k \in sent => intent[k] # "none"
                    /\ run[k].at = "answer" => k \in sent
  /\ \A k \in adjudicated : intent[k] \in {"confirmed", "failed"}

(* An item is being submitted before it has a row.                         *)
Submissions ==
  /\ \A i \in submitting : item[i].status = "none"
  /\ \A i \in Item : item[i].status = "none" <=> task[i] = "none"

Indexed ==
  \A i, j \in Item :
    Active(i) /\ Active(j) /\ selection[i] = selection[j] => i = j

(* Who is at work beside whom, and how that came about.                    *)
Attached ==
  \A i \in Item : item[i].status = "processing" => Active(i) \/ i \in detached

Noticed ==
  \A i, j \in Item :
    /\ i # j /\ item[i].status = "processing" /\ item[j].status = "processing"
    => {i, j} \in together

Explained(p) ==
  \E i, j \in p : /\ item[i].status # "none" /\ item[j].status # "none"
                  /\ selection[i] # selection[j] \/ i \in detached

AllExplained == \A p \in together : Explained(p)

(* A run that may still send, or has sent, on an intent not settled as     *)
(* failed; a run that no longer looks for one.                             *)
Live(k) == (run[k].at = "claim" \/ k \in sent) /\ intent[k] # "failed"

PastLooking(k) == Owns(k) /\ run[k].at \in {"pre_read", "prepare", "ownership"}

OneLive ==
  \A j, k \in Key : Live(k) /\ (Live(j) \/ PastLooking(j)) =>
                       j = k \/ {j.item, k.item} \in together

(* What a run that owns its item may yet do once an intent is confirmed.   *)
Harmless(k) ==
  \/ run[k].at \in {"none", "scope", "done"}
  \/ run[k].at = "finalize" /\ run[k].decision \in {"failed", "skipped", "reconciled"}

ConfirmedStays ==
  together = {} => \A k \in With({"confirmed"}) \ adjudicated :
                     link = "fetched" /\ \A j \in Key : Owns(j) => Harmless(j)

ClaimInv ==
  /\ TypeOK
  /\ RunsAreAttempts
  /\ NothingEarly
  /\ SendingRecorded
  /\ NoneUnsent
  /\ EffectRemembered
  /\ Submissions
  /\ Indexed
  /\ Attached
  /\ Noticed
  /\ AllExplained
  /\ OneLive
  /\ ConfirmedStays
-----------------------------------------------------------------------------
(* How one step moves one run, one item and one intent.                    *)
RunSet == [at : Step, aim : Key \cup {NoKey}, known : IntentStatus,
           decision : Decision]

Others(k) == \A j \in Key \ {k} : run'[j] = run[j]

RunMove(k) ==
  \/ run'[k] = run[k]
  \/ /\ run[k].at = "none" /\ run'[k].at = "scope"
     /\ item'[k.item].attempts = k.attempt
  \/ run[k].at # "none" /\ run'[k].at = "done"
  \/ /\ run[k].at # "none" /\ run'[k].at = "finalize"
     /\ Harmless(k) /\ link = "fetched" => Harmless(k)'
  \/ run[k].at = "scope" /\ run'[k].at = "prior_intent" /\ link # "fetched"
  \/ /\ run[k].at = "prior_intent" /\ run'[k].at = "pre_read"
     /\ With(Unresolved \cup {"confirmed"}) = {}
  \/ /\ run[k].at \in {"prior_intent", "answer", "readback", "block"}
     /\ run'[k].at \in {"readback", "block", "review"}
     /\ run'[k].aim \in Key /\ intent[run'[k].aim] # "none"
  \/ run[k].at = "pre_read" /\ run'[k].at = "prepare"
  \/ /\ run[k].at = "prepare" /\ run'[k].at = "ownership"
     /\ intent'[k] = "prepared"
  \/ run[k].at = "ownership" /\ run'[k].at = "claim" /\ Owns(k)
  \/ run[k].at = "claim" /\ run'[k].at = "answer" /\ k \in sent'
  \/ run[k].at = "answer" /\ run'[k].at = "fail" /\ k \in refused'

ItemMove(i) ==
  \/ item'[i] = item[i]
  \/ /\ item[i].status \in {"none", "failed"} /\ item'[i].status = "pending"
     /\ item'[i].attempts = item[i].attempts
     /\ item[i].status = "none" => i \in submitting \ submitting'
  \/ /\ item[i].status = "pending" /\ item'[i].status = "processing"
     /\ item'[i].attempts = item[i].attempts + 1
     /\ run'[[item |-> i, attempt |-> item'[i].attempts]].at = "scope"
  \/ /\ item[i].status \in {"pending", "processing"}
     /\ item'[i].status \in {"success", "failed", "skipped"}
     /\ item'[i].attempts = item[i].attempts

IntentMove(k) ==
  \/ intent'[k] = intent[k]
  \/ run[k].at = "prepare" /\ run'[k].at = "ownership" /\ intent'[k] = "prepared"
  \/ intent[k] = "prepared" /\ intent'[k] = "claim_retry_blocked"
  \/ intent[k] = "claim_retry_blocked" /\ intent'[k] = "manual_review_required"
  \/ intent[k] = "prepared" /\ intent'[k] = "failed" /\ run[k].at = "fail"
  \/ /\ intent[k] \in {"prepared", "claim_retry_blocked"}
     /\ intent'[k] = "confirmed" /\ link' = "fetched"
     /\ \E j \in Key : Owns(j) /\ item'[j.item].status \in {"success", "failed", "skipped"}
  \/ /\ intent[k] = "manual_review_required" /\ intent'[k] \in {"confirmed", "failed"}
     /\ k \in adjudicated' \ adjudicated
-----------------------------------------------------------------------------
LEMMA RunRows ==
  ASSUME run \in [Key -> RunSet], NEW k \in Key
  PROVE  /\ \A s \in Step : Go(k, s) =>
              /\ run' \in [Key -> RunSet] /\ Others(k)
              /\ run'[k].at = s /\ run'[k].aim = run[k].aim
              /\ run'[k].decision = run[k].decision
         /\ End(k) => /\ run' \in [Key -> RunSet] /\ Others(k)
                      /\ run'[k].at = "done"
         /\ \A d \in Decision, a \in Key \cup {NoKey} : DecideFor(k, d, a) =>
              /\ run' \in [Key -> RunSet] /\ Others(k)
              /\ run'[k].at = "finalize" /\ run'[k].decision = d
              /\ run'[k].aim = a
         /\ \A a \in Key, s \in IntentStatus : ReadbackFor(k, a, s) =>
              /\ run' \in [Key -> RunSet] /\ Others(k)
              /\ run'[k].at = "readback" /\ run'[k].aim = a
<1>1. ASSUME NEW s \in Step, Go(k, s)
      PROVE  /\ run' \in [Key -> RunSet] /\ Others(k)
             /\ run'[k].at = s /\ run'[k].aim = run[k].aim
             /\ run'[k].decision = run[k].decision
  <2> DEFINE row == [run[k] EXCEPT !.at = s]
  <2>1. row \in RunSet /\ row.at = s /\ row.aim = run[k].aim
          /\ row.decision = run[k].decision
    BY DEF RunSet
  <2>2. run' = [run EXCEPT ![k] = row]
    BY <1>1 DEF Go
  <2> HIDE DEF row
  <2> QED BY <2>1, <2>2 DEF Others
<1>2. ASSUME End(k)
      PROVE  run' \in [Key -> RunSet] /\ Others(k) /\ run'[k].at = "done"
  <2> DEFINE row == [NoRun EXCEPT !.at = "done"]
  <2>1. row \in RunSet /\ row.at = "done"
    BY DEF RunSet, NoRun, Step, IntentStatus, Decision
  <2>2. run' = [run EXCEPT ![k] = row]
    BY <1>2 DEF End
  <2> HIDE DEF row
  <2> QED BY <2>1, <2>2 DEF Others
<1>3. ASSUME NEW d \in Decision, NEW a \in Key \cup {NoKey}, DecideFor(k, d, a)
      PROVE  /\ run' \in [Key -> RunSet] /\ Others(k)
             /\ run'[k].at = "finalize" /\ run'[k].decision = d
             /\ run'[k].aim = a
  <2> DEFINE row == [NoRun EXCEPT !.at = "finalize", !.aim = a, !.decision = d]
  <2>1. NoRun \in RunSet
    BY DEF RunSet, NoRun, Step, IntentStatus, Decision
  <2>2. row \in RunSet /\ row.at = "finalize" /\ row.decision = d /\ row.aim = a
    <3> HIDE DEF NoRun
    <3> QED BY <2>1 DEF RunSet, Step
  <2>3. run' = [run EXCEPT ![k] = row]
    BY <1>3 DEF DecideFor
  <2> HIDE DEF row
  <2> QED BY <2>2, <2>3 DEF Others
<1>4. ASSUME NEW a \in Key, NEW s \in IntentStatus, ReadbackFor(k, a, s)
      PROVE  /\ run' \in [Key -> RunSet] /\ Others(k)
             /\ run'[k].at = "readback" /\ run'[k].aim = a
  <2> DEFINE row == [run[k] EXCEPT !.at = "readback", !.aim = a, !.known = s]
  <2>1. row \in RunSet /\ row.at = "readback" /\ row.aim = a
    BY DEF RunSet, Step
  <2>2. run' = [run EXCEPT ![k] = row]
    BY <1>4 DEF ReadbackFor
  <2> HIDE DEF row
  <2> QED BY <2>1, <2>2 DEF Others
<1> QED BY <1>1, <1>2, <1>3, <1>4

(* The parts of TypeOK, the enumerated sets kept closed.                   *)
ItemsOK == item \in [Item -> [status : ItemStatus, attempts : 0..MaxRuns]]

Aims ==
  \A k \in Key : run[k].at \in {"readback", "block", "review"} =>
                   run[k].aim \in Key /\ intent[run[k].aim] # "none"

RestOK ==
  /\ selection \in [Item -> {{}} \cup {{s} : s \in Selection}]
  /\ submitting \subseteq Item
  /\ task \in [Item -> TaskStatus]
  /\ together \subseteq SUBSET Item /\ detached \subseteq Item
  /\ born \in [Key -> 0..Cardinality(Key)]
  /\ link \in LinkStatus
  /\ promo \in BOOLEAN
  /\ landed \subseteq sent /\ refused \subseteq sent /\ sent \subseteq Key
  /\ adjudicated \subseteq Key

LEMMA TypeParts ==
  /\ TypeOK <=> /\ ItemsOK /\ RestOK /\ Aims
                /\ run \in [Key -> RunSet] /\ intent \in [Key -> IntentStatus]
  /\ TypeOK' <=> /\ ItemsOK' /\ RestOK' /\ Aims'
                 /\ run' \in [Key -> RunSet] /\ intent' \in [Key -> IntentStatus]
BY DEF TypeOK, ItemsOK, RestOK, Aims, RunSet

LEMMA StepOfRun ==
  ASSUME TypeOK, NoneUnsent, NEW h \in Key, RunStep(h)
  PROVE  run' \in [Key -> RunSet] /\ Others(h) /\ RunMove(h)
<1>0. /\ run \in [Key -> RunSet] /\ intent \in [Key -> IntentStatus] /\ Aims
      /\ run[h] \in RunSet /\ (run[h].at = "answer" => intent[h] # "none")
  BY TypeParts DEF NoneUnsent, Sending
<1> USE <1>0, RunRows
<1>1. CASE loadClaimScope(h)
  BY <1>1 DEF loadClaimScope, RunMove, Harmless, Decide, Step, Decision
<1>2. CASE PriorIntent(h)
  BY <1>2 DEF PriorIntent, RunMove, Harmless, Decide, Step, Decision, With, Unresolved
<1>3. CASE PreRead(h)
  BY <1>3 DEF PreRead, RunMove, Harmless, Decide, Step, Decision
<1>4. CASE prepareSideEffectIntent(h)
  BY <1>4 DEF prepareSideEffectIntent, RunMove, Step
<1>5. CASE Ownership(h)
  BY <1>5 DEF Ownership, RunMove, Harmless, Decide, Step, Decision
<1>6. CASE claimPromo(h)
  BY <1>6 DEF claimPromo, RunMove, Step
<1>7. CASE Answer(h)
  BY <1>7 DEF Answer, RunMove, Step, IntentStatus, Unresolved
<1>8. CASE Readback(h)
  BY <1>8 DEF Readback, RunMove, Harmless, Decide, Step, Decision, RunSet, Aims
<1>9. CASE Block(h)
  BY <1>9 DEF Block, transitionSideEffectIntent, RunMove, Harmless, Decide, Step, Decision, Aims
<1>10. CASE Review(h)
  BY <1>10 DEF Review, transitionSideEffectIntent, RunMove, Harmless, Decide, Step, Decision
<1>11. CASE Fail(h)
  BY <1>11 DEF Fail, transitionSideEffectIntent, RunMove, Harmless, Decide, Step, Decision
<1>12. CASE Finalize(h) \/ FinalizeRefused(h) \/ Crash(h)
  BY <1>12 DEF Finalize, FinalizeRefused, Crash, RunMove
<1>13. CASE FinalizeThrows(h)
  BY <1>13 DEF FinalizeThrows, RunMove, Harmless, Decide, Decision
<1> QED BY <1>1, <1>2, <1>3, <1>4, <1>5, <1>6, <1>7, <1>8, <1>9, <1>10, <1>11,
           <1>12, <1>13 DEF RunStep
-----------------------------------------------------------------------------
(* Counting: an attempt left means an item below the bound.                *)
LEMMA KeyFinite == IsFiniteSet(Key) /\ Cardinality(Key) \in Nat
<1> DEFINE P == Item \X (1..MaxRuns)
           f == [p \in P |-> [item |-> p[1], attempt |-> p[2]]]
<1>1. IsFiniteSet(P)
  <2>1. IsFiniteSet(1..MaxRuns)
    BY ClaimAssumption, FS_Interval
  <2> QED BY <2>1, ClaimAssumption, FS_Product
<1>2. f \in Surjection(P, Key)
  <2>1. \A p \in P : f[p] \in Key
    BY DEF Key
  <2>2. ASSUME NEW k \in Key PROVE \E p \in P : f[p] = k
    <3>1. <<k.item, k.attempt>> \in P /\ f[<<k.item, k.attempt>>] = k
      BY DEF Key
    <3> QED BY <3>1
  <2> QED BY <2>1, <2>2 DEF Surjection
<1>3. IsFiniteSet(Key)
  BY <1>1, <1>2, FS_Surjection
<1> QED BY <1>3, FS_CardinalityType

LEMMA SelectionsFinite ==
  ASSUME RestOK PROVE IsFiniteSet({selection[i] : i \in Item}) /\ IsFiniteSet(Selections)
<1> DEFINE T == {selection[i] : i \in Item}
<1>1. selection \in Surjection(Item, T)
  BY DEF RestOK, Surjection
<1>2. IsFiniteSet(T)
  BY <1>1, ClaimAssumption, FS_Surjection
<1> QED BY <1>2, FS_Subset DEF Selections

LEMMA AttemptLeft ==
  ASSUME TypeOK, RunsAreAttempts, NEW i \in Item, Spent < MaxRuns
  PROVE  item[i].attempts < MaxRuns
<1> DEFINE D == {k \in Key : run[k].at # "none"}
           n == item[i].attempts
           f == [m \in 1..n |-> [item |-> i, attempt |-> m]]
           sel == Cardinality(Selections)
<1>0. /\ ItemsOK /\ RestOK /\ n \in Nat /\ MaxRuns \in Nat /\ n <= MaxRuns
      /\ i \in Item
  BY TypeParts, ClaimAssumption DEF ItemsOK
<1>1. f \in Injection(1..n, D)
  <2>1. \A m \in 1..n : f[m] \in Key /\ f[m].item = i /\ f[m].attempt = m
    BY <1>0 DEF Key
  <2>2. \A m \in 1..n : run[f[m]].at # "none"
    BY <1>0, <2>1 DEF RunsAreAttempts
  <2>3. f \in [1..n -> D]
    BY <2>1, <2>2
  <2>4. \A a, b \in 1..n : f[a] = f[b] => a = b
    <3> HIDE DEF f, D
    <3> QED BY <2>1
  <2> HIDE DEF f, D
  <2> QED BY <2>3, <2>4 DEF Injection, IsInjective
<1>2. IsFiniteSet(D) /\ Cardinality(D) \in Nat
  BY KeyFinite, FS_Subset, FS_CardinalityType
<1>3. Cardinality(1..n) = n
  <2> HIDE DEF n, f, D, sel
  <2>1. 1 \in Int /\ n \in Int /\ (1 > n => n = 0)
    BY <1>0
  <2>2. Cardinality(1..n) = IF 1 > n THEN 0 ELSE n - 1 + 1
    BY <2>1, FS_Interval
  <2> QED BY <2>1, <2>2
<1>4. n <= Cardinality(D)
  BY <1>1, <1>2, <1>3, FS_Injection
<1>5. Cardinality(Aside) \in Nat
  BY <1>0, ClaimAssumption, FS_Subset, FS_CardinalityType DEF RestOK, Aside
<1>6. sel \in Nat /\ (Selections # {} => sel # 0)
  BY <1>0, SelectionsFinite, FS_CardinalityType, FS_EmptySet
<1>7. Spent = Cardinality(D) + Cardinality(Aside)
                + IF Selections = {} THEN 0 ELSE sel - 1
  BY DEF Spent
<1> HIDE DEF D, sel, n
<1>8. Cardinality(D) <= Spent
  BY <1>2, <1>5, <1>6, <1>7
<1>9. n < MaxRuns
  BY <1>0, <1>2, <1>4, <1>8, <1>5, <1>6, <1>7
<1> QED BY <1>9 DEF n
-----------------------------------------------------------------------------
(* The key a claim starts.                                                 *)
Started(i) == [item |-> i, attempt |-> item[i].attempts + 1]

LEMMA ClaimStarts ==
  ASSUME TypeOK, RunsAreAttempts, NEW i \in Item, Claim(i)
  PROVE  /\ Started(i) \in Key /\ run[Started(i)].at = "none"
         /\ run' \in [Key -> RunSet] /\ Others(Started(i))
         /\ run'[Started(i)].at = "scope"
         /\ item' \in [Item -> [status : ItemStatus, attempts : 0..MaxRuns]]
         /\ item'[i].status = "processing"
         /\ item'[i].attempts = item[i].attempts + 1
         /\ \A j \in Item \ {i} : item'[j] = item[j]
<1>0. ItemsOK /\ run \in [Key -> RunSet]
  BY TypeParts
<1>1. item[i].attempts \in Nat /\ item[i].attempts < MaxRuns /\ MaxRuns \in Nat
  BY <1>0, AttemptLeft, ClaimAssumption DEF Claim, ItemsOK
<1>2. Started(i) \in Key
  BY <1>1 DEF Key, Started
<1>3. run[Started(i)].at = "none"
  BY <1>1, <1>2 DEF RunsAreAttempts, Started
<1>4. Go(Started(i), "scope")
  BY DEF Claim, Started
<1>5. "scope" \in Step
  BY DEF Step
<1>6. run' \in [Key -> RunSet] /\ Others(Started(i)) /\ run'[Started(i)].at = "scope"
  BY <1>0, <1>2, <1>4, <1>5, RunRows
<1>7. /\ item' \in [Item -> [status : ItemStatus, attempts : 0..MaxRuns]]
      /\ item'[i].status = "processing"
      /\ item'[i].attempts = item[i].attempts + 1
      /\ \A j \in Item \ {i} : item'[j] = item[j]
  BY <1>0, <1>1 DEF Claim, ItemsOK, ItemStatus
<1> QED BY <1>2, <1>3, <1>6, <1>7

(* What the other steps do to the items.                                   *)
LEMMA StatusRow ==
  ASSUME ItemsOK, NEW i \in Item, NEW status \in ItemStatus,
         item' = [item EXCEPT ![i].status = status]
  PROVE  /\ ItemsOK'
         /\ item'[i].status = status /\ item'[i].attempts = item[i].attempts
         /\ \A j \in Item \ {i} : item'[j] = item[j]
<1> DEFINE row == [item[i] EXCEPT !.status = status]
<1>1. /\ row \in [status : ItemStatus, attempts : 0..MaxRuns]
      /\ row.status = status /\ row.attempts = item[i].attempts
  BY DEF ItemsOK
<1>2. item' = [item EXCEPT ![i] = row]
  OBVIOUS
<1> HIDE DEF row
<1> QED BY <1>1, <1>2 DEF ItemsOK

OneItemMoves ==
  \E i \in Item : ItemMove(i) /\ \A j \in Item \ {i} : item'[j] = item[j]

LEMMA StepOfItems ==
  ASSUME TypeOK, RunsAreAttempts, Submissions, Next
  PROVE  ItemsOK' /\ (item' = item \/ OneItemMoves)
<1> USE DEF OneItemMoves
<1>0. ItemsOK /\ \A i \in Item : item[i].status \in ItemStatus
  BY TypeParts DEF ItemsOK
<1>1. item' = item => ItemsOK'
  BY <1>0 DEF ItemsOK
<1>2. ASSUME NEW i \in Item, createPromoLinkClaimTask(i), item' # item
      PROVE  ItemsOK' /\ OneItemMoves
  BY <1>0, <1>2, StatusRow DEF createPromoLinkClaimTask, ItemMove, ItemStatus, Submissions
<1>3. ASSUME NEW i \in Item, Claim(i)
      PROVE  ItemsOK' /\ OneItemMoves
  BY <1>3, ClaimStarts DEF Claim, ItemMove, ItemsOK, Started
<1>4. ASSUME NEW i \in Item, Recover(i)
      PROVE  ItemsOK' /\ OneItemMoves
  BY <1>0, <1>4, StatusRow DEF Recover, ItemMove, ItemStatus
<1>5. ASSUME NEW i \in Item, retryFailedTask(i)
      PROVE  ItemsOK' /\ OneItemMoves
  BY <1>0, <1>5, StatusRow DEF retryFailedTask, ItemMove, ItemStatus
<1>6. ASSUME NEW i \in Item, abortTask(i), item' # item
      PROVE  ItemsOK' /\ OneItemMoves
  BY <1>0, <1>6, StatusRow DEF abortTask, ItemMove, ItemStatus
<1>7. ASSUME NEW k \in Key, Finalize(k)
      PROVE  ItemsOK' /\ OneItemMoves
  <2>1. ItemResult(run[k].decision) \in {"success", "failed", "skipped"}
    BY DEF ItemResult
  <2>2. k.item \in Item
    BY DEF Key
  <2>3. item' = [item EXCEPT ![k.item].status = ItemResult(run[k].decision)]
    BY <1>7 DEF Finalize
  <2>4. item[k.item].status = "processing"
    BY <1>7 DEF Finalize, Owns
  <2> QED BY <1>0, <2>1, <2>2, <2>3, <2>4, StatusRow DEF ItemMove, ItemStatus
<1>8. ASSUME NEW k \in Key, RunStep(k), ~Finalize(k) PROVE item' = item
  BY <1>8 DEF RunStep, loadClaimScope, PriorIntent, PreRead, prepareSideEffectIntent,
     Ownership, claimPromo, Answer, Readback, Block, Review, Fail, FinalizeRefused,
     FinalizeThrows, Crash, queue
<1>9. ASSUME NEW i \in Item, Precheck(i) \/ pauseTask(i) \/ resumeTask(i)
      PROVE  item' = item
  BY <1>9 DEF Precheck, pauseTask, resumeTask
<1>10. ASSUME NEW k \in Key, NEW r, Land(k) \/ resolveManualReview(k, r)
      PROVE  item' = item
  BY <1>10 DEF Land, resolveManualReview, queue
<1>11. persistExistingCatalogPromo => item' = item
  BY DEF persistExistingCatalogPromo, queue
<1> QED BY <1>1, <1>2, <1>3, <1>4, <1>5, <1>6, <1>7, <1>8, <1>9, <1>10, <1>11 DEF Next
-----------------------------------------------------------------------------
LEMMA StepOfRuns ==
  ASSUME TypeOK, RunsAreAttempts, NoneUnsent, Next
  PROVE  run' \in [Key -> RunSet] /\ \A k \in Key : RunMove(k)
<1>0. run \in [Key -> RunSet]
  BY TypeParts
<1>1. run' = run => run' \in [Key -> RunSet] /\ \A k \in Key : RunMove(k)
  BY <1>0 DEF RunMove
<1>2. ASSUME NEW h \in Key, RunStep(h)
      PROVE  run' \in [Key -> RunSet] /\ \A k \in Key : RunMove(k)
  <2>1. run' \in [Key -> RunSet] /\ Others(h) /\ RunMove(h)
    BY <1>2, StepOfRun
  <2>2. \A k \in Key \ {h} : RunMove(k)
    BY <2>1 DEF Others, RunMove
  <2> QED BY <2>1, <2>2
<1>3. ASSUME NEW i \in Item, Claim(i)
      PROVE  run' \in [Key -> RunSet] /\ \A k \in Key : RunMove(k)
  <2>1. /\ run' \in [Key -> RunSet] /\ Others(Started(i)) /\ Started(i) \in Key
        /\ run[Started(i)].at = "none" /\ run'[Started(i)].at = "scope"
        /\ item'[i].attempts = item[i].attempts + 1
    BY <1>3, ClaimStarts
  <2>2. RunMove(Started(i))
    BY <2>1 DEF RunMove, Started
  <2>3. \A k \in Key \ {Started(i)} : RunMove(k)
    BY <2>1 DEF Others, RunMove
  <2> QED BY <2>1, <2>2, <2>3
<1>4. ASSUME NEW i \in Item,
             \/ Precheck(i) \/ createPromoLinkClaimTask(i) \/ Recover(i)
             \/ retryFailedTask(i) \/ pauseTask(i) \/ resumeTask(i) \/ abortTask(i)
      PROVE  run' = run
  BY <1>4 DEF Precheck, createPromoLinkClaimTask, Recover, retryFailedTask,
     pauseTask, resumeTask, abortTask
<1>5. ASSUME NEW k \in Key, NEW r, Land(k) \/ resolveManualReview(k, r)
      PROVE  run' = run
  BY <1>5 DEF Land, resolveManualReview
<1>6. persistExistingCatalogPromo => run' = run
  BY DEF persistExistingCatalogPromo
<1> QED BY <1>1, <1>2, <1>3, <1>4, <1>5, <1>6 DEF Next

LEMMA StepOfIntents ==
  ASSUME TypeOK, NoneUnsent, Next
  PROVE  intent' \in [Key -> IntentStatus] /\ \A k \in Key : IntentMove(k)
<1> DEFINE Goal == intent' \in [Key -> IntentStatus] /\ \A k \in Key : IntentMove(k)
<1>0. /\ intent \in [Key -> IntentStatus] /\ run \in [Key -> RunSet] /\ Aims
      /\ adjudicated \subseteq Key
  BY TypeParts DEF RestOK
<1>1. intent' = intent => Goal
  BY <1>0 DEF IntentMove
<1>2. ASSUME NEW a \in Key, NEW s \in IntentStatus,
             intent' = [intent EXCEPT ![a] = s], IntentMove(a)
      PROVE  Goal
  BY <1>0, <1>2 DEF IntentMove
<1>3. ASSUME NEW h \in Key, prepareSideEffectIntent(h) PROVE Goal
  <2>1. intent' = [intent EXCEPT ![h] = "prepared"] /\ run'[h].at = "ownership"
    BY <1>0, <1>3, RunRows DEF prepareSideEffectIntent, Step
  <2>2. IntentMove(h) /\ "prepared" \in IntentStatus
    BY <1>0, <1>3, <2>1 DEF prepareSideEffectIntent, IntentMove, IntentStatus, Unresolved
  <2> QED BY <1>2, <2>1, <2>2
<1>4. ASSUME NEW h \in Key, Block(h) \/ Review(h) PROVE Goal
  <2> DEFINE a == run[h].aim
             s == IF Block(h) THEN "claim_retry_blocked" ELSE "manual_review_required"
  <2>1. a \in Key /\ s \in IntentStatus
    BY <1>0, <1>4 DEF Block, Review, Aims, IntentStatus, Unresolved
  <2>2. \/ intent' = intent
        \/ /\ intent' = [intent EXCEPT ![a] = s]
           /\ IF Block(h) THEN intent[a] = "prepared"
                          ELSE intent[a] = "claim_retry_blocked"
    BY <1>4 DEF Block, Review, transitionSideEffectIntent, isAllowedSideEffectTransition
  <2>3. ASSUME intent' # intent PROVE IntentMove(a)
    BY <1>0, <2>1, <2>2, <2>3 DEF IntentMove
  <2> HIDE DEF a, s
  <2> QED BY <1>1, <1>2, <2>1, <2>2, <2>3
<1>5. ASSUME NEW h \in Key, Fail(h) PROVE Goal
  <2>1. \/ intent' = intent
        \/ intent' = [intent EXCEPT ![h] = "failed"] /\ intent[h] = "prepared"
    BY <1>5 DEF Fail, transitionSideEffectIntent, isAllowedSideEffectTransition
  <2>2. "failed" \in IntentStatus /\ (intent' # intent => IntentMove(h))
    BY <1>0, <1>5, <2>1 DEF Fail, IntentMove, IntentStatus
  <2> QED BY <1>1, <1>2, <2>1, <2>2
<1>6. ASSUME NEW h \in Key, Finalize(h) PROVE Goal
  <2> DEFINE a == run[h].aim
  <2>0. ItemsOK /\ h.item \in Item /\ Owns(h)
    BY <1>6, TypeParts DEF Key, Finalize
  <2>1. CASE run[h].decision = "claimed" /\ a \in Key
    <3>1. /\ intent' = [intent EXCEPT ![a] = "confirmed"] /\ link' = "fetched"
          /\ intent[a] \in {"prepared", "claim_retry_blocked"}
          /\ item' = [item EXCEPT ![h.item].status = "success"]
      BY <1>6, <2>1 DEF Finalize, Confirmable, Written, ItemResult
    <3>2. item'[h.item].status = "success"
      BY <2>0, <3>1, StatusRow DEF ItemStatus
    <3>3. IntentMove(a) /\ "confirmed" \in IntentStatus
      BY <1>0, <2>0, <2>1, <3>1, <3>2 DEF IntentMove, IntentStatus
    <3> QED BY <1>2, <2>1, <3>1, <3>3
  <2>2. CASE ~(run[h].decision = "claimed" /\ a \in Key)
    <3>1. intent' = intent
      BY <1>0, <1>6, <2>2 DEF Finalize
    <3> QED BY <1>1, <3>1
  <2> QED BY <2>1, <2>2
<1>7. ASSUME NEW h \in Key, RunStep(h), ~prepareSideEffectIntent(h), ~Block(h),
             ~Review(h), ~Fail(h), ~Finalize(h)
      PROVE  intent' = intent
  BY <1>7 DEF RunStep, loadClaimScope, PriorIntent, PreRead, Ownership, claimPromo,
     Answer, Readback, FinalizeRefused, FinalizeThrows, Crash
<1>8. ASSUME NEW i \in Item,
             \/ Precheck(i) \/ createPromoLinkClaimTask(i) \/ Recover(i)
             \/ Claim(i) \/ retryFailedTask(i)
             \/ pauseTask(i) \/ resumeTask(i) \/ abortTask(i)
      PROVE  intent' = intent
  BY <1>8 DEF Precheck, createPromoLinkClaimTask, Claim, Recover, retryFailedTask,
     pauseTask, resumeTask, abortTask
<1>9. ASSUME NEW k \in Key, Land(k) PROVE intent' = intent
  BY <1>9 DEF Land
<1>10. ASSUME NEW k \in Key, NEW r \in {"confirmed", "failed"}, resolveManualReview(k, r)
      PROVE  Goal
  <2>1. k \notin adjudicated
    BY <1>10 DEF resolveManualReview, NoneUnsent
  <2>2. IntentMove(k) /\ r \in IntentStatus
    BY <1>0, <1>10, <2>1 DEF resolveManualReview, IntentMove, IntentStatus
  <2>3. intent' = [intent EXCEPT ![k] = r]
    BY <1>10 DEF resolveManualReview
  <2> QED BY <1>2, <2>2, <2>3
<1>11. persistExistingCatalogPromo => intent' = intent
  BY DEF persistExistingCatalogPromo
<1> HIDE DEF Goal
<1>12. Goal
  BY <1>1, <1>3, <1>4, <1>5, <1>6, <1>7, <1>8, <1>9, <1>10, <1>11 DEF Next
<1> QED BY <1>12 DEF Goal

(* What grows, and who makes it grow.                                      *)
Grows ==
  /\ refused \subseteq refused' /\ adjudicated \subseteq adjudicated'
  /\ sent \subseteq sent'
  /\ landed' \subseteq sent' /\ refused' \subseteq sent' /\ sent' \subseteq Key
  /\ adjudicated' \subseteq Key
  /\ \A k \in Key : k \in sent' \ sent => run[k].at = "claim"
  /\ \A k \in Key : k \in adjudicated' \ adjudicated =>
       intent[k] = "manual_review_required" /\ intent'[k] \in {"confirmed", "failed"}

LinkMove ==
  /\ link' \in LinkStatus /\ promo' \in BOOLEAN
  /\ \/ link' \in {link, "fetched"}
     \/ \E j \in Key : Owns(j) /\ ~Harmless(j)

LEMMA StepOfRest ==
  ASSUME TypeOK, NoneUnsent, Next PROVE Grows /\ LinkMove
<1>0. /\ RestOK /\ run \in [Key -> RunSet] /\ intent \in [Key -> IntentStatus]
      /\ NoneUnsent /\ \A k \in Key : k.item \in Item
  BY TypeParts DEF Key
<1> DEFINE Still == UNCHANGED <<sent, landed, refused>>
<1> USE <1>0 DEF RestOK, upstream
<1>1. ASSUME Still, UNCHANGED adjudicated
      PROVE  Grows
  BY <1>1 DEF Grows
<1>2. UNCHANGED <<link, promo>> => LinkMove
  BY DEF LinkMove
<1>3. ASSUME NEW h \in Key,
             \/ loadClaimScope(h) \/ PriorIntent(h) \/ PreRead(h)
             \/ prepareSideEffectIntent(h) \/ Ownership(h) \/ Readback(h)
             \/ Block(h) \/ Review(h) \/ Fail(h) \/ FinalizeRefused(h)
             \/ FinalizeThrows(h) \/ Crash(h)
      PROVE  Grows /\ LinkMove
  <2>1. Still /\ UNCHANGED <<adjudicated, link, promo>>
    BY <1>3 DEF loadClaimScope, PriorIntent, PreRead, prepareSideEffectIntent,
       Ownership, Readback, Block, Review, Fail, FinalizeRefused, FinalizeThrows,
       Crash, queue
  <2> QED BY <1>1, <1>2, <2>1
<1>4. ASSUME NEW i \in Item,
             \/ Precheck(i) \/ createPromoLinkClaimTask(i) \/ Claim(i)
             \/ Recover(i) \/ retryFailedTask(i)
             \/ pauseTask(i) \/ resumeTask(i) \/ abortTask(i)
      PROVE  Grows /\ LinkMove
  <2>1. Still /\ UNCHANGED <<adjudicated, link, promo>>
    BY <1>4 DEF Precheck, createPromoLinkClaimTask, Claim, Recover, retryFailedTask,
       pauseTask, resumeTask, abortTask
  <2> QED BY <1>1, <1>2, <2>1
<1>6. ASSUME NEW h \in Key, claimPromo(h) PROVE Grows /\ LinkMove
  <2>1. /\ sent' = sent \cup {h} /\ run[h].at = "claim"
        /\ UNCHANGED <<promo, landed, refused, adjudicated, link>>
    BY <1>6 DEF claimPromo, queue
  <2> QED BY <1>2, <2>1 DEF Grows
<1>7. ASSUME NEW h \in Key, Answer(h) PROVE Grows /\ LinkMove
  <2>1. /\ UNCHANGED <<promo, sent, landed, adjudicated, link>>
        /\ refused' \in {refused, refused \cup {h}} /\ run[h].at = "answer"
    BY <1>7 DEF Answer, queue
  <2>2. h \in sent
    BY <2>1 DEF NoneUnsent
  <2> QED BY <1>2, <2>1, <2>2 DEF Grows
<1>8. ASSUME NEW h \in Key, Finalize(h) PROVE Grows /\ LinkMove
  <2>1. Still /\ UNCHANGED <<adjudicated, promo>>
    BY <1>8 DEF Finalize
  <2>2. /\ link' = Written(run[h].decision) /\ run[h].at = "finalize" /\ Owns(h)
    BY <1>8 DEF Finalize
  <2>3. /\ Written(run[h].decision) \in LinkStatus
        /\ \/ Written(run[h].decision) \in {link, "fetched"}
           \/ run[h].decision \in {"manual_review", "claim_failed", "capability_disabled"}
    BY DEF Written, LinkStatus
  <2>4. LinkMove
    BY <2>1, <2>2, <2>3 DEF LinkMove, Harmless
  <2> QED BY <1>1, <2>1, <2>4
<1>9. ASSUME NEW k \in Key, Land(k) PROVE Grows /\ LinkMove
  <2>1. /\ UNCHANGED <<sent, refused, adjudicated, link>>
        /\ k \in sent /\ landed' = landed \cup {k} /\ promo' = TRUE
    BY <1>9 DEF Land, queue
  <2> QED BY <2>1 DEF Grows, LinkMove
<1>10. ASSUME NEW k \in Key, NEW r \in {"confirmed", "failed"}, resolveManualReview(k, r)
      PROVE  Grows /\ LinkMove
  <2>1. /\ Still /\ UNCHANGED <<promo, link>>
        /\ adjudicated' = adjudicated \cup {k}
        /\ intent[k] = "manual_review_required" /\ intent'[k] = r
    BY <1>10 DEF resolveManualReview, queue
  <2> QED BY <1>2, <2>1 DEF Grows
<1>11. ASSUME persistExistingCatalogPromo PROVE Grows /\ LinkMove
  <2>1. Still /\ UNCHANGED <<adjudicated, promo>> /\ link' = "fetched"
    BY <1>11 DEF persistExistingCatalogPromo, queue
  <2>2. LinkMove
    BY <2>1 DEF LinkMove, LinkStatus
  <2> QED BY <1>1, <2>1, <2>2
<1> QED BY <1>3, <1>4, <1>6, <1>7, <1>8, <1>9, <1>10, <1>11 DEF Next, RunStep

(* Only an item not yet sent gets a selection.                             *)
Submitted ==
  \/ selection' = selection /\ submitting' \subseteq submitting
  \/ \E i \in Item, s \in Selection :
       /\ selection' = [selection EXCEPT ![i] = {s}]
       /\ item[i].status = "none" /\ item' = item
       /\ i \notin submitting /\ submitting' = submitting \cup {i}
       /\ UNCHANGED <<task, together, detached>>

LEMMA StepOfSelections ==
  ASSUME TypeOK, Next PROVE Submitted
<1>1. selection' = selection /\ submitting' = submitting => Submitted
  BY DEF Submitted
<1>2. ASSUME NEW h \in Key, RunStep(h)
      PROVE  UNCHANGED <<selection, submitting>>
  BY <1>2 DEF RunStep, loadClaimScope, PriorIntent, PreRead, prepareSideEffectIntent,
     Ownership, claimPromo, Answer, Readback, Block, Review, Fail, Finalize,
     FinalizeRefused, FinalizeThrows, Crash, queue
<1>3. ASSUME NEW i \in Item,
             \/ Claim(i) \/ Recover(i) \/ retryFailedTask(i)
             \/ pauseTask(i) \/ resumeTask(i) \/ abortTask(i)
      PROVE  UNCHANGED <<selection, submitting>>
  BY <1>3 DEF Claim, Recover, retryFailedTask, pauseTask, resumeTask, abortTask
<1>4. ASSUME NEW i \in Item, createPromoLinkClaimTask(i) PROVE Submitted
  BY <1>4 DEF createPromoLinkClaimTask, Submitted
<1>5. ASSUME NEW i \in Item, Precheck(i) PROVE Submitted
  BY <1>5 DEF Precheck, Submitted
<1>6. ASSUME NEW k \in Key, NEW r, Land(k) \/ resolveManualReview(k, r)
      PROVE  UNCHANGED <<selection, submitting>>
  BY <1>6 DEF Land, resolveManualReview, queue
<1>7. persistExistingCatalogPromo => UNCHANGED <<selection, submitting>>
  BY DEF persistExistingCatalogPromo, queue
<1> QED BY <1>1, <1>2, <1>3, <1>4, <1>5, <1>6, <1>7 DEF Next

(* An intent is born once.                                                 *)
LEMMA StepOfBirths ==
  ASSUME TypeOK, NothingEarly, Next PROVE born' \in [Key -> 0..Cardinality(Key)]
<1>0. born \in [Key -> 0..Cardinality(Key)]
  BY TypeParts DEF RestOK
<1>1. ASSUME NEW h \in Key, prepareSideEffectIntent(h)
      PROVE  born' \in [Key -> 0..Cardinality(Key)]
  <2>1. h \notin Intents /\ Intents \subseteq Key
    BY <1>1 DEF prepareSideEffectIntent, NothingEarly, Early, Intents
  <2>2. IsFiniteSet(Intents) /\ Cardinality(Intents) \in Nat
    BY <2>1, KeyFinite, FS_Subset, FS_CardinalityType
  <2>3. Cardinality(Intents \cup {h}) = Cardinality(Intents) + 1
    BY <2>1, <2>2, FS_AddElement
  <2>4. Cardinality(Intents \cup {h}) <= Cardinality(Key)
    BY <2>1, KeyFinite, FS_Subset
  <2>5. born' = [born EXCEPT ![h] = Cardinality(Intents) + 1]
    BY <1>1 DEF prepareSideEffectIntent
  <2> QED BY <1>0, <2>2, <2>3, <2>4, <2>5, KeyFinite
<1>2. ASSUME NEW h \in Key, RunStep(h), ~prepareSideEffectIntent(h)
      PROVE  born' = born
  BY <1>2 DEF RunStep, loadClaimScope, PriorIntent, PreRead,
     Ownership, claimPromo, Answer, Readback, Block, Review, Fail, Finalize,
     FinalizeRefused, FinalizeThrows, Crash
<1>3. ASSUME NEW i \in Item,
             \/ Precheck(i) \/ createPromoLinkClaimTask(i) \/ Claim(i)
             \/ Recover(i) \/ retryFailedTask(i)
             \/ pauseTask(i) \/ resumeTask(i) \/ abortTask(i)
      PROVE  born' = born
  BY <1>3 DEF Precheck, createPromoLinkClaimTask, Claim, Recover, retryFailedTask,
     pauseTask, resumeTask, abortTask
<1>4. ASSUME NEW k \in Key, NEW r, Land(k) \/ resolveManualReview(k, r)
      PROVE  born' = born
  BY <1>4 DEF Land, resolveManualReview
<1>5. persistExistingCatalogPromo => born' = born
  BY DEF persistExistingCatalogPromo
<1> QED BY <1>0, <1>1, <1>2, <1>3, <1>4, <1>5 DEF Next
-----------------------------------------------------------------------------
(* How one step moves tasks, and who is then beside whom.                  *)
TasksOK == /\ task \in [Item -> TaskStatus]
           /\ together \subseteq SUBSET Item /\ detached \subseteq Item

TaskMove(i) ==
  /\ item[i].status = "none" => (item'[i].status = "none" <=> task'[i] = "none")
  /\ task[i] # "none" => task'[i] # "none"
  /\ Active(i)' /\ ~Active(i) =>
       /\ ~SameSelectionActive(i) /\ UNCHANGED selection
       /\ \A j \in Item \ {i} : task'[j] = task[j]
  /\ item'[i].status = "processing" /\ item[i].status = "processing" =>
       (Active(i) => Active(i)' \/ i \in detached')
  /\ item'[i].status = "processing" /\ item[i].status # "processing" =>
       /\ Active(i) /\ Active(i)' /\ item[i].status = "pending" /\ UNCHANGED selection
       /\ \A j \in Item : item[j].status = "processing" => {i, j} \in together'

Pairs ==
  /\ together \subseteq together' /\ detached \subseteq detached'
  /\ \A p \in together' \ together :
       \E i, j \in Item : /\ p = {i, j} /\ item[i].status = "pending" /\ Active(i)
                         /\ item[j].status = "processing" /\ UNCHANGED selection

Tasks == TasksOK' /\ Pairs /\ \A i \in Item : TaskMove(i)

LEMMA TaskRow ==
  ASSUME TasksOK, NEW i \in Item, NEW s \in TaskStatus,
         task' = [task EXCEPT ![i] = s]
  PROVE  /\ task' \in [Item -> TaskStatus] /\ task'[i] = s
         /\ \A j \in Item \ {i} : task'[j] = task[j]
BY DEF TasksOK

(* A step that moves the rows of one item at most.                         *)
LEMMA OneTask ==
  ASSUME TasksOK, TasksOK', Pairs, Submissions, NEW i \in Item, TaskMove(i),
         \A j \in Item \ {i} : task'[j] = task[j] /\ item'[j] = item[j]
  PROVE  Tasks
<1>1. ASSUME NEW j \in Item \ {i} PROVE TaskMove(j)
  BY <1>1 DEF TaskMove, Active, Submissions
<1> QED BY <1>1 DEF Tasks

LEMMA StillTasks ==
  ASSUME TasksOK, Submissions, UNCHANGED <<item, task, together, detached>>
  PROVE  Tasks
BY DEF Tasks, TasksOK, Pairs, TaskMove, Submissions, Active

LEMMA StepOfTasks ==
  ASSUME TypeOK, RunsAreAttempts, Submissions, Next PROVE Tasks
<1>0. /\ ItemsOK /\ TasksOK /\ \A i \in Item : item[i].status \in ItemStatus
  BY TypeParts DEF ItemsOK, RestOK, TasksOK
<1>1. ASSUME NEW i \in Item, createPromoLinkClaimTask(i) PROVE Tasks
  <2>1. CASE SameSelectionActive(i)
    BY <1>0, <1>1, <2>1, StillTasks DEF createPromoLinkClaimTask
  <2>2. CASE ~SameSelectionActive(i)
    <3>1. /\ item' = [item EXCEPT ![i].status = "pending"]
          /\ task' = [task EXCEPT ![i] = "open"]
          /\ UNCHANGED <<selection, together, detached>> /\ item[i].status = "none"
      BY <1>1, <2>2 DEF createPromoLinkClaimTask, Submissions
    <3>2. /\ task' \in [Item -> TaskStatus] /\ task'[i] = "open"
          /\ \A j \in Item \ {i} : task'[j] = task[j]
      BY <1>0, <3>1, TaskRow DEF TaskStatus
    <3>3. item'[i].status = "pending" /\ \A j \in Item \ {i} : item'[j] = item[j]
      BY <1>0, <3>1, StatusRow DEF ItemStatus
    <3>4. TasksOK' /\ Pairs
      BY <1>0, <3>1, <3>2 DEF TasksOK, Pairs
    <3>5. TaskMove(i)
      BY <2>2, <3>1, <3>2, <3>3 DEF TaskMove, Active
    <3> QED BY <1>0, <3>2, <3>3, <3>4, <3>5, OneTask
  <2> QED BY <2>1, <2>2
<1>2. ASSUME NEW i \in Item, Claim(i) PROVE Tasks
  <2>1. /\ item'[i].status = "processing" /\ \A j \in Item \ {i} : item'[j] = item[j]
        /\ item[i].status = "pending" /\ task[i] = "open"
        /\ UNCHANGED <<task, selection, detached>>
    BY <1>2, ClaimStarts DEF Claim
  <2>2. together' = together \cup
                      {{i, j} : j \in {j \in Item : item[j].status = "processing"}}
    BY <1>2 DEF Claim
  <2>3. TasksOK' /\ together \subseteq together'
    BY <1>0, <2>1, <2>2 DEF TasksOK
  <2>4. Pairs
    BY <2>1, <2>2 DEF Pairs, Active
  <2>5. TaskMove(i)
    BY <2>1, <2>2 DEF TaskMove, Active
  <2> QED BY <1>0, <2>1, <2>3, <2>4, <2>5, OneTask
<1>3. ASSUME NEW i \in Item, NEW status \in {"success", "failed", "skipped"},
             item[i].status = "processing",
             item' = [item EXCEPT ![i].status = status],
             NEW s \in {"ended", "halted"},
             task' = [task EXCEPT ![i] = IF task[i] = "open" THEN s ELSE task[i]],
             UNCHANGED <<selection, together, detached>>
      PROVE  Tasks
  <2> DEFINE next == IF task[i] = "open" THEN s ELSE task[i]
  <2>1. next \in TaskStatus /\ (next = "none" => task[i] = "none") /\ next # "open"
    BY <1>0 DEF TasksOK, TaskStatus
  <2>2. /\ task' \in [Item -> TaskStatus] /\ task'[i] = next
        /\ \A j \in Item \ {i} : task'[j] = task[j]
    <3> HIDE DEF next
    <3>1. task' = [task EXCEPT ![i] = next]
      BY <1>3 DEF next
    <3> QED BY <1>0, <2>1, <3>1, TaskRow
  <2>3. item'[i].status = status /\ \A j \in Item \ {i} : item'[j] = item[j]
    BY <1>0, <1>3, StatusRow DEF ItemStatus
  <2>4. TasksOK' /\ Pairs
    BY <1>0, <1>3, <2>2 DEF TasksOK, Pairs
  <2>5. TaskMove(i)
    <3> HIDE DEF next
    <3> QED BY <1>3, <2>1, <2>2, <2>3 DEF TaskMove, Active
  <2> QED BY <1>0, <2>2, <2>3, <2>4, <2>5, OneTask
<1>4. ASSUME NEW i \in Item, Recover(i) PROVE Tasks
  <2>1. task' = [task EXCEPT ![i] = IF task[i] = "open" THEN "ended" ELSE task[i]]
    BY <1>4 DEF Recover, Ended
  <2> QED BY <1>3, <1>4, <2>1 DEF Recover
<1>5. ASSUME NEW k \in Key, Finalize(k) PROVE Tasks
  <2> DEFINE i == k.item
             s == IF run[k].decision = "hold" THEN "halted" ELSE "ended"
  <2>1. i \in Item /\ item[i].status = "processing"
    BY <1>5 DEF Key, Finalize, Owns
  <2>2. task' = [task EXCEPT ![i] = IF task[i] = "open" THEN s ELSE task[i]]
    <3>1. CASE run[k].decision = "hold" /\ task[i] = "open"
      BY <1>5, <3>1 DEF Finalize, Held
    <3>2. CASE ~(run[k].decision = "hold" /\ task[i] = "open")
      BY <1>5, <3>2 DEF Finalize, Held, Ended
    <3> QED BY <3>1, <3>2
  <2>3. ItemResult(run[k].decision) \in {"success", "failed", "skipped"}
    BY DEF ItemResult
  <2>4. /\ item' = [item EXCEPT ![i].status = ItemResult(run[k].decision)]
        /\ UNCHANGED <<selection, together, detached>> /\ s \in {"ended", "halted"}
    BY <1>5 DEF Finalize
  <2> HIDE DEF i, s
  <2> QED BY <1>3, <2>1, <2>2, <2>3, <2>4
<1>6. ASSUME NEW i \in Item, retryFailedTask(i) PROVE Tasks
  <2>1. /\ item' = [item EXCEPT ![i].status = "pending"] /\ item[i].status = "failed"
        /\ task' = [task EXCEPT ![i] = "open"] /\ task[i] = "ended"
        /\ ~SameSelectionActive(i) /\ UNCHANGED <<selection, together, detached>>
    BY <1>6 DEF retryFailedTask
  <2>2. /\ task' \in [Item -> TaskStatus] /\ task'[i] = "open"
        /\ \A j \in Item \ {i} : task'[j] = task[j]
    BY <1>0, <2>1, TaskRow DEF TaskStatus
  <2>3. item'[i].status = "pending" /\ \A j \in Item \ {i} : item'[j] = item[j]
    BY <1>0, <2>1, StatusRow DEF ItemStatus
  <2>4. TasksOK' /\ Pairs
    BY <1>0, <2>1, <2>2 DEF TasksOK, Pairs
  <2>5. TaskMove(i)
    BY <2>1, <2>2, <2>3 DEF TaskMove, Active
  <2> QED BY <1>0, <2>2, <2>3, <2>4, <2>5, OneTask
<1>7. ASSUME NEW i \in Item, pauseTask(i) \/ resumeTask(i) \/ abortTask(i)
      PROVE  Tasks
  <2> DEFINE s == IF pauseTask(i) THEN "paused" ELSE IF resumeTask(i) THEN "open"
                                                   ELSE "halted"
  <2>1. /\ task' = [task EXCEPT ![i] = s] /\ s \in TaskStatus \ {"none"}
        /\ task[i] \in {"open", "paused"} /\ UNCHANGED <<selection, together>>
    BY <1>7 DEF pauseTask, resumeTask, abortTask, TaskStatus
  <2>2. /\ task' \in [Item -> TaskStatus] /\ task'[i] = s
        /\ \A j \in Item \ {i} : task'[j] = task[j]
    <3> HIDE DEF s
    <3> QED BY <1>0, <2>1, TaskRow
  <2>3. /\ detached \subseteq detached' /\ detached' \subseteq Item
        /\ item[i].status = "processing" => i \in detached' \/ s = "open"
    BY <1>0, <1>7 DEF pauseTask, resumeTask, abortTask, Detach, TasksOK
  <2>4. /\ \A j \in Item \ {i} : item'[j] = item[j]
        /\ item'[i].status = item[i].status \/ item'[i].status = "skipped"
    <3>1. item' = item \/ item' = [item EXCEPT ![i].status = "skipped"]
      BY <1>7 DEF pauseTask, resumeTask, abortTask
    <3> QED BY <1>0, <3>1, StatusRow DEF ItemStatus
  <2>5. s = "open" => task[i] = "paused" /\ ~SameSelectionActive(i)
    BY <1>7 DEF pauseTask, resumeTask, abortTask
  <2>6. TasksOK' /\ Pairs
    BY <1>0, <2>1, <2>2, <2>3 DEF TasksOK, Pairs
  <2>7. item[i].status # "none"
    BY <2>1 DEF Submissions
  <2>8. TaskMove(i)
    <3> HIDE DEF s
    <3> QED BY <2>1, <2>2, <2>3, <2>4, <2>5, <2>7 DEF TaskMove, Active
  <2> QED BY <1>0, <2>2, <2>4, <2>6, <2>8, OneTask
<1>8. ASSUME NEW i \in Item, Precheck(i) PROVE Tasks
  BY <1>0, <1>8, StillTasks DEF Precheck
<1>9. ASSUME NEW k \in Key, RunStep(k), ~Finalize(k) PROVE Tasks
  <2>1. UNCHANGED <<item, task, together, detached>>
    BY <1>9 DEF RunStep, loadClaimScope, PriorIntent, PreRead, prepareSideEffectIntent,
       Ownership, claimPromo, Answer, Readback, Block, Review, Fail, FinalizeRefused,
       FinalizeThrows, Crash, queue
  <2> QED BY <1>0, <2>1, StillTasks
<1>10. ASSUME \/ \E k \in Key : Land(k)
              \/ \E k \in Key, r \in {"confirmed", "failed"} : resolveManualReview(k, r)
              \/ persistExistingCatalogPromo
       PROVE  Tasks
  <2>1. UNCHANGED <<item, task, together, detached>>
    BY <1>10 DEF Land, resolveManualReview, persistExistingCatalogPromo, queue
  <2> QED BY <1>0, <2>1, StillTasks
<1> QED BY <1>1, <1>2, <1>4, <1>5, <1>6, <1>7, <1>8, <1>9, <1>10 DEF Next
-----------------------------------------------------------------------------
LEMMA TypeStep == ClaimInv /\ Next => TypeOK'
<1> SUFFICES ASSUME ClaimInv, Next PROVE TypeOK'
  OBVIOUS
<1>0. TypeOK /\ RunsAreAttempts /\ NoneUnsent /\ NothingEarly /\ Submissions
  BY DEF ClaimInv
<1>1. ItemsOK'
  BY <1>0, StepOfItems
<1>2. run' \in [Key -> RunSet] /\ \A k \in Key : RunMove(k)
  BY <1>0, StepOfRuns
<1>3. intent' \in [Key -> IntentStatus] /\ \A k \in Key : IntentMove(k)
  BY <1>0, StepOfIntents
<1>4. RestOK'
  <2>1. RestOK
    BY <1>0, TypeParts
  <2>2. Grows /\ LinkMove /\ Submitted /\ born' \in [Key -> 0..Cardinality(Key)]
    BY <1>0, StepOfRest, StepOfSelections, StepOfBirths
  <2>3. TasksOK'
    BY <1>0, StepOfTasks DEF Tasks
  <2> QED BY <2>1, <2>2, <2>3 DEF RestOK, TasksOK, Grows, LinkMove, Submitted
<1>5. Aims'
  <2> SUFFICES ASSUME NEW k \in Key, run'[k].at \in {"readback", "block", "review"}
               PROVE  run'[k].aim \in Key /\ intent'[run'[k].aim] # "none"
    BY DEF Aims
  <2>1. run'[k].aim \in Key /\ intent[run'[k].aim] # "none"
    <3>1. Aims /\ RunMove(k)
      BY <1>0, <1>2, TypeParts
    <3> QED BY <3>1 DEF Aims, RunMove
  <2>2. IntentMove(run'[k].aim)
    BY <1>3, <2>1
  <2> QED BY <2>1, <2>2 DEF IntentMove
<1> QED BY <1>1, <1>2, <1>3, <1>4, <1>5, TypeParts

Moves ==
  /\ \A k \in Key : RunMove(k) /\ IntentMove(k)
  /\ item' = item \/ OneItemMoves
  /\ Grows /\ LinkMove /\ Submitted /\ Tasks

LEMMA NextMoves == ClaimInv /\ Next => Moves
BY StepOfRuns, StepOfIntents, StepOfItems, StepOfRest, StepOfSelections, StepOfTasks
   DEF ClaimInv, Moves

LEMMA RunsStep == ClaimInv /\ TypeOK' /\ Moves => RunsAreAttempts'
<1> SUFFICES ASSUME ClaimInv, TypeOK', Moves, NEW k \in Key
             PROVE  run'[k].at = "none" <=> item'[k.item].attempts < k.attempt
  BY DEF RunsAreAttempts
<1>1. /\ k.item \in Item /\ k.attempt \in Nat
      /\ k = [item |-> k.item, attempt |-> k.attempt]
  BY ClaimAssumption DEF Key
<1>2. item[k.item].attempts \in Nat /\ item'[k.item].attempts \in Nat
  BY <1>1, TypeParts, ClaimAssumption DEF ItemsOK, ClaimInv
<1>3. run[k].at = "none" <=> item[k.item].attempts < k.attempt
  BY DEF ClaimInv, RunsAreAttempts
<1>4. \/ item'[k.item].attempts = item[k.item].attempts
      \/ /\ item'[k.item].attempts = item[k.item].attempts + 1
         /\ run'[[item |-> k.item, attempt |-> item'[k.item].attempts]].at = "scope"
  BY <1>1 DEF Moves, OneItemMoves, ItemMove
<1>5. \/ run'[k] = run[k]
      \/ run[k].at = "none" /\ run'[k].at = "scope" /\ item'[k.item].attempts = k.attempt
      \/ run[k].at # "none" /\ run'[k].at # "none"
  BY DEF Moves, RunMove
<1>6. CASE item'[k.item].attempts = k.attempt /\ item[k.item].attempts # k.attempt
  BY <1>1, <1>2, <1>4, <1>6
<1>7. CASE item'[k.item].attempts = item[k.item].attempts
  BY <1>1, <1>2, <1>3, <1>5, <1>7
<1>8. CASE /\ item'[k.item].attempts = item[k.item].attempts + 1
           /\ item'[k.item].attempts # k.attempt
  BY <1>1, <1>2, <1>3, <1>5, <1>8
<1> QED BY <1>1, <1>2, <1>4, <1>6, <1>7, <1>8

LEMMA EarlyStep == ClaimInv /\ Moves => NothingEarly'
<1> SUFFICES ASSUME ClaimInv, Moves, NEW k \in Key, run'[k].at \in Early
             PROVE  intent'[k] = "none" /\ k \notin sent'
  BY DEF NothingEarly
<1>1. run[k].at \in Early
  BY DEF Moves, RunMove, Early
<1>2. intent[k] = "none" /\ k \notin sent
  BY <1>1 DEF ClaimInv, NothingEarly
<1>3. intent'[k] = "none"
  BY <1>1, <1>2 DEF Moves, IntentMove, Early
<1>4. k \notin sent'
  BY <1>1, <1>2 DEF Moves, Grows, Early
<1> QED BY <1>3, <1>4

(* An intent on record stays on record, but for a refused request.         *)
LEMMA RecordStays ==
  ASSUME ClaimInv, Moves, NEW k \in Key, Recorded(k), run[k].at # "fail"
  PROVE  Recorded(k)'
BY DEF Recorded, Moves, IntentMove, Grows, Unresolved

LEMMA RecordStep ==
  ClaimInv /\ Moves => SendingRecorded' /\ NoneUnsent' /\ EffectRemembered'
<1> SUFFICES ASSUME ClaimInv, Moves
             PROVE  SendingRecorded' /\ NoneUnsent' /\ EffectRemembered'
  OBVIOUS
<1>0. /\ SendingRecorded /\ NoneUnsent /\ EffectRemembered /\ NothingEarly
      /\ sent' \subseteq Key /\ adjudicated' \subseteq Key
  BY DEF ClaimInv, Moves, Grows
<1>1. ASSUME NEW k \in Key, run'[k].at \in Sending PROVE Recorded(k)'
  <2>1. \/ run[k].at \in Sending
        \/ intent'[k] = "prepared"
    BY <1>1 DEF Moves, RunMove, Sending
  <2>2. CASE run[k].at \in Sending
    <3>1. Recorded(k) /\ run[k].at # "fail"
      BY <1>0, <2>2 DEF SendingRecorded, Sending
    <3> QED BY <3>1, RecordStays
  <2> QED BY <2>1, <2>2 DEF Recorded, Unresolved
<1>2. ASSUME NEW k \in Key, run'[k].at = "fail" PROVE k \in refused'
  BY <1>0, <1>2 DEF SendingRecorded, Moves, RunMove, Grows
<1>3. ASSUME NEW k \in Key, run'[k].at \in Sending \/ k \in sent'
      PROVE  intent'[k] # "none"
  <2>1. \/ intent[k] # "none"
        \/ run[k].at = "prepare" /\ intent'[k] = "prepared"
    BY <1>0, <1>3 DEF NoneUnsent, Moves, RunMove, Grows, Sending
  <2> QED BY <2>1 DEF Moves, IntentMove
<1>4. ASSUME NEW k \in Key, run'[k].at = "answer" PROVE k \in sent'
  BY <1>0, <1>4 DEF NoneUnsent, Moves, RunMove, Grows
<1>5. ASSUME NEW k \in adjudicated' PROVE intent'[k] \in {"confirmed", "failed"}
  <2>1. CASE k \in adjudicated
    <3>1. intent[k] \in {"confirmed", "failed"} /\ k \in Key
      BY <1>0, <1>5, <2>1 DEF NoneUnsent
    <3>2. run[k].at # "prepare"
      BY <1>0, <3>1 DEF NothingEarly, Early
    <3> QED BY <3>1, <3>2 DEF Moves, IntentMove
  <2>2. CASE k \notin adjudicated
    BY <1>0, <1>5, <2>2 DEF Moves, Grows
  <2> QED BY <2>1, <2>2
<1>6. ASSUME NEW k \in sent' \ refused'
      PROVE  intent'[k] \in Unresolved \cup {"confirmed"} \/ k \in adjudicated'
  <2>1. k \in Key /\ k \notin refused
    BY <1>0, <1>6 DEF Moves, Grows
  <2>2. run[k].at # "fail"
    BY <1>0, <2>1 DEF SendingRecorded
  <2>3. Recorded(k)
    BY <1>0, <1>6, <2>1 DEF EffectRemembered, SendingRecorded, Recorded, Moves,
       Grows, Sending
  <2> QED BY <2>1, <2>2, <2>3, RecordStays DEF Recorded
<1> QED BY <1>1, <1>2, <1>3, <1>4, <1>5, <1>6 DEF SendingRecorded, NoneUnsent,
           EffectRemembered
-----------------------------------------------------------------------------
LEMMA SubmissionsStep == ClaimInv /\ TypeOK' /\ Moves => Submissions'
<1> SUFFICES ASSUME ClaimInv, TypeOK', Moves PROVE Submissions'
  OBVIOUS
<1>0. /\ Submissions /\ submitting \subseteq Item /\ \A i \in Item : TaskMove(i)
  BY TypeParts DEF ClaimInv, RestOK, Moves, Tasks
<1>1. \A i \in Item : item'[i].status = "none" => item[i].status = "none"
  BY DEF Moves, OneItemMoves, ItemMove
<1>2. ASSUME NEW i \in submitting' PROVE item'[i].status = "none"
  <2>1. CASE i \in submitting
    BY <1>0, <1>2, <2>1 DEF Submissions, Moves, OneItemMoves, ItemMove
  <2>2. CASE i \notin submitting
    BY <1>2, <2>2 DEF Moves, Submitted
  <2> QED BY <2>1, <2>2
<1>3. ASSUME NEW i \in Item
      PROVE  item'[i].status = "none" <=> task'[i] = "none"
  BY <1>0, <1>1 DEF TaskMove, Submissions
<1> QED BY <1>2, <1>3 DEF Submissions

LEMMA IndexedStep == ClaimInv /\ TypeOK' /\ Moves => Indexed'
<1> SUFFICES ASSUME ClaimInv, TypeOK', Moves, NEW i \in Item, NEW j \in Item,
                    Active(i)', Active(j)', selection'[i] = selection'[j], i # j
             PROVE  FALSE
  BY DEF Indexed
<1>0. /\ Indexed /\ Submissions /\ TaskMove(i) /\ TaskMove(j) /\ RestOK
  BY TypeParts DEF ClaimInv, Moves, Tasks
<1>1. CASE UNCHANGED selection
  <2>1. Active(i) \/ Active(j)
    BY <1>0 DEF TaskMove, Active
  <2>2. CASE ~Active(i)
    BY <1>0, <1>1, <2>1, <2>2 DEF TaskMove, SameSelectionActive
  <2>3. CASE ~Active(j)
    BY <1>0, <1>1, <2>1, <2>3 DEF TaskMove, SameSelectionActive
  <2> QED BY <1>0, <1>1, <2>2, <2>3 DEF Indexed
<1>2. ASSUME NEW n \in Item, NEW s \in Selection,
             selection' = [selection EXCEPT ![n] = {s}],
             item[n].status = "none", UNCHANGED task
      PROVE  FALSE
  <2>1. task[n] = "none" /\ Active(i) /\ Active(j)
    BY <1>0, <1>2 DEF Submissions, Active
  <2>2. selection[i] = selection[j]
    BY <1>0, <1>2, <2>1 DEF RestOK, Active
  <2> QED BY <1>0, <2>1, <2>2 DEF Indexed
<1> QED BY <1>1, <1>2 DEF Moves, Submitted

LEMMA BesideStep == ClaimInv /\ TypeOK' /\ Moves => Attached' /\ Noticed'
<1> SUFFICES ASSUME ClaimInv, TypeOK', Moves PROVE Attached' /\ Noticed'
  OBVIOUS
<1>0. Attached /\ Noticed /\ Pairs /\ \A i \in Item : TaskMove(i)
  BY DEF ClaimInv, Moves, Tasks
<1>1. ASSUME NEW i \in Item, item'[i].status = "processing"
      PROVE  Active(i)' \/ i \in detached'
  BY <1>0, <1>1 DEF TaskMove, Attached, Pairs
<1>2. ASSUME NEW i \in Item, NEW j \in Item, i # j,
             item'[i].status = "processing", item'[j].status = "processing"
      PROVE  {i, j} \in together'
  <2>1. item[i].status = "processing" \/ item[j].status = "processing"
    BY <1>2 DEF Moves, OneItemMoves
  <2>2. CASE item[i].status = "processing" /\ item[j].status = "processing"
    BY <1>0, <1>2, <2>2 DEF Noticed, Pairs
  <2>3. CASE item[i].status # "processing"
    BY <1>0, <1>2, <2>1, <2>3 DEF TaskMove
  <2>4. CASE item[j].status # "processing"
    <3>1. {j, i} \in together'
      BY <1>0, <1>2, <2>1, <2>4 DEF TaskMove
    <3>2. {j, i} = {i, j}
      OBVIOUS
    <3> QED BY <3>1, <3>2
  <2> QED BY <2>2, <2>3, <2>4
<1> QED BY <1>1, <1>2 DEF Attached, Noticed

LEMMA ExplainedStep == ClaimInv /\ TypeOK' /\ Moves => AllExplained'
<1> SUFFICES ASSUME ClaimInv, TypeOK', Moves, NEW p \in together'
             PROVE  Explained(p)'
  BY DEF AllExplained
<1>0. /\ Submissions /\ Indexed /\ Attached /\ Pairs /\ RestOK /\ TasksOK'
      /\ p \subseteq Item /\ AllExplained
  BY TypeParts DEF ClaimInv, Moves, Tasks, TasksOK
<1>1. \A i \in Item : item[i].status # "none" => item'[i].status # "none"
  BY DEF Moves, OneItemMoves, ItemMove
<1>2. CASE p \in together
  <2>1. PICK i \in p, j \in p : /\ item[i].status # "none" /\ item[j].status # "none"
                                /\ selection[i] # selection[j] \/ i \in detached
    BY <1>0, <1>2 DEF AllExplained, Explained
  <2>2. selection'[i] = selection[i] /\ selection'[j] = selection[j]
    BY <1>0, <2>1 DEF Moves, Submitted, RestOK
  <2> QED BY <1>0, <1>1, <2>1, <2>2 DEF Explained, Pairs
<1>3. CASE p \notin together
  <2>1. PICK i \in Item, j \in Item :
          /\ p = {i, j} /\ item[i].status = "pending" /\ Active(i)
          /\ item[j].status = "processing" /\ UNCHANGED selection
    BY <1>0, <1>3 DEF Pairs
  <2>2. i # j /\ item'[i].status # "none" /\ item'[j].status # "none"
    BY <1>1, <2>1
  <2>3. selection[i] # selection[j] \/ j \in detached
    BY <1>0, <2>1, <2>2 DEF Attached, Indexed
  <2> QED BY <1>0, <2>1, <2>2, <2>3 DEF Explained, Pairs
<1> QED BY <1>2, <1>3
-----------------------------------------------------------------------------
(* Two runs own their items only if those are at work together.            *)
LEMMA OneOwner ==
  ASSUME ClaimInv, NEW j \in Key, NEW k \in Key, Owns(j), Owns(k)
  PROVE  j = k \/ {j.item, k.item} \in together
<1>1. /\ j.item \in Item /\ k.item \in Item
      /\ j = [item |-> j.item, attempt |-> j.attempt]
      /\ k = [item |-> k.item, attempt |-> k.attempt]
  BY DEF Key
<1>2. CASE j.item = k.item
  BY <1>1, <1>2 DEF Owns
<1>3. CASE j.item # k.item
  BY <1>1, <1>3 DEF Owns, ClaimInv, Noticed
<1> QED BY <1>2, <1>3

(* A run owns its item from its claim on, or since before.                 *)
LEMMA OwnsSince ==
  ASSUME ClaimInv, Moves, NEW k \in Key, Owns(k)'
  PROVE  Owns(k) \/ run'[k].at = "scope"
<1>1. k.item \in Item /\ k = [item |-> k.item, attempt |-> k.attempt]
  BY DEF Key
<1> QED BY <1>1 DEF Owns, Moves, OneItemMoves, ItemMove

LEMMA LiveStep == ClaimInv /\ TypeOK' /\ Moves => OneLive'
<1> SUFFICES ASSUME ClaimInv, TypeOK', Moves,
                    NEW j \in Key, NEW k \in Key, j # k,
                    Live(k)', Live(j)' \/ PastLooking(j)'
             PROVE  {j.item, k.item} \in together
  BY DEF OneLive, Moves, Tasks, Pairs
<1>0. /\ NothingEarly /\ NoneUnsent
      /\ \A m, n \in Key : Live(n) /\ (Live(m) \/ PastLooking(m)) =>
                              m = n \/ {m.item, n.item} \in together
      /\ {j.item, k.item} = {k.item, j.item}
  BY DEF ClaimInv, OneLive
<1>1. ASSUME NEW n \in Key, Live(n)'
      PROVE  Live(n) \/ PastLooking(n)
  <2>1. intent[n] = "failed" => intent'[n] = "failed"
    BY <1>0 DEF Moves, IntentMove, NothingEarly, Early
  <2>2. intent[n] # "failed"
    BY <1>1, <2>1 DEF Live
  <2>3. \/ run[n].at = "claim" \/ n \in sent
        \/ run[n].at = "ownership" /\ Owns(n)
    BY <1>1 DEF Live, Moves, RunMove, Grows
  <2> QED BY <2>2, <2>3 DEF Live, PastLooking
<1>2. ASSUME NEW n \in Key, PastLooking(n)'
      PROVE  \/ PastLooking(n)
             \/ Owns(n) /\ With(Unresolved \cup {"confirmed"}) = {}
  BY <1>2, OwnsSince DEF PastLooking, Moves, RunMove
<1>3. ASSUME NEW n \in Key, Live(n), With(Unresolved \cup {"confirmed"}) = {}
      PROVE  FALSE
  <2>1. intent[n] # "none" /\ intent[n] # "failed" /\ intent[n] \in IntentStatus
    BY <1>0, <1>3, TypeParts DEF Live, NoneUnsent, Sending, ClaimInv
  <2> QED BY <1>3, <2>1 DEF With, IntentStatus
<1>4. Live(k) \/ PastLooking(k)
  BY <1>1
<1>5. Live(j) \/ PastLooking(j) \/ (Owns(j) /\ With(Unresolved \cup {"confirmed"}) = {})
  BY <1>1, <1>2
<1>6. \/ Live(k) /\ (Live(j) \/ PastLooking(j))
      \/ Live(j) /\ PastLooking(k)
      \/ Owns(k) /\ Owns(j)
  BY <1>1, <1>3, <1>4, <1>5 DEF PastLooking
<1> QED BY <1>0, <1>6, OneOwner

LEMMA ConfirmedStep == ClaimInv /\ TypeOK' /\ Moves => ConfirmedStays'
<1> SUFFICES ASSUME ClaimInv, TypeOK', Moves, together' = {}, NEW k \in Key,
                    intent'[k] = "confirmed", k \notin adjudicated'
             PROVE  /\ link' = "fetched"
                    /\ \A j \in Key : Owns(j)' => Harmless(j)'
  BY DEF ConfirmedStays, With
<1>0. together = {} /\ NothingEarly /\ k \notin adjudicated
  BY DEF ClaimInv, Moves, Grows, Tasks, Pairs
<1>1. CASE intent[k] = "confirmed"
  <2>1. link = "fetched" /\ \A j \in Key : Owns(j) => Harmless(j)
    BY <1>0, <1>1 DEF ClaimInv, ConfirmedStays, With
  <2>2. link' = "fetched"
    BY <2>1 DEF Moves, LinkMove
  <2>3. ASSUME NEW j \in Key, Owns(j)' PROVE Harmless(j)'
    <3>1. CASE run'[j].at = "scope"
      BY <3>1 DEF Harmless
    <3>2. CASE Owns(j)
      <4>1. Harmless(j) /\ RunMove(j)
        BY <2>1, <3>2 DEF Moves
      <4> QED BY <2>1, <4>1 DEF RunMove, Harmless
    <3> QED BY <2>3, <3>1, <3>2, OwnsSince
  <2> QED BY <2>2, <2>3
<1>2. CASE intent[k] # "confirmed"
  <2>1. /\ link' = "fetched"
        /\ \E j \in Key : Owns(j) /\ item'[j.item].status \in {"success", "failed", "skipped"}
    BY <1>0, <1>2 DEF Moves, IntentMove
  <2>2. PICK h \in Key : Owns(h) /\ item'[h.item].status \in {"success", "failed", "skipped"}
    BY <2>1
  <2>3. ASSUME NEW j \in Key, Owns(j)' PROVE Harmless(j)'
    <3>1. CASE run'[j].at = "scope"
      BY <3>1 DEF Harmless
    <3>2. CASE Owns(j)
      <4>1. j = h
        BY <1>0, <2>2, <3>2, OneOwner
      <4> QED BY <2>2, <2>3, <4>1 DEF Owns
    <3> QED BY <2>3, <3>1, <3>2, OwnsSince
  <2> QED BY <2>1, <2>3
<1> QED BY <1>1, <1>2
-----------------------------------------------------------------------------
LEMMA InitClaim == Init => ClaimInv
<1> SUFFICES ASSUME Init PROVE ClaimInv
  OBVIOUS
<1>1. TypeOK
  <2>1. \A k \in Key : run[k] = NoRun /\ NoRun \in RunSet
    BY DEF Init, NoRun, RunSet, Step, IntentStatus, Decision
  <2>2. run \in [Key -> RunSet] /\ intent \in [Key -> IntentStatus] /\ Aims
    BY <2>1 DEF Init, IntentStatus, Aims, NoRun
  <2>3. ItemsOK
    BY ClaimAssumption DEF Init, ItemsOK, ItemStatus
  <2>4. RestOK
    <3>1. selection \in [Item -> {{}} \cup {{s} : s \in Selection}]
      BY DEF Init
    <3>2. born \in [Key -> 0..Cardinality(Key)]
      BY KeyFinite DEF Init
    <3>3. task \in [Item -> TaskStatus]
      BY DEF Init, TaskStatus
    <3> QED BY <3>1, <3>2, <3>3 DEF Init, RestOK, LinkStatus
  <2> QED BY <2>2, <2>3, <2>4, TypeParts
<1>2. RunsAreAttempts
  BY ClaimAssumption DEF Init, RunsAreAttempts, NoRun, Key
<1>3. NothingEarly /\ SendingRecorded /\ NoneUnsent /\ EffectRemembered
  BY DEF Init, NothingEarly, SendingRecorded, NoneUnsent, EffectRemembered, NoRun, Sending
<1>4. /\ Submissions /\ Indexed /\ Attached /\ Noticed /\ AllExplained
  BY DEF Init, Submissions, Indexed, Attached, Noticed, AllExplained, Active
<1>5. OneLive /\ ConfirmedStays
  BY DEF Init, OneLive, Live, NoRun, ConfirmedStays, With
<1> QED BY <1>1, <1>2, <1>3, <1>4, <1>5 DEF ClaimInv

LEMMA StutterClaim == ClaimInv /\ UNCHANGED vars => ClaimInv'
BY DEF vars, queue, upstream, ClaimInv, TypeOK, RunsAreAttempts, NothingEarly,
   SendingRecorded, Recorded, NoneUnsent, EffectRemembered, Submissions, Indexed,
   Active, Attached, Noticed, AllExplained, Explained, OneLive, Live, PastLooking,
   Owns, ConfirmedStays, Harmless, With

(* The inductive invariant.                                                *)
THEOREM ClaimInvariant == Spec => []ClaimInv
<1>1. ClaimInv /\ Next => ClaimInv'
  BY TypeStep, NextMoves, RunsStep, EarlyStep, RecordStep, SubmissionsStep,
     IndexedStep, BesideStep, ExplainedStep, LiveStep, ConfirmedStep DEF ClaimInv
<1> QED BY <1>1, InitClaim, StutterClaim, PTL DEF Spec

(* getcode goes out at most once per scope, for any number of items and    *)
(* attempts: a second request needs the first one's intent settled as      *)
(* failed, or an item at work beside the first one, of another selection   *)
(* or detached from its task (worker/handlers/promo-link-claim.ts).        *)
THEOREM GetcodeGoesOnce == Spec => []GetcodeOnce
<1>1. ClaimInv => GetcodeOnce
  BY TypeParts DEF ClaimInv, OneLive, Live, GetcodeOnce, RestOK, AllExplained, Explained
<1> QED BY <1>1, ClaimInvariant, PTL

(* No effect that upstream may have had is forgotten, and what the worker  *)
(* confirmed is and stays fetched (side-effect-intent.ts).                 *)
THEOREM IntentsTellTheTruth == Spec => []IntentsTrue
<1>1. ClaimInv => IntentsTrue
  BY DEF ClaimInv, IntentsTrue, ConfirmedStays, ConfirmedIsFetched
<1> QED BY <1>1, ClaimInvariant, PTL

(* Settled intents are final and manual review is the administrator's.     *)
THEOREM ReviewIsKept == Spec => ReviewIsAdmins
<1> DEFINE Kept ==
      \A k \in Key :
        intent[k] \in {"manual_review_required", "confirmed", "failed"}
          /\ intent'[k] # intent[k] =>
            /\ intent[k] = "manual_review_required"
            /\ k \in adjudicated' \ adjudicated
<1>1. ClaimInv /\ Next => Kept
  BY NextMoves DEF Moves, IntentMove, ClaimInv, NothingEarly, Early
<1>2. ClaimInv /\ [Next]_vars => [Kept]_vars
  BY <1>1
<1> QED BY <1>2, ClaimInvariant, PTL DEF Spec, ReviewIsAdmins

-----------------------------------------------------------------------------
(* Tagging: what a request, a transaction and a handler know from where    *)
(* they are, and the rows, audit and runs that follow from it.             *)

(* The version a request is compared with.                                 *)
VersionOf(o) == CASE o \in Novel -> tags[o].revision
                  [] o \in Edge -> edge[o].version
                  [] OTHER -> taxonomy.version

(* Never to be accepted again: the version is past, or an exit came when   *)
(* there was nothing to give up.                                           *)
Outdated(q) == \/ q.base < VersionOf(q.on)
               \/ q.kind = "exit" /\ tags[q.on].mode = "automatic"

(* Requests name versions that were there, and a manual set is the one of  *)
(* its version.                                                            *)
RequestsTrue ==
  \A r \in 1..Len(request) :
    /\ request[r].on \in About(request[r].kind)
    /\ request[r].base <= VersionOf(request[r].on)
    /\ request[r].on \in Novel /\ tags[request[r].on].revision = request[r].base
         => request[r].seen = tags[request[r].on].manual

ViewTrue(p) ==
  txn[p].at = "rows" =>
    /\ txn[p].on \in About(txn[p].kind)
    /\ txn[p].base <= VersionOf(txn[p].on)
    /\ txn[p].manual => txn[p].on \in Novel
    /\ txn[p].on \in Novel /\ tags[txn[p].on].revision = txn[p].base
         => (txn[p].manual <=> tags[txn[p].on].mode = "manual")

ConflictsTrue == \A r \in conflicted : Outdated(request[r])

(* What a transaction knows from where it is.                              *)
TxnTrue(p) ==
  /\ txn[p].at \in InTransaction \cup {"lock"} => txn[p].id \in 1..Len(request)
  /\ txn[p].at \in InTransaction => txn[p].id \notin audited
  /\ txn[p].at \in {"read", "write"} => job(p).kind = "approve"
  /\ txn[p].at \in {"row", "commit"} => job(p).kind # "approve"
  /\ txn[p].at = "commit" =>
       \/ job(p).on \in Novel /\ Current(job(p))
       \/ job(p).on \in Edge /\ EdgeCurrent(job(p))
  /\ txn[p].at = "write" =>
       /\ txn[p].id \notin conflicted
       /\ EdgeCurrent(job(p)) \/ ~edge[job(p).on].active

(* The three locks: of the request, of the edge's approval, of the row.    *)
Apart(p, q) ==
  /\ txn[p].at \in InTransaction /\ txn[q].at \in InTransaction =>
       txn[p].id # txn[q].id
  /\ txn[p].at = "write" /\ txn[q].at = "write" => job(p).on # job(q).on
  /\ txn[p].at = "commit" /\ txn[q].at = "commit" => job(p).on # job(q).on

AdminsTrue ==
  /\ RequestsTrue /\ ConflictsTrue
  /\ \A p \in Proc : ViewTrue(p) /\ TxnTrue(p)
  /\ \A p, q \in Proc : p # q => Apart(p, q)

(* A handler never has a newer attempt than its item, and between the      *)
(* fence and the commit it has the item's.                                 *)
HandlerTrue(w) ==
  handler[w].at # "idle" =>
    /\ handler[w].item \in TagItem
    /\ tagItem[handler[w].item].status # "none"
    /\ handler[w].attempt <= tagItem[handler[w].item].attempts
    /\ handler[w].at \in Protected => OwnsItem(w)
    /\ handler[w].at = "commit" => tags[novel(w)].mode = "automatic"

ItemTrue(i) ==
  /\ tagItem[i].status = "pending" => tagItem[i].attempts < MaxAttempts
  /\ submit[i[1]].at # "done" => tagItem[i].status = "none"

WorkersTrue ==
  /\ \A w \in Worker : HandlerTrue(w)
  /\ \A v, w \in Worker :
       v # w /\ handler[v].at # "idle" /\ handler[w].at # "idle"
         /\ handler[v].item = handler[w].item
       => handler[v].attempt # handler[w].attempt
  /\ \A i \in TagItem : ItemTrue(i)
  /\ \A p \in Proc, w \in Worker :
       txn[p].at = "commit" /\ handler[w].at = "commit" => job(p).on # novel(w)

NovelTrue(n) ==
  /\ tags[n].revision = Cardinality(EditsOf(n))
  /\ tags[n].mode = "manual" =>
       /\ tags[n].manual \in EditsOf(n)
       /\ request[tags[n].manual].base = tags[n].revision - 1
  /\ tags[n].mode = "automatic" => tags[n].manual = 0
  /\ tags[n].run # None => tags[n].run \in runs /\ tags[n].run[2] = n

RunsTrue == \A i \in TagItem : (i \in runs) <=> (tagItem[i].status = "success")

TagInv == /\ TagTypeOK /\ AnswersTrue /\ AdminsTrue /\ WorkersTrue
          /\ \A n \in Novel : NovelTrue(n)
          /\ RunsTrue
-----------------------------------------------------------------------------
(* Types.                                                                  *)
Tagged == [mode : {"automatic", "manual"}, revision : Nat,
           run : TagItem \cup {None}, manual : Nat]
Mapped == [version : Nat, active : BOOLEAN]
Queued == [status : {"none", "pending", "processing", "success", "skipped",
                     "failed"},
           attempts : 0..MaxAttempts]
Handling == [at : Protected \cup {"idle", "classify", "fence", "skipped",
                                  "failed"},
             item : TagItem \cup {None}, attempt : 0..MaxAttempts]
Transaction(len) == [at : InTransaction \cup {"idle", "rows", "lock"},
                     id : 0..len, kind : Kind,
                     on : Novel \cup Edge \cup {Taxonomy}, base : Nat,
                     manual : BOOLEAN]

LEMMA TypesAsRows ==
  TagTypeOK <=>
    /\ tags \in [Novel -> Tagged]
    /\ edge \in [Edge -> Mapped]
    /\ taxonomy \in [version : Nat, lexicon : Nat, complete : BOOLEAN]
    /\ submit \in [Task -> [at : {"new", "authority", "done"}, expect : Nat]]
    /\ tagItem \in [TagItem -> Queued]
    /\ runs \subseteq TagItem
    /\ handler \in [Worker -> Handling]
    /\ request \in Seq(Requests)
    /\ txn \in [Proc -> Transaction(Len(request))]
    /\ audited \subseteq 1..Len(request) /\ conflicted \subseteq 1..Len(request)
    /\ mishaps \in 0..scene.mishaps /\ scene \in Scenes
  BY DEF TagTypeOK, Tagged, Mapped, Queued, Handling, Transaction, RequestId

(* What a row is after a step that changes one of them.                    *)
LEMMA OneTxn ==
  ASSUME TagTypeOK, NEW p \in Proc, NEW r, txn' = [txn EXCEPT ![p] = r]
  PROVE  /\ txn'[p] = r
         /\ \A q \in Proc \ {p} : txn'[q] = txn[q]
         /\ r \in Transaction(Len(request)) =>
              txn' \in [Proc -> Transaction(Len(request))]
  BY DEF TagTypeOK, Transaction

LEMMA TxnRow ==
  ASSUME TagTypeOK, NEW p \in Proc
  PROVE  /\ txn[p] \in Transaction(Len(request))
         /\ Len(request) \in Nat
         /\ \A r \in 1..Len(request) : request[r] \in Requests
         /\ txn[p].id \in 1..Len(request) => job(p) \in Requests
  BY DEF TagTypeOK, Transaction, job

LEMMA IdleIsTxn == \A n \in Nat : Idle \in Transaction(n)
  BY DEF Idle, Transaction, Kind

LEMMA ScenesBound ==
  ASSUME TagTypeOK
  PROVE  /\ scene.tasks \subseteq Task /\ scene.edges \subseteq Edge
         /\ scene.kinds \subseteq Kind /\ scene.requests \in Nat
         /\ scene.mishaps \in Nat
  BY TaggingAssumption DEF TagTypeOK

LEMMA ProceedTypes ==
  ASSUME TagTypeOK, NEW p \in Proc, NEW step \in InTransaction, Proceed(p, step)
  PROVE  /\ txn' \in [Proc -> Transaction(Len(request))]
         /\ txn'[p] = [txn[p] EXCEPT !.at = step]
         /\ \A q \in Proc \ {p} : txn'[q] = txn[q]
  <1>1. txn[p] \in Transaction(Len(request))
    BY TxnRow
  <1>2. [txn[p] EXCEPT !.at = step] \in Transaction(Len(request))
    BY <1>1 DEF Transaction
  <1>3. txn' = [txn EXCEPT ![p] = [txn[p] EXCEPT !.at = step]]
    BY <1>1 DEF Proceed, TagTypeOK, Transaction
  <1>4. QED BY <1>2, <1>3, OneTxn

LEMMA LeaveTypes ==
  ASSUME TagTypeOK, NEW p \in Proc, Leave(p)
  PROVE  /\ txn' \in [Proc -> Transaction(Len(request))]
         /\ txn'[p] = Idle
         /\ \A q \in Proc \ {p} : txn'[q] = txn[q]
  BY IdleIsTxn, OneTxn, TxnRow DEF Leave

(* A step of an administrator that writes nothing leaves the tables.       *)
LEMMA MoveTypes ==
  ASSUME TagTypeOK, UNCHANGED <<rows, queueVars, request, scene>>,
         txn' \in [Proc -> Transaction(Len(request))],
         conflicted' \subseteq 1..Len(request),
         mishaps' \in 0..scene.mishaps
  PROVE  TagTypeOK'
  <1>1. UNCHANGED <<tags, edge, taxonomy, runs, audited, submit, tagItem, handler,
                    request, scene>>
    BY DEF rows, queueVars
  <1>2. QED BY <1>1 DEF TagTypeOK, RequestId, Transaction

LEMMA OneMoreMishap ==
  ASSUME TagTypeOK, mishaps < scene.mishaps, mishaps' = mishaps + 1
  PROVE  mishaps' \in 0..scene.mishaps
  <1>1. mishaps \in 0..scene.mishaps /\ scene.mishaps \in Nat
    BY ScenesBound DEF TagTypeOK
  <1>2. QED BY <1>1
-----------------------------------------------------------------------------
(* A process that moves and writes nothing disturbs no other one: the      *)
(* invariant is its own part of it.                                        *)
LEMMA MoveKeeps ==
  ASSUME TagInv, TagTypeOK', NEW p \in Proc,
         UNCHANGED <<rows, queueVars, request>>,
         \A q \in Proc \ {p} : txn'[q] = txn[q],
         \/ conflicted' = conflicted
         \/ /\ conflicted' = conflicted \cup {txn[p].id}
            /\ txn[p].at \in InTransaction /\ Outdated(job(p)),
         ViewTrue(p)', TxnTrue(p)',
         \A q \in Proc \ {p} : Apart(p, q)',
         \A w \in Worker : txn'[p].at = "commit" /\ handler[w].at = "commit" =>
            job(p)'.on # novel(w)
  PROVE  TagInv'
  <1> USE DEF rows, queueVars
  <1>r. UNCHANGED <<tags, edge, taxonomy, runs, audited, submit, tagItem, handler,
                    request>>
    OBVIOUS
  <1>1. AnswersTrue'
    BY <1>r DEF TagInv, AnswersTrue, AdminsTrue, TxnTrue
  <1>2. RequestsTrue'
    BY <1>r DEF TagInv, AdminsTrue, RequestsTrue, VersionOf, About
  <1>3. ConflictsTrue'
    BY <1>r DEF TagInv, AdminsTrue, ConflictsTrue, Outdated, VersionOf, job
  <1>4. \A q \in Proc : ViewTrue(q)' /\ TxnTrue(q)'
    <2> SUFFICES ASSUME NEW q \in Proc \ {p} PROVE ViewTrue(q)' /\ TxnTrue(q)'
      OBVIOUS
    <2>1. txn'[q] = txn[q] /\ job(q)' = job(q)
      BY <1>r DEF job
    <2>2. ViewTrue(q) /\ TxnTrue(q) /\ Apart(q, p)
      BY DEF TagInv, AdminsTrue
    <2>3. ViewTrue(q)'
      BY <1>r, <2>1, <2>2 DEF ViewTrue, VersionOf, About
    <2>4. txn'[q].at = "write" => txn'[q].id \notin conflicted'
      BY <1>r, <2>1, <2>2 DEF TxnTrue, Apart, InTransaction
    <2>5. TxnTrue(q)'
      BY <1>r, <2>1, <2>2, <2>4 DEF TxnTrue, Current, EdgeCurrent
    <2>6. QED BY <2>3, <2>5
  <1>5. \A q, r \in Proc : q # r => Apart(q, r)'
    <2> SUFFICES ASSUME NEW q \in Proc, NEW r \in Proc, q # r PROVE Apart(q, r)'
      OBVIOUS
    <2>1. CASE q = p
      BY <2>1
    <2>2. CASE r = p
      <3>1. Apart(p, q)'
        BY <2>2
      <3>2. QED BY <3>1, <2>2 DEF Apart
    <2>3. CASE q # p /\ r # p
      <3>1. txn'[q] = txn[q] /\ txn'[r] = txn[r] /\ Apart(q, r)
        BY <2>3 DEF TagInv, AdminsTrue
      <3>2. QED BY <3>1, <1>r DEF Apart, job
    <2>4. QED BY <2>1, <2>2, <2>3
  <1>6. AdminsTrue'
    BY <1>2, <1>3, <1>4, <1>5 DEF AdminsTrue
  <1>7. WorkersTrue'
    <2>1. \A w \in Worker : HandlerTrue(w)'
      BY <1>r DEF TagInv, WorkersTrue, HandlerTrue, OwnsItem, novel
    <2>2. \A i \in TagItem : ItemTrue(i)'
      BY <1>r DEF TagInv, WorkersTrue, ItemTrue
    <2>3. ASSUME NEW q \in Proc, NEW w \in Worker, txn'[q].at = "commit",
                 handler'[w].at = "commit"
          PROVE  job(q)'.on # novel(w)'
      <3>1. novel(w)' = novel(w)
        BY <1>r DEF novel
      <3>2. CASE q = p
        BY <1>r, <2>3, <3>1, <3>2
      <3>3. CASE q # p
        <4>1. txn'[q] = txn[q] /\ job(q)' = job(q)
          BY <1>r, <3>3 DEF job
        <4>2. QED BY <1>r, <2>3, <3>1, <4>1 DEF TagInv, WorkersTrue
      <3>4. QED BY <3>2, <3>3
    <2>4. QED BY <1>r, <2>1, <2>2, <2>3 DEF TagInv, WorkersTrue
  <1>8. \A n \in Novel : NovelTrue(n)'
    BY <1>r DEF TagInv, NovelTrue, EditsOf
  <1>9. RunsTrue'
    BY <1>r DEF TagInv, RunsTrue
  <1>10. QED BY <1>1, <1>6, <1>7, <1>8, <1>9 DEF TagInv

(* Whoever gives up leaves the invariant as it is, and so does whoever is  *)
(* answered with a conflict that will stay one.                            *)
LEMMA LeavingKeeps ==
  ASSUME TagInv, NEW p \in Proc, Leave(p),
         UNCHANGED <<rows, queueVars, request, scene>>,
         mishaps' \in 0..scene.mishaps,
         \/ conflicted' = conflicted
         \/ /\ conflicted' = conflicted \cup {txn[p].id}
            /\ txn[p].at \in InTransaction /\ Outdated(job(p))
  PROVE  TagInv'
  <1>1. /\ txn' \in [Proc -> Transaction(Len(request))] /\ txn'[p] = Idle
        /\ \A q \in Proc \ {p} : txn'[q] = txn[q]
    BY LeaveTypes DEF TagInv
  <1>2. conflicted' \subseteq 1..Len(request)
    <2>1. conflicted \subseteq 1..Len(request) /\ TxnTrue(p)
      BY DEF TagInv, AdminsTrue, TagTypeOK, RequestId
    <2>2. QED BY <2>1 DEF TxnTrue
  <1>3. TagTypeOK'
    BY <1>1, <1>2, MoveTypes DEF TagInv
  <1>4. /\ ViewTrue(p)' /\ TxnTrue(p)' /\ txn'[p].at # "commit"
        /\ \A q \in Proc \ {p} : Apart(p, q)'
    BY <1>1 DEF Idle, ViewTrue, TxnTrue, Apart, InTransaction
  <1>5. QED BY <1>1, <1>3, <1>4, MoveKeeps
-----------------------------------------------------------------------------
(* The steps of administrators that write no row.                          *)
LEMMA LookKeeps ==
  ASSUME TagInv, NEW p \in Proc, Look(p)
  PROVE  TagInv'
  <1>1. PICK kind \in scene.kinds, o \in Novel \cup Edge \cup {Taxonomy} :
          /\ o \in About(kind)
          /\ txn' = [txn EXCEPT ![p] =
               [Idle EXCEPT !.at = "rows", !.kind = kind, !.on = o,
                  !.base = CASE o \in Novel -> tags[o].revision
                             [] o \in Edge -> edge[o].version
                             [] OTHER -> taxonomy.version,
                  !.manual = o \in Novel /\ tags[o].mode = "manual"]]
    BY DEF Look
  <1>t. TagTypeOK
    BY DEF TagInv
  <1>2. kind \in Kind /\ VersionOf(o) \in Nat
    BY <1>t, ScenesBound DEF TagTypeOK, VersionOf
  <1>m. PICK m \in BOOLEAN : m = (o \in Novel /\ tags[o].mode = "manual")
    OBVIOUS
  <1> DEFINE mine == [Idle EXCEPT !.at = "rows", !.kind = kind, !.on = o,
                                  !.base = VersionOf(o), !.manual = m]
  <1>4. txn' = [txn EXCEPT ![p] = mine]
    BY <1>1, <1>m, Zenon DEF VersionOf
  <1>f. /\ mine.at = "rows" /\ mine.kind = kind /\ mine.on = o
        /\ mine.base = VersionOf(o) /\ mine.manual = m
    BY DEF Idle
  <1>3. mine \in Transaction(Len(request))
    <2>1. Idle \in Transaction(Len(request))
      BY <1>t, TxnRow, IdleIsTxn
    <2>2. QED BY <1>2, <1>m, <2>1 DEF Transaction
  <1> HIDE DEF mine
  <1>5. /\ txn' \in [Proc -> Transaction(Len(request))] /\ txn'[p] = mine
        /\ \A q \in Proc \ {p} : txn'[q] = txn[q]
    BY <1>t, <1>3, <1>4, OneTxn
  <1>6. TagTypeOK'
    BY <1>t, <1>5, MoveTypes DEF Look, TagTypeOK, RequestId
  <1>7. VersionOf(o)' = VersionOf(o) /\ UNCHANGED tags
    BY DEF Look, VersionOf, rows
  <1>8. VersionOf(o)' <= VersionOf(o)'
    BY <1>2, <1>7
  <1>9. ViewTrue(p)'
    <2>1. txn'[p].on = o /\ txn'[p].kind = kind /\ txn'[p].base = VersionOf(o)
      BY <1>5, <1>f
    <2>2. txn'[p].manual <=> (o \in Novel /\ tags[o].mode = "manual")
      BY <1>5, <1>f, <1>m
    <2>3. o \in About(kind)'
      BY <1>1 DEF About
    <2>4. QED BY <1>7, <1>8, <2>1, <2>2, <2>3 DEF ViewTrue
  <1>10. TxnTrue(p)' /\ \A q \in Proc \ {p} : Apart(p, q)'
    BY <1>5, <1>f DEF TxnTrue, Apart, InTransaction
  <1>11. QED BY <1>5, <1>6, <1>9, <1>10, MoveKeeps DEF Look

LEMMA SendAgainKeeps ==
  ASSUME TagInv, NEW p \in Proc, SendAgain(p)
  PROVE  TagInv'
  <1>1. PICK r \in 1..Len(request) :
          txn' = [txn EXCEPT ![p] = [Idle EXCEPT !.at = "lock", !.id = r]]
    BY DEF SendAgain
  <1>t. TagTypeOK
    BY DEF TagInv
  <1> DEFINE mine == [Idle EXCEPT !.at = "lock", !.id = r]
  <1>2. mine \in Transaction(Len(request)) /\ mine.at = "lock" /\ mine.id = r
    <2>1. Idle \in Transaction(Len(request)) /\ Len(request) \in Nat
      BY <1>t, TxnRow, IdleIsTxn
    <2>2. r \in 0..Len(request)
      BY <2>1
    <2>3. mine \in Transaction(Len(request))
      BY <2>1, <2>2 DEF Transaction
    <2>4. mine.at = "lock" /\ mine.id = r
      BY DEF Idle
    <2>5. QED BY <2>3, <2>4
  <1>3. txn' = [txn EXCEPT ![p] = mine]
    BY <1>1
  <1> HIDE DEF mine
  <1>4. /\ txn' \in [Proc -> Transaction(Len(request))] /\ txn'[p] = mine
        /\ \A q \in Proc \ {p} : txn'[q] = txn[q]
    BY <1>t, <1>2, <1>3, OneTxn
  <1>5. mishaps' \in 0..scene.mishaps
    BY <1>t, OneMoreMishap DEF SendAgain
  <1>6. TagTypeOK'
    BY <1>t, <1>4, <1>5, MoveTypes DEF SendAgain, TagTypeOK, RequestId
  <1>7. ViewTrue(p)' /\ TxnTrue(p)' /\ \A q \in Proc \ {p} : Apart(p, q)'
    BY <1>2, <1>4 DEF SendAgain, ViewTrue, TxnTrue, Apart, InTransaction
  <1>8. QED BY <1>4, <1>6, <1>7, MoveKeeps DEF SendAgain

LEMMA DieKeeps ==
  ASSUME TagInv, NEW p \in Proc, Die(p)
  PROVE  TagInv'
  <1>1. mishaps' \in 0..scene.mishaps
    BY OneMoreMishap DEF Die, TagInv
  <1>2. QED BY <1>1, LeavingKeeps DEF Die

LEMMA LockRequestKeeps ==
  ASSUME TagInv, NEW p \in Proc, LockRequest(p)
  PROVE  TagInv'
  <1>t. TagTypeOK /\ TxnTrue(p) /\ mishaps' \in 0..scene.mishaps
    BY DEF TagInv, AdminsTrue, LockRequest, TagTypeOK
  <1>1. CASE txn[p].id \in audited
    BY <1>1, <1>t, LeavingKeeps DEF LockRequest
  <1>2. CASE txn[p].id \notin audited
    <2>1. PICK step \in {"read", "row"} :
            /\ Proceed(p, step)
            /\ step = "read" <=> job(p).kind = "approve"
      BY <1>2 DEF LockRequest
    <2>2. /\ txn' \in [Proc -> Transaction(Len(request))]
          /\ txn'[p] = [txn[p] EXCEPT !.at = step]
          /\ \A q \in Proc \ {p} : txn'[q] = txn[q]
      BY <1>t, <2>1, ProceedTypes DEF InTransaction
    <2>3. TagTypeOK'
      BY <1>t, <2>2, MoveTypes DEF LockRequest, TagTypeOK, RequestId
    <2>4. /\ txn'[p].at = step /\ txn'[p].id = txn[p].id
          /\ UNCHANGED <<request, audited>>
      BY <1>t, <2>2, TxnRow DEF Transaction, LockRequest, rows
    <2>5. txn[p].id \in 1..Len(request)
      BY <1>t DEF TxnTrue, LockRequest
    <2>6. ViewTrue(p)' /\ TxnTrue(p)' /\ txn'[p].at # "commit"
      BY <1>2, <2>1, <2>4, <2>5 DEF ViewTrue, TxnTrue, job
    <2>7. \A q \in Proc \ {p} : Apart(p, q)'
      BY <2>1, <2>2, <2>4 DEF Apart, LockRequest, RequestHeld
    <2>8. QED BY <2>2, <2>3, <2>6, <2>7, MoveKeeps DEF LockRequest
  <1>3. QED BY <1>1, <1>2

LEMMA LockNovelKeeps ==
  ASSUME TagInv, NEW p \in Proc, LockNovel(p)
  PROVE  TagInv'
  <1>t. TagTypeOK /\ TxnTrue(p) /\ mishaps' \in 0..scene.mishaps
    BY DEF TagInv, AdminsTrue, LockNovel, TagTypeOK
  <1>1. txn[p].at = "row" /\ txn[p].id \in 1..Len(request)
    BY <1>t DEF LockNovel, TxnTrue, InTransaction
  <1>2. CASE Leave(p) /\ UNCHANGED conflicted
    BY <1>2, <1>t, LeavingKeeps DEF LockNovel
  <1>3. CASE ~Current(job(p)) /\ Refuse(p)
    <2>1. job(p).on \in About(job(p).kind) /\ job(p).base <= VersionOf(job(p).on)
      BY <1>1 DEF TagInv, AdminsTrue, RequestsTrue, job
    <2>2. /\ job(p).base \in Nat /\ tags[job(p).on].revision \in Nat
          /\ tags[job(p).on].mode \in {"automatic", "manual"}
      BY <1>t, <1>1, TxnRow DEF LockNovel, TagTypeOK, Requests
    <2>o. job(p).on \in Novel
      BY DEF LockNovel
    <2>n. VersionOf(job(p).on) = tags[job(p).on].revision
      BY <2>o, TaggingAssumption DEF VersionOf
    <2>3. Outdated(job(p))
      <3>1. CASE tags[job(p).on].revision # job(p).base
        BY <2>1, <2>2, <2>n, <3>1 DEF Outdated
      <3>2. CASE job(p).kind = "exit" /\ tags[job(p).on].mode # "manual"
        BY <2>2, <3>2 DEF Outdated
      <3>3. QED BY <1>3, <3>1, <3>2 DEF Current
    <2>4. QED BY <1>1, <1>3, <1>t, <2>3, LeavingKeeps
              DEF LockNovel, Refuse, InTransaction
  <1>4. CASE Current(job(p)) /\ Proceed(p, "commit") /\ UNCHANGED conflicted
    <2>2. /\ txn' \in [Proc -> Transaction(Len(request))]
          /\ txn'[p] = [txn[p] EXCEPT !.at = "commit"]
          /\ \A q \in Proc \ {p} : txn'[q] = txn[q]
      BY <1>t, <1>4, ProceedTypes DEF InTransaction
    <2>3. TagTypeOK'
      BY <1>t, <1>4, <2>2, MoveTypes DEF LockNovel, TagTypeOK, RequestId
    <2>4. /\ txn'[p].at = "commit" /\ txn'[p].id = txn[p].id
          /\ UNCHANGED <<request, audited, tags, handler>>
      BY <1>t, <2>2, TxnRow DEF Transaction, LockNovel, rows, queueVars
    <2>5. job(p)' = job(p)
      BY <2>4 DEF job
    <2>6. ViewTrue(p)' /\ TxnTrue(p)'
      BY <1>1, <1>4, <1>t, <2>4, <2>5
         DEF ViewTrue, TxnTrue, LockNovel, Current, InTransaction
    <2>7. \A q \in Proc \ {p} : Apart(p, q)'
      <3> SUFFICES ASSUME NEW q \in Proc \ {p} PROVE Apart(p, q)'
        OBVIOUS
      <3>1. Apart(p, q) /\ txn'[q] = txn[q] /\ job(q)' = job(q)
        BY <2>2, <2>4 DEF TagInv, AdminsTrue, job
      <3>2. txn[q].at = "commit" => job(p).on # job(q).on
        BY DEF LockNovel, NovelLocked
      <3>3. QED BY <1>1, <2>4, <2>5, <3>1, <3>2 DEF Apart, InTransaction
    <2>8. \A w \in Worker : handler[w].at = "commit" => job(p)'.on # novel(w)
      BY <2>5 DEF LockNovel, NovelLocked, novel
    <2>9. QED BY <1>4, <2>2, <2>3, <2>6, <2>7, <2>8, MoveKeeps DEF LockNovel
  <1>5. QED BY <1>2, <1>3, <1>4 DEF LockNovel

LEMMA LockEdgeKeeps ==
  ASSUME TagInv, NEW p \in Proc, LockEdge(p)
  PROVE  TagInv'
  <1>t. TagTypeOK /\ TxnTrue(p) /\ mishaps' \in 0..scene.mishaps
    BY DEF TagInv, AdminsTrue, LockEdge, TagTypeOK
  <1>1. txn[p].at = "row" /\ txn[p].id \in 1..Len(request)
    BY <1>t DEF LockEdge, TxnTrue, InTransaction
  <1>d. job(p).on \in Edge /\ job(p).on \notin Novel
    BY TaggingAssumption DEF LockEdge
  <1>3. CASE ~EdgeCurrent(job(p)) /\ Refuse(p)
    <2>1. job(p).base <= VersionOf(job(p).on)
      BY <1>1 DEF TagInv, AdminsTrue, RequestsTrue, job
    <2>2. job(p).base \in Nat /\ edge[job(p).on].version \in Nat
      BY <1>t, <1>1, <1>d, TxnRow DEF TagTypeOK, Requests
    <2>3. Outdated(job(p))
      BY <1>3, <1>d, <2>1, <2>2 DEF EdgeCurrent, Outdated, VersionOf
    <2>4. QED BY <1>1, <1>3, <1>t, <2>3, LeavingKeeps
              DEF LockEdge, Refuse, InTransaction
  <1>4. CASE EdgeCurrent(job(p)) /\ Proceed(p, "commit") /\ UNCHANGED conflicted
    <2>2. /\ txn' \in [Proc -> Transaction(Len(request))]
          /\ txn'[p] = [txn[p] EXCEPT !.at = "commit"]
          /\ \A q \in Proc \ {p} : txn'[q] = txn[q]
      BY <1>t, <1>4, ProceedTypes DEF InTransaction
    <2>3. TagTypeOK'
      BY <1>t, <1>4, <2>2, MoveTypes DEF LockEdge, TagTypeOK, RequestId
    <2>4. /\ txn'[p].at = "commit" /\ txn'[p].id = txn[p].id
          /\ UNCHANGED <<request, audited, edge, handler>>
      BY <1>t, <2>2, TxnRow DEF Transaction, LockEdge, rows, queueVars
    <2>5. job(p)' = job(p)
      BY <2>4 DEF job
    <2>6. ViewTrue(p)' /\ TxnTrue(p)'
      BY <1>1, <1>4, <1>d, <1>t, <2>4, <2>5
         DEF ViewTrue, TxnTrue, EdgeCurrent, InTransaction
    <2>7. \A q \in Proc \ {p} : Apart(p, q)'
      <3> SUFFICES ASSUME NEW q \in Proc \ {p} PROVE Apart(p, q)'
        OBVIOUS
      <3>1. Apart(p, q) /\ txn'[q] = txn[q] /\ job(q)' = job(q)
        BY <2>2, <2>4 DEF TagInv, AdminsTrue, job
      <3>2. txn[q].at = "commit" => job(p).on # job(q).on
        BY DEF LockEdge, EdgeLocked
      <3>3. QED BY <1>1, <2>4, <2>5, <3>1, <3>2 DEF Apart, InTransaction
    <2>8. \A w \in Worker : handler[w].at = "commit" => job(p)'.on # novel(w)
      <3>1. ASSUME NEW w \in Worker, handler[w].at = "commit"
            PROVE  novel(w) \in Novel
        BY <3>1 DEF TagInv, WorkersTrue, HandlerTrue, TagItem, novel
      <3>2. QED BY <1>d, <2>5, <3>1
    <2>9. QED BY <1>4, <2>2, <2>3, <2>6, <2>7, <2>8, MoveKeeps DEF LockEdge
  <1>5. QED BY <1>3, <1>4 DEF LockEdge

LEMMA ReadEdgeKeeps ==
  ASSUME TagInv, NEW p \in Proc, ReadEdge(p)
  PROVE  TagInv'
  <1>t. TagTypeOK /\ TxnTrue(p) /\ mishaps' \in 0..scene.mishaps
    BY DEF TagInv, AdminsTrue, ReadEdge, TagTypeOK
  <1>1. /\ txn[p].at = "read" /\ txn[p].id \in 1..Len(request)
        /\ job(p).kind = "approve"
    BY <1>t DEF ReadEdge, TxnTrue, InTransaction
  <1>b. job(p).on \in About(job(p).kind) /\ job(p).base <= VersionOf(job(p).on)
    BY <1>1 DEF TagInv, AdminsTrue, RequestsTrue, job
  <1>d. job(p).on \in Edge /\ job(p).on \notin Novel
    BY <1>1, <1>b, TaggingAssumption DEF About
  <1>n. job(p).base \in Nat /\ edge[job(p).on].version \in Nat
    BY <1>t, <1>1, <1>d, TxnRow DEF TagTypeOK, Requests
  <1>2. CASE Leave(p) /\ UNCHANGED conflicted
    BY <1>2, <1>t, LeavingKeeps DEF ReadEdge
  <1>3. CASE ~EdgeCurrent(job(p)) /\ Refuse(p)
    <2>3. Outdated(job(p))
      BY <1>3, <1>b, <1>d, <1>n DEF EdgeCurrent, Outdated, VersionOf
    <2>4. QED BY <1>1, <1>3, <1>t, <2>3, LeavingKeeps
              DEF ReadEdge, Refuse, InTransaction
  <1>4. CASE EdgeCurrent(job(p)) /\ Proceed(p, "write") /\ UNCHANGED conflicted
    <2>2. /\ txn' \in [Proc -> Transaction(Len(request))]
          /\ txn'[p] = [txn[p] EXCEPT !.at = "write"]
          /\ \A q \in Proc \ {p} : txn'[q] = txn[q]
      BY <1>t, <1>4, ProceedTypes DEF InTransaction
    <2>3. TagTypeOK'
      BY <1>t, <1>4, <2>2, MoveTypes DEF ReadEdge, TagTypeOK, RequestId
    <2>4. /\ txn'[p].at = "write" /\ txn'[p].id = txn[p].id
          /\ UNCHANGED <<request, audited, edge, conflicted>>
      BY <1>t, <1>4, <2>2, TxnRow DEF Transaction, ReadEdge, rows
    <2>5. job(p)' = job(p)
      BY <2>4 DEF job
    <2>c. txn[p].id \notin conflicted
      <3>1. txn[p].id \in conflicted => Outdated(job(p))
        BY DEF TagInv, AdminsTrue, ConflictsTrue, job
      <3>2. ~Outdated(job(p))
        BY <1>1, <1>4, <1>d, <1>n DEF EdgeCurrent, Outdated, VersionOf
      <3>3. QED BY <3>1, <3>2
    <2>6. ViewTrue(p)' /\ TxnTrue(p)'
      BY <1>1, <1>4, <1>t, <2>4, <2>5, <2>c
         DEF ViewTrue, TxnTrue, EdgeCurrent, InTransaction
    <2>7. \A q \in Proc \ {p} : Apart(p, q)'
      <3> SUFFICES ASSUME NEW q \in Proc \ {p} PROVE Apart(p, q)'
        OBVIOUS
      <3>1. Apart(p, q) /\ txn'[q] = txn[q] /\ job(q)' = job(q)
        BY <2>2, <2>4 DEF TagInv, AdminsTrue, job
      <3>2. txn[q].at = "write" => job(p).on # job(q).on
        BY DEF ReadEdge, ApprovalHeld
      <3>3. QED BY <1>1, <2>4, <2>5, <3>1, <3>2 DEF Apart, InTransaction
    <2>9. QED BY <1>4, <2>2, <2>3, <2>4, <2>6, <2>7, MoveKeeps DEF ReadEdge
  <1>5. QED BY <1>2, <1>3, <1>4 DEF ReadEdge, EdgeCurrent
-----------------------------------------------------------------------------
(* The one step that adds a request.                                       *)
LEMMA SentIsTrue ==
  ASSUME TagInv, NEW p \in Proc, txn[p].at = "rows"
  PROVE  LET new == Sent(txn[p])
         IN  /\ new \in Requests /\ new.on \in About(new.kind)
             /\ new.base <= VersionOf(new.on)
             /\ new.on \in Novel /\ tags[new.on].revision = new.base =>
                  new.seen = tags[new.on].manual
  <1> DEFINE view == txn[p]
             new == Sent(txn[p])
  <1>1. /\ view \in Transaction(Len(request)) /\ ViewTrue(p)
        /\ \A n \in Novel : tags[n] \in Tagged /\ NovelTrue(n)
    BY TxnRow, TypesAsRows DEF TagInv, AdminsTrue
  <1>2. new.kind = view.kind /\ new.on = view.on /\ new.base = view.base
    BY DEF Sent
  <1>3. view.on \in About(view.kind) /\ view.base <= VersionOf(view.on)
    BY <1>1 DEF ViewTrue
  <1>4. view.manual \in BOOLEAN
    BY <1>1 DEF Transaction
  <1>5. CASE view.manual
    <2>1. new.seen = tags[view.on].manual /\ view.on \in Novel
      BY <1>1, <1>5 DEF Sent, ViewTrue
    <2>2. new.seen \in Nat
      BY <1>1, <2>1 DEF Tagged
    <2>3. new \in Requests
      BY <1>1, <2>2 DEF Sent, Requests, Transaction
    <2>4. QED BY <1>2, <1>3, <2>1, <2>3
  <1>6. CASE ~view.manual
    <2>1. new.seen = 0
      BY <1>6 DEF Sent
    <2>2. new \in Requests
      BY <1>1, <2>1 DEF Sent, Requests, Transaction
    <2>3. ASSUME view.on \in Novel, tags[view.on].revision = view.base
          PROVE  tags[view.on].manual = 0
      <3>1. tags[view.on].mode # "manual"
        BY <1>1, <1>6, <2>3, txn[p].at = "rows" DEF ViewTrue
      <3>2. tags[view.on].mode = "automatic"
        BY <1>1, <2>3, <3>1 DEF Tagged
      <3>3. QED BY <1>1, <2>3, <3>2 DEF NovelTrue
    <2>4. QED BY <1>2, <1>3, <2>1, <2>2, <2>3
  <1>7. QED BY <1>4, <1>5, <1>6

LEMMA SendKeeps ==
  ASSUME TagInv, NEW p \in Proc, Send(p)
  PROVE  TagInv'
  <1> DEFINE new == Sent(txn[p])
             len == Len(request)
  <1>r. /\ UNCHANGED <<tags, edge, taxonomy, runs, audited, submit, tagItem, handler,
                       conflicted, mishaps, scene>>
        /\ txn[p].at = "rows" /\ request' = Append(request, new)
    BY DEF Send, rows, queueVars
  <1>t. TagTypeOK /\ len \in Nat /\ request \in Seq(Requests)
    BY TxnRow DEF TagInv, TagTypeOK
  <1>1. /\ new \in Requests /\ new.on \in About(new.kind)
        /\ new.base <= VersionOf(new.on)
        /\ new.on \in Novel /\ tags[new.on].revision = new.base =>
             new.seen = tags[new.on].manual
    BY <1>r, SentIsTrue
  <1> HIDE DEF new
  <1>2. /\ request' \in Seq(Requests) /\ Len(request') = len + 1
        /\ request'[len + 1] = new
        /\ \A r \in 1..len : request'[r] = request[r]
    BY <1>r, <1>t, <1>1
  <1>3. PICK mine : /\ mine = [Idle EXCEPT !.at = "lock", !.id = len + 1]
                    /\ txn' = [txn EXCEPT ![p] = mine]
    BY DEF Send
  <1>4. mine \in Transaction(len + 1) /\ mine.at = "lock" /\ mine.id = len + 1
    <2>1. Idle \in Transaction(len + 1)
      BY <1>t, IdleIsTxn
    <2>2. len + 1 \in 0..(len + 1)
      BY <1>t
    <2>3. mine \in Transaction(len + 1)
      BY <1>3, <2>1, <2>2 DEF Transaction
    <2>4. mine.at = "lock" /\ mine.id = len + 1
      BY <1>3 DEF Idle
    <2>5. QED BY <2>3, <2>4
  <1>5. /\ txn'[p] = mine /\ \A q \in Proc \ {p} : txn'[q] = txn[q]
    BY <1>3, <1>t DEF TagTypeOK
  <1>6. txn' \in [Proc -> Transaction(len + 1)]
    <2>1. Transaction(len) \subseteq Transaction(len + 1)
      BY <1>t DEF Transaction
    <2>2. txn \in [Proc -> Transaction(len)]
      BY <1>t, TypesAsRows
    <2>3. QED BY <1>3, <1>4, <2>1, <2>2
  <1>7. TagTypeOK'
    <2>1. audited' \subseteq 1..(len + 1) /\ conflicted' \subseteq 1..(len + 1)
      BY <1>r, <1>t DEF TagTypeOK, RequestId
    <2>2. QED BY <1>r, <1>t, <1>2, <1>6, <2>1 DEF TagTypeOK, RequestId, Transaction
  <1>v. \A o : VersionOf(o)' = VersionOf(o)
    BY <1>r DEF VersionOf
  <1>8. AnswersTrue'
    BY <1>r DEF TagInv, AnswersTrue
  <1>9. RequestsTrue'
    <2> SUFFICES ASSUME NEW r \in 1..(len + 1)
                 PROVE  /\ request'[r].on \in About(request'[r].kind)
                        /\ request'[r].base <= VersionOf(request'[r].on)
                        /\ request'[r].on \in Novel
                           /\ tags[request'[r].on].revision = request'[r].base
                             => request'[r].seen = tags[request'[r].on].manual
      BY <1>r, <1>2, <1>v DEF RequestsTrue, About
    <2>1. CASE r = len + 1
      BY <1>1, <1>2, <2>1
    <2>2. CASE r \in 1..len
      BY <1>2, <2>2 DEF TagInv, AdminsTrue, RequestsTrue
    <2>3. QED BY <1>t, <2>1, <2>2
  <1>10. ConflictsTrue'
    <2> SUFFICES ASSUME NEW r \in conflicted PROVE Outdated(request[r])'
      BY <1>r DEF ConflictsTrue, Outdated
    <2>1. request'[r] = request[r]
      BY <1>2, <1>t DEF TagTypeOK, RequestId
    <2>2. Outdated(request[r])
      BY DEF TagInv, AdminsTrue, ConflictsTrue
    <2>3. QED BY <1>r, <1>v, <2>1, <2>2 DEF Outdated
  <1>11. \A q \in Proc : ViewTrue(q)' /\ TxnTrue(q)'
    <2> SUFFICES ASSUME NEW q \in Proc PROVE ViewTrue(q)' /\ TxnTrue(q)'
      OBVIOUS
    <2>1. CASE q = p
      BY <1>2, <1>4, <1>5, <1>t, <2>1 DEF ViewTrue, TxnTrue, InTransaction
    <2>2. CASE q # p
      <3>1. txn'[q] = txn[q] /\ ViewTrue(q) /\ TxnTrue(q)
        BY <1>5, <2>2 DEF TagInv, AdminsTrue
      <3>2. ViewTrue(q)'
        BY <1>r, <1>v, <3>1 DEF ViewTrue, About
      <3>3. CASE txn[q].at \in InTransaction \cup {"lock"}
        <4>1. txn[q].id \in 1..len
          BY <3>1, <3>3 DEF TxnTrue
        <4>2. job(q)' = job(q) /\ txn[q].id \in 1..(len + 1)
          BY <1>2, <1>t, <3>1, <4>1 DEF job
        <4>3. QED BY <1>r, <1>2, <3>1, <3>2, <4>2 DEF TxnTrue, Current, EdgeCurrent
      <3>4. CASE txn[q].at \notin InTransaction \cup {"lock"}
        BY <3>1, <3>2, <3>4 DEF TxnTrue, InTransaction
      <3>5. QED BY <3>3, <3>4
    <2>3. QED BY <2>1, <2>2
  <1>j. \A q \in Proc \ {p} : txn[q].at \in InTransaction => job(q)' = job(q)
    BY <1>2, <1>5 DEF TagInv, AdminsTrue, TxnTrue, job
  <1>12. \A q, r \in Proc : q # r => Apart(q, r)'
    <2> SUFFICES ASSUME NEW q \in Proc, NEW r \in Proc, q # r PROVE Apart(q, r)'
      OBVIOUS
    <2>1. CASE q = p \/ r = p
      BY <1>4, <1>5, <2>1 DEF Apart, InTransaction
    <2>2. CASE q # p /\ r # p
      <3>1. txn'[q] = txn[q] /\ txn'[r] = txn[r] /\ Apart(q, r)
        BY <1>5, <2>2 DEF TagInv, AdminsTrue
      <3>2. QED BY <1>j, <2>2, <3>1 DEF Apart, InTransaction
    <2>3. QED BY <2>1, <2>2
  <1>13. WorkersTrue'
    <2>1. \A w \in Worker : HandlerTrue(w)'
      BY <1>r DEF TagInv, WorkersTrue, HandlerTrue, OwnsItem, novel
    <2>2. \A i \in TagItem : ItemTrue(i)'
      BY <1>r DEF TagInv, WorkersTrue, ItemTrue
    <2>3. ASSUME NEW q \in Proc, NEW w \in Worker, txn'[q].at = "commit",
                 handler'[w].at = "commit"
          PROVE  job(q)'.on # novel(w)'
      <3>1. q # p /\ txn'[q] = txn[q] /\ job(q)' = job(q) /\ novel(w)' = novel(w)
        BY <1>4, <1>5, <1>j, <1>r, <2>3 DEF InTransaction, novel
      <3>2. QED BY <1>r, <2>3, <3>1 DEF TagInv, WorkersTrue
    <2>4. QED BY <1>r, <2>1, <2>2, <2>3 DEF TagInv, WorkersTrue
  <1>14. \A n \in Novel : NovelTrue(n)'
    <2> SUFFICES ASSUME NEW n \in Novel PROVE NovelTrue(n)'
      OBVIOUS
    <2>0. audited \subseteq 1..len
      BY <1>t DEF TagTypeOK, RequestId
    <2>1. EditsOf(n)' = EditsOf(n) /\ EditsOf(n) \subseteq 1..len
      BY <1>r, <1>2, <2>0 DEF EditsOf
    <2>2. NovelTrue(n)
      BY DEF TagInv
    <2>3. QED BY <1>r, <1>2, <2>1, <2>2 DEF NovelTrue
  <1>15. RunsTrue'
    BY <1>r DEF TagInv, RunsTrue
  <1>16. QED BY <1>7, <1>8, <1>9, <1>10, <1>11, <1>12, <1>13, <1>14, <1>15
             DEF TagInv, AdminsTrue
-----------------------------------------------------------------------------
(* An accepted edit: a new version of one object, under locks that keep    *)
(* everyone else who has compared its version away from it.                *)
LEMMA EditKeeps ==
  ASSUME TagInv, TagTypeOK', NEW p \in Proc, Leave(p),
         txn[p].at \in InTransaction, txn[p].id \notin conflicted,
         audited' = audited \cup {txn[p].id},
         UNCHANGED <<runs, queueVars, request, conflicted>>,
         \A o : /\ VersionOf(o) <= VersionOf(o)'
                /\ o = job(p).on => VersionOf(o) < VersionOf(o)',
         \A n \in Novel : n # job(p).on => tags'[n] = tags[n],
         \A e \in Edge : e # job(p).on => edge'[e] = edge[e],
         \A q \in Proc \ {p} : txn[q].at = "commit" => job(q).on # job(p).on,
         \A q \in Proc \ {p} : txn[q].at = "write" /\ job(q).on = job(p).on =>
            ~edge'[job(p).on].active,
         \A w \in Worker : handler[w].at = "commit" => novel(w) # job(p).on,
         \A n \in Novel : n = job(p).on => NovelTrue(n)'
  PROVE  TagInv'
  <1> DEFINE mine == txn[p].id
  <1>t. /\ TagTypeOK /\ mine \in 1..Len(request) /\ mine \notin audited
        /\ job(p) = request[mine]
    BY DEF TagInv, AdminsTrue, TxnTrue, job
  <1>r. UNCHANGED <<runs, submit, tagItem, handler, request, conflicted>>
    BY DEF queueVars
  <1>1. /\ txn'[p] = Idle /\ \A q \in Proc \ {p} : txn'[q] = txn[q]
    BY <1>t, LeaveTypes
  <1>j. \A q \in Proc \ {p} : job(q)' = job(q)
    BY <1>1, <1>r DEF job
  <1>v. \A o \in Novel \cup Edge \cup {Taxonomy} :
          VersionOf(o) \in Nat /\ VersionOf(o)' \in Nat
    BY <1>t DEF TagTypeOK, VersionOf
  <1>q. \A r \in 1..Len(request) : request[r] \in Requests
    BY <1>t, TxnRow
  <1>2. AnswersTrue'
    BY <1>r DEF TagInv, AnswersTrue
  <1>3. RequestsTrue'
    <2> SUFFICES ASSUME NEW r \in 1..Len(request)
                 PROVE  /\ request[r].on \in About(request[r].kind)
                        /\ request[r].base <= VersionOf(request[r].on)'
                        /\ request[r].on \in Novel
                           /\ tags'[request[r].on].revision = request[r].base
                             => request[r].seen = tags'[request[r].on].manual
      BY <1>r DEF RequestsTrue, About
    <2>1. /\ request[r].on \in About(request[r].kind)
          /\ request[r].base <= VersionOf(request[r].on)
          /\ request[r].on \in Novel /\ tags[request[r].on].revision = request[r].base
               => request[r].seen = tags[request[r].on].manual
          /\ request[r].on \in Novel \cup Edge \cup {Taxonomy}
          /\ request[r].base \in Nat
      BY <1>q DEF TagInv, AdminsTrue, RequestsTrue, Requests
    <2>2. request[r].base <= VersionOf(request[r].on)'
      BY <1>v, <2>1
    <2>3. CASE request[r].on = job(p).on
      <3>1. request[r].base < VersionOf(request[r].on)'
        BY <1>v, <2>1, <2>3
      <3>2. request[r].on \in Novel =>
              tags'[request[r].on].revision = VersionOf(request[r].on)'
        BY TaggingAssumption DEF VersionOf
      <3>3. QED BY <1>v, <2>1, <2>2, <3>1, <3>2
    <2>4. CASE request[r].on # job(p).on
      BY <2>1, <2>2, <2>4
    <2>5. QED BY <2>3, <2>4
  <1>4. ConflictsTrue'
    <2> SUFFICES ASSUME NEW r \in conflicted PROVE Outdated(request[r])'
      BY <1>r DEF ConflictsTrue, Outdated
    <2>1. r \in 1..Len(request) /\ Outdated(request[r])
      BY <1>t DEF TagInv, AdminsTrue, ConflictsTrue, TagTypeOK, RequestId
    <2>2. /\ request[r].on \in About(request[r].kind)
          /\ request[r].base <= VersionOf(request[r].on)
          /\ request[r].on \in Novel \cup Edge \cup {Taxonomy}
          /\ request[r].base \in Nat
      BY <1>q, <2>1 DEF TagInv, AdminsTrue, RequestsTrue, Requests
    <2>3. CASE request[r].base < VersionOf(request[r].on)
      <3>1. request[r].base < VersionOf(request[r].on)'
        BY <1>v, <2>2, <2>3
      <3>2. QED BY <1>r, <3>1 DEF Outdated
    <2>4. CASE request[r].kind = "exit" /\ tags[request[r].on].mode = "automatic"
      <3>0. request[r].on \in Novel
        BY <2>2, <2>4 DEF About
      <3>1. CASE request[r].on = job(p).on
        <4>1. request[r].base < VersionOf(request[r].on)'
          BY <1>v, <2>2, <3>1
        <4>2. QED BY <1>r, <4>1 DEF Outdated
      <3>2. CASE request[r].on # job(p).on
        BY <1>r, <2>4, <3>0, <3>2 DEF Outdated
      <3>3. QED BY <3>1, <3>2
    <2>5. QED BY <2>1, <2>3, <2>4 DEF Outdated
  <1>5. \A q \in Proc : ViewTrue(q)' /\ TxnTrue(q)'
    <2> SUFFICES ASSUME NEW q \in Proc PROVE ViewTrue(q)' /\ TxnTrue(q)'
      OBVIOUS
    <2>1. CASE q = p
      BY <1>1, <2>1 DEF Idle, ViewTrue, TxnTrue, InTransaction
    <2>2. CASE q # p
      <3>1. /\ txn'[q] = txn[q] /\ job(q)' = job(q)
            /\ ViewTrue(q) /\ TxnTrue(q) /\ Apart(q, p)
            /\ txn[q] \in Transaction(Len(request))
        BY <1>1, <1>j, <1>t, <2>2, TxnRow DEF TagInv, AdminsTrue
      <3>2. ViewTrue(q)'
        <4> SUFFICES ASSUME txn[q].at = "rows"
                     PROVE  /\ txn[q].on \in About(txn[q].kind)
                            /\ txn[q].base <= VersionOf(txn[q].on)'
                            /\ txn[q].manual => txn[q].on \in Novel
                            /\ txn[q].on \in Novel
                               /\ tags'[txn[q].on].revision = txn[q].base
                                 => (txn[q].manual <=> tags'[txn[q].on].mode = "manual")
          BY <3>1 DEF ViewTrue, About
        <4>1. /\ txn[q].on \in About(txn[q].kind)
              /\ txn[q].base <= VersionOf(txn[q].on)
              /\ txn[q].manual => txn[q].on \in Novel
              /\ txn[q].on \in Novel /\ tags[txn[q].on].revision = txn[q].base
                   => (txn[q].manual <=> tags[txn[q].on].mode = "manual")
          BY <3>1 DEF ViewTrue
        <4>2. /\ txn[q].on \in Novel \cup Edge \cup {Taxonomy}
              /\ txn[q].base \in Nat
          BY <3>1 DEF Transaction
        <4>3. txn[q].base <= VersionOf(txn[q].on)'
          BY <1>v, <3>1, <4>1, <4>2
        <4>4. CASE txn[q].on = job(p).on
          <5>1. txn[q].base < VersionOf(txn[q].on)'
            BY <1>v, <3>1, <4>1, <4>2, <4>4
          <5>2. txn[q].on \in Novel => tags'[txn[q].on].revision = VersionOf(txn[q].on)'
            BY <3>1, TaggingAssumption DEF VersionOf
          <5>3. QED BY <1>v, <3>1, <4>1, <4>2, <4>3, <5>1, <5>2
        <4>5. CASE txn[q].on # job(p).on
          BY <4>1, <4>3, <4>5
        <4>6. QED BY <4>4, <4>5
      <3>3. txn'[q].at \in InTransaction => txn'[q].id \notin audited'
        BY <3>1 DEF TxnTrue, Apart
      <3>4. txn'[q].at = "commit" =>
              \/ job(q)'.on \in Novel /\ Current(job(q))'
              \/ job(q)'.on \in Edge /\ EdgeCurrent(job(q))'
        BY <2>2, <3>1 DEF TxnTrue, Current, EdgeCurrent
      <3>5. txn'[q].at = "write" =>
              /\ txn'[q].id \notin conflicted'
              /\ EdgeCurrent(job(q))' \/ ~edge'[job(q)'.on].active
        <4> SUFFICES ASSUME txn[q].at = "write"
                     PROVE  /\ txn[q].id \notin conflicted
                            /\ EdgeCurrent(job(q))' \/ ~edge'[job(q).on].active
          BY <1>r, <3>1
        <4>1. job(q) = request[txn[q].id] /\ txn[q].id \in 1..Len(request)
          BY <3>1 DEF TxnTrue, InTransaction, job
        <4>2. job(q).on \in Edge
          BY <3>1, <4>1 DEF TagInv, AdminsTrue, RequestsTrue, TxnTrue, About
        <4>3. QED BY <2>2, <3>1, <4>2 DEF TxnTrue, EdgeCurrent
      <3>6. TxnTrue(q)'
        BY <1>r, <3>1, <3>3, <3>4, <3>5 DEF TxnTrue
      <3>7. QED BY <3>2, <3>6
    <2>3. QED BY <2>1, <2>2
  <1>6. \A q, r \in Proc : q # r => Apart(q, r)'
    <2> SUFFICES ASSUME NEW q \in Proc, NEW r \in Proc, q # r PROVE Apart(q, r)'
      OBVIOUS
    <2>1. CASE q = p \/ r = p
      BY <1>1, <2>1 DEF Idle, Apart, InTransaction
    <2>2. CASE q # p /\ r # p
      <3>1. txn'[q] = txn[q] /\ txn'[r] = txn[r] /\ Apart(q, r)
        BY <1>1, <2>2 DEF TagInv, AdminsTrue
      <3>2. QED BY <1>j, <2>2, <3>1 DEF Apart
    <2>3. QED BY <2>1, <2>2
  <1>7. WorkersTrue'
    <2>1. \A w \in Worker : HandlerTrue(w)'
      <3> SUFFICES ASSUME NEW w \in Worker PROVE HandlerTrue(w)'
        OBVIOUS
      <3>1. HandlerTrue(w) /\ novel(w)' = novel(w) /\ (OwnsItem(w) <=> OwnsItem(w)')
        BY <1>r DEF TagInv, WorkersTrue, novel, OwnsItem
      <3>2. handler[w].at = "commit" => novel(w) \in Novel
        BY <3>1 DEF HandlerTrue, TagItem, novel
      <3>3. QED BY <1>r, <3>1, <3>2 DEF HandlerTrue
    <2>2. \A i \in TagItem : ItemTrue(i)'
      BY <1>r DEF TagInv, WorkersTrue, ItemTrue
    <2>3. ASSUME NEW q \in Proc, NEW w \in Worker, txn'[q].at = "commit",
                 handler'[w].at = "commit"
          PROVE  job(q)'.on # novel(w)'
      <3>1. q # p /\ txn'[q] = txn[q] /\ job(q)' = job(q) /\ novel(w)' = novel(w)
        BY <1>1, <1>j, <1>r, <2>3 DEF Idle, novel
      <3>2. QED BY <1>r, <2>3, <3>1 DEF TagInv, WorkersTrue
    <2>4. QED BY <1>r, <2>1, <2>2, <2>3 DEF TagInv, WorkersTrue
  <1>8. \A n \in Novel : NovelTrue(n)'
    <2> SUFFICES ASSUME NEW n \in Novel, n # job(p).on PROVE NovelTrue(n)'
      OBVIOUS
    <2>1. EditsOf(n)' = EditsOf(n)
      BY <1>r, <1>t DEF EditsOf
    <2>2. NovelTrue(n) /\ tags'[n] = tags[n]
      BY DEF TagInv
    <2>3. QED BY <1>r, <2>1, <2>2 DEF NovelTrue
  <1>9. RunsTrue'
    BY <1>r DEF TagInv, RunsTrue
  <1>10. QED BY <1>2, <1>3, <1>4, <1>5, <1>6, <1>7, <1>8, <1>9
             DEF TagInv, AdminsTrue

LEMMA OneMoreEdit ==
  ASSUME TagInv, NEW p \in Proc, NEW n \in Novel, txn[p].at \in InTransaction,
         job(p).on = n, audited' = audited \cup {txn[p].id}, request' = request
  PROVE  /\ EditsOf(n)' = EditsOf(n) \cup {txn[p].id}
         /\ Cardinality(EditsOf(n)') = Cardinality(EditsOf(n)) + 1
  <1>1. /\ txn[p].id \notin audited /\ request[txn[p].id].on = n
        /\ audited \subseteq 1..Len(request) /\ Len(request) \in Nat
    BY TxnRow DEF TagInv, AdminsTrue, TxnTrue, job, TagTypeOK, RequestId
  <1>2. EditsOf(n)' = EditsOf(n) \cup {txn[p].id} /\ txn[p].id \notin EditsOf(n)
    BY <1>1 DEF EditsOf
  <1>3. IsFiniteSet(EditsOf(n))
    <2>1. EditsOf(n) \subseteq 1..Len(request)
      BY <1>1 DEF EditsOf
    <2>2. IsFiniteSet(1..Len(request))
      BY <1>1, FS_Interval
    <2>3. QED BY <2>1, <2>2, FS_Subset
  <1>4. QED BY <1>2, <1>3, FS_AddElement

LEMMA ReplaceKeeps ==
  ASSUME TagInv, NEW p \in Proc,
         replaceManualTagSnapshot(p) \/ exitManualTagMode(p)
  PROVE  TagInv' /\ ~Unseen(request[txn[p].id])
  <1>t. TagTypeOK /\ TxnTrue(p) /\ mishaps' \in 0..scene.mishaps
    BY DEF TagInv, AdminsTrue, TagTypeOK, Commits, replaceManualTagSnapshot,
           exitManualTagMode
  <1>r. /\ UNCHANGED <<edge, taxonomy, runs, queueVars, request, conflicted, mishaps,
                       scene>>
        /\ txn[p].at = "commit" /\ Leave(p)
        /\ audited' = audited \cup {txn[p].id}
        /\ job(p).kind \in {"replace", "exit"}
    BY DEF Commits, replaceManualTagSnapshot, exitManualTagMode
  <1>1. /\ txn[p].at \in InTransaction /\ txn[p].id \in 1..Len(request)
        /\ txn[p].id \notin audited
    BY <1>t, <1>r DEF TxnTrue, InTransaction
  <1>b. /\ job(p).on \in About(job(p).kind)
        /\ job(p).on \in Novel /\ tags[job(p).on].revision = job(p).base =>
             job(p).seen = tags[job(p).on].manual
    BY <1>1 DEF TagInv, AdminsTrue, RequestsTrue, job
  <1>n. PICK n \in Novel : n = job(p).on
    BY <1>b, <1>r DEF About
  <1>d. n \notin Edge /\ n # Taxonomy
    BY TaggingAssumption
  <1>c. Current(job(p))
    BY <1>d, <1>n, <1>r, <1>t DEF TxnTrue
  <1>o. tags \in [Novel -> Tagged] /\ tags[n] \in Tagged
    BY <1>t, TypesAsRows
  <1>w. tags[n].revision + 1 \in Nat /\ txn[p].id \in Nat
    BY <1>1, <1>o, <1>t, TxnRow DEF Tagged
  <1>2. PICK new \in Tagged :
          /\ tags' = [tags EXCEPT ![n] = new]
          /\ new.revision = tags[n].revision + 1 /\ new.run = tags[n].run
          /\ \/ new.mode = "manual" /\ new.manual = txn[p].id
             \/ new.mode = "automatic" /\ new.manual = 0
    <2>1. CASE replaceManualTagSnapshot(p)
      <3> DEFINE row == [tags[n] EXCEPT !.mode = "manual", !.revision = @ + 1,
                                        !.manual = txn[p].id]
      <3>1. row \in Tagged
        BY <1>o, <1>w DEF Tagged
      <3>2. tags' = [tags EXCEPT ![n] = row]
        BY <2>1, <1>n, <1>o DEF replaceManualTagSnapshot, Tagged
      <3>3. /\ row.revision = tags[n].revision + 1 /\ row.run = tags[n].run
            /\ row.mode = "manual" /\ row.manual = txn[p].id
        BY <1>o DEF Tagged
      <3>4. QED BY <3>1, <3>2, <3>3
    <2>2. CASE exitManualTagMode(p)
      <3> DEFINE row == [tags[n] EXCEPT !.mode = "automatic", !.revision = @ + 1,
                                        !.manual = 0]
      <3>1. row \in Tagged
        BY <1>o, <1>w DEF Tagged
      <3>2. tags' = [tags EXCEPT ![n] = row]
        BY <2>2, <1>n, <1>o DEF exitManualTagMode, Tagged
      <3>3. /\ row.revision = tags[n].revision + 1 /\ row.run = tags[n].run
            /\ row.mode = "automatic" /\ row.manual = 0
        BY <1>o DEF Tagged
      <3>4. QED BY <3>1, <3>2, <3>3
    <2>3. QED BY <2>1, <2>2
  <1>3. /\ tags' \in [Novel -> Tagged] /\ tags'[n] = new
        /\ \A m \in Novel : m # n => tags'[m] = tags[m]
    BY <1>2, <1>n, <1>o
  <1>4. TagTypeOK'
    <2>1. audited' \subseteq 1..Len(request)
      BY <1>1, <1>r, <1>t DEF TagTypeOK, RequestId
    <2>2. txn' \in [Proc -> Transaction(Len(request))]
      BY <1>r, <1>t, LeaveTypes
    <2>3. QED BY <1>3, <1>r, <1>t, <2>1, <2>2
              DEF TagTypeOK, RequestId, Transaction, Tagged, queueVars
  <1>5. txn[p].id \notin conflicted
    <2>1. ~Outdated(job(p))
      BY <1>c, <1>n, <1>o, TaggingAssumption
         DEF Outdated, Current, VersionOf, Tagged
    <2>2. QED BY <2>1 DEF TagInv, AdminsTrue, ConflictsTrue, job
  <1>v. \A o : /\ VersionOf(o) <= VersionOf(o)'
               /\ o = n => VersionOf(o) < VersionOf(o)'
    <2>1. /\ VersionOf(n) = tags[n].revision /\ VersionOf(n)' = new.revision
          /\ \A o : o # n => VersionOf(o)' = VersionOf(o)
      BY <1>3, <1>d, <1>r DEF VersionOf
    <2>2. \A o : VersionOf(o) \in Nat
      BY <1>t DEF TagTypeOK, VersionOf
    <2>3. QED BY <1>2, <1>o, <2>1, <2>2 DEF Tagged
  <1>6. \A q \in Proc \ {p} : txn[q].at = "commit" => job(q).on # n
    BY <1>n, <1>r DEF TagInv, AdminsTrue, Apart
  <1>7. \A q \in Proc \ {p} : txn[q].at = "write" => job(q).on # n
    <2> SUFFICES ASSUME NEW q \in Proc, txn[q].at = "write" PROVE job(q).on \in Edge
      BY <1>d
    <2>1. txn[q].id \in 1..Len(request) /\ job(q).kind = "approve"
      BY DEF TagInv, AdminsTrue, TxnTrue, InTransaction
    <2>2. QED BY <2>1 DEF TagInv, AdminsTrue, RequestsTrue, About, job
  <1>8. \A w \in Worker : handler[w].at = "commit" => novel(w) # n
    BY <1>n, <1>r DEF TagInv, WorkersTrue
  <1>9. NovelTrue(n)'
    <2>1. /\ EditsOf(n)' = EditsOf(n) \cup {txn[p].id}
          /\ Cardinality(EditsOf(n)') = Cardinality(EditsOf(n)) + 1
      <3>1. request' = request
        BY <1>r
      <3>2. QED BY <1>1, <1>n, <1>r, <3>1, OneMoreEdit
    <2>2. NovelTrue(n) /\ UNCHANGED <<runs, request>>
      BY <1>n, <1>r DEF TagInv
    <2>3. request[txn[p].id].base = tags[n].revision
      BY <1>c, <1>n DEF Current, job
    <2>4. new.revision - 1 = tags[n].revision
      BY <1>2, <1>o DEF Tagged
    <2>5. tags'[n].revision = Cardinality(EditsOf(n)')
      BY <1>2, <1>3, <2>1, <2>2 DEF NovelTrue
    <2>6. QED BY <1>2, <1>3, <2>1, <2>2, <2>3, <2>4, <2>5 DEF NovelTrue
  <1>10. TagInv'
    BY <1>1, <1>3, <1>4, <1>5, <1>6, <1>7, <1>8, <1>9, <1>n, <1>r, <1>v,
       EditKeeps DEF Leave
  <1>11. ~Unseen(request[txn[p].id])
    BY <1>b, <1>c, <1>d, <1>n DEF Unseen, Current, job
  <1>12. QED BY <1>10, <1>11

(* The two ways an edge is written: the row was compared under its lock,   *)
(* or only a deactivation has come between.                                *)
LEMMA EdgeEditKeeps ==
  ASSUME TagInv, NEW p \in Proc, ApproveEdge(p) \/ DeactivateEdge(p)
  PROVE  TagInv' /\ ~Unseen(request[txn[p].id])
  <1>t. TagTypeOK /\ TxnTrue(p)
    BY DEF TagInv, AdminsTrue
  <1>r. /\ UNCHANGED <<tags, taxonomy, runs, queueVars, request, conflicted, mishaps,
                       scene>>
        /\ Leave(p) /\ audited' = audited \cup {txn[p].id}
        /\ \/ ApproveEdge(p) /\ txn[p].at = "write" /\ job(p).kind = "approve"
           \/ /\ DeactivateEdge(p) /\ txn[p].at = "commit"
              /\ job(p).kind = "deactivate"
    BY <1>t DEF Commits, ApproveEdge, DeactivateEdge, TxnTrue
  <1>1. /\ txn[p].at \in InTransaction /\ txn[p].id \in 1..Len(request)
        /\ txn[p].id \notin audited
    BY <1>t, <1>r DEF TxnTrue, InTransaction
  <1>b. job(p).on \in About(job(p).kind)
    BY <1>1 DEF TagInv, AdminsTrue, RequestsTrue, job
  <1>n. PICK e \in Edge : e = job(p).on
    BY <1>b, <1>r DEF About
  <1>d. e \notin Novel /\ e # Taxonomy
    BY TaggingAssumption
  <1>o. edge \in [Edge -> Mapped] /\ edge[e] \in Mapped
    BY <1>t, TypesAsRows
  <1>w. edge[e].version + 1 \in Nat
    BY <1>o DEF Mapped
  <1>2. PICK a \in BOOLEAN :
          /\ edge' = [edge EXCEPT ![e] = [version |-> edge[e].version + 1,
                                          active |-> a]]
          /\ job(p).kind = "deactivate" => ~a
    BY <1>n, <1>r DEF ApproveEdge, DeactivateEdge
  <1>3. /\ edge' \in [Edge -> Mapped] /\ edge'[e].version = edge[e].version + 1
        /\ edge'[e].active = a
        /\ \A f \in Edge : f # e => edge'[f] = edge[f]
    BY <1>2, <1>o, <1>w DEF Mapped
  <1>4. TagTypeOK'
    <2>1. audited' \subseteq 1..Len(request)
      BY <1>1, <1>r, <1>t DEF TagTypeOK, RequestId
    <2>2. txn' \in [Proc -> Transaction(Len(request))]
      BY <1>r, <1>t, LeaveTypes
    <2>3. QED BY <1>3, <1>r, <1>t, <2>1, <2>2
              DEF TagTypeOK, RequestId, Transaction, Mapped, queueVars
  <1>c. job(p).kind = "deactivate" => EdgeCurrent(job(p))
    BY <1>d, <1>n, <1>r, <1>t DEF TxnTrue
  <1>5. txn[p].id \notin conflicted
    <2>1. CASE job(p).kind = "approve"
      BY <1>r, <1>t, <2>1 DEF TxnTrue
    <2>2. CASE job(p).kind = "deactivate"
      <3>1. ~Outdated(job(p))
        BY <1>c, <1>d, <1>n, <1>o, <2>2 DEF Outdated, EdgeCurrent, VersionOf, Mapped
      <3>2. QED BY <3>1 DEF TagInv, AdminsTrue, ConflictsTrue, job
    <2>3. QED BY <1>r, <2>1, <2>2
  <1>v. \A o : /\ VersionOf(o) <= VersionOf(o)'
               /\ o = e => VersionOf(o) < VersionOf(o)'
    <2>1. /\ VersionOf(e) = edge[e].version
          /\ VersionOf(e)' = edge[e].version + 1
          /\ \A o : o # e => VersionOf(o)' = VersionOf(o)
      BY <1>3, <1>d, <1>r DEF VersionOf
    <2>2. \A o : VersionOf(o) \in Nat
      BY <1>t DEF TagTypeOK, VersionOf
    <2>3. QED BY <2>1, <2>2
  <1>6. \A q \in Proc \ {p} : txn[q].at = "commit" => job(q).on # e
    <2>1. CASE ApproveEdge(p)
      BY <1>n, <2>1 DEF ApproveEdge, EdgeLocked
    <2>2. CASE txn[p].at = "commit"
      BY <1>n, <2>2 DEF TagInv, AdminsTrue, Apart
    <2>3. QED BY <1>r, <2>1, <2>2
  <1>7. \A q \in Proc \ {p} : txn[q].at = "write" /\ job(q).on = e =>
          ~edge'[e].active
    <2>1. CASE txn[p].at = "write"
      BY <1>n, <2>1 DEF TagInv, AdminsTrue, Apart
    <2>2. CASE job(p).kind = "deactivate"
      BY <1>2, <1>3, <2>2
    <2>3. QED BY <1>r, <2>1, <2>2
  <1>8. \A w \in Worker : handler[w].at = "commit" => novel(w) # e
    <2>1. ASSUME NEW w \in Worker, handler[w].at = "commit"
          PROVE  novel(w) \in Novel
      BY <2>1 DEF TagInv, WorkersTrue, HandlerTrue, TagItem, novel
    <2>2. QED BY <1>d, <2>1
  <1>10. TagInv'
    BY <1>1, <1>3, <1>4, <1>5, <1>6, <1>7, <1>8, <1>d, <1>n, <1>r, <1>v,
       EditKeeps DEF Leave
  <1>11. ~Unseen(request[txn[p].id])
    <2>1. CASE txn[p].at = "write"
      BY <1>d, <1>n, <1>t, <2>1 DEF Unseen, TxnTrue, EdgeCurrent, job
    <2>2. CASE job(p).kind = "deactivate"
      BY <1>c, <1>d, <1>n, <2>2 DEF Unseen, EdgeCurrent, job
    <2>3. QED BY <1>r, <2>1, <2>2
  <1>12. QED BY <1>10, <1>11

LEMMA TaxonomyKeeps ==
  ASSUME TagInv, NEW p \in Proc, mutateAdminCanonicalTag(p)
  PROVE  /\ TagInv'
         /\ \A r \in audited' \ audited : ~Unseen(request[r])
  <1>t. TagTypeOK /\ TxnTrue(p) /\ mishaps' \in 0..scene.mishaps
    BY DEF TagInv, AdminsTrue, mutateAdminCanonicalTag, TagTypeOK
  <1>1. /\ txn[p].at \in InTransaction /\ txn[p].id \in 1..Len(request)
        /\ txn[p].id \notin audited /\ job(p).on = Taxonomy
    BY <1>t DEF TxnTrue, InTransaction, mutateAdminCanonicalTag
  <1>d. Taxonomy \notin Novel /\ Taxonomy \notin Edge
    BY TaggingAssumption
  <1>b. /\ job(p).base <= taxonomy.version
        /\ job(p).base \in Nat /\ taxonomy.version \in Nat
        /\ job(p).kind # "exit"
    <2>1. /\ job(p).on \in About(job(p).kind) /\ job(p).base <= VersionOf(job(p).on)
      BY <1>1 DEF TagInv, AdminsTrue, RequestsTrue, job
    <2>2. job(p) \in Requests
      BY <1>1, <1>t, TxnRow
    <2>3. QED BY <1>1, <1>d, <1>t, <2>1, <2>2
              DEF About, VersionOf, Requests, TagTypeOK
  <1>2. CASE taxonomy.version # job(p).base
    <2>1. Refuse(p) /\ UNCHANGED <<rows, queueVars, request, scene>>
      BY <1>2 DEF mutateAdminCanonicalTag, rows
    <2>2. Outdated(job(p))
      BY <1>1, <1>2, <1>b, <1>d DEF Outdated, VersionOf
    <2>3. QED BY <1>1, <1>t, <2>1, <2>2, LeavingKeeps DEF Refuse, rows
  <1>3. CASE taxonomy.version = job(p).base
    <2>r. /\ UNCHANGED <<tags, edge, runs, queueVars, request, conflicted, mishaps,
                         scene>>
          /\ Leave(p) /\ audited' = audited \cup {txn[p].id}
      BY <1>3 DEF mutateAdminCanonicalTag
    <2>x. /\ taxonomy' \in [version : Nat, lexicon : Nat, complete : BOOLEAN]
          /\ taxonomy'.version = taxonomy.version + 1
      <3>1. taxonomy \in [version : Nat, lexicon : Nat, complete : BOOLEAN]
        BY <1>t DEF TagTypeOK
      <3>n. taxonomy.version + 1 \in Nat /\ taxonomy.lexicon + 1 \in Nat
        BY <3>1
      <3>2. CASE taxonomy' = [taxonomy EXCEPT !.version = @ + 1, !.lexicon = @ + 1]
        BY <3>1, <3>2, <3>n
      <3>3. CASE taxonomy' = [taxonomy EXCEPT !.version = @ + 1, !.complete = ~@]
        <4>1. PICK b \in BOOLEAN : b = ~taxonomy.complete
          OBVIOUS
        <4>2. taxonomy' = [taxonomy EXCEPT !.version = taxonomy.version + 1,
                                           !.complete = b]
          BY <3>3, <4>1, Zenon
        <4>3. QED BY <3>1, <3>n, <4>2
      <3>4. QED BY <1>3, <3>2, <3>3 DEF mutateAdminCanonicalTag
    <2>4. TagTypeOK'
      <3>1. audited' \subseteq 1..Len(request)
        BY <1>1, <1>t, <2>r DEF TagTypeOK, RequestId
      <3>2. txn' \in [Proc -> Transaction(Len(request))]
        BY <1>t, <2>r, LeaveTypes
      <3>3. QED BY <1>t, <2>r, <2>x, <3>1, <3>2
                DEF TagTypeOK, RequestId, Transaction, queueVars
    <2>5. txn[p].id \notin conflicted
      <3>1. ~Outdated(job(p))
        BY <1>1, <1>3, <1>b, <1>d DEF Outdated, VersionOf
      <3>2. QED BY <3>1 DEF TagInv, AdminsTrue, ConflictsTrue, job
    <2>v. \A o : /\ VersionOf(o) <= VersionOf(o)'
                 /\ o = Taxonomy => VersionOf(o) < VersionOf(o)'
      <3>1. \A o : VersionOf(o) \in Nat
        BY <1>t DEF TagTypeOK, VersionOf
      <3>2. \A o : o \in Novel \cup Edge => VersionOf(o)' = VersionOf(o)
        BY <2>r DEF VersionOf
      <3>3. \A o : o \notin Novel \cup Edge =>
              VersionOf(o) = taxonomy.version /\ VersionOf(o)' = taxonomy.version + 1
        BY <2>r, <2>x DEF VersionOf
      <3>4. QED BY <1>b, <1>d, <3>1, <3>2, <3>3
    <2>6. \A q \in Proc : txn[q].at = "commit" => job(q).on # Taxonomy
      BY <1>d DEF TagInv, AdminsTrue, TxnTrue
    <2>7. \A q \in Proc : txn[q].at = "write" => job(q).on # Taxonomy
      <3> SUFFICES ASSUME NEW q \in Proc, txn[q].at = "write"
                   PROVE job(q).on \in Edge
        BY <1>d
      <3>1. txn[q].id \in 1..Len(request) /\ job(q).kind = "approve"
        BY DEF TagInv, AdminsTrue, TxnTrue, InTransaction
      <3>2. QED BY <3>1 DEF TagInv, AdminsTrue, RequestsTrue, About, job
    <2>8. \A w \in Worker : handler[w].at = "commit" => novel(w) # Taxonomy
      <3>1. ASSUME NEW w \in Worker, handler[w].at = "commit"
            PROVE  novel(w) \in Novel
        BY <3>1 DEF TagInv, WorkersTrue, HandlerTrue, TagItem, novel
      <3>2. QED BY <1>d, <3>1
    <2>10. TagInv'
      BY <1>1, <1>d, <2>4, <2>5, <2>6, <2>7, <2>8, <2>r, <2>v,
         EditKeeps DEF Leave
    <2>11. ~Unseen(request[txn[p].id])
      BY <1>1, <1>3, <1>d DEF Unseen, job
    <2>12. QED BY <2>10, <2>11, <2>r
  <1>4. QED BY <1>2, <1>3
-----------------------------------------------------------------------------
(* Items.  A step of the queue leaves every row the administrators compare *)
(* (a classification writes the run of a novel and nothing else).          *)
LEMMA QueueKeepsAdmins ==
  ASSUME TagInv, UNCHANGED <<edge, taxonomy, audited, adminVars>>,
         \A n \in Novel : /\ tags'[n].mode = tags[n].mode
                          /\ tags'[n].revision = tags[n].revision
                          /\ tags'[n].manual = tags[n].manual
  PROVE  AnswersTrue' /\ AdminsTrue'
  <1>r. UNCHANGED <<request, txn, conflicted>>
    BY DEF adminVars
  <1>v. \A o : VersionOf(o)' = VersionOf(o)
    BY DEF VersionOf
  <1>j. \A p \in Proc : job(p)' = job(p)
    BY <1>r DEF job
  <1>q. /\ \A r \in 1..Len(request) : request[r].on \in About(request[r].kind)
        /\ \A r \in conflicted : r \in 1..Len(request)
    BY DEF TagInv, AdminsTrue, RequestsTrue, TagTypeOK, RequestId
  <1>1. AnswersTrue'
    BY <1>r DEF TagInv, AnswersTrue
  <1>2. RequestsTrue'
    BY <1>r, <1>v DEF TagInv, AdminsTrue, RequestsTrue, About
  <1>3. ConflictsTrue'
    <2> SUFFICES ASSUME NEW r \in conflicted PROVE Outdated(request[r])'
      BY <1>r DEF ConflictsTrue, Outdated
    <2>1. Outdated(request[r]) /\ request[r].on \in About(request[r].kind)
      BY <1>q DEF TagInv, AdminsTrue, ConflictsTrue
    <2>2. request[r].kind = "exit" => request[r].on \in Novel
      BY <2>1 DEF About
    <2>3. QED BY <1>r, <1>v, <2>1, <2>2 DEF Outdated
  <1>4. ASSUME NEW p \in Proc PROVE ViewTrue(p)' /\ TxnTrue(p)'
    <2>1. ViewTrue(p) /\ TxnTrue(p)
      BY DEF TagInv, AdminsTrue
    <2>2. ViewTrue(p)'
      BY <1>r, <1>v, <2>1 DEF ViewTrue, About
    <2>3. TxnTrue(p)'
      BY <1>r, <1>j, <2>1 DEF TxnTrue, Current, EdgeCurrent
    <2>4. QED BY <2>2, <2>3
  <1>5. \A p, q \in Proc : p # q => Apart(p, q)'
    BY <1>r, <1>j DEF TagInv, AdminsTrue, Apart
  <1>6. QED BY <1>1, <1>2, <1>3, <1>4, <1>5 DEF AdminsTrue

(* The parts of the queue: handler w moves on or rests, and its item goes  *)
(* from "processing" to an end only if w is the one that owns it.          *)
LEMMA HandlerKeeps ==
  ASSUME TagInv, TagTypeOK', NEW w \in Worker, handler[w].at # "idle",
         UNCHANGED <<rows, submit, adminVars>>,
         \A v \in Worker \ {w} : handler'[v] = handler[v],
         \/ handler'[w].at = "idle"
         \/ /\ handler'[w].item = handler[w].item
            /\ handler'[w].attempt = handler[w].attempt,
         \/ tagItem' = tagItem
         \/ /\ OwnsItem(w) /\ handler'[w].at = "idle"
            /\ \E s \in {"skipped", "failed"} : Ends(w, s),
         HandlerTrue(w)',
         \A p \in Proc : txn[p].at = "commit" /\ handler'[w].at = "commit" =>
            job(p).on # novel(w)'
  PROVE  TagInv'
  <1>r. UNCHANGED <<tags, edge, taxonomy, runs, audited, submit, request, txn,
                    conflicted>>
    BY DEF rows, adminVars
  <1>t. tagItem \in [TagItem -> Queued] /\ handler[w].item \in TagItem
    BY TypesAsRows DEF TagInv, WorkersTrue, HandlerTrue
  <1>1. AnswersTrue' /\ AdminsTrue'
    BY <1>r, QueueKeepsAdmins
  <1> DEFINE mine == handler[w].item
  <1>2. \A i \in TagItem :
          \/ tagItem'[i] = tagItem[i]
          \/ /\ i = mine /\ OwnsItem(w)
             /\ tagItem'[i].status \in {"skipped", "failed"}
             /\ tagItem'[i].attempts = tagItem[i].attempts
    BY <1>t DEF Ends, Queued
  <1>3. \A v \in Worker : HandlerTrue(v)'
    <2> SUFFICES ASSUME NEW v \in Worker, v # w, handler[v].at # "idle"
                 PROVE  HandlerTrue(v)'
      BY DEF HandlerTrue
    <2>1. handler'[v] = handler[v] /\ HandlerTrue(v) /\ novel(v)' = novel(v)
      BY DEF TagInv, WorkersTrue, novel
    <2>2. CASE tagItem'[handler[v].item] = tagItem[handler[v].item]
      BY <1>r, <2>1, <2>2 DEF HandlerTrue, OwnsItem
    <2>3. CASE /\ handler[v].item = mine /\ OwnsItem(w)
               /\ tagItem'[mine].status \in {"skipped", "failed"}
               /\ tagItem'[mine].attempts = tagItem[mine].attempts
      <3>1. ~OwnsItem(v)
        BY <2>3 DEF TagInv, WorkersTrue, OwnsItem
      <3>2. QED BY <1>r, <2>1, <2>3, <3>1 DEF HandlerTrue, Protected
    <2>4. QED BY <1>2, <2>1, <2>2, <2>3 DEF HandlerTrue
  <1>4. ASSUME NEW u \in Worker, NEW v \in Worker, u # v,
               handler'[u].at # "idle", handler'[v].at # "idle",
               handler'[u].item = handler'[v].item
        PROVE  handler'[u].attempt # handler'[v].attempt
    BY <1>4 DEF TagInv, WorkersTrue
  <1>5. \A i \in TagItem : ItemTrue(i)'
    BY <1>2, <1>r DEF TagInv, WorkersTrue, ItemTrue, OwnsItem
  <1>6. ASSUME NEW p \in Proc, NEW v \in Worker, txn'[p].at = "commit",
               handler'[v].at = "commit"
        PROVE  job(p)'.on # novel(v)'
    <2>1. job(p)' = job(p)
      BY <1>r DEF job
    <2>2. CASE v = w
      BY <1>6, <1>r, <2>1, <2>2
    <2>3. CASE v # w
      BY <1>6, <1>r, <2>1, <2>3 DEF TagInv, WorkersTrue, novel
    <2>4. QED BY <2>2, <2>3
  <1>7. WorkersTrue'
    BY <1>3, <1>4, <1>5, <1>6 DEF WorkersTrue
  <1>8. \A n \in Novel : NovelTrue(n)'
    BY <1>r DEF TagInv, NovelTrue, EditsOf
  <1>9. RunsTrue'
    BY <1>2, <1>r DEF TagInv, RunsTrue, OwnsItem
  <1>10. QED BY <1>1, <1>7, <1>8, <1>9 DEF TagInv

LEMMA ReachTypes ==
  ASSUME TagTypeOK, NEW w \in Worker,
         NEW step \in Protected \cup {"idle", "classify", "fence", "skipped",
                                      "failed"},
         Reach(w, step)
  PROVE  /\ handler' \in [Worker -> Handling]
         /\ handler'[w].at = step /\ handler'[w].item = handler[w].item
         /\ handler'[w].attempt = handler[w].attempt
         /\ \A v \in Worker \ {w} : handler'[v] = handler[v]
  <1>1. handler \in [Worker -> Handling]
    BY TypesAsRows
  <1>2. [handler[w] EXCEPT !.at = step] \in Handling
    BY <1>1 DEF Handling
  <1>3. handler' = [handler EXCEPT ![w] = [handler[w] EXCEPT !.at = step]]
    BY <1>1 DEF Reach, Handling
  <1>4. QED BY <1>1, <1>2, <1>3 DEF Handling

LEMMA RestTypes ==
  ASSUME TagTypeOK, NEW w \in Worker, Rest(w)
  PROVE  /\ handler' \in [Worker -> Handling] /\ handler'[w].at = "idle"
         /\ \A v \in Worker \ {w} : handler'[v] = handler[v]
  <1>1. handler \in [Worker -> Handling]
    BY TypesAsRows
  <1>2. Resting \in Handling
    BY TaggingAssumption DEF Resting, Handling
  <1>3. QED BY <1>1, <1>2 DEF Rest, Resting

LEMMA EndsTypes ==
  ASSUME TagTypeOK, NEW w \in Worker, NEW s \in {"success", "skipped", "failed"},
         Ends(w, s)
  PROVE  tagItem' \in [TagItem -> Queued]
  <1>1. tagItem \in [TagItem -> Queued]
    BY TypesAsRows
  <1>2. QED BY <1>1 DEF Ends, Queued

(* Steps that only move a handler, or let it rest.                         *)
LEMMA ReachKeeps ==
  ASSUME TagInv, NEW w \in Worker, handler[w].at # "idle",
         NEW step \in {"classify", "fence", "skipped", "failed", "snapshot",
                       "authority", "declined", "row", "commit"},
         Reach(w, step), UNCHANGED <<rows, submit, tagItem, adminVars, mishaps, scene>>,
         step \in Protected => OwnsItem(w),
         step = "commit" => /\ tags[novel(w)].mode = "automatic"
                            /\ \A p \in Proc : txn[p].at = "commit" =>
                                 job(p).on # novel(w)
  PROVE  TagInv'
  <1>t. TagTypeOK /\ HandlerTrue(w)
    BY DEF TagInv, WorkersTrue
  <1>r. UNCHANGED <<tags, edge, taxonomy, runs, audited, submit, tagItem, request,
                    txn, conflicted, mishaps, scene>>
    BY DEF rows, adminVars
  <1>1. /\ handler' \in [Worker -> Handling]
        /\ handler'[w].at = step /\ handler'[w].item = handler[w].item
        /\ handler'[w].attempt = handler[w].attempt
        /\ \A v \in Worker \ {w} : handler'[v] = handler[v]
    BY <1>t, ReachTypes DEF Protected
  <1>2. TagTypeOK'
    BY <1>1, <1>r, <1>t DEF TagTypeOK, Handling, RequestId
  <1>3. HandlerTrue(w)' /\ novel(w)' = novel(w)
    BY <1>1, <1>r, <1>t DEF HandlerTrue, OwnsItem, novel
  <1>4. QED BY <1>1, <1>2, <1>3, HandlerKeeps

LEMMA RestKeeps ==
  ASSUME TagInv, NEW w \in Worker, handler[w].at # "idle", Rest(w),
         UNCHANGED <<rows, submit, adminVars, scene>>,
         mishaps' \in 0..scene.mishaps,
         \/ tagItem' = tagItem
         \/ OwnsItem(w) /\ \E s \in {"skipped", "failed"} : Ends(w, s)
  PROVE  TagInv'
  <1>t. TagTypeOK
    BY DEF TagInv
  <1>r. UNCHANGED <<tags, edge, taxonomy, runs, audited, submit, request, txn,
                    conflicted, scene>>
    BY DEF rows, adminVars
  <1>1. /\ handler' \in [Worker -> Handling] /\ handler'[w].at = "idle"
        /\ \A v \in Worker \ {w} : handler'[v] = handler[v]
    BY <1>t, RestTypes
  <1>2. tagItem' \in [TagItem -> Queued]
    BY <1>t, EndsTypes, TypesAsRows
  <1>3. TagTypeOK'
    BY <1>1, <1>2, <1>r, <1>t DEF TagTypeOK, Handling, Queued, RequestId
  <1>4. HandlerTrue(w)'
    BY <1>1 DEF HandlerTrue
  <1>5. QED BY <1>1, <1>3, <1>4, HandlerKeeps

LEMMA HandlerStepsKeep ==
  ASSUME TagInv, NEW w \in Worker,
         \/ WorkerDies(w) \/ Classify(w) \/ Finish(w) \/ Fence(w)
         \/ ReadSnapshot(w) \/ ReadAuthority(w)
  PROVE  TagInv'
  <1>t. TagTypeOK /\ HandlerTrue(w) /\ mishaps \in 0..scene.mishaps
    BY DEF TagInv, WorkersTrue, TagTypeOK
  <1>1. CASE WorkerDies(w)
    BY <1>1, <1>t, OneMoreMishap, RestKeeps DEF WorkerDies
  <1>2. CASE Classify(w)
    <2>1. \E step \in {"failed", "fence", "skipped"} : Reach(w, step)
      BY <1>2 DEF Classify
    <2>2. handler[w].at # "idle"
          /\ UNCHANGED <<rows, submit, tagItem, adminVars, mishaps, scene>>
      BY <1>2 DEF Classify
    <2>3. QED BY <2>1, <2>2, ReachKeeps DEF Protected
  <1>3. CASE Finish(w)
    BY <1>3, <1>t, RestKeeps DEF Finish
  <1>4. CASE Fence(w)
    <2>1. CASE OwnsItem(w)
      BY <1>4, <2>1, ReachKeeps DEF Fence
    <2>2. CASE ~OwnsItem(w)
      BY <1>4, <1>t, <2>2, RestKeeps DEF Fence
    <2>3. QED BY <2>1, <2>2
  <1>5. CASE ReadSnapshot(w)
    <2>0. OwnsItem(w)
      BY <1>5, <1>t DEF ReadSnapshot, HandlerTrue, Protected
    <2>1. CASE Eligible(taskOf(w), novel(w))
      BY <1>5, <2>0, <2>1, ReachKeeps DEF ReadSnapshot
    <2>2. CASE ~Eligible(taskOf(w), novel(w))
      BY <1>5, <2>0, <2>2, ReachKeeps DEF ReadSnapshot
    <2>3. QED BY <2>1, <2>2
  <1>6. CASE ReadAuthority(w)
    <2>0. OwnsItem(w)
      BY <1>6, <1>t DEF ReadAuthority, HandlerTrue, Protected
    <2>1. CASE ~taxonomy.complete
      BY <1>6, <2>0, <2>1, ReachKeeps DEF ReadAuthority
    <2>2. CASE /\ taxonomy.complete
               /\ handler[w].at = "declined" \/ Stale(w)
      BY <1>6, <1>t, <2>0, <2>2, RestKeeps DEF ReadAuthority
    <2>3. CASE /\ taxonomy.complete
               /\ ~(handler[w].at = "declined" \/ Stale(w))
      BY <1>6, <2>0, <2>3, ReachKeeps DEF ReadAuthority
    <2>4. QED BY <2>1, <2>2, <2>3
  <1>7. QED BY <1>1, <1>2, <1>3, <1>4, <1>5, <1>6

LEMMA LockStateKeeps ==
  ASSUME TagInv, NEW w \in Worker, LockState(w)
  PROVE  TagInv'
  <1>t. /\ TagTypeOK /\ HandlerTrue(w) /\ mishaps \in 0..scene.mishaps
        /\ UNCHANGED <<mishaps, scene>>
    BY DEF TagInv, WorkersTrue, TagTypeOK, LockState
  <1>1. OwnsItem(w) /\ handler[w].item \in TagItem /\ novel(w) \in Novel
    BY <1>t DEF LockState, HandlerTrue, Protected, TagItem, novel
  <1>2. handler[w].item \notin runs
    BY <1>1 DEF TagInv, RunsTrue, OwnsItem
  <1>3. CASE TakenOver(novel(w))
    BY <1>1, <1>2, <1>3, <1>t, RestKeeps DEF LockState
  <1>4. CASE Reach(w, "commit") /\ ~TakenOver(novel(w)) /\ UNCHANGED tagItem
    <2>1. tags[novel(w)].mode = "automatic"
      BY <1>1, <1>4, <1>t DEF TakenOver, TagTypeOK
    <2>2. \A p \in Proc : txn[p].at = "commit" => job(p).on # novel(w)
      BY DEF LockState, NovelLocked
    <2>3. QED BY <1>1, <1>4, <2>1, <2>2, ReachKeeps DEF LockState
  <1>5. CASE Reach(w, "failed") /\ UNCHANGED tagItem
    BY <1>1, <1>5, ReachKeeps DEF LockState
  <1>6. QED BY <1>2, <1>3, <1>4, <1>5 DEF LockState

LEMMA ReplaceAutoKeeps ==
  ASSUME TagInv, NEW w \in Worker, replaceAutoTagSnapshotInTransaction(w)
  PROVE  /\ TagInv' /\ audited' = audited
         /\ \A n \in Novel : tags'[n].run # tags[n].run =>
              tags[n].mode = "automatic" /\ tags'[n].mode = "automatic"
  <1>t. TagTypeOK /\ HandlerTrue(w)
    BY DEF TagInv, WorkersTrue
  <1>r. /\ UNCHANGED <<edge, taxonomy, audited, submit, request, txn, conflicted,
                       mishaps, scene>>
        /\ handler[w].at = "commit" /\ Rest(w) /\ Ends(w, "success")
        /\ runs' = runs \cup {handler[w].item}
        /\ tags' = [tags EXCEPT ![novel(w)].run = handler[w].item]
    BY DEF replaceAutoTagSnapshotInTransaction, adminVars
  <1>i. PICK i \in TagItem : i = handler[w].item
    BY <1>r, <1>t DEF HandlerTrue
  <1>n. PICK n \in Novel : n = novel(w) /\ n = i[2]
    BY <1>i DEF TagItem, novel
  <1>1. /\ OwnsItem(w) /\ tagItem[i].status = "processing"
        /\ tags[n].mode = "automatic"
    BY <1>i, <1>n, <1>r, <1>t DEF HandlerTrue, Protected, OwnsItem
  <1>o. tags \in [Novel -> Tagged] /\ tagItem \in [TagItem -> Queued]
    BY <1>t, TypesAsRows
  <1>2. /\ tags' \in [Novel -> Tagged] /\ tags'[n].run = i
        /\ \A m \in Novel : m # n => tags'[m] = tags[m]
        /\ \A m \in Novel : /\ tags'[m].mode = tags[m].mode
                            /\ tags'[m].revision = tags[m].revision
                            /\ tags'[m].manual = tags[m].manual
    <2>1. tags' = [tags EXCEPT ![n] = [tags[n] EXCEPT !.run = i]]
      BY <1>i, <1>n, <1>o, <1>r DEF Tagged
    <2>2. [tags[n] EXCEPT !.run = i] \in Tagged
      BY <1>o DEF Tagged
    <2>3. QED BY <1>o, <2>1, <2>2 DEF Tagged
  <1>3. /\ handler' \in [Worker -> Handling] /\ handler'[w].at = "idle"
        /\ \A v \in Worker \ {w} : handler'[v] = handler[v]
    BY <1>r, <1>t, RestTypes
  <1>4. /\ tagItem' \in [TagItem -> Queued]
        /\ tagItem'[i].status = "success" /\ tagItem'[i].attempts = tagItem[i].attempts
        /\ \A j \in TagItem : j # i => tagItem'[j] = tagItem[j]
    BY <1>i, <1>o, <1>r, <1>t, EndsTypes DEF Ends, Queued
  <1>5. TagTypeOK'
    <2>1. runs' \subseteq TagItem
      BY <1>i, <1>r, <1>t DEF TagTypeOK
    <2>2. QED BY <1>2, <1>3, <1>4, <1>r, <1>t, <2>1
              DEF TagTypeOK, Tagged, Handling, Queued, RequestId
  <1>6. AnswersTrue' /\ AdminsTrue'
    BY <1>2, <1>r, QueueKeepsAdmins DEF adminVars
  <1>7. \A v \in Worker : HandlerTrue(v)'
    <2> SUFFICES ASSUME NEW v \in Worker, v # w, handler[v].at # "idle"
                 PROVE  HandlerTrue(v)'
      BY <1>3 DEF HandlerTrue
    <2>1. handler'[v] = handler[v] /\ HandlerTrue(v) /\ novel(v)' = novel(v)
      BY <1>3 DEF TagInv, WorkersTrue, novel
    <2>2. handler[v].at = "commit" => novel(v) \in Novel
      BY <2>1 DEF HandlerTrue, TagItem, novel
    <2>3. CASE handler[v].item = i
      <3>1. ~OwnsItem(v)
        BY <1>1, <1>i, <1>r, <2>3 DEF TagInv, WorkersTrue, OwnsItem
      <3>2. QED BY <1>4, <2>1, <2>3, <3>1 DEF HandlerTrue, Protected
    <2>4. CASE handler[v].item # i
      BY <1>2, <1>4, <2>1, <2>2, <2>4 DEF HandlerTrue, OwnsItem
    <2>5. QED BY <2>3, <2>4
  <1>8. WorkersTrue'
    <2>1. ASSUME NEW u \in Worker, NEW v \in Worker, u # v,
                 handler'[u].at # "idle", handler'[v].at # "idle",
                 handler'[u].item = handler'[v].item
          PROVE  handler'[u].attempt # handler'[v].attempt
      BY <1>3, <2>1 DEF TagInv, WorkersTrue
    <2>2. \A j \in TagItem : ItemTrue(j)'
      BY <1>1, <1>4, <1>r DEF TagInv, WorkersTrue, ItemTrue
    <2>3. ASSUME NEW p \in Proc, NEW v \in Worker, txn'[p].at = "commit",
                 handler'[v].at = "commit"
          PROVE  job(p)'.on # novel(v)'
      <3>1. v # w /\ handler'[v] = handler[v] /\ novel(v)' = novel(v)
        BY <1>3, <2>3 DEF novel
      <3>2. job(p)' = job(p)
        BY <1>r DEF job
      <3>3. QED BY <1>r, <2>3, <3>1, <3>2 DEF TagInv, WorkersTrue
    <2>4. QED BY <1>7, <2>1, <2>2, <2>3 DEF WorkersTrue
  <1>9. \A m \in Novel : NovelTrue(m)'
    <2> SUFFICES ASSUME NEW m \in Novel PROVE NovelTrue(m)'
      OBVIOUS
    <2>1. NovelTrue(m) /\ EditsOf(m)' = EditsOf(m)
      BY <1>r DEF TagInv, EditsOf
    <2>2. tags'[m].run # None => tags'[m].run \in runs' /\ tags'[m].run[2] = m
      <3>1. CASE m = n
        BY <1>2, <1>i, <1>n, <1>r, <3>1
      <3>2. CASE m # n
        <4>1. tags'[m] = tags[m]
          BY <1>2, <3>2
        <4>2. tags[m].run # None => tags[m].run \in runs /\ tags[m].run[2] = m
          BY <2>1 DEF NovelTrue
        <4>3. runs \subseteq runs'
          BY <1>r
        <4>4. QED BY <4>1, <4>2, <4>3
      <3>3. QED BY <3>1, <3>2
    <2>3. QED BY <1>2, <1>r, <2>1, <2>2 DEF NovelTrue
  <1>10. RunsTrue'
    BY <1>4, <1>i, <1>r DEF TagInv, RunsTrue
  <1>11. TagInv'
    BY <1>5, <1>6, <1>8, <1>9, <1>10 DEF TagInv
  <1>12. \A m \in Novel : tags'[m].run # tags[m].run =>
           tags[m].mode = "automatic" /\ tags'[m].mode = "automatic"
    BY <1>1, <1>2
  <1>13. QED BY <1>11, <1>12, <1>r

(* The queue itself.                                                       *)
LEMMA ClaimItemKeeps ==
  ASSUME TagInv, NEW w \in Worker, NEW i \in TagItem, ClaimItem(w, i)
  PROVE  TagInv'
  <1> DEFINE k == tagItem[i].attempts
  <1>t. TagTypeOK /\ ItemTrue(i)
    BY DEF TagInv, WorkersTrue
  <1>r. /\ UNCHANGED <<tags, edge, taxonomy, runs, audited, submit, request, txn,
                       conflicted, mishaps, scene>>
        /\ handler[w].at = "idle" /\ tagItem[i].status = "pending"
    BY DEF ClaimItem, rows, adminVars
  <1>o. tagItem \in [TagItem -> Queued] /\ handler \in [Worker -> Handling]
    BY <1>t, TypesAsRows
  <1>k. k \in Nat /\ k + 1 \in 0..MaxAttempts
    BY <1>o, <1>r, <1>t, TaggingAssumption DEF ItemTrue, Queued
  <1>1. /\ tagItem' \in [TagItem -> Queued]
        /\ tagItem'[i] = [status |-> "processing", attempts |-> k + 1]
        /\ \A j \in TagItem : j # i => tagItem'[j] = tagItem[j]
    BY <1>k, <1>o DEF ClaimItem, Queued
  <1>2. /\ handler' \in [Worker -> Handling]
        /\ handler'[w] = [at |-> "classify", item |-> i, attempt |-> k + 1]
        /\ \A v \in Worker \ {w} : handler'[v] = handler[v]
    BY <1>k, <1>o DEF ClaimItem, Handling
  <1>3. TagTypeOK'
    BY <1>1, <1>2, <1>r, <1>t DEF TagTypeOK, Queued, Handling, RequestId
  <1>4. AnswersTrue' /\ AdminsTrue'
    BY <1>r, QueueKeepsAdmins DEF adminVars
  <1>5. \A v \in Worker : HandlerTrue(v)'
    <2> SUFFICES ASSUME NEW v \in Worker PROVE HandlerTrue(v)'
      OBVIOUS
    <2>1. CASE v = w
      BY <1>1, <1>2, <1>k, <2>1 DEF HandlerTrue, Protected
    <2>2. CASE v # w /\ handler[v].at # "idle"
      <3>1. /\ handler'[v] = handler[v] /\ HandlerTrue(v) /\ novel(v)' = novel(v)
            /\ handler[v].attempt \in Nat
        BY <1>2, <1>o, <2>2, TaggingAssumption DEF TagInv, WorkersTrue, novel, Handling
      <3>2. CASE handler[v].item = i
        <4>1. ~OwnsItem(v) /\ handler[v].attempt <= k
          BY <1>r, <2>2, <3>1, <3>2 DEF HandlerTrue, OwnsItem
        <4>2. handler[v].at \notin Protected /\ handler[v].at # "commit"
          BY <2>2, <3>1, <4>1 DEF HandlerTrue, Protected
        <4>3. QED BY <1>1, <1>k, <3>1, <3>2, <4>1, <4>2 DEF HandlerTrue
      <3>3. CASE handler[v].item # i
        BY <1>1, <1>r, <2>2, <3>1, <3>3 DEF HandlerTrue, OwnsItem
      <3>4. QED BY <3>2, <3>3
    <2>3. CASE v # w /\ handler[v].at = "idle"
      BY <1>2, <2>3 DEF HandlerTrue
    <2>4. QED BY <2>1, <2>2, <2>3
  <1>6. \A v \in Worker : v # w /\ handler[v].at # "idle" /\ handler[v].item = i =>
          handler[v].attempt # k + 1
    <2> SUFFICES ASSUME NEW v \in Worker, handler[v].at # "idle", handler[v].item = i
                 PROVE  handler[v].attempt # k + 1
      OBVIOUS
    <2>1. handler[v].attempt <= k /\ handler[v].attempt \in Nat
      BY <1>o, TaggingAssumption DEF TagInv, WorkersTrue, HandlerTrue, Handling
    <2>2. QED BY <1>k, <2>1
  <1>7. ASSUME NEW u \in Worker, NEW v \in Worker, u # v,
               handler'[u].at # "idle", handler'[v].at # "idle",
               handler'[u].item = handler'[v].item
        PROVE  handler'[u].attempt # handler'[v].attempt
    BY <1>2, <1>6, <1>7 DEF TagInv, WorkersTrue
  <1>8. \A j \in TagItem : ItemTrue(j)'
    BY <1>1, <1>r, <1>t DEF TagInv, WorkersTrue, ItemTrue
  <1>9. ASSUME NEW p \in Proc, NEW v \in Worker, txn'[p].at = "commit",
               handler'[v].at = "commit"
        PROVE  job(p)'.on # novel(v)'
    <2>1. v # w /\ handler'[v] = handler[v] /\ novel(v)' = novel(v)
      BY <1>2, <1>9 DEF novel
    <2>2. job(p)' = job(p)
      BY <1>r DEF job
    <2>3. QED BY <1>9, <1>r, <2>1, <2>2 DEF TagInv, WorkersTrue
  <1>10. WorkersTrue'
    BY <1>5, <1>7, <1>8, <1>9 DEF WorkersTrue
  <1>11. \A n \in Novel : NovelTrue(n)'
    BY <1>r DEF TagInv, NovelTrue, EditsOf
  <1>12. RunsTrue'
    BY <1>1, <1>r DEF TagInv, RunsTrue
  <1>13. QED BY <1>3, <1>4, <1>10, <1>11, <1>12 DEF TagInv

(* Items change, handlers do not: those that hold an item do so with the   *)
(* attempt that is still the item's.                                       *)
LEMMA ItemsKeep ==
  ASSUME TagInv, TagTypeOK', UNCHANGED <<rows, handler, adminVars>>,
         \A i \in TagItem : ItemTrue(i)',
         \A i \in TagItem :
           \/ tagItem'[i] = tagItem[i]
           \/ /\ tagItem[i].status # "success"
              /\ tagItem'[i].status \notin {"none", "success"}
              /\ \A w \in Worker : handler[w].at # "idle" /\ handler[w].item = i =>
                   /\ tagItem'[i].attempts = tagItem[i].attempts
                   /\ ~(handler[w].at \in Protected /\ OwnsItem(w))
  PROVE  TagInv'
  <1>r. UNCHANGED <<tags, edge, taxonomy, runs, audited, handler, request, txn,
                    conflicted>>
    BY DEF rows, adminVars
  <1>1. AnswersTrue' /\ AdminsTrue'
    BY <1>r, QueueKeepsAdmins
  <1>2. \A w \in Worker : HandlerTrue(w)'
    <2> SUFFICES ASSUME NEW w \in Worker, handler[w].at # "idle"
                 PROVE  HandlerTrue(w)'
      BY <1>r DEF HandlerTrue
    <2>1. HandlerTrue(w) /\ novel(w)' = novel(w) /\ handler[w].item \in TagItem
      BY <1>r DEF TagInv, WorkersTrue, HandlerTrue, novel
    <2>2. CASE tagItem'[handler[w].item] = tagItem[handler[w].item]
      BY <1>r, <2>1, <2>2 DEF HandlerTrue, OwnsItem
    <2>3. CASE tagItem'[handler[w].item] # tagItem[handler[w].item]
      <3>1. /\ tagItem'[handler[w].item].status # "none"
            /\ tagItem'[handler[w].item].attempts = tagItem[handler[w].item].attempts
            /\ ~(handler[w].at \in Protected /\ OwnsItem(w))
        BY <2>1, <2>3
      <3>2. QED BY <1>r, <2>1, <3>1 DEF HandlerTrue
    <2>4. QED BY <2>2, <2>3
  <1>3. \A p \in Proc, w \in Worker :
          txn'[p].at = "commit" /\ handler'[w].at = "commit" =>
            job(p)'.on # novel(w)'
    BY <1>r DEF TagInv, WorkersTrue, job, novel
  <1>4. WorkersTrue'
    BY <1>2, <1>3, <1>r DEF TagInv, WorkersTrue
  <1>5. \A n \in Novel : NovelTrue(n)'
    BY <1>r DEF TagInv, NovelTrue, EditsOf
  <1>6. RunsTrue'
    BY <1>r DEF TagInv, RunsTrue
  <1>7. QED BY <1>1, <1>4, <1>5, <1>6 DEF TagInv

LEMMA RecoverItemKeeps ==
  ASSUME TagInv, NEW i \in TagItem, RecoverItem(i)
  PROVE  TagInv'
  <1>t. TagTypeOK /\ tagItem \in [TagItem -> Queued]
    BY TypesAsRows DEF TagInv
  <1>r. /\ UNCHANGED <<rows, submit, handler, adminVars, mishaps, scene>>
        /\ tagItem[i].status = "processing"
    BY DEF RecoverItem
  <1>1. PICK s \in {"pending", "failed"} :
          /\ tagItem' = [tagItem EXCEPT ![i].status = s]
          /\ s = "pending" => tagItem[i].attempts < MaxAttempts
    BY DEF RecoverItem
  <1>2. /\ tagItem' \in [TagItem -> Queued]
        /\ tagItem'[i].status = s /\ tagItem'[i].attempts = tagItem[i].attempts
        /\ \A j \in TagItem : j # i => tagItem'[j] = tagItem[j]
    BY <1>1, <1>t DEF Queued
  <1>3. TagTypeOK'
    BY <1>2, <1>r, <1>t DEF TagTypeOK, Queued, RequestId, rows, adminVars
  <1>4. \A j \in TagItem : ItemTrue(j)'
    BY <1>1, <1>2, <1>r DEF TagInv, WorkersTrue, ItemTrue
  <1>5. \A w \in Worker : handler[w].item = i =>
          ~(handler[w].at \in Protected /\ OwnsItem(w))
    BY DEF RecoverItem, OwnsItem
  <1>6. \A j \in TagItem :
          \/ tagItem'[j] = tagItem[j]
          \/ /\ tagItem[j].status # "success"
             /\ tagItem'[j].status \notin {"none", "success"}
             /\ \A w \in Worker : handler[w].at # "idle" /\ handler[w].item = j =>
                  /\ tagItem'[j].attempts = tagItem[j].attempts
                  /\ ~(handler[w].at \in Protected /\ OwnsItem(w))
    BY <1>1, <1>2, <1>5, <1>r
  <1>7. QED BY <1>3, <1>4, <1>6, <1>r, ItemsKeep

LEMMA SubmissionKeeps ==
  ASSUME TagInv, NEW t \in Task, SubmitTask(t) \/ EnqueueTask(t)
  PROVE  TagInv'
  <1>t. /\ TagTypeOK /\ tagItem \in [TagItem -> Queued]
        /\ submit \in [Task -> [at : {"new", "authority", "done"}, expect : Nat]]
        /\ \A i \in TagItem : ItemTrue(i) /\ i[1] \in Task /\ i[2] \in Novel
    BY TypesAsRows DEF TagInv, WorkersTrue, TagItem
  <1>1. CASE SubmitTask(t)
    <2>1. /\ UNCHANGED <<rows, tagItem, handler, adminVars, mishaps, scene>>
          /\ submit[t].at = "new"
          /\ submit' = [submit EXCEPT ![t] = [at |-> "authority",
                                              expect |-> taxonomy.lexicon]]
      BY <1>1 DEF SubmitTask
    <2>2. taxonomy.lexicon \in Nat
      BY <1>t DEF TagTypeOK
    <2>3. submit' \in [Task -> [at : {"new", "authority", "done"}, expect : Nat]]
      BY <1>t, <2>1, <2>2
    <2>4. TagTypeOK'
      BY <1>t, <2>1, <2>3 DEF TagTypeOK, RequestId, rows, adminVars
    <2>5. \A u \in Task : submit'[u].at # "done" => submit[u].at # "done"
      BY <1>t, <2>1
    <2>6. \A i \in TagItem : ItemTrue(i)'
      BY <1>t, <2>1, <2>5 DEF ItemTrue
    <2>7. QED BY <2>1, <2>4, <2>6, ItemsKeep
  <1>2. CASE EnqueueTask(t)
    <2>1. /\ UNCHANGED <<rows, handler, adminVars, mishaps, scene>>
          /\ submit[t].at = "authority"
          /\ submit' = [submit EXCEPT ![t].at = "done"]
      BY <1>2 DEF EnqueueTask
    <2> DEFINE fresh == [status |-> "pending", attempts |-> 0]
    <2>2. /\ \A i \in TagItem : \/ tagItem'[i] = tagItem[i]
                                \/ i[1] = t /\ tagItem'[i] = fresh
          /\ tagItem' \in [TagItem -> Queued]
      <3>1. fresh \in Queued
        BY TaggingAssumption DEF Queued
      <3>2. QED BY <1>2, <1>t, <3>1 DEF EnqueueTask
    <2>3. submit' \in [Task -> [at : {"new", "authority", "done"}, expect : Nat]]
      BY <1>t, <2>1
    <2>4. TagTypeOK'
      BY <1>t, <2>1, <2>2, <2>3 DEF TagTypeOK, Queued, RequestId, rows, adminVars
    <2>5. /\ submit'[t].at = "done"
          /\ \A u \in Task : u # t => submit'[u] = submit[u]
      BY <1>t, <2>1
    <2>6. \A i \in TagItem : ItemTrue(i)'
      <3> SUFFICES ASSUME NEW i \in TagItem PROVE ItemTrue(i)'
        OBVIOUS
      <3>1. CASE tagItem'[i] = tagItem[i]
        BY <1>t, <2>5, <3>1 DEF ItemTrue
      <3>2. CASE i[1] = t /\ tagItem'[i] = fresh
        BY <2>5, <3>2, TaggingAssumption DEF ItemTrue
      <3>3. QED BY <2>2, <3>1, <3>2
    <2>7. ASSUME NEW i \in TagItem, i[1] = t
          PROVE  /\ tagItem[i].status = "none"
                 /\ \A w \in Worker : ~(handler[w].at # "idle" /\ handler[w].item = i)
      BY <1>t, <2>1, <2>7 DEF ItemTrue, TagInv, WorkersTrue, HandlerTrue
    <2>8. \A i \in TagItem :
            \/ tagItem'[i] = tagItem[i]
            \/ /\ tagItem[i].status # "success"
               /\ tagItem'[i].status \notin {"none", "success"}
               /\ \A w \in Worker : handler[w].at # "idle" /\ handler[w].item = i =>
                    /\ tagItem'[i].attempts = tagItem[i].attempts
                    /\ ~(handler[w].at \in Protected /\ OwnsItem(w))
      <3> SUFFICES ASSUME NEW i \in TagItem, i[1] = t, tagItem'[i] = fresh
                   PROVE  /\ tagItem[i].status # "success"
                          /\ tagItem'[i].status \notin {"none", "success"}
                          /\ \A w \in Worker :
                               ~(handler[w].at # "idle" /\ handler[w].item = i)
        BY <2>2
      <3>1. QED BY <2>7
    <2>9. QED BY <2>1, <2>4, <2>6, <2>8, ItemsKeep
  <1>3. QED BY <1>1, <1>2

-----------------------------------------------------------------------------
LEMMA TagInitially == TagInit => TagInv
  <1> SUFFICES ASSUME TagInit PROVE TagInv
    OBVIOUS
  <1>i. /\ request = <<>> /\ Len(request) = 0 /\ audited = {} /\ conflicted = {}
        /\ runs = {} /\ mishaps = 0 /\ scene \in Scenes
        /\ txn = [p \in Proc |-> Idle] /\ handler = [w \in Worker |-> Resting]
        /\ tags = [n \in Novel |-> [mode |-> "automatic", revision |-> 0,
                                    run |-> None, manual |-> 0]]
        /\ tagItem = [i \in TagItem |-> [status |-> "none", attempts |-> 0]]
        /\ submit = [t \in Task |-> [at |-> "new", expect |-> 0]]
    BY DEF TagInit
  <1>1. TagTypeOK
    <2>1. tags \in [Novel -> Tagged]
      BY <1>i DEF Tagged
    <2>2. edge \in [Edge -> Mapped]
      BY DEF TagInit, Mapped
    <2>3. taxonomy \in [version : Nat, lexicon : Nat, complete : BOOLEAN]
      BY DEF TagInit
    <2>4. /\ submit \in [Task -> [at : {"new", "authority", "done"}, expect : Nat]]
          /\ runs \subseteq TagItem
      BY <1>i
    <2>5. tagItem \in [TagItem -> Queued]
      BY <1>i, TaggingAssumption DEF Queued
    <2>6. handler \in [Worker -> Handling]
      BY <1>i, TaggingAssumption DEF Resting, Handling
    <2>7. request \in Seq(Requests)
      BY <1>i
    <2>8. txn \in [Proc -> Transaction(Len(request))]
      BY <1>i, IdleIsTxn
    <2>9. audited \subseteq 1..Len(request) /\ conflicted \subseteq 1..Len(request)
      BY <1>i
    <2>10. mishaps \in 0..scene.mishaps /\ scene \in Scenes
      BY <1>i, TaggingAssumption
    <2>11. QED BY <2>1, <2>2, <2>3, <2>4, <2>5, <2>6, <2>7, <2>8, <2>9, <2>10,
                  TypesAsRows
  <1>2. AnswersTrue /\ AdminsTrue
    BY <1>i DEF AnswersTrue, AdminsTrue, RequestsTrue, ConflictsTrue, ViewTrue,
                TxnTrue, Apart, Idle, InTransaction
  <1>3. WorkersTrue
    BY <1>i DEF WorkersTrue, HandlerTrue, ItemTrue, Resting, Idle, TagItem
  <1>4. \A n \in Novel : NovelTrue(n)
    <2>1. \A n \in Novel : EditsOf(n) = {}
      BY <1>i DEF EditsOf
    <2>2. QED BY <1>i, <2>1, FS_EmptySet DEF NovelTrue
  <1>5. RunsTrue
    BY <1>i DEF RunsTrue
  <1>6. QED BY <1>1, <1>2, <1>3, <1>4, <1>5 DEF TagInv

(* What a step may write: nothing but what was seen.                       *)
NothingUnseen ==
  /\ \A r \in audited' \ audited : ~Unseen(request[r])
  /\ \A n \in Novel : tags'[n].run # tags[n].run =>
       tags[n].mode = "automatic" /\ tags'[n].mode = "automatic"

LEMMA TagStep ==
  ASSUME TagInv, TagNext
  PROVE  TagInv' /\ NothingUnseen
  <1>1. ASSUME NEW p \in Proc, AdminNext(p)
        PROVE  TagInv' /\ NothingUnseen
    <2>1. CASE \/ Look(p) \/ Send(p) \/ SendAgain(p) \/ Die(p) \/ LockRequest(p)
               \/ LockNovel(p) \/ ReadEdge(p) \/ LockEdge(p)
      <3>1. TagInv'
        BY <2>1, LookKeeps, SendKeeps, SendAgainKeeps, DieKeeps, LockRequestKeeps,
           LockNovelKeeps, ReadEdgeKeeps, LockEdgeKeeps
      <3>2. UNCHANGED <<tags, audited>>
        BY <2>1 DEF Look, Send, SendAgain, Die, LockRequest, LockNovel, ReadEdge,
                    LockEdge, rows
      <3>3. QED BY <3>1, <3>2 DEF NothingUnseen
    <2>2. CASE replaceManualTagSnapshot(p) \/ exitManualTagMode(p)
      <3>1. TagInv' /\ ~Unseen(request[txn[p].id])
        BY <2>2, ReplaceKeeps
      <3>2. audited' = audited \cup {txn[p].id}
        BY <2>2 DEF replaceManualTagSnapshot, exitManualTagMode, Commits
      <3>3. \A n \in Novel : tags'[n].run = tags[n].run
        <4>1. tags \in [Novel -> Tagged]
          BY TypesAsRows DEF TagInv
        <4>2. QED BY <2>2, <4>1 DEF replaceManualTagSnapshot, exitManualTagMode,
                                    Tagged
      <3>4. QED BY <3>1, <3>2, <3>3 DEF NothingUnseen
    <2>3. CASE ApproveEdge(p) \/ DeactivateEdge(p)
      <3>1. TagInv' /\ ~Unseen(request[txn[p].id])
        BY <2>3, EdgeEditKeeps
      <3>2. audited' = audited \cup {txn[p].id} /\ UNCHANGED tags
        BY <2>3 DEF ApproveEdge, DeactivateEdge, Commits
      <3>3. QED BY <3>1, <3>2 DEF NothingUnseen
    <2>4. CASE mutateAdminCanonicalTag(p)
      <3>1. UNCHANGED tags
        BY <2>4 DEF mutateAdminCanonicalTag
      <3>2. QED BY <2>4, <3>1, TaxonomyKeeps DEF NothingUnseen
    <2>5. QED BY <1>1, <2>1, <2>2, <2>3, <2>4 DEF AdminNext
  <1>2. ASSUME NEW t \in Task, SubmitTask(t) \/ EnqueueTask(t)
        PROVE  TagInv' /\ NothingUnseen
    <2>1. UNCHANGED <<tags, audited>>
      BY <1>2 DEF SubmitTask, EnqueueTask, rows
    <2>2. QED BY <1>2, <2>1, SubmissionKeeps DEF NothingUnseen
  <1>3. ASSUME NEW w \in Worker, WorkerNext(w)
        PROVE  TagInv' /\ NothingUnseen
    <2>1. CASE \/ WorkerDies(w) \/ Classify(w) \/ Finish(w) \/ Fence(w)
               \/ ReadSnapshot(w) \/ ReadAuthority(w)
      <3>1. UNCHANGED <<tags, audited>>
        BY <2>1 DEF WorkerDies, Classify, Finish, Fence, ReadSnapshot,
                    ReadAuthority, rows
      <3>2. QED BY <2>1, <3>1, HandlerStepsKeep DEF NothingUnseen
    <2>2. CASE LockState(w)
      <3>1. UNCHANGED <<tags, audited>>
        BY <2>2 DEF LockState, rows
      <3>2. QED BY <2>2, <3>1, LockStateKeeps DEF NothingUnseen
    <2>3. CASE replaceAutoTagSnapshotInTransaction(w)
      BY <2>3, ReplaceAutoKeeps DEF NothingUnseen
    <2>4. ASSUME NEW i \in TagItem, ClaimItem(w, i)
          PROVE  TagInv' /\ NothingUnseen
      <3>1. UNCHANGED <<tags, audited>>
        BY <2>4 DEF ClaimItem, rows
      <3>2. QED BY <2>4, <3>1, ClaimItemKeeps DEF NothingUnseen
    <2>5. QED BY <1>3, <2>1, <2>2, <2>3, <2>4 DEF WorkerNext
  <1>4. ASSUME NEW i \in TagItem, RecoverItem(i)
        PROVE  TagInv' /\ NothingUnseen
    <2>1. UNCHANGED <<tags, audited>>
      BY <1>4 DEF RecoverItem, rows
    <2>2. QED BY <1>4, <2>1, RecoverItemKeeps DEF NothingUnseen
  <1>5. QED BY <1>1, <1>2, <1>3, <1>4 DEF TagNext

LEMMA TagStutters ==
  ASSUME TagInv, UNCHANGED tagVars
  PROVE  TagInv' /\ NothingUnseen
  <1>r. UNCHANGED <<tags, edge, taxonomy, submit, tagItem, runs, handler, request,
                    txn, audited, conflicted, mishaps, scene>>
    BY DEF tagVars, rows, queueVars, adminVars
  <1>1. TagTypeOK'
    BY <1>r DEF TagInv, TagTypeOK, RequestId
  <1>2. AnswersTrue' /\ AdminsTrue'
    BY <1>r, QueueKeepsAdmins DEF adminVars
  <1>3. TagInv'
    BY <1>r, <1>1, ItemsKeep DEF TagInv, WorkersTrue, ItemTrue, rows, adminVars
  <1>4. QED BY <1>3, <1>r DEF NothingUnseen

(* The conjunction is an invariant of the specification.                   *)
THEOREM TagInvariant == TagSpec => []TagInv
  <1>1. TagInit => TagInv
    BY TagInitially
  <1>2. TagInv /\ [TagNext]_tagVars => TagInv'
    BY TagStep, TagStutters
  <1>3. QED BY <1>1, <1>2, PTL DEF TagSpec

(* Every accepted edit is one revision and one audit row, manual rows are  *)
(* those of the last accepted edit, an item has succeeded exactly if its   *)
(* run is there, and no request was both applied and answered with a       *)
(* conflict (replaceManualTagSnapshot, replaceAutoTagSnapshotInTransaction *)
(* and lockRequest), for all sets of administrators and workers.           *)
THEOREM RecordsAlwaysAgree == TagSpec => []RecordsAgree
  <1>1. TagInv => RecordsAgree
    BY DEF TagInv, RecordsAgree, NovelTrue, RunsTrue
  <1>2. QED BY <1>1, TagInvariant, PTL

(* Nobody writes over tags that have changed behind him: an accepted edit  *)
(* replaces what its administrator saw, an approval may at most undo a     *)
(* deactivation, and a classification leaves a novel that was taken over   *)
(* (the comparisons under lockNovelAndState and in mutateAdmin...).        *)
THEOREM NothingWrittenBlind == TagSpec => NoBlindWrite
  <1>1. TagInv /\ [TagNext]_tagVars => [NothingUnseen]_tagVars
    BY TagStep
  <1>2. TagSpec => [][NothingUnseen]_tagVars
    BY <1>1, TagInvariant, PTL DEF TagSpec
  <1>3. QED BY <1>2 DEF NoBlindWrite, NothingUnseen
=============================================================================
