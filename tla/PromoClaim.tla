------------------------------ MODULE PromoClaim ------------------------------
(***************************************************************************)
(* The promo-link claim: one PromoLink scope (source item, app, account,   *)
(* offer: the idempotencyKey), the task items that ask for it, and the     *)
(* side-effect intents that stand between them and the upstream mutation   *)
(* getcode, whose idempotency nobody has verified.                         *)
(*                                                                         *)
(* One action is one committed transaction, one upstream call, or one      *)
(* decision between two awaits of worker/handlers/promo-link-claim.ts.  A  *)
(* run of the handler is named by its effect key, the item and the attempt *)
(* (buildAttemptEffectKey), so the two runs of an item that was recovered  *)
(* while its first handler still hung, and was then retried, are two keys. *)
(*                                                                         *)
(* Each item is the one item of its own generic_task, which is open        *)
(* (pending or processing), paused, halted (aborted by an administrator,   *)
(* held by the system) or ended.  The queue is TaskQueue's, reduced to     *)
(* what this handler can tell: time is free, so a lease may be recovered   *)
(* at any moment and a fenced write refused at any moment.                 *)
(***************************************************************************)
EXTENDS Naturals, FiniteSets

CONSTANTS
  Item,        \* claim items for this scope, each with its task
  Selection,   \* operationScopeHashes: the selections that hold this scope
  MaxRuns,     \* bound: handler runs over all the items, further selections
               \* and tasks paused or aborted, together
  NoKey         \* no intent is aimed at

\* The definitions named ...Mutant are faulty variants of the definition that
\* follows them; nothing uses them but the runs that show each property can
\* fail.
Key == [item : Item, attempt : 1..MaxRuns]

ASSUME ClaimAssumption ==
  /\ IsFiniteSet(Item)
  /\ MaxRuns \in Nat \ {0}
  /\ NoKey \notin Key

VARIABLES
  item,         \* the item rows: status and attempt_count
  selection,    \* the selection of each item's task, empty before it is sent
  submitting,   \* submissions past the overlap precheck
  task,         \* the status of each item's task, recompute included
  run,          \* the handler run of each key
  intent,       \* side_effect_intent rows
  born,         \* createdAt rank of each intent
  link,         \* promo_link.status
  promo,        \* upstream has a promo code for this scope
  sent,         \* keys whose getcode request went out
  landed,       \* of those, the requests upstream acted on
  refused,      \* of those, the requests upstream definitely rejected
  adjudicated,  \* intents an administrator resolved
  \* What happened, for the properties.
  together,     \* pairs of items that were being processed at once
  detached      \* items whose task was paused or aborted while they were

queue == <<item, selection, submitting, task, together, detached>>
upstream == <<promo, sent, landed, refused>>
vars == <<queue, run, intent, born, link, upstream, adjudicated>>

Unresolved == {"prepared", "claim_retry_blocked", "manual_review_required"}
IntentStatus == Unresolved \cup {"none", "confirmed", "failed"}
LinkStatus == {"none", "pending", "failed", "registered_disabled", "fetched"}
ItemStatus == {"none", "pending", "processing", "success", "failed", "skipped"}
TaskStatus == {"none", "open", "paused", "halted", "ended"}

(* What a run hands to the finalize transaction: claimed confirms the      *)
(* intent of aim together with the link; available and reconciled do not.  *)
Decision == {"claimed", "available", "reconciled", "capability_disabled",
             "manual_review", "claim_failed", "failed", "hold", "skipped"}
Step == {"none", "scope", "prior_intent", "pre_read", "prepare", "ownership",
         "claim", "answer", "readback", "block", "review", "fail",
         "finalize", "done"}

NoRun == [at |-> "none", aim |-> NoKey, known |-> "none",
          decision |-> "failed"]

Intents == {k \in Key : intent[k] # "none"}
With(statuses) == {k \in Key : intent[k] \in statuses}

\* The item's task is in the active-scope unique index.  A task that was
\* paused, or aborted, is not, though its item may be in flight.
Active(i) == task[i] = "open"

\* recomputeParentTask when the item has ended.
Ended(i) == [task EXCEPT ![i] = IF @ = "open" THEN "ended" ELSE @]

(* The lease of this run is still the item's: no recovery since its claim. *)
Owns(k) ==
  item[k.item].status = "processing" /\ item[k.item].attempts = k.attempt

Go(k, step) == run' = [run EXCEPT ![k].at = step]
End(k) == run' = [run EXCEPT ![k] = [NoRun EXCEPT !.at = "done"]]

\* A decision to finalize with; claimed confirms the intent of key a.
DecideFor(k, d, a) ==
  run' = [run EXCEPT ![k] = [NoRun EXCEPT !.at = "finalize", !.aim = a,
                                          !.decision = d]]
Decide(k, d) == DecideFor(k, d, NoKey)

\* To read back for the intent of key a, last seen with this status.
ReadbackFor(k, a, status) ==
  run' = [run EXCEPT ![k].at = "readback", ![k].aim = a, ![k].known = status]
-----------------------------------------------------------------------------
Init ==
  /\ item = [i \in Item |-> [status |-> "none", attempts |-> 0]]
  /\ selection = [i \in Item |-> {}]
  /\ submitting = {}
  /\ task = [i \in Item |-> "none"]
  /\ together = {}
  /\ detached = {}
  /\ run = [k \in Key |-> NoRun]
  /\ intent = [k \in Key |-> "none"]
  /\ born = [k \in Key |-> 0]
  /\ link = "none"
  /\ promo = FALSE
  /\ sent = {}
  /\ landed = {}
  /\ refused = {}
  /\ adjudicated = {}

Selections == {selection[i] : i \in Item} \ {{}}
Aside == {i \in Item : task[i] \in {"paused", "halted"}} \cup detached
Spent == Cardinality({k \in Key : run[k].at # "none"}) + Cardinality(Aside)
           + IF Selections = {} THEN 0 ELSE Cardinality(Selections) - 1

(* createPromoLinkClaimTask, up to the reads outside its transaction: the  *)
(* identical-selection check and the overlap precheck.                     *)
Precheck(i) ==
  /\ item[i].status = "none"
  /\ i \notin submitting
  /\ ~\E j \in Item : Active(j)
  /\ submitting' = submitting \cup {i}
  /\ \E s \in Selection :
       /\ {s} \notin Selections /\ Selections # {} => Spent < MaxRuns
       /\ selection' = [selection EXCEPT ![i] = {s}]
  /\ UNCHANGED <<item, task, together, detached, run, intent, born, link,
                 upstream, adjudicated>>

SameSelectionActive(i) ==
  \E j \in Item \ {i} : Active(j) /\ selection[j] = selection[i]

(* Its transaction: generic_task_active_scope_uidx admits one active task  *)
(* per selection; a violation is answered as a conflict.                   *)
createPromoLinkClaimTask(i) ==
  /\ i \in submitting
  /\ submitting' = submitting \ {i}
  /\ IF SameSelectionActive(i) THEN UNCHANGED <<item, task>>
     ELSE /\ item' = [item EXCEPT ![i].status = "pending"]
          /\ task' = [task EXCEPT ![i] = "open"]
  /\ UNCHANGED <<selection, together, detached, run, intent, born, link,
                 upstream, adjudicated>>

(* claimPendingItem, and the handler starts.                               *)
Claim(i) ==
  /\ item[i].status = "pending"
  /\ task[i] = "open"
  /\ Spent < MaxRuns
  /\ item' = [item EXCEPT ![i] = [status |-> "processing",
                                  attempts |-> @.attempts + 1]]
  /\ Go([item |-> i, attempt |-> item[i].attempts + 1], "scope")
  /\ together' = together \cup
       {{i, j} : j \in {j \in Item : item[j].status = "processing"}}
  /\ UNCHANGED <<selection, submitting, task, detached, intent, born, link,
                 upstream, adjudicated>>

(* recoverExpiredItem: maxAttempts is 1, so the item fails.  The handler,  *)
(* if its process still lives, goes on.                                    *)
Recover(i) ==
  /\ item[i].status = "processing"
  /\ item' = [item EXCEPT ![i].status = "failed"]
  /\ task' = Ended(i)
  /\ UNCHANGED <<selection, submitting, together, detached, run, intent, born,
                 link, upstream, adjudicated>>

(* The process dies, or the handler throws and so does its finalization.   *)
Crash(k) ==
  /\ run[k].at \notin {"none", "done"}
  /\ End(k)
  /\ UNCHANGED <<queue, intent, born, link, upstream, adjudicated>>

(* loadClaimScope and the decisions taken from it alone: failed (expired,  *)
(* no scope, no request fields), skipped (dry run), a fetched link whose   *)
(* binding is reconciled, a disabled capability, hold (a bad credential).  *)
loadClaimScope(k) ==
  /\ run[k].at = "scope"
  /\ \/ Decide(k, "failed")
     \/ Decide(k, "skipped")
     \/ link = "fetched" /\ Decide(k, "reconciled")
     \/ /\ link # "fetched"
        /\ \/ Decide(k, "capability_disabled")
           \/ Decide(k, "hold")
           \/ Go(k, "prior_intent")
  /\ UNCHANGED <<queue, intent, born, link, upstream, adjudicated>>

(* The newest intent for this scope that is not failed decides: manual     *)
(* review stays there, anything else is read back, none may claim.         *)
PriorIntent(k) ==
  LET prior == With(Unresolved \cup {"confirmed"})
  IN /\ run[k].at = "prior_intent"
     /\ \/ /\ prior = {}
           /\ Go(k, "pre_read")
        \/ \E a \in prior :
             /\ \A b \in prior : born[b] <= born[a]
             /\ IF intent[a] = "manual_review_required"
                  THEN Decide(k, "manual_review")
                  ELSE ReadbackFor(k, a, intent[a])
     /\ UNCHANGED <<queue, intent, born, link, upstream, adjudicated>>

(* The read-only guard: an existing promo needs no mutation, and an error  *)
(* or an unlocated target fails the item.                                  *)
PreRead(k) ==
  /\ run[k].at = "pre_read"
  /\ \/ promo /\ Decide(k, "available")
     \/ Decide(k, "failed")
     \/ Go(k, "prepare")
  /\ UNCHANGED <<queue, intent, born, link, upstream, adjudicated>>

prepareSideEffectIntent(k) ==
  /\ run[k].at = "prepare"
  /\ intent' = [intent EXCEPT ![k] = "prepared"]
  /\ born' = [born EXCEPT ![k] = Cardinality(Intents) + 1]
  /\ Go(k, "ownership")
  /\ UNCHANGED <<queue, link, upstream, adjudicated>>

OwnershipMutant(k) ==                   \* the signal alone is believed
  /\ run[k].at = "ownership"
  /\ Go(k, "claim") \/ Decide(k, "failed")
  /\ UNCHANGED <<queue, intent, born, link, upstream, adjudicated>>

(* The heartbeat just before the mutation; it, or the signal, may also     *)
(* refuse a run that still owns its item.                                  *)
Ownership(k) ==
  /\ run[k].at = "ownership"
  /\ \/ Owns(k) /\ Go(k, "claim")
     \/ Decide(k, "failed")
  /\ UNCHANGED <<queue, intent, born, link, upstream, adjudicated>>

(* claimPromo: the getcode request goes out.                               *)
claimPromo(k) ==
  /\ run[k].at = "claim"
  /\ sent' = sent \cup {k}
  /\ Go(k, "answer")
  /\ UNCHANGED <<queue, intent, born, link, promo, landed, refused,
                 adjudicated>>

(* Upstream acts on a request, before or after the caller has given up.    *)
Land(k) ==
  /\ k \in sent \ (landed \cup refused)
  /\ landed' = landed \cup {k}
  /\ promo' = TRUE
  /\ UNCHANGED <<queue, run, intent, born, link, sent, refused, adjudicated>>

AnswerMutant(k) ==                      \* a timeout counts as a refusal
  /\ run[k].at = "answer"
  /\ \/ /\ ReadbackFor(k, k, "prepared")
        /\ UNCHANGED refused
     \/ /\ Go(k, "fail")
        /\ UNCHANGED refused
  /\ UNCHANGED <<queue, intent, born, link, promo, sent, landed, adjudicated>>

(* The answer: a promo or an ambiguous error is read back, a definite      *)
(* refusal (a 4xx but 408 and 429) fails the intent.                       *)
Answer(k) ==
  /\ run[k].at = "answer"
  /\ \/ /\ ReadbackFor(k, k, "prepared")
        /\ UNCHANGED refused
     \/ /\ k \notin landed
        /\ refused' = refused \cup {k}
        /\ Go(k, "fail")
  /\ UNCHANGED <<queue, intent, born, link, promo, sent, landed, adjudicated>>

(* The bounded readback.  A promo may stay invisible however often it is   *)
(* looked for, and an error or another code count as not found.            *)
Readback(k) ==
  /\ run[k].at = "readback"
  /\ \/ /\ promo
        /\ IF run[k].known = "confirmed" THEN Decide(k, "available")
           ELSE DecideFor(k, "claimed", run[k].aim)
     \/ /\ run[k].known = "prepared"
        /\ Go(k, "block")
     \/ /\ run[k].known = "claim_retry_blocked"
        /\ Go(k, "review")
     \/ /\ run[k].known = "confirmed"
        /\ Decide(k, "manual_review")
  /\ UNCHANGED <<queue, intent, born, link, upstream, adjudicated>>

isAllowedSideEffectTransition(current, next) ==
  \/ current = "prepared" /\ next \in {"confirmed", "failed",
                                       "claim_retry_blocked"}
  \/ current = "claim_retry_blocked" /\ next = "manual_review_required"

(* One transition of the aimed intent; an illegal one throws, and the item *)
(* is finalized as failed.                                                 *)
transitionSideEffectIntent(k, a, next, then) ==
  \/ /\ isAllowedSideEffectTransition(intent[a], next)
     /\ intent' = [intent EXCEPT ![a] = next]
     /\ then
  \/ /\ ~isAllowedSideEffectTransition(intent[a], next)
     /\ Decide(k, "failed")
     /\ UNCHANGED intent

(* routeIntentToManualReview, and its twin after a claim: two commits.     *)
Block(k) ==
  /\ run[k].at = "block"
  /\ transitionSideEffectIntent(k, run[k].aim, "claim_retry_blocked",
                                Go(k, "review"))
  /\ UNCHANGED <<queue, born, link, upstream, adjudicated>>

Review(k) ==
  /\ run[k].at = "review"
  /\ transitionSideEffectIntent(k, run[k].aim, "manual_review_required",
                                Decide(k, "manual_review"))
  /\ UNCHANGED <<queue, born, link, upstream, adjudicated>>

Fail(k) ==
  /\ run[k].at = "fail"
  /\ transitionSideEffectIntent(k, k, "failed", Decide(k, "claim_failed"))
  /\ UNCHANGED <<queue, born, link, upstream, adjudicated>>

(* The protected write of each decision.                                   *)
Written(d) ==
  CASE d \in {"claimed", "available"} -> "fetched"
    [] d = "manual_review" -> "pending"
    [] d = "claim_failed" -> "failed"
    [] d = "capability_disabled" -> "registered_disabled"
    [] OTHER -> link

ItemResult(d) ==
  CASE d \in {"failed", "claim_failed", "hold"} -> "failed"
    [] d = "skipped" -> "skipped"
    [] OTHER -> "success"

(* maybeHaltTaskOnGlobalFailure disables a task that is open.              *)
Held(i, d) == IF d = "hold" /\ task[i] = "open"
              THEN [task EXCEPT ![i] = "halted"] ELSE Ended(i)

ConfirmableMutant(a) == TRUE            \* confirms whatever it finds

Confirmable(a) == intent[a] \in {"prepared", "claim_retry_blocked"}

(* finalizeTaskItem commits: the item, the link or the system hold and,    *)
(* for a claimed one, confirmSideEffectIntentByReadbackInTransaction.      *)
Finalize(k) ==
  LET d == run[k].decision
      a == run[k].aim
  IN /\ run[k].at = "finalize"
     /\ Owns(k)
     /\ d = "claimed" => Confirmable(a)
     /\ item' = [item EXCEPT ![k.item].status = ItemResult(d)]
     /\ link' = Written(d)
     /\ intent' = IF d = "claimed" THEN [intent EXCEPT ![a] = "confirmed"]
                  ELSE intent
     /\ task' = Held(k.item, d)
     /\ End(k)
     /\ UNCHANGED <<selection, submitting, together, detached, born, upstream,
                    adjudicated>>

(* LeaseLostError: the result is dropped.                                  *)
FinalizeRefused(k) ==
  /\ run[k].at = "finalize"
  /\ End(k)
  /\ UNCHANGED <<queue, intent, born, link, upstream, adjudicated>>

(* It throws anything else (the confirmation's own check included) and     *)
(* rolls back; handleFinalizeFailure finalizes the item as failed.         *)
FinalizeThrows(k) ==
  /\ run[k].at = "finalize"
  /\ run[k].decision # "failed"
  /\ Decide(k, "failed")
  /\ UNCHANGED <<queue, intent, born, link, upstream, adjudicated>>

(* The catalog scan sees the promo in its page and records it              *)
(* (persistExistingCatalogPromo).                                          *)
persistExistingCatalogPromo ==
  /\ promo
  /\ link # "fetched"
  /\ link' = "fetched"
  /\ UNCHANGED <<queue, run, intent, born, upstream, adjudicated>>
-----------------------------------------------------------------------------
(* Administrator operations.                                               *)
retryFailedTask(i) ==
  /\ item[i].status = "failed"
  /\ task[i] = "ended"
  /\ item[i].attempts < MaxRuns
  /\ ~SameSelectionActive(i)
  /\ With(Unresolved) = {}
  /\ item' = [item EXCEPT ![i].status = "pending"]
  /\ task' = [task EXCEPT ![i] = "open"]
  /\ UNCHANGED <<selection, submitting, together, detached, run, intent, born,
                 link, upstream, adjudicated>>

resolveManualReview(k, resolution) ==
  /\ intent[k] = "manual_review_required"
  /\ intent' = [intent EXCEPT ![k] = resolution]
  /\ adjudicated' = adjudicated \cup {k}
  /\ UNCHANGED <<queue, run, born, link, upstream>>

Detach(i) == detached' = IF item[i].status = "processing"
                         THEN detached \cup {i} ELSE detached

(* A pending item waits; one in flight runs on.                            *)
pauseTask(i) ==
  /\ task[i] = "open"
  /\ Spent < MaxRuns
  /\ task' = [task EXCEPT ![i] = "paused"]
  /\ Detach(i)
  /\ UNCHANGED <<item, selection, submitting, together, run, intent, born, link,
                 upstream, adjudicated>>

(* The index refuses it while the selection is active again.               *)
resumeTask(i) ==
  /\ task[i] = "paused"
  /\ ~SameSelectionActive(i)
  /\ task' = [task EXCEPT ![i] = "open"]
  /\ UNCHANGED <<item, selection, submitting, together, detached, run, intent,
                 born, link, upstream, adjudicated>>

(* A pending item is skipped; one in flight runs on.                       *)
abortTask(i) ==
  /\ task[i] \in {"open", "paused"}
  /\ i \in Aside \/ Spent < MaxRuns
  /\ task' = [task EXCEPT ![i] = "halted"]
  /\ item' = IF item[i].status = "pending"
               THEN [item EXCEPT ![i].status = "skipped"] ELSE item
  /\ Detach(i)
  /\ UNCHANGED <<selection, submitting, together, run, intent, born, link,
                 upstream, adjudicated>>
-----------------------------------------------------------------------------
RunStep(k) ==
  \/ loadClaimScope(k) \/ PriorIntent(k) \/ PreRead(k)
  \/ prepareSideEffectIntent(k) \/ Ownership(k)
  \/ claimPromo(k) \/ Answer(k) \/ Readback(k)
  \/ Block(k) \/ Review(k) \/ Fail(k)
  \/ Finalize(k) \/ FinalizeRefused(k) \/ FinalizeThrows(k)
  \/ Crash(k)

Next ==
  \/ \E i \in Item :
       \/ Precheck(i) \/ createPromoLinkClaimTask(i)
       \/ Claim(i) \/ Recover(i)
       \/ retryFailedTask(i)
       \/ pauseTask(i) \/ resumeTask(i) \/ abortTask(i)
  \/ \E k \in Key : RunStep(k) \/ Land(k)
  \/ \E k \in Key, r \in {"confirmed", "failed"} : resolveManualReview(k, r)
  \/ persistExistingCatalogPromo

Spec == Init /\ [][Next]_vars
-----------------------------------------------------------------------------
(* Type invariant.  A run that reads back or moves an intent aims at one.  *)
TypeOK ==
  /\ item \in [Item -> [status : ItemStatus, attempts : 0..MaxRuns]]
  /\ selection \in [Item -> {{}} \cup {{s} : s \in Selection}]
  /\ submitting \subseteq Item
  /\ task \in [Item -> TaskStatus]
  /\ together \subseteq SUBSET Item /\ detached \subseteq Item
  /\ run \in [Key -> [at : Step, aim : Key \cup {NoKey},
                      known : IntentStatus, decision : Decision]]
  /\ intent \in [Key -> IntentStatus]
  /\ born \in [Key -> 0..Cardinality(Key)]
  /\ link \in LinkStatus
  /\ promo \in BOOLEAN
  /\ landed \subseteq sent /\ refused \subseteq sent /\ sent \subseteq Key
  /\ adjudicated \subseteq Key
  /\ \A k \in Key : run[k].at \in {"readback", "block", "review"} =>
                      run[k].aim \in Key /\ intent[run[k].aim] # "none"

(* The contract of getcode: it is sent at most once per scope, whatever    *)
(* crashed, hung, was recovered, retried or submitted again in between.  A *)
(* second request needs the first one's intent settled as failed, that is  *)
(* a definite refusal or an administrator who found no effect, or the two  *)
(* items were being processed at once.  And that happens only to tasks     *)
(* whose selections are not the same, which the index does not compare, or *)
(* to one that was paused or aborted with its item in flight, which it     *)
(* does not see.                                                           *)
(* (MOBOREADER_PROMO_CLAIM_CONTRACT_2026-08-31.md: "getcode at most once"; *)
(* handler registration: a fresh task can never reach the mutation again.) *)
GetcodeOnce ==
  /\ \A j, k \in sent :
       \/ j = k
       \/ intent[j] = "failed" \/ intent[k] = "failed"
       \/ {j.item, k.item} \in together
  /\ \A p \in together :
       \E i, j \in p : selection[i] # selection[j] \/ i \in detached

EffectRemembered ==
  \A k \in sent \ refused :
    intent[k] \in Unresolved \cup {"confirmed"} \/ k \in adjudicated

ConfirmedIsFetched ==
  together = {} => \A k \in With({"confirmed"}) \ adjudicated : link = "fetched"

(* The intents tell what became of the requests.  An effect is never       *)
(* forgotten: while upstream has acted on a request, or still may, its     *)
(* intent is open or confirmed, unless an administrator settled it.  And a *)
(* confirmation and the business row it stands for are one transaction: an *)
(* intent the worker confirmed has its PromoLink fetched, then and ever    *)
(* after, as long as no two items were being processed at once             *)
(* (side-effect-intent.ts, promo-link-claim.ts).                           *)
IntentsTrue == TypeOK /\ EffectRemembered /\ ConfirmedIsFetched

(* Settled intents are final, and only an administrator takes one out of   *)
(* manual review, even against a run that read it earlier.                 *)
ReviewIsAdmins ==
  [][\A k \in Key :
       intent[k] \in {"manual_review_required", "confirmed", "failed"}
         /\ intent'[k] # intent[k] =>
           /\ intent[k] = "manual_review_required"
           /\ k \in adjudicated' \ adjudicated]_vars
=============================================================================
