-------------------------------- MODULE Tagging --------------------------------
(***************************************************************************)
(* Tags of novels: administrators who replace or give up a manual set of   *)
(* tags, approve or deactivate mapping edges and edit the taxonomy, and    *)
(* the classification items that replace the automatic set.                *)
(*                                                                         *)
(* An administrator looks at an object, then sends a request that names    *)
(* the version looked at: the revision of the novel's tag state, or the    *)
(* updatedAt of an edge or a canonical tag (two edits never have the same  *)
(* millisecond).  A request id is a position in request.  Every request    *)
(* is one READ COMMITTED transaction, and so is an item's protected        *)
(* write; one action is what it does up to the next lock it may wait for   *)
(* or the next read that another may overtake, and its writes appear when  *)
(* it commits.  The locks held follow from where the transactions are.     *)
(*                                                                         *)
(* Tags are told apart only by who wrote them: the request of a manual     *)
(* set, the item of an automatic one (its classificationRequestId).  The   *)
(* taxonomy is one canonical tag that is edited: it is complete while that *)
(* tag is active, and its lexicon says which keywords all tags have.       *)
(* Titles, descriptions and source identities stay as they are.            *)
(* The queue is claim, recovery and fence, with free time (TaskQueue).     *)
(***************************************************************************)
EXTENDS Naturals, Sequences, FiniteSets

CONSTANTS
  Novel, Edge,
  Task,          \* request tokens of classification tasks
  Lifecycle,     \* of each task
  Worker,        \* handlers at work at once
  Proc,          \* administrators' requests at work at once
  MaxAttempts,   \* registration.maxAttempts
  Scenes,        \* bounds, chosen together: the tasks submitted, the edges
                 \* there are, the kinds of requests and how many, and how
                 \* many processes die or requests are sent again
  None           \* no run, no item

TagItem == Task \X Novel
Kind == {"replace", "exit", "approve", "deactivate", "keywords", "status"}
Taxonomy == "taxonomy"

ASSUME TaggingAssumption ==
  /\ Lifecycle \in [Task -> {"initialize_missing", "reclassify_existing"}]
  /\ MaxAttempts \in Nat \ {0}
  /\ Scenes \subseteq [tasks : SUBSET Task, edges : SUBSET Edge,
                       kinds : SUBSET Kind, requests : Nat, mishaps : Nat]
  /\ None \notin TagItem
  /\ Novel \cap Edge = {} /\ Taxonomy \notin Novel \cup Edge

VARIABLES
  tags,      \* novel_tag_state, and who wrote the novel's manual rows (0: none)
  edge,      \* source_label_mapping rows; version 0: there is none
  taxonomy,  \* canonical_tag and its keywords
  submit,    \* createTaggingAutoClassifyTask, per token
  tagItem,   \* generic_task_item rows
  runs,      \* items with a tag_classification_run row
  handler,   \* what each worker's handler is doing
  request,   \* the administrators' requests
  txn,       \* what each process has read and where it is
  audited,   \* request ids with an operation_audit row
  conflicted, \* request ids that were answered with a conflict
  mishaps, scene

adminVars == <<request, txn, conflicted>>
queueVars == <<submit, tagItem, handler>>
rows == <<tags, edge, taxonomy, runs, audited>>
tagVars == <<rows, queueVars, adminVars, mishaps, scene>>

About(kind) == CASE kind \in {"replace", "exit"} -> Novel
                 [] kind \in {"approve", "deactivate"} -> Edge
                 [] OTHER -> {Taxonomy}

Requests == [kind : Kind, on : Novel \cup Edge \cup {Taxonomy},
             base : Nat,    \* expectedRevision, expectedUpdatedAt
             seen : Nat]    \* the manual rows the administrator looked at

Idle == [at |-> "idle", id |-> 0, kind |-> "exit", on |-> Taxonomy, base |-> 0,
         manual |-> FALSE]
Resting == [at |-> "idle", item |-> None, attempt |-> 0]

job(p) == request[txn[p].id]
Proceed(p, step) == txn' = [txn EXCEPT ![p].at = step]
Leave(p) == txn' = [txn EXCEPT ![p] = Idle]
Refuse(p) == Leave(p) /\ conflicted' = conflicted \cup {txn[p].id}

(* Row locks: a transaction that only has to commit holds its row.         *)
NovelLocked(n) ==
  \/ \E p \in Proc : txn[p].at = "commit" /\ job(p).on = n
  \/ \E w \in Worker : handler[w].at = "commit" /\ handler[w].item[2] = n
EdgeLocked(e) == \E p \in Proc : txn[p].at = "commit" /\ job(p).on = e
-----------------------------------------------------------------------------
TagInit ==
  /\ scene \in Scenes
  /\ tags = [n \in Novel |-> [mode |-> "automatic", revision |-> 0,
                              run |-> None, manual |-> 0]]
  /\ edge = [e \in Edge |-> IF e \in scene.edges
                            THEN [version |-> 1, active |-> TRUE]
                            ELSE [version |-> 0, active |-> FALSE]]
  /\ taxonomy = [version |-> 1, lexicon |-> 1, complete |-> TRUE]
  /\ submit = [t \in Task |-> [at |-> "new", expect |-> 0]]
  /\ tagItem = [i \in TagItem |-> [status |-> "none", attempts |-> 0]]
  /\ runs = {}
  /\ handler = [w \in Worker |-> Resting]
  /\ request = <<>>
  /\ txn = [p \in Proc |-> Idle]
  /\ audited = {} /\ conflicted = {}
  /\ mishaps = 0
-----------------------------------------------------------------------------
(* getAdminNovelTags: the state first, then the rows, in no transaction.   *)
(* The lists of edges and canonical tags are one query.                    *)
Look(p) ==
  /\ txn[p].at = "idle"
  /\ Len(request) < scene.requests
  /\ \E kind \in scene.kinds, o \in Novel \cup Edge \cup {Taxonomy} :
       /\ o \in About(kind)
       /\ kind = "deactivate" => edge[o].version > 0
       /\ txn' = [txn EXCEPT ![p] =
            [Idle EXCEPT !.at = "rows", !.kind = kind, !.on = o,
               !.base = CASE o \in Novel -> tags[o].revision
                          [] o \in Edge -> edge[o].version
                          [] OTHER -> taxonomy.version,
               !.manual = o \in Novel /\ tags[o].mode = "manual"]]
  /\ UNCHANGED <<rows, queueVars, request, conflicted, mishaps, scene>>

Sent(view) ==
  [kind |-> view.kind, on |-> view.on, base |-> view.base,
   seen |-> IF view.manual THEN tags[view.on].manual ELSE 0]

Send(p) ==
  /\ txn[p].at = "rows"
  /\ Len(request) < scene.requests
  /\ request' = Append(request, Sent(txn[p]))
  /\ txn' = [txn EXCEPT ![p] = [Idle EXCEPT !.at = "lock",
                                            !.id = Len(request) + 1]]
  /\ UNCHANGED <<rows, queueVars, conflicted, mishaps, scene>>

(* The answer did not arrive, or not yet: the same request once more.      *)
SendAgain(p) ==
  /\ txn[p].at = "idle"
  /\ mishaps < scene.mishaps /\ mishaps' = mishaps + 1
  /\ \E r \in 1..Len(request) :
       txn' = [txn EXCEPT ![p] = [Idle EXCEPT !.at = "lock", !.id = r]]
  /\ UNCHANGED <<rows, queueVars, request, conflicted, scene>>

Die(p) ==
  /\ txn[p].at # "idle"
  /\ mishaps < scene.mishaps /\ mishaps' = mishaps + 1
  /\ Leave(p)
  /\ UNCHANGED <<rows, queueVars, request, conflicted, scene>>
-----------------------------------------------------------------------------
(* lockRequest, held to the end of the transaction, and the replay.        *)
InTransaction == {"read", "row", "write", "commit"}

RequestHeld(r) == \E p \in Proc : txn[p].id = r /\ txn[p].at \in InTransaction

LockRequest(p) ==
  /\ txn[p].at = "lock" /\ ~RequestHeld(txn[p].id)
  /\ IF txn[p].id \in audited THEN Leave(p)
     ELSE Proceed(p, IF job(p).kind = "approve" THEN "read" ELSE "row")
  /\ UNCHANGED <<rows, queueVars, request, conflicted, mishaps, scene>>

(* lockNovelAndState and the checks on the locked row.  assertActiveTags   *)
(* reads the canonical tags, which nothing locks; some other time they may *)
(* all be active again, so that this answer is no conflict.                *)
Current(r) ==
  /\ tags[r.on].revision = r.base
  /\ r.kind = "exit" => tags[r.on].mode = "manual"

LockNovel(p) ==
  /\ txn[p].at = "row" /\ job(p).on \in Novel
  /\ ~NovelLocked(job(p).on)
  /\ \/ /\ Current(job(p))
        /\ Proceed(p, "commit") /\ UNCHANGED conflicted
     \/ /\ Current(job(p)) /\ job(p).kind = "replace" /\ ~taxonomy.complete
        /\ Leave(p) /\ UNCHANGED conflicted
     \/ ~Current(job(p)) /\ Refuse(p)
  /\ UNCHANGED <<rows, queueVars, request, mishaps, scene>>

Commits(p, kind) ==
  /\ txn[p].at = "commit" /\ job(p).kind = kind
  /\ audited' = audited \cup {txn[p].id}
  /\ Leave(p)
  /\ UNCHANGED <<queueVars, request, conflicted, mishaps, scene>>

replaceManualTagSnapshot(p) ==
  /\ Commits(p, "replace")
  /\ tags' = [tags EXCEPT ![job(p).on].mode = "manual",
                          ![job(p).on].revision = @ + 1,
                          ![job(p).on].manual = txn[p].id]
  /\ UNCHANGED <<edge, taxonomy, runs>>

exitManualTagMode(p) ==
  /\ Commits(p, "exit")
  /\ tags' = [tags EXCEPT ![job(p).on].mode = "automatic",
                          ![job(p).on].revision = @ + 1,
                          ![job(p).on].manual = 0]
  /\ UNCHANGED <<edge, taxonomy, runs>>
-----------------------------------------------------------------------------
(* approve_edge: an advisory lock on the edge, which only approvals take,  *)
(* then the edge is read, without a lock of its row.  Its channel app or   *)
(* its tag may be inactive, or the edge gone: the approval is refused, and *)
(* not for a version.                                                      *)
ApprovalHeld(e) == \E p \in Proc : txn[p].at = "write" /\ job(p).on = e

ReadEdge(p) ==
  /\ txn[p].at = "read" /\ ~ApprovalHeld(job(p).on)
  /\ \/ Leave(p) /\ UNCHANGED conflicted
     \/ IF edge[job(p).on].version = job(p).base
        THEN Proceed(p, "write") /\ UNCHANGED conflicted
        ELSE Refuse(p)
  /\ UNCHANGED <<rows, queueVars, request, mishaps, scene>>

(* The update names the row alone: it waits for a deactivation that holds  *)
(* it and then writes over it.                                             *)
ApproveEdge(p) ==
  /\ txn[p].at = "write" /\ ~EdgeLocked(job(p).on)
  /\ edge' = [edge EXCEPT ![job(p).on] = [version |-> @.version + 1,
                                          active |-> TRUE]]
  /\ audited' = audited \cup {txn[p].id}
  /\ Leave(p)
  /\ UNCHANGED <<tags, taxonomy, runs, queueVars, request, conflicted, mishaps,
                 scene>>

(* deactivate_edge: the row lock, then the comparison.                     *)
EdgeCurrent(r) == edge[r.on].version = r.base

LockEdge(p) ==
  /\ txn[p].at = "row" /\ job(p).on \in Edge
  /\ ~EdgeLocked(job(p).on)
  /\ IF EdgeCurrent(job(p)) THEN Proceed(p, "commit") /\ UNCHANGED conflicted
     ELSE Refuse(p)
  /\ UNCHANGED <<rows, queueVars, request, mishaps, scene>>

DeactivateEdge(p) ==
  /\ Commits(p, "deactivate")
  /\ edge' = [edge EXCEPT ![job(p).on] = [version |-> @.version + 1,
                                          active |-> FALSE]]
  /\ UNCHANGED <<tags, taxonomy, runs>>

(* mutateAdminCanonicalTag: its advisory lock is one for the taxonomy, and *)
(* taken before the replay, so that these requests follow one another.     *)
mutateAdminCanonicalTag(p) ==
  /\ txn[p].at = "row" /\ job(p).on = Taxonomy
  /\ IF taxonomy.version = job(p).base
     THEN /\ \/ /\ job(p).kind = "keywords"
                /\ taxonomy' = [taxonomy EXCEPT !.version = @ + 1,
                                                !.lexicon = @ + 1]
             \/ /\ job(p).kind = "status"
                /\ taxonomy' = [taxonomy EXCEPT !.version = @ + 1,
                                                !.complete = ~@]
          /\ audited' = audited \cup {txn[p].id}
          /\ Leave(p) /\ UNCHANGED conflicted
     ELSE Refuse(p) /\ UNCHANGED <<taxonomy, audited>>
  /\ UNCHANGED <<tags, edge, runs, queueVars, request, mishaps, scene>>
-----------------------------------------------------------------------------
(* createTaggingAutoClassifyTask: the taxonomy, then the novels, then the  *)
(* task with an item each.  A token that is sent again finds its task or   *)
(* loses on the unique index, and writes nothing.                          *)
SubmitTask(t) ==
  /\ t \in scene.tasks /\ submit[t].at = "new" /\ taxonomy.complete
  /\ submit' = [submit EXCEPT ![t] = [at |-> "authority",
                                      expect |-> taxonomy.lexicon]]
  /\ UNCHANGED <<rows, tagItem, handler, adminVars, mishaps, scene>>

(* What a classification asks of a novel: automatic mode and, to           *)
(* initialize it, no run.                                                  *)
Eligible(t, n) ==
  /\ tags[n].mode = "automatic"
  /\ Lifecycle[t] = "initialize_missing" => tags[n].run = None

EnqueueTask(t) ==
  /\ submit[t].at = "authority"
  /\ submit' = [submit EXCEPT ![t].at = "done"]
  /\ tagItem' = [i \in TagItem |->
       IF i[1] = t /\ Eligible(t, i[2])
       THEN [status |-> "pending", attempts |-> 0] ELSE tagItem[i]]
  /\ UNCHANGED <<rows, handler, adminVars, mishaps, scene>>
-----------------------------------------------------------------------------
Reach(w, step) == handler' = [handler EXCEPT ![w].at = step]
Rest(w) == handler' = [handler EXCEPT ![w] = Resting]
taskOf(w) == handler[w].item[1]
novel(w) == handler[w].item[2]

(* The item row is locked by its protected write.                          *)
Protected == {"snapshot", "authority", "declined", "row", "commit"}

\* The fence asks for the item's status alone.
OwnsItemMutant(w) == tagItem[handler[w].item].status = "processing"

OwnsItem(w) == /\ tagItem[handler[w].item].status = "processing"
               /\ tagItem[handler[w].item].attempts = handler[w].attempt

Ends(w, status) ==
  tagItem' = [tagItem EXCEPT ![handler[w].item].status = status]

ClaimItem(w, i) ==
  /\ handler[w].at = "idle" /\ tagItem[i].status = "pending"
  /\ tagItem' = [tagItem EXCEPT ![i] = [status |-> "processing",
                                        attempts |-> @.attempts + 1]]
  /\ handler' = [handler EXCEPT ![w] =
                   [at |-> "classify", item |-> i,
                    attempt |-> tagItem[i].attempts + 1]]
  /\ UNCHANGED <<rows, submit, adminVars, mishaps, scene>>

(* The lease expires; a hung handler goes on.                              *)
RecoverItem(i) ==
  /\ tagItem[i].status = "processing"
  /\ \A w \in Worker : ~(/\ handler[w].item = i /\ handler[w].at \in Protected
                         /\ handler[w].attempt = tagItem[i].attempts)
  /\ tagItem' = [tagItem EXCEPT ![i].status =
       IF tagItem[i].attempts < MaxAttempts THEN "pending" ELSE "failed"]
  /\ UNCHANGED <<rows, submit, handler, adminVars, mishaps, scene>>

WorkerDies(w) ==
  /\ handler[w].at # "idle"
  /\ mishaps < scene.mishaps /\ mishaps' = mishaps + 1
  /\ Rest(w)
  /\ UNCHANGED <<rows, submit, tagItem, adminVars, scene>>

Stale(w) == taxonomy.lexicon # submit[taskOf(w)].expect

(* The handler's own look: it only spares a transaction, and everything is *)
(* asked again there.  An incomplete taxonomy throws.                      *)
Classify(w) ==
  /\ handler[w].at = "classify"
  /\ Reach(w, IF ~taxonomy.complete THEN "failed"
              ELSE IF Eligible(taskOf(w), novel(w)) /\ ~Stale(w) THEN "fence"
              ELSE "skipped")
  /\ UNCHANGED <<rows, submit, tagItem, adminVars, mishaps, scene>>

(* finalizeTaskItem without a protected write, under the fence.            *)
Finish(w) ==
  /\ handler[w].at \in {"failed", "skipped"}
  /\ IF OwnsItem(w) THEN Ends(w, handler[w].at) ELSE UNCHANGED tagItem
  /\ Rest(w)
  /\ UNCHANGED <<rows, submit, adminVars, mishaps, scene>>

(* assertProtectedWriteLease: lock the item row, or the lease is lost.     *)
Fence(w) ==
  /\ handler[w].at = "fence"
  /\ IF OwnsItem(w) THEN Reach(w, "snapshot") ELSE Rest(w)
  /\ UNCHANGED <<rows, submit, tagItem, adminVars, mishaps, scene>>

(* classifyNovelForAuto in the transaction: the novel, then the taxonomy.  *)
(* Whoever throws is rolled back, and then finalized as failed.            *)
ReadSnapshot(w) ==
  /\ handler[w].at = "snapshot"
  /\ Reach(w, IF Eligible(taskOf(w), novel(w)) THEN "authority" ELSE "declined")
  /\ UNCHANGED <<rows, submit, tagItem, adminVars, mishaps, scene>>

ReadAuthority(w) ==
  /\ handler[w].at \in {"authority", "declined"}
  /\ CASE ~taxonomy.complete -> Reach(w, "failed") /\ UNCHANGED tagItem
       [] taxonomy.complete /\ (handler[w].at = "declined" \/ Stale(w)) ->
            Ends(w, "skipped") /\ Rest(w)
       [] OTHER -> Reach(w, "row") /\ UNCHANGED tagItem
  /\ UNCHANGED <<rows, submit, adminVars, mishaps, scene>>

(* replaceAutoTagSnapshotInTransaction: the run under this request, then   *)
(* lockNovelAndState and the mode again, and nothing else again.           *)
\* The mode is the one of the snapshot.
TakenOverMutant(n) == FALSE

TakenOver(n) == tags[n].mode = "manual"

LockState(w) ==
  /\ handler[w].at = "row"
  /\ ~NovelLocked(novel(w))
  /\ IF handler[w].item \in runs \/ TakenOver(novel(w))
     THEN /\ Ends(w, IF handler[w].item \in runs THEN "success" ELSE "skipped")
          /\ Rest(w)
     ELSE /\ \/ Reach(w, "commit")
             \/ ~taxonomy.complete /\ Reach(w, "failed")
          /\ UNCHANGED tagItem
  /\ UNCHANGED <<rows, submit, adminVars, mishaps, scene>>

replaceAutoTagSnapshotInTransaction(w) ==
  /\ handler[w].at = "commit"
  /\ runs' = runs \cup {handler[w].item}
  /\ tags' = [tags EXCEPT ![novel(w)].run = handler[w].item]
  /\ Ends(w, "success") /\ Rest(w)
  /\ UNCHANGED <<edge, taxonomy, audited, submit, adminVars, mishaps, scene>>
-----------------------------------------------------------------------------
AdminNext(p) ==
  \/ Look(p) \/ Send(p) \/ SendAgain(p) \/ Die(p)
  \/ LockRequest(p) \/ LockNovel(p)
  \/ replaceManualTagSnapshot(p) \/ exitManualTagMode(p)
  \/ ReadEdge(p) \/ ApproveEdge(p) \/ LockEdge(p) \/ DeactivateEdge(p)
  \/ mutateAdminCanonicalTag(p)

WorkerNext(w) ==
  \/ \E i \in TagItem : ClaimItem(w, i)
  \/ WorkerDies(w) \/ Classify(w) \/ Finish(w) \/ Fence(w)
  \/ ReadSnapshot(w) \/ ReadAuthority(w) \/ LockState(w)
  \/ replaceAutoTagSnapshotInTransaction(w)

TagNext ==
  \/ \E p \in Proc : AdminNext(p)
  \/ \E t \in Task : SubmitTask(t) \/ EnqueueTask(t)
  \/ \E w \in Worker : WorkerNext(w)
  \/ \E i \in TagItem : RecoverItem(i)

TagSpec == TagInit /\ [][TagNext]_tagVars
-----------------------------------------------------------------------------
RequestId == 1..Len(request)

TagTypeOK ==
  /\ tags \in [Novel -> [mode : {"automatic", "manual"}, revision : Nat,
                         run : TagItem \cup {None}, manual : Nat]]
  /\ edge \in [Edge -> [version : Nat, active : BOOLEAN]]
  /\ taxonomy \in [version : Nat, lexicon : Nat, complete : BOOLEAN]
  /\ submit \in [Task -> [at : {"new", "authority", "done"}, expect : Nat]]
  /\ tagItem \in [TagItem ->
       [status : {"none", "pending", "processing", "success", "skipped",
                  "failed"},
        attempts : 0..MaxAttempts]]
  /\ runs \subseteq TagItem
  /\ handler \in [Worker ->
       [at : Protected \cup {"idle", "classify", "fence", "skipped", "failed"},
        item : TagItem \cup {None}, attempt : 0..MaxAttempts]]
  /\ request \in Seq(Requests)
  /\ txn \in [Proc -> [at : InTransaction \cup {"idle", "rows", "lock"},
                       id : 0..Len(request), kind : Kind,
                       on : Novel \cup Edge \cup {Taxonomy}, base : Nat,
                       manual : BOOLEAN]]
  /\ audited \subseteq RequestId /\ conflicted \subseteq RequestId
  /\ mishaps \in 0..scene.mishaps /\ scene \in Scenes

EditsOf(n) == {r \in audited : request[r].on = n}

(* A request that was answered with a conflict has had no effect, however  *)
(* often it was sent: when it has been applied, its repetition replays the *)
(* answer instead of meeting its own new version (lockRequest before the   *)
(* look at operation_audit).                                               *)
AnswersTrue == conflicted \cap audited = {}

(* Rows, runs, audit and answers agree, whatever dies or is sent twice:    *)
(* every accepted edit of a novel is one revision and one audit row,       *)
(* manual rows exist in manual mode only and are the last accepted edit's, *)
(* and an item has succeeded exactly if its run is there, although the     *)
(* fence, the request id and the row lock are three different guards       *)
(* (replaceAutoTagSnapshotInTransaction within finalizeTaskItem).          *)
RecordsAgree ==
  /\ TagTypeOK
  /\ AnswersTrue
  /\ \A n \in Novel :
       /\ tags[n].revision = Cardinality(EditsOf(n))
       /\ tags[n].mode = "manual" =>
            /\ tags[n].manual \in EditsOf(n)
            /\ request[tags[n].manual].base = tags[n].revision - 1
       /\ tags[n].mode = "automatic" => tags[n].manual = 0
       /\ tags[n].run # None => tags[n].run \in runs /\ tags[n].run[2] = n
  /\ \A i \in TagItem : i \in runs <=> tagItem[i].status = "success"

(* Nobody writes over tags that have changed behind him.  An accepted edit *)
(* replaces the version, and the manual rows, that its administrator saw,  *)
(* although they were read in two queries; a classification never touches  *)
(* a novel that was taken over while it ran.  The exception: an approval   *)
(* may undo a deactivation that was committed while it ran                 *)
(* (mutateAdminSourceLabelMapping).                                        *)
Unseen(r) ==
  CASE r.on \in Novel -> \/ tags[r.on].revision # r.base
                         \/ tags[r.on].manual # r.seen
    [] r.on \in Edge -> /\ edge[r.on].version # r.base
                        /\ r.kind = "approve" => edge[r.on].active
    [] OTHER -> taxonomy.version # r.base

NoBlindWrite ==
  [][/\ \A r \in audited' \ audited : ~Unseen(request[r])
     /\ \A n \in Novel : tags'[n].run # tags[n].run =>
          tags[n].mode = "automatic" /\ tags'[n].mode = "automatic"]_tagVars
=============================================================================
