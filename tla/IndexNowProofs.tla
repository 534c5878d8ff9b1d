---------------------------- MODULE IndexNowProofs ----------------------------
(***************************************************************************)
(* Delivery to IndexNow for any outbox rows, handlers, budgets and mishaps:*)
(* theorems about IndexNowOutbox.                                          *)
(***************************************************************************)
EXTENDS IndexNowOutbox, WellFoundedInduction, TLAPS

Numbered == {"eligible", "start", "mark", "http", "answer", "record", "settle"}
Owning == {"mark", "http", "answer", "record", "settle"}
At(h, steps) == run[h].at \in steps

Runs ==
  /\ \A h \in Handler :
       /\ At(h, {"idle"}) => run[h].row = NoRow /\ h \notin late
       /\ ~At(h, {"idle"}) => run[h].row \in Row
       /\ At(h, Numbered) => run[h].no \in Attempt
  /\ late # {} => hangs > 0

\* An attempt's row is there before its request and goes out once.
Requests ==
  /\ \A h \in Handler :
       /\ At(h, Owning) => att[run[h].row][run[h].no] # "none"
       /\ At(h, {"mark", "http"}) => sent[run[h].row][run[h].no] = 0
  /\ \A g, h \in Handler :
       (/\ At(g, {"mark", "http"}) /\ At(h, {"mark", "http"})
        /\ run[g].row = run[h].row /\ run[g].no = run[h].no)
         => g = h
  /\ OneRequestPerAttempt

\* What handlers, attempts and the sweep know of answers was answered.
Seen(r) ==
  LET seen == sweep.seen[r]
  IN  /\ seen.state # "none" => seen.no \in Attempt /\ att[r][seen.no] # "none"
      /\ seen.state \in Outcome => seen.state \in answers[r]

Answered ==
  /\ \A h \in Handler :
       At(h, {"record", "settle"}) => run[h].outcome \in answers[run[h].row]
  /\ \A r \in Row, n \in Attempt :
       att[r][n] \in Outcome => att[r][n] \in answers[r]
  /\ \A r \in Row : Seen(r)
  /\ sweep.at = "requeue" => /\ sweep.row \in Row /\ sweep.no \in Attempt
                             /\ att[sweep.row][sweep.no] # "none"

\* An item is processing while a handler has its lease, and one has it.
Items ==
  /\ \A r \in Row : item[r].status = "pending" => item[r].tries < ItemTries
  /\ \A h \in Handler \ late :
       ~At(h, {"idle"}) => item[run[h].row].status = "processing"
  /\ \A g, h \in Handler \ late :
       ~At(g, {"idle"}) /\ run[g].row = run[h].row => g = h

\* While no handler outlives its lease: a row's attempts are those it counts
\* and the one that is about to be counted, ...
Tried(r) ==
  /\ \A n \in Attempt :
       att[r][n] # "none" => n <= out[r].count + 1 /\ n <= MaxAttempts
  /\ out[r].status \in {"none", "pending", "retry_wait"} =>
       out[r].count < MaxAttempts
  /\ out[r].status = "processing" =>
       /\ out[r].count \in Attempt /\ att[r][out[r].count] # "none"
       /\ \A n \in Attempt : att[r][n] # "none" => n <= out[r].count

\* ... a handler knows its number, ...
Delivers(h) ==
  LET r == run[h].row
  IN  /\ At(h, {"eligible", "start", "mark"}) =>
           /\ out[r].status \in {"pending", "retry_wait"}
           /\ run[h].no = out[r].count + 1
      /\ At(h, {"http", "answer", "record", "settle"}) =>
           out[r].status = "processing" /\ run[h].no = out[r].count

\* ... and nobody delivers what the sweep recovers.
Left(r, no) ==
  /\ out[r].status = "processing" /\ no = out[r].count
  /\ \A h \in Handler : run[h].row = r => ~At(h, Numbered)
Recovering ==
  /\ sweep.at \in {"recover", "requeue"} =>
       \A r \in sweep.todo : Left(r, sweep.seen[r].no)
  /\ sweep.at = "requeue" =>
       Left(sweep.row, sweep.no) /\ sweep.row \notin sweep.todo

Accounts ==
  (\A r \in Row : Tried(r)) /\ (\A h \in Handler : Delivers(h)) /\ Recovering
Budget == hangs = 0 => Accounts

OutboxInv ==
  TypeOK /\ Runs /\ Requests /\ Answered /\ OutcomeEvidenced /\ Items /\ Budget
-----------------------------------------------------------------------------
OutRow == [status : RowStatus, count : {0} \cup Attempt, deferred : BOOLEAN]
ItemRow == [status : {"none", "pending", "processing", "done"}, tries : 0..ItemTries]
RunRow == [at : RunAt, row : Row \cup {NoRow}, no : {0} \cup Attempt,
           outcome : Outcome]
SeenRow == [no : {0} \cup Attempt, state : AttemptState]
SweepRow == [at : {"idle", "recover", "requeue", "live", "create"},
             todo : SUBSET Row, row : Row \cup {NoRow}, no : {0} \cup Attempt,
             seen : [Row -> SeenRow]]

Types ==
  /\ out \in [Row -> OutRow] /\ att \in [Row -> [Attempt -> AttemptState]]
  /\ item \in [Row -> ItemRow] /\ run \in [Handler -> RunRow]
  /\ late \subseteq Handler /\ sweep \in SweepRow
  /\ sent \in [Row -> [Attempt -> Nat]] /\ answers \in [Row -> SUBSET Outcome]

Rest ==
  /\ enqueuing \subseteq Row /\ live \subseteq Row /\ enabled \in BOOLEAN
  /\ crashes \in Nat /\ hangs \in Nat /\ crashes + hangs <= MaxMishaps

LEMMA TypeParts == TypeOK <=> Types /\ Rest
BY DEF TypeOK, Types, Rest, OutRow, ItemRow, RunRow, SeenRow, SweepRow
-----------------------------------------------------------------------------
(* What a step does to the rows, the handlers and the sweep.               *)
others == <<out, att, item, late, sweep, wire>>
Aside == UNCHANGED <<others, run>>

\* A row is enqueued, released or becomes available.
Waits(r) ==
  /\ out[r].status \in {"none", "pending"}
  /\ \E x \in OutRow : /\ x.status = "pending" /\ x.count = out[r].count
                        /\ out' = [out EXCEPT ![r] = x]
  /\ UNCHANGED <<att, item, run, late, sweep, wire>>

\* A row gets an item, from its enqueuer or from the sweep.
Creates(r) ==
  /\ ~Open(r) /\ NewItem(r)
  /\ \/ UNCHANGED sweep
     \/ sweep.at = "create" /\ sweep' = [sweep EXCEPT !.todo = @ \ {r}]
  /\ UNCHANGED <<out, att, run, late, wire>>

Hangs(h) ==
  /\ ~At(h, {"idle"}) /\ late' = late \cup {h} /\ hangs' > 0
  /\ UNCHANGED <<out, att, item, run, sweep, wire>>

Recovers(r) ==
  /\ item[r].status = "processing" /\ Holders(r) = {}
  /\ item' = [item EXCEPT ![r].status =
                IF item[r].tries < ItemTries THEN "pending" ELSE "done"]
  /\ UNCHANGED <<out, att, run, late, sweep, wire>>

Takes(h, r) ==
  /\ At(h, {"idle"}) /\ item[r].status = "pending"
  /\ item' = [item EXCEPT ![r] = [status |-> "processing", tries |-> @.tries + 1]]
  /\ run' = [run EXCEPT ![h] = [IdleRun EXCEPT !.at = "read", !.row = r]]
  /\ UNCHANGED <<out, att, late, sweep, wire>>

\* A handler is gone; if it has come to its end its item is done.
Dies(h) ==
  /\ ~At(h, {"idle"})
  /\ run' = [run EXCEPT ![h] = IdleRun] /\ late' = late \ {h}
  /\ \/ UNCHANGED item
     \/ h \notin late /\ item' = [item EXCEPT ![run[h].row].status = "done"]
  /\ UNCHANGED <<out, att, sweep, wire>>

Begins(h) ==
  /\ At(h, {"read"}) /\ Due(run[h].row) /\ out[run[h].row].count < MaxNo
  /\ run' = [run EXCEPT ![h] = [@ EXCEPT !.at = "eligible",
                                         !.no = out[run[h].row].count + 1]]
  /\ UNCHANGED others

\* The page is eligible; or the handler has nothing to do, or its number is
\* taken.
Passes(h) ==
  /\ \/ At(h, {"eligible"}) /\ Go(h, "start")
     \/ At(h, {"read"}) /\ Go(h, "done")
     \/ At(h, {"start"}) /\ Go(h, "fail")
  /\ UNCHANGED others

Cancels(h) ==
  /\ At(h, {"eligible"}) /\ SetStatus(run[h].row, "cancelled") /\ Go(h, "done")
  /\ UNCHANGED <<att, item, late, sweep, wire>>

Starts(h) ==
  /\ At(h, {"start"}) /\ att[run[h].row][run[h].no] = "none"
  /\ att' = [att EXCEPT ![run[h].row][run[h].no] = "started"] /\ Go(h, "mark")
  /\ UNCHANGED <<out, item, late, sweep, wire>>

\* The sweep ends, is interrupted, or is past its recoveries.
Rests ==
  /\ sweep' \in SweepRow /\ sweep'.at \in {"idle", "live", "create"}
  /\ sweep'.seen \in {sweep.seen, IdleSweep.seen}
  /\ UNCHANGED <<out, att, item, run, late, wire>>

\* What recovery does to a row it has read: nothing, the answer again, or the
\* first of two statements.
PassesOver(r) ==
  /\ sweep.at = "recover" /\ r \in sweep.todo
  /\ sweep' = [sweep EXCEPT !.todo = @ \ {r}]
  /\ UNCHANGED <<out, att, item, run, late, wire>>

Reapplies(r) ==
  /\ sweep.at = "recover" /\ r \in sweep.todo /\ sweep.seen[r].state \in Outcome
  /\ Reapply(r, sweep.seen[r])
  /\ sweep' = [sweep EXCEPT !.todo = @ \ {r}]
  /\ UNCHANGED <<att, item, run, late, wire>>

GivesUp(r) ==
  LET seen == sweep.seen[r] IN
  /\ sweep.at = "recover" /\ r \in sweep.todo /\ seen.state = "started"
  /\ att' = [att EXCEPT ![r][seen.no] = "unknown_outcome"]
  /\ sweep' = [sweep EXCEPT !.at = "requeue", !.row = r, !.no = seen.no,
                            !.todo = @ \ {r}]
  /\ UNCHANGED <<out, item, run, late, wire>>

Kept == hangs' \in Nat /\ hangs' >= hangs

Handles(h) ==
  \/ Begins(h) \/ Passes(h) \/ Cancels(h) \/ Starts(h) \/ MarkProcessing(h)
  \/ Send(h) \/ classifyIndexNowResult(h) \/ RecordAttempt(h) \/ SettleRow(h)
  \/ Dies(h) \/ Hangs(h) \/ \E r \in Row : Takes(h, r)
Rows ==
  \/ Aside
  \/ \E r \in Row : \/ Waits(r) \/ Creates(r) \/ Recovers(r) \/ PassesOver(r)
                    \/ Reapplies(r) \/ GivesUp(r)
  \/ Rests \/ BeginSweep \/ RequeueRow
Moves == Rows \/ \E h \in Handler : Handles(h)

\* Every step is one of these moves, and no step takes a hang back.
LEMMA NextMoves ==
  ASSUME TypeOK, Runs, [Next]_vars
  PROVE  Moves /\ Kept
<1> USE DEF At, others, wire, queue, Kept
<1>0. Types /\ hangs \in Nat /\ crashes \in Nat /\ sweep \in SweepRow
  BY TypeParts DEF Rest, Types
<1>1. ASSUME NEW r \in Row, Enqueue(r) PROVE Waits(r) /\ Kept
  <2>1. out[r] \in OutRow
    BY <1>0 DEF Types
  <2>2. PICK x \in OutRow : /\ x.status = "pending" /\ x.count = out[r].count
                            /\ out' = [out EXCEPT ![r] = x]
    <3> DEFINE a == [out[r] EXCEPT !.status = "pending"]
               b == [out[r] EXCEPT !.status = "pending", !.deferred = TRUE]
    <3>1. /\ a \in OutRow /\ a.status = "pending" /\ a.count = out[r].count
          /\ b \in OutRow /\ b.status = "pending" /\ b.count = out[r].count
      BY <2>1 DEF OutRow, RowStatus
    <3>2. out' = [out EXCEPT ![r] = a] \/ out' = [out EXCEPT ![r] = b]
      BY <1>1 DEF Enqueue
    <3> HIDE DEF a, b
    <3> QED BY <3>1, <3>2
  <2>3. /\ out[r].status = "none" /\ UNCHANGED <<att, item, run, late, sweep, wire>>
        /\ Kept
    BY <1>0, <1>1 DEF Enqueue
  <2> QED BY <2>2, <2>3 DEF Waits
<1>2. ASSUME NEW r \in Row, FirstItem(r) PROVE (Creates(r) \/ Aside) /\ Kept
  <2>1. CASE Open(r)
    BY <1>0, <1>2, <2>1 DEF FirstItem, Aside
  <2>2. CASE ~Open(r)
    BY <1>0, <1>2, <2>2 DEF FirstItem, Creates
  <2> QED BY <2>1, <2>2
<1>3. ASSUME NEW r \in Row, Release(r) \/ BecomeAvailable(r)
      PROVE  Waits(r) /\ Kept
  <2> DEFINE x == [out[r] EXCEPT !.deferred = FALSE]
  <2>1. out[r] \in OutRow /\ out[r].status = "pending"
    BY <1>0, <1>3 DEF Types, Release, BecomeAvailable
  <2>2. x \in OutRow /\ x.status = "pending" /\ x.count = out[r].count
    BY <2>1 DEF OutRow
  <2>3. out' = [out EXCEPT ![r] = x]
    BY <1>3 DEF Release, BecomeAvailable
  <2>4. UNCHANGED <<att, item, run, late, sweep, wire>> /\ Kept
    BY <1>0, <1>3 DEF Release, BecomeAvailable
  <2> HIDE DEF x
  <2> QED BY <2>1, <2>2, <2>3, <2>4 DEF Waits
<1>4. ASSUME Configure \/ \E r \in Row : Drift(r) PROVE Aside /\ Kept
  BY <1>0, <1>4 DEF Drift, Configure, Aside
<1>5. ASSUME NEW r \in Row, Recover(r) PROVE Recovers(r) /\ Kept
  BY <1>0, <1>5 DEF Recover, Recovers
<1>6. ASSUME NEW h \in Handler, NEW r \in Row, Take(h, r)
      PROVE  Takes(h, r) /\ Kept
  BY <1>0, <1>6 DEF Take, Takes
<1>7. ASSUME NEW h \in Handler, Hang(h) PROVE Hangs(h) /\ Kept
  BY <1>0, <1>7 DEF Hang, Hangs
<1>8. ASSUME NEW h \in Handler, Return(h) PROVE Dies(h) /\ Kept
  BY <1>0, <1>8 DEF Return, Dies
<1>9. ASSUME NEW h \in Handler, ReadRow(h)
      PROVE  (Begins(h) \/ Passes(h)) /\ Kept
  <2>1. CASE enabled /\ Due(run[h].row)
    BY <1>0, <1>9, <2>1 DEF ReadRow, Begins
  <2>2. CASE ~(enabled /\ Due(run[h].row))
    BY <1>0, <1>9, <2>2 DEF ReadRow, Passes
  <2> QED BY <2>1, <2>2
<1>10. ASSUME NEW h \in Handler, CheckEligible(h)
       PROVE  (Cancels(h) \/ Passes(h)) /\ Kept
  <2>1. CASE run[h].row \in live
    BY <1>0, <1>10, <2>1 DEF CheckEligible, Passes
  <2>2. CASE run[h].row \notin live
    BY <1>0, <1>10, <2>2 DEF CheckEligible, Cancels
  <2> QED BY <2>1, <2>2
<1>11. ASSUME NEW h \in Handler, StartAttempt(h)
       PROVE  (Starts(h) \/ Passes(h)) /\ Kept
  <2>1. CASE att[run[h].row][run[h].no] = "none"
    BY <1>0, <1>11, <2>1 DEF StartAttempt, Starts
  <2>2. CASE att[run[h].row][run[h].no] # "none"
    BY <1>0, <1>11, <2>2 DEF StartAttempt, Passes
  <2> QED BY <2>1, <2>2
<1>12. ASSUME NEW h \in Handler,
              \/ MarkProcessing(h) \/ Send(h) \/ classifyIndexNowResult(h)
              \/ RecordAttempt(h) \/ SettleRow(h)
       PROVE  Kept
  <2>1. UNCHANGED hangs
    BY <1>12 DEF MarkProcessing, Send, classifyIndexNowResult, RecordAttempt,
                 SettleRow
  <2> QED BY <1>0, <2>1
<1>13. IdleSweep \in SweepRow /\ IdleSweep.at = "idle"
  BY DEF IdleSweep, SweepRow, SeenRow, AttemptState
<1>14. ASSUME Crash
       PROVE  (Aside \/ Rests \/ \E h \in Handler : Dies(h)) /\ Kept
  <2>1. Kept /\ UNCHANGED <<out, att, item, wire>>
    BY <1>0, <1>14 DEF Crash
  <2>2. CASE \E h \in Handler : /\ run[h].at # "idle"
                                /\ run' = [run EXCEPT ![h] = IdleRun]
                                /\ late' = late \ {h} /\ UNCHANGED <<enqueuing, sweep>>
    BY <2>1, <2>2 DEF Dies
  <2>3. CASE UNCHANGED <<run, late, sweep>>
    BY <2>1, <2>3 DEF Aside
  <2>4. CASE sweep' = IdleSweep /\ UNCHANGED <<run, late, enqueuing>>
    BY <1>13, <2>1, <2>4 DEF Rests
  <2> QED BY <1>0, <1>14, <2>1, <2>2, <2>3, <2>4 DEF Crash
<1>15. ASSUME RecoverRow
       PROVE  Kept /\ \E r \in Row : PassesOver(r) \/ Reapplies(r) \/ GivesUp(r)
  <2>1. PICK r \in sweep.todo :
          IF sweep.seen[r].state = "started"
          THEN /\ att' = [att EXCEPT ![r][sweep.seen[r].no] = "unknown_outcome"]
               /\ sweep' = [sweep EXCEPT !.at = "requeue", !.row = r,
                              !.no = sweep.seen[r].no, !.todo = @ \ {r}]
               /\ UNCHANGED out
          ELSE /\ IF sweep.seen[r].state \in Outcome THEN Reapply(r, sweep.seen[r])
                  ELSE UNCHANGED out
               /\ sweep' = [sweep EXCEPT !.todo = @ \ {r}]
               /\ UNCHANGED att
    BY <1>0, <1>15 DEF RecoverRow
  <2>2. r \in Row /\ Kept /\ sweep.at = "recover" /\ UNCHANGED <<item, run, late, wire>>
    BY <1>0, <1>15, <2>1 DEF RecoverRow, SweepRow
  <2>3. CASE sweep.seen[r].state = "started"
    BY <2>1, <2>2, <2>3 DEF GivesUp
  <2>4. CASE sweep.seen[r].state \in Outcome
    <3>1. sweep.seen[r].state # "started"
      BY <2>4 DEF Outcome
    <3> QED BY <2>1, <2>2, <2>4, <3>1 DEF Reapplies
  <2>5. CASE sweep.seen[r].state \notin Outcome \cup {"started"}
    BY <2>1, <2>2, <2>5 DEF PassesOver
  <2> QED BY <2>2, <2>3, <2>4, <2>5
<1>16. ASSUME BeginSweep \/ RequeueRow PROVE Kept
  BY <1>0, <1>16 DEF BeginSweep, RequeueRow
<1>17. ASSUME ReadDue PROVE Rests /\ Kept
  <2>1. sweep' = [IdleSweep EXCEPT !.at = "live", !.todo = {r \in Row : Due(r)}]
    BY <1>17 DEF ReadDue
  <2>2. {r \in Row : Due(r)} \subseteq Row
    OBVIOUS
  <2>3. sweep' \in SweepRow /\ sweep'.at = "live" /\ sweep'.seen = IdleSweep.seen
    BY <1>13, <2>1, <2>2 DEF SweepRow
  <2>4. UNCHANGED <<out, att, item, run, late, wire>> /\ Kept
    BY <1>0, <1>17 DEF ReadDue
  <2> QED BY <2>3, <2>4 DEF Rests
<1>18. ASSUME ReadLive PROVE Rests /\ Kept
  <2>1. sweep' = [sweep EXCEPT !.at = "create", !.todo = {r \in @ : ~Open(r)}]
    BY <1>18 DEF ReadLive
  <2>2. {r \in sweep.todo : ~Open(r)} \subseteq Row
    BY <1>0 DEF SweepRow
  <2>3. sweep' \in SweepRow /\ sweep'.at = "create" /\ sweep'.seen = sweep.seen
    BY <1>0, <2>1, <2>2 DEF SweepRow
  <2>4. UNCHANGED <<out, att, item, run, late, wire>> /\ Kept
    BY <1>0, <1>18 DEF ReadLive
  <2> QED BY <2>3, <2>4 DEF Rests
<1>19. ASSUME SweepItem
       PROVE  (Rests \/ \E r \in Row : Creates(r)) /\ Kept
  <2>1. Kept /\ sweep.at = "create" /\ UNCHANGED <<out, att, run, late, wire>>
    BY <1>0, <1>19 DEF SweepItem
  <2>2. CASE sweep' = IdleSweep /\ UNCHANGED item
    BY <1>13, <2>1, <2>2 DEF Rests
  <2>3. CASE \E r \in sweep.todo : /\ ~Open(r) /\ NewItem(r)
                                   /\ sweep' = [sweep EXCEPT !.todo = @ \ {r}]
    BY <1>0, <2>1, <2>3 DEF Creates, SweepRow
  <2> QED BY <1>0, <1>19, <2>1, <2>2, <2>3 DEF SweepItem
<1>20. ASSUME UNCHANGED vars PROVE Aside /\ Kept
  BY <1>0, <1>20 DEF vars, Aside
<1> QED
  <2> DEFINE M == Moves /\ Kept
  <2>1. ASSUME NEW r \in Row,
               Enqueue(r) \/ FirstItem(r) \/ Release(r) \/ BecomeAvailable(r)
               \/ Drift(r) \/ Recover(r)
        PROVE  M
    BY <2>1, <1>1, <1>2, <1>3, <1>4, <1>5 DEF Moves, Rows
  <2>2. ASSUME NEW h \in Handler, (\E r \in Row : Take(h, r)) \/ Hang(h) \/ Deliver(h)
        PROVE  M
    BY <2>2, <1>6, <1>7, <1>8, <1>9, <1>10, <1>11, <1>12
       DEF Moves, Handles, Deliver
  <2>3. ASSUME Configure \/ Crash \/ Sweep PROVE M
    BY <2>3, <1>4, <1>14, <1>15, <1>16, <1>17, <1>18, <1>19
       DEF Moves, Rows, Handles, Sweep
  <2> QED BY <1>0, <1>20, <2>1, <2>2, <2>3 DEF Next, Moves, Rows

\* The variables no move speaks of keep their types.
LEMMA RestStep ==
  ASSUME TypeOK, Next
  PROVE  Rest'
<1>1. Rest /\ MaxMishaps \in Nat
  BY TypeParts, IndexNowAssumption
<1> USE DEF Rest, wire, queue
<1>2. ASSUME NEW r \in Row, Enqueue(r) \/ FirstItem(r) \/ Release(r)
                            \/ BecomeAvailable(r) \/ Drift(r) \/ Recover(r)
      PROVE  Rest'
  BY <1>1, <1>2 DEF Enqueue, FirstItem, Release, BecomeAvailable, Drift, Recover
<1>3. ASSUME NEW h \in Handler, Hang(h) \/ Deliver(h) \/ \E r \in Row : Take(h, r)
      PROVE  Rest'
  <2>1. CASE Hang(h)
    BY <1>1, <2>1 DEF Hang
  <2>2. CASE \E r \in Row : Take(h, r)
    BY <1>1, <2>2 DEF Take
  <2>3. CASE Deliver(h)
    <3>1. UNCHANGED <<enqueuing, live, enabled, crashes, hangs>>
      BY <2>3 DEF Deliver, Return, ReadRow, CheckEligible, StartAttempt,
           MarkProcessing, Send, classifyIndexNowResult, RecordAttempt, SettleRow
    <3> QED BY <1>1, <3>1
  <2> QED BY <1>3, <2>1, <2>2, <2>3
<1>4. ASSUME Configure \/ Sweep PROVE Rest'
  BY <1>1, <1>4 DEF Configure, Sweep, BeginSweep, RecoverRow, RequeueRow, ReadDue,
       ReadLive, SweepItem
<1>5. ASSUME Crash PROVE Rest'
  BY <1>1, <1>5 DEF Crash
<1> QED BY <1>2, <1>3, <1>4, <1>5 DEF Next

\* One place of a function is set.
LEMMA RunSet ==
  ASSUME Types, NEW h \in Handler, NEW x \in RunRow, run' = [run EXCEPT ![h] = x]
  PROVE  /\ run' \in [Handler -> RunRow] /\ run'[h] = x
         /\ \A g \in Handler \ {h} : run'[g] = run[g]
BY DEF Types

LEMMA RunGoes ==
  ASSUME Types, NEW h \in Handler, NEW s \in RunAt, Go(h, s)
  PROVE  /\ run' \in [Handler -> RunRow] /\ run'[h].at = s
         /\ run'[h].row = run[h].row /\ run'[h].no = run[h].no
         /\ run'[h].outcome = run[h].outcome
         /\ \A g \in Handler \ {h} : run'[g] = run[g]
<1> DEFINE x == [run[h] EXCEPT !.at = s]
<1>1. run[h] \in RunRow
  BY DEF Types
<1>2. /\ x \in RunRow /\ x.at = s /\ x.row = run[h].row /\ x.no = run[h].no
      /\ x.outcome = run[h].outcome
  BY <1>1 DEF RunRow
<1>3. run' = [run EXCEPT ![h] = x]
  BY DEF Go
<1> HIDE DEF x
<1> QED BY <1>2, <1>3, RunSet

LEMMA StatusSet ==
  ASSUME Types, NEW r \in Row, NEW s \in RowStatus, SetStatus(r, s)
  PROVE  /\ out' \in [Row -> OutRow] /\ out'[r].status = s
         /\ out'[r].count = out[r].count
         /\ \A q \in Row \ {r} : out'[q] = out[q]
<1> DEFINE x == [out[r] EXCEPT !.status = s]
<1>1. out[r] \in OutRow
  BY DEF Types
<1>2. x \in OutRow /\ x.status = s /\ x.count = out[r].count
  BY <1>1 DEF OutRow
<1>3. out' = [out EXCEPT ![r] = x]
  BY DEF SetStatus
<1> HIDE DEF x
<1> QED BY <1>2, <1>3 DEF Types

LEMMA ItemSet ==
  ASSUME Types, NEW r \in Row, NEW x \in ItemRow, item' = [item EXCEPT ![r] = x]
  PROVE  /\ item' \in [Row -> ItemRow] /\ item'[r] = x
         /\ \A q \in Row \ {r} : item'[q] = item[q]
BY DEF Types

LEMMA AttSet ==
  ASSUME Types, NEW r \in Row, NEW n \in Attempt, NEW s \in AttemptState,
         att' = [att EXCEPT ![r][n] = s]
  PROVE  /\ att' \in [Row -> [Attempt -> AttemptState]] /\ att'[r][n] = s
         /\ \A q \in Row, m \in Attempt :
              q # r \/ m # n => att'[q][m] = att[q][m]
BY DEF Types

\* Which states an attempt and a row may be given.
LEMMA StateSets ==
  /\ Outcome \subseteq AttemptState
  /\ {"none", "started", "unknown_outcome"} \subseteq AttemptState
  /\ {"none", "started", "unknown_outcome"} \cap Outcome = {}
  /\ \A o \in Outcome : \A n : resolveOutboxDeliveryStatus(o, n) \in RowStatus
BY DEF Outcome, AttemptState, resolveOutboxDeliveryStatus, RowStatus, Settled

\* What becomes of a row for an answer to its n-th attempt.
LEMMA Resolved ==
  ASSUME NEW o \in Outcome, NEW n \in Nat
  PROVE  LET s == resolveOutboxDeliveryStatus(o, n)
         IN  /\ s \notin {"none", "pending", "processing", "cancelled"}
             /\ s \in {"accepted", "permanent_failed"} => s = o
             /\ s = "dead_letter" => n >= MaxAttempts
             /\ s = "retry_wait" => n < MaxAttempts
BY IndexNowAssumption DEF Outcome, resolveOutboxDeliveryStatus
-----------------------------------------------------------------------------
(* The same, place by place.                                               *)
Only(h) == \A g \in Handler \ {h} : run'[g] = run[g]
OnlyRow(f, g, r) == \A q \in Row \ {r} : g[q] = f[q]

\* A handler goes on with the row it has.
Steps(h, from, to) ==
  /\ At(h, {from}) /\ run'[h].at = to /\ run'[h].row = run[h].row
  /\ run'[h].outcome = run[h].outcome /\ Only(h)
  /\ UNCHANGED late
SameNo(h) == run'[h].no = run[h].no

LEMMA BeginsTo ==
  ASSUME Types, Runs, NEW h \in Handler, Begins(h)
  PROVE  /\ Types' /\ Steps(h, "read", "eligible")
         /\ run'[h].no = out[run[h].row].count + 1
<1> DEFINE n == out[run[h].row].count + 1
           x == [run[h] EXCEPT !.at = "eligible", !.no = n]
<1>1. run[h] \in RunRow /\ At(h, {"read"}) /\ run[h].row \in Row
  BY DEF Types, Begins, Runs, At
<1>2. n \in Attempt
  <2>1. out[run[h].row] \in OutRow
    BY <1>1 DEF Types
  <2> QED BY <2>1, IndexNowAssumption DEF OutRow, Begins, Attempt
<1> HIDE DEF n
<1>3. /\ x \in RunRow /\ x.at = "eligible" /\ x.row = run[h].row /\ x.no = n
      /\ x.outcome = run[h].outcome
  BY <1>1, <1>2 DEF RunRow, RunAt
<1>4. run' = [run EXCEPT ![h] = x] /\ UNCHANGED others
  BY DEF Begins, n
<1> HIDE DEF x
<1>5. run' \in [Handler -> RunRow] /\ run'[h] = x /\ Only(h)
  BY <1>3, <1>4, RunSet DEF Only
<1> QED BY <1>1, <1>3, <1>4, <1>5 DEF Types, Steps, others, wire, n

LEMMA GoesTo ==
  ASSUME Types, NEW h \in Handler, NEW from, NEW to \in RunAt,
         At(h, {from}), Go(h, to), UNCHANGED late
  PROVE  run' \in [Handler -> RunRow] /\ Steps(h, from, to) /\ SameNo(h)
BY RunGoes DEF Steps, SameNo, Only

LEMMA PassesTo ==
  ASSUME Types, NEW h \in Handler, Passes(h)
  PROVE  /\ Types' /\ SameNo(h)
         /\ \/ Steps(h, "eligible", "start")
            \/ Steps(h, "read", "done") \/ Steps(h, "start", "fail")
<1>1. UNCHANGED others
  BY DEF Passes
<1>2. {"start", "done", "fail"} \subseteq RunAt /\ UNCHANGED late
  BY <1>1 DEF RunAt, others
<1>3. /\ run' \in [Handler -> RunRow] /\ SameNo(h)
      /\ \/ Steps(h, "eligible", "start")
         \/ Steps(h, "read", "done") \/ Steps(h, "start", "fail")
  BY <1>2, GoesTo DEF Passes
<1> QED BY <1>1, <1>3 DEF Types, others, wire

LEMMA CancelsTo ==
  ASSUME Types, Runs, NEW h \in Handler, Cancels(h)
  PROVE  /\ Types' /\ SameNo(h) /\ Steps(h, "eligible", "done")
         /\ OnlyRow(out, out', run[h].row)
         /\ out'[run[h].row].status = "cancelled"
         /\ out'[run[h].row].count = out[run[h].row].count
<1>1. run[h].row \in Row /\ "done" \in RunAt /\ "cancelled" \in RowStatus
  BY DEF Runs, Cancels, RunAt, RowStatus, Settled, At
<1>2. run' \in [Handler -> RunRow] /\ SameNo(h) /\ Steps(h, "eligible", "done")
  BY <1>1, GoesTo DEF Cancels
<1>3. /\ out' \in [Row -> OutRow] /\ OnlyRow(out, out', run[h].row)
      /\ out'[run[h].row].status = "cancelled"
      /\ out'[run[h].row].count = out[run[h].row].count
  BY <1>1, StatusSet DEF Cancels, OnlyRow
<1> QED BY <1>2, <1>3 DEF Types, Cancels, wire

\* The attempt of a handler gets a new state.
Tells(h, s) ==
  /\ att'[run[h].row][run[h].no] = s
  /\ \A q \in Row, m \in Attempt :
       q # run[h].row \/ m # run[h].no => att'[q][m] = att[q][m]

LEMMA StartsTo ==
  ASSUME Types, Runs, NEW h \in Handler, Starts(h)
  PROVE  Types' /\ SameNo(h) /\ Steps(h, "start", "mark") /\ Tells(h, "started")
<1>1. /\ run[h].row \in Row /\ run[h].no \in Attempt
      /\ "mark" \in RunAt /\ "started" \in AttemptState
  BY DEF Runs, Starts, RunAt, AttemptState, At, Numbered
<1>2. run' \in [Handler -> RunRow] /\ SameNo(h) /\ Steps(h, "start", "mark")
  BY <1>1, GoesTo DEF Starts
<1>3. att' \in [Row -> [Attempt -> AttemptState]] /\ Tells(h, "started")
  <2>1. att' = [att EXCEPT ![run[h].row][run[h].no] = "started"]
    BY DEF Starts
  <2>2. att' \in [Row -> [Attempt -> AttemptState]]
    BY <1>1, <2>1, AttSet
  <2> QED BY <1>1, <2>1, <2>2 DEF Tells, Types
<1> QED BY <1>2, <1>3 DEF Types, Starts, wire

LEMMA MarkTo ==
  ASSUME Types, Runs, NEW h \in Handler, MarkProcessing(h)
  PROVE  /\ Types' /\ SameNo(h) /\ Steps(h, "mark", "http")
         /\ OnlyRow(out, out', run[h].row)
         /\ out'[run[h].row].status = "processing"
         /\ out'[run[h].row].count = run[h].no
<1> DEFINE r == run[h].row
           x == [out[r] EXCEPT !.status = "processing", !.count = run[h].no]
<1>1. /\ r \in Row /\ run[h].no \in Attempt /\ out[r] \in OutRow
      /\ "http" \in RunAt /\ "processing" \in RowStatus
  BY DEF Runs, MarkProcessing, RunAt, RowStatus, At, Numbered, Types
<1>2. run' \in [Handler -> RunRow] /\ SameNo(h) /\ Steps(h, "mark", "http")
  BY <1>1, GoesTo DEF MarkProcessing, At
<1>3. x \in OutRow /\ x.status = "processing" /\ x.count = run[h].no
  BY <1>1 DEF OutRow
<1>4. out' = [out EXCEPT ![r] = x]
  BY DEF MarkProcessing
<1> HIDE DEF x
<1>5. out' \in [Row -> OutRow] /\ out'[r] = x /\ OnlyRow(out, out', r)
  BY <1>1, <1>3, <1>4 DEF OnlyRow, Types
<1> QED BY <1>2, <1>3, <1>5 DEF Types, MarkProcessing, wire

LEMMA SendTo ==
  ASSUME Types, Runs, NEW h \in Handler, Send(h)
  PROVE  /\ Types' /\ SameNo(h) /\ Steps(h, "http", "answer")
         /\ sent'[run[h].row][run[h].no] = sent[run[h].row][run[h].no] + 1
         /\ \A q \in Row, m \in Attempt :
              q # run[h].row \/ m # run[h].no => sent'[q][m] = sent[q][m]
<1>1. run[h].row \in Row /\ run[h].no \in Attempt /\ "answer" \in RunAt
  BY DEF Runs, Send, RunAt, At, Numbered
<1>2. run' \in [Handler -> RunRow] /\ SameNo(h) /\ Steps(h, "http", "answer")
  BY <1>1, GoesTo DEF Send, At
<1>3. /\ sent' \in [Row -> [Attempt -> Nat]]
      /\ sent'[run[h].row][run[h].no] = sent[run[h].row][run[h].no] + 1
      /\ \A q \in Row, m \in Attempt :
           q # run[h].row \/ m # run[h].no => sent'[q][m] = sent[q][m]
  BY <1>1 DEF Send, Types
<1> QED BY <1>2, <1>3 DEF Types, Send

LEMMA AnswerTo ==
  ASSUME Types, Runs, NEW h \in Handler, classifyIndexNowResult(h)
  PROVE  /\ Types' /\ SameNo(h)
         /\ At(h, {"answer"}) /\ run'[h].at = "record"
         /\ run'[h].row = run[h].row /\ Only(h) /\ UNCHANGED late
         /\ run'[h].outcome \in answers'[run[h].row]
         /\ \A q \in Row : answers[q] \subseteq answers'[q]
<1>1. /\ run[h].row \in Row /\ At(h, {"answer"}) /\ run[h] \in RunRow
      /\ "record" \in RunAt
  BY DEF Runs, classifyIndexNowResult, At, Types, RunAt
<1>2. PICK o \in Outcome :
        /\ run' = [run EXCEPT ![h] = [@ EXCEPT !.at = "record", !.outcome = o]]
        /\ answers' = [answers EXCEPT ![run[h].row] = @ \cup {o}]
  BY DEF classifyIndexNowResult
<1> DEFINE x == [run[h] EXCEPT !.at = "record", !.outcome = o]
<1>3. /\ x \in RunRow /\ x.at = "record" /\ x.row = run[h].row
      /\ x.no = run[h].no /\ x.outcome = o
  BY <1>1 DEF RunRow
<1>4. run' = [run EXCEPT ![h] = x]
  BY <1>2
<1> HIDE DEF x
<1>5. run' \in [Handler -> RunRow] /\ run'[h] = x /\ Only(h)
  BY <1>3, <1>4, RunSet DEF Only
<1>6. /\ answers' \in [Row -> SUBSET Outcome] /\ o \in answers'[run[h].row]
      /\ \A q \in Row : answers[q] \subseteq answers'[q]
  BY <1>1, <1>2 DEF Types
<1> QED BY <1>1, <1>3, <1>5, <1>6 DEF Types, classifyIndexNowResult, SameNo

LEMMA RecordTo ==
  ASSUME Types, Runs, NEW h \in Handler, RecordAttempt(h)
  PROVE  /\ Types' /\ SameNo(h) /\ Steps(h, "record", "settle")
         /\ Tells(h, run[h].outcome) /\ run[h].outcome \in Outcome
<1>1. /\ run[h].row \in Row /\ run[h].no \in Attempt /\ run[h] \in RunRow
      /\ "settle" \in RunAt
  BY DEF Runs, RecordAttempt, RunAt, At, Numbered, Types
<1>2. run[h].outcome \in Outcome /\ run[h].outcome \in AttemptState
  BY <1>1, StateSets DEF RunRow
<1>3. run' \in [Handler -> RunRow] /\ SameNo(h) /\ Steps(h, "record", "settle")
  BY <1>1, GoesTo DEF RecordAttempt, At
<1>4. att' \in [Row -> [Attempt -> AttemptState]] /\ Tells(h, run[h].outcome)
  <2>1. att' = [att EXCEPT ![run[h].row][run[h].no] = run[h].outcome]
    BY DEF RecordAttempt
  <2>2. att' \in [Row -> [Attempt -> AttemptState]]
    BY <1>1, <1>2, <2>1, AttSet
  <2> QED BY <1>1, <2>1, <2>2 DEF Tells, Types
<1> QED BY <1>2, <1>3, <1>4 DEF Types, RecordAttempt, wire

LEMMA SettleTo ==
  ASSUME Types, Runs, NEW h \in Handler, SettleRow(h)
  PROVE  /\ Types' /\ SameNo(h) /\ Steps(h, "settle", "done")
         /\ OnlyRow(out, out', run[h].row) /\ run[h].outcome \in Outcome
         /\ out'[run[h].row].count = out[run[h].row].count
         /\ out'[run[h].row].status
              = resolveOutboxDeliveryStatus(run[h].outcome, run[h].no)
<1>1. /\ run[h].row \in Row /\ run[h].no \in Attempt /\ run[h] \in RunRow
      /\ "done" \in RunAt
  BY DEF Runs, SettleRow, RunAt, At, Numbered, Types
<1>2. /\ run[h].outcome \in Outcome
      /\ resolveOutboxDeliveryStatus(run[h].outcome, run[h].no) \in RowStatus
  BY <1>1, StateSets DEF RunRow
<1>3. run' \in [Handler -> RunRow] /\ SameNo(h) /\ Steps(h, "settle", "done")
  BY <1>1, GoesTo DEF SettleRow, At
<1>4. /\ out' \in [Row -> OutRow] /\ OnlyRow(out, out', run[h].row)
      /\ out'[run[h].row].count = out[run[h].row].count
      /\ out'[run[h].row].status
           = resolveOutboxDeliveryStatus(run[h].outcome, run[h].no)
  BY <1>1, <1>2, StatusSet DEF SettleRow, OnlyRow
<1> QED BY <1>2, <1>3, <1>4 DEF Types, SettleRow, wire

LEMMA DiesTo ==
  ASSUME Types, Runs, NEW h \in Handler, Dies(h)
  PROVE  /\ Types' /\ Only(h)
         /\ run'[h].at = "idle" /\ run'[h].row = NoRow
         /\ late' = late \ {h}
         /\ \/ UNCHANGED item
            \/ /\ h \notin late /\ OnlyRow(item, item', run[h].row)
               /\ item'[run[h].row].status = "done"
<1>1. run[h].row \in Row /\ IdleRun \in RunRow
  BY DEF Runs, Dies, IdleRun, RunRow, RunAt, Outcome
<1>2. run' \in [Handler -> RunRow] /\ run'[h] = IdleRun /\ Only(h)
  BY <1>1, RunSet DEF Dies, Only
<1>3. CASE UNCHANGED item
  BY <1>2, <1>3 DEF Types, Dies, wire, IdleRun
<1>4. CASE h \notin late /\ item' = [item EXCEPT ![run[h].row].status = "done"]
  <2> DEFINE x == [item[run[h].row] EXCEPT !.status = "done"]
  <2>1. item[run[h].row] \in ItemRow
    BY <1>1 DEF Types
  <2>2. x \in ItemRow /\ x.status = "done"
    BY <2>1 DEF ItemRow
  <2>3. item' = [item EXCEPT ![run[h].row] = x]
    BY <1>4
  <2> HIDE DEF x
  <2>4. /\ item' \in [Row -> ItemRow] /\ OnlyRow(item, item', run[h].row)
        /\ item'[run[h].row].status = "done"
    BY <1>1, <2>2, <2>3, ItemSet DEF OnlyRow
  <2> QED BY <1>2, <1>4, <2>4 DEF Types, Dies, wire, IdleRun
<1> QED BY <1>3, <1>4 DEF Dies

LEMMA TakesTo ==
  ASSUME Types, Items, NEW h \in Handler, NEW r \in Row, Takes(h, r)
  PROVE  /\ Types' /\ Only(h)
         /\ run'[h].at = "read" /\ run'[h].row = r
         /\ OnlyRow(item, item', r) /\ item'[r].status = "processing"
<1> DEFINE x == [IdleRun EXCEPT !.at = "read", !.row = r]
           y == [status |-> "processing", tries |-> item[r].tries + 1]
<1>1. x \in RunRow /\ x.at = "read" /\ x.row = r
  BY DEF IdleRun, RunRow, RunAt, Outcome
<1>2. y \in ItemRow /\ y.status = "processing"
  <2>1. item[r] \in ItemRow /\ item[r].tries < ItemTries
    BY DEF Types, Items, Takes
  <2> QED BY <2>1, IndexNowAssumption DEF ItemRow
<1>3. run' = [run EXCEPT ![h] = x] /\ item' = [item EXCEPT ![r] = y]
  BY DEF Takes
<1> HIDE DEF x, y
<1>4. run' \in [Handler -> RunRow] /\ run'[h] = x /\ Only(h)
  BY <1>1, <1>3, RunSet DEF Only
<1>5. item' \in [Row -> ItemRow] /\ item'[r] = y /\ OnlyRow(item, item', r)
  BY <1>2, <1>3, ItemSet DEF OnlyRow
<1> QED BY <1>1, <1>2, <1>4, <1>5 DEF Types, Takes, wire

LEMMA CreatesTo ==
  ASSUME Types, NEW r \in Row, Creates(r)
  PROVE  /\ Types' /\ OnlyRow(item, item', r) /\ item[r].status # "processing"
         /\ item'[r].status = "pending" /\ item'[r].tries = 0
         /\ \/ UNCHANGED sweep
            \/ /\ sweep.at = "create" /\ sweep'.at = "create"
               /\ sweep'.seen = sweep.seen
<1> DEFINE y == [status |-> "pending", tries |-> 0]
           x == [sweep EXCEPT !.todo = @ \ {r}]
<1>1. y \in ItemRow /\ y.status = "pending" /\ y.tries = 0
  BY IndexNowAssumption DEF ItemRow
<1>2. item' = [item EXCEPT ![r] = y] /\ item[r].status # "processing"
  BY DEF Creates, NewItem, Open
<1> HIDE DEF y
<1>3. item' \in [Row -> ItemRow] /\ item'[r] = y /\ OnlyRow(item, item', r)
  BY <1>1, <1>2, ItemSet DEF OnlyRow
<1>4. x \in SweepRow /\ x.at = sweep.at /\ x.seen = sweep.seen
  BY DEF Types, SweepRow
<1>5. UNCHANGED sweep \/ (sweep.at = "create" /\ sweep' = x)
  BY DEF Creates
<1> HIDE DEF x
<1> QED BY <1>1, <1>2, <1>3, <1>4, <1>5 DEF Types, Creates, wire

LEMMA RecoversTo ==
  ASSUME Types, NEW r \in Row, Recovers(r)
  PROVE  /\ Types' /\ OnlyRow(item, item', r)
         /\ item'[r].status = "pending" => item'[r].tries < ItemTries
<1> DEFINE s == IF item[r].tries < ItemTries THEN "pending" ELSE "done"
           y == [item[r] EXCEPT !.status = s]
<1>1. item[r] \in ItemRow
  BY DEF Types
<1>2. y \in ItemRow /\ y.status = s /\ y.tries = item[r].tries
  BY <1>1 DEF ItemRow
<1>3. item' = [item EXCEPT ![r] = y]
  BY DEF Recovers
<1> HIDE DEF y
<1>4. item' \in [Row -> ItemRow] /\ item'[r] = y /\ OnlyRow(item, item', r)
  BY <1>2, <1>3, ItemSet DEF OnlyRow
<1> QED BY <1>2, <1>4 DEF Types, Recovers, wire

LEMMA WaitsTo ==
  ASSUME Types, NEW r \in Row, Waits(r)
  PROVE  /\ Types' /\ OnlyRow(out, out', r)
         /\ out'[r].status = "pending" /\ out'[r].count = out[r].count
BY DEF Types, Waits, OnlyRow, wire

\* The sweep is done with one row of its list.
Dropped(r) ==
  /\ sweep'.at = "recover" /\ sweep'.todo = sweep.todo \ {r}
  /\ sweep'.seen = sweep.seen

LEMMA PassesOverTo ==
  ASSUME Types, NEW r \in Row, PassesOver(r)
  PROVE  Types' /\ Dropped(r)
<1>1. /\ sweep' = [sweep EXCEPT !.todo = @ \ {r}] /\ sweep.at = "recover"
      /\ sweep \in SweepRow
  BY DEF PassesOver, Types
<1>2. sweep' \in SweepRow /\ Dropped(r)
  BY <1>1 DEF SweepRow, Dropped
<1> QED BY <1>2 DEF Types, PassesOver, wire

LEMMA ReappliesTo ==
  ASSUME Types, NEW r \in Row, Reapplies(r)
  PROVE  /\ Types' /\ Dropped(r) /\ OnlyRow(out, out', r)
         /\ out'[r].count = out[r].count
         /\ out'[r].status = resolveOutboxDeliveryStatus(sweep.seen[r].state,
                                                         sweep.seen[r].no)
<1>1. /\ sweep' = [sweep EXCEPT !.todo = @ \ {r}] /\ sweep.at = "recover"
      /\ sweep \in SweepRow
  BY DEF Reapplies, Types
<1>2. sweep' \in SweepRow /\ Dropped(r)
  BY <1>1 DEF SweepRow, Dropped
<1>3. resolveOutboxDeliveryStatus(sweep.seen[r].state, sweep.seen[r].no) \in RowStatus
  BY StateSets DEF Reapplies
<1>4. /\ out' \in [Row -> OutRow] /\ OnlyRow(out, out', r)
      /\ out'[r].count = out[r].count
      /\ out'[r].status = resolveOutboxDeliveryStatus(sweep.seen[r].state,
                                                      sweep.seen[r].no)
  BY <1>3, StatusSet DEF Reapplies, Reapply, OnlyRow
<1> QED BY <1>2, <1>4 DEF Types, Reapplies, wire

LEMMA GivesUpTo ==
  ASSUME Types, Answered, NEW r \in Row, GivesUp(r)
  PROVE  LET no == sweep.seen[r].no IN
         /\ Types' /\ no \in Attempt /\ att[r][no] # "none"
         /\ sweep'.at = "requeue" /\ sweep'.row = r /\ sweep'.no = no
         /\ sweep'.todo = sweep.todo \ {r} /\ sweep'.seen = sweep.seen
         /\ att'[r][no] = "unknown_outcome"
         /\ \A q \in Row, m \in Attempt : q # r \/ m # no => att'[q][m] = att[q][m]
<1> DEFINE no == sweep.seen[r].no
<1>1. no \in Attempt /\ att[r][no] # "none" /\ sweep \in SweepRow
  BY DEF Answered, Seen, GivesUp, Types
<1>2. att' = [att EXCEPT ![r][no] = "unknown_outcome"]
  BY DEF GivesUp
<1>3. sweep' = [sweep EXCEPT !.at = "requeue", !.row = r, !.no = no,
                             !.todo = @ \ {r}]
  BY DEF GivesUp
<1> HIDE DEF no
<1>4. /\ sweep' \in SweepRow
      /\ sweep'.at = "requeue" /\ sweep'.row = r /\ sweep'.no = no
      /\ sweep'.todo = sweep.todo \ {r} /\ sweep'.seen = sweep.seen
  BY <1>1, <1>3 DEF SweepRow
<1>5. att' \in [Row -> [Attempt -> AttemptState]]
  BY <1>1, <1>2, AttSet, StateSets
<1>6. /\ att'[r][no] = "unknown_outcome"
      /\ \A q \in Row, m \in Attempt : q # r \/ m # no => att'[q][m] = att[q][m]
  BY <1>1, <1>2 DEF Types
<1> QED BY <1>1, <1>4, <1>5, <1>6 DEF Types, GivesUp, wire, no

LEMMA RequeueTo ==
  ASSUME Types, Answered, RequeueRow
  PROVE  LET r == sweep.row IN
         /\ Types' /\ r \in Row /\ sweep.no \in Attempt
         /\ OnlyRow(out, out', r) /\ out'[r].count = out[r].count
         /\ out'[r].status
              = resolveOutboxDeliveryStatus("retryable_failed", sweep.no)
         /\ sweep.at = "requeue" /\ sweep'.at = "recover"
         /\ sweep'.todo = sweep.todo /\ sweep'.seen = sweep.seen
<1>1. sweep.row \in Row /\ sweep.no \in Attempt /\ sweep \in SweepRow
  BY DEF Answered, RequeueRow, Types
<1>2. resolveOutboxDeliveryStatus("retryable_failed", sweep.no) \in RowStatus
  BY StateSets DEF Outcome
<1>3. /\ out' \in [Row -> OutRow] /\ OnlyRow(out, out', sweep.row)
      /\ out'[sweep.row].count = out[sweep.row].count
      /\ out'[sweep.row].status
           = resolveOutboxDeliveryStatus("retryable_failed", sweep.no)
  BY <1>1, <1>2, StatusSet DEF RequeueRow, OnlyRow
<1>4. /\ sweep' \in SweepRow /\ sweep'.at = "recover"
      /\ sweep'.todo = sweep.todo /\ sweep'.seen = sweep.seen
  <2>1. sweep' = [sweep EXCEPT !.at = "recover", !.row = NoRow, !.no = 0]
    BY DEF RequeueRow
  <2> QED BY <1>1, <2>1 DEF SweepRow
<1> QED BY <1>1, <1>3, <1>4 DEF Types, RequeueRow, wire, queue

\* Every set of natural numbers has a least member, and the greatest of one
\* that is bounded is its Max.
LEMMA Least ==
  ASSUME NEW T \in SUBSET Nat, T # {}
  PROVE  \E x \in T : \A y \in T : x <= y
<1> DEFINE R == {p \in Nat \X Nat : p[1] < p[2]}
<1>1. IsWellFoundedOn(R, Nat)
  BY Zenon, NatLessThanWellFounded DEF OpToRel
<1>2. \A x, y \in Nat : <<y, x>> \in R <=> y < x
  OBVIOUS
<1> HIDE DEF R
<1>3. PICK x \in T : \A y \in T : <<y, x>> \notin R
  BY <1>1, WFMin
<1>4. ASSUME NEW y \in T PROVE x <= y
  <2>1. x \in Nat /\ y \in Nat /\ ~(y < x)
    BY <1>2, <1>3
  <2> QED BY <2>1
<1> QED BY <1>4

LEMMA Greatest ==
  ASSUME NEW S \in SUBSET Nat, NEW b \in Nat, 0 \in S, \A y \in S : y <= b
  PROVE  Max(S) \in S /\ \A y \in S : y <= Max(S)
<1> DEFINE T == {x \in Nat : \A y \in S : y <= x}
<1>1. PICK u \in T : \A x \in T : u <= x
  <2>1. b \in T
    OBVIOUS
  <2> HIDE DEF T
  <2> QED BY <2>1, Least, T \subseteq Nat DEF T
<1>2. u \in S
  <2>1. SUFFICES ASSUME u \notin S PROVE FALSE
    OBVIOUS
  <2>2. u # 0 /\ u \in Nat /\ \A y \in S : y <= u
    BY <2>1, <1>1
  <2>3. u - 1 \in Nat /\ \A y \in S : y <= u - 1
    BY <2>1, <2>2
  <2>4. u <= u - 1
    BY <2>3, <1>1
  <2> QED BY <2>2, <2>4
<1>3. \E x \in S : \A y \in S : x >= y
  BY <1>1, <1>2
<1> QED BY <1>3 DEF Max

\* The last attempt of a row is one it has, and none is later.
LEMMA LatestIs ==
  ASSUME Types, NEW r \in Row
  PROVE  /\ Latest(r) \in SeenRow
         /\ Latest(r).no = LatestNo(r) /\ LatestNo(r) \in {0} \cup Attempt
         /\ \A n \in Attempt : att[r][n] # "none" => n <= LatestNo(r)
         /\ LatestNo(r) # 0 => /\ att[r][LatestNo(r)] # "none"
                               /\ Latest(r).state = att[r][LatestNo(r)]
         /\ LatestNo(r) = 0 => Latest(r).state = "none"
<1> DEFINE S == {0} \cup {n \in Attempt : att[r][n] # "none"}
<1>1. S \in SUBSET Nat /\ 0 \in S /\ \A y \in S : y <= MaxNo
  BY IndexNowAssumption DEF Attempt
<1>2. Max(S) \in S /\ \A y \in S : y <= Max(S)
  <2> HIDE DEF S
  <2> QED BY <1>1, Greatest, IndexNowAssumption
<1>3. LatestNo(r) = Max(S)
  BY DEF LatestNo
<1> DEFINE k == LatestNo(r)
<1>4. /\ k \in {0} \cup Attempt /\ (k # 0 => att[r][k] # "none")
      /\ \A n \in Attempt : att[r][n] # "none" => n <= k
  BY <1>2, <1>3
<1> HIDE DEF S, k
<1>5. 0 \notin Attempt /\ "none" \in AttemptState
  BY DEF Attempt, AttemptState
<1>6. Latest(r) = IF k = 0 THEN [no |-> 0, state |-> "none"]
                  ELSE [no |-> k, state |-> att[r][k]]
  BY DEF Latest, k
<1>7. k # 0 => att[r][k] \in AttemptState
  BY <1>4 DEF Types
<1> QED BY <1>4, <1>5, <1>6, <1>7 DEF SeenRow, k

\* The sweep lists the stale rows with their last attempts.
LEMMA BeginSweepTo ==
  ASSUME Types, BeginSweep
  PROVE  /\ Types' /\ sweep'.at = "recover"
         /\ sweep'.todo = {r \in Row : Stale(r)}
         /\ \A r \in Row :
              sweep'.seen[r] = IF Stale(r) THEN Latest(r)
                               ELSE [no |-> 0, state |-> "none"]
<1> DEFINE stale == {r \in Row : Stale(r)}
           seen == [r \in Row |-> IF r \in stale THEN Latest(r)
                                  ELSE [no |-> 0, state |-> "none"]]
<1>1. sweep' = [IdleSweep EXCEPT !.at = "recover", !.todo = stale, !.seen = seen]
  BY DEF BeginSweep
<1>2. stale \in SUBSET Row /\ seen \in [Row -> SeenRow]
  BY LatestIs DEF SeenRow, AttemptState
<1>3. \A r \in Row : seen[r] = IF Stale(r) THEN Latest(r)
                                ELSE [no |-> 0, state |-> "none"]
  OBVIOUS
<1> HIDE DEF stale, seen
<1>4. /\ sweep' \in SweepRow /\ sweep'.at = "recover" /\ sweep'.todo = stale
      /\ sweep'.seen = seen
  BY <1>1, <1>2 DEF IdleSweep, SweepRow
<1> QED BY <1>3, <1>4 DEF Types, BeginSweep, wire, queue, stale

LEMMA TypesStep ==
  ASSUME OutboxInv, Moves
  PROVE  Types'
<1>1. Types /\ Runs /\ Answered /\ Items
  BY TypeParts DEF OutboxInv
<1>2. CASE \E r \in Row : \/ Waits(r) \/ Creates(r) \/ Recovers(r) \/ PassesOver(r)
                          \/ Reapplies(r) \/ GivesUp(r)
  BY <1>1, <1>2, WaitsTo, CreatesTo, RecoversTo, PassesOverTo, ReappliesTo, GivesUpTo
<1>3. CASE Aside \/ Rests
  BY <1>1, <1>3 DEF Aside, Rests, others, wire, Types
<1>4. CASE BeginSweep \/ RequeueRow
  BY <1>1, <1>4, BeginSweepTo, RequeueTo
<1>5. ASSUME NEW h \in Handler, Handles(h) PROVE Types'
  <2>1. CASE Hangs(h)
    BY <1>1, <2>1 DEF Hangs, wire, Types
  <2>2. CASE \E r \in Row : Takes(h, r)
    BY <1>1, <2>2, TakesTo
  <2>3. CASE Begins(h) \/ Passes(h) \/ Cancels(h) \/ Starts(h) \/ MarkProcessing(h)
    BY <1>1, <2>3, BeginsTo, PassesTo, CancelsTo, StartsTo, MarkTo
  <2>4. CASE Send(h) \/ classifyIndexNowResult(h) \/ RecordAttempt(h)
             \/ SettleRow(h) \/ Dies(h)
    BY <1>1, <2>4, SendTo, AnswerTo, RecordTo, SettleTo, DiesTo
  <2> QED BY <1>5, <2>1, <2>2, <2>3, <2>4 DEF Handles
<1> QED BY <1>2, <1>3, <1>4, <1>5 DEF Moves, Rows
-----------------------------------------------------------------------------
\* Moves that leave the handlers alone.
RunsStay == UNCHANGED <<run, late>>

LEMMA RowsLeaveRuns ==
  ASSUME Rows
  PROVE  RunsStay /\ UNCHANGED wire
<1> USE DEF RunsStay, wire, queue, others
<1>1. CASE \E r \in Row : \/ Waits(r) \/ Creates(r) \/ Recovers(r) \/ PassesOver(r)
                          \/ Reapplies(r) \/ GivesUp(r)
  BY <1>1 DEF Waits, Creates, Recovers, PassesOver, Reapplies, GivesUp
<1>2. CASE Aside \/ Rests \/ BeginSweep \/ RequeueRow
  BY <1>2 DEF Aside, Rests, BeginSweep, RequeueRow
<1> QED BY <1>1, <1>2 DEF Rows

\* A handler at work has a row, and from its read on a number.
LEMMA RunsStep ==
  ASSUME OutboxInv, Moves, Kept
  PROVE  Runs'
<1>1. Types /\ Runs /\ Items /\ hangs \in Nat
  BY TypeParts DEF OutboxInv, Rest
<1> USE DEF Runs, At, Numbered
<1>2. late' # {} => hangs' > 0
  <2>1. late' \subseteq late \/ \E h \in Handler : Hangs(h)
    <3>1. CASE Rows
      BY <3>1, RowsLeaveRuns DEF RunsStay
    <3>2. ASSUME NEW h \in Handler, Handles(h) PROVE late' \subseteq late \/ Hangs(h)
      BY <3>2 DEF Handles, Begins, Passes, Cancels, Starts, MarkProcessing, Send,
           classifyIndexNowResult, RecordAttempt, SettleRow, Dies, Takes, others
    <3> QED BY <3>1, <3>2 DEF Moves
  <2>2. hangs' > 0 \/ late' \subseteq late
    BY <2>1 DEF Hangs
  <2>3. ASSUME late' # {}, late' \subseteq late PROVE hangs > 0
    BY <1>1, <2>3
  <2> QED BY <1>1, <2>2, <2>3 DEF Kept
<1>3. CASE Rows
  BY <1>1, <1>2, <1>3, RowsLeaveRuns DEF RunsStay
<1>4. ASSUME NEW h \in Handler, Handles(h) PROVE Runs'
  <2>1. CASE Begins(h)
    <3>1. run'[h].no \in Attempt
      <4>1. run'[h].no \in {0} \cup Attempt /\ out[run[h].row].count \in Nat
        <5>1. run[h].row \in Row /\ run'[h] \in RunRow
          BY <1>1, <2>1, BeginsTo DEF Begins, Types
        <5>2. out[run[h].row] \in OutRow
          BY <1>1, <5>1 DEF Types
        <5> QED BY <5>1, <5>2 DEF OutRow, RunRow, Attempt
      <4>2. run'[h].no = out[run[h].row].count + 1
        BY <1>1, <2>1, BeginsTo
      <4> QED BY <4>1, <4>2
    <3> QED BY <1>1, <1>2, <2>1, <3>1, BeginsTo DEF Steps, Only
  <2>2. CASE Passes(h)
    BY <1>1, <1>2, <2>2, PassesTo DEF Steps, Only, SameNo
  <2>3. CASE Cancels(h) \/ Starts(h) \/ MarkProcessing(h) \/ Send(h)
             \/ RecordAttempt(h) \/ SettleRow(h)
    BY <1>1, <1>2, <2>3, CancelsTo, StartsTo, MarkTo, SendTo, RecordTo, SettleTo
       DEF Steps, Only, SameNo
  <2>4. CASE classifyIndexNowResult(h)
    BY <1>1, <1>2, <2>4, AnswerTo DEF Only, SameNo
  <2>5. CASE Dies(h)
    BY <1>1, <1>2, <2>5, DiesTo DEF Only
  <2>6. CASE Hangs(h)
    BY <1>1, <1>2, <2>6 DEF Hangs
  <2>7. CASE \E r \in Row : Takes(h, r)
    <3>1. PICK r \in Row : Takes(h, r)
      BY <2>7
    <3>2. /\ Only(h) /\ run'[h].at = "read" /\ run'[h].row = r /\ UNCHANGED late
          /\ h \notin late
      BY <1>1, <3>1, TakesTo DEF Takes
    <3> QED BY <1>1, <1>2, <3>2 DEF Only
  <2> QED BY <1>4, <2>1, <2>2, <2>3, <2>4, <2>5, <2>6, <2>7 DEF Handles
<1> QED BY <1>3, <1>4 DEF Moves

\* An attempt's row stays, and only Send sends.
Grown == \A r \in Row, n \in Attempt : att[r][n] # "none" => att'[r][n] # "none"

LEMMA AttGrows ==
  ASSUME OutboxInv, Moves
  PROVE  Grown
<1>1. Types /\ Runs /\ Answered
  BY TypeParts DEF OutboxInv
<1>2. ASSUME NEW h \in Handler, Handles(h) PROVE Grown
  <2>1. CASE Starts(h)
    BY <1>1, <2>1, StartsTo DEF Tells, Grown
  <2>2. CASE RecordAttempt(h)
    <3>1. Tells(h, run[h].outcome) /\ run[h].outcome # "none"
      BY <1>1, <2>2, RecordTo, StateSets
    <3> QED BY <3>1 DEF Tells, Grown
  <2>3. CASE UNCHANGED att
    BY <2>3 DEF Grown
  <2> QED BY <1>2, <2>1, <2>2, <2>3 DEF Handles, Begins, Passes, Cancels,
       MarkProcessing, Send, classifyIndexNowResult, SettleRow, Dies, Hangs, Takes,
       others
<1>3. ASSUME NEW r \in Row, GivesUp(r) PROVE Grown
  BY <1>1, <1>3, GivesUpTo DEF Grown
<1>4. CASE \E r \in Row : \/ Waits(r) \/ Creates(r) \/ Recovers(r)
                          \/ PassesOver(r) \/ Reapplies(r)
  BY <1>4 DEF Grown, Waits, Creates, Recovers, PassesOver, Reapplies
<1>5. CASE Aside \/ Rests \/ BeginSweep \/ RequeueRow
  BY <1>5 DEF Grown, Aside, Rests, BeginSweep, RequeueRow, others
<1> QED BY <1>2, <1>3, <1>4, <1>5 DEF Moves, Rows

\* A handler that goes anywhere but to its request.
LEMMA RequestsGo ==
  ASSUME Types, Runs, Requests, Grown, UNCHANGED sent, NEW h \in Handler, Only(h),
         ~At(h, {"mark", "http"})',
         At(h, Owning)' => /\ At(h, Owning) /\ SameNo(h)
                           /\ run'[h].row = run[h].row
  PROVE  Requests'
<1> USE DEF Requests, At, Only, Owning
<1>1. \A g \in Handler :
        At(g, Owning)' => /\ At(g, Owning) /\ run[g].row \in Row /\ run[g].no \in Attempt
                          /\ run'[g].row = run[g].row /\ run'[g].no = run[g].no
  BY DEF Runs, Numbered, SameNo
<1>2. \A g \in Handler : At(g, Owning)' => att'[run'[g].row][run'[g].no] # "none"
  BY <1>1 DEF Grown
<1>3. \A g \in Handler : At(g, {"mark", "http"})' => g # h
  OBVIOUS
<1>4. OneRequestPerAttempt'
  BY DEF OneRequestPerAttempt, Grown
<1>5. \A g \in Handler : At(g, {"mark", "http"})' => sent'[run'[g].row][run'[g].no] = 0
  BY <1>3
<1>6. \A f, g \in Handler :
        (/\ At(f, {"mark", "http"})' /\ At(g, {"mark", "http"})'
         /\ run'[f].row = run'[g].row /\ run'[f].no = run'[g].no) => f = g
  BY <1>3
<1> QED BY <1>2, <1>4, <1>5, <1>6

\* An attempt is owned by the handler that made its row.
LEMMA RequestsStep ==
  ASSUME OutboxInv, Moves
  PROVE  Requests'
<1>1. Types /\ Runs /\ Requests /\ Items /\ Grown
  BY TypeParts, AttGrows DEF OutboxInv
<1> USE DEF Requests, At, Owning
<1>2. CASE Rows
  <2>1. UNCHANGED <<run, sent>>
    BY <1>2, RowsLeaveRuns DEF RunsStay, wire
  <2>2. \A g \in Handler : At(g, Owning) => run[g].row \in Row /\ run[g].no \in Attempt
    BY <1>1 DEF Runs, Numbered
  <2>3. OneRequestPerAttempt'
    BY <1>1, <2>1 DEF OneRequestPerAttempt, Grown
  <2> QED BY <1>1, <2>1, <2>2, <2>3 DEF Grown
<1>3. ASSUME NEW h \in Handler, Handles(h) PROVE Requests'
  <2> USE DEF others, wire
  <2>1. CASE Begins(h)
    BY <1>1, <2>1, BeginsTo, RequestsGo DEF Begins, Steps
  <2>2. CASE Passes(h)
    BY <1>1, <2>2, PassesTo, RequestsGo DEF Passes, Steps
  <2>3. CASE Cancels(h)
    BY <1>1, <2>3, CancelsTo, RequestsGo DEF Cancels, Steps
  <2>4. CASE RecordAttempt(h)
    BY <1>1, <2>4, RecordTo, RequestsGo DEF RecordAttempt, Steps
  <2>5. CASE SettleRow(h)
    BY <1>1, <2>5, SettleTo, RequestsGo DEF SettleRow, Steps
  <2>6. CASE classifyIndexNowResult(h)
    BY <1>1, <2>6, AnswerTo, RequestsGo DEF classifyIndexNowResult
  <2>7. CASE Dies(h)
    BY <1>1, <2>7, DiesTo, RequestsGo DEF Dies
  <2>8. CASE \E r \in Row : Takes(h, r)
    BY <1>1, <2>8, TakesTo, RequestsGo DEF Takes
  <2>9. CASE Hangs(h)
    BY <1>1, <2>9 DEF Hangs, OneRequestPerAttempt
  <2>10. CASE Starts(h)
    <3> DEFINE r == run[h].row
               n == run[h].no
    <3>1. r \in Row /\ n \in Attempt /\ att[r][n] = "none" /\ UNCHANGED sent
      BY <1>1, <2>10 DEF Starts, Runs, Numbered
    <3>2. sent[r][n] = 0
      <4>1. sent[r][n] \in Nat
        BY <1>1, <3>1 DEF Types
      <4>2. sent[r][n] <= 1 /\ sent[r][n] # 1
        BY <1>1, <3>1 DEF OneRequestPerAttempt
      <4> QED BY <4>1, <4>2
    <3>3. /\ Only(h) /\ run'[h].row = r /\ run'[h].no = n /\ run'[h].at = "mark"
          /\ att'[r][n] # "none"
      BY <1>1, <2>10, StartsTo DEF Steps, SameNo, Tells
    <3>4. \A g \in Handler : At(g, Owning) =>
            /\ ~(run[g].row = r /\ run[g].no = n)
            /\ run[g].row \in Row /\ run[g].no \in Attempt
      BY <1>1, <3>1 DEF Runs, Numbered
    <3>5. OneRequestPerAttempt'
      BY <1>1, <3>1 DEF OneRequestPerAttempt, Grown
    <3>6. \A g \in Handler : At(g, Owning)' => att'[run'[g].row][run'[g].no] # "none"
      BY <1>1, <3>3, <3>4 DEF Grown, Only
    <3>7. \A g \in Handler :
            At(g, {"mark", "http"})' => sent'[run'[g].row][run'[g].no] = 0
      BY <1>1, <3>1, <3>2, <3>3 DEF Only
    <3>8. \A f, g \in Handler :
            (/\ At(f, {"mark", "http"})' /\ At(g, {"mark", "http"})'
             /\ run'[f].row = run'[g].row /\ run'[f].no = run'[g].no) => f = g
      BY <1>1, <3>3, <3>4 DEF Only
    <3> QED BY <3>5, <3>6, <3>7, <3>8
  <2>11. CASE MarkProcessing(h)
    <3>1. /\ Only(h) /\ run'[h].row = run[h].row /\ run'[h].no = run[h].no
          /\ run[h].at = "mark" /\ run'[h].at = "http" /\ UNCHANGED <<sent, att>>
      BY <1>1, <2>11, MarkTo DEF Steps, SameNo, MarkProcessing
    <3>2. \A g \in Handler :
            /\ run'[g].row = run[g].row /\ run'[g].no = run[g].no
            /\ At(g, Owning)' => At(g, Owning)
            /\ At(g, {"mark", "http"})' => At(g, {"mark", "http"})
      BY <3>1 DEF Only
    <3> HIDE DEF At, Owning
    <3> QED BY <1>1, <3>1, <3>2 DEF OneRequestPerAttempt
  <2>12. CASE Send(h)
    <3> DEFINE r == run[h].row
               n == run[h].no
    <3>1. /\ r \in Row /\ n \in Attempt /\ UNCHANGED att /\ att[r][n] # "none"
          /\ sent[r][n] = 0
      BY <1>1, <2>12 DEF Send, Runs, Numbered
    <3>2. /\ Only(h) /\ run'[h].row = r /\ run'[h].no = n
          /\ run[h].at = "http" /\ run'[h].at = "answer" /\ sent'[r][n] = 1
          /\ \A q \in Row, m \in Attempt : q # r \/ m # n => sent'[q][m] = sent[q][m]
      BY <1>1, <2>12, <3>1, SendTo DEF Steps, SameNo
    <3>3. OneRequestPerAttempt'
      BY <1>1, <3>1, <3>2 DEF OneRequestPerAttempt
    <3>4. \A g \in Handler :
            At(g, {"mark", "http"})' =>
              /\ g # h /\ run'[g] = run[g] /\ run[g].row \in Row /\ run[g].no \in Attempt
              /\ ~(run[g].row = r /\ run[g].no = n)
      BY <1>1, <3>2 DEF Only, Runs, Numbered
    <3>5. \A g \in Handler :
            At(g, {"mark", "http"})' => sent'[run'[g].row][run'[g].no] = 0
      BY <1>1, <3>2, <3>4
    <3>6. \A g \in Handler : At(g, Owning)' => att'[run'[g].row][run'[g].no] # "none"
      BY <1>1, <3>1, <3>2 DEF Only
    <3>7. \A f, g \in Handler :
            (/\ At(f, {"mark", "http"})' /\ At(g, {"mark", "http"})'
             /\ run'[f].row = run'[g].row /\ run'[f].no = run'[g].no) => f = g
      BY <1>1, <3>4
    <3> QED BY <3>3, <3>5, <3>6, <3>7
  <2> QED BY <1>3, <2>1, <2>2, <2>3, <2>4, <2>5, <2>6, <2>7, <2>8, <2>9, <2>10,
             <2>11, <2>12 DEF Handles
<1> QED BY <1>2, <1>3 DEF Moves
-----------------------------------------------------------------------------
\* Answers are kept, and handlers leave the sweep alone.
LEMMA AnswersGrow ==
  ASSUME OutboxInv, Moves
  PROVE  /\ \A r \in Row : answers[r] \subseteq answers'[r]
         /\ Rows \/ UNCHANGED sweep
<1>1. Types /\ Runs
  BY TypeParts DEF OutboxInv
<1>2. CASE Rows
  BY <1>2, RowsLeaveRuns DEF wire
<1>3. ASSUME NEW h \in Handler, Handles(h)
      PROVE  (\A r \in Row : answers[r] \subseteq answers'[r]) /\ UNCHANGED sweep
  <2>1. CASE classifyIndexNowResult(h)
    BY <1>1, <2>1, AnswerTo DEF classifyIndexNowResult
  <2>2. CASE ~classifyIndexNowResult(h)
    BY <1>3, <2>2 DEF Handles, Begins, Passes, Cancels, Starts, MarkProcessing, Send,
       RecordAttempt, SettleRow, Dies, Hangs, Takes, others, wire
  <2> QED BY <2>1, <2>2
<1> QED BY <1>2, <1>3 DEF Moves

\* What a handler that records or settles was answered stays true.
Heard == \A h \in Handler :
           At(h, {"record", "settle"}) => run[h].outcome \in answers[run[h].row]

LEMMA HeardStep ==
  ASSUME OutboxInv, Moves
  PROVE  Heard'
<1>1. Types /\ Runs /\ Heard /\ Items /\ \A r \in Row : answers[r] \subseteq answers'[r]
  BY TypeParts, AnswersGrow DEF OutboxInv, Answered, Heard
<1> USE DEF Heard, At
<1>2. \A h \in Handler : At(h, {"record", "settle"}) => run[h].row \in Row
  BY <1>1 DEF Runs
<1>3. CASE Rows
  BY <1>1, <1>2, <1>3, RowsLeaveRuns DEF RunsStay
<1>4. ASSUME NEW h \in Handler, Only(h),
             At(h, {"record", "settle"})' =>
               \/ /\ At(h, {"record", "settle"}) /\ run'[h].row = run[h].row
                  /\ run'[h].outcome = run[h].outcome
               \/ run'[h].outcome \in answers'[run'[h].row]
      PROVE  Heard'
  BY <1>1, <1>2, <1>4 DEF Only
<1>5. ASSUME NEW h \in Handler, Handles(h) PROVE Heard'
  <2>1. CASE Begins(h) \/ Passes(h) \/ Cancels(h) \/ Starts(h)
    <3>1. Only(h) /\ ~At(h, {"record", "settle"})'
      BY <1>1, <2>1, BeginsTo, PassesTo, CancelsTo, StartsTo DEF Steps
    <3> QED BY <1>4, <3>1
  <2>2. CASE MarkProcessing(h) \/ Send(h) \/ SettleRow(h) \/ Dies(h)
    <3>1. Only(h) /\ ~At(h, {"record", "settle"})'
      BY <1>1, <2>2, MarkTo, SendTo, SettleTo, DiesTo DEF Steps
    <3> QED BY <1>4, <3>1
  <2>3. CASE classifyIndexNowResult(h)
    BY <1>1, <1>4, <2>3, AnswerTo
  <2>4. CASE RecordAttempt(h)
    BY <1>1, <1>4, <2>4, RecordTo DEF Steps
  <2>5. CASE \E r \in Row : Takes(h, r)
    <3>1. Only(h) /\ ~At(h, {"record", "settle"})'
      BY <1>1, <2>5, TakesTo
    <3> QED BY <1>4, <3>1
  <2>6. CASE Hangs(h)
    BY <1>1, <1>2, <2>6 DEF Hangs
  <2> QED BY <1>5, <2>1, <2>2, <2>3, <2>4, <2>5, <2>6 DEF Handles
<1> QED BY <1>3, <1>5 DEF Moves

\* An attempt with an outcome got it as an answer.
Recorded == \A r \in Row, n \in Attempt :
              att[r][n] \in Outcome => att[r][n] \in answers[r]

LEMMA RecordedStep ==
  ASSUME OutboxInv, Moves
  PROVE  Recorded'
<1>1. /\ Types /\ Runs /\ Heard /\ Answered /\ Recorded
      /\ \A r \in Row : answers[r] \subseteq answers'[r]
  BY TypeParts, AnswersGrow DEF OutboxInv, Answered, Heard, Recorded
<1> USE DEF Recorded
<1>2. CASE UNCHANGED att
  BY <1>1, <1>2
<1>3. ASSUME NEW h \in Handler, Starts(h) PROVE Recorded'
  BY <1>1, <1>3, StartsTo, StateSets DEF Tells
<1>4. ASSUME NEW h \in Handler, RecordAttempt(h) PROVE Recorded'
  <2>1. run[h].outcome \in answers[run[h].row] /\ run[h].row \in Row
    BY <1>1, <1>4 DEF RecordAttempt, Heard, At, Runs
  <2> QED BY <1>1, <1>4, <2>1, RecordTo DEF Tells
<1>5. ASSUME NEW r \in Row, GivesUp(r) PROVE Recorded'
  BY <1>1, <1>5, GivesUpTo, StateSets
<1>6. UNCHANGED att \/ (\E h \in Handler : Starts(h) \/ RecordAttempt(h))
      \/ \E r \in Row : GivesUp(r)
  <2>1. CASE Rows
    BY <2>1 DEF Rows, Waits, Creates, Recovers, PassesOver, Reapplies, Aside, Rests,
       BeginSweep, RequeueRow, others
  <2>2. ASSUME NEW h \in Handler, Handles(h)
        PROVE  UNCHANGED att \/ Starts(h) \/ RecordAttempt(h)
    BY <2>2 DEF Handles, Begins, Passes, Cancels, MarkProcessing, Send,
       classifyIndexNowResult, SettleRow, Dies, Hangs, Takes, others
  <2> QED BY <2>1, <2>2 DEF Moves
<1> QED BY <1>2, <1>3, <1>4, <1>5, <1>6

LEMMA AnsweredStep ==
  ASSUME OutboxInv, Moves
  PROVE  Answered'
<1>1. /\ Types /\ Answered /\ Grown /\ Recorded
      /\ \A r \in Row : answers[r] \subseteq answers'[r]
      /\ Rows \/ UNCHANGED sweep
  BY TypeParts, AnswersGrow, AttGrows DEF OutboxInv, Answered, Recorded
<1>2. ASSUME sweep'.seen = sweep.seen PROVE \A r \in Row : Seen(r)'
  <2>1. ASSUME NEW r \in Row PROVE Seen(r)'
    BY <1>1, <1>2 DEF Answered, Seen, Grown
  <2> QED BY <2>1
<1>3. ASSUME \A r \in Row : sweep'.seen[r].state = "none" PROVE \A r \in Row : Seen(r)'
  BY <1>3, StateSets DEF Seen
<1> DEFINE Waiting == sweep.at = "requeue" =>
                        /\ sweep.row \in Row /\ sweep.no \in Attempt
                        /\ att[sweep.row][sweep.no] # "none"
<1>4. CASE UNCHANGED sweep
  <2>1. \A r \in Row : Seen(r)'
    BY <1>2, <1>4
  <2>2. Waiting'
    BY <1>1, <1>4 DEF Answered, Grown
  <2> QED BY <2>1, <2>2, HeardStep, RecordedStep DEF Answered, Heard, Recorded
<1>5. CASE sweep' # sweep
  <2> USE DEF others
  <2>1. CASE \E r \in Row : Creates(r) \/ PassesOver(r) \/ Reapplies(r)
    <3>1. sweep'.at # "requeue" /\ sweep'.seen = sweep.seen
      BY <1>1, <1>5, <2>1, CreatesTo, PassesOverTo, ReappliesTo DEF Dropped
    <3> QED BY <1>2, <3>1, HeardStep, RecordedStep DEF Answered, Heard, Recorded
  <2>2. ASSUME NEW r \in Row, GivesUp(r) PROVE Answered'
    <3>1. sweep'.seen = sweep.seen /\ Waiting'
      BY <1>1, <2>2, GivesUpTo DEF Grown
    <3> QED BY <1>2, <3>1, HeardStep, RecordedStep DEF Answered, Heard, Recorded
  <2>3. CASE RequeueRow
    <3>1. sweep'.at # "requeue" /\ sweep'.seen = sweep.seen
      BY <1>1, <2>3, RequeueTo
    <3> QED BY <1>2, <3>1, HeardStep, RecordedStep DEF Answered, Heard, Recorded
  <2>4. CASE Rests
    <3>1. sweep'.at # "requeue" /\ sweep'.seen \in {sweep.seen, IdleSweep.seen}
      BY <2>4 DEF Rests
    <3>2. \A r \in Row : IdleSweep.seen[r].state = "none"
      BY DEF IdleSweep
    <3> QED BY <1>2, <1>3, <3>1, <3>2, HeardStep, RecordedStep
            DEF Answered, Heard, Recorded
  <2>5. CASE BeginSweep
    <3>1. sweep'.at # "requeue" /\ UNCHANGED <<att, answers>>
      BY <1>1, <2>5, BeginSweepTo DEF BeginSweep, wire
    <3>2. ASSUME NEW r \in Row PROVE Seen(r)'
      <4>1. CASE Stale(r)
        <5>1. sweep'.seen[r] = Latest(r)
          BY <1>1, <2>5, <4>1, BeginSweepTo
        <5> DEFINE l == Latest(r)
        <5>2. l.state # "none" => /\ l.no \in Attempt /\ att[r][l.no] # "none"
                                  /\ l.state = att[r][l.no]
          BY <1>1, LatestIs
        <5> HIDE DEF l
        <5>3. sweep'.seen[r] = l
          BY <5>1 DEF l
        <5>4. l.state \in Outcome => l.state \in answers[r]
          BY <1>1, <5>2, StateSets DEF Recorded
        <5> QED BY <3>1, <5>2, <5>3, <5>4 DEF Seen
      <4>2. CASE ~Stale(r)
        <5>1. sweep'.seen[r].state = "none"
          BY <1>1, <2>5, <4>2, BeginSweepTo
        <5> QED BY <5>1, StateSets DEF Seen
      <4> QED BY <4>1, <4>2
    <3> QED BY <3>1, <3>2, HeardStep, RecordedStep DEF Answered, Heard, Recorded
  <2>6. CASE Aside \/ \E r \in Row : Waits(r) \/ Recovers(r)
    BY <1>5, <2>6 DEF Aside, Waits, Recovers
  <2> QED BY <1>1, <1>5, <2>1, <2>2, <2>3, <2>4, <2>5, <2>6 DEF Rows
<1> QED BY <1>4, <1>5
-----------------------------------------------------------------------------
\* What a row's status says.
Evidenced(r) ==
  /\ out[r].status \in {"accepted", "permanent_failed"} =>
       out[r].status \in answers[r]
  /\ out[r].status = "dead_letter" =>
       \E n \in Attempt : n >= MaxAttempts /\ att[r][n] # "none"

\* A status that was resolved from an answer, for an attempt that was started.
LEMMA ResolvedIsEvidenced ==
  ASSUME Types', NEW r \in Row, NEW o \in Outcome, NEW n \in Attempt,
         out'[r].status = resolveOutboxDeliveryStatus(o, n),
         o \in {"accepted", "permanent_failed"} => o \in answers'[r],
         att'[r][n] # "none"
  PROVE  Evidenced(r)'
<1>1. n \in Nat
  BY IndexNowAssumption DEF Attempt
<1> DEFINE s == resolveOutboxDeliveryStatus(o, n)
<1>2. /\ s \in {"accepted", "permanent_failed"} => s = o
      /\ s = "dead_letter" => n >= MaxAttempts
  BY <1>1, Resolved
<1> HIDE DEF s
<1>3. out'[r].status = s
  BY DEF s
<1> QED BY <1>2, <1>3 DEF Evidenced

\* Who writes a row writes what was answered.
LEMMA EvidenceStep ==
  ASSUME OutboxInv, Moves
  PROVE  \A r \in Row : Evidenced(r)'
<1>1. /\ Types /\ Runs /\ Requests /\ Answered /\ Grown /\ Types'
      /\ \A r \in Row : answers[r] \subseteq answers'[r] /\ Evidenced(r)
  BY TypeParts, TypesStep, AnswersGrow, AttGrows
     DEF OutboxInv, OutcomeEvidenced, Evidenced
<1>2. ASSUME NEW r \in Row, out'[r].status = out[r].status PROVE Evidenced(r)'
  BY <1>1, <1>2 DEF Evidenced, Grown
<1>3. ASSUME NEW r \in Row, out'[r].status \in {"pending", "processing", "cancelled"}
      PROVE  Evidenced(r)'
  BY <1>3 DEF Evidenced
<1>4. CASE UNCHANGED out
  BY <1>2, <1>4
<1>5. ASSUME NEW q \in Row, OnlyRow(out, out', q), Evidenced(q)'
      PROVE  \A r \in Row : Evidenced(r)'
  <2>1. ASSUME NEW r \in Row, r # q PROVE Evidenced(r)'
    BY <1>2, <1>5, <2>1 DEF OnlyRow
  <2> QED BY <1>5, <2>1
<1>6. ASSUME NEW h \in Handler, SettleRow(h) PROVE \A r \in Row : Evidenced(r)'
  <2> DEFINE r == run[h].row
             n == run[h].no
             o == run[h].outcome
  <2>1. /\ r \in Row /\ n \in Attempt /\ o \in answers[r] /\ att[r][n] # "none"
        /\ UNCHANGED <<att, answers>>
    BY <1>1, <1>6 DEF SettleRow, Runs, Requests, Answered, At, Numbered, Owning, wire
  <2>2. /\ o \in Outcome /\ OnlyRow(out, out', r)
        /\ out'[r].status = resolveOutboxDeliveryStatus(o, n)
    BY <1>1, <1>6, SettleTo
  <2> HIDE DEF r, n, o
  <2> QED BY <1>1, <1>5, <2>1, <2>2, ResolvedIsEvidenced
<1>7. ASSUME NEW r \in Row, Reapplies(r) PROVE \A q \in Row : Evidenced(q)'
  <2> DEFINE n == sweep.seen[r].no
             o == sweep.seen[r].state
  <2>1. o \in Outcome /\ UNCHANGED <<att, answers>>
    BY <1>7 DEF Reapplies, wire
  <2>2. n \in Attempt /\ o \in answers[r] /\ att[r][n] # "none"
    BY <1>1, <2>1, StateSets DEF Answered, Seen
  <2>3. OnlyRow(out, out', r) /\ out'[r].status = resolveOutboxDeliveryStatus(o, n)
    BY <1>1, <1>7, ReappliesTo
  <2> HIDE DEF n, o
  <2> QED BY <1>1, <1>5, <2>1, <2>2, <2>3, ResolvedIsEvidenced
<1>8. CASE RequeueRow
  <2> DEFINE r == sweep.row
             n == sweep.no
             o == "retryable_failed"
  <2>1. /\ UNCHANGED <<att, answers>> /\ r \in Row /\ n \in Attempt
        /\ att[r][n] # "none" /\ o \in Outcome
    BY <1>1, <1>8 DEF RequeueRow, wire, Answered, Outcome
  <2>2. /\ OnlyRow(out, out', r)
        /\ out'[r].status = resolveOutboxDeliveryStatus(o, n)
    BY <1>1, <1>8, RequeueTo
  <2>3. o \notin {"accepted", "permanent_failed"}
    OBVIOUS
  <2> HIDE DEF r, n, o
  <2> QED BY <1>1, <1>5, <2>1, <2>2, <2>3, ResolvedIsEvidenced
<1>9. ASSUME NEW h \in Handler, Cancels(h) \/ MarkProcessing(h)
      PROVE  \A r \in Row : Evidenced(r)'
  <2>1. run[h].row \in Row
    BY <1>1, <1>9 DEF Runs, At, Cancels, MarkProcessing
  <2>2. /\ OnlyRow(out, out', run[h].row)
        /\ out'[run[h].row].status \in {"processing", "cancelled"}
    BY <1>1, <1>9, CancelsTo, MarkTo
  <2> QED BY <1>3, <1>5, <2>1, <2>2
<1>10. ASSUME NEW r \in Row, Waits(r) PROVE \A q \in Row : Evidenced(q)'
  BY <1>1, <1>3, <1>5, <1>10, WaitsTo
<1>11. CASE Rows
  BY <1>4, <1>7, <1>8, <1>10, <1>11 DEF Rows, Creates, Recovers, PassesOver, GivesUp,
     Aside, Rests, BeginSweep, others
<1>12. ASSUME NEW h \in Handler, Handles(h) PROVE \A r \in Row : Evidenced(r)'
  <2>1. CASE UNCHANGED out
    BY <1>4, <2>1
  <2> QED BY <1>6, <1>9, <1>12, <2>1 DEF Handles, Begins, Passes, Starts, Send,
          classifyIndexNowResult, RecordAttempt, Dies, Hangs, Takes, others
<1> QED BY <1>11, <1>12 DEF Moves

\* The fence keeps a row to one handler among those that have their lease.
LEMMA ItemsStep ==
  ASSUME OutboxInv, Moves
  PROVE  Items'
<1>1. Types /\ Runs /\ Items /\ Types'
  BY TypeParts, TypesStep DEF OutboxInv
<1>2. \A h \in Handler : ~At(h, {"idle"}) => run[h].row \in Row
  BY <1>1 DEF Runs
<1> USE DEF Items, At
<1>3. CASE UNCHANGED <<item, run, late>>
  BY <1>1, <1>2, <1>3
<1>4. ASSUME NEW h \in Handler, Only(h), UNCHANGED <<item, late>>,
             run[h].at # "idle", run'[h].row = run[h].row
      PROVE  Items'
  BY <1>1, <1>2, <1>4 DEF Only
<1>5. ASSUME NEW h \in Handler, Handles(h) PROVE Items'
  <2>1. CASE Begins(h) \/ Passes(h)
    <3>1. /\ Only(h) /\ UNCHANGED <<item, late>> /\ run[h].at # "idle"
          /\ run'[h].row = run[h].row
      BY <1>1, <2>1, BeginsTo, PassesTo DEF Steps, Begins, Passes, others
    <3> QED BY <1>4, <3>1
  <2>2. CASE Cancels(h) \/ Starts(h) \/ MarkProcessing(h)
    <3>1. /\ Only(h) /\ UNCHANGED <<item, late>> /\ run[h].at # "idle"
          /\ run'[h].row = run[h].row
      BY <1>1, <2>2, CancelsTo, StartsTo, MarkTo
         DEF Steps, Cancels, Starts, MarkProcessing
    <3> QED BY <1>4, <3>1
  <2>3. CASE Send(h) \/ RecordAttempt(h) \/ SettleRow(h)
    <3>1. /\ Only(h) /\ UNCHANGED <<item, late>> /\ run[h].at # "idle"
          /\ run'[h].row = run[h].row
      BY <1>1, <2>3, SendTo, RecordTo, SettleTo DEF Steps, Send, RecordAttempt, SettleRow
    <3> QED BY <1>4, <3>1
  <2>4. CASE classifyIndexNowResult(h)
    <3>1. /\ Only(h) /\ UNCHANGED <<item, late>> /\ run[h].at # "idle"
          /\ run'[h].row = run[h].row
      BY <1>1, <2>4, AnswerTo DEF classifyIndexNowResult
    <3> QED BY <1>4, <3>1
  <2>5. CASE Hangs(h)
    BY <1>1, <1>2, <2>5 DEF Hangs
  <2>6. CASE Dies(h)
    <3>1. /\ Only(h) /\ run'[h].at = "idle" /\ late' = late \ {h}
          /\ run[h].at # "idle" /\ run[h].row \in Row
          /\ \/ UNCHANGED item
             \/ /\ h \notin late /\ OnlyRow(item, item', run[h].row)
                /\ item'[run[h].row].status = "done"
      BY <1>1, <1>2, <2>6, DiesTo DEF Dies
    <3>2. \A g \in Handler \ late' : ~At(g, {"idle"})' =>
            g # h /\ g \notin late /\ run'[g] = run[g] /\ run[g].row \in Row
      BY <1>2, <3>1 DEF Only
    <3>3. \A f, g \in Handler \ late' :
            ~At(f, {"idle"})' /\ run'[g].row = run'[f].row => f = g
      <4>1. \A g \in Handler \ late' : At(g, {"idle"})' => run'[g].row = NoRow
        <5>1. \A g \in Handler : At(g, {"idle"}) => run[g].row = NoRow
          BY <1>1 DEF Runs
        <5>2. run'[h].row = NoRow
          BY <1>1, <2>6, DiesTo
        <5> QED BY <3>1, <5>1, <5>2 DEF Only
      <4>2. \A f, g \in Handler \ late' :
              ~At(f, {"idle"})' /\ ~At(g, {"idle"})' /\ run'[g].row = run'[f].row
                => f = g
        BY <1>1, <3>2
      <4>3. NoRow \notin Row
        BY IndexNowAssumption
      <4> QED BY <3>2, <4>1, <4>2, <4>3
    <3>4. \A g \in Handler \ late' :
            ~At(g, {"idle"})' => item'[run'[g].row].status = "processing"
      <4>1. CASE UNCHANGED item
        BY <1>1, <3>2, <4>1
      <4>2. CASE h \notin late /\ OnlyRow(item, item', run[h].row)
        BY <1>1, <3>1, <3>2, <4>2 DEF OnlyRow
      <4> QED BY <3>1, <4>1, <4>2
    <3>5. \A r \in Row : item'[r].status = "pending" => item'[r].tries < ItemTries
      BY <1>1, <3>1 DEF OnlyRow
    <3> QED BY <3>3, <3>4, <3>5
  <2>7. ASSUME NEW r \in Row, Takes(h, r) PROVE Items'
    <3>1. /\ Only(h) /\ run'[h].at = "read" /\ run'[h].row = r /\ UNCHANGED late
          /\ OnlyRow(item, item', r) /\ item'[r].status = "processing"
          /\ item[r].status = "pending"
      BY <1>1, <2>7, TakesTo DEF Takes
    <3>2. \A g \in Handler \ late :
            g # h /\ ~At(g, {"idle"}) => run[g].row \in Row /\ run[g].row # r
      BY <1>1, <1>2, <3>1
    <3>3. \A g \in Handler \ late' :
            ~At(g, {"idle"})' => item'[run'[g].row].status = "processing"
      BY <1>1, <3>1, <3>2 DEF Only, OnlyRow
    <3>4. \A f, g \in Handler \ late' :
            ~At(f, {"idle"})' /\ run'[g].row = run'[f].row => f = g
      <4>1. \A g \in Handler : At(g, {"idle"}) => run[g].row = NoRow
        BY <1>1 DEF Runs
      <4>2. \A g \in Handler \ late' : g # h => run'[g] = run[g] /\ run[g].row # r
        BY <3>1, <3>2, <4>1, IndexNowAssumption DEF Only
      <4> QED BY <1>1, <3>1, <4>2
    <3>5. \A q \in Row : item'[q].status = "pending" => item'[q].tries < ItemTries
      BY <1>1, <3>1 DEF OnlyRow
    <3> QED BY <3>3, <3>4, <3>5
  <2> QED BY <1>5, <2>1, <2>2, <2>3, <2>4, <2>5, <2>6, <2>7 DEF Handles
<1>6. ASSUME NEW r \in Row, Creates(r) PROVE Items'
  <2>1. /\ OnlyRow(item, item', r) /\ item[r].status # "processing"
        /\ item'[r].tries = 0 /\ UNCHANGED <<run, late>>
    BY <1>1, <1>6, CreatesTo DEF Creates
  <2>2. 0 < ItemTries
    BY IndexNowAssumption
  <2> QED BY <1>1, <1>2, <2>1, <2>2 DEF OnlyRow
<1>7. ASSUME NEW r \in Row, Recovers(r) PROVE Items'
  <2>1. /\ OnlyRow(item, item', r) /\ Holders(r) = {} /\ UNCHANGED <<run, late>>
        /\ item'[r].status = "pending" => item'[r].tries < ItemTries
    BY <1>1, <1>7, RecoversTo DEF Recovers
  <2>2. \A g \in Handler \ late : run[g].row # r
    BY <2>1 DEF Holders
  <2> QED BY <1>1, <1>2, <2>1, <2>2 DEF OnlyRow
<1>8. CASE Rows
  BY <1>3, <1>6, <1>7, <1>8 DEF Rows, Aside, Waits, PassesOver, Reapplies, GivesUp,
     Rests, BeginSweep, RequeueRow, others, queue
<1> QED BY <1>5, <1>8 DEF Moves
-----------------------------------------------------------------------------
(* While nobody has outlived its lease.                                    *)
Prompt == Types /\ Runs /\ Requests /\ Answered /\ Items /\ late = {} /\ Accounts

LEMMA Counts ==
  /\ Attempt \subseteq Nat /\ MaxAttempts \in Nat /\ 0 < MaxAttempts
  /\ Types => \A r \in Row : out[r].count \in Nat
<1>1. Attempt \subseteq Nat /\ MaxAttempts \in Nat /\ 0 < MaxAttempts
  BY IndexNowAssumption DEF Attempt
<1>2. ASSUME Types, NEW r \in Row PROVE out[r].count \in Nat
  <2>1. out[r] \in OutRow
    BY <1>2 DEF Types
  <2>2. out[r].count \in {0} \cup Attempt
    BY <2>1 DEF OutRow
  <2>3. 0 \in Nat
    OBVIOUS
  <2> QED BY Zenon, <1>1, <2>2, <2>3
<1> QED BY <1>1, <1>2

\* The handlers of a row are one.
LEMMA Alone ==
  ASSUME Prompt, NEW g \in Handler, NEW h \in Handler, ~At(h, {"idle"}),
         run[g].row = run[h].row
  PROVE  g = h
BY DEF Prompt, Items

\* A row says what it said, of the same attempts.
Still(r) ==
  /\ out'[r].status = out[r].status /\ out'[r].count = out[r].count
  /\ \A n \in Attempt : att'[r][n] # "none" <=> att[r][n] # "none"

LEMMA TriedStays ==
  ASSUME NEW r \in Row, Tried(r), Still(r)
  PROVE  Tried(r)'
BY DEF Tried, Still

LEMMA DeliversStays ==
  ASSUME Prompt, NEW g \in Handler, run'[g] = run[g],
         At(g, Numbered) => Still(run[g].row)
  PROVE  Delivers(g)'
<1>1. Delivers(g)
  BY DEF Prompt, Accounts
<1> QED BY <1>1 DEF Delivers, Still, At, Numbered

LEMMA RecoveringStays ==
  ASSUME Prompt, UNCHANGED sweep,
         \A r \in Row : \A no : Left(r, no) => Left(r, no)'
  PROVE  Recovering'
<1>1. /\ Recovering /\ sweep.todo \subseteq Row
      /\ sweep.at = "requeue" => sweep.row \in Row
  BY DEF Prompt, Accounts, Types, SweepRow, Answered
<1> HIDE DEF Left
<1> QED BY <1>1 DEF Recovering

\* A handler goes on and its row stays as it is.
LEMMA CalmHandler ==
  ASSUME Prompt, NEW h \in Handler, Only(h), UNCHANGED sweep,
         \A r \in Row : Still(r), Delivers(h)',
         At(h, Numbered)' => At(h, Numbered) /\ run'[h].row = run[h].row
  PROVE  Accounts'
<1>1. \A r \in Row : Tried(r)'
  BY TriedStays DEF Prompt, Accounts
<1>2. ASSUME NEW g \in Handler PROVE Delivers(g)'
  <2>1. At(g, Numbered) => run[g].row \in Row
    BY DEF Prompt, Runs, At, Numbered
  <2> QED BY <2>1, DeliversStays DEF Only
<1>3. ASSUME NEW r \in Row, NEW no, Left(r, no) PROVE Left(r, no)'
  <2>1. \A g \in Handler : At(g, Numbered)' => At(g, Numbered) /\ run'[g].row = run[g].row
    BY DEF Only, At
  <2> QED BY <1>3, <2>1 DEF Left, Still
<1> QED BY <1>1, <1>2, <1>3, RecoveringStays DEF Accounts

\* A handler that delivers its row, which is not one that is recovered.
LEMMA OwnHandler ==
  ASSUME Prompt, NEW h \in Handler, Only(h), UNCHANGED sweep,
         NEW r \in Row, run[h].row = r, run'[h].row = r, ~At(h, {"idle"}),
         \A q \in Row \ {r} : Still(q), Tried(r)', Delivers(h)',
         At(h, Numbered) \/ out[r].status # "processing"
  PROVE  Accounts'
<1>1. \A q \in Row : Tried(q)'
  <2>1. ASSUME NEW q \in Row \ {r} PROVE Tried(q)'
    BY TriedStays DEF Prompt, Accounts
  <2> QED BY <2>1
<1>2. ASSUME NEW g \in Handler, g # h PROVE Delivers(g)'
  <2>1. At(g, Numbered) => run[g].row \in Row \ {r}
    BY <1>2, Alone DEF Prompt, Runs, At, Numbered
  <2> QED BY <1>2, <2>1, DeliversStays DEF Only
<1>3. ASSUME NEW q \in Row, NEW no, Left(q, no) PROVE Left(q, no)'
  <2>1. q # r
    BY <1>3 DEF Left
  <2>2. \A g \in Handler : run'[g].row = q => run'[g] = run[g]
    BY <2>1 DEF Only
  <2> QED BY <1>3, <2>1, <2>2 DEF Left, Still, At
<1> QED BY <1>1, <1>2, <1>3, RecoveringStays DEF Accounts

\* A handler delivers the attempt its row is about to count, or counts.
LEMMA HandlesBudget ==
  ASSUME Prompt, Types', NEW h \in Handler, Handles(h), hangs' = 0
  PROVE  Accounts'
<1>1. /\ Types /\ Runs /\ Requests /\ Items /\ Delivers(h)
      /\ \A q \in Row : Tried(q)
  BY DEF Prompt, Accounts
<1> DEFINE r == run[h].row
<1>2. UNCHANGED sweep /\ ~Hangs(h)
  <2>1. ~Hangs(h)
    <3>1. ~(0 > 0)
      OBVIOUS
    <3> QED BY <3>1 DEF Hangs
  <2>2. UNCHANGED sweep
    BY DEF Handles, Begins, Passes, Cancels, Starts, MarkProcessing, Send, Hangs,
       classifyIndexNowResult, RecordAttempt, SettleRow, Dies, Takes, others
  <2> QED BY <2>1, <2>2
<1>3. ~At(h, {"idle"}) => r \in Row
  BY <1>1 DEF Runs
<1>4. At(h, Numbered) => run[h].no \in Attempt
  BY <1>1 DEF Runs
<1> USE DEF others
<1>5. CASE Passes(h)
  <2>1. /\ Only(h) /\ \A q \in Row : Still(q)
        /\ At(h, Numbered)' => At(h, Numbered) /\ run'[h].row = run[h].row
    BY <1>1, <1>5, PassesTo DEF Passes, Steps, Still, At, Numbered
  <2>2. Delivers(h)'
    BY <1>1, <1>3, <1>5, <2>1, PassesTo DEF Passes, Steps, Delivers, At, SameNo
  <2> QED BY <1>2, <2>1, <2>2, CalmHandler
<1>6. CASE Send(h)
  <2>1. /\ Only(h) /\ \A q \in Row : Still(q)
        /\ At(h, Numbered)' => At(h, Numbered) /\ run'[h].row = run[h].row
    BY <1>1, <1>6, SendTo DEF Send, Steps, Still, At, Numbered
  <2>2. Delivers(h)'
    BY <1>1, <1>6, SendTo DEF Send, Steps, Delivers, At, SameNo
  <2> QED BY <1>2, <2>1, <2>2, CalmHandler
<1>7. CASE classifyIndexNowResult(h)
  <2>1. /\ Only(h) /\ \A q \in Row : Still(q)
        /\ At(h, Numbered)' => At(h, Numbered) /\ run'[h].row = run[h].row
    BY <1>1, <1>7, AnswerTo DEF classifyIndexNowResult, Still, At, Numbered
  <2>2. Delivers(h)'
    BY <1>1, <1>7, AnswerTo DEF classifyIndexNowResult, Delivers, At, SameNo
  <2> QED BY <1>2, <2>1, <2>2, CalmHandler
<1>8. CASE RecordAttempt(h)
  <2>1. /\ Only(h) /\ Tells(h, run[h].outcome) /\ run[h].outcome # "none"
        /\ run[h].at = "record" /\ run'[h].at = "settle" /\ UNCHANGED out
        /\ run'[h].row = run[h].row /\ SameNo(h)
    BY <1>1, <1>8, RecordTo, StateSets DEF Steps, At, RecordAttempt
  <2>2. att[r][run[h].no] # "none"
    BY <1>1, <2>1 DEF Requests, At, Owning
  <2>3. \A q \in Row : Still(q)
    BY <2>1, <2>2 DEF Still, Tells
  <2>4. Delivers(h)'
    BY <1>1, <2>1 DEF Delivers, At, SameNo
  <2> QED BY <1>2, <2>1, <2>3, <2>4, CalmHandler DEF At, Numbered
<1>9. CASE Dies(h) \/ \E q \in Row : Takes(h, q)
  <2>1. /\ Only(h) /\ run'[h].at \in {"idle", "read"} /\ \A q \in Row : Still(q)
    BY <1>1, <1>9, DiesTo, TakesTo DEF Dies, Takes, Still
  <2>2. Delivers(h)' /\ ~At(h, Numbered)'
    BY <2>1 DEF Delivers, At, Numbered
  <2> QED BY <1>2, <2>1, <2>2, CalmHandler
<1>10. CASE Begins(h)
  <2>1. /\ Only(h) /\ run[h].at = "read" /\ run'[h].at = "eligible"
        /\ run'[h].row = r /\ run'[h].no = out[r].count + 1 /\ UNCHANGED <<out, att>>
    BY <1>1, <1>10, BeginsTo DEF Steps, At, Begins
  <2>2. r \in Row /\ out[r].status \in {"pending", "retry_wait"}
    BY <1>3, <1>10 DEF Begins, At, Due
  <2>3. (\A q \in Row : Still(q)) /\ Delivers(h)'
    BY <2>1, <2>2 DEF Still, Delivers, At
  <2>4. Tried(r)'
    <3>1. ASSUME NEW q \in Row PROVE Tried(q)'
      BY <1>1, <2>3, TriedStays
    <3> QED BY <2>1, <2>2, <3>1
  <2> QED BY <1>2, <2>1, <2>2, <2>3, <2>4, OwnHandler DEF At
<1>11. CASE Cancels(h)
  <2>1. /\ Only(h) /\ run[h].at = "eligible" /\ run'[h].at = "done"
        /\ run'[h].row = r /\ OnlyRow(out, out', r) /\ out'[r].status = "cancelled"
        /\ out'[r].count = out[r].count /\ UNCHANGED att
    BY <1>1, <1>11, CancelsTo DEF Steps, At, Cancels
  <2>2. (\A q \in Row \ {r} : Still(q)) /\ Delivers(h)'
    BY <2>1 DEF Still, OnlyRow, Delivers, At
  <2>3. r \in Row /\ Tried(r)'
    BY <1>1, <1>3, <2>1 DEF Tried, At
  <2> QED BY <1>2, <2>1, <2>2, <2>3, OwnHandler DEF At, Numbered
<1>12. CASE Starts(h)
  <2>1. /\ Only(h) /\ run[h].at = "start" /\ run'[h].at = "mark"
        /\ run'[h].row = r /\ SameNo(h) /\ Tells(h, "started") /\ UNCHANGED out
    BY <1>1, <1>12, StartsTo DEF Steps, At, Starts
  <2>2. (\A q \in Row \ {r} : Still(q)) /\ Delivers(h)'
    BY <1>1, <2>1 DEF Still, Tells, Delivers, At, SameNo
  <2>3. r \in Row /\ Tried(r)'
    <3>1. /\ r \in Row /\ out[r].status \in {"pending", "retry_wait"}
          /\ run[h].no = out[r].count + 1 /\ out[r].count < MaxAttempts
          /\ out[r].count \in Nat
      BY <1>1, <1>3, <2>1, Counts DEF Delivers, At, Tried
    <3>2. ASSUME NEW n \in Attempt, att'[r][n] # "none"
          PROVE  n <= out[r].count + 1 /\ n <= MaxAttempts
      <4>1. CASE n = run[h].no
        BY <3>1, <4>1, Counts
      <4>2. CASE n # run[h].no
        BY <1>1, <2>1, <3>1, <3>2, <4>2 DEF Tells, Tried
      <4> QED BY <4>1, <4>2
    <3> QED BY <2>1, <3>1, <3>2 DEF Tried
  <2> QED BY <1>2, <2>1, <2>2, <2>3, OwnHandler DEF At, Numbered
<1>13. CASE MarkProcessing(h)
  <2>1. /\ Only(h) /\ run[h].at = "mark" /\ run'[h].at = "http"
        /\ run'[h].row = r /\ SameNo(h) /\ OnlyRow(out, out', r)
        /\ out'[r].status = "processing" /\ out'[r].count = run[h].no /\ UNCHANGED att
    BY <1>1, <1>13, MarkTo DEF Steps, At, MarkProcessing
  <2>2. (\A q \in Row \ {r} : Still(q)) /\ Delivers(h)'
    BY <2>1 DEF Still, OnlyRow, Delivers, At, SameNo
  <2>3. r \in Row /\ Tried(r)'
    <3>1. /\ r \in Row /\ run[h].no \in Attempt /\ run[h].no = out[r].count + 1
          /\ att[r][run[h].no] # "none" /\ out[r].count \in Nat
      BY <1>1, <1>3, <1>4, <2>1, Counts DEF Delivers, At, Requests, Owning, Numbered
    <3>2. ASSUME NEW n \in Attempt, att[r][n] # "none"
          PROVE  n <= run[h].no /\ n <= run[h].no + 1 /\ n <= MaxAttempts
      BY <1>1, <3>1, <3>2, Counts DEF Tried
    <3> QED BY <2>1, <3>1, <3>2 DEF Tried
  <2> QED BY <1>2, <2>1, <2>2, <2>3, OwnHandler DEF At, Numbered
<1>14. CASE SettleRow(h)
  <2>1. /\ Only(h) /\ run[h].at = "settle" /\ run'[h].at = "done"
        /\ run'[h].row = r /\ OnlyRow(out, out', r) /\ run[h].outcome \in Outcome
        /\ out'[r].count = out[r].count /\ UNCHANGED att
        /\ out'[r].status = resolveOutboxDeliveryStatus(run[h].outcome, run[h].no)
    BY <1>1, <1>14, SettleTo DEF Steps, At, SettleRow
  <2>2. (\A q \in Row \ {r} : Still(q)) /\ Delivers(h)'
    BY <2>1 DEF Still, OnlyRow, Delivers, At
  <2>3. r \in Row /\ Tried(r)'
    <3>1. r \in Row /\ run[h].no \in Nat /\ run[h].no = out[r].count
      BY <1>1, <1>3, <1>4, <2>1, Counts DEF Delivers, At, Numbered
    <3>2. /\ out'[r].status \notin {"none", "pending", "processing"}
          /\ out'[r].status = "retry_wait" => out[r].count < MaxAttempts
      BY <2>1, <3>1, Resolved
    <3> QED BY <1>1, <2>1, <3>1, <3>2 DEF Tried
  <2> QED BY <1>2, <2>1, <2>2, <2>3, OwnHandler DEF At, Numbered
<1> QED BY <1>2, <1>5, <1>6, <1>7, <1>8, <1>9, <1>10, <1>11, <1>12, <1>13, <1>14
        DEF Handles

\* One row is written by recovery, the sweep or its enqueuer.
LEMMA RowMove ==
  ASSUME Prompt, RunsStay, NEW r \in Row, \A q \in Row \ {r} : Still(q), Tried(r)',
         \/ out'[r].status = "pending"
         \/ \A h \in Handler : run[h].row = r => ~At(h, Numbered),
         \A h \in Handler :
           At(h, {"http", "answer", "record", "settle"}) /\ run[h].row = r
             => out[r].status # "pending" /\ out[r].status # "none",
         out'[r].status = "pending" => /\ out[r].status \in {"none", "pending"}
                                       /\ out'[r].count = out[r].count
  PROVE  (\A q \in Row : Tried(q)') /\ \A h \in Handler : Delivers(h)'
<1>1. ASSUME NEW q \in Row \ {r} PROVE Tried(q)'
  BY TriedStays DEF Prompt, Accounts
<1>2. ASSUME NEW h \in Handler PROVE Delivers(h)'
  <2>1. UNCHANGED run /\ Delivers(h)
    BY DEF RunsStay, Prompt, Accounts
  <2>2. CASE run[h].row # r
    <3>1. At(h, Numbered) => run[h].row \in Row \ {r}
      BY <2>2 DEF Prompt, Runs, At, Numbered
    <3> QED BY <2>1, <3>1, DeliversStays
  <2>3. CASE run[h].row = r
    BY <2>1, <2>3 DEF Delivers, At, Numbered
  <2> QED BY <2>2, <2>3
<1> QED BY <1>1, <1>2

\* Nobody delivers it, so it may be settled, or wait for its next attempt.
LEMMA LeftIsResolved ==
  ASSUME Prompt, RunsStay, NEW r \in Row, NEW n \in Attempt, NEW o \in Outcome,
         Left(r, n), OnlyRow(out, out', r), UNCHANGED att,
         out'[r].count = out[r].count,
         out'[r].status = resolveOutboxDeliveryStatus(o, n)
  PROVE  /\ (\A q \in Row : Tried(q)') /\ (\A h \in Handler : Delivers(h)')
         /\ \A q \in Row \ {r} : \A no : Left(q, no) => Left(q, no)'
<1>1. n \in Nat /\ Tried(r)
  BY Counts DEF Prompt, Accounts
<1>2. /\ out'[r].status \notin {"none", "pending", "processing"}
      /\ out'[r].status = "retry_wait" => n < MaxAttempts
  BY <1>1, Resolved
<1>3. Tried(r)' /\ \A q \in Row \ {r} : Still(q)
  BY <1>1, <1>2 DEF Tried, Left, Still, OnlyRow
<1>4. \A h \in Handler : run[h].row = r => ~At(h, Numbered)
  BY DEF Left
<1>5. (\A q \in Row : Tried(q)') /\ \A h \in Handler : Delivers(h)'
  BY <1>2, <1>3, <1>4, RowMove DEF At, Numbered
<1>6. \A q \in Row \ {r} : \A no : Left(q, no) => Left(q, no)'
  BY <1>3 DEF Left, Still, RunsStay, At
<1> QED BY <1>5, <1>6

\* No row is written.
LEMMA RowsStill ==
  ASSUME Prompt, RunsStay, \A q \in Row : Still(q)
  PROVE  /\ (\A q \in Row : Tried(q)') /\ (\A h \in Handler : Delivers(h)')
         /\ \A q \in Row : \A no : Left(q, no) => Left(q, no)'
<1>1. \A q \in Row : Tried(q)'
  BY TriedStays DEF Prompt, Accounts
<1>2. ASSUME NEW h \in Handler PROVE Delivers(h)'
  <2>1. At(h, Numbered) => run[h].row \in Row
    BY DEF Prompt, Runs, At, Numbered
  <2> QED BY <2>1, DeliversStays DEF RunsStay
<1>3. \A q \in Row : \A no : Left(q, no) => Left(q, no)'
  BY DEF Left, Still, RunsStay, At
<1> QED BY <1>1, <1>2, <1>3

\* Recovery writes rows nobody delivers.
LEMMA RowsBudget ==
  ASSUME Prompt, Types', Rows
  PROVE  Accounts'
<1>1. /\ Types /\ Runs /\ Answered /\ RunsStay /\ Recovering /\ late = {}
      /\ \A q \in Row : Tried(q)
  BY RowsLeaveRuns DEF Prompt, Accounts
<1>2. sweep.todo \subseteq Row /\ (sweep.at = "requeue" => sweep.row \in Row)
  BY <1>1 DEF Types, SweepRow, Answered
<1> DEFINE Back == /\ (\A q \in Row : Tried(q)')
                   /\ (\A h \in Handler : Delivers(h)')
                   /\ \A q \in Row : \A no : Left(q, no) => Left(q, no)'
<1> USE DEF others
<1>3. CASE Aside \/ \E r \in Row : Recovers(r)
  <2>1. (\A q \in Row : Still(q)) /\ UNCHANGED sweep
    BY <1>3 DEF Aside, Recovers, Still
  <2> QED BY <1>1, <2>1, RowsStill, RecoveringStays DEF Accounts
<1>4. CASE Rests \/ \E r \in Row : Creates(r)
  <2>1. \A q \in Row : Still(q)
    BY <1>4 DEF Rests, Creates, Still
  <2>2. Recovering'
    <3>1. sweep'.at \notin {"recover", "requeue"} \/ UNCHANGED sweep
      BY <1>1, <1>4, CreatesTo DEF Rests
    <3>2. CASE UNCHANGED sweep
      BY <1>1, <2>1, <3>2, RowsStill, RecoveringStays
    <3> QED BY <3>1, <3>2 DEF Recovering
  <2> QED BY <1>1, <2>1, <2>2, RowsStill DEF Accounts
<1>5. ASSUME NEW r \in Row, PassesOver(r) PROVE Accounts'
  <2>1. (\A q \in Row : Still(q)) /\ sweep.at = "recover" /\ Dropped(r)
    BY <1>1, <1>5, PassesOverTo DEF PassesOver, Still
  <2>2. Back
    BY <1>1, <2>1, RowsStill
  <2> HIDE DEF Left
  <2> QED BY <1>1, <1>2, <2>1, <2>2 DEF Accounts, Recovering, Dropped
<1>6. ASSUME NEW r \in Row, GivesUp(r) PROVE Accounts'
  <2> DEFINE no == sweep.seen[r].no
  <2>1. /\ no \in Attempt /\ att[r][no] # "none" /\ att'[r][no] = "unknown_outcome"
        /\ \A q \in Row, m \in Attempt : q # r \/ m # no => att'[q][m] = att[q][m]
        /\ sweep'.at = "requeue" /\ sweep'.row = r /\ sweep'.no = no
        /\ sweep'.todo = sweep.todo \ {r} /\ sweep'.seen = sweep.seen
        /\ sweep.at = "recover" /\ r \in sweep.todo /\ UNCHANGED out
    BY <1>1, <1>6, GivesUpTo DEF GivesUp
  <2>2. \A q \in Row : Still(q)
    BY <2>1 DEF Still
  <2>3. Back
    BY <1>1, <2>2, RowsStill
  <2>4. Left(r, no) /\ \A q \in sweep.todo : Left(q, sweep.seen[q].no)
    BY <1>1, <2>1 DEF Recovering
  <2> HIDE DEF Left, no
  <2> QED BY <1>2, <2>1, <2>3, <2>4 DEF Accounts, Recovering, no
<1>7. ASSUME NEW r \in Row, Reapplies(r) PROVE Accounts'
  <2> DEFINE n == sweep.seen[r].no
             o == sweep.seen[r].state
  <2>1. /\ Dropped(r) /\ OnlyRow(out, out', r) /\ out'[r].count = out[r].count
        /\ out'[r].status = resolveOutboxDeliveryStatus(o, n)
        /\ sweep.at = "recover" /\ r \in sweep.todo /\ o \in Outcome /\ UNCHANGED att
    BY <1>1, <1>7, ReappliesTo DEF Reapplies
  <2>2. n \in Attempt /\ \A q \in sweep.todo : Left(q, sweep.seen[q].no)
    BY <1>1, <2>1, StateSets DEF Answered, Seen, Recovering
  <2>3. Left(r, n)
    BY <2>1, <2>2
  <2> HIDE DEF n, o, Left
  <2>4. /\ (\A q \in Row : Tried(q)') /\ (\A h \in Handler : Delivers(h)')
        /\ \A q \in Row \ {r} : \A no : Left(q, no) => Left(q, no)'
    BY <1>1, <2>1, <2>2, <2>3, LeftIsResolved
  <2> QED BY <1>2, <2>1, <2>2, <2>4 DEF Accounts, Recovering, Dropped
<1>8. CASE RequeueRow
  <2> DEFINE o == "retryable_failed"
  <2>1. PICK r \in Row, n \in Attempt : r = sweep.row /\ n = sweep.no
    BY <1>1, <1>8, RequeueTo
  <2>2. /\ OnlyRow(out, out', r) /\ out'[r].count = out[r].count
        /\ out'[r].status = resolveOutboxDeliveryStatus(o, n)
        /\ sweep.at = "requeue" /\ sweep'.at = "recover"
        /\ sweep'.todo = sweep.todo /\ sweep'.seen = sweep.seen
        /\ UNCHANGED att /\ o \in Outcome
    BY <1>1, <1>8, <2>1, RequeueTo DEF RequeueRow, Outcome
  <2>3. /\ Left(r, n) /\ r \notin sweep.todo
        /\ \A q \in sweep.todo : Left(q, sweep.seen[q].no)
    BY <1>1, <2>1, <2>2 DEF Recovering
  <2> HIDE DEF o, Left
  <2>4. /\ (\A q \in Row : Tried(q)') /\ (\A h \in Handler : Delivers(h)')
        /\ \A q \in Row \ {r} : \A no : Left(q, no) => Left(q, no)'
    BY <1>1, <2>2, <2>3, LeftIsResolved
  <2> QED BY <1>2, <2>2, <2>3, <2>4 DEF Accounts, Recovering
<1>9. CASE BeginSweep
  <2>1. /\ \A q \in Row : Still(q)
        /\ sweep'.at = "recover" /\ sweep'.todo = {r \in Row : Stale(r)}
        /\ \A r \in Row : Stale(r) => sweep'.seen[r] = Latest(r)
        /\ UNCHANGED <<out, run>>
    BY <1>1, <1>9, BeginSweepTo DEF BeginSweep, Still, queue
  <2>2. ASSUME NEW r \in Row, Stale(r) PROVE Left(r, sweep.seen[r].no)'
    <3>1. out[r].status = "processing" /\ \A h \in Handler : run[h].row # r
      BY <1>1, <2>2 DEF Stale, Holders
    <3>2. sweep'.seen[r].no = LatestNo(r)
      BY <1>1, <2>1, <2>2, LatestIs
    <3>3. LatestNo(r) = out[r].count
      <4> DEFINE k == LatestNo(r)
                 c == out[r].count
      <4>1. /\ c \in Attempt /\ att[r][c] # "none"
            /\ \A n \in Attempt : att[r][n] # "none" => n <= c
        BY <1>1, <3>1 DEF Tried
      <4>2. /\ k \in {0} \cup Attempt /\ (k # 0 => att[r][k] # "none")
            /\ \A n \in Attempt : att[r][n] # "none" => n <= k
        BY <1>1, LatestIs
      <4> HIDE DEF k, c
      <4>3. c <= k /\ c \in Nat /\ c > 0
        BY <4>1, <4>2 DEF Attempt
      <4>4. k \in Attempt /\ k <= c
        BY <4>1, <4>2, <4>3
      <4>5. k \in Nat
        BY <4>4, Counts
      <4>6. k = c
        BY <4>3, <4>4, <4>5
      <4> QED BY <4>6 DEF k, c
    <3> QED BY <2>1, <3>1, <3>2, <3>3 DEF Left
  <2>3. Recovering'
    <3> HIDE DEF Left
    <3> QED BY <2>1, <2>2 DEF Recovering
  <2> QED BY <1>1, <2>1, <2>3, RowsStill DEF Accounts, RunsStay
<1>10. ASSUME NEW r \in Row, Waits(r) PROVE Accounts'
  <2>1. /\ out[r].status \in {"none", "pending"} /\ UNCHANGED <<att, sweep>>
        /\ OnlyRow(out, out', r)
        /\ out'[r].status = "pending" /\ out'[r].count = out[r].count
    BY <1>1, <1>10, WaitsTo DEF Waits
  <2>2. Tried(r)' /\ \A q \in Row \ {r} : Still(q)
    BY <1>1, <2>1 DEF Tried, Still, OnlyRow
  <2>3. \A h \in Handler : Delivers(h)
    BY DEF Prompt, Accounts
  <2>4. \A h \in Handler :
          At(h, {"http", "answer", "record", "settle"}) /\ run[h].row = r
            => out[r].status # "pending" /\ out[r].status # "none"
    BY <2>3 DEF Delivers
  <2>5. (\A q \in Row : Tried(q)') /\ \A h \in Handler : Delivers(h)'
    BY <1>1, <2>1, <2>2, <2>4, RowMove
  <2>6. \A q \in Row : \A no : Left(q, no) => Left(q, no)'
    BY <1>1, <2>1, <2>2 DEF Left, Still, RunsStay, At
  <2> QED BY <2>1, <2>5, <2>6, RecoveringStays DEF Accounts
<1> QED BY <1>3, <1>4, <1>5, <1>6, <1>7, <1>8, <1>9, <1>10 DEF Rows

LEMMA BudgetStep ==
  ASSUME OutboxInv, Moves, Kept
  PROVE  Budget'
<1>1. SUFFICES ASSUME hangs' = 0 PROVE Accounts'
  BY DEF Budget
<1>2. hangs = 0
  <2>1. hangs \in Nat /\ hangs' >= hangs
    BY TypeParts DEF OutboxInv, Rest, Kept
  <2> QED BY <1>1, <2>1
<1>3. Prompt
  <2>1. late = {}
    <3>1. ~(0 > 0)
      OBVIOUS
    <3> QED BY <1>2, <3>1 DEF OutboxInv, Runs
  <2> QED BY <1>2, <2>1, TypeParts DEF OutboxInv, Budget, Prompt
<1> QED BY <1>1, <1>3, TypesStep, RowsBudget, HandlesBudget DEF Moves

LEMMA InitOutbox ==
  ASSUME Init
  PROVE  OutboxInv
<1> USE IndexNowAssumption DEF Init, wire, IdleRun, IdleSweep
<1>1. TypeOK
  <2>1. Types
    BY DEF Types, OutRow, RowStatus, Settled, ItemRow, AttemptState, Outcome, RunRow,
       RunAt, SweepRow, SeenRow
  <2>2. Rest
    BY DEF Rest
  <2> QED BY <2>1, <2>2, TypeParts
<1>2. Runs
  BY DEF Runs, At, Numbered
<1>3. Requests
  BY DEF Requests, OneRequestPerAttempt, At, Owning
<1>4. Answered
  BY StateSets DEF Answered, Seen, At
<1>5. OutcomeEvidenced
  BY <1>1 DEF OutcomeEvidenced
<1>6. Items
  BY DEF Items, At
<1>7. Budget
  <2>1. \A r \in Row : Tried(r)
    BY DEF Tried
  <2>2. (\A h \in Handler : Delivers(h)) /\ Recovering
    BY DEF Delivers, Recovering, At
  <2> QED BY <2>1, <2>2 DEF Budget, Accounts
<1> QED BY <1>1, <1>2, <1>3, <1>4, <1>5, <1>6, <1>7 DEF OutboxInv

LEMMA OutboxStep ==
  ASSUME OutboxInv, [Next]_vars
  PROVE  OutboxInv'
<1>1. TypeOK /\ Runs /\ Rest
  BY TypeParts DEF OutboxInv
<1>2. Moves /\ Kept
  BY <1>1, NextMoves
<1>3. Rest'
  <2>1. CASE Next
    BY <1>1, <2>1, RestStep
  <2>2. CASE UNCHANGED vars
    BY <1>1, <2>2 DEF vars, Rest
  <2> QED BY <2>1, <2>2
<1>4. TypeOK'
  <2>1. Types'
    BY <1>2, TypesStep
  <2> QED BY <1>3, <2>1 DEF TypeOK, Types, Rest, OutRow, ItemRow, RunRow, SeenRow,
          SweepRow
<1>5. OutcomeEvidenced'
  BY <1>2, <1>4, EvidenceStep DEF OutcomeEvidenced, Evidenced
<1> QED BY <1>2, <1>4, <1>5, RunsStep, RequestsStep, AnsweredStep, ItemsStep,
        BudgetStep DEF OutboxInv
-----------------------------------------------------------------------------
(* In every reachable state, for any rows, handlers, budgets and mishaps,  *)
(* the types and the whole invariant hold: what handlers, attempts and the *)
(* sweep know, who holds an item, and what a row counts while nobody       *)
(* outlives its lease (indexnow-delivery.ts, recovery.ts, sweep.ts).       *)
THEOREM OutboxInvariant == Spec => []OutboxInv
<1>1. Init => OutboxInv
  BY InitOutbox
<1>2. OutboxInv /\ [Next]_vars => OutboxInv'
  BY OutboxStep
<1> QED BY <1>1, <1>2, PTL DEF Spec

(* Every request has an attempt number of its own and its row, however     *)
(* many handlers have lost their lease; and while none has, no row is      *)
(* attempted more than maxAttempts times, whatever crashes and is          *)
(* recovered in between.                                                   *)
THEOREM RequestsAreCounted == Spec => []RequestsCounted
<1>1. ASSUME OutboxInv PROVE RequestsCounted
  <2>1. OneRequestPerAttempt
    BY <1>1 DEF OutboxInv, Requests
  <2>2. ASSUME hangs = 0, NEW r \in Row PROVE LatestNo(r) <= MaxAttempts
    <3>1. Types /\ Tried(r)
      BY <1>1, <2>2, TypeParts DEF OutboxInv, Budget, Accounts
    <3>2. CASE LatestNo(r) = 0
      BY <3>2, Counts
    <3>3. CASE LatestNo(r) # 0
      <4>1. LatestNo(r) \in Attempt /\ att[r][LatestNo(r)] # "none"
        BY <3>1, <3>3, LatestIs
      <4> QED BY <3>1, <4>1 DEF Tried
    <3> QED BY <3>2, <3>3
  <2> QED BY <2>1, <2>2 DEF RequestsCounted, WithinBudget
<1> QED BY <1>1, OutboxInvariant, PTL

(* A row says accepted or permanent_failed only if a request of it was     *)
(* answered so, and dead_letter only if its last attempt was started: late *)
(* handlers and recoveries of rows read long ago included.                 *)
THEOREM OutcomesAreEvidenced == Spec => []OutcomeEvidenced
<1>1. OutboxInv => OutcomeEvidenced
  BY DEF OutboxInv
<1> QED BY <1>1, OutboxInvariant, PTL
=============================================================================
