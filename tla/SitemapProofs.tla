---------------------------- MODULE SitemapProofs ----------------------------
(***************************************************************************)
(* What the sitemap refresh guarantees for any articles, locales, tasks,   *)
(* workers and handlers, and any number of mishaps: theorems about         *)
(* SitemapRefresh.                                                         *)
(***************************************************************************)
EXTENDS SitemapRefresh, TLAPS

TaskRow == [status : {"none", "pending", "processing", "success", "failed"},
            tries : 0..MaxAttempts, owner : Handler \cup {NoHandler},
            answer : Answer]
RunRow == [at : RunAt, task : Task \cup {NoTask}, worker : Worker \cup {NoWorker},
           again : BOOLEAN, aged : BOOLEAN, todo : SUBSET Locale,
           seen : Task \cup {NoTask}, out : Answer, moved : BOOLEAN]
Kept == [st : {"none", "list", "broken"}, list : SUBSET Article]
LockFile == [st : {"none", "empty", "held"}, run : Task \cup {NoTask},
             aged : BOOLEAN, by : Handler \cup {NoHandler}]
StatusFile == [st : {"idle", "running", "success", "failed"},
               run : Task \cup {NoTask}, aged : BOOLEAN]
Directory == [list : [Locale -> SUBSET Article], files : SUBSET Locale,
              whole : BOOLEAN]

Parts ==
  /\ visible \subseteq Article /\ late \subseteq visible
  /\ carrier \in [Article -> Task \cup {NoTask}]
  /\ task \in [Task -> TaskRow]
  /\ run \in [Handler -> RunRow]
  /\ cache \in [Worker -> [Locale -> Kept]]
  /\ lock \in LockFile
  /\ status \in StatusFile
  /\ release \in [Release -> Directory]
  /\ {tmp, current} \subseteq Release \cup {NoTask}

LEMMA TypeParts == (TypeOK <=> Parts) /\ (TypeOK' <=> Parts')
BY DEF Parts, TypeOK, TaskRow, RunRow, Kept, LockFile, StatusFile, Directory

(* A handler that is at work has a task and a process, and a task that     *)
(* waits has an attempt left.                                              *)
Working ==
  /\ \A h \in Handler : run[h].at # "idle" =>
       run[h].task \in Task /\ run[h].worker \in Worker
  /\ \A t \in Task : /\ task[t].status = "none" => task[t].tries = 0
                     /\ task[t].status = "pending" => task[t].tries < MaxAttempts

(* A handler has no answer before its generation is over.                  *)
Unanswered == {"open", "fill", "look", "begin", "load", "write", "index",
               "unlink", "link", "rename", "record"}
NoAnswer ==
  \A h \in Handler : run[h].at \in Unanswered => run[h].out = "none"

(* The symlinks point to whole releases, and so does whoever is about to   *)
(* set them.                                                               *)
Switching == {"unlink", "link", "rename"}
Whole ==
  /\ \A r \in Release : release[r].whole => release[r].files = Locale
  /\ \A h \in Handler :
       run[h].at \in Switching => release[run[h].task].whole
  /\ tmp # NoTask => release[tmp].whole
  /\ current # NoTask => release[current].whole

(* Until a stale lock is taken over, a handler from the creation of the    *)
(* lock file to its removal is the one whose file it is.                   *)
Holding(h) ==
  \/ run[h].at \in {"fill", "begin", "load", "write", "index", "unlink",
                    "link", "rename", "record", "failing"}
  \/ run[h].at \in {"release", "remove"} /\ run[h].out # "none"
Held ==
  ~ousted => \A h \in Handler : Holding(h) => lock.st # "none" /\ lock.by = h

SitemapInv == TypeOK /\ Working /\ NoAnswer /\ Whole /\ Held

LEMMA TypeInit == Init => TypeOK
<1> SUFFICES ASSUME Init PROVE TypeOK OBVIOUS
<1> USE SitemapAssumption DEF Init
<1>1. task \in [Task -> TaskRow]
  BY DEF TaskRow, Answer
<1>2. run \in [Handler -> RunRow]
  BY DEF Idle, RunRow, RunAt, Answer
<1>3. cache \in [Worker -> [Locale -> Kept]]
  BY DEF Unread, Kept
<1>4. lock \in LockFile /\ status \in StatusFile
  BY DEF NoLock, LockFile, StatusFile
<1>5. release \in [Release -> Directory]
  BY DEF Directory
<1>6. {tmp, current} \subseteq Release \cup {NoTask}
  BY DEF Release
<1>7. visible \subseteq Article /\ late \subseteq visible
  OBVIOUS
<1>8. carrier \in [Article -> Task \cup {NoTask}]
  OBVIOUS
<1> QED BY <1>1, <1>2, <1>3, <1>4, <1>5, <1>6, <1>7, <1>8, TypeParts DEF Parts

(* A row with some of its fields changed.                                  *)
LEMMA RunRowType ==
  ASSUME NEW r \in RunRow, NEW step \in RunAt
  PROVE  /\ \A a \in Answer : [r EXCEPT !.at = step, !.out = a] \in RunRow
         /\ \A t \in Task \cup {NoTask} :
              /\ [r EXCEPT !.at = step, !.seen = t, !.again = TRUE] \in RunRow
              /\ [r EXCEPT !.at = step, !.todo = Locale, !.seen = t] \in RunRow
         /\ [r EXCEPT !.at = step, !.aged = FALSE] \in RunRow
         /\ [r EXCEPT !.at = step, !.moved = TRUE] \in RunRow
<1>1. \A a \in Answer : [r EXCEPT !.at = step, !.out = a] \in RunRow
  BY DEF RunRow
<1>2. \A t \in Task \cup {NoTask} :
        [r EXCEPT !.at = step, !.seen = t, !.again = TRUE] \in RunRow
  BY DEF RunRow
<1>3. \A t \in Task \cup {NoTask} :
        [r EXCEPT !.at = step, !.todo = Locale, !.seen = t] \in RunRow
  BY DEF RunRow
<1>4. [r EXCEPT !.at = step, !.aged = FALSE] \in RunRow
  BY DEF RunRow
<1>5. [r EXCEPT !.at = step, !.moved = TRUE] \in RunRow
  BY DEF RunRow
<1> QED BY <1>1, <1>2, <1>3, <1>4, <1>5

(* What the ways of moving a handler on preserve.                          *)
LEMMA GoType ==
  ASSUME run \in [Handler -> RunRow], NEW h \in Handler, NEW step \in RunAt,
         Go(h, step)
  PROVE  run' \in [Handler -> RunRow]
BY DEF RunRow, Go

LEMMA EndType ==
  ASSUME run \in [Handler -> RunRow], NEW h \in Handler,
         NEW out \in {"coalesced", "failed"}, End(h, out)
  PROVE  run' \in [Handler -> RunRow]
<1> DEFINE row == [run[h] EXCEPT !.at = "answer", !.out = out]
<1>1. row \in RunRow
  <2>1. "answer" \in RunAt /\ out \in Answer /\ run[h] \in RunRow
    BY DEF RunAt, Answer
  <2> QED BY <2>1, RunRowType
<1>2. run' = [run EXCEPT ![h] = row]
  BY DEF End
<1> QED BY <1>1, <1>2

LEMMA DoneType ==
  ASSUME run \in [Handler -> RunRow], NEW h \in Handler, NEW l,
         NEW step \in RunAt
  PROVE  Done(h, l, step) \in [Handler -> RunRow]
<1> DEFINE row == [run[h] EXCEPT
                     !.todo = IF @ = {l} THEN Locale ELSE @ \ {l},
                     !.at = IF run[h].todo = {l} THEN step ELSE @]
<1>1. row \in RunRow
  BY DEF RunRow
<1>2. Done(h, l, step) = [run EXCEPT ![h] = row]
  BY DEF Done
<1> QED BY <1>1, <1>2

(* Steps of a handler leave the queue well formed, and of the files what   *)
(* they do not write.                                                      *)
LEMMA TypeStep == TypeOK /\ Working /\ [Next]_vars => TypeOK'
<1> SUFFICES ASSUME TypeOK, Working, [Next]_vars PROVE TypeOK'
  OBVIOUS
<1> USE SitemapAssumption DEF Parts
<1>0. Parts
  BY TypeParts
<1>1. /\ \A h \in Handler : run[h].at # "idle" => run[h].task \in Task
      /\ \A h \in Handler : run[h].aged \in BOOLEAN
      /\ \A h \in Handler : run[h].seen \in Task \cup {NoTask}
      /\ Task \subseteq Release
  BY <1>0 DEF Working, RunRow, Release
<1>2. ASSUME NEW h \in Handler, Work(h) PROVE TypeOK'
  <2>1. CASE Open(h)
    <3>1. run' \in [Handler -> RunRow]
      BY <1>0, <2>1, GoType DEF Open, RunAt
    <3>2. lock' \in LockFile
      BY <1>0, <2>1 DEF Open, LockFile, NoLock
    <3> QED BY <1>0, <2>1, <3>1, <3>2, TypeParts DEF Open, queue
  <2>2. CASE Fill(h)
    <3>1. run' \in [Handler -> RunRow]
      BY <1>0, <2>2, GoType DEF Fill, RunAt
    <3>2. lock' \in LockFile
      BY <1>0, <1>1, <2>2 DEF Fill, LockFile
    <3> QED BY <1>0, <2>2, <3>1, <3>2, TypeParts DEF Fill, queue
  <2>3. CASE Look(h)
    <3>1. Shown.run \in Task \cup {NoTask}
      BY <1>0 DEF Shown, LockFile, StatusFile
    <3>2. run' \in [Handler -> RunRow]
      <4>1. CASE End(h, "failed") \/ End(h, "coalesced")
        BY <1>0, <4>1, EndType
      <4>2. CASE run' = [run EXCEPT ![h].at = "release", ![h].seen = Shown.run,
                                    ![h].again = TRUE]
        <5> DEFINE row == [run[h] EXCEPT !.at = "release", !.seen = Shown.run,
                                         !.again = TRUE]
        <5>1. row \in RunRow
          <6>1. "release" \in RunAt /\ run[h] \in RunRow
            BY <1>0 DEF RunAt
          <6> QED BY <3>1, <6>1, RunRowType
        <5>2. run' = [run EXCEPT ![h] = row]
          BY <4>2
        <5> QED BY <1>0, <5>1, <5>2
      <4> QED BY <2>3, <4>1, <4>2 DEF Look
    <3> QED BY <1>0, <2>3, <3>2, TypeParts DEF Look, queue, files
  <2>4. ASSUME Released(h) PROVE run' \in [Handler -> RunRow]
    <3> DEFINE row == [run[h] EXCEPT !.at = "open", !.aged = FALSE]
    <3>0. row \in RunRow
      <4>1. "open" \in RunAt /\ run[h] \in RunRow
        BY <1>0 DEF RunAt
      <4> QED BY <4>1, RunRowType
    <3>1. [run EXCEPT ![h].at = "open", ![h].aged = FALSE] \in [Handler -> RunRow]
      <4>1. [run EXCEPT ![h].at = "open", ![h].aged = FALSE]
              = [run EXCEPT ![h] = row]
        OBVIOUS
      <4> QED BY <1>0, <3>0, <4>1
    <3> QED BY <1>0, <2>4, <3>1, GoType DEF Released, RunAt
  <2>5. CASE ReadLock(h)
    <3>1. run' \in [Handler -> RunRow]
      BY <1>0, <2>4, <2>5, GoType DEF ReadLock, RunAt
    <3> QED BY <1>0, <2>5, <3>1, TypeParts DEF ReadLock, queue, files
  <2>6. CASE RemoveLock(h)
    <3>1. lock' \in LockFile
      BY <2>6 DEF RemoveLock, NoLock, LockFile
    <3> QED BY <1>0, <2>4, <2>6, <3>1, TypeParts DEF RemoveLock, queue
  <2>7. CASE Begin(h)
    <3>1. run' \in [Handler -> RunRow]
      <4> DEFINE row == [run[h] EXCEPT !.at = "load", !.todo = Locale,
                                       !.seen = run[h].task]
      <4>1. row \in RunRow
        <5>1. "load" \in RunAt /\ run[h] \in RunRow /\ run[h].task \in Task
          BY <1>0, <1>1, <2>7 DEF Begin, RunAt
        <5> QED BY <5>1, RunRowType
      <4>2. run' = [run EXCEPT ![h] = row]
        BY <2>7 DEF Begin
      <4> QED BY <1>0, <4>1, <4>2
    <3>2. status' \in StatusFile
      BY <1>0, <1>1, <2>7 DEF Begin, StatusFile
    <3> QED BY <1>0, <2>7, <3>1, <3>2, TypeParts DEF Begin, queue
  <2>8. ASSUME NEW l \in Locale, Load(h, l) PROVE TypeOK'
    <3>1. run' \in [Handler -> RunRow]
      BY <1>0, <2>8, GoType, DoneType DEF Load, Fail, RunAt
    <3>2. cache' \in [Worker -> [Locale -> Kept]]
      BY <1>0, <2>8 DEF Load, Kept
    <3> QED BY <1>0, <2>8, <3>1, <3>2, TypeParts DEF Load, queue, files
  <2>9. ASSUME NEW l \in Locale, WriteFile(h, l) PROVE TypeOK'
    <3> DEFINE t == run[h].task
               list == cache[run[h].worker][l].list
    <3>1. t \in Task /\ list \in SUBSET Article
      BY <1>0, <1>1, <2>9 DEF WriteFile, Working, Kept
    <3>2. release' = [release EXCEPT ![t].list[l] = list,
                                     ![t].files = @ \cup {l}]
      BY <2>9 DEF WriteFile
    <3>3. Done(h, l, "index") \in [Handler -> RunRow]
      BY <1>0, DoneType DEF RunAt
    <3>4. \E b \in BOOLEAN : run' = [Done(h, l, "index") EXCEPT ![h].moved = b]
      BY <2>9, <3>3 DEF WriteFile, RunRow
    <3>5. run' \in [Handler -> RunRow]
      BY <3>3, <3>4 DEF RunRow
    <3> HIDE DEF t, list
    <3>6. release' \in [Release -> Directory]
      BY <1>0, <1>1, <3>1, <3>2 DEF Directory
    <3> QED BY <1>0, <2>9, <3>5, <3>6, TypeParts DEF WriteFile, queue
  <2>10. CASE Index(h)
    <3>1. run' \in [Handler -> RunRow]
      BY <1>0, <2>10, GoType DEF Index, RunAt
    <3>2. release' \in [Release -> Directory]
      <4> DEFINE t == run[h].task
                 r == [release[t] EXCEPT !.whole = TRUE]
      <4>1. t \in Release
        BY <1>1, <2>10 DEF Index
      <4>2. r \in Directory
        <5>1. release[t] \in Directory
          BY <1>0, <4>1
        <5> QED BY <5>1 DEF Directory
      <4>3. release' = [release EXCEPT ![t] = r]
        BY <2>10 DEF Index
      <4> QED BY <1>0, <4>1, <4>2, <4>3
    <3> QED BY <1>0, <2>10, <3>1, <3>2, TypeParts DEF Index, queue
  <2>11. CASE Unlink(h)
    <3>1. run' \in [Handler -> RunRow]
      BY <1>0, <2>11, GoType DEF Unlink, RunAt
    <3> QED BY <1>0, <2>11, <3>1, TypeParts DEF Unlink, queue
  <2>12. CASE Link(h)
    <3>1. run' \in [Handler -> RunRow]
      BY <1>0, <2>12, GoType DEF Link, Fail, RunAt
    <3> QED BY <1>0, <1>1, <2>12, <3>1, TypeParts DEF Link, queue
  <2>13. CASE Rename(h)
    <3>1. run' \in [Handler -> RunRow]
      <4>1. [run EXCEPT ![h].at = "record", ![h].moved = TRUE]
              \in [Handler -> RunRow]
        <5> DEFINE row == [run[h] EXCEPT !.at = "record", !.moved = TRUE]
        <5>1. row \in RunRow
          <6>1. "record" \in RunAt /\ run[h] \in RunRow
            BY <1>0 DEF RunAt
          <6> QED BY <6>1, RunRowType
        <5>2. [run EXCEPT ![h].at = "record", ![h].moved = TRUE]
                = [run EXCEPT ![h] = row]
          OBVIOUS
        <5> QED BY <1>0, <5>1, <5>2
      <4> QED BY <1>0, <2>13, <4>1, GoType DEF Rename, Fail, RunAt
    <3> QED BY <1>0, <1>1, <2>13, <3>1, TypeParts DEF Rename, queue
  <2>14. CASE Record(h) \/ Failing(h)
    <3>1. run' \in [Handler -> RunRow]
      <4>1. PICK out \in {"generated", "failed"} :
              run' = [run EXCEPT ![h].at = "release", ![h].out = out]
        BY <2>14 DEF Record, Failing
      <4> DEFINE row == [run[h] EXCEPT !.at = "release", !.out = out]
      <4>2. row \in RunRow
        <5>1. "release" \in RunAt /\ out \in Answer /\ run[h] \in RunRow
          BY <1>0 DEF RunAt, Answer
        <5> QED BY <5>1, RunRowType
      <4>3. run' = [run EXCEPT ![h] = row]
        BY <4>1
      <4> QED BY <1>0, <4>2, <4>3
    <3>2. status' \in StatusFile
      BY <1>0, <1>1, <2>14 DEF Record, Failing, StatusFile
    <3> QED BY <1>0, <2>14, <3>1, <3>2, TypeParts DEF Record, Failing, queue
  <2>15. CASE Finalize(h)
    <3>1. run' \in [Handler -> RunRow]
      BY <1>0, <2>15 DEF Finalize, Idle, RunRow, RunAt, Answer
    <3>2. task' \in [Task -> TaskRow]
      BY <1>0, <1>1, <2>15 DEF Finalize, TaskRow, RunRow
    <3> QED BY <1>0, <2>15, <3>1, <3>2, TypeParts DEF Finalize, files
  <2> QED BY <1>2, <2>1, <2>2, <2>3, <2>5, <2>6, <2>7, <2>8, <2>9, <2>10,
             <2>11, <2>12, <2>13, <2>14, <2>15 DEF Work
<1>3. ASSUME NEW w \in Worker, NEW h \in Handler, NEW t \in Task,
             Claim(w, h, t)
      PROVE  TypeOK'
  <2>1. task' \in [Task -> TaskRow]
    <3>1. task[t].tries + 1 \in 0..MaxAttempts
      BY <1>0, <1>3 DEF Claim, Working, TaskRow
    <3> QED BY <1>0, <1>3, <3>1 DEF Claim, TaskRow
  <2>2. run' \in [Handler -> RunRow]
    BY <1>0, <1>3 DEF Claim, Idle, RunRow, RunAt, Answer
  <2> QED BY <1>0, <1>3, <2>1, <2>2, TypeParts DEF Claim, files
<1>4. ASSUME NEW t \in Task, Recover(t) PROVE TypeOK'
  <2>1. task' \in [Task -> TaskRow]
    <3> DEFINE more == task[t].tries < MaxAttempts
               row == [task[t] EXCEPT
                         !.status = IF more THEN "pending" ELSE "failed",
                         !.answer = IF more THEN "none" ELSE "failed"]
    <3>1. row \in TaskRow
      <4>1. task[t] \in TaskRow
        BY <1>0
      <4> QED BY <4>1 DEF TaskRow, Answer
    <3>2. task' = [task EXCEPT ![t] = row]
      BY <1>4 DEF Recover
    <3> QED BY <1>0, <3>1, <3>2
  <2> QED BY <1>0, <1>4, <2>1, TypeParts DEF Recover, files
<1>5. ASSUME NEW h \in Handler, Falter(h) PROVE TypeOK'
  <2>1. run' \in [Handler -> RunRow]
    BY <1>0, <1>5, GoType, EndType DEF Falter, Fail, RunAt
  <2> QED BY <1>0, <1>5, <2>1, TypeParts DEF Falter, queue, files
<1>6. ASSUME NEW h \in Handler, NEW l \in Locale, LoadRefused(h, l)
      PROVE  TypeOK'
  <2>1. run' \in [Handler -> RunRow]
    BY <1>0, <1>6, GoType DEF LoadRefused, Fail, RunAt
  <2>2. cache' \in [Worker -> [Locale -> Kept]]
    <3> DEFINE w == run[h].worker
               kept == [cache[w][l] EXCEPT !.st = "broken"]
               lists == [cache[w] EXCEPT ![l] = kept]
    <3>1. cache' = [cache EXCEPT ![w] = lists]
      BY <1>6 DEF LoadRefused
    <3>2. w \in Worker
      BY <1>6 DEF LoadRefused, Working
    <3>3. cache[w] \in [Locale -> Kept]
      BY <1>0, <3>2
    <3>4. kept \in Kept
      BY <3>3 DEF Kept
    <3>5. lists \in [Locale -> Kept]
      BY <3>3, <3>4
    <3> QED BY <1>0, <3>1, <3>2, <3>5
  <2> QED BY <1>0, <1>6, <2>1, <2>2, TypeParts DEF LoadRefused, queue, files
<1>7. ASSUME NEW t \in Task, Lose(t) PROVE TypeOK'
  <2>1. task' \in [Task -> TaskRow]
    BY <1>0, <1>7 DEF Lose, TaskRow
  <2> QED BY <1>0, <1>7, <2>1, TypeParts DEF Lose, files
<1>8. ASSUME NEW w \in Worker, Crash(w) PROVE TypeOK'
  <2>1. run' \in [Handler -> RunRow]
    BY <1>0, <1>8 DEF Crash, Idle, RunRow, RunAt, Answer
  <2>2. task' \in [Task -> TaskRow]
    BY <1>0, <1>8 DEF Crash, TaskRow
  <2>3. cache' \in [Worker -> [Locale -> Kept]]
    BY <1>0, <1>8 DEF Crash, Unread, Kept
  <2>4. lock' \in LockFile
    BY <1>0, <1>8 DEF Crash, LockFile
  <2> QED BY <1>0, <1>8, <2>1, <2>2, <2>3, <2>4, TypeParts DEF Crash
<1>9. CASE Age
  <2>1. run' \in [Handler -> RunRow]
    <3>1. ASSUME NEW h \in Handler
          PROVE  [run[h] EXCEPT !.aged = (run[h].at # "idle")] \in RunRow
      <4>1. run[h] \in RunRow /\ (run[h].at # "idle") \in BOOLEAN
        BY <1>0
      <4>2. \A r \in RunRow, b \in BOOLEAN : [r EXCEPT !.aged = b] \in RunRow
        BY DEF RunRow
      <4> QED BY <4>1, <4>2, Zenon
    <3> QED BY <1>0, <1>9, <3>1 DEF Age
  <2>2. lock' \in LockFile /\ status' \in StatusFile
    BY <1>0, <1>9 DEF Age, LockFile, StatusFile
  <2> QED BY <1>0, <1>9, <2>1, <2>2, TypeParts DEF Age
<1>10. ASSUME NEW a \in Article, Publish(a) \/ enqueueSitemapRefresh(a)
       PROVE  TypeOK'
  <2>1. CASE Publish(a)
    BY <1>0, <2>1, TypeParts DEF Publish, files
  <2>2. CASE enqueueSitemapRefresh(a)
    <3>1. task' \in [Task -> TaskRow]
      BY <1>0, <2>2 DEF enqueueSitemapRefresh, TaskRow
    <3>2. carrier' \in [Article -> Task \cup {NoTask}]
      BY <1>0, <2>2 DEF enqueueSitemapRefresh
    <3>3. late' \subseteq visible'
      BY <1>0, <2>2 DEF enqueueSitemapRefresh
    <3> QED BY <1>0, <2>2, <3>1, <3>2, <3>3, TypeParts
            DEF enqueueSitemapRefresh, files
  <2> QED BY <1>10, <2>1, <2>2
<1>11. CASE UNCHANGED vars
  BY <1>0, <1>11, TypeParts DEF vars, files
<1> QED BY <1>2, <1>3, <1>4, <1>5, <1>6, <1>7, <1>8, <1>9, <1>10, <1>11
        DEF Next, System, Mishap
-----------------------------------------------------------------------------
LEMMA InvInit == Init => Working /\ NoAnswer /\ Whole /\ Held
<1> SUFFICES ASSUME Init PROVE Working /\ NoAnswer /\ Whole /\ Held
  OBVIOUS
<1>1. \A h \in Handler : run[h].at = "idle"
  BY DEF Init, Idle
<1>2. Working
  BY <1>1, SitemapAssumption DEF Init, Working
<1>3. NoAnswer
  BY <1>1 DEF NoAnswer, Unanswered
<1>4. Whole
  BY <1>1, SitemapAssumption DEF Init, Whole, Switching, Release
<1>5. Held
  BY <1>1 DEF Held, Holding
<1> QED BY <1>2, <1>3, <1>4, <1>5

(* A step of one handler, with its task, leaves the other handlers alone.  *)
Moves(h, step, out) ==
  /\ \A g \in Handler : g # h => run'[g] = run[g]
  /\ run'[h].at = step /\ run'[h].out = out
  /\ run'[h].task = run[h].task /\ run'[h].worker = run[h].worker

LEMMA MovesKeep ==
  ASSUME Working, NoAnswer, NEW h \in Handler, NEW step, NEW out,
         Moves(h, step, out), run[h].at # "idle",
         step \in Unanswered => out = "none", UNCHANGED task
  PROVE  Working' /\ NoAnswer'
<1>1. Working'
  BY DEF Working, Moves
<1>2. NoAnswer'
  BY DEF NoAnswer, Moves
<1> QED BY <1>1, <1>2

LEMMA WholeKeep ==
  ASSUME Whole, NEW h \in Handler, NEW step, NEW out, Moves(h, step, out),
         step \in Switching => run[h].at \in Switching,
         UNCHANGED <<release, tmp, current>>
  PROVE  Whole'
BY DEF Whole, Moves

LEMMA HeldKeep ==
  ASSUME Held, NEW h \in Handler, NEW step, NEW out, Moves(h, step, out),
         Holding(h)' => Holding(h), UNCHANGED ousted,
         lock'.st = lock.st \/ lock'.st = "held", lock'.by = lock.by
  PROVE  Held'
<1> SUFFICES ASSUME ~ousted, NEW g \in Handler, Holding(g)'
             PROVE  lock'.st # "none" /\ lock'.by = g
  BY DEF Held
<1>1. Holding(g)
  BY DEF Moves, Holding
<1> QED BY <1>1 DEF Held

(* What the ways of moving a handler on amount to.                         *)
LEMMA GoMoves ==
  ASSUME run \in [Handler -> RunRow], NEW h \in Handler, NEW step,
         Go(h, step)
  PROVE  Moves(h, step, run[h].out)
BY DEF Go, Moves, RunRow

LEMMA EndMoves ==
  ASSUME run \in [Handler -> RunRow], NEW h \in Handler, NEW out, End(h, out)
  PROVE  Moves(h, "answer", out)
BY DEF End, Moves, RunRow

LEMMA ReleasedMoves ==
  ASSUME run \in [Handler -> RunRow], NEW h \in Handler, Released(h)
  PROVE  Moves(h, IF run[h].out = "none" THEN "open" ELSE "answer", run[h].out)
BY DEF Released, Go, Moves, RunRow

(* Each step of a handler preserves the invariant: most move one handler   *)
(* on and leave the lock, or the releases and symlinks, as they are.       *)
LEMMA WorkStep ==
  ASSUME TypeOK, Working, NoAnswer, Whole, Held, NEW h \in Handler, Work(h)
  PROVE  Working' /\ NoAnswer' /\ Whole' /\ Held'
<1>0. /\ run \in [Handler -> RunRow] /\ lock \in LockFile
      /\ release \in [Release -> Directory]
      /\ run[h].at \in Unanswered => run[h].out = "none"
      /\ run[h].at # "idle" => run[h].task \in Task /\ run[h].task \in Release
  BY TypeParts DEF Parts, NoAnswer, Working, Release
<1>1. CASE Open(h)
  <2>1. PICK step \in {"fill", "look"} :
          /\ Moves(h, step, run[h].out)
          /\ IF lock.st = "none"
             THEN lock' = [NoLock EXCEPT !.st = "empty", !.by = h]
             ELSE UNCHANGED lock /\ step = "look"
    BY <1>0, <1>1, GoMoves DEF Open
  <2>2. Working' /\ NoAnswer'
    BY <1>0, <1>1, <2>1, MovesKeep DEF Open, queue, Unanswered
  <2>3. Whole'
    BY <1>1, <2>1, WholeKeep DEF Open, Switching
  <2>4. Held'
    <3>1. CASE lock.st = "none"
      <4>1. ~ousted => \A g \in Handler : ~Holding(g)
        BY <3>1 DEF Held
      <4>2. ~ousted => \A g \in Handler : g # h => ~Holding(g)'
        BY <2>1, <4>1 DEF Moves, Holding
      <4>3. lock'.st = "empty" /\ lock'.by = h
        BY <2>1, <3>1 DEF NoLock
      <4> QED BY <1>1, <4>2, <4>3 DEF Held, Open
    <3>2. CASE lock.st # "none"
      <4>1. ~Holding(h)'
        BY <2>1, <3>2 DEF Moves, Holding
      <4> QED BY <1>1, <2>1, <3>2, <4>1, HeldKeep DEF Open
    <3> QED BY <3>1, <3>2
  <2> QED BY <2>2, <2>3, <2>4
<1>2. CASE Fill(h)
  <2>1. Moves(h, "begin", run[h].out)
    BY <1>0, <1>2, GoMoves DEF Fill
  <2>2. Working' /\ NoAnswer'
    BY <1>0, <1>2, <2>1, MovesKeep DEF Fill, queue, Unanswered
  <2>3. Whole'
    BY <1>2, <2>1, WholeKeep DEF Fill, Switching
  <2>4. Held'
    <3>1. lock'.st \in {lock.st, "held"} /\ lock'.by = lock.by
      BY <1>0, <1>2 DEF Fill, LockFile
    <3>2. Holding(h)
      BY <1>2 DEF Fill, Holding
    <3> QED BY <1>2, <2>1, <3>1, <3>2, HeldKeep DEF Fill
  <2> QED BY <2>2, <2>3, <2>4
<1>3. CASE Look(h)
  <2>1. PICK step \in {"answer", "release"}, out \in Answer :
          Moves(h, step, out) /\ (step = "release" => out = "none")
    <3>1. CASE End(h, "failed") \/ End(h, "coalesced")
      BY <1>0, <3>1, EndMoves DEF Answer
    <3>2. CASE run' = [run EXCEPT ![h].at = "release", ![h].seen = Shown.run,
                                  ![h].again = TRUE]
      <4>1. Moves(h, "release", run[h].out)
        BY <1>0, <3>2 DEF Moves, RunRow
      <4> QED BY <1>0, <1>3, <4>1 DEF Look, Unanswered, Answer
    <3> QED BY <1>3, <3>1, <3>2 DEF Look
  <2>2. Working' /\ NoAnswer'
    BY <1>3, <2>1, MovesKeep DEF Look, queue, Unanswered
  <2>3. Whole'
    BY <1>3, <2>1, WholeKeep DEF Look, files, Switching
  <2>4. Held'
    <3>1. ~Holding(h)'
      BY <2>1 DEF Moves, Holding
    <3> QED BY <1>3, <2>1, <3>1, HeldKeep DEF Look, files
  <2> QED BY <2>2, <2>3, <2>4
<1>4. CASE ReadLock(h)
  <2>1. PICK step \in {"remove", "open", "answer"} :
          Moves(h, step, run[h].out) /\ (step = "open" => run[h].out = "none")
    BY <1>0, <1>4, GoMoves, ReleasedMoves DEF ReadLock
  <2>2. Working' /\ NoAnswer'
    BY <1>4, <2>1, MovesKeep DEF ReadLock, queue, Unanswered
  <2>3. Whole'
    BY <1>4, <2>1, WholeKeep DEF ReadLock, files, Switching
  <2>4. Held'
    <3>1. Holding(h)' => Holding(h)
      BY <1>4, <2>1 DEF ReadLock, Moves, Holding
    <3> QED BY <1>4, <2>1, <3>1, HeldKeep DEF ReadLock, files
  <2> QED BY <2>2, <2>3, <2>4
<1>5. CASE RemoveLock(h)
  <2>1. PICK step \in {"open", "answer"} :
          Moves(h, step, run[h].out) /\ (step = "open" => run[h].out = "none")
    BY <1>0, <1>5, ReleasedMoves DEF RemoveLock
  <2>2. Working' /\ NoAnswer'
    BY <1>5, <2>1, MovesKeep DEF RemoveLock, queue, Unanswered
  <2>3. Whole'
    BY <1>5, <2>1, WholeKeep DEF RemoveLock, Switching
  <2>4. Held'
    <3>1. SUFFICES ASSUME ~ousted, run[h].out # "none", NEW g \in Handler
                   PROVE  ~Holding(g)'
      BY <1>5 DEF RemoveLock, Held
    <3>2. \A k \in Handler : Holding(k) => k = h
      BY <1>5, <3>1 DEF RemoveLock, Held, Holding
    <3>3. ~Holding(h)'
      BY <2>1 DEF Moves, Holding
    <3> QED BY <2>1, <3>2, <3>3 DEF Moves, Holding
  <2> QED BY <2>2, <2>3, <2>4
<1>6. CASE Begin(h)
  <2>1. Moves(h, "load", run[h].out)
    BY <1>0, <1>6 DEF Begin, Moves, RunRow
  <2>2. Working' /\ NoAnswer'
    BY <1>0, <1>6, <2>1, MovesKeep DEF Begin, queue, Unanswered
  <2>3. Whole'
    BY <1>6, <2>1, WholeKeep DEF Begin, Switching
  <2>4. Held'
    <3>1. Holding(h)
      BY <1>6 DEF Begin, Holding
    <3> QED BY <1>6, <2>1, <3>1, HeldKeep DEF Begin
  <2> QED BY <2>2, <2>3, <2>4
<1>7. ASSUME NEW l \in Locale, Load(h, l)
      PROVE  Working' /\ NoAnswer' /\ Whole' /\ Held'
  <2>1. PICK step \in {"load", "write", "failing"} : Moves(h, step, run[h].out)
    <3>1. CASE Fail(h)
      BY <1>0, <3>1, GoMoves DEF Fail
    <3>2. CASE run' = Done(h, l, "write")
      BY <1>0, <1>7, <3>2 DEF Load, Done, Moves, RunRow
    <3> QED BY <1>7, <3>1, <3>2 DEF Load
  <2>2. Working' /\ NoAnswer'
    BY <1>0, <1>7, <2>1, MovesKeep DEF Load, queue, Unanswered
  <2>3. Whole'
    BY <1>7, <2>1, WholeKeep DEF Load, files, Switching
  <2>4. Held'
    <3>1. Holding(h)
      BY <1>7 DEF Load, Holding
    <3> QED BY <1>7, <2>1, <3>1, HeldKeep DEF Load, files
  <2> QED BY <2>2, <2>3, <2>4
<1>8. ASSUME NEW l \in Locale, WriteFile(h, l)
      PROVE  Working' /\ NoAnswer' /\ Whole' /\ Held'
  <2> DEFINE t == run[h].task
             list == cache[run[h].worker][l].list
  <2>1. PICK step \in {"write", "index"} : Moves(h, step, run[h].out)
    <3>1. PICK b : run' = [Done(h, l, "index") EXCEPT ![h].moved = b]
      BY <1>8 DEF WriteFile
    <3>2. Done(h, l, "index") \in [Handler -> RunRow]
      BY <1>0, DoneType DEF RunAt
    <3>3. /\ \A g \in Handler : run'[g].at = Done(h, l, "index")[g].at
          /\ \A g \in Handler : g # h => run'[g] = Done(h, l, "index")[g]
          /\ run'[h].out = Done(h, l, "index")[h].out
          /\ run'[h].task = Done(h, l, "index")[h].task
          /\ run'[h].worker = Done(h, l, "index")[h].worker
      BY <3>1, <3>2 DEF RunRow
    <3>4. Moves(h, IF run[h].todo = {l} THEN "index" ELSE run[h].at, run[h].out)
      <4>1. /\ \A g \in Handler : g # h => Done(h, l, "index")[g] = run[g]
            /\ Done(h, l, "index")[h].at =
                 IF run[h].todo = {l} THEN "index" ELSE run[h].at
            /\ Done(h, l, "index")[h].out = run[h].out
            /\ Done(h, l, "index")[h].task = run[h].task
            /\ Done(h, l, "index")[h].worker = run[h].worker
        BY <1>0 DEF Done, RunRow
      <4> QED BY <3>3, <4>1 DEF Moves
    <3> QED BY <1>8, <3>4 DEF WriteFile
  <2>2. Working' /\ NoAnswer'
    BY <1>0, <1>8, <2>1, MovesKeep DEF WriteFile, queue, Unanswered
  <2>3. Whole'
    <3>1. release' = [release EXCEPT ![t].list[l] = list,
                                     ![t].files = @ \cup {l}]
      BY <1>8 DEF WriteFile
    <3>2. t \in Release
      BY <1>0, <1>8 DEF WriteFile
    <3> HIDE DEF t, list
    <3>3. \A r \in Release : /\ release'[r].whole = release[r].whole
                             /\ release[r].files \subseteq release'[r].files
                             /\ release'[r].files \subseteq Locale
      BY <1>0, <3>1, <3>2 DEF Directory
    <3>4. \A r \in Release : release'[r].whole => release'[r].files = Locale
      BY <3>3 DEF Whole
    <3>5. /\ \A g \in Handler : run'[g].task = run[g].task
          /\ \A g \in Handler :
               run'[g].at \in Switching => run[g].at \in Switching
      BY <2>1 DEF Moves, Switching
    <3>6. ASSUME NEW g \in Handler, run'[g].at \in Switching
          PROVE  release'[run'[g].task].whole
      <4>1. run[g].task \in Release /\ release[run[g].task].whole
        BY <3>5, <3>6 DEF Working, Whole, Switching, Release
      <4> QED BY <3>3, <3>5, <4>1
    <3>7. {tmp, current} \subseteq Release \cup {NoTask} /\ UNCHANGED <<tmp, current>>
      BY <1>8, TypeParts DEF Parts, WriteFile
    <3>8. /\ tmp' # NoTask => release'[tmp'].whole
          /\ current' # NoTask => release'[current'].whole
      BY <3>3, <3>7 DEF Whole
    <3> QED BY <3>4, <3>6, <3>8 DEF Whole
  <2>4. Held'
    <3>1. Holding(h)
      BY <1>8 DEF WriteFile, Holding
    <3> QED BY <1>8, <2>1, <3>1, HeldKeep DEF WriteFile
  <2> QED BY <2>2, <2>3, <2>4
<1>9. CASE Index(h)
  <2> DEFINE t == run[h].task
  <2>1. Moves(h, "unlink", run[h].out)
    BY <1>0, <1>9, GoMoves DEF Index
  <2>2. Working' /\ NoAnswer'
    BY <1>0, <1>9, <2>1, MovesKeep DEF Index, queue, Unanswered
  <2>3. Whole'
    <3>1. t \in Release /\ release[t].files = Locale
      BY <1>0, <1>9 DEF Index
    <3>2. \A r \in Release :
            /\ release'[r].files = release[r].files
            /\ release'[r].whole = (r = t \/ release[r].whole)
      BY <1>0, <1>9, <3>1 DEF Index, Directory
    <3>3. ASSUME NEW g \in Handler, run'[g].at \in Switching
          PROVE  release'[run'[g].task].whole
      <4>1. CASE g = h
        BY <2>1, <3>1, <3>2, <4>1 DEF Moves
      <4>2. CASE g # h
        <5>1. run'[g] = run[g]
          BY <2>1, <4>2 DEF Moves
        <5>2. run[g].task \in Release /\ release[run[g].task].whole
          BY <3>3, <5>1 DEF Working, Whole, Switching, Release
        <5> QED BY <3>2, <5>1, <5>2
      <4> QED BY <4>1, <4>2
    <3>4. {tmp, current} \subseteq Release \cup {NoTask} /\ UNCHANGED <<tmp, current>>
      BY <1>9, TypeParts DEF Parts, Index
    <3>5. /\ tmp' # NoTask => release'[tmp'].whole
          /\ current' # NoTask => release'[current'].whole
      BY <3>2, <3>4 DEF Whole
    <3>6. \A r \in Release : release'[r].whole => release'[r].files = Locale
      BY <3>1, <3>2 DEF Whole
    <3> QED BY <3>3, <3>5, <3>6 DEF Whole
  <2>4. Held'
    <3>1. Holding(h)
      BY <1>9 DEF Index, Holding
    <3> QED BY <1>9, <2>1, <3>1, HeldKeep DEF Index
  <2> QED BY <2>2, <2>3, <2>4
<1>10. CASE Unlink(h) \/ Link(h) \/ Rename(h)
  <2>1. PICK step \in {"link", "rename", "record", "failing"} :
          /\ Moves(h, step, run[h].out)
          /\ step \in Switching => run[h].at \in Switching
    <3>1. CASE \E to \in {"link", "rename", "failing"} : Go(h, to)
      BY <1>0, <1>10, <3>1, GoMoves DEF Unlink, Link, Rename, Switching
    <3>2. CASE run' = [run EXCEPT ![h].at = "record", ![h].moved = TRUE]
      BY <1>0, <3>2 DEF Moves, RunRow, Switching
    <3> QED BY <1>10, <3>1, <3>2 DEF Unlink, Link, Rename, Fail
  <2>2. Working' /\ NoAnswer'
    BY <1>0, <1>10, <2>1, MovesKeep DEF Unlink, Link, Rename, queue, Unanswered
  <2>3. Whole'
    <3>1. release[run[h].task].whole /\ UNCHANGED release
      BY <1>10 DEF Unlink, Link, Rename, Whole, Switching
    <3>2. tmp' \in {tmp, NoTask, run[h].task} /\ current' \in {current, tmp}
      BY <1>10 DEF Unlink, Link, Rename
    <3>3. \A g \in Handler :
            run'[g].at \in Switching => release[run'[g].task].whole
      BY <2>1 DEF Moves, Whole
    <3> QED BY <3>1, <3>2, <3>3 DEF Whole
  <2>4. Held'
    <3>1. Holding(h) /\ UNCHANGED <<lock, ousted>>
      BY <1>10 DEF Unlink, Link, Rename, Holding
    <3> QED BY <2>1, <3>1, HeldKeep
  <2> QED BY <2>2, <2>3, <2>4
<1>11. CASE Record(h) \/ Failing(h)
  <2>1. PICK out \in {"generated", "failed"} : Moves(h, "release", out)
    BY <1>0, <1>11 DEF Record, Failing, Moves, RunRow
  <2>2. Working' /\ NoAnswer'
    BY <1>11, <2>1, MovesKeep DEF Record, Failing, queue, Unanswered
  <2>3. Whole'
    BY <1>11, <2>1, WholeKeep DEF Record, Failing, Switching
  <2>4. Held'
    <3>1. Holding(h) /\ UNCHANGED <<lock, ousted>>
      BY <1>11 DEF Record, Failing, Holding
    <3> QED BY <2>1, <3>1, HeldKeep
  <2> QED BY <2>2, <2>3, <2>4
<1>12. CASE Finalize(h)
  <2>1. /\ \A g \in Handler : g # h => run'[g] = run[g]
        /\ run'[h].at = "idle"
    BY <1>0, <1>12 DEF Finalize, Idle
  <2>2. Working'
    <3>1. \A u \in Task : task'[u].status \in {"none", "pending"} =>
                            task'[u] = task[u]
      BY <1>12, TypeParts DEF Parts, Finalize, TaskRow
    <3>2. \A g \in Handler : run'[g].at # "idle" => run'[g] = run[g]
      BY <2>1
    <3> QED BY <3>1, <3>2 DEF Working
  <2>3. NoAnswer'
    BY <2>1 DEF NoAnswer, Unanswered
  <2>4. Whole'
    BY <1>12, <2>1 DEF Finalize, files, Whole, Switching
  <2>5. Held'
    BY <1>12, <2>1 DEF Finalize, files, Held, Holding
  <2> QED BY <2>2, <2>3, <2>4, <2>5
<1> QED BY <1>1, <1>2, <1>3, <1>4, <1>5, <1>6, <1>7, <1>8, <1>9, <1>10,
           <1>11, <1>12 DEF Work

(* What befalls the handlers preserves it too: an operation that fails, a  *)
(* claim, a process that dies, time.                                       *)
LEMMA FaultStep ==
  ASSUME TypeOK, Working, NoAnswer, Whole, Held, NEW h \in Handler,
         Falter(h) \/ \E l \in Locale : LoadRefused(h, l)
  PROVE  Working' /\ NoAnswer' /\ Whole' /\ Held'
<1>0. run \in [Handler -> RunRow]
  BY TypeParts DEF Parts
<1>1. UNCHANGED <<task, lock, release, tmp, current, ousted>>
  BY DEF Falter, LoadRefused, queue, files
<1>2. PICK step \in {"answer", "failing"}, out \in Answer :
        /\ Moves(h, step, out)
        /\ step = "failing" => Holding(h)
  <2>1. CASE End(h, "failed")
    BY <1>0, <2>1, EndMoves DEF Answer
  <2>2. CASE Fail(h)
    <3>1. Moves(h, "failing", run[h].out)
      BY <1>0, <2>2, GoMoves DEF Fail
    <3>2. Holding(h)
      <4>1. run'[h].at = "failing"
        BY <3>1 DEF Moves
      <4>2. ~End(h, "failed")
        BY <1>0, <4>1 DEF End, RunRow
      <4> QED BY <4>2 DEF Falter, LoadRefused, Holding
    <3>3. run[h].out \in Answer
      BY <1>0 DEF RunRow
    <3> QED BY <3>1, <3>2, <3>3
  <2> QED BY <2>1, <2>2 DEF Falter, LoadRefused
<1>3. run[h].at # "idle"
  BY DEF Falter, LoadRefused
<1>4. Working' /\ NoAnswer'
  BY <1>1, <1>2, <1>3, MovesKeep DEF Unanswered
<1>5. Whole'
  BY <1>1, <1>2, WholeKeep DEF Switching
<1>6. Held'
  <2>1. Holding(h)' => Holding(h)
    BY <1>2 DEF Moves, Holding
  <2> QED BY <1>1, <1>2, <2>1, HeldKeep
<1> QED BY <1>4, <1>5, <1>6

LEMMA ClaimStep ==
  ASSUME TypeOK, Working, NoAnswer, Whole, Held,
         NEW w \in Worker, NEW h \in Handler, NEW t \in Task, Claim(w, h, t)
  PROVE  Working' /\ NoAnswer' /\ Whole' /\ Held'
<1>0. run \in [Handler -> RunRow] /\ task \in [Task -> TaskRow]
  BY TypeParts DEF Parts
<1>1. /\ \A g \in Handler : g # h => run'[g] = run[g]
      /\ run'[h].at = "open" /\ run'[h].out = "none"
      /\ run'[h].task = t /\ run'[h].worker = w
  BY <1>0 DEF Claim, Idle
<1>2. UNCHANGED <<lock, release, tmp, current, ousted>>
  BY DEF Claim, files
<1>3. \A u \in Task : task'[u].status \in {"none", "pending"} =>
                        task'[u] = task[u]
  BY <1>0 DEF Claim, TaskRow
<1>4. Working'
  BY <1>1, <1>3 DEF Working
<1>5. NoAnswer'
  BY <1>1 DEF NoAnswer
<1>6. Whole'
  BY <1>1, <1>2 DEF Whole, Switching
<1>7. Held'
  BY <1>1, <1>2 DEF Held, Holding
<1> QED BY <1>4, <1>5, <1>6, <1>7

LEMMA CrashStep ==
  ASSUME TypeOK, Working, NoAnswer, Whole, Held, NEW w \in Worker, Crash(w)
  PROVE  Working' /\ NoAnswer' /\ Whole' /\ Held'
<1> DEFINE gone == {h \in Handler : run[h].worker = w}
<1>0. /\ run \in [Handler -> RunRow] /\ task \in [Task -> TaskRow]
      /\ lock \in LockFile
  BY TypeParts DEF Parts
<1>1. \A h \in Handler : run'[h].at = "idle" \/ (run'[h] = run[h] /\ h \notin gone)
  <2>1. run' = [h \in Handler |-> IF h \in gone THEN Idle ELSE run[h]]
    BY DEF Crash
  <2>2. Idle.at = "idle"
    BY DEF Idle
  <2>3. ASSUME NEW h \in Handler
        PROVE  run'[h].at = "idle" \/ (run'[h] = run[h] /\ h \notin gone)
    <3>1. run'[h] = IF h \in gone THEN Idle ELSE run[h]
      BY <2>1
    <3> HIDE DEF gone
    <3> QED BY <2>2, <3>1
  <2> QED BY <2>3
<1>2. UNCHANGED <<release, tmp, current, ousted>>
  BY DEF Crash
<1>3. \A u \in Task : /\ task'[u].status = task[u].status
                      /\ task'[u].tries = task[u].tries
  BY <1>0 DEF Crash, TaskRow
<1>4. Working'
  BY <1>1, <1>3 DEF Working
<1>5. NoAnswer'
  BY <1>1 DEF NoAnswer, Unanswered
<1>6. Whole'
  BY <1>1, <1>2 DEF Whole, Switching
<1>7. Held'
  <2>1. SUFFICES ASSUME ~ousted, NEW h \in Handler, Holding(h)'
                 PROVE  lock'.st # "none" /\ lock'.by = h
    BY <1>2 DEF Held
  <2>2. run'[h] = run[h] /\ h \notin gone
    BY <1>1, <2>1 DEF Holding
  <2>3. lock.st # "none" /\ lock.by = h
    BY <2>1, <2>2 DEF Holding, Held
  <2> QED BY <2>2, <2>3 DEF Crash
<1> QED BY <1>4, <1>5, <1>6, <1>7

LEMMA AgeStep ==
  ASSUME TypeOK, Working, NoAnswer, Whole, Held, Age
  PROVE  Working' /\ NoAnswer' /\ Whole' /\ Held'
<1>0. run \in [Handler -> RunRow] /\ lock \in LockFile
  BY TypeParts DEF Parts
<1>1. \A h \in Handler : /\ run'[h].at = run[h].at /\ run'[h].out = run[h].out
                         /\ run'[h].task = run[h].task
                         /\ run'[h].worker = run[h].worker
  BY <1>0 DEF Age, RunRow
<1>2. /\ UNCHANGED <<task, release, tmp, current, ousted>>
      /\ lock'.st = lock.st /\ lock'.by = lock.by
  BY <1>0 DEF Age, LockFile
<1>3. Working'
  BY <1>1, <1>2 DEF Working
<1>4. NoAnswer'
  BY <1>1 DEF NoAnswer
<1>5. Whole'
  BY <1>1, <1>2 DEF Whole
<1>6. Held'
  BY <1>1, <1>2 DEF Held, Holding
<1> QED BY <1>3, <1>4, <1>5, <1>6

(* Steps of the queue leave the handlers and the files alone.              *)
LEMMA QueueStep ==
  ASSUME TypeOK, Working, NoAnswer, Whole, Held,
         UNCHANGED <<run, lock, release, tmp, current, ousted>>,
         \A t \in Task : /\ task'[t].status = "none" => task'[t].tries = 0
                         /\ task'[t].status = "pending" =>
                              task'[t].tries < MaxAttempts
  PROVE  Working' /\ NoAnswer' /\ Whole' /\ Held'
<1>1. Working'
  BY DEF Working
<1>2. NoAnswer'
  BY DEF NoAnswer
<1>3. Whole'
  BY DEF Whole
<1>4. Held'
  BY DEF Held, Holding
<1> QED BY <1>1, <1>2, <1>3, <1>4

LEMMA InvStep == SitemapInv /\ [Next]_vars => SitemapInv'
<1> SUFFICES ASSUME SitemapInv, [Next]_vars PROVE SitemapInv'
  OBVIOUS
<1> DEFINE New == Working' /\ NoAnswer' /\ Whole' /\ Held'
<1>0. /\ TypeOK /\ Working /\ NoAnswer /\ Whole /\ Held
      /\ task \in [Task -> TaskRow]
  BY TypeParts DEF SitemapInv, Parts
<1>1. TypeOK'
  BY <1>0, TypeStep
<1>2. ASSUME NEW h \in Handler, Work(h) PROVE New
  BY <1>0, <1>2, WorkStep
<1>3. ASSUME NEW w \in Worker, NEW h \in Handler, NEW t \in Task, Claim(w, h, t)
      PROVE  New
  BY <1>0, <1>3, ClaimStep
<1>4. ASSUME NEW t \in Task, Recover(t) PROVE New
  <2>1. \A u \in Task : /\ task'[u].status = "none" => task'[u].tries = 0
                        /\ task'[u].status = "pending" =>
                             task'[u].tries < MaxAttempts
    BY <1>0, <1>4 DEF Recover, TaskRow, Working
  <2> QED BY <1>0, <1>4, <2>1, QueueStep DEF Recover, files
<1>5. ASSUME NEW h \in Handler, Falter(h) \/ \E l \in Locale : LoadRefused(h, l)
      PROVE  New
  BY <1>0, <1>5, FaultStep
<1>6. ASSUME NEW t \in Task, Lose(t) PROVE New
  <2>1. \A u \in Task : /\ task'[u].status = task[u].status
                        /\ task'[u].tries = task[u].tries
    BY <1>0, <1>6 DEF Lose, TaskRow
  <2> QED BY <1>0, <1>6, <2>1, QueueStep DEF Lose, files, Working
<1>7. ASSUME NEW w \in Worker, Crash(w) PROVE New
  BY <1>0, <1>7, CrashStep
<1>8. ASSUME Age PROVE New
  BY <1>0, <1>8, AgeStep
<1>9. ASSUME NEW a \in Article, Publish(a) \/ enqueueSitemapRefresh(a)
      PROVE  New
  <2>1. \A u \in Task : /\ task'[u].status = "none" => task'[u].tries = 0
                        /\ task'[u].status = "pending" =>
                             task'[u].tries < MaxAttempts
    BY <1>0, <1>9, SitemapAssumption
       DEF Publish, enqueueSitemapRefresh, TaskRow, Working
  <2> QED BY <1>0, <1>9, <2>1, QueueStep
          DEF Publish, enqueueSitemapRefresh, files
<1>10. ASSUME UNCHANGED vars PROVE New
  BY <1>0, <1>10, QueueStep DEF vars, files, Working
<1>11. New
  BY <1>2, <1>3, <1>4, <1>5, <1>6, <1>7, <1>8, <1>9, <1>10
     DEF Next, System, Mishap
<1> QED BY <1>1, <1>11 DEF SitemapInv
-----------------------------------------------------------------------------
(* The invariant holds of every behaviour, fair or not.                    *)
THEOREM SitemapInvariant == Spec => []SitemapInv
<1>1. Init => SitemapInv
  BY TypeInit, InvInit DEF SitemapInv
<1> QED BY <1>1, InvStep, PTL DEF Spec

(* What the site serves is always a release that was written to its end,   *)
(* with the files of every locale and the index, however many generations  *)
(* run, fail, die or take each other's locks.                              *)
THEOREM ServedComplete == Spec => []ServedIsComplete
<1>1. SitemapInv => ServedIsComplete
  BY TypeParts DEF SitemapInv, Parts, Whole, ServedIsComplete
<1> QED BY <1>1, SitemapInvariant, PTL

(* Two generations are under way at once only after a lock was taken over  *)
(* for being stale, whatever else fails.                                   *)
THEOREM KeptApart == Spec => []GenerationsApart
<1>1. SitemapInv => GenerationsApart
  BY DEF SitemapInv, Held, Holding, Generating, GenerationsApart
<1> QED BY <1>1, SitemapInvariant, PTL
=============================================================================
