---------------------------- MODULE SitemapRefresh ----------------------------
(***************************************************************************)
(* The static sitemap: a publication enqueues a refresh task, a worker     *)
(* generates a release directory under a lock file and switches the        *)
(* symlink `current` to it, and the site serves what `current` points to.  *)
(*                                                                         *)
(* One action is one file operation or one query between two awaits.  A    *)
(* release is named by the task that makes it, so the attempts of one task *)
(* share a directory, and the lock file, too, tells tasks apart but not    *)
(* their attempts.  The list of articles is kept by the worker process,    *)
(* per locale, from its first generation on: the handler's family builder  *)
(* is made once.  An item is reduced to what TaskQueue says of it.  Of     *)
(* time the model knows that thirty-five minutes may pass (Age).           *)
(***************************************************************************)
EXTENDS Naturals, FiniteSets

CONSTANTS
  Article,      \* numbered as they are published
  Locale,       \* numbered in the order of SITE_LOCALES
  LocaleOf,     \* the locale of each article
  MaxTasks,     \* bound: refresh tasks, numbered as they are created
  MaxAttempts,  \* the handler's maxAttempts: claims of one item
  Worker,       \* worker processes, restarted in place
  Handler,      \* handlers at work at once, numbered; a new one takes the
                \* lowest number that is free
  MaxMishaps,   \* bound: processes that die, leases lost by a running
                \* handler, and operations that fail, together
  MaxAges,      \* bound: times that thirty-five minutes pass
  NoTask, NoHandler, NoWorker

Task == 1..MaxTasks
Old == 0        \* the release served at the start
Release == {Old} \cup Task

ASSUME SitemapAssumption ==
  /\ Article \subseteq Nat /\ Locale \subseteq Nat /\ Handler \subseteq Nat
  /\ LocaleOf \in [Article -> Locale]
  /\ MaxTasks \in Nat \ {0} /\ MaxAttempts \in Nat \ {0}
  /\ MaxMishaps \in Nat /\ MaxAges \in Nat
  /\ NoTask \notin Release /\ NoHandler \notin Handler
  /\ NoWorker \notin Worker

VARIABLES
  visible,   \* articles the public predicates admit
  carrier,   \* the task each announced article was given to
  task,      \* the sitemap_refresh tasks, with their one item
  run,       \* the handlers
  cache,     \* per process and locale, the list its builder keeps
  lock,      \* sitemap-generation.lock; by is the handler whose file it is
  status,    \* status.json
  release,   \* releases/<task>
  tmp,       \* the symlink current.tmp
  current,   \* the symlink current
  late,      \* announced when a worker process had its list without them
  ousted,    \* a stale lock has been taken over
  mishaps, ages

files == <<lock, status, release, tmp, current>>
vars == <<visible, carrier, task, run, cache, files, late, ousted, mishaps,
          ages>>

RunAt == {"idle", "open", "fill", "look", "begin", "load", "write", "index",
          "unlink", "link", "rename", "record", "failing", "release",
          "remove", "answer"}
Answer == {"none", "generated", "coalesced", "failed"}

Idle == [at |-> "idle", task |-> NoTask, worker |-> NoWorker, again |-> FALSE,
         aged |-> FALSE, todo |-> {}, seen |-> NoTask, out |-> "none",
         moved |-> FALSE]
NoLock == [st |-> "none", run |-> NoTask, aged |-> FALSE, by |-> NoHandler]
Unread == [st |-> "none", list |-> {}]

Go(h, step) == run' = [run EXCEPT ![h].at = step]
End(h, answer) == run' = [run EXCEPT ![h].at = "answer", ![h].out = answer]
Fail(h) == Go(h, "failing")

\* The next locale of a loop over all of them, and the loop's end.
Turn(h, l) == l \in run[h].todo /\ \A m \in run[h].todo : l <= m
Done(h, l, step) ==
  [run EXCEPT ![h].todo = IF @ = {l} THEN Locale ELSE @ \ {l},
              ![h].at = IF run[h].todo = {l} THEN step ELSE @]

Served == IF current = NoTask THEN Unread ELSE release[current]
Listed(a) == current # NoTask /\ a \in release[current].list[LocaleOf[a]]

(* Pending or processing: at most one, by the advisory lock.               *)
OpenTask(t) == task[t].status \in {"pending", "processing"}

Busy(w) == \E h \in Handler :
             run[h].worker = w /\ task[run[h].task].owner = h
-----------------------------------------------------------------------------
Init ==
  /\ visible = {}
  /\ carrier = [a \in Article |-> NoTask]
  /\ task = [t \in Task |-> [status |-> "none", tries |-> 0,
                             owner |-> NoHandler, answer |-> "none"]]
  /\ run = [h \in Handler |-> Idle]
  /\ cache = [w \in Worker |-> [l \in Locale |-> Unread]]
  /\ lock = NoLock
  /\ status = [st |-> "idle", run |-> NoTask, aged |-> FALSE]
  /\ release = [r \in Release |->
                  [list |-> [l \in Locale |-> {}],
                   files |-> IF r = Old THEN Locale ELSE {},
                   whole |-> r = Old]]
  /\ tmp = NoTask
  /\ current \in {NoTask, Old}
  /\ late = {}
  /\ ousted = FALSE
  /\ mishaps = 0
  /\ ages = 0

(* A first publication commits.                                            *)
Publish(a) ==
  /\ \A b \in Article : b \in visible <=> b < a
  /\ visible' = visible \cup {a}
  /\ UNCHANGED <<carrier, task, run, cache, files, late, ousted, mishaps, ages>>

(* enqueueSitemapRefresh, by the same request afterwards, if it gets there. *)
enqueueSitemapRefresh(a) ==
  /\ a \in visible /\ carrier[a] = NoTask
  /\ \/ \E t \in Task :
          /\ OpenTask(t)
          /\ \A u \in Task : OpenTask(u) => t <= u
          /\ carrier' = [carrier EXCEPT ![a] = t]
          /\ UNCHANGED task
     \/ \E t \in Task :
          /\ \A u \in Task : ~OpenTask(u)
          /\ task[t].status = "none"
          /\ \A u \in 1..(t - 1) : task[u].status # "none"
          /\ carrier' = [carrier EXCEPT ![a] = t]
          /\ task' = [task EXCEPT ![t].status = "pending"]
  /\ late' = IF \E w \in Worker : /\ cache[w][LocaleOf[a]].st = "list"
                                  /\ a \notin cache[w][LocaleOf[a]].list
             THEN late \cup {a} ELSE late
  /\ UNCHANGED <<visible, run, cache, files, ousted, mishaps, ages>>

(* claimPendingItem; the handler's lease is its own until Lose.            *)
Claim(w, h, t) ==
  /\ task[t].status = "pending"
  /\ ~Busy(w)
  /\ run[h].at = "idle" /\ \A g \in Handler : run[g].at = "idle" => h <= g
  /\ task' = [task EXCEPT ![t].status = "processing", ![t].tries = @ + 1,
                          ![t].owner = h]
  /\ run' = [run EXCEPT ![h] = [Idle EXCEPT !.at = "open", !.task = t,
                                            !.worker = w]]
  /\ UNCHANGED <<visible, carrier, cache, files, late, ousted, mishaps, ages>>
-----------------------------------------------------------------------------
queue == <<visible, carrier, task, late, ages>>

\* The lock file is created or overwritten.
OpenMutant(h) ==
  /\ run[h].at = "open"
  /\ lock' = [NoLock EXCEPT !.st = "empty", !.by = h]
  /\ Go(h, "fill")
  /\ UNCHANGED <<queue, cache, status, release, tmp, current, ousted, mishaps>>

(* acquireSitemapGenerationLock: open with wx ...                          *)
Open(h) ==
  /\ run[h].at = "open"
  /\ IF lock.st = "none"
     THEN /\ lock' = [NoLock EXCEPT !.st = "empty", !.by = h]
          /\ Go(h, "fill")
     ELSE UNCHANGED lock /\ Go(h, "look")
  /\ UNCHANGED <<queue, cache, status, release, tmp, current, ousted, mishaps>>

(* ... and write, into the file that was opened.                           *)
Fill(h) ==
  /\ run[h].at = "fill"
  /\ lock' = IF lock.by = h
             THEN [lock EXCEPT !.st = "held", !.run = run[h].task,
                               !.aged = run[h].aged]
             ELSE lock
  /\ Go(h, "begin")
  /\ UNCHANGED <<queue, cache, status, release, tmp, current, ousted, mishaps>>

(* readSitemapRefreshState: an empty lock file reads as no lock at all.    *)
Shown == IF lock.st = "held"
         THEN [st |-> "running", run |-> lock.run, aged |-> lock.aged]
         ELSE status

\* A handler waits for the generation under way.
LookMutant(h) ==
  /\ run[h].at = "look"
  /\ lock.st = "none" /\ Go(h, "open")
  /\ UNCHANGED <<queue, cache, files, ousted, mishaps>>

(* The handler on an answer `running`: it fails if it cannot tell whose    *)
(* lock it is, coalesces if the lock is fresh, and takes a stale one over, *)
(* once.                                                                   *)
Look(h) ==
  /\ run[h].at = "look"
  /\ \/ Shown.st # "running" /\ End(h, "failed")
     \/ Shown.st = "running" /\ ~Shown.aged /\ End(h, "coalesced")
     \/ /\ Shown.st = "running" /\ Shown.aged /\ ~run[h].again
        /\ run' = [run EXCEPT ![h].at = "release", ![h].seen = Shown.run,
                              ![h].again = TRUE]
     \/ /\ Shown.st = "running" /\ Shown.aged /\ run[h].again
        /\ End(h, "failed")
  /\ UNCHANGED <<queue, cache, files, ousted, mishaps>>

Mine(h) == lock.st = "held" /\ lock.run = run[h].seen

(* A stale lock's taker tries again, a generation that is over answers.    *)
Released(h) ==
  IF run[h].out = "none"
  THEN run' = [run EXCEPT ![h].at = "open", ![h].aged = FALSE]
  ELSE Go(h, "answer")

(* releaseSitemapGenerationLock reads the lock ...                         *)
ReadLock(h) ==
  /\ run[h].at = "release"
  /\ IF Mine(h) THEN Go(h, "remove")
     ELSE Released(h)
  /\ UNCHANGED <<queue, cache, files, ousted, mishaps>>

(* ... and removes the file, whosever it is by then.                       *)
RemoveLock(h) ==
  /\ run[h].at = "remove"
  /\ lock' = NoLock
  /\ ousted' = (ousted \/ run[h].out = "none")
  /\ Released(h)
  /\ UNCHANGED <<queue, cache, status, release, tmp, current, mishaps>>

\* The generation clears the directory it is going to write.
BeginMutant(h) ==
  /\ run[h].at = "begin"
  /\ status' = [st |-> "running", run |-> run[h].task,
                aged |-> run[h].aged]
  /\ release' = [release EXCEPT ![run[h].task].files = {},
                                ![run[h].task].whole = FALSE]
  /\ run' = [run EXCEPT ![h].at = "load", ![h].todo = Locale,
                        ![h].seen = run[h].task]
  /\ UNCHANGED <<queue, cache, lock, tmp, current, ousted, mishaps>>

(* writeStatus("running"), before the try block.                           *)
Begin(h) ==
  /\ run[h].at = "begin"
  /\ status' = [st |-> "running", run |-> run[h].task,
                aged |-> run[h].aged]
  /\ run' = [run EXCEPT ![h].at = "load", ![h].todo = Locale,
                        ![h].seen = run[h].task]
  /\ UNCHANGED <<queue, cache, lock, release, tmp, current, ousted, mishaps>>

(* The first family: each locale's list is loaded once per process.  A     *)
(* query that was refused is kept as well, and fails every later one.      *)
Load(h, l) ==
  LET w == run[h].worker
      first == cache[w][l].st = "none"
  IN  /\ run[h].at = "load" /\ Turn(h, l)
      /\ cache' = IF first
                  THEN [cache EXCEPT ![w][l] =
                          [st |-> "list",
                           list |-> {a \in visible : LocaleOf[a] = l}]]
                  ELSE cache
      /\ IF cache[w][l].st = "broken" THEN Fail(h)
         ELSE run' = Done(h, l, "write")
      /\ UNCHANGED <<queue, files, ousted, mishaps>>

LoadRefused(h, l) ==
  LET w == run[h].worker
  IN  /\ run[h].at = "load" /\ Turn(h, l)
      /\ cache[w][l].st = "none"
      /\ cache' = [cache EXCEPT ![w][l].st = "broken"]
      /\ Fail(h)
      /\ UNCHANGED <<queue, files, ousted>>

(* The locale's files, into the release of this run id.                    *)
WriteFile(h, l) ==
  LET t == run[h].task
      list == cache[run[h].worker][l].list
  IN  /\ run[h].at = "write" /\ Turn(h, l)
      /\ release' = [release EXCEPT ![t].list[l] = list,
                                    ![t].files = @ \cup {l}]
      /\ run' = [Done(h, l, "index") EXCEPT
                   ![h].moved = @ \/ (current = t /\ release[t].list[l] # list)]
      /\ UNCHANGED <<queue, cache, lock, status, tmp, current, ousted, mishaps>>

(* The index and validateReleaseDirectory, then the manifest.              *)
Index(h) ==
  /\ run[h].at = "index"
  /\ release[run[h].task].files = Locale
  /\ release' = [release EXCEPT ![run[h].task].whole = TRUE]
  /\ Go(h, "unlink")
  /\ UNCHANGED <<queue, cache, lock, status, tmp, current, ousted, mishaps>>

(* replaceCurrentSymlink: remove current.tmp, make it, rename it.  Two     *)
(* generations share the name.                                             *)
Unlink(h) ==
  /\ run[h].at = "unlink"
  /\ tmp' = NoTask
  /\ Go(h, "link")
  /\ UNCHANGED <<queue, cache, lock, status, release, current, ousted, mishaps>>

Link(h) ==
  /\ run[h].at = "link"
  /\ IF tmp = NoTask THEN tmp' = run[h].task /\ Go(h, "rename")
     ELSE UNCHANGED tmp /\ Fail(h)
  /\ UNCHANGED <<queue, cache, lock, status, release, current, ousted, mishaps>>

Rename(h) ==
  /\ run[h].at = "rename"
  /\ IF tmp = NoTask THEN UNCHANGED <<tmp, current>> /\ Fail(h)
     ELSE /\ current' = tmp
          /\ tmp' = NoTask
          /\ run' = [run EXCEPT ![h].at = "record", ![h].moved = TRUE]
  /\ UNCHANGED <<queue, cache, lock, status, release, ousted, mishaps>>

(* The manifest's promotedAt and writeStatus("success").                   *)
Record(h) ==
  /\ run[h].at = "record"
  /\ status' = [status EXCEPT !.st = "success", !.run = run[h].task]
  /\ run' = [run EXCEPT ![h].at = "release", ![h].out = "generated"]
  /\ UNCHANGED <<queue, cache, lock, release, tmp, current, ousted, mishaps>>

(* writeStatus("failed"), in the catch block.                              *)
Failing(h) ==
  /\ run[h].at = "failing"
  /\ status' = [status EXCEPT !.st = "failed", !.run = run[h].task]
  /\ run' = [run EXCEPT ![h].at = "release", ![h].out = "failed"]
  /\ UNCHANGED <<queue, cache, lock, release, tmp, current, ousted, mishaps>>

(* A file operation or a query fails.  Inside the try block the generation *)
(* is caught and fails; outside it the handler throws, the lock stays, and *)
(* the worker takes the exception for a failure.                           *)
Falter(h) ==
  /\ \/ run[h].at \in {"write", "index", "unlink", "link", "rename", "record"}
        /\ Fail(h)
     \/ run[h].at \in {"open", "fill", "look", "begin", "release", "remove",
                       "failing"}
        /\ run[h].out # "generated"
        /\ End(h, "failed")
     \/ run[h].at \in {"release", "remove"} /\ run[h].out = "generated"
        /\ Fail(h)
  /\ UNCHANGED <<queue, cache, files, ousted>>

(* finalizeTaskItem, under the fence of the lease.                         *)
Finalize(h) ==
  LET t == run[h].task
  IN  /\ run[h].at = "answer"
      /\ task' = IF task[t].owner = h
                 THEN [task EXCEPT
                        ![t].status = IF run[h].out = "failed" THEN "failed"
                                      ELSE "success",
                        ![t].owner = NoHandler, ![t].answer = run[h].out]
                 ELSE task
      /\ run' = [run EXCEPT ![h] = Idle]
      /\ UNCHANGED <<visible, carrier, cache, files, late, ousted, mishaps,
                     ages>>

(* The lease expires under a running handler.  Its worker leaves it behind *)
(* at the drain deadline, and it goes on in the same process.              *)
Lose(t) ==
  /\ task[t].owner # NoHandler
  /\ task' = [task EXCEPT ![t].owner = NoHandler]
  /\ UNCHANGED <<visible, carrier, run, cache, files, late, ousted, ages>>

(* A worker process dies with its handlers and its lists, at work or idle, *)
(* and docker starts it again.                                             *)
Crash(w) ==
  LET gone == {h \in Handler : run[h].worker = w}
  IN  /\ gone # {} \/ \E l \in Locale : cache[w][l] # Unread
      /\ run' = [h \in Handler |-> IF h \in gone THEN Idle ELSE run[h]]
      /\ task' = [t \in Task |-> IF task[t].owner \in gone
                                 THEN [task[t] EXCEPT !.owner = NoHandler]
                                 ELSE task[t]]
      /\ cache' = [cache EXCEPT ![w] = [l \in Locale |-> Unread]]
      /\ lock' = IF lock.by \in gone THEN [lock EXCEPT !.by = NoHandler]
                 ELSE lock
      /\ UNCHANGED <<visible, carrier, status, release, tmp, current, late,
                     ousted, ages>>

(* recoverExpiredItem.                                                     *)
Recover(t) ==
  /\ task[t].status = "processing" /\ task[t].owner = NoHandler
  /\ task' = [task EXCEPT
       ![t].status = IF task[t].tries < MaxAttempts THEN "pending"
                     ELSE "failed",
       ![t].answer = IF task[t].tries < MaxAttempts THEN "none" ELSE "failed"]
  /\ UNCHANGED <<visible, carrier, run, cache, files, late, ousted, mishaps,
                 ages>>

(* Thirty-five minutes pass: every start noted so far is stale.            *)
Age ==
  /\ ages < MaxAges
  /\ lock.st # "none"
  /\ ages' = ages + 1
  /\ lock' = [lock EXCEPT !.aged = (lock.st = "held")]
  /\ status' = [status EXCEPT !.aged = (status.st = "running")]
  /\ run' = [h \in Handler |-> [run[h] EXCEPT !.aged = (run[h].at # "idle")]]
  /\ UNCHANGED <<visible, carrier, task, cache, release, tmp, current, late,
                 ousted, mishaps>>
-----------------------------------------------------------------------------
Work(h) ==
  \/ Open(h) \/ Fill(h) \/ Look(h) \/ ReadLock(h) \/ RemoveLock(h)
  \/ Begin(h)
  \/ \E l \in Locale : Load(h, l) \/ WriteFile(h, l)
  \/ Index(h) \/ Unlink(h) \/ Link(h) \/ Rename(h) \/ Record(h)
  \/ Failing(h) \/ Finalize(h)

System ==
  \/ \E h \in Handler : Work(h)
  \/ \E w \in Worker, h \in Handler, t \in Task : Claim(w, h, t)
  \/ \E t \in Task : Recover(t)

Mishap ==
  /\ mishaps < MaxMishaps
  /\ mishaps' = mishaps + 1
  /\ \/ \E h \in Handler : Falter(h)
     \/ \E h \in Handler, l \in Locale : LoadRefused(h, l)
     \/ \E t \in Task : Lose(t)
     \/ \E w \in Worker : Crash(w)

Next ==
  \/ System \/ Mishap \/ Age
  \/ \E a \in Article : Publish(a) \/ enqueueSitemapRefresh(a)

Spec == Init /\ [][Next]_vars

(* Workers poll for items to claim and to recover, and a handler's awaits  *)
(* return.  Nothing is assumed of publications, mishaps or time.           *)
FairSpec ==
  /\ Spec
  /\ \A h \in Handler : WF_vars(Work(h))
  /\ WF_vars(\E w \in Worker, h \in Handler, t \in Task : Claim(w, h, t))
  /\ WF_vars(\E t \in Task : Recover(t))
-----------------------------------------------------------------------------
TypeOK ==
  /\ visible \subseteq Article /\ late \subseteq visible
  /\ carrier \in [Article -> Task \cup {NoTask}]
  /\ task \in [Task ->
       [status : {"none", "pending", "processing", "success", "failed"},
        tries : 0..MaxAttempts, owner : Handler \cup {NoHandler},
        answer : Answer]]
  /\ run \in [Handler ->
       [at : RunAt, task : Task \cup {NoTask}, worker : Worker \cup {NoWorker},
        again : BOOLEAN, aged : BOOLEAN, todo : SUBSET Locale,
        seen : Task \cup {NoTask}, out : Answer, moved : BOOLEAN]]
  /\ cache \in [Worker -> [Locale -> [st : {"none", "list", "broken"},
                                      list : SUBSET Article]]]
  /\ lock \in [st : {"none", "empty", "held"}, run : Task \cup {NoTask},
               aged : BOOLEAN, by : Handler \cup {NoHandler}]
  /\ status \in [st : {"idle", "running", "success", "failed"},
                 run : Task \cup {NoTask}, aged : BOOLEAN]
  /\ release \in [Release -> [list : [Locale -> SUBSET Article],
                              files : SUBSET Locale, whole : BOOLEAN]]
  /\ {tmp, current} \subseteq Release \cup {NoTask}

(* What the site serves is a release that was written to its end: every    *)
(* locale's files and the index, also while a rerun of the same task       *)
(* writes over it and while two generations switch the symlink at once.    *)
ServedIsComplete ==
  /\ TypeOK
  /\ current # NoTask => /\ release[current].files = Locale
                         /\ release[current].whole

Generating(h) ==
  /\ run[h].at \in {"begin", "load", "write", "index", "unlink", "link",
                    "rename", "record", "failing"}

(* The lock file keeps generations apart: two are under way at once only   *)
(* after a lock was taken over for being stale.  The removal of a lock is  *)
(* a read and an unlink, and attempts of one task share its run id.        *)
GenerationsApart ==
  \A g, h \in Handler : Generating(g) /\ Generating(h) => g = h \/ ousted

(* An announced article comes into the sitemap and stays, whatever         *)
(* generations follow or overtake the one it was given to; but when its    *)
(* refresh failed, found a generation under way and left it to that one,   *)
(* or when a worker process had made its list before.                      *)
AnnouncedStaysListed ==
  \A a \in Article :
    carrier[a] # NoTask ~>
      \/ a \in late
      \/ \E t \in Task : /\ carrier[a] = t
                         /\ task[t].answer \in {"failed", "coalesced"}
      \/ [](Listed(a))
=============================================================================
