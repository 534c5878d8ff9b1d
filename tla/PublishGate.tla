------------------------------ MODULE PublishGate ------------------------------
(***************************************************************************)
(* Publication of articles and the rights transitions of their novels.     *)
(*                                                                         *)
(* A request is one READ COMMITTED transaction, wrapped in withDbRetry:    *)
(* publish reads its facts, asks the gate and then writes only if the      *)
(* article (and the novel) still have the status it read; withdraw,        *)
(* takedown and restore check the novel's status, list the articles and    *)
(* then write by id.  A rebind moves an article to another novel, and a    *)
(* generation inserts one, in between.  One action is one statement.  All  *)
(* rows that a transaction writes get the same status, so an open          *)
(* transaction is what it has read and the rows it has locked, and its     *)
(* writes appear when it commits.                                          *)
(*                                                                         *)
(* promo says that the article is bound to a fetched link of its novel;    *)
(* links neither come nor go (PromoClaim).  Novels are draft, never ready, *)
(* nothing is soft-deleted, the title, the slug and the body are there.    *)
(***************************************************************************)
EXTENDS Naturals, Sequences, FiniteSets

CONSTANTS
  Article, Novel,
  Home, Old,     \* a novel, and the articles that it has from the start
  ArticleLocale, NovelLocale,  \* the locale of each
  Proc,          \* requests at work at once
  MaxRequests,   \* bound: requests ever sent
  MaxMishaps,    \* bound: processes that die, transactions that are retried,
                 \* requests that are sent again, dispatches that fail, together
  NoOne          \* a value not read yet; the novel of an article not written

ArticleStatus == {"draft", "published", "unpublished", "takedown"}
ArticleRow == [status : ArticleStatus, novel : Novel \cup {NoOne},
               promo : BOOLEAN, dated : BOOLEAN]

ASSUME PublishGateAssumption ==
  /\ MaxRequests \in Nat /\ MaxMishaps \in Nat
  /\ Article \cap Novel = {} /\ Home \in Novel /\ Old \subseteq Article
  /\ NoOne \notin Novel \cup ArticleStatus \cup ArticleRow

VARIABLES
  article, novel, chapters,
  links,      \* novels with a fetched promo link, from the start
  request,    \* the requests sent; a request id is a position in it
  txn,        \* what each process has read and where it is
  held,       \* the rows each transaction has written, and holds locked
  audited,    \* request ids with an operation_audit row
  announced,  \* how often dispatchFirstPublicPublication ran, per article
  mishaps,
  \* What happened, for the properties.
  lost,       \* articles whose dispatch failed, or died with its process or
              \* the answer of the commit
  returned,   \* <<row, kind>>: the row was published although a transition
              \* of that kind had committed since it was read
  crossed,    \* articles moved, or inserted, under a rights transition
  drafted     \* articles inserted under a novel that was taken down

rows == <<article, novel, chapters, links>>
history == <<lost, returned, crossed, drafted>>
vars == <<rows, request, txn, held, audited, announced, mishaps, history>>

Rights == {"withdraw", "takedown", "restore"}

\* RIGHTS_TRANSITION_TARGET, and the target of a publication.
Target(kind) ==
  [publish |-> "published", withdraw |-> "unpublished",
   takedown |-> "takedown", restore |-> "draft"][kind]

Job == [kind : {"publish"}, row : Article]
         \cup [kind : Rights, row : Novel]
         \cup [kind : {"rebind"}, row : Article, to : Novel]

\* Locales stay as they are: a rebind to a novel of another locale fails at
\* once and is not sent.
Sendable(j) ==
  /\ j.row \in Article => article[j.row].novel # NoOne
  /\ j.kind = "rebind" => ArticleLocale[j.row] = NovelLocale[j.to]

First(kind) == CASE kind = "publish" -> "article"
                 [] kind = "rebind" -> "guards"
                 [] OTHER -> "audit"

Fresh(step, id) == [at |-> step, id |-> id, seen |-> NoOne,
                    novelSeen |-> NoOne, todo |-> {}, since |-> {}]
Idle == Fresh("idle", 0)
Begin(id) == Fresh(First(request[id].kind), id)

job(p) == request[txn[p].id]
Kind(p) == job(p).kind
Busy(p) == txn[p].at # "idle"

Go(p, step) == txn' = [txn EXCEPT ![p].at = step]
Free(row, p) == \A q \in Proc \ {p} : row \notin held[q]
Lock(p, row) == held' = [held EXCEPT ![p] = @ \cup {row}]
Leave(p) == /\ txn' = [txn EXCEPT ![p] = Idle]
            /\ held' = [held EXCEPT ![p] = {}]

ArticlesOf(n) == {a \in Article : article[a].novel = n}
-----------------------------------------------------------------------------
Init ==
  /\ chapters = [n \in Novel |-> IF n = Home THEN "none" ELSE "live"]
  /\ links \in {l \in SUBSET Novel : Home \in l}
  /\ article = [a \in Article |->
       [status |-> "draft", novel |-> IF a \in Old THEN Home ELSE NoOne,
        promo |-> TRUE, dated |-> FALSE]]
  /\ novel = [n \in Novel |-> "draft"]
  /\ request = <<>>
  /\ txn = [p \in Proc |-> Idle]
  /\ held = [p \in Proc |-> {}]
  /\ audited = {}
  /\ announced = [a \in Article |-> 0]
  /\ mishaps = 0
  /\ lost = {} /\ returned = {} /\ crossed = {} /\ drafted = {}

Send(p) ==
  /\ ~Busy(p)
  /\ Len(request) < MaxRequests
  /\ \E j \in Job :
       /\ Sendable(j)
       /\ request' = Append(request, j)
       /\ txn' = [txn EXCEPT ![p] = Fresh(First(j.kind), Len(request) + 1)]
  /\ UNCHANGED <<rows, held, audited, announced, mishaps, history>>

(* The caller sends it once more, under the same request id.               *)
SendAgain(p) ==
  /\ ~Busy(p)
  /\ mishaps < MaxMishaps
  /\ mishaps' = mishaps + 1
  /\ \E id \in 1..Len(request) : txn' = [txn EXCEPT ![p] = Begin(id)]
  /\ UNCHANGED <<rows, request, held, audited, announced, history>>
-----------------------------------------------------------------------------
(* applyPublishTransition: loadPublishGateFacts, three statements.         *)
ReadArticle(p) ==
  /\ txn[p].at = "article"
  /\ txn' = [txn EXCEPT
       ![p] = [@ EXCEPT !.at = "novel", !.seen = article[job(p).row]]]
  /\ UNCHANGED <<rows, request, held, audited, announced, mishaps, history>>

ReadNovel(p) ==
  /\ txn[p].at = "novel"
  /\ txn' = [txn EXCEPT
       ![p] = [@ EXCEPT !.at = "gate", !.novelSeen = novel[txn[p].seen.novel]]]
  /\ UNCHANGED <<rows, request, held, audited, announced, mishaps, history>>

\* The gate forgets the preview chapters.
PublishableMutant(seen, novelSeen) ==
  seen.promo /\ seen.status # "takedown" /\ novelSeen # "takedown"

evaluatePublishGate(seen, novelSeen) ==
  /\ seen.promo
  /\ chapters[seen.novel] = "live"
  /\ seen.status # "takedown" /\ novelSeen # "takedown"

Gate(p) ==
  /\ txn[p].at = "gate"
  /\ IF evaluatePublishGate(txn[p].seen, txn[p].novelSeen)
     THEN Go(p, "replay") /\ UNCHANGED held
     ELSE Leave(p)
  /\ UNCHANGED <<rows, request, audited, announced, mishaps, history>>

Replay(p) ==
  /\ txn[p].at = "replay"
  /\ IF txn[p].id \in audited THEN Leave(p)
     ELSE Go(p, "article_write") /\ UNCHANGED held
  /\ UNCHANGED <<rows, request, audited, announced, mishaps, history>>

\* The update is conditional on the id alone.
StillAsReadMutant(now, seen) == TRUE

StillAsRead(now, seen) == now = seen

(* A conflict rolls back; so does article_published_promo_link_check.      *)
WriteArticle(p) ==
  LET a == job(p).row IN
  /\ txn[p].at = "article_write"
  /\ Free(a, p)
  /\ IF StillAsRead(article[a].status, txn[p].seen.status) /\ article[a].promo
     THEN Lock(p, a) /\ Go(p, "novel_write")
     ELSE Leave(p)
  /\ UNCHANGED <<rows, request, audited, announced, mishaps, history>>

\* A novel that was published when it was read is not written.
NovelSettled(p) == txn[p].novelSeen = "published"

WriteNovel(p) ==
  LET n == txn[p].seen.novel IN
  /\ txn[p].at = "novel_write"
  /\ IF NovelSettled(p) THEN Go(p, "commit") /\ UNCHANGED held
     ELSE /\ Free(n, p)
          /\ IF StillAsRead(novel[n], txn[p].novelSeen)
             THEN Lock(p, n) /\ Go(p, "commit")
             ELSE Leave(p)
  /\ UNCHANGED <<rows, request, audited, announced, mishaps, history>>

Dispatch(p) ==
  /\ txn[p].at = "dispatch"
  /\ announced' = [announced EXCEPT ![job(p).row] = @ + 1]
  /\ Leave(p)
  /\ UNCHANGED <<rows, request, audited, mishaps, history>>

(* A handler throws: the error is logged, and the caller gets its answer   *)
(* as if the announcement had been enqueued.                               *)
DispatchFails(p) ==
  /\ txn[p].at = "dispatch"
  /\ mishaps < MaxMishaps
  /\ mishaps' = mishaps + 1
  /\ lost' = lost \cup {job(p).row}
  /\ Leave(p)
  /\ UNCHANGED <<rows, request, audited, announced, returned, crossed, drafted>>
-----------------------------------------------------------------------------
(* applyNovelRightsTransition.                                             *)
FindAudit(p) ==
  /\ txn[p].at = "audit"
  /\ IF txn[p].id \in audited THEN Leave(p)
     ELSE Go(p, "source") /\ UNCHANGED held
  /\ UNCHANGED <<rows, request, audited, announced, mishaps, history>>

requireSourceStatus(kind, status) ==
  CASE kind = "withdraw" -> status = "published"
    [] kind = "takedown" -> status # "takedown"
    [] kind = "restore" -> status = "takedown"

ReadSource(p) ==
  LET n == job(p).row IN
  /\ txn[p].at = "source"
  /\ IF requireSourceStatus(Kind(p), novel[n])
     THEN Go(p, "affected") /\ UNCHANGED held
     ELSE Leave(p)
  /\ UNCHANGED <<rows, request, audited, announced, mishaps, history>>

\* A takedown, too, takes the published articles only.
AffectedMutant(kind, n) ==
  {a \in ArticlesOf(n) :
     article[a].status = IF kind = "restore" THEN "takedown" ELSE "published"}

Affected(kind, n) ==
  {a \in ArticlesOf(n) : /\ kind = "withdraw" => article[a].status = "published"
                         /\ kind = "restore" => article[a].status = "takedown"}

ReadAffected(p) ==
  /\ txn[p].at = "affected"
  /\ txn' = [txn EXCEPT
       ![p] = [@ EXCEPT !.at = "novel_update",
                        !.todo = Affected(Kind(p), job(p).row)]]
  /\ UNCHANGED <<rows, request, held, audited, announced, mishaps, history>>

UpdateNovel(p) ==
  /\ txn[p].at = "novel_update"
  /\ Free(job(p).row, p)
  /\ Lock(p, job(p).row)
  /\ Go(p, IF txn[p].todo = {} THEN "commit" ELSE "articles")
  /\ UNCHANGED <<rows, request, audited, announced, mishaps, history>>

(* One statement, which takes the rows one after the other.                *)
UpdateArticle(p) ==
  /\ txn[p].at = "articles"
  /\ \E a \in txn[p].todo :
       /\ Free(a, p)
       /\ Lock(p, a)
       /\ txn' = [txn EXCEPT
            ![p] = [@ EXCEPT
              !.todo = txn[p].todo \ {a},
              !.at = IF txn[p].todo = {a} THEN "commit" ELSE "articles"]]
  /\ UNCHANGED <<rows, request, audited, announced, mishaps, history>>
-----------------------------------------------------------------------------
\* resolveArticlePublishTimeForWrite: set once, then kept.
PublishTime(kind, dated) == dated \/ kind = "publish"

(* The rows take the status; a takedown withdraws the chapters and deletes *)
(* their content; the audit row is part of the transaction.                *)
Apply(p) ==
  /\ article' = [a \in Article |->
       IF a \in held[p]
       THEN [article[a] EXCEPT !.status = Target(Kind(p)),
                               !.dated = PublishTime(Kind(p), article[a].dated)]
       ELSE article[a]]
  /\ novel' = [n \in Novel |-> IF n \in held[p] THEN Target(Kind(p)) ELSE novel[n]]
  /\ chapters' = IF Kind(p) = "takedown" /\ chapters[job(p).row] = "live"
                 THEN [chapters EXCEPT ![job(p).row] = "withdrawn"]
                 ELSE chapters
  /\ audited' = audited \cup {txn[p].id}
  /\ returned' = IF Kind(p) = "publish"
                 THEN returned \cup (held[p] \X txn[p].since) ELSE returned
  /\ UNCHANGED <<request, links, announced, crossed, drafted>>

(* Publications that have read the rows of the transition that commits.    *)
Overtaken(p) ==
  {q \in Proc \ {p} : /\ Busy(q) /\ Kind(q) = "publish"
                      /\ txn[q].seen # NoOne
                      /\ txn[q].seen.novel \in held[p] \/ job(q).row \in held[p]}
Note(p) ==
  [q \in Proc |-> IF Kind(p) \in {"takedown", "restore"} /\ q \in Overtaken(p)
                  THEN [txn[q] EXCEPT !.since = @ \cup {Kind(p)}] ELSE txn[q]]

FirstPublish(p) == Kind(p) = "publish" /\ ~txn[p].seen.dated

Commit(p) ==
  /\ txn[p].at = "commit"
  /\ Apply(p)
  /\ txn' = [Note(p) EXCEPT ![p] = IF FirstPublish(p)
                                   THEN [txn[p] EXCEPT !.at = "dispatch"]
                                   ELSE Idle]
  /\ held' = [held EXCEPT ![p] = {}]
  /\ UNCHANGED <<mishaps, lost>>

(* The commit stands but its answer is lost: withDbRetry runs the          *)
(* transaction again, which finds its own audit row.                       *)
CommitUnanswered(p) ==
  /\ txn[p].at = "commit"
  /\ mishaps < MaxMishaps
  /\ mishaps' = mishaps + 1
  /\ Apply(p)
  /\ txn' = [Note(p) EXCEPT ![p] = Begin(txn[p].id)]
  /\ held' = [held EXCEPT ![p] = {}]
  /\ lost' = IF FirstPublish(p) THEN lost \cup {job(p).row} ELSE lost

(* A transient error before the commit.                                    *)
Retry(p) ==
  /\ txn[p].at \notin {"idle", "dispatch"}
  /\ mishaps < MaxMishaps
  /\ mishaps' = mishaps + 1
  /\ txn' = [txn EXCEPT ![p] = Begin(txn[p].id)]
  /\ held' = [held EXCEPT ![p] = {}]
  /\ UNCHANGED <<rows, request, audited, announced, history>>

Crash(p) ==
  /\ Busy(p)
  /\ mishaps < MaxMishaps
  /\ mishaps' = mishaps + 1
  /\ Leave(p)
  /\ lost' = IF txn[p].at = "dispatch" THEN lost \cup {job(p).row} ELSE lost
  /\ UNCHANGED <<rows, request, audited, announced, returned, crossed, drafted>>

(* A publication locks the article, then the novel; a rights transition    *)
(* the novel, then the articles.  The deadlock's victim is not retried.    *)
Wants(p) ==
  CASE txn[p].at \in {"article_write", "novel_update", "move"} -> {job(p).row}
    [] txn[p].at = "novel_write" /\ ~NovelSettled(p) -> {txn[p].seen.novel}
    [] txn[p].at = "articles" -> txn[p].todo
    [] OTHER -> {}

Waits(p, q) == p # q /\ Busy(p) /\ Busy(q) /\ Wants(p) \cap held[q] # {}

Victim(p) ==
  /\ \E q \in Proc : Waits(p, q) /\ Waits(q, p)
  /\ Leave(p)
  /\ UNCHANGED <<rows, request, audited, announced, mishaps, history>>
-----------------------------------------------------------------------------
\* article_novel_locale_key, the unique index.
NoOther(a, n) == \A b \in ArticlesOf(n) : ArticleLocale[b] # ArticleLocale[a]

(* runRebindTransactionalWrite: the guards, then the write, which is       *)
(* conditional on the novel alone.                                         *)
RebindAllowed(a, n) ==
  /\ article[a].novel # n
  /\ novel[n] # "takedown"
  /\ article[a].status = "published" => n \in links
  /\ NoOther(a, n)

Guards(p) ==
  LET a == job(p).row
      n == job(p).to IN
  /\ txn[p].at = "guards"
  /\ IF RebindAllowed(a, n)
     THEN /\ txn' = [txn EXCEPT
               ![p] = [@ EXCEPT
                 !.at = "move",
                 !.seen = [article[a] EXCEPT !.promo = n \in links]]]
          /\ UNCHANGED held
     ELSE Leave(p)
  /\ UNCHANGED <<rows, request, audited, announced, mishaps, history>>

(* A transition of the novel has listed its articles, or one of another    *)
(* novel has this article on its list.                                     *)
Listed(a, n) ==
  \E q \in Proc : /\ Busy(q) /\ Kind(q) \in Rights
                  /\ txn[q].at \in {"novel_update", "articles", "commit"}
                  /\ job(q).row = n \/ a \in txn[q].todo

(* Moved to a novel after a takedown of it had listed its articles, or     *)
(* while a transition of the old one had it on its list.                   *)
Crossing(a, n) ==
  novel[n] = "takedown" \/ Listed(a, n)

Move(p) ==
  LET a == job(p).row
      n == job(p).to
      seen == txn[p].seen IN
  /\ txn[p].at = "move"
  /\ Free(a, p)
  /\ IF /\ article[a].novel = seen.novel
        /\ article[a].status = "published" => seen.promo
        /\ NoOther(a, n)
     THEN /\ article' = [article EXCEPT
               ![a] = [@ EXCEPT !.novel = n, !.promo = seen.promo]]
          /\ crossed' = IF Crossing(a, n) THEN crossed \cup {a} ELSE crossed
     ELSE UNCHANGED <<article, crossed>>
  /\ Leave(p)
  /\ UNCHANGED <<novel, chapters, links, request, audited, announced, mishaps,
                 lost, returned, drafted>>
-----------------------------------------------------------------------------
(* materializeChangduPreview, one transaction under the novel's lock; it   *)
(* refuses withdrawn chapters.                                             *)
Materialize(n) ==
  /\ \A p \in Proc : n \notin held[p]
  /\ chapters[n] = "none"
  /\ chapters' = [chapters EXCEPT ![n] = "live"]
  /\ UNCHANGED <<article, novel, links, request, txn, held, audited, announced,
                 mishaps, history>>

(* generateArticleFromNovel, one transaction under the novel's lock: it    *)
(* does not ask for the novel's status.                                    *)
Generate(a, n) ==
  /\ article[a].novel = NoOne
  /\ \A p \in Proc : n \notin held[p]
  /\ ArticleLocale[a] = NovelLocale[n] /\ NoOther(a, n)
  /\ n \in links
  /\ article' = [article EXCEPT ![a] = [@ EXCEPT !.novel = n]]
  /\ crossed' = IF Listed(a, n) THEN crossed \cup {a} ELSE crossed
  /\ drafted' = IF novel[n] = "takedown" THEN drafted \cup {a} ELSE drafted
  /\ UNCHANGED <<novel, chapters, links, request, txn, held, audited, announced,
                 mishaps, lost, returned>>
-----------------------------------------------------------------------------
Publish(p) ==
  \/ ReadArticle(p) \/ ReadNovel(p) \/ Gate(p) \/ Replay(p)
  \/ WriteArticle(p) \/ WriteNovel(p) \/ Dispatch(p)
Transition(p) ==
  FindAudit(p) \/ ReadSource(p) \/ ReadAffected(p) \/ UpdateNovel(p)
    \/ UpdateArticle(p)
Work(p) ==
  Publish(p) \/ Transition(p) \/ Guards(p) \/ Move(p) \/ Commit(p) \/ Victim(p)

Next ==
  \/ \E p \in Proc : \/ Send(p) \/ SendAgain(p) \/ Work(p)
                     \/ DispatchFails(p) \/ CommitUnanswered(p)
                     \/ Retry(p) \/ Crash(p)
  \/ \E n \in Novel : Materialize(n) \/ \E a \in Article : Generate(a, n)

Spec == Init /\ [][Next]_vars

-----------------------------------------------------------------------------
TypeOK ==
  /\ article \in [Article -> ArticleRow]
  /\ novel \in [Novel -> ArticleStatus]
  /\ chapters \in [Novel -> {"none", "live", "withdrawn"}]
  /\ links \subseteq Novel
  /\ \A id \in DOMAIN request : request[id] \in Job
  /\ \A p \in Proc : txn[p].id \in 0..Len(request)
  /\ held \in [Proc -> SUBSET (Article \cup Novel)]
  /\ \A p, q \in Proc : p # q => held[p] \cap held[q] = {}
  /\ audited \subseteq 1..Len(request)
  /\ \A a \in Article : article[a].status = "published" =>
                          article[a].promo /\ article[a].dated

(* A novel that is published has preview chapters with a body, although    *)
(* the gate reads them long before applyPublishTransition writes.  The one *)
(* way around the conditional update is a takedown in between after which  *)
(* the statuses it compares were brought back, by a restore or by another  *)
(* transition that overwrites the takedown by id.                          *)
PublicHasBody ==
  /\ TypeOK
  /\ \A n \in Novel :
       novel[n] = "published" => chapters[n] = "live" \/ <<n, "takedown">> \in returned

(* What the header of service.ts says of the conditional update: content   *)
(* whose body was deleted by a takedown is not republished.                *)
PublicAlwaysHasBody ==
  \A n \in Novel : novel[n] = "published" => chapters[n] = "live"

(* The first publication of an article is announced (IndexNow, sitemap)    *)
(* exactly once, whatever was retried, sent twice or published by two      *)
(* requests: twice only if a restore committed between what a publication  *)
(* had read and its write, and not at all only where the process died      *)
(* before the dispatch, the commit's answer was lost or a handler of the   *)
(* dispatch failed, which its caller is not told.                          *)
AnnouncedOnce ==
  \A a \in Article :
    /\ announced[a] > 1 => <<a, "restore">> \in returned
    /\ article[a].dated =>
         \/ announced[a] > 0
         \/ a \in lost
         \/ \E p \in Proc : txn[p].at = "dispatch" /\ job(p).row = a

(* A takedown covers every article of its novel, those that were being     *)
(* published, withdrawn or restored meanwhile included; only an article    *)
(* moved or inserted under a rights transition escapes it.  An article     *)
(* that was generated for a novel already taken down stays a draft as long *)
(* as the novel does, also for publications that look at neither row again.*)
TakedownCovers ==
  \A n \in Novel : novel[n] = "takedown" =>
    \A a \in ArticlesOf(n) :
      \/ article[a].status = "takedown" \/ a \in crossed
      \/ a \in drafted /\ article[a].status = "draft"

(* No step of applyPublishTransition turns a row from takedown into        *)
(* published: the way back goes through restoreNovel.                      *)
NothingPublishedOverTakedown ==
  [][/\ \A n \in Novel : novel[n] = "takedown" => novel'[n] # "published"
     /\ \A a \in Article : article[a].status = "takedown" =>
                             article'[a].status # "published"]_vars
=============================================================================
