--------------------------- MODULE PublishGateProofs ---------------------------
(***************************************************************************)
(* Publication, rights transitions and rebinds for any articles, novels,   *)
(* processes and requests and any number of mishaps: theorems about        *)
(* PublishGate.                                                            *)
(*                                                                         *)
(* The invariant has one part per transaction (Good: what it may rely on   *)
(* at each of its statements) and four parts about the rows.  Most steps   *)
(* change the transaction of one process only (Frame); what is left is the *)
(* commit, and the arrival of chapters and of articles, moved or new.      *)
(***************************************************************************)
EXTENDS PublishGate, TLAPS

AtPublish == {"article", "novel", "gate", "replay", "article_write",
              "novel_write", "commit", "dispatch"}
AtRights == {"audit", "source", "affected", "novel_update", "articles", "commit"}
AtRebind == {"guards", "move"}
Steps(kind) == IF kind = "publish" THEN AtPublish
               ELSE IF kind = "rebind" THEN AtRebind ELSE AtRights

TxnRow == [at : {"idle"} \cup AtPublish \cup AtRights \cup AtRebind, id : Nat,
           seen : ArticleRow \cup {NoOne}, novelSeen : ArticleStatus \cup {NoOne},
           todo : SUBSET Article, since : SUBSET Rights]

RowTypes ==
  /\ article \in [Article -> ArticleRow]
  /\ novel \in [Novel -> ArticleStatus]
  /\ chapters \in [Novel -> {"none", "live", "withdrawn"}]
  /\ links \subseteq Novel
  /\ request \in Seq(Job)
  /\ \A id \in 1..Len(request) :
       request[id].row \in Article => article[request[id].row].novel # NoOne
  /\ audited \subseteq 1..Len(request)
  /\ announced \in [Article -> Nat]

TxnTypes ==
  /\ txn \in [Proc -> TxnRow]
  /\ held \in [Proc -> SUBSET (Article \cup Novel)]
  /\ \A p, q \in Proc : p # q => held[p] \cap held[q] = {}

Is(p, kinds) == Busy(p) /\ Kind(p) \in kinds

\* A transaction is at a statement of the request that it is about.
Placed(p) ==
  /\ txn[p].id \in 0..Len(request)
  /\ Busy(p) => txn[p].id \in 1..Len(request) /\ txn[p].at \in Steps(Kind(p))
  /\ ~Busy(p) => held[p] = {}

\* The article has been draft again, and dated, only since a restore.
Reads(p) ==
  LET x == txn[p]
      a == job(p).row
  IN  Is(p, {"publish"}) /\ x.at # "article" =>
        /\ x.seen \in ArticleRow /\ x.seen.novel \in Novel
        /\ x.seen.status \in {"published", "unpublished"} => x.seen.dated
        /\ x.seen.dated => article[a].dated
        /\ (/\ ~x.seen.dated /\ article[a].dated
            /\ x.seen.status = "draft" /\ article[a].status = "draft")
             => "restore" \in x.since

\* The gate has been passed, and the chapters stay unless a takedown says so.
Passed(p) ==
  LET x == txn[p]
  IN  Is(p, {"publish"})
        /\ x.at \in {"replay", "article_write", "novel_write", "commit"} =>
        /\ x.seen.status # "takedown" /\ x.novelSeen # "takedown"
        /\ chapters[x.seen.novel] = "live" \/ "takedown" \in x.since

\* What it holds is as it was read.
Writes(p) ==
  LET x == txn[p]
      a == job(p).row
  IN  Is(p, {"publish"}) =>
        /\ IF x.at \in {"novel_write", "commit"}
           THEN /\ a \in held[p] /\ held[p] \subseteq {a, x.seen.novel}
                /\ article[a].status = x.seen.status /\ article[a].promo
                /\ x.seen.novel \in held[p] => novel[x.seen.novel] = x.novelSeen
           ELSE held[p] = {}
        /\ x.at = "dispatch" => article[a].dated

\* What is listed belongs to the novel, and a takedown lists all of it.
Lists(p) ==
  LET x == txn[p]
      n == job(p).row
      mine == x.todo \cup (held[p] \cap Article)
  IN  Is(p, Rights) =>
        IF x.at \in {"novel_update", "articles", "commit"}
        THEN /\ held[p] \cap Novel = IF x.at = "novel_update" THEN {} ELSE {n}
             /\ x.at = "commit" => x.todo = {}
             /\ \A a \in mine : article[a].novel = n \/ a \in crossed
             /\ Kind(p) = "withdraw" => \A a \in mine : article[a].dated
             /\ Kind(p) = "takedown" =>
                  \A a \in ArticlesOf(n) : a \in mine \/ a \in crossed
        ELSE held[p] = {}

Moving(p) ==
  Is(p, {"rebind"}) =>
    /\ held[p] = {}
    /\ txn[p].at = "move" =>
         txn[p].seen \in ArticleRow

\* A draft whose novel is taken down.
Shelved(a) ==
  /\ article[a].novel \in Novel
  /\ novel[article[a].novel] = "takedown" /\ article[a].status = "draft"
  /\ a \notin crossed

\* Its publication has read both rows as they are, and is refused.
Stalled(p) ==
  LET a == job(p).row
  IN  Is(p, {"publish"}) /\ Shelved(a) =>
        /\ txn[p].at \in {"article", "novel", "gate"}
        /\ txn[p].at # "article" => txn[p].seen.novel = article[a].novel
        /\ txn[p].at = "gate" => txn[p].novelSeen = "takedown"

Good(p) == /\ Placed(p) /\ Reads(p) /\ Passed(p) /\ Writes(p)
           /\ Lists(p) /\ Moving(p) /\ Stalled(p)

Dates ==
  \A a \in Article :
    /\ article[a].status \in {"published", "unpublished"} => article[a].dated
    /\ article[a].status = "published" => article[a].promo
    /\ article[a].novel = NoOne => article[a].status = "draft" /\ a \notin crossed

Bodies ==
  \A n \in Novel :
    novel[n] = "published" => chapters[n] = "live" \/ <<n, "takedown">> \in returned

Dispatching(p, a) == txn[p].at = "dispatch" /\ job(p).row = a

Told(a) ==
  /\ article[a].dated =>
       \/ announced[a] > 0 \/ a \in lost
       \/ \E p \in Proc : Dispatching(p, a)
  /\ announced[a] > 0 => article[a].dated
  /\ <<a, "restore">> \in returned
     \/ /\ announced[a] <= 1
        /\ \A p \in Proc : Dispatching(p, a) =>
             announced[a] = 0 /\ \A q \in Proc : Dispatching(q, a) => p = q
Announcing == \A a \in Article : Told(a)

GateInv ==
  /\ RowTypes /\ TxnTypes
  /\ \A p \in Proc : Good(p)
  /\ Dates /\ Bodies /\ Announcing /\ TakedownCovers
-----------------------------------------------------------------------------
\* What a step of one process leaves alone.
Apart(p) ==
  /\ \A id \in 1..Len(request) : /\ id \in 1..Len(request')
                                 /\ request'[id] = request[id]
  /\ \A q \in Proc \ {p} : txn'[q] = txn[q] /\ held'[q] = held[q]
Frame(p) ==
  Apart(p) /\ UNCHANGED <<article, novel, chapters, crossed, returned, drafted>>

Quiet(p) ==
  /\ Frame(p)
  /\ RowTypes' /\ TxnTypes' /\ Good(p)'
Silent(p) ==
  /\ Quiet(p)
  /\ UNCHANGED <<announced, lost>>
  /\ txn[p].at # "dispatch" /\ txn'[p].at # "dispatch"

LEMMA JobTypes ==
  ASSUME RowTypes, NEW p \in Proc, Placed(p), Busy(p)
  PROVE  /\ job(p) \in Job
         /\ Kind(p) \in {"publish", "rebind"} \cup Rights
         /\ Kind(p) \in {"publish", "rebind"} =>
              job(p).row \in Article /\ article[job(p).row].novel \in Novel
         /\ Kind(p) \in Rights => job(p).row \in Novel
         /\ Kind(p) = "rebind" => job(p).to \in Novel
<1>1. /\ job(p) \in Job
      /\ job(p).row \in Article => article[job(p).row].novel # NoOne
  BY DEF RowTypes, Placed, job
<1>2. job(p).row \in Article => article[job(p).row].novel \in Novel
  BY <1>1 DEF RowTypes, ArticleRow
<1> QED BY <1>1, <1>2 DEF Job, Kind, Rights

LEMMA OthersKept ==
  ASSUME RowTypes, NEW p \in Proc, Frame(p), NEW q \in Proc \ {p}, Good(q)
  PROVE  Good(q)'
<1>1. Len(request) \in Nat /\ (Busy(q) => txn[q].id \in 1..Len(request))
  BY DEF RowTypes, Good, Placed
<1>2. txn'[q] = txn[q] /\ held'[q] = held[q] /\ Busy(q)' = Busy(q)
  BY DEF Frame, Apart, Busy
<1>3. ASSUME Busy(q)
      PROVE  job(q)' = job(q) /\ Kind(q)' = Kind(q)
  BY <1>1, <1>2, <1>3 DEF Frame, Apart, job, Kind
<1>4. Placed(q)'
  <2>1. \A id \in 0..Len(request) : id \in 0..Len(request')
    BY <1>1 DEF Frame, Apart
  <2> QED BY <1>2, <1>3, <2>1 DEF Good, Placed, Frame, Apart
<1>5. Reads(q)' /\ Passed(q)' /\ Writes(q)' /\ Moving(q)' /\ Stalled(q)'
  BY <1>2, <1>3 DEF Good, Reads, Passed, Writes, Moving, Stalled, Shelved, Is, Frame
<1>6. Lists(q)'
  BY <1>2, <1>3 DEF Good, Lists, Is, Frame, ArticlesOf
<1> QED BY <1>4, <1>5, <1>6 DEF Good

LEMMA SetTxn ==
  ASSUME TxnTypes, NEW p \in Proc, NEW x \in TxnRow,
         NEW h \in SUBSET (Article \cup Novel),
         \A q \in Proc \ {p} : h \cap held[q] = {},
         txn' = [txn EXCEPT ![p] = x], held' = [held EXCEPT ![p] = h]
  PROVE  /\ TxnTypes' /\ txn'[p] = x /\ held'[p] = h
         /\ \A q \in Proc \ {p} : txn'[q] = txn[q] /\ held'[q] = held[q]
<1>1. /\ txn' \in [Proc -> TxnRow] /\ txn'[p] = x
      /\ \A q \in Proc \ {p} : txn'[q] = txn[q]
  BY DEF TxnTypes
<1>2. /\ held' \in [Proc -> SUBSET (Article \cup Novel)] /\ held'[p] = h
      /\ \A q \in Proc \ {p} : held'[q] = held[q]
  BY DEF TxnTypes
<1>3. \A q, r \in Proc : q # r => held'[q] \cap held'[r] = {}
  BY <1>2 DEF TxnTypes
<1> QED BY <1>1, <1>2, <1>3 DEF TxnTypes

LEMMA IdleRow == Idle \in TxnRow
BY DEF Idle, Fresh, TxnRow

LEMMA IdleGood ==
  ASSUME RowTypes', NEW p \in Proc, txn'[p] = Idle, held'[p] = {}
  PROVE  Good(p)' /\ txn'[p].at = "idle"
<1>1. txn'[p].at = "idle" /\ txn'[p].id = 0
  BY DEF Idle, Fresh
<1> QED BY <1>1 DEF RowTypes, Good, Placed, Reads, Passed, Writes, Lists, Moving,
                        Stalled, Is, Busy

LEMMA Resets ==
  ASSUME RowTypes', TxnTypes, NEW p \in Proc, Leave(p)
  PROVE  /\ TxnTypes' /\ Good(p)' /\ txn'[p].at = "idle"
         /\ \A q \in Proc \ {p} : txn'[q] = txn[q] /\ held'[q] = held[q]
<1>1. /\ TxnTypes' /\ txn'[p] = Idle /\ held'[p] = {}
      /\ \A q \in Proc \ {p} : txn'[q] = txn[q] /\ held'[q] = held[q]
  BY SetTxn, IdleRow DEF Leave
<1> QED BY <1>1, IdleGood

LEMMA Begun ==
  ASSUME RowTypes', NEW id \in 1..Len(request')
  PROVE  LET k == request'[id].kind
             x == Fresh(First(k), id)
         IN  /\ k \in {"publish", "rebind"} \cup Rights /\ id \in Nat \ {0}
             /\ First(k) = IF k = "publish" THEN "article"
                           ELSE IF k = "rebind" THEN "guards" ELSE "audit"
             /\ x \in TxnRow /\ x.at = First(k) /\ x.id = id
<1> DEFINE k == request'[id].kind
           x == Fresh(First(k), id)
<1>1. k \in {"publish", "rebind"} \cup Rights /\ id \in Nat \ {0}
  <2>1. request' \in Seq(Job)
    BY DEF RowTypes
  <2>2. request'[id] \in Job /\ id \in Nat \ {0}
    BY <2>1
  <2> QED BY <2>2 DEF Job, Rights
<1>2. /\ First(k) = IF k = "publish" THEN "article"
                    ELSE IF k = "rebind" THEN "guards" ELSE "audit"
  BY <1>1 DEF First, Rights
<1>3. /\ x = [at |-> First(k), id |-> id, seen |-> NoOne, novelSeen |-> NoOne,
              todo |-> {}, since |-> {}]
  BY DEF Fresh
<1>4. x \in TxnRow
  <2>1. First(k) \in {"idle"} \cup AtPublish \cup AtRights \cup AtRebind
    BY <1>2 DEF AtPublish, AtRights, AtRebind
  <2> QED BY <1>1, <1>3, <2>1 DEF TxnRow
<1> QED BY <1>1, <1>2, <1>3, <1>4

LEMMA BegunGood ==
  ASSUME RowTypes', NEW p \in Proc, NEW id \in 1..Len(request'),
         txn'[p] = Fresh(First(request'[id].kind), id), held'[p] = {}
  PROVE  Good(p)' /\ txn'[p].at # "dispatch"
<1> DEFINE k == request'[id].kind
<1>1. /\ k \in {"publish", "rebind"} \cup Rights /\ id \in Nat \ {0}
      /\ First(k) = IF k = "publish" THEN "article"
                    ELSE IF k = "rebind" THEN "guards" ELSE "audit"
      /\ txn'[p].at = First(k) /\ txn'[p].id = id
  BY Begun
<1>2. Kind(p)' = k
  BY <1>1 DEF Kind, job
<1>3. Busy(p)' /\ Placed(p)'
  BY <1>1, <1>2 DEF Busy, Placed, Steps, AtPublish, AtRights, AtRebind, RowTypes
<1>4. Good(p)'
  BY <1>1, <1>2, <1>3 DEF Good, Reads, Passed, Writes, Lists, Moving, Stalled,
                           Is, Rights
<1> QED BY <1>1, <1>4

LEMMA Starts ==
  ASSUME RowTypes', TxnTypes, NEW p \in Proc, NEW id \in 1..Len(request'),
         txn' = [txn EXCEPT ![p] = Fresh(First(request'[id].kind), id)],
         held' = [held EXCEPT ![p] = {}]
  PROVE  /\ TxnTypes' /\ Good(p)' /\ txn'[p].at # "dispatch"
         /\ \A q \in Proc \ {p} : txn'[q] = txn[q] /\ held'[q] = held[q]
<1> DEFINE x == Fresh(First(request'[id].kind), id)
<1>1. x \in TxnRow
  BY Begun
<1>2. /\ txn' = [txn EXCEPT ![p] = x]
      /\ \A q \in Proc \ {p} : {} \cap held[q] = {}
  OBVIOUS
<1> HIDE DEF x
<1>3. /\ TxnTypes' /\ txn'[p] = x /\ held'[p] = {}
      /\ \A q \in Proc \ {p} : txn'[q] = txn[q] /\ held'[q] = held[q]
  BY <1>1, <1>2, SetTxn
<1> USE DEF x
<1> QED BY <1>3, BegunGood

LEMMA KindAt ==
  ASSUME RowTypes, NEW p \in Proc, Placed(p)
  PROVE  /\ txn[p].at \in AtPublish \ {"commit"} => Is(p, {"publish"})
         /\ txn[p].at \in AtRights \ {"commit"} => Is(p, Rights)
         /\ txn[p].at \in AtRebind => Is(p, {"rebind"})
         /\ txn[p].at = "commit" => Is(p, {"publish"} \cup Rights)
<1>1. Busy(p) => Kind(p) \in {"publish", "rebind"} \cup Rights
  BY JobTypes
<1> QED BY <1>1 DEF Placed, Busy, Steps, AtPublish, AtRights, AtRebind, Is, Rights

LEMMA Advances ==
  ASSUME RowTypes, TxnTypes, NEW p \in Proc, Placed(p), Busy(p),
         NEW x \in TxnRow, x.at \in Steps(Kind(p)), x.id = txn[p].id,
         NEW h \in SUBSET (Article \cup Novel),
         \A q \in Proc \ {p} : h \cap held[q] = {},
         txn' = [txn EXCEPT ![p] = x], held' = [held EXCEPT ![p] = h],
         UNCHANGED request
  PROVE  /\ TxnTypes' /\ Apart(p) /\ Placed(p)'
         /\ txn'[p] = x /\ held'[p] = h
         /\ Busy(p)' /\ job(p)' = job(p) /\ Kind(p)' = Kind(p)
<1>1. /\ TxnTypes' /\ txn'[p] = x /\ held'[p] = h
      /\ \A q \in Proc \ {p} : txn'[q] = txn[q] /\ held'[q] = held[q]
  BY SetTxn
<1>2. Apart(p)
  BY <1>1 DEF Apart
<1>3. job(p)' = job(p) /\ Kind(p)' = Kind(p)
  BY <1>1 DEF job, Kind
<1>4. Busy(p)'
  <2>1. x.at # "idle"
    BY DEF Steps, AtPublish, AtRights, AtRebind
  <2> QED BY <1>1, <2>1 DEF Busy
<1>5. Placed(p)'
  BY <1>1, <1>3, <1>4 DEF Placed, Busy, Steps
<1> QED BY <1>1, <1>2, <1>3, <1>4, <1>5

\* A step that goes on to another statement and keeps its locks.
LEMMA Goes ==
  ASSUME RowTypes, TxnTypes, NEW p \in Proc, Placed(p), Busy(p),
         NEW s \in Steps(Kind(p)), Go(p, s), UNCHANGED <<held, request>>
  PROVE  /\ TxnTypes' /\ Apart(p) /\ Placed(p)'
         /\ txn'[p] = [txn[p] EXCEPT !.at = s] /\ held'[p] = held[p]
         /\ Busy(p)' /\ job(p)' = job(p) /\ Kind(p)' = Kind(p)
<1> DEFINE x == [txn[p] EXCEPT !.at = s]
<1>1. txn[p] \in TxnRow /\ held[p] \in SUBSET (Article \cup Novel)
  BY DEF TxnTypes
<1>2. x \in TxnRow /\ x.at = s /\ x.id = txn[p].id
  BY <1>1 DEF TxnRow, Steps
<1>3. txn' = [txn EXCEPT ![p] = x] /\ held' = [held EXCEPT ![p] = held[p]]
  BY DEF Go, TxnTypes
<1>4. \A q \in Proc \ {p} : held[p] \cap held[q] = {}
  BY DEF TxnTypes
<1> HIDE DEF x
<1>5. /\ TxnTypes' /\ Apart(p) /\ Placed(p)'
      /\ txn'[p] = x /\ held'[p] = held[p]
      /\ Busy(p)' /\ job(p)' = job(p) /\ Kind(p)' = Kind(p)
  BY <1>1, <1>2, <1>3, <1>4, Advances
<1> QED BY <1>5 DEF x

LEMMA Locks ==
  ASSUME RowTypes, TxnTypes, NEW p \in Proc, Placed(p), Busy(p),
         NEW s \in Steps(Kind(p)), NEW row \in Article \cup Novel,
         Free(row, p), Lock(p, row), Go(p, s), UNCHANGED request
  PROVE  /\ TxnTypes' /\ Apart(p) /\ Placed(p)'
         /\ txn'[p] = [txn[p] EXCEPT !.at = s]
         /\ held'[p] = held[p] \cup {row}
         /\ Busy(p)' /\ job(p)' = job(p) /\ Kind(p)' = Kind(p)
<1> DEFINE x == [txn[p] EXCEPT !.at = s]
           h == held[p] \cup {row}
<1>1. txn[p] \in TxnRow /\ h \in SUBSET (Article \cup Novel)
  BY DEF TxnTypes
<1>2. x \in TxnRow /\ x.at = s /\ x.id = txn[p].id
  BY <1>1 DEF TxnRow, Steps
<1>3. txn' = [txn EXCEPT ![p] = x] /\ held' = [held EXCEPT ![p] = h]
  BY DEF Go, Lock, TxnTypes
<1>4. \A q \in Proc \ {p} : h \cap held[q] = {}
  BY DEF TxnTypes, Free
<1> HIDE DEF x, h
<1>5. /\ TxnTypes' /\ Apart(p) /\ Placed(p)'
      /\ txn'[p] = x /\ held'[p] = h
      /\ Busy(p)' /\ job(p)' = job(p) /\ Kind(p)' = Kind(p)
  BY <1>1, <1>2, <1>3, <1>4, Advances
<1> QED BY <1>5 DEF x, h

LEMMA RowsStay ==
  ASSUME RowTypes, UNCHANGED <<rows, request, audited, announced>>
  PROVE  RowTypes'
BY DEF RowTypes, rows

\* Giving up changes nothing but the transaction.
LEMMA Leaves ==
  ASSUME RowTypes, TxnTypes, NEW p \in Proc, Leave(p), txn[p].at # "dispatch",
         UNCHANGED <<rows, request, audited, announced, history>>
  PROVE  Silent(p)
<1>1. RowTypes'
  BY RowsStay
<1>2. /\ TxnTypes' /\ Good(p)' /\ txn'[p].at = "idle"
      /\ \A q \in Proc \ {p} : txn'[q] = txn[q] /\ held'[q] = held[q]
  BY <1>1, Resets
<1> QED BY <1>1, <1>2 DEF Silent, Quiet, Frame, Apart, rows, history
-----------------------------------------------------------------------------
(* The statements of a publication.                                        *)
LEMMA ReadArticleQuiet ==
  ASSUME GateInv, NEW p \in Proc, ReadArticle(p)
  PROVE  Silent(p)
<1> DEFINE a == job(p).row
           x == [txn[p] EXCEPT !.at = "novel", !.seen = article[a]]
<1>1. RowTypes /\ TxnTypes /\ Good(p) /\ Placed(p) /\ Dates
  BY DEF GateInv, Good
<1>2. Is(p, {"publish"}) /\ txn[p].at = "article"
  BY <1>1, KindAt DEF ReadArticle, AtPublish
<1>3. a \in Article /\ article[a] \in ArticleRow /\ article[a].novel \in Novel
  BY <1>1, <1>2, JobTypes DEF Is, RowTypes
<1>4. x \in TxnRow /\ x.at = "novel" /\ x.id = txn[p].id /\ x.seen = article[a]
  <2>1. txn[p] \in TxnRow
    BY <1>1 DEF TxnTypes
  <2> QED BY <1>3, <2>1 DEF TxnRow, AtPublish
<1>5. /\ held[p] = {} /\ held' = [held EXCEPT ![p] = held[p]]
      /\ txn' = [txn EXCEPT ![p] = x] /\ UNCHANGED request
  BY <1>1, <1>2 DEF Good, Writes, TxnTypes, ReadArticle
<1> HIDE DEF x
<1>6. /\ TxnTypes' /\ Apart(p) /\ Placed(p)'
      /\ txn'[p] = x /\ held'[p] = {}
      /\ Busy(p)' /\ job(p)' = job(p) /\ Kind(p)' = Kind(p)
  <2>1. x.at \in Steps(Kind(p)) /\ held[p] \in SUBSET (Article \cup Novel)
    BY <1>2, <1>4, <1>5 DEF Is, Steps, AtPublish
  <2>2. Busy(p) /\ \A q \in Proc \ {p} : held[p] \cap held[q] = {}
    BY <1>2, <1>5 DEF Is
  <2> DEFINE h == held[p]
  <2>3. h \in SUBSET (Article \cup Novel) /\ held' = [held EXCEPT ![p] = h]
    BY <1>5, <2>1
  <2>4. \A q \in Proc \ {p} : h \cap held[q] = {}
    BY <2>2
  <2>5. h = {}
    BY <1>5
  <2> HIDE DEF h
  <2>6. /\ TxnTypes' /\ Apart(p) /\ Placed(p)'
        /\ txn'[p] = x /\ held'[p] = h
        /\ Busy(p)' /\ job(p)' = job(p) /\ Kind(p)' = Kind(p)
    BY <1>1, <1>4, <1>5, <2>1, <2>2, <2>3, <2>4, Advances
  <2> QED BY <2>5, <2>6
<1>7. Good(p)'
  <2>1. Reads(p)'
    BY <1>1, <1>3, <1>4, <1>6 DEF Reads, Dates, ReadArticle, rows
  <2>2. Passed(p)' /\ Writes(p)' /\ Lists(p)' /\ Moving(p)'
    BY <1>2, <1>4, <1>6 DEF Passed, Writes, Lists, Moving, Is, Rights
  <2>3. Stalled(p)'
    BY <1>4, <1>6 DEF Stalled, Shelved, ReadArticle, rows
  <2> QED BY <1>6, <2>1, <2>2, <2>3 DEF Good
<1>8. RowTypes'
  BY <1>1, RowsStay DEF ReadArticle
<1> QED BY <1>2, <1>4, <1>6, <1>7, <1>8
        DEF Silent, Quiet, Frame, ReadArticle, rows, history

LEMMA ReadNovelQuiet ==
  ASSUME GateInv, NEW p \in Proc, ReadNovel(p)
  PROVE  Silent(p)
<1> DEFINE n == txn[p].seen.novel
           x == [txn[p] EXCEPT !.at = "gate", !.novelSeen = novel[n]]
<1>1. RowTypes /\ TxnTypes /\ Good(p) /\ Placed(p)
  BY DEF GateInv, Good
<1>2. Is(p, {"publish"}) /\ txn[p].at = "novel"
  BY <1>1, KindAt DEF ReadNovel, AtPublish
<1>3. txn[p].seen \in ArticleRow /\ novel[n] \in ArticleStatus
  BY <1>1, <1>2 DEF Good, Reads, RowTypes
<1>4. /\ x \in TxnRow /\ x.at = "gate" /\ x.id = txn[p].id
      /\ x.seen = txn[p].seen /\ x.since = txn[p].since
      /\ x.novelSeen = novel[n]
  BY <1>1, <1>3 DEF TxnTypes, TxnRow, AtPublish
<1>5. /\ held[p] = {} /\ held' = [held EXCEPT ![p] = held[p]]
      /\ txn' = [txn EXCEPT ![p] = x] /\ UNCHANGED request
  BY <1>1, <1>2 DEF Good, Writes, TxnTypes, ReadNovel
<1> HIDE DEF x
<1>6. /\ TxnTypes' /\ Apart(p) /\ Placed(p)'
      /\ txn'[p] = x /\ held'[p] = {}
      /\ Busy(p)' /\ job(p)' = job(p) /\ Kind(p)' = Kind(p)
  <2>1. x.at \in Steps(Kind(p)) /\ held[p] \in SUBSET (Article \cup Novel)
    BY <1>2, <1>4, <1>5 DEF Is, Steps, AtPublish
  <2>2. Busy(p) /\ \A q \in Proc \ {p} : held[p] \cap held[q] = {}
    BY <1>2, <1>5 DEF Is
  <2> DEFINE h == held[p]
  <2>3. h \in SUBSET (Article \cup Novel) /\ held' = [held EXCEPT ![p] = h]
    BY <1>5, <2>1
  <2>4. \A q \in Proc \ {p} : h \cap held[q] = {}
    BY <2>2
  <2>5. h = {}
    BY <1>5
  <2> HIDE DEF h
  <2>6. /\ TxnTypes' /\ Apart(p) /\ Placed(p)'
        /\ txn'[p] = x /\ held'[p] = h
        /\ Busy(p)' /\ job(p)' = job(p) /\ Kind(p)' = Kind(p)
    BY <1>1, <1>4, <1>5, <2>1, <2>2, <2>3, <2>4, Advances
  <2> QED BY <2>5, <2>6
<1>7. Good(p)'
  <2>1. Reads(p)'
    BY <1>1, <1>2, <1>4, <1>6 DEF Good, Reads, ReadNovel, rows
  <2>2. Passed(p)' /\ Writes(p)' /\ Lists(p)' /\ Moving(p)'
    BY <1>2, <1>4, <1>6 DEF Passed, Writes, Lists, Moving, Is, Rights
  <2>3. Stalled(p)'
    <3> SUFFICES ASSUME Shelved(job(p).row)
                 PROVE  /\ txn[p].seen.novel = article[job(p).row].novel
                        /\ x.novelSeen = "takedown"
      BY <1>4, <1>6 DEF Stalled, Shelved, ReadNovel, rows, history
    <3>1. txn[p].seen.novel = article[job(p).row].novel
      BY <1>1, <1>2 DEF Good, Stalled
    <3> QED BY <1>4, <3>1 DEF Shelved
  <2> QED BY <1>6, <2>1, <2>2, <2>3 DEF Good
<1>8. RowTypes'
  BY <1>1, RowsStay DEF ReadNovel
<1> QED BY <1>2, <1>4, <1>6, <1>7, <1>8
        DEF Silent, Quiet, Frame, ReadNovel, rows, history

\* A publication that goes on as it is, before it has locked anything.
LEMMA PublishGoes ==
  ASSUME GateInv, NEW p \in Proc, Is(p, {"publish"}),
         txn[p].at \in {"gate", "replay"}, NEW s \in {"replay", "article_write"},
         Go(p, s), UNCHANGED <<rows, request, audited, announced, history, held>>,
         /\ txn[p].seen.status # "takedown" /\ txn[p].novelSeen # "takedown"
         /\ chapters[txn[p].seen.novel] = "live" \/ "takedown" \in txn[p].since
  PROVE  Silent(p)
<1>1. RowTypes /\ TxnTypes /\ Good(p) /\ Placed(p)
  BY DEF GateInv, Good
<1>2. s \in Steps(Kind(p))
  BY DEF Is, Steps, AtPublish
<1>3. /\ TxnTypes' /\ Apart(p) /\ Placed(p)'
      /\ txn'[p] = [txn[p] EXCEPT !.at = s] /\ held'[p] = held[p]
      /\ Busy(p)' /\ job(p)' = job(p) /\ Kind(p)' = Kind(p)
  BY <1>1, <1>2, Goes DEF Is
<1>4. /\ txn'[p].at = s /\ txn'[p].seen = txn[p].seen
      /\ txn'[p].novelSeen = txn[p].novelSeen /\ txn'[p].since = txn[p].since
  BY <1>1, <1>3 DEF TxnTypes, TxnRow
<1>5. Good(p)'
  <2>1. Reads(p)' /\ Passed(p)' /\ Writes(p)'
    BY <1>1, <1>3, <1>4 DEF Good, Reads, Passed, Writes, Is, rows
  <2>2. Lists(p)' /\ Moving(p)'
    BY <1>3 DEF Lists, Moving, Is, Rights
  <2>3. Stalled(p)'
    <3>1. ~Shelved(job(p).row)
      BY <1>1 DEF Good, Stalled
    <3> QED BY <1>3, <3>1 DEF Stalled, Shelved, rows, history
  <2> QED BY <1>3, <2>1, <2>2, <2>3 DEF Good
<1>6. RowTypes'
  BY <1>1, RowsStay
<1> QED BY <1>3, <1>4, <1>5, <1>6 DEF Silent, Quiet, Frame, rows, history

LEMMA GateQuiet ==
  ASSUME GateInv, NEW p \in Proc, Gate(p)
  PROVE  Silent(p)
<1>1. RowTypes /\ TxnTypes /\ Good(p) /\ Placed(p) /\ txn[p].at = "gate"
  BY DEF GateInv, Good, Gate
<1>2. Is(p, {"publish"})
  BY <1>1, KindAt DEF AtPublish
<1>3. CASE evaluatePublishGate(txn[p].seen, txn[p].novelSeen)
  BY <1>1, <1>2, <1>3, PublishGoes DEF Gate, evaluatePublishGate
<1>4. CASE ~evaluatePublishGate(txn[p].seen, txn[p].novelSeen)
  BY <1>1, <1>4, Leaves DEF Gate
<1> QED BY <1>3, <1>4

LEMMA ReplayQuiet ==
  ASSUME GateInv, NEW p \in Proc, Replay(p)
  PROVE  Silent(p)
<1>1. RowTypes /\ TxnTypes /\ Good(p) /\ Placed(p) /\ txn[p].at = "replay"
  BY DEF GateInv, Good, Replay
<1>2. Is(p, {"publish"})
  BY <1>1, KindAt DEF AtPublish
<1>3. CASE txn[p].id \in audited
  BY <1>1, <1>3, Leaves DEF Replay
<1>4. CASE txn[p].id \notin audited
  BY <1>1, <1>2, <1>4, PublishGoes DEF Replay, Good, Passed
<1> QED BY <1>3, <1>4

LEMMA WriteArticleQuiet ==
  ASSUME GateInv, NEW p \in Proc, WriteArticle(p)
  PROVE  Silent(p)
<1> DEFINE a == job(p).row
<1> UNCHANGED <<article, novel, chapters>>
  BY DEF WriteArticle, rows
<1>1. /\ RowTypes /\ TxnTypes /\ Good(p) /\ Placed(p)
      /\ txn[p].at = "article_write"
  BY DEF GateInv, Good, WriteArticle
<1>2. Is(p, {"publish"})
  BY <1>1, KindAt DEF AtPublish
<1>3. a \in Article /\ "novel_write" \in Steps(Kind(p))
  BY <1>1, <1>2, JobTypes DEF Is, Steps, AtPublish
<1>4. CASE StillAsRead(article[a].status, txn[p].seen.status) /\ article[a].promo
  <2>1. Lock(p, a) /\ Go(p, "novel_write") /\ Free(a, p)
    BY <1>4 DEF WriteArticle
  <2>2. /\ TxnTypes' /\ Apart(p) /\ Placed(p)'
        /\ txn'[p] = [txn[p] EXCEPT !.at = "novel_write"]
        /\ held'[p] = held[p] \cup {a}
        /\ Busy(p)' /\ job(p)' = job(p) /\ Kind(p)' = Kind(p)
    BY <1>1, <1>2, <1>3, <2>1, Locks DEF Is, WriteArticle
  <2>3. /\ txn'[p].at = "novel_write" /\ txn'[p].seen = txn[p].seen
        /\ txn'[p].novelSeen = txn[p].novelSeen /\ txn'[p].since = txn[p].since
    BY <1>1, <2>2 DEF TxnTypes, TxnRow
  <2>4. held'[p] = {a} /\ txn[p].seen.novel \in Novel
    BY <1>1, <1>2, <2>2 DEF Good, Writes, Reads, Is
  <2>5. Reads(p)' /\ Passed(p)'
    BY <1>1, <1>2, <2>2, <2>3 DEF Good, Reads, Passed, Is
  <2>6. Writes(p)'
    <3>1. a \in held'[p] /\ held'[p] \subseteq {a, txn[p].seen.novel}
          /\ txn[p].seen.novel \notin held'[p]
      BY <1>3, <2>4, PublishGateAssumption
    <3>2. article'[a].status = txn[p].seen.status /\ article'[a].promo
      BY <1>4 DEF StillAsRead, WriteArticle, rows
    <3> QED BY <2>2, <2>3, <3>1, <3>2 DEF Writes
  <2>7. Lists(p)' /\ Moving(p)' /\ Stalled(p)'
    <3>1. ~Shelved(a)
      BY <1>1, <1>2 DEF Good, Stalled
    <3> QED BY <1>2, <2>2, <3>1
            DEF Lists, Moving, Stalled, Shelved, Is, Rights, WriteArticle, history
  <2>8. RowTypes'
    BY <1>1, RowsStay DEF WriteArticle
  <2> QED BY <1>1, <2>2, <2>3, <2>5, <2>6, <2>7, <2>8
          DEF Silent, Quiet, Good, Frame, WriteArticle, rows, history
<1>5. CASE ~(StillAsRead(article[a].status, txn[p].seen.status) /\ article[a].promo)
  <2>1. Leave(p)
    BY <1>5 DEF WriteArticle
  <2> QED BY <1>1, <2>1, Leaves DEF WriteArticle
<1> QED BY <1>4, <1>5

LEMMA WriteNovelQuiet ==
  ASSUME GateInv, NEW p \in Proc, WriteNovel(p)
  PROVE  Silent(p)
<1> DEFINE a == job(p).row
           n == txn[p].seen.novel
<1> UNCHANGED <<article, novel, chapters>>
  BY DEF WriteNovel, rows
<1>1. /\ RowTypes /\ TxnTypes /\ Good(p) /\ Placed(p)
      /\ txn[p].at = "novel_write"
  BY DEF GateInv, Good, WriteNovel
<1>2. Is(p, {"publish"})
  BY <1>1, KindAt DEF AtPublish
<1>3. /\ a \in Article /\ n \in Novel /\ "commit" \in Steps(Kind(p))
  BY <1>1, <1>2, JobTypes DEF Good, Reads, Is, Steps, AtPublish
<1>4. ASSUME TxnTypes', Apart(p), Placed(p)',
             txn'[p] = [txn[p] EXCEPT !.at = "commit"],
             \/ held'[p] = held[p]
             \/ (held'[p] = held[p] \cup {n} /\ novel[n] = txn[p].novelSeen),
             Busy(p)', job(p)' = job(p), Kind(p)' = Kind(p)
      PROVE  Silent(p)
  <2>1. /\ txn'[p].at = "commit" /\ txn'[p].seen = txn[p].seen
        /\ txn'[p].novelSeen = txn[p].novelSeen /\ txn'[p].since = txn[p].since
    BY <1>1, <1>4 DEF TxnTypes, TxnRow
  <2>2. Reads(p)' /\ Passed(p)'
    BY <1>1, <1>2, <1>4, <2>1 DEF Good, Reads, Passed, Is
  <2>3. Writes(p)'
    <3>1. /\ a \in held[p] /\ held[p] \subseteq {a, n}
          /\ article[a].status = txn[p].seen.status /\ article[a].promo
          /\ n \in held[p] => novel[n] = txn[p].novelSeen
      BY <1>1, <1>2 DEF Good, Writes
    <3>2. /\ a \in held'[p] /\ held'[p] \subseteq {a, n}
          /\ n \in held'[p] => novel[n] = txn[p].novelSeen
      BY <1>4, <3>1
    <3>3. article' = article /\ novel' = novel
      BY DEF WriteNovel, rows
    <3> QED BY <1>4, <2>1, <3>1, <3>2, <3>3 DEF Writes
  <2>4. Lists(p)' /\ Moving(p)' /\ Stalled(p)'
    <3>1. ~Shelved(a)
      BY <1>1, <1>2 DEF Good, Stalled
    <3> QED BY <1>2, <1>4, <3>1
            DEF Lists, Moving, Stalled, Shelved, Is, Rights, WriteNovel, history
  <2>5. RowTypes'
    BY <1>1, RowsStay DEF WriteNovel
  <2> QED BY <1>1, <1>4, <2>1, <2>2, <2>3, <2>4, <2>5
          DEF Silent, Quiet, Good, Frame, WriteNovel, rows, history
<1>5. CASE NovelSettled(p)
  <2>1. Go(p, "commit") /\ UNCHANGED <<held, request>>
    BY <1>5 DEF WriteNovel
  <2> QED BY <1>1, <1>2, <1>3, <1>4, <2>1, Goes DEF Is
<1>6. CASE ~NovelSettled(p) /\ StillAsRead(novel[n], txn[p].novelSeen)
  <2>1. /\ Lock(p, n) /\ Go(p, "commit") /\ Free(n, p) /\ UNCHANGED request
        /\ novel[n] = txn[p].novelSeen
    BY <1>6 DEF WriteNovel, StillAsRead
  <2> QED BY <1>1, <1>2, <1>3, <1>4, <2>1, Locks DEF Is
<1>7. CASE ~NovelSettled(p) /\ ~StillAsRead(novel[n], txn[p].novelSeen)
  <2>1. Leave(p)
    BY <1>7 DEF WriteNovel
  <2> QED BY <1>1, <2>1, Leaves DEF WriteNovel
<1> QED BY <1>5, <1>6, <1>7
-----------------------------------------------------------------------------
(* The statements of a rights transition, which are silent if they keep    *)
(* what is said of its list.                                               *)
LEMMA ListsSilent ==
  ASSUME GateInv, NEW p \in Proc, Is(p, Rights), txn[p].at # "commit",
         TxnTypes', Apart(p), Placed(p)', Lists(p)',
         Busy(p)', job(p)' = job(p), Kind(p)' = Kind(p),
         UNCHANGED <<rows, request, audited, announced, history>>
  PROVE  Silent(p)
<1>1. RowTypes /\ TxnTypes /\ Placed(p)
  BY DEF GateInv, Good
<1>2. txn[p].at # "dispatch" /\ txn'[p].at # "dispatch"
  BY <1>1 DEF Is, Placed, Busy, Steps, AtPublish, AtRights, AtRebind, Rights
<1>3. Good(p)'
  BY DEF Is, Good, Reads, Passed, Writes, Moving, Stalled, Rights
<1>4. RowTypes'
  BY <1>1, RowsStay
<1> QED BY <1>2, <1>3, <1>4 DEF Silent, Quiet, Frame, rows, history

LEMMA FindAuditQuiet ==
  ASSUME GateInv, NEW p \in Proc, FindAudit(p)
  PROVE  Silent(p)
<1>1. RowTypes /\ TxnTypes /\ Good(p) /\ Placed(p) /\ txn[p].at = "audit"
  BY DEF GateInv, Good, FindAudit
<1>2. Is(p, Rights) /\ "source" \in Steps(Kind(p))
  BY <1>1, KindAt DEF AtRights, Is, Steps, Rights
<1>3. CASE txn[p].id \in audited
  BY <1>1, <1>3, Leaves DEF FindAudit
<1>4. CASE txn[p].id \notin audited
  <2>1. Go(p, "source") /\ UNCHANGED <<held, request>>
    BY <1>4 DEF FindAudit
  <2>2. /\ TxnTypes' /\ Apart(p) /\ Placed(p)'
        /\ txn'[p] = [txn[p] EXCEPT !.at = "source"] /\ held'[p] = held[p]
        /\ Busy(p)' /\ job(p)' = job(p) /\ Kind(p)' = Kind(p)
    BY <1>1, <1>2, <2>1, Goes DEF Is
  <2>3. txn'[p].at = "source" /\ held'[p] = {}
    BY <1>1, <1>2, <2>2 DEF Good, Lists, TxnTypes, TxnRow
  <2>4. Lists(p)'
    BY <2>3 DEF Lists
  <2> QED BY <1>1, <1>2, <2>2, <2>4, ListsSilent DEF FindAudit
<1> QED BY <1>3, <1>4

LEMMA ReadSourceQuiet ==
  ASSUME GateInv, NEW p \in Proc, ReadSource(p)
  PROVE  Silent(p)
<1> DEFINE n == job(p).row
<1>1. RowTypes /\ TxnTypes /\ Good(p) /\ Placed(p) /\ txn[p].at = "source"
  BY DEF GateInv, Good, ReadSource
<1>2. Is(p, Rights) /\ "affected" \in Steps(Kind(p))
  BY <1>1, KindAt DEF AtRights, Is, Steps, Rights
<1>3. CASE requireSourceStatus(Kind(p), novel[n])
  <2>1. Go(p, "affected") /\ UNCHANGED <<held, request>>
    BY <1>3 DEF ReadSource
  <2>2. /\ TxnTypes' /\ Apart(p) /\ Placed(p)'
        /\ txn'[p] = [txn[p] EXCEPT !.at = "affected"] /\ held'[p] = held[p]
        /\ Busy(p)' /\ job(p)' = job(p) /\ Kind(p)' = Kind(p)
    BY <1>1, <1>2, <2>1, Goes DEF Is
  <2>3. txn'[p].at = "affected" /\ held'[p] = {}
    BY <1>1, <1>2, <2>2 DEF Good, Lists, TxnTypes, TxnRow
  <2>4. Lists(p)'
    BY <2>3 DEF Lists
  <2> QED BY <1>1, <1>2, <2>2, <2>4, ListsSilent DEF ReadSource
<1>4. CASE ~requireSourceStatus(Kind(p), novel[n])
  BY <1>1, <1>4, Leaves DEF ReadSource
<1> QED BY <1>3, <1>4

LEMMA ReadAffectedQuiet ==
  ASSUME GateInv, NEW p \in Proc, ReadAffected(p)
  PROVE  Silent(p)
<1> DEFINE n == job(p).row
           list == Affected(Kind(p), n)
           x == [txn[p] EXCEPT !.at = "novel_update", !.todo = list]
<1>1. /\ RowTypes /\ TxnTypes /\ Good(p) /\ Placed(p) /\ Dates
      /\ txn[p].at = "affected"
  BY DEF GateInv, Good, ReadAffected
<1>2. Is(p, Rights) /\ "novel_update" \in Steps(Kind(p))
  BY <1>1, KindAt DEF AtRights, Is, Steps, Rights
<1>3. /\ list \subseteq Article
      /\ \A a \in list : article[a].novel = n
      /\ Kind(p) = "withdraw" => \A a \in list : article[a].dated
      /\ Kind(p) = "takedown" => list = ArticlesOf(n)
  BY <1>1 DEF Affected, ArticlesOf, Dates
<1>4. /\ x \in TxnRow /\ x.at = "novel_update" /\ x.id = txn[p].id
      /\ x.todo = list
  <2>1. txn[p] \in TxnRow
    BY <1>1 DEF TxnTypes
  <2> HIDE DEF list
  <2> QED BY <1>3, <2>1 DEF TxnRow, AtRights
<1>5. /\ held[p] = {} /\ held' = [held EXCEPT ![p] = held[p]]
      /\ txn' = [txn EXCEPT ![p] = x] /\ UNCHANGED <<request, article, crossed>>
  BY <1>1, <1>2 DEF Good, Lists, TxnTypes, ReadAffected, rows, history
<1> HIDE DEF x, list
<1>6. /\ TxnTypes' /\ Apart(p) /\ Placed(p)' /\ txn'[p] = x /\ held'[p] = {}
      /\ Busy(p)' /\ job(p)' = job(p) /\ Kind(p)' = Kind(p)
  <2>1. held[p] \in SUBSET (Article \cup Novel)
        /\ \A q \in Proc \ {p} : held[p] \cap held[q] = {}
    BY <1>5
  <2>2. x.at \in Steps(Kind(p)) /\ Busy(p)
    BY <1>2, <1>4 DEF Is
  <2> QED BY <1>1, <1>4, <1>5, <2>1, <2>2, Advances
<1>7. Lists(p)'
  BY <1>3, <1>4, <1>5, <1>6 DEF Lists, ArticlesOf
<1> QED BY <1>1, <1>2, <1>6, <1>7, ListsSilent DEF ReadAffected

LEMMA UpdateNovelQuiet ==
  ASSUME GateInv, NEW p \in Proc, UpdateNovel(p)
  PROVE  Silent(p)
<1> DEFINE n == job(p).row
           s == IF txn[p].todo = {} THEN "commit" ELSE "articles"
<1>1. RowTypes /\ TxnTypes /\ Good(p) /\ Placed(p) /\ txn[p].at = "novel_update"
  BY DEF GateInv, Good, UpdateNovel
<1>2. Is(p, Rights) /\ s \in Steps(Kind(p))
  BY <1>1, KindAt DEF AtRights, Is, Steps, Rights
<1>3. n \in Novel /\ n \notin Article
  BY <1>1, <1>2, JobTypes, PublishGateAssumption DEF Is
<1>4. /\ Free(n, p) /\ Lock(p, n) /\ Go(p, s)
      /\ UNCHANGED <<request, article, crossed>>
  BY DEF UpdateNovel, rows, history
<1> HIDE DEF s
<1>5. /\ TxnTypes' /\ Apart(p) /\ Placed(p)'
      /\ txn'[p] = [txn[p] EXCEPT !.at = s] /\ held'[p] = held[p] \cup {n}
      /\ Busy(p)' /\ job(p)' = job(p) /\ Kind(p)' = Kind(p)
  BY <1>1, <1>2, <1>3, <1>4, Locks DEF Is
<1>6. txn'[p].at = s /\ txn'[p].todo = txn[p].todo
  BY <1>1, <1>5 DEF TxnTypes, TxnRow
<1>7. /\ held'[p] \cap Novel = {n}
      /\ held'[p] \cap Article = held[p] \cap Article
  BY <1>1, <1>2, <1>3, <1>5 DEF Good, Lists
<1>8. s \in {"commit", "articles"} /\ (s = "commit" => txn[p].todo = {})
  BY DEF s
<1>9. Lists(p)'
  BY <1>1, <1>2, <1>4, <1>5, <1>6, <1>7, <1>8 DEF Good, Lists, ArticlesOf
<1> QED BY <1>1, <1>2, <1>5, <1>9, ListsSilent DEF UpdateNovel

LEMMA UpdateArticleQuiet ==
  ASSUME GateInv, NEW p \in Proc, UpdateArticle(p)
  PROVE  Silent(p)
<1>1. RowTypes /\ TxnTypes /\ Good(p) /\ Placed(p) /\ txn[p].at = "articles"
  BY DEF GateInv, Good, UpdateArticle
<1>2. Is(p, Rights) /\ {"commit", "articles"} \subseteq Steps(Kind(p))
  BY <1>1, KindAt DEF AtRights, Is, Steps, Rights
<1>3. PICK a \in txn[p].todo :
        /\ Free(a, p) /\ Lock(p, a)
        /\ txn' = [txn EXCEPT
             ![p] = [@ EXCEPT
               !.todo = txn[p].todo \ {a},
               !.at = IF txn[p].todo = {a} THEN "commit" ELSE "articles"]]
  BY DEF UpdateArticle
<1> DEFINE s == IF txn[p].todo = {a} THEN "commit" ELSE "articles"
           left == txn[p].todo \ {a}
           x == [txn[p] EXCEPT !.todo = left, !.at = s]
           h == held[p] \cup {a}
<1>4. /\ s \in {"commit", "articles"} /\ (s = "commit" => left = {})
      /\ a \in Article /\ a \notin Novel /\ left \subseteq Article
      /\ left \cup {a} = txn[p].todo
  BY <1>1, <1>3, PublishGateAssumption DEF TxnTypes, TxnRow
<1>5. /\ txn' = [txn EXCEPT ![p] = x] /\ held' = [held EXCEPT ![p] = h]
      /\ UNCHANGED <<request, article, crossed>>
  BY <1>1, <1>3 DEF TxnTypes, Lock, UpdateArticle, rows, history
<1>6. /\ h \in SUBSET (Article \cup Novel)
      /\ \A q \in Proc \ {p} : h \cap held[q] = {}
  BY <1>1, <1>3, <1>4 DEF TxnTypes, Free
<1> HIDE DEF s, left
<1>7. x \in TxnRow /\ x.at = s /\ x.id = txn[p].id /\ x.todo = left
  <2>1. txn[p] \in TxnRow
    BY <1>1 DEF TxnTypes
  <2> QED BY <1>4, <2>1 DEF TxnRow, AtRights
<1> HIDE DEF x
<1>8. /\ TxnTypes' /\ Apart(p) /\ Placed(p)'
      /\ txn'[p] = x /\ held'[p] = h
      /\ Busy(p)' /\ job(p)' = job(p) /\ Kind(p)' = Kind(p)
  <2> HIDE DEF h
  <2> QED BY <1>1, <1>2, <1>4, <1>5, <1>6, <1>7, Advances DEF Is
<1>9. /\ h \cap Novel = held[p] \cap Novel
      /\ left \cup (h \cap Article) = txn[p].todo \cup (held[p] \cap Article)
  BY <1>4
<1>10. Lists(p)'
  <2> HIDE DEF h
  <2> QED BY <1>1, <1>2, <1>4, <1>5, <1>7, <1>8, <1>9 DEF Good, Lists, ArticlesOf
<1> QED BY <1>1, <1>2, <1>8, <1>10, ListsSilent DEF UpdateArticle
-----------------------------------------------------------------------------
(* The guards of a rebind, and beginning, beginning again and giving up.   *)
LEMMA GuardsQuiet ==
  ASSUME GateInv, NEW p \in Proc, Guards(p)
  PROVE  Silent(p)
<1> DEFINE a == job(p).row
           n == job(p).to
           see == [article[a] EXCEPT !.promo = n \in links]
           x == [txn[p] EXCEPT !.at = "move", !.seen = see]
<1>1. RowTypes /\ TxnTypes /\ Good(p) /\ Placed(p) /\ txn[p].at = "guards"
  BY DEF GateInv, Good, Guards
<1>2. Is(p, {"rebind"}) /\ "move" \in Steps(Kind(p))
  BY <1>1, KindAt DEF AtRebind, Is, Steps
<1>3. CASE RebindAllowed(a, n)
  <2>1. a \in Article /\ n \in Novel /\ held[p] = {}
    BY <1>1, <1>2, JobTypes DEF Is, Good, Moving
  <2>2. see \in ArticleRow
    <3> DEFINE linked == n \in links
    <3>1. linked \in BOOLEAN /\ article[a] \in ArticleRow
      BY <1>1, <2>1 DEF RowTypes
    <3> HIDE DEF linked
    <3>2. [article[a] EXCEPT !.promo = linked] \in ArticleRow
      BY <3>1 DEF ArticleRow
    <3> QED BY <3>2 DEF linked
  <2>4. /\ txn' = [txn EXCEPT ![p] = x] /\ held' = [held EXCEPT ![p] = {}]
        /\ UNCHANGED request
    BY <1>1, <1>3, <2>1 DEF Guards, TxnTypes
  <2> HIDE DEF see
  <2>5. x \in TxnRow /\ x.at = "move" /\ x.id = txn[p].id /\ x.seen = see
    BY <1>1, <2>2 DEF TxnTypes, TxnRow, AtRebind
  <2> HIDE DEF x
  <2>6. /\ TxnTypes' /\ Apart(p) /\ Placed(p)' /\ txn'[p] = x /\ held'[p] = {}
        /\ Busy(p)' /\ job(p)' = job(p) /\ Kind(p)' = Kind(p)
    <3>1. x.at \in Steps(Kind(p)) /\ Busy(p)
      BY <1>2, <2>5 DEF Is
    <3>2. {} \in SUBSET (Article \cup Novel) /\ \A q \in Proc \ {p} : {} \cap held[q] = {}
      OBVIOUS
    <3> QED BY <1>1, <2>4, <2>5, <3>1, <3>2, Advances
  <2>7. Good(p)'
    <3>1. Moving(p)'
      BY <2>2, <2>5, <2>6 DEF Moving
    <3>2. Reads(p)' /\ Passed(p)' /\ Writes(p)' /\ Lists(p)' /\ Stalled(p)'
      BY <1>2, <2>6 DEF Reads, Passed, Writes, Lists, Stalled, Is, Rights
    <3> QED BY <2>6, <3>1, <3>2 DEF Good
  <2>8. RowTypes'
    BY <1>1, RowsStay DEF Guards
  <2> QED BY <1>1, <2>5, <2>6, <2>7, <2>8
          DEF Silent, Quiet, Frame, Guards, rows, history
<1>4. CASE ~RebindAllowed(a, n)
  BY <1>1, <1>4, Leaves DEF Guards
<1> QED BY <1>3, <1>4

LEMMA VictimQuiet ==
  ASSUME GateInv, NEW p \in Proc, Victim(p)
  PROVE  Silent(p)
<1>1. txn[p].at # "dispatch"
  <2>1. PICK q \in Proc : Wants(p) \cap held[q] # {}
    BY DEF Victim, Waits
  <2> QED BY <2>1 DEF Wants
<1>2. RowTypes /\ TxnTypes
  BY DEF GateInv
<1> QED BY <1>1, <1>2, Leaves DEF Victim

LEMMA SendQuiet ==
  ASSUME GateInv, NEW p \in Proc, Send(p)
  PROVE  Silent(p)
<1>1. RowTypes /\ TxnTypes /\ Good(p) /\ txn[p].at = "idle" /\ held[p] = {}
  BY DEF GateInv, Good, Placed, Send, Busy
<1>2. PICK j \in Job :
        /\ Sendable(j)
        /\ request' = Append(request, j)
        /\ txn' = [txn EXCEPT ![p] = Fresh(First(j.kind), Len(request) + 1)]
  BY DEF Send
<1> DEFINE id == Len(request) + 1
<1>3. /\ request' \in Seq(Job) /\ id \in 1..Len(request') /\ request'[id] = j
      /\ \A k \in 1..Len(request) : k \in 1..Len(request') /\ request'[k] = request[k]
  BY <1>1, <1>2 DEF RowTypes
<1>4. RowTypes'
  <2>1. audited \subseteq 1..Len(request')
    BY <1>1, <1>3 DEF RowTypes
  <2>2. \A k \in 1..Len(request') : k \in 1..Len(request) \/ k = id
    BY <1>1, <1>2 DEF RowTypes
  <2>3. j.row \in Article => article[j.row].novel # NoOne
    BY <1>2 DEF Sendable
  <2>4. \A k \in 1..Len(request') :
          request'[k].row \in Article => article[request'[k].row].novel # NoOne
    BY <1>1, <1>3, <2>2, <2>3 DEF RowTypes
  <2> QED BY <1>1, <1>3, <2>1, <2>4 DEF RowTypes, Send, rows
<1>5. /\ held' = [held EXCEPT ![p] = {}]
      /\ txn' = [txn EXCEPT ![p] = Fresh(First(request'[id].kind), id)]
  BY <1>1, <1>2, <1>3 DEF Send, TxnTypes
<1> HIDE DEF id
<1>6. /\ TxnTypes' /\ Good(p)' /\ txn'[p].at # "dispatch"
      /\ \A q \in Proc \ {p} : txn'[q] = txn[q] /\ held'[q] = held[q]
  BY <1>1, <1>3, <1>4, <1>5, Starts
<1> QED BY <1>1, <1>3, <1>4, <1>6
        DEF Silent, Quiet, Frame, Apart, Send, rows, history

\* A request is begun, for the first time in this process or once more.
LEMMA Begins ==
  ASSUME GateInv, NEW p \in Proc, NEW id \in 1..Len(request),
         txn[p].at # "dispatch",
         txn' = [txn EXCEPT ![p] = Begin(id)], held' = [held EXCEPT ![p] = {}],
         UNCHANGED <<rows, request, audited, announced, history>>
  PROVE  Silent(p)
<1>1. RowTypes /\ TxnTypes
  BY DEF GateInv
<1>2. RowTypes'
  BY <1>1, RowsStay
<1>3. txn' = [txn EXCEPT ![p] = Fresh(First(request'[id].kind), id)]
      /\ id \in 1..Len(request')
  BY DEF Begin
<1>4. /\ TxnTypes' /\ Good(p)' /\ txn'[p].at # "dispatch"
      /\ \A q \in Proc \ {p} : txn'[q] = txn[q] /\ held'[q] = held[q]
  BY <1>1, <1>2, <1>3, Starts
<1> QED BY <1>2, <1>4 DEF Silent, Quiet, Frame, Apart, rows, history

LEMMA SendAgainQuiet ==
  ASSUME GateInv, NEW p \in Proc, SendAgain(p)
  PROVE  Silent(p)
<1>1. TxnTypes /\ txn[p].at = "idle" /\ held[p] = {}
  BY DEF GateInv, Good, Placed, SendAgain, Busy
<1>2. PICK id \in 1..Len(request) : txn' = [txn EXCEPT ![p] = Begin(id)]
  BY DEF SendAgain
<1>3. held' = [held EXCEPT ![p] = {}]
  BY <1>1 DEF SendAgain, TxnTypes
<1> QED BY <1>1, <1>2, <1>3, Begins DEF SendAgain

LEMMA RetryQuiet ==
  ASSUME GateInv, NEW p \in Proc, Retry(p)
  PROVE  Silent(p)
<1>1. txn[p].id \in 1..Len(request)
  BY DEF GateInv, Good, Placed, Retry, Busy
<1> QED BY <1>1, Begins DEF Retry

LEMMA CrashQuiet ==
  ASSUME GateInv, NEW p \in Proc, Crash(p)
  PROVE  Quiet(p) /\ txn'[p].at = "idle"
<1>1. RowTypes /\ TxnTypes
  BY DEF GateInv
<1>2. RowTypes'
  BY <1>1, RowsStay DEF Crash
<1>3. /\ TxnTypes' /\ Good(p)' /\ txn'[p].at = "idle"
      /\ \A q \in Proc \ {p} : txn'[q] = txn[q] /\ held'[q] = held[q]
  BY <1>1, <1>2, Resets DEF Crash
<1> QED BY <1>2, <1>3 DEF Quiet, Frame, Apart, Crash, rows

LEMMA DispatchFailsQuiet ==
  ASSUME GateInv, NEW p \in Proc, DispatchFails(p)
  PROVE  Quiet(p) /\ txn'[p].at = "idle"
<1>1. RowTypes /\ TxnTypes
  BY DEF GateInv
<1>2. RowTypes'
  BY <1>1, RowsStay DEF DispatchFails
<1>3. /\ TxnTypes' /\ Good(p)' /\ txn'[p].at = "idle"
      /\ \A q \in Proc \ {p} : txn'[q] = txn[q] /\ held'[q] = held[q]
  BY <1>1, <1>2, Resets DEF DispatchFails
<1> QED BY <1>2, <1>3 DEF Quiet, Frame, Apart, DispatchFails, rows

LEMMA DispatchQuiet ==
  ASSUME GateInv, NEW p \in Proc, Dispatch(p)
  PROVE  Quiet(p) /\ txn'[p].at = "idle"
<1>1. RowTypes /\ TxnTypes /\ Good(p)
  BY DEF GateInv
<1>2. announced' \in [Article -> Nat]
  <2>1. announced \in [Article -> Nat]
    BY <1>1 DEF RowTypes
  <2>2. announced' = [announced EXCEPT ![job(p).row] = announced[job(p).row] + 1]
    BY DEF Dispatch
  <2>3. Placed(p) /\ txn[p].at = "dispatch"
    BY <1>1 DEF Good, Dispatch
  <2>4. Is(p, {"publish"})
    BY <1>1, <2>3, KindAt DEF AtPublish
  <2>5. job(p).row \in Article
    BY <1>1, <2>3, <2>4, JobTypes DEF Is
  <2> QED BY <2>1, <2>2, <2>5
<1>3. RowTypes'
  BY <1>1, <1>2 DEF Dispatch, RowTypes, rows
<1>4. /\ TxnTypes' /\ Good(p)' /\ txn'[p].at = "idle"
      /\ \A q \in Proc \ {p} : txn'[q] = txn[q] /\ held'[q] = held[q]
  BY <1>1, <1>3, Resets DEF Dispatch
<1> QED BY <1>3, <1>4 DEF Quiet, Frame, Apart, Dispatch, rows, history
-----------------------------------------------------------------------------
(* Quiet steps and the rows.                                               *)
LEMMA QuietKeeps ==
  ASSUME GateInv, NEW p \in Proc, Quiet(p)
  PROVE  /\ RowTypes' /\ TxnTypes' /\ \A q \in Proc : Good(q)'
         /\ Dates' /\ Bodies' /\ TakedownCovers'
<1>1. \A q \in Proc : Good(q)'
  BY OthersKept DEF GateInv, Quiet
<1>2. Dates' /\ Bodies' /\ TakedownCovers'
  BY DEF GateInv, Quiet, Frame, Dates, Bodies, TakedownCovers, ArticlesOf
<1> QED BY <1>1, <1>2 DEF Quiet

\* Who dispatches, when one transaction has changed.
LEMMA OthersDispatch ==
  ASSUME GateInv, NEW p \in Proc, Frame(p), NEW q \in Proc \ {p}, NEW a \in Article
  PROVE  Dispatching(q, a)' <=> Dispatching(q, a)
<1>1. Busy(q) => txn[q].id \in 1..Len(request)
  BY DEF GateInv, Good, Placed
<1>2. txn'[q] = txn[q]
  BY DEF Frame, Apart
<1> QED BY <1>1, <1>2 DEF Dispatching, Busy, Frame, Apart, job

LEMMA SilentAnnounces ==
  ASSUME GateInv, NEW p \in Proc, Silent(p)
  PROVE  Announcing'
<1>1. \A q \in Proc, a \in Article : Dispatching(q, a)' <=> Dispatching(q, a)
  <2>1. \A q \in Proc \ {p}, a \in Article : Dispatching(q, a)' <=> Dispatching(q, a)
    BY OthersDispatch DEF Silent, Quiet
  <2>2. \A a \in Article : ~Dispatching(p, a) /\ ~Dispatching(p, a)'
    BY DEF Silent, Dispatching
  <2> QED BY <2>1, <2>2
<1>2. UNCHANGED <<article, announced, lost, returned>>
  BY DEF Silent, Quiet, Frame
<1> QED BY <1>1, <1>2 DEF GateInv, Announcing, Told

LEMMA LostAnnounces ==
  ASSUME GateInv, NEW p \in Proc, Crash(p) \/ DispatchFails(p)
  PROVE  Announcing'
<1>1. Quiet(p) /\ txn'[p].at = "idle"
  BY CrashQuiet, DispatchFailsQuiet
<1>2. \A q \in Proc \ {p}, a \in Article : Dispatching(q, a)' <=> Dispatching(q, a)
  BY <1>1, OthersDispatch DEF Quiet
<1>3. \A a \in Article : ~Dispatching(p, a)'
  BY <1>1 DEF Dispatching
<1>4. /\ UNCHANGED <<article, announced, returned>>
      /\ \A a \in Article : a \in lost \/ Dispatching(p, a) => a \in lost'
  BY DEF Crash, DispatchFails, rows, Dispatching
<1> SUFFICES ASSUME NEW a \in Article PROVE Told(a)'
  BY DEF Announcing
<1> QED BY <1>2, <1>3, <1>4 DEF GateInv, Announcing, Told

LEMMA DispatchAnnounces ==
  ASSUME GateInv, NEW p \in Proc, Dispatch(p)
  PROVE  Announcing'
<1> DEFINE b == job(p).row
<1>1. Quiet(p) /\ txn'[p].at = "idle"
  BY DispatchQuiet
<1>2. \A q \in Proc \ {p}, a \in Article : Dispatching(q, a)' <=> Dispatching(q, a)
  BY <1>1, OthersDispatch DEF Quiet
<1>3. \A a \in Article : ~Dispatching(p, a)'
  BY <1>1 DEF Dispatching
<1>4. /\ RowTypes /\ Good(p) /\ Placed(p) /\ txn[p].at = "dispatch"
      /\ Is(p, {"publish"}) /\ Dispatching(p, b)
  BY KindAt DEF GateInv, Good, Dispatch, AtPublish, Dispatching
<1>5. b \in Article /\ article[b].dated
  BY <1>4, JobTypes DEF Good, Writes, Is
<1>6. /\ announced'[b] = announced[b] + 1 /\ announced[b] \in Nat
      /\ \A a \in Article \ {b} : announced'[a] = announced[a]
      /\ UNCHANGED <<article, lost, returned>>
  BY <1>4, <1>5 DEF Dispatch, RowTypes, rows, history
<1> SUFFICES ASSUME NEW a \in Article PROVE Told(a)'
  BY DEF Announcing
<1>7. CASE a = b
  BY <1>2, <1>3, <1>4, <1>5, <1>6, <1>7 DEF GateInv, Announcing, Told
<1>8. CASE a # b
  <2>1. ~Dispatching(p, a)
    BY <1>8 DEF Dispatching
  <2> QED BY <1>2, <1>3, <1>6, <1>8, <2>1 DEF GateInv, Announcing, Told
<1> QED BY <1>7, <1>8
-----------------------------------------------------------------------------
(* A commit: what it makes of the rows, and what the others notice.        *)
Rest(p, x) ==
  /\ Apply(p)
  /\ txn' = [Note(p) EXCEPT ![p] = x]
  /\ held' = [held EXCEPT ![p] = {}]

LEMMA AppliedRows ==
  ASSUME GateInv, NEW p \in Proc, txn[p].at = "commit", Apply(p)
  PROVE  /\ Is(p, {"publish"} \cup Rights) /\ Target(Kind(p)) \in ArticleStatus
         /\ RowTypes'
         /\ \A a \in Article :
              IF a \in held[p]
              THEN /\ article'[a].status = Target(Kind(p))
                   /\ article'[a].dated <=> PublishTime(Kind(p), article[a].dated)
                   /\ article'[a].novel = article[a].novel
                   /\ article'[a].promo <=> article[a].promo
              ELSE article'[a] = article[a]
         /\ \A n \in Novel :
              novel'[n] = IF n \in held[p] THEN Target(Kind(p)) ELSE novel[n]
         /\ \A n \in Novel :
              \/ chapters'[n] = chapters[n]
              \/ Kind(p) = "takedown" /\ n = job(p).row
<1>1. RowTypes /\ TxnTypes /\ Good(p) /\ Placed(p)
  BY DEF GateInv, Good
<1>2. Is(p, {"publish"} \cup Rights)
  BY <1>1, KindAt
<1>3. Kind(p) \in {"publish", "withdraw", "takedown", "restore"}
  BY <1>2 DEF Is, Rights
<1>4. Target(Kind(p)) \in ArticleStatus
  BY <1>3 DEF Target, ArticleStatus
<1> DEFINE status == Target(Kind(p))
           date(a) == PublishTime(Kind(p), article[a].dated)
           new(a) == [article[a] EXCEPT !.status = status, !.dated = date(a)]
<1>5. article' = [a \in Article |-> IF a \in held[p] THEN new(a) ELSE article[a]]
  BY DEF Apply
<1>6. /\ novel' = [n \in Novel |-> IF n \in held[p] THEN status ELSE novel[n]]
      /\ chapters' = IF Kind(p) = "takedown" /\ chapters[job(p).row] = "live"
                     THEN [chapters EXCEPT ![job(p).row] = "withdrawn"]
                     ELSE chapters
      /\ audited' = audited \cup {txn[p].id}
      /\ UNCHANGED <<links, request, announced>>
  BY DEF Apply
<1>7. \A a \in Article : date(a) \in BOOLEAN
  BY DEF PublishTime
<1> HIDE DEF status, date
<1>8. \A a \in Article :
        /\ new(a) \in ArticleRow
        /\ new(a).status = status /\ new(a).dated = date(a)
        /\ new(a).novel = article[a].novel /\ new(a).promo = article[a].promo
  <2> SUFFICES ASSUME NEW a \in Article
               PROVE  /\ new(a) \in ArticleRow
                      /\ new(a).status = status /\ new(a).dated = date(a)
                      /\ new(a).novel = article[a].novel
                      /\ new(a).promo = article[a].promo
    OBVIOUS
  <2>1. article[a] \in ArticleRow /\ status \in ArticleStatus /\ date(a) \in BOOLEAN
    BY <1>1, <1>4, <1>7 DEF RowTypes, status
  <2> QED BY <2>1 DEF ArticleRow
<1> HIDE DEF new
<1>9. article' \in [Article -> ArticleRow]
  <2>1. article \in [Article -> ArticleRow]
    BY <1>1 DEF RowTypes
  <2> QED BY <1>5, <1>8, <2>1
<1>10. novel' \in [Novel -> ArticleStatus]
  BY <1>1, <1>4, <1>6 DEF RowTypes, status
<1>11. /\ chapters' \in [Novel -> {"none", "live", "withdrawn"}]
       /\ \A n \in Novel : \/ chapters'[n] = chapters[n]
                           \/ Kind(p) = "takedown" /\ n = job(p).row
  BY <1>1, <1>6 DEF RowTypes
<1>12. RowTypes'
  <2>1. txn[p].id \in 1..Len(request)
    BY <1>1, <1>2 DEF Placed, Is
  <2>2. \A a \in Article : article'[a].novel = article[a].novel
    BY <1>5, <1>8
  <2> QED BY <1>1, <1>6, <1>9, <1>10, <1>11, <2>1, <2>2 DEF RowTypes
<1>13. \A a \in Article :
         IF a \in held[p]
         THEN /\ article'[a].status = status
              /\ article'[a].dated = date(a)
              /\ article'[a].novel = article[a].novel
              /\ article'[a].promo = article[a].promo
         ELSE article'[a] = article[a]
  BY <1>5, <1>8
<1>14. \A n \in Novel : novel'[n] = IF n \in held[p] THEN status ELSE novel[n]
  BY <1>6
<1> QED BY <1>2, <1>4, <1>11, <1>12, <1>13, <1>14 DEF status, date

\* What a committing transaction holds.
LEMMA HeldAtCommit ==
  ASSUME GateInv, NEW p \in Proc, txn[p].at = "commit"
  PROVE  /\ Is(p, {"publish"}) =>
              /\ job(p).row \in Article
              /\ txn[p].seen \in ArticleRow /\ txn[p].seen.novel \in Novel
              /\ held[p] \cap Article = {job(p).row}
              /\ held[p] \cap Novel \subseteq {txn[p].seen.novel}
         /\ Is(p, Rights) =>
              /\ job(p).row \in Novel /\ held[p] \cap Novel = {job(p).row}
              /\ txn[p].todo = {}
<1>1. RowTypes /\ TxnTypes /\ Good(p) /\ Placed(p)
  BY DEF GateInv, Good
<1>2. ASSUME Is(p, {"publish"})
      PROVE  /\ job(p).row \in Article
             /\ txn[p].seen \in ArticleRow /\ txn[p].seen.novel \in Novel
             /\ held[p] \cap Article = {job(p).row}
             /\ held[p] \cap Novel \subseteq {txn[p].seen.novel}
  <2>1. job(p).row \in Article /\ txn[p].seen \in ArticleRow
    BY <1>1, <1>2, JobTypes DEF Is, Good, Reads
  <2>2. txn[p].seen.novel \in Novel
    BY <1>1, <1>2 DEF Is, Good, Reads
  <2>3. job(p).row \in held[p] /\ held[p] \subseteq {job(p).row, txn[p].seen.novel}
    BY <1>1, <1>2 DEF Good, Writes
  <2> QED BY <2>1, <2>2, <2>3, PublishGateAssumption
<1>3. ASSUME Is(p, Rights)
      PROVE  /\ job(p).row \in Novel /\ held[p] \cap Novel = {job(p).row}
             /\ txn[p].todo = {}
  BY <1>1, <1>3, JobTypes DEF Is, Good, Lists
<1> QED BY <1>2, <1>3

LEMMA Noted ==
  ASSUME GateInv, NEW p \in Proc, NEW x \in TxnRow, txn[p].at = "commit", Rest(p, x)
  PROVE  /\ TxnTypes' /\ txn'[p] = x /\ held'[p] = {}
         /\ \A q \in Proc \ {p} :
              /\ held'[q] = held[q]
              /\ txn'[q].at = txn[q].at /\ txn'[q].id = txn[q].id
              /\ txn'[q].seen = txn[q].seen
              /\ txn'[q].novelSeen = txn[q].novelSeen
              /\ txn'[q].todo = txn[q].todo
              /\ txn[q].since \subseteq txn'[q].since
              /\ Kind(p) \in {"takedown", "restore"} /\ q \in Overtaken(p)
                   => Kind(p) \in txn'[q].since
<1> DEFINE k == Kind(p)
           told(q) == [txn[q] EXCEPT !.since = txn[q].since \cup {k}]
<1>1. TxnTypes
  BY DEF GateInv
<1>2. Note(p) = [q \in Proc |-> IF k \in {"takedown", "restore"} /\ q \in Overtaken(p)
                                THEN told(q) ELSE txn[q]]
  BY DEF Note
<1>3. \A q \in Proc : k \in {"takedown", "restore"} => told(q) \in TxnRow
  BY <1>1 DEF TxnTypes, TxnRow, Rights
<1>4. \A q \in Proc :
        /\ told(q).at = txn[q].at /\ told(q).id = txn[q].id
        /\ told(q).seen = txn[q].seen
        /\ told(q).novelSeen = txn[q].novelSeen
        /\ told(q).todo = txn[q].todo
        /\ txn[q].since \subseteq told(q).since /\ k \in told(q).since
  BY <1>1 DEF TxnTypes, TxnRow
<1> HIDE DEF k, told
<1>5. /\ txn' \in [Proc -> TxnRow] /\ txn'[p] = x
      /\ \A q \in Proc \ {p} :
           \/ k \in {"takedown", "restore"} /\ txn'[q] = told(q)
           \/ ~(k \in {"takedown", "restore"} /\ q \in Overtaken(p)) /\ txn'[q] = txn[q]
  <2>1. txn' = [Note(p) EXCEPT ![p] = x]
    BY DEF Rest
  <2>2. txn \in [Proc -> TxnRow]
    BY <1>1 DEF TxnTypes
  <2>3. Note(p) \in [Proc -> TxnRow]
    BY <1>2, <1>3, <2>2
  <2> QED BY <1>2, <2>1, <2>3
<1>6. /\ held' \in [Proc -> SUBSET (Article \cup Novel)] /\ held'[p] = {}
      /\ \A q \in Proc \ {p} : held'[q] = held[q]
  BY <1>1 DEF Rest, TxnTypes
<1>7. \A q, r \in Proc : q # r => held'[q] \cap held'[r] = {}
  BY <1>1, <1>6 DEF TxnTypes
<1> QED BY <1>4, <1>5, <1>6, <1>7 DEF TxnTypes, k

\* A commit shelves no draft: a takedown takes all that it shelves.
LEMMA CommitShelves ==
  ASSUME GateInv, NEW p \in Proc, txn[p].at = "commit", Apply(p),
         NEW a \in Article, Shelved(a)'
  PROVE  Shelved(a) /\ a \notin held[p]
<1> DEFINE n == article[a].novel
           r == job(p).row
<1>1. Good(p)
  BY DEF GateInv
<1>2. /\ Is(p, {"publish"} \cup Rights)
      /\ a \in held[p] => article'[a].status = Target(Kind(p))
      /\ a \notin held[p] => article'[a] = article[a]
      /\ article'[a].novel = n
      /\ \A m \in Novel :
           novel'[m] = IF m \in held[p] THEN Target(Kind(p)) ELSE novel[m]
  BY AppliedRows
<1>3. n \in Novel /\ novel'[n] = "takedown" /\ article'[a].status = "draft"
      /\ a \notin crossed
  BY <1>2 DEF Shelved, Apply
<1>4. Kind(p) \in {"publish", "withdraw", "takedown", "restore"} /\ Busy(p)
  BY <1>2 DEF Is, Rights
<1>5. CASE n \in held[p]
  <2>1. Target(Kind(p)) = "takedown"
    BY <1>2, <1>3, <1>5
  <2>2. Kind(p) = "takedown"
    BY <1>4, <2>1 DEF Target
  <2>3. n = r /\ txn[p].todo = {}
    BY <1>3, <1>4, <1>5, <2>2, HeldAtCommit DEF Is, Rights
  <2>4. a \in held[p]
    BY <1>1, <1>3, <1>4, <2>2, <2>3 DEF Good, Lists, Is, Rights, ArticlesOf
  <2> QED BY <1>2, <1>3, <2>1, <2>4
<1>6. CASE n \notin held[p]
  <2>1. novel[n] = "takedown"
    BY <1>2, <1>3, <1>6
  <2>2. a \notin held[p]
    <3>1. CASE Kind(p) = "publish"
      <4>1. Target(Kind(p)) # "draft"
        BY <3>1 DEF Target
      <4> QED BY <1>2, <1>3, <4>1
    <3>2. CASE Kind(p) \in Rights
      <4>1. a \in held[p] => n = r
        BY <1>1, <1>3, <1>4, <3>2 DEF Good, Lists, Is
      <4>2. r \in held[p]
        BY <1>4, <3>2, HeldAtCommit DEF Is
      <4> QED BY <1>6, <4>1, <4>2
    <3> QED BY <1>4, <3>1, <3>2 DEF Rights
  <2> QED BY <1>2, <1>3, <2>1, <2>2 DEF Shelved
<1> QED BY <1>5, <1>6

LEMMA CommitOthers ==
  ASSUME GateInv, NEW p \in Proc, NEW x \in TxnRow, txn[p].at = "commit",
         Rest(p, x), NEW q \in Proc \ {p}
  PROVE  Good(q)'
<1> DEFINE a == job(q).row
<1>1. RowTypes /\ TxnTypes /\ Good(q) /\ Placed(q)
  BY DEF GateInv, Good
<1>2. /\ held'[q] = held[q]
      /\ txn'[q].at = txn[q].at /\ txn'[q].id = txn[q].id
      /\ txn'[q].seen = txn[q].seen /\ txn'[q].novelSeen = txn[q].novelSeen
      /\ txn'[q].todo = txn[q].todo /\ txn[q].since \subseteq txn'[q].since
      /\ Kind(p) \in {"takedown", "restore"} /\ q \in Overtaken(p)
           => Kind(p) \in txn'[q].since
  BY Noted
<1>3. UNCHANGED <<request, crossed>> /\ held[p] \cap held[q] = {}
  BY <1>1 DEF Rest, Apply, TxnTypes
<1>4. /\ Busy(q)' <=> Busy(q)
      /\ job(q)' = job(q) /\ Kind(q)' = Kind(q)
  BY <1>2, <1>3 DEF Busy, job, Kind
<1>5. \A ks : Is(q, ks)' <=> Is(q, ks)
  BY <1>4 DEF Is
<1>6. Apply(p)
  BY DEF Rest
<1>7. Placed(q)'
  BY <1>1, <1>2, <1>3, <1>4 DEF Placed
<1>8. \A b \in Article :
        /\ article'[b].novel = article[b].novel
        /\ article[b].dated => article'[b].dated
        /\ b \notin held[p] => article'[b] = article[b]
  BY <1>6, AppliedRows DEF PublishTime
<1>9. ASSUME Is(q, {"publish"})
      PROVE  Reads(q)'
  <2>1. a \in Article
    BY <1>1, <1>9, JobTypes DEF Is
  <2> SUFFICES ASSUME txn[q].at # "article" PROVE Reads(q)'
    BY <1>2 DEF Reads
  <2>2. /\ txn[q].seen \in ArticleRow /\ txn[q].seen.novel \in Novel
        /\ txn[q].seen.status \in {"published", "unpublished"} => txn[q].seen.dated
        /\ txn[q].seen.dated => article[a].dated
        /\ (/\ ~txn[q].seen.dated /\ article[a].dated
            /\ txn[q].seen.status = "draft" /\ article[a].status = "draft")
             => "restore" \in txn[q].since
    BY <1>1, <1>9 DEF Good, Reads
  <2>3. ASSUME ~txn[q].seen.dated, article'[a].dated,
               txn[q].seen.status = "draft", article'[a].status = "draft"
        PROVE  "restore" \in txn'[q].since
    <3>1. CASE a \notin held[p]
      BY <1>2, <1>8, <2>1, <2>2, <2>3, <3>1
    <3>2. CASE a \in held[p]
      <4>1. Target(Kind(p)) = "draft" /\ Is(p, {"publish"} \cup Rights)
        BY <1>6, <2>1, <2>3, <3>2, AppliedRows
      <4>2. Kind(p) = "restore"
        BY <4>1 DEF Target, Is, Rights
      <4>3. q \in Overtaken(p)
        BY <1>9, <2>2, <3>2, PublishGateAssumption DEF Overtaken, Is
      <4> QED BY <1>2, <4>2, <4>3
    <3> QED BY <3>1, <3>2
  <2> QED BY <1>2, <1>4, <1>8, <2>1, <2>2, <2>3 DEF Reads
<1>10. ASSUME Is(q, {"publish"})
       PROVE  Passed(q)'
  <2> SUFFICES ASSUME txn[q].at \in {"replay", "article_write", "novel_write", "commit"}
               PROVE  Passed(q)'
    BY <1>2 DEF Passed
  <2>1. /\ txn[q].seen \in ArticleRow /\ txn[q].seen.novel \in Novel
        /\ txn[q].seen.status # "takedown" /\ txn[q].novelSeen # "takedown"
        /\ chapters[txn[q].seen.novel] = "live" \/ "takedown" \in txn[q].since
    BY <1>1, <1>10 DEF Good, Reads, Passed
  <2> DEFINE n == txn[q].seen.novel
  <2>2. n \in Novel
    BY <2>1
  <2>3. CASE chapters'[n] = chapters[n]
    BY <1>2, <2>1, <2>3 DEF Passed
  <2>4. CASE chapters'[n] # chapters[n]
    <3>1. Kind(p) = "takedown" /\ n = job(p).row /\ Is(p, Rights)
      BY <1>6, <2>2, <2>4, AppliedRows DEF Is, Rights
    <3>2. n \in held[p]
      BY <3>1, HeldAtCommit
    <3>3. q \in Overtaken(p)
      BY <1>10, <2>1, <3>2, PublishGateAssumption DEF Overtaken, Is
    <3> QED BY <1>2, <2>1, <3>1, <3>3 DEF Passed
  <2> QED BY <2>3, <2>4
<1>11. ASSUME Is(q, {"publish"})
       PROVE  Writes(q)'
  <2>1. a \in Article
    BY <1>1, <1>11, JobTypes DEF Is
  <2>2. CASE txn[q].at \in {"novel_write", "commit"}
    <3>1. /\ a \in held[q] /\ held[q] \subseteq {a, txn[q].seen.novel}
          /\ article[a].status = txn[q].seen.status /\ article[a].promo
          /\ txn[q].seen.novel \in held[q] =>
               novel[txn[q].seen.novel] = txn[q].novelSeen
      BY <1>1, <1>11, <2>2 DEF Good, Writes
    <3>2. article'[a] = article[a]
      BY <1>3, <1>8, <2>1, <3>1
    <3>3. txn[q].seen.novel \in held[q] =>
            novel'[txn[q].seen.novel] = txn[q].novelSeen
      <4>1. txn[q].seen.novel \in Novel
        BY <1>1, <1>11, <2>2 DEF Good, Reads
      <4> QED BY <1>3, <1>6, <3>1, <4>1, AppliedRows
    <3> QED BY <1>2, <1>4, <2>2, <3>1, <3>2, <3>3 DEF Writes
  <2>3. CASE txn[q].at \notin {"novel_write", "commit"}
    BY <1>1, <1>2, <1>4, <1>8, <1>11, <2>1, <2>3 DEF Good, Writes
  <2> QED BY <2>2, <2>3
<1>12. Lists(q)'
  <2>1. \A n : ArticlesOf(n)' = ArticlesOf(n)
    BY <1>8 DEF ArticlesOf
  <2>2. \A b \in txn[q].todo \cup (held[q] \cap Article) : b \in Article
    BY <1>1 DEF TxnTypes, TxnRow
  <2> QED BY <1>1, <1>2, <1>3, <1>4, <1>5, <1>8, <2>1, <2>2 DEF Good, Lists
<1>13. Moving(q)'
  BY <1>1, <1>2, <1>5 DEF Good, Moving
<1>14. ~Is(q, {"publish"}) => Reads(q)' /\ Passed(q)' /\ Writes(q)' /\ Stalled(q)'
  BY <1>5 DEF Reads, Passed, Writes, Stalled
<1>15. ASSUME Is(q, {"publish"})
       PROVE  Stalled(q)'
  <2> SUFFICES ASSUME Shelved(a)' PROVE Stalled(q)'
    BY <1>4 DEF Stalled
  <2>1. PICK b \in Article : b = a /\ b = job(q).row'
    BY <1>1, <1>4, <1>15, JobTypes DEF Is
  <2>3. Shelved(b)'
    BY <2>1 DEF Shelved
  <2>2. Shelved(b) /\ b \notin held[p]
    BY <1>6, <2>3, CommitShelves
  <2> QED BY <1>1, <1>2, <1>4, <1>8, <1>15, <2>1, <2>2 DEF Good, Stalled
<1> QED BY <1>7, <1>9, <1>10, <1>11, <1>12, <1>13, <1>14, <1>15 DEF Good

LEMMA CommitRows ==
  ASSUME GateInv, NEW p \in Proc, txn[p].at = "commit", Apply(p)
  PROVE  Dates' /\ Bodies' /\ TakedownCovers'
<1> DEFINE r == job(p).row
<1>1. RowTypes /\ TxnTypes /\ Good(p) /\ Placed(p)
  BY DEF GateInv, Good
<1>2. /\ Is(p, {"publish"} \cup Rights)
      /\ \A a \in Article :
           IF a \in held[p]
           THEN /\ article'[a].status = Target(Kind(p))
                /\ article'[a].dated <=> PublishTime(Kind(p), article[a].dated)
                /\ article'[a].novel = article[a].novel
                /\ article'[a].promo <=> article[a].promo
           ELSE article'[a] = article[a]
      /\ \A n \in Novel :
           novel'[n] = IF n \in held[p] THEN Target(Kind(p)) ELSE novel[n]
      /\ \A n \in Novel : \/ chapters'[n] = chapters[n]
                          \/ Kind(p) = "takedown" /\ n = r
  BY AppliedRows
<1>3. Kind(p) \in {"publish", "withdraw", "takedown", "restore"} /\ Busy(p)
  BY <1>2 DEF Is, Rights
<1>4. /\ Target(Kind(p)) = "published" => Kind(p) = "publish"
      /\ Target(Kind(p)) = "unpublished" => Kind(p) = "withdraw"
      /\ Target(Kind(p)) = "takedown" => Kind(p) = "takedown"
  BY <1>3 DEF Target
<1>5. /\ Kind(p) = "publish" =>
           /\ r \in Article /\ article[r].novel \in Novel
           /\ txn[p].seen \in ArticleRow
           /\ held[p] \cap Article = {r}
           /\ held[p] \cap Novel \subseteq {txn[p].seen.novel}
      /\ Kind(p) \in Rights =>
           r \in Novel /\ held[p] \cap Novel = {r} /\ txn[p].todo = {}
  BY <1>1, <1>3, HeldAtCommit, JobTypes DEF Is
<1>6. Dates'
  <2> SUFFICES ASSUME NEW a \in Article, a \in held[p]
               PROVE  /\ article'[a].status \in {"published", "unpublished"}
                           => article'[a].dated
                      /\ article'[a].status = "published" => article'[a].promo
                      /\ article[a].novel # NoOne
    BY <1>2 DEF GateInv, Dates, Apply
  <2>4. article[a].novel # NoOne
    <3>1. CASE Kind(p) = "publish"
      BY <1>5, <3>1, PublishGateAssumption
    <3>2. CASE Kind(p) \in Rights
      <4>1. article[a].novel = r \/ a \in crossed
        BY <1>1, <1>3, <3>2 DEF Good, Lists, Is
      <4> QED BY <1>5, <3>2, <4>1, PublishGateAssumption DEF GateInv, Dates
    <3> QED BY <1>3, <3>1, <3>2 DEF Rights
  <2>1. CASE Kind(p) = "publish"
    <3>1. a = r /\ article[a].promo
      BY <1>1, <1>3, <1>5, <2>1 DEF Good, Writes, Is
    <3> QED BY <1>2, <2>1, <2>4, <3>1 DEF PublishTime
  <2>2. CASE Kind(p) = "withdraw"
    <3>1. article[a].dated
      BY <1>1, <1>3, <2>2 DEF Good, Lists, Is, Rights
    <3> QED BY <1>2, <1>4, <2>2, <2>4, <3>1 DEF PublishTime
  <2>3. CASE Kind(p) \in {"takedown", "restore"}
    BY <1>2, <1>4, <2>3, <2>4
  <2> QED BY <1>3, <2>1, <2>2, <2>3
<1>7. Bodies'
  <2> SUFFICES ASSUME NEW n \in Novel, novel'[n] = "published"
               PROVE  chapters'[n] = "live" \/ <<n, "takedown">> \in returned'
    BY DEF Bodies
  <2>1. CASE n \in held[p]
    <3>1. Kind(p) = "publish" /\ n = txn[p].seen.novel /\ chapters'[n] = chapters[n]
      BY <1>2, <1>4, <1>5, <2>1
    <3>2. chapters[n] = "live" \/ "takedown" \in txn[p].since
      BY <1>1, <1>3, <3>1 DEF Good, Passed, Is
    <3>3. returned' = returned \cup (held[p] \X txn[p].since)
      BY <3>1 DEF Apply
    <3> QED BY <2>1, <3>1, <3>2, <3>3
  <2>2. CASE n \notin held[p]
    <3>1. novel[n] = "published" /\ chapters'[n] = chapters[n]
      BY <1>2, <1>5, <2>2 DEF Rights
    <3>2. returned \subseteq returned'
      BY DEF Apply
    <3> QED BY <3>1, <3>2 DEF GateInv, Bodies
  <2> QED BY <2>1, <2>2
<1>8. TakedownCovers'
  <2>1. /\ UNCHANGED <<crossed, drafted>>
        /\ \A n : ArticlesOf(n)' = ArticlesOf(n)
    BY <1>2 DEF Apply, ArticlesOf
  <2> SUFFICES ASSUME NEW n \in Novel, novel'[n] = "takedown",
                      NEW a \in ArticlesOf(n), a \notin crossed
               PROVE  \/ article'[a].status = "takedown"
                      \/ a \in drafted /\ article'[a].status = "draft"
    BY <2>1 DEF TakedownCovers
  <2>2. a \in Article /\ article[a].novel = n
    BY DEF ArticlesOf
  <2>3. CASE n \in held[p]
    <3>1. Kind(p) = "takedown" /\ n = r
      BY <1>2, <1>4, <1>5, <2>3 DEF Rights
    <3>2. a \in held[p]
      BY <1>1, <1>3, <1>5, <3>1 DEF Good, Lists, Is, Rights
    <3> QED BY <1>2, <2>2, <3>1, <3>2 DEF Target
  <2>4. CASE n \notin held[p]
    <3>1. novel[n] = "takedown"
      BY <1>2, <2>4
    <3>2. \/ article[a].status = "takedown"
          \/ a \in drafted /\ article[a].status = "draft"
      BY <3>1 DEF GateInv, TakedownCovers
    <3>3. a \notin held[p]
      <4>1. CASE Kind(p) = "publish"
        <5> SUFFICES ASSUME a = r PROVE FALSE
          BY <1>5, <2>2, <4>1
        <5>1. Is(p, {"publish"})
          BY <1>3, <4>1 DEF Is
        <5>2. ~Shelved(a)
          BY <1>1, <5>1 DEF Good, Stalled
        <5>3. article[a].status # "takedown"
          BY <1>1, <5>1 DEF Good, Writes, Passed
        <5> QED BY <2>2, <3>1, <3>2, <5>2, <5>3 DEF Shelved
      <4>2. CASE Kind(p) \in Rights
        <5>1. a \in held[p] => article[a].novel = r
          BY <1>1, <1>3, <2>2, <4>2 DEF Good, Lists, Is
        <5> QED BY <1>5, <2>2, <2>4, <4>2, <5>1
      <4> QED BY <1>3, <4>1, <4>2 DEF Rights
    <3> QED BY <1>2, <2>2, <3>2, <3>3
  <2> QED BY <2>3, <2>4
<1> QED BY <1>6, <1>7, <1>8

\* The ways a committed publication ends: dispatching, idle, or once more.
LEMMA CommitTells ==
  ASSUME GateInv, NEW p \in Proc, NEW x \in TxnRow, txn[p].at = "commit",
         Rest(p, x), x.at = "dispatch" => FirstPublish(p) /\ x.id = txn[p].id,
         lost \subseteq lost',
         FirstPublish(p) =>
           (x.at = "dispatch" /\ x.id = txn[p].id) \/ job(p).row \in lost'
  PROVE  Announcing'
<1> DEFINE r == job(p).row
<1>1. RowTypes /\ TxnTypes /\ Good(p) /\ Placed(p)
  BY DEF GateInv, Good
<1>2. /\ Is(p, {"publish"} \cup Rights)
      /\ \A a \in Article :
           IF a \in held[p]
           THEN article'[a].dated <=> PublishTime(Kind(p), article[a].dated)
           ELSE article'[a] = article[a]
  BY AppliedRows DEF Rest
<1>3. /\ txn'[p] = x
      /\ \A q \in Proc \ {p} : txn'[q].at = txn[q].at /\ txn'[q].id = txn[q].id
  BY Noted
<1>4. UNCHANGED <<announced, request>> /\ returned \subseteq returned'
  BY DEF Rest, Apply
<1>5. \A q \in Proc \ {p}, a \in Article : Dispatching(q, a)' <=> Dispatching(q, a)
  BY <1>3, <1>4 DEF Dispatching, job
<1>6. \A a \in Article : ~Dispatching(p, a)
  BY DEF Dispatching
<1>7. \A a \in Article : Dispatching(p, a)' => FirstPublish(p) /\ a = r
  BY <1>3, <1>4 DEF Dispatching, job
<1>8. \A a \in Article :
        FirstPublish(p) /\ a = r => Dispatching(p, a)' \/ a \in lost'
  BY <1>3, <1>4 DEF Dispatching, job
<1>9. ASSUME NEW q \in Proc, NEW a \in Article, Dispatching(q, a)
      PROVE  article[a].dated
  <2>1. RowTypes /\ Placed(q) /\ Good(q) /\ txn[q].at = "dispatch"
    BY <1>9 DEF GateInv, Good, Dispatching
  <2>2. Is(q, {"publish"})
    BY <2>1, KindAt DEF AtPublish
  <2> QED BY <1>9, <2>1, <2>2 DEF Good, Writes, Dispatching
<1> SUFFICES ASSUME NEW a \in Article PROVE Told(a)'
  BY DEF Announcing
<1>10. Told(a) /\ announced[a] \in Nat
  BY <1>1 DEF GateInv, Announcing, RowTypes
<1>11. article[a].dated => article'[a].dated
  BY <1>2 DEF PublishTime
<1>12. CASE FirstPublish(p) /\ a = r
  <2>1. Is(p, {"publish"}) /\ ~txn[p].seen.dated
    BY <1>2, <1>12 DEF FirstPublish, Is
  <2>2. r \in held[p] /\ article[r].status = txn[p].seen.status
    BY <1>1, <2>1 DEF Good, Writes
  <2>3. article'[a].dated
    BY <1>2, <1>12, <2>1, <2>2 DEF PublishTime, Is
  <2>4. \/ <<a, "restore">> \in returned'
        \/ ~article[a].dated
    <3>1. txn[p].seen.status = "draft"
      BY <1>1, <2>1 DEF Good, Reads, Passed, Is, ArticleRow, ArticleStatus
    <3>2. article[a].dated => "restore" \in txn[p].since
      BY <1>1, <1>12, <2>1, <2>2, <3>1 DEF Good, Reads
    <3>3. returned' = returned \cup (held[p] \X txn[p].since)
      BY <1>12 DEF Rest, Apply, FirstPublish
    <3> QED BY <1>12, <2>2, <3>2, <3>3
  <2>5. ~article[a].dated =>
          announced[a] = 0 /\ \A q \in Proc : ~Dispatching(q, a)
    BY <1>9, <1>10 DEF Told
  <2>6. a \in lost' \/ \E q \in Proc : Dispatching(q, a)'
    BY <1>8, <1>12
  <2>7. ~article[a].dated =>
          /\ announced[a] = 0
          /\ \A q \in Proc : Dispatching(q, a)' => q = p
    <3> SUFFICES ASSUME ~article[a].dated, NEW q \in Proc \ {p}
                 PROVE  announced[a] = 0 /\ ~Dispatching(q, a)'
      BY <2>5
    <3> QED BY <1>5, <2>5
  <2> QED BY <1>4, <2>3, <2>4, <2>6, <2>7 DEF Told
<1>13. CASE ~(FirstPublish(p) /\ a = r)
  <2>1. ~Dispatching(p, a)'
    BY <1>7, <1>13
  <2>2. article'[a].dated => article[a].dated
    <3>1. CASE a \notin held[p]
      BY <1>2, <3>1
    <3>2. CASE a \in held[p] /\ Kind(p) = "publish"
      <4>1. Is(p, {"publish"}) /\ a = r
        BY <1>2, <3>2, HeldAtCommit DEF Is
      <4> QED BY <1>1, <1>13, <3>2, <4>1 DEF FirstPublish, Good, Reads
    <3>3. CASE a \in held[p] /\ Kind(p) # "publish"
      BY <1>2, <3>3 DEF PublishTime
    <3> QED BY <3>1, <3>2, <3>3
  <2>3. \A q \in Proc : Dispatching(q, a)' <=> Dispatching(q, a)
    BY <1>5, <1>6, <2>1
  <2> QED BY <1>4, <1>10, <1>11, <2>2, <2>3 DEF Told
<1> QED BY <1>12, <1>13

LEMMA CommitKeeps ==
  ASSUME GateInv, NEW p \in Proc, Commit(p)
  PROVE  GateInv'
<1>1. RowTypes /\ TxnTypes /\ Good(p) /\ Placed(p) /\ txn[p].at = "commit"
  BY DEF GateInv, Good, Commit
<1>2. Apply(p) /\ RowTypes'
  BY AppliedRows DEF Commit
<1>3. CASE FirstPublish(p)
  <2> DEFINE x == [txn[p] EXCEPT !.at = "dispatch"]
  <2>1. /\ x \in TxnRow /\ x.at = "dispatch" /\ x.id = txn[p].id
        /\ x.seen = txn[p].seen
    BY <1>1 DEF TxnTypes, TxnRow, AtPublish
  <2>2. Rest(p, x) /\ lost' = lost
    BY <1>3 DEF Commit, Rest
  <2> HIDE DEF x
  <2>3. TxnTypes' /\ txn'[p] = x /\ held'[p] = {}
    BY <1>1, <2>1, <2>2, Noted
  <2>4. /\ UNCHANGED request
        /\ job(p)' = job(p) /\ Kind(p)' = Kind(p) /\ Busy(p)'
    BY <1>2, <2>1, <2>3 DEF Apply, job, Kind, Busy
  <2>5. Is(p, {"publish"}) /\ ~txn[p].seen.dated
    BY <1>1, <1>3 DEF FirstPublish, Is, Busy
  <2>6. /\ job(p).row \in Article /\ job(p).row \in held[p]
        /\ txn[p].seen \in ArticleRow
    BY <1>1, <2>5, HeldAtCommit
  <2>7. article'[job(p).row].status = "published" /\ article'[job(p).row].dated
    BY <1>1, <1>2, <2>5, <2>6, AppliedRows DEF Target, PublishTime, Is
  <2>8. Good(p)'
    <3>1. Placed(p)'
      BY <1>1, <2>1, <2>3, <2>4, <2>5 DEF Placed, Busy, Is, Steps, AtPublish
    <3>2. Reads(p)'
      BY <1>1, <2>1, <2>3, <2>4, <2>5, <2>6, <2>7 DEF Good, Reads
    <3>3. Passed(p)' /\ Writes(p)' /\ Lists(p)' /\ Moving(p)' /\ Stalled(p)'
      BY <2>1, <2>3, <2>4, <2>5, <2>7
         DEF Passed, Writes, Lists, Moving, Stalled, Shelved, Is, Rights
    <3> QED BY <3>1, <3>2, <3>3 DEF Good
  <2>9. \A q \in Proc : Good(q)'
    BY <1>1, <2>1, <2>2, <2>8, CommitOthers
  <2>10. Announcing'
    BY <1>1, <1>3, <2>1, <2>2, CommitTells
  <2> QED BY <1>1, <1>2, <2>3, <2>9, <2>10, CommitRows DEF GateInv
<1>4. CASE ~FirstPublish(p)
  <2>1. Rest(p, Idle) /\ lost' = lost /\ Idle.at # "dispatch"
    BY <1>4 DEF Commit, Rest, Idle, Fresh
  <2>2. TxnTypes' /\ txn'[p] = Idle /\ held'[p] = {}
    BY <1>1, <2>1, IdleRow, Noted
  <2>3. \A q \in Proc : Good(q)'
    BY <1>1, <1>2, <2>1, <2>2, IdleRow, IdleGood, CommitOthers
  <2>4. Announcing'
    BY <1>1, <1>4, <2>1, IdleRow, CommitTells
  <2> QED BY <1>1, <1>2, <2>2, <2>3, <2>4, CommitRows DEF GateInv
<1> QED BY <1>3, <1>4

LEMMA CommitUnansweredKeeps ==
  ASSUME GateInv, NEW p \in Proc, CommitUnanswered(p)
  PROVE  GateInv'
<1> DEFINE id == txn[p].id
           x == Begin(id)
<1>1. RowTypes /\ TxnTypes /\ Good(p) /\ Placed(p) /\ txn[p].at = "commit"
  BY DEF GateInv, Good, CommitUnanswered
<1>2. Apply(p) /\ RowTypes' /\ request' = request
  BY AppliedRows DEF CommitUnanswered, Apply
<1>3. id \in 1..Len(request') /\ x = Fresh(First(request'[id].kind), id)
  BY <1>1, <1>2 DEF Placed, Busy, Begin
<1>4. x \in TxnRow /\ x.at # "dispatch"
  BY <1>2, <1>3, Begun
<1>5. /\ Rest(p, x) /\ lost \subseteq lost'
      /\ FirstPublish(p) => job(p).row \in lost'
  BY DEF CommitUnanswered, Rest
<1> HIDE DEF x, id
<1>6. TxnTypes' /\ txn'[p] = x /\ held'[p] = {}
  BY <1>1, <1>4, <1>5, Noted
<1>7. Good(p)'
  BY <1>2, <1>3, <1>6, BegunGood
<1>8. \A q \in Proc : Good(q)'
  BY <1>1, <1>4, <1>5, <1>7, CommitOthers
<1>9. Announcing'
  BY <1>1, <1>4, <1>5, CommitTells
<1> QED BY <1>1, <1>2, <1>6, <1>8, <1>9, CommitRows DEF GateInv
-----------------------------------------------------------------------------
(* An article that moves, and chapters that arrive.                        *)
Moved(p) ==
  LET a == job(p).row
      n == job(p).to
      seen == txn[p].seen
  IN  /\ Free(a, p)
      /\ article[a].status = "published" => seen.promo
      /\ article' = [article EXCEPT ![a] = [@ EXCEPT !.novel = n, !.promo = seen.promo]]
      /\ crossed' = IF Crossing(a, n) THEN crossed \cup {a} ELSE crossed
      /\ Leave(p)
      /\ UNCHANGED <<novel, chapters, links, request, audited, announced, lost,
                     returned, drafted>>

LEMMA MovedRows ==
  ASSUME GateInv, NEW p \in Proc, txn[p].at = "move", Moved(p)
  PROVE  LET a == job(p).row
             n == job(p).to
         IN  /\ a \in Article /\ n \in Novel /\ article[a].novel \in Novel
             /\ \A q \in Proc : a \notin held[q]
             /\ RowTypes' /\ TxnTypes' /\ Good(p)' /\ txn'[p].at = "idle"
             /\ \A q \in Proc \ {p} : txn'[q] = txn[q] /\ held'[q] = held[q]
             /\ article'[a].status = article[a].status
             /\ article'[a].dated = article[a].dated
             /\ article'[a].novel = n /\ article'[a].promo = txn[p].seen.promo
             /\ \A b \in Article \ {a} : article'[b] = article[b]
<1> DEFINE a == job(p).row
           n == job(p).to
           promo == txn[p].seen.promo
           new == [article[a] EXCEPT !.novel = n, !.promo = promo]
<1>1. RowTypes /\ TxnTypes /\ Good(p) /\ Placed(p)
  BY DEF GateInv, Good
<1>2. Is(p, {"rebind"})
  BY <1>1, KindAt DEF AtRebind
<1>3. /\ a \in Article /\ n \in Novel /\ held[p] = {}
      /\ txn[p].seen \in ArticleRow /\ article[a].novel \in Novel
  BY <1>1, <1>2, JobTypes DEF Is, Good, Moving
<1>4. \A q \in Proc : a \notin held[q]
  BY <1>3 DEF Moved, Free
<1>5. article[a] \in ArticleRow /\ promo \in BOOLEAN
  BY <1>1, <1>3 DEF RowTypes, ArticleRow
<1>6. /\ article' = [article EXCEPT ![a] = new]
      /\ UNCHANGED <<novel, chapters, links, request, audited, announced>>
      /\ Leave(p)
  BY DEF Moved
<1> HIDE DEF n, promo
<1>7. /\ new \in ArticleRow /\ new.status = article[a].status
      /\ new.dated = article[a].dated /\ new.novel = n /\ new.promo = promo
  BY <1>3, <1>5 DEF ArticleRow
<1> HIDE DEF a, new
<1>8. /\ article' \in [Article -> ArticleRow] /\ article'[a] = new
      /\ \A b \in Article \ {a} : article'[b] = article[b]
  BY <1>1, <1>3, <1>6, <1>7 DEF RowTypes
<1>9. RowTypes'
  <2>1. \A b \in Article : article[b].novel # NoOne => article'[b].novel # NoOne
    BY <1>3, <1>7, <1>8, PublishGateAssumption DEF n
  <2> QED BY <1>1, <1>6, <1>8, <2>1 DEF RowTypes
<1>10. /\ TxnTypes' /\ Good(p)' /\ txn'[p].at = "idle"
       /\ \A q \in Proc \ {p} : txn'[q] = txn[q] /\ held'[q] = held[q]
  BY <1>1, <1>6, <1>9, Resets
<1> QED BY <1>3, <1>4, <1>7, <1>8, <1>9, <1>10 DEF a, n, promo

LEMMA MovedOthers ==
  ASSUME GateInv, NEW p \in Proc, txn[p].at = "move", Moved(p),
         NEW q \in Proc \ {p}
  PROVE  Good(q)'
<1> DEFINE a == job(p).row
           n == job(p).to
<1>1. RowTypes /\ TxnTypes /\ Good(q) /\ Placed(q)
  BY DEF GateInv, Good
<1>2. /\ a \in Article /\ a \notin held[q]
      /\ txn'[q] = txn[q] /\ held'[q] = held[q]
      /\ article'[a].status = article[a].status
      /\ article'[a].dated = article[a].dated /\ article'[a].novel = n
      /\ \A b \in Article \ {a} : article'[b] = article[b]
  BY MovedRows
<1>3. /\ UNCHANGED <<novel, chapters, request>>
      /\ crossed \subseteq crossed' /\ (Crossing(a, n) => a \in crossed')
  BY DEF Moved
<1>4. /\ Busy(q)' <=> Busy(q)
      /\ job(q)' = job(q) /\ Kind(q)' = Kind(q)
      /\ \A ks : Is(q, ks)' <=> Is(q, ks)
  BY <1>2, <1>3 DEF Busy, job, Kind, Is
<1>5. \A b \in Article : /\ article'[b].status = article[b].status
                         /\ article'[b].dated = article[b].dated
                         /\ b \in held[q] => article'[b] = article[b]
  BY <1>2
<1>6. Placed(q)' /\ Passed(q)' /\ Moving(q)'
  BY <1>1, <1>2, <1>3, <1>4 DEF Good, Placed, Passed, Moving
<1>7. Is(q, {"publish"}) => job(q).row \in Article
  BY <1>1, JobTypes DEF Is
<1>8. Reads(q)'
  BY <1>1, <1>2, <1>4, <1>5, <1>7 DEF Good, Reads
<1>9. Writes(q)'
  BY <1>1, <1>2, <1>3, <1>4, <1>5, <1>7 DEF Good, Writes
<1>10. ASSUME Is(q, Rights), txn[q].at \in {"novel_update", "articles", "commit"}
       PROVE  Lists(q)'
  <2> DEFINE m == job(q).row
             mine == txn[q].todo \cup (held[q] \cap Article)
  <2>1. /\ held[q] \cap Novel = IF txn[q].at = "novel_update" THEN {} ELSE {m}
        /\ txn[q].at = "commit" => txn[q].todo = {}
        /\ \A b \in mine : article[b].novel = m \/ b \in crossed
        /\ Kind(q) = "withdraw" => \A b \in mine : article[b].dated
        /\ Kind(q) = "takedown" => \A b \in ArticlesOf(m) : b \in mine \/ b \in crossed
    BY <1>1, <1>10 DEF Good, Lists
  <2>2. mine \subseteq Article
    BY <1>1 DEF TxnTypes, TxnRow
  <2>3. a \in txn[q].todo \/ n = m => a \in crossed'
    BY <1>3, <1>10 DEF Crossing, Listed, Is
  <2>4. \A b \in mine : article'[b].novel = m \/ b \in crossed'
    BY <1>2, <1>3, <2>1, <2>2, <2>3
  <2>5. Kind(q) = "takedown" =>
          \A b \in ArticlesOf(m)' : b \in mine \/ b \in crossed'
    <3> SUFFICES ASSUME Kind(q) = "takedown", NEW b \in Article, article'[b].novel = m
                 PROVE  b \in mine \/ b \in crossed'
      BY <1>4 DEF ArticlesOf
    <3>1. CASE b = a
      BY <1>2, <2>3, <3>1
    <3>2. CASE b # a
      BY <1>2, <1>3, <2>1, <3>2 DEF ArticlesOf
    <3> QED BY <3>1, <3>2
  <2>6. Kind(q) = "withdraw" => \A b \in mine : article'[b].dated
    BY <1>5, <2>1, <2>2
  <2> HIDE DEF a
  <2> QED BY <1>2, <1>4, <1>10, <2>1, <2>4, <2>5, <2>6 DEF Lists
<1>11. ~(Is(q, Rights) /\ txn[q].at \in {"novel_update", "articles", "commit"})
         => Lists(q)'
  BY <1>1, <1>2, <1>4 DEF Good, Lists
<1>12. Stalled(q)'
  <2> SUFFICES ASSUME Is(q, {"publish"}), Shelved(job(q).row)' PROVE Stalled(q)'
    BY <1>4 DEF Stalled
  <2>1. job(q).row # a
    <3> SUFFICES ASSUME job(q).row = a PROVE FALSE
      OBVIOUS
    <3>1. job(q)'.row = a
      BY <1>4
    <3>2. novel'[n] = "takedown" /\ a \notin crossed'
      BY <1>2, <3>1 DEF Shelved
    <3> QED BY <1>3, <3>2 DEF Crossing
  <2>2. article'[job(q).row] = article[job(q).row]
    BY <1>2, <1>7, <2>1
  <2>3. Shelved(job(q).row)
    BY <1>3, <1>4, <2>2 DEF Shelved
  <2> QED BY <1>1, <1>2, <1>4, <2>2, <2>3 DEF Good, Stalled
<1> QED BY <1>6, <1>8, <1>9, <1>10, <1>11, <1>12 DEF Good

LEMMA MovedKeeps ==
  ASSUME GateInv, NEW p \in Proc, txn[p].at = "move", Moved(p)
  PROVE  GateInv'
<1> DEFINE a == job(p).row
           n == job(p).to
<1>1. /\ a \in Article /\ n \in Novel /\ article[a].novel \in Novel
      /\ RowTypes' /\ TxnTypes' /\ Good(p)' /\ txn'[p].at = "idle"
      /\ \A q \in Proc \ {p} : txn'[q] = txn[q] /\ held'[q] = held[q]
      /\ article'[a].status = article[a].status
      /\ article'[a].dated = article[a].dated
      /\ article'[a].novel = n /\ article'[a].promo = txn[p].seen.promo
      /\ \A b \in Article \ {a} : article'[b] = article[b]
  BY MovedRows
<1>2. /\ article[a].status = "published" => txn[p].seen.promo
      /\ crossed \subseteq crossed' /\ (Crossing(a, n) => a \in crossed')
      /\ \A b \in crossed' : b \in crossed \/ b = a
      /\ UNCHANGED <<novel, chapters, request, announced, lost, returned, drafted>>
  BY DEF Moved
<1>3. \A q \in Proc : Good(q)'
  BY <1>1, MovedOthers
<1>4. Dates' /\ Bodies'
  BY <1>1, <1>2, PublishGateAssumption DEF GateInv, Dates, Bodies
<1>5. TakedownCovers'
  <2> SUFFICES ASSUME NEW m \in Novel, novel[m] = "takedown",
                      NEW b \in Article, article'[b].novel = m
               PROVE  \/ article'[b].status = "takedown" \/ b \in crossed'
                      \/ b \in drafted' /\ article'[b].status = "draft"
    BY <1>2 DEF TakedownCovers, ArticlesOf
  <2>1. CASE b = a
    BY <1>1, <1>2, <2>1 DEF Crossing
  <2>2. CASE b # a
    BY <1>1, <1>2, <2>2 DEF GateInv, TakedownCovers, ArticlesOf
  <2> QED BY <2>1, <2>2
<1>6. Announcing'
  <2>1. \A q \in Proc, b \in Article : Dispatching(q, b)' <=> Dispatching(q, b)
    BY <1>1, <1>2 DEF Dispatching, job
  <2>2. \A b \in Article : article'[b].dated = article[b].dated
    BY <1>1
  <2> QED BY <1>2, <2>1, <2>2 DEF GateInv, Announcing, Told
<1> QED BY <1>1, <1>3, <1>4, <1>5, <1>6 DEF GateInv

LEMMA MoveKeeps ==
  ASSUME GateInv, NEW p \in Proc, Move(p)
  PROVE  GateInv'
<1>1. txn[p].at = "move" /\ RowTypes /\ TxnTypes
  BY DEF Move, GateInv
<1>2. CASE UNCHANGED <<article, crossed>>
  <2>1. /\ Leave(p) /\ txn[p].at # "dispatch"
        /\ UNCHANGED <<rows, request, audited, announced, history>>
    BY <1>1, <1>2 DEF Move, rows, history
  <2>2. Silent(p)
    BY <1>1, <2>1, Leaves
  <2>3. Announcing'
    BY <2>2, SilentAnnounces
  <2>4. Quiet(p)
    BY <2>2 DEF Silent
  <2> QED BY <2>3, <2>4, QuietKeeps DEF GateInv
<1>3. CASE Moved(p)
  BY <1>1, <1>3, MovedKeeps
<1> QED BY <1>2, <1>3 DEF Move, Moved

LEMMA MaterializeKeeps ==
  ASSUME GateInv, NEW n \in Novel, Materialize(n)
  PROVE  GateInv'
<1>1. /\ chapters[n] = "none" /\ chapters' = [chapters EXCEPT ![n] = "live"]
      /\ UNCHANGED <<article, novel, links, request, txn, held, audited,
                     announced, lost, returned, crossed, drafted>>
  BY DEF Materialize, history
<1>2. RowTypes' /\ TxnTypes'
  BY <1>1 DEF GateInv, RowTypes, TxnTypes
<1>3. \A m \in Novel : chapters[m] = "live" => chapters'[m] = "live"
  BY <1>1 DEF GateInv, RowTypes
<1>4. ASSUME NEW q \in Proc
      PROVE  Good(q)'
  <2>1. /\ Good(q) /\ Placed(q)' /\ Reads(q)' /\ Writes(q)' /\ Moving(q)'
        /\ Stalled(q)'
    BY <1>1 DEF GateInv, Good, Placed, Reads, Writes, Moving, Stalled, Shelved,
                Is, Busy, job, Kind
  <2>2. Lists(q)'
    BY <1>1, <2>1 DEF Good, Lists, Is, Busy, job, Kind, ArticlesOf
  <2>3. Passed(q)'
    <3> SUFFICES ASSUME Is(q, {"publish"}),
                   txn[q].at \in {"replay", "article_write", "novel_write", "commit"}
                 PROVE  Passed(q)'
      BY <1>1 DEF Passed, Is, Busy, job, Kind
    <3>1. txn[q].seen.novel \in Novel
      BY <2>1 DEF Good, Reads
    <3> QED BY <1>1, <1>3, <2>1, <3>1 DEF Good, Passed
  <2> QED BY <2>1, <2>2, <2>3 DEF Good
<1>5. Dates' /\ Bodies' /\ TakedownCovers' /\ Announcing'
  BY <1>1, <1>3 DEF GateInv, Dates, Bodies, TakedownCovers, ArticlesOf,
                    Announcing, Told, Dispatching, job
<1> QED BY <1>2, <1>4, <1>5 DEF GateInv

LEMMA GenerateKeeps ==
  ASSUME GateInv, NEW a \in Article, NEW n \in Novel, Generate(a, n)
  PROVE  GateInv'
<1>1. /\ article[a].novel = NoOne
      /\ article' = [article EXCEPT ![a] = [@ EXCEPT !.novel = n]]
      /\ crossed' = IF Listed(a, n) THEN crossed \cup {a} ELSE crossed
      /\ drafted' = IF novel[n] = "takedown" THEN drafted \cup {a} ELSE drafted
      /\ UNCHANGED <<novel, chapters, links, request, txn, held, audited,
                     announced, lost, returned>>
  BY DEF Generate
<1> DEFINE new == [article[a] EXCEPT !.novel = n]
<1>2. /\ new \in ArticleRow /\ new.novel = n /\ new.status = article[a].status
      /\ new.dated = article[a].dated /\ new.promo = article[a].promo
  BY DEF GateInv, RowTypes, ArticleRow
<1> HIDE DEF new
<1>3. /\ article' \in [Article -> ArticleRow] /\ article'[a] = new
      /\ \A b \in Article \ {a} : article'[b] = article[b]
  BY <1>1, <1>2 DEF GateInv, RowTypes, new
<1>4. n # NoOne /\ article[a].status = "draft" /\ a \notin crossed
  BY <1>1, PublishGateAssumption DEF GateInv, Dates
<1>5. RowTypes' /\ TxnTypes'
  <2>1. \A b \in Article : article[b].novel # NoOne => article'[b].novel # NoOne
    BY <1>2, <1>3, <1>4
  <2> QED BY <1>1, <1>3, <2>1 DEF GateInv, RowTypes, TxnTypes
<1>6. ASSUME NEW q \in Proc
      PROVE  Good(q)'
  <2> USE <1>1
  <2>1. RowTypes /\ TxnTypes /\ Good(q) /\ Placed(q)
    BY DEF GateInv, Good
  <2>2. /\ Busy(q)' <=> Busy(q)
        /\ job(q)' = job(q) /\ Kind(q)' = Kind(q)
        /\ \A ks : Is(q, ks)' <=> Is(q, ks)
    BY DEF Busy, job, Kind, Is
  <2>3. /\ Is(q, {"publish"}) => job(q).row \in Article /\ job(q).row # a
    BY <2>1, JobTypes, PublishGateAssumption DEF Is
  <2>4. Placed(q)' /\ Passed(q)' /\ Moving(q)'
    BY <2>1, <2>2 DEF Good, Placed, Passed, Moving
  <2>5. Reads(q)' /\ Writes(q)'
    BY <1>3, <2>1, <2>2, <2>3 DEF Good, Reads, Writes
  <2>6. Stalled(q)'
    BY <1>3, <2>1, <2>2, <2>3 DEF Good, Stalled, Shelved
  <2>7. ASSUME Is(q, Rights), txn[q].at \in {"novel_update", "articles", "commit"}
        PROVE  Lists(q)'
    <3> DEFINE m == job(q).row
               mine == txn[q].todo \cup (held[q] \cap Article)
    <3>1. /\ held[q] \cap Novel = IF txn[q].at = "novel_update" THEN {} ELSE {m}
          /\ txn[q].at = "commit" => txn[q].todo = {}
          /\ \A b \in mine : article[b].novel = m \/ b \in crossed
          /\ Kind(q) = "withdraw" => \A b \in mine : article[b].dated
          /\ Kind(q) = "takedown" => \A b \in ArticlesOf(m) : b \in mine \/ b \in crossed
      BY <2>1, <2>7 DEF Good, Lists
    <3>2. mine \subseteq Article /\ m \in Novel
      BY <2>1, <2>7, JobTypes DEF TxnTypes, TxnRow, Is
    <3>3. a \notin mine
      BY <1>4, <3>1, <3>2, PublishGateAssumption
    <3>4. n = m => a \in crossed'
      BY <2>7 DEF Listed, Is
    <3>5. \A b \in mine : article'[b] = article[b]
      BY <1>3, <3>2, <3>3
    <3>6. Kind(q) = "takedown" =>
            \A b \in ArticlesOf(m)' : b \in mine \/ b \in crossed'
      <4> SUFFICES ASSUME Kind(q) = "takedown", NEW b \in Article,
                          article'[b].novel = m
                   PROVE  b \in mine \/ b \in crossed'
        BY <2>2 DEF ArticlesOf
      <4>1. CASE b = a
        BY <1>2, <1>3, <3>4, <4>1
      <4>2. CASE b # a
        BY <1>3, <3>1, <4>2 DEF ArticlesOf
      <4> QED BY <4>1, <4>2
    <3>7. \A b \in mine : article'[b].novel = m \/ b \in crossed'
      BY <3>1, <3>5
    <3> QED BY <2>2, <2>7, <3>1, <3>5, <3>6, <3>7 DEF Lists
  <2>8. ~(Is(q, Rights) /\ txn[q].at \in {"novel_update", "articles", "commit"})
          => Lists(q)'
    BY <2>1, <2>2 DEF Good, Lists
  <2> QED BY <2>4, <2>5, <2>6, <2>7, <2>8 DEF Good
<1>7. Dates' /\ Bodies'
  BY <1>1, <1>2, <1>3, <1>4 DEF GateInv, Dates, Bodies
<1>8. TakedownCovers'
  <2> SUFFICES ASSUME NEW m \in Novel, novel[m] = "takedown",
                      NEW b \in Article, article'[b].novel = m
               PROVE  \/ article'[b].status = "takedown" \/ b \in crossed'
                      \/ b \in drafted' /\ article'[b].status = "draft"
    BY <1>1 DEF TakedownCovers, ArticlesOf
  <2>1. CASE b = a
    BY <1>1, <1>2, <1>3, <1>4, <2>1
  <2>2. CASE b # a
    BY <1>1, <1>3, <2>2 DEF GateInv, TakedownCovers, ArticlesOf
  <2> QED BY <2>1, <2>2
<1>9. Announcing'
  <2>1. \A q \in Proc, b \in Article : Dispatching(q, b)' <=> Dispatching(q, b)
    BY <1>1 DEF Dispatching, job
  <2>2. \A b \in Article : article'[b].dated = article[b].dated
    BY <1>2, <1>3
  <2> QED BY <1>1, <2>1, <2>2 DEF GateInv, Announcing, Told
<1> QED BY <1>5, <1>6, <1>7, <1>8, <1>9 DEF GateInv
-----------------------------------------------------------------------------
LEMMA InitGate == Init => GateInv
<1> SUFFICES ASSUME Init PROVE GateInv
  OBVIOUS
<1>1. RowTypes
  <2>1. \A n \in {Home, NoOne} :
          [status |-> "draft", novel |-> n, promo |-> TRUE, dated |-> FALSE]
            \in ArticleRow
    BY PublishGateAssumption DEF ArticleRow, ArticleStatus
  <2>2. article \in [Article -> ArticleRow] /\ novel \in [Novel -> ArticleStatus]
    BY <2>1 DEF Init, ArticleStatus
  <2>3. request \in Seq(Job) /\ announced \in [Article -> Nat] /\ Len(request) = 0
    BY DEF Init
  <2> QED BY <2>2, <2>3 DEF Init, RowTypes
<1>2. TxnTypes
  BY IdleRow DEF Init, TxnTypes
<1>3. ASSUME NEW p \in Proc
      PROVE  Good(p)
  <2>1. txn[p].at = "idle" /\ txn[p].id = 0 /\ held[p] = {} /\ Len(request) = 0
    BY DEF Init, Idle, Fresh
  <2> QED BY <2>1 DEF Good, Placed, Reads, Passed, Writes, Lists, Moving, Stalled,
                      Is, Busy
<1>4. Dates /\ Bodies /\ Announcing /\ TakedownCovers
  BY DEF Init, Dates, Bodies, Announcing, Told, TakedownCovers, Dispatching, Idle, Fresh
<1> QED BY <1>1, <1>2, <1>3, <1>4 DEF GateInv

\* A stutter is quiet.
LEMMA StutterGate ==
  ASSUME GateInv, UNCHANGED vars
  PROVE  GateInv'
<1> USE DEF vars, rows, history
<1>1. RowTypes' /\ TxnTypes'
  BY DEF GateInv, RowTypes, TxnTypes
<1>2. ASSUME NEW p \in Proc
      PROVE  Good(p)'
  <2>1. Good(p)
    BY DEF GateInv
  <2> QED BY <2>1 DEF Good, Placed, Reads, Passed, Writes, Lists, Moving, Stalled,
                      Shelved, Is, Busy, job, Kind, ArticlesOf
<1>3. Dates' /\ Bodies' /\ Announcing' /\ TakedownCovers'
  BY DEF GateInv, Dates, Bodies, Announcing, Told, TakedownCovers, Dispatching,
         job, ArticlesOf
<1> QED BY <1>1, <1>2, <1>3 DEF GateInv

\* Most steps are silent, a crash and the end of a dispatch are quiet.
LEMMA SmallSteps ==
  ASSUME GateInv, NEW p \in Proc,
         \/ Send(p) \/ SendAgain(p) \/ Publish(p) \/ Transition(p)
         \/ Guards(p) \/ Victim(p) \/ Retry(p) \/ Crash(p) \/ DispatchFails(p)
  PROVE  Quiet(p) /\ Announcing'
<1>1. CASE \/ Send(p) \/ SendAgain(p) \/ (Publish(p) /\ ~Dispatch(p))
           \/ Transition(p) \/ Guards(p) \/ Victim(p) \/ Retry(p)
  <2>1. Silent(p)
    BY <1>1, SendQuiet, SendAgainQuiet, ReadArticleQuiet, ReadNovelQuiet,
       GateQuiet, ReplayQuiet, WriteArticleQuiet, WriteNovelQuiet,
       FindAuditQuiet, ReadSourceQuiet, ReadAffectedQuiet, UpdateNovelQuiet,
       UpdateArticleQuiet, GuardsQuiet, VictimQuiet, RetryQuiet
       DEF Publish, Transition
  <2>2. Announcing'
    BY <2>1, SilentAnnounces
  <2> QED BY <2>1, <2>2 DEF Silent
<1>2. CASE Dispatch(p)
  BY <1>2, DispatchQuiet, DispatchAnnounces
<1>3. CASE Crash(p) \/ DispatchFails(p)
  BY <1>3, CrashQuiet, DispatchFailsQuiet, LostAnnounces
<1> QED BY <1>1, <1>2, <1>3

LEMMA StepCases ==
  ASSUME Next
  PROVE  \/ \E p \in Proc :
              \/ Send(p) \/ SendAgain(p) \/ Publish(p) \/ Transition(p)
              \/ Guards(p) \/ Victim(p) \/ Retry(p) \/ Crash(p) \/ DispatchFails(p)
         \/ \E p \in Proc : Commit(p)
         \/ \E p \in Proc : CommitUnanswered(p)
         \/ \E p \in Proc : Move(p)
         \/ \E n \in Novel : Materialize(n) \/ \E a \in Article : Generate(a, n)
BY DEF Next, Work

LEMMA StepGate ==
  ASSUME GateInv, [Next]_vars
  PROVE  GateInv'
<1>1. ASSUME NEW p \in Proc,
             \/ Send(p) \/ SendAgain(p) \/ Publish(p) \/ Transition(p)
             \/ Guards(p) \/ Victim(p) \/ Retry(p) \/ Crash(p) \/ DispatchFails(p)
      PROVE  GateInv'
  <2>1. Quiet(p) /\ Announcing'
    BY <1>1, SmallSteps
  <2> QED BY <2>1, QuietKeeps DEF GateInv
<1>2. CASE Next
  BY <1>1, <1>2, StepCases, CommitKeeps, CommitUnansweredKeeps, MoveKeeps,
     MaterializeKeeps, GenerateKeeps
<1>3. CASE UNCHANGED vars
  BY <1>3, StutterGate
<1> QED BY <1>2, <1>3

(* The inductive invariant: what every open transaction of a publication,  *)
(* a rights transition or a rebind may rely on at each of its statements,  *)
(* and what the rows say of each other, articles that are generated under  *)
(* a takedown included (applyPublishTransition, runRebindTransactional-    *)
(* Write, applyNovelRightsTransition, generateArticleFromNovel).           *)
THEOREM GateInvariant == Spec => []GateInv
<1>1. GateInv /\ [Next]_vars => GateInv'
  BY StepGate
<1> QED BY <1>1, InitGate, PTL DEF Spec

LEMMA GateTypes == GateInv => TypeOK
<1> SUFFICES ASSUME GateInv PROVE TypeOK
  OBVIOUS
<1>1. \A id \in DOMAIN request : request[id] \in Job
  BY DEF GateInv, RowTypes
<1>2. \A p \in Proc : txn[p].id \in 0..Len(request)
  BY DEF GateInv, Good, Placed
<1> QED BY <1>1, <1>2 DEF GateInv, RowTypes, TxnTypes, Dates, TypeOK

(* However publications, rights transitions and rebinds interleave, a      *)
(* published novel has its preview chapters, unless a takedown overtook    *)
(* the publication that published it (evaluatePublishGate, long before the *)
(* conditional writes of applyPublishTransition).                          *)
THEOREM PublicAlwaysCovered == Spec => []PublicHasBody
<1>1. GateInv => PublicHasBody
  BY GateTypes DEF GateInv, Bodies, PublicHasBody
<1> QED BY <1>1, GateInvariant, PTL

(* An article's first publication is announced once, however often         *)
(* requests were retried or sent again (dispatchFirstPublicPublication     *)
(* after the commit of applyPublishTransition), unless its dispatch failed *)
(* or was lost.                                                            *)
THEOREM FirstIsAnnouncedOnce == Spec => []AnnouncedOnce
<1>1. GateInv => AnnouncedOnce
  <2> SUFFICES ASSUME GateInv, NEW a \in Article
               PROVE  /\ announced[a] > 1 => <<a, "restore">> \in returned
                      /\ article[a].dated =>
                           \/ announced[a] > 0 \/ a \in lost
                           \/ \E p \in Proc : txn[p].at = "dispatch" /\ job(p).row = a
    BY DEF AnnouncedOnce
  <2>1. Told(a) /\ announced[a] \in Nat
    BY DEF GateInv, Announcing, RowTypes
  <2> QED BY <2>1 DEF Told, Dispatching
<1> QED BY <1>1, GateInvariant, PTL

(* A takedown covers every article of its novel but those that were moved  *)
(* or inserted under a rights transition (applyNovelRightsTransition lists *)
(* the articles first and writes them by id); one that is generated for a  *)
(* novel already taken down (generateArticleFromNovel) stays a draft.      *)
THEOREM TakedownsCover == Spec => []TakedownCovers
<1>1. GateInv => TakedownCovers
  BY DEF GateInv
<1> QED BY <1>1, GateInvariant, PTL

LEMMA StepPublishes ==
  ASSUME GateInv, [Next]_vars
  PROVE  /\ \A n \in Novel : novel[n] = "takedown" => novel'[n] # "published"
         /\ \A a \in Article : article[a].status = "takedown" =>
                                 article'[a].status # "published"
<1> DEFINE Kept == /\ \A n \in Novel : novel[n] = "takedown" => novel'[n] # "published"
                   /\ \A a \in Article : article[a].status = "takedown" =>
                                           article'[a].status # "published"
<1>1. ASSUME UNCHANGED <<article, novel>>
      PROVE  Kept
  BY <1>1
<1>2. ASSUME NEW p \in Proc, txn[p].at = "commit", Apply(p)
      PROVE  Kept
  <2>1. Good(p)
    BY DEF GateInv
  <2>2. /\ Is(p, {"publish"} \cup Rights)
        /\ \A n \in Novel :
             novel'[n] = IF n \in held[p] THEN Target(Kind(p)) ELSE novel[n]
        /\ \A a \in Article :
             IF a \in held[p] THEN article'[a].status = Target(Kind(p))
                              ELSE article'[a] = article[a]
    BY <1>2, AppliedRows
  <2>3. CASE Is(p, {"publish"})
    <3>1. /\ held[p] \cap Article = {job(p).row}
          /\ held[p] \cap Novel \subseteq {txn[p].seen.novel}
          /\ job(p).row \in held[p]
          /\ article[job(p).row].status = txn[p].seen.status
          /\ txn[p].seen.novel \in held[p] =>
               novel[txn[p].seen.novel] = txn[p].novelSeen
          /\ txn[p].seen.status # "takedown" /\ txn[p].novelSeen # "takedown"
      BY <1>2, <2>1, <2>3, HeldAtCommit DEF Good, Writes, Passed
    <3> QED BY <2>2, <3>1
  <2>4. CASE Is(p, Rights)
    <3>1. Target(Kind(p)) # "published"
      BY <2>4 DEF Is, Rights, Target
    <3> QED BY <2>2, <3>1
  <2> QED BY <2>2, <2>3, <2>4 DEF Is
<1>3. ASSUME NEW p \in Proc, Move(p)
      PROVE  Kept
  <2>1. CASE UNCHANGED article
    BY <1>1, <1>3, <2>1 DEF Move
  <2>2. CASE Moved(p)
    <3>1. /\ \A a \in Article : article'[a].status = article[a].status
          /\ novel' = novel
      BY <1>3, <2>2, MovedRows DEF Move
    <3> QED BY <3>1
  <2> QED BY <1>3, <2>1, <2>2 DEF Move, Moved
<1>4. ASSUME NEW p \in Proc,
             \/ Send(p) \/ SendAgain(p) \/ Publish(p) \/ Transition(p)
             \/ Guards(p) \/ Victim(p) \/ Retry(p) \/ Crash(p) \/ DispatchFails(p)
      PROVE  Kept
  <2>1. UNCHANGED <<article, novel>>
    BY <1>4, SmallSteps DEF Quiet, Frame
  <2> QED BY <1>1, <2>1
<1>5. CASE Next
  <2>1. ASSUME NEW n \in Novel, Materialize(n)
        PROVE  Kept
    BY <1>1, <2>1 DEF Materialize
  <2>3. ASSUME NEW n \in Novel, NEW a \in Article, Generate(a, n)
        PROVE  Kept
    <3>1. /\ article' = [article EXCEPT ![a] = [@ EXCEPT !.novel = n]]
          /\ novel' = novel /\ article \in [Article -> ArticleRow]
      BY <2>3 DEF Generate, GateInv, RowTypes
    <3>2. \A b \in Article : article'[b].status = article[b].status
      BY <3>1 DEF ArticleRow
    <3> QED BY <3>1, <3>2
  <2>2. ASSUME NEW p \in Proc, Commit(p) \/ CommitUnanswered(p)
        PROVE  Kept
    BY <1>2, <2>2 DEF Commit, CommitUnanswered
  <2> QED BY <1>3, <1>4, <1>5, <2>1, <2>2, <2>3, StepCases
<1>6. CASE UNCHANGED vars
  BY <1>1, <1>6 DEF vars, rows
<1> QED BY <1>5, <1>6

(* No step turns a row from takedown into published: what a publication    *)
(* holds at its commit is as it was read, and the gate has seen that it    *)
(* was not taken down (applyPublishTransition's conditional updates).      *)
THEOREM TakedownsStand == Spec => NothingPublishedOverTakedown
<1>1. GateInv /\ [Next]_vars =>
        [/\ \A n \in Novel : novel[n] = "takedown" => novel'[n] # "published"
         /\ \A a \in Article : article[a].status = "takedown" =>
                                 article'[a].status # "published"]_vars
  BY StepPublishes
<1> QED BY <1>1, GateInvariant, PTL DEF Spec, NothingPublishedOverTakedown
=============================================================================
