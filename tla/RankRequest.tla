----------------------------- MODULE RankRequest -----------------------------
(***************************************************************************)
(* POST /rank (service/routes.py) for one user, while build_features       *)
(* rewrites the rows it reads.  A request asks Redis four times and scores *)
(* what it got; the job writes article rows one at a time, then the user's.*)
(* Nothing holds the two apart, and any row may expire in between.         *)
(*                                                                         *)
(* A row is the number of the run that wrote it, 0 when Redis has none or  *)
(* one that does not decode, which the loader treats alike.  systemd never *)
(* starts the unit of build_features twice, but a debugging run "is the    *)
(* same command a timer fires", and nothing in the job keeps it from going *)
(* beside one: Overlap says whether that is done.  Every article has an    *)
(* author of its own, so an article's number is its author's too.  Vectors *)
(* are not told apart: reading them is a step that may fail.  The booster  *)
(* is any function from an id to a score, because an id has one context    *)
(* per request.                                                            *)
(***************************************************************************)
EXTENDS Lists

CONSTANTS
  Articles,   \* how many articles there are
  Cap,        \* settings.max_candidates
  MaxPool,    \* bound: the longest list of candidates the orchestrator sends
  MaxRuns,    \* bound: how often build_features runs
  Overlap,    \* TRUE: build_features is also run beside a run of its timer
  Scores,     \* the scores of the model, numbered in their order
  Zero        \* the number of the score 0.0

Article == 1..Articles
JobRun == 1..MaxRuns
Written == 0..MaxRuns
NoAuthor == 0

ASSUME CountsAssumption ==
  Articles \in Nat /\ Cap \in Nat /\ MaxPool \in Nat /\ MaxRuns \in Nat
ASSUME OverlapAssumption == Overlap \in BOOLEAN
ASSUME ScoresAssumption == Scores \subseteq Nat /\ Zero \in Nat

VARIABLES
  loaded,      \* ModelState has a bundle
  articleRow,  \* rec:article_features:<id>
  userRow,     \* rec:user_features:<the user>
  catalog,     \* run -> the ids of FeatureRows.articles
  liked,       \* run -> the authors in the user's row
  job,         \* run -> what it writes: "articles", then "users"; else "idle"
  gen,         \* the runs so far
  unwritten,   \* run -> article rows that it has yet to write
  pc,          \* the request: its next step
  pool,        \* payload.candidates
  seenUser,    \* what loader.load has read
  seenRow,
  status,      \* of the response
  ranked       \* its body

model == loaded
store == <<articleRow, userRow>>
materializer == <<catalog, liked, job, gen, unwritten>>
request == <<pc, pool, seenUser, seenRow, status, ranked>>
vars == <<model, store, materializer, request>>

Pool == UNION {[1..n -> Article] : n \in 0..MaxPool}
RankedItem == [id : Article, score : Scores \cup {Zero}]

TypeOK ==
  /\ loaded \in BOOLEAN
  /\ articleRow \in [Article -> Written] /\ userRow \in Written
  /\ catalog \in [JobRun -> SUBSET Article] /\ liked \in [JobRun -> SUBSET Article]
  /\ job \in [JobRun -> {"idle", "articles", "users"}]
  /\ gen \in Written /\ unwritten \in [JobRun -> SUBSET Article]
  /\ pc \in {"user_row", "user_vector", "article_rows", "article_vectors", "score", "done"}
  /\ pool \in Pool
  /\ seenUser \in Written /\ seenRow \in [Article -> Written]
  /\ status \in {0, 200, 503}
  /\ ranked \in Seq(RankedItem)

Init ==
  /\ loaded = FALSE
  /\ articleRow = [a \in Article |-> 0] /\ userRow = 0
  /\ catalog = [g \in JobRun |-> {}] /\ liked = [g \in JobRun |-> {}]
  /\ job = [g \in JobRun |-> "idle"] /\ gen = 0
  /\ unwritten = [g \in JobRun |-> {}]
  /\ pc = "done" /\ pool = <<>>
  /\ seenUser = 0 /\ seenRow = [a \in Article |-> 0]
  /\ status = 0 /\ ranked = <<>>

-------------------------------------------------------------------------------
(* Around the request: the model, the job, the clock of Redis.             *)

(* The first reload that succeeds.  Later ones replace the bundle and never*)
(* remove it (RankingService), which no request can tell.                  *)
LoadModel ==
  /\ ~loaded
  /\ loaded' = TRUE
  /\ UNCHANGED <<store, materializer, request>>

(* OfflineFeatureBuilder.build: what the catalogue and ClickHouse say now. *)
(* The affinity fold drops articles whose author is not in the catalogue.  *)
(* Runs are numbered by this moment.                                       *)
Build ==
  /\ gen < MaxRuns
  /\ Overlap \/ \A g \in JobRun : job[g] = "idle"
  /\ \E c \in (SUBSET Article) \ {{}} : \E l \in SUBSET c :
       /\ catalog' = [catalog EXCEPT ![gen + 1] = c]
       /\ liked' = [liked EXCEPT ![gen + 1] = l]
       /\ unwritten' = [unwritten EXCEPT ![gen + 1] = c]
  /\ gen' = gen + 1
  /\ job' = [job EXCEPT ![gen + 1] = "articles"]
  /\ UNCHANGED <<model, store, request>>

(* One SET of the pipeline in set_article_features, which is not a MULTI.  *)
WriteArticleRow(g, a) ==
  /\ job[g] = "articles" /\ a \in unwritten[g]
  /\ articleRow' = [articleRow EXCEPT ![a] = g]
  /\ unwritten' = [unwritten EXCEPT ![g] = @ \ {a}]
  /\ UNCHANGED <<model, userRow, catalog, liked, job, gen, request>>

\* Mutant of ArticleRowsWritten: user rows do not wait for the article rows.
ArticleRowsAssumed(g) ==
  /\ job[g] = "articles"
  /\ job' = [job EXCEPT ![g] = "users"]
  /\ unwritten' = [unwritten EXCEPT ![g] = {}]
  /\ UNCHANGED <<model, store, catalog, liked, gen, request>>

ArticleRowsWritten(g) ==
  /\ job[g] = "articles" /\ unwritten[g] = {}
  /\ job' = [job EXCEPT ![g] = "users"]
  /\ UNCHANGED <<model, store, catalog, liked, gen, unwritten, request>>

(* set_user_features.  A user without events is not among the rows, and    *)
(* keeps the one there was; a user with an affinity is.                    *)
WriteUserRow(g) ==
  /\ job[g] = "users"
  /\ \/ userRow' = g
     \/ liked[g] = {} /\ UNCHANGED userRow
  /\ job' = [job EXCEPT ![g] = "idle"]
  /\ UNCHANGED <<model, articleRow, catalog, liked, gen, unwritten, request>>

(* Redis fails or the process is killed; what is written stays.            *)
BuildFails(g) ==
  /\ job[g] # "idle"
  /\ job' = [job EXCEPT ![g] = "idle"]
  /\ unwritten' = [unwritten EXCEPT ![g] = {}]
  /\ UNCHANGED <<model, store, catalog, liked, gen, request>>

(* features_ttl_seconds after it was written, or Redis evicts it.          *)
ArticleRowExpires(a) ==
  /\ articleRow[a] # 0
  /\ articleRow' = [articleRow EXCEPT ![a] = 0]
  /\ UNCHANGED <<model, userRow, materializer, request>>

UserRowExpires ==
  /\ userRow # 0
  /\ userRow' = 0
  /\ UNCHANGED <<model, articleRow, materializer, request>>

-------------------------------------------------------------------------------
(* The request.                                                            *)

candidates == SubSeq(pool, 1, IF Len(pool) < Cap THEN Len(pool) ELSE Cap)
overflow == SubSeq(pool, Cap + 1, Len(pool))

Outside == <<model, store, materializer>>

(* An empty pool needs no model; without a model there is nothing to await.*)
Receive ==
  /\ pc = "done"
  /\ \E p \in Pool :
       /\ pool' = p
       /\ pc' = IF p = <<>> \/ ~loaded THEN "done" ELSE "user_row"
       /\ status' = IF p = <<>> THEN 200 ELSE IF ~loaded THEN 503 ELSE 0
  /\ ranked' = <<>>
  /\ seenUser' = 0 /\ seenRow' = [a \in Article |-> 0]
  /\ UNCHANGED Outside

ReadUserRow ==
  /\ pc = "user_row"
  /\ seenUser' = userRow
  /\ pc' = "user_vector"
  /\ UNCHANGED <<Outside, pool, seenRow, status, ranked>>

ReadUserVector ==
  /\ pc = "user_vector"
  /\ pc' = "article_rows"
  /\ UNCHANGED <<Outside, pool, seenUser, seenRow, status, ranked>>

(* One MGET: the rows are read at one moment.                              *)
ReadArticleRows ==
  /\ pc = "article_rows"
  /\ seenRow' = [a \in Article |-> IF \E i \in DOMAIN candidates : candidates[i] = a
                                   THEN articleRow[a] ELSE 0]
  /\ pc' = "article_vectors"
  /\ UNCHANGED <<Outside, pool, seenUser, status, ranked>>

ReadArticleVectors ==
  /\ pc = "article_vectors"
  /\ pc' = "score"
  /\ UNCHANGED <<Outside, pool, seenUser, seenRow, status, ranked>>

(* except RedisError, around all four.                                     *)
StoreFails ==
  /\ pc \in {"user_row", "user_vector", "article_rows", "article_vectors"}
  /\ pc' = "done" /\ status' = 503
  /\ UNCHANGED <<Outside, pool, seenUser, seenRow, ranked>>

Scored(score) == [i \in DOMAIN candidates |-> score[candidates[i]]]

\* Mutant of Ordered: a candidate without a row is left out.
OrderedKnown(score) ==
  SelectSeq([k \in DOMAIN candidates |->
               LET i == Order(Scored(score))[k]
               IN  [id |-> candidates[i], score |-> score[candidates[i]]]],
            LAMBDA item : seenRow[item.id] # 0)

(* sorted(..., reverse=True), which is stable.                             *)
Ordered(score) ==
  [k \in DOMAIN candidates |->
     LET i == Order(Scored(score))[k]
     IN  [id |-> candidates[i], score |-> score[candidates[i]]]]

\* Mutant of Appended: no score for what was not scored.
AppendedUnscored == [k \in DOMAIN overflow |-> [id |-> overflow[k]]]

(* What is past the cap, at the bottom.                                    *)
Appended == [k \in DOMAIN overflow |-> [id |-> overflow[k], score |-> Zero]]

(* From the matrix to the response there is no await.                      *)
Rank ==
  /\ pc = "score"
  /\ \E score \in [Article -> Scores] : ranked' = Ordered(score) \o Appended
  /\ pc' = "done" /\ status' = 200
  /\ UNCHANGED <<Outside, pool, seenUser, seenRow>>

-------------------------------------------------------------------------------
Next ==
  \/ LoadModel
  \/ Build
  \/ \E g \in JobRun : \/ \E a \in Article : WriteArticleRow(g, a)
                       \/ ArticleRowsWritten(g) \/ WriteUserRow(g) \/ BuildFails(g)
  \/ UserRowExpires \/ \E a \in Article : ArticleRowExpires(a)
  \/ Receive
  \/ ReadUserRow \/ ReadUserVector \/ ReadArticleRows \/ ReadArticleVectors \/ StoreFails
  \/ Rank

Spec == Init /\ [][Next]_vars

-------------------------------------------------------------------------------
(* build_row, reduced to the numbers that come from rows: the user's, the  *)
(* article's, and the one that needs both and the author.                  *)
AuthorAffinity(user, author) ==
  IF user # 0 /\ author # NoAuthor /\ author \in liked[user] THEN 1 ELSE 0

BuildRow(user, article, author) ==
  [user |-> user, article |-> article, affinity |-> AuthorAffinity(user, author)]

(* RedisFeatureLoader.load as routes.rank calls it: without authors.       *)
Online(a) == BuildRow(seenUser, seenRow[a], NoAuthor)

(* contexts_from_rows over the FeatureRows of run g.                       *)
Offline(g, a) == BuildRow(g, g, IF a \in catalog[g] THEN a ELSE NoAuthor)

-------------------------------------------------------------------------------
Occurrences(s, id) == Cardinality({i \in DOMAIN s : s[i] = id})

(* "Every id that comes in comes back out": a response has each candidate  *)
(* as often as the request had it, with or without a row, and those past   *)
(* the cap at the bottom, in their order.                                  *)
EveryCandidateBack ==
  status = 200 =>
    LET back == [k \in DOMAIN ranked |-> ranked[k].id]
    IN  /\ \A a \in Article : Occurrences(back, a) = Occurrences(pool, a)
        /\ SubSeq(back, Cap + 1, Len(back)) = overflow

(* The job writes articles before users and a request reads the user       *)
(* before the articles.  So, without any lock, as long as one run of the   *)
(* job goes at a time, the rows that are scored are never older than the   *)
(* run that described the user: at worst they are newer, or gone.          *)
UserRowNeverAhead ==
  pc \in {"article_vectors", "score"} =>
    \A i \in DOMAIN candidates :
      LET a == candidates[i]
      IN  seenUser # 0 /\ a \in catalog[seenUser] => seenRow[a] = 0 \/ seenRow[a] >= seenUser

(* The disorder that the cap may bring (routes.py:81,91), and no other: a  *)
(* later item has the higher score only if it is past the cap, where it    *)
(* got 0.0, and the earlier one was scored, below 0.0.                     *)
OnlyTheCapMisorders ==
  \A j, k \in DOMAIN ranked :
    j < k /\ ranked[j].score < ranked[k].score => j <= Cap /\ k > Cap /\ ranked[j].score < Zero

(* "In descending score order" (routes.py, header): of the whole response. *)
DescendingScores ==
  \A j, k \in DOMAIN ranked : j < k => ranked[j].score >= ranked[k].score

(* "Two loaders and they must produce identical rows" (features.py,        *)
(* header): where the request read rows of one run, it scores what a       *)
(* trainer would have been given for that run.                             *)
OnlineIsOffline ==
  pc = "score" =>
    \A i \in DOMAIN candidates :
      LET a == candidates[i]
      IN  seenUser # 0 /\ seenUser = seenRow[a] => Online(a) = Offline(seenUser, a)

-------------------------------------------------------------------------------
(* What makes UserRowNeverAhead inductive; proved in RankRequestProofs.    *)

(* No row comes from a run that has not begun, and no run goes on when the *)
(* next one has begun.                                                     *)
GenInv ==
  /\ \A a \in Article : articleRow[a] <= gen
  /\ userRow <= gen /\ seenUser <= gen
  /\ \A g \in JobRun : job[g] # "idle" => g = gen

NotOlder(g, row) == g # 0 => \A a \in catalog[g] : row[a] = 0 \/ row[a] >= g

(* What the run has written is there, or gone.                             *)
WriteInv ==
  \A g \in JobRun :
    /\ job[g] # "idle" => \A a \in catalog[g] \ unwritten[g] : articleRow[a] \in {0, g}
    /\ job[g] = "users" => unwritten[g] = {}

(* The user's row was written after the article rows of its run.           *)
UserInv == NotOlder(userRow, articleRow)

(* That stays so while the request is between its two reads, and after.    *)
SeenInv ==
  /\ pc \in {"user_vector", "article_rows"} => NotOlder(seenUser, articleRow)
  /\ pc \in {"article_vectors", "score"} => NotOlder(seenUser, seenRow)

StateTypes ==
  /\ articleRow \in [Article -> Written] /\ userRow \in Written
  /\ catalog \in [JobRun -> SUBSET Article]
  /\ job \in [JobRun -> {"idle", "articles", "users"}]
  /\ gen \in Written /\ unwritten \in [JobRun -> SUBSET Article]
  /\ seenUser \in Written /\ seenRow \in [Article -> Written]

IInv == StateTypes /\ GenInv /\ WriteInv /\ UserInv /\ SeenInv
==============================================================================
