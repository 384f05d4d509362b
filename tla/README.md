# explAIned-ml in TLA+

This directory is a verification development of the recommendation-loop half of explAIned that
lives in this repository: the ranking service (`service/`), the registry of models it follows
(`tracking.py`), and the six timed jobs (`jobs/`) that fill Redis and train the ranker. The
modules model the code, not its documentation; where a docstring, a log line or the README
promises something the code does not do, a run shows it and `PROJECT.json` quotes the line.

Line numbers refer to the files as they are in this commit. `s/` below stands for
`src/explained_ml/`.

## The system

| Part | State it keeps | Operations | Talks to |
|---|---|---|---|
| Ranking service `s/service/` | per uvicorn worker: the model bundle, an asyncio lock, gauges | `POST /rank`, `POST /reload-model`, `/health`, the model watcher, the freshness watcher, the lifespan | MLflow (reads the alias), Redis (reads rows, vectors, stamps) |
| Registry access `s/tracking.py` | none of its own; MLflow's versions, runs and the `champion` alias | `resolve_alias`, `promote`, `champion_metric` | MLflow |
| `jobs/train_lightgbm.py` | none between runs | train, log, register, compare, move the alias | ClickHouse, article service, MLflow |
| `jobs/embeddings.py` | Redis: article vectors, the fingerprints hash, a stamp | walk the listing, encode, write | article service, Redis |
| `jobs/update_trending.py` | Redis: one list with a TTL, a stamp | query, replace | ClickHouse, Redis |
| `jobs/train_als.py` | Redis: a list with a TTL per user, a stamp | query, fit, write lists | ClickHouse, Redis, MLflow |
| `jobs/build_features.py` | Redis: a row with a TTL per article and user, a stamp | query, write rows | ClickHouse, article service, Redis |
| `jobs/build_user_embeddings.py` | Redis: a vector per user, a stamp | query, read article vectors, write | ClickHouse, Redis |
| `packages/feature_store` | none | the order of features, the matrix, the signature check | - |
| the rest (`clickhouse.py`, `articles.py`, `identity.py`, `codec.py`, `encoders.py`, `scripts/`) | none | one HTTP call each, byte formats, developer tools | - |

Nothing in the repository shares memory between processes. The parts meet in three places: the
`champion` alias (written by the trainer, read by the service, possibly moved by an operator),
Redis keys (written by jobs, read by the service, the FAISS service and the C# orchestrator), and
the article listing (changing while it is paged). Within a ranking worker, tasks of one event loop
meet at `ModelState._lock`.

What is hard here, and what a correct system owes:

* **Model lifecycle.** `reload` awaits two threaded calls under a lock; `load` asks MLflow for the
  alias three times; every call can fail; promotion, watcher and `/reload-model` come in any order.
  Owed: a served model is one this code can feed, it is never lost to a failed reload, a
  replacement is never older, a promotion is picked up, every caller gets an answer.
* **Promotion.** Registering, logging, comparing and moving the alias are separate calls of
  processes that may overlap, fail half way or be killed. Owed: the champion is measured, is never
  replaced by a worse one, and is the best that was offered.
* **Training set.** Three queries of tables that keep growing, rows grouped, split and cut by position
  alone, metrics averaged over pages. Owed: a page is whole and on one side, the holdout is later, an
  article is not positive and negative at once, one scale for every page.
* **Embeddings.** An incremental walk stops early on the strength of an invariant of the catalogue;
  vectors and fingerprints are separate writes. Owed: an article that is skipped has the vector of
  its text; no article is forgotten.
* **Offline artifacts.** TTL against cadence, multi-command writes seen half done, runs that do
  nothing, exit codes, and stamps that vouch for data. Owed: no gaps, nothing stale for ever, no
  stamp that flatters.
* **`/rank`.** Four reads that are not one, while the rows are rewritten and expire; a cap. Owed: every
  candidate comes back; what is scored belongs together; online rows are those a trainer would see.

`PROJECT.json` lists every hazard at its line with the properties that watch it.

## Modules

| Module | Models |
|---|---|
| `AliasHistory` | the alias of the registry: the sequence of versions it has named |
| `ServedModel` | abstract: what a ranker process promises about its model |
| `RankingService` | `ModelState`, `MlflowModelLoader`, lifespan, watcher, `/reload-model` |
| `RankingServiceProofs` | theorems about it |
| `ModelPromotion` | `train_lightgbm` from its guards to the alias, `champion_metric`, `promote` |
| `ModelPromotionProofs` | theorems about it |
| `MCModelPromotion` | `ModelPromotion` for TLC: the symmetry of its runs |
| `RankerLifecycle` | `ModelPromotion` and `RankingService` around one alias |
| `RankerLifecycleProofs` | theorems about it |
| `TrainingSet` | `train_lightgbm.build` from its first query to its metrics; `ranking_metrics` |
| `TrainingSetProofs` | theorems about it |
| `Lists` | the entries of a list at some positions; a list cut into runs by a list of their lengths; totals; the stable order of a list by value, which the metrics and `/rank` share |
| `ListLemmas` | what those operators, and the community modules' `FlattenSeq`, `SetToSeqs` and `Max`, return; the rearrangement inequality |
| `EmbeddingsJob` | `jobs/embeddings.py`, the listing it walks, its three writes |
| `EmbeddingsFullRun` | the same with a history variable, for what a `--full` run owes |
| `EmbeddingsJobProofs` | theorems about both |
| `RankRequest` | `POST /rank`, `RedisFeatureLoader.load`, the two writes of `build_features` |
| `RankRequestProofs` | theorems about it |
| `OfflineArtifact` | one of `trending`, `als`, `features`, `user_embedding`: its job, Redis keys, TTLs, timer, stamp, gauge |
| `OfflineArtifactProofs` | theorems about it |

Each `.cfg` gives the constants of the module it is for. Every constant is a number, a flag or a set
of model values, so the only model-checking module is `MCModelPromotion`, for a symmetry. An operator whose
comment starts with "Mutant of" is a plausible bug, defined beside the operator it would replace;
nothing uses it.

### RankingService

`aliasLog` is the history of the alias, so "which version" (`aliasLog[i]`) and "how old" (`i`) are
both visible. `bundle[w]` is `_bundle`, recorded as the positions at which its three parts were
read: `label` (`state.py:139`), `booster` (`:141`), `sig` (`:142`). `queue[w]` is the FIFO
`asyncio.Lock`: holder first. `pc[w][t]` is where task `t` of worker `w` is inside `reload`:

| Action | Code |
|---|---|
| `Boot`, `Stop` | the process starts with a new `ModelState` and the lifespan's forced reload; it ends |
| `ReloadModel`, `WatchModel` | the two callers of `reload` while serving; they queue for the lock |
| `Missing` | `ModelUnavailable` from `current_version` or `load`: no alias, or the call failed |
| `Failed` | any other exception (`state.py:64-67`, `82-85`) |
| `Unchanged`, `StartLoad` | the version check (`state.py:69`) |
| `Resolve`, `LoadBooster`, `ReadNames`, `Mismatch` | the three reads of `load` and `assert_matches` |
| `Install` | `state.py:87-99`; a swap by reference on the event loop |

`AfterReload` is the lifespan's decision: serve with or without a model, end on a mismatch.
`ServedModel` says the same of a process without `reload`: it opens with a loadable model or none,
swaps only forwards in the alias's history and only to compatible versions, and loses its model
only when it closes. `ImplementsServedModel` is the refinement; `served` is the position at which
the bundle's signature was read.

### ModelPromotion

A trainer is a process. Its data are reduced to `ndcg` (holdout NDCG@20) and `clears` (above the
random baseline), both chosen when it trains. `versions[v]` is the run behind version `v`,
`tracked[t]` the metric in its MLflow run. One MLflow call is one action: `LogMetrics`, `Register`
(`log_model` with a registered name), `LogArtifact`, `ReadChampion` or `ChampionUnreadable`
(`champion_metric`, with the comparison of lines 469-475), `MoveAlias`. `TrackingFails` is the
`except` around all of them, `AnswerLost` the version that was registered though the call raised,
`Kill` the end of the process anywhere. `MoveAlias` keeps the test for a version (line 477), which `Register`
always has: MLflow's answer to a `log_model` with a registered name says which it is. Everything before training is an outcome: nothing to learn,
infrastructure down, or a model. `overlapped` is history: whether two runs have ever been going at
once, which is what the promises of `--promote` depend on.

### RankerLifecycle

The two modules above as instances over one `aliasLog`. Their `pc` and `faults` are renamed apart.
`Train` is a step of `ModelPromotion`; `Process`, `WatchModel` and `Reload` are those of
`RankingService` but for its `Promote`, which stands for any hand on the alias: here the only one is
a run's `MoveAlias`, between any two MLflow calls of a load. `ImplementsService` says that with this
hand the service is still the one it was verified as; `ServedMetric` follows a model from the holdout
it was measured on to the process that predicts with it.

### TrainingSet

Events and impressions are delivered at any time up to a run's last query. `Start` is
`_has_impressions`, `QueryPositives` `labelled_events` (the highest grade per user, article and day, in
any order), `AddIgnored` and `AddSampled` the two kinds of negatives, `BuildFeatures` the one call of
`OfflineFeatureBuilder.build`, `Featurize` the matrix by page, `Refuse` and `Split` the floors and the
two sides, `Train` any scores. `SourceDown` and `StoreDown` are ClickHouse or the article service, and
Redis. The lists that the code keeps in step by position alone are lists here too: `At` is the loop
with an `if`, `Run` and `Offset` the loop's `start = end` (module `Lists`), `MatrixOf` what `_featurize`
returns, `Part` what `_partition` does. `BuildFeatures` takes the walk of the catalogue and the three
queries of `features.py:75-112` together; no property tells the numbers of one row apart. A feature row is the key it was built for, and `Counted` the events in its numbers, so what is
kept is which rows, labels and run lengths belong together. MAP and NDCG are whole numbers of
thousandths, rounded down: `Weight` has the 20 weights `1/log2(i + 1)` of the code's cutoff and `Gain` is
`2^label - 1`, so their products are exact and only the last quotient is rounded, which leaves 1.0 exact.
Of MAP each precision is rounded too.

### EmbeddingsJob

Articles are numbered by creation, which is the order of the listing. A text, a vector and a
fingerprint are revision numbers. A run reads the fingerprints (`Start`), takes one page per action
(`NextPage`, or `LastPage` when the walk ends for one of its three reasons), then writes vectors
one at a time (the pipeline is not a transaction), all fingerprints in one HSET, and the stamp.
Authors publish, withdraw and edit between any two steps. `WalkFails` is `ArticleServiceError`;
`Kill` the end of a run anywhere.

### EmbeddingsFullRun

An edit to an old article lies behind the early stop and "is what `--full` is for"
(`embeddings.py:13`). No unit starts such a run, so nothing can be said of when the edit reaches its
vector; what can be said is what holds when an operator's run ends well. For that the history
variable `steady` follows, while a full run goes, the articles that have been listed with one text
and have not moved up in the listing since it started; no action reads it. `FullRunCatchesUp` is
about those, whatever was half written before and whatever is published, edited or withdrawn meanwhile.

### OfflineArtifact

An instance is one artifact. A run notes its moment, queries, then gives up (`QueryFails` exit 2,
`NothingToDo` exit 1) or builds its Redis commands (`Commands`) and has Redis carry them out one by
one (`Execute`): one transaction for trending, `SET` per row or vector, three commands per ALS
list. `MarkFresh` ends it. `RedisFails` is the uncaught exception (exit 1), `Kill` the end anywhere,
`Skip` a timer that does not fire. Time is a `Tick` that ages everything and expires keys; a run due
is started before the next tick, as systemd would (its randomised delay is below a tick). Only ages
are kept, saturating beyond `Lifetime`, so runs of any length are covered by a finite state space.
`WatchFreshness` is the service's watcher, at least once per tick. For ALS the logging to MLflow that
follows the stamp (`train_als.py:182-183`) is left out: it swallows its failures and the exit code is 0
either way.

### RankRequest

One user's requests, one at a time, because a request changes nothing another could see. A stored row
is the number of the job's run that wrote it, so "which numbers" and "how old" are one thing; 0 is a
row that is absent, expired or does not decode, which the loader treats alike. `Receive` holds the
early returns (an empty pool, no model), `ReadUserRow` to `ReadArticleVectors` are the four awaits of
`load`, `StoreFails` the `except RedisError`, `Rank` everything after them, which has no await; it sorts
with `Order` of `Lists`, as stable as `sorted`. The job is `Build`, `WriteArticleRow` for each `SET` (its pipeline is not a transaction),
`ArticleRowsWritten`, `WriteUserRow`, and `BuildFails`, the end of a run anywhere in its writes: a
kill or a Redis error (a failed query writes nothing and is no step). A run of the job is a position of
`job` and `unwritten`, so that runs can overlap. Nothing in `build_features.py` prevents that: a unit is not
started twice, but its service file also names the command for use by hand. `Overlap = FALSE`
makes the assumption that runs come one after the other, and `RankTwoBuilds` is the model without it. The booster is any function from an
id to a score. `Online` and `Offline` are the two rows of one candidate, reduced to the three kinds of
numbers in them: the user's, the article's, and the affinity, which also needs the author.

## What the runs check

Runs that pass:

| Run | Instance | Properties |
|---|---|---|
| `RankingReload` | 1 worker, watcher and 1 handler, 3 versions of which 2 compatible, 1 failing call | `TypeOK`, `CurrentLabelIsCurrentModel`, `ImplementsServedModel`, `PromotionPickedUp`, `ReloadAnswered` |
| `Promotion` | 3 runs that may overlap, 3 metric values, 1 failing call, 1 failing read, kills | `TypeOK`, `ChampionIsMeasured`, `ChampionIsBest`, `IInv`, `SerialPromotion`, `ImplementsAliasHistory` |
| `RankerLifecycle` | 2 runs that may overlap, 1 process and its watcher, 1 failing call of the service | `TypeOK`, `ImplementsService`, `ServedNeverWorse`, `WinnerServed` |
| `TrainingSet` | 2 users, 3 articles, 2 days, up to 3 events and impressions, both ways of finding negatives | `TypeOK`, `NeverBoth`, `SampledPages`, `PagesIntact`, `HoldoutIsLater`, `FullMarks` |
| `EmbeddingsIncremental` | 4 articles, pages of 1, stop after 2, edits, withdrawal between walks, 1 failure | `TypeOK`, `SkippedIsEmbedded`, `KnownIsOldest`, `NothingUsefulMissed` |
| `EmbeddingsFull` | 3 articles, pages of 1, incremental and full runs, edits, restored texts, late publication, withdrawal, 1 failure | `FullRunCatchesUp` |
| `ArtifactTrending` | ticks of 5 minutes, TTL 12, cadence 2, up to 4 runs in a row lost in any way | `TypeOK`, `OnlyExpiryRemoves`, `Survives`, `StampHonest` |
| `ArtifactAls` | 2 users, ticks of 12 hours, TTL 4, cadence 2, no run cut off while it writes, a watcher whose reads may fail | `StaleExpires`, `OneGapAtATime` |
| `RankRequest` | 2 articles, pools of up to 3 ids with repetitions, a cap of 2, 2 runs of the job one after the other, 2 scores around 0.0 | `TypeOK`, `EveryCandidateBack`, `UserRowNeverAhead`, `OnlyTheCapMisorders` |

The properties that say most:

* `CurrentLabelIsCurrentModel`: the version check is sound although label, booster and signature
  are read separately - *because* the alias takes no version twice and the label is read first.
  `ImplementsAliasHistory` is the trainer's side of that assumption.
* `ImplementsServedModel`: whatever fails and whoever calls, seen from outside the model only moves
  forward, to something compatible.
* `ServedNeverWorse`, `WinnerServed`: end to end. A load that meets a promotion half way mixes two
  models, and still what predicts never gets worse; and a winner is served in the end, because the
  label is read first and so a mixed load is repeated. Both are conditional on what the trainer does
  not guard against: overlapping runs and an unreadable metric.
* `NeverBoth`, `PagesIntact`: events arrive between the queries, and rows, labels and run lengths are kept
  in step by position; neither lets a label end up on another article.
* `FullMarks`: one scale for every page. MAP divides by the cutoff where a page has more positives than it
  shows, NDCG by the best order of the page's own labels, and no model beats that order.
* `KnownIsOldest`: a listed article that is newer than a known one and unknown itself is fine; one
  that is older is lost to every later incremental run. The rule survives failures because a failed
  walk throws everything away.
* `FullRunCatchesUp`: the pages shift under the walk, the store holds what killed runs left, and a full run
  still passes over nothing that stayed where it was or moved down.
* `OneGapAtATime`: what the missing transaction of `set_als_candidates` costs a reader. Of all the lists
  that a run rewrites one at most is gone, and only until the next command.
* `UserRowNeverAhead`: with one run of the feature job at a time, nobody holds a lock, yet a request never scores article rows older than the
  run that described its user, because the job writes articles before users and the request reads the
  user before the articles. Swap either order and it fails.
* `OnlyTheCapMisorders`: how far the header's "in descending score order" can be relied on. An id past
  the cap outranks, by its 0.0, only negative scores; everything else descends.
* `Survives`: it holds for trending as long as
  `(MaxMissed + 1) * Cadence + MaxRun < Ttl`; the instance is on that bound.

Runs that end in a violation, each a disagreement between the code and a sentence of the
repository that `PROJECT.json` quotes:

| Run | What it shows |
|---|---|
| `RankingMixedReads` | the booster of one version served under the signature of another |
| `RankSkew` | the author affinity that the model was trained on is 0 in every online row, since `/rank` passes no authors |
| `TrainingLeak` | a training row of an earlier day counts the events of later days |

### Further instances

These `.cfg` files lie beside the modules for a reader who wants to look closer
(`tlc -config <name>.cfg <module>`); they are not among the runs of `PROJECT.json`. Each of these is
meant to end in a counterexample:

| Instance | Module, property | What it shows |
|---|---|---|
| `RankingRollbackMissed` | `RankingService`, `PromotionPickedUp` | an alias that goes on and back during a load leaves a process on the wrong booster for good |
| `RankingOutage` | `RankingService`, `MissingMeansNoAlias` | a registry that does not answer is reported as "missing" |
| `RankingTwoWorkers` | `RankingService`, `ReloadTakesEffect` | `/reload-model` reaches one of two workers |
| `PromotionUnreadable` | `ModelPromotion`, `ChampionNeverWorse` | a failed read of the champion's metric promotes anything |
| `PromotionRace` | `ModelPromotion`, `ChampionNeverWorse` | two runs compare with the same champion, the worse one moves last |
| `PromotionRandom` | `ModelPromotion`, `ChampionBeatsRandom` | a model below the random floor becomes champion |
| `PromotionLost` | `ModelPromotion`, `TrainedModelKept` | a tracking failure loses the trained model and exits 0 |
| `TrainingTies` | `TrainingSet`, `NoSignalNoTriumph` | a model of one score for all gets MAP 1.0: positives come first in a page and ties keep their places |
| `TrainingVacuous` | `TrainingSet`, `HoldoutHasNegatives` | the guard against a set without negatives does not look at the holdout |
| `TrainingEmptyPages` | `TrainingSet`, `BestRankingScoresOne` | a page with impressions and no engagement counts 0 for every model |
| `TrainingLate` | `TrainingSet`, `NegativesWereIgnored` | an engagement delivered after the first query becomes a negative |
| `EmbeddingsRace` | `EmbeddingsJob`, `SkippedIsEmbedded` | two runs around an edit leave an old vector with a new fingerprint |
| `EmbeddingsLate` | `EmbeddingsJob`, `NothingUsefulMissed` | a draft published after newer articles is never embedded |
| `EmbeddingsShift` | `EmbeddingsJob`, `KnownIsOldest` | an article that leaves the listing hides another from the walk |
| `EmbeddingsWidth` | `EmbeddingsJob`, `SkippedIsEmbedded` | a vector of the wrong width is skipped and fingerprinted |
| `ArtifactAlsGap` | `OfflineArtifact`, `OnlyExpiryRemoves` | a reader finds no list between DEL and RPUSH |
| `ArtifactAlsLingers` | `OfflineArtifact`, `StaleExpires` | a run cut off before EXPIRE leaves a list for ever |
| `ArtifactAlsMissed` | `OfflineArtifact`, `Survives` | 48 hours do not survive two missed daily runs |
| `ArtifactAlsExit` | `OfflineArtifact`, `ExitOneTouchesNothing` | Redis failing in the middle exits 1, "nothing to do" |
| `ArtifactTrendingQuiet` | `OfflineArtifact`, `Survives` | an hour of runs that keep the list lets it expire |
| `ArtifactUserVectors` | `OfflineArtifact`, `StaleExpires` | user vectors have no TTL |
| `ArtifactGauge` | `OfflineArtifact`, `GaugeNeverYounger` | the age gauge stands still while Redis is down |
| `RankTwoBuilds` | `RankRequest`, `UserRowNeverAhead` | a run by hand overlaps the timer's, and a request pairs a newer user row with older article rows |
| `RankOrder` | `RankRequest`, `DescendingScores` | ids past the cap follow with 0.0, above the negative scores before them |

And two pass: `RankingWorkers` (two workers, `PromotionPickedUp` in each) and `ArtifactFeatures` (feature
rows under a job that is dead for longer than the TTL: `OnlyExpiryRemoves`, `StaleExpires`,
`StampHonest`).

### Bounds

Three versions give one champion, one successor and one more, which is what a label, a booster and
a signature of three different versions need; `MaxMoves` bounds the history and so every index.
One failing MLflow call is enough to break any single attempt; a second adds only repetition.
Three training runs are a champion, a candidate and a competitor. Four articles with pages of one
and a stop after two leave one article beyond the early stop and one to shift the pages; a full run needs
three, one to be withdrawn, one to be edited and one to stay. `EmbeddingsIncremental` has no restored texts: a run
killed between a vector and its fingerprint, and the text taken back, would make a fingerprint right whose vector is not.
Its listing grows at its top only, and articles are withdrawn while no run walks (`Unpublish` is "between walks"):
one that is withdrawn during a walk is what `EmbeddingsShift` is about. Two keys
let one be written while the other is not; `Lifetime` is the TTL and the longest run, and one tick
more is what a violation needs. `Mishaps` names what may go wrong in a run of `OfflineArtifact`,
so that a violation is due to one cause. In `RankRequest` two runs are an old and a new
generation, and pools of three under a cap of two hold a repeated id on either side of the cap.
In `RankerLifecycle` two runs are a champion and a better or worse successor, which is all that a load can
mix. No call of a trainer fails there: `ServedNeverWorse` and `WinnerServed` are conditional on that, failing
calls are `Promotion`'s, and `ImplementsServiceTheorem` covers them in the composition. Both versions are compatible, because the incompatible ones are `RankingReload`'s. Two days are a
training day and a holdout day; three inputs are two positives on one page with a negative, or
a page on either side of the split and one more; a cutoff of one lets a page have more positives than
it. `popular_by_day` is never at its 500 rows. Configuration files have no negative numbers, so scores are numbered in their order and `Zero` is the
number of 0.0.

The runs of the job are interchangeable and `Promotion` checks safety only, so its symmetry is sound.

`CHECK_DEADLOCK FALSE` is said for `ModelPromotion` and `TrainingSet`, where nothing is left to do when
every run is over, and for `RankerLifecycle`, which joins the first to a service without requests.

### Fairness

* `RankingService`: weak fairness of every step of a `reload` (a thread's call returns or raises,
  and asyncio hands the lock on in FIFO order) and of the watcher (its loop sleeps and calls again,
  `app.py:140-145`). None for requests, promotions, starts or stops.
* `EmbeddingsJob`: weak fairness of a run's own steps; strong fairness of starting an incremental one,
  because the hourly timer fires again and again while runs come and go. None for `--full`, which
  no unit starts, for authors and for failures. The liveness property assumes that the listing settles.
* `RankerLifecycle`: the service's, and none for the trainers: a run may be killed anywhere, and what is
  owed is owed to runs that ended well.
* `ModelPromotion`, `TrainingSet`, `OfflineArtifact` and `RankRequest` are checked for safety only and assume none.
  The last for a reason: the Redis client is made without a timeout, so nothing in the code says that
  a read ends.

## What is proved

For all values of the constants that meet the modules' assumptions, by TLAPS:

* `RankingServiceProofs`: `TypeCorrect`, `CurrentLabelTheorem`, `ServedModelTheorem`.
* `ModelPromotionProofs`: `TypeCorrect`, `Invariance`, `ChampionIsMeasuredTheorem`,
  `SerialPromotionTheorem`, `ChampionIsBestTheorem`, `AliasTheorem`.
* `RankerLifecycleProofs`: `TypeCorrect`, `ImplementsServiceTheorem`, `ServedNeverWorseTheorem`.
* `EmbeddingsJobProofs`: `TypeCorrect`; `SkippedTheorem`, which assumes a single runner, no restored
  texts and vectors of the right width; `KnownIsOldestTheorem`, which assumes neither and is about a
  listing that only grows at its top, walked by runs that stop early and are not cut off
  (`Undisturbed`); `FullRunTheorem`, for a single runner, vectors of the right width and a walk that
  `--max-articles` does not cut.
* `RankRequestProofs`: `TypeCorrect`; `UserRowTheorem`, for one run of the feature job at a time
  (`~Overlap`); `EveryCandidateBackTheorem` and `OnlyTheCapMisordersTheorem`, without a hypothesis.
* `OfflineArtifactProofs`: `TypeCorrect`; `OnlyExpiryRemovesTheorem`, for all artifacts but the ALS
  lists, which is where `ArtifactAlsGap` refutes it; `StaleExpiresTheorem`, for the artifacts with a TTL,
  the ALS lists under the condition that `ArtifactAlsLingers` breaks (`Expiring`);
  `StampHonestTheorem`, not for ALS; `SurvivesTheorem`, not for ALS, where `MaxRun <= Cadence` and
  `(MaxMissed + 1) * Cadence + MaxRun < Ttl` or there is no TTL (`Enduring`); `OneGapTheorem`,
  without a hypothesis.

* `TrainingSetProofs`: `TypeCorrect`, `NeverBothTheorem`, `SampledPagesTheorem`,
  `HoldoutIsLaterTheorem`, `PagesIntactTheorem`, `FullMarksTheorem`, without a hypothesis. `K <= 20` is an
  assumption of the module: `train_lightgbm` asks for `k=20` and `Weight` has that many entries.

A hypothesis is a condition under which the code keeps the promise, and every one has an instance
above that breaks the promise without it, or is said below to be of the model. (`EmbeddingsFull` with
two runners, with a misshapen article or with `MaxArticles = 2` breaks `FullRunCatchesUp`.) Each theorem rests on
an inductive invariant at the end of the module it is about, proved action by action.

*Ranking.* The types alone say nothing about a load in progress. `LockInv` says that only the
holder is past the version check, so one load at a time can end; `LoadInv` that the holder's load
is newer than the bundle it will replace and has its parts in the order of their reads; `BundleInv`
the same of what is installed; `LifespanInv` that the lifespan has the worker for itself, which is
why the process opens with what it loaded; `AliasInv` that the alias's history has no repetitions.
`CurrentLabelIsCurrentModel` follows: a label that names the champion is the last position
(no repetitions), and booster and signature were read at or after it.
`ServedModelTheorem` maps every step to a step of `ServedModel` or a stutter: `Install` to `Swap`
or, by the lifespan, `Open`, using `LoadInv` for "not older" and "compatible".

*Promotion.* `MeasuredInv` (a run's metric is on record before its version exists), `OwnershipInv`
(a run that is past registration owns the version it knows), `AliasedInv` (only versions of runs
that are over have been the champion, each once) and, for runs one at a time, `SerialInv` (what was
read of the champion is still so when the alias moves) and `RisingInv` (each entry of the alias's
history is at least as good as those before it). `ChampionIsBest` is inductive with these and
`FinishedInv`: a run that ends well either found the champion at least as good, or becomes it.

*Lifecycle.* The proofs of the two components are taken as they are, through instances
(`SameTraining`, `SameService`, `SameTypes`). `ServiceStep` is where they meet: `MoveAlias` is the
service's `Promote`, because by the trainers' invariant the version is one the alias never had.
`ServedStep` joins the invariants: a replacement's booster was read no earlier in the alias's
history than the one it replaces (`BoosterRises`), and the history is rising (`RisingInv`).

*Embeddings.* `OrderInv` (a fingerprint is never newer than its vector, nor the vector than its
text), `CarriedInv` (what a run carries is no older than what it replaces, and is written before
its fingerprint), `TodoInv`. The other promise is about the gap between what a walk has seen and what it
will write: `BehindInv` says that behind an article it carries there is none that is not known, or
carried too, as far back as the walk has come (`Newer(a) < offset`); `ListedInv` that what is known
is listed. `BehindPublish`: an article at the top moves all others back, the walk's position does
not move, so it meets some again and skips none. `PageOfRecent` and `TakenPage` say which articles a
page holds, from the places of the articles in the listing being all numbers below their count
(`EveryOffset`). `BehindPage` is the early stop: a page that is known throughout has only known articles behind it,
by `KnownIsOldest` itself.
For `FullRunTheorem` the same places are followed downwards: `SteadyInv` says that an article that stayed
is still to come (`Newer(a) >= offset`) or carried with its text, then written, then fingerprinted; `WalkInv`
that a full run knows nothing, so that only the end of the listing stops it (`SteadyPage`). An author's
step moves such an article down if anything (`SteadyAuthor`).

*Artifacts.* `PipeInv`: the commands that are left are `SET`s, or for ALS have behind every `DEL` the
`RPUSH` of its list, and behind that its `EXPIRE`. `OneGapTheorem` is its first half. `ExpiryInv`: age and remaining TTL of a key add up to at most `Ttl + MaxRun`. `WroteInv` and
`StampInv` carry a key from the command that wrote it to the stamp, and on while the stamp is young.
`LeftInv` measures the TTL that is left of some key against `SinceWritten`, the periods of the runs
missed since; with at most `MaxMissed` of them, and `TimerInv` (a run is over before the next is due),
it stays positive. The one assumption that is the model's and not the code's, `MaxRun <= Lifetime`,
says that ages do not saturate while a run goes on.

*Rank.* `WriteInv` (what the job's run has written is there or gone, and users come after the last
article; both from there being one run, `StepKeeps`), `UserInv` (the stored article rows are no older than the run of the stored user row), and
`SeenInv`, which carries that from the read of the user to the read of the articles.
`EveryCandidateBack` is about the order of the response: `Ahead` orders the scored positions strictly
(`AheadIsOrder`), so `Place`, which counts those ahead, is a bijection of them (`PlaceProperties`,
`OrderProperties`, in `ListLemmas`), and with the ids past the cap behind them one of the whole pool
(`ExtendedPermutation`); a permutation leaves every id as often as it was (`SameOccurrences`). That the
order descends is `OrderProperties` too, from which `OnlyTheCapMisorders` follows.

*Training set.* `PositivesInv` (until negatives are added, the rows are positives with a key each) and
`MatrixInv` (what is split is the matrix of the rows as they are). `NegativesApart` looks a negative up
among the positives that the dataset holds, so it shares no key with one; `SampledSound` adds
that a page's positives are the rows it had, and that its negatives are no more than its sample. Two
more theorems are about lists: `MatrixShape` finds each page's rows where the run lengths say they
are, `PartShape` says the same of a side, and `RowsBack` that a run of keys and its run of
labels give the page's rows again. They rest on `ListLemmas`. What would need induction over data there
is proved with least elements instead: the numbers at which a claim fails have a least one
(`LeastOne`, from the well-foundedness of `<`), and the one before it contradicts that. So `Offset` is the
function that its equations describe (`RecursiveList`), `FlattenSeq` joins list after list
(`FlattenFolds`), a run is where its offset says (`FlattenRuns`, `RunIs`), also among those that a side
keeps (`PartRuns`), and the n-th smallest number of a finite set exists (`NthProperties`).

*Metrics.* `JudgedInv` (the runs of the holdout take up its labels exactly, one score for each) makes each
page a list of labels and a list of scores of one length, so that `FullMarks` is about two such lists.
`OrderProperties`: `Order` is a bijection along which the scores descend. `DescendingIsOrdered`: the list
sorted by value, of which `_order` knows nothing, is the one ranked by its own labels. That no model beats
it (`NoRankingBeatsIdeal`) is the rearrangement inequality for weights that fall (`WeightProperties`) and
gains that rise with the label (`GainProperties`), for any length (`Rearranged`): of the first `t + 1`
places of a ranking, the one whose entry comes furthest down in the sorted list changes places with the last,
which costs nothing (`Exchange`), and `t` are left (`RearrangedStep`). `IdealIsZero` is the page without a
positive, where the code returns 0 before it divides. For MAP, every precision is at most 1.0 and only hits
count, so the total is at most 1.0 for each hit shown, of which there are no more than
`min(relevant, K)` (`PrecisionsTotal`, `HitsOfRanking`); in the sorted list the hits come first, each at
full precision, and there are that many (`HitsOfIdeal`, `AllHits`).

Only model-checked: the liveness properties `PromotionPickedUp`, `ReloadAnswered`, `WinnerServed` and
`NothingUsefulMissed`, which are beyond the proof system. Every safety property of the runs
that pass is a theorem.

## Not modelled

An exception of `build_matrix` or `predict` in `/rank` (a value that is not finite, a booster of other
columns). What the other jobs compute (their SQL, feature values, ALS factors and the filter before
them, centroids), LightGBM and the random baseline of `train_lightgbm`, the order of columns and
the signature but as a flag of a version, encodings, HTTP and metrics other than the freshness gauge;
`--dry-run`, `--explain`, `--only-users`; the developer scripts, which keep no state of their own; the
FAISS service and the C# orchestrator, which are not in this repository and appear only as readers.
MLflow, Redis, ClickHouse and the article service are external: the modules have the operations the
code uses.

## Plan

Written so far: every module above. Left:

1. `AlsFilter`: `Interactions` and `_recommend`, against a reference definition. Items are filtered
   before users and once (`train_als.py:63-69`), so an item may be left with fewer users than asked for.
2. `FeatureParity`: column order and signature check, as functions over small inputs.
3. `Seeder`: repeated runs of the development seeder against a corpus that is there already.
