------------------------------ MODULE TrainingSet ------------------------------
(***************************************************************************)
(* What a ranker is trained on and judged by: train_lightgbm.build from    *)
(* its first query to its metrics, and ranking_metrics.                    *)
(*                                                                         *)
(* A run queries user_events, then feed_impressions or user_events again   *)
(* for the negatives, then user_events for the features.  All queries ask  *)
(* for what occurred before the run's moment, but Kafka delivers late, so  *)
(* the tables may grow between them.  From the rows it builds a matrix     *)
(* grouped by (user, day), a page, splits it by day into train and holdout *)
(* and scores the holdout with the trained model.                          *)
(*                                                                         *)
(* Days are numbered from the start of the window of the queries up to     *)
(* Today, the day of the run.  A feature row is named by the dataset row   *)
(* it was built for; Counted says which events its numbers rest on.        *)
(***************************************************************************)
EXTENDS Lists

CONSTANTS
  Users, Articles,  \* how many there are of each
  Today,            \* the day of the run's moment
  HoldoutDays,      \* --holdout-days
  NegRatio,         \* --neg-ratio
  MinExamples,      \* --min-examples
  MinGroups,        \* --min-groups
  ArticleDays,      \* days that an article's counts reach back: 24 hours
  UserDays,         \* days that a user's counts reach back
  K,                \* the cutoff of the metrics, 20 in the code
  MaxGrade,         \* labels go up to this
  Scores,           \* what a model may predict
  MaxInputs         \* bound on the events and impressions there are

User == 1..Users
Article == 1..Articles
Day == 0..Today
Trusted == {"personalized"}                \* TRUSTED_LEVELS
Level == Trusted \cup {"trending"}
Mode == {"sampled", "impressions"}

ASSUME CountsAssumption ==
  /\ Users \in Nat /\ Articles \in Nat /\ Today \in Nat /\ HoldoutDays \in Nat
  /\ NegRatio \in Nat /\ MinExamples \in Nat /\ MinGroups \in Nat
  /\ ArticleDays \in Nat /\ UserDays \in Nat /\ K \in 1..20
  /\ MaxGrade \in Nat /\ MaxInputs \in Nat
ASSUME ScoresAssumption == Scores \subseteq Int

VARIABLES
  events,    \* user_events, as far as it was delivered
  shown,     \* feed_impressions, one entry per article shown
  logged,    \* feed_impressions exists
  mode,      \* --negatives
  pc,        \* the run's next step
  rows,      \* Dataset.rows
  counted,   \* the events that the feature queries saw
  matrix,    \* what _featurize returned
  train, holdout, \* the two sides of _partition
  scores,    \* booster.predict of the holdout
  exit       \* how the run ended

tables == <<events, shown, logged, mode>>
vars == <<tables, pc, rows, counted, matrix, train, holdout, scores, exit>>

Event == [user : User, article : Article, day : Day, grade : 0..MaxGrade]
Impression == [user : User, article : Article, day : Day, level : Level]
Key == [user : User, article : Article, day : Day]
Row == [user : User, article : Article, day : Day, label : 0..MaxGrade]
Side == [rows : Seq(Key), labels : Seq(0..MaxGrade), groups : Seq(Nat)]
Step == {"idle", "positives", "negatives", "features", "matrix", "split", "train", "done"}
Exit == {"none", "ok", "nothing to do", "infra"}

NoSide == [rows |-> <<>>, labels |-> <<>>, groups |-> <<>>]
NoMatrix == [rows |-> <<>>, labels |-> <<>>, groups |-> <<>>, days |-> <<>>]

TypeOK ==
  /\ events \subseteq Event /\ shown \in Seq(Impression)
  /\ logged \in BOOLEAN /\ mode \in Mode
  /\ pc \in Step /\ exit \in Exit
  /\ rows \in Seq(Row) /\ counted \subseteq Event
  /\ matrix.days \in Seq(Day)
  /\ [rows |-> matrix.rows, labels |-> matrix.labels, groups |-> matrix.groups] \in Side
  /\ train \in Side /\ holdout \in Side
  /\ scores \in Seq(Scores)

Init ==
  /\ events = {} /\ shown = <<>>
  /\ logged \in BOOLEAN /\ mode \in Mode
  /\ pc = "idle" /\ exit = "none"
  /\ rows = <<>> /\ counted = {}
  /\ matrix = NoMatrix /\ train = NoSide /\ holdout = NoSide /\ scores = <<>>

-------------------------------------------------------------------------------
(* The tables.  What is delivered after the run's last query is nothing to *)
(* it, and nor are impressions to a run that samples.                      *)

Open ==
  /\ pc \in {"idle", "positives", "negatives", "features"}
  /\ Cardinality(events) + Len(shown) < MaxInputs

Engage(e) ==
  /\ Open
  /\ events' = events \cup {e}
  /\ UNCHANGED <<shown, logged, mode, pc, rows, counted, matrix, train, holdout, scores, exit>>

Show(i) ==
  /\ Open
  /\ logged /\ mode = "impressions"
  /\ shown' = Append(shown, i)
  /\ UNCHANGED <<events, logged, mode, pc, rows, counted, matrix, train, holdout, scores, exit>>

-------------------------------------------------------------------------------
(* Helpers.                                                                *)

(* A page: one user's one day.                                             *)
PageOf(r) == [user |-> r.user, day |-> r.day]
Pages == {PageOf(rows[i]) : i \in DOMAIN rows}
KeyOf(r) == [user |-> r.user, article |-> r.article, day |-> r.day]
Labelled(k, l) == [user |-> k.user, article |-> k.article, day |-> k.day, label |-> l]
On(p, a) == [user |-> p.user, article |-> a, day |-> p.day]

Finish(e) == pc' = "done" /\ exit' = e
Goto(step) == pc' = step /\ UNCHANGED exit

-------------------------------------------------------------------------------
(* build: the queries.                                                     *)

(* _has_impressions: silently sampling instead would misname the model.    *)
Start ==
  /\ pc = "idle"
  /\ IF mode = "impressions" /\ ~logged THEN Finish("nothing to do") ELSE Goto("positives")
  /\ UNCHANGED <<tables, rows, counted, matrix, train, holdout, scores>>

(* labelled_events: the highest grade per user, article and day, if any.   *)
Label(k) == Max({0} \cup {e.grade : e \in {x \in events : KeyOf(x) = k}})
Positives == {Labelled(k, Label(k)) : k \in {x \in Key : Label(x) > 0}}

\* Mutant of QueryPositives: no exit code where there is nothing to learn.
QueryPositivesNoExit ==
  /\ pc = "positives"
  /\ \E s \in SetToSeqs(Positives) : rows' = s
  /\ IF rows' = <<>> THEN Finish("None") ELSE Goto("negatives")
  /\ UNCHANGED <<tables, counted, matrix, train, holdout, scores>>

(* The rows come in no order that SQL promises.                            *)
QueryPositives ==
  /\ pc = "positives"
  /\ \E s \in SetToSeqs(Positives) : rows' = s
  /\ IF rows' = <<>> THEN Finish("nothing to do") ELSE Goto("negatives")
  /\ UNCHANGED <<tables, counted, matrix, train, holdout, scores>>

(* engaged[(user, day)]                                                    *)
Engaged(p) == {rows[i].article : i \in {j \in DOMAIN rows : PageOf(rows[j]) = p}}

\* Mutant of Ignored: what was engaged with is a negative all the same.
IgnoredOrNot(i) == i.level \in Trusted

Ignored(i) == i.level \in Trusted /\ i.article \notin Engaged(PageOf(i))

(* --negatives impressions: shown and not engaged with, once per showing.  *)
AddIgnored ==
  LET ignored == At(shown, {i \in DOMAIN shown : Ignored(shown[i])}) IN
  /\ pc = "negatives" /\ mode = "impressions"
  /\ rows' = rows \o [i \in DOMAIN ignored |-> Labelled(KeyOf(ignored[i]), 0)]
  /\ Goto("features")
  /\ UNCHANGED <<tables, counted, matrix, train, holdout, scores>>

(* popular_by_day: the articles with an event on that day (the first 500,  *)
(* which is more than there are here).                                     *)
Popular(d) == {e.article : e \in {x \in events : x.day = d}}
Untouched(p) == Popular(p.day) \ Engaged(p)

\* Mutant of SampleSize: a ratio to the whole dataset.
SampleSizeOfAll(p) == Min({Cardinality(Untouched(p)), Len(rows) * NegRatio})

SampleSize(p) == Min({Cardinality(Untouched(p)), Cardinality(Engaged(p)) * NegRatio})

(* --negatives sampled: per page, a sample of the day's other articles.    *)
AddSampled ==
  /\ pc = "negatives" /\ mode = "sampled"
  /\ \E pick \in [Pages -> SUBSET Article] :
       /\ \A p \in Pages : pick[p] \in kSubset(SampleSize(p), Untouched(p))
       /\ rows' = rows \o SetToSeq(UNION {{Labelled(On(p, a), 0) : a \in pick[p]} : p \in Pages})
  /\ Goto("features")
  /\ UNCHANGED <<tables, counted, matrix, train, holdout, scores>>

(* OfflineFeatureBuilder.build(moment): one answer for the whole dataset.  *)
(* Its walk of the catalogue and its three queries (articles, users, their *)
(* tags and authors) are one step: an event that arrives between them      *)
(* would be in the numbers of the later ones only, and no property here    *)
(* tells the numbers of one row apart.                                     *)
BuildFeatures ==
  /\ pc = "features"
  /\ counted' = events
  /\ Goto("matrix")
  /\ UNCHANGED <<tables, rows, matrix, train, holdout, scores>>

(* ClickHouseError or ArticleServiceError.                                 *)
SourceDown ==
  /\ \/ pc \in {"positives", "negatives", "features"}
     \/ pc = "idle" /\ mode = "impressions"
  /\ Finish("infra")
  /\ UNCHANGED <<tables, rows, counted, matrix, train, holdout, scores>>

(* The events that the numbers of a feature row are made of: those of its  *)
(* article and those of its user, back from the run's moment.              *)
Counted(k) ==
  {e \in counted : \/ e.article = k.article /\ e.day >= Today - ArticleDays
                   \/ e.user = k.user /\ e.day >= Today - UserDays}

-------------------------------------------------------------------------------
(* build: from rows to metrics.                                            *)

PageBefore(p, q) == p.user < q.user \/ (p.user = q.user /\ p.day < q.day)
RowsOf(p) == At(rows, {i \in DOMAIN rows : PageOf(rows[i]) = p})

(* The four lists of _featurize: page by page and, within a page, in the   *)
(* order added.                                                            *)
MatrixOf(pages) ==
  LET all == FlattenSeq([i \in DOMAIN pages |-> RowsOf(pages[i])])
  IN [rows |-> [i \in DOMAIN all |-> KeyOf(all[i])],
      labels |-> [i \in DOMAIN all |-> all[i].label],
      groups |-> [i \in DOMAIN pages |-> Len(RowsOf(pages[i]))],
      days |-> [i \in DOMAIN pages |-> pages[i].day]]

(* _featurize: sorted(by_group.items())                                    *)
Featurize ==
  /\ pc = "matrix"
  /\ \E pages \in SetToSeqs(Pages) :
       /\ \A i, j \in DOMAIN pages : i < j => PageBefore(pages[i], pages[j])
       /\ matrix' = MatrixOf(pages)
  /\ Goto("split")
  /\ UNCHANGED <<tables, rows, counted, train, holdout, scores>>

\* Mutant of IsHoldout: every other page, whatever its day.
IsHoldoutAlternating(m, i) == i % 2 = 0

(* _temporal_split                                                         *)
IsHoldout(m, i) == m.days[i] >= Today - HoldoutDays

(* _partition: the runs for which keep holds, one after the other.         *)
Part(m, keep) ==
  LET kept == {i \in DOMAIN keep : keep[i]}
      Cut(s) == FlattenSeq(At(Runs(s, m.groups), kept))
  IN [rows |-> Cut(m.rows), labels |-> Cut(m.labels), groups |-> At(m.groups, kept)]

HoldoutSide(m) == Part(m, [i \in DOMAIN m.groups |-> IsHoldout(m, i)])
TrainSide(m) == Part(m, [i \in DOMAIN m.groups |-> ~IsHoldout(m, i)])

(* Below the floors, without a negative, or with an empty side.            *)
TooLittle(m) ==
  \/ Len(m.labels) < MinExamples \/ Len(m.groups) < MinGroups
  \/ \A i \in DOMAIN m.labels : m.labels[i] # 0
  \/ HoldoutSide(m).groups = <<>> \/ TrainSide(m).groups = <<>>

(* Redis does not answer when the embeddings are read: uncaught, and the   *)
(* interpreter ends with the code that stands for nothing to do.           *)
StoreDown ==
  /\ pc = "matrix"
  /\ Finish("nothing to do")
  /\ UNCHANGED <<tables, rows, counted, matrix, train, holdout, scores>>

Refuse ==
  /\ pc = "split"
  /\ TooLittle(matrix)
  /\ Finish("nothing to do")
  /\ UNCHANGED <<tables, rows, counted, matrix, train, holdout, scores>>

Split ==
  /\ pc = "split"
  /\ ~TooLittle(matrix)
  /\ train' = TrainSide(matrix) /\ holdout' = HoldoutSide(matrix)
  /\ Goto("train")
  /\ UNCHANGED <<tables, rows, counted, matrix, scores>>

(* The trained model may rank the holdout in any way.                      *)
Train ==
  /\ pc = "train"
  /\ \E s \in [DOMAIN holdout.labels -> Scores] : scores' = s
  /\ Finish("ok")
  /\ UNCHANGED <<tables, rows, counted, matrix, train, holdout>>

-------------------------------------------------------------------------------
(* ranking_metrics, in thousandths, so that 1.0 is exact.                  *)

One == 1000
MeanOf(s) == IF s = <<>> THEN 0 ELSE Total(s) \div Len(s)
TopK(s) == SubSeq(s, 1, Min({K, Len(s)}))

(* _order: by score, descending; equal scores keep their places.           *)
Ranked(labels, ss) == [i \in DOMAIN labels |-> labels[Order(ss)[i]]]

(* How many of the first n are relevant: cumsum, and count_nonzero.        *)
Hits(s, n) == Cardinality({i \in 1..n : s[i] > 0})

Precisions(top) ==
  [i \in DOMAIN top |-> IF top[i] > 0 THEN (One * Hits(top, i)) \div i ELSE 0]

\* Mutant of AveragePrecision: the cutoff is forgotten in the denominator.
AveragePrecisionOverAll(labels, ss) ==
  LET relevant == Hits(labels, Len(labels))
  IN IF relevant = 0 THEN 0 ELSE Total(Precisions(TopK(Ranked(labels, ss)))) \div relevant

(* average_precision_at_k                                                  *)
AveragePrecision(labels, ss) ==
  LET relevant == Hits(labels, Len(labels))
  IN IF relevant = 0 THEN 0
     ELSE Total(Precisions(TopK(Ranked(labels, ss)))) \div Min({relevant, K})

(* 2^label - 1                                                             *)
Gain[label \in 0..MaxGrade] == IF label = 0 THEN 0 ELSE 2 * Gain[label - 1] + 1

(* 1/log2(2), 1/log2(3), ...: one for each place of the cutoff in the code.*)
Weight == <<1000, 631, 500, 431, 387, 356, 333, 315, 301, 289,
            279, 270, 263, 256, 250, 245, 240, 235, 231, 228>>

(* dcg_at_k                                                                *)
DCG(labels) ==
  LET top == TopK(labels)
  IN Total([i \in DOMAIN top |-> Weight[i] * Gain[top[i]]])

(* ndcg_at_k                                                               *)
NDCG(labels, ss) ==
  LET ideal == DCG(Descending(labels))
  IN IF ideal = 0 THEN 0 ELSE (DCG(Ranked(labels, ss)) * One) \div ideal

(* grouped: the mean over the pages of a side.                             *)
Grouped(side, ss) ==
  LET Labels(i) == Run(side.labels, side.groups, i)
      Predicted(i) == Run(ss, side.groups, i)
  IN [ndcg |-> MeanOf([i \in DOMAIN side.groups |-> NDCG(Labels(i), Predicted(i))]),
      map |-> MeanOf([i \in DOMAIN side.groups |-> AveragePrecision(Labels(i), Predicted(i))])]

(* The popularity baseline: a_clicks_24h_log as the score.                 *)
Popularity ==
  [i \in DOMAIN holdout.rows |->
     Cardinality({e \in Counted(holdout.rows[i]) :
                    /\ e.article = holdout.rows[i].article /\ e.grade = 1
                    /\ e.day >= Today - ArticleDays})]

-------------------------------------------------------------------------------
Next ==
  \/ \E e \in Event : Engage(e)
  \/ \E i \in Impression : Show(i)
  \/ Start \/ QueryPositives \/ AddIgnored \/ AddSampled \/ BuildFeatures \/ SourceDown
  \/ Featurize \/ StoreDown \/ Refuse \/ Split \/ Train

Spec == Init /\ [][Next]_vars

Trained == exit = "ok"

-------------------------------------------------------------------------------
(* What holds.                                                             *)

(* An article is never both what a user engaged with and what the user     *)
(* ignored on the same day, whichever way the negatives were found and     *)
(* whatever was delivered between the queries (train_lightgbm.py:299,317). *)
NeverBoth ==
  \A i, j \in DOMAIN rows :
    KeyOf(rows[i]) = KeyOf(rows[j]) => (rows[i].label = 0 <=> rows[j].label = 0)

(* A sampled page stays a page: it has a positive, no article twice, and   *)
(* at most NegRatio negatives for each positive (train_lightgbm.py:321).   *)
SampledPages ==
  mode = "sampled" =>
    \A p \in Pages :
      LET labels == {r \in {rows[i] : i \in DOMAIN rows} : PageOf(r) = p}
          positives == {r \in labels : r.label > 0}
      IN /\ positives # {}
         /\ Len(RowsOf(p)) = Cardinality({r.article : r \in labels})
         /\ Cardinality(labels \ positives) <= NegRatio * Cardinality(positives)

(* Rows, labels and run lengths are three lists kept in step by position   *)
(* alone, through grouping, splitting and cutting (train_lightgbm.py:345,  *)
(* 377).  On either side each run is one whole page with its own labels,   *)
(* and no page is lost or on both sides.                                   *)
WholePages(side) ==
  /\ Len(side.rows) = Offset(side.groups, Len(side.groups) + 1)
  /\ \A i \in DOMAIN side.groups :
       LET run == Run(side.rows, side.groups, i)
           labels == Run(side.labels, side.groups, i)
       IN [j \in DOMAIN run |-> Labelled(run[j], labels[j])] = RowsOf(PageOf(run[1]))

PagesIntact ==
  pc = "train" =>
    /\ WholePages(train) /\ WholePages(holdout)
    /\ Len(train.groups) + Len(holdout.groups) = Cardinality(Pages)
    /\ \A p \in Pages : \E side \in {train, holdout} :
         \E i \in DOMAIN side.rows : PageOf(side.rows[i]) = p

(* _temporal_split's docstring: a random split leaks.  Every page that is  *)
(* trained on is of an earlier day than every page of the holdout.         *)
HoldoutIsLater ==
  \A i \in DOMAIN train.rows, j \in DOMAIN holdout.rows :
    train.rows[i].day < holdout.rows[j].day

(* The scale of the metrics is the same for every page (ranking_metrics.py *)
(* 46,64): ranking by label scores 1.0 wherever there is a positive, also  *)
(* when there are more of them than the cutoff shows, and no model scores  *)
(* more than that or, where there is none, anything.                       *)
FullMarks ==
  Trained =>
    \A i \in DOMAIN holdout.groups :
      LET labels == Run(holdout.labels, holdout.groups, i)
          ss == Run(scores, holdout.groups, i)
          best == IF \E j \in DOMAIN labels : labels[j] > 0 THEN One ELSE 0
      IN /\ NDCG(labels, labels) = best /\ AveragePrecision(labels, labels) = best
         /\ NDCG(labels, ss) <= best /\ AveragePrecision(labels, ss) <= best

-------------------------------------------------------------------------------
(* What a text promises and the code does not keep.                        *)

(* sql.py:12: training asks for features "as of the moment of the          *)
(* impression being learned from", so that rows describe the past: no      *)
(* number of a training row counts an event of a later day.                *)
FeaturesPrecedeLabels ==
  Trained =>
    \A i \in DOMAIN train.rows : \A e \in Counted(train.rows[i]) : e.day <= train.rows[i].day

Flat(ss) == \A i, j \in DOMAIN ss : ss[i] = ss[j]

(* README.md:128: a MAP of exactly 1.0 is the symptom of pages on which    *)
(* everything was relevant, and README.md:123: random is the floor.  A     *)
(* model that gives every row one score has learned nothing; on pages with *)
(* an ignored article each it does not come out with full marks.           *)
NoSignalNoTriumph ==
  /\ Trained
  /\ \A i \in DOMAIN holdout.groups :
       LET labels == Run(holdout.labels, holdout.groups, i)
       IN \E j \in DOMAIN labels : labels[j] = 0
  => /\ Flat(scores) => Grouped(holdout, scores).map < One
     /\ Flat(Popularity) => Grouped(holdout, Popularity).ndcg < One

(* README.md:129: the job refuses a set with no negatives, because any     *)
(* order of it scores perfectly.  It is the holdout that is scored.        *)
HoldoutHasNegatives ==
  Trained => \E i \in DOMAIN holdout.labels : holdout.labels[i] = 0

(* ranking_metrics.py:42: a page with no positives must not count against  *)
(* the model: the best possible ranking of a holdout scores 1.0.           *)
BestRankingScoresOne ==
  Trained => Grouped(holdout, holdout.labels).ndcg = One

(* The log line of train_lightgbm.py:303, "shown-but-not-engaged": an      *)
(* article that is labelled 0 was not engaged with on that page's day.     *)
NegativesWereIgnored ==
  \A i \in DOMAIN rows : rows[i].label = 0 => Label(KeyOf(rows[i])) = 0

-------------------------------------------------------------------------------
(* Why they hold; proved in TrainingSetProofs.                             *)

(* What labelled_events returns is a positive each, and no key comes twice.*)
PositivesInv ==
  pc \in {"idle", "positives", "negatives"} =>
    /\ \A i \in DOMAIN rows : rows[i].label > 0
    /\ \A i, j \in DOMAIN rows : KeyOf(rows[i]) = KeyOf(rows[j]) => i = j

(* What is split is the matrix of the rows as they are now.                *)
MatrixInv == pc = "split" => \E pages \in SetToSeqs(Pages) : matrix = MatrixOf(pages)

(* What is judged: the labels that the runs of the holdout take up, no     *)
(* more and no fewer, and one score for each.                              *)
JudgedInv ==
  /\ Len(holdout.labels) = Offset(holdout.groups, Len(holdout.groups) + 1)
  /\ Trained => pc = "done" /\ Len(scores) = Len(holdout.labels)
===============================================================================
