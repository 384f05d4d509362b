--------------------------- MODULE TrainingSetProofs ---------------------------
(***************************************************************************)
(* Proofs about TrainingSet, for any users, articles and days, any events  *)
(* and impressions and any order of their delivery, and any model.         *)
(***************************************************************************)
EXTENDS TrainingSet, ListLemmas

-------------------------------------------------------------------------------
(* Finite sets.                                                            *)

LEMMA KeyFinite == IsFiniteSet(User) /\ IsFiniteSet(Article) /\ IsFiniteSet(Key)
<1>1. IsFiniteSet(User) /\ IsFiniteSet(Article) /\ IsFiniteSet(Day)
  BY CountsAssumption, FS_Interval DEF User, Article, Day
<1> DEFINE Triple == (User \X Article) \X Day
           f == [x \in Triple |-> [user |-> x[1][1], article |-> x[1][2], day |-> x[2]]]
<1>2. IsFiniteSet(Triple)
  BY <1>1, FS_Product
<1>3. IsFiniteSet({f[x] : x \in Triple})
  <2> HIDE DEF Triple, f
  <2> QED BY <1>2, ImageFinite
<1>4. \A k \in Key : \E x \in Triple : f[x] = k
  <2> TAKE k \in Key
  <2>1. k = [user |-> k.user, article |-> k.article, day |-> k.day]
    BY DEF Key
  <2>2. <<<<k.user, k.article>>, k.day>> \in Triple
    BY DEF Key
  <2> QED BY <2>1, <2>2
<1>5. Key \subseteq {f[x] : x \in Triple}
  <2> HIDE DEF Triple, f
  <2> QED BY <1>4
<1> HIDE DEF Triple, f
<1> QED BY <1>1, <1>3, <1>5, FS_Subset

(* What is made of keys is as finite as they are.                          *)
LEMMA LabelledFinite ==
  ASSUME NEW label, NEW S, \A r \in S : \E k \in Key : r = Labelled(k, label[k])
  PROVE  IsFiniteSet(S)
<1> DEFINE f == [k \in Key |-> Labelled(k, label[k])]
<1>1. \A r \in S : \E k \in Key : r = f[k]
  OBVIOUS
<1> HIDE DEF f
<1>2. S \subseteq {f[k] : k \in Key}
  BY <1>1
<1>3. IsFiniteSet({f[k] : k \in Key})
  BY KeyFinite, ImageFinite
<1> QED BY <1>2, <1>3, FS_Subset

LEMMA PositivesFinite == IsFiniteSet(Positives)
<1> DEFINE label == [k \in Key |-> Label(k)]
<1>1. \A r \in Positives : \E k \in Key : r = Labelled(k, label[k])
  BY DEF Positives
<1> HIDE DEF label
<1> QED BY <1>1, LabelledFinite

LEMMA PagesFinite ==
  ASSUME rows \in Seq(Row)
  PROVE  /\ IsFiniteSet(Pages)
         /\ \A p \in Pages : /\ p = [user |-> p.user, day |-> p.day]
                             /\ p.user \in User /\ p.day \in Day
<1> DEFINE f == [i \in DOMAIN rows |-> PageOf(rows[i])]
<1>1. IsFiniteSet(DOMAIN rows)
  <2>1. PICK n \in Nat : DOMAIN rows = 1..n
    OBVIOUS
  <2> QED BY <2>1, FS_Interval
<1>2. Pages = {f[i] : i \in DOMAIN rows}
  BY DEF Pages
<1>3. IsFiniteSet(Pages)
  <2> HIDE DEF f
  <2> QED BY <1>1, <1>2, ImageFinite
<1>4. \A i \in DOMAIN rows : rows[i] \in Row
  OBVIOUS
<1> QED BY <1>3, <1>4 DEF Pages, PageOf, Row

-------------------------------------------------------------------------------
(* The queries.                                                            *)

LEMMA LabelBound == ASSUME events \subseteq Event, NEW k PROVE Label(k) \in 0..MaxGrade
<1> DEFINE T == {0} \cup {e.grade : e \in {x \in events : KeyOf(x) = k}}
<1>1. \A e \in events : e.grade \in 0..MaxGrade
  BY DEF Event
<1>2. T \subseteq 0..MaxGrade /\ T # {}
  BY <1>1, CountsAssumption
<1> HIDE DEF T
<1>3. Max(T) \in 0..MaxGrade
  BY <1>2, CountsAssumption, Greatest
<1> QED BY <1>3 DEF T, Label

LEMMA LabelledRow ==
  ASSUME NEW k \in Key, NEW l \in 0..MaxGrade
  PROVE  /\ Labelled(k, l) \in Row /\ Labelled(k, l).label = l
         /\ KeyOf(Labelled(k, l)) = k /\ PageOf(Labelled(k, l)) = PageOf(k)
         /\ Labelled(k, l).article = k.article
BY DEF Labelled, Row, Key, KeyOf, PageOf

(* The positives are rows of a key each.                                   *)
LEMMA QueryShape ==
  ASSUME TypeOK, QueryPositives
  PROVE  /\ rows' \in Seq(Row)
         /\ \A i \in DOMAIN rows' : rows'[i].label > 0
         /\ \A i, j \in DOMAIN rows' : KeyOf(rows'[i]) = KeyOf(rows'[j]) => i = j
<1>1. PICK s \in SetToSeqs(Positives) : rows' = s
  BY DEF QueryPositives
<1>2. \A r \in Positives : \E k \in Key : /\ r = Labelled(k, Label(k)) /\ KeyOf(r) = k
                                          /\ r \in Row /\ r.label > 0
  <2> TAKE r \in Positives
  <2>1. PICK k \in Key : r = Labelled(k, Label(k)) /\ Label(k) > 0
    BY DEF Positives
  <2>2. Label(k) \in 0..MaxGrade
    BY LabelBound DEF TypeOK
  <2> QED BY <2>1, <2>2, LabelledRow
<1>3. \A r, q \in Positives : KeyOf(r) = KeyOf(q) => r = q
  <2> TAKE r, q \in Positives
  <2> HAVE KeyOf(r) = KeyOf(q)
  <2>1. r = Labelled(KeyOf(r), Label(KeyOf(r))) /\ q = Labelled(KeyOf(q), Label(KeyOf(q)))
    BY <1>2
  <2> QED BY <2>1
<1>4. /\ s \in Seq(Positives)
      /\ \A i, j \in DOMAIN s : s[i] = s[j] => i = j
  BY PositivesFinite, SetToSeqsProperties
<1>5. \A i \in DOMAIN s : s[i] \in Positives
  BY <1>4
<1>6. s \in Seq(Row)
  BY <1>2, <1>4
<1> QED BY <1>1, <1>2, <1>3, <1>4, <1>5, <1>6

-------------------------------------------------------------------------------
(* The negatives.                                                          *)

(* They follow the positives, and none was engaged with on its page.       *)
AddsNegatives(extra) ==
  /\ extra \in Seq(Row) /\ rows' = rows \o extra
  /\ \A i \in DOMAIN extra :
       extra[i].label = 0 /\ extra[i].article \notin Engaged(PageOf(extra[i]))

LEMMA IgnoredShape ==
  ASSUME TypeOK, AddIgnored PROVE \E extra : AddsNegatives(extra)
<1> DEFINE I == {i \in DOMAIN shown : Ignored(shown[i])}
           ignored == At(shown, I)
           extra == [i \in DOMAIN ignored |-> Labelled(KeyOf(ignored[i]), 0)]
<1>1. rows' = rows \o extra
  BY DEF AddIgnored
<1>2. /\ ignored \in Seq(Impression) /\ Len(ignored) = Cardinality(I) /\ Cardinality(I) \in Nat
      /\ \A n \in 1..Cardinality(I) : Nth(I, n) \in I /\ ignored[n] = shown[Nth(I, n)]
  <2>1. shown \in Seq(Impression) /\ I \in SUBSET DOMAIN shown
    BY DEF TypeOK
  <2> HIDE DEF I
  <2> QED BY <2>1, AtProperties
<1>3. \A n \in DOMAIN ignored : ignored[n] \in Impression /\ Ignored(ignored[n])
  BY <1>2
<1> HIDE DEF ignored
<1>4. \A n \in DOMAIN ignored : /\ KeyOf(ignored[n]) \in Key
                                /\ PageOf(KeyOf(ignored[n])) = PageOf(ignored[n])
                                /\ KeyOf(ignored[n]).article = ignored[n].article
  BY <1>3 DEF Impression, Key, KeyOf, PageOf
<1>5. \A n \in DOMAIN ignored :
        /\ extra[n] \in Row /\ extra[n].label = 0
        /\ extra[n].article = ignored[n].article /\ PageOf(extra[n]) = PageOf(ignored[n])
  <2> TAKE n \in DOMAIN ignored
  <2>1. 0 \in 0..MaxGrade
    BY CountsAssumption
  <2> QED BY <1>4, <2>1, LabelledRow
<1>6. extra \in Seq(Row)
  <2>1. PICK n \in Nat : DOMAIN ignored = 1..n
    <3>1. ignored \in Seq(Impression)
      BY <1>2
    <3> QED BY <3>1, LenProperties
  <2>2. extra \in [1..n -> Row]
    BY <1>5, <2>1
  <2> QED BY <2>2
<1>7. \A n \in DOMAIN extra : extra[n].article \notin Engaged(PageOf(extra[n]))
  BY <1>3, <1>5 DEF Ignored
<1> HIDE DEF extra
<1>8. DOMAIN extra = DOMAIN ignored
  BY DEF extra
<1> QED BY <1>1, <1>5, <1>6, <1>7, <1>8 DEF AddsNegatives

(* The rows that are sampled, and for which page and article each is.      *)
Sampled(pick) == UNION {{Labelled(On(p, a), 0) : a \in pick[p]} : p \in Pages}

LEMMA OnKey ==
  ASSUME rows \in Seq(Row), NEW p \in Pages, NEW a \in Article
  PROVE  /\ On(p, a) \in Key /\ PageOf(On(p, a)) = p /\ On(p, a).article = a
         /\ Labelled(On(p, a), 0) \in Row /\ Labelled(On(p, a), 0).label = 0
         /\ Labelled(On(p, a), 0).article = a /\ PageOf(Labelled(On(p, a), 0)) = p
         /\ KeyOf(Labelled(On(p, a), 0)) = On(p, a)
<1>1. p = [user |-> p.user, day |-> p.day] /\ p.user \in User /\ p.day \in Day
  BY PagesFinite
<1>2. On(p, a) \in Key /\ PageOf(On(p, a)) = p /\ On(p, a).article = a
  BY <1>1 DEF On, Key, PageOf
<1>3. 0 \in 0..MaxGrade
  BY CountsAssumption
<1> QED BY <1>2, <1>3, LabelledRow

LEMMA SampledShape ==
  ASSUME rows \in Seq(Row), NEW pick, \A p \in Pages : pick[p] \subseteq Article
  PROVE  /\ IsFiniteSet(Sampled(pick))
         /\ \A r \in Sampled(pick) :
              /\ r \in Row /\ r.label = 0 /\ r = Labelled(KeyOf(r), 0)
              /\ PageOf(r) \in Pages /\ r.article \in pick[PageOf(r)]
<1>1. \A r \in Sampled(pick) : \E p \in Pages : \E a \in pick[p] :
        r = Labelled(On(p, a), 0) /\ a \in Article
  BY DEF Sampled
<1>2. \A r \in Sampled(pick) :
        /\ r \in Row /\ r.label = 0 /\ r = Labelled(KeyOf(r), 0) /\ KeyOf(r) \in Key
        /\ PageOf(r) \in Pages /\ r.article \in pick[PageOf(r)]
  <2> TAKE r \in Sampled(pick)
  <2>1. PICK p \in Pages : \E a \in pick[p] : r = Labelled(On(p, a), 0) /\ a \in Article
    BY <1>1
  <2>2. PICK a \in pick[p] : r = Labelled(On(p, a), 0) /\ a \in Article
    BY <2>1
  <2> QED BY <2>2, OnKey
<1> DEFINE label == [k \in Key |-> 0]
<1>3. \A r \in Sampled(pick) : \E k \in Key : r = Labelled(k, label[k])
  BY <1>2
<1>4. IsFiniteSet(Sampled(pick))
  <2> HIDE DEF label
  <2> QED BY <1>3, LabelledFinite
<1> QED BY <1>2, <1>4

(* What a step of AddSampled adds: a list of the rows that it picked.      *)
LEMMA SampleShape ==
  ASSUME TypeOK, AddSampled
  PROVE  \E pick, extra :
           /\ \A p \in Pages : /\ pick[p] \subseteq Article /\ pick[p] \subseteq Untouched(p)
                               /\ Cardinality(pick[p]) = SampleSize(p)
           /\ extra \in SetToSeqs(Sampled(pick))
           /\ AddsNegatives(extra)
<1>1. PICK pick \in [Pages -> SUBSET Article] :
        /\ \A p \in Pages : pick[p] \in kSubset(SampleSize(p), Untouched(p))
        /\ rows' = rows \o SetToSeq(Sampled(pick))
  BY DEF AddSampled, Sampled
<1>2. \A p \in Pages : /\ pick[p] \subseteq Article /\ pick[p] \subseteq Untouched(p)
                       /\ Cardinality(pick[p]) = SampleSize(p)
  BY <1>1 DEF kSubset
<1>3. rows \in Seq(Row)
  BY DEF TypeOK
<1>4. /\ IsFiniteSet(Sampled(pick))
      /\ \A r \in Sampled(pick) : /\ r \in Row /\ r.label = 0
                                  /\ PageOf(r) \in Pages /\ r.article \in pick[PageOf(r)]
  BY <1>2, <1>3, SampledShape
<1> DEFINE extra == SetToSeq(Sampled(pick))
<1>5. extra \in SetToSeqs(Sampled(pick))
  BY <1>4, SetToSeqIsOne
<1> HIDE DEF extra
<1>6. extra \in Seq(Sampled(pick))
  BY <1>4, <1>5, SetToSeqsProperties
<1>7. extra \in Seq(Row)
  BY <1>4, <1>6
<1>8. \A i \in DOMAIN extra : extra[i] \in Sampled(pick)
  BY <1>6
<1>9. \A i \in DOMAIN extra :
        extra[i].label = 0 /\ extra[i].article \notin Engaged(PageOf(extra[i]))
  BY <1>2, <1>4, <1>8 DEF Untouched
<1>10. rows' = rows \o extra
  BY <1>1 DEF extra
<1>11. AddsNegatives(extra)
  BY <1>7, <1>9, <1>10 DEF AddsNegatives
<1> QED BY <1>2, <1>5, <1>11

-------------------------------------------------------------------------------
(* The matrix.                                                             *)

(* The keys of a list of rows, and the labels.                             *)
KeysOf(s) == [i \in DOMAIN s |-> KeyOf(s[i])]
LabelsOf(s) == [i \in DOMAIN s |-> s[i].label]

LEMMA ListsOfRows ==
  ASSUME NEW s \in Seq(Row)
  PROVE  /\ KeysOf(s) \in Seq(Key) /\ Len(KeysOf(s)) = Len(s)
         /\ LabelsOf(s) \in Seq(0..MaxGrade) /\ Len(LabelsOf(s)) = Len(s)
         /\ DOMAIN KeysOf(s) = DOMAIN s /\ DOMAIN LabelsOf(s) = DOMAIN s
         /\ \A i \in DOMAIN s : KeysOf(s)[i] = KeyOf(s[i]) /\ LabelsOf(s)[i] = s[i].label
<1>1. PICK n \in Nat : n = Len(s)
  OBVIOUS
<1>2. DOMAIN s = 1..n
  BY <1>1
<1>3. \A i \in 1..n : s[i] \in Row
  BY <1>2
<1>4. \A i \in 1..n : KeyOf(s[i]) \in Key /\ s[i].label \in 0..MaxGrade
  BY <1>3 DEF Row, Key, KeyOf
<1>5. KeysOf(s) \in [1..n -> Key] /\ LabelsOf(s) \in [1..n -> 0..MaxGrade]
  BY <1>2, <1>4 DEF KeysOf, LabelsOf
<1>6. /\ KeysOf(s) \in Seq(Key) /\ Len(KeysOf(s)) = n
      /\ LabelsOf(s) \in Seq(0..MaxGrade) /\ Len(LabelsOf(s)) = n
  <2> DEFINE a == KeysOf(s)
             b == LabelsOf(s)
  <2>1. a \in [1..n -> Key] /\ b \in [1..n -> 0..MaxGrade]
    BY <1>5
  <2> HIDE DEF a, b
  <2>2. a \in Seq(Key) /\ Len(a) = n
    BY <2>1, FunctionIsList
  <2>3. b \in Seq(0..MaxGrade) /\ Len(b) = n
    BY <2>1, FunctionIsList
  <2> QED BY <2>2, <2>3 DEF a, b
<1> QED BY <1>1, <1>2, <1>5, <1>6 DEF KeysOf, LabelsOf

LEMMA RowsOfPage ==
  ASSUME rows \in Seq(Row), NEW p
  PROVE  /\ RowsOf(p) \in Seq(Row) /\ Len(RowsOf(p)) \in Nat
         /\ Len(RowsOf(p)) = Cardinality({i \in DOMAIN rows : PageOf(rows[i]) = p})
         /\ \A n \in 1..Len(RowsOf(p)) : PageOf(RowsOf(p)[n]) = p
         /\ p \in Pages => Len(RowsOf(p)) > 0
<1> DEFINE I == {i \in DOMAIN rows : PageOf(rows[i]) = p}
<1>1. /\ RowsOf(p) \in Seq(Row) /\ Len(RowsOf(p)) = Cardinality(I) /\ Cardinality(I) \in Nat
      /\ \A n \in 1..Cardinality(I) : Nth(I, n) \in I /\ RowsOf(p)[n] = rows[Nth(I, n)]
      /\ \A i \in I : \E n \in 1..Cardinality(I) : Nth(I, n) = i
  <2>1. RowsOf(p) = At(rows, I) /\ I \in SUBSET DOMAIN rows
    BY DEF RowsOf
  <2> HIDE DEF I
  <2> QED BY <2>1, AtProperties
<1>2. p \in Pages => I # {}
  BY DEF Pages
<1> QED BY <1>1, <1>2

(* _featurize: four lists, of a run of rows for each page.                 *)
IsMatrixOf(m, pages) ==
  /\ m.rows \in Seq(Key) /\ m.labels \in Seq(0..MaxGrade)
  /\ m.groups \in Seq(Nat) /\ m.days \in Seq(Day)
  /\ Len(m.groups) = Len(pages)
  /\ \A i \in 1..Len(pages) : /\ m.groups[i] = Len(RowsOf(pages[i]))
                              /\ m.days[i] = pages[i].day
                              /\ Run(m.rows, m.groups, i) = KeysOf(RowsOf(pages[i]))
                              /\ Run(m.labels, m.groups, i) = LabelsOf(RowsOf(pages[i]))

LEMMA MatrixShape ==
  ASSUME rows \in Seq(Row), NEW pages \in SetToSeqs(Pages)
  PROVE  IsMatrixOf(MatrixOf(pages), pages)
<1>1. /\ pages \in Seq(Pages) /\ Len(pages) \in Nat
      /\ \A p \in Pages : p.day \in Day
  BY PagesFinite, SetToSeqsProperties
<1>2. PICK n \in Nat : n = Len(pages)
  BY <1>1
<1>3. DOMAIN pages = 1..n /\ \A i \in 1..n : pages[i] \in Pages
  BY <1>1, <1>2
<1> DEFINE ss == [i \in DOMAIN pages |-> RowsOf(pages[i])]
           all == FlattenSeq(ss)
           m == MatrixOf(pages)
<1>4. \A i \in 1..n : ss[i] = RowsOf(pages[i]) /\ ss[i] \in Seq(Row) /\ Len(ss[i]) \in Nat
  BY <1>3, RowsOfPage
<1>5. /\ m.rows = KeysOf(all) /\ m.labels = LabelsOf(all)
      /\ m.groups = [i \in DOMAIN pages |-> Len(RowsOf(pages[i]))]
      /\ m.days = [i \in DOMAIN pages |-> pages[i].day]
  BY DEF MatrixOf, KeysOf, LabelsOf
<1>6. ss \in [1..n -> Seq(Row)]
  <2>1. DOMAIN ss = 1..n /\ ss = [i \in 1..n |-> RowsOf(pages[i])]
    BY <1>3
  <2> QED BY <1>4, <2>1
<1> HIDE DEF ss, m
<1>7. ss \in Seq(Seq(Row)) /\ Len(ss) = n
  BY <1>6
<1>8. \A i \in 1..n : m.groups[i] = Len(ss[i]) /\ m.days[i] = pages[i].day
  BY <1>3, <1>4, <1>5
<1>9. m.groups \in [1..n -> Nat] /\ m.days \in [1..n -> Day]
  <2>1. \A i \in 1..n : m.groups[i] \in Nat /\ m.days[i] \in Day
    BY <1>1, <1>3, <1>4, <1>8
  <2> QED BY <1>3, <1>5, <2>1
<1>10. m.groups \in Seq(Nat) /\ Len(m.groups) = n /\ m.days \in Seq(Day)
  BY <1>9
<1>11. /\ all \in Seq(Row)
       /\ \A i \in 1..n : StandsAt(ss[i], all, Offset(m.groups, i))
  BY <1>7, <1>8, <1>10, FlattenRuns
<1> HIDE DEF all
<1>12. /\ m.rows \in Seq(Key) /\ m.labels \in Seq(0..MaxGrade)
       /\ Len(m.rows) = Len(all) /\ Len(m.labels) = Len(all)
       /\ \A x \in DOMAIN all : m.rows[x] = KeyOf(all[x]) /\ m.labels[x] = all[x].label
  BY <1>5, <1>11, ListsOfRows
<1>13. ASSUME NEW i \in 1..n
       PROVE  /\ Run(m.rows, m.groups, i) = KeysOf(ss[i])
              /\ Run(m.labels, m.groups, i) = LabelsOf(ss[i])
  <2>1. /\ KeysOf(ss[i]) \in Seq(Key) /\ Len(KeysOf(ss[i])) = Len(ss[i])
        /\ LabelsOf(ss[i]) \in Seq(0..MaxGrade) /\ Len(LabelsOf(ss[i])) = Len(ss[i])
        /\ \A k \in DOMAIN ss[i] : /\ KeysOf(ss[i])[k] = KeyOf(ss[i][k])
                                   /\ LabelsOf(ss[i])[k] = ss[i][k].label
    BY <1>4, ListsOfRows
  <2>2. PICK o \in Nat : o = Offset(m.groups, i)
    <3>1. i \in 1..Len(m.groups) + 1
      BY <1>10
    <3>2. Offset(m.groups, i) \in Nat
      BY <1>10, <3>1, OffsetProperties
    <3> QED BY <3>2
  <2>3. StandsAt(ss[i], all, o)
    BY <1>11, <2>2
  <2>4. \A k \in 1..Len(ss[i]) : o + k \in DOMAIN all /\ all[o + k] = ss[i][k]
    BY <1>11, <2>3 DEF StandsAt
  <2>5. DOMAIN ss[i] = 1..Len(ss[i])
    BY <1>4
  <2>6. \A k \in 1..Len(ss[i]) : /\ m.rows[o + k] = KeysOf(ss[i])[k]
                                 /\ m.labels[o + k] = LabelsOf(ss[i])[k]
    <3> TAKE k \in 1..Len(ss[i])
    <3>1. o + k \in DOMAIN all /\ all[o + k] = ss[i][k]
      BY <2>4, Zenon
    <3>2. m.rows[o + k] = KeyOf(ss[i][k]) /\ m.labels[o + k] = ss[i][k].label
      BY <1>12, <3>1, Zenon
    <3>3. KeysOf(ss[i])[k] = KeyOf(ss[i][k]) /\ LabelsOf(ss[i])[k] = ss[i][k].label
      BY <2>1, <2>5, Zenon
    <3> QED BY <3>2, <3>3, Zenon
  <2>7. DOMAIN all = 1..Len(all)
    BY <1>11
  <2>8. StandsAt(KeysOf(ss[i]), m.rows, o) /\ StandsAt(LabelsOf(ss[i]), m.labels, o)
    BY <1>12, <2>1, <2>4, <2>6, <2>7 DEF StandsAt
  <2>9. Offset(m.groups, i) \in Nat /\ m.groups[i] = Len(ss[i])
    BY <1>8, <2>2
  <2>10. Run(m.rows, m.groups, i) = KeysOf(ss[i])
    BY SMTT(30), <1>12, <2>1, <2>2, <2>8, <2>9, RunIs
  <2>11. Run(m.labels, m.groups, i) = LabelsOf(ss[i])
    BY <1>12, <2>1, <2>2, <2>8, <2>9, RunIs
  <2> QED BY <2>10, <2>11
<1> QED BY <1>2, <1>4, <1>8, <1>10, <1>12, <1>13 DEF IsMatrixOf, m

(* _partition: the runs of the pages that it keeps, and nothing else.      *)
IsPartOf(side, pages, kept) ==
  /\ side \in Side
  /\ Len(side.groups) = Cardinality(kept)
  /\ Len(side.rows) = Offset(side.groups, Len(side.groups) + 1)
  /\ Len(side.labels) = Offset(side.groups, Len(side.groups) + 1)
  /\ \A n \in 1..Cardinality(kept) :
       /\ Nth(kept, n) \in kept
       /\ Run(side.rows, side.groups, n) = KeysOf(RowsOf(pages[Nth(kept, n)]))
       /\ Run(side.labels, side.groups, n) = LabelsOf(RowsOf(pages[Nth(kept, n)]))
  /\ \A x \in DOMAIN side.rows : \E i \in kept : PageOf(side.rows[x]) = pages[i]
  /\ \A i \in kept : \E x \in DOMAIN side.rows : PageOf(side.rows[x]) = pages[i]

LEMMA PartShape ==
  ASSUME rows \in Seq(Row), NEW pages \in SetToSeqs(Pages), NEW m, IsMatrixOf(m, pages),
         NEW keep, DOMAIN keep = DOMAIN m.groups
  PROVE  IsPartOf(Part(m, keep), pages, {i \in DOMAIN keep : keep[i]})
<1> DEFINE kept == {i \in DOMAIN keep : keep[i]}
           kk == Runs(m.rows, m.groups)
           ll == Runs(m.labels, m.groups)
           side == Part(m, keep)
<1>1. PICK n \in Nat : n = Len(pages)
  BY PagesFinite, SetToSeqsProperties
<1>2. /\ pages \in Seq(Pages) /\ m.groups \in Seq(Nat) /\ Len(m.groups) = n
      /\ \A i \in 1..n : /\ m.groups[i] = Len(RowsOf(pages[i]))
                        /\ Run(m.rows, m.groups, i) = KeysOf(RowsOf(pages[i]))
                        /\ Run(m.labels, m.groups, i) = LabelsOf(RowsOf(pages[i]))
  BY <1>1, PagesFinite, SetToSeqsProperties DEF IsMatrixOf
<1>3. DOMAIN m.groups = 1..n /\ DOMAIN pages = 1..n
  BY <1>1, <1>2
<1>4. \A i \in 1..n : /\ kk[i] = KeysOf(RowsOf(pages[i])) /\ kk[i] \in Seq(Key)
                     /\ ll[i] = LabelsOf(RowsOf(pages[i])) /\ ll[i] \in Seq(0..MaxGrade)
                     /\ m.groups[i] = Len(kk[i]) /\ m.groups[i] = Len(ll[i])
  <2> TAKE i \in 1..n
  <2>1. kk[i] = Run(m.rows, m.groups, i) /\ ll[i] = Run(m.labels, m.groups, i)
    BY <1>3 DEF Runs
  <2>2. RowsOf(pages[i]) \in Seq(Row)
    BY RowsOfPage
  <2> QED BY <1>2, <2>1, <2>2, ListsOfRows
<1>5. kk \in [1..n -> Seq(Key)] /\ ll \in [1..n -> Seq(0..MaxGrade)]
  <2>1. DOMAIN kk = 1..n /\ kk = [i \in 1..n |-> Run(m.rows, m.groups, i)]
    BY <1>3 DEF Runs
  <2>2. DOMAIN ll = 1..n /\ ll = [i \in 1..n |-> Run(m.labels, m.groups, i)]
    BY <1>3 DEF Runs
  <2> HIDE DEF kk, ll
  <2> QED BY <1>4, <2>1, <2>2
<1>6. kept \in SUBSET (1..n)
  BY <1>3
<1>7. /\ side.rows = FlattenSeq(At(kk, kept)) /\ side.labels = FlattenSeq(At(ll, kept))
      /\ side.groups = At(m.groups, kept)
      /\ side = [rows |-> side.rows, labels |-> side.labels, groups |-> side.groups]
  BY DEF Part
<1> HIDE DEF kk, ll, side, kept
<1>8. kk \in Seq(Seq(Key)) /\ Len(kk) = n /\ DOMAIN kk = 1..n
  BY <1>5, FunctionIsList
<1>9. ll \in Seq(Seq(0..MaxGrade)) /\ Len(ll) = n /\ DOMAIN ll = 1..n
  BY <1>5, FunctionIsList
<1>10. /\ side.groups \in Seq(Nat) /\ Len(side.groups) = Cardinality(kept)
       /\ side.rows \in Seq(Key)
       /\ Len(side.rows) = Offset(side.groups, Len(side.groups) + 1)
       /\ \A x \in 1..Cardinality(kept) :
            Nth(kept, x) \in kept /\ Run(side.rows, side.groups, x) = kk[Nth(kept, x)]
       /\ \A x \in 1..Len(side.rows) :
            \E i \in kept : \E k \in 1..Len(kk[i]) : side.rows[x] = kk[i][k]
       /\ \A i \in kept : \A k \in 1..Len(kk[i]) :
            \E x \in 1..Len(side.rows) : side.rows[x] = kk[i][k]
  <2>1. /\ Len(m.groups) = Len(kk) /\ kept \in SUBSET DOMAIN kk
        /\ \A i \in 1..Len(kk) : m.groups[i] = Len(kk[i])
    BY <1>2, <1>4, <1>6, <1>8
  <2> DEFINE flat == FlattenSeq(At(kk, kept))
             cut == At(m.groups, kept)
  <2>2. IsCut(flat, cut, Key, kk, kept)
    BY <1>2, <1>8, <2>1, PartRuns
  <2>3. side.rows = flat /\ side.groups = cut
    BY <1>7
  <2> HIDE DEF flat, cut
  <2> QED BY <2>2, <2>3 DEF IsCut
<1>11. /\ side.labels \in Seq(0..MaxGrade)
       /\ Len(side.labels) = Offset(side.groups, Len(side.groups) + 1)
       /\ \A x \in 1..Cardinality(kept) :
            Run(side.labels, side.groups, x) = ll[Nth(kept, x)]
  <2>1. /\ Len(m.groups) = Len(ll) /\ kept \in SUBSET DOMAIN ll
        /\ \A i \in 1..Len(ll) : m.groups[i] = Len(ll[i])
    BY <1>2, <1>4, <1>6, <1>9
  <2> DEFINE flat == FlattenSeq(At(ll, kept))
             cut == At(m.groups, kept)
  <2>2. IsCut(flat, cut, 0..MaxGrade, ll, kept)
    BY <1>2, <1>9, <2>1, PartRuns
  <2>3. side.labels = flat /\ side.groups = cut
    BY <1>7
  <2> HIDE DEF flat, cut
  <2> QED BY <2>2, <2>3 DEF IsCut
<1>12. side \in Side
  BY <1>7, <1>10, <1>11 DEF Side
<1>13. \A x \in 1..Cardinality(kept) :
         /\ Nth(kept, x) \in kept
         /\ Run(side.rows, side.groups, x) = KeysOf(RowsOf(pages[Nth(kept, x)]))
         /\ Run(side.labels, side.groups, x) = LabelsOf(RowsOf(pages[Nth(kept, x)]))
  <2> TAKE x \in 1..Cardinality(kept)
  <2>1. Nth(kept, x) \in kept /\ Nth(kept, x) \in 1..n
    BY <1>6, <1>10
  <2> QED BY <1>4, <1>10, <1>11, <2>1
<1>14. \A i \in kept : \A k \in 1..Len(kk[i]) : PageOf(kk[i][k]) = pages[i]
  <2> TAKE i \in kept
  <2> TAKE k \in 1..Len(kk[i])
  <2>1. i \in 1..n /\ kk[i] = KeysOf(RowsOf(pages[i]))
    BY <1>4, <1>6
  <2>2. /\ RowsOf(pages[i]) \in Seq(Row)
        /\ \A y \in 1..Len(RowsOf(pages[i])) : PageOf(RowsOf(pages[i])[y]) = pages[i]
    BY RowsOfPage
  <2>3. k \in 1..Len(RowsOf(pages[i])) /\ k \in DOMAIN RowsOf(pages[i])
    BY <2>1, <2>2, ListsOfRows
  <2>4. kk[i][k] = KeyOf(RowsOf(pages[i])[k])
    BY <2>1, <2>2, <2>3, ListsOfRows
  <2> QED BY <2>2, <2>3, <2>4 DEF PageOf, KeyOf
<1>15. \A i \in kept : 1 \in 1..Len(kk[i])
  <2> TAKE i \in kept
  <2>1. i \in 1..n /\ Len(kk[i]) = Len(RowsOf(pages[i])) /\ pages[i] \in Pages
    BY <1>2, <1>3, <1>4, <1>6
  <2>2. Len(RowsOf(pages[i])) \in Nat /\ Len(RowsOf(pages[i])) > 0
    BY <2>1, RowsOfPage
  <2> QED BY <2>1, <2>2
<1>16. DOMAIN side.rows = 1..Len(side.rows)
  BY <1>10
<1>17. \A x \in DOMAIN side.rows : \E i \in kept : PageOf(side.rows[x]) = pages[i]
  BY <1>10, <1>14, <1>16
<1>18. \A i \in kept : \E x \in DOMAIN side.rows : PageOf(side.rows[x]) = pages[i]
  <2> TAKE i \in kept
  <2>1. PageOf(kk[i][1]) = pages[i] /\ 1 \in 1..Len(kk[i])
    BY <1>14, <1>15
  <2>2. PICK x \in 1..Len(side.rows) : side.rows[x] = kk[i][1]
    BY <1>10, <2>1
  <2> QED BY <1>16, <2>1, <2>2
<1>19. IsPartOf(side, pages, kept)
  BY <1>10, <1>11, <1>12, <1>13, <1>17, <1>18 DEF IsPartOf
<1> QED BY <1>19 DEF side, kept

(* _temporal_split: the pages of the holdout, by their place.              *)
Late(pages) == {i \in DOMAIN pages : pages[i].day >= Today - HoldoutDays}
Early(pages) == DOMAIN pages \ Late(pages)

LEMMA SplitShape ==
  ASSUME TypeOK, MatrixInv, Split
  PROVE  \E pages \in SetToSeqs(Pages) : /\ IsPartOf(train', pages, Early(pages))
                                        /\ IsPartOf(holdout', pages, Late(pages))
<1>1. PICK pages \in SetToSeqs(Pages) : matrix = MatrixOf(pages)
  BY DEF MatrixInv, Split
<1>2. rows \in Seq(Row) /\ train' = TrainSide(matrix) /\ holdout' = HoldoutSide(matrix)
  BY DEF TypeOK, Split
<1>3. IsMatrixOf(matrix, pages)
  BY <1>1, <1>2, MatrixShape
<1>4. PICK n \in Nat : n = Len(pages)
  BY <1>2, PagesFinite, SetToSeqsProperties
<1>5. /\ pages \in Seq(Pages) /\ matrix.groups \in Seq(Nat) /\ Len(matrix.groups) = n
      /\ \A i \in 1..n : matrix.days[i] = pages[i].day
  BY <1>2, <1>3, <1>4, PagesFinite, SetToSeqsProperties DEF IsMatrixOf
<1>6. DOMAIN matrix.groups = 1..n /\ DOMAIN pages = 1..n
  BY <1>4, <1>5
<1> DEFINE late == [i \in DOMAIN matrix.groups |-> IsHoldout(matrix, i)]
           early == [i \in DOMAIN matrix.groups |-> ~IsHoldout(matrix, i)]
<1>7. {i \in DOMAIN late : late[i]} = Late(pages) /\ {i \in DOMAIN early : early[i]} = Early(pages)
  BY <1>5, <1>6 DEF IsHoldout, Late, Early
<1>8. /\ train' = Part(matrix, early) /\ holdout' = Part(matrix, late)
      /\ DOMAIN late = DOMAIN matrix.groups /\ DOMAIN early = DOMAIN matrix.groups
  BY <1>2 DEF TrainSide, HoldoutSide
<1> HIDE DEF late, early
<1>9. IsPartOf(train', pages, Early(pages))
  BY <1>2, <1>3, <1>7, <1>8, PartShape
<1>10. IsPartOf(holdout', pages, Late(pages))
  BY <1>2, <1>3, <1>7, <1>8, PartShape
<1> QED BY <1>9, <1>10

-------------------------------------------------------------------------------
(* Types, and what the later steps may rely on.                            *)

LEMMA TypeInit == Init => TypeOK
BY DEF Init, TypeOK, NoMatrix, NoSide, Side, Step, Exit, Mode

LEMMA TypeStep ==
  ASSUME TypeOK, MatrixInv, [Next]_vars
  PROVE  TypeOK'
<1> DEFINE MatrixOK(m) ==
             /\ m.days \in Seq(Day)
             /\ [rows |-> m.rows, labels |-> m.labels, groups |-> m.groups] \in Side
           TablesOK == /\ events \subseteq Event /\ shown \in Seq(Impression)
                       /\ logged \in BOOLEAN /\ mode \in Mode
           RestOK == /\ counted \subseteq Event /\ MatrixOK(matrix)
                     /\ train \in Side /\ holdout \in Side /\ scores \in Seq(Scores)
<1>1. TypeOK <=> TablesOK /\ pc \in Step /\ exit \in Exit /\ rows \in Seq(Row) /\ RestOK
  BY DEF TypeOK
<1>2. TypeOK' <=> TablesOK' /\ pc' \in Step /\ exit' \in Exit /\ rows' \in Seq(Row) /\ RestOK'
  BY DEF TypeOK
<1>3. UNCHANGED tables => TablesOK'
  BY DEF TypeOK, tables
<1>4. UNCHANGED <<counted, matrix, train, holdout, scores>> => RestOK'
  BY DEF TypeOK
<1>5. \A e \in Exit : Finish(e) => pc' \in Step /\ exit' \in Exit
  BY DEF Finish, Step, Exit
<1>6. \A s \in Step : Goto(s) => pc' \in Step /\ exit' \in Exit
  BY DEF Goto, TypeOK
<1>7. /\ {"positives", "negatives", "features", "matrix", "split", "train"} \subseteq Step
      /\ {"ok", "nothing to do", "infra"} \subseteq Exit
  BY DEF Step, Exit
<1>8. CASE \E e \in Event : Engage(e)
  <2>1. PICK e \in Event : Engage(e)
    BY <1>8
  <2>2. TablesOK'
    BY <2>1 DEF Engage, TypeOK
  <2> QED BY <1>1, <1>2, <1>4, <2>1, <2>2 DEF Engage
<1>9. CASE \E i \in Impression : Show(i)
  <2>1. PICK i \in Impression : Show(i)
    BY <1>9
  <2>2. shown' \in Seq(Impression)
    BY <2>1 DEF Show, TypeOK
  <2>3. TablesOK'
    BY <2>1, <2>2 DEF Show, TypeOK
  <2> QED BY <1>1, <1>2, <1>4, <2>1, <2>3 DEF Show
<1>10. CASE Start
  <2> QED BY <1>1, <1>2, <1>3, <1>4, <1>5, <1>6, <1>7, <1>10 DEF Start
<1>11. CASE QueryPositives
  <2>1. rows' \in Seq(Row)
    BY <1>11, QueryShape
  <2> QED BY <1>1, <1>2, <1>3, <1>4, <1>5, <1>6, <1>7, <1>11, <2>1 DEF QueryPositives
<1>12. ASSUME NEW extra, AddsNegatives(extra) PROVE rows' \in Seq(Row)
  <2>1. rows \in Seq(Row) /\ extra \in Seq(Row) /\ rows' = rows \o extra
    BY <1>1, <1>12 DEF AddsNegatives
  <2> QED BY <2>1, ConcatProperties
<1>13. CASE AddIgnored
  <2>1. rows' \in Seq(Row)
    BY <1>12, <1>13, IgnoredShape
  <2> QED BY <1>2, <1>3, <1>4, <1>6, <1>7, <1>13, <2>1 DEF AddIgnored
<1>14. CASE AddSampled
  <2>1. rows' \in Seq(Row)
    BY <1>12, <1>14, SampleShape
  <2> QED BY <1>2, <1>3, <1>4, <1>6, <1>7, <1>14, <2>1 DEF AddSampled
<1>15. CASE BuildFeatures
  <2>1. RestOK'
    BY <1>1, <1>15 DEF BuildFeatures
  <2> QED BY <1>1, <1>2, <1>3, <1>6, <1>7, <1>15, <2>1 DEF BuildFeatures
<1>16. CASE SourceDown
  <2> QED BY <1>1, <1>2, <1>3, <1>4, <1>5, <1>7, <1>16 DEF SourceDown
<1>17. CASE Featurize
  <2>1. PICK pages \in SetToSeqs(Pages) : matrix' = MatrixOf(pages)
    BY <1>17 DEF Featurize
  <2>2. IsMatrixOf(matrix', pages)
    BY <1>1, <2>1, MatrixShape
  <2>3. MatrixOK(matrix')
    BY <2>2 DEF IsMatrixOf, Side
  <2>4. RestOK'
    BY <1>1, <1>17, <2>3 DEF Featurize
  <2> QED BY <1>1, <1>2, <1>3, <1>6, <1>7, <1>17, <2>4 DEF Featurize
<1>18. CASE StoreDown
  <2> QED BY <1>1, <1>2, <1>3, <1>4, <1>5, <1>7, <1>18 DEF StoreDown
<1>19. CASE Refuse
  <2> QED BY <1>1, <1>2, <1>3, <1>4, <1>5, <1>7, <1>19 DEF Refuse
<1>20. CASE Split
  <2>1. train' \in Side /\ holdout' \in Side
    BY <1>20, SplitShape DEF IsPartOf
  <2>2. RestOK'
    BY <1>1, <1>20, <2>1 DEF Split
  <2> QED BY <1>1, <1>2, <1>3, <1>6, <1>7, <1>20, <2>2 DEF Split
<1>21. CASE Train
  <2>1. PICK s \in [DOMAIN holdout.labels -> Scores] : scores' = s
    BY <1>21 DEF Train
  <2>2. holdout.labels \in Seq(0..MaxGrade)
    BY <1>1 DEF Side
  <2>3. s \in Seq(Scores)
    <3>1. PICK n \in Nat : n = Len(holdout.labels)
      BY <2>2
    <3>2. DOMAIN holdout.labels = 1..n
      BY <2>2, <3>1
    <3> QED BY <2>1, <3>2, FunctionIsList
  <2>4. RestOK'
    BY <1>1, <1>21, <2>1, <2>3 DEF Train
  <2> QED BY <1>1, <1>2, <1>3, <1>5, <1>7, <1>21, <2>4 DEF Train
<1>22. CASE UNCHANGED vars
  <2> QED BY <1>1, <1>2, <1>3, <1>4, <1>22 DEF vars, tables
<1> QED BY <1>8, <1>9, <1>10, <1>11, <1>13, <1>14, <1>15, <1>16, <1>17, <1>18, <1>19, <1>20,
           <1>21, <1>22 DEF Next

(* Only the queries for positives and negatives change the rows.           *)
LEMMA RowsStep ==
  ASSUME [Next]_vars
  PROVE  \/ /\ rows' = rows
            /\ \/ pc' = pc \/ ~(pc' \in {"idle", "positives", "negatives"})
               \/ pc = "idle" /\ pc' = "positives"
         \/ QueryPositives \/ AddIgnored \/ AddSampled
<1>1. CASE \E e \in Event : Engage(e)
  BY <1>1 DEF Engage
<1>2. CASE \E i \in Impression : Show(i)
  BY <1>2 DEF Show
<1>3. CASE Start \/ BuildFeatures \/ SourceDown
  BY <1>3 DEF Start, BuildFeatures, SourceDown, Goto, Finish
<1>4. CASE Featurize \/ StoreDown \/ Refuse
  BY <1>4 DEF Featurize, StoreDown, Refuse, Goto, Finish
<1>5. CASE Split \/ Train
  BY <1>5 DEF Split, Train, Goto, Finish
<1>6. CASE UNCHANGED vars
  BY <1>6 DEF vars
<1> QED BY <1>1, <1>2, <1>3, <1>4, <1>5, <1>6 DEF Next

LEMMA PositivesStep ==
  ASSUME TypeOK, PositivesInv, [Next]_vars
  PROVE  PositivesInv'
<1>1. CASE /\ rows' = rows
           /\ \/ pc' = pc \/ ~(pc' \in {"idle", "positives", "negatives"})
              \/ pc = "idle" /\ pc' = "positives"
  BY <1>1 DEF PositivesInv
<1>2. CASE QueryPositives
  BY <1>2, QueryShape DEF PositivesInv
<1>3. CASE AddIgnored \/ AddSampled
  <2>1. pc' = "features"
    BY <1>3 DEF AddIgnored, AddSampled, Goto
  <2> QED BY <2>1 DEF PositivesInv
<1> QED BY <1>1, <1>2, <1>3, RowsStep

(* As long as the rows stay, so do the pages and what is made of them.     *)
LEMMA SameRows ==
  ASSUME rows' = rows
  PROVE  /\ Pages' = Pages
         /\ \A p : RowsOf(p)' = RowsOf(p)
         /\ \A pages : MatrixOf(pages)' = MatrixOf(pages)
<1>1. \A p : RowsOf(p)' = RowsOf(p)
  BY DEF RowsOf
<1> QED BY <1>1 DEF Pages, MatrixOf

LEMMA MatrixStep ==
  ASSUME MatrixInv, [Next]_vars
  PROVE  MatrixInv'
<1> SUFFICES ASSUME pc' = "split"
             PROVE  \E pages \in SetToSeqs(Pages') : matrix' = MatrixOf(pages)'
  BY DEF MatrixInv
<1>1. CASE rows' = rows /\ matrix' = matrix /\ pc = "split"
  BY <1>1, SameRows DEF MatrixInv
<1>2. CASE Featurize
  <2>1. rows' = rows
    BY <1>2 DEF Featurize
  <2>2. PICK pages \in SetToSeqs(Pages) : matrix' = MatrixOf(pages)
    BY <1>2 DEF Featurize
  <2> QED BY <2>1, <2>2, SameRows
<1>3. ~(\/ \E e \in Event : Engage(e)
        \/ \E i \in Impression : Show(i))
  BY DEF Engage, Show, Open
<1>4. ~(Start \/ BuildFeatures \/ SourceDown \/ StoreDown \/ Refuse \/ Split \/ Train)
  BY DEF Start, BuildFeatures, SourceDown, StoreDown, Refuse, Split, Train, Goto, Finish
<1>5. ~(QueryPositives \/ AddIgnored \/ AddSampled)
  BY DEF QueryPositives, AddIgnored, AddSampled, Goto, Finish
<1>6. CASE UNCHANGED vars
  BY <1>1, <1>6 DEF vars
<1> QED BY <1>2, <1>3, <1>4, <1>5, <1>6 DEF Next

(* The types and the two facts that the later steps rely on, together.     *)
RunInv == TypeOK /\ PositivesInv /\ MatrixInv

LEMMA RunInvariant == Spec => []RunInv
<1>1. Init => RunInv
  <2>1. Init => PositivesInv
    BY DEF Init, PositivesInv
  <2>2. Init => MatrixInv
    BY DEF Init, MatrixInv
  <2> QED BY <2>1, <2>2, TypeInit DEF RunInv
<1>2. RunInv /\ [Next]_vars => RunInv'
  BY TypeStep, PositivesStep, MatrixStep DEF RunInv
<1> QED BY <1>1, <1>2, PTL DEF Spec

(* Every list, set and record keeps its form, whatever is delivered and    *)
(* whenever: rows of one user, article and day each, and two sides of keys,*)
(* labels and run lengths (train_lightgbm.py:292-390).                     *)
THEOREM TypeCorrect == Spec => []TypeOK
<1>1. RunInv => TypeOK
  BY DEF RunInv
<1> QED BY <1>1, RunInvariant, PTL

-------------------------------------------------------------------------------
(* No article is both.                                                     *)

(* No negative that is added has the key of a row that is there.           *)
Apart(extra, m, n) ==
  /\ rows \in Seq(Row) /\ extra \in Seq(Row) /\ rows' \in Seq(Row)
  /\ DOMAIN rows = 1..m /\ DOMAIN extra = 1..n /\ DOMAIN rows' = 1..(m + n)
  /\ \A i \in 1..m : rows[i].label > 0 /\ rows[i].label \in Nat
  /\ \A k \in 1..n : extra[k].label = 0
  /\ \A i \in 1..m, k \in 1..n : KeyOf(rows[i]) # KeyOf(extra[k])
  /\ Joined(rows', rows, extra, m, n)

LEMMA NegativesApart ==
  ASSUME RunInv, pc = "negatives", NEW extra, AddsNegatives(extra)
  PROVE  \E m, n \in Nat : Apart(extra, m, n)
<1>1. /\ rows \in Seq(Row) /\ extra \in Seq(Row) /\ rows' = rows \o extra
      /\ \A k \in DOMAIN extra :
           extra[k].label = 0 /\ extra[k].article \notin Engaged(PageOf(extra[k]))
  BY DEF AddsNegatives, RunInv, TypeOK
<1>2. PICK m \in Nat : m = Len(rows)
  BY <1>1
<1>3. PICK n \in Nat : n = Len(extra)
  BY <1>1
<1>4. DOMAIN rows = 1..m /\ DOMAIN extra = 1..n
  BY <1>1, <1>2, <1>3
<1>5. rows' \in Seq(Row) /\ Joined(rows', rows, extra, m, n)
  BY <1>1, <1>2, <1>3, ConcatJoins
<1>6. \A i \in 1..m : /\ rows[i].label > 0 /\ rows[i] \in Row
                     /\ rows[i].article \in Engaged(PageOf(rows[i]))
  <2>1. \A i \in DOMAIN rows : rows[i] \in Row /\ rows[i].label > 0
    BY <1>1 DEF RunInv, PositivesInv
  <2> QED BY <1>4, <2>1 DEF Engaged
<1>7. \A k \in 1..n : extra[k] \in Row
  BY <1>1, <1>4
<1>8. \A r, q \in Row : KeyOf(r) = KeyOf(q) => PageOf(r) = PageOf(q) /\ r.article = q.article
  BY DEF KeyOf, PageOf
<1>9. \A i \in 1..m, k \in 1..n : KeyOf(rows[i]) # KeyOf(extra[k])
  <2> TAKE i \in 1..m, k \in 1..n
  <2>1. PICK r \in Row : r = rows[i]
    BY <1>6
  <2>2. PICK q \in Row : q = extra[k]
    BY <1>7
  <2>3. r.article \in Engaged(PageOf(r))
    BY <1>6, <2>1
  <2>4. k \in DOMAIN extra
    BY <1>4
  <2>5. q.article \notin Engaged(PageOf(q))
    BY <1>1, <2>2, <2>4
  <2>6. KeyOf(r) # KeyOf(q)
    BY <1>8, <2>3, <2>5
  <2> QED BY <2>1, <2>2, <2>6
<1>10. DOMAIN rows' = 1..(m + n)
  BY <1>5 DEF Joined
<1>11. \A r \in Row : r.label \in Nat
  BY CountsAssumption DEF Row
<1>12. Apart(extra, m, n)
  BY <1>1, <1>4, <1>5, <1>6, <1>9, <1>10, <1>11 DEF Apart
<1> QED BY <1>12

(* A row is an old one or an added one.                                    *)
LEMMA ApartRows ==
  ASSUME NEW m \in Nat, NEW n \in Nat, NEW extra, Apart(extra, m, n), NEW x \in DOMAIN rows'
  PROVE  \/ x \in 1..m /\ rows'[x] = rows[x]
         \/ \E k \in 1..n : x = m + k /\ rows'[x] = extra[k]
BY DEF Apart, Joined

LEMMA NeverBothStep ==
  ASSUME RunInv, NeverBoth, [Next]_vars
  PROVE  NeverBoth'
<1>1. CASE rows' = rows
  BY <1>1 DEF NeverBoth
<1>2. CASE QueryPositives
  <2>1. \A i \in DOMAIN rows' : rows'[i].label > 0
    BY <1>2, QueryShape DEF RunInv
  <2> QED BY <2>1 DEF NeverBoth
<1>3. ASSUME pc = "negatives", NEW extra, AddsNegatives(extra) PROVE NeverBoth'
  <2>1. \E m, n \in Nat : Apart(extra, m, n)
    BY <1>3, NegativesApart
  <2>2. PICK m \in Nat : \E n \in Nat : Apart(extra, m, n)
    BY <2>1
  <2>3. PICK n \in Nat : Apart(extra, m, n)
    BY <2>2
  <2>4. \A x \in DOMAIN rows' :
          \/ rows'[x].label > 0 /\ rows'[x].label \in Nat /\ \E i \in 1..m : rows'[x] = rows[i]
          \/ rows'[x].label = 0 /\ \E k \in 1..n : rows'[x] = extra[k]
    <3> TAKE x \in DOMAIN rows'
    <3>1. CASE x \in 1..m /\ rows'[x] = rows[x]
      BY <2>3, <3>1 DEF Apart
    <3>2. CASE \E k \in 1..n : x = m + k /\ rows'[x] = extra[k]
      BY <2>3, <3>2 DEF Apart
    <3> QED BY <2>3, <3>1, <3>2, ApartRows
  <2>5. \A i \in 1..m, k \in 1..n : KeyOf(rows[i]) # KeyOf(extra[k])
    BY <2>3 DEF Apart
  <2> SUFFICES ASSUME NEW x \in DOMAIN rows', NEW y \in DOMAIN rows',
                      KeyOf(rows'[x]) = KeyOf(rows'[y])
               PROVE  rows'[x].label = 0 <=> rows'[y].label = 0
    BY DEF NeverBoth
  <2> QED BY <2>4, <2>5
<1>4. CASE AddIgnored
  BY <1>3, <1>4, IgnoredShape DEF AddIgnored, RunInv
<1>5. CASE AddSampled
  BY <1>3, <1>5, SampleShape DEF AddSampled, RunInv
<1> QED BY <1>1, <1>2, <1>4, <1>5, RowsStep

(* However the negatives are found, and whatever is delivered between the  *)
(* two queries, no article is both relevant and ignored on one user's one  *)
(* day: a negative is looked up among the same positives that the dataset  *)
(* holds, not among what the tables hold by then (train_lightgbm.py:299,   *)
(* 317).                                                                   *)
THEOREM NeverBothTheorem == Spec => []NeverBoth
<1>1. Init => NeverBoth
  BY DEF Init, NeverBoth
<1>2. RunInv /\ NeverBoth /\ [Next]_vars => NeverBoth'
  BY NeverBothStep
<1> QED BY <1>1, <1>2, RunInvariant, PTL DEF Spec

-------------------------------------------------------------------------------
(* The two sides.                                                          *)

LEMMA SidesStep ==
  ASSUME [Next]_vars
  PROVE  \/ Split
         \/ UNCHANGED <<train, holdout>> /\ (pc' = "train" => UNCHANGED <<pc, rows>>)
<1>1. CASE \E e \in Event : Engage(e)
  BY <1>1 DEF Engage
<1>2. CASE \E i \in Impression : Show(i)
  BY <1>2 DEF Show
<1>3. CASE Start \/ QueryPositives \/ AddIgnored \/ AddSampled
  BY <1>3 DEF Start, QueryPositives, AddIgnored, AddSampled, Goto, Finish
<1>4. CASE BuildFeatures \/ SourceDown \/ Featurize
  BY <1>4 DEF BuildFeatures, SourceDown, Featurize, Goto, Finish
<1>5. CASE StoreDown \/ Refuse \/ Train
  BY <1>5 DEF StoreDown, Refuse, Train, Goto, Finish
<1>6. CASE UNCHANGED vars
  BY <1>6 DEF vars
<1> QED BY <1>1, <1>2, <1>3, <1>4, <1>5, <1>6 DEF Next

LEMMA LaterStep ==
  ASSUME RunInv, HoldoutIsLater, [Next]_vars
  PROVE  HoldoutIsLater'
<1>1. CASE UNCHANGED <<train, holdout>>
  BY <1>1 DEF HoldoutIsLater
<1>2. CASE Split
  <2>1. PICK pages \in SetToSeqs(Pages) : /\ IsPartOf(train', pages, Early(pages))
                                        /\ IsPartOf(holdout', pages, Late(pages))
    BY <1>2, SplitShape DEF RunInv
  <2>2. /\ \A x \in DOMAIN train'.rows : \E i \in Early(pages) : PageOf(train'.rows[x]) = pages[i]
        /\ \A y \in DOMAIN holdout'.rows : \E i \in Late(pages) : PageOf(holdout'.rows[y]) = pages[i]
    BY <2>1 DEF IsPartOf
  <2>3. \A i \in DOMAIN pages : pages[i].day \in Int
    <3>1. pages \in Seq(Pages) /\ \A p \in Pages : p.day \in Day
      BY PagesFinite, SetToSeqsProperties DEF RunInv, TypeOK
    <3> QED BY <3>1, CountsAssumption DEF Day
  <2>4. \A r : PageOf(r).day = r.day
    BY DEF PageOf
  <2>5. PICK cut \in Int : cut = Today - HoldoutDays
    BY CountsAssumption
  <2>6. \A i \in Early(pages) : pages[i].day < cut
    BY <2>3, <2>5 DEF Early, Late
  <2>7. \A i \in Late(pages) : pages[i].day >= cut
    BY <2>5 DEF Late
  <2>8. Early(pages) \subseteq DOMAIN pages /\ Late(pages) \subseteq DOMAIN pages
    BY DEF Early, Late
  <2>9. \A x \in DOMAIN train'.rows : train'.rows[x].day \in Int /\ train'.rows[x].day < cut
    BY <2>2, <2>3, <2>4, <2>6, <2>8
  <2>10. \A y \in DOMAIN holdout'.rows : holdout'.rows[y].day \in Int /\ holdout'.rows[y].day >= cut
    BY <2>2, <2>3, <2>4, <2>7, <2>8
  <2> QED BY <2>9, <2>10 DEF HoldoutIsLater
<1> QED BY <1>1, <1>2, SidesStep

(* What a model is judged on is later than all that it learned from,       *)
(* whatever the pages, the holdout's length and the order of the rows: no  *)
(* page of one day is in one side and another of that day in the other     *)
(* (train_lightgbm.py:370, 377).                                           *)
THEOREM HoldoutIsLaterTheorem == Spec => []HoldoutIsLater
<1>1. Init => HoldoutIsLater
  BY DEF Init, HoldoutIsLater, NoSide
<1>2. RunInv /\ HoldoutIsLater /\ [Next]_vars => HoldoutIsLater'
  BY LaterStep
<1> QED BY <1>1, <1>2, RunInvariant, PTL DEF Spec

(* A run of keys and its run of labels are the rows of its page.           *)
LEMMA RowsBack ==
  ASSUME rows \in Seq(Row), NEW p \in Pages
  PROVE  LET run == KeysOf(RowsOf(p))
             labels == LabelsOf(RowsOf(p))
         IN PageOf(run[1]) = p /\ [j \in DOMAIN run |-> Labelled(run[j], labels[j])] = RowsOf(p)
<1>1. PICK n \in Nat : n = Len(RowsOf(p))
  BY RowsOfPage
<1>2. /\ RowsOf(p) \in Seq(Row) /\ n > 0 /\ DOMAIN RowsOf(p) = 1..n
      /\ \A j \in 1..n : PageOf(RowsOf(p)[j]) = p /\ RowsOf(p)[j] \in Row
  <2>1. /\ RowsOf(p) \in Seq(Row) /\ n > 0
        /\ \A j \in 1..n : PageOf(RowsOf(p)[j]) = p
    BY <1>1, RowsOfPage
  <2>2. DOMAIN RowsOf(p) = 1..n
    BY <1>1, <2>1
  <2>3. \A j \in DOMAIN RowsOf(p) : RowsOf(p)[j] \in Row
    BY <2>1
  <2> QED BY <2>1, <2>2, <2>3
<1>3. /\ DOMAIN KeysOf(RowsOf(p)) = 1..n
      /\ \A j \in 1..n : /\ KeysOf(RowsOf(p))[j] = KeyOf(RowsOf(p)[j])
                        /\ LabelsOf(RowsOf(p))[j] = RowsOf(p)[j].label
  BY <1>2, ListsOfRows
<1>4. PageOf(KeysOf(RowsOf(p))[1]) = p
  <2>1. 1 \in 1..n
    BY <1>2
  <2>2. \A r : PageOf(KeyOf(r)) = PageOf(r)
    BY DEF PageOf, KeyOf
  <2> QED BY <1>2, <1>3, <2>1, <2>2
<1>5. \A r \in Row : Labelled(KeyOf(r), r.label) = r
  BY DEF Row, Labelled, KeyOf
<1>6. \A j \in 1..n : Labelled(KeysOf(RowsOf(p))[j], LabelsOf(RowsOf(p))[j]) = RowsOf(p)[j]
  BY <1>2, <1>3, <1>5
<1>7. RowsOf(p) = [j \in 1..n |-> RowsOf(p)[j]]
  BY <1>2
<1> QED BY <1>3, <1>4, <1>6, <1>7

LEMMA PartIsWhole ==
  ASSUME rows \in Seq(Row), NEW pages \in SetToSeqs(Pages), NEW kept \in SUBSET DOMAIN pages,
         NEW side, IsPartOf(side, pages, kept)
  PROVE  WholePages(side)
<1>1. /\ pages \in Seq(Pages) /\ side.groups \in Seq(Nat)
      /\ DOMAIN side.groups = 1..Cardinality(kept)
      /\ Len(side.rows) = Offset(side.groups, Len(side.groups) + 1)
  BY PagesFinite, SetToSeqsProperties DEF IsPartOf, Side
<1>2. ASSUME NEW i \in DOMAIN side.groups
      PROVE  LET run == Run(side.rows, side.groups, i)
                 labels == Run(side.labels, side.groups, i)
             IN [j \in DOMAIN run |-> Labelled(run[j], labels[j])] = RowsOf(PageOf(run[1]))
  <2>1. Nth(kept, i) \in kept /\ Nth(kept, i) \in DOMAIN pages
    BY <1>1 DEF IsPartOf
  <2>2. PICK p \in Pages : p = pages[Nth(kept, i)]
    BY <1>1, <2>1
  <2>3. /\ Run(side.rows, side.groups, i) = KeysOf(RowsOf(p))
        /\ Run(side.labels, side.groups, i) = LabelsOf(RowsOf(p))
    BY <1>1, <2>2 DEF IsPartOf
  <2> QED BY <2>3, RowsBack
<1> QED BY <1>1, <1>2 DEF WholePages

LEMMA StayWhole ==
  ASSUME rows' = rows, WholePages(train'), WholePages(holdout')
  PROVE  WholePages(train)' /\ WholePages(holdout)'
BY DEF WholePages, RowsOf

LEMMA IntactStep ==
  ASSUME RunInv, PagesIntact, [Next]_vars
  PROVE  PagesIntact'
<1> SUFFICES ASSUME pc' = "train"
             PROVE  /\ WholePages(train)' /\ WholePages(holdout)'
                    /\ Len(train'.groups) + Len(holdout'.groups) = Cardinality(Pages')
                    /\ \A p \in Pages' : \E side \in {train', holdout'} :
                         \E i \in DOMAIN side.rows : PageOf(side.rows[i]) = p
  BY DEF PagesIntact
<1>1. CASE UNCHANGED <<train, holdout, pc, rows>>
  <2>1. PagesIntact /\ pc = "train" /\ Pages' = Pages /\ train' = train /\ holdout' = holdout
    BY <1>1, SameRows
  <2>2. WholePages(train)' /\ WholePages(holdout)'
    <3>1. WholePages(train) /\ WholePages(holdout)
      BY <2>1 DEF PagesIntact
    <3>2. WholePages(train') /\ WholePages(holdout')
      BY <2>1, <3>1
    <3> QED BY <1>1, <3>2, StayWhole
  <2>3. /\ Len(train.groups) + Len(holdout.groups) = Cardinality(Pages)
        /\ \A p \in Pages : \E side \in {train, holdout} :
             \E i \in DOMAIN side.rows : PageOf(side.rows[i]) = p
    BY <2>1 DEF PagesIntact
  <2> QED BY <2>1, <2>2, <2>3
<1>2. CASE Split
  <2>1. PICK pages \in SetToSeqs(Pages) : /\ IsPartOf(train', pages, Early(pages))
                                        /\ IsPartOf(holdout', pages, Late(pages))
    BY <1>2, SplitShape DEF RunInv
  <2>2. rows \in Seq(Row) /\ rows' = rows
    BY <1>2 DEF RunInv, TypeOK, Split
  <2>3. Pages' = Pages
    BY <2>2, SameRows
  <2>4. Early(pages) \in SUBSET DOMAIN pages /\ Late(pages) \in SUBSET DOMAIN pages
    BY DEF Early, Late
  <2>5. WholePages(train') /\ WholePages(holdout')
    BY <2>1, <2>2, <2>4, PartIsWhole
  <2>6. WholePages(train)' /\ WholePages(holdout)'
    BY <2>2, <2>5, StayWhole
  <2>7. /\ pages \in Seq(Pages) /\ Len(pages) = Cardinality(Pages) /\ Cardinality(Pages) \in Nat
        /\ \A p \in Pages : \E i \in DOMAIN pages : pages[i] = p
    BY <2>2, PagesFinite, SetToSeqsProperties
  <2>8. Len(train'.groups) + Len(holdout'.groups) = Cardinality(Pages)
    <3>1. PICK n \in Nat : n = Cardinality(Pages)
      BY <2>7
    <3>2. DOMAIN pages = 1..n /\ IsFiniteSet(1..n) /\ Cardinality(1..n) = n
      BY <2>7, <3>1, FS_Interval
    <3>3. Late(pages) \cap DOMAIN pages = Late(pages) /\ IsFiniteSet(Late(pages))
      BY <2>4, <3>2, FS_Subset
    <3>4. /\ Cardinality(Late(pages)) \in Nat
          /\ Cardinality(Early(pages)) = n - Cardinality(Late(pages))
      <4>1. Cardinality(Late(pages)) \in Nat
        BY <3>3, FS_CardinalityType
      <4>2. Cardinality((1..n) \ Late(pages)) = Cardinality(1..n) - Cardinality((1..n) \cap Late(pages))
        BY <3>2, FS_Difference
      <4>3. Early(pages) = (1..n) \ Late(pages) /\ (1..n) \cap Late(pages) = Late(pages)
        BY <3>2, <3>3 DEF Early
      <4> QED BY <3>2, <4>1, <4>2, <4>3
    <3>5. /\ Len(train'.groups) = Cardinality(Early(pages))
          /\ Len(holdout'.groups) = Cardinality(Late(pages))
      BY <2>1 DEF IsPartOf
    <3> QED BY <3>1, <3>4, <3>5
  <2>9. ASSUME NEW p \in Pages
        PROVE  \E side \in {train', holdout'} : \E i \in DOMAIN side.rows : PageOf(side.rows[i]) = p
    <3>1. PICK i \in DOMAIN pages : pages[i] = p
      BY <2>7
    <3>2. CASE i \in Late(pages)
      <4>1. \E x \in DOMAIN holdout'.rows : PageOf(holdout'.rows[x]) = p
        BY <2>1, <3>1, <3>2 DEF IsPartOf
      <4> QED BY <4>1
    <3>3. CASE i \in Early(pages)
      <4>1. \E x \in DOMAIN train'.rows : PageOf(train'.rows[x]) = p
        BY <2>1, <3>1, <3>3 DEF IsPartOf
      <4> QED BY <4>1
    <3> QED BY <3>2, <3>3 DEF Early
  <2> QED BY <2>3, <2>6, <2>8, <2>9
<1> QED BY <1>1, <1>2, SidesStep

(* Grouping, splitting and cutting keep the three lists in step, for any   *)
(* number of pages of any length in any order: each run of a side is one   *)
(* whole page with its own labels, the run lengths use up the list, and    *)
(* every page is on one side (train_lightgbm.py:345, 377).                 *)
THEOREM PagesIntactTheorem == Spec => []PagesIntact
<1>1. Init => PagesIntact
  BY DEF Init, PagesIntact
<1>2. RunInv /\ PagesIntact /\ [Next]_vars => PagesIntact'
  BY IntactStep
<1> QED BY <1>1, <1>2, RunInvariant, PTL DEF Spec

-------------------------------------------------------------------------------
(* Sampled pages.                                                          *)

(* The rows of a page in a list of rows, and the positives among them.     *)
RowsIn(s, p) == {r \in {s[i] : i \in DOMAIN s} : PageOf(r) = p}
PositivesIn(s, p) == {r \in RowsIn(s, p) : r.label > 0}
OnceEach(s) == \A i, j \in DOMAIN s : KeyOf(s[i]) = KeyOf(s[j]) => i = j

Sound(s, p) ==
  /\ PositivesIn(s, p) # {}
  /\ Len(At(s, {i \in DOMAIN s : PageOf(s[i]) = p})) = Cardinality({r.article : r \in RowsIn(s, p)})
  /\ Cardinality(RowsIn(s, p) \ PositivesIn(s, p)) <= NegRatio * Cardinality(PositivesIn(s, p))

LEMMA SoundPages ==
  /\ SampledPages <=> (mode = "sampled" => \A p \in Pages : Sound(rows, p))
  /\ SampledPages' <=> (mode' = "sampled" => \A p \in Pages' : Sound(rows', p))
BY DEF SampledPages, Sound, RowsOf, RowsIn, PositivesIn

LEMMA RowsFinite ==
  ASSUME NEW s \in Seq(Row), NEW p
  PROVE  /\ IsFiniteSet(RowsIn(s, p)) /\ IsFiniteSet(PositivesIn(s, p))
         /\ Cardinality(PositivesIn(s, p)) \in Nat
         /\ \A r \in RowsIn(s, p) : r \in Row
<1>1. PICK n \in Nat : n = Len(s)
  OBVIOUS
<1>2. IsFiniteSet(DOMAIN s)
  BY <1>1, FS_Interval
<1>3. IsFiniteSet({s[i] : i \in DOMAIN s})
  BY <1>2, ImageFinite
<1>4. IsFiniteSet(RowsIn(s, p))
  BY <1>3, FS_Subset DEF RowsIn
<1>5. IsFiniteSet(PositivesIn(s, p))
  BY <1>4, FS_Subset DEF PositivesIn
<1>6. \A i \in DOMAIN s : s[i] \in Row
  OBVIOUS
<1> QED BY <1>4, <1>5, <1>6, FS_CardinalityType DEF RowsIn

(* Rows of one page each with a key of their own are of different articles.*)
LEMMA ArticlesOnce ==
  ASSUME NEW s \in Seq(Row), OnceEach(s), NEW p
  PROVE  Len(At(s, {i \in DOMAIN s : PageOf(s[i]) = p})) = Cardinality({r.article : r \in RowsIn(s, p)})
<1> DEFINE I == {i \in DOMAIN s : PageOf(s[i]) = p}
           T == {r.article : r \in RowsIn(s, p)}
           f == [i \in I |-> s[i].article]
<1>1. I \in SUBSET DOMAIN s
  OBVIOUS
<1>2. f \in [I -> T] /\ \A x \in T : \E i \in I : f[i] = x
  BY DEF RowsIn
<1>3. \A i, j \in I : f[i] = f[j] => i = j
  <2> SUFFICES ASSUME NEW i \in I, NEW j \in I, f[i] = f[j] PROVE i = j
    OBVIOUS
  <2>1. s[i].article = s[j].article /\ PageOf(s[i]) = PageOf(s[j])
    OBVIOUS
  <2>2. KeyOf(s[i]) = KeyOf(s[j])
    BY <2>1 DEF KeyOf, PageOf
  <2> QED BY <2>2 DEF OnceEach
<1> HIDE DEF I, T, f
<1>4. f \in Bijection(I, T)
  BY <1>2, <1>3 DEF Bijection, Injection, Surjection, IsInjective
<1>5. IsFiniteSet(I) /\ Len(At(s, I)) = Cardinality(I)
  BY <1>1, AtProperties
<1>6. Cardinality(T) = Cardinality(I)
  BY <1>4, <1>5, FS_Bijection DEF ExistsBijection
<1>7. Len(At(s, I)) = Cardinality(T)
  BY <1>5, <1>6
<1> QED BY <1>7 DEF I, T

(* A page of positives only.                                               *)
LEMMA PositivesSound ==
  ASSUME NEW s \in Seq(Row), OnceEach(s), \A i \in DOMAIN s : s[i].label > 0,
         NEW j \in DOMAIN s
  PROVE  Sound(s, PageOf(s[j]))
<1> DEFINE p == PageOf(s[j])
<1>1. s[j] \in PositivesIn(s, p)
  BY DEF PositivesIn, RowsIn
<1>2. RowsIn(s, p) \ PositivesIn(s, p) = {}
  BY DEF PositivesIn, RowsIn
<1>3. PICK c \in Nat : c = Cardinality(PositivesIn(s, p))
  BY RowsFinite
<1>4. 0 <= NegRatio * c
  BY <1>3, CountsAssumption
<1> QED BY <1>1, <1>2, <1>3, <1>4, ArticlesOnce, FS_EmptySet DEF Sound

(* The sample of a page is no larger than its positives, times the ratio.  *)
LEMMA SampleBound ==
  ASSUME TypeOK, NEW p
  PROVE  SampleSize(p) \in Int /\ SampleSize(p) <= Cardinality(Engaged(p)) * NegRatio
<1>1. IsFiniteSet(Untouched(p))
  <2>1. Untouched(p) \subseteq Article
    BY DEF Untouched, Popular, TypeOK, Event
  <2> QED BY <2>1, KeyFinite, FS_Subset
<1>2. IsFiniteSet(Engaged(p))
  <2>1. Engaged(p) \subseteq Article
    <3>1. \A i \in DOMAIN rows : rows[i] \in Row
      BY DEF TypeOK
    <3>2. \A r \in Row : r.article \in Article
      BY DEF Row
    <3> QED BY <3>1, <3>2 DEF Engaged
  <2> QED BY <2>1, KeyFinite, FS_Subset
<1>3. PICK u \in Nat : u = Cardinality(Untouched(p))
  BY <1>1, FS_CardinalityType
<1>4. PICK e \in Nat : e = Cardinality(Engaged(p))
  BY <1>2, FS_CardinalityType
<1>5. PICK b \in Int : b = e * NegRatio
  BY <1>4, CountsAssumption
<1>6. SampleSize(p) = Min({u, b})
  BY <1>3, <1>4, <1>5 DEF SampleSize
<1>7. Min({u, b}) = IF u <= b THEN u ELSE b
  BY <1>3, <1>5, Lesser
<1> QED BY <1>3, <1>4, <1>5, <1>6, <1>7

(* After a step of AddSampled: the positives of a page are the rows that   *)
(* it had, and its negatives are its sample.                               *)
LEMMA SampledSound ==
  ASSUME RunInv, AddSampled
  PROVE  Pages' = Pages /\ \A p \in Pages : Sound(rows', p)
<1>1. PICK pick, extra :
        /\ \A p \in Pages : /\ pick[p] \subseteq Article /\ pick[p] \subseteq Untouched(p)
                            /\ Cardinality(pick[p]) = SampleSize(p)
        /\ extra \in SetToSeqs(Sampled(pick))
        /\ AddsNegatives(extra)
  BY SampleShape DEF RunInv
<1>2. pc = "negatives" /\ rows \in Seq(Row) /\ TypeOK
  BY DEF AddSampled, RunInv, TypeOK
<1>3. PICK m \in Nat : \E n \in Nat : Apart(extra, m, n)
  BY <1>1, <1>2, NegativesApart
<1>4. PICK n \in Nat : Apart(extra, m, n)
  BY <1>3
<1>5. /\ IsFiniteSet(Sampled(pick))
      /\ \A r \in Sampled(pick) : /\ r \in Row /\ r.label = 0 /\ r = Labelled(KeyOf(r), 0)
                                 /\ PageOf(r) \in Pages /\ r.article \in pick[PageOf(r)]
  BY <1>1, <1>2, SampledShape
<1>6. /\ DOMAIN extra = 1..n /\ DOMAIN rows = 1..m /\ DOMAIN rows' = 1..(m + n)
      /\ rows' \in Seq(Row)
  BY <1>4 DEF Apart
<1>7. /\ \A k \in 1..n : extra[k] \in Sampled(pick)
      /\ \A k, l \in 1..n : extra[k] = extra[l] => k = l
  <2>1. /\ extra \in Seq(Sampled(pick))
        /\ \A k, l \in DOMAIN extra : extra[k] = extra[l] => k = l
    BY <1>1, <1>5, SetToSeqsProperties
  <2>2. \A k \in DOMAIN extra : extra[k] \in Sampled(pick)
    BY <2>1
  <2> QED BY <1>6, <2>1, <2>2
<1>8. \A x \in DOMAIN rows' :
        \/ x \in 1..m /\ rows'[x] = rows[x]
        \/ \E k \in 1..n : x = m + k /\ rows'[x] = extra[k]
  BY <1>4, ApartRows
<1>9. \A i \in 1..m : i \in DOMAIN rows' /\ rows'[i] = rows[i]
  <2> TAKE i \in 1..m
  <2>1. rows'[i] = rows[i]
    BY <1>4 DEF Apart, Joined
  <2> QED BY <1>6, <2>1
<1>10. Pages' = Pages
  <2>1. Pages' = {PageOf(rows'[x]) : x \in DOMAIN rows'} /\ Pages = {PageOf(rows[x]) : x \in 1..m}
    BY <1>6 DEF Pages
  <2>2. \A x \in DOMAIN rows' : PageOf(rows'[x]) \in Pages
    BY <1>5, <1>7, <1>8, <2>1
  <2>3. \A i \in 1..m : PageOf(rows[i]) \in Pages'
    BY <1>9, <2>1
  <2> QED BY <2>1, <2>2, <2>3
<1>11. OnceEach(rows')
  <2> SUFFICES ASSUME NEW x \in DOMAIN rows', NEW y \in DOMAIN rows',
                      KeyOf(rows'[x]) = KeyOf(rows'[y])
               PROVE  x = y
    BY DEF OnceEach
  <2>1. \A i \in 1..m, k \in 1..n : KeyOf(rows[i]) # KeyOf(extra[k])
    BY <1>4 DEF Apart
  <2>2. \A i, j \in 1..m : KeyOf(rows[i]) = KeyOf(rows[j]) => i = j
    BY <1>2, <1>6 DEF RunInv, PositivesInv
  <2>3. \A k, l \in 1..n : KeyOf(extra[k]) = KeyOf(extra[l]) => k = l
    <3> SUFFICES ASSUME NEW k \in 1..n, NEW l \in 1..n, KeyOf(extra[k]) = KeyOf(extra[l])
                 PROVE  k = l
      OBVIOUS
    <3>1. extra[k] = Labelled(KeyOf(extra[k]), 0) /\ extra[l] = Labelled(KeyOf(extra[l]), 0)
      BY <1>5, <1>7
    <3>2. extra[k] = extra[l]
      BY <3>1
    <3> QED BY <1>7, <3>2
  <2>4. CASE x \in 1..m /\ rows'[x] = rows[x]
    BY <1>8, <2>1, <2>2, <2>4
  <2>5. CASE \E k \in 1..n : x = m + k /\ rows'[x] = extra[k]
    BY <1>8, <2>1, <2>3, <2>5
  <2> QED BY <1>8, <2>4, <2>5
<1>12. ASSUME NEW p \in Pages PROVE Sound(rows', p)
  <2>1. PositivesIn(rows', p) = {r \in {rows[i] : i \in 1..m} : PageOf(r) = p}
    <3>1. \A i \in 1..m : rows[i].label > 0 /\ rows[i].label \in Nat
      BY <1>4 DEF Apart
    <3>2. \A k \in 1..n : extra[k].label = 0
      BY <1>4 DEF Apart
    <3>3. \A x \in DOMAIN rows' : rows'[x].label > 0 => \E i \in 1..m : rows'[x] = rows[i]
      BY <1>8, <3>2
    <3>4. \A r : r \in PositivesIn(rows', p) <=>
              (\E x \in DOMAIN rows' : r = rows'[x]) /\ PageOf(r) = p /\ r.label > 0
      BY DEF PositivesIn, RowsIn
    <3> QED BY <1>9, <3>1, <3>3, <3>4
  <2>2. PositivesIn(rows', p) # {} /\ Engaged(p) = {r.article : r \in PositivesIn(rows', p)}
    <3>1. \E i \in 1..m : PageOf(rows[i]) = p
      BY <1>6 DEF Pages
    <3>2. Engaged(p) = {rows[i].article : i \in {j \in 1..m : PageOf(rows[j]) = p}}
      BY <1>6 DEF Engaged
    <3> QED BY <2>1, <3>1, <3>2
  <2>3. IsFiniteSet(PositivesIn(rows', p))
    BY <1>6, RowsFinite
  <2>4. PICK c \in Nat : c = Cardinality(PositivesIn(rows', p))
    BY <1>6, RowsFinite
  <2>5. PICK e \in Nat : e = Cardinality(Engaged(p)) /\ e <= c
    <3> DEFINE f == [r \in PositivesIn(rows', p) |-> r.article]
    <3>1. Engaged(p) = {f[r] : r \in PositivesIn(rows', p)}
      BY <2>2
    <3> HIDE DEF f
    <3>2. IsFiniteSet(Engaged(p)) /\ Cardinality(Engaged(p)) <= Cardinality(PositivesIn(rows', p))
      BY <2>3, <3>1, ImageFinite
    <3> QED BY <2>4, <3>2, FS_CardinalityType
  <2> DEFINE negatives == RowsIn(rows', p) \ PositivesIn(rows', p)
             g == [a \in pick[p] |-> Labelled(On(p, a), 0)]
  <2>6. \A r \in negatives : \E a \in pick[p] : r = g[a]
    <3> SUFFICES ASSUME NEW r \in negatives PROVE \E a \in pick[p] : r = g[a]
      OBVIOUS
    <3>1. PageOf(r) = p /\ ~(r.label > 0) /\ \E x \in DOMAIN rows' : r = rows'[x]
      BY DEF PositivesIn, RowsIn
    <3>2. \A i \in 1..m : rows[i].label > 0
      BY <1>4 DEF Apart
    <3>3. PICK k \in 1..n : r = extra[k]
      BY <1>8, <3>1, <3>2
    <3>4. r = Labelled(KeyOf(r), 0) /\ r.article \in pick[p]
      BY <1>5, <1>7, <3>1, <3>3
    <3>5. KeyOf(r) = On(p, r.article)
      BY <3>1 DEF KeyOf, On, PageOf
    <3> QED BY <3>4, <3>5
  <2>7. PICK v \in Nat : v = Cardinality(pick[p]) /\ IsFiniteSet(pick[p])
    <3>1. IsFiniteSet(pick[p])
      BY <1>1, KeyFinite, FS_Subset
    <3> QED BY <3>1, FS_CardinalityType
  <2>8. PICK w \in Nat : w = Cardinality(negatives) /\ w <= v
    <3> HIDE DEF g, negatives
    <3>1. negatives \subseteq {g[a] : a \in pick[p]}
      BY <2>6
    <3>2. /\ IsFiniteSet({g[a] : a \in pick[p]})
          /\ Cardinality({g[a] : a \in pick[p]}) <= Cardinality(pick[p])
      BY <2>7, ImageFinite
    <3>3. /\ IsFiniteSet(negatives)
          /\ Cardinality(negatives) <= Cardinality({g[a] : a \in pick[p]})
      BY <3>1, <3>2, FS_Subset
    <3> QED BY <2>7, <3>2, <3>3, FS_CardinalityType
  <2>9. v <= e * NegRatio
    BY <1>1, <1>2, <2>5, <2>7, SampleBound
  <2>10. e * NegRatio <= NegRatio * c
    BY <2>4, <2>5, CountsAssumption
  <2>11. w <= NegRatio * c
    <3>1. e * NegRatio \in Nat /\ NegRatio * c \in Nat
      BY <2>4, <2>5, CountsAssumption
    <3> QED BY <2>7, <2>8, <2>9, <2>10, <3>1
  <2> QED BY <1>6, <1>11, <2>2, <2>4, <2>8, <2>11, ArticlesOnce DEF Sound
<1> QED BY <1>10, <1>12

LEMMA SampledStep ==
  ASSUME RunInv, SampledPages, [Next]_vars
  PROVE  SampledPages'
<1>1. mode' = mode
  BY DEF Next, Engage, Show, Start, QueryPositives, AddIgnored, AddSampled, BuildFeatures,
         SourceDown, Featurize, StoreDown, Refuse, Split, Train, vars, tables
<1>2. CASE rows' = rows
  <2>1. Pages' = Pages
    BY <1>2, SameRows
  <2> QED BY <1>1, <1>2, <2>1, SoundPages
<1>3. CASE QueryPositives
  <2>1. /\ rows' \in Seq(Row) /\ OnceEach(rows')
        /\ \A i \in DOMAIN rows' : rows'[i].label > 0
    BY <1>3, QueryShape DEF RunInv, OnceEach
  <2>2. \A p \in Pages' : \E j \in DOMAIN rows' : p = PageOf(rows'[j])
    BY DEF Pages
  <2>3. \A p \in Pages' : Sound(rows', p)
    BY <2>1, <2>2, PositivesSound
  <2> QED BY <2>3, SoundPages
<1>4. CASE AddIgnored
  <2>1. mode' # "sampled"
    BY <1>1, <1>4 DEF AddIgnored
  <2> QED BY <2>1, SoundPages
<1>5. CASE AddSampled
  BY <1>5, SampledSound, SoundPages
<1> QED BY <1>2, <1>3, <1>4, <1>5, RowsStep

(* For any events and whatever the sample: each page has a positive, no    *)
(* article twice, and no more negatives than its own positives allow       *)
(* (train_lightgbm.py:321).                                                *)
THEOREM SampledPagesTheorem == Spec => []SampledPages
<1>1. Init => SampledPages
  BY DEF Init, SampledPages, Pages
<1>2. RunInv /\ SampledPages /\ [Next]_vars => SampledPages'
  BY SampledStep
<1> QED BY <1>1, <1>2, RunInvariant, PTL DEF Spec

-------------------------------------------------------------------------------
(* Gains and weights.                                                      *)

(* A higher grade gains no less, and every grade gains something.          *)
LEMMA GainProperties ==
  /\ MaxGrade \in Nat
  /\ \A l \in 0..MaxGrade : Gain[l] \in Nat /\ (Gain[l] = 0 <=> l = 0)
  /\ \A l, m \in 0..MaxGrade : l <= m => Gain[l] <= Gain[m]
<1> DEFINE Defines(f) ==
             f = [l \in 0..MaxGrade |-> IF l = 0 THEN 0 ELSE 2 * f[l - 1] + 1]
<1>1. MaxGrade \in Nat
  BY CountsAssumption
<1>2. \E f : Defines(f)
  <2>1. PICK N \in Nat : N = MaxGrade + 1
    BY <1>1
  <2> DEFINE step == [x \in (1..N) \X Nat |-> 2 * x[2] + 1]
  <2>2. step \in [(1..N) \X Nat -> Nat] /\ \A j \in 1..N, v \in Nat : step[<<j, v>>] = 2 * v + 1
    OBVIOUS
  <2> HIDE DEF step
  <2>3. PICK f \in [1..N -> Nat] : Follows(f, N, 0, step)
    <3>1. 0 \in Nat
      OBVIOUS
    <3> QED BY <2>2, <3>1, RecursiveList
  <2> DEFINE g == [l \in 0..MaxGrade |-> f[l + 1]]
  <2>4. ASSUME NEW l \in 0..MaxGrade PROVE f[l + 1] = IF l = 0 THEN 0 ELSE 2 * g[l - 1] + 1
    <3>1. PICK i \in 1..N : i = l + 1
      BY <1>1, <2>1
    <3>2. f[i] = IF i = 1 THEN 0 ELSE step[<<i, f[i - 1]>>]
      BY <2>3 DEF Follows
    <3>3. CASE l = 0
      BY <3>1, <3>2, <3>3
    <3>4. CASE l # 0
      <4>1. i # 1 /\ i - 1 \in 1..N /\ l - 1 \in 0..MaxGrade /\ (l - 1) + 1 = i - 1
        BY <1>1, <2>1, <3>1, <3>4
      <4>2. g[l - 1] = f[i - 1] /\ f[i - 1] \in Nat
        BY <2>3, <4>1
      <4>3. step[<<i, f[i - 1]>>] = 2 * f[i - 1] + 1
        BY <2>2, <4>2
      <4> QED BY <3>1, <3>2, <3>4, <4>1, <4>2, <4>3
    <3> QED BY <3>3, <3>4
  <2>5. Defines(g)
    BY <2>4
  <2> QED BY <2>5
<1>3. Defines(Gain)
  <2>1. Gain = CHOOSE f : Defines(f)
    BY DEF Gain
  <2> HIDE DEF Defines
  <2> QED BY <1>2, <2>1
<1>4. Gain[0] = 0 /\ \A l \in 1..MaxGrade : Gain[l] = 2 * Gain[l - 1] + 1
  <2>1. \A l \in 0..MaxGrade : Gain[l] = IF l = 0 THEN 0 ELSE 2 * Gain[l - 1] + 1
    BY <1>3, Zenon
  <2>2. 0 \in 0..MaxGrade /\ \A l \in 1..MaxGrade : l \in 0..MaxGrade /\ l # 0
    BY <1>1
  <2> HIDE DEF Defines
  <2> QED BY <2>1, <2>2
<1> HIDE DEF Defines
<1>5. \A l \in 0..MaxGrade : Gain[l] \in Nat
  <2> DEFINE S == {l \in Nat : l <= MaxGrade => Gain[l] \in Nat}
  <2>1. 0 \in S
    BY <1>4
  <2>2. \A l \in Nat : l \in S => l + 1 \in S
    <3> TAKE l \in Nat
    <3> HAVE l \in S
    <3>1. ASSUME l + 1 <= MaxGrade PROVE Gain[l + 1] \in Nat
      <4>1. l + 1 \in 1..MaxGrade /\ (l + 1) - 1 = l /\ l <= MaxGrade
        BY <1>1, <3>1
      <4>2. PICK x \in Nat : x = Gain[l]
        BY <4>1
      <4>3. Gain[l + 1] = 2 * x + 1
        BY <1>4, <4>1, <4>2
      <4> QED BY <4>3
    <3> QED BY <3>1
  <2>3. Nat \subseteq S
    <3> HIDE DEF S
    <3> QED BY <2>1, <2>2, Induction
  <2>4. \A l \in 0..MaxGrade : l \in S /\ l <= MaxGrade
    BY <1>1, <2>3
  <2> QED BY <2>4
<1>6. \A l \in 1..MaxGrade : Gain[l - 1] <= Gain[l] /\ Gain[l] # 0
  <2> TAKE l \in 1..MaxGrade
  <2>1. l - 1 \in 0..MaxGrade
    BY <1>1
  <2>2. PICK x \in Nat : x = Gain[l - 1]
    BY <1>5, <2>1
  <2>3. Gain[l] = 2 * x + 1
    BY <1>4, <2>2
  <2>4. x <= 2 * x + 1 /\ 2 * x + 1 # 0
    OBVIOUS
  <2> QED BY <2>2, <2>3, <2>4
<1>7. \A l, m \in 0..MaxGrade : l <= m => Gain[l] <= Gain[m]
  <2>1. \A l \in 0..MaxGrade : Gain[l] \in Int
    BY <1>5
  <2>2. \A l \in 1..MaxGrade : Gain[l - 1] <= Gain[l]
    BY <1>6
  <2> QED BY <1>1, <2>1, <2>2, Rises
<1>8. \A l \in 0..MaxGrade : Gain[l] = 0 <=> l = 0
  <2>1. \A l \in 0..MaxGrade : l # 0 => l \in 1..MaxGrade
    BY <1>1
  <2> QED BY <1>4, <1>6, <2>1
<1> QED BY <1>1, <1>5, <1>7, <1>8

Shown == 1..20

(* No place of the cutoff weighs more than one above it.                   *)
LEMMA WeightProperties ==
  /\ K \in Nat /\ K >= 1 /\ K <= 20
  /\ \A i \in Shown : Weight[i] \in Nat
  /\ Weight[1] = 1000
  /\ \A i, j \in Shown : i <= j => Weight[i] >= Weight[j]
<1>1. \A i \in 1..20 : \/ i = 1 \/ i = 2 \/ i = 3 \/ i = 4 \/ i = 5 \/ i = 6 \/ i = 7
                       \/ i = 8 \/ i = 9 \/ i = 10 \/ i = 11 \/ i = 12 \/ i = 13 \/ i = 14
                       \/ i = 15 \/ i = 16 \/ i = 17 \/ i = 18 \/ i = 19 \/ i = 20
  OBVIOUS
<1>2. /\ Weight[1] = 1000 /\ Weight[2] = 631 /\ Weight[3] = 500 /\ Weight[4] = 431
      /\ Weight[5] = 387 /\ Weight[6] = 356 /\ Weight[7] = 333 /\ Weight[8] = 315
      /\ Weight[9] = 301 /\ Weight[10] = 289 /\ Weight[11] = 279 /\ Weight[12] = 270
      /\ Weight[13] = 263 /\ Weight[14] = 256 /\ Weight[15] = 250 /\ Weight[16] = 245
      /\ Weight[17] = 240 /\ Weight[18] = 235 /\ Weight[19] = 231 /\ Weight[20] = 228
  BY DEF Weight
<1>3. \A i \in 1..20 : Weight[i] \in Nat
  BY <1>1, <1>2
<1> DEFINE below == [i \in 0..19 |-> 0 - Weight[i + 1]]
<1>4. \A i \in 0..19 : below[i] \in Int /\ below[i] = 0 - Weight[i + 1] /\ Weight[i + 1] \in Nat
  <2> TAKE i \in 0..19
  <2>1. PICK k \in 1..20 : k = i + 1
    OBVIOUS
  <2>2. below[i] = 0 - Weight[k] /\ Weight[k] \in Nat
    BY <1>3, <2>1
  <2> QED BY <2>1, <2>2
<1>5. \A i \in 1..19 : below[i - 1] <= below[i]
  <2> TAKE i \in 1..19
  <2>1. Weight[i] >= Weight[i + 1]
    BY <1>2
  <2>2. i \in 1..20 /\ i + 1 \in 1..20 /\ i - 1 \in 0..19 /\ i \in 0..19 /\ (i - 1) + 1 = i
    OBVIOUS
  <2>3. PICK x, y \in Nat : x = Weight[i] /\ y = Weight[i + 1]
    BY <1>3, <2>2
  <2>4. below[i - 1] = 0 - x /\ below[i] = 0 - y
    BY <1>4, <2>2, <2>3
  <2>5. 0 - x <= 0 - y
    BY <2>1, <2>3
  <2> QED BY <2>4, <2>5
<1> HIDE DEF below
<1>6. \A i, j \in 0..19 : i <= j => below[i] <= below[j]
  <2>1. 19 \in Nat /\ \A i \in 0..19 : below[i] \in Int
    BY <1>4
  <2> QED BY <1>5, <2>1, Rises
<1>7. ASSUME NEW i \in 1..20, NEW j \in 1..20, i <= j PROVE Weight[i] >= Weight[j]
  <2>1. PICK a, b \in 0..19 : i = a + 1 /\ j = b + 1 /\ a <= b
    <3>1. /\ i - 1 \in 0..19 /\ j - 1 \in 0..19 /\ i = (i - 1) + 1 /\ j = (j - 1) + 1
          /\ i - 1 <= j - 1
      BY <1>7
    <3> QED BY <3>1
  <2>2. PICK x, y \in Nat : x = Weight[i] /\ y = Weight[j]
    BY <1>3
  <2>3. 0 - x <= 0 - y
    BY <1>4, <1>6, <2>1, <2>2
  <2>4. x >= y
    BY <2>3
  <2> QED BY <2>2, <2>4
<1>8. K \in Nat /\ K >= 1 /\ K <= 20
  BY CountsAssumption
<1> QED BY <1>2, <1>3, <1>7, <1>8 DEF Shown

-------------------------------------------------------------------------------
(* Pages of any length, with any labels and scores.                        *)

IsPage(labels, ss, n) ==
  /\ n \in Nat
  /\ labels \in Seq(0..MaxGrade) /\ Len(labels) = n
  /\ ss \in Seq(Int) /\ Len(ss) = n

(* s holds n labels.                                                       *)
HasLabels(s, n) ==
  /\ s \in Seq(0..MaxGrade) /\ Len(s) = n /\ DOMAIN s = 1..n
  /\ \A i \in 1..n : s[i] \in 0..MaxGrade

(* u entries are above the cutoff.                                         *)
CutAt(u, n) == u \in Nat /\ u <= n /\ u <= K /\ u <= 20 /\ (u = n \/ u = K)

LEMMA LabelsAre ==
  ASSUME NEW s \in Seq(0..MaxGrade), NEW n, n = Len(s)
  PROVE  n \in Nat /\ HasLabels(s, n) /\ s \in Seq(Int)
<1>1. n \in Nat /\ DOMAIN s = 1..n /\ \A i \in 1..n : s[i] \in 0..MaxGrade
  BY Domain
<1>2. s \in Seq(Int)
  <2>1. 0..MaxGrade \subseteq Int
    BY GainProperties
  <2>2. s \in [1..n -> Int]
    BY <1>1, <2>1
  <2> QED BY <1>1, <2>2, FunctionIsList
<1> QED BY <1>1, <1>2 DEF HasLabels

LEMMA CutExists ==
  ASSUME NEW n \in Nat
  PROVE  \E u \in Nat : u = Min({K, n}) /\ CutAt(u, n)
<1>1. K \in Nat /\ K <= 20
  BY WeightProperties
<1>2. Min({K, n}) = IF K <= n THEN K ELSE n
  BY <1>1, Lesser
<1>3. CASE K <= n
  BY <1>1, <1>2, <1>3 DEF CutAt
<1>4. CASE ~(K <= n)
  BY <1>1, <1>2, <1>4 DEF CutAt
<1> QED BY <1>3, <1>4

LEMMA CutWithin ==
  ASSUME NEW n \in Nat, NEW u \in Nat, CutAt(u, n)
  PROVE  u <= n /\ u <= 20 /\ (\A i \in 1..u : i \in 1..n) /\ (\A i \in 1..u : i \in Shown)
<1>1. u <= n /\ u <= 20
  BY DEF CutAt
<1>2. \A i \in 1..u : i \in 1..n
  BY <1>1
<1>3. \A i \in 1..u : i \in Shown
  BY <1>1 DEF Shown
<1> QED BY <1>1, <1>2, <1>3

LEMMA TopKIs ==
  ASSUME NEW s \in Seq(0..MaxGrade), NEW n, n = Len(s), NEW u, u = Min({K, n}), CutAt(u, n)
  PROVE  HasLabels(TopK(s), u) /\ \A i \in 1..u : TopK(s)[i] = s[i]
<1>1. n \in Nat /\ HasLabels(s, n)
  BY LabelsAre
<1>2. u \in Nat /\ u <= n
  BY DEF CutAt
<1> DEFINE top == SubSeq(s, 1, u)
<1>3. TopK(s) = top
  BY DEF TopK
<1>4. u <= Len(s)
  BY <1>2
<1> DEFINE L == 0..MaxGrade
<1>5. top \in Seq(L) /\ Len(top) = u /\ \A i \in 1..u : top[i] = s[i]
  <2>1. s \in Seq(L)
    OBVIOUS
  <2> HIDE DEF L
  <2> QED BY <1>2, <1>4, <2>1, Prefix
<1> HIDE DEF top
<1>6. HasLabels(top, u)
  BY <1>5, LabelsAre
<1> QED BY <1>3, <1>5, <1>6

LEMMA RankedIs ==
  ASSUME NEW labels, NEW ss, NEW n, IsPage(labels, ss, n)
  PROVE  /\ HasLabels(Ranked(labels, ss), n)
         /\ \A k \in 1..n : Ranked(labels, ss)[k] = labels[Order(ss)[k]]
<1>1. n \in Nat /\ HasLabels(labels, n) /\ ss \in Seq(Int) /\ n = Len(ss)
  BY LabelsAre DEF IsPage
<1> DEFINE r == Ranked(labels, ss)
<1>2. r = [k \in 1..n |-> labels[Order(ss)[k]]]
  BY <1>1 DEF Ranked, HasLabels
<1> HIDE DEF r
<1>3. \A k \in 1..n : Order(ss)[k] \in 1..n
  BY <1>1, OrderProperties
<1>4. r \in [1..n -> 0..MaxGrade]
  BY <1>1, <1>2, <1>3 DEF HasLabels
<1>5. r \in Seq(0..MaxGrade) /\ Len(r) = n
  BY <1>1, <1>4, FunctionIsList
<1>6. HasLabels(r, n)
  BY <1>5, LabelsAre
<1> QED BY <1>2, <1>6 DEF r

(* The labels in descending order are those ranked by the labels.          *)
LEMMA DescendingIs ==
  ASSUME NEW labels \in Seq(0..MaxGrade), NEW n, n = Len(labels)
  PROVE  /\ IsPage(labels, labels, n)
         /\ Descending(labels) = Ranked(labels, labels)
         /\ HasLabels(Descending(labels), n)
         /\ \A i \in 1..n : Descending(labels)[Place(labels, i)] = labels[i]
         /\ \A k, l \in 1..n : k <= l => Descending(labels)[k] >= Descending(labels)[l]
<1>1. n \in Nat /\ HasLabels(labels, n) /\ labels \in Seq(Int)
  BY LabelsAre
<1>2. IsPage(labels, labels, n)
  BY <1>1 DEF IsPage
<1>3. HasLabels(Ranked(labels, labels), n)
  BY <1>2, RankedIs
<1>4. Descending(labels) = [k \in 1..n |-> labels[Order(labels)[k]]]
  BY <1>1, DescendingIsOrdered
<1>5. Ranked(labels, labels) = [k \in 1..n |-> labels[Order(labels)[k]]]
  BY <1>1 DEF Ranked, HasLabels
<1>6. \A k \in 1..n : Descending(labels)[k] = labels[Order(labels)[k]]
  BY <1>4
<1>7. /\ \A i \in 1..n : Place(labels, i) \in 1..n /\ Order(labels)[Place(labels, i)] = i
      /\ \A k, l \in 1..n : k <= l => labels[Order(labels)[k]] >= labels[Order(labels)[l]]
  BY <1>1, OrderProperties
<1> QED BY <1>2, <1>3, <1>4, <1>5, <1>6, <1>7

-------------------------------------------------------------------------------
(* dcg_at_k                                                                *)

Worth(s) == [i \in DOMAIN TopK(s) |-> Weight[i] * Gain[TopK(s)[i]]]

IsWorth(s, u) ==
  /\ Worth(s) \in Seq(Nat) /\ Len(Worth(s)) = u
  /\ \A i \in 1..u : Worth(s)[i] = Weight[i] * Gain[s[i]]
  /\ DCG(s) = Offset(Worth(s), u + 1) /\ DCG(s) \in Nat

LEMMA WorthIs ==
  ASSUME NEW s \in Seq(0..MaxGrade), NEW n, n = Len(s), NEW u, u = Min({K, n}), CutAt(u, n)
  PROVE  IsWorth(s, u)
<1> DEFINE a == Worth(s)
<1>1. u \in Nat /\ u <= 20 /\ u <= n
  BY DEF CutAt
<1>2. HasLabels(TopK(s), u) /\ (\A i \in 1..u : TopK(s)[i] = s[i]) /\ HasLabels(s, n)
  BY TopKIs, LabelsAre
<1>3. DCG(s) = Total(a)
  BY DEF DCG, Worth
<1>4. a = [i \in 1..u |-> Weight[i] * Gain[s[i]]]
  BY <1>2 DEF Worth, HasLabels
<1> HIDE DEF a
<1>5. \A i \in 1..u : Weight[i] \in Nat /\ Gain[s[i]] \in Nat
  <2> TAKE i \in 1..u
  <2>1. i \in Shown /\ s[i] \in 0..MaxGrade
    BY <1>1, <1>2 DEF HasLabels, Shown
  <2>2. Gain[s[i]] \in Nat
    BY <2>1, GainProperties
  <2> QED BY <2>1, <2>2, WeightProperties
<1>6. a \in [1..u -> Nat]
  BY <1>4, <1>5, Product
<1>7. a \in Seq(Nat) /\ Len(a) = u
  BY <1>1, <1>6, FunctionIsList
<1>8. DCG(s) = Offset(a, u + 1)
  BY <1>3, <1>7 DEF Total
<1>9. Offset(a, u + 1) \in Nat
  <2>1. u + 1 \in 1..Len(a) + 1
    BY <1>1, <1>7
  <2> QED BY <1>7, <2>1, OffsetProperties
<1> QED BY <1>4, <1>7, <1>8, <1>9 DEF a, IsWorth

(* No ranking of a page is worth more than the one by label, whatever the  *)
(* scores and their ties.                                                  *)
LEMMA NoRankingBeatsIdeal ==
  ASSUME NEW labels, NEW ss, NEW n, IsPage(labels, ss, n)
  PROVE  /\ DCG(Ranked(labels, ss)) \in Nat /\ DCG(Descending(labels)) \in Nat
         /\ DCG(Ranked(labels, ss)) <= DCG(Descending(labels))
<1>1. /\ n \in Nat /\ labels \in Seq(0..MaxGrade) /\ Len(labels) = n /\ labels \in Seq(Int)
      /\ ss \in Seq(Int) /\ Len(ss) = n
  BY LabelsAre DEF IsPage
<1>2. PICK u \in Nat : u = Min({K, n}) /\ CutAt(u, n)
  BY <1>1, CutExists
<1>3. u <= n /\ u <= 20 /\ (\A i \in 1..u : i \in 1..n) /\ (\A i \in 1..u : i \in Shown)
  BY <1>1, <1>2, CutWithin
<1> DEFINE r == Ranked(labels, ss)
           d == Descending(labels)
           w == [i \in 1..u |-> Weight[i]]
           z == [k \in 1..n |-> Gain[d[k]]]
           p == [i \in 1..u |-> Place(labels, Order(ss)[i])]
<1>4. HasLabels(r, n) /\ \A k \in 1..n : r[k] = labels[Order(ss)[k]]
  BY RankedIs
<1>5. /\ HasLabels(d, n)
      /\ \A i \in 1..n : d[Place(labels, i)] = labels[i]
      /\ \A k, l \in 1..n : k <= l => d[k] >= d[l]
  BY <1>1, DescendingIs
<1> HIDE DEF r, d
<1>6. /\ Worth(r) \in Seq(Nat) /\ Len(Worth(r)) = u
      /\ \A i \in 1..u : Worth(r)[i] = Weight[i] * Gain[r[i]]
      /\ DCG(r) = Offset(Worth(r), u + 1) /\ DCG(r) \in Nat
  <2>1. IsWorth(r, u)
    BY <1>2, <1>4, WorthIs DEF HasLabels
  <2> QED BY <2>1 DEF IsWorth
<1>7. /\ Worth(d) \in Seq(Nat) /\ Len(Worth(d)) = u
      /\ \A i \in 1..u : Worth(d)[i] = Weight[i] * Gain[d[i]]
      /\ DCG(d) = Offset(Worth(d), u + 1) /\ DCG(d) \in Nat
  <2>1. IsWorth(d, u)
    BY <1>2, <1>5, WorthIs DEF HasLabels
  <2> QED BY <2>1 DEF IsWorth
<1>8. IsBest(Worth(d), w, u, z, n)
  <2>1. w \in [1..u -> Nat] /\ \A i \in 1..u : w[i] = Weight[i]
    BY <1>3, WeightProperties
  <2>2. z \in [1..n -> Nat] /\ \A i \in 1..n : z[i] = Gain[d[i]]
    BY <1>5, GainProperties DEF HasLabels
  <2> HIDE DEF w, z
  <2>3. Falls(w, u)
    <3>1. \A i, j \in 1..u : i <= j => Weight[i] >= Weight[j]
      BY <1>3, WeightProperties
    <3> QED BY <2>1, <3>1 DEF Falls
  <2>4. Falls(z, n)
    <3> SUFFICES ASSUME NEW k \in 1..n, NEW l \in 1..n, k <= l PROVE z[k] >= z[l]
      BY DEF Falls
    <3>1. d[l] \in 0..MaxGrade /\ d[k] \in 0..MaxGrade /\ d[k] >= d[l]
      BY <1>5 DEF HasLabels
    <3>2. PICK x, y \in 0..MaxGrade : x = d[l] /\ y = d[k]
      BY <3>1
    <3>3. x <= y
      BY <3>1, <3>2, GainProperties
    <3>4. Gain[x] \in Nat /\ Gain[y] \in Nat /\ Gain[x] <= Gain[y]
      BY <3>3, GainProperties
    <3>5. Gain[y] >= Gain[x]
      BY <3>4
    <3> QED BY <2>2, <3>2, <3>5
  <2>5. u <= Len(Worth(d))
    BY <1>7
  <2>6. \A i \in 1..u : Worth(d)[i] = w[i] * z[i]
    BY <1>3, <1>7, <2>1, <2>2
  <2> QED BY <1>7, <2>1, <2>2, <2>3, <2>4, <2>5, <2>6 DEF IsBest
<1>9. p \in [1..u -> 1..n] /\ Different(p, u)
  <2>1. \A i \in 1..u : Order(ss)[i] \in 1..n /\ Place(ss, Order(ss)[i]) = i
    BY <1>1, <1>3, OrderProperties
  <2>2. \A i \in 1..n : Place(labels, i) \in 1..n /\ Order(labels)[Place(labels, i)] = i
    BY <1>1, OrderProperties
  <2>3. \A i \in 1..u : p[i] = Place(labels, Order(ss)[i]) /\ p[i] \in 1..n
    BY <2>1, <2>2
  <2>4. p \in [1..u -> 1..n]
    BY <2>3
  <2> HIDE DEF p
  <2>5. \A i, j \in 1..u : p[i] = p[j] => i = j
    BY <2>1, <2>2, <2>3
  <2> QED BY <2>4, <2>5 DEF Different
<1>10. Worth(r) = Weighted(w, z, p, u)
  <2>1. \A i \in 1..u : z[p[i]] = Gain[r[i]] /\ w[i] = Weight[i]
    <3> TAKE i \in 1..u
    <3>1. PICK o \in 1..n : o = Order(ss)[i]
      BY <1>1, <1>3, OrderProperties
    <3>2. p[i] = Place(labels, o) /\ p[i] \in 1..n
      BY <1>9, <3>1
    <3>3. d[p[i]] = r[i]
      BY <1>3, <1>4, <1>5, <3>1, <3>2
    <3> QED BY <3>2, <3>3
  <2> HIDE DEF w, z, p
  <2>2. Worth(r) = [i \in 1..u |-> Worth(r)[i]]
    BY <1>6
  <2> QED BY <1>6, <2>1, <2>2 DEF Weighted
<1> HIDE DEF w, z, p
<1>11. Offset(Weighted(w, z, p, u), u + 1) <= Offset(Worth(d), u + 1)
  <2>1. NoBetter(w, z, n, Worth(d), u)
    BY <1>1, <1>3, <1>8, Rearranged
  <2> QED BY <1>9, <2>1 DEF NoBetter
<1> QED BY <1>6, <1>7, <1>10, <1>11 DEF r, d

(* The best ranking is worth something just where there is a positive.     *)
LEMMA IdealIsZero ==
  ASSUME NEW labels \in Seq(0..MaxGrade)
  PROVE  DCG(Descending(labels)) = 0 <=> ~ \E j \in DOMAIN labels : labels[j] > 0
<1>1. PICK n \in Nat : n = Len(labels)
  OBVIOUS
<1>2. HasLabels(labels, n) /\ labels \in Seq(Int)
  BY <1>1, LabelsAre
<1>3. PICK u \in Nat : u = Min({K, n}) /\ CutAt(u, n)
  BY CutExists
<1> DEFINE d == Descending(labels)
<1>4. /\ HasLabels(d, n) /\ d = Ranked(labels, labels) /\ IsPage(labels, labels, n)
      /\ \A i \in 1..n : d[Place(labels, i)] = labels[i]
      /\ \A k, l \in 1..n : k <= l => d[k] >= d[l]
  BY <1>1, DescendingIs
<1>5. \A k \in 1..n : Order(labels)[k] \in 1..n /\ d[k] = labels[Order(labels)[k]]
  <2>1. \A k \in 1..n : Order(labels)[k] \in 1..n
    BY <1>1, <1>2, OrderProperties
  <2>2. \A k \in 1..n : Ranked(labels, labels)[k] = labels[Order(labels)[k]]
    BY <1>4, RankedIs
  <2> QED BY <1>4, <2>1, <2>2
<1> HIDE DEF d
<1>6. /\ Worth(d) \in Seq(Nat) /\ Len(Worth(d)) = u
      /\ \A i \in 1..u : Worth(d)[i] = Weight[i] * Gain[d[i]]
      /\ DCG(d) = Offset(Worth(d), u + 1) /\ DCG(d) \in Nat
  <2>1. IsWorth(d, u)
    BY <1>3, <1>4, WorthIs DEF HasLabels
  <2> QED BY <2>1 DEF IsWorth
<1>7. u <= n /\ u <= Len(Worth(d)) /\ (\A i \in 1..u : i \in 1..n) /\ (\A i \in 1..u : i \in Shown)
  <2>1. u <= Len(Worth(d))
    BY <1>6
  <2> QED BY <1>3, <2>1, CutWithin
<1>8. ASSUME ~ \E j \in DOMAIN labels : labels[j] > 0 PROVE DCG(d) = 0
  <2>1. \A j \in 1..n : labels[j] = 0
    <3>1. \A j \in 1..n : labels[j] \in 0..MaxGrade /\ ~(labels[j] > 0)
      BY <1>2, <1>8 DEF HasLabels
    <3> QED BY <3>1, GainProperties
  <2>2. Gain[0] = 0
    <3>1. 0 \in 0..MaxGrade
      BY GainProperties
    <3> QED BY <3>1, GainProperties
  <2>3. \A i \in 1..u : Worth(d)[i] = 0
    <3> TAKE i \in 1..u
    <3>1. d[i] = 0
      BY <1>5, <1>7, <2>1
    <3>2. Weight[i] \in Nat
      BY <1>7, WeightProperties
    <3> QED BY <1>6, <2>2, <3>1, <3>2
  <2> DEFINE g == [i \in 0..u |-> 0]
  <2>4. g[u] = 0 /\ g[0] = 0 /\ \A i \in 1..u : g[i] = g[i - 1] + Worth(d)[i]
    <3>1. \A i \in 1..u : i \in 0..u /\ i - 1 \in 0..u
      OBVIOUS
    <3> QED BY <2>3, <3>1
  <2> HIDE DEF g
  <2>5. Offset(Worth(d), u + 1) = g[u]
    BY <1>6, <1>7, <2>4, OffsetGrows
  <2> QED BY <1>6, <2>4, <2>5
<1>9. ASSUME NEW j \in 1..n, labels[j] > 0 PROVE DCG(d) # 0
  <2>1. PICK k \in 1..n : k = Place(labels, j) /\ d[k] = labels[j]
    <3>1. Place(labels, j) \in 1..n
      BY <1>1, <1>2, OrderProperties
    <3> QED BY <1>4, <3>1
  <2>2. d[1] \in 0..MaxGrade /\ d[1] > 0
    <3>1. 1 \in 1..n /\ 1 <= k
      OBVIOUS
    <3>2. d[1] \in 0..MaxGrade /\ d[k] \in 0..MaxGrade /\ d[1] >= d[k]
      BY <1>4, <3>1 DEF HasLabels
    <3>3. PICK x, y \in Nat : x = d[1] /\ y = d[k]
      BY <3>2, GainProperties
    <3>4. x >= y /\ y > 0
      BY <1>9, <2>1, <3>2, <3>3
    <3>5. x > 0
      BY <3>4
    <3> QED BY <3>2, <3>3, <3>5
  <2>3. u >= 1 /\ 1 \in 1..u
    <3>1. u = n \/ u = K
      BY <1>3 DEF CutAt
    <3> QED BY <3>1, WeightProperties
  <2>4. PICK x \in Nat : x = Gain[d[1]] /\ x # 0
    BY <2>2, GainProperties
  <2>5. PICK o \in Nat : o = Worth(d)[1] /\ o # 0
    <3>1. Worth(d)[1] = 1000 * x
      <4>1. Weight[1] = 1000
        BY WeightProperties
      <4> QED BY <1>6, <2>3, <2>4, <4>1
    <3>2. 1000 * x \in Nat /\ 1000 * x # 0
      BY <2>4
    <3> QED BY <3>1, <3>2
  <2>6. Offset(Worth(d), 2) = o
    <3>1. \E q, v \in Nat : Offset(Worth(d), 1) = q /\ Worth(d)[1] = v /\ Offset(Worth(d), 1 + 1) = q + v
      BY <1>6, <1>7, <2>3, OffsetStep
    <3>2. Offset(Worth(d), 1) = 0 /\ 1 + 1 = 2
      BY <1>6, OffsetProperties
    <3> QED BY <2>5, <3>1, <3>2
  <2>7. Offset(Worth(d), 1 + 1) <= Offset(Worth(d), u + 1)
    <3>1. 1 \in 0..u /\ u \in 0..u /\ 1 <= u
      BY <2>3
    <3> QED BY <1>6, <3>1, OffsetRises
  <2>8. PICK c \in Nat : c = DCG(d)
    BY <1>6
  <2>9. o <= c
    <3>1. 1 + 1 = 2
      OBVIOUS
    <3> QED BY <1>6, <2>6, <2>7, <2>8, <3>1
  <2> QED BY <2>5, <2>8, <2>9
<1>10. DOMAIN labels = 1..n
  BY <1>2 DEF HasLabels
<1> QED BY <1>8, <1>9, <1>10 DEF d

-------------------------------------------------------------------------------
(* ndcg_at_k                                                               *)

(* Full marks, where there is something to be marked.                      *)
Marks(labels) == IF \E j \in DOMAIN labels : labels[j] > 0 THEN One ELSE 0

LEMMA Share ==
  ASSUME NEW a \in Nat, NEW y \in Nat, y > 0
  PROVE  /\ a <= y * One => a \div y \in Nat /\ a \div y <= One
         /\ (y * One) \div y = One
<1>1. One = 1000
  BY DEF One
<1>2. ASSUME a <= y * 1000 PROVE a \div y \in Nat /\ a \div y <= 1000
  <2>1. PICK q, r \in Nat : a \div y = q /\ a = q * y + r
    <3>1. a \div y \in Nat /\ a % y \in Nat /\ a = (a \div y) * y + (a % y)
      OBVIOUS
    <3> QED BY <3>1
  <2>2. q <= 1000
    <3>1. SUFFICES ASSUME q >= 1001 PROVE FALSE
      OBVIOUS
    <3>2. PICK d \in Nat : q = 1001 + d
      <4>1. q - 1001 \in Nat /\ q = 1001 + (q - 1001)
        BY <3>1
      <4> QED BY <4>1
    <3>3. q * y = 1001 * y + d * y /\ d * y \in Nat
      BY <3>2
    <3>4. a <= 1000 * y
      BY <1>2
    <3> QED BY <2>1, <3>3, <3>4
  <2> QED BY <2>1, <2>2
<1>3. (y * 1000) \div y = 1000
  OBVIOUS
<1> QED BY <1>1, <1>2, <1>3

LEMMA ShareOf ==
  ASSUME NEW x \in Nat, NEW y \in Nat, y > 0, x <= y
  PROVE  (x * One) \div y \in Nat /\ (x * One) \div y <= One
<1>1. PICK a \in Nat : a = x * One
  BY DEF One
<1>2. a <= y * One
  BY <1>1 DEF One
<1> QED BY <1>1, <1>2, Share

LEMMA NDCGMarks ==
  ASSUME NEW labels, NEW ss, NEW n, IsPage(labels, ss, n)
  PROVE  NDCG(labels, ss) <= Marks(labels) /\ NDCG(labels, labels) = Marks(labels)
<1>1. labels \in Seq(0..MaxGrade) /\ n = Len(labels)
  BY DEF IsPage
<1>2. PICK ideal \in Nat : ideal = DCG(Descending(labels))
  BY NoRankingBeatsIdeal
<1>3. ideal = 0 <=> ~ \E j \in DOMAIN labels : labels[j] > 0
  BY <1>1, <1>2, IdealIsZero
<1>4. PICK x \in Nat : x = DCG(Ranked(labels, ss)) /\ x <= ideal
  BY <1>2, NoRankingBeatsIdeal
<1>5. ideal = DCG(Ranked(labels, labels))
  BY <1>1, <1>2, DescendingIs
<1>6. /\ NDCG(labels, ss) = IF ideal = 0 THEN 0 ELSE (x * One) \div ideal
      /\ NDCG(labels, labels) = IF ideal = 0 THEN 0 ELSE (ideal * One) \div ideal
  BY <1>2, <1>4, <1>5 DEF NDCG
<1>7. CASE ideal = 0
  <2>1. NDCG(labels, ss) = 0 /\ NDCG(labels, labels) = 0 /\ Marks(labels) = 0
    BY <1>3, <1>6, <1>7 DEF Marks
  <2> QED BY <2>1
<1>8. CASE ideal # 0
  <2>1. ideal > 0
    BY <1>8
  <2>2. (x * One) \div ideal <= One /\ (ideal * One) \div ideal = One
    BY <1>4, <2>1, Share, ShareOf
  <2>3. Marks(labels) = One
    BY <1>3, <1>8 DEF Marks
  <2> QED BY <1>6, <1>8, <2>2, <2>3
<1> QED BY <1>7, <1>8

-------------------------------------------------------------------------------
(* average_precision_at_k                                                  *)

Relevant(s, n) == {i \in 1..n : s[i] > 0}

LEMMA HitsFinite ==
  ASSUME NEW s, NEW n \in Nat
  PROVE  /\ IsFiniteSet(Relevant(s, n)) /\ Hits(s, n) = Cardinality(Relevant(s, n))
         /\ Hits(s, n) \in Nat /\ Hits(s, n) <= n
<1>1. IsFiniteSet(1..n) /\ Cardinality(1..n) = n
  <2>1. IsFiniteSet(1..n) /\ Cardinality(1..n) = IF 1 > n THEN 0 ELSE n - 1 + 1
    <3>1. 1 \in Int /\ n \in Int
      OBVIOUS
    <3> QED BY Zenon, <3>1, FS_Interval
  <2> QED BY <2>1
<1>2. Relevant(s, n) \in SUBSET (1..n) /\ Hits(s, n) = Cardinality(Relevant(s, n))
  BY DEF Relevant, Hits
<1>3. IsFiniteSet(Relevant(s, n)) /\ Cardinality(Relevant(s, n)) <= n
  BY <1>1, <1>2, FS_Subset
<1> QED BY <1>2, <1>3, FS_CardinalityType

LEMMA HitsStep ==
  ASSUME NEW s, NEW t \in Nat
  PROVE  /\ Hits(s, 0) = 0
         /\ Hits(s, t + 1) = Hits(s, t) + (IF s[t + 1] > 0 THEN 1 ELSE 0)
<1>1. Hits(s, 0) = 0
  <2>1. {i \in 1..0 : s[i] > 0} = {}
    OBVIOUS
  <2> QED BY <2>1, FS_EmptySet DEF Hits
<1>2. IsFiniteSet(Relevant(s, t)) /\ Hits(s, t) = Cardinality(Relevant(s, t)) /\ Hits(s, t) \in Nat
  BY HitsFinite
<1>3. Hits(s, t + 1) = Cardinality(Relevant(s, t + 1))
  BY HitsFinite
<1>4. CASE s[t + 1] > 0
  <2>1. Relevant(s, t + 1) = Relevant(s, t) \cup {t + 1} /\ t + 1 \notin Relevant(s, t)
    BY <1>4 DEF Relevant
  <2>2. Cardinality(Relevant(s, t) \cup {t + 1}) = Cardinality(Relevant(s, t)) + 1
    BY <1>2, <2>1, FS_AddElement
  <2> QED BY <1>1, <1>2, <1>3, <1>4, <2>1, <2>2
<1>5. CASE ~(s[t + 1] > 0)
  <2>1. Relevant(s, t + 1) = Relevant(s, t)
    BY <1>5 DEF Relevant
  <2> QED BY <1>1, <1>2, <1>3, <1>5, <2>1
<1> QED BY <1>4, <1>5

(* Where every place is a hit, there are as many hits as places.           *)
LEMMA AllHits ==
  ASSUME NEW s, NEW n \in Nat, \A i \in 1..n : s[i] > 0
  PROVE  Hits(s, n) = n
<1>1. {i \in 1..n : s[i] > 0} = 1..n
  OBVIOUS
<1>2. Cardinality(1..n) = IF 1 > n THEN 0 ELSE n - 1 + 1
  <2>1. 1 \in Int /\ n \in Int
    OBVIOUS
  <2> QED BY Zenon, <2>1, FS_Interval
<1>3. (IF 1 > n THEN 0 ELSE n - 1 + 1) = n
  OBVIOUS
<1>4. Hits(s, n) = Cardinality(1..n)
  BY <1>1 DEF Hits
<1> QED BY <1>2, <1>3, <1>4

LEMMA PrecisionsAre ==
  ASSUME NEW top, NEW u \in Nat, HasLabels(top, u)
  PROVE  /\ Precisions(top) \in Seq(Nat) /\ Len(Precisions(top)) = u
         /\ \A i \in 1..u : Precisions(top)[i] =
              IF top[i] > 0 THEN (One * Hits(top, i)) \div i ELSE 0
         /\ \A i \in 1..u : Precisions(top)[i] <= IF top[i] > 0 THEN One ELSE 0
<1> DEFINE a == Precisions(top)
<1>1. a = [i \in 1..u |-> IF top[i] > 0 THEN (One * Hits(top, i)) \div i ELSE 0]
  BY DEF Precisions, HasLabels
<1> HIDE DEF a
<1>2. ASSUME NEW i \in 1..u
      PROVE  (One * Hits(top, i)) \div i \in Nat /\ (One * Hits(top, i)) \div i <= One
  <2>1. i \in Nat /\ i > 0
    OBVIOUS
  <2>2. PICK h \in Nat : h = Hits(top, i) /\ h <= i
    BY <2>1, HitsFinite
  <2>3. (h * One) \div i \in Nat /\ (h * One) \div i <= One
    BY <2>1, <2>2, ShareOf
  <2>4. One * h = h * One
    BY DEF One
  <2> QED BY <2>2, <2>3, <2>4
<1>3. \A i \in 1..u : a[i] \in Nat /\ a[i] <= IF top[i] > 0 THEN One ELSE 0
  <2> TAKE i \in 1..u
  <2>1. CASE top[i] > 0
    BY <1>1, <1>2, <2>1
  <2>2. CASE ~(top[i] > 0)
    <3>1. a[i] = 0
      BY <1>1, <2>2
    <3> QED BY <2>2, <3>1
  <2> QED BY <2>1, <2>2
<1>4. a \in [1..u -> Nat]
  BY <1>1, <1>3
<1>5. a \in Seq(Nat) /\ Len(a) = u
  BY <1>4, FunctionIsList
<1> QED BY <1>1, <1>3, <1>5 DEF a

(* A hit adds One at most, and One where nothing above it is a miss.       *)
LEMMA PrecisionsTotal ==
  ASSUME NEW top, NEW u \in Nat, HasLabels(top, u)
  PROVE  /\ Total(Precisions(top)) \in Nat
         /\ Total(Precisions(top)) <= Hits(top, u) * One
         /\ (\A i, j \in 1..u : i <= j => top[i] >= top[j])
            => Total(Precisions(top)) = Hits(top, u) * One
<1> DEFINE a == Precisions(top)
           g == [i \in 0..u |-> Hits(top, i) * One]
<1>1. /\ a \in Seq(Nat) /\ Len(a) = u
      /\ \A i \in 1..u : a[i] = IF top[i] > 0 THEN (One * Hits(top, i)) \div i ELSE 0
      /\ \A i \in 1..u : a[i] <= IF top[i] > 0 THEN One ELSE 0
  BY PrecisionsAre
<1> HIDE DEF a
<1>2. Total(a) = Offset(a, u + 1) /\ Offset(a, u + 1) \in Nat
  <2>1. u + 1 \in 1..Len(a) + 1
    BY <1>1
  <2> QED BY <1>1, <2>1, OffsetProperties DEF Total
<1>3. u <= Len(a)
  BY <1>1
<1>4. /\ g[0] = 0 /\ g[u] = Hits(top, u) * One
      /\ \A i \in 0..u : g[i] \in Nat
      /\ \A i \in 1..u : g[i] = g[i - 1] + IF top[i] > 0 THEN One ELSE 0
  <2>1. \A i \in 0..u : g[i] = Hits(top, i) * One
    OBVIOUS
  <2> HIDE DEF g
  <2>2. g[0] = 0 /\ g[u] = Hits(top, u) * One
    <3>1. 0 \in 0..u /\ u \in 0..u /\ Hits(top, 0) = 0
      BY HitsStep
    <3> QED BY <2>1, <3>1 DEF One
  <2>3. \A i \in 0..u : g[i] \in Nat
    <3> TAKE i \in 0..u
    <3>1. PICK h \in Nat : h = Hits(top, i)
      BY HitsFinite
    <3> QED BY <2>1, <3>1 DEF One
  <2>4. ASSUME NEW i \in 1..u PROVE g[i] = g[i - 1] + IF top[i] > 0 THEN One ELSE 0
    <3>1. PICK t \in 0..u : t = i - 1
      OBVIOUS
    <3>2. PICK h \in Nat : h = Hits(top, t)
      BY HitsFinite
    <3>3. i = t + 1 /\ t \in Nat /\ i \in 0..u
      BY <3>1
    <3>4. Hits(top, i) = h + (IF top[i] > 0 THEN 1 ELSE 0)
      BY <3>2, <3>3, HitsStep
    <3>5. g[t] = h * 1000 /\ g[i] = Hits(top, i) * 1000
      BY <2>1, <3>2, <3>3 DEF One
    <3>6. CASE top[i] > 0
      BY <3>1, <3>4, <3>5, <3>6 DEF One
    <3>7. CASE ~(top[i] > 0)
      BY <3>1, <3>4, <3>5, <3>7 DEF One
    <3> QED BY <3>6, <3>7
  <2> QED BY <2>2, <2>3, <2>4
<1> HIDE DEF g
<1>5. Offset(a, u + 1) <= g[u]
  <2>1. ASSUME NEW i \in 1..u PROVE g[i - 1] + a[i] <= g[i]
    <3>1. i - 1 \in 0..u /\ i \in 0..u
      OBVIOUS
    <3>2. PICK x, y, v \in Nat : x = g[i - 1] /\ y = g[i] /\ v = a[i]
      <4>1. a[i] \in Nat
        BY <1>1, <1>3, Entry
      <4> QED BY <1>4, <3>1, <4>1
    <3>3. PICK z \in Nat : z = IF top[i] > 0 THEN One ELSE 0
      BY DEF One
    <3>4. y = x + z /\ v <= z
      BY <1>1, <1>4, <3>2, <3>3
    <3>5. x + v <= y
      BY <3>4
    <3> QED BY <3>2, <3>5
  <2> QED BY <1>1, <1>3, <1>4, <2>1, OffsetBounded
<1>6. ASSUME \A i, j \in 1..u : i <= j => top[i] >= top[j]
      PROVE  Offset(a, u + 1) = g[u]
  <2>1. ASSUME NEW i \in 1..u, top[i] > 0 PROVE a[i] = One
    <3>1. i \in Nat /\ i > 0
      OBVIOUS
    <3>2. ASSUME NEW j \in 1..i PROVE top[j] > 0
      <4>1. j \in 1..u /\ j <= i
        OBVIOUS
      <4>2. top[j] >= top[i] /\ top[j] \in 0..MaxGrade /\ top[i] \in 0..MaxGrade
        BY <1>6, <4>1 DEF HasLabels
      <4>3. PICK x, y \in Int : x = top[j] /\ y = top[i]
        BY <4>2, GainProperties
      <4>4. x >= y /\ y > 0
        BY <2>1, <4>2, <4>3
      <4>5. x > 0
        BY <4>4
      <4> QED BY <4>3, <4>5
    <3>3. Hits(top, i) = i
      BY <3>1, <3>2, AllHits
    <3>4. (i * One) \div i = One
      BY <3>1, Share
    <3>5. One * i = i * One
      BY DEF One
    <3> QED BY <1>1, <2>1, <3>3, <3>4, <3>5
  <2>2. \A i \in 1..u : g[i] = g[i - 1] + a[i]
    <3> TAKE i \in 1..u
    <3>1. a[i] = IF top[i] > 0 THEN One ELSE 0
      BY <1>1, <2>1
    <3> QED BY <1>4, <3>1
  <2> QED BY <1>1, <1>3, <1>4, <2>2, OffsetGrows
<1> QED BY <1>2, <1>4, <1>5, <1>6 DEF a

(* The cutoff shows no more positives than the page has; with none left    *)
(* out, the whole ranking has as many.                                     *)
LEMMA HitsOfRanking ==
  ASSUME NEW labels, NEW ss, NEW n, IsPage(labels, ss, n), NEW t \in Nat, t <= n
  PROVE  /\ Hits(Ranked(labels, ss), t) <= Hits(labels, n)
         /\ Hits(Ranked(labels, ss), n) = Hits(labels, n)
<1> DEFINE r == Ranked(labels, ss)
<1>1. n \in Nat /\ ss \in Seq(Int) /\ n = Len(ss)
  BY DEF IsPage
<1>2. \A k \in 1..n : r[k] = labels[Order(ss)[k]]
  BY RankedIs
<1> HIDE DEF r
<1>3. \A k \in 1..n : Order(ss)[k] \in 1..n /\ Place(ss, Order(ss)[k]) = k
  BY <1>1, OrderProperties
<1>4. \A i \in 1..n : Place(ss, i) \in 1..n /\ Order(ss)[Place(ss, i)] = i
  BY <1>1, OrderProperties
<1>5. /\ IsFiniteSet(Relevant(labels, n)) /\ Hits(labels, n) = Cardinality(Relevant(labels, n))
      /\ Hits(labels, n) \in Nat
  BY <1>1, HitsFinite
<1>6. ASSUME NEW m \in Nat, m <= n
      PROVE  /\ Hits(r, m) <= Hits(labels, n)
             /\ m = n => Hits(r, m) = Hits(labels, n)
  <2> DEFINE A == Relevant(r, m)
             B == Relevant(labels, n)
             f == [k \in A |-> Order(ss)[k]]
  <2>1. \A k \in A : k \in 1..n /\ r[k] > 0
    <3>1. \A k \in 1..m : k \in 1..n
      BY <1>1, <1>6
    <3> QED BY <3>1 DEF Relevant
  <2>2. \A k \in A : Order(ss)[k] \in B
    BY <1>2, <1>3, <2>1 DEF Relevant
  <2>3. f \in Injection(A, B)
    <3> HIDE DEF A, B
    <3>1. f \in [A -> B]
      BY <2>2
    <3>2. \A k, l \in A : f[k] = f[l] => k = l
      BY <1>3, <2>1
    <3> HIDE DEF f
    <3> QED BY <3>1, <3>2 DEF Injection, IsInjective
  <2>4. Hits(r, m) = Cardinality(A) /\ Hits(r, m) \in Nat
    BY HitsFinite
  <2>5. m = n => f \in Surjection(A, B)
    <3> SUFFICES ASSUME m = n, NEW i \in B PROVE \E k \in A : f[k] = i
      BY <2>3 DEF Surjection, Injection
    <3>1. i \in 1..n /\ labels[i] > 0
      BY DEF Relevant
    <3>2. Place(ss, i) \in 1..n /\ Order(ss)[Place(ss, i)] = i
      BY <1>4, <3>1
    <3>3. Place(ss, i) \in A
      BY <1>2, <3>1, <3>2 DEF Relevant
    <3> QED BY <3>2, <3>3
  <2> HIDE DEF A, f
  <2>6. Cardinality(A) <= Cardinality(B) /\ (m = n => Cardinality(A) = Cardinality(B))
    <3> HIDE DEF B
    <3>1. IsFiniteSet(B)
      BY <1>5 DEF B
    <3> QED BY <2>3, <2>5, <3>1, FS_Injection
  <2> QED BY <1>5, <2>4, <2>6
<1> QED BY <1>1, <1>6 DEF r

IsTop(top, s, u) == HasLabels(top, u) /\ \A i \in 1..u : top[i] = s[i]

(* What is above the cutoff of a ranking.                                  *)
LEMMA TopOfRanking ==
  ASSUME NEW labels, NEW ss, NEW n, IsPage(labels, ss, n),
         NEW u \in Nat, u = Min({K, n}), CutAt(u, n), NEW top, top = TopK(Ranked(labels, ss))
  PROVE  /\ HasLabels(top, u) /\ IsTop(top, Ranked(labels, ss), u)
         /\ Hits(top, u) = Hits(Ranked(labels, ss), u)
         /\ Hits(top, u) \in Nat /\ Hits(top, u) <= u /\ Hits(top, u) <= Hits(labels, n)
<1> DEFINE r == Ranked(labels, ss)
<1>1. HasLabels(r, n)
  BY RankedIs
<1>2. r \in Seq(0..MaxGrade) /\ n = Len(r) /\ top = TopK(r) /\ u <= n
  BY <1>1 DEF HasLabels, CutAt
<1>3. Hits(r, u) <= Hits(labels, n)
  BY <1>2, HitsOfRanking
<1> HIDE DEF r
<1>4. HasLabels(top, u) /\ \A i \in 1..u : top[i] = r[i]
  BY <1>2, TopKIs
<1>5. Hits(top, u) = Hits(r, u)
  <2>1. {i \in 1..u : top[i] > 0} = {i \in 1..u : r[i] > 0}
    BY <1>4
  <2> QED BY <2>1 DEF Hits
<1>6. Hits(top, u) \in Nat /\ Hits(top, u) <= u
  BY HitsFinite
<1> QED BY <1>3, <1>4, <1>5, <1>6 DEF r, IsTop

(* Ranked by label, as many positives are above the cutoff as there are or *)
(* as it shows.                                                            *)
LEMMA HitsOfIdeal ==
  ASSUME NEW labels \in Seq(0..MaxGrade), NEW n, n = Len(labels),
         NEW u \in Nat, CutAt(u, n), NEW relevant, relevant = Hits(labels, n), relevant # 0
  PROVE  Hits(Ranked(labels, labels), u) = IF relevant <= K THEN relevant ELSE K
<1> DEFINE d == Ranked(labels, labels)
<1>1. n \in Nat /\ IsPage(labels, labels, n)
  BY DescendingIs
<1>2. /\ HasLabels(d, n)
      /\ \A k, l \in 1..n : k <= l => d[k] >= d[l]
  <2>1. /\ Descending(labels) = d /\ HasLabels(Descending(labels), n)
        /\ \A k, l \in 1..n : k <= l => Descending(labels)[k] >= Descending(labels)[l]
    BY DescendingIs
  <2> HIDE DEF d
  <2> QED BY <2>1
<1>3. K \in Nat /\ K >= 1 /\ u <= n /\ u <= K /\ (u = n \/ u = K)
  BY WeightProperties DEF CutAt
<1>4. Hits(d, u) <= relevant /\ Hits(d, n) = relevant
  BY <1>1, <1>3, HitsOfRanking
<1> HIDE DEF d
<1>5. PICK x \in Nat : x = Hits(d, u) /\ x <= u
  BY HitsFinite
<1>6. relevant \in Nat /\ relevant <= n
  BY <1>1, HitsFinite
<1>7. u \in 1..n
  BY <1>1, <1>3, <1>6
<1>8. CASE d[u] > 0
  <2>1. \A i \in 1..u : d[i] > 0
    <3> TAKE i \in 1..u
    <3>1. i \in 1..n /\ i <= u
      BY <1>7
    <3>2. d[i] \in 0..MaxGrade /\ d[u] \in 0..MaxGrade /\ d[i] >= d[u]
      BY <1>2, <1>7, <3>1 DEF HasLabels
    <3>3. PICK a, b \in Int : a = d[i] /\ b = d[u]
      BY <3>2, GainProperties
    <3>4. a >= b /\ b > 0
      BY <1>8, <3>2, <3>3
    <3>5. a > 0
      BY <3>4
    <3> QED BY <3>3, <3>5
  <2>2. x = u
    BY <1>5, <2>1, AllHits
  <2>3. u <= relevant
    BY <1>4, <1>5, <2>2
  <2>4. u = IF relevant <= K THEN relevant ELSE K
    BY <1>1, <1>3, <1>6, <2>3
  <2> QED BY <1>5, <2>2, <2>4 DEF d
<1>9. CASE ~(d[u] > 0)
  <2>1. \A i \in 1..n : d[i] > 0 => i \in 1..u
    <3> SUFFICES ASSUME NEW i \in 1..n, d[i] > 0, ~(i \in 1..u) PROVE FALSE
      OBVIOUS
    <3>1. u <= i
      BY <1>7
    <3>2. d[i] \in 0..MaxGrade /\ d[u] \in 0..MaxGrade /\ d[u] >= d[i]
      BY <1>2, <1>7, <3>1 DEF HasLabels
    <3>3. PICK a, b \in Int : a = d[i] /\ b = d[u]
      BY <3>2, GainProperties
    <3>4. b >= a /\ a > 0 /\ ~(b > 0)
      BY <1>9, <3>2, <3>3
    <3> QED BY <3>4
  <2>2. {i \in 1..n : d[i] > 0} = {i \in 1..u : d[i] > 0}
    <3>1. \A i \in 1..u : i \in 1..n
      BY <1>7
    <3> QED BY <2>1, <3>1
  <2>3. x = relevant
    BY <1>4, <1>5, <2>2 DEF Hits
  <2>4. relevant <= K
    BY <1>3, <1>5, <2>3
  <2> QED BY <1>5, <2>3, <2>4 DEF d
<1> QED BY <1>8, <1>9

(* The ranking by label scores One wherever there is a positive, and no    *)
(* other scores more.                                                      *)
LEMMA AveragePrecisionMarks ==
  ASSUME NEW labels, NEW ss, NEW n, IsPage(labels, ss, n)
  PROVE  /\ AveragePrecision(labels, ss) <= Marks(labels)
         /\ AveragePrecision(labels, labels) = Marks(labels)
<1>1. /\ n \in Nat /\ labels \in Seq(0..MaxGrade) /\ n = Len(labels)
      /\ HasLabels(labels, n) /\ IsPage(labels, labels, n)
  BY LabelsAre, DescendingIs DEF IsPage
<1>2. PICK u \in Nat : u = Min({K, n}) /\ CutAt(u, n)
  BY <1>1, CutExists
<1>3. K \in Nat /\ K >= 1 /\ u <= K
  BY <1>2, WeightProperties DEF CutAt
<1>4. PICK relevant \in Nat : relevant = Hits(labels, n)
  BY <1>1, HitsFinite
<1>5. relevant = 0 <=> ~ \E j \in DOMAIN labels : labels[j] > 0
  <2>1. IsFiniteSet(Relevant(labels, n)) /\ Hits(labels, n) = Cardinality(Relevant(labels, n))
    BY <1>1, HitsFinite
  <2>2. relevant = 0 <=> Relevant(labels, n) = {}
    BY <1>4, <2>1, FS_EmptySet
  <2> QED BY <1>1, <2>2 DEF Relevant, HasLabels
<1>6. CASE relevant = 0
  <2>1. /\ AveragePrecision(labels, ss) = 0 /\ AveragePrecision(labels, labels) = 0
        /\ Marks(labels) = 0
    BY <1>1, <1>4, <1>5, <1>6 DEF AveragePrecision, Marks
  <2> QED BY <2>1
<1>7. CASE relevant # 0
  <2>1. PICK most \in Nat : /\ most = Min({relevant, K}) /\ most > 0
                           /\ most = IF relevant <= K THEN relevant ELSE K
    <3>1. Min({relevant, K}) = IF relevant <= K THEN relevant ELSE K
      BY <1>3, Lesser
    <3> QED BY <1>3, <1>7, <3>1
  <2>2. Marks(labels) = One
    BY <1>5, <1>7 DEF Marks
  <2>3. \A s : AveragePrecision(labels, s)
                = Total(Precisions(TopK(Ranked(labels, s)))) \div most
    BY <1>1, <1>4, <1>7, <2>1 DEF AveragePrecision
  <2>4. AveragePrecision(labels, ss) <= One
    <3>1. PICK top : top = TopK(Ranked(labels, ss))
      OBVIOUS
    <3>2. HasLabels(top, u) /\ Hits(top, u) \in Nat /\ Hits(top, u) <= u /\ Hits(top, u) <= relevant
      BY <1>2, <1>4, <3>1, TopOfRanking
    <3>3. PICK x \in Nat : x = Hits(top, u) /\ x <= most
      BY <1>3, <2>1, <3>2
    <3>4. PICK a \in Nat : a = Total(Precisions(top)) /\ a <= x * One
      BY <3>2, <3>3, PrecisionsTotal
    <3>5. a <= most * One
      BY <3>3, <3>4 DEF One
    <3>6. a \div most <= One
      BY <2>1, <3>5, Share
    <3> QED BY <2>3, <3>1, <3>4, <3>6
  <2>5. AveragePrecision(labels, labels) = One
    <3>1. PICK top : top = TopK(Ranked(labels, labels))
      OBVIOUS
    <3>2. /\ HasLabels(top, u) /\ Hits(top, u) = Hits(Ranked(labels, labels), u)
          /\ \A i \in 1..u : top[i] = Ranked(labels, labels)[i]
      <4>1. IsTop(top, Ranked(labels, labels), u) /\ Hits(top, u) = Hits(Ranked(labels, labels), u)
        BY <1>1, <1>2, <3>1, TopOfRanking
      <4> QED BY <4>1 DEF IsTop
    <3>3. Hits(top, u) = most
      BY <1>1, <1>2, <1>4, <1>7, <2>1, <3>2, HitsOfIdeal
    <3>4. \A i, j \in 1..u : i <= j => top[i] >= top[j]
      <4>1. \A i \in 1..u : i \in 1..n
        BY <1>1, <1>2, CutWithin
      <4>2. \A i, j \in 1..n : i <= j => Ranked(labels, labels)[i] >= Ranked(labels, labels)[j]
        BY <1>1, DescendingIs
      <4> QED BY <3>2, <4>1, <4>2
    <3>5. Total(Precisions(top)) = most * One
      BY <3>2, <3>3, <3>4, PrecisionsTotal
    <3>6. (most * One) \div most = One
      BY <2>1, Share
    <3> QED BY <2>3, <3>1, <3>5, <3>6
  <2> QED BY <2>2, <2>4, <2>5 DEF One
<1> QED BY <1>6, <1>7

-------------------------------------------------------------------------------
(* Every page that is judged.                                              *)

LEMMA JudgedStep ==
  ASSUME RunInv, JudgedInv, [Next]_vars
  PROVE  JudgedInv'
<1> DEFINE Taken == Len(holdout.labels) = Offset(holdout.groups, Len(holdout.groups) + 1)
           Scored == Trained => pc = "done" /\ Len(scores) = Len(holdout.labels)
<1>1. JudgedInv <=> Taken /\ Scored
  BY DEF JudgedInv
<1>2. JudgedInv' <=> Taken' /\ Scored'
  BY DEF JudgedInv
<1>3. UNCHANGED holdout => Taken'
  BY <1>1
<1>4. exit' # "ok" => Scored'
  BY DEF Trained
<1>5. pc # "done" => exit # "ok"
  BY <1>1 DEF Trained
<1>6. CASE (\E e \in Event : Engage(e)) \/ (\E i \in Impression : Show(i))
  <2>1. UNCHANGED <<pc, holdout, scores, exit>>
    BY <1>6 DEF Engage, Show
  <2> QED BY <1>1, <1>2, <1>3, <2>1 DEF Trained
<1>7. CASE Start \/ QueryPositives \/ SourceDown \/ StoreDown \/ Refuse
  <2>1. UNCHANGED holdout
    BY <1>7 DEF Start, QueryPositives, SourceDown, StoreDown, Refuse
  <2>2. (exit' = exit /\ pc # "done") \/ exit' \in {"nothing to do", "infra"}
    <3>1. Start => (exit' = exit /\ pc # "done") \/ exit' \in {"nothing to do", "infra"}
      BY DEF Start, Goto, Finish
    <3>2. QueryPositives => (exit' = exit /\ pc # "done") \/ exit' \in {"nothing to do", "infra"}
      BY DEF QueryPositives, Goto, Finish
    <3>3. SourceDown \/ StoreDown \/ Refuse => exit' \in {"nothing to do", "infra"}
      BY DEF SourceDown, StoreDown, Refuse, Finish
    <3> QED BY <1>7, <3>1, <3>2, <3>3
  <2>3. exit' # "ok"
    BY <1>5, <2>2
  <2> QED BY <1>2, <1>3, <1>4, <2>1, <2>3
<1>8. CASE AddIgnored \/ AddSampled \/ BuildFeatures \/ Featurize
  <2>1. UNCHANGED <<holdout, exit>> /\ pc # "done"
    <3>1. AddIgnored => UNCHANGED <<holdout, exit>> /\ pc # "done"
      BY DEF AddIgnored, Goto
    <3>2. AddSampled => UNCHANGED <<holdout, exit>> /\ pc # "done"
      BY DEF AddSampled, Goto
    <3>3. BuildFeatures \/ Featurize => UNCHANGED <<holdout, exit>> /\ pc # "done"
      BY DEF BuildFeatures, Featurize, Goto
    <3> QED BY <1>8, <3>1, <3>2, <3>3
  <2>2. exit' # "ok"
    BY <1>5, <2>1
  <2> QED BY <1>2, <1>3, <1>4, <2>1, <2>2
<1>9. CASE Split
  <2>1. pc # "done" /\ UNCHANGED exit
    BY <1>9 DEF Split, Goto
  <2>2. PICK pages \in SetToSeqs(Pages) : IsPartOf(holdout', pages, Late(pages))
    BY <1>9, SplitShape DEF RunInv
  <2>3. Taken'
    BY <2>2 DEF IsPartOf
  <2> QED BY <1>2, <1>4, <1>5, <2>1, <2>3
<1>10. CASE Train
  <2>1. UNCHANGED holdout /\ pc' = "done" /\ scores' \in [DOMAIN holdout.labels -> Scores]
    BY <1>10 DEF Train, Finish
  <2>2. PICK n \in Nat : n = Len(holdout.labels)
    BY DEF RunInv, TypeOK, Side
  <2>3. DOMAIN holdout.labels = 1..n
    BY <2>2 DEF RunInv, TypeOK, Side
  <2>4. Len(scores') = n
    BY <2>1, <2>3, FunctionIsList
  <2> QED BY <1>2, <1>3, <2>1, <2>2, <2>4
<1>11. CASE UNCHANGED vars
  BY <1>1, <1>2, <1>3, <1>11 DEF vars, Trained
<1> QED BY <1>6, <1>7, <1>8, <1>9, <1>10, <1>11 DEF Next

(* Each run of the holdout is a page with a score for each of its labels.  *)
LEMMA JudgedPages ==
  ASSUME RunInv, JudgedInv, Trained, NEW i \in DOMAIN holdout.groups
  PROVE  \E n : IsPage(Run(holdout.labels, holdout.groups, i), Run(scores, holdout.groups, i), n)
<1> DEFINE l == holdout.groups
           L == 0..MaxGrade
<1>1. /\ l \in Seq(Nat) /\ holdout.labels \in Seq(L) /\ scores \in Seq(Scores)
      /\ Len(holdout.labels) = Offset(l, Len(l) + 1) /\ Len(scores) = Offset(l, Len(l) + 1)
  BY DEF RunInv, TypeOK, Side, JudgedInv
<1>2. i \in 1..Len(l)
  BY <1>1
<1> HIDE DEF l, L
<1>3. Run(holdout.labels, l, i) \in Seq(L) /\ Len(Run(holdout.labels, l, i)) = l[i] /\ l[i] \in Nat
  BY <1>1, <1>2, RunLength
<1>4. Run(scores, l, i) \in Seq(Scores) /\ Len(Run(scores, l, i)) = l[i]
  BY <1>1, <1>2, RunLength
<1>5. Run(scores, l, i) \in Seq(Int)
  <2>1. Scores \subseteq Int
    BY ScoresAssumption
  <2>2. PICK r : r = Run(scores, l, i)
    OBVIOUS
  <2>3. r \in [1..l[i] -> Int]
    <3>1. DOMAIN r = 1..l[i] /\ \A k \in 1..l[i] : r[k] \in Scores
      BY <1>4, <2>2, Domain
    <3>2. r = [k \in DOMAIN r |-> r[k]]
      BY <1>4, <2>2
    <3> QED BY <2>1, <3>1, <3>2
  <2> QED BY <1>3, <2>2, <2>3, FunctionIsList
<1> QED BY <1>3, <1>4, <1>5 DEF IsPage, l, L

(* For pages of any length with any labels, ties and positives beyond the  *)
(* cutoff included, and any scores of any model: both metrics give full    *)
(* marks to the ranking by label and to no ranking more                    *)
(* (ranking_metrics.py:46, 64).                                            *)
THEOREM FullMarksTheorem == Spec => []FullMarks
<1>1. Init => JudgedInv
  <2>1. <<>> \in Seq(Nat) /\ Len(<<>>) = 0 /\ 0 + 1 = 1
    OBVIOUS
  <2>2. Offset(<<>>, 1) = 0
    BY <2>1, OffsetProperties
  <2> QED BY <2>1, <2>2 DEF Init, JudgedInv, NoSide, Trained
<1>2. RunInv /\ JudgedInv /\ [Next]_vars => JudgedInv'
  BY JudgedStep
<1>3. RunInv /\ JudgedInv => FullMarks
  <2> SUFFICES ASSUME RunInv, JudgedInv, Trained, NEW i \in DOMAIN holdout.groups,
                      NEW labels, labels = Run(holdout.labels, holdout.groups, i),
                      NEW ss, ss = Run(scores, holdout.groups, i)
               PROVE  /\ NDCG(labels, labels) = Marks(labels)
                      /\ AveragePrecision(labels, labels) = Marks(labels)
                      /\ NDCG(labels, ss) <= Marks(labels)
                      /\ AveragePrecision(labels, ss) <= Marks(labels)
    BY DEF FullMarks, Marks
  <2>1. PICK n : IsPage(labels, ss, n)
    BY JudgedPages
  <2> QED BY <2>1, NDCGMarks, AveragePrecisionMarks
<1> QED BY <1>1, <1>2, <1>3, RunInvariant, PTL DEF Spec

===============================================================================
