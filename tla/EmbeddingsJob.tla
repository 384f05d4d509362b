---------------------------- MODULE EmbeddingsJob ----------------------------
(***************************************************************************)
(* jobs/embeddings.py: article text -> rec:article_embedding:<id>, hourly. *)
(*                                                                         *)
(* A run reads the fingerprints of what is embedded, walks the article     *)
(* service's recent listing page by page (newest first, by offset), notes  *)
(* what is new or changed, stops early after enough unchanged pages, and   *)
(* only then writes: the vectors in a pipeline that is not a transaction,  *)
(* the fingerprints in one HSET, the freshness stamp.  The listing can     *)
(* change between two pages, and a second run can be going.                *)
(*                                                                         *)
(* Articles are numbered by creation, which is what the listing sorts by.  *)
(* A text is its revision number; a vector or a fingerprint is the         *)
(* revision it was made from, 0 for none.                                  *)
(***************************************************************************)
EXTENDS Integers, FiniteSets

CONSTANTS
  Articles,        \* how many articles are ever created
  Runner,          \* the runs of the job that can go at the same time
  Modes,           \* the command lines in use: the timer's, and --full (TRUE)
  PageSize,        \* RECENT_PAGE_SIZE, and the 100 of build
  StopAfter,       \* stop_after_clean_pages
  MaxArticles,     \* --max-articles; more than Articles when it is not given
  Misshapen,       \* articles whose vector comes out with the wrong width
  LatePublish,     \* TRUE: a draft may be published after newer articles
  Unpublish,       \* when an article may leave the listing
  Revert,          \* TRUE: an edit may restore an earlier text
  MaxText,         \* bound on the revisions of a text
  MaxFaults        \* bound on failed requests and killed runs

Article == 1..Articles

ASSUME SizeAssumption ==
  /\ Articles \in Nat /\ PageSize \in Nat \ {0} /\ StopAfter \in Nat
  /\ MaxArticles \in Nat \ {0} /\ MaxText \in Nat \ {0} /\ MaxFaults \in Nat
ASSUME ModesAssumption == Modes \subseteq BOOLEAN /\ FALSE \in Modes
ASSUME MisshapenAssumption == Misshapen \subseteq Article
ASSUME EditorAssumption ==
  /\ LatePublish \in BOOLEAN /\ Revert \in BOOLEAN
  /\ Unpublish \in {"never", "between walks", "any time"}

VARIABLES
  listed,      \* the Published + Public articles
  created,     \* the newest article that has been published so far
  text,        \* article -> revision of its text
  vec,         \* article -> rec:article_embedding:<id>
  fp,          \* article -> its field of the fingerprints hash
  pc,          \* run -> its next step
  full,        \* run -> --full
  known,       \* run -> the fingerprints it read when it started
  offset,      \* run -> articles seen, which is the offset of the next page
  clean,       \* run -> consecutive unchanged pages
  pending,     \* run -> article -> revision to embed, 0 for none
  todo,        \* run -> articles whose vector is still to be written
  faults

catalog == <<listed, created, text>>
store == <<vec, fp>>
walk == <<full, known, offset, clean, pending, todo>>
vars == <<catalog, store, pc, walk, faults>>

Nothing == [a \in Article |-> 0]
Revision == 0..MaxText
Step == {"idle", "walk", "vectors", "fingerprints", "stamp"}

TypeOK ==
  /\ listed \subseteq Article /\ created \in 0..Articles
  /\ text \in [Article -> 1..MaxText]
  /\ vec \in [Article -> Revision]
  /\ fp \in [Article -> Revision]
  /\ pc \in [Runner -> Step]
  /\ full \in [Runner -> BOOLEAN]
  /\ known \in [Runner -> [Article -> Revision]]
  /\ offset \in [Runner -> Nat]
  /\ clean \in [Runner -> Nat]
  /\ pending \in [Runner -> [Article -> Revision]]
  /\ todo \in [Runner -> SUBSET Article]
  /\ faults \in 0..MaxFaults

Init ==
  /\ listed = {} /\ created = 0
  /\ text = [a \in Article |-> 1]
  /\ vec = Nothing /\ fp = Nothing
  /\ pc = [r \in Runner |-> "idle"]
  /\ full = [r \in Runner |-> FALSE]
  /\ known = [r \in Runner |-> Nothing]
  /\ offset = [r \in Runner |-> 0]
  /\ clean = [r \in Runner |-> 0]
  /\ pending = [r \in Runner |-> Nothing]
  /\ todo = [r \in Runner |-> {}]
  /\ faults = 0

-------------------------------------------------------------------------------
(* The article service and its authors.                                    *)

PublishArticle(a) ==
  /\ a \notin listed
  /\ a > created \/ LatePublish
  /\ listed' = listed \cup {a}
  /\ created' = IF a > created THEN a ELSE created
  /\ UNCHANGED <<text, store, pc, walk, faults>>

UnpublishArticle(a) ==
  /\ \/ Unpublish = "any time"
     \/ Unpublish = "between walks" /\ \A r \in Runner : pc[r] # "walk"
  /\ a \in listed
  /\ listed' = listed \ {a}
  /\ UNCHANGED <<created, text, store, pc, walk, faults>>

EditArticle(a) ==
  /\ a \in listed
  /\ \E v \in 1..MaxText : /\ v = text[a] + 1 \/ (Revert /\ v < text[a])
                           /\ text' = [text EXCEPT ![a] = v]
  /\ UNCHANGED <<listed, created, store, pc, walk, faults>>

(* GET /articles/recent?offset=o&limit=n, as it stands at this moment.     *)
Newer(a) == Cardinality({b \in listed : b > a})
Recent(o, n) == {a \in listed : o <= Newer(a) /\ Newer(a) < o + n}

-------------------------------------------------------------------------------
(* A run.                                                                  *)

(* get_fingerprints; --full knows nothing.                                 *)
Start(r, f) ==
  /\ pc[r] = "idle"
  /\ full' = [full EXCEPT ![r] = f]
  /\ known' = [known EXCEPT ![r] = IF f THEN Nothing ELSE fp]
  /\ pc' = [pc EXCEPT ![r] = "walk"]
  /\ UNCHANGED <<catalog, store, offset, clean, pending, todo, faults>>

(* The run is over; the next one of this slot starts from nothing.         *)
End(r) ==
  /\ pc' = [pc EXCEPT ![r] = "idle"]
  /\ full' = [full EXCEPT ![r] = FALSE]
  /\ known' = [known EXCEPT ![r] = Nothing]
  /\ offset' = [offset EXCEPT ![r] = 0]
  /\ clean' = [clean EXCEPT ![r] = 0]
  /\ pending' = [pending EXCEPT ![r] = Nothing]
  /\ todo' = [todo EXCEPT ![r] = {}]

(* _account of the articles taken from one page.                           *)
Changed(r, taken) == {a \in taken : known[r][a] # text[a]}

Account(r, taken) ==
  [a \in Article |-> IF a \in Changed(r, taken) THEN text[a] ELSE pending[r][a]]

\* Mutant of CleanPages: the count goes down.
CleanPagesDown(r, taken) == IF Changed(r, taken) = {} THEN clean[r] - 1 ELSE 0

CleanPages(r, taken) == IF Changed(r, taken) = {} THEN clean[r] + 1 ELSE 0

(* build only counts whole pages; a shorter one is accounted after the loop. *)
WholePage(taken) == Cardinality(taken) = PageSize

\* Mutant of UnchangedForLong: a page is enough, whatever the run and its articles.
UnchangedForLongAnyPage(r, taken) == WholePage(taken)

UnchangedForLong(r, taken) ==
  ~full[r] /\ WholePage(taken) /\ CleanPages(r, taken) >= StopAfter

(* --max-articles cuts the page it falls in.                               *)
Taken(r) ==
  Recent(offset[r], IF MaxArticles - offset[r] < PageSize
                    THEN MaxArticles - offset[r] ELSE PageSize)

(* The walk is over: nothing to encode, or everything is encoded at once   *)
(* and the vectors of the right width are about to be written.             *)
Encode(r, p) ==
  IF p = Nothing
  THEN End(r)
  ELSE /\ pending' = [pending EXCEPT ![r] = p]
       /\ todo' = [todo EXCEPT ![r] = {a \in Article : p[a] # 0} \ Misshapen]
       /\ pc' = [pc EXCEPT ![r] = "vectors"]
       /\ UNCHANGED <<full, known, offset, clean>>

(* One page of iter_published and what the loop of build does with it.     *)
LastPage(r) ==
  LET taken == Taken(r) IN
  /\ pc[r] = "walk"
  /\ \/ UnchangedForLong(r, taken)
     \/ offset[r] + Cardinality(taken) >= MaxArticles
     \/ ~WholePage(taken)
  /\ Encode(r, Account(r, taken))
  /\ UNCHANGED <<catalog, store, faults>>

NextPage(r) ==
  LET taken == Taken(r) IN
  /\ pc[r] = "walk"
  /\ WholePage(taken)
  /\ ~UnchangedForLong(r, taken)
  /\ offset[r] + PageSize < MaxArticles
  /\ pending' = [pending EXCEPT ![r] = Account(r, taken)]
  /\ clean' = [clean EXCEPT ![r] = CleanPages(r, taken)]
  /\ offset' = [offset EXCEPT ![r] = @ + PageSize]
  /\ UNCHANGED <<catalog, store, pc, full, known, todo, faults>>

(* The pipeline of SETs, in the order of the walk.                         *)
SetEmbedding(r) ==
  /\ pc[r] = "vectors"
  /\ \E a \in todo[r] :
       /\ \A b \in todo[r] : b <= a
       /\ vec' = [vec EXCEPT ![a] = pending[r][a]]
       /\ todo' = [todo EXCEPT ![r] = @ \ {a}]
  /\ UNCHANGED <<catalog, fp, pc, full, known, offset, clean, pending, faults>>

\* Mutant of EmbeddingsWritten: the fingerprints do not wait for the vectors.
EmbeddingsWrittenEarly(r) ==
  /\ pc[r] = "vectors"
  /\ pc' = [pc EXCEPT ![r] = "fingerprints"]
  /\ UNCHANGED <<catalog, store, walk, faults>>

EmbeddingsWritten(r) ==
  /\ pc[r] = "vectors" /\ todo[r] = {}
  /\ pc' = [pc EXCEPT ![r] = "fingerprints"]
  /\ UNCHANGED <<catalog, store, walk, faults>>

(* One HSET for every pending article, its vector written or skipped.      *)
SetFingerprints(r) ==
  /\ pc[r] = "fingerprints"
  /\ fp' = [a \in Article |-> IF pending[r][a] # 0 THEN pending[r][a] ELSE fp[a]]
  /\ pc' = [pc EXCEPT ![r] = "stamp"]
  /\ UNCHANGED <<catalog, vec, walk, faults>>

(* mark_fresh("article_embedding"), and exit 0                             *)
MarkFresh(r) ==
  /\ pc[r] = "stamp"
  /\ End(r)
  /\ UNCHANGED <<catalog, store, faults>>

Fault ==
  /\ faults < MaxFaults
  /\ faults' = faults + 1

\* Mutant of WalkFails: what was seen before the failure is embedded.
WalkFailsKeepsPages(r) ==
  /\ pc[r] = "walk"
  /\ Fault
  /\ Encode(r, pending[r])
  /\ UNCHANGED <<catalog, store>>

(* ArticleServiceError: the whole walk is thrown away.                     *)
WalkFails(r) ==
  /\ pc[r] = "walk"
  /\ Fault
  /\ End(r)
  /\ UNCHANGED <<catalog, store>>

(* The process is killed, or Redis fails it, wherever it is.               *)
Kill(r) ==
  /\ pc[r] # "idle"
  /\ Fault
  /\ End(r)
  /\ UNCHANGED <<catalog, store>>

Run(r) ==
  \/ LastPage(r) \/ NextPage(r) \/ SetEmbedding(r) \/ EmbeddingsWritten(r)
  \/ SetFingerprints(r) \/ MarkFresh(r)

Next ==
  \/ \E a \in Article : PublishArticle(a) \/ UnpublishArticle(a) \/ EditArticle(a)
  \/ \E r \in Runner : \/ \E f \in Modes : Start(r, f)
                       \/ Run(r) \/ WalkFails(r) \/ Kill(r)

(* The timer starts the incremental job again and again, and a run that is *)
(* not killed goes on.  No unit starts --full: it is up to an operator,    *)
(* who owes nothing, like authors and failures.                            *)
Fairness == \A r \in Runner : WF_vars(Run(r)) /\ SF_vars(Start(r, FALSE))

Spec == Init /\ [][Next]_vars /\ Fairness

-------------------------------------------------------------------------------
(* Safety.                                                                 *)

(* "%d articles already embedded" (embeddings.py:54) counts fingerprints:  *)
(* an article the next run will pass over because its fingerprint is that  *)
(* of its text has the vector of that text - after any kill between the    *)
(* vectors and the fingerprints, and edits at any moment of the run.       *)
SkippedIsEmbedded ==
  \A a \in Article : fp[a] = text[a] => vec[a] = text[a]

(* The rule of the early stop (embeddings.py:10-13): what lies behind a    *)
(* page of known articles is known.  It survives failures, kills and new   *)
(* articles that shift the pages under a walk.                             *)
KnownIsOldest ==
  \A a, b \in listed : a < b /\ fp[b] # 0 => fp[a] # 0

-------------------------------------------------------------------------------
(* Liveness.                                                               *)

(* From some moment on the listing and its texts stay as they are.         *)
Settled == <>[][FALSE]_catalog

(* "nothing useful is missed" (embeddings.py:8): a listed article gets a   *)
(* vector.                                                                 *)
NothingUsefulMissed ==
  Settled => \A a \in Article : <>[](a \in listed => vec[a] # 0)

-------------------------------------------------------------------------------
(* Why SkippedIsEmbedded holds with one run at a time.                     *)

(* Revisions only grow, from the text to the vector to the fingerprint.    *)
OrderInv == \A a \in Article : fp[a] <= vec[a] /\ vec[a] <= text[a]

(* What a run carries is no older than the vector it will replace, and     *)
(* before the fingerprints it has written all of it.                       *)
CarriedInv ==
  \A r \in Runner, a \in Article :
    pending[r][a] # 0 => /\ vec[a] <= pending[r][a] /\ pending[r][a] <= text[a]
                         /\ \/ pc[r] = "walk"
                            \/ pc[r] = "vectors" /\ a \in todo[r]
                            \/ pc[r] # "idle" /\ vec[a] = pending[r][a]

TodoInv == \A r \in Runner : /\ todo[r] # {} => pc[r] = "vectors"
                             /\ \A a \in todo[r] : pending[r][a] # 0

IInv == TypeOK /\ OrderInv /\ CarriedInv /\ TodoInv

-------------------------------------------------------------------------------
(* Why KnownIsOldest holds where the listing only grows, and at its top.   *)

(* What is known to the store or to a run is listed, and a run starts out  *)
(* with nothing.                                                           *)
ListedInv ==
  /\ \A a \in listed : a <= created
  /\ \A a \in Article : fp[a] # 0 => a \in listed
  /\ \A r \in Runner : /\ offset[r] < MaxArticles
                       /\ pc[r] = "idle" => pending[r] = Nothing
                       /\ \A a \in Article : /\ known[r][a] # 0 => fp[a] # 0
                                             /\ pending[r][a] # 0 => a \in listed

(* Behind an article that a run is going to embed there is none that is    *)
(* not known, or going to be; while it walks, as far as it has come.       *)
BehindInv ==
  \A r \in Runner : \A a, b \in listed :
    /\ a < b /\ pending[r][b] # 0
    /\ pc[r] = "walk" => Newer(a) < offset[r]
    => pending[r][a] # 0 \/ fp[a] # 0
===============================================================================
