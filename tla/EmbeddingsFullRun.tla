-------------------------- MODULE EmbeddingsFullRun --------------------------
(***************************************************************************)
(* What a run of embeddings.py with --full is for.  Nothing in the         *)
(* repository starts one: an operator does, after edits to old articles,   *)
(* which the early stop of the timer's runs does not see.  What the run    *)
(* owes for that can only be said of what has stayed as it is while it     *)
(* went, and so EmbeddingsJob gets a history variable, which no step of it *)
(* depends on.                                                             *)
(***************************************************************************)
EXTENDS EmbeddingsJob

VARIABLE
  steady   \* run -> while it is a full one: the articles that have been
           \* listed with one text, and have not changed pages upwards,
           \* since it started

historyVars == <<vars, steady>>

SteadyTypeOK == steady \in [Runner -> SUBSET Article]

HistoryInit == Init /\ steady = [r \in Runner |-> {}]

(* An article that is withdrawn moves the older ones up: one of them may   *)
(* pass from a page to come to one that has been read.                     *)
MovedUp(a) == \E b \in listed \ listed' : b > a

Starts(r) == pc[r] = "idle" /\ pc'[r] # "idle"
Ends(r) == pc[r] # "idle" /\ pc'[r] = "idle"

Remember ==
  steady' = [r \in Runner |->
               IF Starts(r) THEN IF full'[r] THEN listed ELSE {}
               ELSE IF Ends(r) THEN {}
               ELSE {a \in steady[r] \cap listed' : text'[a] = text[a] /\ ~MovedUp(a)}]

HistoryNext == Next /\ Remember

HistorySpec == HistoryInit /\ [][HistoryNext]_historyVars

-------------------------------------------------------------------------------
(* Not killed, and no call of it failed: exit 0, or nothing to encode.     *)
EndsWell(r) == Ends(r) /\ faults' = faults

(* An edit to an old article "is what --full is for" (embeddings.py:13):   *)
(* when a full run ends well, every article that stayed as it was has the  *)
(* vector of its text and its fingerprint - whatever was edited, published *)
(* late or restored before, half written by killed runs, or published,     *)
(* edited and withdrawn while it walked.  With its fingerprint it is also  *)
(* past the reach of later incremental runs.                               *)
FullRunCatchesUp ==
  [][\A r \in Runner : EndsWell(r) =>
       \A a \in steady[r] : vec'[a] = text[a] /\ fp'[a] = text[a]]_historyVars

-------------------------------------------------------------------------------
(* Why it does; proved in EmbeddingsJobProofs.                             *)

(* What stayed is listed, and the run has it as soon as its page was read; *)
(* then the vectors are written, and then the fingerprints.                *)
OnItsWay(r, a) ==
  /\ full[r] /\ a \in listed
  /\ \/ pc[r] = "walk" /\ Newer(a) >= offset[r]
     \/ pending[r][a] = text[a]
  /\ \/ pc[r] = "walk"
     \/ pc[r] = "vectors" /\ a \in todo[r]
     \/ vec[a] = text[a]
  /\ pc[r] = "stamp" => fp[a] = text[a]

SteadyInv == \A r \in Runner : \A a \in steady[r] : OnItsWay(r, a)

(* A full run knows nothing, and a walk starts at the top.                 *)
WalkInv ==
  \A r \in Runner : /\ full[r] => pc[r] # "idle" /\ known[r] = Nothing
                    /\ pc[r] = "idle" => offset[r] = 0
                    /\ offset[r] < MaxArticles

FullRunInv == TypeOK /\ SteadyTypeOK /\ WalkInv /\ SteadyInv
===============================================================================
