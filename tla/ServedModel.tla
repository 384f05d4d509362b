----------------------------- MODULE ServedModel -----------------------------
(***************************************************************************)
(* What the header of service/state.py promises of a ranker process to     *)
(* those who call it, without saying how a model is loaded: a process that *)
(* serves has no model or one whose feature list is this code's; it never  *)
(* drops the one it has while it serves; and a replacement never takes it  *)
(* back to an older reading of the alias.                                  *)
(***************************************************************************)
EXTENDS AliasHistory

CONSTANTS
  Worker,        \* the ranker processes
  Compatible     \* the versions whose signature matches feature_store

VARIABLES
  up,            \* the processes that accept requests
  served         \* position in aliasLog of the model each serves, 0 for none

servedVars == <<aliasLog, up, served>>

Loadable(i) == i \in 1..Now /\ aliasLog[i] \in Compatible

ServedInit ==
  /\ AliasInit
  /\ up = {}
  /\ served = [w \in Worker |-> 0]

(* A promotion changes what the alias names and no process's model.        *)
Repromote(v) == Move(v) /\ UNCHANGED <<up, served>>

(* A process opens with a loadable model, or with none and answers 503.    *)
Open(w) ==
  /\ w \notin up
  /\ up' = up \cup {w}
  /\ \E i \in 0..Now : /\ i = 0 \/ Loadable(i)
                       /\ served' = [served EXCEPT ![w] = i]
  /\ UNCHANGED aliasLog

(* The model is swapped for one that was read at the same time or later.   *)
Swap(w) ==
  /\ w \in up
  /\ \E i \in served[w]..Now : /\ Loadable(i)
                               /\ served' = [served EXCEPT ![w] = i]
  /\ UNCHANGED <<aliasLog, up>>

(* Only the end of the process loses its model.                            *)
Close(w) ==
  /\ w \in up
  /\ up' = up \ {w}
  /\ served' = [served EXCEPT ![w] = 0]
  /\ UNCHANGED aliasLog

ServedNext ==
  \/ \E v \in Version : Repromote(v)
  \/ \E w \in Worker : Open(w) \/ Swap(w) \/ Close(w)

ServedSpec == ServedInit /\ [][ServedNext]_servedVars
==============================================================================
