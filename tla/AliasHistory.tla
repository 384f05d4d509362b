---------------------------- MODULE AliasHistory ----------------------------
(***************************************************************************)
(* The champion alias of the MLflow model registry, as the two programs    *)
(* that share it see it.  The ranking service reads it by name and never   *)
(* writes it (tracking.resolve_alias); the trainer points it at a version  *)
(* it has just registered (tracking.promote).  MLflow itself is external;  *)
(* what matters of it is the order in which the alias took its values, so  *)
(* the state is that history and "now" is its length.                      *)
(***************************************************************************)
EXTENDS Naturals, Sequences

CONSTANTS
  Version,     \* registered model versions
  Repoint,     \* TRUE: an operator may point the alias back at a past version
  MaxMoves     \* bound on the moves of the alias

ASSUME RepointAssumption == Repoint \in BOOLEAN
ASSUME MovesAssumption == MaxMoves \in Nat

VARIABLE aliasLog    \* every version the alias has named, oldest first

Now == Len(aliasLog)
HasAlias == aliasLog # <<>>
Champion == aliasLog[Now]
Aliased == {aliasLog[i] : i \in 1..Now}

AliasInit == aliasLog = <<>>

(* set_registered_model_alias: the alias now names v.                      *)
Move(v) ==
  /\ Now < MaxMoves
  /\ \/ v \notin Aliased
     \/ Repoint /\ HasAlias /\ v # Champion
  /\ aliasLog' = Append(aliasLog, v)

AliasNext == \E v \in Version : Move(v)

AliasSpec == AliasInit /\ [][AliasNext]_aliasLog
=============================================================================
