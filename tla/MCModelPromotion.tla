-------------------------- MODULE MCModelPromotion --------------------------
(***************************************************************************)
(* Instances of ModelPromotion: the runs of the job are interchangeable,   *)
(* and the properties checked under this symmetry are safety properties.   *)
(***************************************************************************)
EXTENDS ModelPromotion, TLC

Interchangeable == Permutations(Trainer)
=============================================================================
