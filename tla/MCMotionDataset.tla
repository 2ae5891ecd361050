--------------------------- MODULE MCMotionDataset ---------------------------
(***************************************************************************)
(* Four clips of a lynx and a bear; the second cond.npy loses the bear.    *)
(***************************************************************************)
EXTENDS MotionDataset, FiniteSetsExt

mc_OwnerOf == [c \in Clips |-> IF c = 4 THEN "bear" ELSE "lynx"]
mc_Shorter == [s \in Species |-> None]
mc_KeysOf  == <<Species, {"lynx"}>>

(* A cub has too many joints, and its name extends the name of the adult.  *)
mc_OwnerOf_cub == [c \in Clips |-> IF c = 4 THEN "lynx_cub" ELSE "lynx"]
mc_Shorter_cub == [s \in Species |-> IF s = "lynx_cub" THEN "lynx" ELSE None]
mc_KeysOf_cub  == <<{"lynx"}, {"lynx"}>>

(* The shuffle of a list depends on its length.                            *)
mc_Draw(S, k) ==
  IF Cardinality(S) % 2 = 0
    THEN CHOOSE T \in kSubset(k, S) : TRUE
    ELSE {x \in S : Cardinality({y \in S : y > x}) < k}
=============================================================================
