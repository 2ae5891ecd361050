----------------------------- MODULE WarmStart -----------------------------
(***************************************************************************)
(* Which weights a graph VAE takes over from a checkpoint: --init_ckpt and *)
(* --resume of scripts/train_graph_vae.py, and the frozen VAE of           *)
(* scripts/train_denoiser.py.  A state dict is the set of its groups of    *)
(* keys; which groups a network has depends on its options, and some       *)
(* options have no keys at all.  --init_ckpt drops the groups its network  *)
(* has replaced and lets new groups start fresh; the two lists are written *)
(* by hand as prefixes and substrings, so a group one of them names by     *)
(* accident is lost without a word.                                        *)
(***************************************************************************)
EXTENDS Integers, FiniteSets

CONSTANT Pools   \* --pool_type values considered

VARIABLES
  from,     \* options of the network in the checkpoint
  to,       \* options on the command line
  how,      \* "init", "resume" or "frozen"
  loaded,   \* groups taken over
  result    \* "none", "accepted" or "refused"

vars == <<from, to, how, loaded, result>>

(* The baseline Model, and the VAE with each choice of options.            *)
Options ==
  {o \in [kind : {"model", "vae"}, feat : {"fk6", "anytop13"}, attn : {"scalar", "graphormer"},
          pool : Pools, decoder : {"identity", "coarse", "temporal"}, text : BOOLEAN,
          names : BOOLEAN] :
     /\ o.decoder = "temporal" => o.feat = "anytop13"
     /\ o.kind = "model" => /\ o.feat = "fk6" /\ o.attn = "scalar" /\ o.decoder = "identity"
                            /\ ~o.text /\ o.pool = "none" /\ ~o.names}
Vaes == {o \in Options : o.kind = "vae"}

(* The groups of keys, by where they are in the network.                   *)
Body == {"encoder", "slot_norm", "decoder"}
Keys(o) ==
  Body
  \cup (IF o.feat = "fk6" THEN {"motion_proj"} ELSE {"motion_proj_root", "motion_proj_nonroot"})
  \cup (IF o.attn = "scalar" THEN {"graph bias"} ELSE {"graph topo"})
  \cup (IF o.kind = "model" THEN {"slot_assignment"}
        ELSE {"dist"}
             \cup (IF o.feat = "fk6" THEN {"tree", "tree bias"} ELSE {"anytop13_head"})
             \cup (IF o.pool = "dynamic" THEN {"pool"} ELSE {})
             \cup (IF o.text THEN {"text_proj"} ELSE {})
             \cup (IF o.decoder = "temporal" THEN {"temporal", "temporal topo"} ELSE {}))

(* The groups an --init_ckpt leaves out: `.geodesic_bias.` is looked for   *)
(* anywhere in a key, so the biases of the tree decoder go with those of   *)
(* the encoder.                                                            *)
Dropped ==
  {"slot_assignment"}
  \cup (IF to.feat = "anytop13" THEN {"motion_proj"} ELSE {})
  \cup (IF to.attn = "graphormer" THEN {"graph bias", "tree bias"} ELSE {})
  \cup (IF to.pool = "edge" THEN {"pool"} ELSE {})

(* The groups that may be missing from the checkpoint.                     *)
AllowedMissing ==
  {"pool", "dist", "tree", "tree bias", "anytop13_head", "motion_proj_root",
   "motion_proj_nonroot", "text_proj", "temporal", "temporal topo", "graph topo"}

Init ==
  /\ how \in {"init", "resume", "frozen"}
  /\ from \in IF how = "init" THEN Options ELSE Vaes
  /\ to \in Vaes
  /\ loaded = {} /\ result = "none"

InitCkpt ==
  LET kept == Keys(from) \ Dropped
  IN /\ how = "init" /\ result = "none"
     /\ result' = IF kept \subseteq Keys(to) /\ Keys(to) \ kept \subseteq AllowedMissing
                    THEN "accepted" ELSE "refused"
     /\ loaded' = kept
     /\ UNCHANGED <<from, to, how>>

(* strict=True compares the keys and nothing else.                         *)
Resume ==
  /\ how = "resume" /\ result = "none"
  /\ result' = IF Keys(from) = Keys(to) THEN "accepted" ELSE "refused"
  /\ loaded' = Keys(from)
  /\ UNCHANGED <<from, to, how>>

(* The options in the checkpoint, the one without keys last.               *)
Rebuilt == [from EXCEPT !.text = FALSE]

Frozen ==
  /\ how = "frozen" /\ result = "none"
  /\ result' = IF from.text THEN "refused" ELSE "accepted"
  /\ to' = Rebuilt
  /\ loaded' = Keys(from)
  /\ UNCHANGED <<from, how>>

Next == InitCkpt \/ Resume \/ Frozen

-----------------------------------------------------------------------------
Lost == (Keys(from) \cap Keys(to)) \ loaded

(* What both networks have is taken over, with one exception: the biases   *)
(* of the tree decoder under graphormer attention.                         *)
SharedKept ==
  result = "accepted" =>
    Lost = (IF how = "init" /\ to.attn = "graphormer" /\ "tree bias" \in Keys(from) \cap Keys(to)
              THEN {"tree bias"} ELSE {})

(* The routes the comments name are open: from the baseline Model to any   *)
(* VAE, from the learned pool to the edge segments, from scalar attention  *)
(* to graphormer, and to a decoder with more layers.                       *)
RoutesOpen ==
  /\ how = "init" /\ result # "none"
  /\ \/ from.kind = "model"
     \/ to = [from EXCEPT !.pool = "edge"]
     \/ to = [from EXCEPT !.attn = "graphormer"]
     \/ from.feat = "anytop13" /\ to = [from EXCEPT !.decoder = "temporal"]
  => result = "accepted"

(* A frozen VAE is the one that was trained, in its options without keys,  *)
(* too, and never conditions on text a second time.                        *)
FrozenIsTrained ==
  how = "frozen" /\ result = "accepted" => to = from /\ ~to.text /\ Keys(to) = loaded
=============================================================================
