----------------------------- MODULE MotionCodec -----------------------------
(***************************************************************************)
(* The codecs between motion on joints and latents on slots: GraphVQ-      *)
(* Tokenizer with its MaskedMotionDecoder, and GraphMotionVAE with the     *)
(* three decoder modes, the TreeIK head and forward kinematics.            *)
(*                                                                         *)
(* As in FlowNet a value is what it depends on.  Padded joints have no     *)
(* share in any slot (SkeletonPool).  Quantising, sampling a posterior or  *)
(* snapping a generated latent starts the decoder from fresh atoms, so     *)
(* that what the decoder mixes can be told from what the encoder mixed.    *)
(***************************************************************************)
EXTENDS LossTerms, Sequences, TLC

CONSTANTS
  Size,       \* joints, and slots, of the padded batch
  Length,     \* frames of the padded batch
  Stride,     \* temporal_stride
  Reach,      \* (temporal_kernel - 1) / 2
  Skeletons,  \* records [par, reads]: parents; joint -> slots of its shares
  Codecs      \* see Codec

Codec == [family : {"vq", "vae"},
          mode   : {"masked", "unpool_identity", "coarse_xattn", "graph_temporal"},
          feat   : {"anytop13", "fk6"},
          side   : {"none", "semantics", "caption"}]  \* what else it is given

(* What the constants have to satisfy; the module that gives them values *)
(* assumes it.                                                             *)
CodecAssumption ==
  /\ {Size, Stride, Length} \subseteq Nat \ {0} /\ Reach \in Nat
  /\ Length % Stride = 0 /\ Stride > 1
  /\ \A s \in Skeletons : \E n \in 1 .. Size :
       /\ s.par \in [0 .. (n - 1) -> Int]
       /\ s.reads \in [0 .. (n - 1) -> SUBSET (0 .. (Size - 1))]
       /\ \A j \in 0 .. (n - 1) : s.reads[j] # {}
  /\ Codecs \subseteq Codec

VARIABLES
  codec, skel,
  nframes,    \* valid frames
  clean,      \* padded frames of the motion hold zeros, as the dataset gives
  given,      \* the caption or the semantics are there
  use,        \* "train": encode, decode, take the losses; "denoise": decode
              \* the latents another network predicts for a clip, with the
              \* losses on the decoded motion; "generate": decode latents
  todo,       \* sub-blocks still to run
  sj,         \* skeleton embeddings
  h,          \* features of joints and frames
  lat,        \* latents of slots and latent frames
  code,       \* the latents the encoder produced
  up,         \* slot features at full rate
  root,       \* root position, per frame
  turned,     \* per joint: joints whose rotation is in its global rotation
  placed,     \* per joint: joints whose rotation is in its position
  out,        \* decoded motion
  terms       \* terms of the loss

job  == <<codec, skel, nframes, clean, given, use>>
fk   == <<root, turned, placed>>
vars == <<job, todo, sj, h, lat, code, up, fk, out, terms>>

Joint  == 0 .. (Size - 1)
Slot   == 0 .. (Size - 1)
Frame  == 0 .. (Length - 1)
Latent == 0 .. (Length \div Stride - 1)
Fine   == Joint \X Frame
Coarse == Slot \X Latent
Wide   == Slot \X Frame

Chunk(t) == {f \in Frame : f \div Stride = t}

RealJoints == DOMAIN skel.par
RealSlots  == UNION {skel.reads[j] : j \in RealJoints}
Filmed     == {f \in Frame : f < nframes}

(* A latent frame is valid when all of its frames are; when generating,    *)
(* every latent frame asked for is.                                        *)
RealLatent == IF use = "generate" THEN Latent
              ELSE {t \in Latent : Chunk(t) \subseteq Filmed}

(* frame_mask_recovered.                                                   *)
RealFrames == {f \in Frame : f \div Stride \in RealLatent}

RealFine   == RealJoints \X RealFrames
RealCoarse == RealSlots \X RealLatent
RealWide   == RealSlots \X RealFrames

Motion(p)  == <<"motion", p[1], p[2]>>
Static(j)  == <<"static", j>>      \* offsets, names, relations of a joint
Meaning(j) == <<"meaning", j>>     \* joint_semantics
Caption    == <<"caption">>
Token(p)   == <<"token", p[1], p[2]>>

Row    == [p \in Fine |-> {p[1]} \X Frame]
Column == [p \in Fine |-> Joint \X {p[2]}]

(* Temporal convolution over what the tensor holds, masked or not.  Zeros  *)
(* of padded frames are what the convolution itself pads with.             *)
Conv(x, real) ==
  [p \in DOMAIN x |->
    LET near == {q \in Row[p] : q[2] - p[2] \in -Reach .. Reach}
    IN  Weight \cup UNION {x[q] : q \in near}
        \cup (IF \E q \in near : q[2] \notin real /\ x[q] # Zero THEN Padding ELSE Zero)]

OfFrames(x, real) == Masked(x, {p \in DOMAIN x : p[2] \in real})

-----------------------------------------------------------------------------
(* Sub-blocks of the encoders.                                             *)

Begin(block) == todo # <<>> /\ Head(todo) = block /\ todo' = Tail(todo)

(* Graph attention over the joints: a key mask only.                       *)
OverJoints(x) == Layer([j \in Joint |-> x[j] \cup Read(x, Joint, RealJoints, RealJoints)])

(* The tokenizer hands the semantics to encode_skeleton but not to the     *)
(* motion path; the VAE never switches them on.                            *)
Described(j) ==
  {Static(j)} \cup (IF codec.side = "semantics" /\ given THEN {Meaning(j)} ELSE {}) \cup Weight

Embedded(meant) ==
  Masked(OverJoints([j \in Joint |-> IF meant THEN Described(j) ELSE {Static(j)} \cup Weight]),
         RealJoints)

EncodeSkeleton ==
  /\ Begin("skeleton")
  /\ sj' = Embedded(TRUE)
  /\ UNCHANGED <<job, h, lat, code, up, fk, out, terms>>

Shown(p) == IF clean /\ p[2] \notin Filmed THEN Zero
            ELSE IF clean /\ p[1] \notin RealJoints THEN Zero ELSE {Motion(p)}

Fuse ==
  /\ Begin("fuse")
  /\ h' = [p \in Fine |-> Embedded(FALSE)[p[1]] \cup Shown(p) \cup Weight]
  /\ UNCHANGED <<job, sj, lat, code, up, fk, out, terms>>

(* TemporalBlock of the encoder: the convolutions see padded frames; their *)
(* output is masked, the residual is not.                                  *)
Temporal ==
  /\ Begin("temporal")
  /\ h' = Plus(h, OfFrames(Conv(Conv(Layer(h), Filmed), Filmed), Filmed))
  /\ UNCHANGED <<job, sj, lat, code, up, fk, out, terms>>

(* Joints a slot averages.                                                *)
Members(c) == {j \in RealJoints : c \in skel.reads[j]}

(* Mask of the joints, slot norm, pool.                                    *)
Pool ==
  /\ Begin("pool")
  /\ lat' = [p \in Coarse |->
       UNION {Layer(Masked(h, RealJoints \X Frame))[q] : q \in Members(p[1]) \X Chunk(p[2])}]
  /\ UNCHANGED <<job, sj, h, code, up, fk, out, terms>>

CoarseKeys == RealSlots \X Latent

(* CoarseGraphTemporalLayer: over slots, then over latent frames.          *)
CoarseLayer(x) ==
  LET spatial == Masked(Layer([p \in Coarse |-> x[p]
                    \cup Read(x, Slot \X {p[2]}, CoarseKeys, RealCoarse)]), CoarseKeys)
  IN  Masked(Layer([p \in Coarse |-> spatial[p]
         \cup Read(spatial, {p[1]} \X Latent, Slot \X RealLatent, RealCoarse)]), RealCoarse)

Refine ==
  /\ Begin("coarse")
  /\ lat' = CoarseLayer(lat)
  /\ UNCHANGED <<job, sj, h, code, up, fk, out, terms>>

(* Quantised tokens, a posterior sample, embeddings of stored ids, or a    *)
(* snapped sample of the flow: all are multiplied by the token mask.       *)
Start == Masked([p \in Coarse |-> {Token(p)}], RealCoarse)

Quantise ==
  /\ Begin("latent")
  /\ code' = lat
  /\ lat' = Start
  /\ UNCHANGED <<job, sj, h, up, fk, out, terms>>

-----------------------------------------------------------------------------
(* Sub-blocks of the decoders.                                             *)

Identity == codec.mode = "unpool_identity"

TextVector == IF codec.side = "caption" /\ given THEN {Caption} \cup Weight ELSE Zero

(* Latents at full rate; the identity decoder first brings them back to    *)
(* joints.                                                                 *)
Upsample ==
  /\ Begin("up")
  /\ up' = PlusAll(IF Identity
                   THEN Masked([p \in Wide |-> UNION {lat[<<c, p[2] \div Stride>>] :
                                  c \in IF p[1] \in RealJoints THEN skel.reads[p[1]] ELSE {}}],
                               RealFine)
                   ELSE [p \in Wide |-> lat[<<p[1], p[2] \div Stride>>]], TextVector)
  /\ UNCHANGED <<job, sj, h, lat, code, fk, out, terms>>

Share(j) == IF j \notin RealJoints THEN {} ELSE IF Identity THEN {j} ELSE skel.reads[j]

(* Joint queries: the shares of the joint and its embedding.               *)
Query ==
  /\ Begin("query")
  /\ h' = [p \in Fine |-> sj[p[1]] \cup UNION {up[<<c, p[2]>>] : c \in Share(p[1])}]
  /\ UNCHANGED <<job, sj, lat, code, up, fk, out, terms>>

(* MaskedMotionDecoder masks padded slots with -inf.  MotionDecoder has    *)
(* only the bias of the clamped assignment: every slot keeps a weight.     *)
SlotRead(p) ==
  IF codec.mode = "masked" THEN StrictRead(up, Slot \X {p[2]}, RealWide, RealWide)
  ELSE Mean(up, Slot \X {p[2]}, IF Identity THEN RealFine ELSE RealWide)

Cross ==
  /\ Begin("cross")
  /\ h' = Layer([p \in Fine |-> h[p] \cup SlotRead(p)])
  /\ UNCHANGED <<job, sj, lat, code, up, fk, out, terms>>

MaskedConv(x) ==
  OfFrames(Conv(OfFrames(Conv(OfFrames(Layer(x), RealFrames), RealFrames), RealFrames),
                RealFrames), RealFrames)

(* TemporalRefineBlock, of the masked decoder after its mask, or of the    *)
(* other one; then the output norm and the mask of the features.           *)
TemporalRefine ==
  /\ Begin("refine")
  /\ h' = (IF codec.mode = "masked"
           THEN Masked(Layer(Plus(Masked(h, RealFine), MaskedConv(Masked(h, RealFine)))), RealFine)
           ELSE Masked(Layer(Plus(h, Conv(Conv(Layer(h), RealFrames), RealFrames))), RealFine))
  /\ UNCHANGED <<job, sj, lat, code, up, fk, out, terms>>

Over(x, keys, valid, zeroed) ==
  Layer([p \in Fine |-> x[p] \cup (IF zeroed /\ p[1] \notin RealJoints THEN Zero
                                   ELSE Read(x, keys[p], valid, RealFine))])

(* GraphTemporalDecoderLayer.                                              *)
GraphTemporal ==
  /\ Begin("graph_temporal")
  /\ h' = Masked(Over(Masked(Over(h, Column, RealJoints \X Frame, FALSE), RealJoints \X Frame),
                      Row, Joint \X RealFrames, FALSE), RealFine)
  /\ UNCHANGED <<job, sj, lat, code, up, fk, out, terms>>

Decoded(x) == Masked(Layer(x), RealFine)

(* out_root and out_nonroot.                                               *)
Head13 ==
  /\ Begin("head")
  /\ out' = Decoded(h)
  /\ UNCHANGED <<job, sj, h, lat, code, up, fk, terms>>

(* The root is read off the features; TreeIKBlock makes rotations of them: *)
(* rest pose, attention with masked keys, masked queries, mask.            *)
TreeIK ==
  /\ Begin("treeik")
  /\ root' = [f \in Frame |-> h[<<0, f>>] \cup Weight]
  /\ h' = Masked(Over([p \in Fine |-> h[p] \cup {Static(p[1])} \cup Weight], Column,
                      RealJoints \X Frame, TRUE), RealFine)
  /\ UNCHANGED <<job, sj, lat, code, up, turned, placed, out, terms>>

ValidTree ==
  /\ {j \in RealJoints : skel.par[j] < 0} = {0}
  /\ \A j \in RealJoints : skel.par[j] < j

(* validate_fk_tree.                                                       *)
RefuseTree ==
  /\ todo # <<>> /\ Head(todo) = "fk"
  /\ turned = <<>> /\ ~ValidTree
  /\ todo' = <<>>
  /\ UNCHANGED <<job, sj, h, lat, code, up, fk, out, terms>>

NextJoint == Cardinality(DOMAIN turned)

(* Rotations that turn the offset of a joint.                              *)
Carrier(j) == turned[skel.par[j]]

(* fk_one, one joint of the loop.                                          *)
PlaceJoint ==
  /\ todo # <<>> /\ Head(todo) = "fk"
  /\ ValidTree
  /\ NextJoint \in RealJoints
  /\ LET j == NextJoint
         p == skel.par[j]
     IN  /\ turned' = [i \in 0 .. j |-> IF i < j THEN turned[i]
                                        ELSE {j} \cup (IF p < 0 THEN {} ELSE turned[p])]
         /\ placed' = [i \in 0 .. j |-> IF i < j THEN placed[i]
                                        ELSE IF p < 0 THEN {} ELSE placed[p] \cup Carrier(j)]
  /\ UNCHANGED <<job, todo, sj, h, lat, code, up, root, out, terms>>

Position(j, f) ==
  IF j \notin RealJoints THEN Zero
  ELSE root[f] \cup UNION {h[<<a, f>>] \cup Weight : a \in placed[j]}

(* Positions, their differences as velocities, both masked at the end.     *)
EndKinematics ==
  /\ ValidTree
  /\ NextJoint \notin RealJoints
  /\ Begin("fk")
  /\ out' = Masked([p \in Fine |-> Position(p[1], p[2])
                      \cup Position(p[1], IF p[2] = 0 THEN 1 ELSE p[2] - 1)], RealFine)
  /\ UNCHANGED <<job, sj, h, lat, code, up, fk, terms>>

-----------------------------------------------------------------------------
(* The losses, over the frame mask the decoder returns.                    *)

\* Mutant: the frame mask of the batch is used.
Filmed_LossFrames == Filmed

LossFrames == RealFrames

(* Terms of a training step, by the loss mode of the VAE, with the weights *)
(* of the optional ones.                                                   *)
TrainingTerms(mode, extra) ==
  LET js == RealJoints
      fs == LossFrames
      base == Terms13(js, fs)
      geometry == WorldTerms(js, fs) @@ FkTerms(skel.par, js, fs)
  IN  IF codec.feat = "fk6"
      THEN Terms6(skel.par, js, fs) @@ KlTerm(RealCoarse)
           @@ (IF extra THEN SpeedTerms(js, fs) ELSE <<>>)
      ELSE IF codec.family = "vq"
      THEN base @@ geometry @@ (IF extra THEN SmoothTerm(skel.par, js, fs) ELSE <<>>)
      ELSE base @@ KlTerm(RealCoarse)
           @@ (CASE mode = "anytop13" -> <<>>
                 [] mode = "anytop13_world_geometry" -> WorldTerms(js, fs)
                 [] mode = "anytop13_world_rot6d_fk" -> geometry)

LossModes == IF codec.family = "vae" /\ codec.feat = "anytop13"
             THEN {"anytop13", "anytop13_world_geometry", "anytop13_world_rot6d_fk"}
             ELSE {codec.feat}

UsesFk(mode) == codec.family = "vq" \/ mode = "anytop13_world_rot6d_fk"

RootFirst == \A j \in RealJoints \ {0} : skel.par[j] \in 0 .. (j - 1)

(* run_loss and run_vq_loss.                                               *)
Losses ==
  /\ use = "train" /\ Begin("loss")
  /\ \E mode \in LossModes, extra \in BOOLEAN :
       /\ UsesFk(mode) => RootFirst
       /\ terms' = TrainingTerms(mode, extra)
  /\ UNCHANGED <<job, sj, h, lat, code, up, fk, out>>

(* The forward kinematics of the loss multiply by a matrix that is not     *)
(* there yet.                                                              *)
LossRefuses ==
  /\ use = "train" /\ todo = <<"loss">>
  /\ ~RootFirst /\ \E mode \in LossModes : UsesFk(mode)
  /\ todo' = <<>>
  /\ UNCHANGED <<job, sj, h, lat, code, up, fk, out, terms>>

(* Decoded terms of the networks on latents: only at timesteps with little *)
(* noise, and only where the target moves.                                 *)
QuietFrames(quiet) == IF quiet THEN LossFrames ELSE {}

DecodedLosses ==
  /\ use = "denoise" /\ Begin("loss")
  /\ \E quiet \in BOOLEAN, still \in {{}, {0}} :
       terms' = WorldTerms(RealJoints, QuietFrames(quiet))
                @@ SpeedOver(RealJoints, QuietFrames(quiet), still)
  /\ UNCHANGED <<job, sj, h, lat, code, up, fk, out>>

-----------------------------------------------------------------------------
Encode == <<"fuse", "temporal", "pool">>
          \o (IF codec.family = "vq" THEN <<"coarse">> ELSE <<>>)

Decode == (IF codec.family = "vq" THEN <<"coarse">> ELSE <<>>)
          \o <<"up", "query", "cross", "refine">>
          \o (IF codec.mode = "graph_temporal" THEN <<"graph_temporal">> ELSE <<>>)
          \o (IF codec.feat = "fk6" THEN <<"treeik", "fk">> ELSE <<"head">>)

Program == <<"skeleton">> \o (IF use = "train" THEN Encode ELSE <<>>)
           \o <<"latent">> \o Decode \o (IF use = "generate" THEN <<>> ELSE <<"loss">>)

Init ==
  /\ codec \in Codecs /\ skel \in Skeletons
  /\ use \in {"train", "generate"} \cup IF codec.feat = "anytop13" THEN {"denoise"} ELSE {}
  /\ nframes \in IF use = "generate" THEN {Length} ELSE 1 .. Length
  /\ clean \in BOOLEAN
  /\ given \in IF codec.side = "none" THEN {FALSE} ELSE BOOLEAN
  /\ todo = Program
  /\ sj = [j \in Joint |-> Zero]
  /\ h = [p \in Fine |-> Zero] /\ out = [p \in Fine |-> Zero]
  /\ lat = [p \in Coarse |-> Zero] /\ code = lat
  /\ up = [p \in Wide |-> Zero]
  /\ root = [f \in Frame |-> Zero]
  /\ turned = <<>> /\ placed = <<>>
  /\ terms = <<>>

Next == \/ EncodeSkeleton \/ Fuse \/ Temporal \/ Pool \/ Refine \/ Quantise
        \/ Upsample \/ Query \/ Cross \/ TemporalRefine \/ GraphTemporal
        \/ Head13 \/ TreeIK \/ RefuseTree \/ PlaceJoint \/ EndKinematics
        \/ Losses \/ LossRefuses \/ DecodedLosses

Spec == Init /\ [][Next]_vars

-----------------------------------------------------------------------------
(* Properties.                                                             *)

Atoms == {Motion(p) : p \in Fine} \cup {Static(j) : j \in Joint}
         \cup {Meaning(j) : j \in Joint} \cup {Token(p) : p \in Coarse}
         \cup {Caption} \cup Weight \cup Padding

(* Every stream has the shape of its tensor; the kinematic loop goes over  *)
(* the joints of the skeleton in order.                                    *)
TypeOK ==
  /\ sj \in [Joint -> SUBSET Atoms]
  /\ \A x \in {h, out} : DOMAIN x = Fine /\ \A p \in Fine : x[p] \subseteq Atoms
  /\ \A x \in {lat, code} : DOMAIN x = Coarse /\ \A p \in Coarse : x[p] \subseteq Atoms
  /\ DOMAIN up = Wide /\ \A p \in Wide : up[p] \subseteq Atoms
  /\ root \in [Frame -> SUBSET Atoms]
  /\ DOMAIN turned = DOMAIN placed /\ DOMAIN turned \subseteq RealJoints

(* What lies at padded joints, at padded slots, and, when the batch has    *)
(* zeros there, at padded frames.                                          *)
PaddedContent ==
  {Motion(p) : p \in Fine \ (RealJoints \X (IF clean THEN Filmed ELSE Frame))}
  \cup {Static(j) : j \in Joint \ RealJoints} \cup {Meaning(j) : j \in Joint \ RealJoints}
  \cup {Token(p) : p \in Coarse \ RealCoarse}

(* Neither a valid latent nor a valid joint of the decoded motion depends  *)
(* on what padded joints, slots or tokens hold, in any codec.              *)
NoPaddedContent ==
  /\ \A p \in RealCoarse : (code[p] \cup lat[p]) \cap PaddedContent = {}
  /\ \A p \in RealFine : out[p] \cap PaddedContent = {}

(* Padded joints and frames of the decoded motion, padded tokens and       *)
(* padded joint embeddings are exactly zero.                               *)
PaddedZero ==
  /\ \A p \in Fine \ RealFine : out[p] = Zero
  /\ \A j \in Joint \ RealJoints : sj[j] = Zero
  /\ todo # <<>> /\ Head(todo) = "up" => \A p \in Coarse \ RealCoarse : lat[p] = Zero

(* The tokenizer's decoder gives the same motion however far slots, joints *)
(* and frames are padded (masked_motion_decoder.py: "STRICT").             *)
DecoderIgnoresPadding ==
  codec.mode = "masked" => \A p \in RealFine : out[p] \cap Padding = {}

(* The encoder's convolutions do read padded frames.  A latent of the VAE  *)
(* knows of them only within the reach of its two convolutions; in the     *)
(* tokenizer the attention over latent frames then carries it everywhere.  *)
LeakIsLocal ==
  codec.family = "vae" => \A p \in RealCoarse :
    (code[p] \cap (Padding \cup {Motion(q) : q \in Joint \X (Frame \ Filmed)}) # {}) =>
      (p[2] + 1) * Stride - 1 + 2 * Reach >= nframes

(* A decoded joint depends on every token of the slots it shares in at its *)
(* own frame; on captions and semantics if and only if they are given, and *)
(* the encoder's tokens never on either.                                   *)
DecoderReaches ==
  /\ todo \in {<<>>, <<"loss">>} /\ ValidTree =>
      \A p \in RealFine :
        /\ \A c \in skel.reads[0] : Token(<<c, p[2] \div Stride>>) \in out[p]
        /\ (Caption \in out[p]) <=> (codec.side = "caption" /\ given)
        /\ codec.feat = "anytop13" =>
             ((Meaning(p[1]) \in out[p]) <=> (codec.side = "semantics" /\ given))
  /\ \A p \in Coarse : code[p] \cap ({Caption} \cup {Meaning(j) : j \in Joint}) = {}

Ancestors(j) ==
  LET above[i \in RealJoints] ==
        IF skel.par[i] < 0 THEN {} ELSE {skel.par[i]} \cup above[skel.par[i]]
  IN  above[j]

(* The position of a joint is moved by the rotations of its strict         *)
(* ancestors and of no other joint, not even by its own.                   *)
KinematicsExact == \A j \in DOMAIN placed : placed[j] = Ancestors(j)

(* No term of a loss reads a prediction that the decoder has set to zero,  *)
(* a joint or frame that the target does not have, or a latent outside the *)
(* token mask: the frames of an incomplete last chunk are left out, and so *)
(* are differences that reach into them (train_graph_vae.py: "stride-tail  *)
(* consistency").                                                          *)
LossesReadDecoded ==
  \A t \in DOMAIN terms :
    /\ \A e \in terms[t].pred :
         IF e[1] = "mu" THEN <<e[2], e[3]>> \in RealCoarse
         ELSE <<e[2], e[3]>> \in Fine /\ out[<<e[2], e[3]>>] # Zero
    /\ \A e \in terms[t].gt : e[2] \in RealJoints /\ e[3] \in Filmed

Groups == IF codec.feat = "fk6" THEN {"pos", "vel"} ELSE {"pos", "rot", "vel", "contact"}

(* Every channel of every decoded joint and frame is in a weighted term of *)
(* a training step, and each is compared with a target.                    *)
AllSupervised ==
  use = "train" /\ terms # <<>> =>
    \A p \in RealFine : \A c \in Groups :
      \E t \in DOMAIN terms \ Diagnostics :
        <<c, p[1], p[2]>> \in terms[t].pred \cap terms[t].gt

(* The position the fk term supervises is turned by one rotation of each   *)
(* strict ancestor: the one stored at the ancestor's last child.           *)
FkTermExact ==
  "fk" \in DOMAIN terms /\ LossFrames # {} =>
    {e \in terms["fk"].pred : e[1] = "rot" /\ e[2] # 0}
      = {<<"rot", i, f>> : i \in {Max(ChildrenOf(skel.par, a)) :
                                   a \in UNION {Ancestors(j) : j \in RealJoints}},
                           f \in LossFrames}

=============================================================================
