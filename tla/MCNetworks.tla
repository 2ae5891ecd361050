----------------------------- MODULE MCNetworks -----------------------------
(***************************************************************************)
(* From a clip to a loss, on small instances: a behaviour is the making of *)
(* one item of the data set, the forward passes of one flow network, or    *)
(* those of one codec, chosen at the start.  The three do not share state, *)
(* so each keeps its variables in the same registers.                      *)
(***************************************************************************)
EXTENDS Integers, Sequences, FiniteSets

VARIABLES part, v1, v2, v3, v4, v5, v6, v7, v8, v9, v10, v11, v12, v13, v14, v15, v16, v17

vars == <<part, v1, v2, v3, v4, v5, v6, v7, v8, v9, v10, v11, v12, v13, v14, v15, v16, v17>>

From0(s) == [j \in 0 .. (Len(s) - 1) |-> s[j + 1]]

(* Every parent list of up to four joints, every one of five with one root *)
(* and some others.                                                        *)
RawParents ==
  UNION {[0 .. (n - 1) -> -1 .. (n - 1)] : n \in 1 .. 4}
  \cup {p \in [0 .. 4 -> -1 .. 4] : Cardinality({j \in 0 .. 4 : p[j] = -1}) = 1}
  \cup {From0(s) : s \in {<<-1, 0, 0, 0, 0>>, <<1, -1, 1, 0, 1>>, <<2, 2, -1, 1, 3>>,
                          <<4, 4, 0, 0, -1>>, <<-1, 0, 1, 2, 3>>, <<-1, 0, 0, 1, 1, 2>>}}

Clip == INSTANCE ClipItem WITH
  RawParents <- RawParents, Held <- {From0(<<-1, 0, 1>>), From0(<<-1, 0, 0, 1>>)},
  MaxJoints <- 6, NumFrames <- 2, ClipLengths <- {1, 2, 3}, MaxPath <- 3, RatePercent <- 50,
  raw <- v1, pc <- v2, queue <- v3, names <- v4, par <- v5, row <- v6, edge <- v7,
  topo <- v8, feet <- v9, todo <- v10, full <- v11, window <- v12, moments <- v13, item <- v14

Net(model, text, sentence, slotText, xpred, maxT) ==
  [model |-> model, text |-> text, sentence |-> sentence,
   slotText |-> slotText, xpred |-> xpred, maxT |-> maxT]

(* Every network and text mode; three slots, two latent frames, two words. *)
Nets ==
  {Net("level_a", "dual", FALSE, FALSE, x, 0) : x \in BOOLEAN}
  \cup {Net("graph_pscf", "dual", s, a, x, 2) : s, a, x \in BOOLEAN}
  \cup {Net("graph_pscf", "dual", TRUE, TRUE, FALSE, 1)}
  \cup {Net("denoiser", m, FALSE, FALSE, FALSE, 0) : m \in {"mean", "token", "dual"}}

Flow == INSTANCE FlowNet WITH
  Slots <- 3, Frames <- 2, Words <- 2, Nets <- Nets, Steps <- 2,
  net <- v1, nslots <- v2, nframes <- v3, nwords <- v4, hasText <- v5, use <- v6,
  todo <- v7, step <- v8, gate <- v9, slot <- v10, frame <- v11, word <- v12,
  skips <- v13, z <- v14, velocity <- v15, result <- v16

(* A chain of three joints with one shared between two slots, a fork, a    *)
(* pair, a list that is not root first, and four joints.                   *)
Skeletons ==
  {[par |-> From0(<<-1, 0, 1>>), reads |-> From0(<<{0}, {0, 1}, {1}>>)],
   [par |-> From0(<<-1, 0, 0>>), reads |-> From0(<<{0}, {0}, {1}>>)],
   [par |-> From0(<<-1, 0>>), reads |-> From0(<<{0}, {0}>>)],
   [par |-> From0(<<-1, 2, 0>>), reads |-> From0(<<{0}, {1}, {2}>>)],
   [par |-> From0(<<-1, 0, 1, 1>>), reads |-> From0(<<{0}, {1}, {2}, {3}>>)]}

Codecs ==
  {[family |-> "vq", mode |-> "masked", feat |-> "anytop13", side |-> s] :
     s \in {"none", "semantics"}}
  \cup {[family |-> "vae", mode |-> m, feat |-> f, side |-> s] :
     m \in {"unpool_identity", "coarse_xattn"}, f \in {"anytop13", "fk6"},
     s \in {"none", "caption"}}
  \cup {[family |-> "vae", mode |-> "graph_temporal", feat |-> "anytop13", side |-> "caption"]}

Codec == INSTANCE MotionCodec WITH
  Size <- 4, Length <- 6, Stride <- 2, Reach <- 1, Skeletons <- Skeletons, Codecs <- Codecs,
  codec <- v1, skel <- v2, nframes <- v3, clean <- v4, given <- v5, use <- v6, todo <- v7,
  sj <- v8, h <- v9, lat <- v10, code <- v11, up <- v12, root <- v13, turned <- v14,
  placed <- v15, out <- v16, terms <- v17

ASSUME NetworkAssumption == Clip!ClipAssumption /\ Flow!FlowAssumption /\ Codec!CodecAssumption

Init ==
  \/ part = "clip" /\ Clip!Init /\ v15 = 0 /\ v16 = 0 /\ v17 = 0
  \/ part = "flow" /\ Flow!Init /\ v17 = 0
  \/ part = "codec" /\ Codec!Init

Next ==
  \/ part = "clip" /\ Clip!Next /\ UNCHANGED <<part, v15, v16, v17>>
  \/ part = "flow" /\ Flow!Next /\ UNCHANGED <<part, v17>>
  \/ part = "codec" /\ Codec!Next /\ UNCHANGED part

Spec == Init /\ [][Next]_vars

-----------------------------------------------------------------------------
(* Properties, each a statement about the parts it names.                  *)

(* One item of the data set keeps one joint order, one window and one      *)
(* skeleton through reordering, relation tables and removal of joints; no  *)
(* held-out topology is served, and the batch accepts what is served       *)
(* (AnyTopDataset.__getitem__ and what it calls).                          *)
ItemFaithful ==
  part = "clip" =>
    /\ Clip!TypeOK /\ Clip!OrderIsFaithful /\ Clip!RelationsExact /\ Clip!ReductionExact
    /\ Clip!HeldNeverServed /\ Clip!ItemAligned /\ Clip!ServedIsAccepted

(* Nothing valid depends on padding or on a caption that is not there, and *)
(* padding is zero where a network promises it, in all flow networks and   *)
(* codecs; the one leak, of the encoder's convolutions, stays local.       *)
PaddingInert ==
  CASE part = "flow" ->
         /\ Flow!TypeOK /\ Flow!NoPaddingLeak /\ Flow!PaddedZero /\ Flow!TextGated
         /\ Flow!LossOverValid
    [] part = "codec" ->
         /\ Codec!TypeOK /\ Codec!NoPaddedContent /\ Codec!PaddedZero
         /\ Codec!DecoderIgnoresPadding /\ Codec!LeakIsLocal
    [] OTHER -> TRUE

(* What must reach a prediction reaches it, each joint is placed from its  *)
(* ancestors, and every valid element is trained by some loss, over        *)
(* decoded frames only.                                                    *)
SignalReaches ==
  CASE part = "flow" -> Flow!Reaches
    [] part = "codec" ->
         /\ Codec!DecoderReaches /\ Codec!KinematicsExact /\ Codec!LossesReadDecoded
         /\ Codec!AllSupervised /\ Codec!FkTermExact
    [] OTHER -> TRUE
=============================================================================
