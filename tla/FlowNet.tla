------------------------------- MODULE FlowNet -------------------------------
(***************************************************************************)
(* The networks on the grid of slots and latent frames, and their use:     *)
(* GraphStructuredCodeFlow ("level_a"), GraphPSCFFlowNet ("graph_pscf"),   *)
(* GraphSaladDenoiser, the flow loss and the Euler sampler with            *)
(* classifier-free guidance.                                               *)
(*                                                                         *)
(* A forward pass is a program of sub-blocks; a step runs the first one.   *)
(* One sample of a padded batch is followed.  The skeleton gives static    *)
(* inputs only (adjacency, distances, embeddings of the slots): they count *)
(* as weights.                                                             *)
(***************************************************************************)
EXTENDS LossTerms, Sequences

CONSTANTS
  Slots,    \* C: slots of the padded batch
  Frames,   \* T_lat: latent frames of the padded batch
  Words,    \* L: tokens of the padded captions
  Nets,     \* networks: see Net
  Steps     \* bound: Euler steps of the sampler

Net == [model : {"level_a", "graph_pscf", "denoiser"},
        text : {"mean", "token", "dual"},   \* text_mode of the denoiser
        sentence : BOOLEAN,                 \* use_sentence_token
        slotText : BOOLEAN,                 \* text_slot_xattn
        xpred : BOOLEAN,                    \* parameterization = "x"
        maxT : Nat]                         \* max_T_lat

(* What the constants have to satisfy; the module that gives them values *)
(* assumes it.                                                             *)
FlowAssumption ==
  /\ {Slots, Frames, Words, Steps} \subseteq Nat \ {0}
  /\ Nets \subseteq Net

C == 0 .. (Slots - 1)
T == 0 .. (Frames - 1)
Grid == C \X T
Tokens == 0 .. Words          \* 0: the sentence token of graph_pscf

VARIABLES
  net,
  nslots, nframes, nwords,  \* valid prefixes of the masks
  hasText,                  \* the caption is there, and not dropped
  use,                      \* "train", "sample", or "guided": sample with
                            \* a guidance scale other than 1
  todo,                     \* sub-blocks still to run
  step,                     \* Euler steps taken
  gate,                     \* has_text as this forward pass was given it
  slot,                     \* h_slot, or x of the other networks
  frame,                    \* h_frame
  word,                     \* h_text or tok_emb; word 0: sentence token
  skips,                    \* outputs kept for the second half of the U
  z,                        \* z_t, or the latents while sampling
  velocity,                 \* outputs of the forward passes of one step
  result                    \* what the loss depends on, or the sample

job    == <<net, nslots, nframes, nwords, hasText, use>>
stream == <<slot, frame, word, skips>>
vars   == <<job, todo, step, gate, stream, z, velocity, result>>

Real       == {p \in Grid : p[1] < nslots /\ p[2] < nframes}
RealSlots  == {p \in Grid : p[1] < nslots}
RealFrames == {t \in T : t < nframes}
RealWords  == {w \in Tokens : w <= nwords}

Clean(p) == <<"clean", p[1], p[2]>>     \* latents of the frozen codec
Noise(p) == <<"noise", p[1], p[2]>>
Word(w)  == <<"word", w>>
Caption  == <<"caption">>               \* the pooled embedding
Time     == {<<"time">>}

Blank == [p \in Grid |-> Zero]

-----------------------------------------------------------------------------
(* Conditioning.                                                           *)

(* text_pooled * has_text.                                                 *)
Pooled == IF gate THEN {Caption} \cup Weight ELSE Zero

Cond == Time \cup Weight \cup (IF net.model = "graph_pscf" THEN Pooled ELSE Zero)

TextKeys == Tokens \ (IF net.sentence THEN {} ELSE {0})

(* text_token_mask & has_text, with has_text for the sentence token.       *)
ValidWords == IF gate THEN TextKeys \cap RealWords ELSE {}

(* TextCrossAttention: a row without any valid key gives zero.             *)
TextRead == IF ValidWords = {} THEN Zero
            ELSE Read(word, TextKeys, ValidWords, RealWords) \cup Weight

UsesTokens == net.model = "level_a" \/ net.text \in {"token", "dual"}
UsesGlobal == net.model = "level_a" \/ net.text \in {"mean", "dual"}

(* What a caption gives to the network.                                    *)
CaptionInputs ==
  IF net.model = "graph_pscf" THEN {Caption} \cup {Word(w) : w \in RealWords \ {0}}
  ELSE (IF UsesGlobal THEN {Caption} ELSE {})
       \cup (IF UsesTokens THEN {Word(w) : w \in RealWords \ {0}} ELSE {})

-----------------------------------------------------------------------------
(* Sub-blocks.                                                             *)

ReMask(x) == Masked(x, Real)

Attend(x, keys, valid) ==
  Layer([p \in Grid |-> x[p] \cup Read(x, keys[p], valid, Real)])

Column == [p \in Grid |-> C \X {p[2]}]
Row    == [p \in Grid |-> {p[1]} \X T]

\* Mutant: the graph attention does not mask padded slots.
Unmasked_Spatial(x) == Attend(x, Column, Grid)

(* GraphAttentionBlock over the slots of each frame: a key mask only.      *)
Spatial(x) == Attend(x, Column, RealSlots)

(* TemporalSelfAttention over the frames of each slot: a key mask only.    *)
Temporal(x) == Attend(x, Row, {p \in Grid : p[2] \in RealFrames})

(* GraphCodeFlowLayer, GraphSaladDenoiserLayer: masked at the end only.    *)
UNetLayer(x) ==
  LET timed == FiLM(Temporal(FiLM(Spatial(x), Cond)), Cond)
      text  == (IF UsesTokens THEN TextRead ELSE Zero)
               \cup (IF UsesGlobal THEN Pooled ELSE Zero)
  IN  ReMask(FiLM(PlusAll(timed, text), Cond))

(* GraphSlotTemporalBlock.                                                 *)
SlotTemporalBlock(x) ==
  ReMask(FiLM(Temporal(ReMask(FiLM(Spatial(x), Cond))), Cond))

(* GraphFrameSlotCoupling: the frame holder reads the slots of its frame;  *)
(* then every slot receives its frame.                                     *)
Held == Masked(FiLM([t \in T |-> frame[t] \cup Read(slot, C \X {t}, RealSlots, Real)], Cond),
               RealFrames)

Injected(h) == ReMask(FiLM([p \in Grid |-> slot[p] \cup h[p[2]]], Cond))

(* Frames and words are one row of keys.                                   *)
JointRead == Mean(frame, RealFrames, RealFrames) \cup Mean(word, ValidWords, RealWords)

(* A row of a DiT block: the output of the attention is zero for masked    *)
(* queries, the residual and the modulated MLP are not.                    *)
DiT(x, valid) ==
  FiLM([p \in DOMAIN x |-> x[p] \cup (IF p \in valid THEN JointRead ELSE Zero)], Cond)

-----------------------------------------------------------------------------
(* Programs.                                                               *)

UNet == <<"input", "layer", "keep", "layer", "merge", "layer", "output">>

SlotText == IF net.slotText THEN <<"slot_xattn">> ELSE <<>>

PSCF == <<"input", "slot_temporal">> \o SlotText
        \o <<"coupling", "double", "coupling">>
        \o <<"single", "slot_temporal">> \o SlotText \o <<"coupling", "output">>

Forward == <<"text">> \o IF net.model = "graph_pscf" THEN PSCF ELSE UNet

(* One step of the sampler: with the caption, without it, and the mix.     *)
EulerStep ==
  <<"cond">> \o Forward \o (IF use = "guided" THEN <<"uncond">> \o Forward ELSE <<>>)
  \o <<"euler">>

Program == IF use = "train" THEN <<"cond">> \o Forward \o <<"loss">> ELSE EulerStep

Uses == IF net.model = "denoiser" THEN {"train"} ELSE {"train", "sample", "guided"}

(* z_t of the flow loss and of the denoiser's training step.               *)
Interpolated == ReMask([p \in Grid |-> {Clean(p), Noise(p)} \cup Time])

Drawn == ReMask([p \in Grid |-> {Noise(p)}])

Init ==
  /\ net \in Nets
  /\ nslots \in 1 .. Slots /\ nframes \in 0 .. Frames /\ nwords \in 0 .. Words
  /\ hasText \in BOOLEAN
  /\ use \in Uses
  /\ todo = Program
  /\ step = 0
  /\ gate = FALSE
  /\ slot = Blank /\ frame = [t \in T |-> Zero] /\ word = [w \in Tokens |-> Zero]
  /\ skips = <<>>
  /\ z = (IF use = "train" THEN Interpolated ELSE Drawn)
  /\ velocity = <<>>
  /\ result = Blank

Begin(block) == todo # <<>> /\ Head(todo) = block /\ todo' = Tail(todo)

(* The contract of a forward pass: the caption is gated by has_text, which *)
(* the unconditional pass of guidance replaces by False.                   *)
Condition ==
  /\ Begin("cond") \/ Begin("uncond")
  /\ gate' = (hasText /\ Head(todo) = "cond")
  /\ UNCHANGED <<job, step, stream, z, velocity, result>>

(* GraphPSCFFlowNet refuses more latent frames than it has positions.      *)
TooLong == net.model = "graph_pscf" /\ Frames > net.maxT

Refuse ==
  /\ todo # <<>> /\ Head(todo) = "text"
  /\ TooLong
  /\ todo' = <<>>
  /\ UNCHANGED <<job, step, gate, stream, z, velocity, result>>

(* Captions are projected; graph_pscf masks them and puts the gated pooled *)
(* caption in front.                                                       *)
ProjectText ==
  /\ ~TooLong
  /\ Begin("text")
  /\ LET projected == [w \in Tokens |-> IF w = 0 THEN Pooled ELSE {Word(w)} \cup Weight]
     IN  word' = (IF net.model = "graph_pscf" THEN Masked(projected, ValidWords) ELSE projected)
  /\ UNCHANGED <<job, step, gate, slot, frame, skips, z, velocity, result>>

(* z_t is projected, the slots are embedded, the frame holders seeded.     *)
Input ==
  /\ Begin("input")
  /\ slot' = ReMask(Layer(z))
  /\ frame' = Masked([t \in T |-> Weight], RealFrames)
  /\ skips' = <<>>
  /\ UNCHANGED <<job, step, gate, word, z, velocity, result>>

SlotTemporal ==
  /\ Begin("slot_temporal")
  /\ slot' = SlotTemporalBlock(slot)
  /\ UNCHANGED <<job, step, gate, frame, word, skips, z, velocity, result>>

SlotReadsText ==
  /\ Begin("slot_xattn")
  /\ slot' = ReMask(PlusAll(slot, TextRead))
  /\ UNCHANGED <<job, step, gate, frame, word, skips, z, velocity, result>>

Coupling ==
  /\ Begin("coupling")
  /\ frame' = Held
  /\ slot' = Injected(Held)
  /\ UNCHANGED <<job, step, gate, word, skips, z, velocity, result>>

(* DoubleStreamBlock, and SingleStreamBlock on the concatenation; the      *)
(* caller masks both streams again.                                        *)
JointStreams ==
  /\ Begin("double") \/ Begin("single")
  /\ frame' = Masked(DiT(frame, RealFrames), RealFrames)
  /\ word' = Masked(DiT(word, ValidWords), ValidWords)
  /\ UNCHANGED <<job, step, gate, slot, skips, z, velocity, result>>

RunLayer ==
  /\ Begin("layer")
  /\ slot' = UNetLayer(slot)
  /\ UNCHANGED <<job, step, gate, frame, word, skips, z, velocity, result>>

KeepSkip ==
  /\ Begin("keep")
  /\ skips' = Append(skips, slot)
  /\ UNCHANGED <<job, step, gate, slot, frame, word, z, velocity, result>>

(* The merger is biased: padded positions are not zero until the layer     *)
(* masks them.                                                             *)
MergeSkip ==
  /\ Begin("merge")
  /\ slot' = Layer(Plus(slot, skips[Len(skips)]))
  /\ skips' = SubSeq(skips, 1, Len(skips) - 1)
  /\ UNCHANGED <<job, step, gate, frame, word, z, velocity, result>>

(* With the x parameterisation the net predicts the clean latents.         *)
AsVelocity(out) == IF net.xpred THEN PlusAll(Plus(out, z), Time) ELSE out

Predicted == ReMask(Layer(slot))

Output ==
  /\ Begin("output")
  /\ velocity' = Append(velocity, Predicted)
  /\ UNCHANGED <<job, step, gate, stream, z, result>>

LossOver == Real

Compared(p) == velocity[1][p] \cup z[p] \cup {Clean(p), Noise(p)}

(* First and second differences in time of the latents the prediction of   *)
(* the denoiser implies, and of their target.                              *)
Dynamics(p) ==
  UNION {Compared(<<p[1], t>>) :
    t \in UNION {p[2] .. (p[2] + k) : k \in {i \in 1 .. 2 : p[2] \in Starts(RealFrames, i)}}}

(* flow_loss and masked_v_mse: squared error at valid tokens, divided by   *)
(* their number.                                                           *)
Loss ==
  /\ Begin("loss")
  /\ result' = [p \in Grid |->
       IF p \notin LossOver THEN Zero
       ELSE Compared(p) \cup (IF net.model = "denoiser" THEN Dynamics(p) ELSE Zero)]
  /\ UNCHANGED <<job, step, gate, stream, z, velocity>>

Denormalised(x) == ReMask(Layer(x))

(* Velocities left after a step.                                           *)
Spent == <<>>

(* z + dt * v, masked; after the last step the sample.                     *)
Euler ==
  /\ todo = <<"euler">>
  /\ z' = ReMask([p \in Grid |-> z[p] \cup UNION {AsVelocity(velocity[i])[p] : i \in 1 .. Len(velocity)}])
  /\ step' = step + 1
  /\ IF step' < Steps THEN todo' = Program /\ result' = result
                      ELSE todo' = <<>> /\ result' = Denormalised(z')
  /\ velocity' = Spent
  /\ UNCHANGED <<job, gate, stream>>

Next == \/ Condition \/ Refuse \/ ProjectText \/ Input \/ SlotTemporal \/ SlotReadsText
        \/ Coupling \/ JointStreams \/ RunLayer \/ KeepSkip \/ MergeSkip
        \/ Output \/ Loss \/ Euler

Spec == Init /\ [][Next]_vars

-----------------------------------------------------------------------------
(* Properties.                                                             *)

Atoms == {Clean(p) : p \in Grid} \cup {Noise(p) : p \in Grid}
         \cup {Word(w) : w \in Tokens} \cup {Caption} \cup Time \cup Weight \cup Padding

Dependent(x) == x \in [DOMAIN x -> SUBSET Atoms]

(* The streams are tensors over the inputs of the program.                 *)
TypeOK ==
  /\ net \in Nets /\ use \in Uses
  /\ nslots \in 1 .. Slots /\ nframes \in 0 .. Frames /\ nwords \in 0 .. Words
  /\ {hasText, gate} \subseteq BOOLEAN
  /\ step \in 0 .. Steps
  /\ \A x \in {slot, z, result} : DOMAIN x = Grid /\ Dependent(x)
  /\ DOMAIN frame = T /\ Dependent(frame)
  /\ DOMAIN word = Tokens /\ Dependent(word)
  /\ Len(velocity) <= 2 /\ Len(skips) <= 1

FromPadding == {Clean(p) : p \in Grid \ Real} \cup {Noise(p) : p \in Grid \ Real}
               \cup {Word(w) : w \in Tokens \ RealWords} \cup Padding

(* Padded slots, padded latent frames and padded caption tokens never      *)
(* reach a valid position, at no sub-block of no network, nor the loss     *)
(* (graph_codeflow.py: "padded slots / padded latent frames never leak").  *)
NoPaddingLeak ==
  /\ \A p \in Real : (slot[p] \cup z[p]) \cap FromPadding = {}
  /\ \A i \in 1 .. Len(velocity) : \A p \in Real : velocity[i][p] \cap FromPadding = {}
  /\ \A t \in RealFrames : frame[t] \cap FromPadding = {}
  /\ \A w \in ValidWords : word[w] \cap FromPadding = {}
  /\ \A p \in Grid : result[p] \cap FromPadding = {}

(* Padded positions are exactly zero: between the steps of the sampler, in *)
(* every prediction, and in the sample that the codec snaps and decodes.   *)
PaddedZero ==
  \A p \in Grid \ Real :
    /\ z[p] = Zero /\ result[p] = Zero
    /\ \A i \in 1 .. Len(velocity) : velocity[i][p] = Zero

TextAtoms == {Caption} \cup {Word(w) : w \in Tokens}

(* Without a caption, or with one that was dropped, nothing of the caption *)
(* is in the result; and the second pass of a guided step knows nothing of *)
(* it beyond what the latents carry from earlier steps.                    *)
TextGated ==
  /\ ~hasText => \A p \in Grid : result[p] \cap TextAtoms = {}
  /\ (~hasText \/ step = 0) /\ Len(velocity) = 2 =>
       \A p \in Grid : velocity[2][p] \cap TextAtoms = {}

(* A prediction depends on the time, on every valid token of the latents   *)
(* and, when the clip has a caption, on everything the caption gives.      *)
Reaches ==
  Len(velocity) >= 1 =>
    \A p \in Real :
      /\ Time \cup UNION {z[q] : q \in Real} \subseteq velocity[1][p]
      /\ hasText => CaptionInputs \subseteq velocity[1][p]

(* The loss has a term for every valid token, made of its own target.      *)
LossOverValid ==
  use = "train" /\ todo = <<>> /\ velocity # <<>> =>
    \A p \in Grid : (p \in Real) <=> ({Clean(p), Noise(p)} \subseteq result[p])

=============================================================================
