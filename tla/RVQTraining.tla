----------------------------- MODULE RVQTraining -----------------------------
(***************************************************************************)
(* Data-parallel training of the residual-VQ tokenizer                     *)
(* (scripts/train_graph_vqvae.py with src/models/vq_model/quantizer.py).   *)
(*                                                                         *)
(* Every rank runs the same program and meets the others in collectives:   *)
(* the codebook broadcast at start-up, then per step the dropout-depth     *)
(* broadcast, per active stage the EMA all-reduce, the dead-code broadcast *)
(* and the diagnostics all-reduce, the commit-loss all-reduce, the         *)
(* gradient all-reduce of backward(), and the barrier of an epoch's end.   *)
(* A rank computes alone between two collectives, so a fast rank may be    *)
(* one collective ahead of a slow one.                                     *)
(*                                                                         *)
(* Vectors, distances and moving averages are constants of the module:     *)
(* what the ranks agree on must not depend on the arithmetic.  The two     *)
(* all-reduces of an EMA update and the two broadcasts of a reset have     *)
(* nothing between them, so each pair is one collective here.              *)
(***************************************************************************)
EXTENDS Naturals, FiniteSets

CONSTANTS
  WorldSize,        \* number of ranks; rank 0 is "main"
  NumQuantizers,    \* residual stages
  NumCodes,         \* codes of one stage
  Dropout,          \* quantize_dropout_prob > 0
  StepsPerEpoch,    \* batches every rank draws per epoch (equal by the sampler)
  Epochs,           \* --epochs
  SaveEvery,        \* --save_every
  PeriodicEvery,    \* --periodic_save_every; 0 for no snapshots
  Vec,              \* finite vectors: tokens, residuals, code embeddings
  Pad,              \* the zero vector of a padded slot or an unfilled buffer
  Mass,             \* values of cluster_size
  Threshold,        \* dead_code_threshold
  EmaMass(_, _),    \* cluster_size after an EMA update with a population
  EmaVec(_, _),     \* embed after an EMA update with a population
  Nearest(_, _),    \* argmin code of a token in a stage's codebook
  Residual(_, _),   \* token minus its code
  InitBooks,        \* codebooks a rank may hold before the start-up broadcast
  MaxFaults         \* bound: ranks that may die for an outside reason

Ranks  == 0 .. (WorldSize - 1)
Stages == 1 .. NumQuantizers
Codes  == 1 .. NumCodes

Code       == [mass : Mass, vec : Vec]
Codebook   == [Stages -> [Codes -> Code]]
Population == [Ranks -> SUBSET Vec]     \* the tokens of one code, per rank

ASSUME SizesAssumption ==
  /\ WorldSize \in Nat \ {0}
  /\ NumQuantizers \in Nat \ {0}
  /\ NumCodes \in Nat \ {0}
  /\ StepsPerEpoch \in Nat \ {0}
  /\ Epochs \in Nat \ {0}
  /\ SaveEvery \in Nat \ {0}
  /\ PeriodicEvery \in Nat
  /\ Mass \subseteq Nat
  /\ Threshold \in Mass
  /\ MaxFaults \in Nat
  /\ Dropout \in BOOLEAN

ASSUME BooksAssumption ==
  /\ InitBooks # {}
  /\ InitBooks \subseteq Codebook

ASSUME PadAssumption == Pad \notin Vec

ASSUME ArithmeticAssumption ==
  /\ \A m \in Mass : \A pop \in Population : EmaMass(m, pop) \in Mass
  /\ \A v \in Vec : \A pop \in Population : EmaVec(v, pop) \in Vec
  /\ \A t \in Vec : \A book \in [Codes -> Code] : Nearest(t, book) \in Codes
  /\ \A t \in Vec : \A v \in Vec : Residual(t, v) \in Vec

VARIABLES
  rep,       \* per rank: the state every rank keeps a replica of
  loc,       \* per rank: its own tokens (stage input, next residual)
  arrived,   \* the ranks waiting in the collective of their rep.op
  contrib,   \* per rank: what it put into that collective, <<kind, payload>>
  result,    \* what the last completed collective delivered, <<kind, payload>>
  status,    \* per rank: running, done, gatefail, dead
  faults,    \* outside faults so far
  ckpt       \* last_model.pt as rank 0 last wrote it

vars == <<rep, loc, arrived, contrib, result, status, faults, ckpt>>

-----------------------------------------------------------------------------
(* The replicated state and what each collective's result does to it.      *)

Op(kind, q) == [kind |-> kind, q |-> q]

Kinds == {"init", "depth", "ema", "reset", "diag", "norm", "grad", "barrier"}

(* The first collective of a step: the depth broadcast is guarded by the   *)
(* dropout probability and by there being more than one stage.             *)
FirstOp ==
  IF Dropout /\ NumQuantizers > 1 THEN Op("depth", 0) ELSE Op("ema", 1)

NextBatch(s) == [s EXCEPT !.op = FirstOp, !.keep = NumQuantizers]

\* Mutant: the start-up broadcast of the codebooks is dropped.
Bug_AfterInit(s, res) == NextBatch(s)

AfterInit(s, res) == NextBatch([s EXCEPT !.book = res])

AfterDepth(s, res) == [s EXCEPT !.keep = res, !.op = Op("ema", 1)]

(* No decay when no rank has a valid token anywhere.                       *)
EmaUpdate(book, pops) ==
  IF \A k \in Codes : \A r \in Ranks : pops[k][r] = {}
    THEN book
    ELSE [k \in Codes |-> [mass |-> EmaMass(book[k].mass, pops[k]),
                           vec  |-> EmaVec(book[k].vec, pops[k])]]

Dead(book) == {k \in Codes : book[k].mass < Threshold}

AfterEma(s, res) ==
  LET book == EmaUpdate(s.book[s.op.q], res)
  IN  [s EXCEPT !.book = [s.book EXCEPT ![s.op.q] = book],
                !.op = Op(IF Dead(book) = {} THEN "diag" ELSE "reset", s.op.q)]

(* A source without valid tokens leaves the dead codes as they are.        *)
ReviveDead(book, res) ==
  IF res.has
    THEN [k \in Codes |-> IF k \in Dead(book)
                            THEN [mass |-> Threshold, vec |-> res.vecs[k]]
                            ELSE book[k]]
    ELSE book

AfterReset(s, res) ==
  LET book == ReviveDead(s.book[s.op.q], res)
  IN  [s EXCEPT !.book = [s.book EXCEPT ![s.op.q] = book], !.op = Op("diag", s.op.q)]

\* Mutant: the stage index does not advance.
Bug_AfterDiag(s) ==
  [s EXCEPT !.op = IF s.op.q < s.keep THEN Op("ema", s.op.q) ELSE Op("norm", 0)]

(* Stages past the kept depth run no collective.                           *)
AfterDiag(s) ==
  [s EXCEPT !.op = IF s.op.q < s.keep THEN Op("ema", s.op.q + 1)
                                      ELSE Op("norm", 0)]

AfterNorm(s) == [s EXCEPT !.op = Op("grad", 0)]

AfterGrad(s) ==
  LET stepped == [s EXCEPT !.step = s.step + 1, !.it = s.it + 1]
  IN  IF stepped.it = StepsPerEpoch THEN [stepped EXCEPT !.op = Op("barrier", 0)]
                                    ELSE NextBatch(stepped)

\* Mutant: the batch index of the epoch is not reset.
Bug_AfterBarrier(s) == NextBatch([s EXCEPT !.epoch = s.epoch + 1])

AfterBarrier(s) == NextBatch([s EXCEPT !.epoch = s.epoch + 1, !.it = 0])

(* The epochs that rank 0 validates and saves (not those of a smoke test,  *)
(* which validates every epoch and saves none).                            *)
DoVal(epoch) ==
  \/ (epoch + 1) % SaveEvery = 0 \/ epoch = Epochs - 1
  \/ PeriodicEvery > 0 /\ (epoch + 1) % PeriodicEvery = 0

-----------------------------------------------------------------------------
(* What a rank puts into a collective, and what the collective delivers.   *)

Assigned(book, tokens) ==
  [k \in Codes |-> {t \in tokens : Nearest(t, book) = k}]

Residuals(book, tokens) ==
  {Residual(t, book[Nearest(t, book)].vec) : t \in tokens}

Unfilled == [has |-> FALSE, vecs |-> [k \in Codes |-> Pad]]

\* Mutant: the source claims a sample it does not have, so zeros are used.
Bug_ResetPayloads(r, tokens) ==
  IF r = 0 /\ tokens # {}
    THEN {[has |-> TRUE, vecs |-> pick] : pick \in [Codes -> tokens]}
    ELSE {[Unfilled EXCEPT !.has = TRUE]}

(* Only the source rank samples, and only from its own valid tokens.       *)
ResetPayloads(r, tokens) ==
  IF r = 0 /\ tokens # {}
    THEN {[has |-> TRUE, vecs |-> pick] : pick \in [Codes -> tokens]}
    ELSE {Unfilled}

Contributions(r, s, tokens) ==
  CASE s.op.kind = "depth" -> Stages
    [] s.op.kind = "ema"   -> {Assigned(s.book[s.op.q], tokens)}
    [] s.op.kind = "reset" -> ResetPayloads(r, tokens)
    [] s.op.kind = "grad"  -> BOOLEAN
    [] OTHER               -> {TRUE}

Combine(kind, c) ==
  CASE kind \in {"init", "depth", "reset"} -> c[0][2]
    [] kind = "ema"  -> [k \in Codes |-> [r \in Ranks |-> c[r][2][k]]]
    [] kind = "grad" -> \A r \in Ranks : c[r][2]
    [] OTHER         -> TRUE

Delivered == result[2]

-----------------------------------------------------------------------------
Init ==
  /\ \E books \in [Ranks -> InitBooks] :
       /\ rep = [r \in Ranks |->
                  [op |-> Op("init", 0), keep |-> NumQuantizers,
                   book |-> books[r], step |-> 0, it |-> 0, epoch |-> 0]]
       /\ contrib = [r \in Ranks |-> <<"init", books[r]>>]
  /\ loc = [r \in Ranks |-> [inp |-> {}, res |-> {}]]
  /\ arrived = Ranks
  /\ result = <<"none", TRUE>>
  /\ status = [r \in Ranks |-> "running"]
  /\ faults = 0
  /\ ckpt = {}

(* A collective completes when every rank of the group is in it.           *)
Complete ==
  /\ arrived = Ranks
  /\ \A r \in Ranks : status[r] = "running"
  /\ \A r \in Ranks : rep[r].op = rep[0].op
  /\ result' = <<rep[0].op.kind, Combine(rep[0].op.kind, contrib)>>
  /\ arrived' = {}
  /\ UNCHANGED <<rep, loc, contrib, status, faults, ckpt>>

(* Rank r holds the result of its current collective.                      *)
Holds(r, kind) ==
  /\ status[r] = "running"
  /\ r \notin arrived
  /\ rep[r].op.kind = kind

(* Rank r moves to state s and enters its next collective with the given   *)
(* valid tokens as stage input; entering a stage quantizes them, and past  *)
(* the last stage nothing reads them.                                      *)
Enter(r, s, tokens) ==
  /\ rep' = [rep EXCEPT ![r] = s]
  /\ loc' = [loc EXCEPT ![r] =
               [inp |-> IF s.op.kind \in {"norm", "grad"} THEN {} ELSE tokens,
                res |-> CASE s.op.kind = "ema" -> Residuals(s.book[s.op.q], tokens)
                          [] s.op.kind \in {"reset", "diag"} -> loc[r].res
                          [] OTHER -> {}]]
  /\ \E c \in Contributions(r, s, tokens) :
       contrib' = [contrib EXCEPT ![r] = <<s.op.kind, c>>]
  /\ arrived' = arrived \cup {r}
  /\ UNCHANGED <<result, status, faults>>

LeaveInit(r) ==
  /\ Holds(r, "init")
  /\ \E tokens \in SUBSET Vec : Enter(r, AfterInit(rep[r], Delivered), tokens)
  /\ UNCHANGED ckpt

LeaveDepth(r) ==
  /\ Holds(r, "depth")
  /\ Enter(r, AfterDepth(rep[r], Delivered), loc[r].inp)
  /\ UNCHANGED ckpt

LeaveEma(r) ==
  /\ Holds(r, "ema")
  /\ Enter(r, AfterEma(rep[r], Delivered), loc[r].inp)
  /\ UNCHANGED ckpt

LeaveReset(r) ==
  /\ Holds(r, "reset")
  /\ Enter(r, AfterReset(rep[r], Delivered), loc[r].inp)
  /\ UNCHANGED ckpt

(* The next stage takes the residual of this one.                          *)
LeaveDiag(r) ==
  /\ Holds(r, "diag")
  /\ Enter(r, AfterDiag(rep[r]), loc[r].res)
  /\ UNCHANGED ckpt

(* The loss gate is local: each rank tests its own total.                  *)
LossFinite(r) ==
  /\ Holds(r, "norm")
  /\ Enter(r, AfterNorm(rep[r]), loc[r].inp)
  /\ UNCHANGED ckpt

Exit(r, how) ==
  /\ status' = [status EXCEPT ![r] = how]
  /\ UNCHANGED <<rep, loc, arrived, contrib, result, ckpt>>

\* Mutant: a rank with a non-finite loss skips the batch instead of exiting.
SkipBatch_LossGateFail(r) ==
  /\ Holds(r, "norm")
  /\ \E tokens \in SUBSET Vec : Enter(r, NextBatch(rep[r]), tokens)
  /\ UNCHANGED <<faults, ckpt>>

\* Mutant: the loss is tested only after backward().
Late_LossGateFail(r) ==
  /\ Holds(r, "grad")
  /\ Exit(r, "gatefail")
  /\ UNCHANGED faults

LossGateFail(r) ==
  /\ Holds(r, "norm")
  /\ Exit(r, "gatefail")
  /\ UNCHANGED faults

(* The gradient gate tests the reduced gradient; past it opt.step() runs.  *)
OptStep(r) ==
  /\ Holds(r, "grad")
  /\ Delivered
  /\ LET s == AfterGrad(rep[r])
     IN  /\ s.op.kind # "barrier"
         /\ \E tokens \in SUBSET Vec : Enter(r, s, tokens)
  /\ UNCHANGED ckpt

GradGateFail(r) ==
  /\ Holds(r, "grad")
  /\ ~ Delivered
  /\ Exit(r, "gatefail")
  /\ UNCHANGED faults

(* The last step of an epoch: rank 0 validates without collectives and     *)
(* saves before it joins the others at the barrier.                        *)
Saved(s) == [epoch |-> s.epoch, step |-> s.step, book |-> s.book]

\* Mutant: the checkpoint is taken before the optimizer step.
Bug_EpochEnd(r) ==
  /\ Holds(r, "grad")
  /\ Delivered
  /\ LET s == AfterGrad(rep[r])
     IN  /\ s.op.kind = "barrier"
         /\ Enter(r, s, {})
         /\ ckpt' = IF r = 0 /\ DoVal(s.epoch) THEN {Saved(rep[r])} ELSE ckpt

EpochEnd(r) ==
  /\ Holds(r, "grad")
  /\ Delivered
  /\ LET s == AfterGrad(rep[r])
     IN  /\ s.op.kind = "barrier"
         /\ Enter(r, s, {})
         /\ ckpt' = IF r = 0 /\ DoVal(s.epoch) THEN {Saved(s)} ELSE ckpt

LeaveBarrier(r) ==
  /\ Holds(r, "barrier")
  /\ rep[r].epoch + 1 < Epochs
  /\ \E tokens \in SUBSET Vec : Enter(r, AfterBarrier(rep[r]), tokens)
  /\ UNCHANGED ckpt

FinishRun(r) ==
  /\ Holds(r, "barrier")
  /\ rep[r].epoch + 1 = Epochs
  /\ Exit(r, "done")
  /\ UNCHANGED faults

(* A rank dies for an outside reason: node loss, out of memory, the        *)
(* process-group timeout of a rank that waits too long in a collective.    *)
Fault(r) ==
  /\ status[r] = "running"
  /\ faults < MaxFaults
  /\ faults' = faults + 1
  /\ Exit(r, "dead")

(* torchrun ends the group once one of its workers has failed.             *)
AgentKill(r) ==
  /\ status[r] = "running"
  /\ \E s \in Ranks : status[s] \in {"gatefail", "dead"}
  /\ Exit(r, "dead")
  /\ UNCHANGED faults

Ended ==
  /\ \A r \in Ranks : status[r] # "running"
  /\ UNCHANGED vars

Proceed(r) ==
  \/ LeaveInit(r) \/ LeaveDepth(r) \/ LeaveEma(r) \/ LeaveReset(r)
  \/ LeaveDiag(r) \/ LossFinite(r) \/ LossGateFail(r) \/ OptStep(r)
  \/ GradGateFail(r) \/ EpochEnd(r) \/ LeaveBarrier(r) \/ FinishRun(r)

Next ==
  \/ Complete
  \/ \E r \in Ranks : Proceed(r) \/ Fault(r) \/ AgentKill(r)
  \/ Ended

Spec == Init /\ [][Next]_vars

(* A collective with all its ranks completes, a rank that holds a result   *)
(* goes on, and torchrun notices a failed worker.                          *)
FairSpec ==
  /\ Spec
  /\ WF_vars(Complete)
  /\ \A r \in Ranks : WF_vars(Proceed(r) \/ AgentKill(r))
-----------------------------------------------------------------------------
(* Properties.                                                             *)

(* Types: the replicated state, the tokens and the counters stay in range. *)
TypeOK ==
  /\ rep \in [Ranks -> [op : [kind : Kinds, q : 0 .. NumQuantizers],
                        keep : Stages,
                        book : [Stages -> [Codes -> [mass : Mass, vec : Vec \cup {Pad}]]],
                        step : Nat, it : 0 .. StepsPerEpoch,
                        epoch : 0 .. (Epochs - 1)]]
  /\ loc \in [Ranks -> [inp : SUBSET Vec, res : SUBSET Vec]]
  /\ arrived \subseteq Ranks
  /\ status \in [Ranks -> {"running", "done", "gatefail", "dead"}]
  /\ faults \in 0 .. MaxFaults

(* Two ranks that wait at the same time wait in the same collective of the *)
(* same stage, whatever tokens each of them has: the quantizer's "bug 2",  *)
(* where a rank without valid tokens skipped a collective, cannot occur.   *)
CollectivesMatch ==
  \A r, s \in arrived : rep[r].op = rep[s].op

(* After the start-up broadcast, ranks waiting in a collective hold the    *)
(* same codebooks: EMA statistics and dead-code vectors keep the replicas  *)
(* identical although DDP does not broadcast buffers.                      *)
CodebookAgreement ==
  \A r, s \in arrived :
    rep[r].op.kind # "init" => rep[r].book = rep[s].book

(* A dead code is revived with a valid token of rank 0 or not at all: the  *)
(* zero vector of a padded slot never becomes a code.                      *)
NoPaddedCode ==
  \A r \in Ranks, q \in Stages, k \in Codes : rep[r].book[q][k].vec # Pad

(* A rank that leaves at a finiteness gate leaves before the update it     *)
(* rejected, and no other rank ever applies that update.                   *)
NoStepPastFailedGate ==
  \A r, s \in Ranks : status[r] = "gatefail" => rep[s].step <= rep[r].step

(* The checkpoint rank 0 wrote at the end of an epoch holds the step count *)
(* and the codebooks of every rank that waits at that epoch's barrier, so  *)
(* a resumed group starts where all of them were.                          *)
CheckpointAgreed ==
  \A r \in Ranks :
    /\ 0 \in arrived
    /\ r \in arrived
    /\ rep[r].op.kind = "barrier"
    /\ DoVal(rep[r].epoch)
    => ckpt = {Saved(rep[r])}

(* Every rank ends: none waits for ever in a collective that a failed peer *)
(* will not join.                                                          *)
Termination == <>(\A r \in Ranks : status[r] # "running")
=============================================================================
