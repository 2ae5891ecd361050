---------------------------- MODULE LatentRunProofs ----------------------------
(***************************************************************************)
(* Proofs about LatentRun for any number of epochs and of steps in one,    *)
(* any save, validation and snapshot schedule, any warm-up, any losses and *)
(* any number of crashes.                                                  *)
(***************************************************************************)
EXTENDS LatentRun, TLAPS

(* The number of updates behind the model in memory.                       *)
Updates == IF pc = "train" THEN weights * Steps + step ELSE weights * Steps

(* What can still be left to write.                                        *)
DenoiserTodo == {<<"row", "best", "last", "snap">>, <<"best", "last", "snap">>,
                 <<"last", "snap">>, <<"snap">>, << >>}
VaeTodo == {<<"last", "best", "recon", "row", "snap">>, <<"best", "recon", "row", "snap">>,
            <<"recon", "row", "snap">>, <<"row", "snap">>, <<"snap">>, << >>}

Ahead(f) == todo # << >> /\ Head(todo) = f

(* Where the main rank is in an epoch fixes what its counters stand for.   *)
Phase ==
  /\ Running => epoch < NEpochs
  /\ pc = "train" => weights = epoch
  /\ pc \in {"save", "write"} =>
       /\ weights = epoch + 1
       /\ pc = "write" => todo # << >>
       /\ todo \in IF script = "denoiser" THEN DenoiserTodo ELSE VaeTodo
  /\ pc = "write" /\ Ahead("best") => bestVal = val
  /\ pc = "write" /\ Ahead("recon") => bestRec = rec

Schedule ==
  Running => /\ git <= Updates
             /\ script = "denoiser" => git = Updates /\ lr = LrFor(Higher(0, Updates - 1))

(* The VAE's last_model.pt is at least as good as the best files, and so   *)
(* is what a run resumed from it believes.                                 *)
VaeInv ==
  script = "vae" /\ ~ operator =>
    /\ best.state = "whole" => best.val = served
    /\ recon.state = "whole" => recon.rec = servedRec
    /\ last.state = "whole" => last.val <= served /\ last.rec <= servedRec
    /\ last.state = "none" => served = Inf /\ servedRec = Inf
    /\ Running => bestVal <= served /\ bestRec <= servedRec
    /\ pc \in {"save", "write"} /\ (Ahead("best") \/ Ahead("recon")) =>
         last.val <= val /\ last.rec <= rec /\ last.state = "whole"

(* The denoiser believes in a best loss only when the file is written, or  *)
(* being written; a last_model.pt is never ahead of the process.           *)
Backed(v) ==
  v < Inf => best.state = "torn" \/ (best.state = "whole" /\ best.val <= v)

DenoiserInv ==
  script = "denoiser" /\ ~ operator =>
    /\ last.state = "whole" => Backed(last.val)
    /\ Running => Backed(bestVal)
    /\ Running /\ last.state = "whole" => bestVal <= last.val

(* Rows are written before the files that count their epoch.               *)
RowsInv ==
  script = "denoiser" =>
    /\ ~ operator /\ last.state = "whole" =>
         \A e \in born .. last.epoch : ValDue(e) => e \in rows
    /\ Running => \A e \in born .. (epoch - 1) : ValDue(e) => e \in rows
    /\ pc \in {"save", "write"} /\ ~ Ahead("row") /\ ValDue(epoch) => epoch \in rows

IInv == /\ TypeOK /\ FilesTrue /\ Phase /\ Schedule /\ VaeInv /\ DenoiserInv /\ RowsInv

-----------------------------------------------------------------------------
(* Constants, products and losses.                                         *)
LEMMA Constants ==
  /\ NEpochs \in Nat \ {0} /\ Steps \in Nat \ {0} /\ Warmup \in Nat /\ MaxCrashes \in Nat
  /\ Inf \in Losses /\ Inf \in Nat
  /\ \A v \in Losses : v \in Nat /\ v <= Inf
BY LatentAssumption DEF Losses

(* Updates of whole epochs.                                                *)
LEMMA EpochUpdates ==
  ASSUME NEW w \in Nat
  PROVE  /\ w * Steps \in Nat
         /\ (w + 1) * Steps = w * Steps + Steps
         /\ w <= NEpochs => w * Steps <= TotalIters
<1>1. Steps \in Nat /\ NEpochs \in Nat BY Constants
<1>2. w * Steps \in Nat /\ (w + 1) * Steps = w * Steps + Steps BY <1>1, SMTT(20)
<1>3. ASSUME w <= NEpochs PROVE w * Steps <= NEpochs * Steps BY <1>1, <1>3, SMTT(20)
<1> QED BY <1>2, <1>3 DEF TotalIters

LEMMA FileTypes ==
  /\ NoFile \in File /\ NoFile.state = "none"
  /\ Torn \in File /\ Torn.state = "torn"
BY Constants DEF NoFile, Torn, File

LEMMA LowerLoss ==
  ASSUME NEW a \in Losses, NEW b \in Losses
  PROVE  /\ Lower(a, b) \in Losses /\ Lower(a, b) \in Nat
         /\ Lower(a, b) <= a /\ Lower(a, b) <= b
BY Constants DEF Lower

-----------------------------------------------------------------------------
(* What is left to write: the order of the two scripts.                    *)
LEMMA PlanOf ==
  ASSUME NEW e
  PROVE  Plan(e) \in IF script = "denoiser" THEN DenoiserTodo ELSE VaeTodo
BY DEF Plan, DenoiserTodo, VaeTodo

LEMMA PlanHead ==
  ASSUME NEW e
  PROVE  /\ Plan(e) # << >>
         /\ script = "denoiser" /\ ValDue(e) => Head(Plan(e)) = "row"
         /\ Head(Plan(e)) \notin {"best", "recon"}
<1>1. CASE script = "denoiser" /\ ValDue(e)
  <2>1. Plan(e) = <<"row", "best", "last", "snap">> BY <1>1 DEF Plan
  <2> QED BY <2>1
<1>2. CASE script = "denoiser" /\ ~ ValDue(e)
  <2>1. Plan(e) = <<"last", "snap">> BY <1>2 DEF Plan
  <2> QED BY <2>1, <1>2
<1>3. CASE script # "denoiser" /\ ValDue(e)
  <2>1. Plan(e) = <<"last", "best", "recon", "row", "snap">> BY <1>3 DEF Plan
  <2> QED BY <2>1, <1>3
<1>4. CASE script # "denoiser" /\ ~ ValDue(e)
  <2>1. Plan(e) = <<"snap">> BY <1>4 DEF Plan
  <2> QED BY <2>1, <1>4
<1> QED BY <1>1, <1>2, <1>3, <1>4

LEMMA DenoiserRest ==
  ASSUME NEW t \in DenoiserTodo, t # << >>
  PROVE  /\ Tail(t) \in DenoiserTodo
         /\ Tail(t) # << >> => Head(Tail(t)) # "row"
         /\ Head(t) \in {"row", "best", "last", "snap"}
         /\ Head(t) = "last" => Tail(t) = <<"snap">>
<1>1. CASE t = <<"row", "best", "last", "snap">>
  <2>1. Head(t) = "row" /\ Tail(t) = <<"best", "last", "snap">> BY <1>1
  <2> QED BY <2>1 DEF DenoiserTodo
<1>2. CASE t = <<"best", "last", "snap">>
  <2>1. Head(t) = "best" /\ Tail(t) = <<"last", "snap">> BY <1>2
  <2> QED BY <2>1 DEF DenoiserTodo
<1>3. CASE t = <<"last", "snap">>
  <2>1. Head(t) = "last" /\ Tail(t) = <<"snap">> BY <1>3
  <2> QED BY <2>1 DEF DenoiserTodo
<1>4. CASE t = <<"snap">>
  <2>1. Head(t) = "snap" /\ Tail(t) = << >> BY <1>4
  <2> QED BY <2>1 DEF DenoiserTodo
<1> QED BY <1>1, <1>2, <1>3, <1>4 DEF DenoiserTodo

LEMMA VaeRest ==
  ASSUME NEW t \in VaeTodo, t # << >>
  PROVE  /\ Tail(t) \in VaeTodo
         /\ Head(t) \in {"last", "best", "recon", "row", "snap"}
         /\ Head(t) \in {"recon", "row", "snap"} =>
              (Tail(t) # << >> => Head(Tail(t)) \notin {"best", "recon"})
         /\ Head(t) = "last" => Head(Tail(t)) = "best"
         /\ Head(t) = "best" => Head(Tail(t)) = "recon"
         /\ Tail(t) # << >> => Head(Tail(t)) # "last"
<1>1. CASE t = <<"last", "best", "recon", "row", "snap">>
  <2>1. Head(t) = "last" /\ Tail(t) = <<"best", "recon", "row", "snap">> BY <1>1
  <2>2. Head(<<"best", "recon", "row", "snap">>) = "best" OBVIOUS
  <2>3. Head(Tail(t)) = "best" BY <2>1, <2>2
  <2> QED BY <2>1, <2>3 DEF VaeTodo
<1>2. CASE t = <<"best", "recon", "row", "snap">>
  <2>1. Head(t) = "best" /\ Tail(t) = <<"recon", "row", "snap">> BY <1>2
  <2>2. Head(<<"recon", "row", "snap">>) = "recon" OBVIOUS
  <2>3. Head(Tail(t)) = "recon" BY <2>1, <2>2
  <2> QED BY <2>1, <2>3 DEF VaeTodo
<1>3. CASE t = <<"recon", "row", "snap">>
  <2>1. Head(t) = "recon" /\ Tail(t) = <<"row", "snap">> BY <1>3
  <2>2. Head(<<"row", "snap">>) = "row" OBVIOUS
  <2>3. Head(Tail(t)) = "row" BY <2>1, <2>2
  <2> QED BY <2>1, <2>3 DEF VaeTodo
<1>4. CASE t = <<"row", "snap">>
  <2>1. Head(t) = "row" /\ Tail(t) = <<"snap">> BY <1>4
  <2>2. Head(<<"snap">>) = "snap" OBVIOUS
  <2>3. Head(Tail(t)) = "snap" BY <2>1, <2>2
  <2> QED BY <2>1, <2>3 DEF VaeTodo
<1>5. CASE t = <<"snap">>
  <2>1. Head(t) = "snap" /\ Tail(t) = << >> BY <1>5
  <2> QED BY <2>1 DEF VaeTodo
<1> QED BY <1>1, <1>2, <1>3, <1>4, <1>5 DEF VaeTodo

-----------------------------------------------------------------------------
(* Fields of a file and of what a save puts there.                         *)
LEMMA FileFields ==
  ASSUME NEW f \in File
  PROVE  /\ f.state \in {"none", "torn", "whole"}
         /\ f.epoch \in 0 .. (NEpochs - 1) /\ f.weights \in 0 .. NEpochs
         /\ f.val \in Losses /\ f.rec \in Losses
BY DEF File

LEMMA Types ==
  ASSUME TypeOK
  PROVE  /\ val \in Losses /\ rec \in Losses /\ bestVal \in Losses /\ bestRec \in Losses
         /\ served \in Losses /\ servedRec \in Losses
         /\ last \in File /\ best \in File /\ recon \in File
         /\ snaps \in [1 .. NEpochs -> File]
BY DEF TypeOK

LEMMA LossesAreNumbers ==
  ASSUME TypeOK
  PROVE  /\ val \in Nat /\ rec \in Nat /\ bestVal \in Nat /\ bestRec \in Nat
         /\ served \in Nat /\ servedRec \in Nat /\ last.val \in Nat /\ last.rec \in Nat
         /\ best.val \in Nat /\ recon.rec \in Nat
<1>1. last.val \in Losses /\ last.rec \in Losses /\ best.val \in Losses /\ recon.rec \in Losses
  BY Types, FileFields
<1> QED BY <1>1, Types, Constants

LEMMA ContentFields ==
  ASSUME TypeOK, epoch < NEpochs, NEW f
  PROVE  /\ Content(f) \in File
         /\ Content(f).state = "whole"
         /\ Content(f).epoch = epoch /\ Content(f).weights = weights
         /\ f = "best" => Content(f).val = val
         /\ f = "recon" => Content(f).rec = rec
         /\ script = "vae" /\ f = "last" =>
              Content(f).val = Lower(bestVal, val) /\ Content(f).rec = Lower(bestRec, rec)
         /\ script # "vae" /\ f = "last" => Content(f).val = bestVal
<1> DEFINE v == IF script = "vae" /\ f = "last" THEN Lower(bestVal, val) ELSE
                IF f \in {"best", "recon"} THEN val ELSE bestVal
           r == IF script = "vae" /\ f = "last" THEN Lower(bestRec, rec) ELSE
                IF f \in {"best", "recon"} THEN rec ELSE bestRec
<1>1. Content(f) = [state |-> "whole", epoch |-> epoch, weights |-> weights, val |-> v, rec |-> r]
  BY DEF Content
<1>2. Lower(bestVal, val) \in Losses /\ Lower(bestRec, rec) \in Losses BY Types, LowerLoss
<1>3. v \in Losses /\ r \in Losses BY <1>2, Types
<1>4. epoch \in 0 .. (NEpochs - 1) /\ weights \in 0 .. NEpochs BY Constants DEF TypeOK
<1>5. /\ f = "best" => v = val
      /\ f = "recon" => r = rec
      /\ script = "vae" /\ f = "last" => v = Lower(bestVal, val) /\ r = Lower(bestRec, rec)
      /\ script # "vae" /\ f = "last" => v = bestVal
  OBVIOUS
<1> HIDE DEF v, r
<1> QED BY <1>1, <1>3, <1>4, <1>5 DEF File

-----------------------------------------------------------------------------
(* The run starts with no files and no best loss.                          *)
LEMMA InvInit == Init => IInv
<1> SUFFICES ASSUME Init PROVE IInv OBVIOUS
<1>1. TypeOK
  <2>1. 0 \in 0 .. TotalIters BY EpochUpdates, Constants DEF TotalIters
  <2>2. snaps \in [1 .. NEpochs -> File] BY FileTypes DEF Init
  <2> QED BY <2>1, <2>2, FileTypes, Constants DEF Init, TypeOK
<1>2. FilesTrue BY FileTypes DEF Init, FilesTrue
<1>3. ~ Running /\ pc \notin {"train", "save", "write"} BY DEF Init, Running
<1>4. last.state # "whole" /\ best.state # "whole" /\ recon.state # "whole"
      /\ served = Inf /\ servedRec = Inf
  BY FileTypes DEF Init
<1> QED BY <1>1, <1>2, <1>3, <1>4 DEF IInv, Phase, Schedule, VaeInv, DenoiserInv, RowsInv

(* Every way to start, from nothing or from a file, keeps the invariant if *)
(* the losses it starts with are ones the files stand for.                 *)
LEMMA StartInv ==
  ASSUME IInv, NEW e \in 0 .. NEpochs, NEW b \in Losses, NEW r \in Losses,
         Start(e, e, IF script = "denoiser" THEN e * Steps ELSE 0, b, r),
         script = "vae" /\ ~ operator => b <= served /\ r <= servedRec,
         script = "denoiser" /\ ~ operator =>
           Backed(b) /\ (last.state = "whole" => b <= last.val /\ last.epoch < e)
  PROVE  IInv'
<1> DEFINE g == IF script = "denoiser" THEN e * Steps ELSE 0
<1>1. e * Steps \in Nat /\ e * Steps <= TotalIters BY EpochUpdates
<1>2. g \in 0 .. TotalIters /\ g <= e * Steps
  BY <1>1, Constants, EpochUpdates DEF TotalIters
<1>3. /\ pc' \in {"train", "done"} /\ (pc' = "train" => e < NEpochs)
      /\ epoch' = e /\ step' = 0 /\ weights' = e /\ git' = g
      /\ lr' = LrFor(Higher(0, g - 1))
      /\ val' = Inf /\ rec' = Inf /\ bestVal' = b /\ bestRec' = r /\ todo' = << >>
      /\ script' = script /\ operator' = operator
      /\ last' = last /\ best' = best /\ recon' = recon /\ snaps' = snaps
      /\ crashes' = crashes /\ served' = served /\ servedRec' = servedRec
      /\ IF script = "denoiser" THEN born' = e /\ rows' = {} ELSE born' = born /\ rows' = rows
  BY Constants DEF Start, setup, files, history, metrics
<1> HIDE DEF g
<1>4. TypeOK'
  <2>1. pc' \in {"off", "train", "save", "write", "done"} /\ step' \in 0 .. Steps
        /\ epoch' \in 0 .. NEpochs /\ weights' \in 0 .. NEpochs
    BY <1>3, Constants
  <2>2. {val', rec', bestVal', bestRec', served', servedRec'} \subseteq Losses
    BY <1>3, Constants DEF IInv, TypeOK
  <2>3. born' \in 0 .. NEpochs /\ rows' \subseteq 0 .. (NEpochs - 1)
    BY <1>3 DEF IInv, TypeOK
  <2> QED BY <2>1, <2>2, <2>3, <1>2, <1>3 DEF IInv, TypeOK
<1>5. FilesTrue' BY <1>3 DEF IInv, FilesTrue
<1>6. Phase' BY <1>3 DEF Phase, Running
<1>7. Schedule'
  <2>1. SUFFICES ASSUME pc' = "train" PROVE Schedule' BY <1>3 DEF Schedule, Running
  <2>2. Updates' = e * Steps BY <2>1, <1>1, <1>3 DEF Updates
  <2>3. script = "denoiser" => g = e * Steps BY DEF g
  <2> QED BY <2>2, <2>3, <1>1, <1>2, <1>3 DEF Schedule
<1>8. VaeInv' BY <1>3 DEF IInv, VaeInv, Running
<1>9. DenoiserInv' BY <1>3 DEF IInv, DenoiserInv, Running, Backed
<1>10. RowsInv'
  <2>1. SUFFICES ASSUME script = "denoiser" PROVE RowsInv' BY <1>3 DEF RowsInv
  <2>2. ~ operator /\ last.state = "whole" => e .. last.epoch = {}
    BY <2>1, Types, FileFields, Constants DEF IInv
  <2>3. e .. (e - 1) = {} BY Constants
  <2> QED BY <2>1, <2>2, <2>3, <1>3 DEF RowsInv
<1> QED BY <1>4, <1>5, <1>6, <1>7, <1>8, <1>9, <1>10 DEF IInv

LEMMA FreshInv == ASSUME IInv, Fresh PROVE IInv'
<1>1. Start(0, 0, IF script = "denoiser" THEN 0 * Steps ELSE 0, Inf, Inf)
  BY Constants DEF Fresh
<1>2. last.state = "none" BY DEF Fresh
<1>3. script = "vae" /\ ~ operator => Inf <= served /\ Inf <= servedRec
  BY <1>2, Constants DEF IInv, VaeInv
<1>4. Backed(Inf) BY Constants DEF Backed
<1> QED BY <1>1, <1>2, <1>3, <1>4, Constants, StartInv

(* A whole file restarts the run at the epoch after its own.               *)
LEMMA ResumeFromInv ==
  ASSUME IInv, NEW f \in File, ResumeFrom(f), f.weights = f.epoch + 1,
         script = "vae" /\ ~ operator => f.val <= served /\ f.rec <= servedRec,
         script = "denoiser" /\ ~ operator => Backed(f.val) /\ last = f
  PROVE  IInv'
<1> DEFINE e == f.epoch + 1
<1>1. e \in 0 .. NEpochs /\ f.epoch < e
  <2>1. f.epoch \in 0 .. (NEpochs - 1) BY FileFields
  <2> QED BY <2>1, Constants
<1>2. f.val \in Losses /\ f.rec \in Losses /\ f.val <= f.val
  <2>1. f.val \in Losses /\ f.rec \in Losses BY FileFields
  <2>2. f.val \in Nat BY <2>1, Constants
  <2> QED BY <2>1, <2>2
<1>3. Start(e, e, IF script = "denoiser" THEN e * Steps ELSE 0, f.val, f.rec)
  BY DEF ResumeFrom
<1> HIDE DEF e
<1> QED BY <1>1, <1>2, <1>3, StartInv

LEMMA ResumeInv == ASSUME IInv, Resume PROVE IInv'
<1>1. last.state = "whole" BY DEF Resume, ResumeFrom
<1>2. last \in File /\ last.weights = last.epoch + 1 BY <1>1, Types DEF IInv, FilesTrue
<1>3. script = "vae" /\ ~ operator => last.val <= served /\ last.rec <= servedRec
  BY <1>1 DEF IInv, VaeInv
<1>4. script = "denoiser" /\ ~ operator => Backed(last.val)
  BY <1>1 DEF IInv, DenoiserInv
<1> QED BY <1>2, <1>3, <1>4, ResumeFromInv DEF Resume

LEMMA ResumeOtherInv == ASSUME IInv, ResumeOther PROVE IInv'
<1>1. operator BY DEF ResumeOther
<1>2. ASSUME NEW n \in 1 .. NEpochs, ResumeFrom(snaps[n]) PROVE IInv'
  <2>1. snaps[n] \in File BY Types DEF IInv
  <2>2. snaps[n].state = "whole" BY <1>2 DEF ResumeFrom
  <2>3. snaps[n].weights = snaps[n].epoch + 1 BY <2>2, Constants DEF IInv, FilesTrue
  <2> QED BY <1>1, <1>2, <2>1, <2>3, ResumeFromInv
<1>3. ASSUME ResumeFrom(best) PROVE IInv'
  <2>1. best \in File BY Types DEF IInv
  <2>2. best.weights = best.epoch + 1 BY <1>3 DEF ResumeFrom, IInv, FilesTrue
  <2> QED BY <1>1, <1>3, <2>1, <2>2, ResumeFromInv
<1> QED BY <1>2, <1>3 DEF ResumeOther

-----------------------------------------------------------------------------
(* The training loop.                                                      *)
LEMMA UpdateInv == ASSUME IInv, Update PROVE IInv'
<1>1. /\ pc = "train" /\ pc' = pc /\ step < Steps /\ step' = step + 1 /\ git' = git + 1
      /\ lr' = IF script = "denoiser" THEN LrFor(git) ELSE lr
      /\ UNCHANGED <<setup, pc, epoch, weights, val, rec, bestVal, bestRec, todo,
                     files, metrics, crashes, history>>
  BY DEF Update
<1>2. UNCHANGED <<script, operator, pc, epoch, weights, val, rec, bestVal, bestRec, todo,
                  last, best, recon, snaps, born, rows, crashes, served, servedRec>>
  BY <1>1 DEF setup, files, metrics, history
<1>3. /\ weights = epoch /\ epoch < NEpochs /\ epoch \in Nat /\ step \in Nat /\ git \in Nat
      /\ git <= Updates /\ (script = "denoiser" => git = Updates)
  BY <1>1, Constants DEF IInv, TypeOK, Phase, Schedule, Running, TotalIters
<1>4. weights * Steps \in Nat /\ (weights + 1) * Steps = weights * Steps + Steps
      /\ (weights + 1) * Steps <= TotalIters
  <2>1. weights \in Nat /\ weights + 1 \in Nat /\ weights + 1 <= NEpochs BY <1>3, Constants
  <2> QED BY <2>1, EpochUpdates
<1>5. Updates = weights * Steps + step /\ Updates' = weights * Steps + (step + 1)
  BY <1>1, <1>2 DEF Updates
<1>6. TypeOK'
  <2>1. git' \in 0 .. TotalIters /\ step' \in 0 .. Steps
    <3>1. TotalIters \in Nat BY Constants, EpochUpdates DEF TotalIters
    <3> QED BY <3>1, <1>1, <1>3, <1>4, <1>5, Constants
  <2> QED BY <2>1, <1>2 DEF IInv, TypeOK
<1>7. FilesTrue' BY <1>2 DEF IInv, FilesTrue
<1>8. Phase' BY <1>1, <1>2 DEF IInv, Phase, Running
<1>9. Schedule'
  <2>1. git' <= Updates' /\ (script = "denoiser" => git' = Updates')
    BY <1>1, <1>3, <1>4, <1>5
  <2>2. script = "denoiser" => Higher(0, Updates' - 1) = git
    BY <1>3, <1>4, <1>5 DEF Higher
  <2> QED BY <2>1, <2>2, <1>1, <1>2 DEF Schedule
<1>10. VaeInv' BY <1>1, <1>2 DEF IInv, VaeInv, Running
<1>11. DenoiserInv' BY <1>2 DEF IInv, DenoiserInv, Running, Backed
<1>12. RowsInv' BY <1>1, <1>2 DEF IInv, RowsInv, Running, ValDue
<1> QED BY <1>6, <1>7, <1>8, <1>9, <1>10, <1>11, <1>12 DEF IInv

LEMMA EndEpochInv == ASSUME IInv, EndEpoch PROVE IInv'
<1>1. /\ pc = "train" /\ pc' = "save" /\ step = Steps /\ weights' = weights + 1
      /\ todo' = Plan(epoch)
  BY DEF EndEpoch
<1>2. UNCHANGED <<script, operator, epoch, step, git, lr, bestVal, bestRec,
                  last, best, recon, snaps, born, rows, crashes, served, servedRec>>
  BY DEF EndEpoch, setup, files, metrics, history
<1>3. val' \in Losses /\ rec' \in Losses
  <2>1. PICK m \in Validation(epoch) : val' = m[1] /\ rec' = m[2] BY DEF EndEpoch
  <2>2. m \in Losses \X Losses
    BY Constants DEF Validation, DenoiserValidation, VaeValidation
  <2> QED BY <2>1, <2>2
<1>4. weights = epoch /\ epoch < NEpochs /\ epoch \in Nat
  BY <1>1, Constants DEF IInv, TypeOK, Phase, Running
<1>5. (weights + 1) * Steps = weights * Steps + Steps BY <1>4, EpochUpdates
<1>6. Updates' = Updates BY <1>1, <1>2, <1>5 DEF Updates
<1>7. TypeOK'
  <2>1. weights' \in 0 .. NEpochs BY <1>1, <1>4, Constants
  <2> QED BY <2>1, <1>1, <1>2, <1>3 DEF IInv, TypeOK
<1>8. FilesTrue' BY <1>2 DEF IInv, FilesTrue
<1>9. Phase' BY <1>1, <1>2, <1>4, PlanOf DEF IInv, Phase, Running
<1>10. Schedule' BY <1>1, <1>2, <1>6 DEF IInv, Schedule, Running
<1>11. VaeInv'
  <2>1. ~ Ahead("best")' /\ ~ Ahead("recon")' BY <1>1, PlanHead DEF Ahead
  <2> QED BY <2>1, <1>1, <1>2 DEF IInv, VaeInv, Running
<1>12. DenoiserInv' BY <1>1, <1>2 DEF IInv, DenoiserInv, Running, Backed
<1>13. RowsInv'
  <2>1. script = "denoiser" /\ ValDue(epoch) => Ahead("row")' BY <1>1, PlanHead DEF Ahead
  <2>2. \A e : ValDue(e)' <=> ValDue(e) BY <1>2 DEF ValDue
  <2> QED BY <2>1, <2>2, <1>1, <1>2 DEF IInv, RowsInv, Running
<1> QED BY <1>7, <1>8, <1>9, <1>10, <1>11, <1>12, <1>13 DEF IInv

-----------------------------------------------------------------------------
(* What a step of the writing does to the list of what is still to be      *)
(* written, in either script.                                              *)
LEMMA TodoSteps ==
  ASSUME IInv, pc \in {"save", "write"}, todo # << >>, todo' = Tail(todo),
         script' = script
  PROVE  /\ todo' \in IF script' = "denoiser" THEN DenoiserTodo ELSE VaeTodo
         /\ script = "denoiser" => ~ Ahead("row")'
         /\ script = "vae" => ~ Ahead("last")'
         /\ script = "vae" /\ Ahead("best")' => Ahead("last")
         /\ script = "vae" /\ Ahead("recon")' => Ahead("best")
<1>1. todo \in IF script = "denoiser" THEN DenoiserTodo ELSE VaeTodo BY DEF IInv, Phase
<1>2. CASE script = "denoiser"
  <2>1. todo \in DenoiserTodo BY <1>1, <1>2
  <2> QED BY <2>1, <1>2, DenoiserRest DEF Ahead
<1>3. CASE script # "denoiser"
  <2>1. todo \in VaeTodo BY <1>1, <1>3
  <2>2. /\ Head(todo) \in {"last", "best", "recon", "row", "snap"}
        /\ Head(todo) = "best" => Head(todo') = "recon"
        /\ Head(todo) = "last" => Head(todo') = "best"
        /\ Head(todo) \in {"recon", "row", "snap"} =>
             (todo' # << >> => Head(todo') \notin {"best", "recon"})
    BY <2>1, VaeRest
  <2>3. todo' \in VaeTodo /\ (todo' # << >> => Head(todo') # "last") BY <2>1, VaeRest
  <2> QED BY <2>2, <2>3, <1>3 DEF Ahead
<1> QED BY <1>2, <1>3

LEMMA SkipInv == ASSUME IInv, Skip PROVE IInv'
<1>1. /\ pc = "save" /\ pc' = "save" /\ todo # << >> /\ todo' = Tail(todo)
      /\ ~ Due(Head(todo))
  BY DEF Skip
<1>2. UNCHANGED <<script, operator, pc, epoch, step, weights, git, lr, val, rec, bestVal,
                  bestRec, last, best, recon, snaps, born, rows, crashes, served, servedRec>>
  BY DEF Skip, setup, files, metrics, history
<1>3. ~ Ahead("row")
  BY <1>1 DEF Ahead, Due
<1>4. script = "vae" => ~ Ahead("last")
  BY <1>1 DEF Ahead, Due, LastDue
<1>5. TypeOK' BY <1>2 DEF IInv, TypeOK
<1>6. FilesTrue' BY <1>2 DEF IInv, FilesTrue
<1>7. Phase'
  <2>1. todo' \in IF script' = "denoiser" THEN DenoiserTodo ELSE VaeTodo
    BY <1>1, <1>2, TodoSteps
  <2> QED BY <2>1, <1>1, <1>2 DEF IInv, Phase, Running
<1>8. Schedule' BY <1>2 DEF IInv, Schedule, Running, Updates
<1>9. VaeInv'
  <2>1. script = "vae" => ~ Ahead("best")' /\ (Ahead("recon")' => Ahead("best"))
    BY <1>1, <1>2, <1>4, TodoSteps
  <2> QED BY <2>1, <1>1, <1>2 DEF IInv, VaeInv, Running
<1>10. DenoiserInv' BY <1>2 DEF IInv, DenoiserInv, Running, Backed
<1>11. RowsInv'
  <2>1. \A e : ValDue(e)' <=> ValDue(e) BY <1>2 DEF ValDue
  <2> QED BY <2>1, <1>1, <1>2, <1>3 DEF IInv, RowsInv, Running
<1> QED BY <1>5, <1>6, <1>7, <1>8, <1>9, <1>10, <1>11 DEF IInv

LEMMA WriteRowInv == ASSUME IInv, WriteRow PROVE IInv'
<1>1. /\ pc = "save" /\ pc' = "save" /\ todo # << >> /\ todo' = Tail(todo)
      /\ Head(todo) = "row" /\ rows' = rows \cup {epoch}
  BY DEF WriteRow, Saving
<1>2. UNCHANGED <<script, operator, pc, epoch, step, weights, git, lr, val, rec, bestVal,
                  bestRec, last, best, recon, snaps, born, crashes, served, servedRec>>
  BY DEF WriteRow, setup, files, metrics, history
<1>3. TypeOK'
  <2>1. epoch \in 0 .. (NEpochs - 1)
    BY <1>1, Constants DEF IInv, TypeOK, Phase, Running
  <2>2. rows' \subseteq 0 .. (NEpochs - 1) BY <2>1, <1>1 DEF IInv, TypeOK
  <2> QED BY <2>2, <1>2 DEF IInv, TypeOK
<1>4. FilesTrue' BY <1>2 DEF IInv, FilesTrue
<1>5. Phase'
  <2>1. todo' \in IF script' = "denoiser" THEN DenoiserTodo ELSE VaeTodo
    BY <1>1, <1>2, TodoSteps
  <2> QED BY <2>1, <1>1, <1>2 DEF IInv, Phase, Running
<1>6. Schedule' BY <1>2 DEF IInv, Schedule, Running, Updates
<1>7. VaeInv'
  <2>1. ~ Ahead("last") /\ ~ Ahead("best") BY <1>1 DEF Ahead
  <2>2. script = "vae" => ~ Ahead("best")' /\ ~ Ahead("recon")'
    BY <2>1, <1>1, <1>2, TodoSteps
  <2> QED BY <2>2, <1>1, <1>2 DEF IInv, VaeInv, Running
<1>8. DenoiserInv' BY <1>2 DEF IInv, DenoiserInv, Running, Backed
<1>9. RowsInv'
  <2>1. \A e : ValDue(e)' <=> ValDue(e) BY <1>2 DEF ValDue
  <2> QED BY <2>1, <1>1, <1>2 DEF IInv, RowsInv, Running
<1> QED BY <1>3, <1>4, <1>5, <1>6, <1>7, <1>8, <1>9 DEF IInv

(* A save that is under way leaves a file no one can load.                 *)
LEMMA BeginSaveInv == ASSUME IInv, NEW f \in Saved, BeginSave(f) PROVE IInv'
<1>1. /\ pc = "save" /\ pc' = "write" /\ todo # << >> /\ Head(todo) = f
      /\ Due(f)
      /\ bestVal' = (IF f = "best" THEN val ELSE bestVal)
      /\ bestRec' = (IF f = "recon" THEN rec ELSE bestRec)
      /\ last' = (IF f = "last" THEN Torn ELSE last)
      /\ best' = (IF f = "best" THEN Torn ELSE best)
      /\ recon' = (IF f = "recon" THEN Torn ELSE recon)
      /\ snaps' = IF f = "snap" THEN [snaps EXCEPT ![epoch + 1] = Torn] ELSE snaps
  BY DEF BeginSave, Saving, Put
<1>2. UNCHANGED <<script, operator, epoch, step, weights, git, lr, val, rec, todo, born, rows,
                  crashes, served, servedRec>>
  BY DEF BeginSave, setup, metrics, history
<1>3. (f = "best" => val < bestVal) /\ (f = "recon" => rec < bestRec) BY <1>1 DEF Due
<1>4. \A g : Ahead(g)' <=> Ahead(g) BY <1>2 DEF Ahead
<1>5. \A g : Ahead(g) <=> g = f BY <1>1 DEF Ahead
<1>6. TypeOK'
  <2>1. last' \in File /\ best' \in File /\ recon' \in File
        /\ snaps' \in [1 .. NEpochs -> File]
    BY <1>1, FileTypes, Types DEF IInv
  <2>2. bestVal' \in Losses /\ bestRec' \in Losses BY <1>1, Types DEF IInv
  <2> QED BY <2>1, <2>2, <1>1, <1>2 DEF IInv, TypeOK
<1>7. FilesTrue'
  <2>1. \A n \in 1 .. NEpochs : snaps'[n] = snaps[n] \/ snaps'[n] = Torn
    BY <1>1, Types DEF IInv
  <2>2. \A g \in {last', best', recon'} : g \in {last, best, recon} \/ g = Torn BY <1>1
  <2> QED BY <2>1, <2>2, FileTypes DEF IInv, FilesTrue
<1>8. Phase' BY <1>1, <1>2, <1>4, <1>5 DEF IInv, Phase, Running
<1>9. Schedule' BY <1>1, <1>2 DEF IInv, Schedule, Running, Updates
<1>10. VaeInv'
  <2>1. SUFFICES ASSUME script = "vae", ~ operator PROVE VaeInv' BY <1>2 DEF VaeInv
  <2>2. bestVal' <= served /\ bestRec' <= servedRec
    <3>1. bestVal <= served /\ bestRec <= servedRec
      BY <2>1, <1>1 DEF IInv, VaeInv, Running
    <3> QED BY <3>1, <1>1, <1>3, LossesAreNumbers DEF IInv
  <2>3. /\ last'.state = "whole" => last' = last
        /\ last'.state = "none" => last' = last
        /\ best'.state = "whole" => best' = best
        /\ recon'.state = "whole" => recon' = recon
    BY <1>1, FileTypes
  <2>4. Ahead("best") \/ Ahead("recon") => last' = last BY <1>1, <1>5
  <2> QED BY <2>1, <2>2, <2>3, <2>4, <1>1, <1>2, <1>4 DEF IInv, VaeInv, Running
<1>11. DenoiserInv'
  <2>1. SUFFICES ASSUME script = "denoiser", ~ operator PROVE DenoiserInv'
    BY <1>2 DEF DenoiserInv
  <2>2. last'.state = "whole" => last' = last BY <1>1, FileTypes
  <2>3. CASE f = "best"
    <3>1. best'.state = "torn" /\ last' = last /\ bestVal' = val BY <2>3, <1>1, FileTypes
    <3>2. last.state = "whole" => val <= last.val
      <4>1. last.state = "whole" => bestVal <= last.val
        BY <2>1, <1>1 DEF IInv, DenoiserInv, Running
      <4> QED BY <4>1, <2>3, <1>3, LossesAreNumbers DEF IInv
    <3> QED BY <3>1, <3>2 DEF DenoiserInv, Backed
  <2>4. CASE f # "best"
    <3>1. best' = best /\ bestVal' = bestVal BY <2>4, <1>1
    <3> QED BY <2>1, <2>2, <3>1, <1>1 DEF IInv, DenoiserInv, Backed, Running
  <2> QED BY <2>3, <2>4
<1>12. RowsInv'
  <2>1. \A e : ValDue(e)' <=> ValDue(e) BY <1>2 DEF ValDue
  <2>2. last'.state = "whole" => last' = last BY <1>1, FileTypes
  <2> QED BY <2>1, <2>2, <1>1, <1>2, <1>4 DEF IInv, RowsInv, Running
<1> QED BY <1>6, <1>7, <1>8, <1>9, <1>10, <1>11, <1>12 DEF IInv

LEMMA EndSaveInv == ASSUME IInv, NEW f \in Saved, EndSave(f) PROVE IInv'
<1> DEFINE c == Content(f)
<1>1. /\ pc = "write" /\ pc' = "save" /\ Head(todo) = f /\ todo' = Tail(todo)
      /\ last' = (IF f = "last" THEN c ELSE last)
      /\ best' = (IF f = "best" THEN c ELSE best)
      /\ recon' = (IF f = "recon" THEN c ELSE recon)
      /\ snaps' = (IF f = "snap" THEN [snaps EXCEPT ![epoch + 1] = c] ELSE snaps)
      /\ served' = (IF f = "best" THEN Lower(served, val) ELSE served)
      /\ servedRec' = IF f = "recon" THEN Lower(servedRec, rec) ELSE servedRec
  BY DEF EndSave, Put
<1>2. UNCHANGED <<script, operator, epoch, step, weights, git, lr, val, rec, bestVal, bestRec,
                  born, rows, crashes>>
  BY DEF EndSave, setup, metrics
<1>3. epoch < NEpochs /\ epoch \in Nat /\ weights = epoch + 1
  BY <1>1, Constants DEF IInv, TypeOK, Phase, Running
<1>4. /\ c \in File /\ c.state = "whole" /\ c.epoch = epoch /\ c.weights = epoch + 1
      /\ f = "best" => c.val = val
      /\ f = "recon" => c.rec = rec
      /\ script = "vae" /\ f = "last" =>
           c.val = Lower(bestVal, val) /\ c.rec = Lower(bestRec, rec)
      /\ script # "vae" /\ f = "last" => c.val = bestVal
  BY <1>3, ContentFields DEF IInv
<1> HIDE DEF c
<1>5. todo # << >> /\ Ahead(f) /\ (\A g : Ahead(g) <=> g = f)
  BY <1>1 DEF IInv, Phase, Ahead
<1>6. \A x \in Losses, y \in Losses : Lower(x, y) \in Losses /\ Lower(x, y) <= x /\ Lower(x, y) <= y
  BY LowerLoss
<1>7. TypeOK'
  <2>1. last' \in File /\ best' \in File /\ recon' \in File
        /\ snaps' \in [1 .. NEpochs -> File]
    BY <1>1, <1>4, Types DEF IInv
  <2>2. served' \in Losses /\ servedRec' \in Losses BY <1>1, <1>6, Types DEF IInv
  <2> QED BY <2>1, <2>2, <1>1, <1>2 DEF IInv, TypeOK
<1>8. FilesTrue'
  <2>1. \A n \in 1 .. NEpochs : snaps'[n] = snaps[n] \/ (n = epoch + 1 /\ snaps'[n] = c)
    BY <1>1, Types DEF IInv
  <2>2. \A g \in {last', best', recon'} : g \in {last, best, recon} \/ g = c BY <1>1
  <2> QED BY <2>1, <2>2, <1>4, <1>3 DEF IInv, FilesTrue
<1>9. Phase'
  <2>1. todo' \in IF script' = "denoiser" THEN DenoiserTodo ELSE VaeTodo
    BY <1>1, <1>2, <1>5, TodoSteps
  <2> QED BY <2>1, <1>1, <1>2, <1>3 DEF Phase, Running
<1>10. Schedule' BY <1>1, <1>2 DEF IInv, Schedule, Running, Updates
<1>11. VaeInv'
  <2>1. SUFFICES ASSUME script = "vae", ~ operator PROVE VaeInv' BY <1>2 DEF VaeInv
  <2>2. bestVal <= served /\ bestRec <= servedRec BY <2>1, <1>1 DEF IInv, VaeInv, Running
  <2>3. /\ Ahead("best")' => f = "last"
        /\ Ahead("recon")' => f = "best"
    BY <2>1, <1>1, <1>2, <1>5, TodoSteps
  <2>4. CASE f = "last"
    <3>1. UNCHANGED <<best, recon, served, servedRec>> /\ last' = c BY <2>4, <1>1
    <3>2. /\ c.val <= bestVal /\ c.val <= val /\ c.rec <= bestRec /\ c.rec <= rec
          /\ c.val \in Nat /\ c.rec \in Nat
      BY <2>1, <2>4, <1>4, Types, LowerLoss DEF IInv
    <3>3. c.val <= served /\ c.rec <= servedRec
      BY <3>2, <2>2, LossesAreNumbers DEF IInv
    <3> QED BY <3>1, <3>2, <3>3, <2>1, <2>2, <1>1, <1>2, <1>4 DEF IInv, VaeInv, Running
  <2>5. CASE f = "best"
    <3>1. UNCHANGED <<last, recon, servedRec>> /\ best' = c /\ served' = Lower(served, val)
      BY <2>5, <1>1
    <3>2. bestVal = val /\ last.val <= val /\ last.rec <= rec /\ last.state = "whole"
      BY <2>1, <2>5, <1>1, <1>5 DEF IInv, Phase, VaeInv
    <3>3. served' = val /\ bestVal <= served' /\ last.val <= served' /\ best'.val = served'
      BY <3>1, <3>2, <2>2, <2>5, <1>4, LossesAreNumbers DEF IInv, Lower
    <3> QED BY <3>1, <3>2, <3>3, <2>1, <2>2, <1>1, <1>2 DEF IInv, VaeInv, Running
  <2>6. CASE f = "recon"
    <3>1. UNCHANGED <<last, best, served>> /\ recon' = c /\ servedRec' = Lower(servedRec, rec)
      BY <2>6, <1>1
    <3>2. bestRec = rec /\ last.val <= val /\ last.rec <= rec /\ last.state = "whole"
      BY <2>1, <2>6, <1>1, <1>5 DEF IInv, Phase, VaeInv
    <3>3. /\ servedRec' = rec /\ bestRec <= servedRec' /\ last.rec <= servedRec'
          /\ recon'.rec = servedRec'
      BY <3>1, <3>2, <2>2, <2>6, <1>4, LossesAreNumbers DEF IInv, Lower
    <3> QED BY <3>1, <3>2, <3>3, <2>1, <2>2, <2>3, <2>6, <1>1, <1>2 DEF IInv, VaeInv, Running
  <2>7. CASE f = "snap"
    <3>1. UNCHANGED <<last, best, recon, served, servedRec>> BY <2>7, <1>1
    <3> QED BY <3>1, <2>1, <2>2, <2>3, <2>7, <1>1, <1>2 DEF IInv, VaeInv, Running
  <2> QED BY <2>4, <2>5, <2>6, <2>7 DEF Saved
<1>12. DenoiserInv'
  <2>1. SUFFICES ASSUME script = "denoiser", ~ operator PROVE DenoiserInv'
    BY <1>2 DEF DenoiserInv
  <2>2. /\ Backed(bestVal) /\ (last.state = "whole" => Backed(last.val) /\ bestVal <= last.val)
        /\ (f = "best" => bestVal = val)
    BY <2>1, <1>1, <1>5 DEF IInv, DenoiserInv, Running, Phase
  <2>3. CASE f = "best"
    <3>1. best'.state = "whole" /\ best'.val = val /\ last' = last BY <2>3, <1>1, <1>4
    <3>2. bestVal = val /\ bestVal \in Nat /\ val <= bestVal BY <2>2, <2>3, LossesAreNumbers DEF IInv
    <3> QED BY <3>1, <3>2, <2>2, <1>2 DEF DenoiserInv, Backed
  <2>4. CASE f = "last"
    <3>1. last'.val = bestVal /\ best' = best BY <2>1, <2>4, <1>1, <1>4
    <3>2. bestVal <= bestVal BY LossesAreNumbers DEF IInv
    <3> QED BY <3>1, <3>2, <2>2, <1>2 DEF DenoiserInv, Backed
  <2>5. CASE f \notin {"best", "last"}
    <3>1. last' = last /\ best' = best BY <2>5, <1>1
    <3> QED BY <3>1, <2>2, <1>2 DEF DenoiserInv, Backed
  <2> QED BY <2>3, <2>4, <2>5
<1>13. RowsInv'
  <2>1. \A e : ValDue(e)' <=> ValDue(e) BY <1>2 DEF ValDue
  <2>2. f # "row" BY DEF Saved
  <2>3. SUFFICES ASSUME script = "denoiser" PROVE RowsInv' BY <1>2 DEF RowsInv
  <2>4. /\ \A e \in born .. (epoch - 1) : ValDue(e) => e \in rows
        /\ ValDue(epoch) => epoch \in rows
    BY <2>2, <2>3, <1>1, <1>5 DEF IInv, RowsInv, Running
  <2>5. \A e \in born .. epoch : ValDue(e) => e \in rows
    <3>1. born \in Nat BY Constants DEF IInv, TypeOK
    <3> QED BY <3>1, <2>4, <1>3
  <2>6. last' = last \/ last'.epoch = epoch BY <1>1, <1>4
  <2> QED BY <2>1, <2>3, <2>4, <2>5, <2>6, <1>1, <1>2 DEF IInv, RowsInv, Running
<1> QED BY <1>7, <1>8, <1>9, <1>10, <1>11, <1>12, <1>13 DEF IInv

-----------------------------------------------------------------------------
(* The end of an epoch, and of a process.                                  *)
LEMMA NextEpochInv == ASSUME IInv, NextEpoch PROVE IInv'
<1>1. pc = "save" /\ todo = << >> /\ (pc' = "train" \/ pc' = "done") BY DEF NextEpoch
<1>2. UNCHANGED <<script, operator, weights, git, lr, val, rec, bestVal, bestRec, todo, last,
                  best, recon, snaps, born, rows, crashes, served, servedRec>>
  BY DEF NextEpoch, setup, files, metrics, history
<1>3. epoch < NEpochs /\ epoch \in Nat /\ weights = epoch + 1 /\ NEpochs \in Nat
  BY <1>1, Constants DEF IInv, TypeOK, Phase, Running
<1>4. \/ pc' = "done" /\ epoch' = epoch /\ step' = step
      \/ pc' = "train" /\ epoch' = epoch + 1 /\ step' = 0 /\ epoch + 1 < NEpochs
  BY <1>3 DEF NextEpoch, FinalEpoch
<1>5. TypeOK'
  <2>1. epoch' \in 0 .. NEpochs /\ step' \in 0 .. Steps
    BY <1>3, <1>4, Constants DEF IInv, TypeOK
  <2> QED BY <2>1, <1>1, <1>2 DEF IInv, TypeOK
<1>6. FilesTrue' BY <1>2 DEF IInv, FilesTrue
<1>7. Phase' BY <1>2, <1>3, <1>4 DEF Phase, Running
<1>8. Schedule'
  <2>1. pc' = "train" => Updates' = Updates
    <3>1. weights * Steps \in Nat BY <1>3, EpochUpdates
    <3> QED BY <3>1, <1>1, <1>2, <1>4 DEF Updates
  <2> QED BY <2>1, <1>1, <1>2 DEF IInv, Schedule, Running
<1>9. VaeInv' BY <1>1, <1>2 DEF IInv, VaeInv, Running
<1>10. DenoiserInv' BY <1>1, <1>2 DEF IInv, DenoiserInv, Running, Backed
<1>11. RowsInv'
  <2>1. \A e : ValDue(e)' <=> ValDue(e) BY <1>2 DEF ValDue
  <2>2. SUFFICES ASSUME script = "denoiser" PROVE RowsInv' BY <1>2 DEF RowsInv
  <2>3. /\ \A e \in born .. (epoch - 1) : ValDue(e) => e \in rows
        /\ ValDue(epoch) => epoch \in rows
    BY <2>2, <1>1 DEF IInv, RowsInv, Running, Ahead
  <2>4. \A e \in born .. epoch : ValDue(e) => e \in rows
    <3>1. born \in Nat BY Constants DEF IInv, TypeOK
    <3> QED BY <3>1, <2>3, <1>3
  <2>5. pc' = "train" => epoch' - 1 = epoch BY <1>3, <1>4
  <2> QED BY <2>1, <2>2, <2>4, <2>5, <1>1, <1>2 DEF IInv, RowsInv, Running
<1> QED BY <1>5, <1>6, <1>7, <1>8, <1>9, <1>10, <1>11 DEF IInv

LEMMA CrashInv == ASSUME IInv, Crash PROVE IInv'
<1>1. /\ pc' = "off" /\ epoch' = 0 /\ step' = 0 /\ weights' = 0 /\ git' = 0
      /\ val' = Inf /\ rec' = Inf /\ bestVal' = Inf /\ bestRec' = Inf
      /\ crashes < MaxCrashes /\ crashes' = crashes + 1
  BY DEF Crash
<1>2. UNCHANGED <<script, operator, last, best, recon, snaps, born, rows, served, servedRec>>
  BY DEF Crash, setup, files, metrics, history
<1>3. TypeOK'
  <2>1. 0 \in 0 .. TotalIters /\ 0 \in 0 .. NEpochs /\ 0 \in 0 .. Steps
    BY EpochUpdates, Constants DEF TotalIters
  <2>2. crashes' \in 0 .. MaxCrashes BY <1>1, Constants DEF IInv, TypeOK
  <2>3. {val', rec', bestVal', bestRec', served', servedRec'} \subseteq Losses
    BY <1>1, <1>2, Constants DEF IInv, TypeOK
  <2> QED BY <2>1, <2>2, <2>3, <1>1, <1>2 DEF IInv, TypeOK
<1>4. FilesTrue' BY <1>2 DEF IInv, FilesTrue
<1>5. Phase' /\ Schedule' BY <1>1 DEF Phase, Schedule, Running
<1>6. VaeInv' BY <1>1, <1>2 DEF IInv, VaeInv, Running
<1>7. DenoiserInv' BY <1>1, <1>2 DEF IInv, DenoiserInv, Running, Backed
<1>8. RowsInv' BY <1>1, <1>2 DEF IInv, RowsInv, Running, ValDue
<1> QED BY <1>3, <1>4, <1>5, <1>6, <1>7, <1>8 DEF IInv

LEMMA InvNext == ASSUME IInv, [Next]_vars PROVE IInv'
<1>1. CASE UNCHANGED vars
  BY <1>1 DEF vars, setup, process, files, metrics, history, IInv, TypeOK, FilesTrue, Phase,
     Schedule, VaeInv, DenoiserInv, RowsInv, Running, Updates, Ahead, Backed, ValDue
<1>2. CASE Fresh BY <1>2, FreshInv
<1>3. CASE Resume BY <1>3, ResumeInv
<1>4. CASE ResumeOther BY <1>4, ResumeOtherInv
<1>5. CASE ResumeRefused BY <1>5, <1>1 DEF ResumeRefused
<1>6. CASE Train
  BY <1>6, UpdateInv, EndEpochInv, SkipInv, WriteRowInv, NextEpochInv, BeginSaveInv, EndSaveInv
     DEF Train
<1>7. CASE Crash BY <1>7, CrashInv
<1> QED BY <1>1, <1>2, <1>3, <1>4, <1>5, <1>6, <1>7 DEF Next

-----------------------------------------------------------------------------
(* After the last update of the last epoch the cosine has come down.       *)
LEMMA Floor == ASSUME IInv PROVE ReachesFloor
<1> SUFFICES ASSUME script = "denoiser", Warmup < TotalIters - 1, pc = "save", FinalEpoch(epoch)
             PROVE  lr.down = lr.of
  BY DEF ReachesFloor
<1>1. weights = NEpochs
  BY Constants DEF IInv, Phase, FinalEpoch
<1>2. Updates = TotalIters BY <1>1 DEF Updates, TotalIters
<1>3. TotalIters \in Nat /\ Warmup \in Nat BY EpochUpdates, Constants DEF TotalIters
<1>4. Higher(0, TotalIters - 1) = TotalIters - 1 BY <1>3 DEF Higher
<1>5. lr = LrFor(TotalIters - 1) BY <1>2, <1>4 DEF IInv, Schedule, Running
<1>6. Descent = TotalIters - 1 - Warmup BY <1>3 DEF Descent, Higher
<1>7. ~ (TotalIters - 1 < Warmup) BY <1>3
<1>8. Lower(Descent, TotalIters - 1 - Warmup) = Descent BY <1>6 DEF Lower
<1> QED BY <1>5, <1>7, <1>8 DEF LrFor

(* For any schedules, any losses and any number of crashes, at any place   *)
(* in the writing of the files: the two latent scripts resume faithfully.  *)
(* Their files hold what they claim, the VAE puts no worse model over a    *)
(* better one, the loss that the denoiser's last_model.pt claims is that   *)
(* of a model written, its learning rate goes on as if nothing had         *)
(* happened and ends at the floor, and its metrics cover every validation  *)
(* its checkpoint counts.  It does not say that the best model is kept.    *)
THEOREM ResumesFaithfullyCorrect == Spec => []ResumesFaithfully
<1>1. Init => IInv BY InvInit
<1>2. IInv /\ [Next]_vars => IInv' BY InvNext
<1>3. IInv => ResumesFaithfully
  <2> SUFFICES ASSUME IInv PROVE ResumesFaithfully OBVIOUS
  <2>1. TypeOK /\ FilesTrue BY DEF IInv
  <2>2. VaeBestNeverWorsens BY DEF IInv, VaeInv, VaeBestNeverWorsens
  <2>3. DenoiserClaimBacked BY DEF IInv, DenoiserInv, Backed, DenoiserClaimBacked
  <2>4. SeamlessSchedule BY DEF IInv, Schedule, Updates, SeamlessSchedule
  <2>5. MetricsCover BY DEF IInv, RowsInv, MetricsCover
  <2> QED BY <2>1, <2>2, <2>3, <2>4, <2>5, Floor DEF ResumesFaithfully
<1> QED BY <1>1, <1>2, <1>3, PTL DEF Spec
=============================================================================
