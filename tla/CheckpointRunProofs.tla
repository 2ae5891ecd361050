------------------------- MODULE CheckpointRunProofs -------------------------
(***************************************************************************)
(* Proofs about CheckpointRun for every number of epochs, every save and   *)
(* snapshot schedule, every set of losses and any number of crashes.       *)
(***************************************************************************)
EXTENDS CheckpointRun, Integers, FiniteSetTheorems, TLAPS

Running == pc \notin {"off", "done"}
Ready   == {"last", "writeLast", "best", "writeBest", "snap", "writeSnap"}
Copied  == {"best", "writeBest", "snap", "writeSnap"}

(* Where the main rank is in an epoch fixes what the weights and the       *)
(* checkpoint dict stand for.                                              *)
Phase ==
  /\ Running => epoch < NEpochs
  /\ pc = "train" => weights = epoch
  /\ Running /\ pc # "train" => weights = epoch + 1
  /\ pc \in Ready => /\ ckpt.state = "whole"
                     /\ ckpt.epoch = epoch
                     /\ ckpt.weights = epoch + 1
  /\ pc \in Copied => last = ckpt

IInv == TypeOK /\ Phase /\ FilesConsistent

-----------------------------------------------------------------------------
(* A save schedule that misses an epoch has moved one step inside its      *)
(* period.                                                                 *)
LEMMA NoMultipleBetween ==
  ASSUME NEW S \in Nat \ {0}, NEW k \in Int, S * k < S, - S < S * k
  PROVE  k = 0
<1>1. CASE k >= 1
  <2>1. S * k >= S * 1 BY <1>1, SMTT(20)
  <2> QED BY <2>1
<1>2. CASE k <= -1
  <2>1. S * k <= S * (-1) BY <1>2, SMTT(20)
  <2> QED BY <2>1
<1> QED BY <1>1, <1>2

LEMMA ModStep ==
  ASSUME NEW S \in Nat \ {0}, NEW e \in Nat, (e + 1) % S # 0
  PROVE  (e + 1) % S = (e % S) + 1
<1> DEFINE q == e \div S
           r == e % S
           p == (e + 1) \div S
           t == (e + 1) % S
<1>1. /\ q \in Int /\ r \in 0 .. (S - 1) /\ e = S * q + r
      /\ p \in Int /\ t \in 0 .. (S - 1) /\ e + 1 = S * p + t
  BY SMTT(20)
<1>2. S * (p - q) = r + 1 - t
  <2>1. S * (p - q) = S * p - S * q BY <1>1, SMTT(20)
  <2> QED BY <1>1, <2>1
<1>3. t # 0 OBVIOUS
<1> HIDE DEF q, r, p, t
<1>4. S * (p - q) < S /\ - S < S * (p - q) BY <1>1, <1>2, <1>3
<1>5. p - q = 0 BY <1>1, <1>4, NoMultipleBetween
<1>6. S * (p - q) = 0 BY <1>5, <1>1
<1>7. t = r + 1 BY <1>1, <1>2, <1>6
<1> QED BY <1>7 DEF t, r

(* NoFile and Torn are files, and so is what validation builds.            *)
LEMMA Files ==
  /\ NoFile \in File /\ NoFile.state = "none"
  /\ Torn \in File /\ Torn.state = "torn"
<1>1. Inf \in Losses BY DEF Losses
<1> QED BY <1>1, RunAssumption DEF NoFile, Torn, File

LEMMA LossBound == \A a \in Losses : a \in Nat /\ a <= Inf
BY RunAssumption DEF Losses

LEMMA LowerLoss ==
  ASSUME NEW a \in Losses, NEW b \in Losses
  PROVE  /\ Lower(a, b) \in Losses
         /\ Lower(a, b) <= a /\ Lower(a, b) <= b
         /\ Lower(a, b) \in Nat /\ a \in Nat /\ b \in Nat
BY RunAssumption DEF Lower, Losses

-----------------------------------------------------------------------------
(* The step common to fresh launches and resumes.                          *)
LEMMA StartKeeps ==
  ASSUME IInv, NEW e \in 0 .. NEpochs, NEW b \in Losses, Start(e, e, b)
  PROVE  IInv'
<1>1. TypeOK'
  BY Files, RunAssumption DEF IInv, TypeOK, Start, files, setup
<1>2. Phase'
  BY RunAssumption DEF Phase, Running, Ready, Copied, Start
<1>3. FilesConsistent'
  BY DEF IInv, FilesConsistent, Start, files
<1> QED BY <1>1, <1>2, <1>3 DEF IInv

(* How a run was set up stays as it was.                                   *)
LEMMA SetupStays == [Next]_vars => UNCHANGED setup
BY DEF Next, vars, setup, Fresh, Resume, ResumeSnap, ResumeFrom, ResumeRefused, Start,
       Train, RunEpoch, BeginLast, EndLast, KeepBest, BeginBest, EndBest, BeginSnap,
       EndSnap, NoSnap, NextEpoch, Crash

LEMMA InvNext == IInv /\ [Next]_vars => IInv'
<1> SUFFICES ASSUME IInv, [Next]_vars PROVE IInv' OBVIOUS
<1> USE RunAssumption DEF setup
<1>1. CASE Fresh
  <2>1. Inf \in Losses BY DEF Losses
  <2> QED BY <1>1, <2>1, StartKeeps DEF Fresh
<1>2. ASSUME NEW f \in File, ResumeFrom(f), f.state = "whole" => f.weights = f.epoch + 1
      PROVE  IInv'
  <2>1. f.epoch + 1 \in 0 .. NEpochs /\ f.best \in Losses /\ f.weights = f.epoch + 1
    BY <1>2 DEF ResumeFrom, File
  <2> QED BY <1>2, <2>1, StartKeeps DEF ResumeFrom
<1>3. CASE Resume
  BY <1>2, <1>3 DEF Resume, IInv, TypeOK, FilesConsistent
<1>4. ASSUME NEW n \in 1 .. NEpochs, ResumeSnap(n) PROVE IInv'
  <2>1. snaps[n] \in File BY DEF IInv, TypeOK
  <2>2. snaps[n].state = "whole" => snaps[n].weights = snaps[n].epoch + 1
    BY <2>1 DEF IInv, FilesConsistent
  <2> QED BY <1>2, <1>4, <2>1, <2>2 DEF ResumeSnap
<1>5. CASE ResumeRefused \/ UNCHANGED vars
  BY <1>5 DEF ResumeRefused, vars, setup, process, files, IInv, TypeOK, Phase, Running,
              Ready, Copied, FilesConsistent
<1>6. CASE RunEpoch
  <2> USE DEF RunEpoch, files
  <2>1. weights \in 0 .. (NEpochs - 1) /\ epoch \in 0 .. (NEpochs - 1) /\ weights = epoch
    BY <1>6 DEF IInv, TypeOK, Phase, Running
  <2>2. \A v \in Losses : Lower(bestVal, v) \in Losses
    BY LowerLoss DEF IInv, TypeOK
  <2>3. ckpt' \in File BY SMTT(30), <1>6, <2>1, <2>2 DEF IInv, TypeOK, File
  <2>4. TypeOK' BY <1>6, <2>1, <2>3 DEF IInv, TypeOK
  <2>5. Phase' BY <1>6, <2>1 DEF Phase, Running, Ready, Copied
  <2>6. FilesConsistent' BY <1>6 DEF IInv, FilesConsistent
  <2> QED BY <2>4, <2>5, <2>6 DEF IInv
<1>7. CASE BeginLast
  <2> USE <1>7 DEF BeginLast
  <2>1. TypeOK' BY Files DEF IInv, TypeOK
  <2>2. Phase' BY DEF IInv, Phase, Running, Ready, Copied
  <2>3. FilesConsistent' BY Files DEF IInv, FilesConsistent
  <2> QED BY <2>1, <2>2, <2>3 DEF IInv
<1>8. CASE EndLast
  <2> USE <1>8 DEF EndLast
  <2>1. TypeOK' BY DEF IInv, TypeOK
  <2>2. Phase' BY DEF IInv, Phase, Running, Ready, Copied
  <2>3. FilesConsistent' BY DEF IInv, FilesConsistent, Phase, Ready
  <2> QED BY <2>1, <2>2, <2>3 DEF IInv
<1>9. CASE KeepBest
  <2> USE <1>9 DEF KeepBest, files
  <2>1. TypeOK' BY DEF IInv, TypeOK
  <2>2. Phase' BY DEF IInv, Phase, Running, Ready, Copied
  <2>3. FilesConsistent' BY DEF IInv, FilesConsistent
  <2> QED BY <2>1, <2>2, <2>3 DEF IInv
<1>10. CASE BeginBest
  <2> USE <1>10 DEF BeginBest
  <2>1. TypeOK' BY Files DEF IInv, TypeOK, File
  <2>2. Phase' BY DEF IInv, Phase, Running, Ready, Copied
  <2>3. FilesConsistent' BY Files DEF IInv, FilesConsistent
  <2> QED BY <2>1, <2>2, <2>3 DEF IInv
<1>11. CASE EndBest
  <2> USE <1>11 DEF EndBest
  <2>1. pc \in Ready BY DEF Ready
  <2>2. ckpt.val \in Losses BY DEF IInv, TypeOK, File
  <2>3. TypeOK' BY <2>2, LowerLoss DEF IInv, TypeOK
  <2>4. Phase' BY DEF IInv, Phase, Running, Ready, Copied
  <2>5. FilesConsistent' BY <2>1 DEF IInv, FilesConsistent, Phase
  <2> QED BY <2>3, <2>4, <2>5 DEF IInv
<1>12. CASE BeginSnap
  <2> USE <1>12 DEF BeginSnap
  <2>1. TypeOK' BY Files DEF IInv, TypeOK
  <2>2. Phase' BY DEF IInv, Phase, Running, Ready, Copied
  <2>3. FilesConsistent' BY Files DEF IInv, TypeOK, FilesConsistent
  <2> QED BY <2>1, <2>2, <2>3 DEF IInv
<1>13. CASE EndSnap
  <2> USE <1>13 DEF EndSnap
  <2>1. TypeOK' BY DEF IInv, TypeOK
  <2>2. Phase' BY DEF IInv, Phase, Running, Ready, Copied
  <2>3. last.epoch = epoch /\ last.weights = epoch + 1
    BY DEF IInv, Phase, Ready, Copied
  <2>4. FilesConsistent' BY <2>3 DEF IInv, TypeOK, FilesConsistent
  <2> QED BY <2>1, <2>2, <2>4 DEF IInv
<1>14. CASE NoSnap
  <2> USE <1>14 DEF NoSnap, files
  <2>1. TypeOK' BY DEF IInv, TypeOK
  <2>2. Phase' BY DEF IInv, Phase, Running, Ready, Copied
  <2>3. FilesConsistent' BY DEF IInv, FilesConsistent
  <2> QED BY <2>1, <2>2, <2>3 DEF IInv
<1>15. CASE NextEpoch
  <2> USE <1>15 DEF NextEpoch, files
  <2>1. TypeOK' BY DEF IInv, TypeOK
  <2>2. Phase' BY DEF IInv, TypeOK, Phase, Running, Ready, Copied
  <2>3. FilesConsistent' BY DEF IInv, FilesConsistent
  <2> QED BY <2>1, <2>2, <2>3 DEF IInv
<1>16. CASE Crash
  <2> USE <1>16 DEF Crash, files
  <2>1. Inf \in Losses BY DEF Losses
  <2>2. TypeOK' BY <2>1, Files DEF IInv, TypeOK
  <2>3. Phase' BY DEF Phase, Running, Ready, Copied
  <2>4. FilesConsistent' BY DEF IInv, FilesConsistent
  <2> QED BY <2>2, <2>3, <2>4 DEF IInv
<1> QED
  BY <1>1, <1>3, <1>4, <1>5, <1>6, <1>7, <1>8, <1>9, <1>10, <1>11, <1>12, <1>13,
     <1>14, <1>15, <1>16 DEF Next, Train

LEMMA InvInit == Init => IInv
<1> SUFFICES ASSUME Init PROVE IInv OBVIOUS
<1>1. Inf \in Losses BY DEF Losses
<1>2. TypeOK BY <1>1, Files, RunAssumption DEF Init, TypeOK
<1>3. Phase BY DEF Init, Phase, Running, Ready, Copied
<1>4. FilesConsistent BY Files DEF Init, FilesConsistent
<1> QED BY <1>2, <1>3, <1>4 DEF IInv

LEMMA Invariant == Spec => []IInv
BY InvInit, InvNext, PTL DEF Spec

(* Types are kept by the process and on disk, for any number of crashes    *)
(* (train_graph_vqvae.py and train_graph_codeflow.py).                     *)
THEOREM TypeCorrect == Spec => []TypeOK
BY Invariant, PTL DEF IInv

(* A loadable file never claims more or fewer epochs than were trained     *)
(* into its weights, whatever crashes and resumes came before.             *)
THEOREM FilesConsistentCorrect == Spec => []FilesConsistent
BY Invariant, PTL DEF IInv

-----------------------------------------------------------------------------
(* best_model.pt.  The value resumed from last_model.pt is never above the *)
(* best one served, because the dict is saved with this epoch's loss       *)
(* already folded into its historical best.                                *)
BestInv ==
  /\ best.state = "whole" => best.val = served
  /\ last.state = "whole" => last.best <= served
  /\ last.state = "none" => served = Inf
  /\ Running => bestVal <= served
  /\ pc \in {"last", "writeLast", "best"} => ckpt.best = Lower(bestVal, ckpt.val)
  /\ pc = "writeBest" => ckpt.best = ckpt.val /\ ckpt.val <= served

LEMMA BestInit == Init => BestInv
BY Files, RunAssumption DEF Init, BestInv, BestNeverWorsens, Running

LEMMA BestStart ==
  ASSUME BestInv, NEW e \in 0 .. NEpochs, NEW b, b <= served, Start(e, e, b)
  PROVE  BestInv'
BY DEF BestInv, BestNeverWorsens, Running, Start, files, setup

LEMMA BestNext ==
  ASSUME IInv, ~ operator, BestInv, [Next]_vars
  PROVE  BestInv'
<1> USE RunAssumption DEF setup, BestInv, BestNeverWorsens, Running
<1>1. /\ bestVal \in Nat /\ served \in Nat /\ served <= Inf /\ ckpt.val \in Nat
      /\ ckpt.best \in Nat /\ last.best \in Nat
      /\ last.epoch \in 0 .. (NEpochs - 1)
  <2>1. /\ bestVal \in Losses /\ served \in Losses /\ ckpt.val \in Losses
        /\ ckpt.best \in Losses /\ last.best \in Losses
        /\ last.epoch \in 0 .. (NEpochs - 1)
    BY DEF IInv, TypeOK, File
  <2> QED BY <2>1, LossBound
<1>2. CASE Fresh
  <2>1. last.state = "none" BY <1>2 DEF Fresh
  <2>2. Inf <= served BY <2>1, <1>1
  <2> QED BY <1>2, <2>2, BestStart DEF Fresh
<1>3. CASE Resume
  <2>1. last.weights = last.epoch + 1 /\ last.best <= served
    BY <1>3 DEF Resume, ResumeFrom, IInv, FilesConsistent
  <2>2. last.epoch + 1 \in 0 .. NEpochs BY <1>1
  <2> QED BY <1>3, <2>1, <2>2, BestStart DEF Resume, ResumeFrom
<1>4. CASE ResumeRefused \/ UNCHANGED vars
  BY <1>4 DEF ResumeRefused, vars, setup, process, files
<1>5. CASE RunEpoch
  BY <1>5, <1>1 DEF RunEpoch, files
<1>6. CASE BeginLast
  BY <1>6, <1>1, Files DEF BeginLast
<1>7. CASE EndLast
  <2>1. ckpt.state = "whole" BY <1>7 DEF EndLast, IInv, Phase, Ready
  <2> QED BY <1>7, <1>1, <2>1 DEF EndLast, Lower
<1>8. CASE KeepBest
  BY <1>8, <1>1 DEF KeepBest, files
<1>9. CASE BeginBest
  BY <1>9, <1>1, Files DEF BeginBest, Lower
<1>10. CASE EndBest
  <2>1. ckpt.best = ckpt.val /\ ckpt.val <= served
    BY <1>10, <1>1 DEF EndBest, Lower
  <2>2. last = ckpt /\ ckpt.state = "whole"
    BY <1>10 DEF EndBest, IInv, Phase, Copied, Ready
  <2>3. served' = ckpt.val BY <1>10, <1>1, <2>1 DEF EndBest, Lower
  <2> QED BY <1>10, <1>1, <2>1, <2>2, <2>3 DEF EndBest
<1>11. CASE BeginSnap \/ EndSnap \/ NoSnap
  BY <1>11, <1>1 DEF BeginSnap, EndSnap, NoSnap, files
<1>12. CASE NextEpoch
  BY <1>12, <1>1 DEF NextEpoch, files
<1>13. CASE Crash
  BY <1>13, <1>1 DEF Crash, files
<1> QED
  BY <1>2, <1>3, <1>4, <1>5, <1>6, <1>7, <1>8, <1>9, <1>10, <1>11, <1>12, <1>13
  DEF Next, Train, ResumeSnap

(* As long as nobody resumes from a periodic snapshot, no resumed run puts *)
(* a worse model over a better best_model.pt.                              *)
THEOREM BestNeverWorsensCorrect == Spec => []BestNeverWorsens
<1> DEFINE Inv == ~ operator => BestInv
<1>1. Init => Inv BY BestInit
<1>2. IInv /\ Inv /\ [Next]_vars => Inv'
  <2> SUFFICES ASSUME IInv, Inv, [Next]_vars PROVE Inv' OBVIOUS
  <2>1. operator' = operator BY SetupStays DEF setup
  <2> QED BY <2>1, BestNext
<1>3. Inv => BestNeverWorsens BY DEF BestInv, BestNeverWorsens
<1> QED BY <1>1, <1>2, <1>3, Invariant, PTL DEF Spec

-----------------------------------------------------------------------------
(* Refinement of DurableProgress, for files that are renamed into place.   *)
(* The unsaved epochs are bounded by the position inside the save period.  *)
Unsaved(e) == DurableEpochs <= e /\ e - DurableEpochs <= e % SaveEvery

ProgressInv ==
  /\ last.state # "torn"
  /\ pc \notin {"writeLast", "writeBest"}
  /\ pc = "train" => Unsaved(epoch)
  /\ pc = "last" => DurableEpochs <= epoch
  /\ pc \in Copied => DurableEpochs = epoch + 1
  /\ pc = "barrier" => Unsaved(epoch + 1)
  /\ pc = "barrier" /\ DoVal(epoch) => DurableEpochs = epoch + 1

LEMMA ModBound ==
  ASSUME NEW S \in Nat \ {0}, NEW e \in Nat
  PROVE  e % S \in 0 .. (S - 1)
BY SMTT(20)

LEMMA DurableType == IInv => DurableEpochs \in 0 .. NEpochs
BY RunAssumption DEF IInv, TypeOK, File, DurableEpochs

LEMMA ProgressInit == Init => ProgressInv
BY Files DEF Init, ProgressInv, Copied, DurableEpochs

(* A launch starts where the disk stands.                                  *)
LEMMA ProgressStart ==
  ASSUME IInv, Tracked, ProgressInv, pc \in {"off", "done"}, NEW b,
         Start(DurableEpochs, DurableEpochs, b)
  PROVE  /\ ProgressInv'
         /\ UNCHANGED <<DurableEpochs, Now>>
<1>1. UNCHANGED <<Tracked, DurableEpochs>>
  BY DEF Start, files, setup, Tracked, DurableEpochs
<1>2. DurableEpochs \in 0 .. NEpochs BY DurableType
<1>3. DurableEpochs % SaveEvery >= 0 BY <1>2, ModBound, RunAssumption
<1>4. ProgressInv'
  BY <1>1, <1>2, <1>3 DEF ProgressInv, Start, files, Copied, Unsaved
<1>5. UNCHANGED Now BY <1>1 DEF Now, Start
<1> QED BY <1>1, <1>4, <1>5

LEMMA ProgressNext ==
  ASSUME IInv, IInv', Tracked, ProgressInv, [Next]_vars
  PROVE  ProgressInv' /\ [Progress!Next]_<<DurableEpochs, Now>>
<1>a. atomic' = atomic /\ operator' = operator
  <2>1. UNCHANGED setup BY SetupStays
  <2> QED BY <2>1 DEF setup
<1>0. Tracked /\ Tracked' /\ atomic /\ ~ operator BY <1>a DEF Tracked
<1> USE RunAssumption DEF setup, Tracked
<1>1. DurableEpochs \in 0 .. NEpochs BY DurableType
<1>2. /\ epoch \in 0 .. NEpochs /\ weights \in 0 .. NEpochs
      /\ pc \notin {"off", "done"} => epoch < NEpochs
      /\ pc = "train" => weights = epoch
      /\ pc \notin {"off", "done", "train"} => weights = epoch + 1
  BY DEF IInv, TypeOK, Phase, Running
<1>3. epoch % SaveEvery \in 0 .. (SaveEvery - 1) /\ (epoch + 1) % SaveEvery \in 0 .. (SaveEvery - 1)
  BY <1>2, ModBound
<1>4. CASE Fresh
  <2>1. DurableEpochs = 0 BY <1>4 DEF Fresh, DurableEpochs
  <2> QED BY <1>4, <2>1, ProgressStart DEF Fresh
<1>5. CASE Resume
  <2>1. DurableEpochs = last.epoch + 1 /\ last.weights = last.epoch + 1
    BY <1>0, <1>5 DEF Resume, ResumeFrom, DurableEpochs, IInv, FilesConsistent
  <2> QED BY <1>5, <2>1, ProgressStart DEF Resume, ResumeFrom
<1>6. CASE ResumeRefused \/ UNCHANGED vars
  <2>1. /\ pc' = pc /\ epoch' = epoch /\ weights' = weights
        /\ last' = last
    BY <1>6 DEF ResumeRefused, vars, process, files
  <2>2. UNCHANGED <<DurableEpochs, Now>> BY <1>0, <2>1 DEF DurableEpochs, Now
  <2>3. ProgressInv'
    BY <2>1, <2>2 DEF ProgressInv, Unsaved, Copied, DoVal, PeriodicDue
  <2> QED BY <2>2, <2>3
<1>7. CASE RunEpoch
  <2> USE <1>7 DEF RunEpoch, files
  <2>1. UNCHANGED DurableEpochs BY <1>0 DEF DurableEpochs
  <2>2. Unsaved(epoch) BY DEF ProgressInv
  <2>3. ~ DoVal(epoch) => (epoch + 1) % SaveEvery = (epoch % SaveEvery) + 1
    <3> SUFFICES ASSUME ~ DoVal(epoch)
                 PROVE  (epoch + 1) % SaveEvery = (epoch % SaveEvery) + 1
      OBVIOUS
    <3>1. (epoch + 1) % SaveEvery # 0 BY DEF DoVal
    <3>2. epoch \in Nat BY <1>2
    <3> QED BY <3>1, <3>2, ModStep
  <2>4. ProgressInv'
    BY <1>1, <1>2, <1>3, <2>1, <2>2, <2>3
    DEF ProgressInv, Unsaved, Copied, DoVal, PeriodicDue
  <2>5. Now = weights /\ Now' = weights + 1 BY <1>0 DEF Now
  <2>6. Progress!Advance
    BY <1>1, <1>2, <1>3, <2>1, <2>2, <2>5 DEF Progress!Advance, Unsaved, Now
  <2> QED BY <2>4, <2>6 DEF Progress!Next
<1>8. CASE EndLast
  <2> USE <1>8 DEF EndLast
  <2>1. pc = "last" /\ pc' = "best" OBVIOUS
  <2>2. DurableEpochs' = epoch + 1
    BY <2>1 DEF DurableEpochs, IInv, Phase, Ready
  <2>3. ProgressInv'
    BY <2>1, <2>2 DEF ProgressInv, Copied, IInv, Phase, Ready
  <2>4. Progress!Commit
    BY <1>1, <1>2, <2>1, <2>2 DEF Progress!Commit, ProgressInv, Now
  <2> QED BY <2>3, <2>4 DEF Progress!Next
<1>9. CASE BeginLast \/ BeginBest
  BY <1>9 DEF BeginLast, BeginBest
<1>10. CASE KeepBest \/ EndBest \/ BeginSnap
  <2> USE <1>10 DEF KeepBest, EndBest, BeginSnap, files
  <2>1. UNCHANGED DurableEpochs BY <1>0 DEF DurableEpochs
  <2>2. pc \in Copied /\ pc' \in {"snap", "writeSnap"} BY DEF Copied
  <2>3. ProgressInv' BY <2>1, <2>2 DEF ProgressInv, Copied
  <2>4. UNCHANGED Now BY <1>0, <2>1, <2>2 DEF Now, Copied
  <2> QED BY <2>1, <2>3, <2>4
<1>11. CASE EndSnap \/ NoSnap
  <2> USE <1>11 DEF EndSnap, NoSnap, files
  <2>1. UNCHANGED DurableEpochs BY <1>0 DEF DurableEpochs
  <2>2. DurableEpochs = epoch + 1 BY DEF ProgressInv, Copied
  <2>3. ProgressInv'
    <3>1. pc' = "barrier" /\ last' = last /\ epoch' = epoch OBVIOUS
    <3> QED BY <1>2, <1>3, <2>1, <2>2, <3>1 DEF ProgressInv, Unsaved, Copied
  <2>4. UNCHANGED Now BY <1>0, <2>1, <2>2 DEF Now
  <2> QED BY <2>1, <2>3, <2>4
<1>12. CASE NextEpoch
  <2> USE <1>12 DEF NextEpoch, files
  <2>1. UNCHANGED DurableEpochs BY <1>0 DEF DurableEpochs
  <2>2. ProgressInv'
    BY <1>1, <1>2, <1>3, <2>1 DEF ProgressInv, Unsaved, Copied
  <2>3. pc' = "done" => DoVal(epoch) BY <1>2 DEF DoVal
  <2>4. UNCHANGED Now BY <1>2, <2>1, <2>3 DEF Now, ProgressInv
  <2> QED BY <2>1, <2>2, <2>4
<1>13. CASE Crash
  <2> USE <1>13 DEF Crash, files
  <2>1. UNCHANGED DurableEpochs BY <1>0 DEF DurableEpochs
  <2>2. ProgressInv' BY <2>1 DEF ProgressInv, Copied
  <2>3. Progress!Restart BY <2>1 DEF Progress!Restart, Now
  <2> QED BY <2>2, <2>3 DEF Progress!Next
<1> QED
  BY <1>4, <1>5, <1>6, <1>7, <1>8, <1>9, <1>10, <1>11, <1>12, <1>13
  DEF Next, Train, ResumeSnap

(* However a run is set up, it implements DurableProgress under the        *)
(* mapping; for renamed files resumed from last_model.pt this says that a  *)
(* crash costs at most SaveEvery epochs, the durable epochs never fall,    *)
(* and a resume neither skips nor repeats an epoch (train_graph_codeflow). *)
THEOREM RefinesDurableProgress == Spec => ImplementsDurableProgress
<1> DEFINE Inv == Tracked => ProgressInv
<1>1. Init => Progress!Init
  BY Files DEF Init, Progress!Init, DurableEpochs, Now
<1>2. Init => Inv BY ProgressInit
<1>3. IInv /\ IInv' /\ Inv /\ [Next]_vars
        => Inv' /\ [Progress!Next]_<<DurableEpochs, Now>>
  <2> SUFFICES ASSUME IInv, IInv', Inv, [Next]_vars
               PROVE  Inv' /\ [Progress!Next]_<<DurableEpochs, Now>>
    OBVIOUS
  <2>1. CASE Tracked BY <2>1, ProgressNext
  <2>2. CASE ~ Tracked
    <3>1. ~ Tracked' BY <2>2, SetupStays DEF Tracked, setup
    <3>2. UNCHANGED <<DurableEpochs, Now>> BY <2>2, <3>1 DEF DurableEpochs, Now
    <3> QED BY <3>1, <3>2
  <2> QED BY <2>1, <2>2
<1> QED
  BY <1>1, <1>2, <1>3, Invariant, PTL DEF Spec, ImplementsDurableProgress, Progress!Spec
-----------------------------------------------------------------------------
(* Periodic snapshots.  A snapshot that is due and not there whole is      *)
(* counted up to every epoch the run is known to have trained: by the      *)
(* epoch field of last_model.pt, by a later snapshot, or by where a live   *)
(* process is.  The snapshot a live process is about to copy, or copies,   *)
(* does not count yet; a crash at that moment makes it count.              *)
Missing(e) == {n \in 1 .. e : PeriodicDue(n - 1) /\ snaps[n].state # "whole"}

Awaited == IF pc \in Copied THEN {epoch + 1} ELSE {}

Reached(e) ==
  \/ last.state = "whole" /\ e = last.epoch + 1
  \/ snaps[e].state = "whole"
  \/ pc \in {"train"} \cup Ready /\ e = epoch
  \/ pc = "barrier" /\ e = epoch + 1
  \/ pc = "done" /\ e = NEpochs

SnapInv ==
  \A e \in 1 .. NEpochs :
    Reached(e) => Cardinality(Missing(e) \ Awaited) <= crashes

LEMMA MissingFinite ==
  ASSUME NEW e \in Nat
  PROVE  /\ IsFiniteSet(Missing(e) \ Awaited)
         /\ Cardinality(Missing(e) \ Awaited) \in Nat
<1>1. IsFiniteSet(1 .. e) BY FS_Interval
<1>2. Missing(e) \ Awaited \in SUBSET (1 .. e) BY DEF Missing
<1>3. IsFiniteSet(Missing(e) \ Awaited) BY <1>1, <1>2, FS_Subset
<1> QED BY <1>3, FS_CardinalityType

(* At most one element more is a cardinality of at most one more.          *)
LEMMA OneMore ==
  ASSUME NEW S, IsFiniteSet(S), NEW x, NEW T \in SUBSET (S \cup {x})
  PROVE  Cardinality(T) \in Nat /\ Cardinality(T) <= Cardinality(S) + 1
<1>1. Cardinality(S) \in Nat BY FS_CardinalityType
<1>2. /\ IsFiniteSet(S \cup {x})
      /\ Cardinality(S \cup {x}) = IF x \in S THEN Cardinality(S) ELSE Cardinality(S) + 1
  BY FS_AddElement
<1>3. IsFiniteSet(T) /\ Cardinality(T) <= Cardinality(S \cup {x}) BY <1>2, FS_Subset
<1>4. Cardinality(T) \in Nat BY <1>3, FS_CardinalityType
<1> QED BY <1>1, <1>2, <1>3, <1>4

(* Before the first epoch nothing is due.                                  *)
LEMMA BoundedFrom ==
  ASSUME IInv, SnapInv, NEW d \in 0 .. NEpochs, d = 0 \/ Reached(d)
  PROVE  Cardinality(Missing(d) \ Awaited) <= crashes
<1>1. CASE d = 0
  <2>1. Missing(d) \ Awaited = {} BY <1>1 DEF Missing
  <2> QED BY <2>1, FS_EmptySet DEF IInv, TypeOK
<1>2. CASE d # 0
  BY <1>2 DEF SnapInv
<1> QED BY <1>1, <1>2

(* A step that loses no snapshot: whatever counts after it counted before, *)
(* up to an epoch that was reached before.                                 *)
LEMMA SnapStep ==
  ASSUME IInv, SnapInv, crashes' = crashes,
         NEW e \in 1 .. NEpochs, NEW d \in 0 .. NEpochs, d = 0 \/ Reached(d),
         (Missing(e) \ Awaited)' \subseteq Missing(d) \ Awaited
  PROVE  Cardinality((Missing(e) \ Awaited)') <= crashes'
<1> DEFINE S == Missing(d) \ Awaited
           T == (Missing(e) \ Awaited)'
<1>1. IsFiniteSet(S) /\ Cardinality(S) \in Nat BY MissingFinite
<1>2. Cardinality(S) <= crashes BY BoundedFrom
<1>3. T \in SUBSET S OBVIOUS
<1> HIDE DEF S, T
<1>4. IsFiniteSet(T) /\ Cardinality(T) <= Cardinality(S) BY <1>1, <1>3, FS_Subset
<1>5. Cardinality(T) \in Nat BY <1>4, FS_CardinalityType
<1>6. crashes \in Nat BY DEF IInv, TypeOK
<1>7. Cardinality(T) <= crashes BY <1>1, <1>2, <1>4, <1>5, <1>6
<1> QED BY <1>7 DEF T

(* A launch starts where a loadable file stands, or at 0.                  *)
LEMMA SnapStart ==
  ASSUME IInv, SnapInv, pc \in {"off", "done"},
         NEW d \in 0 .. NEpochs, d = 0 \/ Reached(d), NEW b, Start(d, d, b)
  PROVE  SnapInv'
<1> SUFFICES ASSUME NEW e \in 1 .. NEpochs, Reached(e)'
             PROVE  Cardinality((Missing(e) \ Awaited)') <= crashes'
  BY DEF SnapInv
<1> USE DEF Start, files
<1>1. (Missing(e) \ Awaited)' = Missing(e) \ Awaited
  BY DEF Missing, Awaited, Copied
<1>2. Reached(e) \/ e = d
  BY RunAssumption DEF Reached, Ready
<1> QED BY <1>1, <1>2, SnapStep

LEMMA SnapNext == IInv /\ SnapInv /\ [Next]_vars => SnapInv'
<1> SUFFICES ASSUME IInv, SnapInv, [Next]_vars PROVE SnapInv' OBVIOUS
<1> USE RunAssumption
<1>1. CASE Fresh
  BY <1>1, SnapStart DEF Fresh
<1>2. CASE Resume
  <2>1. last.weights = last.epoch + 1 /\ last.epoch + 1 \in 0 .. NEpochs
    BY <1>2 DEF Resume, ResumeFrom, IInv, TypeOK, File, FilesConsistent
  <2>2. Reached(last.epoch + 1) BY <1>2 DEF Resume, ResumeFrom, Reached
  <2> QED BY <1>2, <2>1, <2>2, SnapStart DEF Resume, ResumeFrom
<1>3. ASSUME NEW n \in 1 .. NEpochs, ResumeSnap(n) PROVE SnapInv'
  <2>1. snaps[n].state = "whole" BY <1>3 DEF ResumeSnap, ResumeFrom
  <2>2. snaps[n].weights = n /\ snaps[n].epoch + 1 = n
    BY <2>1 DEF IInv, FilesConsistent
  <2>3. Reached(n) BY <2>1 DEF Reached
  <2> QED BY <1>3, <2>2, <2>3, SnapStart DEF ResumeSnap, ResumeFrom
<1>4. CASE ResumeRefused \/ UNCHANGED vars
  <2> USE <1>4 DEF ResumeRefused, vars, process, files
  <2>1. \A e \in 1 .. NEpochs :
          (Missing(e) \ Awaited)' = Missing(e) \ Awaited /\ Reached(e)' = Reached(e)
    BY DEF Missing, Awaited, Reached
  <2> QED BY <2>1 DEF SnapInv
<1> SUFFICES ASSUME Train \/ Crash, NEW e \in 1 .. NEpochs, Reached(e)'
             PROVE  Cardinality((Missing(e) \ Awaited)') <= crashes'
  BY <1>1, <1>2, <1>3, <1>4 DEF Next, SnapInv
<1>5. epoch \in 0 .. NEpochs /\ crashes \in Nat /\ snaps \in [1 .. NEpochs -> File]
  BY DEF IInv, TypeOK
<1>6. pc \notin {"off", "done"} => epoch \in 0 .. (NEpochs - 1) /\ epoch + 1 \in 1 .. NEpochs
  BY <1>5 DEF IInv, Phase, Running
<1>7. pc \in Copied => last.epoch = epoch /\ Reached(epoch + 1)
  BY DEF IInv, Phase, Copied, Ready, Reached
<1>8. CASE RunEpoch
  <2> USE <1>8 DEF RunEpoch, files
  <2>1. epoch = 0 \/ Reached(epoch) BY DEF Reached
  <2>2. CASE Reached(e)
    <3>1. (Missing(e) \ Awaited)' = Missing(e) \ Awaited
      BY DEF Missing, Awaited, Copied
    <3> QED BY <2>2, <3>1, SnapStep
  <2>3. CASE ~ Reached(e)
    <3>1. e = epoch + 1 /\ ~ DoVal(epoch) BY <2>3 DEF Reached, Ready
    <3>2. ~ PeriodicDue(epoch) BY <3>1 DEF DoVal
    <3>3. \A n \in 1 .. e : n \in 1 .. epoch \/ n - 1 = epoch BY <1>5, <3>1
    <3>4. (Missing(e) \ Awaited)' \subseteq Missing(epoch) \ Awaited
      BY <3>2, <3>3 DEF Missing, Awaited, Copied
    <3> QED BY <1>5, <2>1, <3>4, SnapStep
  <2> QED BY <2>2, <2>3
<1>9. CASE BeginLast
  <2> USE <1>9 DEF BeginLast
  <2>1. Reached(e) BY Files DEF Reached, Ready
  <2>2. (Missing(e) \ Awaited)' = Missing(e) \ Awaited
    BY DEF Missing, Awaited, Copied
  <2> QED BY <2>1, <2>2, SnapStep
<1>10. CASE EndLast
  <2> USE <1>10 DEF EndLast
  <2>1. pc \in Ready /\ pc \notin Copied /\ pc' \in Copied BY DEF Ready, Copied
  <2>2. ckpt.epoch = epoch /\ Reached(epoch) BY <2>1 DEF IInv, Phase, Reached
  <2>3. \A f \in 0 .. NEpochs : (Missing(f) \ Awaited)' = Missing(f) \ {epoch + 1}
    BY <2>1 DEF Missing, Awaited
  <2>4. Awaited = {} BY <2>1 DEF Awaited
  <2>5. CASE Reached(e)
    BY <2>3, <2>4, <2>5, SnapStep
  <2>6. CASE ~ Reached(e)
    <3>1. e = epoch + 1 BY <2>1, <2>2, <2>6 DEF Reached
    <3>2. Missing(e) \ {epoch + 1} \subseteq Missing(epoch) BY <1>5, <3>1 DEF Missing
    <3> QED BY <1>5, <2>2, <2>3, <2>4, <3>1, <3>2, SnapStep
  <2> QED BY <2>5, <2>6
<1>11. CASE KeepBest \/ BeginBest \/ EndBest
  <2> USE <1>11 DEF KeepBest, BeginBest, EndBest, files
  <2>1. pc \in Copied /\ pc' \in Copied /\ pc \in Ready BY DEF Copied, Ready
  <2>2. Reached(e) BY <2>1 DEF Reached, Ready, Copied
  <2>3. (Missing(e) \ Awaited)' = Missing(e) \ Awaited
    BY <2>1 DEF Missing, Awaited
  <2>4. crashes' = crashes OBVIOUS
  <2> QED BY <2>2, <2>3, <2>4, SnapStep
<1>12. CASE BeginSnap
  <2> USE <1>12 DEF BeginSnap
  <2>1. pc \in Copied /\ pc' \in Copied BY DEF Copied
  <2>2. Reached(e) BY <1>5, <1>6, Files DEF Reached, Ready
  <2>3. (Missing(e) \ Awaited)' \subseteq Missing(e) \ Awaited
    BY <1>5, <2>1 DEF Missing, Awaited
  <2> QED BY <2>2, <2>3, SnapStep
<1>13. CASE EndSnap
  <2> USE <1>13 DEF EndSnap
  <2>1. pc \in Copied /\ Awaited = {epoch + 1} /\ Awaited' = {} BY DEF Copied, Awaited
  <2>2. last.state = "whole" BY DEF IInv, Phase, Copied, Ready
  <2>3. Reached(e) \/ e = epoch + 1 BY <1>5, <1>6 DEF Reached, Ready
  <2>4. (Missing(e) \ Awaited)' \subseteq Missing(e) \ Awaited
    BY <1>5, <1>6, <2>1, <2>2 DEF Missing
  <2> QED BY <1>7, <2>1, <2>3, <2>4, SnapStep
<1>14. CASE NoSnap
  <2> USE <1>14 DEF NoSnap, files
  <2>1. pc \in Copied /\ Awaited = {epoch + 1} /\ Awaited' = {} BY DEF Copied, Awaited
  <2>2. Reached(e) \/ e = epoch + 1 BY DEF Reached, Ready
  <2>3. (epoch + 1) - 1 = epoch BY <1>5
  <2>4. (Missing(e) \ Awaited)' \subseteq Missing(e) \ Awaited
    BY <2>1, <2>3 DEF Missing
  <2> QED BY <1>7, <2>1, <2>2, <2>4, SnapStep
<1>15. CASE NextEpoch
  <2> USE <1>15 DEF NextEpoch, files
  <2>1. Reached(e) BY <1>5, <1>6 DEF Reached, Ready
  <2>2. (Missing(e) \ Awaited)' = Missing(e) \ Awaited
    BY DEF Missing, Awaited, Copied
  <2> QED BY <2>1, <2>2, SnapStep
<1>16. CASE Crash
  <2> USE <1>16 DEF Crash, files
  <2> DEFINE S == Missing(e) \ Awaited
             T == (Missing(e) \ Awaited)'
  <2>1. Reached(e) BY DEF Reached, Ready
  <2>2. IsFiniteSet(S) /\ Cardinality(S) \in Nat BY MissingFinite
  <2>3. Cardinality(S) <= crashes BY <2>1, BoundedFrom
  <2>4. T \in SUBSET (S \cup {epoch + 1})
    BY DEF Missing, Awaited, Copied
  <2>5. Cardinality(T) \in Nat /\ Cardinality(T) <= Cardinality(S) + 1
    BY <2>2, <2>4, OneMore
  <2>6. Cardinality(T) <= crashes' BY <1>5, <2>2, <2>3, <2>5
  <2> QED BY <2>6
<1> QED
  BY <1>8, <1>9, <1>10, <1>11, <1>12, <1>13, <1>14, <1>15, <1>16 DEF Train

LEMMA SnapInit == Init => SnapInv
BY Files DEF Init, SnapInv, Reached, Ready

(* A run that has finished misses at most one due periodic snapshot per    *)
(* crash, whatever the crashes and the resumes were, from last_model.pt or *)
(* by an operator from a snapshot (train_graph_vqvae.py).                  *)
THEOREM SnapshotsKeptCorrect == Spec => []SnapshotsKept
<1>1. IInv /\ SnapInv => SnapshotsKept
  <2> SUFFICES ASSUME IInv, SnapInv, pc = "done" PROVE SnapshotsKept
    BY DEF SnapshotsKept
  <2>1. NEpochs \in 1 .. NEpochs /\ Reached(NEpochs) BY RunAssumption DEF Reached
  <2>2. Cardinality(Missing(NEpochs) \ Awaited) <= crashes BY <2>1 DEF SnapInv
  <2>3. Missing(NEpochs) \ Awaited
          = {n \in 1 .. NEpochs : PeriodicDue(n - 1) /\ snaps[n].state # "whole"}
    BY DEF Missing, Awaited, Copied
  <2> QED BY <2>2, <2>3 DEF SnapshotsKept
<1> QED BY <1>1, SnapInit, SnapNext, Invariant, PTL DEF Spec
=============================================================================
