-------------------------- MODULE RVQTrainingProofs --------------------------
(***************************************************************************)
(* The replicas of RVQTraining agree, for any number of ranks, stages,     *)
(* codes and epochs and for any arithmetic.                                *)
(*                                                                         *)
(* The argument: a collective delivers one result to all ranks, and what a *)
(* rank does with it (Advance) is a function of that result and of the     *)
(* state all ranks share, never of the rank's own tokens.  So at any time  *)
(* the ranks fall into two groups: those that wait, all in one state, and  *)
(* those that still hold the result, all in the state the others had       *)
(* before they consumed it.                                                *)
(*                                                                         *)
(* At the end the data a trainer reads: MotionDataset, for any clips, any  *)
(* object types and their prefixes, any two versions of cond.npy, any      *)
(* validation share and whitelist, and any seeded shuffle.                 *)
(***************************************************************************)
EXTENDS RVQTraining, MotionDataset, Integers, FiniteSetTheorems, TLAPS

(* What a rank becomes once it has consumed a collective's result.         *)
Advance(s, res) ==
  CASE s.op.kind = "init"    -> AfterInit(s, res)
    [] s.op.kind = "depth"   -> AfterDepth(s, res)
    [] s.op.kind = "ema"     -> AfterEma(s, res)
    [] s.op.kind = "reset"   -> AfterReset(s, res)
    [] s.op.kind = "diag"    -> AfterDiag(s)
    [] s.op.kind = "norm"    -> AfterNorm(s)
    [] s.op.kind = "grad"    -> AfterGrad(s)
    [] s.op.kind = "barrier" -> AfterBarrier(s)

Fresh(book) ==
  [op |-> Op("init", 0), keep |-> NumQuantizers, book |-> book,
   step |-> 0, it |-> 0, epoch |-> 0]

StrongReplica ==
  {s \in [op : [kind : Kinds, q : 0 .. NumQuantizers], keep : Stages,
          book : Codebook, step : Nat, it : 0 .. StepsPerEpoch,
          epoch : 0 .. (Epochs - 1)] :
     /\ s.op.kind \in {"ema", "reset", "diag"} => s.op.q \in Stages
     /\ s.op.kind # "barrier" => s.it < StepsPerEpoch
     /\ s.op.kind = "init" => s = Fresh(s.book)}

ResetPayload ==
  {p \in [has : BOOLEAN, vecs : [Codes -> Vec \cup {Pad}]] :
     p.has => p.vecs \in [Codes -> Vec]}

Payload(kind) ==
  CASE kind = "init"  -> Codebook
    [] kind = "depth" -> Stages
    [] kind = "ema"   -> [Codes -> SUBSET Vec]
    [] kind = "reset" -> ResetPayload
    [] OTHER          -> BOOLEAN

Delivery(kind) ==
  IF kind = "ema" THEN [Codes -> Population] ELSE Payload(kind)

(* Types strong enough to be inductive; every code is a real vector.       *)
Typed ==
  /\ rep \in [Ranks -> StrongReplica]
  /\ loc \in [Ranks -> [inp : SUBSET Vec, res : SUBSET Vec]]
  /\ arrived \subseteq Ranks
  /\ status \in [Ranks -> {"running", "done", "gatefail", "dead"}]
  /\ faults \in 0 .. MaxFaults
  /\ contrib = [r \in Ranks |-> contrib[r]]
  /\ \A r \in arrived : contrib[r][2] \in Payload(rep[r].op.kind)
  /\ \A r \in Ranks \ arrived : Delivered \in Delivery(rep[r].op.kind)

(* The ranks that wait are in one state, those that hold the result in the *)
(* state before it; only the start-up broadcast finds different codebooks. *)
Alike(s, t) == s.op = t.op /\ (s.op.kind # "init" => s = t)

InStep ==
  /\ \A r, s \in arrived : Alike(rep[r], rep[s])
  /\ \A r, s \in Ranks \ arrived : Alike(rep[r], rep[s])
  /\ \A r \in arrived, s \in Ranks \ arrived :
       /\ rep[r] = Advance(rep[s], Delivered)
       /\ rep[s].op.kind = "grad" => Delivered

GateInv ==
  \A r \in Ranks :
    status[r] = "gatefail" =>
      /\ r \notin arrived
      /\ rep[r].op.kind \in {"norm", "grad"}
      /\ rep[r].op.kind = "grad" => ~ Delivered

CkptInv ==
  /\ 0 \in arrived
  /\ rep[0].op.kind = "barrier"
  /\ DoVal(rep[0].epoch)
  => ckpt = {Saved(rep[0])}

IInv == Typed /\ InStep /\ GateInv /\ CkptInv

-----------------------------------------------------------------------------
(* Lemmas about the replicated state.                                      *)

(* An EMA update keeps a stage's codebook a codebook of real vectors.      *)
LEMMA EmaUpdateTyped ==
  ASSUME NEW book \in [Codes -> Code], NEW pops \in [Codes -> Population]
  PROVE  EmaUpdate(book, pops) \in [Codes -> Code]
<1>1. ASSUME NEW k \in Codes
      PROVE  [mass |-> EmaMass(book[k].mass, pops[k]),
              vec  |-> EmaVec(book[k].vec, pops[k])] \in Code
  <2>1. book[k].mass \in Mass /\ book[k].vec \in Vec /\ pops[k] \in Population
    BY DEF Code
  <2>2. EmaMass(book[k].mass, pops[k]) \in Mass
    BY <2>1, ArithmeticAssumption
  <2>3. EmaVec(book[k].vec, pops[k]) \in Vec
    BY <2>1, ArithmeticAssumption
  <2> QED BY <2>2, <2>3 DEF Code
<1> QED BY <1>1 DEF EmaUpdate

(* Reviving dead codes from rank 0's sample keeps it one, too.             *)
LEMMA ReviveTyped ==
  ASSUME NEW book \in [Codes -> Code], NEW res \in ResetPayload
  PROVE  ReviveDead(book, res) \in [Codes -> Code]
<1>1. CASE res.has
  <2>1. res.vecs \in [Codes -> Vec] BY <1>1 DEF ResetPayload
  <2>2. Threshold \in Mass BY SizesAssumption
  <2> QED BY <1>1, <2>1, <2>2 DEF ReviveDead, Code
<1>2. CASE ~ res.has BY <1>2 DEF ReviveDead
<1> QED BY <1>1, <1>2

(* The step of the whole replicated state.                                 *)
LEMMA AdvanceTyped ==
  ASSUME NEW s \in StrongReplica, NEW res \in Delivery(s.op.kind),
         s.op.kind = "barrier" => s.epoch + 1 < Epochs
  PROVE  /\ Advance(s, res) \in StrongReplica
         /\ Advance(s, res).op.kind # "init"
<1> USE SizesAssumption
<1> DEFINE Shape == [op : [kind : Kinds, q : 0 .. NumQuantizers], keep : Stages,
                     book : Codebook, step : Nat, it : 0 .. StepsPerEpoch,
                     epoch : 0 .. (Epochs - 1)]
<1>0. s \in Shape BY DEF StrongReplica
<1>1. ASSUME NEW t \in Shape, t.it < StepsPerEpoch
      PROVE  NextBatch(t) \in StrongReplica /\ NextBatch(t).op.kind # "init"
  <2>1. FirstOp \in [kind : Kinds, q : 0 .. NumQuantizers] /\ FirstOp.kind \in {"depth", "ema"}
        /\ (FirstOp.kind = "ema" => FirstOp.q \in Stages)
    BY DEF FirstOp, Op, Kinds, Stages
  <2>2. NumQuantizers \in Stages BY DEF Stages
  <2> QED BY <1>1, <2>1, <2>2 DEF NextBatch, StrongReplica
<1>2. CASE s.op.kind = "init"
  <2>1. Advance(s, res) = NextBatch([s EXCEPT !.book = res])
    BY <1>2 DEF Advance, AfterInit
  <2>2. res \in Codebook BY <1>2 DEF Delivery, Payload
  <2>3. [s EXCEPT !.book = res] \in Shape BY <1>0, <2>2
  <2>4. [s EXCEPT !.book = res].it < StepsPerEpoch BY <1>2, <1>0 DEF StrongReplica
  <2> QED BY <1>1, <2>1, <2>3, <2>4
<1>3. CASE s.op.kind = "depth"
  <2>1. Advance(s, res) = [s EXCEPT !.keep = res, !.op = Op("ema", 1)]
    BY <1>3 DEF Advance, AfterDepth
  <2>2. res \in Stages BY <1>3 DEF Delivery, Payload
  <2>3. /\ Op("ema", 1) \in [kind : Kinds, q : 0 .. NumQuantizers]
        /\ Op("ema", 1).kind = "ema" /\ Op("ema", 1).q \in Stages
    BY DEF Op, Kinds, Stages
  <2>4. Advance(s, res) \in Shape BY <1>0, <2>1, <2>2, <2>3
  <2>5. s.it < StepsPerEpoch BY <1>3 DEF StrongReplica
  <2> QED BY <1>0, <2>1, <2>3, <2>4, <2>5 DEF StrongReplica
<1>4. CASE s.op.kind = "ema"
  <2> DEFINE b == EmaUpdate(s.book[s.op.q], res)
             o == Op(IF Dead(b) = {} THEN "diag" ELSE "reset", s.op.q)
  <2>1. Advance(s, res) = [s EXCEPT !.book = [s.book EXCEPT ![s.op.q] = b], !.op = o]
    BY <1>4 DEF Advance, AfterEma
  <2>2. s.op.q \in Stages BY <1>4 DEF StrongReplica
  <2>3. res \in [Codes -> Population] BY <1>4 DEF Delivery
  <2>4. b \in [Codes -> Code] BY <1>0, <2>2, <2>3, EmaUpdateTyped DEF Codebook
  <2>5. o \in [kind : {"diag", "reset"}, q : Stages] BY <2>2 DEF Op
  <2> HIDE DEF b, o
  <2> DEFINE books == [s.book EXCEPT ![s.op.q] = b]
  <2>6. books \in Codebook BY <1>0, <2>4 DEF Codebook
  <2>7. o \in [kind : Kinds, q : 0 .. NumQuantizers] BY <2>5 DEF Kinds, Stages
  <2>8. Advance(s, res) = [s EXCEPT !.book = books, !.op = o] BY <2>1
  <2> HIDE DEF books
  <2>9. Advance(s, res) \in Shape BY <1>0, <2>6, <2>7, <2>8
  <2>10. s.it < StepsPerEpoch BY <1>4 DEF StrongReplica
  <2> QED BY <1>0, <2>5, <2>8, <2>9, <2>10 DEF StrongReplica
<1>5. CASE s.op.kind = "reset"
  <2> DEFINE b == ReviveDead(s.book[s.op.q], res)
             o == Op("diag", s.op.q)
  <2>1. Advance(s, res) = [s EXCEPT !.book = [s.book EXCEPT ![s.op.q] = b], !.op = o]
    BY <1>5 DEF Advance, AfterReset
  <2>2. s.op.q \in Stages BY <1>5 DEF StrongReplica
  <2>3. res \in ResetPayload BY <1>5 DEF Delivery, Payload
  <2>4. b \in [Codes -> Code] BY <1>0, <2>2, <2>3, ReviveTyped DEF Codebook
  <2>5. o \in [kind : {"diag"}, q : Stages] BY <2>2 DEF Op
  <2> HIDE DEF b, o
  <2> DEFINE books == [s.book EXCEPT ![s.op.q] = b]
  <2>6. books \in Codebook BY <1>0, <2>4 DEF Codebook
  <2>7. o \in [kind : Kinds, q : 0 .. NumQuantizers] BY <2>5 DEF Kinds, Stages
  <2>8. Advance(s, res) = [s EXCEPT !.book = books, !.op = o] BY <2>1
  <2> HIDE DEF books
  <2>9. Advance(s, res) \in Shape BY <1>0, <2>6, <2>7, <2>8
  <2>10. s.it < StepsPerEpoch BY <1>5 DEF StrongReplica
  <2> QED BY <1>0, <2>5, <2>8, <2>9, <2>10 DEF StrongReplica
<1>6. CASE s.op.kind = "diag"
  <2> DEFINE o == IF s.op.q < s.keep THEN Op("ema", s.op.q + 1) ELSE Op("norm", 0)
  <2>1. Advance(s, res) = [s EXCEPT !.op = o] BY <1>6 DEF Advance, AfterDiag
  <2>2. /\ o \in [kind : {"ema", "norm"}, q : 0 .. NumQuantizers]
        /\ o.kind = "ema" => o.q \in Stages
    BY <1>0 DEF Op, Stages
  <2> HIDE DEF o
  <2> QED BY <1>0, <1>6, <2>1, <2>2 DEF Kinds, StrongReplica
<1>7. CASE s.op.kind = "norm"
  <2>1. Advance(s, res) = [s EXCEPT !.op = Op("grad", 0)]
    BY <1>7 DEF Advance, AfterNorm
  <2> QED BY <1>0, <1>7, <2>1 DEF Op, Kinds, StrongReplica
<1>8. CASE s.op.kind = "grad"
  <2> DEFINE t == [s EXCEPT !.step = s.step + 1, !.it = s.it + 1]
  <2>1. Advance(s, res) = IF t.it = StepsPerEpoch THEN [t EXCEPT !.op = Op("barrier", 0)]
                                                  ELSE NextBatch(t)
    BY <1>8 DEF Advance, AfterGrad
  <2>0. s.it < StepsPerEpoch BY <1>8 DEF StrongReplica
  <2>2. t \in Shape
    <3> DEFINE n == s.step + 1
               i == s.it + 1
    <3>1. n \in Nat /\ i \in 0 .. StepsPerEpoch BY <1>0, <2>0
    <3>2. t = [s EXCEPT !.step = n, !.it = i] OBVIOUS
    <3> HIDE DEF n, i, t
    <3> QED BY <1>0, <3>1, <3>2
  <2>3. CASE t.it = StepsPerEpoch
    <3>1. Advance(s, res) = [t EXCEPT !.op = Op("barrier", 0)] BY <2>1, <2>3
    <3> HIDE DEF t
    <3>2. Op("barrier", 0) \in [kind : Kinds, q : 0 .. NumQuantizers]
          /\ Op("barrier", 0).kind = "barrier"
      BY DEF Op, Kinds
    <3> QED BY <2>2, <3>1, <3>2 DEF StrongReplica
  <2>4. CASE t.it # StepsPerEpoch
    <3> HIDE DEF t
    <3>1. t.it < StepsPerEpoch BY <2>2, <2>4
    <3> QED BY <1>1, <2>1, <2>2, <2>4, <3>1
  <2> QED BY <2>3, <2>4
<1>9. CASE s.op.kind = "barrier"
  <2> DEFINE t == [s EXCEPT !.epoch = s.epoch + 1, !.it = 0]
  <2>1. Advance(s, res) = NextBatch(t) BY <1>9 DEF Advance, AfterBarrier
  <2>2. t \in Shape /\ t.it < StepsPerEpoch
    <3> DEFINE e == s.epoch + 1
    <3>1. e \in 0 .. (Epochs - 1) BY <1>0, <1>9
    <3>2. t = [s EXCEPT !.epoch = e, !.it = 0] OBVIOUS
    <3>3. 0 \in 0 .. StepsPerEpoch /\ 0 < StepsPerEpoch OBVIOUS
    <3>4. t.it = 0 BY <1>0
    <3> HIDE DEF e, t
    <3>5. t \in Shape BY <1>0, <3>1, <3>2, <3>3
    <3> QED BY <3>3, <3>4, <3>5
  <2> HIDE DEF t
  <2> QED BY <1>1, <2>1, <2>2
<1> QED BY <1>0, <1>2, <1>3, <1>4, <1>5, <1>6, <1>7, <1>8, <1>9 DEF Kinds

(* The start-up broadcast erases the only difference two ranks may have.   *)
LEMMA AdvanceAlike ==
  ASSUME NEW s \in StrongReplica, NEW t \in StrongReplica, Alike(s, t), NEW res
  PROVE  Advance(s, res) = Advance(t, res)
<1>1. CASE s.op.kind # "init" BY <1>1 DEF Alike
<1>2. CASE s.op.kind = "init"
  <2>1. s = Fresh(s.book) /\ t = Fresh(t.book) BY <1>2 DEF Alike, StrongReplica
  <2>2. [s EXCEPT !.book = res] = [t EXCEPT !.book = res] BY <2>1 DEF Fresh
  <2>3. t.op.kind = "init" BY <1>2 DEF Alike
  <2> QED BY <1>2, <2>2, <2>3 DEF Advance, AfterInit
<1> QED BY <1>1, <1>2

(* What a rank contributes has the type its collective expects.            *)
LEMMA ContributionsTyped ==
  ASSUME NEW r \in Ranks, NEW s \in StrongReplica, s.op.kind # "init",
         NEW tokens \in SUBSET Vec
  PROVE  Contributions(r, s, tokens) \subseteq Payload(s.op.kind)
<1>1. CASE s.op.kind = "reset"
  <2>1. Unfilled \in ResetPayload BY DEF Unfilled, ResetPayload
  <2>2. \A pick \in [Codes -> tokens] : [has |-> TRUE, vecs |-> pick] \in ResetPayload
    BY DEF ResetPayload
  <2> QED BY <1>1, <2>1, <2>2 DEF Contributions, Payload, ResetPayloads
<1>2. CASE s.op.kind = "ema"
  <2>1. Assigned(s.book[s.op.q], tokens) \in [Codes -> SUBSET Vec] BY DEF Assigned
  <2> QED BY <1>2, <2>1 DEF Contributions, Payload
<1>3. CASE s.op.kind \notin {"reset", "ema"}
  BY <1>3 DEF Contributions, Payload
<1> QED BY <1>1, <1>2, <1>3

(* Entering a collective keeps the local tokens typed.                     *)
LEMMA ResidualsTyped ==
  ASSUME NEW book \in [Codes -> Code], NEW tokens \in SUBSET Vec
  PROVE  Residuals(book, tokens) \in SUBSET Vec
<1>1. ASSUME NEW t \in tokens PROVE Residual(t, book[Nearest(t, book)].vec) \in Vec
  <2>1. Nearest(t, book) \in Codes BY ArithmeticAssumption
  <2>2. book[Nearest(t, book)].vec \in Vec BY <2>1 DEF Code
  <2> QED BY <2>2, ArithmeticAssumption
<1> QED BY <1>1 DEF Residuals

-----------------------------------------------------------------------------
(* The two forms every step of a single rank has: it consumes the result   *)
(* and enters the next collective, or it ends.                             *)

Joined(r) ==
  LET new == Advance(rep[r], Delivered)
  IN  /\ r \notin arrived
      /\ status[r] = "running"
      /\ rep[r].op.kind = "barrier" => rep[r].epoch + 1 < Epochs
      /\ rep[r].op.kind = "grad" => Delivered
      /\ rep' = [rep EXCEPT ![r] = new]
      /\ loc' \in [Ranks -> [inp : SUBSET Vec, res : SUBSET Vec]]
      /\ arrived' = arrived \cup {r}
      /\ \E c \in Payload(new.op.kind) :
           contrib' = [contrib EXCEPT ![r] = <<new.op.kind, c>>]
      /\ UNCHANGED <<result, status, faults>>
      /\ ckpt' = IF r = 0 /\ new.op.kind = "barrier" /\ DoVal(new.epoch)
                   THEN {Saved(new)} ELSE ckpt

Left(r) ==
  /\ \E how \in {"done", "dead", "gatefail"} :
       /\ status' = [status EXCEPT ![r] = how]
       /\ how = "gatefail" =>
            /\ r \notin arrived
            /\ rep[r].op.kind \in {"norm", "grad"}
            /\ rep[r].op.kind = "grad" => ~ Delivered
  /\ UNCHANGED <<rep, loc, arrived, contrib, result, ckpt>>
  /\ faults' \in 0 .. MaxFaults

(* Entering with the advanced state is the first form.                     *)
LEMMA EnterForm ==
  ASSUME Typed, NEW r \in Ranks, NEW kind, Holds(r, kind),
         rep[r].op.kind = "barrier" => rep[r].epoch + 1 < Epochs,
         rep[r].op.kind = "grad" => Delivered,
         NEW tokens \in SUBSET Vec,
         NEW new, new = Advance(rep[r], Delivered),
         Enter(r, new, tokens),
         ckpt' = IF r = 0 /\ new.op.kind = "barrier" /\ DoVal(new.epoch)
                   THEN {Saved(new)} ELSE ckpt
  PROVE  Joined(r)
<1>1. r \notin arrived /\ status[r] = "running" BY DEF Holds
<1>2. rep[r] \in StrongReplica /\ Delivered \in Delivery(rep[r].op.kind)
  BY <1>1 DEF Typed
<1>3. new \in StrongReplica /\ new.op.kind # "init" BY <1>2, AdvanceTyped
<1>4. \A c \in Contributions(r, new, tokens) : c \in Payload(new.op.kind)
  BY <1>3, ContributionsTyped
<1>5. loc' \in [Ranks -> [inp : SUBSET Vec, res : SUBSET Vec]]
  <2> DEFINE left == CASE new.op.kind = "ema" -> Residuals(new.book[new.op.q], tokens)
                       [] new.op.kind \in {"reset", "diag"} -> loc[r].res
                       [] OTHER -> {}
             kept == IF new.op.kind \in {"norm", "grad"} THEN {} ELSE tokens
  <2>1. left \in SUBSET Vec
    <3>1. CASE new.op.kind = "ema"
      <4>1. new.op.q \in Stages BY <3>1, <1>3 DEF StrongReplica
      <4>2. new.book[new.op.q] \in [Codes -> Code]
        BY <4>1, <1>3 DEF StrongReplica, Codebook
      <4> QED BY <3>1, <4>2, ResidualsTyped
    <3>2. CASE new.op.kind \in {"reset", "diag"} BY <3>2 DEF Typed
    <3>3. CASE new.op.kind \notin {"ema", "reset", "diag"} BY <3>3
    <3> QED BY <3>1, <3>2, <3>3
  <2>2. kept \in SUBSET Vec OBVIOUS
  <2>3. loc' = [loc EXCEPT ![r] = [inp |-> kept, res |-> left]] BY DEF Enter
  <2> HIDE DEF left, kept
  <2> QED BY <2>1, <2>2, <2>3 DEF Typed
<1> QED BY <1>1, <1>4, <1>5 DEF Joined, Enter

(* Every action of a rank has one of the two forms.                        *)
LEMMA ProceedForm ==
  ASSUME Typed, NEW r \in Ranks, Proceed(r)
  PROVE  Joined(r) \/ Left(r)
<1> DEFINE kind == rep[r].op.kind
           new == Advance(rep[r], Delivered)
<1>0. FirstOp.kind # "barrier" BY DEF FirstOp, Op
<1>a. rep[r] \in StrongReplica /\ loc[r].inp \in SUBSET Vec /\ loc[r].res \in SUBSET Vec
  BY DEF Typed
<1>1. CASE LeaveInit(r)
  <2>1. Holds(r, "init") /\ kind = "init" BY <1>1 DEF LeaveInit, Holds
  <2>2. new = AfterInit(rep[r], Delivered) BY <2>1 DEF Advance
  <2>3. new.op = FirstOp
    BY <2>2, <1>a DEF AfterInit, NextBatch, StrongReplica
  <2>4. PICK tokens \in SUBSET Vec : Enter(r, new, tokens)
    BY <1>1, <2>2 DEF LeaveInit
  <2>5. ckpt' = ckpt BY <1>1 DEF LeaveInit
  <2> HIDE DEF new
  <2> QED BY <1>0, <2>1, <2>3, <2>4, <2>5, EnterForm DEF new
<1>2. CASE LeaveDepth(r)
  <2>1. Holds(r, "depth") /\ kind = "depth" BY <1>2 DEF LeaveDepth, Holds
  <2>2. new = AfterDepth(rep[r], Delivered) BY <2>1 DEF Advance
  <2>3. new.op.kind = "ema" BY <2>2, <1>a DEF AfterDepth, Op, StrongReplica
  <2>4. Enter(r, new, loc[r].inp) /\ ckpt' = ckpt BY <1>2, <2>2 DEF LeaveDepth
  <2> HIDE DEF new
  <2> QED BY <1>a, <2>1, <2>3, <2>4, EnterForm DEF new
<1>3. CASE LeaveEma(r)
  <2>1. Holds(r, "ema") /\ kind = "ema" BY <1>3 DEF LeaveEma, Holds
  <2>2. new = AfterEma(rep[r], Delivered) BY <2>1 DEF Advance
  <2>3. new.op.kind # "barrier" BY <2>2, <1>a DEF AfterEma, Op, StrongReplica
  <2>4. Enter(r, new, loc[r].inp) /\ ckpt' = ckpt BY <1>3, <2>2 DEF LeaveEma
  <2> HIDE DEF new
  <2> QED BY <1>a, <2>1, <2>3, <2>4, EnterForm DEF new
<1>4. CASE LeaveReset(r)
  <2>1. Holds(r, "reset") /\ kind = "reset" BY <1>4 DEF LeaveReset, Holds
  <2>2. new = AfterReset(rep[r], Delivered) BY <2>1 DEF Advance
  <2>3. new.op.kind = "diag" BY <2>2, <1>a DEF AfterReset, Op, StrongReplica
  <2>4. Enter(r, new, loc[r].inp) /\ ckpt' = ckpt BY <1>4, <2>2 DEF LeaveReset
  <2> HIDE DEF new
  <2> QED BY <1>a, <2>1, <2>3, <2>4, EnterForm DEF new
<1>5. CASE LeaveDiag(r)
  <2>1. Holds(r, "diag") /\ kind = "diag" BY <1>5 DEF LeaveDiag, Holds
  <2>2. new = AfterDiag(rep[r]) BY <2>1 DEF Advance
  <2>3. new.op.kind # "barrier" BY <2>2, <1>a DEF AfterDiag, Op, StrongReplica
  <2>4. Enter(r, new, loc[r].res) /\ ckpt' = ckpt BY <1>5, <2>2 DEF LeaveDiag
  <2> HIDE DEF new
  <2> QED BY <1>a, <2>1, <2>3, <2>4, EnterForm DEF new
<1>6. CASE LossFinite(r)
  <2>1. Holds(r, "norm") /\ kind = "norm" BY <1>6 DEF LossFinite, Holds
  <2>2. new = AfterNorm(rep[r]) BY <2>1 DEF Advance
  <2>3. new.op.kind = "grad" BY <2>2, <1>a DEF AfterNorm, Op, StrongReplica
  <2>4. Enter(r, new, loc[r].inp) /\ ckpt' = ckpt BY <1>6, <2>2 DEF LossFinite
  <2> HIDE DEF new
  <2> QED BY <1>a, <2>1, <2>3, <2>4, EnterForm DEF new
<1>7. CASE LossGateFail(r)
  BY <1>7 DEF LossGateFail, Holds, Exit, Left, Typed
<1>8. CASE OptStep(r)
  <2>1. Holds(r, "grad") /\ kind = "grad" /\ Delivered BY <1>8 DEF OptStep, Holds
  <2>2. new = AfterGrad(rep[r]) BY <2>1 DEF Advance
  <2>3. new.op.kind # "barrier" /\ ckpt' = ckpt BY <1>8, <2>2 DEF OptStep
  <2>4. PICK tokens \in SUBSET Vec : Enter(r, new, tokens)
    BY <1>8, <2>2 DEF OptStep
  <2> HIDE DEF new
  <2> QED BY <2>1, <2>3, <2>4, EnterForm DEF new
<1>9. CASE GradGateFail(r)
  BY <1>9 DEF GradGateFail, Holds, Exit, Left, Typed
<1>10. CASE EpochEnd(r)
  <2>1. Holds(r, "grad") /\ kind = "grad" /\ Delivered BY <1>10 DEF EpochEnd, Holds
  <2>2. new = AfterGrad(rep[r]) BY <2>1 DEF Advance
  <2>3. /\ new.op.kind = "barrier"
        /\ Enter(r, new, {})
        /\ ckpt' = IF r = 0 /\ DoVal(new.epoch) THEN {Saved(new)} ELSE ckpt
    BY <1>10, <2>2 DEF EpochEnd
  <2> HIDE DEF new
  <2>4. {} \in SUBSET Vec OBVIOUS
  <2> QED BY <2>1, <2>3, <2>4, EnterForm DEF new
<1>11. CASE LeaveBarrier(r)
  <2>1. Holds(r, "barrier") /\ kind = "barrier" /\ rep[r].epoch + 1 < Epochs
    BY <1>11 DEF LeaveBarrier, Holds
  <2>2. new = AfterBarrier(rep[r]) BY <2>1 DEF Advance
  <2>3. new.op = FirstOp
    BY <2>2, <1>a DEF AfterBarrier, NextBatch, StrongReplica
  <2>4. PICK tokens \in SUBSET Vec : Enter(r, new, tokens)
    BY <1>11, <2>2 DEF LeaveBarrier
  <2>5. ckpt' = ckpt BY <1>11 DEF LeaveBarrier
  <2> HIDE DEF new
  <2> QED BY <1>0, <2>1, <2>3, <2>4, <2>5, EnterForm DEF new
<1>12. CASE FinishRun(r)
  BY <1>12 DEF FinishRun, Holds, Exit, Left, Typed
<1> QED
  BY <1>1, <1>2, <1>3, <1>4, <1>5, <1>6, <1>7, <1>8, <1>9, <1>10, <1>11, <1>12
  DEF Proceed

-----------------------------------------------------------------------------
(* The invariant is inductive.                                             *)

LEMMA InitInv == Init => IInv
<1> SUFFICES ASSUME Init PROVE IInv OBVIOUS
<1> USE SizesAssumption
<1>1. PICK books \in [Ranks -> InitBooks] :
        /\ rep = [r \in Ranks |-> Fresh(books[r])]
        /\ contrib = [r \in Ranks |-> <<"init", books[r]>>]
  BY DEF Init, Fresh
<1>2. \A r \in Ranks : books[r] \in Codebook BY BooksAssumption
<1>3. \A b \in Codebook : Fresh(b) \in StrongReplica
  BY DEF Fresh, StrongReplica, Op, Kinds, Stages
<1>4. \A r \in Ranks : rep[r] = Fresh(books[r]) /\ rep[r].op = Op("init", 0)
  BY <1>1 DEF Fresh
<1>5. Typed
  <2>1. rep \in [Ranks -> StrongReplica] BY <1>1, <1>2, <1>3
  <2>2. \A r \in Ranks : contrib[r][2] \in Payload(rep[r].op.kind)
    BY <1>1, <1>2, <1>4 DEF Payload, Op
  <2> QED BY <1>1, <2>1, <2>2 DEF Typed, Init
<1>6. InStep BY <1>4 DEF InStep, Alike, Init, Op
<1>7. GateInv BY DEF GateInv, Init
<1>8. CkptInv
  <2>1. 0 \in Ranks BY DEF Ranks
  <2> QED BY <1>4, <2>1 DEF CkptInv, Op
<1> QED BY <1>5, <1>6, <1>7, <1>8 DEF IInv

(* Completion: all ranks wait, hence are alike, and all get one result.    *)
LEMMA CompleteInv == IInv /\ Complete => IInv'
<1> SUFFICES ASSUME IInv, Complete PROVE IInv' OBVIOUS
<1> USE DEF IInv
<1>0. 0 \in Ranks BY SizesAssumption DEF Ranks
<1> DEFINE kind == rep[0].op.kind
<1>1. arrived = Ranks /\ arrived' = {} /\ Delivered' = Combine(kind, contrib)
  BY DEF Complete, Delivered
<1>2. \A r \in Ranks : rep[r].op = rep[0].op BY DEF Complete
<1>3. \A r \in Ranks : contrib[r][2] \in Payload(kind)
  BY <1>1, <1>2 DEF Typed
<1>4. Combine(kind, contrib) \in Delivery(kind)
  <2>1. CASE kind \in {"init", "depth", "reset"}
    BY <1>0, <1>3, <2>1 DEF Combine, Delivery, Payload
  <2>2. CASE kind = "ema"
    <3>1. \A r \in Ranks : contrib[r][2] \in [Codes -> SUBSET Vec]
      BY <1>3, <2>2 DEF Payload
    <3>2. [k \in Codes |-> [r \in Ranks |-> contrib[r][2][k]]] \in [Codes -> Population]
      BY <3>1 DEF Population
    <3> QED BY <2>2, <3>2 DEF Combine, Delivery
  <2>3. CASE kind \notin {"init", "depth", "reset", "ema"}
    <3>1. Delivery(kind) = BOOLEAN BY <2>3 DEF Delivery, Payload
    <3>2. Combine(kind, contrib) \in BOOLEAN BY <2>3 DEF Combine
    <3> QED BY <3>1, <3>2
  <2> QED BY <2>1, <2>2, <2>3
<1>5. Typed'
  <2>1. \A r \in Ranks : Delivered' \in Delivery(rep[r].op.kind)
    BY <1>1, <1>2, <1>4
  <2> QED BY <1>1, <2>1 DEF Typed, Complete
<1>6. InStep'
  <2>1. \A r, s \in Ranks : Alike(rep[r], rep[s]) BY <1>1 DEF InStep
  <2> QED BY <1>1, <2>1 DEF InStep, Complete
<1>7. GateInv' BY DEF GateInv, Complete
<1>8. CkptInv' BY <1>1 DEF CkptInv
<1> QED BY <1>5, <1>6, <1>7, <1>8

(* A rank that joins the next collective is like those already there.      *)
LEMMA JoinedInv ==
  ASSUME IInv, NEW r \in Ranks, Joined(r)
  PROVE  IInv'
<1> USE DEF IInv
<1> DEFINE new == Advance(rep[r], Delivered)
<1>1. /\ r \notin arrived /\ status[r] = "running"
      /\ rep[r].op.kind = "barrier" => rep[r].epoch + 1 < Epochs
      /\ rep[r].op.kind = "grad" => Delivered
      /\ rep' = [rep EXCEPT ![r] = new]
      /\ loc' \in [Ranks -> [inp : SUBSET Vec, res : SUBSET Vec]]
      /\ arrived' = arrived \cup {r}
      /\ UNCHANGED <<result, status, faults>>
      /\ ckpt' = IF r = 0 /\ new.op.kind = "barrier" /\ DoVal(new.epoch)
                   THEN {Saved(new)} ELSE ckpt
  BY DEF Joined
<1>2. PICK c \in Payload(new.op.kind) :
        contrib' = [contrib EXCEPT ![r] = <<new.op.kind, c>>]
  BY DEF Joined
<1>3. rep[r] \in StrongReplica /\ Delivered \in Delivery(rep[r].op.kind)
  BY <1>1 DEF Typed
<1>4. new \in StrongReplica /\ new.op.kind # "init" BY <1>1, <1>3, AdvanceTyped
<1>5. Delivered' = Delivered BY <1>1 DEF Delivered
<1>6. rep \in [Ranks -> StrongReplica] /\ arrived \subseteq Ranks BY DEF Typed
<1>7. rep'[r] = new /\ \A s \in Ranks \ {r} : rep'[s] = rep[s] BY <1>1, <1>6
<1>8. \A s \in Ranks \ arrived : Advance(rep[s], Delivered) = new
  <2> TAKE s \in Ranks \ arrived
  <2>1. Alike(rep[s], rep[r]) BY <1>1 DEF InStep
  <2> QED BY <1>6, <2>1, AdvanceAlike
<1> HIDE DEF new
<1>9. Typed'
  <2>1. rep' \in [Ranks -> StrongReplica] BY <1>1, <1>4, <1>6
  <2>2. contrib' = [s \in Ranks |-> contrib'[s]] BY <1>2 DEF Typed
  <2>3. \A s \in arrived' : contrib'[s][2] \in Payload(rep'[s].op.kind)
    <3> TAKE s \in arrived'
    <3>1. CASE s = r
      <4>1. contrib'[r] = <<new.op.kind, c>> BY <1>2 DEF Typed
      <4> QED BY <1>7, <3>1, <4>1
    <3>2. CASE s # r
      <4>1. s \in arrived /\ contrib'[s] = contrib[s] BY <1>1, <1>2, <3>2 DEF Typed
      <4> QED BY <1>6, <1>7, <3>2, <4>1 DEF Typed
    <3> QED BY <3>1, <3>2
  <2>4. \A s \in Ranks \ arrived' : Delivered' \in Delivery(rep'[s].op.kind)
    BY <1>1, <1>5, <1>7 DEF Typed
  <2>5. arrived' \subseteq Ranks BY <1>1, <1>6
  <2>6. status' \in [Ranks -> {"running", "done", "gatefail", "dead"}] /\ faults' \in 0 .. MaxFaults
    BY <1>1 DEF Typed
  <2> QED BY <1>1, <2>1, <2>2, <2>3, <2>4, <2>5, <2>6 DEF Typed
<1>10. InStep'
  <2>1. \A s \in arrived : rep[s] = new
    BY <1>1 DEF InStep, new
  <2>2. \A s \in arrived' : rep'[s] = new BY <1>1, <1>6, <1>7, <2>1
  <2>3. \A s \in Ranks \ arrived' : rep'[s] = rep[s] /\ s \in Ranks \ arrived
    BY <1>1, <1>7
  <2>4. \A s, t \in arrived' : Alike(rep'[s], rep'[t]) BY <2>2 DEF Alike
  <2>5. \A s, t \in Ranks \ arrived' : Alike(rep'[s], rep'[t])
    BY <2>3 DEF InStep
  <2>6. \A s \in arrived', t \in Ranks \ arrived' :
          /\ rep'[s] = Advance(rep'[t], Delivered')
          /\ rep'[t].op.kind = "grad" => Delivered'
    <3> TAKE s \in arrived', t \in Ranks \ arrived'
    <3>1. rep'[s] = Advance(rep'[t], Delivered') BY <1>5, <1>8, <2>2, <2>3
    <3>2. rep[t].op.kind = "grad" => rep[r].op.kind = "grad"
      BY <1>1, <2>3 DEF InStep, Alike
    <3> QED BY <1>1, <1>5, <2>3, <3>1, <3>2
  <2> QED BY <2>4, <2>5, <2>6 DEF InStep
<1>11. GateInv'
  <2> SUFFICES ASSUME NEW s \in Ranks, status'[s] = "gatefail"
               PROVE  /\ s \notin arrived'
                      /\ rep'[s].op.kind \in {"norm", "grad"}
                      /\ rep'[s].op.kind = "grad" => ~ Delivered'
    BY DEF GateInv
  <2>1. s # r BY <1>1
  <2> QED BY <1>1, <1>5, <1>7, <2>1 DEF GateInv
<1>12. CkptInv'
  <2>1. CASE r = 0
    BY <1>1, <1>7, <2>1 DEF CkptInv
  <2>2. CASE r # 0
    <3>1. ckpt' = ckpt BY <1>1, <2>2
    <3>2. 0 \in Ranks BY SizesAssumption DEF Ranks
    <3>3. rep'[0] = rep[0] /\ (0 \in arrived' => 0 \in arrived)
      BY <1>1, <1>7, <2>2, <3>2
    <3> QED BY <3>1, <3>3 DEF CkptInv
  <2> QED BY <2>1, <2>2
<1> QED BY <1>9, <1>10, <1>11, <1>12

(* A rank that ends changes its status only.                               *)
LEMMA LeftInv ==
  ASSUME IInv, NEW r \in Ranks, Left(r)
  PROVE  IInv'
<1> USE DEF IInv
<1>1. /\ UNCHANGED <<rep, loc, arrived, contrib, result, ckpt>>
      /\ Delivered' = Delivered
      /\ faults' \in 0 .. MaxFaults
  BY DEF Left, Delivered
<1>2. PICK how \in {"done", "dead", "gatefail"} :
        /\ status' = [status EXCEPT ![r] = how]
        /\ how = "gatefail" => /\ r \notin arrived
                               /\ rep[r].op.kind \in {"norm", "grad"}
                               /\ rep[r].op.kind = "grad" => ~ Delivered
  BY DEF Left
<1>3. Typed'
  <2>1. status' \in [Ranks -> {"running", "done", "gatefail", "dead"}]
    BY <1>2 DEF Typed
  <2> QED BY <1>1, <2>1 DEF Typed
<1>4. InStep' BY <1>1 DEF InStep
<1>5. GateInv' BY <1>1, <1>2 DEF GateInv, Typed
<1>6. CkptInv' BY <1>1 DEF CkptInv
<1> QED BY <1>3, <1>4, <1>5, <1>6

LEMMA StepInv == IInv /\ [Next]_vars => IInv'
<1> SUFFICES ASSUME IInv, [Next]_vars PROVE IInv' OBVIOUS
<1>1. CASE Complete BY <1>1, CompleteInv
<1>2. ASSUME NEW r \in Ranks, Proceed(r) PROVE IInv'
  BY <1>2, ProceedForm, JoinedInv, LeftInv DEF IInv
<1>3. ASSUME NEW r \in Ranks, Fault(r) PROVE IInv'
  <2>1. Left(r)
    BY <1>3, SizesAssumption DEF Fault, Exit, Left, IInv, Typed
  <2> QED BY <2>1, LeftInv
<1>4. ASSUME NEW r \in Ranks, AgentKill(r) PROVE IInv'
  <2>1. Left(r) BY <1>4 DEF AgentKill, Exit, Left, IInv, Typed
  <2> QED BY <2>1, LeftInv
<1>5. CASE UNCHANGED vars
  BY <1>5 DEF vars, IInv, Typed, InStep, GateInv, CkptInv, Delivered
<1> QED BY <1>1, <1>2, <1>3, <1>4, <1>5 DEF Next, Ended

LEMMA Invariance == Spec => []IInv
BY InitInv, StepInv, PTL DEF Spec

-----------------------------------------------------------------------------
(* What the invariant implies.                                             *)

(* Types hold for every number of ranks, stages, codes and epochs.         *)
THEOREM TypeCorrect == Spec => []TypeOK
<1>1. IInv => TypeOK
  <2> SUFFICES ASSUME IInv PROVE TypeOK OBVIOUS
  <2>1. StrongReplica \subseteq
          [op : [kind : Kinds, q : 0 .. NumQuantizers], keep : Stages,
           book : [Stages -> [Codes -> [mass : Mass, vec : Vec \cup {Pad}]]],
           step : Nat, it : 0 .. StepsPerEpoch, epoch : 0 .. (Epochs - 1)]
    <3>1. Code \subseteq [mass : Mass, vec : Vec \cup {Pad}] BY DEF Code
    <3>2. [Codes -> Code] \subseteq [Codes -> [mass : Mass, vec : Vec \cup {Pad}]]
      BY <3>1
    <3>3. Codebook \subseteq [Stages -> [Codes -> [mass : Mass, vec : Vec \cup {Pad}]]]
      BY <3>2 DEF Codebook
    <3> QED BY <3>3 DEF StrongReplica
  <2> QED BY <2>1 DEF IInv, Typed, TypeOK
<1> QED BY <1>1, Invariance, PTL

(* Waiting ranks are always in the same collective of the same stage.      *)
THEOREM CollectivesMatchCorrect == Spec => []CollectivesMatch
<1>1. IInv => CollectivesMatch
  BY DEF IInv, Typed, InStep, Alike, CollectivesMatch
<1> QED BY <1>1, Invariance, PTL

(* Waiting ranks hold the same codebooks after the start-up broadcast.     *)
THEOREM CodebookAgreementCorrect == Spec => []CodebookAgreement
<1>1. IInv => CodebookAgreement
  BY DEF IInv, Typed, InStep, Alike, CodebookAgreement
<1> QED BY <1>1, Invariance, PTL

(* No code is ever the zero vector of a padded slot.                       *)
THEOREM NoPaddedCodeCorrect == Spec => []NoPaddedCode
<1>1. IInv => NoPaddedCode
  <2> SUFFICES ASSUME IInv, NEW r \in Ranks, NEW q \in Stages, NEW k \in Codes
               PROVE  rep[r].book[q][k].vec # Pad
    BY DEF NoPaddedCode
  <2>1. rep[r].book \in Codebook BY DEF IInv, Typed, StrongReplica
  <2>2. rep[r].book[q][k] \in Code BY <2>1 DEF Codebook
  <2> QED BY <2>2, PadAssumption DEF Code
<1> QED BY <1>1, Invariance, PTL

(* The update a gate rejected on one rank is applied by no rank.           *)
THEOREM NoStepPastFailedGateCorrect == Spec => []NoStepPastFailedGate
<1>1. IInv => NoStepPastFailedGate
  <2> SUFFICES ASSUME IInv, NEW r \in Ranks, NEW s \in Ranks, status[r] = "gatefail"
               PROVE  rep[s].step <= rep[r].step
    BY DEF NoStepPastFailedGate
  <2>1. /\ r \notin arrived
        /\ rep[r].op.kind \in {"norm", "grad"}
        /\ rep[r].op.kind = "grad" => ~ Delivered
    BY DEF IInv, GateInv
  <2>2. rep[r] \in StrongReplica /\ rep[r].step \in Nat
    BY DEF IInv, Typed, StrongReplica
  <2>3. CASE s \notin arrived
    BY <2>1, <2>2, <2>3 DEF IInv, InStep, Alike
  <2>4. CASE s \in arrived
    <3>1. rep[s] = Advance(rep[r], Delivered) /\ rep[r].op.kind = "norm"
      BY <2>1, <2>4 DEF IInv, InStep
    <3>2. rep[s] = [rep[r] EXCEPT !.op = Op("grad", 0)]
      BY <3>1 DEF Advance, AfterNorm
    <3>3. rep[s].step = rep[r].step BY <2>2, <3>2 DEF StrongReplica
    <3> QED BY <2>2, <3>3
  <2> QED BY <2>3, <2>4
<1> QED BY <1>1, Invariance, PTL

(* The saved checkpoint is the state of every rank at the barrier.         *)
THEOREM CheckpointAgreedCorrect == Spec => []CheckpointAgreed
<1>1. IInv => CheckpointAgreed
  <2> SUFFICES ASSUME IInv, NEW r \in Ranks, 0 \in arrived, r \in arrived,
                      rep[r].op.kind = "barrier", DoVal(rep[r].epoch)
               PROVE  ckpt = {Saved(rep[r])}
    BY DEF CheckpointAgreed
  <2>1. rep[r] = rep[0] BY DEF IInv, InStep, Alike
  <2> QED BY <2>1 DEF IInv, CkptInv
<1> QED BY <1>1, Invariance, PTL

-----------------------------------------------------------------------------
(* The dataset and its splits.                                             *)

HasKeys  == {"save1", "save2", "scan", "split", "other", "ready"}
HasClips == {"split", "other", "ready"}

(* The second construction of a process begins when the first is ready,    *)
(* the export writes when both of its own are.                             *)
Order ==
  /\ pc["val"] # "off" => pc["train"] = "ready"
  /\ pc["xval"] # "off" => pc["xtrain"] = "ready"
  /\ writer # "idle" => pc["xval"] = "ready"
  /\ \A b \in Export : pc[b] # "other"

(* A construction that is about to write a cache holds the cond.npy on     *)
(* disk, unless that was edited in between.                                *)
CacheInv ==
  /\ CacheHonest
  /\ ~ straddled => \A b \in Builders : /\ pc[b] = "save1" => cond = 1
                                        /\ pc[b] = "save2" => cond = 2

(* What was scanned was matched to a type the construction works with.     *)
MatchInv ==
  \A b \in Builders :
    pc[b] \in HasClips => \A c \in matched[b] : Match(c, keys[b]) \in Species

(* Until a list is written, what a construction read from the lists is     *)
(* what they hold, and what it accepted passes the checks against them.    *)
ListInv ==
  \A b \in Training :
    /\ pc[b] \notin {"other", "ready", "refused"} => ~ byFile[b]
    /\ byFile[b] /\ ~ rewritten /\ pc[b] \in {"other", "ready"} =>
         want[b] = lists[ListOf(b)].clips
    /\ byFile[b] /\ ~ rewritten /\ pc[b] = "ready" /\ Whitelist = Species =>
         samples[b] = want[b] /\ ListsSound(b, lists[OtherOf(b)].clips)

(* As long as the data of an export stays, its constructions work with     *)
(* what is on disk and divide it as the stratified algorithm does.         *)
Current  == Scanned(KeysOf[cond])
ValPart  == Stratified(Current, KeysOf[cond])

ExportInv ==
  ~ drifted /\ ~ straddled =>
    \A b \in Export :
      /\ pc[b] \in HasKeys => keys[b] = KeysOf[cond]
      /\ pc[b] \in HasClips => matched[b] = Current
      /\ pc[b] = "ready" /\ Whitelist = Species =>
           samples[b] = IF b = "xval" THEN ValPart ELSE Current \ ValPart

(* A list that is written to its end holds the samples of its construction.*)
WriterInv ==
  /\ writer \in {"between", "val", "done"} =>
       lists["train"] = [exists |-> TRUE, clips |-> samples["xtrain"]]
  /\ writer = "done" => lists["val"] = [exists |-> TRUE, clips |-> samples["xval"]]

DataInv == /\ DataTypeOK /\ Order /\ CacheInv /\ MatchInv /\ ListInv /\ ExportInv /\ WriterInv

-----------------------------------------------------------------------------
(* The pure parts.                                                         *)

(* A clip is matched to one of the types that are there, or to none.       *)
LEMMA MatchAmong ==
  ASSUME NEW c \in Clips, NEW ks \in SUBSET Species
  PROVE  Match(c, ks) \in ks \cup {None}
<1>1. OwnerOf[c] \in Species /\ Shorter[OwnerOf[c]] \in Species \cup {None}
  BY DatasetAssumption
<1>2. CASE OwnerOf[c] \in ks BY <1>2 DEF Match
<1>3. CASE OwnerOf[c] \notin ks /\ Prefixes(OwnerOf[c]) \cap ks = {}
  BY <1>3 DEF Match
<1>4. CASE OwnerOf[c] \notin ks /\ Prefixes(OwnerOf[c]) \cap ks # {}
  <2>1. Match(c, ks) = Shorter[OwnerOf[c]] BY <1>4 DEF Match
  <2>2. Shorter[OwnerOf[c]] \in ks BY <1>4 DEF Prefixes
  <2> QED BY <2>1, <2>2
<1> QED BY <1>2, <1>3, <1>4

(* At least one clip of a type stays out of the validation part.           *)
LEMMA HoldoutBound ==
  ASSUME NEW n \in Nat
  PROVE  HoldoutSize(n) \in 0 .. n
<1>1. ValPercent \in Nat BY DatasetAssumption
<1>2. n * ValPercent \in Nat BY <1>1, SMTT(20)
<1> DEFINE x == (n * ValPercent + 50) \div 100
<1>3. x \in Nat
  <2>1. \A m \in Nat : (m + 50) \div 100 \in Nat OBVIOUS
  <2> QED BY <1>2, <2>1
<1> HIDE DEF x
<1>4. HoldoutSize(n) = IF n < 2 THEN 0 ELSE Least(Greatest(1, x), n - 1)
  BY DEF HoldoutSize, x
<1> QED BY <1>3, <1>4 DEF Least, Greatest

(* The validation part of a set of clips is a part of it.                  *)
LEMMA StratifiedPart ==
  ASSUME NEW cs \in SUBSET Clips, NEW ks \in SUBSET Species
  PROVE  Stratified(cs, ks) \subseteq cs
<1> SUFFICES ASSUME NEW s \in ks,
                    NEW c \in Draw(OfType(cs, ks, s), HoldoutSize(Cardinality(OfType(cs, ks, s))))
             PROVE  c \in cs
  BY DEF Stratified
<1> DEFINE own == OfType(cs, ks, s)
<1>1. own \in SUBSET Clips /\ own \subseteq cs BY DEF OfType
<1> HIDE DEF own
<1>2. IsFiniteSet(own) BY <1>1, FS_Subset, DatasetAssumption
<1>3. Cardinality(own) \in Nat BY <1>2, FS_CardinalityType
<1>4. HoldoutSize(Cardinality(own)) \in 0 .. Cardinality(own) BY <1>3, HoldoutBound
<1>5. Draw(own, HoldoutSize(Cardinality(own))) \subseteq own
  BY <1>1, <1>4, DatasetAssumption
<1> QED BY <1>1, <1>5 DEF own

(* Without a whitelist every clip that was matched is kept.                *)
LEMMA AllKept ==
  ASSUME Whitelist = Species, NEW ks, NEW cs, \A c \in cs : Match(c, ks) \in Species
  PROVE  Whitelisted(cs, ks) = cs
BY DEF Whitelisted

LEMMA ScannedMatch ==
  ASSUME DataTypeOK, NEW ks \in SUBSET Species
  PROVE  /\ Scanned(ks) \subseteq disk /\ Scanned(ks) \in SUBSET Clips
         /\ \A c \in Scanned(ks) : Match(c, ks) \in Species
<1>1. Scanned(ks) \subseteq disk /\ Scanned(ks) \in SUBSET Clips BY DEF Scanned, DataTypeOK
<1>2. \A c \in Scanned(ks) : Match(c, ks) \in Species
  BY <1>1, MatchAmong DEF Scanned
<1> QED BY <1>1, <1>2

-----------------------------------------------------------------------------
LEMMA DataInvInit == DataInit => DataInv
<1> SUFFICES ASSUME DataInit PROVE DataInv OBVIOUS
<1> USE DEF DataInit
<1>1. \A b \in Builders : /\ pc[b] = "off" /\ byFile[b] = FALSE /\ keys[b] = {}
                          /\ matched[b] = {} /\ want[b] = {} /\ samples[b] = {}
  OBVIOUS
<1>2. DataTypeOK
  <2>1. disk \subseteq Clips OBVIOUS
  <2>2. Scanned(KeysOf[1]) \subseteq Clips BY <2>1 DEF Scanned
  <2>3. held \subseteq Clips /\ lists \in [Training -> [exists : BOOLEAN, clips : SUBSET Clips]]
    <3>1. CASE held = {} /\ lists = [l \in Training |-> NoList]
      BY <3>1 DEF NoList
    <3>2. ASSUME NEW T \in SUBSET Scanned(KeysOf[1]), NEW V \in SUBSET Scanned(KeysOf[1]),
                 held = Scanned(KeysOf[1]) \ (T \cup V),
                 lists = [l \in Training |->
                            [exists |-> TRUE, clips |-> IF l = "train" THEN T ELSE V]]
          PROVE  held \subseteq Clips
                   /\ lists \in [Training -> [exists : BOOLEAN, clips : SUBSET Clips]]
      BY <2>2, <3>2
    <3> QED BY <3>1, <3>2
  <2>4. cond \in Versions /\ cache \in 0 .. 2 /\ age \in {"older", "same", "newer"}
    BY DEF Versions
  <2> QED BY <1>1, <2>1, <2>3, <2>4, DatasetAssumption DEF DataTypeOK
<1>3. Order BY <1>1 DEF Order, Builders, Training, Export
<1>4. CacheInv BY <1>1 DEF CacheInv, CacheHonest, CacheIsNewer
<1>5. MatchInv BY <1>1 DEF MatchInv, HasClips
<1>6. ListInv BY <1>1 DEF ListInv, Builders
<1>7. ExportInv BY <1>1 DEF ExportInv, HasKeys, HasClips, Builders
<1>8. WriterInv BY DEF WriterInv
<1> QED BY <1>2, <1>3, <1>4, <1>5, <1>6, <1>7, <1>8 DEF DataInv

-----------------------------------------------------------------------------
(* The steps of a construction.                                            *)
LEMMA BeginKeeps ==
  ASSUME DataInv, NEW b \in Builders, Begin(b)
  PROVE  DataInv'
<1> USE DEF DataInv, Begin, world, files
<1>1. \A x \in Builders : pc'[x] = IF x = b THEN "cond" ELSE pc[x]
  BY DEF DataTypeOK
<1>2. pc[b] = "off" OBVIOUS
<1>3. DataTypeOK' BY DEF DataTypeOK
<1>4. Order' BY <1>1 DEF Order, MayBegin, Builders, Training, Export
<1>5. CacheInv' BY <1>1 DEF CacheInv, CacheHonest, CacheIsNewer
<1>6. MatchInv' BY <1>1 DEF MatchInv, HasClips, Match
<1>7. ListInv'
  <2>1. b = "train" => pc["val"] = "off" BY DEF Order
  <2> QED BY <1>1, <1>2, <2>1 DEF ListInv, Builders, Training, Export, ListsSound
<1>8. ExportInv'
  <2>1. b = "xtrain" => pc["xval"] = "off" BY DEF Order
  <2>2. Current' = Current /\ ValPart' = ValPart
    BY DEF Current, ValPart, Scanned, Stratified, OfType
  <2> QED BY <1>1, <1>2, <2>1, <2>2
          DEF ExportInv, HasKeys, HasClips, Builders, Training, Export
<1>9. WriterInv' BY DEF WriterInv
<1> QED BY <1>3, <1>4, <1>5, <1>6, <1>7, <1>8, <1>9

LEMMA LoadCacheKeeps ==
  ASSUME DataInv, NEW b \in Builders, LoadCache(b)
  PROVE  DataInv'
<1> USE DEF DataInv, LoadCache, world, files, history
<1>1. \A x \in Builders : /\ pc'[x] = IF x = b THEN "scan" ELSE pc[x]
                          /\ keys'[x] = IF x = b THEN KeysOf[cache] ELSE keys[x]
  BY DEF DataTypeOK
<1>2. pc[b] = "cond" OBVIOUS
<1>3. cache \in Versions BY DEF DataTypeOK, CacheIsNewer, Versions
<1>4. DataTypeOK' BY <1>3, DatasetAssumption DEF DataTypeOK
<1>5. Order' BY <1>1 DEF Order, Builders, Training, Export
<1>6. CacheInv' BY <1>1 DEF CacheInv, CacheHonest, CacheIsNewer
<1>7. MatchInv' BY <1>1 DEF MatchInv, HasClips, Match
<1>8. ListInv' BY <1>1, <1>2 DEF ListInv, Builders, Training, Export, ListsSound
<1>9. ExportInv'
  <2>1. Current' = Current /\ ValPart' = ValPart
    BY DEF Current, ValPart, Scanned, Stratified, OfType
  <2>2. ~ straddled => KeysOf[cache] = KeysOf[cond] BY DEF CacheInv, CacheHonest
  <2> QED BY <1>1, <2>1, <2>2 DEF ExportInv, HasKeys, HasClips, Builders, Export
<1>10. WriterInv' BY DEF WriterInv
<1> QED BY <1>4, <1>5, <1>6, <1>7, <1>8, <1>9, <1>10

LEMMA NormalizeCondKeeps ==
  ASSUME DataInv, NEW b \in Builders, NormalizeCond(b)
  PROVE  DataInv'
<1> USE DEF DataInv, NormalizeCond, world, files, history
<1> DEFINE save == IF cond = 1 THEN "save1" ELSE "save2"
<1>1. \A x \in Builders : /\ pc'[x] = IF x = b THEN save ELSE pc[x]
                          /\ keys'[x] = IF x = b THEN KeysOf[cond] ELSE keys[x]
  BY DEF DataTypeOK
<1>2. pc[b] = "cond" /\ save \in {"save1", "save2"} OBVIOUS
<1>3. cond \in Versions BY DEF DataTypeOK
<1>4. DataTypeOK' BY <1>3, DatasetAssumption DEF DataTypeOK
<1>5. Order' BY <1>1, <1>2 DEF Order, Builders, Training, Export
<1>6. CacheInv' BY <1>1, <1>3 DEF CacheInv, CacheHonest, CacheIsNewer, Versions
<1>7. MatchInv' BY <1>1, <1>2 DEF MatchInv, HasClips, Match
<1>8. ListInv' BY <1>1, <1>2 DEF ListInv, Builders, Training, Export, ListsSound
<1>9. ExportInv'
  <2>1. Current' = Current /\ ValPart' = ValPart
    BY DEF Current, ValPart, Scanned, Stratified, OfType
  <2> QED BY <1>1, <1>2, <2>1 DEF ExportInv, HasKeys, HasClips, Builders, Export
<1>10. WriterInv' BY DEF WriterInv
<1> QED BY <1>4, <1>5, <1>6, <1>7, <1>8, <1>9, <1>10

LEMMA SaveCacheKeeps ==
  ASSUME DataInv, NEW b \in Builders, SaveCache(b)
  PROVE  DataInv'
<1> USE DEF DataInv, SaveCache, Saving, world, history
<1>1. \A x \in Builders : pc'[x] = IF x = b THEN "scan" ELSE pc[x]
  BY DEF DataTypeOK
<1>2. pc[b] \in {"save1", "save2"} OBVIOUS
<1>3. DataTypeOK' BY DEF DataTypeOK
<1>4. Order' BY <1>1, <1>2 DEF Order, Builders, Training, Export
<1>5. CacheInv' BY <1>1, <1>2 DEF CacheInv, CacheHonest, CacheIsNewer
<1>6. MatchInv' BY <1>1 DEF MatchInv, HasClips, Match
<1>7. ListInv' BY <1>1, <1>2 DEF ListInv, Builders, Training, Export, ListsSound
<1>8. ExportInv'
  <2>1. Current' = Current /\ ValPart' = ValPart
    BY DEF Current, ValPart, Scanned, Stratified, OfType
  <2> QED BY <1>1, <1>2, <2>1 DEF ExportInv, HasKeys, HasClips, Builders, Export
<1>9. WriterInv' BY DEF WriterInv
<1> QED BY <1>3, <1>4, <1>5, <1>6, <1>7, <1>8, <1>9

LEMMA ScanKeeps ==
  ASSUME DataInv, NEW b \in Builders, Scan(b)
  PROVE  DataInv'
<1> USE DEF DataInv, Scan, world, files, history
<1>1. \A x \in Builders : /\ pc'[x] = IF x = b THEN "split" ELSE pc[x]
                          /\ matched'[x] = IF x = b THEN Scanned(keys[b]) ELSE matched[x]
  BY DEF DataTypeOK
<1>2. pc[b] = "scan" /\ keys[b] \in SUBSET Species BY DEF DataTypeOK
<1>3. Scanned(keys[b]) \in SUBSET Clips /\ \A c \in Scanned(keys[b]) : Match(c, keys[b]) \in Species
  BY <1>2, ScannedMatch
<1>4. DataTypeOK' BY <1>1, <1>3 DEF DataTypeOK
<1>5. Order' BY <1>1, <1>2 DEF Order, Builders, Training, Export
<1>6. CacheInv' BY <1>1 DEF CacheInv, CacheHonest, CacheIsNewer
<1>7. MatchInv' BY <1>1, <1>3 DEF MatchInv, HasClips, Match
<1>8. ListInv' BY <1>1, <1>2 DEF ListInv, Builders, Training, Export, ListsSound
<1>9. ExportInv'
  <2>1. Current' = Current /\ ValPart' = ValPart
    BY DEF Current, ValPart, Scanned, Stratified, OfType
  <2>2. ~ drifted /\ ~ straddled /\ b \in Export => Scanned(keys[b]) = Current
    BY <1>2 DEF ExportInv, HasKeys, Current
  <2> QED BY <1>1, <1>2, <2>1, <2>2 DEF ExportInv, HasKeys, HasClips, Builders, Export
<1>10. WriterInv' BY DEF WriterInv
<1> QED BY <1>4, <1>5, <1>6, <1>7, <1>8, <1>9, <1>10

(* The samples of a construction that does not refuse are what the         *)
(* whitelist keeps.                                                        *)
LEMMA FinishEffect ==
  ASSUME DataTypeOK, NEW b \in Builders, NEW cs \in SUBSET Clips, Finish(b, cs)
  PROVE  /\ pc'[b] \in {"ready", "refused"}
         /\ pc'[b] = "ready" => samples'[b] = Whitelisted(cs, keys[b])
         /\ pc'[b] = "refused" => samples' = samples
         /\ \A x \in Builders \ {b} : pc'[x] = pc[x] /\ samples'[x] = samples[x]
         /\ pc' \in [Builders -> {"off", "cond", "save1", "save2", "scan", "split", "other",
                                  "ready", "refused"}]
         /\ samples' \in [Builders -> SUBSET Clips]
<1>1. Whitelisted(cs, keys[b]) \in SUBSET Clips BY DEF Whitelisted
<1> QED BY <1>1 DEF Finish, DataTypeOK

LEMMA FallbackKeeps ==
  ASSUME DataInv, NEW b \in Builders, Fallback(b)
  PROVE  DataInv'
<1> USE DEF DataInv, world, files, history
<1> DEFINE val == Stratified(matched[b], keys[b])
           cs  == IF ListOf(b) = "val" THEN val ELSE matched[b] \ val
<1>1. /\ pc[b] = "split" /\ Finish(b, cs)
      /\ UNCHANGED <<world, files, keys, matched, want, byFile, writer, history>>
  BY DEF Fallback
<1>2. keys[b] \in SUBSET Species /\ matched[b] \in SUBSET Clips BY DEF DataTypeOK
<1>3. val \subseteq matched[b] BY <1>2, StratifiedPart
<1>4. cs \subseteq matched[b] BY <1>3
<1> HIDE DEF val, cs
<1>5. /\ pc'[b] \in {"ready", "refused"}
      /\ pc'[b] = "ready" => samples'[b] = Whitelisted(cs, keys[b])
      /\ pc'[b] = "refused" => samples' = samples
      /\ \A x \in Builders \ {b} : pc'[x] = pc[x] /\ samples'[x] = samples[x]
      /\ pc' \in [Builders -> {"off", "cond", "save1", "save2", "scan", "split", "other",
                               "ready", "refused"}]
      /\ samples' \in [Builders -> SUBSET Clips]
  BY <1>1, <1>2, <1>4, FinishEffect
<1>6. Whitelist = Species => Whitelisted(cs, keys[b]) = cs
  BY <1>1, <1>4, AllKept DEF MatchInv, HasClips
<1>7. DataTypeOK' BY <1>1, <1>5 DEF DataTypeOK
<1>8. Order' BY <1>1, <1>5 DEF Order, Builders, Training, Export
<1>9. CacheInv' BY <1>1, <1>5 DEF CacheInv, CacheHonest, CacheIsNewer
<1>10. MatchInv' BY <1>1, <1>5 DEF MatchInv, HasClips, Match
<1>11. ListInv' BY <1>1, <1>5 DEF ListInv, Builders, Training, Export, ListsSound
<1>12. ExportInv'
  <2>1. Current' = Current /\ ValPart' = ValPart
    BY <1>1 DEF Current, ValPart, Scanned, Stratified, OfType
  <2>2. ~ drifted /\ ~ straddled /\ b \in Export =>
          cs = IF b = "xval" THEN ValPart ELSE Current \ ValPart
    BY <1>1 DEF ExportInv, HasKeys, HasClips, Export, ListOf, ValPart, cs, val
  <2> QED
    BY <1>1, <1>5, <1>6, <2>1, <2>2 DEF ExportInv, HasKeys, HasClips, Builders, Export
<1>13. WriterInv'
  <2>1. writer # "idle" => pc["xtrain"] = "ready" /\ pc["xval"] = "ready"
    BY DEF Order
  <2>2. writer # "idle" => samples'["xtrain"] = samples["xtrain"] /\ samples'["xval"] = samples["xval"]
    BY <1>1, <1>5, <2>1 DEF Builders, Export
  <2> QED BY <1>1, <2>2 DEF WriterInv
<1> QED BY <1>7, <1>8, <1>9, <1>10, <1>11, <1>12, <1>13

LEMMA ReadOwnKeeps ==
  ASSUME DataInv, NEW b \in Builders, ReadOwn(b)
  PROVE  DataInv'
<1> USE DEF DataInv, ReadOwn, UsesLists, world, files, history
<1>1. \A x \in Builders : /\ pc'[x] = IF x = b THEN "other" ELSE pc[x]
                          /\ want'[x] = IF x = b THEN lists[ListOf(b)].clips ELSE want[x]
                          /\ x # b => byFile'[x] = byFile[x]
  BY DEF DataTypeOK
<1>2. pc[b] = "split" /\ b \in Training OBVIOUS
<1>3. DataTypeOK'
  <2>1. lists[ListOf(b)].clips \in SUBSET Clips BY <1>2 DEF DataTypeOK, ListOf, Training
  <2> QED BY <1>1, <2>1 DEF DataTypeOK
<1>4. Order' BY <1>1, <1>2 DEF Order, Builders, Training, Export
<1>5. CacheInv' BY <1>1 DEF CacheInv, CacheHonest, CacheIsNewer
<1>6. MatchInv' BY <1>1, <1>2 DEF MatchInv, HasClips, Match
<1>7. ListInv' BY <1>1, <1>2 DEF ListInv, Builders, Training, Export, ListsSound
<1>8. ExportInv'
  <2>1. Current' = Current /\ ValPart' = ValPart
    BY DEF Current, ValPart, Scanned, Stratified, OfType
  <2> QED BY <1>1, <1>2, <2>1 DEF ExportInv, HasKeys, HasClips, Builders, Training, Export
<1>9. WriterInv' BY DEF WriterInv
<1> QED BY <1>3, <1>4, <1>5, <1>6, <1>7, <1>8, <1>9

LEMMA ReadOtherKeeps ==
  ASSUME DataInv, NEW b \in Builders, ReadOther(b)
  PROVE  DataInv'
<1> USE DEF DataInv, world, files, history
<1>1. /\ pc[b] = "other"
      /\ UNCHANGED <<world, files, keys, matched, want, byFile, writer, history>>
  BY DEF ReadOther
<1>2. b \in Training BY <1>1 DEF Order, Builders
<1>3. /\ pc'[b] \in {"ready", "refused"}
      /\ pc'[b] = "ready" => /\ samples'[b] = Whitelisted(want[b], keys[b])
                             /\ ListsSound(b, lists[OtherOf(b)].clips)
      /\ pc'[b] = "refused" => samples' = samples
      /\ \A x \in Builders \ {b} : pc'[x] = pc[x] /\ samples'[x] = samples[x]
      /\ pc' \in [Builders -> {"off", "cond", "save1", "save2", "scan", "split", "other",
                               "ready", "refused"}]
      /\ samples' \in [Builders -> SUBSET Clips]
  <2>1. CASE ListsSound(b, lists[OtherOf(b)].clips)
    <3>1. Finish(b, want[b]) BY <2>1 DEF ReadOther
    <3>2. want[b] \in SUBSET Clips BY DEF DataTypeOK
    <3> QED BY <2>1, <3>1, <3>2, FinishEffect
  <2>2. CASE ~ ListsSound(b, lists[OtherOf(b)].clips)
    BY <2>2 DEF ReadOther, Refuse, DataTypeOK
  <2> QED BY <2>1, <2>2
<1>4. pc'[b] = "ready" /\ Whitelist = Species => samples'[b] = want[b]
  BY <1>1, <1>3, AllKept DEF MatchInv, HasClips, ListsSound
<1>5. DataTypeOK' BY <1>1, <1>3 DEF DataTypeOK
<1>6. Order' BY <1>1, <1>3 DEF Order, Builders, Training, Export
<1>7. CacheInv' BY <1>1, <1>3 DEF CacheInv, CacheHonest, CacheIsNewer
<1>8. MatchInv' BY <1>1, <1>3 DEF MatchInv, HasClips, Match
<1>9. ListInv'
  BY <1>1, <1>2, <1>3, <1>4 DEF ListInv, Builders, Training, Export, ListsSound
<1>10. ExportInv'
  <2>1. Current' = Current /\ ValPart' = ValPart
    BY <1>1 DEF Current, ValPart, Scanned, Stratified, OfType
  <2>2. \A x \in Export : pc'[x] = pc[x] /\ samples'[x] = samples[x]
    BY <1>2, <1>3 DEF Builders, Training, Export
  <2> QED BY <1>1, <2>1, <2>2 DEF ExportInv
<1>11. WriterInv'
  <2>1. samples'["xtrain"] = samples["xtrain"] /\ samples'["xval"] = samples["xval"]
    BY <1>2, <1>3 DEF Builders, Training, Export
  <2> QED BY <1>1, <2>1 DEF WriterInv
<1> QED BY <1>5, <1>6, <1>7, <1>8, <1>9, <1>10, <1>11

-----------------------------------------------------------------------------
(* The export writes its lists; the data changes.                          *)
LEMMA WriteKeeps ==
  ASSUME DataInv, NEW l \in Training, NEW cs \in SUBSET Clips, Write(l, cs),
         writer' \in {"train", "between", "val", "done"}, pc["xval"] = "ready",
         WriterInv'
  PROVE  DataInv'
<1> USE DEF DataInv, Write, world, local
<1>1. DataTypeOK' BY DEF DataTypeOK
<1>2. Order' BY DEF Order
<1>3. CacheInv' BY DEF CacheInv, CacheHonest, CacheIsNewer
<1>4. MatchInv' BY DEF MatchInv, HasClips, Match
<1>5. ListInv' BY DEF ListInv
<1>6. ExportInv'
  <2>1. Current' = Current /\ ValPart' = ValPart
    BY DEF Current, ValPart, Scanned, Stratified, OfType
  <2> QED BY <2>1 DEF ExportInv
<1> QED BY <1>1, <1>2, <1>3, <1>4, <1>5, <1>6

LEMMA ExportListsKeeps ==
  ASSUME DataInv, ExportLists
  PROVE  DataInv'
<1>1. /\ lists \in [Training -> [exists : BOOLEAN, clips : SUBSET Clips]]
      /\ samples["xtrain"] \in SUBSET Clips /\ samples["xval"] \in SUBSET Clips
      /\ "train" \in Training /\ "val" \in Training
  BY DEF DataInv, DataTypeOK, Builders, Training, Export
<1>2. pc["xval"] = "ready"
  BY DEF DataInv, Order, ExportLists, BeginTrainList, EndTrainList, BeginValList, EndValList
<1>3. CASE BeginTrainList
  <2>1. PICK part \in SUBSET samples["xtrain"] : Write("train", part)
    BY <1>3 DEF BeginTrainList
  <2>2. writer' = "train" /\ part \in SUBSET Clips BY <1>1, <1>3 DEF BeginTrainList
  <2>3. WriterInv' BY <2>2 DEF WriterInv
  <2> QED BY <1>1, <1>2, <2>1, <2>2, <2>3, WriteKeeps
<1>4. CASE EndTrainList
  <2> USE <1>4 DEF EndTrainList
  <2>1. WriterInv' BY <1>1 DEF Write, WriterInv, local
  <2> QED BY <1>1, <1>2, <2>1, WriteKeeps
<1>5. CASE BeginValList
  <2>1. PICK part \in SUBSET samples["xval"] : Write("val", part)
    BY <1>5 DEF BeginValList
  <2>2. writer = "between" /\ writer' = "val" /\ part \in SUBSET Clips
    BY <1>1, <1>5 DEF BeginValList
  <2>3. WriterInv' BY <1>1, <2>1, <2>2 DEF DataInv, Write, WriterInv, local
  <2> QED BY <1>1, <1>2, <2>1, <2>2, <2>3, WriteKeeps
<1>6. CASE EndValList
  <2> USE <1>6 DEF EndValList
  <2>1. WriterInv' BY <1>1 DEF DataInv, Write, WriterInv, local
  <2> QED BY <1>1, <1>2, <2>1, WriteKeeps
<1> QED BY <1>3, <1>4, <1>5, <1>6 DEF ExportLists

LEMMA DriftKeeps ==
  ASSUME DataInv, AddClip \/ UpdateCond
  PROVE  DataInv'
<1> USE DEF DataInv, AddClip, UpdateCond, files, local
<1>1. /\ UNCHANGED <<held, cache, lists, local, writer, rewritten>>
      /\ drifted' = TRUE
  OBVIOUS
<1>2. DataTypeOK' BY DatasetAssumption DEF DataTypeOK, Versions
<1>3. Order' BY <1>1 DEF Order
<1>4. CacheInv'
  <2>1. CASE AddClip BY <2>1 DEF CacheInv, CacheHonest, CacheIsNewer
  <2>2. CASE UpdateCond BY <2>2 DEF CacheInv, CacheHonest, CacheIsNewer, Saving
  <2> QED BY <2>1, <2>2
<1>5. MatchInv' BY <1>1 DEF MatchInv, HasClips, Match
<1>6. ListInv' BY <1>1 DEF ListInv, ListsSound
<1>7. ExportInv' BY <1>1 DEF ExportInv
<1>8. WriterInv' BY <1>1 DEF WriterInv
<1> QED BY <1>2, <1>3, <1>4, <1>5, <1>6, <1>7, <1>8

LEMMA DataInvNext == DataInv /\ [DataNext]_dataVars => DataInv'
<1> SUFFICES ASSUME DataInv, [DataNext]_dataVars PROVE DataInv' OBVIOUS
<1>1. ASSUME NEW b \in Builders, Construct(b) PROVE DataInv'
  BY <1>1, BeginKeeps, LoadCacheKeeps, NormalizeCondKeeps, SaveCacheKeeps, ScanKeeps,
     FallbackKeeps, ReadOwnKeeps, ReadOtherKeeps DEF Construct
<1>2. CASE UNCHANGED dataVars
  <2> USE <1>2 DEF dataVars, world, files, local, history
  <2>1. Current' = Current /\ ValPart' = ValPart
    BY DEF Current, ValPart, Scanned, Stratified, OfType
  <2> QED
    BY ZenonT(40), <2>1 DEF DataInv, DataTypeOK, Order, CacheInv, CacheHonest, CacheIsNewer,
       MatchInv, Match,
                ListInv, ListsSound, ExportInv, WriterInv
<1> QED BY <1>1, <1>2, ExportListsKeeps, DriftKeeps DEF DataNext

LEMMA DataInvariant == DataSpec => []DataInv
BY DataInvInit, DataInvNext, PTL DEF DataSpec

-----------------------------------------------------------------------------
(* A cache of the normalised cond.npy that the next construction would     *)
(* load is that of the cond.npy on disk, for every interleaving of loads,  *)
(* saves and edits, except an edit between a load and its save             *)
(* (data/anytop_dataset.py).                                               *)
THEOREM CacheHonestCorrect == DataSpec => []CacheHonest
<1>1. DataInv => CacheHonest BY DEF DataInv, CacheInv
<1> QED BY <1>1, DataInvariant, PTL

(* Two loads of the lists that stand divide the clips between them.        *)
LEMMA Partition == DataInv => SplitsPartition
<1> SUFFICES ASSUME DataInv, \A b \in Training : pc[b] = "ready" /\ byFile[b],
                    ~ rewritten, Whitelist = Species
             PROVE  /\ samples["train"] \cap samples["val"] = {}
                    /\ samples["train"] \cup samples["val"] \cup held = matched["val"] \cup held
  BY DEF SplitsPartition
<1>1. "train" \in Training /\ "val" \in Training BY DEF Training
<1>2. \A b \in Training : /\ want[b] = lists[ListOf(b)].clips /\ samples[b] = want[b]
                          /\ ListsSound(b, lists[OtherOf(b)].clips)
  BY DEF DataInv, ListInv
<1>3. ListsSound("val", lists["train"].clips) BY <1>1, <1>2 DEF OtherOf, ListOf
<1>4. samples["train"] = lists["train"].clips /\ samples["val"] = want["val"]
  BY <1>1, <1>2 DEF ListOf
<1> QED BY <1>3, <1>4 DEF ListsSound

(* Exported lists divide the clips as the algorithm does.                  *)
LEMMA Exported == DataInv => ExportServes
<1> SUFFICES ASSUME DataInv, writer = "done", ~ drifted, ~ straddled, Whitelist = Species
             PROVE  /\ ListsExist
                    /\ lists["train"].clips \cap lists["val"].clips = {}
                    /\ lists["train"].clips \cup lists["val"].clips = Current
                    /\ lists["val"].clips = ValPart
  BY DEF ExportServes, Current, ValPart
<1>1. pc["xtrain"] = "ready" /\ pc["xval"] = "ready" BY DEF DataInv, Order
<1>2. samples["xtrain"] = Current \ ValPart /\ samples["xval"] = ValPart
  BY <1>1 DEF DataInv, ExportInv, Export
<1>3. /\ lists["train"] = [exists |-> TRUE, clips |-> samples["xtrain"]]
      /\ lists["val"] = [exists |-> TRUE, clips |-> samples["xval"]]
  BY DEF DataInv, WriterInv
<1>4. ValPart \subseteq Current
  <2>1. KeysOf[cond] \in SUBSET Species BY DatasetAssumption DEF DataInv, DataTypeOK
  <2>2. Current \in SUBSET Clips BY <2>1, ScannedMatch DEF DataInv, Current
  <2> QED BY <2>1, <2>2, StratifiedPart DEF ValPart
<1> QED BY <1>2, <1>3, <1>4 DEF ListsExist

(* Training and validation clips of a process never overlap and leave out  *)
(* only what is held, when both sets are taken by the lists, the lists are *)
(* not exported again since the first load, and there is no whitelist,     *)
(* whatever is added to the directory between the two loads; and lists     *)
(* exported from unchanged data, with nothing held and no whitelist,       *)
(* divide it as the stratified algorithm does.                             *)
THEOREM SplitsSoundCorrect == DataSpec => []SplitsSound
<1>1. DataInv => SplitsSound BY Partition, Exported DEF DataInv, SplitsSound
<1> QED BY <1>1, DataInvariant, PTL
=============================================================================
