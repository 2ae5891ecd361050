--------------------------- MODULE BackboneProofs ---------------------------
(***************************************************************************)
(* Proofs about Backbone for any command lines of two ranks or more, any   *)
(* number of clips, epochs and launches, and any moments at which a job is *)
(* killed or the token cache is exported again.                            *)
(***************************************************************************)
EXTENDS Backbone, Integers, TLAPS

(* Updates first to n of a run that nothing interrupts, all computed with  *)
(* the normalisation x.                                                    *)
Trained(c, x, n) ==
  [i \in 1 .. n |-> [lr |-> i - 1, stats |-> x, grads |-> Uninterrupted(c, i - 1).grads]]

(* Micro-batches of rank r in epoch e, from cycle k on; the first n.       *)
Micros(c, e, r, k) ==
  [m \in Nat |-> Batch(Draws(c, e, r), k * c.accum + m, IF c.random THEN e ELSE Baked)]

Taken(f, n) == [m \in 1 .. n |-> f[m]]

Nets(c)  == {Trained(c, x, n) : x \in 0 .. Mixed, n \in 0 .. (Epochs * StepsPerEpoch(c))}
Grads(c) == {Taken(Micros(c, e, r, k), n) :
               e \in 1 .. Epochs, r \in Ranks(c), k \in Nat, n \in 0 .. c.accum}

Proc(c) == [pc : Pcs, epoch : 0 .. Epochs, it : 0 .. Batches(c, 0),
            caption : 0 .. Epochs, fork : 0 .. Epochs, grads : Grads(c), net : Nets(c),
            key : 0 .. (MaxExports + 1), stats : 0 .. Mixed]

Early == {"off", "open", "stats", "scan", "bcast"}
Late(p) == p.pc \notin Early \cup {"failed"}
Synced(p) == p.pc \notin Early /\ (p.pc = "failed" => p.net # <<>>)

(* Complete cycles of micro-batches behind a process.                      *)
Cycles(c, p) ==
  p.epoch * StepsPerEpoch(c) +
    CASE p.pc = "train" -> p.it \div c.accum
      [] p.pc = "grad"  -> (p.it \div c.accum) - 1
      [] OTHER -> 0

MayLoad(c, k) == k = NoCkpt \/ k.conf = c

(* What one process has done, given the command line and the checkpoint.   *)
Sound(c, k, p, r) ==
  /\ r # 0 => p.pc \notin {"stats", "scan", "arm", "val", "gen"}
  /\ p.pc \in Early => p.epoch = 0 /\ p.net = <<>>
  /\ p.pc \in {"epoch", "train", "grad"} => p.epoch < Epochs
  /\ p.pc = "val" => p.epoch > 0
  /\ p.pc \in {"train", "grad"} =>
       p.caption = p.epoch + 1 /\ (c.random => p.fork = p.epoch + 1)
  /\ p.pc = "train" =>
       p.grads = Taken(Micros(c, p.epoch + 1, r, p.it \div c.accum), p.it % c.accum)
  /\ p.pc = "grad" =>
       /\ p.it % c.accum = 0 /\ p.it > 0
       /\ p.grads = Taken(Micros(c, p.epoch + 1, r, (p.it \div c.accum) - 1), c.accum)
  /\ p.pc \in {"stats", "scan", "bcast"} => MayLoad(c, k)
  /\ Late(p) => p.net = Trained(c, p.stats, Cycles(c, p))
  /\ \E n \in 0 .. (Epochs * StepsPerEpoch(c)) : p.net = Trained(c, p.stats, n)

RanksInv == \A r \in Ranks(conf) : Sound(conf, ckpt, rank[r], r)

(* Ranks stay in step: same updates, same normalisation.                   *)
StepInv ==
  \A r, s \in Ranks(conf) :
    /\ Late(rank[r]) => rank[s].pc \notin Early
    /\ Late(rank[r]) /\ Late(rank[s]) => Cycles(conf, rank[r]) = Cycles(conf, rank[s])
    /\ Synced(rank[r]) /\ Synced(rank[s]) => rank[r].stats = rank[s].stats

(* The checkpoint is that of a run of its own command line.                *)
CkptInv ==
  ckpt # NoCkpt =>
    /\ ckpt.conf \in Configs /\ ckpt.epoch \in 0 .. (Epochs - 1) /\ ckpt.stats \in 0 .. Mixed
    /\ ckpt.net = Trained(ckpt.conf, ckpt.stats, (ckpt.epoch + 1) * StepsPerEpoch(ckpt.conf))

(* A file of mixed sums is filed under an export that is gone.             *)
StatsInv ==
  LET p == rank[0]
  IN  /\ statsFile.state = "whole" => statsFile.stats = statsFile.key \/ statsFile.key < cache
      /\ p.pc \in {"open", "stats", "scan"} => job = "up"
      /\ p.pc = "open" => ~ overlap
      /\ p.pc \in {"stats", "scan"} => IF overlap THEN p.key < cache ELSE p.key = cache
      /\ p.pc \in {"scan", "bcast"} /\ ~ overlap => p.stats = p.key

(* Without a verified sidecar rank 0 gets nowhere, and no rank trains.     *)
VerifiedInv ==
  conf.random /\ sidecar # "pinned" =>
    /\ rank[0].pc \in {"off", "open", "failed"}
    /\ \A r \in Ranks(conf) : rank[r].net = <<>>

Types ==
  /\ job \in {"off", "up", "finished"} /\ conf \in Configs
  /\ rank \in [Ranks(conf) -> Proc(conf)]
  /\ statsFile \in [state : {"none", "torn", "whole"}, key : 0 .. (MaxExports + 1),
                    stats : 0 .. Mixed]
  /\ cache \in 1 .. (MaxExports + 1) /\ sidecar \in Sidecars /\ overlap \in BOOLEAN
  /\ launches \in 0 .. MaxLaunches /\ faults \in 0 .. MaxFaults

IInv == Types /\ RanksInv /\ StepInv /\ CkptInv /\ StatsInv /\ VerifiedInv

-----------------------------------------------------------------------------
(* Division.                                                               *)
LEMMA Divided ==
  ASSUME NEW a \in Nat \ {0}, NEW n \in Nat
  PROVE  n \div a \in Nat /\ n % a \in 0 .. (a - 1) /\ n = a * (n \div a) + (n % a)
<1>1. n \div a \in Nat BY SMTT(20)
<1>2. n % a \in 0 .. (a - 1) BY SMTT(20)
<1>3. n = a * (n \div a) + (n % a) BY SMTT(20)
<1> QED BY <1>1, <1>2, <1>3

LEMMA SameQuotient ==
  ASSUME NEW a \in Nat \ {0}, NEW p \in Nat, NEW q \in Nat,
         NEW r \in 0 .. (a - 1), NEW s \in 0 .. (a - 1), a * p + r = a * q + s
  PROVE  p = q /\ r = s
<1>1. ASSUME NEW x \in Nat, NEW y \in Nat, x < y PROVE a * x + a <= a * y
  <2>1. y - x - 1 \in Nat /\ a * (y - x - 1) >= 0 BY <1>1, SMTT(20)
  <2>2. a * (y - x - 1) = a * y - a * x - a BY <2>1, SMTT(20)
  <2>3. a * x \in Nat /\ a * y \in Nat BY SMTT(20)
  <2> QED BY <2>1, <2>2, <2>3
<1>2. a * p \in Nat /\ a * q \in Nat BY SMTT(20)
<1>3. ~ (p < q) BY <1>1, <1>2
<1>4. ~ (q < p) BY <1>1, <1>2
<1> QED BY <1>3, <1>4

LEMMA Quotient ==
  ASSUME NEW a \in Nat \ {0}, NEW q \in Nat, NEW r \in 0 .. (a - 1)
  PROVE  (q * a + r) \div a = q /\ (q * a + r) % a = r
<1> DEFINE n == q * a + r
<1>1. n \in Nat /\ n = a * q + r BY SMTT(20)
<1>2. n \div a \in Nat /\ n % a \in 0 .. (a - 1) /\ n = a * (n \div a) + (n % a)
  BY <1>1, Divided
<1> HIDE DEF n
<1>3. n \div a = q /\ n % a = r BY <1>1, <1>2, SameQuotient
<1> QED BY <1>3 DEF n

LEMMA NextQuotient ==
  ASSUME NEW a \in Nat \ {0}, NEW n \in Nat
  PROVE  /\ (n + 1) % a = 0 => (n + 1) \div a = n \div a + 1 /\ n % a = a - 1
         /\ (n + 1) % a # 0 => (n + 1) \div a = n \div a /\ (n + 1) % a = (n % a) + 1
<1> DEFINE q == n \div a
           r == n % a
<1>1. q \in Nat /\ r \in 0 .. (a - 1) /\ n = a * q + r BY Divided
<1> HIDE DEF q, r
<1>2. a * q = q * a /\ (q + 1) * a = q * a + a /\ q * a \in Nat BY <1>1, SMTT(20)
<1>3. CASE r = a - 1
  <2>1. n + 1 = (q + 1) * a + 0 BY <1>1, <1>2, <1>3
  <2>2. ((q + 1) * a + 0) \div a = q + 1 /\ ((q + 1) * a + 0) % a = 0 BY <1>1, Quotient
  <2> QED BY <2>1, <2>2, <1>3 DEF q, r
<1>4. CASE r # a - 1
  <2>1. n + 1 = q * a + (r + 1) /\ r + 1 \in 0 .. (a - 1) BY <1>1, <1>2, <1>4
  <2>2. (q * a + (r + 1)) \div a = q /\ (q * a + (r + 1)) % a = r + 1 BY <1>1, <2>1, Quotient
  <2> QED BY <2>1, <2>2, <1>1, <1>4 DEF q, r
<1> QED BY <1>3, <1>4

LEMMA Monotone ==
  ASSUME NEW a \in Nat \ {0}, NEW m \in Nat, NEW n \in Nat, m <= n
  PROVE  m \div a <= n \div a
<1>1. ASSUME NEW p \in Nat, NEW q \in Nat, NEW r \in 0 .. (a - 1), NEW s \in 0 .. (a - 1),
             m = a * p + r, n = a * q + s, q < p
      PROVE  FALSE
  <2>1. p - q - 1 \in Nat BY <1>1
  <2>2. a * (p - q - 1) \in Nat /\ a * (p - q - 1) = a * p - a * q - a BY <2>1, SMTT(20)
  <2>3. a * p \in Nat /\ a * q \in Nat BY SMTT(20)
  <2> DEFINE x == a * p
             y == a * q
  <2>4. x \in Nat /\ y \in Nat /\ x - y - a \in Nat /\ m = x + r /\ n = y + s
    BY <1>1, <2>2, <2>3
  <2> HIDE DEF x, y
  <2> QED BY <2>4
<1> DEFINE p == m \div a
           q == n \div a
           r == m % a
           s == n % a
<1>2. p \in Nat /\ q \in Nat /\ r \in 0 .. (a - 1) /\ s \in 0 .. (a - 1)
      /\ m = a * p + r /\ n = a * q + s
  BY Divided
<1> HIDE DEF p, q, r, s
<1>3. ~ (q < p) BY <1>1, <1>2
<1> QED BY <1>2, <1>3 DEF p, q

LEMMA ZeroDivided == ASSUME NEW a \in Nat \ {0} PROVE 0 \div a = 0 /\ 0 % a = 0
<1>1. 0 * a + 0 = 0 OBVIOUS
<1> QED BY <1>1, Quotient

-----------------------------------------------------------------------------
(* Constants and command lines.                                            *)
LEMMA Constants ==
  /\ Clips \in Nat \ {0} /\ BatchSize \in Nat \ {0} /\ Epochs \in Nat \ {0}
  /\ MaxLaunches \in Nat /\ MaxExports \in Nat /\ MaxFaults \in Nat
BY BackboneAssumption

LEMMA ConfigFields ==
  ASSUME NEW c \in Configs
  PROVE  /\ c.world \in Nat \ {0} /\ c.accum \in Nat \ {0} /\ c.random \in BOOLEAN
         /\ 0 \in Ranks(c) /\ Ranks(c) \subseteq Nat
<1>1. c \in Config BY BackboneAssumption
<1>2. c.world \in Nat \ {0} /\ c.accum \in Nat \ {0} /\ c.random \in BOOLEAN BY <1>1 DEF Config
<1> QED BY <1>2 DEF Ranks

LEMMA Sizes ==
  ASSUME NEW c \in Configs
  PROVE  /\ NumSamples(c) \in Nat
         /\ StepsPerEpoch(c) \in Nat
         /\ \A r : Batches(c, r) = Batches(c, 0) /\ Batches(c, r) \in Nat
         /\ StepsPerEpoch(c) = Batches(c, 0) \div c.accum
<1>1. NumSamples(c) \in Nat BY ConfigFields, Constants, Divided DEF NumSamples
<1>2. \A r : Batches(c, r) = Batches(c, 0) /\ Batches(c, r) \in Nat
  BY <1>1, Constants, Divided DEF Batches
<1>3. StepsPerEpoch(c) \in Nat BY <1>2, ConfigFields, Divided DEF StepsPerEpoch
<1> QED BY <1>1, <1>2, <1>3 DEF StepsPerEpoch

LEMMA EpochSteps ==
  ASSUME NEW c \in Configs, NEW e \in Nat
  PROVE  /\ e * StepsPerEpoch(c) \in Nat
         /\ (e + 1) * StepsPerEpoch(c) = e * StepsPerEpoch(c) + StepsPerEpoch(c)
         /\ e <= Epochs => e * StepsPerEpoch(c) <= Epochs * StepsPerEpoch(c)
<1> DEFINE s == StepsPerEpoch(c)
<1>1. s \in Nat /\ Epochs \in Nat BY Sizes, Constants
<1> HIDE DEF s
<1>2. e * s \in Nat /\ (e + 1) * s = e * s + s BY <1>1, SMTT(20)
<1>3. ASSUME e <= Epochs PROVE e * s <= Epochs * s
  <2>1. Epochs - e \in Nat BY <1>1, <1>3
  <2>2. (Epochs - e) * s \in Nat /\ (Epochs - e) * s = Epochs * s - e * s
    BY <1>1, <2>1, SMTT(20)
  <2>3. Epochs * s \in Nat BY <1>1, SMTT(20)
  <2> QED BY <1>2, <2>2, <2>3
<1> QED BY <1>2, <1>3 DEF s

-----------------------------------------------------------------------------
(* Sequences of micro-batches and of updates.                              *)
LEMMA TakenNothing == ASSUME NEW f PROVE Taken(f, 0) = << >>
BY DEF Taken

LEMMA TakenOneMore ==
  ASSUME NEW S, NEW f \in [Nat -> S], NEW n \in Nat
  PROVE  /\ Append(Taken(f, n), f[n + 1]) = Taken(f, n + 1)
         /\ Taken(f, n) \in Seq(S) /\ Len(Taken(f, n)) = n
<1>1. Taken(f, n) \in [1 .. n -> S] BY DEF Taken
<1>2. Taken(f, n) \in Seq(S) /\ Len(Taken(f, n)) = n BY <1>1
<1>3. f[n + 1] \in S OBVIOUS
<1> QED BY <1>1, <1>2, <1>3 DEF Taken

LEMMA TrainedNothing ==
  ASSUME NEW c \in Configs, NEW x \in 0 .. Mixed
  PROVE  /\ Trained(c, x, 0) = << >>
         /\ << >> \in Nets(c)
         /\ 0 \in 0 .. (Epochs * StepsPerEpoch(c))
<1>1. Trained(c, x, 0) = << >> BY DEF Trained
<1>2. 0 \in 0 .. (Epochs * StepsPerEpoch(c)) BY Constants, EpochSteps
<1> QED BY <1>1, <1>2 DEF Nets

LEMMA NoGrads == ASSUME NEW c \in Configs PROVE << >> \in Grads(c)
<1>1. 1 \in 1 .. Epochs /\ 0 \in Ranks(c) /\ 0 \in 0 .. c.accum
  BY Constants, ConfigFields, Sizes
<1>2. Taken(Micros(c, 1, 0, 0), 0) = << >> BY TakenNothing
<1> QED BY <1>1, <1>2 DEF Grads

(* Trained sequences: how long they are, and one more update.              *)
LEMMA TrainedLength ==
  ASSUME NEW c, NEW x, NEW n \in Nat
  PROVE  /\ Len(Trained(c, x, n)) = n
         /\ \A i \in 1 .. n : Trained(c, x, n)[i] =
              [lr |-> i - 1, stats |-> x, grads |-> Uninterrupted(c, i - 1).grads]
         /\ n > 0 => Trained(c, x, n) # << >>
<1> DEFINE u(i) == [lr |-> i - 1, stats |-> x, grads |-> Uninterrupted(c, i - 1).grads]
           S == {u(i) : i \in Nat}
<1>1. Trained(c, x, n) \in [1 .. n -> S] BY DEF Trained
<1>2. Trained(c, x, n) \in Seq(S) /\ Len(Trained(c, x, n)) = n BY <1>1
<1>3. \A i \in 1 .. n : Trained(c, x, n)[i] = u(i) BY DEF Trained
<1> QED BY <1>2, <1>3

LEMMA TrainedOneMore ==
  ASSUME NEW c, NEW x, NEW n \in Nat, NEW u,
         u = [lr |-> n, stats |-> x, grads |-> Uninterrupted(c, n).grads]
  PROVE  Append(Trained(c, x, n), u) = Trained(c, x, n + 1)
<1> DEFINE f == [i \in Nat |-> [lr |-> i - 1, stats |-> x, grads |-> Uninterrupted(c, i - 1).grads]]
           S == {f[i] : i \in Nat}
<1>1. f \in [Nat -> S] OBVIOUS
<1>2. Trained(c, x, n) = Taken(f, n) /\ Trained(c, x, n + 1) = Taken(f, n + 1)
  BY DEF Trained, Taken
<1>3. f[n + 1] = u
  <2>1. n + 1 \in Nat /\ n + 1 - 1 = n OBVIOUS
  <2> QED BY <2>1
<1> HIDE DEF f, S
<1>4. Append(Taken(f, n), f[n + 1]) = Taken(f, n + 1) BY <1>1, TakenOneMore
<1> QED BY <1>2, <1>3, <1>4

-----------------------------------------------------------------------------
(* Processes.                                                              *)
LEMMA ProcFields ==
  ASSUME NEW c \in Configs, NEW p \in Proc(c)
  PROVE  /\ p.pc \in Pcs /\ p.epoch \in 0 .. Epochs /\ p.it \in 0 .. Batches(c, 0)
         /\ p.caption \in 0 .. Epochs /\ p.fork \in 0 .. Epochs
         /\ p.grads \in Grads(c) /\ p.net \in Nets(c)
         /\ p.key \in 0 .. (MaxExports + 1) /\ p.stats \in 0 .. Mixed
         /\ p.epoch \in Nat /\ p.it \in Nat
BY Constants, Sizes DEF Proc

(* A process that has only been started.                                   *)
LEMMA StartedProc ==
  ASSUME NEW c \in Configs, NEW k, NEW r, NEW pc \in {"off", "open"}
  PROVE  LET p == [Off EXCEPT !.pc = pc]
         IN  /\ p \in Proc(c) /\ Sound(c, k, p, r) /\ ~ Late(p) /\ ~ Synced(p)
             /\ p.pc = pc /\ p.net = << >>
<1> DEFINE p == [Off EXCEPT !.pc = pc]
<1>1. /\ p.pc = pc /\ p.epoch = 0 /\ p.it = 0 /\ p.caption = 0 /\ p.fork = 0
      /\ p.grads = << >> /\ p.net = << >> /\ p.key = NoStats /\ p.stats = NoStats
  BY DEF Off
<1>2. p \in Proc(c)
  <2>1. p \in [pc : Pcs, epoch : {0}, it : {0}, caption : {0}, fork : {0}, grads : {<< >>},
               net : {<< >>}, key : {NoStats}, stats : {NoStats}]
    BY DEF Off, Pcs
  <2>2. 0 \in 0 .. Mixed /\ << >> \in Nets(c) /\ << >> \in Grads(c)
    <3>1. 0 \in 0 .. Mixed BY Constants DEF Mixed
    <3> QED BY <3>1, TrainedNothing, NoGrads
  <2>3. 0 \in 0 .. Epochs /\ 0 \in 0 .. Batches(c, 0) /\ 0 \in 0 .. (MaxExports + 1)
    BY Constants, Sizes
  <2> QED BY <2>1, <2>2, <2>3 DEF Proc, NoStats
<1> HIDE DEF p
<1>3. p.pc \in Early BY <1>1 DEF Early
<1>4. ~ Late(p) /\ ~ Synced(p) BY <1>3 DEF Late, Synced
<1>5. \E n \in 0 .. (Epochs * StepsPerEpoch(c)) : p.net = Trained(c, p.stats, n)
  <2>1. NoStats \in 0 .. Mixed BY Constants DEF Mixed, NoStats
  <2> QED BY <1>1, <2>1, TrainedNothing
<1>6. Sound(c, k, p, r) BY <1>1, <1>4, <1>5 DEF Sound, Early
<1> QED BY <1>1, <1>2, <1>4, <1>6 DEF p

(* A step of one process that leaves what it has trained as it is.         *)
LEMMA OneRank ==
  ASSUME IInv, NEW r \in Ranks(conf), NEW me \in Proc(conf),
         rank' = [rank EXCEPT ![r] = me], conf' = conf,
         \A s \in Ranks(conf) : s # r => Sound(conf, ckpt', rank[s], s),
         Sound(conf, ckpt', me, r),
         Late(me) => Late(rank[r]) /\ Cycles(conf, me) = Cycles(conf, rank[r]),
         Synced(me) => Synced(rank[r]) /\ me.stats = rank[r].stats,
         me.pc \in Early => rank[r].pc \in Early
  PROVE  rank' \in [Ranks(conf') -> Proc(conf')] /\ RanksInv' /\ StepInv'
<1>1. rank \in [Ranks(conf) -> Proc(conf)] BY DEF IInv, Types
<1>2. rank' \in [Ranks(conf) -> Proc(conf)] BY <1>1
<1>3. \A s \in Ranks(conf) : rank'[s] = IF s = r THEN me ELSE rank[s] BY <1>1
<1>4. RanksInv' BY <1>3 DEF RanksInv
<1>5. StepInv'
  <2> SUFFICES ASSUME NEW a \in Ranks(conf), NEW b \in Ranks(conf)
               PROVE  /\ Late(rank'[a]) => rank'[b].pc \notin Early
                      /\ Late(rank'[a]) /\ Late(rank'[b])
                           => Cycles(conf, rank'[a]) = Cycles(conf, rank'[b])
                      /\ Synced(rank'[a]) /\ Synced(rank'[b]) => rank'[a].stats = rank'[b].stats
    BY DEF StepInv
  <2>1. \A s \in Ranks(conf) :
          /\ Late(rank'[s]) => Late(rank[s]) /\ Cycles(conf, rank'[s]) = Cycles(conf, rank[s])
          /\ Synced(rank'[s]) => Synced(rank[s]) /\ rank'[s].stats = rank[s].stats
          /\ rank'[s].pc \in Early => rank[s].pc \in Early
    BY <1>3
  <2>2. /\ Late(rank[a]) => rank[b].pc \notin Early
        /\ Late(rank[a]) /\ Late(rank[b]) => Cycles(conf, rank[a]) = Cycles(conf, rank[b])
        /\ Synced(rank[a]) /\ Synced(rank[b]) => rank[a].stats = rank[b].stats
    BY DEF IInv, StepInv
  <2> QED BY <2>1, <2>2
<1> QED BY <1>2, <1>4, <1>5

(* A step of the loops: nothing but the process changes.                   *)
LEMMA Moves ==
  ASSUME IInv, NEW r \in Ranks(conf), NEW me \in Proc(conf),
         rank' = [rank EXCEPT ![r] = me],
         UNCHANGED <<job, conf, ckpt, statsFile, cache, sidecar, overlap, launches>>,
         faults' \in 0 .. MaxFaults,
         Sound(conf, ckpt, me, r),
         Late(me) => Late(rank[r]) /\ Cycles(conf, me) = Cycles(conf, rank[r]),
         Synced(me) => Synced(rank[r]) /\ me.stats = rank[r].stats,
         me.pc \in Early => rank[r].pc \in Early,
         me.net = rank[r].net,
         r = 0 => /\ me.pc \notin {"open", "stats", "scan", "bcast"}
                  /\ rank[0].pc \in {"off", "open", "failed"} => me.pc \in {"off", "failed"}
  PROVE  IInv'
<1>1. rank' \in [Ranks(conf') -> Proc(conf')] /\ RanksInv' /\ StepInv'
  <2>1. \A s \in Ranks(conf) : s # r => Sound(conf, ckpt', rank[s], s)
    BY DEF IInv, RanksInv
  <2> QED BY <2>1, OneRank
<1>2. \A s \in Ranks(conf) : rank'[s] = IF s = r THEN me ELSE rank[s]
  BY DEF IInv, Types
<1>3. 0 \in Ranks(conf) BY ConfigFields DEF IInv, Types
<1>4. Types' BY <1>1 DEF IInv, Types
<1>5. CkptInv' BY DEF IInv, CkptInv
<1>6. StatsInv'
  <2>1. CASE r = 0
    <3>1. rank'[0].pc \notin {"open", "stats", "scan", "bcast"} BY <2>1, <1>2, <1>3
    <3> QED BY <3>1 DEF IInv, StatsInv
  <2>2. CASE r # 0
    <3>1. rank'[0] = rank[0] BY <2>2, <1>2, <1>3
    <3> QED BY <3>1 DEF IInv, StatsInv
  <2> QED BY <2>1, <2>2
<1>7. VerifiedInv'
  <2> SUFFICES ASSUME conf.random, sidecar # "pinned"
               PROVE  /\ rank'[0].pc \in {"off", "open", "failed"}
                      /\ \A s \in Ranks(conf) : rank'[s].net = << >>
    BY DEF VerifiedInv
  <2>1. rank[0].pc \in {"off", "open", "failed"} /\ \A s \in Ranks(conf) : rank[s].net = << >>
    BY DEF IInv, VerifiedInv
  <2> QED BY <2>1, <1>2, <1>3
<1> QED BY <1>1, <1>4, <1>5, <1>6, <1>7 DEF IInv

(* A process that fails.                                                   *)
LEMMA Fails ==
  ASSUME IInv, NEW r \in Ranks(conf), Goto(r, "failed"),
         UNCHANGED <<job, conf, ckpt, statsFile, cache, sidecar, overlap, launches>>,
         faults' \in 0 .. MaxFaults
  PROVE  IInv'
<1> DEFINE p == rank[r]
           me == [p EXCEPT !.pc = "failed"]
<1>1. conf \in Configs /\ p \in Proc(conf) /\ Sound(conf, ckpt, p, r)
  BY DEF IInv, Types, RanksInv
<1>2. me \in Proc(conf) /\ me.pc = "failed" /\ me.net = p.net /\ me.stats = p.stats
  BY <1>1 DEF Proc, Pcs
<1>3. rank' = [rank EXCEPT ![r] = me] BY DEF Goto
<1>4. ~ Late(me) /\ me.pc \notin Early BY <1>2 DEF Late, Early
<1>5. Synced(me) => Synced(p)
  BY <1>1, <1>2 DEF Synced, Sound
<1>6. Sound(conf, ckpt, me, r)
  <2>1. \E n \in 0 .. (Epochs * StepsPerEpoch(conf)) : me.net = Trained(conf, me.stats, n)
    BY <1>1, <1>2 DEF Sound
  <2> QED BY <2>1, <1>2, <1>4 DEF Sound
<1> HIDE DEF me
<1> QED BY <1>2, <1>3, <1>4, <1>5, <1>6, Moves

(* A step from one place to a later one between two updates.               *)
LEMMA Passes ==
  ASSUME IInv, NEW r \in Ranks(conf), NEW pc \in {"gen", "barrier", "epoch", "done"},
         Goto(r, pc),
         rank[r].pc \in {"arm", "val", "gen", "barrier"},
         pc = "epoch" => rank[r].epoch < Epochs,
         pc = "gen" => r = 0,
         UNCHANGED <<job, conf, ckpt, statsFile, cache, sidecar, overlap, launches>>,
         faults' \in 0 .. MaxFaults
  PROVE  IInv'
<1> DEFINE p == rank[r]
           me == [p EXCEPT !.pc = pc]
<1>1. conf \in Configs /\ p \in Proc(conf) /\ Sound(conf, ckpt, p, r)
  BY DEF IInv, Types, RanksInv
<1>2. /\ me \in Proc(conf) /\ me.pc = pc /\ me.net = p.net /\ me.stats = p.stats
      /\ me.epoch = p.epoch
  BY <1>1 DEF Proc, Pcs
<1>3. rank' = [rank EXCEPT ![r] = me] BY DEF Goto
<1>4. Late(me) /\ Late(p) /\ Synced(p) /\ me.pc \notin Early BY <1>2 DEF Late, Early, Synced
<1>5. Cycles(conf, me) = Cycles(conf, p) BY <1>2 DEF Cycles
<1>6. Sound(conf, ckpt, me, r)
  <2>1. \E n \in 0 .. (Epochs * StepsPerEpoch(conf)) : me.net = Trained(conf, me.stats, n)
    BY <1>1, <1>2 DEF Sound
  <2>2. me.net = Trained(conf, me.stats, Cycles(conf, me)) BY <1>1, <1>2, <1>4, <1>5 DEF Sound
  <2> QED BY <2>1, <2>2, <1>2, <1>4 DEF Sound
<1> HIDE DEF me
<1> QED BY <1>2, <1>3, <1>4, <1>5, <1>6, Moves

-----------------------------------------------------------------------------
(* Up to the broadcast: the caption sidecar, the contract, the statistics. *)
LEMMA NoStatsYet ==
  ASSUME IInv, NEW me \in Proc(conf), rank' = [rank EXCEPT ![0] = me],
         rank[0].pc \in {"open", "stats", "scan"}, me.pc \in {"stats", "scan", "bcast"},
         me.epoch = rank[0].epoch, me.net = rank[0].net, MayLoad(conf, ckpt),
         ~ (conf.random /\ sidecar # "pinned"),
         UNCHANGED <<job, conf, ckpt, cache, sidecar, overlap, launches, faults>>,
         statsFile' \in [state : {"none", "torn", "whole"}, key : 0 .. (MaxExports + 1),
                         stats : 0 .. Mixed],
         StatsInv'
  PROVE  IInv'
<1>1. conf \in Configs /\ 0 \in Ranks(conf) BY ConfigFields DEF IInv, Types
<1>2. rank[0].pc \in Early /\ me.pc \in Early BY DEF Early
<1>3. ~ Late(me) /\ ~ Synced(me) BY <1>2 DEF Late, Synced
<1>4. me.epoch = 0 /\ me.net = << >> BY <1>1, <1>2 DEF IInv, RanksInv, Sound
<1>5. Sound(conf, ckpt, me, 0)
  <2>1. me.stats \in 0 .. Mixed BY <1>1, ProcFields
  <2>2. \E n \in 0 .. (Epochs * StepsPerEpoch(conf)) : me.net = Trained(conf, me.stats, n)
    BY <1>1, <1>4, <2>1, TrainedNothing
  <2> QED BY <1>2, <1>3, <1>4, <2>2 DEF Sound
<1>6. rank' \in [Ranks(conf') -> Proc(conf')] /\ RanksInv' /\ StepInv'
  <2>1. \A s \in Ranks(conf) : s # 0 => Sound(conf, ckpt', rank[s], s)
    BY DEF IInv, RanksInv
  <2> QED BY <2>1, <1>1, <1>2, <1>3, <1>5, OneRank
<1>7. Types' BY <1>6 DEF IInv, Types
<1>8. CkptInv' BY DEF IInv, CkptInv
<1>9. VerifiedInv' BY DEF VerifiedInv
<1> QED BY <1>6, <1>7, <1>8, <1>9 DEF IInv

LEMMA OpenTokensInv == ASSUME IInv, NEW r \in Ranks(conf), OpenTokens(r) PROVE IInv'
<1> DEFINE p == rank[r]
<1>1. UNCHANGED <<job, conf, ckpt, statsFile, cache, sidecar, overlap, launches, faults>>
  BY DEF OpenTokens, env
<1>2. conf \in Configs /\ p \in Proc(conf) /\ Sound(conf, ckpt, p, r) /\ p.pc = "open"
      /\ faults' \in 0 .. MaxFaults /\ r \in Nat
  BY <1>1, ConfigFields DEF IInv, Types, RanksInv, OpenTokens
<1>3. CASE ~ (Verified(r) /\ Contract /\ Clips >= BatchSize)
  <2>1. Goto(r, "failed") BY <1>3 DEF OpenTokens
  <2> QED BY <2>1, <1>1, <1>2, Fails
<1>4. CASE Verified(r) /\ Contract /\ r = 0
  <2> DEFINE me == [p EXCEPT !.pc = "stats", !.key = cache]
  <2>1. CASE ~ (Clips >= BatchSize) BY <2>1, <1>3
  <2>2. CASE Clips >= BatchSize
    <3>1. rank' = [rank EXCEPT ![0] = me] BY <1>4, <2>2 DEF OpenTokens
    <3>2. cache \in 0 .. (MaxExports + 1) /\ cache <= cache BY Constants DEF IInv, Types
    <3>3. /\ me \in Proc(conf) /\ me.pc = "stats" /\ me.key = cache
          /\ me.net = p.net /\ me.epoch = p.epoch /\ me.stats = p.stats
      BY <3>2, <1>2 DEF Proc, Pcs
    <3>4. rank'[0] = me BY <3>1, <1>2, <1>4 DEF IInv, Types
    <3>5. ~ overlap BY <1>2, <1>4 DEF IInv, StatsInv
    <3>6. StatsInv' BY <3>3, <3>4, <3>5, <1>1, <1>2, <1>4 DEF IInv, StatsInv
    <3>7. MayLoad(conf, ckpt) BY <1>4 DEF Contract, MayLoad
    <3>8. ~ (conf.random /\ sidecar # "pinned") BY <1>4 DEF Verified
    <3>9. statsFile' \in [state : {"none", "torn", "whole"}, key : 0 .. (MaxExports + 1),
                          stats : 0 .. Mixed]
      BY <1>1 DEF IInv, Types
    <3> HIDE DEF me
    <3> QED BY <3>1, <3>3, <3>6, <3>7, <3>8, <3>9, <1>1, <1>2, <1>4, NoStatsYet
  <2> QED BY <2>1, <2>2
<1>5. CASE Verified(r) /\ Contract /\ Clips >= BatchSize /\ r # 0
  <2> DEFINE me == [p EXCEPT !.pc = "bcast"]
  <2>1. rank' = [rank EXCEPT ![r] = me] BY <1>5 DEF OpenTokens
  <2>2. me \in Proc(conf) /\ me.pc = "bcast" /\ me.net = p.net /\ me.epoch = p.epoch
        /\ me.stats = p.stats
    BY <1>2 DEF Proc, Pcs
  <2>3. me.pc \in Early /\ p.pc \in Early /\ ~ Late(me) /\ ~ Synced(me)
    BY <2>2, <1>2 DEF Early, Late, Synced
  <2>4. Sound(conf, ckpt, me, r)
    <3>1. MayLoad(conf, ckpt) BY <1>5 DEF Contract, MayLoad
    <3>2. \E n \in 0 .. (Epochs * StepsPerEpoch(conf)) : me.net = Trained(conf, me.stats, n)
      BY <1>2, <2>2 DEF Sound
    <3>3. me.epoch = 0 /\ me.net = << >> BY <1>2, <2>2, <2>3 DEF Sound
    <3> QED BY <3>1, <3>2, <3>3, <2>2, <2>3 DEF Sound
  <2> HIDE DEF me
  <2> QED BY <2>1, <2>2, <2>3, <2>4, <1>1, <1>2, <1>5, Moves
<1> QED BY <1>3, <1>4, <1>5

LEMMA LoadStatsInv == ASSUME IInv, LoadStats PROVE IInv'
<1> DEFINE p == rank[0]
           me == [p EXCEPT !.pc = "bcast", !.stats = statsFile.stats]
<1>1. UNCHANGED <<job, conf, ckpt, statsFile, cache, sidecar, overlap, launches, faults>>
      /\ p.pc = "stats" /\ rank' = [rank EXCEPT ![0] = me]
      /\ statsFile.state = "whole" /\ statsFile.key = p.key
  BY DEF LoadStats, env, Hit
<1>2. conf \in Configs /\ 0 \in Ranks(conf) /\ p \in Proc(conf) /\ Sound(conf, ckpt, p, 0)
  BY ConfigFields DEF IInv, Types, RanksInv
<1>3. /\ me \in Proc(conf) /\ me.pc = "bcast" /\ me.stats = statsFile.stats
      /\ me.net = p.net /\ me.epoch = p.epoch /\ me.key = p.key
  <2>1. statsFile.stats \in 0 .. Mixed BY DEF IInv, Types
  <2> QED BY <2>1, <1>2 DEF Proc, Pcs
<1>4. rank'[0] = me BY <1>1, <1>2 DEF IInv, Types
<1>5. StatsInv'
  <2>1. ~ overlap => p.key = cache BY <1>1 DEF IInv, StatsInv
  <2>2. statsFile.stats = statsFile.key \/ statsFile.key < cache
    BY <1>1 DEF IInv, StatsInv
  <2>3. ~ overlap => me.stats = me.key
    BY <2>1, <2>2, <1>1, <1>3 DEF IInv, Types
  <2> HIDE DEF me
  <2> QED BY <2>3, <1>1, <1>3, <1>4 DEF IInv, StatsInv
<1>6. MayLoad(conf, ckpt) BY <1>1, <1>2 DEF Sound
<1>7. ~ (conf.random /\ sidecar # "pinned") BY <1>1 DEF IInv, VerifiedInv
<1>8. statsFile' \in [state : {"none", "torn", "whole"}, key : 0 .. (MaxExports + 1),
                      stats : 0 .. Mixed]
  BY <1>1 DEF IInv, Types
<1> HIDE DEF me
<1> QED BY <1>1, <1>3, <1>5, <1>6, <1>7, <1>8, NoStatsYet

LEMMA StartScanInv == ASSUME IInv, StartScan PROVE IInv'
<1> DEFINE p == rank[0]
           me == [p EXCEPT !.pc = "scan", !.stats = cache]
<1>1. UNCHANGED <<job, conf, ckpt, statsFile, cache, sidecar, overlap, launches, faults>>
      /\ p.pc = "stats" /\ rank' = [rank EXCEPT ![0] = me]
  BY DEF StartScan, env
<1>2. conf \in Configs /\ 0 \in Ranks(conf) /\ p \in Proc(conf) /\ Sound(conf, ckpt, p, 0)
  BY ConfigFields DEF IInv, Types, RanksInv
<1>3. /\ me \in Proc(conf) /\ me.pc = "scan" /\ me.stats = cache
      /\ me.net = p.net /\ me.epoch = p.epoch /\ me.key = p.key
  <2>1. cache \in 0 .. Mixed BY Constants DEF IInv, Types, Mixed
  <2> QED BY <2>1, <1>2 DEF Proc, Pcs
<1>4. rank'[0] = me BY <1>1, <1>2 DEF IInv, Types
<1>5. StatsInv'
  <2>1. IF overlap THEN p.key < cache ELSE p.key = cache BY <1>1 DEF IInv, StatsInv
  <2> HIDE DEF me
  <2> QED BY <2>1, <1>1, <1>3, <1>4 DEF IInv, StatsInv
<1>6. MayLoad(conf, ckpt) BY <1>1, <1>2 DEF Sound
<1>7. ~ (conf.random /\ sidecar # "pinned") BY <1>1 DEF IInv, VerifiedInv
<1>8. statsFile' \in [state : {"none", "torn", "whole"}, key : 0 .. (MaxExports + 1),
                      stats : 0 .. Mixed]
  BY <1>1 DEF IInv, Types
<1> HIDE DEF me
<1> QED BY <1>1, <1>3, <1>5, <1>6, <1>7, <1>8, NoStatsYet

LEMMA EndScanInv == ASSUME IInv, EndScan PROVE IInv'
<1> DEFINE p == rank[0]
           found == IF p.stats = cache THEN cache ELSE Mixed
           me == [p EXCEPT !.pc = "bcast", !.stats = found]
           whole == [state |-> "whole", key |-> p.key, stats |-> found]
           torn == [NoFile EXCEPT !.state = "torn"]
<1>1. UNCHANGED <<job, conf, ckpt, cache, sidecar, overlap, launches, faults>>
      /\ p.pc = "scan" /\ rank' = [rank EXCEPT ![0] = me]
      /\ statsFile' \in {whole, statsFile, torn}
  BY DEF EndScan, env
<1>2. conf \in Configs /\ 0 \in Ranks(conf) /\ p \in Proc(conf) /\ Sound(conf, ckpt, p, 0)
  BY ConfigFields DEF IInv, Types, RanksInv
<1>3. found \in 0 .. Mixed /\ p.key \in 0 .. (MaxExports + 1)
  BY <1>2, Constants, ProcFields DEF IInv, Types, Mixed
<1>4. /\ me \in Proc(conf) /\ me.pc = "bcast" /\ me.stats = found
      /\ me.net = p.net /\ me.epoch = p.epoch /\ me.key = p.key
  BY <1>2, <1>3 DEF Proc, Pcs
<1>5. rank'[0] = me BY <1>1, <1>2 DEF IInv, Types
<1>6. IF overlap THEN p.key < cache ELSE p.key = cache /\ found = p.key
  BY <1>1 DEF IInv, StatsInv
<1>7. /\ whole.state = "whole" /\ whole.key = p.key /\ whole.stats = found
      /\ torn.state = "torn"
      /\ {whole, torn} \subseteq [state : {"none", "torn", "whole"},
                                 key : 0 .. (MaxExports + 1), stats : 0 .. Mixed]
  BY <1>3, Constants DEF NoFile, NoStats, Mixed
<1> HIDE DEF me, whole, torn, found
<1>8. StatsInv'
  <2>1. statsFile'.state = "whole" => statsFile'.stats = statsFile'.key \/ statsFile'.key < cache
    BY <1>1, <1>6, <1>7 DEF IInv, StatsInv
  <2> QED BY <2>1, <1>1, <1>4, <1>5, <1>6 DEF StatsInv
<1>9. MayLoad(conf, ckpt) BY <1>1, <1>2 DEF Sound
<1>10. ~ (conf.random /\ sidecar # "pinned") BY <1>1 DEF IInv, VerifiedInv
<1>11. statsFile' \in [state : {"none", "torn", "whole"}, key : 0 .. (MaxExports + 1),
                      stats : 0 .. Mixed]
  BY <1>1, <1>7 DEF IInv, Types
<1> QED BY <1>1, <1>4, <1>8, <1>9, <1>10, <1>11, NoStatsYet

-----------------------------------------------------------------------------
(* The loop of an epoch on one rank.                                       *)
LEMMA ArmEvalInv == ASSUME IInv, ArmEval PROVE IInv'
<1>1. UNCHANGED <<job, conf, ckpt, statsFile, cache, sidecar, overlap, launches>>
      /\ rank[0].pc = "arm"
  BY DEF ArmEval, env
<1>2. 0 \in Ranks(conf) /\ faults' \in 0 .. MaxFaults
  <2>1. faults \in 0 .. MaxFaults /\ 0 \in Ranks(conf) BY ConfigFields DEF IInv, Types
  <2>2. faults' = faults \/ (faults < MaxFaults /\ faults' = faults + 1) BY DEF ArmEval
  <2> QED BY <2>1, <2>2, Constants
<1>3. CASE rank' = [rank EXCEPT ![0] = Enter(rank[0])]
  <2> DEFINE pc == IF rank[0].epoch < Epochs THEN "epoch" ELSE "done"
  <2>1. Goto(0, pc) BY <1>3 DEF Enter, Goto
  <2> QED BY <2>1, <1>1, <1>2, Passes
<1>4. CASE Goto(0, "failed") BY <1>1, <1>2, <1>4, Fails
<1> QED BY <1>3, <1>4 DEF ArmEval

LEMMA GenEvalInv == ASSUME IInv, GenEval PROVE IInv'
<1>1. UNCHANGED <<job, conf, ckpt, statsFile, cache, sidecar, overlap, launches>>
      /\ rank[0].pc = "gen"
  BY DEF GenEval, env
<1>2. 0 \in Ranks(conf) /\ faults' \in 0 .. MaxFaults
  <2>1. faults \in 0 .. MaxFaults /\ 0 \in Ranks(conf) BY ConfigFields DEF IInv, Types
  <2>2. faults' = faults \/ (faults < MaxFaults /\ faults' = faults + 1) BY DEF GenEval
  <2> QED BY <2>1, <2>2, Constants
<1>3. CASE Goto(0, "barrier") BY <1>1, <1>2, <1>3, Passes
<1>4. CASE Goto(0, "failed") BY <1>1, <1>2, <1>4, Fails
<1> QED BY <1>3, <1>4 DEF GenEval

LEMMA StartEpochInv == ASSUME IInv, NEW r \in Ranks(conf), StartEpoch(r) PROVE IInv'
<1> DEFINE p == rank[r]
           e == p.epoch + 1
           fork == IF Persistent /\ p.fork > 0 THEN p.fork ELSE e
           me == [p EXCEPT !.pc = "train", !.it = 0, !.caption = e, !.grads = <<>>, !.fork = fork]
<1>1. UNCHANGED <<job, conf, ckpt, statsFile, cache, sidecar, overlap, launches, faults>>
      /\ p.pc = "epoch" /\ rank' = [rank EXCEPT ![r] = me]
  BY DEF StartEpoch, env
<1>2. conf \in Configs /\ p \in Proc(conf) /\ Sound(conf, ckpt, p, r)
      /\ faults' \in 0 .. MaxFaults
  BY <1>1 DEF IInv, Types, RanksInv
<1>3. p.epoch < Epochs /\ p.epoch \in Nat /\ p.fork \in 0 .. Epochs
  BY <1>1, <1>2, ProcFields DEF Sound
<1>4. e \in 0 .. Epochs /\ fork \in 0 .. Epochs /\ (conf.random => fork = e)
  BY <1>3, Constants DEF Persistent
<1> HIDE DEF e, fork
<1>5. /\ me \in Proc(conf) /\ me.pc = "train" /\ me.it = 0 /\ me.caption = e /\ me.grads = << >>
      /\ me.fork = fork /\ me.epoch = p.epoch /\ me.net = p.net /\ me.stats = p.stats
  <2>1. << >> \in Grads(conf) /\ 0 \in 0 .. Batches(conf, 0) BY <1>2, NoGrads, Sizes
  <2> QED BY <2>1, <1>2, <1>4 DEF Proc, Pcs
<1> HIDE DEF me
<1>6. Late(me) /\ Late(p) /\ Synced(p) /\ me.pc \notin Early
  BY <1>1, <1>5 DEF Late, Early, Synced
<1>7. conf.accum \in Nat \ {0} /\ me.it \div conf.accum = 0 /\ me.it % conf.accum = 0
  BY <1>2, <1>5, ConfigFields, ZeroDivided
<1>8. Cycles(conf, me) = Cycles(conf, p)
  BY <1>1, <1>5, <1>7 DEF Cycles
<1>9. Sound(conf, ckpt, me, r)
  <2>1. me.grads = Taken(Micros(conf, me.epoch + 1, r, me.it \div conf.accum), me.it % conf.accum)
    BY <1>5, <1>7, TakenNothing
  <2>2. \E n \in 0 .. (Epochs * StepsPerEpoch(conf)) : me.net = Trained(conf, me.stats, n)
    BY <1>2, <1>5 DEF Sound
  <2>3. me.net = Trained(conf, me.stats, Cycles(conf, me)) BY <1>2, <1>5, <1>6, <1>8 DEF Sound
  <2>4. me.caption = me.epoch + 1 /\ (conf.random => me.fork = me.epoch + 1)
    BY <1>4, <1>5 DEF e
  <2> QED BY <2>1, <2>2, <2>3, <2>4, <1>3, <1>5, <1>6 DEF Sound
<1> QED BY <1>1, <1>2, <1>5, <1>6, <1>8, <1>9, Moves

LEMMA MicroInv == ASSUME IInv, NEW r \in Ranks(conf), Micro(r) PROVE IInv'
<1> DEFINE p == rank[r]
           a == conf.accum
           q == p.it \div a
           m == p.it % a
           pc == IF SyncMicro(p.it + 1) THEN "grad" ELSE "train"
           f == Micros(conf, p.epoch + 1, r, q)
           me == [p EXCEPT !.pc = pc, !.it = p.it + 1, !.grads = Append(p.grads, Served(r))]
<1>1. UNCHANGED <<job, conf, ckpt, statsFile, cache, sidecar, overlap, launches>>
      /\ p.pc = "train" /\ p.it < Batches(conf, r)
      /\ \/ rank' = [rank EXCEPT ![r] = me] /\ faults' = faults
         \/ faults < MaxFaults /\ faults' = faults + 1 /\ Goto(r, "failed")
  BY DEF Micro, env
<1>2. conf \in Configs /\ p \in Proc(conf) /\ Sound(conf, ckpt, p, r) /\ faults \in 0 .. MaxFaults
  BY DEF IInv, Types, RanksInv
<1>3. CASE faults < MaxFaults /\ faults' = faults + 1 /\ Goto(r, "failed")
  <2>1. faults' \in 0 .. MaxFaults BY <1>2, <1>3, Constants
  <2> QED BY <2>1, <1>1, <1>3, Fails
<1>4. CASE rank' = [rank EXCEPT ![r] = me] /\ faults' = faults
  <2>1. /\ a \in Nat \ {0} /\ p.it \in Nat /\ p.epoch \in Nat /\ p.epoch < Epochs
        /\ p.it + 1 \in 0 .. Batches(conf, 0)
    BY SMTT(30), <1>1, <1>2, ConfigFields, ProcFields, Sizes DEF Sound
  <2>2. q \in Nat /\ m \in 0 .. (a - 1) /\ p.it = a * q + m BY <2>1, Divided
  <2>3. p.grads = Taken(f, m) BY <1>1, <1>2 DEF Sound
  <2>4. Served(r) = f[m + 1]
    <3>1. p.caption = p.epoch + 1 /\ (conf.random => p.fork = p.epoch + 1)
      BY <1>1, <1>2 DEF Sound
    <3>2. Served(r) = Batch(Draws(conf, p.epoch + 1, r), p.it + 1,
                            IF conf.random THEN p.epoch + 1 ELSE Baked)
      BY <3>1 DEF Served
    <3> HIDE DEF q, m
    <3>3. m + 1 \in Nat /\ a * q = q * a /\ q * a \in Nat BY <2>1, <2>2, SMTT(20)
    <3>4. f[m + 1] = Batch(Draws(conf, p.epoch + 1, r), q * a + (m + 1),
                           IF conf.random THEN p.epoch + 1 ELSE Baked)
      BY <3>3 DEF Micros
    <3>5. q * a + (m + 1) = p.it + 1 BY <2>1, <2>2, <3>3
    <3> QED BY <3>2, <3>4, <3>5
  <2>5. Append(p.grads, Served(r)) = Taken(f, m + 1)
    <3>1. f \in [Nat -> {f[i] : i \in Nat}] BY DEF Micros
    <3>2. m \in Nat BY <2>1, <2>2
    <3> HIDE DEF f
    <3> QED BY <2>3, <2>4, <3>1, <3>2, TakenOneMore
  <2>6. Taken(f, m + 1) \in Grads(conf)
    <3>1. p.epoch + 1 \in 1 .. Epochs /\ m + 1 \in 0 .. a BY SMTT(30), <2>1, <2>2, Constants
    <3> QED BY <3>1, <2>2 DEF Grads
  <2>7. SyncMicro(p.it + 1) <=> (p.it + 1) % a = 0 BY DEF SyncMicro
  <2>8. /\ (p.it + 1) % a = 0 => (p.it + 1) \div a = q + 1 /\ m = a - 1
        /\ (p.it + 1) % a # 0 => (p.it + 1) \div a = q /\ (p.it + 1) % a = m + 1
    BY <2>1, NextQuotient
  <2> HIDE DEF f, q, m
  <2>9. /\ me \in Proc(conf) /\ me.pc = pc /\ me.it = p.it + 1 /\ me.grads = Taken(f, m + 1)
        /\ me.fork = p.fork /\ me.caption = p.caption
        /\ me.epoch = p.epoch /\ me.net = p.net /\ me.stats = p.stats
    BY <1>2, <2>1, <2>5, <2>6 DEF Proc, Pcs
  <2> HIDE DEF me
  <2>10. me.pc \in {"train", "grad"} BY <2>9
  <2>11. Late(me) /\ Late(p) /\ Synced(p) /\ me.pc \notin Early
    BY <1>1, <2>10 DEF Late, Early, Synced
  <2>12. CASE (p.it + 1) % a = 0
    <3>1. me.pc = "grad" /\ me.it % a = 0 /\ me.it \div a = q + 1 /\ me.it > 0
          /\ (me.it \div a) - 1 = q /\ me.grads = Taken(f, a)
      BY <2>1, <2>2, <2>7, <2>8, <2>9, <2>12
    <3>2. Cycles(conf, me) = Cycles(conf, p) BY <1>1, <2>9, <3>1 DEF Cycles, q
    <3>3. me.net = Trained(conf, me.stats, Cycles(conf, me)) BY <1>2, <2>9, <2>11, <3>2 DEF Sound
    <3>4. \E n \in 0 .. (Epochs * StepsPerEpoch(conf)) : me.net = Trained(conf, me.stats, n)
      BY <1>2, <2>9 DEF Sound
    <3>5. me.caption = me.epoch + 1 /\ (conf.random => me.fork = me.epoch + 1)
      BY <1>1, <1>2, <2>9 DEF Sound
    <3>6. me.grads = Taken(Micros(conf, me.epoch + 1, r, (me.it \div a) - 1), a)
      BY <2>9, <3>1 DEF f
    <3>7. Sound(conf, ckpt, me, r)
      BY <2>1, <2>9, <2>11, <3>1, <3>3, <3>4, <3>5, <3>6 DEF Sound
    <3> QED BY <1>1, <1>2, <1>4, <2>9, <2>10, <2>11, <3>2, <3>7, Moves
  <2>13. CASE (p.it + 1) % a # 0
    <3>1. me.pc = "train" /\ me.it % a = m + 1 /\ me.it \div a = q
      BY <2>7, <2>8, <2>9, <2>13
    <3>2. Cycles(conf, me) = Cycles(conf, p) BY <1>1, <2>9, <3>1 DEF Cycles, q
    <3>3. me.net = Trained(conf, me.stats, Cycles(conf, me)) BY <1>2, <2>9, <2>11, <3>2 DEF Sound
    <3>4. \E n \in 0 .. (Epochs * StepsPerEpoch(conf)) : me.net = Trained(conf, me.stats, n)
      BY <1>2, <2>9 DEF Sound
    <3>5. me.caption = me.epoch + 1 /\ (conf.random => me.fork = me.epoch + 1)
      BY <1>1, <1>2, <2>9 DEF Sound
    <3>6. me.grads = Taken(Micros(conf, me.epoch + 1, r, me.it \div a), me.it % a)
      BY <2>9, <3>1 DEF f
    <3>7. Sound(conf, ckpt, me, r)
      BY <2>1, <2>9, <2>11, <3>1, <3>3, <3>4, <3>5, <3>6 DEF Sound
    <3> QED BY <1>1, <1>2, <1>4, <2>9, <2>10, <2>11, <3>2, <3>7, Moves
  <2> QED BY <2>12, <2>13
<1> QED BY <1>1, <1>3, <1>4

LEMMA EndLoaderInv == ASSUME IInv, NEW r \in Ranks(conf), EndLoader(r) PROVE IInv'
<1> DEFINE p == rank[r]
           pc == IF r # 0 THEN "barrier" ELSE IF DoVal(p.epoch + 1) THEN "val" ELSE "gen"
           me == [p EXCEPT !.epoch = p.epoch + 1, !.pc = pc]
<1>1. UNCHANGED <<job, conf, ckpt, statsFile, cache, sidecar, overlap, launches, faults>>
      /\ p.pc = "train" /\ p.it = Batches(conf, r) /\ rank' = [rank EXCEPT ![r] = me]
  BY DEF EndLoader, env
<1>2. conf \in Configs /\ p \in Proc(conf) /\ Sound(conf, ckpt, p, r)
      /\ faults' \in 0 .. MaxFaults
  BY <1>1 DEF IInv, Types, RanksInv
<1>3. p.epoch < Epochs /\ p.epoch \in Nat /\ p.epoch + 1 \in 0 .. Epochs /\ p.epoch + 1 > 0
  BY SMTT(30), <1>1, <1>2, ProcFields, Constants DEF Sound
<1>4. pc \in {"barrier", "val", "gen"} /\ (r # 0 => pc = "barrier") OBVIOUS
<1> HIDE DEF pc
<1>5. /\ me \in Proc(conf) /\ me.pc = pc /\ me.epoch = p.epoch + 1
      /\ me.net = p.net /\ me.stats = p.stats
  BY <1>2, <1>3, <1>4 DEF Proc, Pcs
<1> HIDE DEF me
<1>6. Late(me) /\ Late(p) /\ Synced(p) /\ me.pc \notin Early
  BY <1>1, <1>4, <1>5 DEF Late, Early, Synced
<1>7. Cycles(conf, me) = Cycles(conf, p)
  <2>1. Cycles(conf, p) = p.epoch * StepsPerEpoch(conf) + StepsPerEpoch(conf)
    <3>1. p.it = Batches(conf, 0) BY <1>1, <1>2, Sizes
    <3>2. p.it \div conf.accum = StepsPerEpoch(conf) BY <3>1 DEF StepsPerEpoch
    <3> QED BY <1>1, <3>2 DEF Cycles
  <2>2. Cycles(conf, me) = (p.epoch + 1) * StepsPerEpoch(conf) + 0
    BY <1>4, <1>5 DEF Cycles
  <2>3. (p.epoch + 1) * StepsPerEpoch(conf) = p.epoch * StepsPerEpoch(conf) + StepsPerEpoch(conf)
        /\ (p.epoch + 1) * StepsPerEpoch(conf) \in Nat
    BY <1>2, <1>3, EpochSteps
  <2> QED BY <2>1, <2>2, <2>3
<1>8. Sound(conf, ckpt, me, r)
  <2>1. \E n \in 0 .. (Epochs * StepsPerEpoch(conf)) : me.net = Trained(conf, me.stats, n)
    BY <1>2, <1>5 DEF Sound
  <2>2. me.net = Trained(conf, me.stats, Cycles(conf, me)) BY <1>2, <1>5, <1>6, <1>7 DEF Sound
  <2> QED BY <2>1, <2>2, <1>3, <1>4, <1>5, <1>6 DEF Sound
<1> QED BY <1>1, <1>2, <1>4, <1>5, <1>6, <1>7, <1>8, Moves

(* The checkpoint holds what rank 0 has trained by the end of an epoch.    *)
LEMMA SaveInv == ASSUME IInv, Save PROVE IInv'
<1> DEFINE p == rank[0]
           me == [p EXCEPT !.pc = "gen"]
<1>1. UNCHANGED <<job, conf, statsFile, cache, sidecar, overlap, launches, faults>>
      /\ p.pc = "val" /\ rank' = [rank EXCEPT ![0] = me]
      /\ ckpt' = [epoch |-> p.epoch - 1, net |-> p.net, stats |-> p.stats, conf |-> conf]
  BY DEF Save, env, Goto
<1>2. conf \in Configs /\ p \in Proc(conf) /\ Sound(conf, ckpt, p, 0) /\ 0 \in Ranks(conf)
  BY ConfigFields DEF IInv, Types, RanksInv
<1>3. /\ me \in Proc(conf) /\ me.pc = "gen" /\ me.net = p.net /\ me.stats = p.stats
      /\ me.epoch = p.epoch
  BY <1>2 DEF Proc, Pcs
<1>4. Late(me) /\ Late(p) /\ Synced(p) /\ me.pc \notin Early
  BY <1>1, <1>3 DEF Late, Early, Synced
<1>5. Cycles(conf, me) = Cycles(conf, p) /\ Cycles(conf, p) = p.epoch * StepsPerEpoch(conf) + 0
  BY <1>1, <1>3 DEF Cycles
<1>6. ckpt'.conf = conf BY <1>1
<1>7. \A s \in Ranks(conf) : Sound(conf, ckpt', rank[s], s)
  <2>1. MayLoad(conf, ckpt') BY <1>6 DEF MayLoad
  <2>2. \A s \in Ranks(conf) : Sound(conf, ckpt, rank[s], s) BY DEF IInv, RanksInv
  <2> QED BY <2>1, <2>2 DEF Sound
<1>8. Sound(conf, ckpt', me, 0)
  <2>1. \E n \in 0 .. (Epochs * StepsPerEpoch(conf)) : me.net = Trained(conf, me.stats, n)
    BY <1>2, <1>3 DEF Sound
  <2>2. me.net = Trained(conf, me.stats, Cycles(conf, me)) BY <1>2, <1>3, <1>4, <1>5 DEF Sound
  <2> QED BY <2>1, <2>2, <1>3, <1>4 DEF Sound
<1>9. CkptInv'
  <2>1. p.epoch \in 0 .. Epochs /\ p.epoch > 0 /\ p.stats \in 0 .. Mixed
    BY <1>1, <1>2, ProcFields DEF Sound
  <2>2. p.epoch - 1 \in 0 .. (Epochs - 1) /\ (p.epoch - 1) + 1 = p.epoch BY <2>1, Constants
  <2>3. p.epoch * StepsPerEpoch(conf) + 0 = p.epoch * StepsPerEpoch(conf)
    BY <1>2, <2>1, EpochSteps
  <2>4. p.net = Trained(conf, p.stats, p.epoch * StepsPerEpoch(conf))
    BY <1>2, <1>4, <1>5, <2>3 DEF Sound
  <2> QED BY <2>1, <2>2, <2>4, <1>1, <1>2 DEF CkptInv
<1> HIDE DEF me
<1>10. rank' \in [Ranks(conf') -> Proc(conf')] /\ RanksInv' /\ StepInv'
  BY <1>1, <1>2, <1>3, <1>4, <1>5, <1>7, <1>8, OneRank
<1>11. rank'[0] = me BY <1>1, <1>2 DEF IInv, Types
<1>12. StatsInv' BY <1>1, <1>3, <1>11 DEF IInv, StatsInv
<1>13. VerifiedInv' BY <1>1 DEF IInv, VerifiedInv
<1>14. Types' BY <1>1, <1>10 DEF IInv, Types
<1> QED BY <1>9, <1>10, <1>12, <1>13, <1>14 DEF IInv

-----------------------------------------------------------------------------
(* The collectives: all ranks take the step.                               *)
LEMMA Together ==
  ASSUME IInv, rank' \in [Ranks(conf) -> Proc(conf)],
         \A r \in Ranks(conf) : Sound(conf, ckpt, rank'[r], r),
         \A r, s \in Ranks(conf) :
           /\ rank'[r].pc \notin Early
           /\ Late(rank'[r]) /\ Late(rank'[s]) => Cycles(conf, rank'[r]) = Cycles(conf, rank'[s])
           /\ Synced(rank'[r]) /\ Synced(rank'[s]) => rank'[r].stats = rank'[s].stats,
         ~ (conf.random /\ sidecar # "pinned"),
         UNCHANGED <<job, conf, ckpt, statsFile, cache, sidecar, overlap, launches>>,
         faults' \in 0 .. MaxFaults
  PROVE  IInv'
<1>1. RanksInv' /\ StepInv' BY DEF RanksInv, StepInv
<1>2. Types' BY DEF IInv, Types
<1>3. CkptInv' BY DEF IInv, CkptInv
<1>4. 0 \in Ranks(conf) BY ConfigFields DEF IInv, Types
<1>5. rank'[0].pc \notin {"open", "stats", "scan", "bcast"} BY <1>4 DEF Early
<1>6. StatsInv' BY <1>5 DEF IInv, StatsInv
<1>7. VerifiedInv' BY DEF VerifiedInv
<1> QED BY <1>1, <1>2, <1>3, <1>6, <1>7 DEF IInv

(* A failure that all ranks see.                                           *)
LEMMA AllFail ==
  ASSUME IInv, rank' = [r \in Ranks(conf) |-> [rank[r] EXCEPT !.pc = "failed"]],
         ~ (conf.random /\ sidecar # "pinned"),
         UNCHANGED <<job, conf, ckpt, statsFile, cache, sidecar, overlap, launches>>,
         faults' \in 0 .. MaxFaults
  PROVE  IInv'
<1>1. conf \in Configs BY DEF IInv, Types
<1>2. ASSUME NEW r \in Ranks(conf)
      PROVE  /\ rank'[r] \in Proc(conf) /\ Sound(conf, ckpt, rank'[r], r)
             /\ rank'[r].pc = "failed" /\ ~ Late(rank'[r])
             /\ rank'[r].stats = rank[r].stats
             /\ Synced(rank'[r]) => Synced(rank[r])
  <2> DEFINE p == rank[r]
             me == [p EXCEPT !.pc = "failed"]
  <2>1. p \in Proc(conf) /\ Sound(conf, ckpt, p, r) BY <1>2 DEF IInv, Types, RanksInv
  <2>2. me \in Proc(conf) /\ me.pc = "failed" /\ me.net = p.net /\ me.stats = p.stats
    BY <1>1, <2>1 DEF Proc, Pcs
  <2>3. ~ Late(me) /\ me.pc \notin Early BY <2>2 DEF Late, Early
  <2>4. Synced(me) => Synced(p) BY <2>1, <2>2 DEF Synced, Sound
  <2>5. \E n \in 0 .. (Epochs * StepsPerEpoch(conf)) : me.net = Trained(conf, me.stats, n)
    BY <2>1, <2>2 DEF Sound
  <2>6. rank'[r] = me BY <1>2
  <2> HIDE DEF me
  <2>7. Sound(conf, ckpt, me, r) BY <2>2, <2>3, <2>5 DEF Sound
  <2> QED BY <2>2, <2>3, <2>4, <2>6, <2>7
<1>3. rank' \in [Ranks(conf) -> Proc(conf)] BY <1>2
<1>4. \A r, s \in Ranks(conf) :
        Synced(rank[r]) /\ Synced(rank[s]) => rank[r].stats = rank[s].stats
  BY DEF IInv, StepInv
<1>5. \A r, s \in Ranks(conf) :
        /\ rank'[r].pc \notin Early
        /\ Late(rank'[r]) /\ Late(rank'[s]) => Cycles(conf, rank'[r]) = Cycles(conf, rank'[s])
        /\ Synced(rank'[r]) /\ Synced(rank'[s]) => rank'[r].stats = rank'[s].stats
  <2> TAKE r, s \in Ranks(conf)
  <2>1. rank'[r].pc \notin Early BY <1>2 DEF Early
  <2>2. ~ Late(rank'[r]) BY <1>2
  <2>3. /\ Synced(rank'[r]) => Synced(rank[r])
        /\ Synced(rank'[s]) => Synced(rank[s])
        /\ rank'[r].stats = rank[r].stats /\ rank'[s].stats = rank[s].stats
    BY <1>2
  <2>4. Synced(rank[r]) /\ Synced(rank[s]) => rank[r].stats = rank[s].stats BY <1>4
  <2> QED BY <2>1, <2>2, <2>3, <2>4
<1> QED BY <1>2, <1>3, <1>5, Together

LEMMA BarrierInv == ASSUME IInv, Barrier PROVE IInv'
<1>1. UNCHANGED <<job, conf, ckpt, statsFile, cache, sidecar, overlap, launches, faults>>
      /\ (\A r \in Ranks(conf) : rank[r].pc = "barrier")
      /\ rank' = [r \in Ranks(conf) |-> Enter(rank[r])]
  BY DEF Barrier, env, Meet
<1>2. conf \in Configs /\ 0 \in Ranks(conf) /\ faults' \in 0 .. MaxFaults
  BY <1>1, ConfigFields DEF IInv, Types
<1>3. ASSUME NEW r \in Ranks(conf)
      PROVE  /\ rank'[r] \in Proc(conf) /\ Sound(conf, ckpt, rank'[r], r)
             /\ rank'[r].pc \in {"epoch", "done"} /\ Late(rank[r]) /\ Synced(rank[r])
             /\ rank'[r].stats = rank[r].stats
             /\ Cycles(conf, rank'[r]) = Cycles(conf, rank[r])
  <2> DEFINE p == rank[r]
             pc == IF p.epoch < Epochs THEN "epoch" ELSE "done"
             me == [p EXCEPT !.pc = pc]
  <2>1. p \in Proc(conf) /\ Sound(conf, ckpt, p, r) /\ p.pc = "barrier"
    BY <1>1, <1>3 DEF IInv, Types, RanksInv
  <2>2. pc \in {"epoch", "done"} /\ (pc = "epoch" => p.epoch < Epochs) OBVIOUS
  <2>3. rank'[r] = me BY <1>1, <1>3 DEF Enter
  <2> HIDE DEF pc
  <2>4. me \in Proc(conf) /\ me.pc = pc /\ me.net = p.net /\ me.stats = p.stats
        /\ me.epoch = p.epoch
    BY <1>2, <2>1, <2>2 DEF Proc, Pcs
  <2> HIDE DEF me
  <2>5. Late(me) /\ Late(p) /\ Synced(p) /\ me.pc \notin Early
    BY <2>1, <2>2, <2>4 DEF Late, Early, Synced
  <2>6. Cycles(conf, me) = Cycles(conf, p) BY <2>1, <2>2, <2>4 DEF Cycles
  <2>7. Sound(conf, ckpt, me, r)
    <3>1. \E n \in 0 .. (Epochs * StepsPerEpoch(conf)) : me.net = Trained(conf, me.stats, n)
      BY <2>1, <2>4 DEF Sound
    <3>2. me.net = Trained(conf, me.stats, Cycles(conf, me)) BY <2>1, <2>4, <2>5, <2>6 DEF Sound
    <3> QED BY <3>1, <3>2, <2>2, <2>4, <2>5 DEF Sound
  <2> QED BY <2>2, <2>3, <2>4, <2>5, <2>6, <2>7
<1>4. rank' \in [Ranks(conf) -> Proc(conf)] BY <1>1, <1>3
<1>5. \A r, s \in Ranks(conf) :
        /\ rank'[r].pc \notin Early
        /\ Late(rank'[r]) /\ Late(rank'[s]) => Cycles(conf, rank'[r]) = Cycles(conf, rank'[s])
        /\ Synced(rank'[r]) /\ Synced(rank'[s]) => rank'[r].stats = rank'[s].stats
  <2> TAKE r, s \in Ranks(conf)
  <2>1. rank'[r].pc \notin Early BY <1>3 DEF Early
  <2>2. Cycles(conf, rank[r]) = Cycles(conf, rank[s]) /\ rank[r].stats = rank[s].stats
    BY <1>3 DEF IInv, StepInv
  <2> QED BY <2>1, <2>2, <1>3
<1>6. ~ (conf.random /\ sidecar # "pinned") BY <1>1, <1>2 DEF IInv, VerifiedInv
<1> QED BY <1>1, <1>2, <1>3, <1>4, <1>5, <1>6, Together

(* What a process holds once the checkpoint is loaded.                     *)
LEMMA RestoredProc ==
  ASSUME IInv, NEW p \in Proc(conf), p.epoch = 0, p.net = << >>, MayLoad(conf, ckpt)
  PROVE  LET me == Restored(p)
             e  == IF ckpt = NoCkpt THEN 0 ELSE ckpt.epoch + 1
             x  == IF ckpt = NoCkpt THEN p.stats ELSE ckpt.stats
         IN  /\ me \in Proc(conf) /\ me.pc = p.pc /\ e \in 0 .. Epochs /\ x \in 0 .. Mixed
             /\ me.epoch = e /\ me.stats = x
             /\ me.net = Trained(conf, x, e * StepsPerEpoch(conf))
<1>1. conf \in Configs BY DEF IInv, Types
<1>2. CASE ckpt = NoCkpt
  <2>1. 0 * StepsPerEpoch(conf) = 0 BY <1>1, Sizes
  <2>2. p.stats \in 0 .. Mixed BY <1>1, ProcFields
  <2>3. Trained(conf, p.stats, 0) = << >> BY <1>1, <2>2, TrainedNothing
  <2>4. Restored(p) = p BY <1>2 DEF Restored
  <2>5. 0 \in 0 .. Epochs BY Constants
  <2> QED BY <1>2, <2>1, <2>2, <2>3, <2>4, <2>5
<1>3. CASE ckpt # NoCkpt
  <2> DEFINE e == ckpt.epoch + 1
             x == ckpt.stats
             y == ckpt.net
             me == [p EXCEPT !.epoch = e, !.net = y, !.stats = x]
  <2>1. ckpt.conf = conf /\ ckpt.epoch \in 0 .. (Epochs - 1) /\ x \in 0 .. Mixed
        /\ y = Trained(conf, x, e * StepsPerEpoch(conf))
    BY <1>3 DEF IInv, CkptInv, MayLoad
  <2>2. e \in 0 .. Epochs /\ e \in Nat /\ e <= Epochs BY <2>1, Constants
  <2> HIDE DEF e, x, y
  <2>3. y \in Nets(conf)
    <3>1. e * StepsPerEpoch(conf) \in 0 .. (Epochs * StepsPerEpoch(conf))
      <4>1. Epochs * StepsPerEpoch(conf) \in Nat BY <1>1, EpochSteps, Constants
      <4> QED BY <4>1, <1>1, <2>2, EpochSteps
    <3> QED BY <3>1, <2>1 DEF Nets
  <2>4. me \in Proc(conf) /\ me.pc = p.pc /\ me.epoch = e /\ me.stats = x /\ me.net = y
    BY <1>1, <2>1, <2>2, <2>3 DEF Proc
  <2> HIDE DEF me
  <2>5. Restored(p) = me BY <1>3 DEF Restored, me, e, x, y
  <2> QED BY <1>3, <2>1, <2>2, <2>4, <2>5 DEF e, x
<1> QED BY <1>2, <1>3

LEMMA BroadcastStatsInv == ASSUME IInv, BroadcastStats PROVE IInv'
<1>1. UNCHANGED <<job, conf, ckpt, statsFile, cache, sidecar, overlap, launches, faults>>
      /\ (\A r \in Ranks(conf) : rank[r].pc = "bcast")
  BY DEF BroadcastStats, env, Meet
<1>2. conf \in Configs /\ 0 \in Ranks(conf) /\ faults' \in 0 .. MaxFaults
  BY <1>1, ConfigFields DEF IInv, Types
<1>3. ~ (conf.random /\ sidecar # "pinned") BY <1>1, <1>2 DEF IInv, VerifiedInv
<1>4. CASE ~ Curriculum
  <2>1. rank' = [r \in Ranks(conf) |-> [rank[r] EXCEPT !.pc = "failed"]]
    BY <1>4 DEF BroadcastStats
  <2> QED BY <2>1, <1>1, <1>2, <1>3, AllFail
<1>5. CASE Curriculum
  <2> DEFINE given(r) == [rank[r] EXCEPT !.stats = rank[0].stats]
             e == IF ckpt = NoCkpt THEN 0 ELSE ckpt.epoch + 1
             x == IF ckpt = NoCkpt THEN rank[0].stats ELSE ckpt.stats
             n == e * StepsPerEpoch(conf)
  <2>1. \A r \in Ranks(conf) :
          rank'[r] = IF r = 0 THEN [Restored(given(r)) EXCEPT !.pc = "arm"]
                              ELSE Enter(Restored(given(r)))
    BY <1>5 DEF BroadcastStats
  <2>2. rank[0].stats \in 0 .. Mixed BY <1>2, ProcFields DEF IInv, Types
  <2>3. ASSUME NEW r \in Ranks(conf)
        PROVE  LET me == Restored(given(r))
               IN  /\ me \in Proc(conf) /\ e \in 0 .. Epochs /\ x \in 0 .. Mixed
                   /\ me.epoch = e /\ me.stats = x /\ me.net = Trained(conf, x, n)
                   /\ MayLoad(conf, ckpt)
    <3> DEFINE p == given(r)
    <3>1. rank[r] \in Proc(conf) /\ Sound(conf, ckpt, rank[r], r) /\ rank[r].pc = "bcast"
      BY <1>1, <2>3 DEF IInv, Types, RanksInv
    <3>2. MayLoad(conf, ckpt) /\ rank[r].epoch = 0 /\ rank[r].net = << >>
      BY <3>1 DEF Sound, Early
    <3>3. p \in Proc(conf) /\ p.stats = rank[0].stats /\ p.epoch = 0 /\ p.net = << >>
      BY <2>2, <3>1, <3>2 DEF Proc
    <3> HIDE DEF p
    <3>4. LET me == Restored(p)
              h  == IF ckpt = NoCkpt THEN 0 ELSE ckpt.epoch + 1
              y  == IF ckpt = NoCkpt THEN p.stats ELSE ckpt.stats
          IN  /\ me \in Proc(conf) /\ me.pc = p.pc /\ h \in 0 .. Epochs /\ y \in 0 .. Mixed
              /\ me.epoch = h /\ me.stats = y
              /\ me.net = Trained(conf, y, h * StepsPerEpoch(conf))
      BY <3>2, <3>3, RestoredProc
    <3> QED BY <3>2, <3>3, <3>4 DEF p
  <2> HIDE DEF given, e, x
  <2>4. e \in 0 .. Epochs /\ x \in 0 .. Mixed BY <1>2, <2>3
  <2>5. n \in Nat /\ n + 0 = n /\ n \in 0 .. (Epochs * StepsPerEpoch(conf))
    <3>1. e \in Nat /\ e <= Epochs /\ Epochs \in Nat BY <2>4, Constants
    <3>2. n \in Nat /\ n <= Epochs * StepsPerEpoch(conf) BY <1>2, <3>1, EpochSteps
    <3>3. Epochs * StepsPerEpoch(conf) \in Nat BY <1>2, <3>1, EpochSteps
    <3> HIDE DEF n
    <3> QED BY <3>2, <3>3
  <2>6. ASSUME NEW r \in Ranks(conf)
        PROVE  /\ rank'[r] \in Proc(conf) /\ Sound(conf, ckpt, rank'[r], r)
               /\ rank'[r].pc \in {"arm", "epoch", "done"}
               /\ rank'[r].stats = x /\ Cycles(conf, rank'[r]) = n
    <3> DEFINE q  == Restored(given(r))
               pc == IF r = 0 THEN "arm" ELSE IF q.epoch < Epochs THEN "epoch" ELSE "done"
               me == [q EXCEPT !.pc = pc]
    <3>1. rank'[r] = me BY <2>1, <2>6 DEF Enter
    <3>2. q \in Proc(conf) /\ q.epoch = e /\ q.stats = x /\ q.net = Trained(conf, x, n)
          /\ MayLoad(conf, ckpt)
      BY <2>3, <2>6
    <3>3. /\ pc \in {"arm", "epoch", "done"} /\ (pc = "epoch" => q.epoch < Epochs)
          /\ r # 0 => pc # "arm"
      OBVIOUS
    <3> HIDE DEF q, pc
    <3>4. me \in Proc(conf) /\ me.pc = pc /\ me.epoch = e /\ me.stats = x
          /\ me.net = Trained(conf, x, n)
      BY <1>2, <3>2, <3>3 DEF Proc, Pcs
    <3> HIDE DEF me
    <3>5. Cycles(conf, me) = n
      <4>1. Cycles(conf, me) = n + 0 BY <3>3, <3>4 DEF Cycles
      <4> QED BY <4>1, <2>5
    <3>6. me.pc \notin Early BY <3>3, <3>4 DEF Early
    <3>7. Sound(conf, ckpt, me, r) BY <3>2, <3>3, <3>4, <3>5, <3>6, <2>5 DEF Sound
    <3> QED BY <3>1, <3>3, <3>4, <3>5, <3>7
  <2>7. rank' \in [Ranks(conf) -> Proc(conf)]
    <3>1. rank' = [r \in Ranks(conf) |-> rank'[r]] BY DEF BroadcastStats
    <3> QED BY <3>1, <2>6
  <2>8. \A r, s \in Ranks(conf) :
          /\ rank'[r].pc \notin Early
          /\ Late(rank'[r]) /\ Late(rank'[s]) => Cycles(conf, rank'[r]) = Cycles(conf, rank'[s])
          /\ Synced(rank'[r]) /\ Synced(rank'[s]) => rank'[r].stats = rank'[s].stats
    <3> TAKE r, s \in Ranks(conf)
    <3>1. rank'[r].pc \notin Early BY <2>6 DEF Early
    <3>2. Cycles(conf, rank'[r]) = n /\ Cycles(conf, rank'[s]) = n BY <2>6
    <3>3. rank'[r].stats = x /\ rank'[s].stats = x BY <2>6
    <3> QED BY <3>1, <3>2, <3>3
  <2> QED BY <1>1, <1>2, <1>3, <2>6, <2>7, <2>8, Together
<1> QED BY <1>4, <1>5

(* A rank at the end of a cycle of micro-batches: which one it is, and     *)
(* what its gradients are made of.                                         *)
LEMMA FullCycle ==
  ASSUME NEW c \in Configs, NEW k, NEW r \in Ranks(c), NEW p \in Proc(c), Sound(c, k, p, r),
         p.pc = "grad"
  PROVE  LET n == Cycles(c, p)
         IN  /\ n \in Nat /\ n + 1 <= Epochs * StepsPerEpoch(c)
             /\ n + 1 = p.epoch * StepsPerEpoch(c) + (p.it \div c.accum)
             /\ p.grads = Uninterrupted(c, n).grads[r]
<1> DEFINE a == c.accum
           s == StepsPerEpoch(c)
           h == p.it \div a
           q == h - 1
           n == Cycles(c, p)
<1>1. /\ a \in Nat \ {0} /\ p.it \in Nat /\ p.epoch \in Nat /\ p.epoch < Epochs
      /\ p.it <= Batches(c, 0) /\ Batches(c, 0) \in Nat
      /\ p.it % a = 0 /\ p.it > 0
      /\ p.grads = Taken(Micros(c, p.epoch + 1, r, q), a)
      /\ s \in Nat
  BY ConfigFields, ProcFields, Sizes DEF Sound
<1>2. h \in Nat /\ p.it = a * h + 0
  <2>1. h \in Nat /\ p.it = a * h + (p.it % a) BY <1>1, Divided
  <2> QED BY <2>1, <1>1
<1>3. h <= s
  <2>1. s = Batches(c, 0) \div a BY DEF StepsPerEpoch
  <2> QED BY <2>1, <1>1, Monotone
<1>4. n = p.epoch * s + q BY DEF Cycles
<1> HIDE DEF a, s, h
<1>5. h # 0 BY <1>1, <1>2
<1>6. q \in 0 .. (s - 1) /\ s \in Nat \ {0} /\ q + 1 = h BY <1>1, <1>2, <1>3, <1>5
<1> HIDE DEF q, n
<1>7. n \div s = p.epoch /\ n % s = q BY <1>1, <1>4, <1>6, Quotient
<1>8. p.epoch * s \in Nat /\ (p.epoch + 1) * s = p.epoch * s + s
      /\ (p.epoch + 1) * s <= Epochs * s /\ Epochs * s \in Nat
  <2>1. p.epoch + 1 \in Nat /\ p.epoch + 1 <= Epochs /\ Epochs \in Nat BY <1>1, Constants
  <2> QED BY <2>1, <1>1, EpochSteps DEF s
<1> DEFINE x == p.epoch * s
<1>9. x \in Nat /\ x + s <= Epochs * s /\ Epochs * s \in Nat /\ n = x + q BY <1>4, <1>8
<1> HIDE DEF x
<1>10. n \in Nat /\ n + 1 <= Epochs * s /\ n + 1 = x + h BY <1>6, <1>9
<1>11. p.grads = Uninterrupted(c, n).grads[r]
  <2> DEFINE e == p.epoch + 1
  <2>1. Uninterrupted(c, n).grads[r] =
          [m \in 1 .. c.accum |->
             Batch(Draws(c, e, r), q * c.accum + m, IF c.random THEN e ELSE Baked)]
    BY <1>7 DEF Uninterrupted, s
  <2>2. Taken(Micros(c, e, r, q), c.accum) =
          [m \in 1 .. c.accum |->
             Batch(Draws(c, e, r), q * c.accum + m, IF c.random THEN e ELSE Baked)]
    BY <1>1 DEF Taken, Micros, a
  <2> QED BY <1>1, <2>1, <2>2 DEF a
<1> QED BY <1>10, <1>11 DEF n, x, s, h, a

LEMMA StepActionInv == ASSUME IInv, Step PROVE IInv'
<1>1. UNCHANGED <<job, conf, ckpt, statsFile, cache, sidecar, overlap, launches>>
      /\ (\A r \in Ranks(conf) : rank[r].pc = "grad")
      /\ (faults' = faults \/ (faults < MaxFaults /\ faults' = faults + 1))
  BY DEF Step, env, Meet
<1>2. conf \in Configs /\ 0 \in Ranks(conf) /\ faults' \in 0 .. MaxFaults
  BY <1>1, Constants, ConfigFields DEF IInv, Types
<1>3. ~ (conf.random /\ sidecar # "pinned") BY <1>1, <1>2 DEF IInv, VerifiedInv
<1>4. CASE rank' = [r \in Ranks(conf) |-> [rank[r] EXCEPT !.pc = "failed"]]
  BY <1>4, <1>1, <1>2, <1>3, AllFail
<1>5. CASE rank' = [r \in Ranks(conf) |->
                      [rank[r] EXCEPT !.pc = "train", !.grads = << >>,
                                      !.net = Append(rank[r].net, Update(r))]]
  <2> DEFINE n == Cycles(conf, rank[0])
             x == rank[0].stats
             g == Uninterrupted(conf, n).grads
             S == StepsPerEpoch(conf)
  <2>1. ASSUME NEW r \in Ranks(conf)
        PROVE  /\ rank[r] \in Proc(conf) /\ Sound(conf, ckpt, rank[r], r) /\ rank[r].pc = "grad"
               /\ Late(rank[r]) /\ Synced(rank[r])
    BY <1>1, <2>1 DEF IInv, Types, RanksInv, Late, Synced, Early
  <2>2. ASSUME NEW r \in Ranks(conf)
        PROVE  Cycles(conf, rank[r]) = n /\ rank[r].stats = x
    BY <1>2, <2>1, <2>2 DEF IInv, StepInv
  <2>3. ASSUME NEW r \in Ranks(conf)
        PROVE  /\ n \in Nat /\ n + 1 <= Epochs * S
               /\ n + 1 = rank[r].epoch * S + (rank[r].it \div conf.accum)
               /\ rank[r].grads = g[r]
               /\ rank[r].net = Trained(conf, x, n)
    <3>1. rank[r].net = Trained(conf, rank[r].stats, Cycles(conf, rank[r])) BY <2>1, <2>3 DEF Sound
    <3>2. LET h == Cycles(conf, rank[r])
          IN  /\ h \in Nat /\ h + 1 <= Epochs * StepsPerEpoch(conf)
              /\ h + 1 = rank[r].epoch * StepsPerEpoch(conf) + (rank[r].it \div conf.accum)
              /\ rank[r].grads = Uninterrupted(conf, h).grads[r]
      BY <1>2, <2>1, <2>3, FullCycle
    <3> QED BY <2>2, <2>3, <3>1, <3>2
  <2>4. n \in Nat /\ n + 1 <= Epochs * S BY <1>2, <2>3
  <2>5. [s \in Ranks(conf) |-> rank[s].grads] = g
    <3>1. g = [s \in Ranks(conf) |-> g[s]] BY DEF Uninterrupted
    <3> HIDE DEF g
    <3> QED BY <2>3, <3>1
  <2>6. ASSUME NEW r \in Ranks(conf)
        PROVE  Append(rank[r].net, Update(r)) = Trained(conf, x, n + 1)
    <3> DEFINE u == Update(r)
    <3>1. Len(rank[r].net) = n BY <2>3, <2>4, <2>6, TrainedLength
    <3>2. u = [lr |-> n, stats |-> x, grads |-> Uninterrupted(conf, n).grads]
      BY <2>2, <2>5, <2>6, <3>1 DEF Update
    <3> HIDE DEF n, u, x
    <3>3. Append(Trained(conf, x, n), u) = Trained(conf, x, n + 1)
      BY <2>4, <3>2, TrainedOneMore
    <3> QED BY <2>3, <2>6, <3>3 DEF u
  <2> HIDE DEF n, x, g
  <2>7. Epochs * S \in Nat /\ x \in 0 .. Mixed
    <3>1. Epochs * S \in Nat BY <1>2, Constants, EpochSteps
    <3>2. x \in 0 .. Mixed BY <1>2, <2>1, ProcFields DEF x
    <3> QED BY <3>1, <3>2
  <2>8. n + 1 \in 0 .. (Epochs * S)
    <3> DEFINE w == Epochs * S
    <3>1. w \in Nat /\ n + 1 <= w BY <2>4, <2>7
    <3> HIDE DEF w
    <3>2. n + 1 \in 0 .. w BY <2>4, <3>1
    <3> QED BY <3>2 DEF w
  <2>9. Trained(conf, x, n + 1) \in Nets(conf) BY <2>7, <2>8 DEF Nets
  <2>10. ASSUME NEW r \in Ranks(conf)
         PROVE  /\ rank'[r] \in Proc(conf) /\ Sound(conf, ckpt, rank'[r], r)
                /\ rank'[r].pc = "train" /\ rank'[r].stats = x
                /\ Cycles(conf, rank'[r]) = n + 1
    <3> DEFINE p  == rank[r]
               me == [p EXCEPT !.pc = "train", !.grads = << >>, !.net = Trained(conf, x, n + 1)]
    <3>1. rank'[r] = me BY <1>5, <2>6, <2>10
    <3>2. p \in Proc(conf) /\ Sound(conf, ckpt, p, r) /\ p.pc = "grad" /\ p.stats = x
      BY <2>1, <2>2, <2>10
    <3>3. << >> \in Grads(conf) BY <1>2, NoGrads
    <3>4. me \in Proc(conf) BY <1>2, <2>9, <3>2, <3>3 DEF Proc, Pcs
    <3>5. /\ me.pc = "train" /\ me.stats = x /\ me.net = Trained(conf, x, n + 1)
          /\ me.grads = << >> /\ me.epoch = p.epoch /\ me.it = p.it
          /\ me.caption = p.caption /\ me.fork = p.fork
      BY <3>2 DEF Proc
    <3> HIDE DEF me
    <3>6. Cycles(conf, me) = n + 1 BY <2>3, <2>10, <3>5 DEF Cycles
    <3>7. me.grads = Taken(Micros(conf, me.epoch + 1, r, me.it \div conf.accum), me.it % conf.accum)
      <4>1. me.it % conf.accum = 0 BY <3>2, <3>5 DEF Sound
      <4> QED BY <4>1, <3>5, TakenNothing
    <3>8. /\ me.epoch < Epochs /\ me.caption = me.epoch + 1
          /\ conf.random => me.fork = me.epoch + 1
      BY <3>2, <3>5 DEF Sound
    <3>9. me.pc \notin Early BY <3>5 DEF Early
    <3>10. \E m \in 0 .. (Epochs * StepsPerEpoch(conf)) : me.net = Trained(conf, me.stats, m)
      BY <2>8, <3>5
    <3>11. Sound(conf, ckpt, me, r) BY <3>5, <3>6, <3>7, <3>8, <3>9, <3>10 DEF Sound
    <3> QED BY <3>1, <3>4, <3>5, <3>6, <3>11
  <2>11. rank' \in [Ranks(conf) -> Proc(conf)]
    <3>1. rank' = [r \in Ranks(conf) |-> rank'[r]] BY <1>5
    <3> QED BY <3>1, <2>10
  <2>12. \A r, s \in Ranks(conf) :
          /\ rank'[r].pc \notin Early
          /\ Late(rank'[r]) /\ Late(rank'[s]) => Cycles(conf, rank'[r]) = Cycles(conf, rank'[s])
          /\ Synced(rank'[r]) /\ Synced(rank'[s]) => rank'[r].stats = rank'[s].stats
    <3> TAKE r, s \in Ranks(conf)
    <3>1. rank'[r].pc \notin Early BY <2>10 DEF Early
    <3>2. Cycles(conf, rank'[r]) = n + 1 /\ Cycles(conf, rank'[s]) = n + 1 BY <2>10
    <3>3. rank'[r].stats = x /\ rank'[s].stats = x BY <2>10
    <3> QED BY <3>1, <3>2, <3>3
  <2> QED BY <1>1, <1>2, <1>3, <2>10, <2>11, <2>12, Together
<1> QED BY <1>4, <1>5 DEF Step

-----------------------------------------------------------------------------
(* torchrun and the world outside: all ranks are new, or none has moved.   *)
Fresh(pc) == [Off EXCEPT !.pc = pc]

LEMMA Started ==
  ASSUME NEW c \in Configs, NEW k, NEW pc \in {"off", "open"},
         NEW f \in [Ranks(c) -> {Fresh(pc)}]
  PROVE  /\ f \in [Ranks(c) -> Proc(c)] /\ 0 \in Ranks(c) /\ f[0].pc = pc
         /\ \A r \in Ranks(c) :
              /\ Sound(c, k, f[r], r) /\ ~ Late(f[r]) /\ ~ Synced(f[r])
              /\ f[r].pc = pc /\ f[r].net = << >>
<1>1. 0 \in Ranks(c) BY ConfigFields
<1>2. ASSUME NEW r \in Ranks(c)
      PROVE  /\ f[r] \in Proc(c) /\ Sound(c, k, f[r], r) /\ ~ Late(f[r]) /\ ~ Synced(f[r])
             /\ f[r].pc = pc /\ f[r].net = << >>
  <2> DEFINE me == Fresh(pc)
  <2>1. f[r] = me BY <1>2
  <2>2. /\ me \in Proc(c) /\ Sound(c, k, me, r) /\ ~ Late(me) /\ ~ Synced(me)
        /\ me.pc = pc /\ me.net = << >>
    BY StartedProc DEF Fresh
  <2> HIDE DEF me
  <2> QED BY <2>1, <2>2
<1>4. f \in [Ranks(c) -> Proc(c)] BY <1>2
<1> QED BY <1>1, <1>2, <1>4

LEMMA AllNew ==
  ASSUME conf' \in Configs, NEW pc \in {"off", "open"},
         rank' = [r \in Ranks(conf') |-> Fresh(pc)]
  PROVE  /\ rank' \in [Ranks(conf') -> Proc(conf')] /\ rank'[0].pc = pc
         /\ RanksInv' /\ StepInv' /\ VerifiedInv'
<1>1. /\ rank' \in [Ranks(conf') -> Proc(conf')] /\ 0 \in Ranks(conf') /\ rank'[0].pc = pc
      /\ \A r \in Ranks(conf') :
           /\ Sound(conf', ckpt', rank'[r], r) /\ ~ Late(rank'[r]) /\ ~ Synced(rank'[r])
           /\ rank'[r].pc = pc /\ rank'[r].net = << >>
  <2> DEFINE c == conf'
             k == ckpt'
             f == rank'
  <2>1. c \in Configs /\ f \in [Ranks(c) -> {Fresh(pc)}] OBVIOUS
  <2> HIDE DEF c, k, f
  <2>2. /\ f \in [Ranks(c) -> Proc(c)] /\ 0 \in Ranks(c) /\ f[0].pc = pc
        /\ \A r \in Ranks(c) :
              /\ Sound(c, k, f[r], r) /\ ~ Late(f[r]) /\ ~ Synced(f[r])
              /\ f[r].pc = pc /\ f[r].net = << >>
    BY SMTT(30), <2>1, Started
  <2> QED BY <2>2 DEF c, k, f
<1>2. RanksInv' BY <1>1 DEF RanksInv
<1>3. StepInv' BY <1>1 DEF StepInv
<1>4. VerifiedInv' BY <1>1 DEF VerifiedInv
<1> QED BY <1>1, <1>2, <1>3, <1>4

LEMMA InvInit == ASSUME Init PROVE IInv
<1>1. conf \in Configs /\ rank \in [Ranks(conf) -> {Fresh("off")}]
  BY DEF Init, Off, Fresh
<1>2. /\ rank \in [Ranks(conf) -> Proc(conf)] /\ 0 \in Ranks(conf) /\ rank[0].pc = "off"
      /\ \A r \in Ranks(conf) :
           /\ Sound(conf, ckpt, rank[r], r) /\ ~ Late(rank[r]) /\ ~ Synced(rank[r])
           /\ rank[r].pc = "off" /\ rank[r].net = << >>
  BY SMTT(30), <1>1, Started
<1>3. Types
  <2>1. statsFile \in [state : {"none", "torn", "whole"}, key : 0 .. (MaxExports + 1),
                       stats : 0 .. Mixed]
    BY Constants DEF Init, NoFile, NoStats, Mixed
  <2>2. /\ cache \in 1 .. (MaxExports + 1)
        /\ launches \in 0 .. MaxLaunches /\ faults \in 0 .. MaxFaults
    BY Constants DEF Init
  <2>3. job = "off" /\ sidecar \in Sidecars /\ overlap = FALSE BY DEF Init
  <2> QED BY <1>1, <1>2, <2>1, <2>2, <2>3 DEF Types
<1>4. RanksInv BY <1>2 DEF RanksInv
<1>5. StepInv BY <1>2 DEF StepInv
<1>6. CkptInv BY DEF Init, CkptInv
<1>7. StatsInv
  <2>1. statsFile.state = "none" BY DEF Init, NoFile
  <2> QED BY <1>2, <2>1 DEF StatsInv
<1>8. VerifiedInv BY <1>2 DEF VerifiedInv
<1> QED BY <1>3, <1>4, <1>5, <1>6, <1>7, <1>8 DEF IInv

LEMMA LaunchInv == ASSUME IInv, Launch PROVE IInv'
<1>1. /\ launches < MaxLaunches /\ launches' = launches + 1 /\ job' = "up" /\ conf' \in Configs
      /\ rank' = [r \in Ranks(conf') |-> Fresh("open")] /\ overlap' = FALSE
      /\ UNCHANGED <<ckpt, statsFile, cache, sidecar, faults>>
  BY DEF Launch, Fresh
<1>2. /\ rank' \in [Ranks(conf') -> Proc(conf')] /\ rank'[0].pc = "open"
      /\ RanksInv' /\ StepInv' /\ VerifiedInv'
  BY <1>1, AllNew
<1>3. launches' \in 0 .. MaxLaunches BY <1>1, Constants DEF IInv, Types
<1>4. Types' BY <1>1, <1>2, <1>3 DEF IInv, Types
<1>5. CkptInv' BY <1>1 DEF IInv, CkptInv
<1>6. StatsInv' BY <1>1, <1>2 DEF IInv, StatsInv
<1> QED BY <1>2, <1>4, <1>5, <1>6 DEF IInv

LEMMA DownInv ==
  ASSUME IInv, Down, UNCHANGED <<conf, ckpt, cache, sidecar, overlap, launches, faults>>,
         statsFile' \in {statsFile, [NoFile EXCEPT !.state = "torn"]}
  PROVE  IInv'
<1>1. conf' \in Configs /\ job' = "off"
      /\ rank' = [r \in Ranks(conf') |-> Fresh("off")]
  BY DEF IInv, Types, Down, Off, Fresh
<1>2. /\ rank' \in [Ranks(conf') -> Proc(conf')] /\ rank'[0].pc = "off"
      /\ RanksInv' /\ StepInv' /\ VerifiedInv'
  BY <1>1, AllNew
<1> DEFINE torn == [NoFile EXCEPT !.state = "torn"]
<1>3. /\ torn.state = "torn"
      /\ torn \in [state : {"none", "torn", "whole"}, key : 0 .. (MaxExports + 1),
                   stats : 0 .. Mixed]
  BY Constants DEF NoFile, NoStats, Mixed
<1> HIDE DEF torn
<1>4. Types' BY <1>1, <1>2, <1>3 DEF IInv, Types, torn
<1>5. CkptInv' BY DEF IInv, CkptInv
<1>6. StatsInv'
  <2>1. statsFile'.state = "whole" => statsFile' = statsFile BY <1>3 DEF torn
  <2> QED BY <1>2, <2>1 DEF IInv, StatsInv
<1> QED BY <1>2, <1>4, <1>5, <1>6 DEF IInv

LEMMA ExportInv == ASSUME IInv, Export PROVE IInv'
<1>1. /\ cache <= MaxExports /\ cache' = cache + 1
      /\ overlap' = (overlap \/ (job = "up" /\ rank[0].pc \in {"stats", "scan"}))
      /\ UNCHANGED <<job, conf, rank, ckpt, statsFile, sidecar, launches, faults>>
  BY DEF Export
<1>2. Types'
  <2>1. cache' \in 1 .. (MaxExports + 1) BY <1>1, Constants DEF IInv, Types
  <2>2. overlap' \in BOOLEAN BY <1>1
  <2> QED BY <1>1, <2>1, <2>2 DEF IInv, Types
<1>3. RanksInv' BY <1>1 DEF IInv, RanksInv
<1>4. StepInv' BY <1>1 DEF IInv, StepInv
<1>5. CkptInv' BY <1>1 DEF IInv, CkptInv
<1>6. VerifiedInv' BY <1>1 DEF IInv, VerifiedInv
<1>7. StatsInv'
  <2> DEFINE p == rank[0]
  <2>1. /\ conf \in Configs /\ cache \in Nat /\ statsFile.key \in Nat /\ p.key \in Nat
    <3>1. conf \in Configs /\ rank \in [Ranks(conf) -> Proc(conf)] BY DEF IInv, Types
    <3>2. p \in Proc(conf) BY <3>1, ConfigFields
    <3>3. p.key \in 0 .. (MaxExports + 1) BY <3>1, <3>2, ProcFields
    <3>4. cache \in 1 .. (MaxExports + 1) /\ statsFile.key \in 0 .. (MaxExports + 1)
      BY DEF IInv, Types
    <3> QED BY <3>1, <3>3, <3>4, Constants
  <2>2. p.pc \in {"open", "stats", "scan"} => job = "up" BY DEF IInv, StatsInv
  <2>3. p.pc = "open" => ~ overlap' BY <1>1 DEF IInv, StatsInv
  <2>4. p.pc \in {"stats", "scan"} => overlap' BY <1>1, <2>2
  <2>5. p.pc \in {"stats", "scan"} => p.key < cache'
    <3>1. p.pc \in {"stats", "scan"} => IF overlap THEN p.key < cache ELSE p.key = cache
      BY DEF IInv, StatsInv
    <3> QED BY <3>1, <2>1, <1>1
  <2>6. p.pc \in {"scan", "bcast"} /\ ~ overlap' => p.stats = p.key
    BY <1>1 DEF IInv, StatsInv
  <2>7. statsFile.state = "whole" => statsFile.stats = statsFile.key \/ statsFile.key < cache'
    <3>1. statsFile.state = "whole" => statsFile.stats = statsFile.key \/ statsFile.key < cache
      BY DEF IInv, StatsInv
    <3> QED BY <3>1, <2>1, <1>1
  <2> HIDE DEF p
  <2>8. p' = p BY <1>1 DEF p
  <2> QED BY <1>1, <2>2, <2>3, <2>4, <2>5, <2>6, <2>7 DEF StatsInv, p
<1> QED BY <1>2, <1>3, <1>4, <1>5, <1>6, <1>7 DEF IInv

LEMMA FinishInv == ASSUME IInv, Finish PROVE IInv'
<1>1. /\ job' = "finished" /\ \A r \in Ranks(conf) : rank[r].pc = "done"
      /\ UNCHANGED <<conf, rank, ckpt, statsFile, cache, sidecar, overlap, launches, faults>>
  BY DEF Finish, Meet, env
<1>2. 0 \in Ranks(conf) BY ConfigFields DEF IInv, Types
<1>3. rank'[0].pc = "done" BY <1>1, <1>2
<1>4. Types' BY <1>1 DEF IInv, Types
<1>5. RanksInv' BY <1>1 DEF IInv, RanksInv
<1>6. StepInv' BY <1>1 DEF IInv, StepInv
<1>7. CkptInv' BY <1>1 DEF IInv, CkptInv
<1>8. VerifiedInv' BY <1>1 DEF IInv, VerifiedInv
<1>9. StatsInv' BY <1>1, <1>3 DEF IInv, StatsInv
<1> QED BY <1>4, <1>5, <1>6, <1>7, <1>8, <1>9 DEF IInv

LEMMA InvNext == ASSUME IInv, [Next]_vars PROVE IInv'
<1>1. CASE Launch BY <1>1, LaunchInv
<1>2. CASE Kill
  <2>1. /\ Down /\ UNCHANGED <<conf, ckpt, cache, sidecar, overlap, launches, faults>>
        /\ statsFile' \in {statsFile, [NoFile EXCEPT !.state = "torn"]}
    BY <1>2 DEF Kill, env
  <2> QED BY <2>1, DownInv
<1>3. CASE Export BY <1>3, ExportInv
<1>4. CASE Finish BY <1>4, FinishInv
<1>5. CASE AgentStops
  <2>1. /\ Down /\ UNCHANGED <<conf, ckpt, cache, sidecar, overlap, launches, faults>>
        /\ statsFile' \in {statsFile, [NoFile EXCEPT !.state = "torn"]}
    BY <1>5 DEF AgentStops, env
  <2> QED BY <2>1, DownInv
<1>6. CASE MainStep
  BY <1>6, LoadStatsInv, StartScanInv, EndScanInv, ArmEvalInv, SaveInv, GenEvalInv DEF MainStep
<1>7. CASE Collective
  BY <1>7, BroadcastStatsInv, StepActionInv, BarrierInv DEF Collective
<1>8. CASE \E r \in Ranks(conf) : RankStep(r)
  BY <1>8, OpenTokensInv, StartEpochInv, MicroInv, EndLoaderInv DEF RankStep
<1>9. CASE UNCHANGED vars
  <2>1. UNCHANGED <<job, conf, rank, ckpt, statsFile, cache, sidecar, overlap, launches, faults>>
    BY <1>9 DEF vars, env
  <2>2. Types' BY <2>1 DEF IInv, Types
  <2>3. RanksInv' BY <2>1 DEF IInv, RanksInv
  <2>4. StepInv' BY <2>1 DEF IInv, StepInv
  <2>5. CkptInv' BY <2>1 DEF IInv, CkptInv
  <2>6. StatsInv' BY <2>1 DEF IInv, StatsInv
  <2>7. VerifiedInv' BY <2>1 DEF IInv, VerifiedInv
  <2> QED BY <2>2, <2>3, <2>4, <2>5, <2>6, <2>7 DEF IInv
<1> QED BY <1>1, <1>2, <1>3, <1>4, <1>5, <1>6, <1>7, <1>8, <1>9 DEF Next

THEOREM Inductive == Spec => []IInv
<1>1. Init => IInv BY InvInit
<1>2. IInv /\ [Next]_vars => IInv' BY InvNext
<1> QED BY <1>1, <1>2, PTL DEF Spec

-----------------------------------------------------------------------------
(* What the invariant says of the updates.                                 *)

(* The updates of a rank.                                                  *)
LEMMA NetOf ==
  ASSUME IInv, NEW r \in Ranks(conf)
  PROVE  LET p == rank[r]
         IN  /\ Len(p.net) \in 0 .. (Epochs * StepsPerEpoch(conf))
             /\ \A i \in 1 .. Len(p.net) : p.net[i] =
                  [lr |-> i - 1, stats |-> p.stats, grads |-> Uninterrupted(conf, i - 1).grads]
             /\ Len(p.net) > 0 => Synced(p)
<1> DEFINE p == rank[r]
<1>1. conf \in Configs /\ Sound(conf, ckpt, p, r) BY DEF IInv, Types, RanksInv
<1>2. PICK n \in 0 .. (Epochs * StepsPerEpoch(conf)) : p.net = Trained(conf, p.stats, n)
  BY <1>1 DEF Sound
<1>3. n \in Nat
  <2>1. Epochs * StepsPerEpoch(conf) \in Nat BY <1>1, Constants, EpochSteps
  <2> QED BY <2>1, <1>2
<1>4. /\ Len(p.net) = n
      /\ \A i \in 1 .. n : p.net[i] =
           [lr |-> i - 1, stats |-> p.stats, grads |-> Uninterrupted(conf, i - 1).grads]
  BY <1>2, <1>3, TrainedLength
<1>5. p.net # << >> => Synced(p) BY <1>1 DEF Sound, Synced
<1>6. Len(p.net) > 0 => p.net # << >> OBVIOUS
<1> QED BY <1>2, <1>4, <1>5, <1>6

LEMMA InvSameRun == ASSUME IInv PROVE SameRun
<1> SUFFICES ASSUME NEW r \in Ranks(conf), NEW i \in 1 .. Len(rank[r].net)
             PROVE  [lr |-> rank[r].net[i].lr, grads |-> rank[r].net[i].grads]
                      = Uninterrupted(conf, i - 1)
  BY DEF SameRun
<1> DEFINE u == rank[r].net[i]
           g == Uninterrupted(conf, i - 1).grads
<1>1. u = [lr |-> i - 1, stats |-> rank[r].stats, grads |-> g] BY NetOf
<1>2. u.lr = i - 1 /\ u.grads = g BY <1>1
<1>3. Uninterrupted(conf, i - 1) = [lr |-> i - 1, grads |-> g] BY DEF Uninterrupted
<1> HIDE DEF u, g
<1> QED BY <1>2, <1>3 DEF u

(* Killed and resumed however often, whatever the world outside does, the  *)
(* weights of every rank are the updates of a run nothing ever             *)
(* interrupted, in their order and each at its own learning rate.          *)
THEOREM SameRunCorrect == Spec => []SameRun
<1>1. IInv => SameRun BY InvSameRun
<1> QED BY <1>1, Inductive, PTL

LEMMA InvOneNormalisation == ASSUME IInv PROVE OneNormalisation
<1> SUFFICES ASSUME NEW r \in Ranks(conf), NEW s \in Ranks(conf),
                    NEW i \in 1 .. Len(rank[r].net), NEW j \in 1 .. Len(rank[s].net)
             PROVE  rank[r].net[i].stats = rank[s].net[j].stats
  BY DEF OneNormalisation
<1>1. rank[r].net[i].stats = rank[r].stats /\ rank[s].net[j].stats = rank[s].stats
  <2>1. /\ rank[r].net[i] = [lr |-> i - 1, stats |-> rank[r].stats,
                             grads |-> Uninterrupted(conf, i - 1).grads]
        /\ rank[s].net[j] = [lr |-> j - 1, stats |-> rank[s].stats,
                             grads |-> Uninterrupted(conf, j - 1).grads]
    BY NetOf
  <2> QED BY <2>1
<1>2. Synced(rank[r]) /\ Synced(rank[s])
  <2>1. Len(rank[r].net) \in 0 .. (Epochs * StepsPerEpoch(conf))
        /\ Len(rank[s].net) \in 0 .. (Epochs * StepsPerEpoch(conf))
    BY NetOf
  <2>2. Len(rank[r].net) > 0 /\ Len(rank[s].net) > 0
    <3> DEFINE a == Len(rank[r].net)
               b == Len(rank[s].net)
    <3>1. a \in Int /\ b \in Int BY <2>1
    <3>2. i \in 1 .. a /\ j \in 1 .. b OBVIOUS
    <3> HIDE DEF a, b
    <3>3. a > 0 /\ b > 0 BY <3>1, <3>2
    <3> QED BY <3>3 DEF a, b
  <2> QED BY <2>2, NetOf
<1>3. rank[r].stats = rank[s].stats BY <1>2 DEF IInv, StepInv
<1> QED BY <1>1, <1>3

LEMMA InvTypeOK == ASSUME IInv PROVE TypeOK
<1>1. conf \in Configs /\ rank \in [Ranks(conf) -> Proc(conf)] BY DEF IInv, Types
<1>2. ASSUME NEW r \in Ranks(conf)
      PROVE  /\ rank[r].pc \in IF r = 0 THEN Pcs
                               ELSE Pcs \ {"stats", "scan", "arm", "val", "gen"}
             /\ rank[r].epoch \in 0 .. Epochs
             /\ rank[r].it \in 0 .. Batches(conf, r)
             /\ Len(rank[r].grads) <= conf.accum
             /\ Len(rank[r].net) <= Epochs * StepsPerEpoch(conf)
  <2> DEFINE p == rank[r]
  <2>1. p \in Proc(conf) /\ Sound(conf, ckpt, p, r) BY <1>2 DEF IInv, Types, RanksInv
  <2>2. /\ p.pc \in Pcs /\ p.epoch \in 0 .. Epochs /\ p.it \in 0 .. Batches(conf, 0)
        /\ p.grads \in Grads(conf)
    BY <1>1, <2>1, ProcFields
  <2>3. Batches(conf, r) = Batches(conf, 0) BY <1>1, Sizes
  <2>4. Len(p.grads) <= conf.accum
    <3>1. PICK e \in 1 .. Epochs, s \in Ranks(conf), k \in Nat, n \in 0 .. conf.accum :
            p.grads = Taken(Micros(conf, e, s, k), n)
      BY <2>2 DEF Grads
    <3>2. conf.accum \in Nat /\ n \in Nat /\ n <= conf.accum BY <1>1, ConfigFields
    <3> DEFINE f == Micros(conf, e, s, k)
    <3>3. f \in [Nat -> {f[m] : m \in Nat}] BY DEF Micros
    <3> HIDE DEF f
    <3>4. Len(Taken(f, n)) = n BY <3>2, <3>3, TakenOneMore
    <3> QED BY <3>1, <3>2, <3>4 DEF f
  <2>5. Len(p.net) <= Epochs * StepsPerEpoch(conf)
    <3>1. Len(p.net) \in 0 .. (Epochs * StepsPerEpoch(conf)) BY <1>2, NetOf
    <3>2. Epochs * StepsPerEpoch(conf) \in Nat BY <1>1, Constants, EpochSteps
    <3> QED BY <3>1, <3>2
  <2>6. r # 0 => p.pc \notin {"stats", "scan", "arm", "val", "gen"} BY <2>1 DEF Sound
  <2> QED BY <2>2, <2>3, <2>4, <2>5, <2>6
<1>3. DOMAIN rank = Ranks(conf) BY <1>1
<1>4. /\ job \in {"off", "up", "finished"}
      /\ statsFile.state \in {"none", "torn", "whole"}
      /\ cache \in 1 .. (MaxExports + 1) /\ sidecar \in Sidecars
      /\ launches \in 0 .. MaxLaunches /\ faults \in 0 .. MaxFaults
  BY DEF IInv, Types
<1> QED BY <1>1, <1>2, <1>3, <1>4 DEF TypeOK

-----------------------------------------------------------------------------
(* Places in the permutation of an epoch.                                  *)

(* A block of whole groups ends within what is divided into them.          *)
LEMMA Within ==
  ASSUME NEW a \in Nat \ {0}, NEW n \in Nat, NEW q \in 0 .. ((n \div a) - 1),
         NEW r \in 0 .. (a - 1)
  PROVE  q * a + r \in 0 .. (n - 1)
<1> DEFINE h == n \div a
<1>1. h \in Nat /\ n % a \in 0 .. (a - 1) /\ n = a * h + (n % a) BY Divided
<1> HIDE DEF h
<1>2. q \in Nat /\ h - 1 - q \in Nat BY <1>1 DEF h
<1>3. a * (h - 1 - q) \in Nat /\ a * (h - 1 - q) = a * h - a - q * a /\ q * a \in Nat
  BY <1>1, <1>2, SMTT(20)
<1>4. a * h \in Nat BY <1>1, SMTT(20)
<1> DEFINE x == q * a
           y == a * h
<1>5. x \in Nat /\ y \in Nat /\ y - a - x \in Nat /\ n >= y BY <1>1, <1>3, <1>4
<1> HIDE DEF x, y
<1>6. x + r \in 0 .. (n - 1) BY <1>5
<1> QED BY <1>6 DEF x

(* Where clip i of micro-batch m of cycle k of rank r is found.            *)
Place(c, k, r, m, i) == ((k * c.accum + (m - 1)) * BatchSize + (i - 1)) * c.world + r

LEMMA Places ==
  ASSUME NEW c \in Configs, NEW k \in 0 .. (StepsPerEpoch(c) - 1), NEW r \in Ranks(c),
         NEW m \in 1 .. c.accum, NEW i \in 1 .. BatchSize
  PROVE  /\ k * c.accum + (m - 1) \in 0 .. (Batches(c, 0) - 1)
         /\ (k * c.accum + (m - 1)) * BatchSize + (i - 1) \in 0 .. (NumSamples(c) - 1)
         /\ Place(c, k, r, m, i) \in 0 .. (Clips - 1)
<1>1. /\ c.world \in Nat \ {0} /\ c.accum \in Nat \ {0} /\ BatchSize \in Nat \ {0}
      /\ Clips \in Nat /\ NumSamples(c) \in Nat /\ Batches(c, 0) \in Nat
  BY ConfigFields, Constants, Sizes
<1>2. m - 1 \in 0 .. (c.accum - 1) /\ i - 1 \in 0 .. (BatchSize - 1) /\ r \in 0 .. (c.world - 1)
  BY <1>1 DEF Ranks
<1> DEFINE x == k * c.accum + (m - 1)
           y == x * BatchSize + (i - 1)
           z == y * c.world + r
<1>3. x \in 0 .. (Batches(c, 0) - 1)
  <2>1. k \in 0 .. ((Batches(c, 0) \div c.accum) - 1) BY DEF StepsPerEpoch
  <2> QED BY <2>1, <1>1, <1>2, Within
<1> HIDE DEF x
<1>4. y \in 0 .. (NumSamples(c) - 1)
  <2>1. x \in 0 .. ((NumSamples(c) \div BatchSize) - 1) BY <1>3 DEF Batches
  <2> QED BY <2>1, <1>1, <1>2, Within
<1> HIDE DEF y
<1>5. z \in 0 .. (Clips - 1)
  <2>1. y \in 0 .. ((Clips \div c.world) - 1) BY <1>4 DEF NumSamples
  <2> QED BY <2>1, <1>1, <1>2, Within
<1> QED BY <1>3, <1>4, <1>5 DEF Place, z, y, x

(* No two have the same place.                                             *)
LEMMA OnePlace ==
  ASSUME NEW c \in Configs,
         NEW k \in 0 .. (StepsPerEpoch(c) - 1), NEW h \in 0 .. (StepsPerEpoch(c) - 1),
         NEW r \in Ranks(c), NEW s \in Ranks(c),
         NEW m \in 1 .. c.accum, NEW n \in 1 .. c.accum,
         NEW i \in 1 .. BatchSize, NEW j \in 1 .. BatchSize,
         Place(c, k, r, m, i) = Place(c, h, s, n, j)
  PROVE  k = h /\ r = s /\ m = n /\ i = j
<1>1. /\ c.world \in Nat \ {0} /\ c.accum \in Nat \ {0} /\ BatchSize \in Nat \ {0}
      /\ Clips \in Nat /\ NumSamples(c) \in Nat /\ Batches(c, 0) \in Nat
      /\ StepsPerEpoch(c) \in Nat
  BY ConfigFields, Constants, Sizes
<1>2. /\ m - 1 \in 0 .. (c.accum - 1) /\ n - 1 \in 0 .. (c.accum - 1)
      /\ i - 1 \in 0 .. (BatchSize - 1) /\ j - 1 \in 0 .. (BatchSize - 1)
      /\ r \in 0 .. (c.world - 1) /\ s \in 0 .. (c.world - 1)
      /\ k \in Nat /\ h \in Nat
  BY <1>1 DEF Ranks
<1> DEFINE x == k * c.accum + (m - 1)
           y == x * BatchSize + (i - 1)
           v == h * c.accum + (n - 1)
           w == v * BatchSize + (j - 1)
<1>3. x \in 0 .. (Batches(c, 0) - 1) /\ y \in 0 .. (NumSamples(c) - 1) BY Places
<1>4. v \in 0 .. (Batches(c, 0) - 1) /\ w \in 0 .. (NumSamples(c) - 1) BY Places
<1>5. x \in Nat /\ y \in Nat /\ v \in Nat /\ w \in Nat BY <1>1, <1>3, <1>4
<1>6. y * c.world + r = w * c.world + s BY DEF Place
<1> HIDE DEF y, w
<1>7. y = w /\ r = s
  <2>1. c.world * y + r = c.world * w + s BY <1>1, <1>2, <1>5, <1>6, SMTT(20)
  <2> QED BY <2>1, <1>1, <1>2, <1>5, SameQuotient
<1>8. x * BatchSize + (i - 1) = v * BatchSize + (j - 1) BY <1>7 DEF y, w
<1> HIDE DEF x, v
<1>9. x = v /\ i - 1 = j - 1
  <2>1. BatchSize * x + (i - 1) = BatchSize * v + (j - 1) BY <1>1, <1>2, <1>5, <1>8, SMTT(20)
  <2> QED BY <2>1, <1>1, <1>2, <1>5, SameQuotient
<1>10. k * c.accum + (m - 1) = h * c.accum + (n - 1) BY <1>9 DEF x, v
<1>11. k = h /\ m - 1 = n - 1
  <2>1. c.accum * k + (m - 1) = c.accum * h + (n - 1) BY <1>1, <1>2, <1>10, SMTT(20)
  <2> QED BY <2>1, <1>1, <1>2, SameQuotient
<1> QED BY <1>2, <1>7, <1>9, <1>11

LEMMA BatchClip ==
  ASSUME NEW d, NEW n, NEW z, NEW i \in 1 .. BatchSize
  PROVE  Batch(d, n, z).clips[i] = d[(n - 1) * BatchSize + i]
BY DEF Batch

LEMMA UninterruptedAt ==
  ASSUME NEW c, NEW n, NEW r \in Ranks(c), NEW m \in 1 .. c.accum
  PROVE  LET e == n \div StepsPerEpoch(c) + 1
             k == n % StepsPerEpoch(c)
         IN  /\ DOMAIN Uninterrupted(c, n).grads = Ranks(c)
             /\ Uninterrupted(c, n).grads[r][m] =
                  Batch(Draws(c, e, r), k * c.accum + m, IF c.random THEN e ELSE Baked)
<1> DEFINE e == n \div StepsPerEpoch(c) + 1
           k == n % StepsPerEpoch(c)
           b(s, j) == Batch(Draws(c, e, s), k * c.accum + j, IF c.random THEN e ELSE Baked)
<1>1. Uninterrupted(c, n).grads = [s \in Ranks(c) |-> [j \in 1 .. c.accum |-> b(s, j)]]
  BY DEF Uninterrupted
<1> HIDE DEF b
<1>2. Uninterrupted(c, n).grads[r][m] = b(r, m) BY <1>1
<1> QED BY <1>1, <1>2 DEF b

(* Without the curriculum a rank reads the permutation at its places.      *)
LEMMA ClipAt ==
  ASSUME NEW c \in Configs, NEW e \in 1 .. Epochs, Factor(c, e) = 1, NEW z \in 0 .. Epochs,
         NEW k \in 0 .. (StepsPerEpoch(c) - 1), NEW r \in Ranks(c),
         NEW m \in 1 .. c.accum, NEW i \in 1 .. BatchSize
  PROVE  Batch(Draws(c, e, r), k * c.accum + m, z).clips[i] = Shuffle(e)[Place(c, k, r, m, i) + 1]
<1> DEFINE t == ((k * c.accum + m) - 1) * BatchSize + i
           x == k * c.accum + (m - 1)
           y == x * BatchSize + (i - 1)
<1>1. /\ c.world \in Nat \ {0} /\ c.accum \in Nat \ {0} /\ BatchSize \in Nat \ {0}
      /\ Clips \in Nat /\ NumSamples(c) \in Nat /\ Batches(c, 0) \in Nat /\ r \in Nat
      /\ StepsPerEpoch(c) \in Nat
  BY ConfigFields, Constants, Sizes
<1>2. x \in 0 .. (Batches(c, 0) - 1) /\ y \in 0 .. (NumSamples(c) - 1) BY Places
<1>3. (k * c.accum + m) - 1 = x
  <2>1. k \in Nat /\ m \in Nat BY <1>1
  <2>2. k * c.accum \in Nat BY <2>1, <1>1, SMTT(20)
  <2> QED BY <2>1, <2>2
<1>4. t = y + 1 /\ t \in 1 .. NumSamples(c) /\ t - 1 = y
  <2> DEFINE u == x * BatchSize
  <2>1. t = u + i /\ y = u + (i - 1) BY <1>3
  <2>2. x \in Nat /\ i \in Nat BY <1>1, <1>2
  <2>3. u \in Nat BY <2>2, <1>1, SMTT(20)
  <2> HIDE DEF u, t, y, x
  <2> QED BY <2>1, <2>2, <2>3, <1>1, <1>2
<1>5. Batch(Draws(c, e, r), k * c.accum + m, z).clips[i] = Draws(c, e, r)[t]
  <2> DEFINE d == Draws(c, e, r)
             n == k * c.accum + m
  <2>1. t = (n - 1) * BatchSize + i OBVIOUS
  <2> HIDE DEF d, n, t
  <2>2. Batch(d, n, z).clips[i] = d[(n - 1) * BatchSize + i] BY BatchClip
  <2> QED BY <2>1, <2>2 DEF d, n
<1> HIDE DEF t
<1>6. Draws(c, e, r)[t] = Shuffle(e)[r + (t - 1) * c.world + 1]
  BY <1>4 DEF Draws
<1>7. r + y * c.world + 1 = Place(c, k, r, m, i) + 1
  <2>1. Place(c, k, r, m, i) = y * c.world + r BY DEF Place
  <2> DEFINE v == y * c.world
  <2>2. y \in Nat BY <1>1, <1>2
  <2>3. v \in Nat BY <2>2, <1>1, SMTT(20)
  <2> HIDE DEF v, y
  <2>4. r + v + 1 = v + r + 1 BY <2>3, <1>1
  <2> QED BY <2>1, <2>4 DEF v
<1> QED BY <1>4, <1>5, <1>6, <1>7

(* The epoch and the cycle of an update.                                   *)
LEMMA EpochOf ==
  ASSUME NEW c \in Configs, NEW l \in 0 .. (Epochs * StepsPerEpoch(c)), NEW n \in 1 .. l
  PROVE  /\ StepsPerEpoch(c) \in Nat \ {0} /\ n - 1 \in Nat
         /\ (n - 1) \div StepsPerEpoch(c) + 1 \in 1 .. Epochs
         /\ (n - 1) % StepsPerEpoch(c) \in 0 .. (StepsPerEpoch(c) - 1)
         /\ n - 1 = StepsPerEpoch(c) * ((n - 1) \div StepsPerEpoch(c))
                       + ((n - 1) % StepsPerEpoch(c))
<1> DEFINE s == StepsPerEpoch(c)
           m == Epochs * s
<1>1. s \in Nat /\ Epochs \in Nat /\ m \in Nat
  BY Constants, Sizes, EpochSteps
<1>2. l \in 0 .. m OBVIOUS
<1>3. s # 0
  <2> SUFFICES ASSUME s = 0 PROVE FALSE OBVIOUS
  <2>1. m = 0 BY <1>1, SMTT(20)
  <2> HIDE DEF m
  <2> QED BY <2>1, <1>2
<1> HIDE DEF s, m
<1>4. n - 1 \in Nat /\ n - 1 < m /\ n \in Nat BY <1>1, <1>2
<1> DEFINE q == (n - 1) \div s
           r == (n - 1) % s
<1>5. q \in Nat /\ r \in 0 .. (s - 1) /\ n - 1 = s * q + r BY <1>1, <1>3, <1>4, Divided
<1> HIDE DEF q, r
<1>6. q < Epochs
  <2> SUFFICES ASSUME Epochs <= q PROVE FALSE BY <1>1, <1>5
  <2>1. q - Epochs \in Nat BY <1>1, <1>5
  <2>2. s * (q - Epochs) \in Nat /\ s * (q - Epochs) = s * q - Epochs * s
    BY <2>1, <1>1, <1>5, SMTT(20)
  <2> DEFINE x == s * q
  <2>3. x \in Nat /\ x - m \in Nat /\ n - 1 = x + r
    <3>1. x \in Nat BY <1>1, <1>5, SMTT(20)
    <3> QED BY <3>1, <2>2, <1>5 DEF m
  <2> HIDE DEF x
  <2> QED BY <2>3, <1>1, <1>4, <1>5
<1>7. q + 1 \in 1 .. Epochs BY <1>1, <1>5, <1>6
<1> QED BY <1>1, <1>3, <1>4, <1>5, <1>7 DEF q, r, s

LEMMA InvOncePerEpoch == ASSUME IInv PROVE OncePerEpoch
<1> DEFINE S == StepsPerEpoch(conf)
           net == rank[0].net
           e(k) == (k - 1) \div S + 1
           q(k) == (k - 1) % S
           clip(k, t) == net[k].grads[t[1]][t[2]].clips[t[3]]
<1>1. conf \in Configs /\ 0 \in Ranks(conf) BY SMTT(30), ConfigFields DEF IInv, Types
<1>2. SUFFICES ASSUME NEW n \in 1 .. Len(net), NEW p \in 1 .. n,
                      e(n) = e(p), Factor(conf, e(n)) = 1,
                      NEW s \in ClipsOf(net[n]), NEW t \in ClipsOf(net[p]),
                      clip(n, s) = clip(p, t)
               PROVE  n = p /\ s = t
  BY DEF OncePerEpoch
<1>3. /\ Len(net) \in 0 .. (Epochs * S)
      /\ \A i \in 1 .. Len(net) : net[i] =
           [lr |-> i - 1, stats |-> rank[0].stats, grads |-> Uninterrupted(conf, i - 1).grads]
  BY <1>1, NetOf
<1>4. p \in 1 .. Len(net)
  <2> DEFINE l == Len(net)
  <2>1. l \in Int /\ n \in 1 .. l BY <1>3
  <2> HIDE DEF l
  <2>2. p \in 1 .. l BY <2>1
  <2> QED BY <2>2 DEF l
<1>5. ASSUME NEW k \in 1 .. Len(net)
      PROVE  /\ S \in Nat \ {0} /\ k - 1 \in Nat /\ e(k) \in 1 .. Epochs /\ q(k) \in 0 .. (S - 1)
             /\ (k - 1) \div S \in Nat
             /\ k - 1 = S * ((k - 1) \div S) + q(k)
  <2>1. /\ S \in Nat \ {0} /\ k - 1 \in Nat /\ e(k) \in 1 .. Epochs /\ q(k) \in 0 .. (S - 1)
        /\ k - 1 = S * ((k - 1) \div S) + q(k)
    BY <1>1, <1>3, EpochOf
  <2>2. (k - 1) \div S \in Nat BY <2>1, Divided
  <2> QED BY <2>1, <2>2
<1>6. ASSUME NEW k \in 1 .. Len(net), Factor(conf, e(k)) = 1, NEW u \in ClipsOf(net[k])
      PROVE  \E r \in Ranks(conf), m \in 1 .. conf.accum, i \in 1 .. BatchSize :
               /\ u = <<r, m, i>>
               /\ clip(k, u) = Shuffle(e(k))[Place(conf, q(k), r, m, i) + 1]
  <2>1. net[k].grads = Uninterrupted(conf, k - 1).grads
    <3>1. net[k] = [lr |-> k - 1, stats |-> rank[0].stats,
                    grads |-> Uninterrupted(conf, k - 1).grads]
      BY <1>3, <1>6
    <3> HIDE DEF net
    <3> QED BY <3>1
  <2> DEFINE z == IF conf.random THEN e(k) ELSE Baked
  <2>2. \A r \in Ranks(conf), m \in 1 .. conf.accum :
          /\ DOMAIN Uninterrupted(conf, k - 1).grads = Ranks(conf)
          /\ Uninterrupted(conf, k - 1).grads[r][m] =
               Batch(Draws(conf, e(k), r), q(k) * conf.accum + m, z)
    BY UninterruptedAt
  <2>9. z \in 0 .. Epochs
    <3>1. e(k) \in 1 .. Epochs BY <1>5, <1>6
    <3> HIDE DEF e
    <3> QED BY <3>1, Constants DEF Baked
  <2>10. \E m \in 1 .. conf.accum : TRUE BY <1>1, ConfigFields
  <2> HIDE DEF z
  <2>3. DOMAIN net[k].grads = Ranks(conf) BY <1>1, <2>1, <2>2, <2>10
  <2>4. PICK r \in Ranks(conf), m \in 1 .. conf.accum, i \in 1 .. BatchSize : u = <<r, m, i>>
    BY <1>6, <2>3 DEF ClipsOf
  <2>5. u[1] = r /\ u[2] = m /\ u[3] = i BY <2>4
  <2>6. net[k].grads[r][m] = Batch(Draws(conf, e(k), r), q(k) * conf.accum + m, z)
    BY <2>1, <2>2
  <2>7. q(k) \in 0 .. (StepsPerEpoch(conf) - 1) BY <1>5, <1>6
  <2>8. Batch(Draws(conf, e(k), r), q(k) * conf.accum + m, z).clips[i]
          = Shuffle(e(k))[Place(conf, q(k), r, m, i) + 1]
    <3> DEFINE f == e(k)
               h == q(k)
    <3>1. f \in 1 .. Epochs /\ Factor(conf, f) = 1 /\ h \in 0 .. (StepsPerEpoch(conf) - 1)
      BY <1>5, <1>6, <2>7
    <3> HIDE DEF f, h
    <3>2. Batch(Draws(conf, f, r), h * conf.accum + m, z).clips[i]
            = Shuffle(f)[Place(conf, h, r, m, i) + 1]
      BY SMTT(30), <3>1, <2>9, <1>1, ClipAt
    <3> QED BY <3>2 DEF f, h
  <2> QED BY <2>4, <2>5, <2>6, <2>8
<1>7. PICK a \in Ranks(conf), b \in 1 .. conf.accum, c \in 1 .. BatchSize :
        /\ s = <<a, b, c>>
        /\ clip(n, s) = Shuffle(e(n))[Place(conf, q(n), a, b, c) + 1]
  BY ZenonT(40), <1>2, <1>6
<1>8. PICK f \in Ranks(conf), g \in 1 .. conf.accum, h \in 1 .. BatchSize :
        /\ t = <<f, g, h>>
        /\ clip(p, t) = Shuffle(e(p))[Place(conf, q(p), f, g, h) + 1]
  BY <1>2, <1>4, <1>6
<1>9. q(n) \in 0 .. (S - 1) /\ q(p) \in 0 .. (S - 1) /\ e(n) \in 1 .. Epochs BY <1>4, <1>5
<1>10. Place(conf, q(n), a, b, c) \in 0 .. (Clips - 1)
       /\ Place(conf, q(p), f, g, h) \in 0 .. (Clips - 1)
  BY <1>1, <1>9, Places
<1> DEFINE x == Place(conf, q(n), a, b, c)
           y == Place(conf, q(p), f, g, h)
           w == e(n)
<1>11. w \in 1 .. Epochs /\ Shuffle(w)[x + 1] = Shuffle(w)[y + 1] BY <1>2, <1>7, <1>8, <1>9
<1>12. x = y
  <2>1. x \in 0 .. (Clips - 1) /\ y \in 0 .. (Clips - 1) BY <1>10
  <2> HIDE DEF x, y, w
  <2>2. x + 1 \in 1 .. Clips /\ y + 1 \in 1 .. Clips BY <2>1, Constants
  <2>3. x + 1 = y + 1 BY <2>2, <1>11, BackboneAssumption
  <2> QED BY SMTT(30), <2>1, <2>3, Constants
<1>13. q(n) = q(p) /\ a = f /\ b = g /\ c = h BY <1>1, <1>9, <1>12, OnePlace
<1>14. n = p
  <2>1. (n - 1) \div S = (p - 1) \div S
    <3> DEFINE i == (n - 1) \div S
               j == (p - 1) \div S
    <3>1. i \in Nat /\ j \in Nat /\ i + 1 = j + 1 BY <1>2, <1>4, <1>5
    <3> HIDE DEF i, j
    <3>2. i = j BY <3>1
    <3> QED BY <3>2 DEF i, j
  <2>2. n - 1 = p - 1 BY <2>1, <1>4, <1>5, <1>13
  <2>3. n - 1 \in Nat /\ p - 1 \in Nat /\ n \in Int /\ p \in Int BY <1>4, <1>5
  <2> QED BY <2>2, <2>3
<1> QED BY <1>7, <1>8, <1>13, <1>14

-----------------------------------------------------------------------------
LEMMA InvStatsFit == ASSUME IInv PROVE StatsFit
BY DEF IInv, StatsInv, StatsFit

LEMMA InvVerifiedOnly == ASSUME IInv PROVE VerifiedOnly
BY DEF IInv, VerifiedInv, VerifiedOnly

(* The updates of a run share one normalisation, on all ranks and over all *)
(* relaunches; rank 0's statistics are those of the export they are filed  *)
(* under; no update is made with captions that were not verified; and no   *)
(* clip is drawn twice in an epoch before the curriculum, by any two       *)
(* micro-batches of any two ranks, whatever their number and the sizes of  *)
(* the data set, of a batch and of a cycle.                                *)
THEOREM UpdatesSoundCorrect == Spec => []UpdatesSound
<1>1. IInv => UpdatesSound
  BY InvTypeOK, InvOneNormalisation, InvStatsFit, InvVerifiedOnly, InvOncePerEpoch
     DEF UpdatesSound
<1> QED BY <1>1, Inductive, PTL
=============================================================================
