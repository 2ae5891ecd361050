---------------------------- MODULE RankStartup ----------------------------
(***************************************************************************)
(* How the ranks of a trainer start: the guard of the output directory,    *)
(* the first line of train.log, the checks of the data, the DDP wrap.      *)
(*   vae        refuses a directory that holds anything;                   *)
(*   tokenizer, flow   the same, unless --resume names a checkpoint in it; *)
(*   denoiser   as vae, but all ranks pass the guard before rank 0 opens   *)
(*              its log.                                                   *)
(* Each rank looks for itself, and rank 0 writes into the same directory.  *)
(***************************************************************************)
EXTENDS Integers, FiniteSets

CONSTANTS
  World,       \* ranks
  Trainers,    \* among the four above
  Problems,    \* what may be wrong with the data or the configuration
  MaxLaunches, \* bound: launches
  MaxKills     \* bound: launches stopped from outside

VARIABLES
  trainer,
  problem,    \* set of what is wrong; empty: nothing
  overwrite,  \* --overwrite
  resume,     \* where the checkpoint of --resume is: "none", "inside", "outside"
  log, ckpt,  \* writers of train.log and of the checkpoints in --out: 0 is another run
  pc,         \* where each rank is
  found,      \* the directory was empty when the launch began
  launch, kills

startup == <<pc, found, launch, kills, overwrite, resume>>
vars == <<trainer, problem, log, ckpt, startup>>

Ranks == 0 .. World - 1
Points == {"guard", "barrier", "log", "check", "wrap", "train", "refused", "failed", "killed"}
Over(r) == pc[r] \in {"refused", "failed", "killed"}

NonEmpty == log # {} \/ ckpt # {}
InPlace == resume = "inside" /\ trainer \in {"tokenizer", "flow"}

\* Mutant: any resume skips the guard.
Any_Admits == NonEmpty => (overwrite \/ resume # "none")

(* The tokenizer and the backbone skip the guard for their own directory.  *)
Admits == NonEmpty => (overwrite \/ InPlace)

(* Only the denoiser lets all ranks look before one of them writes.        *)
Guarded == trainer = "denoiser"

Guard(r) ==
  /\ pc[r] = "guard"
  /\ pc' = [pc EXCEPT ![r] = IF ~Admits THEN "refused" ELSE IF Guarded THEN "barrier" ELSE "log"]
  /\ UNCHANGED <<trainer, problem, log, ckpt, found, launch, kills, overwrite, resume>>

(* dist.barrier(): the ranks leave together.                               *)
Barrier ==
  /\ \A r \in Ranks : pc[r] = "barrier"
  /\ pc' = [r \in Ranks |-> "log"]
  /\ UNCHANGED <<trainer, problem, log, ckpt, found, launch, kills, overwrite, resume>>

(* The first line of the log; the denoiser opens its log anew.             *)
FirstLine(r) ==
  /\ pc[r] = "log"
  /\ log' = IF r # 0 THEN log ELSE {launch} \cup (IF Guarded THEN {} ELSE log)
  /\ pc' = [pc EXCEPT ![r] = "check"]
  /\ UNCHANGED <<trainer, problem, ckpt, found, launch, kills, overwrite, resume>>

(* Which problems a trainer looks for before it trains.                    *)
Caught ==
  {p \in problem :
     \/ p \in {"fewer clips than a batch", "no weights"}
     \/ p = "no validation" /\ trainer # "flow"
     \/ p \in {"clip longer than the window", "no caption"} /\ trainer = "denoiser"}

(* Data sets, frozen networks, contracts and weights, on every rank.       *)
Check(r) ==
  /\ pc[r] = "check"
  /\ pc' = [pc EXCEPT ![r] = IF Caught = {} THEN "wrap" ELSE "failed"]
  /\ UNCHANGED <<trainer, problem, log, ckpt, found, launch, kills, overwrite, resume>>

(* DDP broadcasts the weights of rank 0: all ranks have to be there.       *)
Wrap ==
  /\ \A r \in Ranks : pc[r] = "wrap"
  /\ pc' = [r \in Ranks |-> "train"]
  /\ UNCHANGED <<trainer, problem, log, ckpt, found, launch, kills, overwrite, resume>>

(* torchrun stops the ranks of a launch of which one has ended in error.   *)
Agent ==
  /\ \E r \in Ranks : Over(r)
  /\ \E r \in Ranks : ~Over(r)
  /\ pc' = [r \in Ranks |-> IF Over(r) THEN pc[r] ELSE "killed"]
  /\ UNCHANGED <<trainer, problem, log, ckpt, found, launch, kills, overwrite, resume>>

(* Rank 0 saves over what is there.                                        *)
Save ==
  /\ pc[0] = "train"
  /\ launch \notin ckpt
  /\ ckpt' = {launch}
  /\ UNCHANGED <<trainer, problem, log, startup>>

(* The allocation ends.                                                    *)
Kill ==
  /\ kills < MaxKills
  /\ \E r \in Ranks : ~Over(r)
  /\ kills' = kills + 1
  /\ pc' = [r \in Ranks |-> IF Over(r) THEN pc[r] ELSE "killed"]
  /\ UNCHANGED <<trainer, problem, log, ckpt, found, launch, overwrite, resume>>

Flags == {[o |-> o, r |-> r] : o \in BOOLEAN, r \in {"none", "outside", "inside"}}

(* The operator launches again; a checkpoint inside has to be one of this  *)
(* run's, and the directory is then this run's own.                        *)
Relaunch ==
  /\ launch < MaxLaunches
  /\ \A r \in Ranks : Over(r)
  /\ \E f \in Flags :
       /\ f.r = "inside" => ckpt # {} /\ 0 \notin ckpt
       /\ overwrite' = f.o /\ resume' = f.r
  /\ launch' = launch + 1
  /\ found' = ~NonEmpty
  /\ pc' = [r \in Ranks |-> "guard"]
  /\ UNCHANGED <<trainer, problem, log, ckpt, kills>>

Init ==
  /\ trainer \in Trainers
  /\ problem \in {{}} \cup {{p} : p \in Problems}
  /\ \E f \in Flags : f.r # "inside" /\ overwrite = f.o /\ resume = f.r
  /\ log \in {{}, {0}} /\ ckpt \in {{}, {0}}
  /\ pc = [r \in Ranks |-> "guard"]
  /\ found = ~NonEmpty
  /\ launch = 1 /\ kills = 0

(* What the processes and torchrun do by themselves.                       *)
Work ==
  \/ \E r \in Ranks : Guard(r) \/ FirstLine(r) \/ Check(r)
  \/ Barrier
  \/ Wrap
  \/ Agent

Next == Work \/ Save \/ Kill \/ Relaunch

(* torchrun runs every rank, and ends a launch of which one has failed.    *)
Spec == Init /\ [][Next]_vars /\ WF_vars(Work)

-----------------------------------------------------------------------------
TypeOK ==
  /\ trainer \in Trainers /\ problem \subseteq Problems
  /\ overwrite \in BOOLEAN /\ resume \in {"none", "inside", "outside"}
  /\ log \subseteq 0 .. MaxLaunches /\ ckpt \subseteq 0 .. MaxLaunches
  /\ pc \in [Ranks -> Points]
  /\ found \in BOOLEAN /\ launch \in 1 .. MaxLaunches /\ kills \in 0 .. MaxKills

(* A launch into an empty directory refuses it only because of its own     *)
(* log, written by a faster rank; where the ranks meet before the log,     *)
(* they never do.                                                          *)
RefusesOwnLog ==
  found /\ (\E r \in Ranks : pc[r] = "refused") => log = {launch} /\ trainer # "denoiser"

(* Ranks that meet in a barrier judge the directory alike: none refuses    *)
(* what another has entered.                                               *)
OneVerdict ==
  trainer = "denoiser" =>
    ~\E r, s \in Ranks : pc[r] = "refused" /\ pc[s] \in {"barrier", "log", "check", "wrap", "train"}

(* Files of another run are not touched by a launch that was not told to   *)
(* overwrite and does not continue what a launch before it has made of the *)
(* directory.                                                              *)
StrangersStep ==
  ~overwrite /\ resume # "inside" =>
    (0 \in log => log' = log) /\ (0 \in ckpt => ckpt' = ckpt)
StrangersKept == [][StrangersStep]_vars

(* Every launch comes to an end of its start: all ranks train, or all are  *)
(* over.                                                                   *)
Resolved == (\A r \in Ranks : pc[r] = "train") \/ (\A r \in Ranks : Over(r))

(* The denoiser, with nothing wrong, trains in an empty directory.         *)
CleanStart == trainer = "denoiser" /\ found /\ Caught = {} /\ kills = 0 /\ launch = 1
CleanEnd == (\A r \in Ranks : pc[r] = "train") \/ kills > 0
=============================================================================
