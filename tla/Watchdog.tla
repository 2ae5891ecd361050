------------------------------ MODULE Watchdog ------------------------------
(***************************************************************************)
(* The auto-resume watchdog of the two-node tokenizer run                  *)
(* (scripts/_watchdog_h200_vqvae.sh) with the launcher it starts           *)
(* (scripts/_launch_graph_vqvae_2node_h200.sh) and the run it watches.     *)
(*                                                                         *)
(* The watchdog sees the cluster only through ssh, one command at a time,  *)
(* and the cluster changes between two commands.  Any command may fail     *)
(* ("flake"); what the script makes of a failed command differs from one   *)
(* command to the next, and is modelled one by one.                        *)
(*                                                                         *)
(* Assumed of the environment, as the script asks (lines 14 and 96-102):   *)
(* nobody starts a CodeFlow backbone on the two nodes while this watchdog  *)
(* runs; one that was started before may be on any of them.                *)
(***************************************************************************)
EXTENDS Naturals

CONSTANTS
  MaxFlakes,   \* bound: ssh commands that fail
  MaxDeaths    \* bound: deaths of a node's processes or of the allocations

ASSUME WatchdogAssumption ==
  MaxFlakes \in Nat /\ MaxDeaths \in Nat

Nodes == {"m", "w"}     \* master (dual_h200) and worker (quad_h200)

Commands == {"sleep", "aliveM", "aliveW", "discover", "backboneM", "backboneW", "ib",
             "recheckM", "recheckW", "cleanM", "cleanW", "gpuM", "gpuW", "launch"}

VARIABLES
  wd,        \* the command the watchdog is about to run
  streak,    \* down_streak, counted up to 2
  seen,      \* a backbone process was counted on the master
  alloc,     \* exactly one allocation of each kind is there
  orchs,     \* live launchers
  pending,   \* nodes whose training processes are still to start
  proc,      \* nodes with training processes of this run
  backbone,  \* nodes with CodeFlow backbone processes
  saved,     \* last_model.pt exists
  flakes,    \* ssh failures so far
  deaths,    \* deaths so far
  late,      \* history: a launch was not over before the next check
  victims    \* history: what a cleanup hit

cluster == <<alloc, orchs, pending, proc, backbone, saved, deaths>>
vars == <<wd, streak, seen, cluster, flakes, late, victims>>

Healthy == proc = Nodes
Busy(n) == n \in proc \/ n \in backbone

Init ==
  /\ wd = "sleep"
  /\ streak = 0
  /\ seen = FALSE
  /\ alloc = TRUE
  /\ orchs = 1
  /\ pending = {}
  /\ proc = Nodes
  /\ backbone \in SUBSET Nodes
  /\ saved \in BOOLEAN
  /\ flakes = 0
  /\ deaths = 0
  /\ late = FALSE
  /\ victims = {}

-----------------------------------------------------------------------------
(* The watchdog.                                                           *)

(* An ssh command that answers, or one that fails.                         *)
Ssh(ok) ==
  /\ ok \/ flakes < MaxFlakes
  /\ flakes' = IF ok THEN flakes ELSE flakes + 1

Goto(next) ==
  /\ wd' = next
  /\ UNCHANGED <<streak, seen, cluster, victims>>

\* Mutant: a single failed check is enough.
Hasty_Down ==
  /\ streak' = 2
  /\ wd' = "discover"
  /\ UNCHANGED <<seen, cluster, victims>>

(* Two checks in a row must find the run down.                             *)
Down ==
  /\ streak' = IF streak < 2 THEN streak + 1 ELSE 2
  /\ wd' = IF streak' = 2 THEN "discover" ELSE "sleep"
  /\ UNCHANGED <<seen, cluster, victims>>

(* The run counts as up, or was relaunched: start counting again.          *)
Up ==
  /\ streak' = 0
  /\ wd' = "sleep"
  /\ UNCHANGED <<seen, cluster, victims>>

(* Give up for this cycle; the streak stays.                               *)
Retry == Goto("sleep")

(* alive(): discover the nodes, then count processes, master first.  An    *)
(* unreachable node counts 0.                                              *)
AliveDiscover ==
  /\ wd = "sleep"
  /\ late' = (late \/ pending # {})
  /\ \E ok \in BOOLEAN :
       Ssh(ok) /\ IF ok /\ alloc THEN Goto("aliveM") ELSE Down

AliveMaster ==
  /\ wd = "aliveM"
  /\ \E ok \in BOOLEAN :
       Ssh(ok) /\ IF ok /\ "m" \in proc THEN Goto("aliveW") ELSE Down

AliveWorker ==
  /\ wd = "aliveW"
  /\ \E ok \in BOOLEAN :
       Ssh(ok) /\ IF ok /\ "w" \in proc THEN Up ELSE Down

(* resume(): discover again, then require a checkpoint.                    *)
Discover ==
  /\ wd = "discover"
  /\ \E ok \in BOOLEAN :
       Ssh(ok) /\ IF ok /\ alloc /\ saved THEN Goto("backboneM") ELSE Retry

\* Mutant: the counts of an earlier cycle are not cleared.
Sticky_BackboneMaster ==
  /\ wd = "backboneM"
  /\ \E ok \in BOOLEAN : Ssh(ok) /\ seen' = (seen \/ (ok /\ "m" \in backbone))
  /\ wd' = "backboneW"
  /\ UNCHANGED <<streak, cluster, victims>>

(* The backbone test: no answer reads as no process.                       *)
BackboneMaster ==
  /\ wd = "backboneM"
  /\ \E ok \in BOOLEAN : Ssh(ok) /\ seen' = (ok /\ "m" \in backbone)
  /\ wd' = "backboneW"
  /\ UNCHANGED <<streak, cluster, victims>>

\* Mutant: only the worker's answer decides.
Worker_BackboneWorker ==
  /\ wd = "backboneW"
  /\ \E ok \in BOOLEAN :
       Ssh(ok) /\ IF ok /\ "w" \in backbone THEN Retry ELSE Goto("ib")

BackboneWorker ==
  /\ wd = "backboneW"
  /\ \E ok \in BOOLEAN :
       Ssh(ok) /\ IF seen \/ (ok /\ "w" \in backbone) THEN Retry ELSE Goto("ib")

(* The fabric must be up on both nodes; an unreachable node is a wait (the *)
(* two queries are one step: nothing they read changes in this model).     *)
IbInfo ==
  /\ wd = "ib"
  /\ \E ok \in BOOLEAN : Ssh(ok) /\ IF ok THEN Goto("recheckM") ELSE Retry

(* The last look before the cleanup, master first.                         *)
RecheckMaster ==
  /\ wd = "recheckM"
  /\ \E ok \in BOOLEAN :
       Ssh(ok) /\ Goto(IF ok /\ "m" \in proc THEN "recheckW" ELSE "cleanM")

RecheckWorker ==
  /\ wd = "recheckW"
  /\ \E ok \in BOOLEAN :
       Ssh(ok) /\ IF ok /\ "w" \in proc THEN Up ELSE Goto("cleanM")

(* What a cleanup command that reaches node n ends: the node's training    *)
(* processes and, on the master, the launcher with everything it had still *)
(* to start (what its srun clients run on the worker ends with             *)
(* PeerTimeout).  Whether a backbone's srun clients are on n is left open. *)
Kill(n) ==
  /\ proc' = proc \ {n}
  /\ backbone' \in {backbone, {}}
  /\ orchs' = IF n = "m" THEN 0 ELSE orchs
  /\ pending' = IF n = "m" THEN {} ELSE pending \ {n}
  /\ victims' = victims
       \cup (IF Healthy THEN {"healthy"} ELSE {})
       \cup (IF n \in backbone THEN {"backbone"} ELSE {})

(* A failed cleanup command is ignored.                                    *)
Cleanup(n, here, next) ==
  /\ wd = here
  /\ wd' = next
  /\ \E ok \in BOOLEAN :
       Ssh(ok) /\ IF ok THEN Kill(n)
                        ELSE UNCHANGED <<proc, backbone, orchs, pending, victims>>
  /\ UNCHANGED <<streak, seen, alloc, saved, deaths>>

CleanMaster == Cleanup("m", "cleanM", "cleanW")
CleanWorker == Cleanup("w", "cleanW", "gpuM")

(* The GPUs must be idle; no answer reads as 9999 MiB in use.              *)
GpuMaster ==
  /\ wd = "gpuM"
  /\ \E ok \in BOOLEAN : Ssh(ok) /\ IF ok /\ ~ Busy("m") THEN Goto("gpuW") ELSE Retry

GpuWorker ==
  /\ wd = "gpuW"
  /\ \E ok \in BOOLEAN : Ssh(ok) /\ IF ok /\ ~ Busy("w") THEN Goto("launch") ELSE Retry

\* Mutant: the launcher does not take its lock.
Unlocked_LockTaken == FALSE

(* A live launcher holds the lock; a second one exits at once.             *)
LockTaken == orchs > 0

(* The probe may fail although the launcher it started lives on.           *)
Launch ==
  /\ wd = "launch"
  /\ \E started \in BOOLEAN, answered \in BOOLEAN :
       /\ answered => started
       /\ started => ~ LockTaken /\ alloc
       /\ IF ~ LockTaken /\ alloc THEN Ssh(answered) ELSE UNCHANGED flakes
       /\ orchs' = IF started THEN orchs + 1 ELSE orchs
       /\ pending' = IF started THEN Nodes ELSE pending
       /\ streak' = IF answered THEN 0 ELSE streak
  /\ wd' = "sleep"
  /\ UNCHANGED <<seen, alloc, proc, backbone, saved, deaths, victims>>

-----------------------------------------------------------------------------
(* The run and the cluster.                                                *)

Unseen == UNCHANGED <<wd, streak, seen, flakes, late, victims>>

ProcStart(n) ==
  /\ n \in pending
  /\ pending' = pending \ {n}
  /\ proc' = proc \cup {n}
  /\ Unseen /\ UNCHANGED <<alloc, orchs, backbone, saved, deaths>>

ProcDie(n) ==
  /\ n \in proc
  /\ deaths < MaxDeaths
  /\ deaths' = deaths + 1
  /\ proc' = proc \ {n}
  /\ Unseen /\ UNCHANGED <<alloc, orchs, pending, backbone, saved>>

(* A node whose peer is gone leaves its collective at the NCCL timeout, or *)
(* with the srun client it ran under.                                      *)
PeerTimeout(n) ==
  /\ n \in proc
  /\ proc \cup pending = {n}
  /\ proc' = {}
  /\ Unseen /\ UNCHANGED <<alloc, orchs, pending, backbone, saved, deaths>>

(* The launcher waits for both nodes' groups and exits.                    *)
LauncherExit ==
  /\ orchs > 0
  /\ proc = {} /\ pending = {}
  /\ orchs' = 0
  /\ Unseen /\ UNCHANGED <<alloc, pending, proc, backbone, saved, deaths>>

(* rank 0 writes last_model.pt for the first time.                         *)
FirstSave ==
  /\ Healthy
  /\ ~ saved
  /\ saved' = TRUE
  /\ Unseen /\ UNCHANGED <<alloc, orchs, pending, proc, backbone, deaths>>

AllocLost ==
  /\ alloc
  /\ deaths < MaxDeaths
  /\ deaths' = deaths + 1
  /\ alloc' = FALSE
  /\ orchs' = 0
  /\ pending' = {}
  /\ proc' = {}
  /\ backbone' = {}
  /\ Unseen /\ UNCHANGED saved

AllocBack ==
  /\ ~ alloc
  /\ alloc' = TRUE
  /\ Unseen /\ UNCHANGED <<orchs, pending, proc, backbone, saved, deaths>>

BackboneEnds ==
  /\ backbone # {}
  /\ backbone' = {}
  /\ Unseen /\ UNCHANGED <<alloc, orchs, pending, proc, saved, deaths>>

-----------------------------------------------------------------------------
WatchdogStep ==
  \/ AliveDiscover
  \/ /\ \/ AliveMaster \/ AliveWorker
        \/ Discover \/ BackboneMaster \/ BackboneWorker \/ IbInfo
        \/ RecheckMaster \/ RecheckWorker
        \/ CleanMaster \/ CleanWorker \/ GpuMaster \/ GpuWorker \/ Launch
     /\ UNCHANGED late

ClusterStep ==
  \/ \E n \in Nodes : ProcStart(n) \/ ProcDie(n) \/ PeerTimeout(n)
  \/ LauncherExit \/ FirstSave \/ AllocLost \/ AllocBack \/ BackboneEnds

Next == WatchdogStep \/ ClusterStep

Spec == Init /\ [][Next]_vars

(* The watchdog keeps polling, a launch goes on and a hung node times out. *)
(* Nothing is assumed of the allocations, the backbone or ssh.             *)
FairSpec ==
  /\ Spec
  /\ WF_vars(WatchdogStep)
  /\ \A n \in Nodes : WF_vars(ProcStart(n)) /\ WF_vars(PeerTimeout(n))
  /\ WF_vars(LauncherExit)

-----------------------------------------------------------------------------
(* Properties.                                                             *)

(* Types of the watchdog's and the cluster's state.                        *)
TypeOK ==
  /\ wd \in Commands
  /\ streak \in 0 .. 2
  /\ late \in BOOLEAN /\ seen \in BOOLEAN /\ alloc \in BOOLEAN /\ saved \in BOOLEAN
  /\ orchs \in Nat
  /\ pending \subseteq Nodes /\ proc \subseteq Nodes /\ backbone \subseteq Nodes
  /\ flakes \in 0 .. MaxFlakes /\ deaths \in 0 .. MaxDeaths
  /\ victims \subseteq {"healthy", "backbone"}

(* Never two launchers, and a node never gets a second group of training   *)
(* processes, even when the cleanup silently failed and the run that was   *)
(* thought dead comes up late.                                             *)
OneLauncher ==
  /\ orchs <= 1
  /\ pending \cap proc = {}
  /\ pending # {} => orchs = 1

(* With fewer than three failed commands a run with processes on both      *)
(* nodes is never killed, where every launch is over before the next       *)
(* check: two checks and the recheck must all misread it.                  *)
HealthyNeverKilled == flakes <= 2 /\ ~ late => "healthy" \notin victims

(* As long as every command was answered, the watchdog did not touch a     *)
(* node that hosts the backbone.                                           *)
BackboneSpared == flakes = 0 => "backbone" \notin victims

(* Once there is a checkpoint, a run that is down comes back on both       *)
(* nodes, unless an allocation is lost first or a launch is late; a        *)
(* backbone on the nodes holds it up only as long as it is there.          *)
Recovery == (saved /\ alloc /\ backbone = {} /\ ~ late) ~> (Healthy \/ ~ alloc \/ late)
=============================================================================
