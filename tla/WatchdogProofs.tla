--------------------------- MODULE WatchdogProofs ---------------------------
(***************************************************************************)
(* What is proved of how runs are started: of the watchdog, for any bounds *)
(* on failures and deaths, and at the end of the ranks of a trainer that   *)
(* look at their directory (RankStartup), for any number of ranks,         *)
(* launches and kills.                                                     *)
(*                                                                         *)
(* OneLauncher needs what the GPU test establishes: a launcher that is     *)
(* gone left nothing on the master, and at the launch nothing on the       *)
(* worker either (LaunchInv).  HealthyNeverKilled counts failed commands:  *)
(* a run that is up, or is coming up, can only be seen down by a failed    *)
(* command, and each stage between the first bad check and the cleanup     *)
(* has used up one more of them (FlakeInv).  BackboneSpared follows the    *)
(* two answers of the backbone test to the cleanup (BackboneInv).          *)
(***************************************************************************)
EXTENDS Watchdog, Integers, FiniteSets, TLAPS

(* Without a launcher nothing is to start and the master is empty; at the  *)
(* launch, so is the worker.                                               *)
LaunchInv ==
  /\ orchs = 0 => pending = {} /\ "m" \notin proc
  /\ wd = "launch" /\ orchs = 0 => proc = {}

IInv == TypeOK /\ OneLauncher /\ LaunchInv

(* The run is up on both nodes or will be.                                 *)
ComingUp == proc \cup pending = Nodes

Deciding == {"discover", "backboneM", "backboneW", "ib", "recheckM", "recheckW"}
Acting   == {"cleanM", "cleanW", "gpuM", "gpuW", "launch"}

(* The commands that only look, and what happens outside the watchdog.     *)
Look ==
  \/ AliveDiscover \/ AliveMaster \/ AliveWorker
  \/ Discover \/ BackboneMaster \/ BackboneWorker \/ IbInfo
  \/ RecheckMaster \/ RecheckWorker \/ GpuMaster \/ GpuWorker

(* What misreading a run that is up has cost so far.                       *)
FlakeInv ==
  /\ pending # {} => wd = "sleep"
  /\ ~ alloc => proc = {} /\ pending = {}
  /\ ComingUp =>
       /\ streak > 0 => flakes >= 1
       /\ wd \in Deciding => flakes >= 2
       /\ wd \in Acting => flakes >= 3

-----------------------------------------------------------------------------
LEMMA StepCases ==
  ASSUME [Next]_vars
  PROVE  Look \/ CleanMaster \/ CleanWorker \/ Launch \/ ClusterStep \/ UNCHANGED vars
BY DEF Next, WatchdogStep, Look

(* A late launch is never forgotten; only the first look of a cycle tells. *)
LEMMA LateStep ==
  ASSUME late \in BOOLEAN, [Next]_vars
  PROVE  /\ late' \in BOOLEAN
         /\ ~ late' => ~ late
         /\ AliveDiscover /\ ~ late' => pending = {}
<1>1. CASE AliveDiscover BY <1>1 DEF AliveDiscover
<1>2. CASE UNCHANGED late
  BY <1>2 DEF AliveDiscover
<1>3. CASE WatchdogStep BY <1>1, <1>2, <1>3 DEF WatchdogStep
<1>4. CASE ClusterStep
  <2>1. Unseen BY <1>4 DEF ClusterStep, ProcStart, ProcDie, PeerTimeout, LauncherExit,
                       FirstSave, AllocLost, AllocBack, BackboneEnds
  <2> QED BY <1>2, <2>1 DEF Unseen
<1> QED BY <1>2, <1>3, <1>4 DEF Next, vars

(* A command that looks changes nothing but the watchdog's own state, and  *)
(* leads to a launch only past an empty worker.                            *)
LEMMA LookStep ==
  ASSUME IInv, Look
  PROVE  /\ alloc' = alloc /\ orchs' = orchs /\ pending' = pending /\ proc' = proc
         /\ backbone' = backbone /\ saved' = saved /\ deaths' = deaths /\ victims' = victims
         /\ wd' \in {"sleep", "aliveM", "aliveW", "discover", "backboneM", "backboneW", "ib",
                    "recheckM", "recheckW", "cleanM", "gpuW", "launch"}
         /\ streak' \in 0 .. 2 /\ seen' \in BOOLEAN /\ flakes' \in 0 .. MaxFlakes
         /\ wd' = "launch" => "w" \notin proc
<1> USE WatchdogAssumption DEF Look, AliveDiscover, AliveMaster, AliveWorker, Discover, BackboneMaster,
         BackboneWorker, IbInfo, RecheckMaster, RecheckWorker, GpuMaster, GpuWorker,
         Ssh, Goto, Up, Down, Retry, Busy,
         IInv, TypeOK, Nodes, cluster
<1>1. /\ alloc' = alloc /\ orchs' = orchs /\ pending' = pending /\ proc' = proc
      /\ backbone' = backbone /\ saved' = saved /\ deaths' = deaths /\ victims' = victims
  OBVIOUS
<1>2. wd' \in {"sleep", "aliveM", "aliveW", "discover", "backboneM", "backboneW", "ib",
              "recheckM", "recheckW", "cleanM", "gpuW", "launch"}
  OBVIOUS
<1>3. streak' \in 0 .. 2 OBVIOUS
<1>4. seen' \in BOOLEAN OBVIOUS
<1>5. flakes' \in 0 .. MaxFlakes OBVIOUS
<1>6. wd' = "launch" => "w" \notin proc OBVIOUS
<1> HIDE DEF Look, AliveDiscover, AliveMaster, AliveWorker, Discover, BackboneMaster, BackboneWorker, IbInfo, RecheckMaster, RecheckWorker, GpuMaster, GpuWorker, Ssh, Goto, Up, Down, Retry, Busy
<1> QED BY <1>1, <1>2, <1>3, <1>4, <1>5, <1>6

(* A cleanup command takes away, and touches nothing else of the cluster.  *)
LEMMA CleanStep ==
  ASSUME IInv, CleanMaster \/ CleanWorker
  PROVE  /\ wd \in {"cleanM", "cleanW"} /\ wd' \in {"cleanW", "gpuM"}
         /\ streak' = streak /\ seen' = seen /\ alloc' = alloc /\ saved' = saved
         /\ deaths' = deaths
         /\ flakes' \in 0 .. MaxFlakes /\ flakes' >= flakes
         /\ proc' \subseteq proc /\ pending' \subseteq pending /\ backbone' \subseteq backbone
         /\ orchs' = orchs \/ (orchs' = 0 /\ pending' = {} /\ "m" \notin proc')
         /\ victims' \subseteq {"healthy", "backbone"}
         /\ "healthy" \in victims' => "healthy" \in victims \/ Healthy
<1> USE WatchdogAssumption DEF CleanMaster, CleanWorker, Cleanup, Kill, Ssh, IInv, TypeOK, Nodes
<1>1. /\ wd \in {"cleanM", "cleanW"} /\ wd' \in {"cleanW", "gpuM"}
      /\ streak' = streak /\ seen' = seen /\ alloc' = alloc /\ saved' = saved
      /\ deaths' = deaths
  OBVIOUS
<1>2. flakes' \in 0 .. MaxFlakes /\ flakes' >= flakes OBVIOUS
<1>3. proc' \subseteq proc OBVIOUS
<1>4. pending' \subseteq pending OBVIOUS
<1>5. backbone' \subseteq backbone OBVIOUS
<1>6. orchs' = orchs \/ (orchs' = 0 /\ pending' = {} /\ "m" \notin proc') OBVIOUS
<1>7. victims' \subseteq {"healthy", "backbone"} OBVIOUS
<1>8. "healthy" \in victims' => "healthy" \in victims \/ Healthy OBVIOUS
<1> HIDE DEF CleanMaster, CleanWorker, Cleanup, Kill, Ssh, IInv, TypeOK
<1> QED BY <1>1, <1>2, <1>3, <1>4, <1>5, <1>6, <1>7, <1>8

(* A launch starts a launcher only where none is, and a probe that fails   *)
(* has cost a command.                                                     *)
LEMMA LaunchStep ==
  ASSUME IInv, Launch
  PROVE  /\ wd = "launch" /\ wd' = "sleep"
         /\ seen' = seen /\ alloc' = alloc /\ saved' = saved /\ deaths' = deaths
         /\ proc' = proc /\ backbone' = backbone /\ victims' = victims
         /\ flakes' \in 0 .. MaxFlakes /\ flakes' >= flakes
         /\ streak' \in 0 .. 2
         /\ \/ orchs' = orchs /\ pending' = pending
            \/ /\ orchs = 0 /\ orchs' = 1 /\ pending' = Nodes /\ alloc
               /\ streak' = 0 \/ flakes' >= 1
<1> USE WatchdogAssumption DEF Launch, LockTaken, Ssh, IInv, TypeOK, Nodes
<1>1. /\ wd = "launch" /\ wd' = "sleep"
      /\ seen' = seen /\ alloc' = alloc /\ saved' = saved /\ deaths' = deaths
      /\ proc' = proc /\ backbone' = backbone /\ victims' = victims
  OBVIOUS
<1>2. flakes' \in 0 .. MaxFlakes /\ flakes' >= flakes OBVIOUS
<1>3. streak' \in 0 .. 2 OBVIOUS
<1>4. \/ orchs' = orchs /\ pending' = pending
      \/ /\ orchs = 0 /\ orchs' = 1 /\ pending' = Nodes /\ alloc
         /\ streak' = 0 \/ flakes' >= 1
  OBVIOUS
<1> QED BY <1>1, <1>2, <1>3, <1>4

(* The cluster's own steps leave the watchdog alone, and start no process  *)
(* that a launcher did not hold ready.                                     *)
LEMMA ClusterStepFacts ==
  ASSUME IInv, ClusterStep
  PROVE  /\ wd' = wd /\ streak' = streak /\ seen' = seen /\ flakes' = flakes
         /\ victims' = victims
         /\ alloc' \in BOOLEAN /\ saved' \in BOOLEAN /\ deaths' \in 0 .. MaxDeaths
         /\ pending' \subseteq pending /\ proc' \cup pending' \subseteq proc \cup pending
         /\ backbone' \subseteq backbone
         /\ orchs' = orchs \/ (orchs' = 0 /\ pending' = {} /\ proc' = {})
         /\ pending' \cap proc' = {}
         /\ ~ alloc' => (~ alloc \/ (pending' = {} /\ proc' = {}))
<1> USE WatchdogAssumption DEF ClusterStep, ProcStart, ProcDie, PeerTimeout, LauncherExit, FirstSave,
         AllocLost, AllocBack, BackboneEnds, Unseen,
         IInv, TypeOK, OneLauncher, Nodes
<1>1. wd' = wd /\ streak' = streak /\ seen' = seen /\ flakes' = flakes /\ victims' = victims
  OBVIOUS
<1>2. alloc' \in BOOLEAN /\ saved' \in BOOLEAN OBVIOUS
<1>3. deaths' \in 0 .. MaxDeaths OBVIOUS
<1>4. pending' \subseteq pending OBVIOUS
<1>5. proc' \cup pending' \subseteq proc \cup pending OBVIOUS
<1>6. backbone' \subseteq backbone OBVIOUS
<1>7. orchs' = orchs \/ (orchs' = 0 /\ pending' = {} /\ proc' = {}) OBVIOUS
<1>8. pending' \cap proc' = {} OBVIOUS
<1>9. ~ alloc' => (~ alloc \/ (pending' = {} /\ proc' = {})) OBVIOUS
<1> HIDE DEF ClusterStep, ProcStart, ProcDie, PeerTimeout, LauncherExit, FirstSave, AllocLost, AllocBack, BackboneEnds, Unseen, IInv, TypeOK, OneLauncher
<1> QED BY <1>1, <1>2, <1>3, <1>4, <1>5, <1>6, <1>7, <1>8, <1>9

-----------------------------------------------------------------------------
(* Every step keeps the types, the single launcher and LaunchInv.          *)
LEMMA IInvStep ==
  ASSUME IInv, [Next]_vars
  PROVE  IInv'
<1>0. late' \in BOOLEAN BY LateStep DEF IInv, TypeOK
<1>1. CASE Look
  <2>1. TypeOK' BY <1>0, <1>1, LookStep DEF IInv, TypeOK, Commands
  <2>2. OneLauncher' BY <1>1, LookStep DEF IInv, OneLauncher, LaunchInv
  <2>3. LaunchInv' BY <1>1, LookStep DEF IInv, TypeOK, LaunchInv, OneLauncher, Nodes
  <2> QED BY <2>1, <2>2, <2>3 DEF IInv
<1>2. CASE CleanMaster \/ CleanWorker
  <2>1. TypeOK' BY <1>0, <1>2, CleanStep DEF IInv, TypeOK, Commands
  <2>2. OneLauncher' BY <1>2, CleanStep DEF IInv, OneLauncher, LaunchInv
  <2>3. LaunchInv' BY <1>2, CleanStep DEF IInv, TypeOK, LaunchInv, OneLauncher, Nodes
  <2> QED BY <2>1, <2>2, <2>3 DEF IInv
<1>3. CASE Launch
  <2>1. TypeOK'
    <3>1. streak' \in 0 .. 2 /\ flakes' \in 0 .. MaxFlakes /\ deaths' \in 0 .. MaxDeaths
      BY <1>3, LaunchStep DEF IInv, TypeOK
    <3>2. seen' \in BOOLEAN /\ alloc' \in BOOLEAN /\ saved' \in BOOLEAN
      BY <1>3, LaunchStep DEF IInv, TypeOK
    <3>3. orchs' \in Nat /\ pending' \subseteq Nodes
      BY <1>3, LaunchStep DEF IInv, TypeOK
    <3>4. /\ proc' \subseteq Nodes /\ backbone' \subseteq Nodes
          /\ victims' \subseteq {"healthy", "backbone"}
      BY <1>3, LaunchStep DEF IInv, TypeOK
    <3>5. wd' \in Commands BY <1>3, LaunchStep DEF Commands
    <3> QED BY <1>0, <3>1, <3>2, <3>3, <3>4, <3>5 DEF TypeOK
  <2>2. OneLauncher' BY <1>3, LaunchStep DEF IInv, OneLauncher, LaunchInv
  <2>3. LaunchInv' BY <1>3, LaunchStep DEF IInv, TypeOK, LaunchInv, OneLauncher, Nodes
  <2> QED BY <2>1, <2>2, <2>3 DEF IInv
<1>4. CASE ClusterStep
  <2>1. TypeOK'
    <3>1. alloc' \in BOOLEAN /\ saved' \in BOOLEAN /\ seen' \in BOOLEAN
      BY <1>4, ClusterStepFacts DEF IInv, TypeOK
    <3>2. /\ orchs' \in Nat /\ pending' \subseteq Nodes /\ proc' \subseteq Nodes
          /\ backbone' \subseteq Nodes /\ deaths' \in 0 .. MaxDeaths
      BY <1>4, ClusterStepFacts DEF IInv, TypeOK
    <3>3. wd' = wd /\ streak' = streak /\ flakes' = flakes /\ victims' = victims
      BY <1>4, ClusterStepFacts
    <3> QED BY <1>0, <3>1, <3>2, <3>3 DEF IInv, TypeOK
  <2>2. OneLauncher' BY <1>4, ClusterStepFacts DEF IInv, OneLauncher, LaunchInv
  <2>3. LaunchInv' BY <1>4, ClusterStepFacts DEF IInv, TypeOK, LaunchInv, OneLauncher, Nodes
  <2> QED BY <2>1, <2>2, <2>3 DEF IInv
<1>5. CASE UNCHANGED vars
  BY <1>5 DEF vars, cluster, IInv, TypeOK, OneLauncher, LaunchInv
<1> QED BY <1>1, <1>2, <1>3, <1>4, <1>5, StepCases

(* Looking at a run that is up: each bad answer is a failed command.       *)
LEMMA LookCost ==
  ASSUME IInv, FlakeInv, Look, AliveDiscover => pending = {}
  PROVE  /\ pending # {} => wd' = "sleep"
         /\ ComingUp =>
              /\ streak' > 0 => flakes' >= 1
              /\ wd' \in Deciding => flakes' >= 2
              /\ wd' \in Acting => flakes' >= 3
<1> USE WatchdogAssumption DEF Look, AliveDiscover, AliveMaster, AliveWorker, Discover, BackboneMaster,
         BackboneWorker, IbInfo, RecheckMaster, RecheckWorker, GpuMaster, GpuWorker,
         Ssh, Goto, Up, Down, Retry, Busy,
         IInv, TypeOK, Nodes, cluster, FlakeInv, ComingUp, Deciding, Acting
<1>1. pending # {} => wd' = "sleep" OBVIOUS
<1>2. ComingUp /\ streak' > 0 => flakes' >= 1 OBVIOUS
<1>3. ComingUp /\ wd' \in Deciding => flakes' >= 2 OBVIOUS
<1>4. ComingUp /\ wd' \in Acting => flakes' >= 3 OBVIOUS
<1> HIDE DEF Look, AliveDiscover, AliveMaster, AliveWorker, Discover, BackboneMaster, BackboneWorker, IbInfo, RecheckMaster, RecheckWorker, GpuMaster, GpuWorker, Ssh, Goto, Up, Down, Retry, Busy, IInv, TypeOK, FlakeInv, ComingUp, Deciding, Acting
<1> QED BY <1>1, <1>2, <1>3, <1>4

(* Every step keeps the account of failed commands, where a launch is over *)
(* before the next check.                                                  *)
LEMMA FlakeInvStep ==
  ASSUME IInv, FlakeInv, [Next]_vars, ~ late'
  PROVE  FlakeInv'
<1> USE DEF FlakeInv, ComingUp
<1>1. CASE Look
  <2>1. AliveDiscover => pending = {} BY LateStep DEF IInv, TypeOK
  <2> QED BY <1>1, <2>1, LookStep, LookCost
<1>2. CASE CleanMaster \/ CleanWorker
  <2>1. ComingUp' => ComingUp BY <1>2, CleanStep DEF IInv, TypeOK
  <2>2. flakes \in Nat BY WatchdogAssumption DEF IInv, TypeOK
  <2> QED BY <1>2, <2>1, <2>2, CleanStep DEF Deciding, Acting
<1>3. CASE Launch
  <2>1. flakes \in Nat BY WatchdogAssumption DEF IInv, TypeOK
  <2> QED BY <1>3, <2>1, LaunchStep DEF Deciding, Acting
<1>4. CASE ClusterStep
  <2>1. ComingUp' => ComingUp BY <1>4, ClusterStepFacts DEF IInv, TypeOK
  <2>2. alloc \in BOOLEAN BY DEF IInv, TypeOK
  <2> QED BY <1>4, <2>1, <2>2, ClusterStepFacts
<1>5. CASE UNCHANGED vars
  BY <1>5 DEF vars, cluster, Deciding, Acting
<1> QED BY <1>1, <1>2, <1>3, <1>4, <1>5, StepCases

(* No step kills a run that is up while at most two commands have failed.  *)
LEMMA HealthyStep ==
  ASSUME IInv, FlakeInv, "healthy" \notin victims, flakes <= 2, [Next]_vars
  PROVE  "healthy" \notin victims'
<1>1. CASE Look BY <1>1, LookStep
<1>2. CASE CleanMaster \/ CleanWorker
  <2>1. ~ Healthy
    BY <1>2, CleanStep, WatchdogAssumption DEF Healthy, FlakeInv, ComingUp, Acting, IInv, TypeOK
  <2> QED BY <1>2, <2>1, CleanStep
<1>3. CASE Launch BY <1>3, LaunchStep
<1>4. CASE ClusterStep BY <1>4, ClusterStepFacts
<1>5. CASE UNCHANGED vars BY <1>5 DEF vars
<1> QED BY <1>1, <1>2, <1>3, <1>4, <1>5, StepCases

-----------------------------------------------------------------------------
LEMMA InitInv == Init => IInv /\ FlakeInv /\ "healthy" \notin victims
<1> SUFFICES ASSUME Init PROVE IInv /\ FlakeInv /\ "healthy" \notin victims
  OBVIOUS
<1>1. TypeOK
  <2>1. late \in BOOLEAN /\ seen \in BOOLEAN /\ alloc \in BOOLEAN /\ saved \in BOOLEAN BY DEF Init
  <2>2. flakes \in 0 .. MaxFlakes /\ deaths \in 0 .. MaxDeaths
    BY WatchdogAssumption DEF Init
  <2>3. wd = "sleep" /\ streak = 0 /\ orchs = 1 /\ pending = {} /\ proc = Nodes /\ victims = {}
    BY DEF Init
  <2>4. backbone \subseteq Nodes BY DEF Init
  <2> QED BY <2>1, <2>2, <2>3, <2>4 DEF TypeOK, Commands
<1>2. OneLauncher BY DEF Init, OneLauncher
<1>3. LaunchInv BY DEF Init, LaunchInv
<1>4. FlakeInv BY DEF Init, FlakeInv, Deciding, Acting
<1>5. "healthy" \notin victims BY DEF Init
<1> QED BY <1>1, <1>2, <1>3, <1>4, <1>5 DEF IInv

(* The watchdog's and the cluster's state stays in range.                  *)
THEOREM TypeCorrect == Spec => []TypeOK
<1>1. Init => IInv BY InitInv
<1>2. IInv /\ [Next]_vars => IInv' BY IInvStep
<1>3. IInv => TypeOK BY DEF IInv
<1> QED BY <1>1, <1>2, <1>3, PTL DEF Spec

(* There are never two launchers, nor two groups of training processes on  *)
(* a node, however many commands fail and however late a launch comes up.  *)
THEOREM OneLauncherCorrect == Spec => []OneLauncher
<1>1. Init => IInv BY InitInv
<1>2. IInv /\ [Next]_vars => IInv' BY IInvStep
<1>3. IInv => OneLauncher BY DEF IInv
<1> QED BY <1>1, <1>2, <1>3, PTL DEF Spec

(* Failed commands are only counted up.                                    *)
LEMMA FlakesGrow ==
  ASSUME IInv, [Next]_vars
  PROVE  flakes \in Nat /\ flakes' \in Nat /\ flakes' >= flakes
<1>0. flakes \in Nat BY WatchdogAssumption DEF IInv, TypeOK
<1>1. CASE Look
  BY <1>0, <1>1 DEF Look, AliveDiscover, AliveMaster, AliveWorker, Discover, BackboneMaster,
     BackboneWorker, IbInfo, RecheckMaster, RecheckWorker, GpuMaster, GpuWorker, Ssh
<1>2. CASE CleanMaster \/ CleanWorker BY <1>0, <1>2, CleanStep, WatchdogAssumption
<1>3. CASE Launch BY <1>0, <1>3, LaunchStep, WatchdogAssumption
<1>4. CASE ClusterStep BY <1>0, <1>4, ClusterStepFacts
<1>5. CASE UNCHANGED vars BY <1>0, <1>5 DEF vars
<1> QED BY <1>1, <1>2, <1>3, <1>4, <1>5, StepCases

(* A run that is up on both nodes survives any two failed commands, as     *)
(* long as every launch is over before the next check.                     *)
THEOREM HealthyNeverKilledCorrect == Spec => []HealthyNeverKilled
<1> DEFINE Safe == flakes <= 2 => "healthy" \notin victims
           Inv  == IInv /\ (~ late => FlakeInv /\ Safe)
<1>1. Init => Inv BY InitInv DEF Init
<1>2. Inv /\ [Next]_vars => Inv'
  <2> SUFFICES ASSUME Inv, [Next]_vars PROVE Inv' OBVIOUS
  <2>1. IInv' BY IInvStep
  <2>2. ASSUME ~ late' PROVE FlakeInv' /\ Safe'
    <3>1. ~ late BY <2>2, LateStep DEF IInv, TypeOK
    <3>2. FlakeInv' BY <2>2, <3>1, FlakeInvStep
    <3>3. flakes' <= 2 => flakes <= 2 BY FlakesGrow
    <3>4. Safe' BY <3>1, <3>3, HealthyStep
    <3> QED BY <3>2, <3>4
  <2> QED BY <2>1, <2>2
<1>3. Inv => HealthyNeverKilled BY DEF HealthyNeverKilled
<1> QED BY <1>1, <1>2, <1>3, PTL DEF Spec

-----------------------------------------------------------------------------
(* While every command is answered, the watchdog gets past the backbone    *)
(* test only when no node hosts one, and nobody starts one afterwards.     *)
BackboneInv ==
  flakes = 0 =>
    /\ wd = "backboneW" /\ ~ seen => "m" \notin backbone
    /\ wd \in {"ib", "recheckM", "recheckW", "cleanM", "cleanW"} => backbone = {}
    /\ "backbone" \notin victims

LEMMA BackboneLook ==
  ASSUME IInv, BackboneInv, Look, flakes' = 0
  PROVE  /\ wd' = "backboneW" /\ ~ seen' => "m" \notin backbone
         /\ wd' \in {"ib", "recheckM", "recheckW", "cleanM", "cleanW"} => backbone = {}
         /\ flakes = 0
<1> USE WatchdogAssumption DEF Look, AliveDiscover, AliveMaster, AliveWorker, Discover, BackboneMaster,
         BackboneWorker, IbInfo, RecheckMaster, RecheckWorker, GpuMaster, GpuWorker,
         Ssh, Goto, Up, Down, Retry, IInv, TypeOK, Nodes, BackboneInv
<1>1. flakes = 0 OBVIOUS
<1>2. wd' = "backboneW" /\ ~ seen' => "m" \notin backbone BY <1>1
<1>3. wd' \in {"ib", "recheckM", "recheckW", "cleanM", "cleanW"} => backbone = {} BY <1>1
<1> HIDE DEF Look, AliveDiscover, AliveMaster, AliveWorker, Discover, BackboneMaster, BackboneWorker, IbInfo, RecheckMaster, RecheckWorker, GpuMaster, GpuWorker, Ssh, Goto, Up, Down, Retry, IInv, TypeOK, BackboneInv
<1> QED BY <1>1, <1>2, <1>3

LEMMA BackboneClean ==
  ASSUME backbone = {}, CleanMaster \/ CleanWorker
  PROVE  "backbone" \in victims' => "backbone" \in victims
BY DEF CleanMaster, CleanWorker, Cleanup, Kill

LEMMA BackboneStep ==
  ASSUME IInv, BackboneInv, [Next]_vars
  PROVE  BackboneInv'
<1> SUFFICES ASSUME flakes' = 0
             PROVE  /\ wd' = "backboneW" /\ ~ seen' => "m" \notin backbone'
                    /\ wd' \in {"ib", "recheckM", "recheckW", "cleanM", "cleanW"}
                         => backbone' = {}
                    /\ "backbone" \notin victims'
  BY DEF BackboneInv
<1> USE DEF BackboneInv
<1>0. flakes \in Nat BY WatchdogAssumption DEF IInv, TypeOK
<1>1. CASE Look BY <1>1, LookStep, BackboneLook
<1>2. CASE CleanMaster \/ CleanWorker
  <2>1. flakes = 0 BY <1>0, <1>2, CleanStep
  <2>2. backbone = {} BY <1>2, <2>1, CleanStep
  <2> QED BY <1>2, <2>1, <2>2, CleanStep, BackboneClean
<1>3. CASE Launch
  <2>1. flakes = 0 BY <1>0, <1>3, LaunchStep
  <2> QED BY <1>3, <2>1, LaunchStep
<1>4. CASE ClusterStep BY <1>4, ClusterStepFacts
<1>5. CASE UNCHANGED vars BY <1>5 DEF vars, cluster
<1> QED BY <1>1, <1>2, <1>3, <1>4, <1>5, StepCases

(* As long as no command failed, no node that hosts a backbone was touched. *)
THEOREM BackboneSparedCorrect == Spec => []BackboneSpared
<1>1. Init => IInv /\ BackboneInv BY InitInv DEF Init, BackboneInv
<1>2. IInv /\ BackboneInv /\ [Next]_vars => IInv' /\ BackboneInv' BY IInvStep, BackboneStep
<1>3. IInv /\ BackboneInv => BackboneSpared
  BY DEF BackboneInv, BackboneSpared
<1> QED BY <1>1, <1>2, <1>3, PTL DEF Spec

-----------------------------------------------------------------------------
(* The ranks of a trainer that the watchdog or a launcher has started.     *)
CONSTANTS World, Trainers, Problems, MaxLaunches, MaxKills
VARIABLES trainer, problem, overwrite, resume, log, ckpt, pc, found, launch, kills

Start == INSTANCE RankStartup

(* No rank is past the point where the directory is looked at.             *)
AtTheDoor == \A s \in Start!Ranks : pc[s] \in {"guard", "barrier", "refused", "killed"}

(* Where the ranks are, together: training is entered by all at once.  A   *)
(* launch is never numbered as another run.                                *)
Placed ==
  /\ pc \in [Start!Ranks -> Start!Points]
  /\ launch \in Nat \ {0}
  /\ (\E r \in Start!Ranks : pc[r] = "train") =>
       \A s \in Start!Ranks : pc[s] \in {"train", "killed"}

(* In the denoiser nothing is written while a rank is at the door, so the  *)
(* verdicts of all ranks are about the same directory.                     *)
Verdicts ==
  trainer = "denoiser" =>
    /\ \A r \in Start!Ranks : pc[r] = "refused" => ~Start!Admits
    /\ \A r \in Start!Ranks : pc[r] = "barrier" => Start!Admits
    /\ (\E r \in Start!Ranks : pc[r] \in {"guard", "barrier", "refused"}) => AtTheDoor
    /\ found /\ AtTheDoor /\ (\E r \in Start!Ranks : pc[r] \in {"guard", "barrier", "refused"})
         => log = {} /\ ckpt = {}

(* In a directory found empty there is only what this launch has written.  *)
OwnFiles ==
  /\ found => log \in {{}, {launch}}
  /\ found /\ (\E r \in Start!Ranks : pc[r] \in {"guard", "refused"}) => ckpt = {}
  /\ found /\ (\E r \in Start!Ranks : pc[r] = "refused") => log # {}

(* Where another run's files may not be touched, no rank has entered.      *)
Outside ==
  ~overwrite /\ resume # "inside" /\ (0 \in log \/ 0 \in ckpt) =>
    \A r \in Start!Ranks : pc[r] \in {"guard", "refused", "killed"}

StartInv == Placed /\ Verdicts /\ OwnFiles /\ Outside

(* Nothing has been written, and all ranks are at the guard.               *)
LEMMA StartInitInv == Start!Init => StartInv
<1> SUFFICES ASSUME Start!Init PROVE StartInv
  OBVIOUS
<1> USE DEF Start!Init
<1>0. \A r \in Start!Ranks : pc[r] = "guard"
  OBVIOUS
<1>1. Placed
  <2>1. pc \in [Start!Ranks -> Start!Points] BY DEF Start!Points
  <2> QED BY <1>0, <2>1 DEF Placed
<1>2. Verdicts
  BY <1>0 DEF Verdicts, AtTheDoor, Start!NonEmpty
<1>3. OwnFiles
  BY <1>0 DEF OwnFiles, Start!NonEmpty
<1>4. Outside
  BY <1>0 DEF Outside
<1> QED BY <1>1, <1>2, <1>3, <1>4 DEF StartInv

(* Each step keeps each part of the invariant.                             *)
LEMMA PlacedStep ==
  ASSUME World \in Nat \ {0}, Placed, [Start!Next]_(Start!vars)
  PROVE  Placed'
<1> USE DEF Placed, Start!Points
<1>1. ASSUME NEW r \in Start!Ranks, Start!Guard(r) PROVE Placed'
  BY <1>1 DEF Start!Guard
<1>2. ASSUME NEW r \in Start!Ranks, Start!FirstLine(r) PROVE Placed'
  BY <1>2 DEF Start!FirstLine
<1>3. ASSUME NEW r \in Start!Ranks, Start!Check(r) PROVE Placed'
  BY <1>3 DEF Start!Check
<1>4. CASE Start!Barrier BY <1>4 DEF Start!Barrier
<1>5. CASE Start!Wrap BY <1>5 DEF Start!Wrap
<1>6. CASE Start!Agent BY <1>6 DEF Start!Agent, Start!Over
<1>7. CASE Start!Save BY <1>7 DEF Start!Save, Start!startup
<1>8. CASE Start!Kill BY <1>8 DEF Start!Kill, Start!Over
<1>9. CASE Start!Relaunch BY <1>9 DEF Start!Relaunch
<1>10. CASE UNCHANGED Start!vars BY <1>10 DEF Start!vars, Start!startup
<1> QED BY <1>1, <1>2, <1>3, <1>4, <1>5, <1>6, <1>7, <1>8, <1>9, <1>10 DEF Start!Next,
         Start!Work

LEMMA VerdictsStep ==
  ASSUME World \in Nat \ {0}, StartInv, [Start!Next]_(Start!vars)
  PROVE  Verdicts'
<1> SUFFICES ASSUME trainer' = "denoiser" PROVE Verdicts'
  BY DEF Verdicts
<1>0. trainer = "denoiser"
  BY DEF Start!Next, Start!Work, Start!Guard, Start!FirstLine, Start!Check, Start!Barrier,
         Start!Wrap, Start!Agent, Start!Save, Start!Kill, Start!Relaunch, Start!vars,
         Start!startup
<1> USE <1>0 DEF StartInv, Placed, Start!Points, Verdicts, AtTheDoor, Start!Admits,
         Start!NonEmpty, Start!InPlace
<1>1. ASSUME NEW r \in Start!Ranks, Start!Guard(r) PROVE Verdicts'
  BY <1>1 DEF Start!Guard, Start!Guarded
<1>2. ASSUME NEW r \in Start!Ranks, Start!FirstLine(r) PROVE Verdicts'
  BY <1>2 DEF Start!FirstLine
<1>3. ASSUME NEW r \in Start!Ranks, Start!Check(r) PROVE Verdicts'
  BY <1>3 DEF Start!Check
<1>4. CASE Start!Barrier BY <1>4 DEF Start!Barrier
<1>5. CASE Start!Wrap BY <1>5 DEF Start!Wrap
<1>6. CASE Start!Agent BY <1>6 DEF Start!Agent, Start!Over
<1>7. CASE Start!Save
  <2>1. 0 \in Start!Ranks BY DEF Start!Ranks
  <2> QED BY <1>7, <2>1 DEF Start!Save, Start!startup
<1>8. CASE Start!Kill BY <1>8 DEF Start!Kill, Start!Over
<1>9. CASE Start!Relaunch BY <1>9 DEF Start!Relaunch
<1>10. CASE UNCHANGED Start!vars BY <1>10 DEF Start!vars, Start!startup
<1> QED BY <1>1, <1>2, <1>3, <1>4, <1>5, <1>6, <1>7, <1>8, <1>9, <1>10 DEF Start!Next,
         Start!Work

LEMMA OwnFilesStep ==
  ASSUME World \in Nat \ {0}, StartInv, [Start!Next]_(Start!vars)
  PROVE  OwnFiles'
<1> USE DEF StartInv, Placed, Start!Points, OwnFiles, Start!NonEmpty
<1>1. ASSUME NEW r \in Start!Ranks, Start!Guard(r) PROVE OwnFiles'
  BY <1>1 DEF Start!Guard, Start!Admits
<1>2. ASSUME NEW r \in Start!Ranks, Start!FirstLine(r) PROVE OwnFiles'
  BY <1>2 DEF Start!FirstLine
<1>3. ASSUME NEW r \in Start!Ranks, Start!Check(r) PROVE OwnFiles'
  BY <1>3 DEF Start!Check
<1>4. CASE Start!Barrier BY <1>4 DEF Start!Barrier
<1>5. CASE Start!Wrap BY <1>5 DEF Start!Wrap
<1>6. CASE Start!Agent BY <1>6 DEF Start!Agent, Start!Over
<1>7. CASE Start!Save
  <2>1. 0 \in Start!Ranks BY DEF Start!Ranks
  <2> QED BY <1>7, <2>1 DEF Start!Save, Start!startup
<1>8. CASE Start!Kill BY <1>8 DEF Start!Kill, Start!Over
<1>9. CASE Start!Relaunch BY <1>9 DEF Start!Relaunch
<1>10. CASE UNCHANGED Start!vars BY <1>10 DEF Start!vars, Start!startup
<1> QED BY <1>1, <1>2, <1>3, <1>4, <1>5, <1>6, <1>7, <1>8, <1>9, <1>10 DEF Start!Next,
         Start!Work

LEMMA OutsideStep ==
  ASSUME World \in Nat \ {0}, StartInv, [Start!Next]_(Start!vars)
  PROVE  Outside'
<1> USE DEF StartInv, Placed, Start!Points, Outside
<1>1. ASSUME NEW r \in Start!Ranks, Start!Guard(r) PROVE Outside'
  BY <1>1 DEF Start!Guard, Start!Admits, Start!NonEmpty, Start!InPlace
<1>2. ASSUME NEW r \in Start!Ranks, Start!FirstLine(r) PROVE Outside'
  BY <1>2 DEF Start!FirstLine
<1>3. ASSUME NEW r \in Start!Ranks, Start!Check(r) PROVE Outside'
  BY <1>3 DEF Start!Check
<1>4. CASE Start!Barrier BY <1>4 DEF Start!Barrier
<1>5. CASE Start!Wrap BY <1>5 DEF Start!Wrap
<1>6. CASE Start!Agent BY <1>6 DEF Start!Agent, Start!Over
<1>7. CASE Start!Save
  <2>1. 0 \in Start!Ranks BY DEF Start!Ranks
  <2> QED BY <1>7, <2>1 DEF Start!Save, Start!startup
<1>8. CASE Start!Kill BY <1>8 DEF Start!Kill, Start!Over
<1>9. CASE Start!Relaunch BY <1>9 DEF Start!Relaunch
<1>10. CASE UNCHANGED Start!vars BY <1>10 DEF Start!vars, Start!startup
<1> QED BY <1>1, <1>2, <1>3, <1>4, <1>5, <1>6, <1>7, <1>8, <1>9, <1>10 DEF Start!Next,
         Start!Work

LEMMA StartInvAlways == ASSUME World \in Nat \ {0} PROVE Start!Spec => []StartInv
<1>1. StartInv /\ [Start!Next]_(Start!vars) => StartInv'
  BY PlacedStep, VerdictsStep, OwnFilesStep, OutsideStep DEF StartInv
<1> QED BY StartInitInv, <1>1, PTL DEF Start!Spec

(* The barrier before the log makes all ranks of the denoiser judge the    *)
(* directory alike (train_denoiser.py, the barrier after mkdir).           *)
THEOREM OneVerdictCorrect ==
  ASSUME World \in Nat \ {0}
  PROVE  Start!Spec => []Start!OneVerdict
<1>1. StartInv => Start!OneVerdict
  BY DEF StartInv, Verdicts, Start!OneVerdict, AtTheDoor
<1> QED BY StartInvAlways, <1>1, PTL

(* A launch refuses an empty directory only for its own log, and the       *)
(* denoiser never does.                                                    *)
THEOREM RefusesOwnLogCorrect ==
  ASSUME World \in Nat \ {0}
  PROVE  Start!Spec => []Start!RefusesOwnLog
<1>1. StartInv => Start!RefusesOwnLog
  BY DEF StartInv, Verdicts, OwnFiles, Start!RefusesOwnLog, AtTheDoor
<1> QED BY StartInvAlways, <1>1, PTL

(* The files of another run survive every launch that was not told to      *)
(* overwrite them.                                                         *)
THEOREM StrangersKeptCorrect ==
  ASSUME World \in Nat \ {0}
  PROVE  Start!Spec => Start!StrangersKept
<1>1. StartInv /\ [Start!Next]_(Start!vars) => [Start!StrangersStep]_(Start!vars)
  <2> SUFFICES ASSUME StartInv, [Start!Next]_(Start!vars)
            PROVE Start!StrangersStep \/ UNCHANGED Start!vars
    OBVIOUS
  <2>1. ASSUME NEW r \in Start!Ranks, Start!FirstLine(r) PROVE Start!StrangersStep
    BY <2>1 DEF Start!FirstLine, Start!StrangersStep, StartInv, Outside
  <2>2. CASE Start!Save
    <3>1. 0 \in Start!Ranks BY DEF Start!Ranks
    <3> QED BY <2>2, <3>1 DEF Start!Save, Start!StrangersStep, StartInv, Outside
  <2>3. CASE log' = log /\ ckpt' = ckpt
    BY <2>3 DEF Start!StrangersStep
  <2> QED
    BY <2>1, <2>2, <2>3 DEF Start!Next, Start!Work, Start!Guard, Start!Check, Start!Barrier,
             Start!Wrap, Start!Agent, Start!Kill, Start!Relaunch
<1> QED BY StartInvAlways, <1>1, PTL DEF Start!Spec, Start!StrangersKept
=============================================================================
