------------------------------ MODULE MCScripts ------------------------------
(***************************************************************************)
(* The programs beside the two token stages, on small instances: the       *)
(* scripts that write data sets (filter, prune, fix, convert), the direct  *)
(* baseline (pair), the evaluator (judge), the measurement of generation   *)
(* (measure), and how the trainers start (start, warm).  A behaviour is    *)
(* one of them, chosen at the start.  They do not share state, so each     *)
(* keeps its variables in the same registers.                              *)
(***************************************************************************)
EXTENDS Integers, Sequences, FiniteSets

VARIABLES part, v1, v2, v3, v4, v5, v6, v7, v8, v9, v10, v11, v12, v13, v14, v15, v16

vars == <<part, v1, v2, v3, v4, v5, v6, v7, v8, v9, v10, v11, v12, v13, v14, v15, v16>>

(* Two clips of one object and one of another; lists that overlap.         *)
Filter == INSTANCE DatasetFilter WITH
  Clips <- {"a1", "a2", "b1", "b2"},
  ObjectOf <- [c \in {"a1", "a2", "b1", "b2"} |-> IF c \in {"a1", "a2"} THEN "a" ELSE "b"],
  Removals <- {{"a1"}, {"a1", "a2"}, {"a2", "b1"}},
  Kinds <- {"animo4d", "zoo"}, MaxJobs <- 3, MaxKills <- 1,
  kind <- v1, motions <- v2, bvhs <- v3, parked <- v4, about <- v5, present <- v6,
  torn <- v7, backup <- v8, cut <- v9, cache <- v10, stale <- v11, job <- v12,
  todo <- v13, last <- v14, jobs <- v15, kills <- v16

Prune == INSTANCE SkeletonPrune WITH
  MaxJoints <- 4,
  script <- v1, par <- v2, match <- v3, phase <- v4, stack <- v5, remove <- v6,
  keep <- v7, newPar <- v8, chains <- v9

(* A species of three clips and one of a single clip.                      *)
Fix == INSTANCE PreprocessFix WITH
  Clips <- 1 .. 4, SpeciesOf <- [c \in 1 .. 4 |-> IF c <= 3 THEN "elk" ELSE "hare"],
  Sizes <- {2, 3}, MaxRuns <- 2,
  clip <- v1, skeleton <- v2, torn <- v3, phase <- v4, bySpecies <- v5, canonical <- v6,
  doomed <- v7, actions <- v8, checked <- v9, runs <- v10

(* A clip in two lists, a short one, and one that only the test list has.  *)
Human == INSTANCE HumanConversion WITH
  Clips <- 1 .. 5,
  Official <- [s \in {"train", "val", "test"} |->
                 CASE s = "train" -> {1, 2, 5} [] s = "val" -> {2, 3} [] OTHER -> {4}],
  Short <- {5}, Selections <- {1 .. 5, {1, 3}, {4}}, MaxRuns <- 3,
  files <- v1, cond <- v2, lists <- v3, captions <- v4, torn <- v5, pc <- v6,
  ids <- v7, chosen <- v8, sums <- v9, written <- v10, run <- v11

Five == <<"a", "b", "c", "d", "e">>

Clean == [src |-> Five, tgt |-> Five, retained |-> {"a", "b", "c", "d", "e"},
          ik |-> {"a", "b", "c", "d", "e"}, long |-> {}, keys |-> TRUE, splits |-> TRUE,
          names |-> TRUE, unlike |-> {}, misfit |-> {}]

(* Clean files, fewer clips than ranks, and each thing that may be wrong.  *)
Inputs ==
  {Clean, [Clean EXCEPT !.retained = {"a", "c", "d", "e"}], [Clean EXCEPT !.retained = {"b"}],
   [Clean EXCEPT !.retained = {}],
   [Clean EXCEPT !.src = <<"b", "a", "c", "d", "e">>], [Clean EXCEPT !.ik = {"a"}],
   [Clean EXCEPT !.long = {"a"}], [Clean EXCEPT !.keys = FALSE], [Clean EXCEPT !.splits = FALSE],
   [Clean EXCEPT !.names = FALSE], [Clean EXCEPT !.unlike = {"d"}],
   [Clean EXCEPT !.misfit = {"e"}]}

Pair == INSTANCE PairedTraining WITH
  World <- 2, Batch <- 1, Epochs <- 3, SaveEvery <- 2, Losses <- {0, 1}, Inputs <- Inputs,
  Orders <- [n \in {5} |-> {[s \in 0 .. 4 |-> [i \in 1 .. 5 |-> 1 + ((i + k * s) % 5)]] :
                              k \in {0, 1, 2}}],
  input <- v1, order <- v2, pc <- v3, fine <- v4, epoch <- v5, step <- v6, drawn <- v7,
  weights <- v8, updates <- v9, best <- v10, logs <- v11, bestFile <- v12, lastFile <- v13

Of(m, s, c) == [motion |-> m, source |-> s, caption |-> c]

(* Clips that share a motion, a source or a caption, across the ranks.     *)
Listed == <<Of("m1", "s1", "c1"), Of("m2", "s1", "c2"), Of("m3", "s3", "c1"),
            Of("m4", "s4", "c4"), Of("m1", "s5", "c5")>>

Judge == INSTANCE EvaluatorTraining WITH
  World <- 2, Batch <- 1, Epochs <- 2, SaveEvery <- 2, ValEvery <- 1, MaxSteps <- 3,
  Scores <- {0, 1}, Lists <- {Listed, SubSeq(Listed, 1, 4), SubSeq(Listed, 1, 1)},
  Orders <- [n \in 1 .. 5 |-> [e \in 0 .. 1 |-> [i \in 1 .. n |-> 1 + ((i + e) % n)]]],
  MaxRuns <- 2,
  clips <- v1, valList <- v2, pc <- v3, epoch <- v4, step <- v5, total <- v6, batch <- v7,
  texts <- v8, motions <- v9, metas <- v10, best <- v11, valLog <- v12, bestFile <- v13,
  saved <- v14, run <- v15

(* Clips shorter than a chunk, odd, and longer than the flow can sample.   *)
Measure == INSTANCE GenEval WITH
  Frames <- <<3, 5, 2, 9, 4, 7, 1>>, Captions <- <<"a", "b", "a", "c", "d", "e", "b">>,
  Kind <- <<"animal", "human", "human", "animal", "truebones", "animal", "human">>,
  Stride <- 2, MaxLatent <- 3, GenBatch <- 2, Takes <- {0, 1, 3, 4, 5}, Pool <- 2,
  pc <- v1, baseline <- v2, sidecar <- v3, idxs <- v4, at <- v5, rng <- v6, text <- v7,
  read <- v8, gen <- v9, real <- v10, mids <- v11, clamps <- v12, subsets <- v13, asked <- v14

(* Three ranks, two launches of which one may be stopped.                  *)
Start == INSTANCE RankStartup WITH
  World <- 3, Trainers <- {"vae", "tokenizer", "flow", "denoiser"},
  Problems <- {"fewer clips than a batch", "no validation", "clip longer than the window"},
  MaxLaunches <- 2, MaxKills <- 1,
  trainer <- v1, problem <- v2, overwrite <- v3, resume <- v4, log <- v5, ckpt <- v6,
  pc <- v7, found <- v8, launch <- v9, kills <- v10

Warm == INSTANCE WarmStart WITH
  Pools <- {"none", "dynamic", "edge"},
  from <- v1, to <- v2, how <- v3, loaded <- v4, result <- v5

ASSUME ScriptAssumption ==
  /\ Filter!FilterAssumption /\ Prune!PruneAssumption /\ Fix!FixAssumption
  /\ Human!ConversionAssumption /\ Pair!PairedAssumption /\ Judge!EvaluatorAssumption
  /\ Measure!GenEvalAssumption

(* The registers a part does not use.                                      *)
From6  == <<v6, v7, v8, v9, v10, v11, v12, v13, v14, v15, v16>>
From10 == <<v10, v11, v12, v13, v14, v15, v16>>
From11 == <<v11, v12, v13, v14, v15, v16>>
From12 == <<v12, v13, v14, v15, v16>>
From14 == <<v14, v15, v16>>
From15 == <<v15, v16>>

Init ==
  \/ part = "filter" /\ Filter!Init
  \/ /\ part = "prune" /\ Prune!Init
     /\ v10 = 0 /\ v11 = 0 /\ v12 = 0 /\ v13 = 0 /\ v14 = 0 /\ v15 = 0 /\ v16 = 0
  \/ /\ part = "fix" /\ Fix!Init
     /\ v11 = 0 /\ v12 = 0 /\ v13 = 0 /\ v14 = 0 /\ v15 = 0 /\ v16 = 0
  \/ part = "convert" /\ Human!Init /\ v12 = 0 /\ v13 = 0 /\ v14 = 0 /\ v15 = 0 /\ v16 = 0
  \/ part = "pair" /\ Pair!Init /\ v14 = 0 /\ v15 = 0 /\ v16 = 0
  \/ part = "judge" /\ Judge!Init /\ v16 = 0
  \/ part = "measure" /\ Measure!Init /\ v15 = 0 /\ v16 = 0
  \/ /\ part = "start" /\ Start!Init
     /\ v11 = 0 /\ v12 = 0 /\ v13 = 0 /\ v14 = 0 /\ v15 = 0 /\ v16 = 0
  \/ /\ part = "warm" /\ Warm!Init /\ v6 = 0 /\ v7 = 0 /\ v8 = 0 /\ v9 = 0 /\ v10 = 0
     /\ v11 = 0 /\ v12 = 0 /\ v13 = 0 /\ v14 = 0 /\ v15 = 0 /\ v16 = 0

PruneNext == part = "prune" /\ Prune!Next /\ UNCHANGED <<part, From10>>
PairNext  == part = "pair" /\ Pair!Next /\ UNCHANGED <<part, From14>>
Work      == part = "judge" /\ Judge!Work /\ UNCHANGED <<part, v16>>
StartWork == part = "start" /\ Start!Work /\ UNCHANGED <<part, From11>>

Next ==
  \/ part = "filter" /\ Filter!Next /\ UNCHANGED part
  \/ PruneNext
  \/ part = "fix" /\ Fix!Next /\ UNCHANGED <<part, From11>>
  \/ part = "convert" /\ Human!Next /\ UNCHANGED <<part, From12>>
  \/ PairNext
  \/ part = "judge" /\ Judge!Next /\ UNCHANGED <<part, v16>>
  \/ part = "measure" /\ Measure!Next /\ UNCHANGED <<part, From15>>
  \/ part = "start" /\ Start!Next /\ UNCHANGED <<part, From11>>
  \/ part = "warm" /\ Warm!Next /\ UNCHANGED <<part, From6>>

Spec == Init /\ [][Next]_vars /\ WF_vars(PruneNext) /\ WF_vars(PairNext) /\ WF_vars(Work)
        /\ WF_vars(StartWork)

-----------------------------------------------------------------------------
(* Properties, each a statement about the parts it names.                  *)

(* The data directory that a script leaves when it ends agrees with        *)
(* itself, whatever runs were killed before; a directory the loader        *)
(* accepts is the work of one run, and pruning keeps the skeleton of the   *)
(* joints that stay.                                                       *)
DirectoriesAgree ==
  CASE part = "filter"  -> /\ Filter!TypeOK /\ Filter!FilteredAgrees
                           /\ Filter!OriginalsKept /\ Filter!CleanAgrees
    [] part = "prune"   -> Prune!RemovedExact /\ Prune!PrunedFaithful
    [] part = "fix"     -> Fix!FinishedAgrees
    [] part = "convert" -> Human!LoadedIsOneRun /\ Human!ConvertedLoads
    [] OTHER            -> TRUE

(* The ranks of a trainer act as one: they meet in the same collectives,   *)
(* refuse a directory or an input together, share out an epoch without a   *)
(* clip twice, push apart only pairs with nothing in common over all ranks *)
(* and save the best of what was measured.                                 *)
RanksAgree ==
  CASE part = "pair"  -> /\ Pair!TypeOK /\ Pair!CollectivesMatch /\ Pair!AbortTogether
                         /\ Pair!StrandedByLoneExit /\ Pair!LoneExitStops /\ Pair!EpochExact
                         /\ Pair!UpdatedOnce /\ Pair!BestIsLowest
    [] part = "judge" -> /\ Judge!TypeOK /\ Judge!CollectivesMatch /\ Judge!NegativesExact
                         /\ Judge!BatchesDisjoint /\ Judge!BestFollowsLog
    [] part = "start" -> Start!TypeOK /\ Start!RefusesOwnLog /\ Start!OneVerdict
    [] OTHER          -> TRUE

(* What is scored is what was generated for the clip and caption beside    *)
(* it, and the network that runs is the trained one: rows, masks and       *)
(* embeddings of the measurement stay together, and loading a checkpoint   *)
(* keeps every shared tensor but those the code means to drop.             *)
ScoredIsTrained ==
  CASE part = "measure" -> /\ Measure!TypeOK /\ Measure!ChosenExact /\ Measure!RowsAligned
                           /\ Measure!ScoredIsGenerated /\ Measure!MaskCoversScored
                           /\ Measure!LookupRight /\ Measure!GeneratorKept
    [] part = "warm"    -> Warm!SharedKept /\ Warm!RoutesOpen /\ Warm!FrozenIsTrained
    [] OTHER            -> TRUE

(* No step destroys what another run or the majority needs: files of       *)
(* another run survive every launch not told to overwrite, and clips of    *)
(* the majority go only where the skeleton has gone.                       *)
NothingLost ==
  [][/\ part = "fix" => Fix!MajorityStep
     /\ part = "start" => Start!StrangersStep]_vars

(* Everything ends: the loops over a skeleton, and a run nothing prevents  *)
(* on every rank; the ranks of a launch train or are over, and the         *)
(* denoiser trains in an empty directory.                                  *)
ScriptsEnd ==
  /\ <>CASE part = "prune" -> Prune!Ended [] part = "pair" -> Pair!Ends
         [] part = "judge" -> Judge!Ends [] OTHER -> TRUE
  /\ []<>(part = "start" => Start!Resolved)
  /\ (part = "start" /\ Start!CleanStart) ~> (part = "start" /\ Start!CleanEnd)
=============================================================================
